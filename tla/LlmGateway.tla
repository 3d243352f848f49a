----------------------------- MODULE LlmGateway -----------------------------
(***************************************************************************)
(* The gateway between requests and models, for the requests about one     *)
(* interview: structured calls, turns with GitHub tools, speech with its   *)
(* fallback from ElevenLabs to Gemini, and transcription; and beside it    *)
(* the uploads, whose extraction calls the model without the gateway.  A   *)
(* request holds a database connection from its first query to its end;    *)
(* the gateway logs a model call afterwards, on a second connection of the *)
(* same pool.                                                              *)
(* (backend/app/core/llm_gateway.py, gemini_client.py,                     *)
(* elevenlabs_client.py, github_tools.py, github_client.py, db.py,         *)
(* exception_handlers.py, routes/voice.py, services/resume_service.py,     *)
(* services/jd_service.py)                                                 *)
(***************************************************************************)
EXTENDS Integers, Sequences, FiniteSets, FiniteSetsExt

CONSTANTS
  Requests,        \* the requests served at once
  Kinds(_),        \* what a request may be
  Connections,     \* the connections of the pool, overflow included
  MaxRounds,       \* GITHUB_TOOL_LOOP_MAX_ROUNDS
  Tools,           \* the tools dispatched
  Invented,        \* names a model may call although there is no such tool
  MaxCalls         \* bound: the calls a model makes in one request

ASSUME ConnectionsAssumption == Connections \in Nat \ {0}
ASSUME RoundsAssumption == MaxRounds \in Nat \ {0} /\ MaxCalls \in Nat \ {0}
ASSUME ToolsAssumption == Tools \cap Invented = {}

ASSUME KindsAssumption ==
  \A r \in Requests :
    Kinds(r) \subseteq {"structured", "turn", "speech", "transcription", "extraction"}

VARIABLES
  requests,   \* the requests and what each holds in memory
  log         \* llm_calls

vars == <<requests, log>>

TTS_TASK == "tts"
GEMINI_TTS_TASK == "tts_gemini"
NoVoice == "none"

\* pc: "connecting" and "logging" wait for a connection, "writing" has a second one.
\* task: the call being made; result: what came of it; calls, answers: the calls of the
\* round still to make and the responses so far; counted: call_counter; inUse: the voice
\* read from the log; voice: the voice answered with; status: the answer's HTTP status.
\* made, lost (history, as is task once the request is done): the model calls the request
\* set out on, and the rows of them that could not be written.
Idle ==
  [pc |-> "idle", kind |-> "structured", task |-> "final", result |-> "ok", round |-> 0,
   history |-> <<>>, calls |-> <<>>, answers |-> <<>>, counted |-> 0, inUse |-> NoVoice,
   voice |-> NoVoice, status |-> 0, made |-> 0, lost |-> 0]

Init == requests = [r \in Requests |-> Idle] /\ log = <<>>

-----------------------------------------------------------------------------
(* Errors and answers.                                                     *)

\* What a provider's client may raise, and what ours makes of it.
Failures == {"network", "server", "rate_limit", "rejected", "unexpected"}
Transient(failure) == failure \in {"network", "server", "rate_limit"}

\* _is_transient, _is_transient_interactions_error
GeminiError(failure) == IF Transient(failure) THEN "transient" ELSE "unexpected"

ElevenLabsError(failure) == IF Transient(failure) THEN "transient" ELSE failure

\* What comes of a call: "parse" is an answer that does not parse, or without audio;
\* "silent" a transcript without text, logged as a success.
StructuredResults == {"ok", "parse"} \cup {GeminiError(f) : f \in Failures}
GeminiSpeechResults == {"ok", "parse"} \cup {GeminiError(f) : f \in Failures}
ElevenLabsResults == {"ok"} \cup {ElevenLabsError(f) : f \in Failures}
TranscriptionResults == {"ok", "silent"} \cup {GeminiError(f) : f \in Failures}

\* exception_handlers.py; ElevenLabs' own status for a rejected request is taken to be 422.
Status ==
  [transient |-> 503, parse |-> 502, rejected |-> 422, unexpected |-> 500,
   notFound |-> 404, duplicate |-> 409, unreadable |-> 422, tooLong |-> 413, silent |-> 422]

\* What the handler held in memory is gone with it.
Done(q, status) ==
  [Idle EXCEPT !.pc = "done", !.status = status,
               !.task = q.task, !.made = q.made, !.lost = q.lost]
Fail(q, error) == Done(q, Status[error])
Answer(q) == Done(q, 200)
Speak(q, voice) == [Answer(q) EXCEPT !.voice = voice, !.inUse = q.inUse]
CallModel(q, task) ==
  [q EXCEPT !.pc = "calling", !.task = task, !.result = "ok", !.made = @ + 1]

Becomes(r, q) == requests' = [requests EXCEPT ![r] = q]

-----------------------------------------------------------------------------
(* The pool of connections.                                                *)

InUse ==
  Cardinality({r \in Requests : requests[r].pc \notin {"idle", "connecting", "done"}})
  + Cardinality({r \in Requests : requests[r].pc = "writing"})

Arrive(r) ==
  /\ requests[r].pc = "idle"
  /\ \E kind \in Kinds(r) : Becomes(r, [Idle EXCEPT !.pc = "connecting", !.kind = kind])
  /\ UNCHANGED log

Connect(r) ==
  /\ requests[r].pc = "connecting"
  /\ InUse < Connections
  /\ Becomes(r, [requests[r] EXCEPT !.pc = "preparing"])
  /\ UNCHANGED log

\* Mutant: who waits for a connection waits for ever.
NeverTimesOut == FALSE

\* The pool's timeout: nobody has given a connection back all the time.
PoolTimesOut == InUse >= Connections

ConnectTimesOut(r) ==
  /\ requests[r].pc = "connecting"
  /\ PoolTimesOut
  /\ Becomes(r, Fail(requests[r], "unexpected"))
  /\ UNCHANGED log

-----------------------------------------------------------------------------
(* Before the first model call.                                            *)

\* _authorize_session and get_interview_session_or_404
NotFound(r) ==
  /\ requests[r].pc = "preparing" /\ requests[r].kind # "extraction"
  /\ Becomes(r, Fail(requests[r], "notFound"))
  /\ UNCHANGED log

PrepareStructured(r) ==
  /\ requests[r].pc = "preparing"
  /\ \/ requests[r].kind = "structured" /\ Becomes(r, CallModel(requests[r], "final"))
     \/ requests[r].kind = "turn" /\ Becomes(r, CallModel(requests[r], "round"))
  /\ UNCHANGED log

\* The newest successful synthesis in the log.
VoiceTaskInUse ==
  LET spoken == {i \in 1..Len(log) : log[i].ok /\ log[i].task \in {TTS_TASK, GEMINI_TTS_TASK}}
  IN IF spoken = {} THEN NoVoice ELSE log[Max(spoken)].task

\* synthesize_speech_with_fallback
PrepareSpeech(r) ==
  /\ requests[r].pc = "preparing" /\ requests[r].kind = "speech"
  /\ LET voice == VoiceTaskInUse
     IN Becomes(r, CallModel([requests[r] EXCEPT !.inUse = voice],
                             IF voice = GEMINI_TTS_TASK THEN GEMINI_TTS_TASK ELSE TTS_TASK))
  /\ UNCHANGED log

\* speech_to_text: no audio, or nothing in it, or too much of it.
PrepareTranscription(r) ==
  /\ requests[r].pc = "preparing" /\ requests[r].kind = "transcription"
  /\ \/ Becomes(r, CallModel(requests[r], "stt"))
     \/ \E error \in {"unreadable", "tooLong"} : Becomes(r, Fail(requests[r], error))
  /\ UNCHANGED log

\* parse_and_persist_resume, parse_and_persist_job_description: the document is refused,
\* or the user has it already.
PrepareExtraction(r) ==
  /\ requests[r].pc = "preparing" /\ requests[r].kind = "extraction"
  /\ \/ Becomes(r, CallModel(requests[r], "extraction"))
     \/ \E error \in {"unreadable", "tooLong", "duplicate"} : Becomes(r, Fail(requests[r], error))
  /\ UNCHANGED log

-----------------------------------------------------------------------------
(* Model calls.                                                            *)

\* Mutant: a call that failed is not logged.
LoggedIfOk(q, result) ==
  IF result = "ok" THEN [q EXCEPT !.pc = "logging", !.result = result] ELSE Fail(q, result)

\* The caller logs the call, whatever came of it, before it goes on.
Logged(q, result) == [q EXCEPT !.pc = "logging", !.result = result]

\* generate_structured
StructuredCall(r) ==
  /\ requests[r].pc = "calling" /\ requests[r].task = "final"
  /\ \E result \in StructuredResults : Becomes(r, Logged(requests[r], result))
  /\ UNCHANGED log

\* An upload asks extract_structured itself, not the gateway: nothing is logged.  What was
\* extracted is kept, or of no use.
ExtractionCall(r) ==
  /\ requests[r].pc = "calling" /\ requests[r].task = "extraction"
  /\ \/ Becomes(r, Answer(requests[r]))
     \/ \E error \in (StructuredResults \cup {"unreadable"}) \ {"ok"} :
          Becomes(r, Fail(requests[r], error))
  /\ UNCHANGED log

\* synthesize_speech
ElevenLabsCall(r) ==
  /\ requests[r].pc = "calling" /\ requests[r].task = TTS_TASK
  /\ \E result \in ElevenLabsResults : Becomes(r, Logged(requests[r], result))
  /\ UNCHANGED log

\* _synthesize_speech_gemini
GeminiSpeechCall(r) ==
  /\ requests[r].pc = "calling" /\ requests[r].task = GEMINI_TTS_TASK
  /\ \E result \in GeminiSpeechResults : Becomes(r, Logged(requests[r], result))
  /\ UNCHANGED log

\* transcribe_speech
TranscriptionCall(r) ==
  /\ requests[r].pc = "calling" /\ requests[r].task = "stt"
  /\ \E result \in TranscriptionResults : Becomes(r, Logged(requests[r], result))
  /\ UNCHANGED log

\* The calls in the model's answers so far, by answer and by place in it.
Called(q) ==
  {c \in (1..Len(q.history)) \X (1..MaxCalls) :
     q.history[c[1]].role = "model" /\ c[2] <= Len(q.history[c[1]].names)}

\* One round of run_tool_loop: an answer with or without calls, or none that is usable.
RoundCall(r) ==
  /\ requests[r].pc = "calling" /\ requests[r].task = "round"
  /\ \/ Becomes(r, Logged(requests[r], "parse"))
     \/ \E n \in 0..MaxCalls - Cardinality(Called(requests[r])) : \E calls \in [1..n -> Tools \cup Invented] :
          Becomes(r, Logged([requests[r] EXCEPT !.calls = calls], "ok"))
  /\ UNCHANGED log

\* A round that fails is not logged: on_round is only told of answers.
RoundFails(r) ==
  /\ requests[r].pc = "calling" /\ requests[r].task = "round"
  /\ \E f \in Failures : Becomes(r, Fail(requests[r], GeminiError(f)))
  /\ UNCHANGED log

-----------------------------------------------------------------------------
(* Going on after a call has been logged.                                  *)

\* Another round, or the final call when the limit is reached.
NextRound(q) ==
  IF q.round + 1 < MaxRounds THEN CallModel([q EXCEPT !.round = @ + 1], "round")
  ELSE CallModel([q EXCEPT !.round = @ + 1], "final")

AfterRound(q) ==
  IF q.result = "parse" THEN Fail(q, "parse")
  ELSE IF q.calls = <<>> THEN CallModel(q, "final")
  ELSE [q EXCEPT !.pc = "dispatching",
                 !.history = Append(@, [role |-> "model", names |-> q.calls])]

\* Mutant: whatever the interview has heard so far, Gemini steps in.
AlwaysFallsBack(q) == q.result \in {"transient", "rejected"}

FallsBack(q) == q.result \in {"transient", "rejected"} /\ q.inUse # TTS_TASK

AfterElevenLabs(q) ==
  IF FallsBack(q) THEN CallModel(q, GEMINI_TTS_TASK)
  ELSE IF q.result = "ok" THEN Speak(q, TTS_TASK)
  ELSE Fail(q, q.result)

AfterLast(q) ==
  IF q.result # "ok" THEN Fail(q, q.result)
  ELSE IF q.task = GEMINI_TTS_TASK THEN Speak(q, GEMINI_TTS_TASK)
  ELSE Answer(q)

AfterCall(q) ==
  IF q.task = "round" THEN AfterRound(q)
  ELSE IF q.task = TTS_TASK THEN AfterElevenLabs(q)
  ELSE AfterLast(q)

LogConnects(r) ==
  /\ requests[r].pc = "logging"
  /\ InUse < Connections
  /\ Becomes(r, [requests[r] EXCEPT !.pc = "writing"])
  /\ UNCHANGED log

\* error is None
Succeeded(q) == q.result \in {"ok", "silent"} \/ q.task = "round"

LogWrites(r) ==
  /\ requests[r].pc = "writing"
  /\ log' = Append(log, [request |-> r, task |-> requests[r].task, ok |-> Succeeded(requests[r])])
  /\ Becomes(r, AfterCall(requests[r]))

\* _log_call swallows every failure: no connection in time, no session to refer to.
LogFails(r) ==
  /\ \/ requests[r].pc = "logging" /\ PoolTimesOut
     \/ requests[r].pc = "writing"
  /\ Becomes(r, [AfterCall(requests[r]) EXCEPT !.lost = @ + 1])
  /\ UNCHANGED log

-----------------------------------------------------------------------------
(* Calling tools.                                                          *)

\* Mutant: a call that cannot be made is passed over.
OnlyResults(q, name, ok) == IF ok THEN Append(q.answers, name) ELSE q.answers

\* Every call is answered, with its result or its error.
Responses(q, name, ok) == Append(q.answers, name)

\* Whether a call may succeed: never without a tool of the name; a tool fails on an owner
\* other than the candidate, on missing arguments and with GitHub.
MaySucceed(name) == IF name \in Tools THEN BOOLEAN ELSE {FALSE}

\* _counting_dispatch wraps the tools there are; a call is counted before it is made.
Counted(q, name) == IF name \in Tools THEN q.counted + 1 ELSE q.counted

Dispatch(r) ==
  /\ requests[r].pc = "dispatching" /\ requests[r].calls # <<>>
  /\ LET name == Head(requests[r].calls)
     IN \E ok \in MaySucceed(name) :
          Becomes(r, [requests[r] EXCEPT !.calls = Tail(@),
                                         !.answers = Responses(requests[r], name, ok),
                                         !.counted = Counted(requests[r], name)])
  /\ UNCHANGED log

EndRound(r) ==
  /\ requests[r].pc = "dispatching" /\ requests[r].calls = <<>>
  /\ Becomes(r, NextRound([requests[r] EXCEPT
                             !.answers = <<>>,
                             !.history = Append(@, [role |-> "user",
                                                    names |-> requests[r].answers])]))
  /\ UNCHANGED log

-----------------------------------------------------------------------------

ModelCall(r) ==
  \/ StructuredCall(r) \/ ElevenLabsCall(r) \/ GeminiSpeechCall(r) \/ TranscriptionCall(r)
  \/ RoundCall(r) \/ RoundFails(r) \/ ExtractionCall(r)

Prepare(r) ==
  \/ NotFound(r) \/ PrepareStructured(r) \/ PrepareSpeech(r) \/ PrepareTranscription(r)
  \/ PrepareExtraction(r)

Step(r) ==
  \/ Connect(r) \/ ConnectTimesOut(r)
  \/ Prepare(r) \/ ModelCall(r) \/ Dispatch(r) \/ EndRound(r)
  \/ LogConnects(r) \/ LogWrites(r) \/ LogFails(r)

Next == \E r \in Requests : Arrive(r) \/ Step(r)

\* Every provider's client has a timeout and so has the pool, and the event loop runs
\* what is ready: who is served, or waits for a connection, is not passed over for ever.
Fairness == \A r \in Requests : WF_vars(Step(r))

Spec == Init /\ [][Next]_vars /\ Fairness

-----------------------------------------------------------------------------
(* Properties.                                                             *)

Rows(r) == {i \in 1..Len(log) : log[i].request = r}

\* A call under way, or over and not logged yet.
Pending(q) == q.pc \in {"calling", "logging", "writing"}

\* What ended in a call that is logged nowhere: an upload that was extracted from, a turn
\* in which a round of the tool loop raised.
Unlogged(q) ==
  /\ q.pc = "done"
  /\ q.task = "extraction" \/ (q.task = "round" /\ q.status # Status["parse"])

\* Every model call a request set out on has one row in llm_calls, whatever came of it, or
\* a write that failed; but for a call still pending, an upload's extraction and a round of
\* the tool loop that raised, which are the last of their request and have none
\* (_log_call, generate_structured_with_tools, run_tool_loop, parse_and_persist_resume).
CallsAreLogged ==
  \A r \in Requests :
    LET q == requests[r]
    IN q.made = Cardinality(Rows(r)) + q.lost + (IF Pending(q) \/ Unlogged(q) THEN 1 ELSE 0)

\* The history handed to the final call has, for each answer of the model with calls, one
\* response to each of them in their order, within the limit of rounds; and what is
\* charged to the interview are the calls of tools that exist (run_tool_loop,
\* _counting_dispatch).
HistoryPaired ==
  \A r \in Requests :
    LET q == requests[r]
    IN q.kind = "turn" /\ q.pc = "calling" /\ q.task = "final" =>
         /\ Len(q.history) % 2 = 0 /\ Len(q.history) <= 2 * MaxRounds
         /\ \A i \in 1..Len(q.history) :
              /\ q.history[i].role = IF i % 2 = 1 THEN "model" ELSE "user"
              /\ i % 2 = 1 => q.history[i + 1].names = q.history[i].names
         /\ q.counted = Cardinality({c \in Called(q) : q.history[c[1]].names[c[2]] \in Tools})

Speaking == {r \in Requests : requests[r].voice # NoVoice}

\* The interviewer changes voice only if two syntheses that found no voice in the log
\* were both answered: they overlapped, or the row of the first was lost
\* (synthesize_speech_with_fallback, _voice_task_in_use).
OneVoice ==
  Cardinality({r \in Speaking : requests[r].inUse = NoVoice}) <= 1 =>
    \A a, b \in Speaking : requests[a].voice = requests[b].voice

\* Every request is answered, also when as many requests as there are connections all
\* wait for one more to log their calls (get_engine, _log_call).
EveryRequestEnds ==
  \A r \in Requests : requests[r].pc = "connecting" ~> requests[r].pc = "done"
=============================================================================
