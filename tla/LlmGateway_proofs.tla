-------------------------- MODULE LlmGateway_proofs -------------------------
(***************************************************************************)
(* Theorems about LlmGateway, for any number of requests, connections,     *)
(* rounds, tools and calls.                                                *)
(***************************************************************************)
EXTENDS LlmGateway, FiniteSetTheorems, SequenceTheorems, WellFoundedInduction, TLAPS

-----------------------------------------------------------------------------
(* The inductive invariant.                                                *)

Pcs == {"idle", "connecting", "preparing", "calling", "logging", "writing",
        "dispatching", "done"}
Tasks == {"final", "round", "stt", "extraction", TTS_TASK, GEMINI_TTS_TASK}
Results == {"ok", "parse", "silent", "transient", "rejected", "unexpected"}
Voices == {NoVoice, TTS_TASK, GEMINI_TTS_TASK}
Name == Tools \cup Invented
Content == [role : {"model", "user"}, names : Seq(Name)]

Request ==
  [pc : Pcs, kind : {"structured", "turn", "speech", "transcription", "extraction"}, task : Tasks,
   result : Results, round : Nat, history : Seq(Content), calls : Seq(Name),
   answers : Seq(Name), counted : Nat, inUse : Voices, voice : Voices, status : Nat,
   made : Nat, lost : Nat]

LogRow == [request : Requests, task : Tasks, ok : BOOLEAN]

TypeOK ==
  /\ requests \in [Requests -> Request]
  /\ log \in Seq(LogRow)

\* The first n pairs of a history: an answer's calls, and the responses to them.
Paired(history, n) ==
  \A k \in 1..n :
    /\ history[2 * k - 1].role = "model" /\ history[2 * k].role = "user"
    /\ history[2 * k].names = history[2 * k - 1].names

\* The calls made of tools that exist: all of the history's, but for the calls of the
\* round being dispatched that have no response yet.
Made(q) ==
  {c \in Called(q) :
     /\ q.history[c[1]].names[c[2]] \in Tools
     /\ q.pc # "dispatching" \/ c[1] < Len(q.history) \/ c[2] <= Len(q.answers)}

\* In a round being dispatched the calls still to make continue the responses so far.
Dispatching(q) ==
  LET n == Len(q.history)
      names == q.history[n].names
  IN  /\ n = 2 * q.round + 1 /\ q.task = "round"
      /\ q.history[n].role = "model"
      /\ Len(names) = Len(q.answers) + Len(q.calls)
      /\ \A i \in 1..Len(q.answers) : names[i] = q.answers[i]
      /\ \A i \in 1..Len(q.calls) : names[Len(q.answers) + i] = q.calls[i]

LoopInv(q) ==
  /\ q.round <= MaxRounds
  /\ q.task = "round" => q.round < MaxRounds
  /\ Paired(q.history, q.round)
  /\ \A i \in 1..Len(q.history) : Len(q.history[i].names) <= MaxCalls
  /\ Len(q.calls) <= MaxCalls
  /\ q.counted = Cardinality(Made(q))
  /\ IF q.pc = "dispatching" THEN Dispatching(q)
     ELSE Len(q.history) = 2 * q.round /\ q.answers = <<>>

\* A request speaks with the voice it found in the log, if it found one.
VoiceInv(q) ==
  /\ q.voice # NoVoice => q.pc = "done" /\ q.inUse \in {NoVoice, q.voice}
  /\ q.inUse = TTS_TASK => q.task # GEMINI_TTS_TASK
  /\ q.inUse = GEMINI_TTS_TASK => q.task # TTS_TASK
  /\ q.result = "silent" => q.task = "stt"

\* Before its first call a request is in no round and has made no call; and an extraction
\* is not logged.
FreshInv(q) ==
  /\ q.pc \in {"connecting", "preparing"} => q.round = 0 /\ q.task = "final"
  /\ q.pc = "idle" => q.made = 0 /\ q.lost = 0
  /\ q.pc \in {"logging", "writing"} => q.task # "extraction"

RequestsInv ==
  \A r \in Requests : LoopInv(requests[r]) /\ VoiceInv(requests[r]) /\ FreshInv(requests[r])

\* The rows the log is to have of a request: of its calls, but for those without.
Due(q) == q.made - q.lost - (IF Pending(q) \/ Unlogged(q) THEN 1 ELSE 0)
LogInv == \A r \in Requests : Due(requests[r]) = Cardinality(Rows(r))

Synthesis(row) == row.ok /\ row.task \in {TTS_TASK, GEMINI_TTS_TASK}

\* A synthesis in the log was answered, and the voice a request found there goes back to
\* a request that found none.
SpeechInv ==
  /\ IsFiniteSet(Speaking)
  /\ \A i \in 1..Len(log) :
       Synthesis(log[i]) => requests[log[i].request].voice = log[i].task
  /\ \A r \in Requests : requests[r].inUse # NoVoice =>
       \E s \in Requests : requests[s].voice = requests[r].inUse /\ requests[s].inUse = NoVoice

IInv == TypeOK /\ RequestsInv /\ LogInv /\ SpeechInv
-----------------------------------------------------------------------------
(* Requests that are not dispatching calls.                                *)

Sound(q) == q \in Request /\ LoopInv(q) /\ VoiceInv(q)

\* The loop's invariant speaks of the round, its calls and responses, and the history.
LEMMA LoopKept ==
  ASSUME NEW q \in Request, LoopInv(q), q.pc # "dispatching",
         NEW p \in Request, p.pc # "dispatching",
         p.history = q.history, p.round = q.round, p.counted = q.counted,
         p.answers = q.answers, Len(p.calls) <= MaxCalls,
         p.task = "round" => q.round < MaxRounds
  PROVE  LoopInv(p)
<1>1. Called(p) = Called(q)
  BY DEF Called
<1>2. Made(p) = Made(q)
  BY <1>1 DEF Made
<1> QED
  BY <1>2 DEF LoopInv

LEMMA LoopFresh ==
  ASSUME NEW p \in Request, p.pc # "dispatching", p.history = <<>>, p.round = 0, p.calls = <<>>, p.answers = <<>>, p.counted = 0
  PROVE  LoopInv(p)
<1>1. Len(p.history) = 0 /\ Len(p.calls) = 0
  OBVIOUS
<1>2. Made(p) = {}
  BY <1>1 DEF Made, Called
<1>3. Cardinality(Made(p)) = 0
  BY <1>2, FS_EmptySet
<1>4. MaxRounds \in Nat /\ MaxCalls \in Nat /\ 0 < MaxRounds
  BY RoundsAssumption
<1> QED
  BY <1>1, <1>3, <1>4 DEF LoopInv, Paired

LEMMA IdleSound == Sound(Idle)
<1>1. Idle \in Request
  BY DEF Idle, Request, Pcs, Tasks, Results, Voices, NoVoice
<1>2. /\ Idle.pc = "idle" /\ Idle.task = "final" /\ Idle.history = <<>> /\ Idle.round = 0
      /\ Idle.calls = <<>> /\ Idle.answers = <<>> /\ Idle.counted = 0
      /\ Idle.voice = NoVoice /\ Idle.inUse = NoVoice /\ Idle.result = "ok"
  BY DEF Idle
<1>3. LoopInv(Idle)
  BY <1>1, <1>2, LoopFresh
<1>4. VoiceInv(Idle)
  BY <1>2 DEF VoiceInv, NoVoice, TTS_TASK, GEMINI_TTS_TASK
<1> QED
  BY <1>1, <1>3, <1>4 DEF Sound

LEMMA DoneSound ==
  ASSUME NEW q \in Request, NEW status \in Nat
  PROVE  LET p == Done(q, status)
         IN  /\ Sound(p)
             /\ p.pc = "done" /\ p.inUse = NoVoice /\ p.voice = NoVoice
             /\ p.made = q.made /\ p.lost = q.lost /\ p.task = q.task /\ p.status = status
<1> DEFINE p == Done(q, status)
<1>1. Idle \in Request /\ q.made \in Nat /\ q.lost \in Nat /\ q.task \in Tasks
  BY IdleSound DEF Sound, Request
<1>2. p \in Request
  BY <1>1 DEF Done, Request, Pcs
<1>3. /\ p.pc = "done" /\ p.made = q.made /\ p.lost = q.lost
      /\ p.task = q.task /\ p.status = status /\ p.history = <<>> /\ p.round = 0 /\ p.calls = <<>>
      /\ p.answers = <<>> /\ p.counted = 0
      /\ p.voice = NoVoice /\ p.inUse = NoVoice /\ p.result = "ok"
  BY DEF Done, Idle
<1> HIDE DEF p
<1>4. LoopInv(p)
  BY <1>2, <1>3, LoopFresh
<1>5. VoiceInv(p)
  BY <1>3 DEF VoiceInv, NoVoice, TTS_TASK, GEMINI_TTS_TASK
<1> QED
  BY <1>2, <1>3, <1>4, <1>5 DEF Sound, p

LEMMA FailSound ==
  ASSUME NEW q \in Request,
         NEW error \in (Results \ {"ok"}) \cup {"notFound", "duplicate", "unreadable", "tooLong"}
  PROVE  LET p == Fail(q, error)
         IN  /\ Sound(p)
             /\ p.pc = "done" /\ p.inUse = NoVoice /\ p.voice = NoVoice
             /\ p.made = q.made /\ p.lost = q.lost
             /\ p.task = q.task /\ p.status = Status[error]
<1>1. Status[error] \in Nat
  BY DEF Status, Results
<1> QED
  BY <1>1, DoneSound DEF Fail

LEMMA SpeakSound ==
  ASSUME NEW q \in Request, NEW voice \in Voices \ {NoVoice}, q.inUse \in {NoVoice, voice},
         q.task = voice
  PROVE  LET p == Speak(q, voice)
         IN  /\ Sound(p)
             /\ p.pc = "done" /\ p.inUse = q.inUse /\ p.voice = voice
             /\ p.made = q.made /\ p.lost = q.lost /\ p.task = voice
<1> DEFINE p == Speak(q, voice)
<1>1. Idle \in Request /\ q.inUse \in Voices
  BY IdleSound DEF Sound, Request
<1>2. /\ p.pc = "done" /\ p.made = q.made /\ p.lost = q.lost
      /\ p.task = voice /\ p.history = <<>> /\ p.round = 0 /\ p.calls = <<>>
      /\ p.answers = <<>> /\ p.counted = 0
      /\ p.voice = voice /\ p.inUse = q.inUse /\ p.result = "ok"
  BY DEF Speak, Answer, Done, Idle
<1>3. Answer(q) \in Request
  BY DoneSound DEF Sound, Answer
<1>4. p \in Request
  BY <1>1, <1>3 DEF Speak, Request
<1> HIDE DEF p
<1>5. LoopInv(p)
  BY <1>2, <1>4, LoopFresh
<1>6. VoiceInv(p)
  BY <1>2 DEF VoiceInv, NoVoice, TTS_TASK, GEMINI_TTS_TASK
<1> QED
  BY <1>2, <1>4, <1>5, <1>6 DEF Sound, p

\* A request that is about to call a model.
LEMMA CallSound ==
  ASSUME NEW q, Sound(q), q.pc \notin {"done", "dispatching"}, NEW task \in Tasks,
         task = "round" => q.round < MaxRounds,
         q.inUse = TTS_TASK => task # GEMINI_TTS_TASK,
         q.inUse = GEMINI_TTS_TASK => task # TTS_TASK
  PROVE  LET p == CallModel(q, task)
         IN  /\ Sound(p)
             /\ p.pc = "calling" /\ p.inUse = q.inUse /\ p.voice = NoVoice
             /\ p.made = q.made + 1 /\ p.lost = q.lost
<1> DEFINE p == CallModel(q, task)
<1>1. q \in Request /\ LoopInv(q) /\ q.voice = NoVoice /\ q.made + 1 \in Nat
  BY DEF Sound, VoiceInv, Request
<1>2. /\ p.pc = "calling" /\ p.task = task /\ p.result = "ok"
      /\ p.made = q.made + 1 /\ p.lost = q.lost
      /\ p.history = q.history /\ p.round = q.round /\ p.counted = q.counted
      /\ p.answers = q.answers /\ p.calls = q.calls
      /\ p.voice = q.voice /\ p.inUse = q.inUse
  BY <1>1 DEF CallModel, Request
<1>3. p \in Request
  BY <1>1 DEF CallModel, Request, Pcs, Results
<1> HIDE DEF p
<1>4. LoopInv(p)
  <2>1. Len(q.calls) <= MaxCalls
    BY <1>1 DEF LoopInv
  <2> QED
    BY <1>1, <1>2, <1>3, <2>1, LoopKept
<1>5. VoiceInv(p)
  BY <1>1, <1>2 DEF VoiceInv
<1> QED
  BY <1>1, <1>2, <1>3, <1>4, <1>5 DEF Sound, p

\* A call that has been made: it is to be logged.
LEMMA LoggedSound ==
  ASSUME NEW q, Sound(q), q.pc \notin {"done", "dispatching"}, NEW result \in Results,
         result = "silent" => q.task = "stt"
  PROVE  LET p == Logged(q, result)
         IN  /\ Sound(p)
             /\ p.pc = "logging" /\ p.made = q.made /\ p.lost = q.lost
             /\ p.task = q.task /\ p.inUse = q.inUse
<1> DEFINE p == Logged(q, result)
<1>1. q \in Request /\ LoopInv(q) /\ q.voice = NoVoice
  BY DEF Sound, VoiceInv
<1>2. /\ p.pc = "logging" /\ p.task = q.task /\ p.result = result
      /\ p.made = q.made /\ p.lost = q.lost
      /\ p.history = q.history /\ p.round = q.round /\ p.counted = q.counted
      /\ p.answers = q.answers /\ p.calls = q.calls
      /\ p.voice = q.voice /\ p.inUse = q.inUse
  BY <1>1 DEF Logged, Request
<1>3. p \in Request
  BY <1>1 DEF Logged, Request, Pcs
<1> HIDE DEF p
<1>4. LoopInv(p)
  <2>1. Len(q.calls) <= MaxCalls /\ (q.task = "round" => q.round < MaxRounds)
    BY <1>1 DEF LoopInv
  <2> QED
    BY <1>1, <1>2, <1>3, <2>1, LoopKept
<1>5. VoiceInv(p)
  <2>1. VoiceInv(q)
    BY DEF Sound
  <2> QED
    BY <1>1, <1>2, <2>1 DEF VoiceInv
<1> QED
  BY <1>1, <1>2, <1>3, <1>4, <1>5 DEF Sound, p
-----------------------------------------------------------------------------
(* The tool loop.                                                          *)

LEMMA Grown ==
  ASSUME NEW history \in Seq(Content), NEW content \in Content
  PROVE  LET longer == Append(history, content)
         IN  /\ longer \in Seq(Content) /\ Len(longer) = Len(history) + 1
             /\ Len(history) \in Nat
             /\ \A i \in 1..Len(history) : longer[i] = history[i]
             /\ longer[Len(history) + 1] = content
BY AppendProperties, LenProperties

LEMMA MadeFinite ==
  ASSUME NEW q \in Request
  PROVE  IsFiniteSet(Made(q)) /\ Cardinality(Made(q)) \in Nat
<1>1. IsFiniteSet(1..Len(q.history)) /\ IsFiniteSet(1..MaxCalls)
  <2>1. Len(q.history) \in Nat /\ MaxCalls \in Nat
    BY RoundsAssumption DEF Request
  <2> QED
    BY <2>1, FS_Interval
<1>2. IsFiniteSet((1..Len(q.history)) \X (1..MaxCalls))
  BY <1>1, FS_Product
<1>3. Made(q) \subseteq (1..Len(q.history)) \X (1..MaxCalls)
  BY DEF Made, Called
<1>4. IsFiniteSet(Made(q))
  BY <1>2, <1>3, FS_Subset
<1> QED
  BY <1>4, FS_CardinalityType

LEMMA PairAdded ==
  ASSUME NEW m, NEW n, NEW S, NEW T, NEW P \in BOOLEAN, NEW b \in 1..n,
         S \subseteq (1..m) \X (1..n), T \subseteq (1..m) \X (1..n), m \in 1..m,
         \A i \in 1..m, j \in 1..n : <<i, j>> \in S <=> <<i, j>> \in T \/ (P /\ i = m /\ j = b)
  PROVE  S = IF P THEN T \cup {<<m, b>>} ELSE T
<1>1. CASE P
  <2>1. <<m, b>> \in S
    BY <1>1
  <2>2. T \cup {<<m, b>>} \subseteq S
    BY <2>1
  <2>3. \A c \in S : c \in T \cup {<<m, b>>}
    OBVIOUS
  <2> QED
    BY <1>1, <2>2, <2>3
<1>2. CASE ~P
  <2>1. \A c \in S : c \in T
    BY <1>2
  <2>2. \A c \in T : c \in S
    OBVIOUS
  <2> QED
    BY <1>2, <2>1, <2>2
<1> QED
  BY <1>1, <1>2

\* An answer with calls opens a round.
LEMMA RoundOpens ==
  ASSUME NEW q, Sound(q), q.task = "round", q.pc \in {"logging", "writing"}
  PROVE  LET p == [q EXCEPT !.pc = "dispatching",
                            !.history = Append(@, [role |-> "model", names |-> q.calls])]
         IN  /\ Sound(p)
             /\ p.pc = "dispatching" /\ p.inUse = q.inUse
             /\ p.made = q.made /\ p.lost = q.lost
<1> DEFINE content == [role |-> "model", names |-> q.calls]
           h == q.history
           g == Append(q.history, content)
           n == Len(q.history)
           p == [q EXCEPT !.pc = "dispatching", !.history = g]
<1>1. q \in Request /\ LoopInv(q) /\ VoiceInv(q)
  BY DEF Sound
<1>2. h \in Seq(Content) /\ content \in Content /\ q.calls \in Seq(Name)
  BY <1>1 DEF Request, Content
<1>3. /\ g \in Seq(Content) /\ Len(g) = n + 1 /\ n \in Nat
      /\ \A i \in 1..n : g[i] = h[i]
      /\ g[n + 1].role = "model" /\ g[n + 1].names = q.calls
  BY <1>2, Grown
<1> HIDE DEF g, content
<1>4. /\ p \in Request
      /\ p.pc = "dispatching" /\ p.history = g
      /\ p.task = q.task /\ p.round = q.round /\ p.calls = q.calls
      /\ p.answers = q.answers /\ p.counted = q.counted
      /\ p.made = q.made /\ p.lost = q.lost
      /\ p.voice = q.voice /\ p.inUse = q.inUse /\ p.result = q.result
  BY <1>1, <1>3 DEF Request, Pcs
<1> HIDE DEF p, h, n
<1>5. /\ n = 2 * q.round /\ q.answers = <<>> /\ q.round \in Nat
      /\ q.round < MaxRounds /\ MaxRounds \in Nat
  BY <1>1, RoundsAssumption DEF LoopInv, Request, h, n
<1>6. Paired(g, q.round)
  <2>1. Paired(h, q.round)
    BY <1>1 DEF LoopInv, h
  <2> SUFFICES ASSUME NEW k \in 1..q.round
               PROVE  g[2 * k - 1] = h[2 * k - 1] /\ g[2 * k] = h[2 * k]
    BY <2>1 DEF Paired
  <2>2. 2 * k - 1 \in 1..n /\ 2 * k \in 1..n
    BY <1>5
  <2> QED
    BY <1>3, <2>2
<1>7. /\ \A i \in 1..(n + 1) : Len(g[i].names) <= MaxCalls
      /\ Len(q.calls) <= MaxCalls
  <2>1. Len(q.calls) <= MaxCalls /\ \A i \in 1..n : Len(h[i].names) <= MaxCalls
    BY <1>1 DEF LoopInv, h, n
  <2> QED
    BY <1>3, <2>1
<1>8. Made(p) = Made(q)
  <2>1. Len(p.answers) = 0 /\ Len(p.history) = n + 1
    BY <1>3, <1>4, <1>5
  <2>2. \A i \in 1..n, j \in 1..MaxCalls : <<i, j>> \in Made(p) <=> <<i, j>> \in Made(q)
    BY <1>3, <1>4, <2>1, SMTT(30) DEF Made, Called, h, n
  <2>3. \A j \in 1..MaxCalls : <<n + 1, j>> \notin Made(p)
    BY <1>3, <1>4, <2>1 DEF Made
  <2>4. /\ Made(p) \subseteq (1..(n + 1)) \X (1..MaxCalls)
        /\ Made(q) \subseteq (1..n) \X (1..MaxCalls)
    BY <2>1 DEF Made, Called, h, n
  <2>5. \A i \in 1..(n + 1) : i = n + 1 \/ i \in 1..n
    BY <1>3
  <2> QED
    BY <2>2, <2>3, <2>4, <2>5
<1>9. Dispatching(p)
  <2>1. Len(p.history) = n + 1 /\ Len(p.answers) = 0 /\ Len(q.calls) \in Nat
    BY <1>2, <1>3, <1>4, <1>5
  <2> QED
    BY <1>3, <1>4, <1>5, <2>1 DEF Dispatching
<1>10. LoopInv(p)
  <2>1. q.counted = Cardinality(Made(q))
    BY <1>1 DEF LoopInv
  <2> QED
    BY <1>3, <1>4, <1>5, <1>6, <1>7, <1>8, <1>9, <2>1 DEF LoopInv
<1>11. VoiceInv(p)
  BY <1>1, <1>4 DEF VoiceInv
<1> QED
  BY <1>4, <1>10, <1>11 DEF Sound, p, g, content

\* One call of the round is made and answered.
LEMMA CallAnswered ==
  ASSUME NEW q, Sound(q), q.pc = "dispatching", Len(q.calls) # 0
  PROVE  LET name == Head(q.calls)
             p == [q EXCEPT !.calls = Tail(@), !.answers = Append(q.answers, name),
                            !.counted = Counted(q, name)]
         IN  /\ Sound(p)
             /\ p.pc = "dispatching" /\ p.inUse = q.inUse
             /\ p.made = q.made /\ p.lost = q.lost
<1> DEFINE name == Head(q.calls)
           rest == Tail(q.calls)
           said == Append(q.answers, name)
           p == [q EXCEPT !.calls = rest, !.answers = said, !.counted = Counted(q, name)]
           h == q.history
           n == Len(q.history)
           a == Len(q.answers)
<1>1. q \in Request /\ LoopInv(q) /\ VoiceInv(q) /\ Dispatching(q)
  BY DEF Sound, LoopInv
<1>2. /\ q.calls \in Seq(Name) /\ q.answers \in Seq(Name) /\ h \in Seq(Content)
      /\ q.counted \in Nat
  BY <1>1 DEF Request
<1>3. /\ name \in Name /\ rest \in Seq(Name) /\ Len(q.calls) \in Nat
      /\ Len(rest) = Len(q.calls) - 1 /\ name = q.calls[1] /\ Len(q.calls) > 0
      /\ \A i \in 1..Len(rest) : rest[i] = q.calls[i + 1]
  <2>1. q.calls # <<>>
    BY <1>2
  <2> QED
    BY <1>2, <2>1, HeadTailProperties
<1>4. /\ said \in Seq(Name) /\ Len(said) = a + 1 /\ a \in Nat
      /\ \A i \in 1..a : said[i] = q.answers[i]
      /\ said[a + 1] = name
  <2> HIDE DEF name
  <2> QED
    BY <1>2, <1>3, AppendProperties, LenProperties
<1>5. Counted(q, name) = IF name \in Tools THEN q.counted + 1 ELSE q.counted
  BY DEF Counted
<1> HIDE DEF name, rest, said
<1>6. /\ p \in Request
      /\ p.pc = "dispatching" /\ p.history = h
      /\ p.task = q.task /\ p.round = q.round /\ p.calls = rest
      /\ p.answers = said /\ p.counted = Counted(q, name)
      /\ p.made = q.made /\ p.lost = q.lost
      /\ p.voice = q.voice /\ p.inUse = q.inUse /\ p.result = q.result
  <2>1. Counted(q, name) \in Nat
    BY <1>2, <1>5
  <2> QED
    BY <1>1, <1>3, <1>4, <2>1 DEF Request
<1> HIDE DEF p, h, n, a
<1> DEFINE names == h[n].names
<1>7. /\ n = 2 * q.round + 1 /\ q.task = "round" /\ h[n].role = "model"
      /\ Len(names) = a + Len(q.calls)
      /\ \A i \in 1..a : names[i] = q.answers[i]
      /\ \A i \in 1..Len(q.calls) : names[a + i] = q.calls[i]
      /\ q.round \in Nat
  BY <1>1 DEF Dispatching, Request, h, n, a
<1>8. Dispatching(p)
  <2> HIDE DEF names
  <2>1. Len(names) = Len(said) + Len(rest)
    <3> DEFINE c == Len(q.calls)
    <3>1. Len(rest) = c - 1 /\ c \in Nat
      BY <1>3
    <3>2. Len(said) = a + 1 /\ a \in Nat
      BY <1>4
    <3>3. Len(names) = a + c
      BY <1>7
    <3> HIDE DEF c
    <3>4. a + c = (a + 1) + (c - 1)
      BY <3>1, <3>2
    <3> QED
      BY <3>1, <3>2, <3>3, <3>4, Zenon
  <2>2. \A i \in 1..Len(said) : names[i] = said[i]
    <3> TAKE i \in 1..Len(said)
    <3>1. CASE i \in 1..a
      BY <1>4, <1>7, <3>1
    <3>2. CASE i = a + 1
      BY <1>3, <1>4, <1>7, <3>2
    <3> QED
      BY <1>4, <3>1, <3>2
  <2>3. \A i \in 1..Len(rest) : names[Len(said) + i] = rest[i]
    <3> TAKE i \in 1..Len(rest)
    <3>1. i + 1 \in 1..Len(q.calls) /\ Len(said) + i = a + (i + 1)
      BY <1>3, <1>4
    <3> QED
      BY <1>3, <1>7, <3>1
  <2> QED
    BY <1>6, <1>7, <2>1, <2>2, <2>3 DEF Dispatching, names, h, n
<1>9. p.counted = Cardinality(Made(p))
  <2>1. a + 1 \in 1..Len(names) /\ names[a + 1] = name
    BY <1>3, <1>4, <1>7
  <2>2. Len(names) <= MaxCalls /\ MaxCalls \in Nat /\ n \in 1..n
    BY <1>1, <1>7, RoundsAssumption DEF LoopInv, h, n
  <2> DEFINE x == <<n, a + 1>>
  <2>3. x \in (1..n) \X (1..MaxCalls)
    BY <1>3, <1>4, <1>7, <2>1, <2>2
  <2>4. x \notin Made(q)
    BY <1>4 DEF Made, n, a
  <2>5. \A i \in 1..n, j \in 1..MaxCalls :
          <<i, j>> \in Made(p) <=>
            \/ <<i, j>> \in Made(q)
            \/ name \in Tools /\ i = n /\ j = a + 1
    <3> TAKE i \in 1..n, j \in 1..MaxCalls
    <3>1. <<i, j>> \in Made(q) <=>
            /\ h[i].role = "model" /\ j <= Len(h[i].names) /\ h[i].names[j] \in Tools
            /\ i < n \/ j <= a
      BY DEF Made, Called, h, n, a
    <3>2. <<i, j>> \in Made(p) <=>
            /\ h[i].role = "model" /\ j <= Len(h[i].names) /\ h[i].names[j] \in Tools
            /\ i < n \/ j <= a + 1
      BY <1>4, <1>6 DEF Made, Called, h, n
    <3>3. j <= a + 1 <=> j <= a \/ j = a + 1
      BY <1>4
    <3>4. i = n /\ j = a + 1 =>
            (h[i].role = "model" /\ j <= Len(h[i].names) /\ (h[i].names[j] \in Tools <=> name \in Tools))
      BY <1>4, <1>7, <2>1
    <3>5. i < n \/ i = n
      BY <1>7
    <3> QED
      BY <3>1, <3>2, <3>3, <3>4, <3>5
  <2>6. /\ Made(p) \subseteq (1..n) \X (1..MaxCalls)
        /\ Made(q) \subseteq (1..n) \X (1..MaxCalls)
    BY <1>6 DEF Made, Called, h, n
  <2>7. Made(p) = IF name \in Tools THEN Made(q) \cup {x} ELSE Made(q)
    <3> DEFINE S == Made(p)
               T == Made(q)
               P == name \in Tools
               b == a + 1
    <3>1. P \in BOOLEAN /\ b \in 1..MaxCalls /\ n \in 1..n
      BY <2>1, <2>2, <2>3
    <3>2. S \subseteq (1..n) \X (1..MaxCalls) /\ T \subseteq (1..n) \X (1..MaxCalls)
      BY <2>6
    <3>3. \A i \in 1..n, j \in 1..MaxCalls :
            <<i, j>> \in S <=> <<i, j>> \in T \/ (P /\ i = n /\ j = b)
      BY <2>5
    <3> HIDE DEF S, T, P, b
    <3>4. S = IF P THEN T \cup {<<n, b>>} ELSE T
      BY ONLY <3>1, <3>2, <3>3, PairAdded
    <3> QED
      BY <3>4 DEF S, T, P, b
  <2>8. q.counted = Cardinality(Made(q)) /\ IsFiniteSet(Made(q))
    BY <1>1, MadeFinite DEF LoopInv
  <2> HIDE DEF x
  <2> QED
    BY <1>5, <1>6, <2>4, <2>7, <2>8, FS_AddElement
<1>10. LoopInv(p)
  <2>1. Len(rest) <= MaxCalls
    BY <1>1, <1>3, RoundsAssumption DEF LoopInv
  <2> QED
    BY <1>1, <1>6, <1>8, <1>9, <2>1 DEF LoopInv, h
<1>11. VoiceInv(p)
  BY <1>1, <1>6 DEF VoiceInv
<1> QED
  BY <1>6, <1>10, <1>11 DEF Sound, p, said, rest, name

\* The responses close a round: the next one follows, or the final call.
LEMMA RoundEnds ==
  ASSUME NEW q, Sound(q), q.pc = "dispatching", Len(q.calls) = 0
  PROVE  LET p == NextRound([q EXCEPT !.answers = <<>>,
                                      !.history = Append(@, [role |-> "user",
                                                             names |-> q.answers])])
         IN  /\ Sound(p)
             /\ p.pc = "calling" /\ p.inUse = q.inUse
             /\ p.made = q.made + 1 /\ p.lost = q.lost
<1> DEFINE content == [role |-> "user", names |-> q.answers]
           h == q.history
           g == Append(q.history, content)
           n == Len(q.history)
           a == Len(q.answers)
           p == NextRound([q EXCEPT !.answers = <<>>, !.history = g])
<1>1. q \in Request /\ LoopInv(q) /\ VoiceInv(q) /\ Dispatching(q)
  BY DEF Sound, LoopInv
<1>2. h \in Seq(Content) /\ content \in Content /\ q.answers \in Seq(Name) /\ q.round \in Nat
  BY <1>1 DEF Request, Content
<1>3. /\ g \in Seq(Content) /\ Len(g) = n + 1 /\ n \in Nat
      /\ \A i \in 1..n : g[i] = h[i]
      /\ g[n + 1].role = "user" /\ g[n + 1].names = q.answers
  BY <1>2, Grown
<1> HIDE DEF g, content
<1>4. /\ p \in Request
      /\ p.pc = "calling" /\ p.history = g
      /\ p.task = IF q.round + 1 < MaxRounds THEN "round" ELSE "final"
      /\ p.round = q.round + 1 /\ p.calls = q.calls
      /\ p.answers = <<>> /\ p.counted = q.counted
      /\ p.made = q.made + 1 /\ p.lost = q.lost
      /\ p.voice = q.voice /\ p.inUse = q.inUse /\ p.result = "ok"
  <2> DEFINE none == <<>>
             between == [q EXCEPT !.answers = none, !.history = g]
             task == IF q.round + 1 < MaxRounds THEN "round" ELSE "final"
  <2>0. none \in Seq(Name) /\ task \in Tasks
    BY DEF Tasks
  <2> HIDE DEF none, task
  <2>1. /\ between \in Request /\ between.history = g /\ between.answers = none
        /\ between.round = q.round /\ between.calls = q.calls
        /\ between.counted = q.counted
        /\ between.made = q.made /\ between.lost = q.lost
        /\ between.voice = q.voice /\ between.inUse = q.inUse
    BY <1>1, <1>3, <2>0 DEF Request
  <2> HIDE DEF between
  <2>2. p = NextRound(between)
    BY DEF between, none
  <2> HIDE DEF p
  <2>3. p = [between EXCEPT !.round = between.round + 1, !.pc = "calling",
               !.task = task, !.result = "ok", !.made = between.made + 1]
    BY <2>1, <2>2 DEF NextRound, CallModel, Request, task
  <2>4. between.round + 1 \in Nat /\ between.made + 1 \in Nat
    BY <1>2, <2>1 DEF Request
  <2>5. /\ p \in Request
        /\ p.pc = "calling" /\ p.history = g /\ p.task = task
        /\ p.round = q.round + 1 /\ p.calls = q.calls
        /\ p.answers = none /\ p.counted = q.counted
        /\ p.made = q.made + 1 /\ p.lost = q.lost
        /\ p.voice = q.voice /\ p.inUse = q.inUse /\ p.result = "ok"
    BY <2>0, <2>1, <2>3, <2>4 DEF Request, Pcs, Results
  <2> QED
    BY <2>5 DEF task, none
<1> HIDE DEF p, h, n, a
<1> DEFINE names == h[n].names
<1>5. /\ n = 2 * q.round + 1 /\ q.task = "round" /\ h[n].role = "model"
      /\ Len(names) = a /\ a \in Nat
      /\ \A i \in 1..a : names[i] = q.answers[i]
      /\ q.round \in Nat /\ q.round + 1 <= MaxRounds /\ MaxRounds \in Nat
  <2>1. a \in Nat
    BY <1>2 DEF a
  <2> QED
    BY <1>1, <1>2, <2>1, RoundsAssumption DEF Dispatching, LoopInv, h, n, a
<1>6. n \in 1..n /\ n + 1 \in 1..(n + 1)
  BY <1>5
<1>7. names = q.answers
  <2>0. h[n] \in Content
    BY <1>2, <1>6 DEF n, h
  <2>1. names \in Seq(Name)
    BY <2>0 DEF Content
  <2> HIDE DEF names
  <2> QED
    BY <1>2, <1>5, <2>1, SeqEqual DEF a
<1>8. Paired(g, q.round + 1)
  <2>1. Paired(h, q.round)
    BY <1>1 DEF LoopInv, h
  <2> SUFFICES ASSUME NEW k \in 1..(q.round + 1)
               PROVE  /\ g[2 * k - 1].role = "model" /\ g[2 * k].role = "user"
                      /\ g[2 * k].names = g[2 * k - 1].names
    BY DEF Paired
  <2>2. CASE k \in 1..q.round
    <3>1. 2 * k - 1 \in 1..n /\ 2 * k \in 1..n
      BY <1>5, <2>2
    <3> QED
      BY <1>3, <2>1, <2>2, <3>1 DEF Paired
  <2>3. CASE k = q.round + 1
    <3>1. 2 * k - 1 = n /\ 2 * k = n + 1
      BY <1>5, <2>3
    <3> QED
      BY <1>3, <1>5, <1>6, <1>7, <3>1
  <2> QED
    BY <1>5, <2>2, <2>3
<1>9. Made(p) = Made(q)
  <2>1. Len(p.history) = n + 1
    BY <1>3, <1>4
  <2>2. \A i \in 1..n, j \in 1..MaxCalls : <<i, j>> \in Made(p) <=> <<i, j>> \in Made(q)
    <3> TAKE i \in 1..n, j \in 1..MaxCalls
    <3>1. <<i, j>> \in Made(q) <=>
            /\ h[i].role = "model" /\ j <= Len(h[i].names) /\ h[i].names[j] \in Tools
            /\ i < n \/ j <= a
      BY DEF Made, Called, h, n, a
    <3>2. <<i, j>> \in Made(p) <=>
            h[i].role = "model" /\ j <= Len(h[i].names) /\ h[i].names[j] \in Tools
      <4>1. i \in 1..(n + 1) /\ g[i] = h[i]
        BY <1>3
      <4> QED
        BY <1>4, <2>1, <4>1 DEF Made, Called
    <3>3. (i < n \/ i = n) /\ (i = n => Len(h[i].names) = a)
      BY <1>3, <1>5, SMTT(30)
    <3> QED
      BY <3>1, <3>2, <3>3
  <2>3. \A j \in 1..MaxCalls : <<n + 1, j>> \notin Made(p)
    BY <1>3, <1>4, <2>1 DEF Made, Called
  <2>4. /\ Made(p) \subseteq (1..(n + 1)) \X (1..MaxCalls)
        /\ Made(q) \subseteq (1..n) \X (1..MaxCalls)
    BY <2>1 DEF Made, Called, h, n
  <2>5. \A i \in 1..(n + 1) : i = n + 1 \/ i \in 1..n
    BY <1>3
  <2> QED
    BY ONLY <2>2, <2>3, <2>4, <2>5
<1>10. LoopInv(p)
  <2>1. q.counted = Cardinality(Made(q)) /\ \A i \in 1..n : Len(h[i].names) <= MaxCalls
    BY <1>1 DEF LoopInv, h, n
  <2>2. \A i \in 1..(n + 1) : Len(g[i].names) <= MaxCalls
    <3>1. Len(q.answers) <= MaxCalls
      BY <1>6, <1>7, <2>1
    <3>2. \A i \in 1..(n + 1) : i = n + 1 \/ i \in 1..n
      BY <1>3
    <3> QED
      BY <1>3, <2>1, <3>1, <3>2
  <2>3. Len(g) = 2 * (q.round + 1) /\ (p.task = "round" => q.round + 1 < MaxRounds)
    BY <1>3, <1>4, <1>5
  <2>4. Len(q.calls) <= MaxCalls
    BY <1>1 DEF LoopInv
  <2> QED
    BY <1>3, <1>4, <1>5, <1>8, <1>9, <2>1, <2>2, <2>3, <2>4 DEF LoopInv
<1>11. VoiceInv(p)
  BY <1>1, <1>4 DEF VoiceInv, TTS_TASK, GEMINI_TTS_TASK
<1> QED
  BY <1>4, <1>10, <1>11 DEF Sound, p, g, content
-----------------------------------------------------------------------------
(* After a call has been logged.                                           *)

\* A call begun is counted, and a request that is done has none without a row.
Counts(q, p) ==
  /\ p.lost = q.lost
  /\ p.made = IF p.pc = "calling" THEN q.made + 1 ELSE q.made
  /\ ~Unlogged(p)

\* What a request goes on with: nothing is left to log, and what was spoken is answered.
GoesOn(q, p) ==
  /\ Sound(p) /\ p.pc \in {"calling", "dispatching", "done"}
  /\ Counts(q, p) /\ p.inUse \in {NoVoice, q.inUse}
  /\ q.task \in {TTS_TASK, GEMINI_TTS_TASK} /\ Succeeded(q) => p.voice = q.task

LEMMA AfterRoundSound ==
  ASSUME NEW q, Sound(q), q.pc \in {"logging", "writing"}, q.task = "round"
  PROVE  GoesOn(q, AfterRound(q))
<1> DEFINE p == AfterRound(q)
<1>1. q \in Request /\ q.inUse \in Voices
  BY DEF Sound, Request
<1>2. q.task \notin {TTS_TASK, GEMINI_TTS_TASK}
  BY DEF TTS_TASK, GEMINI_TTS_TASK
<1> SUFFICES /\ Sound(p) /\ p.pc \in {"calling", "dispatching", "done"}
             /\ Counts(q, p) /\ p.inUse \in {NoVoice, q.inUse}
  BY <1>2 DEF GoesOn
<1>3. CASE q.result = "parse"
  <2>1. p = Fail(q, "parse")
    BY <1>3 DEF AfterRound
  <2>2. "parse" \in (Results \ {"ok"}) \cup {"notFound", "duplicate", "unreadable", "tooLong"}
    BY DEF Results
  <2> HIDE DEF p
  <2> QED
    BY <1>1, <2>1, <2>2, FailSound DEF Counts, Unlogged, TTS_TASK, GEMINI_TTS_TASK
<1>4. CASE q.result # "parse" /\ q.calls = <<>>
  <2>1. p = CallModel(q, "final")
    BY <1>4 DEF AfterRound
  <2>2. "final" \in Tasks
    BY DEF Tasks
  <2> HIDE DEF p
  <2> QED
    BY <1>1, <2>1, <2>2, CallSound DEF Counts, Unlogged, TTS_TASK, GEMINI_TTS_TASK
<1>5. CASE q.result # "parse" /\ q.calls # <<>>
  <2>1. p = [q EXCEPT !.pc = "dispatching",
                      !.history = Append(@, [role |-> "model", names |-> q.calls])]
    BY <1>5 DEF AfterRound
  <2> HIDE DEF p
  <2> QED
    BY <2>1, RoundOpens DEF Counts, Unlogged, TTS_TASK, GEMINI_TTS_TASK
<1> QED
  BY <1>3, <1>4, <1>5

LEMMA AfterSpeechSound ==
  ASSUME NEW q, Sound(q), q.pc \in {"logging", "writing"}, q.task = TTS_TASK
  PROVE  GoesOn(q, AfterElevenLabs(q))
<1> DEFINE p == AfterElevenLabs(q)
<1>1. /\ q \in Request /\ q.inUse \in Voices /\ q.inUse # GEMINI_TTS_TASK
      /\ q.result \in Results /\ q.result # "silent"
  BY DEF Sound, Request, VoiceInv, TTS_TASK
<1>2. Succeeded(q) <=> q.result = "ok"
  BY <1>1 DEF Succeeded, TTS_TASK
<1> SUFFICES /\ Sound(p) /\ p.pc \in {"calling", "done"}
             /\ Counts(q, p) /\ p.inUse \in {NoVoice, q.inUse}
             /\ q.result = "ok" => p.voice = TTS_TASK
  BY <1>2 DEF GoesOn
<1>3. CASE FallsBack(q)
  <2>1. p = CallModel(q, GEMINI_TTS_TASK) /\ q.result # "ok" /\ q.inUse # TTS_TASK
    BY <1>3 DEF AfterElevenLabs, FallsBack
  <2>2. GEMINI_TTS_TASK \in Tasks /\ GEMINI_TTS_TASK # "round"
    BY DEF Tasks, GEMINI_TTS_TASK
  <2> HIDE DEF p
  <2> QED
    BY <1>1, <2>1, <2>2, CallSound DEF Counts, Unlogged, TTS_TASK, GEMINI_TTS_TASK
<1>4. CASE ~FallsBack(q) /\ q.result = "ok"
  <2>1. p = Speak(q, TTS_TASK)
    BY <1>4 DEF AfterElevenLabs
  <2>2. TTS_TASK \in Voices \ {NoVoice} /\ q.inUse \in {NoVoice, TTS_TASK}
    BY <1>1 DEF Voices, TTS_TASK, NoVoice
  <2> HIDE DEF p
  <2> QED
    BY <1>1, <2>1, <2>2, SpeakSound DEF Counts, Unlogged, TTS_TASK, GEMINI_TTS_TASK
<1>5. CASE ~FallsBack(q) /\ q.result # "ok"
  <2>1. p = Fail(q, q.result)
    BY <1>5 DEF AfterElevenLabs
  <2>2. q.result \in (Results \ {"ok"}) \cup {"notFound", "duplicate", "unreadable", "tooLong"}
    BY <1>1, <1>5
  <2> HIDE DEF p
  <2> QED
    BY <1>1, <1>5, <2>1, <2>2, FailSound DEF Counts, Unlogged, TTS_TASK, GEMINI_TTS_TASK
<1> QED
  BY <1>3, <1>4, <1>5

LEMMA AfterLastSound ==
  ASSUME NEW q, Sound(q), q.pc \in {"logging", "writing"},
         q.task \in {"final", "stt", GEMINI_TTS_TASK}
  PROVE  GoesOn(q, AfterLast(q))
<1> DEFINE p == AfterLast(q)
<1>1. /\ q \in Request /\ q.inUse \in Voices
      /\ q.task = GEMINI_TTS_TASK => q.inUse # TTS_TASK /\ q.result # "silent"
      /\ q.result \in Results
  BY DEF Sound, Request, VoiceInv, GEMINI_TTS_TASK
<1>2. /\ q.task \in {TTS_TASK, GEMINI_TTS_TASK} => q.task = GEMINI_TTS_TASK
      /\ q.task = GEMINI_TTS_TASK /\ Succeeded(q) => q.result = "ok"
  BY <1>1 DEF Succeeded, TTS_TASK, GEMINI_TTS_TASK
<1> SUFFICES /\ Sound(p) /\ p.pc = "done"
             /\ Counts(q, p) /\ p.inUse \in {NoVoice, q.inUse}
             /\ q.result = "ok" /\ q.task = GEMINI_TTS_TASK => p.voice = GEMINI_TTS_TASK
  BY <1>2 DEF GoesOn
<1>3. CASE q.result # "ok"
  <2>1. p = Fail(q, q.result)
    BY <1>3 DEF AfterLast
  <2>2. q.result \in (Results \ {"ok"}) \cup {"notFound", "duplicate", "unreadable", "tooLong"}
    BY <1>1, <1>3
  <2> HIDE DEF p
  <2> QED
    BY <1>1, <1>3, <2>1, <2>2, FailSound DEF Counts, Unlogged, TTS_TASK, GEMINI_TTS_TASK
<1>4. CASE q.result = "ok" /\ q.task = GEMINI_TTS_TASK
  <2>1. p = Speak(q, GEMINI_TTS_TASK)
    BY <1>4 DEF AfterLast
  <2>2. GEMINI_TTS_TASK \in Voices \ {NoVoice} /\ q.inUse \in {NoVoice, GEMINI_TTS_TASK}
    BY <1>1, <1>4 DEF Voices, GEMINI_TTS_TASK, NoVoice
  <2> HIDE DEF p
  <2>3. /\ Sound(p) /\ p.pc = "done" /\ p.inUse = q.inUse /\ p.voice = GEMINI_TTS_TASK
        /\ p.made = q.made /\ p.lost = q.lost /\ p.task = GEMINI_TTS_TASK
    BY <1>1, <1>4, <2>1, <2>2, SpeakSound
  <2>4. Counts(q, p)
    BY <2>3 DEF Counts, Unlogged, GEMINI_TTS_TASK
  <2> QED
    BY <2>3, <2>4
<1>5. CASE q.result = "ok" /\ q.task # GEMINI_TTS_TASK
  <2>1. p = Done(q, 200)
    BY <1>5 DEF AfterLast, Answer
  <2> HIDE DEF p
  <2> QED
    BY <1>1, <1>5, <2>1, DoneSound DEF Counts, Unlogged, TTS_TASK, GEMINI_TTS_TASK
<1> QED
  BY <1>3, <1>4, <1>5

LEMMA AfterCallSound ==
  ASSUME NEW q, Sound(q), q.pc \in {"logging", "writing"}, q.task # "extraction"
  PROVE  GoesOn(q, AfterCall(q))
<1>1. q.task \in Tasks
  BY DEF Sound, Request
<1>2. CASE q.task = "round"
  BY <1>2, AfterRoundSound DEF AfterCall
<1>3. CASE q.task = TTS_TASK
  BY <1>3, AfterSpeechSound DEF AfterCall, TTS_TASK
<1>4. CASE q.task \in {"final", "stt", GEMINI_TTS_TASK}
  BY <1>4, AfterLastSound DEF AfterCall, TTS_TASK, GEMINI_TTS_TASK
<1> QED
  BY <1>1, <1>2, <1>3, <1>4 DEF Tasks

\* The count of the rows lost is the log's alone.
LEMMA LostSound ==
  ASSUME NEW q, Sound(q)
  PROVE  LET p == [q EXCEPT !.lost = @ + 1]
         IN  /\ Sound(p) /\ p.lost = q.lost + 1 /\ p.made = q.made /\ p.task = q.task
             /\ p.pc = q.pc /\ p.inUse = q.inUse /\ p.voice = q.voice /\ p.status = q.status
<1> DEFINE p == [q EXCEPT !.lost = @ + 1]
<1>1. q \in Request /\ LoopInv(q) /\ VoiceInv(q)
  BY DEF Sound
<1>2. /\ p \in Request /\ p.lost = q.lost + 1 /\ p.made = q.made
      /\ p.pc = q.pc /\ p.inUse = q.inUse /\ p.voice = q.voice /\ p.status = q.status
      /\ p.task = q.task /\ p.result = q.result /\ p.round = q.round
      /\ p.history = q.history /\ p.calls = q.calls /\ p.answers = q.answers
      /\ p.counted = q.counted
  <2>1. q.lost + 1 \in Nat
    BY <1>1 DEF Request
  <2> QED
    BY <1>1, <2>1 DEF Request
<1> HIDE DEF p
<1>3. Made(p) = Made(q)
  <2>1. Called(p) = Called(q)
    BY <1>2 DEF Called
  <2> QED
    BY <1>2, <2>1 DEF Made
<1>4. q.pc = "dispatching" => Dispatching(p)
  <2>1. q.pc = "dispatching" => Dispatching(q)
    BY <1>1 DEF LoopInv
  <2>2. Dispatching(p) <=> Dispatching(q)
    BY <1>2, Zenon DEF Dispatching
  <2> QED
    BY <2>1, <2>2
<1>5. LoopInv(p)
  BY <1>1, <1>2, <1>3, <1>4 DEF LoopInv
<1>6. VoiceInv(p)
  BY <1>1, <1>2 DEF VoiceInv
<1> QED
  BY <1>2, <1>5, <1>6 DEF Sound, p
-----------------------------------------------------------------------------
(* Steps.                                                                  *)

\* A set of numbers up to a bound has a greatest one.
LEMMA Greatest ==
  ASSUME NEW N \in Nat, NEW S, S \subseteq 1..N, S # {}
  PROVE  Max(S) \in S
<1> DEFINE T == {n \in Nat : n <= N /\ N - n \in S}
<1>1. PICK s \in S : TRUE
  OBVIOUS
<1>2. N - s \in T
  <2>1. s \in 1..N
    BY <1>1
  <2>2. N - s \in Nat /\ N - s <= N /\ N - (N - s) = s
    BY <2>1
  <2> QED
    BY <1>1, <2>2
<1>3. PICK t \in T : \A u \in T : ~(<<u, t>> \in OpToRel(<, Nat))
  <2>1. T \subseteq Nat /\ T # {}
    BY <1>2
  <2> HIDE DEF T
  <2> QED
    BY <2>1, NatLessThanWellFounded, WFMin
<1>4. \A y \in S : N - t >= y
  <2> SUFFICES ASSUME NEW y \in S
               PROVE  N - t >= y
    OBVIOUS
  <2>1. y \in 1..N
    OBVIOUS
  <2>2. N - y \in Nat /\ N - y <= N /\ N - (N - y) = y
    BY <2>1
  <2>3. N - y \in T
    BY <2>2
  <2>4. ~(N - y < t)
    BY <1>3, <2>3 DEF OpToRel
  <2> QED
    BY <2>1, <2>2, <2>4
<1>5. \E x \in S : \A y \in S : x >= y
  BY <1>3, <1>4
<1> QED
  BY <1>5, Zenon DEF Max

\* The voice in use is that of a synthesis in the log.
LEMMA VoiceFound ==
  ASSUME TypeOK, VoiceTaskInUse # NoVoice
  PROVE  \E i \in 1..Len(log) : Synthesis(log[i]) /\ log[i].task = VoiceTaskInUse
<1> DEFINE spoken == {i \in 1..Len(log) : log[i].ok /\ log[i].task \in {TTS_TASK, GEMINI_TTS_TASK}}
<1>1. spoken # {} /\ VoiceTaskInUse = log[Max(spoken)].task
  BY Zenon DEF VoiceTaskInUse
<1>2. Len(log) \in Nat /\ spoken \subseteq 1..Len(log)
  BY DEF TypeOK
<1>3. \A i \in spoken : i \in 1..Len(log) /\ Synthesis(log[i])
  BY DEF Synthesis
<1> HIDE DEF spoken
<1>4. Max(spoken) \in spoken
  BY <1>1, <1>2, Greatest
<1> QED
  BY <1>1, <1>3, <1>4

LEMMA VoiceType ==
  ASSUME TypeOK
  PROVE  VoiceTaskInUse \in Voices
<1>1. CASE VoiceTaskInUse = NoVoice
  BY <1>1 DEF Voices
<1>2. CASE VoiceTaskInUse # NoVoice
  BY <1>2, VoiceFound DEF Synthesis, Voices
<1> QED
  BY <1>1, <1>2

\* What a request becomes: nothing it answered is lost, its voice is one there was, and
\* the rows due grow by one with a row and with nothing else.
Follows(q, p) ==
  /\ Sound(p) /\ FreshInv(p) /\ q.pc # "done"
  /\ p.inUse \in {NoVoice, q.inUse, VoiceTaskInUse}

Silently(q, p) ==
  /\ UNCHANGED log
  /\ Due(p) = Due(q)

Recording(r, q, p) ==
  \E row \in LogRow :
    /\ row.request = r /\ log' = Append(log, row)
    /\ Synthesis(row) => p.voice = row.task
    /\ Due(p) = Due(q) + 1

Moves(r, p) ==
  /\ Becomes(r, p) /\ Follows(requests[r], p)
  /\ Silently(requests[r], p) \/ Recording(r, requests[r], p)

\* A request goes on to another point of its handler.
LEMMA PcSound ==
  ASSUME NEW q, Sound(q), q.pc \notin {"done", "dispatching"}, NEW pc \in Pcs \ {"dispatching"}
  PROVE  LET p == [q EXCEPT !.pc = pc]
         IN  /\ Sound(p)
             /\ p.pc = pc /\ p.inUse = q.inUse /\ p.round = q.round
             /\ p.made = q.made /\ p.lost = q.lost /\ p.task = q.task
<1> DEFINE p == [q EXCEPT !.pc = pc]
<1>1. q \in Request /\ LoopInv(q) /\ VoiceInv(q)
  BY DEF Sound
<1>2. /\ p \in Request /\ p.pc = pc /\ p.made = q.made /\ p.lost = q.lost
      /\ p.inUse = q.inUse /\ p.voice = q.voice
      /\ p.task = q.task /\ p.result = q.result /\ p.round = q.round
      /\ p.history = q.history /\ p.calls = q.calls /\ p.answers = q.answers
      /\ p.counted = q.counted
  BY <1>1 DEF Request
<1> HIDE DEF p
<1>3. Len(q.calls) <= MaxCalls /\ (q.task = "round" => q.round < MaxRounds)
  BY <1>1 DEF LoopInv
<1>4. LoopInv(p)
  BY <1>1, <1>2, <1>3, LoopKept
<1>5. VoiceInv(p)
  BY <1>1, <1>2 DEF VoiceInv
<1> QED
  BY <1>2, <1>4, <1>5 DEF Sound, p

LEMMA SoundNow ==
  ASSUME IInv, NEW r \in Requests
  PROVE  /\ Sound(requests[r]) /\ FreshInv(requests[r]) /\ requests[r] \in Request
         /\ requests[r].made \in Nat /\ requests[r].lost \in Nat
         /\ requests[r].inUse \in Voices
BY DEF IInv, TypeOK, RequestsInv, Sound, Request

LEMMA ArriveMoves ==
  ASSUME IInv, NEW r \in Requests, Arrive(r)
  PROVE  \E p : Moves(r, p)
<1> DEFINE q == requests[r]
<1>1. /\ q.pc = "idle" /\ q.made = 0 /\ q.lost = 0 /\ UNCHANGED log
  BY SoundNow DEF Arrive, FreshInv
<1>2. PICK kind \in Kinds(r) : Becomes(r, [Idle EXCEPT !.pc = "connecting", !.kind = kind])
  BY DEF Arrive
<1> DEFINE p == [Idle EXCEPT !.pc = "connecting", !.kind = kind]
<1>3. kind \in {"structured", "turn", "speech", "transcription", "extraction"}
  BY KindsAssumption
<1>4. /\ p \in Request
      /\ p.pc = "connecting" /\ p.task = "final" /\ p.history = <<>> /\ p.round = 0
      /\ p.calls = <<>> /\ p.answers = <<>> /\ p.counted = 0 /\ p.made = 0 /\ p.lost = 0
      /\ p.voice = NoVoice /\ p.inUse = NoVoice /\ p.result = "ok"
  <2>1. Idle \in Request
    BY IdleSound DEF Sound
  <2> QED
    BY <1>3, <2>1 DEF Idle, Request, Pcs
<1>5. Becomes(r, p)
  BY <1>2
<1> HIDE DEF p
<1>6. LoopInv(p)
  BY <1>4, LoopFresh
<1>7. VoiceInv(p)
  BY <1>4 DEF VoiceInv, NoVoice, TTS_TASK, GEMINI_TTS_TASK
<1>8. Sound(p)
  BY <1>4, <1>6, <1>7 DEF Sound
<1>9. Follows(q, p)
  BY <1>1, <1>4, <1>8 DEF Follows, FreshInv
<1>10. Silently(q, p)
  BY <1>1, <1>4 DEF Silently, Due, Pending, Unlogged
<1> QED
  BY <1>5, <1>9, <1>10 DEF Moves

\* A step to an error: what the handler held is gone.
LEMMA FailMoves ==
  ASSUME IInv, NEW r \in Requests,
         requests[r].pc \in {"connecting", "preparing", "calling"}, UNCHANGED log,
         NEW error \in (Results \ {"ok"}) \cup {"notFound", "duplicate", "unreadable", "tooLong"},
         Becomes(r, Fail(requests[r], error)),
         requests[r].pc = "calling" =>
           \/ requests[r].task = "extraction"
           \/ (requests[r].task = "round" /\ error \in {"transient", "unexpected"})
  PROVE  \E p : Moves(r, p)
<1> DEFINE q == requests[r]
           p == Fail(q, error)
<1>1. Sound(q) /\ q \in Request /\ q.made \in Nat /\ q.lost \in Nat
  BY SoundNow
<1>2. q.pc \in {"connecting", "preparing"} => q.task = "final"
  BY SoundNow DEF FreshInv
<1> HIDE DEF q
<1>3. /\ Sound(p) /\ p.pc = "done" /\ p.inUse = NoVoice
      /\ p.made = q.made /\ p.lost = q.lost /\ p.task = q.task /\ p.status = Status[error]
  BY <1>1, FailSound
<1> HIDE DEF p
<1>4. Unlogged(p) <=> q.pc = "calling"
  <2>1. error \in {"transient", "unexpected"} => Status[error] # Status["parse"]
    BY DEF Status
  <2>2. q.pc \in {"connecting", "preparing", "calling"}
    BY DEF q
  <2>3. q.pc = "calling" =>
          q.task = "extraction" \/ (q.task = "round" /\ error \in {"transient", "unexpected"})
    BY DEF q
  <2> QED
    BY <1>2, <1>3, <2>1, <2>2, <2>3 DEF Unlogged
<1>5. Follows(q, p)
  BY <1>3 DEF Follows, FreshInv, q
<1>6. Silently(q, p)
  <2>1. Pending(q) <=> q.pc = "calling"
    BY DEF Pending, q
  <2>2. ~Pending(p) /\ ~Unlogged(q)
    BY <1>3 DEF Pending, Unlogged, q
  <2>3. Due(p) = Due(q)
    BY <1>1, <1>3, <1>4, <2>1, <2>2 DEF Due
  <2> QED
    BY <2>3 DEF Silently
<1> QED
  BY <1>5, <1>6 DEF Moves, p, q

\* A step that logs nothing: a call is counted as it begins.
LEMMA GoesMoves ==
  ASSUME IInv, NEW r \in Requests, NEW p,
         requests[r].pc \notin {"done", "logging", "writing"}, UNCHANGED log, Becomes(r, p),
         requests[r].pc # "calling", p.pc \notin {"logging", "writing", "done"},
         Sound(p), FreshInv(p), p.lost = requests[r].lost,
         p.made = requests[r].made + (IF p.pc = "calling" THEN 1 ELSE 0),
         p.inUse \in {NoVoice, requests[r].inUse, VoiceTaskInUse}
  PROVE  Moves(r, p)
<1>1. Follows(requests[r], p)
  BY DEF Follows
<1>2. requests[r].made \in Nat /\ requests[r].lost \in Nat
  BY SoundNow
<1>3. Silently(requests[r], p)
  BY <1>2 DEF Silently, Due, Pending, Unlogged
<1> QED
  BY <1>1, <1>3 DEF Moves

LEMMA ConnectMoves ==
  ASSUME IInv, NEW r \in Requests, Connect(r) \/ ConnectTimesOut(r)
  PROVE  \E p : Moves(r, p)
<1>1. requests[r].pc = "connecting" /\ UNCHANGED log
  BY DEF Connect, ConnectTimesOut
<1>2. CASE Connect(r)
  <2> DEFINE q == requests[r]
             p == [q EXCEPT !.pc = "preparing"]
  <2>1. Sound(q) /\ q.round = 0 /\ q.task = "final" /\ q.made \in Nat
    BY <1>1, SoundNow DEF FreshInv
  <2>2. Becomes(r, p)
    BY <1>2 DEF Connect
  <2>3. /\ Sound(p)
        /\ p.pc = "preparing" /\ p.inUse = q.inUse /\ p.round = 0
        /\ p.made = q.made /\ p.lost = q.lost /\ p.task = "final"
    <3>1. "preparing" \in Pcs \ {"dispatching"}
      BY DEF Pcs
    <3> HIDE DEF q
    <3> QED
      BY <1>1, <2>1, <3>1, PcSound DEF q
  <2> HIDE DEF p
  <2> QED
    BY <1>1, <2>1, <2>2, <2>3, GoesMoves DEF FreshInv
<1>3. CASE ConnectTimesOut(r)
  <2>1. "unexpected" \in (Results \ {"ok"}) \cup {"notFound", "duplicate", "unreadable", "tooLong"}
    BY DEF Results
  <2>2. Becomes(r, Fail(requests[r], "unexpected"))
    BY <1>3 DEF ConnectTimesOut
  <2> QED
    BY <1>1, <2>1, <2>2, FailMoves
<1> QED
  BY <1>2, <1>3

\* The first call of a request.
LEMMA CallMoves ==
  ASSUME IInv, NEW r \in Requests, requests[r].pc = "preparing", UNCHANGED log,
         NEW task \in {"final", "round", "stt", "extraction"}, Becomes(r, CallModel(requests[r], task))
  PROVE  \E p : Moves(r, p)
<1> DEFINE q == requests[r]
           p == CallModel(q, task)
<1>1. Sound(q) /\ q.round = 0 /\ 0 < MaxRounds
  BY SoundNow, RoundsAssumption DEF FreshInv
<1>2. task \in Tasks /\ task \notin {TTS_TASK, GEMINI_TTS_TASK}
  BY DEF Tasks, TTS_TASK, GEMINI_TTS_TASK
<1>3. /\ Sound(p) /\ p.pc = "calling" /\ p.inUse = q.inUse
      /\ p.made = q.made + 1 /\ p.lost = q.lost
  <2> HIDE DEF q
  <2> QED
    BY <1>1, <1>2, CallSound DEF q
<1> HIDE DEF p
<1>4. FreshInv(p)
  BY <1>3 DEF FreshInv
<1> QED
  BY <1>3, <1>4, GoesMoves DEF p

LEMMA SpeechMoves ==
  ASSUME IInv, NEW r \in Requests, PrepareSpeech(r)
  PROVE  \E p : Moves(r, p)
<1> DEFINE q == requests[r]
           voice == VoiceTaskInUse
           task == IF voice = GEMINI_TTS_TASK THEN GEMINI_TTS_TASK ELSE TTS_TASK
           p == CallModel([q EXCEPT !.inUse = voice], task)
<1>1. q.pc = "preparing" /\ UNCHANGED log /\ Becomes(r, p)
  BY DEF PrepareSpeech
<1>2. q \in Request /\ LoopInv(q) /\ VoiceInv(q)
  BY SoundNow DEF Sound
<1>3. /\ voice \in Voices /\ task \in {TTS_TASK, GEMINI_TTS_TASK} /\ task \in Tasks
      /\ task # "round" /\ (voice = TTS_TASK => task # GEMINI_TTS_TASK)
      /\ (voice = GEMINI_TTS_TASK => task # TTS_TASK)
  <2>1. voice \in Voices
    BY VoiceType DEF IInv
  <2> QED
    BY <2>1 DEF Tasks, TTS_TASK, GEMINI_TTS_TASK
<1> HIDE DEF voice, task
<1>4. /\ p \in Request /\ p.pc = "calling" /\ p.inUse = voice
      /\ p.made = q.made + 1 /\ p.lost = q.lost
      /\ p.voice = q.voice /\ p.task = task /\ p.result = "ok" /\ p.round = q.round
      /\ p.history = q.history /\ p.calls = q.calls /\ p.answers = q.answers
      /\ p.counted = q.counted
  <2> DEFINE hearing == [q EXCEPT !.inUse = voice]
  <2>1. /\ hearing \in Request /\ hearing.inUse = voice
        /\ hearing.made = q.made /\ hearing.lost = q.lost
        /\ hearing.voice = q.voice /\ hearing.round = q.round
        /\ hearing.history = q.history /\ hearing.calls = q.calls
        /\ hearing.answers = q.answers /\ hearing.counted = q.counted
    BY <1>2, <1>3 DEF Request
  <2> HIDE DEF hearing
  <2>2. p = [hearing EXCEPT !.pc = "calling", !.task = task, !.result = "ok",
                            !.made = hearing.made + 1]
    BY DEF CallModel, hearing
  <2>3. q.made + 1 \in Nat
    BY <1>2 DEF Request
  <2> HIDE DEF p
  <2> QED
    BY <1>3, <2>1, <2>2, <2>3 DEF Request, Pcs, Results
<1> HIDE DEF p
<1>5. LoopInv(p)
  <2>1. Len(q.calls) <= MaxCalls
    BY <1>2 DEF LoopInv
  <2> QED
    BY <1>1, <1>2, <1>3, <1>4, <2>1, LoopKept
<1>6. VoiceInv(p)
  BY <1>1, <1>2, <1>3, <1>4 DEF VoiceInv
<1>7. Sound(p) /\ FreshInv(p)
  BY <1>4, <1>5, <1>6 DEF Sound, FreshInv
<1> QED
  BY <1>1, <1>4, <1>7, GoesMoves DEF voice

LEMMA PrepareMoves ==
  ASSUME IInv, NEW r \in Requests, Prepare(r)
  PROVE  \E p : Moves(r, p)
<1>1. CASE NotFound(r)
  BY <1>1, FailMoves DEF NotFound
<1>2. CASE PrepareStructured(r)
  BY <1>2, CallMoves DEF PrepareStructured
<1>3. CASE PrepareSpeech(r)
  BY <1>3, SpeechMoves
<1>4. CASE PrepareTranscription(r)
  <2>1. requests[r].pc = "preparing" /\ UNCHANGED log
    BY <1>4 DEF PrepareTranscription
  <2>2. CASE Becomes(r, CallModel(requests[r], "stt"))
    BY <2>1, <2>2, CallMoves
  <2>3. CASE \E error \in {"unreadable", "tooLong"} : Becomes(r, Fail(requests[r], error))
    BY <2>1, <2>3, FailMoves
  <2> QED
    BY <1>4, <2>2, <2>3 DEF PrepareTranscription
<1>5. CASE PrepareExtraction(r)
  <2>1. requests[r].pc = "preparing" /\ UNCHANGED log
    BY <1>5 DEF PrepareExtraction
  <2>2. CASE Becomes(r, CallModel(requests[r], "extraction"))
    BY <2>1, <2>2, CallMoves
  <2>3. CASE \E error \in {"unreadable", "tooLong", "duplicate"} :
               Becomes(r, Fail(requests[r], error))
    BY <2>1, <2>3, FailMoves
  <2> QED
    BY <1>5, <2>2, <2>3 DEF PrepareExtraction
<1> QED
  BY <1>1, <1>2, <1>3, <1>4, <1>5 DEF Prepare

\* A call that has been made, with whatever came of it.
LEMMA LoggedMoves ==
  ASSUME IInv, NEW r \in Requests, requests[r].pc = "calling", UNCHANGED log,
         NEW q, Sound(q), q.pc = "calling", q.task # "extraction",
         q.made = requests[r].made, q.lost = requests[r].lost, q.inUse = requests[r].inUse,
         NEW result \in Results, result = "silent" => q.task = "stt",
         Becomes(r, Logged(q, result))
  PROVE  \E p : Moves(r, p)
<1> DEFINE p == Logged(q, result)
<1>1. /\ Sound(p) /\ p.pc = "logging" /\ p.made = q.made /\ p.lost = q.lost
      /\ p.task = q.task /\ p.inUse = q.inUse
  BY LoggedSound
<1>2. q.made \in Nat /\ q.lost \in Nat
  BY SoundNow
<1> HIDE DEF p
<1>3. Follows(requests[r], p)
  BY <1>1 DEF Follows, FreshInv
<1>4. Silently(requests[r], p)
  BY <1>1, <1>2 DEF Silently, Due, Pending, Unlogged
<1> QED
  BY <1>3, <1>4 DEF Moves, p

LEMMA ResultTypes ==
  /\ StructuredResults \subseteq Results \ {"silent"}
  /\ GeminiSpeechResults \subseteq Results \ {"silent"}
  /\ ElevenLabsResults \subseteq Results \ {"silent"}
  /\ TranscriptionResults \subseteq Results
  /\ \A f \in Failures : GeminiError(f) \in {"transient", "unexpected"}
BY DEF StructuredResults, GeminiSpeechResults, ElevenLabsResults, TranscriptionResults,
       GeminiError, ElevenLabsError, Transient, Failures, Results

\* The calls of an answer are as many as the bound allows.
LEMMA AnsweredSound ==
  ASSUME NEW q, Sound(q), q.pc = "calling",
         NEW n \in 0..(MaxCalls - Cardinality(Called(q))), NEW calls \in [1..n -> Name]
  PROVE  LET p == [q EXCEPT !.calls = calls]
         IN  /\ Sound(p) /\ p.pc = "calling" /\ p.inUse = q.inUse
             /\ p.made = q.made /\ p.lost = q.lost /\ p.task = q.task
<1> DEFINE p == [q EXCEPT !.calls = calls]
<1>1. q \in Request /\ LoopInv(q) /\ VoiceInv(q)
  BY DEF Sound
<1>2. Cardinality(Called(q)) \in Nat
  <2>1. Len(q.history) \in Nat /\ MaxCalls \in Nat
    BY <1>1, RoundsAssumption DEF Request
  <2>2. IsFiniteSet(1..Len(q.history)) /\ IsFiniteSet(1..MaxCalls)
    BY <2>1, FS_Interval
  <2>3. IsFiniteSet((1..Len(q.history)) \X (1..MaxCalls))
    BY <2>2, FS_Product
  <2>4. Called(q) \subseteq (1..Len(q.history)) \X (1..MaxCalls)
    BY DEF Called
  <2>5. IsFiniteSet(Called(q))
    BY <2>3, <2>4, FS_Subset
  <2> QED
    BY <2>5, FS_CardinalityType
<1>3. n \in Nat /\ n <= MaxCalls
  BY <1>2, RoundsAssumption
<1>4. calls \in Seq(Name) /\ Len(calls) = n
  BY <1>3
<1>5. /\ p \in Request /\ p.pc = q.pc /\ p.made = q.made /\ p.lost = q.lost
      /\ p.inUse = q.inUse /\ p.voice = q.voice
      /\ p.task = q.task /\ p.result = q.result /\ p.round = q.round
      /\ p.history = q.history /\ p.calls = calls /\ p.answers = q.answers
      /\ p.counted = q.counted
  BY <1>1, <1>4 DEF Request
<1> HIDE DEF p
<1>6. LoopInv(p)
  <2>1. q.task = "round" => q.round < MaxRounds
    BY <1>1 DEF LoopInv
  <2> QED
    BY <1>1, <1>3, <1>4, <1>5, <2>1, LoopKept
<1>7. VoiceInv(p)
  BY <1>1, <1>5 DEF VoiceInv
<1> QED
  BY <1>5, <1>6, <1>7 DEF Sound, p

\* An upload that was extracted from has a call without a row.
LEMMA ExtractedMoves ==
  ASSUME IInv, NEW r \in Requests, UNCHANGED log,
         requests[r].pc = "calling", requests[r].task = "extraction",
         Becomes(r, Done(requests[r], 200))
  PROVE  \E p : Moves(r, p)
<1> DEFINE q == requests[r]
           p == Done(q, 200)
<1>1. q \in Request /\ q.made \in Nat /\ q.lost \in Nat
  BY SoundNow
<1> HIDE DEF q
<1>2. /\ Sound(p) /\ p.pc = "done" /\ p.inUse = NoVoice
      /\ p.made = q.made /\ p.lost = q.lost /\ p.task = q.task
  BY <1>1, DoneSound
<1> HIDE DEF p
<1>3. Follows(q, p)
  BY <1>2 DEF Follows, FreshInv, q
<1>4. Pending(q) /\ Unlogged(p) /\ Due(p) = Due(q)
  BY <1>1, <1>2 DEF Due, Pending, Unlogged, q
<1> QED
  BY <1>3, <1>4 DEF Moves, Silently, p, q

LEMMA ModelMoves ==
  ASSUME IInv, NEW r \in Requests, ModelCall(r)
  PROVE  \E p : Moves(r, p)
<1> DEFINE q == requests[r]
<1>1. Sound(q) /\ q.pc = "calling" /\ UNCHANGED log
  BY SoundNow DEF ModelCall, StructuredCall, ElevenLabsCall, GeminiSpeechCall,
                  TranscriptionCall, RoundCall, RoundFails, ExtractionCall
<1>2. CASE StructuredCall(r) \/ ElevenLabsCall(r) \/ GeminiSpeechCall(r) \/ TranscriptionCall(r)
  <2>1. q.task \in {"final", TTS_TASK, GEMINI_TTS_TASK, "stt"} /\ q.task # "extraction"
    BY <1>2 DEF StructuredCall, ElevenLabsCall, GeminiSpeechCall, TranscriptionCall,
                TTS_TASK, GEMINI_TTS_TASK
  <2>2. PICK result \in Results : Becomes(r, Logged(q, result)) /\ (result = "silent" => q.task = "stt")
    BY <1>2, ResultTypes
       DEF StructuredCall, ElevenLabsCall, GeminiSpeechCall, TranscriptionCall
  <2> QED
    BY <1>1, <2>1, <2>2, LoggedMoves
<1>3. CASE RoundFails(r)
  <2>1. PICK f \in Failures : Becomes(r, Fail(q, GeminiError(f)))
    BY <1>3 DEF RoundFails
  <2>2. q.task = "round" /\ GeminiError(f) \in {"transient", "unexpected"}
    BY <1>3, ResultTypes DEF RoundFails
  <2>3. GeminiError(f) \in (Results \ {"ok"}) \cup {"notFound", "duplicate", "unreadable", "tooLong"}
    BY <2>2 DEF Results
  <2> QED
    BY <1>1, <2>1, <2>2, <2>3, FailMoves
<1>4. CASE RoundCall(r)
  <2>0. q.task = "round" /\ q.task # "extraction"
    BY <1>4 DEF RoundCall
  <2>1. CASE Becomes(r, Logged(q, "parse"))
    <3>1. "parse" \in Results
      BY DEF Results
    <3> QED
      BY <1>1, <2>0, <2>1, <3>1, LoggedMoves
  <2>2. ASSUME NEW n \in 0..MaxCalls - Cardinality(Called(q)),
               NEW calls \in [1..n -> Tools \cup Invented],
               Becomes(r, Logged([q EXCEPT !.calls = calls], "ok"))
        PROVE  \E p : Moves(r, p)
    <3> DEFINE answered == [q EXCEPT !.calls = calls]
    <3>1. /\ Sound(answered) /\ answered.pc = "calling" /\ answered.inUse = q.inUse
          /\ answered.made = q.made /\ answered.lost = q.lost /\ answered.task = q.task
      <4> HIDE DEF q
      <4>1. calls \in [1..n -> Name]
        BY DEF Name
      <4> QED
        BY <1>1, <4>1, AnsweredSound
    <3>2. "ok" \in Results
      BY DEF Results
    <3>3. Becomes(r, Logged(answered, "ok"))
      BY <2>2
    <3> HIDE DEF answered
    <3> QED
      BY <1>1, <2>0, <3>1, <3>2, <3>3, LoggedMoves
  <2> QED
    BY <1>4, <2>1, <2>2 DEF RoundCall
<1>5. CASE ExtractionCall(r)
  <2>1. q.task = "extraction"
    BY <1>5 DEF ExtractionCall
  <2>2. CASE Becomes(r, Answer(q))
    <3>1. Becomes(r, Done(q, 200))
      BY <2>2 DEF Answer
    <3> QED
      BY <1>1, <2>1, <3>1, ExtractedMoves
  <2>3. CASE \E error \in (StructuredResults \cup {"unreadable"}) \ {"ok"} :
               Becomes(r, Fail(q, error))
    <3>1. PICK error \in (StructuredResults \cup {"unreadable"}) \ {"ok"} :
            Becomes(r, Fail(q, error))
      BY <2>3
    <3>2. error \in (Results \ {"ok"}) \cup {"notFound", "duplicate", "unreadable", "tooLong"}
      BY ResultTypes
    <3> QED
      BY <1>1, <2>1, <3>1, <3>2, FailMoves
  <2> QED
    BY <1>5, <2>2, <2>3 DEF ExtractionCall
<1> QED
  BY <1>2, <1>3, <1>4, <1>5 DEF ModelCall

LEMMA LoopMoves ==
  ASSUME IInv, NEW r \in Requests, Dispatch(r) \/ EndRound(r)
  PROVE  \E p : Moves(r, p)
<1> DEFINE q == requests[r]
<1>1. Sound(q) /\ q \in Request /\ q.pc = "dispatching" /\ UNCHANGED log
  BY SoundNow DEF Dispatch, EndRound
<1>2. CASE Dispatch(r)
  <2> DEFINE name == Head(q.calls)
             p == [q EXCEPT !.calls = Tail(@), !.answers = Append(q.answers, name),
                            !.counted = Counted(q, name)]
  <2>1. Becomes(r, p) /\ q.calls # <<>>
    BY <1>2 DEF Dispatch, Responses
  <2>2. Len(q.calls) # 0
    BY <1>1, <2>1 DEF Request
  <2>3. /\ Sound(p) /\ p.pc = "dispatching" /\ p.inUse = q.inUse
        /\ p.made = q.made /\ p.lost = q.lost /\ q.made \in Nat
    <3> HIDE DEF q
    <3> QED
      BY <1>1, <2>2, CallAnswered DEF Request
  <2> HIDE DEF p
  <2>4. FreshInv(p)
    BY <2>3 DEF FreshInv
  <2> QED
    BY <1>1, <2>1, <2>3, <2>4, GoesMoves
<1>3. CASE EndRound(r)
  <2> DEFINE p == NextRound([q EXCEPT !.answers = <<>>,
                                      !.history = Append(@, [role |-> "user",
                                                             names |-> q.answers])])
  <2>1. Becomes(r, p) /\ q.calls = <<>>
    BY <1>3 DEF EndRound
  <2>2. Len(q.calls) = 0
    BY <2>1
  <2>3. /\ Sound(p) /\ p.pc = "calling" /\ p.inUse = q.inUse
        /\ p.made = q.made + 1 /\ p.lost = q.lost
    <3> HIDE DEF q
    <3> QED
      BY <1>1, <2>2, RoundEnds
  <2> HIDE DEF p
  <2>4. FreshInv(p)
    BY <2>3 DEF FreshInv
  <2> QED
    BY <1>1, <2>1, <2>3, <2>4, GoesMoves
<1> QED
  BY <1>2, <1>3

LEMMA RowsFinite ==
  ASSUME TypeOK, NEW r \in Requests
  PROVE  IsFiniteSet(Rows(r)) /\ Cardinality(Rows(r)) \in Nat
<1>1. IsFiniteSet(1..Len(log))
  <2>1. Len(log) \in Nat
    BY DEF TypeOK
  <2> QED
    BY <2>1, FS_Interval
<1>2. Rows(r) \subseteq 1..Len(log)
  BY DEF Rows
<1>3. IsFiniteSet(Rows(r))
  BY <1>1, <1>2, FS_Subset
<1> QED
  BY <1>3, FS_CardinalityType

LEMMA LogMoves ==
  ASSUME IInv, NEW r \in Requests, LogConnects(r) \/ LogWrites(r) \/ LogFails(r)
  PROVE  \E p : Moves(r, p)
<1> DEFINE q == requests[r]
           p == AfterCall(q)
<1>1. /\ Sound(q) /\ q \in Request /\ q.pc \in {"logging", "writing"}
      /\ q.made \in Nat /\ q.lost \in Nat /\ q.task \in Tasks /\ q.task # "extraction"
  BY SoundNow DEF LogConnects, LogWrites, LogFails, Request, FreshInv
<1>2. GoesOn(q, p)
  <2> HIDE DEF q
  <2> QED
    BY <1>1, AfterCallSound
<1>3. CASE LogConnects(r)
  <2> DEFINE w == [q EXCEPT !.pc = "writing"]
  <2>1. Becomes(r, w) /\ UNCHANGED log
    BY <1>3 DEF LogConnects
  <2>2. /\ Sound(w) /\ w.pc = "writing" /\ w.inUse = q.inUse
        /\ w.made = q.made /\ w.lost = q.lost /\ w.task = q.task
    <3>1. "writing" \in Pcs \ {"dispatching"}
      BY DEF Pcs
    <3> HIDE DEF q
    <3> QED
      BY <1>1, <3>1, PcSound
  <2> HIDE DEF w
  <2>3. Follows(q, w) /\ Silently(q, w)
    BY <1>1, <2>1, <2>2 DEF Follows, FreshInv, Silently, Due, Pending, Unlogged
  <2> QED
    BY <2>1, <2>3 DEF Moves
<1> HIDE DEF p
<1>4. FreshInv(p) /\ Due(p) = Due(q) + 1
  BY <1>1, <1>2 DEF GoesOn, Counts, FreshInv, Due, Pending, Unlogged
<1>5. CASE LogWrites(r)
  <2> DEFINE row == [request |-> r, task |-> q.task, ok |-> Succeeded(q)]
  <2>1. Becomes(r, p) /\ log' = Append(log, row)
    BY <1>5 DEF LogWrites, p
  <2>2. row \in LogRow /\ row.request = r /\ row.task = q.task /\ row.ok = Succeeded(q)
    <3>1. Succeeded(q) \in BOOLEAN
      BY DEF Succeeded
    <3> QED
      BY <1>1, <3>1 DEF LogRow
  <2> HIDE DEF row
  <2>3. Synthesis(row) => p.voice = row.task
    BY <1>2, <2>2 DEF Synthesis, GoesOn
  <2>4. Due(p) = Due(q) + 1
    BY <1>4
  <2>5. Follows(q, p)
    BY <1>1, <1>2, <1>4 DEF Follows, GoesOn
  <2>6. Recording(r, q, p)
    BY <2>1, <2>2, <2>3, <2>4 DEF Recording
  <2> QED
    BY <2>1, <2>5, <2>6 DEF Moves
<1>6. CASE LogFails(r)
  <2> DEFINE less == [p EXCEPT !.lost = @ + 1]
  <2>1. Becomes(r, less) /\ UNCHANGED log
    BY <1>6 DEF LogFails, p
  <2>2. /\ Sound(p) /\ p.inUse \in {NoVoice, q.inUse}
        /\ p.made \in Nat /\ p.lost \in Nat
    BY <1>2 DEF GoesOn, Sound, Request
  <2>3. /\ Sound(less) /\ less.lost = p.lost + 1 /\ less.made = p.made
        /\ less.task = p.task /\ less.status = p.status
        /\ less.pc = p.pc /\ less.inUse = p.inUse
    <3> HIDE DEF q
    <3> QED
      BY <2>2, LostSound
  <2> HIDE DEF less
  <2>4. FreshInv(less)
    BY <1>2, <2>3 DEF FreshInv, GoesOn
  <2>5. Follows(q, less)
    BY <1>1, <2>2, <2>3, <2>4 DEF Follows
  <2>6. Silently(q, less)
    <3>1. Due(less) = Due(p) - 1
      BY <2>2, <2>3 DEF Due, Pending, Unlogged
    <3>2. Due(q) \in Int
      BY <1>1 DEF Due
    <3> HIDE DEF q
    <3> QED
      BY <1>4, <2>1, <3>1, <3>2 DEF Silently
  <2> QED
    BY <2>1, <2>5, <2>6 DEF Moves
<1> QED
  BY <1>3, <1>5, <1>6
-----------------------------------------------------------------------------
(* Every step keeps the invariant.                                         *)

LEMMA MoveTypes ==
  ASSUME IInv, NEW r \in Requests, NEW p, Moves(r, p)
  PROVE  /\ requests \in [Requests -> Request]
         /\ requests' \in [Requests -> Request]
         /\ requests'[r] = p /\ \A s \in Requests : s # r => requests'[s] = requests[s]
         /\ log' \in Seq(LogRow) /\ requests[r].voice = NoVoice
<1>1. requests \in [Requests -> Request] /\ p \in Request /\ log \in Seq(LogRow)
  BY DEF IInv, TypeOK, Moves, Follows, Sound
<1>2. requests' = [requests EXCEPT ![r] = p]
  BY DEF Moves, Becomes
<1>3. log' \in Seq(LogRow)
  <2>1. CASE Silently(requests[r], p)
    BY <1>1, <2>1 DEF Silently
  <2>2. CASE Recording(r, requests[r], p)
    BY <1>1, <2>2, AppendProperties DEF Recording
  <2> QED
    BY <2>1, <2>2 DEF Moves
<1>4. requests[r].voice = NoVoice
  BY SoundNow DEF Moves, Follows, Sound, VoiceInv
<1> QED
  BY <1>1, <1>2, <1>3, <1>4

LEMMA MoveKeepsRequests ==
  ASSUME IInv, NEW r \in Requests, NEW p, Moves(r, p)
  PROVE  (TypeOK /\ RequestsInv)'
<1>1. TypeOK'
  BY MoveTypes DEF TypeOK
<1>2. RequestsInv'
  <2>1. LoopInv(p) /\ VoiceInv(p) /\ FreshInv(p)
    BY DEF Moves, Follows, Sound
  <2>2. \A s \in Requests : LoopInv(requests'[s]) /\ VoiceInv(requests'[s]) /\ FreshInv(requests'[s])
    <3> TAKE s \in Requests
    <3>1. LoopInv(requests[s]) /\ VoiceInv(requests[s]) /\ FreshInv(requests[s])
      BY DEF IInv, RequestsInv
    <3>2. requests'[s] = p \/ requests'[s] = requests[s]
      BY MoveTypes
    <3> QED
      BY <2>1, <3>1, <3>2, Zenon
  <2> QED
    BY <2>2 DEF RequestsInv, LoopInv, VoiceInv, FreshInv, Dispatching, Made, Called, Paired
<1> QED
  BY <1>1, <1>2

LEMMA MoveKeepsLog ==
  ASSUME IInv, NEW r \in Requests, NEW p, Moves(r, p)
  PROVE  LogInv'
<1> SUFFICES ASSUME NEW s \in Requests
             PROVE  Due(requests'[s]) = Cardinality(Rows(s)')
  BY DEF LogInv, Due, Pending, Unlogged
<1> DEFINE q == requests[r]
           n == Len(log)
<1>1. Due(requests[s]) = Cardinality(Rows(s)) /\ Due(q) = Cardinality(Rows(r))
  BY DEF IInv, LogInv
<1>2. /\ IsFiniteSet(Rows(s)) /\ Cardinality(Rows(s)) \in Nat
      /\ IsFiniteSet(Rows(r)) /\ Cardinality(Rows(r)) \in Nat
  BY RowsFinite DEF IInv
<1>4. requests'[r] = p /\ (s # r => requests'[s] = requests[s])
  BY MoveTypes
<1>5. CASE Silently(q, p)
  <2>1. Rows(s)' = Rows(s)
    BY <1>5 DEF Rows, Silently
  <2>2. Due(p) = Due(q)
    BY <1>5 DEF Silently
  <2>3. CASE s # r
    BY <1>1, <1>4, <2>1, <2>3
  <2>4. CASE s = r
    <3> HIDE DEF q
    <3>1. Due(p) = Cardinality(Rows(r))
      BY <1>1, <2>2
    <3> QED
      BY <1>4, <2>1, <2>4, <3>1
  <2> QED
    BY <2>3, <2>4
<1>6. CASE Recording(r, q, p)
  <2>1. PICK row \in LogRow :
          /\ row.request = r /\ log' = Append(log, row)
          /\ Due(p) = Due(q) + 1
    BY <1>6 DEF Recording
  <2>2. /\ n \in Nat /\ Len(log') = n + 1
        /\ \A i \in 1..n : log'[i] = log[i]
        /\ log'[n + 1] = row
    <3>1. log \in Seq(LogRow)
      BY DEF IInv, TypeOK
    <3> QED
      BY <2>1, <3>1, AppendProperties, LenProperties
  <2>3. \A i : i \in 1..(n + 1) <=> i \in 1..n \/ i = n + 1
    BY <2>2
  <2>4. n + 1 \notin 1..n
    BY <2>2
  <2> HIDE DEF n, q
  <2>5. CASE s # r
    <3>1. Rows(s)' = Rows(s)
      BY <2>1, <2>2, <2>3, <2>5 DEF Rows, n
    <3> QED
      BY <1>1, <1>4, <2>5, <3>1
  <2>6. CASE s = r
    <3>1. Rows(r)' = Rows(r) \cup {n + 1} /\ n + 1 \notin Rows(r)
      BY <2>1, <2>2, <2>3, <2>4 DEF Rows, n
    <3>2. Cardinality(Rows(r)') = Cardinality(Rows(r)) + 1
      BY <1>2, <3>1, FS_AddElement
    <3>3. Due(p) = Cardinality(Rows(r)) + 1
      BY <1>1, <2>1
    <3> QED
      BY <1>4, <2>6, <3>2, <3>3
  <2> QED
    BY <2>5, <2>6
<1> QED
  BY <1>5, <1>6 DEF Moves

LEMMA MoveKeepsSpeech ==
  ASSUME IInv, NEW r \in Requests, NEW p, Moves(r, p)
  PROVE  SpeechInv'
<1> DEFINE q == requests[r]
           n == Len(log)
<1>1. /\ requests'[r] = p /\ \A s \in Requests : s # r => requests'[s] = requests[s]
      /\ q.voice = NoVoice /\ log \in Seq(LogRow) /\ n \in Nat
  <2>1. log \in Seq(LogRow)
    BY DEF IInv, TypeOK
  <2> QED
    BY <2>1, MoveTypes
<1>2. IsFiniteSet(Speaking')
  <2>1. IsFiniteSet(Speaking \cup {r})
    BY FS_AddElement DEF IInv, SpeechInv
  <2>2. Speaking' \subseteq Speaking \cup {r}
    BY <1>1 DEF Speaking
  <2> QED
    BY <2>1, <2>2, FS_Subset
<1>3. \A i \in 1..n : /\ log[i] \in LogRow
                      /\ Synthesis(log[i]) => requests'[log[i].request].voice = log[i].task
  <2> TAKE i \in 1..n
  <2>1. log[i] \in LogRow /\ log[i].request \in Requests
    <3>1. log[i] \in LogRow
      BY <1>1
    <3> QED
      BY <3>1 DEF LogRow
  <2>2. Synthesis(log[i]) =>
          requests[log[i].request].voice = log[i].task /\ log[i].task # NoVoice
    BY DEF IInv, SpeechInv, Synthesis, NoVoice, TTS_TASK, GEMINI_TTS_TASK
  <2>3. Synthesis(log[i]) => log[i].request # r
    BY <1>1, <2>2
  <2> QED
    BY <1>1, <2>1, <2>2, <2>3
<1>4. \A i \in 1..Len(log') :
        Synthesis(log'[i]) => requests'[log'[i].request].voice = log'[i].task
  <2>1. CASE Silently(q, p)
    BY <1>3, <2>1 DEF Silently
  <2>2. CASE Recording(r, q, p)
    <3>1. PICK row \in LogRow :
            /\ row.request = r /\ log' = Append(log, row)
            /\ Synthesis(row) => p.voice = row.task
      BY <2>2 DEF Recording
    <3>2. /\ Len(log') = n + 1
          /\ \A i \in 1..n : log'[i] = log[i]
          /\ log'[n + 1] = row
      BY <1>1, <3>1, AppendProperties, LenProperties
    <3>3. \A i \in 1..(n + 1) : i \in 1..n \/ i = n + 1
      BY <1>1
    <3> HIDE DEF n
    <3> QED
      BY <1>1, <1>3, <3>1, <3>2, <3>3
  <2> QED
    BY <2>1, <2>2 DEF Moves
<1>5. \A s \in Requests :
        requests[s].voice # NoVoice => requests'[s] = requests[s]
  BY <1>1
<1>6. \A s \in Requests : requests[s].inUse # NoVoice =>
        \E t \in Requests : requests[t].voice = requests[s].inUse /\ requests[t].inUse = NoVoice
  BY DEF IInv, SpeechInv
<1>7. \A s \in Requests : requests'[s].inUse # NoVoice =>
        \E t \in Requests : requests'[t].voice = requests'[s].inUse /\ requests'[t].inUse = NoVoice
  <2> SUFFICES ASSUME NEW s \in Requests, requests'[s].inUse # NoVoice
               PROVE  \E t \in Requests : /\ requests[t].voice = requests'[s].inUse
                                          /\ requests[t].inUse = NoVoice
    BY <1>5
  <2>1. CASE s # r
    BY <1>1, <1>6, <2>1
  <2>2. CASE s = r /\ p.inUse = q.inUse
    BY <1>1, <1>6, <2>2
  <2>3. CASE s = r /\ p.inUse = VoiceTaskInUse
    <3>1. PICK i \in 1..n : Synthesis(log[i]) /\ log[i].task = VoiceTaskInUse
      BY <1>1, <2>3, VoiceFound DEF IInv
    <3> DEFINE t == log[i].request
    <3>2. t \in Requests /\ requests[t].voice = VoiceTaskInUse
      <4>1. log[i] \in LogRow
        BY <1>3
      <4>2. t \in Requests
        BY <4>1 DEF LogRow
      <4> QED
        BY <3>1, <4>2 DEF IInv, SpeechInv
    <3>3. requests[t].inUse \in {NoVoice, VoiceTaskInUse}
      BY <1>1, <2>3, <3>2 DEF IInv, RequestsInv, VoiceInv
    <3> HIDE DEF t
    <3> QED
      BY <1>1, <1>6, <2>3, <3>2, <3>3
  <2> QED
    BY <1>1, <2>1, <2>2, <2>3 DEF Moves, Follows
<1> QED
  BY <1>2, <1>4, <1>7 DEF SpeechInv, Synthesis

LEMMA InitInv == Init => IInv
<1> SUFFICES ASSUME Init PROVE IInv
  OBVIOUS
<1>1. Sound(Idle) /\ Idle \in Request
  BY IdleSound DEF Sound
<1>2. \A r \in Requests : requests[r] = Idle
  BY DEF Init
<1>3. TypeOK
  BY <1>1 DEF Init, TypeOK
<1>4. FreshInv(Idle)
  BY DEF FreshInv, Idle
<1>5. RequestsInv
  BY <1>1, <1>2, <1>4 DEF RequestsInv, Sound
<1>6. Len(log) = 0
  BY DEF Init
<1>7. LogInv
  <2> SUFFICES ASSUME NEW r \in Requests
               PROVE  Due(requests[r]) = Cardinality(Rows(r))
    BY DEF LogInv
  <2>1. Rows(r) = {}
    BY <1>6 DEF Rows
  <2>2. Cardinality(Rows(r)) = 0
    BY <2>1, FS_EmptySet
  <2> QED
    BY <1>2, <2>2 DEF Idle, Due, Pending, Unlogged
<1>8. SpeechInv
  <2>1. Speaking = {}
    BY <1>2 DEF Speaking, Idle, NoVoice
  <2>2. IsFiniteSet(Speaking)
    BY <2>1, FS_EmptySet
  <2> QED
    BY <1>2, <1>6, <2>2 DEF SpeechInv, Idle
<1> QED
  BY <1>3, <1>5, <1>7, <1>8 DEF IInv

LEMMA StepInv == IInv /\ [Next]_vars => IInv'
<1> SUFFICES ASSUME IInv, [Next]_vars PROVE IInv'
  OBVIOUS
<1>1. CASE UNCHANGED vars
  <2>1. requests' = requests /\ log' = log
    BY <1>1 DEF vars
  <2>2. TypeOK'
    BY <2>1 DEF IInv, TypeOK
  <2>3. RequestsInv'
    <3>1. \A s \in Requests :
            LoopInv(requests'[s]) /\ VoiceInv(requests'[s]) /\ FreshInv(requests'[s])
      BY <2>1 DEF IInv, RequestsInv
    <3> QED
      BY <3>1 DEF RequestsInv, LoopInv, VoiceInv, FreshInv, Dispatching, Made, Called, Paired
  <2>4. LogInv'
    BY <2>1 DEF IInv, LogInv, Due, Pending, Unlogged, Rows
  <2>5. SpeechInv'
    BY <2>1 DEF IInv, SpeechInv, Speaking, Synthesis
  <2> QED
    BY <2>2, <2>3, <2>4, <2>5 DEF IInv
<1>2. ASSUME NEW r \in Requests, Arrive(r) \/ Step(r)
      PROVE  IInv'
  <2>1. PICK p : Moves(r, p)
    BY <1>2, ArriveMoves, ConnectMoves, PrepareMoves, ModelMoves, LoopMoves, LogMoves DEF Step
  <2> QED
    BY <2>1, MoveKeepsRequests, MoveKeepsLog, MoveKeepsSpeech DEF IInv
<1> QED
  BY <1>1, <1>2 DEF Next

\* What every request holds, the log and what was spoken agree in every state: a request
\* keeps to the rounds and calls its handler allows (run_tool_loop), and every synthesis
\* logged was answered (synthesize_speech_with_fallback).
THEOREM Invariance == Spec => []IInv
BY InitInv, StepInv, PTL DEF Spec
-----------------------------------------------------------------------------
(* What the gateway promises.                                              *)

\* Every call a request set out on has one row in llm_calls or a write that failed, but for
\* one still pending, an upload's extraction, and a round of the tool loop that raised
\* (_log_call, run_tool_loop, parse_and_persist_resume).
THEOREM CallsLogged == Spec => []CallsAreLogged
<1>1. IInv => CallsAreLogged
  <2> SUFFICES ASSUME IInv, NEW r \in Requests
               PROVE  requests[r].made = Cardinality(Rows(r)) + requests[r].lost +
                        (IF Pending(requests[r]) \/ Unlogged(requests[r]) THEN 1 ELSE 0)
    BY DEF CallsAreLogged
  <2>1. Cardinality(Rows(r)) \in Nat
    BY RowsFinite DEF IInv
  <2>2. requests[r].made \in Nat /\ requests[r].lost \in Nat
    BY SoundNow
  <2>3. Due(requests[r]) = Cardinality(Rows(r))
    BY DEF IInv, LogInv
  <2> QED
    BY <2>1, <2>2, <2>3 DEF Due
<1> QED
  BY <1>1, Invariance, PTL

\* The final call of a turn is handed, for each answer of the model with calls, the
\* responses to them in their order, and the interview is charged with the calls of tools
\* that exist (run_tool_loop, _counting_dispatch).
THEOREM HistoriesPaired == Spec => []HistoryPaired
<1>1. IInv => HistoryPaired
  <2> SUFFICES ASSUME IInv, NEW r \in Requests,
                      requests[r].pc = "calling", requests[r].task = "final"
               PROVE  LET q == requests[r]
                      IN /\ Len(q.history) % 2 = 0 /\ Len(q.history) <= 2 * MaxRounds
                         /\ \A i \in 1..Len(q.history) :
                              /\ q.history[i].role = IF i % 2 = 1 THEN "model" ELSE "user"
                              /\ i % 2 = 1 => q.history[i + 1].names = q.history[i].names
                         /\ q.counted = Cardinality(
                              {c \in Called(q) : q.history[c[1]].names[c[2]] \in Tools})
    BY DEF HistoryPaired
  <2> DEFINE q == requests[r]
             h == q.history
  <2>1. LoopInv(q) /\ q.round \in Nat /\ MaxRounds \in Nat
    BY RoundsAssumption DEF IInv, TypeOK, RequestsInv, Request
  <2>2. q.pc = "calling"
    OBVIOUS
  <2> HIDE DEF q
  <2>3. Len(h) = 2 * q.round /\ q.round <= MaxRounds /\ Paired(h, q.round)
    BY <2>1, <2>2 DEF LoopInv
  <2>4. q.counted = Cardinality({c \in Called(q) : q.history[c[1]].names[c[2]] \in Tools})
    <3>1. Made(q) = {c \in Called(q) : q.history[c[1]].names[c[2]] \in Tools}
      BY <2>2 DEF Made
    <3>2. q.counted = Cardinality(Made(q))
      BY <2>1 DEF LoopInv
    <3> QED
      BY <3>1, <3>2, Zenon
  <2> HIDE DEF h
  <2>5. Len(h) % 2 = 0 /\ Len(h) <= 2 * MaxRounds
    BY <2>1, <2>3
  <2>6. \A i \in 1..Len(h) : /\ h[i].role = IF i % 2 = 1 THEN "model" ELSE "user"
                             /\ i % 2 = 1 => h[i + 1].names = h[i].names
    <3> TAKE i \in 1..Len(h)
    <3>1. CASE i % 2 = 1
      <4>1. \E k \in 1..q.round : i = 2 * k - 1
        <5> DEFINE half == (i + 1) \div 2
                   m == q.round
        <5>1. i \in Nat /\ i >= 1 /\ i <= 2 * m /\ m \in Nat
          BY <2>1, <2>3
        <5> HIDE DEF m
        <5>2. half \in 1..m /\ i = 2 * half - 1
          BY <3>1, <5>1
        <5> QED
          BY <5>2 DEF m
      <4>2. PICK k \in 1..q.round : i = 2 * k - 1
        BY <4>1
      <4>3. i + 1 = 2 * k
        BY <4>2
      <4> QED
        BY <2>3, <3>1, <4>2, <4>3 DEF Paired
    <3>2. CASE i % 2 # 1
      <4>1. \E k \in 1..q.round : i = 2 * k
        BY <2>1, <2>3, <3>2
      <4> QED
        BY <2>3, <3>2, <4>1 DEF Paired
    <3> QED
      BY <3>1, <3>2
  <2> QED
    BY <2>4, <2>5, <2>6 DEF q, h
<1> QED
  BY <1>1, Invariance, PTL

\* The interviewer has one voice, unless two syntheses that found none in the log were
\* both answered (synthesize_speech_with_fallback, _voice_task_in_use).
THEOREM OneVoiceKept == Spec => []OneVoice
<1>1. IInv => OneVoice
  <2> DEFINE First == {r \in Speaking : requests[r].inUse = NoVoice}
  <2> SUFFICES ASSUME IInv, Cardinality(First) <= 1, NEW a \in Speaking, NEW b \in Speaking
               PROVE  requests[a].voice = requests[b].voice
    BY DEF OneVoice
  <2>1. \A c \in Speaking : \E s \in First : requests[s].voice = requests[c].voice
    <3> TAKE c \in Speaking
    <3>1. c \in Requests /\ requests[c].voice # NoVoice
      BY DEF Speaking
    <3>2. requests[c].inUse \in {NoVoice, requests[c].voice}
      BY <3>1 DEF IInv, RequestsInv, VoiceInv
    <3>3. CASE requests[c].inUse = NoVoice
      BY <3>3
    <3>4. CASE requests[c].inUse = requests[c].voice
      <4>1. \E s \in Requests : /\ requests[s].voice = requests[c].voice
                                /\ requests[s].inUse = NoVoice
        BY <3>1, <3>4 DEF IInv, SpeechInv
      <4> QED
        BY <3>1, <4>1 DEF Speaking
    <3> QED
      BY <3>2, <3>3, <3>4
  <2>2. \A s, t \in First : s = t
    <3> SUFFICES ASSUME NEW s \in First, NEW t \in First, s # t
                 PROVE  FALSE
      OBVIOUS
    <3>1. IsFiniteSet(First)
      <4>1. First \subseteq Speaking /\ IsFiniteSet(Speaking)
        BY DEF IInv, SpeechInv
      <4> QED
        BY <4>1, FS_Subset
    <3> HIDE DEF First
    <3>2. IsFiniteSet({t}) /\ Cardinality({t}) = 1
      BY FS_Singleton
    <3>3. Cardinality({t} \cup {s}) = 2
      BY <3>2, FS_AddElement
    <3>4. {t} \cup {s} \subseteq First
      OBVIOUS
    <3>5. Cardinality({t} \cup {s}) <= Cardinality(First) /\ Cardinality(First) \in Nat
      BY <3>1, <3>4, FS_Subset, FS_CardinalityType
    <3> QED
      BY <3>3, <3>5
  <2> HIDE DEF First
  <2>3. PICK s \in First : requests[s].voice = requests[a].voice
    BY <2>1
  <2>4. PICK t \in First : requests[t].voice = requests[b].voice
    BY <2>1
  <2> QED
    BY <2>2, <2>3, <2>4
<1> QED
  BY <1>1, Invariance, PTL
=============================================================================
