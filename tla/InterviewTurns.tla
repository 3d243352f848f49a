--------------------------- MODULE InterviewTurns ---------------------------
(***************************************************************************)
(* One interview session and everything that writes it: the request that   *)
(* starts the interview, the requests that submit the candidate's turns,   *)
(* the cascade that deletes the session, and crashes of the server.        *)
(* (backend/app/services/interview_service.py, core/session_lookup.py)     *)
(*                                                                         *)
(* A request handler is a process with a program counter.  It loads the    *)
(* session row into memory, awaits the language model for seconds with     *)
(* nothing but a row lock between it and the other requests, and writes    *)
(* back what it computed from its in-memory copy.  Sessions share no       *)
(* state, so one row is enough.  What the model says is a nondeterministic *)
(* verdict: its text is abstracted away, its judgment flags are not.       *)
(*                                                                         *)
(* A definition marked "Mutant" is a plausible bug in the one after it: no *)
(* action uses it, and a property is shown to notice it.                   *)
(***************************************************************************)
EXTENDS Integers, Sequences, FiniteSets

CONSTANTS
  Handlers,           \* requests POST /interview/{id}/turn that may be in flight at once
  NoOne,              \* the row is not locked
  Phase,              \* the names in INTERVIEW_PHASES
  Plans,              \* the phase sequences a session may be started with
  BankPhases,         \* QUESTION_BANK_PHASES
  GithubPhases,       \* the phase with GitHub tools; empty if the profile has no GitHub URL
  Threshold,          \* DEFAULT_RED_FLAG_THRESHOLD
  QuestionsPerPhase,  \* QUESTIONS_PER_PHASE
  PoolSize,           \* QUESTION_POOL_TOP_K: the prefetched pool has at most this many
  GithubBudget,       \* GITHUB_CALL_BUDGET_PER_SESSION
  CallsPerTurn,       \* the most GitHub calls the model asks for in one tool loop
  Verdicts,           \* the interviewer outputs explored
  EarlyTurns,         \* may a turn be posted before the start request has answered?
  Crashes,            \* may the server process die?
  MaxTurns            \* bound: number of turn requests in a behaviour

Flags == {"none", "red", "severe"}
Verdict == [flag : Flags, hint : BOOLEAN, complete : BOOLEAN]

ASSUME ActorsAssumption == NoOne \notin Handlers
ASSUME PlansAssumption ==
  \A plan \in Plans :
    /\ plan \in Seq(Phase)
    /\ Len(plan) > 0
    /\ \A i, j \in 1..Len(plan) : plan[i] = plan[j] => i = j
ASSUME LimitsAssumption ==
  /\ Threshold \in Nat \ {0}
  /\ QuestionsPerPhase \in Nat
  /\ PoolSize \in Nat
  /\ GithubBudget \in Nat
  /\ CallsPerTurn \in Nat
  /\ MaxTurns \in Nat
ASSUME EnvironmentAssumption ==
  /\ Verdicts \subseteq Verdict
  /\ EarlyTurns \in BOOLEAN
  /\ Crashes \in BOOLEAN

VARIABLES
  row,          \* the committed interview_sessions row
  lock,         \* the handler whose transaction holds the row lock, or NoOne
  overrun,      \* has the current phase used 1.5 times its budget?
  startPc,      \* where POST /interview/start stands
  openingPool,  \* the start request's in-memory question_pool
  pc,           \* where each turn request stands
  work,         \* each turn request's in-memory state
  turns,        \* number of turn requests received so far
  answered,     \* history: the turns acknowledged to the client
  overwritten,  \* history: those the start request's opening was stored over
  githubSpent   \* history: GitHub calls made for this session, in all

vars == <<row, lock, overrun, startPc, openingPool, overwritten, pc, work, turns,
          answered, githubSpent>>

-----------------------------------------------------------------------------
(* The session row.                                                        *)

Status == {"absent", "in_progress", "completed", "ended_early"}
Finished == {"completed", "ended_early"}
EndReason == {"none", "abusive_language", "red_flag_threshold"}
Notice == {"none", "warning", "ended", "abusive"}
Question == Nat \ {0}

\* One candidate message with the interviewer's reply to it; the opening, which
\* answers no candidate message, is turn 0.
Exchange == [turn : Nat, phase : Phase, flag : Flags, hint : BOOLEAN,
             notice : Notice, late : BOOLEAN]

Row == [status : Status, plan : Seq(Phase), pos : Nat, timed : BOOLEAN,
        transcript : Seq(Exchange), redFlags : Nat, warned : BOOLEAN,
        endReason : EndReason, hints : [Phase -> Nat], github : Nat,
        pool : Nat, asked : [Phase -> SUBSET Question]]

NewRow(plan, timed) ==
  [status |-> "in_progress", plan |-> plan, pos |-> 1, timed |-> timed,
   transcript |-> <<>>, redFlags |-> 0, warned |-> FALSE, endReason |-> "none",
   hints |-> [p \in Phase |-> 0], github |-> 0, pool |-> 0,
   asked |-> [p \in Phase |-> {}]]

NoRow == [NewRow(<<>>, FALSE) EXCEPT !.status = "absent"]

CurrentPhase(r) == r.plan[r.pos]

\* Mutant: a turn only checks that the session exists.
ActiveIfPresent(r) == r.status # "absent"

\* submit_turn serves only sessions with status in_progress.
Active(r) == r.status = "in_progress"

Opening(plan) == [turn |-> 0, phase |-> plan[1], flag |-> "none", hint |-> FALSE,
                  notice |-> "none", late |-> FALSE]

-----------------------------------------------------------------------------
(* What a turn reads before it calls the model.                            *)

UsedElsewhere(r) == UNION {r.asked[p] : p \in Phase}

\* The first QuestionsPerPhase of the pool's questions that no phase holds yet.
FreshBatch(r) ==
  LET unused == (1..r.pool) \ UsedElsewhere(r)
  IN  {q \in unused : Cardinality({u \in unused : u < q}) < QuestionsPerPhase}

\* Mutant: the phase draws a new batch at every turn.
WithNewBatch(r) ==
  IF CurrentPhase(r) \in BankPhases
  THEN [r EXCEPT !.asked[CurrentPhase(r)] = FreshBatch(r)]
  ELSE r

\* A bank phase takes a batch at its first turn and keeps it; an empty selection
\* is not stored, so {} stands for "no batch yet".
WithBatch(r) ==
  IF CurrentPhase(r) \in BankPhases /\ r.asked[CurrentPhase(r)] = {}
  THEN [r EXCEPT !.asked[CurrentPhase(r)] = FreshBatch(r)]
  ELSE r

\* Mutant: the budget is not looked at.
GithubToolsAlways(r) == CurrentPhase(r) \in GithubPhases

GithubToolsAvailable(r) ==
  CurrentPhase(r) \in GithubPhases /\ r.github < GithubBudget

\* session_phase_time_status: without a time budget nothing is ever forced.
ForceComplete(r) == r.timed /\ overrun

-----------------------------------------------------------------------------
(* What a turn makes of the model's verdict.                               *)

Severe(v) == v.flag = "severe"
\* Mutant: the warning comes one flag late.
WarnsLate(r, v) == v.flag = "red" /\ r.redFlags + 1 > Threshold /\ ~r.warned

Warns(r, v) == v.flag = "red" /\ r.redFlags + 1 >= Threshold /\ ~r.warned

EndsEarly(r, v) == v.flag = "red" /\ r.redFlags + 1 > Threshold /\ r.warned

NoticeFor(r, v) ==
  IF Severe(v) THEN "abusive"
  ELSE IF Warns(r, v) THEN "warning"
  ELSE IF EndsEarly(r, v) THEN "ended"
  ELSE "none"

\* Mutant: a status that is none of SESSION_STATUSES.
FlaggedWithTypo(r, v) ==
  [r EXCEPT !.redFlags = IF v.flag = "none" THEN @ ELSE @ + 1,
            !.warned = @ \/ Severe(v) \/ Warns(r, v),
            !.status = IF Severe(v) \/ EndsEarly(r, v) THEN "ended" ELSE @]

Flagged(r, v) ==
  [r EXCEPT
     !.redFlags = IF v.flag = "none" THEN @ ELSE @ + 1,
     !.warned = @ \/ Severe(v) \/ Warns(r, v),
     !.status = IF Severe(v) \/ EndsEarly(r, v) THEN "ended_early" ELSE @,
     !.endReason = IF Severe(v) THEN "abusive_language"
                   ELSE IF EndsEarly(r, v) THEN "red_flag_threshold"
                   ELSE @]

Hinted(r, v) ==
  IF v.hint THEN [r EXCEPT !.hints[CurrentPhase(r)] = @ + 1] ELSE r

Recorded(r, exchange) == [r EXCEPT !.transcript = Append(@, exchange)]

\* Mutant: a phase out of time goes on until the model completes it.
EndsWhenTold(r, v, force) == r.status = "in_progress" /\ v.complete

\* The phase ends when the model says so or its time has run out.
Ends(r, v, force) == r.status = "in_progress" /\ (v.complete \/ force)

Advanced(r, v, force) ==
  IF ~Ends(r, v, force) THEN r
  ELSE IF r.pos < Len(r.plan) THEN [r EXCEPT !.pos = @ + 1]
  ELSE [r EXCEPT !.status = "completed"]

\* Mutant: the reply and its hint are booked on the phase the turn moves to.
AfterTurnMovedFirst(r, turn, v, calls, force) ==
  LET moved == Advanced(Flagged([r EXCEPT !.github = @ + calls], v), v, force)
      exchange == [turn |-> turn, phase |-> CurrentPhase(moved), flag |-> v.flag,
                   hint |-> v.hint, notice |-> NoticeFor(r, v), late |-> force]
  IN  Recorded(Hinted(moved, v), exchange)

\* Mutant: the hint is counted after the phase has moved on.
AfterTurnHintedLast(r, turn, v, calls, force) ==
  LET exchange == [turn |-> turn, phase |-> CurrentPhase(r), flag |-> v.flag,
                   hint |-> v.hint, notice |-> NoticeFor(r, v), late |-> force]
      charged == [r EXCEPT !.github = @ + calls]
  IN  Hinted(Advanced(Recorded(Flagged(charged, v), exchange), v, force), v)

\* The row a turn commits: r is its in-memory row, loaded under the lock.
AfterTurn(r, turn, v, calls, force) ==
  LET exchange == [turn |-> turn, phase |-> CurrentPhase(r), flag |-> v.flag,
                   hint |-> v.hint, notice |-> NoticeFor(r, v), late |-> force]
      charged == [r EXCEPT !.github = @ + calls]
  IN  Advanced(Recorded(Hinted(Flagged(charged, v), v), exchange), v, force)

-----------------------------------------------------------------------------
(* Request states.                                                         *)

\* "opening": the row is committed, the opening is being generated;
\* "storing" / "discarding": it succeeded / failed and the row is to be written;
\* "failed": the opening failed; "unstored": it succeeded, its commit did not.
StartStates == {"idle", "opening", "storing", "discarding",
                "answered", "failed", "unstored", "crashed"}
StartInFlight == {"opening", "storing", "discarding"}

\* "waiting": for the row lock; "model": the model is being called; "logging":
\* the gateway is logging the call; "deciding": the verdict is to be applied.
TurnStates == {"idle", "waiting", "model", "logging", "deciding"}
LockedStates == {"model", "logging", "deciding"}

NoVerdict == [flag |-> "none", hint |-> FALSE, complete |-> FALSE]

Work == [turn : Nat, row : Row, force : BOOLEAN, tools : BOOLEAN,
         verdict : Verdict, calls : Nat, failed : BOOLEAN]

NoWork == [turn |-> 0, row |-> NoRow, force |-> FALSE, tools |-> FALSE,
           verdict |-> NoVerdict, calls |-> 0, failed |-> FALSE]

\* Mutant: the session is loaded without the row lock.
RowAlwaysFree == TRUE

\* SELECT ... FOR NO KEY UPDATE, UPDATE and DELETE wait for the holder's
\* transaction to end.
RowFree == lock = NoOne

\* Mutant: a plain SELECT ... FOR UPDATE.
TurnLockForUpdate == "update"

\* The lock a turn takes, and whether an INSERT into llm_calls, whose foreign key
\* check takes the session row FOR KEY SHARE on another connection, may pass it.
TurnLockMode == "no_key_update"
LogMayProceed == lock = NoOne \/ TurnLockMode # "update"

Idle(h) ==
  /\ pc' = [pc EXCEPT ![h] = "idle"]
  /\ work' = [work EXCEPT ![h] = NoWork]

-----------------------------------------------------------------------------
Init ==
  /\ row = NoRow
  /\ lock = NoOne
  /\ overrun = FALSE
  /\ startPc = "idle"
  /\ openingPool = 0
  /\ overwritten = {}
  /\ pc = [h \in Handlers |-> "idle"]
  /\ work = [h \in Handlers |-> NoWork]
  /\ turns = 0
  /\ answered = {}
  /\ githubSpent = 0

turnVars == <<pc, work, turns, answered, githubSpent>>

(* POST /interview/start *)

\* The row is committed before any model call, so that the gateway's log rows can
\* reference it.
StartCreates ==
  /\ startPc = "idle"
  /\ \E plan \in Plans, timed \in BOOLEAN : row' = NewRow(plan, timed)
  /\ overrun' = FALSE
  /\ startPc' = "opening"
  /\ UNCHANGED <<lock, openingPool, overwritten, turnVars>>

OpeningSucceeds ==
  /\ startPc = "opening"
  /\ openingPool' \in 0..PoolSize
  /\ startPc' = "storing"
  /\ UNCHANGED <<row, lock, overrun, overwritten, turnVars>>

\* The company research, the pool's prefetch or the interviewer's model failed.
OpeningFails ==
  /\ startPc = "opening"
  /\ startPc' = "discarding"
  /\ UNCHANGED <<row, lock, overrun, openingPool, overwritten, turnVars>>

\* The commit writes the columns the start request assigned, whatever another
\* request wrote in the meantime; if the row is gone it fails.
StartStores ==
  /\ startPc = "storing"
  /\ RowFree
  /\ IF row.status = "absent"
     THEN /\ startPc' = "unstored"
          /\ UNCHANGED <<row, overrun, overwritten>>
     ELSE /\ row' = [row EXCEPT !.transcript = <<Opening(row.plan)>>,
                                !.pool = openingPool]
          /\ overrun' = FALSE
          /\ overwritten' = answered
          /\ startPc' = "answered"
  /\ openingPool' = 0
  /\ UNCHANGED <<lock, turnVars>>

\* The second commit raises: the session stays as the first one left it.
StartStoreFails ==
  /\ startPc = "storing"
  /\ startPc' = "unstored"
  /\ openingPool' = 0
  /\ UNCHANGED <<row, lock, overrun, overwritten, turnVars>>

StartDiscards ==
  /\ startPc = "discarding"
  /\ RowFree
  /\ row' = NoRow
  /\ startPc' = "failed"
  /\ overrun' = FALSE
  /\ UNCHANGED <<lock, openingPool, overwritten, turnVars>>

\* The DELETE or its commit raises: it is sent in the transaction that the prefetch's
\* failed query has aborted, or while that query is still running on the same database
\* session, or on a connection that is lost.
StartDiscardFails ==
  /\ startPc = "discarding"
  /\ startPc' = "failed"
  /\ UNCHANGED <<row, lock, overrun, openingPool, overwritten, turnVars>>

(* POST /interview/{id}/turn *)

startVars == <<startPc, openingPool, overwritten>>

TurnArrives(h) ==
  /\ pc[h] = "idle"
  /\ turns < MaxTurns
  /\ startPc = "answered" \/ (EarlyTurns /\ startPc # "idle")
  /\ pc' = [pc EXCEPT ![h] = "waiting"]
  /\ turns' = turns + 1
  /\ work' = [work EXCEPT ![h].turn = turns + 1]
  /\ UNCHANGED <<row, lock, overrun, startVars, answered, githubSpent>>

\* 404 if the row is gone, 409 if the interview is over.
TurnRejected(h) ==
  /\ pc[h] = "waiting"
  /\ RowFree
  /\ ~Active(row)
  /\ Idle(h)
  /\ UNCHANGED <<row, lock, overrun, startVars, turns, answered, githubSpent>>

TurnLocks(h) ==
  /\ pc[h] = "waiting"
  /\ RowFree
  /\ Active(row)
  /\ lock' = h
  /\ pc' = [pc EXCEPT ![h] = "model"]
  /\ work' = [work EXCEPT ![h].row = WithBatch(row),
                          ![h].force = ForceComplete(row),
                          ![h].tools = GithubToolsAvailable(row)]
  /\ UNCHANGED <<row, overrun, startVars, turns, answered, githubSpent>>

CallsMade(h) == 0..(IF work[h].tools THEN CallsPerTurn ELSE 0)

ModelAnswers(h) ==
  /\ pc[h] = "model"
  /\ \E v \in Verdicts, calls \in CallsMade(h) :
       /\ work' = [work EXCEPT ![h].verdict = v, ![h].calls = calls]
       /\ githubSpent' = githubSpent + calls
  /\ pc' = [pc EXCEPT ![h] = "logging"]
  /\ UNCHANGED <<row, lock, overrun, startVars, turns, answered>>

\* Gemini fails after its retries, or blocks the reply, possibly after tool calls.
ModelFails(h) ==
  /\ pc[h] = "model"
  /\ \E calls \in CallsMade(h) : githubSpent' = githubSpent + calls
  /\ work' = [work EXCEPT ![h].failed = TRUE]
  /\ pc' = [pc EXCEPT ![h] = "logging"]
  /\ UNCHANGED <<row, lock, overrun, startVars, turns, answered>>

\* The gateway logs success and failure alike and swallows its own errors.
TurnLogs(h) ==
  /\ pc[h] = "logging"
  /\ LogMayProceed
  /\ pc' = [pc EXCEPT ![h] = "deciding"]
  /\ UNCHANGED <<row, lock, overrun, startVars, work, turns, answered, githubSpent>>

TurnCommits(h) ==
  /\ pc[h] = "deciding"
  /\ ~work[h].failed
  /\ LET w == work[h]
         r == AfterTurn(w.row, w.turn, w.verdict, w.calls, w.force)
     IN  /\ row' = r
         /\ overrun' = (overrun /\ r.pos = w.row.pos)
         /\ answered' = answered \cup {w.turn}
  /\ lock' = NoOne
  /\ Idle(h)
  /\ UNCHANGED <<startVars, turns, githubSpent>>

\* The model's exception, or the commit's, closes the request's database session: the
\* transaction rolls back, and with it the batch and the count of the turn's calls.
TurnRollsBack(h) ==
  /\ pc[h] = "deciding"
  /\ lock' = NoOne
  /\ Idle(h)
  /\ UNCHANGED <<row, overrun, startVars, turns, answered, githubSpent>>

(* The rest of the world *)

\* The user's account is deleted, and the session with it by cascade.
OwnerDeletes ==
  /\ row.status # "absent"
  /\ RowFree
  /\ row' = NoRow
  /\ overrun' = FALSE
  /\ UNCHANGED <<lock, startVars, turnVars>>

\* The clock passes 1.5 times the current phase's budget.
PhaseOverruns ==
  /\ Active(row)
  /\ row.timed
  /\ ~overrun
  /\ overrun' = TRUE
  /\ UNCHANGED <<row, lock, startVars, turnVars>>

\* The process dies: its transactions roll back and its requests are never answered.
Crash ==
  /\ Crashes
  /\ startPc \in StartInFlight \/ \E h \in Handlers : pc[h] # "idle"
  /\ lock' = NoOne
  /\ startPc' = IF startPc \in StartInFlight THEN "crashed" ELSE startPc
  /\ openingPool' = 0
  /\ pc' = [h \in Handlers |-> "idle"]
  /\ work' = [h \in Handlers |-> NoWork]
  /\ UNCHANGED <<row, overrun, overwritten, turns, answered, githubSpent>>

StartNext == StartCreates \/ OpeningSucceeds \/ OpeningFails \/ StartStores
               \/ StartStoreFails \/ StartDiscards \/ StartDiscardFails

TurnNext(h) == TurnArrives(h) \/ TurnRejected(h) \/ TurnLocks(h) \/ ModelAnswers(h)
                 \/ ModelFails(h) \/ TurnLogs(h) \/ TurnCommits(h) \/ TurnRollsBack(h)

Next ==
  \/ StartNext
  \/ \E h \in Handlers : TurnNext(h)
  \/ OwnerDeletes
  \/ PhaseOverruns
  \/ Crash

Spec == Init /\ [][Next]_vars

\* The event loop runs every handler, the model client has a timeout and a bounded
\* number of retries, and Postgres queues the waiters for a row lock, so that none
\* is passed over for ever.  Nobody has to post a turn, delete an account or crash.
Fairness ==
  /\ WF_vars(OpeningSucceeds \/ OpeningFails)
  /\ SF_vars(StartStores \/ StartStoreFails)
  /\ SF_vars(StartDiscards \/ StartDiscardFails)
  /\ \A h \in Handlers :
       /\ SF_vars(TurnRejected(h) \/ TurnLocks(h))
       /\ WF_vars(ModelAnswers(h) \/ ModelFails(h))
       /\ WF_vars(TurnLogs(h))
       /\ WF_vars(TurnCommits(h) \/ TurnRollsBack(h))

FairSpec == Spec /\ Fairness

-----------------------------------------------------------------------------
(* Properties.                                                             *)

TypeOK ==
  /\ row \in Row
  /\ lock \in Handlers \cup {NoOne}
  /\ overrun \in BOOLEAN
  /\ startPc \in StartStates
  /\ openingPool \in Nat
  /\ pc \in [Handlers -> TurnStates]
  /\ work \in [Handlers -> Work]
  /\ turns \in Nat
  /\ answered \subseteq Nat
  /\ overwritten \subseteq Nat
  /\ githubSpent \in Nat

\* The row a turn loaded before it called the model is still the committed row
\* when it applies the verdict, but for the batch the turn itself took: no other
\* request wrote the session while the turn awaited the model.
SnapshotIsCurrent ==
  \A h \in Handlers :
    pc[h] \in LockedStates => lock = h /\ Active(row) /\ work[h].row = WithBatch(row)

\* "The full transcript is stored in the InterviewSession.transcript": as long as
\* the session exists, each turn the client got an answer to is in it, once, and the
\* opening is before them all.
NoAnsweredTurnLost ==
  row.status # "absent" =>
    /\ \A n \in answered :
         \E i \in DOMAIN row.transcript : row.transcript[i].turn = n
    /\ \A i, j \in DOMAIN row.transcript :
         row.transcript[i].turn = row.transcript[j].turn => i = j
    /\ \A i \in DOMAIN row.transcript : row.transcript[i].turn = 0 => i = 1

\* An interview goes on exactly as long as its flags do not exceed the threshold,
\* and the candidate has been warned exactly when the next flag will end it.
WarnedAtThreshold ==
  /\ Active(row) => /\ row.redFlags <= Threshold
                    /\ row.warned <=> row.redFlags = Threshold
  /\ row.endReason = "red_flag_threshold" => row.redFlags = Threshold + 1 /\ row.warned

Occurrences(P(_)) == Cardinality({i \in DOMAIN row.transcript : P(row.transcript[i])})

\* The counters the judges and the limits rely on are those of the transcript: one
\* red flag per flagged reply, one hint per hinting reply in the phase it was given.
CountersMatchTranscript ==
  /\ row.redFlags = Occurrences(LAMBDA e : e.flag # "none")
  /\ \A p \in Phase : row.hints[p] = Occurrences(LAMBDA e : e.hint /\ e.phase = p)

\* The transcript walks the plan: replies are in plan order, none belongs to a phase
\* not yet reached, and no phase is passed over without a turn of its own.
PhasesWalkThePlan ==
  LET Index(e) == CHOOSE k \in DOMAIN row.plan : row.plan[k] = e.phase
      At(i) == Index(row.transcript[i])
      Reached == IF row.status = "completed" THEN row.pos ELSE row.pos - 1
  IN  row.status # "absent" =>
        /\ \A i, j \in DOMAIN row.transcript : i < j => At(i) <= At(j)
        /\ \A i \in DOMAIN row.transcript : At(i) <= row.pos
        /\ \A k \in 1..Reached : \E i \in DOMAIN row.transcript :
             At(i) = k /\ row.transcript[i].turn # 0

\* A phase over 1.5 times its budget takes at most one more turn: the reply to a turn
\* that found the time used up is the last of its phase.
OverrunClosesPhase ==
  \A i, j \in DOMAIN row.transcript :
    i < j /\ row.transcript[i].late => row.transcript[i].phase # row.transcript[j].phase

\* Each phase draws its questions once, and no question of the pool is drawn for two:
\* neither a turn that rolled back, nor an empty pool, nor a later phase changes a batch
\* that was stored.
BatchesSettled ==
  [][\A p, q \in Phase :
       /\ row.asked[p] # {} /\ row'.status # "absent" => row'.asked[p] = row.asked[p]
       /\ p # q => row'.asked[p] \cap row'.asked[q] = {}]_row

\* The budget is looked at once a turn, so the charged calls exceed it by less than
\* what a single turn may make, and no call is charged that was not made.
GithubOvershootBounded ==
  /\ row.github < GithubBudget + CallsPerTurn \/ row.github = 0
  /\ row.github <= githubSpent

\* No turn touches a finished interview, those that queued behind the one that ended it
\* included.  What still may: its deletion, and the second commit of a start request
\* that the turns have overtaken, which replaces the transcript and the pool and leaves
\* the verdict, the counters and the phase as they are.
FinishedIsFinal ==
  [][row.status \in Finished =>
       \/ row'.status = "absent"
       \/ /\ startPc = "storing"
          /\ row' = [row EXCEPT !.transcript = <<Opening(row.plan)>>,
                                !.pool = openingPool]]_row

\* Whoever posts when, and whatever fails: the only answered turns a stored transcript
\* may lack are those the start request stored its opening over; every other is in it,
\* once, and nothing is before the opening.
LaterTurnsKept ==
  row.status # "absent" =>
    /\ \A n \in answered \ overwritten :
         \E i \in DOMAIN row.transcript : row.transcript[i].turn = n
    /\ \A i, j \in DOMAIN row.transcript :
         row.transcript[i].turn = row.transcript[j].turn => i = j
    /\ \A i \in DOMAIN row.transcript : row.transcript[i].turn = 0 => i = 1

\* A session in progress that no start request is working on can be loaded by the
\* interview screen, which reads the last transcript entry.
ResumableOnceStarted ==
  Active(row) /\ startPc \notin StartInFlight => row.transcript # <<>>

\* Every request is answered: no turn waits for its own log entry, or for a lock nobody
\* will release, and a start request succeeds, fails or is cut off by a crash.
EveryRequestEnds ==
  /\ \A h \in Handlers : pc[h] = "waiting" ~> pc[h] = "idle"
  /\ startPc = "opening" ~> startPc \notin StartInFlight

=============================================================================
