-------------------------- MODULE ReportGeneration --------------------------
(***************************************************************************)
(* Evaluation reports of one interview session.  Generating a report is    *)
(* one database transaction around a call to the model for each judge, so  *)
(* it lasts a minute or more, holds no lock on the session it has read,    *)
(* and runs beside the last turns of the interview, other report requests, *)
(* readers of earlier reports and the deletion of the account.             *)
(* (backend/app/services/judge_service.py, routes/interview.py)            *)
(*                                                                         *)
(* What a judge says is left out; what it was shown is kept, as the number *)
(* of turns of the transcript.  Timestamps are the order in which the      *)
(* requests began.                                                         *)
(***************************************************************************)
EXTENDS Integers, Sequences, FiniteSets, SequencesExt

CONSTANTS
  Generators,    \* POST requests for a new report
  Readers,       \* GET requests for the latest report
  JUDGE_NAMES,   \* the judges, in the order they run
  Attitude,      \* the judge that reads the full transcript
  MaxTurns       \* bound: the turns of the interview

ASSUME JudgesAssumption ==
  /\ JUDGE_NAMES \in Seq(ToSet(JUDGE_NAMES))
  /\ IsInjective(JUDGE_NAMES)
  /\ Attitude \in ToSet(JUDGE_NAMES)
ASSUME RequestsAssumption ==
  Generators \cap Readers = {} /\ IsFiniteSet(Generators \cup Readers)
ASSUME MaxTurnsAssumption == MaxTurns \in Nat \ {0}

Judges == ToSet(JUDGE_NAMES)
Requests == Generators \cup Readers

VARIABLES
  session,       \* the committed session row
  evaluations,   \* the committed judge_evaluations
  reports,       \* the committed interview_reports, in the order of their commits
  nextId,        \* the sequence behind judge_evaluations.id, never rolled back
  requests       \* the requests and what each holds in memory

vars == <<session, evaluations, reports, nextId, requests>>

\* turns: the length of the transcript; material: the judges with something to read.
Session ==
  [status : {"in_progress", "finished", "gone"}, turns : 0..MaxTurns,
   material : SUBSET Judges]

\* turns: the length of the transcript the judge has read.
Evaluation == [id : Nat \ {0}, judge : Judges, turns : 1..MaxTurns]

\* created_at is now() of the transaction that inserts the row: the time it began.
Report == [by : Generators, created_at : Nat \ {0}, judge_evaluation_ids : Seq(Nat \ {0})]

NoReport == [created_at |-> 0]

NewSession == [status |-> "in_progress", turns |-> 0, material |-> {Attitude}]

\* began: the start of the request's transaction; after: the requests that had ended
\* by then; seen: the session as loaded; made: the evaluations inserted and not yet
\* committed; next: the next judge; report: the report to answer with; shown: the
\* evaluations in the answer.
Idle ==
  [pc |-> "idle", began |-> 0, after |-> {}, seen |-> NewSession, made |-> <<>>,
   next |-> 1, report |-> NoReport, shown |-> <<>>]

Init ==
  /\ session = NewSession
  /\ evaluations = {}
  /\ reports = <<>>
  /\ nextId = 1
  /\ requests = [r \in Requests |-> Idle]

-----------------------------------------------------------------------------
(* The session.                                                            *)

\* A turn adds to the transcript, may reach the phase of another judge and may end
\* the interview.
Turn ==
  /\ session.status = "in_progress"
  /\ session.turns < MaxTurns
  /\ \E status \in {"in_progress", "finished"}, judge \in Judges :
       session' = [status |-> status, turns |-> session.turns + 1,
                   material |-> session.material \cup {judge}]
  /\ UNCHANGED <<evaluations, reports, nextId, requests>>

\* Mutant: inserted rows do not hold the session they refer to.
NothingHeld == {}

\* The requests whose inserts hold a key share lock on the session row.
Holders == {r \in Generators : requests[r].pc = "judging" /\ requests[r].made # <<>>}

\* The account, or a document of the interview, is deleted; the foreign keys cascade.
DeleteSession ==
  /\ session.status # "gone"
  /\ Holders = {}
  /\ session' = [session EXCEPT !.status = "gone"]
  /\ evaluations' = {}
  /\ reports' = <<>>
  /\ UNCHANGED <<nextId, requests>>

-----------------------------------------------------------------------------
(* Both kinds of requests.                                                 *)

Ended == {r \in Requests : requests[r].pc \in {"answered", "failed"}}
Begun == {r \in Requests : requests[r].pc # "idle"}

\* The first query, for the user of the token, begins the transaction.
Begin(r) ==
  /\ requests[r].pc = "idle"
  /\ requests' = [requests EXCEPT ![r].pc = "begun",
                                  ![r].began = Cardinality(Begun) + 1,
                                  ![r].after = Ended]
  /\ UNCHANGED <<session, evaluations, reports, nextId>>

\* What was not committed is rolled back.
Fail(r) ==
  /\ requests' = [requests EXCEPT ![r].pc = "failed", ![r].made = <<>>]
  /\ UNCHANGED <<session, evaluations, reports, nextId>>

NotFound(r) ==
  /\ requests[r].pc = "begun"
  /\ session.status = "gone"
  /\ Fail(r)

\* Mutant: the answer shows every evaluation of the session.
FetchedOfSession(report) == SetToSeq({e.id : e \in evaluations})

\* get_evaluations_by_ids: in the order of the report, without those that are gone.
Fetched(report) ==
  LET ids   == report.judge_evaluation_ids
      found == {i \in DOMAIN ids : \E e \in evaluations : e.id = ids[i]}
      order == CHOOSE order \in Bijection(1..Cardinality(found), found) :
                 \A i, k \in DOMAIN order : i < k => order[i] < order[k]
  IN  [i \in DOMAIN order |-> ids[order[i]]]

Answer(r) ==
  /\ requests[r].pc = "reading"
  /\ requests' = [requests EXCEPT ![r].pc = "answered",
                                  ![r].shown = Fetched(requests[r].report)]
  /\ UNCHANGED <<session, evaluations, reports, nextId>>

-----------------------------------------------------------------------------
(* Generating a report.                                                    *)

\* Mutant: an interview in progress is judged too.
ReadyIfPresent(status) == status # "gone"

Ready(status) == status = "finished"

Load(r) ==
  /\ requests[r].pc = "begun"
  /\ Ready(session.status)
  /\ requests' = [requests EXCEPT ![r].pc = "judging", ![r].seen = session]
  /\ UNCHANGED <<session, evaluations, reports, nextId>>

NotReady(r) ==
  /\ requests[r].pc = "begun"
  /\ session.status # "gone"
  /\ ~Ready(session.status)
  /\ Fail(r)

Judging(r) == requests[r].pc = "judging" /\ requests[r].next <= Len(JUDGE_NAMES)

SkipJudge(r) ==
  /\ Judging(r)
  /\ JUDGE_NAMES[requests[r].next] \notin requests[r].seen.material
  /\ requests' = [requests EXCEPT ![r].next = @ + 1]
  /\ UNCHANGED <<session, evaluations, reports, nextId>>

\* Mutant: each evaluation is committed when it is made.
CommittedAtOnce(e) == {e}

\* The committed rows a flushed insert adds: none, until the transaction commits.
CommittedByFlush(e) == {}

\* The judge answers, and its evaluation is inserted; the insert needs the session.
RunJudge(r) ==
  /\ Judging(r)
  /\ session.status # "gone"
  /\ LET judge == JUDGE_NAMES[requests[r].next]
         e == [id |-> nextId, judge |-> judge, turns |-> requests[r].seen.turns]
     IN  /\ judge \in requests[r].seen.material
         /\ requests' = [requests EXCEPT ![r].made = Append(@, e), ![r].next = @ + 1]
         /\ evaluations' = evaluations \cup CommittedByFlush(e)
  /\ nextId' = nextId + 1
  /\ UNCHANGED <<session, reports>>

\* The call to a judge fails, or its process dies.
JudgeFails(r) ==
  /\ Judging(r)
  /\ Fail(r)

Written(r) == ToSet(requests[r].made)

WithWritten(r) == evaluations \cup Written(r)

Commit(r) ==
  /\ requests[r].pc = "judging"
  /\ requests[r].next > Len(JUDGE_NAMES)
  /\ LET made == requests[r].made
         report == [by |-> r, created_at |-> requests[r].began,
                    judge_evaluation_ids |-> [i \in DOMAIN made |-> made[i].id]]
     IN  /\ evaluations' = WithWritten(r)
         /\ reports' = Append(reports, report)
         /\ requests' = [requests EXCEPT ![r].pc = "committed", ![r].made = <<>>,
                                         ![r].report = report]
  /\ UNCHANGED <<session, nextId>>

\* The report is read back after the commit; it may be gone with its session by then.
Refresh(r) ==
  /\ requests[r].pc = "committed"
  /\ requests[r].report \in ToSet(reports)
  /\ requests' = [requests EXCEPT ![r].pc = "reading"]
  /\ UNCHANGED <<session, evaluations, reports, nextId>>

RefreshFails(r) ==
  /\ requests[r].pc = "committed"
  /\ requests[r].report \notin ToSet(reports)
  /\ Fail(r)

-----------------------------------------------------------------------------
(* Reading the latest report.                                              *)

\* Mutant: the reports are sorted oldest first.
EarliestReport == CHOOSE p \in ToSet(reports) :
                    \A q \in ToSet(reports) : p.created_at <= q.created_at

LatestReport == CHOOSE p \in ToSet(reports) :
                  \A q \in ToSet(reports) : q.created_at <= p.created_at

Find(r) ==
  /\ requests[r].pc = "begun"
  /\ reports # <<>>
  /\ requests' = [requests EXCEPT ![r].pc = "reading", ![r].report = LatestReport]
  /\ UNCHANGED <<session, evaluations, reports, nextId>>

NoneYet(r) ==
  /\ requests[r].pc = "begun"
  /\ session.status # "gone"
  /\ reports = <<>>
  /\ Fail(r)

-----------------------------------------------------------------------------
Next ==
  \/ Turn
  \/ DeleteSession
  \/ \E r \in Requests : Begin(r) \/ NotFound(r) \/ Answer(r)
  \/ \E r \in Generators :
       \/ Load(r) \/ NotReady(r) \/ SkipJudge(r) \/ RunJudge(r) \/ JudgeFails(r)
       \/ Commit(r) \/ Refresh(r) \/ RefreshFails(r)
  \/ \E r \in Readers : Find(r) \/ NoneYet(r)

Spec == Init /\ [][Next]_vars

-----------------------------------------------------------------------------
(* Properties.                                                             *)

Before(j, k) ==
  \E m, n \in DOMAIN JUDGE_NAMES : m < n /\ JUDGE_NAMES[m] = j /\ JUDGE_NAMES[n] = k

\* "judge_evaluation_ids records the exact evaluations used to generate each report":
\* every stored evaluation is in one report, and a report has one for each judge
\* with something to read, in order.  A failed generation leaves nothing behind.
EvaluationsAreReported ==
  /\ \A e \in evaluations :
       \E i \in DOMAIN reports :
         /\ e.id \in ToSet(reports[i].judge_evaluation_ids)
         /\ \A k \in DOMAIN reports \ {i} : e.id \notin ToSet(reports[k].judge_evaluation_ids)
  /\ \A i \in DOMAIN reports :
       LET ids == reports[i].judge_evaluation_ids
       IN  /\ ToSet(ids) \subseteq {e.id : e \in evaluations}
           /\ {e.judge : e \in {e \in evaluations : e.id \in ToSet(ids)}} = session.material
           /\ \A k, l \in DOMAIN ids : k < l =>
                \A d, e \in evaluations :
                  d.id = ids[k] /\ e.id = ids[l] => Before(d.judge, e.judge)

\* Every evaluation is of the whole of a finished interview, although the session is
\* read once, without a lock, a minute before the last judge answers; the start request
\* of an interview that an early turn has finished (InterviewTurns) is taken to be over.
JudgedInFull ==
  \A e \in evaluations : session.status = "finished" /\ e.turns = session.turns

\* A reader never gets an older report than one whose request had ended before the
\* reader began, and reports generated one after the other are ordered likewise.
ReadersSeeProgress ==
  \A r \in Requests : \A g \in Generators \cap requests[r].after :
    requests[g].pc = "answered" /\ requests[r].report # NoReport =>
      requests[r].report.created_at >= requests[g].began

\* An answer shows the evaluations of its report, all of them and no others; only the
\* deletion of the session may empty it.
AnswersAreWhole ==
  \A r \in Requests : requests[r].pc = "answered" =>
    \/ requests[r].shown = requests[r].report.judge_evaluation_ids
    \/ session.status = "gone" /\ requests[r].shown = <<>>

\* Nothing of a deleted session remains, nor is anything added to it by a request that
\* was judging it when it was deleted.
NothingOutlivesSession ==
  session.status = "gone" => evaluations = {} /\ reports = <<>>

=============================================================================
