--------------------- MODULE InterviewTranscript_proofs ---------------------
(***************************************************************************)
(* Theorems about what InterviewTurns stores: the transcript, its walk     *)
(* through the plan, the counters beside it and the turns acknowledged;    *)
(* and the proof that the requests implement InterviewLifecycle.           *)
(***************************************************************************)
EXTENDS InterviewTurns_proofs, InterviewTurnsRefinement, FiniteSetTheorems,
        SequenceTheorems

-----------------------------------------------------------------------------
(* The inductive invariants.                                               *)

Index(plan, phase) == CHOOSE k \in DOMAIN plan : plan[k] = phase

\* The transcript has walked the plan to the row's position, and each reply given
\* after its phase's time was up has closed the phase, or the interview.
Walked(r) ==
  LET At(i) == Index(r.plan, r.transcript[i].phase)
      Reached == IF r.status = "completed" THEN r.pos ELSE r.pos - 1
  IN  /\ \A i \in DOMAIN r.transcript : At(i) \in 1..r.pos
      /\ \A i, j \in DOMAIN r.transcript : i < j => At(i) <= At(j)
      /\ \A k \in 1..Reached : \E i \in DOMAIN r.transcript :
           At(i) = k /\ r.transcript[i].turn # 0
      /\ \A i \in DOMAIN r.transcript :
           r.transcript[i].late => At(i) < r.pos \/ r.status \in Finished
      /\ \A i, j \in DOMAIN r.transcript :
           i < j /\ r.transcript[i].late => At(i) < At(j)

FlaggedAt(transcript) == {i \in DOMAIN transcript : transcript[i].flag # "none"}
HintedAt(transcript, p) ==
  {i \in DOMAIN transcript : transcript[i].hint /\ transcript[i].phase = p}

Tallied(r) ==
  /\ r.redFlags = Cardinality(FlaggedAt(r.transcript))
  /\ \A p \in Phase : r.hints[p] = Cardinality(HintedAt(r.transcript, p))

\* Until the start request has answered there is nothing to lose: no transcript, no
\* verdict, no turn.
StoryInv ==
  /\ row.status = "absent" => row = NoRow
  /\ row.status # "absent" => row.plan \in Plans /\ Walked(row)
  /\ Tallied(row)
  /\ startPc # "answered" =>
       row.transcript = <<>> /\ row.status \notin Finished /\ turns = 0

\* The turns in flight, the turns acknowledged and the turns stored.
TurnsInv ==
  /\ turns <= MaxTurns
  /\ answered \subseteq 1..turns
  /\ \A h \in Handlers : pc[h] # "idle" => work[h].turn \in (1..turns) \ answered
  /\ \A h, k \in Handlers :
       h # k /\ pc[h] # "idle" /\ pc[k] # "idle" => work[h].turn # work[k].turn

\* The stored transcript is its opening followed by the turns acknowledged.
Keeps(transcript, acknowledged) ==
  /\ transcript # <<>> /\ transcript[1].turn = 0
  /\ \A i \in DOMAIN transcript \ {1} : transcript[i].turn \in acknowledged
  /\ \A n \in acknowledged : \E i \in DOMAIN transcript : transcript[i].turn = n
  /\ \A i, j \in DOMAIN transcript : transcript[i].turn = transcript[j].turn => i = j

StoredInv ==
  startPc = "answered" /\ row.status # "absent" => Keeps(row.transcript, answered)

TranscriptInv == StoryInv /\ TurnsInv /\ StoredInv

\* The stored transcript, early turns included: what is in it has been acknowledged, but
\* for the opening, and what has been acknowledged since the opening is in it.
Holds(transcript, acknowledged, lost) ==
  /\ \A i \in DOMAIN transcript :
       transcript[i].turn \in acknowledged \/ (transcript[i].turn = 0 /\ i = 1)
  /\ \A n \in acknowledged \ lost : \E i \in DOMAIN transcript : transcript[i].turn = n
  /\ \A i, j \in DOMAIN transcript : transcript[i].turn = transcript[j].turn => i = j

LaterInv ==
  /\ startPc = "idle" => turns = 0
  /\ row.status # "absent" => Holds(row.transcript, answered, overwritten)
-----------------------------------------------------------------------------
(* What a step does to the row.                                            *)

\* The row after a turn has been committed, in terms of the row before.
Grows(r, s, e) ==
  /\ Active(r) /\ r.pos \in 1..Len(r.plan)
  /\ s \in Row /\ s.status # "absent" /\ s.plan = r.plan
  /\ e.phase = r.plan[r.pos]
  /\ s.transcript = Append(r.transcript, e)
  /\ s.redFlags = IF e.flag = "none" THEN r.redFlags ELSE r.redFlags + 1
  /\ \A p \in Phase :
       s.hints[p] = IF e.hint /\ p = e.phase THEN r.hints[p] + 1 ELSE r.hints[p]
  /\ s.asked = WithBatch(r).asked
  /\ \/ s.pos = r.pos /\ s.status # "completed" /\ (Active(s) => ~e.late)
     \/ s.pos = r.pos + 1 /\ Active(s)
     \/ s.pos = r.pos /\ s.status = "completed"

\* The row a turn commits is grown from the stored row, not from an older one.
LEMMA TurnCommitsGrows ==
  ASSUME IInv, NEW h \in Handlers, TurnCommits(h)
  PROVE  \E e \in Exchange : e.turn = work[h].turn /\ Grows(row, row', e)
<1> DEFINE w == work[h]
           r == WithBatch(row)
           s == AfterTurn(r, w.turn, w.verdict, w.calls, w.force)
<1>1. pc[h] \in LockedStates
  BY DEF TurnCommits, LockedStates
<1>2. Active(row) /\ w.row = r
  BY <1>1 DEF IInv, LockInv, SnapshotIsCurrent
<1>3. row' = s
  BY <1>2 DEF TurnCommits
<1>4. w \in Work /\ row \in Row /\ row.pos \in 1..Len(row.plan)
  BY <1>2 DEF IInv, TypeOK, LockInv, Active
<1>5. /\ r \in Row /\ Active(r) /\ r.pos \in 1..Len(r.plan)
      /\ r.plan = row.plan /\ r.pos = row.pos /\ r.transcript = row.transcript
      /\ r.redFlags = row.redFlags /\ r.hints = row.hints
  <2>1. r \in Row /\ r = [row EXCEPT !.asked = r.asked]
    BY <1>4, WithBatchRow
  <2> HIDE DEF r
  <2> QED
    BY <1>2, <1>4, <2>1 DEF Row, Active
<1>6. w.turn \in Nat /\ w.verdict \in Verdict /\ w.calls \in Nat /\ w.force \in BOOLEAN
  BY <1>4 DEF Work
<1>7. CurrentPhase(r) = row.plan[row.pos]
  BY <1>5 DEF CurrentPhase
<1> HIDE DEF w, r
<1>8. TurnLeaves(r, s, w.turn, w.verdict, w.calls, w.force)
  BY <1>5, <1>6, AfterTurnRow
<1> HIDE DEF s
<1>9. PICK e \in Exchange :
        /\ e.turn = w.turn /\ e.phase = CurrentPhase(r)
        /\ e.flag = w.verdict.flag /\ e.hint = w.verdict.hint /\ e.late = w.force
        /\ s.transcript = Append(r.transcript, e)
  BY <1>8 DEF TurnLeaves
<1>10. s.redFlags = IF e.flag = "none" THEN row.redFlags ELSE row.redFlags + 1
  <2>1. Flagged(r, w.verdict).redFlags =
          IF w.verdict.flag = "none" THEN r.redFlags ELSE r.redFlags + 1
    BY <1>5, Zenon DEF Flagged, Row
  <2> QED
    BY <1>5, <1>8, <1>9, <2>1 DEF TurnLeaves
<1>11. /\ s \in Row /\ s.status # "absent" /\ s.plan = row.plan
       /\ s.transcript = Append(row.transcript, e) /\ e.phase = row.plan[row.pos]
       /\ s.asked = WithBatch(row).asked
  BY <1>5, <1>7, <1>8, <1>9 DEF TurnLeaves, r
<1>12. \A p \in Phase :
         s.hints[p] = IF e.hint /\ p = e.phase THEN row.hints[p] + 1 ELSE row.hints[p]
  BY <1>5, <1>8, <1>9 DEF TurnLeaves
<1>13. \/ s.pos = row.pos /\ s.status # "completed" /\ (Active(s) => ~e.late)
       \/ s.pos = row.pos + 1 /\ Active(s)
       \/ s.pos = row.pos /\ s.status = "completed"
  BY <1>5, <1>8, <1>9 DEF TurnLeaves
<1>14. Grows(row, s, e)
  BY <1>2, <1>4, <1>10, <1>11, <1>12, <1>13 DEF Grows
<1> QED
  BY <1>3, <1>9, <1>14 DEF w

StoresOpening ==
  /\ startPc = "storing" /\ startPc' = "answered"
  /\ row.status # "absent"
  /\ row' = [row EXCEPT !.transcript = <<Opening(row.plan)>>, !.pool = openingPool]
  /\ overwritten' = answered
  /\ UNCHANGED turnVars

\* The only steps that change the row: the start request's two writes, a deletion, and
\* a turn's commit.
LEMMA RowMoves ==
  ASSUME IInv, [Next]_vars
  PROVE  \/ UNCHANGED row
         \/ row' = NoRow /\ UNCHANGED turnVars
         \/ StartCreates
         \/ StoresOpening
         \/ \E h \in Handlers : TurnCommits(h)
<1>1. CASE StartNext
  BY <1>1 DEF StartNext, OpeningSucceeds, OpeningFails, StartStores, StartStoreFails,
     StartDiscards, StartDiscardFails, StoresOpening
<1>2. ASSUME NEW h \in Handlers, TurnNext(h) PROVE UNCHANGED row \/ TurnCommits(h)
  BY <1>2 DEF TurnNext, TurnArrives, TurnRejected, TurnLocks, ModelAnswers, ModelFails,
     TurnLogs, TurnRollsBack
<1>3. CASE OwnerDeletes
  BY <1>3 DEF OwnerDeletes
<1>4. CASE PhaseOverruns \/ Crash \/ UNCHANGED vars
  BY <1>4 DEF PhaseOverruns, Crash, vars
<1> QED
  BY <1>1, <1>2, <1>3, <1>4 DEF Next

\* The start request moves forward, and "answered" is where it stays.
LEMMA StartMoves ==
  ASSUME IInv, [Next]_vars
  PROVE  \/ UNCHANGED startPc
         \/ StartCreates
         \/ StoresOpening
         \/ /\ startPc # "answered" /\ startPc' \notin {"idle", "answered"}
            /\ UNCHANGED <<turns, answered>>
            /\ UNCHANGED row \/ row' = NoRow
<1>1. CASE StartNext
  BY <1>1 DEF StartNext, OpeningSucceeds, OpeningFails, StartStores, StartStoreFails,
     StartDiscards, StartDiscardFails, StoresOpening, turnVars
<1>2. ASSUME NEW h \in Handlers, TurnNext(h) PROVE UNCHANGED startPc
  BY <1>2 DEF TurnNext, TurnArrives, TurnRejected, TurnLocks, ModelAnswers, ModelFails,
     TurnLogs, TurnCommits, TurnRollsBack, startVars
<1>3. CASE OwnerDeletes \/ PhaseOverruns \/ UNCHANGED vars
  BY <1>3 DEF OwnerDeletes, PhaseOverruns, vars, startVars
<1>4. CASE Crash
  BY <1>4 DEF Crash, StartInFlight
<1> QED
  BY <1>1, <1>2, <1>3, <1>4 DEF Next

\* Only storing the opening writes over answered turns.
LEMMA OverwrittenMoves ==
  ASSUME [Next]_vars, ~StoresOpening
  PROVE  UNCHANGED overwritten
<1>1. CASE StartNext
  BY <1>1 DEF StartNext, StartCreates, OpeningSucceeds, OpeningFails, StartStores,
     StartStoreFails, StartDiscards, StartDiscardFails, StoresOpening
<1>2. ASSUME NEW h \in Handlers, TurnNext(h) PROVE UNCHANGED overwritten
  BY <1>2 DEF TurnNext, TurnArrives, TurnRejected, TurnLocks, ModelAnswers, ModelFails,
     TurnLogs, TurnCommits, TurnRollsBack, startVars
<1>3. CASE OwnerDeletes \/ PhaseOverruns \/ Crash \/ UNCHANGED vars
  BY <1>3 DEF OwnerDeletes, PhaseOverruns, Crash, vars, startVars
<1> QED
  BY <1>1, <1>2, <1>3 DEF Next
-----------------------------------------------------------------------------
(* What one more exchange, or the opening, does to a row.                  *)

\* A plan names each of its phases once, so a phase's index is where it stands.
LEMMA IndexIs ==
  ASSUME NEW plan \in Plans, NEW k \in 1..Len(plan)
  PROVE  Index(plan, plan[k]) = k
<1>1. /\ plan \in Seq(Phase)
      /\ \A i, j \in 1..Len(plan) : plan[i] = plan[j] => i = j
  BY PlansAssumption
<1>2. DOMAIN plan = 1..Len(plan)
  BY <1>1
<1> QED
  BY <1>1, <1>2 DEF Index

LEMMA Appended ==
  ASSUME NEW t \in Seq(Exchange), NEW e \in Exchange
  PROVE  /\ Len(t) \in Nat /\ DOMAIN t = 1..Len(t)
         /\ DOMAIN Append(t, e) = 1..(Len(t) + 1)
         /\ \A i \in 1..Len(t) : Append(t, e)[i] = t[i]
         /\ Append(t, e)[Len(t) + 1] = e
         /\ Append(t, e) # <<>>
OBVIOUS

LEMMA WalkedGrows ==
  ASSUME NEW r \in Row, NEW s, NEW e \in Exchange, Grows(r, s, e),
         r.plan \in Plans, Walked(r), e.turn # 0
  PROVE  Walked(s)
<1> DEFINE t == r.transcript
           u == s.transcript
           n == Len(r.transcript)
           A(i) == Index(r.plan, t[i].phase)
           B(i) == Index(s.plan, u[i].phase)
<1>1. t \in Seq(Exchange) /\ r.pos \in 1..Len(r.plan) /\ r.pos \in Nat
  BY DEF Row, Grows
<1>2. /\ n \in Nat /\ DOMAIN t = 1..n /\ DOMAIN u = 1..(n + 1)
      /\ \A i \in 1..n : u[i] = t[i]
      /\ u[n + 1] = e
  BY <1>1, Appended DEF Grows
<1>3. \A i \in 1..n : B(i) = A(i)
  BY <1>2 DEF Grows
<1>4. B(n + 1) = r.pos
  BY <1>1, <1>2, IndexIs DEF Grows
<1>5. /\ \A i \in 1..n : A(i) \in 1..r.pos
      /\ \A i, j \in 1..n : i < j => A(i) <= A(j)
      /\ \A k \in 1..(r.pos - 1) : \E i \in 1..n : A(i) = k /\ t[i].turn # 0
      /\ \A i \in 1..n : t[i].late => A(i) < r.pos
      /\ \A i, j \in 1..n : i < j /\ t[i].late => A(i) < A(j)
  <2>1. r.status = "in_progress"
    BY DEF Grows, Active
  <2> QED
    BY <1>2, <2>1 DEF Walked, Finished
<1>6. /\ s.status \in Status
      /\ \/ s.pos = r.pos /\ s.status # "completed" /\ (Active(s) => ~e.late)
         \/ s.pos = r.pos + 1 /\ Active(s)
         \/ s.pos = r.pos /\ s.status = "completed"
      /\ s.status # "absent"
  BY DEF Grows, Row
<1> HIDE DEF t, u, n, A, B
<1>7. \A i \in 1..(n + 1) : B(i) \in 1..s.pos
  BY <1>1, <1>2, <1>3, <1>4, <1>5, <1>6
<1>8. ASSUME NEW i \in 1..(n + 1), NEW j \in 1..(n + 1), i < j
      PROVE  B(i) <= B(j) /\ (u[i].late => B(i) < B(j))
  <2>1. i \in 1..n /\ B(i) = A(i) /\ u[i] = t[i]
    BY <1>2, <1>3, <1>8
  <2>2. CASE j = n + 1
    BY <1>1, <1>4, <1>5, <2>1, <2>2
  <2>3. CASE j \in 1..n
    <3>1. B(j) = A(j)
      BY <1>3, <2>3
    <3> QED
      BY <1>5, <1>8, <2>1, <2>3, <3>1
  <2> QED
    BY <1>2, <2>2, <2>3
<1>9. \A k \in 1..(IF s.status = "completed" THEN s.pos ELSE s.pos - 1) :
        \E i \in 1..(n + 1) : B(i) = k /\ u[i].turn # 0
  <2> TAKE k \in 1..(IF s.status = "completed" THEN s.pos ELSE s.pos - 1)
  <2>1. k \in 1..(r.pos - 1) \/ k = r.pos
    BY <1>1, <1>6 DEF Active
  <2>2. CASE k = r.pos
    BY <1>2, <1>4, <2>2
  <2>3. CASE k \in 1..(r.pos - 1)
    BY <1>2, <1>3, <1>5, <2>3
  <2> QED
    BY <2>1, <2>2, <2>3
<1>10. \A i \in 1..(n + 1) : u[i].late => B(i) < s.pos \/ s.status \in Finished
  BY <1>1, <1>2, <1>3, <1>4, <1>5, <1>6 DEF Active, Status, Finished
<1> QED
  BY <1>2, <1>7, <1>8, <1>9, <1>10 DEF Walked, u, B

\* Counting the positions of a sequence that satisfy a predicate, one entry more.
LEMMA OneMore ==
  ASSUME NEW n \in Nat, NEW S \in SUBSET (1..n)
  PROVE  /\ Cardinality(S) \in Nat
         /\ Cardinality(S \cup {n + 1}) = Cardinality(S) + 1
<1>1. IsFiniteSet(S)
  <2>1. IsFiniteSet(1..n)
    BY FS_Interval
  <2> QED
    BY <2>1, FS_Subset
<1>2. n + 1 \notin S
  OBVIOUS
<1> QED
  BY <1>1, <1>2, FS_AddElement, FS_CardinalityType

LEMMA TalliedGrows ==
  ASSUME NEW r \in Row, NEW s, NEW e \in Exchange, Grows(r, s, e), Tallied(r)
  PROVE  Tallied(s)
<1> DEFINE t == r.transcript
           u == s.transcript
           n == Len(r.transcript)
<1>1. t \in Seq(Exchange)
  BY DEF Row
<1>2. /\ n \in Nat /\ DOMAIN t = 1..n /\ DOMAIN u = 1..(n + 1)
      /\ \A i \in 1..n : u[i] = t[i]
      /\ u[n + 1] = e
  BY <1>1, Appended DEF Grows
<1> HIDE DEF t, u, n
<1>3. s.redFlags = Cardinality(FlaggedAt(u))
  <2>1. FlaggedAt(u) = IF e.flag = "none" THEN FlaggedAt(t) ELSE FlaggedAt(t) \cup {n + 1}
    BY <1>2 DEF FlaggedAt
  <2>2. FlaggedAt(t) \in SUBSET (1..n)
    BY <1>2 DEF FlaggedAt
  <2>3. r.redFlags = Cardinality(FlaggedAt(t))
    BY DEF Tallied, t
  <2>4. s.redFlags = IF e.flag = "none" THEN r.redFlags ELSE r.redFlags + 1
    BY DEF Grows
  <2> QED
    BY <1>2, <2>1, <2>2, <2>3, <2>4, OneMore
<1>4. ASSUME NEW p \in Phase PROVE s.hints[p] = Cardinality(HintedAt(u, p))
  <2>1. HintedAt(u, p) =
          IF e.hint /\ e.phase = p THEN HintedAt(t, p) \cup {n + 1} ELSE HintedAt(t, p)
    <3>1. CASE e.hint /\ e.phase = p
      BY <1>2, <3>1 DEF HintedAt
    <3>2. CASE ~(e.hint /\ e.phase = p)
      BY <1>2, <3>2 DEF HintedAt
    <3> QED
      BY <3>1, <3>2
  <2>2. HintedAt(t, p) \in SUBSET (1..n)
    BY <1>2 DEF HintedAt
  <2>3. r.hints[p] = Cardinality(HintedAt(t, p))
    BY DEF Tallied, t
  <2>4. s.hints[p] = IF e.hint /\ p = e.phase THEN r.hints[p] + 1 ELSE r.hints[p]
    BY DEF Grows
  <2> QED
    BY <1>2, <2>1, <2>2, <2>3, <2>4, OneMore
<1> QED
  BY <1>3, <1>4 DEF Tallied, u

LEMMA KeepsGrows ==
  ASSUME NEW t \in Seq(Exchange), NEW acknowledged, NEW e \in Exchange,
         Keeps(t, acknowledged), e.turn \notin acknowledged, e.turn # 0
  PROVE  Keeps(Append(t, e), acknowledged \cup {e.turn})
<1> DEFINE u == Append(t, e)
           n == Len(t)
<1>1. /\ n \in Nat /\ DOMAIN t = 1..n /\ DOMAIN u = 1..(n + 1)
      /\ \A i \in 1..n : u[i] = t[i]
      /\ u[n + 1] = e /\ u # <<>>
  BY Appended
<1>2. n > 0
  BY <1>1 DEF Keeps
<1> HIDE DEF u, n
<1>3. u[1].turn = 0
  BY <1>1, <1>2 DEF Keeps
<1>4. \A i \in DOMAIN u \ {1} : u[i].turn \in acknowledged \cup {e.turn}
  BY <1>1 DEF Keeps
<1>5. \A m \in acknowledged \cup {e.turn} : \E i \in DOMAIN u : u[i].turn = m
  <2> TAKE m \in acknowledged \cup {e.turn}
  <2>1. CASE m = e.turn
    BY <1>1, <2>1
  <2>2. CASE m \in acknowledged
    <3>1. PICK i \in DOMAIN t : t[i].turn = m
      BY <2>2 DEF Keeps
    <3> QED
      BY <1>1, <3>1
  <2> QED
    BY <2>1, <2>2
<1>6. \A i, j \in DOMAIN u : u[i].turn = u[j].turn => i = j
  <2>1. \A i \in 1..n : t[i].turn # e.turn
    BY <1>1, <1>2 DEF Keeps
  <2>2. \A i, j \in 1..n : t[i].turn = t[j].turn => i = j
    BY <1>1 DEF Keeps
  <2> QED
    BY <1>1, <2>1, <2>2
<1> QED
  BY <1>1, <1>3, <1>4, <1>5, <1>6 DEF Keeps, u

\* A row with no exchange yet, new or deleted.
LEMMA BareRow ==
  ASSUME NEW r, r.transcript = <<>>, r.redFlags = 0,
         r.hints = [p \in Phase |-> 0]
  PROVE  Tallied(r)
<1>1. FlaggedAt(<<>>) = {} /\ \A p \in Phase : HintedAt(<<>>, p) = {}
  BY DEF FlaggedAt, HintedAt
<1> QED
  BY <1>1, FS_EmptySet DEF Tallied

\* The opening is no candidate's turn, and counts nothing.
LEMMA OpeningStored ==
  ASSUME NEW r \in Row, r.plan \in Plans, r.pos \in 1..Len(r.plan),
         r.transcript = <<>>, Walked(r), Tallied(r), r.status \notin Finished,
         NEW pool
  PROVE  LET s == [r EXCEPT !.transcript = <<Opening(r.plan)>>, !.pool = pool]
         IN  Walked(s) /\ Tallied(s) /\ Keeps(s.transcript, {})
<1> DEFINE u == <<Opening(r.plan)>>
           s == [r EXCEPT !.transcript = u, !.pool = pool]
<1>1. /\ DOMAIN u = {1} /\ u # <<>>
      /\ u[1].turn = 0 /\ u[1].flag = "none" /\ u[1].hint = FALSE /\ u[1].late = FALSE
      /\ u[1].phase = r.plan[1]
  BY DEF Opening
<1> HIDE DEF u
<1>2. /\ s.transcript = u /\ s.plan = r.plan /\ s.pos = r.pos /\ s.status = r.status
      /\ s.redFlags = r.redFlags /\ s.hints = r.hints
  BY DEF Row
<1> HIDE DEF s
<1>3. r.pos = 1 /\ r.status # "completed"
  <2>1. \A k \in 1..(r.pos - 1) : FALSE
    BY DEF Walked, Finished
  <2> QED
    BY <2>1 DEF Finished
<1>4. Index(r.plan, r.plan[1]) = 1
  BY <1>3, IndexIs
<1>5. Walked(s)
  BY <1>1, <1>2, <1>3, <1>4 DEF Walked
<1>6. Tallied(s)
  <2>1. /\ FlaggedAt(u) = {} /\ \A p \in Phase : HintedAt(u, p) = {}
        /\ FlaggedAt(<<>>) = {} /\ \A p \in Phase : HintedAt(<<>>, p) = {}
    BY <1>1 DEF FlaggedAt, HintedAt
  <2> QED
    BY <1>2, <2>1 DEF Tallied
<1>7. Keeps(u, {})
  BY <1>1 DEF Keeps
<1> QED
  BY <1>2, <1>5, <1>6, <1>7 DEF s, u
-----------------------------------------------------------------------------
(* The invariants are inductive.                                           *)

LEMMA BareNoRow ==
  /\ NoRow.status = "absent" /\ NoRow.transcript = <<>> /\ Tallied(NoRow)
<1>1. /\ NoRow.status = "absent" /\ NoRow.transcript = <<>> /\ NoRow.redFlags = 0
      /\ NoRow.hints = [p \in Phase |-> 0]
  BY DEF NoRow, NewRow
<1> QED
  BY <1>1, BareRow

\* What a step does to the turns in flight and to their acknowledgements.
LEMMA TurnMoves ==
  ASSUME IInv, [Next]_vars
  PROVE  \/ \E h \in Handlers : TurnArrives(h)
         \/ \E h \in Handlers : TurnCommits(h)
         \/ /\ UNCHANGED <<turns, answered>>
            /\ \A h \in Handlers :
                 pc'[h] # "idle" => pc[h] # "idle" /\ work'[h].turn = work[h].turn
<1> USE DEF IInv, TypeOK
<1>1. CASE StartNext \/ OwnerDeletes \/ PhaseOverruns \/ UNCHANGED vars
  <2>1. UNCHANGED turnVars
    BY <1>1 DEF StartNext, StartCreates, OpeningSucceeds, OpeningFails, StartStores,
       StartStoreFails, StartDiscards, StartDiscardFails, OwnerDeletes, PhaseOverruns, vars, turnVars
  <2> QED
    BY <2>1 DEF turnVars
<1>2. CASE Crash
  BY <1>2 DEF Crash
<1>3. ASSUME NEW h \in Handlers, TurnNext(h), ~TurnArrives(h), ~TurnCommits(h)
      PROVE  /\ UNCHANGED <<turns, answered>>
             /\ \A k \in Handlers :
                  pc'[k] # "idle" => pc[k] # "idle" /\ work'[k].turn = work[k].turn
  <2>1. work[h] \in Work
    OBVIOUS
  <2>2. CASE TurnRejected(h) \/ TurnRollsBack(h)
    BY <2>2 DEF TurnRejected, TurnRollsBack, Idle
  <2>3. CASE TurnLocks(h)
    BY <2>1, <2>3 DEF TurnLocks, Work
  <2>4. CASE ModelAnswers(h)
    BY <2>1, <2>4 DEF ModelAnswers, Work
  <2>5. CASE ModelFails(h)
    BY <2>1, <2>5 DEF ModelFails, Work
  <2>6. CASE TurnLogs(h)
    BY <2>6 DEF TurnLogs
  <2> QED
    BY <1>3, <2>2, <2>3, <2>4, <2>5, <2>6 DEF TurnNext
<1> QED
  BY <1>1, <1>2, <1>3 DEF Next

LEMMA InitTranscript == Init => TranscriptInv /\ LaterInv
<1> SUFFICES ASSUME Init PROVE TranscriptInv /\ LaterInv
  OBVIOUS
<1>1. StoryInv
  BY BareNoRow DEF Init, StoryInv, Finished
<1>2. TurnsInv
  BY LimitsAssumption DEF Init, TurnsInv
<1>3. StoredInv /\ LaterInv
  BY BareNoRow DEF Init, StoredInv, LaterInv
<1> QED
  BY <1>1, <1>2, <1>3 DEF TranscriptInv

LEMMA TurnsStep ==
  ASSUME IInv, TurnsInv, [Next]_vars
  PROVE  TurnsInv'
<1> USE DEF IInv, TypeOK
<1>1. turns \in Nat /\ MaxTurns \in Nat
  BY LimitsAssumption
<1>2. ASSUME NEW h \in Handlers, TurnArrives(h) PROVE TurnsInv'
  <2>1. work[h] \in Work
    OBVIOUS
  <2>2. /\ turns' = turns + 1 /\ turns' <= MaxTurns /\ answered' = answered
        /\ work'[h].turn = turns + 1
        /\ \A k \in Handlers \ {h} : pc'[k] = pc[k] /\ work'[k] = work[k]
    BY <1>1, <1>2, <2>1 DEF TurnArrives, Work
  <2> QED
    BY <1>1, <2>2 DEF TurnsInv
<1>3. ASSUME NEW h \in Handlers, TurnCommits(h) PROVE TurnsInv'
  <2>1. /\ turns' = turns /\ answered' = answered \cup {work[h].turn}
        /\ pc[h] # "idle" /\ pc'[h] = "idle"
        /\ \A k \in Handlers \ {h} : pc'[k] = pc[k] /\ work'[k] = work[k]
    BY <1>3 DEF TurnCommits, Idle
  <2> QED
    BY <1>1, <2>1 DEF TurnsInv
<1>4. CASE /\ UNCHANGED <<turns, answered>>
           /\ \A h \in Handlers :
                pc'[h] # "idle" => pc[h] # "idle" /\ work'[h].turn = work[h].turn
  BY <1>4 DEF TurnsInv
<1> QED
  BY <1>2, <1>3, <1>4, TurnMoves

\* Before the start request has answered, nobody's turn is in flight.
LEMMA NoTurnYet ==
  ASSUME StoryInv, TurnsInv, startPc # "answered"
  PROVE  answered = {} /\ \A h \in Handlers : pc[h] = "idle"
BY DEF StoryInv, TurnsInv

LEMMA StoryStep ==
  ASSUME ~EarlyTurns, IInv, StoryInv, TurnsInv, [Next]_vars
  PROVE  StoryInv'
<1> DEFINE Kept(r) == /\ r.status = "absent" => r = NoRow
                      /\ r.status # "absent" => r.plan \in Plans /\ Walked(r)
                      /\ Tallied(r)
<1>1. row \in Row
  BY DEF IInv, TypeOK
<1>2. Kept(row)
  BY DEF StoryInv
<1>3. ASSUME StartCreates
      PROVE  Kept(row') /\ row'.transcript = <<>> /\ row'.status \notin Finished
  <2>1. PICK plan \in Plans, timed \in BOOLEAN : row' = NewRow(plan, timed)
    BY <1>3 DEF StartCreates
  <2>2. /\ row'.status = "in_progress" /\ row'.plan = plan /\ row'.pos = 1
        /\ row'.transcript = <<>> /\ row'.redFlags = 0
        /\ row'.hints = [p \in Phase |-> 0]
    BY <2>1 DEF NewRow
  <2>3. Walked(row')
    BY <2>2 DEF Walked
  <2>4. Tallied(row')
    BY <2>2, BareRow
  <2> QED
    BY <2>2, <2>3, <2>4 DEF Finished
<1>4. ASSUME StoresOpening PROVE Kept(row')
  <2>1. row.pos \in 1..Len(row.plan)
    BY <1>4 DEF StoresOpening, IInv, LockInv
  <2>2. row.transcript = <<>> /\ row.status \notin Finished
    BY <1>4 DEF StoresOpening, StoryInv
  <2>3. row'.status # "absent" /\ row'.plan = row.plan
    BY <1>1, <1>4 DEF StoresOpening, Row
  <2>4. Walked(row') /\ Tallied(row')
    BY <1>1, <1>2, <1>4, <2>1, <2>2, OpeningStored DEF StoresOpening
  <2> QED
    BY <1>2, <1>4, <2>3, <2>4 DEF StoresOpening
<1>5. ASSUME NEW h \in Handlers, TurnCommits(h) PROVE Kept(row') /\ startPc = "answered"
  <2>1. pc[h] # "idle"
    BY <1>5 DEF TurnCommits
  <2>2. PICK e \in Exchange : e.turn = work[h].turn /\ Grows(row, row', e)
    BY <1>5, TurnCommitsGrows
  <2>3. e.turn # 0
    BY <2>1, <2>2 DEF TurnsInv, IInv, TypeOK
  <2>4. row.status # "absent" /\ row'.status # "absent" /\ row'.plan = row.plan
    BY <2>2 DEF Grows, Active
  <2>5. Walked(row') /\ Tallied(row')
    BY <1>1, <1>2, <2>2, <2>3, <2>4, WalkedGrows, TalliedGrows
  <2>6. startPc = "answered"
    BY <2>1, NoTurnYet
  <2> QED
    BY <1>2, <2>4, <2>5, <2>6
<1>6. Kept(NoRow)
  BY BareNoRow
<1>7. Kept(row')
  <2> HIDE DEF Kept
  <2> QED
    BY <1>2, <1>3, <1>4, <1>5, <1>6, RowMoves
<1>8. ASSUME startPc' # "answered"
      PROVE  row'.transcript = <<>> /\ row'.status \notin Finished /\ turns' = 0
  <2>1. startPc # "answered"
    BY <1>8, StartMoves DEF StartCreates, StoresOpening
  <2>2. turns = 0 /\ row.transcript = <<>> /\ row.status \notin Finished
    BY <2>1 DEF StoryInv
  <2>3. turns' = 0
    <3>1. ~ \E h \in Handlers : TurnArrives(h) \/ TurnCommits(h)
      BY <2>1, NoTurnYet DEF TurnArrives, TurnCommits
    <3> QED
      BY <2>2, <3>1, TurnMoves
  <2>4. row'.transcript = <<>> /\ row'.status \notin Finished
    <3> HIDE DEF Kept
    <3> QED
      BY <1>3, <1>5, <1>8, <2>1, <2>2, RowMoves, BareNoRow DEF StoresOpening, Finished
  <2> QED
    BY <2>3, <2>4
<1> QED
  BY <1>7, <1>8 DEF StoryInv

LEMMA StoredStep ==
  ASSUME ~EarlyTurns, IInv, TranscriptInv, [Next]_vars
  PROVE  StoredInv'
<1> SUFFICES ASSUME startPc' = "answered", row'.status # "absent"
             PROVE  Keeps(row'.transcript, answered')
  BY DEF StoredInv
<1> USE DEF TranscriptInv
<1>1. row \in Row
  BY DEF IInv, TypeOK
<1>2. CASE \E h \in Handlers : TurnCommits(h)
  <2>1. PICK h \in Handlers : TurnCommits(h)
    BY <1>2
  <2>2. PICK e \in Exchange : e.turn = work[h].turn /\ Grows(row, row', e)
    BY <2>1, TurnCommitsGrows
  <2>3. pc[h] # "idle" /\ answered' = answered \cup {work[h].turn}
    BY <2>1 DEF TurnCommits
  <2>4. startPc = "answered"
    BY <2>3, NoTurnYet
  <2>5. Keeps(row.transcript, answered)
    BY <2>2, <2>4 DEF StoredInv, Grows, Active
  <2>6. e.turn \notin answered /\ e.turn # 0
    BY <2>2, <2>3 DEF TurnsInv, IInv, TypeOK
  <2>7. row.transcript \in Seq(Exchange)
    BY <1>1 DEF Row
  <2>8. Keeps(Append(row.transcript, e), answered \cup {e.turn})
    BY <2>5, <2>6, <2>7, KeepsGrows
  <2> QED
    BY <2>2, <2>3, <2>8 DEF Grows
<1>3. CASE ~ \E h \in Handlers : TurnCommits(h)
  <2>1. answered' = answered
    BY <1>3, TurnMoves DEF TurnArrives
  <2>2. CASE StoresOpening
    <3>1. answered = {}
      BY <2>2, NoTurnYet DEF StoresOpening
    <3>2. Keeps(row'.transcript, {})
      <4>1. row.pos \in 1..Len(row.plan)
        BY <2>2 DEF StoresOpening, IInv, LockInv
      <4>2. /\ row.transcript = <<>> /\ row.status \notin Finished
            /\ row.plan \in Plans /\ Walked(row) /\ Tallied(row)
        BY <2>2 DEF StoresOpening, StoryInv
      <4> QED
        BY <1>1, <2>2, <4>1, <4>2, OpeningStored DEF StoresOpening
    <3> QED
      BY <2>1, <3>1, <3>2
  <2>3. CASE ~StoresOpening
    <3>1. ~StartCreates
      BY DEF StartCreates
    <3>2. UNCHANGED row
      BY <1>3, <2>3, <3>1, RowMoves, BareNoRow
    <3>3. startPc = "answered"
      BY <2>3, <3>1, StartMoves
    <3> QED
      BY <2>1, <3>2, <3>3 DEF StoredInv
  <2> QED
    BY <2>2, <2>3
<1> QED
  BY <1>2, <1>3

LEMMA TranscriptStep ==
  ASSUME ~EarlyTurns, IInv, TranscriptInv, [Next]_vars
  PROVE  TranscriptInv'
BY StoryStep, TurnsStep, StoredStep DEF TranscriptInv

LEMMA HoldsGrows ==
  ASSUME NEW t \in Seq(Exchange), NEW acknowledged, NEW lost, NEW e \in Exchange,
         Holds(t, acknowledged, lost), e.turn \notin acknowledged, e.turn # 0
  PROVE  Holds(Append(t, e), acknowledged \cup {e.turn}, lost)
<1> DEFINE u == Append(t, e)
           n == Len(t)
<1>1. /\ n \in Nat /\ DOMAIN t = 1..n /\ DOMAIN u = 1..(n + 1)
      /\ \A i \in 1..n : u[i] = t[i]
      /\ u[n + 1] = e
  BY Appended
<1> HIDE DEF u, n
<1>2. \A i \in DOMAIN u :
        u[i].turn \in acknowledged \cup {e.turn} \/ (u[i].turn = 0 /\ i = 1)
  BY <1>1 DEF Holds
<1>3. \A m \in (acknowledged \cup {e.turn}) \ lost : \E i \in DOMAIN u : u[i].turn = m
  <2> TAKE m \in (acknowledged \cup {e.turn}) \ lost
  <2>1. CASE m = e.turn
    BY <1>1, <2>1
  <2>2. CASE m \in acknowledged
    <3>1. PICK i \in DOMAIN t : t[i].turn = m
      BY <2>2 DEF Holds
    <3> QED
      BY <1>1, <3>1
  <2> QED
    BY <2>1, <2>2
<1>4. \A i, j \in DOMAIN u : u[i].turn = u[j].turn => i = j
  <2>1. \A i \in 1..n : t[i].turn # e.turn
    BY <1>1 DEF Holds
  <2>2. \A i, j \in 1..n : t[i].turn = t[j].turn => i = j
    BY <1>1 DEF Holds
  <2> QED
    BY <1>1, <2>1, <2>2
<1> QED
  BY <1>2, <1>3, <1>4 DEF Holds, u

\* The opening is stored over all that was acknowledged before it.
LEMMA OpeningHolds ==
  ASSUME NEW plan, NEW acknowledged
  PROVE  Holds(<<Opening(plan)>>, acknowledged, acknowledged)
<1> DEFINE u == <<Opening(plan)>>
<1>1. DOMAIN u = {1} /\ u[1].turn = 0
  BY DEF Opening
<1> HIDE DEF u
<1>2. Holds(u, acknowledged, acknowledged)
  BY <1>1 DEF Holds
<1> QED
  BY <1>2 DEF u

LEMMA LaterStep ==
  ASSUME IInv, TurnsInv, LaterInv, [Next]_vars
  PROVE  LaterInv'
<1>1. row \in Row
  BY DEF IInv, TypeOK
<1>2. startPc' = "idle" => turns' = 0
  <2>1. CASE \E h \in Handlers : TurnArrives(h)
    BY <2>1 DEF TurnArrives, startVars
  <2>2. CASE \E h \in Handlers : TurnCommits(h)
    BY <2>2 DEF TurnCommits, startVars, LaterInv
  <2>3. CASE UNCHANGED <<turns, answered>>
    BY <2>3, StartMoves DEF StartCreates, StoresOpening, LaterInv
  <2> QED
    BY <2>1, <2>2, <2>3, TurnMoves
<1>3. ASSUME StartCreates
      PROVE  row'.status # "absent" => Holds(row'.transcript, answered', overwritten')
  <2>1. row'.transcript = <<>>
    BY <1>3 DEF StartCreates, NewRow
  <2>2. answered' = {}
    BY <1>3 DEF StartCreates, LaterInv, TurnsInv, turnVars
  <2> QED
    BY <2>1, <2>2 DEF Holds
<1>4. ASSUME StoresOpening PROVE Holds(row'.transcript, answered', overwritten')
  <2>1. row'.transcript = <<Opening(row.plan)>>
    BY <1>1, <1>4 DEF StoresOpening, Row
  <2>2. overwritten' = answered /\ answered' = answered
    BY <1>4 DEF StoresOpening, turnVars
  <2> QED
    BY <2>1, <2>2, OpeningHolds
<1>5. ASSUME NEW h \in Handlers, TurnCommits(h)
      PROVE  Holds(row'.transcript, answered', overwritten')
  <2>1. PICK e \in Exchange : e.turn = work[h].turn /\ Grows(row, row', e)
    BY <1>5, TurnCommitsGrows
  <2>2. /\ pc[h] # "idle" /\ answered' = answered \cup {e.turn}
        /\ overwritten' = overwritten
    BY <1>5, <2>1 DEF TurnCommits, startVars
  <2>3. e.turn \notin answered /\ e.turn # 0
    BY <2>1, <2>2 DEF TurnsInv, IInv, TypeOK
  <2>4. row.status # "absent" /\ row'.transcript = Append(row.transcript, e)
    BY <2>1 DEF Grows, Active
  <2>5. row.transcript \in Seq(Exchange)
    BY <1>1 DEF Row
  <2>6. Holds(row.transcript, answered, overwritten)
    BY <2>4 DEF LaterInv
  <2>7. Holds(Append(row.transcript, e), answered \cup {e.turn}, overwritten)
    BY <2>3, <2>5, <2>6, HoldsGrows
  <2> QED
    BY <2>2, <2>4, <2>7
<1>6. CASE /\ ~StartCreates /\ ~StoresOpening
           /\ ~ \E h \in Handlers : TurnCommits(h)
  <2>1. UNCHANGED row \/ row' = NoRow
    BY <1>6, RowMoves
  <2>2. UNCHANGED answered
    BY <1>6, TurnMoves DEF TurnArrives
  <2>3. UNCHANGED overwritten
    BY <1>6, OverwrittenMoves
  <2> QED
    BY <1>2, <2>1, <2>2, <2>3, BareNoRow DEF LaterInv
<1> QED
  BY <1>2, <1>3, <1>4, <1>5, <1>6 DEF LaterInv
-----------------------------------------------------------------------------
(* The theorems.                                                           *)

\* What is stored of an interview whose clients wait for the start request's answer:
\* the invariant the theorems below read off.
THEOREM TranscriptInvariance ==
  ASSUME ~EarlyTurns
  PROVE  Spec => [](IInv /\ TranscriptInv)
<1>1. Init => IInv /\ TranscriptInv
  BY InitInv, InitTranscript
<1>2. (IInv /\ TranscriptInv) /\ [Next]_vars => (IInv /\ TranscriptInv)'
  BY NextInv, TranscriptStep
<1> QED
  BY <1>1, <1>2, PTL DEF Spec

\* The transcript follows the plan's phases in order, through none not reached and past
\* none without a turn.
THEOREM TranscriptWalksThePlan ==
  ASSUME ~EarlyTurns
  PROVE  Spec => []PhasesWalkThePlan
<1>1. IInv /\ TranscriptInv => PhasesWalkThePlan
  <2> SUFFICES ASSUME IInv, TranscriptInv, row.status # "absent"
               PROVE  PhasesWalkThePlan
    BY DEF PhasesWalkThePlan
  <2> DEFINE At(i) == CHOOSE k \in DOMAIN row.plan :
                        row.plan[k] = row.transcript[i].phase
             Reached == IF row.status = "completed" THEN row.pos ELSE row.pos - 1
  <2>1. Walked(row) /\ row.pos \in Nat
    BY DEF TranscriptInv, StoryInv, IInv, TypeOK, Row
  <2>2. /\ \A i \in DOMAIN row.transcript : At(i) \in 1..row.pos
        /\ \A i, j \in DOMAIN row.transcript : i < j => At(i) <= At(j)
        /\ \A k \in 1..Reached : \E i \in DOMAIN row.transcript :
             At(i) = k /\ row.transcript[i].turn # 0
    BY <2>1, Zenon DEF Walked, Index
  <2>3. \A i \in DOMAIN row.transcript : At(i) <= row.pos
    <3> HIDE DEF At
    <3> QED
      BY <2>1, <2>2
  <2> QED
    BY <2>2, <2>3, Zenon DEF PhasesWalkThePlan
<1> QED
  BY <1>1, TranscriptInvariance, PTL

\* A phase over 1.5 times its budget takes at most one more turn.
THEOREM OverrunPhaseCloses ==
  ASSUME ~EarlyTurns
  PROVE  Spec => []OverrunClosesPhase
<1>1. IInv /\ TranscriptInv => OverrunClosesPhase
  <2> SUFFICES ASSUME IInv, TranscriptInv,
                      NEW i \in DOMAIN row.transcript, NEW j \in DOMAIN row.transcript,
                      i < j, row.transcript[i].late
               PROVE  row.transcript[i].phase # row.transcript[j].phase
    BY DEF OverrunClosesPhase
  <2>1. row.status # "absent"
    BY BareNoRow DEF TranscriptInv, StoryInv
  <2>2. Walked(row)
    BY <2>1 DEF TranscriptInv, StoryInv
  <2> DEFINE A == Index(row.plan, row.transcript[i].phase)
             B == Index(row.plan, row.transcript[j].phase)
  <2>3. A < B /\ A \in Nat
    BY <2>2 DEF Walked
  <2> QED
    BY <2>3
<1> QED
  BY <1>1, TranscriptInvariance, PTL

\* The row's red flag and hint counters are those of its transcript.
THEOREM CountersAreTallies ==
  ASSUME ~EarlyTurns
  PROVE  Spec => []CountersMatchTranscript
<1>1. IInv /\ TranscriptInv => CountersMatchTranscript
  BY DEF TranscriptInv, StoryInv, CountersMatchTranscript, Occurrences, Tallied,
     FlaggedAt, HintedAt
<1> QED
  BY <1>1, TranscriptInvariance, PTL

\* Every turn acknowledged to the client is in the stored transcript, once, behind the
\* opening: true of the code for clients that wait for the start request's answer (the
\* run turns_early_lost shows that the others may lose one).
THEOREM AnsweredTurnsAreKept ==
  ASSUME ~EarlyTurns
  PROVE  Spec => []NoAnsweredTurnLost
<1>1. IInv /\ TranscriptInv => NoAnsweredTurnLost
  <2> SUFFICES ASSUME IInv, TranscriptInv, row.status # "absent"
               PROVE  NoAnsweredTurnLost
    BY DEF NoAnsweredTurnLost
  <2>1. CASE startPc = "answered"
    <3>1. Keeps(row.transcript, answered)
      BY <2>1 DEF TranscriptInv, StoredInv
    <3>2. \A n \in answered : n # 0
      BY DEF TranscriptInv, TurnsInv, IInv, TypeOK
    <3>3. \A i \in DOMAIN row.transcript : row.transcript[i].turn = 0 => i = 1
      BY <3>1, <3>2 DEF Keeps
    <3> QED
      BY <3>1, <3>3 DEF Keeps, NoAnsweredTurnLost
  <2>2. CASE startPc # "answered"
    <3>1. answered = {}
      BY <2>2, NoTurnYet DEF TranscriptInv
    <3>2. row.transcript = <<>>
      BY <2>2 DEF TranscriptInv, StoryInv
    <3> QED
      BY <3>1, <3>2 DEF NoAnsweredTurnLost
  <2> QED
    BY <2>1, <2>2
<1> QED
  BY <1>1, TranscriptInvariance, PTL

\* No turn touches a finished interview, whoever posts what and when: what still may is
\* its deletion, and the late second commit of the start request.
THEOREM FinishedStays == Spec => FinishedIsFinal
<1> DEFINE LateOpening ==
             /\ startPc = "storing"
             /\ row' = [row EXCEPT !.transcript = <<Opening(row.plan)>>,
                                   !.pool = openingPool]
<1>1. IInv /\ [Next]_vars =>
        [row.status \in Finished => row'.status = "absent" \/ LateOpening]_row
  <2> SUFFICES ASSUME IInv, [Next]_vars, row' # row, row.status \in Finished
               PROVE  row'.status = "absent" \/ LateOpening
    OBVIOUS
  <2>1. ~StartCreates
    BY DEF StartCreates, IInv, LockInv, Finished
  <2>2. StoresOpening => LateOpening
    BY DEF StoresOpening
  <2>3. ASSUME NEW h \in Handlers, TurnCommits(h) PROVE FALSE
    BY <2>3, TurnCommitsGrows DEF Grows, Active, Finished
  <2> HIDE DEF LateOpening
  <2> QED
    BY <2>1, <2>2, <2>3, RowMoves, BareNoRow
<1> QED
  BY <1>1, Invariance, PTL DEF Spec, FinishedIsFinal

\* The only answered turns a stored transcript may lack are those the start request
\* stored its opening over: with no hypothesis on who posts when, on crashes or on what
\* fails.
THEOREM LaterTurnsStay == Spec => []LaterTurnsKept
<1>1. Init => IInv /\ TurnsInv /\ LaterInv
  BY InitInv, InitTranscript DEF TranscriptInv
<1>2. (IInv /\ TurnsInv /\ LaterInv) /\ [Next]_vars => (IInv /\ TurnsInv /\ LaterInv)'
  BY NextInv, TurnsStep, LaterStep
<1>3. IInv /\ TurnsInv /\ LaterInv => LaterTurnsKept
  <2> SUFFICES ASSUME IInv, TurnsInv, LaterInv, row.status # "absent"
               PROVE  LaterTurnsKept
    BY DEF LaterTurnsKept
  <2>1. Holds(row.transcript, answered, overwritten)
    BY DEF LaterInv
  <2>2. \A n \in answered : n # 0
    BY DEF TurnsInv, IInv, TypeOK
  <2> QED
    BY <2>1, <2>2 DEF Holds, LaterTurnsKept
<1> QED
  BY <1>1, <1>2, <1>3, PTL DEF Spec

Disjoint(r) == \A p, q \in Phase : p # q => r.asked[p] \cap r.asked[q] = {}

\* A step keeps the batches disjoint, and those drawn as they are.
LEMMA BatchesStep ==
  ASSUME IInv, Disjoint(row), [Next]_vars
  PROVE  /\ Disjoint(row')
         /\ row.status # "absent" /\ row'.status # "absent" =>
              \A p \in Phase : row.asked[p] # {} => row'.asked[p] = row.asked[p]
<1> DEFINE Settled(r, s) == \A p \in Phase : r.asked[p] # {} => s.asked[p] = r.asked[p]
<1>1. row \in Row
  BY DEF IInv, TypeOK
<1>2. Disjoint(NoRow) /\ NoRow.status = "absent"
  BY DEF NoRow, NewRow, Disjoint
<1>3. ASSUME StartCreates PROVE Disjoint(row') /\ row.status = "absent"
  BY <1>3 DEF StartCreates, NewRow, Disjoint, IInv, LockInv
<1>4. ASSUME StoresOpening PROVE Disjoint(row') /\ Settled(row, row')
  <2>1. row'.asked = row.asked
    BY <1>1, <1>4 DEF StoresOpening, Row
  <2> QED
    BY <2>1 DEF Disjoint
<1>5. ASSUME NEW h \in Handlers, TurnCommits(h)
      PROVE  Disjoint(row') /\ Settled(row, row')
  <2>1. row'.asked = WithBatch(row).asked
    BY <1>5, TurnCommitsGrows DEF Grows
  <2>2. row.asked \in [Phase -> SUBSET Question]
    BY <1>1 DEF Row
  <2> DEFINE here == CurrentPhase(row)
  <2>3. CASE here \in BankPhases /\ row.asked[here] = {}
    <3>1. row'.asked = [row.asked EXCEPT ![here] = FreshBatch(row)]
      BY <1>1, <2>1, <2>3 DEF WithBatch, Row
    <3>2. \A p \in Phase : FreshBatch(row) \cap row.asked[p] = {}
      BY DEF FreshBatch, UsedElsewhere
    <3> HIDE DEF here
    <3> QED
      BY <2>2, <2>3, <3>1, <3>2 DEF Disjoint
  <2>4. CASE ~(here \in BankPhases /\ row.asked[here] = {})
    BY <2>1, <2>4 DEF WithBatch, Disjoint
  <2> QED
    BY <2>3, <2>4
<1> HIDE DEF Settled
<1>6. Settled(row, row)
  BY DEF Settled
<1>7. Disjoint(row') /\ (row.status # "absent" /\ row'.status # "absent" => Settled(row, row'))
  BY <1>2, <1>3, <1>4, <1>5, <1>6, RowMoves
<1> QED
  BY <1>7 DEF Settled

\* Each phase draws its questions once, and no two phases draw the same, whoever posts
\* what and when.
THEOREM BatchesAreSettled == Spec => BatchesSettled
<1> DEFINE BInv == Disjoint(row) /\ (row.status = "absent" => row = NoRow)
<1>1. Init => BInv
  BY DEF Init, NoRow, NewRow, Disjoint
<1>2. IInv /\ BInv /\ [Next]_vars => BInv'
  <2> SUFFICES ASSUME IInv, BInv, [Next]_vars PROVE BInv'
    OBVIOUS
  <2>1. ASSUME StartCreates \/ StoresOpening PROVE row'.status # "absent"
    <3>1. row \in Row
      BY DEF IInv, TypeOK
    <3>2. CASE StartCreates
      BY <3>2 DEF StartCreates, NewRow
    <3>3. CASE StoresOpening
      BY <3>1, <3>3 DEF StoresOpening, Row
    <3> QED
      BY <2>1, <3>2, <3>3
  <2>2. ASSUME NEW h \in Handlers, TurnCommits(h) PROVE row'.status # "absent"
    BY <2>2, TurnCommitsGrows DEF Grows
  <2> QED
    BY <2>1, <2>2, BatchesStep, RowMoves
<1>3. IInv /\ BInv /\ [Next]_vars =>
        [\A p, q \in Phase :
           /\ row.asked[p] # {} /\ row'.status # "absent" => row'.asked[p] = row.asked[p]
           /\ p # q => row'.asked[p] \cap row'.asked[q] = {}]_row
  <2>1. NoRow.asked = [p \in Phase |-> {}]
    BY DEF NoRow, NewRow
  <2> QED
    BY <2>1, BatchesStep DEF Disjoint
<1> QED
  BY <1>1, <1>2, <1>3, Invariance, PTL DEF Spec, BatchesSettled
-----------------------------------------------------------------------------
(* The requests implement the life cycle.                                  *)

SaidOf(r) == IF r.transcript = <<>> THEN <<>> ELSE SaidIn(r.transcript)

\* The stored turns grow by one.
LEMMA SaidGrows ==
  ASSUME NEW t \in Seq(Exchange), t # <<>>, NEW e \in Exchange
  PROVE  SaidIn(Append(t, e)) = Append(SaidIn(t), e.turn)
<1> DEFINE u == Append(t, e)
           n == Len(t)
<1>1. /\ n \in Nat /\ Len(u) = n + 1
      /\ \A i \in 1..n : u[i] = t[i]
      /\ u[n + 1] = e
  OBVIOUS
<1>2. n > 0
  OBVIOUS
<1>3. \A i \in 1..(n - 1) : t[i + 1].turn \in Nat
  <2> TAKE i \in 1..(n - 1)
  <2>1. t[i + 1] \in Exchange
    BY <1>1
  <2> QED
    BY <2>1 DEF Exchange
<1>4. SaidIn(t) \in Seq(Nat) /\ Len(SaidIn(t)) = n - 1 /\ e.turn \in Nat
  <2>1. SaidIn(t) = [i \in 1..(n - 1) |-> t[i + 1].turn]
    BY DEF SaidIn
  <2>2. SaidIn(t) \in [1..(n - 1) -> Nat]
    BY <1>3, <2>1
  <2>3. n - 1 \in Nat
    BY <1>1, <1>2
  <2> QED
    BY <2>2, <2>3 DEF Exchange
<1>5. SaidIn(u) = [i \in 1..n |-> u[i + 1].turn]
  BY <1>1 DEF SaidIn
<1>6. /\ Append(SaidIn(t), e.turn) \in [1..n -> Nat]
      /\ \A i \in 1..(n - 1) : Append(SaidIn(t), e.turn)[i] = t[i + 1].turn
      /\ Append(SaidIn(t), e.turn)[n] = e.turn
  <2>1. \A i \in 1..(n - 1) : SaidIn(t)[i] = t[i + 1].turn
    BY DEF SaidIn
  <2>2. \A s \in Seq(Nat), x \in Nat :
          /\ Append(s, x) \in [1..(Len(s) + 1) -> Nat]
          /\ \A i \in 1..Len(s) : Append(s, x)[i] = s[i]
          /\ Append(s, x)[Len(s) + 1] = x
    <3> TAKE s \in Seq(Nat), x \in Nat
    <3>1. /\ Append(s, x) \in Seq(Nat) /\ Len(Append(s, x)) = Len(s) + 1
          /\ \A i \in 1..Len(s) : Append(s, x)[i] = s[i]
          /\ Append(s, x)[Len(s) + 1] = x
      BY AppendProperties
    <3>2. \A q \in Seq(Nat) : q \in [1..Len(q) -> Nat]
      BY LenProperties
    <3>3. Append(s, x) \in [1..Len(Append(s, x)) -> Nat]
      BY <3>1, <3>2, Zenon
    <3>4. Append(s, x) \in [1..(Len(s) + 1) -> Nat]
      BY <3>1, <3>3, Zenon
    <3> QED
      BY <3>1, <3>4
  <2> DEFINE s == SaidIn(t)
             x == e.turn
  <2>3. s \in Seq(Nat) /\ Len(s) = n - 1 /\ x \in Nat /\ n - 1 \in Nat
    BY <1>1, <1>2, <1>4
  <2>4. (n - 1) + 1 = n
    BY <1>1
  <2> HIDE DEF s, n, x
  <2>5. /\ Append(s, x) \in [1..n -> Nat]
        /\ \A i \in 1..(n - 1) : Append(s, x)[i] = s[i]
        /\ Append(s, x)[n] = x
    BY <2>2, <2>3, <2>4
  <2> QED
    BY <2>1, <2>5 DEF s, x
<1> HIDE DEF u, n
<1>7. \A i \in 1..n : u[i + 1].turn = Append(SaidIn(t), e.turn)[i]
  <2> DEFINE v == Append(SaidIn(t), e.turn)
  <2> HIDE DEF v
  <2> SUFFICES \A i \in 1..n : u[i + 1].turn = v[i]
    BY DEF v
  <2>3. /\ \A i \in 1..(n - 1) : v[i] = t[i + 1].turn
        /\ v[n] = e.turn
    BY <1>6 DEF v
  <2> TAKE i \in 1..n
  <2>1. CASE i = n
    BY <1>1, <2>1, <2>3
  <2>2. CASE i \in 1..(n - 1)
    <3>1. i + 1 \in 1..n
      BY <1>1, <2>2
    <3> QED
      BY <1>1, <2>2, <2>3, <3>1
  <2> QED
    BY <1>1, <2>1, <2>2
<1> QED
  BY <1>5, <1>6, <1>7 DEF u

LEMMA InitImplements == Init => Lifecycle!Init
BY BareNoRow DEF Init, Lifecycle!Init, StageOf

\* Creating the session sets the interview up.
LEMMA StartCreatesImplements ==
  ASSUME IInv, TranscriptInv, StartCreates
  PROVE  Lifecycle!Create
<1>1. row.transcript = <<>> /\ startPc = "idle" /\ startPc' = "opening"
  BY DEF StartCreates, TranscriptInv, StoryInv
<1>2. row'.transcript = <<>> /\ row'.status = "in_progress"
  BY DEF StartCreates, NewRow
<1>3. answered' = answered
  BY DEF StartCreates, turnVars
<1> QED
  BY <1>1, <1>2, <1>3 DEF Lifecycle!Create, StageOf

\* Storing the opening makes it live.
LEMMA StoresOpeningImplements ==
  ASSUME IInv, TranscriptInv, StoresOpening
  PROVE  Lifecycle!Open
<1>1. /\ row \in Row /\ row.status \in Status
      /\ row.transcript = <<>> /\ row.status \notin Finished /\ row.status # "absent"
  BY DEF StoresOpening, TranscriptInv, StoryInv, IInv, TypeOK, Row
<1>2. row.status = "in_progress"
  BY <1>1 DEF Status, Finished
<1> DEFINE u == <<Opening(row.plan)>>
<1>3. u # <<>> /\ SaidIn(u) = <<>>
  BY DEF SaidIn
<1> HIDE DEF u
<1>4. row'.transcript = u /\ row'.status = "in_progress"
  BY <1>1, <1>2 DEF StoresOpening, Row, u
<1>5. startPc # "idle" /\ startPc' # "idle" /\ answered' = answered
  BY DEF StoresOpening, turnVars
<1> QED
  BY <1>1, <1>2, <1>3, <1>4, <1>5 DEF Lifecycle!Open, StageOf, Active

\* Committing a turn stores and acknowledges it.
LEMMA TurnCommitsImplements ==
  ASSUME IInv, TranscriptInv, NEW h \in Handlers, TurnCommits(h)
  PROVE  Lifecycle!Exchange
<1> PICK e \in Exchange : e.turn = work[h].turn /\ Grows(row, row', e)
  BY TurnCommitsGrows
<1>1. pc[h] # "idle" /\ answered' = answered \cup {e.turn} /\ UNCHANGED startPc
  BY DEF TurnCommits, startVars
<1>2. /\ e.turn \in (1..MaxTurns) \ answered
      /\ startPc = "answered"
  BY <1>1, NoTurnYet, LimitsAssumption DEF TranscriptInv, TurnsInv, IInv, TypeOK
<1>3. /\ row.status = "in_progress" /\ row'.status # "absent"
      /\ row.transcript # <<>> /\ row.transcript \in Seq(Exchange)
  BY <1>2 DEF Grows, Active, TranscriptInv, StoredInv, Keeps, IInv, TypeOK, Row
<1>4. /\ row'.transcript = Append(row.transcript, e) /\ row'.transcript # <<>>
      /\ SaidIn(row'.transcript) = Append(SaidIn(row.transcript), e.turn)
  BY <1>3, SaidGrows, Appended, SMTT(30) DEF Grows
<1>5. StageOf = "live" /\ StageOf' \in {"live", "over"}
  BY <1>1, <1>2, <1>3, <1>4 DEF StageOf, Active
<1> QED
  BY <1>1, <1>2, <1>3, <1>4, <1>5 DEF Lifecycle!Exchange

\* The row is gone: the session is deleted, or there was none.
LEMMA RowGoneImplements ==
  ASSUME IInv, TranscriptInv, row' = NoRow, startPc # "idle", startPc' # "idle",
         UNCHANGED answered
  PROVE  Lifecycle!Delete \/ UNCHANGED Lifecycle!vars
<1>1. StageOf' = "gone" /\ row'.transcript = <<>>
  BY BareNoRow DEF StageOf
<1>2. CASE row.status = "absent"
  <2>1. row = NoRow
    BY <1>2 DEF TranscriptInv, StoryInv
  <2>2. StageOf = "gone"
    BY <1>2 DEF StageOf
  <2> QED
    BY <1>1, <2>1, <2>2 DEF Lifecycle!vars
<1>3. CASE row.status # "absent"
  BY <1>1, <1>3 DEF Lifecycle!Delete, StageOf
<1> QED
  BY <1>2, <1>3

LEMMA StepImplements ==
  ASSUME ~EarlyTurns, IInv, TranscriptInv, [Next]_vars
  PROVE  [Lifecycle!Next]_(Lifecycle!vars)
<1>1. CASE StartCreates
  BY <1>1, StartCreatesImplements DEF Lifecycle!Next
<1>2. CASE StoresOpening
  BY <1>2, StoresOpeningImplements DEF Lifecycle!Next
<1>3. CASE \E h \in Handlers : TurnCommits(h)
  BY <1>3, TurnCommitsImplements DEF Lifecycle!Next
<1>4. CASE /\ ~StartCreates /\ ~StoresOpening
           /\ ~ \E h \in Handlers : TurnCommits(h)
  <2>1. UNCHANGED row \/ row' = NoRow
    BY <1>4, RowMoves
  <2>2. UNCHANGED answered
    BY <1>4, TurnMoves DEF TurnArrives
  <2>3. startPc = "idle" <=> startPc' = "idle"
    <3>1. startPc = "idle" => UNCHANGED startPc
      BY <1>4 DEF Next, StartNext, OpeningSucceeds, OpeningFails, StartStores,
         StartStoreFails, StartDiscards, StartDiscardFails, TurnNext, TurnArrives, TurnRejected, TurnLocks, ModelAnswers,
         ModelFails, TurnLogs, TurnRollsBack, OwnerDeletes, PhaseOverruns, Crash,
         StartInFlight, startVars, vars
    <3> QED
      BY <1>4, <3>1, StartMoves
  <2>4. CASE UNCHANGED row
    BY <2>2, <2>3, <2>4 DEF Lifecycle!vars, StageOf, Active
  <2>5. CASE row' = NoRow /\ startPc # "idle"
    BY <2>2, <2>3, <2>5, RowGoneImplements DEF Lifecycle!Next
  <2>6. CASE row' = NoRow /\ startPc = "idle"
    <3>1. row = NoRow
      BY <2>6 DEF IInv, LockInv, TranscriptInv, StoryInv
    <3> QED
      BY <2>4, <2>6, <3>1
  <2> QED
    BY <2>1, <2>4, <2>5, <2>6
<1> QED
  BY <1>1, <1>2, <1>3, <1>4

\* For clients that wait for the start request's answer, every behaviour of the
\* requests, locks and rows is one of the promised life cycle.
THEOREM LifecycleImplemented ==
  ASSUME ~EarlyTurns
  PROVE  Spec => ImplementsLifecycle
<1>1. IInv /\ TranscriptInv /\ [Next]_vars => [Lifecycle!Next]_(Lifecycle!vars)
  BY StepImplements
<1> QED
  BY <1>1, InitImplements, TranscriptInvariance, PTL
     DEF Spec, ImplementsLifecycle, Lifecycle!Spec
=============================================================================
