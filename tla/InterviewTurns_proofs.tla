------------------------ MODULE InterviewTurns_proofs -----------------------
(***************************************************************************)
(* Theorems about InterviewTurns, for every set of handlers, phases, plans *)
(* and verdicts and every value of the limits.                             *)
(***************************************************************************)
EXTENDS InterviewTurns, TLAPS

-----------------------------------------------------------------------------
(* What the operators on rows preserve.                                    *)

LEMMA NewRowType ==
  ASSUME NEW plan \in Seq(Phase), NEW timed \in BOOLEAN
  PROVE  NewRow(plan, timed) \in Row
BY DEF NewRow, Row, Status, EndReason

LEMMA NoRowType == NoRow \in Row
<1>1. <<>> \in Seq(Phase) /\ FALSE \in BOOLEAN
  OBVIOUS
<1>2. NewRow(<<>>, FALSE) \in Row
  BY <1>1, NewRowType
<1> QED
  BY <1>2 DEF NoRow, Row, Status

LEMMA WithBatchRow ==
  ASSUME NEW r \in Row
  PROVE  /\ WithBatch(r) \in Row
         /\ WithBatch(r) = [r EXCEPT !.asked = WithBatch(r).asked]
<1>1. FreshBatch(r) \in SUBSET Question
  BY DEF FreshBatch, Question, Row
<1>2. [r.asked EXCEPT ![CurrentPhase(r)] = FreshBatch(r)] \in [Phase -> SUBSET Question]
  BY <1>1 DEF Row
<1> QED
  BY <1>2 DEF WithBatch, Row

LEMMA FlaggedType ==
  ASSUME NEW r \in Row, NEW v \in Verdict
  PROVE  Flagged(r, v) \in Row
<1> DEFINE n == IF v.flag = "none" THEN r.redFlags ELSE r.redFlags + 1
           w == r.warned \/ Severe(v) \/ Warns(r, v)
           s == IF Severe(v) \/ EndsEarly(r, v) THEN "ended_early" ELSE r.status
           e == IF Severe(v) THEN "abusive_language"
                ELSE IF EndsEarly(r, v) THEN "red_flag_threshold" ELSE r.endReason
<1>1. n \in Nat /\ s \in Status /\ e \in EndReason
  BY DEF Row, Verdict, Status, EndReason
<1>2. w \in BOOLEAN
  <2>1. r.warned \in BOOLEAN
    BY DEF Row
  <2>2. Severe(v) \in BOOLEAN /\ Warns(r, v) \in BOOLEAN
    BY Zenon DEF Severe, Warns
  <2> QED
    BY <2>1, <2>2, Zenon
<1>3. Flagged(r, v) = [r EXCEPT !.redFlags = n, !.warned = w, !.status = s, !.endReason = e]
  BY DEF Flagged
<1> HIDE DEF n, w, s, e
<1> QED
  BY <1>1, <1>2, <1>3 DEF Row

LEMMA HintedType ==
  ASSUME NEW r \in Row, NEW v \in Verdict, CurrentPhase(r) \in Phase
  PROVE  Hinted(r, v) \in Row
<1> DEFINE p == CurrentPhase(r)
           hints == [r.hints EXCEPT ![p] = r.hints[p] + 1]
<1>1. r.hints \in [Phase -> Nat]
  BY DEF Row
<1>2. hints \in [Phase -> Nat]
  <2> HIDE DEF p
  <2>1. r.hints[p] + 1 \in Nat
    BY <1>1 DEF p
  <2> QED
    BY <1>1, <2>1
<1>3. Hinted(r, v) = IF v.hint THEN [r EXCEPT !.hints = hints] ELSE r
  BY DEF Hinted, Row
<1> HIDE DEF hints
<1> QED
  BY <1>2, <1>3 DEF Row

LEMMA RecordedType ==
  ASSUME NEW r \in Row, NEW exchange \in Exchange
  PROVE  Recorded(r, exchange) \in Row
<1> DEFINE transcript == Append(r.transcript, exchange)
<1>1. transcript \in Seq(Exchange)
  BY DEF Row
<1>2. Recorded(r, exchange) = [r EXCEPT !.transcript = transcript]
  BY DEF Recorded
<1> HIDE DEF transcript
<1> QED
  BY <1>1, <1>2 DEF Row

LEMMA AdvancedType ==
  ASSUME NEW r \in Row, NEW v \in Verdict, NEW force \in BOOLEAN
  PROVE  Advanced(r, v, force) \in Row
<1>1. CASE ~Ends(r, v, force)
  BY <1>1 DEF Advanced
<1>2. CASE Ends(r, v, force) /\ r.pos < Len(r.plan)
  <2>1. Advanced(r, v, force) = [r EXCEPT !.pos = r.pos + 1]
    BY <1>2 DEF Advanced
  <2>2. r.pos + 1 \in Nat
    BY DEF Row
  <2> QED
    BY <2>1, <2>2 DEF Row
<1>3. CASE Ends(r, v, force) /\ ~(r.pos < Len(r.plan))
  <2>1. Advanced(r, v, force) = [r EXCEPT !.status = "completed"]
    BY <1>3 DEF Advanced
  <2> QED
    BY <2>1 DEF Row, Status
<1> QED
  BY <1>1, <1>2, <1>3

\* What a turn leaves in the session row: s is the row it commits, r the row it loaded.
TurnLeaves(r, s, turn, v, calls, force) ==
  /\ s \in Row
  /\ s.status # "absent"
  /\ s.plan = r.plan
  /\ s.pos \in 1..Len(s.plan)
  /\ s.github = r.github + calls
  /\ \E e \in Exchange :
       /\ e.turn = turn /\ e.phase = CurrentPhase(r)
       /\ e.flag = v.flag /\ e.hint = v.hint /\ e.late = force
       /\ s.transcript = Append(r.transcript, e)
  /\ \A p \in Phase :
       s.hints[p] = IF v.hint /\ p = CurrentPhase(r) THEN r.hints[p] + 1 ELSE r.hints[p]
  /\ s.asked = r.asked
  /\ \/ s.pos = r.pos /\ s.status # "completed" /\ (Active(s) => ~force)
     \/ s.pos = r.pos + 1 /\ Active(s)
     \/ s.pos = r.pos /\ s.status = "completed"
  /\ s.redFlags = Flagged(r, v).redFlags
  /\ s.warned = Flagged(r, v).warned
  /\ s.endReason = Flagged(r, v).endReason
  /\ Active(s) => Active(Flagged(r, v))

LEMMA AfterTurnRow ==
  ASSUME NEW r \in Row, Active(r), r.pos \in 1..Len(r.plan),
         NEW turn \in Nat, NEW v \in Verdict, NEW calls \in Nat, NEW force \in BOOLEAN
  PROVE  TurnLeaves(r, AfterTurn(r, turn, v, calls, force), turn, v, calls, force)
<1> DEFINE e == [turn |-> turn, phase |-> CurrentPhase(r), flag |-> v.flag,
                 hint |-> v.hint, notice |-> NoticeFor(r, v), late |-> force]
           a == [r EXCEPT !.github = r.github + calls]
           b == Flagged(a, v)
           c == Hinted(b, v)
           d == Recorded(c, e)
           s == Advanced(d, v, force)
<1>1. AfterTurn(r, turn, v, calls, force) = s
  BY DEF AfterTurn
<1>2. CurrentPhase(r) \in Phase
  BY DEF CurrentPhase, Row
<1>3. e \in Exchange
  BY <1>2 DEF Exchange, Verdict, NoticeFor, Notice
<1>4. a \in Row
  <2>1. r.github + calls \in Nat
    BY DEF Row
  <2> QED
    BY <2>1 DEF Row
<1>5. /\ b \in Row
      /\ b.plan = r.plan /\ b.pos = r.pos /\ b.transcript = r.transcript
      /\ b.github = r.github + calls
      /\ b.hints = r.hints /\ b.asked = r.asked
      /\ b.status # "completed"
      /\ b.redFlags = Flagged(r, v).redFlags /\ b.warned = Flagged(r, v).warned
      /\ b.endReason = Flagged(r, v).endReason /\ b.status = Flagged(r, v).status
      /\ b.status # "absent"
  <2>1. b \in Row
    BY <1>4, FlaggedType
  <2>2. /\ a.plan = r.plan /\ a.pos = r.pos /\ a.transcript = r.transcript
        /\ a.redFlags = r.redFlags /\ a.warned = r.warned
        /\ a.endReason = r.endReason /\ a.status = r.status
        /\ a.github = r.github + calls
        /\ a.hints = r.hints /\ a.asked = r.asked
    BY DEF Row
  <2> HIDE DEF a
  <2>3. /\ b.plan = a.plan /\ b.pos = a.pos /\ b.transcript = a.transcript
        /\ b.github = a.github /\ b.hints = a.hints /\ b.asked = a.asked
    BY <1>4 DEF Flagged, Row
  <2>4. Warns(a, v) = Warns(r, v) /\ EndsEarly(a, v) = EndsEarly(r, v)
    BY <2>2, Zenon DEF Warns, EndsEarly
  <2>5. /\ b.redFlags = IF v.flag = "none" THEN a.redFlags ELSE a.redFlags + 1
        /\ b.warned = (a.warned \/ Severe(v) \/ Warns(a, v))
        /\ b.endReason = IF Severe(v) THEN "abusive_language"
                         ELSE IF EndsEarly(a, v) THEN "red_flag_threshold"
                         ELSE a.endReason
        /\ b.status = IF Severe(v) \/ EndsEarly(a, v) THEN "ended_early" ELSE a.status
    BY <1>4, Zenon DEF Flagged, Row
  <2>6. /\ Flagged(r, v).redFlags = IF v.flag = "none" THEN r.redFlags ELSE r.redFlags + 1
        /\ Flagged(r, v).warned = (r.warned \/ Severe(v) \/ Warns(r, v))
        /\ Flagged(r, v).endReason = IF Severe(v) THEN "abusive_language"
                                     ELSE IF EndsEarly(r, v) THEN "red_flag_threshold"
                                     ELSE r.endReason
        /\ Flagged(r, v).status =
             IF Severe(v) \/ EndsEarly(r, v) THEN "ended_early" ELSE r.status
    BY Zenon DEF Flagged, Row
  <2>7. b.status # "absent" /\ b.status # "completed"
    BY <2>2, <2>5 DEF Active
  <2> QED
    BY <2>1, <2>2, <2>3, <2>4, <2>5, <2>6, <2>7
<1>6. /\ c \in Row
      /\ c = [b EXCEPT !.hints = c.hints]
      /\ \A p \in Phase :
           c.hints[p] = IF v.hint /\ p = CurrentPhase(r) THEN r.hints[p] + 1
                        ELSE r.hints[p]
  <2>1. CurrentPhase(b) \in Phase
    BY <1>2, <1>5 DEF CurrentPhase
  <2>2. c \in Row
    BY <1>5, <2>1, HintedType
  <2> HIDE DEF b
  <2>3. c = [b EXCEPT !.hints = c.hints]
    BY <1>5, <2>2 DEF Hinted, Row
  <2>4. CurrentPhase(b) = CurrentPhase(r)
    BY <1>5 DEF CurrentPhase
  <2>5. CASE v.hint
    <3>1. c.hints = [b.hints EXCEPT ![CurrentPhase(b)] = @ + 1]
      BY <1>5, <2>5 DEF Hinted, Row
    <3>2. b.hints \in [Phase -> Nat]
      BY <1>5 DEF Row
    <3> HIDE DEF c
    <3> QED
      BY <1>5, <2>2, <2>3, <2>4, <2>5, <3>1, <3>2
  <2>6. CASE ~v.hint
    BY <1>5, <2>2, <2>3, <2>6 DEF Hinted
  <2> QED
    BY <2>5, <2>6
<1>7. /\ d \in Row
      /\ d = [c EXCEPT !.transcript = Append(r.transcript, e)]
  <2> HIDE DEF c, e
  <2>1. d \in Row
    BY <1>3, <1>6, RecordedType
  <2>2. c.transcript = r.transcript
    BY <1>5, <1>6 DEF Row
  <2> QED
    BY <2>1, <2>2 DEF Recorded
<1>8. /\ s \in Row
      /\ s = [d EXCEPT !.pos = s.pos, !.status = s.status]
      /\ s.pos \in 1..Len(d.plan)
      /\ s.status # "absent"
      /\ Active(s) => d.status = "in_progress"
      /\ \/ s.pos = d.pos /\ s.status = d.status /\ (d.status = "in_progress" => ~force)
         \/ s.pos = d.pos + 1 /\ Active(s)
         \/ s.pos = d.pos /\ s.status = "completed"
  <2> HIDE DEF d
  <2>1. s \in Row
    BY <1>7, AdvancedType
  <2>2. d.pos \in 1..Len(d.plan) /\ d.status # "absent"
    BY <1>5, <1>6, <1>7 DEF Row
  <2>3. CASE ~Ends(d, v, force)
    <3>1. s = d
      BY <2>3 DEF Advanced
    <3>2. d.status = "in_progress" => ~force
      BY <2>3, Zenon DEF Ends
    <3> QED
      BY <1>7, <2>1, <2>2, <3>1, <3>2 DEF Row, Active
  <2>4. CASE Ends(d, v, force) /\ d.pos < Len(d.plan)
    <3>1. s = [d EXCEPT !.pos = d.pos + 1]
      BY <2>4 DEF Advanced
    <3>2. d.pos + 1 \in 1..Len(d.plan)
      <4>1. d.pos \in Nat /\ d.plan \in Seq(Phase)
        BY <1>7 DEF Row
      <4>2. Len(d.plan) \in Nat
        BY <4>1
      <4> QED
        BY <2>2, <2>4, <4>1, <4>2
    <3>3. d.status = "in_progress"
      BY <2>4 DEF Ends
    <3> QED
      BY <1>7, <2>1, <3>1, <3>2, <3>3 DEF Row, Active
  <2>5. CASE Ends(d, v, force) /\ ~(d.pos < Len(d.plan))
    <3>1. s = [d EXCEPT !.status = "completed"]
      BY <2>5 DEF Advanced
    <3> QED
      BY <1>7, <2>1, <2>2, <3>1 DEF Row, Active
  <2> QED
    BY <2>3, <2>4, <2>5
<1> HIDE DEF e, a, b, c, d, s
<1>9. /\ s.plan = r.plan /\ s.github = r.github + calls
      /\ s.transcript = Append(r.transcript, e)
      /\ s.redFlags = b.redFlags /\ s.warned = b.warned /\ s.endReason = b.endReason
      /\ d.plan = r.plan /\ d.status = b.status /\ d.pos = r.pos
      /\ s.hints = c.hints /\ s.asked = r.asked
  <2>1. /\ c.pos = b.pos /\ c.asked = b.asked
        /\ c.plan = b.plan /\ c.github = b.github /\ c.redFlags = b.redFlags
        /\ c.warned = b.warned /\ c.endReason = b.endReason /\ c.status = b.status
    BY <1>5, <1>6 DEF Row
  <2>2. /\ d.pos = c.pos /\ d.asked = c.asked /\ d.hints = c.hints
        /\ d.plan = c.plan /\ d.github = c.github /\ d.redFlags = c.redFlags
        /\ d.warned = c.warned /\ d.endReason = c.endReason /\ d.status = c.status
        /\ d.transcript = Append(r.transcript, e)
    BY <1>6, <1>7 DEF Row
  <2>3. /\ s.plan = d.plan /\ s.github = d.github /\ s.redFlags = d.redFlags
        /\ s.warned = d.warned /\ s.endReason = d.endReason
        /\ s.transcript = d.transcript /\ s.hints = d.hints /\ s.asked = d.asked
    BY <1>7, <1>8 DEF Row
  <2> QED
    BY <1>5, <2>1, <2>2, <2>3
<1>10. /\ e.turn = turn /\ e.phase = CurrentPhase(r)
       /\ e.flag = v.flag /\ e.hint = v.hint /\ e.late = force
  BY DEF e
<1>11. \A p \in Phase :
         s.hints[p] = IF v.hint /\ p = CurrentPhase(r) THEN r.hints[p] + 1 ELSE r.hints[p]
  BY <1>6, <1>9
<1>12. \/ s.pos = r.pos /\ s.status # "completed" /\ (Active(s) => ~force)
       \/ s.pos = r.pos + 1 /\ Active(s)
       \/ s.pos = r.pos /\ s.status = "completed"
  BY <1>5, <1>8, <1>9 DEF Active
<1> QED
  BY <1>1, <1>3, <1>5, <1>8, <1>9, <1>10, <1>11, <1>12 DEF Active, TurnLeaves

\* One more verdict keeps the count of flags, the warning and the end in step.
LEMMA FlaggedKeepsWarning ==
  ASSUME NEW r \in Row, Active(r), NEW v \in Verdict,
         r.redFlags <= Threshold, r.warned <=> r.redFlags = Threshold,
         r.endReason # "red_flag_threshold"
  PROVE  LET s == Flagged(r, v)
         IN  /\ Active(s) => /\ s.redFlags <= Threshold
                             /\ s.warned <=> s.redFlags = Threshold
             /\ s.endReason = "red_flag_threshold" =>
                  s.redFlags = Threshold + 1 /\ s.warned
<1> DEFINE s == Flagged(r, v)
<1> SUFFICES /\ Active(s) => s.redFlags <= Threshold /\ (s.warned <=> s.redFlags = Threshold)
             /\ s.endReason = "red_flag_threshold" =>
                  s.redFlags = Threshold + 1 /\ s.warned
  OBVIOUS
<1>1. /\ s.redFlags = IF v.flag = "none" THEN r.redFlags ELSE r.redFlags + 1
      /\ s.warned <=> (r.warned \/ Severe(v) \/ Warns(r, v))
      /\ s.endReason = IF Severe(v) THEN "abusive_language"
                       ELSE IF EndsEarly(r, v) THEN "red_flag_threshold"
                       ELSE r.endReason
      /\ s.status = IF Severe(v) \/ EndsEarly(r, v) THEN "ended_early" ELSE r.status
  BY Zenon DEF Flagged, Row
<1>2. r.redFlags \in Nat /\ Threshold \in Nat \ {0}
  BY LimitsAssumption DEF Row
<1>3. CASE Severe(v)
  BY <1>1, <1>3 DEF Active
<1>4. CASE v.flag = "none"
  <2>1. ~Severe(v) /\ ~Warns(r, v) /\ ~EndsEarly(r, v)
    BY <1>4 DEF Severe, Warns, EndsEarly
  <2> QED
    BY <1>1, <1>4, <2>1 DEF Active
<1>5. CASE v.flag = "red"
  <2> HIDE DEF s
  <2>1. /\ ~Severe(v)
        /\ Warns(r, v) <=> r.redFlags + 1 >= Threshold /\ ~r.warned
        /\ EndsEarly(r, v) <=> r.redFlags + 1 > Threshold /\ r.warned
    BY <1>5 DEF Severe, Warns, EndsEarly
  <2>2. s.redFlags = r.redFlags + 1
    BY <1>1, <1>5
  <2>3. CASE r.redFlags + 1 < Threshold
    <3>1. ~Warns(r, v) /\ ~EndsEarly(r, v) /\ ~r.warned
      BY <1>2, <2>1, <2>3
    <3>2. ~s.warned /\ s.endReason # "red_flag_threshold"
      BY <1>1, <2>1, <3>1, Zenon
    <3> QED
      BY <1>2, <2>2, <2>3, <3>2
  <2>4. CASE r.redFlags + 1 = Threshold
    <3>1. Warns(r, v) /\ ~EndsEarly(r, v)
      BY <1>2, <2>1, <2>4
    <3>2. s.warned /\ s.endReason # "red_flag_threshold"
      BY <1>1, <2>1, <3>1, Zenon
    <3> QED
      BY <1>2, <2>2, <2>4, <3>2
  <2>5. CASE r.redFlags = Threshold
    <3>1. r.warned /\ EndsEarly(r, v)
      BY <1>2, <2>1, <2>5
    <3>2. s.warned /\ ~Active(s)
      BY <1>1, <3>1 DEF Active
    <3> QED
      BY <1>2, <2>2, <2>5, <3>2
  <2> QED
    BY <1>2, <2>3, <2>4, <2>5
<1> QED
  BY <1>3, <1>4, <1>5 DEF Verdict, Flags, Severe

-----------------------------------------------------------------------------
(* The inductive invariant.                                                *)

\* A turn between its lock and its commit is alone, and works on the row as it is
\* stored: the fact every other conjunct leans on when a turn commits.
LockInv ==
  /\ startPc = "idle" => row.status = "absent"
  /\ row.status # "absent" => row.pos \in 1..Len(row.plan)
  /\ SnapshotIsCurrent
  /\ lock # NoOne => pc[lock] \in LockedStates

\* The calls a turn is about to charge were made, within what one turn may make.
GithubInv ==
  /\ GithubOvershootBounded
  /\ \A h \in Handlers :
       /\ pc[h] \in LockedStates /\ work[h].tools => row.github < GithubBudget
       /\ pc[h] \in {"logging", "deciding"} /\ ~work[h].failed =>
            /\ work[h].calls <= CallsPerTurn
            /\ ~work[h].tools => work[h].calls = 0
            /\ row.github + work[h].calls <= githubSpent

IInv == TypeOK /\ LockInv /\ WarnedAtThreshold /\ GithubInv

LEMMA NoWorkType == NoWork \in Work
BY NoRowType DEF NoWork, Work, NoVerdict, Verdict, Flags

LEMMA InitInv == Init => IInv
<1> SUFFICES ASSUME Init PROVE IInv
  OBVIOUS
<1> USE DEF Init
<1>1. TypeOK
  BY NoRowType, NoWorkType DEF TypeOK, StartStates, TurnStates
<1>2. NoRow.status = "absent" /\ NoRow.github = 0 /\ NoRow.endReason = "none"
  BY DEF NoRow, NewRow
<1>3. LockInv
  BY <1>2 DEF LockInv, SnapshotIsCurrent, LockedStates
<1>4. WarnedAtThreshold
  BY <1>2 DEF WarnedAtThreshold, Active
<1>5. GithubInv
  BY <1>2, LimitsAssumption DEF GithubInv, GithubOvershootBounded, LockedStates
<1> QED
  BY <1>1, <1>3, <1>4, <1>5 DEF IInv

-----------------------------------------------------------------------------
(* The steps that write the row while no turn holds it.                    *)

LEMMA NobodyLocked ==
  ASSUME IInv, RowFree, NEW h \in Handlers
  PROVE  pc[h] \notin LockedStates
BY ActorsAssumption DEF IInv, LockInv, SnapshotIsCurrent, RowFree

\* A step that leaves every turn where it was and nobody holding the row keeps the
\* invariant if the row it writes is in order.
LEMMA FreeRowWrite ==
  ASSUME IInv, UNCHANGED turnVars, lock' = NoOne,
         \A h \in Handlers : pc[h] \notin LockedStates,
         startPc' # "idle",
         row'.status # "absent" => row'.pos \in 1..Len(row'.plan),
         row'.github = row.github \/ row'.github = 0,
         WarnedAtThreshold'
  PROVE  LockInv' /\ WarnedAtThreshold' /\ GithubInv'
<1>1. \A h \in Handlers : pc'[h] \notin LockedStates
  BY DEF turnVars
<1>2. LockInv'
  BY <1>1 DEF LockInv, SnapshotIsCurrent
<1>3. GithubOvershootBounded'
  BY LimitsAssumption DEF IInv, GithubInv, GithubOvershootBounded, turnVars, TypeOK
<1>4. GithubInv'
  BY <1>1, <1>3 DEF GithubInv, LockedStates
<1> QED
  BY <1>2, <1>4

LEMMA StartCreatesInv == IInv /\ StartCreates => IInv'
<1> SUFFICES ASSUME IInv, StartCreates PROVE IInv'
  OBVIOUS
<1> PICK plan \in Plans, timed \in BOOLEAN : row' = NewRow(plan, timed)
  BY DEF StartCreates
<1>1. plan \in Seq(Phase) /\ Len(plan) > 0 /\ Len(plan) \in Nat
  <2>1. plan \in Seq(Phase) /\ Len(plan) > 0
    BY PlansAssumption
  <2> QED
    BY <2>1
<1>2. row' \in Row
  BY <1>1, NewRowType
<1>3. /\ row'.pos = 1 /\ row'.plan = plan /\ row'.github = 0
      /\ row'.status = "in_progress" /\ row'.endReason = "none"
      /\ row'.redFlags = 0 /\ row'.warned = FALSE
  BY DEF NewRow
<1>4. \A h \in Handlers : pc[h] \notin LockedStates
  BY DEF IInv, LockInv, SnapshotIsCurrent, StartCreates, Active
<1>5. lock' = NoOne
  BY <1>4 DEF IInv, TypeOK, LockInv, StartCreates
<1>6. TypeOK'
  BY <1>2 DEF IInv, TypeOK, StartCreates, StartStates, turnVars
<1>7. WarnedAtThreshold'
  BY <1>3, LimitsAssumption DEF WarnedAtThreshold, Active
<1>8. startPc' # "idle" /\ UNCHANGED turnVars
  BY DEF StartCreates
<1>9. LockInv' /\ WarnedAtThreshold' /\ GithubInv'
  BY <1>1, <1>3, <1>4, <1>5, <1>7, <1>8, FreeRowWrite
<1> QED
  BY <1>6, <1>9 DEF IInv

LEMMA StartStoresInv == IInv /\ StartStores => IInv'
<1> SUFFICES ASSUME IInv, StartStores PROVE IInv'
  OBVIOUS
<1>1. \A h \in Handlers : pc[h] \notin LockedStates
  BY NobodyLocked DEF StartStores
<1>2. lock' = NoOne /\ startPc' # "idle" /\ UNCHANGED turnVars
  BY DEF StartStores, RowFree
<1>3. /\ row' \in Row
      /\ row'.status = row.status /\ row'.pos = row.pos /\ row'.plan = row.plan
      /\ row'.github = row.github /\ row'.redFlags = row.redFlags
      /\ row'.warned = row.warned /\ row'.endReason = row.endReason
  <2>1. CASE row.status = "absent"
    BY <2>1 DEF StartStores, IInv, TypeOK
  <2>2. CASE row.status # "absent"
    <3>1. row \in Row /\ openingPool \in Nat
      BY DEF IInv, TypeOK
    <3>2. 1 \in DOMAIN row.plan
      <4>1. row.plan \in Seq(Phase)
        BY <3>1 DEF Row
      <4>2. row.pos \in 1..Len(row.plan)
        BY <2>2 DEF IInv, LockInv
      <4>3. Len(row.plan) \in Nat
        BY <4>1
      <4> QED
        BY <4>1, <4>2, <4>3
    <3>3. Opening(row.plan) \in Exchange
      <4>1. row.plan[1] \in Phase
        BY <3>1, <3>2 DEF Row
      <4> QED
        BY <4>1 DEF Opening, Exchange, Flags, Notice
    <3>4. <<Opening(row.plan)>> \in Seq(Exchange)
      BY <3>3
    <3>5. row' = [row EXCEPT !.transcript = <<Opening(row.plan)>>, !.pool = openingPool]
      BY <2>2 DEF StartStores
    <3> DEFINE transcript == <<Opening(row.plan)>>
    <3> HIDE DEF transcript
    <3>6. transcript \in Seq(Exchange) /\ row' = [row EXCEPT !.transcript = transcript,
                                                            !.pool = openingPool]
      BY <3>4, <3>5 DEF transcript
    <3> QED
      BY <3>1, <3>6 DEF Row
  <2> QED
    BY <2>1, <2>2
<1>4. TypeOK'
  BY <1>2, <1>3 DEF IInv, TypeOK, StartStores, StartStates, turnVars
<1>5. WarnedAtThreshold'
  BY <1>3 DEF IInv, WarnedAtThreshold, Active
<1>6. LockInv' /\ WarnedAtThreshold' /\ GithubInv'
  <2>1. row'.status # "absent" => row'.pos \in 1..Len(row'.plan)
    BY <1>3 DEF IInv, LockInv
  <2> QED
    BY <1>1, <1>2, <1>3, <1>5, <2>1, FreeRowWrite
<1> QED
  BY <1>4, <1>6 DEF IInv

\* The steps that delete the row, of the start request and of the owner.
LEMMA RowGoneInv == IInv /\ (StartDiscards \/ OwnerDeletes) => IInv'
<1> SUFFICES ASSUME IInv, StartDiscards \/ OwnerDeletes PROVE IInv'
  OBVIOUS
<1>1. \A h \in Handlers : pc[h] \notin LockedStates
  BY NobodyLocked DEF StartDiscards, OwnerDeletes
<1>2. /\ row' = NoRow /\ lock' = NoOne /\ UNCHANGED turnVars
      /\ startPc' # "idle" /\ startPc' \in StartStates
      /\ overrun' = FALSE /\ openingPool' = openingPool /\ overwritten' = overwritten
  BY DEF StartDiscards, OwnerDeletes, startVars, RowFree, IInv, LockInv, TypeOK,
         StartStates
<1>3. row'.status = "absent" /\ row'.github = 0 /\ row'.endReason = "none"
  BY <1>2 DEF NoRow, NewRow
<1>4. TypeOK'
  BY <1>2, NoRowType DEF IInv, TypeOK, turnVars
<1>5. WarnedAtThreshold'
  BY <1>3 DEF WarnedAtThreshold, Active
<1>6. LockInv' /\ WarnedAtThreshold' /\ GithubInv'
  BY <1>1, <1>2, <1>3, <1>5, FreeRowWrite
<1> QED
  BY <1>4, <1>6 DEF IInv

\* The steps that change neither the row nor any turn.
LEMMA QuietInv ==
  ASSUME IInv, OpeningSucceeds \/ OpeningFails \/ StartStoreFails \/ StartDiscardFails
                 \/ PhaseOverruns
  PROVE  IInv'
<1>1. /\ UNCHANGED <<row, lock, overwritten, pc, work, turns, answered, githubSpent>>
      /\ overrun' \in BOOLEAN /\ startPc' \in StartStates
      /\ openingPool' \in Nat
      /\ startPc' = "idle" => startPc = "idle"
  <2>1. CASE OpeningSucceeds
    BY <2>1, LimitsAssumption DEF OpeningSucceeds, turnVars, IInv, TypeOK, StartStates
  <2>2. CASE OpeningFails
    BY <2>2 DEF OpeningFails, turnVars, IInv, TypeOK, StartStates
  <2>3. CASE StartStoreFails
    BY <2>3 DEF StartStoreFails, turnVars, IInv, TypeOK, StartStates
  <2>4. CASE StartDiscardFails
    BY <2>4 DEF StartDiscardFails, turnVars, IInv, TypeOK, StartStates
  <2>5. CASE PhaseOverruns
    BY <2>5 DEF PhaseOverruns, turnVars, startVars, IInv, TypeOK
  <2> QED
    BY <2>1, <2>2, <2>3, <2>4, <2>5
<1>2. TypeOK'
  BY <1>1 DEF IInv, TypeOK
<1>3. LockInv'
  BY <1>1 DEF IInv, LockInv, SnapshotIsCurrent
<1>4. WarnedAtThreshold'
  BY <1>1 DEF IInv, WarnedAtThreshold
<1>5. GithubInv'
  BY <1>1 DEF IInv, GithubInv, GithubOvershootBounded
<1> QED
  BY <1>2, <1>3, <1>4, <1>5 DEF IInv

LEMMA CrashInv == IInv /\ Crash => IInv'
<1> SUFFICES ASSUME IInv, Crash PROVE IInv'
  OBVIOUS
<1>1. /\ lock' = NoOne /\ pc' = [h \in Handlers |-> "idle"]
      /\ work' = [h \in Handlers |-> NoWork]
      /\ UNCHANGED <<row, overrun, overwritten, turns, answered, githubSpent>>
      /\ openingPool' = 0 /\ startPc' \in StartStates
      /\ startPc' = "idle" => startPc = "idle"
  BY DEF Crash, IInv, TypeOK, StartStates
<1>2. TypeOK'
  BY <1>1, NoWorkType DEF IInv, TypeOK, TurnStates
<1>3. LockInv'
  BY <1>1 DEF IInv, LockInv, SnapshotIsCurrent, LockedStates
<1>4. WarnedAtThreshold'
  BY <1>1 DEF IInv, WarnedAtThreshold
<1>5. GithubInv'
  BY <1>1 DEF IInv, GithubInv, GithubOvershootBounded, LockedStates
<1> QED
  BY <1>2, <1>3, <1>4, <1>5 DEF IInv
-----------------------------------------------------------------------------
(* The steps of a turn.                                                    *)

\* A turn that holds no lock moves between the two states in which it holds none.
LEMMA UnlockedTurnInv ==
  ASSUME IInv, NEW h \in Handlers, pc[h] \notin LockedStates,
         NEW state \in TurnStates \ LockedStates, pc' = [pc EXCEPT ![h] = state],
         NEW w \in Work, work' = [work EXCEPT ![h] = w],
         turns' \in Nat,
         UNCHANGED <<row, lock, overrun, startVars, answered, githubSpent>>
  PROVE  IInv'
<1>1. TypeOK'
  BY DEF IInv, TypeOK, startVars
<1>2. /\ pc'[h] \notin LockedStates
      /\ \A k \in Handlers \ {h} : pc'[k] = pc[k] /\ work'[k] = work[k]
  BY DEF IInv, TypeOK
<1>3. LockInv'
  <2>1. lock # NoOne => lock \in Handlers /\ pc[lock] \in LockedStates
    BY DEF IInv, LockInv, TypeOK
  <2> QED
    BY <1>2, <2>1 DEF IInv, LockInv, SnapshotIsCurrent, startVars
<1>4. WarnedAtThreshold'
  BY DEF IInv, WarnedAtThreshold
<1>5. GithubInv'
  BY <1>2 DEF IInv, GithubInv, GithubOvershootBounded, LockedStates
<1> QED
  BY <1>1, <1>3, <1>4, <1>5 DEF IInv

LEMMA TurnArrivesInv ==
  ASSUME IInv, NEW h \in Handlers, TurnArrives(h)
  PROVE  IInv'
<1> DEFINE w == [work[h] EXCEPT !.turn = turns + 1]
<1>1. work[h] \in Work /\ turns + 1 \in Nat
  BY DEF IInv, TypeOK
<1>2. w \in Work
  BY <1>1 DEF Work
<1>3. work' = [work EXCEPT ![h] = w]
  BY DEF TurnArrives
<1>4. /\ pc[h] \notin LockedStates /\ pc' = [pc EXCEPT ![h] = "waiting"]
      /\ turns' \in Nat
      /\ UNCHANGED <<row, lock, overrun, startVars, answered, githubSpent>>
  BY <1>1 DEF TurnArrives, LockedStates
<1> HIDE DEF w
<1> QED
  BY <1>2, <1>3, <1>4, UnlockedTurnInv DEF TurnStates, LockedStates

LEMMA TurnRejectedInv ==
  ASSUME IInv, NEW h \in Handlers, TurnRejected(h)
  PROVE  IInv'
<1>1. /\ pc[h] \notin LockedStates /\ pc' = [pc EXCEPT ![h] = "idle"]
      /\ work' = [work EXCEPT ![h] = NoWork]
      /\ turns' \in Nat
      /\ UNCHANGED <<row, lock, overrun, startVars, answered, githubSpent>>
  BY DEF TurnRejected, Idle, LockedStates, IInv, TypeOK
<1> QED
  BY <1>1, NoWorkType, UnlockedTurnInv DEF TurnStates, LockedStates

LEMMA TurnLocksInv ==
  ASSUME IInv, NEW h \in Handlers, TurnLocks(h)
  PROVE  IInv'
<1> DEFINE w == [work[h] EXCEPT !.row = WithBatch(row), !.force = ForceComplete(row),
                                !.tools = GithubToolsAvailable(row)]
<1>1. work[h] \in Work /\ row \in Row
  BY DEF IInv, TypeOK
<1>2. WithBatch(row) \in Row
  BY <1>1, WithBatchRow
<1>3. ForceComplete(row) \in BOOLEAN /\ GithubToolsAvailable(row) \in BOOLEAN
  <2>1. row.timed \in BOOLEAN /\ overrun \in BOOLEAN
    BY <1>1 DEF Row, IInv, TypeOK
  <2> QED
    BY <2>1, Zenon DEF ForceComplete, GithubToolsAvailable
<1>4. w \in Work
  BY <1>1, <1>2, <1>3 DEF Work
<1>5. work' = [work EXCEPT ![h] = w]
  BY DEF TurnLocks
<1>6. w.row = WithBatch(row) /\ w.tools = GithubToolsAvailable(row)
  BY <1>1 DEF Work
<1> HIDE DEF w
<1>7. /\ \A k \in Handlers : pc[k] \notin LockedStates
      /\ pc' = [pc EXCEPT ![h] = "model"] /\ lock' = h
      /\ UNCHANGED <<row, overrun, startVars, turns, answered, githubSpent>>
      /\ Active(row)
  BY NobodyLocked DEF TurnLocks
<1>8. /\ pc'[h] = "model" /\ work'[h] = w
      /\ \A k \in Handlers \ {h} : pc'[k] \notin LockedStates
  BY <1>5, <1>7 DEF IInv, TypeOK
<1>9. TypeOK'
  BY <1>4, <1>5, <1>7 DEF IInv, TypeOK, TurnStates, startVars
<1>10. LockInv'
  <2>1. SnapshotIsCurrent'
    BY <1>6, <1>7, <1>8 DEF SnapshotIsCurrent, Active
  <2>2. pc'[lock'] \in LockedStates
    BY <1>7, <1>8 DEF LockedStates
  <2> QED
    BY <1>7, <2>1, <2>2 DEF IInv, LockInv, startVars
<1>11. WarnedAtThreshold'
  BY <1>7 DEF IInv, WarnedAtThreshold
<1>12. GithubInv'
  BY <1>6, <1>7, <1>8 DEF IInv, GithubInv, GithubOvershootBounded, GithubToolsAvailable,
     LockedStates
<1> QED
  BY <1>9, <1>10, <1>11, <1>12 DEF IInv
\* The turn that holds the lock moves on with it: w is its new in-memory state, with
\* the same row, and more GitHub calls may have been made.
LEMMA LockedTurnInv ==
  ASSUME IInv, NEW h \in Handlers, pc[h] \in LockedStates,
         NEW state \in LockedStates, pc' = [pc EXCEPT ![h] = state],
         NEW w \in Work, work' = [work EXCEPT ![h] = w],
         w.row = work[h].row, w.tools = work[h].tools,
         state \in {"logging", "deciding"} /\ ~w.failed =>
           /\ w.calls <= CallsPerTurn
           /\ ~w.tools => w.calls = 0
           /\ row.github + w.calls <= githubSpent',
         githubSpent' \in Nat, githubSpent' >= githubSpent,
         UNCHANGED <<row, lock, overrun, startVars, turns, answered>>
  PROVE  IInv'
<1>1. TypeOK'
  BY DEF IInv, TypeOK, startVars, TurnStates, LockedStates
<1>2. /\ pc'[h] = state /\ work'[h] = w
      /\ \A k \in Handlers \ {h} : pc'[k] = pc[k] /\ work'[k] = work[k]
  BY DEF IInv, TypeOK
<1>3. lock = h /\ \A k \in Handlers \ {h} : pc[k] \notin LockedStates
  BY DEF IInv, LockInv, SnapshotIsCurrent
<1>4. LockInv'
  <2>1. SnapshotIsCurrent'
    BY <1>2, <1>3 DEF IInv, LockInv, SnapshotIsCurrent, Active
  <2> QED
    BY <1>2, <1>3, <2>1 DEF IInv, LockInv, startVars
<1>5. WarnedAtThreshold'
  BY DEF IInv, WarnedAtThreshold
<1>6. GithubInv'
  <2>1. GithubOvershootBounded'
    <3>1. row.github \in Nat /\ githubSpent \in Nat
      BY DEF IInv, TypeOK, Row
    <3> QED
      BY <3>1 DEF IInv, GithubInv, GithubOvershootBounded
  <2> QED
    BY <1>2, <1>3, <2>1 DEF IInv, GithubInv, LockedStates
<1> QED
  BY <1>1, <1>4, <1>5, <1>6 DEF IInv

LEMMA ModelAnswersInv ==
  ASSUME IInv, NEW h \in Handlers, ModelAnswers(h)
  PROVE  IInv'
<1> PICK v \in Verdicts, calls \in CallsMade(h) :
      /\ work' = [work EXCEPT ![h].verdict = v, ![h].calls = calls]
      /\ githubSpent' = githubSpent + calls
  BY DEF ModelAnswers
<1> DEFINE w == [work[h] EXCEPT !.verdict = v, !.calls = calls]
<1>1. /\ calls \in Nat /\ calls <= CallsPerTurn
      /\ ~work[h].tools => calls = 0
      /\ v \in Verdict /\ githubSpent \in Nat
  BY LimitsAssumption, EnvironmentAssumption DEF CallsMade, IInv, TypeOK
<1>2. work[h] \in Work /\ row.github \in Nat /\ row.github <= githubSpent
  BY DEF IInv, TypeOK, Row, GithubInv, GithubOvershootBounded
<1>3. w \in Work
  BY <1>1, <1>2 DEF Work
<1>4. w.row = work[h].row /\ w.tools = work[h].tools /\ w.calls = calls
  BY <1>2 DEF Work
<1>5. work' = [work EXCEPT ![h] = w]
  OBVIOUS
<1> HIDE DEF w
<1>6. /\ pc[h] \in LockedStates /\ pc' = [pc EXCEPT ![h] = "logging"]
      /\ UNCHANGED <<row, lock, overrun, startVars, turns, answered>>
  BY DEF ModelAnswers, LockedStates
<1>7. githubSpent' \in Nat /\ githubSpent' >= githubSpent
      /\ row.github + w.calls <= githubSpent'
  BY <1>1, <1>2, <1>4
<1>8. "logging" \in LockedStates
  BY DEF LockedStates
<1> QED
  BY <1>1, <1>3, <1>4, <1>5, <1>6, <1>7, <1>8, LockedTurnInv

LEMMA ModelFailsInv ==
  ASSUME IInv, NEW h \in Handlers, ModelFails(h)
  PROVE  IInv'
<1> PICK calls \in CallsMade(h) : githubSpent' = githubSpent + calls
  BY DEF ModelFails
<1> DEFINE w == [work[h] EXCEPT !.failed = TRUE]
<1>1. calls \in Nat /\ githubSpent \in Nat
  BY LimitsAssumption DEF CallsMade, IInv, TypeOK
<1>2. work[h] \in Work
  BY DEF IInv, TypeOK
<1>3. /\ w \in Work
      /\ w.row = work[h].row /\ w.tools = work[h].tools /\ w.failed = TRUE
  BY <1>2 DEF Work
<1>4. /\ pc[h] \in LockedStates /\ pc' = [pc EXCEPT ![h] = "logging"]
      /\ work' = [work EXCEPT ![h] = w]
      /\ UNCHANGED <<row, lock, overrun, startVars, turns, answered>>
  BY DEF ModelFails, LockedStates
<1> HIDE DEF w
<1>5. githubSpent' \in Nat /\ githubSpent' >= githubSpent
  BY <1>1
<1>6. "logging" \in LockedStates
  BY DEF LockedStates
<1> QED
  BY <1>3, <1>4, <1>5, <1>6, LockedTurnInv

LEMMA TurnLogsInv ==
  ASSUME IInv, NEW h \in Handlers, TurnLogs(h)
  PROVE  IInv'
<1>1. /\ pc[h] = "logging" /\ pc' = [pc EXCEPT ![h] = "deciding"]
      /\ UNCHANGED <<row, lock, overrun, startVars, turns, answered, work, githubSpent>>
  BY DEF TurnLogs, startVars
<1>2. work[h] \in Work /\ work' = [work EXCEPT ![h] = work[h]] /\ githubSpent \in Nat
  BY <1>1 DEF IInv, TypeOK
<1>3. ~work[h].failed =>
        /\ work[h].calls <= CallsPerTurn
        /\ ~work[h].tools => work[h].calls = 0
        /\ row.github + work[h].calls <= githubSpent'
  BY <1>1 DEF IInv, GithubInv
<1>4. "deciding" \in LockedStates /\ "logging" \in LockedStates
  BY DEF LockedStates
<1>5. githubSpent' \in Nat /\ githubSpent' >= githubSpent
  BY <1>1, <1>2
<1> QED
  BY <1>1, <1>2, <1>3, <1>4, <1>5, LockedTurnInv

\* The turn that holds the lock lets it go, having written the row or not.
LEMMA UnlockInv ==
  ASSUME IInv, NEW h \in Handlers, pc[h] \in LockedStates, Idle(h), lock' = NoOne,
         TypeOK', WarnedAtThreshold', GithubOvershootBounded',
         UNCHANGED startVars,
         startPc = "idle" => row'.status = "absent",
         row'.status # "absent" => row'.pos \in 1..Len(row'.plan)
  PROVE  IInv'
<1>1. \A k \in Handlers : pc'[k] \notin LockedStates
  BY DEF Idle, IInv, TypeOK, LockInv, SnapshotIsCurrent, LockedStates
<1>2. LockInv'
  BY <1>1 DEF LockInv, SnapshotIsCurrent, startVars
<1>3. GithubInv'
  BY <1>1 DEF GithubInv, LockedStates
<1> QED
  BY <1>2, <1>3 DEF IInv

LEMMA TurnRollsBackInv ==
  ASSUME IInv, NEW h \in Handlers, TurnRollsBack(h)
  PROVE  IInv'
<1>1. pc[h] \in LockedStates /\ Idle(h) /\ lock' = NoOne
  BY DEF TurnRollsBack, LockedStates
<1>2. UNCHANGED <<row, overrun, startPc, openingPool, overwritten, turns, answered,
                  githubSpent>>
  BY DEF TurnRollsBack, startVars
<1>3. TypeOK'
  BY <1>1, <1>2, NoWorkType DEF IInv, TypeOK, Idle, TurnStates
<1>4. WarnedAtThreshold' /\ GithubOvershootBounded'
  BY <1>2 DEF IInv, WarnedAtThreshold, GithubInv, GithubOvershootBounded
<1>5. /\ startPc = "idle" => row'.status = "absent"
      /\ row'.status # "absent" => row'.pos \in 1..Len(row'.plan)
  BY <1>2 DEF IInv, LockInv
<1> QED
  BY <1>1, <1>2, <1>3, <1>4, <1>5, UnlockInv DEF startVars

\* The one step that writes the row from memory: the row in memory is the stored one.
LEMMA TurnCommitsInv ==
  ASSUME IInv, NEW h \in Handlers, TurnCommits(h)
  PROVE  IInv'
<1> DEFINE w == work[h]
           r == WithBatch(row)
           s == AfterTurn(r, w.turn, w.verdict, w.calls, w.force)
<1>1. /\ pc[h] = "deciding" /\ ~w.failed /\ pc[h] \in LockedStates
      /\ Idle(h) /\ lock' = NoOne
      /\ UNCHANGED <<startPc, openingPool, overwritten, turns, githubSpent>>
  BY DEF TurnCommits, LockedStates, startVars
<1>2. lock = h /\ Active(row) /\ w.row = r
  BY <1>1 DEF IInv, LockInv, SnapshotIsCurrent
<1>3. row' = s /\ answered' = answered \cup {w.turn}
      /\ overrun' = (overrun /\ s.pos = w.row.pos)
  BY <1>2 DEF TurnCommits
<1>4. /\ w \in Work /\ row \in Row /\ row.pos \in 1..Len(row.plan)
  BY <1>2 DEF IInv, TypeOK, LockInv, Active
<1>5. /\ r \in Row /\ Active(r) /\ r.pos \in 1..Len(r.plan)
      /\ r.github = row.github /\ r.redFlags = row.redFlags
      /\ r.warned = row.warned /\ r.endReason = row.endReason
  <2>1. r \in Row /\ r = [row EXCEPT !.asked = r.asked]
    BY <1>4, WithBatchRow
  <2> HIDE DEF r
  <2> QED
    BY <1>2, <1>4, <2>1 DEF Row, Active
<1>6. w.turn \in Nat /\ w.verdict \in Verdict /\ w.calls \in Nat /\ w.force \in BOOLEAN
  BY <1>4 DEF Work
<1> HIDE DEF w, r
<1>7. /\ s \in Row
      /\ s.status # "absent"
      /\ s.pos \in 1..Len(s.plan)
      /\ s.github = r.github + w.calls
      /\ s.redFlags = Flagged(r, w.verdict).redFlags
      /\ s.warned = Flagged(r, w.verdict).warned
      /\ s.endReason = Flagged(r, w.verdict).endReason
      /\ Active(s) => Active(Flagged(r, w.verdict))
  <2>1. TurnLeaves(r, s, w.turn, w.verdict, w.calls, w.force)
    BY <1>5, <1>6, AfterTurnRow
  <2> HIDE DEF s
  <2> QED
    BY <2>1 DEF TurnLeaves
<1>8. WarnedAtThreshold'
  <2>1. /\ r.redFlags <= Threshold
        /\ r.warned <=> r.redFlags = Threshold
    BY <1>2, <1>5 DEF IInv, WarnedAtThreshold
  <2>2. r.endReason # "red_flag_threshold"
    <3>1. Threshold \in Nat
      BY LimitsAssumption
    <3> QED
      BY <1>2, <1>5, <2>1, <3>1 DEF IInv, WarnedAtThreshold
  <2>3. LET f == Flagged(r, w.verdict)
        IN  /\ Active(f) => f.redFlags <= Threshold /\ (f.warned <=> f.redFlags = Threshold)
            /\ f.endReason = "red_flag_threshold" => f.redFlags = Threshold + 1 /\ f.warned
    BY <1>5, <1>6, <2>1, <2>2, FlaggedKeepsWarning
  <2> HIDE DEF s
  <2> QED
    BY <1>3, <1>7, <2>3 DEF WarnedAtThreshold
<1>9. GithubOvershootBounded'
  <2>1. /\ w.calls <= CallsPerTurn
        /\ ~w.tools => w.calls = 0
        /\ row.github + w.calls <= githubSpent
        /\ w.tools => row.github < GithubBudget
        /\ row.github < GithubBudget + CallsPerTurn \/ row.github = 0
    BY <1>1 DEF IInv, GithubInv, GithubOvershootBounded, w
  <2>2. row.github \in Nat
    BY <1>4 DEF Row
  <2>3. row'.github = row.github + w.calls /\ githubSpent' = githubSpent
    BY <1>1, <1>3, <1>5, <1>7
  <2> HIDE DEF s
  <2> QED
    BY <1>6, <2>1, <2>2, <2>3, LimitsAssumption DEF GithubOvershootBounded
<1>10. TypeOK'
  <2> HIDE DEF s
  <2>1. overrun' \in BOOLEAN
    BY <1>3
  <2> QED
    BY <1>1, <1>3, <1>6, <1>7, <2>1, NoWorkType DEF IInv, TypeOK, Idle, TurnStates
<1>11. startPc # "idle"
  BY <1>2 DEF IInv, LockInv, Active
<1> HIDE DEF s
<1> QED
  BY <1>1, <1>3, <1>7, <1>8, <1>9, <1>10, <1>11, UnlockInv DEF startVars

-----------------------------------------------------------------------------
(* The theorems.                                                           *)

LEMMA NextInv == IInv /\ [Next]_vars => IInv'
<1> SUFFICES ASSUME IInv, [Next]_vars PROVE IInv'
  OBVIOUS
<1>1. CASE StartNext
  BY <1>1, StartCreatesInv, StartStoresInv, RowGoneInv, QuietInv DEF StartNext
<1>2. ASSUME NEW h \in Handlers, TurnNext(h) PROVE IInv'
  BY <1>2, TurnArrivesInv, TurnRejectedInv, TurnLocksInv, ModelAnswersInv, ModelFailsInv,
     TurnLogsInv, TurnCommitsInv, TurnRollsBackInv DEF TurnNext
<1>3. CASE OwnerDeletes
  BY <1>3, RowGoneInv
<1>4. CASE PhaseOverruns
  BY <1>4, QuietInv
<1>5. CASE Crash
  BY <1>5, CrashInv
<1>6. CASE UNCHANGED vars
  <2>1. TypeOK' /\ WarnedAtThreshold' /\ GithubInv'
    BY <1>6 DEF vars, IInv, TypeOK, WarnedAtThreshold, GithubInv, GithubOvershootBounded
  <2>2. LockInv'
    BY <1>6 DEF vars, IInv, LockInv, SnapshotIsCurrent, Active
  <2> QED
    BY <2>1, <2>2 DEF IInv
<1> QED
  BY <1>1, <1>2, <1>3, <1>4, <1>5, <1>6 DEF Next

\* In every reachable state the inductive invariant holds.
THEOREM Invariance == Spec => []IInv
BY InitInv, NextInv, PTL DEF Spec

\* Every row the requests commit, and every request's in-memory state, is well formed:
\* the columns of interview_sessions keep the values their readers expect.
THEOREM TypeCorrect == Spec => []TypeOK
<1>1. IInv => TypeOK
  BY DEF IInv
<1> QED
  BY <1>1, Invariance, PTL

\* The row lock of submit_turn does its work: while a turn awaits the model no other
\* request, start, deletion or crash changes the row it has in memory.
THEOREM TurnsAreSerial == Spec => []SnapshotIsCurrent
<1>1. IInv => SnapshotIsCurrent
  BY DEF IInv, LockInv
<1> QED
  BY <1>1, Invariance, PTL

\* The red flag rule: an interview goes on up to the threshold, and a warning stands
\* on the row exactly when the next flag ends it.
THEOREM WarningPrecedesEnd == Spec => []WarnedAtThreshold
<1>1. IInv => WarnedAtThreshold
  BY DEF IInv
<1> QED
  BY <1>1, Invariance, PTL

\* The charged GitHub calls exceed the budget by less than one turn's calls.
THEOREM GithubOvershoot == Spec => []GithubOvershootBounded
<1>1. IInv => GithubOvershootBounded
  BY DEF IInv, GithubInv
<1> QED
  BY <1>1, Invariance, PTL
=============================================================================
