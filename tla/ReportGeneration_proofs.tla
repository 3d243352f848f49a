---------------------- MODULE ReportGeneration_proofs ----------------------
(***************************************************************************)
(* Theorems about ReportGeneration: evaluations are those of the reports,  *)
(* each is of the whole interview, nothing outlives the session, and       *)
(* readers see progress.                                                   *)
(***************************************************************************)
EXTENDS ReportGeneration, FiniteSetTheorems, SequenceTheorems, WellFoundedInduction, TLAPS

\* A request, with what an answer may show left open: what it does show is ReadingInv's.
Request(Shown) ==
  [pc : {"idle", "begun", "judging", "committed", "reading", "answered", "failed"},
   began : Nat, after : SUBSET Requests, seen : Session, made : Seq(Evaluation),
   next : Nat \ {0}, report : Report \cup {NoReport}, shown : Shown]

RowsOK ==
  /\ session \in Session
  /\ evaluations \in SUBSET Evaluation
  /\ reports \in Seq(Report)
  /\ nextId \in Nat \ {0}

RequestsOK == \E Shown : requests \in [Requests -> Request(Shown)]

TypeOK == RowsOK /\ RequestsOK

\* A finished interview has a turn, and somebody can always judge it.
SessionInv ==
  /\ Attitude \in session.material
  /\ session.status = "finished" => session.turns # 0

\* Requests are numbered as they begin, and only those that had ended came before.
BegunInv ==
  /\ \A r \in Begun : requests[r].began \in 1..Cardinality(Begun)
  /\ \A r \in Requests : \A g \in requests[r].after :
       /\ g \in Ended
       /\ r \in Begun
       /\ requests[g].began < requests[r].began

\* A request that has done nothing but begin.
FreshInv ==
  \A r \in Requests : requests[r].pc \in {"idle", "begun"} =>
    requests[r].made = <<>> /\ requests[r].next = 1 /\ requests[r].report = NoReport

\* A judging request has read a finished interview, which stays what it was until it is
\* gone; it has one evaluation for each judge with material so far, in order, and holds
\* the session from the first on.
Judged(q, s) ==
  /\ q.seen.status = "finished" /\ q.seen.turns # 0 /\ Attitude \in q.seen.material
  /\ s.status # "gone" => s = q.seen
  /\ q.made # <<>> => s.status # "gone"
  /\ \A i \in DOMAIN q.made : q.made[i].turns = q.seen.turns
  /\ {q.made[i].judge : i \in DOMAIN q.made} =
       {JUDGE_NAMES[k] : k \in {k \in DOMAIN JUDGE_NAMES : k < q.next}} \cap q.seen.material
  /\ \A i, k \in DOMAIN q.made : i < k => Before(q.made[i].judge, q.made[k].judge)

JudgingInv ==
  \A r \in Requests : requests[r].pc = "judging" => r \in Generators /\ Judged(requests[r], session)

\* The ids of stored and of inserted evaluations are below the sequence and all different.
IdsInv ==
  /\ \A e \in evaluations : e.id < nextId
  /\ \A d, e \in evaluations : d.id = e.id => d = e
  /\ \A r \in Requests : \A i \in DOMAIN requests[r].made :
       /\ requests[r].made[i].id < nextId
       /\ \A e \in evaluations : e.id # requests[r].made[i].id
       /\ \A q \in Requests : \A k \in DOMAIN requests[q].made :
            requests[r].made[i].id = requests[q].made[k].id => r = q /\ i = k

\* The report of a request that has written one, and it is stored until the session goes.
Past(r) == requests[r].pc \in {"committed", "reading", "answered"}

ReportsInv ==
  /\ \A p \in ToSet(reports) : p.created_at <= Cardinality(Requests)
  /\ \A g \in Generators :
       /\ Past(g) => /\ requests[g].report.created_at = requests[g].began
                     /\ session.status # "gone" => requests[g].report \in ToSet(reports)
       /\ requests[g].report # NoReport => requests[g].report.created_at = requests[g].began
  /\ \A r \in Requests : requests[r].pc = "committed" => r \in Generators

\* Until the session goes, who reads a report reads one that is stored.
ReadingInv ==
  \A r \in Requests : requests[r].pc = "reading" /\ session.status # "gone" =>
    requests[r].report \in ToSet(reports)

IInv ==
  /\ TypeOK /\ SessionInv /\ BegunInv /\ FreshInv /\ JudgingInv /\ IdsInv /\ ReportsInv
  /\ EvaluationsAreReported /\ JudgedInFull /\ NothingOutlivesSession /\ ReadersSeeProgress
  /\ ReadingInv /\ AnswersAreWhole

-----------------------------------------------------------------------------
(* Lemmas about sequences and finite sets.                                 *)

\* A set gets one element more with each element appended.
LEMMA AppendToSet ==
  ASSUME NEW S, NEW s \in Seq(S), NEW x \in S
  PROVE  /\ Append(s, x) \in Seq(S) /\ Append(s, x) # <<>>
         /\ Len(s) \in Nat /\ DOMAIN s = 1..Len(s) /\ DOMAIN Append(s, x) = 1..Len(s) + 1
         /\ \A i \in DOMAIN s : Append(s, x)[i] = s[i]
         /\ Append(s, x)[Len(s) + 1] = x
         /\ ToSet(Append(s, x)) = ToSet(s) \cup {x}
<1>1. /\ Append(s, x) \in Seq(S) /\ Append(s, x) # <<>>
      /\ Len(s) \in Nat /\ DOMAIN s = 1..Len(s) /\ DOMAIN Append(s, x) = 1..Len(s) + 1
  OBVIOUS
<1>2. /\ \A i \in 1..Len(s) : Append(s, x)[i] = s[i]
      /\ Append(s, x)[Len(s) + 1] = x
  OBVIOUS
<1>3. ToSet(Append(s, x)) = ToSet(s) \cup {x} BY <1>1, <1>2 DEF ToSet
<1> QED BY <1>1, <1>2, <1>3

\* A set of numbers up to a bound has a greatest one.
LEMMA Greatest ==
  ASSUME NEW N \in Nat, NEW S, S \subseteq 0..N, S # {}
  PROVE  \E x \in S : \A y \in S : y <= x
<1> DEFINE T == {n \in Nat : n <= N /\ N - n \in S}
<1>1. PICK s \in S : TRUE OBVIOUS
<1>2. s \in 0..N /\ N - s \in T
  <2>1. s \in 0..N BY <1>1
  <2>2. N - s \in Nat /\ N - s <= N /\ N - (N - s) = s BY <2>1
  <2> QED BY <2>1, <2>2
<1>3. PICK t \in T : \A u \in T : ~(<<u, t>> \in OpToRel(<, Nat))
  <2>1. T \subseteq Nat /\ T # {} BY <1>2
  <2> HIDE DEF T
  <2> QED BY <2>1, NatLessThanWellFounded, WFMin
<1>4. \A y \in S : y <= N - t
  <2> SUFFICES ASSUME NEW y \in S PROVE y <= N - t OBVIOUS
  <2>1. y \in 0..N OBVIOUS
  <2>2. N - y \in Nat /\ N - y <= N /\ N - (N - y) = y BY <2>1
  <2>3. N - y \in T BY <2>2
  <2>4. ~(N - y < t) BY <1>3, <2>3 DEF OpToRel
  <2> QED BY <2>1, <2>2, <2>4
<1> QED BY <1>3, <1>4

\* The report answered to readers is stored, and none is later.
LEMMA LatestIsLatest ==
  ASSUME RowsOK, ReportsInv, reports # <<>>
  PROVE  /\ LatestReport \in ToSet(reports)
         /\ \A p \in ToSet(reports) : p.created_at <= LatestReport.created_at
<1> DEFINE S == {p.created_at : p \in ToSet(reports)}
<1>1. ToSet(reports) \subseteq Report /\ ToSet(reports) # {}
  <2>1. reports \in Seq(Report) /\ 1 \in DOMAIN reports BY DEF RowsOK
  <2>2. \A i \in DOMAIN reports : reports[i] \in Report BY <2>1
  <2> QED BY <2>1, <2>2 DEF ToSet
<1>2. Cardinality(Requests) \in Nat BY RequestsAssumption, FS_CardinalityType DEF Requests
<1>3. S # {} BY <1>1
<1>4. S \subseteq 0..Cardinality(Requests) BY <1>1, <1>2 DEF ReportsInv, Report
<1>5. PICK x \in S : \A y \in S : y <= x
  <2> HIDE DEF S
  <2> QED BY <1>2, <1>3, <1>4, Greatest
<1>6. \E p \in ToSet(reports) : \A q \in ToSet(reports) : q.created_at <= p.created_at
  BY <1>5
<1> QED BY <1>6 DEF LatestReport

-----------------------------------------------------------------------------
(* What an answer shows.                                                   *)

\* The positions of a report's ids, put in increasing order, are those there are.
LEMMA IncreasingIsIdentity ==
  ASSUME NEW n \in Nat, NEW f \in Bijection(1..n, 1..n),
         \A i, k \in DOMAIN f : i < k => f[i] < f[k]
  PROVE  \A i \in 1..n : f[i] = i
<1>1. /\ f \in [1..n -> 1..n] /\ DOMAIN f = 1..n
      /\ \A t \in 1..n : \E s \in 1..n : f[s] = t
  BY DEF Bijection, Surjection
<1> SUFFICES ASSUME NEW j \in 1..n, f[j] # j
             PROVE  FALSE
  OBVIOUS
<1> DEFINE T == {i \in Nat : i \in 1..n /\ f[i] # i}
<1>2. PICK t \in T : \A u \in T : ~(<<u, t>> \in OpToRel(<, Nat))
  <2>1. T \subseteq Nat /\ j \in T OBVIOUS
  <2> HIDE DEF T
  <2> QED BY <2>1, NatLessThanWellFounded, WFMin
<1>3. t \in 1..n /\ f[t] # t /\ f[t] \in 1..n BY <1>1, <1>2
<1>4. \A i \in 1..n : i < t => f[i] = i
  <2> SUFFICES ASSUME NEW i \in 1..n, i < t, f[i] # i PROVE FALSE OBVIOUS
  <2>1. i \in T /\ t \in Nat OBVIOUS
  <2>2. ~(i < t) BY <1>2, <2>1 DEF OpToRel
  <2> QED BY <2>2
<1>5. f[t] > t
  <2>1. CASE f[t] < t
    <3>1. f[f[t]] = f[t] BY <1>3, <1>4, <2>1
    <3>2. f[f[t]] < f[t] BY <1>1, <1>3, <2>1
    <3> QED BY <1>3, <3>1, <3>2
  <2> QED BY <1>3, <2>1
<1>6. PICK s \in 1..n : f[s] = t BY <1>1, <1>3
<1>7. s # t BY <1>3, <1>6
<1>8. CASE s < t BY <1>3, <1>4, <1>6, <1>8
<1>9. CASE t < s
  <2>1. f[t] < f[s] BY <1>1, <1>3, <1>9
  <2> QED BY <1>3, <1>5, <1>6, <2>1
<1> QED BY <1>3, <1>7, <1>8, <1>9

\* The positions of the ids that are found, and their order.
Found(ids) == {i \in DOMAIN ids : \E e \in evaluations : e.id = ids[i]}
Orders(found) ==
  {order \in Bijection(1..Cardinality(found), found) :
     \A i, k \in DOMAIN order : i < k => order[i] < order[k]}

LEMMA FetchedInOrder ==
  ASSUME NEW report, Orders(Found(report.judge_evaluation_ids)) # {}
  PROVE  \E order \in Orders(Found(report.judge_evaluation_ids)) :
           Fetched(report) = [i \in DOMAIN order |-> report.judge_evaluation_ids[order[i]]]
<1> DEFINE found == Found(report.judge_evaluation_ids)
           P(order) == \A i, k \in DOMAIN order : i < k => order[i] < order[k]
           order == CHOOSE order \in Bijection(1..Cardinality(found), found) : P(order)
<1>1. \E o \in Bijection(1..Cardinality(found), found) : P(o) BY DEF Orders
<1>2. order \in Bijection(1..Cardinality(found), found) /\ P(order)
  <2> HIDE DEF P, found
  <2> QED BY <1>1
<1>3. order \in Orders(found)
  <2> HIDE DEF order, found
  <2> QED BY <1>2 DEF Orders
<1>4. Fetched(report) = [i \in DOMAIN order |-> report.judge_evaluation_ids[order[i]]]
  BY Zenon DEF Fetched, Found
<1> HIDE DEF order
<1> QED BY <1>3, <1>4

\* While its evaluations are stored an answer shows all of a report.
LEMMA FetchedWhole ==
  ASSUME NEW report \in Report,
         ToSet(report.judge_evaluation_ids) \subseteq {e.id : e \in evaluations}
  PROVE  Fetched(report) = report.judge_evaluation_ids
<1> DEFINE ids == report.judge_evaluation_ids
           n == Len(ids)
<1>1. ids \in Seq(Nat \ {0}) /\ n \in Nat /\ DOMAIN ids = 1..n BY DEF Report
<1>2. Found(ids) = 1..n BY <1>1 DEF Found, ToSet
<1>3. Cardinality(1..n) = n BY <1>1, FS_Interval
<1> HIDE DEF n
<1>4. Orders(1..n) # {}
  <2> DEFINE f == [i \in 1..n |-> i]
  <2>1. f \in Bijection(1..n, 1..n) BY DEF Bijection, Injection, Surjection, IsInjective
  <2>2. \A i, k \in DOMAIN f : i < k => f[i] < f[k] OBVIOUS
  <2> HIDE DEF f
  <2> QED BY <1>3, <2>1, <2>2 DEF Orders
<1>5. PICK order \in Orders(1..n) : Fetched(report) = [i \in DOMAIN order |-> ids[order[i]]]
  BY <1>2, <1>4, FetchedInOrder
<1>6. DOMAIN order = 1..n /\ \A i \in 1..n : order[i] = i
  <2>1. /\ order \in Bijection(1..n, 1..n)
        /\ \A i, k \in DOMAIN order : i < k => order[i] < order[k]
    BY <1>3 DEF Orders
  <2>2. DOMAIN order = 1..n BY <2>1 DEF Bijection, Injection
  <2> QED BY <1>1, <2>1, <2>2, IncreasingIsIdentity
<1>7. Fetched(report) = [i \in 1..n |-> ids[i]] BY <1>5, <1>6
<1>8. ids = [i \in 1..n |-> ids[i]]
  <2> HIDE DEF ids
  <2> QED BY <1>1
<1> QED BY <1>7, <1>8

\* When they are gone it shows none.
LEMMA FetchedNone ==
  ASSUME NEW report, evaluations = {}
  PROVE  Fetched(report) = <<>>
<1> DEFINE ids == report.judge_evaluation_ids
<1>1. Found(ids) = {} BY DEF Found
<1>2. Cardinality({}) = 0 BY FS_EmptySet
<1>3. 1..0 = {} OBVIOUS
<1>4. Orders({}) # {}
  <2> DEFINE f == [i \in {} |-> i]
  <2>1. f \in Bijection({}, {}) BY DEF Bijection, Injection, Surjection, IsInjective
  <2>2. DOMAIN f = {} OBVIOUS
  <2> HIDE DEF f
  <2> QED BY <1>2, <1>3, <2>1, <2>2 DEF Orders
<1>5. PICK order \in Orders({}) : Fetched(report) = [i \in DOMAIN order |-> ids[order[i]]]
  <2>1. Orders(Found(report.judge_evaluation_ids)) # {} BY <1>1, <1>4
  <2>2. PICK order \in Orders(Found(report.judge_evaluation_ids)) :
          Fetched(report) = [i \in DOMAIN order |-> report.judge_evaluation_ids[order[i]]]
    BY <2>1, FetchedInOrder, Zenon
  <2>3. order \in Orders({}) BY <1>1, <2>2
  <2> QED BY <2>2, <2>3
<1>6. DOMAIN order = {} BY <1>2, <1>3 DEF Orders, Bijection, Injection
<1> QED BY <1>5, <1>6

-----------------------------------------------------------------------------
(* The steps, and what most of them leave alone.                           *)

\* What was not committed is rolled back, before an answer.
Fails(r) == requests[r].pc \in {"begun", "judging", "committed"} /\ Fail(r)

\* The steps, those that fail taken together.
LEMMA Steps ==
  ASSUME [Next]_vars
  PROVE  \/ UNCHANGED vars
         \/ Turn
         \/ DeleteSession
         \/ \E r \in Requests : Begin(r) \/ Answer(r) \/ Fails(r)
         \/ \E r \in Generators : Load(r) \/ SkipJudge(r) \/ RunJudge(r) \/ Commit(r) \/ Refresh(r)
         \/ \E r \in Readers : Find(r)
<1>1. CASE UNCHANGED vars BY <1>1
<1>2. CASE Turn BY <1>2
<1>3. CASE DeleteSession BY <1>3
<1>4. ASSUME NEW r \in Requests, Begin(r) \/ NotFound(r) \/ Answer(r)
      PROVE  Begin(r) \/ Answer(r) \/ Fails(r)
  BY <1>4 DEF NotFound, Fails
<1>5. ASSUME NEW r \in Generators,
             \/ Load(r) \/ NotReady(r) \/ SkipJudge(r) \/ RunJudge(r) \/ JudgeFails(r)
             \/ Commit(r) \/ Refresh(r) \/ RefreshFails(r)
      PROVE  Load(r) \/ SkipJudge(r) \/ RunJudge(r) \/ Commit(r) \/ Refresh(r) \/ Fails(r)
  BY <1>5 DEF NotReady, JudgeFails, RefreshFails, Fails, Judging
<1>6. ASSUME NEW r \in Readers, Find(r) \/ NoneYet(r)
      PROVE  Find(r) \/ Fails(r)
  BY <1>6 DEF NoneYet, Fails
<1> QED BY <1>1, <1>2, <1>3, <1>4, <1>5, <1>6 DEF Next, Requests

\* A request that has ended stays as it is, and nobody begins but by Begin.
Ongoing ==
  \A q \in Requests :
    /\ requests'[q].began = requests[q].began
    /\ requests'[q].after = requests[q].after
    /\ requests'[q].pc = "idle" <=> requests[q].pc = "idle"
    /\ requests[q].pc \in {"answered", "failed"} => requests'[q] = requests[q]

\* Every step but a beginning is one of requests that have begun.
LEMMA OngoingSteps ==
  ASSUME TypeOK, [Next]_vars
  PROVE  Ongoing \/ \E r \in Requests : Begin(r)
<1> PICK Shown : requests \in [Requests -> Request(Shown)] BY DEF TypeOK, RequestsOK
<1> USE DEF Ongoing, Request
<1>1. CASE UNCHANGED vars BY <1>1 DEF vars
<1>2. CASE Turn BY <1>2 DEF Turn
<1>3. CASE DeleteSession BY <1>3 DEF DeleteSession
<1>4. ASSUME NEW r \in Requests, Answer(r) PROVE Ongoing BY <1>4 DEF Answer
<1>5. ASSUME NEW r \in Requests, Fails(r) PROVE Ongoing BY <1>5 DEF Fails, Fail
<1>6. ASSUME NEW r \in Generators,
             Load(r) \/ SkipJudge(r) \/ RunJudge(r) \/ Commit(r) \/ Refresh(r)
      PROVE  Ongoing
  <2> r \in Requests BY DEF Requests
  <2>1. CASE Load(r) BY <2>1 DEF Load
  <2>2. CASE SkipJudge(r) BY <2>2 DEF SkipJudge, Judging
  <2>3. CASE RunJudge(r) BY <2>3 DEF RunJudge, Judging
  <2>4. CASE Commit(r) BY <2>4 DEF Commit
  <2>5. CASE Refresh(r) BY <2>5 DEF Refresh
  <2> QED BY <1>6, <2>1, <2>2, <2>3, <2>4, <2>5
<1>7. ASSUME NEW r \in Readers, Find(r) PROVE Ongoing
  <2> r \in Requests BY DEF Requests
  <2> QED BY <1>7 DEF Find
<1> QED BY Steps, <1>1, <1>2, <1>3, <1>4, <1>5, <1>6, <1>7

-----------------------------------------------------------------------------
(* Types.                                                                  *)

\* The numbers of the requests that have begun are natural.
LEMMA CountsBegun == Begun \subseteq Requests /\ IsFiniteSet(Begun) /\ Cardinality(Begun) \in Nat
BY RequestsAssumption, FS_Subset, FS_CardinalityType DEF Requests, Begun

\* What a request has made has ids.
LEMMA MadeTyped ==
  ASSUME TypeOK
  PROVE  \A r \in Requests : \A i \in DOMAIN requests[r].made :
           requests[r].made[i] \in Evaluation /\ requests[r].made[i].id \in Nat
<1> SUFFICES ASSUME NEW r \in Requests, NEW i \in DOMAIN requests[r].made
             PROVE  requests[r].made[i] \in Evaluation /\ requests[r].made[i].id \in Nat
  OBVIOUS
<1>1. requests[r].made \in Seq(Evaluation) BY DEF TypeOK, RequestsOK, Request
<1>2. requests[r].made[i] \in Evaluation
  <2> DEFINE m == requests[r].made
  <2>1. m \in Seq(Evaluation) /\ i \in DOMAIN m BY <1>1
  <2> HIDE DEF m
  <2>2. m[i] \in Evaluation BY <2>1
  <2> QED BY <2>2 DEF m
<1> QED BY <1>2 DEF Evaluation

\* The report a request writes.
LEMMA ReportWritten ==
  ASSUME TypeOK, BegunInv, NEW r \in Generators, requests[r].pc = "judging"
  PROVE  /\ requests[r].made \in Seq(Evaluation)
         /\ DOMAIN requests[r].made = 1..Len(requests[r].made)
         /\ \A i \in DOMAIN requests[r].made : requests[r].made[i] \in Evaluation
         /\ [by |-> r, created_at |-> requests[r].began,
             judge_evaluation_ids |-> [i \in DOMAIN requests[r].made |-> requests[r].made[i].id]]
              \in Report
<1> PICK Shown : requests \in [Requests -> Request(Shown)] BY DEF TypeOK, RequestsOK
<1> r \in Requests BY DEF Requests
<1> DEFINE made == requests[r].made
<1>1. made \in Seq(Evaluation) BY DEF Request
<1>2. /\ DOMAIN made = 1..Len(made) /\ Len(made) \in Nat
      /\ \A i \in DOMAIN made : made[i] \in Evaluation
  <2> HIDE DEF made
  <2> QED BY <1>1
<1>3. requests[r].began \in Nat \ {0} BY CountsBegun DEF BegunInv, Begun
<1>4. [i \in DOMAIN made |-> made[i].id] \in Seq(Nat \ {0})
  <2>1. \A i \in 1..Len(made) : made[i].id \in Nat \ {0}
    <3> HIDE DEF made
    <3> QED BY <1>2 DEF Evaluation
  <2> DEFINE n == Len(made)
             id(i) == made[i].id
  <2>2. n \in Nat /\ DOMAIN made = 1..n /\ \A i \in 1..n : id(i) \in Nat \ {0} BY <1>2, <2>1
  <2> HIDE DEF made, n, id
  <2>3. [i \in 1..n |-> id(i)] \in Seq(Nat \ {0})
    <3>1. [i \in 1..n |-> id(i)] \in [1..n -> Nat \ {0}] BY <2>2
    <3> QED BY <2>2, <3>1, SeqDef
  <2> QED BY <2>2, <2>3 DEF id
<1> QED BY <1>1, <1>2, <1>3, <1>4 DEF Report

\* A request that has made one more evaluation.
WithMade(q, e) == [q EXCEPT !.made = Append(q.made, e), !.next = q.next + 1]

\* The evaluation a request inserts.
LEMMA EvaluationMade ==
  ASSUME TypeOK, JudgingInv, NEW r \in Generators, RunJudge(r)
  PROVE  \E e \in Evaluation :
           /\ e.id = nextId /\ e.turns = requests[r].seen.turns
           /\ e.judge = JUDGE_NAMES[requests[r].next]
           /\ requests' = [requests EXCEPT ![r] = WithMade(requests[r], e)]
<1> PICK Shown : requests \in [Requests -> Request(Shown)] BY DEF TypeOK, RequestsOK
<1> DEFINE e == [id |-> nextId, judge |-> JUDGE_NAMES[requests[r].next],
                 turns |-> requests[r].seen.turns]
<1>1. requests[r].pc = "judging" /\ e.judge \in requests[r].seen.material
  BY DEF RunJudge, Judging
<1>2. requests[r].seen \in Session /\ requests[r].seen.turns # 0
  BY <1>1 DEF Request, Requests, JudgingInv, Judged
<1>3. e \in Evaluation BY <1>1, <1>2, MaxTurnsAssumption DEF Session, Evaluation, TypeOK, RowsOK
<1>4. requests' = [requests EXCEPT ![r] = WithMade(requests[r], e)]
  <2>1. requests' = [requests EXCEPT ![r].made = Append(@, e), ![r].next = @ + 1]
    BY DEF RunJudge
  <2> r \in Requests BY DEF Requests
  <2> HIDE DEF e
  <2> QED BY <2>1 DEF WithMade
<1>5. e.id = nextId /\ e.turns = requests[r].seen.turns
      /\ e.judge = JUDGE_NAMES[requests[r].next]
  OBVIOUS
<1> HIDE DEF e
<1> QED BY <1>3, <1>4, <1>5

\* The committed rows and the sequence keep their types.
LEMMA RowsStep ==
  ASSUME TypeOK, BegunInv, [Next]_vars
  PROVE  RowsOK'
<1> PICK Shown : requests \in [Requests -> Request(Shown)] BY DEF TypeOK, RequestsOK
<1> USE DEF TypeOK, RowsOK
<1>1. CASE UNCHANGED vars BY <1>1 DEF vars
<1>2. CASE Turn
  <2>1. session.turns + 1 \in 0..MaxTurns BY <1>2, MaxTurnsAssumption DEF Turn, Session
  <2>2. session' \in Session BY <1>2, <2>1 DEF Turn, Session
  <2> QED BY <1>2, <2>2 DEF Turn
<1>3. CASE DeleteSession
  <2>1. session' \in Session BY <1>3 DEF DeleteSession, Session
  <2> QED BY <1>3, <2>1 DEF DeleteSession
<1>4. ASSUME NEW r \in Requests, Begin(r) \/ Answer(r) \/ Fails(r) PROVE RowsOK'
  BY <1>4 DEF Begin, Answer, Fails, Fail
<1>5. ASSUME NEW r \in Generators, Load(r) \/ SkipJudge(r) \/ Refresh(r) PROVE RowsOK'
  BY <1>5 DEF Load, SkipJudge, Refresh
<1>6. ASSUME NEW r \in Generators, RunJudge(r) PROVE RowsOK'
  BY <1>6 DEF RunJudge, CommittedByFlush
<1>7. ASSUME NEW r \in Generators, Commit(r) PROVE RowsOK'
  <2>1. requests[r].pc = "judging" BY <1>7 DEF Commit
  <2>2. Written(r) \subseteq Evaluation BY <2>1, ReportWritten DEF Written, ToSet
  <2>3. evaluations' \in SUBSET Evaluation BY <1>7, <2>2 DEF Commit, WithWritten
  <2>4. reports' \in Seq(Report)
    <3> HIDE DEF TypeOK, RowsOK
    <3>1. \E p \in Report : reports' = Append(reports, p)
      BY <1>7, <2>1, ReportWritten DEF Commit
    <3> QED BY <3>1 DEF TypeOK, RowsOK
  <2> QED BY <1>7, <2>3, <2>4 DEF Commit
<1>8. ASSUME NEW r \in Readers, Find(r) PROVE RowsOK' BY <1>8 DEF Find
<1> QED BY Steps, <1>1, <1>2, <1>3, <1>4, <1>5, <1>6, <1>7, <1>8

\* What the handlers write to a request.
LEMMA Requested ==
  ASSUME NEW Shown, NEW q \in Request(Shown)
  PROVE  /\ \A n \in Nat :
              [q EXCEPT !.pc = "begun", !.began = n, !.after = Ended] \in Request(Shown)
         /\ \A s \in Shown : [q EXCEPT !.pc = "answered", !.shown = s] \in Request(Shown)
         /\ [q EXCEPT !.pc = "failed", !.made = <<>>] \in Request(Shown)
         /\ \A s \in Session : [q EXCEPT !.pc = "judging", !.seen = s] \in Request(Shown)
         /\ [q EXCEPT !.next = @ + 1] \in Request(Shown)
         /\ \A e \in Evaluation : WithMade(q, e) \in Request(Shown)
         /\ \A p \in Report :
              /\ [q EXCEPT !.pc = "committed", !.made = <<>>, !.report = p] \in Request(Shown)
              /\ [q EXCEPT !.pc = "reading", !.report = p] \in Request(Shown)
         /\ [q EXCEPT !.pc = "reading"] \in Request(Shown)
<1>1. \A n \in Nat : [q EXCEPT !.pc = "begun", !.began = n, !.after = Ended] \in Request(Shown)
  BY DEF Request, Ended
<1>2. \A s \in Shown : [q EXCEPT !.pc = "answered", !.shown = s] \in Request(Shown)
  BY DEF Request
<1> <<>> \in Seq(Evaluation) OBVIOUS
<1>3. [q EXCEPT !.pc = "failed", !.made = <<>>] \in Request(Shown)
  <2>1. \A m \in Seq(Evaluation) : [q EXCEPT !.pc = "failed", !.made = m] \in Request(Shown)
    BY DEF Request
  <2> QED BY <2>1
<1>4. \A s \in Session : [q EXCEPT !.pc = "judging", !.seen = s] \in Request(Shown)
  BY DEF Request
<1>5. [q EXCEPT !.next = @ + 1] \in Request(Shown) BY DEF Request
<1>6. \A e \in Evaluation : WithMade(q, e) \in Request(Shown)
  <2>1. \A m \in Seq(Evaluation), n \in Nat \ {0} :
          [q EXCEPT !.made = m, !.next = n] \in Request(Shown)
    BY DEF Request
  <2>2. q.made \in Seq(Evaluation) /\ q.next + 1 \in Nat \ {0} BY DEF Request
  <2>3. \A e \in Evaluation : Append(q.made, e) \in Seq(Evaluation)
    BY <2>2, AppendToSet
  <2> QED BY <2>1, <2>2, <2>3 DEF WithMade
<1>7. \A p \in Report :
        /\ [q EXCEPT !.pc = "committed", !.made = <<>>, !.report = p] \in Request(Shown)
        /\ [q EXCEPT !.pc = "reading", !.report = p] \in Request(Shown)
  <2>1. \A p \in Report, m \in Seq(Evaluation) :
          [q EXCEPT !.pc = "committed", !.made = m, !.report = p] \in Request(Shown)
    BY DEF Request
  <2>2. \A p \in Report : [q EXCEPT !.pc = "reading", !.report = p] \in Request(Shown)
    BY DEF Request
  <2> QED BY <2>1, <2>2
<1>8. [q EXCEPT !.pc = "reading"] \in Request(Shown) BY DEF Request
<1> QED BY <1>1, <1>2, <1>3, <1>4, <1>5, <1>6, <1>7, <1>8

\* A function with one value replaced.
LEMMA Changed ==
  ASSUME NEW S, NEW T, NEW f \in [S -> T], NEW x \in S, NEW y \in T
  PROVE  [f EXCEPT ![x] = y] \in [S -> T]
OBVIOUS

\* The requests keep their types.
LEMMA RequestsStep ==
  ASSUME TypeOK, SessionInv, BegunInv, JudgingInv, ReportsInv, [Next]_vars
  PROVE  RequestsOK'
<1> PICK Shown : requests \in [Requests -> Request(Shown)] BY DEF TypeOK, RequestsOK
<1> SUFFICES \E S : requests' \in [Requests -> Request(S)] BY DEF RequestsOK, Request
<1>0. /\ Generators \subseteq Requests /\ Readers \subseteq Requests
      /\ \A r \in Requests : requests[r] \in Request(Shown)
  BY DEF Requests
<1>1. CASE UNCHANGED requests BY <1>1
<1>2. ASSUME NEW r \in Requests, Begin(r) PROVE requests' \in [Requests -> Request(Shown)]
  <2>1. IsFiniteSet(Requests) BY RequestsAssumption DEF Requests
  <2>2. Begun \in SUBSET Requests BY DEF Begun
  <2>3. Cardinality(Begun) + 1 \in Nat BY <2>1, <2>2, FS_Subset, FS_CardinalityType
  <2> QED BY <1>0, <1>2, <2>3, Requested DEF Begin
<1>3. ASSUME NEW r \in Requests, Answer(r) PROVE \E S : requests' \in [Requests -> Request(S)]
  <2> DEFINE s == Fetched(requests[r].report)
             S == Shown \cup {s}
  <2>1. requests \in [Requests -> Request(S)]
    <3>1. Request(Shown) \subseteq Request(S) BY DEF Request
    <3> QED BY <3>1
  <2>2. s \in S /\ requests' = [requests EXCEPT ![r].pc = "answered", ![r].shown = s]
    BY <1>3 DEF Answer
  <2> HIDE DEF S, s
  <2> QED BY <2>1, <2>2, Requested
<1>4. ASSUME NEW r \in Requests, Fails(r) PROVE requests' \in [Requests -> Request(Shown)]
  BY <1>0, <1>4, Requested DEF Fails, Fail
<1>5. ASSUME NEW r \in Generators, Load(r) PROVE requests' \in [Requests -> Request(Shown)]
  BY <1>0, <1>5, Requested DEF Load, TypeOK, RowsOK
<1>6. ASSUME NEW r \in Generators, SkipJudge(r) PROVE requests' \in [Requests -> Request(Shown)]
  BY <1>0, <1>6, Requested DEF SkipJudge
<1>7. ASSUME NEW r \in Generators, RunJudge(r) PROVE requests' \in [Requests -> Request(Shown)]
  <2>1. PICK e \in Evaluation :
          requests' = [requests EXCEPT ![r] = WithMade(requests[r], e)]
    BY <1>7, EvaluationMade
  <2>2. WithMade(requests[r], e) \in Request(Shown)
    BY <1>0, Requested
  <2> QED BY <1>0, <2>1, <2>2, Changed
<1>8. ASSUME NEW r \in Generators, Commit(r) PROVE requests' \in [Requests -> Request(Shown)]
  <2>1. PICK p \in Report : requests' = [requests EXCEPT ![r].pc = "committed", ![r].made = <<>>,
                                                        ![r].report = p]
    BY <1>8, ReportWritten DEF Commit
  <2>2. [requests[r] EXCEPT !.pc = "committed", !.made = <<>>, !.report = p] \in Request(Shown)
    BY <1>0, Requested
  <2> QED BY <2>1, <2>2
<1>9. ASSUME NEW r \in Generators, Refresh(r) PROVE requests' \in [Requests -> Request(Shown)]
  BY <1>0, <1>9, Requested DEF Refresh
<1>10. ASSUME NEW r \in Readers, Find(r) PROVE requests' \in [Requests -> Request(Shown)]
  <2>1. LatestReport \in Report
    <3>1. LatestReport \in ToSet(reports) BY <1>10, LatestIsLatest DEF Find, TypeOK
    <3>2. reports \in Seq(Report) BY DEF TypeOK, RowsOK
    <3> QED BY <3>1, <3>2 DEF ToSet
  <2> QED BY <1>0, <1>10, <2>1, Requested DEF Find
<1> QED
  BY Steps, <1>1, <1>2, <1>3, <1>4, <1>5, <1>6, <1>7, <1>8, <1>9, <1>10
     DEF vars, Turn, DeleteSession

-----------------------------------------------------------------------------
(* What each step does to its request, and how the requests proceed.       *)

Others(r) == \A q \in Requests \ {r} : requests'[q] = requests[q]

Proceeds(r) ==
  Others(r) /\ requests'[r].began = requests[r].began /\ requests'[r].after = requests[r].after

\* What each step does to its request; the others stay as they are (BeginMoves to FindMoves).
LEMMA BeginMoves ==
  ASSUME TypeOK, NEW r \in Requests, Begin(r)
  PROVE  /\ Others(r)
         /\ requests[r].pc = "idle" /\ requests'[r].pc = "begun"
         /\ requests'[r].began = Cardinality(Begun) + 1
         /\ requests'[r].after = Ended
         /\ requests'[r].made = requests[r].made /\ requests'[r].next = requests[r].next
         /\ requests'[r].report = requests[r].report
         /\ UNCHANGED <<session, evaluations, reports, nextId>>
BY DEF Begin, TypeOK, RequestsOK, Request, Others

\* Only a request that is reading answers.
LEMMA AnswerMoves ==
  ASSUME TypeOK, NEW r \in Requests, Answer(r)
  PROVE  /\ Proceeds(r)
         /\ requests[r].pc = "reading" /\ requests'[r].pc = "answered"
         /\ requests'[r].made = requests[r].made /\ requests'[r].report = requests[r].report
         /\ UNCHANGED <<session, evaluations, reports, nextId>>
BY DEF Answer, TypeOK, RequestsOK, Request, Others, Proceeds

\* A request that fails has made nothing.
LEMMA FailsMoves ==
  ASSUME TypeOK, NEW r \in Requests, Fails(r)
  PROVE  /\ Proceeds(r)
         /\ requests'[r].pc = "failed"
         /\ requests'[r].made = <<>> /\ requests'[r].report = requests[r].report
         /\ UNCHANGED <<session, evaluations, reports, nextId>>
BY DEF Fails, Fail, TypeOK, RequestsOK, Request, Others, Proceeds

\* The session is loaded by a request that has begun.
LEMMA LoadMoves ==
  ASSUME TypeOK, NEW r \in Requests, Load(r)
  PROVE  /\ Proceeds(r)
         /\ requests[r].pc = "begun" /\ requests'[r].pc = "judging"
         /\ session.status = "finished" /\ requests'[r].seen = session
         /\ requests'[r].made = requests[r].made /\ requests'[r].next = requests[r].next
         /\ requests'[r].report = requests[r].report
         /\ UNCHANGED <<session, evaluations, reports, nextId>>
BY DEF Load, Ready, TypeOK, RequestsOK, Request, Others, Proceeds

\* A judge without material is skipped.
LEMMA SkipJudgeMoves ==
  ASSUME TypeOK, NEW r \in Requests, SkipJudge(r)
  PROVE  /\ Proceeds(r)
         /\ requests[r].pc = "judging" /\ requests'[r].pc = "judging"
         /\ requests'[r].seen = requests[r].seen
         /\ JUDGE_NAMES[requests[r].next] \notin requests[r].seen.material
         /\ requests[r].next \in Nat /\ requests'[r].next = requests[r].next + 1
         /\ requests'[r].made = requests[r].made /\ requests'[r].report = requests[r].report
         /\ UNCHANGED <<session, evaluations, reports, nextId>>
BY DEF SkipJudge, Judging, TypeOK, RequestsOK, Request, Others, Proceeds

\* A report is read back by the request that committed it.
LEMMA RefreshMoves ==
  ASSUME TypeOK, NEW r \in Requests, Refresh(r)
  PROVE  /\ Proceeds(r)
         /\ requests[r].pc = "committed" /\ requests'[r].pc = "reading"
         /\ requests'[r].made = requests[r].made /\ requests'[r].report = requests[r].report
         /\ UNCHANGED <<session, evaluations, reports, nextId>>
BY DEF Refresh, TypeOK, RequestsOK, Request, Others, Proceeds

\* The latest report is found by a request that has begun.
LEMMA FindMoves ==
  ASSUME TypeOK, NEW r \in Requests, Find(r)
  PROVE  /\ Proceeds(r)
         /\ requests[r].pc = "begun" /\ requests'[r].pc = "reading"
         /\ reports # <<>> /\ requests'[r].report = LatestReport
         /\ requests'[r].made = requests[r].made
         /\ UNCHANGED <<session, evaluations, reports, nextId>>
BY DEF Find, TypeOK, RequestsOK, Request, Others, Proceeds

\* A judge runs only for a session that is still there.
LEMMA RunJudgeMoves ==
  ASSUME TypeOK, JudgingInv, NEW r \in Generators, RunJudge(r)
  PROVE  \E e \in Evaluation :
           /\ Proceeds(r) /\ requests[r].pc = "judging" /\ requests'[r].pc = "judging"
           /\ requests'[r].seen = requests[r].seen
           /\ e.id = nextId /\ e.turns = requests[r].seen.turns
           /\ e.judge = JUDGE_NAMES[requests[r].next]
           /\ e.judge \in requests[r].seen.material
           /\ requests[r].next \in DOMAIN JUDGE_NAMES
           /\ requests[r].made \in Seq(Evaluation)
           /\ requests'[r].made = Append(requests[r].made, e)
           /\ requests'[r].next = requests[r].next + 1
           /\ requests'[r].report = requests[r].report
           /\ session.status # "gone" /\ nextId' = nextId + 1
           /\ UNCHANGED <<session, evaluations, reports>>
<1> PICK Shown : requests \in [Requests -> Request(Shown)] BY DEF TypeOK, RequestsOK
<1> r \in Requests /\ requests[r] \in Request(Shown) BY DEF Requests
<1>1. PICK e \in Evaluation :
         /\ e.id = nextId /\ e.turns = requests[r].seen.turns
         /\ e.judge = JUDGE_NAMES[requests[r].next]
         /\ requests' = [requests EXCEPT ![r] = WithMade(requests[r], e)]
  BY EvaluationMade
<1>2. requests'[r] = WithMade(requests[r], e) /\ Others(r) BY <1>1 DEF Others, Proceeds
<1>3. /\ WithMade(requests[r], e).pc = requests[r].pc
      /\ WithMade(requests[r], e).began = requests[r].began
      /\ WithMade(requests[r], e).after = requests[r].after
      /\ WithMade(requests[r], e).seen = requests[r].seen
      /\ WithMade(requests[r], e).report = requests[r].report
      /\ WithMade(requests[r], e).made = Append(requests[r].made, e)
      /\ WithMade(requests[r], e).next = requests[r].next + 1
  BY DEF WithMade, Request
<1>4. requests[r].made \in Seq(Evaluation) /\ requests[r].next \in Nat \ {0} BY DEF Request
<1>5. requests[r].next \in DOMAIN JUDGE_NAMES
  BY <1>4, JudgesAssumption DEF RunJudge, Judging
<1>6. /\ requests[r].pc = "judging" /\ JUDGE_NAMES[requests[r].next] \in requests[r].seen.material
      /\ session.status # "gone" /\ nextId' = nextId + 1
      /\ UNCHANGED <<session, evaluations, reports>>
  BY DEF RunJudge, Judging, CommittedByFlush
<1> QED BY <1>1, <1>2, <1>3, <1>4, <1>5, <1>6 DEF Proceeds

\* The report that is committed is of the session as it still is, by every judge with
\* material, one at least.
LEMMA CommitMoves ==
  ASSUME TypeOK, BegunInv, JudgingInv, NEW r \in Generators, Commit(r)
  PROVE  \E p \in Report :
           /\ Proceeds(r) /\ requests[r].pc = "judging" /\ requests'[r].pc = "committed"
           /\ requests'[r].made = <<>> /\ requests'[r].report = p
           /\ p.created_at = requests[r].began
           /\ p.judge_evaluation_ids =
                [i \in DOMAIN requests[r].made |-> requests[r].made[i].id]
           /\ reports' = Append(reports, p)
           /\ evaluations' = evaluations \cup Written(r)
           /\ session' = session /\ nextId' = nextId
           /\ session = requests[r].seen /\ session.status = "finished"
           /\ {requests[r].made[i].judge : i \in DOMAIN requests[r].made} = session.material
<1> PICK Shown : requests \in [Requests -> Request(Shown)] BY DEF TypeOK, RequestsOK
<1> r \in Requests /\ requests[r] \in Request(Shown) BY DEF Requests
<1> DEFINE q == requests[r]
           p == [by |-> r, created_at |-> q.began,
                 judge_evaluation_ids |-> [i \in DOMAIN q.made |-> q.made[i].id]]
<1>1. q.pc = "judging" /\ q.next > Len(JUDGE_NAMES) BY DEF Commit
<1>2. p \in Report BY <1>1, ReportWritten
<1>3. /\ Proceeds(r) /\ requests'[r].pc = "committed"
      /\ requests'[r].made = <<>> /\ requests'[r].report = p
  BY DEF Commit, Others, Proceeds, Request
<1>4. /\ reports' = Append(reports, p)
      /\ evaluations' = evaluations \cup Written(r)
      /\ session' = session /\ nextId' = nextId
  BY DEF Commit, WithWritten
<1>5. Judged(requests[r], session) BY <1>1 DEF JudgingInv
<1>6. {q.made[i].judge : i \in DOMAIN q.made} = q.seen.material
  <2>1. q.seen \in Session /\ q.next \in Nat BY DEF Request
  <2>2. q.seen.material \subseteq ToSet(JUDGE_NAMES) BY <2>1 DEF Session, Judges
  <2>3. \A k \in DOMAIN JUDGE_NAMES : k < q.next BY <1>1, <2>1, JudgesAssumption
  <2>4. ToSet(JUDGE_NAMES) = {JUDGE_NAMES[k] : k \in {k \in DOMAIN JUDGE_NAMES : k < q.next}}
    <3> HIDE DEF q
    <3> QED BY <2>3 DEF ToSet
  <2> QED BY <1>5, <2>2, <2>4 DEF Judged
<1>7. q.made # <<>>
  <2>1. Attitude \in q.seen.material BY <1>5 DEF Judged
  <2> HIDE DEF q
  <2> QED BY <1>6, <2>1
<1>8. session = q.seen /\ session.status = "finished" BY <1>5, <1>7 DEF Judged
<1>9. /\ p.created_at = q.began
      /\ p.judge_evaluation_ids = [i \in DOMAIN q.made |-> q.made[i].id]
  OBVIOUS
<1> HIDE DEF p
<1> QED BY <1>1, <1>2, <1>3, <1>4, <1>6, <1>8, <1>9

\* A step of a generator or of a reader is one of a request.
LEMMA Kinds == Generators \subseteq Requests /\ Readers \subseteq Requests
BY DEF Requests

-----------------------------------------------------------------------------
(* The parts of the invariant.                                             *)

\* Only a turn ends the interview.
LEMMA SessionStep ==
  ASSUME TypeOK, SessionInv, BegunInv, JudgingInv, [Next]_vars
  PROVE  SessionInv'
<1>1. CASE Turn
  <2>1. session'.turns = session.turns + 1 /\ session.turns \in Nat
        /\ Attitude \in session'.material
    BY <1>1, MaxTurnsAssumption DEF Turn, TypeOK, RowsOK, Session, SessionInv
  <2> QED BY <2>1 DEF SessionInv
<1>2. CASE DeleteSession
  BY <1>2 DEF DeleteSession, SessionInv, TypeOK, RowsOK, Session
<1>3. ASSUME session' = session PROVE SessionInv' BY <1>3 DEF SessionInv
<1>4. Turn \/ DeleteSession \/ session' = session
  BY Steps, Kinds, BeginMoves, AnswerMoves, FailsMoves, LoadMoves, SkipJudgeMoves,
     RunJudgeMoves, CommitMoves, RefreshMoves, FindMoves DEF vars
<1> QED BY <1>1, <1>2, <1>3, <1>4

\* Requests that have begun stay numbered by their beginning.
LEMMA BegunStep ==
  ASSUME TypeOK, BegunInv, [Next]_vars
  PROVE  BegunInv'
<1>1. CASE Ongoing
  <2>1. Begun' = Begun BY <1>1 DEF Ongoing, Begun
  <2>2. Ended \subseteq Ended' BY <1>1 DEF Ongoing, Ended
  <2>3. \A r \in Begun : requests'[r].began \in 1..Cardinality(Begun)
    BY <1>1 DEF BegunInv, Ongoing, Begun
  <2>4. \A r \in Requests : \A g \in requests'[r].after :
          /\ g \in Ended
          /\ r \in Begun
          /\ requests'[g].began < requests'[r].began
    BY <1>1 DEF BegunInv, Ongoing, Ended
  <2> QED BY <2>1, <2>2, <2>3, <2>4 DEF BegunInv
<1>2. ASSUME NEW r \in Requests, Begin(r) PROVE BegunInv'
  <2>1. requests[r].pc = "idle" /\ r \notin Begun /\ r \notin Ended
    BY <1>2 DEF Begin, Begun, Ended
  <2>2. Begun' = Begun \cup {r} BY <1>2, BeginMoves DEF Begun, Others, Proceeds
  <2>3. Ended' = Ended BY <1>2, <2>1, BeginMoves DEF Ended, Others, Proceeds
  <2>4. Cardinality(Begun') = Cardinality(Begun) + 1
    BY <2>1, <2>2, CountsBegun, FS_AddElement
  <2>5. requests'[r].began = Cardinality(Begun) + 1 /\ requests'[r].after = Ended
    BY <1>2, BeginMoves
  <2>6. \A q \in Begun : requests'[q] = requests[q] /\ requests[q].began \in 1..Cardinality(Begun)
    BY <1>2, <2>1, BeginMoves DEF Others, Proceeds, Begun, BegunInv
  <2>7. ASSUME NEW q \in Begun' PROVE requests'[q].began \in 1..Cardinality(Begun')
    BY <2>2, <2>4, <2>5, <2>6, CountsBegun
  <2>8. Ended \subseteq Begun BY DEF Ended, Begun
  <2>9. ASSUME NEW q \in Requests, NEW g \in requests'[q].after
        PROVE  g \in Ended' /\ q \in Begun' /\ requests'[g].began < requests'[q].began
    <3>1. CASE q = r
      <4>1. g \in Ended /\ g \in Begun BY <2>5, <2>8, <2>9, <3>1
      <4> QED BY <2>2, <2>3, <2>5, <2>6, <3>1, <4>1, CountsBegun
    <3>2. CASE q # r
      <4>1. requests'[q] = requests[q] BY <1>2, <3>2, BeginMoves DEF Others, Proceeds
      <4>2. g \in Ended /\ q \in Begun /\ requests[g].began < requests[q].began
        BY <2>9, <4>1 DEF BegunInv
      <4> QED BY <2>2, <2>3, <2>6, <2>8, <4>1, <4>2
    <3> QED BY <3>1, <3>2
  <2> QED BY <2>7, <2>9 DEF BegunInv
<1> QED BY OngoingSteps, <1>1, <1>2

\* Nothing is made or reported before a request has read its rows.
LEMMA FreshStep ==
  ASSUME TypeOK, BegunInv, JudgingInv, FreshInv, [Next]_vars
  PROVE  FreshInv'
<1> USE Kinds DEF FreshInv, Others, Proceeds
<1>1. CASE UNCHANGED requests BY <1>1
<1>2. ASSUME NEW r \in Requests, Begin(r) PROVE FreshInv'
  BY <1>2, BeginMoves
<1>3. ASSUME NEW r \in Requests, Answer(r) PROVE FreshInv' BY <1>3, AnswerMoves
<1>4. ASSUME NEW r \in Requests, Fails(r) PROVE FreshInv' BY <1>4, FailsMoves
<1>5. ASSUME NEW r \in Generators, Load(r) PROVE FreshInv' BY <1>5, LoadMoves
<1>6. ASSUME NEW r \in Generators, SkipJudge(r) PROVE FreshInv' BY <1>6, SkipJudgeMoves
<1>7. ASSUME NEW r \in Generators, RunJudge(r) PROVE FreshInv' BY <1>7, RunJudgeMoves
<1>8. ASSUME NEW r \in Generators, Commit(r) PROVE FreshInv'
  <2>1. Others(r) /\ requests'[r].pc = "committed" BY <1>8, CommitMoves
  <2> QED BY <2>1
<1>9. ASSUME NEW r \in Generators, Refresh(r) PROVE FreshInv' BY <1>9, RefreshMoves
<1>10. ASSUME NEW r \in Readers, Find(r) PROVE FreshInv' BY <1>10, FindMoves
<1> QED
  BY Steps, <1>1, <1>2, <1>3, <1>4, <1>5, <1>6, <1>7, <1>8, <1>9, <1>10
     DEF vars, Turn, DeleteSession

\* A judging request that a step of another leaves alone.
LEMMA StillJudged ==
  ASSUME NEW q \in Requests, requests'[q] = requests[q], session' = session,
         requests[q].pc = "judging" => q \in Generators /\ Judged(requests[q], session)
  PROVE  requests'[q].pc = "judging" => q \in Generators /\ Judged(requests'[q], session')
BY DEF Judged

\* An element more gives a name more.
LEMMA OneNameMore ==
  ASSUME NEW D, NEW n, NEW f, NEW g, \A i \in D : g[i] = f[i]
  PROVE  {g[i].judge : i \in D \cup {n}} = {f[i].judge : i \in D} \cup {g[n].judge}
OBVIOUS

\* One judge more has judged, after those that have.
LEMMA JudgedOneMore ==
  ASSUME TypeOK, JudgingInv, NEW r \in Generators, RunJudge(r)
  PROVE  Judged(requests'[r], session')
<1> DEFINE q == requests[r]
           n == Len(q.made) + 1
           Names(m) == {JUDGE_NAMES[k] : k \in {k \in DOMAIN JUDGE_NAMES : k < m}}
<1>1. PICK e \in Evaluation :
         /\ q.pc = "judging" /\ requests'[r].seen = q.seen
         /\ e.turns = q.seen.turns
         /\ e.judge = JUDGE_NAMES[q.next] /\ e.judge \in q.seen.material
         /\ q.next \in DOMAIN JUDGE_NAMES
         /\ q.made \in Seq(Evaluation)
         /\ requests'[r].made = Append(q.made, e)
         /\ requests'[r].next = q.next + 1
         /\ session' = session /\ session.status # "gone"
  BY RunJudgeMoves
<1>2. Judged(requests[r], session) BY <1>1, Kinds DEF JudgingInv
<1>3. /\ DOMAIN q.made = 1..Len(q.made) /\ Len(q.made) \in Nat
      /\ DOMAIN requests'[r].made = 1..n
      /\ \A i \in DOMAIN q.made : requests'[r].made[i] = q.made[i]
      /\ requests'[r].made[n] = e
  <2> HIDE DEF q
  <2> QED BY <1>1, AppendToSet
<1>4. DOMAIN requests'[r].made = DOMAIN q.made \cup {n}
  <2> HIDE DEF q
  <2> QED BY <1>3
<1>5. Names(q.next + 1) = Names(q.next) \cup {JUDGE_NAMES[q.next]}
  <2>1. \A k \in DOMAIN JUDGE_NAMES : k \in Int BY JudgesAssumption
  <2>2. {k \in DOMAIN JUDGE_NAMES : k < q.next + 1} =
        {k \in DOMAIN JUDGE_NAMES : k < q.next} \cup {q.next}
    <3> HIDE DEF q
    <3> QED BY <1>1, <2>1
  <2> HIDE DEF q
  <2> QED BY <2>2
<1>6. {requests'[r].made[i].judge : i \in DOMAIN requests'[r].made} =
        Names(q.next + 1) \cap q.seen.material
  <2>1. {requests'[r].made[i].judge : i \in DOMAIN requests'[r].made} =
        {q.made[i].judge : i \in DOMAIN q.made} \cup {e.judge}
    <3>1. {requests'[r].made[i].judge : i \in DOMAIN q.made \cup {n}} =
          {q.made[i].judge : i \in DOMAIN q.made} \cup {requests'[r].made[n].judge}
      <4> HIDE DEF q, n
      <4> QED BY <1>3, OneNameMore
    <3> HIDE DEF q, n
    <3> QED BY <1>3, <1>4, <3>1
  <2>2. {q.made[i].judge : i \in DOMAIN q.made} = Names(q.next) \cap q.seen.material
    BY <1>2 DEF Judged
  <2> HIDE DEF q, n, Names
  <2> QED BY <1>1, <1>5, <2>1, <2>2
<1>7. ASSUME NEW i \in DOMAIN requests'[r].made, NEW k \in DOMAIN requests'[r].made, i < k
      PROVE  Before(requests'[r].made[i].judge, requests'[r].made[k].judge)
  <2>1. i \in DOMAIN q.made
    <3> HIDE DEF q
    <3> QED BY <1>3, <1>7
  <2>2. CASE k \in DOMAIN q.made BY <1>2, <1>3, <1>7, <2>1, <2>2 DEF Judged
  <2>3. CASE k = n
    <3>1. q.made[i].judge \in Names(q.next) BY <1>2, <2>1 DEF Judged
    <3>2. PICK m \in DOMAIN JUDGE_NAMES : m < q.next /\ q.made[i].judge = JUDGE_NAMES[m]
      BY <3>1
    <3>3. Before(q.made[i].judge, e.judge) BY <1>1, <3>2 DEF Before
    <3> HIDE DEF q, n
    <3> QED BY <1>3, <2>1, <2>3, <3>3
  <2> QED BY <1>4, <2>2, <2>3
<1>8. \A i \in DOMAIN requests'[r].made : requests'[r].made[i].turns = q.seen.turns
  <2>1. \A i \in DOMAIN q.made : q.made[i].turns = q.seen.turns BY <1>2 DEF Judged
  <2> HIDE DEF q, n
  <2> QED BY <1>1, <1>3, <1>4, <2>1
<1>9. /\ q.seen.status = "finished" /\ q.seen.turns # 0 /\ Attitude \in q.seen.material
      /\ session.status # "gone" => session = q.seen
  BY <1>2 DEF Judged
<1> HIDE DEF q, n
<1> QED BY <1>1, <1>6, <1>7, <1>8, <1>9 DEF Judged, Before

\* A judge without material is passed over.
LEMMA JudgedWithoutOne ==
  ASSUME NEW q, NEW s, NEW p, Judged(q, s), q.next \in Nat,
         JUDGE_NAMES[q.next] \notin q.seen.material,
         p.seen = q.seen, p.made = q.made, p.next = q.next + 1
  PROVE  Judged(p, s)
<1>1. \A k \in DOMAIN JUDGE_NAMES : k < q.next + 1 <=> k < q.next \/ k = q.next
  BY JudgesAssumption
<1>2. {JUDGE_NAMES[k] : k \in {k \in DOMAIN JUDGE_NAMES : k < q.next + 1}} \cap q.seen.material =
      {JUDGE_NAMES[k] : k \in {k \in DOMAIN JUDGE_NAMES : k < q.next}} \cap q.seen.material
  BY <1>1
<1>3. {p.made[i].judge : i \in DOMAIN p.made} =
        {JUDGE_NAMES[k] : k \in {k \in DOMAIN JUDGE_NAMES : k < p.next}} \cap p.seen.material
  BY <1>2 DEF Judged
<1>4. /\ p.seen.status = "finished" /\ p.seen.turns # 0 /\ Attitude \in p.seen.material
      /\ s.status # "gone" => s = p.seen
      /\ p.made # <<>> => s.status # "gone"
      /\ \A i \in DOMAIN p.made : p.made[i].turns = p.seen.turns
      /\ \A i, k \in DOMAIN p.made : i < k => Before(p.made[i].judge, p.made[k].judge)
  BY DEF Judged
<1> QED BY <1>3, <1>4 DEF Judged

\* What a judging request has read and made agrees with the session.
LEMMA JudgingStep ==
  ASSUME TypeOK, SessionInv, BegunInv, FreshInv, JudgingInv, [Next]_vars
  PROVE  JudgingInv'
<1> DEFINE Fine(q) == requests'[q].pc = "judging" =>
                        q \in Generators /\ Judged(requests'[q], session')
<1> SUFFICES ASSUME NEW q \in Requests PROVE Fine(q) BY DEF JudgingInv
<1>0. /\ requests[q].pc = "judging" => q \in Generators /\ Judged(requests[q], session)
      /\ requests'[q] = requests[q] /\ session' = session => Fine(q)
  BY StillJudged DEF JudgingInv
<1>1. CASE UNCHANGED vars BY <1>0, <1>1 DEF vars
<1>2. CASE Turn BY <1>0, <1>2 DEF Turn, Judged
<1>3. CASE DeleteSession
  <2>1. requests[q].pc = "judging" => q \in Generators /\ requests[q].made = <<>>
    BY <1>0, <1>3 DEF DeleteSession, Holders
  <2>2. session'.status = "gone" /\ requests' = requests
    BY <1>3 DEF DeleteSession, TypeOK, RowsOK, Session
  <2> QED BY <1>0, <2>1, <2>2 DEF Judged
<1>4. ASSUME NEW r \in Requests, Begin(r) PROVE Fine(q)
  BY <1>0, <1>4, BeginMoves DEF Others, Proceeds
<1>5. ASSUME NEW r \in Requests, Answer(r) PROVE Fine(q)
  BY <1>0, <1>5, AnswerMoves DEF Others, Proceeds
<1>6. ASSUME NEW r \in Requests, Fails(r) PROVE Fine(q)
  BY <1>0, <1>6, FailsMoves DEF Others, Proceeds
<1>7. ASSUME NEW r \in Generators, Load(r) PROVE Fine(q)
  <2>1. requests'[r].made = <<>> /\ requests'[r].next = 1 BY <1>7, Kinds, LoadMoves DEF FreshInv
  <2>2. {k \in DOMAIN JUDGE_NAMES : k < 1} = {} BY JudgesAssumption
  <2>3. Judged(requests'[r], session') BY <1>7, <2>1, <2>2, Kinds, LoadMoves DEF Judged, SessionInv
  <2> QED BY <1>0, <1>7, <2>3, Kinds, LoadMoves DEF Others, Proceeds
<1>8. ASSUME NEW r \in Generators, SkipJudge(r) PROVE Fine(q)
  <2>1. Judged(requests[r], session) BY <1>8, Kinds, SkipJudgeMoves DEF JudgingInv
  <2>2. Judged(requests'[r], session') BY <1>8, <2>1, Kinds, SkipJudgeMoves, JudgedWithoutOne
  <2> QED BY <1>0, <1>8, <2>2, Kinds, SkipJudgeMoves DEF Others, Proceeds
<1>9. ASSUME NEW r \in Generators, RunJudge(r) PROVE Fine(q)
  <2>1. Judged(requests'[r], session') BY <1>9, JudgedOneMore
  <2> QED BY <1>0, <1>9, <2>1, Kinds, RunJudgeMoves DEF Others, Proceeds
<1>10. ASSUME NEW r \in Generators, Commit(r) PROVE Fine(q)
  BY <1>0, <1>10, CommitMoves DEF Others, Proceeds
<1>11. ASSUME NEW r \in Generators, Refresh(r) PROVE Fine(q)
  BY <1>0, <1>11, Kinds, RefreshMoves DEF Others, Proceeds
<1>12. ASSUME NEW r \in Readers, Find(r) PROVE Fine(q)
  BY <1>0, <1>12, Kinds, FindMoves DEF Others, Proceeds
<1> QED
  BY Steps, <1>1, <1>2, <1>3, <1>4, <1>5, <1>6, <1>7, <1>8, <1>9, <1>10, <1>11, <1>12

\* Evaluations and inserts only go away, or inserts become evaluations.
LEMMA IdsKept ==
  ASSUME IdsInv, evaluations' \subseteq evaluations, nextId' = nextId,
         \A q \in Requests : requests'[q].made = requests[q].made \/ requests'[q].made = <<>>
  PROVE  IdsInv'
<1>1. \A q \in Requests : \A i \in DOMAIN requests'[q].made :
        requests'[q].made = requests[q].made /\ i \in DOMAIN requests[q].made
  OBVIOUS
<1> QED BY <1>1 DEF IdsInv

\* No two evaluations get one id, whoever makes them.
LEMMA IdsStep ==
  ASSUME TypeOK, BegunInv, JudgingInv, IdsInv, [Next]_vars
  PROVE  IdsInv'
<1> USE Kinds
<1>1. CASE UNCHANGED vars BY <1>1, IdsKept DEF vars
<1>2. CASE Turn BY <1>2, IdsKept DEF Turn
<1>3. CASE DeleteSession BY <1>3, IdsKept DEF DeleteSession
<1>4. ASSUME NEW r \in Requests, Begin(r) PROVE IdsInv'
  BY <1>4, IdsKept, BeginMoves DEF Others, Proceeds
<1>5. ASSUME NEW r \in Requests, Answer(r) PROVE IdsInv'
  BY <1>5, IdsKept, AnswerMoves DEF Others, Proceeds
<1>6. ASSUME NEW r \in Requests, Fails(r) PROVE IdsInv'
  BY <1>6, IdsKept, FailsMoves DEF Others, Proceeds
<1>7. ASSUME NEW r \in Generators, Load(r) PROVE IdsInv'
  BY <1>7, IdsKept, LoadMoves DEF Others, Proceeds
<1>8. ASSUME NEW r \in Generators, SkipJudge(r) PROVE IdsInv'
  BY <1>8, IdsKept, SkipJudgeMoves DEF Others, Proceeds
<1>9. ASSUME NEW r \in Generators, Refresh(r) PROVE IdsInv'
  BY <1>9, IdsKept, RefreshMoves DEF Others, Proceeds
<1>10. ASSUME NEW r \in Readers, Find(r) PROVE IdsInv'
  BY <1>10, IdsKept, FindMoves DEF Others, Proceeds
<1>11. ASSUME NEW r \in Generators, RunJudge(r) PROVE IdsInv'
  <2>1. PICK e \in Evaluation :
          /\ Proceeds(r) /\ e.id = nextId
          /\ requests[r].made \in Seq(Evaluation)
          /\ requests'[r].made = Append(requests[r].made, e)
          /\ nextId' = nextId + 1 /\ evaluations' = evaluations
    BY <1>11, RunJudgeMoves
  <2> DEFINE n == Len(requests[r].made) + 1
  <2>2. /\ DOMAIN requests'[r].made = DOMAIN requests[r].made \cup {n}
        /\ n \notin DOMAIN requests[r].made
        /\ \A i \in DOMAIN requests[r].made : requests'[r].made[i] = requests[r].made[i]
        /\ requests'[r].made[n] = e
    <3> DEFINE m == requests[r].made
    <3>1. /\ DOMAIN m = 1..Len(m) /\ Len(m) \in Nat
          /\ DOMAIN Append(m, e) = 1..Len(m) + 1
          /\ \A i \in DOMAIN m : Append(m, e)[i] = m[i]
          /\ Append(m, e)[Len(m) + 1] = e
      <4> HIDE DEF m
      <4> QED BY <2>1, AppendToSet
    <3>2. n \notin 1..Len(m) /\ 1..n = 1..Len(m) \cup {n} BY <3>1
    <3> QED BY <2>1, <3>1, <3>2
  <2>3. nextId \in Nat BY DEF TypeOK, RowsOK
  <2> HIDE DEF n
  <2>4. \A q \in Requests : \A i \in DOMAIN requests'[q].made :
          \/ q = r /\ i = n /\ requests'[q].made[i].id = nextId
          \/ /\ i \in DOMAIN requests[q].made /\ requests'[q].made[i] = requests[q].made[i]
             /\ requests[q].made[i].id < nextId /\ requests[q].made[i].id # nextId
    <3>1. \A q \in Requests : \A i \in DOMAIN requests[q].made :
            requests[q].made[i].id < nextId /\ requests[q].made[i].id # nextId
      <4>1. \A q \in Requests : \A i \in DOMAIN requests[q].made : requests[q].made[i].id \in Nat
        BY MadeTyped
      <4> QED BY <2>3, <4>1 DEF IdsInv
    <3> QED BY <2>1, <2>2, <3>1 DEF Others, Proceeds
  <2>5. \A d \in evaluations : d.id \in Nat /\ d.id < nextId /\ d.id # nextId
    BY <2>3 DEF IdsInv, TypeOK, RowsOK, Evaluation
  <2>6. \A q \in Requests : \A i \in DOMAIN requests'[q].made :
          /\ requests'[q].made[i].id < nextId'
          /\ \A d \in evaluations' : d.id # requests'[q].made[i].id
    <3>1. \A q \in Requests : \A i \in DOMAIN requests[q].made : requests[q].made[i].id \in Nat
      BY MadeTyped
    <3> SUFFICES ASSUME NEW q \in Requests, NEW i \in DOMAIN requests'[q].made
                 PROVE  /\ requests'[q].made[i].id < nextId + 1
                        /\ \A d \in evaluations : d.id # requests'[q].made[i].id
      BY <2>1
    <3>2. CASE requests'[q].made[i].id = nextId BY <2>3, <2>5, <3>2
    <3>3. CASE /\ i \in DOMAIN requests[q].made /\ requests'[q].made[i] = requests[q].made[i]
               /\ requests[q].made[i].id < nextId
      BY <2>3, <3>1, <3>3 DEF IdsInv
    <3> QED BY <2>4, <3>2, <3>3
  <2>7. \A q, p \in Requests : \A i \in DOMAIN requests'[q].made, k \in DOMAIN requests'[p].made :
          requests'[q].made[i].id = requests'[p].made[k].id => q = p /\ i = k
    BY <2>4 DEF IdsInv
  <2>8. /\ \A d \in evaluations' : d.id < nextId'
        /\ \A c, d \in evaluations' : c.id = d.id => c = d
    BY <2>1, <2>3, <2>5 DEF IdsInv
  <2> QED BY <2>6, <2>7, <2>8 DEF IdsInv
<1>12. ASSUME NEW r \in Generators, Commit(r) PROVE IdsInv'
  <2>1. /\ Proceeds(r) /\ requests'[r].made = <<>>
        /\ evaluations' = evaluations \cup Written(r) /\ nextId' = nextId
    BY <1>12, CommitMoves
  <2>2. \A e \in Written(r) : \E i \in DOMAIN requests[r].made : e = requests[r].made[i]
    BY DEF Written, ToSet
  <2>3. \A q \in Requests : \A i \in DOMAIN requests'[q].made :
          /\ q # r /\ requests'[q].made = requests[q].made
          /\ i \in DOMAIN requests[q].made
    BY <2>1 DEF Others, Proceeds
  <2>4. /\ \A d \in evaluations' : d.id < nextId'
        /\ \A c, d \in evaluations' : c.id = d.id => c = d
    BY <2>1, <2>2 DEF IdsInv
  <2>5. \A q \in Requests : \A i \in DOMAIN requests'[q].made :
          /\ requests'[q].made[i].id < nextId'
          /\ \A d \in evaluations' : d.id # requests'[q].made[i].id
          /\ \A p \in Requests : \A k \in DOMAIN requests'[p].made :
               requests'[q].made[i].id = requests'[p].made[k].id => q = p /\ i = k
    BY <2>1, <2>2, <2>3 DEF IdsInv
  <2> QED BY <2>4, <2>5 DEF IdsInv
<1> QED
  BY Steps, <1>1, <1>2, <1>3, <1>4, <1>5, <1>6, <1>7, <1>8, <1>9, <1>10, <1>11, <1>12

\* A report stays stored as its request wrote it.
LEMMA ReportsStep ==
  ASSUME TypeOK, BegunInv, FreshInv, JudgingInv, ReportsInv, [Next]_vars
  PROVE  ReportsInv'
<1> USE Kinds
<1>1. CASE UNCHANGED vars BY <1>1 DEF vars, ReportsInv, Past
<1>2. CASE Turn BY <1>2 DEF Turn, ReportsInv, Past
<1>3. CASE DeleteSession
  <2>1. session'.status = "gone" BY <1>3 DEF DeleteSession, TypeOK, RowsOK, Session
  <2>2. ToSet(reports') = {} BY <1>3 DEF DeleteSession, ToSet
  <2>3. requests' = requests BY <1>3 DEF DeleteSession
  <2> QED BY <2>1, <2>2, <2>3 DEF ReportsInv, Past
<1>4. ASSUME NEW r \in Requests, Begin(r) PROVE ReportsInv'
  BY <1>4, BeginMoves DEF ReportsInv, Past, Others, Proceeds, FreshInv
<1>5. ASSUME NEW r \in Requests, Proceeds(r), UNCHANGED <<session, reports>>,
             requests'[r].report = requests[r].report,
             requests'[r].pc \notin {"idle", "begun", "committed"},
             requests'[r].pc \in {"reading", "answered"} => Past(r)
      PROVE  ReportsInv'
  BY <1>5 DEF ReportsInv, Past, Others, Proceeds
<1>6. ASSUME NEW r \in Requests, Answer(r) \/ Fails(r) PROVE ReportsInv'
  BY <1>5, <1>6, AnswerMoves, FailsMoves DEF Past
<1>7. ASSUME NEW r \in Generators, Load(r) \/ SkipJudge(r) \/ Refresh(r) PROVE ReportsInv'
  BY <1>5, <1>7, LoadMoves, SkipJudgeMoves, RefreshMoves DEF Past
<1>8. ASSUME NEW r \in Generators, RunJudge(r) PROVE ReportsInv'
  BY <1>5, <1>8, RunJudgeMoves DEF Past
<1>9. ASSUME NEW r \in Generators, Commit(r) PROVE ReportsInv'
  <2>1. PICK p \in Report :
          /\ Proceeds(r) /\ requests[r].pc = "judging" /\ requests'[r].pc = "committed"
          /\ requests'[r].report = p /\ p.created_at = requests[r].began
          /\ reports' = Append(reports, p) /\ session' = session
    BY <1>9, CommitMoves
  <2>2. ToSet(reports') = ToSet(reports) \cup {p} BY <2>1, AppendToSet DEF TypeOK, RowsOK
  <2>3. p.created_at <= Cardinality(Requests)
    <3>1. requests[r].began \in 1..Cardinality(Begun) BY <2>1 DEF BegunInv, Begun
    <3>2. IsFiniteSet(Requests) BY RequestsAssumption DEF Requests
    <3>3. Cardinality(Begun) <= Cardinality(Requests) /\ Cardinality(Requests) \in Nat
      BY <3>2, CountsBegun, FS_Subset, FS_CardinalityType
    <3> QED BY <2>1, <3>1, <3>3, CountsBegun
  <2> QED BY <2>1, <2>2, <2>3 DEF ReportsInv, Past, Others, Proceeds
<1>10. ASSUME NEW r \in Readers, Find(r) PROVE ReportsInv'
  <2>1. r \notin Generators BY RequestsAssumption
  <2> QED BY <1>10, <2>1, FindMoves DEF ReportsInv, Past, Others, Proceeds
<1> QED BY Steps, <1>1, <1>2, <1>3, <1>4, <1>6, <1>7, <1>8, <1>9, <1>10

-----------------------------------------------------------------------------
(* The properties.                                                         *)

\* What is stored changes by a commit or when the session is deleted, and the session
\* by a turn, while there is no report of it.
LEMMA Stored ==
  ASSUME TypeOK, BegunInv, JudgingInv, [Next]_vars
  PROVE  \/ UNCHANGED <<session, evaluations, reports>>
         \/ Turn
         \/ DeleteSession
         \/ \E r \in Generators : Commit(r)
BY Steps, Kinds, BeginMoves, AnswerMoves, FailsMoves, LoadMoves, SkipJudgeMoves,
   RunJudgeMoves, RefreshMoves, FindMoves DEF vars

\* Evaluations stay those of the whole interview, and none are stored for a deleted one.
LEMMA FullStep ==
  ASSUME TypeOK, BegunInv, JudgingInv, JudgedInFull, NothingOutlivesSession, [Next]_vars
  PROVE  JudgedInFull' /\ NothingOutlivesSession'
<1> USE DEF JudgedInFull, NothingOutlivesSession
<1>1. CASE UNCHANGED <<session, evaluations, reports>> BY <1>1
<1>2. CASE Turn
  <2>1. evaluations' = {} BY <1>2 DEF Turn
  <2>2. session'.status # "gone" BY <1>2 DEF Turn
  <2> QED BY <2>1, <2>2
<1>3. CASE DeleteSession BY <1>3 DEF DeleteSession
<1>4. ASSUME NEW r \in Generators, Commit(r)
      PROVE  JudgedInFull' /\ NothingOutlivesSession'
  <2>1. /\ requests[r].pc = "judging" /\ evaluations' = evaluations \cup Written(r)
        /\ session' = session /\ session = requests[r].seen /\ session.status = "finished"
    BY <1>4, CommitMoves
  <2>2. \A e \in Written(r) : e.turns = session.turns
    BY <2>1, Kinds DEF JudgingInv, Judged, Written, ToSet
  <2> QED BY <2>1, <2>2
<1> QED BY Stored, <1>1, <1>2, <1>3, <1>4

\* The ids of a report that is committed, which are no report's so far.
LEMMA NewIds ==
  ASSUME TypeOK, BegunInv, JudgingInv, IdsInv, NEW r \in Generators, Commit(r)
  PROVE  \E p \in Report :
           /\ evaluations' = evaluations \cup Written(r)
           /\ DOMAIN reports' = DOMAIN reports \cup {Len(reports) + 1}
           /\ Len(reports) + 1 \notin DOMAIN reports
           /\ \A i \in DOMAIN reports : reports'[i] = reports[i]
           /\ reports'[Len(reports) + 1] = p
           /\ ToSet(p.judge_evaluation_ids) = {e.id : e \in Written(r)}
           /\ session' = session
           /\ {e.judge : e \in Written(r)} = session.material
           /\ \A d \in evaluations, e \in Written(r) : d.id # e.id
           /\ \A k, l \in DOMAIN p.judge_evaluation_ids : k < l =>
                \A d, e \in Written(r) :
                  d.id = p.judge_evaluation_ids[k] /\ e.id = p.judge_evaluation_ids[l]
                    => Before(d.judge, e.judge)
<1> DEFINE made == requests[r].made
<1>1. PICK p \in Report :
         /\ requests[r].pc = "judging"
         /\ p.judge_evaluation_ids = [i \in DOMAIN made |-> made[i].id]
         /\ reports' = Append(reports, p)
         /\ evaluations' = evaluations \cup Written(r)
         /\ session' = session
         /\ {made[i].judge : i \in DOMAIN made} = session.material
  BY CommitMoves
<1>2. /\ DOMAIN reports' = DOMAIN reports \cup {Len(reports) + 1}
      /\ Len(reports) + 1 \notin DOMAIN reports
      /\ \A i \in DOMAIN reports : reports'[i] = reports[i]
      /\ reports'[Len(reports) + 1] = p
  <2>1. /\ Len(reports) \in Nat /\ DOMAIN reports = 1..Len(reports)
        /\ DOMAIN reports' = 1..Len(reports) + 1
        /\ \A i \in DOMAIN reports : reports'[i] = reports[i]
        /\ reports'[Len(reports) + 1] = p
    BY <1>1, AppendToSet DEF TypeOK, RowsOK
  <2> QED BY <2>1
<1>3. Written(r) = {made[i] : i \in DOMAIN made} BY DEF Written, ToSet
<1> HIDE DEF made
<1>4. ToSet(p.judge_evaluation_ids) = {e.id : e \in Written(r)} BY <1>1, <1>3 DEF ToSet
<1>5. {e.judge : e \in Written(r)} = session.material BY <1>1, <1>3
<1>6. \A d \in evaluations, e \in Written(r) : d.id # e.id
  BY <1>3, Kinds DEF made, IdsInv
<1>7. ASSUME NEW k \in DOMAIN p.judge_evaluation_ids, NEW l \in DOMAIN p.judge_evaluation_ids,
             k < l, NEW d \in Written(r), NEW e \in Written(r),
             d.id = p.judge_evaluation_ids[k], e.id = p.judge_evaluation_ids[l]
      PROVE  Before(d.judge, e.judge)
  <2>1. k \in DOMAIN made /\ l \in DOMAIN made /\ d.id = made[k].id /\ e.id = made[l].id
    BY <1>1, <1>7
  <2>2. PICK i \in DOMAIN made, j \in DOMAIN made : d = made[i] /\ e = made[j] BY <1>3
  <2>3. i = k /\ j = l BY <2>1, <2>2, Kinds DEF made, IdsInv
  <2>4. Before(made[k].judge, made[l].judge)
    BY <1>1, <1>7, <2>1, Kinds DEF made, JudgingInv, Judged
  <2> QED BY <2>2, <2>3, <2>4
<1> QED BY <1>1, <1>2, <1>4, <1>5, <1>6, <1>7

\* A commit adds the evaluations of its report to those of the others.
LEMMA ReportedStep ==
  ASSUME TypeOK, SessionInv, BegunInv, JudgingInv, IdsInv, JudgedInFull, EvaluationsAreReported,
         [Next]_vars
  PROVE  EvaluationsAreReported'
<1>1. CASE UNCHANGED <<session, evaluations, reports>> BY <1>1 DEF EvaluationsAreReported, Before
<1>2. CASE Turn
  <2>1. evaluations = {} BY <1>2 DEF Turn, JudgedInFull
  <2>2. DOMAIN reports = {}
    <3> SUFFICES ASSUME NEW i \in DOMAIN reports PROVE FALSE OBVIOUS
    <3>1. {e.judge : e \in {e \in evaluations :
                            e.id \in ToSet(reports[i].judge_evaluation_ids)}} = session.material
      BY DEF EvaluationsAreReported
    <3> QED BY <2>1, <3>1 DEF SessionInv
  <2>3. evaluations' = {} /\ DOMAIN reports' = {} BY <1>2, <2>1, <2>2 DEF Turn
  <2> QED BY <2>3 DEF EvaluationsAreReported
<1>3. CASE DeleteSession
  <2>1. evaluations' = {} /\ DOMAIN reports' = {} BY <1>3 DEF DeleteSession
  <2> QED BY <2>1 DEF EvaluationsAreReported
<1>4. ASSUME NEW r \in Generators, Commit(r) PROVE EvaluationsAreReported'
  <2> DEFINE n == Len(reports) + 1
             M == Written(r)
             Ids(i) == ToSet(reports[i].judge_evaluation_ids)
  <2>1. PICK p \in Report :
          /\ evaluations' = evaluations \cup M
          /\ DOMAIN reports' = DOMAIN reports \cup {n} /\ n \notin DOMAIN reports
          /\ \A i \in DOMAIN reports : reports'[i] = reports[i]
          /\ reports'[n] = p
          /\ ToSet(p.judge_evaluation_ids) = {e.id : e \in M}
          /\ session' = session
          /\ {e.judge : e \in M} = session.material
          /\ \A d \in evaluations, e \in M : d.id # e.id
          /\ \A k, l \in DOMAIN p.judge_evaluation_ids : k < l =>
               \A d, e \in M : d.id = p.judge_evaluation_ids[k] /\ e.id = p.judge_evaluation_ids[l]
                                 => Before(d.judge, e.judge)
    BY <1>4, NewIds
  <2> HIDE DEF n, M
  <2>2. \A i \in DOMAIN reports : Ids(i) \subseteq {e.id : e \in evaluations}
    BY DEF EvaluationsAreReported
  <2>3. \A i \in DOMAIN reports, e \in M : e.id \notin Ids(i) BY <2>1, <2>2
  <2>4. ASSUME NEW e \in evaluations'
        PROVE  \E i \in DOMAIN reports' :
                 /\ e.id \in ToSet(reports'[i].judge_evaluation_ids)
                 /\ \A k \in DOMAIN reports' \ {i} :
                      e.id \notin ToSet(reports'[k].judge_evaluation_ids)
    <3>1. CASE e \in evaluations
      <4>1. PICK i \in DOMAIN reports :
              e.id \in Ids(i) /\ \A k \in DOMAIN reports \ {i} : e.id \notin Ids(k)
        BY <3>1 DEF EvaluationsAreReported
      <4>2. e.id \notin ToSet(p.judge_evaluation_ids) BY <2>1, <3>1
      <4> QED BY <2>1, <4>1, <4>2
    <3>2. CASE e \in M BY <2>1, <2>3, <3>2
    <3> QED BY <2>1, <3>1, <3>2
  <2>5. ASSUME NEW i \in DOMAIN reports', NEW ids, ids = reports'[i].judge_evaluation_ids
        PROVE  /\ ToSet(ids) \subseteq {e.id : e \in evaluations'}
               /\ {e.judge : e \in {e \in evaluations' : e.id \in ToSet(ids)}} = session'.material
               /\ \A k, l \in DOMAIN ids : k < l =>
                    \A d, e \in evaluations' :
                      d.id = ids[k] /\ e.id = ids[l] => Before(d.judge, e.judge)
    <3>0. \A k \in DOMAIN ids : ids[k] \in ToSet(ids) BY DEF ToSet
    <3>1. CASE i \in DOMAIN reports
      <4>1. ids = reports[i].judge_evaluation_ids BY <2>1, <2>5, <3>1
      <4>2. /\ ToSet(ids) \subseteq {e.id : e \in evaluations}
            /\ {e.judge : e \in {e \in evaluations : e.id \in ToSet(ids)}} = session.material
            /\ \A k, l \in DOMAIN ids : k < l =>
                 \A d, e \in evaluations :
                   d.id = ids[k] /\ e.id = ids[l] => Before(d.judge, e.judge)
        BY <3>1, <4>1 DEF EvaluationsAreReported
      <4>3. \A e \in evaluations' : e.id \in ToSet(ids) => e \in evaluations
        BY <2>1, <2>3, <3>1, <4>1
      <4>4. {e \in evaluations' : e.id \in ToSet(ids)} = {e \in evaluations : e.id \in ToSet(ids)}
        BY <2>1, <4>3
      <4> QED BY <2>1, <3>0, <4>2, <4>3, <4>4
    <3>2. CASE i = n
      <4>1. ids = p.judge_evaluation_ids BY <2>1, <2>5, <3>2
      <4>2. \A e \in evaluations' : e.id \in ToSet(ids) <=> e \in M BY <2>1, <4>1
      <4>3. {e \in evaluations' : e.id \in ToSet(ids)} = M BY <2>1, <4>2
      <4> QED BY <2>1, <3>0, <4>1, <4>2, <4>3
    <3> QED BY <2>1, <3>1, <3>2
  <2> QED BY <2>4, <2>5 DEF EvaluationsAreReported, Before
<1> QED BY Stored, <1>1, <1>2, <1>3, <1>4

\* A request that had ended before another began stays as it ended.
LEMMA EndedStay ==
  ASSUME TypeOK, BegunInv, JudgingInv, FreshInv, [Next]_vars, NEW g \in Ended
  PROVE  requests'[g] = requests[g]
<1> USE Kinds DEF Ended, Others, Proceeds
<1>1. ASSUME NEW r \in Requests, Others(r), requests[r].pc \notin {"answered", "failed"}
      PROVE  requests'[g] = requests[g]
  BY <1>1
<1>2. ASSUME NEW r \in Requests, Begin(r) \/ Answer(r) \/ Fails(r)
      PROVE  requests'[g] = requests[g]
  BY <1>1, <1>2, BeginMoves, AnswerMoves, FailsMoves DEF Fails
<1>3. ASSUME NEW r \in Generators,
             Load(r) \/ SkipJudge(r) \/ RunJudge(r) \/ Commit(r) \/ Refresh(r)
      PROVE  requests'[g] = requests[g]
  BY <1>1, <1>3, LoadMoves, SkipJudgeMoves, RunJudgeMoves, CommitMoves, RefreshMoves
<1>4. ASSUME NEW r \in Readers, Find(r) PROVE requests'[g] = requests[g]
  BY <1>1, <1>4, FindMoves
<1> QED BY Steps, <1>2, <1>3, <1>4 DEF vars, Turn, DeleteSession

\* A report read or written is not older than those answered before.
LEMMA ProgressStep ==
  ASSUME TypeOK, BegunInv, FreshInv, JudgingInv, ReportsInv, NothingOutlivesSession,
         ReadersSeeProgress, [Next]_vars
  PROVE  ReadersSeeProgress'
<1> DEFINE Fine(r) == \A g \in Generators \cap requests'[r].after :
                        requests'[g].pc = "answered" /\ requests'[r].report # NoReport =>
                          requests'[r].report.created_at >= requests'[g].began
<1> SUFFICES ASSUME NEW q \in Requests PROVE Fine(q) BY DEF ReadersSeeProgress
<1> USE Kinds
<1>1. \A g \in requests[q].after : requests'[g] = requests[g] BY EndedStay DEF BegunInv
<1>2. ASSUME requests'[q].after = requests[q].after, requests'[q].report = requests[q].report
      PROVE  Fine(q)
  BY <1>1, <1>2 DEF ReadersSeeProgress
<1>3. ASSUME NEW r \in Requests, Others(r), r # q PROVE Fine(q) BY <1>2, <1>3 DEF Others
<1>4. ASSUME NEW r \in Requests, Begin(r) PROVE Fine(q)
  <2>1. requests'[r].report = NoReport BY <1>4, BeginMoves DEF FreshInv
  <2> QED BY <1>3, <1>4, <2>1, BeginMoves
<1>5. ASSUME NEW r \in Requests, Answer(r) \/ Fails(r) PROVE Fine(q)
  BY <1>2, <1>3, <1>5, AnswerMoves, FailsMoves DEF Proceeds
<1>6. ASSUME NEW r \in Generators, Load(r) \/ SkipJudge(r) \/ RunJudge(r) \/ Refresh(r)
      PROVE  Fine(q)
  BY <1>2, <1>3, <1>6, LoadMoves, SkipJudgeMoves, RunJudgeMoves, RefreshMoves DEF Proceeds
<1>7. ASSUME NEW r \in Generators, Commit(r) PROVE Fine(q)
  <2>1. PICK p \in Report :
          Proceeds(r) /\ requests'[r].report = p /\ p.created_at = requests[r].began
    BY <1>7, CommitMoves
  <2>2. CASE q = r
    <3> SUFFICES ASSUME NEW g \in Generators \cap requests[r].after
                 PROVE  requests'[r].report.created_at >= requests'[g].began
      BY <2>1, <2>2 DEF Proceeds
    <3>1. requests[g].began < requests[r].began /\ r \in Begun /\ g \in Begun
      BY DEF BegunInv, Ended, Begun
    <3>2. requests[g].began \in Nat /\ requests[r].began \in Nat
      BY <3>1, CountsBegun DEF BegunInv
    <3> QED BY <1>1, <2>1, <2>2, <3>1, <3>2
  <2> QED BY <1>3, <2>1, <2>2 DEF Proceeds
<1>8. ASSUME NEW r \in Readers, Find(r) PROVE Fine(q)
  <2>1. /\ Proceeds(r) /\ requests'[r].report = LatestReport /\ reports # <<>>
    BY <1>8, FindMoves
  <2>2. CASE q = r
    <3> SUFFICES ASSUME NEW g \in Generators \cap requests[r].after, requests[g].pc = "answered"
                 PROVE  LatestReport.created_at >= requests[g].began
      BY <1>1, <2>1, <2>2 DEF Proceeds
    <3>1. requests[g].report \in ToSet(reports) /\ requests[g].report.created_at = requests[g].began
      BY <2>1 DEF ReportsInv, Past, NothingOutlivesSession
    <3>2. requests[g].report.created_at <= LatestReport.created_at
      BY <2>1, <3>1, LatestIsLatest DEF TypeOK
    <3>3. LatestReport.created_at \in Nat /\ requests[g].began \in Nat
      <4>1. ToSet(reports) \subseteq Report BY DEF TypeOK, RowsOK, ToSet
      <4>2. LatestReport \in Report BY <2>1, <4>1, LatestIsLatest DEF TypeOK
      <4> QED BY <3>1, <4>1, <4>2 DEF Report
    <3> QED BY <3>1, <3>2, <3>3
  <2> QED BY <1>3, <2>1, <2>2 DEF Proceeds
<1> QED
  BY <1>2, Steps, <1>4, <1>5, <1>6, <1>7, <1>8 DEF vars, Turn, DeleteSession

\* A session that is gone stays gone, and until then its reports stay stored.
LEMMA StoredReports ==
  ASSUME TypeOK, BegunInv, JudgingInv, [Next]_vars
  PROVE  /\ session.status = "gone" => session'.status = "gone"
         /\ session'.status # "gone" => ToSet(reports) \subseteq ToSet(reports')
<1>1. CASE UNCHANGED <<session, evaluations, reports>> BY <1>1
<1>2. CASE Turn BY <1>2 DEF Turn
<1>3. CASE DeleteSession BY <1>3 DEF DeleteSession, TypeOK, RowsOK, Session
<1>4. ASSUME NEW r \in Generators, Commit(r)
      PROVE  session' = session /\ ToSet(reports) \subseteq ToSet(reports')
  <2>1. PICK p \in Report : reports' = Append(reports, p) /\ session' = session
    BY <1>4, CommitMoves
  <2> QED BY <2>1, AppendToSet DEF TypeOK, RowsOK
<1> QED BY Stored, <1>1, <1>2, <1>3, <1>4

\* What is read is the latest report or the one just written, and it is stored.
LEMMA ReadingStep ==
  ASSUME TypeOK, BegunInv, FreshInv, JudgingInv, ReportsInv, ReadingInv, [Next]_vars
  PROVE  ReadingInv'
<1> DEFINE Fine(q) == requests'[q].pc = "reading" /\ session'.status # "gone" =>
                        requests'[q].report \in ToSet(reports')
<1> SUFFICES ASSUME NEW q \in Requests PROVE Fine(q) BY DEF ReadingInv
<1> USE Kinds
<1>1. ASSUME requests[q].pc = "reading" => requests'[q].report = requests[q].report,
             requests'[q].pc = "reading" => requests[q].pc = "reading"
      PROVE  Fine(q)
  BY <1>1, StoredReports DEF ReadingInv
<1>2. ASSUME NEW r \in Requests, Others(r), r # q PROVE Fine(q) BY <1>1, <1>2 DEF Others
<1>3. CASE UNCHANGED requests BY <1>1, <1>3
<1>4. ASSUME NEW r \in Requests, Begin(r) \/ Answer(r) \/ Fails(r) PROVE Fine(q)
  BY <1>1, <1>2, <1>4, BeginMoves, AnswerMoves, FailsMoves DEF Proceeds
<1>5. ASSUME NEW r \in Generators, Load(r) \/ SkipJudge(r) \/ RunJudge(r) \/ Commit(r)
      PROVE  Fine(q)
  BY <1>1, <1>2, <1>5, LoadMoves, SkipJudgeMoves, RunJudgeMoves, CommitMoves DEF Proceeds
<1>6. ASSUME NEW r \in Generators, Refresh(r) PROVE Fine(q)
  <2>1. requests[r].report \in ToSet(reports) BY <1>6 DEF Refresh
  <2> QED BY <1>2, <1>6, <2>1, RefreshMoves DEF Proceeds
<1>7. ASSUME NEW r \in Readers, Find(r) PROVE Fine(q)
  <2>1. reports # <<>> BY <1>7, FindMoves
  <2>2. LatestReport \in ToSet(reports) BY <2>1, LatestIsLatest DEF TypeOK
  <2> QED BY <1>2, <1>7, <2>2, FindMoves DEF Proceeds
<1> QED
  BY Steps, <1>3, <1>4, <1>5, <1>6, <1>7 DEF vars, Turn, DeleteSession

\* An answer shows all of its report, and is empty only for a session that is gone.
LEMMA WholeStep ==
  ASSUME TypeOK, BegunInv, FreshInv, JudgingInv, ReadingInv, AnswersAreWhole,
         EvaluationsAreReported, NothingOutlivesSession, [Next]_vars
  PROVE  AnswersAreWhole'
<1> DEFINE Fine(q) == requests'[q].pc = "answered" =>
                        \/ requests'[q].shown = requests'[q].report.judge_evaluation_ids
                        \/ session'.status = "gone" /\ requests'[q].shown = <<>>
<1> SUFFICES ASSUME NEW q \in Requests PROVE Fine(q) BY DEF AnswersAreWhole
<1> USE Kinds
<1>1. CASE requests[q].pc = "answered"
  <2>1. requests'[q] = requests[q] BY <1>1, EndedStay DEF Ended
  <2> QED BY <1>1, <2>1, StoredReports DEF AnswersAreWhole
<1>2. CASE requests[q].pc # "answered" /\ ~Answer(q)
  <2>1. ASSUME NEW r \in Requests, Others(r), requests'[r].pc # "answered" \/ Answer(r)
        PROVE  Fine(q)
    BY <1>2, <2>1 DEF Others
  <2>2. ASSUME NEW r \in Requests, Begin(r) \/ Answer(r) \/ Fails(r) PROVE Fine(q)
    BY <2>1, <2>2, BeginMoves, AnswerMoves, FailsMoves DEF Proceeds
  <2>3. ASSUME NEW r \in Generators,
               Load(r) \/ SkipJudge(r) \/ RunJudge(r) \/ Commit(r) \/ Refresh(r)
        PROVE  Fine(q)
    BY <2>1, <2>3, LoadMoves, SkipJudgeMoves, RunJudgeMoves, CommitMoves, RefreshMoves
       DEF Proceeds
  <2>4. ASSUME NEW r \in Readers, Find(r) PROVE Fine(q)
    BY <2>1, <2>4, FindMoves DEF Proceeds
  <2> QED BY Steps, <1>2, <2>2, <2>3, <2>4 DEF vars, Turn, DeleteSession
<1>3. CASE Answer(q)
  <2>1. /\ requests[q].pc = "reading" /\ requests'[q].report = requests[q].report
        /\ session' = session
    BY <1>3, AnswerMoves
  <2>2. requests'[q].shown = Fetched(requests[q].report)
    BY <1>3 DEF Answer, TypeOK, RequestsOK, Request
  <2>3. CASE session.status = "gone"
    <3>1. evaluations = {} BY <2>3 DEF NothingOutlivesSession
    <3> QED BY <2>1, <2>2, <2>3, <3>1, FetchedNone
  <2>4. CASE session.status # "gone"
    <3>1. requests[q].report \in ToSet(reports) BY <2>1, <2>4 DEF ReadingInv
    <3>2. PICK i \in DOMAIN reports : reports[i] = requests[q].report BY <3>1 DEF ToSet
    <3>3. requests[q].report \in Report
      <4>1. reports \in Seq(Report) BY DEF TypeOK, RowsOK
      <4>2. reports[i] \in Report BY <4>1
      <4> QED BY <3>2, <4>2
    <3>4. ToSet(reports[i].judge_evaluation_ids) \subseteq {e.id : e \in evaluations}
      BY DEF EvaluationsAreReported
    <3> QED BY <2>1, <2>2, <3>2, <3>3, <3>4, FetchedWhole
  <2> QED BY <2>3, <2>4
<1> QED BY <1>1, <1>2, <1>3

-----------------------------------------------------------------------------
(* The theorems.                                                           *)

\* The invariant holds at first.
LEMMA InitIInv == Init => IInv
<1> SUFFICES ASSUME Init PROVE IInv OBVIOUS
<1> USE DEF Init
<1>1. RowsOK
  <2>1. NewSession \in Session
    BY JudgesAssumption, MaxTurnsAssumption DEF NewSession, Session, Judges
  <2> QED BY <2>1 DEF RowsOK
<1>2. RequestsOK
  <2>1. NewSession \in Session
    BY JudgesAssumption, MaxTurnsAssumption DEF NewSession, Session, Judges
  <2>2. Idle \in Request({<<>>}) BY <2>1 DEF Idle, Request
  <2> QED BY <2>2 DEF RequestsOK
<1>3. \A r \in Requests : requests[r] = Idle OBVIOUS
<1>4. /\ Idle.pc = "idle" /\ Idle.after = {} /\ Idle.made = <<>> /\ Idle.next = 1
      /\ Idle.report = NoReport
  BY DEF Idle
<1>5. SessionInv BY DEF SessionInv, NewSession
<1>6. Begun = {} BY <1>3, <1>4 DEF Begun
<1>7. BegunInv BY <1>3, <1>4, <1>6 DEF BegunInv
<1>8. FreshInv /\ JudgingInv BY <1>3, <1>4 DEF FreshInv, JudgingInv
<1>9. IdsInv BY <1>3, <1>4 DEF IdsInv
<1>10. ReportsInv BY <1>3, <1>4, Kinds DEF ReportsInv, Past, ToSet
<1>11. EvaluationsAreReported /\ JudgedInFull /\ NothingOutlivesSession
  BY DEF EvaluationsAreReported, JudgedInFull, NothingOutlivesSession
<1>12. ReadersSeeProgress BY <1>3, <1>4 DEF ReadersSeeProgress
<1>13. ReadingInv /\ AnswersAreWhole BY <1>3, <1>4 DEF ReadingInv, AnswersAreWhole
<1> QED
  BY <1>1, <1>2, <1>5, <1>7, <1>8, <1>9, <1>10, <1>11, <1>12, <1>13 DEF IInv, TypeOK

\* Every step keeps the invariant.
LEMMA NextIInv == IInv /\ [Next]_vars => IInv'
<1> SUFFICES ASSUME IInv, [Next]_vars PROVE IInv' OBVIOUS
<1> USE DEF IInv
<1>1. TypeOK' BY RowsStep, RequestsStep DEF TypeOK
<1>2. SessionInv' BY SessionStep
<1>3. BegunInv' /\ FreshInv' /\ JudgingInv' BY BegunStep, FreshStep, JudgingStep
<1>4. IdsInv' /\ ReportsInv' BY IdsStep, ReportsStep
<1>5. EvaluationsAreReported' BY ReportedStep
<1>6. JudgedInFull' /\ NothingOutlivesSession' BY FullStep
<1>7. ReadersSeeProgress' BY ProgressStep
<1>8. ReadingInv' /\ AnswersAreWhole' BY ReadingStep, WholeStep
<1> QED BY <1>1, <1>2, <1>3, <1>4, <1>5, <1>6, <1>7, <1>8

\* The inductive invariant of the reports holds throughout.
THEOREM Invariance == Spec => []IInv
BY InitIInv, NextIInv, PTL DEF Spec

\* However many reports are generated at once, every stored evaluation belongs to one of
\* them, which has one of each judge with material, in order (generate_report).
THEOREM EvaluationsReported == Spec => []EvaluationsAreReported
<1>1. IInv => EvaluationsAreReported BY DEF IInv
<1> QED BY <1>1, Invariance, PTL

\* Every stored evaluation is of the whole of a finished interview, although the session
\* is read without a lock.
THEOREM FullyJudged == Spec => []JudgedInFull
<1>1. IInv => JudgedInFull BY DEF IInv
<1> QED BY <1>1, Invariance, PTL

\* No report outlives its session or is added to it later, whenever it is deleted.
THEOREM NothingOutlives == Spec => []NothingOutlivesSession
<1>1. IInv => NothingOutlivesSession BY DEF IInv
<1> QED BY <1>1, Invariance, PTL

\* No reader and no generator gets a report older than one answered before it began.
THEOREM ProgressSeen == Spec => []ReadersSeeProgress
<1>1. IInv => ReadersSeeProgress BY DEF IInv
<1> QED BY <1>1, Invariance, PTL

\* An answer shows the evaluations of its report, all of them in their order, also when
\* reports are written and the account is deleted around it (get_report_evaluations).
THEOREM AnswersWhole == Spec => []AnswersAreWhole
<1>1. IInv => AnswersAreWhole BY DEF IInv
<1> QED BY <1>1, Invariance, PTL
=============================================================================
