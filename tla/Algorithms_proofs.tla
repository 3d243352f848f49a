-------------------------- MODULE Algorithms_proofs --------------------------
(***************************************************************************)
(* The two computations of the server, for any requests, durations,        *)
(* scores, hints and sets of phases reached: the minutes of a plan add up, *)
(* the split is fair, urgency grows by stages, what is offered is          *)
(* accepted, and the overall score lies within the adjusted scores.        *)
(***************************************************************************)
EXTENDS InterviewPresets, ReportScoring, FiniteSetTheorems, FunctionTheorems, TLAPS

-----------------------------------------------------------------------------
(* Ranks.                                                                  *)

\* Before is an order: of two members one comes before the other, with all before it.
IsOrder(S, before) ==
  /\ before \in [S -> SUBSET S]
  /\ \A p \in S : p \notin before[p]
  /\ \A p \in S : \A q \in S \ {p} :
       \/ p \in before[q] /\ before[p] \subseteq before[q]
       \/ q \in before[p] /\ before[q] \subseteq before[p]

\* The ranks of n ordered members are the numbers from 0 to n - 1.
LEMMA RankIsBijection ==
  ASSUME NEW S, IsFiniteSet(S), NEW before, IsOrder(S, before)
  PROVE  [p \in S |-> Cardinality(before[p])] \in Bijection(S, 0..Cardinality(S) - 1)
<1> DEFINE n == Cardinality(S)
           rank == [p \in S |-> Cardinality(before[p])]
<1>0. n \in Nat BY FS_CardinalityType
<1>1. ASSUME NEW p \in S
      PROVE  /\ IsFiniteSet(before[p])
             /\ rank[p] \in 0..n - 1
  <2>1. before[p] \subseteq S \ {p} BY DEF IsOrder
  <2>2. IsFiniteSet(S \ {p}) /\ Cardinality(S \ {p}) = n - 1 BY FS_RemoveElement
  <2>3. IsFiniteSet(before[p]) /\ Cardinality(before[p]) <= n - 1 BY <2>1, <2>2, FS_Subset
  <2> QED BY <1>0, <2>3, FS_CardinalityType
<1>2. ASSUME NEW p \in S, NEW q \in S, p \in before[q], before[p] \subseteq before[q]
      PROVE  rank[p] # rank[q]
  <2>1. before[p] # before[q] BY <1>2 DEF IsOrder
  <2> QED BY <1>1, <1>2, <2>1, FS_Subset
<1>3. ASSUME NEW p \in S, NEW q \in S, p # q PROVE rank[p] # rank[q]
  BY <1>2, <1>3 DEF IsOrder
<1>4. rank \in [S -> 0..n - 1] BY <1>1
<1> HIDE DEF rank
<1>5. rank \in Injection(S, 0..n - 1) BY <1>3, <1>4 DEF Injection, IsInjective
<1>6. IsFiniteSet(0..n - 1) /\ Cardinality(0..n - 1) = n BY <1>0, FS_Interval
<1>7. rank \in Surjection(S, 0..n - 1) BY <1>5, <1>6, FS_Injection
<1>8. rank \in Bijection(S, 0..n - 1) BY <1>5, <1>7 DEF Bijection
<1> QED BY <1>8 DEF rank

\* So each rank is taken, and k members have a rank below k.
LEMMA Ranking ==
  ASSUME NEW S, IsFiniteSet(S), NEW before, IsOrder(S, before)
  PROVE  /\ \A p \in S : Cardinality(before[p]) \in 0..Cardinality(S) - 1
         /\ \A k \in 0..Cardinality(S) - 1 : \E p \in S : Cardinality(before[p]) = k
         /\ \A p \in S : \A q \in S :
              Cardinality(before[p]) = Cardinality(before[q]) => p = q
         /\ \A k \in 0..Cardinality(S) :
              Cardinality({p \in S : Cardinality(before[p]) < k}) = k
<1> DEFINE n == Cardinality(S)
           rank == [p \in S |-> Cardinality(before[p])]
<1>0. n \in Nat BY FS_CardinalityType
<1>1. rank \in Bijection(S, 0..n - 1) BY RankIsBijection
<1>2. \A p \in S : rank[p] = Cardinality(before[p]) OBVIOUS
<1> HIDE DEF rank
<1>3. /\ \A p \in S : rank[p] \in 0..n - 1
      /\ \A k \in 0..n - 1 : \E p \in S : rank[p] = k
      /\ \A p \in S : \A q \in S : rank[p] = rank[q] => p = q
  BY <1>1 DEF Bijection, Injection, IsInjective, Surjection
<1>4. ASSUME NEW k \in 0..n PROVE Cardinality({p \in S : rank[p] < k}) = k
  <2> DEFINE low == {p \in S : rank[p] < k}
             f == [p \in low |-> rank[p]]
  <2>1. IsFiniteSet(low) BY FS_Subset
  <2>2. k \in Nat /\ \A i \in 0..k - 1 : i \in 0..n - 1 /\ i < k BY <1>0
  <2>3. \A p \in low : f[p] \in 0..k - 1 BY <1>0, <1>3, <2>2
  <2>4. \A i \in 0..k - 1 : \E p \in low : f[p] = i BY <1>3, <2>2
  <2>5. \A p \in low : \A q \in low : f[p] = f[q] => p = q BY <1>3
  <2>6. f \in [low -> 0..k - 1] BY <2>3
  <2> HIDE DEF f, low
  <2>7. f \in Bijection(low, 0..k - 1)
    BY <2>4, <2>5, <2>6 DEF Bijection, Injection, IsInjective, Surjection
  <2>8. ExistsBijection(low, 0..k - 1) BY <2>7 DEF ExistsBijection
  <2>9. Cardinality(0..k - 1) = k BY <2>2, FS_Interval
  <2>10. Cardinality(low) = k BY <2>1, <2>8, <2>9, FS_Bijection
  <2> QED BY <2>10 DEF low
<1>5. \A k \in 0..n : {p \in S : rank[p] < k} = {p \in S : Cardinality(before[p]) < k}
  BY <1>2
<1> QED BY <1>2, <1>3, <1>4, <1>5
-----------------------------------------------------------------------------
(* Sums over phases.                                                       *)

LEMMA PhasesAre ==
  /\ Phases = {"background_check", "project_drill_down", "technical_interview",
               "coding_challenge", "general_technical", "career_motivation",
               "candidate_questions"}
  /\ IsFiniteSet(Phases)
<1>1. DOMAIN INTERVIEW_PHASES = 1..7 BY DEF INTERVIEW_PHASES
<1>2. 1..7 = {1, 2, 3, 4, 5, 6, 7} OBVIOUS
<1>3. Phases = {INTERVIEW_PHASES[i] : i \in {1, 2, 3, 4, 5, 6, 7}}
  BY <1>1, <1>2 DEF Phases, ToSet
<1>4. Phases = {"background_check", "project_drill_down", "technical_interview",
                "coding_challenge", "general_technical", "career_motivation",
                "candidate_questions"}
  BY <1>3 DEF INTERVIEW_PHASES, CODING_PHASE
<1>5. IsFiniteSet({}) BY FS_EmptySet
<1>6. IsFiniteSet({"background_check", "project_drill_down", "technical_interview",
                   "coding_challenge", "general_technical", "career_motivation",
                   "candidate_questions"})
  <2>1. IsFiniteSet({} \cup {"background_check"}) BY <1>5, FS_AddElement
  <2>2. IsFiniteSet({"background_check"} \cup {"project_drill_down"}) BY <2>1, FS_AddElement
  <2>3. IsFiniteSet({"background_check", "project_drill_down"} \cup {"technical_interview"})
    BY <2>2, FS_AddElement
  <2>4. IsFiniteSet({"background_check", "project_drill_down", "technical_interview"}
                    \cup {"coding_challenge"})
    BY <2>3, FS_AddElement
  <2>5. IsFiniteSet({"background_check", "project_drill_down", "technical_interview",
                     "coding_challenge"} \cup {"general_technical"})
    BY <2>4, FS_AddElement
  <2>6. IsFiniteSet({"background_check", "project_drill_down", "technical_interview",
                     "coding_challenge", "general_technical"} \cup {"career_motivation"})
    BY <2>5, FS_AddElement
  <2>7. IsFiniteSet({"background_check", "project_drill_down", "technical_interview",
                     "coding_challenge", "general_technical", "career_motivation"}
                    \cup {"candidate_questions"})
    BY <2>6, FS_AddElement
  <2> QED BY <2>7
<1> QED BY <1>4, <1>6

\* The sum of integers is one, and sums add up, scale and compare as their parts do.
LEMMA SumType ==
  ASSUME NEW S \in SUBSET Phases, NEW f \in [S -> Int]
  PROVE  PhaseSum(f) \in Int
<1>1. \A p \in Phases : Of(f, p) \in Int BY DEF Of
<1> QED BY <1>1, PhasesAre DEF PhaseSum

LEMMA SumOfSums ==
  ASSUME NEW S \in SUBSET Phases, NEW f \in [S -> Int], NEW g \in [S -> Int]
  PROVE  PhaseSum([p \in S |-> f[p] + g[p]]) = PhaseSum(f) + PhaseSum(g)
<1> DEFINE h == [p \in S |-> f[p] + g[p]]
<1>1. \A p \in Phases : /\ Of(f, p) \in Int /\ Of(g, p) \in Int
                        /\ Of(h, p) = Of(f, p) + Of(g, p)
  BY DEF Of
<1> HIDE DEF h
<1>2. PhaseSum(h) = PhaseSum(f) + PhaseSum(g) BY <1>1, PhasesAre DEF PhaseSum
<1> QED BY <1>2 DEF h

LEMMA SumScaled ==
  ASSUME NEW S \in SUBSET Phases, NEW f \in [S -> Int], NEW c \in Int
  PROVE  PhaseSum([p \in S |-> c * f[p]]) = c * PhaseSum(f)
<1> DEFINE h == [p \in S |-> c * f[p]]
<1>1. c * 0 = 0 OBVIOUS
<1>2. \A p \in Phases : Of(f, p) \in Int /\ Of(h, p) = c * Of(f, p) BY <1>1 DEF Of
<1>3. \A i, j, k, l, m, n, o \in Int :
        c * i + c * j + c * k + c * l + c * m + c * n + c * o = c * (i + j + k + l + m + n + o)
  OBVIOUS
<1> HIDE DEF h
<1>4. PhaseSum(h) = c * PhaseSum(f) BY <1>2, <1>3, PhasesAre DEF PhaseSum
<1> QED BY <1>4 DEF h

LEMMA SumBelow ==
  ASSUME NEW S \in SUBSET Phases, NEW f \in [S -> Int], NEW g \in [S -> Int],
         \A p \in S : f[p] <= g[p]
  PROVE  PhaseSum(f) <= PhaseSum(g)
<1>1. \A p \in Phases : Of(f, p) \in Int /\ Of(g, p) \in Int /\ Of(f, p) <= Of(g, p)
  BY DEF Of
<1> QED BY <1>1, PhasesAre DEF PhaseSum

\* A set has as many phases as its members sum up to when each counts for one.
LEMMA SumOfOnes ==
  ASSUME NEW S \in SUBSET Phases, NEW Q \in SUBSET S
  PROVE  PhaseSum([p \in S |-> IF p \in Q THEN 1 ELSE 0]) = Cardinality(Q)
<1> DEFINE ones == [p \in S |-> IF p \in Q THEN 1 ELSE 0]
           One(p) == IF p \in Q THEN 1 ELSE 0
<1>1. \A p \in Phases : Of(ones, p) = One(p) BY DEF Of
<1>2. ASSUME NEW R, IsFiniteSet(R), NEW p, p \notin R
      PROVE  /\ IsFiniteSet(R \cup {p})
             /\ Cardinality(Q \cap (R \cup {p})) = Cardinality(Q \cap R) + One(p)
             /\ Cardinality(Q \cap R) \in Nat
  <2>1. IsFiniteSet(Q \cap R) BY <1>2, FS_Subset
  <2>2. Q \cap (R \cup {p}) = IF p \in Q THEN (Q \cap R) \cup {p} ELSE Q \cap R OBVIOUS
  <2>3. Cardinality((Q \cap R) \cup {p}) = Cardinality(Q \cap R) + 1
    BY <1>2, <2>1, FS_AddElement
  <2>4. Cardinality(Q \cap R) \in Nat BY <2>1, FS_CardinalityType
  <2>5. IsFiniteSet(R \cup {p}) BY <1>2, FS_AddElement
  <2>6. CASE p \in Q BY <2>2, <2>3, <2>4, <2>5, <2>6
  <2>7. CASE p \notin Q
    <3>1. Cardinality(Q \cap R) + 0 = Cardinality(Q \cap R) BY <2>4
    <3> QED BY <2>2, <2>4, <2>5, <2>7, <3>1
  <2> QED BY <2>6, <2>7
<1> DEFINE R1 == {"background_check"}
           R2 == R1 \cup {"project_drill_down"}
           R3 == R2 \cup {"technical_interview"}
           R4 == R3 \cup {"coding_challenge"}
           R5 == R4 \cup {"general_technical"}
           R6 == R5 \cup {"career_motivation"}
           R7 == R6 \cup {"candidate_questions"}
<1>3. Q \cap R7 = Q BY PhasesAre
<1>4. /\ "project_drill_down" \notin R1 /\ "technical_interview" \notin R2
      /\ "coding_challenge" \notin R3 /\ "general_technical" \notin R4
      /\ "career_motivation" \notin R5 /\ "candidate_questions" \notin R6
  OBVIOUS
<1>5. {} \cup {"background_check"} = R1 /\ Q \cap {} = {} OBVIOUS
<1>6. IsFiniteSet({}) /\ Cardinality({}) = 0 /\ "background_check" \notin {} BY FS_EmptySet
<1> HIDE DEF ones, One
<1>7. IsFiniteSet(R1) /\ Cardinality(Q \cap R1) = One("background_check")
  <2>1. /\ IsFiniteSet({} \cup {"background_check"})
        /\ Cardinality(Q \cap ({} \cup {"background_check"}))
             = Cardinality(Q \cap {}) + One("background_check")
    BY <1>2, <1>6
  <2>2. 0 + One("background_check") = One("background_check") BY DEF One
  <2> QED BY <1>5, <1>6, <2>1, <2>2
<1> HIDE DEF R1
<1>8. /\ IsFiniteSet(R2)
      /\ Cardinality(Q \cap R2) = Cardinality(Q \cap R1) + One("project_drill_down")
  BY <1>2, <1>4, <1>7
<1> HIDE DEF R2
<1>9. /\ IsFiniteSet(R3)
      /\ Cardinality(Q \cap R3) = Cardinality(Q \cap R2) + One("technical_interview")
  BY <1>2, <1>4, <1>8
<1> HIDE DEF R3
<1>10. /\ IsFiniteSet(R4)
       /\ Cardinality(Q \cap R4) = Cardinality(Q \cap R3) + One("coding_challenge")
  BY <1>2, <1>4, <1>9
<1> HIDE DEF R4
<1>11. /\ IsFiniteSet(R5)
       /\ Cardinality(Q \cap R5) = Cardinality(Q \cap R4) + One("general_technical")
  BY <1>2, <1>4, <1>10
<1> HIDE DEF R5
<1>12. /\ IsFiniteSet(R6)
       /\ Cardinality(Q \cap R6) = Cardinality(Q \cap R5) + One("career_motivation")
  BY <1>2, <1>4, <1>11
<1> HIDE DEF R6
<1>13. Cardinality(Q \cap R7) = Cardinality(Q \cap R6) + One("candidate_questions")
  BY <1>2, <1>4, <1>12
<1> HIDE DEF R7
<1>14. PhaseSum(ones)
         = One("background_check") + One("project_drill_down") + One("technical_interview")
           + One("coding_challenge") + One("general_technical") + One("career_motivation")
           + One("candidate_questions")
  BY <1>1, PhasesAre DEF PhaseSum
<1>15. PhaseSum(ones) = Cardinality(Q)
  BY <1>3, <1>7, <1>8, <1>9, <1>10, <1>11, <1>12, <1>13, <1>14
<1> QED BY <1>15 DEF ones
-----------------------------------------------------------------------------
(* The split of the minutes.                                               *)

LEMMA Division ==
  ASSUME NEW x \in Nat, NEW t \in Nat \ {0}
  PROVE  /\ x \div t \in Nat /\ x % t \in 0..t - 1
         /\ x = t * (x \div t) + (x % t)
OBVIOUS

LEMMA Weights ==
  /\ PHASE_TIME_WEIGHTS \in [Phases -> 1..3]
  /\ \A s \in Seq(Phases) : s # <<>> =>
       /\ ToSet(s) \subseteq Phases /\ ToSet(s) # {} /\ IsFiniteSet(ToSet(s))
       /\ TotalWeight(s) \in Nat \ {0}
<1>1. PHASE_TIME_WEIGHTS \in [Phases -> 1..3] BY DEF PHASE_TIME_WEIGHTS
<1>2. ASSUME NEW s \in Seq(Phases), s # <<>>
      PROVE  /\ ToSet(s) \subseteq Phases /\ ToSet(s) # {} /\ IsFiniteSet(ToSet(s))
             /\ TotalWeight(s) \in Nat \ {0}
  <2> DEFINE S == ToSet(s)
             w == [p \in S |-> PHASE_TIME_WEIGHTS[p]]
             ones == [p \in S |-> IF p \in S THEN 1 ELSE 0]
  <2>1. DOMAIN s = 1..Len(s) /\ Len(s) \in Nat \ {0} /\ \A i \in 1..Len(s) : s[i] \in Phases
    BY <1>2
  <2>2. 1 \in DOMAIN s BY <2>1
  <2>3. S \subseteq Phases /\ S # {} BY <2>1, <2>2 DEF ToSet
  <2>4. IsFiniteSet(S) BY <2>3, PhasesAre, FS_Subset
  <2>5. w \in [S -> Int] /\ ones \in [S -> Int] /\ \A p \in S : ones[p] <= w[p]
    BY <1>1, <2>3
  <2>6. PhaseSum(ones) = Cardinality(S) BY <2>3, SumOfOnes
  <2>7. Cardinality(S) \in Nat /\ Cardinality(S) # 0
    BY <2>3, <2>4, FS_CardinalityType, FS_EmptySet
  <2> HIDE DEF w, ones, S
  <2>8. PhaseSum(ones) <= PhaseSum(w) /\ PhaseSum(w) \in Int
    BY <2>3, <2>5, SumBelow, SumType
  <2>9. PhaseSum(w) \in Nat \ {0} BY <2>6, <2>7, <2>8
  <2>10. TotalWeight(s) = PhaseSum(w) BY DEF TotalWeight, w, S
  <2> QED BY <2>3, <2>4, <2>9, <2>10 DEF S
<1> QED BY <1>1, <1>2

\* The share of a phase in whole minutes and the fraction that is left.
LEMMA Shares ==
  ASSUME NEW s \in Seq(Phases), s # <<>>, NEW d \in Nat, NEW p \in ToSet(s)
  PROVE  /\ WholeMinutes(s, d, p) \in Nat
         /\ Fraction(s, d, p) \in 0..TotalWeight(s) - 1
         /\ d * PHASE_TIME_WEIGHTS[p]
              = TotalWeight(s) * WholeMinutes(s, d, p) + Fraction(s, d, p)
<1>1. TotalWeight(s) \in Nat \ {0} /\ p \in Phases BY Weights
<1>2. PHASE_TIME_WEIGHTS[p] \in Nat BY <1>1, Weights
<1>3. d * PHASE_TIME_WEIGHTS[p] \in Nat BY <1>2
<1> QED BY <1>1, <1>3, Division DEF WholeMinutes, Fraction

\* The phases are served in an order.
LEMMA AheadIsOrder ==
  ASSUME NEW s \in Seq(Phases), s # <<>>, NEW d \in Nat
  PROVE  IsOrder(ToSet(s), [p \in ToSet(s) |-> Ahead(s, d, p)])
<1> DEFINE S == ToSet(s)
           Index(q) == CHOOSE i \in DOMAIN s : s[i] = q
           frac == [q \in S |-> Fraction(s, d, q)]
           before == [p \in S |-> Ahead(s, d, p)]
<1>1. \A q \in S : frac[q] \in Int
  <2>1. TotalWeight(s) \in Nat BY Weights
  <2> QED BY <2>1, Shares
<1>2. \A q \in S : Index(q) \in DOMAIN s /\ s[Index(q)] = q BY DEF ToSet
<1>3. \A q \in S : Index(q) \in Int BY <1>2
<1>4. \A p \in S : before[p] = {q \in S : \/ frac[q] > frac[p]
                                          \/ (frac[q] = frac[p] /\ Index(q) < Index(p))}
  BY DEF Ahead
<1>5. before \in [S -> SUBSET S] BY <1>4
<1> HIDE DEF S, Index, frac, before
<1>6. \A p \in S : p \notin before[p] BY <1>1, <1>3, <1>4
<1>7. ASSUME NEW p \in S, NEW q \in S \ {p}
      PROVE  \/ p \in before[q] /\ before[p] \subseteq before[q]
             \/ q \in before[p] /\ before[q] \subseteq before[p]
  <2>1. Index(p) # Index(q) BY <1>2
  <2>2. CASE p \in before[q] BY <1>1, <1>3, <1>4, <2>2
  <2>3. CASE p \notin before[q]
    <3>1. q \in before[p] BY <1>1, <1>3, <1>4, <2>1, <2>3
    <3> QED BY <1>1, <1>3, <1>4, <3>1
  <2> QED BY <2>2, <2>3
<1>8. IsOrder(S, before) BY <1>5, <1>6, <1>7 DEF IsOrder
<1> QED BY <1>8 DEF S, before

\* The minutes left over are the sum of the fractions: fewer than the phases that have
\* one, unless none has.
LEMMA Leftover ==
  ASSUME NEW s \in Seq(Phases), s # <<>>, NEW d \in Nat
  PROVE  LET S == ToSet(s)
             left == d - PhaseSum([p \in S |-> WholeMinutes(s, d, p)])
             some == {p \in S : Fraction(s, d, p) > 0}
         IN  /\ left \in 0..Cardinality(some)
             /\ left = Cardinality(some) => left = 0
<1> DEFINE S == ToSet(s)
           T == TotalWeight(s)
           w == [p \in S |-> PHASE_TIME_WEIGHTS[p]]
           whole == [p \in S |-> WholeMinutes(s, d, p)]
           frac == [p \in S |-> Fraction(s, d, p)]
           some == {p \in S : Fraction(s, d, p) > 0}
           one == [p \in S |-> IF p \in some THEN 1 ELSE 0]
           most == [p \in S |-> (T - 1) * one[p]]
           none == [p \in S |-> IF p \in {} THEN 1 ELSE 0]
           tw == [p \in S |-> T * whole[p]]
           share == [p \in S |-> d * w[p]]
           total == [p \in S |-> tw[p] + frac[p]]
<1>1. S \in SUBSET Phases /\ T \in Nat \ {0} /\ IsFiniteSet(S) BY Weights
<1>2. w \in [S -> Int] BY <1>1, Weights
<1>3. /\ whole \in [S -> Int] /\ frac \in [S -> Int]
      /\ \A p \in S : frac[p] \in 0..T - 1 /\ d * w[p] = T * whole[p] + frac[p]
  <2>1. \A p \in S : /\ WholeMinutes(s, d, p) \in Nat /\ Fraction(s, d, p) \in 0..T - 1
                     /\ d * PHASE_TIME_WEIGHTS[p]
                          = T * WholeMinutes(s, d, p) + Fraction(s, d, p)
    BY Shares
  <2> HIDE DEF T
  <2> QED BY <1>1, <2>1
<1>4. one \in [S -> Int] /\ some \in SUBSET S OBVIOUS
<1>5. PhaseSum(one) = Cardinality(some) BY <1>1, <1>4, SumOfOnes
<1>6. PhaseSum(w) = T BY DEF TotalWeight
<1>7. Cardinality(some) \in Nat
  <2>1. IsFiniteSet(some) BY <1>1, <1>4, FS_Subset
  <2> QED BY <2>1, FS_CardinalityType
<1>8. \A p \in S : one[p] = IF frac[p] > 0 THEN 1 ELSE 0 OBVIOUS
<1> HIDE DEF S, T, w, whole, frac, some, one
<1>9. T - 1 \in Int /\ T \in Int /\ d \in Int BY <1>1
<1>10. share = total BY <1>3
<1>11. PhaseSum(share) = d * PhaseSum(w) BY <1>1, <1>2, <1>9, SumScaled
<1>12. PhaseSum(tw) = T * PhaseSum(whole) BY <1>1, <1>3, <1>9, SumScaled
<1>13. PhaseSum(most) = (T - 1) * PhaseSum(one) BY <1>1, <1>4, <1>9, SumScaled
<1>14. PhaseSum(none) = 0 BY <1>1, SumOfOnes, FS_EmptySet
<1>15. tw \in [S -> Int] BY <1>3, <1>9
<1>16. most \in [S -> Int] /\ none \in [S -> Int] BY <1>4, <1>9
<1>17. \A p \in S : none[p] <= frac[p] /\ frac[p] <= most[p]
  <2> SUFFICES ASSUME NEW p \in S PROVE none[p] <= frac[p] /\ frac[p] <= most[p] OBVIOUS
  <2>1. none[p] = 0 OBVIOUS
  <2>2. most[p] = IF frac[p] > 0 THEN T - 1 ELSE 0 BY <1>8, <1>9
  <2> QED BY <1>1, <1>3, <2>1, <2>2
<1> HIDE DEF share, tw
<1>18. PhaseSum(total) = PhaseSum(tw) + PhaseSum(frac) BY <1>1, <1>3, <1>15, SumOfSums
<1> HIDE DEF most, none, total
<1>19. PhaseSum(none) <= PhaseSum(frac) /\ PhaseSum(frac) <= PhaseSum(most)
  BY <1>1, <1>3, <1>16, <1>17, SumBelow
<1>20. PhaseSum(frac) \in Int /\ PhaseSum(whole) \in Int /\ PhaseSum(one) \in Nat
  BY <1>1, <1>3, <1>5, <1>7, SumType
<1>21. \A t \in Nat \ {0} : \A x, f \in Int : \A k \in Nat :
         /\ d * t = t * x + f
         /\ 0 <= f /\ f <= (t - 1) * k
         => d - x \in 0..k /\ (d - x = k => k = 0)
  <2> SUFFICES ASSUME NEW t \in Nat \ {0}, NEW x \in Int, NEW f \in Int, NEW k \in Nat,
                      d * t = t * x + f, 0 <= f, f <= (t - 1) * k
               PROVE  d - x \in 0..k /\ (d - x = k => k = 0)
    OBVIOUS
  <2> DEFINE l == d - x
  <2>1. l \in Int /\ t * l = f OBVIOUS
  <2>2. t * l <= t * k - k BY <2>1
  <2> HIDE DEF l
  <2>3. l >= 0
    <3>1. SUFFICES ASSUME l <= -1 PROVE FALSE BY <2>1
    <3>2. t * l <= t * (-1) BY <2>1, <3>1
    <3> QED BY <2>1, <3>2
  <2>4. l <= k
    <3>1. SUFFICES ASSUME l >= k + 1 PROVE FALSE BY <2>1
    <3>2. t * l >= t * (k + 1) BY <2>1, <3>1
    <3>3. t * (k + 1) = t * k + t /\ t * k \in Int /\ t * l \in Int BY <2>1
    <3> QED BY <2>2, <3>2, <3>3
  <2>5. l = k => k = 0 BY <2>2
  <2> QED BY <2>1, <2>3, <2>4, <2>5 DEF l
<1>22. d * T = T * PhaseSum(whole) + PhaseSum(frac) BY <1>6, <1>10, <1>11, <1>12, <1>18
<1>23. 0 <= PhaseSum(frac) /\ PhaseSum(frac) <= (T - 1) * PhaseSum(one)
  BY <1>13, <1>14, <1>19, <1>20
<1>24. d - PhaseSum(whole) \in 0..PhaseSum(one)
       /\ (d - PhaseSum(whole) = PhaseSum(one) => PhaseSum(one) = 0)
  BY <1>1, <1>20, <1>21, <1>22, <1>23
<1> QED BY <1>5, <1>24 DEF S, whole, some

\* A phase is served after those with a larger fraction.
LEMMA LargestFirst ==
  ASSUME NEW s \in Seq(Phases), s # <<>>, NEW d \in Nat,
         NEW p \in ToSet(s), NEW q \in ToSet(s), Fraction(s, d, p) > Fraction(s, d, q)
  PROVE  /\ p \in Ahead(s, d, q)
         /\ Ahead(s, d, p) \subseteq Ahead(s, d, q)
<1> DEFINE S == ToSet(s)
           before == [x \in S |-> Ahead(s, d, x)]
<1>1. TotalWeight(s) \in Nat BY Weights
<1>2. Fraction(s, d, p) \in Int /\ Fraction(s, d, q) \in Int BY <1>1, Shares
<1>3. p \in Ahead(s, d, q) BY DEF Ahead
<1>4. q \notin Ahead(s, d, p) BY <1>2 DEF Ahead
<1>5. p # q BY <1>2
<1>6. IsOrder(S, before) BY AheadIsOrder
<1>7. before[p] = Ahead(s, d, p) /\ before[q] = Ahead(s, d, q) OBVIOUS
<1> HIDE DEF before
<1>8. before[p] \subseteq before[q] BY <1>4, <1>5, <1>6, <1>7 DEF IsOrder
<1> QED BY <1>3, <1>7, <1>8

\* The split adds up, nobody gets nothing, and each gets the share to within a minute.
LEMMA SplitIsFair ==
  ASSUME NEW s \in Seq(Phases), s # <<>>, NEW d \in Nat, TotalWeight(s) <= d
  PROVE  LET S == ToSet(s)
             b == SplitTimeBudget(s, d)
         IN  /\ b \in [S -> Nat]
             /\ PhaseSum(b) = d
             /\ \A p \in S :
                  LET exact == d * PHASE_TIME_WEIGHTS[p]
                  IN  /\ b[p] >= 1
                      /\ b[p] * TotalWeight(s) - exact < TotalWeight(s)
                      /\ exact - b[p] * TotalWeight(s) < TotalWeight(s)
                      /\ \A q \in S :
                           PHASE_TIME_WEIGHTS[p] > PHASE_TIME_WEIGHTS[q] => b[p] >= b[q]
<1> DEFINE S == ToSet(s)
           T == TotalWeight(s)
           b == SplitTimeBudget(s, d)
           W(p) == PHASE_TIME_WEIGHTS[p]
           F(p) == Fraction(s, d, p)
           whole == [p \in S |-> WholeMinutes(s, d, p)]
           left == d - PhaseSum(whole)
           some == {p \in S : Fraction(s, d, p) > 0}
           before == [p \in S |-> Ahead(s, d, p)]
           served == {p \in S : Cardinality(before[p]) < left}
           one == [p \in S |-> IF p \in served THEN 1 ELSE 0]
<1>1. S \in SUBSET Phases /\ IsFiniteSet(S) /\ T \in Nat \ {0} BY Weights
<1>2. \A p \in S : W(p) \in Nat \ {0} BY <1>1, Weights
<1>3. \A p \in S : /\ whole[p] \in Nat /\ F(p) \in 0..T - 1
                   /\ d * W(p) = T * whole[p] + F(p)
  BY Shares
<1>4. /\ left \in 0..Cardinality(some)
      /\ left = Cardinality(some) => left = 0
  BY Leftover
<1>5. IsOrder(S, before) BY AheadIsOrder
<1>6. b = [p \in S |-> whole[p] + one[p]] BY DEF SplitTimeBudget
<1>7. \A p \in S : one[p] = IF p \in served THEN 1 ELSE 0 OBVIOUS
<1>8. \A p \in S : before[p] = Ahead(s, d, p) OBVIOUS
<1>9. one \in [S -> Int] /\ whole \in [S -> Int] BY <1>3
<1>10. IsFiniteSet(some) /\ Cardinality(some) \in Nat /\ Cardinality(S) \in Nat
       /\ Cardinality(some) <= Cardinality(S)
  BY <1>1, FS_Subset, FS_CardinalityType
<1>11. Cardinality(served) = left
  <2>1. left \in 0..Cardinality(S) BY <1>4, <1>10
  <2> HIDE DEF left, before
  <2> QED BY <1>1, <1>5, <2>1, Ranking
<1>12. PhaseSum(one) = left BY <1>1, <1>11, SumOfOnes
<1>13. \A p \in S : IsFiniteSet(before[p]) /\ Cardinality(before[p]) \in Nat
  <2>1. \A p \in S : before[p] \in SUBSET S BY <1>5 DEF IsOrder
  <2> QED BY <1>1, <2>1, FS_Subset, FS_CardinalityType
<1>14. PhaseSum(b) = d
  <2> HIDE DEF b, S, whole, one
  <2>1. PhaseSum(b) = PhaseSum(whole) + PhaseSum(one) BY <1>1, <1>6, <1>9, SumOfSums
  <2>2. PhaseSum(whole) \in Int BY <1>1, <1>9, SumType
  <2> QED BY <1>12, <2>1, <2>2
<1>15. left \in Int BY <1>4
<1>16. some = {p \in S : F(p) > 0} /\ served = {p \in S : Cardinality(before[p]) < left}
  OBVIOUS
\* Who is served has a fraction.
<1>17. ASSUME NEW p \in served PROVE F(p) > 0
  <2>1. SUFFICES ASSUME ~(F(p) > 0) PROVE FALSE OBVIOUS
  <2>2. p \in S OBVIOUS
  <2>3. F(p) = 0 BY <1>1, <1>3, <2>1, <2>2
  <2>4. some \subseteq before[p] BY <1>8, <1>16, <2>2, <2>3, LargestFirst
  <2>5. Cardinality(some) <= Cardinality(before[p]) BY <1>13, <2>2, <2>4, FS_Subset
  <2>6. Cardinality(before[p]) < left BY <1>16
  <2> HIDE DEF left, before, some, served
  <2> QED BY <1>4, <1>10, <1>13, <2>2, <2>5, <2>6
\* With a larger fraction one is served before.
<1>18. ASSUME NEW p \in S, NEW q \in served, F(p) > F(q) PROVE p \in served
  <2>1. q \in S OBVIOUS
  <2>2. before[p] \subseteq before[q] BY <1>8, <1>18, <2>1, LargestFirst
  <2>3. Cardinality(before[p]) <= Cardinality(before[q]) BY <1>13, <2>1, <2>2, FS_Subset
  <2>4. Cardinality(before[q]) < left BY <1>16
  <2> HIDE DEF left, before
  <2> QED BY <1>13, <1>15, <2>1, <2>3, <2>4
<1> HIDE DEF S, T, b, W, F, whole, left, some, before, served, one
<1>19. \A p \in S : b[p] = whole[p] + one[p] /\ one[p] \in {0, 1} BY <1>6, <1>7
<1>20. b \in [S -> Nat]
  <2>1. \A p \in S : whole[p] + one[p] \in Nat BY <1>3, <1>7
  <2> QED BY <1>6, <2>1
<1>21. ASSUME NEW p \in S
       PROVE  /\ b[p] >= 1
              /\ b[p] * T - d * W(p) < T
              /\ d * W(p) - b[p] * T < T
  <2>1. d >= T BY DEF T
  <2>2. whole[p] >= 1
    <3>1. SUFFICES ASSUME whole[p] = 0 PROVE FALSE BY <1>3
    <3>2. d * W(p) = F(p) /\ F(p) < T BY <1>1, <1>3, <3>1
    <3>3. d * W(p) >= d
      <4>1. \A w \in Nat \ {0} : d * w >= d OBVIOUS
      <4> QED BY <1>2, <4>1
    <3> QED BY <1>1, <1>3, <2>1, <3>2, <3>3
  <2>3. CASE p \in served
    <3>1. b[p] = whole[p] + 1 BY <1>7, <1>19, <2>3
    <3>2. b[p] * T = T * whole[p] + T BY <1>1, <1>3, <3>1
    <3>3. F(p) > 0 BY <1>17, <2>3
    <3>4. T * whole[p] \in Int BY <1>1, <1>3
    <3> QED BY <1>1, <1>3, <2>2, <3>1, <3>2, <3>3, <3>4, SMTT(30)
  <2>4. CASE p \notin served
    <3>1. b[p] = whole[p] BY <1>3, <1>7, <1>19, <2>4
    <3>2. b[p] * T = T * whole[p] /\ T * whole[p] \in Int BY <1>1, <1>3, <3>1
    <3> QED BY <1>1, <1>3, <2>2, <3>1, <3>2, SMTT(30)
  <2> QED BY <2>3, <2>4
<1>22. ASSUME NEW p \in S, NEW q \in S, W(p) > W(q) PROVE b[p] >= b[q]
  <2>1. d * W(p) >= d * W(q)
    <3>1. \A v, w \in Nat : v > w => d * v >= d * w OBVIOUS
    <3> QED BY <1>2, <1>22, <3>1
  <2>2. d * W(p) >= d * W(q) /\ d * W(q) = T * whole[q] + F(q) /\ d * W(p) = T * whole[p] + F(p)
    BY <1>3, <2>1
  <2>3. whole[p] >= whole[q]
    <3>1. SUFFICES ASSUME whole[p] + 1 <= whole[q] PROVE FALSE BY <1>3
    <3>2. \A t, x, y \in Nat : x + 1 <= y => t * x + t <= t * y
      <4> SUFFICES ASSUME NEW t \in Nat, NEW x \in Nat, NEW y \in Nat, x + 1 <= y
                   PROVE  t * x + t <= t * y
        OBVIOUS
      <4>1. y - (x + 1) \in Nat OBVIOUS
      <4>2. t * (y - (x + 1)) >= 0 BY <4>1
      <4> QED BY <4>2
    <3>3. T * whole[p] + T <= T * whole[q] /\ T * whole[p] \in Int /\ T * whole[q] \in Int
      <4>1. T \in Nat /\ whole[p] \in Nat /\ whole[q] \in Nat BY <1>1, <1>3
      <4>2. T * whole[p] + T <= T * whole[q] BY ONLY <3>1, <3>2, <4>1
      <4> QED BY <4>1, <4>2
    <3>4. F(p) \in Int /\ F(q) \in Int /\ F(p) < T /\ F(q) >= 0 BY <1>1, <1>3
    <3>5. T * whole[p] + F(p) >= T * whole[q] + F(q) BY <2>2
    <3> QED BY <1>1, <3>3, <3>4, <3>5
  <2>4. CASE whole[p] = whole[q]
    <3>1. d * W(p) > d * W(q)
      <4>1. \A v, w \in Nat : v > w => d * v >= d * w + d OBVIOUS
      <4>2. d * W(p) >= d * W(q) + d BY <1>2, <1>22, <4>1
      <4>3. d > 0 BY <1>1 DEF T
      <4>4. d * W(p) \in Int /\ d * W(q) \in Int BY <1>2
      <4> QED BY <4>2, <4>3, <4>4
    <3>2. T * whole[p] \in Int BY <1>1, <1>3
    <3>3. F(p) > F(q) BY <1>1, <1>3, <2>2, <2>4, <3>1, <3>2
    <3>4. q \in served => p \in served BY <1>18, <3>3
    <3>5. one[p] >= one[q] BY <1>7, <3>4
    <3> QED BY <1>3, <1>19, <2>4, <3>5
  <2>5. CASE whole[p] # whole[q]
    <3>1. whole[p] >= whole[q] + 1 BY <1>3, <2>3, <2>5
    <3> QED BY <1>3, <1>19, <3>1
  <2> QED BY <2>4, <2>5
<1> QED BY <1>14, <1>20, <1>21, <1>22 DEF S, T, b, W
-----------------------------------------------------------------------------
(* The presets and their plans.                                            *)

\* Every preset has phases, and no duration with less than a minute for each of weight 1.
LEMMA Presets ==
  ASSUME NEW key \in DOMAIN INTERVIEW_PRESETS
  PROVE  LET wanted == INTERVIEW_PRESETS[key].phases
         IN  /\ wanted \in SUBSET Phases /\ wanted # {}
             /\ \A d \in INTERVIEW_PRESETS[key].durations :
                  d \in Nat /\ PhaseSum([p \in wanted |-> PHASE_TIME_WEIGHTS[p]]) <= d
<1> DEFINE wanted == INTERVIEW_PRESETS[key].phases
           w == [p \in wanted |-> PHASE_TIME_WEIGHTS[p]]
           most == PhaseSum(w)
<1>1. DOMAIN INTERVIEW_PRESETS =
        {"quick_project_deep_dive", "coding_only", "technical_round", "project_coding_combo",
         "full_loop_no_coding", "full_loop"}
  BY DEF INTERVIEW_PRESETS
<1> USE PhasesAre DEF Preset, PhaseSum, Of, PHASE_TIME_WEIGHTS, CODING_PHASE
<1>2. CASE key = "quick_project_deep_dive"
  <2>1. INTERVIEW_PRESETS[key] = Preset({"project_drill_down"}, {5, 10})
    BY <1>2 DEF INTERVIEW_PRESETS
  <2> HIDE DEF INTERVIEW_PRESETS
  <2>2. wanted = {"project_drill_down"} BY <2>1
  <2>3. most <= 3 BY <2>2
  <2> QED BY <2>1, <2>2, <2>3
<1>3. CASE key = "coding_only"
  <2>1. INTERVIEW_PRESETS[key] = Preset({"coding_challenge"}, {5, 10})
    BY <1>3 DEF INTERVIEW_PRESETS
  <2>2. wanted = {"coding_challenge"} BY <2>1
  <2>3. most <= 3 BY <2>2
  <2> QED BY <2>1, <2>2, <2>3
<1>4. CASE key = "technical_round"
  <2>1. INTERVIEW_PRESETS[key] =
          Preset({"technical_interview", "coding_challenge", "general_technical"}, {15, 20, 25})
    BY <1>4 DEF INTERVIEW_PRESETS
  <2>2. wanted = {"technical_interview", "coding_challenge", "general_technical"} BY <2>1
  <2>3. most <= 8 BY <2>2
  <2> QED BY <2>1, <2>2, <2>3
<1>5. CASE key = "project_coding_combo"
  <2>1. INTERVIEW_PRESETS[key] = Preset({"project_drill_down", "coding_challenge"}, {15, 20})
    BY <1>5 DEF INTERVIEW_PRESETS
  <2>2. wanted = {"project_drill_down", "coding_challenge"} BY <2>1
  <2>3. most <= 6 BY <2>2
  <2> QED BY <2>1, <2>2, <2>3
<1>6. CASE key = "full_loop_no_coding"
  <2>1. INTERVIEW_PRESETS[key] = Preset(Phases \ {"coding_challenge"}, {25, 30, 35})
    BY <1>6 DEF INTERVIEW_PRESETS
  <2>2. wanted = Phases \ {"coding_challenge"} BY <2>1
  <2>3. most <= 11 BY <2>2
  <2>4. "project_drill_down" \in wanted BY <2>2
  <2> QED BY <2>1, <2>2, <2>3, <2>4
<1>7. CASE key = "full_loop"
  <2>1. INTERVIEW_PRESETS[key] = Preset(Phases, {30, 35, 40})
    BY <1>7 DEF INTERVIEW_PRESETS
  <2>2. wanted = Phases BY <2>1
  <2>3. most <= 14 BY <2>2
  <2>4. "project_drill_down" \in wanted BY <2>2
  <2> QED BY <2>1, <2>2, <2>3, <2>4
<1> QED BY <1>1, <1>2, <1>3, <1>4, <1>5, <1>6, <1>7

\* The places of the phases are an order on any of them.
LEMMA PlaceIsOrder ==
  ASSUME NEW S \in SUBSET Phases
  PROVE  IsOrder(S, [p \in S |-> {q \in S : Place(q) < Place(p)}])
<1> DEFINE before == [p \in S |-> {q \in S : Place(q) < Place(p)}]
<1>1. DOMAIN INTERVIEW_PHASES = 1..7 BY DEF INTERVIEW_PHASES
<1>2. ASSUME NEW p \in Phases PROVE Place(p) \in 1..7 /\ INTERVIEW_PHASES[Place(p)] = p
  <2>1. \E i \in DOMAIN INTERVIEW_PHASES : INTERVIEW_PHASES[i] = p BY DEF Phases, ToSet
  <2> QED BY <1>1, <2>1 DEF Place
<1>3. \A p \in S : Place(p) \in Int BY <1>2
<1>4. \A p \in S : \A q \in S : Place(p) = Place(q) => p = q BY <1>2
<1>5. before \in [S -> SUBSET S] OBVIOUS
<1>6. \A p \in S : before[p] = {q \in S : Place(q) < Place(p)} OBVIOUS
<1> HIDE DEF before
<1>7. \A p \in S : p \notin before[p] BY <1>3, <1>6
<1>8. ASSUME NEW p \in S, NEW q \in S \ {p}
      PROVE  \/ p \in before[q] /\ before[p] \subseteq before[q]
             \/ q \in before[p] /\ before[q] \subseteq before[p]
  <2>1. Place(p) # Place(q) BY <1>4
  <2>2. CASE Place(p) < Place(q) BY <1>3, <1>6, <2>2
  <2>3. CASE Place(q) < Place(p) BY <1>3, <1>6, <2>3
  <2> QED BY <1>3, <2>1, <2>2, <2>3
<1>9. IsOrder(S, before) BY <1>5, <1>7, <1>8 DEF IsOrder
<1> QED BY <1>9 DEF before

\* A plan has exactly the phases that are wanted.
LEMMA PlanIsWanted ==
  ASSUME NEW key \in DOMAIN INTERVIEW_PRESETS, NEW coding \in BOOLEAN
  PROVE  /\ ResolvePhases(key, coding) \in Seq(Phases)
         /\ ToSet(ResolvePhases(key, coding)) = Wanted(key, coding)
<1> DEFINE S == Wanted(key, coding)
           before == [p \in S |-> {q \in S : Place(q) < Place(p)}]
           plan == ResolvePhases(key, coding)
<1>1. S \in SUBSET Phases BY Presets DEF Wanted
<1>2. IsFiniteSet(S) /\ Cardinality(S) \in Nat BY <1>1, PhasesAre, FS_Subset, FS_CardinalityType
<1>3. IsOrder(S, before) BY <1>1, PlaceIsOrder
<1>4. \A p \in S : before[p] = {q \in S : Place(q) < Place(p)} OBVIOUS
<1>5. plan = [n \in 1..Cardinality(S) |->
                CHOOSE p \in S : Cardinality({q \in S : Place(q) < Place(p)}) = n - 1]
  BY DEF ResolvePhases
<1> HIDE DEF before, plan, S
<1>6. /\ \A p \in S : Cardinality(before[p]) \in 0..Cardinality(S) - 1
      /\ \A k \in 0..Cardinality(S) - 1 : \E p \in S : Cardinality(before[p]) = k
      /\ \A p \in S : \A q \in S : Cardinality(before[p]) = Cardinality(before[q]) => p = q
  BY <1>2, <1>3, Ranking
<1>7. ASSUME NEW n \in 1..Cardinality(S)
      PROVE  plan[n] \in S /\ Cardinality(before[plan[n]]) = n - 1
  <2>1. n - 1 \in 0..Cardinality(S) - 1 BY <1>2
  <2>2. PICK p \in S : Cardinality(before[p]) = n - 1 BY <1>6, <2>1
  <2>3. \E x \in S : Cardinality({q \in S : Place(q) < Place(x)}) = n - 1 BY <1>4, <2>2
  <2>4. plan[n] = CHOOSE x \in S : Cardinality({q \in S : Place(q) < Place(x)}) = n - 1
    BY <1>5
  <2>5. plan[n] \in S /\ Cardinality({q \in S : Place(q) < Place(plan[n])}) = n - 1
    BY <2>3, <2>4
  <2> QED BY <1>4, <2>5
<1>8. plan \in Seq(Phases)
  <2>1. plan \in [1..Cardinality(S) -> Phases] BY <1>1, <1>5, <1>7
  <2> QED BY <1>2, <2>1
<1>9. ASSUME NEW p \in S PROVE \E n \in 1..Cardinality(S) : plan[n] = p
  <2>1. PICK k \in 0..Cardinality(S) - 1 : Cardinality(before[p]) = k BY <1>6
  <2>2. k + 1 \in 1..Cardinality(S) /\ (k + 1) - 1 = k BY <1>2
  <2>3. plan[k + 1] \in S /\ Cardinality(before[plan[k + 1]]) = k BY <1>7, <2>2
  <2>4. plan[k + 1] = p BY <1>6, <2>1, <2>3
  <2> QED BY <2>2, <2>4
<1>10. DOMAIN plan = 1..Cardinality(S) BY <1>5
<1>11. ToSet(plan) = S BY <1>7, <1>9, <1>10 DEF ToSet
<1> QED BY <1>8, <1>11 DEF plan, S

\* A start request that is accepted has a plan with phases, and minutes enough for them.
LEMMA ValidPlan ==
  ASSUME NEW r, r.coding \in BOOLEAN, Valid(r)
  PROVE  LET s == ResolvePhases(r.key, r.coding)
         IN  /\ s \in Seq(Phases) /\ s # <<>>
             /\ r.duration \in Nat /\ TotalWeight(s) <= r.duration
<1> DEFINE s == ResolvePhases(r.key, r.coding)
           all == INTERVIEW_PRESETS[r.key].phases
           some == [p \in ToSet(s) |-> PHASE_TIME_WEIGHTS[p]]
           most == [p \in all |-> PHASE_TIME_WEIGHTS[p]]
<1>1. r.key \in DOMAIN INTERVIEW_PRESETS /\ s # <<>>
      /\ r.duration \in INTERVIEW_PRESETS[r.key].durations
  BY DEF Valid
<1>2. /\ all \in SUBSET Phases
      /\ r.duration \in Nat /\ PhaseSum(most) <= r.duration
  BY <1>1, Presets
<1>3. s \in Seq(Phases) /\ ToSet(s) = Wanted(r.key, r.coding) BY <1>1, PlanIsWanted
<1>4. ToSet(s) \in SUBSET all BY <1>3 DEF Wanted
<1>5. \A p \in all : PHASE_TIME_WEIGHTS[p] \in Nat BY <1>2, Weights
<1>6. TotalWeight(s) = PhaseSum(some) BY DEF TotalWeight
<1> HIDE DEF s
<1>7. \A p \in Phases : Of(some, p) \in Int /\ Of(most, p) \in Int /\ Of(some, p) <= Of(most, p)
  BY <1>4, <1>5 DEF Of
<1> HIDE DEF some, most
<1>8. PhaseSum(some) <= PhaseSum(most) /\ PhaseSum(some) \in Int /\ PhaseSum(most) \in Int
  BY <1>7, PhasesAre DEF PhaseSum
<1> QED BY <1>1, <1>2, <1>3, <1>6, <1>8 DEF s

-----------------------------------------------------------------------------
(* A session from its start request to its last phase.                     *)

\* The request was refused because it is not valid, or its plan is being followed.
PlanInv ==
  /\ request \in [key : Keys, duration : Durations, coding : BOOLEAN]
  /\ outcome \in {"none", "planned", "rejected", "completed"}
  /\ outcome = "none" => pos = 0 /\ spent = 0 /\ told = {}
  /\ outcome # "planned" => turn = NoTurn
  /\ outcome = "rejected" => ~Valid(request)
  /\ outcome = "planned" =>
       /\ Valid(request)
       /\ phases = ResolvePhases(request.key, request.coding)
       /\ budget = SplitTimeBudget(phases, request.duration)
       /\ pos \in 1..Len(phases) /\ spent \in Nat

LEMMA PlanNext == PlanInv /\ [PresetNext]_presetVars => PlanInv'
<1> SUFFICES ASSUME PlanInv, [PresetNext]_presetVars PROVE PlanInv' OBVIOUS
<1> USE DEF PlanInv
<1>1. CASE BuildSessionPlan
  <2>1. Valid(request) /\ request' = request /\ request.coding \in BOOLEAN
    BY <1>1 DEF BuildSessionPlan
  <2>2. phases' = ResolvePhases(request.key, request.coding)
        /\ budget' = SplitTimeBudget(phases', request.duration)
    BY <1>1 DEF BuildSessionPlan
  <2>3. phases' \in Seq(Phases) /\ phases' # <<>> BY <2>1, <2>2, ValidPlan
  <2>4. Len(phases') \in Nat \ {0} BY <2>3
  <2>5. 1 \in 1..Len(phases') BY <2>4
  <2>6. outcome' = "planned" /\ pos' = 1 /\ spent' = 0
    BY <1>1 DEF BuildSessionPlan, clockVars
  <2>7. Valid(request)' BY <2>1 DEF Valid
  <2> QED BY <2>1, <2>2, <2>5, <2>6, <2>7
<1>2. CASE RejectPlan
  <2>1. request' = request /\ outcome' = "rejected" /\ ~Valid(request) /\ turn' = NoTurn
    BY <1>2 DEF RejectPlan, clockVars
  <2>2. ~Valid(request)' BY <2>1 DEF Valid
  <2> QED BY <2>1, <2>2
<1>3. CASE TurnArrives \/ PhaseGoesOn
  <2>1. UNCHANGED <<request, outcome, phases, budget, pos>> /\ outcome = "planned"
    BY <1>3 DEF TurnArrives, PhaseGoesOn
  <2>2. spent' \in Nat
    BY <1>3, <2>1, PausesAssumption DEF TurnArrives, PhaseGoesOn
  <2>3. Valid(request)' BY <2>1 DEF Valid
  <2> QED BY <2>1, <2>2, <2>3
<1>4. CASE NextPhase
  <2>1. UNCHANGED <<request, outcome, phases, budget>> /\ spent' = 0
        /\ outcome = "planned" /\ pos < Len(phases) /\ pos' = pos + 1
    BY <1>4 DEF NextPhase
  <2>2. Valid(request)' BY <2>1 DEF Valid
  <2>3. phases \in Seq(Phases) BY <2>1, ValidPlan
  <2>4. pos + 1 \in 1..Len(phases) BY <2>1, <2>3
  <2> QED BY <2>1, <2>2, <2>4
<1>6. CASE LastPhaseEnds
  <2>1. request' = request /\ outcome' = "completed" /\ turn' = NoTurn
    BY <1>6 DEF LastPhaseEnds
  <2> QED BY <2>1
<1>5. CASE UNCHANGED presetVars
  <2>1. UNCHANGED <<request, outcome, phases, budget, pos, spent, turn, told>>
    BY <1>5 DEF presetVars
  <2>2. Valid(request)' <=> Valid(request) BY <2>1 DEF Valid
  <2> QED BY <2>1, <2>2
<1> QED BY <1>1, <1>2, <1>3, <1>4, <1>5, <1>6 DEF PresetNext

\* A session follows the plan of a valid request, or its request was refused.
THEOREM PlanFollowed == PresetSpec => []PlanInv
<1>1. PresetInit => PlanInv BY DEF PresetInit, PlanInv
<1>2. PlanInv /\ [PresetNext]_presetVars => PlanInv' BY PlanNext
<1> QED BY <1>1, <1>2, PTL DEF PresetSpec

\* The minutes of every plan are fair shares of its interview and add up to it.
THEOREM MinutesAreShared == PresetSpec => []BudgetsAreShares
<1>1. ASSUME PlanInv PROVE BudgetsAreShares
  <2>1. SUFFICES ASSUME outcome = "planned"
                 PROVE  /\ DOMAIN budget = ToSet(phases)
                        /\ PhaseSum(budget) = request.duration
                        /\ \A p \in ToSet(phases) :
                             LET exact == request.duration * PHASE_TIME_WEIGHTS[p]
                             IN  /\ budget[p] >= 1
                                 /\ budget[p] * TotalWeight(phases) - exact < TotalWeight(phases)
                                 /\ exact - budget[p] * TotalWeight(phases) < TotalWeight(phases)
                                 /\ \A q \in ToSet(phases) :
                                      PHASE_TIME_WEIGHTS[p] > PHASE_TIME_WEIGHTS[q] =>
                                        budget[p] >= budget[q]
    BY DEF BudgetsAreShares
  <2>2. /\ phases \in Seq(Phases) /\ phases # <<>>
        /\ request.duration \in Nat /\ TotalWeight(phases) <= request.duration
    BY <1>1, <2>1, ValidPlan DEF PlanInv
  <2>3. budget = SplitTimeBudget(phases, request.duration) BY <1>1, <2>1 DEF PlanInv
  <2> QED BY <2>2, <2>3, SplitIsFair
<1> QED BY <1>1, PlanFollowed, PTL

\* A preset that is offered for a job has phases left for it.
LEMMA OfferedIsValid ==
  ASSUME NEW r, r.coding \in BOOLEAN, r.key \in Offered(r.coding),
         r.duration \in INTERVIEW_PRESETS[r.key].durations
  PROVE  Valid(r)
<1>1. r.key \in DOMAIN INTERVIEW_PRESETS BY DEF Offered
<1>2. CODING_PHASE \in INTERVIEW_PRESETS[r.key].phases => r.coding BY DEF Offered
<1>3. Wanted(r.key, r.coding) = INTERVIEW_PRESETS[r.key].phases BY <1>2 DEF Wanted
<1>4. Wanted(r.key, r.coding) # {} BY <1>1, <1>3, Presets
<1>5. ToSet(ResolvePhases(r.key, r.coding)) # {} BY <1>1, <1>4, PlanIsWanted
<1>6. ResolvePhases(r.key, r.coding) # <<>> BY <1>5 DEF ToSet
<1> QED BY <1>1, <1>6 DEF Valid

\* What a client is offered, the start of the interview accepts.
THEOREM OffersAccepted == PresetSpec => []OfferIsAccepted
<1>1. PlanInv => OfferIsAccepted BY OfferedIsValid DEF PlanInv, OfferIsAccepted
<1> QED BY <1>1, PlanFollowed, PTL

\* The phase that is clocked has at least a minute.
LEMMA ClockedMinutes ==
  ASSUME PlanInv, outcome = "planned"
  PROVE  Minutes \in Nat \ {0} /\ spent \in Nat
<1>1. phases \in Seq(Phases) /\ phases # <<>>
      /\ request.duration \in Nat /\ TotalWeight(phases) <= request.duration
  BY ValidPlan DEF PlanInv
<1>2. budget = SplitTimeBudget(phases, request.duration) /\ spent \in Nat /\ pos \in 1..Len(phases)
  BY DEF PlanInv
<1>3. DOMAIN phases = 1..Len(phases) BY <1>1
<1>4. phases[pos] \in ToSet(phases) BY <1>2, <1>3 DEF ToSet
<1>5. budget \in [ToSet(phases) -> Nat] /\ \A p \in ToSet(phases) : budget[p] >= 1
  BY <1>1, <1>2, SplitIsFair
<1> QED BY <1>2, <1>4, <1>5 DEF Minutes

\* Time only makes a phase of m minutes more urgent, and its forced end comes in its last
\* stage.
LEMMA Stages ==
  ASSUME NEW m \in Nat \ {0}, NEW t \in Nat, NEW later \in Nat, t <= later
  PROVE  /\ Rank(PhaseTimeStatus(m, t)) <= Rank(PhaseTimeStatus(m, later))
         /\ Forced(m, t) => PhaseTimeStatus(m, t) = "exhausted"
<1>1. \A x \in Nat : Rank(PhaseTimeStatus(m, x)) = IF x >= 10 * m THEN 2
                                                  ELSE IF x >= 7 * m THEN 1 ELSE 0
  BY DEF Rank, PhaseTimeStatus
<1>2. Forced(m, t) => PhaseTimeStatus(m, t) = "exhausted"
  BY DEF Forced, PhaseTimeStatus
<1> HIDE DEF PhaseTimeStatus
<1>3. Rank(PhaseTimeStatus(m, t)) = IF t >= 10 * m THEN 2 ELSE IF t >= 7 * m THEN 1 ELSE 0
  BY <1>1
<1>4. Rank(PhaseTimeStatus(m, later)) = IF later >= 10 * m THEN 2
                                        ELSE IF later >= 7 * m THEN 1 ELSE 0
  BY <1>1
<1> QED BY <1>2, <1>3, <1>4

\* What the turns of the phase were told is what its clock said when they came, and a
\* phase that is open when no turn is being served has not used 1.5 times its budget.
ClockInv ==
  outcome = "planned" =>
    /\ turn # NoTurn => turn = Look(Minutes, spent)
    /\ \A stage \in told :
         \E t \in Nat : t <= spent /\ stage = PhaseTimeStatus(Minutes, t)
    /\ turn = NoTurn => spent < 15 * Minutes

LEMMA ClockNext == PlanInv /\ ClockInv /\ [PresetNext]_presetVars => ClockInv'
<1> SUFFICES ASSUME PlanInv, ClockInv, [PresetNext]_presetVars, outcome' = "planned"
             PROVE  ClockInv'
  BY DEF ClockInv
<1>1. PlanInv' BY PlanNext
<1>2. Minutes' \in Nat \ {0}
  <2>1. (PlanInv /\ outcome = "planned" => Minutes \in Nat \ {0} /\ spent \in Nat)'
    BY ClockedMinutes, PTL
  <2> QED BY <1>1, <2>1
<1>3. ASSUME spent' = 0, told' = {}, turn' = NoTurn PROVE ClockInv'
  <2>1. \A m \in Nat \ {0} : 0 < 15 * m OBVIOUS
  <2> QED BY ONLY <1>2, <1>3, <2>1 DEF ClockInv
<1>4. CASE BuildSessionPlan
  <2>1. spent' = 0 /\ told' = {} /\ turn' = NoTurn
    BY <1>4 DEF BuildSessionPlan, clockVars, PlanInv
  <2> QED BY <1>3, <2>1
<1>5. CASE RejectPlan BY <1>5 DEF RejectPlan
<1>6. CASE TurnArrives
  <2>1. PICK pause \in Pauses :
          spent' = spent + pause /\ turn' = Look(Minutes, spent + pause)
    BY <1>6 DEF TurnArrives
  <2>2. /\ outcome = "planned" /\ told' = told
        /\ UNCHANGED <<budget, phases, pos>>
    BY <1>6 DEF TurnArrives
  <2>3. Minutes' = Minutes BY <2>2 DEF Minutes
  <2>4. spent \in Nat /\ pause \in Nat BY <2>2, ClockedMinutes, PausesAssumption
  <2>5. \A stage \in told :
          \E t \in Nat : t <= spent + pause /\ stage = PhaseTimeStatus(Minutes, t)
    <3> TAKE stage \in told
    <3>1. PICK t \in Nat : t <= spent /\ stage = PhaseTimeStatus(Minutes, t)
      BY <2>2 DEF ClockInv
    <3>2. t <= spent + pause BY <2>4, <3>1
    <3> QED BY <3>1, <3>2
  <2>6. turn' # NoTurn
    <3>1. turn'.stage \in {"exhausted", "running_low", "comfortable"}
      BY <2>1 DEF Look, PhaseTimeStatus
    <3> QED BY <3>1 DEF NoTurn
  <2> QED BY <2>1, <2>2, <2>3, <2>5, <2>6 DEF ClockInv
<1>7. CASE PhaseGoesOn
  <2>1. /\ turn # NoTurn /\ ~turn.force /\ turn' = NoTurn
        /\ told' = told \cup {turn.stage}
        /\ UNCHANGED <<outcome, budget, phases, pos, spent>>
    BY <1>7 DEF PhaseGoesOn
  <2>2. Minutes' = Minutes /\ outcome = "planned" BY <2>1 DEF Minutes
  <2>3. turn = Look(Minutes, spent) BY <2>1, <2>2 DEF ClockInv
  <2>4. Minutes \in Nat \ {0} /\ spent \in Nat BY <2>2, ClockedMinutes
  <2>5. turn.stage = PhaseTimeStatus(Minutes, spent) /\ ~Forced(Minutes, spent)
    BY <2>1, <2>3 DEF Look
  <2>6. spent < 15 * Minutes
    <3> DEFINE m == Minutes
    <3>1. m \in Nat /\ ~(spent >= 15 * m) BY <2>4, <2>5 DEF Forced
    <3> HIDE DEF m
    <3>2. spent < 15 * m BY <2>4, <3>1
    <3> QED BY <3>2 DEF m
  <2>7. \A stage \in told \cup {turn.stage} :
          \E t \in Nat : t <= spent /\ stage = PhaseTimeStatus(Minutes, t)
    <3> TAKE stage \in told \cup {turn.stage}
    <3>1. CASE stage \in told BY <2>2, <3>1 DEF ClockInv
    <3>2. CASE stage = turn.stage
      <4>1. spent <= spent BY <2>4
      <4> QED BY <2>4, <2>5, <3>2, <4>1
    <3> QED BY <3>1, <3>2
  <2> QED BY <2>1, <2>2, <2>6, <2>7 DEF ClockInv
<1>8. CASE NextPhase
  <2>1. spent' = 0 /\ told' = {} /\ turn' = NoTurn BY <1>8 DEF NextPhase
  <2> QED BY <1>3, <2>1
<1>9. CASE LastPhaseEnds BY <1>9 DEF LastPhaseEnds
<1>10. CASE UNCHANGED presetVars
  BY <1>10 DEF presetVars, ClockInv, Minutes
<1> QED
  BY <1>4, <1>5, <1>6, <1>7, <1>8, <1>9, <1>10 DEF PresetNext

\* However the turns are spaced, urgency only grows within a phase, a phase is ended by
\* force only with a reply that was told to wrap up, and none stays open past that.
THEOREM UrgencyGrows == PresetSpec => []UrgencyEscalates
<1>1. PresetInit => PlanInv /\ ClockInv
  BY DEF PresetInit, PlanInv, ClockInv
<1>2. (PlanInv /\ ClockInv) /\ [PresetNext]_presetVars => (PlanInv /\ ClockInv)'
  BY PlanNext, ClockNext
<1>3. ASSUME PlanInv, ClockInv PROVE UrgencyEscalates
  <2> SUFFICES ASSUME outcome = "planned"
               PROVE  /\ turn # NoTurn => \A stage \in told : Rank(stage) <= Rank(turn.stage)
                      /\ turn.force => turn.stage = "exhausted"
                      /\ turn = NoTurn => spent < 15 * Minutes
    BY DEF UrgencyEscalates
  <2>1. Minutes \in Nat \ {0} /\ spent \in Nat BY <1>3, ClockedMinutes
  <2>2. /\ turn # NoTurn => turn = Look(Minutes, spent)
        /\ \A stage \in told :
             \E t \in Nat : t <= spent /\ stage = PhaseTimeStatus(Minutes, t)
        /\ turn = NoTurn => spent < 15 * Minutes
    BY <1>3 DEF ClockInv
  <2>3. ASSUME turn # NoTurn
        PROVE  /\ \A stage \in told : Rank(stage) <= Rank(turn.stage)
               /\ turn.force => turn.stage = "exhausted"
    <3>1. /\ turn.stage = PhaseTimeStatus(Minutes, spent)
          /\ turn.force <=> Forced(Minutes, spent)
      BY <2>2, <2>3 DEF Look
    <3>2. turn.force => turn.stage = "exhausted"
      BY <2>1, <3>1 DEF Forced, PhaseTimeStatus
    <3>3. ASSUME NEW stage \in told PROVE Rank(stage) <= Rank(turn.stage)
      <4>1. PICK t \in Nat : t <= spent /\ stage = PhaseTimeStatus(Minutes, t) BY <2>2
      <4> QED BY <2>1, <3>1, <4>1, Stages
    <3> QED BY <3>2, <3>3
  <2>4. turn = NoTurn => ~turn.force BY DEF NoTurn
  <2> QED BY <2>2, <2>3, <2>4
<1> QED BY <1>1, <1>2, <1>3, PTL DEF PresetSpec
-----------------------------------------------------------------------------
(* The scores of a report.                                                 *)

\* Hints cost at least the first level, and nothing without hints.
LEMMA PenaltyOfHints ==
  ASSUME NEW h, IsFiniteSet(DOMAIN h), \A p \in DOMAIN h : h[p] \in Nat \ {0}
  PROVE  /\ HintPenalty(h) \in Nat
         /\ DOMAIN h # {} => HintPenalty(h) >= 5
<1> DEFINE at(l) == {p \in DOMAIN h : h[p] >= l}
<1>1. \A l \in 1..3 : Cardinality(at(l)) \in Nat
  <2>1. \A l \in 1..3 : at(l) \in SUBSET DOMAIN h OBVIOUS
  <2> QED BY <2>1, FS_Subset, FS_CardinalityType
<1>2. at(1) = DOMAIN h OBVIOUS
<1>3. DOMAIN h # {} => Cardinality(at(1)) >= 1 BY <1>1, <1>2, FS_EmptySet
<1>4. /\ Charge(h, 1) = 5 * Cardinality(at(1))
      /\ Charge(h, 2) = 15 * Cardinality(at(2))
      /\ Charge(h, 3) = 30 * Cardinality(at(3))
  BY DEF Charge, HINT_PENALTY_BY_LEVEL
<1>5. Cardinality(at(1)) \in Nat /\ Cardinality(at(2)) \in Nat /\ Cardinality(at(3)) \in Nat
  BY <1>1
<1> HIDE DEF at
<1> QED BY <1>3, <1>4, <1>5 DEF HintPenalty

\* Rounding stays within half a unit.
LEMMA NearestIs ==
  ASSUME NEW n \in Nat, NEW d \in Nat \ {0}, NEW k \in Nearest(n, d)
  PROVE  k \in Nat /\ 2 * (k * d - n) <= d /\ 2 * (n - k * d) <= d
<1>1. n \div d \in Nat BY Division
<1> DEFINE q == n \div d
<1>2. k \in q..q + 1 /\ 2 * (k * d - n) <= d /\ 2 * (n - k * d) <= d BY DEF Nearest
<1> HIDE DEF q
<1>3. q \in Nat BY <1>1 DEF q
<1> QED BY <1>2, <1>3

\* The attitude score is not raised by the session's rules, and the cap binds.
LEMMA AttitudeIsLowered ==
  ASSUME NEW r \in Nat, NEW h, IsFiniteSet(DOMAIN h),
         \A p \in DOMAIN h : h[p] \in Nat \ {0},
         NEW a \in BOOLEAN, NEW k \in AttitudeScores(r, h, a)
  PROVE  /\ k \in Nat /\ k <= r
         /\ a => k <= ABUSIVE_LANGUAGE_SCORE_CAP
         /\ DOMAIN h # {} /\ r >= 20 => k < r
<1> DEFINE cost == HintPenalty(h)
           c == 100 - (IF cost < 100 THEN cost ELSE 100)
           penalized == Penalized(r, cost)
           n == IF a /\ penalized > 100 * ABUSIVE_LANGUAGE_SCORE_CAP
                THEN 100 * ABUSIVE_LANGUAGE_SCORE_CAP ELSE penalized
<1>1. cost \in Nat /\ (DOMAIN h # {} => cost >= 5) BY PenaltyOfHints
<1>2. penalized = r * c BY DEF Penalized
<1>3. k \in Nearest(n, 100) BY DEF AttitudeScores
<1>4. c \in 0..100 /\ (DOMAIN h # {} => c <= 95) BY <1>1
<1> HIDE DEF c, penalized
<1>5. \A x \in 0..100 : \A m \in 0..100 : x <= m => 0 <= r * x /\ r * x <= r * m
  <2> SUFFICES ASSUME NEW x \in 0..100, NEW m \in 0..100, x <= m
               PROVE  0 <= r * x /\ r * x <= r * m
    OBVIOUS
  <2>1. m - x \in Nat /\ r \in Nat OBVIOUS
  <2>2. r * (m - x) >= 0 /\ r * x >= 0 BY <2>1
  <2> QED BY <2>2
<1>6. penalized \in Nat /\ penalized <= 100 * r /\ (DOMAIN h # {} => penalized <= 95 * r)
  <2>1. 0 <= r * c /\ r * c <= r * 100 /\ (c <= 95 => r * c <= r * 95) BY <1>4, <1>5
  <2>2. r * c \in Int BY <1>4
  <2> QED BY <1>2, <1>4, <2>1, <2>2
<1>7. /\ n \in Nat /\ n <= penalized
      /\ a => n <= 100 * ABUSIVE_LANGUAGE_SCORE_CAP
  BY <1>6 DEF ABUSIVE_LANGUAGE_SCORE_CAP
<1> HIDE DEF n
<1>8. k \in Nat /\ 2 * (k * 100 - n) <= 100 BY <1>3, <1>7, NearestIs
<1> QED BY <1>6, <1>7, <1>8 DEF ABUSIVE_LANGUAGE_SCORE_CAP

\* The overall score is within the scores it is computed from.
LEMMA OverallIsWithin ==
  ASSUME NEW D \in SUBSET Judges, D # {}, NEW f \in [D -> Nat], NEW k \in OverallScores(f)
  PROVE  /\ k \in Nat
         /\ \E j \in D : f[j] <= k
         /\ \E j \in D : k <= f[j]
<1> DEFINE R == [j \in Judges |-> IF j \in D THEN JUDGE_WEIGHTS[j] ELSE 0]
           X == [j \in Judges |-> IF j \in D THEN JUDGE_WEIGHTS[j] * f[j] ELSE 0]
           n == JudgeSum(X)
           d == JudgeSum(R)
<1>1. DOMAIN f = D OBVIOUS
<1>2. k \in Nearest(n, d) BY <1>1 DEF OverallScores, WeightedScore, RemainingWeight
<1>3. \A j \in Judges : JUDGE_WEIGHTS[j] \in Nat \ {0} BY DEF Judges, JUDGE_WEIGHTS
<1>4. \A j \in Judges : /\ R[j] \in Nat /\ X[j] \in Nat
                        /\ j \in D => R[j] >= 1 /\ X[j] = R[j] * f[j]
                        /\ j \notin D => R[j] = 0 /\ X[j] = 0
  BY <1>3
<1> HIDE DEF R, X
<1>5. n \in Nat /\ d \in Nat \ {0}
  <2>1. \A g : (\A j \in Judges : g[j] \in Nat) =>
               JudgeSum(g) \in Nat /\ \A j \in Judges : g[j] <= JudgeSum(g)
    BY DEF JudgeSum, Judges
  <2>2. n \in Nat /\ d \in Nat /\ \A j \in Judges : R[j] <= d BY <1>4, <2>1
  <2>3. PICK j \in D : TRUE OBVIOUS
  <2>4. R[j] >= 1 /\ R[j] \in Nat /\ j \in Judges BY <1>4
  <2>5. d # 0 BY <2>2, <2>4
  <2> QED BY <2>2, <2>5
<1>6. ASSUME NEW c \in Int PROVE c * d = JudgeSum([j \in Judges |-> c * R[j]])
  <2>1. \A i, j, l, m, o \in Int : c * (i + j + l + m + o) = c * i + c * j + c * l + c * m + c * o
    OBVIOUS
  <2>2. \A j \in Judges : R[j] \in Int BY <1>4
  <2> QED BY <2>1, <2>2 DEF JudgeSum, Judges
<1>7. \A g, h \in [Judges -> Int] : (\A j \in Judges : g[j] <= h[j]) => JudgeSum(g) <= JudgeSum(h)
  BY DEF JudgeSum, Judges
<1> HIDE DEF n, d
<1>8. k \in Nat /\ 2 * (k * d - n) <= d /\ 2 * (n - k * d) <= d BY <1>2, <1>5, NearestIs
<1>9. \E j \in D : f[j] <= k
  <2>1. SUFFICES ASSUME \A j \in D : f[j] >= k + 1 PROVE FALSE BY <1>8
  <2> DEFINE g == [j \in Judges |-> (k + 1) * R[j]]
  <2>2. ASSUME NEW j \in Judges PROVE (k + 1) * R[j] \in Int /\ (k + 1) * R[j] <= X[j]
    <3>1. (k + 1) * R[j] \in Int BY <1>4, <1>8
    <3>2. CASE j \in D
      <4>1. \A r, x, y \in Nat : x <= y => x * r <= r * y
        <5> SUFFICES ASSUME NEW r \in Nat, NEW x \in Nat, NEW y \in Nat, x <= y
                     PROVE  x * r <= r * y
          OBVIOUS
        <5>1. y - x \in Nat OBVIOUS
        <5>2. r * (y - x) >= 0 BY <5>1
        <5> QED BY <5>2
      <4>2. R[j] \in Nat /\ f[j] \in Nat /\ k + 1 \in Nat /\ k + 1 <= f[j]
        BY <1>4, <1>8, <2>1, <3>2
      <4>3. (k + 1) * R[j] <= R[j] * f[j] BY ONLY <4>1, <4>2
      <4> QED BY <1>4, <3>1, <3>2, <4>3
    <3>3. CASE j \notin D
      <4>1. R[j] = 0 /\ X[j] = 0 BY <1>4, <3>3
      <4> QED BY <1>8, <4>1
    <3> QED BY <3>2, <3>3
  <2>3. g \in [Judges -> Int] /\ X \in [Judges -> Int] /\ \A j \in Judges : g[j] <= X[j]
    BY <1>4, <2>2 DEF X
  <2>4. (k + 1) * d = JudgeSum(g) BY <1>6, <1>8
  <2> HIDE DEF g
  <2>5. JudgeSum(g) <= n BY <1>7, <2>3 DEF n
  <2>6. (k + 1) * d = k * d + d /\ k * d \in Int BY <1>5, <1>8
  <2> QED BY <1>5, <1>8, <2>4, <2>5, <2>6
<1>10. \E j \in D : k <= f[j]
  <2>1. SUFFICES ASSUME \A j \in D : f[j] <= k - 1 PROVE FALSE BY <1>8
  <2> DEFINE g == [j \in Judges |-> (k - 1) * R[j]]
  <2>2. ASSUME NEW j \in Judges PROVE (k - 1) * R[j] \in Int /\ X[j] <= (k - 1) * R[j]
    <3>1. (k - 1) * R[j] \in Int BY <1>4, <1>8
    <3>2. CASE j \in D
      <4>1. \A r, x, y \in Nat : x <= y => r * x <= y * r
        <5> SUFFICES ASSUME NEW r \in Nat, NEW x \in Nat, NEW y \in Nat, x <= y
                     PROVE  r * x <= y * r
          OBVIOUS
        <5>1. y - x \in Nat OBVIOUS
        <5>2. r * (y - x) >= 0 BY <5>1
        <5> QED BY <5>2
      <4>2. R[j] \in Nat /\ f[j] \in Nat /\ k - 1 \in Nat /\ f[j] <= k - 1
        BY <1>4, <1>8, <2>1, <3>2
      <4>3. R[j] * f[j] <= (k - 1) * R[j] BY ONLY <4>1, <4>2
      <4> QED BY <1>4, <3>1, <3>2, <4>3
    <3>3. CASE j \notin D
      <4>1. R[j] = 0 /\ X[j] = 0 BY <1>4, <3>3
      <4> QED BY <1>8, <4>1
    <3> QED BY <3>2, <3>3
  <2>3. g \in [Judges -> Int] /\ X \in [Judges -> Int] /\ \A j \in Judges : X[j] <= g[j]
    BY <1>4, <2>2 DEF X
  <2>4. k - 1 \in Int BY <1>8
  <2>5. (k - 1) * d = JudgeSum(g) BY <1>6, <2>4
  <2> HIDE DEF g
  <2>6. n <= JudgeSum(g) BY <1>7, <2>3 DEF n
  <2>7. (k - 1) * d = k * d - d /\ k * d \in Int BY <1>5, <1>8
  <2> QED BY <1>5, <1>8, <2>5, <2>6, <2>7
<1> QED BY <1>8, <1>9, <1>10

\* The judges with a score so far: RunJudge and SkipJudge fix their order and choice, and
\* the attitude judge is always among them once its turn is over.
Judged ==
  \E judged \in SUBSET Judges :
    /\ raw \in [judged -> Nat] /\ scores \in [judged -> Nat]
    /\ next > 4 => "attitude" \in judged

ScoreInv ==
  /\ IsFiniteSet(DOMAIN hints)
  /\ \A p \in DOMAIN hints : hints[p] \in Nat \ {0}
  /\ abusive \in BOOLEAN
  /\ next \in 1..6
  /\ Judged
  /\ OnlyAttitudeIsAdjusted
  /\ overall # -1 => next = 6 /\ overall \in OverallScores(scores)

LEMMA ScoreNext == ScoreInv /\ [ScoringNext]_scoringVars => ScoreInv'
<1> SUFFICES ASSUME ScoreInv, [ScoringNext]_scoringVars PROVE ScoreInv' OBVIOUS
<1>a. /\ IsFiniteSet(DOMAIN hints) /\ abusive \in BOOLEAN
      /\ \A p \in DOMAIN hints : hints[p] \in Nat \ {0}
  BY DEF ScoreInv
<1>b. next \in 1..6 BY DEF ScoreInv
<1>e. PICK judged \in SUBSET Judges :
        /\ raw \in [judged -> Nat] /\ scores \in [judged -> Nat]
        /\ next > 4 => "attitude" \in judged
  BY DEF ScoreInv, Judged
<1>c. OnlyAttitudeIsAdjusted BY DEF ScoreInv
<1>d. overall # -1 => next = 6 /\ overall \in OverallScores(scores) BY DEF ScoreInv
<1>0. Len(JUDGE_NAMES) = 5 /\ JUDGE_NAMES[4] = "attitude"
      /\ \A i \in 1..5 : JUDGE_NAMES[i] \in Judges
  BY DEF JUDGE_NAMES, Judges
<1>1. CASE RunJudge
  <2> DEFINE j == JUDGE_NAMES[next]
             D == judged \cup {j}
  <2>1. UNCHANGED <<reached, hints, abusive, overall>> /\ next' = next + 1 /\ next \in 1..5
        /\ overall = -1
    BY <1>0, <1>1, <1>b, <1>d DEF RunJudge
  <2>2. PICK r \in RawScores :
          /\ raw' = With(raw, j, r)
          /\ \E k \in (IF j = "attitude" THEN AttitudeScores(r, hints, abusive) ELSE {r}) :
               scores' = With(scores, j, k)
    BY <1>1 DEF RunJudge
  <2>3. PICK k \in (IF j = "attitude" THEN AttitudeScores(r, hints, abusive) ELSE {r}) :
          scores' = With(scores, j, k)
    BY <2>2
  <2>4. r \in Nat /\ j \in Judges
    <3>1. \A x \in 0..10000 : x \in Nat OBVIOUS
    <3> QED BY <1>0, <2>1, <3>1, RawScoresAssumption
  <2>5. j = "attitude" => /\ k \in Nat /\ k <= r
                          /\ abusive => k <= ABUSIVE_LANGUAGE_SCORE_CAP
                          /\ DOMAIN hints # {} /\ r >= 20 => k < r
    <3> SUFFICES ASSUME j = "attitude"
                 PROVE  /\ k \in Nat /\ k <= r
                        /\ abusive => k <= ABUSIVE_LANGUAGE_SCORE_CAP
                        /\ DOMAIN hints # {} /\ r >= 20 => k < r
      OBVIOUS
    <3>1. k \in AttitudeScores(r, hints, abusive) OBVIOUS
    <3> QED BY ONLY <1>a, <2>4, <3>1, AttitudeIsLowered, Zenon
  <2>6. j # "attitude" => k = r OBVIOUS
  <2>7. k \in Nat BY <2>4, <2>5, <2>6
  <2>8. j = "attitude" \/ next # 4 BY <1>0
  <2> HIDE DEF j
  <2>9. raw' = [x \in D |-> IF x = j THEN r ELSE raw[x]]
        /\ scores' = [x \in D |-> IF x = j THEN k ELSE scores[x]]
    <3>1. DOMAIN raw = judged /\ DOMAIN scores = judged BY <1>e
    <3> QED BY <2>2, <2>3, <3>1 DEF With
  <2>10. DOMAIN scores' = D /\ D \subseteq Judges BY <2>4, <2>9
  <2>11. raw' \in [D -> Nat] /\ scores' \in [D -> Nat]
    <3>1. \A x \in D \ {j} : x \in judged BY DEF D
    <3>2. \A x \in D : raw'[x] \in Nat /\ scores'[x] \in Nat BY <1>e, <2>4, <2>7, <2>9, <3>1
    <3> HIDE DEF D
    <3> QED BY <2>9, <3>2
  <2>12. next' > 4 => "attitude" \in D BY <1>e, <2>1, <2>8
  <2>13. OnlyAttitudeIsAdjusted'
    <3> SUFFICES ASSUME NEW x \in D
                 PROVE  IF x = "attitude"
                        THEN /\ 0 <= scores'[x] /\ scores'[x] <= raw'[x]
                             /\ abusive => scores'[x] <= ABUSIVE_LANGUAGE_SCORE_CAP
                             /\ DOMAIN hints # {} /\ raw'[x] >= 20 => scores'[x] < raw'[x]
                        ELSE scores'[x] = raw'[x]
      BY <2>1, <2>10 DEF OnlyAttitudeIsAdjusted
    <3>1. CASE x = j BY <2>5, <2>6, <2>7, <2>9, <3>1
    <3>2. CASE x # j
      <4>1. scores'[x] = scores[x] /\ raw'[x] = raw[x] /\ x \in DOMAIN scores
        BY <1>e, <2>9, <3>2
      <4> QED BY <1>c, <4>1 DEF OnlyAttitudeIsAdjusted
    <3> QED BY <3>1, <3>2
  <2>14. next' \in 1..6 BY <2>1
  <2>15. Judged'
    <3> HIDE DEF D
    <3>1. D \in SUBSET Judges BY <2>10
    <3> QED BY <2>11, <2>12, <3>1 DEF Judged
  <2> QED BY ONLY <1>a, <2>1, <2>13, <2>14, <2>15 DEF ScoreInv
<1>2. CASE SkipJudge
  <2>1. UNCHANGED <<hints, abusive, raw, scores, overall>> /\ next' = next + 1 /\ next \in 1..5
        /\ overall = -1 /\ JUDGE_NAMES[next] # "attitude"
    BY <1>0, <1>2, <1>b, <1>d DEF SkipJudge, WithMaterial
  <2>2. next # 4 BY <1>0, <2>1
  <2>3. next' \in 1..6 /\ (next' > 4 => "attitude" \in judged) BY <1>e, <2>1, <2>2
  <2>4. OnlyAttitudeIsAdjusted' BY <1>c, <2>1 DEF OnlyAttitudeIsAdjusted
  <2>5. Judged' BY <1>e, <2>1, <2>3 DEF Judged
  <2> QED BY ONLY <1>a, <2>1, <2>3, <2>4, <2>5 DEF ScoreInv
<1>3. CASE Aggregate
  <2>1. UNCHANGED <<hints, abusive, raw, scores, next>> /\ overall' \in OverallScores(scores)
        /\ next = 6
    BY <1>0, <1>3, <1>b DEF Aggregate
  <2>2. OnlyAttitudeIsAdjusted' BY <1>c, <2>1 DEF OnlyAttitudeIsAdjusted
  <2>3. Judged' BY <1>e, <2>1 DEF Judged
  <2> QED BY ONLY <1>a, <1>b, <2>1, <2>2, <2>3 DEF ScoreInv
<1>4. CASE UNCHANGED scoringVars
  <2>1. UNCHANGED <<hints, abusive, raw, scores, next, overall>> BY <1>4 DEF scoringVars
  <2>2. OnlyAttitudeIsAdjusted' BY <1>c, <2>1 DEF OnlyAttitudeIsAdjusted
  <2>3. Judged' BY <1>e, <2>1 DEF Judged
  <2> QED BY ONLY <1>a, <1>b, <1>d, <2>1, <2>2, <2>3 DEF ScoreInv
<1> QED BY <1>1, <1>2, <1>3, <1>4 DEF ScoringNext

\* Every stored score keeps to the session's rules, for any answers of the judges.
THEOREM ScoresKeepRules == ScoringSpec => []ScoreInv
<1>1. ScoringInit => ScoreInv
  <2> SUFFICES ASSUME ScoringInit PROVE ScoreInv OBVIOUS
  <2>1. hints \in HintCounts BY DEF ScoringInit
  <2>2. IsFiniteSet(DOMAIN hints) /\ \A p \in DOMAIN hints : hints[p] \in Nat \ {0}
    BY <2>1, HintCountsAssumption
  <2>3. {} \in SUBSET Judges /\ DOMAIN scores = {}
        /\ raw \in [{} -> Nat] /\ scores \in [{} -> Nat]
    BY DEF ScoringInit, NoScores
  <2>4. OnlyAttitudeIsAdjusted BY <2>3 DEF OnlyAttitudeIsAdjusted
  <2>5. Judged BY <2>3 DEF Judged, ScoringInit
  <2>6. abusive \in BOOLEAN /\ next = 1 /\ overall = -1 BY DEF ScoringInit
  <2> QED BY <2>2, <2>4, <2>5, <2>6 DEF ScoreInv
<1>2. ScoreInv /\ [ScoringNext]_scoringVars => ScoreInv' BY ScoreNext
<1> QED BY <1>1, <1>2, PTL DEF ScoringSpec

\* The overall score lies within the scores of the judges that were run.
THEOREM OverallEarned == ScoringSpec => []OverallIsEarned
<1>1. ASSUME ScoreInv PROVE OverallIsEarned
  <2> SUFFICES ASSUME overall # -1
               PROVE  /\ OnlyAttitudeIsAdjusted
                      /\ \E j \in DOMAIN scores : scores[j] <= overall
                      /\ \E j \in DOMAIN scores : overall <= scores[j]
    BY DEF OverallIsEarned
  <2>1. /\ DOMAIN scores \in SUBSET Judges /\ DOMAIN scores # {}
        /\ scores \in [DOMAIN scores -> Nat]
        /\ overall \in OverallScores(scores) /\ OnlyAttitudeIsAdjusted
    <3>1. next > 4 /\ overall \in OverallScores(scores) /\ OnlyAttitudeIsAdjusted
      BY <1>1 DEF ScoreInv
    <3>2. PICK judged \in SUBSET Judges :
            scores \in [judged -> Nat] /\ "attitude" \in judged
      BY <1>1, <3>1 DEF ScoreInv, Judged
    <3>3. DOMAIN scores = judged /\ scores \in [judged -> Nat] BY <3>2
    <3> QED BY <3>1, <3>2, <3>3
  <2> QED BY <2>1, OverallIsWithin
<1> QED BY <1>1, ScoresKeepRules, PTL
=============================================================================
