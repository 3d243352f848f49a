---------------------------- MODULE ReportScoring ---------------------------
(***************************************************************************)
(* The arithmetic of one evaluation report: the score each judge's answer  *)
(* is stored with, the weights that remain when judges are skipped and the *)
(* overall score.  (backend/app/services/judge_service.py)                 *)
(*                                                                         *)
(* Scores are integers, in hundredths of a point, as the columns           *)
(* Numeric(5, 2) store them; so are the judges' answers, which the code    *)
(* rounds only after it has adjusted them.  Weights and penalties are per  *)
(* cent.                                                                   *)
(***************************************************************************)
EXTENDS Integers, Sequences, FiniteSets

CONSTANTS
  RawScores,     \* the scores the judges give, in hundredths
  HintCounts,    \* the hint counters explored, each a function on hinted phases
  ReachedPhases  \* the sets of phases a finished interview may have reached

ASSUME RawScoresAssumption == RawScores \subseteq 0..10000
ASSUME HintCountsAssumption ==
  \A counts \in HintCounts :
    /\ IsFiniteSet(DOMAIN counts)
    /\ \A p \in DOMAIN counts : counts[p] \in Nat \ {0}

JUDGE_NAMES == <<"project_depth", "coding", "fundamentals", "attitude", "career_fit">>
Judges == {"project_depth", "coding", "fundamentals", "attitude", "career_fit"}

JUDGE_WEIGHTS == [project_depth |-> 25, coding |-> 20, fundamentals |-> 25,
                  attitude |-> 15, career_fit |-> 15]

\* The phases each judge reads; the attitude judge reads the full transcript.
JUDGE_PHASES ==
  [project_depth |-> {"project_drill_down"},
   coding |-> {"coding_challenge"},
   fundamentals |-> {"technical_interview", "general_technical"},
   career_fit |-> {"career_motivation", "candidate_questions"}]

HINT_PENALTY_BY_LEVEL == <<5, 15, 30>>
ABUSIVE_LANGUAGE_SCORE_CAP == 1000
\* The integers nearest to n / d: two of them at a tie, which the code's floating
\* point breaks one way or the other.
Nearest(n, d) == {k \in (n \div d)..(n \div d + 1) : 2 * (k * d - n) <= d /\ 2 * (n - k * d) <= d}

-----------------------------------------------------------------------------
(* One judge.                                                              *)

\* Every phase with at least as many hints as the level is charged for the level.
Charge(hints, level) ==
  HINT_PENALTY_BY_LEVEL[level] * Cardinality({p \in DOMAIN hints : hints[p] >= level})

HintPenalty(hints) == Charge(hints, 1) + Charge(hints, 2) + Charge(hints, 3)

\* In hundredths of a hundredth.
Penalized(score, penalty) == score * (100 - (IF penalty < 100 THEN penalty ELSE 100))

AttitudeScores(score, hints, abusive) ==
  LET penalized == Penalized(score, HintPenalty(hints))
      capped == IF abusive /\ penalized > 100 * ABUSIVE_LANGUAGE_SCORE_CAP
                THEN 100 * ABUSIVE_LANGUAGE_SCORE_CAP
                ELSE penalized
  IN  Nearest(capped, 100)

-----------------------------------------------------------------------------
(* The report.                                                             *)

\* The sum over JUDGE_NAMES of f.
JudgeSum(f) ==
  f["project_depth"] + f["coding"] + f["fundamentals"] + f["attitude"] + f["career_fit"]

\* Mutant: the weights of skipped judges are not shared out.
TotalWeightOfAll(judged) == 100

RemainingWeight(judged) ==
  JudgeSum([j \in Judges |-> IF j \in judged THEN JUDGE_WEIGHTS[j] ELSE 0])

WeightedScore(scores) ==
  JudgeSum([j \in Judges |->
              IF j \in DOMAIN scores THEN JUDGE_WEIGHTS[j] * scores[j] ELSE 0])

\* The values round() may give for the weighted mean.
OverallScores(scores) == Nearest(WeightedScore(scores), RemainingWeight(DOMAIN scores))

-----------------------------------------------------------------------------
(* The judges of one report, one after another.                            *)

VARIABLES
  reached,    \* the phases with transcript entries
  hints,      \* hint_counts of the session
  abusive,    \* did the session end for abusive language?
  raw,        \* the scores the judges gave
  scores,     \* the scores stored in their evaluations
  next,       \* the position in JUDGE_NAMES of the next judge
  overall     \* the overall score, or -1 before it is computed

scoringVars == <<reached, hints, abusive, raw, scores, next, overall>>

NoScores == [j \in {} |-> 0]

ScoringInit ==
  /\ reached \in ReachedPhases
  /\ hints \in {counts \in HintCounts : DOMAIN counts \subseteq reached}
  /\ abusive \in BOOLEAN
  /\ raw = NoScores
  /\ scores = NoScores
  /\ next = 1
  /\ overall = -1

With(f, j, x) == [k \in DOMAIN f \cup {j} |-> IF k = j THEN x ELSE f[k]]

\* A judge whose phases were never reached is skipped, except the attitude judge.
WithMaterial ==
  {"attitude"} \cup {j \in DOMAIN JUDGE_PHASES : JUDGE_PHASES[j] \cap reached # {}}

RunJudge ==
  /\ next <= Len(JUDGE_NAMES)
  /\ LET j == JUDGE_NAMES[next]
     IN  /\ j \in WithMaterial
         /\ \E r \in RawScores :
              /\ raw' = With(raw, j, r)
              /\ \E s \in (IF j = "attitude" THEN AttitudeScores(r, hints, abusive) ELSE {r}) :
                   scores' = With(scores, j, s)
  /\ next' = next + 1
  /\ UNCHANGED <<reached, hints, abusive, overall>>

SkipJudge ==
  /\ next <= Len(JUDGE_NAMES)
  /\ JUDGE_NAMES[next] \notin WithMaterial
  /\ next' = next + 1
  /\ UNCHANGED <<reached, hints, abusive, raw, scores, overall>>

Aggregate ==
  /\ next > Len(JUDGE_NAMES)
  /\ overall = -1
  /\ overall' \in OverallScores(scores)
  /\ UNCHANGED <<reached, hints, abusive, raw, scores, next>>

ScoringNext == RunJudge \/ SkipJudge \/ Aggregate

ScoringSpec == ScoringInit /\ [][ScoringNext]_scoringVars

-----------------------------------------------------------------------------
(* Properties.                                                             *)

\* Hints lower the attitude score and nothing else, never below zero, and an interview
\* ended for abusive language scores at most the cap there, whatever the judge said.
OnlyAttitudeIsAdjusted ==
  \A j \in DOMAIN scores :
    IF j = "attitude"
    THEN /\ 0 <= scores[j] /\ scores[j] <= raw[j]
         /\ abusive => scores[j] <= ABUSIVE_LANGUAGE_SCORE_CAP
         /\ DOMAIN hints # {} /\ raw[j] >= 20 => scores[j] < raw[j]
    ELSE scores[j] = raw[j]

\* The overall score rests on scores adjusted by the session's rules, and lies between
\* the worst and the best of them: a dimension never reached neither costs the candidate
\* nor helps.
OverallIsEarned ==
  overall # -1 =>
    /\ OnlyAttitudeIsAdjusted
    /\ \E j \in DOMAIN scores : scores[j] <= overall
    /\ \E j \in DOMAIN scores : overall <= scores[j]
=============================================================================
