-------------------------- MODULE InterviewPresets --------------------------
(***************************************************************************)
(* The plan of a timed interview and its clock: how a preset and a         *)
(* duration become an ordered list of phases with a whole number of        *)
(* minutes each, and how the time spent in a phase turns into the          *)
(* instruction to hurry, to wrap up, and at last into the server ending    *)
(* the phase.  The clock is read once a turn, when the turn arrives, and   *)
(* any time may pass between two turns.                                    *)
(* (backend/app/services/interview_presets.py)                             *)
(*                                                                         *)
(* Minutes and weights are exact integers: for every preset and duration   *)
(* configured the code's floating point shares round and compare as the    *)
(* exact ones do.  Elapsed time is counted in tenths of a minute.          *)
(***************************************************************************)
EXTENDS Integers, Sequences, FiniteSets, SequencesExt

CONSTANTS
  Keys,         \* the preset keys clients send, known or not
  Durations,    \* the durations clients send, in minutes
  Pauses        \* the times from one turn's arrival to the next one's

ASSUME DurationsAssumption == Durations \subseteq Nat \ {0}
ASSUME PausesAssumption == Pauses \subseteq Nat

INTERVIEW_PHASES ==
  <<"background_check", "project_drill_down", "technical_interview",
    "coding_challenge", "general_technical", "career_motivation",
    "candidate_questions">>
CODING_PHASE == "coding_challenge"

Phases == ToSet(INTERVIEW_PHASES)

Preset(phases, durations) == [phases |-> phases, durations |-> durations]

INTERVIEW_PRESETS ==
  [quick_project_deep_dive |-> Preset({"project_drill_down"}, {5, 10}),
   coding_only |-> Preset({CODING_PHASE}, {5, 10}),
   technical_round |->
     Preset({"technical_interview", CODING_PHASE, "general_technical"}, {15, 20, 25}),
   project_coding_combo |-> Preset({"project_drill_down", CODING_PHASE}, {15, 20}),
   full_loop_no_coding |-> Preset(Phases \ {CODING_PHASE}, {25, 30, 35}),
   full_loop |-> Preset(Phases, {30, 35, 40})]

PHASE_TIME_WEIGHTS ==
  [p \in Phases |->
     IF p \in {"project_drill_down", "technical_interview", CODING_PHASE} THEN 3
     ELSE IF p = "general_technical" THEN 2
     ELSE 1]

-----------------------------------------------------------------------------
(* The plan.                                                               *)

Wanted(key, coding) ==
  {p \in INTERVIEW_PRESETS[key].phases : p = CODING_PHASE => coding}

Place(p) == CHOOSE i \in DOMAIN INTERVIEW_PHASES : INTERVIEW_PHASES[i] = p

\* The n-th phase of the plan is the wanted one that n - 1 wanted ones precede.
ResolvePhases(key, coding) ==
  LET wanted == Wanted(key, coding)
  IN  [n \in 1..Cardinality(wanted) |->
         CHOOSE p \in wanted : Cardinality({q \in wanted : Place(q) < Place(p)}) = n - 1]

\* The sum over the phases of a plan, written out.
Of(f, p) == IF p \in DOMAIN f THEN f[p] ELSE 0
PhaseSum(f) ==
  Of(f, "background_check") + Of(f, "project_drill_down") + Of(f, "technical_interview")
  + Of(f, "coding_challenge") + Of(f, "general_technical") + Of(f, "career_motivation")
  + Of(f, "candidate_questions")

TotalWeight(phases) == PhaseSum([p \in ToSet(phases) |-> PHASE_TIME_WEIGHTS[p]])

\* The share of a phase is Dividend / TotalWeight minutes: this many whole ones ...
WholeMinutes(phases, duration, p) ==
  (duration * PHASE_TIME_WEIGHTS[p]) \div TotalWeight(phases)

\* ... and this many TotalWeight-ths of a minute.
Fraction(phases, duration, p) ==
  (duration * PHASE_TIME_WEIGHTS[p]) % TotalWeight(phases)

\* Mutant: the sort by fraction is not reversed.
AheadSmallest(phases, duration, p) ==
  LET Index(q) == CHOOSE i \in DOMAIN phases : phases[i] = q
      frac == [q \in ToSet(phases) |-> Fraction(phases, duration, q)]
  IN  {q \in ToSet(phases) : \/ frac[q] < frac[p]
                             \/ frac[q] = frac[p] /\ Index(q) < Index(p)}

\* The phases served before p by a stable sort on the fraction, largest first.
Ahead(phases, duration, p) ==
  LET Index(q) == CHOOSE i \in DOMAIN phases : phases[i] = q
      frac == [q \in ToSet(phases) |-> Fraction(phases, duration, q)]
  IN  {q \in ToSet(phases) : \/ frac[q] > frac[p]
                             \/ frac[q] = frac[p] /\ Index(q) < Index(p)}

\* Each share is rounded down, and the minutes left over go one each to the phases
\* with the largest fractions.
SplitTimeBudget(phases, duration) ==
  LET whole == [p \in ToSet(phases) |-> WholeMinutes(phases, duration, p)]
      leftover == duration - PhaseSum(whole)
  IN  [p \in ToSet(phases) |->
         whole[p] + (IF Cardinality(Ahead(phases, duration, p)) < leftover THEN 1 ELSE 0)]

\* An unknown preset, a preset that is all coding for a job without, or a duration
\* the preset is not offered for raises InvalidInterviewPresetError.
Valid(r) ==
  /\ r.key \in DOMAIN INTERVIEW_PRESETS
  /\ ResolvePhases(r.key, r.coding) # <<>>
  /\ r.duration \in INTERVIEW_PRESETS[r.key].durations

\* Mutant: every preset is offered to every job.
OfferAll(coding) == DOMAIN INTERVIEW_PRESETS

\* list_interview_presets: the presets shown for a job.
Offered(coding) ==
  {key \in DOMAIN INTERVIEW_PRESETS :
     CODING_PHASE \in INTERVIEW_PRESETS[key].phases => coding}

-----------------------------------------------------------------------------
(* The clock of one phase.                                                 *)

PhaseTimeStatus(minutes, spent) ==
  IF spent >= 10 * minutes THEN "exhausted"
  ELSE IF spent >= 7 * minutes THEN "running_low"
  ELSE "comfortable"

Forced(minutes, spent) == spent >= 15 * minutes

\* What a turn finds out about its phase's time before it calls the model: the stage
\* its instruction names, and whether its reply will be the phase's last.
Look(minutes, spent) ==
  [stage |-> PhaseTimeStatus(minutes, spent), force |-> Forced(minutes, spent)]

NoTurn == [stage |-> "none", force |-> FALSE]

-----------------------------------------------------------------------------
(* A session from its start request to its last phase.                     *)

VARIABLES
  request,   \* what the start request asks for
  outcome,   \* "none", "planned", "rejected" or "completed"
  phases,    \* selected_phases
  budget,    \* phase_time_budget
  pos,       \* the current phase
  spent,     \* from phase_started_at to the last turn's arrival
  turn,      \* what the turn being served has found out, or NoTurn
  told       \* history: the stages the phase's earlier turns were told

presetVars == <<request, outcome, phases, budget, pos, spent, turn, told>>
clockVars == <<spent, turn, told>>

NoBudget == [p \in {} |-> 0]

PresetInit ==
  /\ request \in [key : Keys, duration : Durations, coding : BOOLEAN]
  /\ outcome = "none"
  /\ phases = <<>>
  /\ budget = NoBudget
  /\ pos = 0
  /\ spent = 0
  /\ turn = NoTurn
  /\ told = {}

BuildSessionPlan ==
  /\ outcome = "none"
  /\ Valid(request)
  /\ phases' = ResolvePhases(request.key, request.coding)
  /\ budget' = SplitTimeBudget(phases', request.duration)
  /\ outcome' = "planned"
  /\ pos' = 1
  /\ UNCHANGED <<request, clockVars>>

RejectPlan ==
  /\ outcome = "none"
  /\ ~Valid(request)
  /\ outcome' = "rejected"
  /\ UNCHANGED <<request, phases, budget, pos, clockVars>>

Minutes == budget[phases[pos]]

\* A turn that fails is rolled back and is part of the pause before the next one.
TurnArrives ==
  /\ outcome = "planned"
  /\ turn = NoTurn
  /\ \E pause \in Pauses :
       /\ spent' = spent + pause
       /\ turn' = Look(Minutes, spent + pause)
  /\ UNCHANGED <<request, outcome, phases, budget, pos, told>>

\* The reply does not complete the phase, nor is it forced to.
PhaseGoesOn ==
  /\ turn # NoTurn
  /\ ~turn.force
  /\ turn' = NoTurn
  /\ told' = told \cup {turn.stage}
  /\ UNCHANGED <<request, outcome, phases, budget, pos, spent>>

\* Mutant: the clock of the session runs on into the next phase.
NextPhaseKeepsClock ==
  /\ turn # NoTurn
  /\ pos < Len(phases)
  /\ pos' = pos + 1
  /\ turn' = NoTurn
  /\ told' = {}
  /\ UNCHANGED <<request, outcome, phases, budget, spent>>

\* The reply completes the phase, or is forced to.
NextPhase ==
  /\ turn # NoTurn
  /\ pos < Len(phases)
  /\ pos' = pos + 1
  /\ spent' = 0
  /\ turn' = NoTurn
  /\ told' = {}
  /\ UNCHANGED <<request, outcome, phases, budget>>

LastPhaseEnds ==
  /\ turn # NoTurn
  /\ pos = Len(phases)
  /\ outcome' = "completed"
  /\ turn' = NoTurn
  /\ UNCHANGED <<request, phases, budget, pos, spent, told>>

PresetNext ==
  BuildSessionPlan \/ RejectPlan \/ TurnArrives \/ PhaseGoesOn \/ NextPhase
    \/ LastPhaseEnds

PresetSpec == PresetInit /\ [][PresetNext]_presetVars

-----------------------------------------------------------------------------
(* Properties.                                                             *)

\* "The budgets always add up to exactly duration_minutes", none is zero, which the
\* session would take for a phase without a budget, never to be forced; each is the
\* phase's share to within a minute, and a phase that weighs more never gets less time
\* than one that weighs less.
BudgetsAreShares ==
  outcome = "planned" =>
    /\ DOMAIN budget = ToSet(phases)
    /\ PhaseSum(budget) = request.duration
    /\ \A p \in ToSet(phases) :
         LET exact == request.duration * PHASE_TIME_WEIGHTS[p]
         IN  /\ budget[p] >= 1
             /\ budget[p] * TotalWeight(phases) - exact < TotalWeight(phases)
             /\ exact - budget[p] * TotalWeight(phases) < TotalWeight(phases)
             /\ \A q \in ToSet(phases) :
                  PHASE_TIME_WEIGHTS[p] > PHASE_TIME_WEIGHTS[q] => budget[p] >= budget[q]

\* A preset offered for a job is accepted for that job, for each of its durations.
OfferIsAccepted ==
  /\ request.key \in Offered(request.coding)
  /\ request.duration \in INTERVIEW_PRESETS[request.key].durations
  => outcome # "rejected"

Rank(status) == CASE status = "comfortable" -> 0
                  [] status = "running_low" -> 1
                  [] status = "exhausted" -> 2

\* However the turns are spaced: no turn of a phase is told that there is more time than
\* an earlier one was; the server ends a phase by force only with a reply whose own
\* instruction said to wrap up; and no reply given at 1.5 times a phase's budget or later
\* leaves the phase open, nor does a phase begin with the time of the one before it.  (That
\* reply may be the first to be told: the clock is read once a turn.)
UrgencyEscalates ==
  outcome = "planned" =>
    /\ turn # NoTurn => \A stage \in told : Rank(stage) <= Rank(turn.stage)
    /\ turn.force => turn.stage = "exhausted"
    /\ turn = NoTurn => spent < 15 * Minutes
=============================================================================
