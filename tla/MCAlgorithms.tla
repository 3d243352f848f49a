---------------------------- MODULE MCAlgorithms ----------------------------
(***************************************************************************)
(* The two computations of the server that no other request can disturb,   *)
(* for TLC: a behaviour is either a planned interview with its clock or    *)
(* the scoring of one report.                                              *)
(***************************************************************************)
EXTENDS InterviewPresets, ReportScoring

AllKeys == DOMAIN INTERVIEW_PRESETS \cup {"retired_preset"}
AllDurations == 1..42

\* Turns within seconds, within minutes, and after a long answer.
SomePauses == {3, 26, 170}

SomeScores == {0, 6999, 10000}
SomeHints ==
  UNION {[hinted -> {1, 4}] : hinted \in SUBSET {"project_drill_down", "coding_challenge"}}

\* An interview that ends early has reached the first n phases of its plan.
ReachedSets ==
  UNION {LET plan == ResolvePhases(key, coding)
         IN  {ToSet(SubSeq(plan, 1, n)) : n \in 1..Len(plan)} :
           key \in DOMAIN INTERVIEW_PRESETS, coding \in BOOLEAN}

PresetsIdle ==
  /\ request = [key |-> "retired_preset", duration |-> 1, coding |-> FALSE]
  /\ outcome = "rejected" /\ phases = <<>> /\ budget = NoBudget /\ pos = 0
  /\ spent = 0 /\ turn = NoTurn /\ told = {}

ScoringIdle ==
  /\ reached = {} /\ hints = [p \in {} |-> 0] /\ abusive = FALSE
  /\ raw = NoScores /\ scores = NoScores /\ next = 1 /\ overall = -1

Init == (PresetInit /\ ScoringIdle) \/ (ScoringInit /\ PresetsIdle)

Next ==
  \/ PresetNext /\ UNCHANGED scoringVars
  \/ reached # {} /\ ScoringNext /\ UNCHANGED presetVars

Spec == Init /\ [][Next]_<<presetVars, scoringVars>>
=============================================================================
