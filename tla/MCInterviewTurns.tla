-------------------------- MODULE MCInterviewTurns --------------------------
(* Small instances of InterviewTurns for TLC: constant values and symmetry. *)
EXTENDS InterviewTurnsRefinement, TLC

HandlerSymmetry == Permutations(Handlers)

OnePhase == {<<"technical_interview">>}
TwoPlans ==
  {<<"technical_interview">>, <<"project_drill_down", "technical_interview">>}

\* A flag, or a hint and an end of the phase.
AllVerdicts == {v \in Verdict : v.flag = "none" \/ (~v.hint /\ ~v.complete)}
PlainVerdicts ==
  {v \in Verdict : v.flag = "none" /\ ~v.hint}
=============================================================================
