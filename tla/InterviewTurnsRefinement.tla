---------------------- MODULE InterviewTurnsRefinement ----------------------
(***************************************************************************)
(* InterviewTurns implements InterviewLifecycle when clients post turns    *)
(* only to interviews whose start request has answered.                    *)
(***************************************************************************)
EXTENDS InterviewTurns

StageOf ==
  IF startPc = "idle" THEN "none"
  ELSE IF row.status = "absent" THEN "gone"
  ELSE IF row.transcript = <<>> THEN "setup"
  ELSE IF Active(row) THEN "live"
  ELSE "over"

\* The transcript without its opening.
SaidIn(transcript) ==
  [i \in 1..(Len(transcript) - 1) |-> transcript[i + 1].turn]

Lifecycle == INSTANCE InterviewLifecycle WITH
               Turn <- 1..MaxTurns,
               stage <- StageOf,
               said <- IF row.transcript = <<>> THEN <<>> ELSE SaidIn(row.transcript),
               acked <- answered

\* Every step of the requests is a step of the promised life cycle, or none: in
\* particular a turn enters the stored transcript in the step that acknowledges it,
\* and no turn acknowledged leaves it.
ImplementsLifecycle == Lifecycle!Spec
=============================================================================
