------------------------- MODULE InterviewLifecycle -------------------------
(***************************************************************************)
(* What an interview session promises its candidate, with no requests,     *)
(* locks or rows: the interview is set up, opened, and then grows by one   *)
(* exchange for each turn acknowledged, until it is over; then it stays as *)
(* it is until it is deleted.                                              *)
(***************************************************************************)
EXTENDS Naturals, Sequences

CONSTANT Turn   \* the turns a client may post

VARIABLES
  stage,   \* "none", "setup", "live", "over" or "gone"
  said,    \* the turns in the stored transcript, in order
  acked    \* the turns the candidate has had an answer to

vars == <<stage, said, acked>>

Init == stage = "none" /\ said = <<>> /\ acked = {}

Create == stage = "none" /\ stage' = "setup" /\ UNCHANGED <<said, acked>>

Open == stage = "setup" /\ stage' = "live" /\ UNCHANGED <<said, acked>>

\* One turn is stored and acknowledged, for the first time, in one step.
Exchange ==
  /\ stage = "live"
  /\ stage' \in {"live", "over"}
  /\ \E turn \in Turn \ acked :
       /\ said' = Append(said, turn)
       /\ acked' = acked \cup {turn}

\* The opening failed, or the owner deleted the session.
Delete ==
  /\ stage \in {"setup", "live", "over"}
  /\ stage' = "gone"
  /\ said' = <<>>
  /\ UNCHANGED acked

Next == Create \/ Open \/ Exchange \/ Delete

Spec == Init /\ [][Next]_vars
=============================================================================
