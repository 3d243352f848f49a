------------------------- MODULE MCInterviewScreen -------------------------
(* The live page for TLC: behaviours with many answers are silent.           *)
EXTENDS InterviewScreen

Silence == clips = 0 /\ mic = NoMic /\ live = 0 /\ astray = 0

OneMicrophone == live + mic.asking + mic.orphans <= 1
OneAnswer == answers <= 1 /\ posts <= 1 /\ (clips <= 1 \/ OneMicrophone)

\* A recording only holds an answer back, and neither voice nor microphone depends on how
\* many answers there were: two answers in three posts are explored without them, and one
\* answer with both.
Bounded == Silence \/ OneAnswer
=============================================================================
