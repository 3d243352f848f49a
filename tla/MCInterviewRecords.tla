------------------------- MODULE MCInterviewRecords -------------------------
(* One account with a resume and a job description, for TLC. *)
EXTENDS InterviewRecords, TLC

CONSTANTS u1, u2, u3, s1, s2, d1, d2

cv == "cv"
posting == "posting"

TheContents == {cv, posting}
KindOf(c) == IF c = cv THEN "resume" ELSE "job"
TheUploads == {u1, u2, u3}
OneStart == {s1}
TwoStarts == {s1, s2}
OneDeletion == {d1}
TwoDeletions == {d1, d2}
Symmetry == Permutations(TheUploads) \cup Permutations(TwoStarts) \cup Permutations(TwoDeletions)
=============================================================================
