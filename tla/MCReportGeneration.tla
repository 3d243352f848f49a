------------------------- MODULE MCReportGeneration -------------------------
(***************************************************************************)
(* Reports of one interview for TLC: two report requests, one reader.      *)
(***************************************************************************)
EXTENDS ReportGeneration, TLC

CONSTANTS g1, g2, r1

AllJudges == <<"project_depth", "coding", "fundamentals", "attitude", "career_fit">>

TheGenerators == {g1, g2}
TheReaders == {r1}
Symmetry == Permutations(TheGenerators)
=============================================================================
