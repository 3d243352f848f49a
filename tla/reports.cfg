\* Two reports and a reader against one interview.
SPECIFICATION Spec
CONSTANTS
  g1 = g1
  g2 = g2
  r1 = r1
  Generators <- TheGenerators
  Readers <- TheReaders
  JUDGE_NAMES <- AllJudges
  Attitude = "attitude"
  MaxTurns = 2
SYMMETRY Symmetry
INVARIANTS
  EvaluationsAreReported
  JudgedInFull
  ReadersSeeProgress
  AnswersAreWhole
  NothingOutlivesSession
\* Every request is answered once.
CHECK_DEADLOCK FALSE
