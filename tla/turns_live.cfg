\* Turns may be posted while the opening is still being generated; fair scheduling.
SPECIFICATION FairSpec
CONSTANTS
  h1 = h1
  h2 = h2
  NoOne = NoOne
  Handlers = {h1, h2}
  Phase = {"technical_interview"}
  Plans <- OnePhase
  BankPhases = {}
  GithubPhases = {}
  Threshold = 2
  QuestionsPerPhase = 1
  PoolSize = 0
  GithubBudget = 0
  CallsPerTurn = 0
  Verdicts <- PlainVerdicts
  EarlyTurns = TRUE
  Crashes = FALSE
  MaxTurns = 3
INVARIANTS
  LaterTurnsKept
PROPERTIES
  FinishedIsFinal
  EveryRequestEnds
\* The clients may stop posting turns.
CHECK_DEADLOCK FALSE
