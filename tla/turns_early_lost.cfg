\* A turn posted while the opening is being generated is overwritten by it.
SPECIFICATION Spec
CONSTANTS
  h1 = h1
  h2 = h2
  NoOne = NoOne
  Handlers = {h1, h2}
  Phase = {"technical_interview"}
  Plans <- OnePhase
  BankPhases = {}
  GithubPhases = {}
  Threshold = 2
  QuestionsPerPhase = 1
  PoolSize = 0
  GithubBudget = 0
  CallsPerTurn = 0
  Verdicts <- PlainVerdicts
  EarlyTurns = TRUE
  Crashes = FALSE
  MaxTurns = 2
SYMMETRY HandlerSymmetry
INVARIANTS
  NoAnsweredTurnLost
\* The clients may stop posting turns.
CHECK_DEADLOCK FALSE
