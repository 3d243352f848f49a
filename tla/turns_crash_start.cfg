\* A crash during the opening leaves a session nobody can load.
SPECIFICATION Spec
CONSTANTS
  h1 = h1
  h2 = h2
  NoOne = NoOne
  Handlers = {h1, h2}
  Phase = {"technical_interview"}
  Plans <- OnePhase
  BankPhases = {}
  GithubPhases = {}
  Threshold = 2
  QuestionsPerPhase = 1
  PoolSize = 0
  GithubBudget = 0
  CallsPerTurn = 0
  Verdicts <- PlainVerdicts
  EarlyTurns = FALSE
  Crashes = TRUE
  MaxTurns = 1
SYMMETRY HandlerSymmetry
INVARIANTS
  ResumableOnceStarted
\* The clients may stop posting turns.
CHECK_DEADLOCK FALSE
