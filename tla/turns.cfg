\* One session of one or two phases: its transcript, flags, hints, clocks, questions and
\* GitHub budget.
SPECIFICATION Spec
CONSTANTS
  h1 = h1
  h2 = h2
  NoOne = NoOne
  Handlers = {h1, h2}
  Phase = {"project_drill_down", "technical_interview"}
  Plans <- TwoPlans
  BankPhases = {"project_drill_down", "technical_interview"}
  GithubPhases = {"project_drill_down"}
  Threshold = 1
  QuestionsPerPhase = 1
  PoolSize = 2
  GithubBudget = 1
  CallsPerTurn = 2
  Verdicts <- AllVerdicts
  EarlyTurns = FALSE
  Crashes = TRUE
  MaxTurns = 4
SYMMETRY HandlerSymmetry
INVARIANTS
  TypeOK
  SnapshotIsCurrent
  WarnedAtThreshold
  GithubOvershootBounded
  PhasesWalkThePlan
  OverrunClosesPhase
  CountersMatchTranscript
PROPERTIES
  ImplementsLifecycle
  BatchesSettled
\* The clients may stop posting turns.
CHECK_DEADLOCK FALSE
