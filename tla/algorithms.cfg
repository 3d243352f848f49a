\* Every preset with every duration, and the scoring of reports.
SPECIFICATION Spec
CONSTANTS
  Keys <- AllKeys
  Durations <- AllDurations
  Pauses <- SomePauses
  RawScores <- SomeScores
  HintCounts <- SomeHints
  ReachedPhases <- ReachedSets
INVARIANTS
  BudgetsAreShares
  OfferIsAccepted
  UrgencyEscalates
  OverallIsEarned
\* An interview is planned or rejected once, and a report is scored once.
CHECK_DEADLOCK FALSE
