\* Three requests with two connections between them.
SPECIFICATION Spec
CONSTANTS
  turn = turn
  speech = speech
  other = other
  listRepos = listRepos
  invented = invented
  Requests <- TheRequests
  Kinds <- KindsOf
  Connections = 2
  MaxRounds = 2
  Tools <- TheTools
  Invented <- NoSuchTool
  MaxCalls = 2
INVARIANTS
  CallsAreLogged
  HistoryPaired
  OneVoice
PROPERTIES
  EveryRequestEnds
\* Every request ends.
CHECK_DEADLOCK FALSE
