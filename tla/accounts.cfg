\* Two requests at once for one address, over several accounts and resets.
SPECIFICATION Spec
CONSTANTS
  h1 = h1
  h2 = h2
  Handlers <- TheHandlers
  MaxBirths = 2
  MaxCodes = 3
  MaxEras = 3
SYMMETRY Symmetry
INVARIANTS
  TypeOK
  TokensFollowResets
  NoRegistrationOverAccount
  MailedCodesAreStored
  AccountLeavesNoCodes
PROPERTIES
  TakenCodesStayDead
\* Clients may stop asking.
CHECK_DEADLOCK FALSE
