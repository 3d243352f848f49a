\* Uploads, an interview, a document deletion and the deletion of the account.
SPECIFICATION Spec
CONSTANTS
  u1 = u1
  u2 = u2
  u3 = u3
  s1 = s1
  s2 = s2
  d1 = d1
  d2 = d2
  Uploads <- TheUploads
  Starts <- TwoStarts
  Deletions <- OneDeletion
  Contents <- TheContents
  Kind <- KindOf
  MaxCalls = 3
SYMMETRY Symmetry
INVARIANTS
  TypeOK
  NoDuplicateDocuments
  SessionsKeepDocuments
  AccountLeavesNothingLinked
PROPERTIES
  DeletionSparesKnown
\* Every request ends.
CHECK_DEADLOCK FALSE
