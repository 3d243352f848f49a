\* The log of an interview that was deleted before its account stays for ever.
SPECIFICATION Spec
CONSTANTS
  u1 = u1
  u2 = u2
  u3 = u3
  s1 = s1
  s2 = s2
  d1 = d1
  d2 = d2
  Uploads <- TheUploads
  Starts <- OneStart
  Deletions <- OneDeletion
  Contents <- TheContents
  Kind <- KindOf
  MaxCalls = 2
SYMMETRY Symmetry
INVARIANTS
  AccountLeavesNothing
CHECK_DEADLOCK FALSE
