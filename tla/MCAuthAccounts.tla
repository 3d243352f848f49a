--------------------------- MODULE MCAuthAccounts ---------------------------
(* One address and a few requests at once, for TLC. *)
EXTENDS AuthAccounts, TLC

CONSTANTS h1, h2

TheHandlers == {h1, h2}
Symmetry == Permutations(TheHandlers)
=============================================================================
