--------------------------- MODULE MCRegistration ---------------------------
(***************************************************************************)
(* Registration for TLC: two handlers at once, two addresses, two codes.   *)
(***************************************************************************)
EXTENDS Registration, TLC

Symmetry == Permutations(Addresses) \cup Permutations(Handlers)
=============================================================================
