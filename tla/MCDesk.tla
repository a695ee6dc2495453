------------------------------- MODULE MCDesk -------------------------------
(***************************************************************************)
(* Desk for TLC: two handlers at once, and forms opened twice.             *)
(***************************************************************************)
EXTENDS Desk, TLC

Symmetry == Permutations(Handlers)
=============================================================================
