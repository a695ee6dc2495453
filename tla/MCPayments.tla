----------------------------- MODULE MCPayments -----------------------------
(***************************************************************************)
(* Payments for TLC: owner "a", referred by "b", and two payments, which   *)
(* two sessions approve or reject at the same time.                        *)
(***************************************************************************)
EXTENDS Payments

MCOwners == {"a", "b"}
MCReferrer == [o \in {"a"} |-> "b"]
=============================================================================
