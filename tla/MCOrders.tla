------------------------------ MODULE MCOrders ------------------------------
(***************************************************************************)
(* Orders for TLC. Two orders, of one customer or of two, compete for one  *)
(* product or name none. Units 1 (quantity None) and 2 against the stocks  *)
(* 1 and 3 that an owner may type give: enough for both, for one, for none.*)
(***************************************************************************)
EXTENDS Orders
=============================================================================
