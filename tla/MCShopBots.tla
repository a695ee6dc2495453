----------------------------- MODULE MCShopBots -----------------------------
(***************************************************************************)
(* ShopBots for TLC: two handlers, two tokens, two faults.                 *)
(***************************************************************************)
EXTENDS ShopBots
=============================================================================
