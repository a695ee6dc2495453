------------------------------ MODULE MCWallet ------------------------------
(***************************************************************************)
(* Wallet for TLC: two charges. One debit at a time with every feature     *)
(* (costs that empty a charge, span both, or are free; reminders at two    *)
(* thresholds; both notices), or two debits that contend for the rows.     *)
(***************************************************************************)
EXTENDS Wallet
=============================================================================
