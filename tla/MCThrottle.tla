----------------------------- MODULE MCThrottle -----------------------------
(***************************************************************************)
(* Throttle for TLC: two calls at a time, over the key of the settings and *)
(* one key of the pool.                                                    *)
(***************************************************************************)
EXTENDS Throttle

CONSTANT k0

MCOwnKeys == <<k0>>
=============================================================================
