------------------------------- MODULE MCJobs -------------------------------
(***************************************************************************)
(* Jobs for TLC: two shops, two renewals, two faults.                      *)
(***************************************************************************)
EXTENDS Jobs
=============================================================================
