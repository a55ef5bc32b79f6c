----------------------------- MODULE MCAccounts -----------------------------
(***************************************************************************)
(* Constants for the run of Accounts.                                      *)
(***************************************************************************)
EXTENDS Accounts, TLC

MCSymmetry == Permutations(Procs)
=============================================================================
