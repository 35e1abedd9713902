------------------------------ MODULE MCAccounts -----------------------------
(***************************************************************************)
(* Symmetry for the runs of Accounts.                                      *)
(***************************************************************************)
EXTENDS Accounts, TLC

Interchangeable == Permutations(Procs) \cup Permutations(Tokens)

=============================================================================
