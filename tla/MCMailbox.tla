------------------------------ MODULE MCMailbox ------------------------------
(***************************************************************************)
(* Model values for the runs of Mailbox.                                   *)
(***************************************************************************)
EXTENDS Mailbox, TLC

Sessions == Permutations(Procs)

=============================================================================
