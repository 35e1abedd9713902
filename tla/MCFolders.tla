------------------------------- MODULE MCFolders ------------------------------
(***************************************************************************)
(* The instance of Folders that TLC checks: INBOX and two folders in it.   *)
(***************************************************************************)
EXTENDS Folders, TLC

CONSTANT Parts

MCNames == {<<>>} \cup {<<p>> : p \in Parts}

\* Sessions are alike, and so are folders other than INBOX.
Symmetry == Permutations(Procs) \cup Permutations(Parts)

=============================================================================
