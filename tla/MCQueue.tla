-------------------------------- MODULE MCQueue -------------------------------
(***************************************************************************)
(* The instances of Queue that TLC checks.                                 *)
(***************************************************************************)
EXTENDS Queue

\* Two intervals, so that the backoff grows once and then stays.
Backoff == <<1, 2>>

=============================================================================
