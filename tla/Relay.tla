--------------------------------- MODULE Relay --------------------------------
(***************************************************************************)
(* What the outbound queue promises to those who hand it mail: a message   *)
(* that was accepted stays with the queue until another mail server has it *)
(* or its sender has been told that it could not be delivered.  (It may    *)
(* come to both: see Queue.)                                               *)
(***************************************************************************)
EXTENDS Integers

CONSTANT Ids   \* the (message, recipient) pairs that are handed over

VARIABLE fate  \* what has become of each

Init == fate = [id \in Ids |-> "unsent"]

Becomes(id, from, to) ==
    /\ fate[id] = from
    /\ fate' = [fate EXCEPT ![id] = to]

\* The message is taken over.
Accept(id) == Becomes(id, "unsent", "queued")

\* It is not: the caller gets an error, or no answer when the server stops,
\* which may be the lot of several callers.
Refuse(S) ==
    /\ \A id \in S : fate[id] = "unsent"
    /\ fate' = [id \in Ids |-> IF id \in S THEN "refused" ELSE fate[id]]

\* A queued message meets its end: a host has it, or its sender is told.
Settle(id) == Becomes(id, "queued", "settled")

Next ==
    \/ \E id \in Ids : Accept(id) \/ Settle(id)
    \/ \E S \in SUBSET Ids : Refuse(S)

Spec == Init /\ [][Next]_fate

=============================================================================
