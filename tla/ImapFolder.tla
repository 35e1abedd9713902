------------------------------ MODULE ImapFolder ------------------------------
(***************************************************************************)
(* What an IMAP client relies on when it caches a folder by UID: the same  *)
(* message under the same UID whenever it looks, new mail under UIDs above *)
(* all that it has seen, and what has gone is gone: a file that a removal  *)
(* missed can only come back as new mail.                                  *)
(*                                                                         *)
(* A message is a pair of its file and its UID.                            *)
(***************************************************************************)
EXTENDS Integers

VARIABLES
    shown,   \* the messages the folder has now
    seen,    \* the messages it has ever had
    gone,    \* those of them that are gone for good
    missed   \* the files that a removal has missed

Init == shown = {} /\ seen = {} /\ gone = {} /\ missed = {}

\* The folder is looked through: whatever was seen is there again unless it
\* is gone, and a client that asks for the UIDs above those it has seen gets
\* all that is new.
Refresh ==
    /\ shown' \cap gone = {}
    /\ \A m \in shown' \ seen, n \in seen :
           m[2] > n[2] /\ (m[1] = n[1] => m[1] \in missed)
    /\ \A m, n \in shown' : m[1] = n[1] <=> m[2] = n[2]
    /\ seen' = seen \cup shown'
    /\ gone' = seen' \ shown'
    /\ UNCHANGED missed

\* Some messages are removed.
Expunge ==
    /\ shown' \subseteq shown
    /\ gone' = gone \cup (shown \ shown')
    /\ UNCHANGED <<seen, missed>>

\* The removal of a message that was seen misses its file.
Miss ==
    /\ \E m \in seen : missed' = missed \cup {m[1]}
    /\ UNCHANGED <<shown, seen, gone>>

\* The server starts again, and has looked at nothing yet.  A removal that was
\* under way may have come to its end.
Forget ==
    /\ shown' = {}
    /\ gone \subseteq gone'
    /\ gone' \subseteq gone \cup shown
    /\ UNCHANGED <<seen, missed>>

Next == Refresh \/ Expunge \/ Miss \/ Forget

Spec == Init /\ [][Next]_<<shown, seen, gone, missed>>

=============================================================================
