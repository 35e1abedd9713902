------------------------------ MODULE LoginPolicy -----------------------------
(***************************************************************************)
(* What the rate limiter promises to the three login surfaces, in terms of *)
(* everything that has happened and without any data structure that is     *)
(* pruned: a key with MaxAttempts failures inside the trailing window is   *)
(* kept out for BanDuration, and a success forgives it everything.         *)
(***************************************************************************)
EXTENDS Integers, FiniteSets

CONSTANTS Keys, Attempts, MaxAttempts, Window, BanDuration

VARIABLES
    now,    \* the clock
    state,  \* of each attempt: "new", "open", "failed", "passed", "blocked"
    key,    \* the key of each attempt
    at,     \* the time at which each attempt failed
    log,    \* failures of each key since its last ban or success
    until   \* the end of its last ban, 0 if it had none since a success

pvars == <<now, state, key, at, log, until>>

Init ==
    /\ now = 1
    /\ state = [a \in Attempts |-> "new"]
    /\ key \in [Attempts -> Keys]
    /\ at = [a \in Attempts |-> 0]
    /\ log = [k \in Keys |-> {}]
    /\ until = [k \in Keys |-> 0]

Becomes(a, from, to) ==
    /\ state[a] = from
    /\ state' = [state EXCEPT ![a] = to]

\* The last instant of a ban may count either way.
Begin(a) ==
    /\ now >= until[key[a]]
    /\ Becomes(a, "new", "open")
    /\ UNCHANGED <<now, key, at, log, until>>

Block(a) ==
    /\ now <= until[key[a]]
    /\ Becomes(a, "new", "blocked")
    /\ UNCHANGED <<now, key, at, log, until>>

Recent(a) == now - at[a] < Window

Fail(a) ==
    LET k == key[a]
        count == {b \in log[k] : Recent(b)} \cup {a}
    IN  /\ Becomes(a, "open", "failed")
        /\ at' = [at EXCEPT ![a] = now]
        /\ IF Cardinality(count) >= MaxAttempts
             THEN /\ log' = [log EXCEPT ![k] = {}]
                  /\ until' = [until EXCEPT ![k] = now + BanDuration]
             ELSE /\ log' = [log EXCEPT ![k] = @ \cup {a}]
                  /\ UNCHANGED until
        /\ UNCHANGED <<now, key>>

Pass(a) ==
    /\ Becomes(a, "open", "passed")
    /\ log' = [log EXCEPT ![key[a]] = {}]
    /\ until' = [until EXCEPT ![key[a]] = 0]
    /\ UNCHANGED <<now, key, at>>

Tick == now' = now + 1 /\ UNCHANGED <<state, key, at, log, until>>

Next ==
    \/ \E a \in Attempts : Begin(a) \/ Block(a) \/ Fail(a) \/ Pass(a)
    \/ Tick

Spec == Init /\ [][Next]_pvars

=============================================================================
