-------------------------------- MODULE Limiter -------------------------------
(***************************************************************************)
(* The limiter of failed logins: per key (a client address) an entry with  *)
(* the times of its recent failures and the end of its ban, a cleanup that *)
(* drops entries, and the login attempts of the submission, IMAP and       *)
(* webmail servers, which ask, verify the password without any lock, and   *)
(* then record the result.  Each method of Limiter is one critical         *)
(* section.                                                                *)
(*                                                                         *)
(* A failure is known by its attempt; "at" has its time.                   *)
(***************************************************************************)
EXTENDS Integers, FiniteSets

CONSTANTS
    Keys,
    NumAttempts,  \* bound: login attempts ever made
    MaxAttempts,  \* Limiter.MaxAttempts
    Window,       \* Limiter.Window, in ticks
    BanDuration,  \* Limiter.BanDuration, in ticks
    MaxOpen       \* bound: attempts whose password is verified at a time

ASSUME LimiterAssumption ==
    /\ NumAttempts \in Nat
    /\ MaxAttempts \in Nat \ {0}
    /\ Window \in Nat \ {0}
    /\ BanDuration \in Nat \ {0}
    /\ MaxOpen \in Nat \ {0}

Attempts == 1..NumAttempts

VARIABLES
    now,          \* the clock
    known,        \* the keys that have an entry
    failures,     \* entry.failures
    bannedUntil,  \* entry.bannedUntil; 0 is the zero time
    state,        \* of each attempt: "new", "open", "failed", "passed", "blocked"
    key,          \* the key of each attempt
    at,           \* the time at which each attempt failed
    \* History, read by the properties only (and by the bound in Tick):
    log,          \* failures of each key since its last ban or success
    until,        \* the end of its last ban, 0 if it had none since a success
    streak        \* failures of each key since its last success

entries == <<known, failures, bannedUntil>>
vars == <<now, entries, state, key, at, log, until, streak>>

Init ==
    /\ now = 1
    /\ known = {}
    /\ failures = [k \in Keys |-> {}]
    /\ bannedUntil = [k \in Keys |-> 0]
    /\ state = [a \in Attempts |-> "new"]
    /\ key \in [Attempts -> Keys]
    /\ at = [a \in Attempts |-> 0]
    /\ log = [k \in Keys |-> {}]
    /\ until = [k \in Keys |-> 0]
    /\ streak = [k \in Keys |-> {}]

Becomes(a, from, to) ==
    /\ state[a] = from
    /\ state' = [state EXCEPT ![a] = to]

\* Bound: attempts begin in the order of their numbers, MaxOpen at a time.
IsNext(a) == \A b \in Attempts : b < a => state[b] # "new"
HasRoom == Cardinality({b \in Attempts : state[b] = "open"}) < MaxOpen

-----------------------------------------------------------------------------

\* After, not "not Before": the last instant of a ban belongs to it.
Allowed(k) == k \notin known \/ now > bannedUntil[k]

\* The password is looked up and verified from here on.
Begin(a) ==
    /\ IsNext(a) /\ HasRoom
    /\ Allowed(key[a])
    /\ Becomes(a, "new", "open")
    /\ UNCHANGED <<now, entries, key, at, log, until, streak>>

Block(a) ==
    /\ IsNext(a)
    /\ ~Allowed(key[a])
    /\ Becomes(a, "new", "blocked")
    /\ UNCHANGED <<now, entries, key, at, log, until, streak>>

Recent(a) == now - at[a] < Window

\* Mutants: the failures that led to the ban stay; one failure too many.
MutAfterBan(S) == S
MutIsBan(S) == Cardinality(S) > MaxAttempts
AfterBan(S) == {}
IsBan(S) == Cardinality(S) >= MaxAttempts

\* The failure is noted in the history.
Note(a, ban) ==
    LET k == key[a]
    IN  /\ log' = [log EXCEPT ![k] = IF ban THEN {} ELSE @ \cup {a}]
        /\ until' = IF ban THEN [until EXCEPT ![k] = now + BanDuration]
                    ELSE until
        /\ streak' = [streak EXCEPT ![k] = @ \cup {a}]

\* The password is wrong, the user unknown, or the database fails.
RecordFailure(a) ==
    LET k == key[a]
        kept == {b \in failures[k] : Recent(b)} \cup {a}
    IN  /\ Becomes(a, "open", "failed")
        /\ at' = [at EXCEPT ![a] = now]
        /\ known' = known \cup {k}
        /\ failures' = [failures EXCEPT ![k] =
                           IF IsBan(kept) THEN AfterBan(kept) ELSE kept]
        /\ bannedUntil' = IF IsBan(kept)
                          THEN [bannedUntil EXCEPT ![k] = now + BanDuration]
                          ELSE bannedUntil
        /\ Note(a, IsBan(kept))
        /\ UNCHANGED <<now, key>>

\* The entries of the keys K go; one made later starts from the zero value.
Delete(K) ==
    /\ known' = known \ K
    /\ failures' = [k \in Keys |-> IF k \in K THEN {} ELSE failures[k]]
    /\ bannedUntil' = [k \in Keys |-> IF k \in K THEN 0 ELSE bannedUntil[k]]

RecordSuccess(a) ==
    LET k == key[a]
    IN  /\ Becomes(a, "open", "passed")
        /\ Delete({k})
        /\ log' = [log EXCEPT ![k] = {}]
        /\ until' = [until EXCEPT ![k] = 0]
        /\ streak' = [streak EXCEPT ![k] = {}]
        /\ UNCHANGED <<now, key, at>>

\* Mutants: a ban is all that keeps an entry; any failure keeps it.
MutIsStale(k) == now >= bannedUntil[k]
MutIsStaleEmpty(k) == now >= bannedUntil[k] /\ failures[k] = {}
IsStale(k) == now >= bannedUntil[k] /\ \A a \in failures[k] : ~Recent(a)

Cleanup ==
    LET stale == {k \in known : IsStale(k)}
    IN  /\ stale # {}
        /\ Delete(stale)
        /\ UNCHANGED <<now, state, key, at, log, until, streak>>

\* Time passes, as long as it makes a difference.
Tick ==
    /\ \E k \in Keys : now <= until[k] \/ \E a \in log[k] : Recent(a)
    /\ now' = now + 1
    /\ UNCHANGED <<entries, state, key, at, log, until, streak>>

-----------------------------------------------------------------------------

Next ==
    \/ \E a \in Attempts :
           Begin(a) \/ Block(a) \/ RecordFailure(a) \/ RecordSuccess(a)
    \/ Cleanup
    \/ Tick

Spec == Init /\ [][Next]_vars

\* Limiter.Run calls cleanup every minute, and time passes.
FairSpec == Spec /\ WF_vars(Cleanup) /\ WF_vars(Tick)

-----------------------------------------------------------------------------
(* Properties *)

\* Every variable stays in its type; an entry lists only failed attempts of
\* its key, fewer than a ban takes, and what has no entry has the zero value.
TypeOK ==
    /\ now \in Nat \ {0}
    /\ known \subseteq Keys
    /\ failures \in [Keys -> SUBSET Attempts]
    /\ bannedUntil \in [Keys -> Nat]
    /\ state \in [Attempts -> {"new", "open", "failed", "passed", "blocked"}]
    /\ key \in [Attempts -> Keys]
    /\ at \in [Attempts -> Nat]
    /\ log \in [Keys -> SUBSET Attempts]
    /\ until \in [Keys -> Nat]
    /\ streak \in [Keys -> SUBSET Attempts]
    /\ \A k \in Keys : Cardinality(failures[k]) < MaxAttempts
    /\ \A k \in Keys \ known : failures[k] = {} /\ bannedUntil[k] = 0

Policy == INSTANCE LoginPolicy WITH Attempts <- Attempts

\* Dropping old failures and whole entries changes no answer: the limiter
\* bans, blocks and lets in as if it had kept everything (cleanup, and the
\* pruning in RecordFailure).
KeepsPolicy == Policy!Spec

\* Although attempts are checked before and counted after the password is
\* verified, a key that never gets it right makes at most MaxAttempts wrong
\* guesses within a window, and those that were under way when it was banned.
GuessesBounded ==
    BanDuration >= Window =>
        \A k \in Keys :
            Cardinality({a \in streak[k] : Recent(a)})
                <= MaxAttempts + MaxOpen - 1

\* Entries do not pile up: each is dropped some day (cleanup).
EntriesGo == \A k \in Keys : k \in known ~> k \notin known

=============================================================================
