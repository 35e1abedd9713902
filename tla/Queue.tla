--------------------------------- MODULE Queue --------------------------------
(***************************************************************************)
(* The outbound relay queue: a spool directory with two files per message, *)
(* <id>.eml (the bytes) and <id>.json (the Item), the goroutines that      *)
(* enqueue into it, and the one goroutine that sweeps it (Queue.Run).      *)
(*                                                                         *)
(* Nothing but the two files survives a stop of the server.  A graceful    *)
(* shutdown does not wait for Run, so it is a crash like any other here.   *)
(*                                                                         *)
(* Time is counted down: an Item's NextAttempt is the number of ticks      *)
(* until it is due.  A sweep compares with the time at which it began, so  *)
(* it takes note of the items that are due then.                           *)
(***************************************************************************)
EXTENDS Integers, Sequences, FiniteSets

CONSTANTS
    NumItems,        \* bound: messages enqueued; ids are numbered by age
    RetryIntervals,  \* Queue.RetryIntervals, in ticks
    MaxRetries,      \* Queue.MaxRetries
    MaxHosts,        \* bound: mail exchangers of a domain
    Answers,         \* what a host may answer
    Faults,          \* the local calls that may fail
    MaxFaults,       \* bound: failures of local calls
    MaxCrashes       \* bound: stops of the server

AllAnswers == {"accepts", "rejects", "defers", "loses"}
AllFaults == {"enqueue", "body", "bounce", "save", "remove"}

ASSUME QueueAssumption ==
    /\ NumItems \in Nat
    /\ RetryIntervals \in Seq(Nat) /\ RetryIntervals # <<>>
    /\ MaxRetries \in Nat
    /\ MaxHosts \in Nat \ {0}
    /\ Answers \subseteq AllAnswers
    /\ Faults \subseteq AllFaults
    /\ MaxFaults \in Nat
    /\ MaxCrashes \in Nat

Ids == 1..NumItems
None == 0
Ticks == {RetryIntervals[i] : i \in DOMAIN RetryIntervals} \cup {0}

VARIABLES
    eml,       \* <id>.eml: "none", "part" (created, not yet written), "full"
    meta,      \* <id>.json: "none", "bad" (truncated, does not parse), "ok"
    attempts,  \* Item.Attempts in <id>.json
    wait,      \* Item.NextAttempt in <id>.json, in ticks from now
    caller,    \* where the Enqueue call of each message is
    phase,     \* where Run is
    todo,      \* directory entries the sweep has yet to look at
    due,       \* items due when the sweep began
    cur,       \* the item of the current attempt
    tried,     \* its Attempts, in memory
    delay,     \* its NextAttempt, in memory
    left,      \* the mail exchangers not tried yet
    smartHost, \* whether the admin has enabled the smart host
    faults, crashes,
    \* History of what happened, read by the properties only:
    took,      \* how often a remote host took each message
    bounced,   \* how often its sender was told that it failed
    tries,     \* how often an attempt at it failed
    elapsed    \* ticks since an attempt at it last failed

spool == <<eml, meta, attempts, wait>>
run == <<phase, todo, due, cur, tried, delay, left>>
world == <<smartHost, faults, crashes>>
history == <<took, bounced, tries, elapsed>>
vars == <<eml, meta, attempts, wait, caller, phase, todo, due, cur, tried,
          delay, left, smartHost, faults, crashes, took, bounced, tries,
          elapsed>>

Init ==
    /\ eml = [id \in Ids |-> "none"]
    /\ meta = [id \in Ids |-> "none"]
    /\ attempts = [id \in Ids |-> 0]
    /\ wait = [id \in Ids |-> 0]
    /\ caller = [id \in Ids |-> "new"]
    /\ phase = "idle"
    /\ todo = {} /\ due = {}
    /\ cur = None /\ tried = 0 /\ delay = 0 /\ left = 0
    /\ smartHost \in BOOLEAN
    /\ faults = 0 /\ crashes = 0
    /\ took = [id \in Ids |-> 0]
    /\ bounced = [id \in Ids |-> 0]
    /\ tries = [id \in Ids |-> 0]
    /\ elapsed = [id \in Ids |-> 0]

\* A local call of the given kind fails.
Fault(kind) ==
    /\ kind \in Faults
    /\ faults < MaxFaults
    /\ faults' = faults + 1
    /\ UNCHANGED <<smartHost, crashes>>

-----------------------------------------------------------------------------
(* Enqueue, called by submission, by webmail's compose and by forwarding *)

\* os.WriteFile creates or truncates the file, and then writes it.
CreateBody(id) ==
    /\ caller[id] = "new"
    /\ \A older \in 1..(id - 1) : caller[older] # "new"
    /\ eml' = [eml EXCEPT ![id] = "part"]
    /\ caller' = [caller EXCEPT ![id] = "body"]
    /\ UNCHANGED <<meta, attempts, wait, run, world, history>>

WriteBody(id) ==
    /\ caller[id] = "body"
    /\ eml' = [eml EXCEPT ![id] = "full"]
    /\ caller' = [caller EXCEPT ![id] = "item"]
    /\ UNCHANGED <<meta, attempts, wait, run, world, history>>

\* Mutant: the item is complete, and may be relayed, before Enqueue is done.
MutCreateItem(id) ==
    /\ caller[id] = "item"
    /\ meta' = [meta EXCEPT ![id] = "ok"]
    /\ caller' = [caller EXCEPT ![id] = "save"]
    /\ UNCHANGED <<eml, attempts, wait, run, world, history>>

CreateItem(id) ==
    /\ caller[id] = "item"
    /\ meta' = [meta EXCEPT ![id] = "bad"]
    /\ caller' = [caller EXCEPT ![id] = "save"]
    /\ UNCHANGED <<eml, attempts, wait, run, world, history>>

\* The item is complete: the mail is the queue's from here on, whether or not
\* the caller lives to hear it.
WriteItem(id) ==
    /\ caller[id] = "save"
    /\ meta' = [meta EXCEPT ![id] = "ok"]
    /\ caller' = [caller EXCEPT ![id] = "accepted"]
    /\ UNCHANGED <<eml, attempts, wait, run, world, history>>

\* A write fails: Enqueue returns the error, and what it wrote stays.
EnqueueFails(id) ==
    /\ caller[id] \in {"new", "body", "item", "save"}
    /\ \A older \in 1..(id - 1) : caller[older] # "new"
    /\ Fault("enqueue")
    /\ caller' = [caller EXCEPT ![id] = "refused"]
    /\ UNCHANGED <<spool, run, history>>

Enqueue(id) ==
    \/ CreateBody(id)
    \/ WriteBody(id)
    \/ CreateItem(id)
    \/ WriteItem(id)

-----------------------------------------------------------------------------
(* processAll *)

DueNow == {id \in Ids : wait[id] = 0}

\* The directory is read and the clock is looked at, once per sweep.
StartSweep ==
    /\ phase = "idle"
    /\ phase' = "sweep"
    /\ todo' = {id \in Ids : meta[id] # "none"}
    /\ due' = DueNow
    /\ UNCHANGED <<spool, caller, cur, tried, delay, left, world, history>>

\* The entries are taken in the order of their names.
IsNext(id) == id \in todo /\ \A other \in todo : id <= other

\* An item that does not load, or is not due, is left for the next sweep.
SkipItem(id) ==
    /\ phase = "sweep"
    /\ IsNext(id)
    /\ meta[id] # "ok" \/ id \notin due
    /\ todo' = todo \ {id}
    /\ UNCHANGED <<spool, caller, phase, due, cur, tried, delay, left, world,
                   history>>

TakeItem(id) ==
    /\ phase = "sweep"
    /\ IsNext(id)
    /\ meta[id] = "ok" /\ id \in due
    /\ phase' = "body"
    /\ todo' = todo \ {id}
    /\ cur' = id
    /\ tried' = attempts[id]
    /\ UNCHANGED <<spool, caller, due, delay, left, world, history>>

EndSweep ==
    /\ phase = "sweep"
    /\ todo = {}
    /\ phase' = "idle"
    /\ due' = {}
    /\ UNCHANGED <<spool, caller, todo, cur, tried, delay, left, world,
                   history>>

-----------------------------------------------------------------------------
(* attempt and deliver *)

\* A message whose bytes cannot be read is removed.
ReadBody ==
    /\ phase = "body"
    /\ \/ /\ eml[cur] # "none"
          /\ phase' = "route"
          /\ UNCHANGED world
       \/ /\ eml[cur] = "none"
          /\ phase' = "remove"
          /\ UNCHANGED world
       \/ /\ Fault("body")
          /\ phase' = "remove"
    /\ UNCHANGED <<spool, caller, todo, due, cur, tried, delay, left, history>>

\* RetryIntervals[n - 1] after the n-th failure, and the last one from then on.
\* Mutant: the first interval every time.
MutDelay(n) == RetryIntervals[1]
Delay(n) == RetryIntervals[IF n < Len(RetryIntervals) THEN n
                           ELSE Len(RetryIntervals)]

\* Mutant: the retries are counted from one.
MutGivesUp(n) == n > MaxRetries + 1
GivesUp(n) == n > MaxRetries

\* Mutant: a message that is given up on is just removed.
MutLastPhase == "remove"
LastPhase == "bounce"

\* deliver has failed, for good or for the time being.
AttemptFails(permanent) ==
    /\ tried' = tried + 1
    /\ phase' = IF permanent \/ GivesUp(tried + 1) THEN LastPhase ELSE "save"
    /\ delay' = IF permanent \/ GivesUp(tried + 1) THEN 0 ELSE Delay(tried + 1)
    /\ left' = 0
    /\ tries' = [tries EXCEPT ![cur] = @ + 1]
    /\ elapsed' = [elapsed EXCEPT ![cur] = 0]

\* One relay when the smart host is enabled, otherwise the domain's exchangers
\* in the order of preference; the lookup of either may fail, which a later
\* attempt may get over.
Route ==
    /\ phase = "route"
    /\ \/ /\ left' \in IF smartHost THEN {1} ELSE 1..MaxHosts
          /\ phase' = "try"
          /\ UNCHANGED <<tried, delay, tries, elapsed>>
       \/ /\ "defers" \in Answers
          /\ AttemptFails(FALSE)
    /\ UNCHANGED <<spool, caller, todo, due, cur, world, took, bounced>>

Takes == took' = [took EXCEPT ![cur] = @ + 1]

\* Mutant: the loop over the exchangers goes on after one has accepted.
MutAfterAccept == IF left = 1 THEN "remove" ELSE "try"
AfterAccept == "remove"

HostAccepts ==
    /\ phase = "try"
    /\ "accepts" \in Answers
    /\ Takes
    /\ phase' = AfterAccept
    /\ left' = IF AfterAccept = "try" THEN left - 1 ELSE 0
    /\ UNCHANGED <<spool, caller, todo, due, cur, tried, delay, world,
                   bounced, tries, elapsed>>

\* A 5xx answer ends the attempt at once.
HostRejects ==
    /\ phase = "try"
    /\ "rejects" \in Answers
    /\ AttemptFails(TRUE)
    /\ UNCHANGED <<spool, caller, todo, due, cur, world, took, bounced>>

\* Any other error: the next exchanger is tried, if there is one.
TryNext ==
    IF left > 1
      THEN /\ left' = left - 1
           /\ UNCHANGED <<phase, tried, delay, tries, elapsed>>
      ELSE AttemptFails(FALSE)

HostDefers ==
    /\ phase = "try"
    /\ "defers" \in Answers
    /\ TryNext
    /\ UNCHANGED <<spool, caller, todo, due, cur, world, took, bounced>>

\* The host has taken the message, and then the connection breaks: its answer
\* to the data, or to the QUIT that tryAddr sends after it, is not read.
HostLoses ==
    /\ phase = "try"
    /\ "loses" \in Answers
    /\ Takes
    /\ TryNext
    /\ UNCHANGED <<spool, caller, todo, due, cur, world, bounced>>

\* OnPermanentFailure: a message for the INBOX of the sender, who is a local
\* user for every item of the queue.
Bounce ==
    /\ phase = "bounce"
    /\ \/ /\ bounced' = [bounced EXCEPT ![cur] = @ + 1]
          /\ UNCHANGED world
       \/ /\ Fault("bounce")
          /\ UNCHANGED bounced
    /\ phase' = "remove"
    /\ UNCHANGED <<spool, caller, todo, due, cur, tried, delay, left, took,
                   tries, elapsed>>

\* remove ignores what os.Remove returns.
RemoveBody ==
    /\ phase = "remove"
    /\ \/ eml' = [eml EXCEPT ![cur] = "none"] /\ UNCHANGED world
       \/ Fault("remove") /\ UNCHANGED eml
    /\ phase' = "unlist"
    /\ UNCHANGED <<meta, attempts, wait, caller, todo, due, cur, tried, delay,
                   left, history>>

\* The attempt is over, and the sweep goes on.
NextItem ==
    /\ phase' = "sweep"
    /\ cur' = None /\ tried' = 0 /\ delay' = 0 /\ left' = 0
    /\ UNCHANGED <<todo, due>>

RemoveItem ==
    /\ phase = "unlist"
    /\ \/ /\ meta' = [meta EXCEPT ![cur] = "none"]
          /\ attempts' = [attempts EXCEPT ![cur] = 0]
          /\ wait' = [wait EXCEPT ![cur] = 0]
          /\ UNCHANGED world
       \/ /\ Fault("remove")
          /\ UNCHANGED <<meta, attempts, wait>>
    /\ NextItem
    /\ UNCHANGED <<eml, caller, history>>

\* save truncates the file and writes it.  Its error is only logged; it may
\* come before the truncation or after it.
TruncateItem ==
    /\ phase = "save"
    /\ \/ /\ meta' = [meta EXCEPT ![cur] = "bad"]
          /\ attempts' = [attempts EXCEPT ![cur] = 0]
          /\ wait' = [wait EXCEPT ![cur] = 0]
          /\ phase' = "rewrite"
          /\ UNCHANGED <<todo, due, cur, tried, delay, left, world>>
       \/ /\ Fault("save")
          /\ NextItem
          /\ UNCHANGED <<meta, attempts, wait>>
    /\ UNCHANGED <<eml, caller, history>>

RewriteItem ==
    /\ phase = "rewrite"
    /\ \/ /\ meta' = [meta EXCEPT ![cur] = "ok"]
          /\ attempts' = [attempts EXCEPT ![cur] = tried]
          /\ wait' = [wait EXCEPT ![cur] = delay]
          /\ UNCHANGED world
       \/ /\ Fault("save")
          /\ UNCHANGED <<meta, attempts, wait>>
    /\ NextItem
    /\ UNCHANGED <<eml, caller, history>>

-----------------------------------------------------------------------------
(* The rest of the world *)

\* The admin enables or disables the smart host; deliver reads the setting
\* anew for every attempt.
SetRelay ==
    /\ smartHost' = ~smartHost
    /\ UNCHANGED <<spool, caller, run, faults, crashes, history>>

Sooner(n) == IF n = 0 THEN 0 ELSE n - 1

\* Bound: elapsed stops at the longest interval.
Later(n) == IF \E t \in Ticks : n < t THEN n + 1 ELSE n

\* Time passes, as long as it makes a difference.
Tick ==
    /\ delay > 0 \/ \E id \in Ids : wait[id] > 0
    /\ wait' = [id \in Ids |-> Sooner(wait[id])]
    /\ delay' = Sooner(delay)
    /\ elapsed' = [id \in Ids |-> Later(elapsed[id])]
    /\ UNCHANGED <<eml, meta, attempts, caller, phase, todo, due, cur, tried,
                   left, world, took, bounced, tries>>

\* The server stops in whatever state it is, and Run starts again.  A caller
\* of Enqueue that had no answer yet gets none.
Crash ==
    /\ crashes < MaxCrashes
    /\ crashes' = crashes + 1
    /\ caller' = [id \in Ids |-> IF caller[id] \in {"new", "accepted"}
                                 THEN caller[id] ELSE "refused"]
    /\ phase' = "idle"
    /\ todo' = {} /\ due' = {}
    /\ cur' = None /\ tried' = 0 /\ delay' = 0 /\ left' = 0
    /\ UNCHANGED <<spool, smartHost, faults, history>>

-----------------------------------------------------------------------------

Sweep ==
    \/ StartSweep
    \/ \E id \in Ids : SkipItem(id) \/ TakeItem(id)
    \/ EndSweep

Attempt ==
    \/ ReadBody
    \/ Route
    \/ HostAccepts
    \/ HostRejects
    \/ HostDefers
    \/ HostLoses
    \/ Bounce
    \/ RemoveBody
    \/ RemoveItem
    \/ TruncateItem
    \/ RewriteItem

Next ==
    \/ \E id \in Ids : Enqueue(id) \/ EnqueueFails(id)
    \/ Sweep
    \/ Attempt
    \/ SetRelay
    \/ Tick
    \/ Crash

Spec == Init /\ [][Next]_vars

\* Run's goroutine is scheduled and its ticker fires, every dial has a
\* timeout, and time passes.
Fairness == WF_vars(Sweep \/ Attempt) /\ WF_vars(Tick)

FairSpec == Spec /\ Fairness

-----------------------------------------------------------------------------
(* Properties *)

\* Every variable stays in its type; an attempt is always about one item, and
\* no item is kept for a further attempt once its retries are used up.
TypeOK ==
    /\ eml \in [Ids -> {"none", "part", "full"}]
    /\ meta \in [Ids -> {"none", "bad", "ok"}]
    /\ attempts \in [Ids -> 0..MaxRetries]
    /\ wait \in [Ids -> Nat]
    /\ caller \in [Ids -> {"new", "body", "item", "save", "accepted",
                           "refused"}]
    /\ phase \in {"idle", "sweep", "body", "route", "try", "bounce", "remove",
                  "unlist", "save", "rewrite"}
    /\ todo \in SUBSET Ids
    /\ due \in SUBSET Ids
    /\ cur \in Ids \cup {None}
    /\ cur = None <=> phase \in {"idle", "sweep"}
    /\ tried \in 0..(MaxRetries + 1)
    /\ phase \notin {"bounce", "remove", "unlist"} => tried <= MaxRetries
    /\ delay \in Nat
    /\ left \in 0..MaxHosts
    /\ smartHost \in BOOLEAN
    /\ faults \in 0..MaxFaults
    /\ crashes \in 0..MaxCrashes
    /\ took \in [Ids -> Nat]
    /\ bounced \in [Ids -> Nat]
    /\ tries \in [Ids -> Nat]
    /\ elapsed \in [Ids -> Nat]

Settled(id) == took[id] > 0 \/ bounced[id] > 0

\* Mail that Enqueue has accepted stays in the spool, both files of it, until
\* a host has taken it or its sender has been told, whatever crashes
\* (Queue.attempt removes the files last, the body before the item).
NothingLost ==
    \A id \in Ids :
        caller[id] = "accepted" /\ ~Settled(id) =>
            eml[id] = "full" /\ meta[id] # "none"

\* A message has one outcome: it is relayed once or bounced once, and a crash
\* or a failed call repeats that at most once each.
SettledOnce ==
    \A id \in Ids : took[id] + bounced[id] <= 1 + crashes + faults

\* No message is tried more often than the first time and MaxRetries times
\* again, but for attempts whose count a crash or a failed save has lost.
TriesBounded ==
    \A id \in Ids : tries[id] <= 1 + MaxRetries + crashes + faults

\* An attempt starts no sooner after the n-th failure than the n-th retry
\* interval says (the clock is read once per sweep), unless a crash or a failed
\* call has lost the time that was set for it.
RetriesSpaced ==
    crashes + faults = 0 /\ phase \in {"body", "route", "try"} /\ tried > 0 =>
        LET n == IF tried < Len(RetryIntervals) THEN tried
                 ELSE Len(RetryIntervals)
        IN  elapsed[cur] >= RetryIntervals[n]

\* What has become of each message, in the terms of the promise.
Fate ==
    [id \in Ids |->
        IF Settled(id) THEN "settled"
        ELSE IF caller[id] = "accepted" THEN "queued"
        ELSE IF caller[id] = "refused" THEN "refused"
        ELSE "unsent"]

Promise == INSTANCE Relay WITH Ids <- Ids, fate <- Fate

\* The queue keeps its promise, step by step.
KeepsPromise == Promise!Spec

\* The item file is torn, and no save is about to complete it: the sweep logs
\* it and goes on (processAll), so it is never tried again.
Torn(id) == meta[id] = "bad" /\ ~(phase = "rewrite" /\ cur = id)

\* And it does not put it off for ever: whatever the hosts answer and whichever
\* write fails, accepted mail is relayed or bounced in the end, unless the item
\* was torn by a save that did not complete.
KeepsPromiseInTime ==
    \A id \in Ids : caller[id] = "accepted" ~> Settled(id) \/ Torn(id)

=============================================================================
