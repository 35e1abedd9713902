------------------------------ MODULE QueueProofs -----------------------------
(***************************************************************************)
(* Theorems about Queue, for any number of messages, hosts, retries,       *)
(* failures and crashes.                                                   *)
(***************************************************************************)
EXTENDS Queue, TLAPS

LEMMA DelayIsNat == ASSUME NEW n \in Nat \ {0} PROVE Delay(n) \in Nat
<1> DEFINE k == IF n < Len(RetryIntervals) THEN n ELSE Len(RetryIntervals)
<1>1. RetryIntervals \in Seq(Nat) /\ RetryIntervals # <<>>
  BY QueueAssumption
<1>2. Len(RetryIntervals) \in Nat /\ Len(RetryIntervals) > 0
  BY <1>1
<1>3. k \in 1..Len(RetryIntervals)
  BY <1>2
<1>4. RetryIntervals[k] \in Nat
  BY <1>1, <1>3
<1> QED
  BY <1>4 DEF Delay

LEMMA FaultTypes ==
    ASSUME TypeOK, NEW kind, Fault(kind)
    PROVE  /\ faults' \in 0..MaxFaults
           /\ crashes' \in 0..MaxCrashes
           /\ smartHost' \in BOOLEAN
  BY QueueAssumption DEF Fault, TypeOK

\* What an attempt that fails leaves behind.
LEMMA AttemptFailsTypes ==
    ASSUME TypeOK, cur # None, tried <= MaxRetries,
           NEW permanent \in BOOLEAN, AttemptFails(permanent)
    PROVE  /\ phase' \in {"bounce", "save"}
           /\ tried' \in 0..(MaxRetries + 1)
           /\ phase' = "save" => tried' <= MaxRetries
           /\ delay' \in Nat
           /\ left' \in 0..MaxHosts
           /\ tries' \in [Ids -> Nat]
           /\ elapsed' \in [Ids -> Nat]
<1>1. tried + 1 \in Nat \ {0} /\ MaxRetries \in Nat /\ MaxHosts \in Nat
  BY QueueAssumption DEF TypeOK
<1>2. Delay(tried + 1) \in Nat
  BY <1>1, DelayIsNat
<1> QED
  BY <1>1, <1>2 DEF AttemptFails, TypeOK, GivesUp, LastPhase

LEMMA TypeEnqueue ==
    ASSUME TypeOK, NEW id \in Ids, Enqueue(id) \/ EnqueueFails(id)
    PROVE  TypeOK'
<1>1. CASE Enqueue(id)
  BY <1>1 DEF Enqueue, CreateBody, WriteBody, CreateItem, WriteItem, run,
              world, history, TypeOK
<1>2. CASE EnqueueFails(id)
  BY <1>2, FaultTypes DEF EnqueueFails, spool, run, history, TypeOK
<1> QED
  BY <1>1, <1>2

LEMMA TypeSweep == ASSUME TypeOK, Sweep PROVE TypeOK'
<1>1. CASE StartSweep
  BY <1>1 DEF StartSweep, DueNow, spool, world, history, TypeOK
<1>2. ASSUME NEW id \in Ids, SkipItem(id) PROVE TypeOK'
  BY <1>2 DEF SkipItem, spool, world, history, TypeOK
<1>3. ASSUME NEW id \in Ids, TakeItem(id) PROVE TypeOK'
  <2>1. attempts[id] \in 0..MaxRetries /\ MaxRetries \in Nat /\ id # None
    BY QueueAssumption DEF TypeOK, Ids, None
  <2> QED
    BY <1>3, <2>1 DEF TakeItem, spool, world, history, TypeOK
<1>4. CASE EndSweep
  BY <1>4 DEF EndSweep, spool, world, history, TypeOK
<1> QED
  BY <1>1, <1>2, <1>3, <1>4 DEF Sweep

\* TypeOK in four parts.
SpoolTypes ==
    /\ eml \in [Ids -> {"none", "part", "full"}]
    /\ meta \in [Ids -> {"none", "bad", "ok"}]
    /\ attempts \in [Ids -> 0..MaxRetries]
    /\ wait \in [Ids -> Nat]
    /\ caller \in [Ids -> {"new", "body", "item", "save", "accepted",
                           "refused"}]
RunTypes ==
    /\ phase \in {"idle", "sweep", "body", "route", "try", "bounce", "remove",
                  "unlist", "save", "rewrite"}
    /\ todo \in SUBSET Ids
    /\ due \in SUBSET Ids
    /\ cur \in Ids \cup {None}
    /\ cur = None <=> phase \in {"idle", "sweep"}
    /\ tried \in 0..(MaxRetries + 1)
    /\ phase \notin {"bounce", "remove", "unlist"} => tried <= MaxRetries
    /\ delay \in Nat
    /\ left \in 0..MaxHosts
WorldTypes ==
    /\ smartHost \in BOOLEAN
    /\ faults \in 0..MaxFaults
    /\ crashes \in 0..MaxCrashes
HistoryTypes ==
    /\ took \in [Ids -> Nat]
    /\ bounced \in [Ids -> Nat]
    /\ tries \in [Ids -> Nat]
    /\ elapsed \in [Ids -> Nat]

LEMMA TypeParts ==
    TypeOK <=> SpoolTypes /\ RunTypes /\ WorldTypes /\ HistoryTypes
  BY DEF TypeOK, SpoolTypes, RunTypes, WorldTypes, HistoryTypes

LEMMA TypePartsNext ==
    TypeOK' <=> SpoolTypes' /\ RunTypes' /\ WorldTypes' /\ HistoryTypes'
  BY DEF TypeOK, SpoolTypes, RunTypes, WorldTypes, HistoryTypes

LEMMA TypeAttempt == ASSUME TypeOK, Attempt PROVE TypeOK'
<1> SpoolTypes /\ RunTypes /\ WorldTypes /\ HistoryTypes
  BY TypeParts
<1> USE QueueAssumption DEF None
<1>0. ASSUME NEW permanent \in BOOLEAN, AttemptFails(permanent),
             phase \in {"route", "try"},
             UNCHANGED <<spool, caller, todo, due, cur, world, bounced>>,
             took' \in [Ids -> Nat]
      PROVE  TypeOK'
  <2>1. cur # None /\ tried <= MaxRetries
    BY <1>0 DEF RunTypes
  <2>2. /\ phase' \in {"bounce", "save"}
        /\ tried' \in 0..(MaxRetries + 1)
        /\ phase' = "save" => tried' <= MaxRetries
        /\ delay' \in Nat
        /\ left' \in 0..MaxHosts
        /\ tries' \in [Ids -> Nat]
        /\ elapsed' \in [Ids -> Nat]
    BY <1>0, <2>1, AttemptFailsTypes
  <2>3. RunTypes'
    BY <1>0, <2>1, <2>2 DEF RunTypes
  <2> QED
    BY <1>0, <2>2, <2>3, TypePartsNext
       DEF spool, world, SpoolTypes, WorldTypes, HistoryTypes
<1>1. CASE ReadBody
  <2>1. SpoolTypes'
    BY <1>1 DEF ReadBody, spool, SpoolTypes
  <2>2. RunTypes'
    BY <1>1 DEF ReadBody, RunTypes
  <2>3. WorldTypes'
    BY <1>1 DEF ReadBody, Fault, world, WorldTypes
  <2>4. HistoryTypes'
    BY <1>1 DEF ReadBody, history, HistoryTypes, RunTypes
  <2> QED
    BY <2>1, <2>2, <2>3, <2>4, TypePartsNext
<1>2. CASE Route
  <2>1. CASE AttemptFails(FALSE)
    BY <1>0, <1>2, <2>1 DEF Route, HistoryTypes
  <2>2. CASE /\ left' \in IF smartHost THEN {1} ELSE 1..MaxHosts
             /\ phase' = "try"
             /\ UNCHANGED <<tried, delay, tries, elapsed>>
    <3>1. RunTypes'
      BY <1>2, <2>2 DEF Route, RunTypes
    <3> QED
      BY <1>2, <2>2, <3>1, TypePartsNext
         DEF Route, spool, world, SpoolTypes, WorldTypes, HistoryTypes
  <2> QED
    BY <1>2, <2>1, <2>2 DEF Route
<1>3. CASE HostAccepts
  <2>1. SpoolTypes'
    BY <1>3 DEF HostAccepts, AfterAccept, Takes, spool, SpoolTypes
  <2>2. RunTypes'
    BY <1>3 DEF HostAccepts, AfterAccept, Takes, RunTypes
  <2>3. WorldTypes'
    BY <1>3 DEF HostAccepts, AfterAccept, Takes, Fault, world, WorldTypes
  <2>4. HistoryTypes'
    BY <1>3 DEF HostAccepts, AfterAccept, Takes, history, HistoryTypes, RunTypes
  <2> QED
    BY <2>1, <2>2, <2>3, <2>4, TypePartsNext
<1>4. CASE HostRejects
  BY <1>0, <1>4 DEF HostRejects, HistoryTypes
<1>5. ASSUME TryNext, phase = "try",
             UNCHANGED <<spool, caller, todo, due, cur, world, bounced>>,
             took' \in [Ids -> Nat]
      PROVE  TypeOK'
  <2>1. CASE left > 1
    <3>1. RunTypes'
      BY <1>5, <2>1 DEF TryNext, RunTypes
    <3> QED
      BY <1>5, <2>1, <3>1, TypePartsNext
         DEF TryNext, spool, world, SpoolTypes, WorldTypes, HistoryTypes
  <2>2. CASE ~(left > 1)
    BY <1>0, <1>5, <2>2 DEF TryNext
  <2> QED
    BY <2>1, <2>2
<1>6. CASE HostDefers
  BY <1>5, <1>6 DEF HostDefers, HistoryTypes
<1>7. CASE HostLoses
  <2>1. took' \in [Ids -> Nat]
    BY <1>7 DEF HostLoses, Takes, HistoryTypes, RunTypes
  <2> QED
    BY <1>5, <1>7, <2>1 DEF HostLoses
<1>8. CASE Bounce
  <2>1. SpoolTypes'
    BY <1>8 DEF Bounce, spool, SpoolTypes
  <2>2. RunTypes'
    BY <1>8 DEF Bounce, RunTypes
  <2>3. WorldTypes'
    BY <1>8 DEF Bounce, Fault, world, WorldTypes
  <2>4. HistoryTypes'
    <3>1. bounced' \in [Ids -> Nat]
      <4>1. \/ bounced' = bounced
            \/ bounced' = [bounced EXCEPT ![cur] = bounced[cur] + 1]
        BY <1>8 DEF Bounce
      <4>2. cur \in Ids /\ bounced \in [Ids -> Nat]
        BY <1>8 DEF Bounce, HistoryTypes, RunTypes
      <4> QED
        BY <4>1, <4>2
    <3> QED
      BY <1>8, <3>1 DEF Bounce, HistoryTypes
  <2> QED
    BY <2>1, <2>2, <2>3, <2>4, TypePartsNext
<1>9. CASE RemoveBody
  <2>1. SpoolTypes'
    BY <1>9 DEF RemoveBody, spool, SpoolTypes
  <2>2. RunTypes'
    BY <1>9 DEF RemoveBody, RunTypes
  <2>3. WorldTypes'
    BY <1>9 DEF RemoveBody, Fault, world, WorldTypes
  <2>4. HistoryTypes'
    BY <1>9 DEF RemoveBody, history, HistoryTypes, RunTypes
  <2> QED
    BY <2>1, <2>2, <2>3, <2>4, TypePartsNext
<1>10. CASE RemoveItem
  <2>1. SpoolTypes'
    <3>1. eml' = eml /\ caller' = caller
      BY <1>10 DEF RemoveItem
    <3>2. meta' \in [Ids -> {"none", "bad", "ok"}]
      BY <1>10 DEF RemoveItem, SpoolTypes
    <3>3. attempts' \in [Ids -> 0..MaxRetries]
      BY <1>10, 0 \in 0..MaxRetries DEF RemoveItem, SpoolTypes
    <3>4. wait' \in [Ids -> Nat]
      <4>1. wait' = wait \/ wait' = [wait EXCEPT ![cur] = 0]
        BY <1>10 DEF RemoveItem
      <4>2. wait \in [Ids -> Nat]
        BY DEF SpoolTypes
      <4> QED
        BY <4>1, <4>2
    <3> QED
      BY <3>1, <3>2, <3>3, <3>4 DEF SpoolTypes
  <2>2. RunTypes'
    BY <1>10 DEF RemoveItem, NextItem, RunTypes
  <2>3. WorldTypes'
    BY <1>10 DEF RemoveItem, NextItem, Fault, world, WorldTypes
  <2>4. HistoryTypes'
    BY <1>10 DEF RemoveItem, NextItem, history, HistoryTypes, RunTypes
  <2> QED
    BY <2>1, <2>2, <2>3, <2>4, TypePartsNext
<1>11. CASE TruncateItem
  <2>1. SpoolTypes'
    <3>1. eml' = eml /\ caller' = caller
      BY <1>11 DEF TruncateItem
    <3>2. meta' \in [Ids -> {"none", "bad", "ok"}]
      BY <1>11 DEF TruncateItem, SpoolTypes
    <3>3. attempts' \in [Ids -> 0..MaxRetries]
      BY <1>11, 0 \in 0..MaxRetries DEF TruncateItem, SpoolTypes
    <3>4. wait' \in [Ids -> Nat]
      <4>1. wait' = wait \/ wait' = [wait EXCEPT ![cur] = 0]
        BY <1>11 DEF TruncateItem
      <4>2. wait \in [Ids -> Nat]
        BY DEF SpoolTypes
      <4> QED
        BY <4>1, <4>2
    <3> QED
      BY <3>1, <3>2, <3>3, <3>4 DEF SpoolTypes
  <2>2. RunTypes'
    BY <1>11 DEF TruncateItem, NextItem, RunTypes
  <2>3. WorldTypes'
    BY <1>11 DEF TruncateItem, NextItem, Fault, world, WorldTypes
  <2>4. HistoryTypes'
    BY <1>11 DEF TruncateItem, NextItem, history, HistoryTypes, RunTypes
  <2> QED
    BY <2>1, <2>2, <2>3, <2>4, TypePartsNext
<1>12. CASE RewriteItem
  <2>1. SpoolTypes'
    <3>1. eml' = eml /\ caller' = caller
      BY <1>12 DEF RewriteItem
    <3>2. meta' \in [Ids -> {"none", "bad", "ok"}]
      BY <1>12 DEF RewriteItem, SpoolTypes
    <3>3. attempts' \in [Ids -> 0..MaxRetries]
      <4>1. tried \in 0..MaxRetries
        BY <1>12 DEF RewriteItem, RunTypes
      <4> QED
        BY <1>12, <4>1 DEF RewriteItem, SpoolTypes
    <3>4. wait' \in [Ids -> Nat]
      BY <1>12 DEF RewriteItem, SpoolTypes, RunTypes
    <3> QED
      BY <3>1, <3>2, <3>3, <3>4 DEF SpoolTypes
  <2>2. RunTypes'
    BY <1>12 DEF RewriteItem, NextItem, RunTypes
  <2>3. WorldTypes'
    BY <1>12 DEF RewriteItem, NextItem, Fault, world, WorldTypes
  <2>4. HistoryTypes'
    BY <1>12 DEF RewriteItem, NextItem, history, HistoryTypes, RunTypes
  <2> QED
    BY <2>1, <2>2, <2>3, <2>4, TypePartsNext
<1> QED
  BY <1>1, <1>2, <1>3, <1>4, <1>6, <1>7, <1>8, <1>9, <1>10, <1>11, <1>12
     DEF Attempt

LEMMA TypeWorld == ASSUME TypeOK, SetRelay \/ Tick \/ Crash PROVE TypeOK'
<1> SpoolTypes /\ RunTypes /\ WorldTypes /\ HistoryTypes
  BY TypeParts
<1> USE QueueAssumption DEF None
<1>1. CASE SetRelay
  <2>1. SpoolTypes'
    BY <1>1 DEF SetRelay, run, spool, SpoolTypes
  <2>2. RunTypes'
    BY <1>1 DEF SetRelay, run, RunTypes
  <2>3. WorldTypes'
    BY <1>1 DEF SetRelay, run, Fault, world, WorldTypes
  <2>4. HistoryTypes'
    BY <1>1 DEF SetRelay, run, history, HistoryTypes, RunTypes
  <2> QED
    BY <2>1, <2>2, <2>3, <2>4, TypePartsNext
<1>2. CASE Tick
  <2>1. SpoolTypes'
    BY <1>2 DEF Tick, Sooner, Later, spool, SpoolTypes
  <2>2. RunTypes'
    <3>1. UNCHANGED <<phase, todo, due, cur, tried, left>>
      BY <1>2 DEF Tick
    <3>2. delay' \in Nat
      <4>1. delay' = Sooner(delay) /\ delay \in Nat
        BY <1>2 DEF Tick, RunTypes
      <4> QED
        BY ONLY <4>1 DEF Sooner
    <3> QED
      BY ONLY RunTypes, <3>1, <3>2 DEF RunTypes
  <2>3. WorldTypes'
    BY <1>2 DEF Tick, Sooner, Later, Fault, world, WorldTypes
  <2>4. HistoryTypes'
    <3>1. \A n \in Nat : Later(n) \in Nat
      BY DEF Later
    <3>2. /\ elapsed \in [Ids -> Nat]
          /\ elapsed' = [id \in Ids |-> Later(elapsed[id])]
      BY <1>2 DEF Tick, HistoryTypes
    <3>3. elapsed' \in [Ids -> Nat]
      BY ONLY <3>1, <3>2
    <3> QED
      BY <1>2, <3>3 DEF Tick, HistoryTypes
  <2> QED
    BY <2>1, <2>2, <2>3, <2>4, TypePartsNext
<1>3. CASE Crash
  <2>1. SpoolTypes'
    BY <1>3 DEF Crash, spool, SpoolTypes
  <2>2. RunTypes'
    BY <1>3 DEF Crash, RunTypes
  <2>3. WorldTypes'
    BY <1>3 DEF Crash, Fault, world, WorldTypes
  <2>4. HistoryTypes'
    BY <1>3 DEF Crash, history, HistoryTypes, RunTypes
  <2> QED
    BY <2>1, <2>2, <2>3, <2>4, TypePartsNext
<1> QED
  BY <1>1, <1>2, <1>3

\* TypeOK for every instance: in particular an item in the spool never has more
\* attempts behind it than MaxRetries.
THEOREM QueueTypeCorrect == Spec => []TypeOK
<1>1. Init => TypeOK
  BY QueueAssumption DEF Init, TypeOK, None
<1>2. TypeOK /\ [Next]_vars => TypeOK'
  <2> SUFFICES ASSUME TypeOK, [Next]_vars PROVE TypeOK'
    OBVIOUS
  <2>1. CASE UNCHANGED vars
    BY <2>1 DEF vars, TypeOK
  <2> QED
    BY <2>1, TypeEnqueue, TypeSweep, TypeAttempt, TypeWorld DEF Next
<1> QED
  BY <1>1, <1>2, PTL DEF Spec

-----------------------------------------------------------------------------
(* Only accepted mail is attempted, and only attempted mail is settled *)

AcceptedFirst ==
    /\ \A id \in Ids : meta[id] = "ok" => caller[id] = "accepted"
    /\ \A id \in Ids : Settled(id) => caller[id] = "accepted"
    /\ phase \notin {"idle", "sweep"} => caller[cur] = "accepted"

\* The steps of an attempt: what each of them may change of the files, and
\* whom it tells.
AttemptSteps ==
    /\ UNCHANGED caller
    /\ cur' \in {cur, None}
    /\ cur' = None => phase' = "sweep"
    /\ \A id \in Ids \ {cur} : /\ eml'[id] = eml[id]
                               /\ meta'[id] = meta[id]
                               /\ took'[id] = took[id]
                               /\ bounced'[id] = bounced[id]
    /\ took'[cur] \in {took[cur], took[cur] + 1}
    /\ bounced'[cur] \in {bounced[cur], bounced[cur] + 1}

LEMMA AttemptFrame == ASSUME TypeOK, Attempt PROVE AttemptSteps
<1> cur \in Ids /\ cur # None
  BY DEF TypeOK, Attempt, ReadBody, Route, HostAccepts, HostRejects,
         HostDefers, HostLoses, Bounce, RemoveBody, RemoveItem, TruncateItem,
         RewriteItem
<1> /\ took \in [Ids -> Nat] /\ bounced \in [Ids -> Nat]
    /\ eml \in [Ids -> {"none", "part", "full"}]
    /\ meta \in [Ids -> {"none", "bad", "ok"}]
  BY DEF TypeOK
<1> USE DEF AttemptSteps
<1>1. CASE ReadBody
  BY <1>1 DEF ReadBody, spool, history
<1>2. CASE Route
  BY <1>2 DEF Route, spool
<1>3. CASE HostAccepts
  BY <1>3 DEF HostAccepts, Takes, spool
<1>4. CASE HostRejects
  BY <1>4 DEF HostRejects, spool
<1>5. CASE HostDefers
  BY <1>5 DEF HostDefers, spool
<1>6. CASE HostLoses
  BY <1>6 DEF HostLoses, Takes, spool
<1>7. CASE Bounce
  BY <1>7 DEF Bounce, spool
<1>8. CASE RemoveBody
  BY <1>8 DEF RemoveBody, history
<1>9. CASE RemoveItem
  BY <1>9 DEF RemoveItem, NextItem, history
<1>10. CASE TruncateItem
  BY <1>10 DEF TruncateItem, NextItem, history
<1>11. CASE RewriteItem
  BY <1>11 DEF RewriteItem, NextItem, history
<1> QED
  BY <1>1, <1>2, <1>3, <1>4, <1>5, <1>6, <1>7, <1>8, <1>9, <1>10, <1>11
     DEF Attempt

LEMMA AcceptedFirstStep ==
    ASSUME TypeOK, AcceptedFirst, [Next]_vars
    PROVE  AcceptedFirst'
<1> USE DEF AcceptedFirst, Settled
<1>1. CASE UNCHANGED vars
  BY <1>1 DEF vars
<1>2. ASSUME NEW id \in Ids, Enqueue(id) PROVE AcceptedFirst'
  <2>1. CASE CreateBody(id)
    BY <2>1 DEF CreateBody, run, history, TypeOK
  <2>2. CASE WriteBody(id)
    BY <2>2 DEF WriteBody, run, history, TypeOK
  <2>3. CASE CreateItem(id)
    BY <2>3 DEF CreateItem, run, history, TypeOK
  <2>4. CASE WriteItem(id)
    BY <2>4 DEF WriteItem, run, history, TypeOK
  <2> QED
    BY <1>2, <2>1, <2>2, <2>3, <2>4 DEF Enqueue
<1>3. ASSUME NEW id \in Ids, EnqueueFails(id) PROVE AcceptedFirst'
  BY <1>3 DEF EnqueueFails, spool, run, history, TypeOK
<1>4. CASE Sweep
  BY <1>4 DEF Sweep, StartSweep, SkipItem, TakeItem, EndSweep, spool, history,
              TypeOK
<1>5. CASE Attempt
  <2>1. phase \notin {"idle", "sweep"}
    BY <1>5 DEF Attempt, ReadBody, Route, HostAccepts, HostRejects,
         HostDefers, HostLoses, Bounce, RemoveBody, RemoveItem, TruncateItem,
         RewriteItem
  <2> QED
    BY <1>5, <2>1, AttemptFrame DEF AttemptSteps, TypeOK
<1>6. CASE SetRelay
  BY <1>6 DEF SetRelay, spool, run, history
<1>7. CASE Tick
  BY <1>7 DEF Tick
<1>8. CASE Crash
  BY <1>8 DEF Crash, spool, history, TypeOK
<1> QED
  BY <1>1, <1>2, <1>3, <1>4, <1>5, <1>6, <1>7, <1>8 DEF Next

LEMMA AcceptedFirstAlways == Spec => []AcceptedFirst
<1>1. Init => AcceptedFirst
  BY DEF Init, AcceptedFirst, Settled
<1> QED
  BY <1>1, AcceptedFirstStep, QueueTypeCorrect, PTL DEF Spec

-----------------------------------------------------------------------------
(* The queue keeps its promise *)

\* Fate depends on these only.
LEMMA FateFrame ==
    ASSUME UNCHANGED <<took, bounced>>,
           \A id \in Ids :
               \/ caller'[id] = caller[id]
               \/ /\ caller[id] \notin {"accepted", "refused"}
                  /\ caller'[id] \notin {"accepted", "refused"}
    PROVE  Fate' = Fate
  BY DEF Fate, Settled

LEMMA PromiseEnqueue ==
    ASSUME TypeOK, AcceptedFirst, NEW id \in Ids,
           Enqueue(id) \/ EnqueueFails(id)
    PROVE  Promise!Next \/ UNCHANGED Fate
<1>1. CASE CreateBody(id) \/ WriteBody(id) \/ CreateItem(id)
  BY <1>1, FateFrame
     DEF CreateBody, WriteBody, CreateItem, history, TypeOK
<1>2. ~Settled(id) \/ caller[id] = "accepted"
  BY DEF AcceptedFirst
<1>3. CASE WriteItem(id)
  <2>1. /\ caller[id] = "save" /\ caller' = [caller EXCEPT ![id] = "accepted"]
        /\ took' = took /\ bounced' = bounced
    BY <1>3 DEF WriteItem, history
  <2>2. Fate[id] = "unsent" /\ Fate' = [Fate EXCEPT ![id] = "queued"]
    BY <1>2, <2>1 DEF Fate, Settled, TypeOK
  <2> QED
    BY <2>2 DEF Promise!Next, Promise!Accept, Promise!Becomes
<1>4. CASE EnqueueFails(id)
  <2>1. /\ caller[id] \in {"new", "body", "item", "save"}
        /\ caller' = [caller EXCEPT ![id] = "refused"]
        /\ took' = took /\ bounced' = bounced
    BY <1>4 DEF EnqueueFails, history
  <2>2. /\ Fate[id] = "unsent"
        /\ Fate' = [j \in Ids |-> IF j \in {id} THEN "refused" ELSE Fate[j]]
    BY <1>2, <2>1 DEF Fate, Settled, TypeOK
  <2>3. Promise!Refuse({id})
    BY <2>2 DEF Promise!Refuse
  <2> QED
    BY <2>3 DEF Promise!Next
<1> QED
  BY <1>1, <1>3, <1>4 DEF Enqueue

LEMMA PromiseAttempt ==
    ASSUME TypeOK, AcceptedFirst, Attempt
    PROVE  Promise!Next \/ UNCHANGED Fate
<1>1. cur \in Ids /\ caller[cur] = "accepted"
  BY DEF AcceptedFirst, TypeOK, Attempt, ReadBody, Route, HostAccepts,
         HostRejects, HostDefers, HostLoses, Bounce, RemoveBody, RemoveItem,
         TruncateItem, RewriteItem
<1>2. AttemptSteps
  BY AttemptFrame
<1>3. took[cur] \in Nat /\ bounced[cur] \in Nat
  BY <1>1 DEF TypeOK
<1>4. \A id \in Ids \ {cur} : Fate'[id] = Fate[id]
  BY <1>2 DEF AttemptSteps, Fate, Settled
<1>5. Fate[cur] \in {"queued", "settled"}
  BY <1>1 DEF Fate
<1>6. \/ Fate'[cur] = Fate[cur]
      \/ Fate[cur] = "queued" /\ Fate'[cur] = "settled"
  BY <1>1, <1>2, <1>3 DEF AttemptSteps, Fate, Settled
<1>7. Fate = [id \in Ids |-> Fate[id]] /\ Fate' = [id \in Ids |-> Fate'[id]]
  BY DEF Fate
<1>8. CASE Fate'[cur] = Fate[cur]
  BY <1>4, <1>7, <1>8
<1>9. CASE Fate[cur] = "queued" /\ Fate'[cur] = "settled"
  <2>1. Fate' = [Fate EXCEPT ![cur] = "settled"]
    BY <1>1, <1>4, <1>7, <1>9
  <2> QED
    BY <1>1, <1>9, <2>1 DEF Promise!Next, Promise!Settle, Promise!Becomes
<1> QED
  BY <1>6, <1>8, <1>9

LEMMA PromiseCrash ==
    ASSUME TypeOK, AcceptedFirst, Crash
    PROVE  Promise!Next
<1> DEFINE S == {id \in Ids : caller[id] \notin {"new", "accepted", "refused"}}
<1>1. /\ took' = took /\ bounced' = bounced
      /\ caller' = [id \in Ids |-> IF caller[id] \in {"new", "accepted"}
                                   THEN caller[id] ELSE "refused"]
  BY DEF Crash, history
<1>2. \A id \in S : Fate[id] = "unsent"
  BY DEF AcceptedFirst, Fate
<1>3. Fate' = [id \in Ids |-> IF id \in S THEN "refused" ELSE Fate[id]]
  BY <1>1 DEF AcceptedFirst, Fate, Settled
<1>4. Promise!Refuse(S)
  BY <1>2, <1>3 DEF Promise!Refuse
<1>5. S \in SUBSET Ids
  OBVIOUS
<1> QED
  BY <1>4, <1>5 DEF Promise!Next

\* KeepsPromise for every instance: whatever fails, and however often the
\* server stops, each message is taken over or refused, only what was taken
\* over is ever attempted or bounced, and that cannot be undone.
THEOREM QueueKeepsPromise == Spec => KeepsPromise
<1>1. Init => Promise!Init
  BY DEF Init, Promise!Init, Fate, Settled
<1>2. ASSUME TypeOK, AcceptedFirst, [Next]_vars
      PROVE  Promise!Next \/ UNCHANGED Fate
  <2>1. CASE UNCHANGED vars
    BY <2>1, FateFrame DEF vars
  <2>2. CASE Sweep
    <3>1. UNCHANGED <<caller, took, bounced>>
      BY <2>2 DEF Sweep, StartSweep, SkipItem, TakeItem, EndSweep, history
    <3> QED
      BY <3>1, FateFrame
  <2>3. CASE SetRelay \/ Tick
    BY <2>3, FateFrame DEF SetRelay, Tick, history
  <2> QED
    BY <1>2, <2>1, <2>2, <2>3, PromiseEnqueue, PromiseAttempt, PromiseCrash
       DEF Next
<1> QED
  BY <1>1, <1>2, QueueTypeCorrect, AcceptedFirstAlways, PTL
     DEF Spec, KeepsPromise, Promise!Spec

-----------------------------------------------------------------------------
(* Nothing is lost *)

\* What makes NothingLost inductive: Enqueue writes the body before the item,
\* and attempt removes the files only when the message is settled.
SpoolInv ==
    /\ NothingLost
    /\ \A id \in Ids : caller[id] \in {"item", "save"} => eml[id] = "full"
    /\ phase \in {"remove", "unlist"} => Settled(cur)

LEMMA SpoolEnqueue ==
    ASSUME TypeOK, SpoolInv, NEW id \in Ids, Enqueue(id) \/ EnqueueFails(id)
    PROVE  SpoolInv'
<1> USE DEF SpoolInv, NothingLost, Settled, TypeOK
<1>1. CASE CreateBody(id)
  BY <1>1 DEF CreateBody, run, history
<1>2. CASE WriteBody(id)
  BY <1>2 DEF WriteBody, run, history
<1>3. CASE CreateItem(id)
  BY <1>3 DEF CreateItem, run, history
<1>4. CASE WriteItem(id)
  BY <1>4 DEF WriteItem, run, history
<1>5. CASE EnqueueFails(id)
  BY <1>5 DEF EnqueueFails, spool, run, history
<1> QED
  BY <1>1, <1>2, <1>3, <1>4, <1>5 DEF Enqueue

LEMMA SpoolAttempt ==
    ASSUME "body" \notin Faults, "bounce" \notin Faults,
           TypeOK, AcceptedFirst, SpoolInv, Attempt
    PROVE  SpoolInv'
<1>1. cur \in Ids /\ cur # None /\ caller[cur] = "accepted"
  BY DEF AcceptedFirst, TypeOK, Attempt, ReadBody, Route, HostAccepts,
         HostRejects, HostDefers, HostLoses, Bounce, RemoveBody, RemoveItem,
         TruncateItem, RewriteItem
<1>2. AttemptSteps
  BY AttemptFrame
<1>3. took[cur] \in Nat /\ bounced[cur] \in Nat
  BY <1>1 DEF TypeOK
<1>4. /\ Settled(cur) => (took'[cur] > 0 \/ bounced'[cur] > 0)
      /\ \A id \in Ids \ {cur} : (took'[id] > 0 \/ bounced'[id] > 0)
                                   <=> Settled(id)
  BY <1>2, <1>3 DEF AttemptSteps, Settled
\* The files of the current item may go only if it is settled.
<1>5. SUFFICES /\ \/ Settled(cur)
                  \/ took'[cur] > 0 \/ bounced'[cur] > 0
                  \/ eml'[cur] = eml[cur] /\ meta'[cur] # "none"
               /\ phase' \in {"remove", "unlist"} =>
                     cur' = cur /\ (took'[cur] > 0 \/ bounced'[cur] > 0)
  BY <1>1, <1>2, <1>4 DEF SpoolInv, NothingLost, AttemptSteps, Settled
<1> USE DEF SpoolInv, NothingLost, Settled, TypeOK
<1>6. CASE ReadBody
  BY <1>1, <1>6 DEF ReadBody, Fault, spool, history
<1>7. CASE Route
  BY <1>1, <1>7 DEF Route, AttemptFails, LastPhase, spool
<1>8. CASE HostAccepts
  BY <1>1, <1>8 DEF HostAccepts, AfterAccept, Takes, spool
<1>9. CASE HostRejects
  BY <1>1, <1>9 DEF HostRejects, AttemptFails, LastPhase, spool
<1>10. CASE HostDefers
  BY <1>1, <1>10 DEF HostDefers, TryNext, AttemptFails, LastPhase, spool
<1>11. CASE HostLoses
  BY <1>1, <1>11 DEF HostLoses, Takes, TryNext, AttemptFails, LastPhase, spool
<1>12. CASE Bounce
  BY <1>1, <1>12 DEF Bounce, Fault, spool
<1>13. CASE RemoveBody
  BY <1>1, <1>13 DEF RemoveBody, history
<1>14. CASE RemoveItem
  BY <1>1, <1>14 DEF RemoveItem, NextItem, history
<1>15. CASE TruncateItem
  BY <1>1, <1>15 DEF TruncateItem, NextItem, history
<1>16. CASE RewriteItem
  BY <1>1, <1>16 DEF RewriteItem, NextItem, history
<1> QED
  BY <1>6, <1>7, <1>8, <1>9, <1>10, <1>11, <1>12, <1>13, <1>14, <1>15, <1>16
     DEF Attempt

\* NothingLost for every instance in which the bytes of a message can be read
\* and its bounce can be delivered: as long as its fate is open, a message that
\* was accepted is in the spool with both its files.
THEOREM QueueLosesNothing ==
    ASSUME "body" \notin Faults, "bounce" \notin Faults
    PROVE  Spec => []NothingLost
<1>1. Init => SpoolInv
  BY DEF Init, SpoolInv, NothingLost
<1>2. ASSUME TypeOK, AcceptedFirst, SpoolInv, [Next]_vars PROVE SpoolInv'
  <2>1. CASE UNCHANGED vars
    BY <1>2, <2>1 DEF vars, SpoolInv, NothingLost, Settled
  <2>2. CASE Sweep
    BY <1>2, <2>2 DEF Sweep, StartSweep, SkipItem, TakeItem, EndSweep, spool,
                      history, SpoolInv, NothingLost, Settled
  <2>3. CASE SetRelay
    BY <1>2, <2>3 DEF SetRelay, spool, run, history, SpoolInv, NothingLost,
                      Settled
  <2>4. CASE Tick
    BY <1>2, <2>4 DEF Tick, SpoolInv, NothingLost, Settled
  <2>5. CASE Crash
    BY <1>2, <2>5 DEF Crash, spool, history, SpoolInv, NothingLost, Settled
  <2> QED
    BY <1>2, <2>1, <2>2, <2>3, <2>4, <2>5, SpoolEnqueue, SpoolAttempt DEF Next
<1>3. SpoolInv => NothingLost
  BY DEF SpoolInv
<1> QED
  BY <1>1, <1>2, <1>3, QueueTypeCorrect, AcceptedFirstAlways, PTL DEF Spec

-----------------------------------------------------------------------------
(* A message has one outcome *)

\* The crashes and failed calls that the bounds of the properties count.
Budget == crashes + faults

LEMMA AttemptAbout ==
    ASSUME TypeOK, Attempt
    PROVE  cur \in Ids /\ cur # None /\ phase \notin {"idle", "sweep"}
  BY DEF TypeOK, Attempt, ReadBody, Route, HostAccepts, HostRejects,
         HostDefers, HostLoses, Bounce, RemoveBody, RemoveItem, TruncateItem,
         RewriteItem

LEMMA FaultCounts ==
    ASSUME TypeOK, NEW kind, Fault(kind)
    PROVE  Budget' = Budget + 1
  BY DEF Fault, Budget, TypeOK

LEMMA NoFaultCounts == ASSUME UNCHANGED world PROVE Budget' = Budget
  BY DEF world, Budget

LEMMA BudgetIsNat == ASSUME TypeOK PROVE Budget \in Nat
  BY QueueAssumption DEF TypeOK, Budget

\* An attempt at the message may still begin, or is at a point where it may
\* still settle it.
Open(id) == IF cur = id THEN phase \notin {"remove", "unlist"}
                        ELSE meta[id] # "none"

\* What makes SettledOnce inductive: only a crash or a failed call leaves a
\* settled message open.
OnceInv ==
    \A id \in Ids :
        /\ took[id] + bounced[id] <= 1 + Budget
        /\ Open(id) => took[id] + bounced[id] <= Budget

LEMMA OnceEnqueue ==
    ASSUME TypeOK, AcceptedFirst, OnceInv, NEW id \in Ids,
           Enqueue(id) \/ EnqueueFails(id)
    PROVE  OnceInv'
<1>1. /\ caller[id] # "accepted"
      /\ UNCHANGED <<run, history>>
      /\ Budget' \in {Budget, Budget + 1}
      /\ \A other \in Ids \ {id} : meta'[other] = meta[other]
  <2>1. CASE Enqueue(id)
    BY <2>1, NoFaultCounts
       DEF Enqueue, CreateBody, WriteBody, CreateItem, WriteItem, TypeOK
  <2>2. CASE EnqueueFails(id)
    BY <2>2, FaultCounts DEF EnqueueFails, spool
  <2> QED
    BY <2>1, <2>2
<1>2. took[id] = 0 /\ bounced[id] = 0
  BY <1>1 DEF AcceptedFirst, Settled, TypeOK
<1>3. Budget \in Nat
  BY BudgetIsNat
<1>4. took' = took /\ bounced' = bounced /\ cur' = cur /\ phase' = phase
  BY <1>1 DEF run, history
<1> SUFFICES ASSUME NEW j \in Ids
             PROVE  /\ took[j] + bounced[j] <= 1 + Budget'
                    /\ Open(j)' => took[j] + bounced[j] <= Budget'
  BY <1>4 DEF OnceInv
<1>5. CASE j = id
  BY <1>1, <1>2, <1>3, <1>5
<1>6. CASE j # id
  <2>1. Open(j)' <=> Open(j)
    BY <1>1, <1>4, <1>6 DEF Open
  <2>2. took[j] \in Nat /\ bounced[j] \in Nat
    BY DEF TypeOK
  <2> QED
    BY <1>1, <1>3, <2>1, <2>2 DEF OnceInv
<1> QED
  BY <1>5, <1>6

LEMMA OnceSweep ==
    ASSUME TypeOK, OnceInv, Sweep
    PROVE  OnceInv'
<1>1. UNCHANGED <<meta, took, bounced>> /\ Budget' = Budget
  BY NoFaultCounts
     DEF Sweep, StartSweep, SkipItem, TakeItem, EndSweep, spool, history
<1>2. cur = None
  BY DEF Sweep, StartSweep, SkipItem, TakeItem, EndSweep, TypeOK
<1>3. \A id \in Ids : id # None
  BY DEF Ids, None
<1>4. \A id \in Ids : Open(id)' => Open(id)
  BY <1>1, <1>2, <1>3
     DEF Open, Sweep, StartSweep, SkipItem, TakeItem, EndSweep
<1> QED
  BY <1>1, <1>4 DEF OnceInv

LEMMA OnceAttempt ==
    ASSUME "loses" \notin Answers, TypeOK, OnceInv, Attempt
    PROVE  OnceInv'
<1> DEFINE spent == took[cur] + bounced[cur]
<1>1. cur \in Ids /\ cur # None
  BY AttemptAbout
<1>2. AttemptSteps
  BY AttemptFrame
<1>3. Budget \in Nat /\ spent \in Nat
  BY <1>1, BudgetIsNat DEF TypeOK
<1>4. /\ spent <= 1 + Budget
      /\ phase \notin {"remove", "unlist"} => spent <= Budget
  BY <1>1 DEF OnceInv, Open
<1> HIDE DEF spent
\* It is enough to look at the message of the attempt.
<1>5. ASSUME Budget' \in {Budget, Budget + 1},
             took'[cur] + bounced'[cur] <= 1 + Budget',
             \/ cur' = cur /\ phase' \in {"remove", "unlist"}
             \/ cur' = None /\ meta'[cur] = "none"
             \/ took'[cur] + bounced'[cur] <= Budget'
      PROVE  OnceInv'
  <2> SUFFICES ASSUME NEW id \in Ids
               PROVE  /\ took'[id] + bounced'[id] <= 1 + Budget'
                      /\ Open(id)' => took'[id] + bounced'[id] <= Budget'
    BY DEF OnceInv
  <2>1. CASE id = cur
    BY <1>1, <1>5, <2>1 DEF Open
  <2>2. CASE id # cur
    <3>1. id # None
      BY DEF Ids, None
    <3>2. /\ meta'[id] = meta[id] /\ took'[id] = took[id]
          /\ bounced'[id] = bounced[id] /\ cur' # id
      BY <1>2, <2>2, <3>1 DEF AttemptSteps
    <3>3. Open(id)' <=> Open(id)
      BY <2>2, <3>2 DEF Open
    <3>4. took[id] \in Nat /\ bounced[id] \in Nat
      BY DEF TypeOK
    <3> QED
      BY <1>3, <1>5, <3>2, <3>3, <3>4 DEF OnceInv
  <2> QED
    BY <2>1, <2>2
<1>6. ASSUME UNCHANGED <<took, bounced>>,
             Budget' \in {Budget, Budget + 1},
             \/ phase \notin {"remove", "unlist"}
             \/ cur' = cur /\ phase' \in {"remove", "unlist"}
             \/ cur' = None /\ meta'[cur] = "none"
             \/ Budget' = Budget + 1
      PROVE  OnceInv'
  <2>1. took'[cur] + bounced'[cur] = spent
    BY <1>6 DEF spent
  <2>2. spent <= 1 + Budget'
    <3>1. Budget' = Budget \/ Budget' = Budget + 1
      BY <1>6
    <3>2. spent <= 1 + Budget /\ spent \in Nat /\ Budget \in Nat
      BY <1>3, <1>4
    <3> QED
      BY ONLY <3>1, <3>2
  <2>3. CASE phase \notin {"remove", "unlist"} \/ Budget' = Budget + 1
    <3>1. spent <= Budget'
      BY <1>3, <1>4, <1>6, <2>3
    <3> QED
      BY <1>5, <1>6, <2>1, <2>2, <3>1
  <2> QED
    BY <1>5, <1>6, <2>1, <2>2, <2>3
<1>7. ASSUME phase \notin {"remove", "unlist"},
             took'[cur] + bounced'[cur] = spent + 1,
             Budget' = Budget, cur' = cur, phase' = "remove"
      PROVE  OnceInv'
  <2>1. spent + 1 <= 1 + Budget
    BY <1>3, <1>4, <1>7
  <2> QED
    BY <1>5, <1>7, <2>1
<1>8. CASE ReadBody
  BY <1>6, <1>8, FaultCounts, NoFaultCounts DEF ReadBody, history
<1>9. CASE Route \/ HostRejects \/ HostDefers
  <2>1. UNCHANGED <<world, took, bounced>> /\ phase \in {"route", "try"}
    BY <1>9 DEF Route, HostRejects, HostDefers
  <2> QED
    BY <1>6, <2>1, NoFaultCounts
<1>10. CASE HostAccepts
  <2>1. /\ took' = [took EXCEPT ![cur] = @ + 1] /\ bounced' = bounced
        /\ phase = "try" /\ phase' = "remove" /\ cur' = cur /\ UNCHANGED world
    BY <1>10 DEF HostAccepts, Takes, AfterAccept
  <2>2. took'[cur] + bounced'[cur] = spent + 1
    BY <1>1, <2>1 DEF spent, TypeOK
  <2> QED
    BY <1>7, <2>1, <2>2, NoFaultCounts
<1>11. CASE Bounce
  <2>1. CASE bounced' = [bounced EXCEPT ![cur] = @ + 1] /\ UNCHANGED world
    <3>1. /\ took' = took /\ cur' = cur
          /\ phase = "bounce" /\ phase' = "remove"
      BY <1>11 DEF Bounce
    <3>2. took'[cur] + bounced'[cur] = spent + 1
      BY <1>1, <2>1, <3>1 DEF spent, TypeOK
    <3> QED
      BY <1>7, <2>1, <3>1, <3>2, NoFaultCounts
  <2>2. CASE Fault("bounce") /\ UNCHANGED bounced
    BY <1>6, <1>11, <2>2, FaultCounts DEF Bounce
  <2> QED
    BY <1>11, <2>1, <2>2 DEF Bounce
<1>12. CASE RemoveBody
  BY <1>6, <1>12, FaultCounts, NoFaultCounts DEF RemoveBody, history
<1>13. CASE RemoveItem
  <2>1. UNCHANGED <<took, bounced>> /\ cur' = None
    BY <1>13 DEF RemoveItem, NextItem, history
  <2>2. CASE meta' = [meta EXCEPT ![cur] = "none"] /\ UNCHANGED world
    <3>1. meta'[cur] = "none"
      BY <1>1, <2>2 DEF TypeOK
    <3> QED
      BY <1>6, <2>1, <2>2, <3>1, NoFaultCounts
  <2>3. CASE Fault("remove")
    BY <1>6, <2>1, <2>3, FaultCounts
  <2> QED
    BY <1>13, <2>2, <2>3 DEF RemoveItem
<1>14. CASE TruncateItem
  BY <1>6, <1>14, FaultCounts, NoFaultCounts DEF TruncateItem, history
<1>15. CASE RewriteItem
  BY <1>6, <1>15, FaultCounts, NoFaultCounts DEF RewriteItem, history
<1> QED
  BY <1>8, <1>9, <1>10, <1>11, <1>12, <1>13, <1>14, <1>15
     DEF Attempt, HostLoses

LEMMA OnceCrash ==
    ASSUME TypeOK, OnceInv, Crash
    PROVE  OnceInv'
<1>1. Budget' = Budget + 1 /\ UNCHANGED <<took, bounced>>
  BY DEF Crash, Budget, TypeOK, history
<1>2. \A id \in Ids : took[id] \in Nat /\ bounced[id] \in Nat
  BY DEF TypeOK
<1> QED
  BY <1>1, <1>2, BudgetIsNat DEF OnceInv

\* SettledOnce for every instance in which no host takes a message without the
\* relay seeing its answer: a message that was relayed or bounced is attempted
\* again only after a crash or after a failed call, each of which can add one
\* outcome.
THEOREM QueueSettlesOnce ==
    ASSUME "loses" \notin Answers
    PROVE  Spec => []SettledOnce
<1>1. Init => OnceInv
  BY DEF Init, OnceInv, Open, Budget
<1>2. ASSUME TypeOK, AcceptedFirst, OnceInv, [Next]_vars PROVE OnceInv'
  <2>1. CASE UNCHANGED vars
    BY <1>2, <2>1 DEF vars, OnceInv, Open, Budget
  <2>2. CASE SetRelay
    BY <1>2, <2>2 DEF SetRelay, spool, run, history, OnceInv, Open, Budget
  <2>3. CASE Tick
    BY <1>2, <2>3 DEF Tick, world, OnceInv, Open, Budget
  <2> QED
    BY <1>2, <2>1, <2>2, <2>3, OnceEnqueue, OnceSweep, OnceAttempt, OnceCrash
       DEF Next
<1>3. ASSUME TypeOK, OnceInv PROVE SettledOnce
  <2>1. faults \in Nat /\ crashes \in Nat
    BY QueueAssumption, <1>3 DEF TypeOK
  <2>2. 1 + Budget = 1 + crashes + faults
    BY <2>1 DEF Budget
  <2> QED
    BY <1>3, <2>2 DEF OnceInv, SettledOnce
<1> QED
  BY <1>1, <1>2, <1>3, QueueTypeCorrect, AcceptedFirstAlways, PTL DEF Spec

-----------------------------------------------------------------------------
(* No message is tried too often *)

Attempted == {"body", "route", "try"}

LEMMA CountTypes ==
    ASSUME TypeOK
    PROVE  /\ tries \in [Ids -> Nat]
           /\ attempts \in [Ids -> 0..MaxRetries]
           /\ \A id \in Ids : tries[id] \in Nat /\ attempts[id] \in Nat
           /\ meta \in [Ids -> {"none", "bad", "ok"}]
           /\ tried \in Nat /\ tried <= MaxRetries + 1
           /\ MaxRetries \in Nat
<1>1. MaxRetries \in Nat
  BY QueueAssumption
<1>2. /\ tries \in [Ids -> Nat]
      /\ attempts \in [Ids -> 0..MaxRetries]
      /\ meta \in [Ids -> {"none", "bad", "ok"}]
      /\ tried \in 0..(MaxRetries + 1)
  BY DEF TypeOK
<1>3. tried \in Nat /\ tried <= MaxRetries + 1
  BY ONLY <1>1, <1>2
<1>4. \A id \in Ids : tries[id] \in Nat /\ attempts[id] \in Nat
  BY ONLY <1>1, <1>2
<1> QED
  BY <1>1, <1>2, <1>3, <1>4

\* What makes TriesBounded inductive: how the failed attempts at a message
\* compare with the number that its item counts, on disk between two attempts
\* and in memory during one.
CountInv ==
    \A id \in Ids :
        /\ tries[id] > 0 \/ attempts[id] > 0 => caller[id] = "accepted"
        /\ tries[id] <= 1 + MaxRetries + Budget
        /\ cur # id /\ meta[id] = "ok" => tries[id] <= attempts[id] + Budget
        /\ cur = id =>
              /\ tries[id] <= tried + Budget
              /\ phase \in Attempted => tried = attempts[id]
              /\ IF phase = "rewrite" THEN meta[id] = "bad"
                                      ELSE tried <= attempts[id] + 1

LEMMA CountEnqueue ==
    ASSUME TypeOK, AcceptedFirst, CountInv, NEW id \in Ids,
           Enqueue(id) \/ EnqueueFails(id)
    PROVE  CountInv'
<1>1. /\ caller[id] # "accepted"
      /\ UNCHANGED <<attempts, run, history>>
      /\ Budget' \in {Budget, Budget + 1}
      /\ \A j \in Ids \ {id} : meta'[j] = meta[j] /\ caller'[j] = caller[j]
  <2>1. CASE Enqueue(id)
    BY <2>1, NoFaultCounts
       DEF Enqueue, CreateBody, WriteBody, CreateItem, WriteItem, TypeOK
  <2>2. CASE EnqueueFails(id)
    BY <2>2, FaultCounts DEF EnqueueFails, spool, TypeOK
  <2> QED
    BY <2>1, <2>2
<1>2. /\ UNCHANGED <<attempts, cur, phase, tried, tries>>
  BY <1>1 DEF run, history
<1>3. \A j \in Ids : tries[j] \in Nat /\ attempts[j] \in Nat
  BY CountTypes
<1>4. tries[id] = 0 /\ attempts[id] = 0
  BY <1>1, <1>3 DEF CountInv
<1>5. /\ Budget \in Nat /\ Budget' \in Nat /\ Budget <= Budget'
      /\ tried \in Nat /\ MaxRetries \in Nat
  BY <1>1, BudgetIsNat, CountTypes
\* The message of the current attempt was accepted before.
<1>6. cur # id
  BY <1>1 DEF AcceptedFirst, TypeOK, Ids, None
<1> SUFFICES ASSUME NEW j \in Ids
             PROVE  /\ tries[j] > 0 \/ attempts[j] > 0 =>
                          caller'[j] = "accepted"
                    /\ tries[j] <= 1 + MaxRetries + Budget'
                    /\ cur # j /\ meta'[j] = "ok" =>
                          tries[j] <= attempts[j] + Budget'
                    /\ cur = j =>
                          /\ tries[j] <= tried + Budget'
                          /\ phase \in Attempted => tried = attempts[j]
                          /\ IF phase = "rewrite" THEN meta'[j] = "bad"
                             ELSE tried <= attempts[j] + 1
  BY <1>2 DEF CountInv
<1>7. CASE j = id
  BY <1>4, <1>5, <1>6, <1>7
<1>8. CASE j # id
  <2>1. meta'[j] = meta[j] /\ caller'[j] = caller[j]
    BY <1>1, <1>8
  <2>2. tries[j] \in Nat /\ attempts[j] \in Nat
    BY <1>3
  <2>3. /\ tries[j] > 0 \/ attempts[j] > 0 => caller[j] = "accepted"
        /\ cur = j =>
              /\ phase \in Attempted => tried = attempts[j]
              /\ IF phase = "rewrite" THEN meta[j] = "bad"
                                      ELSE tried <= attempts[j] + 1
    BY DEF CountInv
  <2>4. /\ tries[j] <= 1 + MaxRetries + Budget
        /\ cur # j /\ meta[j] = "ok" => tries[j] <= attempts[j] + Budget
        /\ cur = j => tries[j] <= tried + Budget
    BY DEF CountInv
  <2>5. /\ tries[j] <= 1 + MaxRetries + Budget'
        /\ cur # j /\ meta[j] = "ok" => tries[j] <= attempts[j] + Budget'
        /\ cur = j => tries[j] <= tried + Budget'
    BY ONLY <1>5, <2>2, <2>4
  <2> QED
    BY <2>1, <2>3, <2>5
<1> QED
  BY <1>7, <1>8

LEMMA CountSweep ==
    ASSUME TypeOK, AcceptedFirst, CountInv, Sweep
    PROVE  CountInv'
<1>1. /\ UNCHANGED <<caller, meta, attempts, tries>>
      /\ Budget' = Budget
      /\ phase' # "rewrite"
  BY NoFaultCounts
     DEF Sweep, StartSweep, SkipItem, TakeItem, EndSweep, spool, history
<1>2. \A id \in Ids : cur # id /\ id # None
  BY DEF Sweep, StartSweep, SkipItem, TakeItem, EndSweep, TypeOK, Ids, None
<1>3. ASSUME UNCHANGED cur PROVE CountInv'
  BY <1>1, <1>2, <1>3 DEF CountInv
<1>4. ASSUME NEW id \in Ids, TakeItem(id) PROVE CountInv'
  <2>1. cur' = id /\ tried' = attempts[id] /\ meta[id] = "ok"
    BY <1>4 DEF TakeItem
  <2>2. attempts[id] \in Nat
    BY CountTypes
  <2> QED
    BY <1>1, <1>2, <2>1, <2>2 DEF CountInv
<1> QED
  BY <1>3, <1>4 DEF Sweep, StartSweep, SkipItem, EndSweep

\* The steps of an attempt that do not end it.
LEMMA CountAttempt ==
    ASSUME TypeOK, TypeOK', AcceptedFirst, CountInv, Attempt
    PROVE  CountInv'
<1> DEFINE n == tries[cur]
           a == attempts[cur]
<1>1. cur \in Ids /\ cur # None /\ \A id \in Ids : id # None
  BY AttemptAbout DEF Ids, None
<1>2. AttemptSteps
  BY AttemptFrame
<1>3. caller[cur] = "accepted" /\ caller'[cur] = "accepted"
  BY <1>1, <1>2, AttemptAbout DEF AcceptedFirst, AttemptSteps
<1>4. /\ n \in Nat /\ a \in Nat /\ tried \in Nat /\ tried' \in Nat
      /\ Budget \in Nat /\ MaxRetries \in Nat
      /\ tried' <= MaxRetries + 1
  <2>1. tried' \in 0..(MaxRetries + 1) /\ MaxRetries \in Nat
    BY QueueAssumption DEF TypeOK
  <2> QED
    BY <1>1, <2>1, BudgetIsNat, CountTypes
<1>5. /\ n <= 1 + MaxRetries + Budget
      /\ n <= tried + Budget
      /\ phase \in Attempted => tried = a
      /\ IF phase = "rewrite" THEN meta[cur] = "bad" ELSE tried <= a + 1
  BY <1>1 DEF CountInv
<1>6. /\ tries \in [Ids -> Nat] /\ attempts \in [Ids -> 0..MaxRetries]
      /\ meta \in [Ids -> {"none", "bad", "ok"}]
  BY CountTypes
\* It is enough to look at the message of the attempt.
<1>7. ASSUME \A id \in Ids \ {cur} : /\ tries'[id] = tries[id]
                                     /\ attempts'[id] = attempts[id],
             Budget' \in {Budget, Budget + 1},
             tries'[cur] <= 1 + MaxRetries + Budget',
             cur' = None => meta'[cur] # "ok"
                              \/ tries'[cur] <= attempts'[cur] + Budget',
             cur' = cur =>
                 /\ tries'[cur] <= tried' + Budget'
                 /\ phase' \in Attempted => tried' = attempts'[cur]
                 /\ IF phase' = "rewrite" THEN meta'[cur] = "bad"
                                          ELSE tried' <= attempts'[cur] + 1
      PROVE  CountInv'
  <2> SUFFICES ASSUME NEW id \in Ids
               PROVE  /\ tries'[id] > 0 \/ attempts'[id] > 0 =>
                            caller'[id] = "accepted"
                      /\ tries'[id] <= 1 + MaxRetries + Budget'
                      /\ cur' # id /\ meta'[id] = "ok" =>
                            tries'[id] <= attempts'[id] + Budget'
                      /\ cur' = id =>
                            /\ tries'[id] <= tried' + Budget'
                            /\ phase' \in Attempted => tried' = attempts'[id]
                            /\ IF phase' = "rewrite" THEN meta'[id] = "bad"
                               ELSE tried' <= attempts'[id] + 1
    BY DEF CountInv
  <2>1. cur' \in {cur, None}
    BY <1>2 DEF AttemptSteps
  <2>2. CASE id = cur
    BY <1>3, <1>7, <2>1, <2>2
  <2>3. CASE id # cur
    <3>1. /\ meta'[id] = meta[id] /\ caller'[id] = caller[id]
          /\ tries'[id] = tries[id] /\ attempts'[id] = attempts[id]
          /\ cur' # id
      BY <1>1, <1>2, <1>7, <2>1, <2>3 DEF AttemptSteps
    <3>2. tries[id] \in Nat /\ attempts[id] \in Nat
      BY <1>6
    <3>3. /\ tries[id] > 0 \/ attempts[id] > 0 => caller[id] = "accepted"
          /\ tries[id] <= 1 + MaxRetries + Budget
          /\ meta[id] = "ok" => tries[id] <= attempts[id] + Budget
      BY <2>3 DEF CountInv
    <3>4. Budget' \in Nat /\ Budget <= Budget'
      BY <1>4, <1>7
    <3>5. /\ tries[id] <= 1 + MaxRetries + Budget'
          /\ meta[id] = "ok" => tries[id] <= attempts[id] + Budget'
      BY ONLY <1>4, <3>2, <3>3, <3>4
    <3> QED
      BY <3>1, <3>3, <3>5
  <2> QED
    BY <2>2, <2>3
\* A step that leaves the counts alone, up to a failed call.
<1>8. ASSUME UNCHANGED <<tries, attempts, tried, cur>>,
             Budget' \in {Budget, Budget + 1},
             phase' \in Attempted => phase \in Attempted,
             phase # "rewrite" /\ phase' # "rewrite"
      PROVE  CountInv'
  <2>1. Budget' \in Nat /\ Budget <= Budget'
    BY <1>4, <1>8
  <2>2. n <= 1 + MaxRetries + Budget' /\ n <= tried + Budget'
    BY ONLY <1>4, <1>5, <2>1
  <2> QED
    BY <1>1, <1>5, <1>7, <1>8, <2>2
\* A step at which the attempt ends, and its count with it.
<1>9. ASSUME tries' = tries, cur' = None,
             \A id \in Ids \ {cur} : attempts'[id] = attempts[id],
             Budget' \in {Budget, Budget + 1},
             meta'[cur] # "ok" \/ n <= attempts'[cur] + Budget'
      PROVE  CountInv'
  <2>1. Budget' \in Nat /\ Budget <= Budget'
    BY <1>4, <1>9
  <2>2. n <= 1 + MaxRetries + Budget'
    BY ONLY <1>4, <1>5, <2>1
  <2> QED
    BY <1>1, <1>7, <1>9, <2>2
\* A failed call makes up for the count that it loses.
<1>10. ASSUME tries' = tries, cur' = None, attempts' = attempts,
              Budget' = Budget + 1, phase # "rewrite"
       PROVE  CountInv'
  <2>1. n <= a + Budget'
    BY <1>4, <1>5, <1>10
  <2> QED
    BY <1>9, <1>10, <2>1
\* deliver fails.
<1>11. ASSUME NEW permanent, AttemptFails(permanent), phase \in Attempted,
              UNCHANGED <<spool, world, cur>>
       PROVE  CountInv'
  <2>1. /\ tried' = tried + 1 /\ tries' = [tries EXCEPT ![cur] = @ + 1]
        /\ phase' \in {"bounce", "save"} /\ attempts' = attempts
        /\ Budget' = Budget
    BY <1>11, NoFaultCounts DEF AttemptFails, LastPhase, spool
  <2>2. /\ tries'[cur] = n + 1
        /\ \A id \in Ids \ {cur} : tries'[id] = tries[id]
    BY <1>1, <1>6, <2>1
  <2>3. /\ n + 1 <= tried' + Budget
        /\ n + 1 <= 1 + MaxRetries + Budget
        /\ tried' <= a + 1
    <3>1. tried = a
      BY <1>5, <1>11
    <3> QED
      BY ONLY <1>4, <1>5, <2>1, <3>1
  <2>4. /\ tries'[cur] <= 1 + MaxRetries + Budget'
        /\ tries'[cur] <= tried' + Budget'
        /\ tried' <= attempts'[cur] + 1
    BY <2>1, <2>2, <2>3
  <2>5. phase' \notin Attempted /\ phase' # "rewrite" /\ cur' = cur
    BY <1>11, <2>1 DEF Attempted
  <2> QED
    BY <1>1, <1>7, <2>1, <2>2, <2>4, <2>5
<1>12. CASE ReadBody
  BY <1>8, <1>12, FaultCounts, NoFaultCounts
     DEF ReadBody, spool, history, Attempted
<1>13. CASE Route
  <2>1. UNCHANGED <<spool, world, cur>> /\ phase \in Attempted
    BY <1>13 DEF Route, Attempted
  <2>2. CASE AttemptFails(FALSE)
    BY <1>11, <2>1, <2>2
  <2>3. CASE phase' = "try" /\ UNCHANGED <<tried, delay, tries, elapsed>>
    BY <1>8, <1>13, <2>1, <2>3, NoFaultCounts DEF Route, spool
  <2> QED
    BY <1>13, <2>2, <2>3 DEF Route
<1>14. CASE HostAccepts
  BY <1>8, <1>14, NoFaultCounts
     DEF HostAccepts, AfterAccept, spool, Attempted
<1>15. CASE HostRejects
  BY <1>11, <1>15 DEF HostRejects, Attempted
<1>16. CASE HostDefers \/ HostLoses
  <2>1. UNCHANGED <<spool, world, cur>> /\ phase = "try" /\ TryNext
    BY <1>16 DEF HostDefers, HostLoses
  <2>2. CASE left > 1
    BY <1>8, <2>1, <2>2, NoFaultCounts DEF TryNext, spool
  <2>3. CASE ~(left > 1)
    BY <1>11, <2>1, <2>3 DEF TryNext, Attempted
  <2> QED
    BY <2>2, <2>3
<1>17. CASE Bounce
  BY <1>8, <1>17, FaultCounts, NoFaultCounts DEF Bounce, spool, Attempted
<1>18. CASE RemoveBody
  BY <1>8, <1>18, FaultCounts, NoFaultCounts
     DEF RemoveBody, history, Attempted
<1>19. CASE RemoveItem
  <2>1. tries' = tries /\ cur' = None /\ phase = "unlist"
    BY <1>19 DEF RemoveItem, NextItem, history
  <2>2. CASE /\ meta' = [meta EXCEPT ![cur] = "none"] /\ UNCHANGED world
             /\ attempts' = [attempts EXCEPT ![cur] = 0]
    BY <1>1, <1>6, <1>9, <2>1, <2>2, NoFaultCounts
  <2>3. CASE Fault("remove") /\ UNCHANGED attempts
    BY <1>10, <2>1, <2>3, FaultCounts
  <2> QED
    BY <1>19, <2>2, <2>3 DEF RemoveItem
<1>20. CASE TruncateItem
  <2>1. tries' = tries /\ phase = "save"
    BY <1>20 DEF TruncateItem, history
  <2>2. CASE /\ meta' = [meta EXCEPT ![cur] = "bad"]
             /\ attempts' = [attempts EXCEPT ![cur] = 0]
             /\ phase' = "rewrite" /\ UNCHANGED <<cur, tried, world>>
    <3>1. /\ meta'[cur] = "bad" /\ Budget' = Budget
          /\ \A id \in Ids \ {cur} : attempts'[id] = attempts[id]
      BY <1>1, <1>6, <2>2, NoFaultCounts
    <3> QED
      BY <1>1, <1>5, <1>7, <2>1, <2>2, <3>1 DEF Attempted
  <2>3. CASE Fault("save") /\ NextItem /\ UNCHANGED attempts
    BY <1>10, <2>1, <2>3, FaultCounts DEF NextItem
  <2> QED
    BY <1>20, <2>2, <2>3 DEF TruncateItem
<1>21. CASE RewriteItem
  <2>1. tries' = tries /\ cur' = None /\ meta[cur] = "bad"
    BY <1>5, <1>21 DEF RewriteItem, NextItem, history
  <2>2. CASE attempts' = [attempts EXCEPT ![cur] = tried] /\ UNCHANGED world
    BY <1>1, <1>5, <1>6, <1>9, <2>1, <2>2, NoFaultCounts
  <2>3. CASE Fault("save") /\ UNCHANGED <<meta, attempts>>
    BY <1>9, <2>1, <2>3, FaultCounts
  <2> QED
    BY <1>21, <2>2, <2>3 DEF RewriteItem
<1> QED
  BY <1>12, <1>13, <1>14, <1>15, <1>16, <1>17, <1>18, <1>19, <1>20, <1>21
     DEF Attempt

LEMMA CountCrash ==
    ASSUME TypeOK, CountInv, Crash
    PROVE  CountInv'
<1>1. /\ Budget' = Budget + 1 /\ cur' = None
      /\ UNCHANGED <<tries, attempts, meta>>
      /\ \A id \in Ids : caller[id] = "accepted" => caller'[id] = "accepted"
  BY DEF Crash, Budget, TypeOK, history, spool
<1>2. Budget \in Nat /\ tried \in Nat /\ MaxRetries \in Nat
  BY BudgetIsNat, QueueAssumption DEF TypeOK
<1> SUFFICES ASSUME NEW id \in Ids
             PROVE  /\ tries[id] > 0 \/ attempts[id] > 0 =>
                          caller'[id] = "accepted"
                    /\ tries[id] <= 1 + MaxRetries + (Budget + 1)
                    /\ meta[id] = "ok" =>
                          tries[id] <= attempts[id] + (Budget + 1)
  BY <1>1 DEF CountInv, Ids, None
<1>3. tries[id] \in Nat /\ attempts[id] \in Nat
  BY CountTypes
<1>4. /\ tries[id] > 0 \/ attempts[id] > 0 => caller[id] = "accepted"
      /\ tries[id] <= 1 + MaxRetries + Budget
      /\ cur # id /\ meta[id] = "ok" => tries[id] <= attempts[id] + Budget
      /\ cur = id =>
            /\ tries[id] <= tried + Budget
            /\ meta[id] = "bad" \/ tried <= attempts[id] + 1
  BY DEF CountInv
<1> QED
  BY <1>1, <1>2, <1>3, <1>4

LEMMA CountAlways == Spec => []CountInv
<1>1. Init => CountInv
  BY QueueAssumption DEF Init, CountInv, Budget, Ids, None
<1>2. ASSUME TypeOK, TypeOK', AcceptedFirst, CountInv, [Next]_vars
      PROVE  CountInv'
  <2>1. CASE UNCHANGED vars
    BY <1>2, <2>1 DEF vars, CountInv, Budget
  <2>2. CASE SetRelay
    BY <1>2, <2>2 DEF SetRelay, spool, run, history, CountInv, Budget
  <2>3. CASE Tick
    BY <1>2, <2>3 DEF Tick, world, CountInv, Budget
  <2> QED
    BY <1>2, <2>1, <2>2, <2>3, CountEnqueue, CountSweep, CountAttempt,
       CountCrash DEF Next
<1> QED
  BY <1>1, <1>2, QueueTypeCorrect, AcceptedFirstAlways, PTL DEF Spec

\* TriesBounded for every instance: an item counts the attempts that failed,
\* and is not kept beyond MaxRetries of them; only a crash or a failed call can
\* lose the count, each of them one attempt at most.
THEOREM QueueTriesBounded == Spec => []TriesBounded
<1>1. ASSUME TypeOK, CountInv PROVE TriesBounded
  <2>1. faults \in Nat /\ crashes \in Nat /\ MaxRetries \in Nat
    BY QueueAssumption, <1>1 DEF TypeOK
  <2>2. 1 + MaxRetries + Budget = 1 + MaxRetries + crashes + faults
    BY <2>1 DEF Budget
  <2> QED
    BY <1>1, <2>2 DEF CountInv, TriesBounded
<1> QED
  BY <1>1, QueueTypeCorrect, CountAlways, PTL

-----------------------------------------------------------------------------
(* No attempt starts too soon *)

LEMMA DelayIsTick == ASSUME NEW n \in Nat \ {0} PROVE Delay(n) \in Ticks
<1> DEFINE k == IF n < Len(RetryIntervals) THEN n ELSE Len(RetryIntervals)
<1>1. RetryIntervals \in Seq(Nat) /\ RetryIntervals # <<>>
  BY QueueAssumption
<1>2. Len(RetryIntervals) \in Nat /\ Len(RetryIntervals) > 0
  BY <1>1
<1>3. k \in DOMAIN RetryIntervals
  BY <1>1, <1>2
<1> QED
  BY <1>3 DEF Delay, Ticks

\* A tick moves an item nearer to its time, or leaves it there.
LEMMA TickReaches ==
    ASSUME NEW n \in Nat, NEW w \in Nat, NEW d \in Nat, d \in Ticks,
           n + w >= d
    PROVE  Later(n) + Sooner(w) >= d
<1>1. Later(n) \in {n, n + 1}
  BY DEF Later
<1>2. n < d => Later(n) = n + 1
  BY DEF Later
<1>3. w = 0 => Sooner(w) = 0
  BY DEF Sooner
<1>4. w # 0 => Sooner(w) = w - 1
  BY DEF Sooner
<1>5. CASE w = 0
  BY <1>1, <1>3, <1>5
<1>6. CASE w # 0 /\ n < d
  BY <1>2, <1>4, <1>6
<1>7. CASE w # 0 /\ n >= d
  BY <1>1, <1>4, <1>7
<1> QED
  BY <1>5, <1>6, <1>7

\* The time that has passed since the last attempt at a message and the time
\* that is left until the next one make up the interval.
Spaced(id) ==
    /\ cur # id /\ meta[id] = "ok" /\ attempts[id] > 0 =>
          elapsed[id] + wait[id] >= Delay(attempts[id])
    /\ cur = id /\ phase \in Attempted /\ tried > 0 =>
          elapsed[id] >= Delay(tried)
    /\ cur = id /\ phase \in {"save", "rewrite"} =>
          tried > 0 /\ elapsed[id] + delay >= Delay(tried)

\* What makes RetriesSpaced inductive: what a sweep has yet to attempt was due
\* when the sweep began, and nobody but the attempt changes that.
SpacedInv ==
    /\ cur \notin todo
    /\ \A id \in todo \cap due : wait[id] = 0
    /\ Budget = 0 => \A id \in Ids : Spaced(id)

LEMMA SpacedTypes ==
    ASSUME TypeOK
    PROVE  /\ wait \in [Ids -> Nat] /\ elapsed \in [Ids -> Nat]
           /\ \A id \in Ids : wait[id] \in Nat /\ elapsed[id] \in Nat
           /\ delay \in Nat
           /\ todo \in SUBSET Ids
           /\ None \notin todo
           /\ \A id \in Ids : id # None
<1>1. /\ wait \in [Ids -> Nat] /\ elapsed \in [Ids -> Nat]
      /\ delay \in Nat /\ todo \in SUBSET Ids
  BY DEF TypeOK
<1>2. \A id \in Ids : id # None
  BY DEF Ids, None
<1> QED
  BY <1>1, <1>2

LEMMA SpacedEnqueue ==
    ASSUME TypeOK, AcceptedFirst, CountInv, SpacedInv, NEW id \in Ids,
           Enqueue(id) \/ EnqueueFails(id)
    PROVE  SpacedInv'
<1>1. /\ caller[id] # "accepted"
      /\ UNCHANGED <<attempts, wait, run, history>>
      /\ Budget' \in {Budget, Budget + 1}
      /\ \A j \in Ids \ {id} : meta'[j] = meta[j]
  <2>1. CASE Enqueue(id)
    BY <2>1, NoFaultCounts
       DEF Enqueue, CreateBody, WriteBody, CreateItem, WriteItem, TypeOK
  <2>2. CASE EnqueueFails(id)
    BY <2>2, FaultCounts DEF EnqueueFails, spool, TypeOK
  <2> QED
    BY <2>1, <2>2
<1>2. ~(attempts[id] > 0)
  BY <1>1 DEF CountInv
<1>3. cur # id
  BY <1>1, SpacedTypes DEF AcceptedFirst, TypeOK
<1>4. Budget' = 0 => Budget = 0
  BY <1>1, BudgetIsNat
<1>5. UNCHANGED <<attempts, wait, elapsed, cur, phase, tried, delay, todo, due>>
  BY <1>1 DEF run, history
<1>6. \A j \in Ids : Spaced(j) => Spaced(j)'
  BY <1>1, <1>2, <1>3, <1>5 DEF Spaced
<1> QED
  BY <1>4, <1>5, <1>6 DEF SpacedInv

LEMMA SpacedSweep ==
    ASSUME TypeOK, SpacedInv, Sweep
    PROVE  SpacedInv'
<1>1. UNCHANGED <<meta, attempts, wait, elapsed, delay>> /\ Budget' = Budget
  BY NoFaultCounts
     DEF Sweep, StartSweep, SkipItem, TakeItem, EndSweep, spool, history
<1>2. /\ cur = None /\ phase \notin Attempted
      /\ phase \notin {"save", "rewrite"}
  BY DEF Sweep, StartSweep, SkipItem, TakeItem, EndSweep, TypeOK, Attempted
<1>3. \A id \in Ids : id # None
  BY SpacedTypes
<1>4. ASSUME UNCHANGED cur, phase' \in {"idle", "sweep"},
             \A id \in todo' \cap due' : wait[id] = 0, todo' \in SUBSET Ids
      PROVE  SpacedInv'
  <2>1. \A id \in Ids : Spaced(id) => Spaced(id)'
    BY <1>1, <1>2, <1>3, <1>4 DEF Spaced
  <2> QED
    BY <1>1, <1>2, <1>3, <1>4, <2>1 DEF SpacedInv
<1>5. CASE StartSweep
  BY <1>4, <1>5 DEF StartSweep, DueNow
<1>6. ASSUME NEW id \in Ids, SkipItem(id) PROVE SpacedInv'
  BY <1>4, <1>6 DEF SkipItem, SpacedInv, TypeOK
<1>7. ASSUME NEW id \in Ids, TakeItem(id) PROVE SpacedInv'
  <2>1. /\ cur' = id /\ phase' = "body" /\ tried' = attempts[id]
        /\ id \in todo /\ id \in due /\ meta[id] = "ok"
        /\ todo' = todo \ {id} /\ due' = due
    BY <1>7 DEF TakeItem, IsNext
  <2>2. wait[id] = 0
    BY <2>1 DEF SpacedInv
  <2>3. ASSUME NEW j \in Ids, Spaced(j) PROVE Spaced(j)'
    <3>1. CASE j = id
      <4>1. attempts[id] > 0 => elapsed[id] >= Delay(attempts[id])
        <5>1. attempts[id] > 0 =>
                  elapsed[id] + wait[id] >= Delay(attempts[id])
          BY <1>2, <1>3, <2>1, <2>3, <3>1 DEF Spaced
        <5>2. elapsed[id] + wait[id] = elapsed[id]
          BY <2>2, SpacedTypes
        <5> QED
          BY <5>1, <5>2
      <4> QED
        BY <1>1, <2>1, <3>1, <4>1 DEF Spaced, Attempted
    <3>2. CASE j # id
      BY <1>1, <1>2, <1>3, <2>1, <2>3, <3>2 DEF Spaced
    <3> QED
      BY <3>1, <3>2
  <2> QED
    BY <1>1, <2>1, <2>3 DEF SpacedInv
<1>8. CASE EndSweep
  BY <1>4, <1>8 DEF EndSweep, TypeOK
<1> QED
  BY <1>5, <1>6, <1>7, <1>8 DEF Sweep

LEMMA SpacedAttempt ==
    ASSUME TypeOK, SpacedInv, Attempt
    PROVE  SpacedInv'
<1>1. cur \in Ids /\ cur # None /\ \A id \in Ids : id # None
  BY AttemptAbout, SpacedTypes
<1> PICK c \in Ids : c = cur
  BY <1>1
<1>2. AttemptSteps
  BY AttemptFrame
<1>3. Budget \in Nat /\ tried \in Nat /\ delay \in Nat
  BY BudgetIsNat, CountTypes, SpacedTypes
<1>4. /\ elapsed \in [Ids -> Nat] /\ wait \in [Ids -> Nat]
      /\ attempts \in [Ids -> 0..MaxRetries]
      /\ meta \in [Ids -> {"none", "bad", "ok"}]
  BY CountTypes, SpacedTypes
\* It is enough to look at the message of the attempt.
<1>5. ASSUME UNCHANGED <<todo, due>>,
             Budget' \in {Budget, Budget + 1},
             \A id \in Ids \ {cur} : /\ attempts'[id] = attempts[id]
                                     /\ wait'[id] = wait[id]
                                     /\ elapsed'[id] = elapsed[id],
             Budget' = 0 /\ Spaced(c) => Spaced(c)'
      PROVE  SpacedInv'
  <2>1. Budget' = 0 => Budget = 0
    BY <1>3, <1>5
  <2>2. ASSUME NEW id \in Ids \ {cur}, Spaced(id) PROVE Spaced(id)'
    <3>1. /\ meta'[id] = meta[id] /\ cur' # id
          /\ attempts'[id] = attempts[id] /\ wait'[id] = wait[id]
          /\ elapsed'[id] = elapsed[id]
      BY <1>1, <1>2, <1>5 DEF AttemptSteps
    <3> QED
      BY <2>2, <3>1 DEF Spaced
  <2>3. \A id \in todo \cap due : wait'[id] = 0
    BY <1>5 DEF SpacedInv, TypeOK
  <2>4. cur' \notin todo
    BY <1>2, SpacedTypes DEF SpacedInv, AttemptSteps
  <2> QED
    BY <1>1, <1>5, <2>1, <2>2, <2>3, <2>4 DEF SpacedInv
\* Any step that is neither a failed attempt nor its save.
<1>6. ASSUME UNCHANGED <<todo, due, attempts, wait, elapsed, cur, tried>>,
             Budget' \in {Budget, Budget + 1},
             phase' \in Attempted => phase \in Attempted,
             phase' \notin {"save", "rewrite"}
      PROVE  SpacedInv'
  <2>1. Spaced(c) => Spaced(c)'
    BY <1>6 DEF Spaced
  <2> QED
    BY <1>5, <1>6, <2>1
\* Once a call has failed there is nothing left to show.
<1>7. ASSUME UNCHANGED <<todo, due, attempts, wait, elapsed>>,
             Budget' = Budget + 1
      PROVE  SpacedInv'
  BY <1>3, <1>5, <1>7
\* deliver fails.
<1>8. ASSUME NEW permanent \in BOOLEAN, AttemptFails(permanent),
             UNCHANGED <<spool, world, cur, todo, due>>
      PROVE  SpacedInv'
  <2>1. /\ tried' = tried + 1 /\ elapsed' = [elapsed EXCEPT ![cur] = 0]
        /\ Budget' = Budget /\ attempts' = attempts /\ wait' = wait
    BY <1>8, NoFaultCounts DEF AttemptFails, spool
  <2>2. \/ phase' = "bounce"
        \/ phase' = "save" /\ delay' = Delay(tried + 1)
    BY <1>8 DEF AttemptFails, LastPhase
  <2>3. /\ elapsed'[cur] = 0
        /\ \A id \in Ids \ {cur} : elapsed'[id] = elapsed[id]
    BY <1>1, <1>4, <2>1
  <2>4. Delay(tried + 1) \in Nat /\ tried' > 0
    <3>1. tried + 1 \in Nat \ {0}
      BY <1>3
    <3> QED
      BY <2>1, <3>1, DelayIsNat
  <2>5. phase' \notin Attempted /\ phase' # "rewrite"
    BY <2>2 DEF Attempted
  <2>6. phase' = "save" => elapsed'[cur] + delay' >= Delay(tried')
    BY <2>1, <2>2, <2>3, <2>4
  <2>7. Spaced(c)'
    BY <1>8, <2>4, <2>5, <2>6 DEF Spaced
  <2> QED
    BY <1>5, <1>8, <2>1, <2>3, <2>7
<1>9. CASE ReadBody
  BY <1>6, <1>9, FaultCounts, NoFaultCounts
     DEF ReadBody, spool, history, Attempted
<1>10. CASE Route
  <2>1. UNCHANGED <<spool, world, cur, todo, due>> /\ phase = "route"
    BY <1>10 DEF Route
  <2>2. CASE AttemptFails(FALSE)
    BY <1>8, <2>1, <2>2
  <2>3. CASE phase' = "try" /\ UNCHANGED <<tried, delay, tries, elapsed>>
    BY <1>6, <2>1, <2>3, NoFaultCounts DEF spool, Attempted
  <2> QED
    BY <1>10, <2>2, <2>3 DEF Route
<1>11. CASE HostAccepts
  BY <1>6, <1>11, NoFaultCounts
     DEF HostAccepts, AfterAccept, spool, Attempted
<1>12. CASE HostRejects
  BY <1>8, <1>12 DEF HostRejects
<1>13. CASE HostDefers \/ HostLoses
  <2>1. UNCHANGED <<spool, world, cur, todo, due>> /\ phase = "try" /\ TryNext
    BY <1>13 DEF HostDefers, HostLoses
  <2>2. CASE left > 1
    BY <1>6, <2>1, <2>2, NoFaultCounts DEF TryNext, spool, Attempted
  <2>3. CASE ~(left > 1)
    BY <1>8, <2>1, <2>3 DEF TryNext
  <2> QED
    BY <2>2, <2>3
<1>14. CASE Bounce
  BY <1>6, <1>14, FaultCounts, NoFaultCounts DEF Bounce, spool, Attempted
<1>15. CASE RemoveBody
  BY <1>6, <1>15, FaultCounts, NoFaultCounts
     DEF RemoveBody, history, Attempted
<1>16. CASE RemoveItem
  <2>1. UNCHANGED <<todo, due, elapsed>> /\ cur' = None
    BY <1>16 DEF RemoveItem, NextItem, history
  <2>2. CASE /\ meta' = [meta EXCEPT ![cur] = "none"] /\ UNCHANGED world
             /\ attempts' = [attempts EXCEPT ![cur] = 0]
             /\ wait' = [wait EXCEPT ![cur] = 0]
    <3>1. /\ meta'[cur] = "none" /\ Budget' = Budget
          /\ \A id \in Ids \ {cur} : /\ attempts'[id] = attempts[id]
                                     /\ wait'[id] = wait[id]
      BY <1>1, <1>4, <2>2, NoFaultCounts
    <3>2. Spaced(c)'
      BY <1>1, <2>1, <3>1 DEF Spaced
    <3> QED
      BY <1>5, <2>1, <3>1, <3>2
  <2>3. CASE Fault("remove") /\ UNCHANGED <<meta, attempts, wait>>
    BY <1>7, <2>1, <2>3, FaultCounts
  <2> QED
    BY <1>16, <2>2, <2>3 DEF RemoveItem
<1>17. CASE TruncateItem
  <2>1. UNCHANGED elapsed /\ phase = "save"
    BY <1>17 DEF TruncateItem, history
  <2>2. CASE /\ meta' = [meta EXCEPT ![cur] = "bad"]
             /\ attempts' = [attempts EXCEPT ![cur] = 0]
             /\ wait' = [wait EXCEPT ![cur] = 0]
             /\ phase' = "rewrite"
             /\ UNCHANGED <<todo, due, cur, tried, delay, world>>
    <3>1. /\ Budget' = Budget
          /\ \A id \in Ids \ {cur} : /\ attempts'[id] = attempts[id]
                                     /\ wait'[id] = wait[id]
      BY <1>1, <1>4, <2>2, NoFaultCounts
    <3>2. Spaced(c) => Spaced(c)'
      BY <2>1, <2>2 DEF Spaced, Attempted
    <3> QED
      BY <1>5, <2>1, <2>2, <3>1, <3>2
  <2>3. CASE Fault("save") /\ NextItem /\ UNCHANGED <<meta, attempts, wait>>
    BY <1>7, <2>1, <2>3, FaultCounts DEF NextItem
  <2> QED
    BY <1>17, <2>2, <2>3 DEF TruncateItem
<1>18. CASE RewriteItem
  <2>1. UNCHANGED <<todo, due, elapsed>> /\ cur' = None /\ phase = "rewrite"
    BY <1>18 DEF RewriteItem, NextItem, history
  <2>2. CASE /\ meta' = [meta EXCEPT ![cur] = "ok"] /\ UNCHANGED world
             /\ attempts' = [attempts EXCEPT ![cur] = tried]
             /\ wait' = [wait EXCEPT ![cur] = delay]
    <3>1. /\ Budget' = Budget
          /\ attempts'[cur] = tried /\ wait'[cur] = delay
          /\ \A id \in Ids \ {cur} : /\ attempts'[id] = attempts[id]
                                     /\ wait'[id] = wait[id]
      BY <1>1, <1>4, <2>2, NoFaultCounts
    <3>2. Spaced(c) => Spaced(c)'
      BY <1>1, <2>1, <3>1 DEF Spaced
    <3> QED
      BY <1>5, <2>1, <3>1, <3>2
  <2>3. CASE Fault("save") /\ UNCHANGED <<meta, attempts, wait>>
    BY <1>7, <2>1, <2>3, FaultCounts
  <2> QED
    BY <1>18, <2>2, <2>3 DEF RewriteItem
<1> QED
  BY <1>9, <1>10, <1>11, <1>12, <1>13, <1>14, <1>15, <1>16, <1>17, <1>18
     DEF Attempt

LEMMA SpacedTick ==
    ASSUME TypeOK, SpacedInv, Tick
    PROVE  SpacedInv'
<1>1. /\ UNCHANGED <<meta, attempts, phase, todo, due, cur, tried>>
      /\ Budget' = Budget
      /\ wait' = [id \in Ids |-> Sooner(wait[id])]
      /\ elapsed' = [id \in Ids |-> Later(elapsed[id])]
      /\ delay' = Sooner(delay)
  BY NoFaultCounts DEF Tick
<1>2. ASSUME NEW id \in Ids, Spaced(id) PROVE Spaced(id)'
  <2>1. /\ elapsed[id] \in Nat /\ wait[id] \in Nat /\ delay \in Nat
        /\ tried \in Nat /\ attempts[id] \in Nat
    BY CountTypes, SpacedTypes
  <2>2. /\ elapsed'[id] = Later(elapsed[id]) /\ wait'[id] = Sooner(wait[id])
        /\ delay' = Sooner(delay)
    BY <1>1
  <2>3. CASE cur # id /\ meta[id] = "ok" /\ attempts[id] > 0
    <3>1. attempts[id] \in Nat \ {0}
      BY <2>1, <2>3
    <3>2. Delay(attempts[id]) \in Nat /\ Delay(attempts[id]) \in Ticks
      BY <3>1, DelayIsNat, DelayIsTick
    <3>3. elapsed[id] + wait[id] >= Delay(attempts[id])
      BY <1>2, <2>3 DEF Spaced
    <3>4. elapsed'[id] + wait'[id] >= Delay(attempts[id])
      BY <2>1, <2>2, <3>2, <3>3, TickReaches
    <3> QED
      BY <1>1, <2>3, <3>4 DEF Spaced
  <2>4. CASE cur = id /\ phase \in Attempted /\ tried > 0
    <3>1. tried \in Nat \ {0}
      BY <2>1, <2>4
    <3>2. Delay(tried) \in Nat
      BY <3>1, DelayIsNat
    <3>3. elapsed[id] >= Delay(tried)
      BY <1>2, <2>4 DEF Spaced
    <3>4. elapsed'[id] \in {elapsed[id], elapsed[id] + 1}
      BY <2>2 DEF Later
    <3>5. elapsed'[id] >= Delay(tried)
      BY <2>1, <3>2, <3>3, <3>4
    <3> QED
      BY <1>1, <2>4, <3>5 DEF Spaced, Attempted
  <2>5. CASE cur = id /\ phase \in {"save", "rewrite"}
    <3>1. tried > 0 /\ elapsed[id] + delay >= Delay(tried)
      BY <1>2, <2>5 DEF Spaced
    <3>2. tried \in Nat \ {0}
      BY <2>1, <3>1
    <3>3. Delay(tried) \in Nat /\ Delay(tried) \in Ticks
      BY <3>2, DelayIsNat, DelayIsTick
    <3>4. elapsed'[id] + delay' >= Delay(tried)
      BY <2>1, <2>2, <3>1, <3>3, TickReaches
    <3> QED
      BY <1>1, <2>5, <3>1, <3>4 DEF Spaced, Attempted
  <2> QED
    BY <1>1, <2>3, <2>4, <2>5 DEF Spaced
<1>3. \A id \in todo \cap due : wait'[id] = 0
  <2> SUFFICES ASSUME NEW id \in todo \cap due PROVE wait'[id] = 0
    OBVIOUS
  <2>1. id \in Ids /\ wait[id] = 0
    BY DEF SpacedInv, TypeOK
  <2> QED
    BY <1>1, <2>1 DEF Sooner
<1> QED
  BY <1>1, <1>2, <1>3 DEF SpacedInv

\* RetriesSpaced for every instance: without crashes and failed calls, the
\* interval that was set after a failed attempt has passed when the next one
\* begins, however long the sweep takes that found the message due.
THEOREM QueueRetriesSpaced == Spec => []RetriesSpaced
<1>1. Init => SpacedInv
  BY DEF Init, SpacedInv, Spaced, Attempted, None
<1>2. ASSUME TypeOK, AcceptedFirst, CountInv, SpacedInv, [Next]_vars
      PROVE  SpacedInv'
  <2>1. CASE UNCHANGED vars
    BY <1>2, <2>1 DEF vars, SpacedInv, Spaced, Budget
  <2>2. CASE SetRelay
    BY <1>2, <2>2 DEF SetRelay, spool, run, history, SpacedInv, Spaced, Budget
  <2>3. CASE Crash
    <3>1. Budget' # 0 /\ todo' = {}
      BY <1>2, <2>3, BudgetIsNat DEF Crash, Budget, TypeOK
    <3> QED
      BY <3>1 DEF SpacedInv
  <2> QED
    BY <1>2, <2>1, <2>2, <2>3, SpacedEnqueue, SpacedSweep, SpacedAttempt,
       SpacedTick DEF Next
<1>3. ASSUME TypeOK, SpacedInv PROVE RetriesSpaced
  <2> SUFFICES ASSUME crashes + faults = 0, phase \in Attempted, tried > 0
               PROVE  elapsed[cur] >= Delay(tried)
    BY DEF RetriesSpaced, Attempted, Delay
  <2>1. Budget = 0
    BY DEF Budget
  <2>2. cur \in Ids
    BY <1>3 DEF TypeOK, Attempted
  <2> QED
    BY <1>3, <2>1, <2>2 DEF SpacedInv, Spaced
<1> QED
  BY <1>1, <1>2, <1>3, QueueTypeCorrect, AcceptedFirstAlways, CountAlways, PTL
     DEF Spec

=============================================================================
