---------------------------- MODULE MailboxProofs ----------------------------
(***************************************************************************)
(* Theorems about Mailbox, for every number of goroutines, messages and    *)
(* restarts and every set of flags; the first three for every set of       *)
(* operations, the others for those without APPEND.                        *)
(***************************************************************************)
EXTENDS Mailbox, FiniteSetTheorems, SequenceTheorems, TLAPS

-----------------------------------------------------------------------------
(* Types *)

\* A goroutine that works on one message knows its key.
HasKey == {"rename", "insert", "dbflags", "letters", "push", "dbstore",
           "file", "unlink", "unindex"}
KeysKnown == \A p \in Procs : pc[p] \in HasKey => job[p].key \in Keys

\* The empty records are of their types.
LEMMA EmptyTypes ==
    NoFile \in File /\ NoRow \in Row /\ NoJob \in Job /\ NoScan \in Scan
<1>1. NoFile \in File
  BY DEF NoFile, File
<1>2. NoRow \in Row
  BY DEF NoRow, Row
<1>3. NoJob \in Job
  BY DEF NoJob, Job, Path
<1>4. NoScan \in Scan
  BY <1>2 DEF NoScan, Scan
<1> QED
  BY <1>1, <1>2, <1>3, <1>4

\* A function on an initial segment of the numbers is a sequence.
LEMMA SeqIntro ==
    ASSUME NEW S, NEW n \in Nat, NEW s \in [1..n -> S]
    PROVE  s \in Seq(S)
OBVIOUS

\* A list of messages shows keys with UIDs.
LEMMA ShownType ==
    ASSUME NEW s \in Seq(Message)
    PROVE  Shown(s) \in SUBSET (Keys \X Nat)
<1>1. ASSUME NEW i \in DOMAIN s
      PROVE  <<s[i].key, s[i].uid>> \in Keys \X Nat
  <2>1. s[i] \in Message
    OBVIOUS
  <2> QED
    BY <2>1 DEF Message
<1> QED
  BY <1>1 DEF Shown

\* The initial state is in its type.
LEMMA TypeInit == Init => TypeOK
<1> SUFFICES ASSUME Init PROVE TypeOK
  OBVIOUS
<1> USE DEF Init
<1>1. nextKey \in 1..(MaxMsgs + 1) /\ restarts \in 0..MaxRestarts
  BY MailboxAssumption
<1>2. uidNext \in Nat \ {0} /\ l \in Seq(Message)
  BY DEF FirstUid
<1> QED
  BY <1>1, <1>2, EmptyTypes DEF TypeOK

\* A delivery, from its first byte to the rename, keeps the types.
LEMMA TypeDelivery ==
    ASSUME TypeOK, KeysKnown, NEW p \in Procs,
           Deliver(p) \/ AppendMessage(p) \/ RenameToNew(p)
    PROVE  TypeOK'
<1> USE MailboxAssumption, EmptyTypes
    DEF TypeOK, dbVars, diskVars, history, Goto, Done
<1>1. ASSUME NEW kind \in {"deliver", "append"}, NEW F \in SUBSET Flags,
             StartDelivery(p, kind, F)
      PROVE  TypeOK'
  <2>1. [dir |-> "tmp", flags |-> {}] \in File
    BY DEF File
  <2>2. [NoJob EXCEPT !.kind = kind, !.key = nextKey, !.flags = F] \in Job
    BY <1>1 DEF StartDelivery, Job, NoJob, AnyFlag
  <2>3. nextKey' \in 1..(MaxMsgs + 1)
    BY <1>1 DEF StartDelivery, Keys
  <2> QED
    BY <1>1, <2>1, <2>2, <2>3 DEF StartDelivery
<1>2. CASE Deliver(p)
  BY <1>1, <1>2 DEF Deliver
<1>3. CASE AppendMessage(p)
  BY <1>1, <1>3 DEF AppendMessage
<1>4. CASE RenameToNew(p)
  <2>1. [file EXCEPT ![job[p].key].dir = "new"] \in [Keys -> File]
    <3>1. job[p].key \in Keys /\ file[job[p].key] \in File
      BY <1>4 DEF RenameToNew, KeysKnown, HasKey
    <3>2. [file[job[p].key] EXCEPT !.dir = "new"] \in File
      BY ONLY <3>1 DEF File
    <3>3. [file EXCEPT ![job[p].key] = [file[job[p].key] EXCEPT !.dir = "new"]]
              \in [Keys -> File]
      BY <3>1, <3>2
    <3> QED
      BY <3>3
  <2>2. pc' \in [Procs -> {"idle", "rename", "insert", "dbflags", "letters",
                         "push", "list", "prune", "build", "dbstore", "file",
                         "remove", "unlink", "unindex", "apply"}]
    BY <1>4 DEF RenameToNew
  <2>3. job' \in [Procs -> Job]
    BY <1>4 DEF RenameToNew
  <2> QED
    BY <1>4, <2>1, <2>2, <2>3 DEF RenameToNew
<1> QED
  BY <1>2, <1>3, <1>4

\* So do the other steps of an append.
LEMMA TypeAppend ==
    ASSUME TypeOK, KeysKnown, NEW p \in Procs,
           \/ AppendInsert(p) \/ AppendDbFlags(p)
           \/ AppendLetters(p) \/ AppendPush(p)
    PROVE  TypeOK'
<1> USE MailboxAssumption, EmptyTypes
    DEF TypeOK, dbVars, diskVars, history, Goto, Done
<1>1. CASE AppendInsert(p)
  <2>1. [job EXCEPT ![p].uid = NextUid] \in [Procs -> Job]
    <3>1. job[p] \in Job /\ NextUid \in Nat
      BY DEF NextUid
    <3>2. [job[p] EXCEPT !.uid = NextUid] \in Job
      BY ONLY <3>1 DEF Job
    <3>3. [job EXCEPT ![p] = [job[p] EXCEPT !.uid = NextUid]]
              \in [Procs -> Job]
      BY <3>2
    <3> QED
      BY <3>3
  <2>2. job[p].key \in Keys
    BY <1>1 DEF AppendInsert, KeysKnown, HasKey
  <2>3. ASSUME InsertMessage(job[p].key, job[p].flags \cap Lettered)
        PROVE  TypeOK!3' /\ TypeOK!4' /\ TypeOK!12'
    BY <2>2, <2>3 DEF InsertMessage, Row, RawColumn, AnyFlag, NextUid
  <2>4. CASE InsertMessage(job[p].key, job[p].flags \cap Lettered)
             /\ job' = [job EXCEPT ![p].uid = NextUid]
    BY <1>1, <2>1, <2>3, <2>4 DEF AppendInsert
  <2>5. CASE Done(p) /\ UNCHANGED dbVars
    BY <1>1, <2>5 DEF AppendInsert
  <2> QED
    BY <1>1, <2>4, <2>5 DEF AppendInsert
<1>2. CASE AppendDbFlags(p)
  <2>1. job[p].flags \in SUBSET AnyFlag
    BY DEF Job
  <2>2. [row EXCEPT ![job[p].key].flags = job[p].flags] \in [Keys -> Row]
    BY <2>1 DEF Row
  <2> QED
    BY <1>2, <2>2 DEF AppendDbFlags, UpdateMessageFlags
<1>3. CASE AppendLetters(p)
  <2>1. [dir |-> "cur", flags |-> job[p].flags \cap Lettered] \in File
    BY DEF File
  <2>2. CASE SetFlags(job[p].key, job[p].flags) /\ pc' = [pc EXCEPT ![p] = "push"]
             /\ UNCHANGED job
    BY <1>3, <2>1, <2>2 DEF AppendLetters, SetFlags
  <2>3. CASE Done(p) /\ UNCHANGED file
    BY <1>3, <2>3 DEF AppendLetters
  <2> QED
    BY <1>3, <2>2, <2>3 DEF AppendLetters
<1>4. CASE AppendPush(p)
  <2>1. job[p].key \in Keys
    BY <1>4 DEF AppendPush, KeysKnown, HasKey
  <2>2. [key |-> job[p].key, uid |-> job[p].uid, flags |-> job[p].flags,
         via |-> "append"] \in Message
    BY <2>1 DEF Message, Job
  <2>3. l' \in Seq(Message)
    BY <1>4, <2>2 DEF AppendPush
  <2>4. told' \in SUBSET (Keys \X Nat)
    BY <1>4, <2>3, ShownType DEF AppendPush
  <2> QED
    BY <1>4, <2>3, <2>4 DEF AppendPush
<1> QED
  BY <1>1, <1>2, <1>3, <1>4

\* A reload builds a list of messages.
LEMMA TypeReload ==
    ASSUME TypeOK, NEW p \in Procs, StartReload(p) \/ Reload(p)
    PROVE  TypeOK'
<1> USE MailboxAssumption, EmptyTypes
    DEF TypeOK, dbVars, diskVars, history, Goto, Done
<1>1. ASSUME NEW d PROVE EntriesOf(d) \in SUBSET Entry
  <2>1. ASSUME NEW k \in Keys
        PROVE  [key |-> k, flags |-> file[k].flags, inNew |-> d = "new"]
                   \in Entry
    <3>1. (d = "new") \in BOOLEAN
      OBVIOUS
    <3>2. file[k].flags \in SUBSET Lettered
      BY DEF File
    <3> QED
      BY <3>1, <3>2 DEF Entry
  <2> QED
    BY <2>1 DEF EntriesOf
<1>2. ASSUME NEW e \in scan.todo, NEW m \in Message, List(e, m)
      PROVE  scan' \in Scan
  <2>1. Append(scan.list, m) \in Seq(Message)
    BY DEF Scan
  <2> QED
    BY <1>2, <2>1 DEF List, Scan
<1>3. CASE StartReload(p)
  <2>1. scan' \in Scan
    BY <1>1, <1>3 DEF StartReload, NoScan, Scan
  <2>2. job' \in [Procs -> Job]
    <3>1. [job[p] EXCEPT !.kind = "poll"] \in Job
      BY <1>3 DEF StartReload, Job
    <3> QED
      BY <1>3, <3>1 DEF StartReload
  <2> QED
    BY <1>3, <2>1, <2>2 DEF StartReload
<1>4. CASE ListSecond(p)
  <2>1. scan' \in Scan
    BY <1>1, <1>4 DEF ListSecond, Scan
  <2> QED
    BY <1>4, <2>1 DEF ListSecond
<1>5. CASE Prune(p)
  <2>1. scan' \in Scan
    BY <1>5 DEF Prune, Scan
  <2>2. row' \in [Keys -> Row]
    BY <1>5 DEF Prune, DeleteMessagesNotIn
  <2> QED
    BY <1>5, <2>1, <2>2 DEF Prune, DeleteMessagesNotIn
<1>6. CASE KeepListed(p)
  <2>1. PICK e \in scan.todo, i \in DOMAIN l : List(e, l[i])
    BY <1>6 DEF KeepListed
  <2>2. l[i] \in Message
    OBVIOUS
  <2> QED
    BY <1>2, <1>6, <2>1, <2>2 DEF KeepListed, List
<1>7. CASE AddIndexed(p)
  <2>1. PICK e \in scan.todo :
            List(e, NewObject(e, scan.rows[e.key].uid, scan.rows[e.key].flags))
    BY <1>7 DEF AddIndexed
  <2>2. NewObject(e, scan.rows[e.key].uid, scan.rows[e.key].flags) \in Message
    BY DEF NewObject, Message, Scan, Entry, Row
  <2> QED
    BY <1>2, <1>7, <2>1, <2>2 DEF AddIndexed, List
<1>8. CASE AddUnindexed(p)
  <2>1. PICK e \in scan.todo : /\ InsertMessage(e.key, e.flags)
                               /\ List(e, NewObject(e, NextUid, e.flags))
    BY <1>8 DEF AddUnindexed
  <2>2. e \in Entry
    BY DEF Scan
  <2>3. NewObject(e, NextUid, e.flags) \in Message
    BY <2>2 DEF NewObject, Message, Entry, NextUid, AnyFlag
  <2>4. scan' \in Scan
    BY <1>2, <2>1, <2>3
  <2>5. TypeOK!3' /\ TypeOK!4' /\ TypeOK!12'
    BY <2>1, <2>2 DEF InsertMessage, Row, RawColumn, AnyFlag, NextUid, Entry
  <2> QED
    BY <2>1, <2>4, <2>5 DEF List
<1>9. CASE ReloadFails(p)
  BY <1>9 DEF ReloadFails
<1>10. CASE FinishReload(p)
  <2>1. PICK f \in Permutation(scan.list) : l' = Permuted(scan.list, f)
    BY <1>10 DEF FinishReload
  <2>2. scan.list \in Seq(Message)
    BY DEF Scan
  <2>3. l' \in Seq(Message)
    <3>0. DOMAIN scan.list = 1..Len(scan.list)
      BY <2>2, LenProperties
    <3>1. f \in [1..Len(scan.list) -> 1..Len(scan.list)]
      <4>1. f \in [DOMAIN scan.list -> DOMAIN scan.list]
        BY <2>1 DEF Permutation
      <4> QED
        BY <3>0, <4>1
    <3>2. l' = [i \in 1..Len(scan.list) |-> scan.list[f[i]]]
      BY <2>1, <2>2 DEF Permuted
    <3>3. l' \in [1..Len(scan.list) -> Message]
      BY <2>2, <3>1, <3>2
    <3>4. Len(scan.list) \in Nat
      BY <2>2
    <3> QED
      BY ONLY <3>3, <3>4, SeqIntro
  <2>4. told' \in SUBSET (Keys \X Nat)
    BY <1>10, <2>3, ShownType DEF FinishReload
  <2> QED
    BY <1>10, <2>3, <2>4 DEF FinishReload
<1> QED
  BY <1>3, <1>4, <1>5, <1>6, <1>7, <1>8, <1>9, <1>10 DEF Reload

\* Changing flags, in memory and then in the index and on disk.
LEMMA TypeFlags ==
    ASSUME TypeOK, KeysKnown, NEW p \in Procs,
           StoreFlags(p) \/ PersistRow(p) \/ PersistFile(p)
    PROVE  TypeOK'
<1> USE MailboxAssumption, EmptyTypes
    DEF TypeOK, dbVars, diskVars, history, Goto, Done
<1>1. CASE StoreFlags(p)
  <2>1. PICK i \in DOMAIN l, F \in SUBSET AnyFlag :
            /\ l' = [j \in DOMAIN l |-> IF Object(l[j]) = Object(l[i])
                                        THEN [l[j] EXCEPT !.flags = F]
                                        ELSE l[j]]
            /\ job' = [job EXCEPT ![p] = [NoJob EXCEPT !.kind = "store",
                                                       !.key = l[i].key,
                                                       !.flags = F]]
    BY <1>1 DEF StoreFlags
  <2>2. \A j \in DOMAIN l : l[j] \in Message
    OBVIOUS
  <2>3. \A j \in DOMAIN l : [l[j] EXCEPT !.flags = F] \in Message
    BY <2>2 DEF Message
  <2>4. l' \in Seq(Message)
    <3>1. DOMAIN l = 1..Len(l) /\ Len(l) \in Nat
      BY LenProperties
    <3>2. l' \in [1..Len(l) -> Message]
      BY <2>1, <2>2, <2>3, <3>1
    <3> QED
      BY ONLY <3>1, <3>2, SeqIntro
  <2>5. [NoJob EXCEPT !.kind = "store", !.key = l[i].key, !.flags = F] \in Job
    BY <1>1, <2>2 DEF StoreFlags, NoJob, Job, Message
  <2> QED
    BY <1>1, <2>1, <2>4, <2>5 DEF StoreFlags
<1>2. CASE PersistRow(p)
  <2>1. job[p].flags \in SUBSET AnyFlag
    BY DEF Job
  <2>2. [row EXCEPT ![job[p].key].flags = job[p].flags] \in [Keys -> Row]
    BY <2>1 DEF Row
  <2> QED
    BY <1>2, <2>2 DEF PersistRow, UpdateMessageFlags
<1>3. CASE PersistFile(p)
  <2>1. [dir |-> "cur", flags |-> job[p].flags \cap Lettered] \in File
    BY DEF File
  <2> QED
    BY <1>3, <2>1 DEF PersistFile, SetFlags
<1> QED
  BY <1>1, <1>2, <1>3

\* Removing messages.
LEMMA TypeRemoval ==
    ASSUME TypeOK, KeysKnown, NEW p \in Procs,
           \/ Expunge(p) \/ Purge(p)
           \/ FindVictim(p) \/ Unlink(p) \/ RemoveRow(p) \/ ExpungeLocked(p)
    PROVE  TypeOK'
<1> USE MailboxAssumption, EmptyTypes
    DEF TypeOK, dbVars, diskVars, history, Goto, Done
<1>1. \A i \in DOMAIN l : l[i] \in Message
  OBVIOUS
<1>2. \A i \in DOMAIN l : Object(l[i]) \in Objects
  BY <1>1 DEF Object, Objects, Message
<1>3. ASSUME NEW kind \in {"expunge", "purge"}, NEW V \in SUBSET Objects,
             StartRemoval(p, kind, V)
      PROVE  TypeOK'
  <2>1. [NoJob EXCEPT !.kind = kind, !.victims = V, !.left = V] \in Job
    BY <1>3 DEF StartRemoval, NoJob, Job
  <2> QED
    BY <1>3, <2>1 DEF StartRemoval
<1>4. CASE Expunge(p)
  <2>1. Deleted \in SUBSET Objects
    BY <1>2 DEF Deleted
  <2>2. PICK V \in SUBSET Deleted : StartRemoval(p, "expunge", V)
    BY <1>4 DEF Expunge
  <2> QED
    BY <1>3, <2>1, <2>2
<1>5. CASE Purge(p)
  <2>1. PICK i \in DOMAIN l : StartRemoval(p, "purge", {Object(l[i])})
    BY <1>5 DEF Purge
  <2> QED
    BY <1>2, <1>3, <2>1
<1>6. CASE FindVictim(p)
  <2>1. PICK v \in job[p].left :
            job' = [job EXCEPT ![p].left = @ \ {v}, ![p].key = v[1],
                               ![p].path = Find(v[1])]
    BY <1>6 DEF FindVictim
  <2>2. v[1] \in Keys
    BY DEF Job, Objects
  <2>3. Find(v[1]) \in Path
    BY <2>2 DEF Find, Path, File, OnDisk
  <2>4. [job[p] EXCEPT !.left = @ \ {v}, !.key = v[1], !.path = Find(v[1])]
            \in Job
    <3>1. job[p] \in Job
      OBVIOUS
    <3> QED
      BY ONLY <2>2, <2>3, <3>1 DEF Job
  <2>5. job' \in [Procs -> Job]
    BY <2>1, <2>4
  <2> QED
    BY <1>6, <2>5 DEF FindVictim
<1>7. CASE RemoveRow(p)
  <2>1. job[p].key \in Keys
    BY <1>7 DEF RemoveRow, KeysKnown, HasKey
  <2>2. [job[p] EXCEPT !.key = 0, !.path = NoFile] \in Job
    <3>1. job[p] \in Job
      OBVIOUS
    <3>2. NoFile \in Path
      BY DEF Path
    <3> QED
      BY ONLY <3>1, <3>2 DEF Job
  <2>3. job' \in [Procs -> Job]
    BY <1>7, <2>2 DEF RemoveRow
  <2>4. stranded' \in SUBSET Keys
    BY <1>7, <2>1 DEF RemoveRow
  <2> QED
    BY <1>7, <2>3, <2>4 DEF RemoveRow, DeleteMessageByKey
<1>8. CASE ExpungeLocked(p)
  <2> DEFINE kept == {i \in DOMAIN l : Object(l[i]) \notin job[p].victims}
             n == Cardinality(kept)
  <2>1. n \in Nat
    <3>1. DOMAIN l = 1..Len(l) /\ Len(l) \in Nat
      BY LenProperties
    <3>2. IsFiniteSet(DOMAIN l)
      BY <3>1, FS_Interval
    <3> QED
      BY <3>2, FS_Subset, FS_CardinalityType
  <2>2. PICK f \in [1..n -> kept] : l' = [i \in 1..n |-> l[f[i]]]
    BY <1>8 DEF ExpungeLocked
  <2>3. l' \in [1..n -> Message]
    BY <1>1, <2>2
  <2>4. l' \in Seq(Message)
    <3> HIDE DEF n
    <3> QED
      BY ONLY <2>1, <2>3, SeqIntro
  <2>5. \A v \in job[p].victims : v[1] \in Keys
    BY DEF Job, Objects
  <2> QED
    BY <1>8, <2>4, <2>5 DEF ExpungeLocked
<1>9. CASE Unlink(p)
  <2>1. [file EXCEPT ![job[p].key] = NoFile] \in [Keys -> File]
    OBVIOUS
  <2>2. file' \in [Keys -> File]
    BY <1>9, <2>1 DEF Unlink
  <2>3. job' \in [Procs -> Job]
    BY <1>9 DEF Unlink
  <2> QED
    BY <1>9, <2>2, <2>3 DEF Unlink
<1> QED
  BY <1>4, <1>5, <1>6, <1>7, <1>8, <1>9

\* The rest of the world.
LEMMA TypeWorld ==
    ASSUME TypeOK, Drop \/ Restart \/ \E p \in Procs : IOError(p)
    PROVE  TypeOK'
<1> USE MailboxAssumption, EmptyTypes
    DEF TypeOK, dbVars, diskVars, history, Goto, Done
<1>1. CASE Drop
  <2>1. \A F \in SUBSET Lettered : [dir |-> "cur", flags |-> F] \in File
    BY DEF File
  <2> QED
    BY <1>1, <2>1 DEF Drop, Keys
<1>2. CASE Restart
  <2>1. restarts' \in 0..MaxRestarts
    BY <1>2 DEF Restart
  <2>2. l' \in Seq(Message)
    BY <1>2 DEF Restart
  <2> QED
    BY <1>2, <2>1, <2>2 DEF Restart
<1>3. ASSUME NEW p \in Procs, IOError(p) PROVE TypeOK'
  BY <1>3 DEF IOError
<1> QED
  BY <1>1, <1>2, <1>3

\* Every step keeps the types.
LEMMA TypeStep == TypeOK /\ KeysKnown /\ [Next]_vars => TypeOK'
<1> SUFFICES ASSUME TypeOK, KeysKnown, [Next]_vars PROVE TypeOK'
  OBVIOUS
<1>1. CASE UNCHANGED vars
  BY <1>1 DEF vars, TypeOK
<1>2. ASSUME NEW p \in Procs, Begin(p) PROVE TypeOK'
  BY <1>2, TypeDelivery, TypeReload, TypeFlags, TypeRemoval DEF Begin
<1>3. ASSUME NEW p \in Procs, Continue(p) PROVE TypeOK'
  BY <1>3, TypeDelivery, TypeAppend, TypeReload, TypeFlags, TypeRemoval
     DEF Continue
<1> QED
  BY <1>1, <1>2, <1>3, TypeWorld DEF Next

\* A goroutine learns its key when it begins, and keeps it to the end.
LEMMA KeysStep == TypeOK /\ KeysKnown /\ [Next]_vars => KeysKnown'
<1> SUFFICES ASSUME TypeOK, KeysKnown, [Next]_vars PROVE KeysKnown'
  OBVIOUS
<1> USE DEF TypeOK, KeysKnown, HasKey, Goto, Done, NoJob
<1>1. CASE UNCHANGED vars
  BY <1>1 DEF vars
<1>2. ASSUME NEW p \in Procs, Begin(p) PROVE KeysKnown'
  <2>1. CASE Deliver(p) \/ AppendMessage(p)
    <3>1. PICK kind \in {"deliver", "append"}, F \in SUBSET Flags :
              StartDelivery(p, kind, F)
      BY <2>1 DEF Deliver, AppendMessage
    <3>2. job'[p].key = nextKey
      BY <3>1 DEF StartDelivery
    <3>3. \A q \in Procs \ {p} : job'[q] = job[q] /\ pc'[q] = pc[q]
      BY <3>1 DEF StartDelivery
    <3> QED
      BY <3>1, <3>2, <3>3 DEF StartDelivery
  <2>2. CASE StartReload(p)
    BY <2>2 DEF StartReload
  <2>3. CASE StoreFlags(p)
    <3>1. \A i \in DOMAIN l : l[i].key \in Keys
      <4>1. \A i \in DOMAIN l : l[i] \in Message
        OBVIOUS
      <4> QED
        BY <4>1 DEF Message
    <3>2. PICK i \in DOMAIN l, F \in SUBSET AnyFlag :
              job' = [job EXCEPT ![p] = [NoJob EXCEPT !.kind = "store",
                                                      !.key = l[i].key,
                                                      !.flags = F]]
      BY <2>3 DEF StoreFlags
    <3> QED
      BY <2>3, <3>1, <3>2 DEF StoreFlags
  <2>4. CASE Expunge(p) \/ Purge(p)
    <3>1. PICK kind, V : StartRemoval(p, kind, V)
      BY <2>4 DEF Expunge, Purge
    <3>2. /\ pc'[p] = "remove"
          /\ \A q \in Procs \ {p} : job'[q] = job[q] /\ pc'[q] = pc[q]
      BY <3>1 DEF StartRemoval
    <3> QED
      BY <3>2
  <2> QED
    BY <1>2, <2>1, <2>2, <2>3, <2>4 DEF Begin
<1>3. ASSUME NEW p \in Procs, Continue(p) PROVE KeysKnown'
  <2>1. CASE RenameToNew(p)
    BY <2>1 DEF RenameToNew
  <2>2. CASE AppendInsert(p)
    <3>1. job[p].key \in Keys
      BY <2>2 DEF AppendInsert
    <3>2. CASE Done(p)
      BY <3>2
    <3>3. CASE job' = [job EXCEPT ![p].uid = NextUid]
      <4>1. job'[p].key = job[p].key
        BY <3>3 DEF Job
      <4>2. \A q \in Procs \ {p} : job'[q] = job[q] /\ pc'[q] = pc[q]
        BY <2>2, <3>3 DEF AppendInsert
      <4> QED
        BY <3>1, <4>1, <4>2
    <3> QED
      BY <2>2, <3>2, <3>3 DEF AppendInsert
  <2>3. CASE AppendDbFlags(p) \/ PersistRow(p)
    BY <2>3 DEF AppendDbFlags, PersistRow
  <2>4. CASE AppendLetters(p)
    BY <2>4 DEF AppendLetters
  <2>5. CASE AppendPush(p) \/ PersistFile(p) \/ ExpungeLocked(p)
    BY <2>5 DEF AppendPush, PersistFile, ExpungeLocked
  <2>6. CASE ListSecond(p) \/ Prune(p)
    BY <2>6 DEF ListSecond, Prune
  <2>7. CASE KeepListed(p) \/ AddIndexed(p) \/ AddUnindexed(p)
    BY <2>7 DEF KeepListed, AddIndexed, AddUnindexed, List
  <2>8. CASE ReloadFails(p) \/ FinishReload(p)
    BY <2>8 DEF ReloadFails, FinishReload
  <2>9. CASE FindVictim(p)
    <3>1. PICK v \in job[p].left :
              job' = [job EXCEPT ![p].left = @ \ {v}, ![p].key = v[1],
                                 ![p].path = Find(v[1])]
      BY <2>9 DEF FindVictim
    <3>2. v[1] \in Keys
      BY DEF Job, Objects
    <3>3. job'[p].key = v[1]
      BY <3>1 DEF Job
    <3>4. \A q \in Procs \ {p} : job'[q] = job[q] /\ pc'[q] = pc[q]
      BY <2>9, <3>1 DEF FindVictim
    <3> QED
      BY <3>2, <3>3, <3>4
  <2>10. CASE RemoveRow(p)
    <3>1. pc'[p] \in {"apply", "remove"}
      BY <2>10 DEF RemoveRow
    <3>2. \A q \in Procs \ {p} : job'[q] = job[q] /\ pc'[q] = pc[q]
      BY <2>10 DEF RemoveRow
    <3> QED
      BY <3>1, <3>2
  <2>11. CASE Unlink(p)
    BY <2>11 DEF Unlink
  <2> QED
    BY <1>3, <2>1, <2>2, <2>3, <2>4, <2>5, <2>6, <2>7, <2>8, <2>9, <2>10,
       <2>11
       DEF Continue, Reload
<1>4. ASSUME NEW p \in Procs, IOError(p) PROVE KeysKnown'
  BY <1>4 DEF IOError
<1>5. CASE Drop \/ Restart
  BY <1>5 DEF Drop, Restart
<1> QED
  BY <1>1, <1>2, <1>3, <1>4, <1>5 DEF Next

\* Type correctness of the folder, over all its interleavings.
THEOREM TypeCorrect == Spec => [](TypeOK /\ KeysKnown)
<1>1. Init => TypeOK /\ KeysKnown
  BY TypeInit DEF Init, KeysKnown, HasKey
<1> QED
  BY <1>1, TypeStep, KeysStep, PTL DEF Spec

-----------------------------------------------------------------------------
(* UIDs *)

\* What a step may do to the UIDs that were given out: nothing, or give out
\* uid_next and move on.
IndexMoves ==
    \/ UNCHANGED <<uidNext, assigned>>
    \/ /\ uidNext' = uidNext + 1
       /\ \E k \in Keys : assigned' = assigned \cup {<<k, uidNext>>}

\* Only InsertMessage, in an append or in a reload, gives out a UID.
LEMMA IndexStep == TypeOK /\ KeysKnown /\ [Next]_vars => IndexMoves
<1> SUFFICES ASSUME TypeOK, KeysKnown, [Next]_vars PROVE IndexMoves
  OBVIOUS
<1> USE DEF IndexMoves, dbVars
<1>1. CASE UNCHANGED vars
  BY <1>1 DEF vars
<1>2. ASSUME NEW p \in Procs, Begin(p) PROVE IndexMoves
  BY <1>2 DEF Begin, Deliver, AppendMessage, StartDelivery, StartReload,
              StoreFlags, Expunge, Purge, StartRemoval
<1>3. ASSUME NEW p \in Procs, Continue(p) PROVE IndexMoves
  <2>1. CASE AppendInsert(p)
    BY <2>1 DEF AppendInsert, InsertMessage, NextUid, KeysKnown, HasKey
  <2>2. CASE AddUnindexed(p)
    <3>1. PICK e \in scan.todo : InsertMessage(e.key, e.flags)
      BY <2>2 DEF AddUnindexed
    <3>2. e.key \in Keys
      BY DEF TypeOK, Scan, Entry
    <3> QED
      BY <3>1, <3>2 DEF InsertMessage, NextUid
  <2>3. CASE ~AppendInsert(p) /\ ~AddUnindexed(p)
    BY <1>3, <2>3
       DEF Continue, Reload, RenameToNew, AppendDbFlags, UpdateMessageFlags,
           AppendLetters, AppendPush, ListSecond, Prune, DeleteMessagesNotIn,
           KeepListed, AddIndexed, ReloadFails, FinishReload, PersistRow,
           PersistFile, FindVictim, Unlink, RemoveRow, DeleteMessageByKey,
           ExpungeLocked
  <2> QED
    BY <2>1, <2>2, <2>3
<1>4. ASSUME NEW p \in Procs, IOError(p) PROVE IndexMoves
  BY <1>4 DEF IOError
<1>5. CASE Drop \/ Restart
  BY <1>5 DEF Drop, Restart
<1> QED
  BY <1>1, <1>2, <1>3, <1>4, <1>5 DEF Next

\* The strengthening: uid_next is above every UID that was given out.
UidsBelowNext == \A a \in assigned : a[2] < uidNext

LEMMA UidsGrow == Spec => [](UidsBelowNext /\ UidNeverReused)
<1>1. Init => UidsBelowNext /\ UidNeverReused
  BY DEF Init, UidsBelowNext, UidNeverReused
<1>2. ASSUME TypeOK, KeysKnown, UidsBelowNext, UidNeverReused, [Next]_vars
      PROVE  UidsBelowNext' /\ UidNeverReused'
  <2>1. CASE UNCHANGED <<uidNext, assigned>>
    BY <1>2, <2>1 DEF UidsBelowNext, UidNeverReused
  <2>2. ASSUME uidNext' = uidNext + 1,
               NEW k \in Keys, assigned' = assigned \cup {<<k, uidNext>>}
        PROVE  UidsBelowNext' /\ UidNeverReused'
    <3>1. \A a \in assigned : a[2] \in Nat /\ a[2] < uidNext
      BY <1>2 DEF TypeOK, UidsBelowNext
    <3>2. uidNext \in Nat
      BY <1>2 DEF TypeOK
    <3>3. UidsBelowNext'
      BY <2>2, <3>1, <3>2 DEF UidsBelowNext
    <3>4. UidNeverReused'
      BY <1>2, <2>2, <3>1, <3>2 DEF UidNeverReused
    <3> QED
      BY <3>3, <3>4
  <2> QED
    BY <1>2, <2>1, <2>2, IndexStep DEF IndexMoves
<1> QED
  BY <1>1, <1>2, TypeCorrect, PTL DEF Spec

\* UidNeverReused for every instance: rows may be deleted, reinserted and lost,
\* but uid_next only grows, so a UID names one message for ever.
THEOREM UidsAreNeverReused == Spec => []UidNeverReused
BY UidsGrow, PTL

-----------------------------------------------------------------------------
(* Listings *)

\* mu is held exactly inside the critical sections that take several steps.
Critical == {"list", "prune", "build", "dbstore", "file"}
MuHeld == \A p \in Procs : pc[p] \in Critical <=> mu = p

\* No file has a key that was not given out yet.
FreshKeys == \A k \in Keys : k >= nextKey => file[k].dir = "none"

\* A delivery that is about to rename owns its file in tmp/.
InTmp ==
    /\ \A p \in Procs : pc[p] = "rename" => file[job[p].key].dir = "tmp"
    /\ \A p, q \in Procs :
          pc[p] = "rename" /\ pc[q] = "rename" /\ p # q =>
              job[p].key # job[q].key

SinceOnDisk == \A k \in since : OnDisk(k)

\* After new/ was read, a message that was not found there is in cur/: it
\* never moves back.
CoversSoFar ==
    \A p \in Procs : pc[p] = "list" =>
        \A k \in since : k \in KeysOf(scan.found) \/ file[k].dir = "cur"

ListingInv ==
    /\ MuHeld /\ FreshKeys /\ InTmp /\ SinceOnDisk
    /\ CoversSoFar /\ ListingMissesNothing

\* find() looks in new/ and cur/ only.
LEMMA FoundOnDisk ==
    ASSUME TypeOK, NEW p \in Procs, IsThere(p)
    PROVE  OnDisk(job[p].key)
BY DEF TypeOK, Job, Path, IsThere, OnDisk

\* What the listing depends on is untouched by a step of p that moves no file
\* and neither begins nor ends a critical section.
LEMMA ListingFrame ==
    ASSUME TypeOK, ListingInv, NEW p \in Procs,
           UNCHANGED <<file, nextKey, mu, since>>,
           NEW s, pc' = [pc EXCEPT ![p] = s],
           s \in Critical <=> pc[p] \in Critical,
           s \notin {"rename", "list", "prune"},
           pc[p] \in {"list", "prune"} \/ UNCHANGED scan,
           \A q \in Procs \ {p} : job'[q] = job[q]
    PROVE  ListingInv'
<1> USE DEF ListingInv, TypeOK
<1>1. \A q \in Procs \ {p} : pc'[q] = pc[q]
  OBVIOUS
<1>2. pc'[p] = s
  OBVIOUS
<1>3. MuHeld' /\ FreshKeys'
  BY <1>1, <1>2 DEF MuHeld, FreshKeys
<1>4. InTmp' /\ SinceOnDisk'
  BY <1>1, <1>2 DEF InTmp, SinceOnDisk, OnDisk
<1>5. CoversSoFar' /\ ListingMissesNothing'
  <2>1. CASE pc[p] \in {"list", "prune"}
    BY <1>1, <1>2, <2>1
       DEF CoversSoFar, ListingMissesNothing, MuHeld, Critical
  <2>2. CASE UNCHANGED scan
    BY <1>1, <1>2, <2>2 DEF CoversSoFar, ListingMissesNothing
  <2> QED
    BY <2>1, <2>2
<1> QED
  BY <1>3, <1>4, <1>5

\* The steps that begin an operation keep the listing invariant.
LEMMA ListingBegin ==
    ASSUME TypeOK, KeysKnown, ListingInv, NEW p \in Procs, Begin(p)
    PROVE  ListingInv'
<1> USE DEF TypeOK, Goto, Done
<1>1. CASE Deliver(p) \/ AppendMessage(p)
  <2>1. PICK kind \in {"deliver", "append"}, F \in SUBSET Flags :
            StartDelivery(p, kind, F)
    BY <1>1 DEF Deliver, AppendMessage
  <2>2. /\ pc[p] = "idle" /\ pc'[p] = "rename" /\ job'[p].key = nextKey
        /\ \A q \in Procs \ {p} : pc'[q] = pc[q] /\ job'[q] = job[q]
    BY <2>1 DEF StartDelivery
  <2>3. /\ nextKey \in Keys /\ nextKey' = nextKey + 1
        /\ file'[nextKey].dir = "tmp" /\ file[nextKey].dir = "none"
        /\ \A k \in Keys \ {nextKey} : file'[k] = file[k]
    BY <2>1 DEF StartDelivery, ListingInv, FreshKeys, Keys
  <2>4. UNCHANGED <<mu, scan, since>>
    BY <2>1 DEF StartDelivery, history
  <2>5. MuHeld' /\ FreshKeys'
    BY <2>2, <2>3, <2>4 DEF ListingInv, MuHeld, Critical, FreshKeys, Keys
  <2>6. InTmp'
    <3>1. \A q \in Procs \ {p} :
              pc[q] = "rename" => job[q].key \in Keys \ {nextKey}
      BY <2>3 DEF ListingInv, InTmp, KeysKnown, HasKey
    <3>2. ASSUME NEW q \in Procs, pc'[q] = "rename"
          PROVE  file'[job'[q].key].dir = "tmp"
      <4>1. CASE q = p
        BY <2>2, <2>3, <4>1
      <4>2. CASE q # p
        <5>1. pc[q] = "rename" /\ job'[q] = job[q]
          BY <2>2, <3>2, <4>2
        <5>2. file[job[q].key].dir = "tmp"
          BY <5>1 DEF ListingInv, InTmp
        <5>3. file'[job[q].key] = file[job[q].key]
          BY <2>3, <3>1, <4>2, <5>1
        <5> QED
          BY <5>1, <5>2, <5>3
      <4> QED
        BY <4>1, <4>2
    <3>3. ASSUME NEW q \in Procs, NEW r \in Procs, q # r,
                 pc'[q] = "rename", pc'[r] = "rename"
          PROVE  job'[q].key # job'[r].key
      <4>1. CASE q = p
        BY <2>2, <2>3, <3>1, <3>3, <4>1
      <4>2. CASE r = p
        BY <2>2, <2>3, <3>1, <3>3, <4>2
      <4>3. CASE q # p /\ r # p
        BY <2>2, <3>3, <4>3 DEF ListingInv, InTmp
      <4> QED
        BY <4>1, <4>2, <4>3
    <3> QED
      BY <3>2, <3>3 DEF InTmp
  <2>7. SinceOnDisk' /\ CoversSoFar' /\ ListingMissesNothing'
    <3>1. nextKey \notin since
      BY <2>3 DEF ListingInv, SinceOnDisk, OnDisk
    <3>2. SinceOnDisk'
      BY <2>3, <2>4, <3>1 DEF ListingInv, SinceOnDisk, OnDisk
    <3>3. CoversSoFar'
      BY <2>2, <2>3, <2>4, <3>1 DEF ListingInv, CoversSoFar
    <3>4. ListingMissesNothing'
      BY <2>2, <2>4 DEF ListingInv, ListingMissesNothing
    <3> QED
      BY <3>2, <3>3, <3>4
  <2> QED
    BY <2>5, <2>6, <2>7 DEF ListingInv
<1>2. CASE StartReload(p)
  <2>1. /\ pc[p] = "idle" /\ pc' = [pc EXCEPT ![p] = "list"]
        /\ mu = NoProc /\ mu' = p
        /\ since' = {k \in Keys : OnDisk(k)}
        /\ scan'.found = EntriesOf("new")
        /\ UNCHANGED <<file, nextKey>>
        /\ \A q \in Procs \ {p} : job'[q] = job[q]
    BY <1>2 DEF StartReload, NoScan, DirOrder, diskVars
  <2>2. MuHeld' /\ FreshKeys' /\ InTmp'
    BY <2>1, MailboxAssumption
       DEF ListingInv, MuHeld, Critical, FreshKeys, InTmp
  <2>3. SinceOnDisk'
    BY <2>1 DEF SinceOnDisk, OnDisk
  <2>4. \A k \in Keys : file[k].dir = "new" => k \in KeysOf(scan'.found)
    <3>1. ASSUME NEW k \in Keys, file[k].dir = "new"
          PROVE  \E e \in EntriesOf("new") : e.key = k
      <4>1. [key |-> k, flags |-> file[k].flags, inNew |-> "new" = "new"]
                \in EntriesOf("new")
        BY <3>1 DEF EntriesOf
      <4> QED
        BY <4>1
    <3> QED
      BY <2>1, <3>1 DEF KeysOf
  <2>5. CoversSoFar'
    BY <2>1, <2>4 DEF CoversSoFar, OnDisk
  <2>6. ListingMissesNothing'
    BY <2>1, MailboxAssumption
       DEF ListingInv, MuHeld, Critical, ListingMissesNothing
  <2> QED
    BY <2>2, <2>3, <2>5, <2>6 DEF ListingInv
<1>3. CASE StoreFlags(p)
  <2>1. /\ pc[p] = "idle" /\ pc' = [pc EXCEPT ![p] = "dbstore"]
        /\ mu = NoProc /\ mu' = p
        /\ UNCHANGED <<file, nextKey, scan, since>>
        /\ \A q \in Procs \ {p} : job'[q] = job[q]
    BY <1>3 DEF StoreFlags, diskVars, history
  <2>2. MuHeld' /\ FreshKeys' /\ InTmp'
    BY <2>1, MailboxAssumption
       DEF ListingInv, MuHeld, Critical, FreshKeys, InTmp
  <2>3. SinceOnDisk' /\ CoversSoFar' /\ ListingMissesNothing'
    BY <2>1 DEF ListingInv, SinceOnDisk, OnDisk, CoversSoFar,
                ListingMissesNothing
  <2> QED
    BY <2>2, <2>3 DEF ListingInv
<1>4. CASE Expunge(p) \/ Purge(p)
  <2>1. PICK kind, V : StartRemoval(p, kind, V)
    BY <1>4 DEF Expunge, Purge
  <2> QED
    BY <2>1, ListingFrame DEF StartRemoval, diskVars, history, Critical
<1> QED
  BY <1>1, <1>2, <1>3, <1>4 DEF Begin

\* So do the steps of an append and of a delivery.
LEMMA ListingAppend ==
    ASSUME TypeOK, KeysKnown, ListingInv, NEW p \in Procs,
           \/ RenameToNew(p) \/ AppendInsert(p) \/ AppendDbFlags(p)
           \/ AppendLetters(p) \/ AppendPush(p)
    PROVE  ListingInv'
<1> USE DEF TypeOK, Goto, Done
<1>1. CASE RenameToNew(p)
  <2>1. /\ job[p].key \in Keys /\ file[job[p].key].dir = "tmp"
        /\ file'[job[p].key].dir = "new"
        /\ \A k \in Keys \ {job[p].key} : file'[k] = file[k]
    BY <1>1 DEF RenameToNew, KeysKnown, HasKey, ListingInv, InTmp, File
  <2>2. /\ pc[p] = "rename" /\ pc'[p] \in {"insert", "idle"}
        /\ \A q \in Procs \ {p} : pc'[q] = pc[q] /\ job'[q] = job[q]
        /\ UNCHANGED <<nextKey, mu, scan, since>>
    BY <1>1 DEF RenameToNew, history
  <2>3. MuHeld' /\ FreshKeys'
    BY <2>1, <2>2 DEF ListingInv, MuHeld, Critical, FreshKeys
  <2>4. InTmp'
    <3>1. \A q \in Procs \ {p} :
              pc[q] = "rename" => job[q].key \in Keys \ {job[p].key}
      BY <2>2 DEF ListingInv, InTmp, KeysKnown, HasKey
    <3> QED
      BY <2>1, <2>2, <3>1 DEF ListingInv, InTmp
  <2>5. SinceOnDisk' /\ CoversSoFar' /\ ListingMissesNothing'
    <3>1. job[p].key \notin since
      BY <2>1 DEF ListingInv, SinceOnDisk, OnDisk
    <3> QED
      BY <2>1, <2>2, <3>1
         DEF ListingInv, SinceOnDisk, OnDisk, CoversSoFar,
             ListingMissesNothing
  <2> QED
    BY <2>3, <2>4, <2>5 DEF ListingInv
<1>2. CASE AppendInsert(p)
  <2>1. /\ pc[p] = "insert"
        /\ \E s \in {"push", "dbflags", "idle"} : pc' = [pc EXCEPT ![p] = s]
        /\ \A q \in Procs \ {p} : job'[q] = job[q]
        /\ UNCHANGED <<file, nextKey, mu, scan, since>>
    BY <1>2 DEF AppendInsert, diskVars, history
  <2> QED
    BY <2>1, ListingFrame DEF Critical
<1>3. CASE AppendDbFlags(p) \/ AppendPush(p)
  BY <1>3, ListingFrame
     DEF AppendDbFlags, AppendPush, diskVars, history, Critical
<1>4. CASE AppendLetters(p)
  <2>1. /\ pc[p] = "letters"
        /\ \E s \in {"push", "idle"} : pc' = [pc EXCEPT ![p] = s]
        /\ \A q \in Procs \ {p} : pc'[q] = pc[q] /\ job'[q] = job[q]
        /\ UNCHANGED <<nextKey, mu, scan, since>>
    BY <1>4 DEF AppendLetters, history
  <2>2. CASE UNCHANGED file
    BY <2>1, <2>2, ListingFrame DEF Critical
  <2>3. CASE OnDisk(job[p].key) /\ SetFlags(job[p].key, job[p].flags)
    <3>1. /\ job[p].key \in Keys /\ file'[job[p].key].dir = "cur"
          /\ \A k \in Keys \ {job[p].key} : file'[k] = file[k]
      BY <1>4, <2>3 DEF AppendLetters, SetFlags, KeysKnown, HasKey
    <3>2. MuHeld' /\ FreshKeys' /\ InTmp'
      BY <2>1, <2>3, <3>1
         DEF ListingInv, MuHeld, Critical, FreshKeys, InTmp, OnDisk,
             KeysKnown, HasKey
    <3>3. SinceOnDisk' /\ CoversSoFar' /\ ListingMissesNothing'
      BY <2>1, <3>1
         DEF ListingInv, SinceOnDisk, OnDisk, CoversSoFar,
             ListingMissesNothing
    <3> QED
      BY <3>2, <3>3 DEF ListingInv
  <2> QED
    BY <1>4, <2>2, <2>3 DEF AppendLetters
<1> QED
  BY <1>1, <1>2, <1>3, <1>4

\* So do the steps of a reload.
LEMMA ListingReload ==
    ASSUME TypeOK, KeysKnown, ListingInv, NEW p \in Procs, Reload(p)
    PROVE  ListingInv'
<1> USE DEF TypeOK, Goto, Done
<1>1. CASE ListSecond(p)
  <2>1. /\ pc[p] = "list" /\ pc' = [pc EXCEPT ![p] = "prune"]
        /\ scan'.found = scan.found \cup EntriesOf("cur")
        /\ UNCHANGED <<file, nextKey, mu, job, since>>
    BY <1>1 DEF ListSecond, diskVars, history, DirOrder, Scan
  <2>2. mu = p
    BY <2>1 DEF ListingInv, MuHeld, Critical
  <2>3. MuHeld' /\ FreshKeys' /\ InTmp' /\ SinceOnDisk'
    BY <2>1 DEF ListingInv, MuHeld, Critical, FreshKeys, InTmp,
                SinceOnDisk, OnDisk
  <2>4. CoversSoFar'
    BY <2>1, <2>2 DEF ListingInv, MuHeld, Critical, CoversSoFar
  <2>5. ASSUME NEW k \in since PROVE k \in KeysOf(scan'.found)
    <3>1. CASE k \in KeysOf(scan.found)
      BY <2>1, <3>1 DEF KeysOf
    <3>2. CASE file[k].dir = "cur"
      <4>1. [key |-> k, flags |-> file[k].flags, inNew |-> "cur" = "new"]
                \in EntriesOf("cur")
        BY <3>2 DEF EntriesOf
      <4>2. \E e \in EntriesOf("cur") : e.key = k
        BY <4>1
      <4> QED
        BY <2>1, <4>2 DEF KeysOf
    <3> QED
      BY <2>1, <3>1, <3>2 DEF ListingInv, CoversSoFar
  <2>6. ListingMissesNothing'
    BY <2>1, <2>5 DEF ListingMissesNothing
  <2> QED
    BY <2>3, <2>4, <2>6 DEF ListingInv
<1>2. CASE Prune(p)
  BY <1>2, ListingFrame DEF Prune, diskVars, history, Critical
<1>3. CASE KeepListed(p) \/ AddIndexed(p) \/ AddUnindexed(p)
  <2>1. /\ pc[p] = "build" /\ UNCHANGED <<file, nextKey, mu, pc, job, since>>
    BY <1>3 DEF KeepListed, AddIndexed, AddUnindexed, Turn, List, diskVars,
                history
  <2>2. \A q \in Procs : pc[q] \notin {"list", "prune"}
    BY <2>1 DEF ListingInv, MuHeld, Critical
  <2> QED
    BY <2>1, <2>2
       DEF ListingInv, MuHeld, FreshKeys, InTmp, SinceOnDisk, OnDisk,
           CoversSoFar, ListingMissesNothing
<1>4. CASE ReloadFails(p) \/ FinishReload(p)
  <2>1. /\ pc[p] = "build" /\ pc' = [pc EXCEPT ![p] = "idle"]
        /\ mu' = NoProc /\ since' = {}
        /\ UNCHANGED <<file, nextKey>>
        /\ \A q \in Procs \ {p} : job'[q] = job[q]
    BY <1>4 DEF ReloadFails, FinishReload, Turn, diskVars
  <2>2. MuHeld' /\ FreshKeys' /\ InTmp'
    BY <2>1, MailboxAssumption
       DEF ListingInv, MuHeld, Critical, FreshKeys, InTmp
  <2> QED
    BY <2>1, <2>2
       DEF ListingInv, SinceOnDisk, CoversSoFar, ListingMissesNothing
<1> QED
  BY <1>1, <1>2, <1>3, <1>4 DEF Reload

\* So do the steps that write flags or remove messages.
LEMMA ListingChange ==
    ASSUME TypeOK, KeysKnown, ListingInv, NEW p \in Procs,
           \/ PersistRow(p) \/ PersistFile(p)
           \/ FindVictim(p) \/ Unlink(p) \/ RemoveRow(p) \/ ExpungeLocked(p)
    PROVE  ListingInv'
<1> USE DEF TypeOK, Goto, Done
<1>1. CASE PersistRow(p)
  BY <1>1, ListingFrame DEF PersistRow, diskVars, history, Critical
<1>2. CASE PersistFile(p)
  <2>1. /\ pc[p] = "file" /\ pc' = [pc EXCEPT ![p] = "idle"]
        /\ mu' = NoProc
        /\ UNCHANGED <<nextKey, scan, since>>
        /\ \A q \in Procs \ {p} : job'[q] = job[q]
    BY <1>2 DEF PersistFile, history
  <2>2. \A k \in Keys : \/ file'[k] = file[k]
                        \/ OnDisk(k) /\ file'[k].dir = "cur"
    BY <1>2 DEF PersistFile, SetFlags, KeysKnown, HasKey
  <2>3. MuHeld'
    BY <2>1, MailboxAssumption DEF ListingInv, MuHeld, Critical
  <2>4. FreshKeys' /\ InTmp'
    BY <2>1, <2>2
       DEF ListingInv, FreshKeys, InTmp, OnDisk, KeysKnown, HasKey
  <2>5. SinceOnDisk' /\ CoversSoFar' /\ ListingMissesNothing'
    BY <2>1, <2>2
       DEF ListingInv, SinceOnDisk, OnDisk, CoversSoFar, ListingMissesNothing
  <2> QED
    BY <2>3, <2>4, <2>5 DEF ListingInv
<1>3. CASE Unlink(p)
  <2>1. /\ pc[p] = "unlink"
        /\ \E s \in {"unindex", "idle"} : pc' = [pc EXCEPT ![p] = s]
        /\ UNCHANGED <<nextKey, mu, scan>>
        /\ \A q \in Procs \ {p} : job'[q] = job[q]
    BY <1>3 DEF Unlink
  <2>2. CASE UNCHANGED <<file, since>>
    BY <2>1, <2>2, ListingFrame DEF Critical
  <2>3. CASE /\ IsThere(p)
             /\ file' = [file EXCEPT ![job[p].key] = NoFile]
             /\ since' = since \ {job[p].key}
    <3>1. \A k \in Keys :
             \/ file'[k] = file[k]
             \/ k = job[p].key /\ OnDisk(k) /\ file'[k].dir = "none"
      BY <2>3, FoundOnDisk DEF NoFile
    <3>2. MuHeld' /\ FreshKeys'
      BY <2>1, <3>1 DEF ListingInv, MuHeld, Critical, FreshKeys
    <3>3. InTmp'
      BY <2>1, <3>1 DEF ListingInv, InTmp, OnDisk, KeysKnown, HasKey
    <3>4. SinceOnDisk' /\ CoversSoFar' /\ ListingMissesNothing'
      BY <2>1, <2>3, <3>1
         DEF ListingInv, SinceOnDisk, OnDisk, CoversSoFar,
             ListingMissesNothing
    <3> QED
      BY <3>2, <3>3, <3>4 DEF ListingInv
  <2> QED
    BY <1>3, <2>2, <2>3 DEF Unlink
<1>4. CASE RemoveRow(p)
  <2>1. \E s \in {"apply", "remove"} : pc' = [pc EXCEPT ![p] = s]
    BY <1>4 DEF RemoveRow
  <2> QED
    BY <1>4, <2>1, ListingFrame DEF RemoveRow, diskVars, history, Critical
<1>5. CASE ExpungeLocked(p)
  BY <1>5, ListingFrame DEF ExpungeLocked, diskVars, Critical
<1>6. CASE FindVictim(p)
  BY <1>6, ListingFrame DEF FindVictim, diskVars, history, Critical
<1> QED
  BY <1>1, <1>2, <1>3, <1>4, <1>5, <1>6

\* So do a message dropped in, a failed call and a restart.
LEMMA ListingWorld ==
    ASSUME TypeOK, KeysKnown, ListingInv,
           Drop \/ Restart \/ \E p \in Procs : IOError(p)
    PROVE  ListingInv'
<1> USE DEF TypeOK, Goto, Done
<1>1. CASE Drop
  <2>1. /\ nextKey \in Keys /\ nextKey' = nextKey + 1
        /\ file'[nextKey].dir = "cur" /\ file[nextKey].dir = "none"
        /\ \A k \in Keys \ {nextKey} : file'[k] = file[k]
        /\ UNCHANGED <<pc, job, mu, scan, since>>
    BY <1>1 DEF Drop, ListingInv, FreshKeys, Keys, history
  <2>2. MuHeld' /\ FreshKeys'
    BY <2>1 DEF ListingInv, MuHeld, FreshKeys, Keys
  <2>3. InTmp'
    <3>1. \A q \in Procs : pc[q] = "rename" =>
             /\ job[q].key \in Keys
             /\ file[job[q].key].dir = "tmp"
             /\ job[q].key # nextKey
      BY <2>1 DEF ListingInv, InTmp, KeysKnown, HasKey
    <3> QED
      BY <2>1, <3>1 DEF ListingInv, InTmp
  <2>4. SinceOnDisk'
    BY <2>1 DEF ListingInv, SinceOnDisk, OnDisk
  <2>5. nextKey \notin since
    BY <2>1 DEF ListingInv, SinceOnDisk, OnDisk
  <2>6. CoversSoFar' /\ ListingMissesNothing'
    BY <2>1, <2>5 DEF ListingInv, CoversSoFar, ListingMissesNothing
  <2> QED
    BY <2>2, <2>3, <2>4, <2>6 DEF ListingInv
<1>2. CASE Restart
  <2>1. \A p \in Procs : pc'[p] = "idle"
    BY <1>2 DEF Restart
  <2> QED
    BY <1>2, <2>1, MailboxAssumption
       DEF Restart, diskVars, ListingInv, MuHeld, Critical, FreshKeys, InTmp,
           SinceOnDisk, CoversSoFar, ListingMissesNothing
<1>3. ASSUME NEW p \in Procs, IOError(p) PROVE ListingInv'
  <2>1. /\ pc[p] # "idle" /\ pc' = [pc EXCEPT ![p] = "idle"]
        /\ UNCHANGED nextKey
        /\ \A q \in Procs \ {p} : job'[q] = job[q]
    BY <1>3 DEF IOError
  <2>2. /\ mu' = IF mu = p THEN NoProc ELSE mu
        /\ scan' = IF mu = p THEN NoScan ELSE scan
        /\ since' = IF mu = p THEN {} ELSE since
    BY <1>3 DEF IOError
  <2>3. \A k \in Keys :
            \/ file'[k] = file[k]
            \/ /\ pc[p] = "rename" /\ k = job[p].key
               /\ file[k].dir = "tmp" /\ file'[k].dir = "none"
    BY <1>3 DEF IOError, ListingInv, InTmp, KeysKnown, HasKey, NoFile
  <2>4. MuHeld'
    BY <2>1, <2>2, MailboxAssumption DEF ListingInv, MuHeld, Critical
  <2>5. FreshKeys'
    BY <2>1, <2>3 DEF ListingInv, FreshKeys
  <2>6. InTmp'
    BY <2>1, <2>3 DEF ListingInv, InTmp, KeysKnown, HasKey
  <2>7. SinceOnDisk'
    BY <2>2, <2>3 DEF ListingInv, SinceOnDisk, OnDisk
  <2>8. CoversSoFar' /\ ListingMissesNothing'
    <3>1. CASE mu = p
      BY <2>1, <2>2, <3>1
         DEF ListingInv, MuHeld, Critical, CoversSoFar, ListingMissesNothing
    <3>2. CASE mu # p
      BY <2>1, <2>2, <2>3, <3>2
         DEF ListingInv, CoversSoFar, ListingMissesNothing
    <3> QED
      BY <3>1, <3>2
  <2> QED
    BY <2>4, <2>5, <2>6, <2>7, <2>8 DEF ListingInv
<1> QED
  BY <1>1, <1>2, <1>3

\* A listing in progress has found, or will find, what was there throughout.
LEMMA ListingHolds == Spec => []ListingInv
<1>1. Init => ListingInv
  BY MailboxAssumption
     DEF Init, ListingInv, MuHeld, Critical, FreshKeys, NoFile, InTmp,
         SinceOnDisk, CoversSoFar, ListingMissesNothing
<1>2. ASSUME TypeOK, KeysKnown, ListingInv, [Next]_vars PROVE ListingInv'
  <2>1. CASE UNCHANGED vars
    BY <1>2, <2>1
       DEF vars, ListingInv, MuHeld, FreshKeys, InTmp, SinceOnDisk, OnDisk,
           CoversSoFar, ListingMissesNothing
  <2>2. ASSUME NEW p \in Procs, Continue(p) PROVE ListingInv'
    BY <1>2, <2>2, ListingAppend, ListingReload, ListingChange DEF Continue
  <2> QED
    BY <1>2, <2>1, <2>2, ListingBegin, ListingWorld DEF Next
<1> QED
  BY <1>1, <1>2, TypeCorrect, PTL DEF Spec

\* ListingMissesNothing for every instance: a reload of the folder finds every
\* message that was there throughout, whatever moves from new/ to cur/ while it
\* reads them.
THEOREM ListingsMissNothing == Spec => []ListingMissesNothing
<1>1. ListingInv => ListingMissesNothing
  BY DEF ListingInv
<1> QED
  BY <1>1, ListingHolds, PTL

-----------------------------------------------------------------------------
(* What clients are shown, when nothing is appended *)

\* The file of a key is where listings look for it, or was there; and it is
\* there no more, and never again.
Settled(k) == k < nextKey /\ file[k].dir # "tmp"
Gone(k) == k < nextKey /\ file[k].dir = "none"

Assigned(k) == \E a \in assigned : a[1] = k

\* Nothing is in the middle of an append.
NoAppends ==
    \A p \in Procs : pc[p] \notin {"insert", "dbflags", "letters", "push"}

\* A key gets one UID, and loses its row only after its file, unless EXPUNGE
\* stranded it.
UidInv ==
    /\ \A k \in Keys : row[k].uid # 0 => <<k, row[k].uid>> \in assigned
    /\ \A a \in assigned :
           /\ Settled(a[1])
           /\ row[a[1]].uid # 0 \/ Gone(a[1]) \/ a[1] \in stranded
    /\ \A a, b \in assigned :
           a[1] = b[1] => a[2] = b[2] \/ a[1] \in stranded
    /\ told \subseteq assigned

\* The row of the key k has the UID u, if there is one.
RowIs(k, u) == row[k].uid \in {0, u}

\* The list has each key once, with the UID of its row, in the order of the
\* UIDs.
ListInv ==
    /\ \A i \in DOMAIN l : /\ <<l[i].key, l[i].uid>> \in assigned
                            /\ RowIs(l[i].key, l[i].uid)
    /\ \A i, j \in DOMAIN l : l[i].key = l[j].key => i = j
    /\ SortedByUid

Listed(v) == \E i \in DOMAIN l : Object(l[i]) = v

Removing(p) == pc[p] \in {"remove", "unlink", "unindex", "apply"}

\* A victim that the goroutine p has looked for, and has not dealt with yet.
Pending(p, v) == pc[p] \in {"unlink", "unindex"} /\ job[p].key = v[1]

\* What is to be removed is in the list, another goroutine has removed it, or
\* its file was missed.
Accounted(v) ==
    \/ Listed(v)
    \/ Gone(v[1]) /\ ~InList(v[1])
    \/ v[1] \in stranded

\* What is not left to be removed is looked for, removed or missed.
Handled(p, v) ==
    v \in job[p].left \/ Pending(p, v) \/ Gone(v[1]) \/ v[1] \in stranded

VictimsOf(p) ==
    /\ ~Removing(p) => job[p].victims = {}
    /\ job[p].left \subseteq job[p].victims
    /\ pc[p] = "apply" => job[p].left = {}
    /\ pc[p] \in {"unlink", "unindex"} =>
           /\ \E v \in job[p].victims : v[1] = job[p].key
           /\ job[p].path = NoFile => Gone(job[p].key)
    /\ \A v \in job[p].victims : Settled(v[1]) /\ Accounted(v) /\ Handled(p, v)

VictimInv == \A p \in Procs : VictimsOf(p)

ExpungedInv == \A k \in expunged \ stranded : Gone(k) /\ ~InList(k)

Scanning == \E p \in Procs : pc[p] \in {"list", "prune", "build"}
Listing == \E p \in Procs : pc[p] \in {"list", "prune"}
Building == \E p \in Procs : pc[p] = "build"

\* The files found so far: each once, though the listing reads two directories.
FoundInv ==
    /\ \A e \in scan.found : Settled(e.key)
    /\ \A d, e \in scan.found : d.key = e.key => d = e
    /\ (\E p \in Procs : pc[p] = "list") =>
           \A e \in scan.found : file[e.key].dir # "cur"
    /\ \A p \in Procs : \A v \in job[p].victims :
           v[1] \in KeysOf(scan.found) => Listed(v) \/ v[1] \in stranded
    /\ \A k \in expunged \ stranded : k \notin KeysOf(scan.found)

\* Until the rows are pruned: what has a UID and is on disk is found, and a
\* file that has had a UID has it still, or is in the list, or was stranded.
PruneInv ==
    /\ scan.list = <<>>
    /\ \A k \in Keys : Assigned(k) /\ OnDisk(k) => k \in since
    /\ \A e \in scan.found :
           Assigned(e.key) =>
               \/ InList(e.key)
               \/ row[e.key].uid # 0
               \/ e.key \in stranded

\* While the new list is built: what is listed so far is what was there, or
\* has the UID of its row; and whoever has no row has never had a UID, or was
\* stranded.
BuildInv ==
    /\ \A k \in Keys : /\ Assigned(k) /\ OnDisk(k) => k \in KeysOf(scan.found)
                       /\ row[k].uid # 0 => k \in KeysOf(scan.found)
    /\ scan.todo \subseteq scan.found
    /\ \A k \in KeysOf(scan.found) :
           \/ k \in KeysOf(scan.todo)
           \/ \E i \in DOMAIN scan.list : scan.list[i].key = k
    /\ \A i \in DOMAIN scan.list :
           /\ <<scan.list[i].key, scan.list[i].uid>> \in assigned
           /\ RowIs(scan.list[i].key, scan.list[i].uid)
           /\ scan.list[i].key \in KeysOf(scan.found) \ KeysOf(scan.todo)
           /\ InList(scan.list[i].key) => \E j \in DOMAIN l : l[j] = scan.list[i]
    /\ \A i, j \in DOMAIN scan.list :
           scan.list[i].key = scan.list[j].key => i = j
    /\ \A e \in scan.todo : ~InList(e.key) =>
           /\ RowIs(e.key, scan.rows[e.key].uid)
           /\ IF scan.rows[e.key].uid = 0
                THEN ~Assigned(e.key) \/ e.key \in stranded
                ELSE <<e.key, scan.rows[e.key].uid>> \in assigned

ScanInv ==
    /\ Scanning => FoundInv
    /\ Listing => PruneInv
    /\ (\E p \in Procs : pc[p] = "prune") => scan.todo = scan.found
    /\ Building => BuildInv

ShownInv == UidInv /\ ListInv /\ VictimInv /\ ExpungedInv /\ ScanInv

\* Without appends, none is ever under way.
LEMMA NoAppendsStep ==
    ASSUME "append" \notin Kinds, TypeOK, KeysKnown, NoAppends, [Next]_vars
    PROVE  NoAppends'
<1> USE DEF NoAppends, Goto, Done
<1>1. \A p \in Procs : job[p].kind # "append"
  BY DEF TypeOK, Job
<1>2. pc \in [Procs -> {"idle", "rename", "insert", "dbflags", "letters",
                         "push", "list", "prune", "build", "dbstore", "file",
                         "remove", "unlink", "unindex", "apply"}]
  BY DEF TypeOK
<1>3. CASE UNCHANGED vars
  BY <1>3 DEF vars
<1>4. ASSUME NEW p \in Procs, Begin(p) PROVE NoAppends'
  BY <1>2, <1>4
     DEF Begin, Deliver, AppendMessage, StartDelivery, StartReload,
         StoreFlags, Expunge, Purge, StartRemoval
<1>5. ASSUME NEW p \in Procs, Continue(p) PROVE NoAppends'
  <2>1. CASE RenameToNew(p)
    BY <1>1, <1>2, <2>1 DEF RenameToNew
  <2>2. CASE AppendInsert(p) \/ AppendDbFlags(p) \/ AppendLetters(p) \/ AppendPush(p)
    BY <2>2 DEF AppendInsert, AppendDbFlags, AppendLetters, AppendPush
  <2>3. CASE Reload(p)
    BY <1>2, <2>3
       DEF Reload, ListSecond, Prune, KeepListed, AddIndexed, AddUnindexed,
           List, ReloadFails, FinishReload
  <2>4. CASE \/ PersistRow(p) \/ PersistFile(p) \/ FindVictim(p) \/ Unlink(p)
             \/ RemoveRow(p) \/ ExpungeLocked(p)
    BY <1>2, <2>4
       DEF PersistRow, PersistFile, FindVictim, Unlink, RemoveRow, ExpungeLocked
  <2> QED
    BY <1>5, <2>1, <2>2, <2>3, <2>4 DEF Continue
<1>6. ASSUME NEW p \in Procs, IOError(p) PROVE NoAppends'
  BY <1>2, <1>6 DEF IOError
<1>7. CASE Drop \/ Restart
  BY <1>7 DEF Drop, Restart
<1> QED
  BY <1>3, <1>4, <1>5, <1>6, <1>7 DEF Next

\* The steps of which the rest has to be shown.
LEMMA WithoutAppends ==
    ASSUME NoAppends, NEW p \in Procs, Continue(p)
    PROVE  \/ RenameToNew(p) \/ Reload(p) \/ PersistRow(p) \/ PersistFile(p)
           \/ FindVictim(p) \/ Unlink(p) \/ RemoveRow(p) \/ ExpungeLocked(p)
BY DEF NoAppends, Continue, AppendInsert, AppendDbFlags, AppendLetters,
       AppendPush

\* A file never goes back to where a delivery begins, what is gone does not
\* come again, and what was stranded is known for it.
FilesStay ==
    \A k \in Keys : (Settled(k) => Settled(k)') /\ (Gone(k) => Gone(k)')
Calm == FilesStay /\ stranded \subseteq stranded'

\* How a step may change one file.
MovesFile(k) ==
    \/ file'[k].dir = file[k].dir
    \/ file[k].dir = "tmp"
    \/ OnDisk(k) /\ file'[k].dir # "tmp"
    \/ k >= nextKey

LEMMA CalmIf ==
    ASSUME TypeOK, nextKey' \in Nat, nextKey' >= nextKey,
           \A k \in Keys : MovesFile(k)
    PROVE  FilesStay
<1> SUFFICES ASSUME NEW k \in Keys
             PROVE  (Settled(k) => Settled(k)') /\ (Gone(k) => Gone(k)')
  BY DEF FilesStay
<1>1. k \in Nat /\ nextKey \in Nat
  BY MailboxAssumption DEF TypeOK, Keys
<1> QED
  BY <1>1 DEF MovesFile, Settled, Gone, OnDisk

LEMMA FilesStayStep ==
    ASSUME TypeOK, KeysKnown, ListingInv, NoAppends, [Next]_vars
    PROVE  FilesStay
<1>1. nextKey \in Nat /\ file \in [Keys -> File] /\ MaxMsgs \in Nat
  BY MailboxAssumption DEF TypeOK
<1>2. CASE UNCHANGED <<file, nextKey>>
  BY <1>1, <1>2, CalmIf DEF MovesFile
<1>3. ASSUME nextKey' = nextKey + 1, nextKey \in Keys,
             \A k \in Keys : k # nextKey => file'[k] = file[k]
      PROVE  FilesStay
  BY <1>1, <1>3, CalmIf DEF MovesFile, Keys
<1>4. ASSUME UNCHANGED nextKey, NEW k \in Keys, NEW f,
             file' = [file EXCEPT ![k] = f],
             file[k].dir = "tmp" \/ (OnDisk(k) /\ f.dir # "tmp")
      PROVE  FilesStay
  BY <1>1, <1>4, CalmIf DEF MovesFile
<1>5. ASSUME NEW p \in Procs, Begin(p) PROVE FilesStay
  <2>1. CASE Deliver(p) \/ AppendMessage(p)
    <3>1. PICK kind, F : StartDelivery(p, kind, F)
      BY <2>1 DEF Deliver, AppendMessage
    <3> QED
      BY <1>1, <1>3, <3>1 DEF StartDelivery
  <2>2. CASE ~(Deliver(p) \/ AppendMessage(p))
    BY <1>2, <1>5, <2>2
       DEF Begin, StartReload, StoreFlags, Expunge, Purge, StartRemoval,
           diskVars
  <2> QED
    BY <2>1, <2>2
<1>6. ASSUME NEW p \in Procs, Continue(p) PROVE FilesStay
  <2>1. CASE RenameToNew(p)
    <3>1. job[p].key \in Keys /\ file[job[p].key].dir = "tmp"
      BY <2>1 DEF RenameToNew, ListingInv, InTmp, KeysKnown, HasKey
    <3>2. UNCHANGED nextKey
          /\ file' = [file EXCEPT ![job[p].key] =
                          [file[job[p].key] EXCEPT !.dir = "new"]]
      BY <2>1 DEF RenameToNew
    <3> QED
      BY <1>4, <3>1, <3>2
  <2>2. CASE PersistFile(p)
    <3>1. job[p].key \in Keys
      BY <2>2 DEF PersistFile, KeysKnown, HasKey
    <3> QED
      BY <1>2, <1>4, <2>2, <3>1 DEF PersistFile, SetFlags
  <2>3. CASE Unlink(p)
    <3>1. job[p].key \in Keys /\ UNCHANGED nextKey
      BY <2>3 DEF Unlink, KeysKnown, HasKey
    <3>2. NoFile.dir # "tmp"
      BY DEF NoFile
    <3>3. CASE IsThere(p) /\ file' = [file EXCEPT ![job[p].key] = NoFile]
      BY <1>4, <3>1, <3>2, <3>3, FoundOnDisk
    <3> QED
      BY <1>2, <2>3, <3>1, <3>3 DEF Unlink
  <2>4. CASE \/ Reload(p) \/ PersistRow(p)
             \/ FindVictim(p) \/ RemoveRow(p) \/ ExpungeLocked(p)
    BY <1>2, <2>4
       DEF Reload, ListSecond, Prune, KeepListed, AddIndexed, AddUnindexed,
           List, ReloadFails, FinishReload, PersistRow, FindVictim, RemoveRow,
           ExpungeLocked, diskVars
  <2> QED
    BY <1>6, <2>1, <2>2, <2>3, <2>4, WithoutAppends
<1>7. ASSUME NEW p \in Procs, IOError(p) PROVE FilesStay
  <2>1. CASE pc[p] = "rename"
    <3>1. job[p].key \in Keys /\ file[job[p].key].dir = "tmp"
      BY <2>1 DEF ListingInv, InTmp, KeysKnown, HasKey
    <3> QED
      BY <1>4, <1>7, <2>1, <3>1 DEF IOError
  <2>2. CASE pc[p] # "rename"
    BY <1>2, <1>7, <2>2 DEF IOError
  <2> QED
    BY <2>1, <2>2
<1>8. CASE Drop
  BY <1>1, <1>3, <1>8 DEF Drop
<1>9. CASE Restart \/ UNCHANGED vars
  BY <1>2, <1>9 DEF Restart, vars, diskVars
<1> QED
  BY <1>5, <1>6, <1>7, <1>8, <1>9 DEF Next

LEMMA CalmStep ==
    ASSUME TypeOK, KeysKnown, ListingInv, NoAppends, [Next]_vars
    PROVE  Calm
<1>1. stranded \subseteq stranded'
  <2>1. ASSUME NEW p \in Procs, Begin(p) \/ Continue(p) \/ IOError(p)
        PROVE  stranded \subseteq stranded'
    BY <2>1
       DEF Begin, Deliver, AppendMessage, StartDelivery, StartReload,
           StoreFlags, Expunge, Purge, StartRemoval, Continue, RenameToNew,
           AppendInsert, AppendDbFlags, AppendLetters, AppendPush, Reload,
           ListSecond, Prune, KeepListed, AddIndexed, AddUnindexed, List,
           ReloadFails, FinishReload, PersistRow, PersistFile, FindVictim,
           Unlink, RemoveRow, ExpungeLocked, IOError, history
  <2> QED
    BY <2>1 DEF Next, Drop, Restart, vars, history
<1> QED
  BY <1>1, FilesStayStep DEF Calm

\* What the following steps need of the types.
LEMMA ShownTypes ==
    ASSUME TypeOK
    PROVE  /\ uidNext \in Nat /\ uidNext # 0
           /\ row \in [Keys -> Row] /\ \A k \in Keys : row[k].uid \in Nat
           /\ \A e \in scan.found \cup scan.todo : e \in Entry /\ e.key \in Keys
           /\ \A i \in DOMAIN l : l[i] \in Message /\ l[i].key \in Keys
           /\ \A i \in DOMAIN scan.list :
                 scan.list[i] \in Message /\ scan.list[i].key \in Keys
           /\ \A a \in assigned : a[1] \in Keys /\ a[2] \in Nat
           /\ \A p \in Procs : \A v \in job[p].victims \cup job[p].left :
                 v[1] \in Keys
           /\ pc \in [Procs -> {"idle", "rename", "insert", "dbflags",
                                "letters", "push", "list", "prune", "build",
                                "dbstore", "file", "remove", "unlink",
                                "unindex", "apply"}]
           /\ job \in [Procs -> Job]
<1>1. /\ scan.found \subseteq Entry /\ scan.todo \subseteq Entry
      /\ scan.list \in Seq(Message)
  BY DEF TypeOK, Scan
<1>2. \A e \in Entry : e.key \in Keys
  BY DEF Entry
<1>3. \A m \in Message : m.key \in Keys
  BY DEF Message
<1>4. \A k \in Keys : row[k] \in Row /\ row[k].uid \in Nat
  BY DEF TypeOK, Row
<1>5. \A i \in DOMAIN l : l[i] \in Message
  BY DEF TypeOK
<1>6. \A i \in DOMAIN scan.list : scan.list[i] \in Message
  BY <1>1
<1>7. \A a \in assigned : a[1] \in Keys /\ a[2] \in Nat
  BY DEF TypeOK
<1>8. \A p \in Procs : \A v \in job[p].victims \cup job[p].left : v[1] \in Keys
  BY DEF TypeOK, Job, Objects
<1> QED
  BY <1>1, <1>2, <1>3, <1>4, <1>5, <1>6, <1>7, <1>8 DEF TypeOK

LEMMA UidFrame ==
    ASSUME TypeOK, UidInv, Calm, UNCHANGED <<assigned, told>>,
           \A k \in Keys : row'[k].uid = row[k].uid
    PROVE  UidInv'
<1>1. \A a \in assigned : a[1] \in Keys
  BY ShownTypes
<1> QED
  BY <1>1 DEF UidInv, Calm, FilesStay

\* InsertMessage gives the next UID to a key that has had none, or was
\* stranded.
LEMMA UidInsert ==
    ASSUME TypeOK, UidInv, Calm, UNCHANGED told, NEW k \in Keys, NEW F,
           InsertMessage(k, F), Settled(k), ~Assigned(k) \/ k \in stranded
    PROVE  UidInv'
<1>1. PICK u : u = uidNext
  OBVIOUS
<1>2. /\ row' = [row EXCEPT ![k] = [uid |-> u, flags |-> RawColumn(F)]]
      /\ assigned' = assigned \cup {<<k, u>>}
  BY <1>1 DEF InsertMessage, NextUid
<1>3. u # 0 /\ row \in [Keys -> Row]
  BY <1>1, ShownTypes
<1>4. row'[k].uid = u /\ \A j \in Keys : j # k => row'[j] = row[j]
  BY <1>2, <1>3
<1>5. Settled(k)'
  BY DEF Calm, FilesStay
<1>6. \A j \in Keys : row'[j].uid # 0 => <<j, row'[j].uid>> \in assigned'
  BY <1>2, <1>4 DEF UidInv
<1>7. ASSUME NEW a \in assigned'
      PROVE  /\ Settled(a[1])'
             /\ \/ row'[a[1]].uid # 0
                \/ Gone(a[1])'
                \/ a[1] \in stranded'
  <2>1. CASE a[1] = k
    BY <1>3, <1>4, <1>5, <2>1
  <2>2. CASE a[1] # k
    <3>1. a \in assigned /\ a[1] \in Keys
      BY <1>2, <2>2, ShownTypes
    <3> QED
      BY <1>4, <2>2, <3>1 DEF UidInv, Calm, FilesStay
  <2> QED
    BY <2>1, <2>2
<1>8. \A a, b \in assigned' : a[1] = b[1] => a[2] = b[2] \/ a[1] \in stranded'
  BY <1>2 DEF UidInv, Assigned, Calm, FilesStay
<1>9. told' \subseteq assigned'
  BY <1>2 DEF UidInv
<1> QED
  BY <1>6, <1>7, <1>8, <1>9 DEF UidInv

\* A row is deleted only where the file is gone or stranded.
LEMMA UidDelete ==
    ASSUME TypeOK, UidInv, Calm, UNCHANGED <<assigned, told>>,
           \A k \in Keys : \/ row'[k].uid = row[k].uid
                           \/ /\ row'[k].uid = 0
                              /\ Assigned(k) => Gone(k) \/ k \in stranded'
    PROVE  UidInv'
<1>1. \A k \in Keys : row'[k].uid # 0 => row'[k].uid = row[k].uid
  OBVIOUS
<1>2. ASSUME NEW a \in assigned
      PROVE  /\ Settled(a[1])'
             /\ \/ row'[a[1]].uid # 0
                \/ Gone(a[1])'
                \/ a[1] \in stranded'
  <2>1. a[1] \in Keys /\ Assigned(a[1])
    BY ShownTypes DEF Assigned
  <2>2. /\ Settled(a[1])
        /\ row[a[1]].uid # 0 \/ Gone(a[1]) \/ a[1] \in stranded
    BY DEF UidInv
  <2> QED
    BY <2>1, <2>2 DEF Calm, FilesStay
<1> QED
  BY <1>1, <1>2 DEF UidInv, Calm, FilesStay

\* What the new list shows has been given out.
LEMMA FinishShown ==
    ASSUME TypeOK, BuildInv, NEW p \in Procs, FinishReload(p)
    PROVE  /\ DOMAIN l' = DOMAIN scan.list
           /\ \A i \in DOMAIN l' : \E j \in DOMAIN scan.list :
                 l'[i] = scan.list[j]
           /\ \A j \in DOMAIN scan.list : \E i \in DOMAIN l' :
                 l'[i] = scan.list[j]
           /\ \A i \in DOMAIN l' : <<l'[i].key, l'[i].uid>> \in assigned
           /\ \A i \in DOMAIN l' : RowIs(l'[i].key, l'[i].uid)
           /\ Shown(l') \subseteq assigned
           /\ \A i, j \in DOMAIN l' : l'[i].key = l'[j].key => i = j
           /\ \A i, j \in DOMAIN l' : i < j => l'[i].uid <= l'[j].uid
<1>1. PICK s \in Seq(Message) : s = scan.list
  BY DEF TypeOK, Scan
<1>2. PICK f \in Permutation(s) :
          /\ \A i, j \in DOMAIN s : i < j => NotAfter(s[f[i]], s[f[j]])
          /\ l' = Permuted(s, f)
  BY <1>1 DEF FinishReload
<1>3. /\ DOMAIN l' = DOMAIN s
      /\ \A i \in DOMAIN s : f[i] \in DOMAIN s /\ l'[i] = s[f[i]]
      /\ \A i, j \in DOMAIN s : i # j => f[i] # f[j]
  BY <1>2 DEF Permuted, Permutation
<1>4. /\ \A i \in DOMAIN s : /\ <<s[i].key, s[i].uid>> \in assigned
                              /\ RowIs(s[i].key, s[i].uid)
      /\ \A i, j \in DOMAIN s : s[i].key = s[j].key => i = j
  BY <1>1 DEF BuildInv
<1>5. \A j \in DOMAIN s : \E i \in DOMAIN s : f[i] = j
  <2>1. PICK n \in Nat : DOMAIN s = 1..n
    BY <1>1
  <2>2. IsFiniteSet(DOMAIN s)
    BY <2>1, FS_Interval
  <2>3. f \in Injection(DOMAIN s, DOMAIN s)
    BY <1>2 DEF Permutation, Injection, IsInjective
  <2>4. f \in Surjection(DOMAIN s, DOMAIN s)
    BY <2>2, <2>3, FS_Injection
  <2> QED
    BY <2>4 DEF Surjection
<1>6. /\ \A i \in DOMAIN l' : \E j \in DOMAIN s : l'[i] = s[j]
      /\ \A j \in DOMAIN s : \E i \in DOMAIN l' : l'[i] = s[j]
  <2>1. ASSUME NEW i \in DOMAIN l'
        PROVE  \E j \in DOMAIN s : l'[i] = s[j]
    <3>1. f[i] \in DOMAIN s /\ l'[i] = s[f[i]]
      BY <1>3
    <3> QED
      BY <3>1
  <2>2. ASSUME NEW j \in DOMAIN s
        PROVE  \E i \in DOMAIN l' : l'[i] = s[j]
    <3>1. PICK i \in DOMAIN s : f[i] = j
      BY <1>5
    <3>2. i \in DOMAIN l' /\ l'[i] = s[j]
      BY <1>3, <3>1
    <3> QED
      BY <3>2
  <2> QED
    BY <2>1, <2>2
<1>7. \A i \in DOMAIN l' : <<l'[i].key, l'[i].uid>> \in assigned
  BY <1>3, <1>4
<1>8. Shown(l') \subseteq assigned
  BY <1>7 DEF Shown
<1>11. \A i \in DOMAIN l' : RowIs(l'[i].key, l'[i].uid)
  BY <1>3, <1>4
<1>9. ASSUME NEW i \in DOMAIN l', NEW j \in DOMAIN l', l'[i].key = l'[j].key
      PROVE  i = j
  <2>1. /\ i \in DOMAIN s /\ f[i] \in DOMAIN s /\ l'[i] = s[f[i]]
        /\ j \in DOMAIN s /\ f[j] \in DOMAIN s /\ l'[j] = s[f[j]]
    BY <1>3
  <2>2. f[i] = f[j]
    BY <1>4, <1>9, <2>1
  <2> QED
    BY <1>3, <2>1, <2>2
<1>10. ASSUME NEW i \in DOMAIN l', NEW j \in DOMAIN l', i < j
       PROVE  l'[i].uid <= l'[j].uid
  <2>1. i \in DOMAIN s /\ j \in DOMAIN s
    BY <1>3
  <2>2. s[f[i]].uid <= s[f[j]].uid
    BY <1>2, <1>10, <2>1 DEF NotAfter
  <2>3. l'[i] = s[f[i]] /\ l'[j] = s[f[j]]
    BY <1>3, <2>1
  <2> QED
    BY <2>2, <2>3
<1> QED
  BY <1>1, <1>3, <1>6, <1>7, <1>8, <1>9, <1>10, <1>11

\* A change of flags leaves the UIDs of the rows alone.
LEMMA PersistKeepsUids ==
    ASSUME TypeOK, KeysKnown, NEW p \in Procs, PersistRow(p), NEW k \in Keys
    PROVE  row'[k].uid = row[k].uid
<1>1. job[p].key \in Keys /\ row \in [Keys -> Row]
  BY ShownTypes DEF PersistRow, KeysKnown, HasKey
<1>2. CASE UNCHANGED row
  BY <1>2
<1>3. CASE row' = [row EXCEPT ![job[p].key].flags = job[p].flags]
  <2>1. row[job[p].key] \in Row
    BY <1>1
  <2>2. [row[job[p].key] EXCEPT !.flags = job[p].flags].uid =
            row[job[p].key].uid
    BY <2>1 DEF Row
  <2> QED
    BY <1>1, <1>3, <2>2
<1> QED
  BY <1>2, <1>3 DEF PersistRow, UpdateMessageFlags

\* The reload gives the key k a row.
NewRow(k) ==
    \E p \in Procs : /\ AddUnindexed(p)
                     /\ \E e \in scan.todo : /\ Turn(p, e) /\ IsUnindexed(e)
                                             /\ e.key = k
                                             /\ row'[k].uid = uidNext

\* Otherwise a row keeps its UID or is deleted.
LEMMA RowsStep ==
    ASSUME TypeOK, KeysKnown, NoAppends, [Next]_vars, NEW k \in Keys
    PROVE  row'[k].uid \in {0, row[k].uid} \/ NewRow(k)
<1>1. row \in [Keys -> Row]
  BY ShownTypes
<1>2. CASE UNCHANGED row
  BY <1>2
<1>3. ASSUME NEW p \in Procs, Begin(p) PROVE UNCHANGED row
  BY <1>3
     DEF Begin, Deliver, AppendMessage, StartDelivery, StartReload,
         StoreFlags, Expunge, Purge, StartRemoval, dbVars
<1>4. ASSUME NEW p \in Procs, Continue(p)
      PROVE  row'[k].uid \in {0, row[k].uid} \/ NewRow(k)
  <2>1. CASE \/ RenameToNew(p) \/ PersistFile(p) \/ FindVictim(p)
             \/ Unlink(p) \/ ExpungeLocked(p) \/ ListSecond(p)
             \/ KeepListed(p) \/ AddIndexed(p) \/ ReloadFails(p)
             \/ FinishReload(p)
    BY <1>2, <2>1
       DEF RenameToNew, PersistFile, FindVictim, Unlink, ExpungeLocked,
           ListSecond, KeepListed, AddIndexed, ReloadFails, FinishReload,
           dbVars
  <2>2. CASE PersistRow(p)
    BY <2>2, PersistKeepsUids
  <2>3. CASE RemoveRow(p)
    BY <1>1, <2>3 DEF RemoveRow, DeleteMessageByKey, NoRow
  <2>4. CASE Prune(p)
    BY <1>1, <2>4 DEF Prune, DeleteMessagesNotIn, NoRow
  <2>5. CASE AddUnindexed(p)
    <3>1. PICK e \in scan.todo : /\ Turn(p, e) /\ IsUnindexed(e)
                                 /\ InsertMessage(e.key, e.flags)
      BY <2>5 DEF AddUnindexed
    <3>2. CASE e.key = k
      <4>1. row'[k].uid = uidNext
        BY <1>1, <3>1, <3>2 DEF InsertMessage, NextUid
      <4> QED
        BY <2>5, <3>1, <3>2, <4>1 DEF NewRow
    <3>3. CASE e.key # k
      BY <1>1, <3>1, <3>3 DEF InsertMessage
    <3> QED
      BY <3>2, <3>3
  <2> QED
    BY <1>4, <2>1, <2>2, <2>3, <2>4, <2>5, WithoutAppends DEF Reload
<1>5. ASSUME NEW p \in Procs, IOError(p) PROVE UNCHANGED row
  BY <1>5 DEF IOError, dbVars
<1>6. CASE Drop \/ Restart \/ UNCHANGED vars
  BY <1>2, <1>6 DEF Drop, Restart, vars, dbVars
<1> QED
  BY <1>2, <1>3, <1>4, <1>5, <1>6 DEF Next

\* EXPUNGE deletes the row of a file that is gone, or that it has missed.
LEMMA RowRemoved ==
    ASSUME TypeOK, KeysKnown, VictimInv, NEW p \in Procs, RemoveRow(p)
    PROVE  /\ job[p].key \in Keys
           /\ row' = [row EXCEPT ![job[p].key] = NoRow]
           /\ Gone(job[p].key) \/ job[p].key \in stranded'
           /\ UNCHANGED <<file, nextKey, l, loaded, mu, scan, assigned, told,
                          since, expunged>>
<1>1. PICK v \in job[p].victims : v[1] = job[p].key
  BY DEF RemoveRow, VictimInv, VictimsOf
<1>2. v[1] \in Keys /\ Settled(v[1])
  BY ShownTypes DEF VictimInv, VictimsOf
<1>3. ~OnDisk(v[1]) => Gone(v[1])
  BY <1>2 DEF TypeOK, File, Settled, Gone, OnDisk
<1>4. job[p].path = NoFile => Gone(v[1])
  BY <1>1 DEF RemoveRow, VictimInv, VictimsOf
<1>5. /\ row' = [row EXCEPT ![job[p].key] = NoRow]
      /\ stranded' = IF OnDisk(job[p].key) /\ job[p].path # NoFile
                       THEN stranded \cup {job[p].key} ELSE stranded
      /\ UNCHANGED <<file, nextKey, l, loaded, mu, scan, assigned, told,
                     since, expunged>>
  BY DEF RemoveRow, DeleteMessageByKey, diskVars
<1> QED
  BY <1>1, <1>2, <1>3, <1>4, <1>5

LEMMA UidStep ==
    ASSUME TypeOK, KeysKnown, ListingInv, NoAppends, Calm, UidInv, VictimInv,
           ScanInv, [Next]_vars
    PROVE  UidInv'
<1>1. row \in [Keys -> Row]
  BY ShownTypes
<1>2. ASSUME UNCHANGED <<row, assigned, told>> PROVE UidInv'
  BY <1>2, UidFrame
<1>3. ASSUME NEW p \in Procs, Begin(p) PROVE UidInv'
  BY <1>2, <1>3
     DEF Begin, Deliver, AppendMessage, StartDelivery, StartReload,
         StoreFlags, Expunge, Purge, StartRemoval, dbVars, history
<1>4. ASSUME NEW p \in Procs, Continue(p) PROVE UidInv'
  <2>1. CASE \/ RenameToNew(p) \/ PersistFile(p) \/ FindVictim(p) \/ Unlink(p)
             \/ ExpungeLocked(p) \/ ListSecond(p) \/ KeepListed(p)
             \/ AddIndexed(p) \/ ReloadFails(p)
    BY <1>2, <2>1
       DEF RenameToNew, PersistFile, FindVictim, Unlink, ExpungeLocked,
           ListSecond, KeepListed, AddIndexed, List, ReloadFails, dbVars,
           history
  <2>2. CASE PersistRow(p)
    BY <2>2, PersistKeepsUids, UidFrame
       DEF PersistRow, UpdateMessageFlags, history
  <2>3. CASE RemoveRow(p)
    <3>1. \A k \in Keys : \/ row'[k].uid = row[k].uid
                          \/ /\ row'[k].uid = 0
                             /\ Gone(k) \/ k \in stranded'
      BY <1>1, <2>3, RowRemoved DEF NoRow
    <3> QED
      BY <2>3, <3>1, RowRemoved, UidDelete
  <2>4. CASE Prune(p)
    <3>1. PruneInv /\ since \subseteq KeysOf(scan.found)
      BY <2>4 DEF Prune, ScanInv, Listing, ListingInv, ListingMissesNothing
    <3>2. /\ row' = [k \in Keys |-> IF k \in ListedKeys(scan.found)
                                    THEN row[k] ELSE NoRow]
          /\ UNCHANGED <<assigned, told>>
      BY <2>4 DEF Prune, DeleteMessagesNotIn, history
    <3>3. ASSUME NEW k \in Keys, k \notin KeysOf(scan.found), Assigned(k)
          PROVE  Gone(k)
      <4>1. ~OnDisk(k)
        BY <3>1, <3>3 DEF PruneInv
      <4>2. Settled(k) /\ file[k].dir \in {"none", "tmp", "new", "cur"}
        BY <3>3 DEF UidInv, Assigned, TypeOK, File
      <4> QED
        BY <4>1, <4>2 DEF Settled, Gone, OnDisk
    <3> QED
      BY <3>2, <3>3, UidDelete DEF NoRow, ListedKeys
  <2>5. CASE AddUnindexed(p)
    <3>1. PICK e \in scan.todo : /\ Turn(p, e)
                                 /\ IsUnindexed(e)
                                 /\ InsertMessage(e.key, e.flags)
                                 /\ UNCHANGED told
      BY <2>5 DEF AddUnindexed, List, history
    <3>2. BuildInv /\ FoundInv
      BY <3>1 DEF Turn, ScanInv, Building, Scanning
    <3>3. /\ e.key \in Keys /\ Settled(e.key)
          /\ ~Assigned(e.key) \/ e.key \in stranded
      BY <3>1, <3>2, ShownTypes DEF IsUnindexed, BuildInv, FoundInv
    <3> QED
      BY <3>1, <3>3, UidInsert
  <2>6. CASE FinishReload(p)
    <3>1. BuildInv
      BY <2>6 DEF FinishReload, ScanInv, Building
    <3>2. Shown(l') \subseteq assigned
      BY <2>6, <3>1, FinishShown
    <3>3. told' = told \cup Shown(l') /\ UNCHANGED <<row, assigned>>
      BY <2>6 DEF FinishReload, dbVars
    <3>4. \A a \in assigned : a[1] \in Keys
      BY ShownTypes
    <3> QED
      BY <3>2, <3>3, <3>4 DEF UidInv, Calm, FilesStay
  <2> QED
    BY <1>4, <2>1, <2>2, <2>3, <2>4, <2>5, <2>6, WithoutAppends DEF Reload
<1>5. ASSUME NEW p \in Procs, IOError(p) PROVE UidInv'
  BY <1>2, <1>5 DEF IOError, dbVars
<1>6. CASE Drop \/ Restart \/ UNCHANGED vars
  BY <1>2, <1>6 DEF Drop, Restart, vars, dbVars, history
<1> QED
  BY <1>3, <1>4, <1>5, <1>6 DEF Next

-----------------------------------------------------------------------------

\* The same objects, in the same places.
SameList ==
    /\ DOMAIN l' = DOMAIN l
    /\ \A i \in DOMAIN l : /\ l'[i].key = l[i].key /\ l'[i].uid = l[i].uid
                           /\ l'[i].via = l[i].via

LEMMA ListFrame ==
    ASSUME ListInv, SameList, assigned \subseteq assigned',
           \A i \in DOMAIN l : row'[l[i].key].uid \in {0, l[i].uid}
    PROVE  ListInv'
BY DEF ListInv, SameList, SortedByUid, RowIs

\* No step gives a row to what is in the list.
LEMMA ListedRows ==
    ASSUME TypeOK, KeysKnown, NoAppends, ListInv, [Next]_vars,
           NEW i \in DOMAIN l
    PROVE  row'[l[i].key].uid \in {0, l[i].uid}
<1>1. l[i].key \in Keys
  BY ShownTypes
<1>2. ~NewRow(l[i].key)
  BY DEF NewRow, IsUnindexed, InList
<1> QED
  BY <1>1, <1>2, RowsStep DEF ListInv, RowIs

\* STORE changes the flags of objects, and nothing else of them.
LEMMA StoreSameList ==
    ASSUME TypeOK, NEW p \in Procs, StoreFlags(p)
    PROVE  SameList
<1>1. PICK i \in DOMAIN l, F \in SUBSET AnyFlag :
          l' = [j \in DOMAIN l |-> IF Object(l[j]) = Object(l[i])
                                   THEN [l[j] EXCEPT !.flags = F]
                                   ELSE l[j]]
  BY DEF StoreFlags
<1>2. ASSUME NEW j \in DOMAIN l
      PROVE  /\ l'[j].key = l[j].key /\ l'[j].uid = l[j].uid
             /\ l'[j].via = l[j].via
  <2>1. l[j] \in Message
    BY ShownTypes
  <2>2. l'[j] = l[j] \/ l'[j] = [l[j] EXCEPT !.flags = F]
    BY <1>1
  <2> QED
    BY <2>1, <2>2 DEF Message
<1> QED
  BY <1>1, <1>2 DEF SameList

\* EXPUNGE leaves out its victims.
LEMMA ExpungeShown ==
    ASSUME TypeOK, NEW p \in Procs, ExpungeLocked(p)
    PROVE  \E f :
               /\ \A i \in DOMAIN l' : f[i] \in DOMAIN l /\ l'[i] = l[f[i]]
               /\ \A i, j \in DOMAIN l' : i < j => f[i] < f[j]
               /\ DOMAIN l' \subseteq Nat
               /\ \A i \in DOMAIN l' : Object(l'[i]) \notin job[p].victims
               /\ \A j \in DOMAIN l : Object(l[j]) \notin job[p].victims =>
                      \E i \in DOMAIN l' : l'[i] = l[j]
<1> DEFINE kept == {i \in DOMAIN l : Object(l[i]) \notin job[p].victims}
<1>1. PICK n : n = Cardinality(kept)
  OBVIOUS
<1>2. PICK f \in [1..n -> kept] : /\ \A i, j \in 1..n : i < j => f[i] < f[j]
                                  /\ l' = [i \in 1..n |-> l[f[i]]]
  BY <1>1 DEF ExpungeLocked
<1>3. PICK m \in Nat : DOMAIN l = 1..m
  BY DEF TypeOK
<1>4. IsFiniteSet(kept) /\ n \in Nat
  <2>1. IsFiniteSet(1..m)
    BY FS_Interval
  <2>2. kept \subseteq 1..m
    BY <1>3
  <2> QED
    BY <1>1, <2>1, <2>2, FS_Subset, FS_CardinalityType
<1>5. \A j \in kept : \E i \in 1..n : f[i] = j
  <2>1. \A i, j \in 1..n : f[i] \in Int
    BY <1>2, <1>3
  <2>2. ASSUME NEW i \in 1..n, NEW j \in 1..n, f[i] = f[j] PROVE i = j
    BY <1>2, <1>4, <2>1, <2>2
  <2>3. f \in Injection(1..n, kept)
    BY <1>2, <2>2 DEF Injection, IsInjective
  <2>4. IsFiniteSet(1..n) /\ Cardinality(1..n) = n
    BY <1>4, FS_Interval
  <2>5. f \in Surjection(1..n, kept)
    BY <1>1, <1>4, <2>3, <2>4, FS_Injection
  <2> QED
    BY <2>5 DEF Surjection
<1>6. DOMAIN l' = 1..n /\ \A i \in 1..n : l'[i] = l[f[i]] /\ f[i] \in kept
  BY <1>2
<1>7. ASSUME NEW j \in DOMAIN l, Object(l[j]) \notin job[p].victims
      PROVE  \E i \in DOMAIN l' : l'[i] = l[j]
  <2>1. PICK i \in 1..n : f[i] = j
    BY <1>5, <1>7
  <2> QED
    BY <1>6, <2>1
<1> QED
  BY <1>2, <1>4, <1>6, <1>7

LEMMA ListStep ==
    ASSUME TypeOK, TypeOK', KeysKnown, NoAppends, UidNeverReused, UidInv,
           ListInv, ScanInv, [Next]_vars
    PROVE  ListInv'
<1>1. ASSUME UNCHANGED l, assigned \subseteq assigned' PROVE ListInv'
  BY <1>1, ListedRows, ListFrame DEF SameList
<1>2. assigned \subseteq assigned'
  BY IndexStep DEF IndexMoves
<1>3. ASSUME NEW p \in Procs, Begin(p) PROVE ListInv'
  BY <1>1, <1>2, <1>3, ListedRows, StoreSameList, ListFrame
     DEF Begin, Deliver, AppendMessage, StartDelivery, StartReload,
         Expunge, Purge, StartRemoval
<1>4. ASSUME NEW p \in Procs, Continue(p) PROVE ListInv'
  <2>1. CASE \/ RenameToNew(p) \/ PersistFile(p) \/ FindVictim(p) \/ Unlink(p)
             \/ RemoveRow(p) \/ PersistRow(p) \/ ListSecond(p) \/ Prune(p)
             \/ KeepListed(p) \/ AddIndexed(p) \/ AddUnindexed(p)
             \/ ReloadFails(p)
    BY <1>1, <1>2, <2>1
       DEF RenameToNew, PersistFile, FindVictim, Unlink, RemoveRow, PersistRow,
           ListSecond, Prune, KeepListed, AddIndexed, AddUnindexed, List,
           ReloadFails
  <2>2. CASE FinishReload(p)
    <3>1. BuildInv
      BY <2>2 DEF FinishReload, ScanInv, Building
    <3>2. /\ \A i \in DOMAIN l' : <<l'[i].key, l'[i].uid>> \in assigned
          /\ \A i \in DOMAIN l' : RowIs(l'[i].key, l'[i].uid)
          /\ \A i, j \in DOMAIN l' : l'[i].key = l'[j].key => i = j
          /\ \A i, j \in DOMAIN l' : i < j => l'[i].uid <= l'[j].uid
      BY <2>2, <3>1, FinishShown
    <3>3. ASSUME NEW i \in DOMAIN l', NEW j \in DOMAIN l', i < j
          PROVE  l'[i].uid < l'[j].uid
      <4>1. l'[i].uid \in Nat /\ l'[j].uid \in Nat /\ i \in Int /\ j \in Int
        <5>1. l' \in Seq(Message)
          BY DEF TypeOK
        <5>2. PICK n \in Nat : DOMAIN l' = 1..n
          BY <5>1
        <5>3. l'[i] \in Message /\ l'[j] \in Message
          BY <3>3, <5>1
        <5> QED
          BY <3>3, <5>2, <5>3 DEF Message
      <4>2. i # j
        BY <3>3, <4>1
      <4>3. l'[i].uid # l'[j].uid
        BY <3>2, <4>2 DEF UidNeverReused
      <4>4. l'[i].uid <= l'[j].uid
        BY <3>2, <3>3
      <4> QED
        BY <4>1, <4>3, <4>4
    <3>4. UNCHANGED row
      BY <2>2 DEF FinishReload, dbVars
    <3> QED
      BY <1>2, <3>2, <3>3, <3>4 DEF ListInv, SortedByUid, RowIs
  <2>3. CASE ExpungeLocked(p)
    <3>1. PICK f : /\ \A i \in DOMAIN l' : f[i] \in DOMAIN l /\ l'[i] = l[f[i]]
                   /\ \A i, j \in DOMAIN l' : i < j => f[i] < f[j]
                   /\ DOMAIN l' \subseteq Nat
      BY <2>3, ExpungeShown
    <3>2. DOMAIN l \subseteq Nat
      BY DEF TypeOK
    <3>3. ASSUME NEW i \in DOMAIN l', NEW j \in DOMAIN l', l'[i].key = l'[j].key
          PROVE  i = j
      <4>1. f[i] = f[j] /\ f[i] \in Nat /\ f[j] \in Nat /\ i \in Nat /\ j \in Nat
        BY <3>1, <3>2, <3>3 DEF ListInv
      <4>2. ~(i < j) /\ ~(j < i)
        BY <3>1, <4>1
      <4> QED
        BY <4>1, <4>2
    <3>4. SortedByUid'
      BY <3>1 DEF ListInv, SortedByUid
    <3>5. \A i \in DOMAIN l' : row'[l'[i].key].uid \in {0, l'[i].uid}
      BY <3>1, ListedRows
    <3> QED
      BY <1>2, <3>1, <3>3, <3>4, <3>5 DEF ListInv, RowIs
  <2> QED
    BY <1>4, <2>1, <2>2, <2>3, WithoutAppends DEF Reload
<1>5. ASSUME NEW p \in Procs, IOError(p) PROVE ListInv'
  BY <1>1, <1>2, <1>5 DEF IOError
<1>6. CASE Drop \/ UNCHANGED vars
  BY <1>1, <1>2, <1>6 DEF Drop, vars
<1>7. CASE Restart
  BY <1>7 DEF Restart, ListInv, SortedByUid
<1> QED
  BY <1>3, <1>4, <1>5, <1>6, <1>7 DEF Next

-----------------------------------------------------------------------------

\* A goroutine whose removal is where it was.
LEMMA VictimFrame ==
    ASSUME TypeOK, VictimInv, Calm, NEW q \in Procs,
           job'[q] = job[q], pc'[q] = pc[q],
           \A v \in job[q].victims : Accounted(v) => Accounted(v)'
    PROVE  VictimsOf(q)'
<1>1. VictimsOf(q)
  BY DEF VictimInv
<1>2. \A v \in job[q].victims : v[1] \in Keys
  BY ShownTypes
<1>3. ASSUME NEW v \in job[q].victims
      PROVE  Settled(v[1])' /\ Accounted(v)' /\ Handled(q, v)'
  BY <1>1, <1>2 DEF VictimsOf, Calm, FilesStay, Handled, Pending
<1>4. ASSUME pc[q] \in {"unlink", "unindex"}
      PROVE  /\ \E v \in job[q].victims : v[1] = job[q].key
             /\ job[q].path = NoFile => Gone(job[q].key)'
  BY <1>1, <1>2, <1>4 DEF VictimsOf, Calm, FilesStay
<1> QED
  BY <1>1, <1>3, <1>4 DEF VictimsOf, Removing

\* As long as the list has the same objects, what is in it stays in it.
LEMMA SameAccounted ==
    ASSUME TypeOK, Calm, SameList, NEW v, v[1] \in Keys, Accounted(v)
    PROVE  Accounted(v)'
BY DEF Calm, FilesStay, SameList, Accounted, Listed, InList, Object

\* What a removal removes is in the list when it begins.
LEMMA ListSettled ==
    ASSUME UidInv, ListInv, NEW i \in DOMAIN l
    PROVE  Assigned(l[i].key) /\ Settled(l[i].key)
BY DEF UidInv, ListInv, Assigned

\* The new list has what the old one had, as far as it is on disk.
LEMMA FinishAccounted ==
    ASSUME TypeOK, Calm, UidInv, ListInv, FoundInv, BuildInv,
           NEW p \in Procs, FinishReload(p),
           NEW q \in Procs, NEW v \in job[q].victims, Settled(v[1]),
           Accounted(v)
    PROVE  Accounted(v)'
<1> SUFFICES ASSUME v[1] \notin stranded PROVE Accounted(v)'
  BY DEF Accounted, Calm
<1>0. v[1] \notin stranded
  OBVIOUS
<1>1. v[1] \in Keys
  BY ShownTypes
<1>2. scan.todo = {}
  BY DEF FinishReload
<1>3. CASE v[1] \in KeysOf(scan.found)
  <2>1. PICK j \in DOMAIN l : Object(l[j]) = v
    BY <1>0, <1>3 DEF FoundInv, Listed
  <2>2. PICK i \in DOMAIN scan.list : scan.list[i].key = v[1]
    BY <1>2, <1>3 DEF BuildInv, KeysOf
  <2>3. l[j].key = v[1]
    BY <2>1 DEF Object
  <2>4. PICK h \in DOMAIN l : l[h] = scan.list[i]
    BY <2>2, <2>3 DEF BuildInv, InList
  <2>5. h = j
    BY <2>2, <2>3, <2>4 DEF ListInv
  <2>6. \E h2 \in DOMAIN l' : l'[h2] = scan.list[i]
    BY <2>2, FinishShown
  <2> QED
    BY <2>1, <2>4, <2>5, <2>6 DEF Accounted, Listed, Object
<1>4. CASE v[1] \notin KeysOf(scan.found)
  <2>1. Gone(v[1])
    <3>1. CASE Listed(v)
      <4>1. PICK j \in DOMAIN l : l[j].key = v[1]
        BY <3>1 DEF Listed, Object
      <4>2. Assigned(v[1])
        BY <4>1, ListSettled
      <4>3. ~OnDisk(v[1])
        BY <1>1, <1>4, <4>2 DEF BuildInv
      <4>4. file[v[1]].dir \in {"none", "tmp", "new", "cur"}
        BY <1>1 DEF TypeOK, File
      <4> QED
        BY <4>3, <4>4 DEF Settled, Gone, OnDisk
    <3> QED
      BY <1>0, <3>1 DEF Accounted
  <2>2. Gone(v[1])'
    BY <1>1, <2>1 DEF Calm, FilesStay
  <2>3. ASSUME NEW i \in DOMAIN l' PROVE l'[i].key # v[1]
    <3>1. PICK j \in DOMAIN scan.list : l'[i] = scan.list[j]
      BY FinishShown
    <3>2. scan.list[j].key \in KeysOf(scan.found)
      BY DEF BuildInv
    <3> QED
      BY <1>4, <3>1, <3>2
  <2> QED
    BY <2>2, <2>3 DEF Accounted, InList
<1> QED
  BY <1>3, <1>4

\* EXPUNGE takes its own victims out of the list, and leaves those of others.
LEMMA ExpungeAccounted ==
    ASSUME TypeOK, Calm, ListInv, VictimInv,
           NEW p \in Procs, ExpungeLocked(p),
           NEW v, v[1] \in Keys, Accounted(v)
    PROVE  /\ Accounted(v)'
           /\ v \in job[p].victims =>
                  v[1] \in stranded' \/ (Gone(v[1])' /\ ~InList(v[1])')
<1>0. v[1] \in stranded => v[1] \in stranded'
  BY DEF Calm
<1>1. PICK f : /\ \A i \in DOMAIN l' : f[i] \in DOMAIN l /\ l'[i] = l[f[i]]
               /\ \A i \in DOMAIN l' : Object(l'[i]) \notin job[p].victims
               /\ \A j \in DOMAIN l : Object(l[j]) \notin job[p].victims =>
                      \E i \in DOMAIN l' : l'[i] = l[j]
  BY ExpungeShown
<1>2. CASE Listed(v) /\ v \in job[p].victims /\ v[1] \notin stranded
  <2>1. PICK j \in DOMAIN l : Object(l[j]) = v
    BY <1>2 DEF Listed
  <2>2. l[j].key = v[1]
    BY <2>1 DEF Object
  <2>3. Gone(v[1])'
    BY <1>2
       DEF ExpungeLocked, VictimInv, VictimsOf, Handled, Pending, Calm,
           FilesStay
  <2>4. ASSUME NEW i \in DOMAIN l', l'[i].key = v[1] PROVE FALSE
    <3>1. f[i] = j
      BY <1>1, <2>2, <2>4 DEF ListInv
    <3> QED
      BY <1>1, <1>2, <2>1, <2>4, <3>1
  <2> QED
    BY <2>3, <2>4 DEF Accounted, InList
<1>3. CASE Listed(v) /\ v \notin job[p].victims
  <2>1. PICK j \in DOMAIN l : Object(l[j]) = v
    BY <1>3 DEF Listed
  <2>2. PICK i \in DOMAIN l' : l'[i] = l[j]
    BY <1>1, <1>3, <2>1
  <2>3. Listed(v)'
    BY <2>1, <2>2 DEF Listed, Object
  <2> QED
    BY <1>3, <2>3 DEF Accounted
<1>4. CASE ~Listed(v) /\ v[1] \notin stranded
  <2>1. Gone(v[1])' /\ \A j \in DOMAIN l : l[j].key # v[1]
    BY <1>4 DEF Accounted, InList, Calm, FilesStay
  <2>2. \A i \in DOMAIN l' : l'[i].key # v[1]
    BY <1>1, <2>1
  <2> QED
    BY <2>1, <2>2 DEF Accounted, InList
<1> QED
  BY <1>0, <1>2, <1>3, <1>4 DEF Accounted

\* A removal begins with messages of the list.
LEMMA RemovalBegins ==
    ASSUME TypeOK, TypeOK', Calm, UidInv, ListInv, NEW p \in Procs, NEW kind,
           NEW V, StartRemoval(p, kind, V), \A v \in V : Listed(v)
    PROVE  VictimsOf(p)'
<1>1. /\ job'[p].victims = V /\ job'[p].left = V /\ pc'[p] = "remove"
      /\ UNCHANGED l
  BY DEF StartRemoval, Goto, TypeOK, NoJob
<1>2. ASSUME NEW v \in V PROVE Settled(v[1])' /\ Accounted(v)'
  <2>1. PICK i \in DOMAIN l : Object(l[i]) = v
    BY DEF Listed
  <2>2. l[i].key = v[1] /\ v[1] \in Keys
    BY <2>1, ShownTypes DEF Object
  <2>3. Settled(v[1])'
    BY <2>1, <2>2, ListSettled DEF Calm, FilesStay
  <2> QED
    BY <1>1, <2>1, <2>3 DEF Accounted, Listed
<1> QED
  BY <1>1, <1>2 DEF VictimsOf, Removing, Handled

LEMMA VictimStep ==
    ASSUME TypeOK, TypeOK', KeysKnown, NoAppends, Calm, UidInv, ListInv,
           NoAppends', VictimInv, ScanInv, [Next]_vars
    PROVE  VictimInv'
<1> SUFFICES ASSUME NEW q \in Procs PROVE VictimsOf(q)'
  BY DEF VictimInv
<1>1. ASSUME SameList, NEW v \in job[q].victims, Accounted(v)
      PROVE  Accounted(v)'
  BY <1>1, ShownTypes, SameAccounted
<1>2. UNCHANGED l => SameList
  BY DEF SameList
<1>3. ASSUME SameList, job'[q] = job[q], pc'[q] = pc[q] PROVE VictimsOf(q)'
  BY <1>1, <1>3, VictimFrame
<1>4. ASSUME job'[q].victims = {}, job'[q].left = {},
             pc'[q] \notin {"remove", "unlink", "unindex", "apply"}
      PROVE  VictimsOf(q)'
  BY <1>4 DEF VictimsOf, Removing
<1>5. VictimsOf(q)
  BY DEF VictimInv
<1>6. NoJob.victims = {} /\ NoJob.left = {}
  BY DEF NoJob
<1>7. /\ pc \in [Procs -> {"idle", "rename", "insert", "dbflags",
                           "letters", "push", "list", "prune", "build",
                           "dbstore", "file", "remove", "unlink",
                           "unindex", "apply"}]
      /\ job \in [Procs -> Job]
  BY ShownTypes
<1> USE DEF Goto, Done
<1>8. ASSUME NEW p \in Procs, Done(p),
             \A v \in job[q].victims : Accounted(v) => Accounted(v)'
      PROVE  VictimsOf(q)'
  BY <1>4, <1>6, <1>7, <1>8, VictimFrame
<1>9. ASSUME NEW p \in Procs, UNCHANGED <<l, job>>, NEW s,
              pc' = [pc EXCEPT ![p] = s], ~Removing(p),
              s \notin {"remove", "unlink", "unindex", "apply"}
       PROVE  VictimsOf(q)'
  <2>1. CASE p # q
    BY <1>2, <1>3, <1>7, <1>9, <2>1
  <2>2. CASE p = q
    BY <1>4, <1>5, <1>7, <1>9, <2>2 DEF VictimsOf
  <2> QED
    BY <2>1, <2>2
<1>10. ASSUME NEW p \in Procs, Begin(p) PROVE VictimsOf(q)'
  <2>1. SameList
    BY <1>2, <1>10, StoreSameList
       DEF Begin, Deliver, AppendMessage, StartDelivery, StartReload,
           Expunge, Purge, StartRemoval
  <2>2. CASE p # q
    <3>1. job'[q] = job[q] /\ pc'[q] = pc[q]
      BY <1>7, <1>10, <2>2
         DEF Begin, Deliver, AppendMessage, StartDelivery, StartReload,
             StoreFlags, Expunge, Purge, StartRemoval
    <3> QED
      BY <1>3, <2>1, <3>1
  <2>3. CASE p = q
    <3>1. CASE Expunge(p)
      <4>1. PICK V \in SUBSET Deleted : StartRemoval(p, "expunge", V)
        BY <3>1 DEF Expunge
      <4>2. \A v \in V : Listed(v)
        BY DEF Deleted, Listed
      <4> QED
        BY <2>3, <4>1, <4>2, RemovalBegins
    <3>2. CASE Purge(p)
      <4>1. PICK i \in DOMAIN l : StartRemoval(p, "purge", {Object(l[i])})
        BY <3>2 DEF Purge
      <4>2. \A v \in {Object(l[i])} : Listed(v)
        BY DEF Listed
      <4> QED
        BY <2>3, <4>1, <4>2, RemovalBegins
    <3>3. CASE Deliver(p) \/ AppendMessage(p)
      <4>1. PICK kind, F : StartDelivery(p, kind, F)
        BY <3>3 DEF Deliver, AppendMessage
      <4> QED
        BY <1>4, <1>7, <2>3, <4>1 DEF StartDelivery, NoJob
    <3>4. CASE StoreFlags(p)
      <4>1. PICK k, F : /\ job' = [job EXCEPT ![p] =
                                      [NoJob EXCEPT !.kind = "store",
                                                    !.key = k, !.flags = F]]
                        /\ pc' = [pc EXCEPT ![p] = "dbstore"]
        BY <3>4 DEF StoreFlags
      <4> QED
        BY <1>4, <1>7, <2>3, <4>1 DEF NoJob
    <3>5. CASE StartReload(p)
      <4>1. /\ job' = [job EXCEPT ![p].kind = "poll"]
            /\ pc' = [pc EXCEPT ![p] = "list"] /\ pc[p] = "idle"
        BY <3>5 DEF StartReload
      <4>2. job[p].victims = {} /\ job[p].left = {}
        BY <1>5, <2>3, <4>1 DEF VictimsOf, Removing
      <4>3. job'[p].victims = job[p].victims /\ job'[p].left = job[p].left
        BY <1>7, <4>1 DEF Job
      <4> QED
        BY <1>4, <1>7, <2>3, <4>1, <4>2, <4>3
    <3> QED
      BY <1>10, <3>1, <3>2, <3>3, <3>4, <3>5 DEF Begin
  <2> QED
    BY <2>2, <2>3
<1>11. ASSUME NEW p \in Procs, Continue(p) PROVE VictimsOf(q)'
  <2>1. CASE RenameToNew(p)
    <3>1. UNCHANGED l /\ Done(p)
      BY <1>7, <2>1 DEF RenameToNew, NoAppends
    <3> QED
      BY <1>1, <1>2, <1>8, <3>1
  <2>2. CASE PersistFile(p) \/ ReloadFails(p)
    <3>1. UNCHANGED l /\ Done(p)
      BY <2>2 DEF PersistFile, ReloadFails
    <3> QED
      BY <1>1, <1>2, <1>8, <3>1
  <2>3. CASE ListSecond(p) \/ Prune(p) \/ PersistRow(p)
    <3>1. UNCHANGED <<l, job>> /\ ~Removing(p)
      BY <2>3 DEF ListSecond, Prune, PersistRow, Removing
    <3>2. PICK s \in {"prune", "build", "file"} : pc' = [pc EXCEPT ![p] = s]
      BY <2>3 DEF ListSecond, Prune, PersistRow
    <3> QED
      BY <1>9, <3>1, <3>2
  <2>4. CASE KeepListed(p) \/ AddIndexed(p) \/ AddUnindexed(p)
    <3>1. UNCHANGED <<l, job, pc>>
      BY <2>4 DEF KeepListed, AddIndexed, AddUnindexed, List
    <3> QED
      BY <1>2, <1>3, <3>1
  <2>5. CASE FindVictim(p)
    <3>1. UNCHANGED <<l, file, nextKey>>
      BY <2>5 DEF FindVictim, diskVars
    <3>2. PICK v \in job[p].left :
              job' = [job EXCEPT ![p].left = @ \ {v}, ![p].key = v[1],
                                 ![p].path = Find(v[1])]
      BY <2>5 DEF FindVictim
    <3>3. pc[p] = "remove" /\ pc' = [pc EXCEPT ![p] = "unlink"]
      BY <2>5 DEF FindVictim
    <3>4. CASE p # q
      BY <1>2, <1>3, <1>7, <3>1, <3>2, <3>3, <3>4
    <3>5. CASE p = q
      <4>1. /\ job'[q].victims = job[q].victims /\ pc'[q] = "unlink"
            /\ job'[q].left = job[q].left \ {v} /\ job'[q].key = v[1]
            /\ job'[q].path = Find(v[1])
        BY <1>7, <3>2, <3>3, <3>5 DEF Job
      <4>2. v \in job[q].victims /\ v[1] \in Keys /\ Settled(v[1])
        BY <1>5, <3>2, <3>5, ShownTypes DEF VictimsOf
      <4>3. Find(v[1]) = NoFile => Gone(v[1])'
        <5>1. file[v[1]].dir \in {"none", "tmp", "new", "cur"}
          BY <4>2 DEF TypeOK, File
        <5> QED
          BY <3>1, <4>2, <5>1 DEF Find, NoFile, OnDisk, Settled, Gone
      <4>4. ASSUME NEW w \in job[q].victims
            PROVE  Settled(w[1])' /\ Accounted(w)' /\ Handled(q, w)'
        <5>1. w[1] \in Keys /\ Settled(w[1]) /\ Accounted(w) /\ Handled(q, w)
          BY <1>5, ShownTypes DEF VictimsOf
        <5>2. Handled(q, w)'
          BY <3>3, <3>5, <4>1, <5>1
             DEF Handled, Pending, Calm, FilesStay
        <5> QED
          BY <1>1, <1>2, <3>1, <5>1, <5>2 DEF Calm, FilesStay
      <4>5. job[q].left \ {v} \subseteq job[q].victims
        BY <1>5 DEF VictimsOf
      <4> QED
        BY <4>1, <4>2, <4>3, <4>4, <4>5 DEF VictimsOf, Removing
    <3> QED
      BY <3>4, <3>5
  <2>6. CASE RemoveRow(p)
    <3>1. /\ UNCHANGED l /\ pc[p] = "unindex"
          /\ pc' = [pc EXCEPT ![p] = IF job[p].left = {} THEN "apply"
                                                         ELSE "remove"]
          /\ job' = [job EXCEPT ![p].key = 0, ![p].path = NoFile]
      BY <2>6 DEF RemoveRow
    <3>2. CASE p # q
      BY <1>2, <1>3, <1>7, <3>1, <3>2
    <3>3. CASE p = q
      <4>1. /\ job'[q].victims = job[q].victims
            /\ job'[q].left = job[q].left
            /\ pc'[q] \in {"apply", "remove"}
            /\ pc'[q] = "apply" => job[q].left = {}
        BY <1>7, <3>1, <3>3 DEF Job
      <4>2. ASSUME NEW w \in job[q].victims
            PROVE  Settled(w[1])' /\ Accounted(w)' /\ Handled(q, w)'
        <5>1. w[1] \in Keys /\ Settled(w[1]) /\ Accounted(w) /\ Handled(q, w)
          BY <1>5, ShownTypes DEF VictimsOf
        <5>2. Pending(q, w) => Gone(w[1]) \/ w[1] \in stranded'
          BY <2>6, <3>3, RowRemoved DEF Pending
        <5>3. Handled(q, w)'
          BY <4>1, <5>1, <5>2 DEF Handled, Calm, FilesStay
        <5> QED
          BY <1>1, <1>2, <3>1, <5>1, <5>3 DEF Calm, FilesStay
      <4> QED
        BY <1>5, <4>1, <4>2 DEF VictimsOf, Removing
    <3> QED
      BY <3>2, <3>3
  <2>7. CASE FinishReload(p)
    <3>1. Done(p) /\ FoundInv /\ BuildInv
      BY <2>7 DEF FinishReload, ScanInv, Building, Scanning
    <3>2. ASSUME NEW v \in job[q].victims, Accounted(v) PROVE Accounted(v)'
      <4>1. Settled(v[1])
        BY <1>5 DEF VictimsOf
      <4> QED
        BY <2>7, <3>1, <3>2, <4>1, FinishAccounted
    <3> QED
      BY <1>8, <3>1, <3>2
  <2>8. CASE ExpungeLocked(p)
    <3>1. Done(p)
      BY <2>8 DEF ExpungeLocked
    <3>2. ASSUME NEW v \in job[q].victims, Accounted(v) PROVE Accounted(v)'
      BY <2>8, <3>2, ShownTypes, ExpungeAccounted
    <3> QED
      BY <1>8, <3>1, <3>2
  <2>9. CASE Unlink(p)
    <3>1. UNCHANGED l
      BY <2>9 DEF Unlink
    <3>2. CASE Done(p)
      BY <1>1, <1>2, <1>8, <3>1, <3>2
    <3>3. CASE UNCHANGED job /\ pc' = [pc EXCEPT ![p] = "unindex"]
      <4>1. CASE p # q
        BY <1>2, <1>3, <1>7, <3>1, <3>3, <4>1
      <4>2. CASE p = q
        <5>1. pc[q] = "unlink" /\ pc'[q] = "unindex" /\ job'[q] = job[q]
          BY <1>7, <2>9, <3>3, <4>2 DEF Unlink
        <5>2. ASSUME NEW w \in job[q].victims
              PROVE  Settled(w[1])' /\ Accounted(w)' /\ Handled(q, w)'
          <6>1. w[1] \in Keys /\ Settled(w[1]) /\ Accounted(w) /\ Handled(q, w)
            BY <1>5, ShownTypes DEF VictimsOf
          <6>2. Handled(q, w)'
            BY <5>1, <6>1 DEF Handled, Pending, Calm, FilesStay
          <6> QED
            BY <1>1, <1>2, <3>1, <6>1, <6>2 DEF Calm, FilesStay
        <5>3. PICK v \in job[q].victims : v[1] = job[q].key
          BY <1>5, <5>1 DEF VictimsOf
        <5>4. job[q].path = NoFile => Gone(job[q].key)'
          BY <1>5, <5>1, <5>3, ShownTypes DEF VictimsOf, Calm, FilesStay
        <5> QED
          BY <1>5, <5>1, <5>2, <5>3, <5>4 DEF VictimsOf, Removing
      <4> QED
        BY <4>1, <4>2
    <3> QED
      BY <2>9, <3>2, <3>3 DEF Unlink
  <2> QED
    BY <1>11, <2>1, <2>2, <2>3, <2>4, <2>5, <2>6, <2>7, <2>8, <2>9,
       WithoutAppends
       DEF Reload
<1>12. ASSUME NEW p \in Procs, IOError(p) PROVE VictimsOf(q)'
  BY <1>1, <1>2, <1>8, <1>12 DEF IOError
<1>13. CASE Drop \/ UNCHANGED vars
  BY <1>2, <1>3, <1>13 DEF Drop, vars
<1>14. CASE Restart
  BY <1>4, <1>6, <1>14 DEF Restart
<1> QED
  BY <1>10, <1>11, <1>12, <1>13, <1>14 DEF Next

\* An expunged message cannot come back: it is nowhere on disk, nor in a listing
\* that is under way.
LEMMA ExpungedStep ==
    ASSUME TypeOK, TypeOK', KeysKnown, NoAppends, Calm, ListInv, VictimInv,
           ExpungedInv, ScanInv, [Next]_vars
    PROVE  ExpungedInv'
<1>1. expunged \subseteq Keys
  BY DEF TypeOK
<1>2. ASSUME UNCHANGED expunged, NEW k \in expunged \ stranded,
             \A i \in DOMAIN l' : \E j \in DOMAIN l : l'[i].key = l[j].key
      PROVE  Gone(k)' /\ ~InList(k)'
  BY <1>1, <1>2 DEF ExpungedInv, InList, Calm, FilesStay
<1>3. ASSUME UNCHANGED expunged, SameList PROVE ExpungedInv'
  BY <1>2, <1>3 DEF ExpungedInv, SameList, Calm
<1>4. UNCHANGED l => SameList
  BY DEF SameList
<1>5. ASSUME NEW p \in Procs, Begin(p) PROVE ExpungedInv'
  BY <1>3, <1>4, <1>5, StoreSameList
     DEF Begin, Deliver, AppendMessage, StartDelivery, StartReload,
         StoreFlags, Expunge, Purge, StartRemoval, history
<1>6. ASSUME NEW p \in Procs, Continue(p) PROVE ExpungedInv'
  <2>1. CASE \/ RenameToNew(p) \/ PersistFile(p) \/ FindVictim(p) \/ Unlink(p)
             \/ RemoveRow(p) \/ PersistRow(p) \/ ListSecond(p) \/ Prune(p)
             \/ KeepListed(p) \/ AddIndexed(p) \/ AddUnindexed(p)
             \/ ReloadFails(p)
    BY <1>3, <1>4, <2>1
       DEF RenameToNew, PersistFile, FindVictim, Unlink, RemoveRow, PersistRow,
           ListSecond, Prune, KeepListed, AddIndexed, AddUnindexed, List,
           ReloadFails, history
  <2>2. CASE FinishReload(p)
    <3>1. FoundInv /\ BuildInv /\ UNCHANGED expunged
      BY <2>2 DEF FinishReload, ScanInv, Building, Scanning
    <3>2. ASSUME NEW k \in expunged \ stranded, NEW i \in DOMAIN l'
          PROVE  l'[i].key # k
      <4>1. PICK j \in DOMAIN scan.list : l'[i] = scan.list[j]
        BY <2>2, <3>1, FinishShown
      <4>2. scan.list[j].key \in KeysOf(scan.found)
        BY <3>1 DEF BuildInv
      <4>3. k \notin KeysOf(scan.found)
        BY <3>1, <3>2 DEF FoundInv
      <4> QED
        BY <4>1, <4>2, <4>3
    <3> QED
      BY <1>1, <3>1, <3>2 DEF ExpungedInv, Calm, FilesStay, InList
  <2>3. CASE ExpungeLocked(p)
    <3>1. expunged' = expunged \cup {v[1] : v \in job[p].victims}
      BY <2>3 DEF ExpungeLocked
    <3>2. \A i \in DOMAIN l' : \E j \in DOMAIN l : l'[i].key = l[j].key
      BY <2>3, ExpungeShown
    <3>3. ASSUME NEW k \in expunged \ stranded
          PROVE  Gone(k)' /\ ~InList(k)'
      BY <1>1, <3>2 DEF ExpungedInv, InList, Calm, FilesStay
    <3>4. ASSUME NEW v \in job[p].victims
          PROVE  v[1] \in stranded' \/ (Gone(v[1])' /\ ~InList(v[1])')
      <4>1. v[1] \in Keys /\ Accounted(v)
        BY ShownTypes DEF VictimInv, VictimsOf
      <4> QED
        BY <2>3, <4>1, ExpungeAccounted
    <3> QED
      BY <3>1, <3>3, <3>4 DEF ExpungedInv, Calm
  <2> QED
    BY <1>6, <2>1, <2>2, <2>3, WithoutAppends DEF Reload
<1>7. ASSUME NEW p \in Procs, IOError(p) PROVE ExpungedInv'
  BY <1>3, <1>4, <1>7 DEF IOError
<1>8. CASE Drop \/ UNCHANGED vars
  BY <1>3, <1>4, <1>8 DEF Drop, vars, history
<1>9. CASE Restart
  BY <1>1, <1>9 DEF Restart, ExpungedInv, InList, Calm, FilesStay
<1> QED
  BY <1>5, <1>6, <1>7, <1>8, <1>9 DEF Next

-----------------------------------------------------------------------------

Phases == {"list", "prune", "build"}

\* Nothing is to be shown when no listing is under way.
LEMMA ScanIdle ==
    ASSUME \A q \in Procs : pc'[q] \notin Phases
    PROVE  ScanInv'
BY DEF ScanInv, Scanning, Listing, Building, Phases

\* A step of a goroutine that does not hold mu does not disturb the reload: it
\* brings no file back, gives no row, and takes rows of files that are in the
\* list or stranded.
LEMMA ScanFrame ==
    ASSUME TypeOK, UidInv, ScanInv, Calm,
           UNCHANGED <<scan, l, assigned, expunged>>,
           \A q \in Procs : pc'[q] \in Phases => pc'[q] = pc[q],
           \A q \in Procs : job'[q].victims \subseteq job[q].victims,
           \A k \in Keys : Settled(k) =>
               /\ OnDisk(k)' => OnDisk(k)
               /\ file'[k].dir = "cur" => file[k].dir = "cur"
               /\ OnDisk(k)' /\ k \in since => k \in since',
           \A k \in Keys : row'[k].uid \in {0, row[k].uid},
           Listing => \A k \in KeysOf(scan.found) :
               row'[k].uid = row[k].uid \/ InList(k) \/ k \in stranded'
    PROVE  ScanInv'
<1>1. /\ \A e \in scan.found : e.key \in Keys
      /\ \A a \in assigned : a[1] \in Keys
  BY ShownTypes
<1>2. /\ Scanning' => Scanning
      /\ Listing' => Listing
      /\ Building' => Building
      /\ (\E q \in Procs : pc'[q] = "prune") => \E q \in Procs : pc[q] = "prune"
      /\ (\E q \in Procs : pc'[q] = "list") => \E q \in Procs : pc[q] = "list"
  BY DEF Scanning, Listing, Building, Phases
<1>3. ASSUME Scanning, FoundInv PROVE FoundInv'
  <2>1. \A e \in scan.found : Settled(e.key)'
    BY <1>1, <1>3 DEF FoundInv, Calm, FilesStay
  <2>2. (\E q \in Procs : pc'[q] = "list") =>
            \A e \in scan.found : file'[e.key].dir # "cur"
    BY <1>1, <1>2, <1>3 DEF FoundInv
  <2>3. \A q \in Procs : \A v \in job'[q].victims :
            v[1] \in KeysOf(scan.found) => Listed(v)' \/ v[1] \in stranded'
    BY <1>3 DEF FoundInv, Listed, Calm
  <2>4. \A d, e \in scan.found : d.key = e.key => d = e
    BY <1>3 DEF FoundInv
  <2>5. \A k \in expunged \ stranded' : k \notin KeysOf(scan.found)
    BY <1>3 DEF FoundInv, Calm
  <2> QED
    BY <2>1, <2>2, <2>3, <2>4, <2>5 DEF FoundInv
<1>4. ASSUME NEW k \in Keys, Assigned(k), OnDisk(k)'
      PROVE  OnDisk(k) /\ (k \in since => k \in since')
  <2>1. Settled(k)
    BY <1>4 DEF UidInv, Assigned
  <2> QED
    BY <1>4, <2>1
<1>5. ASSUME Listing, PruneInv PROVE PruneInv'
  <2>1. \A k \in Keys : Assigned(k)' /\ OnDisk(k)' => k \in since'
    BY <1>4, <1>5 DEF PruneInv, Assigned
  <2>2. ASSUME NEW e \in scan.found, Assigned(e.key)'
        PROVE  InList(e.key)' \/ row'[e.key].uid # 0 \/ e.key \in stranded'
    BY <1>5, <2>2 DEF PruneInv, Assigned, InList, KeysOf, Calm
  <2> QED
    BY <1>5, <2>1, <2>2 DEF PruneInv
<1>6. ASSUME Building, BuildInv PROVE BuildInv'
  <2>1. \A k \in Keys : Assigned(k)' /\ OnDisk(k)' => k \in KeysOf(scan.found)
    BY <1>4, <1>6 DEF BuildInv, Assigned
  <2>2. \A k \in Keys : row'[k].uid # 0 => k \in KeysOf(scan.found)
    BY <1>6 DEF BuildInv
  <2>3. ASSUME NEW i \in DOMAIN scan.list
        PROVE  row'[scan.list[i].key].uid \in {0, scan.list[i].uid}
    <3>1. scan.list[i].key \in Keys
      BY ShownTypes
    <3> QED
      BY <1>6, <3>1 DEF BuildInv, RowIs
  <2>4. ASSUME NEW e \in scan.todo, ~InList(e.key)
        PROVE  /\ row'[e.key].uid \in {0, scan.rows[e.key].uid}
               /\ IF scan.rows[e.key].uid = 0
                    THEN ~Assigned(e.key) \/ e.key \in stranded'
                    ELSE <<e.key, scan.rows[e.key].uid>> \in assigned
    <3>1. e.key \in Keys
      BY ShownTypes
    <3> QED
      BY <1>6, <2>4, <3>1 DEF BuildInv, RowIs, Calm
  <2> QED
    BY <1>6, <2>1, <2>2, <2>3, <2>4 DEF BuildInv, InList, Assigned, RowIs
<1> QED
  BY <1>2, <1>3, <1>5, <1>6 DEF ScanInv

\* What the reload adds to its list.
LEMMA BuildAdd ==
    ASSUME TypeOK, FoundInv, BuildInv, UNCHANGED <<l, file, stranded>>,
           NEW e \in scan.todo, NEW m, m.key = e.key,
           scan' = [scan EXCEPT !.todo = @ \ {e}, !.list = Append(@, m)],
           <<m.key, m.uid>> \in assigned', assigned \subseteq assigned',
           \A a \in assigned' : a \in assigned \/ a[1] = e.key,
           InList(e.key) => \E j \in DOMAIN l : l[j] = m,
           \A k \in Keys \ {e.key} : row'[k].uid = row[k].uid,
           row'[e.key].uid \in {0, m.uid}
    PROVE  BuildInv'
<1>1. PICK s \in Seq(Message) : s = scan.list
  BY DEF TypeOK, Scan
<1>2. PICK n \in Nat : DOMAIN s = 1..n
  BY <1>1
<1>3. /\ scan'.found = scan.found /\ scan'.todo = scan.todo \ {e}
      /\ scan'.rows = scan.rows /\ scan'.list = Append(s, m)
  BY <1>1 DEF TypeOK, Scan
<1>4. PICK t : t = scan'.list
  OBVIOUS
<1>5. /\ DOMAIN t = 1..(n + 1) /\ t[n + 1] = m
      /\ \A i \in 1..n : t[i] = s[i]
  <2>1. Len(s) = n
    BY <1>1, <1>2
  <2> QED
    BY <1>3, <1>4, <2>1
<1>6. e \in scan.found /\ scan.todo \subseteq scan.found
  BY DEF BuildInv
<1>7. \A d \in scan.todo \ {e} : d.key # e.key
  BY <1>6 DEF FoundInv, BuildInv
<1>8. \A k : k \in KeysOf(scan.todo) <=>
                 k = e.key \/ k \in KeysOf(scan.todo \ {e})
  BY DEF KeysOf
<1>9. e.key \notin KeysOf(scan.todo \ {e})
  BY <1>7 DEF KeysOf
<1>10. \A k : Assigned(k)' => Assigned(k) \/ k = e.key
  BY DEF Assigned
<1>11. \A k \in Keys :
           /\ Assigned(k)' /\ OnDisk(k)' => k \in KeysOf(scan.found)
           /\ row'[k].uid # 0 => k \in KeysOf(scan.found)
  BY <1>6, <1>10 DEF BuildInv, OnDisk, KeysOf
<1>12. ASSUME NEW k \in KeysOf(scan.found)
       PROVE  \/ k \in KeysOf(scan.todo \ {e})
              \/ \E i \in DOMAIN t : t[i].key = k
  <2>1. CASE k = e.key
    BY <1>2, <1>5, <2>1
  <2>2. CASE k # e.key
    <3>1. CASE k \in KeysOf(scan.todo)
      BY <1>8, <2>2, <3>1
    <3>2. CASE k \notin KeysOf(scan.todo)
      <4>1. PICK i \in 1..n : s[i].key = k
        BY <1>1, <1>2, <3>2 DEF BuildInv
      <4> QED
        BY <1>2, <1>5, <4>1
    <3> QED
      BY <3>1, <3>2
  <2> QED
    BY <2>1, <2>2
<1>13. ASSUME NEW i \in 1..n
       PROVE  /\ <<s[i].key, s[i].uid>> \in assigned
              /\ row[s[i].key].uid \in {0, s[i].uid} /\ s[i].key \in Keys
              /\ s[i].key \in KeysOf(scan.found) \ KeysOf(scan.todo)
              /\ InList(s[i].key) => \E j \in DOMAIN l : l[j] = s[i]
  BY <1>1, <1>2, ShownTypes DEF BuildInv, RowIs
<1>14. ASSUME NEW i \in DOMAIN t
       PROVE  /\ <<t[i].key, t[i].uid>> \in assigned'
              /\ row'[t[i].key].uid \in {0, t[i].uid}
              /\ t[i].key \in KeysOf(scan.found) \ KeysOf(scan.todo \ {e})
              /\ InList(t[i].key) => \E j \in DOMAIN l : l[j] = t[i]
  <2>1. CASE i \in 1..n
    <3>1. t[i] = s[i] /\ s[i].key \in Keys \ {e.key}
      BY <1>5, <1>8, <1>13, <2>1
    <3>2. row'[s[i].key].uid = row[s[i].key].uid
      BY <3>1
    <3> QED
      BY <1>8, <1>13, <2>1, <3>1, <3>2
  <2>2. CASE i = n + 1
    <3>1. t[i] = m /\ e.key \in KeysOf(scan.found)
      BY <1>5, <1>6, <2>2 DEF KeysOf
    <3> QED
      BY <1>9, <3>1
  <2> QED
    BY <1>2, <1>5, <2>1, <2>2
<1>15. ASSUME NEW i \in DOMAIN t, NEW j \in DOMAIN t, t[i].key = t[j].key
       PROVE  i = j
  <2>1. \A h \in 1..n : t[h].key # e.key
    BY <1>5, <1>8, <1>13
  <2>2. t[n + 1].key = e.key
    BY <1>5
  <2>3. \A h \in DOMAIN t : h \in 1..n \/ h = n + 1
    BY <1>2, <1>5
  <2>4. CASE i \in 1..n /\ j \in 1..n
    <3>1. s[i].key = s[j].key
      BY <1>5, <1>15, <2>4
    <3> QED
      BY <1>1, <1>2, <2>4, <3>1 DEF BuildInv
  <2> QED
    BY <1>15, <2>1, <2>2, <2>3, <2>4
<1>16. ASSUME NEW d \in scan.todo \ {e}, ~InList(d.key)
       PROVE  /\ row'[d.key].uid \in {0, scan.rows[d.key].uid}
              /\ IF scan.rows[d.key].uid = 0
                   THEN ~Assigned(d.key)' \/ d.key \in stranded
                   ELSE <<d.key, scan.rows[d.key].uid>> \in assigned'
  <2>1. /\ row[d.key].uid \in {0, scan.rows[d.key].uid} /\ d.key \in Keys
        /\ IF scan.rows[d.key].uid = 0
             THEN ~Assigned(d.key) \/ d.key \in stranded
             ELSE <<d.key, scan.rows[d.key].uid>> \in assigned
    BY <1>16, ShownTypes DEF BuildInv, RowIs
  <2> QED
    BY <1>7, <1>10, <2>1
<1>17. scan.todo \ {e} \subseteq scan.found
  BY <1>6
<1>18. \A i \in DOMAIN t :
           (\E h \in DOMAIN l' : l'[h].key = t[i].key) =>
               \E j \in DOMAIN l' : l'[j] = t[i]
  BY <1>14 DEF InList
<1>19. \A d \in scan.todo \ {e} :
           (~\E h \in DOMAIN l' : l'[h].key = d.key) => ~InList(d.key)
  BY DEF InList
<1>20. \A i \in DOMAIN scan'.list :
           /\ <<scan'.list[i].key, scan'.list[i].uid>> \in assigned'
           /\ row'[scan'.list[i].key].uid \in {0, scan'.list[i].uid}
           /\ scan'.list[i].key \in KeysOf(scan'.found) \ KeysOf(scan'.todo)
           /\ InList(scan.list[i].key)' =>
                  \E j \in DOMAIN l' : l'[j] = scan'.list[i]
  <2>1. ASSUME NEW i \in DOMAIN t
        PROVE  /\ <<t[i].key, t[i].uid>> \in assigned'
               /\ row'[t[i].key].uid \in {0, t[i].uid}
               /\ t[i].key \in KeysOf(scan'.found) \ KeysOf(scan'.todo)
               /\ (\E h \in DOMAIN l' : l'[h].key = t[i].key) =>
                      \E j \in DOMAIN l' : l'[j] = t[i]
    <3>1. KeysOf(scan'.found) \ KeysOf(scan'.todo) =
              KeysOf(scan.found) \ KeysOf(scan.todo \ {e})
      BY ONLY <1>3
    <3> QED
      BY <1>14, <1>18, <3>1
  <2> QED
    BY ONLY <1>4, <2>1 DEF InList
<1>21. \A k \in KeysOf(scan'.found) :
           \/ k \in KeysOf(scan'.todo)
           \/ \E i \in DOMAIN scan'.list : scan'.list[i].key = k
  BY <1>3, <1>4, <1>12
<1>22. \A d \in scan'.todo : (~InList(d.key))' =>
           /\ row'[d.key].uid \in {0, scan'.rows[d.key].uid}
           /\ IF scan'.rows[d.key].uid = 0
                THEN ~Assigned(d.key)' \/ d.key \in stranded'
                ELSE <<d.key, scan'.rows[d.key].uid>> \in assigned'
  <2>1. ASSUME NEW d \in scan.todo \ {e},
               ~\E h \in DOMAIN l' : l'[h].key = d.key
        PROVE  /\ row'[d.key].uid \in {0, scan.rows[d.key].uid}
               /\ IF scan.rows[d.key].uid = 0
                    THEN ~Assigned(d.key)' \/ d.key \in stranded'
                    ELSE <<d.key, scan.rows[d.key].uid>> \in assigned'
    BY <1>16, <1>19, <2>1
  <2> QED
    BY <1>3, <2>1 DEF InList
<1>23. \A i, j \in DOMAIN scan'.list :
           scan'.list[i].key = scan'.list[j].key => i = j
  <2>1. \A i, j \in DOMAIN t : t[i].key = t[j].key => i = j
    BY <1>15
  <2> QED
    BY ONLY <1>4, <2>1
<1> QED
  BY <1>3, <1>11, <1>17, <1>20, <1>21, <1>22, <1>23 DEF BuildInv, RowIs

\* The first directory is read: everything in it may be listed.
LEMMA ScanBegin ==
    ASSUME TypeOK, TypeOK', ListingInv, ListingInv', UidInv, VictimInv,
           ExpungedInv, NEW p \in Procs, StartReload(p)
    PROVE  ScanInv'
<1>1. /\ UNCHANGED <<file, nextKey, row, l, assigned, expunged, stranded>>
      /\ scan' = [NoScan EXCEPT !.found = EntriesOf("new")]
      /\ since' = {k \in Keys : OnDisk(k)}
  BY DEF StartReload, DirOrder, diskVars, dbVars
<1>2. /\ scan'.found = EntriesOf("new") /\ scan'.list = <<>>
  BY <1>1 DEF NoScan
<1>3. pc'[p] = "list" /\ mu' = p
  BY ShownTypes DEF StartReload, Goto
<1>4. \A q \in Procs : pc'[q] \in Critical => q = p
  BY <1>3 DEF ListingInv, MuHeld
<1>5. ~Building' /\ ~\E q \in Procs : pc'[q] = "prune"
  BY <1>3, <1>4 DEF Building, Critical
<1>6. ASSUME NEW e \in scan'.found
      PROVE  /\ e.key \in Keys /\ file[e.key].dir = "new"
             /\ e = [key |-> e.key, flags |-> file[e.key].flags, inNew |-> TRUE]
             /\ Settled(e.key) /\ OnDisk(e.key) /\ ~Gone(e.key)
  <2>1. PICK k \in Keys :
            /\ file[k].dir = "new"
            /\ e = [key |-> k, flags |-> file[k].flags, inNew |-> TRUE]
    BY <1>2 DEF EntriesOf
  <2>2. k < nextKey
    BY <2>1 DEF ListingInv, FreshKeys, TypeOK, Keys
  <2> QED
    BY <2>1, <2>2 DEF Settled, OnDisk, Gone
<1>7. \A q \in Procs : job'[q].victims = job[q].victims
  <2>1. job' = [job EXCEPT ![p].kind = "poll"]
    BY DEF StartReload
  <2> QED
    BY <2>1, ShownTypes DEF Job
<1>8. FoundInv'
  <2>1. \A e \in scan'.found : Settled(e.key)' /\ file'[e.key].dir # "cur"
    BY <1>1, <1>6 DEF Settled
  <2>2. \A d, e \in scan'.found : d.key = e.key => d = e
    BY <1>6
  <2>3. ASSUME NEW q \in Procs, NEW v \in job'[q].victims,
               v[1] \in KeysOf(scan'.found)
        PROVE  Listed(v)' \/ v[1] \in stranded'
    <3>1. ~Gone(v[1])
      BY <1>6, <2>3 DEF KeysOf
    <3> QED
      BY <1>1, <1>7, <3>1 DEF VictimInv, VictimsOf, Accounted, Listed
  <2>4. \A k \in expunged' \ stranded' : k \notin KeysOf(scan'.found)
    BY <1>1, <1>6 DEF ExpungedInv, KeysOf
  <2> QED
    BY <2>1, <2>2, <2>3, <2>4 DEF FoundInv
<1>9. PruneInv'
  <2>1. \A k \in Keys : OnDisk(k)' => k \in since'
    BY <1>1 DEF OnDisk
  <2>2. ASSUME NEW e \in scan'.found, Assigned(e.key)'
        PROVE  row'[e.key].uid # 0 \/ e.key \in stranded'
    BY <1>1, <1>6, <2>2 DEF UidInv, Assigned
  <2> QED
    BY <1>2, <2>1, <2>2 DEF PruneInv
<1> QED
  BY <1>5, <1>8, <1>9 DEF ScanInv

\* The second directory is read: what is in it was not found in the first.
LEMMA ScanSecond ==
    ASSUME TypeOK, TypeOK', ListingInv, ListingInv', UidInv, VictimInv,
           ExpungedInv, ScanInv, NEW p \in Procs, ListSecond(p)
    PROVE  ScanInv'
<1>1. /\ UNCHANGED <<file, nextKey, row, l, assigned, expunged, stranded,
                     since, job, mu>>
      /\ scan' = [scan EXCEPT !.found = scan.found \cup EntriesOf("cur"),
                              !.todo = scan.found \cup EntriesOf("cur")]
      /\ pc[p] = "list" /\ pc' = [pc EXCEPT ![p] = "prune"]
  BY DEF ListSecond, DirOrder, diskVars, dbVars, history, Goto
<1>2. /\ scan'.found = scan.found \cup EntriesOf("cur")
      /\ scan'.todo = scan'.found /\ scan'.list = scan.list
  BY <1>1 DEF TypeOK, Scan
<1>3. mu = p /\ pc'[p] = "prune"
  BY <1>1, ShownTypes DEF ListingInv, MuHeld, Critical
<1>4. \A q \in Procs : pc'[q] \in Critical => q = p
  BY <1>1, <1>3 DEF ListingInv, MuHeld
<1>5. ~Building' /\ ~\E q \in Procs : pc'[q] = "list"
  BY <1>3, <1>4 DEF Building, Critical
<1>6. FoundInv /\ PruneInv /\ \A e \in scan.found : file[e.key].dir # "cur"
  BY <1>1 DEF ScanInv, Scanning, Listing, FoundInv
<1>7. ASSUME NEW e \in EntriesOf("cur")
      PROVE  /\ e.key \in Keys /\ file[e.key].dir = "cur"
             /\ e = [key |-> e.key, flags |-> file[e.key].flags,
                     inNew |-> FALSE]
             /\ Settled(e.key) /\ ~Gone(e.key)
  <2>1. PICK k \in Keys :
            /\ file[k].dir = "cur"
            /\ e = [key |-> k, flags |-> file[k].flags, inNew |-> FALSE]
    BY DEF EntriesOf
  <2>2. k < nextKey
    BY <2>1 DEF ListingInv, FreshKeys, TypeOK, Keys
  <2> QED
    BY <2>1, <2>2 DEF Settled, Gone
<1>8. FoundInv'
  <2>1. \A e \in scan'.found : Settled(e.key)'
    BY <1>1, <1>2, <1>6, <1>7 DEF FoundInv, Settled
  <2>2. ASSUME NEW d \in scan'.found, NEW e \in scan'.found, d.key = e.key
        PROVE  d = e
    <3>1. CASE d \in scan.found /\ e \in scan.found
      BY <1>6, <2>2, <3>1 DEF FoundInv
    <3>2. CASE d \in EntriesOf("cur") /\ e \in EntriesOf("cur")
      BY <1>7, <2>2, <3>2
    <3> QED
      BY <1>2, <1>6, <1>7, <2>2, <3>1, <3>2
  <2>3. ASSUME NEW q \in Procs, NEW v \in job[q].victims,
               v[1] \in KeysOf(scan'.found)
        PROVE  Listed(v) \/ v[1] \in stranded
    <3>1. CASE v[1] \in KeysOf(scan.found)
      BY <1>6, <3>1 DEF FoundInv
    <3>2. CASE v[1] \notin KeysOf(scan.found)
      <4>1. ~Gone(v[1])
        BY <1>2, <1>7, <2>3, <3>2 DEF KeysOf
      <4> QED
        BY <4>1 DEF VictimInv, VictimsOf, Accounted
    <3> QED
      BY <3>1, <3>2
  <2>4. \A k \in expunged \ stranded : k \notin KeysOf(scan'.found)
    BY <1>2, <1>6, <1>7 DEF ExpungedInv, FoundInv, KeysOf
  <2> QED
    BY <1>1, <1>5, <2>1, <2>2, <2>3, <2>4 DEF FoundInv, Listed
<1>9. PruneInv'
  <2>1. \A k \in Keys : Assigned(k)' /\ OnDisk(k)' => k \in since'
    BY <1>1, <1>6 DEF PruneInv, OnDisk, Assigned
  <2>2. ASSUME NEW e \in scan'.found, Assigned(e.key)
        PROVE  InList(e.key) \/ row[e.key].uid # 0 \/ e.key \in stranded
    <3>1. CASE e \in scan.found
      BY <1>6, <2>2, <3>1 DEF PruneInv
    <3>2. CASE e \in EntriesOf("cur")
      BY <1>7, <2>2, <3>2 DEF UidInv, Assigned
    <3> QED
      BY <1>2, <3>1, <3>2
  <2>3. scan'.list = <<>>
    BY <1>2, <1>6 DEF PruneInv
  <2> QED
    BY <1>1, <2>1, <2>2, <2>3 DEF PruneInv, InList, Assigned
<1> QED
  BY <1>2, <1>5, <1>8, <1>9 DEF ScanInv

\* The rows are read and pruned.
LEMMA ScanPrune ==
    ASSUME TypeOK, TypeOK', ListingInv, ListingInv', UidInv, ScanInv,
           NEW p \in Procs, Prune(p)
    PROVE  ScanInv'
<1>1. /\ UNCHANGED <<file, nextKey, l, assigned, expunged, stranded, job, mu>>
      /\ scan' = [scan EXCEPT !.rows = row]
      /\ row' = [k \in Keys |-> IF k \in KeysOf(scan.found) THEN row[k]
                                ELSE NoRow]
      /\ pc[p] = "prune" /\ pc' = [pc EXCEPT ![p] = "build"]
  BY DEF Prune, DeleteMessagesNotIn, ListedKeys, diskVars, history, Goto
<1>2. /\ scan'.found = scan.found /\ scan'.todo = scan.todo
      /\ scan'.list = scan.list /\ scan'.rows = row
  BY <1>1 DEF TypeOK, Scan
<1>3. mu = p /\ pc'[p] = "build"
  BY <1>1, ShownTypes DEF ListingInv, MuHeld, Critical
<1>4. \A q \in Procs : pc'[q] \in Critical => q = p
  BY <1>1, <1>3 DEF ListingInv, MuHeld
<1>5. ~Listing' /\ ~\E q \in Procs : pc'[q] \in {"list", "prune"}
  BY <1>3, <1>4 DEF Listing, Critical
<1>6. /\ FoundInv /\ PruneInv /\ scan.todo = scan.found
      /\ since \subseteq KeysOf(scan.found)
  BY <1>1
     DEF ScanInv, Scanning, Listing, ListingInv, ListingMissesNothing
<1>7. FoundInv'
  BY <1>1, <1>2, <1>5, <1>6 DEF FoundInv, Listed, Settled
<1>8. BuildInv'
  <2>1. \A k \in Keys :
            /\ Assigned(k)' /\ OnDisk(k)' => k \in KeysOf(scan.found)
            /\ row'[k].uid # 0 => k \in KeysOf(scan.found)
    BY <1>1, <1>6 DEF PruneInv, Assigned, OnDisk, NoRow
  <2>2. scan'.list = <<>> /\ DOMAIN scan'.list = {}
    BY <1>2, <1>6 DEF PruneInv
  <2>3. ASSUME NEW e \in scan.todo, ~InList(e.key)
        PROVE  /\ row'[e.key].uid \in {0, row[e.key].uid}
               /\ IF row[e.key].uid = 0
                    THEN ~Assigned(e.key) \/ e.key \in stranded
                    ELSE <<e.key, row[e.key].uid>> \in assigned
    <3>1. e.key \in Keys /\ e \in scan.found
      BY <1>6, ShownTypes
    <3> QED
      BY <1>1, <1>6, <2>3, <3>1 DEF PruneInv, UidInv, NoRow
  <2>4. \A k \in KeysOf(scan'.found) : k \in KeysOf(scan'.todo)
    BY <1>2, <1>6
  <2>5. \A e \in scan'.todo : (~InList(e.key))' =>
            /\ row'[e.key].uid \in {0, scan'.rows[e.key].uid}
            /\ IF scan'.rows[e.key].uid = 0
                 THEN ~Assigned(e.key)' \/ e.key \in stranded'
                 ELSE <<e.key, scan'.rows[e.key].uid>> \in assigned'
    BY <1>1, <1>2, <2>3 DEF InList, Assigned
  <2>6. scan'.todo \subseteq scan'.found
    BY <1>2, <1>6
  <2> QED
    BY <1>2, <2>1, <2>2, <2>4, <2>5, <2>6 DEF BuildInv, RowIs
<1> QED
  BY <1>5, <1>7, <1>8 DEF ScanInv

\* An entry of the listing becomes a message of the new list.
LEMMA ScanBuild ==
    ASSUME TypeOK, TypeOK', ListingInv, ListingInv', UidInv, ListInv, Calm,
           ScanInv, NEW p \in Procs,
           KeepListed(p) \/ AddIndexed(p) \/ AddUnindexed(p)
    PROVE  ScanInv'
<1>1. PICK e, m :
          /\ e \in scan.todo
          /\ Turn(p, e) /\ m.key = e.key /\ List(e, m)
          /\ <<m.key, m.uid>> \in assigned' /\ assigned \subseteq assigned'
          /\ \A a \in assigned' : a \in assigned \/ a[1] = e.key
          /\ InList(e.key) => \E j \in DOMAIN l : l[j] = m
          /\ \A k \in Keys \ {e.key} : row'[k].uid = row[k].uid
          /\ row'[e.key].uid \in {0, m.uid}
  <2>1. CASE KeepListed(p)
    <3>1. PICK e \in scan.todo, i \in DOMAIN l :
              /\ Turn(p, e) /\ l[i].key = e.key /\ List(e, l[i])
              /\ UNCHANGED <<row, assigned>>
      BY <2>1 DEF KeepListed, dbVars
    <3>2. /\ <<l[i].key, l[i].uid>> \in assigned
          /\ row[l[i].key].uid \in {0, l[i].uid}
      BY DEF ListInv, RowIs
    <3> QED
      BY <3>1, <3>2
  <2>2. CASE AddIndexed(p)
    <3>1. PICK e \in scan.todo :
              /\ Turn(p, e) /\ ~InList(e.key) /\ scan.rows[e.key].uid # 0
              /\ List(e, NewObject(e, scan.rows[e.key].uid,
                                   scan.rows[e.key].flags))
              /\ UNCHANGED <<row, assigned>>
      BY <2>2 DEF AddIndexed, dbVars
    <3>2. /\ <<e.key, scan.rows[e.key].uid>> \in assigned
          /\ row[e.key].uid \in {0, scan.rows[e.key].uid}
      BY <3>1 DEF Turn, ScanInv, Building, BuildInv, RowIs
    <3> QED
      BY <3>1, <3>2 DEF NewObject
  <2>3. CASE AddUnindexed(p)
    <3>1. PICK e \in scan.todo :
              /\ Turn(p, e) /\ ~InList(e.key)
              /\ List(e, NewObject(e, NextUid, e.flags))
              /\ assigned' = assigned \cup {<<e.key, NextUid>>}
              /\ row' = [row EXCEPT ![e.key] = [uid |-> NextUid,
                                        flags |-> RawColumn(e.flags)]]
      BY <2>3 DEF AddUnindexed, IsUnindexed, InsertMessage
    <3>2. e.key \in Keys /\ row \in [Keys -> Row]
      BY ShownTypes
    <3> QED
      BY <3>1, <3>2 DEF NewObject
  <2> QED
    BY <2>1, <2>2, <2>3
<1>2. /\ pc[p] = "build"
      /\ UNCHANGED <<file, nextKey, l, mu, pc, job, expunged, stranded>>
      /\ scan' = [scan EXCEPT !.todo = @ \ {e}, !.list = Append(@, m)]
  BY <1>1 DEF Turn, List, diskVars, history
<1>3. FoundInv /\ BuildInv
  BY <1>2 DEF ScanInv, Scanning, Building
<1>4. BuildInv'
  BY <1>1, <1>2, <1>3, BuildAdd
<1>5. mu = p
  BY <1>2 DEF ListingInv, MuHeld, Critical
<1>6. \A q \in Procs : pc'[q] \in Phases => pc'[q] = "build"
  BY <1>2, <1>5 DEF ListingInv, MuHeld, Critical, Phases
<1>7. scan'.found = scan.found
  BY <1>2 DEF TypeOK, Scan
<1>8. FoundInv'
  BY <1>2, <1>3, <1>6, <1>7 DEF FoundInv, Listed, Settled, Phases
<1> QED
  BY <1>4, <1>6, <1>8 DEF ScanInv, Listing, Phases

\* What is found, listed and given a UID stays coherent while deliveries,
\* removals and other tools go on under a reload.
LEMMA ScanStep ==
    ASSUME TypeOK, TypeOK', KeysKnown, NoAppends, NoAppends', ListingInv,
           ListingInv', Calm, UidInv, ListInv, VictimInv, ExpungedInv, ScanInv,
           [Next]_vars
    PROVE  ScanInv'
<1>1. /\ pc \in [Procs -> {"idle", "rename", "insert", "dbflags",
                           "letters", "push", "list", "prune", "build",
                           "dbstore", "file", "remove", "unlink",
                           "unindex", "apply"}]
      /\ job \in [Procs -> Job] /\ file \in [Keys -> File]
      /\ nextKey \in Nat /\ \A k \in Keys : k \in Nat
  BY MailboxAssumption, ShownTypes DEF TypeOK, Keys
<1>2. NoJob.victims = {}
  BY DEF NoJob
<1>3. MuHeld /\ MuHeld'
  BY DEF ListingInv
<1> USE DEF Goto, Done
\* Nobody lists when mu is free, or held by a goroutine that does not.
<1>4. ASSUME NEW p \in Procs, mu = NoProc \/ mu = p,
             NEW s, s \notin Phases, pc' = [pc EXCEPT ![p] = s]
      PROVE  ScanInv'
  <2>1. \A q \in Procs \ {p} : pc[q] \notin Critical
    BY <1>3, <1>4, MailboxAssumption DEF MuHeld
  <2>2. \A q \in Procs : pc'[q] \notin Phases
    BY <1>1, <1>4, <2>1 DEF Critical, Phases
  <2> QED
    BY <2>2, ScanIdle
\* A step of p that only changes the folder on disk.
<1>5. ASSUME NEW p \in Procs, UNCHANGED <<scan, l, assigned, expunged, row>>,
             NEW s, s \notin Phases, pc' = [pc EXCEPT ![p] = s],
             \A q \in Procs : job'[q].victims \subseteq job[q].victims,
             \A k \in Keys : Settled(k) =>
                 /\ OnDisk(k)' => OnDisk(k)
                 /\ file'[k].dir = "cur" => file[k].dir = "cur"
                 /\ OnDisk(k)' /\ k \in since => k \in since'
      PROVE  ScanInv'
  <2>1. \A q \in Procs : pc'[q] \in Phases => pc'[q] = pc[q]
    BY <1>1, <1>5
  <2> QED
    BY <1>5, <2>1, ScanFrame
<1>6. ASSUME NEW p \in Procs, Begin(p) PROVE ScanInv'
  <2>1. CASE Deliver(p) \/ AppendMessage(p)
    <3>1. PICK kind, F : StartDelivery(p, kind, F)
      BY <2>1 DEF Deliver, AppendMessage
    <3>2. \A k \in Keys : Settled(k) => file'[k] = file[k]
      BY <1>1, <3>1 DEF StartDelivery, Settled
    <3>3. \A q \in Procs : job'[q].victims \subseteq job[q].victims
      BY <1>1, <3>1 DEF StartDelivery, NoJob
    <3>4. /\ UNCHANGED <<scan, l, assigned, expunged, row, since>>
          /\ pc' = [pc EXCEPT ![p] = "rename"]
      BY <3>1 DEF StartDelivery, dbVars, history
    <3> QED
      BY <1>5, <3>2, <3>3, <3>4 DEF OnDisk, Phases
  <2>2. CASE StartReload(p)
    BY <2>2, ScanBegin
  <2>3. CASE StoreFlags(p)
    <3>1. mu = NoProc /\ pc' = [pc EXCEPT ![p] = "dbstore"]
      BY <2>3 DEF StoreFlags
    <3> QED
      BY <1>4, <3>1 DEF Phases
  <2>4. CASE Expunge(p) \/ Purge(p)
    <3>1. mu = NoProc /\ pc' = [pc EXCEPT ![p] = "remove"]
      BY <2>4 DEF Expunge, Purge, StartRemoval
    <3> QED
      BY <1>4, <3>1 DEF Phases
  <2> QED
    BY <1>6, <2>1, <2>2, <2>3, <2>4 DEF Begin
<1>7. ASSUME NEW p \in Procs, Continue(p) PROVE ScanInv'
  <2>1. CASE RenameToNew(p)
    <3>1. job[p].key \in Keys /\ file[job[p].key].dir = "tmp"
      BY <2>1 DEF RenameToNew, ListingInv, InTmp, KeysKnown, HasKey
    <3>2. \A k \in Keys : Settled(k) => file'[k] = file[k]
      BY <1>1, <2>1, <3>1 DEF RenameToNew, Settled
    <3>3. /\ UNCHANGED <<scan, l, assigned, expunged, row, since>>
          /\ pc' = [pc EXCEPT ![p] = "idle"] /\ job' = [job EXCEPT ![p] = NoJob]
      BY <1>1, <2>1 DEF RenameToNew, dbVars, history, NoAppends
    <3>4. \A q \in Procs : job'[q].victims \subseteq job[q].victims
      BY <1>1, <1>2, <3>3
    <3> QED
      BY <1>5, <3>2, <3>3, <3>4 DEF OnDisk, Phases
  <2>2. CASE PersistRow(p) \/ PersistFile(p) \/ ReloadFails(p) \/ FinishReload(p)
    <3>1. pc[p] \in Critical
      BY <2>2
         DEF PersistRow, PersistFile, ReloadFails, Turn, FinishReload, Critical
    <3>2. mu = p
      BY <1>3, <3>1 DEF MuHeld
    <3>3. PICK s \in {"file", "idle"} : pc' = [pc EXCEPT ![p] = s]
      BY <2>2 DEF PersistRow, PersistFile, ReloadFails, FinishReload
    <3> QED
      BY <1>4, <3>2, <3>3 DEF Phases
  <2>3. CASE ExpungeLocked(p)
    <3>1. mu = NoProc /\ pc' = [pc EXCEPT ![p] = "idle"]
      BY <2>3 DEF ExpungeLocked
    <3> QED
      BY <1>4, <3>1 DEF Phases
  <2>4. CASE FindVictim(p)
    <3>1. /\ UNCHANGED <<scan, l, assigned, expunged, row, file, since>>
          /\ pc' = [pc EXCEPT ![p] = "unlink"]
      BY <2>4 DEF FindVictim, diskVars, dbVars, history
    <3>2. \A q \in Procs : job'[q].victims \subseteq job[q].victims
      BY <1>1, <2>4 DEF FindVictim
    <3> QED
      BY <1>5, <3>1, <3>2 DEF OnDisk, Phases
  <2>5. CASE Unlink(p)
    <3>1. UNCHANGED <<scan, l, assigned, expunged, row>>
      BY <2>5 DEF Unlink, dbVars
    <3>2. PICK s \in {"unindex", "idle"} : pc' = [pc EXCEPT ![p] = s]
      BY <2>5 DEF Unlink
    <3>3. \A q \in Procs : job'[q].victims \subseteq job[q].victims
      BY <1>1, <1>2, <2>5 DEF Unlink
    <3>4. \/ UNCHANGED <<file, since>>
          \/ /\ file' = [file EXCEPT ![job[p].key] = NoFile]
             /\ since' = since \ {job[p].key}
      BY <2>5 DEF Unlink
    <3>5. ASSUME NEW k \in Keys
          PROVE  /\ OnDisk(k)' => OnDisk(k)
                 /\ file'[k].dir = "cur" => file[k].dir = "cur"
                 /\ OnDisk(k)' /\ k \in since => k \in since'
      BY <1>1, <3>4 DEF OnDisk, NoFile
    <3> QED
      BY <1>5, <3>1, <3>2, <3>3, <3>5 DEF Phases
  <2>6. CASE RemoveRow(p)
    <3>1. /\ UNCHANGED <<scan, l, assigned, expunged, file, since>>
          /\ row' = [row EXCEPT ![job[p].key] = NoRow]
          /\ pc[p] = "unindex"
      BY <2>6, RowRemoved DEF RemoveRow
    <3>2. PICK s \in {"apply", "remove"} : pc' = [pc EXCEPT ![p] = s]
      BY <2>6 DEF RemoveRow
    <3>3. \A q \in Procs : pc'[q] \in Phases => pc'[q] = pc[q]
      BY <1>1, <3>2 DEF Phases
    <3>4. PICK v \in job[p].victims : v[1] = job[p].key
      BY <3>1 DEF VictimInv, VictimsOf
    <3>5. row \in [Keys -> Row]
      BY ShownTypes
    <3>6. \A k \in Keys : row'[k].uid \in {0, row[k].uid}
      BY <3>1, <3>5 DEF NoRow
    <3>7. ASSUME Listing, NEW k \in KeysOf(scan.found)
          PROVE  row'[k].uid = row[k].uid \/ InList(k) \/ k \in stranded'
      <4>1. k \in Keys
        BY ShownTypes DEF KeysOf
      <4>2. CASE k = job[p].key
        <5>1. FoundInv
          BY <3>7 DEF Listing, Scanning, ScanInv
        <5>2. Listed(v) \/ v[1] \in stranded
          BY <3>4, <3>7, <4>2, <5>1 DEF FoundInv
        <5>3. Listed(v) => InList(k)
          BY <3>4, <4>2 DEF Listed, InList, Object
        <5> QED
          BY <3>4, <4>2, <5>2, <5>3 DEF Calm
      <4>3. CASE k # job[p].key
        BY <3>1, <3>5, <4>1, <4>3
      <4> QED
        BY <4>2, <4>3
    <3>8. \A q \in Procs : job'[q].victims \subseteq job[q].victims
      BY <1>1, <2>6 DEF RemoveRow
    <3>9. \A k \in Keys : Settled(k) =>
              /\ OnDisk(k)' => OnDisk(k)
              /\ file'[k].dir = "cur" => file[k].dir = "cur"
              /\ OnDisk(k)' /\ k \in since => k \in since'
      BY <3>1 DEF OnDisk
    <3> QED
      BY <3>1, <3>3, <3>6, <3>7, <3>8, <3>9, ScanFrame
  <2> QED
    BY <1>7, <2>1, <2>2, <2>3, <2>4, <2>5, <2>6, WithoutAppends, ScanSecond,
       ScanPrune, ScanBuild DEF Reload
<1>8. ASSUME NEW p \in Procs, IOError(p) PROVE ScanInv'
  <2>1. pc' = [pc EXCEPT ![p] = "idle"] /\ job' = [job EXCEPT ![p] = NoJob]
    BY <1>8 DEF IOError
  <2>2. CASE mu = p
    BY <1>4, <2>1, <2>2 DEF Phases
  <2>3. CASE mu # p
    <3>1. UNCHANGED <<scan, l, assigned, expunged, row, since>>
      BY <1>8, <2>3 DEF IOError, dbVars
    <3>2. ASSUME NEW k \in Keys, Settled(k) PROVE file'[k] = file[k]
      <4>1. CASE pc[p] = "rename"
        <5>1. job[p].key \in Keys /\ file[job[p].key].dir = "tmp"
          BY <4>1 DEF ListingInv, InTmp, KeysKnown, HasKey
        <5> QED
          BY <1>1, <1>8, <3>2, <4>1, <5>1 DEF IOError, Settled
      <4>2. CASE pc[p] # "rename"
        BY <1>8, <4>2 DEF IOError
      <4> QED
        BY <4>1, <4>2
    <3>3. \A q \in Procs : job'[q].victims \subseteq job[q].victims
      BY <1>1, <1>2, <2>1
    <3> QED
      BY <1>5, <2>1, <3>1, <3>2, <3>3 DEF OnDisk, Phases
  <2> QED
    BY <2>2, <2>3
<1>9. CASE Drop \/ UNCHANGED vars
  <2>1. UNCHANGED <<scan, l, assigned, expunged, row, since, pc, job>>
    BY <1>9 DEF Drop, vars, dbVars, history
  <2>2. \A k \in Keys : Settled(k) => file'[k] = file[k]
    BY <1>1, <1>9 DEF Drop, vars, Settled
  <2>3. \A k \in Keys : Settled(k) =>
            /\ OnDisk(k)' => OnDisk(k)
            /\ file'[k].dir = "cur" => file[k].dir = "cur"
            /\ OnDisk(k)' /\ k \in since => k \in since'
    BY <2>1, <2>2 DEF OnDisk
  <2> QED
    BY <2>1, <2>3, ScanFrame
<1>10. CASE Restart
  <2>1. \A q \in Procs : pc'[q] \notin Phases
    BY <1>10 DEF Restart, Phases
  <2> QED
    BY <2>1, ScanIdle
<1> QED
  BY <1>6, <1>7, <1>8, <1>9, <1>10 DEF Next

-----------------------------------------------------------------------------

LEMMA ShownInit == Init => NoAppends /\ ShownInv
<1> SUFFICES ASSUME Init PROVE NoAppends /\ ShownInv
  OBVIOUS
<1> USE DEF Init
<1>1. NoAppends
  BY DEF NoAppends
<1>2. UidInv /\ ListInv /\ ExpungedInv
  BY DEF UidInv, ListInv, SortedByUid, ExpungedInv, NoRow
<1>3. VictimInv
  BY DEF VictimInv, VictimsOf, Removing, NoJob
<1>4. ScanInv
  BY DEF ScanInv, Scanning, Listing, Building
<1> QED
  BY <1>1, <1>2, <1>3, <1>4 DEF ShownInv

\* The inductive invariant that the properties of the list rest on.
LEMMA ShownHolds ==
    ASSUME "append" \notin Kinds
    PROVE  Spec => [](TypeOK /\ UidNeverReused /\ ListingInv /\ ShownInv)
<1>1. ASSUME TypeOK, TypeOK', KeysKnown, ListingInv, ListingInv',
             UidNeverReused, NoAppends, ShownInv, [Next]_vars
      PROVE  NoAppends' /\ ShownInv'
  <2>1. UidInv /\ ListInv /\ VictimInv /\ ExpungedInv /\ ScanInv
    BY <1>1 DEF ShownInv
  <2>2. NoAppends' /\ Calm
    BY <1>1, NoAppendsStep, CalmStep
  <2>3. UidInv' /\ ListInv'
    BY <1>1, <2>1, <2>2, UidStep, ListStep
  <2>4. VictimInv' /\ ExpungedInv'
    BY <1>1, <2>1, <2>2, VictimStep, ExpungedStep
  <2>5. ScanInv'
    BY <1>1, <2>1, <2>2, ScanStep
  <2> QED
    BY <2>2, <2>3, <2>4, <2>5 DEF ShownInv
<1> QED
  BY <1>1, ShownInit, TypeCorrect, ListingHolds, UidsAreNeverReused, PTL
     DEF Spec

\* UidStable for every instance in which nothing is appended, but for what
\* EXPUNGE stranded: deliveries, removals, other tools, failures and restarts
\* give no other message that was shown a second UID.  With appends, the run
\* MailboxUidChanges shows how one gets two.
THEOREM UidsStayTheSame ==
    ASSUME "append" \notin Kinds
    PROVE  Spec => [](\A a, b \in told :
                         a[1] = b[1] => a[2] = b[2] \/ a[1] \in stranded)
<1> DEFINE Stable == \A a, b \in told :
                        a[1] = b[1] => a[2] = b[2] \/ a[1] \in stranded
<1>1. ShownInv => Stable
  BY DEF ShownInv, UidInv
<1> QED
  BY <1>1, ShownHolds, PTL

\* ListAgreesWithIndex for every instance in which nothing is appended: the
\* list is sorted, has each UID once, and the UID of each row, which only a file
\* that is gone or was stranded may lack.
THEOREM ListHasTheIndexedUids ==
    ASSUME "append" \notin Kinds PROVE Spec => []ListAgreesWithIndex
<1>1. ASSUME TypeOK, ShownInv PROVE ListAgreesWithIndex
  <2>1. UidInv /\ ListInv
    BY <1>1 DEF ShownInv
  <2>2. ASSUME NEW i \in DOMAIN l
        PROVE  \/ row[l[i].key].uid = l[i].uid
               \/ /\ row[l[i].key].uid = 0
                  /\ ~OnDisk(l[i].key) \/ l[i].key \in stranded
    <3>1. PICK a : a = <<l[i].key, l[i].uid>> /\ a \in assigned
      BY <2>1 DEF ListInv
    <3>2. a[1] \in Keys /\ a[1] = l[i].key /\ a[2] = l[i].uid
      BY <1>1, <3>1, ShownTypes
    <3>3. CASE row[a[1]].uid # 0
      BY <2>1, <3>2, <3>3 DEF ListInv, RowIs
    <3>4. CASE row[a[1]].uid = 0
      BY <2>1, <3>1, <3>2, <3>4 DEF UidInv, Gone, OnDisk
    <3> QED
      BY <3>3, <3>4
  <2> QED
    BY <2>1, <2>2 DEF ListInv, ListAgreesWithIndex
<1> QED
  BY <1>1, ShownHolds, PTL

\* ExpungedStaysGone for every instance in which nothing is appended: no reload
\* that was under way, and none that comes later, lists an expunged message
\* whose file EXPUNGE did not miss.
THEOREM ExpungedNeverReturns ==
    ASSUME "append" \notin Kinds PROVE Spec => []ExpungedStaysGone
<1>1. ShownInv => ExpungedStaysGone
  BY DEF ShownInv, ExpungedInv, ExpungedStaysGone
<1> QED
  BY <1>1, ShownHolds, PTL

-----------------------------------------------------------------------------
(* The flags in the index, when no call fails and no other tool writes *)

\* Whoever has letters behind its name was given them by STORE.
FlagFiles ==
    /\ \A k \in Keys : file[k].flags # {} => Assigned(k)
    /\ \A p \in Procs : pc[p] \in {"dbstore", "file"} => Assigned(job[p].key)
    /\ Scanning => \A e \in scan.found : e.flags # {} => Assigned(e.key)

\* A listed message has the flags of its row, unless they are on their way or
\* its file was stranded.
ListFlags ==
    /\ \A i \in DOMAIN l :
          \/ row[l[i].key].uid = 0
          \/ row[l[i].key].flags = l[i].flags
          \/ l[i].key \in stranded
          \/ \E p \in Procs : pc[p] = "dbstore" /\ job[p].key = l[i].key
    /\ \A p \in Procs : \A i \in DOMAIN l :
          pc[p] = "dbstore" /\ job[p].key = l[i].key =>
              l[i].flags = job[p].flags

\* So has one of the list that is being built, and one that will be added.
BuildFlags ==
    Building =>
        /\ \A i \in DOMAIN scan.list :
              \/ row[scan.list[i].key].uid = 0
              \/ row[scan.list[i].key].flags = scan.list[i].flags
              \/ scan.list[i].key \in stranded
        /\ \A e \in scan.todo :
              ~InList(e.key) /\ scan.rows[e.key].uid # 0 /\ row[e.key].uid # 0
                  => row[e.key].flags = scan.rows[e.key].flags

FlagInv == FlagFiles /\ ListFlags /\ BuildFlags

OnlyMail == {"append", "drop", "error"} \cap Kinds = {}

\* The steps there are then.
LEMMA MailSteps ==
    ASSUME OnlyMail, NoAppends, [Next]_vars
    PROVE  \/ \E p \in Procs :
                  \/ \E F : StartDelivery(p, "deliver", F)
                  \/ StartReload(p) \/ StoreFlags(p)
                  \/ Expunge(p) \/ Purge(p)
                  \/ RenameToNew(p) \/ Reload(p) \/ PersistRow(p)
                  \/ PersistFile(p) \/ FindVictim(p) \/ Unlink(p)
                  \/ RemoveRow(p) \/ ExpungeLocked(p)
           \/ Restart
           \/ UNCHANGED vars
<1>1. ASSUME NEW p \in Procs, Begin(p)
      PROVE  \/ \E F : StartDelivery(p, "deliver", F)
             \/ StartReload(p) \/ StoreFlags(p) \/ Expunge(p) \/ Purge(p)
  BY <1>1 DEF OnlyMail, Begin, Deliver, AppendMessage, StartDelivery
<1>2. ~Drop /\ \A p \in Procs : ~IOError(p)
  BY DEF OnlyMail, Drop, IOError
<1> QED
  BY <1>1, <1>2, WithoutAppends DEF Next

LEMMA FilesStep ==
    ASSUME TypeOK, TypeOK', KeysKnown, OnlyMail, NoAppends, NoAppends',
           ListInv, ListingInv, ListingInv', FlagFiles, [Next]_vars
    PROVE  FlagFiles'
<1>1. /\ pc \in [Procs -> {"idle", "rename", "insert", "dbflags",
                           "letters", "push", "list", "prune", "build",
                           "dbstore", "file", "remove", "unlink",
                           "unindex", "apply"}]
      /\ job \in [Procs -> Job] /\ file \in [Keys -> File]
      /\ nextKey \in Nat
  BY ShownTypes DEF TypeOK
<1>2. \A k : Assigned(k) => Assigned(k)'
  BY IndexStep DEF IndexMoves, Assigned
<1>3. NoFile.flags = {}
  BY DEF NoFile
<1> USE DEF Goto, Done
<1>4. ASSUME NEW k \in Keys, file'[k].flags # {} PROVE Assigned(k)
  <2>1. CASE file'[k] = file[k]
    BY <1>4, <2>1 DEF FlagFiles
  <2>2. ASSUME NEW p \in Procs, NEW F, StartDelivery(p, "deliver", F)
        PROVE  file'[k] = file[k]
    BY <1>1, <1>4, <2>2 DEF StartDelivery
  <2>3. ASSUME NEW p \in Procs, RenameToNew(p) PROVE Assigned(k)
    <3>1. file'[k].flags = file[k].flags
      BY <1>1, <2>3 DEF RenameToNew, File
    <3> QED
      BY <1>4, <3>1 DEF FlagFiles
  <2>4. ASSUME NEW p \in Procs, PersistFile(p) PROVE Assigned(k)
    <3>1. CASE k = job[p].key
      BY <2>4, <3>1 DEF PersistFile, FlagFiles
    <3>2. CASE k # job[p].key
      <4>1. file'[k] = file[k]
        BY <1>1, <2>4, <3>2 DEF PersistFile, SetFlags
      <4> QED
        BY <2>1, <4>1
    <3> QED
      BY <3>1, <3>2
  <2>5. ASSUME NEW p \in Procs, Unlink(p) PROVE file'[k] = file[k]
    BY <1>1, <1>3, <1>4, <2>5 DEF Unlink
  <2>6. ASSUME NEW p \in Procs,
               \/ StartReload(p) \/ StoreFlags(p) \/ Expunge(p) \/ Purge(p)
               \/ Reload(p) \/ PersistRow(p) \/ FindVictim(p)
               \/ RemoveRow(p) \/ ExpungeLocked(p)
        PROVE  file' = file
    BY <2>6
       DEF StartReload, StoreFlags, Expunge, Purge, StartRemoval, Reload,
           ListSecond, Prune, KeepListed, AddIndexed, AddUnindexed, List,
           ReloadFails, FinishReload, PersistRow, FindVictim, RemoveRow,
           ExpungeLocked, diskVars
  <2>7. CASE Restart \/ UNCHANGED vars
    BY <2>1, <2>7 DEF Restart, vars, diskVars
  <2> QED
    BY <2>1, <2>2, <2>3, <2>4, <2>5, <2>6, <2>7, MailSteps
<1>5. ASSUME NEW q \in Procs, pc'[q] \in {"dbstore", "file"}
      PROVE  Assigned(job'[q].key)
  <2>1. CASE pc[q] \in {"dbstore", "file"} /\ job'[q] = job[q]
    BY <2>1 DEF FlagFiles
  <2>2. ASSUME NEW p \in Procs, StoreFlags(p) PROVE Assigned(job'[q].key)
    <3>1. PICK i, F :
              /\ i \in DOMAIN l
              /\ job' = [job EXCEPT ![p] = [NoJob EXCEPT !.kind = "store",
                                                         !.key = l[i].key,
                                                         !.flags = F]]
              /\ pc' = [pc EXCEPT ![p] = "dbstore"]
      BY <2>2 DEF StoreFlags
    <3>2. CASE p = q
      <4>1. job'[q].key = l[i].key
        BY <1>1, <3>1, <3>2 DEF NoJob
      <4> QED
        BY <3>1, <4>1 DEF ListInv, Assigned
    <3>3. CASE p # q
      BY <1>1, <1>5, <2>1, <3>1, <3>3
    <3> QED
      BY <3>2, <3>3
  <2>3. ASSUME NEW p \in Procs, PersistRow(p) PROVE Assigned(job'[q].key)
    BY <1>1, <1>5, <2>1, <2>3 DEF PersistRow
  <2>4. ASSUME NEW p \in Procs, NEW s, s \notin {"dbstore", "file"},
               pc' = [pc EXCEPT ![p] = s],
               \A r \in Procs \ {p} : job'[r] = job[r]
        PROVE  Assigned(job'[q].key)
    BY <1>1, <1>5, <2>1, <2>4
  <2>5. ASSUME NEW p \in Procs,
               \/ \E F : StartDelivery(p, "deliver", F)
               \/ StartReload(p) \/ Expunge(p) \/ Purge(p)
        PROVE  Assigned(job'[q].key)
    <3>1. /\ \E s \in {"rename", "list", "remove"} : pc' = [pc EXCEPT ![p] = s]
          /\ \A r \in Procs \ {p} : job'[r] = job[r]
      BY <1>1, <2>5
         DEF StartDelivery, StartReload, Expunge, Purge, StartRemoval
    <3> QED
      BY <2>4, <3>1
  <2>6. ASSUME NEW p \in Procs,
               \/ RenameToNew(p) \/ ListSecond(p) \/ Prune(p)
               \/ ReloadFails(p) \/ FinishReload(p) \/ PersistFile(p)
               \/ FindVictim(p) \/ Unlink(p) \/ RemoveRow(p) \/ ExpungeLocked(p)
        PROVE  Assigned(job'[q].key)
    <3>1. /\ \E s \in {"idle", "insert", "prune", "build", "unlink", "unindex",
                       "apply", "remove"} : pc' = [pc EXCEPT ![p] = s]
          /\ \A r \in Procs \ {p} : job'[r] = job[r]
      BY <1>1, <2>6
         DEF RenameToNew, ListSecond, Prune, ReloadFails, FinishReload,
             PersistFile, FindVictim, Unlink, RemoveRow, ExpungeLocked
    <3> QED
      BY <2>4, <3>1
  <2>7. ASSUME NEW p \in Procs, KeepListed(p) \/ AddIndexed(p) \/ AddUnindexed(p)
        PROVE  Assigned(job'[q].key)
    BY <1>5, <2>1, <2>7 DEF KeepListed, AddIndexed, AddUnindexed, List
  <2>8. CASE Restart \/ UNCHANGED vars
    BY <1>5, <2>1, <2>8 DEF Restart, vars
  <2> QED
    BY <2>2, <2>3, <2>5, <2>6, <2>7, <2>8, MailSteps DEF Reload
<1>6. ASSUME Scanning', NEW e \in scan'.found, e.flags # {}
      PROVE  Assigned(e.key)
  <2>1. ASSUME NEW d, e \in EntriesOf(d) PROVE Assigned(e.key)
    BY <1>6, <2>1 DEF EntriesOf, FlagFiles
  <2>2. CASE Scanning /\ scan'.found = scan.found
    BY <1>6, <2>2 DEF FlagFiles
  <2>3. ASSUME NEW p \in Procs, StartReload(p) PROVE Assigned(e.key)
    BY <1>6, <2>1, <2>3 DEF StartReload, NoScan
  <2>4. ASSUME NEW p \in Procs, ListSecond(p) PROVE Assigned(e.key)
    <3>1. scan'.found = scan.found \cup EntriesOf(DirOrder[2]) /\ Scanning
      BY <2>4 DEF ListSecond, TypeOK, Scan, Scanning
    <3> QED
      BY <1>6, <2>1, <3>1 DEF FlagFiles
  <2>5. ASSUME NEW p \in Procs,
               Prune(p) \/ KeepListed(p) \/ AddIndexed(p) \/ AddUnindexed(p)
        PROVE  Assigned(e.key)
    <3>1. scan'.found = scan.found
      <4>1. scan = [found |-> scan.found, todo |-> scan.todo,
                    rows |-> scan.rows, list |-> scan.list]
        BY DEF TypeOK, Scan
      <4>2. CASE Prune(p)
        BY <4>1, <4>2 DEF Prune
      <4>3. ASSUME NEW d, NEW m, List(d, m) PROVE scan'.found = scan.found
        BY <4>1, <4>3 DEF List
      <4> QED
        BY <2>5, <4>2, <4>3 DEF KeepListed, AddIndexed, AddUnindexed
    <3>2. Scanning
      BY <2>5
         DEF Prune, KeepListed, AddIndexed, AddUnindexed, Turn, Scanning
    <3> QED
      BY <2>2, <3>1, <3>2
  <2>6. ASSUME UNCHANGED scan, NEW p \in Procs, NEW s,
               pc' = [pc EXCEPT ![p] = s], s \notin Phases
        PROVE  Assigned(e.key)
    BY <1>1, <1>6, <2>2, <2>6 DEF Scanning, Phases
  <2>7. ASSUME NEW p \in Procs,
               \/ \E F : StartDelivery(p, "deliver", F)
               \/ StoreFlags(p) \/ Expunge(p) \/ Purge(p)
               \/ RenameToNew(p) \/ PersistRow(p) \/ PersistFile(p)
               \/ FindVictim(p) \/ Unlink(p) \/ RemoveRow(p) \/ ExpungeLocked(p)
        PROVE  Assigned(e.key)
    <3>1. /\ \E s \in {"idle", "rename", "insert", "dbstore", "file",
                       "unlink", "unindex", "apply", "remove"} :
                 pc' = [pc EXCEPT ![p] = s]
          /\ UNCHANGED scan
      BY <2>7
         DEF StartDelivery, StoreFlags, Expunge, Purge, StartRemoval,
             RenameToNew, PersistRow, PersistFile, FindVictim, Unlink,
             RemoveRow, ExpungeLocked
    <3> QED
      BY <2>6, <3>1 DEF Phases
  <2>8. ASSUME NEW p \in Procs, ReloadFails(p) \/ FinishReload(p)
        PROVE  Assigned(e.key)
    BY <1>6, <2>8 DEF ReloadFails, FinishReload, NoScan
  <2>9. CASE Restart \/ UNCHANGED vars
    BY <1>6, <2>2, <2>9 DEF Restart, NoScan, vars, Scanning
  <2> QED
    BY <2>3, <2>4, <2>5, <2>7, <2>8, <2>9, MailSteps DEF Reload
<1> QED
  BY <1>2, <1>4, <1>5, <1>6 DEF FlagFiles

\* A list whose messages were listed before, or agree with their rows.
LEMMA FlagsKept ==
    ASSUME TypeOK, ListFlags, UNCHANGED l, stranded \subseteq stranded',
           \A k \in Keys : row'[k] = row[k] \/ row'[k].uid = 0,
           \A q \in Procs : \/ pc'[q] = pc[q] /\ job'[q] = job[q]
                            \/ pc[q] # "dbstore" /\ pc'[q] # "dbstore"
    PROVE  ListFlags'
<1>1. \A i \in DOMAIN l : l[i].key \in Keys
  BY ShownTypes
<1>2. \A q \in Procs : \/ pc[q] # "dbstore" /\ pc'[q] # "dbstore"
                       \/ pc'[q] = pc[q] /\ job'[q].key = job[q].key
                          /\ job'[q].flags = job[q].flags
  OBVIOUS
<1>3. ASSUME NEW i \in DOMAIN l
      PROVE  \/ row'[l[i].key].uid = 0
             \/ row'[l[i].key].flags = l[i].flags
             \/ l[i].key \in stranded'
             \/ \E p \in Procs : pc'[p] = "dbstore" /\ job'[p].key = l[i].key
  <2>1. CASE row'[l[i].key] = row[l[i].key]
    BY <1>2, <2>1 DEF ListFlags
  <2> QED
    BY <1>1, <2>1
<1> QED
  BY <1>2, <1>3 DEF ListFlags

\* STORE gives its flags to every object of the message.
LEMMA FlagsStored ==
    ASSUME TypeOK, TypeOK', ListingInv, ListInv, ListFlags,
           NEW p \in Procs, StoreFlags(p)
    PROVE  ListFlags'
<1>1. PICK i, F :
          /\ i \in DOMAIN l
          /\ l' = [j \in DOMAIN l |-> IF Object(l[j]) = Object(l[i])
                                      THEN [l[j] EXCEPT !.flags = F]
                                      ELSE l[j]]
          /\ job' = [job EXCEPT ![p] = [NoJob EXCEPT !.kind = "store",
                                                     !.key = l[i].key,
                                                     !.flags = F]]
          /\ pc' = [pc EXCEPT ![p] = "dbstore"]
          /\ UNCHANGED <<row, stranded>>
          /\ mu = NoProc
  BY DEF StoreFlags, Goto, dbVars, history
<1>2. /\ pc'[p] = "dbstore" /\ job'[p].key = l[i].key /\ job'[p].flags = F
      /\ \A q \in Procs \ {p} : pc'[q] = pc[q]
  BY <1>1, ShownTypes DEF NoJob
<1>3. \A q \in Procs : pc[q] # "dbstore"
  BY <1>1, MailboxAssumption DEF ListingInv, MuHeld, Critical
<1>4. ASSUME NEW j \in DOMAIN l
      PROVE  /\ l'[j].key = l[j].key
             /\ j = i => l'[j].flags = F
             /\ j # i => l'[j] = l[j] /\ l[j].key # l[i].key
  <2>1. l[j] \in Message
    BY ShownTypes
  <2>2. CASE j = i
    BY <1>1, <2>1, <2>2 DEF Message
  <2>3. CASE j # i
    <3>1. l[j].key # l[i].key
      BY <1>1, <2>3 DEF ListInv
    <3>2. Object(l[j]) # Object(l[i])
      BY <3>1 DEF Object
    <3> QED
      BY <1>1, <2>3, <3>1, <3>2
  <2> QED
    BY <2>2, <2>3
<1>5. DOMAIN l' = DOMAIN l
  BY <1>1
<1>6. ASSUME NEW j \in DOMAIN l'
      PROVE  \/ row'[l'[j].key].uid = 0
             \/ row'[l'[j].key].flags = l'[j].flags
             \/ l'[j].key \in stranded'
             \/ \E q \in Procs : pc'[q] = "dbstore" /\ job'[q].key = l'[j].key
  <2>1. CASE j = i
    BY <1>2, <1>4, <1>5, <2>1
  <2>2. CASE j # i
    <3>1. l'[j] = l[j]
      BY <1>4, <1>5, <2>2
    <3>2. \/ row[l[j].key].uid = 0
          \/ row[l[j].key].flags = l[j].flags
          \/ l[j].key \in stranded
      BY <1>3, <1>5 DEF ListFlags
    <3>3. UNCHANGED <<row, stranded>>
      BY <1>1
    <3> QED
      BY <3>1, <3>2, <3>3
  <2> QED
    BY <2>1, <2>2
<1>7. ASSUME NEW q \in Procs, NEW j \in DOMAIN l', pc'[q] = "dbstore",
             job'[q].key = l'[j].key
      PROVE  l'[j].flags = job'[q].flags
  <2>1. q = p
    BY <1>2, <1>3, <1>7
  <2>2. j = i
    BY <1>2, <1>4, <1>5, <1>7, <2>1
  <2> QED
    BY <1>2, <1>4, <1>5, <2>1, <2>2
<1> QED
  BY <1>6, <1>7 DEF ListFlags

\* The index is given the flags that the list has.
LEMMA FlagsPersisted ==
    ASSUME TypeOK, KeysKnown, ListingInv, ListFlags, NEW p \in Procs,
           PersistRow(p)
    PROVE  ListFlags'
<1>1. /\ pc[p] = "dbstore" /\ pc' = [pc EXCEPT ![p] = "file"]
      /\ UNCHANGED <<l, job, stranded>>
      /\ row' = IF row[job[p].key].uid = 0 THEN row
                ELSE [row EXCEPT ![job[p].key].flags = job[p].flags]
  BY DEF PersistRow, UpdateMessageFlags, Goto, history
<1>2. \A q \in Procs : pc[q] = "dbstore" => q = p
  BY <1>1 DEF ListingInv, MuHeld, Critical
<1>3. \A q \in Procs : pc'[q] # "dbstore"
  BY <1>1, <1>2, ShownTypes
<1>4. job[p].key \in Keys /\ row \in [Keys -> Row]
  BY <1>1, ShownTypes DEF KeysKnown, HasKey
<1>5. ASSUME NEW i \in DOMAIN l
      PROVE  \/ row'[l[i].key].uid = 0
             \/ row'[l[i].key].flags = l[i].flags
             \/ l[i].key \in stranded
  <2>1. l[i].key \in Keys
    BY ShownTypes
  <2>2. CASE l[i].key = job[p].key
    <3>1. l[i].flags = job[p].flags
      BY <1>1, <2>2 DEF ListFlags
    <3>2. CASE row[job[p].key].uid = 0
      BY <1>1, <2>2, <3>2
    <3>3. CASE row[job[p].key].uid # 0
      <4>1. row' = [row EXCEPT ![job[p].key] =
                        [row[job[p].key] EXCEPT !.flags = job[p].flags]]
        BY <1>1, <3>3
      <4>2. row'[job[p].key].flags = job[p].flags
        BY <1>4, <4>1 DEF Row
      <4> QED
        BY <2>2, <3>1, <4>2
    <3> QED
      BY <3>2, <3>3
  <2>3. CASE l[i].key # job[p].key
    <3>1. row'[l[i].key] = row[l[i].key]
      BY <1>1, <1>4, <2>1, <2>3
    <3> QED
      BY <1>2, <2>3, <3>1 DEF ListFlags
  <2> QED
    BY <2>2, <2>3
<1> QED
  BY <1>1, <1>3, <1>5 DEF ListFlags

LEMMA ListFlagsStep ==
    ASSUME TypeOK, TypeOK', KeysKnown, OnlyMail, NoAppends, NoAppends',
           ListingInv, ListingInv', Calm, ListInv, ScanInv, FlagInv, [Next]_vars
    PROVE  ListFlags'
<1>1. /\ pc \in [Procs -> {"idle", "rename", "insert", "dbflags",
                           "letters", "push", "list", "prune", "build",
                           "dbstore", "file", "remove", "unlink",
                           "unindex", "apply"}]
      /\ job \in [Procs -> Job] /\ row \in [Keys -> Row]
  BY ShownTypes
<1>2. ListFlags /\ BuildFlags
  BY DEF FlagInv
<1> USE DEF Goto, Done
<1>3. ASSUME NEW p \in Procs, mu = NoProc \/ mu = p,
             pc' = [pc EXCEPT ![p] = "idle"]
      PROVE  \A q \in Procs : pc'[q] # "dbstore"
  BY <1>1, <1>3, MailboxAssumption DEF ListingInv, MuHeld, Critical
<1>4. ASSUME NEW p \in Procs,
             \/ \E F : StartDelivery(p, "deliver", F)
             \/ StartReload(p) \/ Expunge(p) \/ Purge(p)
             \/ RenameToNew(p) \/ ListSecond(p) \/ Prune(p) \/ KeepListed(p)
             \/ AddIndexed(p) \/ ReloadFails(p) \/ PersistFile(p)
             \/ FindVictim(p) \/ Unlink(p) \/ RemoveRow(p)
      PROVE  ListFlags'
  <2>1. UNCHANGED l
    BY <1>4
       DEF StartDelivery, StartReload, Expunge, Purge, StartRemoval,
           RenameToNew, ListSecond, Prune, KeepListed, AddIndexed, List,
           ReloadFails, PersistFile, FindVictim, Unlink, RemoveRow
  <2>2. ASSUME NEW q \in Procs
        PROVE  \/ pc'[q] = pc[q] /\ job'[q] = job[q]
               \/ pc[q] # "dbstore" /\ pc'[q] # "dbstore"
    <3>1. CASE q = p
      BY <1>1, <1>4, <3>1
         DEF StartDelivery, StartReload, Expunge, Purge, StartRemoval,
             RenameToNew, ListSecond, Prune, KeepListed, AddIndexed, List,
             ReloadFails, Turn, PersistFile, FindVictim, Unlink, RemoveRow
    <3>2. CASE q # p
      BY <1>1, <1>4, <3>2
         DEF StartDelivery, StartReload, Expunge, Purge, StartRemoval,
             RenameToNew, ListSecond, Prune, KeepListed, AddIndexed, List,
             ReloadFails, PersistFile, FindVictim, Unlink, RemoveRow
    <3> QED
      BY <3>1, <3>2
  <2>3. ASSUME NEW k \in Keys PROVE row'[k] = row[k] \/ row'[k].uid = 0
    <3>1. NoRow.uid = 0
      BY DEF NoRow
    <3>2. CASE RemoveRow(p)
      BY <1>1, <3>1, <3>2 DEF RemoveRow, DeleteMessageByKey
    <3>3. CASE Prune(p)
      BY <3>1, <3>3 DEF Prune, DeleteMessagesNotIn
    <3>4. CASE ~RemoveRow(p) /\ ~Prune(p)
      BY <1>4, <3>4
         DEF StartDelivery, StartReload, Expunge, Purge, StartRemoval,
             RenameToNew, ListSecond, KeepListed, AddIndexed, List,
             ReloadFails, PersistFile, FindVictim, Unlink, dbVars
    <3> QED
      BY <3>2, <3>3, <3>4
  <2> QED
    BY <1>2, <2>1, <2>2, <2>3, FlagsKept DEF Calm
<1>5. ASSUME NEW p \in Procs, AddUnindexed(p) PROVE ListFlags'
  <2>1. PICK e \in scan.todo : /\ ~InList(e.key)
                               /\ InsertMessage(e.key, e.flags)
                               /\ UNCHANGED <<l, pc, job, stranded>>
    BY <1>5 DEF AddUnindexed, IsUnindexed, List, history
  <2>2. e.key \in Keys
    BY ShownTypes
  <2>3. ASSUME NEW i \in DOMAIN l PROVE row'[l[i].key] = row[l[i].key]
    <3>1. l[i].key \in Keys /\ l[i].key # e.key
      BY <2>1, ShownTypes DEF InList
    <3> QED
      BY <1>1, <2>1, <2>2, <3>1 DEF InsertMessage
  <2> QED
    BY <1>2, <2>1, <2>3 DEF ListFlags
<1>6. ASSUME NEW p \in Procs, FinishReload(p) PROVE ListFlags'
  <2>1. /\ pc[p] = "build" /\ pc' = [pc EXCEPT ![p] = "idle"]
        /\ UNCHANGED <<row, stranded>>
    BY <1>6 DEF FinishReload, dbVars
  <2>2. Building /\ BuildInv /\ mu = p
    BY <2>1 DEF Building, ScanInv, ListingInv, MuHeld, Critical
  <2>3. \A q \in Procs : pc'[q] # "dbstore"
    BY <1>3, <2>1, <2>2
  <2>4. ASSUME NEW i \in DOMAIN l'
        PROVE  \/ row'[l'[i].key].uid = 0
               \/ row'[l'[i].key].flags = l'[i].flags
               \/ l'[i].key \in stranded'
    <3>1. PICK j \in DOMAIN scan.list : l'[i] = scan.list[j]
      BY <1>6, <2>2, FinishShown
    <3> QED
      BY <1>2, <2>1, <2>2, <3>1 DEF BuildFlags
  <2> QED
    BY <2>3, <2>4 DEF ListFlags
<1>7. ASSUME NEW p \in Procs, ExpungeLocked(p) PROVE ListFlags'
  <2>1. /\ mu = NoProc /\ pc' = [pc EXCEPT ![p] = "idle"]
        /\ UNCHANGED <<row, stranded>>
    BY <1>7 DEF ExpungeLocked, dbVars
  <2>2. \A q \in Procs : pc'[q] # "dbstore" /\ pc[q] # "dbstore"
    BY <1>3, <2>1, MailboxAssumption DEF ListingInv, MuHeld, Critical
  <2>3. ASSUME NEW i \in DOMAIN l'
        PROVE  \/ row'[l'[i].key].uid = 0
               \/ row'[l'[i].key].flags = l'[i].flags
               \/ l'[i].key \in stranded'
    <3>1. PICK j \in DOMAIN l : l'[i] = l[j]
      BY <1>7, ExpungeShown
    <3> QED
      BY <1>2, <2>1, <2>2, <3>1 DEF ListFlags
  <2> QED
    BY <2>2, <2>3 DEF ListFlags
<1>8. CASE Restart
  BY <1>8 DEF Restart, ListFlags
<1>9. CASE UNCHANGED vars
  BY <1>2, <1>9 DEF vars, ListFlags
<1> QED
  BY <1>2, <1>4, <1>5, <1>6, <1>7, <1>8, <1>9, MailSteps, FlagsStored,
     FlagsPersisted DEF Reload

\* What the reload adds to its list has the flags of its row.
LEMMA FlagsBuilt ==
    ASSUME TypeOK, FoundInv, BuildInv, BuildFlags, UNCHANGED <<l, stranded>>,
           Building, NEW e \in scan.todo, NEW m, m.key = e.key,
           scan' = [scan EXCEPT !.todo = @ \ {e}, !.list = Append(@, m)],
           \A k \in Keys : k = e.key \/ row'[k] = row[k],
           \/ row'[e.key].uid = 0
           \/ row'[e.key].flags = m.flags
           \/ e.key \in stranded
    PROVE  BuildFlags'
<1>1. PICK s \in Seq(Message) : s = scan.list
  BY DEF TypeOK, Scan
<1>2. PICK n \in Nat : DOMAIN s = 1..n
  BY <1>1
<1>3. /\ scan'.todo = scan.todo \ {e} /\ scan'.rows = scan.rows
      /\ scan'.list = Append(s, m)
  BY <1>1 DEF TypeOK, Scan
<1>4. PICK t : t = scan'.list
  OBVIOUS
<1>5. /\ DOMAIN t = 1..(n + 1) /\ t[n + 1] = m
      /\ \A i \in 1..n : t[i] = s[i]
  <2>1. Len(s) = n
    BY <1>1, <1>2
  <2> QED
    BY <1>3, <1>4, <2>1
<1>6. ASSUME NEW i \in 1..n, row'[s[i].key].uid # 0
      PROVE  row'[s[i].key].flags = s[i].flags \/ s[i].key \in stranded
  <2>1. s[i].key \in Keys /\ s[i].key \notin KeysOf(scan.todo)
    BY <1>1, <1>2, ShownTypes DEF BuildInv
  <2>2. s[i].key # e.key
    BY <2>1 DEF KeysOf
  <2>3. row'[s[i].key] = row[s[i].key]
    BY <2>1, <2>2
  <2> QED
    BY <1>1, <1>2, <1>6, <2>3 DEF BuildFlags
<1>7. ASSUME NEW i \in DOMAIN t, row'[t[i].key].uid # 0
      PROVE  row'[t[i].key].flags = t[i].flags \/ t[i].key \in stranded
  <2>1. CASE i \in 1..n
    BY <1>5, <1>6, <1>7, <2>1
  <2>2. CASE i = n + 1
    BY <1>5, <1>7, <2>2
  <2> QED
    BY <1>2, <1>5, <2>1, <2>2
<1>8. ASSUME NEW d \in scan.todo \ {e}, ~InList(d.key),
             scan.rows[d.key].uid # 0, row'[d.key].uid # 0
      PROVE  row'[d.key].flags = scan.rows[d.key].flags
  <2>1. d.key \in Keys /\ d.key # e.key
    BY ShownTypes DEF BuildInv, FoundInv
  <2>2. row'[d.key] = row[d.key]
    BY <2>1
  <2> QED
    BY <1>8, <2>2 DEF BuildFlags
<1>9. \A k : InList(k)' <=> InList(k)
  BY DEF InList
<1>10. \A i \in DOMAIN scan'.list :
           row'[scan'.list[i].key].uid # 0 =>
               \/ row'[scan'.list[i].key].flags = scan'.list[i].flags
               \/ scan'.list[i].key \in stranded
  BY <1>4, <1>7
<1>11. ASSUME NEW d \in scan'.todo, ~InList(d.key)',
              scan'.rows[d.key].uid # 0, row'[d.key].uid # 0
       PROVE  row'[d.key].flags = scan'.rows[d.key].flags
  BY <1>3, <1>8, <1>9, <1>11
<1> QED
  BY <1>10, <1>11 DEF BuildFlags

LEMMA BuildFlagsStep ==
    ASSUME TypeOK, TypeOK', KeysKnown, OnlyMail, NoAppends, NoAppends',
           ListingInv, ListingInv', Calm, UidInv, ScanInv, FlagInv, [Next]_vars
    PROVE  BuildFlags'
<1>1. /\ pc \in [Procs -> {"idle", "rename", "insert", "dbflags",
                           "letters", "push", "list", "prune", "build",
                           "dbstore", "file", "remove", "unlink",
                           "unindex", "apply"}]
      /\ row \in [Keys -> Row] /\ NoRow.uid = 0
  BY ShownTypes DEF NoRow
<1>2. FlagFiles /\ ListFlags /\ BuildFlags
  BY DEF FlagInv
<1> USE DEF Goto, Done
\* Nobody builds a list when mu is free, or held by a goroutine that does not.
<1>3. ASSUME NEW p \in Procs, mu = NoProc \/ mu = p,
             NEW s, s # "build", pc' = [pc EXCEPT ![p] = s]
      PROVE  BuildFlags'
  <2>1. \A q \in Procs : pc'[q] # "build"
    BY <1>1, <1>3, MailboxAssumption DEF ListingInv, MuHeld, Critical
  <2> QED
    BY <2>1 DEF BuildFlags, Building
\* A step beside the reload deletes rows at most.
<1>4. ASSUME UNCHANGED <<scan, l>>, Building' => Building,
             \A k \in Keys : row'[k] = row[k] \/ row'[k].uid = 0
      PROVE  BuildFlags'
  <2>1. /\ \A i \in DOMAIN scan.list : scan.list[i].key \in Keys
        /\ \A e \in scan.todo : e.key \in Keys
    BY ShownTypes
  <2>2. \A k : InList(k)' <=> InList(k)
    BY <1>4 DEF InList
  <2>3. ASSUME Building', NEW i \in DOMAIN scan.list,
               row'[scan.list[i].key].uid # 0
        PROVE  \/ row'[scan.list[i].key].flags = scan.list[i].flags
               \/ scan.list[i].key \in stranded'
    BY <1>2, <1>4, <2>1, <2>3 DEF BuildFlags, Calm
  <2>4. ASSUME Building', NEW e \in scan.todo, ~InList(e.key),
               scan.rows[e.key].uid # 0, row'[e.key].uid # 0
        PROVE  row'[e.key].flags = scan.rows[e.key].flags
    BY <1>2, <1>4, <2>1, <2>4 DEF BuildFlags
  <2> QED
    BY <1>4, <2>2, <2>3, <2>4 DEF BuildFlags
<1>5. ASSUME NEW p \in Procs,
             \/ \E F : StartDelivery(p, "deliver", F)
             \/ RenameToNew(p) \/ FindVictim(p) \/ Unlink(p) \/ RemoveRow(p)
      PROVE  BuildFlags'
  <2>1. UNCHANGED <<scan, l>>
    BY <1>5 DEF StartDelivery, RenameToNew, FindVictim, Unlink, RemoveRow
  <2>2. PICK s \in {"rename", "insert", "idle", "unlink", "unindex",
                    "apply", "remove"} :
            pc' = [pc EXCEPT ![p] = s]
    BY <1>5 DEF StartDelivery, RenameToNew, FindVictim, Unlink, RemoveRow
  <2>3. Building' => Building
    BY <1>1, <2>2 DEF Building
  <2>4. ASSUME NEW k \in Keys PROVE row'[k] = row[k] \/ row'[k].uid = 0
    <3>1. CASE RemoveRow(p)
      BY <1>1, <3>1 DEF RemoveRow, DeleteMessageByKey
    <3>2. CASE ~RemoveRow(p)
      BY <1>5, <3>2 DEF StartDelivery, RenameToNew, FindVictim, Unlink, dbVars
    <3> QED
      BY <3>1, <3>2
  <2> QED
    BY <1>4, <2>1, <2>3, <2>4
<1>6. ASSUME NEW p \in Procs,
             StartReload(p) \/ StoreFlags(p) \/ Expunge(p) \/ Purge(p)
             \/ ExpungeLocked(p)
      PROVE  BuildFlags'
  <2>1. mu = NoProc /\ \E s \in {"list", "dbstore", "remove", "idle"} :
                           pc' = [pc EXCEPT ![p] = s]
    BY <1>6
       DEF StartReload, StoreFlags, Expunge, Purge, StartRemoval, ExpungeLocked
  <2> QED
    BY <1>3, <2>1
<1>7. ASSUME NEW p \in Procs,
             ListSecond(p) \/ PersistRow(p) \/ PersistFile(p)
             \/ ReloadFails(p) \/ FinishReload(p)
      PROVE  BuildFlags'
  <2>1. /\ pc[p] \in Critical
        /\ \E s \in {"prune", "file", "idle"} : pc' = [pc EXCEPT ![p] = s]
    BY <1>7
       DEF ListSecond, PersistRow, PersistFile, ReloadFails, Turn,
           FinishReload, Critical
  <2>2. mu = p
    BY <2>1 DEF ListingInv, MuHeld
  <2> QED
    BY <1>3, <2>1, <2>2
<1>8. ASSUME NEW p \in Procs, Prune(p) PROVE BuildFlags'
  <2>1. /\ scan' = [scan EXCEPT !.rows = row] /\ UNCHANGED l
        /\ row' = [k \in Keys |-> IF k \in ListedKeys(scan.found)
                                  THEN row[k] ELSE NoRow]
        /\ pc[p] = "prune"
    BY <1>8 DEF Prune, DeleteMessagesNotIn
  <2>2. scan'.rows = row /\ scan'.todo = scan.todo /\ scan'.list = scan.list
    BY <2>1 DEF TypeOK, Scan
  <2>3. DOMAIN scan.list = {}
    BY <2>1 DEF ScanInv, Listing, PruneInv
  <2>4. ASSUME NEW e \in scan'.todo, row'[e.key].uid # 0
        PROVE  row'[e.key].flags = scan'.rows[e.key].flags
    <3>1. e.key \in Keys
      BY <2>2, ShownTypes
    <3> QED
      BY <1>1, <2>1, <2>2, <2>4, <3>1
  <2> QED
    BY <2>2, <2>3, <2>4 DEF BuildFlags
<1>9. ASSUME NEW p \in Procs,
             KeepListed(p) \/ AddIndexed(p) \/ AddUnindexed(p)
      PROVE  BuildFlags'
  <2>1. pc[p] = "build"
    BY <1>9 DEF KeepListed, AddIndexed, AddUnindexed, Turn
  <2>2. Building /\ FoundInv /\ BuildInv /\ mu = p
    BY <2>1
       DEF Building, Scanning, ScanInv, ListingInv, MuHeld, Critical
  <2>3. \A q \in Procs : pc[q] # "dbstore"
    BY <2>1, <2>2 DEF ListingInv, MuHeld, Critical
  <2>4. PICK e, m :
            /\ e \in scan.todo /\ m.key = e.key /\ List(e, m)
            /\ \A k \in Keys : k = e.key \/ row'[k] = row[k]
            /\ \/ row'[e.key].uid = 0
               \/ row'[e.key].flags = m.flags
               \/ e.key \in stranded
    <3>1. CASE KeepListed(p)
      <4>1. PICK e \in scan.todo, i \in DOMAIN l :
                l[i].key = e.key /\ List(e, l[i]) /\ UNCHANGED row
        BY <3>1 DEF KeepListed, dbVars
      <4>2. \/ row[e.key].uid = 0
            \/ row[e.key].flags = l[i].flags
            \/ e.key \in stranded
        BY <1>2, <2>3, <4>1 DEF ListFlags
      <4> QED
        BY <4>1, <4>2
    <3>2. CASE AddIndexed(p)
      <4>1. PICK e \in scan.todo :
                /\ ~InList(e.key) /\ scan.rows[e.key].uid # 0
                /\ List(e, NewObject(e, scan.rows[e.key].uid,
                                     scan.rows[e.key].flags))
                /\ UNCHANGED row
        BY <3>2 DEF AddIndexed, dbVars
      <4>2. row[e.key].uid # 0 => row[e.key].flags = scan.rows[e.key].flags
        BY <1>2, <2>2, <4>1 DEF BuildFlags
      <4> QED
        BY <4>1, <4>2 DEF NewObject
    <3>3. CASE AddUnindexed(p)
      <4>1. PICK e \in scan.todo :
                /\ IsUnindexed(e)
                /\ row' = [row EXCEPT ![e.key] = [uid |-> NextUid,
                               flags |-> RawColumn(e.flags)]]
                /\ List(e, NewObject(e, NextUid, e.flags))
        BY <3>3 DEF AddUnindexed, InsertMessage
      <4>2. /\ ~Assigned(e.key) \/ e.key \in stranded
            /\ e \in scan.found /\ e.key \in Keys
        BY <2>2, <4>1, ShownTypes DEF IsUnindexed, BuildInv
      <4>3. e.flags = {} \/ e.key \in stranded
        BY <1>2, <2>1, <4>2 DEF FlagFiles, Scanning
      <4>4. row'[e.key].flags = e.flags \/ e.key \in stranded
        BY <1>1, <4>1, <4>2, <4>3 DEF RawColumn
      <4> QED
        BY <1>1, <4>1, <4>4 DEF NewObject
    <3> QED
      BY <1>9, <3>1, <3>2, <3>3
  <2>5. UNCHANGED <<l, stranded>>
        /\ scan' = [scan EXCEPT !.todo = @ \ {e}, !.list = Append(@, m)]
    BY <2>4 DEF List, history
  <2> QED
    BY <1>2, <2>2, <2>4, <2>5, FlagsBuilt
<1>10. CASE Restart
  BY <1>10 DEF Restart, BuildFlags, Building
<1>11. CASE UNCHANGED vars
  BY <1>4, <1>11 DEF vars, Building
<1> QED
  BY <1>5, <1>6, <1>7, <1>8, <1>9, <1>10, <1>11, MailSteps DEF Reload

\* IndexHoldsFlags for every instance in which nothing is appended, no call
\* fails and no other tool writes to the folder: each of the three leaves a
\* row whose flags differ from those in the list, as EXPUNGE does when it
\* strands a file with letters.
THEOREM IndexHoldsTheFlags ==
    ASSUME {"append", "drop", "error"} \cap Kinds = {}
    PROVE  Spec => []IndexHoldsFlags
<1>1. OnlyMail /\ "append" \notin Kinds
  BY DEF OnlyMail
<1>2. Init => NoAppends /\ FlagInv
  <2> SUFFICES ASSUME Init PROVE NoAppends /\ FlagInv
    OBVIOUS
  <2>1. FlagFiles
    BY DEF Init, FlagFiles, NoFile, Scanning
  <2>2. ListFlags /\ BuildFlags
    BY DEF Init, ListFlags, BuildFlags, Building
  <2> QED
    BY <2>1, <2>2, ShownInit DEF FlagInv
<1>3. ASSUME TypeOK, TypeOK', KeysKnown, ListingInv, ListingInv', ShownInv,
             NoAppends, FlagInv, [Next]_vars
      PROVE  NoAppends' /\ FlagInv'
  <2>1. UidInv /\ ListInv /\ ScanInv /\ FlagFiles
    BY <1>3 DEF ShownInv, FlagInv
  <2>2. NoAppends' /\ Calm
    BY <1>1, <1>3, NoAppendsStep, CalmStep
  <2>3. FlagFiles' /\ ListFlags' /\ BuildFlags'
    BY <1>1, <1>3, <2>1, <2>2, FilesStep, ListFlagsStep, BuildFlagsStep
  <2> QED
    BY <2>2, <2>3 DEF FlagInv
<1>4. ASSUME ListingInv, FlagInv PROVE IndexHoldsFlags
  <2>1. ASSUME mu = NoProc, NEW p \in Procs PROVE pc[p] # "dbstore"
    BY <1>4, <2>1, MailboxAssumption DEF ListingInv, MuHeld, Critical
  <2> QED
    BY <1>4, <2>1 DEF FlagInv, ListFlags, IndexHoldsFlags
<1>5. Spec => [](TypeOK /\ UidNeverReused /\ ListingInv /\ ShownInv)
  BY <1>1, ShownHolds
<1> QED
  BY <1>2, <1>3, <1>4, <1>5, TypeCorrect, PTL DEF Spec

-----------------------------------------------------------------------------
(* The folder that a client sees *)

\* The row has the UID of a, a key and a UID that it was given.
Current(a) == row[a[1]].uid = a[2]

\* The UID of a is above all that were shown.
IsNew(a) == a \notin told /\ \A t \in told : t[2] < a[2]

\* What the step to the abstract folder needs.  The list holds what clients
\* were told; in a folder that is loaded, it holds all of it that has a row.
\* What has a row but was kept from the list by a failure or a crash has a
\* higher UID than all that was shown.
ToldInv ==
    /\ Shown(l) \subseteq told
    /\ loaded => \A m \in told : Current(m) => m \in Shown(l)
    /\ \A a \in assigned \ told : Current(a) => IsNew(a)

\* What a goroutine removes was told, and has lost its row when it was dealt
\* with.  Nothing is removed before the folder is loaded, so a file that the
\* first reload has found stays.
GoneInv ==
    /\ \A p \in Procs : Removing(p) => loaded
    /\ \A p \in Procs : \A v \in job[p].victims :
           /\ <<v[1], v[3]>> \in told
           /\ v \in job[p].left \/ Pending(p, v) \/ ~Current(<<v[1], v[3]>>)
    /\ Scanning /\ ~loaded => \A e \in scan.found : OnDisk(e.key)

\* What the new list may hold: what the old one held, what is new and, when
\* there was none, what is on disk and in the index.
Offered(a) ==
    \/ a \in Shown(l)
    \/ IsNew(a)
    \/ ~loaded /\ OnDisk(a[1]) /\ Current(a)

Offers ==
    Shown(scan.list) \cup
        {<<e.key, scan.rows[e.key].uid>> :
             e \in {e \in scan.todo : /\ ~InList(e.key)
                                      /\ scan.rows[e.key].uid # 0}}

OfferInv == Building => \A a \in Offers : Offered(a)

ViewInv == ToldInv /\ GoneInv /\ OfferInv

\* The steps of a reload leave the disk, the list and the history alone, or
\* end it.
LEMMA ReloadQuiet ==
    ASSUME NEW p \in Procs, Reload(p), ~FinishReload(p)
    PROVE  UNCHANGED <<file, nextKey, l, told>>
<1>1. CASE ListSecond(p) \/ Prune(p) \/ ReloadFails(p)
  BY <1>1 DEF ListSecond, Prune, ReloadFails, diskVars, history
<1>2. CASE KeepListed(p) \/ AddIndexed(p) \/ AddUnindexed(p)
  <2>1. \E e, m : List(e, m)
    BY <1>2 DEF KeepListed, AddIndexed, AddUnindexed
  <2> QED
    BY <2>1 DEF List, diskVars, history
<1> QED
  BY <1>1, <1>2 DEF Reload

\* No row is given a UID that was given before.
LEMMA CurrentBefore ==
    ASSUME TypeOK, KeysKnown, NoAppends, UidsBelowNext, [Next]_vars,
           NEW a \in assigned, Current(a)'
    PROVE  Current(a)
<1>1. a[1] \in Keys /\ a[2] \in Nat \ {0}
  BY DEF TypeOK
<1>2. a[2] < uidNext /\ uidNext \in Nat
  BY ShownTypes DEF UidsBelowNext
<1>3. row'[a[1]].uid \in {0, row[a[1]].uid} \/ row'[a[1]].uid = uidNext
  BY <1>1, RowsStep DEF NewRow
<1> QED
  BY <1>1, <1>2, <1>3 DEF Current

\* Only os.Remove takes a file from the folder.
LEMMA FileVanishes ==
    ASSUME TypeOK, KeysKnown, ListingInv, NoAppends, [Next]_vars,
           NEW k \in Keys, Settled(k), OnDisk(k), ~OnDisk(k)'
    PROVE  \E p \in Procs : Unlink(p)
<1>1. /\ file \in [Keys -> File] /\ k \in Nat /\ nextKey \in Nat
      /\ k # nextKey
  BY MailboxAssumption DEF TypeOK, Keys, Settled
<1>2. file' # file
  BY DEF OnDisk
<1>3. ASSUME NEW p \in Procs, Begin(p) PROVE FALSE
  <2>1. PICK kind, F : StartDelivery(p, kind, F)
    BY <1>2, <1>3
       DEF Begin, Deliver, AppendMessage, StartReload, StoreFlags, Expunge,
           Purge, StartRemoval, diskVars
  <2> QED
    BY <1>1, <2>1 DEF StartDelivery, OnDisk
<1>4. ASSUME NEW p \in Procs, Continue(p), ~Unlink(p) PROVE FALSE
  <2>1. CASE RenameToNew(p)
    <3>1. job[p].key \in Keys
      BY <2>1 DEF RenameToNew, KeysKnown, HasKey
    <3> QED
      BY <1>1, <2>1, <3>1 DEF RenameToNew, OnDisk
  <2>2. CASE PersistFile(p)
    <3>1. job[p].key \in Keys
      BY <2>2 DEF PersistFile, KeysKnown, HasKey
    <3> QED
      BY <1>1, <2>2, <3>1 DEF PersistFile, SetFlags, OnDisk
  <2>3. CASE Reload(p)
    BY <1>2, <2>3, ReloadQuiet DEF FinishReload, diskVars
  <2>4. CASE \/ PersistRow(p) \/ FindVictim(p) \/ RemoveRow(p)
             \/ ExpungeLocked(p)
    BY <1>2, <2>4
       DEF PersistRow, FindVictim, RemoveRow, ExpungeLocked, diskVars
  <2> QED
    BY <1>4, <2>1, <2>2, <2>3, <2>4, WithoutAppends
<1>5. ASSUME NEW p \in Procs, IOError(p) PROVE FALSE
  <2>1. pc[p] = "rename" /\ file' = [file EXCEPT ![job[p].key] = NoFile]
    BY <1>2, <1>5 DEF IOError
  <2>2. job[p].key \in Keys /\ file[job[p].key].dir = "tmp"
    BY <2>1 DEF ListingInv, InTmp, KeysKnown, HasKey
  <2> QED
    BY <1>1, <2>1, <2>2 DEF OnDisk
<1>6. CASE Drop
  BY <1>1, <1>6 DEF Drop, OnDisk
<1>7. CASE Restart \/ UNCHANGED vars
  BY <1>2, <1>7 DEF Restart, vars, diskVars
<1> QED
  BY <1>3, <1>4, <1>5, <1>6, <1>7 DEF Next

\* Only the end of a removal and a reload that has not found the file take the
\* row of a message.
LEMMA RowVanishes ==
    ASSUME TypeOK, KeysKnown, NoAppends, [Next]_vars, NEW k \in Keys,
           row[k].uid # 0, row'[k].uid # row[k].uid
    PROVE  \E p \in Procs :
               RemoveRow(p) \/ (Prune(p) /\ k \notin KeysOf(scan.found))
<1>1. row \in [Keys -> Row] /\ row' # row
  BY ShownTypes
<1>2. ASSUME NEW p \in Procs, Begin(p) PROVE FALSE
  BY <1>1, <1>2
     DEF Begin, Deliver, AppendMessage, StartDelivery, StartReload,
         StoreFlags, Expunge, Purge, StartRemoval, dbVars
<1>3. ASSUME NEW p \in Procs, Continue(p), ~RemoveRow(p)
      PROVE  Prune(p) /\ k \notin KeysOf(scan.found)
  <2>1. CASE \/ RenameToNew(p) \/ PersistFile(p) \/ FindVictim(p)
             \/ Unlink(p) \/ ExpungeLocked(p) \/ ListSecond(p)
             \/ KeepListed(p) \/ AddIndexed(p) \/ ReloadFails(p)
             \/ FinishReload(p)
    BY <1>1, <2>1
       DEF RenameToNew, PersistFile, FindVictim, Unlink, ExpungeLocked,
           ListSecond, KeepListed, AddIndexed, ReloadFails, FinishReload,
           dbVars
  <2>2. CASE PersistRow(p)
    BY <2>2, PersistKeepsUids
  <2>3. CASE Prune(p)
    BY <1>1, <2>3 DEF Prune, DeleteMessagesNotIn, ListedKeys
  <2>4. CASE AddUnindexed(p)
    <3>1. PICK e \in scan.todo : InsertMessage(e.key, e.flags)
      BY <2>4 DEF AddUnindexed
    <3> QED
      BY <1>1, <3>1 DEF InsertMessage, MayInsert
  <2> QED
    BY <1>3, <2>1, <2>2, <2>3, <2>4, WithoutAppends DEF Reload
<1>4. ASSUME NEW p \in Procs, IOError(p) PROVE FALSE
  BY <1>1, <1>4 DEF IOError, dbVars
<1>5. ~(Drop \/ Restart \/ UNCHANGED vars)
  BY <1>1 DEF Drop, Restart, vars, dbVars
<1> QED
  BY <1>2, <1>3, <1>4, <1>5 DEF Next

\* While the folder is not loaded, what has a row keeps it and its file.
LEMMA NothingLost ==
    ASSUME TypeOK, KeysKnown, ListingInv, NoAppends, UidInv, ScanInv, GoneInv,
           ~loaded, [Next]_vars, NEW a \in assigned, OnDisk(a[1]), Current(a)
    PROVE  OnDisk(a[1])' /\ Current(a)'
<1>1. a[1] \in Keys /\ Settled(a[1]) /\ a[2] \in Nat \ {0}
  BY ShownTypes DEF UidInv, TypeOK
<1>2. \A p \in Procs : ~Unlink(p) /\ ~RemoveRow(p)
  BY DEF GoneInv, Removing, Unlink, RemoveRow
<1>3. OnDisk(a[1])'
  BY <1>1, <1>2, FileVanishes
<1>4. ASSUME NEW p \in Procs, Prune(p) PROVE a[1] \in KeysOf(scan.found)
  <2>1. PruneInv /\ since \subseteq KeysOf(scan.found)
    BY <1>4 DEF Prune, ScanInv, Listing, ListingInv, ListingMissesNothing
  <2> QED
    BY <1>1, <2>1 DEF PruneInv, Assigned
<1>5. row[a[1]].uid # 0
  BY <1>1 DEF Current
<1>6. row'[a[1]].uid = row[a[1]].uid
  BY <1>1, <1>2, <1>4, <1>5, RowVanishes
<1> QED
  BY <1>3, <1>6 DEF Current

\* What a reload has found, it has found just now, or had found before; and
\* while it runs the list stays as it is.
LEMMA FoundBefore ==
    ASSUME TypeOK, KeysKnown, ListingInv, NoAppends, [Next]_vars, Scanning',
           NEW e \in scan'.found
    PROVE  \/ OnDisk(e.key)'
           \/ Scanning /\ e \in scan.found /\ UNCHANGED l
<1>1. /\ pc \in [Procs -> {"idle", "rename", "insert", "dbflags",
                           "letters", "push", "list", "prune", "build",
                           "dbstore", "file", "remove", "unlink",
                           "unindex", "apply"}]
      /\ scan \in Scan
  BY DEF TypeOK
<1>2. MuHeld /\ NoScan.found = {}
  BY DEF ListingInv, NoScan
<1> USE DEF Goto, Done
\* A step of p that is not one of the reload.
<1>3. ASSUME NEW p \in Procs, NEW s, s \notin Phases,
             pc' = [pc EXCEPT ![p] = s], UNCHANGED scan,
             mu = NoProc \/ UNCHANGED l
      PROVE  Scanning /\ e \in scan.found /\ UNCHANGED l
  <2>1. PICK q \in Procs : pc'[q] \in Phases
    BY DEF Scanning, Phases
  <2>2. pc[q] = pc'[q]
    BY <1>1, <1>3, <2>1
  <2>3. mu = q /\ mu # NoProc
    BY <1>2, <2>1, <2>2, MailboxAssumption DEF MuHeld, Critical, Phases
  <2> QED
    BY <1>3, <2>1, <2>2, <2>3 DEF Scanning, Phases
<1>4. ASSUME NEW p \in Procs, Begin(p)
      PROVE  \/ OnDisk(e.key)'
             \/ Scanning /\ e \in scan.found /\ UNCHANGED l
  <2>1. CASE StartReload(p)
    <3>1. scan'.found = EntriesOf(DirOrder[1]) /\ UNCHANGED file
      BY <2>1 DEF StartReload, NoScan, diskVars
    <3>2. DirOrder[1] = "new"
      BY DEF DirOrder
    <3> QED
      BY <3>1, <3>2 DEF EntriesOf, OnDisk
  <2>2. CASE ~StartReload(p)
    <3>1. \E s \in {"rename", "dbstore", "remove"} : pc' = [pc EXCEPT ![p] = s]
      BY <1>4, <2>2
         DEF Begin, Deliver, AppendMessage, StartDelivery, StoreFlags, Expunge,
             Purge, StartRemoval
    <3>2. UNCHANGED scan /\ (mu = NoProc \/ UNCHANGED l)
      BY <1>4, <2>2
         DEF Begin, Deliver, AppendMessage, StartDelivery, StoreFlags, Expunge,
             Purge, StartRemoval
    <3> QED
      BY <1>3, <3>1, <3>2 DEF Phases
  <2> QED
    BY <2>1, <2>2
<1>5. ASSUME NEW p \in Procs, Continue(p)
      PROVE  \/ OnDisk(e.key)'
             \/ Scanning /\ e \in scan.found /\ UNCHANGED l
  <2>1. CASE ListSecond(p)
    <3>1. scan'.found = scan.found \cup EntriesOf(DirOrder[2])
      BY <1>1, <2>1 DEF ListSecond, Scan
    <3>2. UNCHANGED <<file, l>> /\ Scanning
      BY <2>1 DEF ListSecond, Scanning, diskVars
    <3>3. DirOrder[2] = "cur"
      BY DEF DirOrder
    <3> QED
      BY <3>1, <3>2, <3>3 DEF EntriesOf, OnDisk
  <2>2. CASE Prune(p) \/ KeepListed(p) \/ AddIndexed(p) \/ AddUnindexed(p)
    <3>1. scan'.found = scan.found /\ UNCHANGED l
      BY <1>1, <2>2
         DEF Prune, KeepListed, AddIndexed, AddUnindexed, List, Scan
    <3>2. Scanning
      BY <2>2
         DEF Prune, KeepListed, AddIndexed, AddUnindexed, Turn, Scanning
    <3> QED
      BY <3>1, <3>2
  <2>3. CASE ReloadFails(p) \/ FinishReload(p)
    BY <1>2, <2>3 DEF ReloadFails, FinishReload
  <2>4. CASE \/ RenameToNew(p) \/ PersistRow(p) \/ PersistFile(p)
             \/ FindVictim(p) \/ Unlink(p) \/ RemoveRow(p) \/ ExpungeLocked(p)
    <3>1. \E s \in {"idle", "insert", "file", "remove", "unlink",
                      "unindex", "apply"} :
              pc' = [pc EXCEPT ![p] = s]
      BY <2>4 DEF RenameToNew, PersistRow, PersistFile, FindVictim, Unlink,
                  RemoveRow, ExpungeLocked
    <3>2. UNCHANGED scan /\ (mu = NoProc \/ UNCHANGED l)
      BY <2>4 DEF RenameToNew, PersistRow, PersistFile, FindVictim, Unlink,
                  RemoveRow, ExpungeLocked
    <3> QED
      BY <1>3, <3>1, <3>2 DEF Phases
  <2> QED
    BY <1>5, <2>1, <2>2, <2>3, <2>4, WithoutAppends DEF Reload
<1>6. ASSUME NEW p \in Procs, IOError(p)
      PROVE  Scanning /\ e \in scan.found /\ UNCHANGED l
  <2>1. UNCHANGED scan
    BY <1>2, <1>6 DEF IOError
  <2>2. pc' = [pc EXCEPT ![p] = "idle"] /\ UNCHANGED l
    BY <1>6 DEF IOError
  <2> QED
    BY <1>3, <2>1, <2>2 DEF Phases
<1>7. CASE Drop \/ UNCHANGED vars
  BY <1>7 DEF Drop, vars, Scanning
<1>8. CASE Restart
  BY <1>2, <1>8 DEF Restart
<1> QED
  BY <1>4, <1>5, <1>6, <1>7, <1>8 DEF Next

\* The new list has every message that has a row, and only what it may hold.
LEMMA FinishView ==
    ASSUME TypeOK, UidInv, OfferInv, BuildInv, NEW p \in Procs,
           FinishReload(p)
    PROVE  /\ \A a \in assigned : Current(a) => a \in Shown(l')
           /\ Shown(l') \subseteq assigned
           /\ \A m \in Shown(l') : Offered(m)
           /\ told' = told \cup Shown(l')
           /\ UNCHANGED <<file, row, assigned, stranded>>
<1>1. ASSUME NEW a \in assigned, Current(a) PROVE a \in Shown(l')
  <2>1. a \in Keys \X (Nat \ {0})
    BY DEF TypeOK
  <2>2. a[1] \in KeysOf(scan.found) /\ scan.todo = {}
    BY <1>1, <2>1 DEF BuildInv, Current, FinishReload
  <2>3. PICK j \in DOMAIN scan.list : scan.list[j].key = a[1]
    <3>1. a[1] \notin KeysOf(scan.todo)
      BY <2>2 DEF KeysOf
    <3> QED
      BY <2>2, <3>1 DEF BuildInv
  <2>4. PICK i \in DOMAIN l' : l'[i] = scan.list[j]
    BY FinishShown
  <2>5. scan.list[j].uid = a[2]
    BY <1>1, <2>1, <2>3 DEF BuildInv, RowIs, Current
  <2>6. <<l'[i].key, l'[i].uid>> = a
    BY <2>1, <2>3, <2>4, <2>5
  <2> QED
    BY <2>6 DEF Shown
<1>2. ASSUME NEW m \in Shown(l') PROVE Offered(m)
  <2>1. PICK i \in DOMAIN l' : m = <<l'[i].key, l'[i].uid>>
    BY DEF Shown
  <2>2. PICK j \in DOMAIN scan.list : l'[i] = scan.list[j]
    BY FinishShown
  <2>3. Building /\ m \in Offers
    BY <2>1, <2>2 DEF FinishReload, Building, Offers, Shown
  <2> QED
    BY <2>3 DEF OfferInv
<1>3. Shown(l') \subseteq assigned
  BY FinishShown
<1>4. /\ told' = told \cup Shown(l')
      /\ UNCHANGED <<file, row, assigned, stranded>>
  BY DEF FinishReload, diskVars, dbVars
<1> QED
  BY <1>1, <1>2, <1>3, <1>4

\* Who changes what is shown.
LEMMA ShownStep ==
    ASSUME TypeOK, NoAppends, [Next]_vars
    PROVE  \/ \E p \in Procs : FinishReload(p) \/ ExpungeLocked(p)
           \/ Restart
           \/ Shown(l') = Shown(l) /\ UNCHANGED told
<1>1. UNCHANGED l => Shown(l') = Shown(l)
  OBVIOUS
<1>2. ASSUME NEW p \in Procs, Begin(p)
      PROVE  Shown(l') = Shown(l) /\ UNCHANGED told
  <2>1. CASE StoreFlags(p)
    BY <2>1, StoreSameList DEF SameList, Shown, StoreFlags, history
  <2>2. CASE ~StoreFlags(p)
    BY <1>1, <1>2, <2>2
       DEF Begin, Deliver, AppendMessage, StartDelivery, StartReload, Expunge,
           Purge, StartRemoval, history
  <2> QED
    BY <2>1, <2>2
<1>3. ASSUME NEW p \in Procs, Continue(p), ~FinishReload(p), ~ExpungeLocked(p)
      PROVE  Shown(l') = Shown(l) /\ UNCHANGED told
  <2>1. CASE Reload(p)
    BY <1>1, <1>3, <2>1, ReloadQuiet
  <2>2. CASE \/ RenameToNew(p) \/ PersistRow(p) \/ PersistFile(p)
             \/ FindVictim(p) \/ Unlink(p) \/ RemoveRow(p)
    BY <1>1, <2>2
       DEF RenameToNew, PersistRow, PersistFile, FindVictim, Unlink,
           RemoveRow, history
  <2> QED
    BY <1>3, <2>1, <2>2, WithoutAppends
<1>4. ASSUME NEW p \in Procs, IOError(p)
      PROVE  Shown(l') = Shown(l) /\ UNCHANGED told
  BY <1>1, <1>4 DEF IOError
<1>5. CASE Drop \/ UNCHANGED vars
  BY <1>1, <1>5 DEF Drop, vars, history
<1> QED
  BY <1>2, <1>3, <1>4, <1>5 DEF Next

\* Only a reload that finishes shows something new.
LEMMA ShownLess ==
    ASSUME TypeOK, NoAppends, [Next]_vars
    PROVE  \/ \E p \in Procs : FinishReload(p)
           \/ Shown(l') \subseteq Shown(l) /\ UNCHANGED told
<1>1. ASSUME NEW p \in Procs, ExpungeLocked(p)
      PROVE  Shown(l') \subseteq Shown(l) /\ UNCHANGED told
  <2>1. PICK f : \A i \in DOMAIN l' : f[i] \in DOMAIN l /\ l'[i] = l[f[i]]
    BY <1>1, ExpungeShown
  <2> QED
    BY <1>1, <2>1 DEF Shown, ExpungeLocked
<1>2. CASE Restart
  BY <1>2 DEF Restart, Shown
<1> QED
  BY <1>1, <1>2, ShownStep

\* A UID is given out by a reload, to a file that it has found and that is not
\* in the list; and it is the next one.
LEMMA GivenToFound ==
    ASSUME TypeOK, KeysKnown, NoAppends, [Next]_vars,
           NEW a \in assigned', a \notin assigned
    PROVE  /\ a[2] = uidNext
           /\ Building /\ UNCHANGED <<file, told>>
           /\ \E e \in scan.todo : e.key = a[1] /\ ~InList(a[1])
<1>1. ASSUME NEW p \in Procs, AddUnindexed(p)
      PROVE  /\ a[2] = uidNext
             /\ Building /\ UNCHANGED <<file, told>>
             /\ \E e \in scan.todo : e.key = a[1] /\ ~InList(a[1])
  <2>1. PICK e \in scan.todo : /\ Turn(p, e)
                               /\ IsUnindexed(e)
                               /\ InsertMessage(e.key, e.flags)
                               /\ UNCHANGED <<file, told>>
    BY <1>1 DEF AddUnindexed, List, diskVars, history
  <2>2. a = <<e.key, uidNext>>
    BY <2>1 DEF InsertMessage, NextUid
  <2> QED
    BY <2>1, <2>2 DEF Turn, Building, IsUnindexed
<1>2. ASSUME NEW p \in Procs, Begin(p) PROVE UNCHANGED assigned
  BY <1>2 DEF Begin, Deliver, AppendMessage, StartDelivery, StartReload,
              StoreFlags, Expunge, Purge, StartRemoval, dbVars
<1>3. ASSUME NEW p \in Procs, Continue(p), ~AddUnindexed(p)
      PROVE  UNCHANGED assigned
  <2>1. CASE Reload(p)
    BY <1>3, <2>1
       DEF Reload, ListSecond, Prune, DeleteMessagesNotIn, KeepListed,
           AddIndexed, ReloadFails, FinishReload, dbVars
  <2>2. CASE \/ RenameToNew(p) \/ PersistRow(p) \/ PersistFile(p)
             \/ FindVictim(p) \/ Unlink(p) \/ RemoveRow(p) \/ ExpungeLocked(p)
    BY <2>2
       DEF RenameToNew, PersistRow, UpdateMessageFlags, PersistFile,
           FindVictim, Unlink, RemoveRow, DeleteMessageByKey, ExpungeLocked,
           dbVars
  <2> QED
    BY <1>3, <2>1, <2>2, WithoutAppends
<1>4. ASSUME NEW p \in Procs, IOError(p) PROVE UNCHANGED assigned
  BY <1>4 DEF IOError, dbVars
<1>5. CASE Drop \/ Restart \/ UNCHANGED vars
  BY <1>5 DEF Drop, Restart, vars, dbVars
<1> QED
  BY <1>1, <1>2, <1>3, <1>4, <1>5 DEF Next

\* The folder is loaded when a reload finishes, and until the server stops.
LEMMA LoadedStep ==
    ASSUME NoAppends, [Next]_vars
    PROVE  /\ loaded => loaded' \/ Restart
           /\ loaded' => loaded \/ \E p \in Procs : FinishReload(p)
<1>1. ASSUME NEW p \in Procs, Begin(p) PROVE UNCHANGED loaded
  BY <1>1 DEF Begin, Deliver, AppendMessage, StartDelivery, StartReload,
              StoreFlags, Expunge, Purge, StartRemoval
<1>2. ASSUME NEW p \in Procs, Continue(p), ~FinishReload(p)
      PROVE  UNCHANGED loaded
  BY <1>2, WithoutAppends
     DEF RenameToNew, Reload, ListSecond, Prune, KeepListed, AddIndexed,
         AddUnindexed, List, ReloadFails, PersistRow, PersistFile,
         FindVictim, Unlink, RemoveRow, ExpungeLocked
<1>3. \A p \in Procs : FinishReload(p) => loaded'
  BY DEF FinishReload
<1>4. ASSUME NEW p \in Procs, IOError(p) PROVE UNCHANGED loaded
  BY <1>4 DEF IOError
<1>5. Restart => ~loaded'
  BY DEF Restart
<1>6. Drop \/ UNCHANGED vars => UNCHANGED loaded
  BY DEF Drop, vars
<1> QED
  BY <1>1, <1>2, <1>3, <1>4, <1>5, <1>6 DEF Next

\* What EXPUNGE takes out of the list has lost its row.
LEMMA ExpungedLost ==
    ASSUME TypeOK, GoneInv, VictimInv, NEW p \in Procs, ExpungeLocked(p),
           NEW m \in Shown(l), m \notin Shown(l')
    PROVE  ~Current(m)
<1>1. PICK j \in DOMAIN l : m = <<l[j].key, l[j].uid>>
  BY DEF Shown
<1>2. Object(l[j]) \in job[p].victims
  <2>1. ASSUME Object(l[j]) \notin job[p].victims PROVE FALSE
    <3>1. PICK i \in DOMAIN l' : l'[i] = l[j]
      BY <2>1, ExpungeShown
    <3> QED
      BY <1>1, <3>1 DEF Shown
  <2> QED
    BY <2>1
<1>3. pc[p] = "apply" /\ job[p].left = {}
  BY DEF ExpungeLocked, VictimInv, VictimsOf
<1>4. PICK v \in job[p].victims : v = Object(l[j])
  BY <1>2
<1>5. ~Current(<<v[1], v[3]>>)
  BY <1>3, <1>4 DEF GoneInv, Pending
<1> QED
  BY <1>1, <1>4, <1>5 DEF Object

LEMMA ToldStep ==
    ASSUME TypeOK, KeysKnown, UidsBelowNext, NoAppends, ShownInv, ViewInv,
           [Next]_vars
    PROVE  ToldInv'
<1>1. UidInv /\ VictimInv /\ ScanInv /\ ToldInv /\ GoneInv /\ OfferInv
  BY DEF ShownInv, ViewInv
<1>2. ASSUME NEW p \in Procs, FinishReload(p) PROVE ToldInv'
  <2>1. BuildInv
    BY <1>1, <1>2 DEF FinishReload, ScanInv, Building
  <2>2. /\ \A a \in assigned : Current(a) => a \in Shown(l')
        /\ told' = told \cup Shown(l') /\ told' \subseteq assigned
        /\ UNCHANGED <<row, assigned>>
    BY <1>1, <1>2, <2>1, FinishView DEF UidInv
  <2>3. \A a : Current(a)' <=> Current(a)
    BY <2>2 DEF Current
  <2> QED
    BY <2>2, <2>3 DEF ToldInv
<1>3. CASE Shown(l') \subseteq Shown(l) /\ UNCHANGED told
  <2>1. Shown(l') \subseteq told'
    BY <1>1, <1>3 DEF ToldInv
  <2>2. ASSUME loaded', NEW m \in told, Current(m)' PROVE m \in Shown(l')
    <3>1. m \in assigned
      BY <1>1 DEF UidInv
    <3>2. Current(m)
      BY <2>2, <3>1, CurrentBefore
    <3>3. CASE \E p \in Procs : FinishReload(p)
      BY <1>2, <1>3, <2>2, <3>3 DEF ToldInv
    <3>4. CASE ~\E p \in Procs : FinishReload(p)
      <4>1. m \in Shown(l)
        BY <1>1, <2>2, <3>2, <3>4, LoadedStep DEF ToldInv
      <4>2. ASSUME NEW p \in Procs, ExpungeLocked(p) PROVE m \in Shown(l')
        BY <1>1, <3>2, <4>1, <4>2, ExpungedLost
      <4>3. ~Restart
        BY <2>2 DEF Restart
      <4> QED
        BY <3>4, <4>1, <4>2, <4>3, ShownStep
    <3> QED
      BY <3>3, <3>4
  <2>3. ASSUME NEW a \in assigned' \ told, Current(a)' PROVE IsNew(a)
    <3>1. CASE a \in assigned
      BY <1>1, <2>3, <3>1, CurrentBefore DEF ToldInv
    <3>2. CASE a \notin assigned
      <4>1. a[2] = uidNext
        BY <3>2, GivenToFound
      <4>2. \A t \in told : t[2] < uidNext
        BY <1>1 DEF UidInv, UidsBelowNext
      <4> QED
        BY <2>3, <4>1, <4>2 DEF IsNew
    <3> QED
      BY <3>1, <3>2
  <2> QED
    BY <1>3, <2>1, <2>2, <2>3 DEF ToldInv, IsNew
<1> QED
  BY <1>2, <1>3, ShownLess

LEMMA GoneStep ==
    ASSUME TypeOK, KeysKnown, ListingInv, UidsBelowNext, NoAppends, ShownInv,
           ViewInv, [Next]_vars
    PROVE  GoneInv'
<1>1. /\ UidInv /\ VictimInv /\ ScanInv /\ ToldInv /\ GoneInv
      /\ NoJob.victims = {}
  BY DEF ShownInv, ViewInv, NoJob
<1>2. /\ pc \in [Procs -> {"idle", "rename", "insert", "dbflags",
                           "letters", "push", "list", "prune", "build",
                           "dbstore", "file", "remove", "unlink",
                           "unindex", "apply"}]
      /\ job \in [Procs -> Job] /\ row \in [Keys -> Row]
  BY ShownTypes
<1> USE DEF Goto, Done
<1>3. ASSUME NEW q \in Procs, Removing(q)' PROVE loaded'
  <2>1. ASSUME NEW p \in Procs, Begin(p) PROVE Removing(q) \/ loaded
    BY <1>2, <1>3, <2>1
       DEF Begin, Deliver, AppendMessage, StartDelivery, StartReload,
           StoreFlags, Expunge, Purge, StartRemoval, Removing
  <2>2. ASSUME NEW p \in Procs, Continue(p) PROVE Removing(q)
    <3>1. CASE \/ RenameToNew(p) \/ ListSecond(p) \/ Prune(p)
               \/ ReloadFails(p) \/ FinishReload(p) \/ PersistRow(p)
               \/ PersistFile(p) \/ ExpungeLocked(p)
      BY <1>2, <1>3, <3>1
         DEF RenameToNew, ListSecond, Prune, ReloadFails, FinishReload,
             PersistRow, PersistFile, ExpungeLocked, Removing
    <3>2. CASE KeepListed(p) \/ AddIndexed(p) \/ AddUnindexed(p)
      BY <1>3, <3>2
         DEF KeepListed, AddIndexed, AddUnindexed, List, Removing
    <3>3. CASE FindVictim(p) \/ Unlink(p) \/ RemoveRow(p)
      BY <1>2, <1>3, <3>3 DEF FindVictim, Unlink, RemoveRow, Removing
    <3> QED
      BY <2>2, <3>1, <3>2, <3>3, WithoutAppends DEF Reload
  <2>3. ASSUME NEW p \in Procs, IOError(p) PROVE Removing(q)
    BY <1>2, <1>3, <2>3 DEF IOError, Removing
  <2>4. ~Restart
    BY <1>3 DEF Restart, Removing
  <2>5. Removing(q) \/ loaded
    <3>1. CASE Drop \/ UNCHANGED vars
      BY <1>3, <3>1 DEF Drop, vars, Removing
    <3> QED
      BY <2>1, <2>2, <2>3, <2>4, <3>1 DEF Next
  <2> QED
    BY <1>1, <2>4, <2>5, LoadedStep DEF GoneInv
<1>4. told \subseteq told'
  BY ShownLess DEF FinishReload
\* What was dealt with stays so.
<1>5. ASSUME NEW m \in told, ~Current(m) PROVE ~Current(m)'
  BY <1>1, <1>5, CurrentBefore DEF UidInv
<1>6. ASSUME NEW q \in Procs, NEW v \in job'[q].victims
      PROVE  /\ <<v[1], v[3]>> \in told'
             /\ \/ v \in job'[q].left \/ Pending(q, v)'
                \/ ~Current(<<v[1], v[3]>>)'
  <2> DEFINE m == <<v[1], v[3]>>
  <2>1. CASE job'[q] = job[q] /\ pc'[q] = pc[q]
    <3>1. /\ m \in told
          /\ v \in job[q].left \/ Pending(q, v) \/ ~Current(m)
      BY <1>1, <1>6, <2>1 DEF GoneInv
    <3> QED
      BY <1>4, <1>5, <2>1, <3>1 DEF Pending
  \* A goroutine that removes nothing has no victims, and gets none.
  <2>2. CASE ~Removing(q) /\ job'[q].victims = job[q].victims
    BY <1>1, <1>6, <2>2 DEF VictimInv, VictimsOf
  <2>3. CASE job'[q].victims = {}
    BY <1>6, <2>3
  \* One step of a removal that is under way.
  <2>4. ASSUME job'[q].victims = job[q].victims,
               v \in job[q].left => v \in job'[q].left \/ Pending(q, v)',
               Pending(q, v) => Pending(q, v)' \/ ~Current(m)'
        PROVE  /\ m \in told'
               /\ v \in job'[q].left \/ Pending(q, v)' \/ ~Current(m)'
    <3>1. /\ m \in told
          /\ v \in job[q].left \/ Pending(q, v) \/ ~Current(m)
      BY <1>1, <1>6, <2>4 DEF GoneInv
    <3> QED
      BY <1>4, <1>5, <2>4, <3>1
  <2>5. ASSUME NEW V, NEW kind, StartRemoval(q, kind, V),
               \A x \in V : Listed(x)
        PROVE  m \in told' /\ v \in job'[q].left
    <3>1. job'[q].victims = V /\ job'[q].left = V
      BY <1>2, <2>5 DEF StartRemoval, NoJob
    <3>2. PICK i \in DOMAIN l : Object(l[i]) = v
      BY <1>6, <2>5, <3>1 DEF Listed
    <3>3. v[1] = l[i].key /\ v[3] = l[i].uid
      BY <3>2 DEF Object
    <3> QED
      BY <1>1, <1>4, <1>6, <3>1, <3>3 DEF ToldInv, Shown
  <2>6. ASSUME NEW p \in Procs, Begin(p)
        PROVE  /\ m \in told'
               /\ v \in job'[q].left \/ Pending(q, v)' \/ ~Current(m)'
    <3>1. CASE p # q
      <4>1. job'[q] = job[q] /\ pc'[q] = pc[q]
        BY <1>2, <2>6, <3>1
           DEF Begin, Deliver, AppendMessage, StartDelivery, StartReload,
               StoreFlags, Expunge, Purge, StartRemoval
      <4> QED
        BY <2>1, <4>1
    <3>2. CASE p = q /\ (Expunge(p) \/ Purge(p))
      <4>1. CASE Expunge(q)
        <5>1. PICK V \in SUBSET Deleted : StartRemoval(q, "expunge", V)
          BY <4>1 DEF Expunge
        <5>2. \A x \in V : Listed(x)
          BY DEF Deleted, Listed
        <5> QED
          BY <2>5, <5>1, <5>2
      <4>2. CASE Purge(q)
        <5>1. PICK i \in DOMAIN l : StartRemoval(q, "purge", {Object(l[i])})
          BY <4>2 DEF Purge
        <5>2. \A x \in {Object(l[i])} : Listed(x)
          BY DEF Listed
        <5> QED
          BY <2>5, <5>1, <5>2
      <4> QED
        BY <3>2, <4>1, <4>2
    <3>3. CASE p = q /\ (Deliver(p) \/ AppendMessage(p) \/ StoreFlags(p))
      <4>1. \E k, n, F : job' = [job EXCEPT ![q] =
                [NoJob EXCEPT !.kind = k, !.key = n, !.flags = F]]
        <5>1. CASE StoreFlags(q)
          BY <5>1 DEF StoreFlags
        <5>2. CASE Deliver(q) \/ AppendMessage(q)
          <6>1. PICK kind, F : StartDelivery(q, kind, F)
            BY <5>2 DEF Deliver, AppendMessage
          <6> QED
            BY <6>1 DEF StartDelivery
        <5> QED
          BY <3>3, <5>1, <5>2
      <4>2. job'[q].victims = {}
        BY <1>2, <4>1 DEF NoJob
      <4> QED
        BY <2>3, <4>2
    <3>4. CASE p = q /\ StartReload(p)
      <4>1. job'[q].victims = job[q].victims /\ ~Removing(q)
        BY <1>2, <3>4 DEF StartReload, Removing, Job
      <4> QED
        BY <2>2, <4>1
    <3> QED
      BY <2>6, <3>1, <3>2, <3>3, <3>4 DEF Begin
  <2>7. ASSUME NEW p \in Procs, Continue(p)
        PROVE  /\ m \in told'
               /\ v \in job'[q].left \/ Pending(q, v)' \/ ~Current(m)'
    <3>1. CASE p # q
      <4>1. job'[q] = job[q] /\ pc'[q] = pc[q]
        BY <1>2, <2>7, <3>1, WithoutAppends
           DEF RenameToNew, Reload, ListSecond, Prune, KeepListed, AddIndexed,
               AddUnindexed, List, ReloadFails, FinishReload, PersistRow,
               PersistFile, FindVictim, Unlink, RemoveRow, ExpungeLocked
      <4> QED
        BY <2>1, <4>1
    <3>2. CASE p = q /\ ExpungeLocked(p)
      BY <1>1, <1>2, <2>3, <3>2 DEF ExpungeLocked
    <3>3. CASE p = q /\ (RenameToNew(p) \/ Reload(p) \/ PersistRow(p)
                         \/ PersistFile(p))
      <4>1. ~Removing(q)
        BY <3>3
           DEF RenameToNew, Reload, ListSecond, Prune, KeepListed, AddIndexed,
               AddUnindexed, Turn, ReloadFails, FinishReload, PersistRow,
               PersistFile, Removing
      <4>2. UNCHANGED job \/ job' = [job EXCEPT ![q] = NoJob]
        BY <3>3
           DEF RenameToNew, Reload, ListSecond, Prune, KeepListed, AddIndexed,
               AddUnindexed, List, ReloadFails, FinishReload, PersistRow,
               PersistFile
      <4> QED
        BY <1>1, <1>2, <2>2, <2>3, <4>1, <4>2
    <3>4. CASE p = q /\ FindVictim(p)
      <4>1. PICK x \in job[q].left :
                /\ job' = [job EXCEPT ![q].left = @ \ {x}, ![q].key = x[1],
                                      ![q].path = Find(x[1])]
                /\ pc' = [pc EXCEPT ![q] = "unlink"] /\ pc[q] = "remove"
        BY <3>4 DEF FindVictim
      <4>2. /\ job'[q].victims = job[q].victims /\ job'[q].key = x[1]
            /\ job'[q].left = job[q].left \ {x} /\ pc'[q] = "unlink"
        BY <1>2, <4>1 DEF Job
      <4> QED
        BY <2>4, <4>1, <4>2 DEF Pending
    <3>5. CASE p = q /\ Unlink(p)
      BY <1>1, <1>2, <2>3, <2>4, <3>5 DEF Unlink, Pending
    <3>6. CASE p = q /\ RemoveRow(p)
      <4>1. /\ job'[q].victims = job[q].victims
            /\ job'[q].left = job[q].left
        BY <1>2, <3>6 DEF RemoveRow, Job
      <4>2. Pending(q, v) => row'[v[1]].uid = 0
        BY <1>1, <1>2, <3>6, RowRemoved DEF Pending, NoRow
      <4>3. m \in told
        BY <1>1, <1>6, <4>1 DEF GoneInv
      <4>4. m[2] # 0
        BY <1>1, <4>3 DEF UidInv, TypeOK
      <4> QED
        BY <2>4, <4>1, <4>2, <4>4 DEF Current
    <3> QED
      BY <2>7, <3>1, <3>2, <3>3, <3>4, <3>5, <3>6, WithoutAppends
  <2>8. ASSUME NEW p \in Procs, IOError(p)
        PROVE  /\ m \in told'
               /\ v \in job'[q].left \/ Pending(q, v)' \/ ~Current(m)'
    BY <1>1, <1>2, <2>1, <2>3, <2>8 DEF IOError
  <2>9. CASE Drop \/ UNCHANGED vars
    BY <2>1, <2>9 DEF Drop, vars
  <2>10. CASE Restart
    BY <1>1, <2>3, <2>10 DEF Restart
  <2> QED
    BY <2>6, <2>7, <2>8, <2>9, <2>10 DEF Next
\* What the first reload has found stays.
<1>7. ASSUME Scanning', ~loaded', NEW e \in scan'.found
      PROVE  OnDisk(e.key)'
  <2>1. CASE Scanning /\ e \in scan.found
    <3>1. ~loaded
      BY <1>7, LoadedStep DEF Restart, Scanning
    <3>2. OnDisk(e.key) /\ e.key \in Keys /\ Settled(e.key)
      BY <1>1, <2>1, <3>1, ShownTypes DEF GoneInv, ScanInv, FoundInv
    <3>3. \A p \in Procs : ~Unlink(p)
      BY <1>1, <3>1 DEF GoneInv, Removing, Unlink
    <3> QED
      BY <3>2, <3>3, FileVanishes
  <2> QED
    BY <1>7, <2>1, FoundBefore
<1> QED
  BY <1>3, <1>6, <1>7 DEF GoneInv

\* A step beside the loop of a reload leaves that loop's variables alone.
LEMMA BuildFrame ==
    ASSUME TypeOK, ListingInv, ListingInv', NoAppends, [Next]_vars, Building',
           \A p \in Procs : /\ ~Prune(p) /\ ~KeepListed(p) /\ ~AddIndexed(p)
                            /\ ~AddUnindexed(p)
    PROVE  Building /\ UNCHANGED scan
<1>1. PICK q \in Procs : pc'[q] = "build" /\ mu' = q /\ mu' # NoProc
  BY MailboxAssumption DEF Building, ListingInv, MuHeld, Critical
<1>2. pc \in [Procs -> {"idle", "rename", "insert", "dbflags",
                        "letters", "push", "list", "prune", "build",
                        "dbstore", "file", "remove", "unlink",
                        "unindex", "apply"}]
  BY ShownTypes
<1> USE DEF Goto, Done
<1>3. ASSUME NEW p \in Procs, NEW s, s # "build", pc' = [pc EXCEPT ![p] = s]
      PROVE  Building
  BY <1>1, <1>2, <1>3 DEF Building
<1>4. ASSUME NEW p \in Procs, Begin(p) PROVE Building /\ UNCHANGED scan
  <2>1. CASE StartReload(p)
    BY <1>1, <1>2, <2>1 DEF StartReload
  <2>2. CASE ~StartReload(p)
    <3>1. /\ \E s \in {"rename", "dbstore", "remove"} :
                 pc' = [pc EXCEPT ![p] = s]
          /\ UNCHANGED scan
      BY <1>4, <2>2
         DEF Begin, Deliver, AppendMessage, StartDelivery, StoreFlags, Expunge,
             Purge, StartRemoval
    <3> QED
      BY <1>3, <3>1
  <2> QED
    BY <2>1, <2>2
<1>5. ASSUME NEW p \in Procs, Continue(p) PROVE Building /\ UNCHANGED scan
  <2>1. CASE ListSecond(p)
    BY <1>1, <1>2, <2>1 DEF ListSecond, ListingInv, MuHeld, Critical
  <2>2. ~ReloadFails(p) /\ ~FinishReload(p)
    BY <1>1 DEF ReloadFails, FinishReload
  <2>3. CASE \/ RenameToNew(p) \/ PersistRow(p) \/ PersistFile(p)
             \/ FindVictim(p) \/ Unlink(p) \/ RemoveRow(p)
             \/ ExpungeLocked(p)
    <3>1. /\ \E s \in {"idle", "insert", "file", "remove", "unlink",
                       "unindex", "apply"} : pc' = [pc EXCEPT ![p] = s]
          /\ UNCHANGED scan
      BY <2>3
         DEF RenameToNew, PersistRow, PersistFile, FindVictim, Unlink,
             RemoveRow, ExpungeLocked
    <3> QED
      BY <1>3, <3>1
  <2> QED
    BY <1>5, <2>1, <2>2, <2>3, WithoutAppends DEF Reload
<1>6. ASSUME NEW p \in Procs, IOError(p) PROVE Building /\ UNCHANGED scan
  BY <1>1, <1>3, <1>6 DEF IOError
<1>7. CASE Drop \/ UNCHANGED vars
  BY <1>7 DEF Drop, vars, Building
<1>8. ~Restart
  BY <1>1 DEF Restart
<1> QED
  BY <1>4, <1>5, <1>6, <1>7, <1>8 DEF Next

LEMMA OfferStep ==
    ASSUME TypeOK, KeysKnown, ListingInv, ListingInv', UidsBelowNext,
           NoAppends, ShownInv, ViewInv, [Next]_vars
    PROVE  OfferInv'
<1> SUFFICES ASSUME Building' PROVE \A a \in Offers' : Offered(a)'
  BY DEF OfferInv
<1>1. UidInv /\ ListInv /\ ScanInv /\ ToldInv /\ GoneInv /\ OfferInv
  BY DEF ShownInv, ViewInv
\* The list is as it was, and there is none yet if there was none.
<1>2. /\ Shown(l') = Shown(l) /\ UNCHANGED told
      /\ ~loaded => ~loaded'
  <2>1. mu' # NoProc
    BY MailboxAssumption DEF Building, ListingInv, MuHeld, Critical
  <2>2. ~Restart /\ \A p \in Procs : ~FinishReload(p)
    BY <2>1 DEF Restart, FinishReload
  <2>3. \A p \in Procs : ~ExpungeLocked(p)
    BY <2>1 DEF ExpungeLocked
  <2> QED
    BY <2>2, <2>3, ShownStep, LoadedStep
<1>3. ASSUME NEW a \in assigned, Offered(a) PROVE Offered(a)'
  BY <1>1, <1>2, <1>3, NothingLost DEF Offered, IsNew
<1>4. ASSUME Building, NEW a \in Offers PROVE Offered(a)'
  <2>1. BuildInv
    BY <1>1, <1>4 DEF ScanInv
  <2>2. a \in assigned
    BY <1>4, <2>1 DEF BuildInv, Offers, Shown
  <2> QED
    BY <1>1, <1>3, <1>4, <2>2 DEF OfferInv
<1>5. ASSUME NEW p \in Procs, Prune(p), NEW a \in Offers' PROVE Offered(a)'
  <2>1. /\ scan' = [scan EXCEPT !.rows = row] /\ pc[p] = "prune"
        /\ UNCHANGED <<l, loaded, told, file>>
    BY <1>5 DEF Prune, diskVars, history
  <2>2. /\ scan'.rows = row /\ scan'.todo = scan.todo
        /\ scan'.list = scan.list
    BY <2>1 DEF TypeOK, Scan
  <2>3. DOMAIN scan.list = {} /\ Scanning /\ scan.todo = scan.found
    BY <1>1, <2>1 DEF ScanInv, Listing, Scanning, PruneInv
  <2>4. PICK e \in scan.todo : /\ row[e.key].uid # 0
                               /\ a = <<e.key, row[e.key].uid>>
    BY <1>5, <2>2, <2>3 DEF Offers, Shown
  <2>5. e.key \in Keys /\ a \in assigned /\ Current(a) /\ a[1] = e.key
    BY <1>1, <2>4, ShownTypes DEF UidInv, Current
  <2>6. CASE a \in told /\ loaded
    BY <1>1, <1>3, <2>5, <2>6 DEF ToldInv, Offered
  <2>7. CASE a \in told /\ ~loaded
    <3>1. OnDisk(a[1])
      BY <1>1, <2>3, <2>4, <2>5, <2>7 DEF GoneInv
    <3> QED
      BY <1>3, <2>5, <2>7, <3>1 DEF Offered
  <2>8. CASE a \notin told
    BY <1>1, <1>3, <2>5, <2>8 DEF ToldInv, Offered
  <2> QED
    BY <2>6, <2>7, <2>8
<1>6. ASSUME NEW p \in Procs,
             KeepListed(p) \/ AddIndexed(p) \/ AddUnindexed(p),
             NEW a \in Offers'
      PROVE  Offered(a)'
  <2>1. Building
    BY <1>6 DEF KeepListed, AddIndexed, AddUnindexed, Turn, Building
  <2>2. PICK e, m : /\ e \in scan.todo /\ List(e, m)
                    /\ Offered(<<m.key, m.uid>>)'
    <3>1. CASE KeepListed(p)
      <4>1. PICK e \in scan.todo, i \in DOMAIN l : List(e, l[i])
        BY <3>1 DEF KeepListed
      <4>2. PICK m : m = l[i]
        OBVIOUS
      <4>3. <<m.key, m.uid>> \in Shown(l')
        BY <1>2, <4>2 DEF Shown
      <4> QED
        BY <4>1, <4>2, <4>3 DEF Offered
    <3>2. CASE AddIndexed(p)
      <4>1. PICK e \in scan.todo :
                /\ ~InList(e.key) /\ scan.rows[e.key].uid # 0
                /\ List(e, NewObject(e, scan.rows[e.key].uid,
                                     scan.rows[e.key].flags))
        BY <3>2 DEF AddIndexed
      <4>2. PICK m : m = NewObject(e, scan.rows[e.key].uid,
                                   scan.rows[e.key].flags)
        OBVIOUS
      <4>3. <<m.key, m.uid>> \in Offers
        BY <4>1, <4>2 DEF Offers, NewObject
      <4> QED
        BY <1>4, <2>1, <4>1, <4>2, <4>3
    <3>3. CASE AddUnindexed(p)
      <4>1. PICK e \in scan.todo : List(e, NewObject(e, uidNext, e.flags))
        BY <3>3 DEF AddUnindexed, NextUid
      <4>2. PICK m : m = NewObject(e, uidNext, e.flags)
        OBVIOUS
      <4>3. m.uid = uidNext
        BY <4>2 DEF NewObject
      <4>4. \A t \in told : t[2] < uidNext /\ t[2] \in Nat
        BY <1>1, ShownTypes DEF UidInv, UidsBelowNext
      <4>5. IsNew(<<m.key, m.uid>>)
        BY <4>3, <4>4, ShownTypes DEF IsNew
      <4>6. Offered(<<m.key, m.uid>>)'
        BY <1>2, <4>5 DEF Offered, IsNew
      <4> QED
        BY <4>1, <4>2, <4>6
    <3> QED
      BY <1>6, <3>1, <3>2, <3>3
  <2>3. PICK s \in Seq(Message) : s = scan.list
    BY DEF TypeOK, Scan
  <2>4. /\ scan'.todo = scan.todo \ {e} /\ scan'.rows = scan.rows
        /\ scan'.list = Append(s, m) /\ UNCHANGED l
    BY <2>2, <2>3 DEF TypeOK, Scan, List
  <2>5. Shown(Append(s, m)) \subseteq Shown(s) \cup {<<m.key, m.uid>>}
    <3> SUFFICES ASSUME NEW i \in DOMAIN Append(s, m)
                 PROVE  \/ i \in DOMAIN s /\ Append(s, m)[i] = s[i]
                        \/ Append(s, m)[i] = m
      BY DEF Shown
    <3> QED
      OBVIOUS
  <2>6. a \in Offers \/ a = <<m.key, m.uid>>
    BY <1>6, <2>3, <2>4, <2>5 DEF Offers, InList
  <2> QED
    BY <1>4, <2>1, <2>2, <2>6
<1>7. ASSUME Building, UNCHANGED scan, NEW a \in Offers' PROVE Offered(a)'
  <2>1. \A k : InList(k) <=> \E m \in Shown(l) : m[1] = k
    <3>1. \A k : InList(k) => \E m \in Shown(l) : m[1] = k
      <4> SUFFICES ASSUME NEW k, NEW i \in DOMAIN l, l[i].key = k
                   PROVE  \E m \in Shown(l) : m[1] = k
        BY DEF InList
      <4>1. <<l[i].key, l[i].uid>> \in Shown(l)
        BY DEF Shown
      <4> QED
        BY <4>1
    <3> QED
      BY <3>1 DEF InList, Shown
  <2>2. \A k : InList(k) => InList(k)'
    <3> SUFFICES ASSUME NEW k, InList(k) PROVE InList(k)'
      OBVIOUS
    <3>1. PICK m \in Shown(l') : m[1] = k
      BY <1>2, <2>1
    <3> QED
      BY <3>1 DEF Shown, InList
  <2>3. a \in Offers
    BY <1>7, <2>2 DEF Offers
  <2> QED
    BY <1>4, <1>7, <2>3
<1> QED
  BY <1>5, <1>6, <1>7, BuildFrame

\* What was shown and is not in the list stays gone, and what is not gone is
\* not lost before the next reload has ended.
LEMMA GoneStays ==
    ASSUME TypeOK, KeysKnown, ListingInv, UidsBelowNext, NoAppends, ShownInv,
           ViewInv, [Next]_vars, NEW m \in told, m \notin Shown(l)
    PROVE  OnDisk(m[1])' /\ Current(m)' <=> OnDisk(m[1]) /\ Current(m)
<1>1. /\ UidInv /\ ScanInv /\ ToldInv /\ GoneInv /\ m \in assigned
  BY DEF ShownInv, ViewInv, UidInv
<1>2. m[1] \in Keys /\ Settled(m[1])
  BY <1>1, ShownTypes DEF UidInv
<1>3. ~OnDisk(m[1]) => ~OnDisk(m[1])'
  <2>1. ~OnDisk(m[1]) => Gone(m[1])
    BY <1>2 DEF TypeOK, File, Settled, Gone, OnDisk
  <2>2. Gone(m[1]) => Gone(m[1])'
    BY <1>2, FilesStayStep DEF FilesStay
  <2> QED
    BY <2>1, <2>2 DEF Gone, OnDisk
<1>4. Current(m)' => Current(m)
  BY <1>1, CurrentBefore
<1>5. OnDisk(m[1]) /\ Current(m) => OnDisk(m[1])' /\ Current(m)'
  <2>1. Current(m) => ~loaded
    BY <1>1 DEF ToldInv
  <2> QED
    BY <1>1, <2>1, NothingLost
<1> QED
  BY <1>3, <1>4, <1>5

\* A reload that finishes is a client's look through the folder.
LEMMA FinishRefreshes ==
    ASSUME TypeOK, UidNeverReused, ShownInv, ListInv', ViewInv,
           NEW p \in Procs, FinishReload(p)
    PROVE  View!Refresh
<1>1. UidInv /\ BuildInv /\ ToldInv /\ OfferInv
  BY DEF FinishReload, ShownInv, ScanInv, Building, ViewInv
<1>2. /\ \A a \in assigned : Current(a) => a \in Shown(l')
      /\ Shown(l') \subseteq assigned
      /\ \A m \in Shown(l') : Offered(m)
      /\ told' = told \cup Shown(l')
      /\ UNCHANGED <<file, row, assigned, stranded>>
  BY <1>1, FinishView
<1>3. told \subseteq assigned /\ \A a \in assigned : a \in Keys \X (Nat \ {0})
  BY <1>1 DEF UidInv, TypeOK
<1>4. Shown(l') \cap GoneForGood = {}
  BY <1>2 DEF GoneForGood, Offered, IsNew, Current
<1>5. ASSUME NEW m \in Shown(l') \ told, NEW n \in told
      PROVE  m[2] > n[2] /\ (m[1] = n[1] => m[1] \in stranded)
  <2>1. m \in assigned /\ n \in assigned
    BY <1>2, <1>3
  <2>2. IsNew(m)
    BY <1>1, <1>2, <2>1 DEF Offered, ToldInv
  <2>3. n[2] < m[2] /\ m[2] \in Nat /\ n[2] \in Nat
    BY <1>3, <2>1, <2>2 DEF IsNew
  <2> QED
    BY <1>1, <2>1, <2>3 DEF UidInv
<1>6. ASSUME NEW m \in Shown(l'), NEW n \in Shown(l')
      PROVE  m[1] = n[1] <=> m[2] = n[2]
  <2>1. m[2] = n[2] => m[1] = n[1]
    BY <1>2 DEF UidNeverReused
  <2>2. PICK i \in DOMAIN l', j \in DOMAIN l' :
            m = <<l'[i].key, l'[i].uid>> /\ n = <<l'[j].key, l'[j].uid>>
    BY DEF Shown
  <2>3. m[1] = n[1] => i = j
    BY <2>2 DEF ListInv
  <2> QED
    BY <2>1, <2>2, <2>3
<1>7. GoneForGood' = told' \ Shown(l')
  BY <1>2, <1>3 DEF GoneForGood, Current
<1> QED
  BY <1>2, <1>4, <1>5, <1>6, <1>7 DEF View!Refresh

\* The last step of EXPUNGE is a removal.
LEMMA ExpungeRemoves ==
    ASSUME TypeOK, ShownInv, ViewInv, NEW p \in Procs, ExpungeLocked(p)
    PROVE  View!Expunge
<1>1. UNCHANGED <<file, row, told, stranded>>
  BY DEF ExpungeLocked, diskVars, dbVars
<1>2. Shown(l') \subseteq Shown(l)
  <2>1. PICK f : \A i \in DOMAIN l' : f[i] \in DOMAIN l /\ l'[i] = l[f[i]]
    BY ExpungeShown
  <2> QED
    BY <2>1 DEF Shown
<1>3. \A m \in Shown(l) \ Shown(l') : ~Current(m)
  BY ExpungedLost DEF ShownInv, ViewInv
<1>4. GoneForGood' = GoneForGood \cup (Shown(l) \ Shown(l'))
  BY <1>1, <1>2, <1>3 DEF GoneForGood, OnDisk, Current, ViewInv, ToldInv
<1> QED
  BY <1>1, <1>2, <1>4 DEF View!Expunge

LEMMA RestartForgets ==
    ASSUME TypeOK, Restart PROVE View!Forget
<1>1. Shown(l') = {} /\ UNCHANGED <<file, row, told, stranded>>
  BY DEF Restart, Shown, diskVars, dbVars
<1>2. /\ GoneForGood \subseteq GoneForGood'
      /\ GoneForGood' \subseteq GoneForGood \cup Shown(l)
  BY <1>1 DEF GoneForGood, OnDisk
<1> QED
  BY <1>1, <1>2 DEF View!Forget

\* What is stranded is a message that was told.
LEMMA StrandedTold ==
    ASSUME TypeOK, KeysKnown, NoAppends, ShownInv, ViewInv, [Next]_vars,
           stranded' # stranded
    PROVE  \E m \in told : stranded' = stranded \cup {m[1]}
<1>1. ASSUME NEW p \in Procs, Begin(p) PROVE FALSE
  BY <1>1
     DEF Begin, Deliver, AppendMessage, StartDelivery, StartReload,
         StoreFlags, Expunge, Purge, StartRemoval, history
<1>2. ASSUME NEW p \in Procs, Continue(p), ~RemoveRow(p) PROVE FALSE
  BY <1>2, WithoutAppends
     DEF RenameToNew, Reload, ListSecond, Prune, KeepListed, AddIndexed,
         AddUnindexed, List, ReloadFails, FinishReload, PersistRow,
         PersistFile, FindVictim, Unlink, ExpungeLocked, history
<1>3. ASSUME NEW p \in Procs, RemoveRow(p)
      PROVE  \E m \in told : stranded' = stranded \cup {m[1]}
  <2>1. stranded' = stranded \cup {job[p].key} /\ pc[p] = "unindex"
    BY <1>3 DEF RemoveRow
  <2>2. PICK v \in job[p].victims : v[1] = job[p].key
    BY <2>1 DEF ShownInv, VictimInv, VictimsOf
  <2>3. <<v[1], v[3]>> \in told
    BY DEF ViewInv, GoneInv
  <2> QED
    BY <2>1, <2>2, <2>3
<1>4. \A p \in Procs : ~IOError(p)
  BY DEF IOError
<1>5. ~(Drop \/ Restart \/ UNCHANGED vars)
  BY DEF Drop, Restart, vars, history
<1> QED
  BY <1>1, <1>2, <1>3, <1>4, <1>5 DEF Next

\* KeepsView for every instance in which nothing is appended: clients that
\* cache by UID and ask for what is above the highest they know miss nothing
\* and see nothing twice, across failed reloads, crashes and the removals of
\* others; only a file that EXPUNGE stranded comes back, as new mail.
THEOREM MailboxIsImapFolder ==
    ASSUME "append" \notin Kinds PROVE Spec => KeepsView
<1>1. Init => NoAppends /\ ViewInv /\ View!Init
  <2> SUFFICES ASSUME Init PROVE NoAppends /\ ViewInv /\ View!Init
    OBVIOUS
  <2>1. Shown(l) = {} /\ told = {} /\ assigned = {} /\ stranded = {}
    BY DEF Init, Shown
  <2>2. \A p \in Procs : pc[p] = "idle" /\ job[p].victims = {}
    BY DEF Init, NoJob
  <2>3. ToldInv /\ GoneInv /\ OfferInv
    BY <2>1, <2>2
       DEF ToldInv, GoneInv, OfferInv, Removing, Scanning, Building
  <2> QED
    BY <2>1, <2>3, ShownInit DEF ViewInv, View!Init, GoneForGood
<1>2. ASSUME TypeOK, KeysKnown, ListingInv, ListingInv', UidsBelowNext,
             UidNeverReused, ShownInv, ShownInv', NoAppends, ViewInv,
             [Next]_vars
      PROVE  /\ NoAppends' /\ ViewInv'
             /\ \/ View!Next
                \/ UNCHANGED <<Shown(l), told, GoneForGood, stranded>>
  <2>1. NoAppends' /\ ViewInv'
    BY <1>2, NoAppendsStep, ToldStep, GoneStep, OfferStep DEF ViewInv
  <2>2. CASE \E p \in Procs : FinishReload(p) \/ ExpungeLocked(p)
    <3>1. ListInv'
      BY <1>2 DEF ShownInv
    <3> QED
      BY <1>2, <2>1, <2>2, <3>1, FinishRefreshes, ExpungeRemoves DEF View!Next
  <2>3. CASE Restart
    BY <1>2, <2>1, <2>3, RestartForgets DEF View!Next
  <2>4. CASE Shown(l') = Shown(l) /\ UNCHANGED told
    <3>1. GoneForGood' = GoneForGood
      BY <1>2, <2>4, GoneStays DEF GoneForGood, Current
    <3>2. stranded' # stranded => View!Miss
      BY <1>2, <2>4, <3>1, StrandedTold DEF View!Miss
    <3> QED
      BY <2>1, <2>4, <3>1, <3>2 DEF View!Next
  <2> QED
    BY <1>2, <2>2, <2>3, <2>4, ShownStep
<1>3. Spec => [](TypeOK /\ UidNeverReused /\ ListingInv /\ ShownInv)
  BY ShownHolds
<1> QED
  BY <1>1, <1>2, <1>3, TypeCorrect, UidsGrow, PTL
     DEF Spec, KeepsView, View!Spec

=============================================================================
