------------------------------- MODULE Mailbox -------------------------------
(***************************************************************************)
(* One folder of one user: the Maildir directory on disk, the rows of the  *)
(* SQL index that give its messages their UIDs, and the list that every    *)
(* IMAP and webmail session of the user shares (imapbackend.Mailbox).      *)
(*                                                                         *)
(* The folder's mutex mu protects the list only.  SMTP deliveries and the  *)
(* disk and SQL halves of APPEND and EXPUNGE run without it, so each of    *)
(* them is a sequence of actions here, and a reload of the list, which     *)
(* holds mu, may fall between any two of them.                             *)
(*                                                                         *)
(* A message file is identified by its Maildir key.  Keys start with the   *)
(* nanosecond at which the delivery began, so they are numbered in that    *)
(* order.                                                                  *)
(***************************************************************************)
EXTENDS Integers, Sequences, FiniteSets

CONSTANTS
    Procs,        \* goroutines that work on the folder
    NoProc,       \* holder of mu when nobody holds it
    MaxMsgs,      \* bound: message files ever created
    MaxUid,       \* bound: the last UID ever assigned
    MaxRestarts,  \* bound: crashes and restarts of the server
    Flags,        \* flags a client may set
    Lettered,     \* the flags for which Maildir has a letter
    Junk,         \* what decodeFlags makes of a word such as "ST"
    Kinds         \* the kinds of operation that are issued

AllKinds == {"deliver", "append", "poll", "store", "expunge", "purge",
             "drop", "error"}

ASSUME MailboxAssumption ==
    /\ NoProc \notin Procs
    /\ MaxMsgs \in Nat
    /\ MaxUid \in Nat
    /\ MaxRestarts \in Nat
    /\ "Deleted" \in Flags
    /\ Lettered \subseteq Flags
    /\ Junk \notin Flags
    /\ Kinds \subseteq AllKinds

Keys == 1..MaxMsgs
AnyFlag == Flags \cup {Junk}

\* A file of the folder: the directory it is in ("none" before delivery and
\* after removal) and the letters behind the ":2," of its name.
File == [dir : {"none", "tmp", "new", "cur"}, flags : SUBSET Lettered]
NoFile == [dir |-> "none", flags |-> {}]

\* What Maildir.find returns: a directory and a name, or NoFile for ErrNotExist.
Path == {NoFile} \cup [dir : {"new", "cur"}, flags : SUBSET Lettered]

\* A row of mailbox_messages, with its flags column as decodeFlags reads it.
\* UID 0 stands for the absent row: IMAP UIDs start at 1.
Row == [uid : Nat, flags : SUBSET AnyFlag]
NoRow == [uid |-> 0, flags |-> {}]

\* A *message of the in-memory list.  Two objects may stand for one file:
\* an object is identified by its file, its UID and "via", the code path that
\* allocated it.
Message == [key : Keys, uid : Nat, flags : SUBSET AnyFlag,
            via : {"new", "cur", "append"}]
Object(m) == <<m.key, m.via, m.uid>>
Objects == Keys \X {"new", "cur", "append"} \X Nat

\* A maildir.Message: one directory entry as List returns it.
Entry == [key : Keys, flags : SUBSET Lettered, inNew : BOOLEAN]

VARIABLES
    file,      \* the folder on disk, by key
    nextKey,   \* the key of the next delivery (the clock of uniqueName)
    row,       \* the rows of mailbox_messages, by maildir_key
    uidNext,   \* mailboxes.uid_next
    l,         \* Mailbox.l
    loaded,    \* whether the Mailbox is in User.mailboxes
    mu,        \* holder of Mailbox.mu
    pc,        \* where each goroutine is
    job,       \* the local variables of each goroutine
    scan,      \* the local variables of the reload that holds mu
    restarts,
    \* History of what happened, read by the properties only:
    assigned,  \* every <<key, UID>> the index ever recorded
    told,      \* every <<key, UID>> the list ever held, for clients to see
    since,     \* keys on disk ever since the current listing began
    expunged,  \* keys whose EXPUNGE was completed
    stranded   \* keys whose row EXPUNGE dropped although their file, renamed
               \* after it was found, was still on disk

diskVars == <<file, nextKey>>
dbVars == <<row, uidNext, assigned>>
history == <<told, since, expunged, stranded>>
vars == <<file, nextKey, row, uidNext, l, loaded, mu, pc, job, scan,
          restarts, assigned, told, since, expunged, stranded>>

-----------------------------------------------------------------------------

Job == [kind : Kinds \cup {"none"}, key : Keys \cup {0}, uid : Nat,
        flags : SUBSET AnyFlag, path : Path,
        victims : SUBSET Objects, left : SUBSET Objects]
NoJob == [kind |-> "none", key |-> 0, uid |-> 0, flags |-> {},
          path |-> NoFile, victims |-> {}, left |-> {}]

Scan == [found : SUBSET Entry, todo : SUBSET Entry,
         rows : [Keys -> Row], list : Seq(Message)]
NoScan == [found |-> {}, todo |-> {}, rows |-> [k \in Keys |-> NoRow],
           list |-> <<>>]

OnDisk(k) == file[k].dir \in {"new", "cur"}
KeysOf(S) == {x.key : x \in S}
Shown(s) == {<<s[i].key, s[i].uid>> : i \in DOMAIN s}
InList(k) == \E i \in DOMAIN l : l[i].key = k

\* RawColumn models the maildir letters that InsertMessage stores in the flags
\* column as they are: a non-empty string of letters is read back as one flag
\* that no client has set.
RawColumn(letters) == IF letters = {} THEN {} ELSE {Junk}

\* Mutant: uid_next starts at 0, a UID that IMAP does not have.
MutFirstUid == 0
FirstUid == 1

Init ==
    /\ file = [k \in Keys |-> NoFile]
    /\ nextKey = 1
    /\ row = [k \in Keys |-> NoRow]
    /\ uidNext = FirstUid
    /\ l = <<>>
    /\ loaded = FALSE
    /\ mu = NoProc
    /\ pc = [p \in Procs |-> "idle"]
    /\ job = [p \in Procs |-> NoJob]
    /\ scan = NoScan
    /\ restarts = 0
    /\ assigned = {}
    /\ told = {}
    /\ since = {}
    /\ expunged = {}
    /\ stranded = {}

\* The goroutine p goes on to the step s, or is done.
Goto(p, s) == pc' = [pc EXCEPT ![p] = s]
Done(p) == Goto(p, "idle") /\ job' = [job EXCEPT ![p] = NoJob]

-----------------------------------------------------------------------------
(* The SQL index *)

\* Mutant: the next UID is derived from the rows that are left.
MutNextUid ==
    CHOOSE u \in 1..(MaxMsgs + 1) :
        /\ \A k \in Keys : row[k].uid < u
        /\ u = 1 \/ \E k \in Keys : row[k].uid = u - 1
NextUid == uidNext

\* The UNIQUE constraints on (mailbox_id, maildir_key) and (mailbox_id, uid).
MayInsert(k) == row[k].uid = 0 /\ \A j \in Keys : row[j].uid # NextUid

\* InsertMessage: one transaction.
InsertMessage(k, letters) ==
    /\ MayInsert(k)
    /\ NextUid <= MaxUid
    /\ row' = [row EXCEPT ![k] = [uid |-> NextUid,
                                  flags |-> RawColumn(letters)]]
    /\ uidNext' = NextUid + 1
    /\ assigned' = assigned \cup {<<k, NextUid>>}

\* Mutant: only the flags that have a Maildir letter reach the index.
MutUpdateMessageFlags(k, F) ==
    /\ row' = IF row[k].uid = 0 THEN row
              ELSE [row EXCEPT ![k].flags = F \cap Lettered]
    /\ UNCHANGED <<uidNext, assigned>>

\* UpdateMessageFlags: no row, no update.
UpdateMessageFlags(k, F) ==
    /\ row' = IF row[k].uid = 0 THEN row
              ELSE [row EXCEPT ![k].flags = F]
    /\ UNCHANGED <<uidNext, assigned>>

DeleteMessageByKey(k) ==
    /\ row' = [row EXCEPT ![k] = NoRow]
    /\ UNCHANGED <<uidNext, assigned>>

DeleteMessagesNotIn(K) ==
    /\ row' = [k \in Keys |-> IF k \in K THEN row[k] ELSE NoRow]
    /\ UNCHANGED <<uidNext, assigned>>

-----------------------------------------------------------------------------
(* Delivery: SMTP's Maildir.Deliver, and the same call inside APPEND *)

\* uniqueName and the write of tmp/<name>.
StartDelivery(p, kind, F) ==
    /\ pc[p] = "idle"
    /\ kind \in Kinds
    /\ nextKey \in Keys
    /\ file' = [file EXCEPT ![nextKey] = [dir |-> "tmp", flags |-> {}]]
    /\ nextKey' = nextKey + 1
    /\ job' = [job EXCEPT ![p] = [NoJob EXCEPT !.kind = kind,
                                               !.key = nextKey,
                                               !.flags = F]]
    /\ Goto(p, "rename")
    /\ UNCHANGED <<dbVars, l, loaded, mu, scan, restarts, history>>

Deliver(p) == StartDelivery(p, "deliver", {})

\* appendBytes is also what COPY, MOVE and webmail's Append call on the
\* destination folder, which User.mailbox has loaded.
AppendMessage(p) ==
    /\ loaded
    /\ \E F \in SUBSET Flags : StartDelivery(p, "append", F)

\* The rename from tmp/ to new/, which ends an SMTP delivery.
RenameToNew(p) ==
    /\ pc[p] = "rename"
    /\ file' = [file EXCEPT ![job[p].key].dir = "new"]
    /\ IF job[p].kind = "append"
         THEN Goto(p, "insert") /\ UNCHANGED job
         ELSE Done(p)
    /\ UNCHANGED <<nextKey, dbVars, l, loaded, mu, scan, restarts, history>>

\* InsertMessage in appendBytes; when a reload has indexed the file already,
\* the insert fails and APPEND answers with an error.
AppendInsert(p) ==
    /\ pc[p] = "insert"
    /\ \/ /\ InsertMessage(job[p].key, job[p].flags \cap Lettered)
          /\ Goto(p, IF job[p].flags = {} THEN "push" ELSE "dbflags")
          /\ job' = [job EXCEPT ![p].uid = NextUid]
       \/ /\ ~MayInsert(job[p].key)
          /\ Done(p)
          /\ UNCHANGED dbVars
    /\ UNCHANGED <<diskVars, l, loaded, mu, scan, restarts, history>>

AppendDbFlags(p) ==
    /\ pc[p] = "dbflags"
    /\ UpdateMessageFlags(job[p].key, job[p].flags)
    /\ Goto(p, "letters")
    /\ UNCHANGED <<diskVars, l, loaded, mu, job, scan, restarts, history>>

\* Maildir.SetFlags: the file gets its letters and is moved to cur/.
SetFlags(k, F) ==
    file' = [file EXCEPT ![k] = [dir |-> "cur", flags |-> F \cap Lettered]]

AppendLetters(p) ==
    /\ pc[p] = "letters"
    /\ \/ /\ OnDisk(job[p].key)
          /\ SetFlags(job[p].key, job[p].flags)
          /\ Goto(p, "push")
          /\ UNCHANGED job
       \/ /\ ~OnDisk(job[p].key)
          /\ Done(p)
          /\ UNCHANGED file
    /\ UNCHANGED <<nextKey, dbVars, l, loaded, mu, scan, restarts, history>>

\* The end of appendBytes, under mu.
AppendPush(p) ==
    /\ pc[p] = "push"
    /\ mu = NoProc
    /\ l' = Append(l, [key |-> job[p].key, uid |-> job[p].uid,
                       flags |-> job[p].flags, via |-> "append"])
    /\ told' = told \cup Shown(l')
    /\ Done(p)
    /\ UNCHANGED <<diskVars, dbVars, loaded, mu, scan, restarts, since,
                   expunged, stranded>>

-----------------------------------------------------------------------------
(* Reload: reloadLocked, on behalf of newMailbox, STATUS, NOOP or IDLE *)

\* Mutants: cur/ is read before new/; new/ is not read.
MutDirOrder == <<"cur", "new">>
MutDirOrderCur == <<"cur", "cur">>
\* The order in which Maildir.List reads the two directories.
DirOrder == <<"new", "cur">>

EntriesOf(d) == {[key |-> k, flags |-> file[k].flags, inNew |-> d = "new"] :
                     k \in {k \in Keys : file[k].dir = d}}

\* Lock mu and read the first directory.  The folder is loaded by its first
\* reload, for which newMailbox starts from an empty list.
StartReload(p) ==
    /\ "poll" \in Kinds
    /\ pc[p] = "idle"
    /\ mu = NoProc
    /\ mu' = p
    /\ scan' = [NoScan EXCEPT !.found = EntriesOf(DirOrder[1])]
    /\ since' = {k \in Keys : OnDisk(k)}
    /\ job' = [job EXCEPT ![p].kind = "poll"]
    /\ Goto(p, "list")
    /\ UNCHANGED <<diskVars, dbVars, l, loaded, restarts, told, expunged,
                   stranded>>

ListSecond(p) ==
    /\ pc[p] = "list"
    /\ LET all == scan.found \cup EntriesOf(DirOrder[2])
       IN  scan' = [scan EXCEPT !.found = all, !.todo = all]
    /\ Goto(p, "prune")
    /\ UNCHANGED <<diskVars, dbVars, l, loaded, mu, job, restarts, history>>

\* Mutant: the keys of the files still in new/ are left out.
MutListedKeys(found) == {e.key : e \in {d \in found : ~d.inNew}}
\* diskKeys: the keys whose rows are kept.
ListedKeys(found) == KeysOf(found)

\* ListMessages and DeleteMessagesNotIn.  What another goroutine does to the
\* index between the two statements has the effect it would have right after
\* them (on a listed key) or right before them (on any other).
Prune(p) ==
    /\ pc[p] = "prune"
    /\ scan' = [scan EXCEPT !.rows = row]
    /\ DeleteMessagesNotIn(ListedKeys(scan.found))
    /\ Goto(p, "build")
    /\ UNCHANGED <<diskVars, l, loaded, mu, job, restarts, history>>

\* The loop over the listing, in key order: e is the entry whose turn it is.
Turn(p, e) ==
    /\ pc[p] = "build"
    /\ e \in scan.todo
    /\ \A d \in scan.todo : e.key <= d.key

\* The entry e goes into the new list as the object m.
List(e, m) ==
    /\ scan' = [scan EXCEPT !.todo = @ \ {e}, !.list = Append(@, m)]
    /\ UNCHANGED <<diskVars, l, loaded, mu, pc, job, restarts, history>>

NewObject(e, uid, F) == [key |-> e.key, uid |-> uid, flags |-> F,
                         via |-> IF e.inNew THEN "new" ELSE "cur"]

\* existingByKey: the last object of the list with the entry's key.
KeepListed(p) ==
    \E e \in scan.todo, i \in DOMAIN l :
        /\ Turn(p, e)
        /\ l[i].key = e.key
        /\ \A j \in DOMAIN l : l[j].key = e.key => j <= i
        /\ List(e, l[i])
        /\ UNCHANGED dbVars

AddIndexed(p) ==
    \E e \in scan.todo :
        /\ Turn(p, e)
        /\ ~InList(e.key)
        /\ scan.rows[e.key].uid # 0
        /\ List(e, NewObject(e, scan.rows[e.key].uid, scan.rows[e.key].flags))
        /\ UNCHANGED dbVars

\* A file that was not indexed when the rows were read gets a row.
IsUnindexed(e) == ~InList(e.key) /\ scan.rows[e.key].uid = 0

AddUnindexed(p) ==
    \E e \in scan.todo :
        /\ Turn(p, e)
        /\ IsUnindexed(e)
        /\ InsertMessage(e.key, e.flags)
        /\ List(e, NewObject(e, NextUid, e.flags))

\* An append has inserted the row meanwhile, or the file was listed twice: the
\* insert fails, and the reload with it.
ReloadFails(p) ==
    \E e \in scan.todo :
        /\ Turn(p, e)
        /\ IsUnindexed(e)
        /\ ~MayInsert(e.key)
        /\ mu' = NoProc
        /\ scan' = NoScan
        /\ since' = {}
        /\ Done(p)
        /\ UNCHANGED <<diskVars, dbVars, l, loaded, restarts, told, expunged,
                       stranded>>

Permuted(s, f) == [i \in DOMAIN s |-> s[f[i]]]
Permutation(s) == {f \in [DOMAIN s -> DOMAIN s] :
                      \A i, j \in DOMAIN s : i # j => f[i] # f[j]}

\* Mutant: the list is sorted by key, that is by time of delivery.
MutNotAfter(m, n) == m.key <= n.key
NotAfter(m, n) == m.uid <= n.uid

\* The sort by UID (sort.Slice is not stable) and the swap of the list.
FinishReload(p) ==
    /\ pc[p] = "build"
    /\ scan.todo = {}
    /\ \E f \in Permutation(scan.list) :
           /\ \A i, j \in DOMAIN scan.list :
                  i < j => NotAfter(scan.list[f[i]], scan.list[f[j]])
           /\ l' = Permuted(scan.list, f)
    /\ told' = told \cup Shown(l')
    /\ loaded' = TRUE
    /\ mu' = NoProc
    /\ scan' = NoScan
    /\ since' = {}
    /\ Done(p)
    /\ UNCHANGED <<diskVars, dbVars, restarts, expunged, stranded>>

-----------------------------------------------------------------------------
(* Flags: STORE, FETCH without PEEK, webmail's SetFlags and GetMessage *)

\* One message object is given the flag set F in memory.  STORE over several
\* messages is a sequence of these: it keeps mu throughout, which only
\* excludes interleavings this model has.
StoreFlags(p) ==
    /\ "store" \in Kinds
    /\ loaded
    /\ pc[p] = "idle"
    /\ mu = NoProc
    /\ mu' = p
    /\ \E i \in DOMAIN l, F \in SUBSET AnyFlag :
        /\ F \subseteq Flags \cup l[i].flags
        /\ F # l[i].flags
        /\ l' = [j \in DOMAIN l |-> IF Object(l[j]) = Object(l[i])
                                    THEN [l[j] EXCEPT !.flags = F]
                                    ELSE l[j]]
        /\ job' = [job EXCEPT ![p] = [NoJob EXCEPT !.kind = "store",
                                                   !.key = l[i].key,
                                                   !.flags = F]]
    /\ Goto(p, "dbstore")
    /\ UNCHANGED <<diskVars, dbVars, loaded, scan, restarts, history>>

\* The two halves of persistFlagsLocked.
PersistRow(p) ==
    /\ pc[p] = "dbstore"
    /\ UpdateMessageFlags(job[p].key, job[p].flags)
    /\ Goto(p, "file")
    /\ UNCHANGED <<diskVars, l, loaded, mu, job, scan, restarts, history>>

PersistFile(p) ==
    /\ pc[p] = "file"
    /\ IF OnDisk(job[p].key) THEN SetFlags(job[p].key, job[p].flags)
                             ELSE UNCHANGED file
    /\ mu' = NoProc
    /\ Done(p)
    /\ UNCHANGED <<nextKey, dbVars, l, loaded, scan, restarts, history>>

-----------------------------------------------------------------------------
(* Removal: EXPUNGE, and webmail's expunge and the tail of its moveTo *)

StartRemoval(p, kind, V) ==
    /\ kind \in Kinds
    /\ loaded
    /\ pc[p] = "idle"
    /\ mu = NoProc
    /\ V # {}
    /\ job' = [job EXCEPT ![p] = [NoJob EXCEPT !.kind = kind,
                                               !.victims = V, !.left = V]]
    /\ Goto(p, "remove")
    /\ UNCHANGED <<diskVars, dbVars, l, loaded, mu, scan, restarts, history>>

Deleted == {Object(l[i]) : i \in {i \in DOMAIN l : "Deleted" \in l[i].flags}}

\* EXPUNGE takes every \Deleted message, UID EXPUNGE some of them.
Expunge(p) == \E V \in SUBSET Deleted : StartRemoval(p, "expunge", V)

\* findByUIDLocked: the first object with the UID, whatever its flags.
Purge(p) ==
    \E i \in DOMAIN l :
        /\ \A j \in DOMAIN l : l[j].uid = l[i].uid => i <= j
        /\ StartRemoval(p, "purge", {Object(l[i])})

\* Mutant: a file that is still in new/ is not found.
MutFind(k) == IF file[k].dir = "cur" THEN file[k] ELSE NoFile
\* Maildir.find: the file as it is in new/ or cur/.
Find(k) == IF OnDisk(k) THEN file[k] ELSE NoFile

\* Maildir.Remove is find() and then os.Remove of the path that it returned.
FindVictim(p) ==
    /\ pc[p] = "remove"
    /\ \E v \in job[p].left :
           job' = [job EXCEPT ![p].left = @ \ {v}, ![p].key = v[1],
                              ![p].path = Find(v[1])]
    /\ Goto(p, "unlink")
    /\ UNCHANGED <<diskVars, dbVars, l, loaded, mu, scan, restarts, history>>

\* The path that find() returned still leads to the file.
IsThere(p) == job[p].path # NoFile /\ file[job[p].key] = job[p].path

\* When there is no such file, because find() found none or because it was
\* removed or renamed since, EXPUNGE goes on and the webmail operations give
\* up.
Unlink(p) ==
    /\ pc[p] = "unlink"
    /\ \/ /\ IsThere(p)
          /\ file' = [file EXCEPT ![job[p].key] = NoFile]
          /\ since' = since \ {job[p].key}
          /\ Goto(p, "unindex")
          /\ UNCHANGED job
       \/ /\ ~IsThere(p)
          /\ IF job[p].kind = "expunge" THEN Goto(p, "unindex") /\ UNCHANGED job
                                        ELSE Done(p)
          /\ UNCHANGED <<file, since>>
    /\ UNCHANGED <<nextKey, dbVars, l, loaded, mu, scan, restarts, told,
                   expunged, stranded>>

\* The removal of one message ends, and its key and path are out of scope.
RemoveRow(p) ==
    /\ pc[p] = "unindex"
    /\ DeleteMessageByKey(job[p].key)
    /\ stranded' = IF OnDisk(job[p].key) /\ job[p].path # NoFile
                     THEN stranded \cup {job[p].key} ELSE stranded
    /\ Goto(p, IF job[p].left = {} THEN "apply" ELSE "remove")
    /\ job' = [job EXCEPT ![p].key = 0, ![p].path = NoFile]
    /\ UNCHANGED <<diskVars, l, loaded, mu, scan, restarts, told, since,
                   expunged>>

\* expungeLocked keeps the other messages in their order: f enumerates their
\* positions.
ExpungeLocked(p) ==
    /\ pc[p] = "apply"
    /\ mu = NoProc
    /\ LET kept == {i \in DOMAIN l : Object(l[i]) \notin job[p].victims}
           n == Cardinality(kept)
       IN  \E f \in [1..n -> kept] :
               /\ \A i, j \in 1..n : i < j => f[i] < f[j]
               /\ l' = [i \in 1..n |-> l[f[i]]]
    /\ expunged' = expunged \cup {v[1] : v \in job[p].victims}
    /\ Done(p)
    /\ UNCHANGED <<diskVars, dbVars, loaded, mu, scan, restarts, since, told,
                   stranded>>

-----------------------------------------------------------------------------
(* The rest of the world *)

\* Another tool drops a message into cur/ with flags of its own.
Drop ==
    /\ "drop" \in Kinds
    /\ nextKey \in Keys
    /\ \E F \in SUBSET Lettered :
           file' = [file EXCEPT ![nextKey] = [dir |-> "cur", flags |-> F]]
    /\ nextKey' = nextKey + 1
    /\ UNCHANGED <<dbVars, l, loaded, mu, pc, job, scan, restarts, history>>

\* A file system or SQL call fails: the handler returns its error, and leaves
\* behind what it had done before.
IOError(p) ==
    /\ "error" \in Kinds
    /\ pc[p] \notin {"idle", "push", "apply"}
    /\ pc[p] = "build" => \E e \in scan.todo : IsUnindexed(e)
    /\ file' = IF pc[p] = "rename" THEN [file EXCEPT ![job[p].key] = NoFile]
               ELSE file
    /\ mu' = IF mu = p THEN NoProc ELSE mu
    /\ scan' = IF mu = p THEN NoScan ELSE scan
    /\ since' = IF mu = p THEN {} ELSE since
    /\ Done(p)
    /\ UNCHANGED <<nextKey, dbVars, l, loaded, restarts, told, expunged,
                   stranded>>

\* The server stops, in whatever state it is, and starts again.
Restart ==
    /\ restarts < MaxRestarts
    /\ restarts' = restarts + 1
    /\ l' = <<>>
    /\ loaded' = FALSE
    /\ mu' = NoProc
    /\ pc' = [p \in Procs |-> "idle"]
    /\ job' = [p \in Procs |-> NoJob]
    /\ scan' = NoScan
    /\ since' = {}
    /\ UNCHANGED <<diskVars, dbVars, told, expunged, stranded>>

-----------------------------------------------------------------------------

Reload(p) ==
    \/ ListSecond(p)
    \/ Prune(p)
    \/ KeepListed(p)
    \/ AddIndexed(p)
    \/ AddUnindexed(p)
    \/ ReloadFails(p)
    \/ FinishReload(p)

\* The steps a goroutine takes once it has begun an operation.
Continue(p) ==
    \/ RenameToNew(p)
    \/ AppendInsert(p)
    \/ AppendDbFlags(p)
    \/ AppendLetters(p)
    \/ AppendPush(p)
    \/ Reload(p)
    \/ PersistRow(p)
    \/ PersistFile(p)
    \/ FindVictim(p)
    \/ Unlink(p)
    \/ RemoveRow(p)
    \/ ExpungeLocked(p)

Begin(p) ==
    \/ Deliver(p)
    \/ AppendMessage(p)
    \/ StartReload(p)
    \/ StoreFlags(p)
    \/ Expunge(p)
    \/ Purge(p)

Next ==
    \/ \E p \in Procs : Begin(p) \/ Continue(p) \/ IOError(p)
    \/ Drop
    \/ Restart

Spec == Init /\ [][Next]_vars

\* Every goroutine is scheduled, sync.Mutex lets no waiter starve, and some
\* session polls or idles (its ticker reloads every ten seconds).
Fairness ==
    /\ \A p \in Procs : SF_vars(Continue(p))
    /\ SF_vars(\E p \in Procs : StartReload(p))

FairSpec == Spec /\ Fairness

-----------------------------------------------------------------------------
(* Properties *)

\* Every variable stays in its type; in particular a UID is positive, as RFC
\* 3501 and the 0 that stands for an absent row require.
TypeOK ==
    /\ file \in [Keys -> File]
    /\ nextKey \in 1..(MaxMsgs + 1)
    /\ row \in [Keys -> Row]
    /\ uidNext \in Nat \ {0}
    /\ l \in Seq(Message)
    /\ loaded \in BOOLEAN
    /\ mu \in Procs \cup {NoProc}
    /\ pc \in [Procs -> {"idle", "rename", "insert", "dbflags", "letters",
                         "push", "list", "prune", "build", "dbstore", "file",
                         "remove", "unlink", "unindex", "apply"}]
    /\ job \in [Procs -> Job]
    /\ scan \in Scan
    /\ restarts \in 0..MaxRestarts
    /\ assigned \in SUBSET (Keys \X (Nat \ {0}))
    /\ told \in SUBSET (Keys \X Nat)
    /\ since \in SUBSET Keys
    /\ expunged \in SUBSET Keys
    /\ stranded \in SUBSET Keys

\* A UID, once given to a message, is never given to another one while the
\* folder lives, whatever deliveries, appends, reloads, removals, failures and
\* restarts interleave (InsertMessage).
UidNeverReused ==
    \A a, b \in assigned : a[2] = b[2] => a[1] = b[1]

\* A listing misses no message that was in the folder throughout, although it
\* reads two directories one after the other while APPEND moves files between
\* them (Maildir.List).  A missed message would lose its row and its UID.
ListingMissesNothing ==
    \A p \in Procs : pc[p] = "prune" => since \subseteq KeysOf(scan.found)

\* A message keeps the UID with which clients were first shown it: clients
\* cache by UID (message.uid).
UidStable ==
    \A a, b \in told : a[1] = b[1] => a[2] = b[2]

SortedByUid == \A i, j \in DOMAIN l : i < j => l[i].uid < l[j].uid

\* Between two critical sections the list, whose positions are the sequence
\* numbers, has each UID once, in ascending order, and the UID of a listed
\* message is that of its row (Mailbox.l).  Only a message whose file is gone,
\* or one that EXPUNGE stranded, may have lost its row.
ListAgreesWithIndex ==
    mu = NoProc =>
        /\ SortedByUid
        /\ \A i \in DOMAIN l :
               \/ row[l[i].key].uid = l[i].uid
               \/ /\ row[l[i].key].uid = 0
                  /\ ~OnDisk(l[i].key) \/ l[i].key \in stranded

\* Between two critical sections the index holds exactly the flags that
\* clients are shown: it is the source of truth for them, and what a restart
\* brings back.  A stranded file is the exception: a reload indexes it anew,
\* with its letters as they are.
IndexHoldsFlags ==
    mu = NoProc =>
        \A i \in DOMAIN l :
            row[l[i].key].uid # 0 /\ l[i].key \notin stranded =>
                row[l[i].key].flags = l[i].flags

\* A message whose EXPUNGE was completed is never listed again, unless a flag
\* change renamed its file between the two steps of Maildir.Remove, which
\* EXPUNGE takes for a file that has vanished.
ExpungedStaysGone == \A k \in expunged \ stranded : ~InList(k)

\* The messages that clients were shown and never will be again: their file or
\* their row is gone.
GoneForGood ==
    {m \in told \ Shown(l) : ~OnDisk(m[1]) \/ row[m[1]].uid # m[2]}

\* The shared list is what an IMAP client takes a folder for (ImapFolder), while
\* deliveries, reloads, removals and restarts interleave: a message that a
\* failed reload or a crash kept from the list is listed later, with a UID above
\* all that were shown, one whose file is removed under a reload does not come
\* back, and one that EXPUNGE stranded comes back as new mail only
\* (reloadLocked, Expunge).
View == INSTANCE ImapFolder
            WITH shown <- Shown(l), seen <- told, gone <- GoneForGood,
                 missed <- stranded
KeepsView == View!Spec

\* Mail that reaches the folder is eventually listed, unless it is removed
\* before.
MailAppears ==
    \A k \in Keys : OnDisk(k) ~> (InList(k) \/ ~OnDisk(k))

=============================================================================
