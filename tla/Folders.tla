-------------------------------- MODULE Folders -------------------------------
(***************************************************************************)
(* The folders of one user: the rows of mailboxes, the Maildir             *)
(* directories, the *Mailbox objects that User.mailboxes keeps by name and *)
(* that sessions hold on to, and the requests that create, delete, rename  *)
(* and list folders and copy and move messages between them.               *)
(*                                                                         *)
(* User.mu guards the map and the table; each object has a mutex mu of its *)
(* own.  The files are guarded by neither.  What a reload, STORE or        *)
(* EXPUNGE does within one folder is the subject of Mailbox; here a folder *)
(* is the set of the files in its directory.                               *)
(***************************************************************************)
EXTENDS Integers, FiniteSets, Sequences

CONSTANTS
    Procs,        \* sessions; each serves one request at a time
    NoProc,
    Names,        \* folder names, as sequences of parts: INBOX is <<>>
    NoName,
    MaxIds,       \* bound: rows ever inserted into mailboxes
    MaxObjs,      \* bound: objects made between two starts of the server
    NumMsgs,      \* messages there are
    MaxKeys,      \* bound: files ever made, the copies included
    MaxFaults,    \* bound: failing calls and stops of the server
    Kinds         \* the kinds of requests that occur

AllKinds == {"create", "delete", "rename", "list", "copy", "move", "moveTo"}

ASSUME FoldersAssumption ==
    /\ NoProc \notin Procs
    /\ <<>> \in Names
    /\ \A n \in Names : n \in Seq({n[i] : i \in DOMAIN n})
    /\ \A n \in Names : \A i \in 0..Len(n) : SubSeq(n, 1, i) \in Names
    /\ NoName \notin Names
    /\ MaxIds \in Nat \ {0}
    /\ MaxObjs \in Nat
    /\ NumMsgs \in Nat
    /\ MaxKeys \in Nat /\ NumMsgs <= MaxKeys
    /\ MaxFaults \in Nat
    /\ Kinds \subseteq AllKinds

Ids == 1..MaxIds
Objs == 1..MaxObjs
Keys == 1..MaxKeys
Msgs == 1..NumMsgs

VARIABLES
    row,       \* the mailboxes table: the name of each row, NoName if gone
    nextId,    \* its AUTOINCREMENT counter
    dirs,      \* the folders whose directory exists
    dir,       \* the files in each
    content,   \* the message in each file, 0 before there is one
    nobj,      \* objects made since the start
    dbID,      \* Mailbox.dbID
    root,      \* Mailbox.root and md: the folder whose directory it uses
    mailboxes, \* User.mailboxes
    umu, mu,   \* who holds User.mu and Mailbox.mu
    pc, job,   \* where each request is, and its local variables
    faults,
    owed,      \* history: copies made of each message, less the moves of it
               \* that were answered OK
    dropped,   \* history: messages in a folder that was deleted
    ghost      \* history: LIST has loaded a folder from a row that had
               \* changed since it was read

db == <<row, nextId>>
disk == <<dirs, dir, content>>
objects == <<nobj, dbID, root, mailboxes>>
history == <<owed, dropped, ghost>>
vars == <<db, disk, objects, umu, mu, pc, job, faults, history>>

\* name and to: the names in the request; src and dst: the objects found for
\* them; path: the directory an append has begun to write to; cur, todo, done:
\* the files of COPY and MOVE; seen: the rows that LIST has read.
Job == [kind : AllKinds \cup {"none"}, name : Names \cup {NoName},
        to : Names \cup {NoName}, src : Objs \cup {0}, dst : Objs \cup {0},
        path : Names \cup {NoName}, cur : Keys \cup {0}, todo : SUBSET Keys,
        done : SUBSET Keys, seen : [Ids -> Names \cup {NoName}]]

Unread == [i \in Ids |-> NoName]

Request(kind, n, to, s, d) ==
    [kind |-> kind, name |-> n, to |-> to, src |-> s, dst |-> d,
     path |-> NoName, cur |-> 0, todo |-> {}, done |-> {}, seen |-> Unread]

NoJob == Request("none", NoName, NoName, 0, 0)

Inbox == <<>>

\* The directory of Work/2024 is .Work/2024, in that of Work; the directory of
\* INBOX has all others in it.
Above(n) == {SubSeq(n, 1, i) : i \in 0..Len(n)}
Tree(n) == {m \in Names : n \in Above(m)}

Exists(n) == \E i \in Ids : row[i] = n
Files == UNION {dir[n] : n \in Names}
MsgsIn(ks) == {content[k] : k \in ks}

\* A folder is there with its row and directory; INBOX holds all mail.
Init ==
    /\ row = [i \in Ids |-> IF i = 1 THEN Inbox ELSE NoName]
    /\ nextId = 2
    /\ dirs = {Inbox}
    /\ dir = [n \in Names |-> IF n = Inbox THEN Msgs ELSE {}]
    /\ content = [k \in Keys |-> IF k \in Msgs THEN k ELSE 0]
    /\ nobj = 0
    /\ dbID = [o \in Objs |-> 0]
    /\ root = [o \in Objs |-> NoName]
    /\ mailboxes = [n \in Names |-> 0]
    /\ umu = NoProc
    /\ mu = [o \in Objs |-> NoProc]
    /\ pc = [p \in Procs |-> "idle"]
    /\ job = [p \in Procs |-> NoJob]
    /\ faults = 0
    /\ owed = [m \in Msgs |-> 0]
    /\ dropped = {}
    /\ ghost = FALSE

Goto(p, s) == pc' = [pc EXCEPT ![p] = s]

\* Mutant: moveTo forgets to unlock on its way out.
MutAnswer(p) ==
    /\ Goto(p, "idle")
    /\ job' = [job EXCEPT ![p] = NoJob]
    /\ mu' = [o \in Objs |->
                 IF mu[o] = p /\ job[p].kind # "moveTo" THEN NoProc ELSE mu[o]]

\* The answer, OK or NO; a COPY or MOVE lets go of its source.
Answer(p) ==
    /\ Goto(p, "idle")
    /\ job' = [job EXCEPT ![p] = NoJob]
    /\ mu' = [o \in Objs |-> IF mu[o] = p THEN NoProc ELSE mu[o]]

Fault == faults < MaxFaults /\ faults' = faults + 1

-----------------------------------------------------------------------------
(* Finding a folder *)

\* newMailbox: Init creates the directory.
NewMailbox(o, i, n) ==
    /\ o \in Objs
    /\ nobj' = o
    /\ dbID' = [dbID EXCEPT ![o] = i]
    /\ root' = [root EXCEPT ![o] = n]
    /\ mailboxes' = [mailboxes EXCEPT ![n] = o]
    /\ dirs' = dirs \cup Above(n)

\* mailboxLocked returns o for the name n.  User.mu is free before and after,
\* or is taken by the request.
Find(n, o) ==
    /\ umu = NoProc
    /\ \/ /\ mailboxes[n] # 0
          /\ o = mailboxes[n]
          /\ UNCHANGED <<objects, dirs>>
       \/ /\ mailboxes[n] = 0
          /\ o = nobj + 1
          /\ \E i \in Ids : row[i] = n /\ NewMailbox(o, i, n)

\* SELECT, STATUS, APPEND and the pages of the webmail load a folder.
Load ==
    /\ \E n \in Names : Find(n, nobj + 1)
    /\ UNCHANGED <<db, dir, content, umu, mu, pc, job, faults, history>>

-----------------------------------------------------------------------------
(* CREATE, DELETE, RENAME and LIST *)

EnsureMailbox(n) ==
    /\ ~Exists(n)
    /\ nextId \in Ids
    /\ row' = [row EXCEPT ![nextId] = n]
    /\ nextId' = nextId + 1

\* newMailbox may fail, and leaves the row.
CreateFolder(p, n) ==
    /\ pc[p] = "idle" /\ "create" \in Kinds
    /\ umu = NoProc
    /\ EnsureMailbox(n)
    /\ \/ NewMailbox(nobj + 1, nextId, n) /\ UNCHANGED faults
       \/ Fault /\ UNCHANGED <<objects, dirs>>
    /\ UNCHANGED <<dir, content, umu, mu, pc, job, history>>

DeleteFolder(p, n) ==
    /\ pc[p] = "idle" /\ "delete" \in Kinds
    /\ \E o \in Objs :
           /\ Find(n, o)
           /\ job' = [job EXCEPT ![p] = Request("delete", n, NoName, o, 0)]
    /\ umu' = p
    /\ Goto(p, "drop row")
    /\ UNCHANGED <<db, dir, content, mu, faults, history>>

\* The end of a request that holds User.mu.
AnswerUnlock(p) == Answer(p) /\ umu' = NoProc

DropRow(p) ==
    /\ pc[p] = "drop row"
    /\ \/ /\ row' = [row EXCEPT ![dbID[job[p].src]] = NoName]
          /\ Goto(p, "drop tree")
          /\ UNCHANGED <<umu, mu, job, faults>>
       \/ Fault /\ AnswerUnlock(p) /\ UNCHANGED row
    /\ UNCHANGED <<nextId, disk, objects, history>>

\* os.RemoveAll; when it fails, some files may be gone and the object stays.
DropTree(p) ==
    LET tree == Tree(root[job[p].src])
        keep(n, left) == IF n \in tree THEN dir[n] \cap left ELSE dir[n]
    IN
    /\ pc[p] = "drop tree"
    /\ dropped' = dropped \cup MsgsIn(UNION {dir[n] : n \in Tree(job[p].name)})
    /\ \/ /\ dir' = [n \in Names |-> keep(n, {})]
          /\ dirs' = dirs \ tree
          /\ mailboxes' = [mailboxes EXCEPT ![job[p].name] = 0]
          /\ UNCHANGED faults
       \/ /\ Fault
          /\ \E left \in SUBSET UNION {dir[n] : n \in tree} :
                 dir' = [n \in Names |-> keep(n, left)]
          /\ UNCHANGED <<dirs, mailboxes>>
    /\ AnswerUnlock(p)
    /\ UNCHANGED <<db, content, nobj, dbID, root, owed, ghost>>

RenameFolder(p, a, b) ==
    /\ pc[p] = "idle" /\ "rename" \in Kinds
    /\ ~Exists(b)
    /\ \E o \in Objs :
           /\ Find(a, o)
           /\ job' = [job EXCEPT ![p] = Request("rename", a, b, o, 0)]
    /\ umu' = p
    /\ Goto(p, "rename dir")
    /\ UNCHANGED <<db, dir, content, mu, faults, history>>

\* The directory of m when that of a, in which it is, becomes that of b.
Moved(m, a, b) == b \o SubSeq(m, Len(a) + 1, Len(m))

\* os.Rename fails if the old directory or the parent of the new one is not
\* there, if the new one is, and if it would be in the old one.
CanRename(a, b) ==
    /\ a \in dirs
    /\ Above(b) \ {b} \subseteq dirs
    /\ b \notin dirs \cup Tree(a)

FilesAfter(n, a, b) ==
    LET origins == {m \in Tree(a) : Moved(m, a, b) = n} IN
    IF n \in Tree(a) THEN {} ELSE dir[n] \cup UNION {dir[m] : m \in origins}

RenameDir(p) ==
    LET a == root[job[p].src]
        b == job[p].to
    IN
    /\ pc[p] = "rename dir"
    /\ \/ /\ CanRename(a, b)
          /\ dirs' = (dirs \ Tree(a)) \cup
                         {Moved(m, a, b) : m \in dirs \cap Tree(a)}
          /\ dirs' \subseteq Names
          /\ dir' = [n \in Names |-> FilesAfter(n, a, b)]
          /\ Goto(p, "rename row")
          /\ UNCHANGED <<umu, mu, job>>
       \/ ~CanRename(a, b) /\ AnswerUnlock(p) /\ UNCHANGED <<dirs, dir>>
    /\ UNCHANGED <<db, content, objects, faults, history>>

\* UPDATE mailboxes; a failure leaves the directory under its new name.
RenameRow(p) ==
    LET i == dbID[job[p].src] IN
    /\ pc[p] = "rename row"
    /\ \/ /\ row' = [row EXCEPT ![i] = IF @ = NoName THEN @ ELSE job[p].to]
          /\ Goto(p, "swap")
          /\ UNCHANGED <<umu, mu, job, faults>>
       \/ Fault /\ AnswerUnlock(p) /\ UNCHANGED row
    /\ UNCHANGED <<nextId, disk, objects, history>>

\* Mutant: the object goes on with the directory that it had.
MutSwap(p) ==
    /\ pc[p] = "swap"
    /\ mu[job[p].src] = NoProc
    /\ mailboxes' = [mailboxes EXCEPT ![job[p].to] = job[p].src,
                                      ![job[p].name] = 0]
    /\ AnswerUnlock(p)
    /\ UNCHANGED <<db, disk, nobj, dbID, root, faults, history>>

\* rename of the name, then the new root, each under Mailbox.mu.
Swap(p) ==
    /\ pc[p] = "swap"
    /\ mu[job[p].src] = NoProc
    /\ root' = [root EXCEPT ![job[p].src] = job[p].to]
    /\ mailboxes' = [mailboxes EXCEPT ![job[p].to] = job[p].src,
                                      ![job[p].name] = 0]
    /\ AnswerUnlock(p)
    /\ UNCHANGED <<db, disk, nobj, dbID, faults, history>>

\* LIST reads the rows before it takes User.mu ...
ListRead(p) ==
    /\ pc[p] = "idle" /\ "list" \in Kinds
    /\ job' = [job EXCEPT ![p].kind = "list", ![p].seen = row]
    /\ Goto(p, "load")
    /\ UNCHANGED <<db, disk, objects, umu, mu, faults, history>>

\* ... and then loads every folder that the map does not have.
ListLoad(p) ==
    LET seen == job[p].seen
        new == {i \in Ids : seen[i] # NoName /\ mailboxes[seen[i]] = 0}
        objectOf(i) == nobj + Cardinality({j \in new : j <= i})
    IN
    /\ pc[p] = "load"
    /\ umu = NoProc
    /\ nobj + Cardinality(new) <= MaxObjs
    /\ nobj' = nobj + Cardinality(new)
    /\ dbID' = [o \in Objs |->
                   IF \E i \in new : objectOf(i) = o
                   THEN CHOOSE i \in new : objectOf(i) = o ELSE dbID[o]]
    /\ root' = [o \in Objs |->
                   IF \E i \in new : objectOf(i) = o
                   THEN seen[CHOOSE i \in new : objectOf(i) = o] ELSE root[o]]
    /\ mailboxes' = [n \in Names |->
                        IF \E i \in new : seen[i] = n
                        THEN objectOf(CHOOSE i \in new : seen[i] = n)
                        ELSE mailboxes[n]]
    /\ dirs' = dirs \cup UNION {Above(seen[i]) : i \in new}
    /\ ghost' = (ghost \/ \E i \in new : row[i] # seen[i])
    /\ Answer(p)
    /\ UNCHANGED <<db, dir, content, umu, faults, owed, dropped>>

-----------------------------------------------------------------------------
(* COPY, MOVE and the webmail's moveTo *)

\* Mutant: so does moveTo.
MutKeepsSource(p) == TRUE

\* COPY and MOVE keep the mutex of the selected folder until they answer.
KeepsSource(p) == job[p].kind \in {"copy", "move"}

\* COPY and MOVE: the source is the folder that the session has selected,
\* under whatever name, and the destination must be another object.
CopyStart(p, kind, s, n) ==
    /\ pc[p] = "idle" /\ kind \in Kinds \cap {"copy", "move"}
    /\ s \in 1..nobj
    /\ \E o \in Objs \ {s} :
           /\ Find(n, o)
           /\ job' = [job EXCEPT ![p] = Request(kind, NoName, NoName, s, o)]
    /\ Goto(p, "lock")
    /\ UNCHANGED <<db, dir, content, umu, mu, faults, history>>

MoveToStart(p, n) ==
    /\ pc[p] = "idle" /\ "moveTo" \in Kinds
    /\ \E o \in Objs :
           /\ Find(n, o)
           /\ job' = [job EXCEPT
                         ![p] = Request("moveTo", NoName, NoName, o, 0)]
    /\ Goto(p, "find dest")
    /\ UNCHANGED <<db, dir, content, umu, mu, faults, history>>

FindDest(p, n) ==
    /\ pc[p] = "find dest"
    /\ \E o \in Objs : Find(n, o) /\ job' = [job EXCEPT ![p].dst = o]
    /\ Goto(p, "lock")
    /\ UNCHANGED <<db, dir, content, umu, mu, faults, history>>

\* Lock the source and choose the messages: one of them in moveTo.
LockSource(p) ==
    /\ pc[p] = "lock"
    /\ mu[job[p].src] = NoProc
    /\ \E ks \in SUBSET dir[root[job[p].src]] :
           /\ ks # {}
           /\ job[p].kind = "moveTo" => Cardinality(ks) = 1
           /\ job' = [job EXCEPT ![p].todo = ks]
    /\ mu' = [mu EXCEPT ![job[p].src] = p]
    /\ Goto(p, "read")
    /\ UNCHANGED <<db, disk, objects, umu, faults, history>>

\* No message of that number: COPY and MOVE have nothing to do, moveTo fails.
FindsNothing(p) ==
    /\ pc[p] = "lock"
    /\ mu[job[p].src] = NoProc
    /\ Answer(p)
    /\ UNCHANGED <<db, disk, objects, umu, faults, history>>

\* msg.data, after which moveTo unlocks the source; Deliver then takes the
\* directory that the destination has at this moment.
Read(p, k) ==
    /\ pc[p] = "read"
    /\ k \in job[p].todo
    /\ \/ /\ k \in dir[root[job[p].src]]
          /\ job' = [job EXCEPT ![p].cur = k, ![p].path = root[job[p].dst]]
          /\ mu' = IF KeepsSource(p) THEN mu
                   ELSE [mu EXCEPT ![job[p].src] = NoProc]
          /\ Goto(p, "deliver")
       \/ k \notin dir[root[job[p].src]] /\ Answer(p)
    /\ UNCHANGED <<db, disk, objects, umu, faults, history>>

Unused == {k \in Keys : content[k] = 0}

\* Mutant: the error of the append is dropped.
MutDeliverFails(p) ==
    /\ pc[p] = "deliver"
    /\ Fault
    /\ Goto(p, "insert")
    /\ UNCHANGED <<db, disk, objects, umu, mu, job, history>>

\* Maildir.Deliver creates the directory if need be, and fails if it is
\* renamed or removed meanwhile.
DeliverFails(p) ==
    /\ pc[p] = "deliver"
    /\ job[p].path \in dirs => Fault
    /\ job[p].path \notin dirs => UNCHANGED faults
    /\ Answer(p)
    /\ UNCHANGED <<db, disk, objects, umu, history>>

Deliver(p) ==
    LET m == content[job[p].cur] IN
    /\ pc[p] = "deliver"
    /\ \E k \in Unused :
           /\ \A j \in Unused : k <= j
           /\ content' = [content EXCEPT ![k] = m]
           /\ dir' = [dir EXCEPT ![job[p].path] = @ \cup {k}]
    /\ dirs' = dirs \cup Above(job[p].path)
    /\ owed' = [owed EXCEPT ![m] = @ + 1]
    /\ Goto(p, "insert")
    /\ UNCHANGED <<db, objects, umu, mu, job, faults, dropped, ghost>>

\* The row and the flags of the copy: NO without the row of the folder, and if
\* the file is no longer where the flags are set.
Insert(p) ==
    LET d == job[p].dst IN
    /\ pc[p] = "insert"
    /\ row[dbID[d]] # NoName
    /\ Goto(p, "push")
    /\ UNCHANGED <<db, disk, objects, umu, mu, job, faults, history>>

InsertFails(p) ==
    LET d == job[p].dst
        gone == row[dbID[d]] = NoName \/ root[d] # job[p].path
    IN
    /\ pc[p] = "insert"
    /\ gone => UNCHANGED faults
    /\ ~gone => Fault
    /\ Answer(p)
    /\ UNCHANGED <<db, disk, objects, umu, history>>

\* The copy enters the list under the mutex of the destination; after the last
\* one COPY answers and a move turns to the originals.
Push(p) ==
    LET left == job[p].todo \ {job[p].cur}
        done == job[p].done \cup {job[p].cur}
    IN
    /\ pc[p] = "push"
    /\ mu[job[p].dst] = NoProc
    /\ IF left = {} /\ job[p].kind = "copy" THEN Answer(p)
       ELSE /\ job' = [job EXCEPT ![p].todo = IF left = {} THEN done ELSE left,
                                  ![p].done = done, ![p].cur = 0,
                                  ![p].path = NoName]
            /\ Goto(p, IF left = {} THEN "remove" ELSE "read")
            /\ UNCHANGED mu
    /\ UNCHANGED <<db, disk, objects, umu, faults, history>>

\* md.Remove and DeleteMessageByKey of one original.
Remove(p, k) ==
    LET r == root[job[p].src] IN
    /\ pc[p] = "remove"
    /\ k \in job[p].todo \cap dir[r]
    /\ dir' = [dir EXCEPT ![r] = @ \ {k}]
    /\ job' = [job EXCEPT ![p].todo = @ \ {k}]
    /\ UNCHANGED <<db, dirs, content, objects, umu, mu, pc, faults, history>>

\* Mutant: an original that is gone is no failure, as it is none in EXPUNGE.
MutRemoveFails(p, k) ==
    /\ pc[p] = "remove"
    /\ k \in job[p].todo \ dir[root[job[p].src]]
    /\ job' = [job EXCEPT ![p].todo = @ \ {k}]
    /\ UNCHANGED <<db, disk, objects, umu, mu, pc, faults, history>>

\* Either may fail.  A file that is not there is a failure, and without the
\* mutex so is one that a change of its flags renames after it was found.
RemoveFails(p, k) ==
    LET r == root[job[p].src] IN
    /\ pc[p] = "remove"
    /\ k \in job[p].todo
    /\ \/ /\ k \in dir[r] => ~KeepsSource(p)
          /\ UNCHANGED <<dir, faults>>
       \/ k \in dir[r] /\ Fault /\ dir' \in {dir, [dir EXCEPT ![r] = @ \ {k}]}
    /\ Answer(p)
    /\ UNCHANGED <<db, dirs, content, objects, umu, history>>

\* expungeLocked, and OK: the move settles the copies it has made.
Expunge(p) ==
    /\ pc[p] = "remove" /\ job[p].todo = {}
    /\ mu[job[p].src] \in {NoProc, p}
    /\ owed' = [m \in Msgs |->
                   owed[m] - Cardinality({k \in job[p].done : content[k] = m})]
    /\ Answer(p)
    /\ UNCHANGED <<db, disk, objects, umu, faults, dropped, ghost>>

-----------------------------------------------------------------------------
(* The server stops and starts again *)

Restart ==
    /\ Fault
    /\ nobj' = 0
    /\ dbID' = [o \in Objs |-> 0]
    /\ root' = [o \in Objs |-> NoName]
    /\ mailboxes' = [n \in Names |-> 0]
    /\ umu' = NoProc
    /\ mu' = [o \in Objs |-> NoProc]
    /\ pc' = [p \in Procs |-> "idle"]
    /\ job' = [p \in Procs |-> NoJob]
    /\ ghost' = FALSE
    /\ UNCHANGED <<db, disk, owed, dropped>>

TreeStep(p) ==
    \/ \E n \in Names : CreateFolder(p, n) \/ DeleteFolder(p, n)
    \/ DropRow(p) \/ DropTree(p)
    \/ \E a, b \in Names : RenameFolder(p, a, b)
    \/ RenameDir(p) \/ RenameRow(p) \/ Swap(p)
    \/ ListRead(p) \/ ListLoad(p)

CopyStep(p) ==
    \/ \E n \in Names : \/ \E s \in Objs : \/ CopyStart(p, "copy", s, n)
                                           \/ CopyStart(p, "move", s, n)
                        \/ MoveToStart(p, n) \/ FindDest(p, n)
    \/ LockSource(p) \/ FindsNothing(p)
    \/ \E k \in Keys : Read(p, k) \/ Remove(p, k) \/ RemoveFails(p, k)
    \/ Deliver(p) \/ DeliverFails(p)
    \/ Insert(p) \/ InsertFails(p)
    \/ Push(p) \/ Expunge(p)

Next ==
    \/ \E p \in Procs : TreeStep(p) \/ CopyStep(p)
    \/ Load \/ Restart

Spec == Init /\ [][Next]_vars

-----------------------------------------------------------------------------
(* Properties *)

Locs == {"idle", "drop row", "drop tree", "rename dir", "rename row", "swap",
         "load", "find dest", "lock", "read", "deliver", "insert", "push",
         "remove"}

\* Every variable has its type, and who holds a mutex is in a request (no early
\* return of moveTo leaves it locked).
TypeOK ==
    /\ row \in [Ids -> Names \cup {NoName}]
    /\ nextId \in 1..(MaxIds + 1)
    /\ dirs \subseteq Names
    /\ dir \in [Names -> SUBSET Keys]
    /\ content \in [Keys -> Msgs \cup {0}]
    /\ nobj \in Objs \cup {0}
    /\ dbID \in [Objs -> Ids \cup {0}]
    /\ root \in [Objs -> Names \cup {NoName}]
    /\ mailboxes \in [Names -> Objs \cup {0}]
    /\ umu \in Procs \cup {NoProc}
    /\ mu \in [Objs -> Procs \cup {NoProc}]
    /\ \A o \in Objs : mu[o] # NoProc => pc[mu[o]] # "idle"
    /\ pc \in [Procs -> Locs]
    /\ job \in [Procs -> Job]
    /\ faults \in 0..MaxFaults
    /\ owed \in [Msgs -> Int]
    /\ dropped \subseteq Msgs
    /\ ghost \in BOOLEAN

Lives(o) == dbID[o] # 0 /\ row[dbID[o]] # NoName

\* All sessions of a user share one object per folder (user.go:22-24), and it
\* works on the directory of the folder's present name, whatever was created,
\* deleted, renamed and listed, and whichever call failed; but for LIST, which
\* may load a folder under the name it had before.
SharedObject ==
    umu = NoProc /\ ~ghost =>
        /\ \A o \in Objs : Lives(o) =>
               LET n == row[dbID[o]] IN mailboxes[n] = o /\ root[o] = n
        /\ \A n \in Names : mailboxes[n] # 0 /\ Lives(mailboxes[n]) =>
               row[dbID[mailboxes[n]]] = n

\* A message is lost only with a folder that was deleted: COPY, MOVE, moveTo
\* and RENAME lose none, whatever fails and wherever the server stops.
MailStays == \A m \in Msgs : m \in dropped \/ m \in MsgsIn(Files)

\* A move that was answered OK made no second copy of the message, also when
\* two sessions, or two clicks on Delete, move it at the same time.
CopiesExplained ==
    \A m \in Msgs : Cardinality({k \in Files : content[k] = m}) <= 1 + owed[m]

\* p cannot go on before q does.
WaitsFor(p, q) ==
    LET s == job[p].src
        d == job[p].dst
    IN
    \/ umu = q /\ pc[p] \in {"load", "find dest"}
    \/ s # 0 /\ mu[s] = q /\ pc[p] \in {"lock", "swap"}
    \/ s # 0 /\ mu[s] = q /\ q # p /\ pc[p] = "remove" /\ job[p].todo = {}
    \/ d # 0 /\ mu[d] = q /\ pc[p] = "push"

\* The locks are taken in an order, but for COPY and MOVE: requests that wait
\* for each other in a circle have among them a COPY or MOVE that waits, with
\* its own source locked, for the source of another (session.go:97).
OnlyMovesDeadlock ==
    \A ps \in (SUBSET Procs) \ {{}} :
        (\A p \in ps : \E q \in ps : WaitsFor(p, q)) =>
            \E p, q \in ps :
                /\ {job[p].kind, job[q].kind} \subseteq {"copy", "move"}
                /\ WaitsFor(p, q)

=============================================================================
