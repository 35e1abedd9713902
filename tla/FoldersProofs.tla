------------------------------ MODULE FoldersProofs ---------------------------
(***************************************************************************)
(* Type correctness of Folders, and the order of its locks: for any number *)
(* of sessions, folders and objects, whoever waits in a circle waits for a *)
(* COPY or a MOVE.  Then what becomes of the mail: a folder has one object *)
(* that works on its directory (Shares), no message is lost but with a     *)
(* folder that is deleted, and a move leaves no second copy (Mail).        *)
(***************************************************************************)
EXTENDS Folders, FiniteSetTheorems, SequenceTheorems, TLAPS

\* The types of the disk, the objects, the locks and the requests.
DbTypes ==
    /\ row \in [Ids -> Names \cup {NoName}]
    /\ nextId \in 1..(MaxIds + 1)

DiskTypes ==
    /\ dirs \subseteq Names
    /\ dir \in [Names -> SUBSET Keys]
    /\ content \in [Keys -> Msgs \cup {0}]

ObjectTypes ==
    /\ nobj \in Objs \cup {0}
    /\ dbID \in [Objs -> Ids \cup {0}]
    /\ root \in [Objs -> Names \cup {NoName}]
    /\ mailboxes \in [Names -> Objs \cup {0}]

RequestTypes ==
    /\ umu \in Procs \cup {NoProc}
    /\ mu \in [Objs -> Procs \cup {NoProc}]
    /\ pc \in [Procs -> Locs]
    /\ job \in [Procs -> Job]

HistoryTypes ==
    /\ faults \in 0..MaxFaults
    /\ owed \in [Msgs -> Int]
    /\ dropped \subseteq Msgs
    /\ ghost \in BOOLEAN

Types == DbTypes /\ DiskTypes /\ ObjectTypes /\ RequestTypes /\ HistoryTypes

\* A file has a message in it.
FilesFull == \A n \in Names : \A k \in dir[n] : content[k] # 0

\* The objects that were made have a folder.
ObjectsMade ==
    /\ \A o \in 1..nobj : root[o] \in Names /\ dbID[o] \in Ids
    /\ \A n \in Names : mailboxes[n] <= nobj

TreeLocs == {"drop row", "drop tree", "rename dir", "rename row", "swap"}
CopyLocs == {"lock", "read", "deliver", "insert", "push", "remove"}

\* A request works on objects that were made, and on names that it was given.
JobMade(p) ==
    /\ job[p].src <= nobj /\ job[p].dst <= nobj
    /\ pc[p] \in TreeLocs \cup CopyLocs \cup {"find dest"} =>
           job[p].src # 0
    /\ pc[p] \in CopyLocs => job[p].dst # 0
    /\ pc[p] \in CopyLocs \cup {"find dest"} =>
           job[p].kind \in {"copy", "move", "moveTo"}
    /\ pc[p] \in TreeLocs => job[p].name \in Names
    /\ pc[p] \in {"rename dir", "rename row", "swap"} => job[p].to \in Names
    /\ pc[p] \in {"deliver", "insert", "push"} =>
           /\ job[p].cur # 0
           /\ content[job[p].cur] # 0
           /\ job[p].path \in Names

JobsMade == \A p \in Procs : JobMade(p)

Made == FilesFull /\ ObjectsMade /\ JobsMade

\* Who holds User.mu is in DELETE or RENAME.  Who holds the mutex of a folder
\* has it as source, and is in COPY or MOVE, or in moveTo before the copy.
Locked ==
    /\ \A p \in Procs : umu = p => pc[p] \in TreeLocs
    /\ \A o \in Objs, p \in Procs : mu[o] = p =>
           /\ o = job[p].src
           /\ \/ KeepsSource(p) /\ pc[p] \in CopyLocs \ {"lock"}
              \/ job[p].kind = "moveTo" /\ pc[p] = "read"

LEMMA TypesAreTypes ==
    TypeOK <=> /\ Types
               /\ \A o \in Objs : mu[o] # NoProc => pc[mu[o]] # "idle"
BY DEF TypeOK, Types, DbTypes, DiskTypes, ObjectTypes, RequestTypes,
       HistoryTypes

LEMMA AboveNames ==
    ASSUME NEW n \in Names
    PROVE  Above(n) \subseteq Names
BY FoldersAssumption DEF Above

LEMMA RequestIsJob ==
    ASSUME NEW k \in AllKinds \cup {"none"}, NEW n \in Names \cup {NoName},
           NEW t \in Names \cup {NoName}, NEW s \in Objs \cup {0},
           NEW d \in Objs \cup {0}
    PROVE  Request(k, n, t, s, d) \in Job
BY DEF Request, Job, Unread

LEMMA RequestFields ==
    ASSUME NEW p, NEW k, NEW n, NEW t, NEW s, NEW d,
           job'[p] = Request(k, n, t, s, d)
    PROVE  /\ job'[p].kind = k
           /\ job'[p].name = n
           /\ job'[p].to = t
           /\ job'[p].src = s
           /\ job'[p].dst = d
BY DEF Request

LEMMA NoJobIsJob == NoJob \in Job
BY RequestIsJob DEF NoJob

\* The changes of its local variables that a request makes on its way.
LEMMA ChangeDst ==
    ASSUME NEW j \in Job, NEW o \in Objs
    PROVE  [j EXCEPT !.dst = o] \in Job
BY DEF Job

LEMMA ChangeSeen ==
    ASSUME NEW j \in Job, NEW r \in [Ids -> Names \cup {NoName}]
    PROVE  [j EXCEPT !.kind = "list", !.seen = r] \in Job
BY DEF Job, AllKinds

LEMMA ChangeTodo ==
    ASSUME NEW j \in Job, NEW S \in SUBSET Keys
    PROVE  [j EXCEPT !.todo = S] \in Job
BY DEF Job

LEMMA ShortenTodo ==
    ASSUME NEW j \in Job, NEW k
    PROVE  [j EXCEPT !.todo = @ \ {k}] \in Job
BY DEF Job

LEMMA ChangeCur ==
    ASSUME NEW j \in Job, NEW k \in Keys, NEW n \in Names
    PROVE  [j EXCEPT !.cur = k, !.path = n] \in Job
BY DEF Job

LEMMA ChangeDone ==
    ASSUME NEW j \in Job, NEW S \in SUBSET Keys, NEW T \in SUBSET Keys
    PROVE  [j EXCEPT !.todo = S, !.done = T, !.cur = 0, !.path = NoName] \in Job
BY DEF Job

-----------------------------------------------------------------------------

LEMMA InitTypes == Init => Types
<1> SUFFICES ASSUME Init PROVE Types
    OBVIOUS
<1>1. DbTypes
    BY FoldersAssumption DEF Init, DbTypes, Ids, Inbox
<1>2. DiskTypes
    BY FoldersAssumption DEF Init, DiskTypes, Keys, Msgs, Inbox
<1>3. ObjectTypes
    BY FoldersAssumption DEF Init, ObjectTypes, Objs
<1>4. RequestTypes
    BY NoJobIsJob DEF Init, RequestTypes, Locs
<1>5. HistoryTypes
  <2>1. 0 \in 0..MaxFaults
      BY FoldersAssumption
  <2>2. owed \in [Msgs -> Int]
      BY DEF Init
  <2> QED
      BY <2>1, <2>2 DEF Init, HistoryTypes
<1> QED
    BY <1>1, <1>2, <1>3, <1>4, <1>5 DEF Types

LEMMA FaultTypes ==
    ASSUME HistoryTypes, Fault
    PROVE  faults' \in 0..MaxFaults
BY FoldersAssumption DEF HistoryTypes, Fault

LEMMA NewMailboxTypes ==
    ASSUME ObjectTypes, dirs \subseteq Names, NEW o, NEW i \in Ids,
           NEW n \in Names, NewMailbox(o, i, n)
    PROVE  ObjectTypes' /\ dirs' \subseteq Names /\ o \in Objs
<1>1. o \in Objs /\ dirs' \subseteq Names
    BY AboveNames DEF NewMailbox
<1>2. ObjectTypes'
    BY <1>1 DEF NewMailbox, ObjectTypes
<1> QED
    BY <1>1, <1>2

\* Finding a folder gives an object and keeps the types.
LEMMA FindTypes ==
    ASSUME Types, NEW n \in Names, NEW o, Find(n, o)
    PROVE  o \in Objs /\ ObjectTypes' /\ dirs' \subseteq Names
<1>1. CASE mailboxes[n] # 0
    BY <1>1 DEF Find, Types, ObjectTypes, DiskTypes, objects
<1>2. CASE mailboxes[n] = 0
    BY <1>2, NewMailboxTypes DEF Find, Types, DiskTypes
<1> QED
    BY <1>1, <1>2

LEMMA AnswerTypes ==
    ASSUME RequestTypes, NEW p \in Procs, Answer(p)
    PROVE  /\ mu' \in [Objs -> Procs \cup {NoProc}]
           /\ pc' \in [Procs -> Locs]
           /\ job' \in [Procs -> Job]
BY NoJobIsJob DEF RequestTypes, Answer, Goto, Locs

LEMMA LoadTypes == ASSUME Types, Load PROVE Types'
<1>1. PICK n \in Names : Find(n, nobj + 1)
    BY DEF Load
<1>2. ObjectTypes' /\ dirs' \subseteq Names
    BY <1>1, FindTypes
<1> QED
    BY <1>2 DEF Load, Types, DbTypes, DiskTypes, RequestTypes, HistoryTypes,
                db, history

LEMMA CreateTypes ==
    ASSUME Types, NEW p \in Procs, NEW n \in Names, CreateFolder(p, n)
    PROVE  Types'
<1> USE DEF CreateFolder, Types, history
<1>1. nextId \in Ids /\ DbTypes'
    BY FoldersAssumption DEF EnsureMailbox, DbTypes, Ids
<1>2. ObjectTypes' /\ dirs' \subseteq Names
  <2>1. CASE NewMailbox(nobj + 1, nextId, n)
      BY <1>1, <2>1, NewMailboxTypes DEF DiskTypes
  <2>2. CASE UNCHANGED <<objects, dirs>>
      BY <2>2 DEF objects, ObjectTypes, DiskTypes
  <2> QED
      BY <2>1, <2>2
<1>3. faults' \in 0..MaxFaults
    BY FaultTypes DEF HistoryTypes
<1> QED
    BY <1>1, <1>2, <1>3 DEF DiskTypes, RequestTypes, HistoryTypes

\* A request that finds its folder and goes on with it.
LEMMA StartTypes ==
    ASSUME Types, NEW p \in Procs, NEW n \in Names, NEW o, Find(n, o),
           NEW j \in Job, NEW l \in Locs,
           job' = [job EXCEPT ![p] = j], Goto(p, l),
           umu' \in {umu, p},
           UNCHANGED <<db, dir, content, mu, faults, history>>
    PROVE  Types'
<1>1. ObjectTypes' /\ dirs' \subseteq Names
    BY FindTypes
<1>2. RequestTypes'
    BY DEF Types, RequestTypes, Goto
<1> QED
    BY <1>1, <1>2 DEF Types, DbTypes, DiskTypes, HistoryTypes, db, history

LEMMA DeleteTypes ==
    ASSUME Types, NEW p \in Procs, NEW n \in Names, DeleteFolder(p, n)
    PROVE  Types'
<1>1. PICK o \in Objs :
          /\ Find(n, o)
          /\ job' = [job EXCEPT ![p] = Request("delete", n, NoName, o, 0)]
    BY DEF DeleteFolder
<1>2. Request("delete", n, NoName, o, 0) \in Job /\ "drop row" \in Locs
    BY RequestIsJob DEF AllKinds, Locs
<1> QED
    BY <1>1, <1>2, StartTypes DEF DeleteFolder

LEMMA RenameTypes ==
    ASSUME Types, NEW p \in Procs, NEW a \in Names, NEW b \in Names,
           RenameFolder(p, a, b)
    PROVE  Types'
<1>1. PICK o \in Objs :
          /\ Find(a, o)
          /\ job' = [job EXCEPT ![p] = Request("rename", a, b, o, 0)]
    BY DEF RenameFolder
<1>2. Request("rename", a, b, o, 0) \in Job /\ "rename dir" \in Locs
    BY RequestIsJob DEF AllKinds, Locs
<1> QED
    BY <1>1, <1>2, StartTypes DEF RenameFolder

LEMMA CopyStartTypes ==
    ASSUME Types, NEW p \in Procs, NEW kind, NEW s \in Objs, NEW n \in Names,
           CopyStart(p, kind, s, n)
    PROVE  Types'
<1>1. PICK o \in Objs :
          /\ Find(n, o)
          /\ job' = [job EXCEPT ![p] = Request(kind, NoName, NoName, s, o)]
    BY DEF CopyStart
<1>2. Request(kind, NoName, NoName, s, o) \in Job /\ "lock" \in Locs
    BY RequestIsJob DEF CopyStart, AllKinds, Locs
<1> QED
    BY <1>1, <1>2, StartTypes DEF CopyStart

LEMMA MoveToStartTypes ==
    ASSUME Types, NEW p \in Procs, NEW n \in Names, MoveToStart(p, n)
    PROVE  Types'
<1>1. PICK o \in Objs :
          /\ Find(n, o)
          /\ job' = [job EXCEPT
                        ![p] = Request("moveTo", NoName, NoName, o, 0)]
    BY DEF MoveToStart
<1>2. Request("moveTo", NoName, NoName, o, 0) \in Job /\ "find dest" \in Locs
    BY RequestIsJob DEF AllKinds, Locs
<1> QED
    BY <1>1, <1>2, StartTypes DEF MoveToStart

LEMMA FindDestTypes ==
    ASSUME Types, NEW p \in Procs, NEW n \in Names, FindDest(p, n)
    PROVE  Types'
<1>1. PICK o \in Objs : Find(n, o) /\ job' = [job EXCEPT ![p].dst = o]
    BY FindTypes DEF FindDest, Find, NewMailbox
<1>2. [job[p] EXCEPT !.dst = o] \in Job /\ "lock" \in Locs
    BY ChangeDst DEF Types, RequestTypes, Locs
<1>3. job' = [job EXCEPT ![p] = [job[p] EXCEPT !.dst = o]]
    BY <1>1 DEF Types, RequestTypes
<1> QED
    BY <1>1, <1>2, <1>3, StartTypes DEF FindDest

LEMMA DropRowTypes ==
    ASSUME Types, NEW p \in Procs, DropRow(p)
    PROVE  Types'
<1> USE DEF DropRow, Types, DbTypes, disk, objects, history
<1>1. DbTypes' /\ DiskTypes' /\ ObjectTypes'
    BY DEF DiskTypes, ObjectTypes
<1>2. RequestTypes'
    BY AnswerTypes DEF AnswerUnlock, RequestTypes, Goto, Locs
<1>3. HistoryTypes'
    BY FaultTypes DEF HistoryTypes
<1> QED
    BY <1>1, <1>2, <1>3

\* Files have messages in them.
LEMMA MsgsInTypes ==
    ASSUME Types, FilesFull, NEW T \in SUBSET Names
    PROVE  MsgsIn(UNION {dir[n] : n \in T}) \subseteq Msgs
<1> SUFFICES ASSUME NEW m \in MsgsIn(UNION {dir[n] : n \in T})
             PROVE  m \in Msgs
    OBVIOUS
<1>1. PICK n \in T : \E k \in dir[n] : m = content[k]
    BY DEF MsgsIn
<1>2. PICK k \in dir[n] : m = content[k]
    BY <1>1
<1> QED
    BY <1>2 DEF Types, DiskTypes, FilesFull

LEMMA DropTreeTypes ==
    ASSUME Types, FilesFull, NEW p \in Procs, DropTree(p)
    PROVE  Types'
<1> USE DEF DropTree, Types
<1>1. dir' \in [Names -> SUBSET Keys] /\ dirs' \subseteq Names
  <2>1. dirs' \subseteq Names
      BY DEF DiskTypes
  <2>2. PICK left : dir' = [n \in Names |-> IF n \in Tree(root[job[p].src])
                                          THEN dir[n] \cap left ELSE dir[n]]
      OBVIOUS
  <2>3. dir \in [Names -> SUBSET Keys]
      BY DEF DiskTypes
  <2> QED
      BY ONLY <2>1, <2>2, <2>3
<1>2. ObjectTypes'
  <2>1. mailboxes' \in [Names -> Objs \cup {0}]
    <3>1. \/ UNCHANGED mailboxes
          \/ mailboxes' = [mailboxes EXCEPT ![job[p].name] = 0]
        OBVIOUS
    <3>2. mailboxes \in [Names -> Objs \cup {0}]
        BY DEF ObjectTypes
    <3> QED
        BY ONLY <3>1, <3>2
  <2>2. UNCHANGED <<nobj, dbID, root>>
      OBVIOUS
  <2> QED
      BY <2>1, <2>2 DEF ObjectTypes
<1>3. RequestTypes'
    BY AnswerTypes DEF AnswerUnlock, RequestTypes
<1>4. faults' \in 0..MaxFaults
    BY FaultTypes DEF HistoryTypes
<1>5. dropped' \subseteq Msgs
  <2>1. MsgsIn(UNION {dir[n] : n \in Tree(job[p].name)}) \subseteq Msgs
      BY MsgsInTypes DEF Tree
  <2> QED
      BY <2>1 DEF HistoryTypes
<1> QED
    BY <1>1, <1>2, <1>3, <1>4, <1>5 DEF db, DbTypes, DiskTypes, HistoryTypes

LEMMA FilesAfterTypes ==
    ASSUME Types, NEW n \in Names, NEW a, NEW b
    PROVE  FilesAfter(n, a, b) \subseteq Keys
<1> SUFFICES ASSUME NEW k \in FilesAfter(n, a, b) PROVE k \in Keys
    OBVIOUS
<1>1. \E m \in Names : k \in dir[m]
    BY DEF FilesAfter, Tree
<1> QED
    BY <1>1 DEF Types, DiskTypes

LEMMA RenameDirTypes ==
    ASSUME Types, NEW p \in Procs, RenameDir(p)
    PROVE  Types'
<1> USE DEF RenameDir, Types
<1> DEFINE a == root[job[p].src]
           b == job[p].to
<1>1. dir' \in [Names -> SUBSET Keys] /\ dirs' \subseteq Names
  <2>1. CASE CanRename(a, b)
    <3>1. \A n \in Names : FilesAfter(n, a, b) \subseteq Keys
        BY FilesAfterTypes
    <3> QED
        BY <2>1, <3>1
  <2>2. CASE ~CanRename(a, b)
      BY <2>2 DEF DiskTypes
  <2> QED
      BY <2>1, <2>2
<1>2. RequestTypes'
    BY AnswerTypes DEF AnswerUnlock, RequestTypes, Goto, Locs
<1> QED
    BY <1>1, <1>2 DEF db, objects, history, DbTypes, DiskTypes, ObjectTypes,
                      HistoryTypes

LEMMA RenameRowTypes ==
    ASSUME Types, NEW p \in Procs, RenameRow(p)
    PROVE  Types'
<1> USE DEF RenameRow, Types, disk, objects, history
<1>1. job[p].to \in Names \cup {NoName}
    BY DEF RequestTypes, Job
<1>2. DbTypes' /\ DiskTypes' /\ ObjectTypes'
    BY <1>1 DEF DbTypes, DiskTypes, ObjectTypes
<1>3. RequestTypes'
    BY AnswerTypes DEF AnswerUnlock, RequestTypes, Goto, Locs
<1>4. HistoryTypes'
    BY FaultTypes DEF HistoryTypes
<1> QED
    BY <1>2, <1>3, <1>4

LEMMA SwapTypes ==
    ASSUME Types, NEW p \in Procs, Swap(p)
    PROVE  Types'
<1> USE DEF Swap, Types
<1>1. /\ job[p].to \in Names \cup {NoName}
      /\ job[p].src \in Objs \cup {0}
    BY DEF RequestTypes, Job
<1>2. ObjectTypes'
    BY <1>1 DEF ObjectTypes
<1>3. RequestTypes'
    BY AnswerTypes DEF AnswerUnlock, RequestTypes
<1> QED
    BY <1>2, <1>3 DEF db, disk, history, DbTypes, DiskTypes, HistoryTypes

LEMMA ListReadTypes ==
    ASSUME Types, NEW p \in Procs, ListRead(p)
    PROVE  Types'
<1> USE DEF ListRead, Types
<1>1. [job[p] EXCEPT !.kind = "list", !.seen = row] \in Job
  <2>1. job[p] \in Job /\ row \in [Ids -> Names \cup {NoName}]
      BY DEF RequestTypes, DbTypes
  <2> QED
      BY ONLY <2>1, ChangeSeen
<1>2. RequestTypes'
    BY <1>1 DEF RequestTypes, Goto, Locs
<1> QED
    BY <1>2 DEF db, disk, objects, history, DbTypes, DiskTypes, ObjectTypes,
                HistoryTypes

\* LIST numbers the folders that it loads from nobj + 1 on, without a gap.
LEMMA Numbering ==
    ASSUME NEW S \in SUBSET Ids, NEW n \in Nat
    PROVE  LET number(x) == n + Cardinality({y \in S : y <= x}) IN
           /\ Cardinality(S) \in Nat
           /\ \A x \in S : number(x) \in (n + 1)..(n + Cardinality(S))
           /\ \A o \in (n + 1)..(n + Cardinality(S)) :
                  \E x \in S : number(x) = o
           /\ \A x, y \in S : number(x) = number(y) => x = y
<1> DEFINE upTo(x) == {y \in S : y <= x}
           number(x) == n + Cardinality(upTo(x))
           numbers == (n + 1)..(n + Cardinality(S))
           f == [x \in S |-> number(x)]
<1>1. IsFiniteSet(S) /\ Cardinality(S) \in Nat
  <2>1. IsFiniteSet(Ids)
      BY FS_Interval, FoldersAssumption DEF Ids
  <2> QED
      BY <2>1, FS_Subset, FS_CardinalityType
<1>2. \A x \in S : /\ IsFiniteSet(upTo(x))
                   /\ Cardinality(upTo(x)) \in 1..Cardinality(S)
  <2> SUFFICES ASSUME NEW x \in S
               PROVE  /\ IsFiniteSet(upTo(x))
                      /\ Cardinality(upTo(x)) \in 1..Cardinality(S)
      OBVIOUS
  <2>1. upTo(x) \in SUBSET S /\ x \in upTo(x)
      BY DEF Ids
  <2>2. /\ IsFiniteSet(upTo(x)) /\ Cardinality(upTo(x)) <= Cardinality(S)
        /\ Cardinality(upTo(x)) \in Nat
      BY <1>1, <2>1, FS_Subset, FS_CardinalityType
  <2>3. Cardinality(upTo(x)) # 0
      BY <2>1, <2>2, FS_EmptySet
  <2> QED
      BY <1>1, <2>2, <2>3
<1>3. ASSUME NEW x \in S, NEW y \in S, x < y
      PROVE  Cardinality(upTo(x)) # Cardinality(upTo(y))
  <2>1. \A z \in S : z \in Int
      BY DEF Ids
  <2>2. upTo(x) \in SUBSET upTo(y)
      BY <1>3, <2>1
  <2>3. y \in upTo(y) /\ y \notin upTo(x)
      BY <1>3, <2>1
  <2> QED
      BY <1>2, <2>2, <2>3, FS_Subset
<1>4. \A x \in S : number(x) \in numbers
    BY <1>1, <1>2
<1>5. \A x, y \in S : number(x) = number(y) => x = y
  <2> SUFFICES ASSUME NEW x \in S, NEW y \in S, x # y
               PROVE  number(x) # number(y)
      OBVIOUS
  <2>1. x < y \/ y < x
      BY DEF Ids
  <2>2. Cardinality(upTo(x)) # Cardinality(upTo(y))
      BY <1>3, <2>1
  <2>3. Cardinality(upTo(x)) \in Nat /\ Cardinality(upTo(y)) \in Nat
      BY <1>1, <1>2
  <2> HIDE DEF upTo
  <2> QED
      BY <2>2, <2>3
<1>6. f \in Injection(S, numbers)
  <2>1. f \in [S -> numbers] /\ \A x \in S : f[x] = number(x)
      BY <1>4
  <2>2. \A x, y \in S : f[x] = f[y] => x = y
      BY <1>5, <2>1
  <2> HIDE DEF f, numbers
  <2> QED
      BY ONLY <2>1, <2>2 DEF Injection, IsInjective
<1>7. f \in Surjection(S, numbers)
  <2>1. IsFiniteSet(numbers) /\ Cardinality(numbers) = Cardinality(S)
    <3> DEFINE c == Cardinality(S)
    <3>1. c \in Nat /\ n \in Nat
        BY <1>1
    <3> HIDE DEF c
    <3>2. /\ IsFiniteSet((n + 1)..(n + c))
          /\ Cardinality((n + 1)..(n + c)) = c
        BY ONLY <3>1, FS_Interval
    <3> QED
        BY <3>2 DEF c
  <2> HIDE DEF f, numbers
  <2> QED
      BY ONLY <1>6, <2>1, FS_Injection
<1>8. \A o \in numbers : \E x \in S : number(x) = o
  <2> HIDE DEF number, numbers
  <2> QED
      BY <1>7 DEF Surjection
<1> QED
    BY <1>1, <1>4, <1>5, <1>8

\* LIST makes an object for each folder that it loads.
LEMMA ListLoadObjects ==
    ASSUME Types, ObjectsMade, NEW p \in Procs, ListLoad(p)
    PROVE  ObjectTypes' /\ ObjectsMade' /\ dirs' \subseteq Names /\ nobj <= nobj'
<1> DEFINE seen == job[p].seen
           new == {i \in Ids : seen[i] # NoName /\ mailboxes[seen[i]] = 0}
           objectOf(i) == nobj + Cardinality({j \in new : j <= i})
           loads(o) == CHOOSE i \in new : objectOf(i) = o
<1>1. /\ nobj \in Nat /\ Cardinality(new) \in Nat
      /\ nobj' = nobj + Cardinality(new) /\ nobj' <= MaxObjs
      /\ \A i \in new : objectOf(i) \in (nobj + 1)..nobj'
      /\ \A o \in (nobj + 1)..nobj' : \E i \in new : objectOf(i) = o
  <2>1. new \in SUBSET Ids /\ nobj \in Nat
      BY FoldersAssumption DEF Types, ObjectTypes, Objs
  <2>2. nobj' = nobj + Cardinality(new) /\ nobj' <= MaxObjs
      BY DEF ListLoad
  <2> HIDE DEF new
  <2>3. /\ Cardinality(new) \in Nat
        /\ \A i \in new : objectOf(i) \in (nobj + 1)..(nobj + Cardinality(new))
        /\ \A o \in (nobj + 1)..(nobj + Cardinality(new)) :
               \E i \in new : objectOf(i) = o
      BY ONLY <2>1, Numbering
  <2> HIDE DEF objectOf
  <2> QED
      BY ONLY <2>1, <2>2, <2>3
<1>2. \A i \in new : i \in Ids /\ seen[i] \in Names
    BY DEF Types, RequestTypes, Job
<1>3. /\ dbID' = [o \in Objs |-> IF \E i \in new : objectOf(i) = o
                                 THEN loads(o) ELSE dbID[o]]
      /\ root' = [o \in Objs |-> IF \E i \in new : objectOf(i) = o
                                 THEN seen[loads(o)] ELSE root[o]]
      /\ mailboxes' = [n \in Names |->
                          IF \E i \in new : seen[i] = n
                          THEN objectOf(CHOOSE i \in new : seen[i] = n)
                          ELSE mailboxes[n]]
      /\ dirs' = dirs \cup UNION {Above(seen[i]) : i \in new}
    BY DEF ListLoad
<1> HIDE DEF new, objectOf, seen
<1>4. dirs' \subseteq Names
    BY <1>2, <1>3, AboveNames DEF Types, DiskTypes
<1>5. \A o : (\E i \in new : objectOf(i) = o) => loads(o) \in new
    OBVIOUS
<1> HIDE DEF loads
<1>6. /\ dbID' \in [Objs -> Ids \cup {0}]
      /\ root' \in [Objs -> Names \cup {NoName}]
    BY <1>2, <1>3, <1>5 DEF Types, ObjectTypes
<1>7. \A n \in Names : mailboxes'[n] \in 0..nobj'
  <2> SUFFICES ASSUME NEW n \in Names PROVE mailboxes'[n] \in 0..nobj'
      OBVIOUS
  <2>1. CASE \E i \in new : seen[i] = n
    <3>1. (CHOOSE i \in new : seen[i] = n) \in new
        BY <2>1
    <3> QED
        BY <1>1, <1>3, <2>1, <3>1
  <2>2. CASE ~\E i \in new : seen[i] = n
      BY <1>1, <1>3, <2>2 DEF Types, ObjectTypes, Objs, ObjectsMade
  <2> QED
      BY <2>1, <2>2
<1>8. \A o \in 1..nobj' : root'[o] \in Names /\ dbID'[o] \in Ids
  <2> SUFFICES ASSUME NEW o \in 1..nobj'
               PROVE  root'[o] \in Names /\ dbID'[o] \in Ids
      OBVIOUS
  <2>1. o \in Objs
      BY <1>1, FoldersAssumption DEF Objs
  <2>2. CASE \E i \in new : objectOf(i) = o
      BY <1>2, <1>3, <1>5, <2>1, <2>2
  <2>3. CASE ~\E i \in new : objectOf(i) = o
    <3>1. o \in 1..nobj
        BY <1>1, <2>3
    <3> QED
        BY <1>3, <2>1, <2>3, <3>1 DEF ObjectsMade
  <2> QED
      BY <2>2, <2>3
<1>9. nobj' \in Objs \cup {0} /\ mailboxes' \in [Names -> Objs \cup {0}]
  <2>1. nobj' \in 0..MaxObjs
      BY <1>1, FoldersAssumption
  <2>2. \A n \in Names : mailboxes'[n] \in Objs \cup {0}
      BY <1>1, <1>7, <2>1, FoldersAssumption DEF Objs
  <2>3. DOMAIN mailboxes' = Names
      BY <1>3
  <2>4. mailboxes' = [n \in Names |-> mailboxes'[n]]
      BY <1>3
  <2> QED
      BY <2>1, <2>2, <2>4, FoldersAssumption DEF Objs
<1> QED
    BY <1>1, <1>4, <1>6, <1>7, <1>8, <1>9 DEF ObjectTypes, ObjectsMade

LEMMA ListLoadTypes ==
    ASSUME Types, ObjectsMade, NEW p \in Procs, ListLoad(p)
    PROVE  Types'
<1>1. ObjectTypes' /\ dirs' \subseteq Names
    BY ListLoadObjects
<1>2. RequestTypes'
    BY AnswerTypes DEF ListLoad, Types, RequestTypes
<1>3. ghost' \in BOOLEAN
    BY DEF ListLoad, Types, HistoryTypes
<1> QED
    BY <1>1, <1>2, <1>3 DEF ListLoad, Types, DbTypes, DiskTypes, HistoryTypes, db

-----------------------------------------------------------------------------

\* A step that changes a request only.
LEMMA RequestOnly ==
    ASSUME Types, RequestTypes', faults' \in 0..MaxFaults,
           UNCHANGED <<db, disk, objects, history>>
    PROVE  Types'
BY DEF Types, DbTypes, DiskTypes, ObjectTypes, HistoryTypes, db, disk, objects,
       history

\* A request works on folders that are there.
LEMMA SourceIsMade ==
    ASSUME Types, ObjectsMade, JobsMade, NEW p \in Procs,
           pc[p] \in TreeLocs \cup CopyLocs
    PROVE  /\ job[p].src \in 1..nobj /\ job[p].src \in Objs
           /\ root[job[p].src] \in Names /\ dbID[job[p].src] \in Ids
<1>1. job[p].src \in Objs /\ job[p].src <= nobj /\ nobj \in Objs \cup {0}
    BY DEF JobsMade, JobMade, Types, ObjectTypes, RequestTypes, Job
<1>2. job[p].src \in 1..nobj
    BY <1>1, FoldersAssumption DEF Objs
<1> QED
    BY <1>1, <1>2 DEF ObjectsMade

LEMMA DestIsMade ==
    ASSUME Types, ObjectsMade, JobsMade, NEW p \in Procs, pc[p] \in CopyLocs
    PROVE  /\ job[p].dst \in 1..nobj /\ job[p].dst \in Objs
           /\ root[job[p].dst] \in Names /\ dbID[job[p].dst] \in Ids
<1>1. job[p].dst \in Objs /\ job[p].dst <= nobj /\ nobj \in Objs \cup {0}
    BY DEF JobsMade, JobMade, Types, ObjectTypes, RequestTypes, Job
<1>2. job[p].dst \in 1..nobj
    BY <1>1, FoldersAssumption DEF Objs
<1> QED
    BY <1>1, <1>2 DEF ObjectsMade

\* A request that goes on with other local variables.
LEMMA ContinueTypes ==
    ASSUME RequestTypes, NEW p \in Procs, NEW j \in Job, NEW l \in Locs,
           job' = [job EXCEPT ![p] = j], pc' = [pc EXCEPT ![p] = l],
           mu' \in [Objs -> Procs \cup {NoProc}], UNCHANGED umu
    PROVE  RequestTypes'
BY DEF RequestTypes

LEMMA LockSourceTypes ==
    ASSUME Types, ObjectsMade, JobsMade, NEW p \in Procs, LockSource(p)
    PROVE  Types'
<1>1. PICK ks \in SUBSET dir[root[job[p].src]] :
          job' = [job EXCEPT ![p].todo = ks]
    BY DEF LockSource
<1>2. ks \subseteq Keys
  <2>1. root[job[p].src] \in Names
      BY SourceIsMade DEF LockSource, CopyLocs
  <2> QED
      BY <1>1, <2>1 DEF Types, DiskTypes
<1>3. RequestTypes'
  <2>1. [job[p] EXCEPT !.todo = ks] \in Job /\ "read" \in Locs
      BY <1>2, ChangeTodo DEF Types, RequestTypes, Locs
  <2>2. job' = [job EXCEPT ![p] = [job[p] EXCEPT !.todo = ks]]
      BY <1>1 DEF Types, RequestTypes
  <2>3. mu' \in [Objs -> Procs \cup {NoProc}]
      BY DEF LockSource, Types, RequestTypes
  <2> QED
      BY <2>1, <2>2, <2>3, ContinueTypes DEF LockSource, Types, Goto
<1> QED
    BY <1>3, RequestOnly DEF LockSource, Types, HistoryTypes

LEMMA FindsNothingTypes ==
    ASSUME Types, NEW p \in Procs, FindsNothing(p)
    PROVE  Types'
<1>1. RequestTypes'
    BY AnswerTypes DEF FindsNothing, Types, RequestTypes
<1> QED
    BY <1>1, RequestOnly DEF FindsNothing, Types, HistoryTypes

LEMMA ReadTypes ==
    ASSUME Types, ObjectsMade, JobsMade, NEW p \in Procs, NEW k \in Keys,
           Read(p, k)
    PROVE  Types'
<1>1. RequestTypes'
  <2>1. CASE Answer(p)
      BY <2>1, AnswerTypes DEF Read, Types, RequestTypes
  <2>2. CASE /\ k \in dir[root[job[p].src]]
             /\ job' = [job EXCEPT ![p].cur = k, ![p].path = root[job[p].dst]]
             /\ mu' = IF KeepsSource(p) THEN mu
                      ELSE [mu EXCEPT ![job[p].src] = NoProc]
             /\ Goto(p, "deliver")
    <3> DEFINE r == root[job[p].dst]
               j == [job[p] EXCEPT !.cur = k, !.path = r]
    <3>1. r \in Names
        BY DestIsMade DEF Read, CopyLocs
    <3>2. j \in Job /\ "deliver" \in Locs
        BY <3>1, ChangeCur DEF Types, RequestTypes, Locs
    <3>3. job' = [job EXCEPT ![p] = j]
        BY <2>2 DEF Types, RequestTypes
    <3>4. mu' \in [Objs -> Procs \cup {NoProc}]
        BY <2>2 DEF Types, RequestTypes
    <3> QED
        BY <2>2, <3>2, <3>3, <3>4, ContinueTypes DEF Read, Types, Goto
  <2> QED
      BY <2>1, <2>2 DEF Read
<1> QED
    BY <1>1, RequestOnly DEF Read, Types, HistoryTypes

LEMMA DeliverFailsTypes ==
    ASSUME Types, NEW p \in Procs, DeliverFails(p)
    PROVE  Types'
<1>1. RequestTypes'
    BY AnswerTypes DEF DeliverFails, Types, RequestTypes
<1>2. faults' \in 0..MaxFaults
    BY FaultTypes DEF DeliverFails, Types, HistoryTypes
<1> QED
    BY <1>1, <1>2, RequestOnly DEF DeliverFails

LEMMA DeliverTypes ==
    ASSUME Types, JobsMade, NEW p \in Procs, Deliver(p)
    PROVE  Types'
<1> DEFINE m == content[job[p].cur]
<1>1. m \in Msgs /\ job[p].path \in Names
    BY DEF Deliver, JobsMade, JobMade, Types, DiskTypes, RequestTypes, Job
<1>2. PICK k \in Keys :
          /\ content' = [content EXCEPT ![k] = m]
          /\ dir' = [dir EXCEPT ![job[p].path] = @ \cup {k}]
    BY DEF Deliver, Unused
<1>3. dirs' \subseteq Names
    BY <1>1, AboveNames DEF Deliver, Types, DiskTypes
<1>4. DiskTypes'
    BY <1>1, <1>2, <1>3 DEF Types, DiskTypes
<1>5. owed' \in [Msgs -> Int]
    BY <1>1 DEF Deliver, Types, HistoryTypes
<1>6. RequestTypes'
    BY DEF Deliver, Types, RequestTypes, Goto, Locs
<1> QED
    BY <1>4, <1>5, <1>6 DEF Deliver, Types, DbTypes, ObjectTypes, HistoryTypes,
                            db, objects

LEMMA InsertTypes ==
    ASSUME Types, NEW p \in Procs, Insert(p)
    PROVE  Types'
<1>1. RequestTypes'
    BY DEF Insert, Types, RequestTypes, Goto, Locs
<1> QED
    BY <1>1, RequestOnly DEF Insert, Types, HistoryTypes

LEMMA InsertFailsTypes ==
    ASSUME Types, NEW p \in Procs, InsertFails(p)
    PROVE  Types'
<1>1. RequestTypes'
    BY AnswerTypes DEF InsertFails, Types, RequestTypes
<1>2. faults' \in 0..MaxFaults
    BY FaultTypes DEF InsertFails, Types, HistoryTypes
<1> QED
    BY <1>1, <1>2, RequestOnly DEF InsertFails

LEMMA PushTypes ==
    ASSUME Types, NEW p \in Procs, Push(p), job[p].cur # 0
    PROVE  Types'
<1> DEFINE left == job[p].todo \ {job[p].cur}
           done == job[p].done \cup {job[p].cur}
<1>1. left \subseteq Keys /\ done \subseteq Keys
    BY DEF Types, RequestTypes, Job
<1>2. RequestTypes'
  <2>1. CASE Answer(p)
      BY <2>1, AnswerTypes DEF Push, Types, RequestTypes
  <2>2. CASE ~(left = {} /\ job[p].kind = "copy")
    <3> DEFINE todo == IF left = {} THEN done ELSE left
    <3>1. /\ job' = [job EXCEPT ![p].todo = todo, ![p].done = done,
                                ![p].cur = 0, ![p].path = NoName]
          /\ Goto(p, IF left = {} THEN "remove" ELSE "read")
          /\ UNCHANGED <<mu, umu>>
        BY <2>2 DEF Push
    <3> DEFINE j == [job[p] EXCEPT !.todo = todo, !.done = done, !.cur = 0,
                                   !.path = NoName]
               l == IF left = {} THEN "remove" ELSE "read"
    <3>2. todo \subseteq Keys
        BY <1>1
    <3> HIDE DEF todo, done
    <3>3. j \in Job /\ l \in Locs
        BY <1>1, <3>2, ChangeDone DEF Types, RequestTypes, Locs
    <3>4. job' = [job EXCEPT ![p] = j]
        BY <3>1 DEF Types, RequestTypes
    <3>5. mu' \in [Objs -> Procs \cup {NoProc}]
        BY <3>1 DEF Types, RequestTypes
    <3> HIDE DEF j, l
    <3> QED
        BY <3>1, <3>3, <3>4, <3>5, ContinueTypes DEF Types, Goto, l
  <2> QED
      BY <2>1, <2>2 DEF Push
<1> QED
    BY <1>2, RequestOnly DEF Push, Types, HistoryTypes

LEMMA RemoveTypes ==
    ASSUME Types, NEW p \in Procs, NEW k \in Keys, Remove(p, k)
    PROVE  Types'
<1> DEFINE j == [job[p] EXCEPT !.todo = @ \ {k}]
<1>1. RequestTypes'
  <2>1. j \in Job
      BY ShortenTodo DEF Types, RequestTypes
  <2>2. job' = [job EXCEPT ![p] = j]
      BY DEF Remove, Types, RequestTypes
  <2> HIDE DEF j
  <2> QED
      BY <2>1, <2>2 DEF Remove, Types, RequestTypes
<1>2. DiskTypes'
    BY DEF Remove, Types, DiskTypes
<1> QED
    BY <1>1, <1>2 DEF Remove, Types, DbTypes, ObjectTypes, HistoryTypes, db,
                      objects, history

LEMMA RemoveFailsTypes ==
    ASSUME Types, NEW p \in Procs, NEW k \in Keys, RemoveFails(p, k)
    PROVE  Types'
<1>1. RequestTypes'
    BY AnswerTypes DEF RemoveFails, Types, RequestTypes
<1>2. DiskTypes'
    BY DEF RemoveFails, Types, DiskTypes
<1>3. faults' \in 0..MaxFaults
    BY FaultTypes DEF RemoveFails, Types, HistoryTypes
<1> QED
    BY <1>1, <1>2, <1>3 DEF RemoveFails, Types, DbTypes, ObjectTypes,
                            HistoryTypes, db, objects, history

LEMMA ExpungeTypes ==
    ASSUME Types, NEW p \in Procs, Expunge(p)
    PROVE  Types'
<1> DEFINE settled(m) == Cardinality({k \in job[p].done : content[k] = m})
<1>1. \A m : settled(m) \in Nat
  <2>1. job[p].done \in SUBSET Keys /\ IsFiniteSet(Keys)
      BY FS_Interval, FoldersAssumption DEF Types, RequestTypes, Job, Keys
  <2>2. IsFiniteSet(job[p].done)
      BY <2>1, FS_Subset
  <2> QED
      BY <2>2, FS_Subset, FS_CardinalityType
<1>2. owed' \in [Msgs -> Int]
  <2>1. owed' = [m \in Msgs |-> owed[m] - settled(m)]
      BY DEF Expunge
  <2> HIDE DEF settled
  <2>2. \A m \in Msgs : settled(m) \in Int /\ owed[m] \in Int
      BY <1>1 DEF Types, HistoryTypes
  <2> QED
      BY <2>1, <2>2
<1>3. RequestTypes'
    BY AnswerTypes DEF Expunge, Types, RequestTypes
<1> QED
    BY <1>2, <1>3 DEF Expunge, Types, DbTypes, DiskTypes, ObjectTypes,
                      HistoryTypes, db, disk, objects

LEMMA RestartTypes ==
    ASSUME Types, Restart
    PROVE  Types'
<1> USE DEF Restart
<1>1. RequestTypes'
    BY NoJobIsJob DEF RequestTypes, Locs
<1>2. ObjectTypes'
    BY DEF ObjectTypes
<1>3. faults' \in 0..MaxFaults
    BY FaultTypes DEF Types
<1> QED
    BY <1>1, <1>2, <1>3 DEF Types, DbTypes, DiskTypes, HistoryTypes, db, disk

-----------------------------------------------------------------------------

\* A step of p leaves the other requests alone, keeps all objects, and takes
\* no message out of its file.
Step(p) ==
    /\ nobj <= nobj'
    /\ \A k \in Keys : content[k] # 0 => content'[k] # 0
    /\ \A q \in Procs \ {p} : pc'[q] = pc[q] /\ job'[q] = job[q]

LEMMA JobStays ==
    ASSUME Types, Types', NEW q \in Procs, JobMade(q), nobj <= nobj',
           \A k \in Keys : content[k] # 0 => content'[k] # 0,
           pc'[q] = pc[q], job'[q] = job[q]
    PROVE  JobMade(q)'
<1>1. job[q].src <= nobj /\ job[q].dst <= nobj
    BY DEF JobMade
<1>2. /\ job[q].src \in Int /\ job[q].dst \in Int /\ nobj \in Int
      /\ nobj' \in Int
    BY FoldersAssumption DEF Types, ObjectTypes, RequestTypes, Job, Objs
<1>3. job[q].src <= nobj' /\ job[q].dst <= nobj'
    BY <1>1, <1>2
<1>4. job[q].cur # 0 /\ content[job[q].cur] # 0 => content'[job[q].cur] # 0
    BY DEF Types, RequestTypes, Job
<1> QED
    BY <1>3, <1>4 DEF JobMade

LEMMA StepMade ==
    ASSUME Types, Types', JobsMade, NEW p \in Procs, Step(p), JobMade(p)'
    PROVE  JobsMade'
<1> SUFFICES ASSUME NEW q \in Procs \ {p} PROVE JobMade(q)'
    BY DEF JobsMade
<1> QED
    BY JobStays DEF Step, JobsMade

LEMMA AnswerMade ==
    ASSUME Types, Types', NEW p \in Procs, Answer(p)
    PROVE  /\ JobMade(p)'
           /\ \A q \in Procs \ {p} : pc'[q] = pc[q] /\ job'[q] = job[q]
<1>1. job'[p] = NoJob /\ pc'[p] = "idle"
    BY DEF Answer, Goto, Types, RequestTypes
<1>2. NoJob.src = 0 /\ NoJob.dst = 0
    BY DEF NoJob, Request
<1>3. 0 <= nobj'
    BY FoldersAssumption DEF Types, ObjectTypes, Objs
<1> QED
    BY <1>1, <1>2, <1>3 DEF Answer, Goto, Types, RequestTypes, JobMade,
                            TreeLocs, CopyLocs

\* An answer lets go of what the request holds.
LEMMA AnswerLocked ==
    ASSUME Types, Locked, NEW p \in Procs, Answer(p), umu' \in {umu, NoProc},
           umu # p \/ umu' = NoProc
    PROVE  Locked'
BY FoldersAssumption DEF Answer, Goto, Types, RequestTypes, Locked, KeepsSource

LEMMA FindMade ==
    ASSUME Types, ObjectsMade, NEW n \in Names, NEW o, Find(n, o)
    PROVE  ObjectsMade' /\ nobj <= nobj' /\ o \in 1..nobj'
<1>1. nobj \in Nat
    BY FoldersAssumption DEF Types, ObjectTypes, Objs
<1>2. CASE mailboxes[n] # 0
  <2>1. o = mailboxes[n] /\ UNCHANGED objects
      BY <1>2 DEF Find
  <2>2. o \in Objs /\ o <= nobj
      BY <1>2, <2>1 DEF Types, ObjectTypes, ObjectsMade
  <2> QED
      BY <1>1, <2>1, <2>2 DEF objects, ObjectsMade, Objs
<1>3. CASE mailboxes[n] = 0
  <2>1. PICK i \in Ids : NewMailbox(nobj + 1, i, n) /\ o = nobj + 1
      BY <1>3 DEF Find
  <2>2. ObjectsMade'
      BY <1>1, <2>1 DEF NewMailbox, ObjectsMade, Types, ObjectTypes, Objs
  <2> QED
      BY <1>1, <2>1, <2>2 DEF NewMailbox
<1> QED
    BY <1>2, <1>3

Inv == Types /\ Made /\ Locked

LEMMA InitInv == Init => Inv
<1> SUFFICES ASSUME Init PROVE Inv
    OBVIOUS
<1>1. Types
    BY InitTypes
<1>2. FilesFull /\ ObjectsMade
    BY FoldersAssumption DEF Init, FilesFull, ObjectsMade, Inbox, Msgs, Keys
<1>3. JobsMade
    BY DEF Init, JobsMade, JobMade, NoJob, Request, TreeLocs, CopyLocs
<1>4. Locked
    BY FoldersAssumption DEF Init, Locked
<1> QED
    BY <1>1, <1>2, <1>3, <1>4 DEF Inv, Made

LEMMA LoadInv == ASSUME Inv, Load PROVE Inv'
<1>1. PICK n \in Names : Find(n, nobj + 1)
    BY DEF Load
<1>2. ObjectsMade' /\ nobj <= nobj'
    BY <1>1, FindMade DEF Inv, Made
<1>3. Types' /\ FilesFull' /\ Locked'
    BY LoadTypes DEF Inv, Made, Load, FilesFull, Locked, KeepsSource
<1>4. JobsMade'
  <2> SUFFICES ASSUME NEW p \in Procs PROVE JobMade(p)'
      BY DEF JobsMade
  <2> QED
      BY <1>2, <1>3, JobStays DEF Load, Inv, Made, JobsMade
<1> QED
    BY <1>2, <1>3, <1>4 DEF Inv, Made

LEMMA StepInv ==
    ASSUME Inv, Types', NEW p \in Procs, Step(p), JobMade(p)', FilesFull',
           ObjectsMade', Locked'
    PROVE  Inv'
BY StepMade DEF Inv, Made

\* A step that leaves files and objects alone.
LEMMA RequestStep ==
    ASSUME Inv, Types', NEW p \in Procs, JobMade(p)', Locked',
           \A q \in Procs \ {p} : pc'[q] = pc[q] /\ job'[q] = job[q],
           UNCHANGED <<dir, content, objects>>
    PROVE  Inv'
<1>1. nobj <= nobj'
    BY FoldersAssumption DEF Inv, Types, ObjectTypes, Objs, objects
<1>2. Step(p)
    BY <1>1 DEF Step
<1>3. FilesFull' /\ ObjectsMade'
    BY DEF Inv, Made, FilesFull, ObjectsMade, objects
<1> QED
    BY <1>2, <1>3, StepInv

\* A request that is answered and leaves files and objects alone.
LEMMA AnswerStep ==
    ASSUME Inv, Types', NEW p \in Procs, Answer(p), umu' \in {umu, NoProc},
           umu # p \/ umu' = NoProc, UNCHANGED <<dir, content, objects>>
    PROVE  Inv'
BY AnswerMade, AnswerLocked, RequestStep DEF Inv

LEMMA CreateInv ==
    ASSUME Inv, NEW p \in Procs, NEW n \in Names, CreateFolder(p, n)
    PROVE  Inv'
<1>1. Types'
    BY CreateTypes DEF Inv
<1>2. ObjectsMade' /\ nobj <= nobj'
  <2>1. nobj \in Nat /\ nextId \in Ids
      BY FoldersAssumption DEF CreateFolder, EnsureMailbox, Inv, Types,
                               ObjectTypes, Objs
  <2>2. CASE NewMailbox(nobj + 1, nextId, n)
      BY <2>1, <2>2 DEF NewMailbox, Inv, Made, ObjectsMade, Types, ObjectTypes,
                        Objs
  <2>3. CASE UNCHANGED objects
      BY <2>1, <2>3 DEF objects, Inv, Made, ObjectsMade
  <2> QED
      BY <2>2, <2>3 DEF CreateFolder
<1>3. Step(p) /\ JobMade(p)'
    BY <1>1, <1>2, JobStays DEF CreateFolder, Step, Inv, Made, JobsMade
<1>4. FilesFull' /\ Locked'
    BY DEF CreateFolder, Inv, Made, FilesFull, Locked, KeepsSource
<1> QED
    BY <1>1, <1>2, <1>3, <1>4, StepInv

\* A request that has found its folder.
LEMMA StartInv ==
    ASSUME Inv, Types', NEW p \in Procs, NEW n \in Names, NEW o, Find(n, o),
           JobMade(p)', Locked',
           \A q \in Procs \ {p} : pc'[q] = pc[q] /\ job'[q] = job[q],
           UNCHANGED <<dir, content>>
    PROVE  Inv'
<1>1. ObjectsMade' /\ nobj <= nobj'
    BY FindMade DEF Inv, Made
<1>2. Step(p) /\ FilesFull'
    BY <1>1 DEF Step, Inv, Made, FilesFull
<1> QED
    BY <1>1, <1>2, StepInv

\* A request that begins holds nothing but, in DELETE and RENAME, User.mu.
LEMMA StartLocked ==
    ASSUME Inv, NEW p \in Procs, pc[p] \in {"idle", "find dest"}, UNCHANGED mu,
           \/ UNCHANGED umu
           \/ umu' = p /\ pc'[p] \in TreeLocs,
           \A q \in Procs \ {p} : pc'[q] = pc[q] /\ job'[q] = job[q]
    PROVE  Locked'
<1>1. umu # p /\ \A o \in Objs : mu[o] # p
    BY DEF Inv, Locked, TreeLocs, CopyLocs
<1>2. ASSUME NEW q \in Procs, umu' = q PROVE pc'[q] \in TreeLocs
    BY <1>1, <1>2 DEF Inv, Locked
<1>3. ASSUME NEW o \in Objs, NEW q \in Procs, mu'[o] = q
      PROVE  /\ o = job'[q].src
             /\ \/ KeepsSource(q)' /\ pc'[q] \in CopyLocs \ {"lock"}
                \/ job'[q].kind = "moveTo" /\ pc'[q] = "read"
  <2>1. q # p /\ mu[o] = q
      BY <1>1, <1>3
  <2>2. pc'[q] = pc[q] /\ job'[q] = job[q]
      BY <2>1
  <2>3. /\ o = job[q].src
        /\ \/ KeepsSource(q) /\ pc[q] \in CopyLocs \ {"lock"}
           \/ job[q].kind = "moveTo" /\ pc[q] = "read"
      BY <2>1 DEF Inv, Locked
  <2> QED
      BY ONLY <2>2, <2>3 DEF KeepsSource
<1> QED
    BY <1>2, <1>3 DEF Locked

\* The request it begins is one on folders that were found.
LEMMA StartMade ==
    ASSUME Types', NEW p \in Procs, NEW k, NEW n, NEW t, NEW s, NEW d,
           job'[p] = Request(k, n, t, s, d),
           s <= nobj', s # 0, d <= nobj',
           \/ pc'[p] = "drop row" /\ n \in Names
           \/ pc'[p] = "rename dir" /\ n \in Names /\ t \in Names
           \/ pc'[p] = "find dest" /\ k = "moveTo"
           \/ pc'[p] = "lock" /\ k \in {"copy", "move"} /\ d # 0
    PROVE  JobMade(p)'
<1>1. /\ job'[p].kind = k /\ job'[p].name = n /\ job'[p].to = t
      /\ job'[p].src = s /\ job'[p].dst = d
    BY ONLY RequestFields, job'[p] = Request(k, n, t, s, d)
<1> QED
    BY <1>1 DEF JobMade, TreeLocs, CopyLocs

LEMMA DeleteInv ==
    ASSUME Inv, NEW p \in Procs, NEW n \in Names, DeleteFolder(p, n)
    PROVE  Inv'
<1>1. PICK o \in Objs :
          /\ Find(n, o)
          /\ job' = [job EXCEPT ![p] = Request("delete", n, NoName, o, 0)]
    BY DEF DeleteFolder
<1>2. Types'
    BY DeleteTypes DEF Inv
<1>3. /\ pc[p] = "idle" /\ pc' = [pc EXCEPT ![p] = "drop row"]
      /\ umu' = p /\ umu = NoProc /\ UNCHANGED <<mu, dir, content>>
    BY <1>1 DEF DeleteFolder, Goto, Find
<1>4. o \in 1..nobj' /\ nobj' \in Nat
    BY <1>1, <1>2, FindMade, FoldersAssumption
    DEF Inv, Made, Types, ObjectTypes, Objs
<1>5. /\ job'[p] = Request("delete", n, NoName, o, 0) /\ pc'[p] = "drop row"
      /\ \A q \in Procs \ {p} : pc'[q] = pc[q] /\ job'[q] = job[q]
    BY <1>1, <1>3 DEF Inv, Types, RequestTypes
<1>6. JobMade(p)'
  <2>1. o <= nobj' /\ o # 0 /\ 0 <= nobj'
      BY <1>4
  <2> QED
      BY <1>2, <1>5, <2>1, StartMade
<1>7. Locked'
    BY <1>3, <1>5, StartLocked DEF TreeLocs
<1> QED
    BY <1>1, <1>2, <1>3, <1>5, <1>6, <1>7, StartInv

LEMMA RenameInv ==
    ASSUME Inv, NEW p \in Procs, NEW a \in Names, NEW b \in Names,
           RenameFolder(p, a, b)
    PROVE  Inv'
<1>1. PICK o \in Objs :
          /\ Find(a, o)
          /\ job' = [job EXCEPT ![p] = Request("rename", a, b, o, 0)]
    BY DEF RenameFolder
<1>2. Types'
    BY RenameTypes DEF Inv
<1>3. /\ pc[p] = "idle" /\ pc' = [pc EXCEPT ![p] = "rename dir"]
      /\ umu' = p /\ umu = NoProc /\ UNCHANGED <<mu, dir, content>>
    BY <1>1 DEF RenameFolder, Goto, Find
<1>4. o \in 1..nobj' /\ nobj' \in Nat
    BY <1>1, <1>2, FindMade, FoldersAssumption
    DEF Inv, Made, Types, ObjectTypes, Objs
<1>5. /\ job'[p] = Request("rename", a, b, o, 0) /\ pc'[p] = "rename dir"
      /\ \A q \in Procs \ {p} : pc'[q] = pc[q] /\ job'[q] = job[q]
    BY <1>1, <1>3 DEF Inv, Types, RequestTypes
<1>6. JobMade(p)'
  <2>1. o <= nobj' /\ o # 0 /\ 0 <= nobj'
      BY <1>4
  <2> QED
      BY <1>2, <1>5, <2>1, StartMade
<1>7. Locked'
    BY <1>3, <1>5, StartLocked DEF TreeLocs
<1> QED
    BY <1>1, <1>2, <1>3, <1>5, <1>6, <1>7, StartInv

LEMMA CopyStartInv ==
    ASSUME Inv, NEW p \in Procs, NEW kind, NEW s \in Objs, NEW n \in Names,
           CopyStart(p, kind, s, n)
    PROVE  Inv'
<1>1. PICK o \in Objs :
          /\ Find(n, o)
          /\ job' = [job EXCEPT ![p] = Request(kind, NoName, NoName, s, o)]
    BY DEF CopyStart
<1>2. Types'
    BY CopyStartTypes DEF Inv
<1>3. /\ pc[p] = "idle" /\ pc' = [pc EXCEPT ![p] = "lock"]
      /\ kind \in {"copy", "move"} /\ s \in 1..nobj
      /\ UNCHANGED <<umu, mu, dir, content>>
    BY DEF CopyStart, Goto
<1>4. o \in 1..nobj' /\ nobj' \in Nat /\ nobj \in Nat /\ nobj <= nobj'
    BY <1>1, <1>2, FindMade, FoldersAssumption
    DEF Inv, Made, Types, ObjectTypes, Objs
<1>5. /\ job'[p] = Request(kind, NoName, NoName, s, o) /\ pc'[p] = "lock"
      /\ \A q \in Procs \ {p} : pc'[q] = pc[q] /\ job'[q] = job[q]
    BY <1>1, <1>3 DEF Inv, Types, RequestTypes
<1>6. JobMade(p)'
  <2>1. s <= nobj' /\ s # 0 /\ o <= nobj' /\ o # 0
      BY <1>3, <1>4
  <2>2. kind \in {"copy", "move"} /\ p \in Procs
      BY <1>3
  <2> QED
      BY ONLY <1>2, <1>5, <2>1, <2>2, StartMade
<1>7. Locked'
    BY <1>3, <1>5, StartLocked DEF TreeLocs
<1> QED
    BY <1>1, <1>2, <1>3, <1>5, <1>6, <1>7, StartInv

LEMMA MoveToStartInv ==
    ASSUME Inv, NEW p \in Procs, NEW n \in Names, MoveToStart(p, n)
    PROVE  Inv'
<1>1. PICK o \in Objs :
          /\ Find(n, o)
          /\ job' = [job EXCEPT
                        ![p] = Request("moveTo", NoName, NoName, o, 0)]
    BY DEF MoveToStart
<1>2. Types'
    BY MoveToStartTypes DEF Inv
<1>3. /\ pc[p] = "idle" /\ pc' = [pc EXCEPT ![p] = "find dest"]
      /\ UNCHANGED <<umu, mu, dir, content>>
    BY DEF MoveToStart, Goto
<1>4. o \in 1..nobj' /\ nobj' \in Nat
    BY <1>1, <1>2, FindMade, FoldersAssumption
    DEF Inv, Made, Types, ObjectTypes, Objs
<1>5. /\ job'[p] = Request("moveTo", NoName, NoName, o, 0)
      /\ pc'[p] = "find dest"
      /\ \A q \in Procs \ {p} : pc'[q] = pc[q] /\ job'[q] = job[q]
    BY <1>1, <1>3 DEF Inv, Types, RequestTypes
<1>6. JobMade(p)'
  <2>1. o <= nobj' /\ o # 0 /\ 0 <= nobj'
      BY <1>4
  <2> QED
      BY <1>2, <1>5, <2>1, StartMade
<1>7. Locked'
    BY <1>3, <1>5, StartLocked DEF TreeLocs
<1> QED
    BY <1>1, <1>2, <1>3, <1>5, <1>6, <1>7, StartInv

LEMMA FindDestInv ==
    ASSUME Inv, NEW p \in Procs, NEW n \in Names, FindDest(p, n)
    PROVE  Inv'
<1>1. PICK o \in Objs : Find(n, o) /\ job' = [job EXCEPT ![p].dst = o]
    BY FindTypes DEF FindDest, Find, NewMailbox
<1>2. Types'
    BY FindDestTypes DEF Inv
<1>3. /\ pc[p] = "find dest" /\ pc' = [pc EXCEPT ![p] = "lock"]
      /\ UNCHANGED <<umu, mu, dir, content>>
    BY DEF FindDest, Goto
<1>4. /\ job'[p] = [job[p] EXCEPT !.dst = o] /\ pc'[p] = "lock"
      /\ \A q \in Procs \ {p} : pc'[q] = pc[q] /\ job'[q] = job[q]
    BY <1>1, <1>3 DEF Inv, Types, RequestTypes
<1>5. /\ job'[p].src = job[p].src /\ job'[p].dst = o
      /\ job'[p].kind = job[p].kind
    BY <1>4 DEF Inv, Types, RequestTypes, Job
<1>6. JobMade(p)'
  <2>1. o <= nobj' /\ o # 0 /\ nobj' \in Int /\ nobj \in Int /\ nobj <= nobj'
      BY <1>1, <1>2, FindMade, FoldersAssumption
      DEF Inv, Made, Types, ObjectTypes, Objs
  <2>2. /\ job[p].src <= nobj /\ job[p].src # 0
        /\ job[p].kind \in {"copy", "move", "moveTo"}
      BY <1>3 DEF Inv, Made, JobsMade, JobMade
  <2>3. job[p].src <= nobj'
      BY <2>1, <2>2 DEF Inv, Types, RequestTypes, Job, Objs
  <2> QED
      BY <1>4, <1>5, <2>1, <2>2, <2>3 DEF JobMade, TreeLocs, CopyLocs
<1>7. Locked'
    BY <1>3, <1>4, StartLocked
<1> QED
    BY <1>1, <1>2, <1>3, <1>4, <1>6, <1>7, StartInv

\* A request that goes on, and neither takes nor frees a mutex.
LEMMA ContinueLocked ==
    ASSUME Inv, NEW p \in Procs, UNCHANGED <<umu, mu>>,
           pc[p] \in TreeLocs => pc'[p] \in TreeLocs,
           pc[p] \in CopyLocs \ {"lock"} => pc'[p] \in CopyLocs \ {"lock"},
           pc[p] = "read" /\ job[p].kind = "moveTo" => pc'[p] = "read",
           job'[p].kind = job[p].kind, job'[p].src = job[p].src,
           \A q \in Procs \ {p} : pc'[q] = pc[q] /\ job'[q] = job[q]
    PROVE  Locked'
<1>1. ASSUME NEW q \in Procs, umu' = q PROVE pc'[q] \in TreeLocs
    BY <1>1 DEF Inv, Locked
<1>2. ASSUME NEW o \in Objs, NEW q \in Procs, mu'[o] = q
      PROVE  /\ o = job'[q].src
             /\ \/ KeepsSource(q)' /\ pc'[q] \in CopyLocs \ {"lock"}
                \/ job'[q].kind = "moveTo" /\ pc'[q] = "read"
  <2>1. CASE q = p
      BY <1>2, <2>1 DEF Inv, Locked, KeepsSource
  <2>2. CASE q # p
      BY <1>2, <2>2 DEF Inv, Locked, KeepsSource
  <2> QED
      BY <2>1, <2>2
<1> QED
    BY <1>1, <1>2 DEF Locked

\* A request that goes on in the tree: its local variables stay.
LEMMA TreeContinues ==
    ASSUME Inv, Types', NEW p \in Procs, UNCHANGED <<umu, mu, job, objects>>,
           pc[p] \in TreeLocs, pc'[p] \in TreeLocs,
           pc'[p] # "drop tree" => pc[p] \in {"rename dir", "rename row"},
           \A q \in Procs \ {p} : pc'[q] = pc[q]
    PROVE  JobMade(p)' /\ Locked'
<1>1. JobMade(p)'
    BY DEF Inv, Made, JobsMade, JobMade, TreeLocs, CopyLocs, objects
<1>2. Locked'
    BY ContinueLocked DEF TreeLocs, CopyLocs
<1> QED
    BY <1>1, <1>2

LEMMA DropRowInv ==
    ASSUME Inv, NEW p \in Procs, DropRow(p)
    PROVE  Inv'
<1>1. Types' /\ UNCHANGED <<disk, objects>>
    BY DropRowTypes DEF DropRow, Inv
<1>2. CASE AnswerUnlock(p)
    BY <1>1, <1>2, AnswerStep DEF AnswerUnlock, disk
<1>3. CASE Goto(p, "drop tree") /\ UNCHANGED <<umu, mu, job>>
  <2>1. /\ pc[p] = "drop row" /\ pc'[p] = "drop tree"
        /\ \A q \in Procs \ {p} : pc'[q] = pc[q]
      BY <1>3 DEF DropRow, Goto, Inv, Types, RequestTypes
  <2>2. JobMade(p)' /\ Locked'
      BY <1>1, <1>3, <2>1, TreeContinues DEF TreeLocs
  <2> QED
      BY <1>1, <1>3, <2>1, <2>2, RequestStep DEF disk
<1> QED
    BY <1>2, <1>3 DEF DropRow

\* Files are removed, and the name is forgotten.
LEMMA DropTreeInv ==
    ASSUME Inv, NEW p \in Procs, DropTree(p)
    PROVE  Inv'
<1>1. Types'
    BY DropTreeTypes DEF Inv, Made
<1>2. nobj \in Int
    BY FoldersAssumption DEF Inv, Types, ObjectTypes, Objs
<1>3. Answer(p) /\ umu' = NoProc /\ UNCHANGED <<content, nobj, dbID, root>>
    BY DEF DropTree, AnswerUnlock
<1>4. Step(p) /\ JobMade(p)'
    BY <1>1, <1>2, <1>3, AnswerMade DEF Step, Inv
<1>5. FilesFull'
  <2>1. \A n \in Names : dir'[n] \subseteq dir[n]
      BY DEF DropTree, Inv, Types, DiskTypes
  <2> QED
      BY <1>3, <2>1 DEF Inv, Made, FilesFull
<1>6. ObjectsMade'
  <2>1. \A n \in Names : mailboxes'[n] \in {0, mailboxes[n]}
      BY DEF DropTree, Inv, Types, ObjectTypes
  <2>2. 0 <= nobj
      BY FoldersAssumption DEF Inv, Types, ObjectTypes, Objs
  <2> QED
      BY <1>3, <2>1, <2>2 DEF Inv, Made, ObjectsMade
<1>7. Locked'
    BY <1>3, AnswerLocked DEF Inv
<1> QED
    BY <1>1, <1>4, <1>5, <1>6, <1>7, StepInv

LEMMA RenameDirInv ==
    ASSUME Inv, NEW p \in Procs, RenameDir(p)
    PROVE  Inv'
<1> DEFINE a == root[job[p].src]
           b == job[p].to
<1>1. Types' /\ UNCHANGED <<content, objects>>
    BY RenameDirTypes DEF RenameDir, Inv
<1>2. CASE AnswerUnlock(p) /\ UNCHANGED dir
    BY <1>1, <1>2, AnswerStep DEF AnswerUnlock
<1>3. CASE /\ dir' = [n \in Names |-> FilesAfter(n, a, b)]
           /\ Goto(p, "rename row") /\ UNCHANGED <<umu, mu, job>>
  <2>1. /\ pc[p] = "rename dir" /\ pc'[p] = "rename row"
        /\ \A q \in Procs \ {p} : pc'[q] = pc[q]
      BY <1>3 DEF RenameDir, Goto, Inv, Types, RequestTypes
  <2>2. JobMade(p)' /\ Locked'
      BY <1>1, <1>3, <2>1, TreeContinues DEF TreeLocs
  <2>3. FilesFull'
    <3> SUFFICES ASSUME NEW n \in Names, NEW k \in FilesAfter(n, a, b)
                 PROVE  content[k] # 0
        BY <1>1, <1>3 DEF FilesFull
    <3>1. \E m \in Names : k \in dir[m]
        BY DEF FilesAfter, Tree
    <3> QED
        BY <3>1 DEF Inv, Made, FilesFull
  <2>4. ObjectsMade' /\ nobj <= nobj'
      BY <1>1, FoldersAssumption DEF Inv, Made, ObjectsMade, objects, Types,
                                     ObjectTypes, Objs
  <2>5. Step(p)
      BY <1>1, <1>3, <2>1, <2>4 DEF Step
  <2> QED
      BY <1>1, <2>2, <2>3, <2>4, <2>5, StepInv
<1> QED
    BY <1>2, <1>3 DEF RenameDir

LEMMA RenameRowInv ==
    ASSUME Inv, NEW p \in Procs, RenameRow(p)
    PROVE  Inv'
<1>1. Types' /\ UNCHANGED <<disk, objects>>
    BY RenameRowTypes DEF RenameRow, Inv
<1>2. CASE AnswerUnlock(p)
    BY <1>1, <1>2, AnswerStep DEF AnswerUnlock, disk
<1>3. CASE Goto(p, "swap") /\ UNCHANGED <<umu, mu, job>>
  <2>1. /\ pc[p] = "rename row" /\ pc'[p] = "swap"
        /\ \A q \in Procs \ {p} : pc'[q] = pc[q]
      BY <1>3 DEF RenameRow, Goto, Inv, Types, RequestTypes
  <2>2. JobMade(p)' /\ Locked'
      BY <1>1, <1>3, <2>1, TreeContinues DEF TreeLocs
  <2> QED
      BY <1>1, <1>3, <2>1, <2>2, RequestStep DEF disk
<1> QED
    BY <1>2, <1>3 DEF RenameRow

LEMMA SwapInv ==
    ASSUME Inv, NEW p \in Procs, Swap(p)
    PROVE  Inv'
<1>1. Types'
    BY SwapTypes DEF Inv
<1>2. /\ pc[p] = "swap" /\ Answer(p) /\ umu' = NoProc
      /\ UNCHANGED <<content, dir, nobj, dbID>>
    BY DEF Swap, AnswerUnlock, disk
<1>3. /\ job[p].src \in 1..nobj /\ job[p].src \in Objs /\ job[p].to \in Names
      /\ nobj \in Nat
  <2>1. job[p].src \in 1..nobj /\ job[p].src \in Objs
      BY <1>2, SourceIsMade DEF Inv, Made, TreeLocs
  <2>2. job[p].to \in Names
      BY <1>2 DEF Inv, Made, JobsMade, JobMade
  <2>3. nobj \in Nat
      BY FoldersAssumption DEF Inv, Types, ObjectTypes, Objs
  <2> QED
      BY <2>1, <2>2, <2>3
<1>4. Step(p) /\ JobMade(p)'
    BY <1>1, <1>2, <1>3, AnswerMade DEF Step, Inv
<1>5. FilesFull'
    BY <1>2 DEF Inv, Made, FilesFull
<1>6. ObjectsMade'
  <2>1. \A n \in Names : mailboxes'[n] \in {0, job[p].src, mailboxes[n]}
      BY <1>3 DEF Swap, Inv, Types, ObjectTypes
  <2>2. \A o \in 1..nobj : o \in Objs /\ root'[o] \in {root[o], job[p].to}
      BY <1>3, FoldersAssumption DEF Swap, Inv, Types, ObjectTypes, Objs
  <2> QED
      BY <1>2, <1>3, <2>1, <2>2 DEF Inv, Made, ObjectsMade
<1>7. Locked'
    BY <1>2, AnswerLocked DEF Inv
<1> QED
    BY <1>1, <1>4, <1>5, <1>6, <1>7, StepInv

LEMMA ListReadInv ==
    ASSUME Inv, NEW p \in Procs, ListRead(p)
    PROVE  Inv'
<1>1. Types' /\ UNCHANGED <<dir, content, objects, umu, mu>>
    BY ListReadTypes DEF ListRead, Inv, disk
<1>2. /\ pc[p] = "idle" /\ pc'[p] = "load"
      /\ job'[p] = [job[p] EXCEPT !.kind = "list", !.seen = row]
      /\ \A q \in Procs \ {p} : pc'[q] = pc[q] /\ job'[q] = job[q]
    BY DEF ListRead, Goto, Inv, Types, RequestTypes
<1>3. job'[p].src = job[p].src /\ job'[p].dst = job[p].dst
    BY <1>2 DEF Inv, Types, RequestTypes, Job
<1>4. JobMade(p)'
    BY <1>1, <1>2, <1>3
    DEF Inv, Made, JobsMade, JobMade, TreeLocs, CopyLocs, objects
<1>5. Locked'
    BY <1>1, <1>2, StartLocked
<1> QED
    BY <1>1, <1>2, <1>4, <1>5, RequestStep

LEMMA ListLoadInv ==
    ASSUME Inv, NEW p \in Procs, ListLoad(p)
    PROVE  Inv'
<1>1. Types' /\ ObjectsMade' /\ nobj <= nobj'
    BY ListLoadTypes, ListLoadObjects DEF Inv, Made
<1>2. Answer(p) /\ umu = NoProc /\ UNCHANGED <<umu, dir, content>>
    BY DEF ListLoad
<1>3. Step(p) /\ JobMade(p)'
    BY <1>1, <1>2, AnswerMade DEF Step, Inv
<1>4. FilesFull'
    BY <1>2 DEF Inv, Made, FilesFull
<1>5. Locked'
    BY <1>2, AnswerLocked, FoldersAssumption DEF Inv
<1> QED
    BY <1>1, <1>3, <1>4, <1>5, StepInv

-----------------------------------------------------------------------------

\* Who copies does not hold User.mu.
LEMMA CopierLocks ==
    ASSUME Inv, NEW p \in Procs, pc[p] \in CopyLocs
    PROVE  umu # p
BY DEF Inv, Locked, TreeLocs, CopyLocs

LEMMA CopierAnswers ==
    ASSUME Inv, Types', NEW p \in Procs, pc[p] \in CopyLocs, Answer(p),
           UNCHANGED <<dir, content, objects, umu>>
    PROVE  Inv'
BY CopierLocks, AnswerStep

\* Taking the source: no one else has it.
LEMMA LockSourceInv ==
    ASSUME Inv, NEW p \in Procs, LockSource(p)
    PROVE  Inv'
<1>1. Types' /\ UNCHANGED <<dir, content, objects, umu>>
    BY LockSourceTypes DEF LockSource, Inv, Made, disk
<1>2. PICK ks : job' = [job EXCEPT ![p].todo = ks]
    BY DEF LockSource
<1>3. /\ pc[p] = "lock" /\ pc'[p] = "read"
      /\ job'[p] = [job[p] EXCEPT !.todo = ks]
      /\ \A q \in Procs \ {p} : pc'[q] = pc[q] /\ job'[q] = job[q]
      /\ \A o \in Objs : mu'[o] = IF o = job[p].src THEN p ELSE mu[o]
    BY <1>2 DEF LockSource, Goto, Inv, Types, RequestTypes
<1>4. /\ job'[p].src = job[p].src /\ job'[p].dst = job[p].dst
      /\ job'[p].kind = job[p].kind
    BY <1>3 DEF Inv, Types, RequestTypes, Job
<1>5. JobMade(p)
    BY DEF Inv, Made, JobsMade
<1>6. JobMade(p)'
    BY <1>1, <1>3, <1>4, <1>5 DEF JobMade, TreeLocs, CopyLocs, objects
<1>7. Locked'
  <2>1. ASSUME NEW q \in Procs, umu' = q PROVE pc'[q] \in TreeLocs
    <3>1. umu = q /\ pc[q] \in TreeLocs
        BY <1>1, <2>1 DEF Inv, Locked
    <3>2. q # p
        BY <1>3, <3>1 DEF TreeLocs
    <3> QED
        BY <1>3, <3>1, <3>2
  <2>2. ASSUME NEW o \in Objs, NEW q \in Procs, mu'[o] = q
        PROVE  /\ o = job'[q].src
               /\ \/ KeepsSource(q)' /\ pc'[q] \in CopyLocs \ {"lock"}
                  \/ job'[q].kind = "moveTo" /\ pc'[q] = "read"
    <3>1. CASE o = job[p].src
      <4>1. q = p
          BY <1>3, <2>2, <3>1
      <4>2. job[p].kind \in {"copy", "move", "moveTo"}
          BY <1>3, <1>5 DEF JobMade, CopyLocs
      <4> QED
          BY <1>3, <1>4, <3>1, <4>1, <4>2 DEF KeepsSource, CopyLocs
    <3>2. CASE o # job[p].src
      <4>1. mu[o] = q
          BY <1>3, <2>2, <3>2
      <4>2. /\ o = job[q].src
            /\ \/ KeepsSource(q) /\ pc[q] \in CopyLocs \ {"lock"}
               \/ job[q].kind = "moveTo" /\ pc[q] = "read"
          BY <4>1 DEF Inv, Locked
      <4>3. pc'[q] = pc[q] /\ job'[q] = job[q]
          BY <1>3, <3>2, <4>2
      <4> QED
          BY ONLY <4>2, <4>3 DEF KeepsSource
    <3> QED
        BY <3>1, <3>2
  <2> QED
      BY <2>1, <2>2 DEF Locked
<1> QED
    BY <1>1, <1>3, <1>6, <1>7, RequestStep

LEMMA FindsNothingInv ==
    ASSUME Inv, NEW p \in Procs, FindsNothing(p)
    PROVE  Inv'
BY CopierAnswers, FindsNothingTypes DEF FindsNothing, Inv, disk, CopyLocs

LEMMA ReadInv ==
    ASSUME Inv, NEW p \in Procs, NEW k \in Keys, Read(p, k)
    PROVE  Inv'
<1>1. Types' /\ UNCHANGED <<dir, content, objects, umu>>
    BY ReadTypes DEF Read, Inv, Made, disk
<1>2. CASE Answer(p)
    BY <1>1, <1>2, CopierAnswers DEF Read, CopyLocs
<1>3. CASE /\ k \in dir[root[job[p].src]]
           /\ job' = [job EXCEPT ![p].cur = k, ![p].path = root[job[p].dst]]
           /\ mu' = IF KeepsSource(p) THEN mu
                    ELSE [mu EXCEPT ![job[p].src] = NoProc]
           /\ Goto(p, "deliver")
  <2> DEFINE r == root[job[p].dst]
  <2>1. /\ pc[p] = "read" /\ pc'[p] = "deliver"
        /\ job'[p] = [job[p] EXCEPT !.cur = k, !.path = r]
        /\ \A q \in Procs \ {p} : pc'[q] = pc[q] /\ job'[q] = job[q]
      BY <1>3 DEF Read, Goto, Inv, Types, RequestTypes
  <2>2. r \in Names /\ root[job[p].src] \in Names
      BY <2>1, DestIsMade, SourceIsMade DEF Inv, Made, CopyLocs
  <2>3. k # 0 /\ content[k] # 0
      BY <1>3, <2>2 DEF Inv, Made, FilesFull, Keys
  <2> HIDE DEF r
  <2>4. /\ job'[p].src = job[p].src /\ job'[p].dst = job[p].dst
        /\ job'[p].kind = job[p].kind /\ job'[p].cur = k /\ job'[p].path = r
      BY <2>1 DEF Inv, Types, RequestTypes, Job
  <2>5. JobMade(p)'
    <3>1. JobMade(p) /\ nobj' = nobj /\ content'[k] # 0
        BY <1>1, <2>3 DEF Inv, Made, JobsMade, objects
    <3> QED
        BY <2>1, <2>2, <2>3, <2>4, <3>1 DEF JobMade, TreeLocs, CopyLocs
  <2>6. Locked'
    <3>1. CASE KeepsSource(p)
        BY <1>1, <1>3, <2>1, <2>4, <3>1, ContinueLocked
        DEF KeepsSource, TreeLocs, CopyLocs
    <3>2. CASE ~KeepsSource(p)
      <4>1. mu' = [mu EXCEPT ![job[p].src] = NoProc]
          BY <1>3, <3>2
      <4>2. ASSUME NEW q \in Procs, umu' = q PROVE pc'[q] \in TreeLocs
        <5>1. umu = q /\ pc[q] \in TreeLocs /\ q # p
            BY <1>1, <2>1, <4>2, CopierLocks DEF Inv, Locked, CopyLocs
        <5> QED
            BY <2>1, <5>1
      <4>3. ASSUME NEW o \in Objs, NEW q \in Procs, mu'[o] = q
            PROVE  /\ o = job'[q].src
                   /\ \/ KeepsSource(q)' /\ pc'[q] \in CopyLocs \ {"lock"}
                      \/ job'[q].kind = "moveTo" /\ pc'[q] = "read"
        <5>1. o # job[p].src /\ mu[o] = q
            BY <4>1, <4>3, FoldersAssumption DEF Inv, Types, RequestTypes
        <5>2. /\ o = job[q].src
              /\ \/ KeepsSource(q) /\ pc[q] \in CopyLocs \ {"lock"}
                 \/ job[q].kind = "moveTo" /\ pc[q] = "read"
            BY <5>1 DEF Inv, Locked
        <5>3. pc'[q] = pc[q] /\ job'[q] = job[q]
            BY <2>1, <5>1, <5>2
        <5> QED
            BY ONLY <5>2, <5>3 DEF KeepsSource
      <4> QED
          BY <4>2, <4>3 DEF Locked
    <3> QED
        BY <3>1, <3>2
  <2> QED
      BY <1>1, <2>1, <2>5, <2>6, RequestStep
<1> QED
    BY <1>2, <1>3 DEF Read

LEMMA DeliverFailsInv ==
    ASSUME Inv, NEW p \in Procs, DeliverFails(p)
    PROVE  Inv'
BY CopierAnswers, DeliverFailsTypes DEF DeliverFails, Inv, disk, CopyLocs

\* The new file has the message of the old one in it.
LEMMA DeliverInv ==
    ASSUME Inv, NEW p \in Procs, Deliver(p)
    PROVE  Inv'
<1> DEFINE m == content[job[p].cur]
<1>1. Types' /\ UNCHANGED <<objects, umu, mu, job>>
    BY DeliverTypes DEF Deliver, Inv, Made
<1>2. /\ pc[p] = "deliver" /\ pc'[p] = "insert"
      /\ \A q \in Procs \ {p} : pc'[q] = pc[q]
    BY DEF Deliver, Goto, Inv, Types, RequestTypes
<1>3. m # 0 /\ job[p].path \in Names
    BY <1>2 DEF Inv, Made, JobsMade, JobMade
<1> HIDE DEF m
<1>4. PICK k \in Keys : /\ content' = [content EXCEPT ![k] = m]
                        /\ dir' = [dir EXCEPT ![job[p].path] = @ \cup {k}]
    BY DEF Deliver, Unused, m
<1>5. \A j \in Keys : content[j] # 0 \/ j = k => content'[j] # 0
    BY <1>3, <1>4 DEF Inv, Types, DiskTypes
<1>6. FilesFull'
  <2> SUFFICES ASSUME NEW n \in Names, NEW j \in dir'[n]
               PROVE  content'[j] # 0
      BY DEF FilesFull
  <2>1. j \in dir[n] \/ j = k
      BY <1>4 DEF Inv, Types, DiskTypes
  <2>2. j \in Keys
      BY <1>1 DEF Types, DiskTypes
  <2> QED
      BY <1>5, <2>1, <2>2 DEF Inv, Made, FilesFull
<1>7. ObjectsMade' /\ nobj <= nobj'
    BY <1>1, FoldersAssumption DEF Inv, Made, ObjectsMade, objects, Types,
                                   ObjectTypes, Objs
<1>8. JobMade(p)'
  <2>1. JobMade(p) /\ nobj' = nobj
      BY <1>1 DEF Inv, Made, JobsMade, objects
  <2>2. job[p].cur \in Keys /\ content[job[p].cur] # 0
      BY <1>2, <2>1 DEF JobMade, Inv, Types, RequestTypes, Job
  <2>3. content'[job[p].cur] # 0
      BY <1>5, <2>2
  <2> QED
      BY <1>1, <1>2, <2>1, <2>3 DEF JobMade, TreeLocs, CopyLocs
<1>9. Step(p)
    BY <1>1, <1>2, <1>5, <1>7 DEF Step
<1>10. Locked'
    BY <1>1, <1>2, ContinueLocked DEF TreeLocs, CopyLocs
<1> QED
    BY <1>1, <1>6, <1>7, <1>8, <1>9, <1>10, StepInv

LEMMA InsertInv ==
    ASSUME Inv, NEW p \in Procs, Insert(p)
    PROVE  Inv'
<1>1. Types' /\ UNCHANGED <<dir, content, objects, umu, mu, job>>
    BY InsertTypes DEF Insert, Inv, disk
<1>2. /\ pc[p] = "insert" /\ pc'[p] = "push"
      /\ \A q \in Procs \ {p} : pc'[q] = pc[q]
    BY DEF Insert, Goto, Inv, Types, RequestTypes
<1>3. JobMade(p)'
    BY <1>1, <1>2
    DEF Inv, Made, JobsMade, JobMade, TreeLocs, CopyLocs, objects
<1>4. Locked'
    BY <1>1, <1>2, ContinueLocked DEF TreeLocs, CopyLocs
<1> QED
    BY <1>1, <1>2, <1>3, <1>4, RequestStep

LEMMA InsertFailsInv ==
    ASSUME Inv, NEW p \in Procs, InsertFails(p)
    PROVE  Inv'
BY CopierAnswers, InsertFailsTypes DEF InsertFails, Inv, disk, CopyLocs

LEMMA PushInv ==
    ASSUME Inv, NEW p \in Procs, Push(p)
    PROVE  Inv'
<1> DEFINE left == job[p].todo \ {job[p].cur}
           done == job[p].done \cup {job[p].cur}
           todo == IF left = {} THEN done ELSE left
           l == IF left = {} THEN "remove" ELSE "read"
<1>1. pc[p] = "push" /\ JobMade(p)
    BY DEF Push, Inv, Made, JobsMade
<1>2. Types' /\ UNCHANGED <<dir, content, objects, umu>>
    BY <1>1, PushTypes DEF JobMade, Push, Inv, disk
<1>3. CASE Answer(p)
    BY <1>1, <1>2, <1>3, CopierAnswers DEF CopyLocs
<1>4. CASE /\ job' = [job EXCEPT ![p].todo = todo, ![p].done = done,
                                 ![p].cur = 0, ![p].path = NoName]
           /\ Goto(p, l) /\ UNCHANGED mu
  <2> HIDE DEF todo, done, l
  <2>1. /\ pc'[p] = l
        /\ job'[p] = [job[p] EXCEPT !.todo = todo, !.done = done, !.cur = 0,
                                    !.path = NoName]
        /\ \A q \in Procs \ {p} : pc'[q] = pc[q] /\ job'[q] = job[q]
      BY <1>4 DEF Goto, Inv, Types, RequestTypes
  <2>2. l \in {"remove", "read"}
      BY DEF l
  <2>3. /\ job'[p].src = job[p].src /\ job'[p].dst = job[p].dst
        /\ job'[p].kind = job[p].kind
      BY <2>1 DEF Inv, Types, RequestTypes, Job
  <2>4. JobMade(p)'
      BY <1>1, <1>2, <2>1, <2>2, <2>3
      DEF JobMade, TreeLocs, CopyLocs, objects
  <2>5. Locked'
      BY <1>1, <1>2, <1>4, <2>1, <2>2, <2>3, ContinueLocked
      DEF TreeLocs, CopyLocs
  <2> QED
      BY <1>2, <2>1, <2>4, <2>5, RequestStep
<1> QED
    BY <1>3, <1>4 DEF Push

\* A file is removed, or not, and the others are what they were.
LEMMA FewerFiles ==
    ASSUME Inv, UNCHANGED content,
           \A n \in Names : dir'[n] \subseteq dir[n]
    PROVE  FilesFull'
BY DEF Inv, Made, FilesFull

LEMMA RemoveInv ==
    ASSUME Inv, NEW p \in Procs, NEW k \in Keys, Remove(p, k)
    PROVE  Inv'
<1>1. Types' /\ UNCHANGED <<content, objects, umu, mu, pc>>
    BY RemoveTypes DEF Remove, Inv
<1>2. /\ pc[p] = "remove" /\ job'[p] = [job[p] EXCEPT !.todo = @ \ {k}]
      /\ \A q \in Procs \ {p} : pc'[q] = pc[q] /\ job'[q] = job[q]
    BY DEF Remove, Inv, Types, RequestTypes
<1>3. /\ job'[p].src = job[p].src /\ job'[p].dst = job[p].dst
      /\ job'[p].kind = job[p].kind
    BY <1>2 DEF Inv, Types, RequestTypes, Job
<1>4. JobMade(p)'
    BY <1>1, <1>2, <1>3
    DEF Inv, Made, JobsMade, JobMade, TreeLocs, CopyLocs, objects
<1>5. Locked'
    BY <1>1, <1>2, <1>3, ContinueLocked DEF TreeLocs, CopyLocs
<1>6. FilesFull'
  <2>1. \A n \in Names : dir'[n] \subseteq dir[n]
      BY DEF Remove, Inv, Types, DiskTypes
  <2> QED
      BY <1>1, <2>1, FewerFiles
<1>7. ObjectsMade' /\ nobj <= nobj'
    BY <1>1, FoldersAssumption DEF Inv, Made, ObjectsMade, objects, Types,
                                   ObjectTypes, Objs
<1>8. Step(p)
    BY <1>1, <1>2, <1>7 DEF Step
<1> QED
    BY <1>1, <1>4, <1>5, <1>6, <1>7, <1>8, StepInv

LEMMA RemoveFailsInv ==
    ASSUME Inv, NEW p \in Procs, NEW k \in Keys, RemoveFails(p, k)
    PROVE  Inv'
<1>1. /\ Types' /\ pc[p] = "remove" /\ Answer(p)
      /\ UNCHANGED <<content, objects, umu>>
    BY RemoveFailsTypes DEF RemoveFails, Inv
<1>2. ObjectsMade' /\ nobj <= nobj'
    BY <1>1, FoldersAssumption DEF Inv, Made, ObjectsMade, objects, Types,
                                   ObjectTypes, Objs
<1>3. Step(p) /\ JobMade(p)'
    BY <1>1, <1>2, AnswerMade DEF Step, Inv
<1>4. FilesFull'
  <2>1. \A n \in Names : dir'[n] \subseteq dir[n]
      BY DEF RemoveFails, Inv, Types, DiskTypes
  <2> QED
      BY <1>1, <2>1, FewerFiles
<1>5. Locked'
    BY <1>1, CopierLocks, AnswerLocked DEF Inv, CopyLocs
<1> QED
    BY <1>1, <1>2, <1>3, <1>4, <1>5, StepInv

LEMMA ExpungeInv ==
    ASSUME Inv, NEW p \in Procs, Expunge(p)
    PROVE  Inv'
BY CopierAnswers, ExpungeTypes DEF Expunge, Inv, disk, CopyLocs

\* After a start there are no objects, and no requests.
LEMMA RestartInv ==
    ASSUME Inv, Restart
    PROVE  Inv'
<1>1. Types'
    BY RestartTypes DEF Inv
<1>2. FilesFull'
    BY DEF Restart, disk, Inv, Made, FilesFull
<1>3. ObjectsMade'
    BY DEF Restart, ObjectsMade
<1>4. JobsMade'
    BY DEF Restart, JobsMade, JobMade, NoJob, Request, TreeLocs, CopyLocs
<1>5. Locked'
    BY FoldersAssumption DEF Restart, Locked
<1> QED
    BY <1>1, <1>2, <1>3, <1>4, <1>5 DEF Inv, Made

-----------------------------------------------------------------------------

LEMMA TreeStepInv ==
    ASSUME Inv, NEW p \in Procs, TreeStep(p)
    PROVE  Inv'
BY CreateInv, DeleteInv, DropRowInv, DropTreeInv, RenameInv, RenameDirInv,
   RenameRowInv, SwapInv, ListReadInv, ListLoadInv DEF TreeStep

LEMMA CopyStepInv ==
    ASSUME Inv, NEW p \in Procs, CopyStep(p)
    PROVE  Inv'
BY CopyStartInv, MoveToStartInv, FindDestInv, LockSourceInv, FindsNothingInv,
   ReadInv, RemoveInv, RemoveFailsInv, DeliverInv, DeliverFailsInv, InsertInv,
   InsertFailsInv, PushInv, ExpungeInv DEF CopyStep

LEMMA StutterInv == ASSUME Inv, UNCHANGED vars PROVE Inv'
<1> USE DEF vars, db, disk, objects, history
<1>1. Types'
    BY DEF Inv, Types, DbTypes, DiskTypes, ObjectTypes, RequestTypes,
           HistoryTypes
<1>2. Made'
    BY DEF Inv, Made, FilesFull, ObjectsMade, JobsMade, JobMade
<1>3. Locked'
    BY DEF Inv, Locked, KeepsSource
<1> QED
    BY <1>1, <1>2, <1>3 DEF Inv

LEMMA Invariance == Spec => []Inv
<1>1. Init => Inv
    BY InitInv
<1>2. Inv /\ [Next]_vars => Inv'
    BY TreeStepInv, CopyStepInv, LoadInv, RestartInv, StutterInv DEF Next
<1> QED
    BY <1>1, <1>2, PTL DEF Spec

\* Every variable keeps its type, and a folder is locked by a request that is
\* under way: no return of a handler, early or not, leaves Mailbox.mu locked.
THEOREM TypesCorrect == Spec => []TypeOK
<1>1. ASSUME Inv, NEW o \in Objs, mu[o] # NoProc PROVE pc[mu[o]] # "idle"
  <2>1. mu[o] \in Procs
      BY <1>1 DEF Inv, Types, RequestTypes
  <2> QED
      BY <1>1, <2>1 DEF Inv, Locked, CopyLocs
<1>2. Inv => TypeOK
    BY <1>1, TypesAreTypes DEF Inv
<1> QED
    BY <1>2, Invariance, PTL

\* A request that has a folder locked waits only at the end of an append, and
\* so is a COPY or a MOVE.
LEMMA HolderWaitsToPush ==
    ASSUME Inv, NEW o \in Objs, NEW q \in Procs, mu[o] = q,
           NEW r \in Procs, WaitsFor(q, r)
    PROVE  /\ job[q].kind \in {"copy", "move"}
           /\ \E d \in Objs : mu[d] = r
<1>1. /\ o = job[q].src
      /\ \/ KeepsSource(q) /\ pc[q] \in CopyLocs \ {"lock"}
         \/ job[q].kind = "moveTo" /\ pc[q] = "read"
    BY DEF Inv, Locked
<1>2. pc[q] = "push" /\ job[q].dst # 0 /\ mu[job[q].dst] = r
    BY <1>1 DEF WaitsFor, CopyLocs
<1>3. job[q].dst \in Objs
    BY <1>2 DEF Inv, Types, RequestTypes, Job
<1> QED
    BY <1>1, <1>2, <1>3 DEF KeepsSource

\* Whoever waits waits for a folder, or for a request that holds User.mu.
LEMMA WaitsForWhat ==
    ASSUME Inv, NEW p \in Procs, NEW q \in Procs, WaitsFor(p, q)
    PROVE  \/ umu = q /\ pc[q] \in TreeLocs
           \/ \E o \in Objs : mu[o] = q
<1>1. job[p].src \in Objs \cup {0} /\ job[p].dst \in Objs \cup {0}
    BY DEF Inv, Types, RequestTypes, Job
<1>2. umu = q => pc[q] \in TreeLocs
    BY DEF Inv, Locked
<1>3. \/ umu = q
      \/ job[p].src # 0 /\ mu[job[p].src] = q
      \/ job[p].dst # 0 /\ mu[job[p].dst] = q
    BY DEF WaitsFor
<1> QED
    BY <1>1, <1>2, <1>3

\* DELETE and RENAME, which hold User.mu, wait for a folder.
LEMMA TreeWaitsForFolder ==
    ASSUME Inv, NEW p \in Procs, NEW q \in Procs, WaitsFor(p, q),
           pc[p] \in TreeLocs
    PROVE  \E o \in Objs : mu[o] = q
<1>1. job[p].src \in Objs \cup {0}
    BY DEF Inv, Types, RequestTypes, Job
<1>2. job[p].src # 0 /\ mu[job[p].src] = q
    BY DEF WaitsFor, TreeLocs
<1> QED
    BY <1>1, <1>2

\* The mutexes are taken in an order: User.mu first, then that of a folder,
\* and a second folder only by COPY and MOVE.  For any number of sessions and
\* folders, a circle of waiting requests has in it a COPY or MOVE that waits
\* for another one (session.go:97).
THEOREM LockOrder == Spec => []OnlyMovesDeadlock
<1>1. Inv => OnlyMovesDeadlock
  <2> SUFFICES ASSUME Inv, NEW ps \in SUBSET Procs, ps # {},
                      \A p \in ps : \E q \in ps : WaitsFor(p, q)
               PROVE  \E p, q \in ps :
                          /\ {job[p].kind, job[q].kind} \subseteq
                                 {"copy", "move"}
                          /\ WaitsFor(p, q)
      BY DEF OnlyMovesDeadlock
  <2>1. \E h \in ps : \E o \in Objs : mu[o] = h
    <3>1. PICK p \in ps : TRUE
        OBVIOUS
    <3>2. PICK q \in ps : WaitsFor(p, q)
        OBVIOUS
    <3>3. CASE umu = q /\ pc[q] \in TreeLocs
      <4>1. PICK r \in ps : WaitsFor(q, r)
          OBVIOUS
      <4> QED
          BY <3>3, <4>1, TreeWaitsForFolder
    <3>4. CASE \E o \in Objs : mu[o] = q
        BY <3>4
    <3> QED
        BY <3>2, <3>3, <3>4, WaitsForWhat
  <2>2. PICK h \in ps : \E o \in Objs : mu[o] = h
      BY <2>1
  <2>3. PICK r \in ps : WaitsFor(h, r)
      OBVIOUS
  <2>4. job[h].kind \in {"copy", "move"} /\ \E d \in Objs : mu[d] = r
      BY <2>2, <2>3, HolderWaitsToPush
  <2>5. PICK t \in ps : WaitsFor(r, t)
      OBVIOUS
  <2>6. job[r].kind \in {"copy", "move"}
      BY <2>4, <2>5, HolderWaitsToPush
  <2> QED
      BY <2>3, <2>4, <2>6
<1> QED
    BY <1>1, Invariance, PTL

-----------------------------------------------------------------------------

\* The parts that names are made of.
NameParts == UNION {{n[i] : i \in DOMAIN n} : n \in Names}

\* a is b or a folder above b, part by part.
Prefix(a, b) == Len(a) <= Len(b) /\ \A i \in 1..Len(a) : a[i] = b[i]

LEMMA NamesAreSeqs == Names \subseteq Seq(NameParts)
<1> SUFFICES ASSUME NEW n \in Names PROVE n \in Seq(NameParts)
    OBVIOUS
<1>1. n \in Seq({n[i] : i \in DOMAIN n})
    BY FoldersAssumption
<1>2. {n[i] : i \in DOMAIN n} \subseteq NameParts
    BY DEF NameParts
<1> QED
    BY <1>1, <1>2

LEMMA AbovePrefix ==
    ASSUME NEW n \in Seq(NameParts), NEW a \in Seq(NameParts)
    PROVE  a \in Above(n) <=> Prefix(a, n)
<1>1. ASSUME NEW i \in 0..Len(n)
      PROVE  /\ SubSeq(n, 1, i) \in Seq(NameParts)
             /\ Len(SubSeq(n, 1, i)) = i
             /\ \A j \in 1..i : SubSeq(n, 1, i)[j] = n[j]
    OBVIOUS
<1>2. ASSUME a \in Above(n) PROVE Prefix(a, n)
    BY <1>1, <1>2 DEF Above, Prefix
<1>3. ASSUME Prefix(a, n) PROVE a \in Above(n)
  <2>1. Len(a) \in 0..Len(n)
      BY <1>3 DEF Prefix
  <2>2. a = SubSeq(n, 1, Len(a))
      BY <1>1, <1>3, <2>1, SeqEqual DEF Prefix
  <2> QED
      BY <2>1, <2>2 DEF Above
<1> QED
    BY <1>2, <1>3

LEMMA TreePrefix ==
    ASSUME NEW a \in Names
    PROVE  \A m : m \in Tree(a) <=> m \in Names /\ Prefix(a, m)
BY AbovePrefix, NamesAreSeqs DEF Tree

LEMMA InTree == ASSUME NEW a \in Names PROVE a \in Tree(a)
BY TreePrefix, NamesAreSeqs DEF Prefix

LEMMA MovedName ==
    ASSUME NEW a \in Names, NEW b \in Names, NEW m \in Names, Prefix(a, m)
    PROVE  LET x == Moved(m, a, b) IN
           /\ x \in Seq(NameParts)
           /\ Len(x) = Len(b) + Len(m) - Len(a)
           /\ \A i \in 1..Len(b) : x[i] = b[i]
           /\ \A i \in 1..(Len(m) - Len(a)) : x[Len(b) + i] = m[Len(a) + i]
<1>1. /\ a \in Seq(NameParts) /\ b \in Seq(NameParts) /\ m \in Seq(NameParts)
      /\ Len(a) <= Len(m)
    BY NamesAreSeqs DEF Prefix
<1> DEFINE s == SubSeq(m, Len(a) + 1, Len(m))
<1>2. /\ s \in Seq(NameParts) /\ Len(s) = Len(m) - Len(a)
      /\ \A i \in 1..(Len(m) - Len(a)) : s[i] = m[Len(a) + i]
    BY <1>1
<1> HIDE DEF s
<1>3. /\ b \o s \in Seq(NameParts) /\ Len(b \o s) = Len(b) + Len(s)
      /\ \A i \in 1..Len(b) : (b \o s)[i] = b[i]
      /\ \A i \in 1..Len(s) : (b \o s)[Len(b) + i] = s[i]
  <2> DEFINE c == b \o s
  <2>1. /\ c \in Seq(NameParts) /\ Len(c) = Len(b) + Len(s)
        /\ \A i \in 1..(Len(b) + Len(s)) :
               c[i] = IF i <= Len(b) THEN b[i] ELSE s[i - Len(b)]
      BY ONLY <1>1, <1>2, ConcatProperties
  <2>2. Len(b) \in Nat /\ Len(s) \in Nat
      BY <1>1, <1>2
  <2> HIDE DEF c
  <2>3. ASSUME NEW i \in 1..Len(s) PROVE c[Len(b) + i] = s[i]
    <3>1. /\ Len(b) + i \in 1..(Len(b) + Len(s)) /\ ~(Len(b) + i <= Len(b))
          /\ (Len(b) + i) - Len(b) = i
        BY <2>2
    <3> QED
        BY <2>1, <3>1
  <2>4. \A i \in 1..Len(b) : c[i] = b[i]
      BY <2>1, <2>2
  <2> QED
      BY <2>1, <2>3, <2>4 DEF c
<1> QED
    BY <1>2, <1>3 DEF Moved, s

LEMMA MovedPrefix ==
    ASSUME NEW a \in Names, NEW b \in Names, NEW m \in Names, Prefix(a, m)
    PROVE  Prefix(b, Moved(m, a, b))
<1> DEFINE x == Moved(m, a, b)
<1>1. Len(a) <= Len(m) /\ Len(a) \in Nat /\ Len(b) \in Nat /\ Len(m) \in Nat
    BY NamesAreSeqs DEF Prefix
<1>2. /\ Len(x) = Len(b) + Len(m) - Len(a)
      /\ \A i \in 1..Len(b) : x[i] = b[i]
    BY MovedName
<1> HIDE DEF x
<1>3. Prefix(b, x)
    BY <1>1, <1>2 DEF Prefix
<1> QED
    BY <1>3 DEF x

LEMMA MovedOnce ==
    ASSUME NEW a \in Names, NEW b \in Names, NEW m \in Names, NEW n \in Names,
           Prefix(a, m), Prefix(a, n), Moved(m, a, b) = Moved(n, a, b)
    PROVE  m = n
<1>1. /\ Len(a) \in Nat /\ Len(b) \in Nat /\ Len(m) \in Nat /\ Len(n) \in Nat
      /\ m \in Seq(NameParts) /\ n \in Seq(NameParts)
    BY NamesAreSeqs
<1> DEFINE x == Moved(m, a, b)
           y == Moved(n, a, b)
<1>2. /\ Len(x) = Len(b) + Len(m) - Len(a)
      /\ \A i \in 1..(Len(m) - Len(a)) : x[Len(b) + i] = m[Len(a) + i]
      /\ Len(y) = Len(b) + Len(n) - Len(a)
      /\ \A i \in 1..(Len(n) - Len(a)) : y[Len(b) + i] = n[Len(a) + i]
      /\ x = y
  <2>1. /\ Len(x) = Len(b) + Len(m) - Len(a)
        /\ \A i \in 1..(Len(m) - Len(a)) : x[Len(b) + i] = m[Len(a) + i]
      BY MovedName
  <2>2. /\ Len(y) = Len(b) + Len(n) - Len(a)
        /\ \A i \in 1..(Len(n) - Len(a)) : y[Len(b) + i] = n[Len(a) + i]
      BY MovedName
  <2> HIDE DEF x, y
  <2> QED
      BY <2>1, <2>2 DEF x, y
<1> HIDE DEF x, y
<1>3. Len(m) = Len(n)
    BY <1>1, <1>2
<1>4. \A i \in 1..(Len(m) - Len(a)) : m[Len(a) + i] = n[Len(a) + i]
    BY <1>3, <1>2
<1>5. ASSUME NEW i \in 1..Len(m) PROVE m[i] = n[i]
  <2>1. CASE i <= Len(a)
      BY <1>1, <2>1 DEF Prefix
  <2>2. CASE i > Len(a)
    <3> DEFINE j == i - Len(a)
    <3>1. j \in 1..(Len(m) - Len(a)) /\ Len(a) + j = i
        BY <1>1, <2>2
    <3> HIDE DEF j
    <3> QED
        BY <1>4, <3>1
  <2> QED
      BY <1>1, <2>1, <2>2
<1> QED
    BY <1>1, <1>3, <1>5, SeqEqual

-----------------------------------------------------------------------------

\* The directories that are there have those above them there too; a file is in
\* one directory, and that is there.
DirsClosed == \A n \in dirs : Above(n) \subseteq dirs

FilesPlaced ==
    /\ \A n \in Names : dir[n] # {} => n \in dirs
    /\ \A m, n \in Names : m # n => dir[m] \cap dir[n] = {}

\* What is above a folder outside of a tree is outside of it.
LEMMA OutsideTree ==
    ASSUME NEW a \in Names, NEW n \in Names, n \notin Tree(a),
           NEW x \in Above(n)
    PROVE  x \notin Tree(a)
<1>1. SUFFICES ASSUME x \in Names, Prefix(a, x) PROVE FALSE
    BY TreePrefix
<1>2. a \in Seq(NameParts) /\ n \in Seq(NameParts) /\ x \in Seq(NameParts)
    BY <1>1, NamesAreSeqs
<1>3. Prefix(x, n)
    BY <1>2, AbovePrefix
<1>4. Prefix(a, n)
    BY <1>1, <1>2, <1>3 DEF Prefix
<1> QED
    BY <1>4, TreePrefix

\* os.Rename moves a directory to a place outside of it where nothing was.
LEMMA MovedOut ==
    ASSUME Types, DirsClosed, NEW a \in Names, NEW b \in Names,
           CanRename(a, b), NEW m \in Tree(a)
    PROVE  Moved(m, a, b) \notin Tree(a) \cup dirs
<1> DEFINE x == Moved(m, a, b)
<1>1. m \in Names /\ Prefix(a, m) /\ a \in dirs /\ b \notin dirs
    BY TreePrefix DEF CanRename
<1>2. Prefix(b, x) /\ x \in Seq(NameParts)
    BY <1>1, MovedPrefix, MovedName
<1>3. ~Prefix(a, b)
    BY TreePrefix DEF CanRename
<1>4. a \in Seq(NameParts) /\ b \in Seq(NameParts)
    BY NamesAreSeqs
<1> HIDE DEF x
<1>5. ~Prefix(b, a)
    BY <1>1, <1>4, AbovePrefix DEF DirsClosed
<1>6. ~Prefix(a, x)
    BY <1>2, <1>3, <1>4, <1>5 DEF Prefix
<1>7. x \notin Tree(a)
    BY <1>6, TreePrefix
<1>8. x \notin dirs
  <2>1. b \in Above(x)
      BY <1>2, <1>4, AbovePrefix
  <2> QED
      BY <1>1, <2>1 DEF DirsClosed
<1> QED
    BY <1>7, <1>8 DEF x

\* What is above a directory that was moved is above its new place, or was
\* moved with it.
LEMMA RenameClosed ==
    ASSUME Types, DirsClosed, NEW a \in Names, NEW b \in Names,
           CanRename(a, b),
           dirs' = (dirs \ Tree(a)) \cup {Moved(m, a, b) : m \in dirs \cap Tree(a)},
           dirs' \subseteq Names
    PROVE  DirsClosed'
<1>1. /\ a \in Seq(NameParts) /\ b \in Seq(NameParts) /\ a \in dirs
      /\ dirs \subseteq Seq(NameParts) /\ dirs \subseteq Names
    BY NamesAreSeqs DEF CanRename, Types, DiskTypes
<1>2. ASSUME NEW n \in dirs \ Tree(a), NEW x \in Above(n) PROVE x \in dirs'
  <2>1. x \in dirs
      BY <1>2 DEF DirsClosed
  <2>2. Prefix(x, n)
      BY <1>1, <2>1, AbovePrefix
  <2>3. x \notin Tree(a)
      BY <1>1, OutsideTree
  <2> QED
      BY <2>1, <2>3
<1>3. ASSUME NEW m \in dirs \cap Tree(a), NEW x \in Above(Moved(m, a, b))
      PROVE  x \in dirs'
  <2> DEFINE n == Moved(m, a, b)
  <2>1. m \in Names /\ m \in Seq(NameParts) /\ Prefix(a, m)
      BY NamesAreSeqs, TreePrefix
  <2>2. /\ n \in Seq(NameParts) /\ Len(n) = Len(b) + Len(m) - Len(a)
        /\ \A i \in 1..Len(b) : n[i] = b[i]
        /\ \A i \in 1..(Len(m) - Len(a)) : n[Len(b) + i] = m[Len(a) + i]
        /\ Prefix(b, n)
      BY <2>1, MovedName, MovedPrefix
  <2> HIDE DEF n
  <2>3. x \in Seq(NameParts) /\ Prefix(x, n)
    <3>1. x \in Above(n)
        BY DEF n
    <3>2. x \in Seq(NameParts)
        BY <2>2, <3>1 DEF Above
    <3> QED
        BY <2>2, <3>1, <3>2, AbovePrefix
  <2>4. CASE Len(x) <= Len(b)
    <3>1. Prefix(x, b)
        BY <1>1, <2>2, <2>3, <2>4 DEF Prefix
    <3>2. x \in Above(b)
        BY <1>1, <2>3, <3>1, AbovePrefix
    <3>3. CASE x = b
      <4>1. a \in Tree(a) /\ Prefix(a, a)
          BY InTree, TreePrefix
      <4>2. Moved(a, a, b) = b
        <5> DEFINE y == Moved(a, a, b)
        <5>1. /\ y \in Seq(NameParts) /\ Len(y) = Len(b) + Len(a) - Len(a)
              /\ \A i \in 1..Len(b) : y[i] = b[i]
            BY <4>1, MovedName
        <5> HIDE DEF y
        <5>2. Len(y) = Len(b)
            BY <1>1, <5>1
        <5>3. y = b
            BY <1>1, <5>1, <5>2, SeqEqual
        <5> QED
            BY <5>3 DEF y
      <4> QED
          BY <1>1, <3>3, <4>1, <4>2
    <3>4. CASE x # b
      <4>1. x \in dirs
          BY <3>2, <3>4 DEF CanRename
      <4>2. ~Prefix(a, x)
        <5>1. ~Prefix(a, b)
            BY TreePrefix DEF CanRename
        <5> QED
            BY <1>1, <2>3, <3>1, <5>1 DEF Prefix
      <4> QED
          BY <4>1, <4>2, TreePrefix
    <3> QED
        BY <3>3, <3>4
  <2>5. CASE Len(x) > Len(b)
    <3> DEFINE l == Len(a) + (Len(x) - Len(b))
               y == SubSeq(m, 1, l)
    <3>1. /\ l \in 0..Len(m) /\ Len(a) <= l /\ l \in Nat
          /\ l - Len(a) = Len(x) - Len(b)
        BY <1>1, <2>1, <2>2, <2>3, <2>5 DEF Prefix
    <3> HIDE DEF l
    <3>2. y \in Above(m)
        BY <3>1 DEF Above
    <3>3. /\ y \in Seq(NameParts) /\ Len(y) = l
          /\ \A i \in 1..l : y[i] = m[i]
        BY <2>1, <3>1
    <3> HIDE DEF y
    <3>4. y \in dirs /\ y \in Names
        BY <1>1, <3>2 DEF DirsClosed
    <3>5. Prefix(a, y)
        BY <1>1, <2>1, <3>1, <3>3 DEF Prefix
    <3>6. y \in Tree(a)
        BY <3>4, <3>5, TreePrefix
    <3> DEFINE z == Moved(y, a, b)
    <3>7. /\ z \in Seq(NameParts) /\ Len(z) = Len(b) + Len(y) - Len(a)
          /\ \A i \in 1..Len(b) : z[i] = b[i]
          /\ \A i \in 1..(Len(y) - Len(a)) : z[Len(b) + i] = y[Len(a) + i]
        BY <3>4, <3>5, MovedName
    <3> HIDE DEF z
    <3>8. Len(z) = Len(x)
        BY <1>1, <2>3, <3>1, <3>3, <3>7
    <3>9. ASSUME NEW i \in 1..Len(x) PROVE z[i] = x[i]
      <4>1. x[i] = n[i]
          BY <2>3, <3>9 DEF Prefix
      <4>2. CASE i <= Len(b)
          BY <1>1, <2>2, <3>7, <4>1, <4>2
      <4>3. CASE i > Len(b)
        <5> DEFINE j == i - Len(b)
        <5>1. /\ j \in 1..(Len(y) - Len(a)) /\ j \in 1..(Len(m) - Len(a))
              /\ Len(b) + j = i /\ Len(a) + j \in 1..l
            BY <1>1, <2>1, <2>3, <3>1, <3>3, <4>3
        <5> HIDE DEF j
        <5>2. z[i] = y[Len(a) + j] /\ n[i] = m[Len(a) + j]
            BY <2>2, <3>7, <5>1
        <5> QED
            BY <3>3, <4>1, <5>1, <5>2
      <4> QED
          BY <1>1, <2>3, <4>2, <4>3
    <3>10. z = x
        BY <2>3, <3>7, <3>8, <3>9, SeqEqual
    <3> QED
        BY <3>4, <3>6, <3>10 DEF z
  <2> QED
      BY <1>1, <2>3, <2>4, <2>5
<1> QED
    BY <1>2, <1>3 DEF DirsClosed

\* Where the files are after a rename: those of the directory that was moved
\* are in the new place, the others where they were.
LEMMA RenamePlaces ==
    ASSUME Types, DirsClosed, FilesPlaced, NEW a \in Names, NEW b \in Names,
           CanRename(a, b),
           dirs' = (dirs \ Tree(a)) \cup {Moved(m, a, b) : m \in dirs \cap Tree(a)},
           dirs' \subseteq Names,
           dir' = [n \in Names |-> FilesAfter(n, a, b)]
    PROVE  FilesPlaced' /\ Files' = Files
<1>1. \A n \in Names : dir'[n] = FilesAfter(n, a, b)
    OBVIOUS
<1>2. ASSUME NEW n \in Names, NEW k \in dir'[n]
      PROVE  /\ n \notin Tree(a)
             /\ \/ k \in dir[n]
                \/ \E m \in Tree(a) : Moved(m, a, b) = n /\ k \in dir[m]
    BY <1>1, <1>2 DEF FilesAfter
<1>3. ASSUME NEW m \in Tree(a), dir[m] # {}
      PROVE  /\ m \in dirs /\ Moved(m, a, b) \in Names
             /\ Moved(m, a, b) \in dirs' /\ Moved(m, a, b) \notin dirs
             /\ Moved(m, a, b) \notin Tree(a)
    BY <1>3, MovedOut DEF FilesPlaced, Tree
<1>4. ASSUME NEW n \in Names, dir'[n] # {} PROVE n \in dirs'
  <2>1. PICK k : k \in dir'[n]
      BY <1>4
  <2>2. n \notin Tree(a) /\ \/ k \in dir[n]
                            \/ \E m \in Tree(a) : Moved(m, a, b) = n /\ k \in dir[m]
      BY <1>2, <2>1
  <2> QED
      BY <1>3, <2>2 DEF FilesPlaced
<1>5. ASSUME NEW n \in Names, NEW m \in Names, NEW k \in dir'[n] \cap dir'[m]
      PROVE  n = m
  <2>1. /\ \/ k \in dir[n]
           \/ \E x \in Tree(a) : Moved(x, a, b) = n /\ k \in dir[x]
        /\ \/ k \in dir[m]
           \/ \E x \in Tree(a) : Moved(x, a, b) = m /\ k \in dir[x]
        /\ n \notin Tree(a) /\ m \notin Tree(a)
      BY <1>2
  <2>2. \A x, y \in Names : k \in dir[x] /\ k \in dir[y] => x = y
      BY DEF FilesPlaced
  <2>3. Tree(a) \subseteq Names
      BY DEF Tree
  <2> QED
      BY <2>1, <2>2, <2>3
<1>6. ASSUME NEW k \in Files PROVE k \in Files'
  <2>1. PICK n \in Names : k \in dir[n]
      BY DEF Files
  <2>2. CASE n \in Tree(a)
    <3> DEFINE x == Moved(n, a, b)
    <3>1. x \in Names /\ x \notin Tree(a)
        BY <1>3, <2>1, <2>2
    <3>2. k \in FilesAfter(x, a, b)
        BY <2>1, <2>2, <3>1 DEF FilesAfter
    <3> QED
        BY <1>1, <3>1, <3>2 DEF Files
  <2>3. CASE n \notin Tree(a)
    <3>1. k \in FilesAfter(n, a, b)
        BY <2>1, <2>3 DEF FilesAfter
    <3> QED
        BY <1>1, <3>1 DEF Files
  <2> QED
      BY <2>2, <2>3
<1>7. ASSUME NEW k \in Files' PROVE k \in Files
  <2>1. PICK n \in Names : k \in dir'[n]
      BY DEF Files
  <2> QED
      BY <1>2, <2>1 DEF Files, Tree
<1> QED
    BY <1>4, <1>5, <1>6, <1>7 DEF FilesPlaced

-----------------------------------------------------------------------------

\* A message has the number of its first file; files are numbered in order.
Numbered ==
    /\ \A m \in Msgs : content[m] = m
    /\ \A j, k \in Keys : j < k /\ content[k] # 0 => content[j] # 0

\* k is the last copy that was made of its message.
IsLast(k) == \A j \in Keys : content[j] = content[k] => j <= k

\* The last copy is there: a move removes a file that it has copied, and the
\* copy is a later one.
LastStays ==
    \A m \in Msgs : \/ m \in dropped
                    \/ \E k \in Files : content[k] = m /\ IsLast(k)

HasCopy(k) ==
    content[k] # 0 /\ \E j \in Keys : k < j /\ content[j] = content[k]

Copied(p) ==
    /\ \A k \in job[p].done : HasCopy(k)
    /\ pc[p] \in {"insert", "push"} => HasCopy(job[p].cur)
    /\ pc[p] = "remove" => job[p].todo \subseteq job[p].done

\* The originals that a move has removed, and no other move has.
Gone(p) == IF pc[p] = "remove" THEN job[p].done \ job[p].todo ELSE {}

GoneOnce ==
    /\ \A p \in Procs : Gone(p) \cap Files = {}
    /\ \A p, q \in Procs : p # q => Gone(p) \cap Gone(q) = {}

\* The files of a message, and those that moves under way have removed, are
\* the first one and the copies that are owed.
Counted(m) ==
    {k \in Keys : /\ content[k] = m
                  /\ k \in Files \/ \E p \in Procs : k \in Gone(p)}

Settled == \A m \in Msgs : Cardinality(Counted(m)) <= 1 + owed[m]

Mail ==
    /\ DirsClosed /\ FilesPlaced /\ Numbered /\ LastStays
    /\ \A p \in Procs : Copied(p)
    /\ GoneOnce /\ Settled

LEMMA CountedFinite ==
    ASSUME NEW m, NEW S \in SUBSET Counted(m)
    PROVE  /\ IsFiniteSet(S) /\ IsFiniteSet(Counted(m))
           /\ Cardinality(S) \in Nat /\ Cardinality(Counted(m)) \in Nat
           /\ Cardinality(S) <= Cardinality(Counted(m))
<1>1. IsFiniteSet(Keys)
    BY FoldersAssumption, FS_Interval DEF Keys
<1>2. Counted(m) \subseteq Keys
    BY DEF Counted
<1> HIDE DEF Counted
<1>3. IsFiniteSet(Counted(m))
    BY <1>1, <1>2, FS_Subset
<1> QED
    BY <1>3, FS_Subset, FS_CardinalityType

LEMMA FewerCounted ==
    ASSUME Inv, Mail, NEW m \in Msgs, NEW S \in SUBSET Counted(m)
    PROVE  Cardinality(S) <= 1 + owed[m]
<1>1. /\ Cardinality(S) \in Nat /\ Cardinality(Counted(m)) \in Nat
      /\ Cardinality(S) <= Cardinality(Counted(m))
    BY CountedFinite
<1>2. Cardinality(Counted(m)) <= 1 + owed[m] /\ owed[m] \in Int
    BY DEF Mail, Settled, Inv, Types, HistoryTypes
<1> QED
    BY <1>1, <1>2

LEMMA InitMail == Init => Mail
<1> SUFFICES ASSUME Init PROVE Mail
    OBVIOUS
<1>2. dirs = {Inbox} /\ Inbox \in Names
    BY FoldersAssumption DEF Init, Inbox
<1>3. DirsClosed
    BY <1>2 DEF DirsClosed, Above, Inbox
<1>4. FilesPlaced
    BY <1>2 DEF Init, FilesPlaced
<1>5. Numbered
    BY FoldersAssumption DEF Init, Numbered, Keys, Msgs
<1>6. Files = Msgs /\ Msgs \subseteq Keys /\ \A m \in Msgs : content[m] = m
    BY <1>2, FoldersAssumption DEF Init, Files, Keys, Msgs
<1>7. LastStays
  <2> SUFFICES ASSUME NEW m \in Msgs
               PROVE  \E k \in Files : content[k] = m /\ IsLast(k)
      BY DEF LastStays
  <2>1. \A j \in Keys : content[j] = m => j = m
      BY DEF Init, Msgs
  <2> QED
      BY <1>6, <2>1 DEF IsLast, Msgs
<1>8. \A p \in Procs : Copied(p) /\ Gone(p) = {}
    BY DEF Init, NoJob, Request, Copied, Gone
<1>9. Settled
  <2> SUFFICES ASSUME NEW m \in Msgs PROVE Cardinality(Counted(m)) <= 1 + owed[m]
      BY DEF Settled
  <2>1. Counted(m) = {m}
      BY <1>6, <1>8 DEF Counted, Init
  <2> QED
      BY <2>1, FS_Singleton DEF Init
<1> QED
    BY <1>3, <1>4, <1>5, <1>7, <1>8, <1>9 DEF Mail, GoneOnce

\* A step that makes no file and removes none.
LEMMA SameFiles ==
    ASSUME Inv, Mail, UNCHANGED <<dir, content, owed, dropped>>,
           dirs \subseteq dirs', DirsClosed',
           \A q \in Procs : Copied(q)' /\ Gone(q)' \subseteq Gone(q)
    PROVE  Mail'
<1>1. FilesPlaced' /\ Numbered'
    BY DEF Mail, FilesPlaced, Numbered
<1>2. Files' = Files
    BY DEF Files
<1>3. LastStays'
    BY <1>2 DEF Mail, LastStays, IsLast
<1>4. GoneOnce'
    BY <1>2 DEF Mail, GoneOnce
<1>5. Settled'
  <2> SUFFICES ASSUME NEW m \in Msgs
               PROVE  Cardinality(Counted(m)') <= 1 + owed[m]
      BY DEF Settled
  <2>1. Counted(m)' \subseteq Counted(m)
      BY <1>2 DEF Counted
  <2> QED
      BY <2>1, FewerCounted
<1> QED
    BY <1>1, <1>3, <1>4, <1>5 DEF Mail

LEMMA OtherCopies ==
    ASSUME Mail, UNCHANGED content, NEW q \in Procs,
           pc'[q] = pc[q], job'[q] = job[q]
    PROVE  Copied(q)' /\ Gone(q)' = Gone(q)
BY DEF Mail, Copied, HasCopy, Gone

\* The copies of a request that does not remove, and those of the others.
LEMMA OneRequest ==
    ASSUME Mail, UNCHANGED content, NEW p \in Procs,
           \A q \in Procs \ {p} : pc'[q] = pc[q] /\ job'[q] = job[q],
           \/ /\ pc'[p] \notin {"insert", "push", "remove"}
              /\ job'[p].done \subseteq job[p].done
           \/ /\ pc[p] = "insert" /\ pc'[p] = "push"
              /\ job'[p] = job[p],
           NEW q \in Procs
    PROVE  Copied(q)' /\ Gone(q)' \subseteq Gone(q)
<1>1. CASE q = p
    BY <1>1 DEF Mail, Copied, HasCopy, Gone
<1>2. CASE q # p
    BY <1>2 DEF Mail, Copied, HasCopy, Gone
<1> QED
    BY <1>1, <1>2

LEMMA AddDirs ==
    ASSUME DirsClosed, NEW S \in SUBSET Names,
           dirs' = dirs \cup UNION {Above(n) : n \in S}
    PROVE  DirsClosed'
<1> SUFFICES ASSUME NEW n \in dirs', NEW x \in Above(n) PROVE x \in dirs'
    BY DEF DirsClosed
<1>1. CASE n \in dirs
    BY <1>1 DEF DirsClosed
<1>2. CASE \E m \in S : n \in Above(m)
  <2>1. PICK m \in S : n \in Above(m)
      BY <1>2
  <2>2. m \in Seq(NameParts)
      BY NamesAreSeqs
  <2>3. n \in Seq(NameParts)
      BY <2>1, <2>2 DEF Above
  <2>4. x \in Seq(NameParts)
      BY <2>3 DEF Above
  <2>5. Prefix(n, m) /\ Prefix(x, n)
      BY <2>1, <2>2, <2>3, <2>4, AbovePrefix
  <2>6. Prefix(x, m)
      BY <2>2, <2>3, <2>4, <2>5 DEF Prefix
  <2>7. x \in Above(m)
      BY <2>2, <2>4, <2>6, AbovePrefix
  <2> QED
      BY <2>7
<1> QED
    BY <1>1, <1>2

LEMMA AddDir ==
    ASSUME DirsClosed, NEW n \in Names, dirs' = dirs \cup Above(n)
    PROVE  DirsClosed'
<1>1. {n} \in SUBSET Names /\ dirs' = dirs \cup UNION {Above(m) : m \in {n}}
    OBVIOUS
<1> QED
    BY <1>1, AddDirs

LEMMA SameDirs ==
    ASSUME DirsClosed, UNCHANGED dirs
    PROVE  DirsClosed' /\ dirs \subseteq dirs'
BY DEF DirsClosed

LEMMA FindDirs ==
    ASSUME DirsClosed, NEW n \in Names, NEW o, Find(n, o)
    PROVE  DirsClosed' /\ dirs \subseteq dirs'
<1>1. UNCHANGED dirs \/ dirs' = dirs \cup Above(n)
    BY DEF Find, NewMailbox
<1> QED
    BY <1>1, AddDir, SameDirs

\* A request goes on, begins, or is answered, and no file is made or removed.
LEMMA RequestMail ==
    ASSUME Inv, Mail, NEW p \in Procs, NEW j, NEW l,
           DirsClosed', dirs \subseteq dirs',
           job' = [job EXCEPT ![p] = j], pc' = [pc EXCEPT ![p] = l],
           \/ l \notin {"insert", "push", "remove"} /\ j.done \subseteq job[p].done
           \/ pc[p] = "insert" /\ l = "push" /\ j = job[p],
           UNCHANGED <<dir, content, owed, dropped>>
    PROVE  Mail'
<1>1. /\ job'[p] = j /\ pc'[p] = l
      /\ \A q \in Procs \ {p} : pc'[q] = pc[q] /\ job'[q] = job[q]
    BY DEF Inv, Types, RequestTypes
<1>2. \A q \in Procs : Copied(q)' /\ Gone(q)' \subseteq Gone(q)
    BY <1>1, OneRequest
<1> QED
    BY <1>2, SameFiles

LEMMA AnswerMail ==
    ASSUME Inv, Mail, NEW p \in Procs, Answer(p), DirsClosed',
           dirs \subseteq dirs', UNCHANGED <<dir, content, owed, dropped>>
    PROVE  Mail'
<1>1. NoJob.done = {}
    BY DEF NoJob, Request
<1> HIDE DEF NoJob
<1> QED
    BY <1>1, RequestMail DEF Answer, Goto

LEMMA StartMail ==
    ASSUME Inv, Mail, NEW p \in Procs, NEW k, NEW n, NEW t, NEW s, NEW d, NEW l,
           DirsClosed', dirs \subseteq dirs',
           job' = [job EXCEPT ![p] = Request(k, n, t, s, d)], Goto(p, l),
           l \notin {"insert", "push", "remove"},
           UNCHANGED <<dir, content, owed, dropped>>
    PROVE  Mail'
<1> DEFINE j == Request(k, n, t, s, d)
<1>1. j.done = {}
    BY DEF Request
<1> HIDE DEF j
<1> QED
    BY <1>1, RequestMail DEF Goto, j

\* A request goes on with the same local variables.
LEMMA GoOnMail ==
    ASSUME Inv, Mail, NEW p \in Procs, NEW l, Goto(p, l), UNCHANGED job,
           \/ l \notin {"insert", "push", "remove"}
           \/ pc[p] = "insert" /\ l = "push",
           UNCHANGED <<dirs, dir, content, owed, dropped>>
    PROVE  Mail'
<1>1. job' = [job EXCEPT ![p] = job[p]]
    BY DEF Inv, Types, RequestTypes
<1> QED
    BY <1>1, SameDirs, RequestMail DEF Goto, Mail

LEMMA LoadMail == ASSUME Inv, Mail, Load PROVE Mail'
<1>1. DirsClosed' /\ dirs \subseteq dirs'
    BY FindDirs DEF Load, Mail
<1>2. \A q \in Procs : Copied(q)' /\ Gone(q)' \subseteq Gone(q)
    BY DEF Load, Mail, Copied, HasCopy, Gone
<1> QED
    BY <1>1, <1>2, SameFiles DEF Load, history

LEMMA CreateMail ==
    ASSUME Inv, Mail, NEW p \in Procs, NEW n \in Names, CreateFolder(p, n)
    PROVE  Mail'
<1>1. DirsClosed' /\ dirs \subseteq dirs'
  <2>1. UNCHANGED dirs \/ dirs' = dirs \cup Above(n)
      BY DEF CreateFolder, NewMailbox
  <2> QED
      BY <2>1, AddDir, SameDirs DEF Mail
<1>2. \A q \in Procs : Copied(q)' /\ Gone(q)' \subseteq Gone(q)
    BY DEF CreateFolder, Mail, Copied, HasCopy, Gone
<1> QED
    BY <1>1, <1>2, SameFiles DEF CreateFolder, history

LEMMA DeleteMail ==
    ASSUME Inv, Mail, NEW p \in Procs, NEW n \in Names, DeleteFolder(p, n)
    PROVE  Mail'
<1>1. PICK o \in Objs :
          /\ Find(n, o)
          /\ job' = [job EXCEPT ![p] = Request("delete", n, NoName, o, 0)]
    BY DEF DeleteFolder
<1>2. DirsClosed' /\ dirs \subseteq dirs'
    BY <1>1, FindDirs DEF Mail
<1>3. Goto(p, "drop row") /\ UNCHANGED <<dir, content, owed, dropped>>
    BY DEF DeleteFolder, history
<1>4. "drop row" \notin {"insert", "push", "remove"}
    OBVIOUS
<1> QED
    BY ONLY Inv, Mail, p \in Procs, <1>1, <1>2, <1>3, <1>4, StartMail

LEMMA RenameMail ==
    ASSUME Inv, Mail, NEW p \in Procs, NEW a \in Names, NEW b \in Names,
           RenameFolder(p, a, b)
    PROVE  Mail'
<1>1. PICK o \in Objs :
          /\ Find(a, o)
          /\ job' = [job EXCEPT ![p] = Request("rename", a, b, o, 0)]
    BY DEF RenameFolder
<1>2. DirsClosed' /\ dirs \subseteq dirs'
    BY <1>1, FindDirs DEF Mail
<1>3. Goto(p, "rename dir") /\ UNCHANGED <<dir, content, owed, dropped>>
    BY DEF RenameFolder, history
<1>4. "rename dir" \notin {"insert", "push", "remove"}
    OBVIOUS
<1> QED
    BY ONLY Inv, Mail, p \in Procs, <1>1, <1>2, <1>3, <1>4, StartMail

LEMMA CopyStartMail ==
    ASSUME Inv, Mail, NEW p \in Procs, NEW kind, NEW s \in Objs, NEW n \in Names,
           CopyStart(p, kind, s, n)
    PROVE  Mail'
<1>1. PICK o \in Objs :
          /\ Find(n, o)
          /\ job' = [job EXCEPT ![p] = Request(kind, NoName, NoName, s, o)]
    BY DEF CopyStart
<1>2. DirsClosed' /\ dirs \subseteq dirs'
    BY <1>1, FindDirs DEF Mail
<1>3. Goto(p, "lock") /\ UNCHANGED <<dir, content, owed, dropped>>
    BY DEF CopyStart, history
<1>4. "lock" \notin {"insert", "push", "remove"}
    OBVIOUS
<1> QED
    BY ONLY Inv, Mail, p \in Procs, <1>1, <1>2, <1>3, <1>4, StartMail

LEMMA MoveToStartMail ==
    ASSUME Inv, Mail, NEW p \in Procs, NEW n \in Names, MoveToStart(p, n)
    PROVE  Mail'
<1>1. PICK o \in Objs :
          /\ Find(n, o)
          /\ job' = [job EXCEPT ![p] = Request("moveTo", NoName, NoName, o, 0)]
    BY DEF MoveToStart
<1>2. DirsClosed' /\ dirs \subseteq dirs'
    BY <1>1, FindDirs DEF Mail
<1>3. Goto(p, "find dest") /\ UNCHANGED <<dir, content, owed, dropped>>
    BY DEF MoveToStart, history
<1>4. "find dest" \notin {"insert", "push", "remove"}
    OBVIOUS
<1> QED
    BY ONLY Inv, Mail, p \in Procs, <1>1, <1>2, <1>3, <1>4, StartMail

LEMMA FindDestMail ==
    ASSUME Inv, Mail, NEW p \in Procs, NEW n \in Names, FindDest(p, n)
    PROVE  Mail'
<1>1. PICK o \in Objs : Find(n, o) /\ job' = [job EXCEPT ![p].dst = o]
    BY DEF FindDest
<1>2. DirsClosed' /\ dirs \subseteq dirs'
    BY <1>1, FindDirs DEF Mail
<1> DEFINE j == [job[p] EXCEPT !.dst = o]
<1>3. j.done = job[p].done /\ job' = [job EXCEPT ![p] = j]
    BY <1>1 DEF Inv, Types, RequestTypes, Job
<1> HIDE DEF j
<1> QED
    BY <1>2, <1>3, RequestMail DEF FindDest, Goto, history

LEMMA DropRowMail ==
    ASSUME Inv, Mail, NEW p \in Procs, DropRow(p)
    PROVE  Mail'
<1>1. UNCHANGED <<dirs, dir, content, owed, dropped>>
    BY DEF DropRow, disk, history
<1>2. CASE Goto(p, "drop tree") /\ UNCHANGED job
    BY <1>1, <1>2, GoOnMail
<1>3. CASE Answer(p)
    BY <1>1, <1>3, SameDirs, AnswerMail DEF Mail
<1> QED
    BY <1>2, <1>3 DEF DropRow, AnswerUnlock

LEMMA RenameRowMail ==
    ASSUME Inv, Mail, NEW p \in Procs, RenameRow(p)
    PROVE  Mail'
<1>1. UNCHANGED <<dirs, dir, content, owed, dropped>>
    BY DEF RenameRow, disk, history
<1>2. CASE Goto(p, "swap") /\ UNCHANGED job
    BY <1>1, <1>2, GoOnMail
<1>3. CASE Answer(p)
    BY <1>1, <1>3, SameDirs, AnswerMail DEF Mail
<1> QED
    BY <1>2, <1>3 DEF RenameRow, AnswerUnlock

LEMMA AnswersOnlyMail ==
    ASSUME Inv, Mail, NEW p \in Procs,
           Swap(p) \/ FindsNothing(p) \/ DeliverFails(p) \/ InsertFails(p)
    PROVE  Mail'
<1>1. Answer(p) /\ UNCHANGED <<dirs, dir, content, owed, dropped>>
    BY DEF Swap, AnswerUnlock, FindsNothing, DeliverFails, InsertFails, disk,
           history
<1> QED
    BY <1>1, SameDirs, AnswerMail DEF Mail

LEMMA ListReadMail ==
    ASSUME Inv, Mail, NEW p \in Procs, ListRead(p)
    PROVE  Mail'
<1> DEFINE j == [job[p] EXCEPT !.kind = "list", !.seen = row]
<1>1. j.done = job[p].done /\ job' = [job EXCEPT ![p] = j]
    BY DEF ListRead, Inv, Types, RequestTypes, Job
<1>2. /\ pc' = [pc EXCEPT ![p] = "load"]
      /\ UNCHANGED <<dirs, dir, content, owed, dropped>>
    BY DEF ListRead, Goto, disk, history
<1>3. DirsClosed' /\ dirs \subseteq dirs'
    BY <1>2, SameDirs DEF Mail
<1> HIDE DEF j
<1> QED
    BY <1>1, <1>2, <1>3, RequestMail

LEMMA ListLoadMail ==
    ASSUME Inv, Mail, NEW p \in Procs, ListLoad(p)
    PROVE  Mail'
<1> DEFINE seen == job[p].seen
           new == {i \in Ids : seen[i] # NoName /\ mailboxes[seen[i]] = 0}
           S == {seen[i] : i \in new}
<1>1. S \in SUBSET Names
    BY DEF Inv, Types, RequestTypes, Job
<1>2. dirs' = dirs \cup UNION {Above(seen[i]) : i \in new}
    BY DEF ListLoad
<1> HIDE DEF new, seen
<1>3. dirs' = dirs \cup UNION {Above(n) : n \in S}
    BY <1>2
<1>4. DirsClosed' /\ dirs \subseteq dirs'
    BY <1>1, <1>3, AddDirs DEF Mail
<1> QED
    BY <1>4, AnswerMail DEF ListLoad

LEMMA LockSourceMail ==
    ASSUME Inv, Mail, NEW p \in Procs, LockSource(p)
    PROVE  Mail'
<1>1. PICK ks : job' = [job EXCEPT ![p].todo = ks]
    BY DEF LockSource
<1> DEFINE j == [job[p] EXCEPT !.todo = ks]
<1>2. j.done = job[p].done /\ job' = [job EXCEPT ![p] = j]
    BY <1>1 DEF Inv, Types, RequestTypes, Job
<1>3. DirsClosed' /\ dirs \subseteq dirs'
    BY SameDirs DEF Mail, LockSource, disk
<1> HIDE DEF j
<1> QED
    BY <1>2, <1>3, RequestMail DEF LockSource, Goto, disk, history

LEMMA ReadMail ==
    ASSUME Inv, Mail, NEW p \in Procs, NEW k \in Keys, Read(p, k)
    PROVE  Mail'
<1>1. UNCHANGED <<dirs, dir, content, owed, dropped>>
    BY DEF Read, disk, history
<1>2. DirsClosed' /\ dirs \subseteq dirs'
    BY <1>1, SameDirs DEF Mail
<1>3. CASE Answer(p)
    BY <1>1, <1>2, <1>3, AnswerMail
<1>4. CASE /\ job' = [job EXCEPT ![p].cur = k, ![p].path = root[job[p].dst]]
           /\ Goto(p, "deliver")
  <2> DEFINE j == [job[p] EXCEPT !.cur = k, !.path = root[job[p].dst]]
  <2>1. j.done = job[p].done /\ job' = [job EXCEPT ![p] = j]
      BY <1>4 DEF Inv, Types, RequestTypes, Job
  <2> HIDE DEF j
  <2> QED
      BY <1>1, <1>2, <1>4, <2>1, RequestMail DEF Goto
<1> QED
    BY <1>3, <1>4 DEF Read

LEMMA InsertMail ==
    ASSUME Inv, Mail, NEW p \in Procs, Insert(p)
    PROVE  Mail'
BY GoOnMail DEF Insert, disk, history

\* Maildir.Deliver makes the next file, of the same message: it is the last
\* copy, and one more is owed.
LEMMA DeliverMail ==
    ASSUME Inv, Mail, NEW p \in Procs, Deliver(p)
    PROVE  Mail'
<1> DEFINE m == content[job[p].cur]
           cur == job[p].cur
<1>1. /\ pc[p] = "deliver" /\ pc'[p] = "insert" /\ UNCHANGED <<job, dropped>>
      /\ \A q \in Procs \ {p} : pc'[q] = pc[q]
    BY DEF Deliver, Goto, Inv, Types, RequestTypes
<1>2. job[p].path \in Names /\ cur \in Keys /\ m \in Msgs /\ m # 0
    BY <1>1 DEF Inv, Made, JobsMade, JobMade, Types, RequestTypes, DiskTypes, Job
<1>3. dirs' = dirs \cup Above(job[p].path) /\ owed' = [owed EXCEPT ![m] = @ + 1]
    BY DEF Deliver
<1>4. PICK k \in Keys : /\ content[k] = 0
                        /\ \A j \in Keys : content[j] = 0 => k <= j
                        /\ content' = [content EXCEPT ![k] = m]
                        /\ dir' = [dir EXCEPT ![job[p].path] = @ \cup {k}]
    BY DEF Deliver, Unused
<1> HIDE DEF m, cur
<1>5. /\ content'[k] = m
      /\ \A j \in Keys : j # k => content'[j] = content[j]
      /\ \A j \in Keys : content[j] # 0 => content'[j] = content[j] /\ j # k
    BY <1>4 DEF Inv, Types, DiskTypes
<1>6. \A j \in Keys : content[j] # 0 <=> j < k
  <2>1. Keys \subseteq Int /\ \A j \in Keys : content[j] # 0 => content[j] \in Int
      BY DEF Keys, Msgs, Inv, Types, DiskTypes
  <2>2. ASSUME NEW j \in Keys, content[j] # 0 PROVE j < k
      BY <1>4, <2>1, <2>2 DEF Mail, Numbered
  <2>3. ASSUME NEW j \in Keys, content[j] = 0 PROVE ~(j < k)
      BY <1>4, <2>1, <2>3
  <2> QED
      BY <2>2, <2>3
<1>7. \A n \in Names : /\ dir'[n] = IF n = job[p].path THEN dir[n] \cup {k}
                                    ELSE dir[n]
                       /\ k \notin dir[n]
                       /\ dir[n] \subseteq Keys
    BY <1>4 DEF Inv, Made, FilesFull, Types, DiskTypes
<1>8. DirsClosed' /\ job[p].path \in dirs'
  <2>1. job[p].path \in Above(job[p].path)
      BY <1>2, InTree DEF Tree
  <2> QED
      BY <1>2, <1>3, <2>1, AddDir DEF Mail
<1>9. FilesPlaced'
  <2>1. ASSUME NEW n \in Names, dir'[n] # {} PROVE n \in dirs'
      BY <1>3, <1>7, <1>8, <2>1 DEF Mail, FilesPlaced
  <2>2. ASSUME NEW n \in Names, NEW x \in Names, n # x
        PROVE  dir'[n] \cap dir'[x] = {}
    <3>1. dir[n] \cap dir[x] = {}
        BY <2>2 DEF Mail, FilesPlaced
    <3> QED
        BY <1>7, <2>2, <3>1
  <2> QED
      BY <2>1, <2>2 DEF FilesPlaced
<1>10. Numbered'
  <2>1. \A x \in Msgs : x \in Keys /\ content[x] = x /\ x # 0
      BY FoldersAssumption DEF Mail, Numbered, Msgs, Keys
  <2>2. \A x \in Msgs : content'[x] = x
      BY <1>5, <2>1
  <2>3. ASSUME NEW i \in Keys, NEW j \in Keys, i < j, content'[j] # 0
        PROVE  content'[i] # 0
    <3>1. CASE i = k
        BY <1>2, <1>5, <3>1
    <3>2. CASE i # k
      <4>1. i < k
        <5>1. j <= k
            BY <1>5, <1>6, <2>3 DEF Keys
        <5> QED
            BY <2>3, <3>2, <5>1 DEF Keys
      <4> QED
          BY <1>5, <1>6, <4>1
    <3> QED
        BY <3>1, <3>2
  <2> QED
      BY <2>2, <2>3 DEF Numbered
<1>11. Files' = Files \cup {k} /\ k \notin Files /\ Files \subseteq Keys
  <2>1. Files' = UNION {dir'[n] : n \in Names}
      BY DEF Files
  <2>2. ASSUME NEW x \in Files' PROVE x \in Files \cup {k}
    <3>1. PICK n \in Names : x \in dir'[n]
        BY <2>1, <2>2
    <3>2. x \in dir[n] \/ x = k
        BY <1>7, <3>1
    <3> QED
        BY <3>2 DEF Files
  <2>3. ASSUME NEW x \in Files PROVE x \in Files'
    <3>1. PICK n \in Names : x \in dir[n]
        BY <2>3 DEF Files
    <3> QED
        BY <1>7, <2>1, <3>1
  <2>4. k \in Files'
      BY <1>2, <1>7, <2>1
  <2>5. k \notin Files /\ Files \subseteq Keys
      BY <1>7 DEF Files
  <2> QED
      BY <2>2, <2>3, <2>4, <2>5
<1>12. LastStays'
  <2> SUFFICES ASSUME NEW x \in Msgs, x \notin dropped
               PROVE  \E i \in Files' : content'[i] = x /\ IsLast(i)'
      BY <1>1 DEF LastStays
  <2>1. CASE x = m
    <3>1. \A j \in Keys : content'[j] = m => j <= k
        BY <1>2, <1>5, <1>6 DEF Keys
    <3> QED
        BY <1>5, <1>11, <2>1, <3>1 DEF IsLast
  <2>2. CASE x # m
    <3>1. PICK i \in Files : content[i] = x /\ IsLast(i)
        BY DEF Mail, LastStays
    <3>2. i \in Keys /\ i # k /\ content'[i] = x
        BY <1>5, <1>11, <3>1
    <3>3. IsLast(i)'
        BY <1>5, <2>2, <3>1, <3>2 DEF IsLast
    <3> QED
        BY <1>11, <3>2, <3>3
  <2> QED
      BY <2>1, <2>2
<1>13. ASSUME NEW j \in Keys, HasCopy(j) PROVE HasCopy(j)'
  <2>1. PICK i \in Keys : j < i /\ content[i] = content[j]
      BY <1>13 DEF HasCopy
  <2> QED
      BY <1>5, <1>13, <2>1 DEF HasCopy
<1>14. HasCopy(cur)'
  <2>1. cur < k /\ content'[cur] = m /\ cur' = cur
      BY <1>1, <1>2, <1>5, <1>6 DEF m, cur
  <2> QED
      BY <1>2, <1>5, <2>1 DEF HasCopy
<1>15. \A q \in Procs : job[q].done \subseteq Keys /\ job[q].cur \in Keys \cup {0}
    BY DEF Inv, Types, RequestTypes, Job
<1>16. ASSUME NEW q \in Procs
       PROVE  /\ Copied(q)' /\ Gone(q)' = Gone(q)
              /\ k \notin Gone(q)
  <2>1. Copied(q) /\ job'[q] = job[q] /\ (q # p => pc'[q] = pc[q])
      BY <1>1 DEF Mail
  <2>2. \A j \in job[q].done : HasCopy(j)' /\ content[j] # 0
      BY <1>13, <1>15, <2>1 DEF Copied, HasCopy
  <2>3. pc'[q] \in {"insert", "push"} => HasCopy(job[q].cur)'
    <3>1. CASE q = p
        BY <1>14, <3>1 DEF cur
    <3>2. ASSUME q # p, pc'[q] \in {"insert", "push"}
          PROVE  HasCopy(job[q].cur)'
      <4>1. HasCopy(job[q].cur) /\ job[q].cur # 0
          BY <2>1, <3>2
          DEF Copied, Inv, Made, JobsMade, JobMade
      <4> QED
          BY <1>13, <1>15, <2>1, <4>1
    <3> QED
        BY <3>1, <3>2
  <2>4. pc'[q] = "remove" <=> pc[q] = "remove"
      BY <1>1
  <2> QED
      BY <1>4, <2>1, <2>2, <2>3, <2>4 DEF Copied, Gone
<1>17. GoneOnce'
    BY <1>11, <1>16 DEF Mail, GoneOnce
<1>18. Settled'
  <2> SUFFICES ASSUME NEW x \in Msgs
               PROVE  Cardinality(Counted(x)') <= 1 + owed'[x]
      BY DEF Settled
  <2>1. owed[x] \in Int /\ Cardinality(Counted(x)) <= 1 + owed[x]
      BY DEF Inv, Types, HistoryTypes, Mail, Settled
  <2>2. CASE x = m
    <3>1. Counted(x)' \subseteq Counted(x) \cup {k}
        BY <1>5, <1>11, <1>16 DEF Counted
    <3>2. /\ IsFiniteSet(Counted(x)) /\ Cardinality(Counted(x)) \in Nat
        BY CountedFinite
    <3> DEFINE C == Counted(x)
               D == C \cup {k}
    <3>3. /\ IsFiniteSet(D) /\ Cardinality(D) \in Nat
          /\ Cardinality(D) <= Cardinality(C) + 1
      <4>1. IsFiniteSet(C) /\ Cardinality(C) \in Nat
          BY <3>2
      <4> HIDE DEF C
      <4>2. IsFiniteSet(C \cup {k}) /\
            Cardinality(C \cup {k}) \in {Cardinality(C), Cardinality(C) + 1}
          BY <4>1, FS_AddElement
      <4> QED
          BY <4>1, <4>2
    <3>4. /\ Cardinality(Counted(x)') <= Cardinality(D)
          /\ Cardinality(Counted(x)') \in Nat
        BY <3>1, <3>3, FS_Subset, FS_CardinalityType
    <3>5. owed'[x] = owed[x] + 1
        BY <1>2, <1>3, <2>2 DEF Inv, Types, HistoryTypes
    <3> QED
        BY <2>1, <3>2, <3>3, <3>4, <3>5
  <2>3. CASE x # m
    <3>1. Counted(x)' \subseteq Counted(x)
        BY <1>5, <1>11, <1>16, <2>3 DEF Counted
    <3>2. owed'[x] = owed[x]
        BY <1>3, <2>3 DEF Inv, Types, HistoryTypes
    <3> QED
        BY <3>1, <3>2, FewerCounted
  <2> QED
      BY <2>2, <2>3
<1> QED
    BY <1>8, <1>9, <1>10, <1>12, <1>16, <1>17, <1>18 DEF Mail

\* After the last copy a move turns to the originals, each of which has a copy.
LEMMA PushMail ==
    ASSUME Inv, Mail, NEW p \in Procs, Push(p)
    PROVE  Mail'
<1> DEFINE left == job[p].todo \ {job[p].cur}
           done == job[p].done \cup {job[p].cur}
           todo == IF left = {} THEN done ELSE left
           l == IF left = {} THEN "remove" ELSE "read"
           j == [job[p] EXCEPT !.todo = todo, !.done = done, !.cur = 0,
                               !.path = NoName]
<1>1. pc[p] = "push" /\ UNCHANGED <<dirs, dir, content, owed, dropped>>
    BY DEF Push, disk, history
<1>2. DirsClosed' /\ dirs \subseteq dirs'
    BY <1>1, SameDirs DEF Mail
<1>3. CASE Answer(p)
    BY <1>1, <1>2, <1>3, AnswerMail
<1>4. CASE /\ job' = [job EXCEPT ![p].todo = todo, ![p].done = done,
                                 ![p].cur = 0, ![p].path = NoName]
           /\ Goto(p, l)
  <2>1. j.todo = todo /\ j.done = done
      BY DEF Inv, Types, RequestTypes, Job
  <2>2. /\ job'[p] = j /\ pc'[p] = l
        /\ \A q \in Procs \ {p} : pc'[q] = pc[q] /\ job'[q] = job[q]
      BY <1>4 DEF Goto, Inv, Types, RequestTypes
  <2>3. \A k \in done : HasCopy(k)
      BY <1>1 DEF Mail, Copied
  <2>4. l = "remove" => todo = done
      OBVIOUS
  <2>5. l \in {"remove", "read"}
      OBVIOUS
  <2> HIDE DEF todo, done, l, j
  <2>6. Copied(p)' /\ Gone(p)' = {}
      BY <1>1, <2>1, <2>2, <2>3, <2>4, <2>5 DEF Copied, HasCopy, Gone
  <2>7. \A q \in Procs \ {p} : Copied(q)' /\ Gone(q)' = Gone(q)
      BY <1>1, <2>2, OtherCopies
  <2> QED
      BY <1>1, <1>2, <2>6, <2>7, SameFiles
<1> QED
    BY <1>3, <1>4 DEF Push

\* A request that is answered, and whose copies and moves no longer count.
LEMMA AnswerCopies ==
    ASSUME Inv, Mail, NEW p \in Procs, Answer(p), UNCHANGED content,
           NEW q \in Procs
    PROVE  /\ Copied(q)'
           /\ Gone(q)' = IF q = p THEN {} ELSE Gone(q)
<1>1. /\ pc'[p] = "idle" /\ job'[p] = NoJob
      /\ \A r \in Procs \ {p} : pc'[r] = pc[r] /\ job'[r] = job[r]
    BY DEF Answer, Goto, Inv, Types, RequestTypes
<1>2. NoJob.done = {}
    BY DEF NoJob, Request
<1> HIDE DEF NoJob
<1>3. Copied(p)' /\ Gone(p)' = {}
    BY <1>1, <1>2 DEF Copied, Gone
<1> QED
    BY <1>1, <1>3, OtherCopies

\* Files are removed at the end of a request.
LEMMA AnswerRemoved ==
    ASSUME Inv, Mail, NEW p \in Procs, Answer(p), UNCHANGED <<content, owed>>,
           \A n \in Names : dir'[n] \subseteq dir[n],
           DirsClosed', \A n \in Names : dir'[n] # {} => n \in dirs',
           LastStays'
    PROVE  Mail'
<1>1. Files' \subseteq Files
    BY DEF Files
<1>2. \A q \in Procs : Copied(q)' /\ Gone(q)' \subseteq Gone(q)
    BY AnswerCopies
<1>3. FilesPlaced' /\ Numbered'
    BY DEF Mail, FilesPlaced, Numbered
<1>4. GoneOnce'
    BY <1>1, <1>2 DEF Mail, GoneOnce
<1>5. Settled'
  <2> SUFFICES ASSUME NEW m \in Msgs
               PROVE  Cardinality(Counted(m)') <= 1 + owed[m]
      BY DEF Settled
  <2>1. Counted(m)' \subseteq Counted(m)
      BY <1>1, <1>2 DEF Counted
  <2> QED
      BY <2>1, FewerCounted
<1> QED
    BY <1>2, <1>3, <1>4, <1>5 DEF Mail

\* os.RemoveAll removes the files of the folder that is deleted and of those in
\* it, as far as it gets.
LEMMA DropTreeMail ==
    ASSUME Inv, Mail, NEW p \in Procs, DropTree(p),
           root[job[p].src] = job[p].name
    PROVE  Mail'
<1> DEFINE a == job[p].name
           lost == MsgsIn(UNION {dir[n] : n \in Tree(a)})
<1>1. a \in Names
    BY DEF DropTree, Inv, Made, JobsMade, JobMade, TreeLocs
<1>2. Answer(p) /\ UNCHANGED <<content, owed>> /\ dropped' = dropped \cup lost
    BY DEF DropTree, AnswerUnlock
<1>3. PICK left : dir' = [n \in Names |-> IF n \in Tree(a) THEN dir[n] \cap left
                                          ELSE dir[n]]
  <2>1. \/ dir' = [n \in Names |-> IF n \in Tree(a) THEN dir[n] \cap {}
                                   ELSE dir[n]]
        \/ \E left : dir' = [n \in Names |-> IF n \in Tree(a)
                                             THEN dir[n] \cap left ELSE dir[n]]
      BY DEF DropTree
  <2> QED
      BY ONLY <2>1
<1>4. \/ dirs' = dirs
      \/ /\ dirs' = dirs \ Tree(a)
         /\ \A n \in Tree(a) : dir'[n] = {}
    BY DEF DropTree, Tree
<1>5. /\ \A n \in Names : dir'[n] \subseteq dir[n]
      /\ \A n \in Names \ Tree(a) : dir'[n] = dir[n]
    BY <1>3
<1>6. DirsClosed'
  <2>1. CASE dirs' = dirs
      BY <2>1, SameDirs DEF Mail
  <2>2. CASE dirs' = dirs \ Tree(a)
    <3> SUFFICES ASSUME NEW n \in dirs \ Tree(a), NEW x \in Above(n)
                 PROVE  x \in dirs \ Tree(a)
        BY <2>2 DEF DirsClosed
    <3>1. x \in dirs /\ n \in Names
        BY DEF Mail, DirsClosed, Inv, Types, DiskTypes
    <3> QED
        BY <1>1, <3>1, OutsideTree
  <2> QED
      BY <1>4, <2>1, <2>2
<1>7. \A n \in Names : dir'[n] # {} => n \in dirs'
    BY <1>4, <1>5 DEF Mail, FilesPlaced
<1>8. LastStays'
  <2> SUFFICES ASSUME NEW m \in Msgs, m \notin dropped'
               PROVE  \E k \in Files' : content'[k] = m /\ IsLast(k)'
      BY DEF LastStays
  <2>1. PICK k \in Files : content[k] = m /\ IsLast(k)
      BY <1>2 DEF Mail, LastStays
  <2>2. PICK n \in Names : k \in dir[n]
      BY DEF Files
  <2>3. n \notin Tree(a)
    <3>1. SUFFICES ASSUME n \in Tree(a) PROVE FALSE
        OBVIOUS
    <3>2. m \in lost
        BY <2>1, <2>2, <3>1 DEF MsgsIn
    <3> QED
        BY <1>2, <3>2
  <2>4. k \in Files'
      BY <1>5, <2>2, <2>3 DEF Files
  <2> QED
      BY <1>2, <2>1, <2>4 DEF IsLast
<1> HIDE DEF a, lost
<1> QED
    BY <1>2, <1>5, <1>6, <1>7, <1>8, AnswerRemoved

LEMMA RenameDirMail ==
    ASSUME Inv, Mail, NEW p \in Procs, RenameDir(p)
    PROVE  Mail'
<1> DEFINE a == root[job[p].src]
           b == job[p].to
<1>1. /\ pc[p] = "rename dir" /\ UNCHANGED <<content, owed, dropped>>
    BY DEF RenameDir, history
<1>2. a \in Names /\ b \in Names
    BY <1>1, SourceIsMade DEF Inv, Made, JobsMade, JobMade, TreeLocs
<1>3. CASE Answer(p) /\ UNCHANGED <<dirs, dir>>
    BY <1>1, <1>3, SameDirs, AnswerMail DEF Mail
<1>4. CASE /\ CanRename(a, b)
           /\ dirs' = (dirs \ Tree(a)) \cup
                          {Moved(m, a, b) : m \in dirs \cap Tree(a)}
           /\ dirs' \subseteq Names
           /\ dir' = [n \in Names |-> FilesAfter(n, a, b)]
           /\ Goto(p, "rename row") /\ UNCHANGED job
  <2> HIDE DEF a, b
  <2>1. DirsClosed' /\ FilesPlaced' /\ Files' = Files
      BY <1>2, <1>4, RenameClosed, RenamePlaces DEF Inv, Mail
  <2>2. \A q \in Procs : Copied(q)' /\ Gone(q)' = Gone(q)
    <3>1. /\ pc'[p] = "rename row"
          /\ \A q \in Procs \ {p} : pc'[q] = pc[q]
        BY <1>4 DEF Goto, Inv, Types, RequestTypes
    <3> QED
        BY <1>1, <1>4, <3>1 DEF Mail, Copied, HasCopy, Gone
  <2>3. Numbered' /\ LastStays' /\ GoneOnce'
    <3>1. Numbered' /\ GoneOnce'
        BY <1>1, <2>1, <2>2 DEF Mail, Numbered, GoneOnce
    <3>2. LastStays'
        BY <1>1, <2>1 DEF Mail, LastStays, IsLast
    <3> QED
        BY <3>1, <3>2
  <2>4. \A m : Counted(m)' = Counted(m)
      BY <1>1, <2>1, <2>2 DEF Counted
  <2>5. Settled'
      BY <1>1, <2>4 DEF Mail, Settled
  <2> QED
      BY <2>1, <2>2, <2>3, <2>5 DEF Mail
<1> QED
    BY <1>3, <1>4 DEF RenameDir, AnswerUnlock

\* A move removes a file that has a later copy, so the last one stays.
LEMMA RemovedIsNotLast ==
    ASSUME Mail, NEW k \in Keys, HasCopy(k), UNCHANGED <<content, dropped>>,
           Files \ {k} \subseteq Files'
    PROVE  LastStays'
<1>1. ~IsLast(k)
  <2>1. PICK j \in Keys : k < j /\ content[j] = content[k]
      BY DEF HasCopy
  <2> QED
      BY <2>1 DEF IsLast, Keys
<1> QED
    BY <1>1 DEF Mail, LastStays, IsLast

LEMMA RemoveMail ==
    ASSUME Inv, Mail, NEW p \in Procs, NEW k \in Keys, Remove(p, k)
    PROVE  Mail'
<1> DEFINE r == root[job[p].src]
<1>1. /\ pc[p] = "remove" /\ k \in job[p].todo /\ k \in dir[r]
      /\ dir' = [dir EXCEPT ![r] = @ \ {k}]
      /\ UNCHANGED <<dirs, content, owed, dropped, pc>>
    BY DEF Remove, history
<1>2. r \in Names
    BY <1>1, SourceIsMade DEF Inv, Made, CopyLocs
<1> HIDE DEF r
<1>3. /\ job'[p] = [job[p] EXCEPT !.todo = @ \ {k}]
      /\ \A q \in Procs \ {p} : job'[q] = job[q]
    BY DEF Remove, Inv, Types, RequestTypes
<1>4. /\ job'[p].todo = job[p].todo \ {k} /\ job'[p].done = job[p].done
    BY <1>3 DEF Inv, Types, RequestTypes, Job
<1>5. k \in job[p].done /\ HasCopy(k)
    BY <1>1 DEF Mail, Copied
<1>6. \A n \in Names : dir'[n] = IF n = r THEN dir[n] \ {k} ELSE dir[n]
    BY <1>1 DEF Inv, Types, DiskTypes
<1>7. Files' = Files \ {k} /\ k \in Files
  <2>1. ASSUME NEW n \in Names, n # r PROVE k \notin dir[n]
      BY <1>1, <1>2, <2>1 DEF Mail, FilesPlaced
  <2>2. Files' = UNION {dir'[n] : n \in Names}
      BY DEF Files
  <2>3. ASSUME NEW x \in Files' PROVE x \in Files \ {k}
    <3>1. PICK n \in Names : x \in dir'[n]
        BY <2>2, <2>3
    <3> QED
        BY <1>6, <2>1, <3>1 DEF Files
  <2>4. ASSUME NEW x \in Files \ {k} PROVE x \in Files'
    <3>1. PICK n \in Names : x \in dir[n]
        BY <2>4 DEF Files
    <3> QED
        BY <1>6, <2>2, <2>4, <3>1
  <2>5. k \in Files
      BY <1>1, <1>2 DEF Files
  <2> QED
      BY <2>3, <2>4, <2>5
<1>8. DirsClosed' /\ FilesPlaced' /\ Numbered'
    BY <1>1, <1>6 DEF Mail, DirsClosed, FilesPlaced, Numbered
<1>9. LastStays'
    BY <1>1, <1>5, <1>7, RemovedIsNotLast
<1>10. Copied(p)' /\ Gone(p)' = Gone(p) \cup {k}
    BY <1>1, <1>4, <1>5 DEF Mail, Copied, HasCopy, Gone
<1>11. \A q \in Procs \ {p} : Copied(q)' /\ Gone(q)' = Gone(q)
    BY <1>1, <1>3, OtherCopies
<1>12. GoneOnce'
    BY <1>7, <1>10, <1>11 DEF Mail, GoneOnce
<1>13. \A m : Counted(m)' \subseteq Counted(m)
    BY <1>1, <1>7, <1>10, <1>11 DEF Counted
<1>14. Settled'
    BY <1>1, <1>13, FewerCounted DEF Settled
<1> QED
    BY <1>8, <1>9, <1>10, <1>11, <1>12, <1>14 DEF Mail

LEMMA RemoveFailsMail ==
    ASSUME Inv, Mail, NEW p \in Procs, NEW k \in Keys, RemoveFails(p, k)
    PROVE  Mail'
<1> DEFINE r == root[job[p].src]
<1>1. /\ pc[p] = "remove" /\ k \in job[p].todo /\ Answer(p)
      /\ dir' \in {dir, [dir EXCEPT ![r] = @ \ {k}]}
      /\ UNCHANGED <<dirs, content, owed, dropped>>
    BY DEF RemoveFails, history
<1>2. k \in job[p].done /\ HasCopy(k)
    BY <1>1 DEF Mail, Copied
<1>3. \A n \in Names : dir[n] \ {k} \subseteq dir'[n] /\ dir'[n] \subseteq dir[n]
    BY <1>1 DEF Inv, Types, DiskTypes
<1>4. Files \ {k} \subseteq Files'
    BY <1>3 DEF Files
<1>5. LastStays'
    BY <1>1, <1>2, <1>4, RemovedIsNotLast
<1>6. DirsClosed' /\ \A n \in Names : dir'[n] # {} => n \in dirs'
    BY <1>1, <1>3, SameDirs DEF Mail, FilesPlaced
<1> QED
    BY <1>1, <1>3, <1>5, <1>6, AnswerRemoved

\* The move is answered OK: as many copies are owed less as it has removed
\* originals.
LEMMA ExpungeMail ==
    ASSUME Inv, Mail, NEW p \in Procs, Expunge(p)
    PROVE  Mail'
<1> DEFINE moved(m) == {k \in job[p].done : content[k] = m}
<1>1. /\ pc[p] = "remove" /\ job[p].todo = {} /\ Answer(p)
      /\ UNCHANGED <<dirs, dir, content, dropped>>
      /\ owed' = [m \in Msgs |-> owed[m] - Cardinality(moved(m))]
    BY DEF Expunge, disk
<1>2. Gone(p) = job[p].done /\ job[p].done \subseteq Keys
    BY <1>1 DEF Gone, Inv, Types, RequestTypes, Job
<1>3. Files' = Files
    BY <1>1 DEF Files
<1>4. \A q \in Procs : Copied(q)' /\ Gone(q)' = IF q = p THEN {} ELSE Gone(q)
    BY <1>1, AnswerCopies
<1>5. DirsClosed' /\ FilesPlaced' /\ Numbered'
    BY <1>1, SameDirs DEF Mail, FilesPlaced, Numbered
<1>6. LastStays'
    BY <1>1, <1>3 DEF Mail, LastStays, IsLast
<1>7. GoneOnce'
    BY <1>3, <1>4 DEF Mail, GoneOnce
<1>8. Settled'
  <2> SUFFICES ASSUME NEW m \in Msgs
               PROVE  Cardinality(Counted(m)') <= 1 + owed'[m]
      BY DEF Settled
  <2>1. moved(m) \subseteq Counted(m)
      BY <1>2 DEF Counted
  <2>2. Counted(m)' = Counted(m) \ moved(m)
      BY <1>1, <1>2, <1>3, <1>4 DEF Counted, Mail, GoneOnce
  <2>3. /\ IsFiniteSet(Counted(m)) /\ Cardinality(Counted(m)) \in Nat
        /\ Cardinality(moved(m)) \in Nat
      BY <2>1, CountedFinite
  <2>4. Cardinality(Counted(m) \ moved(m)) =
            Cardinality(Counted(m)) - Cardinality(moved(m))
    <3>1. Counted(m) \cap moved(m) = moved(m)
        BY <2>1
    <3> HIDE DEF moved
    <3> QED
        BY <2>3, <3>1, FS_Difference
  <2>5. owed[m] \in Int /\ Cardinality(Counted(m)) <= 1 + owed[m]
      BY DEF Inv, Types, HistoryTypes, Mail, Settled
  <2>6. owed'[m] = owed[m] - Cardinality(moved(m))
      BY <1>1
  <2> HIDE DEF moved
  <2> QED
      BY <2>2, <2>3, <2>4, <2>5, <2>6
<1> QED
    BY <1>4, <1>5, <1>6, <1>7, <1>8 DEF Mail

LEMMA RestartMail == ASSUME Inv, Mail, Restart PROVE Mail'
<1>1. UNCHANGED <<dirs, dir, content, owed, dropped>>
    BY DEF Restart, disk
<1>2. \A q \in Procs : Copied(q)' /\ Gone(q)' = {}
    BY DEF Restart, Copied, Gone, NoJob, Request
<1>3. DirsClosed' /\ dirs \subseteq dirs'
    BY <1>1, SameDirs DEF Mail
<1> QED
    BY <1>1, <1>2, <1>3, SameFiles

LEMMA StutterMail == ASSUME Inv, Mail, UNCHANGED vars PROVE Mail'
<1>1. UNCHANGED <<dirs, dir, content, owed, dropped, pc, job>>
    BY DEF vars, disk, history
<1>2. \A q \in Procs : Copied(q)' /\ Gone(q)' = Gone(q)
    BY <1>1 DEF Mail, Copied, HasCopy, Gone
<1>3. DirsClosed' /\ dirs \subseteq dirs'
    BY <1>1, SameDirs DEF Mail
<1> QED
    BY <1>1, <1>2, <1>3, SameFiles

-----------------------------------------------------------------------------

\* The object that User.mailboxes has for a name works on the directory of that
\* name; the mutex is held while the two change.
NameRoot == \A n \in Names : mailboxes[n] # 0 => root[mailboxes[n]] = n

\* The rows have names of their own, and ids below the counter.
RowsMade ==
    /\ \A i \in Ids : i >= nextId => row[i] = NoName
    /\ \A i, j \in Ids : row[i] = row[j] /\ row[i] # NoName => i = j

\* The objects have ids of rows that were there, but for those of a late LIST.
IdsMade ==
    \A o \in Objs : /\ o > nobj => dbID[o] = 0
                    /\ ~ghost => dbID[o] < nextId

\* o is the object of a folder whose row has its new name already.
Moving(o) == \E p \in Procs : pc[p] = "swap" /\ job[p].src = o

Right(o) ==
    LET n == row[dbID[o]] IN mailboxes[n] = o /\ root[o] = n

SharedButMoving ==
    ~ghost => \A o \in Objs : Lives(o) /\ ~Moving(o) => Right(o)

AllRight == ~ghost => \A o \in Objs : Lives(o) => Right(o)

\* DELETE and RENAME hold User.mu, and have the object of the name; the new name
\* is free until it is that of the row.
TreeJob(p) ==
    LET s == job[p].src IN
    /\ pc[p] \in TreeLocs => umu = p /\ mailboxes[job[p].name] = s
    /\ pc[p] = "drop tree" => row[dbID[s]] = NoName
    /\ pc[p] \in {"rename dir", "rename row"} => ~Exists(job[p].to)
    /\ pc[p] \in {"rename row", "swap"} => job[p].to # job[p].name
    /\ pc[p] = "swap" =>
           /\ row[dbID[s]] \in {job[p].to, NoName}
           /\ \A i \in Ids : row[i] = job[p].to => i = dbID[s]
           /\ ~ghost => \A o \in Objs \ {s} : Lives(o) => dbID[o] # dbID[s]

Shares ==
    /\ NameRoot /\ RowsMade /\ IdsMade /\ SharedButMoving
    /\ \A p \in Procs : TreeJob(p)

\* One request at a time is in DELETE or RENAME.
LEMMA TreeAlone ==
    ASSUME Shares, NEW p \in Procs, umu \in {NoProc, p},
           NEW q \in Procs, pc[q] \in TreeLocs
    PROVE  q = p /\ umu = p
BY FoldersAssumption DEF Shares, TreeJob

\* Of the requests at most p is in DELETE or RENAME after the step.
LEMMA OthersElsewhere ==
    ASSUME NEW p \in Procs, TreeJob(p)',
           \A q \in Procs \ {p} : pc'[q] \notin TreeLocs
    PROVE  \A q \in Procs : TreeJob(q)'
<1> SUFFICES ASSUME NEW q \in Procs PROVE TreeJob(q)'
    OBVIOUS
<1>1. CASE q = p
    BY <1>1
<1>2. CASE q # p
    BY <1>2 DEF TreeJob, TreeLocs
<1> QED
    BY <1>1, <1>2

LEMMA NotMoving ==
    ASSUME Shares, \A q \in Procs : pc[q] # "swap"
    PROVE  AllRight
BY DEF Shares, SharedButMoving, AllRight, Moving

\* The types that the proofs about objects need.
LEMMA ObjectFacts ==
    ASSUME Inv
    PROVE  /\ nobj \in Nat /\ nextId \in Nat
           /\ \A o \in Objs : /\ dbID[o] \in Ids \cup {0} /\ dbID[o] \in Nat
                              /\ root[o] \in Names \cup {NoName}
                              /\ o \in Nat /\ o # 0
           /\ \A n \in Names : /\ mailboxes[n] \in Objs \cup {0}
                               /\ mailboxes[n] <= nobj
           /\ \A i \in Ids : i \in Nat /\ i # 0 /\ row[i] \in Names \cup {NoName}
<1>1. /\ \A o \in Objs : o \in Nat /\ o # 0
      /\ \A i \in Ids : i \in Nat /\ i # 0
    BY DEF Objs, Ids
<1>2. nobj \in Nat /\ nextId \in Nat
  <2>1. nobj \in Nat
      BY <1>1 DEF Inv, Types, ObjectTypes
  <2>2. nextId \in 1..(MaxIds + 1)
      BY DEF Inv, Types, DbTypes
  <2> QED
      BY <2>1, <2>2, FoldersAssumption
<1>3. \A o \in Objs : /\ dbID[o] \in Ids \cup {0}
                      /\ root[o] \in Names \cup {NoName}
    BY DEF Inv, Types, ObjectTypes
<1>4. \A n \in Names : mailboxes[n] \in Objs \cup {0} /\ mailboxes[n] <= nobj
    BY DEF Inv, Types, ObjectTypes, Made, ObjectsMade
<1>5. \A i \in Ids : row[i] \in Names \cup {NoName}
    BY DEF Inv, Types, DbTypes
<1>6. ASSUME NEW o \in Objs PROVE dbID[o] \in Nat /\ o \in Nat /\ o # 0
  <2>1. dbID[o] \in Ids \cup {0}
      BY <1>3
  <2> QED
      BY <1>1, <2>1
<1> QED
    BY ONLY <1>1, <1>2, <1>3, <1>4, <1>5, <1>6

\* newMailbox for a name that the map does not have an object of a row for.
LEMMA NewShares ==
    ASSUME Inv, NameRoot, IdsMade, AllRight, NEW n \in Names, NEW i \in Ids,
           NewMailbox(nobj + 1, i, n), nextId' \in Nat, nextId <= nextId',
           i < nextId', row'[i] = n, UNCHANGED ghost,
           \A j \in Ids : j < nextId => row'[j] = row[j],
           ~ghost => \A o \in Objs : Lives(o) => row[dbID[o]] # n
    PROVE  NameRoot' /\ IdsMade' /\ AllRight'
<1> DEFINE c == nobj + 1
<1>1. /\ c \in Objs /\ nobj' = c
      /\ \A o \in Objs : /\ dbID'[o] = IF o = c THEN i ELSE dbID[o]
                         /\ root'[o] = IF o = c THEN n ELSE root[o]
      /\ \A m \in Names : mailboxes'[m] = IF m = n THEN c ELSE mailboxes[m]
    BY DEF NewMailbox, Inv, Types, ObjectTypes
<1>2. \A m \in Names : mailboxes[m] # c
    BY ObjectFacts
<1>3. NameRoot'
    BY <1>1, <1>2, ObjectFacts DEF NameRoot
<1>4. IdsMade'
    BY <1>1, ObjectFacts DEF IdsMade
<1>5. AllRight'
  <2> SUFFICES ASSUME ~ghost, NEW o \in Objs, Lives(o)'
               PROVE  Right(o)'
      BY DEF AllRight
  <2>1. CASE o = c
      BY <1>1, <2>1 DEF Right
  <2>2. CASE o # c
    <3>1. dbID'[o] = dbID[o] /\ root'[o] = root[o] /\ dbID[o] \in Ids
        BY <1>1, <2>2, ObjectFacts DEF Lives
    <3>2. row'[dbID[o]] = row[dbID[o]]
        BY <3>1 DEF IdsMade
    <3>3. Lives(o) /\ Right(o) /\ row[dbID[o]] # n
        BY <3>1, <3>2 DEF Lives, AllRight
    <3>4. row[dbID[o]] \in Names
        BY <3>1, <3>3, ObjectFacts DEF Lives
    <3> QED
        BY <1>1, <3>1, <3>2, <3>3, <3>4 DEF Right
  <2> QED
      BY <2>1, <2>2
<1> QED
    BY <1>3, <1>4, <1>5

\* Finding a folder makes an object only where there is none.
LEMMA FindShares ==
    ASSUME Inv, Shares, NEW n \in Names, NEW o, Find(n, o),
           UNCHANGED <<db, ghost>>
    PROVE  /\ umu = NoProc /\ \A q \in Procs : pc[q] \notin TreeLocs
           /\ NameRoot' /\ RowsMade' /\ IdsMade' /\ AllRight'
           /\ mailboxes'[n] = o
<1>1. umu = NoProc /\ \A q \in Procs : pc[q] \notin TreeLocs
    BY FoldersAssumption DEF Find, Shares, TreeJob
<1>2. AllRight
    BY <1>1, NotMoving DEF TreeLocs
<1>3. RowsMade'
    BY DEF Shares, RowsMade, db
<1>4. CASE mailboxes[n] # 0
  <2>1. UNCHANGED <<nobj, dbID, root, mailboxes, row, nextId, ghost>>
        /\ o = mailboxes[n]
      BY <1>4 DEF Find, objects, db
  <2>2. NameRoot' /\ IdsMade'
      BY <2>1 DEF Shares, NameRoot, IdsMade
  <2>3. AllRight'
      BY <1>2, <2>1 DEF AllRight, Right, Lives
  <2> QED
      BY <1>1, <1>3, <2>1, <2>2, <2>3
<1>5. CASE mailboxes[n] = 0
  <2>1. PICK i \in Ids : row[i] = n /\ NewMailbox(nobj + 1, i, n) /\ o = nobj + 1
      BY <1>5 DEF Find
  <2>2. i < nextId
      BY <2>1, ObjectFacts, FoldersAssumption DEF Shares, RowsMade
  <2>3. ~ghost => \A x \in Objs : Lives(x) => row[dbID[x]] # n
      BY <1>2, <1>5, ObjectFacts DEF AllRight, Right
  <2>4. UNCHANGED <<row, nextId, ghost>>
      BY DEF db
  <2>5. NameRoot' /\ IdsMade' /\ AllRight'
      BY <1>2, <2>1, <2>2, <2>3, <2>4, NewShares, ObjectFacts DEF Shares
  <2>6. mailboxes'[n] = o
      BY <2>1 DEF NewMailbox, Inv, Types, ObjectTypes
  <2> QED
      BY <1>1, <1>3, <2>5, <2>6
<1> QED
    BY <1>4, <1>5

\* A step that finds a folder, or makes one, with User.mu free.
LEMMA FreeShares ==
    ASSUME NameRoot', RowsMade', IdsMade', AllRight', NEW p \in Procs,
           \A q \in Procs \ {p} : pc'[q] \notin TreeLocs,
           pc'[p] # "swap", TreeJob(p)'
    PROVE  Shares'
<1>1. \A q \in Procs : TreeJob(q)'
    BY OthersElsewhere
<1>2. SharedButMoving'
    BY DEF AllRight, SharedButMoving
<1> QED
    BY <1>1, <1>2 DEF Shares

LEMMA LoadShares == ASSUME Inv, Shares, Load PROVE Shares'
<1>1. PICK n \in Names : Find(n, nobj + 1)
    BY DEF Load
<1>2. /\ \A q \in Procs : pc[q] \notin TreeLocs /\ pc'[q] = pc[q]
      /\ NameRoot' /\ RowsMade' /\ IdsMade' /\ AllRight'
    BY <1>1, FindShares DEF Load, history
<1>3. \A q \in Procs : TreeJob(q)'
    BY <1>2 DEF TreeJob, TreeLocs
<1>4. SharedButMoving'
    BY <1>2 DEF AllRight, SharedButMoving
<1> QED
    BY <1>2, <1>3, <1>4 DEF Shares

LEMMA CreateShares ==
    ASSUME Inv, Shares, NEW p \in Procs, NEW n \in Names, CreateFolder(p, n)
    PROVE  Shares'
<1>1. /\ umu = NoProc /\ nextId \in Ids /\ nextId' = nextId + 1
      /\ row' = [row EXCEPT ![nextId] = n] /\ \A i \in Ids : row[i] # n
      /\ UNCHANGED <<pc, job, ghost, umu>>
    BY DEF CreateFolder, EnsureMailbox, Exists, history
<1>2. \A q \in Procs : pc'[q] \notin TreeLocs
    BY <1>1, FoldersAssumption DEF Shares, TreeJob
<1>3. AllRight
    BY <1>1, <1>2, NotMoving DEF TreeLocs
<1>4. /\ \A i \in Ids : row'[i] = IF i = nextId THEN n ELSE row[i]
      /\ nextId \in Nat /\ nextId' \in Nat /\ nextId < nextId'
    BY <1>1, ObjectFacts DEF Inv, Types, DbTypes
<1>5. RowsMade'
    BY <1>1, <1>4, ObjectFacts DEF Shares, RowsMade
<1>6. ASSUME ~ghost, NEW o \in Objs, Lives(o)
      PROVE  /\ dbID[o] \in Ids /\ dbID[o] < nextId
             /\ row'[dbID[o]] = row[dbID[o]] /\ row[dbID[o]] # n
  <2>1. dbID[o] \in Ids /\ dbID[o] < nextId
      BY <1>6, ObjectFacts DEF Shares, IdsMade, Lives
  <2>2. dbID[o] # nextId
      BY <1>4, <2>1, ObjectFacts
  <2> QED
      BY <1>1, <1>4, <2>1, <2>2
<1>7. NameRoot' /\ IdsMade' /\ AllRight'
  <2>1. CASE NewMailbox(nobj + 1, nextId, n)
      BY <1>1, <1>3, <1>4, <1>6, <2>1, NewShares, ObjectFacts DEF Shares
  <2>2. CASE UNCHANGED objects
    <3>1. NameRoot'
        BY <2>2 DEF Shares, NameRoot, objects
    <3>2. IdsMade'
      <4>1. \A o \in Objs : dbID[o] \in Nat
          BY ObjectFacts
      <4> QED
          BY <1>1, <1>4, <2>2, <4>1 DEF Shares, IdsMade, objects
    <3>3. AllRight'
      <4> SUFFICES ASSUME ~ghost, NEW o \in Objs, Lives(o)' PROVE Right(o)'
          BY <1>1 DEF AllRight
      <4>1. dbID'[o] = dbID[o] /\ dbID[o] \in Ids /\ dbID[o] < nextId
          BY <2>2, ObjectFacts DEF objects, Lives, Shares, IdsMade
      <4>2. row'[dbID[o]] = row[dbID[o]]
          BY <1>4, <4>1
      <4>3. Lives(o) /\ Right(o)
          BY <1>3, <4>1, <4>2 DEF Lives, AllRight
      <4> QED
          BY <2>2, <4>1, <4>2, <4>3 DEF Right, objects
    <3> QED
        BY <3>1, <3>2, <3>3
  <2> QED
      BY <2>1, <2>2 DEF CreateFolder
<1>8. TreeJob(p)' /\ pc'[p] # "swap"
    BY <1>2 DEF TreeJob, TreeLocs
<1> QED
    BY <1>2, <1>5, <1>7, <1>8, FreeShares

LEMMA DeleteShares ==
    ASSUME Inv, Shares, NEW p \in Procs, NEW n \in Names, DeleteFolder(p, n)
    PROVE  Shares'
<1>1. PICK o \in Objs :
          /\ Find(n, o)
          /\ job' = [job EXCEPT ![p] = Request("delete", n, NoName, o, 0)]
    BY DEF DeleteFolder
<1>2. /\ \A q \in Procs : pc[q] \notin TreeLocs
      /\ NameRoot' /\ RowsMade' /\ IdsMade' /\ AllRight' /\ mailboxes'[n] = o
    BY <1>1, FindShares DEF DeleteFolder, history
<1>3. /\ pc'[p] = "drop row" /\ umu' = p
      /\ job'[p] = Request("delete", n, NoName, o, 0)
      /\ \A q \in Procs \ {p} : pc'[q] = pc[q]
    BY <1>1 DEF DeleteFolder, Goto, Inv, Types, RequestTypes
<1>4. job'[p].name = n /\ job'[p].src = o
  <2>1. job'[p] = Request("delete", n, NoName, o, 0)
      BY <1>3
  <2> QED
      BY ONLY <2>1, RequestFields
<1>5. TreeJob(p)'
    BY <1>2, <1>3, <1>4 DEF TreeJob
<1> QED
    BY <1>2, <1>3, <1>5, FreeShares

LEMMA RenameShares ==
    ASSUME Inv, Shares, NEW p \in Procs, NEW a \in Names, NEW b \in Names,
           RenameFolder(p, a, b)
    PROVE  Shares'
<1>1. PICK o \in Objs :
          /\ Find(a, o)
          /\ job' = [job EXCEPT ![p] = Request("rename", a, b, o, 0)]
    BY DEF RenameFolder
<1>2. /\ \A q \in Procs : pc[q] \notin TreeLocs
      /\ NameRoot' /\ RowsMade' /\ IdsMade' /\ AllRight' /\ mailboxes'[a] = o
    BY <1>1, FindShares DEF RenameFolder, history
<1>3. /\ pc'[p] = "rename dir" /\ umu' = p /\ ~Exists(b) /\ UNCHANGED row
      /\ job'[p] = Request("rename", a, b, o, 0)
      /\ \A q \in Procs \ {p} : pc'[q] = pc[q]
    BY <1>1 DEF RenameFolder, Goto, Inv, Types, RequestTypes, db
<1>4. job'[p].name = a /\ job'[p].to = b /\ job'[p].src = o
  <2>1. job'[p] = Request("rename", a, b, o, 0)
      BY <1>3
  <2> QED
      BY ONLY <2>1, RequestFields
<1>5. TreeJob(p)'
    BY <1>2, <1>3, <1>4 DEF TreeJob, Exists
<1> QED
    BY <1>2, <1>3, <1>5, FreeShares

\* A request that finds a folder, and is not DELETE or RENAME.
LEMMA StartShares ==
    ASSUME Inv, Shares, NEW p \in Procs, NEW n \in Names, NEW o, Find(n, o),
           NEW l, l \notin TreeLocs, Goto(p, l), UNCHANGED <<db, history>>
    PROVE  Shares'
<1>1. /\ \A q \in Procs : pc[q] \notin TreeLocs
      /\ NameRoot' /\ RowsMade' /\ IdsMade' /\ AllRight'
    BY FindShares DEF history
<1>2. pc'[p] = l /\ \A q \in Procs \ {p} : pc'[q] = pc[q]
    BY DEF Goto, Inv, Types, RequestTypes
<1>3. TreeJob(p)'
    BY <1>2 DEF TreeJob, TreeLocs
<1> QED
    BY <1>1, <1>2, <1>3, FreeShares DEF TreeLocs

LEMMA CopyStartShares ==
    ASSUME Inv, Shares, NEW p \in Procs, NEW kind, NEW s \in Objs,
           NEW n \in Names, CopyStart(p, kind, s, n)
    PROVE  Shares'
<1>1. PICK o : Find(n, o)
    BY DEF CopyStart
<1>2. Goto(p, "lock") /\ "lock" \notin TreeLocs /\ UNCHANGED <<db, history>>
    BY DEF CopyStart, TreeLocs
<1> QED
    BY ONLY Inv, Shares, p \in Procs, n \in Names, <1>1, <1>2, StartShares

LEMMA MoveToStartShares ==
    ASSUME Inv, Shares, NEW p \in Procs, NEW n \in Names, MoveToStart(p, n)
    PROVE  Shares'
<1>1. PICK o : Find(n, o)
    BY DEF MoveToStart
<1>2. /\ Goto(p, "find dest") /\ "find dest" \notin TreeLocs
      /\ UNCHANGED <<db, history>>
    BY DEF MoveToStart, TreeLocs
<1> QED
    BY ONLY Inv, Shares, p \in Procs, n \in Names, <1>1, <1>2, StartShares

LEMMA FindDestShares ==
    ASSUME Inv, Shares, NEW p \in Procs, NEW n \in Names, FindDest(p, n)
    PROVE  Shares'
<1>1. PICK o : Find(n, o)
    BY DEF FindDest
<1>2. Goto(p, "lock") /\ "lock" \notin TreeLocs /\ UNCHANGED <<db, history>>
    BY DEF FindDest, TreeLocs
<1> QED
    BY ONLY Inv, Shares, p \in Procs, n \in Names, <1>1, <1>2, StartShares

\* LIST makes an object for each row that it has read and that has none; a row
\* that has changed since makes a ghost.
LEMMA ListLoadShares ==
    ASSUME Inv, Shares, NEW p \in Procs, ListLoad(p)
    PROVE  Shares'
<1> DEFINE seen == job[p].seen
           new == {i \in Ids : seen[i] # NoName /\ mailboxes[seen[i]] = 0}
           objectOf(i) == nobj + Cardinality({j \in new : j <= i})
           loads(o) == CHOOSE i \in new : objectOf(i) = o
           first(n) == CHOOSE i \in new : seen[i] = n
<1>1. /\ nobj \in Nat /\ Cardinality(new) \in Nat
      /\ nobj' = nobj + Cardinality(new) /\ nobj' <= MaxObjs
      /\ \A i \in new : objectOf(i) \in (nobj + 1)..nobj'
      /\ \A o \in (nobj + 1)..nobj' : \E i \in new : objectOf(i) = o
      /\ \A i, j \in new : objectOf(i) = objectOf(j) => i = j
  <2>1. new \in SUBSET Ids /\ nobj \in Nat
      BY ObjectFacts
  <2>2. nobj' = nobj + Cardinality(new) /\ nobj' <= MaxObjs
      BY DEF ListLoad
  <2> HIDE DEF new
  <2>3. /\ Cardinality(new) \in Nat
        /\ \A i \in new : objectOf(i) \in (nobj + 1)..(nobj + Cardinality(new))
        /\ \A o \in (nobj + 1)..(nobj + Cardinality(new)) :
               \E i \in new : objectOf(i) = o
        /\ \A i, j \in new : objectOf(i) = objectOf(j) => i = j
      BY ONLY <2>1, Numbering
  <2> HIDE DEF objectOf
  <2> QED
      BY ONLY <2>1, <2>2, <2>3
<1>2. \A i \in new : /\ i \in Ids /\ seen[i] \in Names
                     /\ mailboxes[seen[i]] = 0
    BY DEF Inv, Types, RequestTypes, Job
<1>3. /\ dbID' = [o \in Objs |-> IF \E i \in new : objectOf(i) = o
                                 THEN loads(o) ELSE dbID[o]]
      /\ root' = [o \in Objs |-> IF \E i \in new : objectOf(i) = o
                                 THEN seen[loads(o)] ELSE root[o]]
      /\ mailboxes' = [n \in Names |->
                          IF \E i \in new : seen[i] = n
                          THEN objectOf(first(n)) ELSE mailboxes[n]]
      /\ ghost' = (ghost \/ \E i \in new : row[i] # seen[i])
      /\ UNCHANGED <<row, nextId, umu>>
    BY DEF ListLoad, db
<1>4. \A q \in Procs : pc[q] \notin TreeLocs
    BY FoldersAssumption DEF ListLoad, Shares, TreeJob
<1>5. AllRight
    BY <1>4, NotMoving DEF TreeLocs
<1> HIDE DEF new, objectOf, seen
<1>6. \A i \in new : loads(objectOf(i)) = i
    BY <1>1
<1>7. \A n : (\E i \in new : seen[i] = n) => first(n) \in new /\ seen[first(n)] = n
    OBVIOUS
<1> HIDE DEF loads, first
<1>8. ASSUME NEW i \in new
      PROVE  /\ objectOf(i) \in Objs
             /\ dbID'[objectOf(i)] = i /\ root'[objectOf(i)] = seen[i]
  <2>1. objectOf(i) \in Objs
      BY <1>1, FoldersAssumption DEF Objs
  <2> QED
      BY <1>3, <1>6, <2>1
<1>9. ASSUME NEW o \in Objs, o <= nobj \/ o > nobj'
      PROVE  dbID'[o] = dbID[o] /\ root'[o] = root[o]
  <2>1. ~\E i \in new : objectOf(i) = o
      BY <1>1, <1>9, ObjectFacts
  <2> QED
      BY <1>3, <2>1
<1>10. ASSUME NEW o \in Objs, o > nobj, o <= nobj'
       PROVE  \E i \in new : objectOf(i) = o
    BY <1>1, <1>10, ObjectFacts
<1>11. NameRoot'
  <2> SUFFICES ASSUME NEW n \in Names, mailboxes'[n] # 0
               PROVE  root'[mailboxes'[n]] = n
      BY DEF NameRoot
  <2>1. CASE \E i \in new : seen[i] = n
    <3>1. /\ mailboxes'[n] = objectOf(first(n))
          /\ first(n) \in new /\ seen[first(n)] = n
        BY <1>3, <1>7, <2>1
    <3> QED
        BY <1>8, <3>1
  <2>2. CASE ~\E i \in new : seen[i] = n
    <3>1. mailboxes'[n] = mailboxes[n]
        BY <1>3, <2>2
    <3>2. mailboxes[n] \in Objs /\ mailboxes[n] <= nobj
        BY <3>1, ObjectFacts
    <3> QED
        BY <1>9, <3>1, <3>2 DEF Shares, NameRoot
  <2> QED
      BY <2>1, <2>2
<1>12. RowsMade'
    BY <1>3 DEF Shares, RowsMade
<1>13. ASSUME NEW i \in new, ~ghost' PROVE row[i] = seen[i] /\ i < nextId
  <2>1. row[i] = seen[i] /\ row[i] # NoName
      BY <1>2, <1>3, <1>13, FoldersAssumption
  <2> QED
      BY <1>2, <2>1, ObjectFacts DEF Shares, RowsMade
<1>14. IdsMade'
  <2> SUFFICES ASSUME NEW o \in Objs
               PROVE  /\ o > nobj' => dbID'[o] = 0
                      /\ ~ghost' => dbID'[o] < nextId
      BY <1>3 DEF IdsMade
  <2> USE <1>1, ObjectFacts
  <2>1. /\ o > nobj => dbID[o] = 0
        /\ ~ghost' => ~ghost /\ dbID[o] < nextId
      BY <1>3 DEF Shares, IdsMade
  <2>2. CASE o <= nobj
      BY <1>9, <2>2, <2>1
  <2>3. CASE o > nobj /\ o <= nobj'
    <3>1. PICK i \in new : objectOf(i) = o
        BY <1>10, <2>3
    <3> QED
        BY <1>8, <1>13, <2>3, <3>1
  <2>4. CASE o > nobj'
      BY <1>9, <2>4, <2>1
  <2> QED
      BY <2>2, <2>3, <2>4
<1>15. AllRight'
  <2> SUFFICES ASSUME ~ghost', NEW o \in Objs, Lives(o)' PROVE Right(o)'
      BY DEF AllRight
  <2>1. CASE o > nobj /\ o <= nobj'
    <3>1. PICK i \in new : objectOf(i) = o
        BY <1>10, <2>1
    <3>2. dbID'[o] = i /\ root'[o] = seen[i] /\ row'[i] = seen[i]
        BY <1>3, <1>8, <1>13, <3>1
    <3>3. /\ mailboxes'[seen[i]] = objectOf(first(seen[i]))
          /\ first(seen[i]) \in new /\ seen[first(seen[i])] = seen[i]
        BY <1>2, <1>3, <1>7
    <3>4. first(seen[i]) = i
      <4>1. row[first(seen[i])] = row[i] /\ row[i] # NoName
          BY <1>2, <1>13, <3>3, FoldersAssumption
      <4> QED
          BY <1>2, <3>3, <4>1 DEF Shares, RowsMade
    <3> QED
        BY <3>1, <3>2, <3>3, <3>4 DEF Right
  <2>2. CASE ~(o > nobj /\ o <= nobj')
    <3>1. dbID'[o] = dbID[o] /\ root'[o] = root[o] /\ row' = row
        BY <1>1, <1>3, <1>9, <2>2, ObjectFacts
    <3>2. Lives(o) /\ Right(o)
        BY <1>3, <1>5, <3>1 DEF Lives, AllRight
    <3>3. row[dbID[o]] \in Names
        BY <3>2, ObjectFacts DEF Lives
    <3>4. ~\E i \in new : seen[i] = row[dbID[o]]
        BY <1>2, <3>2, ObjectFacts DEF Right
    <3> QED
        BY <1>3, <3>1, <3>2, <3>3, <3>4 DEF Right
  <2> QED
      BY <2>1, <2>2
<1>16. \A q \in Procs : pc'[q] \notin TreeLocs
    BY <1>4 DEF ListLoad, Answer, Goto, Inv, Types, RequestTypes, TreeLocs
<1>17. TreeJob(p)' /\ pc'[p] # "swap"
    BY <1>16 DEF TreeJob, TreeLocs
<1> QED
    BY <1>11, <1>12, <1>14, <1>15, <1>16, <1>17, FreeShares

\* A step of a request, outside of DELETE and RENAME, that leaves rows and
\* objects alone.
LEMMA ElsewhereShares ==
    ASSUME Inv, Shares, NEW p \in Procs, pc[p] \notin TreeLocs,
           pc'[p] \notin TreeLocs,
           \A q \in Procs \ {p} : pc'[q] = pc[q] /\ job'[q] = job[q],
           UNCHANGED <<row, nextId, nobj, dbID, root, mailboxes, umu, ghost>>
    PROVE  Shares'
<1>1. NameRoot' /\ RowsMade' /\ IdsMade'
    BY DEF Shares, NameRoot, RowsMade, IdsMade
<1>2. ASSUME NEW q \in Procs PROVE TreeJob(q)'
  <2>1. CASE q = p
      BY <2>1 DEF TreeJob, TreeLocs
  <2>2. CASE q # p
    <3>1. TreeJob(q) /\ pc'[q] = pc[q] /\ job'[q] = job[q]
        BY <2>2 DEF Shares
    <3>2. \A n : Exists(n)' <=> Exists(n)
        BY DEF Exists
    <3>3. \A o : Lives(o)' <=> Lives(o)
        BY DEF Lives
    <3> QED
        BY ONLY <3>1, <3>2, <3>3,
                UNCHANGED <<row, dbID, mailboxes, umu, ghost>>
        DEF TreeJob
  <2> QED
      BY <2>1, <2>2
<1>3. ASSUME NEW o \in Objs PROVE Moving(o)' <=> Moving(o)
    BY DEF Moving, TreeLocs
<1>4. SharedButMoving'
    BY <1>3 DEF Shares, SharedButMoving, Right, Lives
<1> QED
    BY <1>1, <1>2, <1>4 DEF Shares

LEMMA CopierShares ==
    ASSUME Inv, Shares, NEW p \in Procs,
           \/ ListRead(p) \/ LockSource(p) \/ FindsNothing(p)
           \/ \E k \in Keys : Read(p, k) \/ Remove(p, k) \/ RemoveFails(p, k)
           \/ Deliver(p) \/ DeliverFails(p) \/ Insert(p) \/ InsertFails(p)
           \/ Push(p) \/ Expunge(p)
    PROVE  Shares'
<1> USE DEF db, disk, objects, history, Answer, Goto, TreeLocs
<1>1. UNCHANGED <<row, nextId, nobj, dbID, root, mailboxes, umu, ghost>>
    BY DEF ListRead, LockSource, FindsNothing, Read, Remove, RemoveFails,
           Deliver, DeliverFails, Insert, InsertFails, Push, Expunge
<1>2. \A q \in Procs \ {p} : pc'[q] = pc[q] /\ job'[q] = job[q]
  <2> USE DEF Inv, Types, RequestTypes
  <2>1. CASE ListRead(p) \/ LockSource(p) \/ FindsNothing(p)
      BY <2>1 DEF ListRead, LockSource, FindsNothing
  <2>2. CASE \E k \in Keys : Read(p, k) \/ Remove(p, k) \/ RemoveFails(p, k)
      BY <2>2 DEF Read, Remove, RemoveFails
  <2>3. CASE Deliver(p) \/ DeliverFails(p) \/ Insert(p) \/ InsertFails(p)
      BY <2>3 DEF Deliver, DeliverFails, Insert, InsertFails
  <2>4. CASE Push(p) \/ Expunge(p)
      BY <2>4 DEF Push, Expunge
  <2> QED
      BY <2>1, <2>2, <2>3, <2>4
<1>3. pc[p] \notin TreeLocs /\ pc'[p] \notin TreeLocs
  <2> USE DEF Inv, Types, RequestTypes
  <2>1. CASE ListRead(p) \/ LockSource(p) \/ FindsNothing(p)
      BY <2>1 DEF ListRead, LockSource, FindsNothing
  <2>2. CASE \E k \in Keys : Read(p, k) \/ Remove(p, k) \/ RemoveFails(p, k)
      BY <2>2 DEF Read, Remove, RemoveFails
  <2>3. CASE Deliver(p) \/ DeliverFails(p) \/ Insert(p) \/ InsertFails(p)
      BY <2>3 DEF Deliver, DeliverFails, Insert, InsertFails
  <2>4. CASE Push(p) \/ Expunge(p)
      BY <2>4 DEF Push, Expunge
  <2> QED
      BY <2>1, <2>2, <2>3, <2>4
<1> QED
    BY <1>1, <1>2, <1>3, ElsewhereShares

\* What DELETE and RENAME know of the folder that they work on.
LEMMA HolderFacts ==
    ASSUME Inv, Shares, NEW p \in Procs, pc[p] \in TreeLocs
    PROVE  /\ job[p].src \in Objs /\ job[p].name \in Names
           /\ dbID[job[p].src] \in Ids
           /\ umu = p /\ mailboxes[job[p].name] = job[p].src
           /\ root[job[p].src] = job[p].name
           /\ \A q \in Procs \ {p} : pc[q] \notin TreeLocs
<1>1. job[p].src \in Objs /\ dbID[job[p].src] \in Ids /\ job[p].name \in Names
    BY SourceIsMade DEF Inv, Made, JobsMade, JobMade
<1>2. umu = p /\ mailboxes[job[p].name] = job[p].src
    BY DEF Shares, TreeJob
<1>3. root[job[p].src] = job[p].name
    BY <1>1, <1>2, ObjectFacts DEF Shares, NameRoot
<1>4. \A q \in Procs \ {p} : pc[q] \notin TreeLocs
    BY <1>2, TreeAlone
<1> QED
    BY <1>1, <1>2, <1>3, <1>4

\* The holder goes on, or answers and lets go of User.mu.
LEMMA HolderShares ==
    ASSUME Inv, Shares, NEW p \in Procs, pc[p] \in TreeLocs,
           \A q \in Procs \ {p} : pc'[q] = pc[q],
           NameRoot', RowsMade', IdsMade', SharedButMoving', TreeJob(p)'
    PROVE  Shares'
<1>1. \A q \in Procs \ {p} : pc'[q] \notin TreeLocs
    BY HolderFacts
<1>2. \A q \in Procs : TreeJob(q)'
    BY <1>1, OthersElsewhere
<1> QED
    BY <1>2 DEF Shares

\* A request that is answered has nothing more to hold.
LEMMA AnsweredTree ==
    ASSUME Inv, NEW p \in Procs, Answer(p)
    PROVE  /\ TreeJob(p)' /\ pc'[p] = "idle"
           /\ \A q \in Procs \ {p} : pc'[q] = pc[q]
BY DEF Answer, Goto, Inv, Types, RequestTypes, TreeJob, TreeLocs

\* DELETE or RENAME fails, and rows and objects stay what they were.
LEMMA FailShares ==
    ASSUME Inv, Shares, NEW p \in Procs, pc[p] \in TreeLocs \ {"swap"},
           Answer(p), UNCHANGED <<row, nextId, objects, ghost>>
    PROVE  Shares'
<1>1. /\ TreeJob(p)' /\ \A q \in Procs \ {p} : pc'[q] = pc[q]
    BY AnsweredTree
<1>2. AllRight
    BY HolderFacts, NotMoving DEF TreeLocs
<1>3. NameRoot' /\ RowsMade' /\ IdsMade' /\ SharedButMoving'
    BY <1>2 DEF Shares, NameRoot, RowsMade, IdsMade, SharedButMoving, AllRight,
                Right, Lives, objects
<1> QED
    BY <1>1, <1>3, HolderShares

LEMMA DropRowShares ==
    ASSUME Inv, Shares, NEW p \in Procs, DropRow(p)
    PROVE  Shares'
<1> DEFINE s == job[p].src
           i == dbID[s]
<1>1. /\ pc[p] = "drop row" /\ UNCHANGED <<nextId, objects, ghost>>
    BY DEF DropRow, history
<1>2. /\ s \in Objs /\ i \in Ids /\ umu = p /\ mailboxes[job[p].name] = s
      /\ \A q \in Procs \ {p} : pc[q] \notin TreeLocs
    BY <1>1, HolderFacts DEF TreeLocs
<1>3. CASE Answer(p) /\ UNCHANGED row
    BY <1>1, <1>3, FailShares DEF TreeLocs
<1>4. CASE /\ row' = [row EXCEPT ![i] = NoName]
           /\ Goto(p, "drop tree") /\ UNCHANGED <<umu, job>>
  <2>1. /\ pc'[p] = "drop tree" /\ \A q \in Procs \ {p} : pc'[q] = pc[q]
        /\ \A j \in Ids : row'[j] = IF j = i THEN NoName ELSE row[j]
      BY <1>4 DEF Goto, Inv, Types, RequestTypes, DbTypes
  <2>2. AllRight
      BY <1>1, <1>2, NotMoving DEF TreeLocs
  <2>3. NameRoot' /\ RowsMade' /\ IdsMade'
    <3>1. NameRoot' /\ IdsMade'
        BY <1>1 DEF Shares, NameRoot, IdsMade, objects
    <3>2. RowsMade /\ UNCHANGED nextId
        BY <1>1 DEF Shares
    <3>3. RowsMade'
        BY ONLY <2>1, <3>2 DEF RowsMade
    <3> QED
        BY <3>1, <3>3
  <2>4. TreeJob(p)'
      BY <1>1, <1>2, <1>4, <2>1 DEF TreeJob, objects
  <2>5. SharedButMoving'
    <3> SUFFICES ASSUME ~ghost, NEW o \in Objs, Lives(o)' PROVE Right(o)'
        BY <1>1 DEF SharedButMoving
    <3>1. dbID[o] \in Ids /\ row'[dbID[o]] = row[dbID[o]] /\ row[dbID[o]] # NoName
        BY <1>1, <2>1, ObjectFacts DEF Lives, objects
    <3>2. Right(o)
        BY <2>2, <3>1, ObjectFacts DEF AllRight, Lives
    <3> QED
        BY <1>1, <3>1, <3>2 DEF Right, objects
  <2> QED
      BY <1>1, <2>1, <2>3, <2>4, <2>5, HolderShares DEF TreeLocs
<1> QED
    BY <1>3, <1>4 DEF DropRow, AnswerUnlock

LEMMA DropTreeShares ==
    ASSUME Inv, Shares, NEW p \in Procs, DropTree(p)
    PROVE  Shares'
<1> DEFINE s == job[p].src
           a == job[p].name
<1>1. /\ pc[p] = "drop tree" /\ UNCHANGED <<row, nextId, nobj, dbID, root, ghost>>
      /\ Answer(p)
    BY DEF DropTree, AnswerUnlock, db
<1>2. /\ s \in Objs /\ a \in Names /\ mailboxes[a] = s
    BY <1>1, HolderFacts DEF TreeLocs
<1>3. CASE UNCHANGED mailboxes
    BY <1>1, <1>3, FailShares DEF TreeLocs, objects
<1>4. CASE mailboxes' = [mailboxes EXCEPT ![a] = 0]
  <2>1. \A n \in Names : mailboxes'[n] = IF n = a THEN 0 ELSE mailboxes[n]
      BY <1>4 DEF Inv, Types, ObjectTypes
  <2>2. AllRight
      BY <1>1, HolderFacts, NotMoving DEF TreeLocs
  <2>3. NameRoot' /\ RowsMade' /\ IdsMade'
      BY <1>1, <2>1 DEF Shares, NameRoot, RowsMade, IdsMade
  <2>4. ~Lives(s)
      BY <1>1 DEF Shares, TreeJob, Lives
  <2>5. SharedButMoving'
    <3> SUFFICES ASSUME ~ghost, NEW o \in Objs, Lives(o) PROVE Right(o)'
        BY <1>1 DEF SharedButMoving, Lives
    <3>1. Right(o) /\ row[dbID[o]] \in Names /\ o # s
        BY <2>2, <2>4, ObjectFacts DEF AllRight, Lives
    <3>2. row[dbID[o]] # a
        BY <1>2, <3>1 DEF Right
    <3> QED
        BY <1>1, <2>1, <3>1, <3>2 DEF Right
  <2> QED
      BY <1>1, <2>3, <2>5, AnsweredTree, HolderShares DEF TreeLocs
<1> QED
    BY <1>3, <1>4 DEF DropTree

LEMMA RenameDirShares ==
    ASSUME Inv, Shares, NEW p \in Procs, RenameDir(p)
    PROVE  Shares'
<1> DEFINE s == job[p].src
           a == root[s]
           b == job[p].to
<1>1. /\ pc[p] = "rename dir" /\ UNCHANGED <<row, nextId, objects, ghost>>
    BY DEF RenameDir, db, history
<1>2. /\ s \in Objs /\ umu = p /\ mailboxes[job[p].name] = s
      /\ a = job[p].name /\ a \in Names
    BY <1>1, HolderFacts DEF TreeLocs
<1>3. CASE Answer(p)
    BY <1>1, <1>3, FailShares DEF TreeLocs
<1>4. CASE CanRename(a, b) /\ Goto(p, "rename row") /\ UNCHANGED <<umu, job>>
  <2>1. /\ pc'[p] = "rename row" /\ \A q \in Procs \ {p} : pc'[q] = pc[q]
      BY <1>4 DEF Goto, Inv, Types, RequestTypes
  <2>2. AllRight
      BY <1>1, HolderFacts, NotMoving DEF TreeLocs
  <2>3. NameRoot' /\ RowsMade' /\ IdsMade' /\ SharedButMoving'
      BY <1>1, <2>2 DEF Shares, NameRoot, RowsMade, IdsMade, SharedButMoving,
                        AllRight, Right, Lives, objects
  <2>4. b # a
      BY <1>2, <1>4, InTree DEF CanRename
  <2>5. ~Exists(b)
      BY <1>1 DEF Shares, TreeJob
  <2>6. TreeJob(p)'
      BY <1>1, <1>2, <1>4, <2>1, <2>4, <2>5 DEF TreeJob, Exists, objects
  <2> QED
      BY <1>1, <2>1, <2>3, <2>6, HolderShares DEF TreeLocs
<1> QED
    BY <1>3, <1>4 DEF RenameDir, AnswerUnlock

LEMMA RenameRowShares ==
    ASSUME Inv, Shares, NEW p \in Procs, RenameRow(p)
    PROVE  Shares'
<1> DEFINE s == job[p].src
           i == dbID[s]
           b == job[p].to
<1>1. /\ pc[p] = "rename row" /\ UNCHANGED <<nextId, objects, ghost>>
    BY DEF RenameRow, history
<1>2. /\ s \in Objs /\ i \in Ids /\ umu = p /\ mailboxes[job[p].name] = s
      /\ \A j \in Ids : row[j] # b
      /\ b # job[p].name /\ b \in Names
    BY <1>1, HolderFacts
    DEF TreeLocs, Shares, TreeJob, Exists, Inv, Made, JobsMade, JobMade
<1>3. CASE Answer(p) /\ UNCHANGED row
    BY <1>1, <1>3, FailShares DEF TreeLocs
<1>4. CASE /\ row' = [row EXCEPT ![i] = IF @ = NoName THEN @ ELSE b]
           /\ Goto(p, "swap") /\ UNCHANGED <<umu, job>>
  <2>1. /\ pc'[p] = "swap" /\ \A q \in Procs \ {p} : pc'[q] = pc[q]
        /\ \A j \in Ids : row'[j] = IF j = i /\ row[i] # NoName THEN b ELSE row[j]
      BY <1>2, <1>4 DEF Goto, Inv, Types, RequestTypes, DbTypes
  <2>2. AllRight
      BY <1>1, HolderFacts, NotMoving DEF TreeLocs
  <2>3. NameRoot' /\ IdsMade'
      BY <1>1 DEF Shares, NameRoot, IdsMade, objects
  <2>4. RowsMade'
    <3>1. RowsMade /\ UNCHANGED nextId /\ \A j \in Ids : row[j] # b
        BY <1>1, <1>2 DEF Shares
    <3> HIDE DEF i, b
    <3> QED
        BY ONLY <2>1, <3>1 DEF RowsMade
  <2>5. ASSUME ~ghost, NEW o \in Objs \ {s}, Lives(o)'
        PROVE  /\ dbID[o] # i /\ dbID[o] \in Ids
               /\ Lives(o) /\ row'[dbID[o]] = row[dbID[o]]
    <3>1. dbID[o] \in Ids /\ row'[dbID[o]] # NoName
        BY <1>1, <2>5, ObjectFacts DEF Lives, objects
    <3>2. row[dbID[o]] # NoName /\ Lives(o)
        BY <2>1, <3>1, ObjectFacts DEF Lives
    <3>3. dbID[o] # i
      <4>1. SUFFICES ASSUME dbID[o] = i PROVE FALSE
          OBVIOUS
      <4>2. Lives(s)
          BY <1>2, <3>2, <4>1, ObjectFacts DEF Lives
      <4>3. Right(o) /\ Right(s)
          BY <1>2, <2>2, <2>5, <3>2, <4>2 DEF AllRight
      <4> QED
          BY <2>5, <4>1, <4>3 DEF Right
    <3> QED
        BY <2>1, <3>1, <3>2, <3>3
  <2>6. TreeJob(p)'
    <3>1. \A j \in Ids : row'[j] = b => j = i
        BY <1>2, <2>1
    <3>2. row'[i] \in {b, NoName}
        BY <1>2, <2>1
    <3>3. job'[p] = job[p] /\ UNCHANGED <<umu, dbID, mailboxes, ghost>>
        BY <1>1, <1>4 DEF objects
    <3> QED
        BY <1>2, <2>1, <2>5, <3>1, <3>2, <3>3 DEF TreeJob, TreeLocs
  <2>7. SharedButMoving'
    <3> SUFFICES ASSUME ~ghost, NEW o \in Objs, Lives(o)', ~Moving(o)'
                 PROVE  Right(o)'
        BY <1>1 DEF SharedButMoving
    <3>1. o # s
        BY <1>4, <2>1 DEF Moving
    <3>2. Lives(o) /\ row'[dbID[o]] = row[dbID[o]]
        BY <2>5, <3>1
    <3> QED
        BY <1>1, <2>2, <3>2 DEF AllRight, Right, objects
  <2> QED
      BY <1>1, <2>1, <2>3, <2>4, <2>6, <2>7, HolderShares DEF TreeLocs
<1> QED
    BY <1>3, <1>4 DEF RenameRow, AnswerUnlock

\* The object gets its new name and its new directory before User.mu is free.
LEMMA SwapShares ==
    ASSUME Inv, Shares, NEW p \in Procs, Swap(p)
    PROVE  Shares'
<1> DEFINE s == job[p].src
           a == job[p].name
           b == job[p].to
<1>1. /\ pc[p] = "swap" /\ UNCHANGED <<row, nextId, nobj, dbID, ghost>>
      /\ Answer(p)
      /\ root' = [root EXCEPT ![s] = b]
      /\ mailboxes' = [mailboxes EXCEPT ![b] = s, ![a] = 0]
    BY DEF Swap, AnswerUnlock, db, history
<1>2. /\ s \in Objs /\ a \in Names /\ mailboxes[a] = s /\ root[s] = a
      /\ dbID[s] \in Ids
      /\ \A q \in Procs \ {p} : pc[q] \notin TreeLocs
    BY <1>1, HolderFacts DEF TreeLocs
<1>3. /\ b # a /\ b \in Names
      /\ row[dbID[s]] \in {b, NoName}
      /\ \A i \in Ids : row[i] = b => i = dbID[s]
      /\ ~ghost => \A o \in Objs \ {s} : Lives(o) => dbID[o] # dbID[s]
  <2>1. b \in Names
      BY <1>1 DEF Inv, Made, JobsMade, JobMade
  <2>2. TreeJob(p)
      BY DEF Shares
  <2> QED
      BY <1>1, <2>1, <2>2 DEF TreeJob
<1>4. /\ \A n \in Names : mailboxes'[n] = IF n = a THEN 0
                                          ELSE IF n = b THEN s ELSE mailboxes[n]
      /\ \A o \in Objs : root'[o] = IF o = s THEN b ELSE root[o]
    BY <1>1, <1>2, <1>3 DEF Inv, Types, ObjectTypes
<1> HIDE DEF s, a, b
<1>5. NameRoot'
  <2> SUFFICES ASSUME NEW n \in Names, mailboxes'[n] # 0
               PROVE  root'[mailboxes'[n]] = n
      BY DEF NameRoot
  <2>1. CASE n = b
      BY <1>2, <1>3, <1>4, <2>1
  <2>2. CASE n # b
    <3>1. n # a /\ mailboxes'[n] = mailboxes[n] /\ mailboxes[n] \in Objs
        BY <1>4, <2>2, ObjectFacts
    <3>2. root[mailboxes[n]] = n
        BY <3>1, ObjectFacts DEF Shares, NameRoot
    <3>3. mailboxes[n] # s
        BY <1>2, <3>1, <3>2
    <3> QED
        BY <1>4, <3>1, <3>2, <3>3
  <2> QED
      BY <2>1, <2>2
<1>6. RowsMade' /\ IdsMade'
    BY <1>1 DEF Shares, RowsMade, IdsMade
<1>7. SharedButMoving'
  <2> SUFFICES ASSUME ~ghost, NEW o \in Objs, Lives(o) PROVE Right(o)'
      BY <1>1 DEF SharedButMoving, Lives
  <2>1. row[dbID[o]] \in Names /\ dbID[o] \in Ids /\ row[dbID[o]] # NoName
      BY ObjectFacts DEF Lives
  <2>2. CASE o = s
      BY <1>1, <1>3, <1>4, <2>1, <2>2 DEF Right
  <2>3. CASE o # s
    <3>1. ~Moving(o)
        BY <1>2, <2>3 DEF Moving, TreeLocs, s
    <3>2. Right(o)
        BY <3>1 DEF Shares, SharedButMoving
    <3>3. row[dbID[o]] # b
        BY <1>3, <2>1, <2>3
    <3>4. row[dbID[o]] # a
        BY <1>2, <2>3, <3>2 DEF Right
    <3> QED
        BY <1>1, <1>4, <2>1, <2>3, <3>2, <3>3, <3>4 DEF Right
  <2> QED
      BY <2>2, <2>3
<1> QED
    BY <1>1, <1>5, <1>6, <1>7, AnsweredTree, HolderShares DEF TreeLocs

LEMMA InitShares == Init => Shares
<1> SUFFICES ASSUME Init PROVE Shares
    OBVIOUS
<1>1. NameRoot
    BY DEF Init, NameRoot
<1>2. RowsMade
    BY DEF Init, RowsMade, Ids
<1>3. IdsMade /\ SharedButMoving
    BY DEF Init, IdsMade, SharedButMoving, Lives
<1>4. \A p \in Procs : TreeJob(p)
    BY DEF Init, TreeJob, TreeLocs
<1> QED
    BY <1>1, <1>2, <1>3, <1>4 DEF Shares

LEMMA RestartShares == ASSUME Inv, Shares, Restart PROVE Shares'
<1>1. NameRoot'
    BY DEF Restart, NameRoot
<1>2. RowsMade'
    BY DEF Restart, Shares, RowsMade, db
<1>3. IdsMade' /\ SharedButMoving'
  <2>1. nextId \in Nat /\ nextId # 0 /\ UNCHANGED nextId
      BY FoldersAssumption DEF Restart, Inv, Types, DbTypes, db
  <2> QED
      BY <2>1 DEF Restart, IdsMade, SharedButMoving, Lives
<1>4. \A p \in Procs : TreeJob(p)'
    BY DEF Restart, TreeJob, TreeLocs
<1> QED
    BY <1>1, <1>2, <1>3, <1>4 DEF Shares

LEMMA StutterShares == ASSUME Inv, Shares, UNCHANGED vars PROVE Shares'
<1> USE DEF vars, db, objects, history
<1>1. NameRoot' /\ RowsMade' /\ IdsMade'
    BY DEF Shares, NameRoot, RowsMade, IdsMade
<1>2. SharedButMoving'
    BY DEF Shares, SharedButMoving, Moving, Right, Lives
<1>3. \A p \in Procs : TreeJob(p)'
    BY DEF Shares, TreeJob, Exists, Lives
<1> QED
    BY <1>1, <1>2, <1>3 DEF Shares

-----------------------------------------------------------------------------

LEMMA TreeStepMail ==
    ASSUME Inv, Shares, Mail, NEW p \in Procs, TreeStep(p)
    PROVE  Shares' /\ Mail'
<1>1. CASE \E n \in Names : CreateFolder(p, n) \/ DeleteFolder(p, n)
    BY <1>1, CreateShares, CreateMail, DeleteShares, DeleteMail
<1>2. CASE DropRow(p)
    BY <1>2, DropRowShares, DropRowMail
<1>3. CASE DropTree(p)
  <2>1. root[job[p].src] = job[p].name
      BY <1>3, HolderFacts DEF DropTree, TreeLocs
  <2> QED
      BY <1>3, <2>1, DropTreeShares, DropTreeMail
<1>4. CASE \E a, b \in Names : RenameFolder(p, a, b)
    BY <1>4, RenameShares, RenameMail
<1>5. CASE RenameDir(p)
    BY <1>5, RenameDirShares, RenameDirMail
<1>6. CASE RenameRow(p)
    BY <1>6, RenameRowShares, RenameRowMail
<1>7. CASE Swap(p)
    BY <1>7, SwapShares, AnswersOnlyMail
<1>8. CASE ListRead(p)
    BY <1>8, CopierShares, ListReadMail
<1>9. CASE ListLoad(p)
    BY <1>9, ListLoadShares, ListLoadMail
<1> QED
    BY <1>1, <1>2, <1>3, <1>4, <1>5, <1>6, <1>7, <1>8, <1>9 DEF TreeStep

LEMMA CopyStepShares ==
    ASSUME Inv, Shares, NEW p \in Procs, CopyStep(p)
    PROVE  Shares'
BY CopyStartShares, MoveToStartShares, FindDestShares, CopierShares
DEF CopyStep

LEMMA CopyStepMail ==
    ASSUME Inv, Mail, NEW p \in Procs, CopyStep(p)
    PROVE  Mail'
BY CopyStartMail, MoveToStartMail, FindDestMail, LockSourceMail, ReadMail,
   AnswersOnlyMail, RemoveMail, RemoveFailsMail, DeliverMail, InsertMail,
   PushMail, ExpungeMail DEF CopyStep

LEMMA MailInvariance == Spec => [](Inv /\ Shares /\ Mail)
<1>1. Init => Inv /\ Shares /\ Mail
    BY InitInv, InitShares, InitMail
<1>2. Inv /\ Shares /\ Mail /\ [Next]_vars => (Inv /\ Shares /\ Mail)'
  <2> SUFFICES ASSUME Inv, Shares, Mail, [Next]_vars
               PROVE  Inv' /\ Shares' /\ Mail'
      OBVIOUS
  <2>1. CASE UNCHANGED vars
      BY <2>1, StutterInv, StutterShares, StutterMail
  <2>2. ASSUME NEW p \in Procs, TreeStep(p) PROVE Inv' /\ Shares' /\ Mail'
      BY <2>2, TreeStepInv, TreeStepMail
  <2>3. ASSUME NEW p \in Procs, CopyStep(p) PROVE Inv' /\ Shares' /\ Mail'
      BY <2>3, CopyStepInv, CopyStepShares, CopyStepMail
  <2>4. CASE Load
      BY <2>4, LoadInv, LoadShares, LoadMail
  <2>5. CASE Restart
      BY <2>5, RestartInv, RestartShares, RestartMail
  <2> QED
      BY <2>1, <2>2, <2>3, <2>4, <2>5 DEF Next
<1> QED
    BY <1>1, <1>2, PTL DEF Spec

\* The sessions of a user share one object per folder, and it works on the
\* directory of the folder's name (user.go:22-24): for any number of sessions,
\* and whatever CREATE, DELETE, RENAME and LIST do one after the other, fail in,
\* or are stopped in, as long as no LIST has loaded a folder from an old row.
THEOREM FoldersAreShared == Spec => []SharedObject
<1>1. ASSUME Inv, Shares, umu = NoProc, ~ghost
      PROVE  /\ \A o \in Objs : Lives(o) =>
                    LET n == row[dbID[o]] IN mailboxes[n] = o /\ root[o] = n
             /\ \A n \in Names : mailboxes[n] # 0 /\ Lives(mailboxes[n]) =>
                    row[dbID[mailboxes[n]]] = n
  <2>1. AllRight
    <3>1. \A q \in Procs : pc[q] # "swap"
        BY <1>1, FoldersAssumption DEF Shares, TreeJob, TreeLocs
    <3> QED
        BY <1>1, <3>1, NotMoving
  <2>2. \A n \in Names : mailboxes[n] # 0 => mailboxes[n] \in Objs
      BY <1>1, ObjectFacts
  <2> QED
      BY <1>1, <2>1, <2>2 DEF AllRight, Right, Shares, NameRoot
<1>2. Inv /\ Shares => SharedObject
    BY <1>1 DEF SharedObject
<1> QED
    BY <1>2, MailInvariance, PTL

\* COPY, MOVE, the webmail's moveTo and RENAME lose no message, whatever fails
\* and wherever the server stops, also when two sessions move the same message:
\* the last copy of it is only ever removed with a folder that is deleted.
THEOREM MailIsKept == Spec => []MailStays
<1>1. Mail => MailStays
    BY DEF Mail, LastStays, MailStays, MsgsIn
<1> QED
    BY <1>1, MailInvariance, PTL

\* A move that was answered OK has removed as many originals as it has made
\* copies, and no original is removed by two moves: of each message there are
\* the first file and the copies that were asked for, and not one more.
THEOREM NoExtraCopies == Spec => []CopiesExplained
<1>1. ASSUME Inv, Mail, NEW m \in Msgs
      PROVE  Cardinality({k \in Files : content[k] = m}) <= 1 + owed[m]
  <2>1. {k \in Files : content[k] = m} \subseteq Counted(m)
      BY <1>1 DEF Files, Counted, Inv, Types, DiskTypes
  <2> QED
      BY <1>1, <2>1, FewerCounted
<1>2. Inv /\ Mail => CopiesExplained
    BY <1>1 DEF CopiesExplained
<1> QED
    BY <1>2, MailInvariance, PTL

===============================================================================
