-------------------------------- MODULE Accounts ------------------------------
(***************************************************************************)
(* The accounts of the server: the users table, the requests of the        *)
(* webmail's administrators and of the command line that create and delete *)
(* accounts, and the two places that remember an account outside the       *)
(* table: Backend.users, which keeps the first *User it has made for an    *)
(* address until the server stops, and the webmail sessions.               *)
(*                                                                         *)
(* Each SQL statement is atomic; a handler is a sequence of them, and      *)
(* handlers run side by side without a lock.                               *)
(***************************************************************************)
EXTENDS Integers, FiniteSets

CONSTANTS
    Procs,        \* requests and commands that run at a time
    Tokens,       \* bound: webmail sessions at a time
    Emails,
    Root,         \* the address of the administrator made at installation
    NoEmail,
    MaxUsers,     \* bound: rows ever inserted into users
    MaxRestarts,  \* bound: stops of the server
    Kinds         \* the kinds of events that occur

AllKinds == {"create", "delete", "cli create", "cli delete", "settings",
             "failure"}

ASSUME AccountsAssumption ==
    /\ Root \in Emails
    /\ NoEmail \notin Emails
    /\ MaxUsers \in Nat \ {0}
    /\ MaxRestarts \in Nat
    /\ Kinds \subseteq AllKinds

Ids == 1..MaxUsers

\* A store.User as it is read from the table.
User == [id : Ids, email : Emails, admin : BOOLEAN]
NoUser == [id |-> 0, email |-> NoEmail, admin |-> FALSE]
Ref == User \cup {NoUser}

VARIABLES
    users,     \* the users table
    nextId,    \* its AUTOINCREMENT counter
    changed,   \* per id, the addresses whose sessions have changed its
               \* forwarding row or password
    tree,      \* per address, the ids whose folders are in its Maildir tree
    cache,     \* Backend.users
    session,   \* sessionStore.sessions: the account of each token
    pc,        \* where each request is
    job,       \* its local variables
    restarts

db == <<users, nextId, changed>>
vars == <<db, tree, cache, session, pc, job, restarts>>

\* by: the signed-in account that deletes or changes its password, NoUser for
\* the command line; user: the row that the request is about; email and admin: the form of a creation.
Job == [by : Ref, user : Ref, email : Emails \cup {NoEmail}, admin : BOOLEAN]
About(by, u) == [by |-> by, user |-> u, email |-> NoEmail, admin |-> FALSE]
Form(e, admin) == [by |-> NoUser, user |-> NoUser, email |-> e, admin |-> admin]
NoJob == About(NoUser, NoUser)

First == [id |-> 1, email |-> Root, admin |-> TRUE]

\* The administrator that was created at installation, and nobody signed in.
Init ==
    /\ users = {First}
    /\ nextId = 2
    /\ changed = [id \in Ids |-> {}]
    /\ tree = [e \in Emails |-> IF e = Root THEN {1} ELSE {}]
    /\ cache = [e \in Emails |-> NoUser]
    /\ session = [t \in Tokens |-> NoUser]
    /\ pc = [p \in Procs |-> "idle"]
    /\ job = [p \in Procs |-> NoJob]
    /\ restarts = 0

Goto(p, s) == pc' = [pc EXCEPT ![p] = s]
Done(p) == Goto(p, "idle") /\ job' = [job EXCEPT ![p] = NoJob]

Start(p, s, j) ==
    /\ pc[p] = "idle"
    /\ Goto(p, s)
    /\ job' = [job EXCEPT ![p] = j]
    /\ UNCHANGED <<db, tree, cache, session, restarts>>

\* GetUserByEmail, GetUserByID: the rows that answer the query.
ByEmail(e) == {u \in users : u.email = e}
ByID(id) == {u \in users : u.id = id}

-----------------------------------------------------------------------------
(* Signing in and out *)

\* The password has been verified against the row of the address.
Login(p) ==
    \E u \in users : Start(p, "enter", About(NoUser, u))

\* userFor: the cached *User of the address, if there is one.
UserFor(u) == IF cache[u.email] = NoUser THEN u ELSE cache[u.email]

\* The webmail makes a session, if one is left of the bound; IMAP only looks
\* the account up.
Enter(p) ==
    /\ pc[p] = "enter"
    /\ LET u == job[p].user
       IN  /\ cache' = [cache EXCEPT ![u.email] = UserFor(u)]
           /\ \/ UNCHANGED session
              \/ \E t \in Tokens :
                     /\ session[t] = NoUser
                     /\ session' = [session EXCEPT ![t] = UserFor(u)]
    /\ Done(p)
    /\ UNCHANGED <<db, tree, restarts>>

\* Logout, or the end of the session's 24 hours.
Leave(t) ==
    /\ session[t] # NoUser
    /\ session' = [session EXCEPT ![t] = NoUser]
    /\ UNCHANGED <<db, tree, cache, pc, job, restarts>>

-----------------------------------------------------------------------------
(* Creating an account *)

\* requireAdmin looks at the cached account.
AdminCreate(p) ==
    /\ "create" \in Kinds
    /\ \E t \in Tokens, e \in Emails, admin \in BOOLEAN :
        /\ session[t].admin
        /\ Start(p, "check", Form(e, admin))

CliCreate(p) ==
    /\ "cli create" \in Kinds
    /\ \E e \in Emails, admin \in BOOLEAN :
           Start(p, "insert", Form(e, admin))

\* The web form refuses an address that is found; a query that fails finds none.
CheckNew(p) ==
    /\ pc[p] = "check"
    /\ \/ /\ ByEmail(job[p].email) = {} \/ "failure" \in Kinds
          /\ Goto(p, "insert")
          /\ UNCHANGED job
       \/ /\ ByEmail(job[p].email) # {}
          /\ Done(p)
    /\ UNCHANGED <<db, tree, cache, session, restarts>>

\* Mutant: the table has no AUTOINCREMENT, so ids follow the highest in use.
MutNextId ==
    CHOOSE id \in 1..(MaxUsers + 1) :
        /\ \A u \in users : u.id < id
        /\ id = 1 \/ ByID(id - 1) # {}
NextId == nextId

\* Mutant: the address is checked by the form only.
MutMayInsert(e) == TRUE
\* The UNIQUE constraint of the column.
MayInsert(e) == ByEmail(e) = {}

\* INSERT, unless the UNIQUE constraint on the address fails.
InsertUser(p) ==
    /\ pc[p] = "insert"
    /\ nextId \in Ids
    /\ \/ /\ MayInsert(job[p].email)
          /\ users' = users \cup {[id |-> NextId, email |-> job[p].email,
                                   admin |-> job[p].admin]}
          /\ nextId' = nextId + 1
          /\ Goto(p, "reread")
          /\ UNCHANGED <<job, changed>>
       \/ /\ ~MayInsert(job[p].email)
          /\ Done(p)
          /\ UNCHANGED db
    /\ UNCHANGED <<tree, cache, session, restarts>>

\* CreateUser reads the row back by its address.
Reread(p) ==
    /\ pc[p] = "reread"
    /\ \/ \E u \in ByEmail(job[p].email) :
              /\ job' = [job EXCEPT ![p] = About(NoUser, u)]
              /\ Goto(p, "index")
       \/ ByEmail(job[p].email) = {} /\ Done(p)
    /\ UNCHANGED <<db, tree, cache, session, restarts>>

\* ProvisionMailboxes: the rows of the folders, whose foreign key needs the
\* account, and then their directories.
Index(p) ==
    /\ pc[p] = "index"
    /\ IF ByID(job[p].user.id) # {} THEN Goto(p, "tree") /\ UNCHANGED job
                                    ELSE Done(p)
    /\ UNCHANGED <<db, tree, cache, session, restarts>>

MakeTree(p) ==
    /\ pc[p] = "tree"
    /\ LET u == job[p].user
       IN  tree' = [tree EXCEPT ![u.email] = @ \cup {u.id}]
    /\ Done(p)
    /\ UNCHANGED <<db, cache, session, restarts>>

-----------------------------------------------------------------------------
(* Deleting an account *)

\* Mutant: the administrator's own account may be deleted.
MutIsSelf(u, account) == FALSE
IsSelf(u, account) == u.email = account.email

AdminDelete(p) ==
    /\ "delete" \in Kinds
    /\ \E t \in Tokens, u \in users :
        /\ session[t].admin
        /\ ~IsSelf(u, session[t])
        /\ Start(p, "delete", About(session[t], u))

CliDelete(p) ==
    /\ "cli delete" \in Kinds
    /\ \E u \in users : Start(p, "delete", About(NoUser, u))

\* DELETE by id; the rows that refer to the account go with it.
DeleteRow(p) ==
    /\ pc[p] = "delete"
    /\ LET id == job[p].user.id
       IN  /\ users' = users \ ByID(id)
           /\ changed' = [changed EXCEPT ![id] = {}]
    /\ Goto(p, "wipe")
    /\ UNCHANGED <<nextId, tree, cache, session, job, restarts>>

\* Mutant: the directory of the domain is removed.
MutWiped(u) == Emails
\* UserRoot: the tree that is removed with the account.
Wiped(u) == {u.email}

Wipe(p) ==
    /\ pc[p] = "wipe"
    /\ tree' = [e \in Emails |-> IF e \in Wiped(job[p].user) THEN {} ELSE tree[e]]
    /\ Done(p)
    /\ UNCHANGED <<db, cache, session, restarts>>

-----------------------------------------------------------------------------
(* An account's own settings *)

\* SetForwarding: one statement, whose foreign key needs the account.
SetForwarding(t) ==
    /\ "settings" \in Kinds
    /\ session[t] # NoUser
    /\ ByID(session[t].id) # {}
    /\ changed' = [changed EXCEPT ![session[t].id] = @ \cup {session[t].email}]
    /\ UNCHANGED <<users, nextId, tree, cache, session, pc, job, restarts>>

\* ChangePassword reads the row, verifies the current password against it,
\* and updates the row of that id, if it is still there. Its own session ends,
\* unless it has already.
ChangePassword(p) ==
    /\ "settings" \in Kinds
    /\ \E t \in Tokens :
        /\ session[t] # NoUser
        /\ ByID(session[t].id) # {}
        /\ Start(p, "password", About(session[t], NoUser))

SetPassword(p) ==
    /\ pc[p] = "password"
    /\ LET by == job[p].by
       IN  /\ changed' = IF ByID(by.id) = {} THEN changed
                         ELSE [changed EXCEPT ![by.id] = @ \cup {by.email}]
           /\ \/ UNCHANGED session
              \/ \E t \in Tokens :
                     /\ session[t] = by
                     /\ session' = [session EXCEPT ![t] = NoUser]
    /\ Done(p)
    /\ UNCHANGED <<users, nextId, tree, cache, restarts>>

-----------------------------------------------------------------------------
(* The rest of the world *)

\* A statement or a file system call fails: the request gives up, and what it
\* has done stays.
Fails(p) ==
    /\ "failure" \in Kinds
    /\ pc[p] \notin {"idle", "enter"}
    /\ Done(p)
    /\ UNCHANGED <<db, tree, cache, session, restarts>>

\* The container stops, and starts again; commands run in it too. If the
\* configuration names an administrator who is missing, he is created anew.
\* (Requests may begin before that is done, as only commands do in the code.)
Restart ==
    /\ restarts < MaxRestarts
    /\ restarts' = restarts + 1
    /\ cache' = [e \in Emails |-> NoUser]
    /\ session' = [t \in Tokens |-> NoUser]
    /\ \E boot \in SUBSET Procs :
        /\ \/ boot = {}
           \/ ByEmail(Root) = {} /\ \E p \in Procs : boot = {p}
        /\ pc' = [p \in Procs |-> IF p \in boot THEN "insert" ELSE "idle"]
        /\ job' = [p \in Procs |-> IF p \in boot THEN Form(Root, TRUE) ELSE NoJob]
    /\ UNCHANGED <<db, tree>>

-----------------------------------------------------------------------------

Begin(p) ==
    \/ Login(p)
    \/ AdminCreate(p)
    \/ CliCreate(p)
    \/ AdminDelete(p)
    \/ CliDelete(p)
    \/ ChangePassword(p)

Continue(p) ==
    \/ Enter(p)
    \/ CheckNew(p)
    \/ InsertUser(p)
    \/ Reread(p)
    \/ Index(p)
    \/ MakeTree(p)
    \/ DeleteRow(p)
    \/ Wipe(p)
    \/ SetPassword(p)

Next ==
    \/ \E p \in Procs : Begin(p) \/ Continue(p) \/ Fails(p)
    \/ \E t \in Tokens : Leave(t) \/ SetForwarding(t)
    \/ Restart

Spec == Init /\ [][Next]_vars

-----------------------------------------------------------------------------
(* Properties *)

\* Every variable stays in its type; an address and an id belong to one row at
\* a time, although a creation checks for the address in a statement of its
\* own.
TypeOK ==
    /\ users \in SUBSET User
    /\ \A u, v \in users : u.id = v.id \/ u.email = v.email => u = v
    /\ nextId \in 1..(MaxUsers + 1)
    /\ changed \in [Ids -> SUBSET Emails]
    /\ tree \in [Emails -> SUBSET Ids]
    /\ cache \in [Emails -> Ref]
    /\ session \in [Tokens -> Ref]
    /\ pc \in [Procs -> {"idle", "enter", "check", "insert", "reread", "index",
                         "tree", "delete", "wipe", "password"}]
    /\ job \in [Procs -> Job]
    /\ \A p \in Procs : pc[p] \in {"enter", "index", "tree", "delete", "wipe"}
                            => job[p].user \in User
    /\ \A p \in Procs : pc[p] \in {"check", "insert", "reread"}
                            => job[p].email \in Emails
    /\ \A p \in Procs : pc[p] = "password" => job[p].by \in User
    /\ restarts \in 0..MaxRestarts

\* The forwarding rule and the password of an account are changed only from
\* sessions of its own address, although sessions and the cache remember
\* accounts that have been deleted, and find them by id (Account.ID).
SettingsAreOwn == \A u \in users : changed[u.id] \subseteq {u.email}

Admins == {u \in users : u.admin}

\* Whoever deletes the last administrator from the Admin page has been deleted
\* before (handleAdminDeleteUser refuses only the account's own address).
LastAdminStays ==
    [][\A p \in Procs :
           /\ pc[p] = "delete" /\ pc'[p] = "wipe"
           /\ job[p].by # NoUser
           /\ Admins # {} /\ Admins' = {}
           => job[p].by \notin users]_vars

\* The folders of an account that is in the table go only with an earlier
\* account of the same address whose deletion has reached the disk late
\* (handleAdminDeleteUser, cmdUserDelete: the row, then the tree).
OthersKeepTheirMail ==
    [][\A u \in users :
           u.id \in tree[u.email] \ tree'[u.email] =>
               \E p \in Procs : /\ pc[p] = "wipe"
                               /\ job[p].user.email = u.email
                               /\ job[p].user.id < u.id]_vars

\* There is always an administrator, as long as the command line deletes
\* nobody (handleAdminDeleteUser).
AdminRemains == Admins # {}

=============================================================================
