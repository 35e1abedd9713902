---------------------------- MODULE AccountsProofs ----------------------------
(***************************************************************************)
(* Proofs about Accounts: accounts that are remembered outside the table,  *)
(* by the cache, by a session or by a request, are never mistaken for      *)
(* others, since an id is never used again.                                *)
(***************************************************************************)
EXTENDS Accounts, TLAPS

Phases == {"idle", "enter", "check", "insert", "reread", "index", "tree",
           "delete", "wipe", "password"}

\* What a request in phase s must know.
Knows(j, s) ==
    /\ s \in {"enter", "index", "tree", "delete", "wipe"} => j.user \in User
    /\ s \in {"check", "insert", "reread"} => j.email \in Emails
    /\ s = "password" => j.by \in User

\* The parts of TypeOK.
TableOK ==
    /\ users \in SUBSET User
    /\ \A u, v \in users : u.id = v.id \/ u.email = v.email => u = v
    /\ nextId \in 1..(MaxUsers + 1)
    /\ changed \in [Ids -> SUBSET Emails]
    /\ tree \in [Emails -> SUBSET Ids]

HeldOK == cache \in [Emails -> Ref] /\ session \in [Tokens -> Ref]

RequestsOK ==
    /\ pc \in [Procs -> Phases]
    /\ job \in [Procs -> Job]
    /\ \A p \in Procs : Knows(job[p], pc[p])

LEMMA Parts ==
    TypeOK <=> TableOK /\ HeldOK /\ RequestsOK /\ restarts \in 0..MaxRestarts
BY DEF TypeOK, TableOK, HeldOK, RequestsOK, Knows, Phases

\* A request moves to another phase with what it must know there (Goto).
LEMMA GotoTypes ==
    ASSUME RequestsOK, NEW p \in Procs, NEW s \in Phases, NEW j \in Job,
           Knows(j, s), pc' = [pc EXCEPT ![p] = s], job' = [job EXCEPT ![p] = j]
    PROVE  RequestsOK'
<1>1. pc' \in [Procs -> Phases] /\ job' \in [Procs -> Job]
    BY DEF RequestsOK
<1>2. \A q \in Procs : Knows(job'[q], pc'[q])
    BY DEF RequestsOK
<1>3. QED
    BY <1>1, <1>2 DEF RequestsOK, Knows

\* A request ends (Done).
LEMMA DoneTypes ==
    ASSUME RequestsOK, NEW p \in Procs, Done(p)
    PROVE  RequestsOK'
<1>1. NoJob \in Job
    BY DEF NoJob, About, Job, Ref
<1>2. Knows(NoJob, "idle") /\ "idle" \in Phases
    BY DEF Knows, Phases
<1>3. QED
    BY <1>1, <1>2, GotoTypes DEF Done, Goto

\* A request moves on with what it has (Goto, UNCHANGED job).
LEMMA MoveTypes ==
    ASSUME RequestsOK, NEW p \in Procs, NEW s \in Phases, Knows(job[p], s),
           Goto(p, s), UNCHANGED job
    PROVE  RequestsOK'
<1>1. job[p] \in Job /\ job' = [job EXCEPT ![p] = job[p]]
    BY DEF RequestsOK
<1>2. QED
    BY <1>1, GotoTypes DEF Goto

\* A new request has the types of its start (Begin).
LEMMA BeginTypes ==
    ASSUME TypeOK, NEW p \in Procs, Begin(p)
    PROVE  TypeOK'
<1>1. TableOK /\ HeldOK /\ RequestsOK /\ restarts \in 0..MaxRestarts
    BY Parts
<1>2. ASSUME NEW s \in Phases, NEW j \in Job, Knows(j, s), Start(p, s, j)
      PROVE  TypeOK'
  <2>1. RequestsOK'
      BY <1>1, <1>2, GotoTypes DEF Start, Goto
  <2>2. TableOK' /\ HeldOK' /\ restarts' \in 0..MaxRestarts
      BY <1>1, <1>2 DEF Start, db, TableOK, HeldOK
  <2>3. QED
      BY <2>1, <2>2 DEF TypeOK, TableOK, HeldOK, RequestsOK, Knows, Phases
<1>3. (\A u \in users : u \in User) /\ (\A t \in Tokens : session[t] \in Ref)
    BY <1>1 DEF TableOK, HeldOK
<1>4. \A by \in Ref, u \in Ref :
          /\ About(by, u) \in Job
          /\ About(by, u).by = by
          /\ About(by, u).user = u
    BY DEF About, Job
<1>5. ASSUME NEW e \in Emails, NEW admin \in BOOLEAN, NEW s \in {"check", "insert"},
             Start(p, s, Form(e, admin))
      PROVE  TypeOK'
  <2>1. Form(e, admin) \in Job /\ Form(e, admin).email = e
      BY DEF Form, Job, Ref
  <2>2. QED
      BY <1>2, <1>5, <2>1 DEF Knows, Phases
<1>6. ASSUME NEW by \in Ref, NEW u \in User, NEW s \in {"enter", "delete"},
             Start(p, s, About(by, u))
      PROVE  TypeOK'
    BY <1>2, <1>4, <1>6 DEF Knows, Phases, Ref
<1>7. ASSUME NEW by \in User, Start(p, "password", About(by, NoUser))
      PROVE  TypeOK'
    BY <1>2, <1>4, <1>7 DEF Knows, Phases, Ref
<1>8. NoUser \in Ref /\ \A t \in Tokens : session[t] # NoUser => session[t] \in User
    BY <1>1 DEF HeldOK, Ref
<1>9. CASE Login(p) \/ CliDelete(p)
    BY <1>3, <1>6, <1>8, <1>9 DEF Login, CliDelete
<1>10. CASE AdminCreate(p) \/ CliCreate(p)
  <2>1. \E e \in Emails, admin \in BOOLEAN, s \in {"check", "insert"} :
            Start(p, s, Form(e, admin))
      BY <1>10 DEF AdminCreate, CliCreate
  <2>2. QED
      BY <1>5, <2>1
<1>11. CASE AdminDelete(p)
    BY <1>3, <1>6, <1>11 DEF AdminDelete
<1>12. CASE ChangePassword(p)
    BY <1>7, <1>8, <1>12 DEF ChangePassword
<1>13. QED
    BY <1>9, <1>10, <1>11, <1>12 DEF Begin

\* The rows stay apart when one is added (InsertUser).
LEMMA InsertTypes ==
    ASSUME TypeOK, NEW p \in Procs, InsertUser(p), \A u \in users : u.id < nextId
    PROVE  TypeOK'
<1>1. TableOK /\ HeldOK /\ RequestsOK /\ restarts \in 0..MaxRestarts
    BY Parts
<1>2. HeldOK' /\ restarts' \in 0..MaxRestarts
    BY <1>1 DEF HeldOK, InsertUser
<1>3. CASE ~MayInsert(job[p].email)
  <2>1. Done(p) /\ UNCHANGED <<users, nextId, changed, tree>>
      BY <1>3 DEF InsertUser, db
  <2>2. TableOK' /\ RequestsOK'
      BY <1>1, <2>1, DoneTypes DEF TableOK
  <2>3. QED
      BY <1>2, <2>2 DEF TypeOK, TableOK, HeldOK, RequestsOK, Knows, Phases
<1>4. CASE MayInsert(job[p].email)
  <2> DEFINE new == [id |-> nextId, email |-> job[p].email, admin |-> job[p].admin]
  <2>1. /\ users' = users \cup {new}
        /\ nextId' = nextId + 1
        /\ nextId \in Ids
        /\ pc[p] = "insert"
        /\ Goto(p, "reread")
        /\ UNCHANGED <<job, changed, tree>>
      BY <1>4 DEF InsertUser, NextId
  <2>2. job[p] \in Job /\ job[p].email \in Emails
      BY <1>1, <2>1 DEF RequestsOK, Knows
  <2>3. new \in User
      BY <2>1, <2>2 DEF Job, User
  <2>4. nextId' \in 1..(MaxUsers + 1)
      BY <2>1, AccountsAssumption DEF Ids
  <2>5. \A u \in users : u.id # new.id /\ u.email # new.email
    <3>1. \A u \in users : u.id \in Int /\ u.id < nextId /\ nextId \in Int
        BY <1>1, <2>1, AccountsAssumption DEF TableOK, User, Ids
    <3>2. \A u \in users : u.email # job[p].email
        BY <1>4 DEF MayInsert, ByEmail
    <3>3. QED
        BY <3>1, <3>2
  <2>6. \A u, v \in users' : u.id = v.id \/ u.email = v.email => u = v
      BY <1>1, <2>1, <2>5 DEF TableOK
  <2>7. TableOK'
      BY <1>1, <2>1, <2>3, <2>4, <2>6 DEF TableOK
  <2>8. RequestsOK'
      BY <1>1, <2>1, <2>2, MoveTypes DEF Knows, Phases
  <2>9. QED
      BY <1>2, <2>7, <2>8 DEF TypeOK, TableOK, HeldOK, RequestsOK, Knows, Phases
<1>5. QED
    BY <1>3, <1>4

\* The other steps of a request keep the types (Continue, Fails).
LEMMA ContinueTypes ==
    ASSUME TypeOK, NEW p \in Procs, Continue(p) \/ Fails(p), ~InsertUser(p)
    PROVE  TypeOK'
<1>1. TableOK /\ HeldOK /\ RequestsOK /\ restarts \in 0..MaxRestarts
    BY Parts
<1>2. pc[p] \in Phases /\ job[p] \in Job /\ Knows(job[p], pc[p])
    BY <1>1 DEF RequestsOK
<1> DEFINE u == job[p].user
<1>3. u \in Ref /\ job[p].by \in Ref
    BY <1>2 DEF Job
<1>4. ASSUME TableOK', HeldOK', RequestsOK', restarts' = restarts
      PROVE  TypeOK'
    BY <1>1, <1>4 DEF TypeOK, TableOK, HeldOK, RequestsOK, Knows, Phases
<1>5. ASSUME UNCHANGED <<users, nextId, changed, tree>> PROVE TableOK'
    BY <1>1, <1>5 DEF TableOK
<1>6. ASSUME UNCHANGED <<cache, session>> PROVE HeldOK'
    BY <1>1, <1>6 DEF HeldOK
<1>7. CASE Enter(p)
  <2>1. u \in User /\ u.email \in Emails
      BY <1>2, <1>7 DEF Enter, Knows, User
  <2>2. UserFor(u) \in Ref
      BY <1>1, <1>3, <2>1 DEF UserFor, HeldOK
  <2>3. HeldOK'
      BY <1>1, <1>7, <2>1, <2>2 DEF HeldOK, Enter
  <2>4. QED
      BY <1>1, <1>4, <1>5, <1>7, <2>3, DoneTypes DEF Enter, db
<1>8. CASE CheckNew(p)
  <2>1. RequestsOK'
    <3>1. Knows(job[p], "insert") /\ "insert" \in Phases
        BY <1>2, <1>8 DEF CheckNew, Knows, Phases
    <3>2. QED
        BY <1>1, <1>8, <3>1, DoneTypes, MoveTypes DEF CheckNew
  <2>2. QED
      BY <1>4, <1>5, <1>6, <1>8, <2>1 DEF CheckNew, db
<1>9. CASE Reread(p)
  <2>1. RequestsOK'
    <3>1. ASSUME NEW v \in users, Goto(p, "index"),
                 job' = [job EXCEPT ![p] = About(NoUser, v)]
          PROVE  RequestsOK'
      <4>1. v \in User /\ NoUser \in Ref /\ v \in Ref
          BY <1>1 DEF TableOK, Ref
      <4>2. About(NoUser, v) \in Job /\ About(NoUser, v).user = v
          BY <4>1 DEF About, Job
      <4>3. Knows(About(NoUser, v), "index") /\ "index" \in Phases
          BY <4>1, <4>2 DEF Knows, Phases
      <4>4. QED
          BY <1>1, <3>1, <4>2, <4>3, GotoTypes DEF Goto
    <3>2. QED
        BY <1>1, <1>9, <3>1, DoneTypes DEF Reread, ByEmail
  <2>2. QED
      BY <1>4, <1>5, <1>6, <1>9, <2>1 DEF Reread, db
<1>10. CASE Index(p)
  <2>1. RequestsOK'
    <3>1. Knows(job[p], "tree") /\ "tree" \in Phases
        BY <1>2, <1>10 DEF Index, Knows, Phases
    <3>2. QED
        BY <1>1, <1>10, <3>1, DoneTypes, MoveTypes DEF Index
  <2>2. QED
      BY <1>4, <1>5, <1>6, <1>10, <2>1 DEF Index, db
<1>11. CASE MakeTree(p)
  <2>1. u \in User /\ u.email \in Emails /\ u.id \in Ids
      BY <1>2, <1>11 DEF MakeTree, Knows, User
  <2>2. TableOK'
      BY <1>1, <1>11, <2>1 DEF TableOK, MakeTree, db
  <2>3. QED
      BY <1>1, <1>4, <1>6, <1>11, <2>2, DoneTypes DEF MakeTree
<1>12. CASE DeleteRow(p)
  <2>1. u.id \in Ids
      BY <1>2, <1>12 DEF DeleteRow, Knows, User
  <2>2. TableOK'
      BY <1>1, <1>12, <2>1 DEF TableOK, DeleteRow
  <2>3. Knows(job[p], "wipe") /\ "wipe" \in Phases
      BY <1>2, <1>12 DEF DeleteRow, Knows, Phases
  <2>4. RequestsOK'
      BY <1>1, <1>12, <2>3, MoveTypes DEF DeleteRow
  <2>5. QED
      BY <1>4, <1>6, <1>12, <2>2, <2>4 DEF DeleteRow
<1>13. CASE Wipe(p)
  <2>1. TableOK'
      BY <1>1, <1>13 DEF TableOK, Wipe, db
  <2>2. QED
      BY <1>1, <1>4, <1>6, <1>13, <2>1, DoneTypes DEF Wipe
<1>14. CASE SetPassword(p)
  <2>1. job[p].by.id \in Ids /\ job[p].by.email \in Emails
      BY <1>2, <1>14 DEF SetPassword, Knows, User
  <2>2. TableOK'
      BY <1>1, <1>14, <2>1 DEF TableOK, SetPassword
  <2>3. HeldOK'
      BY <1>1, <1>14 DEF HeldOK, SetPassword, Ref
  <2>4. QED
      BY <1>1, <1>4, <1>14, <2>2, <2>3, DoneTypes DEF SetPassword
<1>15. CASE Fails(p)
    BY <1>1, <1>4, <1>5, <1>6, <1>15, DoneTypes DEF Fails, db
<1>16. QED
    BY <1>7, <1>8, <1>9, <1>10, <1>11, <1>12, <1>13, <1>14, <1>15 DEF Continue

-----------------------------------------------------------------------------

\* A remembered account is of an id that has been used, and if that id is in
\* the table, its row is the one that is remembered.
Known(r) ==
    r # NoUser => r.id < nextId /\ \A u \in users : u.id = r.id => u = r

Remembered ==
    /\ \A e \in Emails : Known(cache[e])
    /\ \A t \in Tokens : Known(session[t])
    /\ \A p \in Procs : Known(job[p].by) /\ Known(job[p].user)

\* Ids to come are unused.
NewIds ==
    /\ \A u \in users : u.id < nextId
    /\ \A id \in Ids : id >= nextId => changed[id] = {}

\* The Admin page deletes another's account, for an administrator.
DeletersInv ==
    \A p \in Procs :
        pc[p] = "delete" /\ job[p].by # NoUser
            => job[p].by.admin /\ job[p].by.email # job[p].user.email

\* The address of an account that is being deleted has at most a later owner.
LaterOwner ==
    \A p \in Procs : \A u \in users :
        /\ pc[p] \in {"delete", "wipe"}
        /\ u.email = job[p].user.email
        => \/ u.id > job[p].user.id
           \/ pc[p] = "delete" /\ u.id = job[p].user.id

AccountsInv == Remembered /\ NewIds /\ DeletersInv /\ LaterOwner /\ SettingsAreOwn

\* Rows are only added with the next id (InsertUser) and removed (DeleteRow).
LEMMA TableSteps ==
    ASSUME [Next]_vars, TypeOK
    PROVE  \/ UNCHANGED <<users, nextId>>
           \/ /\ nextId \in Ids
              /\ nextId' = nextId + 1
              /\ UNCHANGED changed
              /\ \A u \in users' : u \in users \/ u.id = nextId
           \/ nextId' = nextId /\ users' \subseteq users
<1>1. ASSUME NEW p \in Procs, InsertUser(p), ~UNCHANGED <<users, nextId>>
      PROVE  /\ nextId \in Ids
             /\ nextId' = nextId + 1
             /\ UNCHANGED changed
             /\ \A u \in users' : u \in users \/ u.id = nextId
  <2>1. /\ nextId \in Ids /\ nextId' = nextId + 1 /\ UNCHANGED changed
        /\ users' = users \cup {[id |-> nextId, email |-> job[p].email,
                                 admin |-> job[p].admin]}
      BY <1>1 DEF InsertUser, NextId, db
  <2>2. QED
      BY <2>1
<1>2. ASSUME NEW p \in Procs, DeleteRow(p)
      PROVE  nextId' = nextId /\ users' \subseteq users
    BY <1>2 DEF DeleteRow
<1>3. ASSUME NEW p \in Procs, Begin(p) PROVE UNCHANGED <<users, nextId>>
    BY <1>3 DEF Begin, Login, AdminCreate, CliCreate, AdminDelete, CliDelete,
                ChangePassword, Start, db
<1>4. ASSUME NEW p \in Procs, Continue(p) \/ Fails(p), ~InsertUser(p), ~DeleteRow(p)
      PROVE  UNCHANGED <<users, nextId>>
    BY <1>4 DEF Continue, Enter, CheckNew, Reread, Index, MakeTree, Wipe,
                SetPassword, Fails, db
<1>5. ASSUME NEW t \in Tokens, Leave(t) \/ SetForwarding(t)
      PROVE  UNCHANGED <<users, nextId>>
    BY <1>5 DEF Leave, SetForwarding, db
<1>6. Restart \/ UNCHANGED vars => UNCHANGED <<users, nextId>>
    BY DEF Restart, vars, db
<1>7. QED
    BY <1>1, <1>2, <1>3, <1>4, <1>5, <1>6 DEF Next

\* What is known stays known: rows do not change, and new ones have new ids.
LEMMA KnownStays ==
    ASSUME [Next]_vars, TypeOK, NEW r \in Ref, Known(r)
    PROVE  Known(r)'
<1> SUFFICES ASSUME r # NoUser
             PROVE  r.id < nextId' /\ \A u \in users' : u.id = r.id => u = r
    BY DEF Known
<1>1. r.id \in Int /\ nextId \in Int
    BY AccountsAssumption DEF Ref, User, Ids, TypeOK
<1>2. r.id < nextId /\ \A u \in users : u.id = r.id => u = r
    BY DEF Known
<1>3. QED
    BY <1>1, <1>2, TableSteps

\* Every row is known (the keys of the table).
LEMMA RowsKnown ==
    ASSUME TypeOK, NewIds
    PROVE  Known(NoUser) /\ \A u \in users : u \in Ref /\ Known(u)
BY DEF TypeOK, NewIds, Known, Ref

\* Accounts are remembered from the table or from where they are remembered
\* already (userFor, sessionStore.create).
LEMMA RememberedStays ==
    ASSUME TypeOK, NewIds, Remembered, [Next]_vars
    PROVE  Remembered'
<1> DEFINE Knowns == {r \in Ref : Known(r)}
<1>1. NoUser \in Knowns /\ users \subseteq Knowns
    BY RowsKnown DEF Ref
<1>2. /\ \A e \in Emails : cache[e] \in Knowns
      /\ \A t \in Tokens : session[t] \in Knowns
      /\ \A p \in Procs : job[p].by \in Knowns /\ job[p].user \in Knowns
    BY DEF TypeOK, Remembered, Job
<1>3. SUFFICES /\ \A e \in Emails : cache'[e] \in Knowns
               /\ \A t \in Tokens : session'[t] \in Knowns
               /\ \A p \in Procs : job'[p].by \in Knowns /\ job'[p].user \in Knowns
  <2>1. \A r \in Knowns : Known(r)'
      BY KnownStays
  <2>2. QED
      BY <2>1 DEF Remembered, Known
<1>4. ASSUME NEW p \in Procs, NEW j \in Job, j.by \in Knowns, j.user \in Knowns,
             job' = [job EXCEPT ![p] = j]
      PROVE  \A q \in Procs : job'[q].by \in Knowns /\ job'[q].user \in Knowns
    BY <1>2, <1>4 DEF TypeOK
<1>5. ASSUME NEW by \in Knowns, NEW u \in Knowns
      PROVE  /\ About(by, u) \in Job
             /\ About(by, u).by \in Knowns /\ About(by, u).user \in Knowns
    BY DEF About, Job
<1>6. ASSUME NEW e \in Emails, NEW admin \in BOOLEAN
      PROVE  /\ Form(e, admin) \in Job
             /\ Form(e, admin).by \in Knowns /\ Form(e, admin).user \in Knowns
    BY <1>1 DEF Form, Job
<1>7. ASSUME NEW p \in Procs, Done(p)
      PROVE  \A q \in Procs : job'[q].by \in Knowns /\ job'[q].user \in Knowns
    BY <1>1, <1>4, <1>5, <1>7 DEF Done, NoJob
<1>8. ASSUME NEW p \in Procs, Begin(p)
      PROVE  /\ UNCHANGED <<cache, session>>
             /\ \A q \in Procs : job'[q].by \in Knowns /\ job'[q].user \in Knowns
  <2>1. ASSUME NEW s, NEW j \in Job, j.by \in Knowns, j.user \in Knowns, Start(p, s, j)
        PROVE  /\ UNCHANGED <<cache, session>>
               /\ \A q \in Procs : job'[q].by \in Knowns /\ job'[q].user \in Knowns
      BY <1>4, <2>1 DEF Start
  <2>2. CASE Login(p) \/ CliDelete(p)
      BY <1>1, <1>5, <2>1, <2>2 DEF Login, CliDelete
  <2>3. CASE AdminCreate(p) \/ CliCreate(p)
      BY <1>6, <2>1, <2>3 DEF AdminCreate, CliCreate
  <2>4. CASE AdminDelete(p) \/ ChangePassword(p)
      BY <1>1, <1>2, <1>5, <2>1, <2>4 DEF AdminDelete, ChangePassword
  <2>5. QED
      BY <1>8, <2>2, <2>3, <2>4 DEF Begin
<1>9. ASSUME NEW p \in Procs, Enter(p)
      PROVE  /\ \A e \in Emails : cache'[e] \in Knowns
             /\ \A t \in Tokens : session'[t] \in Knowns
  <2>1. job[p].user \in User /\ job[p].user.email \in Emails
      BY <1>9 DEF Enter, TypeOK, User
  <2>2. UserFor(job[p].user) \in Knowns
      BY <1>2, <2>1 DEF UserFor
  <2>3. QED
      BY <1>2, <1>9, <2>2 DEF Enter, TypeOK
<1>10. ASSUME NEW p \in Procs, Continue(p) \/ Fails(p)
       PROVE  \A q \in Procs : job'[q].by \in Knowns /\ job'[q].user \in Knowns
  <2>1. CASE UNCHANGED job
      BY <1>2, <2>1
  <2>2. CASE Reread(p)
    <3>1. ASSUME NEW u \in users, job' = [job EXCEPT ![p] = About(NoUser, u)]
          PROVE  \A q \in Procs : job'[q].by \in Knowns /\ job'[q].user \in Knowns
        BY <1>1, <1>4, <1>5, <3>1
    <3>2. QED
        BY <1>7, <2>2, <3>1 DEF Reread, ByEmail
  <2>3. CASE ~Reread(p)
      BY <1>7, <1>10, <2>1, <2>3 DEF Continue, Enter, CheckNew, InsertUser, Index,
                                     MakeTree, DeleteRow, Wipe, SetPassword, Fails
  <2>4. QED
      BY <2>2, <2>3
<1>11. ASSUME NEW p \in Procs, Continue(p) \/ Fails(p), ~Enter(p)
       PROVE  /\ UNCHANGED cache
              /\ \A t \in Tokens : session'[t] \in Knowns
    BY <1>1, <1>2, <1>11 DEF Continue, CheckNew, InsertUser, Reread, Index, MakeTree,
                             DeleteRow, Wipe, SetPassword, Fails, TypeOK
<1>12. ASSUME NEW t \in Tokens, Leave(t) \/ SetForwarding(t)
       PROVE  UNCHANGED <<cache, job>> /\ \A r \in Tokens : session'[r] \in Knowns
    BY <1>1, <1>2, <1>12 DEF Leave, SetForwarding, TypeOK
<1>13. CASE Restart
  <2>1. \A j \in {NoJob, Form(Root, TRUE)} : j.by \in Knowns /\ j.user \in Knowns
      BY <1>1, <1>5, <1>6, AccountsAssumption DEF NoJob
  <2>2. \A p \in Procs : job'[p] \in {NoJob, Form(Root, TRUE)}
      BY <1>13 DEF Restart
  <2>3. QED
      BY <1>1, <1>13, <2>1, <2>2 DEF Restart
<1>14. CASE UNCHANGED vars
    BY <1>2, <1>14 DEF vars
<1>15. QED
    BY <1>2, <1>8, <1>9, <1>10, <1>11, <1>12, <1>13, <1>14 DEF Next

\* The table, and what is changed in it, beside the creation of rows.
LEMMA ChangedSteps ==
    ASSUME [Next]_vars, TypeOK, Remembered, NEW id \in Ids
    PROVE  \/ changed'[id] = changed[id]
           \/ \E r \in User : /\ Known(r)
                             /\ r.id = id
                             /\ ByID(id) # {}
                             /\ changed'[id] = changed[id] \cup {r.email}
           \/ changed'[id] = {}
<1> DEFINE Same == changed'[id] = changed[id]
           Own == \E r \in User : /\ Known(r)
                                 /\ r.id = id
                                 /\ ByID(id) # {}
                                 /\ changed'[id] = changed[id] \cup {r.email}
<1>1. ASSUME NEW t \in Tokens, SetForwarding(t) PROVE Same \/ Own
  <2>1. session[t] \in User /\ Known(session[t])
      BY <1>1 DEF SetForwarding, TypeOK, Ref, Remembered
  <2>2. QED
      BY <1>1, <2>1 DEF SetForwarding, TypeOK
<1>2. ASSUME NEW p \in Procs, SetPassword(p) PROVE Same \/ Own
  <2>1. job[p].by \in User /\ Known(job[p].by)
      BY <1>2 DEF SetPassword, TypeOK, Remembered
  <2>2. QED
      BY <1>2, <2>1 DEF SetPassword, TypeOK
<1>3. ASSUME NEW p \in Procs, DeleteRow(p) PROVE Same \/ changed'[id] = {}
    BY <1>3 DEF DeleteRow, TypeOK
<1>4. ASSUME NEW p \in Procs, Begin(p) PROVE Same
    BY <1>4 DEF Begin, Login, AdminCreate, CliCreate, AdminDelete, CliDelete,
                ChangePassword, Start, db
<1>5. ASSUME NEW p \in Procs, Continue(p) \/ Fails(p), ~SetPassword(p), ~DeleteRow(p)
      PROVE  Same
    BY <1>5 DEF Continue, Enter, CheckNew, InsertUser, Reread, Index, MakeTree, Wipe,
                Fails, db
<1>6. ASSUME NEW t \in Tokens, Leave(t) PROVE Same
    BY <1>6 DEF Leave, db
<1>7. Restart \/ UNCHANGED vars => Same
    BY DEF Restart, vars, db
<1>8. QED
    BY <1>1, <1>2, <1>3, <1>4, <1>5, <1>6, <1>7 DEF Next

\* Ids to come stay unused, and settings stay those of the owner.
LEMMA SettingsStayOwn ==
    ASSUME TypeOK, NewIds, Remembered, SettingsAreOwn, [Next]_vars
    PROVE  NewIds' /\ SettingsAreOwn'
<1>1. /\ nextId \in Int
      /\ \A u \in users : u.id \in Ids /\ u.id < nextId
      /\ \A r \in User : r.id \in Ids
      /\ \A id \in Ids : id \in Int
    BY AccountsAssumption DEF TypeOK, NewIds, User, Ids
<1>2. nextId' \in {nextId, nextId + 1} /\ \A u \in users' : u.id < nextId'
    BY <1>1, TableSteps
<1>3. ASSUME NEW id \in Ids, id >= nextId' PROVE changed'[id] = {}
  <2>1. changed[id] = {} /\ ~(id < nextId)
      BY <1>1, <1>2, <1>3 DEF NewIds
  <2>2. QED
      BY <2>1, ChangedSteps DEF Known, NoUser, Ids
<1>4. ASSUME NEW u \in users' PROVE changed'[u.id] \subseteq {u.email}
  <2>1. CASE u \in users
    <3>1. changed[u.id] \subseteq {u.email} /\ u.id \in Ids
        BY <1>1, <2>1 DEF SettingsAreOwn
    <3>2. \A r \in User : Known(r) /\ r.id = u.id => r.email = u.email
      <4>1. \A r \in User : r # NoUser
          BY <1>1 DEF NoUser, Ids
      <4>2. QED
          BY <2>1, <4>1 DEF Known
    <3>3. QED
        BY <3>1, <3>2, ChangedSteps
  <2>2. CASE u \notin users
    <3>1. nextId \in Ids /\ u.id = nextId /\ UNCHANGED changed
        BY <1>4, <2>2, TableSteps
    <3>2. QED
        BY <1>1, <3>1 DEF NewIds
  <2>3. QED
      BY <2>1, <2>2
<1>5. QED
    BY <1>2, <1>3, <1>4 DEF NewIds, SettingsAreOwn

\* How a request comes to a deletion (AdminDelete, CliDelete) and through it.
LEMMA DeletionSteps ==
    ASSUME [Next]_vars, TypeOK, NEW p \in Procs, pc'[p] \in {"delete", "wipe"}
    PROVE  \/ pc'[p] = pc[p] /\ job'[p] = job[p]
           \/ /\ pc'[p] = "delete"
              /\ UNCHANGED users
              /\ job'[p].user \in users
              /\ job'[p].by # NoUser =>
                     job'[p].by.admin /\ job'[p].by.email # job'[p].user.email
           \/ DeleteRow(p)
<1> DEFINE Stays(q) == pc'[q] = pc[q] /\ job'[q] = job[q]
           Begun(q) == /\ pc'[q] = "delete"
                       /\ UNCHANGED users
                       /\ job'[q].user \in users
                       /\ job'[q].by # NoUser =>
                              job'[q].by.admin /\ job'[q].by.email # job'[q].user.email
<1>1. ASSUME NEW q \in Procs, Begin(q) PROVE Stays(p) \/ Begun(p)
  <2>1. ASSUME NEW s \in {"enter", "check", "insert", "password"}, NEW j, Start(q, s, j)
        PROVE  Stays(p)
      BY <2>1 DEF Start, Goto, TypeOK
  <2>2. ASSUME NEW by, NEW u \in users, Start(q, "delete", About(by, u)),
               by # NoUser => by.admin /\ by.email # u.email
        PROVE  Stays(p) \/ Begun(p)
    <3>1. About(by, u).by = by /\ About(by, u).user = u
        BY DEF About
    <3>2. QED
        BY <2>2, <3>1 DEF Start, Goto, TypeOK, db
  <2>3. CASE Login(q) \/ AdminCreate(q) \/ CliCreate(q) \/ ChangePassword(q)
    <3>1. CASE Login(q)
        BY <2>1, <3>1 DEF Login
    <3>2. CASE AdminCreate(q) \/ CliCreate(q)
        BY <2>1, <3>2 DEF AdminCreate, CliCreate
    <3>3. CASE ChangePassword(q)
        BY <2>1, <3>3 DEF ChangePassword
    <3>4. QED
        BY <2>3, <3>1, <3>2, <3>3
  <2>4. CASE AdminDelete(q)
      BY <2>2, <2>4 DEF AdminDelete, IsSelf
  <2>5. CASE CliDelete(q)
      BY <2>2, <2>5 DEF CliDelete
  <2>6. QED
      BY <1>1, <2>3, <2>4, <2>5 DEF Begin
<1>2. ASSUME NEW q \in Procs, Continue(q) \/ Fails(q), ~DeleteRow(q)
      PROVE  Stays(p)
    BY <1>2 DEF Continue, Enter, CheckNew, InsertUser, Reread, Index, MakeTree, Wipe,
                SetPassword, Fails, Done, Goto, TypeOK
<1>3. ASSUME NEW q \in Procs, DeleteRow(q), q # p PROVE Stays(p)
    BY <1>3 DEF DeleteRow, Goto, TypeOK
<1>4. ASSUME NEW t \in Tokens, Leave(t) \/ SetForwarding(t) PROVE Stays(p)
    BY <1>4 DEF Leave, SetForwarding
<1>5. ~Restart
    BY DEF Restart
<1>6. UNCHANGED vars => Stays(p)
    BY DEF vars
<1>7. QED
    BY <1>1, <1>2, <1>3, <1>4, <1>5, <1>6 DEF Next

\* Deletions stay what they are, and addresses get new owners only with new ids.
LEMMA DeletionsStay ==
    ASSUME TypeOK, AccountsInv, [Next]_vars
    PROVE  DeletersInv' /\ LaterOwner'
<1>1. ASSUME NEW p \in Procs, pc'[p] = "delete", job'[p].by # NoUser
      PROVE  job'[p].by.admin /\ job'[p].by.email # job'[p].user.email
  <2>1. ~DeleteRow(p)
      BY <1>1 DEF DeleteRow, Goto, TypeOK
  <2>2. QED
      BY <1>1, <2>1, DeletionSteps DEF AccountsInv, DeletersInv
<1>2. ASSUME NEW p \in Procs, NEW u \in users', pc'[p] \in {"delete", "wipe"},
             u.email = job'[p].user.email
      PROVE  \/ u.id > job'[p].user.id
             \/ pc'[p] = "delete" /\ u.id = job'[p].user.id
  <2>1. /\ \A v \in users : v.id \in Int
        /\ \A v \in User : v # NoUser /\ v.id \in Int
        /\ nextId \in Int
      BY AccountsAssumption DEF TypeOK, User, NoUser, Ids
  <2>2. CASE pc'[p] = pc[p] /\ job'[p] = job[p]
    <3>1. job[p].user \in User /\ job[p].user.id < nextId
        BY <1>2, <2>1, <2>2 DEF TypeOK, AccountsInv, Remembered, Known
    <3>2. CASE u \in users
        BY <1>2, <2>2, <3>2 DEF AccountsInv, LaterOwner
    <3>3. CASE u \notin users
      <4>1. u.id = nextId
          BY <1>2, <3>3, TableSteps
      <4>2. QED
          BY <2>1, <2>2, <3>1, <4>1
    <3>4. QED
        BY <3>2, <3>3
  <2>3. CASE pc'[p] = "delete" /\ UNCHANGED users /\ job'[p].user \in users
      BY <1>2, <2>3 DEF TypeOK
  <2>4. CASE DeleteRow(p)
    <3>1. /\ pc[p] = "delete" /\ job'[p] = job[p]
          /\ users' = users \ ByID(job[p].user.id)
        BY <2>4 DEF DeleteRow
    <3>2. u \in users /\ u.id # job[p].user.id
        BY <1>2, <3>1 DEF ByID
    <3>3. QED
        BY <1>2, <3>1, <3>2 DEF AccountsInv, LaterOwner
  <2>5. QED
      BY <1>2, <2>2, <2>3, <2>4, DeletionSteps
<1>3. QED
    BY <1>1, <1>2 DEF DeletersInv, LaterOwner

-----------------------------------------------------------------------------

\* The invariant holds at installation.
LEMMA InitInv == Init => TypeOK /\ AccountsInv
<1> SUFFICES ASSUME Init PROVE TypeOK /\ AccountsInv
    OBVIOUS
<1>1. 1 \in Ids /\ 2 \in 1..(MaxUsers + 1)
    BY AccountsAssumption DEF Ids
<1>2. First \in User
    BY <1>1, AccountsAssumption DEF First, User
<1>3. First.id = 1 /\ First.email = Root
    BY DEF First
<1>4. NoJob \in Job /\ NoJob.by = NoUser /\ NoJob.user = NoUser
    BY DEF NoJob, About, Job, Ref
<1>5. TableOK /\ HeldOK /\ RequestsOK /\ restarts \in 0..MaxRestarts
  <2>1. TableOK
      BY <1>1, <1>2, <1>3 DEF Init, TableOK
  <2>2. HeldOK
      BY DEF Init, HeldOK, Ref
  <2>3. RequestsOK
      BY <1>4 DEF Init, RequestsOK, Knows, Phases
  <2>4. QED
      BY <2>1, <2>2, <2>3, AccountsAssumption DEF Init
<1>6. Remembered
    BY <1>4 DEF Init, Remembered, Known
<1>7. NewIds /\ SettingsAreOwn
    BY <1>1, <1>3 DEF Init, NewIds, SettingsAreOwn
<1>8. DeletersInv /\ LaterOwner
    BY DEF Init, DeletersInv, LaterOwner
<1>9. QED
    BY <1>5, <1>6, <1>7, <1>8, Parts DEF AccountsInv

\* Every step keeps the types.
LEMMA TypesStay ==
    ASSUME TypeOK, NewIds, [Next]_vars
    PROVE  TypeOK'
<1>1. ASSUME NEW p \in Procs, InsertUser(p) PROVE TypeOK'
    BY <1>1, InsertTypes DEF NewIds
<1>2. ASSUME NEW t \in Tokens, Leave(t) PROVE TypeOK'
    BY <1>2 DEF TypeOK, Leave, db, Ref
<1>3. ASSUME NEW t \in Tokens, SetForwarding(t) PROVE TypeOK'
  <2>1. session[t].id \in Ids /\ session[t].email \in Emails
      BY <1>3 DEF TypeOK, SetForwarding, Ref, User
  <2>2. TableOK'
      BY <1>3, <2>1, Parts DEF SetForwarding, TableOK
  <2>3. HeldOK' /\ RequestsOK' /\ restarts' \in 0..MaxRestarts
      BY <1>3, Parts DEF SetForwarding, HeldOK, RequestsOK, Knows
  <2>4. QED
      BY <2>2, <2>3 DEF TypeOK, TableOK, HeldOK, RequestsOK, Knows, Phases
<1>4. ASSUME Restart PROVE TypeOK'
  <2>1. NoJob \in Job /\ Form(Root, TRUE) \in Job /\ Form(Root, TRUE).email = Root
      BY AccountsAssumption DEF NoJob, About, Form, Job, Ref
  <2>2. RequestsOK'
      BY <1>4, <2>1, AccountsAssumption DEF Restart, RequestsOK, Knows, Phases
  <2>3. TableOK' /\ HeldOK'
      BY <1>4, Parts DEF Restart, TableOK, HeldOK, db, Ref
  <2>4. restarts' \in 0..MaxRestarts
      BY <1>4, AccountsAssumption DEF Restart, TypeOK
  <2>5. QED
      BY <2>2, <2>3, <2>4 DEF TypeOK, TableOK, HeldOK, RequestsOK, Knows, Phases
<1>5. ASSUME UNCHANGED vars PROVE TypeOK'
    BY <1>5 DEF TypeOK, vars, db
<1>6. QED
    BY <1>1, <1>2, <1>3, <1>4, <1>5, BeginTypes, ContinueTypes DEF Next

\* The invariant is kept by every step.
LEMMA InvStays == TypeOK /\ AccountsInv /\ [Next]_vars => (TypeOK /\ AccountsInv)'
<1> SUFFICES ASSUME TypeOK, AccountsInv, [Next]_vars
             PROVE  TypeOK' /\ AccountsInv'
    OBVIOUS
<1>1. Remembered /\ NewIds /\ SettingsAreOwn
    BY DEF AccountsInv
<1>2. QED
    BY <1>1, TypesStay, RememberedStays, SettingsStayOwn, DeletionsStay DEF AccountsInv

\* Every variable stays in its type, and ids and addresses name one row each
\* (the statements of store.go).
THEOREM AccountsTypeCorrect == Spec => []TypeOK
<1>1. TypeOK /\ AccountsInv => TypeOK
    OBVIOUS
<1>2. QED
    BY <1>1, InitInv, InvStays, PTL DEF Spec

\* A password or a forwarding rule is only ever changed by a session of its
\* own address (SetForwarding, ChangePassword), however stale the session.
THEOREM SettingsStayOwners == Spec => []SettingsAreOwn
<1>1. AccountsInv => SettingsAreOwn
    BY DEF AccountsInv
<1>2. QED
    BY <1>1, InitInv, InvStays, PTL DEF Spec

\* The last administrator is deleted only for one who has been deleted
\* (handleAdminDeleteUser).
THEOREM AnAdminStays == Spec => LastAdminStays
<1>1. ASSUME TypeOK, AccountsInv, NEW p \in Procs, [Next]_vars,
             pc[p] = "delete", pc'[p] = "wipe", job[p].by # NoUser,
             Admins' = {}, job[p].by \in users
      PROVE  FALSE
  <2> DEFINE by == job[p].by
  <2>1. DeleteRow(p)
      BY <1>1, DeletionSteps
  <2>2. by.admin /\ by.email # job[p].user.email
      BY <1>1 DEF AccountsInv, DeletersInv
  <2>3. by.id # job[p].user.id
    <3>1. job[p].user # NoUser
        BY <1>1, AccountsAssumption DEF TypeOK, User, NoUser, Ids
    <3>2. by.id = job[p].user.id => by = job[p].user
        BY <1>1, <3>1 DEF AccountsInv, Remembered, Known
    <3>3. QED
        BY <2>2, <3>2
  <2>4. by \in users'
      BY <1>1, <2>1, <2>3 DEF DeleteRow, ByID
  <2>5. QED
      BY <1>1, <2>2, <2>4 DEF Admins
<1> DEFINE A == \A p \in Procs :
                   /\ pc[p] = "delete" /\ pc'[p] = "wipe"
                   /\ job[p].by # NoUser
                   /\ Admins # {} /\ Admins' = {}
                   => job[p].by \notin users
<1>2. TypeOK /\ AccountsInv /\ [Next]_vars => [A]_vars
    BY <1>1
<1>3. QED
    BY <1>2, InitInv, InvStays, PTL DEF Spec, LastAdminStays

\* The folders of an account go with its own deletion, or with a late one of
\* an earlier account of its address (handleAdminDeleteUser, cmdUserDelete).
THEOREM OthersMailStays == Spec => OthersKeepTheirMail
<1>1. ASSUME TypeOK, AccountsInv, [Next]_vars, NEW u \in users,
             u.id \in tree[u.email] \ tree'[u.email]
      PROVE  \E p \in Procs : /\ pc[p] = "wipe"
                             /\ job[p].user.email = u.email
                             /\ job[p].user.id < u.id
  <2>1. u \in User /\ u.email \in Emails
      BY <1>1 DEF TypeOK, User
  <2>2. ASSUME NEW p \in Procs, Begin(p) PROVE UNCHANGED tree
      BY <2>2 DEF Begin, Login, AdminCreate, CliCreate, AdminDelete, CliDelete,
                  ChangePassword, Start
  <2>3. ASSUME NEW p \in Procs, Continue(p) \/ Fails(p), ~Wipe(p)
        PROVE  tree[u.email] \subseteq tree'[u.email]
      BY <1>1, <2>1, <2>3 DEF Continue, Enter, CheckNew, InsertUser, Reread, Index,
                              MakeTree, DeleteRow, SetPassword, Fails, TypeOK
  <2>4. ASSUME NEW t \in Tokens, Leave(t) \/ SetForwarding(t) PROVE UNCHANGED tree
      BY <2>4 DEF Leave, SetForwarding
  <2>5. Restart \/ UNCHANGED vars => UNCHANGED tree
      BY DEF Restart, vars
  <2>6. PICK p \in Procs : Wipe(p)
      BY <1>1, <2>2, <2>3, <2>4, <2>5 DEF Next
  <2>7. pc[p] = "wipe" /\ job[p].user.email = u.email
      BY <1>1, <2>1, <2>6 DEF Wipe, Wiped
  <2>8. u.id > job[p].user.id
      BY <1>1, <2>7 DEF AccountsInv, LaterOwner
  <2>9. u.id \in Int /\ job[p].user.id \in Int
      BY <1>1, <2>1, <2>7, AccountsAssumption DEF TypeOK, User, Ids
  <2>10. QED
      BY <2>7, <2>8, <2>9
<1> DEFINE A == \A u \in users :
                   u.id \in tree[u.email] \ tree'[u.email] =>
                       \E p \in Procs : /\ pc[p] = "wipe"
                                       /\ job[p].user.email = u.email
                                       /\ job[p].user.id < u.id
<1>2. TypeOK /\ AccountsInv /\ [Next]_vars => [A]_vars
    BY <1>1
<1>3. QED
    BY <1>2, InitInv, InvStays, PTL DEF Spec, OthersKeepTheirMail

=============================================================================
