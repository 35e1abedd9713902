------------------------------- MODULE SmtpProofs -----------------------------
(***************************************************************************)
(* Whose rules are applied, on whose behalf mail leaves the server, and    *)
(* how often a message arrives: for any number of clients, recipients,     *)
(* accounts and transactions.                                              *)
(***************************************************************************)
EXTENDS Smtp, FiniteSetTheorems, SequenceTheorems, WellFoundedInduction,
        TLAPS

\* What the argument needs of the types.
Types ==
    /\ account \in [Locals -> Ids \cup {0}]
    /\ owner \in [Ids -> Locals \cup {NoAddr}]
    /\ rule \in [Ids -> Addrs \cup {NoAddr}]
    /\ user \in [Clients -> Locals \cup {NoAddr}]
    /\ rcpts \in [Clients -> Seq(Addrs)]
    /\ ids \in [Clients -> Seq(Ids)]
    /\ open \in [Clients -> BOOLEAN]
    /\ i \in [Clients -> Nat]
    /\ pc \in [Clients -> {"idle", "deliver", "forward", "sent"}]
    /\ ruled \subseteq Locals \X (Addrs \cup {NoAddr})
    /\ authed \in [Clients -> SUBSET Locals]
    /\ DOMAIN copies = Clients

\* An id belongs to the address that has it, and is never that of another.
OwnId == \A a \in Locals : Exists(a) => owner[account[a]] = a

\* A rule was set by whoever has, or had, the id that it is stored under.
RuleIsOwn == \A id \in Ids : rule[id] # NoAddr => <<owner[id], rule[id]>> \in ruled

\* A session is only ever that of a user as whom the client authenticated.
SessionIsOwn == \A c \in Clients : user[c] # NoAddr => user[c] \in authed[c]

\* A handler that serves recipients has a user, or a transaction that is open,
\* and is at one of its recipients; only port 25 forwards.
Serves ==
    \A c \in Clients : pc[c] # "idle" =>
        /\ MayUse(c)
        /\ kind[c] = "inbound" => open[c]
        /\ i[c] \in 1..Len(rcpts[c])
        /\ pc[c] = "forward" => kind[c] = "inbound"

Inv == Types /\ OwnId /\ RuleIsOwn /\ SessionIsOwn /\ Serves /\ OwnRule
           /\ RelayIsOwn

-----------------------------------------------------------------------------

LEMMA InitInv == Init => Inv
<1> SUFFICES ASSUME Init PROVE Inv
    OBVIOUS
<1>1. Types
    BY SmtpAssumption DEF Init, Types, Addrs, Ids
<1>2. OwnId /\ RuleIsOwn /\ SessionIsOwn /\ Serves /\ OwnRule
    BY DEF Init, OwnId, Exists, RuleIsOwn, SessionIsOwn, Serves, OwnRule
<1>3. RelayIsOwn
    BY DEF Init, RelayIsOwn, EmptyBag, BagToSet, SetToBag
<1> QED
    BY <1>1, <1>2, <1>3 DEF Inv

\* What is added to the copies of a client is what a step has made.
LEMMA AddCopies ==
    ASSUME Types, NEW c \in Clients, NEW S, Add(c, S)
    PROVE  /\ DOMAIN copies' = Clients
           /\ \A d \in Clients :
                  BagToSet(copies'[d]) =
                      BagToSet(copies[d]) \cup (IF d = c THEN S ELSE {})
<1>1. DOMAIN copies = Clients /\ copies' = [copies EXCEPT ![c] = @ (+) SetToBag(S)]
    BY DEF Types, Add
<1>2. \A B : DOMAIN (B (+) SetToBag(S)) = DOMAIN B \cup S
    BY DEF SetToBag, (+)
<1> QED
    BY <1>1, <1>2 DEF BagToSet

\* Mail that leaves the server goes on to be somebody's own when the steps add
\* only such mail.
LEMMA RelayStays ==
    ASSUME Types, RelayIsOwn, NEW c \in Clients, NEW S, Add(c, S),
           UNCHANGED <<kind, ruled, authed>>,
           \A x \in S : x.to \in Remotes =>
               \/ kind[c] # "inbound" /\ x.by \in authed[c]
               \/ kind[c] = "inbound" /\ <<x.by, x.to>> \in ruled
    PROVE  RelayIsOwn'
BY AddCopies DEF RelayIsOwn

-----------------------------------------------------------------------------

\* A step that leaves copies, and what was authenticated and ruled, alone.
LEMMA RelayUntouched ==
    ASSUME RelayIsOwn, UNCHANGED <<kind, copies, ruled, authed>>
    PROVE  RelayIsOwn'
BY DEF RelayIsOwn

LEMMA AuthInv ==
    ASSUME Inv, NEW c \in Clients, Auth(c)
    PROVE  Inv'
<1> USE DEF Inv, Auth, storeVars
<1>1. PICK a \in Locals : /\ user' = [user EXCEPT ![c] = a]
                          /\ authed' = [authed EXCEPT ![c] = @ \cup {a}]
    OBVIOUS
<1>2. Types'
    BY <1>1 DEF Types
<1>3. (OwnId /\ RuleIsOwn /\ OwnRule)'
    BY DEF OwnId, Exists, RuleIsOwn, OwnRule
<1>4. SessionIsOwn' /\ Serves'
    BY <1>1, SmtpAssumption DEF Types, SessionIsOwn, Serves, MayUse, Idle
<1>5. RelayIsOwn'
    BY <1>1 DEF Types, RelayIsOwn
<1> QED
    BY <1>2, <1>3, <1>4, <1>5

\* Reset ends the transaction.
LEMMA ResetInv ==
    ASSUME Types, SessionIsOwn, Serves, OwnRule, NEW c \in Clients, Reset(c),
           UNCHANGED <<storeVars, kind, user, authed>>
    PROVE  /\ rcpts' \in [Clients -> Seq(Addrs)]
           /\ ids' \in [Clients -> Seq(Ids)]
           /\ open' \in [Clients -> BOOLEAN]
           /\ i' \in [Clients -> Nat]
           /\ pc' \in [Clients -> {"idle", "deliver", "forward", "sent"}]
           /\ Serves'
           /\ OwnRule'
<1> USE DEF Reset, storeVars, Types
<1>1. /\ rcpts' \in [Clients -> Seq(Addrs)]
      /\ ids' \in [Clients -> Seq(Ids)]
      /\ open' \in [Clients -> BOOLEAN]
      /\ i' \in [Clients -> Nat]
      /\ pc' \in [Clients -> {"idle", "deliver", "forward", "sent"}]
    OBVIOUS
<1>2. Serves'
    BY DEF Serves, MayUse
<1>3. OwnRule'
    BY DEF OwnRule
<1> QED
    BY <1>1, <1>2, <1>3

LEMMA RsetInv ==
    ASSUME Inv, NEW c \in Clients, RSET(c)
    PROVE  Inv'
<1>1. /\ Reset(c)
      /\ UNCHANGED <<storeVars, kind, mail, user, copies, history, tries,
                     rules, faults>>
    BY DEF RSET
<1>2. Serves' /\ OwnRule' /\ Types'
    BY <1>1, ResetInv DEF Inv, history, storeVars, Types
<1>3. (OwnId /\ RuleIsOwn /\ SessionIsOwn)'
    BY <1>1 DEF Inv, history, storeVars, OwnId, Exists, RuleIsOwn, SessionIsOwn
<1>4. RelayIsOwn'
    BY <1>1, RelayUntouched DEF Inv, history
<1> QED
    BY <1>2, <1>3, <1>4 DEF Inv

LEMMA MailInv ==
    ASSUME Inv, NEW c \in Clients, Mail(c)
    PROVE  Inv'
<1> USE DEF Inv, Mail, storeVars, history
<1>1. Types'
    BY DEF Types, NoUsers
<1>2. (OwnId /\ RuleIsOwn /\ SessionIsOwn)'
    BY DEF OwnId, Exists, RuleIsOwn, SessionIsOwn
<1>3. Serves'
    BY DEF Serves, MayUse, Idle
<1>4. OwnRule'
    BY DEF Types, OwnRule, NoUsers
<1>5. RelayIsOwn'
    BY RelayUntouched
<1> QED
    BY <1>1, <1>2, <1>3, <1>4, <1>5

\* On port 25 a recipient is appended together with the id of its account.
LEMMA RcptInv ==
    ASSUME Inv, NEW c \in Clients, Rcpt(c)
    PROVE  Inv'
<1> USE DEF Inv, Rcpt, storeVars, history
<1>1. PICK to \in Addrs :
          /\ MayReceive(c, to)
          /\ rcpts' = [rcpts EXCEPT ![c] = Append(@, to)]
          /\ ids' = IF kind[c] # "inbound" THEN ids
                    ELSE [ids EXCEPT ![c] = Append(@, account[to])]
    OBVIOUS
<1>2. kind[c] = "inbound" => account[to] \in Ids /\ owner[account[to]] = to
    BY <1>1 DEF MayReceive, Types, OwnId, Exists
<1>3. Types'
    BY <1>1, <1>2 DEF Types
<1>4. (OwnId /\ RuleIsOwn /\ SessionIsOwn)'
    BY DEF OwnId, Exists, RuleIsOwn, SessionIsOwn
<1>5. Serves'
    BY <1>1 DEF Types, Serves, MayUse, Idle
<1>6. OwnRule'
    BY <1>1, <1>2 DEF Types, OwnRule
<1>7. RelayIsOwn'
    BY RelayUntouched
<1> QED
    BY <1>3, <1>4, <1>5, <1>6, <1>7

LEMMA DataInv ==
    ASSUME Inv, NEW c \in Clients, Data(c)
    PROVE  Inv'
<1> USE DEF Inv, Data, Begin, storeVars
<1>1. Types'
    BY DEF Types
<1>2. (OwnId /\ RuleIsOwn /\ SessionIsOwn /\ OwnRule)'
    BY DEF OwnId, Exists, RuleIsOwn, SessionIsOwn, OwnRule
<1>3. 1 \in 1..Len(rcpts[c])
    BY DEF Types
<1>4. Serves'
    BY <1>3 DEF Types, Serves, MayUse
<1>5. RelayIsOwn'
    BY RelayUntouched
<1> QED
    BY <1>1, <1>2, <1>4, <1>5

LEMMA ComposeInv ==
    ASSUME Inv, NEW c \in Clients, Compose(c)
    PROVE  Inv'
<1> USE DEF Inv, Compose, Begin, storeVars
<1>1. PICK n \in 1..MaxRcpts : \E to \in [1..n -> Addrs] :
               rcpts' = [rcpts EXCEPT ![c] = to]
    OBVIOUS
<1>2. PICK to \in [1..n -> Addrs] : rcpts' = [rcpts EXCEPT ![c] = to]
    BY <1>1
<1>3. to \in Seq(Addrs) /\ 1 \in 1..Len(to)
    BY <1>2, SmtpAssumption
<1>4. Types'
    BY <1>2, <1>3 DEF Types
<1>5. (OwnId /\ RuleIsOwn /\ SessionIsOwn)'
    BY DEF OwnId, Exists, RuleIsOwn, SessionIsOwn
<1>6. Serves'
    BY <1>2, <1>3 DEF Types, Serves, MayUse
<1>7. OwnRule'
    BY <1>2 DEF Types, OwnRule
<1>8. RelayIsOwn'
    BY RelayUntouched
<1> QED
    BY <1>4, <1>5, <1>6, <1>7, <1>8

-----------------------------------------------------------------------------

\* Advance goes to a recipient that is there, or ends the transaction.
LEMMA AdvanceInv ==
    ASSUME Types, SessionIsOwn, Serves, OwnRule, NEW c \in Clients,
           pc[c] # "idle", Advance(c, "deliver"),
           UNCHANGED <<storeVars, kind, user, authed>>
    PROVE  /\ rcpts' \in [Clients -> Seq(Addrs)]
           /\ ids' \in [Clients -> Seq(Ids)]
           /\ open' \in [Clients -> BOOLEAN]
           /\ i' \in [Clients -> Nat]
           /\ pc' \in [Clients -> {"idle", "deliver", "forward", "sent"}]
           /\ Serves'
           /\ OwnRule'
<1>1. CASE IsLast(c) /\ kind[c] # "webmail"
    BY <1>1, ResetInv DEF Advance, Accept
<1>2. CASE IsLast(c) /\ kind[c] = "webmail"
  <2>1. pc' = [pc EXCEPT ![c] = "sent"] /\ UNCHANGED <<open, rcpts, ids, i>>
      BY <1>2 DEF Advance, Accept
  <2>2. Serves' /\ OwnRule'
      BY <2>1 DEF Types, Serves, MayUse, OwnRule, storeVars
  <2> QED
      BY <2>1, <2>2 DEF Types
<1>3. CASE ~IsLast(c)
  <2>1. /\ pc' = [pc EXCEPT ![c] = "deliver"]
        /\ i' = [i EXCEPT ![c] = @ + 1]
        /\ UNCHANGED <<open, rcpts, ids>>
      BY <1>3 DEF Advance
  <2>2. i[c] + 1 \in 1..Len(rcpts[c])
      BY <1>3 DEF Types, Serves, IsLast
  <2>3. Serves' /\ OwnRule'
      BY <2>1, <2>2 DEF Types, Serves, MayUse, OwnRule, storeVars
  <2> QED
      BY <2>1, <2>3 DEF Types
<1> QED
    BY <1>1, <1>2, <1>3

\* On port 25 the recipient that is served comes with the id of its account.
LEMMA ServedIsOwn ==
    ASSUME Inv, NEW c \in Clients, kind[c] = "inbound", pc[c] # "idle"
    PROVE  /\ rcpts[c][i[c]] \in Locals
           /\ ids[c][i[c]] \in Ids
           /\ owner[ids[c][i[c]]] = rcpts[c][i[c]]
<1>1. i[c] \in 1..Len(rcpts[c]) /\ Len(ids[c]) = Len(rcpts[c])
    BY DEF Inv, Serves, OwnRule
<1>2. /\ rcpts[c][i[c]] \in Addrs /\ ids[c][i[c]] \in Ids
      /\ owner[ids[c][i[c]]] = rcpts[c][i[c]]
    BY <1>1 DEF Inv, Types, Serves, OwnRule
<1> QED
    BY <1>2, SmtpAssumption DEF Inv, Types, Addrs

\* A delivery on port 25 queues nothing.
LEMMA DeliverToInv ==
    ASSUME Inv, NEW c \in Clients, DeliverTo(c)
    PROVE  Inv'
<1> DEFINE folder == IF verdict[c].quarantined THEN "Junk" ELSE "INBOX"
           S == {Stored(rcpts[c][i[c]], folder)}
<1>1. /\ kind[c] = "inbound" /\ pc[c] = "deliver"
      /\ Add(c, S)
      /\ pc' = [pc EXCEPT ![c] = "forward"]
      /\ UNCHANGED <<storeVars, kind, mail, user, open, rcpts, ids, i,
                     verdict, history, tries, rules, faults>>
    BY DEF DeliverTo
<1>2. (OwnId /\ RuleIsOwn /\ SessionIsOwn /\ OwnRule)'
    BY <1>1 DEF Inv, storeVars, history, OwnId, Exists, RuleIsOwn,
                SessionIsOwn, OwnRule
<1>3. Serves'
    BY <1>1 DEF Inv, Types, Serves, MayUse
<1>4. Types'
    BY <1>1, AddCopies DEF Inv, Types, storeVars, history
<1>5. rcpts[c][i[c]] \in Locals
    BY <1>1, ServedIsOwn
<1>6. RelayIsOwn'
    BY <1>1, <1>5, RelayStays, SmtpAssumption DEF Inv, Stored, history
<1> QED
    BY <1>2, <1>3, <1>4, <1>6 DEF Inv

\* What a rule sends on is the doing of the mailbox that it belongs to.
LEMMA ForwardInv ==
    ASSUME Inv, NEW c \in Clients, Forward(c)
    PROVE  Inv'
<1> DEFINE a == rcpts[c][i[c]]
           id == ids[c][i[c]]
           S == Forwards(a, id)
<1>1. /\ pc[c] = "forward" /\ kind[c] = "inbound"
      /\ Add(c, S) \/ UNCHANGED copies
      /\ Advance(c, "deliver")
      /\ UNCHANGED <<storeVars, kind, mail, user, named, ruled, authed>>
    BY DEF Forward, Inv, Types, Serves
<1>2. (OwnId /\ RuleIsOwn /\ SessionIsOwn)'
    BY <1>1 DEF Inv, storeVars, OwnId, Exists, RuleIsOwn, SessionIsOwn
<1>3. DOMAIN copies' = Clients
    BY <1>1, AddCopies DEF Inv, Types
<1>4. Serves' /\ OwnRule' /\ Types'
    BY <1>1, <1>3, AdvanceInv DEF Inv, Types, storeVars
<1>5. \A x \in S : x.to \in Remotes => <<x.by, x.to>> \in ruled
  <2> SUFFICES ASSUME NEW x \in S, x.to \in Remotes
               PROVE  <<x.by, x.to>> \in ruled
      OBVIOUS
  <2>1. rule[id] # NoAddr /\ x \in Forwarded(a, rule[id])
      BY DEF Forwards
  <2>2. x.to = rule[id] /\ x.by = a
      BY <2>1, SmtpAssumption DEF Forwarded, Stored, Queued
  <2>3. id \in Ids /\ owner[id] = a
      BY <1>1, ServedIsOwn
  <2> QED
      BY <2>1, <2>2, <2>3 DEF Inv, RuleIsOwn
<1>6. RelayIsOwn'
    BY <1>1, <1>5, RelayStays, RelayUntouched DEF Inv
<1> QED
    BY <1>2, <1>4, <1>6 DEF Inv

\* Submission and webmail queue under the name of the session's user.
LEMMA SendInv ==
    ASSUME Inv, NEW c \in Clients, Send(c)
    PROVE  Inv'
<1> DEFINE to == rcpts[c][i[c]]
           S == {IF to \in Locals THEN Stored(to, "INBOX")
                 ELSE Queued(to, user[c])}
<1>1. /\ kind[c] # "inbound" /\ pc[c] = "deliver"
      /\ Add(c, S)
      /\ Advance(c, "deliver")
      /\ UNCHANGED <<storeVars, kind, mail, user, named, ruled, authed, tries,
                     rules, faults>>
    BY DEF Send
<1>2. (OwnId /\ RuleIsOwn /\ SessionIsOwn)'
    BY <1>1 DEF Inv, storeVars, OwnId, Exists, RuleIsOwn, SessionIsOwn
<1>3. DOMAIN copies' = Clients
    BY <1>1, AddCopies DEF Inv
<1>4. Serves' /\ OwnRule' /\ Types'
    BY <1>1, <1>3, AdvanceInv DEF Inv, Types, storeVars
<1>5. user[c] \in authed[c]
    BY <1>1 DEF Inv, Serves, MayUse, SessionIsOwn
<1>6. \A x \in S : x.to \in Remotes => x.by \in authed[c]
    BY <1>5, SmtpAssumption DEF Stored, Queued
<1>7. RelayIsOwn'
    BY <1>1, <1>6, RelayStays DEF Inv
<1> QED
    BY <1>2, <1>4, <1>7 DEF Inv

LEMMA DeliveryFailsInv ==
    ASSUME Inv, NEW c \in Clients, DeliveryFails(c)
    PROVE  Inv'
<1>1. /\ Reset(c)
      /\ UNCHANGED <<storeVars, kind, mail, user, copies, history>>
    BY DEF DeliveryFails, GivesUp
<1>2. Serves' /\ OwnRule' /\ Types'
    BY <1>1, ResetInv DEF Inv, history, storeVars, Types
<1>3. (OwnId /\ RuleIsOwn /\ SessionIsOwn)'
    BY <1>1 DEF Inv, history, storeVars, OwnId, Exists, RuleIsOwn, SessionIsOwn
<1>4. RelayIsOwn'
    BY <1>1, RelayUntouched DEF Inv, history
<1> QED
    BY <1>2, <1>3, <1>4 DEF Inv

\* The copy in Sent is the user's own.
LEMMA SentCopyInv ==
    ASSUME Inv, NEW c \in Clients, SentCopy(c)
    PROVE  Inv'
<1>1. /\ pc[c] = "sent"
      /\ Add(c, {Stored(user[c], "Sent")}) \/ UNCHANGED copies
      /\ Reset(c)
      /\ UNCHANGED <<storeVars, kind, mail, user, history>>
    BY DEF SentCopy
<1>2. (OwnId /\ RuleIsOwn /\ SessionIsOwn)'
    BY <1>1 DEF Inv, history, storeVars, OwnId, Exists, RuleIsOwn, SessionIsOwn
<1>3. DOMAIN copies' = Clients
    BY <1>1, AddCopies DEF Inv, Types
<1>4. Serves' /\ OwnRule' /\ Types'
    BY <1>1, <1>3, ResetInv DEF Inv, Types, storeVars, history
<1>5. user[c] \notin Remotes
    BY SmtpAssumption DEF Inv, Types
<1>6. RelayIsOwn'
    BY <1>1, <1>5, RelayStays, RelayUntouched DEF Inv, Stored, history
<1> QED
    BY <1>2, <1>4, <1>6 DEF Inv

-----------------------------------------------------------------------------

\* A new id has no rule and is in no session's list.
LEMMA CreateUserInv ==
    ASSUME Inv, CreateUser
    PROVE  Inv'
<1>1. PICK id \in Ids, a \in Locals :
          /\ owner[id] = NoAddr
          /\ ~Exists(a)
          /\ account' = [account EXCEPT ![a] = id]
          /\ owner' = [owner EXCEPT ![id] = a]
    BY DEF CreateUser
<1>2. UNCHANGED <<rule, kind, mail, sessionVars, copies, history, tries,
                  rules, faults>>
    BY DEF CreateUser
<1> USE <1>2 DEF Inv, sessionVars, history
<1>3. Types'
    BY <1>1 DEF Types
<1>4. OwnId'
  <2> SUFFICES ASSUME NEW b \in Locals, Exists(b)' PROVE (owner[account[b]] = b)'
      BY DEF OwnId
  <2>1. CASE b = a
      BY <1>1, <2>1 DEF Types
  <2>2. CASE b # a
      BY <1>1, <2>2, SmtpAssumption DEF Types, OwnId, Exists
  <2> QED
      BY <2>1, <2>2
<1>5. RuleIsOwn'
    BY <1>1, SmtpAssumption DEF Types, RuleIsOwn
<1>6. (SessionIsOwn /\ Serves)'
    BY DEF SessionIsOwn, Serves, MayUse
<1>7. OwnRule'
  <2> SUFFICES ASSUME NEW c \in Clients, kind[c] = "inbound", open[c],
                      NEW j \in 1..Len(ids[c])
               PROVE  owner'[ids[c][j]] = rcpts[c][j]
      BY DEF OwnRule
  <2>1. owner[ids[c][j]] = rcpts[c][j] /\ ids[c][j] \in Ids
      BY DEF Types, OwnRule
  <2>2. rcpts[c][j] # NoAddr
      BY SmtpAssumption DEF Types, OwnRule, Addrs
  <2> QED
      BY <1>1, <2>1, <2>2 DEF Types
<1>8. RelayIsOwn'
    BY RelayUntouched
<1> QED
    BY <1>3, <1>4, <1>5, <1>6, <1>7, <1>8

\* Ids keep their owner, so a list made at RCPT stays right.
LEMMA DeleteUserInv ==
    ASSUME Inv, DeleteUser
    PROVE  Inv'
<1>1. PICK a \in Locals :
          /\ account' = [account EXCEPT ![a] = 0]
          /\ rule' = [rule EXCEPT ![account[a]] = NoAddr]
    BY DEF DeleteUser
<1>2. UNCHANGED <<owner, kind, mail, sessionVars, copies, history, tries,
                  rules, faults>>
    BY DEF DeleteUser
<1> USE <1>2 DEF Inv, sessionVars, history
<1>3. Types'
    BY <1>1 DEF Types
<1>4. (OwnId /\ RuleIsOwn)'
    BY <1>1 DEF Types, OwnId, Exists, RuleIsOwn
<1>5. (SessionIsOwn /\ Serves /\ OwnRule)'
    BY DEF SessionIsOwn, Serves, MayUse, OwnRule
<1>6. RelayIsOwn'
    BY RelayUntouched
<1> QED
    BY <1>3, <1>4, <1>5, <1>6

\* A rule is set by the owner of the id, and what was ruled stays ruled.
LEMMA SetForwardingInv ==
    ASSUME Inv, SetForwarding
    PROVE  Inv'
<1>1. PICK a \in Locals, t \in Addrs \cup {NoAddr} :
          /\ Exists(a)
          /\ rule' = [rule EXCEPT ![account[a]] = t]
          /\ ruled' = ruled \cup {<<a, t>>}
    BY DEF SetForwarding
<1>2. UNCHANGED <<account, owner, kind, mail, sessionVars, copies, named,
                  promised, authed, tries, faults>>
    BY DEF SetForwarding
<1> USE <1>2 DEF Inv, sessionVars
<1>3. Types'
  <2>1. rule' \in [Ids -> Addrs \cup {NoAddr}]
      BY <1>1 DEF Types
  <2>2. <<a, t>> \in Locals \X (Addrs \cup {NoAddr})
      OBVIOUS
  <2>3. ruled' \subseteq Locals \X (Addrs \cup {NoAddr})
      BY <1>1, <2>2 DEF Types
  <2> QED
      BY <2>1, <2>3 DEF Types
<1>4. (OwnId /\ RuleIsOwn)'
    BY <1>1 DEF Types, OwnId, Exists, RuleIsOwn
<1>5. (SessionIsOwn /\ Serves /\ OwnRule)'
    BY DEF SessionIsOwn, Serves, MayUse, OwnRule
<1>6. RelayIsOwn'
    BY <1>1 DEF RelayIsOwn
<1> QED
    BY <1>3, <1>4, <1>5, <1>6

LEMMA RestartInv ==
    ASSUME Inv, Restart
    PROVE  Inv'
<1> USE DEF Inv, Restart, storeVars, history
<1>1. Types'
    BY DEF Types
<1>2. (OwnId /\ RuleIsOwn)'
    BY DEF OwnId, Exists, RuleIsOwn
<1>3. (SessionIsOwn /\ Serves /\ OwnRule)'
    BY DEF SessionIsOwn, Serves, OwnRule
<1>4. RelayIsOwn'
    BY RelayUntouched
<1> QED
    BY <1>1, <1>2, <1>3, <1>4

LEMMA SmtpInvariant == Spec => []Inv
<1>1. Inv /\ [Next]_vars => Inv'
  <2> SUFFICES ASSUME Inv, [Next]_vars PROVE Inv'
      OBVIOUS
  <2>1. ASSUME NEW c \in Clients,
               \/ Auth(c) \/ Mail(c) \/ Rcpt(c) \/ RSET(c) \/ Data(c)
               \/ Compose(c) \/ DeliverTo(c) \/ Forward(c) \/ Send(c)
               \/ DeliveryFails(c) \/ SentCopy(c)
        PROVE  Inv'
      BY <2>1, AuthInv, MailInv, RcptInv, RsetInv, DataInv, ComposeInv,
         DeliverToInv, ForwardInv, SendInv, DeliveryFailsInv, SentCopyInv
  <2>2. ASSUME CreateUser \/ DeleteUser \/ SetForwarding \/ Restart
        PROVE  Inv'
      BY <2>2, CreateUserInv, DeleteUserInv, SetForwardingInv, RestartInv
  <2>3. CASE UNCHANGED vars
      BY <2>3 DEF vars, Inv, storeVars, sessionVars, history, Types, OwnId,
                  Exists, RuleIsOwn, SessionIsOwn, Serves, MayUse, OwnRule,
                  RelayIsOwn
  <2> QED
      BY <2>1, <2>2, <2>3 DEF Next
<1> QED
    BY <1>1, InitInv, PTL DEF Spec

\* The rule applied to a recipient is that of the user who had the address at
\* RCPT, for any number of transactions, accounts and sessions (rcptUsers goes
\* along with rcpts, inbound.go:123).
THEOREM RulesStayOwners == Spec => []OwnRule
BY SmtpInvariant, PTL DEF Inv

\* No open relay (inbound.go:26): mail for elsewhere is that of a user who
\* authenticated, or was sent on by the rule of the mailbox it came to.
THEOREM NoOpenRelay == Spec => []RelayIsOwn
BY SmtpInvariant, PTL DEF Inv

-----------------------------------------------------------------------------
(* How often a message arrives. *)

\* What of a set of copies is in a bag of them, and how much of it there is.
Tokens(B, Q) == UNION {{x} \X (1..B[x]) : x \in DOMAIN B \cap Q}

Num(B, Q) == Cardinality(Tokens(B, Q))

CopyBag(B) ==
    /\ IsABag(B)
    /\ BagToSet(B) \subseteq Copies
    /\ IsFiniteSet(Tokens(B, Copies))

\* The copies for a that are no matter of forwarding, for a way in; and those
\* that the rule of a made.
DirectTo(way, a) ==
    {x \in Copies : /\ x.to = a
                    /\ x.folder # "Sent"
                    /\ way = "inbound" => x.by = NoAddr}

ByRule(a) == {x \in Copies : x.by = a}

\* The indices between lo and hi at which a sequence has an element.
Places(s, a, lo, hi) == {j \in 1..Len(s) : s[j] = a /\ lo <= j /\ j <= hi}

Serving(c) == pc[c] \in {"deliver", "forward"}

\* How many of its recipients a handler has served.
Served(c) == IF pc[c] = "deliver" THEN i[c] - 1 ELSE i[c]

\* The types that the argument about rules does without.
Limits ==
    /\ kind \in [Clients -> Kinds]
    /\ mail \in [Clients -> SUBSET Verdict]
    /\ verdict \in [Clients -> Verdict]
    /\ tries \in [Clients -> 0..MaxTries]
    /\ named \in [Clients -> [Addrs -> Nat]]
    /\ promised \in [Clients -> [Addrs -> Nat]]

ClientLimits(c) ==
    /\ Len(rcpts[c]) <= MaxRcpts
    /\ pc[c] = "sent" => kind[c] = "webmail"
    /\ \A a \in Addrs : named[c][a] <= MaxRcpts * tries[c]
    /\ CopyBag(copies[c])

\* Whoever was served has his copy, and of those who were not each was named
\* once more than he has copies: that is so at each recipient of the loop, and
\* stays so when the transaction breaks off and is repeated.
ClientOnce(c) ==
    \A a \in Addrs :
        /\ promised[c][a] <= Num(copies[c], DirectTo(kind[c], a))
        /\ ~Serving(c) =>
               Num(copies[c], DirectTo(kind[c], a)) <= named[c][a]
        /\ Serving(c) =>
               /\ promised[c][a] = 0
               /\ Cardinality(Places(rcpts[c], a, 1, Served(c))) <=
                      Num(copies[c], DirectTo(kind[c], a))
               /\ Num(copies[c], DirectTo(kind[c], a))
                    + Cardinality(Places(rcpts[c], a, Served(c) + 1,
                                         Len(rcpts[c]))) <= named[c][a]

\* A mailbox has forwarded no more than it got; before its rule is applied to
\* what it has just got, less.
ClientHop(c) ==
    kind[c] = "inbound" =>
        \A a \in Locals :
            Num(copies[c], ByRule(a))
              + (IF pc[c] = "forward" /\ rcpts[c][i[c]] = a THEN 1 ELSE 0) <=
                Num(copies[c], DirectTo(kind[c], a))

ClientInv(c) == ClientLimits(c) /\ ClientOnce(c) /\ ClientHop(c)

CopyInv == Limits /\ \A c \in Clients : ClientInv(c)

LEMMA TokenOf ==
    ASSUME NEW B, NEW Q, NEW t
    PROVE  t \in Tokens(B, Q) <=>
               \E x \in DOMAIN B \cap Q : \E n \in 1..B[x] : t = <<x, n>>
BY DEF Tokens

\* Another copy of x is one token more, for the sets that x is in.
LEMMA AddToken ==
    ASSUME NEW B, IsABag(B), NEW x, NEW Q
    PROVE  LET N == B (+) SetToBag({x})
               n == IF x \in DOMAIN B THEN B[x] + 1 ELSE 1
           IN  /\ IsABag(N)
               /\ DOMAIN N = DOMAIN B \cup {x}
               /\ Tokens(N, Q) =
                      Tokens(B, Q) \cup (IF x \in Q THEN {<<x, n>>} ELSE {})
               /\ <<x, n>> \notin Tokens(B, Q)
<1> DEFINE N == B (+) SetToBag({x})
           n == IF x \in DOMAIN B THEN B[x] + 1 ELSE 1
<1>1. /\ DOMAIN N = DOMAIN B \cup {x}
      /\ N[x] = n
      /\ \A y \in DOMAIN B : y # x => N[y] = B[y]
      /\ \A y \in DOMAIN B : B[y] \in Nat /\ B[y] > 0
      /\ N = [y \in DOMAIN N |-> N[y]]
    BY DEF (+), SetToBag, IsABag
<1> HIDE DEF N
<1>2. n \in Nat /\ n > 0
    BY <1>1
<1>3. N \in [DOMAIN N -> {k \in Nat : k > 0}]
    BY <1>1, <1>2
<1>4. IsABag(N)
    BY <1>3 DEF IsABag
<1>5. \A k : k \in 1..n <=> k = n \/ (x \in DOMAIN B /\ k \in 1..B[x])
    BY <1>1
<1>6. <<x, n>> \notin Tokens(B, Q)
    BY <1>1, TokenOf
<1> HIDE DEF n
<1>7. ASSUME NEW t
      PROVE  t \in Tokens(N, Q) <=>
                 t \in Tokens(B, Q) \/ (x \in Q /\ t = <<x, n>>)
  <2>1. ASSUME t \in Tokens(N, Q)
        PROVE  t \in Tokens(B, Q) \/ (x \in Q /\ t = <<x, n>>)
    <3>1. PICK y \in DOMAIN N \cap Q : \E k \in 1..N[y] : t = <<y, k>>
        BY <2>1, TokenOf
    <3>2. CASE y = x
        BY <1>1, <1>5, <3>1, <3>2, TokenOf
    <3>3. CASE y # x
        BY <1>1, <3>1, <3>3, TokenOf
    <3> QED
        BY <3>2, <3>3
  <2>2. ASSUME t \in Tokens(B, Q)
        PROVE  t \in Tokens(N, Q)
    <3>1. PICK y \in DOMAIN B \cap Q : \E k \in 1..B[y] : t = <<y, k>>
        BY <2>2, TokenOf
    <3>2. PICK k \in 1..B[y] : t = <<y, k>>
        BY <3>1
    <3>3. y \in DOMAIN N \cap Q /\ k \in 1..N[y]
        BY <1>1, <1>5, <3>1
    <3> QED
        BY <3>2, <3>3, TokenOf
  <2>3. ASSUME x \in Q, t = <<x, n>>
        PROVE  t \in Tokens(N, Q)
    <3>1. x \in DOMAIN N \cap Q /\ n \in 1..N[x]
        BY <1>1, <1>2, <2>3
    <3> QED
        BY <2>3, <3>1, TokenOf
  <2> QED
      BY <2>1, <2>2, <2>3
<1>8. Tokens(N, Q) = Tokens(B, Q) \cup (IF x \in Q THEN {<<x, n>>} ELSE {})
    BY <1>7
<1> QED
    BY <1>1, <1>4, <1>6, <1>8 DEF N, n

LEMMA NumIsNat ==
    ASSUME NEW B, CopyBag(B), NEW Q, Q \subseteq Copies
    PROVE  /\ IsFiniteSet(Tokens(B, Q))
           /\ Num(B, Q) \in Nat
<1>1. Tokens(B, Q) \subseteq Tokens(B, Copies)
    BY DEF Tokens
<1> QED
    BY <1>1, FS_Subset, FS_CardinalityType DEF CopyBag, Num

LEMMA AddOne ==
    ASSUME NEW B, CopyBag(B), NEW x \in Copies, NEW N,
           N = B (+) SetToBag({x})
    PROVE  /\ CopyBag(N)
           /\ \A Q : Q \subseteq Copies =>
                  Num(N, Q) = Num(B, Q) + (IF x \in Q THEN 1 ELSE 0)
<1> DEFINE n == IF x \in DOMAIN B THEN B[x] + 1 ELSE 1
<1>1. ASSUME NEW Q
      PROVE  /\ IsABag(N)
             /\ DOMAIN N = DOMAIN B \cup {x}
             /\ Tokens(N, Q) =
                    Tokens(B, Q) \cup (IF x \in Q THEN {<<x, n>>} ELSE {})
             /\ <<x, n>> \notin Tokens(B, Q)
    BY AddToken DEF CopyBag
<1> HIDE DEF n
<1>2. ASSUME NEW Q, Q \subseteq Copies
      PROVE  /\ IsFiniteSet(Tokens(N, Q))
             /\ Num(N, Q) = Num(B, Q) + (IF x \in Q THEN 1 ELSE 0)
  <2>1. IsFiniteSet(Tokens(B, Q)) /\ Num(B, Q) \in Nat
      BY <1>2, NumIsNat
  <2>2. CASE x \in Q
    <3>1. /\ Tokens(N, Q) = Tokens(B, Q) \cup {<<x, n>>}
          /\ <<x, n>> \notin Tokens(B, Q)
        BY <1>1, <2>2
    <3>2. /\ IsFiniteSet(Tokens(N, Q))
          /\ Cardinality(Tokens(N, Q)) = Cardinality(Tokens(B, Q)) + 1
        BY <2>1, <3>1, FS_AddElement
    <3> QED
        BY <2>2, <3>2 DEF Num
  <2>3. CASE x \notin Q
    <3>1. Tokens(N, Q) = Tokens(B, Q)
        BY <1>1, <2>3
    <3> QED
        BY <2>1, <2>3, <3>1 DEF Num
  <2> QED
      BY <2>2, <2>3
<1>3. CopyBag(N)
    BY <1>1, <1>2 DEF CopyBag, BagToSet
<1> QED
    BY <1>2, <1>3

\* The sets of copies that the argument counts are sets of copies.
LEMMA CountedSets ==
    /\ \A way, a : DirectTo(way, a) \subseteq Copies
    /\ \A a : ByRule(a) \subseteq Copies
BY DEF DirectTo, ByRule

\* Places grow and shrink by the one place that the loop passes.
LEMMA PlacesFinite ==
    ASSUME NEW s \in Seq(Addrs), NEW a, NEW lo \in Int, NEW hi \in Int
    PROVE  /\ IsFiniteSet(Places(s, a, lo, hi))
           /\ Cardinality(Places(s, a, lo, hi)) \in Nat
           /\ Cardinality(Places(s, a, lo, hi)) <= Len(s)
<1>1. Len(s) \in Nat
    OBVIOUS
<1>2. IsFiniteSet(1..Len(s)) /\ Cardinality(1..Len(s)) = Len(s)
    BY <1>1, FS_Interval
<1>3. Places(s, a, lo, hi) \in SUBSET (1..Len(s))
    BY DEF Places
<1> QED
    BY <1>2, <1>3, FS_Subset, FS_CardinalityType

LEMMA PlacesPass ==
    ASSUME NEW s \in Seq(Addrs), NEW a, NEW k \in 1..Len(s)
    PROVE  /\ Cardinality(Places(s, a, 1, k)) =
                  Cardinality(Places(s, a, 1, k - 1))
                      + (IF s[k] = a THEN 1 ELSE 0)
           /\ Cardinality(Places(s, a, k, Len(s))) =
                  Cardinality(Places(s, a, k + 1, Len(s)))
                      + (IF s[k] = a THEN 1 ELSE 0)
<1>1. k \in Int /\ k - 1 \in Int /\ k + 1 \in Int /\ Len(s) \in Nat
    OBVIOUS
<1>2. /\ Places(s, a, 1, k) =
             Places(s, a, 1, k - 1) \cup (IF s[k] = a THEN {k} ELSE {})
      /\ Places(s, a, k, Len(s)) =
             Places(s, a, k + 1, Len(s)) \cup (IF s[k] = a THEN {k} ELSE {})
      /\ k \notin Places(s, a, 1, k - 1)
      /\ k \notin Places(s, a, k + 1, Len(s))
    BY <1>1 DEF Places
<1>3. /\ IsFiniteSet(Places(s, a, 1, k - 1))
      /\ IsFiniteSet(Places(s, a, k + 1, Len(s)))
      /\ Cardinality(Places(s, a, 1, k - 1)) \in Nat
      /\ Cardinality(Places(s, a, k + 1, Len(s))) \in Nat
    BY <1>1, PlacesFinite
<1>4. CASE s[k] = a
  <2>1. /\ Places(s, a, 1, k) = Places(s, a, 1, k - 1) \cup {k}
        /\ Places(s, a, k, Len(s)) = Places(s, a, k + 1, Len(s)) \cup {k}
      BY <1>2, <1>4
  <2>2. Cardinality(Places(s, a, 1, k - 1) \cup {k}) =
            Cardinality(Places(s, a, 1, k - 1)) + 1
      BY <1>2, <1>3, FS_AddElement
  <2>3. Cardinality(Places(s, a, k + 1, Len(s)) \cup {k}) =
            Cardinality(Places(s, a, k + 1, Len(s))) + 1
      BY <1>2, <1>3, FS_AddElement
  <2> QED
      BY <1>4, <2>1, <2>2, <2>3
<1>5. CASE s[k] # a
  <2>1. /\ Places(s, a, 1, k) = Places(s, a, 1, k - 1)
        /\ Places(s, a, k, Len(s)) = Places(s, a, k + 1, Len(s))
      BY <1>2, <1>5
  <2> QED
      BY <1>3, <1>5, <2>1
<1> QED
    BY <1>4, <1>5

\* At the start of the loop nothing is passed, at its end everything.
LEMMA PlacesEnds ==
    ASSUME NEW s \in Seq(Addrs), NEW a
    PROVE  /\ Cardinality(Places(s, a, 1, 0)) = 0
           /\ Cardinality(Places(s, a, Len(s) + 1, Len(s))) = 0
           /\ Cardinality(Places(s, a, 1, Len(s))) = Times(s, a)
<1>1. /\ Places(s, a, 1, 0) = {}
      /\ Places(s, a, Len(s) + 1, Len(s)) = {}
      /\ Places(s, a, 1, Len(s)) = {j \in 1..Len(s) : s[j] = a}
    BY DEF Places
<1> QED
    BY <1>1, FS_EmptySet DEF Times

-----------------------------------------------------------------------------

Mine(c) == <<kind[c], pc[c], i[c], rcpts[c], copies[c], named[c], promised[c],
             tries[c]>>

\* A step of somebody else.
LEMMA OtherStep ==
    ASSUME NEW c \in Clients, ClientInv(c), UNCHANGED Mine(c)
    PROVE  ClientInv(c)'
<1>1. Serving(c)' = Serving(c) /\ Served(c)' = Served(c)
    BY DEF Mine, Serving, Served
<1>2. ClientLimits(c)'
    BY DEF Mine, ClientInv, ClientLimits
<1>3. ClientOnce(c)'
    BY <1>1 DEF Mine, ClientInv, ClientOnce
<1>4. ClientHop(c)'
    BY DEF Mine, ClientInv, ClientHop
<1> QED
    BY <1>2, <1>3, <1>4 DEF ClientInv

\* A step before, or after, the recipients are served, and one that breaks off.
LEMMA QuietStep ==
    ASSUME Types, Serves, Limits, NEW c \in Clients, ClientInv(c),
           UNCHANGED <<kind[c], copies[c], named[c], promised[c], tries[c]>>,
           pc'[c] = "idle",
           Len(rcpts'[c]) <= MaxRcpts
    PROVE  ClientInv(c)'
<1> USE DEF ClientInv
<1>1. ~Serving(c)'
    BY DEF Serving
<1>2. ClientLimits(c)'
    BY DEF ClientLimits
<1>3. ClientOnce(c)'
  <2> SUFFICES ASSUME NEW a \in Addrs
               PROVE  /\ promised[c][a] <= Num(copies[c], DirectTo(kind[c], a))
                      /\ Num(copies[c], DirectTo(kind[c], a)) <= named[c][a]
      BY <1>1 DEF ClientOnce
  <2>1. CASE ~Serving(c)
      BY <2>1 DEF ClientOnce
  <2>2. CASE Serving(c)
    <3>1. /\ rcpts[c] \in Seq(Addrs)
          /\ Served(c) + 1 \in Int /\ Len(rcpts[c]) \in Int
          /\ named[c][a] \in Nat
        BY DEF Types, Served, Limits
    <3>2. Num(copies[c], DirectTo(kind[c], a)) \in Nat
        BY NumIsNat, CountedSets DEF ClientLimits
    <3>3. Cardinality(Places(rcpts[c], a, Served(c) + 1, Len(rcpts[c]))) \in Nat
        BY <3>1, PlacesFinite
    <3>4. /\ promised[c][a] = 0
          /\ Num(copies[c], DirectTo(kind[c], a))
               + Cardinality(Places(rcpts[c], a, Served(c) + 1,
                                    Len(rcpts[c]))) <= named[c][a]
        BY <2>2 DEF ClientOnce
    <3> QED
        BY <3>1, <3>2, <3>3, <3>4
  <2> QED
      BY <2>1, <2>2
<1>4. ClientHop(c)'
  <2> SUFFICES ASSUME kind[c] = "inbound", NEW a \in Locals
               PROVE  Num(copies[c], ByRule(a)) + 0 <=
                          Num(copies[c], DirectTo(kind[c], a))
      BY DEF ClientHop
  <2>1. /\ Num(copies[c], ByRule(a)) \in Nat
        /\ Num(copies[c], DirectTo(kind[c], a)) \in Nat
      BY NumIsNat, CountedSets DEF ClientLimits
  <2> QED
      BY <2>1 DEF ClientHop
<1> QED
    BY <1>2, <1>3, <1>4

\* The handler has its recipients, to: none of them is served.
LEMMA BeginStep ==
    ASSUME Limits, Limits', NEW c \in Clients, ClientInv(c), pc[c] = "idle",
           NEW to \in Seq(Addrs), Len(to) <= MaxRcpts,
           \A a \in Addrs : promised[c][a] = 0,
           UNCHANGED <<kind[c], copies[c], promised[c]>>,
           rcpts'[c] = to, i'[c] = 1, pc'[c] = "deliver",
           tries'[c] = tries[c] + 1,
           named'[c] = Tally(named[c], to)
    PROVE  ClientInv(c)'
<1> USE DEF ClientInv
<1>1. Serving(c)' /\ Served(c)' = 0 /\ ~Serving(c)
    BY DEF Serving, Served
<1>2. \A a \in Addrs : /\ named'[c][a] = named[c][a] + Times(to, a)
                       /\ named[c][a] \in Nat
                       /\ Times(to, a) \in Nat /\ Times(to, a) <= Len(to)
  <2> SUFFICES ASSUME NEW a \in Addrs
               PROVE  /\ named'[c][a] = named[c][a] + Times(to, a)
                      /\ named[c][a] \in Nat
                      /\ Times(to, a) \in Nat /\ Times(to, a) <= Len(to)
      OBVIOUS
  <2>1. 1 \in Int /\ Len(to) \in Int
      OBVIOUS
  <2>2. Times(to, a) \in Nat /\ Times(to, a) <= Len(to)
      BY <2>1, PlacesFinite, PlacesEnds
  <2> QED
      BY <2>2 DEF Tally, Limits
<1>3. ClientLimits(c)'
  <2>1. \A a \in Addrs : named'[c][a] <= MaxRcpts * tries'[c]
    <3> SUFFICES ASSUME NEW a \in Addrs
                 PROVE  named'[c][a] <= MaxRcpts * tries'[c]
        OBVIOUS
    <3>1. named[c][a] <= MaxRcpts * tries[c]
        BY DEF ClientLimits
    <3>2. MaxRcpts \in Nat /\ tries[c] \in Nat /\ Len(to) \in Nat
        BY SmtpAssumption DEF Limits
    <3>3. MaxRcpts * (tries[c] + 1) = MaxRcpts * tries[c] + MaxRcpts
        BY <3>2
    <3>4. MaxRcpts * tries[c] \in Nat
        BY <3>2
    <3> DEFINE p == MaxRcpts * tries[c]
    <3> HIDE DEF p
    <3>5. named[c][a] <= p /\ p \in Nat
        BY <3>1, <3>4 DEF p
    <3>6. named[c][a] + Times(to, a) <= p + MaxRcpts
        BY <1>2, <3>2, <3>5
    <3> QED
        BY <1>2, <3>3, <3>6 DEF p
  <2> QED
      BY <2>1 DEF ClientLimits
<1>4. ClientOnce(c)'
  <2> SUFFICES ASSUME NEW a \in Addrs
               PROVE  /\ promised[c][a] <= Num(copies[c], DirectTo(kind[c], a))
                      /\ Cardinality(Places(to, a, 1, 0)) <=
                             Num(copies[c], DirectTo(kind[c], a))
                      /\ Num(copies[c], DirectTo(kind[c], a))
                           + Cardinality(Places(to, a, 0 + 1, Len(to))) <=
                             named'[c][a]
      BY <1>1 DEF ClientOnce
  <2>1. Num(copies[c], DirectTo(kind[c], a)) \in Nat
      BY NumIsNat, CountedSets DEF ClientLimits
  <2>2. /\ promised[c][a] <= Num(copies[c], DirectTo(kind[c], a))
        /\ Num(copies[c], DirectTo(kind[c], a)) <= named[c][a]
      BY <1>1 DEF ClientOnce
  <2>3. /\ Cardinality(Places(to, a, 1, 0)) = 0
        /\ Cardinality(Places(to, a, 0 + 1, Len(to))) = Times(to, a)
      BY PlacesEnds
  <2> QED
      BY <1>2, <2>1, <2>2, <2>3
<1>5. ClientHop(c)'
    BY DEF ClientHop
<1> QED
    BY <1>3, <1>4, <1>5

\* What holds when a recipient is served, and his rule applied on port 25: it
\* stays for the next one, and makes the promise good after the last.
PastRecipient(c, B) ==
    /\ CopyBag(B)
    /\ \A a \in Addrs :
           /\ promised[c][a] = 0
           /\ Cardinality(Places(rcpts[c], a, 1, i[c])) <=
                  Num(B, DirectTo(kind[c], a))
           /\ Num(B, DirectTo(kind[c], a))
                + Cardinality(Places(rcpts[c], a, i[c] + 1, Len(rcpts[c]))) <=
                  named[c][a]
    /\ kind[c] = "inbound" =>
           \A a \in Locals : Num(B, ByRule(a)) <= Num(B, DirectTo(kind[c], a))

LEMMA AdvanceStep ==
    ASSUME Types, Serves, Limits, NEW c \in Clients, ClientInv(c), Serving(c),
           Advance(c, "deliver"), UNCHANGED <<kind[c], named[c], tries[c]>>,
           PastRecipient(c, copies'[c])
    PROVE  /\ promised' \in [Clients -> [Addrs -> Nat]]
           /\ ClientInv(c)'
<1> USE DEF ClientInv
<1>1. PICK s \in Seq(Addrs) : s = rcpts[c]
    BY DEF Types
<1>2. i[c] \in 1..Len(s) /\ Len(s) \in Nat /\ pc[c] # "idle"
    BY <1>1 DEF Serving, Serves
<1>3. PICK k \in 1..Len(s) : k = i[c]
    BY <1>2
<1>4. PICK B : B = copies'[c]
    OBVIOUS
<1>5. ASSUME NEW a \in Addrs
      PROVE  /\ Num(B, DirectTo(kind[c], a)) \in Nat
             /\ named[c][a] \in Nat
             /\ Times(s, a) \in Nat
             /\ Cardinality(Places(s, a, k + 1, Len(s))) \in Nat
             /\ promised[c][a] = 0
             /\ Cardinality(Places(s, a, 1, k)) <= Num(B, DirectTo(kind[c], a))
             /\ Num(B, DirectTo(kind[c], a))
                  + Cardinality(Places(s, a, k + 1, Len(s))) <= named[c][a]
  <2>1. Num(B, DirectTo(kind[c], a)) \in Nat
      BY <1>4, NumIsNat, CountedSets DEF PastRecipient
  <2>2. 1 \in Int /\ k + 1 \in Int /\ Len(s) \in Int
      OBVIOUS
  <2>3. /\ Times(s, a) \in Nat
        /\ Cardinality(Places(s, a, k + 1, Len(s))) \in Nat
      BY <2>2, PlacesFinite, PlacesEnds
  <2> QED
      BY <1>1, <1>3, <1>4, <2>1, <2>3 DEF PastRecipient, Limits
<1>6. CASE IsLast(c)
  <2>1. promised' = [promised EXCEPT ![c] = Tally(@, s)] /\ k = Len(s)
      BY <1>1, <1>3, <1>6 DEF Advance, Accept, IsLast
  <2>2. /\ promised' \in [Clients -> [Addrs -> Nat]]
        /\ \A a \in Addrs : promised'[c][a] = Times(s, a)
    <3>1. \A a \in Addrs : promised[c][a] = 0 /\ Times(s, a) \in Nat
        BY <1>5
    <3>2. PICK f : f = Tally(promised[c], s)
        OBVIOUS
    <3>3. f \in [Addrs -> Nat] /\ \A a \in Addrs : f[a] = Times(s, a)
        BY <3>1, <3>2 DEF Tally
    <3>4. promised \in [Clients -> [Addrs -> Nat]]
        BY DEF Limits
    <3>5. promised' = [promised EXCEPT ![c] = f]
        BY <2>1, <3>2
    <3> QED
        BY ONLY <3>3, <3>4, <3>5, c \in Clients
  <2>3. /\ pc'[c] \in {"idle", "sent"}
        /\ pc'[c] = "sent" => kind[c] = "webmail"
        /\ Len(rcpts'[c]) <= MaxRcpts
      BY <1>6, SmtpAssumption DEF Advance, Accept, Reset, Types, ClientLimits
  <2>4. ~Serving(c)'
      BY <2>3 DEF Serving
  <2>5. ClientLimits(c)'
      BY <2>3 DEF ClientLimits, PastRecipient
  <2>6. ClientOnce(c)'
    <3> SUFFICES ASSUME NEW a \in Addrs
                 PROVE  /\ Times(s, a) <= Num(B, DirectTo(kind[c], a))
                        /\ Num(B, DirectTo(kind[c], a)) <= named[c][a]
        BY <1>4, <2>2, <2>4 DEF ClientOnce
    <3>1. Cardinality(Places(s, a, 1, k)) = Times(s, a)
        BY <2>1, PlacesEnds
    <3>2. Times(s, a) <= Num(B, DirectTo(kind[c], a))
        BY <1>5, <3>1
    <3>3. PICK D, n, m :
              /\ D = Num(B, DirectTo(kind[c], a)) /\ n = named[c][a]
              /\ m = Cardinality(Places(s, a, k + 1, Len(s)))
        OBVIOUS
    <3>4. D \in Nat /\ n \in Nat /\ m \in Nat /\ D + m <= n
        BY <1>5, <3>3
    <3>5. D <= n
        BY <3>4
    <3> QED
        BY <3>2, <3>3, <3>5
  <2>7. ClientHop(c)'
    <3> SUFFICES ASSUME kind[c] = "inbound", NEW a \in Locals
                 PROVE  Num(B, ByRule(a)) + 0 <= Num(B, DirectTo(kind[c], a))
        BY <1>4, <2>3 DEF ClientHop
    <3>1. Num(B, ByRule(a)) \in Nat
        BY <1>4, NumIsNat, CountedSets DEF PastRecipient
    <3> QED
        BY <1>4, <3>1 DEF PastRecipient
  <2> QED
      BY <2>2, <2>5, <2>6, <2>7
<1>7. CASE ~IsLast(c)
  <2>1. /\ i'[c] = k + 1 /\ pc'[c] = "deliver"
        /\ UNCHANGED <<rcpts, promised>>
      BY <1>3, <1>7 DEF Advance, Types
  <2>2. Serving(c)' /\ Served(c)' = k
      BY <2>1 DEF Serving, Served
  <2>3. ClientLimits(c)'
      BY <2>1 DEF ClientLimits, PastRecipient
  <2>4. ClientOnce(c)'
    <3> SUFFICES ASSUME NEW a \in Addrs
                 PROVE  /\ promised[c][a] <= Num(B, DirectTo(kind[c], a))
                        /\ promised[c][a] = 0
                        /\ Cardinality(Places(s, a, 1, k)) <=
                               Num(B, DirectTo(kind[c], a))
                        /\ Num(B, DirectTo(kind[c], a))
                             + Cardinality(Places(s, a, k + 1, Len(s))) <=
                               named[c][a]
        BY <1>1, <1>4, <2>1, <2>2 DEF ClientOnce
    <3>1. promised[c][a] = 0 /\ Num(B, DirectTo(kind[c], a)) \in Nat
        BY <1>5
    <3>2. promised[c][a] <= Num(B, DirectTo(kind[c], a))
        BY <3>1
    <3> QED
        BY <1>5, <3>2
  <2>5. ClientHop(c)'
    <3> SUFFICES ASSUME kind[c] = "inbound", NEW a \in Locals
                 PROVE  Num(B, ByRule(a)) + 0 <= Num(B, DirectTo(kind[c], a))
        BY <1>4, <2>1 DEF ClientHop
    <3>1. Num(B, ByRule(a)) \in Nat
        BY <1>4, NumIsNat, CountedSets DEF PastRecipient
    <3> QED
        BY <1>4, <3>1 DEF PastRecipient
  <2>6. promised' \in [Clients -> [Addrs -> Nat]]
      BY <2>1 DEF Limits
  <2> QED
      BY <2>3, <2>4, <2>5, <2>6
<1> QED
    BY <1>6, <1>7

-----------------------------------------------------------------------------

\* A step of c's handler is nothing to the other clients.
LEMMA StepOf ==
    ASSUME CopyInv, NEW c \in Clients, Limits', ClientInv(c)',
           \A d \in Clients : d # c => UNCHANGED Mine(d)
    PROVE  CopyInv'
<1>1. \A d \in Clients : d # c => ClientInv(d)'
    BY OtherStep DEF CopyInv
<1> QED
    BY <1>1 DEF CopyInv

LEMMA NoStep ==
    ASSUME CopyInv, Limits', \A d \in Clients : UNCHANGED Mine(d)
    PROVE  CopyInv'
BY OtherStep DEF CopyInv

LEMMA NoVerdictType == NoVerdict \in Verdict
BY DEF NoVerdict, Verdict

\* AUTH, the administration, and the rules.
LEMMA ElsewhereCopies ==
    ASSUME CopyInv,
           \/ \E c \in Clients : Auth(c)
           \/ CreateUser \/ DeleteUser \/ SetForwarding
           \/ UNCHANGED vars
    PROVE  CopyInv'
<1>1. UNCHANGED <<kind, mail, verdict, tries, named, promised, pc, i, rcpts,
                  copies>>
    BY DEF Auth, CreateUser, DeleteUser, SetForwarding, vars, sessionVars,
           history
<1>2. Limits'
    BY <1>1 DEF CopyInv, Limits
<1>3. \A d \in Clients : UNCHANGED Mine(d)
    BY <1>1 DEF Mine
<1> QED
    BY <1>2, <1>3, NoStep

\* MAIL, RCPT, RSET, and a delivery that fails.
LEMMA QuietCopies ==
    ASSUME Inv, CopyInv, NEW c \in Clients,
           Mail(c) \/ Rcpt(c) \/ RSET(c) \/ DeliveryFails(c)
    PROVE  CopyInv'
<1>1. UNCHANGED <<kind, mail, tries, named, promised, copies>>
    BY DEF Mail, Rcpt, RSET, DeliveryFails, GivesUp, history
<1>2. verdict' \in [Clients -> Verdict]
    BY NoVerdictType
       DEF CopyInv, Limits, Mail, Rcpt, RSET, DeliveryFails, GivesUp, Reset
<1>3. Limits'
    BY <1>1, <1>2 DEF CopyInv, Limits
<1>4. /\ rcpts' \in [Clients -> Seq(Addrs)]
      /\ pc'[c] = "idle" /\ Len(rcpts'[c]) <= MaxRcpts
  <2>1. CASE Mail(c) \/ RSET(c) \/ DeliveryFails(c)
    <3>1. /\ pc'[c] = "idle"
          /\ rcpts' = [rcpts EXCEPT ![c] = <<>>]
        BY <2>1 DEF Mail, RSET, DeliveryFails, GivesUp, Reset, Idle, Inv, Types
    <3> QED
        BY <3>1, SmtpAssumption DEF Inv, Types
  <2>2. CASE Rcpt(c)
    <3>1. PICK to \in Addrs : rcpts' = [rcpts EXCEPT ![c] = Append(@, to)]
        BY <2>2 DEF Rcpt
    <3>2. Len(Append(rcpts[c], to)) = Len(rcpts[c]) + 1
        BY DEF Inv, Types
    <3> QED
        BY <2>2, <3>1, <3>2, SmtpAssumption DEF Rcpt, Idle, Inv, Types
  <2> QED
      BY <2>1, <2>2
<1>5. ClientInv(c)'
    BY <1>1, <1>4, QuietStep DEF Inv, CopyInv
<1>6. \A d \in Clients : d # c => UNCHANGED Mine(d)
  <2>1. \A d \in Clients : d # c => UNCHANGED <<pc[d], i[d], rcpts[d]>>
    <3>1. CASE Mail(c) \/ Rcpt(c)
        BY <3>1 DEF Mail, Rcpt, Inv, Types
    <3>2. CASE RSET(c) \/ DeliveryFails(c)
        BY <3>2 DEF RSET, DeliveryFails, GivesUp, Reset, Inv, Types
    <3> QED
        BY <3>1, <3>2
  <2> QED
      BY <1>1, <2>1 DEF Mine
<1> QED
    BY <1>3, <1>5, <1>6, StepOf

LEMMA RestartCopies ==
    ASSUME Inv, CopyInv, Restart
    PROVE  CopyInv'
<1>1. Limits'
    BY NoVerdictType DEF CopyInv, Limits, Restart, history
<1>2. ASSUME NEW c \in Clients
      PROVE  ClientInv(c)'
  <2>1. /\ UNCHANGED <<kind[c], copies[c], named[c], promised[c], tries[c]>>
        /\ pc'[c] = "idle" /\ Len(rcpts'[c]) <= MaxRcpts
      BY SmtpAssumption DEF Restart, history
  <2> QED
      BY <2>1, QuietStep DEF Inv, CopyInv
<1> QED
    BY <1>1, <1>2 DEF CopyInv

\* DATA, and Send of the compose page.
LEMMA BeginCopies ==
    ASSUME Inv, CopyInv, NEW c \in Clients, Data(c) \/ Compose(c)
    PROVE  CopyInv'
<1>1. PICK to \in Seq(Addrs), v \in Verdict :
          /\ Len(to) <= MaxRcpts
          /\ rcpts'[c] = to
          /\ Begin(c, to, v)
  <2>1. CASE Data(c)
    <3>1. PICK v \in mail[c] : Begin(c, rcpts[c], v)
        BY <2>1 DEF Data
    <3>2. v \in Verdict
        BY <3>1 DEF CopyInv, Limits
    <3>3. rcpts[c] \in Seq(Addrs) /\ Len(rcpts[c]) <= MaxRcpts
        BY DEF Inv, Types, CopyInv, ClientInv, ClientLimits
    <3> QED
        BY <2>1, <3>1, <3>2, <3>3 DEF Data
  <2>2. CASE Compose(c)
    <3>1. PICK n \in 1..MaxRcpts : \E to \in [1..n -> Addrs] :
              /\ rcpts' = [rcpts EXCEPT ![c] = to]
              /\ Begin(c, to, NoVerdict)
        BY <2>2 DEF Compose
    <3>2. PICK to \in [1..n -> Addrs] :
              /\ rcpts' = [rcpts EXCEPT ![c] = to]
              /\ Begin(c, to, NoVerdict)
        BY <3>1
    <3>3. to \in Seq(Addrs) /\ Len(to) <= MaxRcpts
        BY <3>2, SmtpAssumption
    <3> QED
        BY <3>2, <3>3, NoVerdictType DEF Inv, Types
  <2> QED
      BY <2>1, <2>2
<1>2. /\ pc[c] = "idle" /\ \A a \in Addrs : promised[c][a] = 0
      /\ UNCHANGED <<kind, mail, copies, promised>>
      /\ \A d \in Clients : d # c => rcpts'[d] = rcpts[d]
    BY DEF Data, Compose, Idle, Inv, Types
<1>3. \A a \in Addrs : Times(to, a) \in Nat
  <2>1. 1 \in Int /\ Len(to) \in Int
      OBVIOUS
  <2> QED
      BY <2>1, PlacesFinite, PlacesEnds
<1>4. Limits'
  <2>1. Tally(named[c], to) \in [Addrs -> Nat]
      BY <1>3 DEF Tally, CopyInv, Limits
  <2>2. tries[c] + 1 \in 0..MaxTries
      BY <1>1, SmtpAssumption DEF Begin, CopyInv, Limits
  <2> QED
      BY <1>1, <1>2, <2>1, <2>2 DEF Begin, CopyInv, Limits
<1>5. /\ i'[c] = 1 /\ pc'[c] = "deliver" /\ tries'[c] = tries[c] + 1
      /\ named'[c] = Tally(named[c], to)
    BY <1>1 DEF Begin, Inv, Types, CopyInv, Limits
<1>6. ClientInv(c)'
    BY <1>1, <1>2, <1>4, <1>5, BeginStep DEF CopyInv
<1>7. \A d \in Clients : d # c => UNCHANGED Mine(d)
    BY <1>1, <1>2 DEF Begin, Mine
<1> QED
    BY <1>4, <1>6, <1>7, StepOf

-----------------------------------------------------------------------------

LEMMA CopyTypes ==
    /\ \A a \in Locals, f \in {"INBOX", "Junk", "Sent"} : Stored(a, f) \in Copies
    /\ \A b \in Addrs, a \in Locals : Queued(b, a) \in Copies
    /\ \A b \in Locals, a \in Locals :
           [Stored(b, "INBOX") EXCEPT !.by = a] \in Copies
BY DEF Stored, Queued, Copies, Addrs

\* The recipient that is served, and what is passed and left with him.
LEMMA AtRecipient ==
    ASSUME Inv, CopyInv, NEW c \in Clients, Serving(c)
    PROVE  /\ rcpts[c] \in Seq(Addrs)
           /\ i[c] \in 1..Len(rcpts[c])
           /\ rcpts[c][i[c]] \in Addrs
           /\ CopyBag(copies[c])
           /\ \A a \in Addrs :
                 /\ Num(copies[c], DirectTo(kind[c], a)) \in Nat
                 /\ Num(copies[c], ByRule(a)) \in Nat
                 /\ named[c][a] \in Nat
                 /\ promised[c][a] = 0
                 /\ Cardinality(Places(rcpts[c], a, 1, i[c] - 1)) \in Nat
                 /\ Cardinality(Places(rcpts[c], a, i[c] + 1, Len(rcpts[c])))
                        \in Nat
                 /\ Cardinality(Places(rcpts[c], a, 1, i[c])) =
                        Cardinality(Places(rcpts[c], a, 1, i[c] - 1))
                            + (IF rcpts[c][i[c]] = a THEN 1 ELSE 0)
                 /\ Cardinality(Places(rcpts[c], a, i[c], Len(rcpts[c]))) =
                        Cardinality(Places(rcpts[c], a, i[c] + 1,
                                           Len(rcpts[c])))
                            + (IF rcpts[c][i[c]] = a THEN 1 ELSE 0)
<1>1. rcpts[c] \in Seq(Addrs) /\ i[c] \in 1..Len(rcpts[c])
    BY DEF Inv, Types, Serves, Serving
<1>2. rcpts[c][i[c]] \in Addrs
    BY <1>1
<1>3. CopyBag(copies[c])
    BY DEF CopyInv, ClientInv, ClientLimits
<1>4. ASSUME NEW a \in Addrs
      PROVE  /\ Num(copies[c], DirectTo(kind[c], a)) \in Nat
             /\ Num(copies[c], ByRule(a)) \in Nat
             /\ named[c][a] \in Nat
             /\ promised[c][a] = 0
    BY <1>3, NumIsNat, CountedSets DEF CopyInv, Limits, ClientInv, ClientOnce
<1>5. ASSUME NEW a \in Addrs
      PROVE  /\ Cardinality(Places(rcpts[c], a, 1, i[c] - 1)) \in Nat
             /\ Cardinality(Places(rcpts[c], a, i[c] + 1, Len(rcpts[c])))
                    \in Nat
  <2>1. 1 \in Int /\ i[c] - 1 \in Int /\ i[c] + 1 \in Int /\ Len(rcpts[c]) \in Int
      BY <1>1
  <2> QED
      BY <1>1, <2>1, PlacesFinite
<1>6. ASSUME NEW a \in Addrs
      PROVE  /\ Cardinality(Places(rcpts[c], a, 1, i[c])) =
                    Cardinality(Places(rcpts[c], a, 1, i[c] - 1))
                        + (IF rcpts[c][i[c]] = a THEN 1 ELSE 0)
             /\ Cardinality(Places(rcpts[c], a, i[c], Len(rcpts[c]))) =
                    Cardinality(Places(rcpts[c], a, i[c] + 1, Len(rcpts[c])))
                        + (IF rcpts[c][i[c]] = a THEN 1 ELSE 0)
    BY <1>1, PlacesPass
<1> QED
    BY <1>1, <1>2, <1>3, <1>4, <1>5, <1>6

\* Port 25 delivers to a recipient: he has one copy more, and his rule is due.
LEMMA DeliverToCopies ==
    ASSUME Inv, CopyInv, NEW c \in Clients, DeliverTo(c)
    PROVE  CopyInv'
<1> DEFINE folder == IF verdict[c].quarantined THEN "Junk" ELSE "INBOX"
<1>1. PICK x : x = Stored(rcpts[c][i[c]], folder)
    OBVIOUS
<1>2. /\ kind[c] = "inbound" /\ pc[c] = "deliver"
      /\ Add(c, {x})
      /\ pc' = [pc EXCEPT ![c] = "forward"]
      /\ UNCHANGED <<kind, mail, rcpts, i, verdict, named, promised, tries>>
    BY <1>1 DEF DeliverTo, history
<1>3. PICK to \in Locals : to = rcpts[c][i[c]]
    BY <1>2, ServedIsOwn
<1>4. x \in Copies /\ x.to = to /\ x.folder # "Sent" /\ x.by = NoAddr
    BY <1>1, <1>3, CopyTypes DEF Stored
<1>5. PICK B : B = copies[c]
    OBVIOUS
<1>6. PICK N : N = copies'[c]
    OBVIOUS
<1>7. N = B (+) SetToBag({x})
    BY <1>2, <1>5, <1>6 DEF Add, Inv, Types
<1>8. CopyBag(N) /\ \A Q : Q \subseteq Copies =>
                        Num(N, Q) = Num(B, Q) + (IF x \in Q THEN 1 ELSE 0)
    BY <1>4, <1>5, <1>7, AddOne DEF CopyInv, ClientInv, ClientLimits
<1>9. Serving(c) /\ Served(c) = i[c] - 1
    BY <1>2 DEF Serving, Served
<1>10. Serving(c)' /\ Served(c)' = i[c]
    BY <1>2 DEF Serving, Served, Inv, Types
<1>11. ASSUME NEW a \in Addrs
       PROVE  Num(N, DirectTo("inbound", a)) =
                  Num(B, DirectTo("inbound", a)) + (IF to = a THEN 1 ELSE 0)
  <2>1. x \in DirectTo("inbound", a) <=> to = a
      BY <1>4 DEF DirectTo
  <2> QED
      BY <1>8, <2>1, CountedSets
<1>12. ASSUME NEW a \in Locals
       PROVE  Num(N, ByRule(a)) = Num(B, ByRule(a))
  <2>1. x \notin ByRule(a)
      BY <1>4, SmtpAssumption DEF ByRule
  <2>2. Num(B, ByRule(a)) \in Nat
      BY <1>5, NumIsNat, CountedSets DEF CopyInv, ClientInv, ClientLimits
  <2> QED
      BY <1>8, <2>1, <2>2, CountedSets
<1>13. ClientOnce(c)'
  <2> SUFFICES ASSUME NEW a \in Addrs
               PROVE  /\ promised[c][a] <= Num(N, DirectTo("inbound", a))
                      /\ promised[c][a] = 0
                      /\ Cardinality(Places(rcpts[c], a, 1, i[c])) <=
                             Num(N, DirectTo("inbound", a))
                      /\ Num(N, DirectTo("inbound", a))
                           + Cardinality(Places(rcpts[c], a, i[c] + 1,
                                                Len(rcpts[c]))) <= named[c][a]
      BY <1>2, <1>6, <1>10 DEF ClientOnce
  <2>1. /\ Cardinality(Places(rcpts[c], a, 1, i[c] - 1)) <=
               Num(B, DirectTo("inbound", a))
        /\ Num(B, DirectTo("inbound", a))
             + Cardinality(Places(rcpts[c], a, i[c] - 1 + 1, Len(rcpts[c]))) <=
               named[c][a]
      BY <1>2, <1>5, <1>9 DEF CopyInv, ClientInv, ClientOnce
  <2>2. i[c] - 1 + 1 = i[c]
      BY <1>9, AtRecipient
  <2>3. /\ Num(B, DirectTo("inbound", a)) \in Nat
        /\ named[c][a] \in Nat
        /\ promised[c][a] = 0
        /\ Cardinality(Places(rcpts[c], a, 1, i[c] - 1)) \in Nat
        /\ Cardinality(Places(rcpts[c], a, i[c] + 1, Len(rcpts[c]))) \in Nat
      BY <1>2, <1>5, <1>9, AtRecipient
  <2>4. /\ Cardinality(Places(rcpts[c], a, 1, i[c])) =
               Cardinality(Places(rcpts[c], a, 1, i[c] - 1))
                   + (IF to = a THEN 1 ELSE 0)
        /\ Cardinality(Places(rcpts[c], a, i[c], Len(rcpts[c]))) =
               Cardinality(Places(rcpts[c], a, i[c] + 1, Len(rcpts[c])))
                   + (IF to = a THEN 1 ELSE 0)
      BY <1>3, <1>9, AtRecipient
  <2>5. Num(N, DirectTo("inbound", a)) =
            Num(B, DirectTo("inbound", a)) + (IF to = a THEN 1 ELSE 0)
      BY <1>11
  <2> QED
      BY <2>1, <2>2, <2>3, <2>4, <2>5
<1>14. ClientHop(c)'
  <2> SUFFICES ASSUME NEW a \in Locals
               PROVE  Num(N, ByRule(a)) + (IF to = a THEN 1 ELSE 0) <=
                          Num(N, DirectTo("inbound", a))
      BY <1>2, <1>3, <1>6 DEF ClientHop, Inv, Types
  <2>1. Num(B, ByRule(a)) + 0 <= Num(B, DirectTo("inbound", a))
      BY <1>2, <1>5 DEF CopyInv, ClientInv, ClientHop
  <2>2. a \in Addrs
      BY DEF Addrs
  <2>3. /\ Num(B, ByRule(a)) \in Nat /\ Num(B, DirectTo("inbound", a)) \in Nat
      BY <1>2, <1>5, <1>9, <2>2, AtRecipient
  <2> QED
      BY <1>11, <1>12, <2>1, <2>2, <2>3
<1>15. ClientLimits(c)'
    BY <1>2, <1>6, <1>8 DEF CopyInv, ClientInv, ClientLimits, Inv, Types
<1>16. Limits'
    BY <1>2 DEF CopyInv, Limits
<1>17. \A d \in Clients : d # c => UNCHANGED Mine(d)
    BY <1>2 DEF Add, Mine, Inv, Types
<1> QED
    BY <1>13, <1>14, <1>15, <1>16, <1>17, StepOf DEF ClientInv

LEMMA AddNothing ==
    ASSUME NEW B, IsABag(B)
    PROVE  B (+) SetToBag({}) = B
BY DEF IsABag, (+), SetToBag

\* The rule is applied: what it sends on is no copy for the mailbox itself,
\* and no more than the one it has just got.
LEMMA ForwardCopies ==
    ASSUME Inv, CopyInv, NEW c \in Clients, Forward(c)
    PROVE  CopyInv'
<1>1. PICK S : S = Forwards(rcpts[c][i[c]], ids[c][i[c]])
    OBVIOUS
<1>2. /\ kind[c] = "inbound" /\ pc[c] = "forward"
      /\ Add(c, S) \/ UNCHANGED copies
      /\ Advance(c, "deliver")
      /\ UNCHANGED <<kind, mail, named, tries>>
    BY <1>1 DEF Forward, Inv, Types, Serves
<1>3. PICK to \in Locals : to = rcpts[c][i[c]]
    BY <1>2, ServedIsOwn
<1>4. ASSUME NEW x, S = {x}
      PROVE  x \in Copies /\ x.by = to
  <2>1. /\ rule[ids[c][i[c]]] \in Addrs
        /\ S = Forwarded(to, rule[ids[c][i[c]]])
      BY <1>1, <1>2, <1>3, <1>4, ServedIsOwn DEF Forwards, Inv, Types
  <2>2. PICK b \in Addrs : b = rule[ids[c][i[c]]]
      BY <2>1
  <2>3. x = IF b \in Locals THEN [Stored(b, "INBOX") EXCEPT !.by = to]
            ELSE Queued(b, to)
      BY <1>4, <2>1, <2>2 DEF Forwarded
  <2> QED
      BY <2>3, CopyTypes DEF Stored, Queued
<1>5. S = {} \/ \E x : S = {x}
    BY <1>1 DEF Forwards, Forwarded
<1>6. PICK B : B = copies[c]
    OBVIOUS
<1>7. PICK N : N = copies'[c]
    OBVIOUS
<1>8. Serving(c) /\ Served(c) = i[c]
    BY <1>2 DEF Serving, Served
<1>9. /\ CopyBag(B)
      /\ \A b \in Addrs : /\ Num(B, DirectTo("inbound", b)) \in Nat
                          /\ Num(B, ByRule(b)) \in Nat
    BY <1>2, <1>6, <1>8, AtRecipient
<1>10. /\ CopyBag(N)
       /\ \A b \in Addrs :
             /\ Num(N, DirectTo("inbound", b)) = Num(B, DirectTo("inbound", b))
             /\ Num(N, ByRule(b)) <=
                    Num(B, ByRule(b)) + (IF to = b THEN 1 ELSE 0)
  <2>1. CASE N = B
      BY <1>9, <2>1
  <2>2. CASE Add(c, S) /\ S = {}
    <3>1. N = B (+) SetToBag({})
        BY <1>6, <1>7, <2>2 DEF Add, Inv, Types
    <3>2. N = B
        BY <1>9, <3>1, AddNothing DEF CopyBag
    <3> QED
        BY <2>1, <3>2
  <2>3. CASE Add(c, S) /\ \E x : S = {x}
    <3>1. PICK x : S = {x}
        BY <2>3
    <3>2. x \in Copies /\ x.by = to
        BY <1>4, <3>1
    <3>3. N = B (+) SetToBag({x})
        BY <1>6, <1>7, <2>3, <3>1 DEF Add, Inv, Types
    <3>4. CopyBag(N) /\ \A Q : Q \subseteq Copies =>
                           Num(N, Q) = Num(B, Q) + (IF x \in Q THEN 1 ELSE 0)
        BY <1>9, <3>2, <3>3, AddOne
    <3>5. ASSUME NEW b \in Addrs
          PROVE  /\ Num(N, DirectTo("inbound", b)) =
                        Num(B, DirectTo("inbound", b))
                 /\ Num(N, ByRule(b)) <=
                        Num(B, ByRule(b)) + (IF to = b THEN 1 ELSE 0)
      <4>1. x \notin DirectTo("inbound", b)
          BY <3>2, SmtpAssumption DEF DirectTo
      <4>2. x \in ByRule(b) <=> to = b
          BY <3>2 DEF ByRule
      <4>3. /\ Num(N, DirectTo("inbound", b)) = Num(B, DirectTo("inbound", b)) + 0
            /\ Num(N, ByRule(b)) = Num(B, ByRule(b)) + (IF to = b THEN 1 ELSE 0)
          BY <3>4, <4>1, <4>2, CountedSets
      <4> QED
          BY <1>9, <4>3
    <3> QED
        BY <3>4, <3>5
  <2> QED
      BY <1>2, <1>5, <1>6, <1>7, <2>1, <2>2, <2>3
<1>11. PastRecipient(c, N)
  <2>1. ASSUME NEW a \in Addrs
        PROVE  /\ promised[c][a] = 0
               /\ Cardinality(Places(rcpts[c], a, 1, i[c])) <=
                      Num(B, DirectTo("inbound", a))
               /\ Num(B, DirectTo("inbound", a))
                    + Cardinality(Places(rcpts[c], a, i[c] + 1,
                                         Len(rcpts[c]))) <= named[c][a]
      BY <1>2, <1>6, <1>8 DEF CopyInv, ClientInv, ClientOnce
  <2>2. ASSUME NEW a \in Locals
        PROVE  Num(N, ByRule(a)) <= Num(N, DirectTo("inbound", a))
    <3>1. Num(B, ByRule(a)) + (IF to = a THEN 1 ELSE 0) <=
              Num(B, DirectTo("inbound", a))
        BY <1>2, <1>3, <1>6 DEF CopyInv, ClientInv, ClientHop
    <3>2. a \in Addrs
        BY DEF Addrs
    <3>3. Num(N, ByRule(a)) \in Nat
        BY <1>10, NumIsNat, CountedSets
    <3> QED
        BY <1>9, <1>10, <3>1, <3>2, <3>3
  <2> QED
      BY <1>2, <1>10, <2>1, <2>2 DEF PastRecipient
<1>12. /\ promised' \in [Clients -> [Addrs -> Nat]]
       /\ ClientInv(c)'
    BY <1>2, <1>7, <1>8, <1>11, AdvanceStep DEF Inv, CopyInv
<1>13. Limits'
    BY <1>2, <1>12, NoVerdictType
       DEF CopyInv, Limits, Advance, Accept, Reset
<1>14. \A d \in Clients : d # c => UNCHANGED Mine(d)
    BY <1>2 DEF Advance, Accept, Reset, Add, Mine, Inv, Types, CopyInv, Limits
<1> QED
    BY <1>12, <1>13, <1>14, StepOf

\* An iteration of Sender.Send.
LEMMA SendCopies ==
    ASSUME Inv, CopyInv, NEW c \in Clients, Send(c)
    PROVE  CopyInv'
<1>1. PICK to : to = rcpts[c][i[c]]
    OBVIOUS
<1>2. PICK x : x = IF to \in Locals THEN Stored(to, "INBOX")
                   ELSE Queued(to, user[c])
    OBVIOUS
<1>3. /\ kind[c] # "inbound" /\ pc[c] = "deliver"
      /\ Add(c, {x})
      /\ Advance(c, "deliver")
      /\ UNCHANGED <<kind, mail, named, tries>>
    BY <1>1, <1>2 DEF Send
<1>4. Serving(c) /\ Served(c) = i[c] - 1
    BY <1>3 DEF Serving, Served
<1>5. user[c] \in Locals
    BY <1>3 DEF Inv, Types, Serves, MayUse
<1>6. x \in Copies /\ x.to = to /\ x.folder # "Sent"
  <2>1. to \in Addrs
      BY <1>1, <1>4, AtRecipient
  <2> QED
      BY <1>2, <1>5, <2>1, CopyTypes DEF Stored, Queued
<1>7. PICK B : B = copies[c]
    OBVIOUS
<1>8. PICK N : N = copies'[c]
    OBVIOUS
<1>9. PICK way : way = kind[c]
    OBVIOUS
<1>10. N = B (+) SetToBag({x})
    BY <1>3, <1>7, <1>8 DEF Add, Inv, Types
<1>11. CopyBag(N) /\ \A Q : Q \subseteq Copies =>
                         Num(N, Q) = Num(B, Q) + (IF x \in Q THEN 1 ELSE 0)
    BY <1>6, <1>7, <1>10, AddOne DEF CopyInv, ClientInv, ClientLimits
<1>12. PastRecipient(c, N)
  <2> SUFFICES ASSUME NEW a \in Addrs
               PROVE  /\ promised[c][a] = 0
                      /\ Cardinality(Places(rcpts[c], a, 1, i[c])) <=
                             Num(N, DirectTo(way, a))
                      /\ Num(N, DirectTo(way, a))
                           + Cardinality(Places(rcpts[c], a, i[c] + 1,
                                                Len(rcpts[c]))) <= named[c][a]
      BY <1>3, <1>9, <1>11 DEF PastRecipient
  <2>1. x \in DirectTo(way, a) <=> to = a
      BY <1>3, <1>6, <1>9 DEF DirectTo
  <2>2. Num(N, DirectTo(way, a)) =
            Num(B, DirectTo(way, a)) + (IF to = a THEN 1 ELSE 0)
      BY <1>11, <2>1, CountedSets
  <2>3. i[c] - 1 + 1 = i[c]
      BY <1>4, AtRecipient
  <2>4. /\ Cardinality(Places(rcpts[c], a, 1, i[c] - 1)) <=
               Num(B, DirectTo(way, a))
        /\ Num(B, DirectTo(way, a))
             + Cardinality(Places(rcpts[c], a, i[c], Len(rcpts[c]))) <=
               named[c][a]
      BY <1>4, <1>7, <1>9, <2>3 DEF CopyInv, ClientInv, ClientOnce
  <2>5. /\ Num(B, DirectTo(way, a)) \in Nat
        /\ named[c][a] \in Nat
        /\ promised[c][a] = 0
        /\ Cardinality(Places(rcpts[c], a, 1, i[c] - 1)) \in Nat
        /\ Cardinality(Places(rcpts[c], a, i[c] + 1, Len(rcpts[c]))) \in Nat
      BY <1>4, <1>7, <1>9, AtRecipient
  <2>6. /\ Cardinality(Places(rcpts[c], a, 1, i[c])) =
               Cardinality(Places(rcpts[c], a, 1, i[c] - 1))
                   + (IF to = a THEN 1 ELSE 0)
        /\ Cardinality(Places(rcpts[c], a, i[c], Len(rcpts[c]))) =
               Cardinality(Places(rcpts[c], a, i[c] + 1, Len(rcpts[c])))
                   + (IF to = a THEN 1 ELSE 0)
      BY <1>1, <1>4, AtRecipient
  <2> QED
      BY <2>2, <2>4, <2>5, <2>6
<1>13. /\ promised' \in [Clients -> [Addrs -> Nat]]
       /\ ClientInv(c)'
    BY <1>3, <1>4, <1>8, <1>12, AdvanceStep DEF Inv, CopyInv
<1>14. Limits'
    BY <1>3, <1>13, NoVerdictType
       DEF CopyInv, Limits, Advance, Accept, Reset
<1>15. \A d \in Clients : d # c => UNCHANGED Mine(d)
    BY <1>3 DEF Advance, Accept, Reset, Add, Mine, Inv, Types, CopyInv, Limits
<1> QED
    BY <1>13, <1>14, <1>15, StepOf

\* The copy in Sent is nobody's mail.
LEMMA SentCopyCopies ==
    ASSUME Inv, CopyInv, NEW c \in Clients, SentCopy(c)
    PROVE  CopyInv'
<1>1. PICK x : x = Stored(user[c], "Sent")
    OBVIOUS
<1>2. /\ pc[c] = "sent"
      /\ Add(c, {x}) \/ UNCHANGED copies
      /\ Reset(c)
      /\ UNCHANGED <<kind, mail, named, promised, tries>>
    BY <1>1 DEF SentCopy, history
<1>3. kind[c] = "webmail" /\ user[c] \in Locals
    BY <1>2 DEF Inv, Types, Serves, MayUse, CopyInv, ClientInv, ClientLimits
<1>4. x \in Copies /\ x.folder = "Sent"
    BY <1>1, <1>3, CopyTypes DEF Stored
<1>5. PICK B : B = copies[c]
    OBVIOUS
<1>6. PICK N : N = copies'[c]
    OBVIOUS
<1>7. CopyBag(B)
    BY <1>5 DEF CopyInv, ClientInv, ClientLimits
<1>8. CopyBag(N) /\ \A a \in Addrs : Num(N, DirectTo(kind[c], a)) =
                                        Num(B, DirectTo(kind[c], a))
  <2>1. CASE UNCHANGED copies
      BY <1>5, <1>6, <1>7, <2>1
  <2>2. CASE Add(c, {x})
    <3>1. N = B (+) SetToBag({x})
        BY <1>5, <1>6, <2>2 DEF Add, Inv, Types
    <3>2. CopyBag(N) /\ \A Q : Q \subseteq Copies =>
                           Num(N, Q) = Num(B, Q) + (IF x \in Q THEN 1 ELSE 0)
        BY <1>4, <1>7, <3>1, AddOne
    <3>3. ASSUME NEW a \in Addrs
          PROVE  Num(N, DirectTo(kind[c], a)) = Num(B, DirectTo(kind[c], a))
      <4>1. x \notin DirectTo(kind[c], a)
          BY <1>4 DEF DirectTo
      <4>2. Num(B, DirectTo(kind[c], a)) \in Nat
          BY <1>7, NumIsNat, CountedSets
      <4>3. Num(N, DirectTo(kind[c], a)) = Num(B, DirectTo(kind[c], a)) + 0
          BY <3>2, <4>1, CountedSets
      <4> QED
          BY <4>2, <4>3
    <3> QED
        BY <3>2, <3>3
  <2> QED
      BY <1>2, <2>1, <2>2
<1>9. pc'[c] = "idle" /\ rcpts'[c] = <<>>
    BY <1>2 DEF Reset, Inv, Types
<1>10. ~Serving(c) /\ ~Serving(c)'
    BY <1>2, <1>9 DEF Serving
<1>11. ClientOnce(c)'
    BY <1>2, <1>5, <1>6, <1>8, <1>10 DEF CopyInv, ClientInv, ClientOnce
<1>12. ClientLimits(c)' /\ ClientHop(c)'
    BY <1>2, <1>3, <1>6, <1>8, <1>9, SmtpAssumption
       DEF CopyInv, ClientInv, ClientLimits, ClientHop
<1>13. Limits'
    BY <1>2, NoVerdictType DEF CopyInv, Limits, Reset
<1>14. \A d \in Clients : d # c => UNCHANGED Mine(d)
    BY <1>2 DEF Reset, Add, Mine, Inv, Types
<1> QED
    BY <1>11, <1>12, <1>13, <1>14, StepOf DEF ClientInv

-----------------------------------------------------------------------------

LEMMA InitCopies == Init => CopyInv
<1> SUFFICES ASSUME Init PROVE CopyInv
    OBVIOUS
<1>1. Limits
    BY NoVerdictType, SmtpAssumption DEF Init, Limits, Verdicts
<1> SUFFICES ASSUME NEW c \in Clients
             PROVE  ClientInv(c)
    BY <1>1 DEF CopyInv
<1>2. pc[c] = "idle" /\ rcpts[c] = <<>> /\ copies[c] = EmptyBag
    BY DEF Init
<1>3. \A a \in Addrs : named[c][a] = 0 /\ promised[c][a] = 0
    BY DEF Init
<1>4. \A Q : Tokens(EmptyBag, Q) = {}
    BY DEF Tokens, EmptyBag, SetToBag
<1>5. \A Q : Num(copies[c], Q) = 0
    BY <1>2, <1>4, FS_EmptySet DEF Num
<1>6. CopyBag(copies[c])
    BY <1>2, <1>4, FS_EmptySet DEF CopyBag, EmptyBag, SetToBag, IsABag, BagToSet
<1>7. MaxRcpts * tries[c] = 0
    BY SmtpAssumption DEF Init
<1>8. ClientLimits(c)
    BY <1>2, <1>3, <1>6, <1>7, SmtpAssumption DEF ClientLimits
<1>9. ClientOnce(c)
    BY <1>2, <1>3, <1>5 DEF ClientOnce, Serving
<1>10. ClientHop(c)
    BY <1>2, <1>5 DEF ClientHop
<1> QED
    BY <1>8, <1>9, <1>10 DEF ClientInv

LEMMA CopyInvariant == Spec => [](Inv /\ CopyInv)
<1>1. Inv /\ CopyInv /\ [Next]_vars => CopyInv'
  <2> SUFFICES ASSUME Inv, CopyInv, [Next]_vars PROVE CopyInv'
      OBVIOUS
  <2>1. ASSUME NEW c \in Clients,
               \/ Auth(c) \/ Mail(c) \/ Rcpt(c) \/ RSET(c) \/ Data(c)
               \/ Compose(c) \/ DeliverTo(c) \/ Forward(c) \/ Send(c)
               \/ DeliveryFails(c) \/ SentCopy(c)
        PROVE  CopyInv'
      BY <2>1, ElsewhereCopies, QuietCopies, BeginCopies, DeliverToCopies,
         ForwardCopies, SendCopies, SentCopyCopies
  <2>2. ASSUME CreateUser \/ DeleteUser \/ SetForwarding \/ Restart
        PROVE  CopyInv'
      BY <2>2, ElsewhereCopies, RestartCopies
  <2>3. CASE UNCHANGED vars
      BY <2>3, ElsewhereCopies
  <2> QED
      BY <2>1, <2>2, <2>3 DEF Next
<1> QED
    BY <1>1, InitCopies, SmtpInvariant, PTL DEF Spec

\* What the properties count, in the terms of the invariant.
LEMMA Counted ==
    ASSUME CopyInv, NEW c \in Clients, NEW a
    PROVE  /\ Count(c, Direct(c, a)) = Num(copies[c], DirectTo(kind[c], a))
           /\ Count(c, {x \in BagToSet(copies[c]) : x.by = a}) =
                  Num(copies[c], ByRule(a))
<1>1. BagToSet(copies[c]) \subseteq Copies
    BY DEF CopyInv, ClientInv, ClientLimits, CopyBag
<1>2. /\ Direct(c, a) = DOMAIN copies[c] \cap DirectTo(kind[c], a)
      /\ {x \in BagToSet(copies[c]) : x.by = a} = DOMAIN copies[c] \cap ByRule(a)
    BY <1>1 DEF Direct, DirectTo, ByRule, BagToSet
<1> QED
    BY <1>2 DEF Count, Num, Tokens

\* Whoever a 250 was about has the message, once for each time he was named in
\* the transaction, and nobody has it more often than the client named him: for
\* any number of recipients, repeated transactions, failures and stops (the
\* loops of inbound.go:101 and mailsend.go:52).
THEOREM SmtpDeliversOnce == Spec => []DeliveredOnce
<1>1. ASSUME Inv, CopyInv
      PROVE  DeliveredOnce
  <2> SUFFICES ASSUME NEW c \in Clients, NEW a \in Addrs
               PROVE  /\ promised[c][a] <= Count(c, Direct(c, a))
                      /\ Count(c, Direct(c, a)) <= named[c][a]
      BY DEF DeliveredOnce
  <2> DEFINE D == Num(copies[c], DirectTo(kind[c], a))
  <2>1. Count(c, Direct(c, a)) = D
      BY <1>1, Counted
  <2>2. promised[c][a] <= D
      BY <1>1 DEF CopyInv, ClientInv, ClientOnce
  <2>3. CASE ~Serving(c)
      BY <1>1, <2>1, <2>2, <2>3 DEF CopyInv, ClientInv, ClientOnce
  <2>4. CASE Serving(c)
    <3>1. Served(c) \in Int /\ Len(rcpts[c]) \in Int /\ Served(c) + 1 \in Int
        BY <1>1, <2>4, AtRecipient DEF Served
    <3>2. Cardinality(Places(rcpts[c], a, Served(c) + 1, Len(rcpts[c]))) \in Nat
        BY <1>1, <2>4, <3>1, AtRecipient, PlacesFinite
    <3>3. D + Cardinality(Places(rcpts[c], a, Served(c) + 1, Len(rcpts[c])))
              <= named[c][a]
        BY <1>1, <2>4 DEF CopyInv, ClientInv, ClientOnce
    <3>4. D \in Nat /\ named[c][a] \in Nat
        BY <1>1, <2>4, AtRecipient
    <3> HIDE DEF D
    <3>5. D <= named[c][a]
        BY <3>2, <3>3, <3>4
    <3> QED
        BY <2>1, <2>2, <3>5
  <2> QED
      BY <2>3, <2>4
<1> QED
    BY <1>1, CopyInvariant, PTL

\* Forwarding is a single hop (inbound.go:131), whatever rules are set while a
\* message is forwarded: a mailbox sends on no more than was sent to it.
THEOREM SmtpForwardsOnce == Spec => []SingleHop
<1>1. ASSUME Inv, CopyInv
      PROVE  SingleHop
  <2> SUFFICES ASSUME NEW c \in Clients, NEW a \in Locals, kind[c] = "inbound"
               PROVE  Count(c, {x \in BagToSet(copies[c]) : x.by = a}) <=
                          Count(c, Direct(c, a))
      BY DEF SingleHop
  <2> DEFINE D == Num(copies[c], DirectTo(kind[c], a))
             R == Num(copies[c], ByRule(a))
  <2>1. R \in Nat /\ D \in Nat
      BY <1>1, NumIsNat, CountedSets DEF CopyInv, ClientInv, ClientLimits
  <2>2. R + (IF pc[c] = "forward" /\ rcpts[c][i[c]] = a THEN 1 ELSE 0) <= D
      BY <1>1 DEF CopyInv, ClientInv, ClientHop
  <2>3. /\ Count(c, {x \in BagToSet(copies[c]) : x.by = a}) = R
        /\ Count(c, Direct(c, a)) = D
      BY <1>1, Counted
  <2> HIDE DEF D, R
  <2> QED
      BY <2>1, <2>2, <2>3
<1> QED
    BY <1>1, CopyInvariant, PTL

\* Type correctness: no handler indexes beyond its recipients, every account
\* and rule has an id of its own, and the counts stay within their bounds.
THEOREM SmtpTypeCorrect == Spec => []TypeOK
<1>1. ASSUME Inv, CopyInv, DeliveredOnce
      PROVE  TypeOK
  <2>1. ASSUME NEW c \in Clients, NEW a \in Addrs
        PROVE  /\ named[c][a] \in 0..(MaxRcpts * MaxTries)
               /\ promised[c][a] \in 0..(MaxRcpts * MaxTries)
    <3>1. /\ tries[c] \in 0..MaxTries /\ MaxRcpts \in Nat /\ MaxTries \in Nat
          /\ named[c][a] \in Nat /\ promised[c][a] \in Nat
          /\ named[c][a] <= MaxRcpts * tries[c]
        BY <1>1, SmtpAssumption DEF CopyInv, Limits, ClientInv, ClientLimits
    <3>2. PICK k \in Nat : MaxTries = tries[c] + k
      <4>1. MaxTries - tries[c] \in Nat /\ MaxTries = tries[c] + (MaxTries - tries[c])
          BY <3>1
      <4> QED
          BY <4>1
    <3>3. MaxRcpts * MaxTries = MaxRcpts * tries[c] + MaxRcpts * k
        BY <3>1, <3>2
    <3>4. MaxRcpts * tries[c] \in Nat /\ MaxRcpts * k \in Nat
        BY <3>1, <3>2
    <3> DEFINE p == MaxRcpts * tries[c]
               q == MaxRcpts * k
               n == Count(c, Direct(c, a))
    <3>5. n \in Nat
      <4>1. CopyBag(copies[c])
          BY <1>1 DEF CopyInv, ClientInv, ClientLimits
      <4>2. n = Num(copies[c], DirectTo(kind[c], a))
          BY <1>1, Counted
      <4>3. Num(copies[c], DirectTo(kind[c], a)) \in Nat
          BY <4>1, NumIsNat, CountedSets
      <4> QED
          BY <4>2, <4>3
    <3>6. promised[c][a] <= n /\ n <= named[c][a]
        BY <1>1 DEF DeliveredOnce
    <3>7. /\ MaxRcpts * MaxTries = p + q /\ p \in Nat /\ q \in Nat
          /\ named[c][a] <= p
        BY <3>1, <3>3, <3>4
    <3> HIDE DEF p, q, n
    <3> QED
        BY <3>1, <3>5, <3>6, <3>7
  <2>2. \A c \in Clients : named[c] \in Tallies /\ promised[c] \in Tallies
      BY <1>1, <2>1 DEF CopyInv, Limits, Tallies
  <2>3. {named[c] : c \in Clients} \cup {promised[c] : c \in Clients} \subseteq
            Tallies
      BY <2>2
  <2>4. \A c \in Clients :
            /\ open[c] \in BOOLEAN
            /\ rcpts[c] \in Seq(Addrs) /\ Len(rcpts[c]) <= MaxRcpts
            /\ ids[c] \in Seq(Ids)
            /\ pc[c] \in {"idle", "deliver", "forward", "sent"}
            /\ pc[c] # "idle" => i[c] \in 1..Len(rcpts[c])
            /\ IsABag(copies[c]) /\ BagToSet(copies[c]) \subseteq Copies
      BY <1>1 DEF Inv, Types, Serves, CopyInv, ClientInv, ClientLimits, CopyBag
  <2> QED
      BY <1>1, <2>3, <2>4 DEF TypeOK, Inv, Types, OwnId, CopyInv, Limits
<1> QED
    BY <1>1, CopyInvariant, SmtpDeliversOnce, PTL

-----------------------------------------------------------------------------
(* The verdict of DMARC.  The walk over the labels of a domain is a         *)
(* recursive function; what it computes for domains of any length is shown  *)
(* by the least, or greatest, number of labels at which something happens.  *)

\* A set of numbers has a least one: induction over the numbers of labels.
LEMMA LeastOf ==
    ASSUME NEW T \in SUBSET Nat, T # {}
    PROVE  \E n \in T : \A m \in T : n <= m
<1>1. PICK n \in T : \A m \in T : <<m, n>> \notin OpToRel(<, Nat)
    BY WFMin, NatLessThanWellFounded, Zenon
<1>2. \A m \in T : ~(m < n)
    BY <1>1, Zenon DEF OpToRel
<1> QED
    BY <1>2

\* A set of numbers up to N has a greatest one.
LEMMA GreatestOf ==
    ASSUME NEW N \in Nat, NEW T \in SUBSET (1..N), T # {}
    PROVE  \E n \in T : \A m \in T : m <= n
<1> DEFINE U == {k \in Nat : N - k \in T}
<1>1. U # {}
  <2>1. PICK t \in T : TRUE
      OBVIOUS
  <2>2. N - t \in U
      BY <2>1
  <2> QED
      BY <2>2
<1> HIDE DEF U
<1>2. PICK k \in U : \A l \in U : k <= l
    BY <1>1, LeastOf DEF U
<1>3. N - k \in T /\ k \in Nat
    BY DEF U
<1>4. ASSUME NEW m \in T PROVE m <= N - k
  <2>1. N - m \in U
      BY DEF U
  <2>2. k <= N - m
      BY <1>2, <2>1
  <2> QED
      BY <1>3, <2>2
<1> QED
    BY <1>3, <1>4

\* The domain that d lies in and that has n labels.
LEMMA EndingLabels ==
    ASSUME NEW d \in Domains, NEW n \in 1..Len(d)
    PROVE  /\ Ending(d, n) \in Seq(STRING) /\ Ending(d, n) # <<>>
           /\ Len(Ending(d, n)) = n
           /\ \A j \in 1..n : Ending(d, n)[j] = d[Len(d) - n + j]
<1>1. d \in Seq(STRING) /\ Len(d) \in Nat
    BY DmarcAssumption
<1> DEFINE k == Len(d) - n + 1
<1>2. k \in 1..Len(d) /\ Len(d) - k + 1 = n
    BY <1>1
<1>3. \A j \in k..Len(d) : d[j] \in STRING
    BY <1>1, <1>2
<1>4. /\ Ending(d, n) \in Seq(STRING)
      /\ Len(Ending(d, n)) = n
      /\ \A j \in 1..n : Ending(d, n)[j] = d[k + j - 1]
  <2> HIDE DEF k
  <2>1. Ending(d, n) = SubSeq(d, k, Len(d))
      BY DEF Ending, k
  <2> QED
      BY <1>1, <1>2, <1>3, <2>1, SubSeqProperties
<1> QED
    BY <1>1, <1>4

\* What a domain above d lies in, d lies in.
LEMMA EndingOfEnding ==
    ASSUME NEW d \in Domains, NEW n \in 1..Len(d), NEW m \in 1..n
    PROVE  Ending(Ending(d, n), m) = Ending(d, m)
<1>1. d \in Seq(STRING) /\ Len(d) \in Nat
    BY DmarcAssumption
<1>2. Len(Ending(d, n)) = n
    BY EndingLabels
<1> DEFINE first == Len(d) - n + 1
           last == Len(d)
           k == n - m + 1
<1>3. /\ first \in 1..Len(d) /\ last \in 1..Len(d)
      /\ k \in 1..last - first + 1 /\ n \in 1..last - first + 1
      /\ first + k - 1 = Len(d) - m + 1 /\ first + n - 1 = Len(d)
    BY <1>1
<1> HIDE DEF first, last, k
<1>4. SubSeq(SubSeq(d, first, last), k, n) =
          SubSeq(d, first + k - 1, first + n - 1)
    BY <1>1, <1>3, SubSeqOfSubSeq
<1> QED
    BY <1>2, <1>3, <1>4 DEF Ending, first, last, k

\* A domain has a label, and is the one of as many labels that it lies in.
LEMMA WholeEnding ==
    ASSUME NEW d \in Domains
    PROVE  /\ Len(d) \in Nat \ {0} /\ Ending(d, Len(d)) = d
           /\ d \in Seq(STRING) \ {<<>>}
<1>1. d \in Seq(STRING) \ {<<>>}
    BY DmarcAssumption
<1>2. Len(d) \in Nat \ {0}
    BY <1>1, EmptySeq
<1>3. SubSeq(d, 1, Len(d)) = d
    BY <1>1, SubSeqFull
<1> QED
    BY <1>1, <1>2, <1>3 DEF Ending

\* With a domain all those above it are domains.
LEMMA EndingInDomains ==
    ASSUME NEW d \in Domains, NEW n \in 1..Len(d)
    PROVE  Ending(d, n) \in Domains
<1> DEFINE T == {k \in Nat : k < Len(d) /\ Ending(d, Len(d) - k) \notin Domains}
<1>1. Len(d) \in Nat \ {0} /\ d \in Seq(STRING) /\ Ending(d, Len(d)) = d
    BY WholeEnding
<1>2. T = {}
  <2> SUFFICES ASSUME T # {} PROVE FALSE
      OBVIOUS
  <2>1. PICK k \in T : \A l \in T : k <= l
      BY LeastOf
  <2>2. k # 0
      BY <1>1, <2>1
  <2> DEFINE m == Len(d) - k
  <2>3. m \in 1..Len(d) /\ m + 1 \in 1..Len(d)
      BY <1>1, <2>1, <2>2
  <2>4. k - 1 \notin T
      BY <1>1, <2>1, <2>2
  <2>5. Ending(d, m + 1) \in Domains
      BY <1>1, <2>1, <2>2, <2>4
  <2>6. Len(Ending(d, m + 1)) = m + 1
      BY <2>3, EndingLabels
  <2>7. Tail(Ending(d, m + 1)) \in Domains
      BY <2>3, <2>5, <2>6, DmarcAssumption
  <2>8. Tail(Ending(d, m + 1)) = Ending(d, m)
    <3> DEFINE first == Len(d) - (m + 1) + 1
    <3>1. /\ first \in 1..Len(d) /\ first + 1 = Len(d) - m + 1
          /\ Len(d) \in first..Len(d)
        BY <1>1, <2>3
    <3> HIDE DEF first
    <3>2. Tail(SubSeq(d, first, Len(d))) = SubSeq(d, first + 1, Len(d))
        BY <1>1, <3>1, HeadTailOfSubSeq
    <3> QED
        BY <3>1, <3>2 DEF Ending, first
  <2> QED
      BY <2>1, <2>7, <2>8
<1>3. Len(d) - n \in Nat /\ Len(d) - n < Len(d) /\ Len(d) - (Len(d) - n) = n
    BY <1>1
<1> QED
    BY <1>2, <1>3

\* The longest public suffix that d ends in has n labels.
IsPublic(d, n) ==
    /\ n \in 1..Len(d) /\ Ending(d, n) \in Suffixes
    /\ \A m \in 1..Len(d) : Ending(d, m) \in Suffixes => m <= n

\* Each domain lies in a public suffix: its last label is one.
LEMMA HasPublic ==
    ASSUME NEW d \in Domains
    PROVE  \E n \in 1..Len(d) : IsPublic(d, n)
<1> DEFINE T == {n \in 1..Len(d) : Ending(d, n) \in Suffixes}
<1>1. Len(d) \in Nat \ {0}
    BY WholeEnding
<1>2. Ending(d, 1) \in Domains /\ Len(Ending(d, 1)) = 1
  <2>1. 1 \in 1..Len(d)
      BY <1>1
  <2> QED
      BY <2>1, EndingInDomains, EndingLabels
<1>3. 1 \in T
    BY <1>1, <1>2, DmarcAssumption
<1>4. PICK n \in T : \A m \in T : m <= n
    BY <1>1, <1>3, GreatestOf
<1> QED
    BY <1>4 DEF IsPublic

\* The domain that publicsuffix.EffectiveTLDPlusOne finds.
LEMMA OrganizationOf ==
    ASSUME NEW d \in Domains, NEW n, IsPublic(d, n)
    PROVE  EffectiveTLDPlusOne(d) =
               IF n = Len(d) THEN NoDomain ELSE Ending(d, n + 1)
<1>1. Len(d) \in Nat \ {0} /\ Ending(d, Len(d)) = d
    BY WholeEnding
<1>2. n \in 1..Len(d) /\ (d \in Suffixes <=> n = Len(d))
    BY <1>1 DEF IsPublic
<1> DEFINE Longest(s) == \A t \in Above(d) \cap Suffixes : Len(t) <= Len(s)
           longest == CHOOSE s \in Above(d) \cap Suffixes : Longest(s)
<1>3. Ending(d, n) \in Above(d) \cap Suffixes /\ Longest(Ending(d, n))
    BY <1>2, EndingLabels DEF Above, IsPublic
<1>4. longest \in Above(d) \cap Suffixes /\ Longest(longest)
  <2> HIDE DEF Longest
  <2> QED
      BY <1>3
<1>5. Len(longest) = n
  <2> HIDE DEF longest
  <2>1. PICK m \in 1..Len(d) : longest = Ending(d, m)
      BY <1>4 DEF Above
  <2>2. Len(longest) = m /\ Ending(d, m) \in Suffixes
      BY <1>4, <2>1, EndingLabels
  <2>3. m <= n
      BY <1>2, <2>2 DEF IsPublic
  <2>4. n <= m
      BY <1>2, <1>3, <1>4, <2>2, EndingLabels
  <2> QED
      BY <1>1, <1>2, <2>2, <2>3, <2>4
<1>6. EffectiveTLDPlusOne(d) =
          IF d \in Suffixes THEN NoDomain ELSE Ending(d, Len(longest) + 1)
    BY DEF EffectiveTLDPlusOne
<1> QED
    BY <1>2, <1>5, <1>6

\* What the holder of d holds.
LEMMA HeldOf ==
    ASSUME NEW d \in Domains, NEW n, IsPublic(d, n)
    PROVE  HeldAbove(d) = {Ending(d, m) : m \in n + 1..Len(d)}
<1>1. Len(d) \in Nat \ {0} /\ n \in 1..Len(d) /\ Ending(d, n) \in Suffixes
    BY WholeEnding DEF IsPublic
<1>2. ASSUME NEW m \in 1..Len(d)
      PROVE  (\A s \in Above(d) \cap Suffixes : Len(Ending(d, m)) > Len(s))
             <=> m > n
  <2>1. Len(Ending(d, m)) = m /\ Len(Ending(d, n)) = n
      BY <1>1, EndingLabels
  <2>2. ASSUME NEW s \in Above(d) \cap Suffixes PROVE Len(s) \in 1..n
    <3>1. PICK k \in 1..Len(d) : s = Ending(d, k)
        BY DEF Above
    <3> QED
        BY <3>1, EndingLabels DEF IsPublic
  <2>3. Ending(d, n) \in Above(d) \cap Suffixes
      BY <1>1 DEF Above
  <2> QED
      BY <1>1, <2>1, <2>2, <2>3
<1>3. HeldAbove(d) = {a \in Above(d) :
                         \A s \in Above(d) \cap Suffixes : Len(a) > Len(s)}
    BY DEF HeldAbove
<1>4. ASSUME NEW a \in HeldAbove(d)
      PROVE  a \in {Ending(d, m) : m \in n + 1..Len(d)}
  <2>1. PICK m \in 1..Len(d) : a = Ending(d, m)
      BY <1>3 DEF Above
  <2>2. m > n
      BY <1>2, <1>3, <2>1
  <2> QED
      BY <1>1, <2>1, <2>2
<1>5. ASSUME NEW m \in n + 1..Len(d) PROVE Ending(d, m) \in HeldAbove(d)
  <2>1. m \in 1..Len(d) /\ m > n
      BY <1>1
  <2> QED
      BY <1>2, <1>3, <2>1 DEF Above
<1> QED
    BY <1>4, <1>5

\* Of two domains that end alike, with more labels than a public suffix of the
\* first, the second has no longer public suffix.
LEMMA SharedPublic ==
    ASSUME NEW d \in Domains, NEW e \in Domains, NEW n, IsPublic(d, n),
           NEW k, IsPublic(e, k), NEW m \in n + 1..Len(d), m \in k + 1..Len(e),
           Ending(d, m) = Ending(e, m)
    PROVE  n <= k
<1>1. /\ Len(d) \in Nat \ {0} /\ n \in 1..Len(d) /\ Ending(d, n) \in Suffixes
      /\ Len(e) \in Nat \ {0} /\ k \in 1..Len(e)
    BY WholeEnding DEF IsPublic
<1>2. m \in 1..Len(d) /\ m \in 1..Len(e) /\ n \in 1..m /\ n \in 1..Len(e)
    BY <1>1
<1>3. Ending(e, n) = Ending(d, n)
    BY <1>2, EndingOfEnding
<1> QED
    BY <1>1, <1>2, <1>3 DEF IsPublic

\* Relaxed alignment finds those that are held by the same holder.
LEMMA AlignedHolders ==
    ASSUME NEW d \in Domains, NEW e \in Domains
    PROVE  SameHolder(d, e) <=>
               /\ EffectiveTLDPlusOne(d) # NoDomain
               /\ EffectiveTLDPlusOne(d) = EffectiveTLDPlusOne(e)
<1>1. PICK n \in 1..Len(d) : IsPublic(d, n)
    BY HasPublic
<1>2. PICK k \in 1..Len(e) : IsPublic(e, k)
    BY HasPublic
<1>3. Len(d) \in Nat \ {0} /\ Len(e) \in Nat \ {0}
    BY WholeEnding
<1>4. /\ EffectiveTLDPlusOne(d) =
             IF n = Len(d) THEN NoDomain ELSE Ending(d, n + 1)
      /\ EffectiveTLDPlusOne(e) =
             IF k = Len(e) THEN NoDomain ELSE Ending(e, k + 1)
    BY <1>1, <1>2, OrganizationOf
<1>5. /\ HeldAbove(d) = {Ending(d, m) : m \in n + 1..Len(d)}
      /\ HeldAbove(e) = {Ending(e, m) : m \in k + 1..Len(e)}
    BY <1>1, <1>2, HeldOf
<1>6. /\ n # Len(d) => n + 1 \in 1..Len(d) /\ Ending(d, n + 1) # NoDomain
      /\ k # Len(e) => k + 1 \in 1..Len(e) /\ Ending(e, k + 1) # NoDomain
  <2>1. /\ n # Len(d) => n + 1 \in 1..Len(d)
        /\ k # Len(e) => k + 1 \in 1..Len(e)
      BY <1>3
  <2> QED
      BY <2>1, EndingLabels DEF NoDomain
<1>7. ASSUME EffectiveTLDPlusOne(d) # NoDomain,
             EffectiveTLDPlusOne(d) = EffectiveTLDPlusOne(e)
      PROVE  SameHolder(d, e)
  <2>1. n # Len(d) /\ k # Len(e) /\ Ending(d, n + 1) = Ending(e, k + 1)
      BY <1>4, <1>6, <1>7
  <2>2. n + 1 \in n + 1..Len(d) /\ k + 1 \in k + 1..Len(e)
      BY <1>3, <2>1
  <2> QED
      BY <1>5, <2>1, <2>2 DEF SameHolder
<1>8. ASSUME SameHolder(d, e)
      PROVE  /\ EffectiveTLDPlusOne(d) # NoDomain
             /\ EffectiveTLDPlusOne(d) = EffectiveTLDPlusOne(e)
  <2>1. PICK m \in n + 1..Len(d), l \in k + 1..Len(e) :
            Ending(d, m) = Ending(e, l)
      BY <1>5, <1>8 DEF SameHolder
  <2>2. m \in 1..Len(d) /\ l \in 1..Len(e)
      BY <1>3
  <2>3. m = l
      BY <2>1, <2>2, EndingLabels
  <2>4. n <= k
      BY <1>1, <1>2, <2>1, <2>3, SharedPublic
  <2>5. k <= n
      BY <1>1, <1>2, <2>1, <2>3, SharedPublic
  <2>6. n = k /\ n # Len(d) /\ k # Len(e) /\ n + 1 \in 1..m
      BY <1>3, <2>3, <2>4, <2>5
  <2>7. Ending(d, n + 1) = Ending(e, k + 1)
      BY <2>1, <2>2, <2>3, <2>6, EndingOfEnding
  <2> QED
      BY <1>4, <1>6, <2>6, <2>7
<1> QED
    BY <1>7, <1>8

-----------------------------------------------------------------------------

\* The walk ends at the domain with n labels.
Ends(dns, from, n) ==
    n = 1 \/ dns[Ending(from, n)] # ErrNoPolicy
          \/ Ending(from, n) = Organization(from)

\* What it has found there.
Found(dns, from, n) ==
    IF dns[Ending(from, n)] # ErrNoPolicy THEN Ending(from, n) ELSE NoDomain

IsWalk(w, dns, from) ==
    w = [n \in 1..Len(from) |-> IF Ends(dns, from, n) THEN Found(dns, from, n)
                                ELSE w[n - 1]]

\* From each number of labels on, the walk ends somewhere: at one label at last.
LEMMA EndOf ==
    ASSUME NEW dns, NEW from \in Domains, NEW n \in 1..Len(from)
    PROVE  \E m \in 1..n : /\ Ends(dns, from, m)
                           /\ \A k \in m + 1..n : ~Ends(dns, from, k)
<1> DEFINE T == {m \in 1..n : Ends(dns, from, m)}
<1>1. Len(from) \in Nat /\ n \in Nat \ {0}
    BY WholeEnding
<1>2. 1 \in T
    BY <1>1 DEF Ends
<1>3. PICK m \in T : \A k \in T : k <= m
    BY <1>1, <1>2, GreatestOf
<1>4. \A k \in m + 1..n : k \notin T
    BY <1>1, <1>3
<1> QED
    BY <1>1, <1>3, <1>4

\* There is a function that satisfies the equation of the walk: it has at n what
\* is found at the first end of the walk from n on.
LEMMA WalkExists ==
    ASSUME NEW dns, NEW from \in Domains
    PROVE  \E w : IsWalk(w, dns, from)
<1> DEFINE Last(n, m) == /\ m \in 1..n /\ Ends(dns, from, m)
                         /\ \A k \in m + 1..n : ~Ends(dns, from, k)
           last == [n \in 1..Len(from) |-> CHOOSE m : Last(n, m)]
           w == [n \in 1..Len(from) |-> Found(dns, from, last[n])]
<1>1. Len(from) \in Nat
    BY WholeEnding
<1>2. ASSUME NEW n \in 1..Len(from) PROVE Last(n, last[n])
  <2>1. \E m : Last(n, m)
      BY EndOf
  <2> HIDE DEF Last
  <2> QED
      BY <2>1
<1>3. ASSUME NEW n \in 1..Len(from), NEW m, Last(n, m) PROVE last[n] = m
  <2> HIDE DEF last
  <2>1. Last(n, last[n])
      BY <1>2
  <2> QED
      BY <1>1, <1>3, <2>1
<1> HIDE DEF last
<1>4. ASSUME NEW n \in 1..Len(from), Ends(dns, from, n)
      PROVE  w[n] = Found(dns, from, n)
  <2>1. Last(n, n)
      BY <1>1, <1>4
  <2> QED
      BY <1>3, <2>1
<1>5. ASSUME NEW n \in 1..Len(from), ~Ends(dns, from, n)
      PROVE  w[n] = w[n - 1]
  <2>1. n # 1 /\ n - 1 \in 1..Len(from)
      BY <1>1, <1>5 DEF Ends
  <2>2. Last(n - 1, last[n - 1])
      BY <1>2, <2>1
  <2>3. \A k \in last[n - 1] + 1..n : k = n \/ k \in last[n - 1] + 1..n - 1
      BY <1>1, <2>2
  <2>4. Last(n, last[n - 1])
      BY <1>1, <1>5, <2>2, <2>3
  <2>5. last[n] = last[n - 1]
      BY <1>3, <2>4
  <2> QED
      BY <2>1, <2>5
<1>6. \A n \in 1..Len(from) :
          w[n] = IF Ends(dns, from, n) THEN Found(dns, from, n) ELSE w[n - 1]
    BY <1>4, <1>5
<1>7. IsWalk(w, dns, from)
  <2>1. w = [n \in 1..Len(from) |-> w[n]]
      OBVIOUS
  <2> HIDE DEF w
  <2> QED
      BY <1>6, <2>1 DEF IsWalk
<1> QED
    BY <1>7

\* So the recursive definition of the walk defines one.
LEMMA WalkIsWalk ==
    ASSUME NEW dns, NEW from \in Domains
    PROVE  IsWalk(Walk(dns, from), dns, from)
<1> DEFINE IsW(w) ==
        w = [n \in 1..Len(from) |->
                IF dns[Ending(from, n)] # ErrNoPolicy THEN Ending(from, n)
                ELSE IF Ending(from, n) = Organization(from) \/ n = 1
                     THEN NoDomain
                     ELSE w[n - 1]]
<1>1. ASSUME NEW w PROVE IsWalk(w, dns, from) <=> IsW(w)
    BY DEF IsWalk, Ends, Found
<1>2. Walk(dns, from) = CHOOSE w : IsW(w)
    BY DEF Walk
<1>3. \E w : IsW(w)
    BY <1>1, WalkExists
<1>4. IsW(CHOOSE w : IsW(w))
  <2> HIDE DEF IsW
  <2> QED
      BY <1>3
<1> QED
    BY <1>1, <1>2, <1>4

\* The walk from the domain itself finds what the last of its steps finds.
LEMMA LookupEnds ==
    ASSUME NEW dns, NEW from \in Domains, NEW m \in 1..Len(from),
           Ends(dns, from, m), \A k \in m + 1..Len(from) : ~Ends(dns, from, k)
    PROVE  LookupDomain(dns, from) = Found(dns, from, m)
<1> DEFINE w == Walk(dns, from)
           T == {n \in Nat : n \in m..Len(from) /\ w[n] # Found(dns, from, m)}
<1>1. Len(from) \in Nat /\ m \in Nat \ {0}
    BY WholeEnding
<1>2. \A n \in 1..Len(from) :
          w[n] = IF Ends(dns, from, n) THEN Found(dns, from, n) ELSE w[n - 1]
  <2> HIDE DEF w
  <2>1. IsWalk(w, dns, from)
      BY WalkIsWalk DEF w
  <2> QED
      BY <2>1 DEF IsWalk
<1>3. T = {}
  <2> SUFFICES ASSUME T # {} PROVE FALSE
      OBVIOUS
  <2> HIDE DEF w
  <2>1. PICK n \in T : \A l \in T : n <= l
      BY LeastOf
  <2>2. n # m
      BY <1>2, <2>1
  <2>3. n - 1 \in m..Len(from) /\ n \in m + 1..Len(from) /\ n \in 1..Len(from)
      BY <1>1, <2>1, <2>2
  <2>4. w[n - 1] = Found(dns, from, m)
      BY <1>1, <2>1, <2>3
  <2> QED
      BY <1>2, <2>1, <2>3, <2>4
<1>4. Len(from) \in m..Len(from)
    BY <1>1
<1> QED
    BY <1>1, <1>3, <1>4 DEF LookupDomain

\* The walk finds the domain whose answer counts.
LEMMA LookupIsClosest ==
    ASSUME NEW dns, NEW from \in Domains
    PROVE  LET l == LookupDomain(dns, from) IN
           /\ l # NoDomain => /\ l \in MayAnswer(from)
                              /\ dns[l] # ErrNoPolicy
                              /\ \A e \in MayAnswer(from) :
                                     Len(e) > Len(l) => dns[e] = ErrNoPolicy
           /\ l = NoDomain => \A e \in MayAnswer(from) : dns[e] = ErrNoPolicy
<1> DEFINE l == LookupDomain(dns, from)
<1>1. Len(from) \in Nat \ {0} /\ Ending(from, Len(from)) = from
    BY WholeEnding
<1>2. PICK n \in 1..Len(from) : IsPublic(from, n)
    BY HasPublic
<1>3. PICK m \in 1..Len(from) :
          /\ Ends(dns, from, m)
          /\ \A k \in m + 1..Len(from) : ~Ends(dns, from, k)
  <2>1. Len(from) \in 1..Len(from)
      BY <1>1
  <2> QED
      BY <2>1, EndOf
<1>4. l = Found(dns, from, m)
    BY <1>3, LookupEnds
<1>5. Ending(from, m) # NoDomain /\ Len(Ending(from, m)) = m
    BY EndingLabels DEF NoDomain
<1>6. HeldAbove(from) = {Ending(from, k) : k \in n + 1..Len(from)}
    BY <1>2, HeldOf
<1>7. Organization(from) =
          Ending(from, IF n = Len(from) THEN Len(from) ELSE n + 1)
  <2>1. n # Len(from) => n + 1 \in 1..Len(from)
      BY <1>1
  <2>2. n # Len(from) => Ending(from, n + 1) # NoDomain
      BY <2>1, EndingLabels DEF NoDomain
  <2> QED
      BY <1>1, <1>2, <2>2, OrganizationOf DEF Organization
<1>8. m = Len(from) \/ m \in n + 1..Len(from)
  <2> SUFFICES ASSUME m # Len(from), ~(m >= n + 1) PROVE FALSE
      BY <1>1
  <2> DEFINE k == IF n = Len(from) THEN Len(from) ELSE n + 1
  <2>1. k \in m + 1..Len(from)
      BY <1>1
  <2>2. Ends(dns, from, k)
      BY <1>7 DEF Ends
  <2> QED
      BY <1>3, <2>1, <2>2
<1>9. Ending(from, m) \in MayAnswer(from)
    BY <1>1, <1>6, <1>8 DEF MayAnswer
<1>10. ASSUME NEW e \in MayAnswer(from)
       PROVE  /\ Len(e) > m => dns[e] = ErrNoPolicy
              /\ Len(e) = m => e = Ending(from, m)
              /\ Len(e) < m => dns[Ending(from, m)] # ErrNoPolicy
  <2>1. PICK k \in 1..Len(from) :
            e = Ending(from, k) /\ (k = Len(from) \/ k \in n + 1..Len(from))
    <3>1. CASE e = from
        BY <1>1, <3>1
    <3>2. CASE e \in HeldAbove(from)
      <4>1. PICK k \in n + 1..Len(from) : e = Ending(from, k)
          BY <1>6, <3>2
      <4>2. k \in 1..Len(from)
          BY <1>1
      <4> QED
          BY <4>1, <4>2
    <3> QED
        BY <3>1, <3>2 DEF MayAnswer
  <2>2. Len(e) = k
      BY <2>1, EndingLabels
  <2>3. ASSUME k > m PROVE dns[e] = ErrNoPolicy
    <3>1. k \in m + 1..Len(from)
        BY <1>1, <2>3
    <3> QED
        BY <1>3, <2>1, <3>1 DEF Ends
  <2>4. ASSUME k < m PROVE dns[Ending(from, m)] # ErrNoPolicy
    <3>1. /\ k # Len(from) /\ k \in n + 1..Len(from)
          /\ m # n + 1 /\ n # Len(from) /\ m # 1
        BY <1>1, <2>1, <2>4
    <3>2. n + 1 \in 1..Len(from)
        BY <1>1, <3>1
    <3>3. Organization(from) # Ending(from, m)
        BY <1>5, <1>7, <3>1, <3>2, EndingLabels
    <3> QED
        BY <1>3, <3>1, <3>3 DEF Ends
  <2> QED
      BY <2>1, <2>2, <2>3, <2>4
<1>11. CASE dns[Ending(from, m)] # ErrNoPolicy
  <2>1. l = Ending(from, m)
      BY <1>4, <1>11 DEF Found
  <2> QED
      BY <1>5, <1>9, <1>10, <1>11, <2>1
<1>12. CASE dns[Ending(from, m)] = ErrNoPolicy
  <2>1. l = NoDomain
      BY <1>4, <1>12 DEF Found
  <2>2. ASSUME NEW e \in MayAnswer(from) PROVE dns[e] = ErrNoPolicy
    <3>1. Len(e) \in Nat
      <4>1. \A x \in Above(from) : Len(x) \in Nat
          BY EndingLabels DEF Above
      <4> QED
          BY <1>1, <4>1 DEF MayAnswer, HeldAbove
    <3> QED
        BY <1>10, <1>12, <3>1
  <2> QED
      BY <2>1, <2>2
<1> QED
    BY <1>11, <1>12

\* A domain that may answer is known by how many labels it has.
LEMMA MayAnswerByLength ==
    ASSUME NEW from \in Domains, NEW d \in MayAnswer(from),
           NEW e \in MayAnswer(from)
    PROVE  Len(d) \in Nat \ {0} /\ (Len(d) = Len(e) => d = e)
<1>1. from \in Above(from)
  <2>1. Ending(from, Len(from)) = from /\ Len(from) \in 1..Len(from)
      BY WholeEnding
  <2> QED
      BY <2>1 DEF Above
<1>2. PICK m \in 1..Len(from), k \in 1..Len(from) :
          d = Ending(from, m) /\ e = Ending(from, k)
    BY <1>1 DEF MayAnswer, HeldAbove, Above
<1> QED
    BY <1>2, EndingLabels

\* checkDMARC asks for quarantine exactly when the domain of the From header
\* does (verify.go:159-237): for domains of any depth, any list of public
\* suffixes, whatever the DNS answers, and whatever SPF and DKIM have shown.
THEOREM QuarantineAsAsked ==
    ASSUME NEW from \in Domains, NEW dns,
           NEW passed \in [spf : SUBSET Domains, dkim : SUBSET Domains]
    PROVE  ShouldQuarantine(dns, from, passed)
               <=> AsksForQuarantine(dns, from, passed)
<1> DEFINE l == LookupDomain(dns, from)
           Closest(d) ==
               /\ d \in MayAnswer(from)
               /\ dns[d] # ErrNoPolicy
               /\ \A e \in MayAnswer(from) :
                      Len(e) > Len(d) => dns[e] = ErrNoPolicy
           Asks(d) ==
               /\ dns[d] # Failure
               /\ LET asked == IF d = from \/ dns[d].sp = Unset
                               THEN dns[d].p ELSE dns[d].sp
                  IN  asked \in {"quarantine", "reject"}
               /\ from \notin passed.spf \cup passed.dkim
               /\ dns[d].aspf \/ \A e \in passed.spf : ~SameHolder(from, e)
               /\ dns[d].adkim \/ \A e \in passed.dkim : ~SameHolder(from, e)
<1>1. from # NoDomain
    BY WholeEnding DEF NoDomain
<1>2. ASSUME NEW d
      PROVE  d = l /\ l # NoDomain <=> Closest(d) /\ d # NoDomain
  <2>1. l # NoDomain => Closest(l)
      BY LookupIsClosest
  <2>2. l = NoDomain => \A e \in MayAnswer(from) : dns[e] = ErrNoPolicy
      BY LookupIsClosest
  <2>3. ASSUME Closest(d), l # NoDomain PROVE d = l
    <3> HIDE DEF l
    <3>1. Closest(l)
        BY <2>1, <2>3
    <3>2. Len(d) \in Nat /\ Len(l) \in Nat
        BY <2>3, <3>1, MayAnswerByLength
    <3>3. Len(d) = Len(l)
        BY <2>3, <3>1, <3>2
    <3> QED
        BY <2>3, <3>1, <3>3, MayAnswerByLength
  <2> HIDE DEF l
  <2> QED
      BY <2>1, <2>2, <2>3
<1>3. ASSUME NEW d \in MayAnswer(from) PROVE d # NoDomain
  <2>1. \A x \in Above(from) : x # NoDomain
      BY EndingLabels DEF Above, NoDomain
  <2> QED
      BY <1>1, <2>1 DEF MayAnswer, HeldAbove
<1>4. \A e \in Domains :
          SameHolder(from, e) <=>
              /\ EffectiveTLDPlusOne(from) # NoDomain
              /\ EffectiveTLDPlusOne(from) = EffectiveTLDPlusOne(e)
    BY AlignedHolders
<1>5. passed.spf \in SUBSET Domains /\ passed.dkim \in SUBSET Domains
    OBVIOUS
<1>6. ShouldQuarantine(dns, from, passed) <=> l # NoDomain /\ Asks(l)
  <2> DEFINE Spf == \E e \in passed.spf : Aligned(from, e, dns[l].aspf)
             Dkim == \E e \in passed.dkim : Aligned(from, e, dns[l].adkim)
  <2>1. ShouldQuarantine(dns, from, passed) <=>
            /\ from # NoDomain /\ l # NoDomain /\ dns[l] # Failure
            /\ ~Spf /\ ~Dkim
            /\ PolicyAt(dns[l], l, from) \in {"quarantine", "reject"}
      BY DEF ShouldQuarantine
  <2>2. ~Spf <=> /\ from \notin passed.spf
                 /\ dns[l].aspf \/ \A e \in passed.spf : ~SameHolder(from, e)
      BY <1>4, <1>5 DEF Aligned
  <2>3. ~Dkim <=> /\ from \notin passed.dkim
                  /\ dns[l].adkim \/ \A e \in passed.dkim : ~SameHolder(from, e)
      BY <1>4, <1>5 DEF Aligned
  <2>4. PolicyAt(dns[l], l, from) = IF l = from \/ dns[l].sp = Unset
                                    THEN dns[l].p ELSE dns[l].sp
      BY DEF PolicyAt
  <2> HIDE DEF l, Spf, Dkim
  <2> QED
      BY <1>1, <2>1, <2>2, <2>3, <2>4
<1>7. AsksForQuarantine(dns, from, passed) <=> \E d : Closest(d) /\ Asks(d)
  <2>1. AsksForQuarantine(dns, from, passed)
            => \E d : Closest(d) /\ Asks(d)
      BY DEF AsksForQuarantine
  <2>2. ASSUME NEW d, Closest(d), Asks(d)
        PROVE  AsksForQuarantine(dns, from, passed)
      BY <2>2 DEF AsksForQuarantine
  <2> HIDE DEF Closest, Asks
  <2> QED
      BY <2>1, <2>2
<1>8. \A d : Closest(d) => d # NoDomain
    BY <1>3
<1> HIDE DEF l, Closest, Asks
<1> QED
    BY <1>2, <1>6, <1>7, <1>8

\* A message goes to Junk exactly when the domain in its From header asks for
\* that (README.md:369): for any number of clients and transactions, and also
\* for a message whose transaction is reset or cut off while it is served.
THEOREM JunkIsAskedFor == Spec => []QuarantineIsAskedFor
<1> DEFINE Judged == \A c \in Clients : mail[c] \subseteq Verdicts
<1>1. Init => Judged /\ QuarantineIsAskedFor
  <2>1. Init => mail \in [Clients -> SUBSET Verdicts]
      BY DEF Init
  <2>2. Init => verdict = [c \in Clients |-> NoVerdict]
      BY DEF Init
  <2>3. NoVerdict.quarantined = NoVerdict.asked
      BY DEF NoVerdict
  <2> HIDE DEF NoVerdict
  <2> QED
      BY <2>1, <2>2, <2>3 DEF QuarantineIsAskedFor
<1>2. ASSUME NEW v \in Verdicts PROVE v.quarantined = v.asked
  <2>1. CASE v = NoVerdict
      BY <2>1 DEF NoVerdict
  <2>2. CASE v # NoVerdict
    <3>1. PICK from \in Domains, passed \in Passed :
              \E dns \in [Above(from) -> Answers] :
                  /\ v.quarantined = ShouldQuarantine(dns, from, passed)
                  /\ v.asked = AsksForQuarantine(dns, from, passed)
        BY <2>2, Zenon DEF Verdicts
    <3>2. PICK dns \in [Above(from) -> Answers] :
              /\ v.quarantined = ShouldQuarantine(dns, from, passed)
              /\ v.asked = AsksForQuarantine(dns, from, passed)
        BY <3>1, Zenon
    <3>3. passed \in [spf : SUBSET Domains, dkim : SUBSET Domains]
        BY DEF Passed
    <3>4. ShouldQuarantine(dns, from, passed)
              <=> AsksForQuarantine(dns, from, passed)
        BY <3>3, QuarantineAsAsked
    <3>5. v.quarantined <=> v.asked
        BY <3>2, <3>4, Zenon
    <3>6. v.quarantined \in BOOLEAN /\ v.asked \in BOOLEAN
        BY DEF Verdicts, Verdict
    <3> QED
        BY <3>5, <3>6
  <2> QED
      BY <2>1, <2>2
<1>3. ASSUME TypeOK, Judged, QuarantineIsAskedFor, [Next]_vars
      PROVE  Judged' /\ QuarantineIsAskedFor'
  <2>1. Judged'
    <3>1. mail' = mail
        BY <1>3 DEF Next, Auth, Mail, Rcpt, RSET, Data, Compose, DeliverTo,
                    Forward, Send, DeliveryFails, SentCopy, CreateUser,
                    DeleteUser, SetForwarding, Restart, vars
    <3> QED
        BY <1>3, <3>1
  <2> DEFINE Judges(c) == \E v \in mail[c] \cup {NoVerdict} :
                              verdict' = [verdict EXCEPT ![c] = v]
  <2>2. DOMAIN verdict = Clients
      BY <1>3 DEF TypeOK
  <2>3. NoVerdict.quarantined = NoVerdict.asked
      BY DEF NoVerdict
  <2>4. CASE \E c \in Clients : Judges(c)
    <3> PICK c \in Clients : Judges(c)
        BY <2>4
    <3>1. PICK v \in mail[c] \cup {NoVerdict} :
              verdict' = [verdict EXCEPT ![c] = v]
        OBVIOUS
    <3>2. v.quarantined = v.asked
        BY <1>2, <1>3, <2>3
    <3> QED
        BY <1>3, <2>1, <2>2, <3>1, <3>2 DEF QuarantineIsAskedFor
  <2>5. ASSUME NEW c \in Clients, Accept(c) PROVE verdict' = verdict \/ Judges(c)
      BY <2>5 DEF Accept, Reset
  <2>6. ASSUME NEW c \in Clients, NEW next, Advance(c, next)
        PROVE  verdict' = verdict \/ Judges(c)
      BY <2>5, <2>6 DEF Advance
  <2>7. ASSUME NEW c \in Clients,
               \/ Auth(c) \/ Mail(c) \/ Rcpt(c) \/ RSET(c) \/ Data(c)
               \/ Compose(c) \/ DeliverTo(c) \/ Forward(c) \/ Send(c)
               \/ DeliveryFails(c) \/ SentCopy(c)
        PROVE  verdict' = verdict \/ Judges(c)
    <3>1. CASE Forward(c) \/ Send(c)
        BY <2>6, <3>1 DEF Forward, Send
    <3>2. CASE Data(c) \/ Compose(c)
        BY <3>2 DEF Data, Compose, Begin
    <3>3. CASE \/ Auth(c) \/ Mail(c) \/ Rcpt(c) \/ RSET(c) \/ DeliverTo(c)
               \/ DeliveryFails(c) \/ SentCopy(c)
        BY <3>3 DEF Auth, Mail, Rcpt, RSET, DeliverTo, DeliveryFails, GivesUp,
                    SentCopy, Reset
    <3> QED
        BY <2>7, <3>1, <3>2, <3>3
  <2>8. CASE CreateUser \/ DeleteUser \/ SetForwarding \/ UNCHANGED vars
    <3>1. verdict' = verdict
        BY <2>8 DEF CreateUser, DeleteUser, SetForwarding, sessionVars, vars
    <3> QED
        BY <1>3, <2>1, <3>1 DEF QuarantineIsAskedFor
  <2>9. CASE Restart
    <3>1. verdict' = [c \in Clients |-> NoVerdict]
        BY <2>9 DEF Restart
    <3> QED
        BY <2>1, <2>3, <3>1 DEF QuarantineIsAskedFor
  <2>10. CASE verdict' = verdict
      BY <1>3, <2>1, <2>10 DEF QuarantineIsAskedFor
  <2> HIDE DEF Judges
  <2> QED
      BY <1>3, <2>4, <2>7, <2>8, <2>9, <2>10 DEF Next
<1> QED
    BY <1>1, <1>3, SmtpTypeCorrect, PTL DEF Spec

=============================================================================
