--------------------------------- MODULE Smtp ---------------------------------
(***************************************************************************)
(* The ways by which a message enters the server: SMTP on port 25          *)
(* (smtpserver/inbound.go), submission on port 587 (submission.go) and the *)
(* webmail's compose page, with mailsend.Sender and the forwarding rules.  *)
(*                                                                         *)
(* A client has one message and repeats its transaction until it is        *)
(* accepted.  Addresses are members of a set, as ToLower leaves them.  The *)
(* recipients of a transaction are served one after the other, a step for  *)
(* each, and accounts and rules change in between.                         *)
(***************************************************************************)
EXTENDS Integers, Sequences, FiniteSets, Bags, Dmarc

CONSTANTS
    Clients,    \* each with one message
    Kinds,      \* the ways in that they take
    Locals,     \* addresses in one of Config.Domains
    Remotes,    \* other addresses
    NoAddr,     \* no address, no user
    MaxRcpts,   \* bound: recipients of a transaction (inboundServer: 100)
    MaxTries,   \* bound: transactions that get as far as DATA, per client
    MaxUsers,   \* bound: ids of users
    MaxRules,   \* bound: changes of rules, which only port 25 reads
    MaxFaults   \* bound: failures, and stops of the server

ASSUME SmtpAssumption ==
    /\ Kinds \subseteq {"inbound", "submission", "webmail"}
    /\ Locals \cap Remotes = {}
    /\ NoAddr \notin Locals \cup Remotes
    /\ {MaxRcpts, MaxTries, MaxUsers, MaxRules, MaxFaults} \subseteq Nat

Addrs == Locals \cup Remotes
Ids == 1..MaxUsers

\* A copy of a message: the mailbox and folder it was stored in, or the
\* address it was queued for.  by is the mailbox whose rule made the copy, or
\* the envelope sender of what a user queued.
Copies == [to : Addrs, folder : {"INBOX", "Junk", "Sent", "queue"},
           by : Locals \cup {NoAddr}]

VARIABLES
    account,    \* Locals -> Ids \cup {0}: users.id, 0 for no such row
    owner,      \* Ids -> address: whose id it is or was (ids are not reused)
    rule,       \* Ids -> forwarding.forward_to, NoAddr when off or no row
    kind,       \* Clients -> Kinds
    mail,       \* Clients -> what Verify may say of its message, as its
                \* lookups answer or fail
    user,       \* Clients -> submissionSession.username, Account.Email()
    open,       \* Clients -> BOOLEAN: between MAIL and the end of DATA
    rcpts,      \* Clients -> session.rcpts
    ids,        \* Clients -> the id of each of session.rcptUsers
    pc,         \* Clients -> where its handler stands
    i,          \* Clients -> the index of the loop over rcpts
    verdict,    \* Clients -> verifyResult, of this transaction
    copies,     \* Clients -> bag of Copies: what became of its message
    \* Bounds and history.
    named,      \* Clients -> [Addrs -> Nat]: times named in a transaction
    promised,   \* Clients -> [Addrs -> Nat]: those of accepted transactions
    ruled,      \* set of <<mailbox, target>>: the rules that were ever set
    authed,     \* Clients -> the users that it authenticated as
    tries, rules, faults

sessionVars == <<user, open, rcpts, ids, pc, i, verdict>>
storeVars == <<account, owner, rule>>
history == <<named, promised, ruled, authed>>
vars == <<storeVars, kind, mail, sessionVars, copies, history, tries, rules,
          faults>>

Init ==
    /\ account = [a \in Locals |-> 0]
    /\ owner = [id \in Ids |-> NoAddr]
    /\ rule = [id \in Ids |-> NoAddr]
    /\ kind \in [Clients -> Kinds]
    /\ mail \in [Clients -> SUBSET Verdicts]
    /\ \A c \in Clients : NoVerdict \in mail[c]
    /\ \A c \in Clients : kind[c] # "inbound" => mail[c] = {NoVerdict}
    /\ user = [c \in Clients |-> NoAddr]
    /\ open = [c \in Clients |-> FALSE]
    /\ rcpts = [c \in Clients |-> <<>>]
    /\ ids = [c \in Clients |-> <<>>]
    /\ pc = [c \in Clients |-> "idle"]
    /\ i = [c \in Clients |-> 1]
    /\ verdict = [c \in Clients |-> NoVerdict]
    /\ copies = [c \in Clients |-> EmptyBag]
    /\ named = [c \in Clients |-> [a \in Addrs |-> 0]]
    /\ promised = [c \in Clients |-> [a \in Addrs |-> 0]]
    /\ ruled = {}
    /\ authed = [c \in Clients |-> {}]
    /\ tries = [c \in Clients |-> 0]
    /\ rules = 0
    /\ faults = 0

-----------------------------------------------------------------------------
(* Helpers *)

Exists(a) == account[a] # 0

Fault == faults < MaxFaults /\ faults' = faults + 1

Add(c, S) == copies' = [copies EXCEPT ![c] = @ (+) SetToBag(S)]

Times(s, a) == Cardinality({j \in 1..Len(s) : s[j] = a})

Tally(f, s) == [a \in Addrs |-> f[a] + Times(s, a)]

\* The session after a transaction: inboundSession.Reset leaves rcptUsers.
Reset(c) ==
    /\ open' = [open EXCEPT ![c] = FALSE]
    /\ rcpts' = [rcpts EXCEPT ![c] = <<>>]
    /\ pc' = [pc EXCEPT ![c] = "idle"]
    /\ i' = [i EXCEPT ![c] = 1]
    /\ verdict' = [verdict EXCEPT ![c] = NoVerdict]
    /\ UNCHANGED ids

\* Mutant: the loop runs one index too far.
MutIsLast(c) == i[c] > Len(rcpts[c])

IsLast(c) == i[c] = Len(rcpts[c])

\* Mutant: submission serves a client that has not authenticated.
MutMayUse(c) == kind[c] # "webmail" \/ user[c] # NoAddr

\* requireAuth, and requireAuth of the webmail.
MayUse(c) == kind[c] = "inbound" \/ user[c] # NoAddr

\* The client is at the point to send its next command.
Idle(c) == pc[c] = "idle" /\ \A a \in Addrs : promised[c][a] = 0

\* The end of DATA, or of Send: the answer is 250 (webmail: the Sent copy).
Accept(c) ==
    /\ promised' = [promised EXCEPT ![c] = Tally(@, rcpts[c])]
    /\ IF kind[c] = "webmail"
       THEN /\ pc' = [pc EXCEPT ![c] = "sent"]
            /\ UNCHANGED <<open, rcpts, ids, i, verdict>>
       ELSE Reset(c)

\* On to the next recipient.
Advance(c, next) ==
    IF IsLast(c) THEN Accept(c)
    ELSE /\ i' = [i EXCEPT ![c] = @ + 1]
         /\ pc' = [pc EXCEPT ![c] = next]
         /\ UNCHANGED <<open, rcpts, ids, verdict, promised>>

-----------------------------------------------------------------------------
(* Sessions *)

\* AUTH, or the login to the webmail (module Accounts has the whole of it).
Auth(c) ==
    /\ kind[c] # "inbound"
    /\ Idle(c)
    /\ user[c] = NoAddr
    /\ \E a \in Locals :
           /\ Exists(a)
           /\ user' = [user EXCEPT ![c] = a]
           /\ authed' = [authed EXCEPT ![c] = @ \cup {a}]
    /\ UNCHANGED <<storeVars, kind, mail, open, rcpts, ids, pc, i, verdict,
                   copies, named, promised, ruled, tries, rules, faults>>

\* Mutant: the users of the transaction before are kept.
MutNoUsers(c) == ids[c]

NoUsers(c) == <<>>

Mail(c) ==
    /\ kind[c] # "webmail"
    /\ Idle(c)
    /\ MayUse(c)
    /\ open' = [open EXCEPT ![c] = TRUE]
    /\ rcpts' = [rcpts EXCEPT ![c] = <<>>]
    /\ ids' = [ids EXCEPT ![c] = NoUsers(c)]
    /\ UNCHANGED <<storeVars, kind, mail, user, pc, i, verdict, copies,
                   history, tries, rules, faults>>

\* Port 25 relays for nobody, and no mail is accepted for an address of ours
\* that has no account.
MayReceive(c, to) ==
    /\ kind[c] = "inbound" => to \in Locals
    /\ to \in Locals => Exists(to)

Rcpt(c) ==
    /\ kind[c] # "webmail"
    /\ Idle(c)
    /\ MayUse(c)
    /\ open[c]
    /\ Len(rcpts[c]) < MaxRcpts
    /\ \E to \in Addrs :
           /\ MayReceive(c, to)
           /\ rcpts' = [rcpts EXCEPT ![c] = Append(@, to)]
           /\ ids' = IF kind[c] # "inbound" THEN ids
                     ELSE [ids EXCEPT ![c] = Append(@, account[to])]
    /\ UNCHANGED <<storeVars, kind, mail, user, open, pc, i, verdict, copies,
                   history, tries, rules, faults>>

RSET(c) ==
    /\ Idle(c)
    /\ open[c]
    /\ Reset(c)
    /\ UNCHANGED <<storeVars, kind, mail, user, copies, history, tries, rules,
                   faults>>

\* The handler has the recipients and the message: it goes to serve them.
Begin(c, to, v) ==
    /\ tries[c] < MaxTries
    /\ tries' = [tries EXCEPT ![c] = @ + 1]
    /\ named' = [named EXCEPT ![c] = Tally(@, to)]
    /\ verdict' = [verdict EXCEPT ![c] = v]
    /\ pc' = [pc EXCEPT ![c] = "deliver"]
    /\ i' = [i EXCEPT ![c] = 1]

\* DATA.  On port 25, Verify judges the message, in each try anew: a lookup
\* that fails may change the verdict, to either.
Data(c) ==
    /\ kind[c] # "webmail"
    /\ Idle(c)
    /\ MayUse(c)
    /\ open[c]
    /\ rcpts[c] # <<>>
    /\ \E v \in mail[c] : Begin(c, rcpts[c], v)
    /\ UNCHANGED <<storeVars, kind, mail, user, open, rcpts, ids, copies,
                   promised, ruled, authed, rules, faults>>

\* handleComposeSubmit: the recipients are not looked up.
Compose(c) ==
    /\ kind[c] = "webmail"
    /\ Idle(c)
    /\ MayUse(c)
    /\ \E n \in 1..MaxRcpts : \E to \in [1..n -> Addrs] :
           /\ rcpts' = [rcpts EXCEPT ![c] = to]
           /\ Begin(c, to, NoVerdict)
    /\ UNCHANGED <<storeVars, kind, mail, user, open, ids, copies, promised,
                   ruled, authed, rules, faults>>

-----------------------------------------------------------------------------
(* Serving the recipients *)

Stored(to, folder) == [to |-> to, folder |-> folder, by |-> NoAddr]

Queued(to, from) == [to |-> to, folder |-> "queue", by |-> from]

\* Port 25: md.Deliver.  The Maildir is made if it is not there (any more).
DeliverTo(c) ==
    /\ kind[c] = "inbound"
    /\ pc[c] = "deliver"
    /\ LET folder == IF verdict[c].quarantined THEN "Junk" ELSE "INBOX" IN
       Add(c, {Stored(rcpts[c][i[c]], folder)})
    /\ pc' = [pc EXCEPT ![c] = "forward"]
    /\ UNCHANGED <<storeVars, kind, mail, user, open, rcpts, ids, i, verdict,
                   history, tries, rules, faults>>

Forwarded(a, b) ==
    {IF b \in Locals THEN [Stored(b, "INBOX") EXCEPT !.by = a]
     ELSE Queued(b, a)}

\* Mutant: the rule of the mailbox that is forwarded to applies in its turn.
MutForwards(a, id) ==
    LET b == rule[id] IN
    IF b = NoAddr \/ (b \in Locals /\ ~Exists(b)) THEN {}
    ELSE Forwarded(a, b) \cup
         (IF b \in Locals /\ rule[account[b]] # NoAddr
          THEN Forwarded(b, rule[account[b]]) ELSE {})

Forwards(a, id) ==
    LET b == rule[id] IN
    IF b = NoAddr \/ (b \in Locals /\ ~Exists(b)) THEN {} ELSE Forwarded(a, b)

\* forward(rcpt, rcptUsers[i].ID, full): its errors are logged.
Forward(c) ==
    /\ pc[c] = "forward"
    /\ LET S == Forwards(rcpts[c][i[c]], ids[c][i[c]]) IN
       \/ Add(c, S) /\ UNCHANGED faults
       \/ S # {} /\ Fault /\ UNCHANGED copies
    /\ Advance(c, "deliver")
    /\ UNCHANGED <<storeVars, kind, mail, user, named, ruled, authed, tries,
                   rules>>

\* Submission and webmail: an iteration of Sender.Send.
Send(c) ==
    /\ kind[c] # "inbound"
    /\ pc[c] = "deliver"
    /\ LET to == rcpts[c][i[c]] IN
       Add(c, {IF to \in Locals THEN Stored(to, "INBOX")
               ELSE Queued(to, user[c])})
    /\ Advance(c, "deliver")
    /\ UNCHANGED <<storeVars, kind, mail, user, named, ruled, authed, tries,
                   rules, faults>>

\* Mutant: the error is logged, and the next recipient is served.
MutGivesUp(c) ==
    /\ Advance(c, "deliver")
    /\ UNCHANGED <<named, ruled, authed>>

GivesUp(c) ==
    /\ Reset(c)
    /\ UNCHANGED history

\* Deliver, Enqueue or Sign fails, or the connection drops before the end of
\* the message: 451, and the recipients that were served keep their copies.
DeliveryFails(c) ==
    /\ pc[c] = "deliver"
    /\ Fault
    /\ GivesUp(c)
    /\ UNCHANGED <<storeVars, kind, mail, user, copies, tries, rules>>

\* account.Append("Sent", ...): a failure is logged.
SentCopy(c) ==
    /\ pc[c] = "sent"
    /\ \/ Add(c, {Stored(user[c], "Sent")}) /\ UNCHANGED faults
       \/ Fault /\ UNCHANGED copies
    /\ Reset(c)
    /\ UNCHANGED <<storeVars, kind, mail, user, history, tries, rules>>

-----------------------------------------------------------------------------
(* Accounts, rules, the process *)

CreateUser ==
    /\ \E id \in Ids, a \in Locals :
           /\ owner[id] = NoAddr
           /\ \A d \in Ids : d < id => owner[d] # NoAddr
           /\ ~Exists(a)
           /\ account' = [account EXCEPT ![a] = id]
           /\ owner' = [owner EXCEPT ![id] = a]
    /\ UNCHANGED <<rule, kind, mail, sessionVars, copies, history, tries,
                   rules, faults>>

\* The row of forwarding goes with that of the user (ON DELETE CASCADE).
DeleteUser ==
    /\ \E a \in Locals :
           /\ Exists(a)
           /\ account' = [account EXCEPT ![a] = 0]
           /\ rule' = [rule EXCEPT ![account[a]] = NoAddr]
    /\ UNCHANGED <<owner, kind, mail, sessionVars, copies, history, tries,
                   rules, faults>>

\* handleAccountForwarding.  Without a row in users the foreign key fails.
SetForwarding ==
    /\ rules < MaxRules
    /\ \E c \in Clients : kind[c] = "inbound"
    /\ \E a \in Locals, t \in Addrs \cup {NoAddr} :
           /\ Exists(a)
           /\ t # a
           /\ t # rule[account[a]]
           /\ rule' = [rule EXCEPT ![account[a]] = t]
           /\ ruled' = ruled \cup {<<a, t>>}
    /\ rules' = rules + 1
    /\ UNCHANGED <<account, owner, kind, mail, sessionVars, copies, named,
                   promised, authed, tries, faults>>

\* The server stops, in the middle of whatever it does, and starts again.
Restart ==
    /\ Fault
    /\ user' = [c \in Clients |-> NoAddr]
    /\ open' = [c \in Clients |-> FALSE]
    /\ rcpts' = [c \in Clients |-> <<>>]
    /\ ids' = [c \in Clients |-> <<>>]
    /\ pc' = [c \in Clients |-> "idle"]
    /\ i' = [c \in Clients |-> 1]
    /\ verdict' = [c \in Clients |-> NoVerdict]
    /\ UNCHANGED <<storeVars, kind, mail, copies, history, tries, rules>>

-----------------------------------------------------------------------------

Next ==
    \/ \E c \in Clients :
           \/ Auth(c)
           \/ Mail(c)
           \/ Rcpt(c)
           \/ RSET(c)
           \/ Data(c)
           \/ Compose(c)
           \/ DeliverTo(c)
           \/ Forward(c)
           \/ Send(c)
           \/ DeliveryFails(c)
           \/ SentCopy(c)
    \/ CreateUser
    \/ DeleteUser
    \/ SetForwarding
    \/ Restart

Spec == Init /\ [][Next]_vars

-----------------------------------------------------------------------------
(* Properties *)

Tallies == [Addrs -> 0..(MaxRcpts * MaxTries)]

\* Every variable stays in its type, no handler indexes beyond the recipients
\* of its transaction, and every account and rule has an id of its own.
TypeOK ==
    /\ account \in [Locals -> Ids \cup {0}]
    /\ owner \in [Ids -> Locals \cup {NoAddr}]
    /\ rule \in [Ids -> Addrs \cup {NoAddr}]
    /\ \A a \in Locals : Exists(a) => owner[account[a]] = a
    /\ kind \in [Clients -> Kinds]
    /\ mail \in [Clients -> SUBSET Verdict]
    /\ verdict \in [Clients -> Verdict]
    /\ user \in [Clients -> Locals \cup {NoAddr}]
    /\ \A c \in Clients :
           /\ open[c] \in BOOLEAN
           /\ rcpts[c] \in Seq(Addrs) /\ Len(rcpts[c]) <= MaxRcpts
           /\ ids[c] \in Seq(Ids)
           /\ pc[c] \in {"idle", "deliver", "forward", "sent"}
           /\ pc[c] # "idle" => i[c] \in 1..Len(rcpts[c])
           /\ IsABag(copies[c]) /\ BagToSet(copies[c]) \subseteq Copies
    /\ {named[c] : c \in Clients} \cup {promised[c] : c \in Clients} \subseteq
           Tallies
    /\ authed \in [Clients -> SUBSET Locals]
    /\ ruled \subseteq Locals \X (Addrs \cup {NoAddr})

\* How many copies there are of those in S, which are among them.
Count(c, S) == Cardinality(UNION {{x} \X (1..copies[c][x]) : x \in S})

\* The copies for a that are no matter of forwarding.
Direct(c, a) ==
    {x \in BagToSet(copies[c]) :
        /\ x.to = a
        /\ x.folder # "Sent"
        /\ kind[c] = "inbound" => x.by = NoAddr}

\* Whoever a 250 was about has the message, once for each time, whatever was
\* repeated, failed or stopped; and nobody has it more often than the client
\* named him (the loops of inbound.go:101 and mailsend.go:52, which serve the
\* recipients one after the other and fail as a whole).
DeliveredOnce ==
    \A c \in Clients, a \in Addrs :
        /\ promised[c][a] <= Count(c, Direct(c, a))
        /\ Count(c, Direct(c, a)) <= named[c][a]

\* Forwarding is a single hop: a mailbox forwards only what was sent to it,
\* not what was forwarded to it, so that two mailboxes that forward to each
\* other do not loop (inbound.go:131).
SingleHop ==
    \A c \in Clients, a \in Locals :
        LET byRule == {x \in BagToSet(copies[c]) : x.by = a} IN
        kind[c] = "inbound" => Count(c, byRule) <= Count(c, Direct(c, a))

\* The rule that is applied to a recipient is that of the user who had the
\* address at RCPT, also when sessions carry several transactions and accounts
\* are deleted and created again: rcptUsers goes along with rcpts.
OwnRule ==
    \A c \in Clients : kind[c] = "inbound" /\ open[c] =>
        /\ Len(ids[c]) = Len(rcpts[c])
        /\ \A j \in 1..Len(ids[c]) : owner[ids[c][j]] = rcpts[c][j]

\* No open relay (inbound.go:26): what leaves the server leaves it under the
\* name of a user as whom the client authenticated, or by a rule which the
\* mailbox that received the message was given by its user.
RelayIsOwn ==
    \A c \in Clients : \A x \in BagToSet(copies[c]) :
        x.to \in Remotes =>
            \/ kind[c] # "inbound" /\ x.by \in authed[c]
            \/ kind[c] = "inbound" /\ <<x.by, x.to>> \in ruled

\* A message goes to Junk exactly when the domain in its From header asks for
\* that, through DMARC, and nobody who may send for that domain was shown to
\* have sent it (README.md:369, and the comment on Result in verify.go).
QuarantineIsAskedFor ==
    \A c \in Clients : verdict[c].quarantined = verdict[c].asked

=============================================================================
