# Mailroom in TLA+

Mailroom is a small mail server in Go: inbound SMTP, submission, IMAP, a
webmail, an outbound relay queue and an admin UI in one process, over SQLite
and Maildir. This directory holds models of its core, the TLC configurations
that check them and theorems about them that TLAPS checks. Paths below are
relative to the repository.

```
tlc -workers 2 -config MailboxFaults.cfg MCMailbox   # one run
tlapm QueueProofs.tla                                # the proofs of a module
```

## 1. The system and its parts

| Component | State it keeps | Operations | Talks to |
|---|---|---|---|
| **Folder** (`imapbackend/mailbox.go`, `webapi.go`, `message.go`, `flags.go`; `store/mailbox.go`; `maildir/maildir.go`) | files in `tmp/`, `new/`, `cur/`; rows of `mailbox_messages`, `uid_next`; the list `Mailbox.l` under `Mailbox.mu` | Deliver, appendBytes, reloadLocked, Store, Expunge, expungeLocked, webmail's SetFlags, Append, expunge, moveTo | every IMAP session and webmail request of the user through one `*Mailbox`; SMTP delivery only through the directory |
| **Outbound queue** (`queue/queue.go`, `queue/relay.go`) | `<id>.eml`, `<id>.json` in the spool; one goroutine | Enqueue, Run, processAll, attempt, deliver | called by submission, compose, forwarding; calls remote hosts, and `bounce` of `cmd/mailserver/main.go` |
| **Folder tree** (`imapbackend/user.go`, `maildir/paths.go`) | directories, `mailboxes`, `subscriptions`, `User.mailboxes` | Create, Delete, Rename, Subscribe, List | Folder |
| **COPY, MOVE, moveTo** (`imapbackend/session.go`, `webapi.go`) | none of their own | Copy, Move, moveTo | two Folders and their mutexes |
| **IMAP session** (`imapbackend/session.go`, go-imap's tracker) | selected mailbox, update queue | Select, Poll, Idle, Unselect | Folder |
| **Accounts** (`store/store.go`, `webmail/admin_handlers.go`, `webmail/session.go`, `account_handlers.go`, `imapbackend/server.go`, CLI) | `users`, `domains`; webmail sessions; `Backend.users`; Maildir trees | create, delete, login, password, forwarding address, relay settings | Folder, database |
| **Rate limiter** (`ratelimit/ratelimit.go`) | failures and bans per address | Allowed, RecordFailure, RecordSuccess, cleanup | submission AUTH, IMAP LOGIN, webmail login |
| **Inbound SMTP, forwarding** (`smtpserver/inbound.go`, `store/forwarding.go`) | recipients of the transaction | Mail, Rcpt, Data, Reset, forward | Accounts, Folder, Queue, verification |
| **Submission, mailsend** (`smtpserver/submission.go`, `mailsend/mailsend.go`) | authenticated user, envelope | Auth, Mail, Rcpt, Data, Send | Rate limiter, Folder, Queue |
| **Verification** (`inboundauth/verify.go`) | none | SPF, DKIM, checkDMARC | DNS |
| **ACME** (`acmedns/acmedns.go`) | certificate files | Run, ensureCertificate, obtain | DNS provider, CA |
| **Client address** (`realip/realip.go`) | none | FromHTTP | Rate limiter |
| **DKIM key** (`dkimsign/dkimsign.go`, `dkim show`) | key file | LoadOrGenerateKey | the server, the command line |
| **Small parts** ( `tlsutil`, `metrics`, `config`, `address`, `webmail` pages) | counters | pure functions, pure I/O | |

How mail flows: inbound SMTP checks the recipient, verifies the message, and
calls `Maildir.Deliver` on the user's INBOX without telling the IMAP side,
which finds the file at its next reload (SELECT, NOOP, STATUS, the IDLE ticker).
Submission delivers local recipients the same way and enqueues the others. The
queue relays, retries and, when it gives up, delivers a bounce into the
sender's own INBOX.

### What is hard, and what makes each part correct

* **Folder.** Three stores describe one folder: file names, SQL rows, memory.
  `mu` guards only the last; deliveries, and the file and SQL halves of APPEND
  and EXPUNGE, run outside it and interleave with a reload that reads the
  directory in two calls and deletes the rows of everything it did not see.
  Correct means: a UID belongs to one message for ever and a message to one UID;
  no message is missed; list, index and files agree on UIDs and flags; what is
  expunged stays gone; mail that arrives is shown; a crash loses none of it.
* **Queue.** Two files per message, rewritten in place; remote hosts whose
  answers are lost; retries. Correct means: accepted mail is relayed or
  bounced, exactly once when nothing fails, with bounded and spaced attempts.
* **Folder tree, COPY/MOVE.** Lock order, a rename in steps, stale `*Mailbox`
  objects, UIDVALIDITY from the clock, partial failure of copy-then-delete.
* **IMAP session.** The count a client holds shrinks only by EXPUNGE responses.
* **Accounts.** Check-then-act on the table by concurrent admins; caches by
  address that outlive an account; deletion in steps (row, then directory).
* **Rate limiter.** A ban lasts as long as it should, cleanup forgets nothing
  that still counts, the memory stays bounded.
* **Inbound, Submission.** One answer for several recipients, retries by the
  client, lists that go along by index over several transactions. Correct means:
  who was promised a message has it, forwarding does not loop, only one's own
  mail and one's own rules leave the server.
* **Verification, client address.** A walk over labels or hops that may go one
  too far or stop one too early, on input that strangers write.
* **ACME, DKIM key.** Files written in place, two at a time, and processes that
  stop between them; renewals that fail until the certificate has expired.

`PROJECT.json` lists every hazard at its line, with the property that covers it
or the reason why none does.

## 2. The modules

| Module | What it is |
|---|---|
| `Mailbox` | one folder: disk, index, list, and the goroutines that work on it |
| `ImapFolder` | what an IMAP client that caches a folder by UID relies on (abstract) |
| `MCMailbox` | its model-checking instance (symmetry of goroutines) |
| `MailboxProofs` | type correctness, UID uniqueness, completeness of listings; without APPEND, that list, index and flags agree, what is expunged stays gone, and `Mailbox` implements `ImapFolder` |
| `Queue` | the spool, Enqueue, the sweep and the attempt |
| `Relay` | the promise of the queue: accepted mail meets its end (abstract) |
| `MCQueue` | model-checking instance of `Queue` (a backoff of two intervals) |
| `QueueProofs` | type correctness, `Queue` implements `Relay`, no mail is lost, sent twice, tried too often or too soon |
| `Limiter` | the limiter of one key: failures in a window, a ban, the cleanup |
| `LoginPolicy` | what the limiter promises, said over the history of the calls (abstract) |
| `LimiterProofs` | type correctness, the policy is kept (`Limiter` implements `LoginPolicy`), and guesses are bounded |
| `Accounts` | the users table, the requests and commands that change it, the user cache and the webmail sessions |
| `Folders` | the folders of a user: rows, directories, objects and locks; CREATE, DELETE, RENAME, LIST, COPY, MOVE, moveTo |
| `MCFolders` | its model-checking instance (INBOX and folders in it; symmetry) |
| `FoldersProofs` | type correctness, the order of the locks, one object per folder, no mail is lost or copied once too often |
| `Dmarc` | `checkDMARC` as operators, and what DMARC means as a reference definition without the walk |
| `Smtp` | port 25 with forwarding, submission, compose, and the delivery loops; EXTENDS `Dmarc` |
| `MCSmtp` | its model-checking instance (domains and public suffixes; symmetry) |
| `SmtpProofs` | rules stay their owner's, no open relay, copies delivered once and forwarded one hop, the DMARC verdict is what the policy asks, type correctness |
| `RealIp` | `FromHTTP` as an operator, and who may be held to be whom |
| `MCLimiter` | the instance of `Limiter` whose keys are the addresses `RealIp` finds |
| `RealIpProofs` | failures count for the client that made them |
| `Keys` | certificate, ACME account and DKIM key over starts, stops and crashes |
| `KeysProofs` | type correctness, one DKIM key, the certificate served is good, and none is issued without need |
| `MCAccounts` | its model-checking instance (symmetry of requests and sessions) |
| `AccountsProofs` | type correctness, and that stale accounts are never mistaken for others |

`Queue` is shown to implement `Relay`, `Limiter` to implement `LoginPolicy`, and
`Mailbox`, without APPEND, to implement `ImapFolder`, by `INSTANCE ... WITH` a
refinement mapping; each refinement is a property of a run and a theorem. Every definition of the concrete modules that models code has
its source lines in `PROJECT.json` under `map`. Operators called `Mut...` are
plausible bugs of the definition that follows them; each property is known to
fail under one of them.

### Mailbox

| State | Code |
|---|---|
| `file` (directory and letters per key) | the Maildir directory; the key is the file name before `:2,` |
| `nextKey` | the clock in `uniqueName`, so keys are numbered by age |
| `row`, `uidNext` | `mailbox_messages`, `mailboxes.uid_next` |
| `l`, `loaded`, `mu` | `Mailbox.l`, presence in `User.mailboxes`, holder of `Mailbox.mu` |
| `pc`, `job`, `scan` | where each goroutine is, its local variables (`path` is what `find` returned), those of the reload |
| `assigned`, `told`, `since`, `expunged`, `stranded` | history, read by properties only |

A handler is as many actions as it has calls that others can observe:

* SMTP delivery: `Deliver`, `RenameToNew`.
* APPEND (`appendBytes`, also the second half of COPY, MOVE and webmail's
  Append): `AppendMessage`, `RenameToNew`, `AppendInsert`, `AppendDbFlags`,
  `AppendLetters`, `AppendPush`; only the last holds `mu`.
* `reloadLocked`: `StartReload` (lock, read the first directory), `ListSecond`,
  `Prune` (read the rows, delete those not listed), then per listed file
  `KeepListed`, `AddIndexed`, `AddUnindexed` or `ReloadFails`, and
  `FinishReload` (sort, publish, unlock).
* STORE, FETCH that sets `\Seen`, webmail's flag button: `StoreFlags`,
  `PersistRow`, `PersistFile`, all under `mu`.
* EXPUNGE, and webmail's `expunge` and the end of its `moveTo`: `Expunge` or
  `Purge` choose the victims, then per victim `FindVictim` and `Unlink` (the two
  halves of `Maildir.Remove`) and `RemoveRow`, without `mu`, and `ExpungeLocked`
  with it. `Unlink` finds nothing under the path if a flag change has renamed the
  file since; EXPUNGE takes that for a file that is gone and goes on, the webmail
  gives up. `stranded` has the messages whose row goes in this way while the file
  stays.
* `IOError`, `Restart`, `Drop` (another program puts a file into `cur/`).

Abstractions: a message is its key. `ListMessages` and `DeleteMessagesNotIn` are
one step, since a change of the index between the two has the effect it would
have had just before (unlisted key) or just after (listed key). Finding a file
and renaming it is one step in `SetFlags`: without APPEND only the holder of `mu`
renames files, so what can come between is a removal, after which the rename
fails as it does when the file is gone from the start; and an APPEND that
renames the file in between makes it fail as a failing call does (`IOError`, with
"error" among the `Kinds`). A message of the list is told from another by its
file, its UID and the code that made it (`Object`), as `Expunge` tells them by
their pointers. STORE over several messages is a sequence of single ones; it
keeps `mu` between them, so this only adds interleavings. The calls on the go-imap tracker never feed back into the folder
and are left to `ImapView` (below). COPY, MOVE and moveTo, which join two
folders, are in `Folders`. SEARCH, FETCH and STATUS only read.

`ImapFolder` has three sets of messages, each a file with its UID: those shown, those
ever shown, and those gone for good; and the set of files that a removal missed.
Looking through the folder (`Refresh`) shows again whatever is not gone, and new messages only above all UIDs ever shown, which
is what a client relies on that goes on from the UIDNEXT it was told; `Expunge`
makes messages go; `Miss` is a removal that misses its file, which may from then on
come back as a new message; a restart (`Forget`) shows none until the next look. In
`Mailbox` they are `Shown(l)`, `told`, `GoneForGood` (shown once, not in the list,
and without the file or the row of that UID) and `stranded`. `KeepsView` says that
no other message ever has a second UID, so `MailboxDelivery` does not check
`UidStable` as well.

### Queue and Relay

| State | Code |
|---|---|
| `eml`, `meta` | the two files: absent; created but not written (`part`, `bad`); complete |
| `attempts`, `wait` | `Item.Attempts`, `Item.NextAttempt` on disk; `wait` counts ticks down |
| `caller` | where the `Enqueue` of each message is |
| `phase`, `todo`, `due`, `cur`, `tried`, `delay`, `left` | the goroutine of `Run` and its local variables |
| `smartHost` | the admin's setting, read per attempt |
| `took`, `bounced`, `tries`, `elapsed` | history |

`os.WriteFile` is two steps (create or truncate, then write), since a stop of
the server can fall in between. `processAll` reads the clock once (`due`). A
dialogue with one host is one step with four outcomes: it accepts, rejects
(5xx), defers (any other error before the data are taken), or *loses*: the host
has the message, but the connection breaks before the answer to the data or to
QUIT is read. `Route` picks the number of exchangers, one for a smart host, and
may fail as a DNS lookup does. `remove` is two steps and ignores errors; `save`
logs them.

Abstractions: only the process stops, not the machine, so what was written
stays. A graceful shutdown does not wait for `Run` and is the same as a crash.
A 5xx answer to QUIT, jumps of the wall clock and metrics are left out. The
sender of an item is always local, so a bounce has an INBOX to go to. Enqueue
counts as accepted when the item file is complete, even if the caller does not
live to hear it.

`Relay` has one variable, the fate of each message: unsent, refused, queued or
settled. `Fate` in `Queue` is the mapping.

### Limiter and LoginPolicy

| State | Code |
|---|---|
| `known`, `failures`, `bannedUntil` | `Limiter.entries` and the two fields of an entry |
| `state`, `key`, `at` | login attempts of the submission, IMAP and webmail handlers, their address, the time of their failure |
| `log`, `until`, `streak` | history that is never pruned |

A handler asks (`Begin`, `Block`), verifies the password while others run, and
records the result (`RecordFailure`, `RecordSuccess`); each method of `Limiter`
holds its mutex throughout and is one action. `Cleanup` drops every stale entry
at once. The three surfaces have a limiter each and call it alike, so one is
modelled. Nothing is persisted: a restart empties the limiter, and is not part
of the model. `MCLimiter` takes as keys the addresses that `FromHTTP` of
`RealIp` finds: a header is any sequence of addresses and garbled entries that
the client writes, its own address, and the entries of the proxies it passed
(`Direct`, `Proxied`); `HeldToBe(k)` is everybody who can be counted under `k`.
`LoginPolicy` has the same logins over the full history and no
entries; at the last instant of a ban it allows both answers, since `Allowed`
and `cleanup` compare differently there.

### Accounts

| State | Code |
|---|---|
| `users`, `nextId` | the `users` table and its AUTOINCREMENT counter; names of columns that no request compares are left out |
| `changed` | per id, the addresses whose sessions have set its `forwarding` row or its password (both found by id; the rows go with the account) |
| `tree` | the Maildir tree of an address, with the ids whose folders were created in it |
| `cache`, `session` | `Backend.users`, `sessionStore.sessions`: a `store.User` as it was when it was first read |
| `pc`, `job` | where each request or command is, and its local variables |

A handler is one action per SQL statement or file operation: login (`Login`: the
password is verified; `Enter`: `userFor` and the session), creation
(`AdminCreate`, `CheckNew` or `CliCreate`, then `InsertUser`, `Reread`, `Index`,
`MakeTree`), deletion (`AdminDelete` or `CliDelete`, then `DeleteRow`, `Wipe`),
`SetForwarding`, and `ChangePassword` with `SetPassword`. `Fails` ends a request
whose call failed; `Leave` is a logout or the end of a session; `Restart` empties
cache and sessions and may create the configured administrator anew.

Abstractions: the SQLite path of `CreateUser` (Postgres returns the row from the
insert). The five folders of `ProvisionMailboxes` are one, rows before
directories; `mailboxes` has no state of its own here beyond its foreign key.
Commands run inside the container (`docker compose exec`) and stop with it. A
password is right whenever it is asked for: the model is about who is affected,
not who is let in. `EnsureDomain` and the relay settings are left out.

### Folders

| State | Code |
|---|---|
| `row`, `nextId` | the names in the `mailboxes` table, its AUTOINCREMENT counter |
| `dirs`, `dir`, `content` | the directories that exist, the files in each, the message in each file |
| `nobj`, `dbID`, `root` | the `*Mailbox` objects, whether or not the map still has them; `Mailbox.dbID`, `Mailbox.root` |
| `mailboxes`, `umu`, `mu` | `User.mailboxes`, the holders of `User.mu` and of each `Mailbox.mu` |
| `pc`, `job` | where each request is, and its local variables |
| `owed`, `dropped`, `ghost` | history |

A name is the sequence of its parts, INBOX the empty one, and the directory of a
name lies in that of the name without its last part, as `FolderPath` has it.
Requests are one action per SQL statement, file operation and wait for a lock:
`CreateFolder`; `DeleteFolder`, `DropRow`, `DropTree`; `RenameFolder`,
`RenameDir`, `RenameRow`, `Swap`; `ListRead`, `ListLoad`; and for COPY, MOVE and
moveTo `CopyStart` or `MoveToStart` and `FindDest`, `LockSource`, then per
message `Read`, `Deliver`, `Insert`, `Push`, then per original `Remove` (or
`RemoveFails`, which in moveTo, that runs without the source's mutex, also a flag
change can bring about), and `Expunge`. `Load` is whatever else makes `mailboxLocked` load a folder. Each call
that can fail has its failure, with what it leaves behind, and `Restart` drops
all objects. Whoever has selected a folder keeps its object through DELETE and
RENAME, so the source of a COPY is any object there is.

Abstractions: what happens within one folder is in `Mailbox`; the row of a copy
and its flags are one step. SUBSCRIBE and UIDVALIDITY are left out. Creating a
row that exists and finding a folder that does not are answered NO and change
nothing.

### Smtp and Dmarc

| State | Code |
|---|---|
| `account`, `owner` | `users`: the id of each address, and whose id it is or was |
| `rule` | `forwarding`, by user id |
| `user`, `open`, `rcpts`, `ids` | the fields of `inboundSession` (`rcpts`, `rcptUsers`) and `submissionSession` (`username`, `rcpts`); whether a transaction is open |
| `pc`, `i`, `verdict` | where the loop over the recipients is; `verifyResult` |
| `kind`, `mail` | the way in that a client takes, the verdicts that `Verify` may give on its message |
| `copies` | what became of the message: files in folders and items in the queue |
| `named`, `promised`, `ruled`, `authed` | history |

`Auth`, `Mail`, `Rcpt`, `RSET`, `Data` and `Compose` are commands; `DeliverTo` and
`Forward` the two halves of an iteration on port 25, `Send` an iteration of
`mailsend.Sender`, `SentCopy` the end of compose. `DeliveryFails` is the answer
451 in the middle of the loop, after which the client repeats its transaction,
`Restart` a stop of the server. Meanwhile users are created and deleted and rules
change. `Reset` clears `rcpts` and leaves `rcptUsers`, and `Mail` clears both, as
in the code. Deliveries create the Maildir of a user who is gone since RCPT.

`Dmarc` translates `lookupDMARCRecord`, `aligned` and `checkDMARC`; a DNS is any
function from domains to records and errors. `AsksForQuarantine` says what that
should mean without the walk and without an organizational domain. `Verdicts`,
the pairs of both answers over all senders, DNSs and findings of SPF and DKIM, is
what `mail` takes its values from; each try is judged anew, and lookups that fail
may change the verdict to none (DMARC) or to Junk (SPF and DKIM, which then pass
for nobody).

Abstractions: addresses are as `ToLower` leaves them; the size of a message, its
headers, and the results that `Verify` writes into them are left out. What SPF
and DKIM find is an input (one of them passes, for one domain, or none does).

### Keys

| State | Code |
|---|---|
| `certFile`, `keyFile`, `account` | `fullchain.pem`, `privkey.pem`, `account.json`: absent, torn, or the number of the certificate |
| `dkimFile`, `dkimKey`, `fresh` | the DKIM key on disk, the one the server signs with, those just generated |
| `cert`, `certs` | `Manager.cert`; the expiry of every certificate issued |
| `pc`, `up`, `checked`, `now` | the steps of the server and of `dkim show`, the listeners, the ticker of `Run`, the clock |
| `printed`, `raced`, `failed` | history |

`Start`, `Load`, `LoadAccount`, `Register`, `Order`, `WriteCert`, `WriteKey` are
`setupTLS`, `Init`, `ensureCertificate` and `obtain`; `Check` is an iteration of
`Run`; `ReadKey`, `GenerateKey`, `WriteDkim` are `LoadOrGenerateKey` by either
process. `ObtainFails` and `Crash` leave the file that is being written as it was,
or torn. A certificate or an account that cannot be read counts as absent, as in
the code, also when it is only for once: `Load` and `LoadAccount` may meet such a
fault. A tick of the clock is longer than the twelve hours of the ticker, and
passes while the server idles or is down.

Abstractions: the ACME protocol is one step. Crashes between truncation and
write are covered; what was written stays.

## 3. The runs

All runs complete on two workers within about two minutes each. Deadlock is not
checked by TLC: the bounds on messages, items and attempts end every behaviour.
(`OnlyMovesDeadlock` of `Folders` finds circles of waiting requests as a state
predicate.)

| Run | Question | Bounds |
|---|---|---|
| `MailboxFaults` | Are UIDs unique and listings complete whatever fails? | 2 goroutines, 2 messages, 1 restart; append, reload, webmail removal, foreign files, failing calls |
| `MailboxDelivery` | Without APPEND, do list, index and flags agree, does what was expunged stay gone, and is the list the folder that a caching client takes it for? | 2 goroutines, 2 messages, 3 UIDs, 2 flags (one without a Maildir letter), 1 restart |
| `MailboxLiveness` | Does mail in the folder get listed? | 2 goroutines, 1 message, 1 restart, `FairSpec` |
| `QueueRetry` | One outcome, bounded and spaced attempts, and what does a failure cost? | 2 messages, 3 retries, 2 hosts, 1 failing call of any kind, 1 stop |
| `QueuePromise` | Is accepted mail never lost, and does it meet its end? | 2 messages, 1 retry, 2 hosts that may lose their answer, 1 failing enqueue, save or remove, 1 stop, `FairSpec` |
| `Folders` | Whatever is created, deleted, renamed, listed, copied and moved: one object per folder, no message lost or doubled, which requests can wait for each other? | 2 sessions, INBOX and 2 folders, 3 rows, 2 objects between restarts, 1 message, 3 files, 1 failing call or restart |
| `Smtp` | Does everybody who was promised a message have it, and nobody too often? Whose rules apply, and who relays? Is the DMARC verdict what the policy asks? | 1 client with 1 message, 2 recipients, 2 tries, 2 local addresses and a remote one, 3 ids, 2 changes of rules, 1 failure or restart; 7 domains, 2 public suffixes |
| `Keys` | Are certificates renewed in time and not needlessly, does the server sign with the key it published, does it come up again? | lifetime 4, margin 3, 6 ticks, 2 commands, 1 orderly stop, 2 failures or crashes, `FairSpec` |
| `Accounts` | With stale sessions and requests in every order: are ids and addresses unique, do settings and folders stay their owner's, who can remove the last administrator? | 2 requests at a time, 1 session at a time (a request outlives its session), 2 addresses, 3 ids, 1 restart, failing calls |
| `Limiter` | Does forgetting change an answer? How many wrong guesses fit a window? Are entries dropped? Whom do failures count for? | 2 clients behind 2 proxies, headers of up to 2 entries on either side of the client's, 4 attempts, 2 of them at a time, ban at 2, window 2, ban 3 ticks, `FairSpec` |

Why the bounds are enough: every hazard of the folder is between one operation on
one message and one reload, or between two operations; two goroutines and two
messages have all such pairs, also with a second message to be confused with
(order, UID reuse). In `MailboxDelivery` an EXPUNGE stops between any two of its
steps while the other goroutine changes flags, delivers and reloads, so that its
file is renamed, missed, and listed again; three UIDs are those of both messages
and one of them anew, and the insert of a fourth is not taken. A flag change and a
reload both hold `mu`, so one goroutine that does them in turn has all their
interleavings with an EXPUNGE; a reload under two EXPUNGEs at once is left to the
proofs, which cover any number. `KeepsView` and its inductive invariant were also found to hold with
failing calls, foreign files and webmail's removals, before they were proved. Queue items only
interact through the order of one sweep, so two suffice; three retries pass the
end of a backoff of two intervals, which is where its index is clipped; one
fault and one stop each meet every step. Four attempts with a ban at two are a
ban, failures that were under way when it began, and a second ban. Three ids are
an address, its next owner and somebody else; two requests are the pair that
races, and a session that ended leaves its request running.

In `Folders` two sessions are the pair that races for one lock or one file; one
message in three files is an original, a copy and a copy of it in the third
folder; two objects are those that two moves need, or one whose folder was
deleted and made again. Only folders directly in INBOX are checked exhaustively:
with a nested folder in each of two there are too many states, and ten million
states of random simulation of that instance violated none of the invariants. In
`Smtp` clients share nothing but accounts, rules and the Maildirs, so one, with
users and rules that change in the middle of its transactions, meets whatever
another could do to it. Two recipients and two tries are a loop that fails after
the first recipient and is repeated, and two mailboxes that forward to each other
with one more hop to a remote address. The domains have one of each kind: a
public suffix, one below another, a domain, its subdomain, a stranger, and two
neighbours below the inner suffix. In `Keys` a lifetime of four with a margin of
three gives the renewals two chances to fail before the certificate expires, six
ticks are a renewal and part of the life of its successor, and two faults are a
file cut short by a crash followed by a failing call.

Two runs show where the code and its own comments part (`findings` in
`PROJECT.json` quotes them); TLC's traces are short:

| Run | What happens |
|---|---|
| `MailboxUidChanges` | A reload lists the folder; an APPEND then delivers and inserts its row; the reload deletes that row as not listed; the next reload indexes the file under a second UID, and the APPEND then lists the message under the first. |
| `AccountsNoAdmin` | Two administrators open the Admin page and delete each other: each passes the check against self-deletion, and no administrator is left. |

Cases without a run of their own, which the models show or which the runs leave
out or except:

* **APPEND.** Two appends can obtain UIDs 1 and 2 and enter the list as 2, 1
  (mailbox.go:44 says "ordered by ascending UID"), so `ListAgreesWithIndex` holds
  only without APPEND; `UidStable` fails with it as the run above shows.
  `MailboxDelivery` leaves it out.
* **EXPUNGE against a flag change.** `Maildir.Remove` finds the file
  (maildir.go:225-232) and unlinks that path, without `mu`. A STORE (or a FETCH
  that sets `\Seen`) may rename the file in between; os.Remove then finds none,
  which Expunge ignores (mailbox.go:540), so the row and the list entry go and the
  file stays. The next reload lists it as a new message under a new UID, and
  writes its letters as they are into the flags column: the message that was
  expunged is back. `ListAgreesWithIndex`, `IndexHoldsFlags`,
  `ExpungedStaysGone` and `KeepsView` except the files to which this has happened
  (`stranded`) and say that nothing else leads there; without the exception TLC
  finds each of them violated by this trace.
* **Foreign files.** A file with letters that another program puts into the
  folder is indexed with the letters as if they were decoded flags, so
  `IndexHoldsFlags` fails with them (flags.go:9 calls the database the source of
  truth). `MailboxDelivery` leaves them out.
* **Lost answers.** A host takes a message and the connection breaks at QUIT: the
  next host gets it too (relay.go:187; the comment at :33-35 says "until one
  accepts the message"). With such answers `SettledOnce` fails; `QueueRetry`
  leaves them out.
* **A torn item.** The server stops between truncation and write of an item: it
  never loads again and is neither relayed nor bounced (queue.go:93; the comment
  at :2 promises survival). `KeepsPromiseInTime` excepts that item.
* **Silent drops.** An unreadable body and a bounce that fails drop the message
  (queue.go:160, main.go:193). `QueuePromise` leaves both out.
* **COPY and MOVE deadlock.** Both hold the selected folder's mutex while they
  wait for the other's (session.go:97): two sessions that copy in opposite
  directions wait for ever, and with them everybody who opens either folder.
  `OnlyMovesDeadlock` says that no circle is without such a pair.
* **A stale LIST.** LIST loads what it read before it took `User.mu`
  (user.go:79): a folder renamed in between gets a second object under its old
  name. `SharedObject` excepts what such a LIST has loaded.
* **Nested folders.** DELETE of a folder removes the mail of those nested in it
  and leaves their rows; RENAME moves their directories and leaves their rows
  and objects, so their mail disappears from view. (paths.go:13-15 says that
  `Sent/2024` is `.Sent.2024`; the code makes it `.Sent/2024`.)
* **Compose.** The webmail neither looks up nor lower-cases its recipients
  (compose_handlers.go:231-237), although mailsend.go:3-5 says that both ways
  behave identically: mail to a local address without an account, or spelt
  differently, goes to a Maildir that nobody reads and is reported as sent.
* **Accounts deleted since RCPT.** DATA delivers to them: a 250, and a Maildir
  without an owner.
* **Forwarded spam.** A quarantined message that a rule forwards to a local
  mailbox lands in its INBOX, not in Junk (README.md:44, :369).
* **Start near expiry.** A valid certificate within the margin whose renewal fails
  at the start makes the server exit, although it could be served.
* **Two first DKIM keys.** The server and `dkim show` may both find no key and
  make one each; the record printed first may be that of the loser.
  `SignsWithPublished` excepts this.

### Fairness

* `Mailbox`: strong fairness of each goroutine's next step, because
  `sync.Mutex` lets no waiter starve while the mutex is free only now and then;
  and of some reload beginning, because an idling session's ticker reloads every
  ten seconds. None on clients, failures or restarts.
* `Queue`: weak fairness of the sweep and the attempt together (one goroutine,
  its ticker every 30 s, all network calls with timeouts) and of time. None on
  callers, hosts or the admin.
* `Limiter`: weak fairness of `Cleanup` (its ticker, one minute) and of time. None
  on clients: an attempt may hang for ever.
* `Keys`: weak fairness of the server's steps, its start included, since
  docker-compose.yml:11 restarts it whenever it has stopped; and of the steps of
  each process in `LoadOrGenerateKey`. None on the clock, failures or commands.

## 4. The proofs

TLAPS checks these for all values of the constants that satisfy the named
assumptions (`MailboxAssumption`, `QueueAssumption`, `LimiterAssumption`,
`AccountsAssumption`, `RealIpAssumption`, `KeysAreClients`, `FoldersAssumption`,
`SmtpAssumption`, `DmarcAssumption`, `KeysAssumption`). They are about the types
of the constants; that of `Folders` says also that a name is a sequence of parts
and that with a name there are those of the folders above it. The run has folders
of INBOX only; the theorems of `Folders` hold for folders nested in any depth.

| Theorem | Statement | Argument |
|---|---|---|
| `TypeCorrect` | `Spec => []TypeOK` (Mailbox) | one lemma per group of actions |
| `UidsAreNeverReused` | `Spec => []UidNeverReused` | strengthened by `UidsBelowNext`: every UID ever recorded is below `uidNext`, which only `InsertMessage` moves, in the transaction that uses it |
| `ListingsMissNothing` | `Spec => []ListingMissesNothing` | `ListingInv`: between the two directory reads, whatever was in the folder since the first is among what was found or in `cur/`; needs that files only move from `new/` to `cur/`, that only the holder of `mu` is in a reload, and that a key a delivery is still writing is in `tmp/` |
| `UidsStayTheSame` | no two UIDs for a message that was shown, unless it is in `stranded`, without APPEND | `ShownInv`: what has a UID has left `tmp/` and loses its row only after its file, or is stranded; the list has each key once; a listing under way finds every such file, and has not found what was expunged; what it has listed so far is what was in the list, or has the UID of its row; each victim of an EXPUNGE under way is in the list, gone with its file, or stranded (`Accounted`) |
| `ListHasTheIndexedUids` | `Spec => []ListAgreesWithIndex`, without APPEND | from the same `ShownInv`, with `UidNeverReused` for the strict order |
| `ExpungedNeverReturns` | `Spec => []ExpungedStaysGone`, without APPEND | from the same: a victim of EXPUNGE is in the list, or gone from disk and list, or stranded, whatever reload or flag change runs between its steps |
| `MailboxIsImapFolder` | `Spec => KeepsView`, without APPEND | `ViewInv` on top of `ShownInv`: a file that the reload has found and that is removed since is in the list, so it gets no UID; so what has a UID was shown or is on disk; what was kept from the list by a failure or a crash has a UID above all that was shown; and so has a stranded file once it has one again. Then the end of a reload is `Refresh`, that of an EXPUNGE `Expunge`, the loss of the row of a file that stays `Miss`, a restart `Forget`, and any other step leaves the view alone |
| `IndexHoldsTheFlags` | `Spec => []IndexHoldsFlags`, without APPEND, failing calls and foreign files | `FlagInv` on top of `ShownInv`: only a file that has a UID, or is stranded, has letters, so the row of any other is first written without flags; later ones reach the row while `mu` is held |
| `QueueTypeCorrect` | `Spec => []TypeOK` (Queue) | includes that a spooled item has at most `MaxRetries` attempts |
| `QueueKeepsPromise` | `Spec => KeepsPromise` | `AcceptedFirst`: what was taken, bounced or is in a sweep had been accepted; then every action is a step of `Relay` or leaves `Fate` alone |
| `QueueLosesNothing` | `Spec => []NothingLost`, if bodies can be read and bounces do not fail | `SpoolInv`: the files of an accepted, unsettled message exist in every phase, and the phases that remove them are reached only once it is settled |
| `QueueSettlesOnce` | `Spec => []SettledOnce`, if no host takes a message and its answer is lost | `OnceInv`: a settled message is still in the spool only through a crash or a failed call, and each of these explains one outcome |
| `QueueTriesBounded` | `Spec => []TriesBounded` | `CountInv`: the failed attempts are those that the item counts, on disk between attempts and in memory during one, and one for each crash or failed call |
| `QueueRetriesSpaced` | `Spec => []RetriesSpaced` | `SpacedInv`: what a sweep has yet to attempt was due when the sweep began |
| `LimiterTypeCorrect` | `Spec => []TypeOK` (Limiter) | an entry that is not cut at a ban is shorter than `MaxAttempts` |
| `AccountsTypeCorrect` | `Spec => []TypeOK` (Accounts) | with uniqueness of ids and addresses, from `NewIds`: the counter is above every id in use |
| `SettingsStayOwners` | `Spec => []SettingsAreOwn` | `Remembered`: whatever cache, session or request holds either is the row of its id, or that id is gone for good |
| `AnAdminStays` | `Spec => LastAdminStays` | `DeletersInv`: whoever deletes is an administrator of another address; if his row is still there it survives the deletion |
| `OthersMailStays` | `Spec => OthersKeepTheirMail` | `LaterOwner`: once a row is deleted, its address can only have an owner with a higher id |
| `LimiterKeepsPolicy` | `Spec => KeepsPolicy` | `Agree`: entry and history have the same recent failures, and the same end of a ban in force |
| `LimiterBoundsGuesses` | `Spec => []GuessesBounded` | `GuessInv`: while a key is banned no login of it begins, so each further wrong guess takes one away from those under way |
| `FailuresCountForClients` | `Spec => []ClientIsNotForged` | whatever a client writes stands before the entry that the first proxy adds for it, and all after that are proxies, so the search from the right ends there |
| `TypesCorrect` | `Spec => []TypeOK` (Folders) | `Made`: objects and files that a request refers to were made before; `Locked`: who holds a mutex is at a place of its handler where it will free it |
| `LockOrder` | `Spec => []OnlyMovesDeadlock` | from `Locked`: the holder of `User.mu` can only wait for a folder, and the holder of a folder only at the end of an append, as a COPY or MOVE; so a circle has two of these in a row |
| `FoldersAreShared` | `Spec => []SharedObject` | `Shares`: the object under a name works on the directory of that name; row and object agree except between the steps of a RENAME or DELETE, while it holds `User.mu`, and then its request has both names |
| `MailIsKept` | `Spec => []MailStays` | `Mail`: files are numbered in the order in which they are made, and a move removes only a file whose message has a later one; so the last file of a message goes only with a deleted folder. RENAME puts no two directories in one place (`RenamePlaces`, nested names included) |
| `NoExtraCopies` | `Spec => []CopiesExplained` | from the same: a file that a move has read and then removed itself is counted for that move alone, so each OK leaves one copy and one original less |
| `RulesStayOwners` | `Spec => []OwnRule` | inductive with `OwnId`: the id of an account has its address as owner, and ids are never used again, so `ids` keeps pointing at the owners of `rcpts` |
| `NoOpenRelay` | `Spec => []RelayIsOwn` | `Serves`: a loop over recipients belongs to a session with a user or an open transaction; `SessionIsOwn`: that user is one as whom the client authenticated; `RuleIsOwn`: a rule was made by the owner of the id it is stored under |
| `SmtpDeliversOnce` | `Spec => []DeliveredOnce` | `CopyInv`: at each recipient of the loop, those before it have their copy, and those after it were named once more than they have copies; so it stays when the transaction breaks off and is repeated |
| `SmtpForwardsOnce` | `Spec => []SingleHop` | from the same: before the rule of a mailbox is applied to what it has just got, it has sent on less than it got |
| `QuarantineAsAsked` | `ShouldQuarantine(...) <=> AsksForQuarantine(...)` for every sender's domain, DNS and set of domains that passed | the walk is a recursive function over the number of labels; it ends at the longest domain, from the sender's downwards to the organizational one, that has an answer. The longest exists by the library's well-founded minimum over `Nat`. The organizational domain is the shortest one its holder holds, so the walk stays among the holder's; two domains have the same holder exactly when they have the same organizational domain |
| `JunkIsAskedFor` | `Spec => []QuarantineIsAskedFor` | with `QuarantineAsAsked` for each verdict a message can get; a session keeps that of its transaction |
| `SmtpTypeCorrect` | `Spec => []TypeOK` (Smtp) | the counts are within their bounds by the two before |
| `KeysTypeCorrect` | `Spec => []TypeOK` (Keys) | `Control`: what is known of certificate and key at each step of the start and of a renewal |
| `KeysSignsWithPublished` | `Spec => []SignsWithPublished` | `OneKey`: a key is generated only while there is none, by one process at a time |
| `KeysServesGoodCert` | `Spec => []ServedCertIsGood` | `RenewedInTime`: in each tick in which the certificate was near its end a renewal has failed, or is tried before the next |
| `KeysIssuedForReason` | `Spec => []IssuedForReason` | `IssuedInv`: a certificate is ordered only when no valid one can be loaded or is in use, and a fault has cost each valid one but the last |

Some hypotheses are about the run, not about the constants' types, and each is
needed. Without APPEND means `"append" \notin Kinds`: with it `UidStable`,
`ListAgreesWithIndex` and `ExpungedStaysGone` are violated, as section 3 says, and
so is `KeepsView`.
IMAP and webmail flag, move away and expunge messages in such a history, SMTP
delivers and other tools drop them; what it lacks is APPEND, and COPY and MOVE
into the folder. For the flags, a call that fails between list and index and a
foreign file with letters in its name each leave the two apart. A host that takes
a message whose answer is lost (`"loses" \in Answers`) is sent it again, as with
any SMTP client.

None of the invariants is inductive as the runs state it: `UidNeverReused` says
nothing of the counter, `ListingMissesNothing` nothing of the state between the
two reads, `NothingLost` nothing of the phases that follow, and `SettingsAreOwn`
nothing of the sessions that are yet to change a setting. `AccountsInv`, the
conjunction of the invariants of `Accounts`, was itself model-checked first.

Only model-checked: liveness (`MailAppears`, `KeepsPromiseInTime`, `EntriesGo`,
`ComesUp`; fairness and ENABLED are outside what the prover handles).

## 5. The plan

In this order; what is to be shown is in brackets.

1. `ImapView` over `Mailbox`: tracker queues and per-session counts, against an
   abstract mailbox view, once the contract of go-imap's tracker, which is not
   part of the repository, is settled. [Counts shrink by EXPUNGE only; sequence
   numbers name the message the client means.]
2. The relay settings and `EnsureDomain` in `Accounts`. [A saved relay password is
   not undone by a save that leaves the field blank.]

Not modelled: rendering and parsing of pages, messages and configuration, TLS,
metrics and addresses, the PROXY protocol, the order of shutdown, the
cryptography of DKIM and ARC, the ACME protocol, and SQL beyond the effect of
each statement; UIDVALIDITY and subscriptions.
