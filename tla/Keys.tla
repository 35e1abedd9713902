---------------------------------- MODULE Keys --------------------------------
(***************************************************************************)
(* The secrets that the server keeps in files of its own: the certificate  *)
(* that acmedns.Manager obtains and renews, with the ACME account, and the *)
(* DKIM key, which the server and the command "mailserver dkim show" load  *)
(* or generate.  Files are written in place: a stop or a failure in the    *)
(* middle leaves them torn.  A supervisor starts the server again whenever *)
(* it has stopped (docker-compose.yml:11).                                 *)
(***************************************************************************)
EXTENDS Integers, Sequences, FiniteSets

CONSTANTS
    Lifetime,     \* of a certificate, in ticks
    RenewBefore,  \* renewBefore, in ticks
    MaxTicks,     \* bound: the clock
    MaxCommands,  \* bound: runs of "dkim show"
    MaxStops,     \* bound: orderly stops of the server
    MaxFaults     \* bound: failing calls and crashes

ASSUME KeysAssumption ==
    /\ RenewBefore \in Nat \ {0}
    /\ Lifetime \in Nat /\ Lifetime > RenewBefore
    /\ {MaxTicks, MaxCommands, MaxStops, MaxFaults} \subseteq Nat

None == 0
Torn == -1

\* Who loads or generates the DKIM key.
Procs == {"server", "command"}

VARIABLES
    \* Files: None, Torn, or the number of a certificate or key.
    certFile, keyFile, account, dkimFile,
    \* The server and the command.
    pc,        \* Procs -> the step that comes next
    up,        \* the listeners run
    cert,      \* Manager.cert, None for nil
    dkimKey,   \* the key that the server signs with
    fresh,     \* Procs -> the key that it has generated
    \* The rest of the world.
    certs,     \* the time each certificate expires that was ever issued
    keys,      \* number of DKIM keys ever generated, or begun
    now,
    checked,   \* Run has ticked (every 12 hours) in this tick of the clock
    \* History.
    printed,   \* the DKIM keys whose record was printed
    raced,     \* two processes found no key, and both generate one
    failed,    \* renewals that failed in a row
    commands, stops, faults

files == <<certFile, keyFile, account, dkimFile>>
tlsVars == <<certFile, keyFile, account, cert, certs>>
dkimVars == <<dkimFile, dkimKey, fresh, keys, printed, raced>>
bounds == <<commands, stops, faults>>
vars == <<files, pc, up, cert, dkimKey, fresh, certs, keys, now, checked,
          printed, raced, failed, bounds>>

Init ==
    /\ certFile = None /\ keyFile = None /\ account = None /\ dkimFile = None
    /\ pc = [p \in Procs |-> "down"]
    /\ up = FALSE
    /\ cert = None
    /\ dkimKey = None
    /\ fresh = [p \in Procs |-> None]
    /\ certs = <<>>
    /\ keys = 0
    /\ now = 0
    /\ checked = FALSE
    /\ printed = {}
    /\ raced = FALSE
    /\ failed = 0
    /\ commands = 0 /\ stops = 0 /\ faults = 0

-----------------------------------------------------------------------------

At(p, step) == pc[p] = step
Goto(p, step) == pc' = [pc EXCEPT ![p] = step]

Fault == faults < MaxFaults /\ faults' = faults + 1

\* Mutant: the server starts without a certificate.
MutFails ==
    /\ Goto("server", IF up THEN "idle" ELSE "read")
    /\ failed' = IF up THEN failed + 1 ELSE failed

\* An error of obtain: Run logs it, setupTLS makes the process exit.
Fails ==
    /\ Goto("server", IF up THEN "idle" ELSE "down")
    /\ failed' = IF up THEN failed + 1 ELSE failed

\* Mutant: a certificate is renewed when it has expired.
MutNeedsRenewal(c) == c = None \/ certs[c] - now < 1

NeedsRenewal(c) == c = None \/ certs[c] - now < RenewBefore

\* tls.LoadX509KeyPair: both files are whole and belong together.
Loads == certFile > None /\ certFile = keyFile

-----------------------------------------------------------------------------
(* The certificate *)

Start ==
    /\ At("server", "down")
    /\ Goto("server", "load")
    /\ cert' = None
    /\ checked' = FALSE
    /\ failed' = 0
    /\ UNCHANGED <<certFile, keyFile, account, certs, dkimVars, up, now,
                   bounds>>

\* Mutants: what is cached is not looked at; a pair that does not load is an
\* error.
MutUncached ==
    /\ cert' = None
    /\ Goto("server", "account")
    /\ UNCHANGED faults
MutStrict ==
    /\ cert' = IF Loads THEN certFile ELSE None
    /\ UNCHANGED faults
    /\ Goto("server", IF ~Loads /\ certFile # None THEN "down"
                      ELSE IF NeedsRenewal(cert') THEN "account" ELSE "read")

\* A pair that cannot be read, for once or for good, counts as none.
UseCached ==
    /\ \/ cert' = (IF Loads THEN certFile ELSE None) /\ UNCHANGED faults
       \/ cert' = None /\ Fault
    /\ Goto("server", IF NeedsRenewal(cert') THEN "account" ELSE "read")

\* Init, ensureCertificate.
Load ==
    /\ At("server", "load")
    /\ UseCached
    /\ UNCHANGED <<certFile, keyFile, account, certs, dkimVars, up, now,
                   checked, failed, commands, stops>>

\* Run, an iteration.
Check ==
    /\ up
    /\ At("server", "idle")
    /\ ~checked
    /\ checked' = TRUE
    /\ Goto("server", IF NeedsRenewal(cert) THEN "account" ELSE "idle")
    /\ UNCHANGED <<tlsVars, dkimVars, up, now, failed, bounds>>

\* loadOrRegisterAccount: an account that cannot be parsed is an error, one
\* that cannot be read counts as none.
LoadAccount ==
    /\ At("server", "account")
    /\ \/ account = Torn /\ Fails /\ UNCHANGED faults
       \/ /\ account = 1
          /\ Goto("server", "order")
          /\ UNCHANGED <<failed, faults>>
       \/ /\ \/ account = None /\ UNCHANGED faults
             \/ Fault
          /\ Goto("server", "register")
          /\ UNCHANGED failed
    /\ UNCHANGED <<tlsVars, dkimVars, up, now, checked, commands, stops>>

\* Registration.Register and saveAccount.
Register ==
    /\ At("server", "register")
    /\ account' = 1
    /\ Goto("server", "order")
    /\ UNCHANGED <<certFile, keyFile, cert, certs, dkimVars, up, now, checked,
                   failed, bounds>>

Order ==
    /\ At("server", "order")
    /\ certs' = Append(certs, now + Lifetime)
    /\ Goto("server", "cert file")
    /\ UNCHANGED <<certFile, keyFile, account, cert, dkimVars, up, now,
                   checked, failed, bounds>>

WriteCert ==
    /\ At("server", "cert file")
    /\ certFile' = Len(certs)
    /\ Goto("server", "key file")
    /\ UNCHANGED <<keyFile, account, cert, certs, dkimVars, up, now, checked,
                   failed, bounds>>

\* The last file, and m.cert.
WriteKey ==
    /\ At("server", "key file")
    /\ keyFile' = Len(certs)
    /\ cert' = Len(certs)
    /\ Goto("server", IF up THEN "idle" ELSE "read")
    /\ failed' = 0
    /\ UNCHANGED <<certFile, account, certs, dkimVars, up, now, checked,
                   bounds>>

\* What a write that fails, or is cut short, makes of its file.
CutShort(step, file) == IF At("server", step) THEN {file, Torn} ELSE {file}

WritesCutShort ==
    /\ account' \in CutShort("register", account)
    /\ certFile' \in CutShort("cert file", certFile)
    /\ keyFile' \in CutShort("key file", keyFile)

\* The certificate authority, the DNS provider or a write fails.
ObtainFails ==
    /\ pc["server"] \in {"register", "order", "cert file", "key file"}
    /\ Fault
    /\ WritesCutShort
    /\ Fails
    /\ UNCHANGED <<cert, certs, dkimVars, up, now, checked, commands, stops>>

-----------------------------------------------------------------------------
(* The DKIM key: LoadOrGenerateKey, by the server and by "dkim show" *)

RunCommand ==
    /\ commands < MaxCommands
    /\ commands' = commands + 1
    /\ At("command", "down")
    /\ Goto("command", "read")
    /\ UNCHANGED <<tlsVars, dkimVars, up, now, checked, failed, stops,
                   faults>>

\* The key is in memory: the server listens, the command prints and ends.  A
\* server that has generated it prints it too.
Have(p, key) ==
    IF p = "server"
    THEN /\ dkimKey' = key
         /\ up' = TRUE
         /\ Goto(p, "idle")
         /\ printed' = printed \cup ({fresh[p]} \ {None})
    ELSE /\ printed' = printed \cup {key}
         /\ Goto(p, "down")
         /\ UNCHANGED <<dkimKey, up>>

\* Mutant: a key that cannot be read is generated anew.
MutUnreadable(p) == Goto(p, "generate")

Unreadable(p) == Goto(p, "down")

ReadKey(p) ==
    /\ At(p, "read")
    /\ \/ dkimFile > None /\ Have(p, dkimFile) /\ UNCHANGED <<raced, faults>>
       \/ /\ dkimFile = None
          /\ Goto(p, "generate")
          /\ raced' = (raced \/ \E q \in Procs : At(q, "generate"))
          /\ UNCHANGED <<dkimKey, up, printed, faults>>
       \/ /\ \/ dkimFile = Torn /\ UNCHANGED faults
             \/ Fault
          /\ Unreadable(p)
          /\ UNCHANGED <<dkimKey, up, printed, raced>>
    /\ UNCHANGED <<tlsVars, dkimFile, fresh, keys, now, checked, failed,
                   commands, stops>>

\* The key is made, and WriteFile truncates the file; or one of these, the
\* directory, or the write of the file fails.
GenerateKey(p) ==
    /\ At(p, "generate")
    /\ keys' = keys + 1
    /\ \/ /\ dkimFile' = Torn
          /\ Goto(p, "write")
          /\ fresh' = [fresh EXCEPT ![p] = keys']
          /\ UNCHANGED faults
       \/ /\ dkimFile' \in {dkimFile, Torn}
          /\ Goto(p, "down")
          /\ Fault
          /\ UNCHANGED fresh
    /\ UNCHANGED <<tlsVars, dkimKey, printed, raced, up, now, checked, failed,
                   commands, stops>>

WriteDkim(p) ==
    /\ At(p, "write")
    /\ dkimFile' = fresh[p]
    /\ Have(p, fresh[p])
    /\ fresh' = [fresh EXCEPT ![p] = None]
    /\ UNCHANGED <<tlsVars, keys, raced, now, checked, failed, bounds>>

-----------------------------------------------------------------------------
(* The rest of the world *)

Exit ==
    /\ up' = FALSE
    /\ Goto("server", "down")

Stop ==
    /\ stops < MaxStops
    /\ stops' = stops + 1
    /\ At("server", "idle")
    /\ Exit
    /\ UNCHANGED <<tlsVars, dkimVars, now, checked, failed, commands, faults>>

Crash ==
    /\ Fault
    /\ ~At("server", "down")
    /\ Exit
    /\ WritesCutShort
    /\ fresh' = [fresh EXCEPT !["server"] = None]
    /\ UNCHANGED <<cert, certs, dkimFile, dkimKey, keys, printed, raced, now,
                   checked, failed, commands, stops>>

\* A tick is longer than 12 hours, and than any start or renewal.
Tick ==
    /\ now < MaxTicks
    /\ now' = now + 1
    /\ pc["server"] \in {"down", "idle"}
    /\ up => checked
    /\ checked' = FALSE
    /\ UNCHANGED <<tlsVars, dkimVars, pc, up, failed, bounds>>

-----------------------------------------------------------------------------

Serve ==
    \/ Start
    \/ Load
    \/ Check
    \/ LoadAccount
    \/ Register
    \/ Order
    \/ WriteCert
    \/ WriteKey

DkimStep(p) ==
    \/ ReadKey(p)
    \/ GenerateKey(p)
    \/ WriteDkim(p)

Next ==
    \/ Serve
    \/ ObtainFails
    \/ RunCommand
    \/ \E p \in Procs : DkimStep(p)
    \/ Stop
    \/ Crash
    \/ Tick

Spec == Init /\ [][Next]_vars

\* The supervisor starts the server again, and processes go on.
Fairness ==
    /\ WF_vars(Serve)
    /\ \A p \in Procs : WF_vars(DkimStep(p))

FairSpec == Spec /\ Fairness

-----------------------------------------------------------------------------
(* Properties *)

\* Every variable stays in its type, and a server that serves has its keys.
TypeOK ==
    /\ {certFile, keyFile} \subseteq {Torn} \cup 0..Len(certs)
    /\ account \in {Torn, None, 1}
    /\ dkimFile \in {Torn} \cup 0..keys
    /\ pc \in [Procs -> {"down", "load", "account", "register", "order",
                         "cert file", "key file", "read", "generate", "write",
                         "idle"}]
    /\ up => cert \in 1..Len(certs) /\ dkimKey \in 1..keys
    /\ printed \subseteq 1..keys

\* Restarts do not needlessly issue certificates again (acmedns.go:53), which
\* the authority limits: beyond the first there is one for each that came near
\* its expiry, and for each failure or crash.
IssuedForReason ==
    Len(certs) <= 1 + faults +
        Cardinality({c \in DOMAIN certs : certs[c] - now < RenewBefore})

\* The listeners do not serve an expired certificate unless the renewals of
\* all the margin that renewBefore leaves have failed one after the other.
ServedCertIsGood ==
    up /\ now >= certs[cert] => failed >= RenewBefore - 1

\* The server signs with the key in the file, and every record that was ever
\* printed for the administrator to publish is that of this key, whatever
\* failed or stopped; but for two processes that generate the first key at the
\* same time (dkimsign.go:23).
SignsWithPublished ==
    ~raced =>
        /\ up => dkimKey = dkimFile
        /\ dkimFile # Torn => printed \subseteq {dkimFile}

\* Whatever stopped it, the server comes up again and again; only an account
\* or key file that was cut short keeps it down.
ComesUp == []<>up \/ <>[](account = Torn \/ dkimFile = Torn)

=============================================================================
