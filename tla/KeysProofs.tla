------------------------------- MODULE KeysProofs ------------------------------
(***************************************************************************)
(* Theorems about Keys, for any lifetime of a certificate, any margin for  *)
(* its renewal, and any number of failures, crashes and commands.          *)
(***************************************************************************)
EXTENDS Keys, FiniteSetTheorems, TLAPS

Obtaining == {"account", "register", "order", "cert file", "key file"}
Preparing == {"read", "generate", "write"}

TlsTypes ==
    /\ certs \in Seq(Nat)
    /\ certFile \in {Torn} \cup 0..Len(certs)
    /\ keyFile \in {Torn} \cup 0..Len(certs)
    /\ account \in {Torn, None, 1}
    /\ cert \in 0..Len(certs)
    /\ now \in Nat
    /\ failed \in Nat
    /\ faults \in Nat

DkimTypes ==
    /\ keys \in Nat
    /\ dkimFile \in {Torn} \cup 0..keys
    /\ dkimKey \in 0..keys
    /\ fresh \in [Procs -> 0..keys]
    /\ \A p \in Procs : fresh[p] # None <=> pc[p] = "write"
    /\ printed \subseteq 1..keys

\* What is known of the certificate at each step: a server that serves has
\* one, a server that is about to has one that need not be renewed yet.
Control ==
    /\ pc \in [Procs -> {"down", "load", "idle"} \cup Obtaining \cup Preparing]
    /\ pc["command"] \in {"down"} \cup Preparing
    /\ up \in BOOLEAN
    /\ up => /\ pc["server"] \in {"idle"} \cup Obtaining
             /\ cert # None /\ dkimKey # None
    /\ pc["server"] = "idle" => up
    /\ pc["server"] \in {"cert file", "key file"} =>
          Len(certs) > 0 /\ certs[Len(certs)] = now + Lifetime
    /\ pc["server"] \in Preparing =>
          cert # None /\ certs[cert] - now >= RenewBefore

Types == TlsTypes /\ DkimTypes /\ Control

LEMMA Numbers ==
    /\ RenewBefore \in Nat /\ RenewBefore > 0
    /\ Lifetime \in Nat /\ Lifetime > RenewBefore
  BY KeysAssumption

\* A certificate is added behind the others (Order).
LEMMA Issue ==
    ASSUME NEW s \in Seq(Nat), NEW e \in Nat
    PROVE  /\ Append(s, e) \in Seq(Nat)
           /\ Len(Append(s, e)) = Len(s) + 1
           /\ Append(s, e)[Len(s) + 1] = e
           /\ \A c \in 1..Len(s) : Append(s, e)[c] = s[c]
           /\ Len(s) \in Nat
  OBVIOUS

\* What a write that is cut short leaves is a file of the same kind.
LEMMA CutShortTypes ==
    ASSUME TlsTypes, WritesCutShort
    PROVE  /\ account' \in {Torn, None, 1}
           /\ certFile' \in {Torn} \cup 0..Len(certs)
           /\ keyFile' \in {Torn} \cup 0..Len(certs)
  BY DEF TlsTypes, WritesCutShort, CutShort

LEMMA TlsStep == ASSUME Types, [Next]_vars PROVE TlsTypes'
<1> TlsTypes /\ Control
  BY DEF Types
<1> Len(certs) \in Nat /\ Len(certs) \in 0..Len(certs)
  <2>1. \A n \in Nat : n \in 0..n
    OBVIOUS
  <2>2. Len(certs) \in Nat
    BY DEF TlsTypes
  <2> QED
    BY <2>1, <2>2
<1>1. CASE UNCHANGED vars
  BY <1>1 DEF vars, files, bounds, TlsTypes
<1>2. CASE Start
  BY <1>2, None \in 0..Len(certs) DEF Start, dkimVars, bounds, TlsTypes, None
<1>3. CASE Load
  <2>1. cert' \in 0..Len(certs)
    BY <1>3 DEF Load, UseCached, Loads, TlsTypes, None, Torn
  <2>2. faults' \in {faults, faults + 1}
    BY <1>3 DEF Load, UseCached, Fault
  <2> QED
    BY <1>3, <2>1, <2>2 DEF Load, TlsTypes
<1>4. CASE Check
  BY <1>4 DEF Check, tlsVars, bounds, TlsTypes
<1>5. CASE LoadAccount
  <2>1. failed' \in Nat
    BY <1>5 DEF LoadAccount, Fails, TlsTypes
  <2>2. faults' \in {faults, faults + 1}
    BY <1>5 DEF LoadAccount, Fault
  <2> QED
    BY <1>5, <2>1, <2>2 DEF LoadAccount, tlsVars, TlsTypes
<1>6. CASE Register
  BY <1>6 DEF Register, bounds, TlsTypes
<1>7. CASE Order
  <2>1. now + Lifetime \in Nat
    BY Numbers DEF TlsTypes
  <2>2. /\ certs' \in Seq(Nat) /\ Len(certs') = Len(certs) + 1
        /\ UNCHANGED <<certFile, keyFile, account, cert, now, failed, faults>>
    BY <1>7, <2>1, Issue DEF Order, TlsTypes, bounds
  <2>3. 0..Len(certs) \subseteq 0..Len(certs')
    BY <2>2
  <2> QED
    BY <2>2, <2>3 DEF TlsTypes
<1>8. CASE WriteCert
  BY <1>8 DEF WriteCert, bounds, TlsTypes
<1>9. CASE WriteKey
  BY <1>9 DEF WriteKey, bounds, TlsTypes
<1>10. CASE ObtainFails
  <2>1. failed' \in {failed, failed + 1} /\ faults' = faults + 1
    BY <1>10 DEF ObtainFails, Fails, Fault
  <2>2. /\ account' \in {Torn, None, 1}
        /\ certFile' \in {Torn} \cup 0..Len(certs)
        /\ keyFile' \in {Torn} \cup 0..Len(certs)
    BY <1>10, CutShortTypes DEF ObtainFails
  <2>3. UNCHANGED <<cert, certs, now>>
    BY <1>10 DEF ObtainFails
  <2> QED
    BY <2>1, <2>2, <2>3 DEF TlsTypes
<1>11. CASE RunCommand
  BY <1>11 DEF RunCommand, tlsVars, TlsTypes
<1>12. ASSUME NEW p \in Procs, DkimStep(p) PROVE TlsTypes'
  <2>1. UNCHANGED <<tlsVars, now, failed>>
    BY <1>12 DEF DkimStep, ReadKey, GenerateKey, WriteDkim
  <2>2. faults' \in {faults, faults + 1}
    BY <1>12 DEF DkimStep, ReadKey, GenerateKey, WriteDkim, Fault, bounds
  <2> QED
    BY <2>1, <2>2 DEF tlsVars, TlsTypes
<1>13. CASE Stop
  BY <1>13 DEF Stop, tlsVars, TlsTypes
<1>14. CASE Crash
  <2>1. faults' \in Nat
    BY <1>14 DEF Crash, Fault, TlsTypes
  <2> QED
    BY <1>14, <2>1, CutShortTypes DEF Crash, TlsTypes
<1>15. CASE Tick
  BY <1>15 DEF Tick, tlsVars, bounds, TlsTypes
<1> QED
  BY <1>1, <1>2, <1>3, <1>4, <1>5, <1>6, <1>7, <1>8, <1>9, <1>10, <1>11,
     <1>12, <1>13, <1>14, <1>15 DEF Next, Serve

\* The steps of the server that are not about the DKIM key.
LEMMA DkimFrame ==
    ASSUME Types, Serve \/ ObtainFails \/ RunCommand \/ Stop \/ Crash \/ Tick
    PROVE  /\ UNCHANGED <<dkimFile, dkimKey, keys, printed, raced>>
           /\ \/ UNCHANGED fresh
              \/ fresh' = [fresh EXCEPT !["server"] = None]
           /\ \A p \in Procs : \/ UNCHANGED <<pc[p], fresh[p]>>
                               \/ /\ pc'[p] \notin {"generate", "write"}
                                  /\ fresh'[p] = None
           /\ up' => up
<1> USE DEF At, Goto, Procs
<1> /\ pc \in [Procs -> {"down", "load", "idle"} \cup Obtaining \cup Preparing]
    /\ \A p \in Procs : fresh[p] # None <=> pc[p] = "write"
    /\ fresh \in [Procs -> 0..keys]
  BY DEF Types, Control, DkimTypes
<1>1. CASE Serve
  <2>1. UNCHANGED dkimVars /\ UNCHANGED up
    BY <1>1 DEF Serve, Start, Load, Check, LoadAccount, Register, Order,
                WriteCert, WriteKey
  <2>2. /\ pc["server"] \notin Preparing
        /\ pc'["server"] \notin {"generate", "write"}
        /\ pc'["command"] = pc["command"]
    BY <1>1 DEF Serve, Start, Load, Check, LoadAccount, Register, Order,
                WriteCert, WriteKey, UseCached, Fails, Obtaining, Preparing
  <2>3. fresh["server"] = None
    BY <2>2 DEF Preparing
  <2> QED
    BY <2>1, <2>2, <2>3 DEF dkimVars
<1>2. CASE ObtainFails
  <2>1. /\ pc["server"] \in {"register", "order", "cert file", "key file"}
        /\ pc'["server"] \in {"idle", "down"} /\ pc'["command"] = pc["command"]
        /\ UNCHANGED dkimVars /\ UNCHANGED up
    BY <1>2 DEF ObtainFails, Fails
  <2> QED
    BY <2>1 DEF dkimVars
<1>3. CASE RunCommand
  BY <1>3 DEF RunCommand, dkimVars
<1>4. CASE Stop
  BY <1>4 DEF Stop, Exit, dkimVars
<1>5. CASE Crash
  BY <1>5 DEF Crash, Exit
<1>6. CASE Tick
  BY <1>6 DEF Tick, dkimVars
<1> QED
  BY <1>1, <1>2, <1>3, <1>4, <1>5, <1>6

\* What having the key changes.
LEMMA HaveStep ==
    ASSUME Types, NEW p \in Procs, NEW key \in 1..keys, Have(p, key)
    PROVE  /\ pc' = [pc EXCEPT ![p] = IF p = "server" THEN "idle" ELSE "down"]
           /\ printed' \subseteq printed \cup ({key, fresh[p]} \ {None})
           /\ p = "server" => up' = TRUE /\ dkimKey' = key
           /\ p # "server" => UNCHANGED <<up, dkimKey>>
<1>1. None \notin printed /\ key # None
  BY DEF Types, DkimTypes, None
<1> QED
  BY <1>1 DEF Have, Goto

LEMMA DkimTypesStep == ASSUME Types, [Next]_vars PROVE DkimTypes'
<1> DkimTypes /\ Control
  BY DEF Types
<1> /\ keys \in Nat /\ dkimFile \in {Torn} \cup 0..keys
    /\ dkimKey \in 0..keys /\ fresh \in [Procs -> 0..keys]
    /\ \A q \in Procs : fresh[q] # None <=> pc[q] = "write"
    /\ printed \subseteq 1..keys
    /\ pc \in [Procs -> {"down", "load", "idle"} \cup Obtaining \cup Preparing]
  BY DEF DkimTypes, Control
<1>1. CASE UNCHANGED vars
  BY <1>1 DEF vars, files, DkimTypes
<1>2. CASE Serve \/ ObtainFails \/ RunCommand \/ Stop \/ Crash \/ Tick
  <2>1. /\ UNCHANGED <<dkimFile, dkimKey, keys, printed>>
        /\ \/ UNCHANGED fresh
           \/ fresh' = [fresh EXCEPT !["server"] = None]
        /\ \A p \in Procs : \/ UNCHANGED <<pc[p], fresh[p]>>
                            \/ /\ pc'[p] \notin {"generate", "write"}
                               /\ fresh'[p] = None
    BY <1>2, DkimFrame
  <2>2. fresh' \in [Procs -> 0..keys]
    BY <2>1 DEF None
  <2> QED
    BY <2>1, <2>2 DEF DkimTypes
<1>3. ASSUME NEW p \in Procs, ReadKey(p) PROVE DkimTypes'
  <2>1. /\ UNCHANGED <<dkimFile, fresh, keys>> /\ pc[p] = "read"
        /\ fresh[p] = None
    BY <1>3 DEF ReadKey, At
  <2>2. CASE dkimFile > None /\ Have(p, dkimFile)
    <3>1. dkimFile \in 1..keys
      BY <2>2 DEF None, Torn
    <3>2. /\ pc' = [pc EXCEPT ![p] = IF p = "server" THEN "idle" ELSE "down"]
          /\ printed' \subseteq printed \cup {dkimFile}
          /\ dkimKey' \in {dkimKey, dkimFile}
      BY <2>1, <2>2, <3>1, HaveStep
    <3> QED
      BY <2>1, <3>1, <3>2 DEF DkimTypes
  <2>3. CASE /\ Goto(p, "generate") \/ Unreadable(p)
             /\ UNCHANGED <<dkimKey, printed>>
    BY <2>1, <2>3 DEF Goto, Unreadable, DkimTypes
  <2> QED
    BY <1>3, <2>2, <2>3 DEF ReadKey
<1>4. ASSUME NEW p \in Procs, GenerateKey(p) PROVE DkimTypes'
  <2>1. /\ keys' = keys + 1 /\ dkimFile' \in {dkimFile, Torn}
        /\ UNCHANGED <<dkimKey, printed>> /\ pc[p] = "generate"
        /\ \/ /\ pc' = [pc EXCEPT ![p] = "write"]
              /\ fresh' = [fresh EXCEPT ![p] = keys']
           \/ /\ pc' = [pc EXCEPT ![p] = "down"] /\ UNCHANGED fresh
    BY <1>4 DEF GenerateKey, At, Goto
  <2>2. 0..keys \subseteq 0..keys' /\ 1..keys \subseteq 1..keys'
        /\ keys' \in Nat /\ keys' \in 0..keys' /\ keys' # None
    BY <2>1 DEF None
  <2>3. fresh' \in [Procs -> 0..keys']
    BY <2>1, <2>2
  <2>4. \A q \in Procs : fresh'[q] # None <=> pc'[q] = "write"
    BY <2>1, <2>2
  <2> QED
    BY <2>1, <2>2, <2>3, <2>4 DEF DkimTypes
<1>5. ASSUME NEW p \in Procs, WriteDkim(p) PROVE DkimTypes'
  <2>1. fresh[p] \in 1..keys
    BY <1>5 DEF WriteDkim, At, None
  <2>2. /\ keys' = keys /\ dkimFile' = fresh[p]
        /\ fresh' = [fresh EXCEPT ![p] = None]
        /\ pc' = [pc EXCEPT ![p] = IF p = "server" THEN "idle" ELSE "down"]
        /\ printed' \subseteq printed \cup {fresh[p]}
        /\ dkimKey' \in {dkimKey, fresh[p]}
    BY <1>5, <2>1, HaveStep DEF WriteDkim
  <2>3. fresh' \in [Procs -> 0..keys]
    BY <2>2 DEF None
  <2> QED
    BY <2>1, <2>2, <2>3 DEF DkimTypes
<1> QED
  BY <1>1, <1>2, <1>3, <1>4, <1>5 DEF Next, DkimStep

LEMMA ControlStep == ASSUME Types, [Next]_vars PROVE Control'
<1> TlsTypes /\ DkimTypes /\ Control
  BY DEF Types
<1> USE DEF At, Goto, Procs
<1>0. /\ pc \in [Procs -> {"down", "load", "idle"} \cup Obtaining
                                                   \cup Preparing]
      /\ pc["command"] \in {"down"} \cup Preparing
      /\ up \in BOOLEAN
      /\ up => /\ pc["server"] \in {"idle"} \cup Obtaining
               /\ cert # None /\ dkimKey # None
      /\ pc["server"] = "idle" => up
      /\ pc["server"] \in Preparing =>
            cert # None /\ certs[cert] - now >= RenewBefore
  BY DEF Control
<1>1. CASE UNCHANGED vars
  BY <1>1 DEF vars, Control
<1>2. CASE Start
  BY <1>0, <1>2
     DEF Start, dkimVars, Control, Obtaining, Preparing
<1>3. CASE Load
  <2>1. /\ pc["server"] = "load" /\ UNCHANGED <<up, certs, now>>
        /\ cert' \in {IF Loads THEN certFile ELSE None, None}
        /\ pc' = [pc EXCEPT !["server"] =
                     IF NeedsRenewal(cert') THEN "account" ELSE "read"]
    BY <1>3 DEF Load, UseCached
  <2>2. ~NeedsRenewal(cert') =>
            cert' # None /\ certs[cert'] - now >= RenewBefore
    <3>1. ASSUME cert' # None PROVE certs[cert'] \in Nat
      BY <2>1, <3>1 DEF Loads, TlsTypes, None, Torn
    <3> QED
      BY <3>1, Numbers DEF NeedsRenewal, TlsTypes
  <2> QED
    BY <1>0, <2>1, <2>2 DEF Control, Obtaining, Preparing
<1>4. CASE Check
  <2>1. /\ pc["server"] = "idle" /\ UNCHANGED <<up, cert, dkimKey, certs, now>>
        /\ up
        /\ \/ pc' = [pc EXCEPT !["server"] = "account"]
           \/ pc' = [pc EXCEPT !["server"] = "idle"]
    BY <1>4 DEF Check, tlsVars, dkimVars
  <2> QED
    BY <1>0, <2>1 DEF Control, Obtaining, Preparing
\* A step that goes on, or that fails, without touching a certificate.
<1>5. ASSUME UNCHANGED <<up, cert, dkimKey>>,
             pc["server"] \in Obtaining,
             \/ pc' = [pc EXCEPT !["server"] = "register"]
             \/ pc' = [pc EXCEPT !["server"] = "order"]
             \/ Fails
      PROVE  Control'
  BY <1>0, <1>5 DEF Fails, Control, Obtaining, Preparing
<1>6. CASE LoadAccount
  BY <1>5, <1>6 DEF LoadAccount, tlsVars, dkimVars, Obtaining
<1>7. CASE Register
  BY <1>5, <1>7 DEF Register, dkimVars, Obtaining
<1>8. CASE ObtainFails
  BY <1>5, <1>8 DEF ObtainFails, dkimVars, Obtaining
<1>9. CASE Order
  <2>1. /\ pc["server"] = "order" /\ UNCHANGED <<up, cert, dkimKey, now>>
        /\ certs' = Append(certs, now + Lifetime)
        /\ pc' = [pc EXCEPT !["server"] = "cert file"]
    BY <1>9 DEF Order, dkimVars
  <2>2. Len(certs') > 0 /\ certs'[Len(certs')] = now + Lifetime
    <3>1. certs \in Seq(Nat) /\ now + Lifetime \in Nat
      BY Numbers DEF TlsTypes
    <3>2. /\ Len(certs') = Len(certs) + 1 /\ Len(certs) \in Nat
          /\ certs'[Len(certs) + 1] = now + Lifetime
      BY <2>1, <3>1, Issue
    <3> QED
      BY <3>2
  <2> QED
    BY <1>0, <2>1, <2>2 DEF Control, Obtaining, Preparing
<1>10. CASE WriteCert
  <2>1. /\ pc["server"] = "cert file"
        /\ UNCHANGED <<up, cert, dkimKey, certs, now>>
        /\ pc' = [pc EXCEPT !["server"] = "key file"]
    BY <1>10 DEF WriteCert, dkimVars
  <2> QED
    BY <1>0, <2>1 DEF Control, Obtaining, Preparing
<1>11. CASE WriteKey
  <2>1. /\ pc["server"] = "key file" /\ UNCHANGED <<up, dkimKey, certs, now>>
        /\ cert' = Len(certs)
        /\ pc' = [pc EXCEPT !["server"] = IF up THEN "idle" ELSE "read"]
    BY <1>11 DEF WriteKey, dkimVars
  <2>2. cert' # None /\ certs[cert'] - now >= RenewBefore
    <3>1. Len(certs) > 0 /\ certs[Len(certs)] = now + Lifetime
      BY <2>1 DEF Control
    <3>2. now \in Nat /\ Len(certs) \in Nat
      BY DEF TlsTypes
    <3>3. (now + Lifetime) - now >= RenewBefore
      BY <3>2, Numbers
    <3>4. certs[cert'] = now + Lifetime
      BY <2>1, <3>1
    <3>5. cert' # None
      <4>1. \A n \in Nat : n > 0 => n # None
        BY DEF None
      <4>2. cert' = Len(certs)
        BY <2>1
      <4> QED
        BY <3>1, <3>2, <4>1, <4>2
    <3> QED
      BY <3>3, <3>4, <3>5
  <2> QED
    BY <1>0, <2>1, <2>2 DEF Control, Obtaining, Preparing
<1>12. CASE RunCommand
  BY <1>0, <1>12 DEF RunCommand, tlsVars, dkimVars, Control, Preparing
<1>13. ASSUME NEW p \in Procs, DkimStep(p) PROVE Control'
  <2>1. /\ UNCHANGED <<cert, certs, now>> /\ pc[p] \in Preparing
        /\ \/ /\ \/ pc' = [pc EXCEPT ![p] = "generate"]
                 \/ pc' = [pc EXCEPT ![p] = "write"]
                 \/ pc' = [pc EXCEPT ![p] = "down"]
              /\ UNCHANGED <<up, dkimKey>>
           \/ \E key \in 1..keys : Have(p, key)
    <3>1. CASE ReadKey(p)
      <4>1. dkimFile > None => dkimFile \in 1..keys
        BY DEF DkimTypes, None, Torn
      <4> QED
        BY <3>1, <4>1 DEF ReadKey, Unreadable, tlsVars, Preparing
    <3>2. CASE GenerateKey(p)
      BY <3>2 DEF GenerateKey, tlsVars, Preparing
    <3>3. CASE WriteDkim(p)
      <4>1. fresh[p] \in 1..keys
        BY <3>3 DEF WriteDkim, DkimTypes, None
      <4> QED
        BY <3>3, <4>1 DEF WriteDkim, tlsVars, Preparing
    <3> QED
      BY <1>13, <3>1, <3>2, <3>3 DEF DkimStep
  <2>2. ASSUME NEW key \in 1..keys, Have(p, key) PROVE Control'
    <3>1. /\ pc' = [pc EXCEPT ![p] = IF p = "server" THEN "idle" ELSE "down"]
          /\ p = "server" => up' = TRUE /\ dkimKey' = key
          /\ p # "server" => UNCHANGED <<up, dkimKey>>
      BY <2>2, HaveStep
    <3>2. key # None
      BY DEF None
    <3>3. CASE p = "server"
      <4>1. /\ cert' # None /\ dkimKey' # None /\ up' = TRUE
            /\ UNCHANGED <<certs, now>>
        BY <1>0, <2>1, <3>1, <3>2, <3>3
      <4>2. /\ pc' = [pc EXCEPT !["server"] = "idle"]
        BY <3>1, <3>3
      <4>3. pc'["server"] = "idle" /\ pc'["command"] = pc["command"]
        BY <1>0, <4>2
      <4> QED
        BY <1>0, <4>1, <4>2, <4>3 DEF Control, Obtaining, Preparing
    <3>4. CASE p = "command"
      <4>1. UNCHANGED <<up, dkimKey, cert, certs, now>>
        BY <2>1, <3>1, <3>4
      <4>2. pc' = [pc EXCEPT !["command"] = "down"]
        BY <3>1, <3>4
      <4>3. pc'["command"] = "down" /\ pc'["server"] = pc["server"]
        BY <1>0, <4>2
      <4> QED
        BY <1>0, <4>1, <4>2, <4>3 DEF Control
    <3> QED
      BY <3>3, <3>4
  <2>3. CASE /\ \/ pc' = [pc EXCEPT ![p] = "generate"]
                \/ pc' = [pc EXCEPT ![p] = "write"]
                \/ pc' = [pc EXCEPT ![p] = "down"]
             /\ UNCHANGED <<up, dkimKey>>
    <3>1. CASE p = "server"
      BY <1>0, <2>1, <2>3, <3>1 DEF Control, Obtaining, Preparing
    <3>2. CASE p = "command"
      BY <1>0, <2>1, <2>3, <3>2 DEF Control, Obtaining, Preparing
    <3> QED
      BY <3>1, <3>2
  <2> QED
    BY <2>1, <2>2, <2>3
<1>14. CASE Stop \/ Crash
  <2>1. /\ up' = FALSE /\ pc' = [pc EXCEPT !["server"] = "down"]
        /\ UNCHANGED <<certs, now>>
    BY <1>14 DEF Stop, Crash, Exit, tlsVars
  <2> QED
    BY <1>0, <2>1 DEF Control, Obtaining, Preparing
<1>15. CASE Tick
  BY <1>0, <1>15 DEF Tick, tlsVars, dkimVars, Control, Obtaining, Preparing
<1> QED
  BY <1>1, <1>2, <1>3, <1>4, <1>6, <1>7, <1>8, <1>9, <1>10, <1>11,
     <1>12, <1>13, <1>14, <1>15 DEF Next, Serve

LEMMA TypesAlways == Spec => []Types
<1>1. Init => Types
  <2> SUFFICES ASSUME Init PROVE Types
    OBVIOUS
  <2> USE DEF Init, None, Procs
  <2>1. TlsTypes
    BY DEF TlsTypes
  <2>2. DkimTypes
    BY DEF DkimTypes
  <2>3. Control
    BY DEF Control, Obtaining, Preparing
  <2> QED
    BY <2>1, <2>2, <2>3 DEF Types
<1>2. Types /\ [Next]_vars => Types'
  <2> SUFFICES ASSUME Types, [Next]_vars PROVE Types'
    OBVIOUS
  <2> QED
    BY TlsStep, DkimTypesStep, ControlStep DEF Types
<1> QED
  BY <1>1, <1>2, PTL DEF Spec

\* TypeOK for every instance: in particular a server that serves has a
\* certificate that was issued, and a DKIM key that was generated (setupTLS and
\* LoadOrGenerateKey come before the listeners).
THEOREM KeysTypeCorrect == Spec => []TypeOK
<1>1. Types => TypeOK
  <2> SUFFICES ASSUME Types PROVE TypeOK
    OBVIOUS
  <2>1. up => cert \in 1..Len(certs) /\ dkimKey \in 1..keys
    <3>1. /\ cert \in 0..Len(certs) /\ Len(certs) \in Nat
          /\ dkimKey \in 0..keys /\ keys \in Nat
      BY DEF Types, TlsTypes, DkimTypes
    <3>2. up => cert # 0 /\ dkimKey # 0
      BY DEF Types, Control, None
    <3> QED
      BY <3>1, <3>2
  <2>2. pc \in [Procs -> {"down", "load", "account", "register", "order",
                          "cert file", "key file", "read", "generate",
                          "write", "idle"}]
    BY DEF Types, Control, Obtaining, Preparing
  <2> QED
    BY <2>1, <2>2 DEF Types, TlsTypes, DkimTypes, TypeOK
<1> QED
  BY <1>1, TypesAlways, PTL

-----------------------------------------------------------------------------
(* The key that the server signs with is the one that was published *)

\* What makes SignsWithPublished inductive: a key is generated only while there
\* is none, by one process at a time; as long as the file is torn nothing was
\* printed, and nobody signs.
OneKey ==
    ~raced =>
        /\ \A p \in Procs : /\ pc[p] = "generate" => dkimFile = None
                            /\ pc[p] = "write" => dkimFile = Torn
        /\ \A p, q \in Procs :
               pc[p] = pc[q] /\ pc[p] \in {"generate", "write"} => p = q
        /\ printed \subseteq IF dkimFile > None THEN {dkimFile} ELSE {}
        /\ up => dkimKey = dkimFile

LEMMA OneKeyStep == ASSUME Types, OneKey, [Next]_vars PROVE OneKey'
<1> DEFINE Published(f) == IF f > None THEN {f} ELSE {}
<1>0. /\ keys \in Nat /\ dkimFile \in {Torn} \cup 0..keys
      /\ fresh \in [Procs -> 0..keys]
      /\ \A p \in Procs : fresh[p] # None <=> pc[p] = "write"
      /\ pc \in [Procs -> {"down", "load", "idle"} \cup Obtaining
                                                   \cup Preparing]
      /\ up => /\ pc["server"] \in {"idle"} \cup Obtaining
               /\ dkimKey # None
      /\ dkimKey \in 0..keys
  BY DEF Types, DkimTypes, Control
<1>1. CASE UNCHANGED vars
  BY <1>1 DEF vars, files, OneKey
<1>2. CASE Serve \/ ObtainFails \/ RunCommand \/ Stop \/ Crash \/ Tick
  <2>1. /\ UNCHANGED <<dkimFile, dkimKey, printed, raced>>
        /\ \A p \in Procs : \/ UNCHANGED <<pc[p], fresh[p]>>
                            \/ pc'[p] \notin {"generate", "write"}
        /\ up' => up
    BY <1>2, DkimFrame
  <2> QED
    BY <2>1 DEF OneKey
\* The rest is about a process p that prepares its key, in the absence of a race.
<1>3. ASSUME NEW p \in Procs, DkimStep(p), ~raced' PROVE OneKey'
  <2>1. ~raced
    BY <1>3 DEF DkimStep, ReadKey, GenerateKey, WriteDkim
  <2>2. /\ \A q \in Procs : /\ pc[q] = "generate" => dkimFile = None
                            /\ pc[q] = "write" => dkimFile = Torn
        /\ \A q, r \in Procs :
               pc[q] = pc[r] /\ pc[q] \in {"generate", "write"} => q = r
        /\ printed \subseteq Published(dkimFile)
        /\ up => dkimKey = dkimFile
    BY <2>1 DEF OneKey
  <2>3. /\ Published(None) = {} /\ Published(Torn) = {}
        /\ \A key \in 1..keys : /\ Published(key) = {key}
                                /\ key # None /\ key # Torn
        /\ None # Torn
    BY DEF None, Torn
  <2> HIDE DEF Published
  <2>4. SUFFICES /\ \A q \in Procs : /\ pc'[q] = "generate" => dkimFile' = None
                                     /\ pc'[q] = "write" => dkimFile' = Torn
                 /\ \A q, r \in Procs :
                        pc'[q] = pc'[r] /\ pc'[q] \in {"generate", "write"}
                            => q = r
                 /\ printed' \subseteq Published(dkimFile')
                 /\ up' => dkimKey' = dkimFile'
    BY DEF OneKey, Published
  <2>5. CASE ReadKey(p)
    <3>1. UNCHANGED <<dkimFile, fresh>> /\ pc[p] = "read" /\ fresh[p] = None
      BY <1>0, <2>5 DEF ReadKey, At
    <3>2. CASE dkimFile > None /\ Have(p, dkimFile)
      <4>1. dkimFile \in 1..keys
        BY <1>0, <3>2 DEF None, Torn
      <4>2. /\ pc' = [pc EXCEPT ![p] = IF p = "server" THEN "idle"
                                                      ELSE "down"]
            /\ printed' \subseteq printed \cup {dkimFile}
            /\ p = "server" => dkimKey' = dkimFile
            /\ p # "server" => UNCHANGED <<up, dkimKey>>
        BY <3>1, <3>2, <4>1, HaveStep
      <4> QED
        BY <1>0, <2>2, <2>3, <3>1, <4>1, <4>2
    <3>3. CASE /\ dkimFile = None /\ Goto(p, "generate")
               /\ raced' = (raced \/ \E q \in Procs : At(q, "generate"))
               /\ UNCHANGED <<dkimKey, up, printed>>
      BY <1>0, <1>3, <2>2, <2>3, <3>1, <3>3 DEF At, Goto
    <3>4. CASE Unreadable(p) /\ UNCHANGED <<dkimKey, up, printed>>
      BY <1>0, <2>2, <3>1, <3>4 DEF Unreadable, Goto
    <3> QED
      BY <2>5, <3>2, <3>3, <3>4 DEF ReadKey
  <2>6. CASE GenerateKey(p)
    <3>1. /\ dkimFile' \in {dkimFile, Torn}
          /\ UNCHANGED <<dkimKey, printed, up>>
          /\ pc[p] = "generate"
          /\ \/ pc' = [pc EXCEPT ![p] = "write"] /\ dkimFile' = Torn
             \/ pc' = [pc EXCEPT ![p] = "down"]
      BY <2>6 DEF GenerateKey, At, Goto
    <3>2. dkimFile = None /\ printed = {} /\ ~up
      BY <1>0, <2>2, <2>3, <3>1
    <3>3. \A q \in Procs \ {p} : pc[q] \notin {"generate", "write"}
      BY <2>2, <2>3, <3>1, <3>2
    <3> QED
      BY <1>0, <2>3, <3>1, <3>2, <3>3
  <2>7. CASE WriteDkim(p)
    <3>1. pc[p] = "write" /\ dkimFile' = fresh[p] /\ fresh[p] \in 1..keys
      BY <1>0, <2>7 DEF WriteDkim, At, None
    <3>2. /\ pc' = [pc EXCEPT ![p] = IF p = "server" THEN "idle" ELSE "down"]
          /\ printed' \subseteq printed \cup {fresh[p]}
          /\ p = "server" => dkimKey' = fresh[p]
          /\ p # "server" => UNCHANGED <<up, dkimKey>>
      BY <2>7, <3>1, HaveStep DEF WriteDkim
    <3>3. dkimFile = Torn /\ printed = {} /\ ~up
      <4>1. dkimFile = Torn /\ printed = {}
        BY <2>2, <2>3, <3>1
      <4>2. dkimFile \notin 0..keys
        BY <1>0, <4>1 DEF Torn
      <4> QED
        BY <1>0, <2>2, <4>1, <4>2
    <3>4. \A q \in Procs \ {p} : pc[q] \notin {"generate", "write"}
      BY <2>2, <2>3, <3>1, <3>3
    <3> QED
      BY <1>0, <2>3, <3>1, <3>2, <3>3, <3>4
  <2> QED
    BY <1>3, <2>5, <2>6, <2>7 DEF DkimStep
<1> QED
  BY <1>1, <1>2, <1>3 DEF Next, OneKey

\* SignsWithPublished for every instance: unless two processes generate the
\* first key at the same time, there is only ever one key, and what is torn was
\* never published.
THEOREM KeysSignsWithPublished == Spec => []SignsWithPublished
<1>1. Init => OneKey
  BY DEF Init, OneKey, None, Procs
<1>2. OneKey => SignsWithPublished
  BY DEF OneKey, SignsWithPublished
<1> QED
  BY <1>1, <1>2, OneKeyStep, TypesAlways, PTL DEF Spec

-----------------------------------------------------------------------------
(* The certificate that is served *)

\* What makes ServedCertIsGood inductive: in each tick in which the certificate
\* was near its end, a renewal has failed, or will be tried before the next.
RenewedInTime ==
    up => certs[cert] + failed >=
              now + RenewBefore
                  - (IF checked /\ pc["server"] = "idle" THEN 0 ELSE 1)

LEMMA ServedTypes ==
    ASSUME Types
    PROVE  /\ now \in Nat /\ failed \in Nat /\ certs \in Seq(Nat)
           /\ up => cert \in 1..Len(certs) /\ certs[cert] \in Nat
           /\ pc["server"] \in Preparing =>
                 cert \in 1..Len(certs) /\ certs[cert] \in Nat
<1>1. /\ now \in Nat /\ failed \in Nat /\ certs \in Seq(Nat)
      /\ cert \in 0..Len(certs) /\ Len(certs) \in Nat
  BY DEF Types, TlsTypes
<1>2. /\ up => cert # 0
      /\ pc["server"] \in Preparing => cert # 0
  BY DEF Types, Control, None
<1>3. cert # 0 => cert \in 1..Len(certs)
  BY <1>1
<1>4. cert \in 1..Len(certs) => certs[cert] \in Nat
  BY <1>1
<1> QED
  BY <1>1, <1>2, <1>3, <1>4

LEMMA RenewedInTimeStep ==
    ASSUME Types, RenewedInTime, [Next]_vars
    PROVE  RenewedInTime'
<1> DEFINE c == certs[cert]
<1> USE DEF At, Goto, Procs
<1>0. /\ pc \in [Procs -> {"down", "load", "idle"} \cup Obtaining
                                                   \cup Preparing]
      /\ up => pc["server"] \in {"idle"} \cup Obtaining
      /\ pc["server"] = "idle" => up
      /\ up \in BOOLEAN
  BY DEF Types, Control
<1>1. /\ now \in Nat /\ failed \in Nat /\ RenewBefore \in Nat
      /\ up => c \in Nat
  BY ServedTypes, Numbers
\* A step of a server that serves, which does not end a check.
<1>2. ASSUME UNCHANGED <<cert, certs, now, failed>>,
             up' => up,
             up' => pc'["server"] # "idle" \/ UNCHANGED <<pc["server"], checked>>
      PROVE  RenewedInTime'
  <2> SUFFICES ASSUME up'
               PROVE  c + failed >= now + RenewBefore
                          - (IF checked' /\ pc'["server"] = "idle"
                             THEN 0 ELSE 1)
    BY <1>2 DEF RenewedInTime
  <2>1. up /\ c \in Nat
    BY <1>1, <1>2
  <2>2. c + failed >= now + RenewBefore - 1
    BY <1>1, <2>1 DEF RenewedInTime
  <2>3. CASE checked' /\ pc'["server"] = "idle"
    <3>1. checked /\ pc["server"] = "idle"
      BY <1>2, <2>3
    <3> QED
      BY <2>1, <2>3, <3>1 DEF RenewedInTime
  <2> QED
    BY <2>2, <2>3
<1>3. CASE UNCHANGED vars
  BY <1>2, <1>3 DEF vars, files
<1>4. CASE Start
  <2>1. ~up'
    BY <1>0, <1>4 DEF Start, Obtaining
  <2> QED
    BY <2>1 DEF RenewedInTime
<1>5. CASE Load
  <2>1. ~up'
    BY <1>0, <1>5 DEF Load, Obtaining
  <2> QED
    BY <2>1 DEF RenewedInTime
<1>6. CASE Check
  <2>1. /\ up /\ UNCHANGED <<up, cert, certs, now, failed>> /\ checked' = TRUE
        /\ ~checked
        /\ pc' = [pc EXCEPT !["server"] =
                     IF NeedsRenewal(cert) THEN "account" ELSE "idle"]
    BY <1>6 DEF Check, tlsVars
  <2>2. CASE NeedsRenewal(cert)
    BY <1>0, <1>2, <2>1, <2>2
  <2>3. CASE ~NeedsRenewal(cert)
    <3>1. c - now >= RenewBefore
      BY <1>1, <2>1, <2>3 DEF NeedsRenewal
    <3>2. c + failed >= now + RenewBefore
      BY <1>1, <2>1, <3>1
    <3>3. checked' /\ pc'["server"] = "idle"
      BY <1>0, <2>1, <2>3
    <3> QED
      BY <1>1, <2>1, <3>2, <3>3 DEF RenewedInTime
  <2> QED
    BY <2>2, <2>3
\* A renewal that fails counts.
<1>7. ASSUME Fails, UNCHANGED <<up, cert, certs, now>>,
             pc["server"] \in Obtaining
      PROVE  RenewedInTime'
  <2> SUFFICES ASSUME up
               PROVE  c + failed' >= now + RenewBefore
                          - (IF checked' /\ pc'["server"] = "idle"
                             THEN 0 ELSE 1)
    BY <1>7 DEF RenewedInTime
  <2>1. failed' = failed + 1
    BY <1>7 DEF Fails
  <2>2. c + failed >= now + RenewBefore - 1
    BY <1>7 DEF RenewedInTime, Obtaining
  <2> QED
    BY <1>1, <2>1, <2>2
<1>8. CASE LoadAccount
  <2>1. UNCHANGED <<up, cert, certs, now, checked>> /\ pc["server"] \in Obtaining
    BY <1>8 DEF LoadAccount, tlsVars, Obtaining
  <2>2. CASE Fails
    BY <1>7, <2>1, <2>2
  <2>3. CASE /\ Goto("server", "register") \/ Goto("server", "order")
             /\ UNCHANGED failed
    <3>1. pc'["server"] # "idle"
      BY <1>0, <2>3
    <3> QED
      BY <1>2, <2>1, <2>3, <3>1
  <2> QED
    BY <1>8, <2>2, <2>3 DEF LoadAccount
<1>9. CASE Register \/ WriteCert
  <2>1. /\ UNCHANGED <<up, cert, certs, now, failed>>
        /\ pc'["server"] # "idle"
    BY <1>0, <1>9 DEF Register, WriteCert
  <2> QED
    BY <1>2, <2>1
<1>10. CASE Order
  <2>1. /\ UNCHANGED <<up, cert, now, failed>> /\ pc["server"] # "idle"
        /\ pc'["server"] # "idle" /\ certs' = Append(certs, now + Lifetime)
    BY <1>0, <1>10 DEF Order
  <2>2. up => certs'[cert] = c
    <3>1. now + Lifetime \in Nat
      BY <1>1, Numbers
    <3> QED
      BY <2>1, <3>1, ServedTypes, Issue
  <2> QED
    BY <1>1, <2>1, <2>2 DEF RenewedInTime
<1>11. CASE WriteKey
  <2>1. /\ UNCHANGED <<up, certs, now>> /\ failed' = 0 /\ cert' = Len(certs)
        /\ certs[Len(certs)] = now + Lifetime
    BY <1>11 DEF WriteKey, Types, Control
  <2>2. certs'[cert'] = now + Lifetime /\ failed' = 0 /\ now' = now
    BY <2>1
  <2>3. /\ (now + Lifetime) + 0 >= now + RenewBefore - 0
        /\ (now + Lifetime) + 0 >= now + RenewBefore - 1
    BY <1>1, Numbers
  <2> QED
    BY <2>2, <2>3 DEF RenewedInTime
<1>12. CASE ObtainFails
  BY <1>7, <1>12 DEF ObtainFails, Obtaining
<1>13. CASE RunCommand
  BY <1>0, <1>2, <1>13 DEF RunCommand, tlsVars
<1>14. ASSUME NEW p \in Procs, DkimStep(p) PROVE RenewedInTime'
  <2>1. UNCHANGED <<cert, certs, now, failed, checked>> /\ pc[p] \in Preparing
    BY <1>14
       DEF DkimStep, ReadKey, GenerateKey, WriteDkim, tlsVars, Preparing
  <2>2. CASE p = "server"
    <3>1. c \in Nat /\ c - now >= RenewBefore
      BY <2>1, <2>2, ServedTypes DEF Types, Control
    <3>2. c + failed >= now + RenewBefore
      BY <1>1, <3>1
    <3>3. c + failed >= now + RenewBefore - 1
      BY <1>1, <3>1, <3>2
    <3> QED
      BY <2>1, <3>2, <3>3, <1>1 DEF RenewedInTime
  <2>3. CASE p = "command"
    <3>1. up' = up /\ pc'["server"] = pc["server"]
      BY <1>0, <1>14, <2>3
         DEF DkimStep, ReadKey, GenerateKey, WriteDkim, Have, Unreadable
    <3> QED
      BY <1>2, <2>1, <3>1
  <2> QED
    BY <2>2, <2>3
<1>15. CASE Stop \/ Crash
  <2>1. up' = FALSE
    BY <1>15 DEF Stop, Crash, Exit
  <2> QED
    BY <2>1 DEF RenewedInTime
<1>16. CASE Tick
  <2>1. /\ now' = now + 1 /\ UNCHANGED <<up, cert, certs, failed, pc>>
        /\ checked' = FALSE
    BY <1>16 DEF Tick, tlsVars
  <2>2. up => checked /\ pc["server"] = "idle"
    BY <1>0, <1>16 DEF Tick, Obtaining
  <2>3. up => c + failed >= now + RenewBefore
    BY <1>1, <2>2 DEF RenewedInTime
  <2>4. now + RenewBefore = now' + RenewBefore - 1
    BY <1>1, <2>1
  <2> QED
    BY <2>1, <2>3, <2>4 DEF RenewedInTime
<1> QED
  BY <1>3, <1>4, <1>5, <1>6, <1>8, <1>9, <1>10, <1>11, <1>12, <1>13, <1>14,
     <1>15, <1>16 DEF Next, Serve

\* ServedCertIsGood for every instance: since every check that finds the
\* certificate near its end tries to renew it, it can only expire under a
\* server that serves it after RenewBefore - 1 renewals have failed in a row.
THEOREM KeysServesGoodCert == Spec => []ServedCertIsGood
<1>1. Init => RenewedInTime
  BY DEF Init, RenewedInTime
<1>2. ASSUME Types, RenewedInTime PROVE ServedCertIsGood
  <2> SUFFICES ASSUME up, now >= certs[cert] PROVE failed >= RenewBefore - 1
    BY DEF ServedCertIsGood
  <2>1. /\ now \in Nat /\ failed \in Nat /\ certs[cert] \in Nat
        /\ RenewBefore \in Nat
    BY <1>2, ServedTypes, Numbers
  <2>2. certs[cert] + failed >= now + RenewBefore - 1
    BY <1>2, <2>1 DEF RenewedInTime
  <2> QED
    BY <2>1, <2>2
<1> QED
  BY <1>1, <1>2, RenewedInTimeStep, TypesAlways, PTL DEF Spec

-----------------------------------------------------------------------------
(* No certificate is issued without need *)

\* The certificates that are not near their end.
Valid == {c \in DOMAIN certs : certs[c] - now >= RenewBefore}

\* A fault has cost each of them, or each but the one in the files.
AllLost == Cardinality(Valid) <= faults
OneLeft ==
    /\ Cardinality(Valid) <= 1 + faults
    /\ certFile = keyFile /\ certFile \in Valid

\* What makes IssuedForReason inductive: a certificate is ordered only when no
\* valid one can be loaded or is in use.
IssuedInv ==
    /\ pc["server"] \in {"account", "register", "order"} => AllLost
    /\ pc["server"] \in {"cert file", "key file"} =>
          Cardinality(Valid) <= 1 + faults
    /\ pc["server"] = "key file" => certFile = Len(certs)
    /\ pc["server"] \in {"down", "load"} => AllLost \/ OneLeft
    /\ pc["server"] \in {"idle"} \cup Preparing =>
          AllLost \/ (OneLeft /\ cert = certFile)

LEMMA ValidTypes ==
    ASSUME Types
    PROVE  /\ certs \in Seq(Nat) /\ Len(certs) \in Nat
           /\ DOMAIN certs = 1..Len(certs)
           /\ Valid \subseteq 1..Len(certs)
           /\ IsFiniteSet(Valid) /\ Cardinality(Valid) \in Nat
           /\ faults \in Nat /\ now \in Nat
<1>1. certs \in Seq(Nat) /\ faults \in Nat /\ now \in Nat
  BY DEF Types, TlsTypes
<1>2. Len(certs) \in Nat /\ DOMAIN certs = 1..Len(certs)
  BY <1>1
<1>3. Valid \subseteq 1..Len(certs)
  BY <1>2 DEF Valid
<1>4. IsFiniteSet(1..Len(certs))
  BY <1>2, FS_Interval
<1>5. IsFiniteSet(Valid)
  BY <1>3, <1>4, FS_Subset
<1> QED
  BY <1>1, <1>2, <1>3, <1>5, FS_CardinalityType

LEMMA IssuedStep == ASSUME Types, IssuedInv, [Next]_vars PROVE IssuedInv'
<1> DEFINE n == Cardinality(Valid)
<1> USE DEF At, Goto, Procs
<1>0. /\ pc \in [Procs -> {"down", "load", "idle"} \cup Obtaining
                                                   \cup Preparing]
      /\ up => pc["server"] \in {"idle"} \cup Obtaining
  BY DEF Types, Control
<1>1. n \in Nat /\ faults \in Nat
  BY ValidTypes
<1>2. ASSUME UNCHANGED <<certs, now>> PROVE Valid' = Valid
  BY <1>2 DEF Valid
\* A fault makes up for whatever it costs.
<1>3. ASSUME UNCHANGED <<certs, now>>, faults' = faults + 1,
             pc'["server"] \notin {"cert file", "key file"}
      PROVE  IssuedInv'
  <2>1. n <= 1 + faults
    <3>1. AllLost \/ n <= 1 + faults
      BY <1>0 DEF IssuedInv, OneLeft, Obtaining, Preparing
    <3> QED
      BY <1>1, <3>1 DEF AllLost
  <2>2. AllLost'
    <3>1. n <= faults + 1
      BY <1>1, <2>1
    <3> QED
      BY <1>2, <1>3, <3>1 DEF AllLost
  <2> QED
    BY <1>3, <2>2 DEF IssuedInv
\* A step that leaves the certificates and their files alone.
<1>4. ASSUME UNCHANGED <<certs, now, faults, certFile, keyFile>>
      PROVE  (AllLost' <=> AllLost) /\ (OneLeft' <=> OneLeft)
  BY <1>2, <1>4 DEF AllLost, OneLeft
<1>5. CASE UNCHANGED vars
  BY <1>2, <1>4, <1>5 DEF vars, files, bounds, IssuedInv
<1>6. CASE Start
  <2>1. /\ UNCHANGED <<certs, now, faults, certFile, keyFile>>
        /\ pc["server"] = "down" /\ pc'["server"] = "load"
    BY <1>0, <1>6 DEF Start, bounds
  <2> QED
    BY <1>4, <2>1 DEF IssuedInv, Preparing
<1>7. CASE Load
  <2>1. /\ UNCHANGED <<certs, now, certFile, keyFile>>
        /\ pc["server"] = "load"
        /\ pc'["server"] = IF NeedsRenewal(cert') THEN "account" ELSE "read"
        /\ \/ cert' = (IF Loads THEN certFile ELSE None) /\ faults' = faults
           \/ faults' = faults + 1
    BY <1>0, <1>7 DEF Load, UseCached, Fault
  <2>2. OneLeft => Loads /\ ~NeedsRenewal(certFile)
    <3>1. ASSUME OneLeft PROVE certFile > None /\ certFile = keyFile
      BY <3>1, ValidTypes DEF OneLeft, None
    <3>2. ASSUME OneLeft PROVE ~NeedsRenewal(certFile)
      <4>1. certFile \in 1..Len(certs) /\ certs[certFile] - now >= RenewBefore
        BY <3>2, ValidTypes DEF OneLeft, Valid
      <4>2. certs[certFile] \in Nat /\ now \in Nat /\ certFile # None
        BY <4>1, ValidTypes DEF None
      <4> QED
        BY <4>1, <4>2, Numbers DEF NeedsRenewal
    <3> QED
      BY <3>1, <3>2 DEF Loads
  <2>3. AllLost \/ OneLeft
    BY <2>1 DEF IssuedInv
  <2>4. CASE faults' = faults + 1
    BY <1>3, <2>1, <2>4
  <2>5. CASE faults' # faults + 1 /\ AllLost
    BY <1>4, <2>1, <2>5 DEF IssuedInv, Preparing
  <2>6. CASE faults' # faults + 1 /\ OneLeft
    <3>1. cert' = certFile /\ pc'["server"] = "read"
      BY <2>1, <2>2, <2>6
    <3> QED
      BY <1>4, <2>1, <2>6, <3>1 DEF IssuedInv, Preparing
  <2> QED
    BY <2>3, <2>4, <2>5, <2>6
<1>8. CASE Check
  <2>1. /\ UNCHANGED <<certs, now, faults, certFile, keyFile, cert>>
        /\ pc["server"] = "idle"
        /\ pc'["server"] = IF NeedsRenewal(cert) THEN "account" ELSE "idle"
    BY <1>0, <1>8 DEF Check, bounds, tlsVars
  <2>2. AllLost \/ (OneLeft /\ cert = certFile)
    BY <2>1 DEF IssuedInv
  <2>3. OneLeft /\ cert = certFile => ~NeedsRenewal(cert)
    <3>1. ASSUME OneLeft, cert = certFile PROVE ~NeedsRenewal(cert)
      <4>1. cert \in 1..Len(certs) /\ certs[cert] - now >= RenewBefore
        BY <3>1, ValidTypes DEF OneLeft, Valid
      <4>2. certs[cert] \in Nat /\ now \in Nat /\ cert # None
        BY <4>1, ValidTypes DEF None
      <4> QED
        BY <4>1, <4>2, Numbers DEF NeedsRenewal
    <3> QED
      BY <3>1
  <2> QED
    BY <1>4, <2>1, <2>2, <2>3 DEF IssuedInv, Preparing
<1>9. CASE LoadAccount \/ Register
  <2>1. /\ UNCHANGED <<certs, now, certFile, keyFile>>
        /\ pc["server"] \in {"account", "register"}
        /\ pc'["server"] \in {"register", "order", "idle", "down"}
        /\ faults' = faults \/ faults' = faults + 1
    BY <1>0, <1>9
       DEF LoadAccount, Register, Fails, Fault, bounds, tlsVars
  <2>2. CASE faults' = faults
    BY <1>4, <2>1, <2>2 DEF IssuedInv, Preparing
  <2>3. CASE faults' = faults + 1
    BY <1>3, <2>1, <2>3
  <2> QED
    BY <2>1, <2>2, <2>3
<1>10. CASE Order
  <2>1. /\ certs' = Append(certs, now + Lifetime) /\ UNCHANGED <<now, faults>>
        /\ pc["server"] = "order" /\ pc'["server"] = "cert file"
    BY <1>0, <1>10 DEF Order, bounds
  <2>2. now + Lifetime \in Nat
    BY ValidTypes, Numbers
  <2>3. /\ certs' \in Seq(Nat) /\ Len(certs') = Len(certs) + 1
        /\ certs'[Len(certs) + 1] = now + Lifetime
        /\ \A c \in 1..Len(certs) : certs'[c] = certs[c]
    BY <2>1, <2>2, Issue, ValidTypes
  <2>4. Valid' \subseteq Valid \cup {Len(certs) + 1}
    <3> SUFFICES ASSUME NEW c \in Valid', c # Len(certs) + 1
                 PROVE  c \in Valid
      OBVIOUS
    <3>1. c \in DOMAIN certs' /\ certs'[c] - now >= RenewBefore
      BY <2>1 DEF Valid
    <3>2. c \in 1..Len(certs)
      BY <2>3, <3>1, ValidTypes
    <3> QED
      BY <2>3, <3>1, <3>2, ValidTypes DEF Valid
  <2>5. /\ IsFiniteSet(Valid \cup {Len(certs) + 1})
        /\ Cardinality(Valid \cup {Len(certs) + 1}) \in {n, n + 1}
    BY ValidTypes, FS_AddElement
  <2>6. /\ Cardinality(Valid') \in Nat
        /\ Cardinality(Valid') <= Cardinality(Valid \cup {Len(certs) + 1})
    BY <2>4, <2>5, FS_Subset, FS_CardinalityType
  <2>7. n <= faults
    BY <2>1 DEF IssuedInv, AllLost
  <2>8. Cardinality(Valid') <= 1 + faults
    BY <1>1, <2>5, <2>6, <2>7
  <2> QED
    BY <2>1, <2>8 DEF IssuedInv, Preparing
<1>11. CASE WriteCert
  <2>1. /\ UNCHANGED <<certs, now, faults>> /\ certFile' = Len(certs)
        /\ pc["server"] = "cert file" /\ pc'["server"] = "key file"
    BY <1>0, <1>11 DEF WriteCert, bounds
  <2> QED
    BY <1>2, <2>1 DEF IssuedInv, Preparing
<1>12. CASE WriteKey
  <2>1. /\ UNCHANGED <<certs, now, faults, certFile>>
        /\ keyFile' = Len(certs) /\ cert' = Len(certs)
        /\ pc["server"] = "key file" /\ pc'["server"] \in {"idle", "read"}
    BY <1>0, <1>12 DEF WriteKey, bounds
  <2>2. Len(certs) \in Valid
    <3>1. Len(certs) > 0 /\ certs[Len(certs)] = now + Lifetime
      BY <2>1 DEF Types, Control
    <3>2. Len(certs) \in DOMAIN certs
      BY <3>1, ValidTypes
    <3>3. (now + Lifetime) - now >= RenewBefore
      BY ValidTypes, Numbers
    <3> QED
      BY <3>1, <3>2, <3>3 DEF Valid
  <2>3. OneLeft' /\ cert' = certFile'
    BY <1>2, <2>1, <2>2 DEF IssuedInv, OneLeft
  <2> QED
    BY <2>1, <2>3 DEF IssuedInv, Preparing
<1>13. CASE ObtainFails
  <2>1. /\ UNCHANGED <<certs, now>> /\ faults' = faults + 1
        /\ pc'["server"] \in {"idle", "down"}
    BY <1>0, <1>13 DEF ObtainFails, Fails, Fault
  <2> QED
    BY <1>3, <2>1
<1>14. CASE RunCommand
  <2>1. /\ UNCHANGED <<certs, now, faults, certFile, keyFile, cert>>
        /\ pc'["server"] = pc["server"]
    BY <1>0, <1>14 DEF RunCommand, tlsVars
  <2> QED
    BY <1>2, <1>4, <2>1 DEF IssuedInv
<1>15. ASSUME NEW p \in Procs, DkimStep(p) PROVE IssuedInv'
  <2>1. /\ UNCHANGED <<certs, now, certFile, keyFile, cert>>
        /\ faults' \in {faults, faults + 1}
        /\ pc[p] \in Preparing
        /\ pc'[p] \in {"idle", "down"} \cup Preparing
        /\ p = "command" => pc'["server"] = pc["server"]
    BY <1>0, <1>15
       DEF DkimStep, ReadKey, GenerateKey, WriteDkim, Have, Unreadable, Fault,
           tlsVars, bounds, Preparing
  <2>2. CASE faults' = faults
    <3>1. CASE p = "server"
      BY <1>4, <2>1, <2>2, <3>1 DEF IssuedInv, Preparing
    <3>2. CASE p = "command"
      BY <1>2, <1>4, <2>1, <2>2, <3>2 DEF IssuedInv
    <3> QED
      BY <3>1, <3>2
  <2>3. CASE faults' = faults + 1
    <3>1. CASE pc'["server"] \notin {"cert file", "key file"}
      BY <1>3, <2>1, <2>3, <3>1
    <3>2. CASE pc'["server"] \in {"cert file", "key file"}
      <4>1. pc'["server"] = pc["server"]
        BY <2>1, <3>2 DEF Preparing
      <4>2. n <= 1 + faults
        BY <3>2, <4>1 DEF IssuedInv
      <4>3. n <= 1 + faults'
        BY <1>1, <2>3, <4>2
      <4> QED
        BY <1>2, <2>1, <3>2, <4>1, <4>3 DEF IssuedInv, Preparing
    <3> QED
      BY <3>1, <3>2
  <2> QED
    BY <2>1, <2>2, <2>3
<1>16. CASE Stop
  <2>1. /\ UNCHANGED <<certs, now, faults, certFile, keyFile>>
        /\ pc["server"] = "idle" /\ pc'["server"] = "down"
    BY <1>0, <1>16 DEF Stop, Exit, tlsVars
  <2> QED
    BY <1>4, <2>1 DEF IssuedInv, Preparing
<1>17. CASE Crash
  <2>1. /\ UNCHANGED <<certs, now>> /\ faults' = faults + 1
        /\ pc'["server"] = "down"
    BY <1>0, <1>17 DEF Crash, Exit, Fault
  <2> QED
    BY <1>3, <2>1
<1>18. CASE Tick
  <2>1. /\ now' = now + 1
        /\ UNCHANGED <<certs, faults, certFile, keyFile, cert, pc>>
        /\ pc["server"] \in {"down", "idle"}
    BY <1>18 DEF Tick, tlsVars, bounds
  <2>2. Valid' \subseteq Valid
    <3> SUFFICES ASSUME NEW c \in DOMAIN certs,
                        certs[c] - (now + 1) >= RenewBefore
                 PROVE  certs[c] - now >= RenewBefore
      BY <2>1 DEF Valid
    <3>1. certs[c] \in Nat /\ now \in Nat
      BY ValidTypes
    <3> QED
      BY <3>1, Numbers
  <2>3. Cardinality(Valid') \in Nat /\ Cardinality(Valid') <= n
    BY <2>2, ValidTypes, FS_Subset, FS_CardinalityType
  <2>4. AllLost => AllLost'
    BY <1>1, <2>1, <2>3 DEF AllLost
  <2>5. OneLeft => AllLost' \/ OneLeft'
    <3> SUFFICES ASSUME OneLeft PROVE AllLost' \/ OneLeft'
      OBVIOUS
    <3>1. CASE certFile \in Valid'
      BY <1>1, <2>1, <2>3, <3>1 DEF OneLeft
    <3>2. CASE certFile \notin Valid'
      <4>1. /\ IsFiniteSet(Valid \ {certFile})
            /\ Cardinality(Valid \ {certFile}) = n - 1
        BY ValidTypes, FS_RemoveElement DEF OneLeft
      <4>2. Valid' \subseteq Valid \ {certFile}
        BY <2>2, <3>2
      <4>3. Cardinality(Valid') <= n - 1
        BY <4>1, <4>2, FS_Subset
      <4>4. n <= 1 + faults
        BY DEF OneLeft
      <4>5. Cardinality(Valid') <= faults
        BY <1>1, <2>3, <4>3, <4>4
      <4> QED
        BY <2>1, <4>5 DEF AllLost
    <3> QED
      BY <3>1, <3>2
  <2> QED
    BY <2>1, <2>4, <2>5 DEF IssuedInv, Preparing
<1> QED
  BY <1>5, <1>6, <1>7, <1>8, <1>9, <1>10, <1>11, <1>12, <1>13, <1>14, <1>15,
     <1>16, <1>17, <1>18 DEF Next, Serve

\* IssuedForReason for every instance: beyond the first certificate, there is
\* one for each that came near its end, and one for each failure or crash, since
\* a restart uses what it finds in the files.
THEOREM KeysIssuedForReason == Spec => []IssuedForReason
<1>1. Init => IssuedInv
  <2> SUFFICES ASSUME Init PROVE IssuedInv
    OBVIOUS
  <2>1. Valid = {} /\ faults = 0 /\ pc["server"] = "down"
    BY DEF Init, Valid, Procs
  <2> QED
    BY <2>1, FS_EmptySet DEF IssuedInv, AllLost, Preparing
<1>2. ASSUME Types, IssuedInv PROVE IssuedForReason
  <2> DEFINE Near == {c \in DOMAIN certs : certs[c] - now < RenewBefore}
  <2>1. Cardinality(Valid) <= 1 + faults
    <3>1. Cardinality(Valid) \in Nat /\ faults \in Nat
      BY <1>2, ValidTypes
    <3>2. AllLost \/ Cardinality(Valid) <= 1 + faults
      BY <1>2 DEF IssuedInv, OneLeft, Types, Control, Obtaining, Procs
    <3> QED
      BY <3>1, <3>2 DEF AllLost
  <2>2. 1..Len(certs) \subseteq Valid \cup Near
    <3> SUFFICES ASSUME NEW c \in 1..Len(certs), c \notin Near
                 PROVE  c \in Valid
      OBVIOUS
    <3>1. c \in DOMAIN certs /\ certs[c] \in Nat /\ now \in Nat
      BY <1>2, ValidTypes
    <3>2. certs[c] - now >= RenewBefore
      BY <3>1, Numbers
    <3> QED
      BY <3>1, <3>2 DEF Valid
  <2>3. /\ IsFiniteSet(1..Len(certs)) /\ Cardinality(1..Len(certs)) = Len(certs)
    <3>1. 1 \in Int /\ Len(certs) \in Int /\ Len(certs) >= 0
      BY <1>2, ValidTypes
    <3>2. /\ IsFiniteSet(1..Len(certs))
          /\ Cardinality(1..Len(certs)) =
                IF 1 > Len(certs) THEN 0 ELSE Len(certs) - 1 + 1
      BY <3>1, FS_Interval
    <3> QED
      BY <3>1, <3>2
  <2>4. Near \subseteq 1..Len(certs)
    BY <1>2, ValidTypes
  <2>5. IsFiniteSet(Near)
    BY <2>3, <2>4, FS_Subset
  <2> HIDE DEF Near
  <2>6. /\ IsFiniteSet(Valid \cup Near)
        /\ Cardinality(Valid \cup Near) =
             Cardinality(Valid) + Cardinality(Near)
                 - Cardinality(Valid \cap Near)
    BY <1>2, <2>5, ValidTypes, FS_Union
  <2>7. IsFiniteSet(Valid \cap Near)
    BY <1>2, ValidTypes, FS_Intersection
  <2>8. /\ Cardinality(Valid) \in Nat /\ Cardinality(Near) \in Nat
        /\ Cardinality(Valid \cap Near) \in Nat /\ Len(certs) \in Nat
        /\ faults \in Nat
    BY <1>2, <2>5, <2>7, ValidTypes, FS_CardinalityType
  <2>9. Len(certs) <= Cardinality(Valid \cup Near)
    BY <2>2, <2>3, <2>6, FS_Subset
  <2>10. Len(certs) <= 1 + faults + Cardinality(Near)
    BY <2>1, <2>6, <2>8, <2>9
  <2> QED
    BY <2>10 DEF IssuedForReason, Near
<1> QED
  BY <1>1, <1>2, IssuedStep, TypesAlways, PTL DEF Spec

=============================================================================
