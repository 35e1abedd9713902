----------------------------- MODULE LimiterProofs ----------------------------
(***************************************************************************)
(* Proofs about Limiter: its variables stay in their types, and, although  *)
(* it forgets failures and whole entries, it answers every login as the    *)
(* LoginPolicy does that forgets nothing, and bounds the guesses of a key. *)
(***************************************************************************)
EXTENDS Limiter, FiniteSetTheorems, TLAPS

\* Dropping entries keeps the types (Delete).
LEMMA DeleteTypes ==
    ASSUME TypeOK, NEW K \in SUBSET Keys, Delete(K)
    PROVE  /\ known' \subseteq Keys
           /\ failures' \in [Keys -> SUBSET Attempts]
           /\ bannedUntil' \in [Keys -> Nat]
           /\ \A k \in Keys : Cardinality(failures'[k]) < MaxAttempts
           /\ \A k \in Keys \ known' : failures'[k] = {} /\ bannedUntil'[k] = 0
<1>1. Cardinality({}) < MaxAttempts
    BY FS_EmptySet, LimiterAssumption
<1>2. \A k \in Keys : failures'[k] = IF k \in K THEN {} ELSE failures[k]
    BY DEF Delete
<1>3. \A k \in Keys : bannedUntil'[k] = IF k \in K THEN 0 ELSE bannedUntil[k]
    BY DEF Delete
<1>4. known' \subseteq Keys /\ failures' \in [Keys -> SUBSET Attempts]
    BY DEF TypeOK, Delete
<1>5. bannedUntil' \in [Keys -> Nat]
    BY DEF TypeOK, Delete
<1>6. \A k \in Keys : Cardinality(failures'[k]) < MaxAttempts
    BY <1>1, <1>2 DEF TypeOK
<1>7. \A k \in Keys \ known' : failures'[k] = {} /\ bannedUntil'[k] = 0
    BY <1>2, <1>3 DEF TypeOK, Delete
<1>8. QED
    BY <1>4, <1>5, <1>6, <1>7

\* A failure keeps the types: a list that is not a ban yet is short enough to
\* stay (RecordFailure).
LEMMA RecordFailureTypes ==
    ASSUME TypeOK, NEW a \in Attempts, RecordFailure(a)
    PROVE  TypeOK'
<1> DEFINE k == key[a]
           kept == {b \in failures[k] : Recent(b)} \cup {a}
<1>1. k \in Keys /\ kept \subseteq Attempts
    BY DEF TypeOK
<1>2. failures' = [failures EXCEPT ![k] = IF IsBan(kept) THEN AfterBan(kept)
                                          ELSE kept]
    BY DEF RecordFailure
<1>3. Cardinality({}) = 0 /\ 0 < MaxAttempts
    BY FS_EmptySet, LimiterAssumption
<1>4. failures' \in [Keys -> SUBSET Attempts]
    BY <1>1, <1>2 DEF TypeOK, AfterBan
<1>5. \A j \in Keys : Cardinality(failures'[j]) < MaxAttempts
  <2>1. SUFFICES ASSUME NEW j \in Keys
                 PROVE  Cardinality(failures'[j]) < MaxAttempts
      OBVIOUS
  <2>2. CASE j # k
      BY <2>2, <1>1, <1>2 DEF TypeOK
  <2>3. CASE j = k /\ IsBan(kept)
      BY <2>3, <1>1, <1>2, <1>3 DEF TypeOK, AfterBan
  <2>4. CASE j = k /\ ~IsBan(kept)
    <3>1. IsFiniteSet(kept)
      <4>1. IsFiniteSet(Attempts)
          BY FS_Interval, LimiterAssumption DEF Attempts
      <4>2. QED
          BY <1>1, <4>1, FS_Subset
    <3>2. Cardinality(kept) \in Nat
        BY <3>1, FS_CardinalityType
    <3>3. failures'[j] = kept
        BY <2>4, <1>1, <1>2 DEF TypeOK
    <3>4. QED
        BY <2>4, <3>2, <3>3, LimiterAssumption DEF IsBan
  <2>5. QED
      BY <2>2, <2>3, <2>4
<1>6. known' = known \cup {k}
    BY DEF RecordFailure
<1>7. \A j \in Keys \ known' : failures'[j] = {} /\ bannedUntil'[j] = 0
    BY <1>1, <1>2, <1>6 DEF TypeOK, RecordFailure
<1>8. now + BanDuration \in Nat
    BY LimiterAssumption DEF TypeOK
<1>9. bannedUntil' \in [Keys -> Nat] /\ until' \in [Keys -> Nat]
    BY <1>1, <1>8 DEF TypeOK, RecordFailure, Note
<1>10. /\ log' \in [Keys -> SUBSET Attempts]
       /\ streak' \in [Keys -> SUBSET Attempts]
    BY <1>1 DEF TypeOK, RecordFailure, Note
<1>11. now' \in Nat \ {0} /\ at' \in [Attempts -> Nat]
       /\ key' \in [Attempts -> Keys]
    BY DEF TypeOK, RecordFailure
<1>12. state' \in [Attempts -> {"new", "open", "failed", "passed", "blocked"}]
    BY DEF TypeOK, RecordFailure, Becomes
<1>13. known' \subseteq Keys
    BY <1>1, <1>6 DEF TypeOK
<1>14. QED
    BY <1>4, <1>5, <1>7, <1>9, <1>10, <1>11, <1>12, <1>13 DEF TypeOK

\* Every variable stays in its type, and an entry is shorter than a ban
\* (every method of Limiter).
THEOREM LimiterTypeCorrect == Spec => []TypeOK
<1>1. Init => TypeOK
    BY FS_EmptySet, LimiterAssumption DEF Init, TypeOK
<1>2. TypeOK /\ [Next]_vars => TypeOK'
  <2> SUFFICES ASSUME TypeOK, [Next]_vars PROVE TypeOK'
      OBVIOUS
  <2>1. ASSUME NEW a \in Attempts, Begin(a) PROVE TypeOK'
      BY <2>1 DEF TypeOK, Begin, Becomes, entries
  <2>2. ASSUME NEW a \in Attempts, Block(a) PROVE TypeOK'
      BY <2>2 DEF TypeOK, Block, Becomes, entries
  <2>3. ASSUME NEW a \in Attempts, RecordFailure(a) PROVE TypeOK'
      BY <2>3, RecordFailureTypes
  <2>4. ASSUME NEW a \in Attempts, RecordSuccess(a) PROVE TypeOK'
    <3>1. {key[a]} \in SUBSET Keys /\ Delete({key[a]})
        BY <2>4 DEF TypeOK, RecordSuccess
    <3>2. QED
        BY <2>4, <3>1, DeleteTypes DEF TypeOK, RecordSuccess, Becomes
  <2>5. CASE Cleanup
    <3>1. PICK K \in SUBSET Keys : Delete(K)
        BY <2>5 DEF TypeOK, Cleanup
    <3>2. QED
        BY <2>5, <3>1, DeleteTypes DEF TypeOK, Cleanup
  <2>6. CASE Tick
      BY <2>6 DEF TypeOK, Tick, entries
  <2>7. CASE UNCHANGED vars
      BY <2>7 DEF TypeOK, vars, entries
  <2>8. QED
      BY <2>1, <2>2, <2>3, <2>4, <2>5, <2>6, <2>7 DEF Next
<1>3. QED
    BY <1>1, <1>2, PTL DEF Spec

-----------------------------------------------------------------------------

\* The entries have all that still counts of the history: the recent failures,
\* and the end of a ban that is in force.
Agree ==
    \A k \in Keys :
        /\ \A a \in failures[k] \cup log[k] : state[a] = "failed"
        /\ \A a \in Attempts :
               Recent(a) => (a \in failures[k] <=> a \in log[k])
        /\ bannedUntil[k] <= until[k]
        /\ now < until[k] => k \in known /\ bannedUntil[k] = until[k]

\* A set of entries that do not count any more may go (Delete).
LEMMA DeleteAgrees ==
    ASSUME TypeOK, Agree, NEW K \in SUBSET Keys, Delete(K),
           UNCHANGED <<now, at, state>>,
           \A k \in K : IsStale(k), UNCHANGED <<log, until>>
    PROVE  Agree'
<1>1. SUFFICES ASSUME NEW k \in Keys
               PROVE  /\ \A a \in failures'[k] \cup log[k] : state[a] = "failed"
                      /\ \A a \in Attempts :
                            Recent(a) => (a \in failures'[k] <=> a \in log[k])
                      /\ bannedUntil'[k] <= until[k]
                      /\ now < until[k] =>
                            k \in known' /\ bannedUntil'[k] = until[k]
    BY DEF Agree, Recent
<1>2. CASE k \in K
  <2>1. failures'[k] = {} /\ bannedUntil'[k] = 0
      BY <1>2 DEF Delete
  <2>2. \A a \in failures[k] : ~Recent(a)
      BY <1>2 DEF IsStale
  <2>3. now >= until[k]
      BY <1>2 DEF IsStale, Agree, TypeOK
  <2>4. until[k] \in Nat /\ now \in Nat
      BY DEF TypeOK
  <2>5. \A a \in log[k] : state[a] = "failed"
      BY DEF Agree
  <2>6. \A a \in Attempts : Recent(a) => a \notin log[k]
      BY <2>2 DEF Agree
  <2>7. QED
      BY <2>1, <2>3, <2>4, <2>5, <2>6
<1>3. CASE k \notin K
  <2>1. failures'[k] = failures[k] /\ bannedUntil'[k] = bannedUntil[k]
        /\ (k \in known => k \in known')
      BY <1>3 DEF Delete
  <2>2. QED
      BY <2>1 DEF Agree
<1>4. QED
    BY <1>2, <1>3

\* What decides on a ban is the same for the entry and for the history
\* (RecordFailure).
LEMMA SameCount ==
    ASSUME TypeOK, Agree, NEW k \in Keys, NEW a \in Attempts
    PROVE  {b \in failures[k] : Recent(b)} \cup {a}
               = {b \in log[k] : Recent(b)} \cup {a}
<1>1. failures[k] \subseteq Attempts /\ log[k] \subseteq Attempts
    BY DEF TypeOK
<1>2. \A b \in Attempts : Recent(b) => (b \in failures[k] <=> b \in log[k])
    BY DEF Agree
<1>3. QED
    BY <1>1, <1>2

\* A failure is noted alike in the entry and in the history (RecordFailure).
LEMMA RecordFailureAgrees ==
    ASSUME TypeOK, Agree, NEW a \in Attempts, RecordFailure(a)
    PROVE  Agree'
<1> DEFINE k == key[a]
           kept == {b \in failures[k] : Recent(b)} \cup {a}
<1>1. k \in Keys /\ k \in known' /\ state[a] = "open"
    BY DEF TypeOK, RecordFailure, Becomes
<1>2. state' = [state EXCEPT ![a] = "failed"] /\ at' = [at EXCEPT ![a] = now]
      /\ now' = now
    BY DEF RecordFailure, Becomes
<1>3. /\ now \in Nat /\ now + BanDuration \in Nat /\ now < now + BanDuration
      /\ \A j \in Keys : until[j] \in Nat /\ bannedUntil[j] \in Nat
    BY LimiterAssumption DEF TypeOK
<1>4. \A b \in Attempts : b # a => (Recent(b)' <=> Recent(b))
    BY <1>2 DEF TypeOK, Recent
<1>5. /\ failures' = [failures EXCEPT ![k] = IF IsBan(kept) THEN {} ELSE kept]
      /\ log' = [log EXCEPT ![k] = IF IsBan(kept) THEN {} ELSE @ \cup {a}]
    BY DEF RecordFailure, Note, AfterBan
<1>6. /\ bannedUntil' = IF IsBan(kept)
                        THEN [bannedUntil EXCEPT ![k] = now + BanDuration]
                        ELSE bannedUntil
      /\ until' = IF IsBan(kept) THEN [until EXCEPT ![k] = now + BanDuration]
                  ELSE until
    BY DEF RecordFailure, Note
<1>7. SUFFICES ASSUME NEW j \in Keys
               PROVE  /\ \A b \in failures'[j] \cup log'[j] : state'[b] = "failed"
                      /\ \A b \in Attempts :
                            Recent(b)' => (b \in failures'[j] <=> b \in log'[j])
                      /\ bannedUntil'[j] <= until'[j]
                      /\ now' < until'[j] =>
                            j \in known' /\ bannedUntil'[j] = until'[j]
    BY DEF Agree
<1>8. /\ \A b \in failures[j] \cup log[j] : state[b] = "failed" /\ b # a
      /\ \A b \in Attempts : Recent(b) => (b \in failures[j] <=> b \in log[j])
      /\ bannedUntil[j] <= until[j]
      /\ now < until[j] => j \in known /\ bannedUntil[j] = until[j]
    BY <1>1 DEF Agree
<1>9. failures[j] \cup log[j] \subseteq Attempts
    BY DEF TypeOK
<1>10. \A b \in failures'[j] \cup log'[j] : state'[b] = "failed"
  <2>1. failures'[j] \cup log'[j] \subseteq failures[j] \cup log[j] \cup {a}
      BY <1>5 DEF TypeOK
  <2>2. QED
      BY <2>1, <1>2, <1>8, <1>9 DEF TypeOK
<1>11. ASSUME NEW b \in Attempts, Recent(b)'
       PROVE  b \in failures'[j] <=> b \in log'[j]
  <2>1. CASE j # k
      BY <2>1, <1>4, <1>5, <1>8, <1>11 DEF TypeOK
  <2>2. CASE j = k /\ IsBan(kept)
      BY <2>2, <1>1, <1>5 DEF TypeOK
  <2>3. CASE j = k /\ ~IsBan(kept)
    <3>1. failures'[j] = kept /\ log'[j] = log[j] \cup {a}
        BY <2>3, <1>1, <1>5 DEF TypeOK
    <3>2. b # a => (b \in kept <=> b \in log[j])
        BY <2>3, <1>4, <1>8, <1>11
    <3>3. QED
        BY <3>1, <3>2
  <2>4. QED
      BY <2>1, <2>2, <2>3
<1>12. /\ bannedUntil'[j] <= until'[j]
       /\ now' < until'[j] => j \in known' /\ bannedUntil'[j] = until'[j]
  <2>1. CASE j = k /\ IsBan(kept)
      BY <2>1, <1>1, <1>3, <1>6 DEF TypeOK
  <2>2. CASE ~(j = k /\ IsBan(kept))
    <3>1. bannedUntil'[j] = bannedUntil[j] /\ until'[j] = until[j]
        BY <2>2, <1>6 DEF TypeOK
    <3>2. j \in known => j \in known'
        BY DEF RecordFailure
    <3>3. QED
        BY <3>1, <3>2, <1>2, <1>8
  <2>3. QED
      BY <2>1, <2>2
<1>13. QED
    BY <1>10, <1>11, <1>12

\* Every step keeps the entries in agreement with the history.
LEMMA AgreeStep == TypeOK /\ Agree /\ [Next]_vars => Agree'
<1> SUFFICES ASSUME TypeOK, Agree, [Next]_vars PROVE Agree'
    OBVIOUS
<1>1. ASSUME NEW a \in Attempts,
             Becomes(a, "new", "open") \/ Becomes(a, "new", "blocked"),
             UNCHANGED <<now, entries, key, at, log, until, streak>>
      PROVE  Agree'
  <2>1. state[a] = "new" /\ \A b \in Attempts : b # a => state'[b] = state[b]
      BY <1>1 DEF TypeOK, Becomes
  <2>2. \A k \in Keys : failures[k] \cup log[k] \subseteq Attempts
      BY DEF TypeOK
  <2>3. QED
      BY <1>1, <2>1, <2>2 DEF Agree, Recent, entries
<1>2. ASSUME NEW a \in Attempts, RecordFailure(a) PROVE Agree'
    BY <1>2, RecordFailureAgrees
<1>3. ASSUME NEW a \in Attempts, RecordSuccess(a) PROVE Agree'
  <2>1. state[a] = "open" /\ \A b \in Attempts : b # a => state'[b] = state[b]
      BY <1>3 DEF TypeOK, RecordSuccess, Becomes
  <2>2. now' = now /\ at' = at /\ key[a] \in Keys /\ now \in Nat
      BY <1>3 DEF TypeOK, RecordSuccess
  <2>3. ASSUME NEW k \in Keys
        PROVE  IF k = key[a]
               THEN /\ failures'[k] = {} /\ log'[k] = {}
                    /\ bannedUntil'[k] = 0 /\ until'[k] = 0
               ELSE /\ failures'[k] = failures[k] /\ log'[k] = log[k]
                    /\ bannedUntil'[k] = bannedUntil[k] /\ until'[k] = until[k]
                    /\ k \in known => k \in known'
      BY <1>3 DEF TypeOK, RecordSuccess, Delete
  <2>4. \A k \in Keys : failures[k] \cup log[k] \subseteq Attempts
      BY DEF TypeOK
  <2>5. QED
      BY <2>1, <2>2, <2>3, <2>4 DEF Agree, Recent
<1>4. CASE Cleanup
  <2>1. PICK K \in SUBSET Keys : Delete(K) /\ \A k \in K : IsStale(k)
      BY <1>4 DEF TypeOK, Cleanup
  <2>2. QED
      BY <1>4, <2>1, DeleteAgrees DEF Cleanup
<1>5. CASE Tick
  <2>1. now' = now + 1 /\ now \in Nat /\ Window \in Nat
      BY <1>5, LimiterAssumption DEF TypeOK, Tick
  <2>2. \A a \in Attempts : Recent(a)' => Recent(a)
      BY <1>5, <2>1 DEF TypeOK, Tick, Recent
  <2>3. \A k \in Keys : until[k] \in Nat
      BY DEF TypeOK
  <2>4. QED
      BY <1>5, <2>1, <2>2, <2>3 DEF Agree, Tick, entries
<1>6. CASE UNCHANGED vars
    BY <1>6 DEF Agree, Recent, vars, entries
<1>7. QED
    BY <1>1, <1>2, <1>3, <1>4, <1>5, <1>6 DEF Next, Begin, Block

\* The limiter answers as the policy would that keeps everything (Allowed,
\* RecordFailure, RecordSuccess and cleanup together).
THEOREM LimiterKeepsPolicy == Spec => KeepsPolicy
<1>1. Init => Policy!Init
    BY DEF Init, Policy!Init
<1>2. Init => Agree
    BY DEF Init, Agree
<1>3. TypeOK /\ Agree /\ [Next]_vars => [Policy!Next]_(Policy!pvars)
  <2> SUFFICES ASSUME TypeOK, Agree, [Next]_vars
               PROVE  [Policy!Next]_(Policy!pvars)
      OBVIOUS
  <2>1. ASSUME NEW a \in Attempts, Begin(a) PROVE Policy!Begin(a)
    <3>1. key[a] \in Keys /\ now \in Nat /\ until[key[a]] \in Nat
        BY DEF TypeOK
    <3>2. now >= until[key[a]]
        BY <2>1, <3>1 DEF Begin, Allowed, Agree
    <3>3. QED
        BY <2>1, <3>2 DEF Begin, Becomes, Policy!Begin, Policy!Becomes, entries
  <2>2. ASSUME NEW a \in Attempts, Block(a) PROVE Policy!Block(a)
    <3>1. /\ key[a] \in Keys /\ now \in Nat /\ until[key[a]] \in Nat
          /\ bannedUntil[key[a]] \in Nat
        BY DEF TypeOK
    <3>2. now <= until[key[a]]
        BY <2>2, <3>1 DEF Block, Allowed, Agree
    <3>3. QED
        BY <2>2, <3>2 DEF Block, Becomes, Policy!Block, Policy!Becomes, entries
  <2>3. ASSUME NEW a \in Attempts, RecordFailure(a) PROVE Policy!Fail(a)
    <3>1. key[a] \in Keys
        BY DEF TypeOK
    <3>2. {b \in failures[key[a]] : Recent(b)} \cup {a}
              = {b \in log[key[a]] : Policy!Recent(b)} \cup {a}
        BY <3>1, SameCount DEF Recent, Policy!Recent
    <3>3. \A S : Policy!Cardinality(S) = Cardinality(S)
        BY DEF Cardinality, Policy!Cardinality
    <3>4. QED
        BY <2>3, <3>1, <3>2, <3>3
           DEF TypeOK, RecordFailure, Note, IsBan, Becomes, Policy!Fail,
               Policy!Becomes
  <2>4. ASSUME NEW a \in Attempts, RecordSuccess(a) PROVE Policy!Pass(a)
      BY <2>4 DEF RecordSuccess, Becomes, Policy!Pass, Policy!Becomes
  <2>5. CASE Cleanup
      BY <2>5 DEF Cleanup, Policy!pvars
  <2>6. ASSUME Tick PROVE Policy!Tick
      BY <2>6 DEF Tick, Policy!Tick
  <2>7. CASE UNCHANGED vars
      BY <2>7 DEF vars, Policy!pvars
  <2>8. QED
      BY <2>1, <2>2, <2>3, <2>4, <2>5, <2>6, <2>7 DEF Next, Policy!Next
<1>4. QED
    BY <1>1, <1>2, <1>3, AgreeStep, LimiterTypeCorrect, PTL
       DEF Spec, KeepsPolicy, Policy!Spec

\* The entries agree with the history in every behaviour.
LEMMA AgreeAlways == Spec => []Agree
<1>1. Init => Agree
    BY DEF Init, Agree
<1>2. QED
    BY <1>1, AgreeStep, LimiterTypeCorrect, PTL DEF Spec

-----------------------------------------------------------------------------

\* The wrong guesses of a key that count, and the logins that are under way.
Guesses(k) == {a \in streak[k] : Recent(a)}
Open == {a \in Attempts : state[a] = "open"}
OpenFor(k) == {a \in Open : key[a] = k}

\* A ban outlasts the failures that led to it.
Outlasted(k) ==
    \A a \in streak[k] \ log[k] : at[a] + Window <= until[k]

\* What makes GuessesBounded inductive: while a key is banned no login of it
\* begins, so each further guess is one that was under way.
GuessInv ==
    /\ Cardinality(Open) <= MaxOpen
    /\ \A k \in Keys :
          /\ \A a \in streak[k] : state[a] = "failed" /\ at[a] <= now
          /\ log[k] \subseteq streak[k]
          /\ Outlasted(k)
          /\ now < until[k] =>
                Cardinality(Guesses(k)) + Cardinality(OpenFor(k))
                    <= MaxAttempts + MaxOpen - 1

\* Attempts are finitely many.
LEMMA AttemptSets ==
    ASSUME NEW S \in SUBSET Attempts
    PROVE  /\ IsFiniteSet(S) /\ Cardinality(S) \in Nat
           /\ \A T \in SUBSET S : Cardinality(T) <= Cardinality(S)
           /\ \A a \in Attempts : Cardinality(S \cup {a}) <= Cardinality(S) + 1
           /\ \A a \in S : Cardinality(S \ {a}) = Cardinality(S) - 1
<1>1. IsFiniteSet(Attempts)
    BY FS_Interval, LimiterAssumption DEF Attempts
<1>2. IsFiniteSet(S) /\ Cardinality(S) \in Nat
    BY <1>1, FS_Subset, FS_CardinalityType
<1>3. \A T \in SUBSET S : Cardinality(T) <= Cardinality(S)
    BY <1>2, FS_Subset
<1>4. ASSUME NEW a \in Attempts
      PROVE  Cardinality(S \cup {a}) <= Cardinality(S) + 1
  <2>1. Cardinality(S \cup {a}) \in {Cardinality(S), Cardinality(S) + 1}
      BY <1>2, FS_AddElement
  <2>2. QED
      BY <1>2, <2>1
<1>5. \A a \in S : Cardinality(S \ {a}) = Cardinality(S) - 1
    BY <1>2, FS_RemoveElement
<1>6. QED
    BY <1>2, <1>3, <1>4, <1>5

\* The sets that GuessInv counts.
LEMMA GuessTypes ==
    ASSUME TypeOK
    PROVE  /\ Open \in SUBSET Attempts
           /\ \A k \in Keys : /\ Guesses(k) \in SUBSET Attempts
                              /\ OpenFor(k) \in SUBSET Attempts
                              /\ OpenFor(k) \subseteq Open
                              /\ failures[k] \in SUBSET Attempts
           /\ MaxAttempts \in Nat /\ MaxOpen \in Nat /\ Window \in Nat
           /\ MaxAttempts > 0 /\ MaxOpen > 0 /\ Window > 0
           /\ now \in Nat
           /\ \A a \in Attempts : at[a] \in Nat
           /\ \A k \in Keys : until[k] \in Nat
    BY LimiterAssumption DEF TypeOK, Guesses, Open, OpenFor

\* The guesses of a key that is not banned are in its entry, which is shorter
\* than a ban.
LEMMA GuessesOfEntry ==
    ASSUME TypeOK, Agree, GuessInv, NEW k \in Keys, now >= until[k]
    PROVE  Cardinality(Guesses(k)) <= MaxAttempts - 1
<1>1. ASSUME NEW a \in Guesses(k) PROVE a \in failures[k]
  <2>1. a \in streak[k] /\ a \in Attempts /\ Recent(a)
      BY <1>1, GuessTypes DEF Guesses
  <2>2. a \in log[k]
    <3>1. SUFFICES ASSUME a \notin log[k] PROVE FALSE
        OBVIOUS
    <3>2. at[a] + Window <= until[k]
        BY <2>1, <3>1 DEF GuessInv, Outlasted
    <3>3. at[a] \in Nat /\ until[k] \in Nat /\ now \in Nat /\ Window \in Nat
        BY <2>1, GuessTypes
    <3>4. now - at[a] < Window
        BY <2>1 DEF Recent
    <3>5. QED
        BY <3>2, <3>3, <3>4
  <2>3. QED
      BY <2>1, <2>2 DEF Agree
<1>2. Cardinality(Guesses(k)) <= Cardinality(failures[k])
    BY <1>1, GuessTypes, AttemptSets
<1>3. /\ Cardinality(failures[k]) < MaxAttempts /\ MaxAttempts \in Nat
      /\ Cardinality(failures[k]) \in Nat /\ Cardinality(Guesses(k)) \in Nat
    BY GuessTypes, AttemptSets DEF TypeOK
<1>4. QED
    BY <1>2, <1>3

\* A failure takes one from the logins under way and adds one to the guesses,
\* or is the first of a ban (RecordFailure).
LEMMA RecordFailureGuess ==
    ASSUME BanDuration >= Window, TypeOK, TypeOK', Agree, GuessInv,
           NEW a \in Attempts, RecordFailure(a)
    PROVE  GuessInv'
<1> PICK k \in Keys : k = key[a]
    BY DEF TypeOK
<1> DEFINE kept == {b \in failures[k] : Recent(b)} \cup {a}
<1>1. k \in Keys /\ state[a] = "open" /\ a \in Open /\ a \in OpenFor(k)
    BY DEF TypeOK, RecordFailure, Becomes, Open, OpenFor
<1>2. /\ state' = [state EXCEPT ![a] = "failed"]
      /\ at' = [at EXCEPT ![a] = now]
      /\ now' = now /\ key' = key
      /\ log' = [log EXCEPT ![k] = IF IsBan(kept) THEN {} ELSE @ \cup {a}]
      /\ until' = IF IsBan(kept) THEN [until EXCEPT ![k] = now + BanDuration]
                  ELSE until
      /\ streak' = [streak EXCEPT ![k] = @ \cup {a}]
    BY DEF RecordFailure, Becomes, Note
<1> HIDE DEF kept
<1>3. /\ state'[a] = "failed" /\ at'[a] = now
      /\ \A b \in Attempts \ {a} : state'[b] = state[b] /\ at'[b] = at[b]
      /\ \A j \in Keys \ {k} : /\ log'[j] = log[j] /\ until'[j] = until[j]
                               /\ streak'[j] = streak[j]
      /\ streak'[k] = streak[k] \cup {a}
      /\ IF IsBan(kept)
         THEN log'[k] = {} /\ until'[k] = now + BanDuration
         ELSE log'[k] = log[k] \cup {a} /\ until'[k] = until[k]
    BY <1>1, <1>2 DEF TypeOK
<1>4. Open' = Open \ {a}
    BY <1>3 DEF Open
<1>5. /\ OpenFor(k)' = OpenFor(k) \ {a}
      /\ \A j \in Keys \ {k} : OpenFor(j)' = OpenFor(j)
    BY <1>2, <1>4 DEF OpenFor
<1>6. Cardinality(Open') = Cardinality(Open) - 1
    BY <1>1, <1>4, GuessTypes, AttemptSets
<1>7. Cardinality(OpenFor(k)') = Cardinality(OpenFor(k)) - 1
    BY <1>1, <1>5, GuessTypes, AttemptSets
<1>8. \A j \in Keys : \A b \in streak[j] :
          b # a /\ b \in Attempts /\ state[b] = "failed" /\ at[b] <= now
    BY <1>1 DEF GuessInv, TypeOK
<1>9. \A j \in Keys \ {k} : Guesses(j)' = Guesses(j)
    BY <1>2, <1>3, <1>8 DEF Guesses, Recent
<1>10. Guesses(k)' \subseteq Guesses(k) \cup {a}
    BY <1>2, <1>3, <1>8 DEF Guesses, Recent
<1>11. /\ Cardinality(Guesses(k)') <= Cardinality(Guesses(k)) + 1
       /\ Cardinality(Guesses(k)') \in Nat
  <2>1. Guesses(k) \cup {a} \in SUBSET Attempts
      BY <1>1, GuessTypes
  <2>2. Cardinality(Guesses(k)') <= Cardinality(Guesses(k) \cup {a})
      BY <1>10, <2>1, AttemptSets
  <2>3. Cardinality(Guesses(k) \cup {a}) <= Cardinality(Guesses(k)) + 1
      BY <1>1, GuessTypes, AttemptSets
  <2>4. /\ Cardinality(Guesses(k)') \in Nat
        /\ Cardinality(Guesses(k) \cup {a}) \in Nat
        /\ Cardinality(Guesses(k)) \in Nat
      BY <1>1, <1>10, <2>1, GuessTypes, AttemptSets
  <2>5. QED
      BY <2>2, <2>3, <2>4
<1>12. /\ Cardinality(Open) \in Nat /\ Cardinality(OpenFor(k)) \in Nat
       /\ Cardinality(Guesses(k)) \in Nat
       /\ MaxOpen \in Nat /\ MaxAttempts \in Nat /\ MaxOpen > 0
       /\ Cardinality(Open) <= MaxOpen
    BY <1>1, GuessTypes, AttemptSets DEF GuessInv
<1>13. Cardinality(OpenFor(k)) <= Cardinality(Open)
    BY <1>1, GuessTypes, AttemptSets
<1>14. Cardinality(Guesses(k)') + Cardinality(OpenFor(k)')
           <= MaxAttempts + MaxOpen - 1
  <2>1. CASE now < until[k]
    <3>1. Cardinality(Guesses(k)) + Cardinality(OpenFor(k))
              <= MaxAttempts + MaxOpen - 1
        BY <1>1, <2>1 DEF GuessInv
    <3>2. QED
        BY <1>7, <1>11, <1>12, <3>1
  <2>2. CASE ~(now < until[k])
    <3>1. Cardinality(Guesses(k)) <= MaxAttempts - 1
      <4>1. now >= until[k]
          BY <1>1, <2>2, GuessTypes
      <4>2. QED
          BY <1>1, <4>1, GuessesOfEntry
    <3>2. QED
        BY <1>7, <1>11, <1>12, <1>13, <3>1
  <2>3. QED
      BY <2>1, <2>2
<1>15. Cardinality(Open') <= MaxOpen
    BY <1>6, <1>12
<1>16. SUFFICES ASSUME NEW j \in Keys
                PROVE  /\ \A b \in streak'[j] : state'[b] = "failed"
                                                  /\ at'[b] <= now'
                       /\ log'[j] \subseteq streak'[j]
                       /\ Outlasted(j)'
                       /\ now' < until'[j] =>
                             Cardinality(Guesses(j)') + Cardinality(OpenFor(j)')
                                 <= MaxAttempts + MaxOpen - 1
    BY <1>15 DEF GuessInv
<1>17. now \in Nat /\ now <= now
    BY GuessTypes
<1>18. /\ \A b \in streak[j] : state[b] = "failed" /\ at[b] <= now
       /\ log[j] \subseteq streak[j]
       /\ \A b \in streak[j] \ log[j] : at[b] + Window <= until[j]
       /\ now < until[j] =>
             Cardinality(Guesses(j)) + Cardinality(OpenFor(j))
                 <= MaxAttempts + MaxOpen - 1
    BY DEF GuessInv, Outlasted
<1>19. CASE j # k
  <2>1. /\ log'[j] = log[j] /\ until'[j] = until[j] /\ streak'[j] = streak[j]
        /\ Guesses(j)' = Guesses(j) /\ OpenFor(j)' = OpenFor(j)
        /\ \A b \in streak[j] : state'[b] = state[b] /\ at'[b] = at[b]
      BY <1>3, <1>5, <1>8, <1>9, <1>19
  <2>2. Outlasted(j)'
      BY <1>18, <2>1 DEF Outlasted
  <2>3. QED
      BY <1>2, <1>18, <2>1, <2>2
<1>20. CASE j = k
  <2>1. \A b \in streak'[j] : state'[b] = "failed" /\ at'[b] <= now'
      BY <1>2, <1>3, <1>8, <1>17, <1>20
  <2>2. log'[j] \subseteq streak'[j]
      BY <1>3, <1>18, <1>20
  <2>3. Outlasted(j)'
    <3>1. SUFFICES ASSUME NEW b \in streak'[j] \ log'[j]
                   PROVE  at'[b] + Window <= until'[j]
        BY DEF Outlasted
    <3>2. CASE IsBan(kept)
      <4>1. until'[j] = now + BanDuration /\ at'[b] <= now
          BY <1>2, <1>3, <1>20, <2>1, <3>2
      <4>2. at'[b] \in Nat /\ BanDuration \in Nat /\ Window \in Nat
          BY <1>3, <1>8, <1>20, GuessTypes, LimiterAssumption
      <4>3. QED
          BY <1>17, <4>1, <4>2
    <3>3. CASE ~IsBan(kept)
      <4>1. b \in streak[j] \ log[j] /\ b # a
          BY <1>3, <1>20, <3>3
      <4>2. at'[b] = at[b] /\ until'[j] = until[j]
          BY <1>3, <1>8, <1>20, <3>3, <4>1
      <4>3. QED
          BY <1>18, <4>1, <4>2
    <3>4. QED
        BY <3>2, <3>3
  <2>4. QED
      BY <1>14, <1>20, <2>1, <2>2, <2>3
<1>21. QED
    BY <1>19, <1>20

\* Every step keeps GuessInv.
LEMMA GuessStep ==
    ASSUME BanDuration >= Window, TypeOK, TypeOK', Agree, GuessInv, [Next]_vars
    PROVE  GuessInv'
<1>1. ASSUME UNCHANGED <<now, key, at, log, until, streak>>,
             Cardinality(Open') <= MaxOpen,
             \A k \in Keys : \A a \in streak[k] : state'[a] = "failed",
             \A k \in Keys : now < until[k] => OpenFor(k)' \subseteq OpenFor(k)
      PROVE  GuessInv'
  <2>1. \A k \in Keys : Guesses(k)' = Guesses(k) /\ (Outlasted(k)' <=> Outlasted(k))
      BY <1>1 DEF Guesses, Recent, Outlasted
  <2>2. ASSUME NEW k \in Keys, now < until[k]
        PROVE  Cardinality(Guesses(k)) + Cardinality(OpenFor(k)')
                   <= MaxAttempts + MaxOpen - 1
    <3>1. /\ Cardinality(OpenFor(k)') <= Cardinality(OpenFor(k))
          /\ Cardinality(OpenFor(k)') \in Nat
          /\ Cardinality(OpenFor(k)) \in Nat /\ Cardinality(Guesses(k)) \in Nat
      <4>1. OpenFor(k)' \subseteq OpenFor(k)
          BY <1>1, <2>2
      <4>2. QED
          BY <4>1, GuessTypes, AttemptSets
    <3>2. Cardinality(Guesses(k)) + Cardinality(OpenFor(k))
              <= MaxAttempts + MaxOpen - 1
        BY <2>2 DEF GuessInv
    <3>3. QED
        BY <3>1, <3>2, GuessTypes
  <2>3. QED
      BY <1>1, <2>1, <2>2 DEF GuessInv
\* What has failed has not been new or open since.
<1>2. ASSUME NEW a \in Attempts, state[a] \in {"new", "open"}
      PROVE  \A k \in Keys : a \notin streak[k]
    BY <1>2 DEF GuessInv
<1>3. ASSUME NEW a \in Attempts, Begin(a) PROVE GuessInv'
  <2>1. /\ state[a] = "new" /\ state' = [state EXCEPT ![a] = "open"]
        /\ UNCHANGED <<now, key, at, log, until, streak>>
      BY <1>3 DEF Begin, Becomes
  <2>2. Open' = Open \cup {a}
      BY <2>1 DEF Open, TypeOK
  <2>3. Cardinality(Open') <= MaxOpen
    <3>1. Cardinality(Open) < MaxOpen
        BY <1>3 DEF Begin, HasRoom, Open
    <3>2. /\ Cardinality(Open') <= Cardinality(Open) + 1
          /\ Cardinality(Open) \in Nat /\ Cardinality(Open') \in Nat
      <4>1. Open' \in SUBSET Attempts
          BY <2>2, GuessTypes
      <4>2. QED
          BY <2>2, <4>1, GuessTypes, AttemptSets
    <3>3. QED
        BY <3>1, <3>2, GuessTypes
  <2>4. key[a] \in Keys /\ ~(now < until[key[a]])
    <3>1. key[a] \in Keys
        BY DEF TypeOK
    <3>2. now \in Nat /\ until[key[a]] \in Nat /\ Allowed(key[a])
        BY <1>3, <3>1, GuessTypes DEF Begin
    <3>3. now < until[key[a]] =>
              key[a] \in known /\ bannedUntil[key[a]] = until[key[a]]
        BY <3>1 DEF Agree
    <3>4. QED
        BY <3>1, <3>2, <3>3 DEF Allowed
  <2>5. \A k \in Keys : now < until[k] => OpenFor(k)' \subseteq OpenFor(k)
      BY <2>1, <2>2, <2>4 DEF OpenFor
  <2>6. \A k \in Keys : \A b \in streak[k] : state'[b] = "failed"
      BY <1>2, <2>1 DEF GuessInv, TypeOK
  <2>7. QED
      BY <1>1, <2>1, <2>3, <2>5, <2>6
<1>4. ASSUME NEW a \in Attempts, Block(a) PROVE GuessInv'
  <2>1. /\ state[a] = "new" /\ state' = [state EXCEPT ![a] = "blocked"]
        /\ UNCHANGED <<now, key, at, log, until, streak>>
      BY <1>4 DEF Block, Becomes
  <2>2. Open' = Open
      BY <2>1 DEF Open, TypeOK
  <2>3. \A k \in Keys : OpenFor(k)' = OpenFor(k)
      BY <2>1, <2>2 DEF OpenFor
  <2>4. \A k \in Keys : \A b \in streak[k] : state'[b] = "failed"
      BY <1>2, <2>1 DEF GuessInv, TypeOK
  <2>5. Cardinality(Open') <= MaxOpen
      BY <2>2 DEF GuessInv
  <2>6. QED
      BY <1>1, <2>1, <2>3, <2>4, <2>5
<1>5. ASSUME NEW a \in Attempts, RecordFailure(a) PROVE GuessInv'
    BY <1>5, RecordFailureGuess
<1>6. ASSUME NEW a \in Attempts, RecordSuccess(a) PROVE GuessInv'
  <2>1. /\ state[a] = "open" /\ state' = [state EXCEPT ![a] = "passed"]
        /\ UNCHANGED <<now, key, at>> /\ key[a] \in Keys
        /\ log' = [log EXCEPT ![key[a]] = {}]
        /\ until' = [until EXCEPT ![key[a]] = 0]
        /\ streak' = [streak EXCEPT ![key[a]] = {}]
      BY <1>6 DEF RecordSuccess, Becomes, TypeOK
  <2>2. Open' \subseteq Open
      BY <2>1 DEF Open, TypeOK
  <2>3. Cardinality(Open') <= MaxOpen
    <3>1. /\ Cardinality(Open') <= Cardinality(Open)
          /\ Cardinality(Open) \in Nat /\ Cardinality(Open') \in Nat
        BY <2>2, GuessTypes, AttemptSets
    <3>2. QED
        BY <3>1, GuessTypes DEF GuessInv
  <2>4. SUFFICES ASSUME NEW k \in Keys
                 PROVE  /\ \A b \in streak'[k] : state'[b] = "failed"
                                                   /\ at'[b] <= now'
                        /\ log'[k] \subseteq streak'[k]
                        /\ Outlasted(k)'
                        /\ now' < until'[k] =>
                              Cardinality(Guesses(k)')
                                + Cardinality(OpenFor(k)')
                                  <= MaxAttempts + MaxOpen - 1
      BY <2>3 DEF GuessInv
  <2>5. CASE k = key[a]
    <3>1. streak'[k] = {} /\ log'[k] = {} /\ until'[k] = 0
        BY <2>1, <2>5 DEF TypeOK
    <3>2. ~(now' < until'[k])
        BY <2>1, <3>1, GuessTypes
    <3>3. QED
        BY <3>1, <3>2 DEF Outlasted
  <2>6. CASE k # key[a]
    <3>1. streak'[k] = streak[k] /\ log'[k] = log[k] /\ until'[k] = until[k]
        BY <2>1, <2>6 DEF TypeOK
    <3>2. OpenFor(k)' = OpenFor(k)
        BY <2>1, <2>6 DEF OpenFor, Open, TypeOK
    <3>3. Guesses(k)' = Guesses(k) /\ (Outlasted(k)' <=> Outlasted(k))
        BY <2>1, <3>1 DEF Guesses, Recent, Outlasted
    <3>4. \A b \in streak[k] : state'[b] = "failed" /\ at[b] <= now
        BY <1>2, <2>1 DEF GuessInv, TypeOK
    <3>5. QED
        BY <2>1, <3>1, <3>2, <3>3, <3>4 DEF GuessInv
  <2>7. QED
      BY <2>5, <2>6
<1>7. CASE Cleanup \/ UNCHANGED vars
  <2>1. UNCHANGED <<now, state, key, at, log, until, streak>>
      BY <1>7 DEF Cleanup, vars, entries
  <2>2. Open' = Open /\ \A k \in Keys : OpenFor(k)' = OpenFor(k)
      BY <2>1 DEF Open, OpenFor
  <2>3. QED
      BY <1>1, <2>1, <2>2 DEF GuessInv
<1>8. CASE Tick
  <2>1. now' = now + 1 /\ UNCHANGED <<state, key, at, log, until, streak>>
      BY <1>8 DEF Tick
  <2>2. Open' = Open /\ \A k \in Keys : /\ OpenFor(k)' = OpenFor(k)
                                        /\ Outlasted(k)' <=> Outlasted(k)
      BY <2>1 DEF Open, OpenFor, Outlasted
  <2>3. SUFFICES ASSUME NEW k \in Keys
                 PROVE  /\ \A a \in streak[k] : state[a] = "failed"
                                                  /\ at[a] <= now + 1
                        /\ now + 1 < until[k] =>
                              Cardinality(Guesses(k)') + Cardinality(OpenFor(k))
                                  <= MaxAttempts + MaxOpen - 1
      BY <2>1, <2>2 DEF GuessInv
  <2>4. /\ \A a \in streak[k] : a \in Attempts /\ at[a] \in Nat
        /\ now \in Nat /\ until[k] \in Nat /\ Window \in Nat
      BY GuessTypes DEF TypeOK
  <2>5. \A a \in streak[k] : state[a] = "failed" /\ at[a] <= now + 1
    <3>1. SUFFICES ASSUME NEW a \in streak[k]
                   PROVE  state[a] = "failed" /\ at[a] <= now + 1
        OBVIOUS
    <3>2. state[a] = "failed" /\ at[a] <= now
        BY DEF GuessInv
    <3>3. QED
        BY <2>4, <3>2
  <2>6. Guesses(k)' \subseteq Guesses(k)
    <3>1. \A a \in streak[k] : now + 1 - at[a] < Window => now - at[a] < Window
        BY <2>4
    <3>2. SUFFICES ASSUME NEW a \in Guesses(k)' PROVE a \in Guesses(k)
        OBVIOUS
    <3>3. a \in streak'[k] /\ now' - at'[a] < Window
        BY DEF Guesses, Recent
    <3>4. a \in streak[k] /\ now + 1 - at[a] < Window
      <4>1. a \in streak[k]
          BY <2>1, <3>3
      <4>2. PICK n \in Nat : n = now'
          BY <2>1, <2>4
      <4>3. n - at[a] < Window
          BY <2>1, <3>3, <4>2, Zenon
      <4>4. n = now + 1 /\ at[a] \in Nat
          BY <2>1, <2>4, <4>1, <4>2
      <4>5. QED
          BY <2>4, <4>1, <4>3, <4>4
    <3>5. QED
        BY <3>1, <3>4 DEF Guesses, Recent
  <2>7. ASSUME now + 1 < until[k]
        PROVE  Cardinality(Guesses(k)') + Cardinality(OpenFor(k))
                   <= MaxAttempts + MaxOpen - 1
    <3>1. Cardinality(Guesses(k)) + Cardinality(OpenFor(k))
              <= MaxAttempts + MaxOpen - 1
      <4>1. now < until[k]
          BY <2>4, <2>7
      <4>2. QED
          BY <4>1 DEF GuessInv
    <3>2. /\ Cardinality(Guesses(k)') <= Cardinality(Guesses(k))
          /\ Cardinality(Guesses(k)') \in Nat /\ Cardinality(Guesses(k)) \in Nat
          /\ Cardinality(OpenFor(k)) \in Nat
        BY <2>6, GuessTypes, AttemptSets
    <3>3. QED
        BY <3>1, <3>2, GuessTypes
  <2>8. QED
      BY <2>5, <2>7
<1>9. QED
    BY <1>3, <1>4, <1>5, <1>6, <1>7, <1>8 DEF Next

\* GuessesBounded for every instance: although a login is checked before and
\* counted after its password is verified, a key that never gets it right has
\* at most MaxAttempts wrong guesses within a window and those that were under
\* way when it was banned (Allowed and RecordFailure in two critical sections).
THEOREM LimiterBoundsGuesses == Spec => []GuessesBounded
<1>1. CASE ~(BanDuration >= Window)
  <2>1. GuessesBounded
      BY <1>1 DEF GuessesBounded
  <2>2. QED
      BY <2>1, PTL
<1>2. CASE BanDuration >= Window
  <2>1. Init => GuessInv
    <3> SUFFICES ASSUME Init PROVE GuessInv
        OBVIOUS
    <3>2. Open = {} /\ \A k \in Keys : Guesses(k) = {} /\ OpenFor(k) = {}
        BY DEF Init, Open, Guesses, OpenFor
    <3>3. Cardinality(Open) <= MaxOpen
        BY <3>2, FS_EmptySet, LimiterAssumption
    <3>4. \A k \in Keys : ~(now < until[k])
        BY DEF Init
    <3>5. QED
        BY <3>2, <3>3, <3>4 DEF Init, GuessInv, Outlasted
  <2>2. ASSUME TypeOK, TypeOK', Agree, GuessInv, [Next]_vars PROVE GuessInv'
      BY <1>2, <2>2, GuessStep
  <2>3. ASSUME TypeOK, Agree, GuessInv PROVE GuessesBounded
    <3>1. SUFFICES ASSUME NEW k \in Keys
                   PROVE  Cardinality(Guesses(k)) <= MaxAttempts + MaxOpen - 1
        BY DEF GuessesBounded, Guesses
    <3>2. /\ Cardinality(Guesses(k)) \in Nat /\ Cardinality(OpenFor(k)) \in Nat
          /\ now \in Nat /\ until[k] \in Nat
          /\ MaxAttempts \in Nat /\ MaxOpen \in Nat /\ MaxOpen > 0
        BY <2>3, GuessTypes, AttemptSets
    <3>3. CASE now < until[k]
      <4>1. Cardinality(Guesses(k)) + Cardinality(OpenFor(k))
                <= MaxAttempts + MaxOpen - 1
          BY <2>3, <3>3 DEF GuessInv
      <4>2. QED
          BY <3>2, <4>1
    <3>4. CASE now >= until[k]
      <4>1. Cardinality(Guesses(k)) <= MaxAttempts - 1
          BY <2>3, <3>4, GuessesOfEntry
      <4>2. QED
          BY <3>2, <4>1
    <3>5. QED
        BY <3>2, <3>3, <3>4
  <2>4. QED
      BY <2>1, <2>2, <2>3, LimiterTypeCorrect, AgreeAlways, PTL DEF Spec
<1>3. QED
    BY <1>1, <1>2

=============================================================================
