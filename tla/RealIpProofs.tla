------------------------------ MODULE RealIpProofs ----------------------------
(***************************************************************************)
(* FromHTTP finds the client, whatever it writes into X-Forwarded-For and  *)
(* however many trusted proxies it passes; so the failures that the        *)
(* limiter counts under a key are those of the client with this address.   *)
(***************************************************************************)
EXTENDS MCLimiter, LimiterProofs

\* A header is a sequence of entries.
LEMMA HeaderIsSeq ==
    ASSUME NEW xff \in Headers
    PROVE  xff \in Seq(Entries)
BY RealIpAssumption DEF Headers

\* A client that connects itself is held to be itself: without a trusted peer
\* the header is not read.
LEMMA DirectIsClient ==
    ASSUME NEW client \in Addresses \ Proxies, NEW forged \in Headers
    PROVE  Direct(client, forged) = client
BY DEF Direct, FromHTTP

\* Behind proxies the walk from the right passes their entries, all trusted or
\* garbled, and stops at the client's, which the first of them has appended;
\* it never gets to what the client wrote.
LEMMA ProxiedIsClient ==
    ASSUME NEW client \in Addresses \ Proxies, NEW forged \in Headers,
           NEW chain \in Chains, NEW proxy \in Proxies
    PROVE  Proxied(client, forged, chain, proxy) = client
<1> DEFINE xff == forged \o <<client>> \o chain
           hops == {i \in 1..Len(xff) : IsHop(xff[i])}
           at0 == Len(forged) + 1
<1>1. /\ forged \in Seq(Entries) /\ chain \in Seq(Entries)
      /\ client \in Entries
    BY HeaderIsSeq DEF Chains, Entries
<1>2. /\ Len(forged) \in Nat /\ Len(chain) \in Nat
      /\ Len(xff) = Len(forged) + 1 + Len(chain)
    BY <1>1
<1>3. xff[at0] = client
    BY <1>1, <1>2
<1>4. at0 \in hops
    BY <1>2, <1>3 DEF IsHop
<1>5. ASSUME NEW j \in hops
      PROVE  j <= at0
  <2> SUFFICES ASSUME j > at0 PROVE FALSE
      BY <1>2
  <2>1. j \in 1..Len(xff) /\ IsHop(xff[j])
      OBVIOUS
  <2>2. /\ j - at0 \in 1..Len(chain)
        /\ xff[j] = chain[j - at0]
      BY <1>1, <1>2, <2>1
  <2> QED
      BY <2>1, <2>2 DEF Chains
<1>6. Nearest(hops) = at0
  <2>1. \A i \in hops : (\A j \in hops : j <= i) => i = at0
      BY <1>2, <1>4, <1>5
  <2> QED
      BY <1>4, <1>5, <2>1 DEF Nearest
<1> QED
    BY <1>3, <1>4, <1>6 DEF Proxied, FromHTTP

\* Exactly the client with the address k is held to be k.
LEMMA HeldToBeItself ==
    ASSUME NEW k \in Addresses \ Proxies
    PROVE  HeldToBe(k) = {k}
<1>1. ASSUME NEW client \in HeldToBe(k)
      PROVE  client = k
    BY DirectIsClient, ProxiedIsClient DEF HeldToBe
<1>2. k \in HeldToBe(k)
  <2>1. <<>> \in [1..0 -> Entries]
      OBVIOUS
  <2>2. <<>> \in Headers
      BY <2>1, RealIpAssumption DEF Headers
  <2> QED
      BY <2>2, DirectIsClient DEF HeldToBe
<1> QED
    BY <1>1, <1>2

\* Failures count for those who made them: for any number of proxies and
\* entries, no client can choose the key of its attempts or have another one
\* or a proxy banned (realip.go:10, the keys of the webmail's limiter).
THEOREM FailuresCountForClients == Spec => []ClientIsNotForged
<1>1. TypeOK => ClientIsNotForged
    BY HeldToBeItself, KeysAreClients DEF TypeOK, ClientIsNotForged
<1> QED
    BY <1>1, LimiterTypeCorrect, PTL

===============================================================================
