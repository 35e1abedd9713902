--------------------------------- MODULE RealIp -------------------------------
(***************************************************************************)
(* The address that a request to the webmail is held to come from: the key *)
(* under which the rate limiter counts its failures.                       *)
(*                                                                         *)
(* The webmail sits behind proxies.  Each appends to X-Forwarded-For the   *)
(* address that it was called from; what stands before the first entry of  *)
(* a trusted proxy was written by the client, who may write anything.      *)
(***************************************************************************)
EXTENDS Integers, Sequences

CONSTANTS
    Addresses,  \* IP addresses
    Proxies,    \* security.trusted_proxies
    Garbled,    \* an entry that is no IP address
    MaxHops     \* bound: entries of X-Forwarded-For that are checked

ASSUME RealIpAssumption ==
    /\ Proxies \subseteq Addresses
    /\ Garbled \notin Addresses
    /\ MaxHops \in Nat

Entries == Addresses \cup {Garbled}

\* net.ParseIP succeeds and TrustedProxies.Contains does not.
IsHop(entry) == entry \in Addresses \ Proxies

\* Mutant: the walk starts at the end that the client writes.
MutNearest(hops) == CHOOSE i \in hops : \A j \in hops : i <= j

\* The loop goes from right to left and returns the first that it finds.
Nearest(hops) == CHOOSE i \in hops : \A j \in hops : j <= i

FromHTTP(peer, xff) ==
    LET hops == {i \in 1..Len(xff) : IsHop(xff[i])} IN
    IF peer \in Proxies /\ hops # {} THEN xff[Nearest(hops)] ELSE peer

-----------------------------------------------------------------------------

Headers == UNION {[1..n -> Entries] : n \in 0..MaxHops}

\* What a chain of trusted proxies appends after the client's address.
Chains == {xff \in Headers : \A i \in 1..Len(xff) : ~IsHop(xff[i])}

\* The answer for a client that connects itself, or through proxies, and has
\* written "forged" into the header.
Direct(client, forged) == FromHTTP(client, forged)
Proxied(client, forged, chain, proxy) ==
    FromHTTP(proxy, forged \o <<client>> \o chain)

\* The addresses whose requests may be held to come from address k.
HeldToBe(k) ==
    {client \in Addresses \ Proxies :
        \E forged \in Headers :
            \/ Direct(client, forged) = k
            \/ \E chain \in Chains, proxy \in Proxies :
                   Proxied(client, forged, chain, proxy) = k}

=============================================================================
