------------------------------- MODULE MCLimiter ------------------------------
(***************************************************************************)
(* The instance of Limiter that TLC checks.  Its keys are the addresses    *)
(* that the webmail, behind two proxies, finds for its clients.            *)
(***************************************************************************)
EXTENDS Limiter, RealIp

ASSUME KeysAreClients == Keys \subseteq Addresses \ Proxies

\* Whoever an attempt is counted for has made it: no client can choose the
\* key under which its failures count, nor have those of others, or of the
\* proxies, banned by what it writes into X-Forwarded-For (realip.go:10).
ClientIsNotForged ==
    \A a \in Attempts : state[a] = "open" => HeldToBe(key[a]) = {key[a]}

=============================================================================
