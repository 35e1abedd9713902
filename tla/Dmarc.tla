--------------------------------- MODULE Dmarc --------------------------------
(***************************************************************************)
(* The verdict on an inbound message: does the domain in its From header   *)
(* ask, through DMARC, that the message be quarantined?                    *)
(*                                                                         *)
(* A domain is the sequence of its labels, the leftmost first.  A DNS is a *)
(* function from domains to what the lookup of _dmarc.<domain> gives: a    *)
(* record, ErrNoPolicy or another error.                                   *)
(***************************************************************************)
EXTENDS Integers, Sequences, FiniteSets

CONSTANTS
    Domains,   \* domains, with every domain that one of them lies in
    Suffixes   \* the public suffixes among them

ASSUME DmarcAssumption ==
    /\ \A d \in Domains : /\ d \in Seq(STRING) \ {<<>>}
                          /\ Len(d) > 1 => Tail(d) \in Domains
                          /\ Len(d) = 1 => d \in Suffixes
    /\ Suffixes \subseteq Domains

Policies == {"none", "quarantine", "reject"}
Unset == ""

ErrNoPolicy == [error |-> "no policy"]
Failure == [error |-> "failure"]
\* aspf, adkim: alignment is to be strict.
Record == [p : Policies, sp : Policies \cup {Unset}, aspf : BOOLEAN,
           adkim : BOOLEAN]

\* The domain that d lies in, or is, that has n labels.
Ending(d, n) == SubSeq(d, Len(d) - n + 1, Len(d))

\* The domains that d lies in, d itself among them.
Above(d) == {Ending(d, n) : n \in 1..Len(d)}

NoDomain == <<>>

\* publicsuffix.EffectiveTLDPlusOne: one label more than the longest public
\* suffix that d ends in; an error when d is nothing but a suffix.
EffectiveTLDPlusOne(d) ==
    LET longest == CHOOSE s \in Above(d) \cap Suffixes :
                       \A t \in Above(d) \cap Suffixes : Len(t) <= Len(s)
    IN  IF d \in Suffixes THEN NoDomain
        ELSE Ending(d, Len(longest) + 1)

-----------------------------------------------------------------------------

\* The organizational domain; a public suffix is its own.
Organization(from) ==
    IF EffectiveTLDPlusOne(from) = NoDomain THEN from
    ELSE EffectiveTLDPlusOne(from)

\* The loop over the domains, from the one with n labels upwards.
Walk(dns, from) ==
    LET w[n \in 1..Len(from)] ==
            LET d == Ending(from, n) IN
            IF dns[d] # ErrNoPolicy THEN d
            ELSE IF d = Organization(from) \/ n = 1 THEN NoDomain
            ELSE w[n - 1]
    IN  w

\* The domain whose answer ends the walk upwards from the sender's domain,
\* which is never taken beyond the organizational domain.
LookupDomain(dns, from) == Walk(dns, from)[Len(from)]

\* Mutant: the policy for subdomains is also that for the domain itself.
MutPolicyAt(record, d, from) ==
    IF record.sp # Unset THEN record.sp ELSE record.p

PolicyAt(record, d, from) ==
    IF d # from /\ record.sp # Unset THEN record.sp ELSE record.p

Aligned(from, other, strict) ==
    \/ from = other
    \/ /\ ~strict
       /\ EffectiveTLDPlusOne(from) # NoDomain
       /\ EffectiveTLDPlusOne(from) = EffectiveTLDPlusOne(other)

\* Verify(...).ShouldQuarantine.  from is the domain of the first From
\* address (NoDomain when there is none); passed.spf and passed.dkim are the
\* domains for which SPF and one of the DKIM signatures passed.
ShouldQuarantine(dns, from, passed) ==
    LET d == LookupDomain(dns, from) IN
    /\ from # NoDomain
    /\ d # NoDomain
    /\ dns[d] # Failure
    /\ ~\E other \in passed.spf : Aligned(from, other, dns[d].aspf)
    /\ ~\E other \in passed.dkim : Aligned(from, other, dns[d].adkim)
    /\ PolicyAt(dns[d], d, from) \in {"quarantine", "reject"}

-----------------------------------------------------------------------------
(* What DMARC means (README.md:369, the comment on Result), said without   *)
(* the walk and without the organizational domain.                         *)

\* A domain that nobody but its holder may name: it lies below every public
\* suffix that d lies in.
HeldAbove(d) ==
    {a \in Above(d) : \A s \in Above(d) \cap Suffixes : Len(a) > Len(s)}

SameHolder(d, e) == HeldAbove(d) \cap HeldAbove(e) # {}

\* The domain itself and the domains above it that its holder holds.
MayAnswer(from) == {from} \cup HeldAbove(from)

\* The closest domain that says anything has a record, which asks for it, and
\* nobody who may send for the domain has been shown to be the sender.
AsksForQuarantine(dns, from, passed) ==
    \E d \in MayAnswer(from) :
        /\ dns[d] \notin {ErrNoPolicy, Failure}
        /\ \A e \in MayAnswer(from) : Len(e) > Len(d) => dns[e] = ErrNoPolicy
        /\ LET asked == IF d = from \/ dns[d].sp = Unset
                        THEN dns[d].p ELSE dns[d].sp
           IN  asked \in {"quarantine", "reject"}
        /\ from \notin passed.spf \cup passed.dkim
        /\ dns[d].aspf \/ \A e \in passed.spf : ~SameHolder(from, e)
        /\ dns[d].adkim \/ \A e \in passed.dkim : ~SameHolder(from, e)

\* Bound: the policies that the domains of the instance may publish.
Answers == {ErrNoPolicy, Failure} \cup
           {r \in Record : /\ "reject" \notin {r.p, r.sp}
                           /\ r.p = "none" => ~r.aspf /\ ~r.adkim}

\* What checkSPF and checkDKIM may find.  Bound: one of them passes.
Passed == [spf : {{}}, dkim : {{}}] \cup
          [spf : {{d} : d \in Domains}, dkim : {{}}] \cup
          [spf : {{}}, dkim : {{d} : d \in Domains}]

Verdict == [quarantined : BOOLEAN, asked : BOOLEAN]

NoVerdict == [quarantined |-> FALSE, asked |-> FALSE]

\* What may be said of a message (of one without a From, NoVerdict).
Verdicts ==
    {v \in Verdict :
        \/ v = NoVerdict
        \/ \E from \in Domains, passed \in Passed :
               \E dns \in [Above(from) -> Answers] :
                   /\ v.quarantined = ShouldQuarantine(dns, from, passed)
                   /\ v.asked = AsksForQuarantine(dns, from, passed)}

=============================================================================
