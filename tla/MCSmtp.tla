--------------------------------- MODULE MCSmtp -------------------------------
(***************************************************************************)
(* The instance of Smtp that TLC checks.  Below com anyone may register a  *)
(* domain, and below s.com too (as below github.io); a.com has a subdomain.*)
(***************************************************************************)
EXTENDS Smtp, TLC

Mailboxes == Permutations(Locals)

Com == <<"com">>
SCom == <<"s", "com">>

MCSuffixes == {Com, SCom}
MCDomains == MCSuffixes \cup
             {<<"a", "com">>, <<"m", "a", "com">>, <<"b", "com">>,
              <<"c", "s", "com">>, <<"d", "s", "com">>}

=============================================================================
