---------------------------- MODULE MCDomainEngine --------------------------
(* Two users and one sale for module DomainEngine. *)
EXTENDS DomainEngine

CONSTANTS u1, u2

Ask(kind, u, count, check) == [kind |-> kind, user |-> u, count |-> count, check |-> check]

\* u1 has 3 zhimi: enough for one piece at 2 and one movement out, not for two.
MCOpeningZhimi == [u \in {u1, u2} |-> IF u = u1 THEN 3 ELSE 4]

MCWorks == {Ask("exchange", u1, 1, TRUE), Ask("exchange", u2, 2, TRUE),
            Ask("out", u1, 2, TRUE), Ask("in", u1, 1, TRUE), Ask("out", u2, 3, FALSE)}
=============================================================================
