----------------------------- MODULE MCResolver -----------------------------
(* One inbound and one submission connection over one domain, whose one     *)
(* alias has at most one destination.                                       *)
EXTENDS Resolver

CONSTANTS r1, s1, a1, x1

MCRelays == {r1}
MCSubmitters == {s1}
MCRules == <<a1>>
MCDestinations == {x1}
=============================================================================
