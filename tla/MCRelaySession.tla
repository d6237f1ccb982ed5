--------------------------- MODULE MCRelaySession ---------------------------
(* A directory for RelaySession: the first alias has two destinations, the *)
(* second one is a catch-all with a single destination.                    *)
EXTENDS RelaySession, TLC

CONSTANTS c1, c2, u1, u2, s1, dom, alice, any, x1, x2

MCConns == {c1, c2}
MCUUIDs == {u1, u2}
MCSenders == {s1}
MCDomains == {dom}
MCAliases == {alice, any}
MCDestinations == {x1, x2}
MCDomainOf == alice :> dom @@ any :> dom
MCLinks == alice :> {x1, x2} @@ any :> {x2}
MCCatchAll == dom :> any

(* rejects and returned are written and never read.                       *)
MCView == <<phase, data, envelope, todo, issued, returnPaths,
            published, accepted, serial>>

MCSymmetry == Permutations(MCConns) \cup Permutations(MCUUIDs)
=============================================================================
