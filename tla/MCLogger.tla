------------------------------ MODULE MCLogger ------------------------------
(* An account that gets a send and a bounce entry, and an entry of none.   *)
EXTENDS Logger, TLC

CONSTANTS A, sent, bounced, spf

MCEntries == {sent, bounced, spf}
MCAccountOf == sent :> A @@ bounced :> A @@ spf :> Nil
MCEtypeOf == sent :> "send" @@ bounced :> "bounce" @@ spf :> "reject"
=============================================================================
