------------------------------ MODULE MCSender ------------------------------
(* Two workers; an email that gets sent and one that does not decode.      *)
EXTENDS Sender

CONSTANTS w1, w2, e1, bad

MCWorkers == {w1, w2}
MCEmails == {e1, bad}
MCMalformed == {bad}
=============================================================================
