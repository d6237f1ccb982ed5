----------------------------- MODULE MCAccounts -----------------------------
(* One address, registered by two requests at once; a browser with two      *)
(* requests to the control panel.                                           *)
EXTENDS Accounts

CONSTANTS e1, q1, q2, v1, v2, t1, t2

MCEmails == {e1}
MCRequests == {q1, q2}
MCAsked == [q \in MCRequests |-> IF q = q1 THEN "subscription" ELSE "free"]
MCVisits == {v1, v2}
MCTokens == {t1, t2}
=============================================================================
