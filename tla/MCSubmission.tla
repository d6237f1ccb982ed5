---------------------------- MODULE MCSubmission ----------------------------
(* Two clients of one account, two passwords.                              *)
EXTENDS Submission

CONSTANTS c1, c2, p1, p2

MCClients == {c1, c2}
MCPasswords == {p1, p2}
=============================================================================
