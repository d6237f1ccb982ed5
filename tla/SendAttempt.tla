---------------------------- MODULE SendAttempt -----------------------------
(***************************************************************************)
(* What Sender relies on when it talks to one mail exchanger: the message   *)
(* is taken over at most once, success is reported only after it was, and   *)
(* a reported failure says nothing: the exchanger may have taken the        *)
(* message, or may still take it.                                          *)
(***************************************************************************)
EXTENDS Naturals

VARIABLES
  outcome,   \* "none" while the attempt runs, then "sent" or "failed"
  taken      \* times the exchanger took the message over

vars == <<outcome, taken>>

Init == outcome = "none" /\ taken = 0

TakeOver ==
  /\ outcome # "sent"
  /\ taken = 0
  /\ taken' = 1
  /\ UNCHANGED outcome

ReportSent ==
  /\ outcome = "none"
  /\ taken = 1
  /\ outcome' = "sent"
  /\ UNCHANGED taken

ReportFailed ==
  /\ outcome = "none"
  /\ outcome' = "failed"
  /\ UNCHANGED taken

Next == TakeOver \/ ReportSent \/ ReportFailed

Spec == Init /\ [][Next]_vars
=============================================================================
