----------------------------- MODULE MailQueue ------------------------------
(***************************************************************************)
(* What the emails queue and its senders promise together, without workers, *)
(* deliveries or connections: an email that was queued stays pending until   *)
(* something is known about its fate, and only then is it done.  Deliveries *)
(* are at least once: an email may meet a further fate after it is done.    *)
(***************************************************************************)
CONSTANTS
  Emails,
  Malformed    \* emails that cannot be decoded: nothing is owed to them

VARIABLES
  pending,     \* queued, not done
  done,        \* left the queue for good
  fate         \* [Emails -> SUBSET Fates]

Fates == {"accepted", "bounced", "unreached"}

vars == <<pending, done, fate>>

Init ==
  /\ pending = {}
  /\ done = {}
  /\ fate = [e \in Emails |-> {}]

Enqueue(e) ==
  /\ e \notin pending \cup done
  /\ pending' = pending \cup {e}
  /\ UNCHANGED <<done, fate>>

\* An attempt to send e ends in f.
Settle(e, f) ==
  /\ e \in (pending \cup done) \ Malformed
  /\ fate' = [fate EXCEPT ![e] = @ \cup {f}]
  /\ UNCHANGED <<pending, done>>

Finish(e) ==
  /\ e \in pending
  /\ e \in Malformed \/ fate[e] # {}
  /\ pending' = pending \ {e}
  /\ done' = done \cup {e}
  /\ UNCHANGED fate

Next == \E e \in Emails : Enqueue(e) \/ Finish(e) \/ \E f \in Fates : Settle(e, f)

Spec == Init /\ [][Next]_vars
=============================================================================
