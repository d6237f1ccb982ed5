------------------------------- MODULE Sender -------------------------------
(***************************************************************************)
(* cmd/sender: one process with a worker (Sender.Run) per outbound IP, all  *)
(* reading deliveries of one RabbitMQ queue from one Go channel, sending    *)
(* each email to the destination's mail exchangers and acknowledging it.    *)
(*                                                                         *)
(* RabbitMQ and the reconnecting client library are external: a lost        *)
(* connection requeues what was not acknowledged while workers go on with   *)
(* deliveries whose acknowledgement will no longer count.                   *)
(***************************************************************************)
EXTENDS Naturals, Sequences, FiniteSets

CONSTANTS
  Workers,     \* one per -ips/-rdns pair
  Emails,      \* messages that get queued, each once
  Malformed,   \* those whose body json.Unmarshal refuses
  Nil,         \* no email
  MaxMX,       \* bound: mail exchangers of a destination
  MaxFaults    \* bound: lost connections and process restarts together

ASSUME SenderAssumption ==
  /\ Malformed \subseteq Emails
  /\ Nil \notin Emails
  /\ MaxMX \in Nat \ {0}
  /\ MaxFaults \in Nat

VARIABLES
  ready,       \* broker: queued, not delivered
  unacked,     \* broker: delivered on the current channel, not acknowledged
  acked,       \* broker: acknowledged, gone
  limited,     \* broker: whether the current channel has the prefetch limit
  inbox,       \* client: deliveries on their way to the Go channel, in order
  pc,          \* [Workers -> step of Run]
  mail,        \* [Workers -> email being handled, or Nil]
  live,        \* [Workers -> whether its delivery's channel is still open]
  mxs,         \* [Workers -> mail exchangers not tried yet]
  etype,       \* [Workers -> Email.Etype]
  accepted,    \* destinations: [Emails -> times accepted]
  bounces,     \* the bounces queue
  logs,        \* the logs queue: <<email, etype>>
  unreached,   \* history: emails of which every dial failed
  lostBounce,  \* history: emails whose publishBounce failed
  requeues,    \* history: [Emails -> times requeued]
  faults       \* history: faults so far

queue == <<ready, unacked, acked, limited>>
workers == <<pc, mail, live, mxs, etype>>
reports == <<bounces, logs, unreached, lostBounce>>
vars == <<queue, inbox, workers, accepted, reports, requeues, faults>>

Steps == {"idle", "resolve", "dial", "talk", "bounce", "log", "ack", "pace"}

Delivery == [email : Emails, live : BOOLEAN]

Init ==
  /\ ready = {}
  /\ unacked = {}
  /\ acked = {}
  /\ limited = TRUE
  /\ inbox = <<>>
  /\ pc = [w \in Workers |-> "idle"]
  /\ mail = [w \in Workers |-> Nil]
  /\ live = [w \in Workers |-> FALSE]
  /\ mxs = [w \in Workers |-> 0]
  /\ etype = [w \in Workers |-> "send"]
  /\ accepted = [e \in Emails |-> 0]
  /\ bounces = {}
  /\ logs = {}
  /\ unreached = {}
  /\ lostBounce = {}
  /\ requeues = [e \in Emails |-> 0]
  /\ faults = 0

Goto(w, step) == pc' = [pc EXCEPT ![w] = step]

-----------------------------------------------------------------------------
(* The broker and the client library.                                      *)

\* smtpd or the website queues an email.
Queue(e) ==
  /\ e \notin ready \cup unacked \cup acked
  /\ ready' = ready \cup {e}
  /\ UNCHANGED <<unacked, acked, limited, inbox, workers, accepted, reports, requeues,
                 faults>>

\* createSubscriber asks for Qos(1, 0, false): the next delivery waits for the
\* last acknowledgement.  The channel that the library opens after a lost
\* connection consumes without it, but only once the delivery that its goroutine
\* still holds of the old channel was handed over.
Deliver(e) ==
  /\ limited => unacked = {}
  /\ inbox # <<>> => Head(inbox).live
  /\ e \in ready
  /\ ready' = ready \ {e}
  /\ unacked' = unacked \cup {e}
  /\ inbox' = Append(inbox, [email |-> e, live |-> TRUE])
  /\ UNCHANGED <<acked, limited, workers, accepted, reports, requeues, faults>>

\* The broker takes back what is not acknowledged.
Requeue ==
  /\ faults < MaxFaults
  /\ faults' = faults + 1
  /\ ready' = ready \cup unacked
  /\ unacked' = {}
  /\ requeues' = [e \in Emails |-> IF e \in unacked THEN requeues[e] + 1 ELSE requeues[e]]

\* The connection is lost and re-established; nothing sets the prefetch limit
\* again.  Of the deliveries on their way all are dropped but the one the
\* library's goroutine may already hold for the Go channel; workers keep theirs.
Reconnect ==
  /\ Requeue
  /\ limited' = FALSE
  /\ \/ inbox' = <<>> /\ (inbox # <<>> => Head(inbox).live)
     \/ inbox # <<>> /\ inbox' = <<[Head(inbox) EXCEPT !.live = FALSE]>>
  /\ live' = [w \in Workers |-> FALSE]
  /\ UNCHANGED <<acked, pc, mail, mxs, etype, accepted, reports>>

\* The process dies and is started again: createSubscriber.
Restart ==
  /\ Requeue
  /\ limited' = TRUE
  /\ inbox' = <<>>
  /\ pc' = [w \in Workers |-> "idle"]
  /\ mail' = [w \in Workers |-> Nil]
  /\ live' = [w \in Workers |-> FALSE]
  /\ mxs' = [w \in Workers |-> 0]
  /\ etype' = [w \in Workers |-> "send"]
  /\ UNCHANGED <<acked, accepted, reports>>

\* Mutant of AckDelivery: msg.Ack(true), everything delivered so far.
AckMultiple(e, isLive) ==
  IF isLive THEN unacked' = {} /\ acked' = acked \cup unacked
            ELSE UNCHANGED <<unacked, acked>>

\* msg.Ack(false): without effect when the delivery's channel is gone.
AckDelivery(e, isLive) ==
  IF isLive THEN unacked' = unacked \ {e} /\ acked' = acked \cup {e}
            ELSE UNCHANGED <<unacked, acked>>

-----------------------------------------------------------------------------
(* Sender.Run.                                                             *)

Receive(w) ==
  /\ pc[w] = "idle"
  /\ inbox # <<>>
  /\ inbox' = Tail(inbox)

\* Mutant of TakeMalformed: the bad message is skipped but not acknowledged.
TakeMalformedNoAck(w) ==
  /\ Receive(w)
  /\ Head(inbox).email \in Malformed
  /\ UNCHANGED <<queue, workers, accepted, reports, requeues, faults>>

\* A body that does not decode is acknowledged; the worker takes the next
\* one without waiting for the tick.
TakeMalformed(w) ==
  /\ Receive(w)
  /\ Head(inbox).email \in Malformed
  /\ AckDelivery(Head(inbox).email, Head(inbox).live)
  /\ UNCHANGED <<ready, limited, workers, accepted, reports, requeues, faults>>

\* Mutant of Take: acknowledged when it is taken (autoack).
TakeAcks(w) ==
  /\ Receive(w)
  /\ Head(inbox).email \notin Malformed
  /\ mail' = [mail EXCEPT ![w] = Head(inbox).email]
  /\ live' = [live EXCEPT ![w] = FALSE]
  /\ etype' = [etype EXCEPT ![w] = "send"]
  /\ Goto(w, "resolve")
  /\ AckDelivery(Head(inbox).email, Head(inbox).live)
  /\ UNCHANGED <<ready, limited, mxs, accepted, reports, requeues, faults>>

\* Email.Reset and a body that decodes.
Take(w) ==
  /\ Receive(w)
  /\ Head(inbox).email \notin Malformed
  /\ mail' = [mail EXCEPT ![w] = Head(inbox).email]
  /\ live' = [live EXCEPT ![w] = Head(inbox).live]
  /\ etype' = [etype EXCEPT ![w] = "send"]
  /\ Goto(w, "resolve")
  /\ UNCHANGED <<queue, mxs, accepted, reports, requeues, faults>>

\* sendEmail returned an error: Etype becomes bounce.
SendFailed(w) ==
  /\ etype' = [etype EXCEPT ![w] = "bounce"]
  /\ Goto(w, "bounce")

\* A bad destination address, or no MX for it.
ResolveFailed(w) ==
  /\ pc[w] = "resolve"
  /\ SendFailed(w)
  /\ UNCHANGED <<queue, inbox, mail, live, mxs, accepted, reports, requeues, faults>>

\* getDestinationMXs found the mail exchangers.
Resolve(w) ==
  /\ pc[w] = "resolve"
  /\ \E n \in 1..MaxMX : mxs' = [mxs EXCEPT ![w] = n]
  /\ Goto(w, "dial")
  /\ UNCHANGED <<queue, inbox, mail, live, etype, accepted, reports, requeues, faults>>

\* Mutant of DialFailed: the loop does not stop at the last exchanger.
DialFailedNoEnd(w) ==
  /\ pc[w] = "dial"
  /\ mxs' = [mxs EXCEPT ![w] = @ - 1]
  /\ UNCHANGED <<queue, inbox, pc, mail, live, etype, accepted, reports, requeues, faults>>

\* The next exchanger cannot be dialled: continue.
DialFailed(w) ==
  /\ pc[w] = "dial"
  /\ mxs[w] > 0
  /\ mxs' = [mxs EXCEPT ![w] = @ - 1]
  /\ UNCHANGED <<queue, inbox, pc, mail, live, etype, accepted, reports, requeues, faults>>

DialOK(w) ==
  /\ pc[w] = "dial"
  /\ mxs[w] > 0
  /\ mxs' = [mxs EXCEPT ![w] = @ - 1]
  /\ Goto(w, "talk")
  /\ UNCHANGED <<queue, inbox, mail, live, etype, accepted, reports, requeues, faults>>

\* No exchanger could be dialled: dialErr is set, but the function's own err
\* is returned, and that is nil.  Run takes the email for sent.
DialsExhausted(w) ==
  /\ pc[w] = "dial"
  /\ mxs[w] = 0
  /\ unreached' = unreached \cup {mail[w]}
  /\ Goto(w, "log")
  /\ UNCHANGED <<queue, inbox, mail, live, mxs, etype, accepted, bounces, logs,
                 lostBounce, requeues, faults>>

\* Mutant of TalkFailed: the error is not recorded as a bounce.
TalkFailedAsSend(w) ==
  /\ pc[w] = "talk"
  /\ Goto(w, "log")
  /\ UNCHANGED <<queue, inbox, mail, live, mxs, etype, accepted, reports, requeues, faults>>

\* The SMTP dialogue fails before the destination takes the message over.
TalkFailed(w) ==
  /\ pc[w] = "talk"
  /\ SendFailed(w)
  /\ UNCHANGED <<queue, inbox, mail, live, mxs, accepted, reports, requeues, faults>>

\* Mutant of TalkAcceptedFailed: on an error the next exchanger is tried.
TalkAcceptedRetry(w) ==
  /\ pc[w] = "talk"
  /\ accepted' = [accepted EXCEPT ![mail[w]] = @ + 1]
  /\ Goto(w, "dial")
  /\ UNCHANGED <<queue, inbox, mail, live, mxs, etype, reports, requeues, faults>>

\* The destination accepts the message, but its reply is lost or QUIT fails.
TalkAcceptedFailed(w) ==
  /\ pc[w] = "talk"
  /\ accepted' = [accepted EXCEPT ![mail[w]] = @ + 1]
  /\ SendFailed(w)
  /\ UNCHANGED <<queue, inbox, mail, live, mxs, reports, requeues, faults>>

TalkAccepted(w) ==
  /\ pc[w] = "talk"
  /\ accepted' = [accepted EXCEPT ![mail[w]] = @ + 1]
  /\ Goto(w, "log")
  /\ UNCHANGED <<queue, inbox, mail, live, mxs, etype, reports, requeues, faults>>

\* publishBounce: an error is only logged.
publishBounce(w) ==
  /\ pc[w] = "bounce"
  /\ \/ bounces' = bounces \cup {mail[w]} /\ UNCHANGED lostBounce
     \/ lostBounce' = lostBounce \cup {mail[w]} /\ UNCHANGED bounces
  /\ Goto(w, "log")
  /\ UNCHANGED <<queue, inbox, mail, live, mxs, etype, accepted, logs, unreached,
                 requeues, faults>>

\* publishLogEntry: an error is only logged.
publishLogEntry(w) ==
  /\ pc[w] = "log"
  /\ logs' \in {logs, logs \cup {<<mail[w], etype[w]>>}}
  /\ Goto(w, "ack")
  /\ UNCHANGED <<queue, inbox, mail, live, mxs, etype, accepted, bounces, unreached,
                 lostBounce, requeues, faults>>

\* The acknowledgement; the email goes back to the pool.
Ack(w) ==
  /\ pc[w] = "ack"
  /\ AckDelivery(mail[w], live[w])
  /\ mail' = [mail EXCEPT ![w] = Nil]
  /\ live' = [live EXCEPT ![w] = FALSE]
  /\ Goto(w, "pace")
  /\ UNCHANGED <<ready, limited, inbox, mxs, etype, accepted, reports, requeues, faults>>

\* The minute's tick.
Tick(w) ==
  /\ pc[w] = "pace"
  /\ Goto(w, "idle")
  /\ UNCHANGED <<queue, inbox, mail, live, mxs, etype, accepted, reports, requeues, faults>>

-----------------------------------------------------------------------------
sendEmail(w) ==
  \/ ResolveFailed(w) \/ Resolve(w)
  \/ DialFailed(w) \/ DialOK(w) \/ DialsExhausted(w)
  \/ TalkFailed(w) \/ TalkAcceptedFailed(w) \/ TalkAccepted(w)

Run(w) ==
  \/ TakeMalformed(w) \/ Take(w)
  \/ sendEmail(w)
  \/ publishBounce(w) \/ publishLogEntry(w) \/ Ack(w) \/ Tick(w)

Broker == \E e \in Emails : Queue(e) \/ Deliver(e)

Next == Broker \/ Reconnect \/ Restart \/ \E w \in Workers : Run(w)

Spec == Init /\ [][Next]_vars

\* The broker delivers while there is credit; a worker always gets on: dials,
\* the SMTP dialogue and the tick are all bounded in time (10 s, 60 s, 1 min).
Fairness ==
  /\ WF_vars(\E e \in Emails : Deliver(e))
  /\ \A w \in Workers : WF_vars(Run(w))

FairSpec == Spec /\ Fairness

-----------------------------------------------------------------------------
(* Properties.                                                             *)

\* Every variable has its type; a worker has an email exactly from Take to Ack
\* (Run, internal/sender/run.go).
TypeOK ==
  /\ ready \subseteq Emails /\ unacked \subseteq Emails /\ acked \subseteq Emails
  /\ limited \in BOOLEAN
  /\ inbox \in Seq(Delivery)
  /\ pc \in [Workers -> Steps]
  /\ mail \in [Workers -> Emails \cup {Nil}]
  /\ live \in [Workers -> BOOLEAN]
  /\ mxs \in [Workers -> Nat]
  /\ etype \in [Workers -> {"send", "bounce"}]
  /\ accepted \in [Emails -> Nat]
  /\ bounces \subseteq Emails /\ unreached \subseteq Emails /\ lostBounce \subseteq Emails
  /\ logs \subseteq Emails \X {"send", "bounce"}
  /\ requeues \in [Emails -> Nat]
  /\ faults \in Nat
  /\ \A w \in Workers : mail[w] = Nil <=> pc[w] \in {"idle", "pace"}

\* Each unacknowledged email has exactly one live delivery, in the client's
\* hands or a worker's, with the prefetch limit of the first channel and without
\* it after a reconnect, when several workers send at once; no email is in two
\* places of the broker.  So an acknowledgement never removes an email that
\* someone else is still sending on the current channel (createSubscriber, Run).
OneLiveDelivery ==
  /\ ready \cap unacked = {} /\ ready \cap acked = {} /\ unacked \cap acked = {}
  /\ \A i \in DOMAIN inbox : inbox[i].live => inbox[i].email \in unacked
  /\ \A w \in Workers : live[w] => mail[w] \in unacked
  /\ \A i, j \in DOMAIN inbox :
       inbox[i].live /\ inbox[j].live /\ inbox[i].email = inbox[j].email => i = j
  /\ \A w, v \in Workers : live[w] /\ live[v] /\ mail[w] = mail[v] => w = v
  /\ \A i \in DOMAIN inbox, w \in Workers :
       ~(inbox[i].live /\ live[w] /\ inbox[i].email = mail[w])
  /\ \A e \in unacked : \/ \E i \in DOMAIN inbox : inbox[i].live /\ inbox[i].email = e
                        \/ \E w \in Workers : live[w] /\ mail[w] = e

\* An email leaves the queue only once its fate is known: a destination
\* accepted it, a bounce was attempted, or every dial failed (Run acknowledges
\* last; a crash before that makes the broker deliver it again).
AckedHandled ==
  \A e \in acked \ Malformed :
    accepted[e] > 0 \/ e \in bounces \cup lostBounce \cup unreached

\* What the logs queue says of an email is what happened to it: "send" only
\* if a destination accepted it (or the unreported dial failure), "bounce"
\* only after publishBounce (Run publishes the entry after both).
LogTruthful ==
  \A e \in Emails :
    /\ <<e, "send">> \in logs => accepted[e] > 0 \/ e \in unreached
    /\ <<e, "bounce">> \in logs => e \in bounces \cup lostBounce

\* A destination sees an email more than once only because the broker
\* requeued it: sendEmail returns after the first exchanger that answers, and
\* one delivery reaches one worker.
DuplicateOnlyByRequeue ==
  \A e \in Emails : accepted[e] <= 1 + requeues[e]

\* What is known of an email, in MailQueue's terms.
FateOf(e) ==
     {f \in {"accepted"} : accepted[e] > 0}
  \cup {f \in {"bounced"} : e \in bounces \cup lostBounce}
  \cup {f \in {"unreached"} : e \in unreached}

Promise == INSTANCE MailQueue WITH
  pending <- ready \cup unacked,
  done <- acked,
  fate <- [e \in Emails |-> FateOf(e)]

\* Workers, prefetching, lost connections and restarts together are an
\* at-least-once queue: every step of Run, the broker and the client library is
\* a step of MailQueue or leaves it alone; in particular no step drops a
\* queued email, queues a finished one again, or finishes one whose fate is
\* unknown (internal/sender/run.go acknowledges last).
ImplementsMailQueue == Promise!Spec

\* Every queued email is eventually acknowledged, malformed ones included, as
\* long as faults are finitely many: no worker and no delivery gets stuck.
EventuallyAcked ==
  \A e \in Emails : (e \in ready) ~> (e \in acked)

\* "check for any dial errors" (send.go:101), "Failed sends in email should
\* trigger a retry or a bounce back to the sender" (README.md:8): an email that
\* left the queue was accepted by a destination or reported as a bounce.  When
\* every dial fails send.go:103 returns the wrong error variable, nil.
FailedSendReported ==
  \A e \in acked \ Malformed : accepted[e] > 0 \/ e \in bounces \cup lostBounce
=============================================================================
