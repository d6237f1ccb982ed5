---------------------------- MODULE SenderProofs ----------------------------
(***************************************************************************)
(* Proofs about Sender, for any workers, emails and bounds.                 *)
(***************************************************************************)
EXTENDS Sender, FiniteSetTheorems, TLAPS

\* The head and the tail of a nonempty sequence over S.
LEMMA HeadTail ==
  ASSUME NEW S, NEW s \in Seq(S), s # <<>>
  PROVE  Head(s) \in S /\ Tail(s) \in Seq(S)
OBVIOUS

\* The sequences of length zero and one.
LEMMA ShortSeq ==
  ASSUME NEW S
  PROVE  <<>> \in Seq(S) /\ \A x \in S : <<x>> \in Seq(S)
OBVIOUS

\* A worker past Take and before Ack has an email.
LEMMA MailOfBusy ==
  ASSUME TypeOK, NEW w \in Workers, pc[w] \notin {"idle", "pace"}
  PROVE  mail[w] \in Emails
BY DEF TypeOK

\* Every step keeps the types, and a worker holds an email exactly while Run
\* handles one.
LEMMA TypeStep == TypeOK /\ [Next]_vars => TypeOK'
<1> SUFFICES ASSUME TypeOK, [Next]_vars
             PROVE  TypeOK'
  OBVIOUS
<1> USE SenderAssumption DEF queue, workers, reports
<1> USE DEF TypeOK
<1>1. ASSUME NEW e \in Emails, Queue(e)
      PROVE  TypeOK'
  BY <1>1 DEF Queue
<1>2. ASSUME NEW e \in Emails, Deliver(e)
      PROVE  TypeOK'
  <2>1. [email |-> e, live |-> TRUE] \in Delivery
    BY DEF Delivery
  <2> QED
    BY <1>2, <2>1 DEF Deliver
<1>3. CASE Reconnect
  <2>1. ASSUME inbox # <<>>
        PROVE  [Head(inbox) EXCEPT !.live = FALSE] \in Delivery
    <3>1. Head(inbox) \in Delivery
      BY <2>1, HeadTail
    <3> QED
      BY <3>1 DEF Delivery
  <2>2. inbox' \in Seq(Delivery)
    <3> DEFINE d == [Head(inbox) EXCEPT !.live = FALSE]
    <3>1. \/ inbox' = <<>>
          \/ inbox # <<>> /\ inbox' = <<d>>
      BY <1>3 DEF Reconnect
    <3>2. inbox # <<>> => d \in Delivery
      BY <2>1
    <3> HIDE DEF d
    <3>3. CASE inbox' = <<>>
      BY <3>3
    <3>4. CASE inbox # <<>> /\ inbox' = <<d>>
      <4>1. d \in Delivery
        BY <3>2, <3>4
      <4>2. <<d>> \in Seq(Delivery)
        BY <4>1, ShortSeq
      <4> QED
        BY <3>4, <4>2
    <3> QED
      BY <3>1, <3>3, <3>4
  <2>3. requeues' \in [Emails -> Nat] /\ ready' \subseteq Emails
        /\ unacked' \subseteq Emails /\ faults' \in Nat
    BY <1>3 DEF Reconnect, Requeue
  <2>4. live' \in [Workers -> BOOLEAN] /\ limited' \in BOOLEAN
    BY <1>3 DEF Reconnect
  <2>5. UNCHANGED <<acked, pc, mail, mxs, etype, accepted, reports>>
    BY <1>3 DEF Reconnect
  <2> QED
    BY <2>2, <2>3, <2>4, <2>5
<1>4. CASE Restart
  BY <1>4 DEF Restart, Requeue, Steps
<1>5. ASSUME NEW w \in Workers, TakeMalformed(w)
      PROVE  TypeOK'
  <2>1. Head(inbox) \in Delivery /\ Tail(inbox) \in Seq(Delivery)
    BY <1>5, HeadTail DEF TakeMalformed, Receive
  <2>2. Head(inbox).email \in Emails
    BY <2>1 DEF Delivery
  <2> QED
    BY <1>5, <2>1, <2>2 DEF TakeMalformed, Receive, AckDelivery
<1>6. ASSUME NEW w \in Workers, Take(w)
      PROVE  TypeOK'
  <2>1. Head(inbox) \in Delivery /\ Tail(inbox) \in Seq(Delivery)
    BY <1>6, HeadTail DEF Take, Receive
  <2>2. Head(inbox).email \in Emails /\ Head(inbox).live \in BOOLEAN
    BY <2>1 DEF Delivery
  <2>3. live' \in [Workers -> BOOLEAN]
    BY <1>6, <2>2 DEF Take
  <2>4. inbox' \in Seq(Delivery) /\ pc' = [pc EXCEPT ![w] = "resolve"]
    BY <1>6, <2>1 DEF Take, Receive, Goto
  <2>5. mail' \in [Workers -> Emails \cup {Nil}] /\ mail'[w] # Nil
    BY <1>6, <2>2 DEF Take
  <2>6. \A v \in Workers : mail'[v] = Nil <=> pc'[v] \in {"idle", "pace"}
    BY <1>6, <2>4, <2>5 DEF Take, Steps
  <2> QED
    BY <1>6, <2>3, <2>4, <2>5, <2>6 DEF Take, Steps
<1>7. ASSUME NEW w \in Workers, ResolveFailed(w)
      PROVE  TypeOK'
  BY <1>7 DEF ResolveFailed, SendFailed, Goto, Steps
<1>8. ASSUME NEW w \in Workers, Resolve(w)
      PROVE  TypeOK'
  BY <1>8 DEF Resolve, Goto, Steps
<1>9. ASSUME NEW w \in Workers, DialFailed(w)
      PROVE  TypeOK'
  BY <1>9 DEF DialFailed
<1>10. ASSUME NEW w \in Workers, DialOK(w)
       PROVE  TypeOK'
  BY <1>10 DEF DialOK, Goto, Steps
<1>11. ASSUME NEW w \in Workers, DialsExhausted(w)
       PROVE  TypeOK'
  BY <1>11, MailOfBusy DEF DialsExhausted, Goto, Steps
<1>12. ASSUME NEW w \in Workers, TalkFailed(w)
       PROVE  TypeOK'
  BY <1>12 DEF TalkFailed, SendFailed, Goto, Steps
<1>13. ASSUME NEW w \in Workers, TalkAcceptedFailed(w)
       PROVE  TypeOK'
  <2>1. mail[w] \in Emails
    BY <1>13, MailOfBusy DEF TalkAcceptedFailed
  <2>2. accepted' \in [Emails -> Nat]
    BY <1>13, <2>1 DEF TalkAcceptedFailed
  <2> QED
    BY <1>13, <2>2 DEF TalkAcceptedFailed, SendFailed, Goto, Steps
<1>14. ASSUME NEW w \in Workers, TalkAccepted(w)
       PROVE  TypeOK'
  <2>1. mail[w] \in Emails
    BY <1>14, MailOfBusy DEF TalkAccepted
  <2>2. accepted' \in [Emails -> Nat]
    BY <1>14, <2>1 DEF TalkAccepted
  <2> QED
    BY <1>14, <2>2 DEF TalkAccepted, Goto, Steps
<1>15. ASSUME NEW w \in Workers, publishBounce(w)
       PROVE  TypeOK'
  BY <1>15, MailOfBusy DEF publishBounce, Goto, Steps
<1>16. ASSUME NEW w \in Workers, publishLogEntry(w)
       PROVE  TypeOK'
  <2>1. mail[w] \in Emails
    BY <1>16, MailOfBusy DEF publishLogEntry
  <2>2. logs' \subseteq Emails \X {"send", "bounce"}
    BY <1>16, <2>1 DEF publishLogEntry
  <2> QED
    BY <1>16, <2>2 DEF publishLogEntry, Goto, Steps
<1>17. ASSUME NEW w \in Workers, Ack(w)
       PROVE  TypeOK'
  <2>1. mail[w] \in Emails
    BY <1>17, MailOfBusy DEF Ack
  <2>2. unacked' \subseteq Emails /\ acked' \subseteq Emails
    BY <1>17, <2>1 DEF Ack, AckDelivery
  <2> QED
    BY <1>17, <2>2 DEF Ack, Goto, Steps
<1>18. ASSUME NEW w \in Workers, Tick(w)
       PROVE  TypeOK'
  BY <1>18 DEF Tick, Goto, Steps
<1>19. CASE UNCHANGED vars
  BY <1>19 DEF vars
<1> QED
  BY <1>1, <1>2, <1>3, <1>4, <1>5, <1>6, <1>7, <1>8, <1>9, <1>10, <1>11, <1>12,
     <1>13, <1>14, <1>15, <1>16, <1>17, <1>18, <1>19
     DEF Next, Broker, Run, sendEmail

\* Types, and a worker holds an email exactly while Run handles one, in every
\* state of every behaviour.
THEOREM TypeCorrect == Spec => []TypeOK
<1>1. Init => TypeOK
  BY SenderAssumption DEF Init, TypeOK, Steps, Delivery
<1> QED
  BY <1>1, TypeStep, PTL DEF Spec

\* The steps of Run that send and report leave the queue and the deliveries
\* alone.
LEMMA SendingKeepsDeliveries ==
  ASSUME NEW w \in Workers,
         sendEmail(w) \/ publishBounce(w) \/ publishLogEntry(w) \/ Tick(w)
  PROVE  UNCHANGED <<ready, unacked, acked, inbox, mail, live>>
BY DEF sendEmail, ResolveFailed, Resolve, DialFailed, DialOK, DialsExhausted,
       TalkFailed, TalkAcceptedFailed, TalkAccepted, publishBounce,
       publishLogEntry, Tick, queue

\* A worker that takes the head of the inbox leaves the other deliveries.
LEMMA TailOfInbox ==
  ASSUME TypeOK, inbox # <<>>, inbox' = Tail(inbox)
  PROVE  /\ 1 \in DOMAIN inbox /\ Head(inbox) = inbox[1]
         /\ \A i \in DOMAIN inbox' : i + 1 \in DOMAIN inbox /\ inbox'[i] = inbox[i + 1]
         /\ \A i \in DOMAIN inbox : i # 1 => i - 1 \in DOMAIN inbox' /\ inbox'[i - 1] = inbox[i]
         /\ DOMAIN inbox \subseteq Nat /\ DOMAIN inbox' \subseteq Nat
BY DEF TypeOK

\* What OneLiveDelivery says of the inbox it says of the rest, once the head
\* is taken; the other live deliveries stay where they are, of other emails.
LEMMA LiveInTail ==
  ASSUME TypeOK, OneLiveDelivery, inbox # <<>>, inbox' = Tail(inbox)
  PROVE  /\ \A i \in DOMAIN inbox' : inbox'[i].live => inbox'[i].email \in unacked
         /\ \A i, j \in DOMAIN inbox' :
              inbox'[i].live /\ inbox'[j].live /\ inbox'[i].email = inbox'[j].email => i = j
         /\ \A i \in DOMAIN inbox', v \in Workers :
              ~(inbox'[i].live /\ live[v] /\ inbox'[i].email = mail[v])
         /\ \A i \in DOMAIN inbox : inbox[i].live /\ i # 1 =>
              \E k \in DOMAIN inbox' : inbox'[k].live /\ inbox'[k].email = inbox[i].email
         /\ Head(inbox).live => \A i \in DOMAIN inbox' : inbox'[i].live =>
                                  inbox'[i].email # Head(inbox).email
<1>1. \A i \in DOMAIN inbox' : i + 1 \in DOMAIN inbox /\ inbox'[i] = inbox[i + 1]
  BY TailOfInbox
<1>2. \A i \in DOMAIN inbox' : inbox'[i].live => inbox'[i].email \in unacked
  BY <1>1 DEF OneLiveDelivery
<1>3. ASSUME NEW i \in DOMAIN inbox', NEW j \in DOMAIN inbox',
             inbox'[i].live, inbox'[j].live, inbox'[i].email = inbox'[j].email
      PROVE  i = j
  <2>1. i + 1 = j + 1
    BY <1>1, <1>3 DEF OneLiveDelivery
  <2>2. i \in Nat /\ j \in Nat
    BY <1>3, TailOfInbox
  <2> QED
    BY <2>1, <2>2
<1>4. \A i \in DOMAIN inbox', v \in Workers :
        ~(inbox'[i].live /\ live[v] /\ inbox'[i].email = mail[v])
  BY <1>1 DEF OneLiveDelivery
<1>5. ASSUME NEW i \in DOMAIN inbox, inbox[i].live, i # 1
      PROVE  \E k \in DOMAIN inbox' : inbox'[k].live /\ inbox'[k].email = inbox[i].email
  <2>1. i - 1 \in DOMAIN inbox' /\ inbox'[i - 1] = inbox[i]
    BY <1>5, TailOfInbox
  <2> QED
    BY <1>5, <2>1
<1>6. ASSUME Head(inbox).live, NEW i \in DOMAIN inbox', inbox'[i].live
      PROVE  inbox'[i].email # Head(inbox).email
  <2>1. i \in Nat /\ 1 \in DOMAIN inbox /\ Head(inbox) = inbox[1]
    BY <1>6, TailOfInbox
  <2>2. i + 1 # 1
    BY <1>1, <1>6, <2>1 
  <2> QED
    BY <1>1, <1>6, <2>1, <2>2 DEF OneLiveDelivery
<1> QED
  BY <1>2, <1>3, <1>4, <1>5, <1>6

\* Each step keeps exactly one live delivery per unacknowledged email.
LEMMA OneLiveStep == TypeOK /\ OneLiveDelivery /\ [Next]_vars => OneLiveDelivery'
<1> SUFFICES ASSUME TypeOK, OneLiveDelivery, [Next]_vars
             PROVE  OneLiveDelivery'
  OBVIOUS
<1>1. ASSUME NEW e \in Emails, Queue(e)
      PROVE  OneLiveDelivery'
  BY <1>1 DEF Queue, OneLiveDelivery, workers
<1>2. ASSUME NEW e \in Emails, Deliver(e)
      PROVE  OneLiveDelivery'
  <2> DEFINE d == [email |-> e, live |-> TRUE]
  <2>1. UNCHANGED <<live, mail, acked>> /\ unacked' = unacked \cup {e}
        /\ ready' = ready \ {e} /\ e \in ready /\ e \notin unacked
    BY <1>2 DEF Deliver, workers, OneLiveDelivery
  <2>2. DOMAIN inbox' = DOMAIN inbox \cup {Len(inbox) + 1}
    BY <1>2 DEF Deliver, TypeOK
  <2>3. inbox'[Len(inbox) + 1] = d /\ Len(inbox) + 1 \notin DOMAIN inbox
    BY <1>2 DEF Deliver, TypeOK
  <2>4. \A i \in DOMAIN inbox : inbox'[i] = inbox[i]
    BY <1>2 DEF Deliver, TypeOK
  <2>5. d.live /\ d.email = e
    OBVIOUS
  <2> HIDE DEF d
  <2>6. /\ \A i \in DOMAIN inbox : inbox[i].live => inbox[i].email # e
        /\ \A w \in Workers : live[w] => mail[w] # e
    BY <2>1 DEF OneLiveDelivery
  <2>7. \A f \in unacked' : \/ \E i \in DOMAIN inbox' : inbox'[i].live /\ inbox'[i].email = f
                           \/ \E w \in Workers : live'[w] /\ mail'[w] = f
    BY <2>1, <2>2, <2>3, <2>4, <2>5 DEF OneLiveDelivery
  <2>8. \A i, j \in DOMAIN inbox' :
          inbox'[i].live /\ inbox'[j].live /\ inbox'[i].email = inbox'[j].email => i = j
    BY <2>2, <2>3, <2>4, <2>5, <2>6 DEF OneLiveDelivery
  <2>9. \A i \in DOMAIN inbox', w \in Workers :
          ~(inbox'[i].live /\ live[w] /\ inbox'[i].email = mail[w])
    BY <2>2, <2>3, <2>4, <2>5, <2>6 DEF OneLiveDelivery
  <2> QED
    BY <2>1, <2>2, <2>3, <2>4, <2>5, <2>7, <2>8, <2>9 DEF OneLiveDelivery
<1>3. CASE Reconnect
  <2>1. \A i \in DOMAIN inbox' : ~inbox'[i].live
    <3>1. CASE inbox' = <<>>
      BY <3>1
    <3>2. CASE inbox # <<>> /\ inbox' = <<[Head(inbox) EXCEPT !.live = FALSE]>>
      <4>1. Head(inbox) \in Delivery
        BY <3>2, HeadTail DEF TypeOK
      <4> DEFINE d == [Head(inbox) EXCEPT !.live = FALSE]
      <4>2. ~d.live
        BY <4>1 DEF Delivery
      <4>3. inbox' = <<d>>
        BY <3>2
      <4> HIDE DEF d
      <4> QED
        BY <4>2, <4>3
    <3> QED
      BY <1>3, <3>1, <3>2 DEF Reconnect
  <2>2. unacked' = {} /\ ready' = ready \cup unacked /\ acked' = acked
        /\ \A w \in Workers : ~live'[w]
    BY <1>3 DEF Reconnect, Requeue
  <2> QED
    BY <2>1, <2>2 DEF OneLiveDelivery
<1>4. CASE Restart
  BY <1>4 DEF Restart, Requeue, OneLiveDelivery
<1>5. ASSUME NEW w \in Workers, TakeMalformed(w)
      PROVE  OneLiveDelivery'
  <2>1. inbox # <<>> /\ inbox' = Tail(inbox) /\ UNCHANGED <<ready, mail, live>>
        /\ AckDelivery(Head(inbox).email, Head(inbox).live)
    BY <1>5 DEF TakeMalformed, Receive, workers
  <2>2. 1 \in DOMAIN inbox /\ Head(inbox) = inbox[1]
    BY <2>1, TailOfInbox
  <2>3. CASE Head(inbox).live
    <3> DEFINE h == Head(inbox).email
    <3>1. h \in unacked /\ unacked' = unacked \ {h} /\ acked' = acked \cup {h}
      BY <2>1, <2>2, <2>3 DEF AckDelivery, OneLiveDelivery
    <3>2. /\ \A i \in DOMAIN inbox' : inbox'[i].live => inbox'[i].email # h
          /\ \A v \in Workers : live[v] => mail[v] # h
      BY <2>1, <2>2, <2>3, LiveInTail DEF OneLiveDelivery
    <3>3. \A i \in DOMAIN inbox : inbox[i].live /\ inbox[i].email # h =>
            \E k \in DOMAIN inbox' : inbox'[k].live /\ inbox'[k].email = inbox[i].email
      BY <2>1, <2>2, LiveInTail
    <3> HIDE DEF h
    <3>4. \A e \in unacked' : \/ \E i \in DOMAIN inbox' : inbox'[i].live /\ inbox'[i].email = e
                             \/ \E v \in Workers : live'[v] /\ mail'[v] = e
      BY <2>1, <3>1, <3>3 DEF OneLiveDelivery
    <3> QED
      BY <2>1, <3>1, <3>2, <3>4, LiveInTail DEF OneLiveDelivery
  <2>4. CASE ~Head(inbox).live
    <3>1. UNCHANGED <<unacked, acked>>
      BY <2>1, <2>4 DEF AckDelivery
    <3>2. \A i \in DOMAIN inbox : inbox[i].live =>
            \E k \in DOMAIN inbox' : inbox'[k].live /\ inbox'[k].email = inbox[i].email
      BY <2>1, <2>2, <2>4, LiveInTail
    <3>3. \A e \in unacked' : \/ \E i \in DOMAIN inbox' : inbox'[i].live /\ inbox'[i].email = e
                             \/ \E v \in Workers : live'[v] /\ mail'[v] = e
      BY <2>1, <3>1, <3>2 DEF OneLiveDelivery
    <3> QED
      BY <2>1, <3>1, <3>3, LiveInTail DEF OneLiveDelivery
  <2> QED
    BY <2>3, <2>4
<1>6. ASSUME NEW w \in Workers, Take(w)
      PROVE  OneLiveDelivery'
  <2>1. inbox # <<>> /\ inbox' = Tail(inbox) /\ UNCHANGED <<ready, unacked, acked>>
        /\ mail' = [mail EXCEPT ![w] = Head(inbox).email]
        /\ live' = [live EXCEPT ![w] = Head(inbox).live]
        /\ pc[w] = "idle"
    BY <1>6 DEF Take, Receive, queue
  <2>2. mail[w] = Nil
    BY <2>1 DEF TypeOK
  <2>3. ~live[w]
    BY <2>2, SenderAssumption DEF OneLiveDelivery, TypeOK
  <2>4. /\ live'[w] = Head(inbox).live /\ mail'[w] = Head(inbox).email
        /\ \A v \in Workers : v # w => live'[v] = live[v] /\ mail'[v] = mail[v]
    BY <2>1 DEF TypeOK
  <2>5. 1 \in DOMAIN inbox /\ Head(inbox) = inbox[1]
    BY <2>1, TailOfInbox
  <2>6. /\ \A i \in DOMAIN inbox' : Head(inbox).live /\ inbox'[i].live =>
               inbox'[i].email # Head(inbox).email
        /\ \A v \in Workers : Head(inbox).live /\ live[v] => mail[v] # Head(inbox).email
    BY <2>1, <2>5, LiveInTail DEF OneLiveDelivery
  <2>7. \A i \in DOMAIN inbox : inbox[i].live =>
          \/ \E k \in DOMAIN inbox' : inbox'[k].live /\ inbox'[k].email = inbox[i].email
          \/ live'[w] /\ mail'[w] = inbox[i].email
    BY <2>1, <2>4, <2>5, LiveInTail
  <2>8. \A v \in Workers : live[v] => live'[v] /\ mail'[v] = mail[v]
    BY <2>3, <2>4
  <2>9. \A e \in unacked' : \/ \E i \in DOMAIN inbox' : inbox'[i].live /\ inbox'[i].email = e
                           \/ \E v \in Workers : live'[v] /\ mail'[v] = e
    BY <2>1, <2>7, <2>8 DEF OneLiveDelivery
  <2>10. \A v \in Workers : live'[v] => mail'[v] \in unacked
    BY <2>4, <2>5 DEF OneLiveDelivery
  <2>11. \A u, v \in Workers : live'[u] /\ live'[v] /\ mail'[u] = mail'[v] => u = v
    BY <2>4, <2>6 DEF OneLiveDelivery
  <2>12. \A i \in DOMAIN inbox', v \in Workers :
           ~(inbox'[i].live /\ live'[v] /\ inbox'[i].email = mail'[v])
    BY <2>1, <2>4, <2>6, LiveInTail
  <2> QED
    BY <2>1, <2>9, <2>10, <2>11, <2>12, LiveInTail DEF OneLiveDelivery
<1>7. ASSUME NEW w \in Workers, Ack(w)
      PROVE  OneLiveDelivery'
  <2>1. UNCHANGED <<ready, inbox>> /\ AckDelivery(mail[w], live[w])
        /\ live' = [live EXCEPT ![w] = FALSE] /\ mail' = [mail EXCEPT ![w] = Nil]
    BY <1>7 DEF Ack
  <2>2. /\ ~live'[w]
        /\ \A v \in Workers : v # w => live'[v] = live[v] /\ mail'[v] = mail[v]
    BY <2>1 DEF TypeOK
  <2>3. CASE live[w]
    <3>1. mail[w] \in unacked /\ unacked' = unacked \ {mail[w]} /\ acked' = acked \cup {mail[w]}
      BY <2>1, <2>3 DEF AckDelivery, OneLiveDelivery
    <3>2. /\ \A v \in Workers : live'[v] => v # w /\ live[v] /\ mail'[v] = mail[v] /\ mail[v] # mail[w]
          /\ \A i \in DOMAIN inbox : inbox[i].live => inbox[i].email # mail[w]
      BY <2>2, <2>3 DEF OneLiveDelivery
    <3>3. \A v \in Workers : live[v] /\ mail[v] # mail[w] => live'[v] /\ mail'[v] = mail[v]
      BY <2>2
    <3> QED
      BY <2>1, <3>1, <3>2, <3>3 DEF OneLiveDelivery
  <2>4. CASE ~live[w]
    <3>1. UNCHANGED <<unacked, acked>>
      BY <2>1, <2>4 DEF AckDelivery
    <3>2. \A v \in Workers : live'[v] <=> live[v]
      BY <2>2, <2>4
    <3>3. \A v \in Workers : live'[v] => mail'[v] = mail[v]
      BY <2>2
    <3> QED
      BY <2>1, <3>1, <3>2, <3>3 DEF OneLiveDelivery
  <2> QED
    BY <2>3, <2>4
<1>8. ASSUME NEW w \in Workers,
             sendEmail(w) \/ publishBounce(w) \/ publishLogEntry(w) \/ Tick(w)
      PROVE  OneLiveDelivery'
  <2>1. UNCHANGED <<ready, unacked, acked, inbox, mail, live>>
    BY <1>8, SendingKeepsDeliveries
  <2> QED
    BY <2>1 DEF OneLiveDelivery
<1>9. CASE UNCHANGED vars
  BY <1>9 DEF vars, queue, workers, OneLiveDelivery
<1> QED
  BY <1>1, <1>2, <1>3, <1>4, <1>5, <1>6, <1>7, <1>8, <1>9 DEF Next, Broker, Run

\* Each unacknowledged email has exactly one live delivery, whether the channel
\* has the prefetch limit or lost it in a reconnect, for any number of workers,
\* emails and reconnects.
THEOREM DeliveryCorrect == Spec => []OneLiveDelivery
<1>1. Init => OneLiveDelivery
  BY DEF Init, OneLiveDelivery
<1> QED
  BY <1>1, OneLiveStep, TypeCorrect, PTL DEF Spec

-----------------------------------------------------------------------------
(* What is reported of an email.  AckedHandled and LogTruthful are not      *)
(* inductive: they need to know what a worker that is about to log or to    *)
(* acknowledge already knows of its email.                                  *)

Known(e, t) ==
  /\ t = "send" => accepted[e] > 0 \/ e \in unreached
  /\ t = "bounce" => e \in bounces \cup lostBounce

OutcomeKnown ==
  \A w \in Workers :
    /\ pc[w] \in {"resolve", "dial", "talk"} => etype[w] = "send"
    /\ pc[w] = "bounce" => etype[w] = "bounce"
    /\ pc[w] \in {"log", "ack"} => Known(mail[w], etype[w])

ReportInv == OutcomeKnown /\ AckedHandled /\ LogTruthful

\* What is known of an email stays known.
LEMMA KnownStable ==
  ASSUME TypeOK, NEW e \in Emails, NEW t, Known(e, t),
         \A f \in Emails : accepted'[f] >= accepted[f],
         accepted' \in [Emails -> Nat],
         bounces \subseteq bounces', lostBounce \subseteq lostBounce',
         unreached \subseteq unreached'
  PROVE  Known(e, t)'
BY DEF Known, TypeOK

\* Outcomes only accumulate: acceptances are counted up, reports added.
LEMMA OutcomesGrow ==
  ASSUME TypeOK, [Next]_vars
  PROVE  /\ \A f \in Emails : accepted'[f] >= accepted[f]
         /\ bounces \subseteq bounces' /\ lostBounce \subseteq lostBounce'
         /\ unreached \subseteq unreached'
<1> USE DEF TypeOK
<1>1. ASSUME NEW w \in Workers, TalkAcceptedFailed(w) \/ TalkAccepted(w)
      PROVE  /\ \A f \in Emails : accepted'[f] >= accepted[f]
             /\ UNCHANGED reports
  <2>1. accepted' = [accepted EXCEPT ![mail[w]] = @ + 1] /\ UNCHANGED reports
    BY <1>1 DEF TalkAcceptedFailed, TalkAccepted
  <2>2. accepted \in [Emails -> Nat]
    OBVIOUS
  <2>3. \A f \in Emails : accepted'[f] \in {accepted[f], accepted[f] + 1} /\ accepted[f] \in Nat
    BY <2>1, <2>2
  <2>4. QED
    BY <2>1, <2>3
<1>2. ASSUME NEW w \in Workers, publishBounce(w) \/ DialsExhausted(w)
      PROVE  /\ UNCHANGED accepted
             /\ bounces \subseteq bounces' /\ lostBounce \subseteq lostBounce'
             /\ unreached \subseteq unreached'
  BY <1>2 DEF publishBounce, DialsExhausted
<1>3. ASSUME NEW w \in Workers, publishLogEntry(w)
      PROVE  UNCHANGED <<accepted, bounces, lostBounce, unreached>>
  BY <1>3 DEF publishLogEntry
<1>4. ASSUME NEW w \in Workers,
             TakeMalformed(w) \/ Take(w) \/ ResolveFailed(w) \/ Resolve(w)
             \/ DialFailed(w) \/ DialOK(w) \/ TalkFailed(w) \/ Ack(w) \/ Tick(w)
      PROVE  UNCHANGED <<accepted, reports>>
  BY <1>4 DEF TakeMalformed, Take, ResolveFailed, Resolve, DialFailed, DialOK,
              TalkFailed, Ack, Tick
<1>5. ASSUME Broker \/ Reconnect \/ Restart \/ UNCHANGED vars
      PROVE  UNCHANGED <<accepted, reports>>
  BY <1>5 DEF Broker, Queue, Deliver, Reconnect, Restart, vars
<1>6. UNCHANGED accepted => \A f \in Emails : accepted'[f] >= accepted[f]
  OBVIOUS
<1> QED
  BY <1>1, <1>2, <1>3, <1>4, <1>5, <1>6 DEF Next, Run, sendEmail, reports

\* Each step keeps OutcomeKnown.
LEMMA OutcomeStep == TypeOK /\ OutcomeKnown /\ [Next]_vars => OutcomeKnown'
<1> SUFFICES ASSUME TypeOK, OutcomeKnown, [Next]_vars
             PROVE  OutcomeKnown'
  OBVIOUS
<1> DEFINE K(v) == /\ pc[v] \in {"resolve", "dial", "talk"} => etype[v] = "send"
                   /\ pc[v] = "bounce" => etype[v] = "bounce"
                   /\ pc[v] \in {"log", "ack"} => Known(mail[v], etype[v])
<1>0. TypeOK'
  BY TypeStep
<1>1. ASSUME NEW e \in Emails, NEW t, Known(e, t)
      PROVE  Known(e, t)'
  <2>1. accepted' \in [Emails -> Nat]
    BY <1>0 DEF TypeOK
  <2> QED
    BY <1>1, <2>1, OutcomesGrow, KnownStable
\* A worker that stands still keeps what it knows.
<1>2. ASSUME NEW v \in Workers,
             pc'[v] = pc[v], mail'[v] = mail[v], etype'[v] = etype[v]
      PROVE  K(v)'
  <2>1. pc[v] \in {"log", "ack"} => Known(mail[v], etype[v]) /\ mail[v] \in Emails
    BY MailOfBusy DEF OutcomeKnown
  <2>2. pc[v] \in {"log", "ack"} => Known(mail[v], etype[v])'
    BY <2>1, <1>1, <1>2 DEF Known
  <2> QED
    BY <1>2, <2>2 DEF OutcomeKnown
\* The worker that moves, action by action.
<1>3. ASSUME NEW w \in Workers, Run(w)
      PROVE  \A v \in Workers : v # w => pc'[v] = pc[v] /\ mail'[v] = mail[v]
                                         /\ etype'[v] = etype[v]
  BY <1>3 DEF Run, sendEmail, TakeMalformed, Take, ResolveFailed, Resolve, DialFailed,
              DialOK, DialsExhausted, TalkFailed, TalkAcceptedFailed, TalkAccepted,
              publishBounce, publishLogEntry, Ack, Tick, SendFailed, Goto, workers, TypeOK
<1>4. ASSUME NEW w \in Workers, Run(w)
      PROVE  K(w)'
  <2>1. CASE TakeMalformed(w)
    BY <2>1, <1>2 DEF TakeMalformed, workers
  <2>2. CASE Take(w)
    <3>1. pc'[w] = "resolve" /\ etype'[w] = "send"
      BY <2>2 DEF Take, Goto, TypeOK
    <3> QED
      BY <3>1
  <2>3. CASE ResolveFailed(w) \/ TalkFailed(w) \/ TalkAcceptedFailed(w)
    <3>1. pc'[w] = "bounce" /\ etype'[w] = "bounce"
      BY <2>3 DEF ResolveFailed, TalkFailed, TalkAcceptedFailed, SendFailed, Goto, TypeOK
    <3> QED
      BY <3>1
  <2>4. CASE Resolve(w) \/ DialFailed(w) \/ DialOK(w)
    <3>1. pc'[w] \in {"dial", "talk"} /\ etype'[w] = "send"
      BY <2>4 DEF Resolve, DialFailed, DialOK, Goto, TypeOK, OutcomeKnown
    <3> QED
      BY <3>1
  <2>5. CASE DialsExhausted(w)
    <3>1. pc'[w] = "log" /\ etype'[w] = "send" /\ mail'[w] \in unreached'
      BY <2>5 DEF DialsExhausted, Goto, TypeOK, OutcomeKnown
    <3> QED
      BY <3>1 DEF Known
  <2>6. CASE TalkAccepted(w)
    <3>1. pc'[w] = "log" /\ etype'[w] = "send" /\ mail'[w] = mail[w]
      BY <2>6 DEF TalkAccepted, Goto, TypeOK, OutcomeKnown
    <3>2. mail[w] \in Emails
      BY <2>6, MailOfBusy DEF TalkAccepted
    <3>3. accepted'[mail[w]] > 0
      BY <2>6, <3>2 DEF TalkAccepted, TypeOK
    <3> QED
      BY <3>1, <3>3 DEF Known
  <2>7. CASE publishBounce(w)
    <3>1. pc'[w] = "log" /\ etype'[w] = "bounce" /\ mail'[w] = mail[w]
      BY <2>7 DEF publishBounce, Goto, TypeOK, OutcomeKnown
    <3>2. mail[w] \in bounces' \cup lostBounce'
      BY <2>7 DEF publishBounce
    <3> QED
      BY <3>1, <3>2 DEF Known
  <2>8. CASE publishLogEntry(w)
    <3>1. pc'[w] = "ack" /\ etype'[w] = etype[w] /\ mail'[w] = mail[w] /\ pc[w] = "log"
      BY <2>8 DEF publishLogEntry, Goto, TypeOK
    <3>2. Known(mail[w], etype[w]) /\ mail[w] \in Emails
      BY <3>1, MailOfBusy DEF OutcomeKnown
    <3>3. Known(mail[w], etype[w])'
      BY <3>1, <3>2, <1>1 DEF Known
    <3> QED
      BY <3>1, <3>3
  <2>9. CASE Ack(w) \/ Tick(w)
    <3>1. pc'[w] \in {"pace", "idle"}
      BY <2>9 DEF Ack, Tick, Goto, TypeOK
    <3> QED
      BY <3>1
  <2> QED
    BY <1>4, <2>1, <2>2, <2>3, <2>4, <2>5, <2>6, <2>7, <2>8, <2>9 DEF Run, sendEmail
<1>5. ASSUME NEW w \in Workers, Run(w)
      PROVE  OutcomeKnown'
  <2>1. \A v \in Workers : K(v)'
    BY <1>2, <1>3, <1>4, <1>5
  <2> QED
    BY <2>1 DEF OutcomeKnown
<1>6. CASE Restart
  BY <1>6 DEF Restart, OutcomeKnown
<1>7. CASE Broker \/ Reconnect \/ UNCHANGED vars
  <2>1. UNCHANGED <<pc, mail, etype>>
    BY <1>7 DEF Broker, Queue, Deliver, Reconnect, vars, workers
  <2>2. \A v \in Workers : K(v)'
    BY <1>2, <2>1
  <2> QED
    BY <2>2 DEF OutcomeKnown
<1> QED
  BY <1>5, <1>6, <1>7 DEF Next

\* Each step keeps AckedHandled and LogTruthful: only Ack and publishLogEntry
\* add to acked and logs, and they know the outcome.
LEMMA ReportStep == TypeOK /\ ReportInv /\ [Next]_vars => ReportInv'
<1> SUFFICES ASSUME TypeOK, ReportInv, [Next]_vars
             PROVE  AckedHandled' /\ LogTruthful'
  BY OutcomeStep DEF ReportInv
<1>0. TypeOK'
  BY TypeStep
<1>1. ASSUME NEW e \in Emails, NEW t, Known(e, t)
      PROVE  Known(e, t)'
  <2>1. accepted' \in [Emails -> Nat]
    BY <1>0 DEF TypeOK
  <2> QED
    BY <1>1, <2>1, OutcomesGrow, KnownStable
<1>2. ASSUME NEW e \in acked' \ Malformed
      PROVE  Known(e, "send")' \/ Known(e, "bounce")'
  <2>1. CASE e \in acked
    <3>1. e \in Emails /\ (Known(e, "send") \/ Known(e, "bounce"))
      BY <2>1, <1>2 DEF ReportInv, AckedHandled, Known, TypeOK
    <3> QED
      BY <3>1, <1>1
  <2>2. CASE e \notin acked
    <3>1. PICK w \in Workers : pc[w] = "ack" /\ mail[w] = e
      <4>1. CASE Broker \/ Reconnect \/ Restart \/ UNCHANGED vars
        BY <1>2, <2>2, <4>1 DEF Broker, Queue, Deliver, Reconnect, Restart, vars, queue
      <4>2. ASSUME NEW w \in Workers, Run(w)
            PROVE  pc[w] = "ack" /\ mail[w] = e
        <5>1. CASE TakeMalformed(w)
          BY <1>2, <2>2, <5>1 DEF TakeMalformed, AckDelivery
        <5>2. CASE Take(w)
          BY <1>2, <2>2, <5>2 DEF Take, queue
        <5>3. CASE Ack(w)
          BY <1>2, <2>2, <5>3 DEF Ack, AckDelivery
        <5>4. CASE sendEmail(w) \/ publishBounce(w) \/ publishLogEntry(w) \/ Tick(w)
          BY <1>2, <2>2, <5>4, SendingKeepsDeliveries
        <5> QED
          BY <4>2, <5>1, <5>2, <5>3, <5>4 DEF Run
      <4> QED
        BY <4>1, <4>2 DEF Next
    <3>2. Known(e, etype[w]) /\ etype[w] \in {"send", "bounce"} /\ e \in Emails
      BY <3>1, MailOfBusy DEF ReportInv, OutcomeKnown, TypeOK
    <3>3. Known(e, "send") \/ Known(e, "bounce")
      BY <3>2
    <3> QED
      BY <3>2, <3>3, <1>1
  <2> QED
    BY <2>1, <2>2
<1>3. ASSUME NEW e \in Emails, NEW t \in {"send", "bounce"}, <<e, t>> \in logs'
      PROVE  Known(e, t)'
  <2>1. CASE <<e, t>> \in logs
    <3>1. Known(e, t)
      BY <2>1 DEF ReportInv, LogTruthful, Known
    <3> QED
      BY <3>1, <1>1
  <2>2. CASE <<e, t>> \notin logs
    <3>1. PICK w \in Workers : publishLogEntry(w)
      <4>1. CASE Broker \/ Reconnect \/ Restart \/ UNCHANGED vars
        BY <1>3, <2>2, <4>1 DEF Broker, Queue, Deliver, Reconnect, Restart, vars, reports
      <4>2. ASSUME NEW w \in Workers, Run(w), ~publishLogEntry(w)
            PROVE  UNCHANGED logs
        BY <4>2 DEF Run, sendEmail, TakeMalformed, Take, ResolveFailed, Resolve,
             DialFailed, DialOK, DialsExhausted, TalkFailed, TalkAcceptedFailed,
             TalkAccepted, publishBounce, Ack, Tick, reports
      <4> QED
        BY <1>3, <2>2, <4>1, <4>2 DEF Next
    <3>2. <<e, t>> = <<mail[w], etype[w]>> /\ pc[w] = "log"
      BY <1>3, <2>2, <3>1 DEF publishLogEntry
    <3>3. Known(e, t)
      BY <3>2 DEF ReportInv, OutcomeKnown
    <3> QED
      BY <3>3, <1>1
  <2> QED
    BY <2>1, <2>2
<1>4. AckedHandled'
  BY <1>2 DEF AckedHandled, Known
<1>5. LogTruthful'
  BY <1>3 DEF LogTruthful, Known
<1> QED
  BY <1>4, <1>5

\* No email leaves the queue before its fate is known, and no log entry
\* claims more than happened.
THEOREM ReportCorrect == Spec => [](AckedHandled /\ LogTruthful)
<1>1. Init => ReportInv
  BY DEF Init, ReportInv, OutcomeKnown, AckedHandled, LogTruthful
<1>2. ReportInv => AckedHandled /\ LogTruthful
  BY DEF ReportInv
<1> QED
  BY <1>1, <1>2, ReportStep, TypeCorrect, PTL DEF Spec

-----------------------------------------------------------------------------
(* The queue as MailQueue sees it.  Whatever is in the client's or a        *)
(* worker's hands was queued, even when its delivery is stale and the email *)
(* long acknowledged, and what a worker sends did decode.                   *)

Queued == ready \cup unacked \cup acked

HeldQueued ==
  /\ \A i \in DOMAIN inbox : inbox[i].email \in Queued
  /\ \A w \in Workers : mail[w] # Nil => mail[w] \in Queued \ Malformed

\* A worker's step leaves the other workers alone.
LEMMA OthersStand ==
  ASSUME TypeOK, NEW w \in Workers, Run(w)
  PROVE  \A v \in Workers : v # w => pc'[v] = pc[v] /\ mail'[v] = mail[v]
BY DEF Run, sendEmail, TakeMalformed, Take, ResolveFailed, Resolve, DialFailed,
       DialOK, DialsExhausted, TalkFailed, TalkAcceptedFailed, TalkAccepted,
       publishBounce, publishLogEntry, Ack, Tick, SendFailed, Goto, workers, TypeOK

\* Once queued, an email is in one place of the broker or another.
LEMMA QueuedGrows ==
  ASSUME TypeOK, [Next]_vars
  PROVE  Queued \subseteq Queued'
<1> USE DEF Queued, queue
<1>1. CASE Broker \/ Reconnect \/ Restart \/ UNCHANGED vars
  BY <1>1 DEF Broker, Queue, Deliver, Reconnect, Restart, Requeue, vars
<1>2. ASSUME NEW w \in Workers, Run(w)
      PROVE  Queued \subseteq Queued'
  <2>1. CASE TakeMalformed(w)
    BY <2>1 DEF TakeMalformed, AckDelivery
  <2>2. CASE Take(w)
    BY <2>2 DEF Take
  <2>3. CASE Ack(w)
    BY <2>3 DEF Ack, AckDelivery
  <2>4. QED
    BY <1>2, <2>1, <2>2, <2>3, SendingKeepsDeliveries DEF Run
<1>3. QED
  BY <1>1, <1>2 DEF Next

\* The deliveries of the next state are those of this one, made stale or not,
\* and the one the broker makes.
LEMMA InboxFrom ==
  ASSUME TypeOK, [Next]_vars, NEW i \in DOMAIN inbox'
  PROVE  \/ \E j \in DOMAIN inbox : inbox'[i].email = inbox[j].email
         \/ inbox'[i].email \in ready
<1>1. ASSUME inbox' = inbox
      PROVE  \E j \in DOMAIN inbox : inbox'[i].email = inbox[j].email
  BY <1>1
<1>2. ASSUME NEW e \in Emails, Deliver(e)
      PROVE  \/ \E j \in DOMAIN inbox : inbox'[i].email = inbox[j].email
             \/ inbox'[i].email \in ready
  <2> DEFINE d == [email |-> e, live |-> TRUE]
  <2>1. inbox' = Append(inbox, d) /\ d.email \in ready
    BY <1>2 DEF Deliver
  <2> HIDE DEF d
  <2>2. (i \in DOMAIN inbox /\ inbox'[i] = inbox[i]) \/ inbox'[i] = d
    BY <2>1 DEF TypeOK
  <2>3. QED
    BY <2>1, <2>2
<1>3. CASE Reconnect
  <2>1. CASE inbox' = <<>>
    BY <2>1
  <2>2. CASE inbox # <<>> /\ inbox' = <<[Head(inbox) EXCEPT !.live = FALSE]>>
    <3>1. Head(inbox) \in Delivery /\ 1 \in DOMAIN inbox /\ Head(inbox) = inbox[1]
      BY <2>2, HeadTail DEF TypeOK
    <3> DEFINE d == [Head(inbox) EXCEPT !.live = FALSE]
    <3>2. d.email = inbox[1].email
      BY <3>1 DEF Delivery
    <3>3. inbox' = <<d>>
      BY <2>2
    <3> HIDE DEF d
    <3>4. QED
      BY <3>1, <3>2, <3>3
  <2>3. QED
    BY <1>3, <2>1, <2>2 DEF Reconnect
<1>4. CASE Restart
  BY <1>4 DEF Restart
<1>5. ASSUME NEW w \in Workers, TakeMalformed(w) \/ Take(w)
      PROVE  \E j \in DOMAIN inbox : inbox'[i].email = inbox[j].email
  BY <1>5, TailOfInbox DEF TakeMalformed, Take, Receive
<1>6. ASSUME NEW w \in Workers, Ack(w)
      PROVE  inbox' = inbox
  BY <1>6 DEF Ack
<1>7. ASSUME NEW e \in Emails, Queue(e)
      PROVE  inbox' = inbox
  BY <1>7 DEF Queue
<1>8. UNCHANGED vars => inbox' = inbox
  BY DEF vars
<1>9. QED
  BY <1>1, <1>2, <1>3, <1>4, <1>5, <1>6, <1>7, <1>8, SendingKeepsDeliveries
     DEF Next, Broker, Run

\* Each step keeps HeldQueued.
LEMMA HeldStep == TypeOK /\ HeldQueued /\ [Next]_vars => HeldQueued'
<1> SUFFICES ASSUME TypeOK, HeldQueued, [Next]_vars
             PROVE  HeldQueued'
  OBVIOUS
<1>1. Queued \subseteq Queued'
  BY QueuedGrows
<1>2. ASSUME NEW i \in DOMAIN inbox'
      PROVE  inbox'[i].email \in Queued'
  <2>1. inbox'[i].email \in Queued
    BY InboxFrom DEF HeldQueued, Queued
  <2>2. QED
    BY <1>1, <2>1
<1>3. ASSUME NEW v \in Workers, mail'[v] # Nil
      PROVE  mail'[v] \in Queued' \ Malformed
  <2>1. CASE mail'[v] = mail[v]
    BY <1>1, <1>3, <2>1 DEF HeldQueued
  <2>2. ASSUME NEW w \in Workers, Take(w)
        PROVE  mail'[v] \in Queued' \ Malformed
    <3>1. Head(inbox).email \in Queued \ Malformed
      BY <2>2, TailOfInbox DEF Take, Receive, HeldQueued
    <3>2. mail'[v] \in {mail[v], Head(inbox).email}
      BY <2>2 DEF Take, TypeOK
    <3>3. QED
      BY <1>1, <2>1, <3>1, <3>2
  <2>3. ASSUME NEW w \in Workers, Run(w), ~Take(w)
        PROVE  mail'[v] \in {mail[v], Nil}
    <3>1. CASE TakeMalformed(w)
      BY <3>1 DEF TakeMalformed, workers
    <3>2. CASE Ack(w)
      BY <3>2 DEF Ack, TypeOK
    <3>3. QED
      BY <2>3, <3>1, <3>2, SendingKeepsDeliveries DEF Run
  <2>4. CASE Restart
    BY <1>3, <2>4 DEF Restart
  <2>5. CASE Broker \/ Reconnect \/ UNCHANGED vars
    BY <2>1, <2>5 DEF Broker, Queue, Deliver, Reconnect, vars, workers
  <2>6. QED
    BY <1>3, <2>1, <2>2, <2>3, <2>4, <2>5 DEF Next
<1>4. QED
  BY <1>2, <1>3 DEF HeldQueued

\* An email of which something more gets known is settled, as MailQueue sees it.
LEMMA Settles ==
  ASSUME TypeOK, HeldQueued, NEW e \in Queued \ Malformed, NEW f \in Promise!Fates,
         UNCHANGED <<ready, unacked, acked>>,
         \A g \in Emails : FateOf(g)' = IF g = e THEN FateOf(g) \cup {f} ELSE FateOf(g)
  PROVE  Promise!Next
<1>1. e \in Emails
  BY DEF Queued, TypeOK
<1>2. [g \in Emails |-> FateOf(g)]' = [[g \in Emails |-> FateOf(g)] EXCEPT ![e] = @ \cup {f}]
  BY <1>1
<1>3. Promise!Settle(e, f)
  BY <1>2 DEF Promise!Settle, Queued
<1>4. QED
  BY <1>1, <1>3 DEF Promise!Next

\* An email whose live delivery is acknowledged is finished, as MailQueue sees it.
LEMMA Finishes ==
  ASSUME TypeOK, OneLiveDelivery, NEW e \in Emails, e \in unacked, AckDelivery(e, TRUE),
         e \in Malformed \/ FateOf(e) # {}, ready' = ready,
         \A g \in Emails : FateOf(g)' = FateOf(g)
  PROVE  Promise!Next
<1>1. Promise!Finish(e)
  <2>1. e \in ready \cup unacked /\ (ready \cup unacked)' = (ready \cup unacked) \ {e}
        /\ acked' = acked \cup {e}
    BY DEF AckDelivery, OneLiveDelivery
  <2>2. [g \in Emails |-> FateOf(g)]' = [g \in Emails |-> FateOf(g)]
    OBVIOUS
  <2>3. [g \in Emails |-> FateOf(g)][e] = FateOf(e)
    OBVIOUS
  <2>4. QED
    BY <2>1, <2>2, <2>3 DEF Promise!Finish
<1>2. QED
  BY <1>1 DEF Promise!Next

\* What leaves the outcomes alone leaves the fates alone.
LEMMA FatesKept ==
  ASSUME UNCHANGED <<accepted, bounces, lostBounce, unreached>>
  PROVE  \A g \in Emails : FateOf(g)' = FateOf(g)
BY DEF FateOf

\* What only moves emails between ready and unacked is a stutter of MailQueue.
LEMMA Stutters ==
  ASSUME (ready \cup unacked)' = ready \cup unacked, acked' = acked,
         UNCHANGED <<accepted, bounces, lostBounce, unreached>>
  PROVE  UNCHANGED Promise!vars
<1>1. [g \in Emails |-> FateOf(g)]' = [g \in Emails |-> FateOf(g)]
  BY FatesKept
<1>2. QED
  BY <1>1 DEF Promise!vars

\* Every step is a step of MailQueue or leaves it alone.
LEMMA RefineStep ==
  ASSUME TypeOK, OneLiveDelivery, OutcomeKnown, HeldQueued, [Next]_vars
  PROVE  [Promise!Next]_(Promise!vars)
<1> USE SenderAssumption
<1>1. ASSUME NEW e \in Emails, Queue(e)
      PROVE  Promise!Next
  <2>1. Promise!Enqueue(e)
    <3>1. e \notin ready \cup unacked \cup acked /\ acked' = acked
          /\ (ready \cup unacked)' = (ready \cup unacked) \cup {e}
          /\ UNCHANGED <<accepted, bounces, lostBounce, unreached>>
      BY <1>1 DEF Queue, reports
    <3>2. [g \in Emails |-> FateOf(g)]' = [g \in Emails |-> FateOf(g)]
      BY <3>1, FatesKept
    <3>3. QED
      BY <3>1, <3>2 DEF Promise!Enqueue
  <2>2. QED
    BY <2>1 DEF Promise!Next
<1>2. CASE (\E e \in Emails : Deliver(e)) \/ Reconnect \/ Restart \/ UNCHANGED vars
  <2>1. /\ (ready \cup unacked)' = ready \cup unacked /\ acked' = acked
        /\ UNCHANGED <<accepted, bounces, lostBounce, unreached>>
    BY <1>2 DEF Deliver, Reconnect, Restart, Requeue, vars, queue, reports
  <2>2. QED
    BY <2>1, Stutters
<1>3. ASSUME NEW w \in Workers,
             Take(w) \/ ResolveFailed(w) \/ Resolve(w) \/ DialFailed(w) \/ DialOK(w)
             \/ TalkFailed(w) \/ publishLogEntry(w) \/ Tick(w)
      PROVE  UNCHANGED Promise!vars
  <2>1. /\ UNCHANGED <<ready, unacked, acked>>
        /\ UNCHANGED <<accepted, bounces, lostBounce, unreached>>
    BY <1>3 DEF Take, ResolveFailed, Resolve, DialFailed, DialOK, TalkFailed,
                publishLogEntry, Tick, queue, reports
  <2>2. QED
    BY <2>1, Stutters
<1>4. ASSUME NEW w \in Workers, TakeMalformed(w)
      PROVE  [Promise!Next]_(Promise!vars)
  <2>1. /\ ready' = ready /\ UNCHANGED <<accepted, bounces, lostBounce, unreached>>
        /\ AckDelivery(Head(inbox).email, Head(inbox).live)
        /\ Head(inbox).email \in Malformed
        /\ inbox # <<>> /\ inbox' = Tail(inbox)
    BY <1>4 DEF TakeMalformed, Receive, reports
  <2>2. CASE Head(inbox).live
    <3>1. Head(inbox).email \in unacked /\ Head(inbox).email \in Emails
      BY <2>1, <2>2, TailOfInbox DEF OneLiveDelivery, TypeOK
    <3>2. AckDelivery(Head(inbox).email, TRUE)
      BY <2>1, <2>2 DEF AckDelivery
    <3>3. Promise!Next
      BY <2>1, <3>1, <3>2, FatesKept, Finishes
    <3>4. QED
      BY <3>3
  <2>3. CASE ~Head(inbox).live
    BY <2>1, <2>3, Stutters DEF AckDelivery
  <2>4. QED
    BY <2>2, <2>3
<1>5. ASSUME NEW w \in Workers, Ack(w)
      PROVE  [Promise!Next]_(Promise!vars)
  <2>1. /\ ready' = ready /\ UNCHANGED <<accepted, bounces, lostBounce, unreached>>
        /\ AckDelivery(mail[w], live[w]) /\ pc[w] = "ack"
    BY <1>5 DEF Ack, reports
  <2>2. CASE live[w]
    <3>1. mail[w] \in unacked /\ mail[w] \in Emails
      BY <2>1, <2>2, MailOfBusy DEF OneLiveDelivery
    <3>2. AckDelivery(mail[w], TRUE)
      BY <2>1, <2>2 DEF AckDelivery
    <3>3. Known(mail[w], etype[w]) /\ etype[w] \in {"send", "bounce"}
      BY <2>1 DEF OutcomeKnown, TypeOK
    <3>4. FateOf(mail[w]) # {}
      BY <3>3 DEF Known, FateOf
    <3>5. Promise!Next
      BY <2>1, <3>1, <3>2, <3>4, FatesKept, Finishes
    <3>6. QED
      BY <3>5
  <2>3. CASE ~live[w]
    BY <2>1, <2>3, Stutters DEF AckDelivery
  <2>4. QED
    BY <2>2, <2>3
<1>6. ASSUME NEW w \in Workers, TalkAcceptedFailed(w) \/ TalkAccepted(w) \/ DialsExhausted(w)
                                \/ publishBounce(w)
      PROVE  Promise!Next
  <2>1. mail[w] \in Emails
    BY <1>6, MailOfBusy DEF TalkAcceptedFailed, TalkAccepted, DialsExhausted, publishBounce
  <2>2. mail[w] \in Queued \ Malformed
    BY <2>1 DEF HeldQueued
  <2>3. UNCHANGED <<ready, unacked, acked>>
    BY <1>6, SendingKeepsDeliveries DEF sendEmail
  <2>4. CASE TalkAcceptedFailed(w) \/ TalkAccepted(w)
    <3>1. /\ UNCHANGED <<bounces, lostBounce, unreached>>
          /\ accepted'[mail[w]] > 0 /\ \A g \in Emails : g # mail[w] => accepted'[g] = accepted[g]
      BY <2>1, <2>4 DEF TalkAcceptedFailed, TalkAccepted, TypeOK, reports
    <3>2. \A g \in Emails : FateOf(g)' = IF g = mail[w] THEN FateOf(g) \cup {"accepted"} ELSE FateOf(g)
      BY <3>1 DEF FateOf
    <3>3. QED
      BY <2>2, <2>3, <3>2, Settles DEF Promise!Fates
  <2>5. CASE DialsExhausted(w)
    <3>1. UNCHANGED <<bounces, lostBounce, accepted>> /\ unreached' = unreached \cup {mail[w]}
      BY <2>5 DEF DialsExhausted
    <3>2. \A g \in Emails : FateOf(g)' = IF g = mail[w] THEN FateOf(g) \cup {"unreached"} ELSE FateOf(g)
      BY <3>1 DEF FateOf
    <3>3. QED
      BY <2>2, <2>3, <3>2, Settles DEF Promise!Fates
  <2>6. CASE publishBounce(w)
    <3>1. /\ UNCHANGED <<accepted, unreached>>
          /\ (bounces \cup lostBounce)' = bounces \cup lostBounce \cup {mail[w]}
      BY <2>6 DEF publishBounce
    <3>2. \A g \in Emails : FateOf(g)' = IF g = mail[w] THEN FateOf(g) \cup {"bounced"} ELSE FateOf(g)
      BY <3>1 DEF FateOf
    <3>3. QED
      BY <2>2, <2>3, <3>2, Settles DEF Promise!Fates
  <2>7. QED
    BY <1>6, <2>4, <2>5, <2>6
<1>7. QED
  BY <1>1, <1>2, <1>3, <1>4, <1>5, <1>6 DEF Next, Broker, Run, sendEmail

\* Workers, prefetching, stale acknowledgements, lost connections and restarts
\* together implement the at-least-once queue of MailQueue, for any number of
\* workers, emails, exchangers and faults (internal/sender/run.go, with the
\* subscription of cmd/sender/main.go).
THEOREM QueueRefined == Spec => ImplementsMailQueue
<1>1. Init => HeldQueued /\ OutcomeKnown /\ Promise!Init
  <2>1. SUFFICES ASSUME Init PROVE HeldQueued /\ OutcomeKnown /\ Promise!Init
    OBVIOUS
  <2>2. HeldQueued /\ OutcomeKnown
    BY <2>1 DEF Init, HeldQueued, OutcomeKnown
  <2>3. \A g \in Emails : FateOf(g) = {}
    BY <2>1 DEF Init, FateOf
  <2>4. QED
    BY <2>1, <2>2, <2>3 DEF Init, Promise!Init
<1>2. TypeOK /\ OneLiveDelivery /\ OutcomeKnown /\ HeldQueued /\ [Next]_vars
        => [Promise!Next]_(Promise!vars)
  BY RefineStep
<1>3. QED
  BY <1>1, <1>2, OutcomeStep, HeldStep, TypeCorrect, DeliveryCorrect, PTL
     DEF Spec, ImplementsMailQueue, Promise!Spec

-----------------------------------------------------------------------------
(* Every delivery of an email makes a destination accept it at most once,   *)
(* and there is one more delivery than the broker requeued it.  To count    *)
(* them, an email's chances to be accepted are added to its acceptances:    *)
(* the workers that may still have it accepted, its delivery in the inbox   *)
(* (of which there is never more than one) and its place in the queue.      *)

Sending(e) == {w \in Workers : mail[w] = e /\ pc[w] \in {"resolve", "dial", "talk"}}

Inboxed(e) == \E i \in DOMAIN inbox : inbox[i].email = e

Waiting(e) == (IF Inboxed(e) THEN 1 ELSE 0) + (IF e \in ready THEN 1 ELSE 0)

InboxUniform == Len(inbox) = 1 \/ \A i \in DOMAIN inbox : inbox[i].live

ChancesInv ==
  /\ \A e \in Emails : e \notin Queued => accepted[e] = 0
  /\ \A e \in Emails : IsFiniteSet(Sending(e))
  /\ \A e \in Emails : accepted[e] + Cardinality(Sending(e)) + Waiting(e) <= 1 + requeues[e]

\* A sequence of one element is its head, and its tail is empty.
LEMMA OneElement ==
  ASSUME NEW S, NEW s \in Seq(S), Len(s) = 1
  PROVE  s # <<>> /\ DOMAIN Tail(s) = {} /\ \A i \in DOMAIN s : s[i] = Head(s)
<1>1. DOMAIN s = 1..1 /\ s # <<>> /\ Head(s) = s[1]
  OBVIOUS
<1>2. DOMAIN Tail(s) = 1..0
  <2>1. Tail(s) \in Seq(S) /\ Len(Tail(s)) = Len(s) - 1
    BY <1>1
  <2>2. DOMAIN Tail(s) = 1..Len(Tail(s)) /\ Len(Tail(s)) = 0
    BY <2>1
  <2> QED
    BY <2>2
<1>3. (\A i \in 1..1 : i = 1) /\ 1..0 = {}
  OBVIOUS
<1>4. \A i \in DOMAIN s : s[i] = Head(s)
  BY <1>1, <1>3
<1> QED
  BY <1>1, <1>2, <1>3, <1>4

\* The inbox is the one delivery the library kept of a lost channel, or all its
\* deliveries are live: nothing is delivered while the library holds a stale one.
LEMMA InboxStep == TypeOK /\ InboxUniform /\ [Next]_vars => InboxUniform'
<1> SUFFICES ASSUME TypeOK, InboxUniform, [Next]_vars
             PROVE  InboxUniform'
  OBVIOUS
<1>1. ASSUME NEW e \in Emails, Deliver(e)
      PROVE  InboxUniform'
  <2> DEFINE d == [email |-> e, live |-> TRUE]
  <2>1. inbox' = Append(inbox, d) /\ d.live /\ (inbox # <<>> => Head(inbox).live)
    BY <1>1 DEF Deliver
  <2> HIDE DEF d
  <2>2. \A i \in DOMAIN inbox : inbox[i].live
    <3>1. Len(inbox) = 1 => \A i \in DOMAIN inbox : inbox[i] = Head(inbox) /\ inbox # <<>>
      BY OneElement DEF TypeOK
    <3>2. QED
      BY <2>1, <3>1 DEF InboxUniform
  <2>3. \A i \in DOMAIN inbox' : (i \in DOMAIN inbox /\ inbox'[i] = inbox[i]) \/ inbox'[i] = d
    BY <2>1 DEF TypeOK
  <2>4. QED
    BY <2>1, <2>2, <2>3 DEF InboxUniform
<1>2. CASE Reconnect
  <2>1. inbox' = <<>> \/ Len(inbox') = 1
    <3> DEFINE d == [Head(inbox) EXCEPT !.live = FALSE]
    <3>1. inbox' = <<>> \/ inbox' = <<d>>
      BY <1>2 DEF Reconnect
    <3> HIDE DEF d
    <3>2. QED
      BY <3>1
  <2>2. QED
    BY <2>1 DEF InboxUniform
<1>3. CASE Restart
  BY <1>3 DEF Restart, InboxUniform
<1>4. ASSUME NEW w \in Workers, TakeMalformed(w) \/ Take(w)
      PROVE  InboxUniform'
  <2>1. inbox # <<>> /\ inbox' = Tail(inbox)
    BY <1>4 DEF TakeMalformed, Take, Receive
  <2>2. CASE Len(inbox) = 1
    <3>1. DOMAIN inbox' = {}
      BY <2>1, <2>2, OneElement DEF TypeOK
    <3>2. QED
      BY <3>1 DEF InboxUniform
  <2>3. CASE \A i \in DOMAIN inbox : inbox[i].live
    BY <2>1, <2>3, TailOfInbox DEF InboxUniform
  <2>4. QED
    BY <2>2, <2>3 DEF InboxUniform
<1>5. ASSUME inbox' = inbox
      PROVE  InboxUniform'
  BY <1>5 DEF InboxUniform
<1>6. ASSUME NEW w \in Workers, Ack(w)
      PROVE  inbox' = inbox
  BY <1>6 DEF Ack
<1>7. ASSUME NEW e \in Emails, Queue(e)
      PROVE  inbox' = inbox
  BY <1>7 DEF Queue
<1>8. UNCHANGED vars => inbox' = inbox
  BY DEF vars
<1>9. QED
  BY <1>1, <1>2, <1>3, <1>4, <1>5, <1>6, <1>7, <1>8, SendingKeepsDeliveries
     DEF Next, Broker, Run

\* A taken delivery is no longer waiting, and it was the only one of its email.
LEMMA WaitingTail ==
  ASSUME TypeOK, OneLiveDelivery, InboxUniform, inbox # <<>>, inbox' = Tail(inbox),
         ready' = ready, NEW e \in Emails
  PROVE  Waiting(e)' = IF e = Head(inbox).email THEN Waiting(e) - 1 ELSE Waiting(e)
<1>1. /\ 1 \in DOMAIN inbox /\ Head(inbox) = inbox[1]
      /\ \A i \in DOMAIN inbox' : i + 1 \in DOMAIN inbox /\ inbox'[i] = inbox[i + 1] /\ i \in Nat
      /\ \A i \in DOMAIN inbox : i # 1 => i - 1 \in DOMAIN inbox' /\ inbox'[i - 1] = inbox[i]
  BY TailOfInbox
<1>2. CASE e # Head(inbox).email
  <2>1. ASSUME NEW i \in DOMAIN inbox, inbox[i].email = e
        PROVE  \E k \in DOMAIN inbox' : inbox'[k].email = e
    <3>1. i - 1 \in DOMAIN inbox' /\ inbox'[i - 1].email = e
      BY <1>1, <1>2, <2>1
    <3>2. QED
      BY <3>1
  <2>2. ASSUME NEW i \in DOMAIN inbox', inbox'[i].email = e
        PROVE  \E k \in DOMAIN inbox : inbox[k].email = e
    BY <1>1, <2>2
  <2>3. Inboxed(e)' <=> Inboxed(e)
    BY <2>1, <2>2 DEF Inboxed
  <2>4. QED
    BY <1>2, <2>3 DEF Waiting
<1>3. CASE e = Head(inbox).email
  <2>1. Inboxed(e)
    BY <1>1, <1>3 DEF Inboxed
  <2>2. ASSUME NEW i \in DOMAIN inbox', inbox'[i].email = e
        PROVE  FALSE
    <3>1. CASE Len(inbox) = 1
      <4>1. DOMAIN inbox' = {}
        BY <3>1, OneElement DEF TypeOK
      <4>2. QED
        BY <2>2, <4>1
    <3>2. CASE \A k \in DOMAIN inbox : inbox[k].live
      <4>1. Head(inbox).live /\ inbox'[i].live
        BY <1>1, <2>2, <3>2
      <4>2. QED
        BY <1>3, <2>2, <4>1, LiveInTail
    <3>3. QED
      BY <3>1, <3>2 DEF InboxUniform
  <2>3. ~Inboxed(e)'
    BY <2>2 DEF Inboxed
  <2>4. QED
    BY <1>3, <2>1, <2>3 DEF Waiting
<1>4. QED
  BY <1>2, <1>3

\* A delivery takes an email from the queue to the end of the inbox, where none
\* of its email is.
LEMMA WaitingDeliver ==
  ASSUME TypeOK, OneLiveDelivery, InboxUniform, NEW d \in Emails, Deliver(d), NEW e \in Emails
  PROVE  Waiting(e)' = Waiting(e)
<1> DEFINE m == [email |-> d, live |-> TRUE]
<1>1. inbox' = Append(inbox, m) /\ m.email = d /\ d \in ready /\ ready' = ready \ {d}
      /\ (inbox # <<>> => Head(inbox).live)
  BY DEF Deliver
<1> HIDE DEF m
<1>2. \A i \in DOMAIN inbox : inbox[i].live
  <2>1. Len(inbox) = 1 => \A i \in DOMAIN inbox : inbox[i] = Head(inbox) /\ inbox # <<>>
    BY OneElement DEF TypeOK
  <2>2. QED
    BY <1>1, <2>1 DEF InboxUniform
<1>3. ~Inboxed(d)
  BY <1>1, <1>2 DEF OneLiveDelivery, Inboxed
<1>4. /\ DOMAIN inbox' = DOMAIN inbox \cup {Len(inbox) + 1}
      /\ inbox'[Len(inbox) + 1] = m
      /\ \A i \in DOMAIN inbox : inbox'[i] = inbox[i]
  BY <1>1 DEF TypeOK
<1>5. Inboxed(e)' <=> Inboxed(e) \/ e = d
  BY <1>1, <1>4 DEF Inboxed
<1>6. QED
  BY <1>1, <1>3, <1>5 DEF Waiting

\* When the broker takes back what is not acknowledged, an email waits once
\* more at most, and then it counts as requeued once more.
LEMMA WaitingRequeue ==
  ASSUME TypeOK, Reconnect \/ Restart, NEW e \in Emails
  PROVE  Waiting(e)' <= Waiting(e) + (requeues'[e] - requeues[e])
<1>1. /\ ready' = ready \cup unacked
      /\ requeues'[e] = IF e \in unacked THEN requeues[e] + 1 ELSE requeues[e]
  BY DEF Reconnect, Restart, Requeue
<1>2. requeues[e] \in Nat
  BY DEF TypeOK
<1>3. Inboxed(e)' => Inboxed(e)
  <2>1. CASE inbox' = <<>>
    BY <2>1 DEF Inboxed
  <2>2. CASE inbox # <<>> /\ inbox' = <<[Head(inbox) EXCEPT !.live = FALSE]>>
    <3>1. Head(inbox) \in Delivery /\ 1 \in DOMAIN inbox /\ Head(inbox) = inbox[1]
      BY <2>2, HeadTail DEF TypeOK
    <3> DEFINE d == [Head(inbox) EXCEPT !.live = FALSE]
    <3>2. d.email = inbox[1].email
      BY <3>1 DEF Delivery
    <3>3. inbox' = <<d>>
      BY <2>2
    <3> HIDE DEF d
    <3>4. QED
      BY <3>1, <3>2, <3>3 DEF Inboxed
  <2>3. QED
    BY <2>1, <2>2 DEF Reconnect, Restart
<1>4. QED
  BY <1>1, <1>2, <1>3 DEF Waiting

\* A worker past the dialogue, or without an email, is not sending.
LEMMA SendingShrinks ==
  ASSUME TypeOK, NEW w \in Workers, Run(w), ~Take(w), NEW e \in Emails
  PROVE  Sending(e)' \in {Sending(e), Sending(e) \ {w}}
<1>1. \A v \in Workers : v # w => pc'[v] = pc[v] /\ mail'[v] = mail[v]
  BY OthersStand
<1>2. w \in Sending(e)' => w \in Sending(e)
  <2>1. CASE TakeMalformed(w)
    BY <2>1 DEF TakeMalformed, workers, Sending
  <2>2. CASE Resolve(w) \/ DialFailed(w) \/ DialOK(w)
    BY <2>2 DEF Resolve, DialFailed, DialOK, Sending
  <2>3. CASE ResolveFailed(w) \/ DialsExhausted(w) \/ TalkFailed(w) \/ TalkAcceptedFailed(w)
             \/ TalkAccepted(w) \/ publishBounce(w) \/ publishLogEntry(w) \/ Ack(w) \/ Tick(w)
    <3>1. pc'[w] \in {"bounce", "log", "ack", "pace", "idle"}
      BY <2>3 DEF ResolveFailed, DialsExhausted, TalkFailed, TalkAcceptedFailed, TalkAccepted,
                  publishBounce, publishLogEntry, Ack, Tick, SendFailed, Goto, TypeOK
    <3>2. QED
      BY <3>1 DEF Sending
  <2>4. QED
    BY <2>1, <2>2, <2>3 DEF Run, sendEmail
<1>3. QED
  BY <1>1, <1>2 DEF Sending

\* What was never queued waits nowhere and is in nobody's hands.
LEMMA NotQueued ==
  ASSUME TypeOK, HeldQueued, NEW e \in Emails, e \notin Queued
  PROVE  Sending(e) = {} /\ Waiting(e) = 0
BY SenderAssumption DEF HeldQueued, Sending, Waiting, Inboxed, Queued, TypeOK

\* Each step keeps ChancesInv: a chance is made by queueing and by a requeue,
\* and an acceptance uses one up.
LEMMA ChancesStep ==
  ASSUME TypeOK, OneLiveDelivery, HeldQueued, InboxUniform, ChancesInv, [Next]_vars
  PROVE  ChancesInv'
<1> DEFINE Chances(e) == accepted[e] + Cardinality(Sending(e)) + Waiting(e)
<1>0. \A e \in Emails : /\ accepted[e] \in Nat /\ requeues[e] \in Nat
                        /\ Waiting(e) \in Nat /\ Cardinality(Sending(e)) \in Nat
                        /\ IsFiniteSet(Sending(e)) /\ Chances(e) <= 1 + requeues[e]
  BY FS_CardinalityType DEF TypeOK, Waiting, Inboxed, ChancesInv
<1> HIDE DEF Chances
\* It is enough that no chances but those of queueing and requeueing appear.
<1>1. ASSUME \A e \in Emails : accepted'[e] # accepted[e] => e \in Queued,
             \A e \in Emails : IsFiniteSet(Sending(e))',
             \A e \in Emails : Chances(e)' <= 1 + requeues'[e]
      PROVE  ChancesInv'
  <2>1. Queued \subseteq Queued'
    BY QueuedGrows
  <2>2. \A e \in Emails : e \notin Queued' => accepted'[e] = 0
    BY <1>1, <2>1 DEF ChancesInv
  <2>3. QED
    BY <1>1, <2>2 DEF ChancesInv, Chances
<1>2. ASSUME NEW d \in Emails, Queue(d)
      PROVE  ChancesInv'
  <2>1. /\ UNCHANGED <<inbox, pc, mail, accepted, requeues>> /\ ready' = ready \cup {d}
        /\ d \notin Queued
    BY <1>2 DEF Queue, Queued, workers
  <2>2. \A e \in Emails : Sending(e)' = Sending(e)
    BY <2>1 DEF Sending
  <2>3. \A e \in Emails : e # d => Waiting(e)' = Waiting(e)
    BY <2>1 DEF Waiting, Inboxed
  <2>4. accepted[d] = 0 /\ Cardinality(Sending(d)) = 0 /\ Waiting(d) = 0
    BY <2>1, NotQueued, FS_EmptySet DEF ChancesInv
  <2>5. Waiting(d)' = 1
    BY <2>1, <2>4 DEF Waiting, Inboxed, Queued
  <2>6. \A e \in Emails : Chances(e)' <= 1 + requeues'[e]
    BY <1>0, <2>1, <2>2, <2>3, <2>4, <2>5 DEF Chances
  <2>7. QED
    BY <1>0, <1>1, <2>1, <2>2, <2>6
<1>3. ASSUME NEW d \in Emails, Deliver(d)
      PROVE  ChancesInv'
  <2>1. UNCHANGED <<pc, mail, accepted, requeues>>
    BY <1>3 DEF Deliver, workers
  <2>2. \A e \in Emails : Sending(e)' = Sending(e) /\ Waiting(e)' = Waiting(e)
    BY <1>3, <2>1, WaitingDeliver DEF Sending
  <2>3. \A e \in Emails : Chances(e)' <= 1 + requeues'[e]
    BY <1>0, <2>1, <2>2 DEF Chances
  <2>4. QED
    BY <1>0, <1>1, <2>1, <2>2, <2>3
<1>4. CASE Reconnect \/ Restart
  <2>1. UNCHANGED accepted
    BY <1>4 DEF Reconnect, Restart
  <2>2. \A e \in Emails : Sending(e)' \in {Sending(e), {}}
    BY <1>4 DEF Reconnect, Restart, Sending
  <2>3. ASSUME NEW e \in Emails
        PROVE  /\ IsFiniteSet(Sending(e))' /\ Cardinality(Sending(e))' \in Nat
               /\ Cardinality(Sending(e))' <= Cardinality(Sending(e))
    <3>1. Sending(e)' = Sending(e) \/ Sending(e)' = {}
      BY <2>2
    <3>2. IsFiniteSet(Sending(e)) /\ Cardinality(Sending(e)) \in Nat
      BY <1>0
    <3>3. QED
      BY <3>1, <3>2, FS_EmptySet
  <2>4. TypeOK'
    BY TypeStep
  <2>5. \A e \in Emails : requeues'[e] \in Nat /\ Waiting(e)' \in Nat
    BY <2>4 DEF TypeOK, Waiting, Inboxed
  <2>6. \A e \in Emails : Chances(e)' <= 1 + requeues'[e]
    <3>1. SUFFICES ASSUME NEW e \in Emails PROVE Chances(e)' <= 1 + requeues'[e]
      OBVIOUS
    <3>2. Waiting(e)' <= Waiting(e) + (requeues'[e] - requeues[e])
      BY <1>4, WaitingRequeue
    <3>3. QED
      BY <1>0, <2>1, <2>3, <2>5, <3>2 DEF Chances
  <2>7. QED
    BY <1>1, <2>1, <2>3, <2>6
<1>5. ASSUME NEW w \in Workers, Take(w)
      PROVE  ChancesInv'
  <2> DEFINE h == Head(inbox).email
  <2>1. /\ inbox # <<>> /\ inbox' = Tail(inbox) /\ UNCHANGED <<ready, accepted, requeues>>
        /\ mail' = [mail EXCEPT ![w] = h] /\ pc' = [pc EXCEPT ![w] = "resolve"]
        /\ pc[w] = "idle"
    BY <1>5 DEF Take, Receive, Goto, queue
  <2>2. \A e \in Emails : Waiting(e)' = IF e = h THEN Waiting(e) - 1 ELSE Waiting(e)
    BY <2>1, WaitingTail
  <2> HIDE DEF h
  <2>3. \A e \in Emails : w \notin Sending(e)
    BY <2>1 DEF Sending
  <2>4. \A e \in Emails : Sending(e)' = IF e = h THEN Sending(e) \cup {w} ELSE Sending(e)
    BY <2>1, <2>3 DEF Sending, TypeOK
  <2>5. ASSUME NEW e \in Emails
        PROVE  /\ IsFiniteSet(Sending(e))'
               /\ Cardinality(Sending(e))' = IF e = h THEN Cardinality(Sending(e)) + 1
                                                      ELSE Cardinality(Sending(e))
    BY <1>0, <2>3, <2>4, FS_AddElement
  <2>6. \A e \in Emails : Chances(e)' <= 1 + requeues'[e]
    BY <1>0, <2>1, <2>2, <2>5 DEF Chances
  <2>7. QED
    BY <1>1, <2>1, <2>5, <2>6
<1>6. ASSUME NEW w \in Workers, Run(w), ~Take(w)
      PROVE  ChancesInv'
  <2>1. \A e \in Emails : Sending(e)' \in {Sending(e), Sending(e) \ {w}}
    BY <1>6, SendingShrinks
  <2>2. ASSUME NEW e \in Emails
        PROVE  /\ IsFiniteSet(Sending(e))' /\ Cardinality(Sending(e))' \in Nat
               /\ Cardinality(Sending(e))' <= Cardinality(Sending(e))
               /\ w \in Sending(e) /\ w \notin Sending(e)'
                    => Cardinality(Sending(e))' = Cardinality(Sending(e)) - 1
    <3>1. Sending(e)' = Sending(e) \/ Sending(e)' = Sending(e) \ {w}
      BY <2>1
    <3>2. IsFiniteSet(Sending(e)) /\ Cardinality(Sending(e)) \in Nat
      BY <1>0
    <3>3. /\ IsFiniteSet(Sending(e) \ {w}) /\ Cardinality(Sending(e) \ {w}) \in Nat
          /\ Cardinality(Sending(e) \ {w}) =
               IF w \in Sending(e) THEN Cardinality(Sending(e)) - 1 ELSE Cardinality(Sending(e))
      BY <3>2, FS_RemoveElement, FS_CardinalityType
    <3>4. QED
      BY <3>1, <3>2, <3>3
  <2>3. \A e \in Emails : Waiting(e)' <= Waiting(e) /\ Waiting(e)' \in Nat
    <3>1. CASE TakeMalformed(w)
      <4>1. inbox # <<>> /\ inbox' = Tail(inbox) /\ UNCHANGED ready
        BY <3>1 DEF TakeMalformed, Receive
      <4>2. \A e \in Emails : Waiting(e)' \in Nat
        BY DEF Waiting, Inboxed
      <4>3. QED
        BY <1>0, <4>1, <4>2, WaitingTail
    <3>2. CASE ~TakeMalformed(w)
      <4>1. UNCHANGED <<inbox, ready>>
        BY <1>6, <3>2, SendingKeepsDeliveries DEF Run, Ack
      <4>2. \A e \in Emails : Waiting(e)' = Waiting(e)
        BY <4>1 DEF Waiting, Inboxed
      <4>3. QED
        BY <1>0, <4>2
    <3>3. QED
      BY <3>1, <3>2
  <2>4. requeues' = requeues
    BY <1>6 DEF Run, sendEmail, TakeMalformed, ResolveFailed, Resolve, DialFailed,
       DialOK, DialsExhausted, TalkFailed, TalkAcceptedFailed, TalkAccepted,
       publishBounce, publishLogEntry, Ack, Tick
  <2>5. CASE TalkAcceptedFailed(w) \/ TalkAccepted(w)
    <3>1. PICK m \in Emails : m = mail[w] /\ m \in Queued
      BY <2>5, MailOfBusy, SenderAssumption DEF TalkAcceptedFailed, TalkAccepted, HeldQueued
    <3>2. accepted' = [accepted EXCEPT ![m] = @ + 1] /\ pc[w] = "talk" /\ pc'[w] \in {"log", "bounce"}
      BY <2>5, <3>1 DEF TalkAcceptedFailed, TalkAccepted, SendFailed, Goto, TypeOK
    <3>3. \A e \in Emails : accepted'[e] = IF e = m THEN accepted[e] + 1 ELSE accepted[e]
      BY <3>1, <3>2 DEF TypeOK
    <3>4. w \in Sending(m) /\ w \notin Sending(m)'
      BY <3>1, <3>2 DEF Sending
    <3>5. Cardinality(Sending(m))' = Cardinality(Sending(m)) - 1
      BY <3>4, <2>2
    <3>6. \A e \in Emails : Chances(e)' <= 1 + requeues'[e]
      BY <1>0, <2>2, <2>3, <2>4, <3>1, <3>3, <3>5 DEF Chances
    <3>7. QED
      BY <1>1, <2>2, <3>1, <3>3, <3>6
  <2>6. CASE ~(TalkAcceptedFailed(w) \/ TalkAccepted(w))
    <3>1. accepted' = accepted
      BY <1>6, <2>6 DEF Run, sendEmail, TakeMalformed, ResolveFailed, Resolve, DialFailed,
         DialOK, DialsExhausted, TalkFailed, publishBounce, publishLogEntry, Ack, Tick
    <3>2. \A e \in Emails : Chances(e)' <= 1 + requeues'[e]
      BY <1>0, <2>2, <2>3, <2>4, <3>1 DEF Chances
    <3>3. QED
      BY <1>1, <2>2, <3>1, <3>2
  <2>7. QED
    BY <2>5, <2>6
<1>7. CASE UNCHANGED vars
  BY <1>7 DEF vars, queue, workers, ChancesInv, Queued, Sending, Waiting, Inboxed
<1>8. QED
  BY <1>2, <1>3, <1>4, <1>5, <1>6, <1>7 DEF Next, Broker

\* A destination is given an email more often than once only after the broker
\* requeued it, once for each time, for any number of workers and faults:
\* no interleaving of workers, stale deliveries and restarts sends it twice
\* by itself (Run, internal/sender/run.go; sendEmail, send.go).
THEOREM DuplicatesCorrect == Spec => []DuplicateOnlyByRequeue
<1>1. Init => HeldQueued /\ InboxUniform /\ ChancesInv
  <2>1. SUFFICES ASSUME Init PROVE HeldQueued /\ InboxUniform /\ ChancesInv
    OBVIOUS
  <2>2. HeldQueued /\ InboxUniform
    BY <2>1 DEF Init, HeldQueued, InboxUniform
  <2>3. \A e \in Emails : Sending(e) = {} /\ Waiting(e) = 0
    BY <2>1, SenderAssumption DEF Init, Sending, Waiting, Inboxed
  <2>4. \A e \in Emails : IsFiniteSet(Sending(e)) /\ Cardinality(Sending(e)) = 0
    BY <2>3, FS_EmptySet
  <2>5. QED
    BY <2>1, <2>2, <2>3, <2>4 DEF Init, ChancesInv
<1>2. TypeOK /\ ChancesInv => DuplicateOnlyByRequeue
  <2>1. SUFFICES ASSUME TypeOK, ChancesInv, NEW e \in Emails PROVE accepted[e] <= 1 + requeues[e]
    BY DEF DuplicateOnlyByRequeue
  <2>2. /\ accepted[e] \in Nat /\ requeues[e] \in Nat /\ Waiting(e) \in Nat
        /\ Cardinality(Sending(e)) \in Nat
    BY <2>1, FS_CardinalityType DEF TypeOK, Waiting, Inboxed, ChancesInv
  <2>3. accepted[e] + Cardinality(Sending(e)) + Waiting(e) <= 1 + requeues[e]
    BY <2>1 DEF ChancesInv
  <2>4. QED
    BY <2>2, <2>3
<1>3. TypeOK /\ OneLiveDelivery /\ HeldQueued /\ InboxUniform /\ ChancesInv /\ [Next]_vars => ChancesInv'
  BY ChancesStep
<1>4. QED
  BY <1>1, <1>2, <1>3, HeldStep, InboxStep, TypeCorrect, DeliveryCorrect, PTL DEF Spec
=============================================================================
