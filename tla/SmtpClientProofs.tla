-------------------------- MODULE SmtpClientProofs --------------------------
(***************************************************************************)
(* Proofs about SmtpClient, for any set of extensions: types, and that the  *)
(* dialogue with an exchanger implements SendAttempt.                       *)
(***************************************************************************)
EXTENDS SmtpClient, TLAPS

Peer == [spoke : BOOLEAN, greeted : BOOLEAN, tls : BOOLEAN,
         offers : SUBSET Extensions, stage : {"idle", "mail", "rcpt", "data"}]

-----------------------------------------------------------------------------
(* Types.                                                                  *)

\* The exchanger's state keeps its type, and the banner stays given.
LEMMA BannerType ==
  ASSUME NEW p \in Peer
  PROVE  [p EXCEPT !.spoke = TRUE] \in Peer /\ [p EXCEPT !.spoke = TRUE].spoke
BY DEF Peer

\* An obeyed command keeps the exchanger's type and its banner.
LEMMA ObeyedType ==
  ASSUME peer \in Peer, NEW c, NEW o \in SUBSET Extensions
  PROVE  Obeyed(c, o) \in Peer /\ Obeyed(c, o).spoke = peer.spoke
<1>1. /\ [peer EXCEPT !.greeted = TRUE, !.offers = o, !.stage = "idle"] \in Peer
      /\ [peer EXCEPT !.greeted = TRUE, !.offers = o, !.stage = "idle"].spoke = peer.spoke
  BY DEF Peer
<1>2. /\ [peer EXCEPT !.greeted = TRUE, !.offers = {}, !.stage = "idle"] \in Peer
      /\ [peer EXCEPT !.greeted = TRUE, !.offers = {}, !.stage = "idle"].spoke = peer.spoke
  BY DEF Peer
<1>3. /\ [peer EXCEPT !.greeted = FALSE, !.offers = {}, !.tls = TRUE] \in Peer
      /\ [peer EXCEPT !.greeted = FALSE, !.offers = {}, !.tls = TRUE].spoke = peer.spoke
  BY DEF Peer
<1>4. ASSUME NEW s \in {"idle", "mail", "rcpt", "data"}
      PROVE  [peer EXCEPT !.stage = s] \in Peer /\ [peer EXCEPT !.stage = s].spoke = peer.spoke
  BY DEF Peer
<1>5. QED
  BY <1>1, <1>2, <1>3, <1>4 DEF Obeyed

\* How a step of sendEmail's changes what it shares with the connection.
LEMMA SendType ==
  ASSUME TypeOK, NEW call, NEW verb \in Verbs, NEW mime \in BOOLEAN, Send(call, verb, mime)
  PROVE  TypeOK'
BY DEF TypeOK, Send, client, Command

\* Every call of sendEmail keeps the types.
LEMMA SendEmailType ==
  ASSUME TypeOK, sendEmail
  PROVE  TypeOK'
<1>1. ASSUME NEW call, NEW verb \in Verbs, NEW mime \in BOOLEAN, Send(call, verb, mime)
      PROVE  TypeOK'
  BY <1>1, SendType
<1>2. ASSUME NEW call, Ok(call) \/ Err(call), Then("Hello") \/ Then("helo") \/ Then("Rcpt")
                                              \/ Then("Data") \/ Then("Close") \/ Then("Quit"),
             pc # "returned"
      PROVE  TypeOK'
  BY <1>2 DEF TypeOK, Ok, Err, Then, Calls
<1>3. ASSUME NEW call \in Calls \ {"returned"}, Err(call), ReturnErr
      PROVE  TypeOK'
  BY <1>3 DEF TypeOK, Err, ReturnErr, Calls
<1>4. CASE NewClient
  BY <1>2, <1>4 DEF NewClient, TypeOK, Err, Ok, Calls
<1>5. CASE Hello \/ helo
  <2>1. CASE Send("Hello", "EHLO", FALSE) \/ Send("helo", "HELO", FALSE)
    BY <2>1, <1>1 DEF Verbs
  <2>2. CASE Err("Hello") /\ Then("helo")
    BY <2>2, <1>2 DEF Err
  <2>3. CASE Err("helo") /\ ReturnErr
    BY <2>3, <1>3 DEF Calls
  <2>4. CASE /\ \/ Ok("Hello") /\ ext' = peer.offers
                \/ Ok("helo") /\ ext' = {}
             /\ Extension(ext')
             /\ UNCHANGED <<outcome, tls, open>>
    <3>1. ext' \subseteq Extensions
      BY <2>4 DEF TypeOK
    <3>2. QED
      BY <2>4, <3>1 DEF TypeOK, Ok, Extension, Calls
  <2>5. QED
    BY <1>5, <2>1, <2>2, <2>3, <2>4 DEF Hello, helo
<1>6. CASE StartTLS
  <2>1. CASE Send("StartTLS", "STARTTLS", FALSE)
    BY <2>1, <1>1 DEF Verbs
  <2>2. CASE Err("StartTLS") /\ ReturnErr
    BY <2>2, <1>3 DEF Calls
  <2>3. CASE Ok("StartTLS") /\ pc' = "ehlo" /\ tls' \in BOOLEAN /\ UNCHANGED <<outcome, ext, open>>
    BY <2>3 DEF TypeOK, Ok, Calls
  <2>4. QED
    BY <1>6, <2>1, <2>2, <2>3 DEF StartTLS
<1>6a. CASE ehlo
  <2>1. CASE Send("ehlo", "EHLO", FALSE)
    BY <2>1, <1>1 DEF Verbs
  <2>2. CASE Err("ehlo") /\ ReturnErr
    BY <2>2, <1>3 DEF Calls
  <2>3. CASE Ok("ehlo") /\ ext' = peer.offers /\ pc' = "Mail" /\ UNCHANGED <<outcome, tls, open>>
    <3>1. ext' \subseteq Extensions
      BY <2>3 DEF TypeOK
    <3>2. QED
      BY <2>3, <3>1 DEF TypeOK, Ok, Calls
  <2>4. QED
    BY <1>6a, <2>1, <2>2, <2>3 DEF ehlo
<1>7. CASE HandshakeFails \/ validateLine
  BY <1>7 DEF TypeOK, HandshakeFails, validateLine, ReturnErr, Calls
<1>8. CASE Mail \/ Rcpt \/ Data \/ Close
  <2>1. CASE Send("Rcpt", "RCPT", FALSE) \/ Send("Data", "DATA", FALSE)
             \/ Send("Close", "message", FALSE)
    BY <2>1, <1>1 DEF Verbs
  <2>1a. CASE Send("Mail", "MAIL", "8BITMIME" \in ext)
    <3> DEFINE m == "8BITMIME" \in ext
    <3>1. m \in BOOLEAN /\ "MAIL" \in Verbs
      BY DEF Verbs
    <3>2. Send("Mail", "MAIL", m)
      BY <2>1a
    <3> HIDE DEF m
    <3>3. QED
      BY <3>1, <3>2, SendType
  <2>2. CASE \/ Ok("Mail") /\ Then("Rcpt")
             \/ Ok("Rcpt") /\ Then("Data")
             \/ Ok("Data") /\ Then("Close")
             \/ Ok("Close") /\ Then("Quit")
    BY <2>2, <1>2 DEF Ok
  <2>3. CASE (Err("Mail") \/ Err("Rcpt") \/ Err("Data") \/ Err("Close")) /\ ReturnErr
    BY <2>3, <1>3 DEF Calls
  <2>4. QED
    BY <1>8, <2>1, <2>1a, <2>2, <2>3 DEF Mail, Rcpt, Data, Close
<1>9. CASE Quit
  <2>1. CASE Send("Quit", "QUIT", FALSE)
    BY <2>1, <1>1 DEF Verbs
  <2>2. CASE Err("Quit") /\ ReturnErr
    BY <2>2, <1>3 DEF Calls
  <2>3. CASE /\ Ok("Quit") /\ pc' = "returned" /\ outcome' \in {"sent", "failed"} /\ open' = FALSE
             /\ UNCHANGED <<ext, tls>>
    BY <2>3 DEF TypeOK, Ok, Calls
  <2>4. QED
    BY <1>9, <2>1, <2>2, <2>3 DEF Quit
<1>10. QED
  BY <1>4, <1>5, <1>6, <1>6a, <1>7, <1>8, <1>9 DEF sendEmail

\* So do the connection and the exchanger.
LEMMA ConnectionType ==
  ASSUME TypeOK, Deadline \/ ConnLost \/ Banner \/ Obey \/ Refuse
  PROVE  TypeOK' /\ (peer.spoke => peer'.spoke)
<1> USE DEF TypeOK
<1>1. CASE Deadline \/ ConnLost \/ Refuse
  BY <1>1 DEF Deadline, ConnLost, Refuse, Answer, client
<1>2. CASE Banner
  <2>1. peer' \in Peer /\ peer'.spoke
    BY <1>2, BannerType DEF Banner, Peer
  <2>2. reply' \in {"ok", "refused", Nil}
    BY <1>2 DEF Banner, Answer
  <2>3. QED
    BY <1>2, <2>1, <2>2 DEF Banner, client, Peer
<1>3. CASE Obey
  <2>1. peer' \in Peer /\ peer'.spoke = peer.spoke
    BY <1>3, ObeyedType DEF Obey, Offers, Peer
  <2>2. reply' \in {"ok", "refused", Nil} /\ taken' \in Nat
    BY <1>3 DEF Obey, Answer
  <2>3. QED
    BY <1>3, <2>1, <2>2 DEF Obey, client, Peer
<1>4. QED
  BY <1>1, <1>2, <1>3

\* Every variable keeps its type, and an attempt has an outcome exactly when
\* sendEmail has returned (send.go, client.go).
THEOREM TypeCorrect == Spec => []TypeOK
<1>1. Init => TypeOK
  <2>1. Init => peer \in Peer
    BY DEF Init, Peer
  <2>2. Init => ext \subseteq Extensions /\ taken \in Nat
    BY DEF Init
  <2>3. QED
    BY <2>1, <2>2 DEF Init, TypeOK, Calls, Peer
<1>2. TypeOK /\ [Next]_vars => TypeOK'
  <2>1. SUFFICES ASSUME TypeOK, [Next]_vars PROVE TypeOK'
    OBVIOUS
  <2>2. CASE UNCHANGED vars
    BY <2>1, <2>2 DEF TypeOK, vars, client
  <2>3. QED
    BY <2>1, <2>2, ConnectionType, SendEmailType DEF Next
<1>3. QED
  BY <1>1, <1>2, PTL DEF Spec

-----------------------------------------------------------------------------
(* Refinement.                                                             *)

\* At most one of a command and its reply is under way, and none before the
\* banner.
DialogueInv ==
  /\ command # Nil => reply = Nil
  /\ command # Nil \/ reply # Nil => peer.spoke
  /\ pc \notin {"NewClient", "returned"} => peer.spoke

\* Where the message is: asked for only by Close, taken over once, and known to
\* be taken over from Quit on.
MessageInv ==
  /\ taken \in {0, 1}
  /\ command # Nil /\ command.verb = "message" =>
       taken = 0 /\ (pc = "Close" \/ (pc = "returned" /\ outcome = "failed"))
  /\ pc = "Close" /\ command # Nil => command.verb = "message"
  /\ pc = "Close" /\ taken = 1 => command = Nil /\ (reply = "ok" \/ ~usable)
  /\ pc = "Close" /\ reply = "ok" => taken = 1
  /\ pc = "Quit" \/ outcome = "sent" => taken = 1
  /\ taken = 1 => pc \in {"Close", "Quit", "returned"}

\* A step of sendEmail sends a command, the message only in Close, or ends a
\* call: with success, which takes it to the next one, or with an error, which
\* ends the attempt unless it is EHLO's.
Ends ==
  \/ /\ reply = "ok"
     /\ UNCHANGED outcome
     /\ \/ pc = "Data" /\ pc' = "Close"
        \/ pc = "Close" /\ pc' = "Quit"
        \/ /\ pc \in {"NewClient", "Hello", "helo", "StartTLS", "ehlo", "Mail", "Rcpt"}
           /\ pc' \in {"Hello", "StartTLS", "ehlo", "Mail", "Rcpt", "Data"}
  \/ reply = "ok" /\ pc = "Quit" /\ pc' = "returned" /\ outcome' = "sent"
  \/ pc = "Hello" /\ pc' = "helo" /\ UNCHANGED outcome
  \/ pc # "returned" /\ pc' = "returned" /\ outcome' = "failed"

Finishes == UNCHANGED <<command, usable, peer, taken>> /\ reply' = Nil /\ Ends

Sends ==
  /\ pc \notin {"NewClient", "returned"}
  /\ usable /\ command = Nil /\ reply = Nil
  /\ command'.verb = "message" <=> pc = "Close"
  /\ UNCHANGED <<pc, outcome, reply, usable, peer, taken>>

\* Every step of sendEmail is one of these two.
LEMMA SendEmailSteps ==
  ASSUME sendEmail
  PROVE  Sends \/ Finishes
<1> USE DEF Finishes
<1>2. ASSUME NEW call \in Calls \ {"returned"}, Err(call), ReturnErr
      PROVE  Finishes
  BY <1>2 DEF Err, ReturnErr, Ends
<1>3. CASE NewClient
  BY <1>3 DEF NewClient, Ok, Err, Then, Ends
<1>4. CASE Hello \/ helo
  <2>1. CASE Send("Hello", "EHLO", FALSE) \/ Send("helo", "HELO", FALSE)
    BY <2>1 DEF Sends, Send, client
  <2>2. CASE Err("Hello") /\ Then("helo")
    BY <2>2 DEF Err, Then, Ends
  <2>3. CASE Err("helo") /\ ReturnErr
    BY <2>3, <1>2 DEF Calls
  <2>4. CASE (Ok("Hello") \/ Ok("helo")) /\ Extension(ext') /\ UNCHANGED <<outcome, tls, open>>
    BY <2>4 DEF Ok, Extension, Ends
  <2>5. QED
    BY <1>4, <2>1, <2>2, <2>3, <2>4 DEF Hello, helo
<1>5. CASE StartTLS \/ ehlo
  <2>1. CASE Send("StartTLS", "STARTTLS", FALSE) \/ Send("ehlo", "EHLO", FALSE)
    BY <2>1 DEF Sends, Send, client
  <2>2. CASE (Err("StartTLS") \/ Err("ehlo")) /\ ReturnErr
    BY <2>2, <1>2 DEF Calls
  <2>3. CASE /\ \/ Ok("StartTLS") /\ pc' = "ehlo"
                \/ Ok("ehlo") /\ pc' = "Mail"
             /\ UNCHANGED <<outcome, open>>
    BY <2>3 DEF Ok, Ends
  <2>4. QED
    BY <1>5, <2>1, <2>2, <2>3 DEF StartTLS, ehlo
<1>6. CASE HandshakeFails \/ validateLine
  BY <1>6 DEF HandshakeFails, validateLine, ReturnErr, Ends
<1>7. CASE Mail \/ Rcpt \/ Data \/ Close
  <2>1. CASE Send("Mail", "MAIL", "8BITMIME" \in ext) \/ Send("Rcpt", "RCPT", FALSE)
             \/ Send("Data", "DATA", FALSE) \/ Send("Close", "message", FALSE)
    BY <2>1 DEF Sends, Send, client
  <2>2. CASE \/ Ok("Mail") /\ Then("Rcpt")
             \/ Ok("Rcpt") /\ Then("Data")
             \/ Ok("Data") /\ Then("Close")
             \/ Ok("Close") /\ Then("Quit")
    BY <2>2 DEF Ok, Then, Ends
  <2>3. CASE (Err("Mail") \/ Err("Rcpt") \/ Err("Data") \/ Err("Close")) /\ ReturnErr
    BY <2>3, <1>2 DEF Calls
  <2>4. QED
    BY <1>7, <2>1, <2>2, <2>3 DEF Mail, Rcpt, Data, Close
<1>8. CASE Quit
  <2>1. CASE Send("Quit", "QUIT", FALSE)
    BY <2>1 DEF Sends, Send, client
  <2>2. CASE Err("Quit") /\ ReturnErr
    BY <2>2, <1>2 DEF Calls
  <2>3. CASE Ok("Quit") /\ pc' = "returned" /\ outcome' \in {"sent", "failed"}
    BY <2>3 DEF Ok, Ends
  <2>4. QED
    BY <1>8, <2>1, <2>2, <2>3 DEF Quit
<1>9. QED
  BY <1>3, <1>4, <1>5, <1>6, <1>7, <1>8 DEF sendEmail

\* Commands and replies alternate.
LEMMA DialogueStep ==
  ASSUME TypeOK, DialogueInv, [Next]_vars
  PROVE  DialogueInv'
<1> USE DEF DialogueInv
<1>1. CASE Deadline \/ ConnLost \/ Banner \/ Obey \/ Refuse
  <2>1. peer.spoke => peer'.spoke
    BY <1>1, ConnectionType
  <2>2. CASE Banner
    BY <2>2, BannerType DEF Banner, client, TypeOK, Peer
  <2>3. CASE Deadline \/ ConnLost \/ Obey \/ Refuse
    BY <2>1, <2>3 DEF Deadline, ConnLost, Obey, Refuse, client
  <2>4. QED
    BY <1>1, <2>2, <2>3
<1>2. CASE sendEmail
  <2>1. CASE Sends
    BY <2>1 DEF Sends
  <2>2. CASE Finishes
    BY <2>2, ClientAssumption DEF Finishes, Ends
  <2>3. QED
    BY <1>2, <2>1, <2>2, SendEmailSteps
<1>3. CASE UNCHANGED vars
  BY <1>3 DEF vars, client
<1>4. QED
  BY <1>1, <1>2, <1>3 DEF Next

\* Every step keeps MessageInv, and is a step of SendAttempt or leaves its
\* variables alone.
LEMMA MessageStep ==
  ASSUME TypeOK, DialogueInv, MessageInv, [Next]_vars
  PROVE  MessageInv' /\ [Promise!Next]_(Promise!vars)
<1> USE ClientAssumption DEF MessageInv
<1>1. CASE Deadline \/ ConnLost \/ Banner \/ Refuse
  <2>1. UNCHANGED <<pc, outcome, taken>> /\ (command' = command \/ command' = Nil)
    BY <1>1 DEF Deadline, ConnLost, Banner, Refuse, client
  <2>2. CASE Deadline \/ ConnLost
    BY <2>1, <2>2 DEF Deadline, ConnLost, Promise!vars, TypeOK
  <2>3. CASE Banner
    BY <2>1, <2>3 DEF Banner, DialogueInv, Promise!vars, TypeOK
  <2>4. CASE Refuse
    BY <2>1, <2>4 DEF Refuse, Answer, Promise!vars, TypeOK
  <2>5. QED
    BY <1>1, <2>2, <2>3, <2>4
<1>2. CASE Obey
  <2>1. UNCHANGED <<pc, outcome, usable>> /\ command # Nil /\ command' = Nil
        /\ reply' = (IF usable THEN "ok" ELSE Nil)
        /\ taken' = (IF command.verb = "message" THEN taken + 1 ELSE taken)
    BY <1>2 DEF Obey, client, Answer
  <2>2. CASE command.verb = "message"
    BY <2>1, <2>2 DEF TypeOK, Promise!Next, Promise!TakeOver
  <2>3. CASE command.verb # "message"
    BY <2>1, <2>3 DEF TypeOK, Promise!vars
  <2>4. QED
    BY <2>2, <2>3
<1>3. CASE sendEmail
  <2>1. CASE Sends
    BY <2>1 DEF Sends, Promise!vars, TypeOK
  <2>2. CASE Finishes
    <3>1. MessageInv'
      BY <2>2 DEF Finishes, Ends, DialogueInv, TypeOK
    <3>2. [Promise!Next]_(Promise!vars)
      BY <2>2
         DEF Finishes, Ends, TypeOK, Promise!vars, Promise!Next, Promise!ReportSent, Promise!ReportFailed
    <3>3. QED
      BY <3>1, <3>2
  <2>3. QED
    BY <1>3, <2>1, <2>2, SendEmailSteps
<1>4. CASE UNCHANGED vars
  BY <1>4 DEF vars, client, Promise!vars
<1>5. QED
  BY <1>1, <1>2, <1>3, <1>4 DEF Next

\* sendEmail's dialogue is the attempt that Sender relies on: success is
\* reported only after the exchanger answered for the message, and the message
\* is taken over at most once (DataCloser.Close and Quit of client.go).
THEOREM DialogueImplementsAttempt == Spec => ImplementsSendAttempt
<1>1. Init => DialogueInv /\ MessageInv /\ Promise!Init
  BY DEF Init, DialogueInv, MessageInv, Promise!Init
<1>2. QED
  BY <1>1, TypeCorrect, DialogueStep, MessageStep, PTL
     DEF Spec, ImplementsSendAttempt, Promise!Spec
-----------------------------------------------------------------------------
(* The dialogue keeps to the protocol.                                     *)

Talking == Calls \ {"NewClient", "returned"}

VerbOf(call) ==
  CASE call \in {"Hello", "ehlo"} -> "EHLO"
    [] call = "helo" -> "HELO"
    [] call = "StartTLS" -> "STARTTLS"
    [] call = "Mail" -> "MAIL"
    [] call = "Rcpt" -> "RCPT"
    [] call = "Data" -> "DATA"
    [] call = "Close" -> "message"
    [] call = "Quit" -> "QUIT"

\* What holds of the exchanger when a call is made, and until it is answered.
Expected(call) ==
  /\ peer.tls = tls
  /\ call = "StartTLS" => "STARTTLS" \in peer.offers /\ peer.stage = "idle"
  /\ call = "ehlo" => tls
  /\ call = "Mail" => peer.greeted /\ peer.stage = "idle" /\ ext = peer.offers
  /\ call = "Rcpt" => peer.stage = "mail"
  /\ call = "Data" => peer.stage = "rcpt"
  /\ call = "Close" => peer.stage = "data"
  /\ call \in {"Mail", "Rcpt", "Data", "Close"} => "STARTTLS" \notin peer.offers

\* What holds of it once the call was answered positively.
Granted(call) ==
  /\ peer.tls = (tls \/ call = "StartTLS")
  /\ call \in {"Hello", "helo", "ehlo"} => peer.greeted /\ peer.stage = "idle"
  /\ call = "helo" => peer.offers = {}
  /\ call = "Mail" => peer.stage = "mail"
  /\ call = "Rcpt" => peer.stage = "rcpt"
  /\ call = "Data" => peer.stage = "data"
  /\ call \in {"ehlo", "Mail", "Rcpt", "Data"} => "STARTTLS" \notin peer.offers

\* A command the exchanger has no reason to refuse as out of place.
Proper(c) ==
  /\ InSequence(c)
  /\ c.verb \in {"MAIL", "RCPT", "DATA", "message"} /\ "STARTTLS" \in peer.offers => c.tls
  /\ c.mime => "8BITMIME" \in peer.offers

\* Client and exchanger agree on where the dialogue is, unless the connection
\* is gone; a command that is under way is proper even then.
SequenceInv ==
  /\ command # Nil => Proper(command)
  /\ pc = "NewClient" => command = Nil /\ ~peer.tls /\ ~tls
  /\ pc \in Talking /\ usable /\ command # Nil => command.verb = VerbOf(pc)
  /\ pc \in Talking /\ usable /\ reply = Nil => Expected(pc)
  /\ pc \in Talking /\ reply = "ok" => Granted(pc)
  /\ pc = "Hello" /\ reply = "refused" => peer.tls = tls

\* What an obeyed command makes of the exchanger.
LEMMA ObeyedFields ==
  ASSUME peer \in Peer, NEW c, c.verb \in Verbs, NEW o \in SUBSET Extensions
  PROVE  LET p == Obeyed(c, o) IN
         /\ p.tls = (peer.tls \/ c.verb = "STARTTLS")
         /\ c.verb \in {"EHLO", "HELO"} => p.greeted /\ p.stage = "idle"
         /\ c.verb = "HELO" => p.offers = {}
         /\ c.verb = "EHLO" => p.offers = o
         /\ c.verb = "MAIL" => p.stage = "mail"
         /\ c.verb = "RCPT" => p.stage = "rcpt"
         /\ c.verb = "DATA" => p.stage = "data"
         /\ c.verb \in {"MAIL", "RCPT", "DATA"} => p.offers = peer.offers
<1>1. CASE c.verb = "EHLO"
  BY <1>1 DEF Obeyed, Peer
<1>2. CASE c.verb = "HELO"
  BY <1>2 DEF Obeyed, Peer
<1>3. CASE c.verb = "STARTTLS"
  BY <1>3 DEF Obeyed, Peer
<1>4. CASE c.verb \in {"MAIL", "RCPT", "DATA", "message"}
  BY <1>4 DEF Obeyed, Peer
<1>5. CASE c.verb = "QUIT"
  BY <1>5 DEF Obeyed, Peer
<1>6. QED
  BY <1>1, <1>2, <1>3, <1>4, <1>5 DEF Verbs

\* The connection and the exchanger.
LEMMA SequenceConnection ==
  ASSUME TypeOK, DialogueInv, SequenceInv, Deadline \/ ConnLost \/ Banner \/ Obey \/ Refuse
  PROVE  SequenceInv'
<1> USE ClientAssumption, CommandAssumption
<1>1. CASE Deadline \/ ConnLost \/ Refuse
  <2>1. /\ UNCHANGED <<pc, ext, tls, peer>> /\ command' \in {command, Nil}
        /\ usable' => UNCHANGED usable /\ command # Nil
        /\ reply' \in {reply, Nil, "refused"}
        /\ reply' = "refused" /\ reply # "refused" => usable /\ command # Nil /\ reply = Nil
        /\ usable' => reply' = "refused"
    BY <1>1, ClientAssumption DEF Deadline, ConnLost, Refuse, Answer, client, DialogueInv
  <2>2. ASSUME NEW c, Proper(c) PROVE Proper(c)'
    BY <2>1, <2>2 DEF Proper, InSequence
  <2>3. ASSUME NEW call, Expected(call) PROVE Expected(call)'
    BY <2>1, <2>3 DEF Expected
  <2>4. ASSUME NEW call, Granted(call) PROVE Granted(call)'
    BY <2>1, <2>4 DEF Granted
  <2>5. pc = "Hello" /\ reply' = "refused" => peer.tls = tls
    BY <2>1 DEF SequenceInv, Expected, Talking, Calls
  <2>6. QED
    BY <2>1, <2>2, <2>3, <2>4, <2>5 DEF SequenceInv, Talking
<1>2. CASE Banner
  <2>1. /\ UNCHANGED <<pc, ext, tls, command, usable>> /\ command = Nil /\ reply = Nil
        /\ pc \in {"NewClient", "returned"} /\ peer' = [peer EXCEPT !.spoke = TRUE]
    BY <1>2 DEF Banner, client, DialogueInv
  <2>2. peer'.tls = peer.tls
    BY <2>1 DEF TypeOK
  <2>3. QED
    BY <2>1, <2>2 DEF SequenceInv, Talking
<1>3. CASE Obey
  <2>1. /\ UNCHANGED <<pc, ext, tls, usable>> /\ command # Nil /\ command' = Nil
        /\ reply' = (IF usable THEN "ok" ELSE Nil) /\ reply = Nil
        /\ pc # "NewClient"
    BY <1>3 DEF Obey, client, Answer, DialogueInv, SequenceInv
  <2>2. PICK o \in Offers : peer' = Obeyed(command, o)
    BY <1>3 DEF Obey
  <2>3. command.verb \in Verbs /\ o \in SUBSET Extensions /\ ("STARTTLS" \in o => ~peer.tls)
    BY <2>1, <2>2 DEF TypeOK, Command, Offers
  <2>4. pc \in Talking /\ usable => Granted(pc)'
    <3>1. SUFFICES ASSUME pc \in Talking, usable PROVE Granted(pc)'
      OBVIOUS
    <3>2. Expected(pc) /\ command.verb = VerbOf(pc)
      BY <2>1, <3>1 DEF SequenceInv
    <3>3. QED
      BY <2>1, <2>2, <2>3, <3>1, <3>2, ObeyedFields
         DEF Granted, Expected, VerbOf, Talking, Calls, TypeOK, Peer
  <2>5. QED
    BY <2>1, <2>4 DEF SequenceInv, Talking
<1>4. QED
  BY <1>1, <1>2, <1>3

\* sendEmail sends the command that is expected, or goes on to the next call.
LEMMA SequenceClient ==
  ASSUME TypeOK, DialogueInv, SequenceInv, sendEmail
  PROVE  SequenceInv'
<1> USE ClientAssumption, CommandAssumption
<1>1. ASSUME NEW call \in Talking, NEW mime \in BOOLEAN, Send(call, VerbOf(call), mime),
             mime => call = "Mail" /\ "8BITMIME" \in ext
      PROVE  SequenceInv'
  <2>1. /\ UNCHANGED <<pc, ext, tls, reply, usable, peer>> /\ usable /\ reply = Nil /\ pc = call
        /\ command' = [verb |-> VerbOf(call), tls |-> tls, mime |-> mime]
    BY <1>1 DEF Send, client
  <2>2. Expected(call)
    BY <1>1, <2>1 DEF SequenceInv
  <2>3. /\ command'.verb = VerbOf(call) /\ command'.tls = tls /\ command'.mime = mime
    BY <2>1
  <2>4. Proper(command)'
    BY <1>1, <2>1, <2>2, <2>3 DEF Proper, InSequence, Expected, VerbOf, Talking, Calls
  <2>5. Expected(pc)'
    BY <2>1, <2>2 DEF Expected
  <2>6. QED
    BY <1>1, <2>1, <2>3, <2>4, <2>5 DEF SequenceInv, Talking
<1>2. ASSUME UNCHANGED <<command, peer>>, reply' = Nil, pc' = "returned"
      PROVE  SequenceInv'
  BY <1>2 DEF SequenceInv, Talking, Proper, InSequence
<1>3. ASSUME UNCHANGED <<command, peer, usable>>, command = Nil, reply' = Nil, pc' \in Talking,
             Expected(pc)'
      PROVE  SequenceInv'
  BY <1>3 DEF SequenceInv, Talking
<1>4. CASE NewClient
  <2>1. CASE Ok("NewClient") /\ Then("Hello")
    <3>0. /\ peer' = peer /\ tls' = tls /\ pc' = "Hello" /\ ~peer.tls /\ ~tls
          /\ peer.tls \in BOOLEAN /\ tls \in BOOLEAN
      BY <2>1 DEF Ok, Then, SequenceInv, TypeOK
    <3>1. Expected(pc)'
      BY <3>0 DEF Expected
    <3>2. QED
      BY <2>1, <3>1, <1>3 DEF Ok, Then, SequenceInv, Talking, Calls
  <2>2. CASE Err("NewClient") /\ pc' = "returned"
    BY <2>2, <1>2 DEF Err
  <2>3. QED
    BY <1>4, <2>1, <2>2 DEF NewClient
<1>5. ASSUME NEW call \in Talking, Ok(call)
      PROVE  /\ Granted(call) /\ pc = call
             /\ UNCHANGED <<command, peer, usable>> /\ command = Nil /\ reply' = Nil
  BY <1>5 DEF Ok, SequenceInv, DialogueInv
<1>6. CASE Hello \/ helo
  <2>1. CASE Send("Hello", "EHLO", FALSE)
    BY <2>1, <1>1 DEF VerbOf, Talking, Calls
  <2>2. CASE Send("helo", "HELO", FALSE)
    BY <2>2, <1>1 DEF VerbOf, Talking, Calls
  <2>3. CASE /\ \/ Ok("Hello") /\ ext' = peer.offers
                \/ Ok("helo") /\ ext' = {}
             /\ Extension(ext') /\ UNCHANGED <<outcome, tls, open>>
    <3>1. /\ UNCHANGED <<command, peer, usable, tls>> /\ command = Nil /\ reply' = Nil
          /\ peer.greeted /\ peer.stage = "idle" /\ peer.tls = tls /\ ext' = peer.offers
      BY <2>3, <1>5 DEF Granted, Talking, Calls, TypeOK
    <3>2. pc' = IF "STARTTLS" \in ext' THEN "StartTLS" ELSE "Mail"
      BY <2>3 DEF Extension
    <3>3. Expected(pc)' /\ pc' \in Talking
      BY <3>1, <3>2 DEF Expected, Talking, Calls
    <3>4. QED
      BY <3>1, <3>3, <1>3
  <2>4. CASE Err("Hello") /\ Then("helo")
    <3>1. CASE usable
      <4>1. /\ UNCHANGED <<command, peer, usable, tls>> /\ command = Nil /\ reply' = Nil
            /\ pc' = "helo" /\ peer.tls = tls
        BY <2>4, <3>1 DEF Err, Then, DialogueInv, SequenceInv
      <4>2. QED
        BY <4>1, <1>3 DEF Expected, Talking, Calls
    <3>2. CASE ~usable
      BY <2>4, <3>2 DEF Err, Then, SequenceInv, Proper, InSequence, TypeOK
    <3>3. QED
      BY <3>1, <3>2
  <2>5. CASE Err("helo") /\ ReturnErr
    BY <2>5, <1>2 DEF Err, ReturnErr
  <2>6. QED
    BY <1>6, <2>1, <2>2, <2>3, <2>4, <2>5 DEF Hello, helo
<1>7. CASE StartTLS \/ ehlo
  <2>1. CASE Send("StartTLS", "STARTTLS", FALSE)
    BY <2>1, <1>1 DEF VerbOf, Talking, Calls
  <2>2. CASE Send("ehlo", "EHLO", FALSE)
    BY <2>2, <1>1 DEF VerbOf, Talking, Calls
  <2>3. CASE Ok("StartTLS") /\ tls' = TRUE /\ pc' = "ehlo" /\ UNCHANGED <<outcome, ext, open>>
    <3>1. Granted("StartTLS") /\ UNCHANGED <<command, peer, usable>> /\ command = Nil /\ reply' = Nil
      BY <2>3, <1>5 DEF Talking, Calls
    <3>2. Expected(pc)' /\ pc' \in Talking
      BY <2>3, <3>1 DEF Granted, Expected, Talking, Calls
    <3>3. QED
      BY <3>1, <3>2, <1>3
  <2>4. CASE /\ Ok("ehlo") /\ ext' = peer.offers /\ pc' = "Mail" /\ UNCHANGED <<outcome, tls, open>>
    <3>1. Granted("ehlo") /\ UNCHANGED <<command, peer, usable>> /\ command = Nil /\ reply' = Nil
      BY <2>4, <1>5 DEF Talking, Calls
    <3>2. Expected(pc)' /\ pc' \in Talking
      BY <2>4, <3>1 DEF Granted, Expected, Talking, Calls, TypeOK
    <3>3. QED
      BY <3>1, <3>2, <1>3
  <2>5. CASE (Err("StartTLS") \/ Err("ehlo")) /\ ReturnErr
    BY <2>5, <1>2 DEF Err, ReturnErr
  <2>6. QED
    BY <1>7, <2>1, <2>2, <2>3, <2>4, <2>5 DEF StartTLS, ehlo
<1>8. CASE HandshakeFails \/ validateLine
  BY <1>8, <1>2 DEF HandshakeFails, validateLine, ReturnErr
<1>9. CASE Mail \/ Rcpt \/ Data \/ Close \/ Quit
  <2>1. CASE Send("Mail", "MAIL", "8BITMIME" \in ext)
    <3> DEFINE m == "8BITMIME" \in ext
    <3>1. m \in BOOLEAN /\ "Mail" \in Talking /\ VerbOf("Mail") = "MAIL"
      BY DEF VerbOf, Talking, Calls
    <3>2. Send("Mail", VerbOf("Mail"), m) /\ (m => "8BITMIME" \in ext)
      BY <2>1, <3>1
    <3> HIDE DEF m
    <3>3. QED
      BY <3>1, <3>2, <1>1
  <2>2. CASE Send("Rcpt", "RCPT", FALSE) \/ Send("Data", "DATA", FALSE)
             \/ Send("Close", "message", FALSE) \/ Send("Quit", "QUIT", FALSE)
    BY <2>2, <1>1 DEF VerbOf, Talking, Calls
  <2>3. CASE \/ Ok("Mail") /\ Then("Rcpt")
             \/ Ok("Rcpt") /\ Then("Data")
             \/ Ok("Data") /\ Then("Close")
             \/ Ok("Close") /\ Then("Quit")
    <3>1. Granted(pc) /\ UNCHANGED <<command, peer, usable>> /\ command = Nil /\ reply' = Nil
      BY <2>3, <1>5 DEF Talking, Calls
    <3>2. Expected(pc)' /\ pc' \in Talking
      BY <2>3, <3>1 DEF Ok, Then, Granted, Expected, Talking, Calls, TypeOK
    <3>3. QED
      BY <3>1, <3>2, <1>3
  <2>4. CASE (Err("Mail") \/ Err("Rcpt") \/ Err("Data") \/ Err("Close") \/ Err("Quit")) /\ ReturnErr
    BY <2>4, <1>2 DEF Err, ReturnErr
  <2>5. CASE Ok("Quit") /\ pc' = "returned"
    BY <2>5, <1>2 DEF Ok
  <2>6. QED
    BY <1>9, <2>1, <2>2, <2>3, <2>4, <2>5 DEF Mail, Rcpt, Data, Close, Quit
<1>10. QED
  BY <1>4, <1>6, <1>7, <1>8, <1>9 DEF sendEmail

\* For any extensions and however the exchanger and the connection behave, no
\* command goes out of sequence, no envelope in the clear to an exchanger that
\* offered STARTTLS, and no parameter that was not offered on the present
\* channel (StartTLS, ehlo and Mail of client.go, as called by send.go).
THEOREM ProtocolCorrect ==
  Spec => [](NeverOutOfSequence /\ EnvelopeOverTLS /\ ExtensionsCurrent)
<1>1. Init => DialogueInv /\ SequenceInv
  BY DEF Init, DialogueInv, SequenceInv, Talking
<1>2. SequenceInv => NeverOutOfSequence /\ EnvelopeOverTLS /\ ExtensionsCurrent
  BY DEF SequenceInv, Proper, NeverOutOfSequence, EnvelopeOverTLS, ExtensionsCurrent
<1>3. TypeOK /\ DialogueInv /\ SequenceInv /\ [Next]_vars => SequenceInv'
  <2>1. SUFFICES ASSUME TypeOK, DialogueInv, SequenceInv, UNCHANGED vars PROVE SequenceInv'
    BY SequenceConnection, SequenceClient DEF Next
  <2>2. QED
    BY <2>1 DEF vars, client, SequenceInv, Proper, InSequence, Expected, Granted
<1>4. QED
  BY <1>1, <1>2, <1>3, TypeCorrect, DialogueStep, PTL DEF Spec
=============================================================================
