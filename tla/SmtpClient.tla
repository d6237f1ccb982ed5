----------------------------- MODULE SmtpClient -----------------------------
(***************************************************************************)
(* One attempt of sendEmail (internal/sender/send.go) with an exchanger it  *)
(* has dialled, command by command: the Client of internal/smtp/client, the *)
(* exchanger, and the connection between them.                             *)
(*                                                                         *)
(* The exchanger is external: it keeps to RFC 5321, answers a command       *)
(* positively only in sequence, and may refuse anything, say nothing, or    *)
(* offer other extensions once TLS is on.                                   *)
(***************************************************************************)
EXTENDS Naturals, FiniteSets

CONSTANTS
  Extensions,   \* what an EHLO reply may offer
  Nil           \* no command, no reply

ASSUME ClientAssumption ==
  /\ {"STARTTLS", "8BITMIME"} \subseteq Extensions
  /\ Nil \notin {"ok", "refused"}

Verbs == {"EHLO", "HELO", "STARTTLS", "MAIL", "RCPT", "DATA", "message", "QUIT"}

\* A command as it goes out: over TLS or not, with BODY=8BITMIME or not.
Command == [verb : Verbs, tls : BOOLEAN, mime : BOOLEAN]

ASSUME CommandAssumption == Nil \notin Command

VARIABLES
  pc,       \* the call of sendEmail in progress
  outcome,  \* what sendEmail returned
  ext,      \* Client.ext; {} stands for nil and for an empty map.  Names are
            \* compared as they are spelt: one in another case is not an offer
  tls,      \* Client.tls
  open,     \* the client's end of the connection has not been closed
  command,  \* sent, not yet read by the exchanger
  reply,    \* sent, not yet read by the client: "ok" is the expected code
  usable,   \* no error and no deadline on the connection yet
  peer,     \* the exchanger: [spoke, greeted, tls, offers, stage]
  taken     \* times the exchanger answered for the message

client == <<pc, outcome, ext, tls, open>>
vars == <<client, command, reply, usable, peer, taken>>

Calls == {"NewClient", "Hello", "helo", "StartTLS", "ehlo", "Mail", "Rcpt", "Data",
          "Close", "Quit", "returned"}

Init ==
  /\ pc = "NewClient"
  /\ outcome = "none"
  /\ ext = {}
  /\ tls = FALSE
  /\ open = TRUE
  /\ command = Nil
  /\ reply = Nil
  /\ usable = TRUE
  /\ peer = [spoke |-> FALSE, greeted |-> FALSE, tls |-> FALSE, offers |-> {},
             stage |-> "idle"]
  /\ taken = 0

-----------------------------------------------------------------------------
(* The connection and the exchanger.                                       *)

\* Mutant of Deadline: none is set.
DeadlineNever == FALSE /\ UNCHANGED vars

\* conn.SetDeadline: a minute after the dial every read and write fails.
Deadline ==
  /\ usable
  /\ usable' = FALSE
  /\ UNCHANGED <<client, command, reply, peer, taken>>

\* The connection breaks.  What was sent may still be read at the other end.
ConnLost ==
  /\ usable
  /\ usable' = FALSE
  /\ reply' \in {reply, Nil}
  /\ command' \in {command, Nil}
  /\ UNCHANGED <<client, peer, taken>>

\* Replies do not get through a broken connection.
Answer(r) == reply' = IF usable THEN r ELSE Nil

Banner ==
  /\ ~peer.spoke
  /\ peer' = [peer EXCEPT !.spoke = TRUE]
  /\ \E r \in {"ok", "refused"} : Answer(r)
  /\ UNCHANGED <<client, command, usable, taken>>

\* The exchanger can say yes to c.
InSequence(c) ==
  /\ c.tls = peer.tls
  /\ CASE c.verb \in {"EHLO", "HELO", "QUIT"} -> TRUE
       [] c.verb = "STARTTLS" -> "STARTTLS" \in peer.offers /\ peer.stage = "idle"
       [] c.verb = "MAIL" -> peer.greeted /\ peer.stage = "idle"
       [] c.verb = "RCPT" -> peer.stage \in {"mail", "rcpt"}
       [] c.verb = "DATA" -> peer.stage = "rcpt"
       [] c.verb = "message" -> peer.stage = "data"

\* A second EHLO offers what it likes; TLS is offered only once.
Offers == {o \in SUBSET Extensions : "STARTTLS" \in o => ~peer.tls}

Obeyed(c, o) ==
  CASE c.verb = "EHLO" -> [peer EXCEPT !.greeted = TRUE, !.offers = o, !.stage = "idle"]
    [] c.verb = "HELO" -> [peer EXCEPT !.greeted = TRUE, !.offers = {}, !.stage = "idle"]
    [] c.verb = "STARTTLS" -> [peer EXCEPT !.greeted = FALSE, !.offers = {}, !.tls = TRUE]
    [] c.verb = "MAIL" -> [peer EXCEPT !.stage = "mail"]
    [] c.verb = "RCPT" -> [peer EXCEPT !.stage = "rcpt"]
    [] c.verb = "DATA" -> [peer EXCEPT !.stage = "data"]
    [] c.verb = "message" -> [peer EXCEPT !.stage = "idle"]
    [] OTHER -> peer

Obey ==
  /\ command # Nil
  /\ InSequence(command)
  /\ \E o \in Offers : peer' = Obeyed(command, o)
  /\ taken' = IF command.verb = "message" THEN taken + 1 ELSE taken
  /\ command' = Nil
  /\ Answer("ok")
  /\ UNCHANGED <<client, usable>>

Refuse ==
  /\ command # Nil
  /\ command' = Nil
  /\ Answer("refused")
  /\ UNCHANGED <<client, usable, peer, taken>>

-----------------------------------------------------------------------------
(* The client.  Client.cmd sends a command and reads its reply.            *)

\* The first half of cmd.
Send(call, verb, mime) ==
  /\ pc = call
  /\ usable /\ command = Nil /\ reply = Nil
  /\ command' = [verb |-> verb, tls |-> tls, mime |-> mime]
  /\ UNCHANGED <<client, reply, usable, peer, taken>>

\* The second half: the reply has the code that was expected.
Ok(call) ==
  /\ pc = call
  /\ reply = "ok"
  /\ reply' = Nil
  /\ UNCHANGED <<command, usable, peer, taken>>

\* Another code, or the read or the write failed.
Err(call) ==
  /\ pc = call
  /\ reply = "refused" \/ ~usable
  /\ reply' = Nil
  /\ UNCHANGED <<command, usable, peer, taken>>

\* sendEmail returns an error.  The connection is left as it is.
ReturnErr ==
  /\ pc' = "returned"
  /\ outcome' = "failed"
  /\ UNCHANGED <<ext, tls, open>>

Then(call) == pc' = call /\ UNCHANGED <<outcome, ext, tls, open>>

\* The banner is read; NewClient closes the connection when it is not a 220.
NewClient ==
  \/ Ok("NewClient") /\ Then("Hello")
  \/ /\ Err("NewClient")
     /\ pc' = "returned" /\ outcome' = "failed" /\ open' = FALSE
     /\ UNCHANGED <<ext, tls>>

\* Extension("STARTTLS") decides how the attempt goes on after Hello.
Extension(e) == pc' = IF "STARTTLS" \in e THEN "StartTLS" ELSE "Mail"

\* Mutant of Hello: the STARTTLS offer is not looked at.
HelloPlain ==
  \/ Send("Hello", "EHLO", FALSE)
  \/ /\ Ok("Hello")
     /\ ext' = peer.offers
     /\ pc' = "Mail"
     /\ UNCHANGED <<outcome, tls, open>>
  \/ Err("Hello") /\ Then("helo")

\* hello: EHLO, whose reply lists the extensions; any error makes it try HELO.
Hello ==
  \/ Send("Hello", "EHLO", FALSE)
  \/ /\ Ok("Hello")
     /\ ext' = peer.offers
     /\ Extension(ext')
     /\ UNCHANGED <<outcome, tls, open>>
  \/ Err("Hello") /\ Then("helo")

helo ==
  \/ Send("helo", "HELO", FALSE)
  \/ /\ Ok("helo")
     /\ ext' = {}
     /\ Extension(ext')
     /\ UNCHANGED <<outcome, tls, open>>
  \/ Err("helo") /\ ReturnErr

\* Mutant of StartTLS: no EHLO over TLS.
StartTLSOnly ==
  \/ Send("StartTLS", "STARTTLS", FALSE)
  \/ Ok("StartTLS") /\ tls' = TRUE /\ pc' = "Mail" /\ UNCHANGED <<outcome, ext, open>>
  \/ Err("StartTLS") /\ ReturnErr

StartTLS ==
  \/ Send("StartTLS", "STARTTLS", FALSE)
  \/ Ok("StartTLS") /\ tls' = TRUE /\ pc' = "ehlo" /\ UNCHANGED <<outcome, ext, open>>
  \/ Err("StartTLS") /\ ReturnErr

\* Mutant of ehlo: the offers made before TLS stay.
ehloKeeps ==
  \/ Send("ehlo", "EHLO", FALSE)
  \/ Ok("ehlo") /\ pc' = "Mail" /\ UNCHANGED <<outcome, ext, tls, open>>
  \/ Err("ehlo") /\ ReturnErr

\* The EHLO at the end of StartTLS has no HELO to fall back on.
ehlo ==
  \/ Send("ehlo", "EHLO", FALSE)
  \/ /\ Ok("ehlo")
     /\ ext' = peer.offers
     /\ pc' = "Mail"
     /\ UNCHANGED <<outcome, tls, open>>
  \/ Err("ehlo") /\ ReturnErr

\* The first command over TLS makes the handshake, and that may fail.
HandshakeFails ==
  /\ pc = "ehlo"
  /\ command = Nil /\ reply = Nil
  /\ ReturnErr
  /\ UNCHANGED <<command, reply, usable, peer, taken>>

\* An address with a line break in it is an error before anything is sent.
validateLine ==
  /\ pc \in {"Mail", "Rcpt"}
  /\ command = Nil /\ reply = Nil
  /\ ReturnErr
  /\ UNCHANGED <<command, reply, usable, peer, taken>>

Mail ==
  \/ Send("Mail", "MAIL", "8BITMIME" \in ext)
  \/ Ok("Mail") /\ Then("Rcpt")
  \/ Err("Mail") /\ ReturnErr

Rcpt ==
  \/ Send("Rcpt", "RCPT", FALSE)
  \/ Ok("Rcpt") /\ Then("Data")
  \/ Err("Rcpt") /\ ReturnErr

Data ==
  \/ Send("Data", "DATA", FALSE)
  \/ Ok("Data") /\ Then("Close")
  \/ Err("Data") /\ ReturnErr

\* Mutant of Close: the reply to the message is read and ignored.
CloseIgnoresReply ==
  \/ Send("Close", "message", FALSE)
  \/ Ok("Close") /\ Then("Quit")
  \/ Err("Close") /\ Then("Quit")

\* Mutant of Close: success is noted before QUIT.
CloseReturnsSent ==
  \/ Send("Close", "message", FALSE)
  \/ Ok("Close") /\ pc' = "Quit" /\ outcome' = "sent" /\ UNCHANGED <<ext, tls, open>>
  \/ Err("Close") /\ ReturnErr

\* The message and its final dot; DataCloser.Close reads the reply.
Close ==
  \/ Send("Close", "message", FALSE)
  \/ Ok("Close") /\ Then("Quit")
  \/ Err("Close") /\ ReturnErr

\* Only a QUIT that is answered closes the connection and ends in success,
\* unless closing the connection fails.
Quit ==
  \/ Send("Quit", "QUIT", FALSE)
  \/ /\ Ok("Quit")
     /\ pc' = "returned" /\ outcome' \in {"sent", "failed"} /\ open' = FALSE
     /\ UNCHANGED <<ext, tls>>
  \/ Err("Quit") /\ ReturnErr

-----------------------------------------------------------------------------
sendEmail ==
  \/ NewClient \/ Hello \/ helo
  \/ StartTLS \/ ehlo \/ HandshakeFails
  \/ validateLine \/ Mail \/ Rcpt \/ Data \/ Close \/ Quit

Next == Deadline \/ ConnLost \/ Banner \/ Obey \/ Refuse \/ sendEmail

Spec == Init /\ [][Next]_vars

\* The worker runs and the deadline passes; the exchanger owes nothing.
FairSpec == Spec /\ WF_vars(sendEmail) /\ WF_vars(Deadline)

-----------------------------------------------------------------------------
(* Properties.                                                             *)

\* Every variable has its type, and an attempt has an outcome exactly when
\* sendEmail has returned.
TypeOK ==
  /\ pc \in Calls
  /\ outcome \in {"none", "sent", "failed"}
  /\ ext \subseteq Extensions
  /\ tls \in BOOLEAN /\ open \in BOOLEAN /\ usable \in BOOLEAN
  /\ command \in Command \cup {Nil}
  /\ reply \in {"ok", "refused", Nil}
  /\ peer \in [spoke : BOOLEAN, greeted : BOOLEAN, tls : BOOLEAN,
               offers : SUBSET Extensions, stage : {"idle", "mail", "rcpt", "data"}]
  /\ taken \in Nat
  /\ outcome = "none" <=> pc # "returned"

Promise == INSTANCE SendAttempt

\* sendEmail's dialogue is the attempt that Sender relies on: whatever is
\* refused, lost or late, it reports success only after the exchanger answered
\* for the message, and the message is taken over at most once
\* (DataCloser.Close and Quit of client.go, called at send.go 85-98).
ImplementsSendAttempt == Promise!Spec

\* No command goes out that the exchanger must answer "bad sequence": MAIL
\* follows a greeting of the present channel, plain or TLS, and RCPT, DATA and
\* the message follow the success of the one before (client.go: StartTLS greets
\* again; send.go calls in this order and stops at the first error).
NeverOutOfSequence == command # Nil => InSequence(command)

\* To an exchanger whose greeting offered STARTTLS, the envelope and the message
\* go only over TLS: neither a refused STARTTLS, nor a failed handshake, nor
\* the HELO that follows a lost EHLO reply makes sendEmail go on in the clear
\* (send.go 61-65 returns on any error of StartTLS).
EnvelopeOverTLS ==
  /\ command # Nil
  /\ command.verb \in {"MAIL", "RCPT", "DATA", "message"}
  /\ "STARTTLS" \in peer.offers
  => command.tls

\* BODY=8BITMIME is asked only of an exchanger that offered it on the present
\* channel: what was offered before TLS is forgotten (ehlo replaces Client.ext,
\* Mail reads it).
ExtensionsCurrent ==
  command # Nil /\ command.mime => "8BITMIME" \in peer.offers

\* An attempt ends, however silent the exchanger is: a worker is never kept
\* from the next email (SetDeadline, send.go:44).
AttemptEnds == <>(outcome # "none")
=============================================================================
