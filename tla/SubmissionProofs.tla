-------------------------- MODULE SubmissionProofs --------------------------
(***************************************************************************)
(* Proofs about Submission, for any number of clients and passwords and any *)
(* bounds: types, that mail is queued as given, and that the login filter   *)
(* ends.                                                                   *)
(***************************************************************************)
EXTENDS Submission, TLAPS

-----------------------------------------------------------------------------
(* Types.                                                                  *)

\* The types hold initially.
LEMMA InitType == Init => TypeOK
BY SubmissionAssumption DEF Init, TypeOK, LongAgo, Cleared, NoEnvelope, SessionData, Envelope

\* Logins keep the types.
LEMMA LoginType ==
  ASSUME TypeOK, NEW c \in Clients, Login(c)
  PROVE  TypeOK'
<1>1. CASE LoginFiltered(c)
  BY <1>1 DEF LoginFiltered, TypeOK, vars, loginVars, sessionVars
<1>2. ASSUME NEW p \in Passwords, LoginSelect(c, p) \/ LoginFails(c, p)
      PROVE  TypeOK'
  BY <1>2, SubmissionAssumption
     DEF LoginSelect, LoginFails, LookUp, TypeOK, sessionVars, LongAgo
<1>3. CASE LoginSet(c)
  <2>1. login' \in [value : Passwords \cup {"bad"}, left : 0..TTL] \cup {Nil}
    BY <1>3, SubmissionAssumption DEF LoginSet, SetLogin, TypeOK
  <2>2. QED
    BY <2>1, <1>3, SubmissionAssumption DEF LoginSet, TypeOK, sessionVars
<1>4. QED
  BY <1>1, <1>2, <1>3 DEF Login

\* The clock keeps the types.
LEMMA TickType ==
  ASSUME TypeOK, Tick
  PROVE  TypeOK'
<1>1. login' \in [value : Passwords \cup {"bad"}, left : 0..TTL] \cup {Nil}
  BY SubmissionAssumption DEF Tick, Expire, TypeOK
<1>2. lookedUp' \in 0..LongAgo
  BY SubmissionAssumption DEF Tick, Younger, TypeOK, LongAgo
<1>3. lag' \in [Clients -> 0..MaxLag]
  BY SubmissionAssumption DEF Tick, TypeOK
<1>4. QED
  BY <1>1, <1>2, <1>3 DEF Tick, TypeOK, sessionVars

\* A SessionData, an Envelope, with a field set.
LEMMA DataFields ==
  ASSUME NEW d \in SessionData, NEW n \in 0..MaxMails, NEW t \in 0..MaxRcpts,
         NEW m \in SUBSET (1..MaxMails)
  PROVE  /\ [d EXCEPT !.From = n] = [From |-> n, To |-> d.To, Message |-> d.Message]
         /\ [d EXCEPT !.To = t] = [From |-> d.From, To |-> t, Message |-> d.Message]
         /\ [d EXCEPT !.Message = m] = [From |-> d.From, To |-> d.To, Message |-> m]
         /\ [d EXCEPT !.From = n] \in SessionData
         /\ [d EXCEPT !.To = t] \in SessionData
         /\ [d EXCEPT !.Message = m] \in SessionData
BY DEF SessionData

\* The same of an envelope.
LEMMA EnvelopeFields ==
  ASSUME NEW e \in Envelope, NEW t \in 0..MaxRcpts
  PROVE  /\ [e EXCEPT !.rcpts = t] = [no |-> e.no, rcpts |-> t, seen |-> e.seen]
         /\ [e EXCEPT !.rcpts = t] \in Envelope
BY DEF Envelope

\* What the steps that touch a session's data and envelope make of them.
LEMMA ResetEffect ==
  ASSUME TypeOK, NEW c \in Clients, Reset(c)
  PROVE  /\ data' = [data EXCEPT ![c] = Cleared]
         /\ envelope' = [envelope EXCEPT ![c] =
                          [no |-> 0, rcpts |-> 0, seen |-> envelope[c].seen]]
         /\ data' \in [Clients -> SessionData]
         /\ envelope' \in [Clients -> Envelope]
<1>1. 0 \in 0..MaxMails /\ 0 \in 0..MaxRcpts /\ Cleared \in SessionData
  BY SubmissionAssumption DEF SessionData, Cleared
<1>2. envelope[c] \in Envelope
  BY DEF TypeOK
<1>3. [no |-> 0, rcpts |-> 0, seen |-> envelope[c].seen] \in Envelope
  BY <1>1, <1>2 DEF Envelope
<1>4. QED
  BY <1>1, <1>3 DEF Reset, TypeOK

\* MAIL sets sender and transaction together.
LEMMA MailEffect ==
  ASSUME TypeOK, NEW c \in Clients, Mail(c)
  PROVE  LET no == envelope[c].seen + 1 IN
         /\ data' = [data EXCEPT ![c] =
                      [From |-> no, To |-> data[c].To, Message |-> data[c].Message]]
         /\ envelope' = [envelope EXCEPT ![c] =
                          [no |-> no, rcpts |-> envelope[c].rcpts, seen |-> no]]
         /\ data' \in [Clients -> SessionData]
         /\ envelope' \in [Clients -> Envelope]
<1> DEFINE no == envelope[c].seen + 1
<1>1. envelope[c] \in Envelope /\ data[c] \in SessionData
  BY DEF TypeOK
<1>2. no \in 0..MaxMails
  BY <1>1, SubmissionAssumption DEF Mail, Envelope
<1>3. /\ data' = [data EXCEPT ![c] = [data[c] EXCEPT !.From = no]]
      /\ envelope' = [envelope EXCEPT ![c] =
                        [no |-> no, rcpts |-> envelope[c].rcpts, seen |-> no]]
  BY DEF Mail
<1> HIDE DEF no
<1>4. /\ [data[c] EXCEPT !.From = no] = [From |-> no, To |-> data[c].To, Message |-> data[c].Message]
      /\ [data[c] EXCEPT !.From = no] \in SessionData
  BY <1>1, <1>2, SubmissionAssumption, DataFields DEF SessionData
<1>5. [no |-> no, rcpts |-> envelope[c].rcpts, seen |-> no] \in Envelope
  BY <1>1, <1>2 DEF Envelope
<1>6. QED
  BY <1>3, <1>4, <1>5 DEF TypeOK, no

\* RCPT sets recipient and count together.
LEMMA RcptEffect ==
  ASSUME TypeOK, NEW c \in Clients, Rcpt(c)
  PROVE  LET to == envelope[c].rcpts + 1 IN
         /\ data' = [data EXCEPT ![c] =
                      [From |-> data[c].From, To |-> to, Message |-> data[c].Message]]
         /\ envelope' = [envelope EXCEPT ![c] =
                          [no |-> envelope[c].no, rcpts |-> to, seen |-> envelope[c].seen]]
         /\ data' \in [Clients -> SessionData]
         /\ envelope' \in [Clients -> Envelope]
<1> DEFINE to == envelope[c].rcpts + 1
<1>1. envelope[c] \in Envelope /\ data[c] \in SessionData
  BY DEF TypeOK
<1>2. to \in 0..MaxRcpts
  BY <1>1, SubmissionAssumption DEF Rcpt, Envelope
<1>3. /\ data' = [data EXCEPT ![c] = [data[c] EXCEPT !.To = to]]
      /\ envelope' = [envelope EXCEPT ![c] = [envelope[c] EXCEPT !.rcpts = to]]
  BY DEF Rcpt
<1> HIDE DEF to
<1>4. /\ [data[c] EXCEPT !.To = to] = [From |-> data[c].From, To |-> to, Message |-> data[c].Message]
      /\ [data[c] EXCEPT !.To = to] \in SessionData
  BY <1>1, <1>2, SubmissionAssumption, DataFields DEF SessionData
<1>5. /\ [envelope[c] EXCEPT !.rcpts = to] =
            [no |-> envelope[c].no, rcpts |-> to, seen |-> envelope[c].seen]
      /\ [envelope[c] EXCEPT !.rcpts = to] \in Envelope
  BY <1>1, <1>2, SubmissionAssumption, EnvelopeFields DEF Envelope
<1>6. QED
  BY <1>3, <1>4, <1>5 DEF TypeOK, to

\* DATA adds the message to the buffer.
LEMMA ReadFromEffect ==
  ASSUME TypeOK, NEW c \in Clients, ReadFrom(c)
  PROVE  /\ data' = [data EXCEPT ![c] =
                      [From |-> data[c].From, To |-> data[c].To,
                       Message |-> data[c].Message \cup {envelope[c].no}]]
         /\ data' \in [Clients -> SessionData]
<1> DEFINE m == data[c].Message \cup {envelope[c].no}
<1>1. envelope[c] \in Envelope /\ data[c] \in SessionData
  BY DEF TypeOK
<1>2. m \in SUBSET (1..MaxMails)
  BY <1>1, SubmissionAssumption DEF ReadFrom, Envelope, SessionData
<1>3. data' = [data EXCEPT ![c] = [data[c] EXCEPT !.Message = m]]
  BY DEF ReadFrom
<1> HIDE DEF m
<1>4. /\ [data[c] EXCEPT !.Message = m] = [From |-> data[c].From, To |-> data[c].To, Message |-> m]
      /\ [data[c] EXCEPT !.Message = m] \in SessionData
  BY <1>1, <1>2, SubmissionAssumption, DataFields DEF SessionData
<1>5. QED
  BY <1>3, <1>4 DEF TypeOK, m

\* Every method of the session keeps the types.
LEMMA SessionType ==
  ASSUME TypeOK, NEW c \in Clients, Session(c)
  PROVE  TypeOK'
<1>1. CASE Mail(c)
  <2>1. data' \in [Clients -> SessionData] /\ envelope' \in [Clients -> Envelope]
    BY <1>1, MailEffect
  <2>2. QED
    BY <2>1, <1>1 DEF Mail, TypeOK, loginVars
<1>2. CASE Rcpt(c)
  <2>1. data' \in [Clients -> SessionData] /\ envelope' \in [Clients -> Envelope]
    BY <1>2, RcptEffect
  <2>2. QED
    BY <2>1, <1>2 DEF Rcpt, TypeOK, loginVars
<1>3. CASE ReadFrom(c)
  <2>1. data' \in [Clients -> SessionData]
    BY <1>3, ReadFromEffect
  <2>2. QED
    BY <2>1, <1>3 DEF ReadFrom, TypeOK, loginVars
<1>4. CASE Data(c)
  <2>1. queued' \in [Clients -> QueuedEmail \cup {Nil}]
    BY <1>4 DEF Data, TypeOK, SessionData, Envelope, QueuedEmail
  <2>2. QED
    BY <2>1, <1>4, ResetEffect DEF Data, TypeOK, loginVars
<1>5. CASE DataFails(c) \/ ClientReset(c)
  BY <1>5, ResetEffect DEF DataFails, ClientReset, TypeOK, loginVars
<1>6. CASE Logout(c)
  BY <1>6, SubmissionAssumption
     DEF Logout, TypeOK, loginVars, Cleared, NoEnvelope, SessionData, Envelope
<1>7. QED
  BY <1>1, <1>2, <1>3, <1>4, <1>5, <1>6 DEF Session

\* Every variable keeps its type, whatever clients do and however many there
\* are (Login of auth.go, the methods of submission_session.go).
THEOREM TypeCorrect == Spec => []TypeOK
<1>1. TypeOK /\ [Next]_vars => TypeOK'
  <2>1. SUFFICES ASSUME TypeOK, [Next]_vars PROVE TypeOK'
    OBVIOUS
  <2>2. CASE \E c \in Clients : Login(c) \/ Session(c)
    BY <2>1, <2>2, LoginType, SessionType
  <2>3. CASE \E p \in Passwords : SetPassword(p)
    BY <2>1, <2>3 DEF SetPassword, TypeOK, sessionVars
  <2>4. CASE Tick
    BY <2>1, <2>4, TickType
  <2>5. CASE UNCHANGED vars
    BY <2>1, <2>5 DEF TypeOK, vars, loginVars, sessionVars
  <2>6. QED
    BY <2>1, <2>2, <2>3, <2>4, <2>5 DEF Next
<1>2. QED
  BY InitType, <1>1, PTL DEF Spec

-----------------------------------------------------------------------------
(* Submissions.                                                            *)

\* What a session knows of its transaction: sender and recipient are the
\* transaction's, and outside DATA the buffer is empty.
SessionInv ==
  \A c \in Clients :
    /\ data[c].From = envelope[c].no
    /\ data[c].To = envelope[c].rcpts
    /\ data[c].Message = IF pc[c] = "data" THEN {envelope[c].no} ELSE {}

\* Every step keeps session and transaction in agreement.
LEMMA SessionStep ==
  ASSUME TypeOK, SessionInv, SubmittedAsGiven, [Next]_vars
  PROVE  SessionInv' /\ SubmittedAsGiven'
<1>1. CASE UNCHANGED <<pc, data, envelope, queued>>
  BY <1>1 DEF SessionInv, SubmittedAsGiven
<1>2. ASSUME NEW c \in Clients, Login(c)
      PROVE  SessionInv' /\ SubmittedAsGiven'
  <2>1. UNCHANGED <<data, envelope, queued>>
    BY <1>2 DEF Login, LoginFiltered, LoginSelect, LoginFails, LookUp, LoginSet,
                vars, loginVars, sessionVars
  <2>2. \A d \in Clients : (pc'[d] = "data") = (pc[d] = "data")
    BY <1>2 DEF Login, LoginFiltered, LoginSelect, LoginFails, LookUp, LoginSet,
                vars, loginVars, TypeOK
  <2>3. QED
    BY <2>1, <2>2 DEF SessionInv, SubmittedAsGiven
<1>3. ASSUME NEW c \in Clients, Session(c)
      PROVE  SessionInv' /\ SubmittedAsGiven'
  <2> DEFINE Held(d, p, e) == /\ d.From = e.no
                             /\ d.To = e.rcpts
                             /\ d.Message = IF p = "data" THEN {e.no} ELSE {}
  <2>1. Held(data'[c], pc'[c], envelope'[c])
    <3>1. Held(data[c], pc[c], envelope[c]) /\ c \in DOMAIN data /\ c \in DOMAIN envelope
                                           /\ c \in DOMAIN pc
      BY DEF SessionInv, TypeOK
    <3>2. CASE Mail(c)
      <4>1.
        /\ data'[c] = [From |-> envelope[c].seen + 1, To |-> data[c].To, Message |-> data[c].Message]
        /\ envelope'[c] = [no |-> envelope[c].seen + 1, rcpts |-> envelope[c].rcpts,
                           seen |-> envelope[c].seen + 1]
        BY <3>1, <3>2, MailEffect DEF Mail
      <4>2. pc[c] = "open" /\ pc'[c] = "open"
        BY <3>1, <3>2 DEF Mail
      <4>3. QED
        BY <3>1, <4>1, <4>2
    <3>3. CASE Rcpt(c)
      <4>1.
        /\ data'[c] = [From |-> data[c].From, To |-> envelope[c].rcpts + 1,
                       Message |-> data[c].Message]
        /\ envelope'[c] = [no |-> envelope[c].no, rcpts |-> envelope[c].rcpts + 1,
                           seen |-> envelope[c].seen]
        BY <3>1, <3>3, RcptEffect DEF Rcpt
      <4>2. pc[c] = "open" /\ pc'[c] = "open"
        BY <3>1, <3>3 DEF Rcpt
      <4>3. QED
        BY <3>1, <4>1, <4>2
    <3>4. CASE ReadFrom(c)
      <4>1.
        /\ data'[c] = [From |-> data[c].From, To |-> data[c].To,
                       Message |-> data[c].Message \cup {envelope[c].no}]
        /\ envelope'[c] = envelope[c]
        BY <3>1, <3>4, ReadFromEffect DEF ReadFrom
      <4>2. pc[c] = "open" /\ pc'[c] = "data"
        BY <3>1, <3>4 DEF ReadFrom
      <4>3. QED
        BY <3>1, <4>1, <4>2
    <3>5. CASE Data(c) \/ DataFails(c) \/ ClientReset(c)
      <4>1. pc'[c] = "open"
        BY <3>1, <3>5 DEF Data, DataFails, ClientReset
      <4>2. Reset(c)
        BY <3>5 DEF Data, DataFails, ClientReset
      <4>3. data'[c] = Cleared /\ envelope'[c].no = 0 /\ envelope'[c].rcpts = 0
        BY <3>1, <4>2, ResetEffect
      <4>4. QED
        BY <4>1, <4>3 DEF Cleared
    <3>6. CASE Logout(c)
      BY <3>1, <3>6 DEF Logout, Cleared, NoEnvelope
    <3>7. QED
      BY <1>3, <3>2, <3>3, <3>4, <3>5, <3>6 DEF Session
  <2>2. \A d \in Clients \ {c} : /\ data'[d] = data[d] /\ envelope'[d] = envelope[d]
                               /\ pc'[d] = pc[d] /\ queued'[d] = queued[d]
    BY <1>3, MailEffect, RcptEffect, ReadFromEffect, ResetEffect
       DEF Session, Mail, Rcpt, ReadFrom, Data, DataFails, ClientReset, Logout, TypeOK
  <2>3. queued'[c] # Nil => /\ queued'[c].From = queued'[c].no
                            /\ queued'[c].To = queued'[c].rcpts
                            /\ queued'[c].Message = {queued'[c].no}
    <3>1. CASE Data(c)
      BY <3>1 DEF Data, SessionInv, TypeOK
    <3>2. CASE Logout(c)
      BY <3>2 DEF Logout, TypeOK
    <3>3. CASE UNCHANGED queued
      BY <3>3 DEF SubmittedAsGiven
    <3>4. QED
      BY <1>3, <3>1, <3>2, <3>3
         DEF Session, Mail, Rcpt, ReadFrom, DataFails, ClientReset
  <2>4. SessionInv'
    <3>1. SUFFICES ASSUME NEW d \in Clients PROVE Held(data'[d], pc'[d], envelope'[d])
      BY DEF SessionInv
    <3>2. CASE d = c
      BY <2>1, <3>2
    <3>3. CASE d # c
      BY <2>2, <3>3 DEF SessionInv
    <3>4. QED
      BY <3>2, <3>3
  <2>5. SubmittedAsGiven'
    BY <2>2, <2>3 DEF SubmittedAsGiven
  <2>6. QED
    BY <2>4, <2>5
<1>4. CASE (\E p \in Passwords : SetPassword(p)) \/ Tick \/ UNCHANGED vars
  BY <1>1, <1>4 DEF SetPassword, Tick, sessionVars, vars
<1>5. QED
  BY <1>2, <1>3, <1>4 DEF Next

\* Mail is queued as its client gave it (submission_session.go).  SessionInv is
\* the strengthening: what Data queues is what the session holds, and that is
\* the transaction's because Reset forgets all of it.
THEOREM SubmissionCorrect == Spec => []SubmittedAsGiven
<1>1. Init => SessionInv /\ SubmittedAsGiven
  BY DEF Init, SessionInv, SubmittedAsGiven, Cleared, NoEnvelope
<1>2. QED
  BY <1>1, SessionStep, TypeCorrect, PTL DEF Spec

-----------------------------------------------------------------------------
(* The login filter.                                                       *)

\* A login that holds a result read the table at most its lag ago, and the
\* cache entry is at most a TTL older than that.
FilterInv ==
  /\ \A c \in Clients : pc[c] = "login" => lookedUp <= lag[c]
  /\ login # Nil => lookedUp + login.left <= TTL + MaxLag

\* Every step keeps the bound on the filter.
LEMMA FilterStep ==
  ASSUME TypeOK, FilterInv, [Next]_vars
  PROVE  FilterInv'
<1> USE SubmissionAssumption DEF TypeOK, FilterInv, LongAgo
<1>1. ASSUME NEW c \in Clients, Login(c)
      PROVE  FilterInv'
  <2>1. CASE LoginFiltered(c)
    BY <2>1 DEF LoginFiltered, vars, loginVars
  <2>2. ASSUME NEW p \in Passwords, LoginSelect(c, p) \/ LoginFails(c, p)
        PROVE  FilterInv'
    BY <2>2 DEF LoginSelect, LoginFails, LookUp
  <2>3. CASE LoginSet(c)
    <3>1. \A d \in Clients : pc'[d] = "login" => lookedUp' <= lag'[d]
      BY <2>3 DEF LoginSet
    <3>2. login' # Nil => lookedUp' + login'.left <= TTL + MaxLag
      BY <2>3 DEF LoginSet, SetLogin
    <3>3. QED
      BY <3>1, <3>2
  <2>4. QED
    BY <1>1, <2>1, <2>2, <2>3 DEF Login
<1>2. ASSUME NEW c \in Clients, Session(c)
      PROVE  FilterInv'
  BY <1>2 DEF Session, Mail, Rcpt, ReadFrom, Data, DataFails, ClientReset, Logout, loginVars
<1>3. CASE \E p \in Passwords : SetPassword(p)
  BY <1>3 DEF SetPassword
<1>4. CASE Tick
  <2>1. lookedUp' <= lookedUp + 1
    BY <1>4 DEF Tick, Younger
  <2>2. \A d \in Clients : pc'[d] = "login" => lookedUp' <= lag'[d]
    BY <2>1, <1>4 DEF Tick, Younger
  <2>3. login' # Nil => lookedUp' + login'.left <= TTL + MaxLag
    BY <2>1, <1>4 DEF Tick, Expire, Younger
  <2>4. QED
    BY <2>2, <2>3
<1>5. CASE UNCHANGED vars
  BY <1>5 DEF vars, loginVars
<1>6. QED
  BY <1>1, <1>2, <1>3, <1>4, <1>5 DEF Next

\* The login entry goes within a TTL and a lag of the last login that read the
\* table, whatever is tried meanwhile (Login of auth.go).
THEOREM FilterCorrect == Spec => []FilterEnds
<1>1. Init => FilterInv
  BY DEF Init, FilterInv
<1>2. TypeOK /\ FilterInv => FilterEnds
  BY SubmissionAssumption DEF TypeOK, FilterInv, FilterEnds, LongAgo
<1>3. QED
  BY <1>1, <1>2, FilterStep, TypeCorrect, PTL DEF Spec
=============================================================================
