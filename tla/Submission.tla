----------------------------- MODULE Submission -----------------------------
(***************************************************************************)
(* Submission on port 587: clients of one account log in                    *)
(* (internal/smtp/auth.go), over a cache entry that they share, and submit  *)
(* mail in transactions (submission_session.go).  The steps of the          *)
(* detectDomain that MAIL begins with are module Resolver's; here it        *)
(* succeeds or fails.                                                       *)
(*                                                                         *)
(* A password is taken not to be anybody's email address, for which the     *)
(* lookup under "login:<password>" could hit.  Go-smtp (external) keeps the  *)
(* transaction and calls Reset after every DATA.                            *)
(***************************************************************************)
EXTENDS Naturals, FiniteSets

CONSTANTS
  Clients,
  Passwords,
  Nil,
  TTL,          \* DefaultCacheTTL in ticks
  MaxLag,       \* ticks between a SELECT and the Set of its result, at most
  MaxMails,     \* bound: MAIL commands of a session
  MaxRcpts      \* bound: RCPT commands of a transaction

ASSUME SubmissionAssumption ==
  /\ TTL \in Nat \ {0} /\ MaxLag \in Nat
  /\ MaxMails \in Nat /\ MaxRcpts \in Nat
  /\ Nil \notin Passwords
  /\ "bad" \notin Passwords \cup {Nil}

VARIABLES
  smtpPassword, \* accounts.smtp_password, Nil until the account sets one
  login,        \* the cache entry "login:<email>": [value, left] or Nil
  lookedUp,     \* history: ticks since a login last read the table, or LongAgo
  pc,           \* [Clients -> "closed", "login", "open" or "data"]
  offered,      \* [Clients -> password of the login in progress, or Nil]
  held,         \* [Clients -> what its SELECT returned, "bad" for an error]
  lag,          \* [Clients -> ticks since that SELECT]
  data,         \* [Clients -> SessionData]
  envelope,     \* [Clients -> go-smtp's transaction]
  queued        \* [Clients -> the email it queued last, with its envelope, or Nil]

loginVars == <<smtpPassword, login, lookedUp, offered, held, lag>>
sessionVars == <<data, envelope, queued>>
vars == <<pc, loginVars, sessionVars>>

LongAgo == TTL + MaxLag + 1

\* From is the MAIL of the session that set it (and Domain with it), To the
\* RCPT since the last Reset, Message the MAILs whose content the buffer holds.
SessionData == [From : 0..MaxMails, To : 0..MaxRcpts, Message : SUBSET (1..MaxMails)]

\* The MAIL and the RCPTs that the transaction has accepted, and the MAILs the
\* session has seen.
Envelope == [no : 0..MaxMails, rcpts : 0..MaxRcpts, seen : 0..MaxMails]

Cleared == [From |-> 0, To |-> 0, Message |-> {}]
NoEnvelope == [no |-> 0, rcpts |-> 0, seen |-> 0]

Init ==
  /\ smtpPassword = Nil
  /\ login = Nil
  /\ lookedUp = LongAgo
  /\ pc = [c \in Clients |-> "closed"]
  /\ offered = [c \in Clients |-> Nil]
  /\ held = [c \in Clients |-> Nil]
  /\ lag = [c \in Clients |-> 0]
  /\ data = [c \in Clients |-> Cleared]
  /\ envelope = [c \in Clients |-> NoEnvelope]
  /\ queued = [c \in Clients |-> Nil]

-----------------------------------------------------------------------------
(* Login.                                                                  *)

\* The control panel's security page.
SetPassword(p) ==
  /\ smtpPassword # p
  /\ smtpPassword' = p
  /\ UNCHANGED <<pc, login, lookedUp, offered, held, lag, sessionVars>>

\* Cache.Set, which ristretto may ignore.
SetLogin(v) == login' \in {login, [value |-> v, left |-> TTL]}

\* Mutant of LoginFiltered: a filtered login sets the entry again.
LoginFilteredSlides(c) ==
  /\ pc[c] = "closed"
  /\ login # Nil
  /\ login' = [login EXCEPT !.left = TTL]
  /\ UNCHANGED <<pc, smtpPassword, lookedUp, offered, held, lag, sessionVars>>

\* "filter out bad user/pass": refused without a look at the password.
LoginFiltered(c) ==
  /\ pc[c] = "closed"
  /\ login # Nil
  /\ UNCHANGED vars

\* The lookup of smtp_password found v; the cache may always miss.  The second
\* Get asks for the password under keys that are emails: its hit, for a client
\* whose password is another account's email, is left out.
LookUp(c, p, v) ==
  /\ pc[c] = "closed"
  /\ pc' = [pc EXCEPT ![c] = "login"]
  /\ offered' = [offered EXCEPT ![c] = p]
  /\ held' = [held EXCEPT ![c] = v]
  /\ lookedUp' = 0
  /\ UNCHANGED <<smtpPassword, login, lag, sessionVars>>

LoginSelect(c, p) == LookUp(c, p, smtpPassword)

LoginFails(c, p) == LookUp(c, p, "bad")

\* An error is cached; so is the hash that was found, under the same key,
\* before it is compared; an account without a password is refused and nothing
\* cached.
LoginSet(c) ==
  LET good == held[c] \notin {Nil, "bad"} /\ held[c] = offered[c] IN
  /\ pc[c] = "login"
  /\ IF held[c] = Nil THEN UNCHANGED login ELSE SetLogin(held[c])
  /\ pc' = [pc EXCEPT ![c] = IF good THEN "open" ELSE "closed"]
  /\ offered' = [offered EXCEPT ![c] = Nil]
  /\ held' = [held EXCEPT ![c] = Nil]
  /\ lag' = [lag EXCEPT ![c] = 0]
  /\ UNCHANGED <<smtpPassword, lookedUp, sessionVars>>

Login(c) ==
  \/ LoginFiltered(c)
  \/ \E p \in Passwords : LoginSelect(c, p) \/ LoginFails(c, p)
  \/ LoginSet(c)

Younger(n) == IF n < LongAgo THEN n + 1 ELSE n

\* An entry set between two ticks expires between the two that are TTL later.
Expire(e) == IF e # Nil /\ e.left > 0 THEN [e EXCEPT !.left = @ - 1] ELSE Nil

\* No login rests longer than MaxLag between its SELECT and its Set.
Tick ==
  /\ \A c \in Clients : pc[c] = "login" => lag[c] < MaxLag
  /\ login' = Expire(login)
  /\ lookedUp' = Younger(lookedUp)
  /\ lag' = [c \in Clients |-> IF pc[c] = "login" THEN lag[c] + 1 ELSE 0]
  /\ UNCHANGED <<pc, smtpPassword, offered, held, sessionVars>>

-----------------------------------------------------------------------------
(* SubmissionSession.                                                      *)

\* Mutant of Reset: the message stays in the buffer.
ResetKeepsMessage(c) ==
  /\ data' = [data EXCEPT ![c].From = 0, ![c].To = 0]
  /\ envelope' = [envelope EXCEPT ![c] = [no |-> 0, rcpts |-> 0, seen |-> @.seen]]

\* SubmissionSession.Reset and go-smtp's Conn.reset.
Reset(c) ==
  /\ data' = [data EXCEPT ![c] = Cleared]
  /\ envelope' = [envelope EXCEPT ![c] = [no |-> 0, rcpts |-> 0, seen |-> @.seen]]

\* The sender's domain is one of ours; whose it is, is not asked.  A MAIL that
\* detectDomain refuses changes nothing.
Mail(c) ==
  LET no == envelope[c].seen + 1 IN
  /\ pc[c] = "open"
  /\ no <= MaxMails
  /\ data' = [data EXCEPT ![c].From = no]
  /\ envelope' = [envelope EXCEPT ![c] = [no |-> no, rcpts |-> @.rcpts, seen |-> no]]
  /\ UNCHANGED <<pc, loginVars, queued>>

Rcpt(c) ==
  /\ pc[c] = "open"
  /\ envelope[c].no > 0
  /\ envelope[c].rcpts < MaxRcpts
  /\ data' = [data EXCEPT ![c].To = envelope[c].rcpts + 1]
  /\ envelope' = [envelope EXCEPT ![c].rcpts = @ + 1]
  /\ UNCHANGED <<pc, loginVars, queued>>

\* DATA reads the message, or part of it, into the buffer.
ReadFrom(c) ==
  /\ pc[c] = "open"
  /\ envelope[c].no > 0 /\ envelope[c].rcpts > 0
  /\ pc' = [pc EXCEPT ![c] = "data"]
  /\ data' = [data EXCEPT ![c].Message = @ \cup {envelope[c].no}]
  /\ UNCHANGED <<loginVars, envelope, queued>>

\* The message is signed and queued, then all is reset.
Data(c) ==
  /\ pc[c] = "data"
  /\ pc' = [pc EXCEPT ![c] = "open"]
  /\ queued' = [queued EXCEPT ![c] =
       [From |-> data[c].From, To |-> data[c].To, Message |-> data[c].Message,
        no |-> envelope[c].no, rcpts |-> envelope[c].rcpts]]
  /\ Reset(c)
  /\ UNCHANGED loginVars

\* Reading, signing or queueing fails, and all is reset.
DataFails(c) ==
  /\ pc[c] = "data"
  /\ pc' = [pc EXCEPT ![c] = "open"]
  /\ Reset(c)
  /\ UNCHANGED <<loginVars, queued>>

\* RSET.
ClientReset(c) ==
  /\ pc[c] = "open"
  /\ envelope[c].no > 0
  /\ Reset(c)
  /\ UNCHANGED <<pc, loginVars, queued>>

\* The session is gone; the next login makes a new one.
Logout(c) ==
  /\ pc[c] = "open"
  /\ pc' = [pc EXCEPT ![c] = "closed"]
  /\ data' = [data EXCEPT ![c] = Cleared]
  /\ envelope' = [envelope EXCEPT ![c] = NoEnvelope]
  /\ queued' = [queued EXCEPT ![c] = Nil]
  /\ UNCHANGED loginVars

Session(c) ==
  Mail(c) \/ Rcpt(c) \/ ReadFrom(c) \/ Data(c) \/ DataFails(c) \/ ClientReset(c) \/ Logout(c)

-----------------------------------------------------------------------------
Next ==
  \/ \E c \in Clients : Login(c) \/ Session(c)
  \/ \E p \in Passwords : SetPassword(p)
  \/ Tick

Spec == Init /\ [][Next]_vars

-----------------------------------------------------------------------------
(* Properties.                                                             *)

QueuedEmail == [From : 0..MaxMails, To : 0..MaxRcpts, Message : SUBSET (1..MaxMails),
                no : 0..MaxMails, rcpts : 0..MaxRcpts]

\* Every variable has its type.
TypeOK ==
  /\ smtpPassword \in Passwords \cup {Nil}
  /\ login \in [value : Passwords \cup {"bad"}, left : 0..TTL] \cup {Nil}
  /\ lookedUp \in 0..LongAgo
  /\ pc \in [Clients -> {"closed", "login", "open", "data"}]
  /\ offered \in [Clients -> Passwords \cup {Nil}]
  /\ held \in [Clients -> Passwords \cup {"bad", Nil}]
  /\ lag \in [Clients -> 0..MaxLag]
  /\ data \in [Clients -> SessionData]
  /\ envelope \in [Clients -> Envelope]
  /\ queued \in [Clients -> QueuedEmail \cup {Nil}]

\* A submission is queued as its client gave it, whatever transactions of the
\* session came before it, were refused, failed or were reset: its sender and
\* domain are those of its own MAIL, its recipient the last one named, and its
\* content only its own (Mail, Rcpt, Data and Reset of submission_session.go,
\* which share one SessionData for the connection's life).
SubmittedAsGiven ==
  \A c \in Clients : queued[c] # Nil =>
    /\ queued[c].From = queued[c].no
    /\ queued[c].To = queued[c].rcpts
    /\ queued[c].Message = {queued[c].no}

\* Whatever "login:<email>" holds, good or bad, goes within a TTL and a lag of
\* the last login that read the table: logins that are filtered out, of any
\* client, do not prolong the filter, so that retries cannot shut an account
\* out for good (Login of internal/smtp/auth.go).
FilterEnds == login # Nil => lookedUp <= TTL + MaxLag
=============================================================================
