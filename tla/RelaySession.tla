---------------------------- MODULE RelaySession ----------------------------
(***************************************************************************)
(* smtpd's inbound side: a RelaySession per SMTP connection                *)
(* (internal/smtp/relay_session.go), the relay loop that forwards an       *)
(* accepted message to every destination of the alias it was sent to       *)
(* (relay.go), and the return paths that bring a later bounce back to the  *)
(* original sender (returnpath.go).                                        *)
(*                                                                         *)
(* Connections run concurrently and share the return_paths table and the   *)
(* emails.straw queue.  The commands of one connection are serial: the     *)
(* go-smtp library (external, v0.13.0) calls the session's methods.  The   *)
(* relay loop publishes one email per destination, so other connections    *)
(* and a crash can come between two of them.                               *)
(***************************************************************************)
EXTENDS Naturals, Sequences, FiniteSets

CONSTANTS
  Conns,          \* SMTP connections that can be open at once
  UUIDs,          \* the ids uuid.NewRandom can return; each at most once
  Senders,        \* addresses outside mxax, as envelope or header sender
  Domains,        \* live, verified domains
  Aliases,        \* live alias rules
  Destinations,   \* live destinations
  DomainOf,       \* [Aliases -> Domains]
  Links,          \* [Aliases -> SUBSET Destinations], alias_destinations
  CatchAll,       \* [Domains -> Aliases or Nil], a rule that matches anything
  Nil,            \* the zero value of a field; as a sender, MAIL FROM:<>
  Faults,         \* whether PostgreSQL may fail a lookup
  MaxCommands,    \* bound: accepted MAIL and RCPT commands in a behaviour
  MaxRcpts        \* bound: accepted RCPT commands in one envelope

ASSUME NilAssumption ==
  Nil \notin UUIDs \cup Senders \cup Domains \cup Aliases \cup Destinations
ASSUME DirectoryAssumption ==
  /\ DomainOf \in [Aliases -> Domains]
  /\ Links \in [Aliases -> SUBSET Destinations]
  /\ CatchAll \in [Domains -> Aliases \cup {Nil}]
ASSUME BoundsAssumption ==
  MaxCommands \in Nat /\ MaxRcpts \in Nat /\ Faults \in BOOLEAN

-----------------------------------------------------------------------------
(* Addresses.  A recipient address is abstracted to what the three         *)
(* detectors find in it: its domain (Nil: not ours), the uuid behind the   *)
(* "=" of its local part (Nil: none) and the alias rule it matches.        *)

Address == [domain : Domains \cup {Nil}, path : UUIDs \cup {Nil},
            alias : Aliases \cup {Nil}]

AliasAddress(a) == [domain |-> DomainOf[a], path |-> Nil, alias |-> a]

\* local=uuid@domain: only a catch-all rule can match it as an alias.
ReturnPathAddress(id, d) == [domain |-> d, path |-> id, alias |-> CatchAll[d]]

\* A recipient of one of our domains that no rule names.
StrayAddress(d) == [domain |-> d, path |-> Nil, alias |-> CatchAll[d]]

ForeignAddress == [domain |-> Nil, path |-> Nil, alias |-> Nil]

\* Every recipient a client can name.
Recipients == {AliasAddress(a) : a \in Aliases}
         \cup {ReturnPathAddress(id, d) : id \in UUIDs, d \in Domains}
         \cup {StrayAddress(d) : d \in Domains}
         \cup {ForeignAddress}

-----------------------------------------------------------------------------
VARIABLES
  phase,        \* [Conns -> {"closed", "command", "relay"}]
  data,         \* [Conns -> SessionData]
  envelope,     \* [Conns -> Envelope]: go-smtp's transaction, with history
  todo,         \* [Conns -> SUBSET Destinations]: rest of the relay loop
  issued,       \* ids uuid.NewRandom has returned
  returnPaths,  \* the return_paths table: [UUIDs -> row or Nil]
  returned,     \* ids whose returned_at is set
  published,    \* emails handed to the emails.straw publisher, with envelope
  rejects,      \* reject log entries published
  accepted,     \* history: envelopes whose DATA was answered 250
  serial        \* history: accepted MAIL and RCPT commands; its value at a MAIL
                \* numbers the envelope

vars == <<phase, data, envelope, todo, issued, returnPaths, returned,
          published, rejects, accepted, serial>>

\* What a RCPT was resolved to: the recipient, and the sender its return
\* path led to (Nil when it was taken for an alias).
Recipient == [to : Address, home : Senders \cup {Nil}]

Envelope == [open : BOOLEAN, no : Nat, from : Senders \cup {Nil},
             rcpts : Seq(Recipient)]

\* Message is the set of envelopes whose content the buffer holds.
SessionData ==
  [ID : UUIDs \cup {Nil}, From : Senders \cup {Nil},
   Via : Address \cup {Nil}, To : Address \cup Senders \cup {Nil},
   Domain : Domains \cup {Nil}, Alias : Aliases \cup {Nil},
   Message : SUBSET Nat, returnPath : BOOLEAN]

Row == [to : Senders \cup {Nil}, alias : Aliases \cup {Nil}]

ASSUME RowAssumption == Nil \notin Row

Email ==
  [ID : UUIDs \cup {Nil}, ReturnPath : Address \cup {Nil},
   From : Senders \cup {Nil}, Via : Address \cup Senders \cup {Nil},
   To : Address \cup Senders \cup Destinations \cup {Nil},
   Domain : Domains \cup {Nil}, Alias : Aliases \cup {Nil},
   Message : SUBSET Nat, Bounce : BOOLEAN, env : Envelope]

Reject == [ID : UUIDs \cup {Nil}, Domain : Domains \cup {Nil}]

NoData == [ID |-> Nil, From |-> Nil, Via |-> Nil, To |-> Nil, Domain |-> Nil,
           Alias |-> Nil, Message |-> {}, returnPath |-> FALSE]

NoEnvelope == [open |-> FALSE, no |-> 0, from |-> Nil, rcpts |-> <<>>]

Init ==
  /\ phase = [c \in Conns |-> "closed"]
  /\ data = [c \in Conns |-> NoData]
  /\ envelope = [c \in Conns |-> NoEnvelope]
  /\ todo = [c \in Conns |-> {}]
  /\ issued = {}
  /\ returnPaths = [id \in UUIDs |-> Nil]
  /\ returned = {}
  /\ published = {}
  /\ rejects = {}
  /\ accepted = {}
  /\ serial = 0

-----------------------------------------------------------------------------
(* RelaySession.Reset.  ID and Via keep their values.                      *)

\* Mutant of Cleared: the returnPath flag survives a Reset.
ClearedKeepsFlag(s) ==
  [s EXCEPT !.From = Nil, !.To = Nil, !.Message = {}, !.Alias = Nil, !.Domain = Nil]

Cleared(s) ==
  [s EXCEPT !.From = Nil, !.To = Nil, !.Message = {}, !.Alias = Nil,
            !.Domain = Nil, !.returnPath = FALSE]

\* go-smtp's Conn.reset: the session is reset, the transaction forgotten.
Reset(c) ==
  /\ data' = [data EXCEPT ![c] = Cleared(@)]
  /\ envelope' = [envelope EXCEPT ![c] = NoEnvelope]

-----------------------------------------------------------------------------
(* Connections.                                                            *)

\* A session gets its id when the connection's first MAIL creates it; the
\* id then stays for every message of the connection.
newRelaySession(c) ==
  /\ phase[c] = "closed"
  /\ \E id \in UUIDs \ issued :
       /\ issued' = issued \cup {id}
       /\ data' = [data EXCEPT ![c] = [NoData EXCEPT !.ID = id]]
  /\ phase' = [phase EXCEPT ![c] = "command"]
  /\ UNCHANGED <<envelope, todo, returnPaths, returned, published, rejects,
                 accepted, serial>>

\* QUIT, a dropped connection, or STARTTLS: the session is forgotten.
Logout(c) ==
  /\ phase[c] = "command"
  /\ phase' = [phase EXCEPT ![c] = "closed"]
  /\ data' = [data EXCEPT ![c] = NoData]
  /\ envelope' = [envelope EXCEPT ![c] = NoEnvelope]
  /\ UNCHANGED <<todo, issued, returnPaths, returned, published, rejects,
                 accepted, serial>>

\* smtpd dies; the table and the queue outlive it.
Crash ==
  /\ phase' = [c \in Conns |-> "closed"]
  /\ data' = [c \in Conns |-> NoData]
  /\ envelope' = [c \in Conns |-> NoEnvelope]
  /\ todo' = [c \in Conns |-> {}]
  /\ UNCHANGED <<issued, returnPaths, returned, published, rejects, accepted,
                 serial>>

Rset(c) ==
  /\ phase[c] = "command"
  /\ Reset(c)
  /\ UNCHANGED <<phase, todo, issued, returnPaths, returned, published,
                 rejects, accepted, serial>>

-----------------------------------------------------------------------------
(* MAIL.                                                                   *)

\* SPF fails: the reject is published before any recipient is known, so the
\* entry names no account and no domain; the session is left as it was.
MailRefused(c) ==
  /\ phase[c] = "command"
  /\ rejects' = rejects \cup {[ID |-> data[c].ID, Domain |-> Nil]}
  /\ UNCHANGED <<phase, data, envelope, todo, issued, returnPaths, returned,
                 published, accepted, serial>>

\* go-smtp does not refuse a second MAIL: the recipients named so far stay.
Mail(c, from) ==
  /\ phase[c] = "command"
  /\ serial < MaxCommands
  /\ serial' = serial + 1
  /\ data' = [data EXCEPT ![c].From = from]
  /\ envelope' = [envelope EXCEPT ![c] =
       [open |-> TRUE, no |-> serial + 1, from |-> from, rcpts |-> @.rcpts]]
  /\ UNCHANGED <<phase, todo, issued, returnPaths, returned, published,
                 rejects, accepted>>

-----------------------------------------------------------------------------
(* RCPT.  detectDomain, then detectReturnPath, then detectAlias.  A        *)
(* recipient that detectDomain refuses changes nothing.                    *)

\* The recipient is the return path of a message with a sender to go to.
IsReturnPath(to) ==
  /\ to.path # Nil
  /\ returnPaths[to.path] # Nil
  /\ returnPaths[to.path].to # Nil

RcptOpen(c, to) ==
  /\ phase[c] = "command"
  /\ envelope[c].open
  /\ Len(envelope[c].rcpts) < MaxRcpts
  /\ serial < MaxCommands
  /\ to.domain # Nil

AddRcpt(c, to, home) ==
  /\ envelope' = [envelope EXCEPT ![c].rcpts = Append(@, [to |-> to, home |-> home])]
  /\ serial' = serial + 1

\* The return path is used: returned_at is set here, before any DATA, and
\* the session takes over the id of the message that comes back.
RcptReturnPath(c, to) ==
  /\ RcptOpen(c, to)
  /\ IsReturnPath(to)
  /\ LET home == returnPaths[to.path].to IN
       /\ returned' = returned \cup {to.path}
       /\ data' = [data EXCEPT ![c] =
            [@ EXCEPT !.Via = to, !.To = home, !.returnPath = TRUE,
                      !.ID = to.path, !.Domain = to.domain]]
       /\ AddRcpt(c, to, home)
  /\ UNCHANGED <<phase, todo, issued, returnPaths, published, rejects,
                 accepted>>

\* No return path, or detectReturnPath failed, which is only logged.
\* Mutant of RcptAlias: ID is assigned detectReturnPath's result, found or not.
RcptAliasTakesID(c, to) ==
  /\ RcptOpen(c, to)
  /\ ~IsReturnPath(to) \/ Faults
  /\ to.alias # Nil
  /\ data' = [data EXCEPT ![c] =
       [@ EXCEPT !.Alias = to.alias, !.Domain = to.domain, !.To = to, !.ID = Nil]]
  /\ AddRcpt(c, to, Nil)
  /\ UNCHANGED <<phase, todo, issued, returnPaths, returned, published,
                 rejects, accepted>>

RcptAlias(c, to) ==
  /\ RcptOpen(c, to)
  /\ ~IsReturnPath(to) \/ Faults
  /\ to.alias # Nil
  /\ data' = [data EXCEPT ![c] =
       [@ EXCEPT !.Alias = to.alias, !.Domain = to.domain, !.To = to]]
  /\ AddRcpt(c, to, Nil)
  /\ UNCHANGED <<phase, todo, issued, returnPaths, returned, published,
                 rejects, accepted>>

\* detectAlias found no rule or failed: 550, and a reject log entry without
\* the session's id.
RcptRefused(c, to) ==
  /\ RcptOpen(c, to)
  /\ ~IsReturnPath(to) \/ Faults
  /\ to.alias = Nil \/ Faults
  /\ rejects' = rejects \cup {[ID |-> Nil, Domain |-> to.domain]}
  /\ UNCHANGED <<phase, data, envelope, todo, issued, returnPaths, returned,
                 published, accepted, serial>>

-----------------------------------------------------------------------------
(* DATA.  Whatever Data answers, go-smtp resets the session afterwards.    *)

DataOpen(c) ==
  /\ phase[c] = "command"
  /\ envelope[c].open
  /\ envelope[c].rcpts # <<>>

\* data[c].Message after ReadFrom appended this envelope's content.
Read(c) == data[c].Message \cup {envelope[c].no}

\* Data fails before it stores or publishes anything: the message cannot be
\* read, spamc fails or says spam, getRDNS fails, or the INSERT of the return
\* path fails (a second message of one session: the id is taken).
DataRefused(c) ==
  /\ DataOpen(c)
  /\ Reset(c)
  /\ UNCHANGED <<phase, todo, issued, returnPaths, returned, published,
                 rejects, accepted, serial>>

\* A bounce is queued for the original sender as it is, without a return
\* path of its own.
DataReturned(c) ==
  /\ DataOpen(c)
  /\ data[c].returnPath
  /\ published' = published \cup
       {[ID |-> data[c].ID, ReturnPath |-> Nil, From |-> data[c].From,
         Via |-> data[c].Via, To |-> data[c].To, Domain |-> data[c].Domain,
         Alias |-> data[c].Alias, Message |-> Read(c), Bounce |-> TRUE,
         env |-> envelope[c]]}
  /\ accepted' = accepted \cup {envelope[c]}
  /\ Reset(c)
  /\ UNCHANGED <<phase, todo, issued, returnPaths, returned, rejects, serial>>

\* makeReturnPath: INSERT under the session's id, which must be free.
\* Mutant of makeReturnPath: an INSERT ... ON CONFLICT DO NOTHING.
makeReturnPathIgnoringConflict(c) ==
  returnPaths' = [returnPaths EXCEPT ![data[c].ID] =
    IF @ = Nil THEN [to |-> data[c].From, alias |-> data[c].Alias] ELSE @]

makeReturnPath(c) ==
  /\ returnPaths[data[c].ID] = Nil
  /\ returnPaths' = [returnPaths EXCEPT ![data[c].ID] =
                       [to |-> data[c].From, alias |-> data[c].Alias]]

\* relay up to the loop: the return path is stored with the envelope sender,
\* then the session's From becomes the From header's author.
\* Mutant of relay: From is rewritten before the return path is stored.
relayRewritesFirst(c, author) ==
  /\ DataOpen(c)
  /\ ~data[c].returnPath
  /\ returnPaths[data[c].ID] = Nil
  /\ returnPaths' = [returnPaths EXCEPT ![data[c].ID] =
                       [to |-> author, alias |-> data[c].Alias]]
  /\ Links[data[c].Alias] # {}
  /\ todo' = [todo EXCEPT ![c] = Links[data[c].Alias]]
  /\ data' = [data EXCEPT ![c] = [@ EXCEPT !.From = author, !.Message = Read(c)]]
  /\ phase' = [phase EXCEPT ![c] = "relay"]
  /\ UNCHANGED <<envelope, issued, returned, published, rejects, accepted, serial>>

relay(c, author) ==
  /\ DataOpen(c)
  /\ ~data[c].returnPath
  /\ makeReturnPath(c)
  /\ Links[data[c].Alias] # {}
  /\ todo' = [todo EXCEPT ![c] = Links[data[c].Alias]]
  /\ data' = [data EXCEPT ![c] = [@ EXCEPT !.From = author, !.Message = Read(c)]]
  /\ phase' = [phase EXCEPT ![c] = "relay"]
  /\ UNCHANGED <<envelope, issued, returned, published, rejects, accepted, serial>>

\* getDestinations fails or finds none, or the message has no usable From
\* header: the row just inserted stays.
RelayAborted(c) ==
  /\ DataOpen(c)
  /\ ~data[c].returnPath
  /\ makeReturnPath(c)
  /\ Reset(c)
  /\ UNCHANGED <<phase, todo, issued, returned, published, rejects, accepted,
                 serial>>

\* One turn of the loop: sign and publish for destination d.
QueueNext(c, d) ==
  /\ phase[c] = "relay"
  /\ d \in todo[c]
  /\ published' = published \cup
       {[ID |-> data[c].ID,
         ReturnPath |-> ReturnPathAddress(data[c].ID, data[c].Domain),
         From |-> data[c].From, Via |-> data[c].To, To |-> d,
         Domain |-> data[c].Domain, Alias |-> data[c].Alias,
         Message |-> data[c].Message, Bounce |-> FALSE, env |-> envelope[c]]}
  /\ todo' = [todo EXCEPT ![c] = @ \ {d}]
  /\ UNCHANGED <<phase, data, envelope, issued, returnPaths, returned,
                 rejects, accepted, serial>>

\* The loop is done: 250, and the session is reset.
\* Mutant of RelayDone: 250 is answered after the first destination.
RelayDoneEarly(c) ==
  /\ phase[c] = "relay"
  /\ accepted' = accepted \cup {envelope[c]}
  /\ phase' = [phase EXCEPT ![c] = "command"]
  /\ todo' = [todo EXCEPT ![c] = {}]
  /\ Reset(c)
  /\ UNCHANGED <<issued, returnPaths, returned, published, rejects, serial>>

RelayDone(c) ==
  /\ phase[c] = "relay"
  /\ todo[c] = {}
  /\ accepted' = accepted \cup {envelope[c]}
  /\ phase' = [phase EXCEPT ![c] = "command"]
  /\ Reset(c)
  /\ UNCHANGED <<todo, issued, returnPaths, returned, published, rejects, serial>>

\* Signing or publishing fails: an error is answered, what was published
\* before stays in the queue.
RelayFailed(c) ==
  /\ phase[c] = "relay"
  /\ todo[c] # {}
  /\ todo' = [todo EXCEPT ![c] = {}]
  /\ phase' = [phase EXCEPT ![c] = "command"]
  /\ Reset(c)
  /\ UNCHANGED <<issued, returnPaths, returned, published, rejects, accepted,
                 serial>>

-----------------------------------------------------------------------------
Command(c) ==
  \/ newRelaySession(c)
  \/ Logout(c)
  \/ Rset(c)
  \/ MailRefused(c)
  \/ \E from \in Senders \cup {Nil} : Mail(c, from)
  \/ \E to \in Recipients :
       RcptReturnPath(c, to) \/ RcptAlias(c, to) \/ RcptRefused(c, to)

Data(c) ==
  \/ DataRefused(c)
  \/ DataReturned(c)
  \/ \E author \in Senders : relay(c, author)
  \/ RelayAborted(c)
  \/ \E d \in Destinations : QueueNext(c, d)
  \/ RelayDone(c)
  \/ RelayFailed(c)

Next == Crash \/ \E c \in Conns : Command(c) \/ Data(c)

Spec == Init /\ [][Next]_vars

-----------------------------------------------------------------------------
(* Properties.                                                             *)

\* Every variable has its type, an open session has an id that was issued,
\* and the loop has work only while relay runs (SessionData, session.go).
TypeOK ==
  /\ phase \in [Conns -> {"closed", "command", "relay"}]
  /\ data \in [Conns -> SessionData]
  /\ envelope \in [Conns -> Envelope]
  /\ todo \in [Conns -> SUBSET Destinations]
  /\ issued \subseteq UUIDs
  /\ returnPaths \in [UUIDs -> Row \cup {Nil}]
  /\ returned \subseteq UUIDs
  /\ published \subseteq Email
  /\ rejects \subseteq Reject
  /\ accepted \subseteq Envelope
  /\ serial \in Nat
  /\ \A c \in Conns : phase[c] # "closed" => data[c].ID \in issued
  /\ \A c \in Conns : todo[c] # {} => phase[c] = "relay"

LastRcpt(e) == e.rcpts[Len(e.rcpts)]

NoReturnPath(e) == \A i \in DOMAIN e.rcpts : e.rcpts[i].home = Nil

\* The return path a forwarded email carries leads to the sender of the very
\* envelope it was forwarded from, and to the alias it came through: relay
\* stores the row before it rewrites session.From, and no later session that
\* carries the same id (relay_session.go:127) can change it.
BouncePathHome ==
  \A p \in published :
    ~p.Bounce => returnPaths[p.ID] = [to |-> p.env.from, alias |-> p.Alias]

\* A session keeps its id for the whole connection, and a bounce even passes
\* it to another session; still no two messages are forwarded under one id
\* (a bounce could not tell which of them it answers): the INSERT of
\* makeReturnPath refuses the second.
OneEnvelopePerID ==
  \A p, q \in published :
    ~p.Bounce /\ ~q.Bounce /\ p.ID = q.ID => p.env = q.env

\* Nothing of one envelope leaks into another one of the connection, although
\* Reset keeps ID and Via and a buffer that is appended to is reused: content,
\* recipient, domain, alias and id of a queued email all come from the
\* envelope it was accepted with.
EnvelopeIsolation ==
  \A p \in published :
    LET rcpts == p.env.rcpts IN
      /\ p.Message = {p.env.no}
      /\ p.Domain = LastRcpt(p.env).to.domain
      /\ \E i \in DOMAIN rcpts : p.Via = rcpts[i].to
      /\ \/ p.Alias = Nil
         \/ \E i \in DOMAIN rcpts : rcpts[i].home = Nil /\ p.Alias = rcpts[i].to.alias
      /\ p.Bounce => /\ p.From = p.env.from
                     /\ \E i \in DOMAIN rcpts :
                          rcpts[i].home # Nil /\ p.ID = rcpts[i].to.path

\* What 250 to DATA promises, for each of the three kinds of envelope.  Of
\* aliases only: the email is queued for every destination of the last one.
\* The last recipient is a return path: a bounce is queued for the sender it
\* leads to.  An alias that follows a return path: the flag that the return path
\* set stays (relay_session.go:125), so Data queues a bounce addressed to the
\* alias itself, and its destinations are promised nothing.
AcceptedIsQueued ==
  \A e \in accepted :
    LET last == LastRcpt(e) IN
    /\ NoReturnPath(e) =>
         \A d \in Links[last.to.alias] :
           \E p \in published : p.env = e /\ p.To = d /\ p.Via = last.to
    /\ last.home # Nil =>
         \E p \in published : p.env = e /\ p.Bounce /\ p.To = last.home
    /\ ~NoReturnPath(e) /\ last.home = Nil =>
         \E p \in published : p.env = e /\ p.Bounce /\ p.To = last.to

\* "When an email addressed to your Domain arrives, we check it against your
\* Alias Rules to see if and where we should forward them" (add_alias.html:11):
\* an accepted message is queued for every destination of every recipient that
\* was answered 250.  Rcpt overwrites Alias, Domain and To (relay_session.go:151,
\* 154-155), so only the last recipient is served.
EveryRecipientForwarded ==
  \A e \in accepted : \A i \in DOMAIN e.rcpts :
    e.rcpts[i].home = Nil =>
      \A d \in Links[e.rcpts[i].to.alias] :
        \E p \in published : p.env = e /\ p.To = d
=============================================================================
