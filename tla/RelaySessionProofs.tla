------------------------- MODULE RelaySessionProofs -------------------------
(***************************************************************************)
(* Proofs about RelaySession, for any connections, ids, senders and         *)
(* directory.                                                              *)
(***************************************************************************)
EXTENDS RelaySession, TLAPS

\* What an open session and its transaction have in common: only ids that
\* were issued have a return path, a closed connection has no transaction, the
\* recipients named so far have left a domain and, unless one of them is a
\* return path, an alias behind, and From is the transaction's sender until
\* relay rewrites it.
SessionInv ==
  /\ \A id \in UUIDs : returnPaths[id] # Nil => id \in issued
  /\ \A c \in Conns : phase[c] = "closed" => envelope[c] = NoEnvelope
  /\ \A c \in Conns : envelope[c].rcpts # <<>> =>
       data[c].Domain \in Domains /\ (data[c].returnPath \/ data[c].Alias \in Aliases)
  /\ \A c \in Conns : phase[c] = "command" /\ envelope[c].open =>
       data[c].From = envelope[c].from

\* The row that a running relay loop's emails point to is the one relay stored.
RelayInv ==
  \A c \in Conns : phase[c] = "relay" =>
    /\ envelope[c].rcpts # <<>>
    /\ returnPaths[data[c].ID] = [to |-> envelope[c].from, alias |-> data[c].Alias]

\* No two loops run under one id, and what was already forwarded under the id
\* of a running loop is of the same envelope.
LoopInv ==
  /\ \A c, d \in Conns :
       phase[c] = "relay" /\ phase[d] = "relay" /\ data[c].ID = data[d].ID => c = d
  /\ \A p \in published, c \in Conns :
       ~p.Bounce /\ phase[c] = "relay" /\ p.ID = data[c].ID => p.env = envelope[c]

-----------------------------------------------------------------------------
(* Types.                                                                  *)

\* A recipient is an address.
LEMMA RecipientType ==
  ASSUME NEW to \in Recipients
  PROVE  /\ to \in Address
         /\ to.path \in UUIDs \cup {Nil}
         /\ to.domain \in Domains \cup {Nil}
         /\ to.alias \in Aliases \cup {Nil}
BY DirectoryAssumption DEF Recipients, Address, AliasAddress, ReturnPathAddress,
   StrayAddress, ForeignAddress

\* The return path made for one of our domains is an address.
LEMMA ReturnPathType ==
  ASSUME NEW id \in UUIDs, NEW d \in Domains
  PROVE  ReturnPathAddress(id, d) \in Address
BY DirectoryAssumption DEF Address, ReturnPathAddress

\* The fields of a session's data.
LEMMA DataFields ==
  ASSUME NEW s \in SessionData
  PROVE  /\ s.ID \in UUIDs \cup {Nil}
         /\ s.From \in Senders \cup {Nil}
         /\ s.Via \in Address \cup {Nil}
         /\ s.To \in Address \cup Senders \cup {Nil}
         /\ s.Domain \in Domains \cup {Nil}
         /\ s.Alias \in Aliases \cup {Nil}
         /\ s.Message \in SUBSET Nat
         /\ s.returnPath \in BOOLEAN
BY DEF SessionData

\* The fields of a transaction.
LEMMA EnvelopeFields ==
  ASSUME NEW e \in Envelope
  PROVE  /\ e.open \in BOOLEAN
         /\ e.no \in Nat
         /\ e.from \in Senders \cup {Nil}
         /\ e.rcpts \in Seq(Recipient)
BY DEF Envelope

\* The empty session and the empty transaction.
LEMMA EmptyTypes ==
  /\ NoData \in SessionData
  /\ NoEnvelope \in Envelope
  /\ NoEnvelope.rcpts = <<>>
  /\ NoEnvelope.open = FALSE
  /\ \A id \in UUIDs : [NoData EXCEPT !.ID = id] \in SessionData
                       /\ [NoData EXCEPT !.ID = id].ID = id
<1>1. NoData \in SessionData
  BY DEF NoData, SessionData
<1>2. NoEnvelope \in Envelope
  BY DEF NoEnvelope, Envelope
<1>3. NoEnvelope.rcpts = <<>> /\ NoEnvelope.open = FALSE
  BY DEF NoEnvelope
<1>4. ASSUME NEW id \in UUIDs
      PROVE  [NoData EXCEPT !.ID = id] \in SessionData /\ [NoData EXCEPT !.ID = id].ID = id
  BY <1>1, <1>4 DEF SessionData
<1> QED
  BY <1>1, <1>2, <1>3, <1>4

\* Cleared forgets all but ID and Via.
LEMMA ClearedType ==
  ASSUME NEW s \in SessionData
  PROVE  Cleared(s) \in SessionData /\ Cleared(s).ID = s.ID
BY DEF Cleared, SessionData

\* What go-smtp's reset leaves of connection c.
LEMMA ResetType ==
  ASSUME TypeOK, NEW c \in Conns, Reset(c)
  PROVE  /\ data' \in [Conns -> SessionData]
         /\ envelope' \in [Conns -> Envelope]
         /\ data'[c].ID = data[c].ID
         /\ envelope'[c] = NoEnvelope
         /\ \A d \in Conns \ {c} : data'[d] = data[d] /\ envelope'[d] = envelope[d]
<1>1. data[c] \in SessionData
  BY DEF TypeOK
<1>2. Cleared(data[c]) \in SessionData /\ Cleared(data[c]).ID = data[c].ID
  BY <1>1, ClearedType
<1> QED
  BY <1>2, EmptyTypes DEF TypeOK, Reset

\* A sequence that was appended to.
LEMMA AppendSeq ==
  ASSUME NEW S, NEW s \in Seq(S), NEW x \in S
  PROVE  Append(s, x) \in Seq(S) /\ Append(s, x) # <<>>
<1>1. Append(s, x) \in Seq(S) /\ Len(Append(s, x)) = Len(s) + 1 /\ Len(s) \in Nat
  OBVIOUS
<1>2. Append(s, x) = <<>> => Len(Append(s, x)) = 0
  OBVIOUS
<1> QED
  BY <1>1, <1>2

\* One accepted recipient: the transaction grows by it.
LEMMA AddRcptType ==
  ASSUME TypeOK, NEW c \in Conns, NEW to \in Recipients,
         NEW home \in Senders \cup {Nil}, AddRcpt(c, to, home)
  PROVE  /\ envelope' \in [Conns -> Envelope]
         /\ serial' \in Nat
         /\ envelope'[c].rcpts # <<>>
         /\ envelope'[c].open = envelope[c].open
         /\ envelope'[c].from = envelope[c].from
         /\ \A d \in Conns \ {c} : envelope'[d] = envelope[d]
<1> DEFINE e == envelope[c]
           rcpts == Append(e.rcpts, [to |-> to, home |-> home])
<1>1. e \in Envelope
  BY DEF TypeOK
<1>2. [to |-> to, home |-> home] \in Recipient
  BY RecipientType DEF Recipient
<1>3. rcpts \in Seq(Recipient) /\ rcpts # <<>>
  <2>1. e.rcpts \in Seq(Recipient)
    BY <1>1, EnvelopeFields
  <2> QED
    BY <1>2, <2>1, AppendSeq
<1>4. envelope' = [envelope EXCEPT ![c] = [e EXCEPT !.rcpts = rcpts]] /\ serial' = serial + 1
  BY DEF AddRcpt, TypeOK
<1> HIDE DEF rcpts
<1>5. [e EXCEPT !.rcpts = rcpts] \in Envelope
  BY <1>1, <1>3 DEF Envelope
<1>6. /\ [e EXCEPT !.rcpts = rcpts].rcpts = rcpts
      /\ [e EXCEPT !.rcpts = rcpts].open = e.open
      /\ [e EXCEPT !.rcpts = rcpts].from = e.from
  BY <1>1 DEF Envelope
<1> HIDE DEF e
<1>7. envelope'[c] = [e EXCEPT !.rcpts = rcpts]
  BY <1>4 DEF TypeOK
<1>8. serial' \in Nat /\ envelope' \in [Conns -> Envelope]
  BY <1>4, <1>5 DEF TypeOK
<1>9. \A d \in Conns \ {c} : envelope'[d] = envelope[d]
  BY <1>4 DEF TypeOK
<1> QED
  BY <1>3, <1>6, <1>7, <1>8, <1>9 DEF e

\* Only an id that was issued has a return path, so a bounce brings one back.
LEMMA ReturnPathKnown ==
  ASSUME TypeOK, SessionInv, NEW to \in Recipients, IsReturnPath(to)
  PROVE  /\ to.path \in issued
         /\ to.path \in UUIDs
         /\ returnPaths[to.path].to \in Senders
<1>1. to.path \in UUIDs
  BY RecipientType DEF IsReturnPath
<1>2. returnPaths[to.path] \in Row
  BY <1>1 DEF TypeOK, IsReturnPath
<1> QED
  BY <1>1, <1>2 DEF SessionInv, IsReturnPath, Row

\* A session that is open has an issued id.
LEMMA OpenID ==
  ASSUME TypeOK, NEW c \in Conns, phase[c] # "closed"
  PROVE  data[c].ID \in issued /\ data[c].ID \in UUIDs
BY DEF TypeOK

\* The inductive invariant.
IInv == TypeOK /\ SessionInv /\ RelayInv

\* A row that relay stored is not Nil.
LEMMA RowOfLoop ==
  ASSUME IInv, NEW c \in Conns, phase[c] = "relay"
  PROVE  returnPaths[data[c].ID] # Nil
<1>1. data[c] \in SessionData /\ envelope[c] \in Envelope
  BY DEF IInv, TypeOK
<1>2. data[c].Alias \in Aliases \cup {Nil} /\ envelope[c].from \in Senders \cup {Nil}
  BY <1>1, DataFields, EnvelopeFields
<1>3. [to |-> envelope[c].from, alias |-> data[c].Alias] \in Row
  BY <1>2 DEF Row
<1> QED
  BY <1>3, RowAssumption DEF IInv, RelayInv

\* An action that ends with a reset, publishes nothing of a wrong type, leaves
\* the rows of other running loops alone and the connection able to take
\* commands.
LEMMA ResetStep ==
  ASSUME IInv, NEW c \in Conns, phase[c] # "closed", Reset(c),
         phase' = [phase EXCEPT ![c] = "command"],
         todo' = [todo EXCEPT ![c] = {}],
         returnPaths' \in [UUIDs -> Row \cup {Nil}],
         \A id \in UUIDs : returnPaths'[id] # Nil => id \in issued,
         \A d \in Conns \ {c} : phase[d] = "relay" =>
           returnPaths'[data[d].ID] = returnPaths[data[d].ID],
         published' \subseteq Email, accepted' \subseteq Envelope,
         UNCHANGED <<issued, returned, rejects, serial>>
  PROVE  IInv'
<1>1. TypeOK
  BY DEF IInv
<1>2. /\ data' \in [Conns -> SessionData]
      /\ envelope' \in [Conns -> Envelope]
      /\ data'[c].ID = data[c].ID
      /\ envelope'[c] = NoEnvelope
      /\ \A d \in Conns \ {c} : data'[d] = data[d] /\ envelope'[d] = envelope[d]
  BY <1>1, ResetType
<1>3. TypeOK'
  BY <1>1, <1>2 DEF TypeOK
<1>4. SessionInv'
  BY <1>1, <1>2, EmptyTypes DEF IInv, TypeOK, SessionInv
<1>5. RelayInv'
  BY <1>1, <1>2 DEF IInv, TypeOK, RelayInv
<1> QED
  BY <1>3, <1>4, <1>5 DEF IInv

\* Connections and MAIL keep the invariant.
LEMMA MailStep ==
  ASSUME IInv, NEW c \in Conns,
         \/ newRelaySession(c) \/ Logout(c) \/ Rset(c) \/ MailRefused(c)
         \/ \E from \in Senders \cup {Nil} : Mail(c, from)
  PROVE  IInv'
<1>0. TypeOK /\ SessionInv /\ RelayInv
  BY DEF IInv
<1>1. CASE newRelaySession(c)
  <2>1. PICK id \in UUIDs \ issued :
          /\ issued' = issued \cup {id}
          /\ data' = [data EXCEPT ![c] = [NoData EXCEPT !.ID = id]]
    BY <1>1 DEF newRelaySession
  <2> DEFINE s == [NoData EXCEPT !.ID = id]
  <2>2. s \in SessionData /\ s.ID = id
    BY EmptyTypes
  <2>3. data' = [data EXCEPT ![c] = s]
    BY <2>1
  <2> HIDE DEF s
  <2>4. TypeOK'
    BY <1>0, <1>1, <2>1, <2>2, <2>3 DEF newRelaySession, TypeOK
  <2>5. envelope'[c] = NoEnvelope /\ envelope' = envelope
    BY <1>0, <1>1 DEF newRelaySession, SessionInv
  <2>6. SessionInv'
    BY <1>0, <1>1, <2>1, <2>3, <2>5, EmptyTypes DEF newRelaySession, SessionInv, TypeOK
  <2>7. RelayInv'
    BY <1>0, <1>1, <2>3 DEF newRelaySession, RelayInv, TypeOK
  <2> QED
    BY <2>4, <2>6, <2>7 DEF IInv
<1>2. CASE Logout(c)
  <2>1. TypeOK'
    BY <1>0, <1>2, EmptyTypes DEF Logout, TypeOK
  <2>2. SessionInv'
    BY <1>0, <1>2, EmptyTypes DEF Logout, SessionInv, TypeOK
  <2>3. RelayInv'
    BY <1>0, <1>2 DEF Logout, RelayInv, TypeOK
  <2> QED
    BY <2>1, <2>2, <2>3 DEF IInv
<1>3. CASE Rset(c)
  <2>1. phase' = [phase EXCEPT ![c] = "command"] /\ todo' = [todo EXCEPT ![c] = {}]
    BY <1>0, <1>3 DEF Rset, TypeOK
  <2>2. /\ Reset(c) /\ phase[c] # "closed"
        /\ UNCHANGED <<issued, returnPaths, returned, published, rejects, accepted, serial>>
    BY <1>3 DEF Rset
  <2> QED
    BY <1>0, <2>1, <2>2, ResetStep DEF TypeOK, SessionInv
<1>4. CASE MailRefused(c)
  <2>1. data[c].ID \in UUIDs
    BY <1>0, <1>4, OpenID DEF MailRefused
  <2>2. rejects' \subseteq Reject
    BY <1>0, <1>4, <2>1 DEF MailRefused, Reject, TypeOK
  <2>3. UNCHANGED <<phase, data, envelope, todo, issued, returnPaths, returned,
                    published, accepted, serial>>
    BY <1>4 DEF MailRefused
  <2> QED
    BY <1>0, <2>2, <2>3 DEF IInv, TypeOK, SessionInv, RelayInv
<1>5. ASSUME NEW from \in Senders \cup {Nil}, Mail(c, from)
      PROVE  IInv'
  <2> DEFINE s == [data[c] EXCEPT !.From = from]
             e == [open |-> TRUE, no |-> serial + 1, from |-> from,
                   rcpts |-> envelope[c].rcpts]
  <2>1. data[c] \in SessionData /\ envelope[c] \in Envelope /\ serial \in Nat
    BY <1>0 DEF TypeOK
  <2>2. /\ s \in SessionData /\ s.From = from /\ s.ID = data[c].ID
        /\ s.Domain = data[c].Domain /\ s.Alias = data[c].Alias
        /\ s.returnPath = data[c].returnPath
    BY <2>1 DEF SessionData
  <2>3. e \in Envelope
    BY <2>1 DEF Envelope
  <2>4. e.from = from /\ e.rcpts = envelope[c].rcpts
    OBVIOUS
  <2>5. /\ data' = [data EXCEPT ![c] = s] /\ envelope' = [envelope EXCEPT ![c] = e]
        /\ serial' = serial + 1 /\ phase[c] = "command"
    BY <1>0, <1>5 DEF Mail, TypeOK
  <2>6. UNCHANGED <<phase, todo, issued, returnPaths, returned, published, rejects,
                    accepted>>
    BY <1>5 DEF Mail
  <2> HIDE DEF s, e
  <2>7. TypeOK'
    BY <1>0, <2>1, <2>2, <2>3, <2>5, <2>6 DEF TypeOK
  <2>8. SessionInv'
    BY <1>0, <2>2, <2>4, <2>5, <2>6 DEF TypeOK, SessionInv
  <2>9. RelayInv'
    BY <1>0, <2>5, <2>6 DEF TypeOK, RelayInv
  <2> QED
    BY <2>7, <2>8, <2>9 DEF IInv
<1> QED
  BY <1>1, <1>2, <1>3, <1>4, <1>5

\* RCPT keeps the invariant.
LEMMA RcptStep ==
  ASSUME IInv, NEW c \in Conns, NEW to \in Recipients,
         RcptReturnPath(c, to) \/ RcptAlias(c, to) \/ RcptRefused(c, to)
  PROVE  IInv'
<1>0. TypeOK /\ SessionInv /\ RelayInv /\ data[c] \in SessionData
  BY DEF IInv, TypeOK
<1>1. to \in Address /\ to.domain \in Domains /\ phase[c] = "command"
  BY RecipientType DEF RcptReturnPath, RcptAlias, RcptRefused, RcptOpen
<1>2. ASSUME NEW s \in SessionData, NEW home \in Senders \cup {Nil},
             data' = [data EXCEPT ![c] = s],
             s.ID \in issued, s.From = data[c].From, s.Domain \in Domains,
             s.returnPath \/ s.Alias \in Aliases,
             AddRcpt(c, to, home), returned' \subseteq UUIDs,
             UNCHANGED <<phase, todo, issued, returnPaths, published, rejects, accepted>>
      PROVE  IInv'
  <2>1. /\ envelope' \in [Conns -> Envelope]
        /\ serial' \in Nat
        /\ envelope'[c].open = envelope[c].open
        /\ envelope'[c].from = envelope[c].from
        /\ \A d \in Conns \ {c} : envelope'[d] = envelope[d]
    BY <1>0, <1>2, AddRcptType
  <2>2. TypeOK'
    BY <1>0, <1>2, <2>1 DEF TypeOK
  <2>3. SessionInv'
    BY <1>0, <1>1, <1>2, <2>1 DEF TypeOK, SessionInv
  <2>4. RelayInv'
    BY <1>0, <1>1, <1>2, <2>1 DEF TypeOK, RelayInv
  <2> QED
    BY <2>2, <2>3, <2>4 DEF IInv
<1>3. CASE RcptReturnPath(c, to)
  <2> DEFINE home == returnPaths[to.path].to
             s == [data[c] EXCEPT !.Via = to, !.To = home, !.returnPath = TRUE,
                                  !.ID = to.path, !.Domain = to.domain]
  <2>1. to.path \in issued /\ to.path \in UUIDs /\ home \in Senders
    BY <1>0, <1>3, ReturnPathKnown DEF RcptReturnPath
  <2>2. /\ data' = [data EXCEPT ![c] = s] /\ AddRcpt(c, to, home)
        /\ returned' = returned \cup {to.path}
    BY <1>0, <1>3 DEF RcptReturnPath, TypeOK
  <2>3. UNCHANGED <<phase, todo, issued, returnPaths, published, rejects, accepted>>
    BY <1>3 DEF RcptReturnPath
  <2> HIDE DEF home
  <2>4. /\ s \in SessionData /\ s.ID = to.path /\ s.From = data[c].From
        /\ s.Domain = to.domain /\ s.returnPath = TRUE
    BY <1>0, <1>1, <2>1 DEF SessionData
  <2> HIDE DEF s
  <2>5. returned' \subseteq UUIDs
    BY <1>0, <2>1, <2>2 DEF TypeOK
  <2> QED
    BY <1>1, <1>2, <2>1, <2>2, <2>3, <2>4, <2>5
<1>4. CASE RcptAlias(c, to)
  <2> DEFINE s == [data[c] EXCEPT !.Alias = to.alias, !.Domain = to.domain, !.To = to]
  <2>1. data' = [data EXCEPT ![c] = s] /\ AddRcpt(c, to, Nil)
    BY <1>0, <1>4 DEF RcptAlias, TypeOK
  <2>2. UNCHANGED <<phase, todo, issued, returnPaths, returned, published, rejects,
                    accepted>>
    BY <1>4 DEF RcptAlias
  <2>3. to.alias \in Aliases
    BY <1>4, RecipientType DEF RcptAlias
  <2>4. /\ s \in SessionData /\ s.ID = data[c].ID /\ s.From = data[c].From
        /\ s.Domain = to.domain /\ s.Alias = to.alias
    BY <1>0, <1>1, <2>3 DEF SessionData
  <2> HIDE DEF s
  <2>5. returned' \subseteq UUIDs /\ data[c].ID \in issued
    BY <1>0, <1>1, <2>2, OpenID DEF TypeOK
  <2> QED
    BY <1>1, <1>2, <2>1, <2>2, <2>3, <2>4, <2>5
<1>5. CASE RcptRefused(c, to)
  <2>1. rejects' \subseteq Reject
    BY <1>0, <1>1, <1>5 DEF RcptRefused, Reject, TypeOK
  <2>2. UNCHANGED <<phase, data, envelope, todo, issued, returnPaths, returned,
                    published, accepted, serial>>
    BY <1>5 DEF RcptRefused
  <2> QED
    BY <1>0, <2>1, <2>2 DEF IInv, TypeOK, SessionInv, RelayInv
<1> QED
  BY <1>3, <1>4, <1>5

\* makeReturnPath adds a row under the session's id and touches no other: the
\* rows of running loops stay.
LEMMA MakeReturnPathRow ==
  ASSUME IInv, NEW c \in Conns, DataOpen(c), makeReturnPath(c)
  PROVE  /\ returnPaths' \in [UUIDs -> Row \cup {Nil}]
         /\ \A id \in UUIDs : returnPaths'[id] # Nil => id \in issued
         /\ returnPaths'[data[c].ID] = [to |-> envelope[c].from, alias |-> data[c].Alias]
         /\ \A d \in Conns : phase[d] = "relay" =>
              /\ data[d].ID # data[c].ID
              /\ returnPaths'[data[d].ID] = returnPaths[data[d].ID]
<1>0. TypeOK /\ SessionInv /\ RelayInv /\ data[c] \in SessionData
  BY DEF IInv, TypeOK
<1>1. data[c].ID \in issued /\ data[c].ID \in UUIDs
  BY <1>0, OpenID DEF DataOpen
<1>2. data[c].From = envelope[c].from
  BY <1>0 DEF DataOpen, SessionInv
<1>3. [to |-> data[c].From, alias |-> data[c].Alias] \in Row
  BY <1>0, DataFields DEF Row
<1>4. /\ returnPaths[data[c].ID] = Nil
      /\ returnPaths' = [returnPaths EXCEPT ![data[c].ID] =
                           [to |-> data[c].From, alias |-> data[c].Alias]]
  BY DEF makeReturnPath
<1>5. returnPaths' \in [UUIDs -> Row \cup {Nil}]
  BY <1>0, <1>1, <1>3, <1>4 DEF TypeOK
<1>6. returnPaths'[data[c].ID] = [to |-> envelope[c].from, alias |-> data[c].Alias]
  BY <1>0, <1>1, <1>2, <1>4 DEF TypeOK
<1>7. \A id \in UUIDs : returnPaths'[id] # Nil => id \in issued
  BY <1>0, <1>1, <1>4 DEF TypeOK, SessionInv
<1>8. ASSUME NEW d \in Conns, phase[d] = "relay"
      PROVE  /\ data[d].ID # data[c].ID
             /\ returnPaths'[data[d].ID] = returnPaths[data[d].ID]
  <2>1. data[d].ID # data[c].ID
    BY <1>4, <1>8, RowOfLoop
  <2>2. data[d].ID \in UUIDs
    BY <1>0, <1>8, OpenID
  <2> QED
    BY <1>0, <1>1, <1>4, <2>1, <2>2 DEF TypeOK
<1> QED
  BY <1>5, <1>6, <1>7, <1>8

\* Data keeps the invariant when it ends without a relay loop.
LEMMA DataStep ==
  ASSUME IInv, NEW c \in Conns,
         DataRefused(c) \/ DataReturned(c) \/ RelayAborted(c)
  PROVE  IInv'
<1>0. TypeOK /\ SessionInv /\ data[c] \in SessionData /\ envelope[c] \in Envelope
  BY DEF IInv, TypeOK
<1>1. /\ Reset(c) /\ DataOpen(c) /\ phase[c] # "closed"
      /\ phase' = [phase EXCEPT ![c] = "command"] /\ todo' = [todo EXCEPT ![c] = {}]
      /\ UNCHANGED <<issued, returned, rejects, serial>>
  BY <1>0 DEF DataRefused, DataReturned, RelayAborted, DataOpen, TypeOK
<1>2. CASE DataRefused(c)
  <2>1. UNCHANGED <<returnPaths, published, accepted>>
    BY <1>2 DEF DataRefused
  <2> QED
    BY <1>0, <1>1, <2>1, ResetStep DEF TypeOK, SessionInv
<1>3. CASE DataReturned(c)
  <2> DEFINE p == [ID |-> data[c].ID, ReturnPath |-> Nil, From |-> data[c].From,
                   Via |-> data[c].Via, To |-> data[c].To, Domain |-> data[c].Domain,
                   Alias |-> data[c].Alias, Message |-> Read(c), Bounce |-> TRUE,
                   env |-> envelope[c]]
  <2>1. Read(c) \in SUBSET Nat
    BY <1>0, DataFields, EnvelopeFields DEF Read
  <2>2. p \in Email
    BY <1>0, <2>1, DataFields DEF Email
  <2>3. /\ published' = published \cup {p} /\ accepted' = accepted \cup {envelope[c]}
        /\ returnPaths' = returnPaths
    BY <1>3 DEF DataReturned
  <2> HIDE DEF p
  <2>4. published' \subseteq Email /\ accepted' \subseteq Envelope
    BY <1>0, <2>2, <2>3 DEF TypeOK
  <2> QED
    BY <1>0, <1>1, <2>3, <2>4, ResetStep DEF TypeOK, SessionInv
<1>4. CASE RelayAborted(c)
  <2>1. makeReturnPath(c) /\ UNCHANGED <<published, accepted>>
    BY <1>4 DEF RelayAborted
  <2>2. published' \subseteq Email /\ accepted' \subseteq Envelope
    BY <1>0, <2>1 DEF TypeOK
  <2> QED
    BY <1>1, <2>1, <2>2, MakeReturnPathRow, ResetStep
<1> QED
  BY <1>2, <1>3, <1>4

\* The email of one turn of the relay loop.
Forwarded(c, d) ==
  [ID |-> data[c].ID,
   ReturnPath |-> ReturnPathAddress(data[c].ID, data[c].Domain),
   From |-> data[c].From, Via |-> data[c].To, To |-> d,
   Domain |-> data[c].Domain, Alias |-> data[c].Alias,
   Message |-> data[c].Message, Bounce |-> FALSE, env |-> envelope[c]]

\* The relay loop keeps the invariant.
LEMMA LoopStep ==
  ASSUME IInv, NEW c \in Conns,
         \/ \E author \in Senders : relay(c, author)
         \/ \E d \in Destinations : QueueNext(c, d)
         \/ RelayDone(c) \/ RelayFailed(c)
  PROVE  IInv'
<1>0. /\ TypeOK /\ SessionInv /\ RelayInv
      /\ data[c] \in SessionData /\ envelope[c] \in Envelope
  BY DEF IInv, TypeOK
<1>1. ASSUME NEW author \in Senders, relay(c, author)
      PROVE  IInv'
  <2> DEFINE s == [data[c] EXCEPT !.From = author, !.Message = Read(c)]
  <2>1. /\ DataOpen(c) /\ makeReturnPath(c) /\ ~data[c].returnPath
        /\ todo' = [todo EXCEPT ![c] = Links[data[c].Alias]]
        /\ phase' = [phase EXCEPT ![c] = "relay"]
        /\ UNCHANGED <<envelope, issued, returned, published, rejects, accepted, serial>>
    BY <1>1 DEF relay
  <2>2. data' = [data EXCEPT ![c] = s]
    BY <1>0, <1>1 DEF relay, TypeOK
  <2>3. Read(c) \in SUBSET Nat
    BY <1>0, DataFields, EnvelopeFields DEF Read
  <2>4. /\ s \in SessionData /\ s.ID = data[c].ID /\ s.Alias = data[c].Alias
        /\ s.Domain = data[c].Domain /\ s.returnPath = data[c].returnPath
    BY <1>0, <2>3 DEF SessionData
  <2> HIDE DEF s
  <2>5. /\ returnPaths' \in [UUIDs -> Row \cup {Nil}]
        /\ \A id \in UUIDs : returnPaths'[id] # Nil => id \in issued
        /\ returnPaths'[data[c].ID] = [to |-> envelope[c].from, alias |-> data[c].Alias]
        /\ \A d \in Conns : phase[d] = "relay" =>
             returnPaths'[data[d].ID] = returnPaths[data[d].ID]
    BY <2>1, MakeReturnPathRow
  <2>6. Links[data[c].Alias] \in SUBSET Destinations /\ envelope[c].rcpts # <<>>
    BY <1>0, <2>1, DirectoryAssumption DEF DataOpen, SessionInv
  <2>7. phase[c] # "closed" /\ data[c].ID \in issued
    BY <1>0, <2>1, OpenID DEF DataOpen
  <2>8. TypeOK'
    BY <1>0, <2>1, <2>2, <2>4, <2>5, <2>6, <2>7 DEF TypeOK
  <2>9. SessionInv'
    BY <1>0, <2>1, <2>2, <2>4, <2>5, <2>7 DEF TypeOK, SessionInv
  <2>10. RelayInv'
    BY <1>0, <2>1, <2>2, <2>4, <2>5, <2>6 DEF TypeOK, RelayInv
  <2> QED
    BY <2>8, <2>9, <2>10 DEF IInv
<1>2. ASSUME NEW d \in Destinations, QueueNext(c, d)
      PROVE  IInv'
  <2>1. /\ phase[c] = "relay" /\ published' = published \cup {Forwarded(c, d)}
        /\ todo' = [todo EXCEPT ![c] = @ \ {d}]
        /\ UNCHANGED <<phase, data, envelope, issued, returnPaths, returned,
                       rejects, accepted, serial>>
    BY <1>2 DEF QueueNext, Forwarded
  <2>2. data[c].Domain \in Domains /\ data[c].ID \in UUIDs
    BY <1>0, <2>1, OpenID DEF RelayInv, SessionInv
  <2>3. Forwarded(c, d) \in Email
    BY <1>0, <2>2, DataFields, ReturnPathType DEF Forwarded, Email
  <2>4. published' \subseteq Email /\ todo' \in [Conns -> SUBSET Destinations]
        /\ \A k \in Conns : todo'[k] # {} => phase[k] = "relay"
    BY <1>0, <2>1, <2>3 DEF TypeOK
  <2>5. TypeOK'
    BY <1>0, <2>1, <2>4 DEF TypeOK
  <2> QED
    BY <1>0, <2>1, <2>5 DEF IInv, SessionInv, RelayInv
<1>3. CASE RelayDone(c) \/ RelayFailed(c)
  <2>1. /\ phase[c] # "closed" /\ Reset(c)
        /\ phase' = [phase EXCEPT ![c] = "command"]
        /\ todo' = [todo EXCEPT ![c] = {}]
        /\ UNCHANGED <<issued, returnPaths, returned, published, rejects, serial>>
    BY <1>0, <1>3 DEF RelayDone, RelayFailed, TypeOK
  <2>2. accepted' \subseteq Envelope
    BY <1>0, <1>3 DEF RelayDone, RelayFailed, TypeOK
  <2> QED
    BY <1>0, <2>1, <2>2, ResetStep DEF TypeOK, SessionInv
<1> QED
  BY <1>1, <1>2, <1>3

\* Every step keeps the inductive invariant.
LEMMA InvStep == IInv /\ [Next]_vars => IInv'
<1> SUFFICES ASSUME IInv, [Next]_vars
             PROVE  IInv'
  OBVIOUS
<1>1. CASE Crash
  <2>1. TypeOK'
    BY <1>1, EmptyTypes DEF Crash, IInv, TypeOK
  <2>2. SessionInv'
    BY <1>1, EmptyTypes DEF Crash, IInv, SessionInv
  <2>3. RelayInv'
    BY <1>1 DEF Crash, RelayInv
  <2> QED
    BY <2>1, <2>2, <2>3 DEF IInv
<1>2. ASSUME NEW c \in Conns, Command(c)
      PROVE  IInv'
  BY <1>2, MailStep, RcptStep DEF Command
<1>3. ASSUME NEW c \in Conns, Data(c)
      PROVE  IInv'
  BY <1>3, DataStep, LoopStep DEF Data
<1>4. CASE UNCHANGED vars
  BY <1>4 DEF vars, IInv, TypeOK, SessionInv, RelayInv
<1> QED
  BY <1>1, <1>2, <1>3, <1>4 DEF Next

\* The initial state satisfies it.
LEMMA InvInit == Init => IInv
<1> SUFFICES ASSUME Init PROVE IInv
  OBVIOUS
<1>1. TypeOK
  BY EmptyTypes DEF Init, TypeOK
<1>2. SessionInv /\ RelayInv
  BY EmptyTypes DEF Init, SessionInv, RelayInv
<1> QED
  BY <1>1, <1>2 DEF IInv

\* The session data, the transactions, the return_paths table and the queued
\* emails always have their types, and an open session has an issued id, for
\* every set of connections and every directory (relay_session.go, relay.go).
THEOREM TypeCorrect == Spec => []TypeOK
<1>1. IInv => TypeOK
  BY DEF IInv
<1> QED
  BY <1>1, InvInit, InvStep, PTL DEF Spec

-----------------------------------------------------------------------------
(* Return paths.                                                           *)

\* BouncePathHome, and that a forwarded email's id is one of a row.
PathInv ==
  /\ BouncePathHome
  /\ \A p \in published : ~p.Bounce => p.ID \in UUIDs

\* A row of return_paths is never changed.
LEMMA RowsStay ==
  ASSUME IInv, [Next]_vars, NEW id \in UUIDs, returnPaths[id] # Nil
  PROVE  returnPaths'[id] = returnPaths[id]
<1>0. TypeOK
  BY DEF IInv
<1>1. ASSUME NEW c \in Conns, makeReturnPath(c)
      PROVE  returnPaths'[id] = returnPaths[id]
  BY <1>0, <1>1 DEF makeReturnPath, TypeOK
<1>2. ASSUME NEW c \in Conns, Data(c)
      PROVE  returnPaths'[id] = returnPaths[id]
  BY <1>1, <1>2 DEF Data, DataRefused, DataReturned, relay, RelayAborted, QueueNext,
     RelayDone, RelayFailed
<1>3. ASSUME NEW c \in Conns, Command(c)
      PROVE  returnPaths' = returnPaths
  BY <1>3 DEF Command, newRelaySession, Logout, Rset, MailRefused, Mail,
     RcptReturnPath, RcptAlias, RcptRefused
<1>4. Crash \/ UNCHANGED vars => returnPaths' = returnPaths
  BY DEF Crash, vars
<1> QED
  BY <1>2, <1>3, <1>4 DEF Next

\* A step queues nothing but bounces and what a relay loop forwards.
LEMMA NewEmail ==
  ASSUME [Next]_vars, NEW p \in published', p \notin published, ~p.Bounce
  PROVE  \E c \in Conns, d \in Destinations :
           /\ phase[c] = "relay" /\ p = Forwarded(c, d)
           /\ UNCHANGED <<phase, data, envelope, returnPaths>>
<1>1. ASSUME NEW c \in Conns, Data(c)
      PROVE  \E d \in Destinations :
               /\ phase[c] = "relay" /\ p = Forwarded(c, d)
               /\ UNCHANGED <<phase, data, envelope, returnPaths>>
  <2>1. CASE DataReturned(c)
    BY <2>1 DEF DataReturned
  <2>2. CASE DataRefused(c) \/ RelayAborted(c) \/ RelayDone(c) \/ RelayFailed(c)
    BY <2>2 DEF DataRefused, RelayAborted, RelayDone, RelayFailed
  <2>3. CASE \E author \in Senders : relay(c, author)
    BY <2>3 DEF relay
  <2>4. ASSUME NEW d \in Destinations, QueueNext(c, d)
        PROVE  /\ phase[c] = "relay" /\ p = Forwarded(c, d)
               /\ UNCHANGED <<phase, data, envelope, returnPaths>>
    BY <2>4 DEF QueueNext, Forwarded
  <2> QED
    BY <1>1, <2>1, <2>2, <2>3, <2>4 DEF Data
<1>2. ASSUME NEW c \in Conns, Command(c)
      PROVE  published' = published
  BY <1>2 DEF Command, newRelaySession, Logout, Rset, MailRefused, Mail,
     RcptReturnPath, RcptAlias, RcptRefused
<1>3. Crash \/ UNCHANGED vars => published' = published
  BY DEF Crash, vars
<1> QED
  BY <1>1, <1>2, <1>3 DEF Next

\* The row of a forwarded email is there.
LEMMA RowOfEmail ==
  ASSUME IInv, PathInv, NEW p \in published, ~p.Bounce
  PROVE  p.ID \in UUIDs /\ returnPaths[p.ID] # Nil
<1>1. p \in Email
  BY DEF IInv, TypeOK
<1>2. p.Alias \in Aliases \cup {Nil} /\ p.env \in Envelope
  BY <1>1 DEF Email
<1>3. [to |-> p.env.from, alias |-> p.Alias] \in Row
  BY <1>2, EnvelopeFields DEF Row
<1> QED
  BY <1>3, RowAssumption DEF PathInv, BouncePathHome

\* Every step keeps PathInv.
LEMMA PathStep == IInv /\ PathInv /\ [Next]_vars => PathInv'
<1> SUFFICES ASSUME IInv, PathInv, [Next]_vars,
                    NEW p \in published', ~p.Bounce
             PROVE  /\ returnPaths'[p.ID] = [to |-> p.env.from, alias |-> p.Alias]
                    /\ p.ID \in UUIDs
  BY DEF PathInv, BouncePathHome
<1>1. CASE p \in published
  <2>1. p.ID \in UUIDs /\ returnPaths[p.ID] # Nil
    BY <1>1, RowOfEmail
  <2> QED
    BY <1>1, <2>1, RowsStay DEF PathInv, BouncePathHome
<1>2. CASE p \notin published
  <2>1. PICK c \in Conns, d \in Destinations :
          /\ phase[c] = "relay" /\ p = Forwarded(c, d)
          /\ UNCHANGED <<phase, data, envelope, returnPaths>>
    BY <1>2, NewEmail
  <2>2. p.ID = data[c].ID /\ p.env = envelope[c] /\ p.Alias = data[c].Alias
    BY <2>1 DEF Forwarded
  <2>3. data[c].ID \in UUIDs
    BY <2>1, OpenID DEF IInv
  <2> QED
    BY <2>1, <2>2, <2>3 DEF IInv, RelayInv
<1> QED
  BY <1>1, <1>2

\* A forwarded email's return path leads to the sender of its own envelope and
\* to its alias, for every interleaving of connections and crashes: relay
\* stores the row before it rewrites From (relay.go), and no step changes it.
THEOREM PathCorrect == Spec => []BouncePathHome
<1>1. Init => PathInv
  BY DEF Init, PathInv, BouncePathHome
<1>2. PathInv => BouncePathHome
  BY DEF PathInv
<1> QED
  BY <1>1, <1>2, InvInit, InvStep, PathStep, PTL DEF Spec

-----------------------------------------------------------------------------
(* One envelope per id.                                                    *)

\* The relay loop of c starts in this step, under an id without a row.
Starts(c) ==
  /\ returnPaths[data[c].ID] = Nil
  /\ data'[c].ID = data[c].ID
  /\ published' = published
  /\ \A d \in Conns \ {c} : phase'[d] = phase[d] /\ data'[d] = data[d]

\* A loop that runs after a step ran before it, untouched, or starts.
LEMMA LoopStable ==
  ASSUME IInv, [Next]_vars, NEW c \in Conns, phase'[c] = "relay"
  PROVE  \/ phase[c] = "relay" /\ data'[c].ID = data[c].ID /\ envelope'[c] = envelope[c]
         \/ Starts(c)
<1> DEFINE Runs == phase[c] = "relay" /\ data'[c].ID = data[c].ID
                   /\ envelope'[c] = envelope[c]
<1>0. TypeOK
  BY DEF IInv
<1>1. CASE Crash \/ UNCHANGED vars
  BY <1>1 DEF Crash, vars
<1>2. ASSUME NEW k \in Conns, Command(k)
      PROVE  Runs
  <2>1. CASE k # c
    BY <1>0, <1>2, <2>1 DEF Command, newRelaySession, Logout, Rset, Reset, MailRefused,
       Mail, RcptReturnPath, RcptAlias, RcptRefused, AddRcpt, TypeOK
  <2>2. CASE k = c
    BY <1>0, <1>2, <2>2 DEF Command, newRelaySession, Logout, Rset, Reset, MailRefused,
       Mail, RcptReturnPath, RcptAlias, RcptRefused, RcptOpen, TypeOK
  <2> QED
    BY <2>1, <2>2
<1>3. ASSUME NEW k \in Conns, NEW author \in Senders, relay(k, author)
      PROVE  Runs \/ Starts(c)
  <2> DEFINE s == [data[k] EXCEPT !.From = author, !.Message = Read(k)]
  <2>1. /\ data' = [data EXCEPT ![k] = s] /\ makeReturnPath(k)
        /\ phase' = [phase EXCEPT ![k] = "relay"]
        /\ UNCHANGED <<envelope, published>>
    BY <1>0, <1>3 DEF relay, TypeOK
  <2>2. s.ID = data[k].ID
    BY <1>0 DEF TypeOK, SessionData
  <2> HIDE DEF s
  <2> QED
    BY <1>0, <2>1, <2>2 DEF Starts, makeReturnPath, TypeOK
<1>4. ASSUME NEW k \in Conns,
             \/ DataRefused(k) \/ DataReturned(k) \/ RelayAborted(k)
             \/ \E d \in Destinations : QueueNext(k, d)
             \/ RelayDone(k) \/ RelayFailed(k)
      PROVE  Runs
  BY <1>0, <1>4 DEF DataRefused, DataReturned, RelayAborted, DataOpen, Reset, QueueNext,
     RelayDone, RelayFailed, TypeOK
<1> QED
  BY <1>1, <1>2, <1>3, <1>4 DEF Next, Data

\* Every step keeps LoopInv.
LEMMA LoopInvStep == IInv /\ PathInv /\ LoopInv /\ [Next]_vars => LoopInv'
<1> SUFFICES ASSUME IInv, PathInv, LoopInv, [Next]_vars
             PROVE  LoopInv'
  OBVIOUS
<1>1. ASSUME NEW c \in Conns, NEW d \in Conns,
             phase'[c] = "relay", phase'[d] = "relay", data'[c].ID = data'[d].ID
      PROVE  c = d
  <2>1. CASE Starts(c) \/ Starts(d)
    BY <1>1, <2>1, RowOfLoop DEF Starts
  <2>2. CASE ~Starts(c) /\ ~Starts(d)
    <3>1. phase[c] = "relay" /\ data'[c].ID = data[c].ID
      BY <1>1, <2>2, LoopStable
    <3>2. phase[d] = "relay" /\ data'[d].ID = data[d].ID
      BY <1>1, <2>2, LoopStable
    <3> QED
      BY <1>1, <3>1, <3>2 DEF LoopInv
  <2> QED
    BY <2>1, <2>2
<1>2. ASSUME NEW p \in published', NEW c \in Conns,
             ~p.Bounce, phase'[c] = "relay", p.ID = data'[c].ID
      PROVE  p.env = envelope'[c]
  <2>1. CASE Starts(c)
    BY <1>2, <2>1, RowOfEmail DEF Starts
  <2>2. CASE ~Starts(c)
    <3>1. phase[c] = "relay" /\ data'[c].ID = data[c].ID /\ envelope'[c] = envelope[c]
      BY <1>2, <2>2, LoopStable
    <3>2. CASE p \in published
      BY <1>2, <3>1, <3>2 DEF LoopInv
    <3>3. CASE p \notin published
      <4>1. PICK k \in Conns, d \in Destinations :
              phase[k] = "relay" /\ p = Forwarded(k, d)
        BY <1>2, <3>3, NewEmail
      <4>2. p.ID = data[k].ID /\ p.env = envelope[k]
        BY <4>1 DEF Forwarded
      <4> QED
        BY <1>2, <3>1, <4>1, <4>2 DEF LoopInv
    <3> QED
      BY <3>2, <3>3
  <2> QED
    BY <2>1, <2>2
<1> QED
  BY <1>1, <1>2 DEF LoopInv

\* Every step keeps one envelope per id.
LEMMA EnvelopeStep ==
  LoopInv /\ OneEnvelopePerID /\ [Next]_vars => OneEnvelopePerID'
<1> SUFFICES ASSUME LoopInv, OneEnvelopePerID, [Next]_vars,
                    NEW p \in published', NEW q \in published',
                    ~p.Bounce, ~q.Bounce, p.ID = q.ID
             PROVE  p.env = q.env
  BY DEF OneEnvelopePerID
<1>1. ASSUME NEW x \in published', x \notin published, ~x.Bounce
      PROVE  \E c \in Conns :
               phase[c] = "relay" /\ x.ID = data[c].ID /\ x.env = envelope[c]
  BY <1>1, NewEmail DEF Forwarded
<1>2. CASE p \in published /\ q \in published
  BY <1>2 DEF OneEnvelopePerID
<1>3. CASE p \in published /\ q \notin published
  BY <1>1, <1>3 DEF LoopInv
<1>4. CASE p \notin published /\ q \in published
  BY <1>1, <1>4 DEF LoopInv
<1>5. CASE p \notin published /\ q \notin published
  BY <1>1, <1>5 DEF LoopInv
<1> QED
  BY <1>2, <1>3, <1>4, <1>5

\* No two messages are ever forwarded under one id, although a session keeps
\* its id for all its messages and a bounce hands it to another session: the
\* primary key of return_paths refuses the second (returnpath.go).
THEOREM OneEnvelopeCorrect == Spec => []OneEnvelopePerID
<1>1. Init => PathInv /\ LoopInv /\ OneEnvelopePerID
  BY DEF Init, PathInv, BouncePathHome, LoopInv, OneEnvelopePerID
<1> QED
  BY <1>1, InvInit, InvStep, PathStep, LoopInvStep, EnvelopeStep, PTL DEF Spec

-----------------------------------------------------------------------------
(* Nothing leaks from one envelope into another.                           *)

\* Session s holds what the transaction e put there and nothing older: the
\* content only while the relay loop runs, and of the recipients the domain and
\* the resolution of the last one, an alias that one of them named, and the id
\* and the address of a return path among them.
Agree(s, e, relaying) ==
  /\ s.Message = IF relaying THEN {e.no} ELSE {}
  /\ s.returnPath <=> ~NoReturnPath(e)
  /\ s.Alias # Nil => \E i \in DOMAIN e.rcpts :
                        e.rcpts[i].home = Nil /\ s.Alias = e.rcpts[i].to.alias
  /\ s.returnPath => /\ \E i \in DOMAIN e.rcpts : s.Via = e.rcpts[i].to
                     /\ \E i \in DOMAIN e.rcpts :
                          e.rcpts[i].home # Nil /\ s.ID = e.rcpts[i].to.path
  /\ e.rcpts # <<>> =>
       /\ s.Domain = LastRcpt(e).to.domain
       /\ LastRcpt(e).home # Nil => s.To = LastRcpt(e).home
       /\ LastRcpt(e).home = Nil => s.To = LastRcpt(e).to /\ s.Alias = LastRcpt(e).to.alias

AgreeInv == \A c \in Conns : Agree(data[c], envelope[c], phase[c] = "relay")

\* A relay loop runs for aliases only, and each destination it has done with
\* is served.
ServedInv ==
  \A c \in Conns : phase[c] = "relay" =>
    /\ ~data[c].returnPath
    /\ \A d \in Links[data[c].Alias] \ todo[c] :
         \E p \in published : p.env = envelope[c] /\ p.To = d /\ p.Via = data[c].To

\* A recipient that is appended is the last one, and the others stay.
LEMMA AppendLast ==
  ASSUME NEW S, NEW s \in Seq(S), NEW x \in S
  PROVE  LET t == Append(s, x) IN
         /\ t # <<>> /\ t[Len(t)] = x /\ Len(t) \in DOMAIN t
         /\ \A i \in DOMAIN s : i \in DOMAIN t /\ t[i] = s[i]
         /\ \A i \in DOMAIN t : i \in DOMAIN s \/ t[i] = x
<1>1. Append(s, x) # <<>>
  BY AppendSeq
<1>2. /\ Len(Append(s, x)) = Len(s) + 1 /\ Len(s) \in Nat
      /\ DOMAIN s = 1..Len(s) /\ DOMAIN Append(s, x) = 1..(Len(s) + 1)
      /\ Append(s, x)[Len(s) + 1] = x
      /\ \A i \in 1..Len(s) : Append(s, x)[i] = s[i]
  OBVIOUS
<1>3. \A i \in 1..(Len(s) + 1) : i \in 1..Len(s) \/ i = Len(s) + 1
  BY <1>2
<1>4. Len(s) + 1 \in 1..(Len(s) + 1) /\ \A i \in 1..Len(s) : i \in 1..(Len(s) + 1)
  BY <1>2
<1> QED
  BY <1>1, <1>2, <1>3, <1>4

\* The last recipient of a transaction that has one is among its recipients.
LEMMA LastIsOne ==
  ASSUME NEW e \in Envelope, e.rcpts # <<>>
  PROVE  Len(e.rcpts) \in DOMAIN e.rcpts
<1>1. e.rcpts \in Seq(Recipient)
  BY EnvelopeFields
<1> QED
  BY <1>1

\* A session that was reset, or is new, holds nothing.
LEMMA AgreeEmpty ==
  ASSUME NEW s, s.Message = {}, s.Alias = Nil, s.returnPath = FALSE
  PROVE  Agree(s, NoEnvelope, FALSE)
<1>1. NoEnvelope.rcpts = <<>>
  BY EmptyTypes
<1>2. NoReturnPath(NoEnvelope)
  BY <1>1 DEF NoReturnPath
<1> QED
  BY <1>1, <1>2 DEF Agree

\* MAIL and the start of the loop leave the recipients and what they left in
\* the session.
LEMMA AgreeKept ==
  ASSUME NEW s, NEW t, NEW e, NEW f, NEW r, NEW q,
         Agree(s, e, r), f.rcpts = e.rcpts, t.Message = IF q THEN {f.no} ELSE {},
         t.returnPath = s.returnPath, t.Alias = s.Alias, t.Via = s.Via, t.ID = s.ID,
         t.Domain = s.Domain, t.To = s.To
  PROVE  Agree(t, f, q)
BY DEF Agree, NoReturnPath, LastRcpt

\* A recipient, resolved to a return path or to an alias.
LEMMA AgreeRcpt ==
  ASSUME NEW e \in Envelope, NEW f \in Envelope, NEW r \in Recipient,
         f.rcpts = Append(e.rcpts, r), NEW s, NEW t, Agree(s, e, FALSE),
         t.Message = s.Message, t.Domain = r.to.domain,
         \/ /\ r.home # Nil /\ t.To = r.home /\ t.returnPath = TRUE
            /\ t.ID = r.to.path /\ t.Via = r.to /\ t.Alias = s.Alias
         \/ /\ r.home = Nil /\ t.To = r.to /\ t.Alias = r.to.alias
            /\ t.returnPath = s.returnPath /\ t.ID = s.ID /\ t.Via = s.Via
  PROVE  Agree(t, f, FALSE)
<1>1. e.rcpts \in Seq(Recipient)
  BY EnvelopeFields
<1>2. /\ f.rcpts # <<>> /\ f.rcpts[Len(f.rcpts)] = r /\ Len(f.rcpts) \in DOMAIN f.rcpts
      /\ \A i \in DOMAIN e.rcpts : i \in DOMAIN f.rcpts /\ f.rcpts[i] = e.rcpts[i]
      /\ \A i \in DOMAIN f.rcpts : i \in DOMAIN e.rcpts \/ f.rcpts[i] = r
  BY <1>1, AppendLast
<1>3. NoReturnPath(f) <=> NoReturnPath(e) /\ r.home = Nil
  BY <1>2 DEF NoReturnPath
<1>4. CASE r.home # Nil
  <2>1. ~NoReturnPath(f)
    BY <1>3, <1>4
  <2> QED
    BY <1>2, <1>4, <2>1 DEF Agree, LastRcpt
<1>5. CASE r.home = Nil
  <2>1. NoReturnPath(f) <=> NoReturnPath(e)
    BY <1>3, <1>5
  <2> QED
    BY <1>2, <1>5, <2>1 DEF Agree, LastRcpt
<1> QED
  BY <1>4, <1>5

\* Commands keep AgreeInv.
LEMMA AgreeCommand ==
  ASSUME IInv, AgreeInv, NEW c \in Conns, Command(c)
  PROVE  AgreeInv'
<1>0. /\ TypeOK /\ SessionInv /\ data[c] \in SessionData /\ envelope[c] \in Envelope
      /\ serial \in Nat
  BY DEF IInv, TypeOK
<1>1. ASSUME \A d \in Conns \ {c} : /\ data'[d] = data[d] /\ envelope'[d] = envelope[d]
                                    /\ phase'[d] = phase[d],
             Agree(data'[c], envelope'[c], phase'[c] = "relay")
      PROVE  AgreeInv'
  BY <1>1 DEF AgreeInv
<1>2. CASE newRelaySession(c)
  <2>1. PICK id \in UUIDs : data' = [data EXCEPT ![c] = [NoData EXCEPT !.ID = id]]
    BY <1>2 DEF newRelaySession
  <2> DEFINE s == [NoData EXCEPT !.ID = id]
  <2>2. s.Message = {} /\ s.Alias = Nil /\ s.returnPath = FALSE
    BY DEF NoData
  <2>3. data' = [data EXCEPT ![c] = s]
    BY <2>1
  <2> HIDE DEF s
  <2>4. envelope' = envelope /\ envelope[c] = NoEnvelope /\ phase' = [phase EXCEPT ![c] = "command"]
    BY <1>0, <1>2 DEF newRelaySession, SessionInv
  <2>5. Agree(s, NoEnvelope, FALSE)
    BY <2>2, AgreeEmpty
  <2> QED
    BY <1>0, <1>1, <2>3, <2>4, <2>5 DEF TypeOK
<1>3. CASE Logout(c)
  <2>1. NoData.Message = {} /\ NoData.Alias = Nil /\ NoData.returnPath = FALSE
    BY DEF NoData
  <2>2. Agree(NoData, NoEnvelope, FALSE)
    BY <2>1, AgreeEmpty
  <2> QED
    BY <1>0, <1>1, <1>3, <2>2 DEF Logout, TypeOK
<1>4. CASE Rset(c)
  <2>1. Agree(Cleared(data[c]), NoEnvelope, FALSE)
    BY <1>0, AgreeEmpty DEF Cleared, SessionData
  <2> QED
    BY <1>0, <1>1, <1>4, <2>1 DEF Rset, Reset, TypeOK
<1>5. CASE MailRefused(c) \/ \E to \in Recipients : RcptRefused(c, to)
  BY <1>5 DEF MailRefused, RcptRefused, AgreeInv
<1>6. ASSUME NEW from \in Senders \cup {Nil}, Mail(c, from)
      PROVE  AgreeInv'
  <2> DEFINE s == [data[c] EXCEPT !.From = from]
             e == [open |-> TRUE, no |-> serial + 1, from |-> from,
                   rcpts |-> envelope[c].rcpts]
  <2>1. /\ data' = [data EXCEPT ![c] = s] /\ envelope' = [envelope EXCEPT ![c] = e]
        /\ phase' = phase /\ phase[c] = "command"
    BY <1>0, <1>6 DEF Mail, TypeOK
  <2>2. /\ s.ID = data[c].ID /\ s.Via = data[c].Via /\ s.To = data[c].To
        /\ s.Domain = data[c].Domain /\ s.Alias = data[c].Alias
        /\ s.returnPath = data[c].returnPath /\ s.Message = data[c].Message
    BY <1>0 DEF SessionData
  <2>3. e.rcpts = envelope[c].rcpts
    OBVIOUS
  <2> HIDE DEF s, e
  <2>4. Agree(data[c], envelope[c], FALSE) /\ data[c].Message = {}
    BY <2>1 DEF AgreeInv, Agree
  <2>5. Agree(s, e, FALSE)
    BY <2>2, <2>3, <2>4, AgreeKept
  <2> QED
    BY <1>0, <1>1, <2>1, <2>5 DEF TypeOK
<1>7. ASSUME NEW to \in Recipients, NEW home \in Senders \cup {Nil}, NEW s,
             AddRcpt(c, to, home), data' = [data EXCEPT ![c] = s],
             phase' = phase, phase[c] = "command",
             s.Message = data[c].Message, s.Domain = to.domain,
             \/ /\ home # Nil /\ s.To = home /\ s.returnPath = TRUE
                /\ s.ID = to.path /\ s.Via = to /\ s.Alias = data[c].Alias
             \/ /\ home = Nil /\ s.To = to /\ s.Alias = to.alias
                /\ s.returnPath = data[c].returnPath /\ s.ID = data[c].ID /\ s.Via = data[c].Via
      PROVE  AgreeInv'
  <2> DEFINE r == [to |-> to, home |-> home]
             e == [envelope[c] EXCEPT !.rcpts = Append(envelope[c].rcpts, r)]
  <2>1. r \in Recipient /\ r.to = to /\ r.home = home
    BY <1>7, RecipientType DEF Recipient
  <2>2. envelope' = [envelope EXCEPT ![c] = e]
    BY <1>0, <1>7 DEF AddRcpt, TypeOK
  <2>3. e \in Envelope
    <3>1. envelope' \in [Conns -> Envelope]
      BY <1>0, <1>7, AddRcptType
    <3>2. envelope'[c] = e
      BY <1>0, <2>2 DEF TypeOK
    <3> QED
      BY <3>1, <3>2
  <2>4. e.rcpts = Append(envelope[c].rcpts, r)
    BY <1>0 DEF Envelope
  <2>5. Agree(data[c], envelope[c], FALSE)
    BY <1>7 DEF AgreeInv
  <2> HIDE DEF r, e
  <2>6. Agree(s, e, FALSE)
    BY <1>0, <1>7, <2>1, <2>3, <2>4, <2>5, AgreeRcpt
  <2> QED
    BY <1>0, <1>1, <1>7, <2>2, <2>6 DEF TypeOK
<1>8. ASSUME NEW to \in Recipients, RcptReturnPath(c, to)
      PROVE  AgreeInv'
  <2> DEFINE home == returnPaths[to.path].to
             s == [data[c] EXCEPT !.Via = to, !.To = home, !.returnPath = TRUE,
                                  !.ID = to.path, !.Domain = to.domain]
  <2>1. home \in Senders /\ home # Nil
    BY <1>0, <1>8, ReturnPathKnown, NilAssumption DEF RcptReturnPath
  <2>2. /\ data' = [data EXCEPT ![c] = s] /\ AddRcpt(c, to, home)
        /\ phase' = phase /\ phase[c] = "command"
    BY <1>0, <1>8 DEF RcptReturnPath, RcptOpen, TypeOK
  <2> HIDE DEF home
  <2>3. /\ s.Message = data[c].Message /\ s.Domain = to.domain /\ s.To = home
        /\ s.returnPath = TRUE /\ s.ID = to.path /\ s.Via = to /\ s.Alias = data[c].Alias
    BY <1>0 DEF SessionData
  <2> HIDE DEF s
  <2> QED
    BY <1>7, <2>1, <2>2, <2>3
<1>9. ASSUME NEW to \in Recipients, RcptAlias(c, to)
      PROVE  AgreeInv'
  <2> DEFINE s == [data[c] EXCEPT !.Alias = to.alias, !.Domain = to.domain, !.To = to]
  <2>1. /\ data' = [data EXCEPT ![c] = s] /\ AddRcpt(c, to, Nil)
        /\ phase' = phase /\ phase[c] = "command"
    BY <1>0, <1>9 DEF RcptAlias, RcptOpen, TypeOK
  <2>2. /\ s.Message = data[c].Message /\ s.Domain = to.domain /\ s.To = to
        /\ s.Alias = to.alias /\ s.returnPath = data[c].returnPath
        /\ s.ID = data[c].ID /\ s.Via = data[c].Via
    BY <1>0 DEF SessionData
  <2> HIDE DEF s
  <2> QED
    BY <1>7, <2>1, <2>2
<1> QED
  BY <1>2, <1>3, <1>4, <1>5, <1>6, <1>8, <1>9 DEF Command

\* Data keeps AgreeInv.
LEMMA AgreeData ==
  ASSUME IInv, AgreeInv, NEW c \in Conns, Data(c)
  PROVE  AgreeInv'
<1>0. TypeOK /\ data[c] \in SessionData
  BY DEF IInv, TypeOK
<1>1. ASSUME Reset(c), phase'[c] = "command", \A d \in Conns \ {c} : phase'[d] = phase[d]
      PROVE  AgreeInv'
  <2>1. Agree(Cleared(data[c]), NoEnvelope, FALSE)
    BY <1>0, AgreeEmpty DEF Cleared, SessionData
  <2>2. data'[c] = Cleared(data[c]) /\ envelope'[c] = NoEnvelope
    BY <1>0, <1>1 DEF Reset, TypeOK
  <2>3. \A d \in Conns \ {c} : data'[d] = data[d] /\ envelope'[d] = envelope[d]
    BY <1>0, <1>1, ResetType
  <2> QED
    BY <1>1, <2>1, <2>2, <2>3 DEF AgreeInv
<1>2. CASE DataRefused(c) \/ DataReturned(c) \/ RelayAborted(c)
  BY <1>1, <1>2 DEF DataRefused, DataReturned, RelayAborted, DataOpen
<1>3. CASE RelayDone(c) \/ RelayFailed(c)
  BY <1>0, <1>1, <1>3 DEF RelayDone, RelayFailed, TypeOK
<1>4. CASE \E d \in Destinations : QueueNext(c, d)
  BY <1>4 DEF QueueNext, AgreeInv
<1>5. ASSUME NEW author \in Senders, relay(c, author)
      PROVE  AgreeInv'
  <2> DEFINE s == [data[c] EXCEPT !.From = author, !.Message = Read(c)]
  <2>1. /\ data' = [data EXCEPT ![c] = s] /\ envelope' = envelope
        /\ phase' = [phase EXCEPT ![c] = "relay"] /\ phase[c] = "command"
    BY <1>0, <1>5 DEF relay, DataOpen, TypeOK
  <2>2. Agree(data[c], envelope[c], FALSE) /\ data[c].Message = {}
    BY <2>1 DEF AgreeInv, Agree
  <2>3. Read(c) = {envelope[c].no}
    BY <2>2 DEF Read
  <2>4. /\ s.ID = data[c].ID /\ s.Via = data[c].Via /\ s.To = data[c].To
        /\ s.Domain = data[c].Domain /\ s.Alias = data[c].Alias
        /\ s.returnPath = data[c].returnPath /\ s.Message = {envelope[c].no}
    BY <1>0, <2>3 DEF SessionData
  <2> HIDE DEF s
  <2>5. Agree(s, envelope[c], TRUE)
    BY <2>2, <2>4, AgreeKept
  <2>6. /\ data'[c] = s /\ phase'[c] = "relay"
        /\ \A d \in Conns \ {c} : data'[d] = data[d] /\ phase'[d] = phase[d]
    BY <1>0, <2>1 DEF TypeOK
  <2> QED
    BY <2>1, <2>5, <2>6 DEF AgreeInv
<1> QED
  BY <1>2, <1>3, <1>4, <1>5 DEF Data

\* Every step keeps AgreeInv.
LEMMA AgreeStep == IInv /\ AgreeInv /\ [Next]_vars => AgreeInv'
<1>1. ASSUME IInv, Crash
      PROVE  AgreeInv'
  <2>1. NoData.Message = {} /\ NoData.Alias = Nil /\ NoData.returnPath = FALSE
    BY DEF NoData
  <2>2. Agree(NoData, NoEnvelope, FALSE)
    BY <2>1, AgreeEmpty
  <2> QED
    BY <1>1, <2>2 DEF Crash, AgreeInv
<1>2. ASSUME AgreeInv, UNCHANGED vars
      PROVE  AgreeInv'
  BY <1>2 DEF vars, AgreeInv
<1> QED
  BY <1>1, <1>2, AgreeCommand, AgreeData DEF Next

\* The bounce that Data queues.
Returned(c) ==
  [ID |-> data[c].ID, ReturnPath |-> Nil, From |-> data[c].From,
   Via |-> data[c].Via, To |-> data[c].To, Domain |-> data[c].Domain,
   Alias |-> data[c].Alias, Message |-> Read(c), Bounce |-> TRUE, env |-> envelope[c]]

\* The queue only grows, and a new bounce in it is that of a session whose
\* recipients include a return path.
LEMMA NewBounce ==
  ASSUME [Next]_vars
  PROVE  /\ published \subseteq published'
         /\ \A p \in published' : p \notin published /\ p.Bounce =>
              \E c \in Conns : DataOpen(c) /\ data[c].returnPath /\ p = Returned(c)
<1>1. ASSUME NEW c \in Conns, Data(c)
      PROVE  /\ published \subseteq published'
             /\ \A p \in published' : p \notin published /\ p.Bounce =>
                  DataOpen(c) /\ data[c].returnPath /\ p = Returned(c)
  <2>1. CASE DataReturned(c)
    BY <2>1 DEF DataReturned, Returned
  <2>2. CASE DataRefused(c) \/ RelayAborted(c) \/ RelayDone(c) \/ RelayFailed(c)
    BY <2>2 DEF DataRefused, RelayAborted, RelayDone, RelayFailed
  <2>3. CASE \E author \in Senders : relay(c, author)
    BY <2>3 DEF relay
  <2>4. ASSUME NEW d \in Destinations, QueueNext(c, d)
        PROVE  /\ published \subseteq published'
               /\ \A p \in published' : p \notin published => ~p.Bounce
    BY <2>4 DEF QueueNext
  <2> QED
    BY <1>1, <2>1, <2>2, <2>3, <2>4 DEF Data
<1>2. ASSUME NEW c \in Conns, Command(c)
      PROVE  published' = published
  BY <1>2 DEF Command, newRelaySession, Logout, Rset, MailRefused, Mail,
     RcptReturnPath, RcptAlias, RcptRefused
<1>3. Crash \/ UNCHANGED vars => published' = published
  BY DEF Crash, vars
<1> QED
  BY <1>1, <1>2, <1>3 DEF Next

\* Every step keeps EnvelopeIsolation: what is queued is what an agreeing
\* session holds.
LEMMA IsolationStep ==
  ASSUME IInv, AgreeInv, ServedInv, EnvelopeIsolation, [Next]_vars
  PROVE  EnvelopeIsolation'
<1> DEFINE Isolated(p) ==
      /\ p.Message = {p.env.no}
      /\ p.Domain = LastRcpt(p.env).to.domain
      /\ \E i \in DOMAIN p.env.rcpts : p.Via = p.env.rcpts[i].to
      /\ \/ p.Alias = Nil
         \/ \E i \in DOMAIN p.env.rcpts :
              p.env.rcpts[i].home = Nil /\ p.Alias = p.env.rcpts[i].to.alias
      /\ p.Bounce => /\ p.From = p.env.from
                     /\ \E i \in DOMAIN p.env.rcpts :
                          p.env.rcpts[i].home # Nil /\ p.ID = p.env.rcpts[i].to.path
<1> SUFFICES ASSUME NEW p \in published' PROVE Isolated(p)
  BY DEF EnvelopeIsolation
<1>0. TypeOK /\ SessionInv /\ RelayInv
  BY DEF IInv
<1>1. CASE p \in published
  BY <1>1 DEF EnvelopeIsolation
<1>2. CASE p \notin published /\ ~p.Bounce
  <2>1. PICK c \in Conns, d \in Destinations : phase[c] = "relay" /\ p = Forwarded(c, d)
    BY <1>2, NewEmail
  <2>2. /\ p.env = envelope[c] /\ p.Message = data[c].Message /\ p.Domain = data[c].Domain
        /\ p.Via = data[c].To /\ p.Alias = data[c].Alias
    BY <2>1 DEF Forwarded
  <2>3. Agree(data[c], envelope[c], TRUE)
    BY <2>1 DEF AgreeInv
  <2>4. envelope[c] \in Envelope /\ envelope[c].rcpts # <<>>
    BY <1>0, <2>1 DEF TypeOK, RelayInv
  <2>5. Len(envelope[c].rcpts) \in DOMAIN envelope[c].rcpts
    BY <2>4, LastIsOne
  <2>6. LastRcpt(envelope[c]).home = Nil
    <3>1. ~data[c].returnPath
      BY <2>1 DEF ServedInv
    <3> QED
      BY <2>3, <2>5, <3>1 DEF Agree, NoReturnPath, LastRcpt
  <2> QED
    BY <1>2, <2>2, <2>3, <2>4, <2>5, <2>6 DEF Agree, LastRcpt
<1>3. CASE p \notin published /\ p.Bounce
  <2>1. PICK c \in Conns : DataOpen(c) /\ data[c].returnPath /\ p = Returned(c)
    BY <1>3, NewBounce
  <2>2. /\ p.env = envelope[c] /\ p.Message = Read(c) /\ p.Domain = data[c].Domain
        /\ p.Via = data[c].Via /\ p.Alias = data[c].Alias /\ p.ID = data[c].ID
        /\ p.From = data[c].From
    BY <2>1 DEF Returned
  <2>3. Agree(data[c], envelope[c], FALSE)
    BY <2>1 DEF AgreeInv, DataOpen
  <2>4. Read(c) = {envelope[c].no}
    BY <2>3 DEF Agree, Read
  <2>5. data[c].From = envelope[c].from /\ envelope[c].rcpts # <<>>
    BY <1>0, <2>1 DEF DataOpen, SessionInv
  <2> QED
    BY <2>1, <2>2, <2>3, <2>4, <2>5 DEF Agree, LastRcpt
<1> QED
  BY <1>1, <1>2, <1>3

\* A relay loop that runs after a step starts in it, or ran before it and did
\* at most one turn.
LEMMA LoopKept ==
  ASSUME IInv, [Next]_vars, NEW c \in Conns, phase'[c] = "relay"
  PROVE  \/ \E author \in Senders : relay(c, author)
         \/ /\ phase[c] = "relay" /\ data'[c] = data[c] /\ envelope'[c] = envelope[c]
            /\ \/ todo'[c] = todo[c]
               \/ \E d \in Destinations :
                    todo'[c] = todo[c] \ {d} /\ Forwarded(c, d) \in published'
<1> DEFINE Kept == /\ phase[c] = "relay" /\ data'[c] = data[c] /\ envelope'[c] = envelope[c]
                   /\ todo'[c] = todo[c]
<1>0. TypeOK
  BY DEF IInv
<1>1. CASE Crash \/ UNCHANGED vars
  BY <1>1 DEF Crash, vars
<1>2. ASSUME NEW k \in Conns, Command(k)
      PROVE  Kept
  <2>1. CASE k # c
    BY <1>0, <1>2, <2>1 DEF Command, newRelaySession, Logout, Rset, Reset, MailRefused,
       Mail, RcptReturnPath, RcptAlias, RcptRefused, AddRcpt, TypeOK
  <2>2. CASE k = c
    BY <1>0, <1>2, <2>2 DEF Command, newRelaySession, Logout, Rset, Reset, MailRefused,
       Mail, RcptReturnPath, RcptAlias, RcptRefused, RcptOpen, TypeOK
  <2> QED
    BY <2>1, <2>2
<1>3. ASSUME NEW k \in Conns, k # c,
             Data(k)
      PROVE  Kept
  BY <1>0, <1>3 DEF Data, relay, DataRefused, DataReturned, RelayAborted, Reset, QueueNext,
     RelayDone, RelayFailed, TypeOK
<1>4. CASE DataRefused(c) \/ DataReturned(c) \/ RelayAborted(c) \/ RelayDone(c) \/ RelayFailed(c)
  BY <1>0, <1>4 DEF DataRefused, DataReturned, RelayAborted, DataOpen, RelayDone, RelayFailed, TypeOK
<1>5. ASSUME NEW d \in Destinations, QueueNext(c, d)
      PROVE  /\ phase[c] = "relay" /\ data'[c] = data[c] /\ envelope'[c] = envelope[c]
             /\ todo'[c] = todo[c] \ {d} /\ Forwarded(c, d) \in published'
  BY <1>0, <1>5 DEF QueueNext, Forwarded, TypeOK
<1> QED
  BY <1>1, <1>2, <1>3, <1>4, <1>5 DEF Next, Data

\* Every step keeps ServedInv.
LEMMA ServedStep == IInv /\ ServedInv /\ [Next]_vars => ServedInv'
<1> SUFFICES ASSUME IInv, ServedInv, [Next]_vars, NEW c \in Conns, phase'[c] = "relay"
             PROVE  /\ ~data'[c].returnPath
                    /\ \A d \in Links[data'[c].Alias] \ todo'[c] :
                         \E p \in published' : /\ p.env = envelope'[c] /\ p.To = d
                                               /\ p.Via = data'[c].To
  BY DEF ServedInv
<1>0. TypeOK
  BY DEF IInv
<1>1. ASSUME NEW author \in Senders, relay(c, author)
      PROVE  ~data'[c].returnPath /\ todo'[c] = Links[data'[c].Alias]
  <2> DEFINE s == [data[c] EXCEPT !.From = author, !.Message = Read(c)]
  <2>1. data[c] \in SessionData /\ data'[c] = s /\ todo'[c] = Links[data[c].Alias] /\ ~data[c].returnPath
    BY <1>0, <1>1 DEF relay, TypeOK
  <2>2. s.Alias = data[c].Alias /\ s.returnPath = data[c].returnPath
    BY <2>1 DEF SessionData
  <2> HIDE DEF s
  <2> QED
    BY <2>1, <2>2
<1>2. ASSUME phase[c] = "relay", data'[c] = data[c], envelope'[c] = envelope[c],
             NEW d \in Links[data[c].Alias] \ todo'[c],
             d \notin todo[c] \/ Forwarded(c, d) \in published'
      PROVE  \E p \in published' : p.env = envelope[c] /\ p.To = d /\ p.Via = data[c].To
  <2>1. CASE d \notin todo[c]
    <3>1. published \subseteq published'
      BY NewBounce
    <3> QED
      BY <1>2, <2>1, <3>1 DEF ServedInv
  <2>2. CASE Forwarded(c, d) \in published'
    <3>1. /\ Forwarded(c, d).env = envelope[c] /\ Forwarded(c, d).To = d
          /\ Forwarded(c, d).Via = data[c].To
      BY DEF Forwarded
    <3> QED
      BY <2>2, <3>1
  <2> QED
    BY <1>2, <2>1, <2>2
<1>3. CASE /\ phase[c] = "relay" /\ data'[c] = data[c] /\ envelope'[c] = envelope[c]
           /\ \/ todo'[c] = todo[c]
              \/ \E d \in Destinations :
                   todo'[c] = todo[c] \ {d} /\ Forwarded(c, d) \in published'
  <2>1. ASSUME NEW d \in Links[data[c].Alias] \ todo'[c]
        PROVE  d \notin todo[c] \/ Forwarded(c, d) \in published'
    BY <1>3, <2>1
  <2> QED
    BY <1>2, <1>3, <2>1 DEF ServedInv
<1> QED
  BY <1>1, <1>3, LoopKept

\* 250 is answered to DATA by DataReturned and at the end of the relay loop.
LEMMA NewAccepted ==
  ASSUME [Next]_vars, NEW e \in accepted', e \notin accepted
  PROVE  \E c \in Conns :
           /\ e = envelope[c]
           /\ \/ DataOpen(c) /\ data[c].returnPath /\ Returned(c) \in published'
              \/ phase[c] = "relay" /\ todo[c] = {} /\ published' = published
<1>1. ASSUME NEW c \in Conns, Data(c)
      PROVE  /\ e = envelope[c]
             /\ \/ DataOpen(c) /\ data[c].returnPath /\ Returned(c) \in published'
                \/ phase[c] = "relay" /\ todo[c] = {} /\ published' = published
  <2>1. CASE DataReturned(c)
    BY <2>1 DEF DataReturned, Returned
  <2>2. CASE RelayDone(c)
    BY <2>2 DEF RelayDone
  <2>3. CASE DataRefused(c) \/ RelayAborted(c) \/ RelayFailed(c)
    BY <2>3 DEF DataRefused, RelayAborted, RelayFailed
  <2>4. CASE \E author \in Senders : relay(c, author)
    BY <2>4 DEF relay
  <2>5. CASE \E d \in Destinations : QueueNext(c, d)
    BY <2>5 DEF QueueNext
  <2> QED
    BY <1>1, <2>1, <2>2, <2>3, <2>4, <2>5 DEF Data
<1>2. ASSUME NEW c \in Conns, Command(c)
      PROVE  accepted' = accepted
  BY <1>2 DEF Command, newRelaySession, Logout, Rset, MailRefused, Mail,
     RcptReturnPath, RcptAlias, RcptRefused
<1>3. Crash \/ UNCHANGED vars => accepted' = accepted
  BY DEF Crash, vars
<1> QED
  BY <1>1, <1>2, <1>3 DEF Next

\* Every step keeps AcceptedIsQueued.
LEMMA AcceptedStep ==
  ASSUME IInv, AgreeInv, ServedInv, AcceptedIsQueued, [Next]_vars
  PROVE  AcceptedIsQueued'
<1> SUFFICES ASSUME NEW e \in accepted'
             PROVE  /\ NoReturnPath(e) =>
                         \A d \in Links[LastRcpt(e).to.alias] :
                           \E p \in published' : p.env = e /\ p.To = d /\ p.Via = LastRcpt(e).to
                    /\ LastRcpt(e).home # Nil =>
                         \E p \in published' : p.env = e /\ p.Bounce /\ p.To = LastRcpt(e).home
                    /\ ~NoReturnPath(e) /\ LastRcpt(e).home = Nil =>
                         \E p \in published' : p.env = e /\ p.Bounce /\ p.To = LastRcpt(e).to
  BY DEF AcceptedIsQueued, NoReturnPath, LastRcpt
<1>0. TypeOK /\ SessionInv /\ RelayInv
  BY DEF IInv
<1>1. CASE e \in accepted
  <2>1. published \subseteq published'
    BY NewBounce
  <2> QED
    BY <1>1, <2>1 DEF AcceptedIsQueued
<1>2. CASE e \notin accepted
  <2>1. PICK c \in Conns :
           /\ e = envelope[c]
           /\ \/ DataOpen(c) /\ data[c].returnPath /\ Returned(c) \in published'
              \/ phase[c] = "relay" /\ todo[c] = {} /\ published' = published
    BY <1>2, NewAccepted
  <2>2. Agree(data[c], e, phase[c] = "relay") /\ e \in Envelope
    BY <1>0, <2>1 DEF AgreeInv, TypeOK
  <2>3. CASE DataOpen(c) /\ data[c].returnPath /\ Returned(c) \in published'
    <3>1. ~NoReturnPath(e) /\ e.rcpts # <<>>
      BY <2>1, <2>2, <2>3 DEF Agree, DataOpen
    <3>2. data[c].To = IF LastRcpt(e).home # Nil THEN LastRcpt(e).home ELSE LastRcpt(e).to
      BY <2>2, <3>1 DEF Agree
    <3>3. Returned(c).env = e /\ Returned(c).Bounce /\ Returned(c).To = data[c].To
      BY <2>1 DEF Returned
    <3>4. /\ LastRcpt(e).home # Nil => Returned(c).To = LastRcpt(e).home
          /\ LastRcpt(e).home = Nil => Returned(c).To = LastRcpt(e).to
      BY <3>2, <3>3
    <3> QED
      BY <2>3, <3>1, <3>3, <3>4
  <2>4. CASE phase[c] = "relay" /\ todo[c] = {} /\ published' = published
    <3>1. e.rcpts # <<>> /\ NoReturnPath(e)
      BY <1>0, <2>1, <2>2, <2>4 DEF RelayInv, ServedInv, Agree
    <3>2. Len(e.rcpts) \in DOMAIN e.rcpts
      BY <2>2, <3>1, LastIsOne
    <3>3. LastRcpt(e).home = Nil
      BY <3>1, <3>2 DEF NoReturnPath, LastRcpt
    <3>4. data[c].To = LastRcpt(e).to /\ data[c].Alias = LastRcpt(e).to.alias
      BY <2>2, <3>1, <3>3 DEF Agree
    <3>5. \A d \in Links[data[c].Alias] :
            \E p \in published : p.env = e /\ p.To = d /\ p.Via = data[c].To
      BY <2>1, <2>4 DEF ServedInv
    <3> QED
      BY <2>4, <3>1, <3>3, <3>4, <3>5
  <2> QED
    BY <2>1, <2>3, <2>4
<1> QED
  BY <1>1, <1>2

\* What the invariants say of the initial state.
LEMMA AgreeInit == Init => AgreeInv /\ ServedInv /\ EnvelopeIsolation /\ AcceptedIsQueued
<1> SUFFICES ASSUME Init PROVE AgreeInv /\ ServedInv /\ EnvelopeIsolation /\ AcceptedIsQueued
  OBVIOUS
<1>1. NoData.Message = {} /\ NoData.Alias = Nil /\ NoData.returnPath = FALSE
  BY DEF NoData
<1>2. Agree(NoData, NoEnvelope, FALSE)
  BY <1>1, AgreeEmpty
<1>3. AgreeInv /\ ServedInv
  BY <1>2 DEF Init, AgreeInv, ServedInv
<1> QED
  BY <1>3 DEF Init, EnvelopeIsolation, AcceptedIsQueued

\* Every queued email is made of its own envelope only, whatever the
\* connection was used for before and however many recipients and return paths
\* an envelope names (Reset, Rcpt and Data, relay_session.go).
THEOREM IsolationCorrect == Spec => []EnvelopeIsolation
<1>1. IInv /\ AgreeInv /\ ServedInv /\ EnvelopeIsolation /\ [Next]_vars => EnvelopeIsolation'
  BY IsolationStep
<1> QED
  BY <1>1, AgreeInit, AgreeStep, ServedStep, InvInit, InvStep, PTL DEF Spec

\* A message that was answered 250 is queued: for every destination of the last
\* alias when its recipients are aliases only, for the sender of its return path
\* when that is the last recipient, and for the alias address itself, not for
\* its destinations, when an alias follows a return path.  This holds for any
\* directory, interleaving and crash (Data and relay, relay.go).
THEOREM AcceptedCorrect == Spec => []AcceptedIsQueued
<1>1. IInv /\ AgreeInv /\ ServedInv /\ AcceptedIsQueued /\ [Next]_vars => AcceptedIsQueued'
  BY AcceptedStep
<1> QED
  BY <1>1, AgreeInit, AgreeStep, ServedStep, InvInit, InvStep, PTL DEF Spec
=============================================================================
