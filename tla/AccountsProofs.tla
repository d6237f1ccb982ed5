--------------------------- MODULE AccountsProofs ---------------------------
(***************************************************************************)
(* Proofs about Accounts, for any addresses, registrations, browsers'       *)
(* requests and tokens, any pool and any session duration.                  *)
(***************************************************************************)
EXTENDS Accounts, TLAPS

Requested == [step : Steps, email : Emails \cup {Nil}]
Visited == [step : VisitSteps, torn : BOOLEAN, token : Tokens \cup {Nil}]

\* TypeOK by the parts that actions change together.
WebsiteType ==
  /\ account \in [Emails -> Row \cup {Nil}]
  /\ request \in [Requests -> Requested]
  /\ mailed \in SUBSET Emails /\ reported \in SUBSET Emails /\ subscribed \in SUBSET Emails
  /\ events \in SUBSET Event
  /\ handled \in [Emails -> {"paid", "failed", Nil}]
  /\ leaked \in 0..PoolSize /\ updates = leaked

\* A request that is being served has an address.
RequestInv ==
  \A q \in Requests :
    \/ request[q] \in {Idle, Done}
    \/ request[q].step \notin {"idle", "done"} /\ request[q].email \in Emails

PanelType ==
  /\ store \in [Tokens -> Sessions \cup {Nil}]
  /\ cookie \in Tokens \cup {Nil}
  /\ visit \in [Visits -> Visited]

\* A request that came with a token, or has a session to store, knows its token.
Tokened(r) == r.step \in Storing \cup {"page", "logout"} => r.token \in Tokens

PanelInv == PanelType /\ \A v \in Visits : Tokened(visit[v])

-----------------------------------------------------------------------------
(* The control panel.                                                      *)

\* What a request to the control panel may become.
LEMMA VisitRecords ==
  /\ NoVisit \in Visited /\ Tokened(NoVisit)
  /\ \A step \in VisitSteps, torn \in BOOLEAN, t \in Tokens :
       LET r == [step |-> step, torn |-> torn, token |-> t] IN r \in Visited /\ Tokened(r)
  /\ \A t \in Tokens \cup {Nil} : Answered(t) \in Visited /\ Tokened(Answered(t))
  /\ \A step \in VisitSteps, t \in Tokens :
       LET r == [NoVisit EXCEPT !.step = step, !.token = t] IN r \in Visited /\ Tokened(r)
BY DEF NoVisit, Visited, VisitSteps, Storing, Tokened, Answered

\* A request moves on, whether it uses a buffer of the pool or not.
LEMMA VisitMoves ==
  ASSUME PanelInv, NEW v \in Visits, NEW r \in Visited, Tokened(r),
         Write(v, r) \/ visit' = [visit EXCEPT ![v] = r]
  PROVE  visit' \in [Visits -> Visited] /\ \A w \in Visits : Tokened(visit'[w])
<1>1. visit \in [Visits -> Visited] /\ \A w \in Visits : Tokened(visit[w])
  BY DEF PanelInv, PanelType
<1>2. CASE visit' = [visit EXCEPT ![v] = r]
  BY <1>1, <1>2
<1>3. CASE Write(v, r)
  <2>1. ASSUME NEW p \in Visited, Tokened(p), NEW b \in BOOLEAN
        PROVE  LET n == [p EXCEPT !.torn = @ \/ b] IN n \in Visited /\ Tokened(n)
    <3> DEFINE n == [p EXCEPT !.torn = @ \/ b]
    <3>1. p.torn \in BOOLEAN
      BY DEF Visited
    <3>2. (p.torn \/ b) \in BOOLEAN
      BY <3>1
    <3>3. n \in Visited /\ n.step = p.step /\ n.token = p.token
      BY <3>2 DEF Visited
    <3>4. QED
      BY <2>1, <3>3 DEF Tokened
  <2>2. ASSUME NEW w \in Visits PROVE visit'[w] \in Visited /\ Tokened(visit'[w])
    <3>1. CASE w = v
      BY <1>3, <3>1 DEF Write
    <3>2. CASE w # v
      <4>1. visit'[w] = [visit[w] EXCEPT !.torn = @ \/ (visit[w].step \in Storing)]
        BY <1>3, <3>2 DEF Write
      <4>2. (visit[w].step \in Storing) \in BOOLEAN
        OBVIOUS
      <4>3. QED
        BY <1>1, <2>1, <4>1, <4>2
    <3>3. QED
      BY <3>1, <3>2
  <2>3. visit' \in [Visits -> Visited]
    BY <1>3, <2>2 DEF Write
  <2>4. QED
    BY <2>2, <2>3
<1>4. QED
  BY <1>2, <1>3

\* A session is encoded: the request has a token that nobody uses.
LEMMA SetCookieStep ==
  ASSUME PanelInv, NEW v \in Visits, NEW step \in Storing, setCookie(v, step),
         UNCHANGED <<store, cookie>>
  PROVE  PanelInv'
<1> DEFINE r == [step |-> step, torn |-> FALSE, token |-> NewToken]
<1>1. NewToken \in Tokens
  BY DEF setCookie, NewToken, Unused
<1>2. r \in Visited /\ Tokened(r)
  BY <1>1, VisitRecords DEF VisitSteps
<1>3. Write(v, r)
  BY DEF setCookie
<1> HIDE DEF r
<1>4. QED
  BY <1>2, <1>3, VisitMoves DEF PanelInv, PanelType

\* Commit stores a session, or what does not decode.
LEMMA CommitStep ==
  ASSUME PanelInv, NEW v \in Visits, Commit(v)
  PROVE  PanelInv'
<1>1. visit[v].token \in Tokens
  BY DEF Commit, PanelInv, Tokened
<1>2. PICK s \in Stored(visit[v].torn) : store' = [store EXCEPT ![visit[v].token] = s]
  BY DEF Commit
<1>3. s \in Sessions \cup {Nil}
  <2>1. Session(TRUE) \in Sessions /\ Session(FALSE) \in Sessions
    BY AccountsAssumption DEF Session, Sessions
  <2>2. s \in {Session(FALSE), Session(TRUE), Nil}
    BY DEF Stored
  <2>3. QED
    BY <2>1, <2>2
<1>4. store' \in [Tokens -> Sessions \cup {Nil}]
  BY <1>1, <1>2, <1>3 DEF PanelInv, PanelType
<1>5. PICK t \in Tokens \cup {Nil} : Write(v, Answered(t)) \/ visit' = [visit EXCEPT ![v] = Answered(t)]
  BY <1>1 DEF Commit
<1>6. visit' \in [Visits -> Visited] /\ \A w \in Visits : Tokened(visit'[w])
  BY <1>5, VisitRecords, VisitMoves
<1>7. QED
  BY <1>4, <1>6 DEF PanelInv, PanelType, Commit

\* Requests to the control panel preserve its invariant.
LEMMA VisitStep ==
  ASSUME PanelInv, NEW v \in Visits, Visit(v)
  PROVE  PanelInv'
<1>1. ASSUME NEW e \in Emails, Login(v, e) PROVE PanelInv'
  BY <1>1, SetCookieStep DEF Login, Storing
<1>2. ASSUME NEW step \in {"page", "logout"}, Send(v, step) PROVE PanelInv'
  <2> DEFINE r == [NoVisit EXCEPT !.step = step, !.token = cookie]
  <2>1. cookie \in Tokens /\ UNCHANGED <<store, cookie>> /\ visit' = [visit EXCEPT ![v] = r]
    BY <1>2 DEF Send, PanelInv, PanelType
  <2>2. r \in Visited /\ Tokened(r)
    BY <2>1, VisitRecords DEF VisitSteps
  <2> HIDE DEF r
  <2>3. QED
    BY <2>1, <2>2, VisitMoves DEF PanelInv, PanelType
<1>3. CASE auth(v) \/ Logout(v) \/ Redirect(v)
  <2>1. UNCHANGED <<store, cookie>>
    BY <1>3 DEF auth, Logout, Redirect
  <2>2. \/ \E step \in Storing : setCookie(v, step)
        \/ \E r \in {NoVisit, Answered(Nil)} : Write(v, r) \/ visit' = [visit EXCEPT ![v] = r]
    BY <1>3 DEF auth, Logout, Redirect, Storing
  <2>3. ASSUME NEW r \in {NoVisit, Answered(Nil)}, Write(v, r) \/ visit' = [visit EXCEPT ![v] = r]
        PROVE  PanelInv'
    <3>1. r \in Visited /\ Tokened(r)
      BY VisitRecords
    <3>2. QED
      BY <2>1, <2>3, <3>1, VisitMoves DEF PanelInv, PanelType
  <2>4. QED
    BY <2>1, <2>2, <2>3, SetCookieStep
<1>4. CASE Answer(v)
  <2>1. UNCHANGED store /\ cookie' = visit[v].token /\ visit' = [visit EXCEPT ![v] = NoVisit]
    BY <1>4 DEF Answer
  <2>2. visit[v].token \in Tokens \cup {Nil}
    BY DEF PanelInv, PanelType, Visited
  <2>3. QED
    BY <2>1, <2>2, VisitRecords, VisitMoves DEF PanelInv, PanelType
<1>5. QED
  BY <1>1, <1>2, <1>3, <1>4, CommitStep DEF Visit

\* Ageing and dropping sessions preserves the invariant.
LEMMA TickStep ==
  ASSUME PanelInv, Tick
  PROVE  PanelInv'
<1>1. ASSUME NEW r \in Sessions, r.left > 0
      PROVE  [r EXCEPT !.left = @ - 1] \in Sessions
  BY <1>1, AccountsAssumption DEF Sessions
<1>2. ASSUME NEW t \in Tokens
      PROVE  store'[t] \in Sessions \cup {Nil}
  BY <1>1 DEF Tick, PanelInv, PanelType
<1>3. store' \in [Tokens -> Sessions \cup {Nil}]
  BY <1>2 DEF Tick
<1>4. QED
  BY <1>3 DEF Tick, PanelInv, PanelType

-----------------------------------------------------------------------------
(* The website and Stripe.                                                 *)

\* An account exists from its INSERT on; it has its customer's id before Stripe
\* has a subscription, and so an event, of it.
Rank(e) ==
  /\ e \in mailed => account[e] # Nil
  /\ e \in subscribed => account[e] # Nil /\ account[e].customer
  /\ handled[e] # Nil => e \in subscribed

Subscribers == \A ev \in events : ev.customer \in subscribed

WebsiteInv ==
  /\ WebsiteType /\ RequestInv
  /\ \A e \in Emails : Rank(e)
  /\ Subscribers
  /\ \A q \in Requests : request[q].step \in {"customer", "update", "mail"} =>
       account[request[q].email] # Nil
  /\ PlanIsLastEvent
  /\ StuckIsReported

\* Steps that leave a request where it is, or end it and report its address.
LEMMA RowFields ==
  ASSUME NEW r \in Row, NEW p \in Plans
  PROVE  /\ [r EXCEPT !.customer = TRUE] \in Row
         /\ [r EXCEPT !.customer = TRUE].customer
         /\ [r EXCEPT !.customer = TRUE].plan = r.plan
         /\ [r EXCEPT !.verified = TRUE] \in Row
         /\ [r EXCEPT !.verified = TRUE].customer = r.customer
         /\ [r EXCEPT !.verified = TRUE].plan = r.plan
         /\ [r EXCEPT !.plan = p] \in Row
         /\ [r EXCEPT !.plan = p].customer = r.customer
         /\ [r EXCEPT !.plan = p].plan = p
BY DEF Row

\* A registration that moves to another step keeps its address.
LEMMA RequestFields ==
  ASSUME NEW r \in Requested, NEW s \in Steps
  PROVE  /\ [r EXCEPT !.step = s] \in Requested
         /\ [r EXCEPT !.step = s].step = s
         /\ [r EXCEPT !.step = s].email = r.email
BY DEF Requested

\* Idle and Done are requests.
LEMMA RequestConstants ==
  /\ Idle \in Requested /\ Idle.step = "idle" /\ Idle.email = Nil
  /\ Done \in Requested /\ Done.step = "done" /\ Done.email = Nil
  /\ Nil \notin Row
BY NilAssumption DEF Idle, Done, Requested, Steps

\* What the invariant says of a request in progress.
LEMMA RequestAt ==
  ASSUME WebsiteInv, NEW q \in Requests, Serving(q) \/ request[q].step \notin {"idle", "done"}
  PROVE  /\ request[q] \in Requested /\ request[q].email \in Emails
         /\ account[request[q].email] \in Row \cup {Nil}
         /\ request[q].step \notin {"idle", "done"}
BY RequestConstants DEF WebsiteInv, WebsiteType, RequestInv, Serving

\* A request moves on to step s.
LEMMA GotoEffect ==
  ASSUME WebsiteInv, NEW q \in Requests, request[q].step \notin {"idle", "done"},
         NEW s \in Steps \ {"idle", "done"}, Goto(q, s)
  PROVE  /\ request' \in [Requests -> Requested] /\ RequestInv'
         /\ request'[q].step = s /\ request'[q].email = request[q].email
         /\ \A p \in Requests \ {q} : request'[p] = request[p]
<1>1. request[q] \in Requested /\ request[q].email \in Emails
  BY RequestAt
<1>2. request' = [request EXCEPT ![q] = [request[q] EXCEPT !.step = s]]
  BY DEF Goto
<1>3. request \in [Requests -> Requested]
  BY DEF WebsiteInv, WebsiteType
<1>4. /\ [request[q] EXCEPT !.step = s] \in Requested /\ [request[q] EXCEPT !.step = s].step = s
      /\ [request[q] EXCEPT !.step = s].email = request[q].email
  BY <1>1, RequestFields
<1>5. /\ request' \in [Requests -> Requested]
      /\ request'[q].step = s /\ request'[q].email = request[q].email
      /\ \A p \in Requests \ {q} : request'[p] = request[p]
  BY <1>2, <1>3, <1>4
<1>6. RequestInv'
  BY <1>1, <1>5 DEF WebsiteInv, RequestInv, Idle, Done
<1>7. QED
  BY <1>5, <1>6

\* A request ends.
LEMMA DoneEffect ==
  ASSUME WebsiteInv, NEW q \in Requests, request' = [request EXCEPT ![q] = Done]
  PROVE  /\ request' \in [Requests -> Requested] /\ RequestInv'
         /\ request'[q].step = "done"
         /\ \A p \in Requests \ {q} : request'[p] = request[p]
BY RequestConstants DEF WebsiteInv, WebsiteType, RequestInv, Idle, Done

\* A registration step that leaves the accounts and Stripe alone: a request
\* that held an account is reported or mailed when it lets go of it.
LEMMA QuietStep ==
  ASSUME WebsiteInv, NEW q \in Requests,
         request' \in [Requests -> Requested], RequestInv',
         \A p \in Requests \ {q} : request'[p] = request[p],
         UNCHANGED <<account, leaked, updates, subscribed, events, handled>>,
         mailed' \in SUBSET Emails, mailed \subseteq mailed',
         reported' \in SUBSET Emails, reported \subseteq reported' \cup mailed',
         \A e \in mailed' : account[e] # Nil,
         request'[q].step \in {"customer", "update", "mail"} => account[request'[q].email] # Nil,
         request[q].step \in {"customer", "update", "mail"} =>
           \/ request[q].email \in mailed' \cup reported'
           \/ /\ request'[q].step \in {"customer", "update", "mail"}
              /\ request'[q].email = request[q].email
  PROVE  WebsiteInv'
<1>1. WebsiteType'
  BY DEF WebsiteInv, WebsiteType
<1>2. \A e \in Emails : Rank(e)'
  BY DEF WebsiteInv, Rank
<1>3. Subscribers' /\ PlanIsLastEvent'
  BY DEF WebsiteInv, Subscribers, PlanIsLastEvent
<1>4. \A p \in Requests : request'[p].step \in {"customer", "update", "mail"} =>
        account'[request'[p].email] # Nil
  BY DEF WebsiteInv
<1>5. StuckIsReported'
  BY DEF WebsiteInv, StuckIsReported
<1>6. QED
  BY <1>1, <1>2, <1>3, <1>4, <1>5 DEF WebsiteInv

\* Every step of a registration, failing ones too, preserves the website's invariant.
LEMMA RegistrationStep ==
  ASSUME WebsiteInv, NEW q \in Requests, Registration(q)
  PROVE  WebsiteInv' /\ UNCHANGED panel
<1> DEFINE At == {"customer", "update", "mail"}
<1>0. /\ mailed \in SUBSET Emails /\ reported \in SUBSET Emails
      /\ \A e \in mailed : account[e] # Nil
      /\ \A p \in Requests : request[p].step \in At => account[request[p].email] # Nil
      /\ request \in [Requests -> Requested] /\ account \in [Emails -> Row \cup {Nil}]
  BY DEF WebsiteInv, WebsiteType, Rank
<1>1. ASSUME NEW e \in Emails, Post(q, e) PROVE WebsiteInv' /\ UNCHANGED panel
  <2> DEFINE r == [step |-> "count", email |-> e]
  <2>1. r \in Requested /\ r.step = "count" /\ r.email = e
    BY DEF Requested, Steps
  <2>2. /\ request[q] = Idle /\ request' = [request EXCEPT ![q] = r]
        /\ UNCHANGED <<account, mailed, reported, leaked, updates, billing, panel>>
    BY <1>1 DEF Post
  <2> HIDE DEF r
  <2>3. /\ request' \in [Requests -> Requested] /\ request'[q] = r
        /\ \A p \in Requests \ {q} : request'[p] = request[p]
    BY <1>0, <2>1, <2>2
  <2>4. RequestInv'
    BY <2>1, <2>3 DEF WebsiteInv, RequestInv, Idle, Done
  <2>5. request[q].step \notin At
    BY <2>2, RequestConstants
  <2>6. QED
    BY <1>0, <2>1, <2>2, <2>3, <2>4, <2>5, QuietStep DEF billing
<1>2. CASE Count(q)
  <2>1. /\ request[q].step = "count"
        /\ Goto(q, "insert") \/ request' = [request EXCEPT ![q] = Done]
        /\ UNCHANGED <<account, mailed, reported, leaked, updates, billing, panel>>
    BY <1>2 DEF Count
  <2>2. /\ request' \in [Requests -> Requested] /\ RequestInv' /\ request'[q].step \notin At
        /\ \A p \in Requests \ {q} : request'[p] = request[p]
    BY <2>1, GotoEffect, DoneEffect DEF Steps
  <2>3. QED
    BY <1>0, <2>1, <2>2, QuietStep DEF billing
<1>3. CASE InsertRefused(q) \/ RegisterFails(q)
  <2>1. /\ Serving(q) \/ request[q].step \notin {"idle", "done"}
        /\ request' = [request EXCEPT ![q] = Done]
        /\ reported' = reported \cup ({request[q].email} \ mailed)
        /\ UNCHANGED <<account, mailed, leaked, updates, billing, panel>>
    BY <1>3 DEF InsertRefused, RegisterFails, Fail
  <2>2. request[q].email \in Emails
    BY <2>1, RequestAt
  <2>3. /\ request' \in [Requests -> Requested] /\ RequestInv' /\ request'[q].step \notin At
        /\ \A p \in Requests \ {q} : request'[p] = request[p]
    BY <2>1, DoneEffect
  <2>4. QED
    BY <1>0, <2>1, <2>2, <2>3, QuietStep DEF billing
<1>4. CASE CustomerNew(q)
  <2>1. /\ request[q].step = "customer" /\ Goto(q, "update")
        /\ UNCHANGED <<account, mailed, reported, leaked, updates, billing, panel>>
    BY <1>4 DEF CustomerNew
  <2>2. /\ request' \in [Requests -> Requested] /\ RequestInv'
        /\ request'[q].step = "update" /\ request'[q].email = request[q].email
        /\ \A p \in Requests \ {q} : request'[p] = request[p]
    BY <2>1, GotoEffect DEF Steps
  <2>3. QED
    BY <1>0, <2>1, <2>2, QuietStep DEF billing
<1>5. CASE queueVerifyEmail(q)
  <2>1. /\ request[q].step = "mail" /\ request' = [request EXCEPT ![q] = Done]
        /\ mailed' = mailed \cup {request[q].email} /\ reported' = reported \ {request[q].email}
        /\ UNCHANGED <<account, leaked, updates, billing, panel>>
    BY <1>5 DEF queueVerifyEmail
  <2>2. request[q].email \in Emails
    BY <2>1, RequestAt
  <2>3. /\ request' \in [Requests -> Requested] /\ RequestInv' /\ request'[q].step \notin At
        /\ \A p \in Requests \ {q} : request'[p] = request[p]
    BY <2>1, DoneEffect
  <2>4. QED
    BY <1>0, <2>1, <2>2, <2>3, QuietStep DEF billing
<1>6. CASE Insert(q)
  <2> DEFINE e == request[q].email
             r == [verified |-> FALSE, plan |-> "free", customer |-> FALSE]
  <2>1. /\ request[q].step = "insert" /\ account[e] = Nil
        /\ account' = [account EXCEPT ![e] = r]
        /\ Goto(q, "customer") \/ Goto(q, "mail")
        /\ UNCHANGED <<mailed, reported, leaked, updates, subscribed, events, handled, panel>>
    BY <1>6 DEF Insert, billing
  <2>2. e \in Emails
    BY <2>1, RequestAt
  <2>3. r \in Row /\ r # Nil /\ r.plan = "free"
    <3>1. r \in Row /\ r.plan = "free"
      BY DEF Row, Plans
    <3> HIDE DEF r
    <3>2. QED
      BY <3>1, NilAssumption
  <2>4. /\ request' \in [Requests -> Requested] /\ RequestInv'
        /\ request'[q].step \in At /\ request'[q].email = e
        /\ \A p \in Requests \ {q} : request'[p] = request[p]
    BY <2>1, GotoEffect DEF Steps
  <2> HIDE DEF e, r
  <2>5. /\ account' \in [Emails -> Row \cup {Nil}] /\ account'[e] = r
        /\ \A d \in Emails \ {e} : account'[d] = account[d]
    BY <1>0, <2>1, <2>2, <2>3
  <2>6. WebsiteType'
    BY <2>1, <2>4, <2>5 DEF WebsiteInv, WebsiteType
  <2>7. handled[e] = Nil /\ e \notin mailed /\ e \notin subscribed
    BY <2>1, <2>2 DEF WebsiteInv, Rank
  <2>8. \A d \in Emails : Rank(d)'
    BY <2>1, <2>2, <2>5, <2>7 DEF WebsiteInv, Rank
  <2>9. PlanIsLastEvent'
    BY <2>1, <2>3, <2>5, <2>7, NilAssumption DEF WebsiteInv, PlanIsLastEvent
  <2>10. \A p \in Requests : request'[p].step \in At => account'[request'[p].email] # Nil
    <3>1. SUFFICES ASSUME NEW p \in Requests, request'[p].step \in At
                   PROVE  account'[request'[p].email] # Nil
      OBVIOUS
    <3>2. CASE p = q
      BY <2>3, <2>4, <2>5, <3>2
    <3>3. CASE p # q
      <4>1. request[p].step \in At /\ request'[p] = request[p]
        BY <2>4, <3>1, <3>3
      <4>2. account[request[p].email] # Nil /\ request[p].email \in Emails
        BY <1>0, <4>1, RequestAt
      <4>3. QED
        BY <2>3, <2>5, <4>1, <4>2
    <3>4. QED
      BY <3>2, <3>3
  <2>11. StuckIsReported'
    BY <2>1, <2>2, <2>4, <2>5 DEF WebsiteInv, StuckIsReported
  <2>12. QED
    BY <2>1, <2>4, <2>6, <2>8, <2>9, <2>10, <2>11 DEF WebsiteInv, Subscribers
<1>7. CASE SetCustomer(q)
  <2> DEFINE e == request[q].email
  <2>1. /\ request[q].step = "update" /\ Goto(q, "mail")
        /\ account' = [account EXCEPT ![e] = [account[e] EXCEPT !.customer = TRUE]]
        /\ UNCHANGED <<mailed, reported, leaked, updates, subscribed, events, handled, panel>>
    BY <1>7 DEF SetCustomer, billing
  <2>2. e \in Emails /\ account[e] \in Row
    <3>1. e \in Emails /\ account[e] \in Row \cup {Nil} /\ account[e] # Nil
      BY <1>0, <2>1, RequestAt
    <3>2. QED
      BY <3>1
  <2> DEFINE r == [account[e] EXCEPT !.customer = TRUE]
  <2>3. r \in Row /\ r # Nil /\ r.plan = account[e].plan /\ r.customer
    BY <2>2, RowFields, NilAssumption DEF Plans
  <2>4. /\ request' \in [Requests -> Requested] /\ RequestInv'
        /\ request'[q].step = "mail" /\ request'[q].email = e
        /\ \A p \in Requests \ {q} : request'[p] = request[p]
    BY <2>1, GotoEffect DEF Steps
  <2>5. /\ account' \in [Emails -> Row \cup {Nil}] /\ account'[e] = r
        /\ \A d \in Emails \ {e} : account'[d] = account[d]
    <3> HIDE DEF e
    <3>1. QED
      BY <1>0, <2>1, <2>2, <2>3
  <2>6. account[e] # Nil
    BY <2>2, NilAssumption
  <2> HIDE DEF e, r
  <2>7. WebsiteType'
    BY <2>1, <2>4, <2>5 DEF WebsiteInv, WebsiteType
  <2>8. \A d \in Emails : Rank(d)'
    BY <2>1, <2>2, <2>3, <2>5 DEF WebsiteInv, Rank
  <2>9. PlanIsLastEvent'
    BY <2>1, <2>2, <2>3, <2>5, <2>6 DEF WebsiteInv, PlanIsLastEvent
  <2>10. \A d \in Emails : account[d] # Nil => account'[d] # Nil
    BY <2>3, <2>5
  <2>11. \A p \in Requests : request'[p].step \in At => account'[request'[p].email] # Nil
    <3>1. SUFFICES ASSUME NEW p \in Requests, request'[p].step \in At
                   PROVE  account'[request'[p].email] # Nil
      OBVIOUS
    <3>2. CASE p = q
      BY <2>3, <2>4, <2>5, <3>2
    <3>3. CASE p # q
      BY <1>0, <2>4, <2>10, <3>1, <3>3, RequestAt
    <3>4. QED
      BY <3>2, <3>3
  <2>12. StuckIsReported'
    BY <2>1, <2>4, <2>5, <2>6 DEF WebsiteInv, StuckIsReported, e
  <2>13. QED
    BY <2>1, <2>4, <2>7, <2>8, <2>9, <2>11, <2>12 DEF WebsiteInv, Subscribers
<1>8. QED
  BY <1>1, <1>2, <1>3, <1>4, <1>5, <1>6, <1>7 DEF Registration, registerUser

\* A restart ends requests and reports their addresses.
LEMMA RestartStep ==
  ASSUME WebsiteInv, Restart
  PROVE  WebsiteInv' /\ UNCHANGED panel
<1>1. /\ leaked' = 0 /\ updates' = 0
      /\ reported' = reported \cup ({request[q].email : q \in Requests} \ (mailed \cup {Nil}))
      /\ UNCHANGED <<account, mailed, subscribed, events, handled, panel>>
  BY DEF Restart, billing
<1>2. /\ request' \in [Requests -> Requested]
      /\ \A q \in Requests : request'[q] = IF Serving(q) THEN Done ELSE request[q]
  BY RequestConstants DEF Restart, WebsiteInv, WebsiteType
<1>3. \A q \in Requests : request'[q] \in {Idle, Done}
  BY <1>2 DEF Serving
<1>4. RequestInv'
  BY <1>3 DEF RequestInv, Idle, Done
<1>5. WebsiteType'
  <2>1. {request[q].email : q \in Requests} \ (mailed \cup {Nil}) \in SUBSET Emails
    BY DEF WebsiteInv, WebsiteType, Requested
  <2>2. reported' \in SUBSET Emails /\ leaked' \in 0..PoolSize /\ updates' = leaked'
    BY <1>1, <2>1, AccountsAssumption DEF WebsiteInv, WebsiteType
  <2>3. QED
    BY <1>1, <1>2, <2>2 DEF WebsiteInv, WebsiteType
<1>6. \A q \in Requests : request'[q].step \notin {"customer", "update", "mail"}
  BY <1>3, RequestConstants
<1>7. StuckIsReported'
  <2>1. SUFFICES ASSUME NEW e \in Emails, account[e] # Nil, e \notin mailed PROVE e \in reported'
    BY <1>1 DEF StuckIsReported
  <2>2. CASE e \in reported
    BY <1>1, <2>2
  <2>3. ASSUME NEW q \in Requests, request[q].email = e PROVE e \in reported'
    BY <1>1, <2>1, <2>3, AccountsAssumption
  <2>4. QED
    BY <2>1, <2>2, <2>3 DEF WebsiteInv, StuckIsReported
<1>8. (\A e \in Emails : Rank(e)') /\ Subscribers' /\ PlanIsLastEvent'
  BY <1>1 DEF WebsiteInv, Rank, Subscribers, PlanIsLastEvent
<1>9. QED
  BY <1>1, <1>4, <1>5, <1>6, <1>7, <1>8 DEF WebsiteInv

\* A step that changes rows, without adding or removing one, or Stripe's side.
LEMMA RowsStep ==
  ASSUME WebsiteInv, UNCHANGED <<request, mailed, reported>>,
         account' \in [Emails -> Row \cup {Nil}],
         \A e \in Emails : (account'[e] = Nil) = (account[e] = Nil),
         subscribed' \in SUBSET Emails, events' \in SUBSET Event,
         handled' \in [Emails -> {"paid", "failed", Nil}],
         leaked' \in 0..PoolSize, updates' = leaked',
         \A e \in Emails : Rank(e)', Subscribers', PlanIsLastEvent'
  PROVE  WebsiteInv'
<1>1. WebsiteType' /\ RequestInv'
  BY DEF WebsiteInv, WebsiteType, RequestInv, Idle, Done
<1>2. \A q \in Requests : request'[q].step \in {"customer", "update", "mail"} =>
        account'[request'[q].email] # Nil
  BY RequestAt DEF WebsiteInv
<1>3. StuckIsReported'
  BY DEF WebsiteInv, StuckIsReported
<1>4. QED
  BY <1>1, <1>2, <1>3 DEF WebsiteInv

\* Verification changes neither plan nor customer.
LEMMA VerifyStep ==
  ASSUME WebsiteInv, NEW e \in Emails, Verify(e)
  PROVE  WebsiteInv' /\ UNCHANGED panel
<1> DEFINE r == [account[e] EXCEPT !.verified = TRUE]
<1>1. /\ account' = [account EXCEPT ![e] = r] /\ e \in mailed
      /\ UNCHANGED <<request, mailed, reported, leaked, updates, subscribed, events, handled, panel>>
  BY DEF Verify, website, billing
<1>2. account \in [Emails -> Row \cup {Nil}] /\ account[e] \in Row /\ account[e] # Nil
  BY <1>1 DEF WebsiteInv, WebsiteType, Rank
<1>3. r \in Row /\ r # Nil /\ r.plan = account[e].plan /\ r.customer = account[e].customer
  BY <1>2, RowFields, NilAssumption DEF Plans
<1> HIDE DEF r
<1>4. /\ account' \in [Emails -> Row \cup {Nil}] /\ account'[e] = r
      /\ \A d \in Emails \ {e} : account'[d] = account[d]
  BY <1>1, <1>2, <1>3
<1>5. \A d \in Emails : (account'[d] = Nil) = (account[d] = Nil)
  BY <1>2, <1>3, <1>4
<1>6. \A d \in Emails : Rank(d)'
  BY <1>1, <1>2, <1>3, <1>4 DEF WebsiteInv, Rank
<1>7. Subscribers' /\ PlanIsLastEvent'
  BY <1>1, <1>2, <1>3, <1>4 DEF WebsiteInv, Subscribers, PlanIsLastEvent
<1>8. QED
  BY <1>1, <1>4, <1>5, <1>6, <1>7, RowsStep DEF WebsiteInv, WebsiteType

\* Subscriptions and invoices concern customers whose row has its id.
LEMMA PaymentStep ==
  ASSUME WebsiteInv, NEW e \in Emails, Payment(e)
  PROVE  WebsiteInv' /\ UNCHANGED panel
<1>1. CASE handleStripeCreateSubscription(e)
  <2>1. /\ e \in mailed /\ account[e].customer /\ subscribed' = subscribed \cup {e}
        /\ UNCHANGED <<account, request, mailed, reported, leaked, updates, events, handled, panel>>
    BY <1>1 DEF handleStripeCreateSubscription, website
  <2>2. \A d \in Emails : Rank(d)'
    BY <2>1 DEF WebsiteInv, Rank
  <2>3. Subscribers' /\ PlanIsLastEvent'
    BY <2>1 DEF WebsiteInv, Subscribers, PlanIsLastEvent
  <2>4. QED
    BY <2>1, <2>2, <2>3, RowsStep DEF WebsiteInv, WebsiteType
<1>2. ASSUME NEW paid \in BOOLEAN, Invoice(e, paid) PROVE WebsiteInv' /\ UNCHANGED panel
  <2> DEFINE ev == [customer |-> e, paid |-> paid]
  <2>1. /\ e \in subscribed /\ events' = events \cup {ev}
        /\ UNCHANGED <<account, request, mailed, reported, leaked, updates, subscribed, handled, panel>>
    BY <1>2 DEF Invoice, website
  <2>2. ev \in Event /\ ev.customer = e
    BY DEF Event
  <2> HIDE DEF ev
  <2>3. \A d \in Emails : Rank(d)'
    BY <2>1 DEF WebsiteInv, Rank
  <2>4. Subscribers' /\ PlanIsLastEvent'
    BY <2>1, <2>2 DEF WebsiteInv, Subscribers, PlanIsLastEvent
  <2>5. QED
    BY <2>1, <2>2, <2>3, <2>4, RowsStep DEF WebsiteInv, WebsiteType
<1>3. QED
  BY <1>1, <1>2 DEF Payment

\* A handled event sets the plan of its customer's row.
LEMMA WebhookStep ==
  ASSUME WebsiteInv, NEW ev \in events, handleStripeWebhook(ev)
  PROVE  WebsiteInv' /\ UNCHANGED panel
<1> DEFINE e == ev.customer
           r == [account[e] EXCEPT !.plan = PlanOf(ev.paid)]
<1>1. ev \in Event /\ e \in Emails /\ e \in subscribed
  BY DEF WebsiteInv, WebsiteType, Subscribers, Event
<1>2. account \in [Emails -> Row \cup {Nil}] /\ account[e] \in Row /\ account[e] # Nil
      /\ account[e].customer
  BY <1>1 DEF WebsiteInv, WebsiteType, Rank
<1>3. PlanOf(ev.paid) \in Plans
  BY DEF PlanOf, Plans
<1>4. r \in Row /\ r # Nil /\ r.plan = PlanOf(ev.paid) /\ r.customer
  <2> DEFINE p == PlanOf(ev.paid)
  <2>1. p \in Plans
    BY <1>3
  <2> HIDE DEF p
  <2>2. LET n == [account[e] EXCEPT !.plan = p] IN
        n \in Row /\ n.plan = p /\ n.customer = account[e].customer
    BY <1>2, <2>1, RowFields
  <2>3. r \in Row /\ r.plan = p /\ r.customer
    BY <1>2, <2>2 DEF p
  <2> HIDE DEF r
  <2>4. QED
    BY <2>3, NilAssumption DEF p
<1>5. account' = [account EXCEPT ![e] = r]
  BY <1>2 DEF handleStripeWebhook
<1>6. /\ leaked < PoolSize /\ leaked' = leaked + 1 /\ updates' = updates + 1
      /\ handled' = [handled EXCEPT ![e] = IF ev.paid THEN "paid" ELSE "failed"]
      /\ events' \subseteq events
      /\ UNCHANGED <<request, mailed, reported, subscribed, panel>>
  BY DEF handleStripeWebhook, Connection
<1>8. (handled'[e] = "paid") = (PlanOf(ev.paid) = "subscription") /\ (PlanOf(ev.paid) # "subscription" => PlanOf(ev.paid) = "free")
      /\ handled' \in [Emails -> {"paid", "failed", Nil}]
  BY <1>1, <1>6 DEF PlanOf, WebsiteInv, WebsiteType
<1> HIDE DEF e, r
<1>9. /\ account' \in [Emails -> Row \cup {Nil}] /\ account'[e] = r
      /\ \A d \in Emails \ {e} : account'[d] = account[d]
  BY <1>1, <1>2, <1>4, <1>5
<1>10. \A d \in Emails : (account'[d] = Nil) = (account[d] = Nil)
  BY <1>2, <1>4, <1>9
<1>11. \A d \in Emails \ {e} : handled'[d] = handled[d]
  BY <1>6 DEF WebsiteInv, WebsiteType
<1>12. \A d \in Emails : Rank(d)'
  BY <1>1, <1>4, <1>6, <1>9, <1>10, <1>11 DEF WebsiteInv, Rank
<1>13. Subscribers'
  BY <1>6 DEF WebsiteInv, Subscribers
<1>14. PlanIsLastEvent'
  BY <1>4, <1>8, <1>9, <1>11 DEF WebsiteInv, PlanIsLastEvent
<1>15. leaked' \in 0..PoolSize /\ updates' = leaked'
  BY <1>6, AccountsAssumption DEF WebsiteInv, WebsiteType
<1>16. WebsiteInv'
  BY <1>6, <1>8, <1>9, <1>10, <1>12, <1>13, <1>14, <1>15, RowsStep DEF WebsiteInv, WebsiteType
<1>17. QED
  BY <1>6, <1>16

\* A lost event changes nothing but the set of events.
LEMMA LostStep ==
  ASSUME WebsiteInv, NEW ev \in events, EventLost(ev)
  PROVE  WebsiteInv' /\ UNCHANGED panel
<1>1. /\ events' = events \ {ev}
      /\ UNCHANGED <<account, request, mailed, reported, leaked, updates, subscribed, handled, panel>>
  BY DEF EventLost, website
<1>2. (\A d \in Emails : Rank(d)') /\ Subscribers' /\ PlanIsLastEvent'
  BY <1>1 DEF WebsiteInv, Rank, Subscribers, PlanIsLastEvent
<1>3. QED
  BY <1>1, <1>2, RowsStep DEF WebsiteInv, WebsiteType

-----------------------------------------------------------------------------
(* Theorems.                                                               *)

AccountsInv == WebsiteInv /\ PanelInv

\* The invariant holds before the first request.
LEMMA InitAccounts == Init => AccountsInv
<1> SUFFICES ASSUME Init PROVE AccountsInv
  OBVIOUS
<1>1. WebsiteType
  <2>1. leaked \in 0..PoolSize /\ updates = leaked
    BY AccountsAssumption DEF Init
  <2>2. request \in [Requests -> Requested] /\ account \in [Emails -> Row \cup {Nil}]
        /\ handled \in [Emails -> {"paid", "failed", Nil}]
    BY RequestConstants DEF Init
  <2>3. QED
    BY <2>1, <2>2 DEF Init, WebsiteType
<1>2. RequestInv /\ \A q \in Requests : request[q].step = "idle"
  BY RequestConstants DEF Init, RequestInv
<1>3. (\A e \in Emails : Rank(e)) /\ Subscribers /\ PlanIsLastEvent /\ StuckIsReported
  BY DEF Init, Rank, Subscribers, PlanIsLastEvent, StuckIsReported
<1>4. PanelInv
  BY VisitRecords DEF Init, PanelInv, PanelType
<1>5. QED
  BY <1>1, <1>2, <1>3, <1>4 DEF AccountsInv, WebsiteInv

\* Every step of the website, of Stripe and of the control panel preserves the
\* invariant.
LEMMA AccountsStep ==
  ASSUME AccountsInv, [Next]_vars
  PROVE  AccountsInv'
<1>0. WebsiteInv /\ PanelInv /\ WebsiteType
  BY DEF AccountsInv, WebsiteInv
<1>1. ASSUME UNCHANGED panel PROVE PanelInv'
  <2>1. UNCHANGED <<store, cookie, visit>>
    BY <1>1 DEF panel
  <2>2. QED
    BY <1>0, <2>1 DEF PanelInv, PanelType
<1>2. ASSUME UNCHANGED <<account, website, billing>> PROVE WebsiteInv'
  <2>1. UNCHANGED <<account, request, mailed, reported, leaked, updates, subscribed, events, handled>>
    BY <1>2 DEF website, billing
  <2>2. (\A d \in Emails : Rank(d)') /\ Subscribers' /\ PlanIsLastEvent'
    BY <1>0, <2>1 DEF WebsiteInv, Rank, Subscribers, PlanIsLastEvent
  <2>3. QED
    BY <1>0, <2>1, <2>2, RowsStep DEF WebsiteInv, WebsiteType
<1>3. ASSUME NEW q \in Requests, Registration(q) PROVE AccountsInv'
  BY <1>0, <1>1, <1>3, RegistrationStep DEF AccountsInv
<1>4. ASSUME NEW e \in Emails, Verify(e) \/ Payment(e) PROVE AccountsInv'
  BY <1>0, <1>1, <1>4, VerifyStep, PaymentStep DEF AccountsInv
<1>5. ASSUME NEW ev \in events, handleStripeWebhook(ev) \/ EventLost(ev) PROVE AccountsInv'
  BY <1>0, <1>1, <1>5, WebhookStep, LostStep DEF AccountsInv
<1>6. ASSUME NEW v \in Visits, Visit(v) PROVE AccountsInv'
  <2>1. UNCHANGED <<account, website, billing>>
    BY <1>6 DEF Visit, Login, Commit, Send, auth, Logout, Redirect, Answer
  <2>2. QED
    BY <1>0, <1>2, <1>6, <2>1, VisitStep DEF AccountsInv
<1>7. CASE Restart
  BY <1>0, <1>1, <1>7, RestartStep DEF AccountsInv
<1>8. CASE Tick
  BY <1>0, <1>2, <1>8, TickStep DEF AccountsInv, Tick
<1>9. CASE UNCHANGED vars
  BY <1>1, <1>2, <1>9 DEF vars, AccountsInv
<1>10. QED
  BY <1>3, <1>4, <1>5, <1>6, <1>7, <1>8, <1>9 DEF Next

\* The invariant always holds.
LEMMA AccountsInvariant == Spec => []AccountsInv
BY InitAccounts, AccountsStep, PTL DEF Spec

\* Every variable keeps its type; in particular the pool never lends more
\* connections than it has, because only the webhook keeps one.
THEOREM TypeCorrect == Spec => []TypeOK
<1>1. AccountsInv => TypeOK
  <2>1. AccountsInv => WebsiteType /\ PanelInv
    BY DEF AccountsInv, WebsiteInv
  <2>2. WebsiteType /\ PanelInv => TypeOK
    BY AccountsAssumption DEF WebsiteType, PanelInv, PanelType, TypeOK, Requested, Visited, Tokened
  <2>3. QED
    BY <2>1, <2>2
<1>2. QED
  BY <1>1, AccountsInvariant, PTL

\* No account is stuck without its verification mail unless a request is still
\* at work on it or its registration was answered with an error (registerUser
\* and queueVerifyEmail of register.go).
THEOREM RegistrationCorrect == Spec => []StuckIsReported
<1>1. AccountsInv => StuckIsReported
  BY DEF AccountsInv, WebsiteInv
<1>2. QED
  BY <1>1, AccountsInvariant, PTL

\* No payment event misses its account (handleStripeWebhook of stripe.go): an
\* event needs a subscription, that needs the customer's id in the row, and no
\* row loses it.
THEOREM PlanCorrect == Spec => []PlanIsLastEvent
<1>1. AccountsInv => PlanIsLastEvent
  BY DEF AccountsInv, WebsiteInv
<1>2. QED
  BY <1>1, AccountsInvariant, PTL
=============================================================================
