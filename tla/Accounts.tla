------------------------------ MODULE Accounts ------------------------------
(***************************************************************************)
(* The life of an account: the website registers it, has its address        *)
(* verified and follows its payments through Stripe's webhook               *)
(* (internal/website); the control panel lets its owner in                  *)
(* (internal/controlpanel/auth.go) and keeps its sessions.                  *)
(*                                                                         *)
(* Every database statement, Stripe call and publishing of a registration   *)
(* is a step of its own, and any of them may fail; nothing that was done    *)
(* before is undone.  A customer is named by the address it was made for:   *)
(* Stripe is asked for one only after the INSERT, so there is one at most.  *)
(* The table is the one the statements are written for, which account.sql   *)
(* is not: email is unique, and stripe_customer_id, until it is set, is no  *)
(* customer's.                                                              *)
(***************************************************************************)
EXTENDS Naturals, FiniteSets

CONSTANTS
  Emails,
  Requests,     \* registrations, each posted once
  Asked,        \* [Requests -> plan in the path it is posted to]
  Visits,       \* requests of one browser to the control panel at once
  Tokens,       \* session tokens; one that is nowhere in use stands for a new one
  Nil,
  PoolSize,     \* connections of the website's pool
  Duration      \* sessionDuration in ticks

ASSUME AccountsAssumption ==
  /\ PoolSize \in Nat \ {0} /\ Duration \in Nat \ {0}
  /\ Asked \in [Requests -> {"free", "subscription"}]
  /\ Nil \notin Emails \cup Tokens

Plans == {"free", "subscription"}

\* What is kept of an account's row; customer: stripe_customer_id is set.
Row == [verified : BOOLEAN, plan : Plans, customer : BOOLEAN]

ASSUME NilAssumption == Nil \notin Row /\ Nil \notin {"paid", "failed"}

\* Events of a kind need not be told apart: one may be delivered repeatedly.
Event == [customer : Emails, paid : BOOLEAN]

VARIABLES
  account,    \* [Emails -> Nil or the row: verified, plan, customer (has an id)]
  request,    \* [Requests -> registration being served]
  mailed,     \* addresses whose verification mail is queued
  reported,   \* history: those not mailed whose registration ended with an error
  subscribed, \* Stripe: customers with a subscription
  events,     \* Stripe: events to be delivered
  handled,    \* history: [Emails -> outcome of the last event handled, or Nil]
  leaked,     \* connections of the website's pool that never come back
  updates,    \* history: UPDATEs by the webhook since the website started
  store,      \* the control panel's sessionStore: [Tokens -> session or Nil]
  cookie,     \* the browser's mxax_session_token, or Nil
  visit       \* [Visits -> request to the control panel]

website == <<request, mailed, reported, leaked, updates>>
billing == <<subscribed, events, handled>>
panel == <<store, cookie, visit>>
vars == <<account, website, billing, panel>>

Idle == [step |-> "idle", email |-> Nil]
Done == [step |-> "done", email |-> Nil]

\* A request to the control panel: the token it came with, or will set; torn:
\* the buffer of the session it is to store was used again.
NoVisit == [step |-> "idle", torn |-> FALSE, token |-> Nil]

Init ==
  /\ account = [e \in Emails |-> Nil]
  /\ request = [q \in Requests |-> Idle]
  /\ mailed = {} /\ reported = {}
  /\ subscribed = {} /\ events = {}
  /\ handled = [e \in Emails |-> Nil]
  /\ leaked = 0 /\ updates = 0
  /\ store = [t \in Tokens |-> Nil]
  /\ cookie = Nil
  /\ visit = [v \in Visits |-> NoVisit]

-----------------------------------------------------------------------------
(* Registration.                                                           *)

\* A statement of the website finds a connection in the pool.
Connection == leaked < PoolSize

Serving(q) == request[q] \notin {Idle, Done}

Goto(q, step) == request' = [request EXCEPT ![q].step = step]

\* The handler returns an error: "Internal Server Error".
Fail(q) ==
  /\ request' = [request EXCEPT ![q] = Done]
  /\ reported' = reported \cup ({request[q].email} \ mailed)

\* A POST whose form is in order.
Post(q, e) ==
  /\ request[q] = Idle
  /\ request' = [request EXCEPT ![q] = [step |-> "count", email |-> e]]
  /\ UNCHANGED <<account, mailed, reported, leaked, updates, billing, panel>>

\* Mutant of Count: the row is not read, so the connection does not come back.
CountLeaks(q) ==
  /\ request[q].step = "count"
  /\ Connection
  /\ leaked' = leaked + 1
  /\ IF account[request[q].email] = Nil THEN Goto(q, "insert")
                                        ELSE request' = [request EXCEPT ![q] = Done]
  /\ UNCHANGED <<account, mailed, reported, updates, billing, panel>>

\* "Address has already registered." is an answer, not an error.
Count(q) ==
  /\ request[q].step = "count"
  /\ Connection
  /\ IF account[request[q].email] = Nil THEN Goto(q, "insert")
                                        ELSE request' = [request EXCEPT ![q] = Done]
  /\ UNCHANGED <<account, mailed, reported, leaked, updates, billing, panel>>

\* INSERT ... RETURNING verify_code.
Insert(q) ==
  LET e == request[q].email IN
  /\ request[q].step = "insert"
  /\ Connection
  /\ account[e] = Nil
  /\ account' = [account EXCEPT ![e] =
       [verified |-> FALSE, plan |-> "free", customer |-> FALSE]]
  /\ Goto(q, IF Asked[q] = "subscription" THEN "customer" ELSE "mail")
  /\ UNCHANGED <<mailed, reported, leaked, updates, billing, panel>>

\* Another request was first: the address is unique.
InsertRefused(q) ==
  /\ request[q].step = "insert"
  /\ Connection
  /\ account[request[q].email] # Nil
  /\ Fail(q)
  /\ UNCHANGED <<account, mailed, leaked, updates, billing, panel>>

\* Stripe makes the customer.  If its answer is lost, RegisterFails, nothing
\* here knows of it.
CustomerNew(q) ==
  /\ request[q].step = "customer"
  /\ Goto(q, "update")
  /\ UNCHANGED <<account, mailed, reported, leaked, updates, billing, panel>>

\* UPDATE accounts SET stripe_customer_id.
SetCustomer(q) ==
  /\ request[q].step = "update"
  /\ Connection
  /\ account' = [account EXCEPT ![request[q].email].customer = TRUE]
  /\ Goto(q, "mail")
  /\ UNCHANGED <<mailed, reported, leaked, updates, billing, panel>>

\* The mail with the code is queued, and the browser redirected.
queueVerifyEmail(q) ==
  /\ request[q].step = "mail"
  /\ mailed' = mailed \cup {request[q].email}
  /\ reported' = reported \ {request[q].email}
  /\ request' = [request EXCEPT ![q] = Done]
  /\ UNCHANGED <<account, leaked, updates, billing, panel>>

\* Mutant of RegisterFails: the error of queueEmail is logged, not returned.
RegisterFailsQuietly(q) ==
  /\ Serving(q)
  /\ request' = [request EXCEPT ![q] = Done]
  /\ UNCHANGED <<account, mailed, reported, leaked, updates, billing, panel>>

\* The step at hand fails, or the client goes away.
RegisterFails(q) ==
  /\ Serving(q)
  /\ Fail(q)
  /\ UNCHANGED <<account, mailed, leaked, updates, billing, panel>>

\* The steps that lead to an answer without a fault.
registerUser(q) ==
  Count(q) \/ Insert(q) \/ InsertRefused(q) \/ CustomerNew(q) \/ SetCustomer(q)
  \/ queueVerifyEmail(q)

\* The website is started again.
Restart ==
  /\ leaked > 0 \/ \E q \in Requests : Serving(q)
  /\ leaked' = 0 /\ updates' = 0
  /\ request' = [q \in Requests |-> IF Serving(q) THEN Done ELSE request[q]]
  /\ reported' = reported \cup ({request[q].email : q \in Requests} \ (mailed \cup {Nil}))
  /\ UNCHANGED <<account, mailed, billing, panel>>

\* The link in the mail.
Verify(e) ==
  /\ e \in mailed
  /\ Connection
  /\ ~account[e].verified
  /\ account' = [account EXCEPT ![e].verified = TRUE]
  /\ UNCHANGED <<website, billing, panel>>

-----------------------------------------------------------------------------
(* Payment.                                                                *)

\* The subscription page shows the customer's id to who has the code, if the
\* row has one; its script has the subscription created.
handleStripeCreateSubscription(e) ==
  /\ e \in mailed
  /\ Connection
  /\ account[e].customer
  /\ e \notin subscribed
  /\ subscribed' = subscribed \cup {e}
  /\ UNCHANGED <<account, website, events, handled, panel>>

\* Stripe: an invoice of a subscription is paid, or is not.
Invoice(e, paid) ==
  /\ e \in subscribed
  /\ events' = events \cup {[customer |-> e, paid |-> paid]}
  /\ UNCHANGED <<account, website, subscribed, handled, panel>>

\* Mutant of PlanOf: a failed payment is not told from a paid one.
PlanOfAny(paid) == "subscription"

PlanOf(paid) == IF paid THEN "subscription" ELSE "free"

\* The UPDATE's rows are never closed, so the connection stays out of the pool.
\* Events come in any order, and more than once.
handleStripeWebhook(ev) ==
  LET e == ev.customer IN
  /\ Connection
  /\ leaked' = leaked + 1
  /\ updates' = updates + 1
  /\ account' = [account EXCEPT ![e] =
       IF @ # Nil /\ @.customer THEN [@ EXCEPT !.plan = PlanOf(ev.paid)] ELSE @]
  /\ handled' = [handled EXCEPT ![e] = IF ev.paid THEN "paid" ELSE "failed"]
  /\ events' \in {events, events \ {ev}}
  /\ UNCHANGED <<request, mailed, reported, subscribed, panel>>

\* customer.Get or the statement fails: logged, answered 200, not sent again.
EventLost(ev) ==
  /\ events' = events \ {ev}
  /\ UNCHANGED <<account, website, subscribed, handled, panel>>

-----------------------------------------------------------------------------
(* The control panel: sessions.  Of a session only its age is kept, and what *)
(* became of its bytes: setCookie encodes it into a buffer of a pool that    *)
(* all requests share and returns the buffer before badger's Commit copies   *)
(* the bytes.  Until then another request may take the buffer and write over *)
(* them: the session it decodes, the one it encodes, a page.  What is stored *)
(* is then whole still, or another session or a mixture that decodes, or     *)
(* does not decode, which is as good as nothing stored.                     *)

Storing == {"storeLogin", "storePage", "storeLogout"}

Unused == {t \in Tokens : store[t] = Nil /\ cookie # t /\ \A v \in Visits : visit[v].token # t}

NewToken == CHOOSE t \in Unused : TRUE

\* Request v becomes r and uses a buffer of the pool, maybe one that a session
\* is yet to be stored from.
Write(v, r) ==
  visit' = [w \in Visits |->
    IF w = v THEN r ELSE [visit[w] EXCEPT !.torn = @ \/ visit[w].step \in Storing]]

\* The answer, which sets the cookie to t, is on its way.
Answered(t) == [NoVisit EXCEPT !.step = "answer", !.token = t]

\* A session is encoded, for a new token.
setCookie(v, step) ==
  /\ Unused # {}
  /\ Write(v, [step |-> step, torn |-> FALSE, token |-> NewToken])

\* POST /login: the row of a verified account, and its password is right.
Login(v, e) ==
  /\ visit[v] = NoVisit
  /\ account[e] # Nil
  /\ account[e].verified
  /\ setCookie(v, "storeLogin")
  /\ UNCHANGED <<account, website, billing, store, cookie>>

Session(mixed) == [mixed |-> mixed, left |-> Duration]

\* What Commit may store from the buffer.
Stored(torn) == {Session(FALSE)} \cup IF torn THEN {Session(TRUE), Nil} ELSE {}

\* Commit, and the rest of the handler: the answer carries the new token even if
\* a statement fails afterwards; a page is rendered in a buffer of the pool; the
\* empty cookie of /logout comes after the refresh's.
Commit(v) ==
  /\ visit[v].step \in Storing
  /\ \E s \in Stored(visit[v].torn) : store' = [store EXCEPT ![visit[v].token] = s]
  /\ \/ /\ visit[v].step = "storeLogin"
        /\ visit' = [visit EXCEPT ![v] = Answered(visit[v].token)]
     \/ /\ visit[v].step = "storePage"
        /\ Write(v, Answered(visit[v].token))
     \/ /\ visit[v].step = "storeLogout"
        /\ visit' = [visit EXCEPT ![v] = Answered(Nil)]
  /\ UNCHANGED <<account, website, billing, cookie>>

\* The browser asks for a page, or to be logged out.
Send(v, step) ==
  /\ visit[v] = NoVisit
  /\ cookie # Nil
  /\ visit' = [visit EXCEPT ![v] = [NoVisit EXCEPT !.step = step, !.token = cookie]]
  /\ UNCHANGED <<account, website, billing, store, cookie>>

\* Less than a quarter of the session is left.  The ExpiresAt among bytes that
\* were written over may be another session's.
Refreshes(t) == {b \in BOOLEAN : store[t].mixed \/ b = (4 * store[t].left < Duration)}

\* Mutant of auth: the session in use is kept for another sessionDuration.
authSlides(v) ==
  LET t == visit[v].token IN
  /\ visit[v].step = "page"
  /\ store[t] # Nil
  /\ Write(v, NoVisit)
  /\ store' = IF TRUE \in Refreshes(t) THEN [store EXCEPT ![t].left = Duration] ELSE store
  /\ UNCHANGED <<account, website, billing, cookie>>

\* The middleware auth around a page.  A refresh makes a new session with the
\* account and the plan of the old one, which stays.
auth(v) ==
  LET t == visit[v].token IN
  /\ visit[v].step = "page"
  /\ store[t] # Nil
  /\ \/ TRUE \in Refreshes(t) /\ setCookie(v, "storePage")
     \/ FALSE \in Refreshes(t) /\ Write(v, NoVisit)
  /\ UNCHANGED <<account, website, billing, store, cookie>>

\* The same around /logout; no session is removed from the store.
Logout(v) ==
  LET t == visit[v].token IN
  /\ visit[v].step = "logout"
  /\ store[t] # Nil
  /\ \/ TRUE \in Refreshes(t) /\ setCookie(v, "storeLogout")
     \/ FALSE \in Refreshes(t) /\ Write(v, Answered(Nil))
  /\ UNCHANGED <<account, website, billing, store, cookie>>

\* No such session, or it does not decode, so to /login; or an error of the
\* store or the database; or the answer is lost.  The cookie stays as it is.
Redirect(v) ==
  /\ visit[v] # NoVisit
  /\ \/ visit[v].step \in {"page", "logout"} /\ Write(v, NoVisit)
     \/ visit[v].step \notin {"page", "logout"} /\ visit' = [visit EXCEPT ![v] = NoVisit]
  /\ UNCHANGED <<account, website, billing, store, cookie>>

\* The browser takes the answer's cookie.  Answers overtake each other.
Answer(v) ==
  /\ visit[v].step = "answer"
  /\ cookie' = visit[v].token
  /\ visit' = [visit EXCEPT ![v] = NoVisit]
  /\ UNCHANGED <<account, website, billing, store>>

\* Mutant of Tick: a session is dropped a tick too late.
TickLate ==
  /\ store' = [t \in Tokens |->
       IF store[t] # Nil /\ store[t].left >= 0 THEN [store[t] EXCEPT !.left = @ - 1] ELSE Nil]
  /\ UNCHANGED <<account, website, billing, cookie, visit>>

\* Sessions age and are dropped.
Tick ==
  /\ store' = [t \in Tokens |->
       IF store[t] # Nil /\ store[t].left > 0 THEN [store[t] EXCEPT !.left = @ - 1] ELSE Nil]
  /\ UNCHANGED <<account, website, billing, cookie, visit>>

-----------------------------------------------------------------------------
Registration(q) ==
  \/ \E e \in Emails : Post(q, e)
  \/ registerUser(q)
  \/ RegisterFails(q)

Payment(e) ==
  \/ handleStripeCreateSubscription(e)
  \/ \E paid \in BOOLEAN : Invoice(e, paid)

Visit(v) ==
  \/ \E e \in Emails : Login(v, e)
  \/ \E step \in {"page", "logout"} : Send(v, step)
  \/ auth(v) \/ Logout(v) \/ Commit(v) \/ Redirect(v) \/ Answer(v)

Next ==
  \/ \E q \in Requests : Registration(q)
  \/ \E e \in Emails : Verify(e) \/ Payment(e)
  \/ \E ev \in events : handleStripeWebhook(ev) \/ EventLost(ev)
  \/ \E v \in Visits : Visit(v)
  \/ Restart
  \/ Tick

Spec == Init /\ [][Next]_vars

\* A handler that finds its connections runs on to its answer; that a statement
\* or a call fails is not counted on.  Time goes by.
FairSpec == Spec /\ WF_vars(Tick) /\ \A q \in Requests : WF_vars(registerUser(q))

-----------------------------------------------------------------------------
(* Properties.                                                             *)

Steps == {"idle", "done", "count", "insert", "customer", "update", "mail"}
Sessions == [mixed : BOOLEAN, left : 0..Duration]
VisitSteps == {"idle", "page", "logout", "answer"} \cup Storing

\* Every variable has its type.
TypeOK ==
  /\ account \in [Emails -> Row \cup {Nil}]
  /\ request \in [Requests -> [step : Steps, email : Emails \cup {Nil}]]
  /\ mailed \cup reported \cup subscribed \subseteq Emails
  /\ events \subseteq Event
  /\ handled \in [Emails -> {"paid", "failed", Nil}]
  /\ leaked \in 0..PoolSize /\ updates \in 0..PoolSize
  /\ store \in [Tokens -> Sessions \cup {Nil}]
  /\ cookie \in Tokens \cup {Nil}
  /\ visit \in [Visits -> [step : VisitSteps, torn : BOOLEAN, token : Tokens \cup {Nil}]]
  /\ \A v \in Visits : visit[v].step \in Storing \cup {"page", "logout"} => visit[v].token # Nil

\* An account without its verification mail can neither be verified nor be
\* registered again, so nobody is left with one unawares: either a request is
\* still at work on it or a registration of the address ended with an error
\* (registerUser and queueVerifyEmail of register.go, one step of which may
\* fail after others were done).
StuckIsReported ==
  \A e \in Emails : account[e] # Nil /\ e \notin mailed =>
    \/ e \in reported
    \/ \E q \in Requests : request[q].email = e /\ request[q].step \in {"customer", "update", "mail"}

\* No payment event misses its account, and the plan is what the last event
\* handled says, in whatever order and however often events come: Stripe has
\* no event of a customer before the row has its id (registerUser,
\* getPostSubscription and handleStripeWebhook of internal/website).
PlanIsLastEvent ==
  \A e \in Emails : account[e] # Nil =>
    account[e].plan = IF handled[e] = "paid" THEN "subscription" ELSE "free"

\* Every session ends: however often it is used, refreshed or logged out of, its
\* token is good for sessionDuration and no longer.  Nothing but time removes a
\* session (getLogout only says "delete from sessionStore", auth.go:224), so a
\* refresh must not keep the old one alive (setCookie and auth, auth.go).
SessionsEnd == \A t \in Tokens : store[t] # Nil ~> store[t] = Nil

\* Every registration gets its answer while the webhook has handled fewer
\* events than the pool has connections: nothing else of the website keeps a
\* connection (registerUser of register.go, handleStripeWebhook of stripe.go).
RegistrationAnswered ==
  [](updates < PoolSize) => \A q \in Requests : Serving(q) ~> request[q] = Done
=============================================================================
