# mxax in TLA+

mxax forwards e-mail. Mail for `alias@your.domain` comes in over SMTP, is
matched against the alias rules of the domain, signed, queued in RabbitMQ for
every destination of the alias, and sent on by another process; bounces find
their way back to the original sender. This directory models the parts of it
that keep state, checks them with TLC on small instances and proves the most
important results with TLAPS for all instances.

Every module has a comment on each definition; `PROJECT.json` maps definitions
to source lines, lists the runs, the findings, the hazards and the theorems.

## 1. Inventory

| Component | State it keeps | Operations | Interacts with | What makes it correct |
|---|---|---|---|---|
| **smtpd, relay session** (`internal/smtp/relay_session.go`) | per connection: id, From, Via, To, domain, alias, buffer, returnPath flag | MAIL, RCPT, DATA, Reset, Logout | go-smtp calls it; PostgreSQL; queues | nothing leaks between envelopes; 250 means queued |
| **relay loop** (`relay.go`) | the loop over destinations | store return path, rewrite From, sign, publish | return_paths, emails.straw | every destination of the alias, or an error |
| **return paths** (`returnpath.go`) | table return_paths | INSERT, look up, mark returned | two sessions: the forwarding one and the bounce's | a bounce reaches the sender of the very message |
| **recipient resolution** (`alias.go`, `domain.go`) | one-minute caches | detectDomain, detectAlias | PostgreSQL, ristretto | a change takes effect within the TTL |
| **submission** (`submission_session.go`, `auth.go`) | per connection; login cache | Login, MAIL, RCPT, DATA | PostgreSQL, emails.straw | mail is queued as given; the login filter ends |
| **sender** (`internal/sender`, `cmd/sender`) | deliveries in hand, MX cache | take, resolve, dial, talk, bounce, log, ack | RabbitMQ, destinations | no mail lost, duplicates only by redelivery, truthful log |
| **SMTP client** (`internal/smtp/client`) | extensions, TLS, the connection | hello, STARTTLS, MAIL, RCPT, DATA, QUIT | sender, exchangers | commands in sequence and over TLS; success only for mail that was taken |
| **logger** (`cmd/logger`) | log-level cache, table logs | handleMessage | RabbitMQ, PostgreSQL, log page | level respected within the TTL and a lookup's lag, queue never blocked |
| **directory** (`internal/account`, `internal/controlpanel`) | domains, aliases, destinations, links, keys, records | create, verify, check, delete, attach, detach | DNS, smtpd reads it | accounts apart, limits, complete deletes, honest verification |
| **web session** (`controlpanel/auth.go`, `security.go`) | cookie store (badger) | login, refresh, logout | every handler | every session ends |
| **website** (`internal/website`) | accounts, pool of connections | register, verify, subscribe, Stripe webhook | Stripe, emails.straw | no account is stuck unawares; the plan follows the payments |
| pages, templates, contact form | none | render | | not modelled |

Hard behaviours, all listed with their lines under `hazards`: sessions of
concurrent connections that share ids and a table; resets that forget only part
of the state; loops that fail or die halfway; redelivery by the broker while a
worker still holds the message; check-then-write transactions at READ
COMMITTED; rows that are revived after a delete; caches that outlive the change
and are filled by slow lookups; an exchanger that stops answering anywhere in the
dialogue; registrations of several failing steps; payment events out of order;
answers to one browser that overtake each other; pooled buffers that are used again
before what they hold is stored.

## 2. Modules

| Module | Models | Checked by | Proved in |
|---|---|---|---|
| `RelaySession` | relay sessions, relay loop, return paths | `relay_session`, `relay_recipients` | `RelaySessionProofs` |
| `Sender` | sender workers and the broker's deliveries | `sender`, `sender_dial` | `SenderProofs` |
| `Directory` | control panel transactions | `directory`, `directory_parallel`, `directory_keys` | `DirectoryProofs` |
| `Logger` | log consumer | `logger` | `LoggerProofs` |
| `Resolver` | cached lookups of smtpd, against a changing directory | `resolver` | `ResolverProofs` |
| `Submission` | login on port 587, submission sessions | `submission` | `SubmissionProofs` |
| `SmtpClient` | one dialogue of sendEmail with an exchanger | `smtp_client` | `SmtpClientProofs` |
| `Accounts` | registration, payment, sessions of the control panel | `accounts` | `AccountsProofs` |
| `MailQueue` | abstract: an at-least-once queue and its senders | implemented by `Sender`, in `sender` | `SenderProofs` |
| `SendAttempt` | abstract: what one attempt to send promises | implemented by `SmtpClient`, in `smtp_client` | `SmtpClientProofs` |

`MC*` modules give constants their values for TLC. An operator called "Mutant
of X" is X with a plausible bug; it is part of no specification and shows that
a property notices that bug.

### RelaySession

A connection is closed, takes commands, or runs the relay loop. `data` is the
session's `SessionData`, `envelope` go-smtp's transaction (open after MAIL,
recipients so far) with a number that identifies it, `todo` the destinations the
loop has not reached. `returnPaths`, `returned` and `published` survive a `Crash`.

Addresses are records of what the three detectors find in them: our domain, the
uuid of a return path, the matching alias. A return-path address also matches a
catch-all rule, which is why the order of the detectors matters. The content of
a message is the number of its envelope, and a buffer is the set of contents
appended to it since its last reset.

Actions: `newRelaySession` (at a connection's first MAIL; ids are never
repeated), `MailRefused` (SPF) and `Mail`; `RcptReturnPath`, `RcptAlias`,
`RcptRefused`; `DataRefused` (read, spam, rDNS, duplicate key), `DataReturned`
(bounce), `relay` (return path stored, From rewritten, loop entered),
`RelayAborted` (row stored, then an error), `QueueNext`, `RelayDone`,
`RelayFailed`; `Rset`, `Logout`, `Crash`. `Faults` lets any lookup fail.
go-smtp resets the session after every DATA and accepts a second MAIL without a
reset; the domain, alias and destination tables are constants here.

### Sender

`ready`, `unacked` and `acked` are the broker's view; `inbox` is what the client
library has not yet handed to a worker. A worker goes through `Run`: idle,
resolve, dial, talk, (bounce,) log, ack, pace. `Reconnect` requeues what is
unacknowledged and makes the deliveries in hand stale: acknowledging them has
no effect. `Qos(1)` is asked for in `createSubscriber` only, so the channel that the
client library opens after a lost connection has no prefetch limit (`limited`), and
the broker then delivers to several workers at once. `Restart` forgets the workers
and sets the limit again. The dialogue with an exchanger
fails before acceptance, fails after it (lost reply, QUIT error), or succeeds.

`Sender` implements `MailQueue`, which has neither workers nor deliveries: an
email is pending until something is known about its fate, and only then done.
The mapping: `pending` is `ready \cup unacked`, `done` is `acked`, and an email's
`fate` is what exchangers, bounces and failed dials have made of it (`FateOf`).

### SmtpClient

`sendEmail` from the dialled connection to its return, one step for each half of
`Client.cmd` (the command goes out, the reply comes in). `pc` names the call,
`ext` and `tls` are the Client's fields, `peer` is the exchanger's side:
greeted or not, TLS or not, what it offered, and the stage of its transaction.
The exchanger (external) answers positively only in sequence, may refuse
anything, offers other extensions after TLS, or says nothing; the connection may
break at any point and the `Deadline` makes it unusable. A reply that is lost
after the message was taken is a reachable case, and so is a `Quit` whose reply
comes but whose closing of the connection fails.

It implements `SendAttempt` (variables `outcome` and `taken` of the same
names): the message is taken at most once, "sent" is reported only after that,
and "failed" says nothing. These are the three outcomes of `Sender`'s talk step
(`TalkFailed`, `TalkAcceptedFailed`, `TalkAccepted`), which is how the two modules
fit together.

### Directory

The auth middleware runs a handler in one transaction. Handlers read first and
write last, so each is `Begin...` (guards from the reads) and a commit action;
other requests and slow DNS lookups come in between. Rows are only marked
deleted; `owner` remembers a deleted domain's account, since a name can be
revived by that account only. A verify code and the DKIM key and five records
made with it are one number. `checked` abstracts `last_verified_at` to never,
within 24 hours, and earlier. The unique index of live keys in
`schema/account.sql` has a predicate that calls `current_setting`, which
PostgreSQL does not accept in an index, so the model has none: nothing keeps a
subscriber from adding a live domain again.

An account may send any number of requests in parallel, and the code does break
some promises then. To say exactly how far, three history variables record what no
handler sees: `overtaken`, the running requests since whose reads another request
of their account has committed; `torn`, the accounts for which such a request has
committed; `readded`, the live domains that were added again while live. The
properties hold without condition for accounts that are not torn and domains that
are not in `readded`, and state for the others what still holds.

### Logger

One goroutine, one message at a time. `cache` holds the level and
when it was put there; a ristretto `Set` may be dropped and an entry evicted at any
time. `SelectLevel` and `SetCache` are two steps, at most `MaxLag` ticks apart, and the
log page may change the level in between. `clock` counts steps of the TTL. `past`
records, per tick, the levels that were in force, to say what "recent" means. Any
integer can be posted as a level: 5 stands for the ones that have no name.

A `Reconnect` requeues the message in hand (`live` says whether its acknowledgement
still counts) and those delivered ahead, and the client library may go on to hand
over one of the latter (`stale`, `DeliverStale`); as in `Sender`, the new channel has
no prefetch limit. `Restart` empties the cache as well.

### Resolver

One domain and one recipient of it; `Rules` are the rules that match, longest
first. `cache` maps the keys that are read (`domain`, `nxdomain`, `alias:match`,
and the destinations of each alias) to an entry with the ticks it has left; a
`Set` may be dropped and a `Get` may miss. A connection's SELECT and its `Set` are
two steps (`lag` counts the ticks between them), so a slow lookup can overwrite a
newer answer. `since` is history: for every fact of the directory (the domain is
there, it is not, this rule is the match, this link exists), the ticks since it
last held. A SELECT that fails counts as "no such domain", as in the code.

Actions: the steps of `detectDomain`, `detectAlias` and `getDestinations`; RCPT,
DATA, RSET and the relay loop of an inbound connection; MAIL of a submission,
which shares the cache; `ChangeDirectory` for the control panel; `Tick`.

### Submission

Clients of one account. `Login` looks at the cache entry `login:<email>`, reads
the password (`LookUp`), then caches and compares (`LoginSet`). `data` is the
session's `SessionData`, whose sender and recipient are the numbers of the MAIL
and RCPT that set them; `envelope` is go-smtp's transaction. `ReadFrom` and
`Data` are the two halves of DATA, `DataFails` any error in it. `lookedUp` is
history: ticks since a login last read the table.

### Accounts

`account` holds the rows; `request` a registration at its step: count, insert,
Stripe customer, UPDATE, mail. `RegisterFails` may come at every step and undoes
nothing. `leaked` counts the connections that `handleStripeWebhook` never gives
back (`db.Query` without `Close`), and every statement of the website needs one
of the others; `Restart` frees them. Stripe's events are a set, delivered in any
order and more than once, or lost when the webhook answers 200 after an error.
The control panel's `store` has sessions by token; a browser has one `cookie` and
several requests at once, whose answers may overtake each other; `auth` and
`Logout` include the refresh of a session that is near its end.

`setCookie` encodes a session into a buffer of a pool and gives the buffer back when
its closure returns, before badger's `Commit` copies the bytes (`auth.go:255-268`).
Encoding and `Commit` are therefore two steps, and any request that uses a pooled
buffer in between (`Write`) may tear what is stored: it stays whole, becomes a mixture
that decodes (`mixed`), or does not decode, which is as good as no session. A mixed
session's `ExpiresAt` may be another's, so it may be refreshed at any time. Of a
session's contents the model keeps no more than this: what account or plan a mixed
session names is open in the code, and no property is stated about it.

The statements do not fit `schema/account.sql`, which names the address column
`username` and gives `stripe_customer_id` no default although it is NOT NULL: on
that table every registration's INSERT would fail. The model takes the table the
statements are written for: a unique `email`, and a `stripe_customer_id` that is
no customer's until it is set (the subscription page selects rows where it is not
`''`).

## 3. Runs

| Run | Instance | Result |
|---|---|---|
| `relay_session` | 2 connections, 2 ids, 1 sender and the null sender, 1 domain, 2 aliases (one a catch-all), 2 destinations, 6 accepted commands, 2 recipients per envelope | passes, 1.2 million states |
| `relay_recipients` | the same | **violated**: two recipients, only the last alias is served |
| `sender` | 2 workers, a good and a malformed message, 2 exchangers, 2 faults | passes, 631,000 states, with liveness and the refinement of `MailQueue` |
| `sender_dial` | the same, no fault needed | **violated**: all dials fail, reported as sent |
| `directory` | a free account with two requests at once and a subscriber with one, 2 names, 1 rule, 1 address, limits of 1, 2 keys | passes, 2.3 million states |
| `directory_parallel` | one account with two requests at once | **violated**: both pass the limit check |
| `directory_keys` | 2 free accounts, one request at a time each, 2 addresses, 3 keys | **violated**: signed with a deleted key |
| `smtp_client` | the two extensions sendEmail looks at | passes, 360 states, with liveness and the refinement of `SendAttempt` |
| `resolver` | an inbound and a submission connection, 1 rule, 1 destination, TTL and lag of 1 tick | passes, 606,000 states, with liveness |
| `submission` | 2 clients, 2 passwords, 2 transactions of 2 recipients each, TTL and lag of 1 tick | passes, 53,000 states |
| `accounts` | 1 address, 2 registrations (one with a subscription), a pool of 2, a browser with 2 requests at once, 2 session tokens, sessions of 1 tick | passes, 367,000 states, with liveness |
| `logger` | 1 account with a send and a bounce entry, an entry without account, TTL and lag of 1 tick, 3 ticks (0 to 2), 1 fault, 1 level change to any level | passes, 306,000 states, with liveness |

Bounds, and why they are enough. Two connections and two ids are the least for a
bounce to bring an id back into a second session while the first is still
forwarding; six commands allow two envelopes of which one is the bounce of the
other, or one with two recipients and one with one. Two exchangers make the dial
loop continue once; two faults allow a redelivered message to be redelivered
again, once without the prefetch limit. Two keys let a domain be deleted and added
again, added again while live, or both names be added by racing requests; limits of
one (the code has 1, 2 and 3) are reached soonest, and two requests at once are the
least that overtake each other. One level change and two entries make a cached level
stale, also by a change between SELECT and Set; one fault is a lost connection with
a stale delivery, a restart or a failed statement (two faults together pass as well,
with 1.8 million states, and the proofs are for any number). A dialogue has one
recipient and one message in the code, so nothing is cut off in `smtp_client`. Two connections
over one cache let a slow lookup overwrite a newer answer; a TTL and a lag of one
tick are the least that tell an entry in time from one too late, and the proof is
for any. Two transactions of a session let the first leave something behind for
the second, two clients let one client's login filter the other's. Two
registrations of one address race at the INSERT; a pool of two leaks once and
still works; two requests of a browser are the least that can overtake each
other or share a buffer. Two tokens suffice because one that is nowhere in
use stands for a new one. The view of `relay_session` drops `rejects` and `returned`, which no guard or property reads. Symmetry is
used only without liveness.

In `directory` the free account sends two requests at once, so every race of two
handlers of an account happens: both pass one limit check, a link is created to a
destination that is being deleted, an alias for a domain that is, a lookup verifies
a domain that has been added again with another code. The account is then `torn`.
`ExcessBounded` says that its limits are exceeded by fewer rows than it has requests
at once, however many rounds it races; `VerifiedByCode` that a verified domain still
had one of its codes published; `OneKeySet` and `OwnDestinations` hold throughout. The
subscriber adds live domains again, which takes back the verification under live
aliases and leaves two live keys (`readded`); `AliasNeedsVerifiedDomain` and `OneKeySet`
say that this is the only way to get there.

Fairness. `Sender`: the broker delivers while there is credit, and every worker
gets on, because dials, dialogues (deadlines) and the pacing tick are bounded in
time. `Logger`: the broker delivers, the library hands over
what it holds, and the only goroutine runs. Faults are
finitely many by their bound. `SmtpClient`: the worker runs, and the deadline of a
minute passes; the exchanger owes nothing. `Resolver`: the clock runs and a
goroutine goes on with its lookup, which the database answers or fails; clients
and the control panel owe nothing, and `RefusalsEnd` is about behaviours in which
the domain stays and its lookups stop failing. `Accounts`: a handler takes its next
step when it can, that is, while a connection is free; that a step fails is not
counted on. `RegistrationAnswered` is therefore about behaviours in which the webhook
has handled fewer events than the pool has connections. Time goes by, which is all
that `SessionsEnd` needs. No fairness is assumed for clients, for queueing of
messages, or for faults. `CHECK_DEADLOCK FALSE` is set because bounded
behaviours end, and because an idle system may rest.

## 4. Findings

* **Only the last recipient is served** (`relay_session.go:154`). Each RCPT
  overwrites alias, domain and recipient of the session.
* **An undeliverable email counts as sent** (`send.go:103`): `err` is returned
  where `dialErr` is meant.
* **Plan limits can be exceeded** (`acl.go:37`): check and insert are not atomic.
* **Deleted keys sign mail** (`dkim.go:44`): no `deleted_at IS NULL`.

Also visible in the models, and true of the code: a second message on one
connection is always refused, as its return path would reuse the id
(`DataRefused`); an SPF reject carries no account and is dropped by the logger
(`NoAccount`); an email that was accepted is bounced if QUIT fails
(`TalkAcceptedFailed`); an alias recipient after a return-path recipient makes
the message go to the alias address itself (the third case of `AcceptedIsQueued`);
a good login is cached where the filter for bad ones looks (`auth.go:26` and `:55`), so the next login of the
account within a minute is refused (`LoginFiltered`); a submission with several
recipients is queued for the last one only (`SubmittedAsGiven` says "the last one
named"); a database error marks a domain as unknown for a minute (`DomainFails`);
a payment event is lost when `customer.Get` fails (`EventLost`); every handled
event costs the website a connection until it is restarted (`leaked`); a logout
leaves the session in the store, and a refresh that is under way at the time logs
the browser in again (`Answer`, in either order; `SessionsEnd` is what remains); a
session may be stored from a buffer that another request has written over (`Commit`);
after a lost connection sender and logger consume without a prefetch limit
(`Reconnect`); adding a live domain again takes back its verification and gives it a
second key, after which its page is never complete (`CreateDomain`, `readded`);
when the dialogue fails, the sender leaves the connection open
(`ReturnErr`).

## 5. Proofs

`RelaySessionProofs`, for any connections, ids, senders and directory:

* `TypeCorrect`: `TypeOK` is invariant. It is not inductive: an id comes back
  from the table in `RcptReturnPath`, so every row must have an issued id; the
  loop's return path is an address only if the session has a domain. `SessionInv`
  says so, and `RelayInv` that the row of a running loop is its own envelope's.
* `PathCorrect`: `BouncePathHome`. A new email has the row of `RelayInv`; old
  ones keep theirs because no step changes a row (`RowsStay`): `makeReturnPath`
  needs an id without one.
* `OneEnvelopeCorrect`: `OneEnvelopePerID`, with `LoopInv`: two running loops
  have different ids, and what was forwarded under the id of a running loop is of
  its envelope. A loop starts (`LoopStable`) only under an id without a row,
  while running loops and forwarded emails have one (`RowOfLoop`, `RowOfEmail`).
* `IsolationCorrect`: `EnvelopeIsolation`, from `AgreeInv`: session and envelope
  agree at every moment on content, domain, alias and recipient. What makes it
  delicate is what Reset keeps: a stale Via or ID is harmless only because a
  session with the returnPath flag set got both from a recipient of this envelope.
* `AcceptedCorrect`: `AcceptedIsQueued`, with `ServedInv`: a running loop has queued
  its envelope for every destination of the alias that it no longer has to do. The
  property has a case for each accepted envelope: no return path among the
  recipients, a return path last, and an alias after a return path.

`SenderProofs`, for any workers, emails and bounds:

* `TypeCorrect`: `TypeOK` is inductive as it stands.
* `DeliveryCorrect`: `OneLiveDelivery` is inductive with the types. No part of it needs
  the prefetch limit: it is about every unacknowledged email, however many there are.
* `ReportCorrect`: `AckedHandled` and `LogTruthful`, from `OutcomeKnown`: a worker
  that is about to log or acknowledge knows the email's outcome, and outcomes
  are never forgotten.
* `QueueRefined`: `ImplementsMailQueue`. Every step is one of the queue's or leaves
  `pending`, `done` and `fate` alone; an acknowledgement settles an email whose fate
  is known by `OutcomeKnown`, and `HeldQueued` says that what workers and the inbox
  hold was queued.
* `DuplicatesCorrect`: `DuplicateOnlyByRequeue`, from `ChancesInv`: what exchangers
  accepted, workers that may still get an acceptance, live deliveries under way and
  a place in the queue together are at most one more than the requeues. Each step
  moves a chance from one of them to the next; only a requeue makes a new one. The
  count needs `InboxUniform`: a stale delivery in the library's hands is alone there,
  as the library consumes from the new channel only once it was handed over.

`DirectoryProofs`, for any accounts, any limits, any number of parallel requests and
any subscribers; no theorem has a further hypothesis:

* `TypeCorrect`: `TypeOK` is inductive as it stands.
* `OwnCorrect`: `OwnDestinations`, with `RequestOwn`: a request that is about to
  link an alias to a destination belongs to the account of both. A request can
  be old when it commits; that is harmless because a name never changes hands
  (`OwnerStays`).
* `DecisionsCorrect`: every condition that a handler checked still holds when it
  commits, unless it was overtaken (`DecisionsStand`). It is the heart of the others. A
  commit changes rows of its own account only (`Apart`), what a handler read is about
  its account (`SameStands`), and the account's other running handlers are overtaken by
  the very commit that could invalidate what they read (`CommitOvertakes`).
* `LimitsCorrect`: `ExcessBounded`. While the account is not torn its counts are current
  (`Limits`). Afterwards `RaceInv`: live rows and pending creations of a kind together
  are at most the limit and one less than the account's requests. A handler passes the
  check only below the limit, when the other requests can be pending at most, and a
  commit turns a pending creation into a row, so the sum never grows past that
  however often the race is repeated. Counting needs finitely many rows
  (`FiniteRows`).
* `LinksCorrect` (`LinksJoinLive`), `AliasesCorrect` (`AliasNeedsVerifiedDomain`): from
  `DecisionsStand`. A new link or alias finds what its handler checked, or the account
  becomes torn by this commit.
* `CodeCorrect`: `VerifiedByCode`, with `CodesMade` (a live domain's code was made) and
  `VerifyShown`: a handler about to verify saw one of the domain's codes published, even
  if it was overtaken.
* `KeysCorrect`: `OneKeySet` is inductive with the types: a deleted domain has no live
  key, so only one that was live gets a second. No decision is needed, and so it holds
  in torn accounts too.

`DirectoryInv` is the conjunction of all these and the inductive invariant.

`SmtpClientProofs`, for any extensions:

* `TypeCorrect`: `TypeOK` is inductive as it stands.
* `DialogueImplementsAttempt`: every step is a step of `SendAttempt` or leaves its
  variables alone. Two invariants are needed. `DialogueInv`: at most one of a
  command and its reply is under way, so a reply belongs to the command before it.
  `MessageInv`: the message goes out only in `Close`, and a positive reply there
  means that it was taken, so from `Quit` on it is. `SendEmailSteps` says once
  what kinds of steps `sendEmail` has.
* `ProtocolCorrect`: `NeverOutOfSequence`, `EnvelopeOverTLS` and `ExtensionsCurrent`,
  from `SequenceInv`: client and exchanger agree on where the dialogue is. Before a
  call's command goes out the exchanger is where the call expects it (`Expected`),
  and after a positive reply where the reply says (`Granted`); a connection that is
  no longer usable sends nothing, which is why the agreement may then be lost.

`ResolverProofs`, for any connections, rules, destinations, TTL and lag:

* `ResolverCorrect`: the action property `AnswersRecent`, from `RecentInv`: a fact
  that holds has age 0; what a connection holds is no older than its lag; and an
  entry's age and the ticks it has left add up to at most TTL and lag. The sum is
  what a tick preserves, and what makes an expired entry harmless.
* `TypeCorrect`: `TypeOK`, with `FoundInv`: a session has an alias exactly while a
  recipient is accepted. It needs `RecentInv`, as the alias comes out of the cache.

`LoggerProofs`, for any accounts, entries, TTL and bounds:

* `TypeCorrect`: `TypeOK`, with `TypeInv`: the cache is a table of levels.
* `LevelCorrect`: `LevelRecent`, from `PastInv`: a cached level was in force at most a lag
  before it was put there, one that was just read at most a lag ago, and the present
  one is now. So a level that decides is at most a TTL and a lag old. The proof needs
  a TTL of at least one tick (`LoggerAssumption`; `DefaultCacheTTL` is a minute,
  `cache.go:12`): with a TTL and a lag of 0 not even the level in force when handling began would count as recent.
* `RowsCorrect`: `StoredOncePerDelivery`, from `RowsInv`: rows, a place in the queue, a
  stale delivery in the library's hands and an INSERT that may still come together
  are at most one more than the redeliveries.

`SubmissionProofs`, for any clients, passwords and bounds:

* `TypeCorrect`: `TypeOK` is inductive as it stands.
* `SubmissionCorrect`: `SubmittedAsGiven`, from `SessionInv`: session and transaction
  agree on sender and recipient at all times, and outside DATA the buffer is empty.
* `FilterCorrect`: `FilterEnds`, from `FilterInv`, the same sum of age and time left.

`AccountsProofs`, for any addresses, registrations, visits, tokens and pool: all
from one inductive invariant `AccountsInv` of two halves, the website's and the
control panel's, of which a step touches one.

* `TypeCorrect`, `RegistrationCorrect` (`StuckIsReported`), `PlanCorrect`
  (`PlanIsLastEvent`): `WebsiteInv` adds that a registration past its INSERT has a
  row, that mail and subscriptions are about existing rows, and that whoever has
  events has a subscription and hence a row with the customer's id (`Rank`).

`PanelInv` is the types of the control panel's half: a request that came with a token
or has a session to store knows its token.

Assumptions are the named `ASSUME`s of the modules: `Nil` is none of the other
values (and no row), the directory has the right types, bounds are naturals.

Only model-checked: liveness (`EventuallyAcked` of `Sender` and of `Logger`,
`AttemptEnds`, `RefusalsEnd`, `RegistrationAnswered`, `SessionsEnd`), because fairness and ENABLED are
out of the prover's reach. Every invariant, action property and refinement that a
passing run checks has a theorem.

## 6. Not modelled

Message content, header rewriting, DKIM and SPF arithmetic, spam scores, DNS
beyond found or not found, templates and routing, the contact form (it queues one
email and keeps nothing), statistics, WHOIS expiry, the TLS handshake beyond
success or failure. Publishing to RabbitMQ without confirms is taken to succeed
or to return an error. What no program of the repository calls is left out of the
SMTP client: `SendMail`, `Auth` and its mechanisms, `Verify`, `Reset`, `Noop`,
`TLSConnectionState`. Extension names are compared as the exchanger spells them
(`client.go:143-147`), so one that offers `starttls` in lower case counts as not
offering it; `ext` is what the client recognises. `Login`'s lookup by password
(`auth.go:34`) asks under keys that are addresses, so it hits only if a client sends
an address as its password; that branch is left out. The
account and plan in a web session are not kept (`Accounts`, above). The one-minute caches of DKIM keys, MX records and log levels
are the same cache as `Resolver`'s; only the last is modelled, in `Logger`.

## 7. Plan

1. The safety halves of the liveness properties, for any constants: a measure that
   every step of a worker decreases (`AttemptEnds`, `EventuallyAcked` of `Logger`), and
   that the refusal mark of a domain cannot be renewed while its lookups succeed
   (`RefusalsEnd`).
2. `Pipeline`: RelaySession and Sender composed over the queue, with a forwarded
   message as the unit: what was answered 250 reaches every destination or bounces
   to its sender.
3. The caches of DKIM keys and MX records.
