------------------------------- MODULE Logger -------------------------------
(***************************************************************************)
(* cmd/logger: the consumer of the logs queue.  It stores an entry if the   *)
(* account's log level wants it; the level is cached for a minute, while    *)
(* the control panel's log page may change it at any time.  Every message   *)
(* is acknowledged when its handler returns, whatever the outcome.          *)
(*                                                                         *)
(* One goroutine handles one message after the other, so whether the        *)
(* broker pushes one message ahead or, on a channel that was reopened       *)
(* without Qos, several, what is not in hand counts as queued until the     *)
(* connection is lost; then the client library may still hold one.         *)
(***************************************************************************)
EXTENDS Naturals, FiniteSets

CONSTANTS
  Accounts,
  Entries,      \* log entries, each published once
  AccountOf,    \* [Entries -> Accounts or Nil]: Nil is AccountID 0, no account
  EtypeOf,      \* [Entries -> Etypes]
  Nil,
  TTL,          \* DefaultCacheTTL in ticks of the clock
  MaxLag,       \* ticks between the SELECT and the Set of its result, at most
  MaxClock,     \* bound: ticks in a behaviour
  MaxFaults,    \* bound: restarts, lost connections and failed statements
  MaxChanges    \* bound: changes of a log level

Etypes == {"send", "reject", "bounce"}

\* The log-level form field is any integer: 5 stands for those that are not
\* one of the five levels.
Levels == 0..5
LogLevelAll == 0
LogLevelBounceAndReject == 1
LogLevelBounce == 2
LogLevelReject == 3
LogLevelNone == 4

ASSUME LoggerAssumption ==
  /\ AccountOf \in [Entries -> Accounts \cup {Nil}]
  /\ EtypeOf \in [Entries -> Etypes]
  /\ Nil \notin Accounts \cup Entries \cup Levels
  /\ TTL \in Nat \ {0}
  /\ {MaxLag, MaxClock, MaxFaults, MaxChanges} \subseteq Nat

VARIABLES
  ready,      \* broker: published, not delivered
  current,    \* the entry being handled, or Nil
  live,       \* whether the channel it was delivered on is still open
  acked,      \* broker: acknowledged
  limited,    \* broker: whether the current channel has the prefetch limit
  stale,      \* a delivery of a lost channel that the client library still has to
              \* hand over, or Nil
  pc,         \* step of handleMessage
  level,      \* accounts.log_level
  read,       \* the level the SELECT returned and when, until it is Set, or Nil
  cache,      \* [Accounts -> [level, at] or Nil]
  clock,
  stored,     \* rows of the logs table: [Entries -> Nat]
  begun,      \* history: clock when handleMessage started, 0 while idle
  past,       \* history: [Accounts -> [0..MaxClock -> levels in force then]]
  redelivered,\* history: [Entries -> Nat]
  faults,     \* history
  changes     \* history

channel == <<limited, stale>>
broker == <<ready, current, live, acked, channel>>
time == <<clock, past>>
vars == <<broker, pc, level, read, cache, time, stored, begun, redelivered, faults, changes>>

Init ==
  /\ ready = {} /\ current = Nil /\ live = FALSE /\ acked = {}
  /\ limited = TRUE /\ stale = Nil
  /\ pc = "idle"
  /\ level = [a \in Accounts |-> LogLevelAll]
  /\ read = Nil
  /\ cache = [a \in Accounts |-> Nil]
  /\ clock = 0
  /\ stored = [e \in Entries |-> 0]
  /\ begun = 0
  /\ past = [a \in Accounts |-> [t \in 0..MaxClock |-> IF t = 0 THEN {LogLevelAll} ELSE {}]]
  /\ redelivered = [e \in Entries |-> 0]
  /\ faults = 0
  /\ changes = 0

-----------------------------------------------------------------------------
(* The log page and the clock.                                             *)

\* UPDATE accounts SET log_level: row level security confines it to the
\* account that is logged in.
SetLevel(a, l) ==
  /\ level[a] # l
  /\ changes < MaxChanges
  /\ changes' = changes + 1
  /\ level' = [level EXCEPT ![a] = l]
  /\ past' = [past EXCEPT ![a][clock] = @ \cup {l}]
  /\ UNCHANGED <<broker, pc, read, cache, clock, stored, begun, redelivered, faults>>

\* handleMessage does not rest longer than MaxLag between SELECT and Set.
Tick ==
  /\ clock < MaxClock
  /\ pc = "set" => clock < read.at + MaxLag
  /\ clock' = clock + 1
  /\ past' = [a \in Accounts |-> [past[a] EXCEPT ![clock + 1] = {level[a]}]]
  /\ UNCHANGED <<broker, pc, level, read, cache, stored, begun, redelivered, faults, changes>>

-----------------------------------------------------------------------------
(* The broker.                                                             *)

publishLogEntry(e) ==
  /\ e \notin ready \cup acked \cup {current}
  /\ ready' = ready \cup {e}
  /\ UNCHANGED <<current, live, acked, channel, pc, level, read, cache, time, stored,
                 begun, redelivered, faults, changes>>

\* Mutant of Deliver: the subscription's autoack is on.
DeliverAutoAck(e) ==
  /\ current = Nil /\ stale = Nil
  /\ e \in ready
  /\ ready' = ready \ {e}
  /\ acked' = acked \cup {e}
  /\ current' = e /\ live' = TRUE
  /\ pc' = "level"
  /\ begun' = clock
  /\ UNCHANGED <<channel, level, read, cache, time, stored, redelivered, faults, changes>>

\* handleMessage gets the next message.  What the broker delivered ahead of it is
\* as good as queued until the connection is lost.
Deliver(e) ==
  /\ current = Nil /\ stale = Nil
  /\ e \in ready
  /\ ready' = ready \ {e}
  /\ current' = e /\ live' = TRUE
  /\ pc' = "level"
  /\ begun' = clock
  /\ UNCHANGED <<acked, channel, level, read, cache, time, stored, redelivered, faults,
                 changes>>

\* It gets one that was delivered before the connection was lost.
DeliverStale ==
  /\ current = Nil /\ stale # Nil
  /\ current' = stale /\ live' = FALSE
  /\ stale' = Nil
  /\ pc' = "level"
  /\ begun' = clock
  /\ UNCHANGED <<ready, acked, limited, level, read, cache, time, stored, redelivered,
                 faults, changes>>

\* The broker takes back the message in hand, unless it already did, and those
\* delivered ahead that are still to be handled.
Requeue(ahead) ==
  LET back == ahead \cup IF live THEN {current} ELSE {} IN
  /\ faults < MaxFaults
  /\ faults' = faults + 1
  /\ ready' = ready \cup back
  /\ redelivered' = [e \in Entries |-> IF e \in back THEN redelivered[e] + 1
                                                   ELSE redelivered[e]]

\* The connection is lost and re-established; handleMessage goes on, and nothing
\* sets Qos(1) again.  The library's goroutine may hold a delivery: one that
\* handleMessage had not got yet or, without the limit, one more.
Reconnect ==
  /\ \/ Requeue({}) /\ UNCHANGED stale
     \/ \E e \in ready : /\ stale = Nil
                         /\ limited => current = Nil
                         /\ Requeue({e})
                         /\ stale' = e
  /\ live' = FALSE /\ limited' = FALSE
  /\ UNCHANGED <<current, acked, pc, level, read, cache, time, stored, begun, changes>>

\* The process is started again, with an empty cache.
Restart ==
  /\ Requeue({})
  /\ current' = Nil /\ live' = FALSE
  /\ limited' = TRUE /\ stale' = Nil
  /\ pc' = "idle" /\ read' = Nil /\ begun' = 0
  /\ cache' = [a \in Accounts |-> Nil]
  /\ UNCHANGED <<acked, level, time, stored, changes>>

-----------------------------------------------------------------------------
(* handleMessage.                                                          *)

\* What a level keeps.
Wanted(l, etype) ==
  CASE l = LogLevelNone -> FALSE
    [] l = LogLevelBounce -> etype = "bounce"
    [] l = LogLevelReject -> etype = "reject"
    [] l = LogLevelBounceAndReject -> etype # "send"
    [] OTHER -> TRUE

Decide(l) == pc' = IF Wanted(l, EtypeOf[current]) THEN "insert" ELSE "filtered"

\* Mutant of CacheHit: entries do not expire.
CacheHitForever ==
  /\ pc = "level"
  /\ AccountOf[current] # Nil
  /\ cache[AccountOf[current]] # Nil
  /\ Decide(cache[AccountOf[current]].level)
  /\ UNCHANGED <<broker, level, read, cache, time, stored, begun, redelivered, faults,
                 changes>>

CacheHit ==
  /\ pc = "level"
  /\ AccountOf[current] # Nil
  /\ cache[AccountOf[current]] # Nil
  /\ clock < cache[AccountOf[current]].at + TTL
  /\ Decide(cache[AccountOf[current]].level)
  /\ UNCHANGED <<broker, level, read, cache, time, stored, begun, redelivered, faults,
                 changes>>

\* The level is not cached, has expired or was evicted: SELECT.
SelectLevel ==
  /\ pc = "level"
  /\ AccountOf[current] # Nil
  /\ read' = [level |-> level[AccountOf[current]], at |-> clock]
  /\ pc' = "set"
  /\ UNCHANGED <<broker, level, cache, time, stored, begun, redelivered, faults, changes>>

\* cache.Set, which ristretto may drop; the level read decides in any case.
SetCache ==
  LET a == AccountOf[current] IN
  /\ pc = "set"
  /\ cache' \in {[cache EXCEPT ![a] = Nil],
                 [cache EXCEPT ![a] = [level |-> read.level, at |-> clock]]}
  /\ Decide(read.level)
  /\ read' = Nil
  /\ UNCHANGED <<broker, level, time, stored, begun, redelivered, faults, changes>>

\* No such account: the entry is given up.
NoAccount ==
  /\ pc = "level"
  /\ AccountOf[current] = Nil
  /\ pc' = "failed"
  /\ UNCHANGED <<broker, level, read, cache, time, stored, begun, redelivered, faults,
                 changes>>

Insert ==
  /\ pc = "insert"
  /\ stored' = [stored EXCEPT ![current] = @ + 1]
  /\ pc' = "stored"
  /\ UNCHANGED <<broker, level, read, cache, time, begun, redelivered, faults, changes>>

\* A statement fails: the entry is given up.
StatementFails ==
  /\ pc \in {"level", "insert"}
  /\ faults < MaxFaults
  /\ faults' = faults + 1
  /\ pc' = "failed"
  /\ UNCHANGED <<broker, level, read, cache, time, stored, begun, redelivered, changes>>

\* handleMessage returns.
Return ==
  /\ current' = Nil /\ live' = FALSE
  /\ pc' = "idle" /\ begun' = 0
  /\ UNCHANGED <<channel, level, read, cache, time, stored, redelivered, faults, changes>>

\* Mutant of Ack: a failed message is not acknowledged.
AckUnlessFailed ==
  /\ pc \in {"stored", "filtered"}
  /\ acked' = IF live THEN acked \cup {current} ELSE acked
  /\ UNCHANGED ready
  /\ Return

\* Mutant of Ack: a stored entry goes back to the queue.
AckRequeues ==
  /\ pc \in {"stored", "filtered", "failed"}
  /\ IF pc = "failed" THEN acked' = acked \cup {current} /\ UNCHANGED ready
                      ELSE ready' = ready \cup {current} /\ UNCHANGED acked
  /\ Return

\* defer msg.Ack: always, but without effect when the channel is gone.
Ack ==
  /\ pc \in {"stored", "filtered", "failed"}
  /\ acked' = IF live THEN acked \cup {current} ELSE acked
  /\ UNCHANGED ready
  /\ Return

handleMessage ==
  \/ CacheHit \/ SelectLevel \/ SetCache \/ NoAccount
  \/ Insert \/ StatementFails \/ Ack

Next ==
  \/ \E a \in Accounts, l \in Levels : SetLevel(a, l)
  \/ Tick
  \/ \E e \in Entries : publishLogEntry(e) \/ Deliver(e)
  \/ DeliverStale \/ Reconnect \/ Restart
  \/ handleMessage

Spec == Init /\ [][Next]_vars

\* The broker delivers and the only goroutine runs.
FairSpec ==
  /\ Spec
  /\ WF_vars(DeliverStale \/ \E e \in Entries : Deliver(e))
  /\ WF_vars(handleMessage)

-----------------------------------------------------------------------------
(* Properties.                                                             *)

\* Every variable has its type; a message is in hand exactly while
\* handleMessage runs; the broker holds each message in one place only: queued,
\* unacknowledged or acknowledged; the one in hand is unacknowledged, or queued
\* again once its channel is gone, as is one that the library still holds.
TypeOK ==
  /\ ready \subseteq Entries /\ acked \subseteq Entries
  /\ current \in Entries \cup {Nil} /\ live \in BOOLEAN /\ limited \in BOOLEAN
  /\ stale \in ready \cup {Nil}
  /\ pc \in {"idle", "level", "set", "insert", "stored", "filtered", "failed"}
  /\ level \in [Accounts -> Levels]
  /\ IF pc = "set" THEN read \in [level : Levels, at : 0..MaxClock] ELSE read = Nil
  /\ \A a \in Accounts : cache[a] = Nil \/ cache[a] \in [level : Levels, at : 0..MaxClock]
  /\ clock \in 0..MaxClock /\ begun \in 0..clock
  /\ stored \in [Entries -> Nat] /\ redelivered \in [Entries -> Nat]
  /\ past \in [Accounts -> [0..MaxClock -> SUBSET Levels]]
  /\ faults \in 0..MaxFaults /\ changes \in 0..MaxChanges
  /\ current = Nil <=> pc = "idle"
  /\ live <=> current \notin ready \cup {Nil}
  /\ current \notin acked /\ ready \cap acked = {}

\* A level the account had less than TTL and a lag before the entry was
\* handled, or had while it was.
RecentLevel(a, l) ==
  \E t \in 0..clock : begun < t + TTL + MaxLag /\ l \in past[a][t]

\* A change of the log level takes effect within the cache's TTL and the time
\* between a SELECT and the Set of its result, for which the cached level is
\* older than its entry: a message is kept or dropped only as some level in
\* force at most that long before says (handleMessage caches log_level; log.go
\* changes it without telling logger).
LevelRecent ==
  pc \in {"insert", "stored", "filtered"} =>
    \E l \in Levels : /\ RecentLevel(AccountOf[current], l)
                      /\ Wanted(l, EtypeOf[current]) <=> pc # "filtered"

\* An entry is stored more than once only if it was redelivered, once for each
\* row: the process died or the connection was lost before the acknowledgement.
StoredOncePerDelivery ==
  \A e \in Entries : stored[e] <= 1 + redelivered[e]

\* Every published entry is eventually acknowledged, entries of no account and
\* failed statements included: one bad entry never blocks the queue.
EventuallyAcked ==
  \A e \in Entries : (e \in ready) ~> (e \in acked)
=============================================================================
