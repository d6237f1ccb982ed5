---------------------------- MODULE LoggerProofs ----------------------------
(***************************************************************************)
(* Proofs about Logger, for any accounts, entries, TTL and bounds.          *)
(***************************************************************************)
EXTENDS Logger, TLAPS

CacheEntry == [level : Levels, at : 0..MaxClock]

Decided == {"insert", "stored", "filtered"}

\* TypeOK, with the cache a function on the accounts; only for an entry of an
\* account a level is read, and only such an entry is decided on.
TypeInv ==
  /\ TypeOK
  /\ cache \in [Accounts -> CacheEntry \cup {Nil}]
  /\ pc \in Decided \cup {"set"} => AccountOf[current] \in Accounts

\* The entry in hand.
LEMMA InHand ==
  ASSUME TypeInv, pc # "idle"
  PROVE  /\ current \in Entries /\ current \notin acked
         /\ AccountOf[current] \in Accounts \cup {Nil}
BY LoggerAssumption DEF TypeInv, TypeOK

\* Every step keeps the types, and each message in one place.
LEMMA TypeStep == TypeInv /\ [Next]_vars => TypeInv'
<1> SUFFICES ASSUME TypeInv, [Next]_vars
             PROVE  TypeInv'
  OBVIOUS
<1>0. TypeOK /\ cache \in [Accounts -> CacheEntry \cup {Nil}] /\ Nil \notin Entries
      /\ MaxClock \in Nat /\ MaxFaults \in Nat /\ MaxChanges \in Nat
  BY LoggerAssumption DEF TypeInv
<1>1. ASSUME NEW a \in Accounts, NEW l \in Levels, SetLevel(a, l)
      PROVE  TypeInv'
  <2>1. past' \in [Accounts -> [0..MaxClock -> SUBSET Levels]]
    BY <1>0, <1>1 DEF SetLevel, TypeOK
  <2>2. /\ level' \in [Accounts -> Levels] /\ changes' \in 0..MaxChanges
        /\ UNCHANGED <<ready, current, live, acked, limited, stale, pc, read, cache, clock,
                       stored, begun, redelivered, faults>>
    BY <1>0, <1>1 DEF SetLevel, TypeOK, broker, channel
  <2> QED
    BY <1>0, <2>1, <2>2 DEF TypeInv, TypeOK
<1>2. CASE Tick
  <2>1. past' \in [Accounts -> [0..MaxClock -> SUBSET Levels]]
    BY <1>0, <1>2 DEF Tick, TypeOK
  <2>2. /\ clock' \in 0..MaxClock /\ begun' \in 0..clock'
        /\ UNCHANGED <<ready, current, live, acked, limited, stale, pc, level, read, cache,
                       stored, redelivered, faults, changes>>
    BY <1>0, <1>2 DEF Tick, TypeOK, broker, channel
  <2> QED
    BY <1>0, <2>1, <2>2 DEF TypeInv, TypeOK
<1>3. ASSUME NEW e \in Entries, publishLogEntry(e)
      PROVE  TypeInv'
  <2>1. /\ e \notin ready \cup acked \cup {current} /\ ready' = ready \cup {e}
        /\ UNCHANGED <<current, live, acked, limited, stale, pc, level, read, cache, clock, past,
                       stored, begun, redelivered, faults, changes>>
    BY <1>3 DEF publishLogEntry, time, channel
  <2>2. TypeOK'
    BY <1>0, <2>1 DEF TypeOK
  <2> QED
    BY <2>1, <2>2 DEF TypeInv
<1>4. ASSUME NEW e \in Entries, Deliver(e)
      PROVE  TypeInv'
  <2>1. /\ e \in ready /\ ready' = ready \ {e} /\ current' = e /\ pc' = "level" /\ begun' = clock
        /\ current = Nil /\ live' = TRUE /\ stale = Nil
        /\ UNCHANGED <<acked, limited, stale, level, read, cache, clock, past, stored, redelivered,
                       faults, changes>>
    BY <1>4 DEF Deliver, time, channel
  <2>2. begun' \in 0..clock'
    BY <1>0, <2>1 DEF TypeOK
  <2>3. pc = "idle" /\ read' = Nil
    BY <1>0, <2>1 DEF TypeOK
  <2> QED
    BY <1>0, <2>1, <2>2, <2>3 DEF TypeInv, TypeOK, Decided
<1>4s. CASE DeliverStale
  <2>1. /\ current' = stale /\ stale' = Nil /\ pc' = "level" /\ begun' = clock
        /\ current = Nil /\ live' = FALSE /\ stale # Nil
        /\ UNCHANGED <<ready, acked, limited, level, read, cache, clock, past, stored, redelivered,
                       faults, changes>>
    BY <1>4s DEF DeliverStale, time
  <2>2. begun' \in 0..clock'
    BY <1>0, <2>1 DEF TypeOK
  <2>3. pc = "idle" /\ read' = Nil /\ stale \in ready
    BY <1>0, <2>1 DEF TypeOK
  <2> QED
    BY <1>0, <2>1, <2>2, <2>3 DEF TypeInv, TypeOK, Decided
<1>r. ASSUME NEW ahead \in SUBSET ready, Requeue(ahead)
      PROVE  /\ ready \subseteq ready' /\ ready' \subseteq Entries
             /\ redelivered' \in [Entries -> Nat] /\ faults' \in 0..MaxFaults
             /\ ready' \cap acked = {} /\ current \in ready' \cup {Nil}
  <2>1. live => current \in Entries /\ current \notin acked
    BY <1>0 DEF TypeOK
  <2>2. ready' = ready \cup IF live THEN {current} ELSE {}
    BY <1>r DEF Requeue
  <2>3. redelivered' \in [Entries -> Nat] /\ faults' \in 0..MaxFaults
    BY <1>0, <1>r DEF Requeue, TypeOK
  <2> QED
    BY <1>0, <2>1, <2>2, <2>3 DEF TypeOK
<1>4a. CASE Reconnect
  <2>1. /\ live' = FALSE /\ limited' = FALSE
        /\ UNCHANGED <<current, acked, pc, level, read, cache, clock, past, stored, begun, changes>>
    BY <1>4a DEF Reconnect, time
  <2>2. PICK ahead \in SUBSET ready : Requeue(ahead) /\ stale' \in {stale} \cup ahead
    <3>1. CASE Requeue({}) /\ UNCHANGED stale
      BY <3>1
    <3>2. ASSUME NEW e \in ready, Requeue({e}), stale' = e
          PROVE  \E ahead \in SUBSET ready : Requeue(ahead) /\ stale' \in {stale} \cup ahead
      BY <3>2
    <3> QED
      BY <1>4a, <3>1, <3>2 DEF Reconnect
  <2>3. /\ ready \subseteq ready' /\ ready' \subseteq Entries
        /\ redelivered' \in [Entries -> Nat] /\ faults' \in 0..MaxFaults
        /\ ready' \cap acked = {} /\ current \in ready' \cup {Nil}
    BY <1>r, <2>2
  <2>4. stale' \in ready' \cup {Nil}
    BY <1>0, <2>2, <2>3 DEF TypeOK
  <2>5. TypeOK'
    BY <1>0, <2>1, <2>3, <2>4 DEF TypeOK
  <2> QED
    BY <2>1, <2>5 DEF TypeInv
<1>5. CASE Restart
  <2>1. /\ pc' = "idle" /\ current' = Nil /\ live' = FALSE /\ read' = Nil /\ begun' = 0
        /\ limited' = TRUE /\ stale' = Nil /\ Requeue({})
        /\ cache' \in [Accounts -> CacheEntry \cup {Nil}]
        /\ UNCHANGED <<acked, level, clock, past, stored, changes>>
    BY <1>0, <1>5 DEF Restart, time, TypeOK
  <2>2. /\ ready' \subseteq Entries /\ redelivered' \in [Entries -> Nat] /\ ready' \cap acked = {}
        /\ faults' \in 0..MaxFaults
    BY <1>r, <2>1
  <2>3. begun' \in 0..clock'
    BY <1>0, <2>1 DEF TypeOK
  <2>4. Nil \notin ready' \cup acked'
    BY <1>0, <2>1, <2>2 DEF TypeOK
  <2>5. \A a \in Accounts : cache'[a] = Nil \/ cache'[a] \in [level : Levels, at : 0..MaxClock]
    BY <2>1 DEF CacheEntry
  <2> QED
    BY <1>0, <2>1, <2>2, <2>3, <2>4, <2>5 DEF TypeInv, TypeOK, Decided
<1>6. ASSUME pc # "idle", cache' \in [Accounts -> CacheEntry \cup {Nil}],
             pc' \in Decided \cup {"set", "failed"},
             pc' \in Decided \cup {"set"} => AccountOf[current] \in Accounts,
             IF pc' = "set" THEN read' \in CacheEntry ELSE read' = Nil,
             stored' \in [Entries -> Nat], faults' \in 0..MaxFaults,
             UNCHANGED <<broker, level, time, begun, redelivered, changes>>
      PROVE  TypeInv'
  <2>1. \A a \in Accounts : cache'[a] = Nil \/ cache'[a] \in [level : Levels, at : 0..MaxClock]
    BY <1>6 DEF CacheEntry
  <2>2. IF pc' = "set" THEN read' \in [level : Levels, at : 0..MaxClock] ELSE read' = Nil
    BY <1>6 DEF CacheEntry
  <2> QED
    BY <1>0, <1>6, <2>1, <2>2 DEF TypeInv, TypeOK, Decided, broker, channel, time
<1>7. CASE CacheHit
  <2>1. /\ pc' \in {"insert", "filtered"} /\ pc = "level" /\ AccountOf[current] # Nil
        /\ UNCHANGED <<broker, level, read, cache, time, stored, begun, redelivered, faults, changes>>
    BY <1>7 DEF CacheHit, Decide
  <2>2. read' = Nil
    BY <1>0, <2>1 DEF TypeOK
  <2> QED
    BY <1>0, <1>6, <2>1, <2>2, InHand DEF Decided, TypeOK
<1>8. CASE SelectLevel
  <2>1. /\ pc' = "set" /\ pc # "idle" /\ AccountOf[current] # Nil
        /\ read' = [level |-> level[AccountOf[current]], at |-> clock]
        /\ UNCHANGED <<broker, level, cache, time, stored, begun, redelivered, faults, changes>>
    BY <1>8 DEF SelectLevel
  <2>2. AccountOf[current] \in Accounts
    BY <2>1, InHand
  <2>3. read' \in CacheEntry
    BY <1>0, <2>1, <2>2 DEF TypeOK, CacheEntry
  <2> QED
    BY <1>0, <1>6, <2>1, <2>2, <2>3 DEF Decided, TypeOK
<1>8a. CASE SetCache
  <2>1. /\ pc' \in {"insert", "filtered"} /\ pc = "set" /\ read' = Nil
        /\ cache' \in {[cache EXCEPT ![AccountOf[current]] = Nil],
                       [cache EXCEPT ![AccountOf[current]] =
                          [level |-> read.level, at |-> clock]]}
        /\ UNCHANGED <<broker, level, time, stored, begun, redelivered, faults, changes>>
    BY <1>8a DEF SetCache, Decide
  <2>2. AccountOf[current] \in Accounts
    BY <2>1 DEF TypeInv
  <2>3. read.level \in Levels /\ clock \in 0..MaxClock
    BY <1>0, <2>1 DEF TypeOK
  <2>4. [level |-> read.level, at |-> clock] \in CacheEntry
    BY <2>3 DEF CacheEntry
  <2>5. cache' \in [Accounts -> CacheEntry \cup {Nil}]
    BY <1>0, <2>1, <2>4
  <2> QED
    BY <1>0, <1>6, <2>1, <2>2, <2>5 DEF Decided, TypeOK
<1>9. CASE NoAccount \/ StatementFails
  <2>1. /\ pc' = "failed" /\ pc \in {"level", "insert"} /\ faults' \in 0..MaxFaults
        /\ UNCHANGED <<broker, level, read, cache, time, stored, begun, redelivered, changes>>
    BY <1>0, <1>9 DEF NoAccount, StatementFails, TypeOK
  <2>2. read' = Nil
    BY <1>0, <2>1 DEF TypeOK
  <2> QED
    BY <1>0, <1>6, <2>1, <2>2 DEF Decided, TypeOK
<1>10. CASE Insert
  <2>1. /\ pc' = "stored" /\ pc = "insert"
        /\ stored' = [stored EXCEPT ![current] = @ + 1]
        /\ UNCHANGED <<broker, level, read, cache, time, begun, redelivered, faults, changes>>
    BY <1>10 DEF Insert
  <2>2. stored' \in [Entries -> Nat]
    BY <1>0, <2>1, InHand DEF TypeOK
  <2>3. read' = Nil
    BY <1>0, <2>1 DEF TypeOK
  <2> QED
    BY <1>0, <1>6, <2>1, <2>2, <2>3 DEF Decided, TypeOK, TypeInv
<1>11. CASE Ack
  <2>1. /\ pc \in {"stored", "filtered", "failed"}
        /\ acked' = IF live THEN acked \cup {current} ELSE acked
        /\ current' = Nil /\ live' = FALSE /\ pc' = "idle" /\ begun' = 0
        /\ UNCHANGED <<ready, limited, stale, level, read, cache, clock, past, stored, redelivered,
                       faults, changes>>
    BY <1>11 DEF Ack, Return, time, channel
  <2>2. begun' \in 0..clock'
    BY <1>0, <2>1 DEF TypeOK
  <2>3. acked' \subseteq Entries /\ ready' \cap acked' = {} /\ read' = Nil /\ Nil \notin acked'
    BY <1>0, <2>1, InHand DEF TypeOK
  <2> QED
    BY <1>0, <2>1, <2>2, <2>3 DEF TypeInv, TypeOK, Decided
<1>12. CASE UNCHANGED vars
  BY <1>12 DEF vars, broker, channel, time, TypeInv, TypeOK
<1> QED
  BY <1>1, <1>2, <1>3, <1>4, <1>4s, <1>4a, <1>5, <1>7, <1>8, <1>8a, <1>9, <1>10, <1>11, <1>12
     DEF Next, handleMessage

\* The initial state has the types.
LEMMA TypeInit == Init => TypeInv
<1> SUFFICES ASSUME Init PROVE TypeInv
  OBVIOUS
<1>1. past \in [Accounts -> [0..MaxClock -> SUBSET Levels]]
  BY DEF Init, Levels, LogLevelAll
<1>2. /\ 0 \in 0..MaxClock /\ 0 \in 0..0 /\ 0 \in 0..MaxFaults /\ 0 \in 0..MaxChanges
      /\ LogLevelAll \in Levels
  BY LoggerAssumption DEF Levels, LogLevelAll
<1>3. TypeOK
  BY <1>1, <1>2 DEF Init, TypeOK
<1> QED
  BY <1>3 DEF Init, TypeInv, Decided

\* The logger's variables have their types, a message is in hand exactly while
\* handleMessage runs and is in one place of the broker, for any entries,
\* accounts and faults.
THEOREM TypeCorrect == Spec => []TypeOK
<1>1. TypeInv => TypeOK
  BY DEF TypeInv
<1> QED
  BY <1>1, TypeInit, TypeStep, PTL DEF Spec

-----------------------------------------------------------------------------
(* The log level that decides.  What a SELECT read was in force then, what   *)
(* the cache holds was in force at most a lag before it was set, and what is *)
(* in force now is on record.                                               *)

\* Level l was in force at most MaxLag before time at, and not after it.
InForce(a, l, at) == \E t \in 0..clock : t <= at /\ at <= t + MaxLag /\ l \in past[a][t]

CacheInForce ==
  \A a \in Accounts : cache[a] # Nil =>
    cache[a].at \in 0..clock /\ InForce(a, cache[a].level, cache[a].at)

PastInv ==
  /\ \A a \in Accounts : level[a] \in past[a][clock]
  /\ pc = "set" => /\ read.at \in 0..clock /\ clock <= read.at + MaxLag
                   /\ read.level \in past[AccountOf[current]][read.at]
  /\ CacheInForce

\* What is on record of the past stays there.
LEMMA PastStays ==
  ASSUME TypeInv, [Next]_vars, NEW a \in Accounts, NEW t \in 0..clock
  PROVE  past[a][t] \subseteq past'[a][t] /\ t \in 0..clock'
<1>0. TypeOK /\ MaxClock \in Nat
  BY LoggerAssumption DEF TypeInv
<1>1. ASSUME NEW b \in Accounts, NEW l \in Levels, SetLevel(b, l)
      PROVE  past[a][t] \subseteq past'[a][t] /\ t \in 0..clock'
  <2>1. clock' = clock /\ t \in 0..MaxClock
    BY <1>0, <1>1 DEF SetLevel, TypeOK
  <2>2. past[a][t] \subseteq past'[a][t]
    BY <1>0, <1>1, <2>1 DEF SetLevel, TypeOK
  <2> QED
    BY <2>1, <2>2
<1>2. CASE Tick
  <2>1. clock' = clock + 1 /\ t \in 0..MaxClock /\ t # clock + 1 /\ t \in 0..clock'
    BY <1>0, <1>2 DEF Tick, TypeOK
  <2>2. past'[a] = [past[a] EXCEPT ![clock + 1] = {level[a]}]
    BY <1>2 DEF Tick
  <2>3. past[a] \in [0..MaxClock -> SUBSET Levels]
    BY <1>0 DEF TypeOK
  <2>4. past'[a][t] = past[a][t]
    BY <2>1, <2>2, <2>3
  <2> QED
    BY <2>1, <2>4
<1>3. ASSUME UNCHANGED <<clock, past>>
      PROVE  past[a][t] \subseteq past'[a][t] /\ t \in 0..clock'
  BY <1>3
<1>4. CASE DeliverStale \/ Reconnect \/ Restart \/ handleMessage \/ UNCHANGED vars
           \/ \E e \in Entries : publishLogEntry(e) \/ Deliver(e)
  BY <1>3, <1>4 DEF DeliverStale, Reconnect, Restart, handleMessage, CacheHit, SelectLevel,
     SetCache, NoAccount, Insert, StatementFails, Ack, Return, publishLogEntry, Deliver, vars, time
<1> QED
  BY <1>1, <1>2, <1>4 DEF Next

\* Every step keeps PastInv.
LEMMA PastStep == TypeInv /\ PastInv /\ [Next]_vars => PastInv'
<1> SUFFICES ASSUME TypeInv, PastInv, [Next]_vars PROVE PastInv'
  OBVIOUS
<1>0. /\ TypeOK /\ cache \in [Accounts -> CacheEntry \cup {Nil}] /\ MaxClock \in Nat
      /\ clock \in 0..clock /\ clock \in Nat /\ MaxLag \in Nat
  BY LoggerAssumption DEF TypeInv, TypeOK
\* What the cache keeps was in force, as before.
<1>1. ASSUME NEW a \in Accounts, cache[a] # Nil, cache'[a] = cache[a]
      PROVE  /\ cache'[a].at \in 0..clock'
             /\ \E k \in 0..clock' : /\ k <= cache'[a].at /\ cache'[a].at <= k + MaxLag
                                     /\ cache'[a].level \in past'[a][k]
  <2>1. PICK t \in 0..clock : /\ t <= cache[a].at /\ cache[a].at <= t + MaxLag
                              /\ cache[a].level \in past[a][t]
    BY <1>1 DEF PastInv, CacheInForce, InForce
  <2>2. t \in 0..clock' /\ cache[a].level \in past'[a][t]
    BY <2>1, PastStays
  <2>3. cache[a].at \in 0..clock'
    BY <1>1, PastStays DEF PastInv, CacheInForce
  <2> QED
    BY <1>1, <2>1, <2>2, <2>3
<1>2a. ASSUME cache' = cache
       PROVE  CacheInForce'
  BY <1>1, <1>2a DEF CacheInForce, InForce
\* A step that leaves the clock and the levels alone.
<1>3. ASSUME level' = level, clock' = clock
      PROVE  \A a \in Accounts : level'[a] \in past'[a][clock']
  <2>1. \A a \in Accounts : past[a][clock] \subseteq past'[a][clock]
    BY <1>0, PastStays
  <2> QED
    BY <1>3, <2>1 DEF PastInv
\* What was read stays on record.
<1>4. ASSUME pc = "set", UNCHANGED <<current, read>>
      PROVE  read'.at \in 0..clock' /\ read'.level \in past'[AccountOf[current']][read'.at]
  <2>1. AccountOf[current] \in Accounts /\ read.at \in 0..clock
    BY <1>4 DEF TypeInv, PastInv
  <2>2. past[AccountOf[current]][read.at] \subseteq past'[AccountOf[current]][read.at]
        /\ read.at \in 0..clock'
    BY <2>1, PastStays
  <2> QED
    BY <1>4, <2>2 DEF PastInv
<1>5. ASSUME NEW b \in Accounts, NEW l \in Levels, SetLevel(b, l)
      PROVE  PastInv'
  <2>1. /\ UNCHANGED <<cache, clock, pc, read, current>> /\ level' = [level EXCEPT ![b] = l]
        /\ past' = [past EXCEPT ![b][clock] = @ \cup {l}]
    BY <1>5 DEF SetLevel, broker
  <2>2. ASSUME NEW a \in Accounts PROVE level'[a] \in past'[a][clock]
    <3>1. CASE a # b
      <4>1. past[a][clock] \subseteq past'[a][clock]
        BY <1>0, PastStays
      <4> QED
        BY <1>0, <2>1, <3>1, <4>1 DEF PastInv, TypeOK
    <3>2. CASE a = b
      BY <1>0, <2>1, <3>2 DEF TypeOK
    <3> QED
      BY <3>1, <3>2
  <2>3. pc' = "set" => /\ read'.at \in 0..clock' /\ clock' <= read'.at + MaxLag
                       /\ read'.level \in past'[AccountOf[current']][read'.at]
    BY <1>4, <2>1 DEF PastInv
  <2> QED
    BY <1>2a, <2>1, <2>2, <2>3 DEF PastInv
<1>6. CASE Tick
  <2>1. /\ UNCHANGED <<cache, level, pc, read, current>> /\ clock' = clock + 1
        /\ \A a \in Accounts : past'[a] = [past[a] EXCEPT ![clock + 1] = {level[a]}]
        /\ clock + 1 \in 0..MaxClock /\ (pc = "set" => clock < read.at + MaxLag)
    BY <1>0, <1>6 DEF Tick, TypeOK, broker
  <2>2. ASSUME NEW a \in Accounts PROVE level'[a] \in past'[a][clock']
    <3>1. past[a] \in [0..MaxClock -> SUBSET Levels]
      BY <1>0 DEF TypeOK
    <3>2. past'[a] = [past[a] EXCEPT ![clock + 1] = {level[a]}] /\ clock + 1 \in 0..MaxClock
      BY <2>1
    <3>3. past'[a][clock + 1] = {level[a]}
      BY <3>1, <3>2
    <3> QED
      BY <2>1, <3>3
  <2>3. pc' = "set" => /\ read'.at \in 0..clock' /\ clock' <= read'.at + MaxLag
                       /\ read'.level \in past'[AccountOf[current']][read'.at]
    BY <1>0, <1>4, <2>1 DEF PastInv
  <2> QED
    BY <1>2a, <2>1, <2>2, <2>3 DEF PastInv
<1>7. CASE SelectLevel
  <2> DEFINE m == [level |-> level[AccountOf[current]], at |-> clock]
  <2>1. read' = m /\ UNCHANGED <<level, cache, clock, past, current>> /\ pc = "level"
        /\ AccountOf[current] # Nil
    BY <1>7 DEF SelectLevel, time, broker
  <2>2. AccountOf[current] \in Accounts
    BY <2>1, InHand
  <2>3. m.at = clock /\ m.level \in past[AccountOf[current]][clock]
    BY <2>2 DEF PastInv
  <2> HIDE DEF m
  <2>4. pc' = "set" => /\ read'.at \in 0..clock' /\ clock' <= read'.at + MaxLag
                       /\ read'.level \in past'[AccountOf[current']][read'.at]
    BY <1>0, <2>1, <2>3
  <2> QED
    BY <1>2a, <1>3, <2>1, <2>4 DEF PastInv
<1>8. CASE SetCache
  <2> DEFINE b == AccountOf[current]
             m == [level |-> read.level, at |-> clock]
  <2>1. /\ cache' \in {[cache EXCEPT ![b] = Nil], [cache EXCEPT ![b] = m]}
        /\ UNCHANGED <<level, clock, past>> /\ pc = "set" /\ pc' # "set"
    BY <1>8 DEF SetCache, Decide, time
  <2>2. m.level = read.level /\ m.at = clock
    OBVIOUS
  <2>3. /\ read.at \in 0..clock /\ clock <= read.at + MaxLag /\ read.level \in past[b][read.at]
        /\ read.at <= clock
    BY <1>0, <2>1 DEF PastInv
  <2> HIDE DEF m
  <2>4. ASSUME NEW a \in Accounts, cache'[a] # Nil
        PROVE  /\ cache'[a].at \in 0..clock'
               /\ \E k \in 0..clock' : /\ k <= cache'[a].at /\ cache'[a].at <= k + MaxLag
                                       /\ cache'[a].level \in past'[a][k]
    <3>1. CASE a # b
      <4>1. cache'[a] = cache[a]
        BY <1>0, <2>1, <3>1
      <4> QED
        BY <1>1, <2>4, <4>1
    <3>2. CASE a = b
      <4>1. cache'[a] = m
        BY <1>0, <2>1, <2>4, <3>2
      <4> QED
        BY <1>0, <2>1, <2>2, <2>3, <3>2, <4>1
    <3> QED
      BY <3>1, <3>2
  <2>5. CacheInForce'
    BY <2>4 DEF CacheInForce, InForce
  <2> QED
    BY <1>3, <2>1, <2>5 DEF PastInv
<1>9. CASE Restart
  <2>1. level' = level /\ clock' = clock /\ pc' = "idle" /\ \A a \in Accounts : cache'[a] = Nil
    BY <1>9 DEF Restart, time
  <2> QED
    BY <1>3, <2>1 DEF PastInv, CacheInForce
<1>10. CASE CacheHit \/ NoAccount \/ Insert \/ StatementFails \/ Ack
            \/ DeliverStale \/ \E e \in Entries : Deliver(e)
  <2>1. UNCHANGED <<level, cache, clock>> /\ pc' # "set"
    BY <1>10 DEF CacheHit, Decide, NoAccount, Insert, StatementFails, Ack, Return, Deliver,
       DeliverStale, time
  <2> QED
    BY <1>2a, <1>3, <2>1 DEF PastInv
<1>11. CASE Reconnect \/ UNCHANGED vars \/ \E e \in Entries : publishLogEntry(e)
  <2>1. UNCHANGED <<level, cache, clock, past, pc, read, current>>
    BY <1>11 DEF Reconnect, publishLogEntry, vars, time, broker
  <2>2. pc' = "set" => /\ read'.at \in 0..clock' /\ clock' <= read'.at + MaxLag
                       /\ read'.level \in past'[AccountOf[current']][read'.at]
    BY <1>4, <2>1 DEF PastInv
  <2> QED
    BY <1>2a, <1>3, <2>1, <2>2 DEF PastInv
<1> QED
  BY <1>5, <1>6, <1>7, <1>8, <1>9, <1>10, <1>11 DEF Next, handleMessage

\* Every step keeps LevelRecent: the level that decides is the one in force
\* or a cached one that has not expired, and later the record only grows.
LEMMA LevelStep == TypeInv /\ PastInv /\ LevelRecent /\ [Next]_vars => LevelRecent'
<1> SUFFICES ASSUME TypeInv, PastInv, LevelRecent, [Next]_vars, pc' \in Decided
             PROVE  LevelRecent'
  BY DEF LevelRecent, Decided
<1>0. /\ TypeOK /\ cache \in [Accounts -> CacheEntry \cup {Nil}] /\ MaxClock \in Nat
      /\ TTL \in Nat \ {0} /\ MaxLag \in Nat /\ clock \in Nat /\ begun \in 0..clock
  BY LoggerAssumption DEF TypeInv, TypeOK
<1> DEFINE a == AccountOf[current]
\* A decision that was taken stands.
<1>1. ASSUME pc \in Decided, current' = current, begun' = begun,
             pc' = "filtered" <=> pc = "filtered"
      PROVE  LevelRecent'
  <2>1. a \in Accounts
    BY <1>1 DEF TypeInv
  <2>2. PICK l \in Levels : /\ RecentLevel(a, l)
                            /\ Wanted(l, EtypeOf[current]) <=> pc # "filtered"
    BY <1>1 DEF LevelRecent, Decided
  <2>3. PICK t \in 0..clock : begun < t + TTL + MaxLag /\ l \in past[a][t]
    BY <2>2 DEF RecentLevel
  <2>4. t \in 0..clock' /\ l \in past'[a][t]
    BY <2>1, <2>3, PastStays
  <2>5. \E k \in 0..clock' : begun' < k + TTL + MaxLag /\ l \in past'[a][k]
    BY <1>1, <2>3, <2>4
  <2>6. Wanted(l, EtypeOf[current]) <=> pc' # "filtered"
    BY <1>1, <2>2
  <2> QED
    BY <1>1, <2>5, <2>6 DEF LevelRecent, RecentLevel, Wanted
\* The decision.
<1>2. ASSUME NEW l \in Levels, NEW t \in 0..clock, l \in past[a][t], clock < t + TTL + MaxLag,
             Decide(l), UNCHANGED <<current, begun, clock, past>>
      PROVE  LevelRecent'
  <2>1. begun < t + TTL + MaxLag
    BY <1>0, <1>2
  <2>2. \E k \in 0..clock' : begun' < k + TTL + MaxLag /\ l \in past'[a][k]
    BY <1>2, <2>1
  <2>3. Wanted(l, EtypeOf[current]) <=> pc' # "filtered"
    BY <1>2 DEF Decide
  <2> QED
    BY <1>2, <2>2, <2>3 DEF LevelRecent, RecentLevel, Wanted
<1>3. CASE CacheHit
  <2>1. /\ pc = "level" /\ a # Nil /\ cache[a] # Nil /\ clock < cache[a].at + TTL
        /\ Decide(cache[a].level) /\ UNCHANGED <<current, begun, clock, past>>
    BY <1>3 DEF CacheHit, broker, time
  <2>2. a \in Accounts
    BY <2>1, InHand
  <2>3. cache[a] \in CacheEntry /\ cache[a].at \in 0..clock
        /\ InForce(a, cache[a].level, cache[a].at)
    BY <1>0, <2>1, <2>2 DEF PastInv, CacheInForce
  <2>4. cache[a].level \in Levels
    BY <2>3 DEF CacheEntry
  <2>5. PICK t \in 0..clock : cache[a].at <= t + MaxLag /\ cache[a].level \in past[a][t]
    BY <2>3 DEF InForce
  <2>6. clock < t + TTL + MaxLag
    BY <1>0, <2>1, <2>3, <2>5
  <2> QED
    BY <1>2, <2>1, <2>4, <2>5, <2>6
<1>4. CASE SetCache
  <2>1. pc = "set" /\ Decide(read.level) /\ UNCHANGED <<current, begun, clock, past>>
    BY <1>4 DEF SetCache, broker, time
  <2>2. read.level \in Levels
    BY <1>0, <2>1 DEF TypeOK
  <2>3. read.at \in 0..clock /\ clock <= read.at + MaxLag /\ read.level \in past[a][read.at]
    BY <2>1 DEF PastInv
  <2>4. clock < read.at + TTL + MaxLag
    BY <1>0, <2>3
  <2> QED
    BY <1>2, <2>1, <2>2, <2>3, <2>4
<1>5. CASE Insert
  BY <1>1, <1>5 DEF Insert, broker, Decided
<1>6. CASE UNCHANGED vars \/ Tick \/ Reconnect \/ (\E e \in Entries : publishLogEntry(e))
           \/ \E b \in Accounts, l \in Levels : SetLevel(b, l)
  <2>1. UNCHANGED <<pc, current, begun>>
    BY <1>6 DEF vars, Tick, Reconnect, publishLogEntry, SetLevel, broker
  <2> QED
    BY <1>1, <2>1
<1>7. CASE Restart \/ SelectLevel \/ NoAccount \/ StatementFails \/ Ack
           \/ DeliverStale \/ \E e \in Entries : Deliver(e)
  BY <1>7 DEF Restart, SelectLevel, NoAccount, StatementFails, Ack, Return, Deliver,
     DeliverStale, Decided
<1> QED
  BY <1>3, <1>4, <1>5, <1>6, <1>7 DEF Next, handleMessage

\* A change of the log level takes effect within the cache's TTL and the time a
\* lookup takes, for any TTL but zero and any such time, and however changes,
\* ticks, evictions, lost connections and restarts interleave with
\* handleMessage (cmd/logger).
THEOREM LevelCorrect == Spec => []LevelRecent
<1>1. Init => PastInv /\ LevelRecent
  BY LoggerAssumption DEF Init, PastInv, CacheInForce, LevelRecent
<1> QED
  BY <1>1, TypeInit, TypeStep, PastStep, LevelStep, PTL DEF Spec

-----------------------------------------------------------------------------
(* Rows.  What may still store a row is counted with the rows: the entry's   *)
(* place in the queue, a handler that has not come to the INSERT yet and a   *)
(* delivery that the client library still holds.  A lost connection puts an  *)
(* entry back while its handler goes on.                                    *)

Queued == ready \cup acked \cup {current}

Waiting(e) == (IF e \in ready THEN 1 ELSE 0) + (IF e = stale THEN 1 ELSE 0)

Handling(e) == IF e = current /\ pc \in {"level", "set", "insert"} THEN 1 ELSE 0

RowsInv ==
  \A e \in Entries :
    /\ e \notin Queued => stored[e] = 0
    /\ stored[e] + Waiting(e) + Handling(e) <= 1 + redelivered[e]

\* Every step keeps RowsInv.
LEMMA RowsStep == TypeInv /\ RowsInv /\ [Next]_vars => RowsInv'
<1> SUFFICES ASSUME TypeInv, RowsInv, [Next]_vars, NEW e \in Entries
             PROVE  /\ e \notin Queued' => stored'[e] = 0
                    /\ stored'[e] + Waiting(e)' + Handling(e)' <= 1 + redelivered'[e]
  BY DEF RowsInv
<1>0. /\ TypeOK /\ stored[e] \in Nat /\ redelivered[e] \in Nat /\ Nil \notin Entries
      /\ e \notin Queued => stored[e] = 0
      /\ stored[e] + Waiting(e) + Handling(e) <= 1 + redelivered[e]
  BY LoggerAssumption DEF TypeInv, TypeOK, RowsInv
<1>1. ASSUME UNCHANGED <<stored, redelivered>>, e \in Queued => e \in Queued',
             Waiting(e)' + Handling(e)' <= Waiting(e) + Handling(e)
      PROVE  /\ e \notin Queued' => stored'[e] = 0
             /\ stored'[e] + Waiting(e)' + Handling(e)' <= 1 + redelivered'[e]
  <2>1. Waiting(e) \in Nat /\ Handling(e) \in Nat /\ Waiting(e)' \in Nat /\ Handling(e)' \in Nat
    BY DEF Waiting, Handling
  <2> QED
    BY <1>0, <1>1, <2>1
<1>2. CASE Reconnect \/ Restart
  <2>1. /\ stored' = stored /\ acked' = acked
        /\ \/ current' = current /\ pc' = pc
           \/ current' = Nil /\ pc' = "idle"
    BY <1>2 DEF Reconnect, Restart
  <2>2. Handling(e)' \in {0, Handling(e)} /\ Handling(e) \in Nat
    BY <1>0, <2>1 DEF Handling
  <2>3. PICK ahead \in SUBSET ready :
          /\ Requeue(ahead)
          /\ stale' = e /\ stale # e => e \in ahead
    <3>1. CASE Requeue({}) /\ stale' \in {stale, Nil}
      BY <1>0, <3>1
    <3>2. ASSUME NEW d \in ready, Requeue({d}), stale' = d
          PROVE  \E ahead \in SUBSET ready :
                   Requeue(ahead) /\ (stale' = e /\ stale # e => e \in ahead)
      BY <3>2
    <3> QED
      BY <1>2, <3>1, <3>2 DEF Reconnect, Restart
  <2>4. /\ ready' = ready \cup IF live THEN {current} ELSE {}
        /\ redelivered'[e] = IF e \in ahead \/ (live /\ e = current) THEN redelivered[e] + 1
                                                                  ELSE redelivered[e]
    BY <2>3 DEF Requeue
  <2>5. live /\ e = current => e \notin ready
    BY <1>0 DEF TypeOK
  <2>6. e \in Queued => e \in Queued'
    <3>1. e = current => e \in ready'
      BY <1>0, <2>4 DEF TypeOK
    <3> QED
      BY <2>1, <2>4, <3>1 DEF Queued
  <2>7. stored'[e] + Waiting(e)' + Handling(e)' <= 1 + redelivered'[e]
    <3>1. CASE live /\ e = current
      <4>1. e \notin ready /\ e # stale /\ stale' # e /\ redelivered'[e] = redelivered[e] + 1
        BY <1>0, <2>3, <2>4, <2>5, <3>1 DEF TypeOK
      <4> QED
        BY <1>0, <2>1, <2>2, <4>1 DEF Waiting
    <3>2. CASE ~(live /\ e = current)
      <4>1. e \in ready' <=> e \in ready
        BY <2>4, <3>2
      <4>2. CASE e \in ahead
        BY <1>0, <2>1, <2>2, <2>4, <4>1, <4>2 DEF Waiting
      <4>3. CASE e \notin ahead
        BY <1>0, <2>1, <2>2, <2>3, <2>4, <3>2, <4>1, <4>3 DEF Waiting
      <4> QED
        BY <4>2, <4>3
    <3> QED
      BY <3>1, <3>2
  <2> QED
    BY <1>0, <2>1, <2>6, <2>7
<1>3. CASE Insert
  <2>1. /\ stored' = [stored EXCEPT ![current] = @ + 1] /\ pc = "insert" /\ pc' = "stored"
        /\ UNCHANGED <<ready, stale, current, acked, redelivered>>
    BY <1>3 DEF Insert, broker, channel
  <2>2. stored'[e] = IF e = current THEN stored[e] + 1 ELSE stored[e]
    BY <1>0, <2>1 DEF TypeOK
  <2> QED
    BY <1>0, <2>1, <2>2 DEF Waiting, Handling, Queued
<1>4. CASE Ack
  <2>1. /\ UNCHANGED <<stored, redelivered, ready, stale>> /\ current' = Nil /\ pc' = "idle"
        /\ acked' = IF live THEN acked \cup {current} ELSE acked
    BY <1>4 DEF Ack, Return, channel
  <2>2. e = current => e \in ready' \cup acked'
    BY <1>0, <2>1 DEF TypeOK
  <2>3. e \in Queued => e \in Queued'
    BY <2>1, <2>2 DEF Queued
  <2>4. Waiting(e)' + Handling(e)' <= Waiting(e) + Handling(e)
    BY <2>1 DEF Waiting, Handling
  <2> QED
    BY <1>1, <2>1, <2>3, <2>4
<1>5. ASSUME NEW d \in Entries, Deliver(d)
      PROVE  /\ e \notin Queued' => stored'[e] = 0
             /\ stored'[e] + Waiting(e)' + Handling(e)' <= 1 + redelivered'[e]
  <2>1. /\ UNCHANGED <<stored, redelivered, acked, stale>> /\ current = Nil /\ current' = d
        /\ pc' = "level" /\ d \in ready /\ ready' = ready \ {d}
    BY <1>5 DEF Deliver, channel
  <2>2. e \in Queued => e \in Queued'
    BY <1>0, <2>1 DEF Queued
  <2>3. Waiting(e)' + Handling(e)' <= Waiting(e) + Handling(e)
    BY <1>0, <2>1 DEF Waiting, Handling
  <2> QED
    BY <1>1, <2>1, <2>2, <2>3
<1>5s. CASE DeliverStale
  <2>1. /\ UNCHANGED <<stored, redelivered, acked, ready>> /\ current = Nil /\ current' = stale
        /\ pc' = "level" /\ stale # Nil /\ stale' = Nil
    BY <1>5s DEF DeliverStale
  <2>2. e \in Queued => e \in Queued'
    BY <1>0, <2>1 DEF Queued
  <2>3. Waiting(e)' + Handling(e)' <= Waiting(e) + Handling(e)
    BY <1>0, <2>1 DEF Waiting, Handling
  <2> QED
    BY <1>1, <2>1, <2>2, <2>3
<1>6. ASSUME NEW d \in Entries, publishLogEntry(d)
      PROVE  /\ e \notin Queued' => stored'[e] = 0
             /\ stored'[e] + Waiting(e)' + Handling(e)' <= 1 + redelivered'[e]
  <2>1. /\ UNCHANGED <<stored, redelivered, acked, stale, current, pc>> /\ d \notin Queued
        /\ ready' = ready \cup {d}
    BY <1>6 DEF publishLogEntry, Queued, channel
  <2>2. CASE e = d
    <3>1. e # stale
      BY <1>0, <2>1, <2>2 DEF TypeOK, Queued
    <3> QED
      BY <1>0, <2>1, <2>2, <3>1 DEF Waiting, Handling, Queued
  <2>3. CASE e # d
    BY <1>0, <2>1, <2>3 DEF Waiting, Handling, Queued
  <2> QED
    BY <2>2, <2>3
<1>7. CASE CacheHit \/ SelectLevel \/ SetCache \/ NoAccount \/ StatementFails
  <2>1. UNCHANGED <<stored, redelivered, acked, ready, stale, current>>
        /\ pc \in {"level", "set", "insert"}
    BY <1>7 DEF CacheHit, SelectLevel, SetCache, NoAccount, StatementFails, broker, channel
  <2>2. Waiting(e)' + Handling(e)' <= Waiting(e) + Handling(e) /\ Queued' = Queued
    BY <2>1 DEF Waiting, Handling, Queued
  <2> QED
    BY <1>1, <2>1, <2>2
<1>8. CASE UNCHANGED vars \/ Tick \/ \E b \in Accounts, l \in Levels : SetLevel(b, l)
  <2>1. UNCHANGED <<stored, redelivered, ready, stale, acked, current, pc>>
    BY <1>8 DEF vars, Tick, SetLevel, broker, channel
  <2> QED
    BY <1>0, <2>1 DEF Waiting, Handling, Queued
<1> QED
  BY <1>2, <1>3, <1>4, <1>5, <1>5s, <1>6, <1>7, <1>8 DEF Next, handleMessage

\* An entry has more than one row only after it was redelivered, once for each
\* time, for any number of entries, restarts and lost connections, after which
\* a handler goes on with a message the broker has queued again (handleMessage,
\* cmd/logger: the INSERT comes before the acknowledgement).
THEOREM RowsCorrect == Spec => []StoredOncePerDelivery
<1>1. Init => RowsInv
  BY LoggerAssumption DEF Init, RowsInv, Waiting, Handling
<1>2. TypeInv /\ RowsInv => StoredOncePerDelivery
  <2>1. SUFFICES ASSUME TypeInv, RowsInv, NEW e \in Entries PROVE stored[e] <= 1 + redelivered[e]
    BY DEF StoredOncePerDelivery
  <2>2. stored[e] \in Nat /\ redelivered[e] \in Nat
        /\ stored[e] + Waiting(e) + Handling(e) <= 1 + redelivered[e]
    BY <2>1 DEF TypeInv, TypeOK, RowsInv
  <2> QED
    BY <2>2 DEF Waiting, Handling
<1> QED
  BY <1>1, <1>2, TypeInit, TypeStep, RowsStep, PTL DEF Spec
=============================================================================
