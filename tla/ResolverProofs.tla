--------------------------- MODULE ResolverProofs ---------------------------
(***************************************************************************)
(* Proof about Resolver, for any connections, rules, destinations, TTL and  *)
(* lag: the answers of cached lookups are recent.                           *)
(***************************************************************************)
EXTENDS Resolver, WellFoundedInduction, TLAPS

-----------------------------------------------------------------------------
(* Facts and the rule that matches.                                        *)

\* The facts that answers rest on.
LEMMA FactsOf ==
  /\ Domain \in Facts /\ NoDomain \in Facts
  /\ \A a \in Aliases : <<"rule", a, Nil>> \in Facts
  /\ \A a \in Aliases, x \in Destinations : <<"link", a, x>> \in Facts
BY DEF Facts, Domain, NoDomain

\* The three fixed keys and the aliases are keys, and differ.
LEMMA KeysOf ==
  /\ "domain" \in Keys /\ "nxdomain" \in Keys /\ "alias:match" \in Keys
  /\ \A a \in Aliases : a \in Keys /\ a \notin {"domain", "nxdomain", "alias:match"}
BY ResolverAssumption DEF Keys

\* A rule is chosen when one matches, and it is one of the rules.
LEMMA MatchIsRule ==
  ASSUME NEW on \in BOOLEAN, NEW as \in SUBSET Aliases, Match(on, as) # Nil
  PROVE  Match(on, as) \in Aliases
<1> DEFINE I == {i \in DOMAIN Rules : Rules[i] \in as}
<1>1. on /\ as # {}
  BY DEF Match
<1>d. \A j : j \in DOMAIN Rules <=> j \in Nat /\ 1 <= j /\ j <= Len(Rules)
  BY ResolverAssumption
<1>2. I # {} /\ I \subseteq Nat
  <2>1. PICK a : a \in as
    BY <1>1
  <2>2. PICK i \in DOMAIN Rules : a = Rules[i]
    BY <2>1 DEF Aliases
  <2>3. i \in I
    BY <2>1, <2>2
  <2>4. I \subseteq Nat
    BY <1>d
  <2>5. QED
    BY <2>3, <2>4
<1>3. \E i \in I : \A j \in I : ~(<<j, i>> \in OpToRel(<, Nat))
  <2> HIDE DEF I
  <2>1. QED
    BY <1>2, WFMin, NatLessThanWellFounded
<1>4. PICK i \in I : \A j \in I : ~(j < i)
  <2>1. \A j, i \in Nat : j < i => <<j, i>> \in OpToRel(<, Nat)
    BY DEF OpToRel
  <2> HIDE DEF I
  <2>2. QED
    BY <2>1, <1>2, <1>3
<1>5. Rules[i] \in as /\ \A j \in 1..(i-1) : Rules[j] \notin as
  <2>1. Len(Rules) \in Nat
    BY ResolverAssumption
  <2>2. ASSUME NEW j \in 1..(i-1) PROVE Rules[j] \notin as
    <3>1. i \in Nat /\ i \in DOMAIN Rules
      BY <1>2
    <3>2. j \in DOMAIN Rules /\ j < i
      BY <1>d, <2>1, <3>1
    <3>3. QED
      BY <1>4, <3>2
  <2>3. QED
    BY <1>4, <2>2
<1>6. \E k \in DOMAIN Rules : Rules[k] \in as /\ \A j \in 1..(k-1) : Rules[j] \notin as
  BY <1>5
<1>7. QED
  BY <1>1, <1>6 DEF Match, Aliases

\* What each kind of fact says of the directory.
LEMMA HoldsOf ==
  /\ \A on, as, ls : Holds(Domain, on, as, ls) = on
  /\ \A on, as, ls : Holds(NoDomain, on, as, ls) = ~on
  /\ \A a \in Aliases : \A on, as, ls : Holds(<<"rule", a, Nil>>, on, as, ls) = (a = Match(on, as))
  /\ \A a \in Aliases, x \in Destinations : \A on, as, ls :
       Holds(<<"link", a, x>>, on, as, ls) = (<<a, x>> \in ls)
BY DEF Holds, Domain, NoDomain

-----------------------------------------------------------------------------
(* The inductive invariant.                                                *)

\* Functions are functions, and what they hold is of its kind.
Kinds ==
  /\ live \in BOOLEAN /\ rules \in SUBSET Aliases /\ links \in SUBSET (Aliases \X Destinations)
  /\ DOMAIN cache = Keys
  /\ since \in [Facts -> 0..LongAgo]
  /\ DOMAIN pc = Conns /\ DOMAIN held = Conns /\ DOMAIN found = Conns
  /\ lag \in [Conns -> 0..MaxLag]

\* A fact that holds is not in the past.
Present == \A f \in Facts : Holds(f, live, rules, links) => since[f] = 0

\* What a connection is about to cache was so when it did its SELECT.
HeldRecent(c) ==
  /\ pc[c] = "setdomain" =>
       held[c] \in BOOLEAN /\ since[IF held[c] THEN Domain ELSE NoDomain] <= lag[c]
  /\ pc[c] = "setalias" => held[c] \in Aliases /\ since[<<"rule", held[c], Nil>>] <= lag[c]
  /\ pc[c] = "setdestinations" =>
       /\ held[c] \in SUBSET Destinations
       /\ \A x \in held[c] : since[<<"link", found[c], x>>] <= lag[c]
  /\ pc[c] \in {"rcpt", "destinations", "setdestinations"} => found[c] \in Aliases

\* A fact that an entry with left ticks to live rests on.
Backs(f, left) == since[f] + left <= TTL + MaxLag

\* What the cache holds was so less than a TTL and a lag before it will expire.
CacheRecent(k) ==
  cache[k] # Nil =>
    /\ cache[k] = [value |-> cache[k].value, left |-> cache[k].left]
    /\ cache[k].left \in 0..TTL
    /\ k = "domain" => Backs(Domain, cache[k].left)
    /\ k = "nxdomain" => Backs(NoDomain, cache[k].left)
    /\ k = "alias:match" => /\ cache[k].value \in Aliases
                           /\ Backs(<<"rule", cache[k].value, Nil>>, cache[k].left)
    /\ k \in Aliases => /\ cache[k].value \in SUBSET Destinations
                        /\ \A x \in cache[k].value : Backs(<<"link", k, x>>, cache[k].left)

RecentInv ==
  /\ Kinds
  /\ Present
  /\ \A c \in Conns : HeldRecent(c)
  /\ \A k \in Keys : CacheRecent(k)

\* What a step may do to the answer that c is given.
Answers(c) ==
  LET Answered(from, to) == pc[c] \in from /\ pc'[c] = to IN
  /\ Answered({"domain", "setdomain"}, Onward(c)) => Recent(Domain)
  /\ Answered({"domain", "setdomain"}, "idle") => Recent(NoDomain)'
  /\ Answered({"alias", "setalias"}, "rcpt") => Recent(<<"rule", found'[c], Nil>>)
  /\ Answered({"destinations", "setdestinations"}, "relay") =>
       \A x \in held'[c] : Recent(<<"link", found[c], x>>)

\* The invariant holds with an empty cache.
LEMMA InitRecent == Init => RecentInv
<1> SUFFICES ASSUME Init PROVE RecentInv
  OBVIOUS
<1>1. Kinds
  <2>1. links \in SUBSET (Aliases \X Destinations) /\ rules \in SUBSET Aliases
    BY DEF Init
  <2>2. since \in [Facts -> 0..LongAgo]
    BY ResolverAssumption DEF Init, LongAgo
  <2>3. lag \in [Conns -> 0..MaxLag]
    BY ResolverAssumption DEF Init
  <2>4. QED
    BY <2>1, <2>2, <2>3 DEF Init, Kinds
<1>2. Present
  <2>1. SUFFICES ASSUME NEW f \in Facts, Holds(f, FALSE, {}, {}), f # NoDomain PROVE FALSE
    BY DEF Init, Present
  <2>2. CASE f = Domain
    BY <2>1, <2>2, HoldsOf
  <2>3. ASSUME NEW a \in Aliases, f = <<"rule", a, Nil>> PROVE FALSE
    BY <2>1, <2>3, HoldsOf, ResolverAssumption DEF Match
  <2>4. ASSUME NEW a \in Aliases, NEW x \in Destinations, f = <<"link", a, x>> PROVE FALSE
    BY <2>1, <2>4 DEF Holds
  <2>5. QED
    BY <2>1, <2>2, <2>3, <2>4 DEF Facts, Domain, NoDomain
<1>3. (\A c \in Conns : HeldRecent(c)) /\ (\A k \in Keys : CacheRecent(k))
  BY DEF Init, HeldRecent, CacheRecent
<1>4. QED
  BY <1>1, <1>2, <1>3 DEF RecentInv

\* Facts that only got more recent keep what rests on them.
LEMMA SinceSmaller ==
  ASSUME RecentInv, since' \in [Facts -> 0..LongAgo], \A f \in Facts : since'[f] <= since[f]
  PROVE  /\ \A c \in Conns : pc'[c] = pc[c] /\ held'[c] = held[c] /\ lag'[c] = lag[c]
                             /\ found'[c] = found[c] => HeldRecent(c)'
         /\ \A k \in Keys : cache'[k] = cache[k] => CacheRecent(k)'
<1>1. ASSUME NEW c \in Conns, pc'[c] = pc[c], held'[c] = held[c], lag'[c] = lag[c],
             found'[c] = found[c]
      PROVE  HeldRecent(c)'
  <2>1. HeldRecent(c) /\ lag[c] \in 0..MaxLag
    BY DEF RecentInv, Kinds
  <2>2. pc[c] = "setdomain" =>
          held[c] \in BOOLEAN /\ since'[IF held[c] THEN Domain ELSE NoDomain] <= lag[c]
    BY <2>1, FactsOf, ResolverAssumption DEF RecentInv, Kinds, HeldRecent, LongAgo
  <2>3. pc[c] = "setalias" => held[c] \in Aliases /\ since'[<<"rule", held[c], Nil>>] <= lag[c]
    BY <2>1, FactsOf, ResolverAssumption DEF RecentInv, Kinds, HeldRecent, LongAgo
  <2>4. pc[c] = "setdestinations" =>
          \A x \in held[c] : since'[<<"link", found[c], x>>] <= lag[c]
    BY <2>1, FactsOf, ResolverAssumption DEF RecentInv, Kinds, HeldRecent, LongAgo
  <2>5. QED
    BY <1>1, <2>1, <2>2, <2>3, <2>4 DEF HeldRecent
<1>2. ASSUME NEW k \in Keys, cache'[k] = cache[k]
      PROVE  CacheRecent(k)'
  <2>1. ASSUME NEW f \in Facts, NEW n \in 0..TTL, Backs(f, n) PROVE Backs(f, n)'
    BY <2>1, ResolverAssumption DEF Backs, RecentInv, Kinds, LongAgo
  <2>2. CacheRecent(k)
    BY DEF RecentInv
  <2>3. QED
    BY <1>2, <2>1, <2>2, FactsOf DEF CacheRecent
<1>3. QED
  BY <1>1, <1>2

-----------------------------------------------------------------------------
(* The directory and the clock.                                            *)

\* A change of the directory makes facts younger only.
LEMMA ChangeStep ==
  ASSUME RecentInv, NEW on \in BOOLEAN, NEW as \in SUBSET Aliases,
         NEW ls \in SUBSET (Aliases \X Destinations), Change(on, as, ls)
  PROVE  RecentInv' /\ \A c \in Conns : Answers(c)
<1>1. UNCHANGED <<cache, pc, held, lag, found>>
  BY DEF Change, conns
<1>2. /\ since' \in [Facts -> 0..LongAgo]
      /\ \A f \in Facts : since'[f] <= since[f]
      /\ \A f \in Facts : Holds(f, on, as, ls) => since'[f] = 0
  <2> DEFINE H(f) == Holds(f, on, as, ls)
  <2>1. since' = [f \in Facts |-> IF H(f) THEN 0 ELSE since[f]]
    BY DEF Change
  <2>2. since \in [Facts -> 0..LongAgo] /\ LongAgo \in Nat
    BY ResolverAssumption DEF RecentInv, Kinds, LongAgo
  <2> HIDE DEF H
  <2>3. /\ since' \in [Facts -> 0..LongAgo]
        /\ \A f \in Facts : since'[f] <= since[f]
        /\ \A f \in Facts : H(f) => since'[f] = 0
    BY <2>1, <2>2
  <2>4. QED
    BY <2>3 DEF H
<1>3. Kinds'
  BY <1>1, <1>2 DEF Change, RecentInv, Kinds
<1>4. Present'
  BY <1>2 DEF Change, Present
<1>5. (\A c \in Conns : HeldRecent(c)') /\ (\A k \in Keys : CacheRecent(k)')
  BY <1>1, <1>2, SinceSmaller
<1>6. \A c \in Conns : Answers(c)
  BY <1>1 DEF Answers, Onward
<1>7. QED
  BY <1>3, <1>4, <1>5, <1>6 DEF RecentInv

\* Every handler of the control panel is such a change.
LEMMA DirectoryStep ==
  ASSUME RecentInv, ChangeDirectory
  PROVE  RecentInv' /\ \A c \in Conns : Answers(c)
<1>0. live \in BOOLEAN /\ rules \in SUBSET Aliases /\ links \in SUBSET (Aliases \X Destinations)
  BY DEF RecentInv, Kinds
<1>1. PICK on \in BOOLEAN, as \in SUBSET Aliases, ls \in SUBSET (Aliases \X Destinations) :
        Change(on, as, ls)
  <2>1. CASE ChangeDomain
    BY <1>0, <2>1 DEF ChangeDomain
  <2>2. ASSUME NEW a \in Aliases, ChangeAlias(a)
        PROVE  \E on \in BOOLEAN, as \in SUBSET Aliases, ls \in SUBSET (Aliases \X Destinations) :
                 Change(on, as, ls)
    <3>1. /\ rules \ {a} \in SUBSET Aliases
          /\ {l \in links : l[1] # a} \in SUBSET (Aliases \X Destinations)
          /\ rules \cup {a} \in SUBSET Aliases
          /\ \A x \in Destinations : links \cup {<<a, x>>} \in SUBSET (Aliases \X Destinations)
      BY <1>0
    <3>2. QED
      BY <1>0, <2>2, <3>1 DEF ChangeAlias
  <2>3. ASSUME NEW a \in Aliases, NEW x \in Destinations, ChangeLink(a, x)
        PROVE  \E on \in BOOLEAN, as \in SUBSET Aliases, ls \in SUBSET (Aliases \X Destinations) :
                 Change(on, as, ls)
    <3>1. /\ links \cup {<<a, x>>} \in SUBSET (Aliases \X Destinations)
          /\ links \ {<<a, x>>} \in SUBSET (Aliases \X Destinations)
      BY <1>0
    <3>2. QED
      BY <1>0, <2>3, <3>1 DEF ChangeLink
  <2>4. QED
    BY <2>1, <2>2, <2>3 DEF ChangeDirectory
<1>2. QED
  BY <1>1, ChangeStep

\* A tick ages facts, entries and lags alike.
LEMMA TickStep ==
  ASSUME RecentInv, Tick
  PROVE  RecentInv' /\ \A c \in Conns : Answers(c)
<1>1. UNCHANGED <<live, rules, links, pc, held, found>>
  BY DEF Tick, directory
<1>2. /\ since' \in [Facts -> 0..LongAgo]
      /\ \A f \in Facts : since'[f] <= since[f] + 1
      /\ \A f \in Facts : Holds(f, live, rules, links) => since'[f] = 0
  BY ResolverAssumption DEF Tick, Younger, RecentInv, Kinds, LongAgo
<1>3. /\ lag' \in [Conns -> 0..MaxLag]
      /\ \A c \in Conns : pc[c] \in Setting => lag'[c] = lag[c] + 1
  BY ResolverAssumption DEF Tick, RecentInv, Kinds
<1>4. Kinds'
  BY <1>1, <1>2, <1>3 DEF Tick, RecentInv, Kinds
<1>5. Present'
  BY <1>1, <1>2 DEF Present
<1>6. ASSUME NEW c \in Conns PROVE HeldRecent(c)'
  <2>1. HeldRecent(c) /\ lag[c] \in 0..MaxLag
    BY DEF RecentInv, Kinds
  <2>2. ASSUME NEW f \in Facts, since[f] <= lag[c], pc[c] \in Setting PROVE since'[f] <= lag'[c]
    BY <1>2, <1>3, <2>1, <2>2, ResolverAssumption DEF RecentInv, Kinds, LongAgo
  <2>3. pc[c] = "setdomain" =>
          held[c] \in BOOLEAN /\ since'[IF held[c] THEN Domain ELSE NoDomain] <= lag'[c]
    BY <2>1, <2>2, FactsOf DEF HeldRecent, Setting
  <2>4. pc[c] = "setalias" => held[c] \in Aliases /\ since'[<<"rule", held[c], Nil>>] <= lag'[c]
    BY <2>1, <2>2, FactsOf DEF HeldRecent, Setting
  <2>5. pc[c] = "setdestinations" =>
          \A x \in held[c] : since'[<<"link", found[c], x>>] <= lag'[c]
    BY <2>1, <2>2, FactsOf DEF HeldRecent, Setting
  <2>6. QED
    BY <1>1, <2>1, <2>3, <2>4, <2>5 DEF HeldRecent
<1>7. ASSUME NEW k \in Keys PROVE CacheRecent(k)'
  <2>1. CacheRecent(k)
    BY DEF RecentInv
  <2>2. CASE cache[k] = Nil
    BY <2>2 DEF Tick, Expire, CacheRecent
  <2>3. CASE cache[k] # Nil /\ cache[k].left = 0
    BY <2>3 DEF Tick, Expire, CacheRecent
  <2>4. CASE cache[k] # Nil /\ cache[k].left # 0
    <3>1. cache'[k] = [cache[k] EXCEPT !.left = cache[k].left - 1]
      BY <2>1, <2>4, ResolverAssumption DEF Tick, Expire, CacheRecent
    <3>2. cache'[k] = [value |-> cache[k].value, left |-> cache[k].left - 1]
      <4> DEFINE v == cache[k].value
                 n == cache[k].left
      <4>1. cache[k] = [value |-> v, left |-> n]
        BY <2>1, <2>4 DEF CacheRecent
      <4> HIDE DEF v, n
      <4>2. [[value |-> v, left |-> n] EXCEPT !.left = n - 1] = [value |-> v, left |-> n - 1]
        OBVIOUS
      <4>3. QED
        BY <3>1, <4>1, <4>2 DEF v, n
    <3>3. ASSUME NEW f \in Facts, Backs(f, cache[k].left) PROVE Backs(f, cache[k].left)'
      <4>1. cache[k].left \in 0..TTL /\ cache'[k].left = cache[k].left - 1
        BY <2>1, <2>4, <3>2 DEF CacheRecent
      <4>2. since[f] \in 0..LongAgo /\ since'[f] \in 0..LongAgo /\ since'[f] <= since[f] + 1
        BY <1>2 DEF RecentInv, Kinds
      <4>3. QED
        BY <3>3, <4>1, <4>2, ResolverAssumption DEF Backs, LongAgo
    <3>4. /\ cache'[k].value = cache[k].value
          /\ cache'[k] = [value |-> cache'[k].value, left |-> cache'[k].left]
          /\ cache'[k].left \in 0..TTL
      BY <2>1, <2>4, <3>2, ResolverAssumption DEF CacheRecent
    <3>5. /\ k = "domain" => Backs(Domain, cache[k].left)'
          /\ k = "nxdomain" => Backs(NoDomain, cache[k].left)'
      BY <2>1, <2>4, <3>3, FactsOf DEF CacheRecent
    <3>6. k = "alias:match" => /\ cache[k].value \in Aliases
                               /\ Backs(<<"rule", cache[k].value, Nil>>, cache[k].left)'
      <4>1. SUFFICES ASSUME k = "alias:match"
                     PROVE  /\ cache[k].value \in Aliases
                            /\ Backs(<<"rule", cache[k].value, Nil>>, cache[k].left)'
        OBVIOUS
      <4>2. cache[k].value \in Aliases /\ Backs(<<"rule", cache[k].value, Nil>>, cache[k].left)
        BY <2>1, <2>4, <4>1 DEF CacheRecent
      <4>3. <<"rule", cache[k].value, Nil>> \in Facts
        BY <4>2, FactsOf
      <4>4. UNCHANGED <<"rule", cache[k].value, Nil>>
        BY <3>4
      <4>5. QED
        BY <3>3, <4>2, <4>3, <4>4 DEF Backs
    <3>7. k \in Aliases => /\ cache[k].value \in SUBSET Destinations
                           /\ \A x \in cache[k].value : Backs(<<"link", k, x>>, cache[k].left)'
      BY <2>1, <2>4, <3>3, FactsOf DEF CacheRecent
    <3>8. QED
      BY <3>4, <3>5, <3>6, <3>7 DEF CacheRecent
  <2>5. QED
    BY <2>2, <2>3, <2>4
<1>8. \A c \in Conns : Answers(c)
  BY <1>1 DEF Answers, Onward
<1>9. QED
  BY <1>4, <1>5, <1>6, <1>7, <1>8 DEF RecentInv

-----------------------------------------------------------------------------
(* The steps of a connection.                                              *)

\* A move of c keeps the invariant if it leaves c with recent facts in hand and
\* gives it a recent answer.
LEMMA MoveStep ==
  ASSUME RecentInv, NEW c \in Conns, NEW from, NEW to, NEW h, Move(c, from, to, h),
         since' \in [Facts -> 0..LongAgo], \A f \in Facts : since'[f] <= since[f],
         DOMAIN cache' = Keys, \A k \in Keys : CacheRecent(k)',
         DOMAIN found' = Conns, \A d \in Conns \ {c} : found'[d] = found[d],
         HeldRecent(c)', Answers(c)
  PROVE  RecentInv' /\ \A d \in Conns : Answers(d)
<1>1. /\ DOMAIN pc' = Conns /\ DOMAIN held' = Conns /\ lag' \in [Conns -> 0..MaxLag]
      /\ \A d \in Conns \ {c} : pc'[d] = pc[d] /\ held'[d] = held[d] /\ lag'[d] = lag[d]
  BY ResolverAssumption DEF Move, RecentInv, Kinds
<1>2. UNCHANGED <<live, rules, links>>
  BY DEF Move, directory
<1>3. Kinds'
  BY <1>1, <1>2 DEF RecentInv, Kinds
<1>4. Present'
  <2>1. SUFFICES ASSUME NEW f \in Facts, Holds(f, live, rules, links) PROVE since'[f] = 0
    BY <1>2 DEF Present
  <2>2. since[f] = 0 /\ since'[f] \in 0..LongAgo /\ since'[f] <= since[f]
    BY <2>1 DEF RecentInv, Present
  <2>3. QED
    BY <2>2
<1>5. \A d \in Conns : HeldRecent(d)'
  BY <1>1, SinceSmaller
<1>6. \A d \in Conns \ {c} : Answers(d)
  BY <1>1 DEF Answers, Onward
<1>7. QED
  BY <1>3, <1>4, <1>5, <1>6 DEF RecentInv

\* c is at its next step.
LEMMA Moved ==
  ASSUME RecentInv, NEW c \in Conns, NEW from, NEW to, NEW h, Move(c, from, to, h)
  PROVE  pc[c] = from /\ pc'[c] = to /\ held'[c] = h /\ lag'[c] = 0
BY DEF Move, RecentInv, Kinds

\* An entry that is hit rests on recent facts.
LEMMA HitRecent ==
  ASSUME RecentInv, NEW k \in Keys, Hit(k)
  PROVE  /\ k = "domain" => Recent(Domain)
         /\ k = "nxdomain" => Recent(NoDomain)
         /\ k = "alias:match" => cache[k].value \in Aliases /\ Recent(<<"rule", cache[k].value, Nil>>)
         /\ k \in Aliases => \A x \in cache[k].value : Recent(<<"link", k, x>>)
<1>1. CacheRecent(k) /\ cache[k] # Nil
  BY DEF RecentInv, Hit
<1>2. ASSUME NEW f \in Facts, NEW n \in 0..TTL, Backs(f, n) PROVE Recent(f)
  BY <1>2, ResolverAssumption DEF RecentInv, Kinds, Backs, Recent, LongAgo
<1>3. QED
  BY <1>1, <1>2, FactsOf DEF CacheRecent

\* What is recent enough to be cached is recent.
LEMMA LagRecent ==
  ASSUME RecentInv, NEW c \in Conns, NEW f \in Facts, since[f] <= lag[c]
  PROVE  Recent(f) /\ Backs(f, TTL)
BY ResolverAssumption DEF RecentInv, Kinds, Recent, Backs, LongAgo

\* A step of c's that caches nothing and only moves on.
LEMMA PlainMove ==
  ASSUME RecentInv, NEW c \in Conns, NEW from, NEW to, NEW h, Move(c, from, to, h),
         UNCHANGED <<cache, since>>,
         DOMAIN found' = Conns, \A d \in Conns \ {c} : found'[d] = found[d],
         HeldRecent(c)', Answers(c)
  PROVE  RecentInv' /\ \A d \in Conns : Answers(d)
<1>1. /\ since' \in [Facts -> 0..LongAgo]
      /\ \A f \in Facts : since'[f] <= since[f]
      /\ DOMAIN cache' = Keys
  BY ResolverAssumption DEF RecentInv, Kinds, LongAgo
<1>2. \A k \in Keys : CacheRecent(k)'
  BY <1>1, SinceSmaller
<1>3. QED
  BY <1>1, <1>2, MoveStep

\* A step of c's that sets an entry which rests on facts as recent as v needs.
LEMMA SetMove ==
  ASSUME RecentInv, NEW c \in Conns, NEW from, NEW to, NEW h, Move(c, from, to, h),
         NEW k \in Keys, NEW v, Set(k, v), UNCHANGED since,
         k = "domain" => Backs(Domain, TTL),
         k = "nxdomain" => Backs(NoDomain, TTL),
         k = "alias:match" => v \in Aliases /\ Backs(<<"rule", v, Nil>>, TTL),
         k \in Aliases => v \in SUBSET Destinations /\ \A x \in v : Backs(<<"link", k, x>>, TTL),
         DOMAIN found' = Conns, \A d \in Conns \ {c} : found'[d] = found[d],
         HeldRecent(c)', Answers(c)
  PROVE  RecentInv' /\ \A d \in Conns : Answers(d)
<1>1. /\ since' \in [Facts -> 0..LongAgo]
      /\ \A f \in Facts : since'[f] <= since[f]
  BY ResolverAssumption DEF RecentInv, Kinds, LongAgo
<1>2. DOMAIN cache' = Keys /\ \A j \in Keys \ {k} : cache'[j] = cache[j]
  BY DEF Set, RecentInv, Kinds
<1>3. CacheRecent(k)'
  <2>1. CASE cache'[k] = cache[k]
    BY <2>1, <1>1, SinceSmaller
  <2>2. CASE cache'[k] = [value |-> v, left |-> TTL]
    <3>1. /\ cache'[k].value = v /\ cache'[k].left = TTL
          /\ cache'[k] = [value |-> cache'[k].value, left |-> cache'[k].left]
      BY <2>2
    <3>2. TTL \in 0..TTL
      BY ResolverAssumption
    <3>3. QED
      BY <3>1, <3>2 DEF CacheRecent, Backs
  <2>3. QED
    BY <2>1, <2>2 DEF Set, RecentInv, Kinds
<1>4. \A j \in Keys : CacheRecent(j)'
  BY <1>1, <1>2, <1>3, SinceSmaller
<1>5. QED
  BY <1>1, <1>2, <1>4, MoveStep

\* detectDomain preserves the invariant, and its answers are recent.
LEMMA DomainStep ==
  ASSUME RecentInv, NEW c \in Conns, detectDomain(c)
  PROVE  RecentInv' /\ \A d \in Conns : Answers(d)
<1>0. DOMAIN found = Conns
  BY DEF RecentInv, Kinds
<1>1. CASE DomainHit(c)
  <2>1. Move(c, "domain", Onward(c), Nil) /\ UNCHANGED <<cache, since, found>> /\ Recent(Domain)
    BY <1>1, HitRecent, KeysOf DEF DomainHit
  <2>2. pc[c] = "domain" /\ pc'[c] = Onward(c) /\ Onward(c) \in {"alias", "mail"}
    BY <2>1, Moved DEF Onward
  <2>3. HeldRecent(c)' /\ Answers(c)
    BY <2>1, <2>2 DEF HeldRecent, Answers
  <2>4. QED
    BY <1>0, <2>1, <2>3, PlainMove
<1>2. CASE DomainBad(c)
  <2>1. Move(c, "domain", "idle", Nil) /\ UNCHANGED <<cache, since, found>> /\ Recent(NoDomain)
    BY <1>2, HitRecent, KeysOf DEF DomainBad
  <2>2. pc[c] = "domain" /\ pc'[c] = "idle"
    BY <2>1, Moved
  <2>3. HeldRecent(c)' /\ Answers(c)
    BY <2>1, <2>2 DEF HeldRecent, Answers, Onward, Recent
  <2>4. QED
    BY <1>0, <2>1, <2>3, PlainMove
<1>3. CASE DomainSelect(c)
  <2>1. Move(c, "domain", "setdomain", live) /\ UNCHANGED <<cache, since, found>>
    BY <1>3 DEF DomainSelect
  <2>2. pc[c] = "domain" /\ pc'[c] = "setdomain" /\ held'[c] = live /\ lag'[c] = 0
    BY <2>1, Moved
  <2>3. live \in BOOLEAN /\ since[IF live THEN Domain ELSE NoDomain] = 0
    BY FactsOf DEF RecentInv, Kinds, Present, Holds, Domain, NoDomain
  <2>4. HeldRecent(c)' /\ Answers(c)
    BY <2>1, <2>2, <2>3 DEF HeldRecent, Answers, Onward
  <2>5. QED
    BY <1>0, <2>1, <2>4, PlainMove
<1>4. CASE DomainFails(c)
  <2>1. /\ Move(c, "domain", "setdomain", FALSE) /\ UNCHANGED <<cache, found>>
        /\ since' = [since EXCEPT ![NoDomain] = 0]
    BY <1>4 DEF DomainFails
  <2>2. pc[c] = "domain" /\ pc'[c] = "setdomain" /\ held'[c] = FALSE /\ lag'[c] = 0
    BY <1>4 DEF DomainFails, Move, RecentInv, Kinds
  <2>3. /\ since' \in [Facts -> 0..LongAgo] /\ since'[NoDomain] = 0
        /\ \A f \in Facts : since'[f] <= since[f]
    BY <2>1, FactsOf, ResolverAssumption DEF RecentInv, Kinds, LongAgo
  <2>4. HeldRecent(c)' /\ Answers(c)
    <3>1. held'[c] \in BOOLEAN /\ (IF held'[c] THEN Domain ELSE NoDomain) = NoDomain
      BY <2>2
    <3>2. since'[IF held'[c] THEN Domain ELSE NoDomain] <= lag'[c]
      BY <2>2, <2>3, <3>1
    <3>3. UNCHANGED Domain /\ UNCHANGED NoDomain
      BY DEF Domain, NoDomain
    <3>4. HeldRecent(c)'
      BY <2>2, <3>1, <3>2, <3>3 DEF HeldRecent
    <3>5. Answers(c)
      BY <2>2 DEF Answers, Onward
    <3>6. QED
      BY <3>4, <3>5
  <2>5. DOMAIN cache' = Keys /\ \A k \in Keys : CacheRecent(k)'
    BY <2>1, <2>3, SinceSmaller DEF RecentInv, Kinds
  <2> DEFINE h == FALSE
  <2>6. Move(c, "domain", "setdomain", h)
    BY <2>1
  <2> HIDE DEF h
  <2>7. QED
    BY <1>0, <2>1, <2>3, <2>4, <2>5, <2>6, MoveStep
<1>5. CASE DomainSet(c)
  <2>0. pc[c] = "setdomain"
    BY <1>5 DEF DomainSet, Move
  <2>1. held[c] \in BOOLEAN /\ since[IF held[c] THEN Domain ELSE NoDomain] <= lag[c]
    BY <2>0 DEF RecentInv, HeldRecent
  <2> DEFINE v == TRUE
  <2>2. CASE held[c] = TRUE
    <3>1. /\ Move(c, "setdomain", Onward(c), Nil) /\ Set("domain", v)
          /\ UNCHANGED <<since, found>>
      BY <1>5, <2>2 DEF DomainSet
    <3>2. Recent(Domain) /\ Backs(Domain, TTL)
      BY <2>1, <2>2, FactsOf, LagRecent
    <3>3. pc'[c] = Onward(c) /\ Onward(c) \in {"alias", "mail"}
      BY <3>1, Moved DEF Onward
    <3>4. HeldRecent(c)' /\ Answers(c)
      BY <2>0, <3>1, <3>2, <3>3 DEF HeldRecent, Answers
    <3> HIDE DEF v
    <3>5. QED
      BY <1>0, <3>1, <3>2, <3>4, KeysOf, SetMove
  <2>3. CASE held[c] = FALSE
    <3>1. /\ Move(c, "setdomain", "idle", Nil) /\ Set("nxdomain", v)
          /\ UNCHANGED <<since, found>>
      BY <1>5, <2>3 DEF DomainSet
    <3>2. Recent(NoDomain) /\ Backs(NoDomain, TTL)
      BY <2>1, <2>3, FactsOf, LagRecent
    <3>3. pc'[c] = "idle"
      BY <3>1, Moved
    <3>4. HeldRecent(c)' /\ Answers(c)
      BY <2>0, <3>1, <3>2, <3>3 DEF HeldRecent, Answers, Onward, Recent
    <3> HIDE DEF v
    <3>5. QED
      BY <1>0, <3>1, <3>2, <3>4, KeysOf, SetMove
  <2>4. QED
    BY <2>1, <2>2, <2>3
<1>6. QED
  BY <1>1, <1>2, <1>3, <1>4, <1>5 DEF detectDomain

\* detectAlias preserves the invariant, and its answers are recent.
LEMMA AliasStep ==
  ASSUME RecentInv, NEW c \in Conns, detectAlias(c)
  PROVE  RecentInv' /\ \A d \in Conns : Answers(d)
<1>0. DOMAIN found = Conns
  BY DEF RecentInv, Kinds
<1>1. CASE AliasHit(c)
  <2>1. /\ Move(c, "alias", "rcpt", Nil) /\ UNCHANGED <<cache, since>>
        /\ found' = [found EXCEPT ![c] = cache["alias:match"].value]
        /\ cache["alias:match"].value \in Aliases
        /\ Recent(<<"rule", cache["alias:match"].value, Nil>>)
    BY <1>1, HitRecent, KeysOf DEF AliasHit
  <2>2. pc[c] = "alias" /\ pc'[c] = "rcpt" /\ found'[c] = cache["alias:match"].value
    BY <1>0, <2>1, Moved
  <2>3. HeldRecent(c)' /\ Answers(c)
    BY <2>1, <2>2 DEF HeldRecent, Answers, Onward
  <2>4. QED
    BY <1>0, <2>1, <2>3, PlainMove
<1>2. CASE AliasBad(c) \/ AliasNone(c)
  <2>1. Move(c, "alias", "idle", Nil) /\ UNCHANGED <<cache, since, found>>
    BY <1>2 DEF AliasBad, AliasNone
  <2>2. pc[c] = "alias" /\ pc'[c] = "idle"
    BY <2>1, Moved
  <2>3. HeldRecent(c)' /\ Answers(c)
    BY <2>2 DEF HeldRecent, Answers, Onward
  <2>4. QED
    BY <1>0, <2>1, <2>3, PlainMove
<1>3. CASE AliasSelect(c)
  <2> DEFINE m == Match(live, rules)
  <2>1. Move(c, "alias", "setalias", m) /\ UNCHANGED <<cache, since, found>> /\ m \in Aliases
    BY <1>3, MatchIsRule DEF AliasSelect, RecentInv, Kinds
  <2>2. pc[c] = "alias" /\ pc'[c] = "setalias" /\ held'[c] = m /\ lag'[c] = 0
    BY <2>1, Moved
  <2>3. since[<<"rule", m, Nil>>] = 0
    BY <2>1, FactsOf DEF RecentInv, Present, Holds
  <2> HIDE DEF m
  <2>4. HeldRecent(c)' /\ Answers(c)
    BY <2>1, <2>2, <2>3 DEF HeldRecent, Answers, Onward
  <2>5. QED
    BY <1>0, <2>1, <2>4, PlainMove
<1>4. CASE AliasSet(c)
  <2>1. /\ Move(c, "setalias", "rcpt", Nil) /\ Set("alias:match", held[c]) /\ UNCHANGED since
        /\ found' = [found EXCEPT ![c] = held[c]]
    BY <1>4 DEF AliasSet
  <2>2. pc[c] = "setalias" /\ pc'[c] = "rcpt" /\ found'[c] = held[c]
    BY <1>0, <2>1, Moved
  <2>3. held[c] \in Aliases /\ since[<<"rule", held[c], Nil>>] <= lag[c]
    BY <2>2 DEF RecentInv, HeldRecent
  <2>4. Recent(<<"rule", held[c], Nil>>) /\ Backs(<<"rule", held[c], Nil>>, TTL)
    BY <2>3, FactsOf, LagRecent
  <2>5. HeldRecent(c)' /\ Answers(c)
    BY <2>1, <2>2, <2>3, <2>4 DEF HeldRecent, Answers, Onward
  <2>6. QED
    BY <1>0, <2>1, <2>3, <2>4, <2>5, KeysOf, SetMove
<1>5. QED
  BY <1>1, <1>2, <1>3, <1>4 DEF detectAlias

\* getDestinations preserves the invariant, and its answers are recent.
LEMMA DestinationsStep ==
  ASSUME RecentInv, NEW c \in Conns, getDestinations(c)
  PROVE  RecentInv' /\ \A d \in Conns : Answers(d)
<1>0. DOMAIN found = Conns
  BY DEF RecentInv, Kinds
<1>1. CASE DestinationsHit(c)
  <2>1. pc[c] = "destinations" /\ found[c] \in Aliases
    BY <1>1 DEF DestinationsHit, RecentInv, HeldRecent
  <2>2. /\ Move(c, "destinations", "relay", cache[found[c]].value) /\ UNCHANGED <<cache, since, found>>
        /\ \A x \in cache[found[c]].value : Recent(<<"link", found[c], x>>)
    BY <1>1, <2>1, HitRecent, KeysOf DEF DestinationsHit
  <2>3. pc'[c] = "relay" /\ held'[c] = cache[found[c]].value
    BY <2>2, Moved
  <2>4. HeldRecent(c)' /\ Answers(c)
    BY <2>1, <2>2, <2>3 DEF HeldRecent, Answers, Onward
  <2>5. QED
    BY <1>0, <2>2, <2>4, PlainMove
<1>2. CASE DestinationsSelect(c)
  <2> DEFINE xs == {x \in Destinations : <<found[c], x>> \in links}
  <2>1. Move(c, "destinations", "setdestinations", xs) /\ UNCHANGED <<cache, since, found>>
    BY <1>2 DEF DestinationsSelect
  <2>2. pc[c] = "destinations" /\ pc'[c] = "setdestinations" /\ held'[c] = xs /\ lag'[c] = 0
    BY <2>1, Moved
  <2>3. found[c] \in Aliases
    BY <2>2 DEF RecentInv, HeldRecent
  <2>4. xs \in SUBSET Destinations /\ \A x \in xs : since[<<"link", found[c], x>>] = 0
    BY <2>3, FactsOf DEF RecentInv, Present, Holds
  <2> HIDE DEF xs
  <2>5. HeldRecent(c)' /\ Answers(c)
    BY <2>1, <2>2, <2>3, <2>4 DEF HeldRecent, Answers, Onward
  <2>6. QED
    BY <1>0, <2>1, <2>5, PlainMove
<1>3. CASE DestinationsFail(c)
  <2>1. Move(c, "destinations", "idle", Nil) /\ UNCHANGED <<cache, since>>
        /\ found' = [found EXCEPT ![c] = Nil]
    BY <1>3 DEF DestinationsFail
  <2>2. pc[c] = "destinations" /\ pc'[c] = "idle"
    BY <2>1, Moved
  <2>3. HeldRecent(c)' /\ Answers(c)
    BY <2>2 DEF HeldRecent, Answers, Onward
  <2>4. QED
    BY <1>0, <2>1, <2>3, PlainMove
<1>4. CASE DestinationsSet(c)
  <2>1. /\ Move(c, "setdestinations", "relay", held[c]) /\ Set(found[c], held[c])
        /\ UNCHANGED <<since, found>>
    BY <1>4 DEF DestinationsSet
  <2>2. pc[c] = "setdestinations" /\ pc'[c] = "relay" /\ held'[c] = held[c]
    BY <2>1, Moved
  <2>3. /\ found[c] \in Aliases /\ held[c] \in SUBSET Destinations
        /\ \A x \in held[c] : since[<<"link", found[c], x>>] <= lag[c]
    BY <2>2 DEF RecentInv, HeldRecent
  <2>4. \A x \in held[c] : /\ Recent(<<"link", found[c], x>>)
                           /\ Backs(<<"link", found[c], x>>, TTL)
    BY <2>3, FactsOf, LagRecent
  <2>5. HeldRecent(c)' /\ Answers(c)
    BY <2>1, <2>2, <2>4 DEF HeldRecent, Answers, Onward
  <2>6. QED
    BY <1>0, <2>1, <2>3, <2>4, <2>5, KeysOf, SetMove
<1>5. QED
  BY <1>1, <1>2, <1>3, <1>4 DEF getDestinations

\* The steps of clients, and the ends of lookups.
LEMMA ClientStep ==
  ASSUME RecentInv, NEW c \in Conns,
         Rcpt(c) \/ Data(c) \/ Reset(c) \/ Relay(c) \/ BeginMail(c) \/ Mail(c)
  PROVE  RecentInv' /\ \A d \in Conns : Answers(d)
<1>0. DOMAIN found = Conns
  BY DEF RecentInv, Kinds
<1>1. CASE Rcpt(c) \/ BeginMail(c)
  <2>1. Move(c, "idle", "domain", Nil) /\ UNCHANGED <<cache, since, found>>
    BY <1>1 DEF Rcpt, BeginMail
  <2>2. pc[c] = "idle" /\ pc'[c] = "domain"
    BY <2>1, Moved
  <2>3. HeldRecent(c)' /\ Answers(c)
    BY <2>2 DEF HeldRecent, Answers, Onward
  <2>4. QED
    BY <1>0, <2>1, <2>3, PlainMove
<1>2. CASE Data(c)
  <2>1. Move(c, "rcpt", "destinations", Nil) /\ UNCHANGED <<cache, since, found>>
    BY <1>2 DEF Data
  <2>2. pc[c] = "rcpt" /\ pc'[c] = "destinations"
    BY <2>1, Moved
  <2>3. found'[c] \in Aliases
    BY <2>1, <2>2 DEF RecentInv, HeldRecent
  <2>4. HeldRecent(c)' /\ Answers(c)
    BY <2>2, <2>3 DEF HeldRecent, Answers, Onward
  <2>5. QED
    BY <1>0, <2>1, <2>4, PlainMove
<1>3. CASE Reset(c) \/ Relay(c) \/ Mail(c)
  <2>1. PICK from \in {"rcpt", "relay", "mail"} : Move(c, from, "idle", Nil)
    BY <1>3 DEF Reset, Relay, Mail
  <2>2. /\ UNCHANGED <<cache, since>> /\ DOMAIN found' = Conns
        /\ \A d \in Conns \ {c} : found'[d] = found[d]
    BY <1>0, <1>3 DEF Reset, Relay, Mail
  <2>3. pc[c] \in {"rcpt", "relay", "mail"} /\ pc'[c] = "idle"
    BY <2>1, Moved
  <2>4. HeldRecent(c)' /\ Answers(c)
    BY <2>3 DEF HeldRecent, Answers, Onward
  <2>5. QED
    BY <2>1, <2>2, <2>4, PlainMove
<1>4. QED
  BY <1>1, <1>2, <1>3

\* Every step preserves the invariant and gives recent answers.
LEMMA RecentStep ==
  ASSUME RecentInv, [Next]_vars
  PROVE  RecentInv' /\ (UNCHANGED vars \/ \A c \in Conns : Answers(c))
<1>1. CASE ChangeDirectory \/ Tick
  BY <1>1, DirectoryStep, TickStep
<1>2. ASSUME NEW c \in Conns, Lookup(c)
      PROVE  RecentInv' /\ \A d \in Conns : Answers(d)
  BY <1>2, DomainStep, AliasStep, DestinationsStep, ClientStep DEF Lookup
<1>3. ASSUME NEW c \in Relays \cup Submitters,
             Rcpt(c) \/ Data(c) \/ Reset(c) \/ BeginMail(c)
      PROVE  RecentInv' /\ \A d \in Conns : Answers(d)
  BY <1>3, ClientStep DEF Conns
<1>4. CASE UNCHANGED vars
  <2>1. UNCHANGED <<live, rules, links, cache, since, pc, held, lag, found>>
    BY <1>4 DEF vars, directory, conns
  <2>2. QED
    BY <1>4, <2>1 DEF RecentInv, Kinds, Present, HeldRecent, CacheRecent, Backs
<1>5. QED
  BY <1>1, <1>2, <1>3, <1>4 DEF Next

\* A directory change takes effect within the TTL and one lookup's delay,
\* whatever lookups interleave with it (detectDomain, detectAlias and
\* getDestinations of internal/smtp, DefaultCacheTTL of internal/cache).
\* RecentInv is needed: what is cached, and what is about to be, must already
\* be recent.
THEOREM ResolverCorrect == Spec => AnswersRecent
<1>1. RecentInv /\ [Next]_vars =>
        RecentInv' /\ [\A c \in Conns : Answers(c)]_vars
  BY RecentStep
<1>2. QED
  BY InitRecent, <1>1, PTL DEF Spec, AnswersRecent, Answers
-----------------------------------------------------------------------------
(* Types.                                                                  *)

\* Where a session holds the alias of an accepted recipient.
Accepted == {"rcpt", "destinations", "setdestinations", "relay"}

\* A session holds an alias exactly between RCPT and the end of DATA.
FoundHeld(c) == pc[c] \in Accepted <=> found[c] # Nil

\* A lookup of the domain does not touch the alias.
LEMMA FoundDomain ==
  ASSUME RecentInv, NEW c \in Conns, detectDomain(c), FoundHeld(c)
  PROVE  FoundHeld(c)' /\ \A d \in Conns \ {c} : pc'[d] = pc[d] /\ found'[d] = found[d]
<1>1. found' = found
  BY DEF detectDomain, DomainHit, DomainBad, DomainSelect, DomainFails, DomainSet
<1>2. PICK from \in {"domain", "setdomain"}, to \in {"alias", "mail", "idle", "setdomain"} :
        \E h : Move(c, from, to, h)
  BY DEF detectDomain, DomainHit, DomainBad, DomainSelect, DomainFails, DomainSet, Onward
<1>3. pc[c] = from /\ pc' = [pc EXCEPT ![c] = to]
  BY <1>2 DEF Move
<1>4. DOMAIN pc = Conns
  BY DEF RecentInv, Kinds
<1>5. QED
  BY <1>1, <1>2, <1>3, <1>4 DEF FoundHeld, Accepted

\* A lookup of the alias ends with one, or with none.
LEMMA FoundAlias ==
  ASSUME RecentInv, NEW c \in Conns, detectAlias(c), FoundHeld(c)
  PROVE  FoundHeld(c)' /\ \A d \in Conns \ {c} : pc'[d] = pc[d] /\ found'[d] = found[d]
<1>0. DOMAIN pc = Conns /\ DOMAIN found = Conns /\ Nil \notin Aliases
  BY ResolverAssumption DEF RecentInv, Kinds
<1>1. CASE AliasHit(c)
  <2>1. cache["alias:match"].value \in Aliases
    BY <1>1 DEF AliasHit, Hit, RecentInv, CacheRecent, Keys
  <2>2. pc' = [pc EXCEPT ![c] = "rcpt"]
        /\ found' = [found EXCEPT ![c] = cache["alias:match"].value]
    BY <1>1 DEF AliasHit, Move
  <2>3. QED
    BY <1>0, <2>1, <2>2 DEF FoundHeld, Accepted
<1>2. CASE AliasSet(c)
  <2>1. held[c] \in Aliases
    BY <1>2 DEF AliasSet, Move, RecentInv, HeldRecent
  <2>2. pc' = [pc EXCEPT ![c] = "rcpt"] /\ found' = [found EXCEPT ![c] = held[c]]
    BY <1>2 DEF AliasSet, Move
  <2>3. QED
    BY <1>0, <2>1, <2>2 DEF FoundHeld, Accepted
<1>3. CASE AliasBad(c) \/ AliasSelect(c) \/ AliasNone(c)
  <2>1. PICK to \in {"idle", "setalias"} : (\E h : Move(c, "alias", to, h)) /\ found' = found
    BY <1>3 DEF AliasBad, AliasSelect, AliasNone
  <2>2. pc[c] = "alias" /\ pc' = [pc EXCEPT ![c] = to]
    BY <2>1 DEF Move
  <2>3. QED
    BY <1>0, <2>1, <2>2 DEF FoundHeld, Accepted
<1>4. QED
  BY <1>1, <1>2, <1>3 DEF detectAlias

\* Its destinations are looked up for the alias held, which a failure drops.
LEMMA FoundDestinations ==
  ASSUME RecentInv, NEW c \in Conns, getDestinations(c), FoundHeld(c)
  PROVE  FoundHeld(c)' /\ \A d \in Conns \ {c} : pc'[d] = pc[d] /\ found'[d] = found[d]
<1>0. DOMAIN pc = Conns /\ DOMAIN found = Conns
  BY DEF RecentInv, Kinds
<1>1. CASE DestinationsFail(c)
  <2>1. pc' = [pc EXCEPT ![c] = "idle"] /\ found' = [found EXCEPT ![c] = Nil]
    BY <1>1 DEF DestinationsFail, Move
  <2>2. QED
    BY <1>0, <2>1 DEF FoundHeld, Accepted
<1>2. CASE DestinationsHit(c) \/ DestinationsSelect(c) \/ DestinationsSet(c)
  <2>1. PICK from \in {"destinations", "setdestinations"}, to \in {"setdestinations", "relay"} :
          (\E h : Move(c, from, to, h)) /\ found' = found
    BY <1>2 DEF DestinationsHit, DestinationsSelect, DestinationsSet
  <2>2. pc[c] = from /\ pc' = [pc EXCEPT ![c] = to]
    BY <2>1 DEF Move
  <2>3. QED
    BY <1>0, <2>1, <2>2 DEF FoundHeld, Accepted
<1>3. QED
  BY <1>1, <1>2 DEF getDestinations

\* The client's commands: RSET and the end of DATA drop the alias.
LEMMA FoundClient ==
  ASSUME RecentInv, NEW c \in Conns, FoundHeld(c),
         Rcpt(c) \/ Data(c) \/ Reset(c) \/ Relay(c) \/ BeginMail(c) \/ Mail(c)
  PROVE  FoundHeld(c)' /\ \A d \in Conns \ {c} : pc'[d] = pc[d] /\ found'[d] = found[d]
<1>0. DOMAIN pc = Conns /\ DOMAIN found = Conns
  BY DEF RecentInv, Kinds
<1>1. CASE Reset(c) \/ Relay(c)
  <2>1. pc' = [pc EXCEPT ![c] = "idle"] /\ found' = [found EXCEPT ![c] = Nil]
    BY <1>1 DEF Reset, Relay, Move
  <2>2. QED
    BY <1>0, <2>1 DEF FoundHeld, Accepted
<1>2. CASE Data(c)
  <2>1. pc[c] = "rcpt" /\ pc' = [pc EXCEPT ![c] = "destinations"] /\ found' = found
    BY <1>2 DEF Data, Move
  <2>2. QED
    BY <1>0, <2>1 DEF FoundHeld, Accepted
<1>3. CASE Rcpt(c) \/ BeginMail(c) \/ Mail(c)
  <2>1. PICK from \in {"idle", "mail"}, to \in {"domain", "idle"} :
          Move(c, from, to, Nil) /\ found' = found
    BY <1>3 DEF Rcpt, BeginMail, Mail
  <2>2. pc[c] = from /\ pc' = [pc EXCEPT ![c] = to]
    BY <2>1 DEF Move
  <2>3. QED
    BY <1>0, <2>1, <2>2 DEF FoundHeld, Accepted
<1>4. QED
  BY <1>1, <1>2, <1>3

\* The inductive invariant: cached and held answers are of their kind, so
\* that the alias a session is given is one.
FoundInv == \A c \in Conns : FoundHeld(c)

\* Every step keeps sessions and their aliases together.
LEMMA FoundStep == RecentInv /\ FoundInv /\ [Next]_vars => FoundInv'
<1> SUFFICES ASSUME RecentInv, FoundInv, [Next]_vars
             PROVE  FoundInv'
  OBVIOUS
<1>1. ASSUME UNCHANGED <<pc, found>>
      PROVE  FoundInv'
  BY <1>1 DEF FoundInv, FoundHeld
<1>2. CASE ChangeDirectory \/ Tick \/ UNCHANGED vars
  <2>1. UNCHANGED <<pc, found>>
    BY <1>2 DEF ChangeDirectory, ChangeDomain, ChangeAlias, ChangeLink, Change, Tick,
       vars, conns
  <2>2. QED
    BY <1>1, <2>1
<1>3. ASSUME NEW c \in Conns,
             FoundHeld(c)' /\ \A d \in Conns \ {c} : pc'[d] = pc[d] /\ found'[d] = found[d]
      PROVE  FoundInv'
  BY <1>3 DEF FoundInv, FoundHeld
<1>4. ASSUME NEW c \in Conns, Lookup(c)
      PROVE  FoundInv'
  BY <1>3, <1>4, FoundDomain, FoundAlias, FoundDestinations, FoundClient
     DEF Lookup, FoundInv
<1>5. ASSUME NEW c \in Relays \cup Submitters,
             Rcpt(c) \/ Data(c) \/ Reset(c) \/ BeginMail(c)
      PROVE  FoundInv'
  BY <1>3, <1>5, FoundClient DEF FoundInv, Conns
<1>6. QED
  BY <1>2, <1>4, <1>5 DEF Next

\* Cache entries never outlive the TTL, a lookup's Set never comes later than
\* the lag, and a session has an alias exactly while a recipient of it is
\* accepted: RSET, a failed lookup and the end of DATA drop it.
THEOREM TypeCorrect == Spec => []TypeOK
<1>1. Init => FoundInv
  BY DEF Init, FoundInv, FoundHeld, Accepted
<1>2. RecentInv /\ FoundInv => TypeOK
  <2> SUFFICES ASSUME RecentInv, FoundInv PROVE TypeOK
    OBVIOUS
  <2>1. \A k \in Keys : cache[k] # Nil => cache[k].left \in 0..TTL
    BY DEF RecentInv, CacheRecent
  <2>2. \A c \in Relays : pc[c] \in Accepted <=> found[c] # Nil
    BY DEF FoundInv, FoundHeld, Conns
  <2>3. QED
    BY <2>1, <2>2 DEF TypeOK, RecentInv, Kinds, Accepted
<1>3. RecentInv /\ [Next]_vars => RecentInv'
  BY RecentStep
<1>4. QED
  BY InitRecent, <1>1, <1>2, <1>3, FoundStep, PTL DEF Spec
=============================================================================
