------------------------------ MODULE Resolver ------------------------------
(***************************************************************************)
(* smtpd's cached lookups while the control panel changes what they look    *)
(* up: detectDomain, detectAlias and getDestinations (internal/smtp), over  *)
(* the process-wide cache (internal/cache) whose entries live for a minute. *)
(* Nothing ever invalidates an entry.                                      *)
(*                                                                         *)
(* The module follows one domain and one recipient address of it; Rules are *)
(* the alias rules that match the address, longest first.  A connection's   *)
(* SELECT and its Set are two steps, so another connection's, a change of   *)
(* the directory or a tick of the clock can come between them.              *)
(*                                                                         *)
(* Time is relative: a cache entry keeps the ticks it has left, and the     *)
(* history variable since keeps, for every fact, the ticks since it held.   *)
(***************************************************************************)
EXTENDS Naturals, Sequences, FiniteSets

CONSTANTS
  Relays,        \* inbound connections
  Submitters,    \* submission connections
  Rules,         \* sequence of alias rules, no rule twice
  Destinations,
  Nil,
  TTL,           \* DefaultCacheTTL in ticks
  MaxLag         \* ticks between a SELECT and the Set of its result, at most

Conns == Relays \cup Submitters
Aliases == {Rules[i] : i \in DOMAIN Rules}

\* What a lookup's answer can rest on.  "nodomain" also stands for a lookup
\* of the domain that failed.
Facts == {<<"domain", Nil, Nil>>, <<"nodomain", Nil, Nil>>}
    \cup {<<"rule", a, Nil>> : a \in Aliases}
    \cup {<<"link", a, x>> : a \in Aliases, x \in Destinations}

Domain == <<"domain", Nil, Nil>>
NoDomain == <<"nodomain", Nil, Nil>>

\* Keys of the cache: three namespaces of the address and its domain, and the
\* namespace "destinations" of each alias.
Keys == {"domain", "nxdomain", "alias:match"} \cup Aliases

\* Ticks after which since no longer counts.
LongAgo == TTL + MaxLag + 1

ASSUME ResolverAssumption ==
  /\ Rules \in Seq(Aliases)
  /\ TTL \in Nat \ {0}
  /\ MaxLag \in Nat
  /\ Nil \notin Aliases \cup Destinations
  /\ Aliases \cap {"domain", "nxdomain", "alias:match"} = {}

VARIABLES
  live,    \* the domain is verified and not deleted
  rules,   \* aliases that are not deleted
  links,   \* alias_destinations: <<alias, destination>>
  cache,   \* [Keys -> [value, left] or Nil]
  since,   \* history: [Facts -> 0..LongAgo]
  pc,      \* [Conns -> step]
  held,    \* [Conns -> result of the SELECT to be cached, or Nil]
  lag,     \* [Conns -> ticks since that SELECT]
  found    \* [Conns -> alias of an accepted recipient, or Nil]

directory == <<live, rules, links>>
conns == <<pc, held, lag, found>>
vars == <<directory, cache, since, conns>>

Init ==
  /\ live = FALSE /\ rules = {} /\ links = {}
  /\ cache = [k \in Keys |-> Nil]
  /\ since = [f \in Facts |-> IF f = NoDomain THEN 0 ELSE LongAgo]
  /\ pc = [c \in Conns |-> "idle"]
  /\ held = [c \in Conns |-> Nil]
  /\ lag = [c \in Conns |-> 0]
  /\ found = [c \in Conns |-> Nil]

-----------------------------------------------------------------------------
(* The directory, as the control panel changes it.                         *)

\* The first rule that matches: ORDER BY LENGTH(a.rule) DESC.
Match(on, as) ==
  IF on /\ as # {}
    THEN Rules[CHOOSE i \in DOMAIN Rules :
                 Rules[i] \in as /\ \A j \in 1..(i-1) : Rules[j] \notin as]
    ELSE Nil

Holds(f, on, as, ls) ==
  CASE f[1] = "domain" -> on
    [] f[1] = "nodomain" -> ~on
    [] f[1] = "rule" -> f[2] = Match(on, as)
    [] f[1] = "link" -> <<f[2], f[3]>> \in ls

\* The directory becomes <<on, as, ls>>.
Change(on, as, ls) ==
  /\ <<on, as, ls>> # directory
  /\ live' = on /\ rules' = as /\ links' = ls
  /\ since' = [f \in Facts |-> IF Holds(f, on, as, ls) THEN 0 ELSE since[f]]
  /\ UNCHANGED <<cache, conns>>

\* Verified, added again without being verified, or deleted with its aliases.
ChangeDomain ==
  \/ Change(TRUE, rules, links)
  \/ Change(FALSE, rules, links)
  \/ Change(FALSE, {}, {})

ChangeAlias(a) ==
  \/ live /\ \E x \in Destinations : Change(live, rules \cup {a}, links \cup {<<a, x>>})
  \/ Change(live, rules \ {a}, {l \in links : l[1] # a})

ChangeLink(a, x) ==
  /\ a \in rules
  /\ Change(live, rules, links \cup {<<a, x>>}) \/ Change(live, rules, links \ {<<a, x>>})

ChangeDirectory ==
  \/ ChangeDomain
  \/ \E a \in Aliases : ChangeAlias(a) \/ \E x \in Destinations : ChangeLink(a, x)

-----------------------------------------------------------------------------
(* The cache and its clock.                                                *)

\* Cache.Get finds an entry that has not expired.  It may always miss:
\* ristretto drops and evicts as it likes.
Hit(k) == cache[k] # Nil

\* Cache.Set, which ristretto may ignore.
Set(k, v) == cache' \in {cache, [cache EXCEPT ![k] = [value |-> v, left |-> TTL]]}

Younger(n) == IF n < LongAgo THEN n + 1 ELSE n

Setting == {"setdomain", "setalias", "setdestinations"}

\* Mutant of Expire: an entry is kept until it is evicted.
ExpireNever(e) == IF e # Nil /\ e.left > 0 THEN [e EXCEPT !.left = @ - 1] ELSE e

\* An entry set between two ticks expires between the two that are TTL later.
Expire(e) == IF e # Nil /\ e.left > 0 THEN [e EXCEPT !.left = @ - 1] ELSE Nil

\* A lookup does not rest longer than MaxLag between its SELECT and its Set.
Tick ==
  /\ \A c \in Conns : pc[c] \in Setting => lag[c] < MaxLag
  /\ cache' = [k \in Keys |-> Expire(cache[k])]
  /\ since' = [f \in Facts |-> IF Holds(f, live, rules, links) THEN 0 ELSE Younger(since[f])]
  /\ lag' = [c \in Conns |-> IF pc[c] \in Setting THEN lag[c] + 1 ELSE 0]
  /\ UNCHANGED <<directory, pc, held, found>>

-----------------------------------------------------------------------------
(* Steps of a connection.                                                  *)

\* Connection c moves from one step to another, holding h.
Move(c, from, to, h) ==
  /\ pc[c] = from
  /\ pc' = [pc EXCEPT ![c] = to]
  /\ held' = [held EXCEPT ![c] = h]
  /\ lag' = [lag EXCEPT ![c] = 0]
  /\ UNCHANGED directory

\* Where a connection goes when detectDomain succeeds.
Onward(c) == IF c \in Relays THEN "alias" ELSE "mail"

\* The recipient's, or a submission's sender's, domain.
DomainHit(c) ==
  /\ Hit("domain")
  /\ Move(c, "domain", Onward(c), Nil)
  /\ UNCHANGED <<cache, since, found>>

\* Mutant of DomainBad: a refusal sets the mark again.
DomainBadSlides(c) ==
  /\ Hit("nxdomain")
  /\ Move(c, "domain", "idle", Nil)
  /\ Set("nxdomain", TRUE)
  /\ UNCHANGED <<since, found>>

DomainBad(c) ==
  /\ Hit("nxdomain")
  /\ Move(c, "domain", "idle", Nil)
  /\ UNCHANGED <<cache, since, found>>

DomainSelect(c) ==
  /\ Move(c, "domain", "setdomain", live)
  /\ UNCHANGED <<cache, since, found>>

\* Any error of the SELECT counts as "no such domain".
DomainFails(c) ==
  /\ Move(c, "domain", "setdomain", FALSE)
  /\ since' = [since EXCEPT ![NoDomain] = 0]
  /\ UNCHANGED <<cache, found>>

DomainSet(c) ==
  \/ /\ Move(c, "setdomain", Onward(c), Nil)
     /\ held[c] = TRUE
     /\ Set("domain", TRUE)
     /\ UNCHANGED <<since, found>>
  \/ /\ Move(c, "setdomain", "idle", Nil)
     /\ held[c] = FALSE
     /\ Set("nxdomain", TRUE)
     /\ UNCHANGED <<since, found>>

detectDomain(c) ==
  DomainHit(c) \/ DomainBad(c) \/ DomainSelect(c) \/ DomainFails(c) \/ DomainSet(c)

\* Its other namespaces are set under names that nothing reads.
AliasHit(c) ==
  /\ Hit("alias:match")
  /\ Move(c, "alias", "rcpt", Nil)
  /\ found' = [found EXCEPT ![c] = cache["alias:match"].value]
  /\ UNCHANGED <<cache, since>>

AliasBad(c) ==
  /\ Hit("nxdomain")
  /\ Move(c, "alias", "idle", Nil)
  /\ UNCHANGED <<cache, since, found>>

AliasSelect(c) ==
  /\ Match(live, rules) # Nil
  /\ Move(c, "alias", "setalias", Match(live, rules))
  /\ UNCHANGED <<cache, since, found>>

\* No rule matches, or the SELECT fails.
AliasNone(c) ==
  /\ Move(c, "alias", "idle", Nil)
  /\ UNCHANGED <<cache, since, found>>

AliasSet(c) ==
  /\ Move(c, "setalias", "rcpt", Nil)
  /\ Set("alias:match", held[c])
  /\ found' = [found EXCEPT ![c] = held[c]]
  /\ UNCHANGED since

detectAlias(c) ==
  AliasHit(c) \/ AliasBad(c) \/ AliasSelect(c) \/ AliasNone(c) \/ AliasSet(c)

DestinationsHit(c) ==
  /\ pc[c] = "destinations"
  /\ Hit(found[c])
  /\ Move(c, "destinations", "relay", cache[found[c]].value)
  /\ UNCHANGED <<cache, since, found>>

DestinationsSelect(c) ==
  /\ Move(c, "destinations", "setdestinations", {x \in Destinations : <<found[c], x>> \in links})
  /\ UNCHANGED <<cache, since, found>>

DestinationsFail(c) ==
  /\ Move(c, "destinations", "idle", Nil)
  /\ found' = [found EXCEPT ![c] = Nil]
  /\ UNCHANGED <<cache, since>>

\* An empty result is cached too.
DestinationsSet(c) ==
  /\ pc[c] = "setdestinations"
  /\ Move(c, "setdestinations", "relay", held[c])
  /\ Set(found[c], held[c])
  /\ UNCHANGED <<since, found>>

getDestinations(c) ==
  DestinationsHit(c) \/ DestinationsSelect(c) \/ DestinationsFail(c) \/ DestinationsSet(c)

-----------------------------------------------------------------------------
(* An inbound connection: RCPT, then DATA, or RSET instead.  A submission:   *)
(* MAIL, which needs the sender's domain (the rest is module Submission).    *)

Rcpt(c) ==
  /\ Move(c, "idle", "domain", Nil)
  /\ UNCHANGED <<cache, since, found>>

Data(c) ==
  /\ Move(c, "rcpt", "destinations", Nil)
  /\ UNCHANGED <<cache, since, found>>

\* Mutant of Reset: the session keeps the alias.
ResetKeepsAlias(c) ==
  /\ Move(c, "rcpt", "idle", Nil)
  /\ UNCHANGED <<cache, since, found>>

Reset(c) ==
  /\ Move(c, "rcpt", "idle", Nil)
  /\ found' = [found EXCEPT ![c] = Nil]
  /\ UNCHANGED <<cache, since>>

\* The relay loop over the destinations held, an error when there are none.
Relay(c) ==
  /\ Move(c, "relay", "idle", Nil)
  /\ found' = [found EXCEPT ![c] = Nil]
  /\ UNCHANGED <<cache, since>>

BeginMail(c) ==
  /\ Move(c, "idle", "domain", Nil)
  /\ UNCHANGED <<cache, since, found>>

Mail(c) ==
  /\ Move(c, "mail", "idle", Nil)
  /\ UNCHANGED <<cache, since, found>>

\* Goroutines run on from a lookup, without their clients.
Lookup(c) ==
  IF c \in Relays THEN detectDomain(c) \/ detectAlias(c) \/ getDestinations(c) \/ Relay(c)
                  ELSE detectDomain(c) \/ Mail(c)

Next ==
  \/ ChangeDirectory
  \/ Tick
  \/ \E c \in Conns : Lookup(c)
  \/ \E c \in Relays : Rcpt(c) \/ Data(c) \/ Reset(c)
  \/ \E c \in Submitters : BeginMail(c)

Spec == Init /\ [][Next]_vars

\* The clock advances and lookups end; clients and the control panel owe
\* nothing.
FairSpec == Spec /\ WF_vars(Tick) /\ \A c \in Conns : WF_vars(Lookup(c))

-----------------------------------------------------------------------------
(* Properties.                                                             *)

\* Every variable has its type.
TypeOK ==
  /\ live \in BOOLEAN /\ rules \subseteq Aliases /\ links \subseteq Aliases \X Destinations
  /\ \A k \in Keys : cache[k] # Nil => cache[k].left \in 0..TTL
  /\ since \in [Facts -> 0..LongAgo]
  /\ \A c \in Conns : lag[c] \in 0..MaxLag
  /\ \A c \in Relays : pc[c] \in {"rcpt", "destinations", "setdestinations", "relay"}
                                 <=> found[c] # Nil

\* The answer connection c has just been given rests on facts that held at
\* most a TTL and a lag ago.
Recent(f) == since[f] < LongAgo

\* A directory change takes effect within the TTL and one lookup's delay, for
\* every lookup and however the Sets of slow lookups interleave with it: a
\* domain passes detectDomain, a recipient resolves to an alias, and mail goes
\* to a destination only if that was so less than a TTL and a lag before; a
\* domain is refused only if it was absent, or a lookup of it failed, that
\* recently (detectDomain, detectAlias and getDestinations of internal/smtp,
\* DefaultCacheTTL of internal/cache).
AnswersRecent ==
  [][\A c \in Conns :
       LET Answered(from, to) == pc[c] \in from /\ pc'[c] = to IN
       /\ Answered({"domain", "setdomain"}, Onward(c)) => Recent(Domain)
       /\ Answered({"domain", "setdomain"}, "idle") => Recent(NoDomain)'
       /\ Answered({"alias", "setalias"}, "rcpt") => Recent(<<"rule", found'[c], Nil>>)
       /\ Answered({"destinations", "setdestinations"}, "relay") =>
            \A x \in held'[c] : Recent(<<"link", found[c], x>>)]_vars

\* Once the domain stays and its lookups work, detectDomain stops refusing it:
\* the marks that failed or earlier lookups left under "nxdomain" die out, for
\* they are not renewed by the refusals they cause.
RefusalsEnd ==
  (/\ <>[]live
   /\ <>[][~\E c \in Conns : DomainFails(c)]_vars)
  => <>[][~\E c \in Conns : pc[c] \in {"domain", "setdomain"} /\ pc'[c] = "idle"]_vars
=============================================================================
