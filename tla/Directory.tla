------------------------------ MODULE Directory ------------------------------
(***************************************************************************)
(* The control panel's handlers that change domains, aliases, destinations  *)
(* and the links between the last two, with the DKIM keys and DNS records   *)
(* that belong to a domain (internal/account, internal/controlpanel).       *)
(*                                                                         *)
(* The auth middleware runs a handler in one READ COMMITTED transaction     *)
(* that sees only the account's own rows (row level security).  A handler   *)
(* reads first and writes last, so a request is two steps: Begin takes the  *)
(* decision from what it reads, Commit writes and commits; requests and     *)
(* slow DNS lookups interleave in between.  Rows are never removed: they    *)
(* are marked deleted, and creating them again revives them.                *)
(***************************************************************************)
EXTENDS Naturals, FiniteSets

CONSTANTS
  Accounts, Names, Rules, Addresses,
  Requests,          \* concurrent requests
  AccountOf,         \* [Requests -> Accounts]
  Subscribed,        \* accounts with AccountTypeSubscription
  Nil,
  FreeDomains, FreeAliases, FreeDestinations,  \* limits of acl.go: 1, 2 and 3
  MaxKeys            \* bound: CreateDomain calls that reach the INSERT

ASSUME DirectoryAssumption ==
  /\ AccountOf \in [Requests -> Accounts]
  /\ Subscribed \subseteq Accounts
  /\ {FreeDomains, FreeAliases, FreeDestinations, MaxKeys} \subseteq Nat
  /\ Nil \notin Accounts
  /\ IsFiniteSet(Requests)

\* Rows are named by their unique keys: an alias by domain and rule, a
\* destination by account and address.
Alias == Names \X Rules
Destination == Accounts \X Addresses

VARIABLES
  owner,      \* domains.account_id: [Names -> Accounts or Nil (no row)]
  live,       \* names whose row is not deleted
  verified,   \* names whose verified_at is set
  code,       \* [Names -> Nat]: verify_code, and the DKIM key made with it
  liveKeys,   \* [Names -> SUBSET Nat]: dkim_keys and their records, not deleted
  deadKeys,   \* [Names -> SUBSET Nat]: deleted ones
  checked,    \* [Names -> {"new", "fresh", "stale"}]: records' last_verified_at
  aliases,    \* SUBSET Alias: live ones
  dests,      \* SUBSET Destination: live ones
  links,      \* SUBSET (Alias \X Destination): live alias_destinations
  dns,        \* SUBSET (Names \X Nat): CNAMEs the owners published
  request,    \* [Requests -> [op, arg] or Idle]: what Commit will write
  made,       \* history: keys made so far
  signed,     \* history: <<name, key>> whose key was not published when used
  readded,    \* history: live names that were added again while they were live
  overtaken,  \* history: running requests, since whose reads another request of
              \* their account committed
  torn        \* history: accounts for which an overtaken request committed

domainVars == <<owner, live, verified, code, liveKeys, deadKeys, checked, readded>>
races == <<overtaken, torn>>
vars == <<domainVars, aliases, dests, links, dns, request, made, signed, races>>

Idle == [op |-> "idle", arg |-> <<>>]

Init ==
  /\ owner = [n \in Names |-> Nil]
  /\ live = {} /\ verified = {}
  /\ code = [n \in Names |-> 0]
  /\ liveKeys = [n \in Names |-> {}]
  /\ deadKeys = [n \in Names |-> {}]
  /\ checked = [n \in Names |-> "new"]
  /\ aliases = {} /\ dests = {} /\ links = {}
  /\ dns = {}
  /\ request = [r \in Requests |-> Idle]
  /\ made = 0
  /\ signed = {} /\ readded = {} /\ overtaken = {} /\ torn = {}

-----------------------------------------------------------------------------
(* What a request can see: row level security shows its account's rows.    *)

LiveDomainsOf(a) == {n \in live : owner[n] = a}
LiveAliasesOf(a) == {x \in aliases : owner[x[1]] = a}
LiveDestsOf(a) == {d \in dests : d[1] = a}

\* Mutant of aclDomainCreateCheck: off by one.
aclDomainCreateCheckOff(a) ==
  a \in Subscribed \/ Cardinality(LiveDomainsOf(a)) <= FreeDomains

aclDomainCreateCheck(a) ==
  a \in Subscribed \/ Cardinality(LiveDomainsOf(a)) < FreeDomains
aclAliasCreateCheck(a) ==
  a \in Subscribed \/ Cardinality(LiveAliasesOf(a)) < FreeAliases
aclDestinationCreateCheck(a) ==
  a \in Subscribed \/ Cardinality(LiveDestsOf(a)) < FreeDestinations

\* The handler's reads succeed: the request goes on to write.
Begin(r, op, arg) ==
  /\ request[r] = Idle
  /\ request' = [request EXCEPT ![r] = [op |-> op, arg |-> arg]]
  /\ UNCHANGED <<domainVars, aliases, dests, links, dns, made, signed, races>>

\* The account's other requests that are running.
Beside(r) == {s \in Requests \ {r} : AccountOf[s] = AccountOf[r] /\ request[s] # Idle}

\* The transaction ends; the request's writes are the other conjuncts.
Commit(r, op) ==
  /\ request[r].op = op
  /\ request' = [request EXCEPT ![r] = Idle]
  /\ overtaken' = (overtaken \ {r}) \cup Beside(r)
  /\ torn' = IF r \in overtaken THEN torn \cup {AccountOf[r]} ELSE torn

\* An error rolls everything back.
Rollback(r) ==
  /\ request[r] # Idle
  /\ request' = [request EXCEPT ![r] = Idle]
  /\ overtaken' = overtaken \ {r}
  /\ UNCHANGED <<domainVars, aliases, dests, links, dns, made, signed, torn>>

-----------------------------------------------------------------------------
(* Domains.                                                                *)

BeginCreateDomain(r, n) ==
  /\ aclDomainCreateCheck(AccountOf[r])
  /\ Begin(r, "createDomain", n)

\* Mutant of CreateDomain: verified_at keeps its value when a row is revived.
CreateDomainKeepsVerified(r) ==
  LET n == request[r].arg
      key == made + 1 IN
  /\ Commit(r, "createDomain")
  /\ owner[n] \in {Nil, AccountOf[r]}
  /\ key <= MaxKeys
  /\ made' = key
  /\ owner' = [owner EXCEPT ![n] = AccountOf[r]]
  /\ live' = live \cup {n}
  /\ code' = [code EXCEPT ![n] = key]
  /\ liveKeys' = [liveKeys EXCEPT ![n] = @ \cup {key}]
  /\ checked' = [checked EXCEPT ![n] = "new"]
  /\ readded' = IF n \in live THEN readded \cup {n} ELSE readded
  /\ UNCHANGED <<verified, deadKeys, aliases, dests, links, dns, signed>>

\* INSERT ... ON CONFLICT (name) revives the account's own row, unverified and
\* with a new code; another account's row makes the statement fail.  The COUNT
\* meant to refuse a live domain counts deleted rows and is never > 1.
CreateDomain(r) ==
  LET n == request[r].arg
      key == made + 1 IN
  /\ Commit(r, "createDomain")
  /\ owner[n] \in {Nil, AccountOf[r]}
  /\ key <= MaxKeys
  /\ made' = key
  /\ owner' = [owner EXCEPT ![n] = AccountOf[r]]
  /\ live' = live \cup {n}
  /\ verified' = verified \ {n}
  /\ code' = [code EXCEPT ![n] = key]
  /\ liveKeys' = [liveKeys EXCEPT ![n] = @ \cup {key}]
  /\ checked' = [checked EXCEPT ![n] = "new"]
  /\ readded' = IF n \in live THEN readded \cup {n} ELSE readded
  /\ UNCHANGED <<deadKeys, aliases, dests, links, dns, signed>>

BeginDeleteDomain(r, n) ==
  /\ n \in LiveDomainsOf(AccountOf[r])
  /\ Begin(r, "deleteDomain", n)

\* Mutant of DeleteDomain: dkim_keys and records are not marked deleted.
DeleteDomainKeepsKeys(r) ==
  LET n == request[r].arg IN
  /\ Commit(r, "deleteDomain")
  /\ links' = {l \in links : l[1][1] # n}
  /\ aliases' = {x \in aliases : x[1] # n}
  /\ live' = live \ {n}
  /\ readded' = readded \ {n}
  /\ UNCHANGED <<owner, verified, code, liveKeys, deadKeys, checked, dests, dns, made,
                 signed>>

\* Keys and records, links, aliases, the domain; verified_at stays set.
DeleteDomain(r) ==
  LET n == request[r].arg IN
  /\ Commit(r, "deleteDomain")
  /\ deadKeys' = [deadKeys EXCEPT ![n] = @ \cup liveKeys[n]]
  /\ liveKeys' = [liveKeys EXCEPT ![n] = {}]
  /\ links' = {l \in links : l[1][1] # n}
  /\ aliases' = {x \in aliases : x[1] # n}
  /\ live' = live \ {n}
  /\ readded' = readded \ {n}
  /\ UNCHANGED <<owner, verified, code, checked, dests, dns, made, signed>>

\* The owner publishes the CNAME that the domain page shows.
PublishCode(n) ==
  /\ n \in live
  /\ <<n, code[n]>> \notin dns
  /\ dns' = dns \cup {<<n, code[n]>>}
  /\ UNCHANGED <<domainVars, aliases, dests, links, request, made, signed, races>>

\* CheckVerifyCode looks up the code the handler read.
CheckVerifyCode(r, n) ==
  /\ n \in LiveDomainsOf(AccountOf[r]) \ verified
  /\ <<n, code[n]>> \in dns
  /\ Begin(r, "verify", n)

\* UPDATE domains SET verified_at WHERE id: whatever the row says by now.
Verify(r) ==
  /\ Commit(r, "verify")
  /\ verified' = verified \cup {request[r].arg}
  /\ UNCHANGED <<owner, live, code, liveKeys, deadKeys, checked, readded, aliases,
                 dests, links, dns, made, signed>>

\* The page of a verified domain looks its records up, unless they were seen
\* less than 24 hours ago; it does so only for exactly one set of five.
BeginCheckRecords(r, n) ==
  /\ n \in LiveDomainsOf(AccountOf[r]) \cap verified
  /\ Cardinality(liveKeys[n]) = 1
  /\ checked[n] # "fresh"
  /\ Begin(r, "checkRecords", n)

CheckRecords(r) ==
  /\ Commit(r, "checkRecords")
  /\ checked' = [checked EXCEPT ![request[r].arg] = "fresh"]
  /\ UNCHANGED <<owner, live, verified, code, liveKeys, deadKeys, readded, aliases,
                 dests, links, dns, made, signed>>

\* 24 hours pass.
RecordsAge(n) ==
  /\ checked[n] = "fresh"
  /\ checked' = [checked EXCEPT ![n] = "stale"]
  /\ UNCHANGED <<owner, live, verified, code, liveKeys, deadKeys, readded, aliases,
                 dests, links, dns, request, made, signed, races>>

-----------------------------------------------------------------------------
(* Aliases, destinations and links.                                        *)

\* Mutant of IsComplete: an unverified domain will do.
IsCompleteUnverified(n) == Cardinality(liveKeys[n]) = 1

\* Records verified for the first time do not make the page complete; stale
\* ones that are still there do.
IsComplete(n) ==
  /\ n \in verified
  /\ Cardinality(liveKeys[n]) = 1
  /\ checked[n] \in {"fresh", "stale"}

BeginCreateAlias(r, x, d) ==
  /\ x[1] \in LiveDomainsOf(AccountOf[r])
  /\ IsComplete(x[1])
  /\ aclAliasCreateCheck(AccountOf[r])
  /\ d \in LiveDestsOf(AccountOf[r])
  /\ Begin(r, "createAlias", <<x, d>>)

\* Both rows are inserted or revived; stale records were just seen again.
CreateAlias(r) ==
  LET x == request[r].arg[1] IN
  /\ Commit(r, "createAlias")
  /\ aliases' = aliases \cup {x}
  /\ links' = links \cup {request[r].arg}
  /\ checked' = [checked EXCEPT ![x[1]] = "fresh"]
  /\ UNCHANGED <<owner, live, verified, code, liveKeys, deadKeys, readded, dests, dns,
                 made, signed>>

\* Mutant of BeginCreateAliasDestination: the destination is not validated.
BeginAttachUnchecked(r, x, d) ==
  /\ x \in LiveAliasesOf(AccountOf[r])
  /\ Begin(r, "attach", <<x, d>>)

\* GetAlias, then "validate that destination belongs to this account".
BeginCreateAliasDestination(r, x, d) ==
  /\ x \in LiveAliasesOf(AccountOf[r])
  /\ d \in LiveDestsOf(AccountOf[r])
  /\ Begin(r, "attach", <<x, d>>)

CreateAliasDestination(r) ==
  /\ Commit(r, "attach")
  /\ links' = links \cup {request[r].arg}
  /\ UNCHANGED <<domainVars, aliases, dests, dns, made, signed>>

BeginDeleteAliasDestination(r, x, d) ==
  /\ x \in LiveAliasesOf(AccountOf[r])
  /\ d \in LiveDestsOf(AccountOf[r])
  /\ Begin(r, "detach", <<x, d>>)

DeleteAliasDestination(r) ==
  /\ Commit(r, "detach")
  /\ links' = links \ {request[r].arg}
  /\ UNCHANGED <<domainVars, aliases, dests, dns, made, signed>>

\* Mutant of BeginDeleteAlias: the domain's id is used for the alias'.
BeginDeleteAliasByDomain(r, x) ==
  /\ x \in LiveAliasesOf(AccountOf[r])
  /\ x[1] \in live
  /\ Begin(r, "deleteAlias", x[1])

BeginDeleteAlias(r, x) ==
  /\ x \in LiveAliasesOf(AccountOf[r])
  /\ x[1] \in live
  /\ Begin(r, "deleteAlias", x)

DeleteAlias(r) ==
  LET x == request[r].arg IN
  /\ Commit(r, "deleteAlias")
  /\ links' = {l \in links : l[1] # x}
  /\ aliases' = aliases \ {x}
  /\ UNCHANGED <<domainVars, dests, dns, made, signed>>

BeginCreateDestination(r, address) ==
  /\ aclDestinationCreateCheck(AccountOf[r])
  /\ Begin(r, "createDestination", <<AccountOf[r], address>>)

CreateDestination(r) ==
  /\ Commit(r, "createDestination")
  /\ dests' = dests \cup {request[r].arg}
  /\ UNCHANGED <<domainVars, aliases, links, dns, made, signed>>

BeginDeleteDestination(r, d) ==
  /\ d \in LiveDestsOf(AccountOf[r])
  /\ Begin(r, "deleteDestination", d)

\* Mutant of DeleteDestination: its links stay.
DeleteDestinationOnly(r) ==
  /\ Commit(r, "deleteDestination")
  /\ dests' = dests \ {request[r].arg}
  /\ UNCHANGED <<domainVars, aliases, links, dns, made, signed>>

DeleteDestination(r) ==
  LET d == request[r].arg IN
  /\ Commit(r, "deleteDestination")
  /\ links' = {l \in links : l[2] # d}
  /\ dests' = dests \ {d}
  /\ UNCHANGED <<domainVars, aliases, dns, made, signed>>

-----------------------------------------------------------------------------
(* smtpd forwards mail of a domain and signs it: getDkimPrivateKey takes    *)
(* any key row of the domain, deleted or not.                               *)

Forwards(n) ==
  /\ n \in live \cap verified
  /\ \E l \in links : l[1][1] = n /\ l[1] \in aliases /\ l[2] \in dests

dkimSign(n) ==
  /\ Forwards(n)
  /\ \E key \in liveKeys[n] \cup deadKeys[n] :
       signed' = IF key \in liveKeys[n] THEN signed ELSE signed \cup {<<n, key>>}
  /\ UNCHANGED <<domainVars, aliases, dests, links, dns, request, made, races>>

-----------------------------------------------------------------------------
DomainStep(r) ==
  \/ \E n \in Names : \/ BeginCreateDomain(r, n)
                      \/ BeginDeleteDomain(r, n)
                      \/ CheckVerifyCode(r, n)
                      \/ BeginCheckRecords(r, n)
  \/ CreateDomain(r)
  \/ DeleteDomain(r)
  \/ Verify(r)
  \/ CheckRecords(r)

AliasStep(r) ==
  \/ \E x \in Alias :
       \/ BeginDeleteAlias(r, x)
       \/ \E d \in Destination : \/ BeginCreateAlias(r, x, d)
                                 \/ BeginCreateAliasDestination(r, x, d)
                                 \/ BeginDeleteAliasDestination(r, x, d)
  \/ CreateAlias(r)
  \/ CreateAliasDestination(r)
  \/ DeleteAliasDestination(r)
  \/ DeleteAlias(r)

DestinationStep(r) ==
  \/ \E address \in Addresses : BeginCreateDestination(r, address)
  \/ \E d \in Destination : BeginDeleteDestination(r, d)
  \/ CreateDestination(r)
  \/ DeleteDestination(r)

Environment(n) == PublishCode(n) \/ RecordsAge(n) \/ dkimSign(n)

Next ==
  \/ \E n \in Names : Environment(n)
  \/ \E r \in Requests :
       DomainStep(r) \/ AliasStep(r) \/ DestinationStep(r) \/ Rollback(r)

Spec == Init /\ [][Next]_vars

-----------------------------------------------------------------------------
(* Properties.                                                             *)

ArgOf(op) ==
  CASE op \in {"createDomain", "deleteDomain", "verify", "checkRecords"} -> Names
    [] op \in {"createAlias", "attach", "detach"} -> Alias \X Destination
    [] op = "deleteAlias" -> Alias
    [] op \in {"createDestination", "deleteDestination"} -> Destination
    [] op = "idle" -> {<<>>}

Ops == {"createDomain", "deleteDomain", "verify", "checkRecords", "createAlias",
        "attach", "detach", "deleteAlias", "createDestination",
        "deleteDestination", "idle"}

Request == UNION {[op : {op}, arg : ArgOf(op)] : op \in Ops}

\* Every variable has its type, every request carries the ids its operation
\* is about, and a live domain has an owner (schema/account.sql).
TypeOK ==
  /\ owner \in [Names -> Accounts \cup {Nil}]
  /\ live \subseteq Names /\ verified \subseteq Names /\ readded \subseteq live
  /\ code \in [Names -> Nat]
  /\ liveKeys \in [Names -> SUBSET Nat] /\ deadKeys \in [Names -> SUBSET Nat]
  /\ checked \in [Names -> {"new", "fresh", "stale"}]
  /\ aliases \subseteq Alias /\ dests \subseteq Destination
  /\ links \subseteq Alias \X Destination
  /\ dns \subseteq Names \X Nat
  /\ request \in [Requests -> Request]
  /\ made \in Nat
  /\ signed \subseteq Names \X Nat
  /\ overtaken \subseteq Requests /\ torn \subseteq Accounts
  /\ \A n \in live : owner[n] # Nil

\* An alias forwards only to destinations of its own account, whatever the
\* accounts' requests do meanwhile: handlers validate ids against the rows
\* they can see, and a domain name never changes hands (CreateAlias,
\* CreateAliasDestination, CreateDomain's ON CONFLICT).
OwnDestinations ==
  \A l \in links : owner[l[1][1]] = l[2][1]

\* Account a has at most extra rows of a kind beyond acl.go's limits.
Within(a, extra) ==
  /\ Cardinality(LiveDomainsOf(a)) <= FreeDomains + extra
  /\ Cardinality(LiveAliasesOf(a)) <= FreeAliases + extra
  /\ Cardinality(LiveDestsOf(a)) <= FreeDestinations + extra

\* "1 Domain", "2 Aliases", "3 Destinations" (lander.html:157-169): an account
\* without a subscription never has more than acl.go's limits.
FreePlanLimits == \A a \in Accounts \ Subscribed : Within(a, 0)

RequestsOf(a) == {r \in Requests : AccountOf[r] = a}

\* It never has until one of its handlers writes on what another of them has
\* changed since it counted, and then it exceeds them by fewer rows than it has
\* requests at once: nothing else, no other account, no deletion or revival and
\* no number of rounds of the race, gets it further (the aclXCreateChecks of
\* acl.go, whose counts no lock protects).
ExcessBounded ==
  \A a \in Accounts \ Subscribed :
    Within(a, IF a \in torn THEN Cardinality(RequestsOf(a)) - 1 ELSE 0)

\* Deleting is complete: no live link joins a deleted alias or destination,
\* so reviving one does not silently bring an old forwarding back
\* (DeleteDomain, getDeleteAlias, getDeleteDestination).  Only a handler that
\* was overtaken by another of its account leaves one behind.
LinksJoinLive ==
  \A l \in links : owner[l[1][1]] \notin torn => l[1] \in aliases /\ l[2] \in dests

\* "must be verified before being used" (account/domain.go:21-22): a live alias
\* belongs to a live domain that is verified, through deleting the domain and
\* adding it again, unless the domain was added again while it was live or a
\* handler of the account was overtaken (createAlias, CreateDomain).
AliasNeedsVerifiedDomain ==
  \A x \in aliases : owner[x[1]] \notin torn =>
    x[1] \in live /\ (x[1] \in verified \/ x[1] \in readded)

\* A domain is verified only if its owner published a code it was given, and a
\* live one with the code it has now, not with one from before it was added
\* again, unless a handler of the account was overtaken, say by adding the
\* domain during the lookup (CreateDomain, CheckVerifyCode, getDomain).
VerifiedByCode ==
  \A n \in verified :
    /\ \E key \in 1..made : <<n, key>> \in dns
    /\ n \in live /\ owner[n] \notin torn => <<n, code[n]>> \in dns

\* The key that belongs to a live domain's code is live, with its five records,
\* and a deleted domain has no live key, however handlers overtake each other.
\* It is the only one (else the domain page never becomes complete) unless the
\* domain was added again while it was live, which CreateDomain does not refuse.
OneKeySet ==
  \A n \in Names :
    /\ n \in live => code[n] \in liveKeys[n]
    /\ n \in live \ readded => liveKeys[n] = {code[n]}
    /\ n \notin live => liveKeys[n] = {}

\* "Every email sent from our system has it's headers and body signed. The
\* recipient can then use this record to verify" (lander.html:57): mail is
\* signed with the key whose record the domain page shows.  getDkimPrivateKey
\* does not look at deleted_at (internal/smtp/dkim.go:44).
SignedWithPublishedKey == signed = {}
=============================================================================
