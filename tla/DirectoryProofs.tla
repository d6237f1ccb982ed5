-------------------------- MODULE DirectoryProofs --------------------------
(***************************************************************************)
(* Proofs about Directory, for any accounts, any number of parallel         *)
(* requests and any limits.                                                *)
(***************************************************************************)
EXTENDS Directory, FiniteSetTheorems, TLAPS

-----------------------------------------------------------------------------
(* Types.                                                                  *)

\* A request carries an argument of its operation.
LEMMA RequestFields ==
  ASSUME NEW q \in Request
  PROVE  q.op \in Ops /\ q.arg \in ArgOf(q.op)
BY DEF Request

\* An operation with an argument of its kind is a request.
LEMMA RequestMake ==
  ASSUME NEW op \in Ops, NEW arg \in ArgOf(op)
  PROVE  [op |-> op, arg |-> arg] \in Request
<1>1. [op |-> op, arg |-> arg] \in [op : {op}, arg : ArgOf(op)]
  OBVIOUS
<1> QED
  BY <1>1 DEF Request

\* The arguments of the operations.
LEMMA ArgKinds ==
  /\ \A op \in {"createDomain", "deleteDomain", "verify", "checkRecords"} :
       op \in Ops /\ ArgOf(op) = Names
  /\ \A op \in {"createAlias", "attach", "detach"} :
       op \in Ops /\ ArgOf(op) = Alias \X Destination
  /\ "deleteAlias" \in Ops /\ ArgOf("deleteAlias") = Alias
  /\ \A op \in {"createDestination", "deleteDestination"} :
       op \in Ops /\ ArgOf(op) = Destination
  /\ Idle \in Request
<1>1. \A op \in {"createDomain", "deleteDomain", "verify", "checkRecords"} :
        op \in Ops /\ ArgOf(op) = Names
  BY DEF Ops, ArgOf
<1>2. \A op \in {"createAlias", "attach", "detach"} :
        op \in Ops /\ ArgOf(op) = Alias \X Destination
  BY DEF Ops, ArgOf
<1>3. "deleteAlias" \in Ops /\ ArgOf("deleteAlias") = Alias
  BY DEF Ops, ArgOf
<1>4. \A op \in {"createDestination", "deleteDestination"} :
        op \in Ops /\ ArgOf(op) = Destination
  BY DEF Ops, ArgOf
<1>5. "idle" \in Ops /\ ArgOf("idle") = {<<>>}
  BY DEF Ops, ArgOf
<1>6. Idle \in Request
  BY <1>5, RequestMake DEF Idle
<1> QED
  BY <1>1, <1>2, <1>3, <1>4, <1>6

\* The argument a committing request was begun with.
LEMMA ArgAtCommit ==
  ASSUME TypeOK, NEW r \in Requests, NEW op \in Ops, Commit(r, op)
  PROVE  /\ request[r].arg \in ArgOf(op) /\ request' \in [Requests -> Request]
         /\ overtaken' \subseteq Requests /\ torn' \subseteq Accounts
<1>1. request[r] \in Request
  BY DEF TypeOK
<1>2. request[r].arg \in ArgOf(op)
  BY <1>1, RequestFields DEF Commit
<1>3. request' \in [Requests -> Request]
  BY ArgKinds DEF Commit, TypeOK
<1>4. overtaken' \subseteq Requests /\ torn' \subseteq Accounts
  BY DirectoryAssumption DEF Commit, TypeOK, Beside
<1> QED
  BY <1>2, <1>3, <1>4

\* Beginning a request keeps the types.
LEMMA BeginType ==
  ASSUME TypeOK, NEW r \in Requests, NEW op \in Ops, NEW arg \in ArgOf(op),
         Begin(r, op, arg)
  PROVE  TypeOK'
<1>1. [op |-> op, arg |-> arg] \in Request
  BY RequestMake
<1>2. request' \in [Requests -> Request]
  BY <1>1 DEF Begin, TypeOK
<1> QED
  BY <1>2 DEF Begin, TypeOK, domainVars, races

\* What the handler of op read holds, for account a and the rows of arg.
Stands(a, op, arg) ==
  /\ op = "createDomain" => aclDomainCreateCheck(a)
  /\ op = "deleteDomain" => arg \in LiveDomainsOf(a)
  /\ op = "verify" => arg \in LiveDomainsOf(a) \ verified /\ <<arg, code[arg]>> \in dns
  /\ op = "checkRecords" =>
       /\ arg \in LiveDomainsOf(a) \cap verified
       /\ Cardinality(liveKeys[arg]) = 1
       /\ checked[arg] # "fresh"
  /\ op = "createAlias" =>
       /\ arg[1][1] \in LiveDomainsOf(a) /\ IsComplete(arg[1][1])
       /\ aclAliasCreateCheck(a)
       /\ arg[2] \in LiveDestsOf(a)
  /\ op \in {"attach", "detach"} =>
       arg[1] \in LiveAliasesOf(a) /\ arg[2] \in LiveDestsOf(a)
  /\ op = "deleteAlias" => arg \in LiveAliasesOf(a) /\ arg[1] \in live
  /\ op = "createDestination" => arg[1] = a /\ aclDestinationCreateCheck(a)
  /\ op = "deleteDestination" => arg \in LiveDestsOf(a)

\* Handlers that only begin: each starts one operation on rows its account sees.
BeginStep(r) ==
  \/ \E n \in Names : \/ BeginCreateDomain(r, n) \/ BeginDeleteDomain(r, n)
                      \/ CheckVerifyCode(r, n) \/ BeginCheckRecords(r, n)
  \/ \E x \in Alias :
       \/ BeginDeleteAlias(r, x)
       \/ \E d \in Destination : \/ BeginCreateAlias(r, x, d)
                                 \/ BeginCreateAliasDestination(r, x, d)
                                 \/ BeginDeleteAliasDestination(r, x, d)
  \/ \E address \in Addresses : BeginCreateDestination(r, address)
  \/ \E d \in Destination : BeginDeleteDestination(r, d)

\* Whatever a handler begins has an argument of its operation's kind, and is
\* decided by what it reads.
LEMMA Begins ==
  ASSUME NEW r \in Requests, BeginStep(r)
  PROVE  \E op \in Ops : \E arg \in ArgOf(op) :
           Begin(r, op, arg) /\ Stands(AccountOf[r], op, arg)
<1> DEFINE Done == \E op \in Ops : \E arg \in ArgOf(op) :
                     Begin(r, op, arg) /\ Stands(AccountOf[r], op, arg)
<1>1. ASSUME NEW n \in Names, BeginCreateDomain(r, n)
      PROVE  Done
  BY <1>1, ArgKinds DEF BeginCreateDomain, Stands
<1>2. ASSUME NEW n \in Names, BeginDeleteDomain(r, n)
      PROVE  Done
  BY <1>2, ArgKinds DEF BeginDeleteDomain, Stands
<1>3. ASSUME NEW n \in Names, CheckVerifyCode(r, n)
      PROVE  Done
  BY <1>3, ArgKinds DEF CheckVerifyCode, Stands
<1>4. ASSUME NEW n \in Names, BeginCheckRecords(r, n)
      PROVE  Done
  BY <1>4, ArgKinds DEF BeginCheckRecords, Stands
<1>5. ASSUME NEW x \in Alias, BeginDeleteAlias(r, x)
      PROVE  Done
  BY <1>5, ArgKinds DEF BeginDeleteAlias, Stands
<1>6. ASSUME NEW x \in Alias, NEW d \in Destination, BeginCreateAlias(r, x, d)
      PROVE  Done
  <2>1. Begin(r, "createAlias", <<x, d>>) /\ Stands(AccountOf[r], "createAlias", <<x, d>>)
    BY <1>6 DEF BeginCreateAlias, Stands
  <2> QED
    BY <2>1, ArgKinds
<1>7. ASSUME NEW x \in Alias, NEW d \in Destination,
             BeginCreateAliasDestination(r, x, d) \/ BeginDeleteAliasDestination(r, x, d)
      PROVE  Done
  <2>1. PICK op \in {"attach", "detach"} : Begin(r, op, <<x, d>>)
    BY <1>7 DEF BeginCreateAliasDestination, BeginDeleteAliasDestination
  <2>2. x \in LiveAliasesOf(AccountOf[r]) /\ d \in LiveDestsOf(AccountOf[r])
    BY <1>7 DEF BeginCreateAliasDestination, BeginDeleteAliasDestination
  <2>3. Stands(AccountOf[r], op, <<x, d>>)
    BY <2>1, <2>2 DEF Stands
  <2>4. op \in Ops /\ <<x, d>> \in ArgOf(op)
    BY <2>1, ArgKinds
  <2> QED
    BY <2>1, <2>3, <2>4
<1>8. ASSUME NEW address \in Addresses, BeginCreateDestination(r, address)
      PROVE  Done
  <2>1. <<AccountOf[r], address>> \in Destination
    BY DirectoryAssumption DEF Destination
  <2> QED
    BY <1>8, <2>1, ArgKinds DEF BeginCreateDestination, Stands
<1>9. ASSUME NEW d \in Destination, BeginDeleteDestination(r, d)
      PROVE  Done
  BY <1>9, ArgKinds DEF BeginDeleteDestination, Stands
<1> QED
  BY <1>1, <1>2, <1>3, <1>4, <1>5, <1>6, <1>7, <1>8, <1>9 DEF BeginStep

\* The writes of a handler.
CommitStep(r) ==
  \/ CreateDomain(r) \/ DeleteDomain(r) \/ Verify(r) \/ CheckRecords(r)
  \/ CreateAlias(r) \/ CreateAliasDestination(r) \/ DeleteAliasDestination(r)
  \/ DeleteAlias(r) \/ CreateDestination(r) \/ DeleteDestination(r)

\* The four kinds of step.
LEMMA Steps ==
  ASSUME [Next]_vars
  PROVE  \/ \E r \in Requests : BeginStep(r) \/ CommitStep(r) \/ Rollback(r)
         \/ \E n \in Names : Environment(n)
         \/ UNCHANGED vars
BY DEF Next, DomainStep, AliasStep, DestinationStep, BeginStep, CommitStep

\* Commits of operations on domains keep the types.
LEMMA DomainType ==
  ASSUME TypeOK, NEW r \in Requests,
         CreateDomain(r) \/ DeleteDomain(r) \/ Verify(r) \/ CheckRecords(r)
  PROVE  TypeOK'
<1> DEFINE n == request[r].arg
<1>1. /\ n \in Names /\ request' \in [Requests -> Request]
      /\ overtaken' \subseteq Requests /\ torn' \subseteq Accounts
  BY ArgAtCommit, ArgKinds DEF CreateDomain, DeleteDomain, Verify, CheckRecords
<1> HIDE DEF n
<1>2. CASE CreateDomain(r)
  <2>1. AccountOf[r] \in Accounts /\ AccountOf[r] # Nil /\ made + 1 \in Nat
    BY DirectoryAssumption DEF TypeOK
  <2> QED
    BY <1>1, <1>2, <2>1 DEF CreateDomain, TypeOK, n
<1>3. CASE DeleteDomain(r)
  BY <1>1, <1>3 DEF DeleteDomain, TypeOK, n
<1>4. CASE Verify(r)
  BY <1>1, <1>4 DEF Verify, TypeOK, n
<1>5. CASE CheckRecords(r)
  BY <1>1, <1>5 DEF CheckRecords, TypeOK, n
<1> QED
  BY <1>2, <1>3, <1>4, <1>5

\* Commits of operations on aliases, links and destinations keep the types.
LEMMA AliasType ==
  ASSUME TypeOK, NEW r \in Requests,
         \/ CreateAlias(r) \/ CreateAliasDestination(r) \/ DeleteAliasDestination(r)
         \/ DeleteAlias(r) \/ CreateDestination(r) \/ DeleteDestination(r)
  PROVE  TypeOK'
<1> DEFINE a == request[r].arg
<1>1. CASE CreateAlias(r)
  <2>1. /\ a \in Alias \X Destination /\ request' \in [Requests -> Request]
        /\ overtaken' \subseteq Requests /\ torn' \subseteq Accounts
    BY <1>1, ArgAtCommit, ArgKinds DEF CreateAlias
  <2>2. a[1] \in Alias /\ a[1][1] \in Names
    BY <2>1 DEF Alias
  <2> HIDE DEF a
  <2> QED
    BY <1>1, <2>1, <2>2 DEF CreateAlias, TypeOK, a
<1>2. CASE CreateAliasDestination(r) \/ DeleteAliasDestination(r)
  <2>1. /\ a \in Alias \X Destination /\ request' \in [Requests -> Request]
        /\ overtaken' \subseteq Requests /\ torn' \subseteq Accounts
    BY <1>2, ArgAtCommit, ArgKinds DEF CreateAliasDestination, DeleteAliasDestination
  <2> HIDE DEF a
  <2> QED
    BY <1>2, <2>1 DEF CreateAliasDestination, DeleteAliasDestination, TypeOK, domainVars, a
<1>3. CASE DeleteAlias(r)
  <2>1. /\ request' \in [Requests -> Request]
        /\ overtaken' \subseteq Requests /\ torn' \subseteq Accounts
    BY <1>3, ArgAtCommit, ArgKinds DEF DeleteAlias
  <2> QED
    BY <1>3, <2>1 DEF DeleteAlias, TypeOK, domainVars
<1>4. CASE CreateDestination(r) \/ DeleteDestination(r)
  <2>1. /\ a \in Destination /\ request' \in [Requests -> Request]
        /\ overtaken' \subseteq Requests /\ torn' \subseteq Accounts
    BY <1>4, ArgAtCommit, ArgKinds DEF CreateDestination, DeleteDestination
  <2> HIDE DEF a
  <2> QED
    BY <1>4, <2>1 DEF CreateDestination, DeleteDestination, TypeOK, domainVars, a
<1> QED
  BY <1>1, <1>2, <1>3, <1>4

\* Every step keeps the types.
LEMMA TypeStep == TypeOK /\ [Next]_vars => TypeOK'
<1> SUFFICES ASSUME TypeOK, [Next]_vars
             PROVE  TypeOK'
  OBVIOUS
<1>1. ASSUME NEW n \in Names, Environment(n)
      PROVE  TypeOK'
  <2>1. CASE PublishCode(n)
    BY <1>1, <2>1 DEF PublishCode, TypeOK, domainVars, races
  <2>2. CASE RecordsAge(n)
    BY <1>1, <2>2 DEF RecordsAge, TypeOK, races
  <2>3. CASE dkimSign(n)
    <3>1. signed' \subseteq Names \X Nat
      BY <1>1, <2>3 DEF dkimSign, TypeOK
    <3> QED
      BY <2>3, <3>1 DEF dkimSign, TypeOK, domainVars, races
  <2> QED
    BY <1>1, <2>1, <2>2, <2>3 DEF Environment
<1>2. ASSUME NEW r \in Requests, BeginStep(r)
      PROVE  TypeOK'
  BY <1>2, Begins, BeginType
<1>3. ASSUME NEW r \in Requests, Rollback(r)
      PROVE  TypeOK'
  BY <1>3, ArgKinds DEF Rollback, TypeOK, domainVars
<1>4. CASE UNCHANGED vars
  BY <1>4 DEF vars, TypeOK, domainVars, races
<1> QED
  BY <1>1, <1>2, <1>3, <1>4, DomainType, AliasType
     DEF Next, DomainStep, AliasStep, DestinationStep, BeginStep

\* Rows have their types, requests carry arguments of their operation, and a
\* live domain has an owner, for any number of parallel requests
\* (internal/account, internal/controlpanel).
THEOREM TypeCorrect == Spec => []TypeOK
<1>1. Init => TypeOK
  BY ArgKinds DEF Init, TypeOK
<1> QED
  BY <1>1, TypeStep, PTL DEF Spec

-----------------------------------------------------------------------------
(* Accounts stay apart.                                                    *)

\* The rows that op and arg are about are account a's: row level security
\* showed them to its handler.
Owns(a, op, arg) ==
  /\ op \in {"deleteDomain", "verify", "checkRecords"} => owner[arg] = a
  /\ op \in {"createAlias", "attach", "detach"} => owner[arg[1][1]] = a /\ arg[2][1] = a
  /\ op = "deleteAlias" => owner[arg[1]] = a
  /\ op \in {"createDestination", "deleteDestination"} => arg[1] = a

RequestOwn == \A r \in Requests : Owns(AccountOf[r], request[r].op, request[r].arg)

\* A live alias is one of a domain that has an owner.
AliasesOwned == \A x \in aliases : owner[x[1]] # Nil

\* The inductive invariant.
OwnInv == OwnDestinations /\ RequestOwn /\ AliasesOwned

\* What a handler reads is its account's.
LEMMA StandsOwn ==
  ASSUME NEW a, NEW op, NEW arg, Stands(a, op, arg)
  PROVE  Owns(a, op, arg)
BY DEF Stands, Owns, LiveDomainsOf, LiveAliasesOf, LiveDestsOf

\* A name never changes hands: CreateDomain revives a row of its own account only.
LEMMA OwnerStays ==
  ASSUME TypeOK, [Next]_vars, NEW n \in Names, owner[n] # Nil
  PROVE  owner'[n] = owner[n]
<1>1. ASSUME NEW r \in Requests, CreateDomain(r)
      PROVE  owner'[n] = owner[n]
  BY <1>1 DEF CreateDomain, TypeOK
<1>2. ASSUME NEW r \in Requests, BeginStep(r)
      PROVE  owner' = owner
  BY <1>2, Begins DEF Begin, domainVars
<1>3. ASSUME NEW r \in Requests,
             \/ DeleteDomain(r) \/ Verify(r) \/ CheckRecords(r) \/ CreateAlias(r)
             \/ CreateAliasDestination(r) \/ DeleteAliasDestination(r) \/ DeleteAlias(r)
             \/ CreateDestination(r) \/ DeleteDestination(r) \/ Rollback(r)
      PROVE  owner' = owner
  BY <1>3 DEF DeleteDomain, Verify, CheckRecords, CreateAlias, CreateAliasDestination,
     DeleteAliasDestination, DeleteAlias, CreateDestination, DeleteDestination,
     Rollback, domainVars
<1>4. ASSUME NEW k \in Names, Environment(k)
      PROVE  owner' = owner
  BY <1>4 DEF Environment, PublishCode, RecordsAge, dkimSign, domainVars
<1>5. CASE UNCHANGED vars
  BY <1>5 DEF vars, domainVars
<1> QED
  BY <1>1, <1>2, <1>3, <1>4, <1>5 DEF Next, DomainStep, AliasStep, DestinationStep,
     BeginStep

\* A request's rows stay its account's.
LEMMA OwnsStay ==
  ASSUME TypeOK, [Next]_vars, NEW a \in Accounts, NEW q \in Request, Owns(a, q.op, q.arg)
  PROVE  Owns(a, q.op, q.arg)'
<1>0. q.op \in Ops /\ q.arg \in ArgOf(q.op) /\ a # Nil
  BY RequestFields, DirectoryAssumption
<1>1. q.op \in {"deleteDomain", "verify", "checkRecords"} => q.arg \in Names
  BY <1>0, ArgKinds
<1>2. q.op \in {"createAlias", "attach", "detach"} => q.arg[1][1] \in Names
  BY <1>0, ArgKinds DEF Alias
<1>3. q.op = "deleteAlias" => q.arg[1] \in Names
  BY <1>0, ArgKinds DEF Alias
<1>4. \A n \in Names : owner[n] = a => owner'[n] = a
  BY <1>0, OwnerStays
<1> QED
  BY <1>1, <1>2, <1>3, <1>4 DEF Owns

\* A step adds a link or an alias only by committing a request that carries it.
LEMMA NewLink ==
  ASSUME [Next]_vars
  PROVE  /\ \A l \in links' \ links : \E r \in Requests :
              request[r].op \in {"createAlias", "attach"} /\ l = request[r].arg
         /\ \A x \in aliases' \ aliases : \E r \in Requests :
              request[r].op = "createAlias" /\ x = request[r].arg[1]
<1>1. ASSUME NEW r \in Requests, CreateAlias(r)
      PROVE  /\ request[r].op = "createAlias" /\ links' = links \cup {request[r].arg}
             /\ aliases' = aliases \cup {request[r].arg[1]}
  BY <1>1 DEF CreateAlias, Commit
<1>2. ASSUME NEW r \in Requests, CreateAliasDestination(r)
      PROVE  /\ request[r].op = "attach" /\ links' = links \cup {request[r].arg}
             /\ aliases' = aliases
  BY <1>2 DEF CreateAliasDestination, Commit
<1>3. ASSUME NEW r \in Requests, BeginStep(r)
      PROVE  UNCHANGED <<links, aliases>>
  BY <1>3, Begins DEF Begin
<1>4. ASSUME NEW r \in Requests, CommitStep(r) \/ Rollback(r), ~CreateAlias(r),
             ~CreateAliasDestination(r)
      PROVE  links' \subseteq links /\ aliases' \subseteq aliases
  BY <1>4 DEF CommitStep, CreateDomain, DeleteDomain, Verify, CheckRecords,
     DeleteAliasDestination, DeleteAlias, CreateDestination, DeleteDestination, Rollback
<1>5. ASSUME NEW k \in Names, Environment(k)
      PROVE  UNCHANGED <<links, aliases>>
  BY <1>5 DEF Environment, PublishCode, RecordsAge, dkimSign
<1>6. UNCHANGED vars => UNCHANGED <<links, aliases>>
  BY DEF vars
<1>7. CASE \E r \in Requests : CreateAlias(r)
  BY <1>1, <1>7
<1>8. CASE \E r \in Requests : CreateAliasDestination(r)
  BY <1>2, <1>8
<1>9. CASE links' \subseteq links /\ aliases' \subseteq aliases
  BY <1>9
<1> QED
  BY <1>3, <1>4, <1>5, <1>6, <1>7, <1>8, <1>9, Steps

\* The requests that a step does not end or begin are as they were.
LEMMA RequestsStay ==
  ASSUME NEW r \in Requests
  PROVE  /\ CommitStep(r) \/ Rollback(r) => request' = [request EXCEPT ![r] = Idle]
         /\ \A op, arg : Begin(r, op, arg) =>
              request' = [request EXCEPT ![r] = [op |-> op, arg |-> arg]]
<1>1. CommitStep(r) => request' = [request EXCEPT ![r] = Idle]
  BY DEF CommitStep, CreateDomain, DeleteDomain, Verify, CheckRecords, CreateAlias,
     CreateAliasDestination, DeleteAliasDestination, DeleteAlias, CreateDestination,
     DeleteDestination, Commit
<1> QED
  BY <1>1 DEF Rollback, Begin

\* After a step a request is as before, idle, or newly begun on what its
\* handler read.
LEMMA NewRequest ==
  ASSUME TypeOK, [Next]_vars, NEW r \in Requests
  PROVE  \/ request'[r] = request[r]
         \/ request'[r] = Idle
         \/ \E op \in Ops : \E arg \in ArgOf(op) :
              /\ Begin(r, op, arg) /\ Stands(AccountOf[r], op, arg)
              /\ request'[r] = [op |-> op, arg |-> arg]
<1> DEFINE Begun == \E op \in Ops : \E arg \in ArgOf(op) :
                      /\ Begin(r, op, arg) /\ Stands(AccountOf[r], op, arg)
                      /\ request'[r] = [op |-> op, arg |-> arg]
<1>1. ASSUME NEW k \in Requests, BeginStep(k)
      PROVE  request'[r] = request[r] \/ Begun
  <2>1. PICK op \in Ops : \E arg \in ArgOf(op) : Begin(k, op, arg) /\ Stands(AccountOf[k], op, arg)
    BY <1>1, Begins
  <2>2. PICK arg \in ArgOf(op) : Begin(k, op, arg) /\ Stands(AccountOf[k], op, arg)
    BY <2>1
  <2>3. request' = [request EXCEPT ![k] = [op |-> op, arg |-> arg]]
    BY <2>2 DEF Begin
  <2>4. CASE k # r
    BY <2>3, <2>4 DEF TypeOK
  <2>5. CASE k = r
    <3>1. request'[r] = [op |-> op, arg |-> arg]
      BY <2>3, <2>5 DEF TypeOK
    <3> QED
      BY <2>2, <2>5, <3>1
  <2> QED
    BY <2>4, <2>5
<1>2. ASSUME NEW k \in Requests, CommitStep(k) \/ Rollback(k)
      PROVE  request'[r] \in {request[r], Idle}
  <2>1. request' = [request EXCEPT ![k] = Idle]
    BY <1>2, RequestsStay
  <2> QED
    BY <2>1 DEF TypeOK
<1>3. ASSUME NEW n \in Names, Environment(n)
      PROVE  request' = request
  BY <1>3 DEF Environment, PublishCode, RecordsAge, dkimSign
<1>4. UNCHANGED vars => request' = request
  BY DEF vars
<1> QED
  BY <1>1, <1>2, <1>3, <1>4, Steps

\* Every step keeps accounts apart.
LEMMA OwnStep ==
  ASSUME TypeOK, TypeOK', OwnInv, [Next]_vars
  PROVE  OwnInv'
<1> USE DEF OwnInv
<1>1. ASSUME NEW r \in Requests, request[r].op \in {"createAlias", "attach"}
      PROVE  /\ request[r].arg[1][1] \in Names
             /\ owner[request[r].arg[1][1]] = AccountOf[r]
             /\ request[r].arg[2][1] = AccountOf[r]
             /\ AccountOf[r] # Nil
  <2>1. request[r].arg \in ArgOf(request[r].op)
    BY RequestFields DEF TypeOK
  <2>2. request[r].arg \in Alias \X Destination
    BY <1>1, <2>1, ArgKinds
  <2>3. request[r].arg[1][1] \in Names
    BY <2>2 DEF Alias
  <2>4. AccountOf[r] # Nil
    BY DirectoryAssumption
  <2> QED
    BY <1>1, <2>2, <2>3, <2>4 DEF RequestOwn, Owns
<1>2. ASSUME NEW l \in links'
      PROVE  owner'[l[1][1]] = l[2][1]
  <2>1. l[1][1] \in Names /\ l[2][1] \in Accounts
    BY <1>2 DEF TypeOK, Alias, Destination
  <2>2. owner[l[1][1]] = l[2][1]
    <3>1. CASE l \in links
      BY <3>1 DEF OwnDestinations
    <3>2. CASE l \notin links
      BY <1>1, <1>2, <3>2, NewLink
    <3> QED
      BY <3>1, <3>2
  <2> QED
    BY <2>1, <2>2, OwnerStays, DirectoryAssumption
<1>3. ASSUME NEW x \in aliases'
      PROVE  owner'[x[1]] # Nil
  <2>1. x[1] \in Names
    BY <1>3 DEF TypeOK, Alias
  <2>2. owner[x[1]] # Nil
    <3>1. CASE x \in aliases
      BY <3>1 DEF AliasesOwned
    <3>2. CASE x \notin aliases
      BY <1>1, <1>3, <3>2, NewLink
    <3> QED
      BY <3>1, <3>2
  <2> QED
    BY <2>1, <2>2, OwnerStays
<1>4. ASSUME NEW r \in Requests
      PROVE  Owns(AccountOf[r], request[r].op, request[r].arg)'
  <2>0. AccountOf[r] \in Accounts /\ request[r] \in Request /\ request'[r] \in Request
    BY DirectoryAssumption DEF TypeOK
  <2>1. CASE request'[r] = request[r]
    <3>1. PICK q \in Request : q = request[r]
      BY <2>0
    <3>2. Owns(AccountOf[r], q.op, q.arg)'
      BY <2>0, <3>1, OwnsStay DEF RequestOwn
    <3> QED
      BY <2>1, <3>1, <3>2
  <2>2. CASE request'[r] = Idle
    <3>1. Owns(AccountOf[r], Idle.op, Idle.arg)'
      BY DEF Owns, Idle
    <3> QED
      BY <2>2, <3>1
  <2>3. ASSUME NEW op \in Ops, NEW arg \in ArgOf(op), Stands(AccountOf[r], op, arg),
               request'[r] = [op |-> op, arg |-> arg]
        PROVE  Owns(AccountOf[r], request[r].op, request[r].arg)'
    <3>1. PICK q \in Request : q = request'[r]
      BY <2>0
    <3>2. q.op = op /\ q.arg = arg
      BY <2>3, <3>1
    <3>3. Owns(AccountOf[r], q.op, q.arg)
      BY <2>3, <3>2, StandsOwn
    <3>4. Owns(AccountOf[r], q.op, q.arg)'
      BY <2>0, <3>3, OwnsStay
    <3> QED
      BY <3>1, <3>4
  <2> QED
    BY <2>1, <2>2, <2>3, NewRequest
<1> QED
  BY <1>2, <1>3, <1>4 DEF OwnDestinations, AliasesOwned, RequestOwn

\* It holds of the empty directory.
LEMMA InitOwn == Init => TypeOK /\ OwnInv
<1> SUFFICES ASSUME Init PROVE TypeOK /\ OwnInv
  OBVIOUS
<1>1. TypeOK
  BY ArgKinds DEF Init, TypeOK
<1>2. OwnInv
  BY DEF Init, OwnInv, OwnDestinations, AliasesOwned, RequestOwn, Owns, Idle
<1> QED
  BY <1>1, <1>2

\* An alias never forwards to another account's destination, however many
\* requests of however many accounts interleave, deletes and revivals included:
\* handlers see only their account's rows, and a name never changes hands.
THEOREM OwnCorrect == Spec => []OwnDestinations
<1>1. OwnInv => OwnDestinations
  BY DEF OwnInv
<1>2. TypeOK /\ OwnInv /\ [Next]_vars => TypeOK' /\ OwnInv'
  BY TypeStep, OwnStep
<1> QED
  BY <1>1, <1>2, InitOwn, PTL DEF Spec

-----------------------------------------------------------------------------
(* Handlers lock nothing between their reads and their writes.  What a      *)
(* handler read can change under it only by another handler of its account. *)

\* Whatever a running handler read is still so, unless it was overtaken.
DecisionsStand ==
  \A r \in Requests \ overtaken : Stands(AccountOf[r], request[r].op, request[r].arg)

\* The step leaves account a's rows as they were, but for 24 hours that pass
\* and a CNAME that is published.
Same(a) ==
  /\ LiveDomainsOf(a)' = LiveDomainsOf(a)
  /\ LiveAliasesOf(a)' = LiveAliasesOf(a)
  /\ LiveDestsOf(a)' = LiveDestsOf(a)
  /\ \A n \in Names : owner[n] = a =>
       /\ n \in verified' <=> n \in verified
       /\ code'[n] = code[n]
       /\ liveKeys'[n] = liveKeys[n]
       /\ checked'[n] = checked[n] \/ (checked[n] = "fresh" /\ checked'[n] = "stale")
  /\ dns \subseteq dns'

\* An account's rows are the same if each of them is.
LEMMA SameRows ==
  ASSUME TypeOK, TypeOK', NEW a \in Accounts, dns \subseteq dns',
         \A n \in Names : owner'[n] = a <=> owner[n] = a,
         \A n \in Names : owner[n] = a =>
           /\ n \in live' <=> n \in live
           /\ n \in verified' <=> n \in verified
           /\ code'[n] = code[n] /\ liveKeys'[n] = liveKeys[n]
           /\ checked'[n] = checked[n] \/ (checked[n] = "fresh" /\ checked'[n] = "stale"),
         \A x \in Alias : owner[x[1]] = a => (x \in aliases' <=> x \in aliases),
         \A d \in Destination : d[1] = a => (d \in dests' <=> d \in dests)
  PROVE  Same(a)
<1>1. LiveDomainsOf(a)' = LiveDomainsOf(a)
  BY DEF LiveDomainsOf, TypeOK
<1>2. LiveAliasesOf(a)' = LiveAliasesOf(a)
  <2>1. \A x \in Alias : x[1] \in Names
    BY DEF Alias
  <2> QED
    BY <2>1 DEF LiveAliasesOf, TypeOK
<1>3. LiveDestsOf(a)' = LiveDestsOf(a)
  BY DEF LiveDestsOf, TypeOK
<1> QED
  BY <1>1, <1>2, <1>3 DEF Same

\* What a handler read of its account still holds if the account's rows are
\* the same.
LEMMA SameStands ==
  ASSUME TypeOK, NEW a \in Accounts, NEW q \in Request, Same(a),
         Stands(a, q.op, q.arg)
  PROVE  Stands(a, q.op, q.arg)'
<1>0. q.op \in Ops /\ q.arg \in ArgOf(q.op)
  BY RequestFields
<1> DEFINE op == q.op
           arg == q.arg
<1>1. LiveDomainsOf(a)' = LiveDomainsOf(a) /\ LiveAliasesOf(a)' = LiveAliasesOf(a)
      /\ LiveDestsOf(a)' = LiveDestsOf(a) /\ dns \subseteq dns'
  BY DEF Same
<1>2. ASSUME NEW n \in LiveDomainsOf(a)
      PROVE  /\ n \in LiveDomainsOf(a)' /\ n \in live'
             /\ n \in verified' <=> n \in verified
             /\ code'[n] = code[n] /\ liveKeys'[n] = liveKeys[n]
             /\ checked[n] # "fresh" => checked'[n] # "fresh"
             /\ IsComplete(n) => IsComplete(n)'
  <2>1. n \in Names /\ owner[n] = a /\ n \in live'
    BY <1>1 DEF LiveDomainsOf, TypeOK
  <2>2. /\ n \in verified' <=> n \in verified
        /\ code'[n] = code[n] /\ liveKeys'[n] = liveKeys[n]
        /\ checked'[n] = checked[n] \/ (checked[n] = "fresh" /\ checked'[n] = "stale")
    BY <2>1 DEF Same
  <2> QED
    BY <1>1, <2>1, <2>2 DEF IsComplete
<1>3. aclDomainCreateCheck(a) => aclDomainCreateCheck(a)'
  BY <1>1 DEF aclDomainCreateCheck
<1>4. aclAliasCreateCheck(a) => aclAliasCreateCheck(a)'
  BY <1>1 DEF aclAliasCreateCheck
<1>5. aclDestinationCreateCheck(a) => aclDestinationCreateCheck(a)'
  BY <1>1 DEF aclDestinationCreateCheck
<1>6. op = "deleteAlias" => arg[1] \in live'
  <2> SUFFICES ASSUME op = "deleteAlias" PROVE arg[1] \in live'
    OBVIOUS
  <2>1. arg \in LiveAliasesOf(a) /\ arg[1] \in live
    BY DEF Stands
  <2>2. arg[1] \in LiveDomainsOf(a)
    BY <2>1 DEF LiveAliasesOf, LiveDomainsOf
  <2> QED
    BY <1>2, <2>2
<1> HIDE DEF op, arg
<1>7. Stands(a, op, arg)
  BY DEF op, arg
<1>8. Stands(a, op, arg)'
  BY <1>1, <1>2, <1>3, <1>4, <1>5, <1>6, <1>7 DEF Stands
<1> QED
  BY <1>8 DEF op, arg

\* A handler that commits had its rows, and unless it was overtaken its
\* decision; if it was, its account is torn.
LEMMA CommitStands ==
  ASSUME TypeOK, RequestOwn, DecisionsStand, NEW r \in Requests, NEW op \in Ops, Commit(r, op)
  PROVE  /\ request[r].arg \in ArgOf(op)
         /\ Owns(AccountOf[r], op, request[r].arg)
         /\ AccountOf[r] \notin torn' => Stands(AccountOf[r], op, request[r].arg)
<1>1. request[r].op = op
  BY DEF Commit
<1>2. Owns(AccountOf[r], op, request[r].arg)
  BY <1>1 DEF RequestOwn
<1>3. AccountOf[r] \notin torn' => Stands(AccountOf[r], op, request[r].arg)
  BY <1>1 DEF DecisionsStand, Commit
<1> QED
  BY <1>2, <1>3, ArgAtCommit

\* Row level security: a handler's writes do not touch another account's rows.
LEMMA Apart ==
  ASSUME TypeOK, TypeOK', RequestOwn, DecisionsStand, NEW r \in Requests, CommitStep(r),
         NEW a \in Accounts, a # AccountOf[r]
  PROVE  Same(a)
<1> DEFINE arg == request[r].arg
<1>0. AccountOf[r] \in Accounts /\ AccountOf[r] # Nil /\ a # Nil
  BY DirectoryAssumption
<1>1. CASE CreateDomain(r)
  <2>1. arg \in Names
    BY <1>1, CommitStands, ArgKinds DEF CreateDomain
  <2>2. /\ owner[arg] # a
        /\ owner' = [owner EXCEPT ![arg] = AccountOf[r]]
        /\ live' = live \cup {arg} /\ verified' = verified \ {arg}
        /\ code' = [code EXCEPT ![arg] = made + 1]
        /\ liveKeys' = [liveKeys EXCEPT ![arg] = @ \cup {made + 1}]
        /\ checked' = [checked EXCEPT ![arg] = "new"]
        /\ UNCHANGED <<aliases, dests, dns>>
    BY <1>0, <1>1 DEF CreateDomain
  <2> HIDE DEF arg
  <2>3. \A n \in Names : n # arg =>
          /\ owner'[n] = owner[n] /\ n \in live' <=> n \in live
          /\ n \in verified' <=> n \in verified
          /\ code'[n] = code[n] /\ liveKeys'[n] = liveKeys[n] /\ checked'[n] = checked[n]
    BY <2>1, <2>2 DEF TypeOK
  <2>4. owner'[arg] # a
    BY <2>1, <2>2 DEF TypeOK
  <2> QED
    BY <2>2, <2>3, <2>4, SameRows
<1>2. CASE DeleteDomain(r)
  <2>1. arg \in Names /\ owner[arg] # a
    BY <1>2, CommitStands, ArgKinds DEF DeleteDomain, Owns
  <2>2. /\ liveKeys' = [liveKeys EXCEPT ![arg] = {}]
        /\ aliases' = {x \in aliases : x[1] # arg}
        /\ live' = live \ {arg}
        /\ UNCHANGED <<owner, verified, code, checked, dests, dns>>
    BY <1>2 DEF DeleteDomain
  <2> HIDE DEF arg
  <2>3. \A n \in Names : n # arg =>
          /\ n \in live' <=> n \in live
          /\ liveKeys'[n] = liveKeys[n]
    BY <2>1, <2>2 DEF TypeOK
  <2>4. \A x \in Alias : owner[x[1]] = a => (x \in aliases' <=> x \in aliases)
    BY <2>1, <2>2
  <2> QED
    BY <2>1, <2>2, <2>3, <2>4, SameRows
<1>3. CASE Verify(r) \/ CheckRecords(r)
  <2>0. PICK op \in {"verify", "checkRecords"} : Commit(r, op)
    BY <1>3 DEF Verify, CheckRecords
  <2>1. arg \in Names /\ owner[arg] # a
    <3>1. Owns(AccountOf[r], op, arg) /\ arg \in Names
      BY <2>0, CommitStands, ArgKinds
    <3> QED
      BY <2>0, <3>1 DEF Owns
  <2>2. /\ verified' \in {verified, verified \cup {arg}}
        /\ checked' \in {checked, [checked EXCEPT ![arg] = "fresh"]}
        /\ UNCHANGED <<owner, live, code, liveKeys, aliases, dests, dns>>
    BY <1>3 DEF Verify, CheckRecords
  <2> HIDE DEF arg
  <2>3. \A n \in Names : n # arg =>
          /\ n \in verified' <=> n \in verified
          /\ checked'[n] = checked[n]
    BY <2>1, <2>2 DEF TypeOK
  <2> QED
    BY <2>1, <2>2, <2>3, SameRows
<1>4. CASE CreateAlias(r)
  <2>1. arg \in Alias \X Destination /\ owner[arg[1][1]] # a
    BY <1>4, CommitStands, ArgKinds DEF CreateAlias, Owns
  <2>2. /\ aliases' = aliases \cup {arg[1]}
        /\ checked' = [checked EXCEPT ![arg[1][1]] = "fresh"]
        /\ UNCHANGED <<owner, live, verified, code, liveKeys, dests, dns>>
    BY <1>4 DEF CreateAlias
  <2>3. arg[1] \in Alias /\ arg[1][1] \in Names
    BY <2>1 DEF Alias
  <2> HIDE DEF arg
  <2>4. \A n \in Names : n # arg[1][1] => checked'[n] = checked[n]
    BY <2>2, <2>3 DEF TypeOK
  <2>5. \A x \in Alias : owner[x[1]] = a => (x \in aliases' <=> x \in aliases)
    BY <2>1, <2>2
  <2> QED
    BY <2>1, <2>2, <2>4, <2>5, SameRows
<1>5. CASE CreateAliasDestination(r) \/ DeleteAliasDestination(r)
  BY <1>5, SameRows DEF CreateAliasDestination, DeleteAliasDestination, domainVars
<1>6. CASE DeleteAlias(r)
  <2>1. owner[arg[1]] # a
    BY <1>6, CommitStands, ArgKinds DEF DeleteAlias, Owns
  <2>2. aliases' = aliases \ {arg} /\ UNCHANGED <<domainVars, dests, dns>>
    BY <1>6 DEF DeleteAlias
  <2> HIDE DEF arg
  <2>3. \A x \in Alias : owner[x[1]] = a => (x \in aliases' <=> x \in aliases)
    BY <2>1, <2>2
  <2> QED
    BY <2>2, <2>3, SameRows DEF domainVars
<1>7. CASE CreateDestination(r) \/ DeleteDestination(r)
  <2>1. arg[1] # a
    BY <1>7, CommitStands, ArgKinds DEF CreateDestination, DeleteDestination, Owns
  <2>2. dests' \in {dests \cup {arg}, dests \ {arg}} /\ UNCHANGED <<domainVars, aliases, dns>>
    BY <1>7 DEF CreateDestination, DeleteDestination
  <2> HIDE DEF arg
  <2>3. \A d \in Destination : d[1] = a => (d \in dests' <=> d \in dests)
    BY <2>1, <2>2
  <2> QED
    BY <2>2, <2>3, SameRows DEF domainVars
<1> QED
  BY <1>1, <1>2, <1>3, <1>4, <1>5, <1>6, <1>7 DEF CommitStep

\* Handlers that only read, failed ones, the owners' DNS and time leave
\* everybody's rows alone.
LEMMA QuietSame ==
  ASSUME TypeOK, TypeOK', NEW a \in Accounts,
         \/ \E r \in Requests : BeginStep(r) \/ Rollback(r)
         \/ \E n \in Names : Environment(n)
         \/ UNCHANGED vars
  PROVE  Same(a)
<1>1. CASE UNCHANGED <<domainVars, aliases, dests, dns>>
  BY <1>1, SameRows DEF domainVars
<1>2. ASSUME NEW r \in Requests, BeginStep(r) \/ Rollback(r)
      PROVE  UNCHANGED <<domainVars, aliases, dests, dns>>
  BY <1>2, Begins DEF Begin, Rollback
<1>3. ASSUME NEW n \in Names, PublishCode(n)
      PROVE  Same(a)
  BY <1>3, SameRows DEF PublishCode, domainVars
<1>4. ASSUME NEW n \in Names, RecordsAge(n)
      PROVE  Same(a)
  <2>1. \A k \in Names : \/ checked'[k] = checked[k]
                         \/ checked[k] = "fresh" /\ checked'[k] = "stale"
    BY <1>4 DEF RecordsAge, TypeOK
  <2> QED
    BY <1>4, <2>1, SameRows DEF RecordsAge
<1>5. ASSUME NEW n \in Names, dkimSign(n)
      PROVE  UNCHANGED <<domainVars, aliases, dests, dns>>
  BY <1>5 DEF dkimSign
<1>6. CASE UNCHANGED vars
  BY <1>1, <1>6 DEF vars
<1> QED
  BY <1>1, <1>2, <1>3, <1>4, <1>5, <1>6 DEF Environment

\* How a step changes who is overtaken and which accounts are torn.
LEMMA RaceStep ==
  ASSUME TypeOK, [Next]_vars
  PROVE  /\ torn \subseteq torn'
         /\ \/ \E r \in Requests : CommitStep(r)
            \/ /\ torn' = torn
               /\ \A r \in Requests : r \in overtaken \ overtaken' => request'[r] = Idle
<1>1. ASSUME NEW r \in Requests, BeginStep(r)
      PROVE  UNCHANGED races
  BY <1>1, Begins DEF Begin
<1>2. ASSUME NEW n \in Names, Environment(n)
      PROVE  UNCHANGED races
  BY <1>2 DEF Environment, PublishCode, RecordsAge, dkimSign
<1>3. ASSUME NEW r \in Requests, CommitStep(r)
      PROVE  torn \subseteq torn'
  BY <1>3 DEF CommitStep, CreateDomain, DeleteDomain, Verify, CheckRecords, CreateAlias,
     CreateAliasDestination, DeleteAliasDestination, DeleteAlias, CreateDestination,
     DeleteDestination, Commit
<1>4. ASSUME NEW r \in Requests, Rollback(r)
      PROVE  /\ torn' = torn
             /\ \A k \in Requests : k \in overtaken \ overtaken' => request'[k] = Idle
  <2>1. overtaken' = overtaken \ {r} /\ torn' = torn /\ request'[r] = Idle
    BY <1>4 DEF Rollback, TypeOK
  <2> QED
    BY <2>1
<1>5. UNCHANGED vars => UNCHANGED races
  BY DEF vars
<1> QED
  BY <1>1, <1>2, <1>3, <1>4, <1>5, Steps DEF races

\* A handler that commits overtakes the others of its account that are running.
LEMMA CommitOvertakes ==
  ASSUME NEW k \in Requests, CommitStep(k), NEW r \in Requests \ {k}, r \notin overtaken'
  PROVE  r \notin overtaken /\ (AccountOf[r] # AccountOf[k] \/ request[r] = Idle)
<1>1. overtaken' = (overtaken \ {k}) \cup Beside(k)
  BY DEF CommitStep, CreateDomain, DeleteDomain, Verify, CheckRecords, CreateAlias,
     CreateAliasDestination, DeleteAliasDestination, DeleteAlias, CreateDestination,
     DeleteDestination, Commit
<1> QED
  BY <1>1 DEF Beside

\* Every step keeps the decisions of handlers that were not overtaken standing.
LEMMA StandsStep ==
  ASSUME TypeOK, TypeOK', RequestOwn, DecisionsStand, [Next]_vars
  PROVE  DecisionsStand'
<1> SUFFICES ASSUME NEW r \in Requests, r \notin overtaken'
             PROVE  Stands(AccountOf[r], request[r].op, request[r].arg)'
  BY DEF DecisionsStand
<1>0. AccountOf[r] \in Accounts /\ request[r] \in Request /\ request'[r] \in Request
  BY DirectoryAssumption DEF TypeOK
<1>1. CASE request'[r] = Idle
  <2>1. Stands(AccountOf[r], Idle.op, Idle.arg)'
    BY DEF Stands, Idle
  <2> QED
    BY <1>1, <2>1
<1>2. ASSUME Same(AccountOf[r]), request'[r] = request[r], r \notin overtaken
      PROVE  Stands(AccountOf[r], request[r].op, request[r].arg)'
  <2>1. PICK q \in Request : q = request[r]
    BY <1>0
  <2>2. Stands(AccountOf[r], q.op, q.arg)
    BY <1>2, <2>1 DEF DecisionsStand
  <2>3. Stands(AccountOf[r], q.op, q.arg)'
    BY <1>0, <1>2, <2>2, SameStands
  <2> QED
    BY <1>2, <2>1, <2>3
<1>3. ASSUME NEW k \in Requests, CommitStep(k)
      PROVE  Stands(AccountOf[r], request[r].op, request[r].arg)'
  <2>0. request' = [request EXCEPT ![k] = Idle]
    BY <1>3, RequestsStay
  <2>1. CASE r = k
    BY <1>1, <2>0, <2>1 DEF TypeOK
  <2>2. CASE r # k
    <3>1. request'[r] = request[r]
      BY <2>0, <2>2 DEF TypeOK
    <3>2. r \notin overtaken /\ (AccountOf[r] # AccountOf[k] \/ request[r] = Idle)
      BY <1>3, <2>2, CommitOvertakes
    <3>3. CASE request[r] = Idle
      BY <1>1, <3>1, <3>3
    <3>4. CASE AccountOf[r] # AccountOf[k]
      <4>1. Same(AccountOf[r])
        BY <1>0, <1>3, <3>4, Apart
      <4> QED
        BY <1>2, <3>1, <3>2, <4>1
    <3> QED
      BY <3>2, <3>3, <3>4
  <2> QED
    BY <2>1, <2>2
<1>4. CASE ~\E k \in Requests : CommitStep(k)
  <2>0. Same(AccountOf[r])
    BY <1>0, <1>4, QuietSame, Steps
  <2>1. r \in overtaken => request'[r] = Idle
    BY <1>4, RaceStep
  <2>2. CASE request'[r] = request[r] /\ r \notin overtaken
    BY <1>2, <2>0, <2>2
  <2>3. ASSUME NEW op \in Ops, NEW arg \in ArgOf(op), Stands(AccountOf[r], op, arg),
               request'[r] = [op |-> op, arg |-> arg]
        PROVE  Stands(AccountOf[r], request[r].op, request[r].arg)'
    <3>1. PICK q \in Request : q = request'[r]
      BY <1>0
    <3>2. q.op = op /\ q.arg = arg
      BY <2>3, <3>1
    <3>3. Stands(AccountOf[r], q.op, q.arg)
      BY <2>3, <3>2
    <3>4. Stands(AccountOf[r], q.op, q.arg)'
      BY <1>0, <2>0, <3>3, SameStands
    <3> QED
      BY <3>1, <3>4
  <2> QED
    BY <1>1, <2>1, <2>2, <2>3, NewRequest
<1> QED
  BY <1>3, <1>4

\* Rows come alive one at a time, when a handler that creates them commits.
LEMMA Gains ==
  ASSUME [Next]_vars
  PROVE  /\ \/ live' \subseteq live
            \/ \E r \in Requests : CreateDomain(r) /\ live' = live \cup {request[r].arg}
         /\ \/ aliases' \subseteq aliases
            \/ \E r \in Requests : CreateAlias(r) /\ aliases' = aliases \cup {request[r].arg[1]}
         /\ \/ dests' \subseteq dests
            \/ \E r \in Requests : CreateDestination(r) /\ dests' = dests \cup {request[r].arg}
<1>1. ASSUME NEW r \in Requests, BeginStep(r) \/ Rollback(r)
      PROVE  UNCHANGED <<live, aliases, dests>>
  BY <1>1, Begins DEF Begin, Rollback, domainVars
<1>2. ASSUME NEW n \in Names, Environment(n)
      PROVE  UNCHANGED <<live, aliases, dests>>
  BY <1>2 DEF Environment, PublishCode, RecordsAge, dkimSign, domainVars
<1>3. UNCHANGED vars => UNCHANGED <<live, aliases, dests>>
  BY DEF vars, domainVars
<1>4. ASSUME NEW r \in Requests, CommitStep(r)
      PROVE  /\ \/ live' \subseteq live
                \/ CreateDomain(r) /\ live' = live \cup {request[r].arg}
             /\ \/ aliases' \subseteq aliases
                \/ CreateAlias(r) /\ aliases' = aliases \cup {request[r].arg[1]}
             /\ \/ dests' \subseteq dests
                \/ CreateDestination(r) /\ dests' = dests \cup {request[r].arg}
  <2>1. CreateDomain(r) => live' = live \cup {request[r].arg} /\ UNCHANGED <<aliases, dests>>
    BY DEF CreateDomain
  <2>2. DeleteDomain(r) => live' \subseteq live /\ aliases' \subseteq aliases /\ dests' = dests
    BY DEF DeleteDomain
  <2>3. Verify(r) \/ CheckRecords(r) \/ CreateAliasDestination(r) \/ DeleteAliasDestination(r)
          => UNCHANGED <<live, aliases, dests>>
    BY DEF Verify, CheckRecords, CreateAliasDestination, DeleteAliasDestination, domainVars
  <2>4. CreateAlias(r) =>
          aliases' = aliases \cup {request[r].arg[1]} /\ UNCHANGED <<live, dests>>
    BY DEF CreateAlias
  <2>5. DeleteAlias(r) => aliases' \subseteq aliases /\ UNCHANGED <<live, dests>>
    BY DEF DeleteAlias, domainVars
  <2>6. CreateDestination(r) =>
          dests' = dests \cup {request[r].arg} /\ UNCHANGED <<live, aliases>>
    BY DEF CreateDestination, domainVars
  <2>7. DeleteDestination(r) => dests' \subseteq dests /\ UNCHANGED <<live, aliases>>
    BY DEF DeleteDestination, domainVars
  <2>8. live' \subseteq live \/ CreateDomain(r)
    BY <1>4, <2>2, <2>3, <2>4, <2>5, <2>6, <2>7 DEF CommitStep
  <2>9. aliases' \subseteq aliases \/ CreateAlias(r)
    BY <1>4, <2>1, <2>2, <2>3, <2>5, <2>6, <2>7 DEF CommitStep
  <2>10. dests' \subseteq dests \/ CreateDestination(r)
    BY <1>4, <2>1, <2>2, <2>3, <2>4, <2>5, <2>7 DEF CommitStep
  <2> QED
    BY <2>1, <2>4, <2>6, <2>8, <2>9, <2>10
<1> QED
  BY <1>1, <1>2, <1>3, <1>4, Steps

\* There are finitely many live rows.
FiniteRows == IsFiniteSet(live) /\ IsFiniteSet(aliases) /\ IsFiniteSet(dests)

\* A set that gains at most one element.
LEMMA OneMore ==
  ASSUME NEW S, NEW T, NEW e, IsFiniteSet(S), T \subseteq S \cup {e}
  PROVE  /\ IsFiniteSet(T)
         /\ Cardinality(S) \in Nat /\ Cardinality(T) \in Nat
         /\ Cardinality(T) <= Cardinality(S) + 1
         /\ T \subseteq S => Cardinality(T) <= Cardinality(S)
<1>1. /\ IsFiniteSet(S \cup {e}) /\ Cardinality(S) \in Nat
      /\ Cardinality(S \cup {e}) <= Cardinality(S) + 1
  BY FS_AddElement, FS_CardinalityType
<1>2. IsFiniteSet(T) /\ Cardinality(T) <= Cardinality(S \cup {e})
  BY <1>1, FS_Subset
<1>3. T \subseteq S => Cardinality(T) <= Cardinality(S)
  BY FS_Subset
<1>4. Cardinality(T) \in Nat /\ Cardinality(S \cup {e}) \in Nat
  BY <1>1, <1>2, FS_CardinalityType
<1> QED
  BY <1>1, <1>2, <1>3, <1>4

\* Every step keeps the live rows finitely many.
LEMMA FiniteStep ==
  ASSUME FiniteRows, [Next]_vars
  PROVE  FiniteRows'
<1>1. /\ \E e : live' \subseteq live \cup {e}
      /\ \E e : aliases' \subseteq aliases \cup {e}
      /\ \E e : dests' \subseteq dests \cup {e}
  BY Gains
<1> QED
  BY <1>1, OneMore DEF FiniteRows

\* An account's live rows are those it had and those that came alive.
LEMMA OwnGains ==
  ASSUME TypeOK, AliasesOwned, [Next]_vars, NEW a \in Accounts
  PROVE  /\ LiveDomainsOf(a)' \subseteq LiveDomainsOf(a) \cup (live' \ live)
         /\ LiveAliasesOf(a)' \subseteq LiveAliasesOf(a) \cup (aliases' \ aliases)
         /\ LiveDestsOf(a)' \subseteq LiveDestsOf(a) \cup (dests' \ dests)
<1>1. \A n \in live : n \in Names /\ owner'[n] = owner[n]
  BY OwnerStays DEF TypeOK
<1>a. \A x \in aliases : owner'[x[1]] = owner[x[1]]
  BY OwnerStays DEF TypeOK, Alias, AliasesOwned
<1>2. LiveDomainsOf(a)' \subseteq LiveDomainsOf(a) \cup (live' \ live)
  BY <1>1 DEF LiveDomainsOf
<1>3. LiveAliasesOf(a)' \subseteq LiveAliasesOf(a) \cup (aliases' \ aliases)
  BY <1>a DEF LiveAliasesOf
<1>4. LiveDestsOf(a)' \subseteq LiveDestsOf(a) \cup (dests' \ dests)
  BY DEF LiveDestsOf
<1> QED
  BY <1>2, <1>3, <1>4

\* An account of the free plan that is not torn is within the limits.
Limits == \A a \in Accounts \ (Subscribed \cup torn) : Within(a, 0)

\* Every step keeps it so: the row it adds was counted for when its handler read.
LEMMA LimitsStep ==
  ASSUME TypeOK, TypeOK', OwnInv, DecisionsStand, FiniteRows, Limits, [Next]_vars
  PROVE  Limits'
<1> USE DEF OwnInv
<1> USE DirectoryAssumption
<1> SUFFICES ASSUME NEW a \in Accounts \ Subscribed, a \notin torn'
             PROVE  /\ Cardinality(LiveDomainsOf(a)') <= FreeDomains
                    /\ Cardinality(LiveAliasesOf(a)') <= FreeAliases
                    /\ Cardinality(LiveDestsOf(a)') <= FreeDestinations
  BY DEF Limits, Within
<1>0. a \notin torn
  BY RaceStep
<1>1. /\ Cardinality(LiveDomainsOf(a)) <= FreeDomains
      /\ Cardinality(LiveAliasesOf(a)) <= FreeAliases
      /\ Cardinality(LiveDestsOf(a)) <= FreeDestinations
  BY <1>0 DEF Limits, Within
<1>2. /\ IsFiniteSet(LiveDomainsOf(a)) /\ IsFiniteSet(LiveAliasesOf(a))
      /\ IsFiniteSet(LiveDestsOf(a))
  BY FS_Subset DEF FiniteRows, LiveDomainsOf, LiveAliasesOf, LiveDestsOf
<1>3. /\ Cardinality(LiveDomainsOf(a)) \in Nat /\ Cardinality(LiveAliasesOf(a)) \in Nat
      /\ Cardinality(LiveDestsOf(a)) \in Nat
  BY <1>2, FS_CardinalityType
<1>4. ASSUME NEW r \in Requests, AccountOf[r] # a, CommitStep(r)
      PROVE  Same(a)
  BY <1>4, Apart
<1>5. Cardinality(LiveDomainsOf(a)') <= FreeDomains
  <2>1. CASE live' \subseteq live
    <3>1. LiveDomainsOf(a)' \subseteq LiveDomainsOf(a)
      BY <2>1, OwnGains
    <3>2. Cardinality(LiveDomainsOf(a)') \in Nat
          /\ Cardinality(LiveDomainsOf(a)') <= Cardinality(LiveDomainsOf(a))
      BY <1>2, <3>1, FS_Subset, FS_CardinalityType
    <3> QED
      BY <1>1, <1>3, <3>2
  <2>2. ASSUME NEW r \in Requests, CreateDomain(r), live' = live \cup {request[r].arg}
        PROVE  Cardinality(LiveDomainsOf(a)') <= FreeDomains
    <3>1. CASE AccountOf[r] # a
      <4>1. LiveDomainsOf(a)' = LiveDomainsOf(a)
        BY <1>4, <2>2, <3>1 DEF CommitStep, Same
      <4> QED
        BY <1>1, <4>1
    <3>2. CASE AccountOf[r] = a
      <4>1. Stands(a, "createDomain", request[r].arg)
        BY <2>2, <3>2, CommitStands DEF CreateDomain, Ops
      <4>2. Cardinality(LiveDomainsOf(a)) < FreeDomains
        BY <4>1 DEF Stands, aclDomainCreateCheck
      <4>3. LiveDomainsOf(a)' \subseteq LiveDomainsOf(a) \cup {request[r].arg}
        BY <2>2, OwnGains
      <4>4. Cardinality(LiveDomainsOf(a)') \in Nat
            /\ Cardinality(LiveDomainsOf(a)') <= Cardinality(LiveDomainsOf(a)) + 1
        BY <1>2, <4>3, OneMore
      <4> QED
        BY <1>3, <4>2, <4>4
    <3> QED
      BY <3>1, <3>2
  <2> QED
    BY <2>1, <2>2, Gains
<1>6. Cardinality(LiveAliasesOf(a)') <= FreeAliases
  <2>1. CASE aliases' \subseteq aliases
    <3>1. LiveAliasesOf(a)' \subseteq LiveAliasesOf(a)
      BY <2>1, OwnGains
    <3>2. Cardinality(LiveAliasesOf(a)') \in Nat
          /\ Cardinality(LiveAliasesOf(a)') <= Cardinality(LiveAliasesOf(a))
      BY <1>2, <3>1, FS_Subset, FS_CardinalityType
    <3> QED
      BY <1>1, <1>3, <3>2
  <2>2. ASSUME NEW r \in Requests, CreateAlias(r), aliases' = aliases \cup {request[r].arg[1]}
        PROVE  Cardinality(LiveAliasesOf(a)') <= FreeAliases
    <3>1. CASE AccountOf[r] # a
      <4>1. LiveAliasesOf(a)' = LiveAliasesOf(a)
        BY <1>4, <2>2, <3>1 DEF CommitStep, Same
      <4> QED
        BY <1>1, <4>1
    <3>2. CASE AccountOf[r] = a
      <4>1. Stands(a, "createAlias", request[r].arg)
        BY <2>2, <3>2, CommitStands DEF CreateAlias, Ops
      <4>2. Cardinality(LiveAliasesOf(a)) < FreeAliases
        BY <4>1 DEF Stands, aclAliasCreateCheck
      <4>3. LiveAliasesOf(a)' \subseteq LiveAliasesOf(a) \cup {request[r].arg[1]}
        BY <2>2, OwnGains
      <4>4. Cardinality(LiveAliasesOf(a)') \in Nat
            /\ Cardinality(LiveAliasesOf(a)') <= Cardinality(LiveAliasesOf(a)) + 1
        BY <1>2, <4>3, OneMore
      <4> QED
        BY <1>3, <4>2, <4>4
    <3> QED
      BY <3>1, <3>2
  <2> QED
    BY <2>1, <2>2, Gains
<1>7. Cardinality(LiveDestsOf(a)') <= FreeDestinations
  <2>1. CASE dests' \subseteq dests
    <3>1. LiveDestsOf(a)' \subseteq LiveDestsOf(a)
      BY <2>1, OwnGains
    <3>2. Cardinality(LiveDestsOf(a)') \in Nat
          /\ Cardinality(LiveDestsOf(a)') <= Cardinality(LiveDestsOf(a))
      BY <1>2, <3>1, FS_Subset, FS_CardinalityType
    <3> QED
      BY <1>1, <1>3, <3>2
  <2>2. ASSUME NEW r \in Requests, CreateDestination(r), dests' = dests \cup {request[r].arg}
        PROVE  Cardinality(LiveDestsOf(a)') <= FreeDestinations
    <3>1. CASE AccountOf[r] # a
      <4>1. LiveDestsOf(a)' = LiveDestsOf(a)
        BY <1>4, <2>2, <3>1 DEF CommitStep, Same
      <4> QED
        BY <1>1, <4>1
    <3>2. CASE AccountOf[r] = a
      <4>1. Stands(a, "createDestination", request[r].arg)
        BY <2>2, <3>2, CommitStands DEF CreateDestination, Ops
      <4>2. Cardinality(LiveDestsOf(a)) < FreeDestinations
        BY <4>1 DEF Stands, aclDestinationCreateCheck
      <4>3. LiveDestsOf(a)' \subseteq LiveDestsOf(a) \cup {request[r].arg}
        BY <2>2, OwnGains
      <4>4. Cardinality(LiveDestsOf(a)') \in Nat
            /\ Cardinality(LiveDestsOf(a)') <= Cardinality(LiveDestsOf(a)) + 1
        BY <1>2, <4>3, OneMore
      <4> QED
        BY <1>3, <4>2, <4>4
    <3> QED
      BY <3>1, <3>2
  <2> QED
    BY <2>1, <2>2, Gains
<1> QED
  BY <1>5, <1>6, <1>7

-----------------------------------------------------------------------------
(* How far a race gets.  A handler that is about to add a row counted fewer  *)
(* than the limit when it began, so the rows there are and the handlers      *)
(* about to add one are together fewer than the limit and all the requests   *)
(* of the account.                                                          *)

\* The account's requests that are about to add a row.
Pending(a, op) == {r \in RequestsOf(a) : request[r].op = op}

Raced(S, P, limit, R) == Cardinality(S) + Cardinality(P) <= limit + Cardinality(R) - 1

RaceInv ==
  \A a \in Accounts \ Subscribed : RequestsOf(a) # {} =>
    /\ Raced(LiveDomainsOf(a), Pending(a, "createDomain"), FreeDomains, RequestsOf(a))
    /\ Raced(LiveAliasesOf(a), Pending(a, "createAlias"), FreeAliases, RequestsOf(a))
    /\ Raced(LiveDestsOf(a), Pending(a, "createDestination"), FreeDestinations, RequestsOf(a))

\* Only an account that sends requests is torn.
TornServed == \A a \in torn : RequestsOf(a) # {}

\* The bound is kept if rows and handlers become fewer, if a handler begins
\* that counts fewer rows than the limit, and if a handler adds its row.
LEMMA RaceBound ==
  ASSUME NEW S, NEW T, NEW P, NEW Q, NEW R, NEW limit \in Nat,
         IsFiniteSet(S), IsFiniteSet(R), P \subseteq R, Q \subseteq R,
         Raced(S, P, limit, R),
         \/ T \subseteq S /\ Q \subseteq P
         \/ T \subseteq S /\ Cardinality(S) < limit
         \/ \E e, r : T \subseteq S \cup {e} /\ r \in P /\ Q \subseteq P \ {r}
  PROVE  Raced(T, Q, limit, R)
<1>1. IsFiniteSet(P) /\ IsFiniteSet(Q) /\ Cardinality(Q) <= Cardinality(R)
  BY FS_Subset
<1>2. Cardinality(S) \in Nat /\ Cardinality(P) \in Nat /\ Cardinality(Q) \in Nat /\ Cardinality(R) \in Nat
  BY <1>1, FS_CardinalityType
<1>3. ASSUME T \subseteq S
      PROVE  Cardinality(T) \in Nat /\ Cardinality(T) <= Cardinality(S)
  BY <1>3, FS_Subset, FS_CardinalityType
<1>4. CASE T \subseteq S /\ Q \subseteq P
  <2>1. Cardinality(Q) <= Cardinality(P)
    BY <1>1, <1>4, FS_Subset
  <2> QED
    BY <1>2, <1>3, <1>4, <2>1 DEF Raced
<1>5. CASE T \subseteq S /\ Cardinality(S) < limit
  BY <1>1, <1>2, <1>3, <1>5 DEF Raced
<1>6. ASSUME NEW e, NEW r, T \subseteq S \cup {e}, r \in P, Q \subseteq P \ {r}
      PROVE  Raced(T, Q, limit, R)
  <2>1. Cardinality(T) \in Nat /\ Cardinality(T) <= Cardinality(S) + 1
    BY <1>6, OneMore
  <2>2. IsFiniteSet(P \ {r}) /\ Cardinality(P \ {r}) = Cardinality(P) - 1
    BY <1>1, <1>6, FS_RemoveElement
  <2>3. Cardinality(Q) <= Cardinality(P) - 1
    BY <1>6, <2>2, FS_Subset
  <2> QED
    BY <1>2, <2>1, <2>3 DEF Raced
<1> QED
  BY <1>4, <1>5, <1>6

\* An account's requests that are about to add a row become more only by a
\* handler that begins.
LEMMA PendingStep ==
  ASSUME TypeOK, [Next]_vars, NEW a \in Accounts, NEW op \in Ops \ {"idle"}
  PROVE  \/ Pending(a, op)' \subseteq Pending(a, op)
         \/ \E r \in RequestsOf(a) : \E arg : Begin(r, op, arg) /\ Stands(a, op, arg)
<1> SUFFICES ASSUME NEW r \in Pending(a, op)', r \notin Pending(a, op)
             PROVE  \E arg : Begin(r, op, arg) /\ Stands(a, op, arg)
  BY DEF Pending, RequestsOf
<1>1. r \in Requests /\ AccountOf[r] = a /\ request'[r].op = op
  BY DEF Pending, RequestsOf
<1>2. request[r].op # op
  BY <1>1 DEF Pending, RequestsOf
<1>3. request'[r] # request[r] /\ request'[r] # Idle
  BY <1>1, <1>2 DEF Idle
<1>4. PICK o \in Ops : \E arg \in ArgOf(o) :
        /\ Begin(r, o, arg) /\ Stands(AccountOf[r], o, arg)
        /\ request'[r] = [op |-> o, arg |-> arg]
  BY <1>1, <1>3, NewRequest
<1>5. o = op
  BY <1>1, <1>4
<1> QED
  BY <1>1, <1>4, <1>5

\* A handler that commits is about to write no longer.
LEMMA PendingCommit ==
  ASSUME TypeOK, NEW r \in Requests, NEW op \in Ops \ {"idle"}, Commit(r, op)
  PROVE  /\ r \in Pending(AccountOf[r], op)
         /\ Pending(AccountOf[r], op)' \subseteq Pending(AccountOf[r], op) \ {r}
<1>1. r \in Pending(AccountOf[r], op)
  BY DEF Commit, Pending, RequestsOf
<1>2. request'[r].op # op /\ \A k \in Requests \ {r} : request'[k] = request[k]
  BY DEF Commit, TypeOK, Idle
<1> QED
  BY <1>1, <1>2 DEF Pending, RequestsOf

\* A handler that begins adds no row.
LEMMA BeginRows ==
  ASSUME NEW r \in Requests, NEW op, NEW arg, Begin(r, op, arg), NEW a
  PROVE  /\ LiveDomainsOf(a)' = LiveDomainsOf(a) /\ LiveAliasesOf(a)' = LiveAliasesOf(a)
         /\ LiveDestsOf(a)' = LiveDestsOf(a)
BY DEF Begin, domainVars, LiveDomainsOf, LiveAliasesOf, LiveDestsOf

\* Every step keeps the bound.
LEMMA RacesStep ==
  ASSUME TypeOK, TypeOK', OwnInv, DecisionsStand, FiniteRows, RaceInv, [Next]_vars
  PROVE  RaceInv'
<1> USE DirectoryAssumption DEF OwnInv
<1> SUFFICES ASSUME NEW a \in Accounts \ Subscribed, RequestsOf(a) # {}
             PROVE  /\ Raced(LiveDomainsOf(a)', Pending(a, "createDomain")', FreeDomains, RequestsOf(a))
                    /\ Raced(LiveAliasesOf(a)', Pending(a, "createAlias")', FreeAliases, RequestsOf(a))
                    /\ Raced(LiveDestsOf(a)', Pending(a, "createDestination")', FreeDestinations,
                             RequestsOf(a))
  BY DEF RaceInv, Raced, RequestsOf
<1>1. /\ Raced(LiveDomainsOf(a), Pending(a, "createDomain"), FreeDomains, RequestsOf(a))
      /\ Raced(LiveAliasesOf(a), Pending(a, "createAlias"), FreeAliases, RequestsOf(a))
      /\ Raced(LiveDestsOf(a), Pending(a, "createDestination"), FreeDestinations, RequestsOf(a))
  BY DEF RaceInv
<1>2. /\ IsFiniteSet(LiveDomainsOf(a)) /\ IsFiniteSet(LiveAliasesOf(a))
      /\ IsFiniteSet(LiveDestsOf(a)) /\ IsFiniteSet(RequestsOf(a))
  BY FS_Subset DEF FiniteRows, LiveDomainsOf, LiveAliasesOf, LiveDestsOf, RequestsOf
<1>3. \A op : Pending(a, op) \subseteq RequestsOf(a) /\ Pending(a, op)' \subseteq RequestsOf(a)
  BY DEF Pending, RequestsOf
<1>4. ASSUME NEW r \in Requests, CommitStep(r), AccountOf[r] # a
      PROVE  Same(a)
  BY <1>4, Apart
<1>5. {"createDomain", "createAlias", "createDestination"} \subseteq Ops \ {"idle"}
  BY DEF Ops
<1>6. Raced(LiveDomainsOf(a)', Pending(a, "createDomain")', FreeDomains, RequestsOf(a))
  <2> DEFINE S == LiveDomainsOf(a)
             P == Pending(a, "createDomain")
  <2>1. \/ S' \subseteq S
        \/ \E r \in Requests : CreateDomain(r) /\ AccountOf[r] = a /\ S' \subseteq S \cup {request[r].arg}
    <3>1. CASE live' \subseteq live
      BY <3>1, OwnGains
    <3>2. ASSUME NEW r \in Requests, CreateDomain(r), live' = live \cup {request[r].arg}
          PROVE  S' \subseteq S \/ (AccountOf[r] = a /\ S' \subseteq S \cup {request[r].arg})
      <4>1. S' \subseteq S \cup {request[r].arg}
        BY <3>2, OwnGains
      <4>2. AccountOf[r] # a => S' = S
        BY <1>4, <3>2 DEF CommitStep, Same
      <4> QED
        BY <4>1, <4>2
    <3> QED
      BY <3>1, <3>2, Gains
  <2>2. \/ P' \subseteq P
        \/ S' \subseteq S /\ Cardinality(S) < FreeDomains
    <3>1. ASSUME NEW r \in RequestsOf(a), NEW arg, Begin(r, "createDomain", arg),
                 Stands(a, "createDomain", arg)
          PROVE  S' \subseteq S /\ Cardinality(S) < FreeDomains
      BY <3>1, BeginRows DEF Stands, aclDomainCreateCheck, RequestsOf
    <3> QED
      BY <1>5, <3>1, PendingStep
  <2>3. ASSUME NEW r \in Requests, CreateDomain(r), AccountOf[r] = a
        PROVE  r \in P /\ P' \subseteq P \ {r}
    BY <1>5, <2>3, PendingCommit DEF CreateDomain
  <2>4. \/ S' \subseteq S /\ P' \subseteq P
        \/ S' \subseteq S /\ Cardinality(S) < FreeDomains
        \/ \E e, r : S' \subseteq S \cup {e} /\ r \in P /\ P' \subseteq P \ {r}
    BY <2>1, <2>2, <2>3
  <2>5. IsFiniteSet(S) /\ P \subseteq RequestsOf(a) /\ P' \subseteq RequestsOf(a)
        /\ Raced(S, P, FreeDomains, RequestsOf(a))
    BY <1>1, <1>2, <1>3
  <2> HIDE DEF S, P
  <2>6. Raced(S', P', FreeDomains, RequestsOf(a))
    BY <1>2, <2>4, <2>5, RaceBound
  <2> QED
    BY <2>6 DEF S, P
<1>7. Raced(LiveAliasesOf(a)', Pending(a, "createAlias")', FreeAliases, RequestsOf(a))
  <2> DEFINE S == LiveAliasesOf(a)
             P == Pending(a, "createAlias")
  <2>1. \/ S' \subseteq S
        \/ \E r \in Requests : CreateAlias(r) /\ AccountOf[r] = a /\ S' \subseteq S \cup {request[r].arg[1]}
    <3>1. CASE aliases' \subseteq aliases
      BY <3>1, OwnGains
    <3>2. ASSUME NEW r \in Requests, CreateAlias(r), aliases' = aliases \cup {request[r].arg[1]}
          PROVE  S' \subseteq S \/ (AccountOf[r] = a /\ S' \subseteq S \cup {request[r].arg[1]})
      <4>1. S' \subseteq S \cup {request[r].arg[1]}
        BY <3>2, OwnGains
      <4>2. AccountOf[r] # a => S' = S
        BY <1>4, <3>2 DEF CommitStep, Same
      <4> QED
        BY <4>1, <4>2
    <3> QED
      BY <3>1, <3>2, Gains
  <2>2. \/ P' \subseteq P
        \/ S' \subseteq S /\ Cardinality(S) < FreeAliases
    <3>1. ASSUME NEW r \in RequestsOf(a), NEW arg, Begin(r, "createAlias", arg),
                 Stands(a, "createAlias", arg)
          PROVE  S' \subseteq S /\ Cardinality(S) < FreeAliases
      BY <3>1, BeginRows DEF Stands, aclAliasCreateCheck, RequestsOf
    <3> QED
      BY <1>5, <3>1, PendingStep
  <2>3. ASSUME NEW r \in Requests, CreateAlias(r), AccountOf[r] = a
        PROVE  r \in P /\ P' \subseteq P \ {r}
    BY <1>5, <2>3, PendingCommit DEF CreateAlias
  <2>4. \/ S' \subseteq S /\ P' \subseteq P
        \/ S' \subseteq S /\ Cardinality(S) < FreeAliases
        \/ \E e, r : S' \subseteq S \cup {e} /\ r \in P /\ P' \subseteq P \ {r}
    BY <2>1, <2>2, <2>3
  <2>5. IsFiniteSet(S) /\ P \subseteq RequestsOf(a) /\ P' \subseteq RequestsOf(a)
        /\ Raced(S, P, FreeAliases, RequestsOf(a))
    BY <1>1, <1>2, <1>3
  <2> HIDE DEF S, P
  <2>6. Raced(S', P', FreeAliases, RequestsOf(a))
    BY <1>2, <2>4, <2>5, RaceBound
  <2> QED
    BY <2>6 DEF S, P
<1>8. Raced(LiveDestsOf(a)', Pending(a, "createDestination")', FreeDestinations, RequestsOf(a))
  <2> DEFINE S == LiveDestsOf(a)
             P == Pending(a, "createDestination")
  <2>1. \/ S' \subseteq S
        \/ \E r \in Requests : CreateDestination(r) /\ AccountOf[r] = a /\ S' \subseteq S \cup {request[r].arg}
    <3>1. CASE dests' \subseteq dests
      BY <3>1, OwnGains
    <3>2. ASSUME NEW r \in Requests, CreateDestination(r), dests' = dests \cup {request[r].arg}
          PROVE  S' \subseteq S \/ (AccountOf[r] = a /\ S' \subseteq S \cup {request[r].arg})
      <4>1. S' \subseteq S \cup {request[r].arg}
        BY <3>2, OwnGains
      <4>2. AccountOf[r] # a => S' = S
        BY <1>4, <3>2 DEF CommitStep, Same
      <4> QED
        BY <4>1, <4>2
    <3> QED
      BY <3>1, <3>2, Gains
  <2>2. \/ P' \subseteq P
        \/ S' \subseteq S /\ Cardinality(S) < FreeDestinations
    <3>1. ASSUME NEW r \in RequestsOf(a), NEW arg, Begin(r, "createDestination", arg),
                 Stands(a, "createDestination", arg)
          PROVE  S' \subseteq S /\ Cardinality(S) < FreeDestinations
      BY <3>1, BeginRows DEF Stands, aclDestinationCreateCheck, RequestsOf
    <3> QED
      BY <1>5, <3>1, PendingStep
  <2>3. ASSUME NEW r \in Requests, CreateDestination(r), AccountOf[r] = a
        PROVE  r \in P /\ P' \subseteq P \ {r}
    BY <1>5, <2>3, PendingCommit DEF CreateDestination
  <2>4. \/ S' \subseteq S /\ P' \subseteq P
        \/ S' \subseteq S /\ Cardinality(S) < FreeDestinations
        \/ \E e, r : S' \subseteq S \cup {e} /\ r \in P /\ P' \subseteq P \ {r}
    BY <2>1, <2>2, <2>3
  <2>5. IsFiniteSet(S) /\ P \subseteq RequestsOf(a) /\ P' \subseteq RequestsOf(a)
        /\ Raced(S, P, FreeDestinations, RequestsOf(a))
    BY <1>1, <1>2, <1>3
  <2> HIDE DEF S, P
  <2>6. Raced(S', P', FreeDestinations, RequestsOf(a))
    BY <1>2, <2>4, <2>5, RaceBound
  <2> QED
    BY <2>6 DEF S, P
<1> QED
  BY <1>6, <1>7, <1>8

\* Every step keeps torn accounts served.
LEMMA ServedStep ==
  ASSUME TypeOK, TornServed, [Next]_vars
  PROVE  TornServed'
<1>1. ASSUME NEW r \in Requests, CommitStep(r)
      PROVE  torn' \subseteq torn \cup {AccountOf[r]}
  BY <1>1 DEF CommitStep, CreateDomain, DeleteDomain, Verify, CheckRecords, CreateAlias,
     CreateAliasDestination, DeleteAliasDestination, DeleteAlias, CreateDestination,
     DeleteDestination, Commit
<1>2. \A r \in Requests : r \in RequestsOf(AccountOf[r])
  BY DEF RequestsOf
<1> QED
  BY <1>1, <1>2, RaceStep DEF TornServed, RequestsOf


-----------------------------------------------------------------------------
(* Deleting is complete.                                                   *)

\* A step that keeps a link keeps the alias and the destination it joins: every
\* deletion takes the links along.
LEMMA KeptLink ==
  ASSUME [Next]_vars, NEW l \in links, l \in links', l[1] \in aliases, l[2] \in dests
  PROVE  l[1] \in aliases' /\ l[2] \in dests'
<1>1. ASSUME NEW r \in Requests, BeginStep(r) \/ Rollback(r)
      PROVE  UNCHANGED <<aliases, dests>>
  BY <1>1, Begins DEF Begin, Rollback
<1>2. ASSUME NEW n \in Names, Environment(n)
      PROVE  UNCHANGED <<aliases, dests>>
  BY <1>2 DEF Environment, PublishCode, RecordsAge, dkimSign
<1>3. UNCHANGED vars => UNCHANGED <<aliases, dests>>
  BY DEF vars
<1>4. ASSUME NEW r \in Requests, CommitStep(r)
      PROVE  l[1] \in aliases' /\ l[2] \in dests'
  <2>1. CASE DeleteDomain(r)
    BY <2>1 DEF DeleteDomain
  <2>2. CASE DeleteAlias(r)
    BY <2>2 DEF DeleteAlias
  <2>3. CASE DeleteDestination(r)
    BY <2>3 DEF DeleteDestination
  <2>4. CASE \/ CreateDomain(r) \/ Verify(r) \/ CheckRecords(r) \/ CreateAlias(r)
             \/ CreateAliasDestination(r) \/ DeleteAliasDestination(r) \/ CreateDestination(r)
    BY <2>4 DEF CreateDomain, Verify, CheckRecords, CreateAlias, CreateAliasDestination,
       DeleteAliasDestination, CreateDestination
  <2> QED
    BY <1>4, <2>1, <2>2, <2>3, <2>4 DEF CommitStep
<1> QED
  BY <1>1, <1>2, <1>3, <1>4, Steps

\* A new link joins live rows unless it tears its account.
LEMMA FreshLink ==
  ASSUME TypeOK, RequestOwn, DecisionsStand, [Next]_vars, NEW l \in links', l \notin links
  PROVE  /\ owner[l[1][1]] \in Accounts
         /\ owner[l[1][1]] \notin torn' => l[1] \in aliases' /\ l[2] \in dests'
<1>1. ASSUME NEW r \in Requests, CreateAlias(r)
      PROVE  /\ owner[l[1][1]] \in Accounts
             /\ owner[l[1][1]] \notin torn' => l[1] \in aliases' /\ l[2] \in dests'
  <2> DEFINE arg == request[r].arg
  <2>1. links' = links \cup {arg} /\ aliases' = aliases \cup {arg[1]} /\ dests' = dests
    BY <1>1 DEF CreateAlias
  <2>2. /\ owner[arg[1][1]] = AccountOf[r]
        /\ AccountOf[r] \notin torn' => arg[2] \in dests
    BY <1>1, CommitStands DEF CreateAlias, Stands, Owns, Ops, LiveDestsOf
  <2> HIDE DEF arg
  <2> QED
    BY <2>1, <2>2, DirectoryAssumption
<1>2. ASSUME NEW r \in Requests, CreateAliasDestination(r)
      PROVE  /\ owner[l[1][1]] \in Accounts
             /\ owner[l[1][1]] \notin torn' => l[1] \in aliases' /\ l[2] \in dests'
  <2> DEFINE arg == request[r].arg
  <2>1. links' = links \cup {arg} /\ aliases' = aliases /\ dests' = dests
    BY <1>2 DEF CreateAliasDestination
  <2>2. /\ owner[arg[1][1]] = AccountOf[r]
        /\ AccountOf[r] \notin torn' => arg[1] \in aliases /\ arg[2] \in dests
    BY <1>2, CommitStands DEF CreateAliasDestination, Stands, Owns, Ops, LiveAliasesOf,
       LiveDestsOf
  <2> HIDE DEF arg
  <2> QED
    BY <2>1, <2>2, DirectoryAssumption
<1>3. ASSUME NEW r \in Requests, BeginStep(r) \/ Rollback(r)
      PROVE  links' = links
  BY <1>3, Begins DEF Begin, Rollback
<1>4. ASSUME NEW n \in Names, Environment(n)
      PROVE  links' = links
  BY <1>4 DEF Environment, PublishCode, RecordsAge, dkimSign
<1>5. UNCHANGED vars => links' = links
  BY DEF vars
<1>6. ASSUME NEW r \in Requests, CommitStep(r), ~CreateAlias(r), ~CreateAliasDestination(r)
      PROVE  links' \subseteq links
  BY <1>6 DEF CommitStep, CreateDomain, DeleteDomain, Verify, CheckRecords,
     DeleteAliasDestination, DeleteAlias, CreateDestination, DeleteDestination
<1> QED
  BY <1>1, <1>2, <1>3, <1>4, <1>5, <1>6, Steps

\* Every step keeps deletes complete.
LEMMA LinksStep ==
  ASSUME TypeOK, TypeOK', OwnInv, DecisionsStand, LinksJoinLive, [Next]_vars
  PROVE  LinksJoinLive'
<1> USE DEF OwnInv
<1> SUFFICES ASSUME NEW l \in links', owner'[l[1][1]] \notin torn'
             PROVE  l[1] \in aliases' /\ l[2] \in dests'
  BY DEF LinksJoinLive
<1>1. l[1][1] \in Names /\ l[2][1] \in Accounts
  BY DEF TypeOK, Alias, Destination
<1>2. CASE l \in links
  <2>1. owner[l[1][1]] = l[2][1]
    BY <1>2 DEF OwnDestinations
  <2>2. owner'[l[1][1]] = owner[l[1][1]]
    BY <1>1, <2>1, OwnerStays, DirectoryAssumption
  <2>3. l[1] \in aliases /\ l[2] \in dests
    BY <1>2, <2>2, RaceStep DEF LinksJoinLive
  <2> QED
    BY <1>2, <2>3, KeptLink
<1>3. CASE l \notin links
  <2>1. owner'[l[1][1]] = owner[l[1][1]]
    BY <1>1, <1>3, FreshLink, OwnerStays, DirectoryAssumption
  <2> QED
    BY <1>3, <2>1, FreshLink
<1> QED
  BY <1>2, <1>3

-----------------------------------------------------------------------------
(* Codes, keys and verification.                                           *)

\* The code of a live domain is one that was made.
CodesMade == \A n \in live : code[n] \in 1..made

\* A handler about to set verified_at found a code of the domain published.
VerifyShown ==
  \A r \in Requests : request[r].op = "verify" =>
    \E key \in 1..made : <<request[r].arg, key>> \in dns

\* Codes are only made, CNAMEs only published.
LEMMA CodesGrow ==
  ASSUME TypeOK, [Next]_vars
  PROVE  made' \in Nat /\ made <= made' /\ dns \subseteq dns'
<1>1. ASSUME NEW r \in Requests, BeginStep(r) \/ Rollback(r)
      PROVE  UNCHANGED <<made, dns>>
  BY <1>1, Begins DEF Begin, Rollback
<1>2. ASSUME NEW n \in Names, Environment(n)
      PROVE  made' = made /\ dns \subseteq dns'
  BY <1>2 DEF Environment, PublishCode, RecordsAge, dkimSign
<1>3. UNCHANGED vars => UNCHANGED <<made, dns>>
  BY DEF vars
<1>4. ASSUME NEW r \in Requests, CommitStep(r)
      PROVE  made' \in {made, made + 1} /\ dns' = dns
  BY <1>4 DEF CommitStep, CreateDomain, DeleteDomain, Verify, CheckRecords, CreateAlias,
     CreateAliasDestination, DeleteAliasDestination, DeleteAlias, CreateDestination,
     DeleteDestination
<1>5. made \in Nat
  BY DEF TypeOK
<1>6. made' \in {made, made + 1} /\ dns \subseteq dns'
  BY <1>1, <1>2, <1>3, <1>4, Steps
<1> QED
  BY <1>5, <1>6

\* What a step does to the names' codes, keys and verification: CreateDomain
\* gives a name a new code and key, DeleteDomain deletes its keys, Verify sets
\* verified_at, and nothing else touches them.
LEMMA NamesStep ==
  ASSUME TypeOK, [Next]_vars
  PROVE  \/ \E r \in Requests : CreateDomain(r) /\ request[r].arg \in Names
         \/ \E r \in Requests : DeleteDomain(r) /\ request[r].arg \in Names
         \/ \E r \in Requests : Verify(r)
         \/ UNCHANGED <<live, verified, code, liveKeys, readded>>
<1>1. ASSUME NEW r \in Requests, BeginStep(r) \/ Rollback(r)
      PROVE  UNCHANGED <<live, verified, code, liveKeys, readded>>
  BY <1>1, Begins DEF Begin, Rollback, domainVars
<1>2. ASSUME NEW n \in Names, Environment(n)
      PROVE  UNCHANGED <<live, verified, code, liveKeys, readded>>
  BY <1>2 DEF Environment, PublishCode, RecordsAge, dkimSign, domainVars
<1>3. UNCHANGED vars => UNCHANGED <<live, verified, code, liveKeys, readded>>
  BY DEF vars, domainVars
<1>4. ASSUME NEW r \in Requests, CommitStep(r), ~CreateDomain(r), ~DeleteDomain(r), ~Verify(r)
      PROVE  UNCHANGED <<live, verified, code, liveKeys, readded>>
  BY <1>4 DEF CommitStep, CheckRecords, CreateAlias, CreateAliasDestination,
     DeleteAliasDestination, DeleteAlias, CreateDestination, DeleteDestination, domainVars
<1>5. ASSUME NEW r \in Requests, CreateDomain(r) \/ DeleteDomain(r)
      PROVE  request[r].arg \in Names
  BY <1>5, ArgAtCommit, ArgKinds DEF CreateDomain, DeleteDomain
<1> QED
  BY <1>1, <1>2, <1>3, <1>4, <1>5, Steps

\* Every step keeps the codes of live domains ones that were made.
LEMMA MadeStep ==
  ASSUME TypeOK, CodesMade, [Next]_vars
  PROVE  CodesMade'
<1> USE DEF CodesMade
<1>0. made \in Nat /\ made' \in Nat /\ made <= made'
  BY CodesGrow DEF TypeOK
<1>1. ASSUME NEW r \in Requests, CreateDomain(r), request[r].arg \in Names
      PROVE  CodesMade'
  <2> DEFINE n == request[r].arg
  <2>1. n \in Names /\ live' = live \cup {n} /\ made' = made + 1
        /\ code' = [code EXCEPT ![n] = made + 1]
    BY <1>1 DEF CreateDomain
  <2> HIDE DEF n
  <2>2. code'[n] = made + 1 /\ \A k \in Names \ {n} : code'[k] = code[k]
    BY <2>1 DEF TypeOK
  <2>3. made + 1 \in 1..(made + 1) /\ \A i \in 1..made : i \in 1..(made + 1)
    BY <1>0
  <2>4. live \subseteq Names
    BY DEF TypeOK
  <2> QED
    BY <2>1, <2>2, <2>3, <2>4
<1>2. ASSUME live' \subseteq live, code' = code
      PROVE  CodesMade'
  <2>1. \A i \in 1..made : i \in 1..made'
    BY <1>0
  <2> QED
    BY <1>2, <2>1
<1>3. ASSUME NEW r \in Requests, DeleteDomain(r) \/ Verify(r)
      PROVE  live' \subseteq live /\ code' = code
  BY <1>3 DEF DeleteDomain, Verify
<1> QED
  BY <1>1, <1>2, <1>3, NamesStep

\* Every step keeps what handlers about to set verified_at were shown.
LEMMA ShownStep ==
  ASSUME TypeOK, TypeOK', CodesMade, VerifyShown, [Next]_vars
  PROVE  VerifyShown'
<1> SUFFICES ASSUME NEW r \in Requests, request'[r].op = "verify"
             PROVE  \E key \in 1..made' : <<request'[r].arg, key>> \in dns'
  BY DEF VerifyShown
<1>0. made \in Nat /\ made' \in Nat /\ made <= made' /\ dns \subseteq dns'
  BY CodesGrow DEF TypeOK
<1>1. \A i \in 1..made : i \in 1..made'
  BY <1>0
<1>2. CASE request'[r] = request[r]
  BY <1>0, <1>1, <1>2 DEF VerifyShown
<1>3. ASSUME NEW op \in Ops, NEW arg \in ArgOf(op), Stands(AccountOf[r], op, arg),
             request'[r] = [op |-> op, arg |-> arg]
      PROVE  \E key \in 1..made' : <<request'[r].arg, key>> \in dns'
  <2>1. op = "verify" /\ request'[r].arg = arg
    BY <1>3
  <2>2. arg \in live /\ <<arg, code[arg]>> \in dns
    BY <1>3, <2>1 DEF Stands, LiveDomainsOf
  <2> QED
    BY <1>0, <1>1, <2>1, <2>2 DEF CodesMade
<1>4. request'[r] # Idle
  BY DEF Idle
<1> QED
  BY <1>2, <1>3, <1>4, NewRequest

\* Every step keeps verified domains verified by their code.
LEMMA CodeStep ==
  ASSUME TypeOK, TypeOK', OwnInv, DecisionsStand, CodesMade, VerifyShown, VerifiedByCode,
         [Next]_vars
  PROVE  VerifiedByCode'
<1> USE DEF OwnInv
<1> SUFFICES ASSUME NEW n \in verified'
             PROVE  /\ \E key \in 1..made' : <<n, key>> \in dns'
                    /\ n \in live' /\ owner'[n] \notin torn' => <<n, code'[n]>> \in dns'
  BY DEF VerifiedByCode
<1>0. made \in Nat /\ made' \in Nat /\ made <= made' /\ dns \subseteq dns' /\ n \in Names
  BY CodesGrow DEF TypeOK
<1>1. \A i \in 1..made : i \in 1..made'
  BY <1>0
<1>2. ASSUME n \in verified, n \in live' => n \in live /\ code'[n] = code[n]
      PROVE  /\ \E key \in 1..made' : <<n, key>> \in dns'
             /\ n \in live' /\ owner'[n] \notin torn' => <<n, code'[n]>> \in dns'
  <2>1. n \in live => owner'[n] = owner[n]
    BY <1>0, OwnerStays DEF TypeOK
  <2>2. owner'[n] \notin torn' => owner'[n] \notin torn
    BY RaceStep
  <2> QED
    BY <1>0, <1>1, <1>2, <2>1, <2>2 DEF VerifiedByCode
<1>3. ASSUME NEW r \in Requests, CreateDomain(r), request[r].arg \in Names
      PROVE  n \in verified /\ (n \in live' => n \in live /\ code'[n] = code[n])
  <2> DEFINE k == request[r].arg
  <2>1. k \in Names /\ live' = live \cup {k} /\ verified' = verified \ {k}
        /\ code' = [code EXCEPT ![k] = made + 1]
    BY <1>3 DEF CreateDomain
  <2> HIDE DEF k
  <2> QED
    BY <1>0, <2>1 DEF TypeOK
<1>4. ASSUME NEW r \in Requests, DeleteDomain(r)
      PROVE  n \in verified /\ (n \in live' => n \in live /\ code'[n] = code[n])
  BY <1>4 DEF DeleteDomain
<1>5. ASSUME NEW r \in Requests, Verify(r)
      PROVE  /\ \E key \in 1..made' : <<n, key>> \in dns'
             /\ n \in live' /\ owner'[n] \notin torn' => <<n, code'[n]>> \in dns'
  <2>1. UNCHANGED <<owner, live, code, dns, made>> /\ verified' = verified \cup {request[r].arg}
    BY <1>5 DEF Verify
  <2>2. CASE n \in verified
    BY <1>2, <2>1, <2>2
  <2>3. CASE n \notin verified
    <3>1. n = request[r].arg /\ request[r].op = "verify"
      BY <1>5, <2>1, <2>3 DEF Verify, Commit
    <3>2. \E key \in 1..made : <<n, key>> \in dns
      BY <3>1 DEF VerifyShown
    <3>3. owner[n] = AccountOf[r] /\ (AccountOf[r] \notin torn' => <<n, code[n]>> \in dns)
      BY <1>5, <3>1, CommitStands DEF Verify, Stands, Owns, Ops
    <3> QED
      BY <2>1, <3>2, <3>3
  <2> QED
    BY <2>2, <2>3
<1> QED
  BY <1>2, <1>3, <1>4, <1>5, NamesStep

\* Every step keeps the keys of domains.
LEMMA KeyStep ==
  ASSUME TypeOK, OneKeySet, [Next]_vars
  PROVE  OneKeySet'
<1>1. ASSUME NEW r \in Requests, CreateDomain(r), request[r].arg \in Names
      PROVE  OneKeySet'
  <2> DEFINE n == request[r].arg
             key == made + 1
  <2>1. /\ n \in Names /\ live' = live \cup {n}
        /\ code' = [code EXCEPT ![n] = key]
        /\ liveKeys' = [liveKeys EXCEPT ![n] = liveKeys[n] \cup {key}]
        /\ readded' = IF n \in live THEN readded \cup {n} ELSE readded
    BY <1>1 DEF CreateDomain
  <2> HIDE DEF n, key
  <2>2. /\ code'[n] = key /\ liveKeys'[n] = liveKeys[n] \cup {key}
        /\ \A k \in Names \ {n} : code'[k] = code[k] /\ liveKeys'[k] = liveKeys[k]
    BY <2>1 DEF TypeOK
  <2>3. n \notin live => liveKeys[n] = {}
    BY <2>1 DEF OneKeySet
  <2>4. n \in live => n \in readded'
    BY <2>1
  <2>5. \A k \in Names \ {n} : (k \in live' <=> k \in live) /\ (k \in readded' <=> k \in readded)
    BY <2>1
  <2> QED
    BY <2>1, <2>2, <2>3, <2>4, <2>5 DEF OneKeySet
<1>2. ASSUME NEW r \in Requests, DeleteDomain(r), request[r].arg \in Names
      PROVE  OneKeySet'
  <2> DEFINE n == request[r].arg
  <2>1. /\ n \in Names /\ live' = live \ {n} /\ liveKeys' = [liveKeys EXCEPT ![n] = {}]
        /\ readded' = readded \ {n} /\ code' = code
    BY <1>2 DEF DeleteDomain
  <2> HIDE DEF n
  <2>2. liveKeys'[n] = {} /\ \A k \in Names \ {n} : liveKeys'[k] = liveKeys[k]
    BY <2>1 DEF TypeOK
  <2> QED
    BY <2>1, <2>2 DEF OneKeySet
<1>3. ASSUME NEW r \in Requests, Verify(r)
      PROVE  UNCHANGED <<live, code, liveKeys, readded>>
  BY <1>3 DEF Verify
<1>4. ASSUME UNCHANGED <<live, code, liveKeys, readded>>
      PROVE  OneKeySet'
  BY <1>4 DEF OneKeySet
<1> QED
  BY <1>1, <1>2, <1>3, <1>4, NamesStep

\* Every step keeps live aliases on live domains that are verified or were
\* added again.
LEMMA VerifiedStep ==
  ASSUME TypeOK, TypeOK', OwnInv, DecisionsStand, AliasNeedsVerifiedDomain, [Next]_vars
  PROVE  AliasNeedsVerifiedDomain'
<1> USE DEF OwnInv
<1> SUFFICES ASSUME NEW x \in aliases', owner'[x[1]] \notin torn'
             PROVE  x[1] \in live' /\ (x[1] \in verified' \/ x[1] \in readded')
  BY DEF AliasNeedsVerifiedDomain
<1>0. x[1] \in Names
  BY DEF TypeOK, Alias
<1>1. ASSUME x[1] \in live, x[1] \in verified \/ x[1] \in readded
      PROVE  x[1] \in live' /\ (x[1] \in verified' \/ x[1] \in readded')
  <2>1. ASSUME NEW r \in Requests, CreateDomain(r)
        PROVE  x[1] \in live' /\ (x[1] \in verified' \/ x[1] \in readded')
    BY <1>1, <2>1 DEF CreateDomain
  <2>2. ASSUME NEW r \in Requests, DeleteDomain(r)
        PROVE  x[1] \in live' /\ (x[1] \in verified' \/ x[1] \in readded')
    BY <1>1, <2>2 DEF DeleteDomain
  <2>3. ASSUME NEW r \in Requests, Verify(r)
        PROVE  x[1] \in live' /\ (x[1] \in verified' \/ x[1] \in readded')
    BY <1>1, <2>3 DEF Verify
  <2> QED
    BY <1>1, <2>1, <2>2, <2>3, NamesStep
<1>2. CASE x \in aliases
  <2>1. owner'[x[1]] = owner[x[1]]
    BY <1>0, <1>2, OwnerStays DEF AliasesOwned
  <2>2. owner[x[1]] \notin torn
    BY <2>1, RaceStep
  <2> QED
    BY <1>1, <1>2, <2>2 DEF AliasNeedsVerifiedDomain
<1>3. CASE x \notin aliases
  <2>1. PICK r \in Requests : CreateAlias(r) /\ aliases' = aliases \cup {request[r].arg[1]}
    BY <1>3, Gains
  <2>2. x = request[r].arg[1]
    BY <1>3, <2>1
  <2>3. owner[x[1]] = AccountOf[r] /\ owner' = owner
    BY <2>1, <2>2, CommitStands DEF CreateAlias, Owns, Ops
  <2>4. Stands(AccountOf[r], "createAlias", request[r].arg)
    BY <2>1, <2>3, CommitStands DEF CreateAlias, Ops
  <2>5. x[1] \in live /\ x[1] \in verified
    BY <2>2, <2>4 DEF Stands, LiveDomainsOf, IsComplete
  <2> QED
    BY <1>1, <2>5
<1> QED
  BY <1>2, <1>3

-----------------------------------------------------------------------------
(* The theorems.                                                           *)

\* The inductive invariant, for any number of parallel requests.
DirectoryInv ==
  /\ TypeOK /\ OwnInv /\ DecisionsStand
  /\ FiniteRows /\ Limits /\ RaceInv /\ TornServed
  /\ LinksJoinLive
  /\ CodesMade /\ VerifyShown /\ VerifiedByCode
  /\ OneKeySet /\ AliasNeedsVerifiedDomain

\* It holds of the empty directory.
LEMMA InitDirectory == Init => DirectoryInv
<1> SUFFICES ASSUME Init PROVE DirectoryInv
  OBVIOUS
<1>1. TypeOK /\ OwnInv
  BY InitOwn
<1>2. DecisionsStand
  BY DEF Init, DecisionsStand, Stands, Idle
<1>3. FiniteRows
  BY FS_EmptySet DEF Init, FiniteRows
<1>4. \A a : /\ Cardinality(LiveDomainsOf(a)) = 0 /\ Cardinality(LiveAliasesOf(a)) = 0
             /\ Cardinality(LiveDestsOf(a)) = 0
  <2>1. \A a : LiveDomainsOf(a) = {} /\ LiveAliasesOf(a) = {} /\ LiveDestsOf(a) = {}
    BY DEF Init, LiveDomainsOf, LiveAliasesOf, LiveDestsOf
  <2> QED
    BY <2>1, FS_EmptySet
<1>5. Limits
  BY <1>4, DirectoryAssumption DEF Limits, Within
<1>6. RaceInv
  <2> SUFFICES ASSUME NEW a \in Accounts \ Subscribed, RequestsOf(a) # {}
               PROVE  /\ Raced(LiveDomainsOf(a), Pending(a, "createDomain"), FreeDomains, RequestsOf(a))
                      /\ Raced(LiveAliasesOf(a), Pending(a, "createAlias"), FreeAliases, RequestsOf(a))
                      /\ Raced(LiveDestsOf(a), Pending(a, "createDestination"), FreeDestinations,
                               RequestsOf(a))
    BY DEF RaceInv
  <2>1. /\ Pending(a, "createDomain") = {} /\ Pending(a, "createAlias") = {}
        /\ Pending(a, "createDestination") = {}
    BY DEF Init, Pending, RequestsOf, Idle
  <2>2. IsFiniteSet(RequestsOf(a))
    BY FS_Subset, DirectoryAssumption DEF RequestsOf
  <2>3. Cardinality(RequestsOf(a)) \in Nat /\ Cardinality(RequestsOf(a)) # 0 /\ Cardinality({}) = 0
    BY <2>2, FS_EmptySet, FS_CardinalityType
  <2> QED
    BY <1>4, <2>1, <2>3, DirectoryAssumption DEF Raced
<1>7. TornServed /\ LinksJoinLive /\ CodesMade /\ VerifiedByCode /\ AliasNeedsVerifiedDomain
  BY DEF Init, TornServed, LinksJoinLive, CodesMade, VerifiedByCode, AliasNeedsVerifiedDomain
<1>8. VerifyShown /\ OneKeySet
  BY DEF Init, VerifyShown, OneKeySet, Idle
<1> QED
  BY <1>1, <1>2, <1>3, <1>5, <1>6, <1>7, <1>8 DEF DirectoryInv

\* Every step keeps it.
LEMMA DirectoryStep == DirectoryInv /\ [Next]_vars => DirectoryInv'
<1> SUFFICES ASSUME DirectoryInv, [Next]_vars PROVE DirectoryInv'
  OBVIOUS
<1>0. /\ TypeOK /\ OwnInv /\ RequestOwn /\ DecisionsStand
      /\ FiniteRows /\ Limits /\ RaceInv /\ TornServed
      /\ LinksJoinLive /\ CodesMade /\ VerifyShown /\ VerifiedByCode
      /\ OneKeySet /\ AliasNeedsVerifiedDomain
  BY DEF DirectoryInv, OwnInv
<1>1. TypeOK'
  BY <1>0, TypeStep
<1>2. OwnInv'
  BY <1>0, <1>1, OwnStep
<1>3. DecisionsStand'
  BY <1>0, <1>1, StandsStep
<1>4. FiniteRows'
  BY <1>0, FiniteStep
<1>5. Limits'
  BY <1>0, <1>1, LimitsStep
<1>6. RaceInv'
  BY <1>0, <1>1, RacesStep
<1>7. TornServed'
  BY <1>0, ServedStep
<1>8. LinksJoinLive'
  BY <1>0, <1>1, LinksStep
<1>9. CodesMade'
  BY <1>0, MadeStep
<1>10. VerifyShown'
  BY <1>0, <1>1, ShownStep
<1>11. VerifiedByCode'
  BY <1>0, <1>1, CodeStep
<1>12. OneKeySet'
  BY <1>0, KeyStep
<1>13. AliasNeedsVerifiedDomain'
  BY <1>0, <1>1, VerifiedStep
<1> QED
  BY <1>1, <1>2, <1>3, <1>4, <1>5, <1>6, <1>7, <1>8, <1>9, <1>10, <1>11, <1>12, <1>13
     DEF DirectoryInv

\* Whatever a handler checked before its writes still holds when it writes,
\* unless another request of the same account committed in between: whatever
\* other accounts do, row level security keeps them off its rows (controlpanel's
\* auth middleware, all handlers of domains.go, aliases.go, destinations.go).
THEOREM DecisionsCorrect == Spec => []DecisionsStand
<1>1. DirectoryInv => DecisionsStand
  BY DEF DirectoryInv
<1> QED
  BY <1>1, InitDirectory, DirectoryStep, PTL DEF Spec

\* An account of the free plan is within acl.go's limits until an overtaken
\* handler of it commits, and then exceeds each by fewer rows than it has
\* requests at once, for any limits and any number of requests: a handler that
\* is about to add a row counted fewer than the limit when it began.
THEOREM LimitsCorrect == Spec => []ExcessBounded
<1>1. DirectoryInv => ExcessBounded
  <2> SUFFICES ASSUME DirectoryInv, NEW a \in Accounts \ Subscribed
               PROVE  Within(a, IF a \in torn THEN Cardinality(RequestsOf(a)) - 1 ELSE 0)
    BY DEF ExcessBounded
  <2>1. CASE a \notin torn
    BY <2>1 DEF DirectoryInv, Limits
  <2>2. CASE a \in torn
    <3>1. RequestsOf(a) # {}
      BY <2>2 DEF DirectoryInv, TornServed
    <3>2. /\ Raced(LiveDomainsOf(a), Pending(a, "createDomain"), FreeDomains, RequestsOf(a))
          /\ Raced(LiveAliasesOf(a), Pending(a, "createAlias"), FreeAliases, RequestsOf(a))
          /\ Raced(LiveDestsOf(a), Pending(a, "createDestination"), FreeDestinations, RequestsOf(a))
      BY <3>1 DEF DirectoryInv, RaceInv
    <3>3. IsFiniteSet(RequestsOf(a)) /\ \A op : IsFiniteSet(Pending(a, op))
      BY FS_Subset, DirectoryAssumption DEF RequestsOf, Pending
    <3>4. /\ IsFiniteSet(LiveDomainsOf(a)) /\ IsFiniteSet(LiveAliasesOf(a))
          /\ IsFiniteSet(LiveDestsOf(a))
      BY FS_Subset DEF DirectoryInv, FiniteRows, LiveDomainsOf, LiveAliasesOf, LiveDestsOf
    <3>5. /\ Cardinality(RequestsOf(a)) \in Nat /\ \A op : Cardinality(Pending(a, op)) \in Nat
          /\ Cardinality(LiveDomainsOf(a)) \in Nat /\ Cardinality(LiveAliasesOf(a)) \in Nat
          /\ Cardinality(LiveDestsOf(a)) \in Nat
      BY <3>3, <3>4, FS_CardinalityType
    <3>6. Within(a, Cardinality(RequestsOf(a)) - 1)
      BY <3>2, <3>5, DirectoryAssumption DEF Within, Raced
    <3> QED
      BY <2>2, <3>6
  <2> QED
    BY <2>1, <2>2
<1> QED
  BY <1>1, InitDirectory, DirectoryStep, PTL DEF Spec

\* Deleting is complete: a live link joins a live alias and a live destination,
\* unless an overtaken handler of the account committed (DeleteDomain,
\* getDeleteAlias, getDeleteDestination).
THEOREM LinksCorrect == Spec => []LinksJoinLive
<1>1. DirectoryInv => LinksJoinLive
  BY DEF DirectoryInv
<1> QED
  BY <1>1, InitDirectory, DirectoryStep, PTL DEF Spec

\* A verified domain's owner published a code it was given, whatever races; and
\* a live one's the code it has now, unless an overtaken handler of the account
\* committed (CheckVerifyCode, CreateDomain, getDomain).
THEOREM CodeCorrect == Spec => []VerifiedByCode
<1>1. DirectoryInv => VerifiedByCode
  BY DEF DirectoryInv
<1> QED
  BY <1>1, InitDirectory, DirectoryStep, PTL DEF Spec

\* A live domain has the key of its code and a deleted one no key, however many
\* requests run at once; the live domain has no other key unless it was added
\* again while it was live (CreateDomain, DeleteDomain).
THEOREM KeysCorrect == Spec => []OneKeySet
<1>1. DirectoryInv => OneKeySet
  BY DEF DirectoryInv
<1> QED
  BY <1>1, InitDirectory, DirectoryStep, PTL DEF Spec

\* A live alias belongs to a live domain that is verified or was added again
\* while it was live, unless an overtaken handler of the account committed
\* ("must be verified before being used", account/domain.go:21-22; CreateDomain
\* resets verified_at, DeleteDomain deletes the aliases, createAlias asks
\* IsComplete).
THEOREM AliasesCorrect == Spec => []AliasNeedsVerifiedDomain
<1>1. DirectoryInv => AliasNeedsVerifiedDomain
  BY DEF DirectoryInv
<1> QED
  BY <1>1, InitDirectory, DirectoryStep, PTL DEF Spec
=============================================================================
