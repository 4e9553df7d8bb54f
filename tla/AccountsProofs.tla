--------------------------- MODULE AccountsProofs ---------------------------
(***************************************************************************)
(* For any registrations, slugs, requests, documents and faults: slugs are *)
(* settled, a suspension stops logins and calls, and tenants are apart.    *)
(***************************************************************************)
EXTENDS Accounts, TLAPS

\* A registration that has neither committed nor met a fault has no rows, and
\* if it was turned away, somebody else has the slug.
Settled(f) ==
  /\ Exists(f) <=> owners[f] # "none"
  /\ reg[f] \in {"new", "checked", "inserted", "conflict"} => ~Exists(f)
  /\ reg[f] \in {"conflict", "error"} /\ f \notin troubled =>
       ~Exists(f) /\ Taken(slug[f])

Unique ==
  \A f, g \in Founders : Exists(f) /\ Exists(g) /\ slug[f] = slug[g] => f = g

\* A transaction under way has its slug to itself.
Reserved(f) ==
  reg[f] = "inserted" =>
    /\ ~Taken(slug[f])
    /\ \A g \in Founders \ {f} : reg[g] = "inserted" => slug[g] # slug[f]

\* What a request has seen so far covers the rows it has passed.
LoginInv(q) ==
  /\ request[q].phase # "tenant" =>
       request[q].of \in Founders /\ <<request[q].of, "tenant">> \in seen[q]
  /\ request[q].phase \in {"password", "issued"} =>
       <<request[q].of, "user">> \in seen[q]

CallInv(q) ==
  /\ request[q].phase # "user" => <<request[q].of, "user">> \in seen[q]
  /\ request[q].phase \in {"admitted", "served"} =>
       <<request[q].of, "tenant">> \in seen[q]
  /\ request[q].phase = "served" =>
       \A d \in request[q].found : documents[d] = request[q].of

RequestInv(q) ==
  request[q] # None =>
    /\ Active(tenants, owners) \subseteq seen[q]
    /\ request[q].kind = "login" => LoginInv(q)
    /\ request[q].kind = "call" => CallInv(q)

AccountsInv ==
  /\ TypeOK
  /\ Unique
  /\ \A f \in Founders : Settled(f) /\ Reserved(f)
  /\ \A q \in Requests : RequestInv(q)

-----------------------------------------------------------------------------
(* Registrations and the administrator.                                    *)

LEMMA ActivePairs ==
  ASSUME NEW ts, NEW us
  PROVE  Active(ts, us) \subseteq Founders \X {"tenant", "user"}
BY DEF Active

\* Whoever changes a status, every request under way takes notice.
LEMMA WatchStep ==
  ASSUME AccountsInv, Watch, UNCHANGED <<request, documents>>
  PROVE  /\ seen' \in [Requests -> SUBSET (Founders \X {"tenant", "user"})]
         /\ \A q \in Requests : RequestInv(q)'
<1> USE DEF AccountsInv, TypeOK
<1>1. seen' \in [Requests -> SUBSET (Founders \X {"tenant", "user"})]
  BY ActivePairs DEF Watch
<1>2. ASSUME NEW q \in Requests, request[q] # None
      PROVE  seen'[q] = seen[q] \cup Active(tenants', owners')
  BY <1>2 DEF Watch
<1>3. ASSUME NEW q \in Requests PROVE RequestInv(q)'
  <2> SUFFICES ASSUME request[q] # None PROVE RequestInv(q)'
    BY DEF RequestInv
  <2>1. seen[q] \subseteq seen'[q] /\ Active(tenants', owners') \subseteq seen'[q]
    BY <1>2
  <2> QED
    BY <2>1 DEF RequestInv, LoginInv, CallInv, Active
<1> QED
  BY <1>1, <1>3

\* A transaction is committed, whatever its answer.
LEMMA CommitStep ==
  ASSUME AccountsInv, NEW f \in Founders,
         NEW answer \in {"created", "error"}, Commit(f, answer),
         sessions' \subseteq Founders, troubled' \subseteq Founders,
         troubled \subseteq troubled',
         answer = "error" => f \in troubled'
  PROVE  AccountsInv'
<1> USE DEF AccountsInv, TypeOK
<1>1. /\ reg[f] = "inserted" /\ Watch /\ UNCHANGED <<slug, documents, request>>
      /\ tenants' = [tenants EXCEPT ![f] = "ACTIVE"]
      /\ owners' = [owners EXCEPT ![f] = "ACTIVE"]
      /\ reg' = [reg EXCEPT ![f] = answer]
  BY DEF Commit, Registered
<1>2. TypeOK'
  BY <1>1, WatchStep DEF Status, RegState
<1>3. \A g \in Founders : Exists(g)' <=> Exists(g) \/ g = f
  BY <1>1 DEF Exists
<1>4. \A g \in Founders : Exists(g) => slug[g] # slug[f]
  BY <1>1 DEF Reserved, Taken
<1>5. Unique'
  BY <1>1, <1>3, <1>4 DEF Unique
<1>6. ASSUME NEW g \in Founders PROVE Settled(g)'
  <2>1. CASE g = f
    BY <1>1, <2>1 DEF Settled, Exists
  <2>2. CASE g # f
    <3>1. Taken(slug[g]) => Taken(slug[g])'
      BY <1>1, <1>3 DEF Taken
    <3>2. /\ Exists(g)' <=> Exists(g)
          /\ owners'[g] = owners[g] /\ reg'[g] = reg[g]
          /\ slug' = slug
      BY <1>1, <1>3, <2>2
    <3> QED
      BY <3>1, <3>2, <2>2 DEF Settled
  <2> QED
    BY <2>1, <2>2
<1>7. ASSUME NEW g \in Founders PROVE Reserved(g)'
  <2>1. CASE g = f
    BY <1>1, <2>1 DEF Reserved
  <2>2. CASE g # f
    BY <1>1, <1>3, <2>2 DEF Reserved, Taken
  <2> QED
    BY <2>1, <2>2
<1> QED
  BY <1>1, <1>2, <1>5, <1>6, <1>7, WatchStep

\* A registration that is turned away, with a reason.
LEMMA TurnedAwayStep ==
  ASSUME AccountsInv, NEW f \in Founders,
         NEW state \in {"checked", "conflict", "error"}, Registered(f, state),
         reg[f] \in {"new", "checked", "inserted"},
         UNCHANGED <<slug, database, sessions, request, seen>>,
         troubled' \in SUBSET Founders, troubled \subseteq troubled',
         state # "checked" => Taken(slug[f]) \/ f \in troubled'
  PROVE  AccountsInv'
<1> USE DEF AccountsInv, TypeOK, database
<1>1. TypeOK'
  BY DEF Registered, RegState
<1>2. Unique'
  BY DEF Unique, Exists
<1>3. ASSUME NEW g \in Founders PROVE Settled(g)'
  <2>1. CASE g = f
    BY <2>1 DEF Settled, Registered, Exists, Taken
  <2>2. CASE g # f
    BY <2>2 DEF Settled, Registered, Exists, Taken
  <2> QED
    BY <2>1, <2>2
<1>4. ASSUME NEW q \in Requests PROVE RequestInv(q)'
  BY DEF RequestInv, LoginInv, CallInv
<1>5. ASSUME NEW g \in Founders PROVE Reserved(g)'
  BY DEF Reserved, Registered, Exists, Taken
<1> QED
  BY <1>1, <1>2, <1>3, <1>4, <1>5

\* A transaction begins, with a slug that nobody has or holds.
LEMMA InsertStep ==
  ASSUME AccountsInv, NEW f \in Founders, InsertTenant(f)
  PROVE  AccountsInv'
<1> USE DEF AccountsInv, TypeOK, database
<1>1. /\ reg[f] = "checked" /\ ~Taken(slug[f]) /\ reg' = [reg EXCEPT ![f] = "inserted"]
      /\ \A g \in Founders : reg[g] = "inserted" => slug[g] # slug[f]
      /\ UNCHANGED <<slug, database, sessions, request, seen, troubled>>
  BY DEF InsertTenant, Registered, Held
<1>2. TypeOK' /\ Unique'
  BY <1>1 DEF RegState, Unique, Exists
<1>3. ASSUME NEW g \in Founders PROVE Settled(g)'
  BY <1>1 DEF Settled, Exists, Taken
<1>4. ASSUME NEW g \in Founders PROVE Reserved(g)'
  BY <1>1 DEF Reserved, Exists, Taken
<1>5. ASSUME NEW q \in Requests PROVE RequestInv(q)'
  BY <1>1 DEF RequestInv, LoginInv, CallInv
<1> QED
  BY <1>2, <1>3, <1>4, <1>5

LEMMA FounderStep ==
  ASSUME AccountsInv, NEW f \in Founders,
         \/ CheckSlug(f) \/ InsertTenant(f) \/ Found(f)
         \/ Duplicate(f) \/ RegisterFails(f)
  PROVE  AccountsInv'
<1>1. CASE CheckSlug(f)
  <2>1. CASE Taken(slug[f])
    BY <1>1, <2>1, TurnedAwayStep DEF CheckSlug, AccountsInv, TypeOK
  <2>2. CASE ~Taken(slug[f])
    BY <1>1, <2>2, TurnedAwayStep DEF CheckSlug, AccountsInv, TypeOK
  <2> QED
    BY <2>1, <2>2
<1>2. CASE Found(f)
  BY <1>2, CommitStep DEF Found, AccountsInv, TypeOK
<1>3. CASE Duplicate(f)
  BY <1>3, TurnedAwayStep DEF Duplicate, AccountsInv, TypeOK
<1>4. CASE RegisterFails(f)
  <2>1. troubled' = troubled \cup {f} /\ sessions' = sessions
    BY <1>4 DEF RegisterFails
  <2>2. CASE Commit(f, "error")
    BY <2>1, <2>2, CommitStep DEF AccountsInv, TypeOK
  <2>3. CASE /\ reg[f] \in {"new", "checked", "inserted"} /\ Registered(f, "error")
             /\ UNCHANGED <<slug, database, request, seen>>
    BY <2>1, <2>3, TurnedAwayStep DEF AccountsInv, TypeOK
  <2> QED
    BY <1>4, <2>2, <2>3 DEF RegisterFails
<1> QED
  BY <1>1, <1>2, <1>3, <1>4, InsertStep

\* The administrator changes a status of rows that exist.
LEMMA StatusStep ==
  ASSUME AccountsInv, NEW f \in Founders, SetStatus(f)
  PROVE  AccountsInv'
<1> USE DEF AccountsInv, TypeOK
<1>1. /\ Exists(f) /\ Watch
      /\ UNCHANGED <<slug, reg, documents, sessions, request, troubled>>
  BY DEF SetStatus
<1>2. /\ tenants' \in [Founders -> Status] /\ owners' \in [Founders -> Status]
      /\ \A g \in Founders : tenants'[g] = "none" <=> tenants[g] = "none"
      /\ \A g \in Founders : owners'[g] = "none" <=> owners[g] = "none"
  <2>1. owners[f] # "none" /\ tenants[f] # "none"
    BY <1>1 DEF Settled, Exists
  <2> QED
    BY <2>1 DEF SetStatus, Toggle, Status
<1>3. TypeOK'
  BY <1>1, <1>2, WatchStep
<1>4. Unique' /\ \A g \in Founders : Settled(g)' /\ Reserved(g)'
  BY <1>1, <1>2 DEF Unique, Settled, Reserved, Exists, Taken
<1> QED
  BY <1>1, <1>3, <1>4, WatchStep

-----------------------------------------------------------------------------
(* Requests.                                                               *)

\* A step of one request leaves the registrations and the other requests
\* alone, and documents only come into being.
LEMMA RequestStep ==
  ASSUME AccountsInv, NEW q \in Requests,
         UNCHANGED <<slug, reg, tenants, owners, troubled>>,
         sessions' \subseteq Founders,
         request' \in [Requests -> Request \cup {None}],
         seen' \in [Requests -> SUBSET (Founders \X {"tenant", "user"})],
         documents' \in [Docs -> Founders \cup {None}],
         \A d \in Docs : documents[d] # None => documents'[d] = documents[d],
         \A p \in Requests \ {q} :
           request'[p] = request[p] /\ seen'[p] = seen[p],
         RequestInv(q)'
  PROVE  AccountsInv'
<1> USE DEF AccountsInv
<1>1. TypeOK'
  BY DEF TypeOK
<1>2. Unique' /\ \A f \in Founders : Settled(f)' /\ Reserved(f)'
  BY DEF Unique, Settled, Reserved, Exists, Taken
<1>3. ASSUME NEW p \in Requests \ {q}, request[p] # None PROVE RequestInv(p)'
  <2>1. request[p] \in Request /\ request'[p] = request[p] /\ seen'[p] = seen[p]
    BY <1>3 DEF TypeOK
  <2>2. ASSUME request[p].kind = "call", request[p].phase = "served",
               NEW d \in request[p].found
        PROVE  documents'[d] = request[p].of
    <3>1. request[p].of \in Founders /\ d \in Docs
      BY <2>1, <2>2 DEF Request
    <3>2. documents[d] = request[p].of
      BY <1>3, <2>2 DEF RequestInv, CallInv
    <3> QED
      BY <3>1, <3>2, AccountsAssumption
  <2> QED
    BY <1>3, <2>1, <2>2 DEF RequestInv, LoginInv, CallInv
<1>4. ASSUME NEW p \in Requests \ {q}, request[p] = None PROVE RequestInv(p)'
  BY <1>4 DEF RequestInv
<1> QED
  BY <1>1, <1>2, <1>3, <1>4

\* What it means to go on about f.
LEMMA GoesOnAs ==
  ASSUME TypeOK, NEW q \in Requests, request[q] # None,
         NEW f \in Founders, NEW phase, GoesOn(q, f, phase),
         \/ /\ request[q].kind = "login"
            /\ phase \in {"user", "password", "issued"}
         \/ /\ request[q].kind = "call" /\ f = request[q].of
            /\ phase \in {"tenant", "admitted"}
  PROVE  /\ request' \in [Requests -> Request \cup {None}]
         /\ request'[q].of = f /\ request'[q].phase = phase
         /\ request'[q].kind = request[q].kind
         /\ \A p \in Requests \ {q} : request'[p] = request[p]
<1> DEFINE new == [request[q] EXCEPT !.of = f, !.phase = phase]
<1>1. request[q] \in Request
  BY DEF TypeOK
<1>2. /\ new \in Request
      /\ new.of = f /\ new.phase = phase /\ new.kind = request[q].kind
  BY <1>1 DEF Request
<1>3. request' = [request EXCEPT ![q] = new]
  BY DEF GoesOn, TypeOK
<1> HIDE DEF new
<1> QED
  BY <1>2, <1>3 DEF TypeOK

\* A request that ends.
LEMMA OverStep ==
  ASSUME AccountsInv, NEW q \in Requests, Over(q),
         UNCHANGED <<slug, reg, database, sessions, troubled>>
  PROVE  AccountsInv'
<1>1. /\ request' \in [Requests -> Request \cup {None}]
      /\ seen' \in [Requests -> SUBSET (Founders \X {"tenant", "user"})]
      /\ \A p \in Requests \ {q} :
           request'[p] = request[p] /\ seen'[p] = seen[p]
      /\ request'[q] = None
  BY DEF Over, AccountsInv, TypeOK
<1>2. RequestInv(q)'
  BY <1>1 DEF RequestInv
<1> QED
  BY <1>1, <1>2, RequestStep DEF database, AccountsInv, TypeOK

\* A request that comes: it has seen what is ACTIVE now.
LEMMA StartStep ==
  ASSUME AccountsInv, NEW q \in Requests, NEW r \in Request, Starts(q, r),
         \/ r.kind = "login" /\ r.phase = "tenant"
         \/ r.kind = "call" /\ r.phase = "user"
  PROVE  AccountsInv'
<1>1. /\ request' \in [Requests -> Request \cup {None}]
      /\ \A p \in Requests \ {q} :
           request'[p] = request[p] /\ seen'[p] = seen[p]
      /\ request'[q] = r /\ seen'[q] = Active(tenants, owners)
  BY DEF Starts, AccountsInv, TypeOK
<1>2. seen' \in [Requests -> SUBSET (Founders \X {"tenant", "user"})]
  BY ActivePairs DEF Starts, AccountsInv, TypeOK
<1>3. UNCHANGED <<tenants, owners, documents>>
  BY DEF Starts, database
<1>4. RequestInv(q)'
  BY <1>1, <1>3 DEF RequestInv, LoginInv, CallInv, Active
<1> QED
  BY <1>1, <1>2, <1>3, <1>4, RequestStep DEF Starts, database, AccountsInv, TypeOK

\* A request that has read an ACTIVE row, or goes on without reading one.
LEMMA PassStep ==
  ASSUME AccountsInv, NEW q \in Requests, request[q] # None,
         NEW f \in Founders, NEW phase, GoesOn(q, f, phase),
         \/ /\ At(q, "login", "tenant") /\ phase = "user"
            /\ tenants[f] = "ACTIVE"
         \/ /\ At(q, "login", "user") /\ phase = "password"
            /\ f = request[q].of /\ owners[f] = "ACTIVE"
         \/ /\ At(q, "login", "password") /\ phase = "issued"
            /\ f = request[q].of
         \/ /\ At(q, "call", "user") /\ phase = "tenant"
            /\ f = request[q].of /\ owners[f] = "ACTIVE"
         \/ /\ At(q, "call", "tenant") /\ phase = "admitted"
            /\ f = request[q].of /\ tenants[f] = "ACTIVE",
         UNCHANGED <<slug, reg, database, seen, troubled>>,
         sessions' \subseteq Founders
  PROVE  AccountsInv'
<1>1. /\ request' \in [Requests -> Request \cup {None}]
      /\ request'[q].of = f /\ request'[q].phase = phase
      /\ request'[q].kind = request[q].kind
      /\ \A p \in Requests \ {q} : request'[p] = request[p]
  BY GoesOnAs DEF At, AccountsInv
<1>2. Active(tenants, owners) \subseteq seen[q] /\ seen' = seen
  BY DEF AccountsInv, RequestInv
<1>3. /\ tenants[f] = "ACTIVE" => <<f, "tenant">> \in seen[q]
      /\ owners[f] = "ACTIVE" => <<f, "user">> \in seen[q]
  BY <1>2 DEF Active
<1>4. UNCHANGED <<tenants, owners, documents>>
  BY DEF database
<1>5. RequestInv(q)'
  <2>1. Active(tenants', owners') \subseteq seen'[q]
    BY <1>2, <1>4
  <2>2. CASE request[q].kind = "login"
    <3>1. LoginInv(q)
      BY <2>2 DEF AccountsInv, RequestInv
    <3>2. LoginInv(q)'
      BY <1>1, <1>2, <1>3, <2>2, <3>1 DEF LoginInv, At
    <3> QED
      BY <1>1, <2>1, <2>2, <3>2 DEF RequestInv
  <2>3. CASE request[q].kind = "call"
    <3>1. CallInv(q)
      BY <2>3 DEF AccountsInv, RequestInv
    <3>2. CallInv(q)'
      BY <1>1, <1>2, <1>3, <2>3, <3>1 DEF CallInv, At
    <3> QED
      BY <1>1, <2>1, <2>3, <3>2 DEF RequestInv
  <2> QED
    BY <2>2, <2>3 DEF At
<1> QED
  BY <1>1, <1>4, <1>5, RequestStep DEF AccountsInv, TypeOK

\* The query of an admitted call: whatever it finds is of the call's tenant.
LEMMA FindsStep ==
  ASSUME AccountsInv, NEW q \in Requests, At(q, "call", "admitted"),
         NEW docs \in SUBSET Docs, Finds(q, docs),
         documents' \in [Docs -> Founders \cup {None}],
         \A d \in Docs : documents[d] # None => documents'[d] = documents[d],
         \A d \in docs : documents'[d] = request[q].of
  PROVE  AccountsInv'
<1> DEFINE new == [request[q] EXCEPT !.found = docs, !.phase = "served"]
<1> USE DEF At
<1>1. request[q] \in Request /\ request[q].kind = "call"
  BY DEF AccountsInv, TypeOK
<1>2. /\ new \in Request /\ new.of = request[q].of /\ new.found = docs
      /\ new.phase = "served" /\ new.kind = "call"
  BY <1>1 DEF Request
<1>3. request' = [request EXCEPT ![q] = new]
  BY DEF Finds, AccountsInv, TypeOK
<1>4. UNCHANGED <<slug, reg, tenants, owners, sessions, seen, troubled>>
  BY DEF Finds
<1> HIDE DEF new
<1>5. /\ request' \in [Requests -> Request \cup {None}]
      /\ request'[q] = new
      /\ \A p \in Requests \ {q} : request'[p] = request[p]
  BY <1>2, <1>3 DEF AccountsInv, TypeOK
<1>6. RequestInv(q)'
  <2>1. CallInv(q) /\ Active(tenants, owners) \subseteq seen[q]
    BY <1>1 DEF AccountsInv, RequestInv
  <2>2. CallInv(q)'
    BY <1>2, <1>4, <1>5, <2>1 DEF CallInv
  <2>3. Active(tenants', owners') \subseteq seen'[q]
    BY <1>4, <2>1
  <2> QED
    BY <1>2, <1>5, <2>2, <2>3 DEF RequestInv
<1> QED
  BY <1>4, <1>5, <1>6, RequestStep DEF AccountsInv, TypeOK

\* Reads are scoped, whatever they ask for.
LEMMA ReadsAreScoped ==
  ASSUME TypeOK, NEW t \in Founders,
         NEW operation \in ReadOperations,
         NEW args \in [id: Docs \cup {None}, tenant: Founders \cup {None}]
  PROVE  /\ Selected(documents, Scoped(operation, args, t)) \subseteq Docs
         /\ \A d \in Selected(documents, Scoped(operation, args, t)) :
              documents[d] = t
<1>1. Scoped(operation, args, t) = [args EXCEPT !.tenant = t]
  BY DEF Scoped
<1>2. Scoped(operation, args, t).tenant = t
  BY <1>1
<1> QED
  BY <1>2, AccountsAssumption DEF Selected, TypeOK

LEMMA QueryStep ==
  ASSUME AccountsInv, NEW q \in Requests,
         List(q) \/ \E d \in Docs : FindOne(q, d) \/ Upload(q, d)
  PROVE  AccountsInv'
<1> USE DEF Anything, WithId
<1>1. At(q, "call", "admitted")
  BY DEF List, FindOne, Upload
<1>2. request[q].of \in Founders
  BY <1>1 DEF At, AccountsInv, TypeOK, Request
<1>3. ASSUME NEW operation \in ReadOperations,
             NEW args \in [id: Docs \cup {None}, tenant: Founders \cup {None}],
             Query(q, operation, args)
      PROVE  AccountsInv'
  <2> DEFINE docs == Selected(documents, Scoped(operation, args, request[q].of))
  <2>1. Finds(q, docs) /\ documents' = documents
    BY <1>3 DEF Query
  <2>2. docs \subseteq Docs /\ \A d \in docs : documents[d] = request[q].of
    BY <1>2, ReadsAreScoped DEF AccountsInv
  <2> HIDE DEF docs
  <2> QED
    BY <1>1, <2>1, <2>2, FindsStep DEF AccountsInv, TypeOK
<1>4. CASE List(q)
  BY <1>3, <1>4 DEF List, ReadOperations
<1>5. ASSUME NEW d \in Docs, FindOne(q, d) PROVE AccountsInv'
  BY <1>3, <1>5 DEF FindOne, ReadOperations
<1>6. ASSUME NEW d \in Docs, Upload(q, d) PROVE AccountsInv'
  <2>1. Scoped("create", WithId(d), request[q].of).tenant = request[q].of
    BY DEF Scoped, CreateOperations
  <2>2. /\ documents' = [documents EXCEPT ![d] = request[q].of]
        /\ documents[d] = None /\ Finds(q, {d})
    BY <1>6, <2>1 DEF Upload
  <2> QED
    BY <1>1, <1>2, <2>2, FindsStep DEF AccountsInv, TypeOK
<1> QED
  BY <1>4, <1>5, <1>6

LEMMA AnyRequestStep ==
  ASSUME AccountsInv, NEW q \in Requests,
         \/ LoginTenant(q) \/ LoginUser(q) \/ LoginPassword(q) \/ LoginFails(q)
         \/ AskUser(q) \/ AskTenant(q) \/ Answer(q)
         \/ \E s \in Slugs : Login(q, s)
         \/ \E f \in Founders : Ask(q, f)
  PROVE  AccountsInv'
<1>1. ASSUME request[q] # None, request[q].kind = "login",
             request[q].phase # "tenant"
      PROVE  request[q].of \in Founders
  BY <1>1 DEF AccountsInv, RequestInv, LoginInv
<1>2. ASSUME request[q] # None, request[q].kind = "call"
      PROVE  request[q].of \in Founders
  BY <1>2 DEF AccountsInv, TypeOK, Request
<1>3. CASE Over(q) /\ UNCHANGED <<slug, reg, database, sessions, troubled>>
  BY <1>3, OverStep
<1>4. CASE LoginTenant(q) /\ ~Over(q)
  <2>1. PICK f \in Founders : tenants[f] = "ACTIVE" /\ GoesOn(q, f, "user")
    BY <1>4 DEF LoginTenant
  <2>2. /\ At(q, "login", "tenant") /\ request[q] # None
        /\ UNCHANGED <<slug, reg, database, sessions, seen, troubled>>
    BY <1>4 DEF LoginTenant, At
  <2> QED
    BY <2>1, <2>2, PassStep DEF AccountsInv, TypeOK
<1>5. CASE LoginUser(q) /\ ~Over(q)
  BY <1>1, <1>5, PassStep DEF LoginUser, At, AccountsInv, TypeOK
<1>6. CASE LoginPassword(q)
  <2>1. CASE Over(q) /\ UNCHANGED sessions
    BY <1>6, <2>1, OverStep DEF LoginPassword
  <2>2. CASE ~(Over(q) /\ UNCHANGED sessions)
    BY <1>1, <1>6, <2>2, PassStep DEF LoginPassword, At, AccountsInv, TypeOK
  <2> QED
    BY <2>1, <2>2
<1>7. CASE AskUser(q) /\ ~Over(q)
  BY <1>2, <1>7, PassStep DEF AskUser, At, AccountsInv, TypeOK
<1>8. CASE AskTenant(q) /\ ~Over(q)
  BY <1>2, <1>8, PassStep DEF AskTenant, At, AccountsInv, TypeOK
<1>9. ASSUME NEW s \in Slugs, Login(q, s) PROVE AccountsInv'
  BY <1>9, StartStep DEF Login, Request
<1>10. ASSUME NEW f \in Founders, Ask(q, f) PROVE AccountsInv'
  BY <1>10, StartStep DEF Ask, Request
<1> QED
  BY <1>3, <1>4, <1>5, <1>6, <1>7, <1>8, <1>9, <1>10
     DEF LoginTenant, LoginUser, LoginFails, AskUser, AskTenant, Answer

-----------------------------------------------------------------------------
\* The invariant of registrations, requests and documents, whatever races and
\* whatever the administrator does.
THEOREM AccountsInOrder == Spec => []AccountsInv
<1>1. Init => AccountsInv
  BY DEF Init, AccountsInv, TypeOK, RegState, Status, Unique, Settled, Reserved,
         Exists, RequestInv
<1>2. AccountsInv /\ [Next]_vars => AccountsInv'
  <2> SUFFICES ASSUME AccountsInv, [Next]_vars PROVE AccountsInv'
    OBVIOUS
  <2>1. CASE UNCHANGED vars
    BY <2>1 DEF vars, database, AccountsInv, TypeOK, Unique, Settled, Reserved, Exists,
                Taken, RequestInv, LoginInv, CallInv
  <2>2. ASSUME NEW f \in Founders,
               \/ CheckSlug(f) \/ InsertTenant(f) \/ Found(f)
               \/ Duplicate(f) \/ RegisterFails(f) \/ SetStatus(f)
        PROVE  AccountsInv'
    BY <2>2, FounderStep, StatusStep
  <2>3. ASSUME NEW q \in Requests,
               \/ LoginTenant(q) \/ LoginUser(q) \/ LoginPassword(q)
               \/ LoginFails(q) \/ AskUser(q) \/ AskTenant(q) \/ Answer(q)
               \/ \E s \in Slugs : Login(q, s)
               \/ \E f \in Founders : Ask(q, f)
               \/ List(q) \/ \E d \in Docs : FindOne(q, d) \/ Upload(q, d)
        PROVE  AccountsInv'
    BY <2>3, AnyRequestStep, QueryStep
  <2> QED
    BY <2>1, <2>2, <2>3 DEF Next
<1> QED
  BY <1>1, <1>2, PTL DEF Spec

\* The types of the tables and of the requests.
THEOREM AccountsTypes == Spec => []TypeOK
BY AccountsInOrder, PTL DEF AccountsInv

\* One tenant and one owner to a slug, and a reason for whoever is turned away.
THEOREM SlugsSettle == Spec => []SlugsAreSettled
<1>1. AccountsInv => SlugsAreSettled
  BY DEF AccountsInv, Unique, Settled, SlugsAreSettled
<1> QED
  BY <1>1, AccountsInOrder, PTL

\* No call gets to its query unless its user and tenant were ACTIVE meanwhile.
THEOREM CallsStop == Spec => []SuspensionStopsCalls
<1>1. AccountsInv => SuspensionStopsCalls
  BY DEF AccountsInv, RequestInv, CallInv, SuspensionStopsCalls, Admitted, At
<1> QED
  BY <1>1, AccountsInOrder, PTL

\* No login gets tokens unless its user and tenant were ACTIVE meanwhile.
THEOREM LoginsStop == Spec => []SuspensionStopsLogins
<1>1. AccountsInv => SuspensionStopsLogins
  BY DEF AccountsInv, RequestInv, LoginInv, SuspensionStopsLogins, Admitted, At
<1> QED
  BY <1>1, AccountsInOrder, PTL

\* A call finds documents of its own tenant only.
THEOREM TenantsStayApart == Spec => []TenantsAreApart
<1>1. AccountsInv => TenantsAreApart
  BY DEF AccountsInv, RequestInv, CallInv, TenantsAreApart, At
<1> QED
  BY <1>1, AccountsInOrder, PTL
-----------------------------------------------------------------------------
(* The register.                                                           *)

\* Whoever has tokens, or was seen by a request, has a tenant, and tenants stay;
\* a call carries a token that was issued.
Known ==
  /\ \A f \in sessions : Exists(f)
  /\ \A q \in Requests, f \in Founders : <<f, "tenant">> \in seen[q] => Exists(f)
  /\ \A q \in Requests :
       request[q] # None /\ request[q].kind = "call" => request[q].of \in sessions

\* Only a transaction makes a tenant, and nothing removes one.
LEMMA TenantsStay ==
  ASSUME AccountsInv, [Next]_vars
  PROVE  /\ slug' = slug
         /\ \A f \in Founders : Exists(f) => Exists(f)'
         /\ \/ \A f \in Founders : Exists(f)' <=> Exists(f)
            \/ \E f \in Founders :
                 \/ Found(f)
                 \/ \E answer : Commit(f, answer) /\ UNCHANGED sessions
<1> USE DEF Exists, AccountsInv, TypeOK, database
<1>1. CASE UNCHANGED <<slug, tenants>>
  BY <1>1
<1>2. ASSUME NEW f \in Founders, NEW answer, Commit(f, answer)
      PROVE  /\ slug' = slug
             /\ \A g \in Founders : Exists(g) => Exists(g)'
  BY <1>2 DEF Commit
<1>3. ASSUME NEW f \in Founders, SetStatus(f)
      PROVE  slug' = slug /\ \A g \in Founders : Exists(g)' <=> Exists(g)
  BY <1>3 DEF SetStatus, Toggle
<1>4. ASSUME NEW f \in Founders,
             \/ CheckSlug(f) \/ InsertTenant(f) \/ Found(f)
             \/ Duplicate(f) \/ RegisterFails(f)
      PROVE  \/ UNCHANGED <<slug, tenants>>
             \/ Found(f) /\ Commit(f, "created")
             \/ Commit(f, "error") /\ UNCHANGED sessions
  BY <1>4 DEF CheckSlug, InsertTenant, Found, Duplicate, RegisterFails
<1>5. ASSUME NEW q \in Requests,
             \/ LoginTenant(q) \/ LoginUser(q) \/ LoginPassword(q) \/ LoginFails(q)
             \/ AskUser(q) \/ AskTenant(q) \/ Answer(q)
             \/ \E s \in Slugs : Login(q, s)
             \/ \E f \in Founders : Ask(q, f)
             \/ List(q) \/ \E d \in Docs : FindOne(q, d) \/ Upload(q, d)
      PROVE  UNCHANGED <<slug, tenants>>
  BY <1>5
     DEF LoginTenant, LoginUser, LoginPassword, LoginFails, AskUser, AskTenant,
         Answer, Login, Ask, Starts, List, FindOne, Upload, Query, Finds
<1> QED
  BY <1>1, <1>2, <1>3, <1>4, <1>5 DEF Next, vars

\* A request sees the rows that are ACTIVE before or after a step.
LEMMA SeenStep ==
  ASSUME AccountsInv, [Next]_vars, NEW q \in Requests
  PROVE  seen'[q] \subseteq
           seen[q] \cup Active(tenants, owners) \cup Active(tenants', owners')
<1> USE DEF AccountsInv, TypeOK
<1>1. CASE UNCHANGED seen
  BY <1>1
<1>2. CASE Watch
  BY <1>2 DEF Watch
<1>3. ASSUME NEW p \in Requests, Over(p) PROVE seen'[q] \subseteq seen[q]
  BY <1>3 DEF Over
<1>4. ASSUME NEW p \in Requests, NEW r, Starts(p, r)
      PROVE  seen'[q] \subseteq seen[q] \cup Active(tenants, owners)
  BY <1>4 DEF Starts
<1>5. ASSUME NEW f \in Founders,
             \/ CheckSlug(f) \/ InsertTenant(f) \/ Found(f)
             \/ Duplicate(f) \/ RegisterFails(f) \/ SetStatus(f)
      PROVE  UNCHANGED seen \/ Watch
  BY <1>5 DEF CheckSlug, InsertTenant, Found, Duplicate, RegisterFails, SetStatus, Commit
<1>6. ASSUME NEW p \in Requests,
             \/ LoginTenant(p) \/ LoginUser(p) \/ LoginPassword(p) \/ LoginFails(p)
             \/ AskUser(p) \/ AskTenant(p) \/ Answer(p)
             \/ List(p) \/ \E d \in Docs : FindOne(p, d) \/ Upload(p, d)
      PROVE  UNCHANGED seen \/ Over(p)
  BY <1>6 DEF LoginTenant, LoginUser, LoginPassword, LoginFails, AskUser,
              AskTenant, Answer, List, FindOne, Upload, Query, Finds
<1>7. ASSUME NEW p \in Requests,
             (\E s \in Slugs : Login(p, s)) \/ \E f \in Founders : Ask(p, f)
      PROVE  \E r : Starts(p, r)
  BY <1>7 DEF Login, Ask
<1> QED
  BY <1>1, <1>2, <1>3, <1>4, <1>5, <1>6, <1>7 DEF Next, vars

\* Tokens stay valid, and are issued to the owner of a new tenant or to one
\* whose tenant the login has seen.
LEMMA SessionsStep ==
  ASSUME AccountsInv, Known, [Next]_vars
  PROVE  /\ sessions \subseteq sessions'
         /\ \A f \in sessions' : Exists(f)'
<1>1. \A f \in sessions : f \in Founders /\ Exists(f) /\ Exists(f)'
  BY TenantsStay DEF Known, AccountsInv, TypeOK
<1>2. CASE UNCHANGED sessions
  BY <1>1, <1>2
<1>3. ASSUME NEW f \in Founders, Found(f)
      PROVE  sessions' = sessions \cup {f} /\ Exists(f)'
  BY <1>3 DEF Found, Commit, Exists, AccountsInv, TypeOK
<1>4. ASSUME NEW q \in Requests, LoginPassword(q)
      PROVE  \/ UNCHANGED sessions
             \/ \E f \in Founders : sessions' = sessions \cup {f} /\ Exists(f)'
  <2>1. PICK f \in Founders : f = request[q].of /\ <<f, "tenant">> \in seen[q]
    BY <1>4 DEF LoginPassword, At, AccountsInv, RequestInv, LoginInv
  <2>2. Exists(f)'
    BY <2>1, TenantsStay DEF Known
  <2> QED
    BY <1>4, <2>1, <2>2 DEF LoginPassword
<1>5. ASSUME NEW f \in Founders,
             \/ CheckSlug(f) \/ InsertTenant(f) \/ Duplicate(f)
             \/ RegisterFails(f) \/ SetStatus(f)
      PROVE  UNCHANGED sessions
  BY <1>5 DEF CheckSlug, InsertTenant, Duplicate, RegisterFails, SetStatus
<1>6. ASSUME NEW q \in Requests,
             \/ LoginTenant(q) \/ LoginUser(q) \/ LoginFails(q)
             \/ AskUser(q) \/ AskTenant(q) \/ Answer(q)
             \/ \E s \in Slugs : Login(q, s)
             \/ \E f \in Founders : Ask(q, f)
             \/ List(q) \/ \E d \in Docs : FindOne(q, d) \/ Upload(q, d)
      PROVE  UNCHANGED sessions
  BY <1>6 DEF LoginTenant, LoginUser, LoginFails, AskUser, AskTenant, Answer,
              Login, Ask, Starts, List, FindOne, Upload, Query, Finds
<1> QED
  BY <1>1, <1>2, <1>3, <1>4, <1>5, <1>6 DEF Next, vars

\* A call keeps the token it came with.
LEMMA CallStep ==
  ASSUME AccountsInv, Known, [Next]_vars, NEW q \in Requests,
         request'[q] # None, request'[q].kind = "call"
  PROVE  request'[q].of \in sessions
<1> USE DEF AccountsInv, TypeOK
<1>1. CASE request'[q] = request[q]
  BY <1>1 DEF Known
<1>2. ASSUME NEW p \in Requests, Over(p) PROVE request'[q] = request[q]
  BY <1>2 DEF Over
<1>3. ASSUME NEW p \in Requests, NEW f \in Founders, NEW phase,
             request[p] # None, GoesOn(p, f, phase),
             \/ /\ request[p].kind = "login"
                /\ phase \in {"user", "password", "issued"}
             \/ /\ request[p].kind = "call" /\ f = request[p].of
                /\ phase \in {"tenant", "admitted"}
      PROVE  request'[q].of \in sessions
  BY <1>3, GoesOnAs DEF Known
<1>4. ASSUME NEW p \in Requests, NEW docs, Finds(p, docs), At(p, "call", "admitted")
      PROVE  request'[q].of \in sessions
  <2> DEFINE new == [request[p] EXCEPT !.found = docs, !.phase = "served"]
  <2>1. request' = [request EXCEPT ![p] = new] /\ request[p] \in Request
    BY <1>4 DEF Finds, At
  <2>2. new.of = request[p].of
    BY <1>4, <2>1 DEF At, Request
  <2> HIDE DEF new
  <2> QED
    BY <1>4, <2>1, <2>2 DEF Known, At
<1>5. ASSUME NEW p \in Requests,
             \/ LoginTenant(p) \/ LoginUser(p) \/ LoginPassword(p)
             \/ AskUser(p) \/ AskTenant(p)
      PROVE  request'[q].of \in sessions
  <2>1. /\ request[p] # None /\ request[p] \in Request
        /\ request[p].kind = "login" /\ request[p].phase # "tenant" =>
             request[p].of \in Founders
        /\ request[p].kind = "call" => request[p].of \in Founders
    BY <1>5 DEF LoginTenant, LoginUser, LoginPassword, AskUser, AskTenant, At,
                RequestInv, LoginInv, Request
  <2> QED
    BY <1>1, <1>2, <1>3, <1>5, <2>1
       DEF LoginTenant, LoginUser, LoginPassword, AskUser, AskTenant, At
<1>6. ASSUME NEW p \in Requests,
             LoginFails(p) \/ Answer(p)
      PROVE  Over(p)
  BY <1>6 DEF LoginFails, Answer
<1>7. ASSUME NEW p \in Requests,
             List(p) \/ \E d \in Docs : FindOne(p, d) \/ Upload(p, d)
      PROVE  At(p, "call", "admitted") /\ \E docs : Finds(p, docs)
  BY <1>7 DEF List, FindOne, Upload, Query
<1>8. ASSUME NEW p \in Requests, NEW s \in Slugs, Login(p, s)
      PROVE  request'[q] = request[q]
  BY <1>8 DEF Login, Starts
<1>9. ASSUME NEW p \in Requests, NEW f \in Founders, Ask(p, f)
      PROVE  request'[q].of \in sessions
  BY <1>1, <1>9 DEF Ask, Starts
<1>10. ASSUME NEW f \in Founders,
              \/ CheckSlug(f) \/ InsertTenant(f) \/ Found(f)
              \/ Duplicate(f) \/ RegisterFails(f) \/ SetStatus(f)
       PROVE  request'[q] = request[q]
  BY <1>10 DEF CheckSlug, InsertTenant, Found, Duplicate, RegisterFails, SetStatus, Commit
<1> QED
  BY <1>1, <1>2, <1>4, <1>5, <1>6, <1>7, <1>8, <1>9, <1>10 DEF Next, vars

LEMMA KnownStep ==
  ASSUME AccountsInv, Known, [Next]_vars
  PROVE  Known'
<1>1. ASSUME NEW q \in Requests, NEW f \in Founders, <<f, "tenant">> \in seen'[q]
      PROVE  Exists(f)'
  <2>1. CASE <<f, "tenant">> \in seen[q]
    BY <2>1, TenantsStay DEF Known
  <2>2. CASE <<f, "tenant">> \in Active(tenants, owners)
    BY <2>2, TenantsStay DEF Active, Exists
  <2>3. CASE <<f, "tenant">> \in Active(tenants', owners')
    BY <2>3 DEF Active, Exists
  <2> QED
    BY <1>1, <2>1, <2>2, <2>3, SeenStep
<1>2. ASSUME NEW q \in Requests, request'[q] # None, request'[q].kind = "call"
      PROVE  request'[q].of \in sessions'
  BY <1>2, CallStep, SessionsStep
<1> QED
  BY <1>1, <1>2, SessionsStep DEF Known

\* A transaction enters the tenant into the register.
LEMMA CommitEnters ==
  ASSUME AccountsInv, NEW f \in Founders, NEW answer,
         Commit(f, answer),
         sessions' \in {sessions, sessions \cup {f}}
  PROVE  Registry!Enter(slug[f], f)
<1> USE DEF AccountsInv, TypeOK
<1>1. /\ slug' = slug /\ documents' = documents /\ ~Exists(f)
      /\ \A g \in Founders : Exists(g)' <=> Exists(g) \/ g = f
      /\ ~Taken(slug[f])
  BY DEF Commit, Settled, Reserved, Exists
<1>2. {<<slug'[g], g>> : g \in {h \in Founders : Exists(h)'}} =
        {<<slug[g], g>> : g \in {h \in Founders : Exists(h)}} \cup {<<slug[f], f>>}
  BY <1>1
<1> QED
  BY <1>1, <1>2 DEF Registry!Enter, Registry!Registered, Taken

\* Every step of the accounts is a step of the register, or none.
LEMMA RegistryStep ==
  ASSUME AccountsInv, Known, [Next]_vars
  PROVE  [Registry!RegistryNext]_(Registry!registryVars)
<1> USE DEF AccountsInv, TypeOK
<1> DEFINE register == {<<slug[f], f>> : f \in {g \in Founders : Exists(g)}}
<1>1. ASSUME slug' = slug, \A f \in Founders : Exists(f)' <=> Exists(f)
      PROVE  register' = register
  BY <1>1
<1>2. ASSUME UNCHANGED <<slug, tenants>> PROVE register' = register
  BY <1>2 DEF Exists
<1>3. CASE UNCHANGED vars
  BY <1>2, <1>3 DEF vars, database, Registry!registryVars
<1>4. ASSUME NEW f \in Founders, Found(f) \/ RegisterFails(f)
      PROVE  \/ Registry!Enter(slug[f], f)
             \/ UNCHANGED <<slug, tenants, sessions, documents>>
  BY <1>4, CommitEnters DEF Found, RegisterFails, database
<1>5. ASSUME NEW f \in Founders, CheckSlug(f) \/ InsertTenant(f) \/ Duplicate(f)
      PROVE  UNCHANGED <<slug, tenants, sessions, documents>>
  BY <1>5 DEF CheckSlug, InsertTenant, Duplicate, database
<1>6. ASSUME NEW f \in Founders, SetStatus(f)
      PROVE  /\ slug' = slug /\ \A g \in Founders : Exists(g)' <=> Exists(g)
             /\ UNCHANGED <<sessions, documents>>
  BY <1>6 DEF SetStatus, Toggle, Exists
<1>7. ASSUME NEW q \in Requests, LoginPassword(q)
      PROVE  \/ UNCHANGED <<slug, tenants, sessions, documents>>
             \/ /\ request[q].of \in Founders
                /\ Registry!Admit(request[q].of)
  <2>1. /\ request[q].of \in Founders
        /\ <<request[q].of, "tenant">> \in seen[q]
    BY <1>7 DEF LoginPassword, At, RequestInv, LoginInv
  <2>2. Exists(request[q].of) /\ slug[request[q].of] \in Slugs
    BY <2>1 DEF Known
  <2>3. UNCHANGED <<slug, tenants, documents>>
    BY <1>7 DEF LoginPassword, database
  <2>4. Registry!Registered(request[q].of)
    BY <2>1, <2>2 DEF Registry!Registered
  <2>5. register' = register
    BY <1>2, <2>3
  <2> HIDE DEF register
  <2> QED
    BY <1>7, <2>1, <2>3, <2>4, <2>5 DEF LoginPassword, Registry!Admit, register
<1>8. ASSUME NEW q \in Requests, NEW d \in Docs, Upload(q, d)
      PROVE  /\ request[q].of \in Founders
             /\ Registry!File(d, request[q].of)
  <2>1. request[q].of \in Founders /\ request[q].of \in sessions
    BY <1>8 DEF Upload, At, Known, Request
  <2>2. /\ documents[d] = None
        /\ documents' = [documents EXCEPT ![d] = request[q].of]
        /\ UNCHANGED <<slug, tenants, sessions>>
    BY <1>8 DEF Upload, Finds, Scoped, CreateOperations
  <2>3. register' = register
    BY <1>2, <2>2
  <2> QED
    BY <2>1, <2>2, <2>3 DEF Registry!File
<1>9. ASSUME NEW q \in Requests,
             \/ LoginTenant(q) \/ LoginUser(q) \/ LoginFails(q)
             \/ AskUser(q) \/ AskTenant(q) \/ Answer(q)
             \/ \E s \in Slugs : Login(q, s)
             \/ \E f \in Founders : Ask(q, f)
             \/ List(q) \/ \E d \in Docs : FindOne(q, d)
      PROVE  UNCHANGED <<slug, tenants, sessions, documents>>
  BY <1>9 DEF LoginTenant, LoginUser, LoginFails, AskUser, AskTenant, Answer,
              Login, Ask, Starts, List, FindOne, Query, Finds, database
<1>10. ASSUME slug' = slug, \A f \in Founders : Exists(f)' <=> Exists(f),
              UNCHANGED <<sessions, documents>>
       PROVE  UNCHANGED Registry!registryVars
  BY <1>1, <1>10 DEF Registry!registryVars
<1>11. ASSUME UNCHANGED <<slug, tenants, sessions, documents>>
       PROVE  UNCHANGED Registry!registryVars
  BY <1>2, <1>11 DEF Registry!registryVars
<1> HIDE DEF register
<1>12. ASSUME NEW f \in Founders, Registry!Enter(slug[f], f)
       PROVE  Registry!RegistryNext
  BY <1>12 DEF Registry!RegistryNext
<1>13. ASSUME NEW f \in Founders,
              Registry!Admit(f) \/ \E d \in Docs : Registry!File(d, f)
       PROVE  Registry!RegistryNext
  BY <1>13 DEF Registry!RegistryNext
<1> QED
  BY <1>3, <1>4, <1>5, <1>6, <1>7, <1>8, <1>9, <1>10, <1>11, <1>12, <1>13 DEF Next

\* Registrations, logins and uploads implement the register of tenants: a slug
\* is given once and for good, tokens are for tenants that have one, and a
\* document stays with the tenant it was uploaded for.
THEOREM ImplementsRegistry == Spec => RegistrySpec
<1>1. Init => Known /\ Registry!RegistryInit
  BY DEF Init, Known, Exists, Registry!RegistryInit
<1>2. AccountsInv /\ Known /\ [Next]_vars => Known'
  BY KnownStep
<1>3. AccountsInv /\ Known /\ [Next]_vars
        => [Registry!RegistryNext]_(Registry!registryVars)
  BY RegistryStep
<1> QED
  BY <1>1, <1>2, <1>3, AccountsInOrder, PTL
     DEF Spec, RegistrySpec, Registry!RegistrySpec
=============================================================================
