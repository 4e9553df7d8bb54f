------------------------------ MODULE Accounts ------------------------------
(***************************************************************************)
(* Tenants, their owners, who is let in and which documents he sees        *)
(* (auth.service.ts, jwt.strategy.ts, documents.service.ts): registration, *)
(* login, the check on every request and the queries behind it,            *)
(* interleaved at their database statements, while an administrator        *)
(* suspends and reinstates users and tenants in the database.              *)
(*                                                                         *)
(* A registration that succeeds creates one tenant and its owner, which    *)
(* the model names after the registration.  Tokens are stateless: whoever  *)
(* was given some keeps renewing them without a look at the database       *)
(* (AuthService.refresh), so they never run out here; a request with an    *)
(* expired or forged token is refused before it reaches these steps.       *)
(***************************************************************************)
EXTENDS TenantScope

CONSTANTS
  Founders,   \* the registrations, and the tenant and owner each may create
  Slugs,
  Requests,   \* the logins and API calls under way at one time; a bound
  Docs,       \* the documents that may be uploaded; a bound
  Faults      \* "db": a statement of a registration or login throws;
              \* "ack": the registration's transaction is committed, but
              \* the connection drops before the answer

ASSUME AccountsAssumption ==
  /\ None \notin Founders \cup Docs
  /\ Faults \subseteq {"db", "ack"}

VARIABLES
  slug,       \* the slug each registration asks for
  reg,        \* how far each registration has come; "inserted" while its
              \* transaction has written the tenant and is not committed
  tenants,    \* the status of each tenant; "SUSPENDED" stands for not ACTIVE
  owners,     \* the status of each owner, likewise
  documents,  \* the tenantId of each document, None before it exists
  sessions,   \* the owners for whom tokens have been issued
  request,    \* each login or API call
  seen,       \* ghost: the rows that were ACTIVE at some time of each request
  troubled    \* ghost: the registrations that met a fault

database == <<tenants, owners, documents>>
vars == <<slug, reg, database, sessions, request, seen, troubled>>

RegState == {"new", "checked", "inserted", "created", "conflict", "error"}
Status   == {"none", "ACTIVE", "SUSPENDED"}

\* A login reads the tenant by its slug, then the owner, then compares the
\* password; a call reads the token's owner, then the owner's tenant, and then
\* runs its query.
Request ==
  [kind: {"login"}, slug: Slugs, of: Founders \cup {None},
   phase: {"tenant", "user", "password", "issued"}]
  \cup
  [kind: {"call"}, of: Founders, found: SUBSET Docs,
   phase: {"user", "tenant", "admitted", "served"}]

ASSUME RequestAssumption == None \notin Request

TypeOK ==
  /\ slug \in [Founders -> Slugs]
  /\ reg \in [Founders -> RegState]
  /\ tenants \in [Founders -> Status]
  /\ owners \in [Founders -> Status]
  /\ documents \in [Docs -> Founders \cup {None}]
  /\ sessions \subseteq Founders
  /\ request \in [Requests -> Request \cup {None}]
  /\ seen \in [Requests -> SUBSET (Founders \X {"tenant", "user"})]
  /\ troubled \subseteq Founders

Init ==
  /\ slug \in [Founders -> Slugs]
  /\ reg = [f \in Founders |-> "new"]
  /\ tenants = [f \in Founders |-> "none"]
  /\ owners = [f \in Founders |-> "none"]
  /\ documents = [d \in Docs |-> None]
  /\ sessions = {}
  /\ request = [q \in Requests |-> None]
  /\ seen = [q \in Requests |-> {}]
  /\ troubled = {}

Exists(f) == tenants[f] # "none"
Taken(s) == \E f \in Founders : Exists(f) /\ slug[f] = s

Active(ts, us) ==
  {<<f, "tenant">> : f \in {g \in Founders : ts[g] = "ACTIVE"}}
  \cup {<<f, "user">> : f \in {g \in Founders : us[g] = "ACTIVE"}}

\* What every request under way has seen after tenants and owners changed.
Watch ==
  seen' = [q \in Requests |->
    IF request[q] = None THEN {} ELSE seen[q] \cup Active(tenants', owners')]

-----------------------------------------------------------------------------
(* AuthService.register                                                    *)

Registered(f, state) == reg' = [reg EXCEPT ![f] = state]

\* tenant.findUnique by slug; hashing the password follows.
CheckSlug(f) ==
  /\ reg[f] = "new"
  /\ Registered(f, IF Taken(slug[f]) THEN "conflict" ELSE "checked")
  /\ UNCHANGED <<slug, database, sessions, request, seen, troubled>>

\* Another transaction holds the slug in the unique index: its tenant is seen by
\* nobody else yet, and an insert of the same slug waits for its end.
Held(s) == \E f \in Founders : reg[f] = "inserted" /\ slug[f] = s

\* Without the transaction the tenant is there at once.
InsertAtOnce(f) ==
  /\ reg[f] = "checked" /\ ~Taken(slug[f]) /\ ~Held(slug[f])
  /\ Registered(f, "inserted")
  /\ tenants' = [tenants EXCEPT ![f] = "ACTIVE"]
  /\ Watch
  /\ UNCHANGED <<slug, owners, documents, sessions, request, troubled>>

\* A slug column without the unique index.
InsertUnchecked(f) ==
  /\ reg[f] = "checked"
  /\ Registered(f, "inserted")
  /\ UNCHANGED <<slug, database, sessions, request, seen, troubled>>

\* tx.tenant.create, the first statement of the transaction.
InsertTenant(f) ==
  /\ reg[f] = "checked" /\ ~Taken(slug[f]) /\ ~Held(slug[f])
  /\ Registered(f, "inserted")
  /\ UNCHANGED <<slug, database, sessions, request, seen, troubled>>

\* tx.user.create and the commit: both rows are there.
Commit(f, answer) ==
  /\ reg[f] = "inserted"
  /\ tenants' = [tenants EXCEPT ![f] = "ACTIVE"]
  /\ owners' = [owners EXCEPT ![f] = "ACTIVE"]
  /\ Registered(f, answer)
  /\ Watch
  /\ UNCHANGED <<slug, documents, request>>

\* Tokens that carry the slug for the tenant's id.
FoundBySlug(f) ==
  /\ Commit(f, "created")
  /\ sessions' = sessions \cup {slug[f]}
  /\ UNCHANGED troubled

Found(f) ==
  /\ Commit(f, "created")
  /\ sessions' = sessions \cup {f}
  /\ UNCHANGED troubled

\* The unique index refuses the slug: an error of the database, not a 409.
Duplicate(f) ==
  /\ reg[f] = "checked" /\ Taken(slug[f])
  /\ Registered(f, "error")
  /\ UNCHANGED <<slug, database, sessions, request, seen, troubled>>

\* A statement throws and the transaction, if there is one, is rolled back; or
\* only the answer of the commit is lost.
RegisterFails(f) ==
  /\ troubled' = troubled \cup {f}
  /\ \/ /\ "db" \in Faults
        /\ reg[f] \in {"new", "checked", "inserted"}
        /\ Registered(f, "error")
        /\ UNCHANGED <<slug, database, request, seen>>
     \/ /\ "ack" \in Faults
        /\ Commit(f, "error")
  /\ UNCHANGED sessions

-----------------------------------------------------------------------------
(* AuthService.login                                                       *)

Starts(q, r) ==
  /\ request[q] = None
  /\ request' = [request EXCEPT ![q] = r]
  /\ seen' = [seen EXCEPT ![q] = Active(tenants, owners)]
  /\ UNCHANGED <<slug, reg, database, sessions, troubled>>

\* Goes on in the given phase, about f.
GoesOn(q, f, phase) ==
  request' = [request EXCEPT ![q].of = f, ![q].phase = phase]

Over(q) == /\ request' = [request EXCEPT ![q] = None]
           /\ seen' = [seen EXCEPT ![q] = {}]

At(q, kind, phase) ==
  request[q] # None /\ request[q].kind = kind /\ request[q].phase = phase

Login(q, s) ==
  Starts(q, [kind |-> "login", slug |-> s, of |-> None, phase |-> "tenant"])

LoginTenant(q) ==
  /\ At(q, "login", "tenant")
  /\ \/ /\ \E f \in Founders : /\ slug[f] = request[q].slug
                               /\ tenants[f] = "ACTIVE"
                               /\ GoesOn(q, f, "user")
        /\ UNCHANGED seen
     \/ /\ \A f \in Founders :
             slug[f] = request[q].slug => tenants[f] # "ACTIVE"
        /\ Over(q)
  /\ UNCHANGED <<slug, reg, database, sessions, troubled>>

\* A login that does not ask whether the user is still active.
LoginUserUnchecked(q) ==
  /\ At(q, "login", "user")
  /\ GoesOn(q, request[q].of, "password")
  /\ UNCHANGED <<slug, reg, database, sessions, seen, troubled>>

LoginUser(q) ==
  /\ At(q, "login", "user")
  /\ IF owners[request[q].of] = "ACTIVE"
       THEN GoesOn(q, request[q].of, "password") /\ UNCHANGED seen
       ELSE Over(q)
  /\ UNCHANGED <<slug, reg, database, sessions, troubled>>

\* The password is right, lastLoginAt is written, tokens are issued; or one
\* of the three fails.
LoginPassword(q) ==
  /\ At(q, "login", "password")
  /\ \/ /\ GoesOn(q, request[q].of, "issued")
        /\ sessions' = sessions \cup {request[q].of}
        /\ UNCHANGED seen
     \/ Over(q) /\ UNCHANGED sessions
  /\ UNCHANGED <<slug, reg, database, troubled>>

LoginFails(q) ==
  /\ "db" \in Faults
  /\ At(q, "login", "tenant") \/ At(q, "login", "user")
  /\ Over(q)
  /\ UNCHANGED <<slug, reg, database, sessions, troubled>>

-----------------------------------------------------------------------------
(* JwtStrategy.validate, for a request with a valid token of f's owner.    *)

Ask(q, f) ==
  /\ f \in sessions
  /\ Starts(q, [kind |-> "call", of |-> f, found |-> {}, phase |-> "user"])

AskUser(q) ==
  /\ At(q, "call", "user")
  /\ IF owners[request[q].of] = "ACTIVE"
       THEN GoesOn(q, request[q].of, "tenant") /\ UNCHANGED seen
       ELSE Over(q)
  /\ UNCHANGED <<slug, reg, database, sessions, troubled>>

\* The status of the tenant is not looked at.
AskTenantUnchecked(q) ==
  /\ At(q, "call", "tenant")
  /\ GoesOn(q, request[q].of, "admitted")
  /\ UNCHANGED <<slug, reg, database, sessions, seen, troubled>>

\* The included tenant is a second SELECT.
AskTenant(q) ==
  /\ At(q, "call", "tenant")
  /\ IF tenants[request[q].of] = "ACTIVE"
       THEN GoesOn(q, request[q].of, "admitted") /\ UNCHANGED seen
       ELSE Over(q)
  /\ UNCHANGED <<slug, reg, database, sessions, troubled>>

-----------------------------------------------------------------------------
(* DocumentsService, for an admitted call.                                 *)

Finds(q, docs) ==
  /\ request' = [request EXCEPT ![q].found = docs, ![q].phase = "served"]
  /\ UNCHANGED <<slug, reg, tenants, owners, sessions, seen, troubled>>

Query(q, operation, args) ==
  LET scoped == Scoped(operation, args, request[q].of)
  IN Finds(q, Selected(documents, scoped)) /\ UNCHANGED documents

FindOne(q, d) ==
  At(q, "call", "admitted") /\ Query(q, "findUnique", WithId(d))

\* A page of the list; one page holds all documents.
List(q) == At(q, "call", "admitted") /\ Query(q, "findMany", Anything)

Upload(q, d) ==
  /\ At(q, "call", "admitted")
  /\ documents[d] = None
  /\ documents' = [documents EXCEPT
       ![d] = Scoped("create", WithId(d), request[q].of).tenant]
  /\ Finds(q, {d})

Answer(q) ==
  /\ At(q, "login", "issued") \/ At(q, "call", "served")
  /\ Over(q)
  /\ UNCHANGED <<slug, reg, database, sessions, troubled>>

-----------------------------------------------------------------------------
(* The administrator, by SQL: no code of the repository changes a status.  *)

Toggle(status) == IF status = "ACTIVE" THEN "SUSPENDED" ELSE "ACTIVE"

SetStatus(f) ==
  /\ Exists(f)
  /\ \/ /\ tenants' = [tenants EXCEPT ![f] = Toggle(@)]
        /\ UNCHANGED owners
     \/ /\ owners' = [owners EXCEPT ![f] = Toggle(@)]
        /\ UNCHANGED tenants
  /\ Watch
  /\ UNCHANGED <<slug, reg, documents, sessions, request, troubled>>

-----------------------------------------------------------------------------
Next ==
  \/ \E f \in Founders : \/ CheckSlug(f) \/ InsertTenant(f) \/ Found(f)
                         \/ Duplicate(f) \/ RegisterFails(f) \/ SetStatus(f)
  \/ \E q \in Requests :
       \/ LoginTenant(q) \/ LoginUser(q) \/ LoginPassword(q) \/ LoginFails(q)
       \/ AskUser(q) \/ AskTenant(q) \/ Answer(q)
       \/ \E s \in Slugs : Login(q, s)
       \/ \E f \in Founders : Ask(q, f)
       \/ List(q) \/ \E d \in Docs : FindOne(q, d) \/ Upload(q, d)

Spec == Init /\ [][Next]_vars

-----------------------------------------------------------------------------
\* However registrations race between their check and their transaction, and
\* wherever the transaction breaks off (lines 31-59), a slug names at most one
\* tenant, that tenant has its owner, and whoever was turned away without a
\* fault was so because another registration has the slug.
SlugsAreSettled ==
  \A f \in Founders :
    /\ Exists(f) <=> owners[f] # "none"
    /\ \A g \in Founders : Exists(f) /\ Exists(g) /\ slug[f] = slug[g] => f = g
    /\ reg[f] \in {"conflict", "error"} /\ f \notin troubled =>
         ~Exists(f) /\ Taken(slug[f])

Admitted(q) == {<<request[q].of, "tenant">>, <<request[q].of, "user">>}
                 \subseteq seen[q]

\* jwt.strategy.ts:29-30: "a suspended user's existing token stops working at
\* once".  A request gets to its query only if its user and its user's tenant
\* were ACTIVE at some time since it was made, however long ago the token was
\* issued and whatever the administrator does meanwhile.
SuspensionStopsCalls ==
  \A q \in Requests : At(q, "call", "admitted") => Admitted(q)

\* Whatever a request is answered belongs to the tenant of the user whose
\* token it carried (lines 45, 77 and 105 of documents.service.ts).
TenantsAreApart ==
  \A q \in Requests : At(q, "call", "served") =>
    \A d \in request[q].found : documents[d] = request[q].of

\* A login issues tokens only for a user and a tenant that were ACTIVE at
\* some time since it was made (lines 80-100).
SuspensionStopsLogins ==
  \A q \in Requests : At(q, "login", "issued") => Admitted(q)

\* Registrations, logins and uploads implement the register: whatever races,
\* fails or is suspended, a slug once given stays with its tenant, tokens are
\* for tenants that have one, and documents never change hands.
Registry == INSTANCE TenantRegistry WITH
  Tenants  <- Founders,
  register <- {<<slug[f], f>> : f \in {g \in Founders : Exists(g)}},
  members  <- sessions,
  filed    <- documents

RegistrySpec == Registry!RegistrySpec
=============================================================================
