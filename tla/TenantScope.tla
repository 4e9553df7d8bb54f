---------------------------- MODULE TenantScope -----------------------------
(***************************************************************************)
(* PrismaService.forTenant: the database client whose every query on the   *)
(* documents is confined to one tenant, by rewriting the arguments of the  *)
(* query.  Kept of the arguments: the id asked for and the tenantId, in    *)
(* `where` or in `data`, each None when absent.  Modelled are the          *)
(* operations the services and the worker use.                             *)
(***************************************************************************)
CONSTANT None

ReadOperations   == {"findUnique", "findMany", "count"}
CreateOperations == {"create"}
ChangeOperations == {"update"}

Anything == [id |-> None, tenant |-> None]
WithId(d) == [id |-> d, tenant |-> None]

\* An extension that forgets the reads by a unique key.
ScopedButById(operation, args, t) ==
  IF operation \in (ReadOperations \ {"findUnique"}) \cup CreateOperations
                     \cup ChangeOperations
    THEN [args EXCEPT !.tenant = t]
    ELSE args

\* The tenant is put in last: a tenantId of the caller's does not survive.
Scoped(operation, args, t) ==
  IF operation \in ReadOperations \cup CreateOperations \cup ChangeOperations
    THEN [args EXCEPT !.tenant = t]
    ELSE args

\* The rows of a table of tenants that a `where` selects.
Selected(table, where) ==
  {d \in DOMAIN table : /\ table[d] # None
                        /\ where.id \in {None, d}
                        /\ where.tenant \in {None, table[d]}}
=============================================================================
