--------------------------- MODULE TenantRegistry ---------------------------
(***************************************************************************)
(* What registration, login and upload promise the tenants: a register of  *)
(* slugs, in which nothing is ever struck out or overwritten.              *)
(*                                                                         *)
(* A slug is entered for one tenant, once; only the people of a tenant in  *)
(* the register get tokens; and a document is filed under a tenant in the  *)
(* register, once, and stays there.                                        *)
(***************************************************************************)
CONSTANTS Tenants, Slugs, Docs, None

VARIABLES
  register,  \* the pairs of a slug and its tenant
  members,   \* the tenants whose people have been given tokens
  filed      \* the tenant of each document, None before it exists

registryVars == <<register, members, filed>>

RegistryInit ==
  /\ register = {}
  /\ members = {}
  /\ filed = [d \in Docs |-> None]

Registered(t) == \E s \in Slugs : <<s, t>> \in register

\* A tenant gets a slug nobody has, and its founder may get tokens with it.
Enter(s, t) ==
  /\ ~Registered(t)
  /\ \A u \in Tenants : <<s, u>> \notin register
  /\ register' = register \cup {<<s, t>>}
  /\ members' \in {members, members \cup {t}}
  /\ UNCHANGED filed

Admit(t) ==
  /\ Registered(t)
  /\ members' = members \cup {t}
  /\ UNCHANGED <<register, filed>>

\* Only somebody with a token files a document, and under his own tenant.
File(d, t) ==
  /\ t \in members
  /\ filed[d] = None
  /\ filed' = [filed EXCEPT ![d] = t]
  /\ UNCHANGED <<register, members>>

RegistryNext ==
  \E t \in Tenants :
    \/ Admit(t)
    \/ \E s \in Slugs : Enter(s, t)
    \/ \E d \in Docs : File(d, t)

RegistrySpec == RegistryInit /\ [][RegistryNext]_registryVars
=============================================================================
