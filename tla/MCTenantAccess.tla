-------------------------- MODULE MCTenantAccess --------------------------
(***************************************************************************)
(* Values of the constants of TenantAccess for TLC, and two instances of   *)
(* it, chosen in the initial state: requests that race about one tenant,   *)
(* and two tenants whose members act on each other, one at a time.         *)
(***************************************************************************)
EXTENDS TenantAccess

CONSTANTS a, b, u1, u2, w, r1, r2

VARIABLE scene

\* Two users of one tenant, and one of another who can act from outside.
TwoHomes == [u \in Users |-> IF u = w THEN b ELSE a]

OnlyTenant(t) == \A other \in Tenants \ {t} : tenants[other].status = "absent"

OnlyUsers(some) == \A u \in Users \ some : users[u] = "absent"

InScene ==
  \/ /\ scene = "setup" /\ OnlyTenant(a) /\ OnlyUsers({u1, u2})
     /\ ~tenants[a].trashed
     /\ cited = {} /\ held = {} /\ \A u \in Users : users[u] # "inactive"
  \/ scene = "purge" /\ OnlyTenant(a) /\ OnlyUsers({u1})
  \/ /\ scene = "outside" /\ OnlyUsers({u1, w}) /\ req[r2].pc = "idle"
     /\ users[w] # "inactive"

MCInit == Init /\ scene \in {"setup", "purge", "outside"}

Stay == UNCHANGED scene /\ InScene'

MCNext == Next /\ Stay

MCSpec ==
  /\ MCInit /\ [][MCNext]_<<vars, scene>>
  /\ \A r \in Requests : WF_vars(Proceed(r) /\ Stay)
  /\ \A u \in Users : WF_vars(Expire(u) /\ Stay)
===========================================================================
