--------------------------- MODULE TenantAccess ---------------------------
(***************************************************************************)
(* Who may act: tenants and their users, first-time setup, login by        *)
(* password and by LINE, renewal of tokens, the check of the tenant's      *)
(* status in front of every handler, the handlers that change tenants and  *)
(* users, and the entry of the audit log written behind them.              *)
(*                                                                         *)
(* A step is one SQL statement with the computation after it; none of the  *)
(* handlers opens a transaction.  Tokens are signed values: the server     *)
(* keeps no record of them, and one is valid until it expires.             *)
(***************************************************************************)
EXTENDS Naturals

CONSTANTS
  Tenants,   \* tenants by their tax number, which is unique
  Users,     \* the identifiers the users table may hand out
  Home,      \* the tenant a user is created in; no statement changes it
  Requests,  \* requests the server handles at once
  Faults,    \* which statements may fail on their own: "read", "write"
  NoUser,
  NoTenant

ASSUME AccessAssumption ==
  /\ Home \in [Users -> Tenants]
  /\ Faults \subseteq {"read", "write"}
  /\ NoUser \notin Users
  /\ NoTenant \notin Tenants

VARIABLES
  tenants,   \* the tenants table
  users,     \* the users table
  tokens,    \* the unexpired tokens somebody holds, by user
  cited,     \* users that audit_logs or document_imports refer to
  held,      \* tenants that they refer to
  req,       \* the requests in progress
  founders   \* history: users created by setup

vars == <<tenants, users, tokens, cited, held, req, founders>>

-----------------------------------------------------------------------------
(* "open" stands for active and inactive: only "suspended" is ever tested. *)

TenantRow == [status : {"absent", "open", "suspended", "removed"},
              trashed : BOOLEAN]

TokenKinds == {"access", "refresh"}

Request == [pc : {"idle", "setupTenant", "setupUser", "token", "lineUser",
                  "handler", "audit"},
            user : Users \cup {NoUser}, tenant : Tenants \cup {NoTenant},
            renewable : BOOLEAN]

Idle == [pc |-> "idle", user |-> NoUser, tenant |-> NoTenant, renewable |-> FALSE]

TenantExists(t) == tenants[t].status \in {"open", "suspended"}

Suspended(t) == tenants[t].status = "suspended"

UserExists(u) == users[u] \in {"active", "inactive"}

At(r, pc) == req[r].pc = pc

\* The tenant whose status a request depends on: the one in its token.
Own(r) == Home[req[r].user]

Goto(r, pc) == req' = [req EXCEPT ![r].pc = pc]

Finish(r) == req' = [req EXCEPT ![r] = Idle]

\* Foreign keys without a cascade keep who is referred to, and the tenant's users
\* are among those who would go.
Removable(t) == t \notin held /\ \A u \in cited : Home[u] # t

Init ==
  /\ tenants = [t \in Tenants |-> [status |-> "absent", trashed |-> FALSE]]
  /\ users = [u \in Users |-> "absent"]
  /\ tokens = [u \in Users |-> {}]
  /\ cited = {}
  /\ held = {}
  /\ req = [r \in Requests |-> Idle]
  /\ founders = {}

-----------------------------------------------------------------------------
(* The statements of the store, with the constraints of the schema.        *)

\* INSERT INTO tenants: refused when the tax number is taken.
InsertTenant(t) ==
  /\ tenants[t].status = "absent"
  /\ tenants' = [tenants EXCEPT ![t].status = "open"]

\* Variant with a bug: the row that has the tax number is returned instead.
InsertOrGetTenant(t) ==
  /\ tenants[t].status # "removed"
  /\ tenants' = IF TenantExists(t) THEN tenants
                ELSE [tenants EXCEPT ![t].status = "open"]

\* No identifier is left for a user of the tenant: the bound of the model, which
\* the code meets as an insert that fails.
NoneLeft(t) == \A u \in Users : Home[u] = t => users[u] # "absent"

InsertUserFails(t) == "write" \in Faults \/ NoneLeft(t) \/ ~TenantExists(t)

\* INSERT INTO users: the tenant must exist, in whatever status.
InsertUser(u) ==
  /\ users[u] = "absent"
  /\ TenantExists(Home[u])
  /\ users' = [users EXCEPT ![u] = "active"]

\* What the lookups by id, email and LINE id have in common.
FoundActive(u) == users[u] = "active"

-----------------------------------------------------------------------------
(* First-time setup: three statements.                                     *)

HasAnyUser(r) ==
  /\ At(r, "idle")
  /\ \A u \in Users : ~UserExists(u)
  /\ req' = [req EXCEPT ![r] = [Idle EXCEPT !.pc = "setupTenant"]]
  /\ UNCHANGED <<tenants, users, tokens, cited, held, founders>>

\* Variant with a bug: setup goes on with the tenant that has the number.
SetupExistingTenant(r, t) ==
  /\ At(r, "setupTenant")
  /\ InsertOrGetTenant(t)
  /\ req' = [req EXCEPT ![r].pc = "setupUser", ![r].tenant = t]
  /\ UNCHANGED <<users, tokens, cited, held, founders>>

SetupTenant(r, t) ==
  /\ At(r, "setupTenant")
  /\ InsertTenant(t)
  /\ req' = [req EXCEPT ![r].pc = "setupUser", ![r].tenant = t]
  /\ UNCHANGED <<users, tokens, cited, held, founders>>

SetupUser(r, u) ==
  /\ At(r, "setupUser") /\ req[r].tenant = Home[u]
  /\ InsertUser(u)
  /\ tokens' = [tokens EXCEPT ![u] = TokenKinds]
  /\ founders' = founders \cup {u}
  /\ Finish(r)
  /\ UNCHANGED <<tenants, cited, held>>

\* A taken tax number, a tenant that is gone, or a failing statement.
SetupFails(r) ==
  /\ \/ At(r, "setupTenant") /\ \E t \in Tenants : tenants[t].status # "absent"
     \/ At(r, "setupTenant") /\ "write" \in Faults
     \/ At(r, "setupUser") /\ InsertUserFails(req[r].tenant)
  /\ Finish(r)
  /\ UNCHANGED <<tenants, users, tokens, cited, held, founders>>

-----------------------------------------------------------------------------
(* Tokens: login, refresh, LINE login.                                     *)

\* Variant with a bug: GetUserByEmail does not ask for status = 'active'.
LoginAnyStatus(r, u) ==
  /\ At(r, "idle")
  /\ UserExists(u)
  /\ req' = [req EXCEPT ![r] = [Idle EXCEPT !.pc = "token", !.user = u,
                                            !.renewable = TRUE]]
  /\ UNCHANGED <<tenants, users, tokens, cited, held, founders>>

\* login: GetUserByEmail and the password; the email need not be unique.
Login(r, u) ==
  /\ At(r, "idle")
  /\ FoundActive(u)
  /\ req' = [req EXCEPT ![r] = [Idle EXCEPT !.pc = "token", !.user = u,
                                            !.renewable = TRUE]]
  /\ UNCHANGED <<tenants, users, tokens, cited, held, founders>>

\* refresh: the refresh token is valid and GetUserByID finds its user.
Refresh(r, u) ==
  /\ At(r, "idle")
  /\ "refresh" \in tokens[u]
  /\ FoundActive(u)
  /\ req' = [req EXCEPT ![r] = [Idle EXCEPT !.pc = "token", !.user = u]]
  /\ UNCHANGED <<tenants, users, tokens, cited, held, founders>>

\* Variant with a bug: the status is compared with 'inactive', as before 035.
PassesAlways(t) == TRUE

\* GetTenant: an error, or no such tenant, counts as not suspended.
PassesStatusCheck(t) == "read" \in Faults \/ ~Suspended(t)

IssueToken(r) ==
  /\ At(r, "token")
  /\ PassesStatusCheck(Own(r))
  /\ tokens' = [tokens EXCEPT ![req[r].user] =
                  @ \cup IF req[r].renewable THEN TokenKinds ELSE {"access"}]
  /\ IF req[r].renewable THEN Goto(r, "audit") ELSE Finish(r)
  /\ UNCHANGED <<tenants, users, cited, held, founders>>

\* lineLogin: GetOrCreateLiffUser finds the active user of this LINE id ...
LineLogin(r, u) ==
  /\ At(r, "idle")
  /\ FoundActive(u)
  /\ tokens' = [tokens EXCEPT ![u] = TokenKinds]
  /\ UNCHANGED <<tenants, users, cited, held, req, founders>>

\* Variant with a bug: the request need not name a tenant.
LineLoginAnywhere(r, t) ==
  /\ At(r, "idle")
  /\ req' = [req EXCEPT ![r] = [Idle EXCEPT !.pc = "lineUser"]]
  /\ UNCHANGED <<tenants, users, tokens, cited, held, founders>>

\* ... or none, and inserts one.  The status of the tenant is not asked.
LineLoginNew(r, t) ==
  /\ At(r, "idle")
  /\ req' = [req EXCEPT ![r] = [Idle EXCEPT !.pc = "lineUser", !.tenant = t]]
  /\ UNCHANGED <<tenants, users, tokens, cited, held, founders>>

CreateLineUser(r, u) ==
  /\ At(r, "lineUser") /\ req[r].tenant = Home[u]
  /\ InsertUser(u)
  /\ tokens' = [tokens EXCEPT ![u] = TokenKinds]
  /\ Finish(r)
  /\ UNCHANGED <<tenants, cited, held, founders>>

LineLoginFails(r) ==
  /\ At(r, "lineUser")
  /\ InsertUserFails(req[r].tenant)
  /\ Finish(r)
  /\ UNCHANGED <<tenants, users, tokens, cited, held, founders>>

\* An hour or seven days have passed.
Expire(u) ==
  /\ \E kind \in tokens[u] : tokens' = [tokens EXCEPT ![u] = @ \ {kind}]
  /\ UNCHANGED <<tenants, users, cited, held, req, founders>>

-----------------------------------------------------------------------------
(* A request to /api/v1: authMiddleware, checkTenantStatus, auditMiddleware*)
(* and the handler.  No middleware looks at the user's row or role.        *)

\* parseToken accepts whatever was signed with the secret, of either kind;
\* the first statement is the GetTenant of checkTenantStatus.
CheckTenantStatus(r, u) ==
  /\ At(r, "idle")
  /\ tokens[u] # {}
  /\ PassesStatusCheck(Home[u])
  /\ req' = [req EXCEPT ![r] = [Idle EXCEPT !.pc = "handler", !.user = u]]
  /\ UNCHANGED <<tenants, users, tokens, cited, held, founders>>

\* 403 from login or refresh.
RefuseSuspended(r) ==
  /\ At(r, "token")
  /\ Suspended(Own(r))
  /\ Finish(r)
  /\ UNCHANGED <<tenants, users, tokens, cited, held, founders>>

\* A handler that only reads, or that answers with an error.
ReadOrRefuse(r) ==
  /\ At(r, "handler")
  /\ Finish(r)
  /\ UNCHANGED <<tenants, users, tokens, cited, held, founders>>

CreateTenant(r, t) ==
  /\ At(r, "handler")
  /\ InsertTenant(t)
  /\ Goto(r, "audit")
  /\ UNCHANGED <<users, tokens, cited, held, founders>>

\* updateTenant writes any status, of a tenant in the trash too.
UpdateTenant(r, t, status) ==
  /\ At(r, "handler")
  /\ TenantExists(t)
  /\ tenants' = [tenants EXCEPT ![t].status = status]
  /\ Goto(r, "audit")
  /\ UNCHANGED <<users, tokens, cited, held, founders>>

SuspendTenant(r, t) ==
  /\ At(r, "handler")
  /\ TenantExists(t) /\ ~tenants[t].trashed
  /\ tenants' = [tenants EXCEPT ![t].status = "suspended"]
  /\ Goto(r, "audit")
  /\ UNCHANGED <<users, tokens, cited, held, founders>>

UnsuspendTenant(r, t) ==
  /\ At(r, "handler")
  /\ TenantExists(t) /\ ~tenants[t].trashed
  /\ tenants' = [tenants EXCEPT ![t].status = "open"]
  /\ Goto(r, "audit")
  /\ UNCHANGED <<users, tokens, cited, held, founders>>

DeleteTenant(r, t) ==
  /\ At(r, "handler")
  /\ TenantExists(t) /\ ~tenants[t].trashed
  /\ tenants' = [tenants EXCEPT ![t].trashed = TRUE]
  /\ Goto(r, "audit")
  /\ UNCHANGED <<users, tokens, cited, held, founders>>

RestoreTenant(r, t) ==
  /\ At(r, "handler")
  /\ TenantExists(t) /\ tenants[t].trashed
  /\ tenants' = [tenants EXCEPT ![t].trashed = FALSE]
  /\ Goto(r, "audit")
  /\ UNCHANGED <<users, tokens, cited, held, founders>>

\* Variant with a bug: users.tenant_id has no cascade and no constraint.
WithUsersOf(t) == users

\* The users of the tenant go with it (ON DELETE CASCADE).
WithoutUsersOf(t) ==
  [u \in Users |-> IF Home[u] = t /\ UserExists(u) THEN "removed" ELSE users[u]]

PermanentDeleteTenant(r, t) ==
  /\ At(r, "handler")
  /\ TenantExists(t) /\ tenants[t].trashed
  /\ Removable(t)
  /\ tenants' = [tenants EXCEPT ![t].status = "removed"]
  /\ users' = WithoutUsersOf(t)
  /\ Goto(r, "audit")
  /\ UNCHANGED <<tokens, cited, held, founders>>

CreateUser(r, u) ==
  /\ At(r, "handler")
  /\ InsertUser(u)
  /\ Goto(r, "audit")
  /\ UNCHANGED <<tenants, tokens, cited, held, founders>>

UpdateUser(r, u, status) ==
  /\ At(r, "handler")
  /\ UserExists(u)
  /\ users' = [users EXCEPT ![u] = status]
  /\ Goto(r, "audit")
  /\ UNCHANGED <<tenants, tokens, cited, held, founders>>

DeleteUser(r, u) ==
  /\ At(r, "handler")
  /\ UserExists(u) /\ u \notin cited
  /\ users' = [users EXCEPT ![u] = "removed"]
  /\ Goto(r, "audit")
  /\ UNCHANGED <<tenants, tokens, cited, held, founders>>

\* An import names its tenant and its author as the form does, whoever sends it;
\* both must exist.  The branch is taken to be of that tenant.
UploadDocument(r, u, t) ==
  /\ At(r, "handler")
  /\ UserExists(u) /\ TenantExists(t)
  /\ cited' = cited \cup {u}
  /\ held' = held \cup {t}
  /\ Goto(r, "audit")
  /\ UNCHANGED <<tenants, users, tokens, founders>>

\* The goroutine behind the answer; its errors are logged and dropped.
WriteAudit(r) ==
  /\ At(r, "audit")
  /\ \/ /\ UserExists(req[r].user)
        /\ cited' = cited \cup {req[r].user}
        /\ held' = held \cup {Own(r)}
     \/ ("write" \in Faults \/ ~UserExists(req[r].user)) /\ UNCHANGED <<cited, held>>
  /\ Finish(r)
  /\ UNCHANGED <<tenants, users, tokens, founders>>

\* The process dies with every request and background write in it.
Crash ==
  /\ \E r \in Requests : ~At(r, "idle")
  /\ req' = [r \in Requests |-> Idle]
  /\ UNCHANGED <<tenants, users, tokens, cited, held, founders>>

-----------------------------------------------------------------------------
Arrive(r) ==
  \/ HasAnyUser(r)
  \/ \E u \in Users : Login(r, u) \/ Refresh(r, u) \/ LineLogin(r, u)
                      \/ CheckTenantStatus(r, u)
  \/ \E t \in Tenants : LineLoginNew(r, t)

\* What the handlers do to tenants and users.
Handle(r) ==
  \/ ReadOrRefuse(r)
  \/ \E u \in Users, t \in Tenants : UploadDocument(r, u, t)
  \/ \E t \in Tenants :
       \/ CreateTenant(r, t)  \/ SuspendTenant(r, t) \/ UnsuspendTenant(r, t)
       \/ DeleteTenant(r, t)  \/ RestoreTenant(r, t) \/ PermanentDeleteTenant(r, t)
       \/ \E status \in {"open", "suspended"} : UpdateTenant(r, t, status)
  \/ \E u \in Users :
       \/ CreateUser(r, u) \/ DeleteUser(r, u)
       \/ \E status \in {"active", "inactive"} : UpdateUser(r, u, status)

\* A request that has arrived goes on.
Proceed(r) ==
  \/ \E t \in Tenants : SetupTenant(r, t)
  \/ \E u \in Users : SetupUser(r, u) \/ CreateLineUser(r, u)
  \/ SetupFails(r) \/ LineLoginFails(r)
  \/ IssueToken(r) \/ RefuseSuspended(r)
  \/ Handle(r)
  \/ WriteAudit(r)

Next ==
  \/ \E r \in Requests : Arrive(r) \/ Proceed(r)
  \/ \E u \in Users : Expire(u)
  \/ Crash

\* Requests are served to their end, and the clocks of the tokens run.
Spec ==
  /\ Init /\ [][Next]_vars
  /\ \A r \in Requests : WF_vars(Proceed(r))
  /\ \A u \in Users : WF_vars(Expire(u))

-----------------------------------------------------------------------------
(* Properties.                                                             *)

\* Rows, tokens and requests have the shape of the code's, and a request past
\* the point where its user or tenant is known has one.
TypeOK ==
  /\ tenants \in [Tenants -> TenantRow]
  /\ users \in [Users -> {"absent", "active", "inactive", "removed"}]
  /\ tokens \in [Users -> SUBSET TokenKinds]
  /\ cited \subseteq Users
  /\ held \subseteq Tenants
  /\ req \in [Requests -> Request]
  /\ founders \subseteq Users
  /\ \A r \in Requests :
       /\ req[r].pc \in {"token", "handler", "audit"} => req[r].user \in Users
       /\ req[r].pc \in {"setupUser", "lineUser"} => req[r].tenant \in Tenants

\* However many times the setup form is sent at once, a tenant gets at most
\* one administrator from it: the unique tax number stops the second one
\* between its check for users and its insert of a user.
OneFounderPerTenant ==
  \A u, v \in founders : Home[u] = Home[v] => u = v

\* Nobody dangles: who is referred to by the audit log or a document is still
\* there, and the tenant of everybody who is there is too, in whatever order
\* deletions, the cascade and late writes of the audit log happen.
ReferencesResolve ==
  /\ \A u \in cited : UserExists(u)
  /\ \A t \in held : TenantExists(t)
  /\ \A u \in Users : UserExists(u) => TenantExists(Home[u])

\* Every tenant is suspended and GetTenant says so, somebody has an account, and
\* nobody is past a check or holds a token of a tenant that is gone.
LockedOut ==
  /\ "read" \notin Faults
  /\ \E u \in Users : UserExists(u)
  /\ \A t \in Tenants : tenants[t].status # "open"
  /\ \A r \in Requests : ~At(r, "setupTenant") /\ ~At(r, "handler")
  /\ \A u \in Users : ~Suspended(Home[u]) =>
       tokens[u] = {} /\ \A r \in Requests : At(r, "token") => req[r].user # u

\* The price of a check in front of everything: once the last open tenant is
\* suspended and no request is left that got past the check before, nobody can
\* lift a suspension any more, by login, LINE, refresh or a new setup.
LockedOutForGood == [][LockedOut => LockedOut']_vars

\* A user who is deactivated or deleted for good is out in the end: no token
\* of his stays valid and no request of his is served, whatever he holds.
DeactivatedLosesAccess ==
  \A u \in Users :
    <>[](users[u] \in {"inactive", "removed"}) =>
      <>[](tokens[u] = {} /\ \A r \in Requests : req[r].user # u)
=============================================================================
