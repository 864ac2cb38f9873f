------------------------ MODULE TenantAccessProofs ------------------------
(***************************************************************************)
(* What TenantAccess keeps for any number of tenants, users and requests.  *)
(***************************************************************************)
EXTENDS TenantAccess, TLAPS

\* The cases of Next, one for each action: what every proof below splits into.
Served(r) ==
  \/ HasAnyUser(r) \/ SetupFails(r) \/ LineLoginFails(r) \/ IssueToken(r)
  \/ RefuseSuspended(r) \/ ReadOrRefuse(r) \/ WriteAudit(r)
  \/ \E u \in Users, t \in Tenants : UploadDocument(r, u, t)

ServedUser(r, u) ==
  \/ Login(r, u) \/ Refresh(r, u) \/ LineLogin(r, u) \/ CheckTenantStatus(r, u)
  \/ SetupUser(r, u) \/ CreateLineUser(r, u) \/ CreateUser(r, u) \/ DeleteUser(r, u)
  \/ \E status \in {"active", "inactive"} : UpdateUser(r, u, status)

ServedTenant(r, t) ==
  \/ LineLoginNew(r, t) \/ SetupTenant(r, t) \/ CreateTenant(r, t)
  \/ SuspendTenant(r, t) \/ UnsuspendTenant(r, t) \/ DeleteTenant(r, t)
  \/ RestoreTenant(r, t) \/ PermanentDeleteTenant(r, t)
  \/ \E status \in {"open", "suspended"} : UpdateTenant(r, t, status)

LEMMA NextCases ==
  ASSUME Next
  PROVE  \/ \E r \in Requests : Served(r)
         \/ \E r \in Requests, u \in Users : ServedUser(r, u)
         \/ \E r \in Requests, t \in Tenants : ServedTenant(r, t)
         \/ \E u \in Users : Expire(u)
         \/ Crash
  <1>1. CASE \E r \in Requests : Arrive(r)
    BY <1>1, Zenon DEF Arrive, Served, ServedUser, ServedTenant
  <1>2. CASE \E r \in Requests : Proceed(r)
    <2>1. PICK r \in Requests : Proceed(r)
      BY <1>2
    <2>2. CASE Handle(r)
      BY <2>2, Zenon DEF Handle, Served, ServedUser, ServedTenant
    <2>3. CASE ~Handle(r)
      BY <2>1, <2>3, Zenon DEF Proceed, Served, ServedUser, ServedTenant
    <2>4. QED
      BY <2>2, <2>3
  <1>3. QED
    BY <1>1, <1>2, Zenon DEF Next

-----------------------------------------------------------------------------
(* Types.                                                                  *)

\* Writing one field keeps a row a row.
LEMMA StatusTyped ==
  ASSUME TypeOK, NEW t \in Tenants, NEW status \in {"open", "suspended", "removed"}
  PROVE  [tenants EXCEPT ![t].status = status] \in [Tenants -> TenantRow]
  BY DEF TypeOK, TenantRow

LEMMA TrashTyped ==
  ASSUME TypeOK, NEW t \in Tenants, NEW flag \in BOOLEAN
  PROVE  [tenants EXCEPT ![t].trashed = flag] \in [Tenants -> TenantRow]
  BY DEF TypeOK, TenantRow

\* What is left to show of a handler once its row is written.
LEMMA ThenAudit ==
  ASSUME TypeOK, NEW r \in Requests, At(r, "handler"), Goto(r, "audit"),
         tenants' \in [Tenants -> TenantRow],
         users' \in [Users -> {"absent", "active", "inactive", "removed"}],
         UNCHANGED <<tokens, cited, held, founders>>
  PROVE  TypeOK'
  <1>1. req[r].user \in Users
    BY DEF TypeOK, At
  <1>2. req' \in [Requests -> Request]
    BY DEF TypeOK, Request, Goto
  <1>3. \A q \in Requests : q # r => req'[q] = req[q]
    BY DEF TypeOK, Goto
  <1>4. req'[r].pc = "audit" /\ req'[r].user = req[r].user
    BY DEF TypeOK, Goto, Request
  <1>5. QED
    BY <1>1, <1>2, <1>3, <1>4 DEF TypeOK

LEMMA AuditTyped ==
  ASSUME NEW q \in Request
  PROVE  LET next == [q EXCEPT !.pc = "audit"]
         IN  next \in Request /\ next.pc = "audit" /\ next.user = q.user
  BY DEF Request

LEMMA SetupTyped ==
  ASSUME NEW q \in Request, NEW t \in Tenants
  PROVE  /\ [q EXCEPT !.pc = "setupUser", !.tenant = t] \in Request
         /\ [q EXCEPT !.pc = "setupUser", !.tenant = t].pc = "setupUser"
         /\ [q EXCEPT !.pc = "setupUser", !.tenant = t].tenant = t
  BY DEF Request

LEMMA TypeServed ==
  ASSUME TypeOK, NEW r \in Requests, Served(r)
  PROVE  TypeOK'
  <1> USE AccessAssumption DEF TypeOK, TenantRow, TokenKinds, Request, Idle, At, Finish, Goto
  <1>1. CASE HasAnyUser(r)       BY <1>1 DEF HasAnyUser
  <1>2. CASE SetupFails(r)       BY <1>2 DEF SetupFails
  <1>3. CASE LineLoginFails(r)   BY <1>3 DEF LineLoginFails
  <1>4. CASE IssueToken(r)
    <2>1. req[r].user \in Users
      BY <1>4 DEF IssueToken
    <2>2. ASSUME NEW v \in Users, NEW X \in SUBSET TokenKinds
          PROVE  [tokens EXCEPT ![v] = @ \cup X] \in [Users -> SUBSET TokenKinds]
      <3>1. tokens[v] \cup X \in SUBSET TokenKinds
        OBVIOUS
      <3>2. QED
        BY <3>1
    <2>3. tokens' \in [Users -> SUBSET TokenKinds]
      <3>1. CASE req[r].renewable
        BY <1>4, <2>1, <2>2, <3>1 DEF IssueToken
      <3>2. CASE ~req[r].renewable
        BY <1>4, <2>1, <2>2, <3>2 DEF IssueToken
      <3>3. QED BY <3>1, <3>2
    <2>4. req' = [req EXCEPT ![r].pc = "audit"] \/ req' = [req EXCEPT ![r] = Idle]
      BY <1>4 DEF IssueToken
    <2>5. UNCHANGED <<tenants, users, cited, held, founders>>
      BY <1>4 DEF IssueToken
    <2>6. CASE req' = [req EXCEPT ![r].pc = "audit"]
      <3>1. req'[r] = [req[r] EXCEPT !.pc = "audit"]
        BY <2>6, Zenon
      <3>2. req'[r] \in Request /\ req'[r].pc = "audit" /\ req'[r].user = req[r].user
        BY <3>1, AuditTyped
      <3>3. \A q \in Requests : q # r => req'[q] = req[q]
        BY <2>6
      <3>4. req' \in [Requests -> Request]
        BY <2>6, <3>2, <3>3
      <3>5. QED
        BY <2>1, <2>3, <2>5, <3>2, <3>3, <3>4
    <2>7. CASE req' = [req EXCEPT ![r] = Idle]
      BY <2>3, <2>5, <2>7
    <2>8. QED
      BY <2>4, <2>6, <2>7
  <1>5. CASE RefuseSuspended(r)  BY <1>5 DEF RefuseSuspended
  <1>6. CASE ReadOrRefuse(r)     BY <1>6 DEF ReadOrRefuse
  <1>7. ASSUME NEW u \in Users, NEW t \in Tenants, UploadDocument(r, u, t)
        PROVE  TypeOK'
    <2>1. req[r].user \in Users /\ cited' \in SUBSET Users /\ held' \in SUBSET Tenants
      BY <1>7 DEF UploadDocument
    <2>2. req' = [req EXCEPT ![r].pc = "audit"] /\ UNCHANGED <<tenants, users, tokens, founders>>
      BY <1>7 DEF UploadDocument
    <2>3. req'[r] = [req[r] EXCEPT !.pc = "audit"]
      BY <2>2, Zenon
    <2>4. req'[r] \in Request /\ req'[r].pc = "audit" /\ req'[r].user = req[r].user
      BY <2>3, AuditTyped
    <2>5. \A q \in Requests : q # r => req'[q] = req[q]
      BY <2>2
    <2>6. req' \in [Requests -> Request]
      BY <2>2, <2>4, <2>5
    <2>7. QED
      BY <2>1, <2>2, <2>4, <2>5, <2>6
  <1>8. CASE WriteAudit(r)       BY <1>8 DEF WriteAudit, Own
  <1>9. QED
    BY <1>1, <1>2, <1>3, <1>4, <1>5, <1>6, <1>7, <1>8 DEF Served

\* The handlers that write one user.
LEMMA UserRowTyped ==
  ASSUME TypeOK, NEW r \in Requests, NEW u \in Users,
         \/ CreateUser(r, u) \/ DeleteUser(r, u)
         \/ \E status \in {"active", "inactive"} : UpdateUser(r, u, status)
  PROVE  TypeOK'
  <1>1. At(r, "handler") /\ Goto(r, "audit") /\ UNCHANGED <<tenants, tokens, cited, held, founders>>
    BY Zenon DEF CreateUser, DeleteUser, UpdateUser
  <1>2. PICK status \in {"active", "inactive", "removed"} :
          users' = [users EXCEPT ![u] = status]
    BY DEF CreateUser, InsertUser, DeleteUser, UpdateUser
  <1>3. users' \in [Users -> {"absent", "active", "inactive", "removed"}]
    BY <1>2 DEF TypeOK
  <1>4. tenants' \in [Tenants -> TenantRow]
    BY <1>1 DEF TypeOK
  <1>5. QED
    BY <1>1, <1>3, <1>4, ThenAudit

LEMMA TypeServedUser ==
  ASSUME TypeOK, NEW r \in Requests, NEW u \in Users, ServedUser(r, u)
  PROVE  TypeOK'
  <1> USE AccessAssumption DEF TypeOK, TenantRow, TokenKinds, Request, Idle, At, Finish, Goto
  <1>1. CASE Login(r, u)              BY <1>1 DEF Login
  <1>2. CASE Refresh(r, u)            BY <1>2 DEF Refresh
  <1>3. CASE LineLogin(r, u)          BY <1>3 DEF LineLogin
  <1>4. CASE CheckTenantStatus(r, u)  BY <1>4 DEF CheckTenantStatus
  <1>5. CASE SetupUser(r, u)          BY <1>5 DEF SetupUser, InsertUser
  <1>6. CASE CreateLineUser(r, u)     BY <1>6 DEF CreateLineUser, InsertUser
  <1> HIDE DEF TypeOK, TenantRow, TokenKinds, Request, Idle, At, Finish, Goto
  <1>7. CASE \/ CreateUser(r, u) \/ DeleteUser(r, u)
             \/ \E status \in {"active", "inactive"} : UpdateUser(r, u, status)
    BY <1>7, UserRowTyped, Zenon
  <1>8. QED
    BY <1>1, <1>2, <1>3, <1>4, <1>5, <1>6, <1>7, Zenon DEF ServedUser

LEMMA TypeServedTenant ==
  ASSUME TypeOK, NEW r \in Requests, NEW t \in Tenants, ServedTenant(r, t)
  PROVE  TypeOK'
  <1> DEFINE UserRows == [Users -> {"absent", "active", "inactive", "removed"}]
  <1>0. users \in UserRows
    BY DEF TypeOK
  <1>1. CASE LineLoginNew(r, t)
    BY <1>1, AccessAssumption DEF LineLoginNew, TypeOK, Request, Idle, At
  <1>2. CASE SetupTenant(r, t)
    <2>1. tenants' \in [Tenants -> TenantRow]
      BY <1>2, StatusTyped DEF SetupTenant, InsertTenant
    <2>2. req' = [req EXCEPT ![r].pc = "setupUser", ![r].tenant = t]
      BY <1>2 DEF SetupTenant
    <2>3. req \in [Requests -> Request]
      BY DEF TypeOK
    <2>4. req[r] \in Request
      BY <2>3
    <2> DEFINE next == [req[r] EXCEPT !.pc = "setupUser", !.tenant = t]
    <2>5. next \in Request /\ next.pc = "setupUser" /\ next.tenant = t
      BY <2>4, SetupTyped, Zenon
    <2>6. req'[r] = next
      BY <2>2, <2>3, Zenon
    <2> HIDE DEF next
    <2>7. req'[r] \in Request /\ req'[r].pc = "setupUser" /\ req'[r].tenant = t
      BY <2>5, <2>6
    <2>8. \A q \in Requests : q # r => req'[q] = req[q]
      BY <2>2, <2>3
    <2>9. req' \in [Requests -> Request]
      <3>1. req' = [q \in Requests |-> req'[q]]
        BY <2>2, <2>3
      <3>2. \A q \in Requests : req'[q] \in Request
        BY <2>3, <2>7, <2>8
      <3>3. QED
        BY <3>1, <3>2, Zenon
    <2>10. QED
      BY <1>2, <2>1, <2>7, <2>8, <2>9 DEF SetupTenant, TypeOK
  <1>3. CASE CreateTenant(r, t)
    BY <1>0, <1>3, StatusTyped, ThenAudit DEF CreateTenant, InsertTenant
  <1>4. CASE SuspendTenant(r, t)
    BY <1>0, <1>4, StatusTyped, ThenAudit DEF SuspendTenant
  <1>5. CASE UnsuspendTenant(r, t)
    BY <1>0, <1>5, StatusTyped, ThenAudit DEF UnsuspendTenant
  <1>6. CASE DeleteTenant(r, t)
    BY <1>0, <1>6, TrashTyped, ThenAudit DEF DeleteTenant
  <1>7. CASE RestoreTenant(r, t)
    BY <1>0, <1>7, TrashTyped, ThenAudit DEF RestoreTenant
  <1>8. CASE PermanentDeleteTenant(r, t)
    <2>1. WithoutUsersOf(t) \in UserRows
      BY <1>0 DEF WithoutUsersOf
    <2>2. QED
      BY <1>8, <2>1, StatusTyped, ThenAudit DEF PermanentDeleteTenant
  <1>9. ASSUME NEW status \in {"open", "suspended"}, UpdateTenant(r, t, status)
        PROVE  TypeOK'
    BY <1>0, <1>9, StatusTyped, ThenAudit DEF UpdateTenant
  <1>10. QED
    BY <1>1, <1>2, <1>3, <1>4, <1>5, <1>6, <1>7, <1>8, <1>9, Zenon DEF ServedTenant

LEMMA TypeNext == TypeOK /\ [Next]_vars => TypeOK'
  <1> SUFFICES ASSUME TypeOK, [Next]_vars PROVE TypeOK'
    OBVIOUS
  <1>1. ASSUME NEW u \in Users, Expire(u) PROVE TypeOK'
    BY <1>1 DEF Expire, TypeOK, TokenKinds
  <1>2. CASE Crash
    BY <1>2, AccessAssumption DEF Crash, TypeOK, Request, Idle
  <1>3. CASE UNCHANGED vars
    BY <1>3 DEF vars, TypeOK
  <1>4. QED
    BY <1>1, <1>2, <1>3, NextCases, TypeServed, TypeServedUser, TypeServedTenant

\* Every variable keeps its type, and a request at a step that uses its user or
\* its tenant has one, for any number of tenants, users and requests.
THEOREM TypeCorrect == Spec => []TypeOK
  <1>1. Init => TypeOK
    BY AccessAssumption DEF Init, TypeOK, TenantRow, TokenKinds, Request, Idle
  <1>2. QED
    BY <1>1, TypeNext, PTL DEF Spec

-----------------------------------------------------------------------------
(* References.                                                             *)

\* A tenant that is there and is not the one deleted for good stays there.
LEMMA StatusWritten ==
  ASSUME TypeOK, NEW t \in Tenants, NEW status \in {"open", "suspended"},
         tenants' = [tenants EXCEPT ![t].status = status]
  PROVE  \A other \in Tenants : TenantExists(other) => TenantExists(other)'
  BY DEF TypeOK, TenantRow, TenantExists

LEMMA TrashWritten ==
  ASSUME TypeOK, NEW t \in Tenants, NEW flag \in BOOLEAN,
         tenants' = [tenants EXCEPT ![t].trashed = flag]
  PROVE  \A other \in Tenants : TenantExists(other) => TenantExists(other)'
  BY DEF TypeOK, TenantRow, TenantExists

\* Only statuses of tenants are written.
LEMMA ResolveTenant ==
  ASSUME ReferencesResolve, UNCHANGED <<users, cited, held>>, TypeOK, AccessAssumption,
         \A other \in Tenants : TenantExists(other) => TenantExists(other)'
  PROVE  ReferencesResolve'
  BY DEF ReferencesResolve, UserExists, TypeOK

\* A user appears, whose tenant is there.
LEMMA ResolveInsertUser ==
  ASSUME ReferencesResolve, TypeOK, NEW u \in Users, InsertUser(u),
         UNCHANGED <<tenants, cited, held>>
  PROVE  ReferencesResolve'
  BY DEF ReferencesResolve, TypeOK, InsertUser, UserExists, TenantExists

LEMMA ResolveServed ==
  ASSUME TypeOK, ReferencesResolve, NEW r \in Requests, Served(r)
  PROVE  ReferencesResolve'
  <1>1. CASE UNCHANGED <<tenants, users, cited, held>>
    BY <1>1 DEF ReferencesResolve, UserExists, TenantExists
  <1>2. ASSUME NEW u \in Users, NEW t \in Tenants, UploadDocument(r, u, t)
        PROVE  ReferencesResolve'
    BY <1>2 DEF UploadDocument, ReferencesResolve, UserExists, TenantExists
  <1>3. CASE WriteAudit(r)
    <2>1. req[r].user \in Users
      BY <1>3 DEF WriteAudit, TypeOK, At
    <2>2. QED
      BY <1>3, <2>1 DEF WriteAudit, Own, ReferencesResolve, UserExists, TenantExists
  <1>4. QED
    BY <1>1, <1>2, <1>3 DEF Served, HasAnyUser, SetupFails, LineLoginFails,
       IssueToken, RefuseSuspended, ReadOrRefuse

LEMMA ResolveServedUser ==
  ASSUME TypeOK, ReferencesResolve, NEW r \in Requests, NEW u \in Users,
         ServedUser(r, u)
  PROVE  ReferencesResolve'
  <1>1. CASE UNCHANGED <<tenants, users, cited, held>>
    BY <1>1 DEF ReferencesResolve, UserExists, TenantExists
  <1>2. CASE SetupUser(r, u)
    BY <1>2, ResolveInsertUser DEF SetupUser
  <1>3. CASE CreateLineUser(r, u)
    BY <1>3, ResolveInsertUser DEF CreateLineUser
  <1>4. CASE CreateUser(r, u)
    BY <1>4, ResolveInsertUser DEF CreateUser
  <1>5. CASE DeleteUser(r, u)
    BY <1>5 DEF DeleteUser, TypeOK, ReferencesResolve, UserExists, TenantExists
  <1>6. ASSUME NEW status \in {"active", "inactive"}, UpdateUser(r, u, status)
        PROVE  ReferencesResolve'
    BY <1>6 DEF UpdateUser, TypeOK, ReferencesResolve, UserExists, TenantExists
  <1>7. QED
    BY <1>1, <1>2, <1>3, <1>4, <1>5, <1>6
       DEF ServedUser, Login, Refresh, LineLogin, CheckTenantStatus

LEMMA ResolveServedTenant ==
  ASSUME TypeOK, ReferencesResolve, NEW r \in Requests, NEW t \in Tenants,
         ServedTenant(r, t)
  PROVE  ReferencesResolve'
  <1> USE AccessAssumption
  <1>1. CASE LineLoginNew(r, t)
    BY <1>1 DEF LineLoginNew, ReferencesResolve, UserExists, TenantExists
  <1>2. CASE SetupTenant(r, t)
    BY <1>2, StatusWritten, ResolveTenant DEF SetupTenant, InsertTenant
  <1>3. CASE CreateTenant(r, t)
    BY <1>3, StatusWritten, ResolveTenant DEF CreateTenant, InsertTenant
  <1>4. CASE SuspendTenant(r, t)
    BY <1>4, StatusWritten, ResolveTenant DEF SuspendTenant
  <1>5. CASE UnsuspendTenant(r, t)
    BY <1>5, StatusWritten, ResolveTenant DEF UnsuspendTenant
  <1>6. CASE DeleteTenant(r, t)
    BY <1>6, TrashWritten, ResolveTenant DEF DeleteTenant
  <1>7. CASE RestoreTenant(r, t)
    BY <1>7, TrashWritten, ResolveTenant DEF RestoreTenant
  <1>8. CASE PermanentDeleteTenant(r, t)
    <2>1. \A other \in Tenants \ {t} : TenantExists(other) => TenantExists(other)'
      BY <1>8 DEF PermanentDeleteTenant, TypeOK, TenantRow, TenantExists
    <2>2. \A u \in Users : users'[u] =
            IF Home[u] = t /\ UserExists(u) THEN "removed" ELSE users[u]
      BY <1>8 DEF PermanentDeleteTenant, WithoutUsersOf
    <2>3. ASSUME NEW u \in cited PROVE UserExists(u)'
      BY <1>8, <2>2 DEF PermanentDeleteTenant, Removable, ReferencesResolve,
         TypeOK, UserExists
    <2>4. ASSUME NEW u \in Users, UserExists(u)' PROVE TenantExists(Home[u])'
      <3>1. UserExists(u) /\ Home[u] # t
        BY <2>2, <2>4 DEF UserExists
      <3>2. QED
        BY <2>1, <3>1 DEF ReferencesResolve
    <2>5. ASSUME NEW other \in held PROVE TenantExists(other)'
      BY <1>8, <2>1 DEF PermanentDeleteTenant, Removable, ReferencesResolve, TypeOK
    <2>6. QED
      BY <1>8, <2>3, <2>4, <2>5 DEF PermanentDeleteTenant, ReferencesResolve
  <1>9. ASSUME NEW status \in {"open", "suspended"}, UpdateTenant(r, t, status)
        PROVE  ReferencesResolve'
    BY <1>9, StatusWritten, ResolveTenant DEF UpdateTenant
  <1>10. QED
    BY <1>1, <1>2, <1>3, <1>4, <1>5, <1>6, <1>7, <1>8, <1>9, Zenon DEF ServedTenant

\* The audit log and the documents never refer to a user who is gone, nor a user
\* to a tenant that is gone, with any number of requests deleting and writing.
THEOREM ReferencesAlwaysResolve == Spec => []ReferencesResolve
  <1>1. Init => ReferencesResolve
    BY DEF Init, ReferencesResolve, UserExists
  <1>2. TypeOK /\ ReferencesResolve /\ [Next]_vars => ReferencesResolve'
    <2> SUFFICES ASSUME TypeOK, ReferencesResolve, [Next]_vars
                 PROVE  ReferencesResolve'
      OBVIOUS
    <2>1. CASE UNCHANGED <<tenants, users, cited, held>>
      BY <2>1 DEF ReferencesResolve, UserExists, TenantExists
    <2>2. CASE UNCHANGED vars
      BY <2>1, <2>2 DEF vars
    <2>3. QED
      BY <2>1, <2>2, NextCases, ResolveServed, ResolveServedUser,
         ResolveServedTenant DEF Expire, Crash
  <1>3. QED
    BY <1>1, <1>2, TypeCorrect, PTL DEF Spec

-----------------------------------------------------------------------------
(* First-time setup.  The tenant of a founder, and of a setup about to     *)
(* insert one, exists, or did: no other setup can create it any more.      *)

Pending(r) == At(r, "setupUser")

SetupOnce ==
  /\ \A u \in founders : tenants[Home[u]].status # "absent"
  /\ \A r \in Requests : Pending(r) =>
       /\ tenants[req[r].tenant].status # "absent"
       /\ \A u \in founders : Home[u] # req[r].tenant
  /\ \A r, q \in Requests :
       Pending(r) /\ Pending(q) /\ req[r].tenant = req[q].tenant => r = q
  /\ OneFounderPerTenant

\* No setup goes on, and no tenant's row becomes one that never was.
SetupRests ==
  /\ founders' = founders
  /\ \A t \in Tenants : tenants[t].status # "absent" => tenants'[t].status # "absent"
  /\ \A r \in Requests : Pending(r)' => Pending(r) /\ req'[r].tenant = req[r].tenant

LEMMA SetupFrame ==
  ASSUME TypeOK, SetupOnce, SetupRests, AccessAssumption
  PROVE  SetupOnce'
  <1>1. \A u \in founders' : tenants'[Home[u]].status # "absent"
    BY DEF SetupOnce, SetupRests, TypeOK
  <1>2. \A r \in Requests : Pending(r)' =>
          /\ tenants'[req'[r].tenant].status # "absent"
          /\ \A u \in founders' : Home[u] # req'[r].tenant
    BY DEF SetupOnce, SetupRests, TypeOK, Pending, At
  <1>3. \A r, q \in Requests :
          Pending(r)' /\ Pending(q)' /\ req'[r].tenant = req'[q].tenant => r = q
    BY DEF SetupOnce, SetupRests
  <1>4. OneFounderPerTenant'
    BY DEF SetupOnce, SetupRests, OneFounderPerTenant
  <1>5. QED
    BY <1>1, <1>2, <1>3, <1>4 DEF SetupOnce

\* A request that leaves its step for one that is not setupUser.
LEMMA NotPending ==
  ASSUME TypeOK, NEW r \in Requests,
         \/ UNCHANGED req
         \/ \E pc \in {"audit", "handler"} : Goto(r, pc)
         \/ \E next : next.pc # "setupUser" /\ req' = [req EXCEPT ![r] = next]
  PROVE  \A q \in Requests : Pending(q)' => Pending(q) /\ req'[q].tenant = req[q].tenant
  <1>1. CASE UNCHANGED req
    BY <1>1 DEF Pending, At
  <1>2. ASSUME NEW pc \in {"audit", "handler"}, Goto(r, pc)
        PROVE  /\ req'[r].pc # "setupUser"
               /\ \A q \in Requests : q # r => req'[q] = req[q]
    BY <1>2 DEF Goto, TypeOK, Request
  <1>3. ASSUME NEW next, next.pc # "setupUser", req' = [req EXCEPT ![r] = next]
        PROVE  /\ req'[r].pc # "setupUser"
               /\ \A q \in Requests : q # r => req'[q] = req[q]
    BY <1>3 DEF TypeOK
  <1>4. QED
    BY <1>1, <1>2, <1>3 DEF Pending, At

LEMMA Finished ==
  ASSUME TypeOK, NEW r \in Requests, Finish(r)
  PROVE  \E next : next.pc # "setupUser" /\ req' = [req EXCEPT ![r] = next]
  BY DEF Finish, Idle

\* The row of one tenant is written.
LEMMA NeverAbsent ==
  ASSUME TypeOK, NEW t \in Tenants,
         \/ UNCHANGED tenants
         \/ \E status \in {"open", "suspended", "removed"} :
              tenants' = [tenants EXCEPT ![t].status = status]
         \/ \E flag \in BOOLEAN : tenants' = [tenants EXCEPT ![t].trashed = flag]
  PROVE  \A other \in Tenants :
           tenants[other].status # "absent" => tenants'[other].status # "absent"
  BY DEF TypeOK, TenantRow

LEMMA SetupServed ==
  ASSUME TypeOK, SetupOnce, NEW r \in Requests, Served(r)
  PROVE  SetupOnce'
  <1>1. UNCHANGED <<tenants, founders>>
    BY DEF Served, HasAnyUser, SetupFails, LineLoginFails, IssueToken,
       RefuseSuspended, ReadOrRefuse, UploadDocument, WriteAudit
  <1>2. \/ Finish(r) \/ Goto(r, "audit")
        \/ \E next : next.pc # "setupUser" /\ req' = [req EXCEPT ![r] = next]
    BY DEF Idle, Served, HasAnyUser, SetupFails, LineLoginFails, IssueToken,
       RefuseSuspended, ReadOrRefuse, UploadDocument, WriteAudit
  <1>3. QED
    BY <1>1, <1>2, NotPending, Finished, SetupFrame, AccessAssumption DEF SetupRests

LEMMA SetupServedUser ==
  ASSUME TypeOK, SetupOnce, NEW r \in Requests, NEW u \in Users, ServedUser(r, u)
  PROVE  SetupOnce'
  <1>1. CASE SetupUser(r, u)
    <2>1. founders' = founders \cup {u} /\ UNCHANGED tenants /\ Finish(r)
      BY <1>1 DEF SetupUser
    <2>2. Pending(r) /\ req[r].tenant = Home[u]
      BY <1>1 DEF SetupUser, Pending
    <2>3. \A q \in Requests : Pending(q)' =>
            q # r /\ Pending(q) /\ req'[q].tenant = req[q].tenant
      BY <2>1 DEF Finish, Idle, Pending, At, TypeOK
    <2>4. \A v \in founders' : tenants'[Home[v]].status # "absent"
      BY <2>1, <2>2 DEF SetupOnce
    <2>5. \A q \in Requests : Pending(q)' =>
            /\ tenants'[req'[q].tenant].status # "absent"
            /\ \A v \in founders' : Home[v] # req'[q].tenant
      BY <2>1, <2>2, <2>3 DEF SetupOnce
    <2>6. \A q, p \in Requests :
            Pending(q)' /\ Pending(p)' /\ req'[q].tenant = req'[p].tenant => q = p
      BY <2>3 DEF SetupOnce
    <2>7. OneFounderPerTenant'
      BY <2>1, <2>2 DEF SetupOnce, OneFounderPerTenant
    <2>8. QED
      BY <2>4, <2>5, <2>6, <2>7 DEF SetupOnce
  <1>2. CASE ~SetupUser(r, u)
    <2>1. UNCHANGED <<tenants, founders>>
      BY <1>2 DEF ServedUser, Login, Refresh, LineLogin, CheckTenantStatus,
         CreateLineUser, CreateUser, DeleteUser, UpdateUser
    <2>2. CASE Login(r, u)
      <3>1. \E next : next.pc # "setupUser" /\ req' = [req EXCEPT ![r] = next]
        BY <2>2 DEF Login, Idle
      <3>2. QED
        BY <2>1, <3>1, NotPending, SetupFrame, AccessAssumption DEF SetupRests
    <2>3. CASE Refresh(r, u)
      <3>1. \E next : next.pc # "setupUser" /\ req' = [req EXCEPT ![r] = next]
        BY <2>3 DEF Refresh, Idle
      <3>2. QED
        BY <2>1, <3>1, NotPending, SetupFrame, AccessAssumption DEF SetupRests
    <2>4. CASE CheckTenantStatus(r, u)
      <3>1. \E next : next.pc # "setupUser" /\ req' = [req EXCEPT ![r] = next]
        BY <2>4 DEF CheckTenantStatus, Idle
      <3>2. QED
        BY <2>1, <3>1, NotPending, SetupFrame, AccessAssumption DEF SetupRests
    <2>5. CASE UNCHANGED req \/ Finish(r) \/ Goto(r, "audit")
      BY <2>1, <2>5, NotPending, Finished, SetupFrame, AccessAssumption DEF SetupRests
    <2>6. QED
      BY <1>2, <2>2, <2>3, <2>4, <2>5
         DEF ServedUser, LineLogin, CreateLineUser, CreateUser, DeleteUser, UpdateUser
  <1>3. QED
    BY <1>1, <1>2

LEMMA SetupServedTenant ==
  ASSUME TypeOK, SetupOnce, NEW r \in Requests, NEW t \in Tenants, ServedTenant(r, t)
  PROVE  SetupOnce'
  <1>1. CASE SetupTenant(r, t)
    <2>1. tenants[t].status = "absent" /\ UNCHANGED founders
          /\ tenants' = [tenants EXCEPT ![t].status = "open"]
      BY <1>1 DEF SetupTenant, InsertTenant
    <2>2. \A other \in Tenants :
            tenants[other].status # "absent" => tenants'[other].status # "absent"
      BY <2>1, NeverAbsent
    <2>3. tenants'[t].status # "absent"
      BY <2>1 DEF TypeOK, TenantRow
    <2>4. req' = [req EXCEPT ![r].pc = "setupUser", ![r].tenant = t]
      BY <1>1 DEF SetupTenant
    <2>5. req'[r].tenant = t
      BY <2>4 DEF TypeOK, Request
    <2>6. \A q \in Requests : q # r => req'[q] = req[q]
      BY <2>4 DEF TypeOK
    <2>7. \A u \in founders : Home[u] # t
      BY <2>1 DEF SetupOnce
    <2>8. \A q \in Requests : Pending(q) => req[q].tenant # t
      BY <2>1 DEF SetupOnce
    <2>9. \A u \in founders' : tenants'[Home[u]].status # "absent"
      BY <2>1, <2>2, AccessAssumption DEF SetupOnce, TypeOK
    <2>10. \A q \in Requests : Pending(q)' =>
             /\ tenants'[req'[q].tenant].status # "absent"
             /\ \A u \in founders' : Home[u] # req'[q].tenant
      BY <2>1, <2>2, <2>3, <2>5, <2>6, <2>7 DEF SetupOnce, Pending, At, TypeOK
    <2>11. \A q, p \in Requests :
             Pending(q)' /\ Pending(p)' /\ req'[q].tenant = req'[p].tenant => q = p
      BY <2>5, <2>6, <2>8 DEF SetupOnce, Pending, At
    <2>12. OneFounderPerTenant'
      BY <2>1 DEF SetupOnce, OneFounderPerTenant
    <2>13. QED
      BY <2>9, <2>10, <2>11, <2>12 DEF SetupOnce
  <1>2. CASE LineLoginNew(r, t)
    <2>1. \E next : next.pc # "setupUser" /\ req' = [req EXCEPT ![r] = next]
      BY <1>2 DEF LineLoginNew, Idle
    <2>2. QED
      BY <1>2, <2>1, NotPending, SetupFrame, AccessAssumption DEF SetupRests, LineLoginNew
  <1>3. CASE Goto(r, "audit") /\ UNCHANGED founders
    <2>1. \/ UNCHANGED tenants
          \/ \E status \in {"open", "suspended", "removed"} :
               tenants' = [tenants EXCEPT ![t].status = status]
          \/ \E flag \in BOOLEAN : tenants' = [tenants EXCEPT ![t].trashed = flag]
          \/ SetupTenant(r, t)
      BY DEF ServedTenant, LineLoginNew, CreateTenant, InsertTenant, SuspendTenant,
         UnsuspendTenant, DeleteTenant, RestoreTenant, PermanentDeleteTenant,
         UpdateTenant
    <2>2. QED
      BY <1>1, <1>3, <2>1, NeverAbsent, NotPending, SetupFrame, AccessAssumption
         DEF SetupRests
  <1>4. QED
    BY <1>1, <1>2, <1>3 DEF ServedTenant, CreateTenant, SuspendTenant,
       UnsuspendTenant, DeleteTenant, RestoreTenant, PermanentDeleteTenant, UpdateTenant

\* However many setups run at once, with crashes and deletions between their
\* statements, no tenant gets two founders from them.
THEOREM OneFounder == Spec => []OneFounderPerTenant
  <1>1. Init => SetupOnce
    BY DEF Init, SetupOnce, OneFounderPerTenant, Pending, At, Idle
  <1>2. TypeOK /\ SetupOnce /\ [Next]_vars => SetupOnce'
    <2> SUFFICES ASSUME TypeOK, SetupOnce, [Next]_vars PROVE SetupOnce'
      OBVIOUS
    <2>1. CASE UNCHANGED <<tenants, req, founders>>
      BY <2>1, SetupFrame, AccessAssumption DEF SetupRests, Pending, At
    <2>2. CASE Crash
      BY <2>2, SetupFrame, AccessAssumption DEF Crash, SetupRests, Pending, At, Idle
    <2>3. QED
      BY <2>1, <2>2, NextCases, SetupServed, SetupServedUser, SetupServedTenant
         DEF Expire, vars
  <1>3. SetupOnce => OneFounderPerTenant
    BY DEF SetupOnce
  <1>4. QED
    BY <1>1, <1>2, <1>3, TypeCorrect, PTL DEF Spec

-----------------------------------------------------------------------------
(* Lock-out.  Whoever has a row has a tenant (ReferencesResolve), and that *)
(* tenant is suspended, so none of the five ways to a token or to a        *)
(* handler is open.                                                        *)

LEMMA SuspendedOrGone ==
  ASSUME LockedOut, NEW t \in Tenants, TenantExists(t)
  PROVE  Suspended(t)
  BY DEF LockedOut, TenantExists, Suspended

LEMMA HolderSuspended ==
  ASSUME LockedOut, TypeOK, ReferencesResolve, AccessAssumption, NEW u \in Users,
         UserExists(u) \/ InsertUser(u)
  PROVE  Suspended(Home[u])
  BY SuspendedOrGone DEF ReferencesResolve, InsertUser

\* A request that is served goes to none of the steps that lead out.
LEMMA OutServed ==
  ASSUME TypeOK, ReferencesResolve, LockedOut, NEW r \in Requests, Served(r)
  PROVE  LockedOut'
  <1>1. UNCHANGED <<tenants, users>>
    BY DEF Served, HasAnyUser, SetupFails, LineLoginFails, IssueToken,
       RefuseSuspended, ReadOrRefuse, UploadDocument, WriteAudit
  <1>2. /\ ~HasAnyUser(r) /\ ~ReadOrRefuse(r)
        /\ \A u \in Users, t \in Tenants : ~UploadDocument(r, u, t)
    BY DEF LockedOut, HasAnyUser, ReadOrRefuse, UploadDocument
  <1>3. CASE IssueToken(r)
    <2>1. req[r].user \in Users
      BY <1>3 DEF IssueToken, At, TypeOK
    <2>2. FALSE
      BY <1>3, <2>1 DEF IssueToken, LockedOut, PassesStatusCheck, Own
    <2>3. QED
      BY <2>2
  <1>4. CASE UNCHANGED tokens /\ Finish(r)
    <2>1. \A q \in Requests : req'[q] = req[q] \/ req'[q] = Idle
      BY <1>4 DEF Finish, TypeOK
    <2>2. QED
      BY <1>1, <1>4, <2>1 DEF LockedOut, At, Idle, UserExists, Suspended
  <1>5. QED
    BY <1>2, <1>3, <1>4 DEF Served, SetupFails, LineLoginFails, RefuseSuspended, WriteAudit

LEMMA OutServedUser ==
  ASSUME TypeOK, ReferencesResolve, LockedOut,
         NEW r \in Requests, NEW u \in Users, ServedUser(r, u)
  PROVE  LockedOut'
  <1>1. ~CreateUser(r, u) /\ ~DeleteUser(r, u)
        /\ \A status \in {"active", "inactive"} : ~UpdateUser(r, u, status)
    BY DEF LockedOut, CreateUser, DeleteUser, UpdateUser
  <1>2. ~CheckTenantStatus(r, u)
    BY DEF LockedOut, CheckTenantStatus, PassesStatusCheck
  <1>3. CASE Login(r, u) \/ Refresh(r, u)
    <2>1. Suspended(Home[u])
      BY <1>3, HolderSuspended, AccessAssumption DEF Login, Refresh, FoundActive, UserExists
    <2>2. UNCHANGED <<tenants, users, tokens>>
      BY <1>3 DEF Login, Refresh
    <2>3. \A q \in Requests : q # r => req'[q] = req[q]
      BY <1>3 DEF Login, Refresh, TypeOK
    <2>4. req'[r].pc = "token" /\ req'[r].user = u
      BY <1>3 DEF Login, Refresh, Idle, TypeOK
    <2>5. QED
      BY <2>1, <2>2, <2>3, <2>4 DEF LockedOut, At, UserExists, Suspended
  <1>4. CASE SetupUser(r, u) \/ CreateLineUser(r, u) \/ LineLogin(r, u)
    <2>1. Suspended(Home[u])
      BY <1>4, HolderSuspended, AccessAssumption
         DEF SetupUser, CreateLineUser, LineLogin, FoundActive, UserExists
    <2>2. UNCHANGED tenants /\ tokens' = [tokens EXCEPT ![u] = TokenKinds]
      BY <1>4 DEF SetupUser, CreateLineUser, LineLogin
    <2>3. users' = users \/ users' = [users EXCEPT ![u] = "active"]
      BY <1>4 DEF SetupUser, CreateLineUser, LineLogin, InsertUser
    <2>4. \A q \in Requests : req'[q] = req[q] \/ req'[q] = Idle
      BY <1>4 DEF SetupUser, CreateLineUser, LineLogin, Finish, TypeOK
    <2>5. \A v \in Users : UserExists(v) => UserExists(v)'
      BY <2>3 DEF UserExists, TypeOK
    <2>6. \A v \in Users : v # u => tokens'[v] = tokens[v]
      BY <2>2 DEF TypeOK
    <2>7. QED
      BY <2>1, <2>2, <2>4, <2>5, <2>6 DEF LockedOut, At, Idle, Suspended
  <1>5. QED
    BY <1>1, <1>2, <1>3, <1>4, Zenon DEF ServedUser

LEMMA OutServedTenant ==
  ASSUME TypeOK, ReferencesResolve, LockedOut,
         NEW r \in Requests, NEW t \in Tenants, ServedTenant(r, t)
  PROVE  LockedOut'
  <1>1. LineLoginNew(r, t)
    BY DEF ServedTenant, LockedOut, SetupTenant, CreateTenant, SuspendTenant,
       UnsuspendTenant, DeleteTenant, RestoreTenant, PermanentDeleteTenant, UpdateTenant
  <1>2. req'[r].pc = "lineUser" /\ \A q \in Requests : q # r => req'[q] = req[q]
    BY <1>1 DEF LineLoginNew, Idle, TypeOK
  <1>3. UNCHANGED <<tenants, users, tokens>>
    BY <1>1 DEF LineLoginNew
  <1>4. QED
    BY <1>2, <1>3 DEF LockedOut, At, UserExists, Suspended

\* Once no open tenant is left and the requests that passed the check before are
\* served, no request of anybody gets a suspension lifted.
THEOREM LockedOutStays == Spec => LockedOutForGood
  <1>1. TypeOK /\ ReferencesResolve /\ [Next]_vars => (LockedOut => LockedOut')
    <2> SUFFICES ASSUME TypeOK, ReferencesResolve, LockedOut, [Next]_vars
                 PROVE  LockedOut'
      OBVIOUS
    <2>1. CASE UNCHANGED vars
      BY <2>1 DEF vars, LockedOut, At, UserExists, Suspended
    <2>2. CASE Crash
      BY <2>2 DEF Crash, LockedOut, At, Idle, UserExists, Suspended
    <2>3. ASSUME NEW u \in Users, Expire(u) PROVE LockedOut'
      <3>1. UNCHANGED <<tenants, users, req>>
        BY <2>3 DEF Expire
      <3>2. \A v \in Users : tokens[v] = {} => tokens'[v] = {}
        BY <2>3 DEF Expire, TypeOK
      <3>3. QED
        BY <3>1, <3>2 DEF LockedOut, At, UserExists, Suspended
    <2>4. QED
      BY <2>1, <2>2, <2>3, NextCases, OutServed, OutServedUser, OutServedTenant
  <1>2. QED
    BY <1>1, TypeCorrect, ReferencesAlwaysResolve, PTL DEF Spec, LockedOutForGood

=============================================================================
