----------------------------- MODULE AccessProofs -----------------------------
(***************************************************************************)
(* For any number of overlapping requests: the tables, the cache and the   *)
(* requests keep their shapes; the cache tells the truth but for the known *)
(* reasons; requests are admitted on permissions their users hold, or on   *)
(* what is known to be old; and no removal that nothing has overtaken      *)
(* leaves the system without a SUPER_ADMIN.                                *)
(***************************************************************************)
EXTENDS Access, FiniteSetTheorems, TLAPS

\* The kind of a request tells the record it is, and the call it carries.
LEMMA RequestShape ==
  ASSUME TypeOK, NEW h \in Handlers
  PROVE  /\ req[h].kind # "idle" => req[h].call \in Call
         /\ req[h].kind \in Operations => req[h].call.op = req[h].kind
         /\ req[h].kind = "cacheResult" => req[h].found \in Answer
         /\ req[h].kind = "deleteUserRole" => req[h].call.op = "removeRole"
         /\ req[h].kind = "replacePermissions" =>
              /\ req[h].call.op = "updateRolePermissions"
              /\ req[h] = [kind |-> "replacePermissions", call |-> req[h].call,
                           overtaken |-> req[h].overtaken]
              /\ req[h].overtaken \in BOOLEAN
         /\ req[h].kind = "findUsers" => req[h].call.op = "updateRolePermissions"
         /\ req[h].kind = "invalidate" =>
              /\ req[h] = [kind |-> "invalidate", call |-> req[h].call,
                           users |-> req[h].users]
              /\ req[h].users \in SUBSET Users
<1>1. req[h] \in Request
  BY DEF TypeOK
<1>2. CASE \E op \in Operations : req[h] \in [kind : {op, "lookup"}, call : Calls(op)]
  BY <1>2 DEF Calls, Operations, Idle
<1>3. CASE ~\E op \in Operations : req[h] \in [kind : {op, "lookup"}, call : Calls(op)]
  BY <1>1, <1>3 DEF Request, Calls, Operations, Idle
<1>4. QED
  BY <1>2, <1>3

\* The operation of a call tells the record it is.
LEMMA CallShape ==
  ASSUME NEW c \in Call
  PROVE  /\ c.actor \in Users /\ c.op \in Operations
         /\ c.op \in {"assignRole", "removeRole"} => c.user \in Users /\ c.role \in Roles
         /\ c.op \in {"updateRolePermissions", "createRole"} =>
              c.role \in Roles /\ c.permissions \in SUBSET Permissions
BY NamesAreKnown DEF Call, Operations

LEMMA InitTypeOK == Init => TypeOK
BY NamesAreKnown DEF Init, TypeOK, rolesOf, Request, Idle

\* A step that moves request h on keeps the shapes if it keeps those of the tables.
LEMMA MoveTypeOK ==
  ASSUME TypeOK, NEW h \in Handlers, NEW r \in Request, Proceed(h, r),
         overtaken' \subseteq Handlers,
         userRoles' \subseteq Users \X Roles,
         roles \subseteq roles', roles' \subseteq Roles,
         \A u \in Users : rolesOf(u)' \subseteq roles',
         grants' \in [Roles -> SUBSET Permissions],
         cache' \in [Users -> {NULL} \cup Answer],
         stale' \subseteq Users,
         r.kind = "replacePermissions" => r.call.role \in roles
  PROVE  TypeOK'
<1>1. req' \in [Handlers -> Request]
  BY DEF TypeOK, Proceed
<1>2. \A g \in Handlers : req'[g] = IF g = h THEN r ELSE req[g]
  BY DEF TypeOK, Proceed
<1>3. \A g \in Handlers : req'[g].kind = "replacePermissions" => req'[g].call.role \in roles'
  BY <1>2 DEF TypeOK
<1>4. QED
  BY <1>1, <1>3 DEF TypeOK

\* A step that moves request h on and writes nothing keeps the shapes.
LEMMA ReadTypeOK ==
  ASSUME TypeOK, NEW h \in Handlers, NEW r \in Request, Proceed(h, r),
         overtaken' \subseteq Handlers,
         UNCHANGED <<tables, cache, stale>>,
         r.kind = "replacePermissions" => r.call.role \in roles
  PROVE  TypeOK'
<1>1. userRoles' \subseteq Users \X Roles /\ roles' = roles /\ roles' \subseteq Roles
  BY DEF TypeOK, tables
<1>2. \A u \in Users : rolesOf(u)' \subseteq roles'
  BY DEF TypeOK, tables, rolesOf
<1>3. /\ grants' \in [Roles -> SUBSET Permissions]
      /\ cache' \in [Users -> {NULL} \cup Answer] /\ stale' \subseteq Users
  BY DEF TypeOK, tables
<1>4. QED
  BY <1>1, <1>2, <1>3, MoveTypeOK

\* The stages of a request that carry its call alone.
LEMMA StageIsRequest ==
  ASSUME NEW c \in Call
  PROVE  /\ [kind |-> "lookup", call |-> c] \in Request
         /\ [kind |-> c.op, call |-> c] \in Request
         /\ c.op = "removeRole" => [kind |-> "deleteUserRole", call |-> c] \in Request
         /\ c.op = "updateRolePermissions" =>
              /\ [kind |-> "findUsers", call |-> c] \in Request
              /\ \A b \in BOOLEAN :
                   [kind |-> "replacePermissions", call |-> c, overtaken |-> b] \in Request
<1>1. c \in Calls(c.op) /\ c.op \in Operations
  BY CallShape DEF Calls
<1>2. /\ [kind |-> "lookup", call |-> c] \in [kind : {c.op, "lookup"}, call : Calls(c.op)]
      /\ [kind |-> c.op, call |-> c] \in [kind : {c.op, "lookup"}, call : Calls(c.op)]
  BY <1>1
<1>3. QED
  BY <1>1, <1>2 DEF Request

LEMMA AnswerOfTables ==
  ASSUME TypeOK, NEW u \in Users
  PROVE  userRolesAndPermissions(u) \in Answer
<1>1. rolesOf(u) \in SUBSET Roles
  BY DEF rolesOf
<1>2. \A r \in rolesOf(u) : grants[r] \in SUBSET Permissions
  BY <1>1 DEF TypeOK
<1>3. UNION {grants[r] : r \in rolesOf(u)} \in SUBSET Permissions
  BY <1>2
<1>4. QED
  BY <1>1, <1>3 DEF userRolesAndPermissions, Answer

\* Whatever it answers, requirePermission admits or finishes.
LEMMA DecideProceeds ==
  ASSUME TypeOK, NEW h \in Handlers, NEW c \in Call, NEW a, Decide(h, c, a)
  PROVE  \E r \in Request : Proceed(h, r) /\ r.kind # "replacePermissions"
<1>1. CASE Finish(h)
  BY <1>1 DEF Finish, Request, Idle
<1>2. CASE Proceed(h, [kind |-> c.op, call |-> c])
  <2>1. c.op \in Operations
    BY CallShape
  <2>2. [kind |-> c.op, call |-> c] \in Request
    BY <2>1, StageIsRequest
  <2>3. QED
    BY <1>2, <2>1, <2>2 DEF Operations
<1>3. QED
  BY <1>1, <1>2 DEF Decide

LEMMA FinishIsRequest ==
  ASSUME NEW h, Finish(h)
  PROVE  Idle \in Request /\ Proceed(h, Idle) /\ Idle.kind # "replacePermissions"
BY DEF Finish, Request, Idle

LEMMA AskTypeOK ==
  ASSUME TypeOK, NEW h \in Handlers, NEW c \in Call, Ask(h, c), overtaken' \subseteq Handlers
  PROVE  TypeOK'
<1>1. CASE Decide(h, c, cache[c.actor])
  BY <1>1, DecideProceeds, ReadTypeOK DEF Ask
<1>2. CASE Proceed(h, [kind |-> "lookup", call |-> c])
  <2>1. [kind |-> "lookup", call |-> c] \in Request
    BY StageIsRequest
  <2>2. QED
    BY <1>2, <2>1, ReadTypeOK DEF Ask
<1>3. QED
  BY <1>1, <1>2 DEF Ask

\* Steps of requirePermission that follow.
LEMMA LookupTypeOK ==
  ASSUME TypeOK, NEW h \in Handlers, Lookup(h), overtaken' \subseteq Handlers
  PROVE  TypeOK'
<1>1. req[h].call \in Call
  BY RequestShape DEF Lookup
<1>2. userRolesAndPermissions(req[h].call.actor) \in Answer
  BY <1>1, CallShape, AnswerOfTables
<1>3. [kind |-> "cacheResult", call |-> req[h].call,
       found |-> userRolesAndPermissions(req[h].call.actor)] \in Request
  BY <1>1, <1>2 DEF Request
<1>4. QED
  BY <1>3, ReadTypeOK DEF Lookup

LEMMA CacheResultTypeOK ==
  ASSUME TypeOK, NEW h \in Handlers, CacheResult(h), overtaken' \subseteq Handlers
  PROVE  TypeOK'
<1>1. req[h].call \in Call /\ req[h].call.actor \in Users /\ req[h].found \in Answer
  BY RequestShape, CallShape DEF CacheResult
<1>2. PICK r \in Request : Proceed(h, r) /\ r.kind # "replacePermissions"
  BY <1>1, DecideProceeds DEF CacheResult
<1>3. cache' \in [Users -> {NULL} \cup Answer] /\ stale' \subseteq Users
  BY <1>1 DEF CacheResult, TypeOK
<1>4. UNCHANGED tables
  BY DEF CacheResult
<1>5. \A u \in Users : rolesOf(u)' \subseteq roles'
  BY <1>4 DEF TypeOK, tables, rolesOf
<1>6. QED
  BY <1>2, <1>3, <1>4, <1>5, MoveTypeOK DEF TypeOK, tables

LEMMA ExpireTypeOK ==
  ASSUME TypeOK, NEW u \in Users, Expire(u), overtaken' \subseteq Handlers
  PROVE  TypeOK'
<1>1. cache' \in [Users -> {NULL} \cup Answer] /\ stale' \subseteq Users
  BY DEF Expire, TypeOK
<1>2. QED
  BY <1>1 DEF Expire, TypeOK, tables, rolesOf

\* An invalidation that is due is a request.
LEMMA InvalidateIsRequest ==
  ASSUME NEW h, req[h].call \in Call, NEW S \in SUBSET Users, thenInvalidate(h, S)
  PROVE  \E r \in Request : Proceed(h, r) /\ r.kind # "replacePermissions"
<1>1. [kind |-> "invalidate", call |-> req[h].call, users |-> S] \in Request
  BY DEF Request
<1>2. QED
  BY <1>1 DEF thenInvalidate

LEMMA AssignRoleTypeOK ==
  ASSUME TypeOK, NEW h \in Handlers, AssignRole(h), overtaken' \subseteq Handlers
  PROVE  TypeOK'
<1>1. req[h].call \in Call /\ req[h].call.op = "assignRole"
  BY RequestShape DEF AssignRole, Operations
<1> DEFINE c == req[h].call
           row == <<c.user, c.role>>
<1>2. CASE userRoles' = userRoles \cup {row} /\ roleExists(c.role) /\ thenInvalidate(h, {c.user})
  <2>1. c.role \in roles /\ c.role \in Roles
    BY <1>2 DEF roleExists, TypeOK
  <2>2. CASE c.user \in Users
    <3>1. PICK r \in Request : Proceed(h, r) /\ r.kind # "replacePermissions"
      BY <1>1, <1>2, <2>2, InvalidateIsRequest
    <3>2. userRoles' \subseteq Users \X Roles
      BY <1>2, <2>1, <2>2 DEF TypeOK
    <3>3. \A u \in Users : rolesOf(u)' \subseteq roles'
      BY <1>2, <2>1 DEF TypeOK, rolesOf, AssignRole
    <3>4. QED
      BY <3>1, <3>2, <3>3, MoveTypeOK DEF TypeOK, AssignRole
  <2>3. QED
    BY <1>1, <2>2, CallShape DEF AssignRole
<1>3. CASE Finish(h) /\ UNCHANGED userRoles
  BY <1>3, FinishIsRequest, ReadTypeOK DEF AssignRole, tables
<1>4. QED
  BY <1>2, <1>3 DEF AssignRole

LEMMA RemoveRoleTypeOK ==
  ASSUME TypeOK, NEW h \in Handlers, RemoveRole(h), overtaken' \subseteq Handlers
  PROVE  TypeOK'
<1>1. req[h].call \in Call /\ req[h].call.op = "removeRole"
  BY RequestShape DEF RemoveRole, Operations
<1>2. CASE Finish(h)
  BY <1>2, FinishIsRequest, ReadTypeOK DEF RemoveRole
<1>3. CASE Proceed(h, [kind |-> "deleteUserRole", call |-> req[h].call])
  <2>1. [kind |-> "deleteUserRole", call |-> req[h].call] \in Request
    BY <1>1, StageIsRequest
  <2>2. QED
    BY <1>3, <2>1, ReadTypeOK DEF RemoveRole
<1>4. QED
  BY <1>2, <1>3 DEF RemoveRole

LEMMA DeleteUserRoleTypeOK ==
  ASSUME TypeOK, NEW h \in Handlers, DeleteUserRole(h), overtaken' \subseteq Handlers
  PROVE  TypeOK'
<1> DEFINE c == req[h].call
           row == <<c.user, c.role>>
<1>1. c \in Call /\ c.op = "removeRole" /\ c.user \in Users
  BY RequestShape, CallShape DEF DeleteUserRole
<1>2. CASE userRoles' = userRoles \ {row} /\ thenInvalidate(h, {c.user})
  <2>1. PICK r \in Request : Proceed(h, r) /\ r.kind # "replacePermissions"
    BY <1>1, <1>2, InvalidateIsRequest
  <2>2. \A u \in Users : rolesOf(u)' \subseteq roles'
    BY <1>2 DEF TypeOK, rolesOf, DeleteUserRole
  <2>3. QED
    BY <1>2, <2>1, <2>2, MoveTypeOK DEF TypeOK, DeleteUserRole
<1>3. CASE Finish(h) /\ UNCHANGED userRoles
  BY <1>3, FinishIsRequest, ReadTypeOK DEF DeleteUserRole, tables
<1>4. QED
  BY <1>2, <1>3 DEF DeleteUserRole

LEMMA UpdateRolePermissionsTypeOK ==
  ASSUME TypeOK, NEW h \in Handlers, UpdateRolePermissions(h), overtaken' \subseteq Handlers
  PROVE  TypeOK'
<1> DEFINE r == [kind |-> "replacePermissions", call |-> req[h].call, overtaken |-> FALSE]
<1>1. r \in Request
  BY RequestShape, StageIsRequest DEF UpdateRolePermissions, Operations
<1>2. CASE Finish(h)
  BY <1>2, FinishIsRequest, ReadTypeOK DEF UpdateRolePermissions
<1>3. CASE roleExists(req[h].call.role) /\ Proceed(h, r)
  <2>1. r.call.role \in roles
    BY <1>3 DEF roleExists
  <2>2. QED
    BY <1>1, <1>3, <2>1, ReadTypeOK DEF UpdateRolePermissions
<1>4. QED
  BY <1>2, <1>3 DEF UpdateRolePermissions

LEMMA ReplacePermissionsTypeOK ==
  ASSUME TypeOK, NEW h \in Handlers, ReplacePermissions(h), overtaken' \subseteq Handlers
  PROVE  TypeOK'
<1> DEFINE c == req[h].call
           k == kept(req[h])
<1>1. /\ c \in Call /\ c.op = "updateRolePermissions"
      /\ c.role \in Roles /\ c.permissions \in SUBSET Permissions
  BY RequestShape, CallShape DEF ReplacePermissions
<1>2. CASE Finish(h) /\ UNCHANGED grants
  BY <1>2, FinishIsRequest, ReadTypeOK DEF ReplacePermissions, tables
<1>3. CASE /\ grants' = [grants EXCEPT ![c.role] = k \cup c.permissions]
           /\ req' = [g \in Handlers |->
                IF g = h THEN [kind |-> "findUsers", call |-> c]
                ELSE overtake(req[g], c.role)]
  <2>1. k \subseteq Permissions
    BY <1>1 DEF kept, TypeOK
  <2>2. grants' \in [Roles -> SUBSET Permissions]
    BY <1>1, <1>3, <2>1 DEF TypeOK
  <2>3. [kind |-> "findUsers", call |-> c] \in Request
    BY <1>1, StageIsRequest
  <2>4. ASSUME NEW g \in Handlers, g # h
        PROVE  /\ req'[g] \in Request
               /\ req'[g].kind = req[g].kind
               /\ req[g].kind = "replacePermissions" => req'[g].call = req[g].call
    <3>1. CASE req[g].kind = "replacePermissions" /\ req[g].call.role = c.role
      <4>1. req'[g] = [req[g] EXCEPT !.overtaken = TRUE]
        BY <1>3, <2>4, <3>1 DEF overtake
      <4>2. req'[g] = [kind |-> "replacePermissions", call |-> req[g].call, overtaken |-> TRUE]
        BY <3>1, <4>1, RequestShape
      <4>3. req[g].call \in Call /\ req[g].call.op = "updateRolePermissions"
        BY <3>1, RequestShape
      <4>4. [kind |-> "replacePermissions", call |-> req[g].call, overtaken |-> TRUE] \in Request
        BY <4>3, StageIsRequest
      <4>5. QED
        BY <3>1, <4>2, <4>4
    <3>2. CASE ~(req[g].kind = "replacePermissions" /\ req[g].call.role = c.role)
      BY <1>3, <2>4, <3>2 DEF overtake, TypeOK
    <3>3. QED
      BY <3>1, <3>2
  <2>5. req'[h] = [kind |-> "findUsers", call |-> c]
    BY <1>3
  <2>6. req' \in [Handlers -> Request]
    <3>1. \A g \in Handlers : req'[g] \in Request
      BY <2>3, <2>4, <2>5
    <3>2. req' = [g \in Handlers |-> req'[g]]
      BY <1>3
    <3>3. QED
      BY <3>1, <3>2
  <2>7. \A g \in Handlers : req'[g].kind = "replacePermissions" => req'[g].call.role \in roles'
    BY <2>4, <2>5 DEF TypeOK, ReplacePermissions
  <2>8. QED
    BY <2>2, <2>6, <2>7 DEF TypeOK, ReplacePermissions, rolesOf
<1>4. QED
  BY <1>2, <1>3 DEF ReplacePermissions

LEMMA FindUsersTypeOK ==
  ASSUME TypeOK, NEW h \in Handlers, FindUsers(h), overtaken' \subseteq Handlers
  PROVE  TypeOK'
<1>1. req[h].call \in Call
  BY RequestShape DEF FindUsers
<1>2. holders(req[h].call.role) \in SUBSET Users
  BY DEF holders
<1>3. PICK r \in Request : Proceed(h, r) /\ r.kind # "replacePermissions"
  BY <1>1, <1>2, InvalidateIsRequest DEF FindUsers
<1>4. QED
  BY <1>3, ReadTypeOK DEF FindUsers

LEMMA InvalidateTypeOK ==
  ASSUME TypeOK, NEW h \in Handlers, Invalidate(h), overtaken' \subseteq Handlers
  PROVE  TypeOK'
<1>1. /\ req[h].call \in Call /\ req[h].users \in SUBSET Users
      /\ req[h] = [kind |-> "invalidate", call |-> req[h].call, users |-> req[h].users]
  BY RequestShape DEF Invalidate
<1>2. UNCHANGED tables
  BY DEF Invalidate
<1>3. \A u \in Users : rolesOf(u)' \subseteq roles'
  BY <1>2 DEF TypeOK, tables, rolesOf
<1>4. CASE Finish(h) /\ UNCHANGED <<cache, stale>>
  BY <1>2, <1>4, FinishIsRequest, ReadTypeOK
<1>5. ASSUME NEW u \in req[h].users,
             \/ cache' = [cache EXCEPT ![u] = NULL] /\ stale' = stale \ {u}
             \/ UNCHANGED cache /\ stale' = stale \cup {u},
             Proceed(h, [req[h] EXCEPT !.users = @ \ {u}])
      PROVE  TypeOK'
  <2> DEFINE r == [kind |-> "invalidate", call |-> req[h].call, users |-> req[h].users \ {u}]
  <2>1. [req[h] EXCEPT !.users = @ \ {u}] = r
    BY <1>1, SMTT(30)
  <2>2. r \in Request
    BY <1>1 DEF Request
  <2>3. cache' \in [Users -> {NULL} \cup Answer] /\ stale' \subseteq Users
    BY <1>1, <1>5 DEF TypeOK
  <2>4. Proceed(h, r) /\ r.kind # "replacePermissions"
    BY <1>5, <2>1
  <2>5. QED
    BY <1>2, <1>3, <2>2, <2>3, <2>4, MoveTypeOK DEF TypeOK, tables
<1>6. QED
  BY <1>4, <1>5 DEF Invalidate

LEMMA CreateRoleTypeOK ==
  ASSUME TypeOK, NEW h \in Handlers, CreateRole(h), overtaken' \subseteq Handlers
  PROVE  TypeOK'
<1> DEFINE c == req[h].call
<1>1. c.role \in Roles /\ c.permissions \in SUBSET Permissions
  BY RequestShape, CallShape DEF CreateRole, Operations
<1>2. /\ roles \subseteq roles' /\ roles' \subseteq Roles
      /\ grants' \in [Roles -> SUBSET Permissions]
  BY <1>1 DEF CreateRole, TypeOK
<1>3. \A u \in Users : rolesOf(u)' \subseteq roles'
  BY <1>2 DEF CreateRole, TypeOK, rolesOf
<1>4. QED
  BY <1>2, <1>3, FinishIsRequest, MoveTypeOK DEF CreateRole, TypeOK

LEMMA CreateRestaurantTypeOK ==
  ASSUME TypeOK, NEW h \in Handlers, CreateRestaurant(h), overtaken' \subseteq Handlers
  PROVE  TypeOK'
<1> DEFINE u == req[h].call.actor
           row == <<u, "RESTAURANT_OWNER">>
<1>1. u \in Users /\ row \in Users \X Roles
  BY RequestShape, CallShape, NamesAreKnown DEF CreateRestaurant, Operations
<1>2. /\ userRoles' \subseteq Users \X Roles /\ stale' \subseteq Users
      /\ \A v \in Users : rolesOf(v)' \subseteq roles'
  BY <1>1 DEF CreateRestaurant, TypeOK, rolesOf, roleExists
<1>3. QED
  BY <1>2, FinishIsRequest, MoveTypeOK DEF CreateRestaurant, TypeOK

LEMMA AbandonTypeOK ==
  ASSUME TypeOK, NEW h \in Handlers, Abandon(h), overtaken' \subseteq Handlers
  PROVE  TypeOK'
<1>1. due(h) \subseteq Users
  BY RequestShape DEF due, holders
<1>2. stale' \subseteq Users /\ UNCHANGED <<tables, cache>>
  BY <1>1 DEF Abandon, TypeOK
<1>3. \A u \in Users : rolesOf(u)' \subseteq roles'
  BY <1>2 DEF TypeOK, tables, rolesOf
<1>4. Finish(h)
  BY DEF Abandon
<1>5. QED
  BY <1>2, <1>3, <1>4, FinishIsRequest, MoveTypeOK DEF TypeOK, tables

LEMMA StepTypeOK ==
  ASSUME TypeOK, NEW h \in Handlers, Step(h), noteOvertaken(h)
  PROVE  TypeOK'
<1>1. overtaken' \subseteq Handlers
  BY DEF noteOvertaken
<1>2. \A c \in Asked : c \in Call
  BY OnlyCallsAreAsked
<1>3. QED
  BY <1>1, <1>2, AskTypeOK, LookupTypeOK, CacheResultTypeOK, AssignRoleTypeOK,
     RemoveRoleTypeOK, DeleteUserRoleTypeOK, UpdateRolePermissionsTypeOK,
     ReplacePermissionsTypeOK, FindUsersTypeOK, InvalidateTypeOK, CreateRoleTypeOK,
     CreateRestaurantTypeOK, AbandonTypeOK DEF Step

LEMMA NextTypeOK == TypeOK /\ [Next]_vars => TypeOK'
<1> SUFFICES ASSUME TypeOK, [Next]_vars PROVE TypeOK'
  OBVIOUS
<1>1. CASE UNCHANGED vars
  BY <1>1 DEF vars, tables, TypeOK, rolesOf
<1>2. ASSUME NEW u \in Users, Expire(u), UNCHANGED overtaken
      PROVE  TypeOK'
  BY <1>2, ExpireTypeOK DEF TypeOK
<1>3. QED
  BY <1>1, <1>2, StepTypeOK DEF Next

(***************************************************************************)
(* Shapes are kept, and a UserRole row refers to a role, however many      *)
(* requests overlap.                                                       *)
(***************************************************************************)
THEOREM TypeCorrect == Spec => []TypeOK
BY InitTypeOK, NextTypeOK, PTL DEF Spec

-----------------------------------------------------------------------------
\* With TypeOK, which is proved above, the inductive invariant.
AccessInv == CacheTellsTheTruth /\ ReadsHold

LEMMA InitInv == Init => AccessInv
BY DEF Init, AccessInv, CacheTellsTheTruth, ReadsHold, isFreshRead, Idle

\* Steps that leave the tables alone leave alone what is read of them.
LEMMA TablesKept ==
  ASSUME UNCHANGED tables
  PROVE  /\ \A u : userRolesAndPermissions(u)' = userRolesAndPermissions(u)
         /\ \A r : holders(r)' = holders(r) /\ mayRemove(r)' = mayRemove(r)
<1>1. \A u : userRolesAndPermissions(u)' = userRolesAndPermissions(u)
  BY DEF userRolesAndPermissions, rolesOf, tables
<1>2. \A r : holders(r)' = holders(r)
  BY DEF holders, tables
<1>3. \A r : mayRemove(r)' = mayRemove(r)
  BY <1>2 DEF mayRemove
<1>4. QED
  BY <1>1, <1>2, <1>3

\* A step that leaves tables and requests alone leaves their reads alone.
LEMMA ReadsKept ==
  ASSUME ReadsHold, UNCHANGED <<tables, overtaken, req>>
  PROVE  ReadsHold'
<1> SUFFICES ASSUME NEW h \in Handlers, h \notin overtaken
             PROVE  isFreshRead(req[h])'
  BY DEF ReadsHold
<1>1. isFreshRead(req[h])
  BY DEF ReadsHold
<1>2. QED
  BY <1>1, TablesKept DEF isFreshRead

-----------------------------------------------------------------------------
\* What a step makes of its own request.

\* A decision leaves nothing to go by.
LEMMA DecisionKind ==
  ASSUME TypeOK, NEW h \in Handlers, NEW c \in Call, NEW a, Decide(h, c, a)
  PROVE  req'[h].kind \notin {"cacheResult", "deleteUserRole"}
<1>1. c.op \in Operations
  BY CallShape
<1>2. QED
  BY <1>1 DEF Decide, Finish, Idle, Proceed, Operations, TypeOK

\* Only requirePermission admits a request, and only two steps leave reads to go by.
LEMMA StepKind ==
  ASSUME TypeOK, NEW h \in Handlers, Step(h),
         ~CacheResult(h), \A c \in Call : ~Ask(h, c)
  PROVE  /\ ~Admitted(h)
         /\ ~Lookup(h) /\ ~RemoveRole(h) =>
              req'[h].kind \notin {"cacheResult", "deleteUserRole"}
<1>1. CASE Lookup(h) \/ RemoveRole(h)
  BY <1>1 DEF Lookup, RemoveRole, Finish, Idle, Proceed, Admitted, Operations, TypeOK
<1>2. CASE UpdateRolePermissions(h) \/ FindUsers(h)
  BY <1>2 DEF UpdateRolePermissions, FindUsers, thenInvalidate, Finish, Idle, Proceed,
     Admitted, Operations, TypeOK
<1>3. CASE AssignRole(h) \/ DeleteUserRole(h) \/ CreateRole(h) \/ CreateRestaurant(h)
  BY <1>3 DEF AssignRole, DeleteUserRole, CreateRole, CreateRestaurant, thenInvalidate,
     Finish, Idle, Proceed, Admitted, Operations, TypeOK
<1>4. CASE ReplacePermissions(h)
  BY <1>4 DEF ReplacePermissions, Finish, Idle, Proceed, Admitted, Operations, TypeOK
<1>5. CASE Abandon(h)
  BY <1>5 DEF Abandon, Finish, Idle, Proceed, Admitted, Operations, TypeOK
<1>6. CASE Invalidate(h)
  <2>1. req'[h].kind \in {"invalidate", "idle"}
    BY <1>6, RequestShape DEF Invalidate, Finish, Idle, Proceed, TypeOK
  <2>2. QED
    BY <1>6, <2>1 DEF Admitted, Operations, Invalidate, Lookup, RemoveRole
<1>7. QED
  BY <1>1, <1>2, <1>3, <1>4, <1>5, <1>6, OnlyCallsAreAsked DEF Step

\* A request goes by what it has just read.
LEMMA OwnReadIsFresh ==
  ASSUME TypeOK, NEW h \in Handlers, Step(h)
  PROVE  isFreshRead(req[h])'
<1>1. CASE Lookup(h)
  <2> DEFINE u == req[h].call.actor
  <2>1. req'[h] = [kind |-> "cacheResult", call |-> req[h].call,
                   found |-> userRolesAndPermissions(u)]
    BY <1>1 DEF Lookup, Proceed, TypeOK
  <2>2. \A v : userRolesAndPermissions(v)' = userRolesAndPermissions(v)
    BY <1>1, TablesKept DEF Lookup
  <2>3. QED
    BY <2>1, <2>2 DEF isFreshRead
<1>2. CASE RemoveRole(h)
  <2>1. \A r : mayRemove(r)' = mayRemove(r)
    BY <1>2, TablesKept DEF RemoveRole
  <2>2. req'[h] = Idle \/ /\ req'[h] = [kind |-> "deleteUserRole", call |-> req[h].call]
                          /\ mayRemove(req[h].call.role)
    BY <1>2 DEF RemoveRole, Finish, Proceed, TypeOK
  <2>3. QED
    BY <2>1, <2>2 DEF isFreshRead, Idle
<1>3. CASE ~Lookup(h) /\ ~RemoveRole(h)
  <2>1. ASSUME NEW c \in Call, Ask(h, c)
        PROVE  req'[h].kind \notin {"cacheResult", "deleteUserRole"}
    BY <2>1, DecisionKind DEF Ask, Proceed, TypeOK
  <2>2. ASSUME CacheResult(h)
        PROVE  req'[h].kind \notin {"cacheResult", "deleteUserRole"}
    BY <2>2, RequestShape, DecisionKind DEF CacheResult
  <2>3. req'[h].kind \notin {"cacheResult", "deleteUserRole"}
    BY <1>3, <2>1, <2>2, StepKind
  <2>4. QED
    BY <2>3 DEF isFreshRead
<1>4. QED
  BY <1>1, <1>2, <1>3

LEMMA StepReadsHold ==
  ASSUME TypeOK, NEW h \in Handlers, Step(h), noteOvertaken(h)
  PROVE  ReadsHold'
<1> SUFFICES ASSUME NEW g \in Handlers, g \notin overtaken'
             PROVE  isFreshRead(req[g])'
  BY DEF ReadsHold
<1>1. CASE g = h
  BY <1>1, OwnReadIsFresh
<1>2. CASE g # h
  BY <1>2 DEF noteOvertaken
<1>3. QED
  BY <1>1, <1>2

-----------------------------------------------------------------------------
\* What the tables answer for a user depends on his roles and on their permissions.
LEMMA AnswerKept ==
  ASSUME NEW u, rolesOf(u)' = rolesOf(u), \A r \in rolesOf(u) : grants'[r] = grants[r]
  PROVE  userRolesAndPermissions(u)' = userRolesAndPermissions(u)
<1>1. {grants'[r] : r \in rolesOf(u)} = {grants[r] : r \in rolesOf(u)}
  OBVIOUS
<1>2. QED
  BY <1>1 DEF userRolesAndPermissions

\* The other requests go on owing what they owe.
OthersOwe(h) ==
  \A g \in Handlers : g # h /\ req[g].kind \in {"findUsers", "invalidate"} => req'[g] = req[g]

LEMMA ProceedOwes ==
  ASSUME TypeOK, NEW h \in Handlers, NEW r, Proceed(h, r)
  PROVE  OthersOwe(h) /\ req'[h] = r
BY DEF OthersOwe, Proceed, TypeOK

(***************************************************************************)
(* The cache keeps telling the truth if every user whose answer changes,   *)
(* or who loses a role, is due or marked stale, and so are those whose     *)
(* entries the request owed.                                               *)
(***************************************************************************)
LEMMA TruthKept ==
  ASSUME NEW h \in Handlers, CacheTellsTheTruth, UNCHANGED cache, OthersOwe(h),
         stale \subseteq stale',
         \A u \in Users :
           \/ u \in stale' \/ u \in due(h)'
           \/ /\ u \notin due(h) /\ userRolesAndPermissions(u)' = userRolesAndPermissions(u)
              /\ \A r : <<u, r>> \in userRoles => <<u, r>> \in userRoles'
  PROVE  CacheTellsTheTruth'
<1> SUFFICES ASSUME NEW u \in Users, cache'[u] # NULL, u \notin stale',
                    \A g \in Handlers : u \notin due(g)'
             PROVE  cache'[u] = userRolesAndPermissions(u)'
  BY DEF CacheTellsTheTruth, isDue
<1>1. /\ u \notin due(h) /\ userRolesAndPermissions(u)' = userRolesAndPermissions(u)
      /\ \A r : <<u, r>> \in userRoles => <<u, r>> \in userRoles'
  OBVIOUS
<1>2. ASSUME NEW g \in Handlers, u \in due(g)
      PROVE  FALSE
  <2>1. g # h /\ req[g].kind \in {"findUsers", "invalidate"}
    BY <1>1, <1>2 DEF due
  <2>2. req'[g] = req[g]
    BY <2>1 DEF OthersOwe
  <2>3. u \in due(g)'
    BY <1>1, <1>2, <2>1, <2>2 DEF due, holders
  <2>4. QED
    BY <2>3
<1>3. u \notin stale /\ cache[u] # NULL
  OBVIOUS
<1>4. QED
  BY <1>1, <1>2, <1>3 DEF CacheTellsTheTruth, isDue

\* A query that only reads.
LEMMA ReadKeepsTruth ==
  ASSUME TypeOK, CacheTellsTheTruth, NEW h \in Handlers, NEW r, Proceed(h, r),
         due(h) \subseteq due(h)', UNCHANGED <<tables, cache, stale>>
  PROVE  CacheTellsTheTruth'
<1>1. \A u \in Users : userRolesAndPermissions(u)' = userRolesAndPermissions(u)
  BY DEF userRolesAndPermissions, rolesOf, tables
<1>2. OthersOwe(h)
  BY ProceedOwes
<1>3. \A u \in Users : u \in due(h)' \/ u \notin due(h)
  OBVIOUS
<1>4. QED
  BY <1>1, <1>2, <1>3, TruthKept DEF tables

LEMMA DecisionProceeds ==
  ASSUME NEW h, NEW c, NEW a, Decide(h, c, a)
  PROVE  \E r : Proceed(h, r)
BY DEF Decide, Finish

LEMMA ReadStepsTruth ==
  ASSUME TypeOK, CacheTellsTheTruth, NEW h \in Handlers,
         \/ \E c \in Call : Ask(h, c)
         \/ Lookup(h) \/ RemoveRole(h) \/ UpdateRolePermissions(h) \/ FindUsers(h)
  PROVE  CacheTellsTheTruth'
<1>1. ASSUME NEW c \in Call, Ask(h, c)
      PROVE  CacheTellsTheTruth'
  <2>1. (\E r : Proceed(h, r)) /\ due(h) = {}
    BY <1>1, DecisionProceeds DEF Ask, due, Idle
  <2>2. QED
    BY <1>1, <2>1, ReadKeepsTruth DEF Ask
<1>2. CASE Lookup(h)
  <2>1. (\E r : Proceed(h, r)) /\ due(h) = {}
    BY <1>2 DEF Lookup, due
  <2>2. QED
    BY <1>2, <2>1, ReadKeepsTruth DEF Lookup
<1>3. CASE RemoveRole(h)
  <2>1. (\E r : Proceed(h, r)) /\ due(h) = {}
    BY <1>3 DEF RemoveRole, Finish, due
  <2>2. QED
    BY <1>3, <2>1, ReadKeepsTruth DEF RemoveRole
<1>4. CASE UpdateRolePermissions(h)
  <2>1. (\E r : Proceed(h, r)) /\ due(h) = {}
    BY <1>4 DEF UpdateRolePermissions, Finish, due
  <2>2. QED
    BY <1>4, <2>1, ReadKeepsTruth DEF UpdateRolePermissions
<1>5. CASE FindUsers(h)
  <2> DEFINE r == [kind |-> "invalidate", call |-> req[h].call,
                   users |-> holders(req[h].call.role)]
  <2>1. Proceed(h, r) /\ due(h) = holders(req[h].call.role)
    BY <1>5 DEF FindUsers, thenInvalidate, due
  <2>2. due(h)' = holders(req[h].call.role)
    BY <2>1, ProceedOwes DEF due
  <2>3. QED
    BY <1>5, <2>1, <2>2, ReadKeepsTruth DEF FindUsers
<1>6. QED
  BY <1>1, <1>2, <1>3, <1>4, <1>5

LEMMA CacheResultTruth ==
  ASSUME TypeOK, AccessInv, NEW h \in Handlers, CacheResult(h)
  PROVE  CacheTellsTheTruth'
<1> DEFINE a == req[h].call.actor
<1>1. a \in Users /\ due(h) = {}
  BY RequestShape, CallShape DEF CacheResult, due
<1>2. h \notin overtaken => req[h].found = userRolesAndPermissions(a)
  BY DEF CacheResult, AccessInv, ReadsHold, isFreshRead
<1>3. \A u \in Users : userRolesAndPermissions(u)' = userRolesAndPermissions(u)
  BY DEF CacheResult, userRolesAndPermissions, rolesOf, tables
<1>4. OthersOwe(h) /\ userRoles' = userRoles
  BY DecisionProceeds, ProceedOwes DEF CacheResult, tables
<1>5. \A u \in Users : isDue(u) => isDue(u)'
  BY <1>1, <1>4 DEF isDue, due, OthersOwe, holders
<1> SUFFICES ASSUME NEW u \in Users, cache'[u] # NULL, u \notin stale', ~isDue(u)
             PROVE  cache'[u] = userRolesAndPermissions(u)
  BY <1>3, <1>5 DEF CacheTellsTheTruth
<1>6. CASE /\ u = a /\ cache' = [cache EXCEPT ![a] = req[h].found]
           /\ stale' = IF h \in overtaken THEN stale \cup {a} ELSE stale \ {a}
  BY <1>1, <1>2, <1>6 DEF TypeOK
<1>7. CASE cache'[u] = cache[u] /\ u \notin stale
  BY <1>7 DEF AccessInv, CacheTellsTheTruth
<1>8. QED
  BY <1>1, <1>6, <1>7 DEF CacheResult, TypeOK

LEMMA ExpireTruth ==
  ASSUME TypeOK, CacheTellsTheTruth, NEW v \in Users, Expire(v)
  PROVE  CacheTellsTheTruth'
<1>1. \A u \in Users : userRolesAndPermissions(u)' = userRolesAndPermissions(u)
  BY DEF Expire, userRolesAndPermissions, rolesOf, tables
<1>2. \A u \in Users : isDue(u)' = isDue(u)
  BY DEF Expire, isDue, due, holders, tables
<1> SUFFICES ASSUME NEW u \in Users, cache'[u] # NULL, u \notin stale', ~isDue(u)
             PROVE  cache'[u] = userRolesAndPermissions(u)
  BY <1>1, <1>2 DEF CacheTellsTheTruth
<1>3. u # v /\ cache'[u] = cache[u] /\ u \notin stale
  BY DEF Expire, TypeOK
<1>4. QED
  BY <1>3 DEF CacheTellsTheTruth

-----------------------------------------------------------------------------
\* Steps that write and then owe an invalidation.
LEMMA InvalidationIsDue ==
  ASSUME TypeOK, NEW h \in Handlers, NEW S, thenInvalidate(h, S)
  PROVE  due(h)' = S /\ OthersOwe(h)
<1>1. req'[h] = [kind |-> "invalidate", call |-> req[h].call, users |-> S] /\ OthersOwe(h)
  BY ProceedOwes DEF thenInvalidate
<1>2. QED
  BY <1>1 DEF due

\* A row of user u is written: only his answer changes.
LEMMA UserRowWritten ==
  ASSUME NEW u, NEW r, userRoles' = userRoles \cup {<<u, r>>} \/ userRoles' = userRoles \ {<<u, r>>},
         UNCHANGED grants, NEW v, v # u
  PROVE  /\ userRolesAndPermissions(v)' = userRolesAndPermissions(v)
         /\ \A q : <<v, q>> \in userRoles => <<v, q>> \in userRoles'
<1>1. rolesOf(v)' = rolesOf(v)
  BY DEF rolesOf
<1>2. QED
  BY <1>1, AnswerKept

LEMMA AssignRoleTruth ==
  ASSUME TypeOK, CacheTellsTheTruth, NEW h \in Handlers, AssignRole(h)
  PROVE  CacheTellsTheTruth'
<1> DEFINE u == req[h].call.user
           r == req[h].call.role
<1>1. due(h) = {}
  BY DEF AssignRole, due
<1>2. CASE Finish(h) /\ UNCHANGED userRoles
  BY <1>1, <1>2, ReadKeepsTruth DEF AssignRole, Finish, tables
<1>3. CASE userRoles' = userRoles \cup {<<u, r>>} /\ thenInvalidate(h, {u})
  <2>1. due(h)' = {u} /\ OthersOwe(h)
    BY <1>3, InvalidationIsDue
  <2>2. ASSUME NEW v \in Users, v # u
        PROVE  /\ userRolesAndPermissions(v)' = userRolesAndPermissions(v)
               /\ \A q : <<v, q>> \in userRoles => <<v, q>> \in userRoles'
    BY <1>3, <2>2, UserRowWritten DEF AssignRole
  <2>3. QED
    BY <1>1, <2>1, <2>2, TruthKept DEF AssignRole
<1>4. QED
  BY <1>2, <1>3 DEF AssignRole

LEMMA DeleteUserRoleTruth ==
  ASSUME TypeOK, CacheTellsTheTruth, NEW h \in Handlers, DeleteUserRole(h)
  PROVE  CacheTellsTheTruth'
<1> DEFINE u == req[h].call.user
           r == req[h].call.role
<1>1. due(h) = {}
  BY DEF DeleteUserRole, due
<1>2. CASE Finish(h) /\ UNCHANGED userRoles
  BY <1>1, <1>2, ReadKeepsTruth DEF DeleteUserRole, Finish, tables
<1>3. CASE userRoles' = userRoles \ {<<u, r>>} /\ thenInvalidate(h, {u})
  <2>1. due(h)' = {u} /\ OthersOwe(h)
    BY <1>3, InvalidationIsDue
  <2>2. ASSUME NEW v \in Users, v # u
        PROVE  /\ userRolesAndPermissions(v)' = userRolesAndPermissions(v)
               /\ \A q : <<v, q>> \in userRoles => <<v, q>> \in userRoles'
    BY <1>3, <2>2, UserRowWritten DEF DeleteUserRole
  <2>3. QED
    BY <1>1, <2>1, <2>2, TruthKept DEF DeleteUserRole
<1>4. QED
  BY <1>2, <1>3 DEF DeleteUserRole

LEMMA ReplacePermissionsTruth ==
  ASSUME TypeOK, CacheTellsTheTruth, NEW h \in Handlers, ReplacePermissions(h)
  PROVE  CacheTellsTheTruth'
<1> DEFINE c == req[h].call
           r == [kind |-> "findUsers", call |-> c]
<1>1. due(h) = {} /\ c.role \in Roles
  BY RequestShape, CallShape DEF ReplacePermissions, due
<1>2. CASE Finish(h) /\ UNCHANGED grants
  BY <1>1, <1>2, ReadKeepsTruth DEF ReplacePermissions, Finish, tables
<1>3. CASE /\ grants' = [grants EXCEPT ![c.role] = kept(req[h]) \cup c.permissions]
           /\ req' = [g \in Handlers |-> IF g = h THEN r ELSE overtake(req[g], c.role)]
  <2>1. req'[h] = r /\ OthersOwe(h)
    BY <1>3 DEF OthersOwe, overtake
  <2>2. due(h)' = holders(c.role)
    BY <2>1 DEF due, holders, ReplacePermissions
  <2>3. ASSUME NEW v \in Users, v \notin holders(c.role)
        PROVE  userRolesAndPermissions(v)' = userRolesAndPermissions(v)
    <3>1. rolesOf(v)' = rolesOf(v)
      BY DEF rolesOf, ReplacePermissions
    <3>2. \A q \in rolesOf(v) : q \in Roles /\ q # c.role
      BY <2>3 DEF rolesOf, holders
    <3>3. QED
      BY <1>3, <3>1, <3>2, AnswerKept DEF TypeOK
  <2>4. QED
    BY <1>1, <2>1, <2>2, <2>3, TruthKept DEF ReplacePermissions
<1>4. QED
  BY <1>2, <1>3 DEF ReplacePermissions

LEMMA InvalidateTruth ==
  ASSUME TypeOK, CacheTellsTheTruth, NEW h \in Handlers, Invalidate(h)
  PROVE  CacheTellsTheTruth'
<1>1. /\ due(h) = req[h].users
      /\ req[h] = [kind |-> "invalidate", call |-> req[h].call, users |-> req[h].users]
  BY RequestShape DEF Invalidate, due
<1>2. CASE req[h].users = {} /\ Finish(h) /\ UNCHANGED <<cache, stale>>
  BY <1>1, <1>2, ReadKeepsTruth DEF Invalidate, Finish
<1>3. ASSUME NEW u \in req[h].users,
             \/ cache' = [cache EXCEPT ![u] = NULL] /\ stale' = stale \ {u}
             \/ UNCHANGED cache /\ stale' = stale \cup {u},
             Proceed(h, [req[h] EXCEPT !.users = @ \ {u}])
      PROVE  CacheTellsTheTruth'
  <2> DEFINE r == [kind |-> "invalidate", call |-> req[h].call, users |-> req[h].users \ {u}]
  <2>1. Proceed(h, r)
    <3>1. [req[h] EXCEPT !.users = @ \ {u}] = r
      BY <1>1
    <3>2. QED
      BY <1>3, <3>1
  <2>2. OthersOwe(h) /\ due(h)' = due(h) \ {u}
    BY <1>1, <2>1, ProceedOwes DEF due
  <2>3. \A v \in Users : userRolesAndPermissions(v)' = userRolesAndPermissions(v)
    BY DEF Invalidate, userRolesAndPermissions, rolesOf, tables
  <2>4. ASSUME NEW v \in Users, v # u, isDue(v)
        PROVE  isDue(v)'
    <3>1. PICK g \in Handlers : v \in due(g)
      BY <2>4 DEF isDue
    <3>2. CASE g = h
      BY <2>2, <2>4, <3>1, <3>2 DEF isDue
    <3>3. CASE g # h
      <4>1. req[g].kind \in {"findUsers", "invalidate"} /\ req'[g] = req[g]
        BY <2>2, <3>1, <3>3 DEF due, OthersOwe
      <4>2. v \in due(g)'
        BY <3>1, <4>1 DEF due, holders, Invalidate, tables
      <4>3. QED
        BY <4>2 DEF isDue
    <3>4. QED
      BY <3>2, <3>3
  <2>5. SUFFICES ASSUME NEW v \in Users, cache'[v] # NULL, v \notin stale', ~isDue(v)'
                 PROVE  cache'[v] = userRolesAndPermissions(v)
    BY <2>3 DEF CacheTellsTheTruth
  <2>6. v # u
    BY <1>3, <2>5 DEF TypeOK
  <2>7. cache'[v] = cache[v] /\ v \notin stale /\ ~isDue(v)
    BY <1>3, <2>4, <2>5, <2>6 DEF TypeOK
  <2>8. QED
    BY <2>5, <2>7 DEF CacheTellsTheTruth
<1>4. QED
  BY <1>2, <1>3 DEF Invalidate

LEMMA CreateRoleTruth ==
  ASSUME TypeOK, CacheTellsTheTruth, NEW h \in Handlers, CreateRole(h)
  PROVE  CacheTellsTheTruth'
<1> DEFINE c == req[h].call
<1>1. due(h) = {}
  BY DEF CreateRole, due
<1>2. CASE UNCHANGED <<roles, grants>>
  BY <1>1, <1>2, ReadKeepsTruth DEF CreateRole, Finish, tables
<1>3. CASE ~roleExists(c.role) /\ grants' = [grants EXCEPT ![c.role] = c.permissions]
  <2>1. ASSUME NEW v \in Users
        PROVE  userRolesAndPermissions(v)' = userRolesAndPermissions(v)
    <3>1. rolesOf(v)' = rolesOf(v)
      BY DEF rolesOf, CreateRole
    <3>2. c.role \notin rolesOf(v)
      BY <1>3 DEF roleExists, TypeOK
    <3>3. \A q \in rolesOf(v) : q \in Roles /\ q # c.role
      BY <3>2 DEF rolesOf
    <3>4. QED
      BY <1>3, <3>1, <3>3, AnswerKept DEF TypeOK
  <2>2. OthersOwe(h)
    BY ProceedOwes DEF CreateRole, Finish
  <2>3. QED
    BY <1>1, <2>1, <2>2, TruthKept DEF CreateRole
<1>4. QED
  BY <1>2, <1>3 DEF CreateRole

LEMMA CreateRestaurantTruth ==
  ASSUME TypeOK, CacheTellsTheTruth, NEW h \in Handlers, CreateRestaurant(h)
  PROVE  CacheTellsTheTruth'
<1> DEFINE u == req[h].call.actor
           row == <<u, "RESTAURANT_OWNER">>
<1>1. due(h) = {} /\ OthersOwe(h)
  BY ProceedOwes DEF CreateRestaurant, Finish, due
<1>2. CASE UNCHANGED <<userRoles, stale>>
  BY <1>1, <1>2, ReadKeepsTruth DEF CreateRestaurant, Finish, tables
<1>3. CASE userRoles' = userRoles \cup {row} /\ stale' = stale \cup {u}
  <2>1. ASSUME NEW v \in Users, v # u
        PROVE  /\ userRolesAndPermissions(v)' = userRolesAndPermissions(v)
               /\ \A q : <<v, q>> \in userRoles => <<v, q>> \in userRoles'
    BY <1>3, <2>1, UserRowWritten DEF CreateRestaurant
  <2>2. QED
    BY <1>1, <1>3, <2>1, TruthKept DEF CreateRestaurant
<1>4. QED
  BY <1>2, <1>3 DEF CreateRestaurant

LEMMA AbandonTruth ==
  ASSUME TypeOK, CacheTellsTheTruth, NEW h \in Handlers, Abandon(h)
  PROVE  CacheTellsTheTruth'
<1>1. \A v \in Users : userRolesAndPermissions(v)' = userRolesAndPermissions(v)
  BY DEF Abandon, userRolesAndPermissions, rolesOf, tables
<1>2. OthersOwe(h)
  BY ProceedOwes DEF Abandon, Finish
<1>3. QED
  BY <1>1, <1>2, TruthKept DEF Abandon, tables

LEMMA NextInv == TypeOK /\ AccessInv /\ [Next]_vars => AccessInv'
<1> SUFFICES ASSUME TypeOK, AccessInv, [Next]_vars PROVE AccessInv'
  OBVIOUS
<1>1. CASE UNCHANGED vars
  <2>1. CacheTellsTheTruth'
    <3>1. UNCHANGED tables
      BY <1>1 DEF vars
    <3>2. \A g \in Handlers : due(g)' = due(g)
      BY <1>1, <3>1, TablesKept DEF vars, due
    <3>3. QED
      BY <1>1, <3>1, <3>2, TablesKept DEF vars, AccessInv, CacheTellsTheTruth, isDue
  <2>2. ReadsHold'
    BY <1>1, ReadsKept DEF vars, AccessInv
  <2>3. QED
    BY <2>1, <2>2 DEF AccessInv
<1>2. ASSUME NEW u \in Users, Expire(u), UNCHANGED overtaken
      PROVE  AccessInv'
  <2>1. ReadsHold'
    BY <1>2, ReadsKept DEF Expire, AccessInv
  <2>2. QED
    BY <1>2, <2>1, ExpireTruth DEF AccessInv
<1>3. ASSUME NEW h \in Handlers, Step(h), noteOvertaken(h)
      PROVE  AccessInv'
  <2>1. ReadsHold'
    BY <1>3, StepReadsHold
  <2>2. CacheTellsTheTruth'
    BY <1>3, OnlyCallsAreAsked, ReadStepsTruth, CacheResultTruth, AssignRoleTruth,
       DeleteUserRoleTruth, ReplacePermissionsTruth, InvalidateTruth, CreateRoleTruth,
       CreateRestaurantTruth, AbandonTruth DEF Step, AccessInv
  <2>3. QED
    BY <2>1, <2>2 DEF AccessInv
<1>4. QED
  BY <1>1, <1>2, <1>3 DEF Next

LEMMA AccessInvariant == Spec => [](TypeOK /\ AccessInv)
<1>1. Init => TypeOK /\ AccessInv
  BY InitTypeOK, InitInv
<1>2. TypeOK /\ AccessInv /\ [Next]_vars => (TypeOK /\ AccessInv)'
  BY NextTypeOK, NextInv
<1>3. QED
  BY <1>1, <1>2, PTL DEF Spec

(***************************************************************************)
(* However many requests overlap, the cache tells the truth unless a       *)
(* deletion is due or was missed, or an overtaken answer was cached.       *)
(***************************************************************************)
THEOREM CacheIsTrue == Spec => []CacheTellsTheTruth
<1>1. TypeOK /\ AccessInv => CacheTellsTheTruth
  BY DEF AccessInv
<1>2. QED
  BY <1>1, AccessInvariant, PTL

-----------------------------------------------------------------------------
\* One holder of several is removed: another remains.
LEMMA OneOfSeveral ==
  ASSUME NEW S \in SUBSET Users, Cardinality(S) > 1, NEW u
  PROVE  S \ {u} # {}
<1> SUFFICES ASSUME S \ {u} = {} PROVE FALSE
  OBVIOUS
<1>1. S \subseteq {u} /\ IsFiniteSet({u}) /\ Cardinality({u}) = 1
  BY FS_Singleton
<1>2. IsFiniteSet(S) /\ Cardinality(S) <= Cardinality({u})
  BY <1>1, FS_Subset
<1>3. Cardinality(S) \in Nat
  BY <1>2, FS_CardinalityType
<1>4. QED
  BY <1>1, <1>2, <1>3

\* A deletion after a count that still holds leaves a holder.
LEMMA CountedDeletion ==
  ASSUME TypeOK, ReadsHold, NEW h \in Handlers \ overtaken, DeleteUserRole(h),
         holders("SUPER_ADMIN") # {}
  PROVE  holders("SUPER_ADMIN")' # {}
<1> DEFINE u == req[h].call.user
           r == req[h].call.role
<1>1. mayRemove(r)
  BY DEF DeleteUserRole, ReadsHold, isFreshRead
<1>2. CASE r = "SUPER_ADMIN" /\ userRoles' = userRoles \ {<<u, r>>}
  <2>1. Cardinality(holders(r)) > 1 /\ holders(r) \in SUBSET Users
    BY <1>1, <1>2 DEF mayRemove, holders
  <2>2. holders("SUPER_ADMIN")' = holders("SUPER_ADMIN") \ {u}
    BY <1>2 DEF holders
  <2>3. QED
    BY <1>2, <2>1, <2>2, OneOfSeveral
<1>3. CASE r # "SUPER_ADMIN" /\ userRoles' = userRoles \ {<<u, r>>}
  BY <1>3 DEF holders
<1>4. CASE UNCHANGED userRoles
  BY <1>4 DEF holders
<1>5. QED
  BY <1>2, <1>3, <1>4 DEF DeleteUserRole

\* A deletion moves its request on.
LEMMA DeletionMoves ==
  ASSUME TypeOK, NEW h \in Handlers, DeleteUserRole(h)
  PROVE  req[h].kind = "deleteUserRole" /\ req'[h] # req[h]
BY DEF DeleteUserRole, thenInvalidate, Finish, Idle, Proceed, TypeOK

LEMMA StepKeepsSuperAdmin ==
  ASSUME TypeOK, ReadsHold, [Next]_vars,
         holders("SUPER_ADMIN") # {}, holders("SUPER_ADMIN")' = {}
  PROVE  \E h \in overtaken : req[h].kind = "deleteUserRole" /\ req'[h] # req[h]
<1>1. ~(userRoles \subseteq userRoles')
  BY DEF holders
<1>2. PICK h \in Handlers : Step(h)
  BY <1>1 DEF Next, Expire, tables, vars
<1>3. DeleteUserRole(h)
  BY <1>1, <1>2 DEF Step, tables, Ask, Lookup, CacheResult, AssignRole, RemoveRole,
     UpdateRolePermissions, ReplacePermissions, FindUsers, CreateRole, CreateRestaurant,
     Invalidate, Abandon
<1>4. h \in overtaken
  BY <1>3, CountedDeletion
<1>5. QED
  BY <1>3, <1>4, DeletionMoves

(***************************************************************************)
(* Only a removal whose count another's commit has made untrue takes the   *)
(* last SUPER_ADMIN away.                                                  *)
(***************************************************************************)
THEOREM CountedRemovalsLeaveOne == Spec => SuperAdminRemains
<1>1. TypeOK /\ AccessInv /\ [Next]_vars =>
        [holders("SUPER_ADMIN") # {} /\ holders("SUPER_ADMIN")' = {} =>
           \E h \in overtaken : req[h].kind = "deleteUserRole" /\ req'[h] # req[h]]_vars
  BY StepKeepsSuperAdmin DEF AccessInv
<1>2. QED
  BY <1>1, AccessInvariant, PTL DEF Spec, SuperAdminRemains

(***************************************************************************)
(* While requests do not overlap there is always a SUPER_ADMIN.            *)
(***************************************************************************)
THEOREM LastSuperAdminStays ==
  OneAtATime => (Spec => [](overtaken = {} /\ holders("SUPER_ADMIN") # {}))
<1> SUFFICES ASSUME OneAtATime
             PROVE  Spec => [](overtaken = {} /\ holders("SUPER_ADMIN") # {})
  OBVIOUS
<1>1. Init => overtaken = {} /\ holders("SUPER_ADMIN") # {}
  BY NamesAreKnown DEF Init, holders
<1>2. TypeOK /\ AccessInv /\ overtaken = {} /\ holders("SUPER_ADMIN") # {} /\ [Next]_vars =>
        (overtaken = {} /\ holders("SUPER_ADMIN") # {})'
  <2> SUFFICES ASSUME TypeOK, AccessInv, overtaken = {}, holders("SUPER_ADMIN") # {},
                      [Next]_vars
               PROVE  overtaken' = {} /\ holders("SUPER_ADMIN")' # {}
    OBVIOUS
  <2>1. overtaken' = {}
    BY DEF Next, vars, noteOvertaken, OneAtATime
  <2>2. holders("SUPER_ADMIN")' # {}
    BY StepKeepsSuperAdmin DEF AccessInv
  <2>3. QED
    BY <2>1, <2>2
<1>3. QED
  BY <1>1, <1>2, AccessInvariant, PTL DEF Spec

-----------------------------------------------------------------------------
LEMMA AdmissionOfTheTruth ==
  ASSUME TypeOK, NEW u \in Users, NEW p, admits(userRolesAndPermissions(u), p)
  PROVE  holds(u, p)
<1>1. CASE "SUPER_ADMIN" \in rolesOf(u)
  BY <1>1 DEF holds, rolesOf
<1>2. CASE p \in UNION {grants[r] : r \in rolesOf(u)}
  BY <1>2 DEF holds, rolesOf
<1>3. QED
  BY <1>1, <1>2 DEF admits, userRolesAndPermissions

\* The conclusion of AdmittedIsEntitled for one request.
isEntitled(h) ==
  LET call == req'[h].call IN
  \/ holds(call.actor, Required[call.op])
  \/ call.actor \in stale \/ isDue(call.actor) \/ h \in overtaken

\* A decision for a user whose answer is true admits him only if he holds the permission.
LEMMA DecisionIsEntitled ==
  ASSUME TypeOK, NEW h \in Handlers, NEW c \in Call, NEW a, Decide(h, c, a), Admitted(h),
         \/ c.actor \in stale \/ isDue(c.actor) \/ h \in overtaken
         \/ a = userRolesAndPermissions(c.actor)
  PROVE  isEntitled(h)
<1>1. Proceed(h, [kind |-> c.op, call |-> c]) /\ admits(a, Required[c.op])
  BY DEF Decide, Finish, Proceed, Admitted, Idle, Operations, TypeOK
<1>2. req'[h].call = c
  BY <1>1 DEF Proceed, TypeOK
<1>3. c.actor \in Users
  BY CallShape
<1>4. QED
  BY <1>1, <1>2, <1>3, AdmissionOfTheTruth DEF isEntitled

LEMMA StepIsEntitled ==
  ASSUME TypeOK, AccessInv, NEW h \in Handlers, Step(h), Admitted(h)
  PROVE  isEntitled(h)
<1>1. ASSUME NEW c \in Call, Ask(h, c)
      PROVE  isEntitled(h)
  <2>1. cache[c.actor] # NULL /\ Decide(h, c, cache[c.actor])
    BY <1>1 DEF Ask, Proceed, Admitted, Operations, TypeOK
  <2>2. c.actor \in Users
    BY CallShape
  <2>3. c.actor \in stale \/ isDue(c.actor)
          \/ cache[c.actor] = userRolesAndPermissions(c.actor)
    BY <2>1, <2>2 DEF AccessInv, CacheTellsTheTruth
  <2>4. QED
    BY <2>1, <2>3, DecisionIsEntitled
<1>2. CASE CacheResult(h)
  <2>1. req[h].call \in Call /\ Decide(h, req[h].call, req[h].found)
    BY <1>2, RequestShape DEF CacheResult
  <2>2. h \in overtaken \/ req[h].found = userRolesAndPermissions(req[h].call.actor)
    BY <1>2 DEF CacheResult, AccessInv, ReadsHold, isFreshRead
  <2>3. QED
    BY <2>1, <2>2, DecisionIsEntitled
<1>3. QED
  BY <1>1, <1>2, StepKind

\* A step that is not its own admits no request.
LEMMA OthersAreNotAdmitted ==
  ASSUME TypeOK, NEW h \in Handlers, Step(h), NEW g \in Handlers, g # h
  PROVE  ~Admitted(g)
<1>1. req'[g].kind = req[g].kind
  <2>1. CASE ReplacePermissions(h)
    BY <2>1, RequestShape DEF ReplacePermissions, overtake, Finish, Proceed, TypeOK
  <2>2. CASE \E r : Proceed(h, r)
    BY <2>2 DEF Proceed, TypeOK
  <2>3. CASE ~ReplacePermissions(h)
    <3>1. \A c, a : Decide(h, c, a) => \E r : Proceed(h, r)
      BY DecisionProceeds
    <3>2. \E r : Proceed(h, r)
      BY <2>3, <3>1 DEF Step, Ask, Lookup, CacheResult, AssignRole, RemoveRole,
         DeleteUserRole, UpdateRolePermissions, FindUsers, CreateRole, CreateRestaurant,
         Invalidate, Abandon, thenInvalidate, Finish
    <3>3. QED
      BY <2>2, <3>2
  <2>4. QED
    BY <2>1, <2>3
<1>2. QED
  BY <1>1 DEF Admitted

(***************************************************************************)
(* Nobody is admitted on a permission he does not hold, unless what admits *)
(* him is known to be old, however many requests overlap.                  *)
(***************************************************************************)
THEOREM AdmissionNeedsThePermission == Spec => AdmittedIsEntitled
<1>1. ASSUME TypeOK, AccessInv, [Next]_vars, NEW h \in Handlers, Admitted(h)
      PROVE  isEntitled(h)
  <2>1. CASE UNCHANGED vars
    BY <1>1, <2>1 DEF vars, Admitted
  <2>2. ASSUME NEW u \in Users, Expire(u)
        PROVE  FALSE
    BY <1>1, <2>2 DEF Expire, Admitted
  <2>3. ASSUME NEW g \in Handlers, Step(g)
        PROVE  isEntitled(h)
    BY <1>1, <2>3, StepIsEntitled, OthersAreNotAdmitted
  <2>4. QED
    BY <1>1, <2>1, <2>2, <2>3 DEF Next
<1>2. TypeOK /\ AccessInv /\ [Next]_vars =>
        [\A h \in Handlers :
           Admitted(h) => LET call == req'[h].call IN
             \/ holds(call.actor, Required[call.op])
             \/ call.actor \in stale \/ isDue(call.actor) \/ h \in overtaken]_vars
  BY <1>1 DEF isEntitled
<1>3. QED
  BY <1>2, AccessInvariant, PTL DEF Spec, AdmittedIsEntitled
=============================================================================
