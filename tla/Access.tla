-------------------------------- MODULE Access --------------------------------
(***************************************************************************)
(* rbac.service.ts behind authorize.ts: roles, their permissions, and the  *)
(* Redis cache of what a user may do.  A request passes requirePermission  *)
(* and then runs its handler, one action per query.  Any Redis command may *)
(* fail, which the code ignores.                                           *)
(***************************************************************************)
EXTENDS Naturals, FiniteSets

CONSTANTS
  Users,
  Root,            \* the user provisioned as SUPER_ADMIN
  Roles,           \* names, of roles that exist and of roles that may be created
  Permissions,
  SystemRoles,     \* those that the seed creates
  Seeded,          \* and their permissions, {} for the others
  Asked,           \* bound for TLC: the calls that come in, of all
  Handlers,        \* requests in flight at the same time
  NULL

ASSUME NamesAreKnown ==
  /\ Root \in Users
  /\ "SUPER_ADMIN" \in SystemRoles /\ SystemRoles \subseteq Roles
  /\ "RESTAURANT_OWNER" \in Roles
  /\ Seeded \in [Roles -> SUBSET Permissions]

VARIABLES
  userRoles,  \* UserRole rows
  roles,      \* Role rows
  grants,     \* RolePermission rows
  cache,      \* user:permissions:<id> in Redis
  stale,      \* users with an entry that is untrue and that nobody will delete
  overtaken,  \* requests whose reads another's commit has made untrue
  req         \* what each request has read

tables == <<userRoles, roles, grants>>
vars == <<tables, cache, stale, overtaken, req>>

\* What getUserRolesAndPermissions returns.
Answer == [roles : SUBSET Roles, permissions : SUBSET Permissions]

ASSUME NullIsNoAnswer == NULL \notin Answer

Operations ==
  {"assignRole", "removeRole", "updateRolePermissions", "createRole", "createRestaurant"}

\* The permission the route of an operation requires.
Required ==
  [assignRole |-> "roles.assign", removeRole |-> "roles.assign",
   updateRolePermissions |-> "roles.update", createRole |-> "roles.create",
   createRestaurant |-> "restaurants.create"]

Call ==
  [op : {"assignRole", "removeRole"}, actor : Users, user : Users, role : Roles]
  \cup
  [op : {"updateRolePermissions", "createRole"}, actor : Users, role : Roles,
   permissions : SUBSET Permissions]
  \cup
  [op : {"createRestaurant"}, actor : Users]

ASSUME OnlyCallsAreAsked == Asked \subseteq Call

Idle == [kind |-> "idle"]

Calls(op) == {c \in Call : c.op = op}

Request ==
  {Idle}
  \cup
  (UNION {[kind : {op, "lookup"}, call : Calls(op)] : op \in Operations})
  \cup
  [kind : {"cacheResult"}, call : Call, found : Answer]
  \cup
  [kind : {"deleteUserRole"}, call : Calls("removeRole")]
  \cup
  [kind : {"replacePermissions"}, call : Calls("updateRolePermissions"), overtaken : BOOLEAN]
  \cup
  [kind : {"findUsers"}, call : Calls("updateRolePermissions")]
  \cup
  [kind : {"invalidate"}, call : Call, users : SUBSET Users]

Init ==
  /\ userRoles = {<<Root, "SUPER_ADMIN">>}
  /\ roles = SystemRoles
  /\ grants = Seeded
  /\ cache = [u \in Users |-> NULL]
  /\ stale = {}
  /\ overtaken = {}
  /\ req = [h \in Handlers |-> Idle]

Proceed(h, state) == req' = [req EXCEPT ![h] = state]
Finish(h) == Proceed(h, Idle)

rolesOf(u) == {r \in Roles : <<u, r>> \in userRoles}
holders(r) == {u \in Users : <<u, r>> \in userRoles}

\* Mutant of roleExists: nobody looks.
anyRole(r) == TRUE

roleExists(r) == r \in roles

\* The tables' answer.
userRolesAndPermissions(u) ==
  [roles |-> rolesOf(u), permissions |-> UNION {grants[r] : r \in rolesOf(u)}]

\* Mutant of mayRemove: off by one.
mayRemoveAny(r) == r = "SUPER_ADMIN" => Cardinality(holders(r)) >= 1

\* "Prevent deleting last SUPER_ADMIN"
mayRemove(r) == r = "SUPER_ADMIN" => Cardinality(holders(r)) > 1

\* What a request has read, and still goes by, is so.
isFreshRead(r) ==
  /\ r.kind = "cacheResult" => r.found = userRolesAndPermissions(r.call.actor)
  /\ r.kind = "deleteUserRole" => mayRemove(r.call.role)

\* A step of request h makes it go by new reads, and may overtake the others.
noteOvertaken(h) ==
  overtaken' = {g \in Handlers \ {h} : g \in overtaken \/ ~isFreshRead(req[g])'}

-----------------------------------------------------------------------------
\* Mutant of admits: any role will do.
admitsAnyRole(answer, p) == answer.roles # {}

\* requirePermission
admits(answer, p) == "SUPER_ADMIN" \in answer.roles \/ p \in answer.permissions

Decide(h, call, answer) ==
  IF admits(answer, Required[call.op])
  THEN Proceed(h, [kind |-> call.op, call |-> call])
  ELSE Finish(h)

\* A request asks Redis, which may fail ...
Ask(h, call) ==
  /\ req[h] = Idle
  /\ \/ cache[call.actor] # NULL /\ Decide(h, call, cache[call.actor])
     \/ Proceed(h, [kind |-> "lookup", call |-> call])
  /\ UNCHANGED <<tables, cache, stale>>

\* ... and otherwise the database ...
Lookup(h) ==
  /\ req[h].kind = "lookup"
  /\ Proceed(h, [kind |-> "cacheResult", call |-> req[h].call,
                 found |-> userRolesAndPermissions(req[h].call.actor)])
  /\ UNCHANGED <<tables, cache, stale>>

\* ... whose answer it caches if Redis takes it.
CacheResult(h) ==
  /\ req[h].kind = "cacheResult"
  /\ LET u == req[h].call.actor IN
     \/ /\ cache' = [cache EXCEPT ![u] = req[h].found]
        /\ stale' = IF h \in overtaken THEN stale \cup {u} ELSE stale \ {u}
     \/ UNCHANGED <<cache, stale>>
  /\ Decide(h, req[h].call, req[h].found)
  /\ UNCHANGED tables

\* An entry expires, or updateUserStatus deletes it.
Expire(u) ==
  /\ cache[u] # NULL
  /\ cache' = [cache EXCEPT ![u] = NULL]
  /\ stale' = stale \ {u}
  /\ UNCHANGED <<tables, req>>

-----------------------------------------------------------------------------
\* Mutant of thenInvalidate: nothing follows.
thenForget(h, users) == Finish(h)

thenInvalidate(h, users) ==
  Proceed(h, [kind |-> "invalidate", call |-> req[h].call, users |-> users])

\* assignRoleToUser; the row's uniqueness makes its look at `existing` redundant.
AssignRole(h) ==
  /\ req[h].kind = "assignRole"
  /\ LET row == <<req[h].call.user, req[h].call.role>> IN
     \/ /\ roleExists(req[h].call.role) /\ row \notin userRoles
        /\ userRoles' = userRoles \cup {row}
        /\ thenInvalidate(h, {req[h].call.user})
     \/ /\ ~roleExists(req[h].call.role) \/ row \in userRoles
        /\ Finish(h)
        /\ UNCHANGED userRoles
  /\ UNCHANGED <<roles, grants, cache, stale>>

\* removeRoleFromUser counts ...
RemoveRole(h) ==
  /\ req[h].kind = "removeRole"
  /\ IF mayRemove(req[h].call.role)
     THEN Proceed(h, [kind |-> "deleteUserRole", call |-> req[h].call])
     ELSE Finish(h)
  /\ UNCHANGED <<tables, cache, stale>>

\* ... and then deletes.
DeleteUserRole(h) ==
  /\ req[h].kind = "deleteUserRole"
  /\ LET row == <<req[h].call.user, req[h].call.role>> IN
     \/ /\ row \in userRoles
        /\ userRoles' = userRoles \ {row}
        /\ thenInvalidate(h, {req[h].call.user})
     \/ row \notin userRoles /\ Finish(h) /\ UNCHANGED userRoles
  /\ UNCHANGED <<roles, grants, cache, stale>>

\* updateRolePermissions: the transaction's deleteMany sees the rows of now ...
UpdateRolePermissions(h) ==
  /\ req[h].kind = "updateRolePermissions"
  /\ IF roleExists(req[h].call.role)
     THEN Proceed(h, [kind |-> "replacePermissions", call |-> req[h].call,
                      overtaken |-> FALSE])
     ELSE Finish(h)
  /\ UNCHANGED <<tables, cache, stale>>

\* The rows a transaction committed since then are kept; to insert one of them again fails.
kept(r) == IF r.overtaken THEN grants[r.call.role] ELSE {}

overtake(r, role) ==
  IF r.kind = "replacePermissions" /\ r.call.role = role
  THEN [r EXCEPT !.overtaken = TRUE] ELSE r

\* ... and createMany adds the new ones.
ReplacePermissions(h) ==
  /\ req[h].kind = "replacePermissions"
  /\ LET call == req[h].call IN
     IF kept(req[h]) \cap call.permissions = {}
     THEN /\ grants' = [grants EXCEPT ![call.role] = kept(req[h]) \cup call.permissions]
          /\ req' = [g \in Handlers |->
               IF g = h THEN [kind |-> "findUsers", call |-> call]
               ELSE overtake(req[g], call.role)]
     ELSE Finish(h) /\ UNCHANGED grants
  /\ UNCHANGED <<userRoles, roles, cache, stale>>

FindUsers(h) ==
  /\ req[h].kind = "findUsers"
  /\ thenInvalidate(h, holders(req[h].call.role))
  /\ UNCHANGED <<tables, cache, stale>>

\* invalidateUserPermissionsCache, for one user after the other in any order.
Invalidate(h) ==
  /\ req[h].kind = "invalidate"
  /\ \/ \E u \in req[h].users :
          /\ \/ cache' = [cache EXCEPT ![u] = NULL] /\ stale' = stale \ {u}
             \/ UNCHANGED cache /\ stale' = stale \cup {u}
          /\ Proceed(h, [req[h] EXCEPT !.users = @ \ {u}])
     \/ req[h].users = {} /\ Finish(h) /\ UNCHANGED <<cache, stale>>
  /\ UNCHANGED tables

\* createRole; the name's uniqueness makes its look at `existing` redundant.
CreateRole(h) ==
  /\ req[h].kind = "createRole"
  /\ LET call == req[h].call IN
     \/ /\ ~roleExists(call.role)
        /\ roles' = roles \cup {call.role}
        /\ grants' = [grants EXCEPT ![call.role] = call.permissions]
     \/ roleExists(call.role) /\ UNCHANGED <<roles, grants>>
  /\ Finish(h)
  /\ UNCHANGED <<userRoles, cache, stale>>

\* createRestaurant makes its caller an owner and leaves his cache entry alone.
CreateRestaurant(h) ==
  /\ req[h].kind = "createRestaurant"
  /\ LET u == req[h].call.actor
         row == <<u, "RESTAURANT_OWNER">>
     IN  IF roleExists("RESTAURANT_OWNER") /\ row \notin userRoles
         THEN userRoles' = userRoles \cup {row} /\ stale' = stale \cup {u}
         ELSE UNCHANGED <<userRoles, stale>>
  /\ Finish(h)
  /\ UNCHANGED <<roles, grants, cache>>

\* The users whose entries request h must still delete.
due(h) ==
  IF req[h].kind = "invalidate" THEN req[h].users
  ELSE IF req[h].kind = "findUsers" THEN holders(req[h].call.role)
  ELSE {}

\* The request dies.
Abandon(h) ==
  /\ req[h] # Idle
  /\ stale' = stale \cup due(h)
  /\ Finish(h)
  /\ UNCHANGED <<tables, cache>>

-----------------------------------------------------------------------------
Step(h) ==
  \/ \E call \in Asked : Ask(h, call)
  \/ Lookup(h) \/ CacheResult(h)
  \/ AssignRole(h) \/ RemoveRole(h) \/ DeleteUserRole(h)
  \/ UpdateRolePermissions(h) \/ ReplacePermissions(h) \/ FindUsers(h)
  \/ CreateRole(h) \/ CreateRestaurant(h)
  \/ Invalidate(h) \/ Abandon(h)

Next ==
  \/ \E u \in Users : Expire(u) /\ UNCHANGED overtaken
  \/ \E h \in Handlers : Step(h) /\ noteOvertaken(h)

Spec == Init /\ [][Next]_vars

-----------------------------------------------------------------------------
\* Rows and requests have their shapes, and a UserRole row refers to a role.
TypeOK ==
  /\ userRoles \subseteq Users \X Roles
  /\ roles \subseteq Roles
  /\ \A u \in Users : rolesOf(u) \subseteq roles
  /\ grants \in [Roles -> SUBSET Permissions]
  /\ cache \in [Users -> {NULL} \cup Answer]
  /\ stale \subseteq Users
  /\ overtaken \subseteq Handlers
  /\ req \in [Handlers -> Request]
  /\ \A h \in Handlers : req[h].kind = "replacePermissions" => req[h].call.role \in roles

\* The deletion of u's entry is under way.
isDue(u) == \E h \in Handlers : u \in due(h)

(***************************************************************************)
(* However requests overlap, an entry says what the tables say, unless its *)
(* deletion is under way or was missed, or the answer it holds was read    *)
(* before a commit and cached after it: Redis failed, the request died,    *)
(* the role came with a restaurant (authorize.ts:72, authorize.ts:83,      *)
(* rbac.service.ts:119-125).                                               *)
(***************************************************************************)
CacheTellsTheTruth ==
  \A u \in Users :
    cache[u] # NULL /\ u \notin stale /\ ~isDue(u) => cache[u] = userRolesAndPermissions(u)

(***************************************************************************)
(* A step that leaves the system without a SUPER_ADMIN is the deletion of  *)
(* a request whose count another's commit has made untrue; a removal that  *)
(* nothing overtakes leaves one (rbac.service.ts:176-184).                 *)
(***************************************************************************)
SuperAdminRemains ==
  [][holders("SUPER_ADMIN") # {} /\ holders("SUPER_ADMIN")' = {} =>
       \E h \in overtaken : req[h].kind = "deleteUserRole" /\ req'[h] # req[h]]_vars

holds(u, p) ==
  \/ <<u, "SUPER_ADMIN">> \in userRoles
  \/ \E r \in Roles : <<u, r>> \in userRoles /\ p \in grants[r]

Admitted(h) == req[h].kind \notin Operations /\ req'[h].kind \in Operations

(***************************************************************************)
(* A request is admitted only if its user holds the permission at that     *)
(* moment, or what admits it is known to be old: a stale cache entry, one  *)
(* whose deletion is under way, or an answer that another's commit has     *)
(* overtaken (authorize.ts:96-126).                                        *)
(***************************************************************************)
AdmittedIsEntitled ==
  [][\A h \in Handlers :
       Admitted(h) => LET call == req'[h].call IN
         \/ holds(call.actor, Required[call.op])
         \/ call.actor \in stale \/ isDue(call.actor) \/ h \in overtaken]_vars

-----------------------------------------------------------------------------
\* What a request that nothing has overtaken has read is so.
ReadsHold == \A h \in Handlers \ overtaken : isFreshRead(req[h])

\* One request at a time: then nothing is ever overtaken.
OneAtATime == \A g, h \in Handlers : g = h
=============================================================================
