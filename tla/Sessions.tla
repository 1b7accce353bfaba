------------------------------- MODULE Sessions -------------------------------
(***************************************************************************)
(* auth.service.ts and updateUserStatus of users.service.ts: registration, *)
(* login, rotation of refresh tokens with reuse detection, logout, change  *)
(* of password, suspension.  A handler is one action per query.            *)
(*                                                                         *)
(* A refresh token is the signature of its user and of the second it was   *)
(* signed in, so token[u][s] is the row that stores its hash: two tokens   *)
(* that a user gets in the same second are the same token.                 *)
(***************************************************************************)
EXTENDS Naturals

CONSTANTS
  Users,
  Passwords,
  Handlers,      \* requests in flight at the same time
  MaxSecond,     \* bound for TLC: the clock stops there
  RefreshLife,   \* seconds a refresh token may be presented
  AccessLife,    \* seconds an access token may be presented
  NULL

ASSUME ClockIsNatural == MaxSecond \in Nat /\ RefreshLife \in Nat /\ AccessLife \in Nat

VARIABLES
  now,           \* the clock, in seconds
  status,        \* User.status, "ABSENT" before registration
  password,      \* User.passwordHash
  token,         \* RefreshToken rows
  req,           \* what each request has read
  unfinished,    \* users whose revocation was due when its request died
  overtaken      \* users who got a token by a request whose reads no longer held,
                 \* until their tokens are revoked

account == <<status, password>>
excuses == <<unfinished, overtaken>>
vars == <<now, account, token, req, excuses>>

Seconds == 0..MaxSecond
Statuses == {"ACTIVE", "INACTIVE", "SUSPENDED", "PENDING_VERIFICATION"}

\* root and password are those of the login the token descends from.
Row(s) ==
  [revoked : BOOLEAN, replacedBy : {NULL} \cup (s + 1)..MaxSecond,
   root : 0..s, password : Passwords]

ASSUME NullIsNoValue == NULL \notin Passwords \cup UNION {Row(s) : s \in Seconds}

Idle == [kind |-> "idle"]

Request ==
  {Idle}
  \cup
  [kind : {"createUser", "store", "setPassword"}, user : Users, password : Passwords]
  \cup
  [kind : {"readUser", "rotate"}, user : Users, second : Seconds]
  \cup
  [kind : {"checkPassword", "revokeAll"}, user : Users]

Init ==
  /\ now = 0
  /\ status = [u \in Users |-> "ABSENT"]
  /\ password = [u \in Users |-> NULL]
  /\ token = [u \in Users |-> [s \in Seconds |-> NULL]]
  /\ req = [h \in Handlers |-> Idle]
  /\ unfinished = {}
  /\ overtaken = {}

Proceed(h, state) == req' = [req EXCEPT ![h] = state]
Finish(h) == Proceed(h, Idle)

Tick ==
  /\ now < MaxSecond
  /\ now' = now + 1
  /\ UNCHANGED <<account, token, req, excuses>>

\* Mutant of maySignIn: nobody looks at the status.
isRegistered(u) == status[u] # "ABSENT"

maySignIn(u) == status[u] \notin {"ABSENT", "SUSPENDED"}

isLive(u, s) == token[u][s] # NULL /\ ~token[u][s].revoked

\* What a request has read still holds when it writes.
isFreshRead(r) ==
  /\ r.kind = "createUser" => status[r.user] = "ABSENT"
  /\ r.kind \in {"store", "rotate"} => maySignIn(r.user)
  /\ r.kind = "store" => password[r.user] = r.password
  /\ r.kind \in {"readUser", "rotate"} => isLive(r.user, r.second)

\* Request h inserts a token; no query asks whether its reads still hold.
noteOvertaken(h) ==
  overtaken' = overtaken \cup (IF isFreshRead(req[h]) THEN {} ELSE {req[h].user})

-----------------------------------------------------------------------------
\* register: the email is free when it looks ...
Register(h, u, p) ==
  /\ req[h] = Idle
  /\ status[u] = "ABSENT"
  /\ Proceed(h, [kind |-> "createUser", user |-> u, password |-> p])
  /\ UNCHANGED <<now, account, token, excuses>>

\* ... and unique when it creates the user.
CreateUser(h) ==
  /\ req[h].kind = "createUser"
  /\ LET u == req[h].user IN
     \/ /\ status[u] = "ABSENT"
        /\ status' = [status EXCEPT ![u] = "ACTIVE"]
        /\ password' = [password EXCEPT ![u] = req[h].password]
        /\ Proceed(h, [req[h] EXCEPT !.kind = "store"])
     \/ /\ status[u] # "ABSENT"
        /\ Finish(h)
        /\ UNCHANGED account
  /\ UNCHANGED <<now, token, excuses>>

\* login: one read of the user decides.
Login(h, u, p) ==
  /\ req[h] = Idle
  /\ maySignIn(u) /\ password[u] = p
  /\ Proceed(h, [kind |-> "store", user |-> u, password |-> p])
  /\ UNCHANGED <<now, account, token, excuses>>

\* Mutant of isFree: tokenHash is not unique.
isAnything(u, s) == TRUE

\* RefreshToken.tokenHash is unique.
isFree(u, s) == token[u][s] = NULL

\* generateTokens and storeRefreshToken, of register and login.
StoreToken(h) ==
  /\ req[h].kind = "store"
  /\ LET u == req[h].user IN
     \/ /\ isFree(u, now)
        /\ token' = [token EXCEPT ![u][now] =
             [revoked |-> FALSE, replacedBy |-> NULL, root |-> now,
              password |-> req[h].password]]
        /\ noteOvertaken(h)
     \/ ~isFree(u, now) /\ UNCHANGED <<token, overtaken>>
  /\ Finish(h)
  /\ UNCHANGED <<now, account, unfinished>>

-----------------------------------------------------------------------------
\* Mutant of isReused: the row's existence is enough.
isNeverReused(row) == FALSE

\* Reuse detection.
isReused(row) == row.revoked

\* refreshToken looks the presented token up ...
Refresh(h, u, s) ==
  /\ req[h] = Idle
  /\ token[u][s] # NULL
  /\ now < s + RefreshLife
  /\ \/ /\ isReused(token[u][s])
        /\ Proceed(h, [kind |-> "revokeAll", user |-> u])
     \/ /\ ~isReused(token[u][s])
        /\ Proceed(h, [kind |-> "readUser", user |-> u, second |-> s])
  /\ UNCHANGED <<now, account, token, excuses>>

\* ... then its user ...
ReadUser(h) ==
  /\ req[h].kind = "readUser"
  /\ \/ maySignIn(req[h].user) /\ Proceed(h, [req[h] EXCEPT !.kind = "rotate"])
     \/ ~maySignIn(req[h].user) /\ Finish(h)
  /\ UNCHANGED <<now, account, token, excuses>>

\* Mutants of replaced: the old token stays good; the chain reference is lost.
keptAsItWas(row) == row
replacedByNobody(row) == [row EXCEPT !.revoked = TRUE]

replaced(row) == [row EXCEPT !.revoked = TRUE, !.replacedBy = now]

\* ... and in one transaction creates its successor and revokes it.
Rotate(h) ==
  /\ req[h].kind = "rotate"
  /\ LET u == req[h].user
         s == req[h].second
         old == token[u][s]
     IN  \/ /\ isFree(u, now)
            /\ token' = [token EXCEPT
                 ![u][now] = [revoked |-> FALSE, replacedBy |-> NULL,
                              root |-> old.root, password |-> old.password],
                 ![u][s] = replaced(@)]
            /\ noteOvertaken(h)
         \/ ~isFree(u, now) /\ UNCHANGED <<token, overtaken>>
  /\ Finish(h)
  /\ UNCHANGED <<now, account, unfinished>>

-----------------------------------------------------------------------------
revoked(row) == IF row = NULL THEN NULL ELSE [row EXCEPT !.revoked = TRUE]

\* logout: whoever has the token; neither expiry nor status is asked.
Logout(h, u, s) ==
  /\ req[h] = Idle
  /\ token[u][s] # NULL
  /\ token' = [token EXCEPT ![u][s] = revoked(@)]
  /\ UNCHANGED <<now, account, req, excuses>>

\* authenticate, then logoutAll or changePassword; access tokens are never revoked.
Authenticate(h, u, kind) ==
  /\ req[h] = Idle
  /\ \E s \in Seconds : token[u][s] # NULL /\ now < s + AccessLife
  /\ status[u] \notin {"SUSPENDED", "INACTIVE"}
  /\ kind \in {"checkPassword", "revokeAll"}
  /\ Proceed(h, [kind |-> kind, user |-> u])
  /\ UNCHANGED <<now, account, token, excuses>>

CheckPassword(h, current, new) ==
  /\ req[h].kind = "checkPassword"
  /\ LET u == req[h].user IN
     \/ /\ password[u] = current
        /\ Proceed(h, [kind |-> "setPassword", user |-> u, password |-> new])
     \/ password[u] # current /\ Finish(h)
  /\ UNCHANGED <<now, account, token, excuses>>

\* Mutant of thenRevoke: nothing follows.
thenFinish(h, u) == Finish(h)

\* logoutAll, after the user row has been written.
thenRevoke(h, u) == Proceed(h, [kind |-> "revokeAll", user |-> u])

SetPassword(h) ==
  /\ req[h].kind = "setPassword"
  /\ password' = [password EXCEPT ![req[h].user] = req[h].password]
  /\ thenRevoke(h, req[h].user)
  /\ UNCHANGED <<now, status, token, excuses>>

\* updateUserStatus, by an administrator.
UpdateUserStatus(h, u, s) ==
  /\ req[h] = Idle
  /\ status[u] # "ABSENT"
  /\ status' = [status EXCEPT ![u] = s]
  /\ IF s \in {"SUSPENDED", "INACTIVE"} THEN thenRevoke(h, u) ELSE UNCHANGED req
  /\ UNCHANGED <<now, password, token, excuses>>

\* refreshToken.updateMany over the user's rows: logoutAll, reuse, suspension.
RevokeAll(h) ==
  /\ req[h].kind = "revokeAll"
  /\ LET u == req[h].user IN
     /\ token' = [token EXCEPT ![u] = [s \in Seconds |-> revoked(@[s])]]
     /\ unfinished' = unfinished \ {u}
     /\ overtaken' = overtaken \ {u}
  /\ Finish(h)
  /\ UNCHANGED <<now, account>>

\* The request dies.
Abandon(h) ==
  /\ req[h] # Idle
  /\ unfinished' = unfinished \cup
       (IF req[h].kind = "revokeAll" THEN {req[h].user} ELSE {})
  /\ Finish(h)
  /\ UNCHANGED <<now, account, token, overtaken>>

-----------------------------------------------------------------------------
Next ==
  \/ Tick
  \/ \E h \in Handlers :
       \/ \E u \in Users :
            \/ \E p \in Passwords : Register(h, u, p) \/ Login(h, u, p)
            \/ \E s \in Seconds : Refresh(h, u, s) \/ Logout(h, u, s)
            \/ \E kind \in {"checkPassword", "revokeAll"} : Authenticate(h, u, kind)
            \/ \E s \in Statuses : UpdateUserStatus(h, u, s)
       \/ \E p, q \in Passwords : CheckPassword(h, p, q)
       \/ CreateUser(h) \/ StoreToken(h) \/ ReadUser(h) \/ Rotate(h)
       \/ SetPassword(h) \/ RevokeAll(h) \/ Abandon(h)

Spec == Init /\ [][Next]_vars

-----------------------------------------------------------------------------
\* Rows and requests have their shapes; a successor is younger than its token, and
\* a row once found stays.
TypeOK ==
  /\ now \in Seconds
  /\ status \in [Users -> Statuses \cup {"ABSENT"}]
  /\ password \in [Users -> Passwords \cup {NULL}]
  /\ token \in [Users -> [Seconds -> {NULL} \cup UNION {Row(s) : s \in Seconds}]]
  /\ \A u \in Users, s \in Seconds : token[u][s] # NULL => token[u][s] \in Row(s) /\ s <= now
  /\ req \in [Handlers -> Request]
  /\ \A h \in Handlers : req[h].kind \in {"readUser", "rotate"} =>
       token[req[h].user][req[h].second] # NULL
  /\ unfinished \subseteq Users /\ overtaken \subseteq Users

\* The token is its login's, or the successor of one of its session that it revoked.
isLinked(u, s) ==
  \/ token[u][s].root = s
  \/ \E t \in Seconds :
       /\ t < s /\ token[u][t] # NULL
       /\ token[u][t].replacedBy = s
       /\ token[u][t].root = token[u][s].root
       /\ token[u][t].revoked

(***************************************************************************)
(* The refresh tokens of a session form one chain (auth.service.ts:238-    *)
(* 258): each is linked when it is created and stays so, whatever requests *)
(* overlap, unless a rotation writes whose token another request has       *)
(* revoked, by a rotation of its own or otherwise, since it was read.      *)
(***************************************************************************)
ChainIsKept ==
  [][\A u \in Users, s \in Seconds :
       token'[u][s] # NULL /\ (token[u][s] = NULL \/ isLinked(u, s)) =>
         \/ isLinked(u, s)'
         \/ \E h \in Handlers :
              /\ req[h].kind = "rotate" /\ req[h].user = u /\ req'[h] # req[h]
              /\ ~isFreshRead(req[h])]_vars

(***************************************************************************)
(* A session has one token that still works (docs/Prompt.md:344), until an *)
(* overtaken request has inserted one (auth.service.ts:239).               *)
(***************************************************************************)
OneLiveToken ==
  \A u \in Users \ overtaken, s, t \in Seconds :
    isLive(u, s) /\ isLive(u, t) /\ token[u][s].root = token[u][t].root => s = t

\* A revocation of the user's tokens is due, or its request died, or an overtaken
\* request has inserted a token since.
revocationDue(u) ==
  \/ u \in unfinished \cup overtaken
  \/ \E h \in Handlers : req[h].kind = "revokeAll" /\ req[h].user = u

(***************************************************************************)
(* Nobody keeps a session across a change of the password, unless the      *)
(* request that changed it died before the revocation (auth.service.ts:    *)
(* 306-312), or the session was carried on by a request that had read the  *)
(* account before.                                                         *)
(***************************************************************************)
PasswordEndsSessions ==
  \A u \in Users, s \in Seconds :
    isLive(u, s) /\ ~revocationDue(u) => token[u][s].password = password[u]

(***************************************************************************)
(* A suspended account has no session that would outlive its suspension,   *)
(* with the same exceptions (users.service.ts:170-188).                    *)
(***************************************************************************)
SuspendedHasNoSession ==
  \A u \in Users, s \in Seconds :
    status[u] = "SUSPENDED" /\ isLive(u, s) => revocationDue(u)

\* Only registered users have tokens, or requests that will store one, and the token
\* of its login stands at the root of each.
RowsAreOwned ==
  /\ \A u \in Users, s \in Seconds : token[u][s] # NULL =>
       /\ status[u] # "ABSENT"
       /\ LET r == token[u][s].root IN token[u][r] # NULL /\ token[u][r].root = r
  /\ \A h \in Handlers : req[h].kind = "store" => status[req[h].user] # "ABSENT"

\* The inductive invariant, for any number of overlapping requests.
IInv ==
  /\ TypeOK
  /\ OneLiveToken
  /\ PasswordEndsSessions
  /\ SuspendedHasNoSession
  /\ RowsAreOwned

\* One request at a time: then nothing is ever overtaken.
OneAtATime == \A g, h \in Handlers : g = h

NothingOvertaken == overtaken = {} /\ \A h \in Handlers : isFreshRead(req[h])

-----------------------------------------------------------------------------
sessionOf(u, s) ==
  IF token[u][s] = NULL \/ token[u][s].root # s THEN "none"
  ELSE IF \E t \in Seconds : isLive(u, t) /\ token[u][t].root = s THEN "live"
  ELSE "ended"

Life == INSTANCE SessionLife WITH
  suspended <- {u \in Users : status[u] = "SUSPENDED"},
  exposed <- overtaken,
  session <- [u \in Users |-> [s \in Seconds |-> sessionOf(u, s)]]

\* A request's own steps do not make what it has read untrue.
ReadsHold ==
  \A h \in Handlers : isFreshRead(req[h]) /\ req'[h] # req[h] => isFreshRead(req[h])'

(***************************************************************************)
(* Rotation, logout, reuse detection, password change and suspension       *)
(* together implement SessionLife, however requests overlap: none begins   *)
(* in a suspended account, an ended session stays ended and a revocation   *)
(* ends them all, but for the session that an overtaken request inserts a  *)
(* token of.  No request is overtaken by its own steps: a token presented  *)
(* again is told apart when it is looked up (auth.service.ts:215).         *)
(***************************************************************************)
ImplementsSessionLife == Life!Spec /\ [][ReadsHold]_vars
=============================================================================
