---------------------------- MODULE SessionsProofs ----------------------------
(***************************************************************************)
(* However many requests overlap, the refresh token rows keep their shape  *)
(* and their chains, sessions have one working token, end with the         *)
(* password and with suspension, and implement SessionLife, but for what   *)
(* overtaken requests insert; requests that do not overlap (OneAtATime)    *)
(* never are overtaken.                                                    *)
(***************************************************************************)
EXTENDS Sessions, TLAPS

\* The kind of a request tells the record it is.
LEMMA RequestShape ==
  ASSUME TypeOK, NEW h \in Handlers
  PROVE  /\ req[h].kind \in {"createUser", "store", "setPassword"} =>
              req[h] \in [kind : {"createUser", "store", "setPassword"}, user : Users,
                         password : Passwords]
         /\ req[h].kind \in {"readUser", "rotate"} =>
              req[h] \in [kind : {"readUser", "rotate"}, user : Users, second : Seconds]
         /\ req[h].kind \in {"checkPassword", "revokeAll"} =>
              req[h] \in [kind : {"checkPassword", "revokeAll"}, user : Users]
BY DEF TypeOK, Request, Idle

LEMMA InitTypeOK == Init => TypeOK
BY ClockIsNatural DEF Init, TypeOK, Seconds, Request, Idle

\* A step that only moves request h on keeps the shapes.
LEMMA ProceedTypeOK ==
  ASSUME TypeOK, NEW h \in Handlers, NEW r \in Request, Proceed(h, r),
         r.kind \in {"readUser", "rotate"} => token[r.user][r.second] # NULL,
         UNCHANGED <<now, token>>,
         status' \in [Users -> Statuses \cup {"ABSENT"}],
         password' \in [Users -> Passwords \cup {NULL}],
         unfinished' \subseteq Users, overtaken' \subseteq Users
  PROVE  TypeOK'
<1>1. req' \in [Handlers -> Request]
  BY DEF TypeOK, Proceed
<1>2. \A g \in Handlers : req'[g] = IF g = h THEN r ELSE req[g]
  BY DEF TypeOK, Proceed
<1>3. \A g \in Handlers : req'[g].kind \in {"readUser", "rotate"} =>
        token[req'[g].user][req'[g].second] # NULL
  BY <1>2 DEF TypeOK
<1>4. QED
  BY <1>1, <1>3 DEF TypeOK

\* A step that writes rows and finishes keeps the shapes if no row is lost.
LEMMA WriteTypeOK ==
  ASSUME TypeOK, NEW h \in Handlers, Finish(h), UNCHANGED <<now, account>>,
         unfinished' \subseteq Users, overtaken' \subseteq Users,
         token' \in [Users -> [Seconds -> {NULL} \cup UNION {Row(s) : s \in Seconds}]],
         \A u \in Users, s \in Seconds :
           /\ token'[u][s] # NULL => token'[u][s] \in Row(s) /\ s <= now
           /\ token[u][s] # NULL => token'[u][s] # NULL
  PROVE  TypeOK'
<1>1. req' \in [Handlers -> Request]
  BY DEF TypeOK, Proceed, Finish, Request
<1>2. \A g \in Handlers : req'[g] = IF g = h THEN Idle ELSE req[g]
  BY DEF TypeOK, Proceed, Finish
<1>3. ASSUME NEW g \in Handlers, req'[g].kind \in {"readUser", "rotate"}
      PROVE  token'[req'[g].user][req'[g].second] # NULL
  <2>1. req'[g] = req[g]
    BY <1>2, <1>3 DEF Idle
  <2>2. token[req[g].user][req[g].second] # NULL
    BY <1>3, <2>1 DEF TypeOK
  <2>3. req[g].user \in Users /\ req[g].second \in Seconds
    BY <1>3, <2>1, RequestShape
  <2>4. QED
    BY <2>1, <2>2, <2>3
<1>4. QED
  BY <1>1, <1>3 DEF TypeOK, account

LEMMA RowIsRow ==
  ASSUME NEW s \in Seconds, NEW row \in Row(s)
  PROVE  row # NULL /\ row \in UNION {Row(t) : t \in Seconds}
<1>1. row \in UNION {Row(t) : t \in Seconds}
  OBVIOUS
<1>2. QED
  BY <1>1, NullIsNoValue

LEMMA PutRow ==
  ASSUME NEW R, NEW tok \in [Users -> [Seconds -> R]], NEW u \in Users, NEW s \in Seconds,
         NEW x \in R
  PROVE  [tok EXCEPT ![u][s] = x] \in [Users -> [Seconds -> R]]
OBVIOUS

LEMMA RevokedRow ==
  ASSUME NEW s \in Seconds, NEW row \in {NULL} \cup Row(s)
  PROVE  /\ revoked(row) \in {NULL} \cup Row(s)
         /\ row = NULL <=> revoked(row) = NULL
         /\ row # NULL => /\ revoked(row) \in Row(s)
                          /\ revoked(row).revoked
                          /\ revoked(row).replacedBy = row.replacedBy
                          /\ revoked(row).root = row.root
                          /\ revoked(row).password = row.password
<1>1. CASE row = NULL
  BY <1>1 DEF revoked
<1>2. CASE row # NULL
  <2>1. row \in Row(s) /\ revoked(row) = [row EXCEPT !.revoked = TRUE]
    BY <1>2 DEF revoked
  <2>2. /\ revoked(row) \in Row(s)
        /\ revoked(row).revoked
        /\ revoked(row).replacedBy = row.replacedBy
        /\ revoked(row).root = row.root
        /\ revoked(row).password = row.password
    BY <2>1 DEF Row
  <2>3. QED
    BY <1>2, <2>2, RowIsRow
<1>3. QED
  BY <1>1, <1>2

\* The two rows a rotation writes.
LEMMA RotatedRows ==
  ASSUME TypeOK, NEW h \in Handlers, Rotate(h), isFree(req[h].user, now)
  PROVE  LET u == req[h].user
             s == req[h].second
             old == token[u][s]
             new == token'[u][now]
         IN  /\ u \in Users /\ s \in Seconds /\ now \in Seconds /\ s < now
             /\ old \in Row(s) /\ old # NULL
             /\ new \in Row(now) /\ new # NULL
             /\ ~new.revoked /\ new.replacedBy = NULL
             /\ new.root = old.root /\ new.password = old.password
             /\ token'[u][s] \in Row(s) /\ token'[u][s] # NULL
             /\ token'[u][s].revoked /\ token'[u][s].replacedBy = now
             /\ token'[u][s].root = old.root /\ token'[u][s].password = old.password
             /\ \A v \in Users, t \in Seconds :
                  ~(v = u /\ t \in {s, now}) => token'[v][t] = token[v][t]
             /\ token' \in [Users -> [Seconds -> {NULL} \cup UNION {Row(t) : t \in Seconds}]]
<1> DEFINE u == req[h].user
           s == req[h].second
           old == token[u][s]
           row == [revoked |-> FALSE, replacedBy |-> NULL, root |-> old.root,
                   password |-> old.password]
           gone == [old EXCEPT !.revoked = TRUE, !.replacedBy = now]
<1>1. u \in Users /\ s \in Seconds
  BY RequestShape DEF Rotate
<1>2. now \in Seconds /\ old # NULL /\ old \in Row(s) /\ s <= now
  BY <1>1 DEF Rotate, TypeOK
<1>3. s # now
  BY <1>2 DEF isFree
<1>4. s < now /\ now \in (s + 1)..MaxSecond
  BY <1>1, <1>2, <1>3, ClockIsNatural DEF Seconds
<1>5. row \in Row(now)
  BY <1>1, <1>2, <1>4, ClockIsNatural DEF Row, Seconds
<1>6. gone \in Row(s) /\ gone.revoked /\ gone.replacedBy = now /\ gone.root = old.root
      /\ gone.password = old.password
  BY <1>2, <1>4 DEF Row
<1>7. row # NULL /\ gone # NULL
  BY <1>1, <1>2, <1>5, <1>6, NullIsNoValue
<1>8. token' = [token EXCEPT ![u][now] = row, ![u][s] = replaced(@)]
  BY DEF Rotate
<1>9. /\ token'[u][now] = row
      /\ token'[u][s] = gone
      /\ \A v \in Users, t \in Seconds :
           ~(v = u /\ t \in {s, now}) => token'[v][t] = token[v][t]
      /\ DOMAIN token' = Users
      /\ \A v \in Users : DOMAIN token'[v] = Seconds
  BY <1>1, <1>2, <1>3, <1>8 DEF TypeOK, replaced
<1>10. token' \in [Users -> [Seconds -> {NULL} \cup UNION {Row(t) : t \in Seconds}]]
  <2> DEFINE R == {NULL} \cup UNION {Row(t) : t \in Seconds}
  <2>1. token \in [Users -> [Seconds -> R]]
    BY DEF TypeOK
  <2>2. row \in R /\ gone \in R
    BY <1>1, <1>2, <1>5, <1>6
  <2>3. token' = [[token EXCEPT ![u][now] = row] EXCEPT ![u][s] = gone]
    BY <1>1, <1>2, <1>3, <1>8 DEF TypeOK, replaced
  <2> HIDE DEF R, row, gone, u, s
  <2>4. [token EXCEPT ![u][now] = row] \in [Users -> [Seconds -> R]]
    BY <1>1, <1>2, <2>1, <2>2, PutRow
  <2>5. token' \in [Users -> [Seconds -> R]]
    BY <1>1, <2>2, <2>3, <2>4, PutRow
  <2>6. QED
    BY <2>5 DEF R
<1>11. /\ ~row.revoked /\ row.replacedBy = NULL
       /\ row.root = old.root /\ row.password = old.password
  OBVIOUS
<1> HIDE DEF row, gone
<1>12. QED
  BY <1>1, <1>2, <1>4, <1>5, <1>6, <1>7, <1>9, <1>10, <1>11, SMTT(30)

\* Every step keeps the shapes.
LEMMA StepTypeOK ==
  ASSUME TypeOK, NEW h \in Handlers,
         \/ \E u \in Users :
              \/ \E p \in Passwords : Register(h, u, p) \/ Login(h, u, p)
              \/ \E s \in Seconds : Refresh(h, u, s) \/ Logout(h, u, s)
              \/ \E kind \in {"checkPassword", "revokeAll"} : Authenticate(h, u, kind)
              \/ \E s \in Statuses : UpdateUserStatus(h, u, s)
         \/ \E p, q \in Passwords : CheckPassword(h, p, q)
         \/ CreateUser(h) \/ StoreToken(h) \/ ReadUser(h) \/ Rotate(h)
         \/ SetPassword(h) \/ RevokeAll(h) \/ Abandon(h)
  PROVE  TypeOK'
<1> USE DEF account, excuses
<1>0. Idle \in Request /\ Idle.kind = "idle"
  BY DEF Request, Idle
<1>1. ASSUME NEW u \in Users, NEW p \in Passwords, Register(h, u, p) \/ Login(h, u, p)
      PROVE  TypeOK'
  BY <1>1, ProceedTypeOK DEF Register, Login, Request, TypeOK
<1>2. ASSUME NEW u \in Users, NEW s \in Seconds, Refresh(h, u, s)
      PROVE  TypeOK'
  BY <1>2, ProceedTypeOK DEF Refresh, Request, TypeOK
<1>3. ASSUME NEW u \in Users, NEW s \in Seconds, Logout(h, u, s)
      PROVE  TypeOK'
  <2>1. \A v \in Users, t \in Seconds :
          token'[v][t] = IF v = u /\ t = s THEN revoked(token[u][s]) ELSE token[v][t]
    BY <1>3 DEF Logout, TypeOK
  <2>2. token[u][s] \in Row(s)
    BY <1>3 DEF Logout, TypeOK
  <2>3. revoked(token[u][s]) \in Row(s) /\ revoked(token[u][s]) # NULL
        /\ revoked(token[u][s]) \in UNION {Row(t) : t \in Seconds}
    BY <1>3, <2>2, RevokedRow, RowIsRow DEF Logout
  <2>4. token' \in [Users -> [Seconds -> {NULL} \cup UNION {Row(t) : t \in Seconds}]]
    <3> DEFINE R == {NULL} \cup UNION {Row(t) : t \in Seconds}
               x == revoked(token[u][s])
    <3>1. token \in [Users -> [Seconds -> R]] /\ x \in R
      BY <2>3 DEF TypeOK
    <3>2. token' = [token EXCEPT ![u][s] = x]
      BY <1>3 DEF Logout
    <3> HIDE DEF R, x
    <3>3. token' \in [Users -> [Seconds -> R]]
      BY <3>1, <3>2, PutRow
    <3>4. QED
      BY <3>3 DEF R
  <2>5. \A v \in Users, t \in Seconds :
          /\ token'[v][t] # NULL => token'[v][t] \in Row(t) /\ t <= now
          /\ token[v][t] # NULL => token'[v][t] # NULL
    BY <1>3, <2>1, <2>3 DEF Logout, TypeOK
  <2>6. \A g \in Handlers : req[g].kind \in {"readUser", "rotate"} =>
          token'[req[g].user][req[g].second] # NULL
    BY <2>5, RequestShape DEF TypeOK
  <2>7. QED
    BY <1>3, <2>4, <2>5, <2>6 DEF Logout, TypeOK
<1>4. ASSUME NEW u \in Users, NEW kind \in {"checkPassword", "revokeAll"},
             Authenticate(h, u, kind)
      PROVE  TypeOK'
  BY <1>4, ProceedTypeOK DEF Authenticate, Request, TypeOK
<1>5. ASSUME NEW u \in Users, NEW s \in Statuses, UpdateUserStatus(h, u, s)
      PROVE  TypeOK'
  <2>1. status' \in [Users -> Statuses \cup {"ABSENT"}]
    BY <1>5 DEF UpdateUserStatus, TypeOK
  <2>2. CASE s \in {"SUSPENDED", "INACTIVE"}
    BY <1>5, <2>1, <2>2, ProceedTypeOK DEF UpdateUserStatus, thenRevoke, Request, TypeOK
  <2>3. CASE s \notin {"SUSPENDED", "INACTIVE"}
    BY <1>5, <2>1, <2>3 DEF UpdateUserStatus, TypeOK
  <2>4. QED
    BY <2>2, <2>3
<1>6. ASSUME NEW p \in Passwords, NEW q \in Passwords, CheckPassword(h, p, q)
      PROVE  TypeOK'
  <2>1. req[h].user \in Users
    BY <1>6, RequestShape DEF CheckPassword
  <2>2. QED
    BY <1>0, <1>6, <2>1, ProceedTypeOK DEF CheckPassword, Finish, Request, TypeOK
<1>7. CASE CreateUser(h)
  <2>1. req[h] \in [kind : {"createUser", "store", "setPassword"}, user : Users,
                    password : Passwords]
    BY <1>7, RequestShape DEF CreateUser
  <2>2. [req[h] EXCEPT !.kind = "store"] \in Request
    BY <2>1 DEF Request
  <2>3. [req[h] EXCEPT !.kind = "store"].kind = "store"
    BY <2>1
  <2>4. /\ status' \in [Users -> Statuses \cup {"ABSENT"}]
        /\ password' \in [Users -> Passwords \cup {NULL}]
    BY <1>7, <2>1 DEF CreateUser, TypeOK, Statuses
  <2>5. QED
    BY <1>0, <1>7, <2>2, <2>3, <2>4, ProceedTypeOK DEF CreateUser, Finish, TypeOK
<1>8. CASE ReadUser(h)
  <2>1. req[h] \in [kind : {"readUser", "rotate"}, user : Users, second : Seconds]
    BY <1>8, RequestShape DEF ReadUser
  <2>2. [req[h] EXCEPT !.kind = "rotate"] \in Request
    BY <2>1 DEF Request
  <2>3. /\ [req[h] EXCEPT !.kind = "rotate"].user = req[h].user
        /\ [req[h] EXCEPT !.kind = "rotate"].second = req[h].second
        /\ token[req[h].user][req[h].second] # NULL
    BY <1>8, <2>1 DEF ReadUser, TypeOK
  <2>4. QED
    BY <1>0, <1>8, <2>2, <2>3, ProceedTypeOK DEF ReadUser, Finish, TypeOK
<1>9. CASE SetPassword(h)
  <2>1. req[h].user \in Users /\ req[h].password \in Passwords
    BY <1>9, RequestShape DEF SetPassword
  <2>2. password' \in [Users -> Passwords \cup {NULL}]
    BY <1>9, <2>1 DEF SetPassword, TypeOK
  <2>3. QED
    BY <1>9, <2>1, <2>2, ProceedTypeOK DEF SetPassword, thenRevoke, Request, TypeOK
<1>10. CASE Abandon(h)
  <2>1. unfinished' \subseteq Users
    BY <1>10, RequestShape DEF Abandon, TypeOK
  <2>2. QED
    BY <1>0, <1>10, <2>1, ProceedTypeOK DEF Abandon, Finish, TypeOK
<1>11. CASE RevokeAll(h)
  <2> DEFINE u == req[h].user
  <2>1. u \in Users
    BY <1>11, RequestShape DEF RevokeAll
  <2>2. \A v \in Users, t \in Seconds :
          token'[v][t] = IF v = u THEN revoked(token[u][t]) ELSE token[v][t]
    BY <1>11, <2>1 DEF RevokeAll, TypeOK
  <2>3. \A t \in Seconds : revoked(token[u][t]) \in {NULL} \cup Row(t)
    BY <2>1, RevokedRow DEF TypeOK
  <2>4. token' \in [Users -> [Seconds -> {NULL} \cup UNION {Row(t) : t \in Seconds}]]
    <3>1. [t \in Seconds |-> revoked(token[u][t])]
            \in [Seconds -> {NULL} \cup UNION {Row(t) : t \in Seconds}]
      BY <2>3
    <3>2. token' = [token EXCEPT ![u] = [t \in Seconds |-> revoked(token[u][t])]]
      BY <1>11, <2>1 DEF RevokeAll, TypeOK
    <3>3. QED
      BY <2>1, <3>1, <3>2 DEF TypeOK
  <2>5. \A v \in Users, t \in Seconds :
          /\ token'[v][t] # NULL => token'[v][t] \in Row(t) /\ t <= now
          /\ token[v][t] # NULL => token'[v][t] # NULL
    BY <2>1, <2>2, <2>3, RevokedRow DEF TypeOK
  <2>6. unfinished' \subseteq Users /\ overtaken' \subseteq Users
    BY <1>11 DEF RevokeAll, TypeOK
  <2>7. QED
    BY <1>11, <2>4, <2>5, <2>6, WriteTypeOK DEF RevokeAll
<1>12. CASE StoreToken(h)
  <2> DEFINE u == req[h].user
             row == [revoked |-> FALSE, replacedBy |-> NULL, root |-> now,
                     password |-> req[h].password]
  <2>1. u \in Users /\ req[h].password \in Passwords /\ now \in Seconds
    BY <1>12, RequestShape DEF StoreToken, TypeOK
  <2>0. overtaken' \subseteq Users
    BY <1>12, <2>1 DEF StoreToken, noteOvertaken, TypeOK
  <2>2. CASE UNCHANGED token
    BY <1>12, <2>0, <2>2, WriteTypeOK DEF StoreToken, TypeOK
  <2>3. CASE token' = [token EXCEPT ![u][now] = row]
    <3>1. row \in Row(now)
      BY <2>1, ClockIsNatural DEF Row, Seconds
    <3>2. token' \in [Users -> [Seconds -> {NULL} \cup UNION {Row(t) : t \in Seconds}]]
      BY <2>1, <2>3, <3>1 DEF TypeOK
    <3>3. \A v \in Users, t \in Seconds :
            token'[v][t] = IF v = u /\ t = now THEN row ELSE token[v][t]
      BY <2>1, <2>3 DEF TypeOK
    <3>4. now <= now /\ row # NULL
      <4>1. now <= now
        BY <2>1, ClockIsNatural DEF Seconds
      <4> HIDE DEF row
      <4>2. row # NULL
        BY <2>1, <3>1, RowIsRow
      <4>3. QED
        BY <4>1, <4>2
    <3>5. \A v \in Users, t \in Seconds :
            /\ token'[v][t] # NULL => token'[v][t] \in Row(t) /\ t <= now
            /\ token[v][t] # NULL => token'[v][t] # NULL
      BY <3>1, <3>3, <3>4, ZenonT(60) DEF TypeOK
    <3>6. QED
      BY <1>12, <2>0, <3>2, <3>5, WriteTypeOK DEF StoreToken, TypeOK
  <2>4. QED
    BY <1>12, <2>2, <2>3 DEF StoreToken
<1>13. CASE Rotate(h)
  <2>0. overtaken' \subseteq Users
    BY <1>13, RequestShape DEF Rotate, noteOvertaken, TypeOK
  <2>1. CASE UNCHANGED token
    BY <1>13, <2>0, <2>1, WriteTypeOK DEF Rotate, TypeOK
  <2>2. CASE isFree(req[h].user, now)
    <3>1. \A v \in Users, t \in Seconds :
            /\ token'[v][t] # NULL => token'[v][t] \in Row(t) /\ t <= now
            /\ token[v][t] # NULL => token'[v][t] # NULL
      <4> DEFINE u == req[h].user
                 s == req[h].second
      <4>1. /\ s < now /\ now \in Seconds /\ s \in Seconds
            /\ token'[u][now] \in Row(now) /\ token'[u][now] # NULL
            /\ token'[u][s] \in Row(s) /\ token'[u][s] # NULL
            /\ \A v \in Users, t \in Seconds :
                 ~(v = u /\ t \in {s, now}) => token'[v][t] = token[v][t]
        BY <1>13, <2>2, RotatedRows
      <4>2. now <= now /\ s <= now
        BY <4>1 DEF Seconds
      <4>3. \A v \in Users, t \in Seconds :
              token[v][t] # NULL => token[v][t] \in Row(t) /\ t <= now
        BY DEF TypeOK
      <4> HIDE DEF u, s
      <4>4. QED
        BY <4>1, <4>2, <4>3
    <3>2. QED
      BY <1>13, <2>0, <2>2, <3>1, RotatedRows, WriteTypeOK DEF Rotate, TypeOK
  <2>3. QED
    BY <1>13, <2>1, <2>2 DEF Rotate
<1>14. QED
  BY <1>1, <1>2, <1>3, <1>4, <1>5, <1>6, <1>7, <1>8, <1>9, <1>10, <1>11, <1>12, <1>13

LEMMA NextTypeOK == TypeOK /\ [Next]_vars => TypeOK'
<1> SUFFICES ASSUME TypeOK, [Next]_vars PROVE TypeOK'
  OBVIOUS
<1>1. CASE Tick
  BY <1>1, ClockIsNatural DEF Tick, TypeOK, Seconds, account, excuses
<1>2. CASE UNCHANGED vars
  BY <1>2 DEF vars, account, excuses, TypeOK
<1>3. CASE Next /\ ~Tick
  BY <1>3, StepTypeOK DEF Next
<1>4. QED
  BY <1>1, <1>2, <1>3

(***************************************************************************)
(* Rows keep their shape and none is lost, however many requests overlap.  *)
(***************************************************************************)
THEOREM TypeCorrect == Spec => []TypeOK
BY InitTypeOK, NextTypeOK, PTL DEF Spec

-----------------------------------------------------------------------------
\* IInv but TypeOK, which is proved above.
SessionInv ==
  /\ OneLiveToken
  /\ PasswordEndsSessions /\ SuspendedHasNoSession
  /\ RowsAreOwned

LEMMA InitInv == Init => SessionInv
BY DEF Init, Idle, SessionInv, OneLiveToken, PasswordEndsSessions,
       SuspendedHasNoSession, RowsAreOwned, isLive

\* Where request h has got to after its step; the others stay where they are.
LEMMA ReqAfter ==
  ASSUME TypeOK, NEW h \in Handlers, NEW r, Proceed(h, r)
  PROVE  /\ req'[h] = r
         /\ \A g \in Handlers : g # h => req'[g] = req[g]
BY DEF TypeOK, Proceed

\* A due revocation stays due unless the request that owes it makes a step.
LEMMA DueStays ==
  ASSUME TypeOK, NEW h \in Handlers, NEW r, Proceed(h, r), NEW u \in Users, revocationDue(u),
         ~(req[h].kind = "revokeAll" /\ req[h].user = u),
         u \in unfinished => u \in unfinished', u \in overtaken => u \in overtaken'
  PROVE  revocationDue(u)'
BY ReqAfter DEF revocationDue

\* The invariant is kept where no row changes and the account keeps its promises.
LEMMA SameRowsKeepInv ==
  ASSUME SessionInv, UNCHANGED <<token, overtaken>>,
         \A u \in Users :
           /\ status[u] # "ABSENT" => status'[u] # "ABSENT"
           /\ revocationDue(u) => revocationDue(u)'
           /\ \/ password'[u] = password[u]
              \/ revocationDue(u)'
              \/ status[u] = "ABSENT"
           /\ \/ status'[u] = status[u] \/ status'[u] # "SUSPENDED"
              \/ revocationDue(u)',
         \A h \in Handlers : req'[h].kind = "store" => status'[req'[h].user] # "ABSENT"
  PROVE  SessionInv'
<1>1. OneLiveToken'
  BY DEF SessionInv, OneLiveToken, isLive
<1>2. PasswordEndsSessions'
  BY DEF SessionInv, PasswordEndsSessions, RowsAreOwned, isLive
<1>3. SuspendedHasNoSession'
  BY DEF SessionInv, SuspendedHasNoSession, isLive
<1>4. RowsAreOwned'
  BY DEF SessionInv, RowsAreOwned
<1> QED
  BY <1>1, <1>2, <1>3, <1>4 DEF SessionInv

\* A query that only reads leaves the invariant alone.
LEMMA ReadKeepsInv ==
  ASSUME TypeOK, SessionInv, NEW h \in Handlers, NEW r, Proceed(h, r),
         req[h].kind # "revokeAll", r.kind = "store" => status[r.user] # "ABSENT",
         UNCHANGED <<account, token, excuses>>
  PROVE  SessionInv'
<1> USE DEF account, excuses
<1>1. \A u \in Users : revocationDue(u) => revocationDue(u)'
  BY DueStays
<1>2. \A g \in Handlers : req'[g].kind = "store" => status'[req'[g].user] # "ABSENT"
  BY ReqAfter DEF SessionInv, RowsAreOwned
<1> QED
  BY <1>1, <1>2, SameRowsKeepInv

\* The root of a token is a second, no later than its own.
LEMMA RootIsSecond ==
  ASSUME TypeOK, NEW u \in Users, NEW s \in Seconds, token[u][s] # NULL
  PROVE  token[u][s].root \in Seconds /\ token[u][s].root <= s /\ s <= now
<1>1. token[u][s] \in Row(s) /\ s <= now
  BY DEF TypeOK
<1>2. token[u][s].root \in 0..s
  BY <1>1 DEF Row
<1> QED
  BY <1>1, <1>2, ClockIsNatural DEF Seconds

\* Revoking rows makes no token work and leaves the rest of them alone.
Revoking ==
  \A u \in Users, s \in Seconds :
    /\ token'[u][s] = NULL <=> token[u][s] = NULL
    /\ token[u][s] # NULL =>
         /\ token'[u][s].root = token[u][s].root
         /\ token'[u][s].replacedBy = token[u][s].replacedBy
         /\ token'[u][s].password = token[u][s].password
         /\ token[u][s].revoked => token'[u][s].revoked

LEMMA RevokingKeepsInv ==
  ASSUME TypeOK, SessionInv, Revoking, UNCHANGED account,
         \A h \in Handlers : req'[h] \in {req[h], Idle},
         \A u \in Users :
           \/ \A s \in Seconds : ~isLive(u, s)'
           \/ /\ u \in overtaken => u \in overtaken'
              /\ revocationDue(u) => revocationDue(u)'
  PROVE  SessionInv'
<1> USE DEF account
<1>1. \A u \in Users, s \in Seconds : isLive(u, s)' =>
        /\ isLive(u, s)
        /\ token'[u][s].root = token[u][s].root
        /\ token'[u][s].password = token[u][s].password
  BY DEF isLive, Revoking
<1>2. OneLiveToken'
  <2> SUFFICES ASSUME NEW u \in Users \ overtaken', NEW s \in Seconds, NEW t \in Seconds,
                      isLive(u, s)', isLive(u, t)', token'[u][s].root = token'[u][t].root
               PROVE  s = t
    BY DEF OneLiveToken
  <2> QED
    BY <1>1 DEF SessionInv, OneLiveToken
<1>3. PasswordEndsSessions'
  BY <1>1 DEF SessionInv, PasswordEndsSessions
<1>4. SuspendedHasNoSession'
  BY <1>1 DEF SessionInv, SuspendedHasNoSession
<1>5. RowsAreOwned'
  <2>1. \A u \in Users, s \in Seconds : token'[u][s] # NULL =>
          /\ status'[u] # "ABSENT"
          /\ LET r == token'[u][s].root IN token'[u][r] # NULL /\ token'[u][r].root = r
    <3> SUFFICES ASSUME NEW u \in Users, NEW s \in Seconds, token'[u][s] # NULL
                 PROVE  /\ status'[u] # "ABSENT"
                        /\ LET r == token'[u][s].root
                           IN  token'[u][r] # NULL /\ token'[u][r].root = r
      OBVIOUS
    <3>1. token[u][s] # NULL /\ token'[u][s].root = token[u][s].root
      BY DEF Revoking
    <3>2. token[u][s].root \in Seconds
      BY <3>1, RootIsSecond
    <3> QED
      BY <3>1, <3>2 DEF SessionInv, RowsAreOwned, Revoking
  <2>2. \A h \in Handlers : req'[h].kind = "store" => status'[req'[h].user] # "ABSENT"
    BY DEF SessionInv, RowsAreOwned, Idle
  <2> QED
    BY <2>1, <2>2 DEF RowsAreOwned
<1> QED
  BY <1>2, <1>3, <1>4, <1>5 DEF SessionInv

LEMMA LogoutRevokes ==
  ASSUME TypeOK, NEW h \in Handlers, NEW u \in Users, NEW s \in Seconds, Logout(h, u, s)
  PROVE  /\ Revoking
         /\ \A v \in Users, t \in Seconds : ~(v = u /\ t = s) => token'[v][t] = token[v][t]
         /\ token'[u][s].revoked
<1>1. \A v \in Users, t \in Seconds :
        token'[v][t] = IF v = u /\ t = s THEN revoked(token[u][s]) ELSE token[v][t]
  BY DEF Logout, TypeOK
<1>2. token[u][s] \in Row(s) /\ token[u][s] # NULL
  BY DEF Logout, TypeOK
<1>3. QED
  BY <1>1, <1>2, RevokedRow DEF Revoking

LEMMA RevokeAllRevokes ==
  ASSUME TypeOK, NEW h \in Handlers, NEW u, u = req[h].user, RevokeAll(h)
  PROVE  /\ Revoking
         /\ u \in Users
         /\ \A v \in Users \ {u} : token'[v] = token[v]
         /\ \A s \in Seconds : ~isLive(u, s)'
<1>1. u \in Users
  BY RequestShape DEF RevokeAll
<1>2. \A v \in Users : token'[v] = IF v = u THEN [s \in Seconds |-> revoked(token[u][s])]
                                            ELSE token[v]
  BY <1>1 DEF RevokeAll, TypeOK
<1>3. \A s \in Seconds : token[u][s] \in {NULL} \cup Row(s)
  BY <1>1 DEF TypeOK
<1>4. \A s \in Seconds :
        /\ token'[u][s] = NULL <=> token[u][s] = NULL
        /\ token[u][s] # NULL =>
             /\ token'[u][s].root = token[u][s].root
             /\ token'[u][s].replacedBy = token[u][s].replacedBy
             /\ token'[u][s].password = token[u][s].password
             /\ token'[u][s].revoked
  <2> TAKE s \in Seconds
  <2>1. token'[u][s] = revoked(token[u][s])
    BY <1>1, <1>2
  <2>2. token[u][s] \in {NULL} \cup Row(s)
    BY <1>3
  <2>3. QED
    BY <2>1, <2>2, RevokedRow
<1>5. Revoking
  <2> SUFFICES ASSUME NEW v \in Users, NEW s \in Seconds
               PROVE  /\ token'[v][s] = NULL <=> token[v][s] = NULL
                      /\ token[v][s] # NULL =>
                           /\ token'[v][s].root = token[v][s].root
                           /\ token'[v][s].replacedBy = token[v][s].replacedBy
                           /\ token'[v][s].password = token[v][s].password
                           /\ token[v][s].revoked => token'[v][s].revoked
    BY DEF Revoking
  <2>1. CASE v = u
    BY <2>1, <1>4
  <2>2. CASE v # u
    <3>1. token'[v] = token[v]
      BY <2>2, <1>2
    <3> QED
      BY <3>1
  <2> QED
    BY <2>1, <2>2
<1>6. \A s \in Seconds : ~isLive(u, s)'
  BY <1>4 DEF isLive
<1>7. QED
  BY <1>1, <1>2, <1>5, <1>6

\* The queries that read, and those that write the account.
LEMMA AccountInv ==
  ASSUME TypeOK, SessionInv, NEW h \in Handlers,
         \/ \E u \in Users :
              \/ \E p \in Passwords : Register(h, u, p) \/ Login(h, u, p)
              \/ \E s \in Seconds : Refresh(h, u, s)
              \/ \E kind \in {"checkPassword", "revokeAll"} : Authenticate(h, u, kind)
              \/ \E s \in Statuses : UpdateUserStatus(h, u, s)
         \/ \E p, q \in Passwords : CheckPassword(h, p, q)
         \/ CreateUser(h) \/ ReadUser(h) \/ SetPassword(h)
  PROVE  SessionInv'
<1>1. ASSUME NEW u \in Users, NEW p \in Passwords, Register(h, u, p) \/ Login(h, u, p)
      PROVE  SessionInv'
  BY <1>1, ReadKeepsInv DEF Register, Login, maySignIn, Idle
<1>2. ASSUME NEW u \in Users, NEW s \in Seconds, Refresh(h, u, s)
      PROVE  SessionInv'
  BY <1>2, ReadKeepsInv DEF Refresh, Idle
<1>3. ASSUME NEW u \in Users, NEW kind \in {"checkPassword", "revokeAll"},
             Authenticate(h, u, kind)
      PROVE  SessionInv'
  BY <1>3, ReadKeepsInv DEF Authenticate, Idle
<1>4. ASSUME NEW p \in Passwords, NEW q \in Passwords, CheckPassword(h, p, q)
      PROVE  SessionInv'
  BY <1>4, ReadKeepsInv DEF CheckPassword, Finish, Idle
<1>5. CASE ReadUser(h)
  <2>1. [req[h] EXCEPT !.kind = "rotate"].kind = "rotate"
    BY <1>5, RequestShape DEF ReadUser
  <2> QED
    BY <1>5, <2>1, ReadKeepsInv DEF ReadUser, Finish, Idle
<1>6. CASE CreateUser(h)
  <2>1. CASE UNCHANGED account /\ Finish(h)
    BY <1>6, <2>1, ReadKeepsInv DEF CreateUser, Finish, Idle
  <2>2. CASE /\ status[req[h].user] = "ABSENT"
             /\ status' = [status EXCEPT ![req[h].user] = "ACTIVE"]
             /\ password' = [password EXCEPT ![req[h].user] = req[h].password]
             /\ Proceed(h, [req[h] EXCEPT !.kind = "store"])
    <3> DEFINE u == req[h].user
    <3>1. /\ req[h] \in [kind : {"createUser", "store", "setPassword"}, user : Users,
                        password : Passwords]
          /\ u \in Users
      BY <1>6, RequestShape DEF CreateUser
    <3>2. req'[h].user = u /\ \A g \in Handlers : g # h => req'[g] = req[g]
      BY <2>2, <3>1, ReqAfter
    <3>3. \A v \in Users : /\ status'[v] = IF v = u THEN "ACTIVE" ELSE status[v]
                           /\ v # u => password'[v] = password[v]
      BY <2>2, <3>1 DEF TypeOK
    <3>4. UNCHANGED <<token, excuses>>
      BY <1>6 DEF CreateUser
    <3>5. \A v \in Users : revocationDue(v) => revocationDue(v)'
      BY <1>6, <2>2, <3>4, DueStays DEF CreateUser, excuses
    <3>6. \A g \in Handlers : req'[g].kind = "store" => status'[req'[g].user] # "ABSENT"
      <4> SUFFICES ASSUME NEW g \in Handlers, req'[g].kind = "store"
                   PROVE  status'[req'[g].user] # "ABSENT"
        OBVIOUS
      <4>1. CASE g = h
        BY <3>1, <3>2, <3>3, <4>1
      <4>2. CASE g # h
        BY <3>2, <3>3, <4>2, RequestShape DEF SessionInv, RowsAreOwned
      <4> QED
        BY <4>1, <4>2
    <3> QED
      BY <2>2, <3>3, <3>4, <3>5, <3>6, SameRowsKeepInv DEF excuses
  <2>3. QED
    BY <1>6, <2>1, <2>2 DEF CreateUser
<1>7. ASSUME NEW u \in Users, NEW s \in Statuses, UpdateUserStatus(h, u, s)
      PROVE  SessionInv'
  <2>1. \A v \in Users : status'[v] = IF v = u THEN s ELSE status[v]
    BY <1>7 DEF UpdateUserStatus, TypeOK
  <2>2. UNCHANGED <<token, password, excuses>>
    BY <1>7 DEF UpdateUserStatus
  <2>3. /\ s \in {"SUSPENDED", "INACTIVE"} => req'[h] = [kind |-> "revokeAll", user |-> u]
        /\ s \notin {"SUSPENDED", "INACTIVE"} => req'[h] = req[h]
        /\ \A g \in Handlers : g # h => req'[g] = req[g]
    BY <1>7, ReqAfter DEF UpdateUserStatus, thenRevoke
  <2>4. \A v \in Users : revocationDue(v) => revocationDue(v)'
    BY <1>7, <2>2, <2>3 DEF UpdateUserStatus, revocationDue, Idle, excuses
  <2>5. s = "SUSPENDED" => revocationDue(u)'
    BY <2>3 DEF revocationDue
  <2>6. \A g \in Handlers : req'[g].kind = "store" => status'[req'[g].user] # "ABSENT"
    BY <2>1, <2>3, RequestShape DEF SessionInv, RowsAreOwned, Statuses
  <2>7. \A v \in Users :
          /\ status[v] # "ABSENT" => status'[v] # "ABSENT"
          /\ \/ status'[v] = status[v] \/ status'[v] # "SUSPENDED"
             \/ revocationDue(v)'
    BY <2>1, <2>5 DEF Statuses
  <2> QED
    BY <2>2, <2>4, <2>6, <2>7, SameRowsKeepInv DEF excuses
<1>8. CASE SetPassword(h)
  <2> DEFINE u == req[h].user
  <2>1. u \in Users
    BY <1>8, RequestShape DEF SetPassword
  <2>2. \A v \in Users : v # u => password'[v] = password[v]
    BY <1>8, <2>1 DEF SetPassword, TypeOK
  <2>3. UNCHANGED <<token, status, excuses>>
    BY <1>8 DEF SetPassword
  <2>4. /\ req'[h] = [kind |-> "revokeAll", user |-> u]
        /\ \A g \in Handlers : g # h => req'[g] = req[g]
    BY <1>8, ReqAfter DEF SetPassword, thenRevoke
  <2>5. \A v \in Users : revocationDue(v) => revocationDue(v)'
    BY <1>8, <2>3, <2>4 DEF SetPassword, revocationDue, excuses
  <2>6. \A v \in Users : v = u => revocationDue(v)'
    BY <2>4 DEF revocationDue
  <2>7. \A g \in Handlers : req'[g].kind = "store" => status'[req'[g].user] # "ABSENT"
    BY <2>3, <2>4 DEF SessionInv, RowsAreOwned
  <2> QED
    BY <2>2, <2>3, <2>5, <2>6, <2>7, SameRowsKeepInv DEF excuses
<1>9. QED
  BY <1>1, <1>2, <1>3, <1>4, <1>5, <1>6, <1>7, <1>8

\* The row that register and login write.
LEMMA StoredRow ==
  ASSUME TypeOK, NEW h \in Handlers, StoreToken(h), isFree(req[h].user, now)
  PROVE  LET u == req[h].user
             new == token'[u][now]
         IN  /\ u \in Users /\ now \in Seconds
             /\ new # NULL /\ ~new.revoked /\ new.root = now
             /\ new.password = req[h].password
             /\ \A v \in Users, t \in Seconds : ~(v = u /\ t = now) => token'[v][t] = token[v][t]
<1> DEFINE u == req[h].user
           row == [revoked |-> FALSE, replacedBy |-> NULL, root |-> now,
                   password |-> req[h].password]
<1>1. u \in Users /\ now \in Seconds /\ req[h].password \in Passwords
  BY RequestShape DEF StoreToken, TypeOK
<1>2. token' = [token EXCEPT ![u][now] = row]
  BY DEF StoreToken
<1>3. \A v \in Users, t \in Seconds :
        token'[v][t] = IF v = u /\ t = now THEN row ELSE token[v][t]
  BY <1>1, <1>2 DEF TypeOK
<1>4. row \in Row(now)
  BY <1>1, ClockIsNatural DEF Row, Seconds
<1>5. row # NULL
  <2> HIDE DEF row
  <2> QED
    BY <1>1, <1>4, RowIsRow
<1> QED
  BY <1>1, <1>3, <1>5

\* A second without a token is the root of none.
LEMMA FreeIsNoRoot ==
  ASSUME TypeOK, NEW u \in Users, isFree(u, now)
  PROVE  \A t \in Seconds : token[u][t] # NULL => t # now /\ token[u][t].root # now
<1> TAKE t \in Seconds
<1> HAVE token[u][t] # NULL
<1>1. t # now
  BY DEF isFree
<1>2. token[u][t].root <= t /\ t <= now /\ token[u][t].root \in Seconds /\ now \in Seconds
  BY RootIsSecond DEF TypeOK
<1> QED
  BY <1>1, <1>2, ClockIsNatural DEF Seconds

\* What both insertions do to requests and excuses.
LEMMA InsertionEnds ==
  ASSUME TypeOK, SessionInv, NEW h \in Handlers, StoreToken(h) \/ Rotate(h),
         isFree(req[h].user, now)
  PROVE  /\ UNCHANGED <<status, password, unfinished>>
         /\ overtaken' = overtaken \cup (IF isFreshRead(req[h]) THEN {} ELSE {req[h].user})
         /\ \A v \in Users : revocationDue(v) => revocationDue(v)'
         /\ \A g \in Handlers : req'[g].kind = "store" => status'[req'[g].user] # "ABSENT"
<1>1. /\ UNCHANGED <<status, password, unfinished>>
      /\ overtaken' = overtaken \cup (IF isFreshRead(req[h]) THEN {} ELSE {req[h].user})
      /\ Proceed(h, Idle) /\ req[h].kind # "revokeAll"
  BY DEF StoreToken, Rotate, noteOvertaken, Finish, account
<1>2. \A v \in Users : revocationDue(v) => revocationDue(v)'
  BY <1>1, DueStays
<1>3. \A g \in Handlers : req'[g].kind = "store" => status'[req'[g].user] # "ABSENT"
  BY <1>1, ReqAfter DEF SessionInv, RowsAreOwned, Idle
<1> QED
  BY <1>1, <1>2, <1>3

\* The end of register and login keeps the invariant.
LEMMA StoreInv ==
  ASSUME TypeOK, SessionInv, NEW h \in Handlers, StoreToken(h), isFree(req[h].user, now)
  PROVE  SessionInv'
<1>0. PICK u \in Users : u = req[h].user
  BY RequestShape DEF StoreToken
<1>1. /\ now \in Seconds /\ token[u][now] = NULL
      /\ token'[u][now] # NULL /\ ~token'[u][now].revoked /\ token'[u][now].root = now
      /\ token'[u][now].password = req[h].password
      /\ \A v \in Users, t \in Seconds : ~(v = u /\ t = now) => token'[v][t] = token[v][t]
  BY <1>0, StoredRow DEF isFree
<1>2. \A t \in Seconds : token[u][t] # NULL => t # now /\ token[u][t].root # now
  BY <1>0, FreeIsNoRoot
<1>3. /\ UNCHANGED <<status, password, unfinished>>
      /\ overtaken' = overtaken \cup (IF isFreshRead(req[h]) THEN {} ELSE {u})
      /\ \A v \in Users : revocationDue(v) => revocationDue(v)'
      /\ \A g \in Handlers : req'[g].kind = "store" => status'[req'[g].user] # "ABSENT"
  BY <1>0, InsertionEnds
<1>4. isFreshRead(req[h]) => status[u] # "SUSPENDED" /\ password[u] = req[h].password
  BY <1>0 DEF isFreshRead, maySignIn, StoreToken
<1>5. ~isFreshRead(req[h]) => revocationDue(u)'
  BY <1>3 DEF revocationDue
<1>6. OneLiveToken'
  <2> SUFFICES ASSUME NEW v \in Users \ overtaken', NEW s \in Seconds, NEW t \in Seconds,
                      isLive(v, s)', isLive(v, t)', token'[v][s].root = token'[v][t].root
               PROVE  s = t
    BY DEF OneLiveToken
  <2>1. CASE v = u /\ s = now
    BY <1>1, <1>2, <2>1 DEF isLive
  <2>2. CASE v = u /\ t = now
    BY <1>1, <1>2, <2>2 DEF isLive
  <2>3. CASE v # u \/ (s # now /\ t # now)
    BY <1>1, <1>3, <2>3 DEF SessionInv, OneLiveToken, isLive
  <2> QED
    BY <2>1, <2>2, <2>3
<1>7. PasswordEndsSessions'
  BY <1>1, <1>3, <1>4, <1>5 DEF SessionInv, PasswordEndsSessions, isLive
<1>8. SuspendedHasNoSession'
  BY <1>1, <1>3, <1>4, <1>5 DEF SessionInv, SuspendedHasNoSession, isLive
<1>9. \A v \in Users, s \in Seconds : token'[v][s] # NULL =>
        /\ status'[v] # "ABSENT"
        /\ LET r == token'[v][s].root IN token'[v][r] # NULL /\ token'[v][r].root = r
  <2> SUFFICES ASSUME NEW v \in Users, NEW s \in Seconds, token'[v][s] # NULL
               PROVE  /\ status'[v] # "ABSENT"
                      /\ LET r == token'[v][s].root
                         IN  token'[v][r] # NULL /\ token'[v][r].root = r
    OBVIOUS
  <2>1. CASE v = u /\ s = now
    BY <1>0, <1>1, <1>3, <2>1 DEF SessionInv, RowsAreOwned, StoreToken
  <2>2. CASE ~(v = u /\ s = now)
    <3>1. token'[v][s] = token[v][s]
      BY <1>1, <2>2
    <3>2. token[v][s].root \in Seconds /\ ~(v = u /\ token[v][s].root = now)
      BY <1>2, <3>1, RootIsSecond
    <3> QED
      BY <1>1, <1>3, <3>1, <3>2 DEF SessionInv, RowsAreOwned
  <2> QED
    BY <2>1, <2>2
<1> QED
  BY <1>3, <1>6, <1>7, <1>8, <1>9 DEF SessionInv, RowsAreOwned

\* So does a rotation.
LEMMA RotateInv ==
  ASSUME TypeOK, SessionInv, NEW h \in Handlers, Rotate(h), isFree(req[h].user, now)
  PROVE  SessionInv'
<1>0. PICK u \in Users, o \in Seconds : u = req[h].user /\ o = req[h].second
  BY RequestShape DEF Rotate
<1>1. /\ now \in Seconds /\ o < now /\ token[u][o] # NULL
      /\ token[u][now] = NULL /\ token'[u][now] # NULL /\ token'[u][o] # NULL
      /\ ~token'[u][now].revoked
      /\ token'[u][now].root = token[u][o].root
      /\ token'[u][now].password = token[u][o].password
      /\ token'[u][o].revoked
      /\ token'[u][o].root = token[u][o].root
  BY <1>0, RotatedRows DEF isFree
<1>2. \A v \in Users, t \in Seconds : ~(v = u /\ t \in {o, now}) => token'[v][t] = token[v][t]
  BY <1>0, RotatedRows
<1>3. /\ UNCHANGED <<status, password, unfinished>>
      /\ overtaken' = overtaken \cup (IF isFreshRead(req[h]) THEN {} ELSE {u})
      /\ \A v \in Users : revocationDue(v) => revocationDue(v)'
      /\ \A g \in Handlers : req'[g].kind = "store" => status'[req'[g].user] # "ABSENT"
  BY <1>0, InsertionEnds
<1>4. isFreshRead(req[h]) => isLive(u, o) /\ status[u] # "SUSPENDED"
  BY <1>0 DEF isFreshRead, maySignIn, Rotate
<1>5. ~isFreshRead(req[h]) => u \in overtaken' /\ revocationDue(u)'
  BY <1>3 DEF revocationDue
<1>6. \A v \in Users, s \in Seconds : isLive(v, s)' /\ ~(v = u /\ s = now) =>
        isLive(v, s) /\ token'[v][s] = token[v][s] /\ ~(v = u /\ s = o)
  BY <1>1, <1>2 DEF isLive
<1>7. OneLiveToken'
  <2> SUFFICES ASSUME NEW v \in Users \ overtaken', NEW s \in Seconds, NEW t \in Seconds,
                      isLive(v, s)', isLive(v, t)', token'[v][s].root = token'[v][t].root
               PROVE  s = t
    BY DEF OneLiveToken
  <2>1. v = u => \A q \in Seconds : isLive(u, q) /\ token[u][q].root = token[u][o].root => q = o
    BY <1>3, <1>4, <1>5 DEF SessionInv, OneLiveToken
  <2>2. CASE v = u /\ s = now
    BY <1>1, <1>6, <2>1, <2>2
  <2>3. CASE v = u /\ t = now
    BY <1>1, <1>6, <2>1, <2>3
  <2>4. CASE v # u \/ (s # now /\ t # now)
    BY <1>3, <1>6, <2>4 DEF SessionInv, OneLiveToken
  <2> QED
    BY <2>2, <2>3, <2>4
<1>8. PasswordEndsSessions'
  <2> SUFFICES ASSUME NEW v \in Users, NEW s \in Seconds, isLive(v, s)', ~revocationDue(v)'
               PROVE  token'[v][s].password = password'[v]
    BY DEF PasswordEndsSessions
  <2>1. CASE v = u /\ s = now
    BY <1>1, <1>3, <1>4, <1>5, <2>1 DEF SessionInv, PasswordEndsSessions
  <2>2. CASE ~(v = u /\ s = now)
    BY <1>3, <1>6, <2>2 DEF SessionInv, PasswordEndsSessions
  <2> QED
    BY <2>1, <2>2
<1>9. SuspendedHasNoSession'
  BY <1>3, <1>4, <1>5, <1>6 DEF SessionInv, SuspendedHasNoSession
<1>10. \A v \in Users, s \in Seconds : token'[v][s] # NULL =>
        /\ status'[v] # "ABSENT"
        /\ LET r == token'[v][s].root IN token'[v][r] # NULL /\ token'[v][r].root = r
  <2>1. \A v \in Users, s \in Seconds : token[v][s] # NULL =>
          token'[v][s] # NULL /\ token'[v][s].root = token[v][s].root
    BY <1>1, <1>2
  <2>2. \A v \in Users, s \in Seconds : token[v][s] # NULL =>
          /\ status'[v] # "ABSENT"
          /\ LET r == token[v][s].root IN token'[v][r] # NULL /\ token'[v][r].root = r
    BY <1>3, <2>1, RootIsSecond DEF SessionInv, RowsAreOwned
  <2>3. \A v \in Users, s \in Seconds : token'[v][s] # NULL =>
          \/ token[v][s] # NULL /\ token'[v][s].root = token[v][s].root
          \/ v = u /\ s = now
    BY <1>1, <1>2
  <2> QED
    BY <1>1, <2>2, <2>3
<1> QED
  BY <1>3, <1>7, <1>8, <1>9, <1>10 DEF SessionInv, RowsAreOwned

\* The queries that write rows, and the request's death.
LEMMA TokenInv ==
  ASSUME TypeOK, SessionInv, NEW h \in Handlers,
         \/ \E u \in Users, s \in Seconds : Logout(h, u, s)
         \/ StoreToken(h) \/ Rotate(h) \/ RevokeAll(h) \/ Abandon(h)
  PROVE  SessionInv'
<1> USE DEF account, excuses
<1>1. ASSUME NEW u \in Users, NEW s \in Seconds, Logout(h, u, s)
      PROVE  SessionInv'
  <2>1. UNCHANGED <<status, password, req, unfinished, overtaken>>
    BY <1>1 DEF Logout
  <2>2. \A v \in Users : revocationDue(v) => revocationDue(v)'
    BY <2>1 DEF revocationDue
  <2> QED
    BY <1>1, <2>1, <2>2, LogoutRevokes, RevokingKeepsInv
<1>2. CASE RevokeAll(h)
  <2> DEFINE u == req[h].user
  <2>1. Revoking /\ \A v \in Users, s \in Seconds : v = u => ~isLive(v, s)'
    BY <1>2, RevokeAllRevokes
  <2>2. /\ UNCHANGED <<status, password>> /\ Proceed(h, Idle)
        /\ unfinished' = unfinished \ {u} /\ overtaken' = overtaken \ {u}
    BY <1>2 DEF RevokeAll, Finish
  <2>3. \A v \in Users : v # u => /\ v \in overtaken => v \in overtaken'
                                  /\ revocationDue(v) => revocationDue(v)'
    BY <2>2, DueStays
  <2>4. \A g \in Handlers : req'[g] \in {req[g], Idle}
    BY <2>2, ReqAfter
  <2> QED
    BY <2>1, <2>2, <2>3, <2>4, RevokingKeepsInv
<1>3. CASE Abandon(h)
  <2>1. /\ UNCHANGED <<status, password, token, overtaken>> /\ Proceed(h, Idle)
        /\ unfinished' = unfinished \cup
             (IF req[h].kind = "revokeAll" THEN {req[h].user} ELSE {})
    BY <1>3 DEF Abandon, Finish
  <2>2. ASSUME NEW v \in Users, revocationDue(v) PROVE revocationDue(v)'
    <3>1. CASE req[h].kind = "revokeAll" /\ req[h].user = v
      BY <2>1, <3>1 DEF revocationDue
    <3>2. CASE ~(req[h].kind = "revokeAll" /\ req[h].user = v)
      BY <2>1, <2>2, <3>2, DueStays
    <3> QED
      BY <3>1, <3>2
  <2>3. \A g \in Handlers : req'[g].kind = "store" => status'[req'[g].user] # "ABSENT"
    BY <2>1, ReqAfter DEF SessionInv, RowsAreOwned, Idle
  <2> QED
    BY <2>1, <2>2, <2>3, SameRowsKeepInv
<1>4. CASE StoreToken(h) /\ ~isFree(req[h].user, now)
  BY <1>4, ReadKeepsInv DEF StoreToken, Finish, Idle
<1>5. CASE Rotate(h) /\ ~isFree(req[h].user, now)
  BY <1>5, ReadKeepsInv DEF Rotate, Finish, Idle
<1> QED
  BY <1>1, <1>2, <1>3, <1>4, <1>5, StoreInv, RotateInv

LEMMA NextInv == TypeOK /\ SessionInv /\ [Next]_vars => SessionInv'
<1> SUFFICES ASSUME TypeOK, SessionInv, [Next]_vars PROVE SessionInv'
  OBVIOUS
<1>1. CASE Tick \/ UNCHANGED vars
  <2>1. UNCHANGED <<status, password, token, req, unfinished, overtaken>>
    BY <1>1 DEF Tick, vars, account, excuses
  <2>2. \A u \in Users : revocationDue(u) => revocationDue(u)'
    BY <2>1 DEF revocationDue
  <2>3. \A h \in Handlers : req'[h].kind = "store" => status'[req'[h].user] # "ABSENT"
    BY <2>1 DEF SessionInv, RowsAreOwned
  <2> QED
    BY <2>1, <2>2, <2>3, SameRowsKeepInv
<1>2. CASE Next /\ ~Tick
  BY <1>2, AccountInv, TokenInv DEF Next
<1>3. QED
  BY <1>1, <1>2

\* IInv is inductive, however many requests overlap.
THEOREM SessionInvariant == Spec => []IInv
<1>1. Init => IInv
  BY InitTypeOK, InitInv DEF IInv, SessionInv
<1>2. IInv /\ [Next]_vars => IInv'
  BY NextTypeOK, NextInv DEF IInv, SessionInv
<1>3. QED
  BY <1>1, <1>2, PTL DEF Spec

(***************************************************************************)
(* A session has at most one working token, unless an overtaken request    *)
(* has given its user one.                                                 *)
(***************************************************************************)
THEOREM OneTokenWorks == Spec => []OneLiveToken
BY SessionInvariant, PTL DEF IInv

(***************************************************************************)
(* Sessions end with the password they were begun with.                    *)
(***************************************************************************)
THEOREM PasswordChangeEndsSessions == Spec => []PasswordEndsSessions
BY SessionInvariant, PTL DEF IInv

(***************************************************************************)
(* No session survives suspension.                                         *)
(***************************************************************************)
THEOREM SuspensionEndsSessions == Spec => []SuspendedHasNoSession
BY SessionInvariant, PTL DEF IInv

-----------------------------------------------------------------------------
(***************************************************************************)
(* Reads and overtaking.                                                   *)
(***************************************************************************)

LEMMA IdleIsFresh == Idle.kind = "idle" /\ isFreshRead(Idle)
BY DEF isFreshRead, Idle

\* What a request reads is true when it reads it.
LEMMA StepReadsHold == TypeOK /\ [Next]_vars => ReadsHold
<1> USE IdleIsFresh DEF account, excuses
<1> SUFFICES ASSUME TypeOK, [Next]_vars, NEW h \in Handlers, isFreshRead(req[h]),
                    req'[h] # req[h]
             PROVE  isFreshRead(req[h])'
  BY DEF ReadsHold
<1>0. ASSUME NEW g \in Handlers, NEW r, Proceed(g, r) PROVE g = h /\ req'[h] = r
  BY <1>0, ReqAfter
<1>1. ASSUME NEW g \in Handlers, NEW u \in Users, NEW p \in Passwords,
             Register(g, u, p) \/ Login(g, u, p)
      PROVE  isFreshRead(req[h])'
  BY <1>0, <1>1 DEF Register, Login, isFreshRead, maySignIn
<1>2. ASSUME NEW g \in Handlers, NEW u \in Users, NEW s \in Seconds, Refresh(g, u, s)
      PROVE  isFreshRead(req[h])'
  BY <1>0, <1>2 DEF Refresh, isReused, isFreshRead, isLive
<1>3. ASSUME NEW g \in Handlers, NEW u \in Users, NEW kind \in {"checkPassword", "revokeAll"},
             Authenticate(g, u, kind)
      PROVE  isFreshRead(req[h])'
  BY <1>0, <1>3 DEF Authenticate, isFreshRead
<1>4. ASSUME NEW g \in Handlers, NEW u \in Users, NEW s \in Statuses, UpdateUserStatus(g, u, s)
      PROVE  isFreshRead(req[h])'
  BY <1>0, <1>4 DEF UpdateUserStatus, thenRevoke, isFreshRead
<1>5. ASSUME NEW g \in Handlers, NEW p \in Passwords, NEW q \in Passwords, CheckPassword(g, p, q)
      PROVE  isFreshRead(req[h])'
  BY <1>0, <1>5 DEF CheckPassword, Finish, isFreshRead
<1>6. ASSUME NEW g \in Handlers, CreateUser(g) PROVE isFreshRead(req[h])'
  <2>1. CASE Finish(g)
    BY <1>0, <2>1 DEF Finish, isFreshRead
  <2>2. CASE /\ status' = [status EXCEPT ![req[g].user] = "ACTIVE"]
             /\ password' = [password EXCEPT ![req[g].user] = req[g].password]
             /\ Proceed(g, [req[g] EXCEPT !.kind = "store"])
    <3>1. g = h /\ req'[h] = [req[g] EXCEPT !.kind = "store"]
      BY <1>0, <2>2
    <3>2. /\ req'[h].kind = "store" /\ req'[h].user = req[g].user
          /\ req'[h].password = req[g].password /\ req[g].user \in Users
      BY <1>6, <3>1, RequestShape DEF CreateUser
    <3>3. status'[req[g].user] = "ACTIVE" /\ password'[req[g].user] = req[g].password
      BY <2>2, <3>2 DEF TypeOK
    <3> QED
      BY <3>2, <3>3 DEF isFreshRead, maySignIn
  <2> QED
    BY <1>6, <2>1, <2>2 DEF CreateUser
<1>7. ASSUME NEW g \in Handlers, ReadUser(g) PROVE isFreshRead(req[h])'
  <2>1. CASE Finish(g)
    BY <1>0, <2>1 DEF Finish, isFreshRead
  <2>2. CASE maySignIn(req[g].user) /\ Proceed(g, [req[g] EXCEPT !.kind = "rotate"])
    <3>1. g = h /\ req'[h] = [req[g] EXCEPT !.kind = "rotate"]
      BY <1>0, <2>2
    <3>2. /\ req'[h].kind = "rotate" /\ req'[h].user = req[h].user
          /\ req'[h].second = req[h].second
      BY <1>7, <3>1, RequestShape DEF ReadUser
    <3> QED
      BY <1>7, <2>2, <3>1, <3>2 DEF ReadUser, isFreshRead, maySignIn, isLive
  <2> QED
    BY <1>7, <2>1, <2>2 DEF ReadUser
<1>8. ASSUME NEW g \in Handlers,
             SetPassword(g) \/ StoreToken(g) \/ Rotate(g) \/ RevokeAll(g) \/ Abandon(g)
      PROVE  isFreshRead(req[h])'
  <2>1. CASE Finish(g)
    BY <1>0, <2>1 DEF Finish, isFreshRead
  <2>2. CASE SetPassword(g)
    <3>1. g = h /\ req'[h] = [kind |-> "revokeAll", user |-> req[g].user]
      BY <1>0, <2>2 DEF SetPassword, thenRevoke
    <3> QED
      BY <3>1 DEF isFreshRead
  <2> QED
    BY <1>8, <2>1, <2>2 DEF StoreToken, Rotate, RevokeAll, Abandon
<1> QED
  BY <1>1, <1>2, <1>3, <1>4, <1>5, <1>6, <1>7, <1>8 DEF Next, Tick, Logout, vars

\* The steps that write the tables, and what they leave alone.
LEMMA StepWrites ==
  ASSUME [Next]_vars
  PROVE  \/ UNCHANGED <<account, token, overtaken>>
         \/ /\ \E h \in Handlers :
                  \/ CreateUser(h) \/ SetPassword(h)
                  \/ \E u \in Users, s \in Statuses : UpdateUserStatus(h, u, s)
            /\ UNCHANGED <<token, overtaken>>
         \/ /\ \E h \in Handlers, u \in Users, s \in Seconds : Logout(h, u, s)
            /\ UNCHANGED overtaken
         \/ \E h \in Handlers : StoreToken(h) \/ Rotate(h) \/ RevokeAll(h)
<1> USE DEF account, excuses
<1>1. CASE UNCHANGED vars \/ Tick
  BY <1>1 DEF vars, Tick
<1>2. ASSUME NEW h \in Handlers, NEW u \in Users,
             \/ \E p \in Passwords : Register(h, u, p) \/ Login(h, u, p)
             \/ \E s \in Seconds : Refresh(h, u, s)
             \/ \E kind \in {"checkPassword", "revokeAll"} : Authenticate(h, u, kind)
      PROVE  UNCHANGED <<account, token, overtaken>>
  BY <1>2 DEF Register, Login, Refresh, Authenticate
<1>3. ASSUME NEW h \in Handlers,
             \/ \E p, q \in Passwords : CheckPassword(h, p, q)
             \/ ReadUser(h) \/ Abandon(h)
      PROVE  UNCHANGED <<account, token, overtaken>>
  BY <1>3 DEF CheckPassword, ReadUser, Abandon
<1>4. ASSUME NEW h \in Handlers,
             \/ CreateUser(h) \/ SetPassword(h)
             \/ \E u \in Users, s \in Statuses : UpdateUserStatus(h, u, s)
      PROVE  UNCHANGED <<token, overtaken>>
  BY <1>4 DEF CreateUser, SetPassword, UpdateUserStatus
<1>5. ASSUME NEW h \in Handlers, NEW u \in Users, NEW s \in Seconds, Logout(h, u, s)
      PROVE  UNCHANGED overtaken
  BY <1>5 DEF Logout
<1> QED
  BY <1>1, <1>2, <1>3, <1>4, <1>5 DEF Next

(***************************************************************************)
(* Requests that do not overlap are never overtaken: for them the          *)
(* exceptions of the other theorems are empty.                             *)
(***************************************************************************)
THEOREM OneIsNotOvertaken ==
  ASSUME OneAtATime
  PROVE  Spec => []NothingOvertaken
<1> USE DEF account, excuses
<1>1. Init => NothingOvertaken
  BY IdleIsFresh DEF Init, NothingOvertaken
<1>2. TypeOK /\ NothingOvertaken /\ [Next]_vars => NothingOvertaken'
  <2> SUFFICES ASSUME TypeOK, NothingOvertaken, [Next]_vars PROVE NothingOvertaken'
    OBVIOUS
  <2>1. overtaken' = {}
    <3>1. CASE \E g \in Handlers : StoreToken(g) \/ Rotate(g)
      BY <3>1 DEF NothingOvertaken, StoreToken, Rotate, noteOvertaken
    <3>2. CASE \E g \in Handlers : RevokeAll(g)
      BY <3>2 DEF NothingOvertaken, RevokeAll
    <3>3. CASE UNCHANGED overtaken
      BY <3>3 DEF NothingOvertaken
    <3>4. \/ UNCHANGED overtaken
          \/ \E g \in Handlers : StoreToken(g) \/ Rotate(g) \/ RevokeAll(g)
      BY StepWrites
    <3> QED
      BY <3>1, <3>2, <3>3, <3>4
  <2>2. ASSUME NEW h \in Handlers PROVE isFreshRead(req[h])'
    <3>1. CASE req'[h] # req[h]
      BY <3>1, StepReadsHold DEF NothingOvertaken, ReadsHold
    <3>2. CASE req'[h] = req[h] /\ UNCHANGED <<account, token>>
      BY <3>2 DEF NothingOvertaken, isFreshRead, maySignIn, isLive
    <3>3. CASE \E g \in Handlers, u \in Users, s \in Seconds : Logout(g, u, s)
      BY <3>3, IdleIsFresh DEF Logout, OneAtATime, isFreshRead
    <3>4. CASE \E g \in Handlers, u \in Users, s \in Statuses : UpdateUserStatus(g, u, s)
      <4>1. req[h] = Idle
        BY <3>4 DEF UpdateUserStatus, OneAtATime
      <4>2. req'[h].kind \in {"idle", "revokeAll"}
        BY <3>4, <4>1, IdleIsFresh, ReqAfter DEF UpdateUserStatus, thenRevoke, OneAtATime
      <4> QED
        BY <4>2 DEF isFreshRead
    <3>5. CASE \E g \in Handlers : StoreToken(g) \/ Rotate(g) \/ RevokeAll(g)
      <4>1. req'[h] = Idle
        BY <3>5, ReqAfter DEF StoreToken, Rotate, RevokeAll, Finish, OneAtATime
      <4> QED
        BY <4>1, IdleIsFresh DEF isFreshRead
    <3>6. CASE \E g \in Handlers : CreateUser(g) \/ SetPassword(g)
      <4>1. req'[h] # req[h] \/ UNCHANGED <<account, token>>
        <5>1. PICK g \in Handlers : CreateUser(g) \/ SetPassword(g)
          BY <3>6
        <5>2. g = h
          BY DEF OneAtATime
        <5>3. CASE SetPassword(h)
          BY <5>3, ReqAfter DEF SetPassword, thenRevoke
        <5>4. CASE CreateUser(h)
          <6>1. [req[h] EXCEPT !.kind = "store"].kind = "store"
            BY <5>4, RequestShape DEF CreateUser
          <6> QED
            BY <5>4, <6>1, ReqAfter DEF CreateUser
        <5> QED
          BY <5>1, <5>2, <5>3, <5>4
      <4> QED
        BY <3>1, <3>2, <4>1
    <3>7. UNCHANGED <<account, token>>
          \/ (\E g \in Handlers, u \in Users, s \in Seconds : Logout(g, u, s))
          \/ (\E g \in Handlers, u \in Users, s \in Statuses : UpdateUserStatus(g, u, s))
          \/ (\E g \in Handlers : StoreToken(g) \/ Rotate(g) \/ RevokeAll(g))
          \/ (\E g \in Handlers : CreateUser(g) \/ SetPassword(g))
      BY StepWrites
    <3> QED
      BY <3>1, <3>2, <3>3, <3>4, <3>5, <3>6, <3>7
  <2> QED
    BY <2>1, <2>2 DEF NothingOvertaken
<1> QED
  BY <1>1, <1>2, TypeCorrect, PTL DEF Spec

-----------------------------------------------------------------------------
\* A link is kept by a step that loses no row and no reference, and makes no revoked
\* row good.
LEMMA LinkStays ==
  ASSUME NEW u \in Users, NEW s \in Seconds, token[u][s] # NULL, isLinked(u, s),
         token'[u][s].root = token[u][s].root,
         \A t \in Seconds :
           token[u][t] # NULL /\ token[u][t].revoked /\ token[u][t].replacedBy = s =>
             /\ token'[u][t] # NULL /\ token'[u][t].revoked
             /\ token'[u][t].replacedBy = s
             /\ token'[u][t].root = token[u][t].root
  PROVE  isLinked(u, s)'
<1>1. CASE token[u][s].root = s
  BY <1>1 DEF isLinked
<1>2. CASE token[u][s].root # s
  <2>1. PICK t \in Seconds :
          /\ t < s /\ token[u][t] # NULL /\ token[u][t].replacedBy = s
          /\ token[u][t].root = token[u][s].root /\ token[u][t].revoked
    BY <1>2 DEF isLinked
  <2> QED
    BY <2>1 DEF isLinked
<1> QED
  BY <1>1, <1>2

\* The same, of the rows named by the user and the two seconds.
LEMMA RotatedTokens ==
  ASSUME TypeOK, NEW h \in Handlers, Rotate(h), isFree(req[h].user, now),
         NEW u, NEW o, u = req[h].user, o = req[h].second
  PROVE  /\ u \in Users /\ o \in Seconds /\ now \in Seconds /\ o < now
         /\ token[u][now] = NULL /\ token[u][o] # NULL
         /\ token'[u][now] # NULL /\ ~token'[u][now].revoked
         /\ token'[u][now].root = token[u][o].root
         /\ token'[u][o] # NULL /\ token'[u][o].revoked
         /\ token'[u][o].replacedBy = now /\ token'[u][o].root = token[u][o].root
         /\ \A v \in Users, t \in Seconds :
              ~(v = u /\ t \in {o, now}) => token'[v][t] = token[v][t]
<1>1. token[u][now] = NULL
  BY DEF isFree
<1>2. /\ u \in Users /\ o \in Seconds /\ now \in Seconds /\ o < now
      /\ token[u][o] # NULL
      /\ token'[u][now] # NULL /\ ~token'[u][now].revoked
      /\ token'[u][now].root = token[u][o].root
  BY RotatedRows
<1>3. /\ token'[u][o] # NULL /\ token'[u][o].revoked
      /\ token'[u][o].replacedBy = now /\ token'[u][o].root = token[u][o].root
  BY RotatedRows
<1>4. \A v \in Users, t \in Seconds :
        ~(v = u /\ t \in {o, now}) => token'[v][t] = token[v][t]
  BY RotatedRows
<1> QED
  BY <1>1, <1>2, <1>3, <1>4

\* The link of one token, over one step.
LEMMA StepKeepsLink ==
  ASSUME TypeOK, [Next]_vars, NEW u \in Users, NEW s \in Seconds,
         token'[u][s] # NULL, token[u][s] = NULL \/ isLinked(u, s)
  PROVE  \/ isLinked(u, s)'
         \/ \E h \in Handlers : /\ req[h].kind = "rotate" /\ req[h].user = u
                                /\ req'[h] # req[h] /\ ~isFreshRead(req[h])
<1>1. CASE Revoking
  <2>1. token[u][s] # NULL
    BY <1>1 DEF Revoking
  <2> QED
    BY <1>1, <2>1, LinkStays DEF Revoking
<1>2. CASE UNCHANGED token
  BY <1>2 DEF isLinked
<1>3. ASSUME NEW h \in Handlers, StoreToken(h), isFree(req[h].user, now)
      PROVE  isLinked(u, s)'
  <2>1. CASE u = req[h].user /\ s = now
    BY <1>3, <2>1, StoredRow DEF isLinked
  <2>2. CASE ~(u = req[h].user /\ s = now)
    <3>1. token'[u][s] = token[u][s]
      BY <1>3, <2>2, StoredRow
    <3>2. \A t \in Seconds : token[u][t] # NULL => token'[u][t] = token[u][t]
      BY <1>3, StoredRow DEF isFree
    <3> QED
      BY <3>1, <3>2, LinkStays
  <2> QED
    BY <2>1, <2>2
<1>4. ASSUME NEW h \in Handlers, Rotate(h), isFree(req[h].user, now),
             req[h].user = u => isFreshRead(req[h])
      PROVE  isLinked(u, s)'
  <2>1. CASE u # req[h].user
    <3>1. \A t \in Seconds : token'[u][t] = token[u][t]
      BY <1>4, <2>1, RotatedTokens
    <3> QED
      BY <3>1 DEF isLinked
  <2>2. CASE u = req[h].user
    <3>0. PICK o \in Seconds : o = req[h].second
      BY <1>4, RequestShape DEF Rotate
    <3>1. /\ now \in Seconds /\ o < now
          /\ token[u][now] = NULL /\ token'[u][now] # NULL /\ token'[u][o] # NULL
          /\ token'[u][now].root = token[u][o].root
          /\ token'[u][o].revoked /\ token'[u][o].replacedBy = now
          /\ token'[u][o].root = token[u][o].root
          /\ \A t \in Seconds : t \notin {o, now} => token'[u][t] = token[u][t]
      BY <1>4, <2>2, <3>0, RotatedTokens
    <3>2. token[u][o] # NULL /\ ~token[u][o].revoked
      BY <1>4, <2>2, <3>0 DEF Rotate, isFreshRead, isLive
    <3>3. CASE s = now
      BY <3>1, <3>3 DEF isLinked
    <3>4. CASE s # now
      BY <3>1, <3>2, <3>4, LinkStays
    <3> QED
      BY <3>3, <3>4
  <2> QED
    BY <2>1, <2>2
<1>5. ASSUME NEW h \in Handlers, Rotate(h), req[h].user = u, ~isFreshRead(req[h])
      PROVE  /\ req[h].kind = "rotate" /\ req[h].user = u
             /\ req'[h] # req[h] /\ ~isFreshRead(req[h])
  BY <1>5, ReqAfter, IdleIsFresh DEF Rotate, Finish
<1>6. ASSUME NEW h \in Handlers,
             RevokeAll(h) \/ \E v \in Users, t \in Seconds : Logout(h, v, t)
      PROVE  Revoking
  BY <1>6, RevokeAllRevokes, LogoutRevokes
<1>7. ASSUME NEW h \in Handlers, StoreToken(h) \/ Rotate(h), ~isFree(req[h].user, now)
      PROVE  UNCHANGED token
  BY <1>7 DEF StoreToken, Rotate
<1>8. \/ UNCHANGED token
      \/ \E h \in Handlers :
           \/ RevokeAll(h) \/ \E v \in Users, t \in Seconds : Logout(h, v, t)
           \/ StoreToken(h) \/ Rotate(h)
  BY StepWrites
<1> QED
  BY <1>1, <1>2, <1>3, <1>4, <1>5, <1>6, <1>7, <1>8

(***************************************************************************)
(* The tokens of a session form one chain from the login's token, but for  *)
(* overtaken rotations.                                                    *)
(***************************************************************************)
THEOREM TokensFormChains == Spec => ChainIsKept
<1> DEFINE Kept ==
      \A u \in Users, s \in Seconds :
        token'[u][s] # NULL /\ (token[u][s] = NULL \/ isLinked(u, s)) =>
          \/ isLinked(u, s)'
          \/ \E h \in Handlers :
               /\ req[h].kind = "rotate" /\ req[h].user = u /\ req'[h] # req[h]
               /\ ~isFreshRead(req[h])
<1>1. TypeOK /\ [Next]_vars => [Kept]_vars
  BY StepKeepsLink
<1> QED
  BY <1>1, TypeCorrect, PTL DEF Spec, ChainIsKept

-----------------------------------------------------------------------------
\* The abstract variables.
susp == {u \in Users : status[u] = "SUSPENDED"}
sess == [u \in Users |-> [s \in Seconds |-> sessionOf(u, s)]]

LEMMA Stutter ==
  ASSUME UNCHANGED <<status, token, overtaken>>
  PROVE  UNCHANGED Life!vars
BY DEF Life!vars, sessionOf, isLive

LEMMA InitLife == Init => Life!Init
BY DEF Init, Life!Init, sessionOf

\* createUser and updateUserStatus.
LEMMA StatusStep ==
  ASSUME TypeOK, NEW u \in Users, NEW x, status' = [status EXCEPT ![u] = x],
         UNCHANGED <<token, overtaken>>
  PROVE  Life!Next
<1>1. susp' \in {susp \cup {u}, susp \ {u}}
  BY DEF susp, TypeOK
<1>2. sess' = sess
  BY DEF sess, sessionOf, isLive
<1>3. Life!ChangeStatus(u)
  BY <1>1, <1>2 DEF Life!ChangeStatus, susp, sess
<1>4. QED
  BY <1>3 DEF Life!Next

\* A session that is neither begun nor revoked stays what it is.
LEMMA SameSession ==
  ASSUME NEW u \in Users, NEW s \in Seconds,
         token'[u][s] = NULL \/ token'[u][s].root # s <=>
           token[u][s] = NULL \/ token[u][s].root # s,
         \A t \in Seconds :
           isLive(u, t)' /\ token'[u][t].root = s <=> isLive(u, t) /\ token[u][t].root = s
  PROVE  sessionOf(u, s)' = sessionOf(u, s)
BY DEF sessionOf

\* logout ends the token's session, or does nothing to it.
LEMMA LogoutStep ==
  ASSUME TypeOK, SessionInv, NEW h \in Handlers, NEW u \in Users, NEW s \in Seconds,
         Logout(h, u, s)
  PROVE  Life!Next \/ UNCHANGED Life!vars
<1>0. PICK r \in Seconds : r = token[u][s].root
  BY RootIsSecond DEF Logout
<1>1. /\ token[u][s] # NULL /\ token'[u][s] # NULL /\ token'[u][s].root = r
      /\ ~isLive(u, s)'
      /\ \A v \in Users, t \in Seconds : ~(v = u /\ t = s) => token'[v][t] = token[v][t]
  <2>1. token[u][s] # NULL
    BY DEF Logout
  <2>2. /\ Revoking /\ token'[u][s].revoked
        /\ \A v \in Users, t \in Seconds : ~(v = u /\ t = s) => token'[v][t] = token[v][t]
    BY LogoutRevokes
  <2> QED
    BY <1>0, <2>1, <2>2 DEF Revoking, isLive
<1>2. \A v \in Users, t \in Seconds : ~(v = u /\ t = r) => sessionOf(v, t)' = sessionOf(v, t)
  BY <1>0, <1>1, SameSession DEF isLive
<1>3. sessionOf(u, r)' = sessionOf(u, r) \/ (sessionOf(u, r) = "live" /\ sessionOf(u, r)' = "ended")
  <2>1. token'[u][r] = NULL \/ token'[u][r].root # r <=> token[u][r] = NULL \/ token[u][r].root # r
    BY <1>0, <1>1
  <2>2. \A t \in Seconds : isLive(u, t)' => isLive(u, t) /\ token'[u][t].root = token[u][t].root
    BY <1>1 DEF isLive
  <2> QED
    BY <2>1, <2>2 DEF sessionOf
<1>4. susp' = susp /\ overtaken' = overtaken
  BY DEF susp, Logout, account, excuses
<1>5. CASE sessionOf(u, r)' = sessionOf(u, r)
  <2>1. sess' = sess
    BY <1>2, <1>5 DEF sess
  <2> QED
    BY <1>4, <2>1 DEF Life!vars, susp, sess
<1>6. CASE sessionOf(u, r) = "live" /\ sessionOf(u, r)' = "ended"
  <2>1. sess' = [sess EXCEPT ![u][r] = "ended"]
    BY <1>2, <1>6 DEF sess
  <2>2. sess[u][r] = "live"
    BY <1>6 DEF sess
  <2>3. Life!End(u, r)
    BY <1>4, <2>1, <2>2 DEF Life!End, susp, sess
  <2> QED
    BY <2>3 DEF Life!Next
<1> QED
  BY <1>3, <1>5, <1>6

\* logoutAll, reuse detection, suspension.
LEMMA RevokeAllStep ==
  ASSUME TypeOK, NEW h \in Handlers, RevokeAll(h)
  PROVE  Life!Next
<1>0. PICK u \in Users : u = req[h].user
  BY RevokeAllRevokes
<1>1. /\ Revoking
      /\ \A v \in Users \ {u} : token'[v] = token[v]
      /\ \A s \in Seconds : ~isLive(u, s)'
  BY <1>0, RevokeAllRevokes
<1>2. \A v \in Users, s \in Seconds : v # u => sessionOf(v, s)' = sessionOf(v, s)
  BY <1>1 DEF sessionOf, isLive
<1>3. \A s \in Seconds :
        sessionOf(u, s)' = IF sessionOf(u, s) = "live" THEN "ended" ELSE sessionOf(u, s)
  BY <1>1 DEF sessionOf, Revoking
<1>4. sess' = [sess EXCEPT
        ![u] = [s \in Seconds |-> IF @[s] = "live" THEN "ended" ELSE @[s]]]
  BY <1>2, <1>3 DEF sess
<1>5. susp' = susp /\ overtaken' = overtaken \ {u}
  BY <1>0 DEF susp, RevokeAll, account
<1>6. Life!EndAll(u)
  BY <1>4, <1>5 DEF Life!EndAll, susp, sess
<1> QED
  BY <1>6 DEF Life!Next

\* The end of register and login begins a session, or exposes the user.
LEMMA StoreStep ==
  ASSUME TypeOK, SessionInv, NEW h \in Handlers, StoreToken(h)
  PROVE  Life!Next \/ UNCHANGED Life!vars
<1>0. PICK u \in Users, n \in Seconds : u = req[h].user /\ n = now
  BY RequestShape DEF StoreToken, TypeOK
<1>1. CASE ~isFree(u, n)
  BY <1>0, <1>1, Stutter DEF StoreToken, account
<1>2. CASE isFree(u, n)
  <2>1. /\ token[u][n] = NULL
        /\ token'[u][n] # NULL /\ ~token'[u][n].revoked /\ token'[u][n].root = n
        /\ \A v \in Users, t \in Seconds : ~(v = u /\ t = n) => token'[v][t] = token[v][t]
    BY <1>0, <1>2, StoredRow DEF isFree
  <2>3. \A v \in Users, s \in Seconds :
          ~(v = u /\ s = n) => sessionOf(v, s)' = sessionOf(v, s)
    BY <2>1, SameSession DEF isLive
  <2>4. sessionOf(u, n)' = "live" /\ sessionOf(u, n) = "none"
    BY <2>1 DEF sessionOf, isLive
  <2>5. sess[u][n] = "none" /\ sess' = [sess EXCEPT ![u][n] = "live"]
    <3>1. sess[u][n] = "none"
      BY <2>4 DEF sess
    <3>2. sess' = [sess EXCEPT ![u][n] = "live"]
      BY <2>3, <2>4 DEF sess
    <3> QED
      BY <3>1, <3>2
  <2>6. /\ susp' = susp
        /\ overtaken' = overtaken \cup (IF isFreshRead(req[h]) THEN {} ELSE {u})
    BY <1>0, <1>2, InsertionEnds DEF susp
  <2>7. CASE isFreshRead(req[h])
    <3>1. u \notin susp
      BY <1>0, <2>7 DEF isFreshRead, maySignIn, StoreToken, susp
    <3>2. Life!Begin(u, n)
      BY <2>5, <2>6, <2>7, <3>1 DEF Life!Begin, susp, sess
    <3> QED
      BY <2>1, <3>2 DEF Life!Next
  <2>8. CASE ~isFreshRead(req[h])
    <3>1. Life!Expose(u, n)
      BY <2>5, <2>6, <2>8 DEF Life!Expose, susp, sess
    <3> QED
      BY <2>1, <3>1 DEF Life!Next
  <2> QED
    BY <2>7, <2>8
<1>3. QED
  BY <1>1, <1>2

\* A rotation hands its session on, or exposes the user.
LEMMA RotateStep ==
  ASSUME TypeOK, SessionInv, NEW h \in Handlers, Rotate(h)
  PROVE  Life!Next \/ UNCHANGED Life!vars
<1>0. PICK u \in Users, o \in Seconds, n \in Seconds :
        u = req[h].user /\ o = req[h].second /\ n = now
  BY RequestShape DEF Rotate, TypeOK
<1>1. CASE ~isFree(u, n)
  BY <1>0, <1>1, Stutter DEF Rotate, account
<1>2. CASE isFree(u, n)
  <2>1. /\ o < n /\ token[u][o] # NULL
        /\ token[u][n] = NULL /\ token'[u][n] # NULL /\ token'[u][o] # NULL
        /\ ~token'[u][n].revoked /\ token'[u][o].revoked
        /\ token'[u][n].root = token[u][o].root
        /\ token'[u][o].root = token[u][o].root
        /\ \A v \in Users, t \in Seconds :
             ~(v = u /\ t \in {o, n}) => token'[v][t] = token[v][t]
    BY <1>0, <1>2, RotatedTokens
  <2>2. PICK r \in Seconds : r = token[u][o].root
    BY <2>1, RootIsSecond
  <2>3. r # n /\ token[u][r] # NULL /\ token[u][r].root = r
    <3>1. token[u][r] # NULL /\ token[u][r].root = r
      BY <1>0, <2>1, <2>2 DEF SessionInv, RowsAreOwned
    <3>2. r # n
      BY <1>0, <1>2, <3>1, FreeIsNoRoot
    <3> QED
      BY <3>1, <3>2
  <2>4. \A v \in Users, s \in Seconds :
          ~(v = u /\ s = r) => sessionOf(v, s)' = sessionOf(v, s)
    <3> SUFFICES ASSUME NEW v \in Users, NEW s \in Seconds, ~(v = u /\ s = r)
                 PROVE  sessionOf(v, s)' = sessionOf(v, s)
      OBVIOUS
    <3>1. token'[v][s] = NULL \/ token'[v][s].root # s <=>
          token[v][s] = NULL \/ token[v][s].root # s
      BY <2>1, <2>2, <2>3
    <3>2. \A t \in Seconds :
            isLive(v, t)' /\ token'[v][t].root = s <=> isLive(v, t) /\ token[v][t].root = s
      BY <2>1, <2>2 DEF isLive
    <3> QED
      BY <3>1, <3>2, SameSession
  <2>5. sessionOf(u, r)' = "live"
    <3>1. isLive(u, n)' /\ token'[u][n].root = r
      BY <2>1, <2>2 DEF isLive
    <3>2. token'[u][r] # NULL /\ token'[u][r].root = r
      BY <2>1, <2>2, <2>3
    <3> QED
      BY <2>1, <3>1, <3>2 DEF sessionOf
  <2>6. sess' = [sess EXCEPT ![u][r] = "live"]
    BY <2>4, <2>5 DEF sess
  <2>7. /\ susp' = susp
        /\ overtaken' = overtaken \cup (IF isFreshRead(req[h]) THEN {} ELSE {u})
    BY <1>0, <1>2, InsertionEnds DEF susp
  <2>8. CASE isFreshRead(req[h])
    <3>1. isLive(u, o)
      BY <1>0, <2>8 DEF isFreshRead, Rotate
    <3>2. sessionOf(u, r) = "live"
      BY <2>2, <2>3, <3>1 DEF sessionOf
    <3>3. sess' = sess
      BY <2>4, <2>5, <3>2 DEF sess
    <3> QED
      BY <2>7, <2>8, <3>3 DEF Life!vars, susp, sess
  <2>9. CASE ~isFreshRead(req[h])
    <3>1. Life!Expose(u, r)
      BY <2>6, <2>7, <2>9 DEF Life!Expose, susp, sess
    <3> QED
      BY <3>1 DEF Life!Next
  <2> QED
    BY <2>8, <2>9
<1>3. QED
  BY <1>1, <1>2

\* Every step is a step of SessionLife or leaves its variables alone.
LEMMA StepSimulation ==
  ASSUME TypeOK, SessionInv, [Next]_vars
  PROVE  [Life!Next]_(Life!vars)
<1> USE DEF account, excuses
<1>1. CASE Tick \/ UNCHANGED vars
  BY <1>1, Stutter DEF Tick, vars
<1>2. ASSUME NEW h \in Handlers, NEW u \in Users, NEW s \in Statuses, UpdateUserStatus(h, u, s)
      PROVE  Life!Next
  BY <1>2, StatusStep DEF UpdateUserStatus
<1>3. ASSUME NEW h \in Handlers, CreateUser(h)
      PROVE  [Life!Next]_(Life!vars)
  <2>1. req[h].user \in Users
    BY <1>3, RequestShape DEF CreateUser
  <2>2. QED
    BY <1>3, <2>1, StatusStep, Stutter DEF CreateUser
<1>4. ASSUME NEW h \in Handlers,
             \/ \E u \in Users :
                  \/ \E p \in Passwords : Register(h, u, p) \/ Login(h, u, p)
                  \/ \E s \in Seconds : Refresh(h, u, s)
                  \/ \E kind \in {"checkPassword", "revokeAll"} : Authenticate(h, u, kind)
             \/ \E p, q \in Passwords : CheckPassword(h, p, q)
             \/ ReadUser(h) \/ SetPassword(h) \/ Abandon(h)
      PROVE  UNCHANGED Life!vars
  <2>1. UNCHANGED <<status, token, overtaken>>
    BY <1>4 DEF Register, Login, Refresh, Authenticate, CheckPassword, ReadUser, SetPassword,
       Abandon
  <2>2. QED
    BY <2>1, Stutter
<1>5. QED
  BY <1>1, <1>2, <1>3, <1>4, LogoutStep, RevokeAllStep, StoreStep, RotateStep DEF Next

(***************************************************************************)
(* However many requests overlap, the sessions implement SessionLife: a    *)
(* session begins once, in an account that is not suspended, and once      *)
(* ended is over, but for what an overtaken request inserts.               *)
(***************************************************************************)
THEOREM SessionsHaveOneLife == Spec => ImplementsSessionLife
<1>1. IInv => TypeOK /\ SessionInv
  BY DEF IInv, SessionInv
<1>2. IInv /\ [Next]_vars => [ReadsHold]_vars
  BY <1>1, StepReadsHold
<1>3. QED
  BY <1>1, <1>2, InitLife, SessionInvariant, StepSimulation, PTL
  DEF Spec, ImplementsSessionLife, Life!Spec
=============================================================================
