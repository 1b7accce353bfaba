----------------------------- MODULE CatalogProofs -----------------------------
(***************************************************************************)
(* Proofs about Catalog, for any number of overlapping requests: the cache *)
(* is true, but for the known causes of staleness, and the rating follows  *)
(* the reviews, but for recalculations that died or were overtaken.        *)
(***************************************************************************)
EXTENDS Catalog, TLAPS

IsTable(rows) ==
  /\ rows \in [Restaurants -> Row \cup {NULL}]
  /\ \A r \in Restaurants : row[r] # NULL => rows[r] # NULL

\* What the fields of a request are.
LEMMA RequestShape ==
  ASSUME NEW q \in Request
  PROVE  /\ q.kind = "idle" => q = Idle
         /\ q.kind = "set" =>
              /\ q.key \in Keys /\ q.found \in Entry
              /\ q = [kind |-> "set", key |-> q.key, found |-> q.found]
         /\ q.kind = "update" => q.restaurant \in Restaurants /\ q.data \in Row
         /\ q.kind = "scan" =>
              q.left \in SUBSET Keys /\ q = [kind |-> "scan", left |-> q.left]
         /\ q.kind = "aggregate" => q.restaurant \in Restaurants
         /\ q.kind = "writeRating" => q.restaurant \in Restaurants /\ q.found \in Rating
BY DEF Request, Idle

LEMMA AnswerIsEntry ==
  ASSUME NEW rows \in [Restaurants -> Row \cup {NULL}], NEW k
  PROVE  answer(rows, k) \in Entry
BY DEF answer, matches, Entry

LEMMA RatingIsRating ==
  ASSUME TypeOK, NEW r
  PROVE  ratingOf(r) \in Rating
BY DEF ratingOf, Rating, TypeOK

-----------------------------------------------------------------------------
LEMMA InitTypeOK == Init => TypeOK
<1> SUFFICES ASSUME Init PROVE TypeOK
  OBVIOUS
<1>1. /\ row \in [Restaurants -> Row \cup {NULL}]
      /\ reviews \in [Orders -> Stars \cup {NULL}]
      /\ cache \in [Keys -> Entry \cup {NULL}]
      /\ stale \subseteq Keys /\ owed \subseteq Restaurants
  BY DEF Init
<1>2. req \in [Requests -> Request]
  BY DEF Init, Request
<1>3. \A h \in Requests : isGrounded(req[h])
  BY DEF Init, isGrounded, Idle
<1>4. \A r \in Restaurants : <<"detail", r>> \in Keys /\ NULL # [rows |-> {}]
  BY NullIsNoData DEF Keys, Entry
<1>5. QED
  BY <1>1, <1>2, <1>3, <1>4 DEF Init, TypeOK

\* A step that commits no row.
LEMMA ReadTypeOK ==
  ASSUME TypeOK, NEW h \in Requests, NEW q \in Request, isGrounded(q), Proceed(h, q),
         UNCHANGED <<row, reviews>>, cache' \in [Keys -> Entry \cup {NULL}],
         \A r \in Restaurants : cache'[<<"detail", r>>] # [rows |-> {}],
         stale' \subseteq Keys, owed' \subseteq Restaurants, overtaken' \subseteq Requests
  PROVE  TypeOK'
<1>1. req' \in [Requests -> Request]
  BY DEF Proceed, TypeOK
<1>2. \A g \in Requests : isGrounded(req'[g])
  BY DEF Proceed, TypeOK
<1>3. \A g \in Requests : isGrounded(req[g])'
  BY <1>2 DEF isGrounded
<1>4. QED
  BY <1>1, <1>3 DEF TypeOK

\* A step that commits rows.
LEMMA CommitTypeOK ==
  ASSUME TypeOK, NEW h \in Requests, NEW rows, IsTable(rows), NEW q \in {Idle, toInvalidate},
         Commit(h, rows, q), UNCHANGED <<reviews, cache>>, stale' \subseteq Keys,
         owed' \subseteq Restaurants, overtaken' \subseteq Requests
  PROVE  TypeOK'
<1>1. q \in Request /\ q.kind \in {"idle", "invalidate"}
  BY DEF Request, Idle, toInvalidate
<1>2. req' \in [Requests -> Request]
  BY <1>1 DEF Commit, Proceed, TypeOK
<1>3. ASSUME NEW g \in Requests
      PROVE  isGrounded(req[g])'
  <2>1. CASE g = h
    BY <1>1, <2>1 DEF Commit, Proceed, TypeOK, isGrounded
  <2>2. CASE g # h
    <3>1. req'[g] = req[g] /\ req[g] \in Request /\ isGrounded(req[g])
      BY <2>2 DEF Commit, Proceed, TypeOK
    <3>2. req[g].kind \in {"update", "aggregate", "writeRating"} =>
            req[g].restaurant \in Restaurants
      BY <3>1, RequestShape
    <3>3. QED
      BY <3>1, <3>2 DEF isGrounded, Commit, IsTable
  <2>3. QED
    BY <2>1, <2>2
<1>4. \A o \in Orders : reviews'[o] # NULL => row'[restaurantOf[o]] # NULL
  BY OrdersHaveRestaurants DEF TypeOK, Commit, IsTable
<1>5. QED
  BY <1>2, <1>3, <1>4 DEF TypeOK, Commit, IsTable

LEMMA FetchTypeOK ==
  ASSUME TypeOK, NEW h \in Requests, NEW k \in Keys, Fetch(h, k),
         overtaken' \subseteq Requests
  PROVE  TypeOK'
<1> DEFINE q == [kind |-> "set", key |-> k, found |-> answer(row, k)]
<1>1. q \in Request
  BY AnswerIsEntry DEF Request, TypeOK
<1>2. isGrounded(q)
  BY DEF Fetch, mayBeCached, isGrounded
<1>3. QED
  BY <1>1, <1>2, ReadTypeOK DEF Fetch, TypeOK

LEMMA IdleIsRequest == Idle \in Request /\ isGrounded(Idle)
BY DEF Idle, Request, isGrounded

LEMMA SetEntryTypeOK ==
  ASSUME TypeOK, NEW h \in Requests, SetEntry(h),
         overtaken' \subseteq Requests
  PROVE  TypeOK'
<1>1. req[h].key \in Keys /\ req[h].found \in Entry
  BY RequestShape DEF SetEntry, TypeOK
<1>2. req[h].key[1] = "detail" => req[h].found # [rows |-> {}]
  BY DEF SetEntry, TypeOK, isGrounded
<1>3. cache' \in [Keys -> Entry \cup {NULL}] /\ stale' \subseteq Keys
  BY <1>1 DEF SetEntry, TypeOK
<1>4. \A r \in Restaurants : cache'[<<"detail", r>>] # [rows |-> {}]
  BY <1>1, <1>2 DEF SetEntry, TypeOK, Keys
<1>5. QED
  BY <1>3, <1>4, IdleIsRequest, ReadTypeOK DEF SetEntry, Finish, TypeOK

LEMMA ClearedIsNoAnswer ==
  ASSUME TypeOK, NEW k \in Keys, cache' = [cache EXCEPT ![k] = NULL]
  PROVE  \A r \in Restaurants : cache'[<<"detail", r>>] # [rows |-> {}]
<1> SUFFICES ASSUME NEW r \in Restaurants PROVE cache'[<<"detail", r>>] # [rows |-> {}]
  OBVIOUS
<1>1. NULL # [rows |-> {}]
  BY NullIsNoData DEF Entry
<1>2. <<"detail", r>> \in Keys /\ cache[<<"detail", r>>] # [rows |-> {}]
  BY DEF Keys, TypeOK
<1>3. QED
  BY <1>1, <1>2 DEF TypeOK

LEMMA ExpireTypeOK ==
  ASSUME TypeOK, NEW k \in Keys, Expire(k),
         overtaken' \subseteq Requests
  PROVE  TypeOK'
<1>1. cache' \in [Keys -> Entry \cup {NULL}] /\ stale' \subseteq Keys
  BY DEF Expire, TypeOK
<1>2. \A r \in Restaurants : cache'[<<"detail", r>>] # [rows |-> {}]
  BY ClearedIsNoAnswer DEF Expire
<1>3. \A g \in Requests : isGrounded(req[g])'
  BY DEF Expire, TypeOK, isGrounded
<1>4. QED
  BY <1>1, <1>2, <1>3 DEF Expire, TypeOK

LEMMA CreateRestaurantTypeOK ==
  ASSUME TypeOK, NEW h \in Requests, NEW r \in Restaurants, NEW profile \in Profiles,
         CreateRestaurant(h, r, profile),
         overtaken' \subseteq Requests
  PROVE  TypeOK'
<1> DEFINE data == [profile |-> profile, status |-> "PENDING_APPROVAL", rating |-> {}]
           rows == [row EXCEPT ![r] = data]
<1>1. data \in Row
  BY OrdersHaveRestaurants DEF Row, Rating
<1>2. IsTable(rows)
  BY <1>1, NullIsNoData DEF IsTable, TypeOK
<1>3. Commit(h, rows, Idle) /\ MakeStale(rows)
  BY DEF CreateRestaurant
<1>4. stale' \subseteq Keys
  BY <1>3 DEF MakeStale, TypeOK
<1>5. QED
  BY <1>2, <1>3, <1>4, CommitTypeOK DEF CreateRestaurant, TypeOK

LEMMA FindRestaurantTypeOK ==
  ASSUME TypeOK, NEW h \in Requests, NEW r \in Restaurants, NEW profile \in Profiles \cup {NULL},
         FindRestaurant(h, r, profile),
         overtaken' \subseteq Requests
  PROVE  TypeOK'
<1> DEFINE data == IF profile = NULL THEN row[r] ELSE [row[r] EXCEPT !.profile = profile]
           q == [kind |-> "update", restaurant |-> r, data |-> data]
<1>1. row[r] \in Row
  BY DEF FindRestaurant, TypeOK
<1>2. data \in Row
  BY <1>1 DEF Row
<1>3. q \in Request
  BY <1>2 DEF Request
<1>4. isGrounded(q)
  BY DEF isGrounded, FindRestaurant
<1>5. QED
  BY <1>3, <1>4, ReadTypeOK DEF FindRestaurant, TypeOK

LEMMA UpdateRestaurantTypeOK ==
  ASSUME TypeOK, NEW h \in Requests, UpdateRestaurant(h),
         overtaken' \subseteq Requests
  PROVE  TypeOK'
<1> DEFINE r == req[h].restaurant
           rows == [row EXCEPT ![r] = updated(r, req[h].data)]
<1>1. r \in Restaurants /\ row[r] \in Row /\ req[h].data \in Row
  BY RequestShape DEF UpdateRestaurant, TypeOK, isGrounded
<1>2. updated(r, req[h].data) \in Row
  BY <1>1 DEF updated, Row
<1>3. IsTable(rows)
  BY <1>1, <1>2, NullIsNoData DEF IsTable, TypeOK
<1>4. Commit(h, rows, toInvalidate)
  BY DEF UpdateRestaurant
<1>5. QED
  BY <1>3, <1>4, CommitTypeOK DEF UpdateRestaurant, TypeOK

LEMMA UpdateRestaurantStatusTypeOK ==
  ASSUME TypeOK, NEW h \in Requests, NEW r \in Restaurants, NEW status \in Statuses,
         UpdateRestaurantStatus(h, r, status),
         overtaken' \subseteq Requests
  PROVE  TypeOK'
<1> DEFINE rows == [row EXCEPT ![r].status = status]
<1>1. row[r] \in Row
  BY DEF UpdateRestaurantStatus, TypeOK
<1>2. [row[r] EXCEPT !.status = status] \in Row
  BY <1>1 DEF Row
<1>3. rows = [row EXCEPT ![r] = [row[r] EXCEPT !.status = status]]
  BY DEF TypeOK
<1>4. IsTable(rows)
  BY <1>2, <1>3, NullIsNoData DEF IsTable, TypeOK
<1>5. QED
  BY <1>4, CommitTypeOK DEF UpdateRestaurantStatus, TypeOK

LEMMA ScanTypeOK ==
  ASSUME TypeOK, NEW h \in Requests, StartScan(h) \/ ScanKey(h) \/ EndScan(h),
         overtaken' \subseteq Requests
  PROVE  TypeOK'
<1>1. CASE StartScan(h)
  <2> DEFINE q == [kind |-> "scan", left |-> {k \in Keys : cache[k] # NULL}]
  <2>1. q \in Request /\ isGrounded(q)
    BY DEF Request, isGrounded
  <2>2. QED
    BY <1>1, <2>1, ReadTypeOK DEF StartScan, TypeOK
<1>2. CASE ScanKey(h)
  <2>1. req[h].left \in SUBSET Keys /\ req[h] = [kind |-> "scan", left |-> req[h].left]
    BY <1>2, RequestShape DEF ScanKey, TypeOK
  <2>2. PICK k \in req[h].left :
          /\ cache' = [cache EXCEPT ![k] = NULL]
          /\ stale' = stale \ {k}
          /\ Proceed(h, [req[h] EXCEPT !.left = @ \ {k}])
    BY <1>2 DEF ScanKey
  <2> DEFINE q == [kind |-> "scan", left |-> req[h].left \ {k}]
  <2>3. [req[h] EXCEPT !.left = @ \ {k}] = q
    BY <2>1
  <2>4. q \in Request /\ isGrounded(q)
    BY <2>1 DEF Request, isGrounded
  <2>5. cache' \in [Keys -> Entry \cup {NULL}] /\ stale' \subseteq Keys
    BY <2>2 DEF TypeOK
  <2>6. \A r \in Restaurants : cache'[<<"detail", r>>] # [rows |-> {}]
    BY <2>1, <2>2, ClearedIsNoAnswer
  <2>7. QED
    BY <1>2, <2>2, <2>3, <2>4, <2>5, <2>6, ReadTypeOK DEF ScanKey, TypeOK
<1>3. CASE EndScan(h)
  BY <1>3, IdleIsRequest, ReadTypeOK DEF EndScan, Finish, TypeOK
<1>4. QED
  BY <1>1, <1>2, <1>3

LEMMA AbandonTypeOK ==
  ASSUME TypeOK, NEW h \in Requests, Abandon(h),
         overtaken' \subseteq Requests
  PROVE  TypeOK'
<1>1. due(h) \subseteq Keys
  BY RequestShape DEF due, TypeOK
<1>2. req[h].kind \in {"aggregate", "writeRating"} => req[h].restaurant \in Restaurants
  BY RequestShape DEF TypeOK
<1>3. stale' \subseteq Keys /\ owed' \subseteq Restaurants
  BY <1>1, <1>2 DEF Abandon, TypeOK
<1>4. QED
  BY <1>3, IdleIsRequest, ReadTypeOK DEF Abandon, Finish, TypeOK

LEMMA ReviewTypeOK ==
  ASSUME TypeOK, NEW h \in Requests, NEW o \in Orders, NEW review \in Stars \cup {NULL},
         row[restaurantOf[o]] # NULL, reviews' = [reviews EXCEPT ![o] = review],
         thenRecalculate(h, o), UNCHANGED <<row, cache, stale, owed>>,
         overtaken' \subseteq Requests
  PROVE  TypeOK'
<1> DEFINE q == [kind |-> "aggregate", restaurant |-> restaurantOf[o]]
<1>1. q \in Request
  BY OrdersHaveRestaurants DEF Request
<1>2. req' \in [Requests -> Request] /\ reviews' \in [Orders -> Stars \cup {NULL}]
  BY <1>1 DEF thenRecalculate, Proceed, TypeOK
<1>3. \A g \in Requests : isGrounded(req[g])'
  BY DEF thenRecalculate, Proceed, TypeOK, isGrounded
<1>4. QED
  BY <1>2, <1>3 DEF TypeOK

LEMMA RecalculationTypeOK ==
  ASSUME TypeOK, NEW h \in Requests, Aggregate(h) \/ WriteRating(h),
         overtaken' \subseteq Requests
  PROVE  TypeOK'
<1> DEFINE r == req[h].restaurant
<1>1. r \in Restaurants /\ row[r] \in Row /\ row[r] # NULL
  BY RequestShape DEF Aggregate, WriteRating, TypeOK, isGrounded
<1>2. CASE Aggregate(h)
  <2> DEFINE q == [kind |-> "writeRating", restaurant |-> r, found |-> ratingOf(r)]
  <2>1. q \in Request
    BY <1>1, RatingIsRating DEF Request
  <2>2. isGrounded(q)
    BY <1>1 DEF isGrounded
  <2>3. QED
    BY <1>2, <2>1, <2>2, ReadTypeOK DEF Aggregate, TypeOK
<1>3. CASE WriteRating(h)
  <2> DEFINE rows == [row EXCEPT ![r].rating = req[h].found]
  <2>1. req[h].found \in Rating
    BY <1>3, RequestShape DEF WriteRating, TypeOK
  <2>2. [row[r] EXCEPT !.rating = req[h].found] \in Row
    BY <1>1, <2>1 DEF Row
  <2>3. rows = [row EXCEPT ![r] = [row[r] EXCEPT !.rating = req[h].found]]
    BY DEF TypeOK
  <2>4. IsTable(rows)
    BY <2>2, <2>3, NullIsNoData DEF IsTable, TypeOK
  <2>5. Commit(h, rows, Idle) /\ stale' \subseteq Keys /\ owed' \subseteq Restaurants
    BY <1>1, <1>3 DEF WriteRating, MakeStale, TypeOK
  <2>6. QED
    BY <1>3, <2>4, <2>5, CommitTypeOK DEF WriteRating
<1>4. QED
  BY <1>2, <1>3

LEMMA NextTypeOK == TypeOK /\ [Next]_vars => TypeOK'
<1> SUFFICES ASSUME TypeOK, [Next]_vars PROVE TypeOK'
  OBVIOUS
<1> USE DEF Requests
<1>1. CASE UNCHANGED vars
  BY <1>1 DEF vars, TypeOK, isGrounded
<1>2. ASSUME NEW k \in Keys, Expire(k), UNCHANGED overtaken PROVE TypeOK'
  BY <1>2, ExpireTypeOK DEF TypeOK
<1>3. ASSUME NEW h \in Requests, noteOvertaken(h),
             \/ h \in Handlers /\ RestaurantStep(h)
             \/ h \in Reviewers /\ ReviewStep(h)
      PROVE  TypeOK'
  <2>1. overtaken' \subseteq Requests
    BY <1>3 DEF noteOvertaken
  <2>2. ASSUME NEW k \in Keys, Fetch(h, k) PROVE TypeOK'
    BY <1>3, <2>1, <2>2, FetchTypeOK
  <2>3. ASSUME NEW r \in Restaurants, NEW profile \in Profiles,
               CreateRestaurant(h, r, profile)
        PROVE  TypeOK'
    BY <1>3, <2>1, <2>3, CreateRestaurantTypeOK
  <2>4. ASSUME NEW r \in Restaurants, NEW profile \in Profiles \cup {NULL},
               FindRestaurant(h, r, profile)
        PROVE  TypeOK'
    BY <1>3, <2>1, <2>4, FindRestaurantTypeOK
  <2>5. ASSUME NEW r \in Restaurants, NEW status \in Statuses,
               UpdateRestaurantStatus(h, r, status)
        PROVE  TypeOK'
    BY <1>3, <2>1, <2>5, UpdateRestaurantStatusTypeOK
  <2>6. CASE SetEntry(h) \/ UpdateRestaurant(h) \/ StartScan(h) \/ ScanKey(h) \/ EndScan(h)
    BY <1>3, <2>1, <2>6, SetEntryTypeOK, UpdateRestaurantTypeOK, ScanTypeOK
  <2>7. ASSUME NEW o \in Orders, NEW stars \in Stars,
               CreateReview(h, o, stars) \/ UpdateReview(h, o, stars)
        PROVE  TypeOK'
    BY <1>3, <2>1, <2>7, ReviewTypeOK DEF CreateReview, UpdateReview, TypeOK
  <2>8. ASSUME NEW o \in Orders, DeleteReview(h, o) PROVE TypeOK'
    BY <1>3, <2>1, <2>8, ReviewTypeOK DEF DeleteReview, TypeOK
  <2>9. CASE Aggregate(h) \/ WriteRating(h)
    BY <1>3, <2>1, <2>9, RecalculationTypeOK
  <2>10. CASE Abandon(h)
    BY <1>3, <2>1, <2>10, AbandonTypeOK
  <2>11. QED
    BY <1>3, <2>2, <2>3, <2>4, <2>5, <2>6, <2>7, <2>8, <2>9, <2>10
       DEF RestaurantStep, ReviewStep
<1>4. QED
  BY <1>1, <1>2, <1>3 DEF Next

(***************************************************************************)
(* Rows, entries and requests keep their shapes, however many requests     *)
(* overlap.                                                                *)
(***************************************************************************)
THEOREM TypeCorrect == Spec => []TypeOK
BY InitTypeOK, NextTypeOK, PTL DEF Spec

-----------------------------------------------------------------------------
\* What a request reads: fresh when read, and marked when another's commit changes it.

LEMMA InitReads == Init => ReadsHold
BY DEF Init, ReadsHold, isFreshRead, Idle

LEMMA OwnReadIsFresh ==
  ASSUME TypeOK, NEW h \in Requests, RestaurantStep(h) \/ ReviewStep(h)
  PROVE  isFreshRead(req[h])'
<1>1. ASSUME NEW k \in Keys, Fetch(h, k)
      PROVE  isFreshRead(req[h])'
  <2>1. req'[h] = [kind |-> "set", key |-> k, found |-> answer(row, k)] /\ row' = row
    BY <1>1 DEF Fetch, Proceed, TypeOK
  <2>2. QED
    BY <2>1 DEF isFreshRead
<1>2. CASE Aggregate(h)
  <2> DEFINE r == req[h].restaurant
  <2>1. req'[h] = [kind |-> "writeRating", restaurant |-> r, found |-> ratingOf(r)]
    BY <1>2 DEF Aggregate, Proceed, TypeOK
  <2>2. \A s : ratingOf(s)' = ratingOf(s)
    BY <1>2 DEF Aggregate, ratingOf
  <2>3. QED
    BY <2>1, <2>2 DEF isFreshRead
<1>3. ASSUME req'[h].kind \notin {"set", "writeRating"}
      PROVE  isFreshRead(req[h])'
  BY <1>3 DEF isFreshRead
<1>4. CASE ScanKey(h)
  <2>1. req[h] = [kind |-> "scan", left |-> req[h].left]
    BY <1>4, RequestShape DEF ScanKey, TypeOK
  <2>2. req'[h].kind = "scan"
    BY <1>4, <2>1 DEF ScanKey, Proceed, TypeOK
  <2>3. QED
    BY <1>3, <2>2
<1>5. CASE \E r \in Restaurants, profile \in Profiles \cup {NULL} :
             CreateRestaurant(h, r, profile) \/ FindRestaurant(h, r, profile)
  BY <1>3, <1>5 DEF CreateRestaurant, FindRestaurant, Commit, Idle, Proceed, TypeOK
<1>6. CASE UpdateRestaurant(h) \/ \E r \in Restaurants, status \in Statuses :
             UpdateRestaurantStatus(h, r, status)
  BY <1>3, <1>6 DEF UpdateRestaurantStatus, UpdateRestaurant, Commit, toInvalidate,
     Proceed, TypeOK
<1>7. CASE SetEntry(h) \/ StartScan(h) \/ EndScan(h) \/ Abandon(h) \/ WriteRating(h)
  BY <1>3, <1>7 DEF SetEntry, StartScan, EndScan, Abandon, WriteRating, Commit, Finish, Idle,
     Proceed, TypeOK
<1>8. CASE \E o \in Orders : thenRecalculate(h, o)
  BY <1>3, <1>8 DEF thenRecalculate, Proceed, TypeOK
<1>9. QED
  BY <1>1, <1>2, <1>4, <1>5, <1>6, <1>7, <1>8
     DEF RestaurantStep, ReviewStep, CreateReview, UpdateReview, DeleteReview

LEMMA NextReads == TypeOK /\ ReadsHold /\ [Next]_vars => ReadsHold'
<1> SUFFICES ASSUME TypeOK, ReadsHold, [Next]_vars, NEW g \in Requests, g \notin overtaken'
             PROVE  isFreshRead(req[g])'
  BY DEF ReadsHold
<1>1. ASSUME UNCHANGED <<row, reviews, req, overtaken>>
      PROVE  isFreshRead(req[g])'
  <2>1. isFreshRead(req[g]) /\ \A s : ratingOf(s)' = ratingOf(s)
    BY <1>1 DEF ReadsHold, ratingOf
  <2>2. QED
    BY <1>1, <2>1 DEF isFreshRead
<1>2. ASSUME NEW h \in Requests, RestaurantStep(h) \/ ReviewStep(h), noteOvertaken(h)
      PROVE  isFreshRead(req[g])'
  <2>1. CASE g = h
    BY <1>2, <2>1, OwnReadIsFresh
  <2>2. CASE g # h
    BY <1>2, <2>2 DEF noteOvertaken
  <2>3. QED
    BY <2>1, <2>2
<1>3. QED
  BY <1>1, <1>2 DEF Next, vars, Expire, Requests

-----------------------------------------------------------------------------
\* A request that commits nothing and leaves the entries alone.
LEMMA ReadKeepsEntries ==
  ASSUME TypeOK, EntriesAreTrue, NEW h \in Requests, NEW q, Proceed(h, q),
         UNCHANGED <<row, cache>>, stale \subseteq stale',
         \A k \in due(h) : cache[k] # NULL => k \in stale' \/ k \in due(h)'
  PROVE  EntriesAreTrue'
<1>1. \A g \in Handlers : g # h => due(g)' = due(g)
  BY DEF Proceed, due, TypeOK, Requests
<1>2. QED
  BY <1>1 DEF EntriesAreTrue

\* A request that commits rows and then deletes the entries or makes them stale.
LEMMA CommitKeepsEntries ==
  ASSUME TypeOK, EntriesAreTrue, NEW h \in Requests, NEW rows, NEW q \in {Idle, toInvalidate},
         Commit(h, rows, q), UNCHANGED cache, req[h].kind \notin {"invalidate", "scan"},
         \/ q = toInvalidate /\ h \in Handlers /\ UNCHANGED stale
         \/ q = Idle /\ MakeStale(rows)
  PROVE  EntriesAreTrue'
<1>1. \A g \in Handlers : g # h => due(g)' = due(g)
  BY DEF Commit, Proceed, due, TypeOK, Requests
<1>2. due(h) = {}
  BY DEF due
<1> SUFFICES ASSUME NEW k \in Keys, cache'[k] # NULL, k \notin stale',
                    \A g \in Handlers : k \notin due(g)'
             PROVE  cache'[k] = answer(rows, k)
  BY DEF EntriesAreTrue, Commit
<1>3. CASE q = toInvalidate /\ h \in Handlers
  <2>1. due(h)' = Keys
    BY <1>3 DEF Commit, Proceed, toInvalidate, due, TypeOK
  <2>2. QED
    BY <1>3, <2>1
<1>4. CASE q = Idle /\ MakeStale(rows)
  <2>1. ~changes(rows, k) /\ k \notin stale /\ cache[k] # NULL
    BY <1>4 DEF MakeStale
  <2>2. \A g \in Handlers : k \notin due(g)
    BY <1>1, <1>2
  <2>3. QED
    BY <2>1, <2>2 DEF EntriesAreTrue, changes
<1>5. QED
  BY <1>3, <1>4

LEMMA SetEntryKeepsEntries ==
  ASSUME TypeOK, ReadsHold, EntriesAreTrue, NEW h \in Handlers, SetEntry(h)
  PROVE  EntriesAreTrue'
<1> DEFINE k == req[h].key
<1>1. CASE UNCHANGED <<cache, stale>>
  BY <1>1, ReadKeepsEntries DEF SetEntry, Finish, due, Requests
<1>2. CASE /\ cache' = [cache EXCEPT ![k] = req[h].found]
           /\ stale' = IF h \in overtaken THEN stale \cup {k} ELSE stale \ {k}
  <2>1. \A g \in Handlers : due(g)' = due(g)
    BY DEF SetEntry, Finish, Proceed, Idle, due, TypeOK, Requests
  <2> SUFFICES ASSUME NEW j \in Keys, cache'[j] # NULL, j \notin stale',
                      \A g \in Handlers : j \notin due(g)
               PROVE  cache'[j] = answer(row, j)
    BY <2>1 DEF EntriesAreTrue, SetEntry
  <2>2. CASE j = k
    <3>1. h \notin overtaken
      BY <1>2, <2>2
    <3>2. req[h].found = answer(row, k)
      BY <3>1 DEF SetEntry, ReadsHold, isFreshRead, Requests
    <3>3. QED
      BY <1>2, <2>2, <3>2 DEF TypeOK
  <2>3. CASE j # k
    <3>1. cache'[j] = cache[j] /\ j \notin stale
      BY <1>2, <2>3 DEF TypeOK
    <3>2. QED
      BY <3>1 DEF EntriesAreTrue
  <2>4. QED
    BY <2>2, <2>3
<1>3. QED
  BY <1>1, <1>2 DEF SetEntry

\* The entries that remain when one is deleted are as true as they were.
LEMMA ClearKeepsEntries ==
  ASSUME TypeOK, EntriesAreTrue, NEW k \in Keys, UNCHANGED row,
         cache' = [cache EXCEPT ![k] = NULL], stale' = stale \ {k},
         \A g \in Handlers : due(g) \subseteq due(g)' \cup {k}
  PROVE  EntriesAreTrue'
<1> SUFFICES ASSUME NEW j \in Keys, cache'[j] # NULL, j \notin stale',
                    \A g \in Handlers : j \notin due(g)'
             PROVE  cache'[j] = answer(row, j)
  BY DEF EntriesAreTrue
<1>1. j # k /\ cache'[j] = cache[j] /\ j \notin stale
  BY DEF TypeOK
<1>2. \A g \in Handlers : j \notin due(g)
  BY <1>1
<1>3. QED
  BY <1>1, <1>2 DEF EntriesAreTrue

LEMMA ScanKeepsEntries ==
  ASSUME TypeOK, EntriesAreTrue, NEW h \in Handlers,
         StartScan(h) \/ ScanKey(h) \/ EndScan(h)
  PROVE  EntriesAreTrue'
<1>1. CASE StartScan(h)
  <2> DEFINE q == [kind |-> "scan", left |-> {k \in Keys : cache[k] # NULL}]
  <2>1. Proceed(h, q) /\ due(h) = Keys
    BY <1>1 DEF StartScan, due
  <2>2. due(h)' = {k \in Keys : cache[k] # NULL}
    BY <2>1 DEF Proceed, due, TypeOK, Requests
  <2>3. QED
    BY <1>1, <2>1, <2>2, ReadKeepsEntries DEF StartScan, Requests
<1>2. CASE ScanKey(h)
  <2>1. req[h].left \in SUBSET Keys /\ req[h] = [kind |-> "scan", left |-> req[h].left]
    BY <1>2, RequestShape DEF ScanKey, TypeOK, Requests
  <2>2. PICK k \in req[h].left :
          /\ cache' = [cache EXCEPT ![k] = NULL]
          /\ stale' = stale \ {k}
          /\ Proceed(h, [req[h] EXCEPT !.left = @ \ {k}])
    BY <1>2 DEF ScanKey
  <2> DEFINE q == [kind |-> "scan", left |-> req[h].left \ {k}]
  <2>3. [req[h] EXCEPT !.left = @ \ {k}] = q
    BY <2>1
  <2>4. req' = [req EXCEPT ![h] = q] /\ req'[h] = q
    BY <2>2, <2>3 DEF Proceed, TypeOK, Requests
  <2>5. \A g \in Handlers : due(g) \subseteq due(g)' \cup {k}
    BY <2>1, <2>4 DEF due, TypeOK, Requests
  <2>6. QED
    BY <1>2, <2>1, <2>2, <2>5, ClearKeepsEntries DEF ScanKey
<1>3. CASE EndScan(h)
  BY <1>3, ReadKeepsEntries DEF EndScan, Finish, due, Requests
<1>4. QED
  BY <1>1, <1>2, <1>3

LEMMA ExpireKeepsEntries ==
  ASSUME TypeOK, EntriesAreTrue, NEW k \in Keys, Expire(k)
  PROVE  EntriesAreTrue'
<1>1. \A g \in Handlers : due(g)' = due(g)
  BY DEF Expire, due
<1>2. QED
  BY <1>1, ClearKeepsEntries DEF Expire

LEMMA RestaurantStepKeepsEntries ==
  ASSUME TypeOK, ReadsHold, EntriesAreTrue, NEW h \in Handlers, RestaurantStep(h)
  PROVE  EntriesAreTrue'
<1> USE DEF Requests
<1>1. ASSUME NEW k \in Keys, Fetch(h, k) PROVE EntriesAreTrue'
  BY <1>1, ReadKeepsEntries DEF Fetch, Idle, due
<1>2. ASSUME NEW r \in Restaurants, NEW profile \in Profiles, CreateRestaurant(h, r, profile)
      PROVE  EntriesAreTrue'
  BY <1>2, CommitKeepsEntries DEF CreateRestaurant, Idle
<1>3. ASSUME NEW r \in Restaurants, NEW profile \in Profiles \cup {NULL},
             FindRestaurant(h, r, profile)
      PROVE  EntriesAreTrue'
  BY <1>3, ReadKeepsEntries DEF FindRestaurant, Idle, due
<1>4. ASSUME NEW r \in Restaurants, NEW status \in Statuses,
             UpdateRestaurantStatus(h, r, status)
      PROVE  EntriesAreTrue'
  BY <1>4, CommitKeepsEntries DEF UpdateRestaurantStatus, Idle
<1>5. CASE UpdateRestaurant(h)
  BY <1>5, CommitKeepsEntries DEF UpdateRestaurant
<1>6. CASE Abandon(h)
  <2>1. due(h) \subseteq Keys
    BY RequestShape DEF due, TypeOK
  <2>2. QED
    BY <1>6, <2>1, ReadKeepsEntries DEF Abandon, Finish
<1>7. QED
  BY <1>1, <1>2, <1>3, <1>4, <1>5, <1>6, SetEntryKeepsEntries, ScanKeepsEntries
     DEF RestaurantStep

LEMMA ReviewStepKeepsEntries ==
  ASSUME TypeOK, EntriesAreTrue, NEW h \in Reviewers, ReviewStep(h)
  PROVE  EntriesAreTrue'
<1> USE DEF Requests
<1>1. ASSUME NEW o \in Orders, req[h] = Idle, thenRecalculate(h, o),
             UNCHANGED <<row, cache, stale>>
      PROVE  EntriesAreTrue'
  BY <1>1, ReadKeepsEntries DEF thenRecalculate, Idle, due
<1>2. CASE Aggregate(h)
  BY <1>2, ReadKeepsEntries DEF Aggregate, due
<1>3. CASE WriteRating(h)
  BY <1>3, CommitKeepsEntries DEF WriteRating
<1>4. CASE Abandon(h)
  <2>1. due(h) \subseteq Keys
    BY RequestShape DEF due, TypeOK
  <2>2. QED
    BY <1>4, <2>1, ReadKeepsEntries DEF Abandon, Finish
<1>5. QED
  BY <1>1, <1>2, <1>3, <1>4 DEF ReviewStep, CreateReview, UpdateReview, DeleteReview

LEMMA NextEntries == TypeOK /\ ReadsHold /\ EntriesAreTrue /\ [Next]_vars => EntriesAreTrue'
<1> SUFFICES ASSUME TypeOK, ReadsHold, EntriesAreTrue, [Next]_vars PROVE EntriesAreTrue'
  OBVIOUS
<1>1. CASE UNCHANGED vars
  <2>1. \A g \in Handlers : due(g)' = due(g)
    BY <1>1 DEF vars, due
  <2>2. QED
    BY <1>1, <2>1 DEF vars, EntriesAreTrue
<1>2. QED
  BY <1>1, ExpireKeepsEntries, RestaurantStepKeepsEntries, ReviewStepKeepsEntries DEF Next

(***************************************************************************)
(* However many requests overlap, an entry is true unless it is about to   *)
(* be deleted or stale for a known reason.                                 *)
(***************************************************************************)
THEOREM EntriesStayTrue == Spec => []EntriesAreTrue
<1>1. Init => EntriesAreTrue
  BY DEF Init, EntriesAreTrue
<1>2. QED
  BY <1>1, InitTypeOK, InitReads, NextTypeOK, NextReads, NextEntries, PTL DEF Spec

-----------------------------------------------------------------------------
\* The restaurant whose recalculation request h has under way.
Recalculates(h, r) ==
  req[h].kind \in {"aggregate", "writeRating"} /\ req[h].restaurant = r

\* A step after which every recalculation under way goes on or has been given up.
LEMMA OthersKeepRating ==
  ASSUME RatingFollowsReviews, UNCHANGED reviews, owed \subseteq owed',
         \A g \in Reviewers, r \in Restaurants :
           Recalculates(g, r) => Recalculates(g, r)' \/ r \in owed',
         \A r \in Restaurants : row'[r] # NULL =>
           \/ row[r] # NULL /\ row'[r].rating = row[r].rating
           \/ row'[r].rating = ratingOf(r)
  PROVE  RatingFollowsReviews'
<1>1. \A r : ratingOf(r)' = ratingOf(r)
  BY DEF ratingOf
<1> SUFFICES ASSUME NEW r \in Restaurants, row'[r] # NULL, r \notin owed',
                    \A g \in Reviewers : ~Recalculates(g, r)'
             PROVE  row'[r].rating = ratingOf(r)
  BY <1>1 DEF RatingFollowsReviews, Recalculates
<1>2. CASE row'[r].rating = ratingOf(r)
  BY <1>2
<1>3. CASE row[r] # NULL /\ row'[r].rating = row[r].rating
  <2>1. r \notin owed /\ \A g \in Reviewers : ~Recalculates(g, r)
    OBVIOUS
  <2>2. QED
    BY <1>3, <2>1 DEF RatingFollowsReviews, Recalculates
<1>4. QED
  BY <1>2, <1>3

\* A restaurant request, which may commit rows.
LEMMA HandlerKeepsRating ==
  ASSUME TypeOK, RatingFollowsReviews, NEW h \in Handlers, NEW q, Proceed(h, q),
         UNCHANGED <<reviews, owed>>,
         \A r \in Restaurants : row'[r] # NULL =>
           \/ row[r] # NULL /\ row'[r].rating = row[r].rating
           \/ row'[r].rating = ratingOf(r)
  PROVE  RatingFollowsReviews'
<1>1. \A g \in Reviewers : req'[g] = req[g]
  BY OrdersHaveRestaurants DEF Proceed, TypeOK, Requests
<1>2. \A g \in Reviewers, r \in Restaurants : Recalculates(g, r) => Recalculates(g, r)'
  BY <1>1 DEF Recalculates
<1>3. QED
  BY <1>2, OthersKeepRating

LEMMA CreateRestaurantRating ==
  ASSUME TypeOK, RatingFollowsReviews, NEW h \in Handlers, NEW r \in Restaurants,
         NEW profile \in Profiles, CreateRestaurant(h, r, profile)
  PROVE  RatingFollowsReviews'
<1> DEFINE data == [profile |-> profile, status |-> "PENDING_APPROVAL", rating |-> {}]
           rows == [row EXCEPT ![r] = data]
<1>1. ratingOf(r) = {}
  BY DEF CreateRestaurant, TypeOK, ratingOf
<1>2. row' = rows /\ Proceed(h, Idle) /\ UNCHANGED <<reviews, owed>>
  BY DEF CreateRestaurant, Commit
<1>3. \A s \in Restaurants : row'[s] = IF s = r THEN data ELSE row[s]
  BY <1>2 DEF TypeOK
<1>4. QED
  BY <1>1, <1>2, <1>3, HandlerKeepsRating

LEMMA UpdateRestaurantRating ==
  ASSUME TypeOK, RatingFollowsReviews, NEW h \in Handlers, UpdateRestaurant(h)
  PROVE  RatingFollowsReviews'
<1> DEFINE r == req[h].restaurant
<1>1. r \in Restaurants /\ row[r] \in Row /\ row[r] # NULL
  BY RequestShape DEF UpdateRestaurant, TypeOK, isGrounded, Requests
<1>2. updated(r, req[h].data).rating = row[r].rating
  BY <1>1 DEF updated, Row
<1>3. /\ row' = [row EXCEPT ![r] = updated(r, req[h].data)]
      /\ Proceed(h, toInvalidate) /\ UNCHANGED <<reviews, owed>>
  BY DEF UpdateRestaurant, Commit
<1>4. \A s \in Restaurants : row'[s] # NULL =>
        row[s] # NULL /\ row'[s].rating = row[s].rating
  BY <1>1, <1>2, <1>3 DEF TypeOK
<1>5. QED
  BY <1>3, <1>4, HandlerKeepsRating

LEMMA UpdateRestaurantStatusRating ==
  ASSUME TypeOK, RatingFollowsReviews, NEW h \in Handlers, NEW r \in Restaurants,
         NEW status \in Statuses, UpdateRestaurantStatus(h, r, status)
  PROVE  RatingFollowsReviews'
<1>1. row[r] \in Row /\ row[r] # NULL
  BY DEF UpdateRestaurantStatus, TypeOK
<1>2. [row[r] EXCEPT !.status = status].rating = row[r].rating
  BY <1>1 DEF Row
<1>3. /\ row' = [row EXCEPT ![r].status = status]
      /\ Proceed(h, toInvalidate) /\ UNCHANGED <<reviews, owed>>
  BY DEF UpdateRestaurantStatus, Commit
<1>4. \A s \in Restaurants : row'[s] # NULL =>
        row[s] # NULL /\ row'[s].rating = row[s].rating
  BY <1>1, <1>2, <1>3 DEF TypeOK
<1>5. QED
  BY <1>3, <1>4, HandlerKeepsRating

LEMMA AbandonRating ==
  ASSUME TypeOK, RatingFollowsReviews, NEW h \in Requests, Abandon(h)
  PROVE  RatingFollowsReviews'
<1>1. \A g \in Requests : g # h => req'[g] = req[g]
  BY DEF Abandon, Finish, Proceed, TypeOK
<1>2. \A r \in Restaurants : Recalculates(h, r) => r \in owed'
  BY DEF Abandon, Recalculates
<1>3. ASSUME NEW g \in Reviewers, NEW r \in Restaurants, Recalculates(g, r)
      PROVE  Recalculates(g, r)' \/ r \in owed'
  BY <1>1, <1>2, <1>3 DEF Recalculates, Requests
<1>4. row' = row /\ reviews' = reviews /\ owed \subseteq owed'
  BY DEF Abandon
<1>5. QED
  BY <1>3, <1>4, OthersKeepRating

LEMMA RestaurantStepRating ==
  ASSUME TypeOK, RatingFollowsReviews, NEW h \in Handlers, RestaurantStep(h)
  PROVE  RatingFollowsReviews'
<1>1. CASE \/ \E k \in Keys : Fetch(h, k)
           \/ \E r \in Restaurants, profile \in Profiles \cup {NULL} :
                FindRestaurant(h, r, profile)
  BY <1>1, HandlerKeepsRating DEF Fetch, FindRestaurant
<1>2. CASE SetEntry(h) \/ StartScan(h) \/ ScanKey(h) \/ EndScan(h)
  BY <1>2, HandlerKeepsRating DEF SetEntry, StartScan, ScanKey, EndScan, Finish
<1>3. QED
  BY <1>1, <1>2, CreateRestaurantRating, UpdateRestaurantRating,
     UpdateRestaurantStatusRating, AbandonRating DEF RestaurantStep, Requests

\* A review changes the sum of its restaurant only, whose recalculation follows.
LEMMA ReviewKeepsRating ==
  ASSUME TypeOK, RatingFollowsReviews, NEW h \in Reviewers, NEW o \in Orders, NEW review,
         req[h] = Idle, reviews' = [reviews EXCEPT ![o] = review], thenRecalculate(h, o),
         UNCHANGED <<row, owed>>
  PROVE  RatingFollowsReviews'
<1>1. /\ req'[h] = [kind |-> "aggregate", restaurant |-> restaurantOf[o]]
      /\ \A g \in Reviewers : g # h => req'[g] = req[g]
  BY DEF thenRecalculate, Proceed, TypeOK, Requests
<1>2. ASSUME NEW r, r # restaurantOf[o]
      PROVE  ratingOf(r)' = ratingOf(r)
  BY <1>2 DEF ratingOf, TypeOK
<1> SUFFICES ASSUME NEW r \in Restaurants, row[r] # NULL, r \notin owed,
                    \A g \in Reviewers : ~Recalculates(g, r)'
             PROVE  row[r].rating = ratingOf(r)'
  BY DEF RatingFollowsReviews, Recalculates
<1>3. r # restaurantOf[o]
  BY <1>1 DEF Recalculates
<1>4. \A g \in Reviewers : ~Recalculates(g, r)
  BY <1>1 DEF Recalculates, Idle
<1>5. QED
  BY <1>2, <1>3, <1>4 DEF RatingFollowsReviews, Recalculates

LEMMA AggregateRating ==
  ASSUME TypeOK, RatingFollowsReviews, NEW h \in Reviewers, Aggregate(h)
  PROVE  RatingFollowsReviews'
<1> DEFINE r == req[h].restaurant
<1>1. /\ req'[h] = [kind |-> "writeRating", restaurant |-> r, found |-> ratingOf(r)]
      /\ \A g \in Reviewers : g # h => req'[g] = req[g]
  BY DEF Aggregate, Proceed, TypeOK, Requests
<1>2. \A g \in Reviewers, s \in Restaurants : Recalculates(g, s) => Recalculates(g, s)'
  BY <1>1 DEF Recalculates
<1>3. QED
  BY <1>2, OthersKeepRating DEF Aggregate

\* The sum written is right, or its request has been overtaken.
LEMMA WriteRatingRating ==
  ASSUME TypeOK, ReadsHold, RatingFollowsReviews, NEW h \in Reviewers, WriteRating(h)
  PROVE  RatingFollowsReviews'
<1> DEFINE r == req[h].restaurant
           rows == [row EXCEPT ![r].rating = req[h].found]
<1>1. r \in Restaurants /\ row[r] \in Row
  BY RequestShape DEF WriteRating, TypeOK, isGrounded, Requests
<1>2. h \in overtaken \/ req[h].found = ratingOf(r)
  BY DEF WriteRating, ReadsHold, isFreshRead, Requests
<1>3. /\ row' = rows /\ \A g \in Reviewers : g # h => req'[g] = req[g]
      /\ owed' = IF h \in overtaken THEN owed \cup {r} ELSE owed \ {r}
  BY DEF WriteRating, Commit, Proceed, TypeOK, Requests
<1>4. \A s : ratingOf(s)' = ratingOf(s)
  BY DEF WriteRating, ratingOf
<1> SUFFICES ASSUME NEW s \in Restaurants, row'[s] # NULL, s \notin owed',
                    \A g \in Reviewers : ~Recalculates(g, s)'
             PROVE  row'[s].rating = ratingOf(s)
  BY <1>4 DEF RatingFollowsReviews, Recalculates
<1>5. CASE s = r
  <2>1. [row[r] EXCEPT !.rating = req[h].found].rating = req[h].found
    BY <1>1 DEF Row
  <2>2. row'[r] = [row[r] EXCEPT !.rating = req[h].found]
    BY <1>1, <1>3 DEF TypeOK
  <2>3. h \notin overtaken
    BY <1>3, <1>5
  <2>4. QED
    BY <1>2, <1>5, <2>1, <2>2, <2>3
<1>6. CASE s # r
  <2>1. row'[s] = row[s] /\ s \notin owed
    BY <1>3, <1>6 DEF TypeOK
  <2>2. \A g \in Reviewers : ~Recalculates(g, s)
    BY <1>3, <1>6 DEF Recalculates
  <2>3. QED
    BY <2>1, <2>2 DEF RatingFollowsReviews, Recalculates
<1>7. QED
  BY <1>5, <1>6

LEMMA NextRating ==
  TypeOK /\ ReadsHold /\ RatingFollowsReviews /\ [Next]_vars => RatingFollowsReviews'
<1> SUFFICES ASSUME TypeOK, ReadsHold, RatingFollowsReviews, [Next]_vars
             PROVE  RatingFollowsReviews'
  OBVIOUS
<1>1. ASSUME UNCHANGED <<row, reviews, owed, req>>
      PROVE  RatingFollowsReviews'
  <2>1. \A r : ratingOf(r)' = ratingOf(r)
    BY <1>1 DEF ratingOf
  <2>2. QED
    BY <1>1, <2>1 DEF RatingFollowsReviews
<1>2. ASSUME NEW h \in Reviewers, ReviewStep(h)
      PROVE  RatingFollowsReviews'
  BY <1>2, ReviewKeepsRating, AggregateRating, WriteRatingRating, AbandonRating
     DEF ReviewStep, CreateReview, UpdateReview, DeleteReview, Requests
<1>3. QED
  BY <1>1, <1>2, RestaurantStepRating DEF Next, vars, Expire

(***************************************************************************)
(* However many requests overlap, the rating follows the reviews unless a  *)
(* recalculation is under way, died, or was overtaken.                     *)
(***************************************************************************)
THEOREM RatingStaysRight == Spec => []RatingFollowsReviews
<1>1. Init => RatingFollowsReviews
  <2> SUFFICES ASSUME Init, NEW r \in Restaurants, row[r] # NULL PROVE FALSE
    BY DEF RatingFollowsReviews
  <2>1. QED
    BY DEF Init
<1>2. QED
  BY <1>1, InitTypeOK, InitReads, NextTypeOK, NextReads, NextRating, PTL DEF Spec

-----------------------------------------------------------------------------
OneReviewer == \A g, h \in Reviewers : g = h

\* A review request goes by no answer, and restaurant requests write no reviews.
NoSumIsOld == \A g \in Reviewers : g \notin overtaken /\ req[g].kind # "set"

LEMMA ReviewStepIsNoFetch ==
  ASSUME TypeOK, NEW h \in Reviewers, ReviewStep(h)
  PROVE  req'[h].kind # "set"
BY DEF ReviewStep, CreateReview, UpdateReview, DeleteReview, thenRecalculate, Aggregate,
   WriteRating, Commit, Abandon, Finish, Idle, Proceed, TypeOK, Requests

LEMMA RestaurantStepReviewsNothing ==
  ASSUME TypeOK, NEW h \in Handlers, RestaurantStep(h)
  PROVE  UNCHANGED reviews /\ \E q : Proceed(h, q)
BY DEF RestaurantStep, Fetch, CreateRestaurant, FindRestaurant, UpdateRestaurantStatus,
   SetEntry, UpdateRestaurant, StartScan, ScanKey, EndScan, Abandon, Commit, Finish

LEMMA NextNoSumIsOld ==
  ASSUME OneReviewer, TypeOK, ReadsHold, NoSumIsOld, [Next]_vars
  PROVE  NoSumIsOld'
<1>1. CASE UNCHANGED <<req, overtaken>>
  BY <1>1 DEF NoSumIsOld
<1>2. ASSUME NEW h \in Reviewers, ReviewStep(h), noteOvertaken(h)
      PROVE  NoSumIsOld'
  BY <1>2, ReviewStepIsNoFetch DEF OneReviewer, NoSumIsOld, noteOvertaken
<1>3. ASSUME NEW h \in Handlers, RestaurantStep(h), noteOvertaken(h)
      PROVE  NoSumIsOld'
  <2>1. \A r : ratingOf(r)' = ratingOf(r)
    BY <1>3, RestaurantStepReviewsNothing DEF ratingOf
  <2>2. ASSUME NEW g \in Reviewers
        PROVE  g \notin overtaken' /\ req'[g].kind # "set"
    <3>1. req'[g] = req[g] /\ req[g].kind # "set"
      BY <1>3, RestaurantStepReviewsNothing, OrdersHaveRestaurants
         DEF Proceed, TypeOK, Requests, NoSumIsOld
    <3>2. isFreshRead(req[g])
      BY DEF ReadsHold, NoSumIsOld, Requests
    <3>3. isFreshRead(req[g])'
      BY <2>1, <3>1, <3>2 DEF isFreshRead
    <3>4. QED
      BY <1>3, <3>1, <3>3 DEF noteOvertaken, NoSumIsOld
  <2>3. QED
    BY <2>2 DEF NoSumIsOld
<1>4. QED
  BY <1>1, <1>2, <1>3 DEF Next, vars, Expire

(***************************************************************************)
(* While review requests do not overlap, no sum is old when it is written, *)
(* whatever restaurant requests do meanwhile.                              *)
(***************************************************************************)
THEOREM OneReviewerIsNotOvertaken ==
  OneReviewer => (Spec => [](overtaken \cap Reviewers = {}))
<1> SUFFICES ASSUME OneReviewer PROVE Spec => [](overtaken \cap Reviewers = {})
  OBVIOUS
<1>1. Init => NoSumIsOld
  BY DEF Init, NoSumIsOld, Idle, Requests
<1>2. TypeOK /\ ReadsHold /\ NoSumIsOld /\ [Next]_vars => NoSumIsOld'
  BY NextNoSumIsOld
<1>3. NoSumIsOld => overtaken \cap Reviewers = {}
  BY DEF NoSumIsOld
<1>4. QED
  BY <1>1, <1>2, <1>3, InitTypeOK, InitReads, NextTypeOK, NextReads, PTL DEF Spec
=============================================================================
