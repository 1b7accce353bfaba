-------------------------------- MODULE Catalog --------------------------------
(***************************************************************************)
(* restaurants.service.ts and reviews.service.ts over cache.manager.ts:    *)
(* restaurant rows, the reviews their rating sums up, and the Redis        *)
(* entries through which both are read.  One action per query or Redis     *)
(* command; any Redis command may fail, which the code ignores.            *)
(***************************************************************************)
EXTENDS FiniteSets

CONSTANTS
  Restaurants,
  Profiles,      \* what an owner edits of a restaurant, as a whole
  Statuses,
  Queries,       \* the statuses that lists are asked for
  Orders,        \* delivered orders; for any other a review is refused
  restaurantOf,  \* Order.restaurantId
  Stars,
  Handlers,      \* restaurant requests in flight at the same time
  Reviewers,     \* and review requests
  NULL

ASSUME OrdersHaveRestaurants ==
  /\ restaurantOf \in [Orders -> Restaurants]
  /\ "PENDING_APPROVAL" \in Statuses /\ Queries \subseteq Statuses
  /\ Handlers \cap Reviewers = {}

VARIABLES
  row,        \* Restaurant rows
  reviews,    \* Review rows, whose orderId is unique
  cache,      \* foodflow:restaurants:* in Redis
  stale,      \* keys whose entry nobody will delete although its restaurant has changed
  owed,       \* restaurants whose recalculation died or wrote a sum that was old
  overtaken,  \* requests whose reads another's commit has made untrue
  req         \* what each request has read

vars == <<row, reviews, cache, stale, owed, overtaken, req>>

Requests == Handlers \cup Reviewers

\* What restaurant.rating and ratingCount are computed from.
Rating == SUBSET (Orders \X Stars)

Row == [profile : Profiles, status : Statuses, rating : Rating]

\* restaurantDetail and restaurantList
Keys == ({"detail"} \X Restaurants) \cup ({"list"} \X Queries)

Entry == [rows : SUBSET (Restaurants \X Row)]

ASSUME NullIsNoData == NULL \notin Row /\ NULL \notin Entry /\ NULL \notin Stars

Idle == [kind |-> "idle"]

Request ==
  {Idle}
  \cup
  [kind : {"set"}, key : Keys, found : Entry]
  \cup
  [kind : {"update"}, restaurant : Restaurants, data : Row]
  \cup
  [kind : {"invalidate"}]
  \cup
  [kind : {"scan"}, left : SUBSET Keys]
  \cup
  [kind : {"aggregate"}, restaurant : Restaurants]
  \cup
  [kind : {"writeRating"}, restaurant : Restaurants, found : Rating]

Init ==
  /\ row = [r \in Restaurants |-> NULL]
  /\ reviews = [o \in Orders |-> NULL]
  /\ cache = [k \in Keys |-> NULL]
  /\ stale = {}
  /\ owed = {}
  /\ overtaken = {}
  /\ req = [h \in Requests |-> Idle]

Proceed(h, state) == req' = [req EXCEPT ![h] = state]
Finish(h) == Proceed(h, Idle)

matches(rows, k, r) ==
  /\ rows[r] # NULL
  /\ IF k[1] = "detail" THEN r = k[2] ELSE rows[r].status = k[2]

\* What the database answers for a key.
answer(rows, k) ==
  [rows |-> {<<r, rows[r]>> : r \in {s \in Restaurants : matches(rows, k, s)}}]

changes(rows, k) == answer(rows, k) # answer(row, k)

ratingOf(r) ==
  {<<o, reviews[o]>> : o \in {p \in Orders : restaurantOf[p] = r /\ reviews[p] # NULL}}

\* What a request has read, and still goes by, is so.
isFreshRead(q) ==
  /\ q.kind = "set" => q.found = answer(row, q.key)
  /\ q.kind = "writeRating" => q.found = ratingOf(q.restaurant)

\* A step of request h makes it go by new reads, and may overtake the others.
noteOvertaken(h) ==
  overtaken' = {g \in Requests \ {h} : g \in overtaken \/ ~isFreshRead(req[g])'}

\* Request h commits rows and goes on in another state.
Commit(h, rows, state) == row' = rows /\ Proceed(h, state)

\* A commit that deletes no entry makes those that it changes stale.
MakeStale(rows) == stale' = stale \cup {k \in Keys : cache[k] # NULL /\ changes(rows, k)}

-----------------------------------------------------------------------------
\* Mutant of mayBeCached: "not found" is an answer like any other.
anyAnswer(k, a) == TRUE

\* getOrSet does not cache what its function throws.
mayBeCached(k, a) == k[1] = "detail" => a.rows # {}

\* getRestaurantById, listRestaurants: Redis has no entry or fails.
Fetch(h, k) ==
  /\ req[h] = Idle
  /\ LET found == answer(row, k) IN
     /\ mayBeCached(k, found)
     /\ Proceed(h, [kind |-> "set", key |-> k, found |-> found])
  /\ UNCHANGED <<row, reviews, cache, stale, owed>>

SetEntry(h) ==
  /\ req[h].kind = "set"
  /\ LET k == req[h].key IN
     \/ /\ cache' = [cache EXCEPT ![k] = req[h].found]
        /\ stale' = IF h \in overtaken THEN stale \cup {k} ELSE stale \ {k}
     \/ UNCHANGED <<cache, stale>>
  /\ Finish(h)
  /\ UNCHANGED <<row, reviews, owed>>

\* An entry expires, or another deletion hits it.
Expire(k) ==
  /\ cache[k] # NULL
  /\ cache' = [cache EXCEPT ![k] = NULL]
  /\ stale' = stale \ {k}
  /\ UNCHANGED <<row, reviews, owed, req>>

-----------------------------------------------------------------------------
\* createRestaurant leaves the lists in the cache alone.
CreateRestaurant(h, r, profile) ==
  /\ req[h] = Idle /\ row[r] = NULL
  /\ LET rows == [row EXCEPT ![r] =
           [profile |-> profile, status |-> "PENDING_APPROVAL", rating |-> {}]]
     IN  Commit(h, rows, Idle) /\ MakeStale(rows)
  /\ UNCHANGED <<reviews, cache, owed>>

\* Mutant of toInvalidate: nothing follows.
toForget == Idle

toInvalidate == [kind |-> "invalidate"]

\* updateRestaurant reads the row, whose values stand for those it is not given ...
FindRestaurant(h, r, profile) ==
  /\ req[h] = Idle /\ row[r] # NULL
  /\ LET data == IF profile = NULL THEN row[r] ELSE [row[r] EXCEPT !.profile = profile]
     IN  Proceed(h, [kind |-> "update", restaurant |-> r, data |-> data])
  /\ UNCHANGED <<row, reviews, cache, stale, owed>>

\* Mutant of updated: the whole row is written.
updatedWhole(r, data) == data

updated(r, data) == [row[r] EXCEPT !.profile = data.profile]

\* ... and writes the profile.
UpdateRestaurant(h) ==
  /\ req[h].kind = "update"
  /\ LET r == req[h].restaurant IN
     Commit(h, [row EXCEPT ![r] = updated(r, req[h].data)], toInvalidate)
  /\ UNCHANGED <<reviews, cache, stale, owed>>

UpdateRestaurantStatus(h, r, status) ==
  /\ req[h] = Idle /\ row[r] # NULL
  /\ Commit(h, [row EXCEPT ![r].status = status], toInvalidate)
  /\ UNCHANGED <<reviews, cache, stale, owed>>

-----------------------------------------------------------------------------
\* delByPattern: the scan returns every key that is there from its start to its end.
StartScan(h) ==
  /\ req[h].kind = "invalidate"
  /\ Proceed(h, [kind |-> "scan", left |-> {k \in Keys : cache[k] # NULL}])
  /\ UNCHANGED <<row, reviews, cache, stale, owed>>

ScanKey(h) ==
  /\ req[h].kind = "scan"
  /\ \E k \in req[h].left :
       /\ cache' = [cache EXCEPT ![k] = NULL]
       /\ stale' = stale \ {k}
       /\ Proceed(h, [req[h] EXCEPT !.left = @ \ {k}])
  /\ UNCHANGED <<row, reviews, owed>>

EndScan(h) ==
  /\ req[h].kind = "scan" /\ req[h].left = {}
  /\ Finish(h)
  /\ UNCHANGED <<row, reviews, cache, stale, owed>>

\* The keys request h must still delete.
due(h) ==
  IF req[h].kind = "invalidate" THEN Keys
  ELSE IF req[h].kind = "scan" THEN req[h].left
  ELSE {}

\* The request dies, or Redis fails and the rest of the scan is skipped.
Abandon(h) ==
  /\ req[h] # Idle
  /\ stale' = stale \cup {k \in due(h) : cache[k] # NULL}
  /\ owed' = owed \cup (IF req[h].kind \in {"aggregate", "writeRating"}
                        THEN {req[h].restaurant} ELSE {})
  /\ Finish(h)
  /\ UNCHANGED <<row, reviews, cache>>

-----------------------------------------------------------------------------
thenRecalculate(h, o) == Proceed(h, [kind |-> "aggregate", restaurant |-> restaurantOf[o]])

\* createReview; the unique orderId makes its look at existingReview redundant.
CreateReview(h, o, stars) ==
  /\ req[h] = Idle /\ reviews[o] = NULL /\ row[restaurantOf[o]] # NULL
  /\ reviews' = [reviews EXCEPT ![o] = stars]
  /\ thenRecalculate(h, o)
  /\ UNCHANGED <<row, cache, stale, owed>>

UpdateReview(h, o, stars) ==
  /\ req[h] = Idle /\ reviews[o] # NULL
  /\ reviews' = [reviews EXCEPT ![o] = stars]
  /\ thenRecalculate(h, o)
  /\ UNCHANGED <<row, cache, stale, owed>>

DeleteReview(h, o) ==
  /\ req[h] = Idle /\ reviews[o] # NULL
  /\ reviews' = [reviews EXCEPT ![o] = NULL]
  /\ thenRecalculate(h, o)
  /\ UNCHANGED <<row, cache, stale, owed>>

\* recalculateRestaurantRating reads all reviews ...
Aggregate(h) ==
  /\ req[h].kind = "aggregate"
  /\ LET r == req[h].restaurant IN
     Proceed(h, [kind |-> "writeRating", restaurant |-> r, found |-> ratingOf(r)])
  /\ UNCHANGED <<row, reviews, cache, stale, owed>>

\* ... and writes their average and count; no entry is deleted.
WriteRating(h) ==
  /\ req[h].kind = "writeRating"
  /\ LET r == req[h].restaurant
         rows == [row EXCEPT ![r].rating = req[h].found]
     IN  /\ Commit(h, rows, Idle) /\ MakeStale(rows)
         /\ owed' = IF h \in overtaken THEN owed \cup {r} ELSE owed \ {r}
  /\ UNCHANGED <<reviews, cache>>

-----------------------------------------------------------------------------
RestaurantStep(h) ==
  \/ \E k \in Keys : Fetch(h, k)
  \/ \E r \in Restaurants, profile \in Profiles : CreateRestaurant(h, r, profile)
  \/ \E r \in Restaurants, profile \in Profiles \cup {NULL} : FindRestaurant(h, r, profile)
  \/ \E r \in Restaurants, status \in Statuses : UpdateRestaurantStatus(h, r, status)
  \/ SetEntry(h) \/ UpdateRestaurant(h)
  \/ StartScan(h) \/ ScanKey(h) \/ EndScan(h)
  \/ Abandon(h)

ReviewStep(h) ==
  \/ \E o \in Orders, stars \in Stars : CreateReview(h, o, stars) \/ UpdateReview(h, o, stars)
  \/ \E o \in Orders : DeleteReview(h, o)
  \/ Aggregate(h) \/ WriteRating(h)
  \/ Abandon(h)

Next ==
  \/ \E k \in Keys : Expire(k) /\ UNCHANGED overtaken
  \/ \E h \in Handlers : RestaurantStep(h) /\ noteOvertaken(h)
  \/ \E h \in Reviewers : ReviewStep(h) /\ noteOvertaken(h)

Spec == Init /\ [][Next]_vars

-----------------------------------------------------------------------------
\* A request writes to a row that is there, and caches one that was.
isGrounded(q) ==
  /\ q.kind \in {"update", "aggregate", "writeRating"} => row[q.restaurant] # NULL
  /\ q.kind = "set" /\ q.key[1] = "detail" => q.found.rows # {}

\* Rows, entries and requests have their shapes, a row once there stays, and the entry
\* of a restaurant has its row.
TypeOK ==
  /\ row \in [Restaurants -> Row \cup {NULL}]
  /\ reviews \in [Orders -> Stars \cup {NULL}]
  /\ cache \in [Keys -> Entry \cup {NULL}]
  /\ stale \subseteq Keys
  /\ owed \subseteq Restaurants
  /\ overtaken \subseteq Requests
  /\ req \in [Requests -> Request]
  /\ \A h \in Requests : isGrounded(req[h])
  /\ \A o \in Orders : reviews[o] # NULL => row[restaurantOf[o]] # NULL
  /\ \A r \in Restaurants : cache[<<"detail", r>>] # [rows |-> {}]

(***************************************************************************)
(* However requests interleave, an entry says what the database says       *)
(* unless a scan that will delete it is under way, or the entry is stale   *)
(* for one of the known reasons: its scan failed, a rating or a new        *)
(* restaurant changed it, or the answer it holds was read before a commit  *)
(* and cached after it (restaurants.service.ts:239, cache.manager.ts:99).  *)
(***************************************************************************)
EntriesAreTrue ==
  \A k \in Keys :
    cache[k] # NULL /\ k \notin stale /\ (\A h \in Handlers : k \notin due(h)) =>
      cache[k] = answer(row, k)

(***************************************************************************)
(* However review requests overlap, a restaurant's rating is that of its   *)
(* reviews unless a recalculation is under way, died, or wrote a sum that  *)
(* another's review had made untrue (reviews.service.ts:222-238), whatever *)
(* else writes the row meanwhile (restaurants.service.ts:222).             *)
(***************************************************************************)
RatingFollowsReviews ==
  \A r \in Restaurants :
    row[r] # NULL /\ r \notin owed
    /\ (\A h \in Reviewers :
          req[h].kind \in {"aggregate", "writeRating"} => req[h].restaurant # r)
      => row[r].rating = ratingOf(r)

-----------------------------------------------------------------------------
\* What a request that nothing has overtaken has read is so.
ReadsHold == \A h \in Requests \ overtaken : isFreshRead(req[h])
=============================================================================
