---------------------------- MODULE CouponsProofs ----------------------------
(***************************************************************************)
(* Coupons keep their shape, their restaurant and their retirement, and    *)
(* quotes are sound and monotone, for all codes, amounts and any number of *)
(* overlapping requests.                                                   *)
(***************************************************************************)
EXTENDS Coupons, TLAPS

USE AmountsAreCents, OwnersAreUsers, InputsHaveShape, NullIsNoCoupon

-----------------------------------------------------------------------------
(***************************************************************************)
(* The arithmetic of roundings.                                            *)
(***************************************************************************)

\* A rounded share is a natural number within half a cent of the share.
LEMMA RoundedIsNear ==
  ASSUME NEW n \in Nat, NEW m \in rounded(n, 10000)
  PROVE  /\ m \in Nat
         /\ 20000 * m <= 2 * n + 10000
         /\ 20000 * m >= 2 * n - 10000
<1>1. n \div 10000 \in Nat
  OBVIOUS
<1> QED
  BY <1>1 DEF rounded

\* A percentage of at most a hundred is at most the whole.
LEMMA ShareOfWhole ==
  ASSUME NEW s \in Nat, NEW v \in Nat, v <= 10000, NEW m \in rounded(s * v, 10000)
  PROVE  m <= s
<1>1. s * v \in Nat /\ s * v <= s * 10000
  OBVIOUS
<1>2. m \in Nat /\ 20000 * m <= 2 * (s * v) + 10000
  BY <1>1, RoundedIsNear
<1> QED
  BY <1>1, <1>2

\* What offers and coupons have in common.
hasTerms(c) ==
  /\ c.discountType \in DiscountType
  /\ c.discountValue \in Nat
  /\ c.maxDiscountAmount \in Nat \cup {NULL}

\* What an offer may take off a subtotal.
LEMMA DiscountIsSound ==
  ASSUME NEW c, hasTerms(c), NEW s \in Nat, NEW d \in discounts(c, s)
  PROVE  /\ d \in Nat
         /\ d <= s \/ isExcessive(c)
         /\ c.discountType = "FIXED_AMOUNT" =>
              d <= c.discountValue /\ (d = c.discountValue \/ d = s)
         /\ c.discountType = "PERCENTAGE" =>
              /\ 20000 * d <= 2 * (s * c.discountValue) + 10000
              /\ \/ 20000 * d >= 2 * (s * c.discountValue) - 10000
                 \/ d = c.maxDiscountAmount
              /\ c.maxDiscountAmount = NULL \/ d <= c.maxDiscountAmount
<1> DEFINE v == c.discountValue
<1> DEFINE cap == c.maxDiscountAmount
<1>1. v \in Nat /\ c.discountType \in DiscountType /\ cap \in Nat \cup {NULL}
  BY DEF hasTerms
<1>2. CASE c.discountType = "FIXED_AMOUNT"
  BY <1>1, <1>2 DEF discounts, least
<1>3. CASE c.discountType = "PERCENTAGE"
  <2>1. PICK share \in rounded(s * v, 10000) :
          d = IF cap = NULL THEN share ELSE least(share, cap)
    BY <1>3 DEF discounts
  <2>2. s * v \in Nat
    BY <1>1
  <2> HIDE DEF v, cap
  <2>3. /\ share \in Nat
        /\ 20000 * share <= 2 * (s * v) + 10000
        /\ 20000 * share >= 2 * (s * v) - 10000
    BY <2>2, RoundedIsNear
  <2>4. /\ d \in Nat /\ d <= share
        /\ cap = NULL \/ d <= cap
        /\ d = share \/ d = cap
    BY <1>1, <2>1, <2>3 DEF least
  <2>5. d <= s \/ v > 10000
    <3> SUFFICES ASSUME v <= 10000 PROVE d <= s
      BY <1>1
    <3>1. share <= s
      BY <1>1, ShareOfWhole
    <3> QED
      BY <2>3, <2>4, <3>1
  <2>6. 20000 * d <= 2 * (s * v) + 10000
    BY <2>2, <2>3, <2>4
  <2>7. 20000 * d >= 2 * (s * v) - 10000 \/ d = cap
    BY <2>3, <2>4
  <2>8. d <= s \/ isExcessive(c)
    BY <1>3, <2>5 DEF isExcessive, v
  <2> QED
    BY <1>3, <2>4, <2>6, <2>7, <2>8 DEF v, cap
<1> QED
  BY <1>1, <1>2, <1>3 DEF DiscountType

\* Between two subtotals a percentage grows by no more than they differ.
LEMMA ShareGrowsSlowly ==
  ASSUME NEW low \in Nat, NEW high \in Nat, low < high, NEW v \in Nat, v <= 10000,
         NEW m \in Nat, 20000 * m >= 2 * (low * v) - 10000,
         NEW n \in Nat, 20000 * n <= 2 * (high * v) + 10000
  PROVE  n - m <= high - low
<1> DEFINE L == low * v
<1> DEFINE H == high * v
<1>1. L \in Nat /\ H \in Nat
  OBVIOUS
<1>2. CASE v = 10000
  BY <1>2
<1>3. CASE v <= 9999
  <2>1. H - L = (high - low) * v
    OBVIOUS
  <2>2. (high - low) * v <= (high - low) * 9999
    BY <1>3
  <2>3. H - L <= (high - low) * 9999
    BY <2>1, <2>2
  <2> HIDE DEF L, H
  <2>4. 20000 * m >= 2 * L - 10000 /\ 20000 * n <= 2 * H + 10000
    BY DEF L, H
  <2> QED
    BY <1>1, <2>3, <2>4
<1> QED
  BY <1>2, <1>3

\* A percentage above a hundred is no less than the whole.
LEMMA ShareBeyondWhole ==
  ASSUME NEW s \in Nat, NEW v \in Nat, v > 10000, NEW m \in rounded(s * v, 10000)
  PROVE  m >= s
<1>1. s * v \in Nat /\ s * v >= s * 10000
  OBVIOUS
<1>2. m \in Nat /\ 20000 * m >= 2 * (s * v) - 10000
  BY <1>1, RoundedIsNear
<1> QED
  BY <1>1, <1>2

\* What a greater subtotal leaves to pay is no less.
LEMMA AnswersGrow ==
  ASSUME NEW c, hasTerms(c), NEW low \in Nat, NEW high \in Nat, low < high,
         NEW a \in answers(c, low), NEW b \in answers(c, high)
  PROVE  a.newSubtotal <= b.newSubtotal
<1> DEFINE v == c.discountValue
<1> DEFINE cap == c.maxDiscountAmount
<1> DEFINE left(s, d) == IF d <= s THEN s - d ELSE 0
<1>1. v \in Nat /\ cap \in Nat \cup {NULL} /\ c.discountType \in DiscountType
  BY DEF hasTerms
<1>2. PICK d \in discounts(c, low) : a.newSubtotal = left(low, d)
  BY DEF answers
<1>3. PICK e \in discounts(c, high) : b.newSubtotal = left(high, e)
  BY DEF answers
<1>4. CASE c.discountType = "FIXED_AMOUNT"
  BY <1>1, <1>2, <1>3, <1>4 DEF discounts, least
<1>5. CASE c.discountType = "PERCENTAGE"
  <2>1. PICK m \in rounded(low * v, 10000) : d = IF cap = NULL THEN m ELSE least(m, cap)
    BY <1>2, <1>5 DEF discounts
  <2>2. PICK n \in rounded(high * v, 10000) : e = IF cap = NULL THEN n ELSE least(n, cap)
    BY <1>3, <1>5 DEF discounts
  <2>3. low * v \in Nat /\ high * v \in Nat
    BY <1>1
  <2> HIDE DEF v, cap
  <2>4. m \in Nat /\ n \in Nat
    BY <2>3, RoundedIsNear
  <2>5. CASE v <= 10000
    <3>1. m <= low /\ n <= high
      BY <1>1, <2>5, ShareOfWhole
    <3>2. n - m <= high - low
      <4>1. 20000 * m >= 2 * (low * v) - 10000 /\ 20000 * n <= 2 * (high * v) + 10000
        BY <2>3, RoundedIsNear
      <4>2. /\ low \in Nat /\ high \in Nat /\ low < high
            /\ v \in Nat /\ v <= 10000 /\ m \in Nat /\ n \in Nat
        BY <1>1, <2>4, <2>5
      <4> QED
        BY ONLY <4>1, <4>2, ShareGrowsSlowly
    <3>3. /\ d \in Nat /\ e \in Nat /\ d <= low /\ e <= high
          /\ e - d <= high - low
      BY <1>1, <2>1, <2>2, <2>4, <3>1, <3>2 DEF least
    <3> QED
      BY <1>2, <1>3, <3>3
  <2>6. CASE v > 10000
    <3>1. m >= low /\ n >= high
      BY <1>1, <2>6, ShareBeyondWhole
    <3> QED
      BY <1>1, <1>2, <1>3, <2>1, <2>2, <2>4, <3>1 DEF least
  <2> QED
    BY <1>1, <2>5, <2>6
<1> QED
  BY <1>1, <1>4, <1>5 DEF DiscountType

-----------------------------------------------------------------------------
(***************************************************************************)
(* Type correctness.                                                       *)
(***************************************************************************)

\* A written row keeps its shape and its restaurant.
LEMMA UpdatedShape ==
  ASSUME NEW row \in Coupon, NEW change \in Change
  PROVE  updated(row, change) \in Coupon /\ updated(row, change).restaurantId = row.restaurantId
<1>1. /\ row.restaurantId \in Restaurants
      /\ given(change.discountType, row.discountType) \in DiscountType
      /\ given(change.discountValue, row.discountValue) \in Amounts \ {0}
      /\ given(change.maxDiscountAmount, row.maxDiscountAmount) \in (Amounts \ {0}) \cup {NULL}
      /\ given(change.minOrderAmount, row.minOrderAmount) \in Amounts
      /\ given(change.startDate, row.startDate) \in Instants
      /\ given(change.endDate, row.endDate) \in Instants \cup {NULL}
  BY DEF Coupon, Change, given
<1>2. given(change.isActive, row.isActive) \in BOOLEAN
  BY DEF Coupon, Change, given
<1> QED
  BY <1>1, <1>2 DEF updated, Coupon

\* A created row has the shape of a coupon.
LEMMA NewCouponShape ==
  ASSUME NEW r \in CreateRequest, now \in Instants
  PROVE  newCoupon(r) \in Coupon
<1>1. r.offer \in OfferOf(Amounts)
  BY DEF CreateRequest
<1>2. startOf(r.startDate) \in Instants
  BY DEF CreateRequest, startOf
<1>3. r.restaurantId \in Restaurants /\ r.endDate \in Instants \cup {NULL}
  BY DEF CreateRequest
<1> QED
  BY <1>1, <1>2, <1>3 DEF newCoupon, Coupon, OfferOf

LEMMA NextTypeOK == TypeOK /\ [Next]_vars => TypeOK'
<1> SUFFICES ASSUME TypeOK, [Next]_vars PROVE TypeOK'
  OBVIOUS
<1> USE DEF TypeOK
<1>1. ASSUME NEW h \in Handlers, NEW u \in Users, NEW code \in Codes, NEW r \in Restaurants,
             NEW offer \in Offers, NEW startDate \in Instants \cup {NULL},
             NEW endDate \in Instants \cup {NULL},
             CreateCoupon(h, u, code, r, offer, startDate, endDate)
      PROVE  TypeOK'
  BY <1>1 DEF CreateCoupon, Proceed, CreateRequest
<1>2. ASSUME NEW h \in Handlers, NEW u \in Users, NEW code \in Codes, NEW change \in Changes,
             UpdateCoupon(h, u, code, change)
      PROVE  TypeOK'
  BY <1>2 DEF UpdateCoupon, Proceed, UpdateRequest
<1>3. ASSUME NEW h \in Handlers, InsertCoupon(h) PROVE TypeOK'
  <2>1. req[h] \in CreateRequest
    BY <1>3 DEF InsertCoupon, Idle, UpdateRequest
  <2>2. newCoupon(req[h]) \in Coupon
    BY <2>1, NewCouponShape
  <2>3. /\ coupon' = [coupon EXCEPT ![req[h].code] = IF @ = NULL THEN newCoupon(req[h]) ELSE @]
        /\ req' = [req EXCEPT ![h] = Idle] /\ now' = now
    BY <1>3 DEF InsertCoupon, insertCoupon, Finish, Proceed
  <2>4. req[h].code \in Codes /\ newCoupon(req[h]) # NULL
    BY <2>1, <2>2 DEF CreateRequest
  <2>5. coupon' \in [Codes -> Coupon \cup {NULL}]
    BY <2>2, <2>3, <2>4
  <2>6. \A code \in Codes : coupon[code] # NULL => coupon'[code] # NULL
    BY <2>3, <2>4
  <2>7. ASSUME NEW g \in Handlers, req'[g].kind = "updateCoupon"
        PROVE  coupon'[req'[g].code] # NULL
    <3>1. g # h /\ req'[g] = req[g]
      BY <2>3, <2>7 DEF Idle
    <3>2. req[g].code \in Codes
      BY <2>7, <3>1 DEF Idle, CreateRequest, UpdateRequest
    <3> QED
      BY <2>6, <2>7, <3>1, <3>2
  <2> QED
    BY <2>3, <2>5, <2>7
<1>4. ASSUME NEW h \in Handlers, WriteCoupon(h) PROVE TypeOK'
  <2>1. req[h] \in UpdateRequest
    BY <1>4 DEF WriteCoupon, Idle, CreateRequest
  <2>2. coupon[req[h].code] \in Coupon /\ req[h].code \in Codes /\ req[h].change \in Change
    BY <1>4, <2>1 DEF WriteCoupon, UpdateRequest
  <2>3. updated(coupon[req[h].code], req[h].change) \in Coupon
    BY <2>2, UpdatedShape
  <2>4. coupon' \in [Codes -> Coupon \cup {NULL}]
    BY <1>4, <2>3 DEF WriteCoupon
  <2>5. req' = [req EXCEPT ![h] = Idle]
    BY <1>4 DEF WriteCoupon, Finish, Proceed
  <2>6. ASSUME NEW g \in Handlers, req'[g].kind = "updateCoupon"
        PROVE  coupon'[req'[g].code] # NULL
    BY <1>4, <2>2, <2>3, <2>5, <2>6 DEF WriteCoupon, Idle, CreateRequest, UpdateRequest
  <2> QED
    BY <1>4, <2>4, <2>5, <2>6 DEF WriteCoupon
<1>5. ASSUME NEW h \in Handlers, Abandon(h) PROVE TypeOK'
  <2>1. req' = [req EXCEPT ![h] = Idle] /\ UNCHANGED <<coupon, now>>
    BY <1>5 DEF Abandon, Finish, Proceed
  <2>2. ASSUME NEW g \in Handlers, req'[g].kind = "updateCoupon"
        PROVE  coupon'[req'[g].code] # NULL
    BY <2>1, <2>2 DEF Idle
  <2> QED
    BY <2>1, <2>2
<1>6. ASSUME Tick PROVE TypeOK'
  BY <1>6 DEF Tick, Instants
<1>7. ASSUME UNCHANGED vars PROVE TypeOK'
  BY <1>7 DEF vars
<1> QED
  BY <1>1, <1>2, <1>3, <1>4, <1>5, <1>6, <1>7 DEF Next, ToggleCouponStatus

(***************************************************************************)
(* Rows and requests keep their shape, however many requests overlap; a    *)
(* coupon always has a start.                                              *)
(***************************************************************************)
THEOREM TypeCorrect == Spec => []TypeOK
<1>1. Init => TypeOK
  BY DEF Init, TypeOK, Instants, Idle
<1> QED
  BY <1>1, NextTypeOK, PTL DEF Spec

-----------------------------------------------------------------------------
(***************************************************************************)
(* What a step may do to a coupon.                                         *)
(***************************************************************************)

\* A coupon that is there changes by a written update and by nothing else.
LEMMA CouponStep ==
  ASSUME TypeOK, Next, NEW code \in Codes, coupon[code] # NULL
  PROVE  \/ coupon'[code] = coupon[code]
         \/ \E h \in Handlers :
              /\ WriteCoupon(h) /\ req[h] \in UpdateRequest
              /\ req[h].code = code /\ req'[h] = Idle
              /\ coupon'[code] = updated(coupon[code], req[h].change)
<1>1. CASE UNCHANGED coupon
  BY <1>1
<1>2. CASE \E h \in Handlers : InsertCoupon(h)
  <2> PICK h \in Handlers : InsertCoupon(h)
    BY <1>2
  <2>1. req[h] \in CreateRequest
    BY DEF TypeOK, InsertCoupon, Idle, UpdateRequest
  <2> QED
    BY <2>1 DEF TypeOK, InsertCoupon, insertCoupon
<1>3. CASE \E h \in Handlers : WriteCoupon(h)
  <2> PICK h \in Handlers : WriteCoupon(h)
    BY <1>3
  <2>1. req[h] \in UpdateRequest /\ req'[h] = Idle
    BY DEF TypeOK, WriteCoupon, Idle, CreateRequest, Finish, Proceed
  <2>2. CASE req[h].code = code
    BY <2>1, <2>2 DEF TypeOK, WriteCoupon
  <2>3. CASE req[h].code # code
    BY <2>1, <2>3 DEF TypeOK, WriteCoupon
  <2> QED
    BY <2>2, <2>3
<1> QED
  BY <1>1, <1>2, <1>3, ZenonT(60)
     DEF Next, ToggleCouponStatus, CreateCoupon, UpdateCoupon, Abandon, Tick

\* A step leaves a coupon where it is, with its restaurant.
LEMMA StepKeepsRestaurant ==
  ASSUME TypeOK, Next, NEW code \in Codes, coupon[code] # NULL
  PROVE  coupon'[code] # NULL /\ coupon'[code].restaurantId = coupon[code].restaurantId
<1>1. CASE coupon'[code] = coupon[code]
  BY <1>1
<1>2. ASSUME NEW h \in Handlers, req[h] \in UpdateRequest,
             coupon'[code] = updated(coupon[code], req[h].change)
      PROVE  /\ coupon'[code] # NULL
             /\ coupon'[code].restaurantId = coupon[code].restaurantId
  <2>1. coupon[code] \in Coupon /\ req[h].change \in Change
    BY <1>2 DEF TypeOK, UpdateRequest
  <2> QED
    BY <1>2, <2>1, UpdatedShape
<1> QED
  BY <1>1, <1>2, CouponStep

\* Neither the clock nor an update of other fields revives a coupon that is off or
\* past its end.
LEMMA StepKeepsRetired ==
  ASSUME TypeOK, TypeOK', Next, NEW code \in Codes, coupon[code] # NULL,
         isRetired(coupon[code]), ~isRetired(coupon[code])'
  PROVE  \E h \in Handlers : revives(h, code)
<1>1. coupon[code] \in Coupon /\ now \in Int /\ now' \in Int /\ now' >= now
  <2>1. now' = now \/ now' = now + 1
    BY ZenonT(60) DEF Next, CreateCoupon, UpdateCoupon, ToggleCouponStatus, InsertCoupon,
       WriteCoupon, Abandon, Tick
  <2> QED
    BY <2>1 DEF TypeOK, Instants
<1>2. coupon[code].endDate \in Int \/ coupon[code].endDate = NULL
  BY <1>1 DEF Coupon, Instants
<1>3. coupon'[code] # coupon[code]
  <2> SUFFICES ASSUME coupon'[code] = coupon[code] PROVE FALSE
    OBVIOUS
  <2>1. isExpired(coupon[code]) => isExpired(coupon[code])'
    BY <1>1, <1>2 DEF isExpired
  <2> QED
    BY <2>1 DEF isRetired
<1> PICK h \in Handlers :
      /\ req[h] \in UpdateRequest /\ req[h].kind = "updateCoupon"
      /\ req[h].code = code /\ req'[h] = Idle
      /\ coupon'[code] = updated(coupon[code], req[h].change)
  BY <1>3, CouponStep DEF WriteCoupon
<1>4. CASE req[h].change.isActive = TRUE \/ req[h].change.endDate # NULL
  BY <1>4 DEF revives
<1>5. CASE req[h].change.isActive # TRUE /\ req[h].change.endDate = NULL
  <2>1. coupon'[code].endDate = coupon[code].endDate
    BY <1>5 DEF updated, given
  <2>2. isExpired(coupon[code]) => isExpired(coupon[code])'
    BY <1>1, <1>2, <2>1 DEF isExpired
  <2>3. coupon[code].isActive = FALSE => coupon'[code].isActive = FALSE
    <3>1. req[h].change \in Change
      BY DEF UpdateRequest
    <3>2. req[h].change.isActive \in BOOLEAN \cup {NULL}
      BY <3>1 DEF Change
    <3>3. coupon'[code].isActive = given(req[h].change.isActive, coupon[code].isActive)
      BY DEF updated
    <3> QED
      BY <1>5, <3>2, <3>3 DEF given
  <2> QED
    BY <2>2, <2>3 DEF isRetired
<1> QED
  BY <1>4, <1>5

(***************************************************************************)
(* However many owners race, a code stays with the restaurant that created *)
(* it first, and a coupon that is off or past its end is revived by a      *)
(* request that says so and by nothing else.                               *)
(***************************************************************************)
THEOREM CouponIsKept == Spec => CouponStaysItself
<1> DEFINE Kept == \A code \in Codes : coupon[code] # NULL =>
       /\ coupon'[code] # NULL
       /\ coupon'[code].restaurantId = coupon[code].restaurantId
       /\ (isRetired(coupon[code]) /\ ~isRetired(coupon[code])') =>
            \E h \in Handlers : revives(h, code)
<1>1. TypeOK /\ TypeOK' /\ [Next]_vars => [Kept]_vars
  BY StepKeepsRestaurant, StepKeepsRetired
<1> QED
  BY <1>1, TypeCorrect, PTL DEF Spec, CouponStaysItself

-----------------------------------------------------------------------------
(***************************************************************************)
(* A quote is what the coupon says, for all amounts and percentages.       *)
(***************************************************************************)
THEOREM QuotesAreSound == Spec => []QuoteIsSound
<1>1. TypeOK => QuoteIsSound
  <2> SUFFICES ASSUME TypeOK, NEW code \in Codes, NEW r \in Restaurants,
                      NEW subtotal \in Amounts, NEW a \in quotes(code, r, subtotal)
               PROVE  isSound(coupon[code], subtotal, a)
    BY DEF QuoteIsSound
  <2> DEFINE c == coupon[code]
  <2>1. c \in Coupon /\ a \in answers(c, subtotal) /\ subtotal \in Nat
    BY DEF quotes, isValid, TypeOK
  <2>2. hasTerms(c)
    BY <2>1 DEF hasTerms, Coupon
  <2> HIDE DEF c
  <2>3. PICK d \in discounts(c, subtotal) :
          /\ a.calculatedDiscount = d
          /\ a.newSubtotal = IF d <= subtotal THEN subtotal - d ELSE 0
    BY <2>1 DEF answers
  <2> QED
    BY <2>1, <2>2, <2>3, DiscountIsSound DEF isSound, c
<1> QED
  BY <1>1, TypeCorrect, PTL

(***************************************************************************)
(* Ordering more never costs less, for all amounts, percentages and caps.  *)
(***************************************************************************)
THEOREM RemaindersGrow == Spec => []MoreNeverCostsLess
<1>1. TypeOK => MoreNeverCostsLess
  <2> SUFFICES ASSUME TypeOK, NEW code \in Codes, NEW r \in Restaurants,
                      NEW high \in Amounts, NEW b \in quotes(code, r, high),
                      NEW low \in Amounts, low < high, NEW a \in quotes(code, r, low)
               PROVE  a.newSubtotal <= b.newSubtotal
    BY DEF MoreNeverCostsLess
  <2> DEFINE c == coupon[code]
  <2>1. c \in Coupon /\ a \in answers(c, low) /\ b \in answers(c, high)
    BY DEF quotes, isValid, TypeOK
  <2>2. hasTerms(c)
    BY <2>1 DEF hasTerms, Coupon
  <2> QED
    BY <2>1, <2>2, AnswersGrow
<1> QED
  BY <1>1, TypeCorrect, PTL
=============================================================================
