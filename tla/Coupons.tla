------------------------------- MODULE Coupons -------------------------------
(***************************************************************************)
(* coupons.service.ts: restaurant owners create, change and switch off     *)
(* coupons while customers have them validated.  No request carries roles, *)
(* so nobody is an administrator and every coupon is a restaurant's.  The  *)
(* two redemption limits compare positive numbers with counts that no code *)
(* ever raises; they refuse nothing and are left out.                      *)
(***************************************************************************)
EXTENDS Pricing

CONSTANTS
  Codes,        \* coupon codes
  Restaurants,
  Users,
  ownerOf,      \* [Restaurants -> Users]
  Amounts,      \* amounts and percentages in requests and rows
  Offers,       \* bound for TLC: offers that are created
  Changes,      \* bound for TLC: inputs of updateCoupon
  MaxNow,       \* bound for TLC: the clock stops here
  Handlers      \* requests in flight at the same time

Instants == 0 .. MaxNow

\* What updateCoupon may be given; NULL is a field that is not in the input.
Change ==
  [discountType : DiscountType \cup {NULL}, discountValue : (Amounts \ {0}) \cup {NULL},
   maxDiscountAmount : (Amounts \ {0}) \cup {NULL}, minOrderAmount : Amounts \cup {NULL},
   startDate : Instants \cup {NULL}, endDate : Instants \cup {NULL},
   isActive : BOOLEAN \cup {NULL}]

ASSUME AmountsAreCents == Amounts \subseteq Nat /\ MaxNow \in Nat
ASSUME OwnersAreUsers == ownerOf \in [Restaurants -> Users]
ASSUME InputsHaveShape == Offers \subseteq OfferOf(Amounts) /\ Changes \subseteq Change

Coupon ==
  [restaurantId : Restaurants, discountType : DiscountType,
   discountValue : Amounts \ {0}, maxDiscountAmount : (Amounts \ {0}) \cup {NULL},
   minOrderAmount : Amounts, startDate : Instants, endDate : Instants \cup {NULL},
   isActive : BOOLEAN]

ASSUME NullIsNoCoupon == NULL \notin Coupon \cup DiscountType \cup Nat \cup BOOLEAN

VARIABLES
  coupon,       \* Coupon rows by code, NULL before they are created
  now,          \* the clock
  req           \* what each request has read

vars == <<coupon, now, req>>

Idle == [kind |-> "idle"]

CreateRequest ==
  [kind : {"createCoupon"}, code : Codes, restaurantId : Restaurants, offer : Offers,
   startDate : Instants \cup {NULL}, endDate : Instants \cup {NULL}]

UpdateRequest == [kind : {"updateCoupon"}, code : Codes, change : Changes]

Init ==
  /\ coupon = [code \in Codes |-> NULL]
  /\ now = 0
  /\ req = [h \in Handlers |-> Idle]

Proceed(h, r) == req' = [req EXCEPT ![h] = r]
Finish(h) == Proceed(h, Idle)

-----------------------------------------------------------------------------
\* createCoupon by the restaurant's owner: the code is not taken yet ...
CreateCoupon(h, u, code, r, offer, startDate, endDate) ==
  /\ req[h] = Idle
  /\ ownerOf[r] = u
  /\ coupon[code] = NULL
  /\ Proceed(h, [kind |-> "createCoupon", code |-> code, restaurantId |-> r,
                 offer |-> offer, startDate |-> startDate, endDate |-> endDate])
  /\ UNCHANGED <<coupon, now>>

\* A coupon starts when it is created unless the input says otherwise.
startOf(startDate) == IF startDate = NULL THEN now ELSE startDate

\* The row that createCoupon writes for request r.
newCoupon(r) ==
  [restaurantId |-> r.restaurantId, discountType |-> r.offer.discountType,
   discountValue |-> r.offer.discountValue,
   maxDiscountAmount |-> r.offer.maxDiscountAmount,
   minOrderAmount |-> r.offer.minOrderAmount,
   startDate |-> startOf(r.startDate), endDate |-> r.endDate, isActive |-> TRUE]

\* coupon.create; Coupon.code @unique fails the second one of a code.
insertCoupon(code, row) ==
  coupon' = [coupon EXCEPT ![code] = IF @ = NULL THEN row ELSE @]

\* ... then the row is created.
InsertCoupon(h) ==
  /\ req[h].kind = "createCoupon"
  /\ insertCoupon(req[h].code, newCoupon(req[h]))
  /\ Finish(h)
  /\ UNCHANGED now

-----------------------------------------------------------------------------
\* updateCoupon by the owner of the coupon's restaurant: the row is read ...
UpdateCoupon(h, u, code, change) ==
  /\ req[h] = Idle
  /\ coupon[code] # NULL
  /\ ownerOf[coupon[code].restaurantId] = u
  /\ Proceed(h, [kind |-> "updateCoupon", code |-> code, change |-> change])
  /\ UNCHANGED <<coupon, now>>

\* toggleCouponStatus: an update of isActive alone.
ToggleCouponStatus(h, u, code, isActive) ==
  \E change \in Changes :
    /\ change.isActive = isActive
    /\ \A f \in DOMAIN change \ {"isActive"} : change[f] = NULL
    /\ UpdateCoupon(h, u, code, change)

given(new, old) == IF new = NULL THEN old ELSE new

\* Mutant of updated: what is not given gets the defaults of createCoupon.
updatedWithDefaults(row, change) ==
  [restaurantId |-> row.restaurantId,
   discountType |-> given(change.discountType, row.discountType),
   discountValue |-> given(change.discountValue, row.discountValue),
   maxDiscountAmount |-> given(change.maxDiscountAmount, row.maxDiscountAmount),
   minOrderAmount |-> given(change.minOrderAmount, row.minOrderAmount),
   startDate |-> given(change.startDate, row.startDate),
   endDate |-> change.endDate,
   isActive |-> given(change.isActive, TRUE)]

\* Only the fields of the input are written.
updated(row, change) ==
  [restaurantId |-> row.restaurantId,
   discountType |-> given(change.discountType, row.discountType),
   discountValue |-> given(change.discountValue, row.discountValue),
   maxDiscountAmount |-> given(change.maxDiscountAmount, row.maxDiscountAmount),
   minOrderAmount |-> given(change.minOrderAmount, row.minOrderAmount),
   startDate |-> given(change.startDate, row.startDate),
   endDate |-> given(change.endDate, row.endDate),
   isActive |-> given(change.isActive, row.isActive)]

\* ... then written, whatever other updates have made of it meanwhile.
WriteCoupon(h) ==
  /\ req[h].kind = "updateCoupon"
  /\ coupon' = [coupon EXCEPT ![req[h].code] = updated(@, req[h].change)]
  /\ Finish(h)
  /\ UNCHANGED now

-----------------------------------------------------------------------------
isExpired(c) == c.endDate # NULL /\ now > c.endDate

\* validateAndCalculateDiscount accepts code at restaurant r for this subtotal.
isValid(code, r, subtotal) ==
  /\ coupon[code] # NULL
  /\ coupon[code].isActive = TRUE
  /\ now >= coupon[code].startDate
  /\ ~isExpired(coupon[code])
  /\ coupon[code].restaurantId = r
  /\ subtotal >= coupon[code].minOrderAmount

\* What it answers: nothing when the code is refused.
quotes(code, r, subtotal) ==
  IF isValid(code, r, subtotal) THEN answers(coupon[code], subtotal) ELSE {}

Tick == now < MaxNow /\ now' = now + 1 /\ UNCHANGED <<coupon, req>>

\* A request dies or its client goes away.
Abandon(h) == req[h] # Idle /\ Finish(h) /\ UNCHANGED <<coupon, now>>

Next ==
  \/ \E h \in Handlers :
       \/ \E u \in Users, code \in Codes :
            \/ \E r \in Restaurants, offer \in Offers :
                 \E startDate, endDate \in Instants \cup {NULL} :
                   CreateCoupon(h, u, code, r, offer, startDate, endDate)
            \/ \E change \in Changes : UpdateCoupon(h, u, code, change)
            \/ \E isActive \in BOOLEAN : ToggleCouponStatus(h, u, code, isActive)
       \/ InsertCoupon(h)
       \/ WriteCoupon(h)
       \/ Abandon(h)
  \/ Tick

Spec == Init /\ [][Next]_vars

-----------------------------------------------------------------------------
\* Rows and requests in flight have their shapes; every coupon has a start, and
\* one that an update has found stays.
TypeOK ==
  /\ coupon \in [Codes -> Coupon \cup {NULL}]
  /\ now \in Instants
  /\ req \in [Handlers -> {Idle} \cup CreateRequest \cup UpdateRequest]
  /\ \A h \in Handlers : req[h].kind = "updateCoupon" => coupon[req[h].code] # NULL

\* Nobody is given a discount on c any more.
isRetired(c) == c.isActive = FALSE \/ isExpired(c)

\* Handler h writes a change of code that turns it on or sets its end.
revives(h, code) ==
  /\ req[h].kind = "updateCoupon" /\ req[h].code = code /\ req'[h] = Idle
  /\ req[h].change.isActive = TRUE \/ req[h].change.endDate # NULL

(***************************************************************************)
(* A coupon outlives every race as itself.  Of two owners who create a     *)
(* code at once one is refused although both found it free                 *)
(* (coupons.service.ts:42-49), no update moves it to another restaurant,   *)
(* and once switched off or expired it comes back only by a request that   *)
(* says so, whatever else is updated meanwhile (coupons.service.ts:164-    *)
(* 184).                                                                   *)
(***************************************************************************)
CouponStaysItself ==
  [][\A code \in Codes : coupon[code] # NULL =>
       /\ coupon'[code] # NULL
       /\ coupon'[code].restaurantId = coupon[code].restaurantId
       /\ (isRetired(coupon[code]) /\ ~isRetired(coupon[code])') =>
            \E h \in Handlers : revives(h, code)]_vars

\* A percentage of more than a hundred, which no schema rules out.
isExcessive(c) == c.discountType = "PERCENTAGE" /\ c.discountValue > 10000

(***************************************************************************)
(* A quote is what the coupon says, after any sequence of partial updates  *)
(* (coupons.service.ts:114-126): a percentage to half a cent unless the    *)
(* cap is reached, never more than the cap or the fixed amount, and        *)
(* discount and remainder are the subtotal unless the percentage exceeds a *)
(* hundred.                                                                *)
(***************************************************************************)
isSound(c, subtotal, a) ==
  LET d == a.calculatedDiscount IN
  /\ d >= 0 /\ a.newSubtotal >= 0
  /\ a.newSubtotal + d = subtotal \/ (isExcessive(c) /\ a.newSubtotal = 0)
  /\ c.discountType = "FIXED_AMOUNT" =>
       d <= c.discountValue /\ (d = c.discountValue \/ d = subtotal)
  /\ c.discountType = "PERCENTAGE" =>
       /\ 20000 * d <= 2 * (subtotal * c.discountValue) + 10000
       /\ 20000 * d >= 2 * (subtotal * c.discountValue) - 10000 \/ d = c.maxDiscountAmount
       /\ c.maxDiscountAmount = NULL \/ d <= c.maxDiscountAmount

QuoteIsSound ==
  \A code \in Codes, r \in Restaurants, subtotal \in Amounts :
    \A a \in quotes(code, r, subtotal) : isSound(coupon[code], subtotal, a)

(***************************************************************************)
(* Ordering more never costs less: of two subtotals a coupon is valid for, *)
(* the greater leaves no smaller remainder, roundings and cap included     *)
(* (coupons.service.ts:115-126).                                           *)
(***************************************************************************)
MoreNeverCostsLess ==
  \A code \in Codes, r \in Restaurants, high \in Amounts :
    \A b \in quotes(code, r, high), low \in Amounts : low < high =>
      \A a \in quotes(code, r, low) : a.newSubtotal <= b.newSubtotal
=============================================================================
