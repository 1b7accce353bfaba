------------------------------- MODULE Pricing -------------------------------
(***************************************************************************)
(* The arithmetic of coupons.  Amounts are cents and percentages are       *)
(* hundredths of a percent, as the columns' two decimals say;              *)
(* Math.round(x * 100) / 100 is the nearest cent of the amount x.          *)
(***************************************************************************)
EXTENDS Integers

CONSTANT NULL   \* SQL NULL, undefined in an input, and no row

least(a, b) == IF a <= b THEN a ELSE b

\* Mutant of rounded: to whole units of currency.
roundedToUnits(n, d) ==
  {m \in {100 * (n \div (100 * d)), 100 * (n \div (100 * d)) + 100} :
     2 * (m * d - n) <= 100 * d /\ 2 * (n - m * d) <= 100 * d}

(***************************************************************************)
(* The cents nearest to n/d of a cent.  Halfway between two cents the      *)
(* double that Math.round sees lies on either side (1.005 * 100 is less    *)
(* than 100.5), so both neighbours are possible.                           *)
(***************************************************************************)
rounded(n, d) ==
  {m \in {n \div d, n \div d + 1} : 2 * (m * d - n) <= d /\ 2 * (n - m * d) <= d}

-----------------------------------------------------------------------------
DiscountType == {"PERCENTAGE", "FIXED_AMOUNT"}

\* What a coupon says about amounts; only a percentage heeds the cap.
OfferOf(Amounts) ==
  [discountType : DiscountType, discountValue : Amounts \ {0},
   maxDiscountAmount : (Amounts \ {0}) \cup {NULL}, minOrderAmount : Amounts]

\* Mutant of discounts: a fixed amount is not held to the subtotal.
unboundedDiscounts(offer, subtotal) ==
  IF offer.discountType = "FIXED_AMOUNT" THEN {offer.discountValue}
  ELSE LET shares == rounded(subtotal * offer.discountValue, 10000)
       IN IF offer.maxDiscountAmount = NULL THEN shares
          ELSE {least(s, offer.maxDiscountAmount) : s \in shares}

\* calculatedDiscount of validateAndCalculateDiscount.
discounts(offer, subtotal) ==
  IF offer.discountType = "FIXED_AMOUNT" THEN {least(offer.discountValue, subtotal)}
  ELSE LET shares == rounded(subtotal * offer.discountValue, 10000)
       IN IF offer.maxDiscountAmount = NULL THEN shares
          ELSE {least(s, offer.maxDiscountAmount) : s \in shares}

\* Its answers: the discount and what remains of the subtotal.
answers(offer, subtotal) ==
  {[calculatedDiscount |-> d, newSubtotal |-> IF d <= subtotal THEN subtotal - d ELSE 0] :
     d \in discounts(offer, subtotal)}
=============================================================================
