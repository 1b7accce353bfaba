------------------------------ MODULE MCCoupons ------------------------------
(* Two owners, one code, offers around the roundings and bounds of quotes. *)
EXTENDS Coupons, TLC

CONSTANTS Olga, Omar, Trattoria, Diner

MCOwnerOf == Trattoria :> Olga @@ Diner :> Omar

offer(type, value, cap, min) ==
  [discountType |-> type, discountValue |-> value, maxDiscountAmount |-> cap,
   minOrderAmount |-> min]

MCAmounts == {0, 3, 5, 10, 11, 30, 1500, 15000}

MCOffers ==
  {offer("PERCENTAGE", 1500, NULL, 10), offer("FIXED_AMOUNT", 5, 3, 0)}

nothing ==
  [discountType |-> NULL, discountValue |-> NULL, maxDiscountAmount |-> NULL,
   minOrderAmount |-> NULL, startDate |-> NULL, endDate |-> NULL, isActive |-> NULL]

MCChanges ==
  { [nothing EXCEPT !.isActive = FALSE], [nothing EXCEPT !.isActive = TRUE],
    [nothing EXCEPT !.discountType = "PERCENTAGE"],
    [nothing EXCEPT !.discountValue = 15000], [nothing EXCEPT !.maxDiscountAmount = 3],
    [nothing EXCEPT !.endDate = 1] }

HandlerSymmetry == Permutations(Handlers)
=============================================================================
