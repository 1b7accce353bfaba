------------------------------ MODULE MCCheckout ------------------------------
(* A small instance of Checkout: two restaurants, two menu items. *)
EXTENDS Checkout, TLC

CONSTANTS Pizza, Sushi, Napoli, Osaka

MCRestaurantOf == (Pizza :> Napoli) @@ (Sushi :> Osaka)
MCCategories == {{Pizza}}

RequestSymmetry ==
  Permutations(RowIds) \cup Permutations(OrderNumbers) \cup Permutations(Handlers)
=============================================================================
