------------------------------- MODULE MCCatalog -------------------------------
(* A small instance of Catalog: one restaurant with one order, which two     *)
(* overlapping requests review while two others read and write its row.      *)
EXTENDS Catalog, TLC

MCRestaurantOf == [o \in Orders |-> CHOOSE r \in Restaurants : TRUE]
Symmetry == Permutations(Handlers) \cup Permutations(Reviewers)
=============================================================================
