------------------------------ MODULE MCSessions ------------------------------
(* A small instance of Sessions. *)
EXTENDS Sessions, TLC

RequestSymmetry == Permutations(Handlers)
=============================================================================
