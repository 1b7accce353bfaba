----------------------------- MODULE MCAddresses -----------------------------
(* A small instance of Addresses: two requests at a time. *)
EXTENDS Addresses, TLC

HandlerSymmetry == Permutations(Handlers)
=============================================================================
