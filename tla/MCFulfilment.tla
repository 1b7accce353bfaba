----------------------------- MODULE MCFulfilment -----------------------------
(* Small instances of Fulfilment: one restaurant, one customer, riders. *)
EXTENDS Fulfilment, TLC

CONSTANTS Alice, Olga, Rita, Rob   \* customer, owner, riders

MCCustomer == [o \in Orders |-> Alice]
MCOwner    == [o \in Orders |-> Olga]
MCStaff    == [o \in Orders |-> {}]

HandlerSymmetry == Permutations(Handlers)
=============================================================================
