------------------------------ MODULE Deliveries ------------------------------
(***************************************************************************)
(* deliveries.service.ts: assignDelivery and updateDeliveryStatus.  Both   *)
(* write the order row as well as the delivery row, without the order      *)
(* state machine.                                                          *)
(***************************************************************************)
EXTENDS OrderTables

AllowedDeliveryTransitions ==
  { <<"PENDING", "ASSIGNED">>,           <<"PENDING", "CANCELLED">>,
    <<"ASSIGNED", "ACCEPTED">>,          <<"ASSIGNED", "CANCELLED">>,
    <<"ACCEPTED", "PICKED_UP">>,         <<"ACCEPTED", "CANCELLED">>,
    <<"PICKED_UP", "OUT_FOR_DELIVERY">>, <<"PICKED_UP", "CANCELLED">>,
    <<"OUT_FOR_DELIVERY", "DELIVERED">>, <<"OUT_FOR_DELIVERY", "CANCELLED">> }

\* Mutant of isValidDeliveryTransition: only the terminal statuses are closed.
isOpenDelivery(current, target) ==
  current \notin {"NONE", "DELIVERED", "CANCELLED"} /\ target # "NONE"

isValidDeliveryTransition(current, target) ==
  <<current, target>> \in AllowedDeliveryTransitions

\* Mutant of MirroredStatuses: every delivery status is copied to the order.
AllMirrored == DeliveryStatus \ {"NONE"}

\* The delivery statuses updateDeliveryStatus copies to the order.
MirroredStatuses == {"PICKED_UP", "OUT_FOR_DELIVERY", "DELIVERED", "CANCELLED"}

DeliveryRequest ==
  [kind : {"assignDelivery"}, order : Orders, rider : Users, from : OrderStatus]
  \cup
  [kind : {"updateDeliveryStatus"}, order : Orders, seen : DeliveryStatus,
   to : DeliveryStatus \ {"NONE"}, from : OrderStatus]

\* The reads of assignDelivery: the owner picks a rider, or a user assigns itself.
AssignDelivery(h, u, o, rider) ==
  /\ req[h] = Idle
  /\ isAdmin(userContext(u)) \/ u = owner[o] \/ u = rider
  /\ Proceed(h, [kind |-> "assignDelivery", order |-> o, rider |-> rider,
                 from |-> order[o].status])
  /\ UNCHANGED rows

\* Mutant of upsertDelivery: the update branch keeps the rider.
upsertStatusOnly(o, rider) ==
  delivery' = [delivery EXCEPT ![o] =
    IF @.status = "NONE" THEN [status |-> "ASSIGNED", riderId |-> rider]
                         ELSE [@ EXCEPT !.status = "ASSIGNED"]]

\* delivery.upsert: create and update write the same.
upsertDelivery(o, rider) ==
  delivery' = [delivery EXCEPT ![o] = [status |-> "ASSIGNED", riderId |-> rider]]

\* Its $transaction: order, delivery (upsert) and audit row.
CommitAssignment(h) ==
  /\ req[h].kind = "assignDelivery"
  /\ LET o == req[h].order
         r == req[h].rider
     IN  /\ order' = [order EXCEPT ![o] = [status |-> "ASSIGNED", riderId |-> r]]
         /\ upsertDelivery(o, r)
         /\ append(o, statusHistoryRow(req[h].from, "ASSIGNED", "assignDelivery"))
  /\ Finish(h)
  /\ UNCHANGED <<payment, webhooks, moved, refunded, refundKeys>>

\* The reads of updateDeliveryStatus: the assigned rider asks for `target`.
UpdateDeliveryStatus(h, u, o, target) ==
  /\ req[h] = Idle
  /\ delivery[o].status # "NONE"
  /\ isAdmin(userContext(u)) \/ delivery[o].riderId = u
  /\ isValidDeliveryTransition(delivery[o].status, target)
  /\ Proceed(h, [kind |-> "updateDeliveryStatus", order |-> o, seen |-> delivery[o].status,
                 to |-> target, from |-> order[o].status])
  /\ UNCHANGED rows

\* Its $transaction: the delivery row and, for mirrored statuses, the order's.
CommitDeliveryStatus(h) ==
  /\ req[h].kind = "updateDeliveryStatus"
  /\ LET o == req[h].order
         d == req[h].to
     IN  /\ delivery' = [delivery EXCEPT ![o].status = d]
         /\ \/ /\ d \in MirroredStatuses
               /\ order' = [order EXCEPT ![o].status = d]
               /\ append(o, statusHistoryRow(req[h].from, d, "updateDeliveryStatus"))
            \/ /\ d \notin MirroredStatuses
               /\ UNCHANGED <<order, history>>
  /\ Finish(h)
  /\ UNCHANGED <<payment, webhooks, moved, refunded, refundKeys>>

DeliveriesNext ==
  \E h \in Handlers :
    \/ \E u \in Users, o \in Orders :
         \/ \E rider \in Users : AssignDelivery(h, u, o, rider)
         \/ \E target \in DeliveryStatus : UpdateDeliveryStatus(h, u, o, target)
    \/ CommitAssignment(h)
    \/ CommitDeliveryStatus(h)
=============================================================================
