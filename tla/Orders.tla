-------------------------------- MODULE Orders --------------------------------
(***************************************************************************)
(* orders.service.ts after checkout: updateOrderStatus and cancelOrder.    *)
(* The status is read and validated first; the transaction that follows    *)
(* writes the requested status whatever the row holds by then.             *)
(***************************************************************************)
EXTENDS OrderTables

OrderRequest ==
  [kind : {"updateOrderStatus"}, order : Orders, from : OrderStatus, to : OrderStatus]

\* The OrderContextForStateTransition the service builds from the row.
orderContext(u, o) ==
  [userId |-> customer[o], restaurantOwnerId |-> owner[o],
   riderId |-> order[o].riderId,
   isStaffOrOwner |-> u = owner[o] \/ u \in staff[o]]

\* findUnique and validateTransition: user u asks for status `target`.
UpdateOrderStatus(h, u, o, target) ==
  /\ req[h] = Idle
  /\ validateOrderTransition(order[o].status, target, userContext(u), orderContext(u, o))
  /\ Proceed(h, [kind |-> "updateOrderStatus", order |-> o,
                 from |-> order[o].status, to |-> target])
  /\ UNCHANGED rows

CancelOrder(h, u, o) == UpdateOrderStatus(h, u, o, "CANCELLED")

\* The $transaction: new status and its audit row, with the status read before.
CommitOrderStatus(h) ==
  /\ req[h].kind = "updateOrderStatus"
  /\ LET o == req[h].order IN
     /\ order' = [order EXCEPT ![o].status = req[h].to]
     /\ append(o, statusHistoryRow(req[h].from, req[h].to, "updateOrderStatus"))
  /\ Finish(h)
  /\ UNCHANGED <<payment, webhooks, moved, refunded, refundKeys, delivery>>

OrdersNext ==
  \E h \in Handlers :
    \/ \E u \in Users, o \in Orders :
         \/ \E target \in OrderStatus : UpdateOrderStatus(h, u, o, target)
         \/ CancelOrder(h, u, o)
    \/ CommitOrderStatus(h)
=============================================================================
