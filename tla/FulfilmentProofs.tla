--------------------------- MODULE FulfilmentProofs ---------------------------
(***************************************************************************)
(* Theorems of Fulfilment for every set of orders, users, handlers and     *)
(* idempotency keys.  The inductive invariant adds to what is claimed what *)
(* the requests in flight already know; a request keeps its knowledge      *)
(* because the rows it rests on only ever grow or move within bounds.      *)
(***************************************************************************)
EXTENDS Fulfilment, TLAPS

\* The one-line operators the actions are written with.
USE DEF append, upsertDelivery, isValidDeliveryTransition, createPaymentRow, alreadyPaid,
        confirms, cancelOrderOf, isFullRefund, recordRefund

-----------------------------------------------------------------------------
(***************************************************************************)
(* Types.                                                                  *)
(***************************************************************************)

\* The kind of a request tells the record it is (the discriminant of req).
LEMMA RequestShape ==
  ASSUME TypeOK, NEW h \in Handlers
  PROVE  /\ req[h].kind = "updateOrderStatus" => req[h] \in OrderRequest
         /\ req[h].kind \in {"initiatePayment", "createIntent", "succeeded", "failed",
                             "confirm", "refund", "refundCleared", "refundMoved"} =>
              req[h] \in PaymentRequest
         /\ req[h].kind \in {"assignDelivery", "updateDeliveryStatus"} =>
              req[h] \in DeliveryRequest
  BY DEF TypeOK, Idle, OrderRequest, PaymentRequest, DeliveryRequest

\* The initial tables have the shapes of the schema.
LEMMA InitTypeOK == Init => TypeOK
  BY DEF Init, TypeOK, statusHistoryRow, OrderStatus, PaymentStatus, DeliveryStatus, Writers

\* The actions of orders.service.ts keep the shapes.
LEMMA OrdersTypeOK == TypeOK /\ OrdersNext => TypeOK'
<1> SUFFICES ASSUME TypeOK, OrdersNext PROVE TypeOK'
  OBVIOUS
<1> PICK h \in Handlers :
         \/ \E u \in Users, o \in Orders, t \in OrderStatus : UpdateOrderStatus(h, u, o, t)
         \/ CommitOrderStatus(h)
  BY DEF OrdersNext, CancelOrder, OrderStatus
<1>1. ASSUME NEW u \in Users, NEW o \in Orders, NEW t \in OrderStatus,
             UpdateOrderStatus(h, u, o, t)
      PROVE  TypeOK'
  BY <1>1 DEF UpdateOrderStatus, TypeOK, Proceed, rows, OrderRequest
<1>2. CASE CommitOrderStatus(h)
  <2>1. req[h] \in OrderRequest
    BY <1>2, RequestShape DEF CommitOrderStatus
  <2> QED
    BY <1>2, <2>1, SMTT(30) DEF CommitOrderStatus, TypeOK, Finish, Proceed, OrderRequest,
       statusHistoryRow, Writers
<1> QED
  BY <1>1, <1>2

\* The actions of deliveries.service.ts keep the shapes.
LEMMA DeliveriesTypeOK == TypeOK /\ DeliveriesNext => TypeOK'
<1> SUFFICES ASSUME TypeOK, DeliveriesNext PROVE TypeOK'
  OBVIOUS
<1> PICK h \in Handlers :
         \/ \E u \in Users, o \in Orders, r \in Users : AssignDelivery(h, u, o, r)
         \/ \E u \in Users, o \in Orders, t \in DeliveryStatus : UpdateDeliveryStatus(h, u, o, t)
         \/ CommitAssignment(h)
         \/ CommitDeliveryStatus(h)
  BY DEF DeliveriesNext
<1>1. ASSUME NEW u \in Users, NEW o \in Orders, NEW r \in Users, AssignDelivery(h, u, o, r)
      PROVE  TypeOK'
  BY <1>1 DEF AssignDelivery, TypeOK, Proceed, rows, DeliveryRequest
<1>2. ASSUME NEW u \in Users, NEW o \in Orders, NEW t \in DeliveryStatus,
             UpdateDeliveryStatus(h, u, o, t)
      PROVE  TypeOK'
  <2>1. t # "NONE"
    BY <1>2 DEF UpdateDeliveryStatus, AllowedDeliveryTransitions
  <2> QED
    BY <1>2, <2>1 DEF UpdateDeliveryStatus, TypeOK, Proceed, rows, DeliveryRequest
<1>3. CASE CommitAssignment(h)
  <2>1. req[h] \in DeliveryRequest /\ req[h].kind = "assignDelivery"
    BY <1>3, RequestShape DEF CommitAssignment
  <2> QED
    BY <1>3, <2>1 DEF CommitAssignment, TypeOK, Finish, Proceed, DeliveryRequest,
       statusHistoryRow, Writers, OrderStatus, DeliveryStatus
<1>4. CASE CommitDeliveryStatus(h)
  <2>1. req[h] \in DeliveryRequest /\ req[h].kind = "updateDeliveryStatus"
    BY <1>4, RequestShape DEF CommitDeliveryStatus
  <2>2. req[h].to \in DeliveryStatus /\ req[h].from \in OrderStatus /\ req[h].order \in Orders
    BY <2>1 DEF DeliveryRequest
  <2>3. delivery' \in [Orders -> [status : DeliveryStatus, riderId : Users \cup {NULL}]]
    BY <1>4, <2>2 DEF CommitDeliveryStatus, TypeOK
  <2>4. CASE req[h].to \in MirroredStatuses
    <3>1. req[h].to \in OrderStatus
      BY <2>4 DEF MirroredStatuses, OrderStatus
    <3>2. /\ order' = [order EXCEPT ![req[h].order].status = req[h].to]
          /\ history' = [history EXCEPT ![req[h].order] =
               statusHistoryRow(req[h].from, req[h].to, "updateDeliveryStatus")]
      BY <1>4, <2>4 DEF CommitDeliveryStatus
    <3>3. order' \in [Orders -> [status : OrderStatus, riderId : Users \cup {NULL}]]
      BY <2>2, <3>1, <3>2 DEF TypeOK
    <3>4. history' \in [Orders -> [from : OrderStatus \cup {NULL}, to : OrderStatus,
                                  by : Writers]]
      BY <2>2, <3>1, <3>2 DEF TypeOK, statusHistoryRow, Writers
    <3> QED
      BY <1>4, <2>3, <3>3, <3>4 DEF CommitDeliveryStatus, TypeOK, Finish, Proceed
  <2>5. CASE req[h].to \notin MirroredStatuses
    BY <1>4, <2>2, <2>3, <2>5 DEF CommitDeliveryStatus, TypeOK, Finish, Proceed
  <2> QED
    BY <2>4, <2>5
<1> QED
  BY <1>1, <1>2, <1>3, <1>4

\* The actions of payments.service.ts, and the webhooks sent to it, keep the shapes.
LEMMA PaymentsTypeOK == TypeOK /\ PaymentsNext => TypeOK'
<1> SUFFICES ASSUME TypeOK, PaymentsNext PROVE TypeOK'
  OBVIOUS
<1>1. ASSUME NEW o \in Orders, NEW e \in Events, NEW signature \in Signatures,
             SendWebhook(o, e, signature) PROVE TypeOK'
  BY <1>1 DEF SendWebhook, TypeOK
<1>2. ASSUME NEW h \in Handlers, NEW o \in Orders, InitiatePayment(h, o) PROVE TypeOK'
  BY <1>2 DEF InitiatePayment, TypeOK, Proceed, rows, PaymentRequest
<1>3. ASSUME NEW h \in Handlers, NEW o \in Orders, NEW e \in Events,
             ProcessWebhook(h, o, e)
      PROVE  TypeOK'
  BY <1>3 DEF ProcessWebhook, TypeOK, Proceed, rows, PaymentRequest, Events
<1>4. ASSUME NEW h \in Handlers, NEW o \in Orders, NEW a \in RefundAmounts,
             NEW k \in Keys \cup {NULL}, ProcessRefund(h, o, a, k)
      PROVE  TypeOK'
  BY <1>4 DEF ProcessRefund, TypeOK, Proceed, rows, PaymentRequest
<1>5. ASSUME NEW h \in Handlers, FindExistingPayment(h) PROVE TypeOK'
  <2>1. req[h] \in PaymentRequest /\ req[h].kind = "initiatePayment"
    BY <1>5, RequestShape DEF FindExistingPayment
  <2>2. [req[h] EXCEPT !.kind = "createIntent"] \in PaymentRequest
    BY <2>1 DEF PaymentRequest
  <2> QED
    BY <1>5, <2>2 DEF FindExistingPayment, TypeOK, Finish, Proceed, rows
<1>6. ASSUME NEW h \in Handlers, CreatePayment(h) PROVE TypeOK'
  <2>1. req[h] \in PaymentRequest /\ req[h].kind = "createIntent"
    BY <1>6, RequestShape DEF CreatePayment
  <2> QED
    BY <1>6, <2>1 DEF CreatePayment, TypeOK, Finish, Proceed, PaymentRequest, PaymentStatus
<1>7. ASSUME NEW h \in Handlers, LockPaymentReadOrder(h) PROVE TypeOK'
  <2>1. req[h] \in PaymentRequest /\ req[h].kind = "succeeded"
    BY <1>7, RequestShape DEF LockPaymentReadOrder
  <2>2. req[h].order \in Orders
    BY <2>1 DEF PaymentRequest
  <2> QED
    BY <1>7, <2>2 DEF LockPaymentReadOrder, TypeOK, Proceed, rows, PaymentRequest
<1>8. ASSUME NEW h \in Handlers, CommitPaid(h) PROVE TypeOK'
  <2>1. req[h] \in PaymentRequest /\ req[h].kind = "confirm"
    BY <1>8, RequestShape DEF CommitPaid
  <2>2. req[h].order \in Orders
    BY <2>1 DEF PaymentRequest
  <2>3. payment' \in [Orders -> PaymentStatus]
    BY <1>8, <2>2 DEF CommitPaid, TypeOK, PaymentStatus
  <2>4. CASE req[h].seen = "PENDING"
    <3>1. order' = [order EXCEPT ![req[h].order].status = "CONFIRMED"]
      BY <1>8, <2>4 DEF CommitPaid
    <3>2. history' = [history EXCEPT ![req[h].order] =
                        statusHistoryRow("PENDING", "CONFIRMED", "processWebhook")]
      BY <1>8, <2>4 DEF CommitPaid
    <3>3. order' \in [Orders -> [status : OrderStatus, riderId : Users \cup {NULL}]]
      BY <2>2, <3>1, SMTT(30) DEF TypeOK, OrderStatus
    <3>4. history' \in [Orders -> [from : OrderStatus \cup {NULL}, to : OrderStatus,
                                  by : Writers]]
      BY <2>2, <3>2 DEF TypeOK, OrderStatus, statusHistoryRow, Writers
    <3> QED
      BY <1>8, <2>3, <3>3, <3>4 DEF CommitPaid, TypeOK, Finish, Proceed
  <2>5. CASE req[h].seen # "PENDING"
    BY <1>8, <2>3, <2>5 DEF CommitPaid, TypeOK, Finish, Proceed
  <2> QED
    BY <2>4, <2>5
<1>9. ASSUME NEW h \in Handlers, CommitFailed(h) PROVE TypeOK'
  <2>1. req[h] \in PaymentRequest /\ req[h].kind = "failed"
    BY <1>9, RequestShape DEF CommitFailed
  <2>2. req[h].order \in Orders
    BY <2>1 DEF PaymentRequest
  <2> QED
    BY <1>9, <2>2, ZenonT(60) DEF CommitFailed, TypeOK, Finish, Proceed, OrderStatus, PaymentStatus
<1>10. ASSUME NEW h \in Handlers, FindExistingRefund(h) PROVE TypeOK'
  <2>1. req[h] \in PaymentRequest /\ req[h].kind = "refund"
    BY <1>10, RequestShape DEF FindExistingRefund
  <2>2. [req[h] EXCEPT !.kind = "refundCleared"] \in PaymentRequest
    BY <2>1 DEF PaymentRequest
  <2> QED
    BY <1>10, <2>2 DEF FindExistingRefund, TypeOK, Finish, Proceed, rows
<1>11. ASSUME NEW h \in Handlers, GatewayRefund(h) PROVE TypeOK'
  <2>1. req[h] \in PaymentRequest /\ req[h].kind = "refundCleared"
    BY <1>11, RequestShape DEF GatewayRefund
  <2>2. /\ req[h].order \in Orders
        /\ req[h].amount \in RefundAmounts
        /\ req[h].key \in Keys \cup {NULL}
    BY <2>1 DEF PaymentRequest
  <2> PICK r \in Refund :
         /\ moved' = [moved EXCEPT ![req[h].order] = @ \cup {r}]
         /\ Proceed(h, [kind |-> "refundMoved", order |-> req[h].order,
                        refund |-> r, key |-> req[h].key])
    BY <1>11, <2>2 DEF GatewayRefund, unusedIds, Refund
  <2>3. moved' \in [Orders -> SUBSET Refund]
    BY <2>2 DEF TypeOK
  <2>4. [kind |-> "refundMoved", order |-> req[h].order, refund |-> r, key |-> req[h].key]
          \in PaymentRequest
    BY <2>2 DEF PaymentRequest
  <2> QED
    BY <1>11, <2>3, <2>4 DEF GatewayRefund, TypeOK, Proceed
<1>12. ASSUME NEW h \in Handlers, CommitRefund(h) PROVE TypeOK'
  <2>1. req[h] \in PaymentRequest /\ req[h].kind = "refundMoved"
    BY <1>12, RequestShape DEF CommitRefund
  <2>2. /\ req[h].order \in Orders
        /\ req[h].refund \in Refund
        /\ {req[h].key} \ {NULL} \subseteq Keys
    BY <2>1 DEF PaymentRequest
  <2>3. refunded' \in [Orders -> SUBSET Refund] /\ refundKeys' \subseteq Keys
    BY <1>12, <2>2 DEF CommitRefund, TypeOK
  <2>4. payment' \in [Orders -> PaymentStatus]
    BY <1>12, <2>2 DEF CommitRefund, TypeOK, PaymentStatus
  <2> QED
    BY <1>12, <2>3, <2>4 DEF CommitRefund, TypeOK, Finish, Proceed
<1> QED
  BY <1>1, <1>2, <1>3, <1>4, <1>5, <1>6, <1>7, <1>8, <1>9, <1>10, <1>11, <1>12
     DEF PaymentsNext

\* A request that dies leaves every row as it was.
LEMMA AbandonTypeOK ==
  ASSUME TypeOK, NEW h \in Handlers, Abandon(h) PROVE TypeOK'
  BY DEF TypeOK, Abandon, Finish, Proceed, rows

(***************************************************************************)
(* The tables and the requests in flight keep the shapes of the schema, in *)
(* every interleaving of the three services.                               *)
(***************************************************************************)
THEOREM TypeCorrect == Spec => []TypeOK
<1>1. TypeOK /\ [Next]_vars => TypeOK'
  <2> SUFFICES ASSUME TypeOK, [Next]_vars PROVE TypeOK'
    OBVIOUS
  <2>1. CASE Next
    BY <2>1, OrdersTypeOK, PaymentsTypeOK, DeliveriesTypeOK, AbandonTypeOK DEF Next
  <2>2. CASE UNCHANGED vars
    BY <2>2 DEF TypeOK, vars, rows
  <2> QED
    BY <2>1, <2>2
<1> QED
  BY <1>1, InitTypeOK, PTL DEF Spec

-----------------------------------------------------------------------------
(***************************************************************************)
(* The inductive invariant.                                                *)
(***************************************************************************)

\* It holds of freshly placed orders.
LEMMA InitIInv == Init => IInv
  BY InitTypeOK, NullIsNoValue
     DEF Init, IInv, HistoryExplainsStatus, AuditedEdges, RiderAgreement,
         PaymentFollowsWebhooks, RefundStatusBacked, RefundLedger, recording,
         AttemptsHavePayment, InFlightKnows, knows, Idle, statusHistoryRow

\* No request gets to the point of recording a refund in this step.
NoneToRecord ==
  \A g \in Handlers : req'[g].kind = "refundMoved" => req'[g] = req[g]

\* The ledger stands while no request pays back or records.
LEMMA LedgerKept ==
  ASSUME RefundLedger, UNCHANGED <<moved, refunded>>,
         NoneToRecord
  PROVE  RefundLedger'
<1>1. /\ recording' \subseteq recording
      /\ \A g \in recording' : req'[g] = req[g]
  BY DEF recording, NoneToRecord
<1> QED
  BY <1>1 DEF RefundLedger

\* A step that only reads has to show what the reader knows, nothing else.
LEMMA ReadIInv ==
  ASSUME IInv, TypeOK', InFlightKnows', UNCHANGED rows,
         NoneToRecord
  PROVE  IInv'
<1>1. RefundLedger'
  BY LedgerKept DEF IInv, rows
<1> QED
  BY <1>1 DEF IInv, rows, HistoryExplainsStatus, AuditedEdges, RiderAgreement,
         PaymentFollowsWebhooks, RefundStatusBacked, AttemptsHavePayment

\* orders.service.ts preserves it: what is committed was validated when read.
LEMMA OrdersIInv == IInv /\ TypeOK' /\ OrdersNext => IInv'
<1> SUFFICES ASSUME IInv, TypeOK', OrdersNext PROVE IInv'
  OBVIOUS
<1> USE DEF IInv
<1> PICK h \in Handlers :
         \/ \E u \in Users, o \in Orders, t \in OrderStatus : UpdateOrderStatus(h, u, o, t)
         \/ CommitOrderStatus(h)
  BY DEF OrdersNext, CancelOrder, OrderStatus
<1>1. ASSUME NEW u \in Users, NEW o \in Orders, NEW t \in OrderStatus,
             UpdateOrderStatus(h, u, o, t)
      PROVE  IInv'
  <2>1. InFlightKnows'
    BY <1>1 DEF UpdateOrderStatus, validateOrderTransition, TypeOK, Proceed, rows,
       InFlightKnows, knows
  <2>2. NoneToRecord
    BY <1>1 DEF NoneToRecord, UpdateOrderStatus, TypeOK, Proceed, rows
  <2> QED
    BY <1>1, <2>1, <2>2, ReadIInv DEF UpdateOrderStatus
<1>2. CASE CommitOrderStatus(h)
  <2>1. req[h] \in OrderRequest /\ knows(req[h]) /\ req[h].kind = "updateOrderStatus"
    BY <1>2, RequestShape DEF CommitOrderStatus, InFlightKnows
  <2>2. req[h].order \in Orders /\ isValidOrderTransition(req[h].from, req[h].to)
    BY <2>1 DEF OrderRequest, knows
  <2>3. HistoryExplainsStatus'
    BY <1>2, <2>2 DEF CommitOrderStatus, TypeOK, HistoryExplainsStatus, statusHistoryRow
  <2>4. AuditedEdges'
    BY <1>2, <2>2 DEF CommitOrderStatus, TypeOK, AuditedEdges, statusHistoryRow
  <2>5. RiderAgreement'
    BY <1>2, <2>2 DEF CommitOrderStatus, TypeOK, RiderAgreement
  <2>6. PaymentFollowsWebhooks'
    BY <1>2, <2>2 DEF CommitOrderStatus, TypeOK, PaymentFollowsWebhooks, statusHistoryRow
  <2>7. RefundStatusBacked'
    BY <1>2 DEF CommitOrderStatus, RefundStatusBacked
  <2>8. InFlightKnows'
    BY <1>2 DEF CommitOrderStatus, TypeOK, InFlightKnows, knows, Finish, Proceed, Idle
  <2>9. RefundLedger'
    BY <1>2, LedgerKept DEF CommitOrderStatus, NoneToRecord, TypeOK, Finish, Proceed, Idle
  <2>10. AttemptsHavePayment'
    BY <1>2 DEF CommitOrderStatus, AttemptsHavePayment
  <2> QED
    BY <2>3, <2>4, <2>5, <2>6, <2>7, <2>8, <2>9, <2>10
<1> QED
  BY <1>1, <1>2

\* deliveries.service.ts preserves it: order and delivery are written together.
LEMMA DeliveriesIInv == IInv /\ TypeOK' /\ DeliveriesNext => IInv'
<1> SUFFICES ASSUME IInv, TypeOK', DeliveriesNext PROVE IInv'
  OBVIOUS
<1> USE DEF IInv
<1> PICK h \in Handlers :
         \/ \E u \in Users, o \in Orders, r \in Users : AssignDelivery(h, u, o, r)
         \/ \E u \in Users, o \in Orders, t \in DeliveryStatus : UpdateDeliveryStatus(h, u, o, t)
         \/ CommitAssignment(h)
         \/ CommitDeliveryStatus(h)
  BY DEF DeliveriesNext
<1>1. ASSUME NEW u \in Users, NEW o \in Orders, NEW r \in Users, AssignDelivery(h, u, o, r)
      PROVE  IInv'
  <2>1. InFlightKnows'
    BY <1>1 DEF AssignDelivery, TypeOK, Proceed, rows, InFlightKnows, knows
  <2>2. NoneToRecord
    BY <1>1 DEF NoneToRecord, AssignDelivery, TypeOK, Proceed, rows
  <2> QED
    BY <1>1, <2>1, <2>2, ReadIInv DEF AssignDelivery
<1>2. ASSUME NEW u \in Users, NEW o \in Orders, NEW t \in DeliveryStatus,
             UpdateDeliveryStatus(h, u, o, t)
      PROVE  IInv'
  <2>1. InFlightKnows'
    BY <1>2 DEF UpdateDeliveryStatus, TypeOK, Proceed, rows, InFlightKnows, knows
  <2>2. NoneToRecord
    BY <1>2 DEF NoneToRecord, UpdateDeliveryStatus, TypeOK, Proceed, rows
  <2> QED
    BY <1>2, <2>1, <2>2, ReadIInv DEF UpdateDeliveryStatus
<1>3. CASE CommitAssignment(h)
  <2>1. req[h] \in DeliveryRequest /\ req[h].kind = "assignDelivery"
    BY <1>3, RequestShape DEF CommitAssignment
  <2>2. req[h].order \in Orders /\ req[h].rider \in Users
    BY <2>1 DEF DeliveryRequest
  <2>3. HistoryExplainsStatus'
    BY <1>3, <2>2 DEF CommitAssignment, TypeOK, HistoryExplainsStatus, statusHistoryRow
  <2>4. AuditedEdges'
    BY <1>3, <2>2 DEF CommitAssignment, TypeOK, AuditedEdges, statusHistoryRow
  <2>5. RiderAgreement'
    BY <1>3, <2>2, NullIsNoValue DEF CommitAssignment, TypeOK, RiderAgreement
  <2>6. PaymentFollowsWebhooks'
    BY <1>3, <2>2 DEF CommitAssignment, TypeOK, PaymentFollowsWebhooks, statusHistoryRow
  <2>7. RefundStatusBacked'
    BY <1>3 DEF CommitAssignment, RefundStatusBacked
  <2>8. InFlightKnows'
    BY <1>3, <2>2, RequestShape DEF CommitAssignment, TypeOK, InFlightKnows, knows, Finish,
       Proceed, Idle, DeliveryRequest
  <2>9. RefundLedger'
    BY <1>3, LedgerKept DEF CommitAssignment, NoneToRecord, TypeOK, Finish, Proceed, Idle
  <2>10. AttemptsHavePayment'
    BY <1>3 DEF CommitAssignment, AttemptsHavePayment
  <2> QED
    BY <2>3, <2>4, <2>5, <2>6, <2>7, <2>8, <2>9, <2>10
<1>4. CASE CommitDeliveryStatus(h)
  <2>1. req[h] \in DeliveryRequest /\ req[h].kind = "updateDeliveryStatus" /\ knows(req[h])
    BY <1>4, RequestShape DEF CommitDeliveryStatus, InFlightKnows
  <2>2. /\ req[h].order \in Orders
        /\ req[h].to # "NONE"
        /\ delivery[req[h].order].status # "NONE"
    BY <2>1 DEF DeliveryRequest, knows
  <2>3. HistoryExplainsStatus'
    BY <1>4, <2>2 DEF CommitDeliveryStatus, TypeOK, HistoryExplainsStatus, statusHistoryRow
  <2>4. AuditedEdges'
    BY <1>4, <2>2 DEF CommitDeliveryStatus, TypeOK, AuditedEdges, statusHistoryRow
  <2>5. RiderAgreement'
    <3>1. CASE req[h].to \in MirroredStatuses
      <4>1. order' = [order EXCEPT ![req[h].order].status = req[h].to]
        BY <1>4, <3>1 DEF CommitDeliveryStatus
      <4>2. delivery' = [delivery EXCEPT ![req[h].order].status = req[h].to]
        BY <1>4 DEF CommitDeliveryStatus
      <4> QED
        BY <2>2, <4>1, <4>2 DEF TypeOK, RiderAgreement
    <3>2. CASE req[h].to \notin MirroredStatuses
      BY <1>4, <2>2, <3>2 DEF CommitDeliveryStatus, TypeOK, RiderAgreement
    <3> QED
      BY <3>1, <3>2
  <2>6. PaymentFollowsWebhooks'
    BY <1>4, <2>2 DEF CommitDeliveryStatus, TypeOK, PaymentFollowsWebhooks, statusHistoryRow
  <2>7. RefundStatusBacked'
    BY <1>4 DEF CommitDeliveryStatus, RefundStatusBacked
  <2>8. InFlightKnows'
    <3>1. \A o \in Orders : delivery[o].status # "NONE" => delivery'[o].status # "NONE"
      BY <1>4, <2>2 DEF CommitDeliveryStatus, TypeOK
    <3>2. \A g \in Handlers :
            req[g].kind = "updateDeliveryStatus" => req[g].order \in Orders
      BY RequestShape DEF DeliveryRequest
    <3>3. webhooks' = webhooks /\ req' = [req EXCEPT ![h] = Idle]
      BY <1>4 DEF CommitDeliveryStatus, Finish, Proceed
    <3> QED
      BY <3>1, <3>2, <3>3 DEF TypeOK, InFlightKnows, knows, Idle
  <2>9. RefundLedger'
    BY <1>4, LedgerKept DEF CommitDeliveryStatus, NoneToRecord, TypeOK, Finish, Proceed, Idle
  <2>10. AttemptsHavePayment'
    BY <1>4 DEF CommitDeliveryStatus, AttemptsHavePayment
  <2> QED
    BY <2>3, <2>4, <2>5, <2>6, <2>7, <2>8, <2>9, <2>10
<1> QED
  BY <1>1, <1>2, <1>3, <1>4

\* A request that dies takes its knowledge with it.
LEMMA AbandonIInv ==
  ASSUME IInv, TypeOK', NEW h \in Handlers, Abandon(h) PROVE IInv'
<1>1. InFlightKnows'
  BY DEF IInv, Abandon, TypeOK, Finish, Proceed, Idle, rows, InFlightKnows, knows
<1>2. NoneToRecord
  BY DEF NoneToRecord, IInv, Abandon, TypeOK, Finish, Proceed, Idle
<1> QED
  BY <1>1, <1>2, ReadIInv DEF Abandon

\* A refund the gateway pays back is new, and its request is about to record it.
LEMMA GatewayRefundLedger ==
  ASSUME IInv, NEW h \in Handlers, GatewayRefund(h), req[h].order \in Orders
  PROVE  RefundLedger'
<1> DEFINE o == req[h].order
<1> PICK id \in unusedIds :
       /\ moved' = [moved EXCEPT ![o] = @ \cup {[id |-> id, amount |-> req[h].amount]}]
       /\ Proceed(h, [kind |-> "refundMoved", order |-> o,
                      refund |-> [id |-> id, amount |-> req[h].amount], key |-> req[h].key])
  BY DEF GatewayRefund
<1> DEFINE r == [id |-> id, amount |-> req[h].amount]
<1>1. /\ moved \in [Orders -> SUBSET Refund]
      /\ o \in Orders
      /\ UNCHANGED refunded
      /\ \A p \in Orders : \A s \in moved[p] : s.id # r.id
  BY DEF GatewayRefund, unusedIds, IInv, TypeOK
<1>2. /\ r \notin moved[o]
      /\ moved' = [moved EXCEPT ![o] = @ \cup {r}]
  BY <1>1
<1>3. /\ recording' = recording \cup {h} /\ h \notin recording
      /\ req'[h].order = o /\ req'[h].refund = r
      /\ \A g \in recording : req'[g] = req[g] /\ req[g].order \in Orders
    <2>1. req' = [req EXCEPT ![h] = [kind |-> "refundMoved", order |-> o,
                                     refund |-> r, key |-> req[h].key]]
      BY DEF Proceed
    <2>2. req[h].kind = "refundCleared"
      BY DEF GatewayRefund
    <2>3. \A g \in recording : req[g].order \in Orders
      BY RequestShape DEF recording, IInv, PaymentRequest
    <2> QED
      BY <2>1, <2>2, <2>3 DEF recording, IInv, TypeOK
<1>4. \A p \in Orders : moved[p] \subseteq moved'[p] /\ refunded[p] \subseteq moved[p]
  BY <1>1, <1>2 DEF IInv, RefundLedger
<1>5. \A p \in Orders : refunded'[p] \subseteq moved'[p]
  BY <1>1, <1>4
<1>6. \A g \in recording' :
        /\ req'[g].refund \in moved'[req'[g].order] \ refunded'[req'[g].order]
        /\ \A f \in recording' \ {g} : req'[f].refund # req'[g].refund
  <2>1. \A g \in recording : /\ req[g].refund \in moved[req[g].order] \ refunded[req[g].order]
                             /\ req[g].refund # r
                             /\ \A f \in recording \ {g} : req[f].refund # req[g].refund
    BY <1>1, <1>3 DEF IInv, RefundLedger
  <2>2. r \in moved'[o] \ refunded'[o]
    BY <1>1, <1>2, <1>4
  <2> QED
    BY <1>1, <1>3, <1>4, <2>1, <2>2
<1>7. \A p, q \in Orders : \A s \in moved'[p], t \in moved'[q] :
        s.id = t.id => p = q /\ s = t
  <2>1. \A p, q \in Orders : \A s \in moved[p], t \in moved[q] :
          s.id = t.id => p = q /\ s = t
    BY DEF IInv, RefundLedger
  <2>2. \A p \in Orders : \A s \in moved'[p] : s \in moved[p] \/ (p = o /\ s = r)
    BY <1>1, <1>2
  <2> QED
    BY <1>1, <2>1, <2>2
<1> QED
  BY <1>5, <1>6, <1>7 DEF RefundLedger

\* A refund is recorded by the one request that holds it, which ends, or it is lost.
LEMMA CommitRefundLedger ==
  ASSUME IInv, NEW h \in Handlers, CommitRefund(h), req[h].order \in Orders
  PROVE  RefundLedger'
<1>1. /\ req' = [req EXCEPT ![h] = Idle] /\ UNCHANGED moved
      /\ h \in recording
      /\ \/ UNCHANGED refunded
         \/ refunded' = [refunded EXCEPT ![req[h].order] = @ \cup {req[h].refund}]
  BY DEF CommitRefund, Finish, Proceed, recording
<1>2. /\ recording' = recording \ {h}
      /\ \A g \in recording' : req'[g] = req[g]
  BY <1>1 DEF recording, IInv, TypeOK, Idle
<1>3. \A p \in Orders : refunded'[p] \subseteq refunded[p] \cup {req[h].refund}
  BY <1>1 DEF IInv, TypeOK
<1>4. \A p \in Orders : refunded'[p] \subseteq moved[p]
  <2>1. /\ \A p \in Orders : refunded[p] \subseteq moved[p]
        /\ req[h].refund \in moved[req[h].order]
    BY <1>1 DEF IInv, RefundLedger
  <2>2. \A p \in Orders : p # req[h].order => refunded'[p] = refunded[p]
    BY <1>1 DEF IInv, TypeOK
  <2> QED
    BY <1>3, <2>1, <2>2
<1>5. \A g \in recording' :
        /\ req[g].refund \in moved[req[g].order] \ refunded'[req[g].order]
        /\ \A f \in recording' \ {g} : req[f].refund # req[g].refund
  <2>1. \A g \in recording : req[g].order \in Orders
    BY RequestShape DEF recording, IInv, PaymentRequest
  <2> QED
    BY <1>1, <1>2, <1>3, <2>1 DEF IInv, RefundLedger
<1> QED
  BY <1>1, <1>2, <1>4, <1>5 DEF IInv, RefundLedger

\* payments.service.ts preserves it: every webhook and refund in flight rests
\* on an accepted event, and events stay.
LEMMA PaymentsIInv == IInv /\ TypeOK' /\ PaymentsNext => IInv'
<1> SUFFICES ASSUME IInv, TypeOK', PaymentsNext PROVE IInv'
  OBVIOUS
<1> USE DEF IInv
<1>1. ASSUME NEW o \in Orders, NEW e \in Events, NEW signature \in Signatures,
             SendWebhook(o, e, signature) PROVE IInv'
  <2>1. \A x \in Orders : webhooks[x] \subseteq webhooks'[x]
    BY <1>1 DEF SendWebhook, TypeOK
  <2>2. UNCHANGED <<order, history, payment, moved, refunded, refundKeys, delivery, req>>
    BY <1>1 DEF SendWebhook
  <2>3. \A h \in Handlers : req[h] # Idle => req[h].order \in Orders
    BY DEF TypeOK, OrderRequest, PaymentRequest, DeliveryRequest
  <2>4. InFlightKnows'
    BY <2>1, <2>2, <2>3 DEF InFlightKnows, knows, Idle
  <2>5. RefundLedger'
    BY <2>2, LedgerKept DEF NoneToRecord
  <2>6. AttemptsHavePayment'
    BY <1>1 DEF SendWebhook, TypeOK, AttemptsHavePayment
  <2> QED
    BY <2>1, <2>2, <2>4, <2>5, <2>6 DEF HistoryExplainsStatus, AuditedEdges, RiderAgreement,
       PaymentFollowsWebhooks, RefundStatusBacked
<1>2. ASSUME NEW h \in Handlers, NEW o \in Orders, InitiatePayment(h, o) PROVE IInv'
  <2>1. InFlightKnows'
    BY <1>2 DEF InitiatePayment, TypeOK, Proceed, rows, InFlightKnows, knows
  <2>2. NoneToRecord
    BY <1>2 DEF NoneToRecord, InitiatePayment, TypeOK, Proceed, rows
  <2> QED
    BY <1>2, <2>1, <2>2, ReadIInv DEF InitiatePayment
<1>3. ASSUME NEW h \in Handlers, NEW o \in Orders, NEW e \in Events,
             ProcessWebhook(h, o, e)
      PROVE  IInv'
  <2>1. InFlightKnows'
    BY <1>3 DEF ProcessWebhook, Events, TypeOK, Proceed, rows, InFlightKnows, knows
  <2>2. NoneToRecord
    BY <1>3 DEF NoneToRecord, ProcessWebhook, Events, TypeOK, Proceed, rows
  <2> QED
    BY <1>3, <2>1, <2>2, ReadIInv DEF ProcessWebhook
<1>4. ASSUME NEW h \in Handlers, NEW o \in Orders, NEW a \in RefundAmounts,
             NEW k \in Keys \cup {NULL}, ProcessRefund(h, o, a, k)
      PROVE  IInv'
  <2>1. "succeeded" \in webhooks[o]
    BY <1>4 DEF ProcessRefund, PaymentFollowsWebhooks
  <2>2. InFlightKnows'
    BY <1>4, <2>1 DEF ProcessRefund, TypeOK, Proceed, rows, InFlightKnows, knows
  <2>3. NoneToRecord
    BY <1>4 DEF NoneToRecord, ProcessRefund, TypeOK, Proceed, rows
  <2> QED
    BY <1>4, <2>2, <2>3, ReadIInv DEF ProcessRefund
<1>5. ASSUME NEW h \in Handlers, FindExistingPayment(h) PROVE IInv'
  <2>1. req[h] \in PaymentRequest
    BY <1>5, RequestShape DEF FindExistingPayment
  <2>2. knows([req[h] EXCEPT !.kind = "createIntent"]) /\ knows(Idle)
    BY <2>1 DEF knows, PaymentRequest, Idle
  <2>3. \/ req' = [req EXCEPT ![h] = [req[h] EXCEPT !.kind = "createIntent"]]
        \/ req' = [req EXCEPT ![h] = Idle]
    BY <1>5 DEF FindExistingPayment, Proceed, Finish
  <2>4. \A g \in Handlers : knows(req'[g])
    BY <2>2, <2>3 DEF TypeOK, InFlightKnows
  <2>5. InFlightKnows'
    BY <1>5, <2>4 DEF FindExistingPayment, rows, InFlightKnows, knows
  <2>6. NoneToRecord
    BY <2>1, <2>3 DEF NoneToRecord, TypeOK, PaymentRequest, Idle
  <2> QED
    BY <1>5, <2>5, <2>6, ReadIInv DEF FindExistingPayment
<1>6. ASSUME NEW h \in Handlers, CreatePayment(h) PROVE IInv'
  <2>1. req[h] \in PaymentRequest
    BY <1>6, RequestShape DEF CreatePayment
  <2>2. /\ \A o \in Orders : payment'[o] = payment[o] \/ (payment[o] = "NONE" /\ payment'[o] = "PENDING")
        /\ UNCHANGED <<order, history, webhooks, moved, refunded, refundKeys, delivery>>
    BY <1>6, <2>1 DEF CreatePayment, TypeOK, PaymentRequest
  <2>3. InFlightKnows'
    BY <1>6 DEF CreatePayment, TypeOK, Proceed, Finish, Idle, InFlightKnows, knows
  <2>4. PaymentFollowsWebhooks'
    BY <2>2 DEF PaymentFollowsWebhooks
  <2>5. RefundStatusBacked'
    BY <2>2 DEF RefundStatusBacked
  <2>6. RefundLedger'
    BY <1>6, LedgerKept DEF CreatePayment, NoneToRecord, TypeOK, Finish, Proceed, Idle
  <2>7. AttemptsHavePayment'
    BY <2>2 DEF AttemptsHavePayment
  <2> QED
    BY <2>2, <2>3, <2>4, <2>5, <2>6, <2>7 DEF HistoryExplainsStatus, AuditedEdges, RiderAgreement
<1>7. ASSUME NEW h \in Handlers, LockPaymentReadOrder(h) PROVE IInv'
  <2>1. req[h].kind = "succeeded" /\ knows(req[h])
    BY <1>7 DEF LockPaymentReadOrder, InFlightKnows
  <2>2. InFlightKnows'
    BY <1>7, <2>1 DEF LockPaymentReadOrder, TypeOK, Proceed, rows, InFlightKnows, knows
  <2>3. NoneToRecord
    BY <1>7 DEF NoneToRecord, LockPaymentReadOrder, TypeOK, Proceed, rows
  <2> QED
    BY <1>7, <2>2, <2>3, ReadIInv DEF LockPaymentReadOrder
<1>8. ASSUME NEW h \in Handlers, CommitPaid(h) PROVE IInv'
  <2>1. req[h] \in PaymentRequest /\ req[h].kind = "confirm" /\ knows(req[h])
    BY <1>8, RequestShape DEF CommitPaid, InFlightKnows
  <2>2. req[h].order \in Orders /\ "succeeded" \in webhooks[req[h].order]
    BY <2>1 DEF PaymentRequest, knows
  <2>3. HistoryExplainsStatus'
    BY <1>8, <2>2 DEF CommitPaid, TypeOK, HistoryExplainsStatus, statusHistoryRow
  <2>4. AuditedEdges'
    BY <1>8, <2>2 DEF CommitPaid, TypeOK, AuditedEdges, statusHistoryRow,
       isValidOrderTransition, AllowedTransitions
  <2>5. RiderAgreement'
    <3>1. CASE req[h].seen = "PENDING"
      <4>1. order' = [order EXCEPT ![req[h].order].status = "CONFIRMED"]
        BY <1>8, <3>1 DEF CommitPaid
      <4> QED
        BY <1>8, <2>2, <4>1 DEF CommitPaid, TypeOK, RiderAgreement
    <3>2. CASE req[h].seen # "PENDING"
      BY <1>8, <3>2 DEF CommitPaid, RiderAgreement
    <3> QED
      BY <3>1, <3>2
  <2>6. PaymentFollowsWebhooks'
    BY <1>8, <2>2 DEF CommitPaid, TypeOK, PaymentFollowsWebhooks, statusHistoryRow
  <2>7. RefundStatusBacked'
    BY <1>8, <2>2 DEF CommitPaid, TypeOK, RefundStatusBacked
  <2>8. InFlightKnows'
    BY <1>8 DEF CommitPaid, TypeOK, Proceed, Finish, Idle, InFlightKnows, knows
  <2>9. RefundLedger'
    BY <1>8, LedgerKept DEF CommitPaid, NoneToRecord, TypeOK, Finish, Proceed, Idle
  <2>10. AttemptsHavePayment'
    BY <1>8, <2>2 DEF CommitPaid, TypeOK, AttemptsHavePayment
  <2> QED
    BY <2>3, <2>4, <2>5, <2>6, <2>7, <2>8, <2>9, <2>10
<1>9. ASSUME NEW h \in Handlers, CommitFailed(h) PROVE IInv'
  <2>1. req[h] \in PaymentRequest /\ req[h].kind = "failed" /\ knows(req[h])
    BY <1>9, RequestShape DEF CommitFailed, InFlightKnows
  <2>2. req[h].order \in Orders /\ "failed" \in webhooks[req[h].order]
    BY <2>1 DEF PaymentRequest, knows
  <2>3. HistoryExplainsStatus'
    BY <1>9, <2>2 DEF CommitFailed, TypeOK, HistoryExplainsStatus
  <2>4. AuditedEdges'
    BY <1>9 DEF CommitFailed, AuditedEdges
  <2>5. RiderAgreement'
    BY <1>9, <2>2 DEF CommitFailed, TypeOK, RiderAgreement
  <2>6. PaymentFollowsWebhooks'
    BY <1>9, <2>2 DEF CommitFailed, TypeOK, PaymentFollowsWebhooks
  <2>7. RefundStatusBacked'
    BY <1>9, <2>2 DEF CommitFailed, TypeOK, RefundStatusBacked
  <2>8. InFlightKnows'
    BY <1>9 DEF CommitFailed, TypeOK, Proceed, Finish, Idle, InFlightKnows, knows
  <2>9. RefundLedger'
    BY <1>9, LedgerKept DEF CommitFailed, NoneToRecord, TypeOK, Finish, Proceed, Idle
  <2>10. AttemptsHavePayment'
    BY <1>9, <2>2 DEF CommitFailed, TypeOK, AttemptsHavePayment
  <2> QED
    BY <2>3, <2>4, <2>5, <2>6, <2>7, <2>8, <2>9, <2>10
<1>10. ASSUME NEW h \in Handlers, FindExistingRefund(h) PROVE IInv'
  <2>1. req[h] \in PaymentRequest /\ req[h].kind = "refund" /\ knows(req[h])
    BY <1>10, RequestShape DEF FindExistingRefund, InFlightKnows
  <2>2. knows([req[h] EXCEPT !.kind = "refundCleared"]) /\ knows(Idle)
    BY <2>1 DEF knows, PaymentRequest, Idle
  <2>3. \/ req' = [req EXCEPT ![h] = [req[h] EXCEPT !.kind = "refundCleared"]]
        \/ req' = [req EXCEPT ![h] = Idle]
    BY <1>10 DEF FindExistingRefund, Proceed, Finish
  <2>4. \A g \in Handlers : knows(req'[g])
    BY <2>2, <2>3 DEF TypeOK, InFlightKnows
  <2>5. InFlightKnows'
    BY <1>10, <2>4 DEF FindExistingRefund, rows, InFlightKnows, knows
  <2>6. NoneToRecord
    BY <2>1, <2>3 DEF NoneToRecord, TypeOK, PaymentRequest, Idle
  <2> QED
    BY <1>10, <2>5, <2>6, ReadIInv DEF FindExistingRefund
<1>11. ASSUME NEW h \in Handlers, GatewayRefund(h) PROVE IInv'
  <2>1. req[h] \in PaymentRequest /\ req[h].kind = "refundCleared" /\ knows(req[h])
    BY <1>11, RequestShape DEF GatewayRefund, InFlightKnows
  <2>2. req[h].order \in Orders /\ "succeeded" \in webhooks[req[h].order]
    BY <2>1 DEF PaymentRequest, knows
  <2>3. UNCHANGED <<order, history, payment, webhooks, refunded, refundKeys, delivery>>
    BY <1>11 DEF GatewayRefund
  <2>4. RefundStatusBacked'
    BY <1>11, <2>2, <2>3 DEF GatewayRefund, TypeOK, RefundStatusBacked
  <2>5. InFlightKnows'
    BY <1>11, <2>2 DEF GatewayRefund, TypeOK, Proceed, InFlightKnows, knows
  <2>6. RefundLedger'
    BY <1>11, <2>2, GatewayRefundLedger
  <2>7. AttemptsHavePayment'
    BY <2>3 DEF AttemptsHavePayment
  <2> QED
    BY <2>3, <2>4, <2>5, <2>6, <2>7 DEF HistoryExplainsStatus, AuditedEdges, RiderAgreement,
       PaymentFollowsWebhooks
<1>12. ASSUME NEW h \in Handlers, CommitRefund(h) PROVE IInv'
  <2>1. req[h] \in PaymentRequest /\ req[h].kind = "refundMoved" /\ knows(req[h])
    BY <1>12, RequestShape DEF CommitRefund, InFlightKnows
  <2>2. /\ req[h].order \in Orders
        /\ req[h].refund.amount \in Nat
        /\ "succeeded" \in webhooks[req[h].order]
    BY <2>1, AmountsArePositive DEF PaymentRequest, Refund, knows
  <2>3. UNCHANGED <<order, history, webhooks, moved, delivery>>
    BY <1>12 DEF CommitRefund
  <2>4. PaymentFollowsWebhooks'
    BY <1>12, <2>2, <2>3 DEF CommitRefund, TypeOK, PaymentFollowsWebhooks
  <2>5. RefundStatusBacked'
    <3>1. CASE req[h].key \in refundKeys
      BY <1>12, <2>3, <3>1 DEF CommitRefund, RefundStatusBacked
    <3>2. CASE req[h].key \notin refundKeys
      <4>1. /\ payment' = [payment EXCEPT ![req[h].order] =
                 IF isFullRefund(req[h].refund.amount) THEN "REFUNDED" ELSE "PARTIALLY_REFUNDED"]
            /\ refunded' = [refunded EXCEPT ![req[h].order] = @ \cup {req[h].refund}]
        BY <1>12, <3>2 DEF CommitRefund
      <4>2. \A o \in Orders : o # req[h].order =>
               payment'[o] = payment[o] /\ refunded'[o] = refunded[o]
        BY <4>1 DEF TypeOK
      <4>3. /\ req[h].refund \in refunded'[req[h].order]
            /\ payment'[req[h].order] =
                 IF isFullRefund(req[h].refund.amount) THEN "REFUNDED" ELSE "PARTIALLY_REFUNDED"
        BY <2>2, <4>1 DEF TypeOK
      <4>4. CASE req[h].refund.amount >= Total
        BY <2>2, <2>3, <4>2, <4>3, <4>4 DEF RefundStatusBacked
      <4>5. CASE req[h].refund.amount < Total
        BY <2>2, <2>3, <4>2, <4>3, <4>5, AmountsArePositive DEF RefundStatusBacked
      <4> QED
        BY <2>2, <4>4, <4>5, AmountsArePositive
    <3> QED
      BY <3>1, <3>2
  <2>6. InFlightKnows'
    BY <1>12 DEF CommitRefund, TypeOK, Proceed, Finish, Idle, InFlightKnows, knows
  <2>7. RefundLedger'
    BY <1>12, <2>2, CommitRefundLedger
  <2>8. AttemptsHavePayment'
    BY <1>12, <2>2, <2>3 DEF CommitRefund, TypeOK, AttemptsHavePayment
  <2> QED
    BY <2>3, <2>4, <2>5, <2>6, <2>7, <2>8 DEF HistoryExplainsStatus, AuditedEdges,
       RiderAgreement
<1> QED
  BY <1>1, <1>2, <1>3, <1>4, <1>5, <1>6, <1>7, <1>8, <1>9, <1>10, <1>11, <1>12
     DEF PaymentsNext

\* The inductive invariant holds in every reachable state.
LEMMA Inductive == Spec => []IInv
<1>1. IInv /\ [Next]_vars => IInv'
  <2> SUFFICES ASSUME IInv, [Next]_vars PROVE IInv'
    OBVIOUS
  <2>1. TypeOK'
    BY OrdersTypeOK, PaymentsTypeOK, DeliveriesTypeOK, AbandonTypeOK
       DEF IInv, Next, TypeOK, vars, rows
  <2>2. CASE Next
    BY <2>1, <2>2, OrdersIInv, PaymentsIInv, DeliveriesIInv, AbandonIInv DEF Next
  <2>3. CASE UNCHANGED vars
    BY <2>1, <2>3, ReadIInv DEF IInv, vars, rows, InFlightKnows, knows, NoneToRecord
  <2> QED
    BY <2>2, <2>3
<1> QED
  BY <1>1, InitIInv, PTL DEF Spec

-----------------------------------------------------------------------------
(***************************************************************************)
(* Safety of the composed services.                                        *)
(***************************************************************************)

(***************************************************************************)
(* Whatever the three services interleave, the newest audit row explains   *)
(* the order's status, unless a failed payment cancelled the order.        *)
(***************************************************************************)
THEOREM HistoryIsCurrent == Spec => []HistoryExplainsStatus
<1>1. IInv => HistoryExplainsStatus
  BY DEF IInv
<1> QED
  BY <1>1, Inductive, PTL

(***************************************************************************)
(* The order service and the payment webhook only ever record edges of     *)
(* ALLOWED_TRANSITIONS, however stale the status they decided on.          *)
(***************************************************************************)
THEOREM RecordedEdgesAreAllowed == Spec => []AuditedEdges
<1>1. IInv => AuditedEdges
  BY DEF IInv
<1> QED
  BY <1>1, Inductive, PTL

\* Order and delivery name the same rider, through concurrent assignments.
THEOREM RidersAgree == Spec => []RiderAgreement
<1>1. IInv => RiderAgreement
  BY DEF IInv
<1> QED
  BY <1>1, Inductive, PTL

(***************************************************************************)
(* A payment status always has an accepted webhook that tells it, under    *)
(* late, repeated and reordered ones from anybody and handlers that die.   *)
(***************************************************************************)
THEOREM PaymentsAreBacked == Spec => []PaymentFollowsWebhooks
<1>1. IInv => PaymentFollowsWebhooks
  BY DEF IInv
<1> QED
  BY <1>1, Inductive, PTL

\* REFUNDED means the whole amount is recorded, and money returns only for a
\* payment that a webhook said to have succeeded.
THEOREM RefundsAreBacked == Spec => []RefundStatusBacked
<1>1. IInv => RefundStatusBacked
  BY DEF IInv
<1> QED
  BY <1>1, Inductive, PTL

(***************************************************************************)
(* A Refund row is always a refund the gateway paid back, of that amount,  *)
(* and none is recorded twice, with any number of requests racing on one   *)
(* key and dying on either side of the gateway call.                       *)
(***************************************************************************)
THEOREM LedgerIsBacked == Spec => []RefundLedger
<1>1. IInv => RefundLedger
  BY DEF IInv
<1> QED
  BY <1>1, Inductive, PTL

-----------------------------------------------------------------------------
(***************************************************************************)
(* A settled payment and its order.                                        *)
(***************************************************************************)

\* No commit takes an order back to PENDING, overtaken or not.
LEMMA PendingIsLeftForGood ==
  ASSUME IInv, [Next]_vars, NEW o \in Orders, order[o].status # "PENDING"
  PROVE  order'[o].status # "PENDING"
<1> SUFFICES ASSUME Next, order'[o].status # order[o].status
             PROVE  order'[o].status # "PENDING"
  BY DEF vars, rows
<1> PICK h \in Handlers :
       \/ CommitOrderStatus(h) \/ CommitAssignment(h) \/ CommitDeliveryStatus(h)
       \/ CommitPaid(h) \/ CommitFailed(h)
  BY ZenonT(60) DEF Next, OrdersNext, CancelOrder, UpdateOrderStatus, DeliveriesNext, AssignDelivery,
     UpdateDeliveryStatus, PaymentsNext, SendWebhook, InitiatePayment, ProcessWebhook,
     ProcessRefund, FindExistingPayment, CreatePayment, LockPaymentReadOrder,
     FindExistingRefund, GatewayRefund, CommitRefund, Abandon, rows
<1>1. CASE CommitOrderStatus(h)
  <2>1. knows(req[h]) /\ req[h].kind = "updateOrderStatus"
    BY <1>1 DEF CommitOrderStatus, IInv, InFlightKnows
  <2>2. req[h].to # "PENDING"
    BY <2>1 DEF knows, isValidOrderTransition, AllowedTransitions
  <2> QED
    BY <1>1, <2>2 DEF CommitOrderStatus, IInv, TypeOK
<1>2. CASE CommitAssignment(h)
  BY <1>2 DEF CommitAssignment, IInv, TypeOK
<1>3. CASE CommitDeliveryStatus(h)
  BY <1>3 DEF CommitDeliveryStatus, MirroredStatuses, IInv, TypeOK
<1>4. CASE CommitPaid(h)
  <2>1. order' = [order EXCEPT ![req[h].order].status = "CONFIRMED"]
    BY <1>4 DEF CommitPaid
  <2> QED
    BY <2>1 DEF IInv, TypeOK
<1>5. CASE CommitFailed(h)
  BY <1>5 DEF CommitFailed, IInv, TypeOK
<1> QED
  BY <1>1, <1>2, <1>3, <1>4, <1>5

\* Whose step changes what a payment reads.
LEMMA PaymentWriter ==
  ASSUME Next, payment' # payment
  PROVE  \E h \in Handlers :
           CreatePayment(h) \/ CommitPaid(h) \/ CommitFailed(h) \/ CommitRefund(h)
BY ZenonT(60) DEF Next, OrdersNext, CancelOrder, UpdateOrderStatus, CommitOrderStatus,
   DeliveriesNext, AssignDelivery, UpdateDeliveryStatus, CommitAssignment, CommitDeliveryStatus,
   PaymentsNext, SendWebhook, InitiatePayment, ProcessWebhook, ProcessRefund,
   FindExistingPayment, LockPaymentReadOrder, FindExistingRefund, GatewayRefund, Abandon, rows

\* A settled payment stays settled, and when one is settled its order does not wait.
LEMMA SettlingStep ==
  ASSUME IInv, ReadsOutlast, NoSettledOrderWaits, [Next]_vars, NEW o \in Orders
  PROVE  /\ payment[o] \notin {"NONE", "PENDING"} => payment'[o] \notin {"NONE", "PENDING"}
         /\ payment'[o] \in {"NONE", "PENDING"} \/ order'[o].status # "PENDING"
<1>1. CASE payment' = payment
  BY <1>1, PendingIsLeftForGood DEF NoSettledOrderWaits
<1>2. CASE payment' # payment
  <2>1. Next
    BY <1>2 DEF vars, rows
  <2> PICK h \in Handlers :
         CreatePayment(h) \/ CommitPaid(h) \/ CommitFailed(h) \/ CommitRefund(h)
    BY <1>2, <2>1, PaymentWriter
  <2>2. /\ req[h].kind \in {"createIntent", "confirm", "failed", "refundMoved"}
        /\ req[h].order \in Orders
    BY RequestShape DEF CreatePayment, CommitPaid, CommitFailed, CommitRefund, IInv, PaymentRequest
  <2>3. CASE CreatePayment(h)
    <3>1. order' = order /\ payment' = [payment EXCEPT ![req[h].order] =
                                          IF @ = "NONE" THEN "PENDING" ELSE @]
      BY <2>3 DEF CreatePayment
    <3> QED
      BY <2>2, <3>1 DEF IInv, TypeOK, NoSettledOrderWaits
  <2>4. CASE CommitPaid(h)
    <3>1. payment' = [payment EXCEPT ![req[h].order] = "PAID"] /\ req[h].kind = "confirm"
      BY <2>4 DEF CommitPaid
    <3>2. order'[req[h].order].status # "PENDING"
      <4>1. CASE req[h].seen = "PENDING"
        <5>1. order' = [order EXCEPT ![req[h].order].status = "CONFIRMED"]
          BY <2>4, <4>1 DEF CommitPaid
        <5> QED
          BY <2>2, <5>1 DEF IInv, TypeOK
      <4>2. CASE req[h].seen # "PENDING"
        BY <2>2, <3>1, <4>2, PendingIsLeftForGood DEF ReadsOutlast
      <4> QED
        BY <4>1, <4>2
    <3> QED
      BY <2>2, <3>1, <3>2, PendingIsLeftForGood DEF IInv, TypeOK, NoSettledOrderWaits
  <2>5. CASE CommitFailed(h)
    <3>1. /\ payment' = [payment EXCEPT ![req[h].order] = "FAILED"]
          /\ order' = [order EXCEPT ![req[h].order].status = "CANCELLED"]
      BY <2>5 DEF CommitFailed
    <3> QED
      BY <2>2, <3>1 DEF IInv, TypeOK, NoSettledOrderWaits
  <2>6. CASE CommitRefund(h)
    <3>1. \/ payment' = [payment EXCEPT ![req[h].order] = "REFUNDED"]
          \/ payment' = [payment EXCEPT ![req[h].order] = "PARTIALLY_REFUNDED"]
      BY <1>2, <2>6 DEF CommitRefund
    <3>2. payment[req[h].order] \notin {"NONE", "PENDING"} /\ order' = order
      BY <2>6 DEF CommitRefund, ReadsOutlast
    <3> QED
      BY <2>2, <3>1, <3>2 DEF IInv, TypeOK, NoSettledOrderWaits
  <2> QED
    BY <2>3, <2>4, <2>5, <2>6
<1> QED
  BY <1>1, <1>2

\* A step of request h moves no other request.
LEMMA MovesOne ==
  ASSUME TypeOK, NEW h \in Handlers, NEW r, Proceed(h, r), NEW g \in Handlers, req'[g] # req[g]
  PROVE  g = h /\ req'[g] = r
BY DEF TypeOK, Proceed

\* A request comes to a refund or to a confirmation by a read of its own.
LEMMA NewReads ==
  ASSUME TypeOK, Next, NEW g \in Handlers, req'[g] # req[g]
  PROVE  /\ req'[g].kind \in {"refund", "refundCleared", "refundMoved"} =>
              \/ \E o \in Orders, a \in RefundAmounts, k \in Keys \cup {NULL} :
                   ProcessRefund(g, o, a, k)
              \/ FindExistingRefund(g) \/ GatewayRefund(g)
         /\ req'[g].kind = "confirm" => LockPaymentReadOrder(g)
<1>1. CASE OrdersNext \/ DeliveriesNext \/ \E h \in Handlers : Abandon(h)
  <2>1. req'[g].kind \notin {"refund", "refundCleared", "refundMoved", "confirm"}
    <3>1. CASE OrdersNext
      <4>1. PICK h \in Handlers :
              \/ \E u \in Users, o \in Orders, target \in OrderStatus \cup {"CANCELLED"} :
                   UpdateOrderStatus(h, u, o, target)
              \/ CommitOrderStatus(h)
        BY <3>1 DEF OrdersNext, CancelOrder
      <4>2. CASE CommitOrderStatus(h)
        BY <4>2, MovesOne DEF CommitOrderStatus, Finish, Idle
      <4>3. CASE \E u \in Users, o \in Orders, target \in OrderStatus \cup {"CANCELLED"} :
                   UpdateOrderStatus(h, u, o, target)
        BY <4>3, MovesOne DEF UpdateOrderStatus
      <4> QED
        BY <4>1, <4>2, <4>3
    <3>2. CASE DeliveriesNext
      <4>1. PICK h \in Handlers :
              \/ \E u \in Users, o \in Orders :
                   \/ \E rider \in Users : AssignDelivery(h, u, o, rider)
                   \/ \E target \in DeliveryStatus : UpdateDeliveryStatus(h, u, o, target)
              \/ CommitAssignment(h) \/ CommitDeliveryStatus(h)
        BY <3>2 DEF DeliveriesNext
      <4>2. CASE CommitAssignment(h) \/ CommitDeliveryStatus(h)
        BY <4>2, MovesOne DEF CommitAssignment, CommitDeliveryStatus, Finish, Idle
      <4>3. CASE \E u \in Users, o \in Orders, rider \in Users : AssignDelivery(h, u, o, rider)
        BY <4>3, MovesOne DEF AssignDelivery
      <4>4. CASE \E u \in Users, o \in Orders, target \in DeliveryStatus :
                   UpdateDeliveryStatus(h, u, o, target)
        BY <4>4, MovesOne DEF UpdateDeliveryStatus
      <4> QED
        BY <4>1, <4>2, <4>3, <4>4
    <3>3. CASE \E h \in Handlers : Abandon(h)
      BY <3>3, MovesOne DEF Abandon, Finish, Idle
    <3> QED
      BY <1>1, <3>1, <3>2, <3>3
  <2> QED
    BY <2>1
<1>2. CASE PaymentsNext
  <2>1. ASSUME NEW h \in Handlers,
               \/ \E o \in Orders :
                    InitiatePayment(h, o) \/ \E e \in Events : ProcessWebhook(h, o, e)
               \/ FindExistingPayment(h) \/ CreatePayment(h) \/ CommitPaid(h)
               \/ CommitFailed(h) \/ CommitRefund(h)
        PROVE  req'[g].kind \notin {"refund", "refundCleared", "refundMoved", "confirm"}
    <3>1. CASE \E o \in Orders :
                 InitiatePayment(h, o) \/ \E e \in Events : ProcessWebhook(h, o, e)
      BY <3>1, MovesOne DEF InitiatePayment, ProcessWebhook, Events
    <3>2. CASE FindExistingPayment(h)
      <4>1. req[h] \in PaymentRequest /\ req[h].kind = "initiatePayment"
        BY <3>2, RequestShape DEF FindExistingPayment
      <4>2. [req[h] EXCEPT !.kind = "createIntent"].kind = "createIntent"
        BY <4>1 DEF PaymentRequest
      <4>3. Proceed(h, [req[h] EXCEPT !.kind = "createIntent"]) \/ Proceed(h, Idle)
        BY <3>2, Zenon DEF FindExistingPayment, Finish
      <4> DEFINE next == [req[h] EXCEPT !.kind = "createIntent"]
      <4>4. CASE Proceed(h, next)
        <5>1. g = h /\ req'[g] = next
          BY <4>4, MovesOne
        <5> QED
          BY <4>2, <5>1
      <4>5. CASE Proceed(h, Idle)
        <5>1. g = h /\ req'[g] = Idle
          BY <4>5, MovesOne
        <5> QED
          BY <5>1 DEF Idle
      <4> QED
        BY <4>3, <4>4, <4>5
    <3>3. CASE CreatePayment(h) \/ CommitPaid(h) \/ CommitFailed(h) \/ CommitRefund(h)
      <4>1. Finish(h)
        BY <3>3 DEF CreatePayment, CommitPaid, CommitFailed, CommitRefund
      <4> QED
        BY <4>1, MovesOne DEF Finish, Idle
    <3> QED
      BY <2>1, <3>1, <3>2, <3>3
  <2>2. ASSUME NEW h \in Handlers,
               \/ \E o \in Orders, a \in RefundAmounts, k \in Keys \cup {NULL} :
                    ProcessRefund(h, o, a, k)
               \/ FindExistingRefund(h) \/ GatewayRefund(h)
        PROVE  h = g /\ req'[g].kind # "confirm"
    <3>1. CASE \E o \in Orders, a \in RefundAmounts, k \in Keys \cup {NULL} :
                 ProcessRefund(h, o, a, k)
      BY <3>1, MovesOne DEF ProcessRefund
    <3>2. CASE FindExistingRefund(h)
      <4>1. req[h] \in PaymentRequest /\ req[h].kind = "refund"
        BY <3>2, RequestShape DEF FindExistingRefund
      <4>2. [req[h] EXCEPT !.kind = "refundCleared"].kind = "refundCleared"
        BY <4>1 DEF PaymentRequest
      <4>3. Proceed(h, [req[h] EXCEPT !.kind = "refundCleared"]) \/ Proceed(h, Idle)
        BY <3>2, Zenon DEF FindExistingRefund, Finish
      <4> DEFINE next == [req[h] EXCEPT !.kind = "refundCleared"]
      <4>4. CASE Proceed(h, next)
        <5>1. g = h /\ req'[g] = next
          BY <4>4, MovesOne
        <5> QED
          BY <4>2, <5>1
      <4>5. CASE Proceed(h, Idle)
        <5>1. g = h /\ req'[g] = Idle
          BY <4>5, MovesOne
        <5> QED
          BY <5>1 DEF Idle
      <4> QED
        BY <4>3, <4>4, <4>5
    <3>3. CASE GatewayRefund(h)
      BY <3>3, MovesOne DEF GatewayRefund
    <3> QED
      BY <2>2, <3>1, <3>2, <3>3
  <2>3. ASSUME NEW h \in Handlers, LockPaymentReadOrder(h)
        PROVE  h = g /\ req'[g].kind = "confirm"
    BY <2>3 DEF LockPaymentReadOrder, Proceed, TypeOK
  <2>4. ~\E o \in Orders, e \in Events, signature \in Signatures : SendWebhook(o, e, signature)
    BY DEF SendWebhook
  <2> QED
    BY <1>2, <2>1, <2>2, <2>3, <2>4 DEF PaymentsNext
<1> QED
  BY <1>1, <1>2 DEF Next

\* What refunds and webhooks in flight found outlasts every step.
LEMMA ReadsOutlastStep ==
  ASSUME IInv, IInv', ReadsOutlast, NoSettledOrderWaits, [Next]_vars
  PROVE  ReadsOutlast'
<1> SUFFICES ASSUME NEW g \in Handlers
             PROVE  /\ req'[g].kind \in {"refund", "refundCleared", "refundMoved"} =>
                         payment'[req'[g].order] \notin {"NONE", "PENDING"}
                    /\ req'[g].kind = "confirm" /\ ~confirms(req'[g].seen) =>
                         order'[req'[g].order].status # "PENDING"
  BY DEF ReadsOutlast
<1>1. req'[g] # Idle => req'[g].order \in Orders
  BY DEF IInv, TypeOK, OrderRequest, PaymentRequest, DeliveryRequest
<1>2. CASE req'[g] = req[g]
  BY <1>1, <1>2, SettlingStep, PendingIsLeftForGood DEF ReadsOutlast, Idle
<1>3. CASE req'[g] # req[g]
  <2>1. Next /\ TypeOK
    BY <1>3 DEF vars, IInv
  <2>2. ASSUME NEW o \in Orders, NEW a \in RefundAmounts, NEW k \in Keys \cup {NULL},
               ProcessRefund(g, o, a, k)
        PROVE  payment'[req'[g].order] \notin {"NONE", "PENDING"}
    BY <2>1, <2>2 DEF ProcessRefund, Proceed, rows, TypeOK
  <2>3. ASSUME FindExistingRefund(g) \/ GatewayRefund(g),
               req'[g].kind \in {"refund", "refundCleared", "refundMoved"}
        PROVE  payment'[req'[g].order] \notin {"NONE", "PENDING"}
    <3>1. req[g] \in PaymentRequest /\ req[g].kind \in {"refund", "refundCleared"}
      BY <2>1, <2>3, RequestShape DEF FindExistingRefund, GatewayRefund
    <3>2. req'[g].order = req[g].order /\ payment' = payment
      BY <2>1, <2>3, <3>1 DEF FindExistingRefund, GatewayRefund, Proceed, Finish, Idle, rows,
         TypeOK, PaymentRequest
    <3> QED
      BY <3>1, <3>2 DEF ReadsOutlast
  <2>4. ASSUME LockPaymentReadOrder(g)
        PROVE  req'[g].seen = order'[req'[g].order].status
    BY <2>1, <2>4 DEF LockPaymentReadOrder, Proceed, rows, TypeOK
  <2> QED
    BY <1>3, <2>1, <2>2, <2>3, <2>4, NewReads
<1> QED
  BY <1>2, <1>3

(***************************************************************************)
(* However the three services interleave, a settled payment never leaves   *)
(* its order in PENDING.  The invariant adds that what refunds and success *)
(* webhooks have found when they read outlasts every other commit.         *)
(***************************************************************************)
THEOREM SettledOrdersMoveOn == Spec => []NoSettledOrderWaits
<1>1. Init => NoSettledOrderWaits /\ ReadsOutlast
  BY DEF Init, NoSettledOrderWaits, ReadsOutlast, Idle
<1>2. IInv /\ IInv' /\ NoSettledOrderWaits /\ ReadsOutlast /\ [Next]_vars =>
        NoSettledOrderWaits' /\ ReadsOutlast'
  BY SettlingStep, ReadsOutlastStep DEF NoSettledOrderWaits
<1> QED
  BY <1>1, <1>2, Inductive, PTL DEF Spec

-----------------------------------------------------------------------------
(***************************************************************************)
(* The payment service implements PaymentLife.                             *)
(***************************************************************************)

\* The tables start as an empty life of every payment.
LEMMA InitLife == Init => PaymentPromise!Init
  BY DEF Init, PaymentPromise!Init

\* Orders, deliveries and requests that die leave the payment's life alone.
LEMMA OtherLife ==
  ASSUME OrdersNext \/ DeliveriesNext \/ \E h \in Handlers : Abandon(h)
  PROVE  UNCHANGED PaymentPromise!vars
<1>1. CASE OrdersNext
  BY <1>1 DEF OrdersNext, CancelOrder, UpdateOrderStatus, CommitOrderStatus, rows,
     PaymentPromise!vars
<1>2. CASE DeliveriesNext
  BY <1>2 DEF DeliveriesNext, AssignDelivery, CommitAssignment, UpdateDeliveryStatus,
     CommitDeliveryStatus, rows, PaymentPromise!vars
<1>3. CASE \E h \in Handlers : Abandon(h)
  BY <1>3 DEF Abandon, rows, PaymentPromise!vars
<1> QED
  BY <1>1, <1>2, <1>3

\* A second initiatePayment fails on the unique orderId: nothing happens.
LEMMA CreateLife ==
  ASSUME IInv, NEW h \in Handlers, CreatePayment(h)
  PROVE  PaymentPromise!Next \/ UNCHANGED PaymentPromise!vars
<1> DEFINE o == req[h].order
<1>1. o \in Orders
  BY RequestShape DEF CreatePayment, IInv, PaymentRequest
<1>2. UNCHANGED <<webhooks, moved, refunded>>
  BY DEF CreatePayment
<1>3. CASE payment[o] = "NONE"
  <2>1. PaymentPromise!Create(o)
    BY <1>2, <1>3 DEF CreatePayment, PaymentPromise!Create
  <2> QED
    BY <1>1, <2>1 DEF PaymentPromise!Next
<1>4. CASE payment[o] # "NONE"
  <2>1. payment' = payment
    BY <1>1, <1>4 DEF CreatePayment, IInv, TypeOK
  <2> QED
    BY <1>2, <2>1 DEF PaymentPromise!vars
<1> QED
  BY <1>3, <1>4

\* A webhook settles a payment that exists by the event it brings.
LEMMA SettleLife ==
  ASSUME IInv, NEW h \in Handlers, CommitPaid(h) \/ CommitFailed(h)
  PROVE  PaymentPromise!Next
<1> DEFINE o == req[h].order
<1>1. o \in Orders /\ knows(req[h])
  BY RequestShape DEF CommitPaid, CommitFailed, IInv, PaymentRequest, InFlightKnows
<1>2. CASE CommitPaid(h)
  <2>1. "succeeded" \in webhooks[o] /\ payment[o] # "NONE"
    BY <1>1, <1>2 DEF CommitPaid, knows, IInv, AttemptsHavePayment
  <2>2. PaymentPromise!Settle(o, "succeeded", "PAID")
    BY <1>2, <2>1 DEF CommitPaid, PaymentPromise!Settle
  <2> QED
    BY <1>1, <2>2 DEF PaymentPromise!Next
<1>3. CASE CommitFailed(h)
  <2>1. "failed" \in webhooks[o] /\ payment[o] # "NONE"
    BY <1>1, <1>3 DEF CommitFailed, knows, IInv, AttemptsHavePayment
  <2>2. PaymentPromise!Settle(o, "failed", "FAILED")
    BY <1>3, <2>1 DEF CommitFailed, PaymentPromise!Settle
  <2> QED
    BY <1>1, <2>2 DEF PaymentPromise!Next
<1> QED
  BY <1>2, <1>3

\* The gateway pays back under a new id, for a payment said to have succeeded.
LEMMA PayBackLife ==
  ASSUME IInv, NEW h \in Handlers, GatewayRefund(h)
  PROVE  PaymentPromise!Next
<1> DEFINE o == req[h].order
<1>1. req[h] \in PaymentRequest /\ req[h].kind = "refundCleared" /\ knows(req[h])
  BY RequestShape DEF GatewayRefund, IInv, InFlightKnows
<1>2. o \in Orders /\ req[h].amount \in RefundAmounts /\ "succeeded" \in webhooks[o]
  BY <1>1 DEF PaymentRequest, knows
<1> PICK id \in unusedIds :
       moved' = [moved EXCEPT ![o] = @ \cup {[id |-> id, amount |-> req[h].amount]}]
  BY DEF GatewayRefund
<1> DEFINE r == [id |-> id, amount |-> req[h].amount]
<1>3. r \in PaymentPromise!Refund /\ \A p \in Orders : \A s \in moved[p] : s.id # r.id
  BY <1>2 DEF unusedIds, PaymentPromise!Refund
<1>4. PaymentPromise!PayBack(o, r)
  BY <1>2, <1>3 DEF GatewayRefund, PaymentPromise!PayBack
<1> QED
  BY <1>2, <1>3, <1>4 DEF PaymentPromise!Next

\* The refund's transaction records what was paid back, or is aborted by its key.
LEMMA RecordLife ==
  ASSUME IInv, NEW h \in Handlers, CommitRefund(h)
  PROVE  PaymentPromise!Next \/ UNCHANGED PaymentPromise!vars
<1> DEFINE o == req[h].order
           r == req[h].refund
<1>1. req[h] \in PaymentRequest /\ req[h].kind = "refundMoved"
  BY RequestShape DEF CommitRefund, IInv
<1>2. o \in Orders /\ r \in PaymentPromise!Refund
  BY <1>1 DEF PaymentRequest, Refund, PaymentPromise!Refund
<1>3. r \in moved[o] \ refunded[o]
  BY <1>1 DEF IInv, RefundLedger, recording
<1>4. CASE req[h].key \in refundKeys
  BY <1>4 DEF CommitRefund, PaymentPromise!vars
<1>5. CASE req[h].key \notin refundKeys
  <2>1. PaymentPromise!Record(o, r)
    BY <1>3, <1>5 DEF CommitRefund, PaymentPromise!Record
  <2> QED
    BY <1>2, <2>1 DEF PaymentPromise!Next
<1> QED
  BY <1>4, <1>5

\* Every step is a step of PaymentLife or leaves its variables alone.
LEMMA LifeStep ==
  ASSUME IInv, [Next]_vars
  PROVE  [PaymentPromise!Next]_(PaymentPromise!vars)
<1>1. CASE UNCHANGED vars
  BY <1>1 DEF vars, rows, PaymentPromise!vars
<1>2. CASE OrdersNext \/ DeliveriesNext \/ \E h \in Handlers : Abandon(h)
  BY <1>2, OtherLife
<1>3. CASE PaymentsNext
  <2>1. ASSUME NEW o \in Orders, NEW e \in Events, NEW signature \in Signatures,
             SendWebhook(o, e, signature)
        PROVE  PaymentPromise!Next
    <3>1. PaymentPromise!Accept(o, e)
      BY <2>1 DEF SendWebhook, PaymentPromise!Accept
    <3> QED
      BY <3>1 DEF PaymentPromise!Next, Events
  <2>2. ASSUME NEW h \in Handlers,
               \/ \E o \in Orders :
                    \/ InitiatePayment(h, o)
                    \/ \E e \in Events : ProcessWebhook(h, o, e)
                    \/ \E a \in RefundAmounts, k \in Keys \cup {NULL} :
                         ProcessRefund(h, o, a, k)
               \/ FindExistingPayment(h) \/ LockPaymentReadOrder(h)
               \/ FindExistingRefund(h)
        PROVE  UNCHANGED PaymentPromise!vars
    BY <2>2 DEF InitiatePayment, ProcessWebhook, ProcessRefund, FindExistingPayment,
       LockPaymentReadOrder, FindExistingRefund, rows, PaymentPromise!vars
  <2> QED
    BY <1>3, <2>1, <2>2, CreateLife, SettleLife, PayBackLife, RecordLife DEF PaymentsNext
<1> QED
  BY <1>1, <1>2, <1>3 DEF Next

(***************************************************************************)
(* However the three services interleave, each payment lives the life      *)
(* PaymentLife describes: created once, settled only by an event that was  *)
(* accepted, refunds recorded once and as they were paid.                  *)
(***************************************************************************)
THEOREM PaymentsHaveOneLife == Spec => ImplementsPaymentLife
  BY InitLife, LifeStep, Inductive, PTL DEF Spec, ImplementsPaymentLife, PaymentPromise!Spec

-----------------------------------------------------------------------------
(***************************************************************************)
(* What a step may do to a status and to its audit row, under any overlap. *)
(***************************************************************************)

\* A handler that commits is done.
LEMMA CommitEnds ==
  ASSUME TypeOK, NEW h \in Handlers,
         \/ CommitOrderStatus(h) \/ CommitAssignment(h) \/ CommitDeliveryStatus(h)
         \/ CommitPaid(h)
  PROVE  /\ req[h].order \in Orders
         /\ commits(h, req[h].order)
<1>1. req[h] # Idle /\ req'[h] = Idle
  BY DEF CommitOrderStatus, CommitAssignment, CommitDeliveryStatus, CommitPaid, Finish,
     Proceed, Idle, TypeOK
<1>2. req[h].order \in Orders
  BY RequestShape DEF CommitOrderStatus, CommitAssignment, CommitDeliveryStatus, CommitPaid,
     OrderRequest, DeliveryRequest, PaymentRequest
<1> QED
  BY <1>1, <1>2 DEF commits

\* The steps that change an order's status, and what they know of the old one.
LEMMA StatusStep ==
  ASSUME IInv, Next, NEW o \in Orders, order'[o].status # order[o].status
  PROVE  \/ isValidOrderTransition(order[o].status, order'[o].status)
         \/ history'[o].by \in {"assignDelivery", "updateDeliveryStatus"}
         \/ failedPaymentCancels(o)
         \/ overtaken(o)
<1> PICK h \in Handlers :
       \/ CommitOrderStatus(h) \/ CommitAssignment(h) \/ CommitDeliveryStatus(h)
       \/ CommitPaid(h) \/ CommitFailed(h)
  BY ZenonT(60) DEF Next, OrdersNext, CancelOrder, UpdateOrderStatus, DeliveriesNext, AssignDelivery,
     UpdateDeliveryStatus, PaymentsNext, SendWebhook, InitiatePayment, ProcessWebhook,
     ProcessRefund, FindExistingPayment, CreatePayment, LockPaymentReadOrder,
     FindExistingRefund, GatewayRefund, CommitRefund, Abandon, rows
<1>1. CASE CommitOrderStatus(h)
  <2>1. req[h].order = o /\ req[h].kind = "updateOrderStatus" /\ commits(h, o)
    BY <1>1, CommitEnds DEF CommitOrderStatus, IInv, TypeOK
  <2>2. CASE req[h].from # order[o].status
    BY <2>1, <2>2 DEF overtaken
  <2>3. CASE req[h].from = order[o].status
    <3>1. knows(req[h]) /\ req[h] \in OrderRequest
      BY <2>1, RequestShape DEF IInv, InFlightKnows
    <3>2. order'[o].status = req[h].to
      BY <1>1, <2>1 DEF CommitOrderStatus, IInv, TypeOK
    <3> QED
      BY <2>1, <2>3, <3>1, <3>2 DEF knows
  <2> QED
    BY <2>2, <2>3
<1>2. CASE CommitAssignment(h)
  <2>1. req[h].order = o
    BY <1>2 DEF CommitAssignment, IInv, TypeOK
  <2> QED
    BY <1>2, <2>1 DEF CommitAssignment, IInv, TypeOK, statusHistoryRow
<1>3. CASE CommitDeliveryStatus(h)
  <2>1. req[h].order = o /\ req[h].to \in MirroredStatuses
    BY <1>3 DEF CommitDeliveryStatus, IInv, TypeOK
  <2> QED
    BY <1>3, <2>1 DEF CommitDeliveryStatus, IInv, TypeOK, statusHistoryRow
<1>4. CASE CommitPaid(h)
  <2>1. /\ req[h].order = o /\ req[h].kind = "confirm"
        /\ req[h].seen = "PENDING" /\ order'[o].status = "CONFIRMED"
    <3>1. req[h].kind = "confirm" /\ confirms(req[h].seen)
      BY <1>4 DEF CommitPaid
    <3>2. order' = [order EXCEPT ![req[h].order].status = "CONFIRMED"]
      BY <1>4, <3>1 DEF CommitPaid
    <3>3. /\ order \in [Orders -> [status : OrderStatus, riderId : Users \cup {NULL}]]
          /\ req[h].order \in Orders
      BY <1>4, CommitEnds DEF IInv, TypeOK
    <3>4. req[h].order = o
      BY <3>2, <3>3
    <3> QED
      BY <3>1, <3>2, <3>3, <3>4 DEF confirms
  <2>2. commits(h, o)
    BY <1>4, <2>1, CommitEnds DEF IInv
  <2>3. CASE order[o].status = "PENDING"
    BY <2>1, <2>3 DEF isValidOrderTransition, AllowedTransitions
  <2>4. CASE order[o].status # "PENDING"
    BY <2>1, <2>2, <2>4 DEF overtaken
  <2> QED
    BY <2>3, <2>4
<1>5. CASE CommitFailed(h)
  <2>1. req[h].order = o
    BY <1>5 DEF CommitFailed, IInv, TypeOK
  <2> QED
    BY <1>5, <2>1 DEF CommitFailed, IInv, TypeOK, failedPaymentCancels
<1> QED
  BY <1>1, <1>2, <1>3, <1>4, <1>5

\* The graph has no edge out of a terminal status.
LEMMA TerminalHasNoEdge ==
  \A s \in TerminalStatuses, t \in OrderStatus : ~isValidOrderTransition(s, t)
  BY DEF TerminalStatuses, isValidOrderTransition, AllowedTransitions

(***************************************************************************)
(* The order service and the success webhook leave DELIVERED and CANCELLED *)
(* orders alone, unless what they had read was overtaken by another commit *)
(* before they wrote.                                                      *)
(***************************************************************************)
THEOREM TerminalIsKept == Spec => TerminalStands
<1> DEFINE Kept == \A o \in Orders :
       (order[o].status \in TerminalStatuses /\ order'[o].status # order[o].status) =>
         \/ history'[o].by \in {"assignDelivery", "updateDeliveryStatus"}
         \/ failedPaymentCancels(o)
         \/ overtaken(o)
<1>1. IInv /\ IInv' /\ [Next]_vars => [Kept]_vars
  <2> SUFFICES ASSUME IInv, IInv', Next, NEW o \in Orders,
                      order[o].status \in TerminalStatuses,
                      order'[o].status # order[o].status
               PROVE  \/ history'[o].by \in {"assignDelivery", "updateDeliveryStatus"}
                      \/ failedPaymentCancels(o)
                      \/ overtaken(o)
    OBVIOUS
  <2>1. order'[o].status \in OrderStatus
    BY DEF IInv, TypeOK
  <2> QED
    BY <2>1, StatusStep, TerminalHasNoEdge
<1> QED
  BY <1>1, Inductive, PTL DEF Spec, TerminalStands

\* A request that was not overtaken appends its row with the status the order has.
LEMMA AuditStep ==
  ASSUME IInv, Next, NEW o \in Orders, history'[o] # history[o]
  PROVE  history'[o].from = order[o].status \/ overtaken(o)
<1> PICK h \in Handlers :
       \/ CommitOrderStatus(h) \/ CommitAssignment(h) \/ CommitDeliveryStatus(h)
       \/ CommitPaid(h)
  BY ZenonT(60) DEF Next, OrdersNext, CancelOrder, UpdateOrderStatus, DeliveriesNext, AssignDelivery,
     UpdateDeliveryStatus, PaymentsNext, SendWebhook, InitiatePayment, ProcessWebhook,
     ProcessRefund, FindExistingPayment, CreatePayment, LockPaymentReadOrder, CommitFailed,
     FindExistingRefund, GatewayRefund, CommitRefund, Abandon, rows
<1>1. req[h].order = o
  BY DEF CommitOrderStatus, CommitAssignment, CommitDeliveryStatus, CommitPaid, IInv, TypeOK
<1>2. commits(h, o)
  BY <1>1, CommitEnds DEF IInv
<1>3. CASE CommitPaid(h)
  <2>1. req[h].kind = "confirm" /\ req[h].seen = "PENDING"
    BY <1>3 DEF CommitPaid, confirms
  <2>2. history'[o].from = "PENDING"
    BY <1>1, <1>3, <2>1 DEF CommitPaid, IInv, TypeOK, statusHistoryRow
  <2> QED
    BY <1>1, <1>2, <2>1, <2>2 DEF overtaken
<1>4. CASE ~CommitPaid(h)
  <2>1. req[h].kind \in {"updateOrderStatus", "assignDelivery", "updateDeliveryStatus"}
    BY <1>4 DEF CommitOrderStatus, CommitAssignment, CommitDeliveryStatus
  <2>2. history'[o].from = req[h].from
    <3>1. CASE CommitOrderStatus(h)
      BY <1>1, <3>1 DEF CommitOrderStatus, IInv, TypeOK, statusHistoryRow
    <3>2. CASE CommitAssignment(h)
      BY <1>1, <3>2 DEF CommitAssignment, IInv, TypeOK, statusHistoryRow
    <3>3. CASE CommitDeliveryStatus(h)
      <4>1. req[h].to \in MirroredStatuses
        BY <3>3 DEF CommitDeliveryStatus
      <4>2. history' = [history EXCEPT ![o] =
                          statusHistoryRow(req[h].from, req[h].to, "updateDeliveryStatus")]
        BY <1>1, <3>3, <4>1 DEF CommitDeliveryStatus
      <4> QED
        BY <4>2 DEF IInv, TypeOK, statusHistoryRow
    <3> QED
      BY <1>4, <3>1, <3>2, <3>3
  <2> QED
    BY <1>2, <2>1, <2>2 DEF overtaken
<1> QED
  BY <1>3, <1>4

\* A delivery's status moves by its graph or to ASSIGNED, or is overtaken.
LEMMA DeliveryStep ==
  ASSUME IInv, Next, NEW o \in Orders, delivery'[o].status # delivery[o].status
  PROVE  \/ <<delivery[o].status, delivery'[o].status>> \in AllowedDeliveryTransitions
         \/ delivery'[o].status = "ASSIGNED"
         \/ \E h \in Handlers :
              /\ commits(h, o) /\ req[h].kind = "updateDeliveryStatus"
              /\ req[h].seen # delivery[o].status
<1> PICK h \in Handlers : CommitAssignment(h) \/ CommitDeliveryStatus(h)
  BY ZenonT(60) DEF Next, OrdersNext, CancelOrder, UpdateOrderStatus, CommitOrderStatus,
     DeliveriesNext, AssignDelivery, UpdateDeliveryStatus, PaymentsNext, SendWebhook,
     InitiatePayment, ProcessWebhook, ProcessRefund, FindExistingPayment, CreatePayment,
     LockPaymentReadOrder, CommitPaid, CommitFailed, FindExistingRefund, GatewayRefund,
     CommitRefund, Abandon, rows
<1>1. CASE CommitAssignment(h)
  BY <1>1 DEF CommitAssignment, IInv, TypeOK
<1>2. CASE CommitDeliveryStatus(h)
  <2>1. req[h].order = o /\ delivery'[o].status = req[h].to
    BY <1>2 DEF CommitDeliveryStatus, IInv, TypeOK
  <2>2. req[h].kind = "updateDeliveryStatus" /\ commits(h, o)
    BY <1>2, <2>1, CommitEnds DEF CommitDeliveryStatus, IInv
  <2>3. <<req[h].seen, req[h].to>> \in AllowedDeliveryTransitions
    BY <2>2 DEF IInv, InFlightKnows, knows
  <2> QED
    BY <2>1, <2>2, <2>3
<1> QED
  BY <1>1, <1>2

(***************************************************************************)
(* A delivery leaves its graph only by an assignment or by an update whose *)
(* tested status was overtaken.                                            *)
(***************************************************************************)
THEOREM DeliveryKeepsToGraph == Spec => DeliveryFollowsGraph
<1> DEFINE Moves == \A o \in Orders : delivery'[o].status # delivery[o].status =>
       \/ <<delivery[o].status, delivery'[o].status>> \in AllowedDeliveryTransitions
       \/ delivery'[o].status = "ASSIGNED"
       \/ \E h \in Handlers :
            /\ commits(h, o) /\ req[h].kind = "updateDeliveryStatus"
            /\ req[h].seen # delivery[o].status
<1>1. IInv /\ [Next]_vars => [Moves]_vars
  BY DeliveryStep
<1> QED
  BY <1>1, Inductive, PTL DEF Spec, DeliveryFollowsGraph

-----------------------------------------------------------------------------
(***************************************************************************)
(* Requests that do not overlap.                                           *)
(***************************************************************************)

\* Freshly placed orders have no request in flight.
LEMMA InitReads == Init => ReadsCurrent
  BY DEF Init, ReadsCurrent, Idle

\* A handler's own writes come last: nobody is left with what it replaced.
LEMMA WriterIsAlone ==
  ASSUME TypeOK, OneAtATime, NEW h \in Handlers, req[h] # Idle, Finish(h)
  PROVE  ReadsCurrent'
<1>1. \A g \in Handlers : req'[g] = Idle
  BY DEF TypeOK, OneAtATime, Finish, Proceed
<1> QED
  BY <1>1 DEF ReadsCurrent, Idle

\* Reads are current when made, and stay so while nothing is written.
LEMMA ReaderIsCurrent ==
  ASSUME TypeOK, ReadsCurrent, UNCHANGED <<order, delivery>>,
         NEW h \in Handlers, NEW state, Proceed(h, state),
         state.kind \in {"updateOrderStatus", "assignDelivery", "updateDeliveryStatus"} =>
           state.from = order[state.order].status,
         state.kind = "confirm" => state.seen = order[state.order].status,
         state.kind = "updateDeliveryStatus" =>
           state.seen = delivery[state.order].status
  PROVE  ReadsCurrent'
  BY DEF TypeOK, ReadsCurrent, Proceed

\* The order service keeps reads current when nobody else is in flight.
LEMMA OrdersReads ==
  ASSUME TypeOK, ReadsCurrent, OneAtATime, OrdersNext
  PROVE  ReadsCurrent'
<1> PICK h \in Handlers :
         \/ \E u \in Users, o \in Orders, t \in OrderStatus : UpdateOrderStatus(h, u, o, t)
         \/ CommitOrderStatus(h)
  BY DEF OrdersNext, CancelOrder, OrderStatus
<1>1. ASSUME NEW u \in Users, NEW o \in Orders, NEW t \in OrderStatus,
             UpdateOrderStatus(h, u, o, t)
      PROVE  ReadsCurrent'
  BY <1>1, ReaderIsCurrent DEF UpdateOrderStatus, rows
<1>2. CASE CommitOrderStatus(h)
  BY <1>2, WriterIsAlone DEF CommitOrderStatus, Idle
<1> QED
  BY <1>1, <1>2

\* So does the delivery service.
LEMMA DeliveriesReads ==
  ASSUME TypeOK, ReadsCurrent, OneAtATime, DeliveriesNext
  PROVE  ReadsCurrent'
<1> PICK h \in Handlers :
         \/ \E u \in Users, o \in Orders, r \in Users : AssignDelivery(h, u, o, r)
         \/ \E u \in Users, o \in Orders, t \in DeliveryStatus : UpdateDeliveryStatus(h, u, o, t)
         \/ CommitAssignment(h)
         \/ CommitDeliveryStatus(h)
  BY DEF DeliveriesNext
<1>1. ASSUME NEW u \in Users, NEW o \in Orders, NEW r \in Users, AssignDelivery(h, u, o, r)
      PROVE  ReadsCurrent'
  BY <1>1, ReaderIsCurrent DEF AssignDelivery, rows
<1>2. ASSUME NEW u \in Users, NEW o \in Orders, NEW t \in DeliveryStatus,
             UpdateDeliveryStatus(h, u, o, t)
      PROVE  ReadsCurrent'
  BY <1>2, ReaderIsCurrent DEF UpdateDeliveryStatus, rows
<1>3. CASE CommitAssignment(h)
  BY <1>3, WriterIsAlone DEF CommitAssignment, Idle
<1>4. CASE CommitDeliveryStatus(h)
  BY <1>4, WriterIsAlone DEF CommitDeliveryStatus, Idle
<1> QED
  BY <1>1, <1>2, <1>3, <1>4

\* So does the payment service, whose webhooks touch neither row before they commit.
LEMMA PaymentsReads ==
  ASSUME TypeOK, ReadsCurrent, OneAtATime, PaymentsNext
  PROVE  ReadsCurrent'
<1>1. ASSUME NEW o \in Orders, NEW e \in Events, NEW signature \in Signatures,
             SendWebhook(o, e, signature) PROVE ReadsCurrent'
  BY <1>1 DEF SendWebhook, ReadsCurrent
<1>2. ASSUME NEW h \in Handlers, NEW o \in Orders, InitiatePayment(h, o)
      PROVE  ReadsCurrent'
  BY <1>2, ReaderIsCurrent DEF InitiatePayment, rows
<1>3. ASSUME NEW h \in Handlers, NEW o \in Orders, NEW e \in Events,
             ProcessWebhook(h, o, e)
      PROVE  ReadsCurrent'
  BY <1>3, ReaderIsCurrent DEF ProcessWebhook, rows, Events
<1>4. ASSUME NEW h \in Handlers, NEW o \in Orders, NEW a \in RefundAmounts,
             NEW k \in Keys \cup {NULL}, ProcessRefund(h, o, a, k)
      PROVE  ReadsCurrent'
  BY <1>4, ReaderIsCurrent DEF ProcessRefund, rows
<1>5. ASSUME NEW h \in Handlers, LockPaymentReadOrder(h) PROVE ReadsCurrent'
  BY <1>5, ReaderIsCurrent DEF LockPaymentReadOrder, rows
<1>6. ASSUME NEW h \in Handlers,
             CreatePayment(h) \/ CommitPaid(h) \/ CommitFailed(h) \/ CommitRefund(h)
      PROVE  ReadsCurrent'
  BY <1>6, WriterIsAlone DEF CreatePayment, CommitPaid, CommitFailed, CommitRefund, Idle
<1>7. ASSUME NEW h \in Handlers, FindExistingPayment(h) PROVE ReadsCurrent'
  <2>1. req[h] \in PaymentRequest
    BY <1>7, RequestShape DEF FindExistingPayment
  <2>2. CASE Proceed(h, [req[h] EXCEPT !.kind = "createIntent"])
    BY <1>7, <2>1, <2>2, ReaderIsCurrent DEF FindExistingPayment, rows, PaymentRequest
  <2>3. CASE Finish(h)
    BY <1>7, <2>3, WriterIsAlone DEF FindExistingPayment, Idle
  <2> QED
    BY <1>7, <2>2, <2>3 DEF FindExistingPayment
<1>8. ASSUME NEW h \in Handlers, FindExistingRefund(h) PROVE ReadsCurrent'
  <2>1. req[h] \in PaymentRequest
    BY <1>8, RequestShape DEF FindExistingRefund
  <2>2. CASE Proceed(h, [req[h] EXCEPT !.kind = "refundCleared"])
    BY <1>8, <2>1, <2>2, ReaderIsCurrent DEF FindExistingRefund, rows, PaymentRequest
  <2>3. CASE Finish(h)
    BY <1>8, <2>3, WriterIsAlone DEF FindExistingRefund, Idle
  <2> QED
    BY <1>8, <2>2, <2>3 DEF FindExistingRefund
<1>9. ASSUME NEW h \in Handlers, GatewayRefund(h) PROVE ReadsCurrent'
  BY <1>9, ReaderIsCurrent DEF GatewayRefund
<1> QED
  BY <1>1, <1>2, <1>3, <1>4, <1>5, <1>6, <1>7, <1>8, <1>9 DEF PaymentsNext

\* A commit of the requests that were not overlapped overtakes nobody.
LEMMA NothingOvertaken ==
  ASSUME ReadsCurrent, NEW o \in Orders
  PROVE  ~overtaken(o)
  BY DEF ReadsCurrent, overtaken, commits

(***************************************************************************)
(* With requests one at a time every status change follows its graph or is *)
(* a dispatch or a failed payment's cancellation, and the audit trail      *)
(* chains: what the theorems above except is the work of overlaps alone.   *)
(***************************************************************************)
THEOREM NoOverlapIsOrderly == Spec /\ []OneAtATime => Orderly
<1> DEFINE Ordered == \A o \in Orders :
       /\ order'[o].status # order[o].status =>
            \/ isValidOrderTransition(order[o].status, order'[o].status)
            \/ history'[o].by \in {"assignDelivery", "updateDeliveryStatus"}
            \/ failedPaymentCancels(o)
       /\ history'[o] # history[o] => history'[o].from = order[o].status
       /\ delivery'[o].status # delivery[o].status =>
            \/ <<delivery[o].status, delivery'[o].status>> \in AllowedDeliveryTransitions
            \/ delivery'[o].status = "ASSIGNED"
<1>1. IInv /\ ReadsCurrent /\ OneAtATime /\ [Next]_vars => ReadsCurrent'
  <2> SUFFICES ASSUME IInv, ReadsCurrent, OneAtATime, [Next]_vars PROVE ReadsCurrent'
    OBVIOUS
  <2>1. CASE Next
    <3>1. ASSUME NEW h \in Handlers, Abandon(h) PROVE ReadsCurrent'
      BY <3>1, WriterIsAlone DEF Abandon, IInv
    <3> QED
      BY <2>1, <3>1, OrdersReads, DeliveriesReads, PaymentsReads DEF Next, IInv
  <2>2. CASE UNCHANGED vars
    BY <2>2 DEF ReadsCurrent, vars, rows
  <2> QED
    BY <2>1, <2>2
<1>2. IInv /\ ReadsCurrent /\ [Next]_vars => [Ordered]_vars
  <2> SUFFICES ASSUME IInv, ReadsCurrent, Next, NEW o \in Orders
               PROVE  /\ order'[o].status # order[o].status =>
                           \/ isValidOrderTransition(order[o].status, order'[o].status)
                           \/ history'[o].by \in {"assignDelivery", "updateDeliveryStatus"}
                           \/ failedPaymentCancels(o)
                      /\ history'[o] # history[o] => history'[o].from = order[o].status
                      /\ delivery'[o].status # delivery[o].status =>
                           \/ <<delivery[o].status, delivery'[o].status>>
                                 \in AllowedDeliveryTransitions
                           \/ delivery'[o].status = "ASSIGNED"
    OBVIOUS
  <2>1. ~overtaken(o)
    BY NothingOvertaken
  <2>2. ~\E h \in Handlers :
           /\ commits(h, o) /\ req[h].kind = "updateDeliveryStatus"
           /\ req[h].seen # delivery[o].status
    BY DEF ReadsCurrent, commits
  <2> QED
    BY <2>1, <2>2, StatusStep, AuditStep, DeliveryStep
<1> QED
  BY <1>1, <1>2, InitReads, Inductive, PTL DEF Spec, Orderly
=============================================================================
