------------------------------ MODULE Fulfilment ------------------------------
(***************************************************************************)
(* An order after checkout: the order, payment and delivery services over  *)
(* the shared tables, every interleaving of their requests, and requests   *)
(* that die half way.                                                      *)
(***************************************************************************)
EXTENDS Orders, Payments, Deliveries

Next ==
  \/ OrdersNext
  \/ PaymentsNext
  \/ DeliveriesNext
  \/ \E h \in Handlers : Abandon(h)

Spec == Init /\ [][Next]_vars

\* Payments alone: no status request and no dispatch arrives meanwhile.
PaymentsOnly == PaymentsNext \/ \E h \in Handlers : Abandon(h)
PaymentsSpec == Init /\ [][PaymentsOnly]_vars

(***************************************************************************)
(* Fairness.  A handler never hangs: an awaited query returns or the       *)
(* handler dies.  Whoever sent a succeeded event delivers it again until   *)
(* it is acknowledged, as a payment gateway does, and its handling does    *)
(* not die at the same step for ever.  Other clients owe nothing.          *)
(***************************************************************************)
PaymentStep(h) ==
  \/ FindExistingPayment(h) \/ CreatePayment(h)
  \/ LockPaymentReadOrder(h) \/ CommitPaid(h) \/ CommitFailed(h)
  \/ FindExistingRefund(h) \/ GatewayRefund(h) \/ CommitRefund(h)

Fairness ==
  /\ \A h \in Handlers : WF_vars(PaymentStep(h) \/ Abandon(h))
  /\ SF_vars(\E h \in Handlers, o \in Orders : ProcessWebhook(h, o, "succeeded"))
  /\ SF_vars(\E h \in Handlers : LockPaymentReadOrder(h))
  /\ SF_vars(\E h \in Handlers : CommitPaid(h))

FairPaymentsSpec == PaymentsSpec /\ Fairness

-----------------------------------------------------------------------------
\* The tables and the requests in flight have the shapes the schema gives them.
TypeOK ==
  /\ order \in [Orders -> [status : OrderStatus, riderId : Users \cup {NULL}]]
  /\ history \in [Orders -> [from : OrderStatus \cup {NULL}, to : OrderStatus,
                             by : Writers]]
  /\ payment \in [Orders -> PaymentStatus]
  /\ webhooks \in [Orders -> SUBSET Events]
  /\ moved \in [Orders -> SUBSET Refund]
  /\ refunded \in [Orders -> SUBSET Refund]
  /\ refundKeys \subseteq Keys
  /\ delivery \in [Orders -> [status : DeliveryStatus, riderId : Users \cup {NULL}]]
  /\ req \in [Handlers -> {Idle} \cup OrderRequest \cup PaymentRequest
                            \cup DeliveryRequest]

(***************************************************************************)
(* The newest audit row explains the order's status, whatever the three    *)
(* services interleave (orders.service.ts:344-371, deliveries.service.ts   *)
(* :90-123 and :183-212), except for the cancellation a failed payment     *)
(* causes, which payments.service.ts:148-151 does not audit.               *)
(***************************************************************************)
HistoryExplainsStatus ==
  \A o \in Orders :
    \/ order[o].status = history[o].to
    \/ order[o].status = "CANCELLED" /\ "failed" \in webhooks[o]

(***************************************************************************)
(* What the order service and the payment webhook write into the audit     *)
(* trail is an edge of ALLOWED_TRANSITIONS, although both write after an   *)
(* await (orders.service.ts:333-368, payments.service.ts:117-131).         *)
(***************************************************************************)
AuditedEdges ==
  \A o \in Orders :
    history[o].by \in {"updateOrderStatus", "processWebhook"} =>
      isValidOrderTransition(history[o].from, history[o].to)

(***************************************************************************)
(* Order.riderId and Delivery.riderId are two copies of one fact, written  *)
(* by concurrent assignments (deliveries.service.ts:90-110): they agree,   *)
(* and an order without a delivery has no rider.                           *)
(***************************************************************************)
RiderAgreement ==
  \A o \in Orders :
    /\ order[o].riderId = delivery[o].riderId
    /\ delivery[o].status = "NONE" <=> delivery[o].riderId = NULL

(***************************************************************************)
(* No payment status without an accepted webhook that tells it, through    *)
(* late, repeated and reordered webhooks and payments initiated twice, and *)
(* no order confirmed by the webhook while its payment still waits         *)
(* (payments.service.ts:42-74, :102-155).  That the gateway is behind the  *)
(* webhook does not follow: nothing asks (mock-stripe.gateway.ts:58).      *)
(***************************************************************************)
PaymentFollowsWebhooks ==
  \A o \in Orders :
    /\ payment[o] \in {"PAID", "REFUNDED", "PARTIALLY_REFUNDED"} =>
         "succeeded" \in webhooks[o]
    /\ payment[o] = "FAILED" => "failed" \in webhooks[o]
    /\ history[o].by = "processWebhook" =>
         "succeeded" \in webhooks[o] /\ payment[o] \notin {"NONE", "PENDING"}

(***************************************************************************)
(* Refund states (payments.service.ts:234-295): nothing is paid back for a *)
(* payment no webhook said succeeded, and a payment reads REFUNDED with a  *)
(* refund of the whole amount recorded, PARTIALLY_REFUNDED only with a     *)
(* smaller one, whatever refunds and webhooks interleave.                  *)
(***************************************************************************)
RefundStatusBacked ==
  \A o \in Orders :
    /\ moved[o] # {} => "succeeded" \in webhooks[o]
    /\ payment[o] = "REFUNDED" => \E r \in refunded[o] : r.amount >= Total
    /\ payment[o] = "PARTIALLY_REFUNDED" => \E r \in refunded[o] : r.amount < Total

(***************************************************************************)
(* A settled payment never leaves its order waiting in PENDING, although   *)
(* the webhook's transaction reads the order without a lock and confirms   *)
(* it, or leaves it alone, by what it read (payments.service.ts:113-121):  *)
(* whatever the other services commit in between, no order gets back to    *)
(* PENDING, and a failed payment cancels it (:148).                        *)
(***************************************************************************)
NoSettledOrderWaits ==
  \A o \in Orders : payment[o] \in {"NONE", "PENDING"} \/ order[o].status # "PENDING"

\* Requests between the gateway's answer and the transaction that records it.
recording == {h \in Handlers : req[h].kind = "refundMoved"}

(***************************************************************************)
(* The refund ledger (payments.service.ts:259-280): a Refund row is a      *)
(* refund the gateway paid back, of that amount and for that order, and    *)
(* none is recorded twice: what a request is about to record is paid, not  *)
(* recorded, and no other request's, also when requests with one key race  *)
(* or die after the gateway call.  An id names one refund.                 *)
(***************************************************************************)
RefundLedger ==
  /\ \A o \in Orders : refunded[o] \subseteq moved[o]
  /\ \A h \in recording :
       /\ req[h].refund \in moved[req[h].order] \ refunded[req[h].order]
       /\ \A g \in recording \ {h} : req[g].refund # req[h].refund
  /\ \A o, p \in Orders : \A r \in moved[o], s \in moved[p] :
       r.id = s.id => o = p /\ r = s

-----------------------------------------------------------------------------
(***************************************************************************)
(* What a request in flight knows from its reads and that no other request *)
(* can take away: the edge it validated, the webhook it answers to,        *)
(* the delivery it found.                                                  *)
(***************************************************************************)
knows(r) ==
  /\ r.kind = "updateOrderStatus" => isValidOrderTransition(r.from, r.to)
  /\ r.kind \in {"succeeded", "confirm", "refund", "refundCleared", "refundMoved"} =>
       "succeeded" \in webhooks[r.order]
  /\ r.kind = "failed" => "failed" \in webhooks[r.order]
  /\ r.kind = "updateDeliveryStatus" =>
       /\ isValidDeliveryTransition(r.seen, r.to)
       /\ delivery[r.order].status # "NONE"

InFlightKnows == \A h \in Handlers : knows(req[h])

\* An accepted event found a payment's row, and that is never deleted.
AttemptsHavePayment == \A o \in Orders : webhooks[o] # {} => payment[o] # "NONE"

\* A refund in flight found a settled payment, and a webhook that will not
\* confirm found an order that had left PENDING.
ReadsOutlast ==
  \A h \in Handlers :
    /\ req[h].kind \in {"refund", "refundCleared", "refundMoved"} =>
         payment[req[h].order] \notin {"NONE", "PENDING"}
    /\ req[h].kind = "confirm" /\ ~confirms(req[h].seen) =>
         order[req[h].order].status # "PENDING"

\* The inductive invariant.
IInv ==
  /\ TypeOK
  /\ HistoryExplainsStatus
  /\ AuditedEdges
  /\ RiderAgreement
  /\ PaymentFollowsWebhooks
  /\ RefundStatusBacked
  /\ RefundLedger
  /\ AttemptsHavePayment
  /\ InFlightKnows

-----------------------------------------------------------------------------
(***************************************************************************)
(* The payment service implements PaymentLife, whatever the three services *)
(* interleave: a second initiatePayment that raced past the lookup         *)
(* (payments.service.ts:42-60) never sets a payment back, no status        *)
(* changes without an event or a refund behind it, and each refund the     *)
(* gateway pays is recorded at most once, as it was paid (:259-292).       *)
(***************************************************************************)
PaymentPromise == INSTANCE PaymentLife WITH
  status <- payment, events <- webhooks, paid <- moved, recorded <- refunded

ImplementsPaymentLife == PaymentPromise!Spec

\* o is being cancelled by a failed payment rather than by a request.
failedPaymentCancels(o) ==
  payment'[o] = "FAILED" /\ order'[o].status = "CANCELLED" /\ history'[o] = history[o]

\* Handler h commits a decision about o.
commits(h, o) == req[h] # Idle /\ req[h].order = o /\ req'[h] = Idle

\* A commit that was decided on an order status which another request has
\* replaced meanwhile.
overtaken(o) ==
  \E h \in Handlers :
    /\ commits(h, o)
    /\ \/ /\ req[h].kind \in {"updateOrderStatus", "assignDelivery", "updateDeliveryStatus"}
          /\ req[h].from # order[o].status
       \/ req[h].kind = "confirm" /\ req[h].seen # order[o].status

(***************************************************************************)
(* The order service and the success webhook never take an order out of    *)
(* DELIVERED or CANCELLED (order-state-machine.ts:46-54,                   *)
(* payments.service.ts:117); only dispatch, a failed payment and a commit  *)
(* whose read was overtaken (orders.service.ts:345) do.                    *)
(***************************************************************************)
TerminalStands ==
  [][\A o \in Orders :
       (order[o].status \in TerminalStatuses /\ order'[o].status # order[o].status) =>
         \/ history'[o].by \in {"assignDelivery", "updateDeliveryStatus"}
         \/ failedPaymentCancels(o)
         \/ overtaken(o)]_vars

(***************************************************************************)
(* A delivery moves along ALLOWED_DELIVERY_TRANSITIONS, or is assigned     *)
(* (deliveries.service.ts:162-167 and :99-110), unless the status that was *)
(* tested is no longer the delivery's when it is written (:183).           *)
(***************************************************************************)
DeliveryFollowsGraph ==
  [][\A o \in Orders : delivery'[o].status # delivery[o].status =>
       \/ <<delivery[o].status, delivery'[o].status>> \in AllowedDeliveryTransitions
       \/ delivery'[o].status = "ASSIGNED"
       \/ \E h \in Handlers :
            /\ commits(h, o) /\ req[h].kind = "updateDeliveryStatus"
            /\ req[h].seen # delivery[o].status]_vars

-----------------------------------------------------------------------------
\* No two requests are ever in flight together.
OneAtATime ==
  \A g, h \in Handlers : req[g] # Idle /\ req[h] # Idle => g = h

\* What a request is about to write over is still what it read.
ReadsCurrent ==
  \A h \in Handlers :
    /\ req[h].kind \in {"updateOrderStatus", "assignDelivery", "updateDeliveryStatus"} =>
         req[h].from = order[req[h].order].status
    /\ req[h].kind = "confirm" => req[h].seen = order[req[h].order].status
    /\ req[h].kind = "updateDeliveryStatus" =>
         req[h].seen = delivery[req[h].order].status

(***************************************************************************)
(* What the handlers are written to do when requests do not overlap: an    *)
(* order moves along ALLOWED_TRANSITIONS, by dispatch or to CANCELLED for  *)
(* a failed payment, every audit row starts from the status the order had  *)
(* (orders.service.ts:343-371), and a delivery moves along its graph or is *)
(* assigned (deliveries.service.ts:90-126, :162-215).                      *)
(***************************************************************************)
Orderly ==
  [][\A o \in Orders :
       /\ order'[o].status # order[o].status =>
            \/ isValidOrderTransition(order[o].status, order'[o].status)
            \/ history'[o].by \in {"assignDelivery", "updateDeliveryStatus"}
            \/ failedPaymentCancels(o)
       /\ history'[o] # history[o] => history'[o].from = order[o].status
       /\ delivery'[o].status # delivery[o].status =>
            \/ <<delivery[o].status, delivery'[o].status>> \in AllowedDeliveryTransitions
            \/ delivery'[o].status = "ASSIGNED"]_vars

-----------------------------------------------------------------------------
(***************************************************************************)
(* A payment that an accepted webhook calls succeeded does not stay        *)
(* PENDING, although the handler of the webhook may die any number of      *)
(* times (payments.service.ts:102-136).                                    *)
(***************************************************************************)
CaptureIsNoticed ==
  \A o \in Orders : ("succeeded" \in webhooks[o]) ~> (payment[o] # "PENDING")
=============================================================================
