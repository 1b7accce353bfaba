------------------------------- MODULE Payments -------------------------------
(***************************************************************************)
(* payments.service.ts: initiatePayment, processWebhook, processRefund,    *)
(* with the gateway they call.  Amounts are whole units; Total stands for  *)
(* Order.totalAmount, which Payment.amount copies.                         *)
(***************************************************************************)
EXTENDS OrderTables

CONSTANTS
  Total,          \* totalAmount of every order
  RefundAmounts,  \* amounts an owner asks back (the schema only says positive)
  RefundIds       \* random ids the gateway gives its refunds (the bound for TLC)

ASSUME AmountsArePositive ==
  /\ Total \in Nat \ {0}
  /\ RefundAmounts \subseteq Nat \ {0}

Events == {"succeeded", "failed"}   \* payment.intent.*; refund.succeeded is ignored

\* A refund as the gateway answers it and the refunds table keeps it.
Refund == [id : RefundIds, amount : RefundAmounts]

PaymentRequest ==
  [kind : {"initiatePayment", "createIntent", "succeeded", "failed"}, order : Orders]
  \cup
  [kind : {"confirm"}, order : Orders, seen : OrderStatus]
  \cup
  [kind : {"refund", "refundCleared"}, order : Orders,
   amount : RefundAmounts, key : Keys \cup {NULL}]
  \cup
  [kind : {"refundMoved"}, order : Orders, refund : Refund, key : Keys \cup {NULL}]

-----------------------------------------------------------------------------
\* initiatePayment: the customer's order is read ...
InitiatePayment(h, o) ==
  /\ req[h] = Idle
  /\ order[o].status # "CANCELLED"
  /\ Proceed(h, [kind |-> "initiatePayment", order |-> o])
  /\ UNCHANGED rows

\* ... then its payment: an existing one is returned or refused ...
FindExistingPayment(h) ==
  /\ req[h].kind = "initiatePayment"
  /\ IF payment[req[h].order] = "NONE"
       THEN Proceed(h, [req[h] EXCEPT !.kind = "createIntent"])
       ELSE Finish(h)
  /\ UNCHANGED rows

\* Mutant of createPaymentRow: an upsert instead of a create.
upsertPaymentRow(o) == payment' = [payment EXCEPT ![o] = "PENDING"]

\* payment.create; Payment.orderId @unique fails the second one of an order.
createPaymentRow(o) ==
  payment' = [payment EXCEPT ![o] = IF @ = "NONE" THEN "PENDING" ELSE @]

\* ... then the gateway's intent is stored.
CreatePayment(h) ==
  /\ req[h].kind = "createIntent"
  /\ createPaymentRow(req[h].order)
  /\ Finish(h)
  /\ UNCHANGED <<order, history, webhooks, moved, refunded, refundKeys, delivery>>

-----------------------------------------------------------------------------
(***************************************************************************)
(* Webhooks.  The route authenticates nobody, and the check accepts two    *)
(* signatures that the code itself contains: the HMAC under its own secret *)
(* and a constant.  So an accepted event is one that somebody sent, the    *)
(* gateway or not, and says nothing of what the gateway did.  Accepted     *)
(* events are never removed: they arrive late, more than once and in any   *)
(* order.  Before the payment has its row they are answered 404.           *)
(***************************************************************************)
Signatures == {"missing", "wrong", "hmac", "constant"}

verifyWebhookSignature(signature) == signature \in {"hmac", "constant"}

SendWebhook(o, event, signature) ==
  /\ payment[o] # "NONE"
  /\ verifyWebhookSignature(signature)
  /\ webhooks' = [webhooks EXCEPT ![o] = @ \cup {event}]
  /\ UNCHANGED <<order, history, payment, moved, refunded, refundKeys, delivery, req>>

\* Mutant of alreadyPaid: any payment that has not failed counts as handled.
notFailed(status) == status # "FAILED"

\* The idempotency test of the succeeded event.
alreadyPaid(status) == status = "PAID"

\* processWebhook up to its transaction, for an accepted event: a succeeded event for a payment that
\* reads PAID is acknowledged and nothing more.
ProcessWebhook(h, o, event) ==
  /\ req[h] = Idle
  /\ event \in webhooks[o]
  /\ payment[o] # "NONE"
  /\ ~(event = "succeeded" /\ alreadyPaid(payment[o]))
  /\ Proceed(h, [kind |-> event, order |-> o])
  /\ UNCHANGED rows

\* A handler between payment.update and commit holds the payment's row lock.
paymentLocked(o) ==
  \E h \in Handlers : req[h].kind = "confirm" /\ req[h].order = o

\* The succeeded transaction: payment.update takes the lock, order is read ...
LockPaymentReadOrder(h) ==
  /\ req[h].kind = "succeeded"
  /\ ~paymentLocked(req[h].order)
  /\ Proceed(h, [kind |-> "confirm", order |-> req[h].order,
                 seen |-> order[req[h].order].status])
  /\ UNCHANGED rows

\* Mutant of confirms: the status that was read is not looked at.
confirmsAlways(seen) == seen \in OrderStatus

confirms(seen) == seen = "PENDING"

\* ... and, if it read PENDING, confirmed; all of it becomes visible at commit.
CommitPaid(h) ==
  /\ req[h].kind = "confirm"
  /\ LET o == req[h].order IN
     /\ payment' = [payment EXCEPT ![o] = "PAID"]
     /\ \/ /\ confirms(req[h].seen)
           /\ order' = [order EXCEPT ![o].status = "CONFIRMED"]
           /\ append(o, statusHistoryRow("PENDING", "CONFIRMED", "processWebhook"))
        \/ /\ ~confirms(req[h].seen)
           /\ UNCHANGED <<order, history>>
  /\ Finish(h)
  /\ UNCHANGED <<webhooks, moved, refunded, refundKeys, delivery>>

\* Mutant of cancelOrderOf: only the payment is marked.
leaveOrderOf(o) == order' = order

cancelOrderOf(o) == order' = [order EXCEPT ![o].status = "CANCELLED"]

\* The failed transaction: payment FAILED, order CANCELLED, no audit row.
CommitFailed(h) ==
  /\ req[h].kind = "failed"
  /\ LET o == req[h].order IN
     /\ ~paymentLocked(o)
     /\ payment' = [payment EXCEPT ![o] = "FAILED"]
     /\ cancelOrderOf(o)
  /\ Finish(h)
  /\ UNCHANGED <<history, webhooks, moved, refunded, refundKeys, delivery>>

-----------------------------------------------------------------------------
\* processRefund by the restaurant's owner: the payment is read ...
ProcessRefund(h, o, amount, key) ==
  /\ req[h] = Idle
  /\ payment[o] \in {"PAID", "PARTIALLY_REFUNDED"}
  /\ Proceed(h, [kind |-> "refund", order |-> o, amount |-> amount, key |-> key])
  /\ UNCHANGED rows

\* ... a refund with the same key, of any payment, is returned as it is ...
FindExistingRefund(h) ==
  /\ req[h].kind = "refund"
  /\ IF req[h].key \in refundKeys
       THEN Finish(h)
       ELSE Proceed(h, [req[h] EXCEPT !.kind = "refundCleared"])
  /\ UNCHANGED rows

\* The ids no refund bears yet.
unusedIds == {id \in RefundIds : \A o \in Orders : \A r \in moved[o] : r.id # id}

\* ... the gateway pays the amount back, whatever the key and the total, and
\* answers with a new refund id ...
GatewayRefund(h) ==
  /\ req[h].kind = "refundCleared"
  /\ \E id \in unusedIds :
       LET refund == [id |-> id, amount |-> req[h].amount] IN
       /\ moved' = [moved EXCEPT ![req[h].order] = @ \cup {refund}]
       /\ Proceed(h, [kind |-> "refundMoved", order |-> req[h].order,
                      refund |-> refund, key |-> req[h].key])
  /\ UNCHANGED <<order, history, payment, webhooks, refunded, refundKeys, delivery>>

\* Mutant of isFullRefund: off by one.
isAlmostFullRefund(amount) == amount + 1 >= Total

isFullRefund(amount) == amount >= Total

\* Mutant of recordRefund: the payment's amount is stored, not the refund's.
recordTotal(o, refund) ==
  refunded' = [refunded EXCEPT ![o] = @ \cup {[refund EXCEPT !.amount = Total]}]

\* refund.create with the gateway's refund id.
recordRefund(o, refund) == refunded' = [refunded EXCEPT ![o] = @ \cup {refund}]

\* ... and the transaction records it; Refund.idempotencyKey @unique aborts it.
CommitRefund(h) ==
  /\ req[h].kind = "refundMoved"
  /\ LET o == req[h].order
         refund == req[h].refund
     IN  /\ ~paymentLocked(o)
         /\ \/ /\ req[h].key \in refundKeys
               /\ UNCHANGED <<payment, refunded, refundKeys>>
            \/ /\ req[h].key \notin refundKeys
               /\ payment' = [payment EXCEPT ![o] =
                    IF isFullRefund(refund.amount) THEN "REFUNDED" ELSE "PARTIALLY_REFUNDED"]
               /\ recordRefund(o, refund)
               /\ refundKeys' = refundKeys \cup ({req[h].key} \ {NULL})
  /\ Finish(h)
  /\ UNCHANGED <<order, history, webhooks, moved, delivery>>

-----------------------------------------------------------------------------
PaymentsNext ==
  \/ \E o \in Orders, event \in Events, signature \in Signatures :
       SendWebhook(o, event, signature)
  \/ \E h \in Handlers :
       \/ \E o \in Orders :
            \/ InitiatePayment(h, o)
            \/ \E event \in Events : ProcessWebhook(h, o, event)
            \/ \E amount \in RefundAmounts, key \in Keys \cup {NULL} :
                 ProcessRefund(h, o, amount, key)
       \/ FindExistingPayment(h)
       \/ CreatePayment(h)
       \/ LockPaymentReadOrder(h)
       \/ CommitPaid(h)
       \/ CommitFailed(h)
       \/ FindExistingRefund(h)
       \/ GatewayRefund(h)
       \/ CommitRefund(h)
=============================================================================
