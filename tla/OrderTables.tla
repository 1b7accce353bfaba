----------------------------- MODULE OrderTables -----------------------------
(***************************************************************************)
(* The rows the order, payment and delivery services share in PostgreSQL,  *)
(* and the API requests in flight over them.                               *)
(*                                                                         *)
(* Every handler of these services reads its rows with one or more awaited *)
(* queries, decides, and then writes inside one prisma.$transaction.  Any  *)
(* other request may commit between two awaits, so a handler is a chain of *)
(* actions and req[h] holds what it has read so far.  A $transaction is    *)
(* one action, since the first row it writes stays locked until it commits *)
(* and later writers of that row queue behind it; the one transaction that *)
(* reads an unlocked row inside itself (the webhook's) is two actions.     *)
(***************************************************************************)
EXTENDS Naturals, OrderStateMachine

CONSTANTS
  Orders,        \* orders that have been placed
  Users,         \* registered users; anyone may carry a delivery
  Handlers,      \* API requests that may be in flight at the same time
  Keys,          \* idempotency keys a client attaches to a refund
  NULL,          \* SQL NULL: no rider, no key, no previous status
  customer,      \* [Orders -> Users]: Order.userId
  owner,         \* [Orders -> Users]: the restaurant's ownerId
  staff          \* [Orders -> SUBSET Users]: the restaurant's staff rows

ASSUME NullIsNoValue ==
  NULL \notin Users /\ NULL \notin Keys /\ NULL \notin OrderStatus

ASSUME PartiesAreUsers ==
  /\ customer \in [Orders -> Users]
  /\ owner \in [Orders -> Users]
  /\ staff \in [Orders -> SUBSET Users]

VARIABLES
  order,         \* Order rows: status and riderId
  history,       \* the newest OrderStatusHistory row of each order
  payment,       \* Payment.status of the order's payment, "NONE" without a row
  webhooks,      \* events about the order in webhooks the signature check accepts
  moved,         \* refunds the gateway has paid back for the order
  refunded,      \* the order's Refund rows: the gateway's refund id and the amount
  refundKeys,    \* idempotency keys present in the refunds table
  delivery,      \* Delivery rows: status ("NONE" without a row) and riderId
  req            \* what each request in flight has read so far

rows == <<order, history, payment, webhooks, moved, refunded, refundKeys, delivery>>
vars == <<rows, req>>

\* enum PaymentStatus, as far as the code assigns it, and no row.
PaymentStatus ==
  {"NONE", "PENDING", "PAID", "FAILED", "REFUNDED", "PARTIALLY_REFUNDED"}

\* enum DeliveryStatus and no row.  No code path writes PENDING.
DeliveryStatus ==
  {"NONE", "PENDING", "ASSIGNED", "ACCEPTED", "PICKED_UP", "OUT_FOR_DELIVERY",
   "DELIVERED", "CANCELLED"}

\* The handlers that append to OrderStatusHistory.
Writers == {"createOrder", "updateOrderStatus", "processWebhook",
            "assignDelivery", "updateDeliveryStatus"}

Idle == [kind |-> "idle"]

\* The row orderStatusHistory.create appends.
statusHistoryRow(from, to, writer) == [from |-> from, to |-> to, by |-> writer]

\* Mutant of append: the create is missing.
appendNothing(o, row) == history' = history

\* orderStatusHistory.create inside the transaction that sets the status.
append(o, row) == history' = [history EXCEPT ![o] = row]

\* req.user as authenticate.ts builds it: the selected columns have no roles.
userContext(u) == [id |-> u, roles |-> {}]

\* What createOrder has committed: a PENDING order with its first history row.
Init ==
  /\ order = [o \in Orders |-> [status |-> "PENDING", riderId |-> NULL]]
  /\ history = [o \in Orders |-> statusHistoryRow(NULL, "PENDING", "createOrder")]
  /\ payment = [o \in Orders |-> "NONE"]
  /\ webhooks = [o \in Orders |-> {}]
  /\ moved = [o \in Orders |-> {}]
  /\ refunded = [o \in Orders |-> {}]
  /\ refundKeys = {}
  /\ delivery = [o \in Orders |-> [status |-> "NONE", riderId |-> NULL]]
  /\ req = [h \in Handlers |-> Idle]

\* Handler h goes on with what it has read, or ends.
Proceed(h, state) == req' = [req EXCEPT ![h] = state]
Finish(h) == Proceed(h, Idle)

(***************************************************************************)
(* The process dies, the client's connection pool times out or PostgreSQL  *)
(* aborts the transaction (deadlock): nothing of h is committed any more.  *)
(***************************************************************************)
Abandon(h) ==
  /\ req[h] # Idle
  /\ Finish(h)
  /\ UNCHANGED rows
=============================================================================
