--------------------------- MODULE FulfilmentClaims ---------------------------
(***************************************************************************)
(* What the repository's documents, comments, messages and tests say of    *)
(* orders, payments and deliveries, where the code does something else.    *)
(* Each claim is checked by a run that is expected to refute it.           *)
(***************************************************************************)
EXTENDS MCFulfilment

(***************************************************************************)
(* docs/PRD.md:540, "The system must prevent invalid state transitions":   *)
(* every change of an order's status is an edge of ALLOWED_TRANSITIONS.    *)
(* assignDelivery (deliveries.service.ts:91-97) looks at no status.        *)
(***************************************************************************)
EveryTransitionAllowed ==
  [][\A o \in Orders : order'[o].status # order[o].status =>
       isValidOrderTransition(order[o].status, order'[o].status)]_vars

(***************************************************************************)
(* docs/Design,.md:991, "Webhook processing must be idempotent": a         *)
(* redelivered succeeded event does not turn a refunded payment back to    *)
(* PAID (payments.service.ts:103-111 only tests for PAID).                 *)
(***************************************************************************)
WebhookIdempotent ==
  [][\A o \in Orders : payment[o] \in {"REFUNDED", "PARTIALLY_REFUNDED"} =>
       payment'[o] # "PAID"]_vars

(***************************************************************************)
(* docs/Architecture.md:1093, idempotency "prevents duplicate side effects *)
(* caused by retries", for refunds too: the gateway pays once per key.     *)
(* The key is looked up and stored on either side of the gateway call      *)
(* (payments.service.ts:243-280).                                          *)
(***************************************************************************)
OneGatewayRefundPerKey ==
  \A h \in Handlers :
    req[h].kind = "refundMoved" /\ req[h].key # NULL =>
      /\ req[h].key \notin refundKeys
      /\ \A g \in Handlers \ {h} : req[g].kind = "refundMoved" => req[g].key # req[h].key
=============================================================================
