----------------------------- MODULE PaymentLife -----------------------------
(***************************************************************************)
(* What the payment service promises of each order's payment, whoever asks *)
(* for what and how often: it is created once, it is settled by an event   *)
(* that was accepted and by nothing else, and a refund is recorded once,   *)
(* for the amount and the payment the gateway paid back, and moves the     *)
(* status by that refund alone.  Requests, keys and the order are hidden.  *)
(* The promise has gaps the code leaves: whether the gateway is behind an  *)
(* event is not asked, an event settles a payment again after a refund,    *)
(* and nothing makes a paid refund be recorded at all.                     *)
(***************************************************************************)
EXTENDS Naturals

CONSTANTS Orders, RefundIds, RefundAmounts, Total

VARIABLES
  status,     \* of the payment, "NONE" before it exists
  events,     \* what accepted webhooks have said of it
  paid,       \* refunds the gateway has paid back
  recorded    \* refunds on record

vars == <<status, events, paid, recorded>>

Refund == [id : RefundIds, amount : RefundAmounts]

Init ==
  /\ status = [o \in Orders |-> "NONE"]
  /\ events = [o \in Orders |-> {}]
  /\ paid = [o \in Orders |-> {}]
  /\ recorded = [o \in Orders |-> {}]

Create(o) ==
  /\ status[o] = "NONE"
  /\ status' = [status EXCEPT ![o] = "PENDING"]
  /\ UNCHANGED <<events, paid, recorded>>

\* An event is accepted: an attempt failed, or succeeded.
Accept(o, event) ==
  /\ status[o] # "NONE"
  /\ events' = [events EXCEPT ![o] = @ \cup {event}]
  /\ UNCHANGED <<status, paid, recorded>>

\* The payment takes the outcome an accepted event tells.
Settle(o, event, outcome) ==
  /\ status[o] # "NONE"
  /\ event \in events[o]
  /\ status' = [status EXCEPT ![o] = outcome]
  /\ UNCHANGED <<events, paid, recorded>>

\* Money goes back only for a payment said to have succeeded, under an id of its own.
PayBack(o, refund) ==
  /\ "succeeded" \in events[o]
  /\ \A p \in Orders : \A r \in paid[p] : r.id # refund.id
  /\ paid' = [paid EXCEPT ![o] = @ \cup {refund}]
  /\ UNCHANGED <<status, events, recorded>>

Record(o, refund) ==
  /\ refund \in paid[o] \ recorded[o]
  /\ recorded' = [recorded EXCEPT ![o] = @ \cup {refund}]
  /\ status' = [status EXCEPT ![o] =
       IF refund.amount >= Total THEN "REFUNDED" ELSE "PARTIALLY_REFUNDED"]
  /\ UNCHANGED <<events, paid>>

Next ==
  \E o \in Orders :
    \/ Create(o)
    \/ \E event \in {"succeeded", "failed"} : Accept(o, event)
    \/ Settle(o, "succeeded", "PAID")
    \/ Settle(o, "failed", "FAILED")
    \/ \E refund \in Refund : PayBack(o, refund) \/ Record(o, refund)

Spec == Init /\ [][Next]_vars
=============================================================================
