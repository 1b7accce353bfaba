-------------------------- MODULE OrderStateMachine --------------------------
(***************************************************************************)
(* The order status graph and the role rules of                            *)
(* src/modules/orders/order-state-machine.ts, as pure operators.  A thrown *)
(* BadRequestError or ForbiddenError is the value FALSE.                   *)
(***************************************************************************)

\* enum OrderStatus.
OrderStatus ==
  {"PENDING", "CONFIRMED", "PREPARING", "READY_FOR_PICKUP", "ASSIGNED",
   "PICKED_UP", "OUT_FOR_DELIVERY", "DELIVERED", "CANCELLED"}

\* The statuses no request may leave.
TerminalStatuses == {"DELIVERED", "CANCELLED"}

\* The statuses only the restaurant sets, and those only the rider sets.
KitchenStatuses == {"CONFIRMED", "PREPARING", "READY_FOR_PICKUP"}
RiderStatuses   == {"PICKED_UP", "OUT_FOR_DELIVERY", "DELIVERED"}

\* ALLOWED_TRANSITIONS, as a set of edges <<from, to>>.
AllowedTransitions ==
  { <<"PENDING", "CONFIRMED">>,            <<"PENDING", "CANCELLED">>,
    <<"CONFIRMED", "PREPARING">>,          <<"CONFIRMED", "CANCELLED">>,
    <<"PREPARING", "READY_FOR_PICKUP">>,   <<"PREPARING", "CANCELLED">>,
    <<"READY_FOR_PICKUP", "ASSIGNED">>,    <<"READY_FOR_PICKUP", "CANCELLED">>,
    <<"ASSIGNED", "PICKED_UP">>,           <<"ASSIGNED", "CANCELLED">>,
    <<"PICKED_UP", "OUT_FOR_DELIVERY">>,
    <<"OUT_FOR_DELIVERY", "DELIVERED">> }

isValidOrderTransition(current, target) ==
  <<current, target>> \in AllowedTransitions

isAdmin(user) == user.roles \cap {"SUPER_ADMIN", "ADMIN"} # {}

(***************************************************************************)
(* Steps 3 and 4 of validateOrderTransition: who may move an order along   *)
(* an edge of the graph.  context is the order as the caller read it:      *)
(* [userId, restaurantOwnerId, riderId, isStaffOrOwner].                   *)
(***************************************************************************)
mayTransition(current, target, user, context) ==
  LET isCustomer == user.id = context.userId
      isKitchen  == user.id = context.restaurantOwnerId \/ context.isStaffOrOwner
      isAssigned == user.id = context.riderId
      isRider    == "DELIVERY_RIDER" \in user.roles
  IN  \/ isAdmin(user)
      \/ /\ target = "CANCELLED"
         /\ \/ isCustomer /\ current \in {"PENDING", "CONFIRMED"}
            \/ isKitchen
      \/ target \in KitchenStatuses /\ isKitchen
      \/ target = "ASSIGNED" /\ (isKitchen \/ isRider)
      \/ target \in RiderStatuses /\ (isAssigned \/ isRider)

\* Mutant of validateOrderTransition: the role rules without the graph.
validateRolesOnly(current, target, user, context) ==
  mayTransition(current, target, user, context)

validateOrderTransition(current, target, user, context) ==
  /\ current \notin TerminalStatuses
  /\ isValidOrderTransition(current, target)
  /\ mayTransition(current, target, user, context)
=============================================================================
