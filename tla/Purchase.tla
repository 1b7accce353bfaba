------------------------------ MODULE Purchase ------------------------------
(***************************************************************************)
(* What one customer is promised of the basket and the orders: a basket is *)
(* of one restaurant, holds an item once and keeps what is put into it; an *)
(* order takes the whole basket, as it is, and leaves none of it behind;   *)
(* only an item that goes off the menu goes out of baskets and orders.     *)
(* How many queries a request takes for that is hidden.                    *)
(***************************************************************************)
CONSTANTS MenuItems, restaurantOf, Restaurants, RowIds, Quantities, Prices,
          OrderNumbers, NULL

VARIABLES
  offered,    \* items on a menu
  basket,     \* rows of the customer's basket
  placed      \* the customer's orders

vars == <<offered, basket, placed>>

Row == [id : RowIds, item : MenuItems, quantity : Quantities, unitPrice : Prices]

Init ==
  /\ offered = MenuItems
  /\ basket = {}
  /\ placed = [n \in OrderNumbers |-> NULL]

\* An id that no row of the basket and no line of an order has.
isNew(id) ==
  /\ \A other \in basket : other.id # id
  /\ \A n \in OrderNumbers : placed[n] # NULL => \A line \in placed[n].lines : line.id # id

PutIn(row) ==
  /\ row \in Row /\ row.item \in offered /\ isNew(row.id)
  /\ \A other \in basket :
       other.item # row.item /\ restaurantOf[other.item] = restaurantOf[row.item]
  /\ basket' = basket \cup {row}
  /\ UNCHANGED <<offered, placed>>

\* Another quantity of the same row.
Change(row, changed) ==
  /\ changed.quantity \in Quantities
  /\ changed = [row EXCEPT !.quantity = changed.quantity]
  /\ basket' = (basket \ {row}) \cup {changed}
  /\ UNCHANGED <<offered, placed>>

TakeOut(row) ==
  /\ basket' = basket \ {row}
  /\ UNCHANGED <<offered, placed>>

Empty == basket' = {} /\ UNCHANGED <<offered, placed>>

\* The whole basket is ordered at the restaurant it is of.
Order(n, restaurant) ==
  /\ placed[n] = NULL
  /\ basket # {} /\ \A row \in basket : restaurantOf[row.item] = restaurant
  /\ placed' = [placed EXCEPT ![n] = [restaurant |-> restaurant, lines |-> basket]]
  /\ basket' = {}
  /\ UNCHANGED offered

\* Items go off the menu and out of the basket and the orders.
Withdraw(S) ==
  /\ offered' = offered \ S
  /\ basket' = {row \in basket : row.item \notin S}
  /\ placed' = [n \in OrderNumbers |->
       IF placed[n] = NULL THEN NULL
       ELSE [placed[n] EXCEPT !.lines = {line \in @ : line.item \notin S}]]

Next ==
  \/ \E row \in basket' : PutIn(row)
  \/ \E row \in basket : TakeOut(row) \/ \E changed \in basket' : Change(row, changed)
  \/ Empty
  \/ \E n \in OrderNumbers, restaurant \in Restaurants : Order(n, restaurant)
  \/ \E S \in SUBSET MenuItems : Withdraw(S)

Spec == Init /\ [][Next]_vars
=============================================================================
