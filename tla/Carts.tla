-------------------------------- MODULE Carts --------------------------------
(***************************************************************************)
(* carts.service.ts: the cart of one customer, edited by the requests of   *)
(* the customer's tabs and devices.  addToCart and removeCartItem write    *)
(* several rows with one query each and no transaction, so every query is  *)
(* an action of its own and req[h] holds what the request has read.        *)
(***************************************************************************)
EXTENDS Naturals, FiniteSets

CONSTANTS
  MenuItems,      \* items that may be on a menu
  restaurantOf,   \* [MenuItems -> Restaurants]
  Restaurants,
  Prices,         \* prices an item may have
  MaxQuantity,    \* bound for TLC: no row grows beyond it
  RowIds,         \* bound for TLC: ids of CartItem rows
  OrderNumbers,   \* bound for TLC: orders the customer places
  Handlers,       \* requests of the customer in flight at the same time
  NULL            \* SQL NULL, and no row

ASSUME ItemsHaveRestaurants == restaurantOf \in [MenuItems -> Restaurants]
ASSUME QuantityIsPositive == MaxQuantity \in Nat \ {0} /\ Prices \subseteq Nat

VARIABLES
  menu,           \* MenuItem rows: price and isAvailable, NULL when deleted
  active,         \* restaurants whose status is ACTIVE
  restaurant,     \* Cart.restaurantId
  items,          \* CartItem rows of the cart
  placed,         \* orders: restaurant and lines, NULL before they are placed
  req             \* what each request has read

catalog == <<menu, active>>
cart == <<restaurant, items>>
vars == <<catalog, cart, placed, req>>

CartItem == [id : RowIds, item : MenuItems, quantity : Nat \ {0}, unitPrice : Prices]
MenuItem == [price : Prices, isAvailable : BOOLEAN]
Order == [restaurant : Restaurants, lines : SUBSET CartItem]

ASSUME NullIsNoRow == NULL \notin Restaurants \cup MenuItem \cup Order

Idle == [kind |-> "idle"]

CartRequest ==
  [kind : {"addToCart"}, item : MenuItems, quantity : Nat \ {0}, price : Prices,
   clear : BOOLEAN]
  \cup
  [kind : {"switch", "claim", "find", "create"}, item : MenuItems,
   quantity : Nat \ {0}, price : Prices]
  \cup
  [kind : {"setQuantity"}, id : RowIds, quantity : Nat \ {0}]
  \cup
  [kind : {"delete"}, id : RowIds]
  \cup
  [kind : {"count", "reset"}]

Init ==
  /\ menu \in [MenuItems -> MenuItem]
  /\ active = Restaurants
  /\ restaurant = NULL
  /\ items = {}
  /\ placed = [n \in OrderNumbers |-> NULL]
  /\ req = [h \in Handlers |-> Idle]

Proceed(h, state) == req' = [req EXCEPT ![h] = state]
Finish(h) == Proceed(h, Idle)

\* The request dies, or its client gives up and the process with it.
Abandon(h) ==
  /\ req[h] # Idle
  /\ Finish(h)
  /\ UNCHANGED <<catalog, cart, placed>>

-----------------------------------------------------------------------------
\* addToCart reads the menu item and its restaurant ...
AddToCart(h, i, quantity, clear) ==
  /\ req[h] = Idle
  /\ menu[i] # NULL /\ menu[i].isAvailable
  /\ restaurantOf[i] \in active
  /\ Proceed(h, [kind |-> "addToCart", item |-> i, quantity |-> quantity,
                 price |-> menu[i].price, clear |-> clear])
  /\ UNCHANGED <<catalog, cart, placed>>

\* The cart holds another restaurant's items.
clashes(i) == restaurant \notin {NULL, restaurantOf[i]}

\* ... then the cart: another restaurant's is replaced if the client says so ...
ReadCart(h) ==
  /\ req[h].kind = "addToCart"
  /\ LET r == req[h]
         next(kind) == Proceed(h, [kind |-> kind, item |-> r.item,
                                   quantity |-> r.quantity, price |-> r.price])
     IN  \/ clashes(r.item) /\ ~r.clear /\ Finish(h)
         \/ clashes(r.item) /\ r.clear /\ next("switch")
         \/ restaurant = NULL /\ next("claim")
         \/ restaurant # NULL /\ ~clashes(r.item) /\ next("find")
  /\ UNCHANGED <<catalog, cart, placed>>

\* Mutant of emptyCart: the rows stay.
keepRows == UNCHANGED items

\* cartItem.deleteMany.
emptyCart == items' = {}

\* ... by a transaction that empties it and changes its restaurant ...
SwitchRestaurant(h) ==
  /\ req[h].kind = "switch"
  /\ emptyCart
  /\ restaurant' = restaurantOf[req[h].item]
  /\ Proceed(h, [req[h] EXCEPT !.kind = "find"])
  /\ UNCHANGED <<catalog, placed>>

\* ... an empty one takes the item's restaurant ...
ClaimRestaurant(h) ==
  /\ req[h].kind = "claim"
  /\ restaurant' = restaurantOf[req[h].item]
  /\ Proceed(h, [req[h] EXCEPT !.kind = "find"])
  /\ UNCHANGED <<catalog, items, placed>>

\* ... then the item's row is looked up ...
FindItem(h) ==
  /\ req[h].kind = "find"
  /\ LET r == req[h] IN
     \/ \E row \in items :
          /\ row.item = r.item
          /\ row.quantity + r.quantity <= MaxQuantity
          /\ Proceed(h, [kind |-> "setQuantity", id |-> row.id,
                         quantity |-> row.quantity + r.quantity])
     \/ /\ \A row \in items : row.item # r.item
        /\ Proceed(h, [r EXCEPT !.kind = "create"])
  /\ UNCHANGED <<catalog, cart, placed>>

\* Row ids no row, order or request refers to.
isFresh(id) ==
  /\ \A row \in items : row.id # id
  /\ \A n \in OrderNumbers : placed[n] # NULL => \A line \in placed[n].lines : line.id # id
  /\ \A h \in Handlers :
       /\ req[h].kind \in {"setQuantity", "delete"} => req[h].id # id
       /\ req[h].kind = "createOrder" => \A line \in req[h].order.lines : line.id # id

\* ... and created; the unique (cartId, menuItemId) and the foreign key may fail.
CreateItem(h) ==
  /\ req[h].kind = "create"
  /\ LET i == req[h].item IN
     \/ /\ menu[i] # NULL /\ \A row \in items : row.item # i
        /\ \E id \in RowIds :
             /\ isFresh(id)
             /\ items' = items \cup {[id |-> id, item |-> i, quantity |-> req[h].quantity,
                                      unitPrice |-> req[h].price]}
     \/ /\ menu[i] = NULL \/ \E row \in items : row.item = i
        /\ UNCHANGED items
  /\ Finish(h)
  /\ UNCHANGED <<catalog, restaurant, placed>>

-----------------------------------------------------------------------------
\* Mutant of removes: zero is an ordinary quantity.
removesBelowZero(quantity) == quantity < 0

removes(quantity) == quantity = 0

\* updateCartItem finds the row; quantity zero is removeCartItem.
UpdateCartItem(h, row, quantity) ==
  /\ req[h] = Idle
  /\ row \in items
  /\ \/ ~removes(quantity)
        /\ Proceed(h, [kind |-> "setQuantity", id |-> row.id, quantity |-> quantity])
     \/ removes(quantity) /\ Proceed(h, [kind |-> "delete", id |-> row.id])
  /\ UNCHANGED <<catalog, cart, placed>>

RemoveCartItem(h, row) == UpdateCartItem(h, row, 0)

\* cartItem.update by id, of addToCart and updateCartItem; a missing row throws.
SetQuantity(h) ==
  /\ req[h].kind = "setQuantity"
  /\ items' = {IF row.id = req[h].id THEN [row EXCEPT !.quantity = req[h].quantity]
                                     ELSE row : row \in items}
  /\ Finish(h)
  /\ UNCHANGED <<catalog, restaurant, placed>>

\* cartItem.delete by id; a missing row throws.
DeleteItem(h) ==
  /\ req[h].kind = "delete"
  /\ items' = {row \in items : row.id # req[h].id}
  /\ IF items' = items THEN Finish(h) ELSE Proceed(h, [kind |-> "count"])
  /\ UNCHANGED <<catalog, restaurant, placed>>

isLast(n) == n = 0

\* The remaining rows are counted ...
CountItems(h) ==
  /\ req[h].kind = "count"
  /\ IF isLast(Cardinality(items)) THEN Proceed(h, [kind |-> "reset"]) ELSE Finish(h)
  /\ UNCHANGED <<catalog, cart, placed>>

\* ... and an empty cart gives its restaurant up.
ResetRestaurant(h) ==
  /\ req[h].kind = "reset"
  /\ restaurant' = NULL
  /\ Finish(h)
  /\ UNCHANGED <<catalog, items, placed>>

\* clearCart: one transaction.
ClearCart(h) ==
  /\ req[h] = Idle
  /\ emptyCart
  /\ restaurant' = NULL
  /\ UNCHANGED <<catalog, placed, req>>

CartsNext ==
  \E h \in Handlers :
    \/ \E i \in MenuItems, quantity \in 1..MaxQuantity, clear \in BOOLEAN :
         AddToCart(h, i, quantity, clear)
    \/ ReadCart(h) \/ SwitchRestaurant(h) \/ ClaimRestaurant(h)
    \/ FindItem(h) \/ CreateItem(h)
    \/ \E row \in items, quantity \in 0..MaxQuantity : UpdateCartItem(h, row, quantity)
    \/ \E row \in items : RemoveCartItem(h, row)
    \/ SetQuantity(h) \/ DeleteItem(h) \/ CountItems(h) \/ ResetRestaurant(h)
    \/ ClearCart(h)
    \/ Abandon(h)
=============================================================================
