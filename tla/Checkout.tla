------------------------------- MODULE Checkout -------------------------------
(***************************************************************************)
(* createOrder (orders.service.ts) over the customer's cart, while the     *)
(* restaurant edits its menu (menus.service.ts) and an administrator opens *)
(* and closes restaurants (restaurants.service.ts).                        *)
(***************************************************************************)
EXTENDS Carts

CONSTANT Categories   \* sets of items of one menu category

ASSUME CategoriesHoldItems == Categories \subseteq SUBSET MenuItems

CheckoutRequest == [kind : {"createOrder"}, order : Order]

\* createOrder reads the cart: not empty, of a restaurant, everything available.
CreateOrder(h) ==
  /\ req[h] = Idle
  /\ items # {} /\ restaurant # NULL
  /\ \A row \in items : menu[row.item].isAvailable
  /\ Proceed(h, [kind |-> "createOrder",
                 order |-> [restaurant |-> restaurant, lines |-> items]])
  /\ UNCHANGED <<catalog, cart, placed>>

\* Mutant of wipeCart: the rows stay.
wipeNothing == UNCHANGED cart

\* cartItem.deleteMany and cart.update.
wipeCart == emptyCart /\ restaurant' = NULL

\* Its $transaction; a deleted menu item fails the order item's foreign key.
PlaceOrder(h) ==
  /\ req[h].kind = "createOrder"
  /\ \/ /\ \A line \in req[h].order.lines : menu[line.item] # NULL
        /\ \E n \in OrderNumbers :
             /\ placed[n] = NULL
             /\ placed' = [placed EXCEPT ![n] = req[h].order]
        /\ wipeCart
     \/ /\ \E line \in req[h].order.lines : menu[line.item] = NULL
        /\ UNCHANGED <<cart, placed>>
  /\ Finish(h)
  /\ UNCHANGED catalog

-----------------------------------------------------------------------------
\* updateMenuItem: price and availability.
UpdateMenuItem(i, row) ==
  /\ menu[i] # NULL
  /\ menu' = [menu EXCEPT ![i] = row]
  /\ UNCHANGED <<active, cart, placed, req>>

\* Mutant of deleteItems: the cascade takes the whole cart.
deleteCarts(S) ==
  /\ menu' = [i \in MenuItems |-> IF i \in S THEN NULL ELSE menu[i]]
  /\ items' = {}
  /\ placed' = [n \in OrderNumbers |->
       IF placed[n] = NULL THEN NULL
       ELSE [placed[n] EXCEPT !.lines = {line \in @ : line.item \notin S}]]

\* Rows that refer to a deleted menu item go with it (onDelete: Cascade).
deleteItems(S) ==
  /\ menu' = [i \in MenuItems |-> IF i \in S THEN NULL ELSE menu[i]]
  /\ items' = {row \in items : row.item \notin S}
  /\ placed' = [n \in OrderNumbers |->
       IF placed[n] = NULL THEN NULL
       ELSE [placed[n] EXCEPT !.lines = {line \in @ : line.item \notin S}]]

DeleteMenuItem(i) ==
  /\ menu[i] # NULL
  /\ deleteItems({i})
  /\ UNCHANGED <<active, restaurant, req>>

\* deleteCategory: its items go with it.
DeleteCategory(c) ==
  /\ \E i \in c : menu[i] # NULL
  /\ deleteItems(c)
  /\ UNCHANGED <<active, restaurant, req>>

\* updateRestaurantStatus: the restaurant stops or starts taking orders.
UpdateRestaurantStatus(r) ==
  /\ \/ r \in active /\ active' = active \ {r}
     \/ r \notin active /\ active' = active \cup {r}
  /\ UNCHANGED <<menu, cart, placed, req>>

CatalogNext ==
  \/ \E i \in MenuItems :
       \/ \E row \in MenuItem : UpdateMenuItem(i, row)
       \/ DeleteMenuItem(i)
  \/ \E c \in Categories : DeleteCategory(c)
  \/ \E r \in Restaurants : UpdateRestaurantStatus(r)

CheckoutNext == \E h \in Handlers : CreateOrder(h) \/ PlaceOrder(h)

Next == CartsNext \/ CheckoutNext \/ CatalogNext

Spec == Init /\ [][Next]_vars

-----------------------------------------------------------------------------
\* Rows and requests in flight have their shapes; a menu item has one row.
TypeOK ==
  /\ menu \in [MenuItems -> MenuItem \cup {NULL}]
  /\ active \subseteq Restaurants
  /\ restaurant \in Restaurants \cup {NULL}
  /\ items \subseteq CartItem /\ IsFiniteSet(items)
  /\ \A x, y \in items : x.id = y.id \/ x.item = y.item => x = y
  /\ placed \in [OrderNumbers -> Order \cup {NULL}]
  /\ req \in [Handlers -> {Idle} \cup CartRequest \cup CheckoutRequest]

(***************************************************************************)
(* One cart, one restaurant: every row of the cart is of the cart's        *)
(* restaurant, although addToCart and removeCartItem write the two tables  *)
(* one query at a time and may die in between (carts.service.ts:98-151,    *)
(* :203-214).                                                              *)
(***************************************************************************)
CartHasOneRestaurant == \A row \in items : restaurantOf[row.item] = restaurant

(***************************************************************************)
(* An order's lines are of the order's restaurant (orders.service.ts:93).  *)
(***************************************************************************)
OrderHasOneRestaurant ==
  \A n \in OrderNumbers : placed[n] # NULL =>
    \A line \in placed[n].lines : restaurantOf[line.item] = placed[n].restaurant

(***************************************************************************)
(* No row of a cart is ordered twice, nor left in the cart once ordered    *)
(* (orders.service.ts:96-145).                                             *)
(***************************************************************************)
OrderedOnce ==
  \A n \in OrderNumbers : placed[n] # NULL =>
    \A line \in placed[n].lines :
      /\ \A row \in items : row.id # line.id
      /\ \A m \in OrderNumbers \ {n} : placed[m] # NULL =>
           \A other \in placed[m].lines : other.id # line.id

\* What request r has read still holds.
isFreshRead(r) ==
  /\ r.kind \in {"find", "create"} => restaurant = restaurantOf[r.item]
  /\ r.kind = "claim" => restaurant = NULL
  /\ r.kind = "reset" => items = {}
  /\ r.kind = "createOrder" =>
       /\ restaurant = r.order.restaurant
       /\ items = {line \in r.order.lines : menu[line.item] # NULL}

\* Another request committed between what h read and what it does now.
isOvertaken(h, kinds) ==
  req[h].kind \in kinds /\ req'[h] # req[h] /\ ~isFreshRead(req[h])

\* Neither its own steps nor the catalog make a request's reads untrue.
ReadsHold ==
  \A h \in Handlers :
    isFreshRead(req[h]) /\ (req'[h] # req[h] \/ catalog' # catalog) => isFreshRead(req[h])'

RowsAreOnMenu == \A row \in items : menu[row.item] # NULL

(***************************************************************************)
(* What one request has read still holds, as long as another one does not  *)
(* write the cart: the cascade of a deleted item leaves no row behind.     *)
(***************************************************************************)
FreshReads ==
  /\ \A h \in Handlers : isFreshRead(req[h])
  /\ RowsAreOnMenu

\* A customer who waits for each answer.
OneAtATime == \A g, h \in Handlers : g = h

\* The inductive invariant of such a customer's cart and orders.
IInv ==
  /\ TypeOK
  /\ CartHasOneRestaurant
  /\ OrderHasOneRestaurant
  /\ OrderedOnce
  /\ FreshReads

(***************************************************************************)
(* However a customer's requests overlap, a cart of one restaurant becomes *)
(* one of two only by a step of addToCart or removeCartItem that another   *)
(* request overtook (carts.service.ts:116, :142, :209), never by what the  *)
(* request itself or a restaurant does.                                    *)
(***************************************************************************)
OneRestaurantKept ==
  [][/\ CartHasOneRestaurant =>
          CartHasOneRestaurant' \/ \E h \in Handlers : isOvertaken(h, {"claim", "create", "reset"})
     /\ ReadsHold]_vars

(***************************************************************************)
(* However they overlap, a row is ordered twice, or stays in the cart once *)
(* ordered, only by a createOrder whose cart another request changed since *)
(* it was read: its transaction asks nothing (orders.service.ts:19, :96).  *)
(***************************************************************************)
OrderedOnceKept ==
  [][OrderedOnce => OrderedOnce' \/ \E h \in Handlers : isOvertaken(h, {"createOrder"})]_vars

(***************************************************************************)
(* What the cart and the orders are to the customer, step by step: every   *)
(* query of every request is a step of Purchase or changes nothing the     *)
(* customer sees.  A row leaves the cart by a request of the customer's,   *)
(* in an order that takes the whole cart (orders.service.ts:93-145), or    *)
(* with its menu item (schema.prisma:333, :418), and so it leaves orders.  *)
(* Only two requests whose reads were overtaken break this: one that then  *)
(* creates a row (carts.service.ts:142) and one that orders (:138).        *)
(***************************************************************************)
Promise == INSTANCE Purchase WITH
  basket <- items, offered <- {i \in MenuItems : menu[i] # NULL},
  Quantities <- Nat \ {0}

PurchaseKept ==
  [][CartHasOneRestaurant =>
       \/ UNCHANGED Promise!vars
       \/ Promise!Next
       \/ \E h \in Handlers : isOvertaken(h, {"create", "createOrder"})]_vars

\* With one request at a time the exception is empty.
ImplementsPurchase == Promise!Spec
=============================================================================
