---------------------------- MODULE CheckoutProofs ----------------------------
(***************************************************************************)
(* However the requests of a customer overlap, the cart's rows keep their  *)
(* shape, and only a request that another overtook mixes restaurants,      *)
(* orders a row twice or drops one.  So none of it happens to a customer   *)
(* who waits for each answer (OneAtATime), whatever the restaurants do to  *)
(* their menus and wherever a request dies.                                *)
(***************************************************************************)
EXTENDS Checkout, FiniteSetTheorems, TLAPS

USE DEF emptyCart, wipeCart, removes, clashes, isLast, catalog, cart

\* The kind of a request tells the record it is.
LEMMA RequestShape ==
  ASSUME TypeOK, NEW h \in Handlers
  PROVE  /\ req[h].kind = "addToCart" =>
              req[h] \in [kind : {"addToCart"}, item : MenuItems, quantity : Nat \ {0},
                          price : Prices, clear : BOOLEAN]
         /\ req[h].kind \in {"switch", "claim", "find", "create"} =>
              req[h] \in [kind : {"switch", "claim", "find", "create"}, item : MenuItems,
                          quantity : Nat \ {0}, price : Prices]
         /\ req[h].kind = "setQuantity" =>
              req[h] \in [kind : {"setQuantity"}, id : RowIds, quantity : Nat \ {0}]
         /\ req[h].kind = "delete" => req[h] \in [kind : {"delete"}, id : RowIds]
         /\ req[h].kind = "createOrder" => req[h] \in CheckoutRequest
BY DEF TypeOK, Idle, CartRequest, CheckoutRequest

\* A step that only moves request h on keeps the shapes.
LEMMA ProceedTypeOK ==
  ASSUME TypeOK, NEW h \in Handlers, NEW r \in {Idle} \cup CartRequest \cup CheckoutRequest,
         Proceed(h, r), UNCHANGED <<catalog, cart, placed>>
  PROVE  TypeOK'
BY DEF TypeOK, Proceed

LEMMA InitTypeOK == Init => TypeOK
BY FS_EmptySet DEF Init, TypeOK, Idle

\* The queries of addToCart.
LEMMA AddTypeOK ==
  ASSUME TypeOK, NEW h \in Handlers,
         \/ \E i \in MenuItems, quantity \in 1..MaxQuantity, clear \in BOOLEAN :
              AddToCart(h, i, quantity, clear)
         \/ ReadCart(h) \/ SwitchRestaurant(h) \/ ClaimRestaurant(h)
         \/ FindItem(h) \/ CreateItem(h)
  PROVE  TypeOK'
<1>1. CASE \E i \in MenuItems, quantity \in 1..MaxQuantity, clear \in BOOLEAN :
             AddToCart(h, i, quantity, clear)
  <2>1. PICK i \in MenuItems, quantity \in 1..MaxQuantity, clear \in BOOLEAN :
          AddToCart(h, i, quantity, clear)
    BY <1>1
  <2>2. quantity \in Nat \ {0}
    BY QuantityIsPositive
  <2>3. menu[i].price \in Prices
    BY <2>1 DEF AddToCart, TypeOK, MenuItem
  <2>4. [kind |-> "addToCart", item |-> i, quantity |-> quantity,
         price |-> menu[i].price, clear |-> clear] \in CartRequest
    BY <2>2, <2>3 DEF CartRequest
  <2>5. QED
    BY <2>1, <2>4, ProceedTypeOK DEF AddToCart
<1>2. CASE ReadCart(h)
  <2>1. /\ req[h].item \in MenuItems /\ req[h].quantity \in Nat \ {0}
        /\ req[h].price \in Prices
    BY <1>2, RequestShape DEF ReadCart
  <2>2. \A kind \in {"switch", "claim", "find"} :
          [kind |-> kind, item |-> req[h].item, quantity |-> req[h].quantity,
           price |-> req[h].price] \in CartRequest
    BY <2>1 DEF CartRequest
  <2>3. QED
    BY <1>2, <2>2, ProceedTypeOK DEF ReadCart, Finish
<1>3. CASE SwitchRestaurant(h) \/ ClaimRestaurant(h)
  <2>1. req[h] \in [kind : {"switch", "claim", "find", "create"}, item : MenuItems,
                    quantity : Nat \ {0}, price : Prices]
    BY <1>3, RequestShape DEF SwitchRestaurant, ClaimRestaurant
  <2>2. [req[h] EXCEPT !.kind = "find"] \in CartRequest
    BY <2>1 DEF CartRequest
  <2>3. restaurantOf[req[h].item] \in Restaurants
    BY <2>1, ItemsHaveRestaurants
  <2>4. QED
    BY <1>3, <2>2, <2>3, FS_EmptySet DEF SwitchRestaurant, ClaimRestaurant, Proceed, TypeOK
<1>4. CASE FindItem(h)
  <2>1. req[h] \in [kind : {"switch", "claim", "find", "create"}, item : MenuItems,
                    quantity : Nat \ {0}, price : Prices]
    BY <1>4, RequestShape DEF FindItem
  <2>2. [req[h] EXCEPT !.kind = "create"] \in CartRequest
    BY <2>1 DEF CartRequest
  <2>3. ASSUME NEW row \in items
        PROVE  [kind |-> "setQuantity", id |-> row.id,
                quantity |-> row.quantity + req[h].quantity] \in CartRequest
    <3>1. row.id \in RowIds /\ row.quantity \in Nat \ {0}
      BY DEF TypeOK, CartItem
    <3>2. row.quantity + req[h].quantity \in Nat \ {0}
      BY <2>1, <3>1
    <3>3. QED
      BY <3>1, <3>2 DEF CartRequest
  <2>4. QED
    BY <1>4, <2>2, <2>3, ProceedTypeOK DEF FindItem
<1>5. CASE CreateItem(h)
  <2>1. req[h] \in [kind : {"switch", "claim", "find", "create"}, item : MenuItems,
                    quantity : Nat \ {0}, price : Prices]
    BY <1>5, RequestShape DEF CreateItem
  <2>2. CASE items' = items
    BY <1>5, <2>2 DEF CreateItem, Finish, Proceed, TypeOK
  <2>3. CASE \E id \in RowIds :
               /\ isFresh(id)
               /\ items' = items \cup {[id |-> id, item |-> req[h].item,
                                        quantity |-> req[h].quantity,
                                        unitPrice |-> req[h].price]}
               /\ \A row \in items : row.item # req[h].item
    <3>1. PICK id \in RowIds :
               /\ isFresh(id)
               /\ items' = items \cup {[id |-> id, item |-> req[h].item,
                                        quantity |-> req[h].quantity,
                                        unitPrice |-> req[h].price]}
               /\ \A row \in items : row.item # req[h].item
      BY <2>3
    <3>2. [id |-> id, item |-> req[h].item, quantity |-> req[h].quantity,
           unitPrice |-> req[h].price] \in CartItem
      BY <2>1 DEF CartItem
    <3>3. \A row \in items : row.id # id
      BY <3>1 DEF isFresh
    <3>4. items' \subseteq CartItem
      BY <3>1, <3>2 DEF TypeOK
    <3>5. \A x, y \in items' : x.id = y.id \/ x.item = y.item => x = y
      BY <3>1, <3>3 DEF TypeOK
    <3>6. IsFiniteSet(items')
      BY <3>1, FS_AddElement DEF TypeOK
    <3>7. QED
      BY <1>5, <3>4, <3>5, <3>6 DEF CreateItem, Finish, Proceed, TypeOK
  <2>4. QED
    BY <1>5, <2>2, <2>3 DEF CreateItem
<1>6. QED
  BY <1>1, <1>2, <1>3, <1>4, <1>5

\* The queries of updateCartItem, removeCartItem and clearCart.
LEMMA EditTypeOK ==
  ASSUME TypeOK, NEW h \in Handlers,
         \/ \E row \in items, quantity \in 0..MaxQuantity : UpdateCartItem(h, row, quantity)
         \/ SetQuantity(h) \/ DeleteItem(h) \/ CountItems(h) \/ ResetRestaurant(h)
         \/ ClearCart(h) \/ Abandon(h)
  PROVE  TypeOK'
<1>1. CASE \E row \in items, quantity \in 0..MaxQuantity : UpdateCartItem(h, row, quantity)
  <2>1. PICK row \in items, quantity \in 0..MaxQuantity : UpdateCartItem(h, row, quantity)
    BY <1>1
  <2>2. row.id \in RowIds
    BY DEF TypeOK, CartItem
  <2>3. [kind |-> "delete", id |-> row.id] \in CartRequest
    BY <2>2 DEF CartRequest
  <2>4. quantity # 0 =>
          [kind |-> "setQuantity", id |-> row.id, quantity |-> quantity] \in CartRequest
    BY <2>2, QuantityIsPositive DEF CartRequest
  <2>5. QED
    BY <2>1, <2>3, <2>4, ProceedTypeOK DEF UpdateCartItem
<1>2. CASE SetQuantity(h)
  <2>1. req[h].quantity \in Nat \ {0}
    BY <1>2, RequestShape DEF SetQuantity
  <2> DEFINE set(row) == IF row.id = req[h].id THEN [row EXCEPT !.quantity = req[h].quantity]
                                              ELSE row
  <2>2. ASSUME NEW row \in items
        PROVE  set(row) \in CartItem /\ set(row).id = row.id /\ set(row).item = row.item
    BY <2>1 DEF TypeOK, CartItem
  <2>3. items' = {set(row) : row \in items}
    BY <1>2 DEF SetQuantity
  <2>4. items' \subseteq CartItem
    BY <2>2, <2>3
  <2>5. ASSUME NEW x \in items', NEW y \in items', x.id = y.id \/ x.item = y.item
        PROVE  x = y
    <3>1. PICK u \in items : x = set(u)
      BY <2>3
    <3>2. PICK v \in items : y = set(v)
      BY <2>3
    <3>3. u.id = v.id \/ u.item = v.item
      BY <2>2, <2>5, <3>1, <3>2
    <3>4. u = v
      BY <3>3 DEF TypeOK
    <3>5. QED
      BY <3>1, <3>2, <3>4
  <2>6. IsFiniteSet(items')
    <3> DEFINE f == [row \in items |-> set(row)]
    <3>1. f \in Surjection(items, items')
      BY <2>3 DEF Surjection
    <3>2. QED
      BY <3>1, FS_Surjection DEF TypeOK
  <2>7. QED
    BY <1>2, <2>4, <2>5, <2>6 DEF SetQuantity, Finish, Proceed, TypeOK
<1>3. CASE DeleteItem(h)
  <2>1. [kind |-> "count"] \in CartRequest
    BY DEF CartRequest
  <2>2. IsFiniteSet(items')
    BY <1>3, FS_Subset DEF DeleteItem, TypeOK
  <2>3. QED
    BY <1>3, <2>1, <2>2 DEF DeleteItem, Finish, Proceed, TypeOK
<1>4. CASE CountItems(h)
  <2>1. [kind |-> "reset"] \in CartRequest
    BY DEF CartRequest
  <2>2. QED
    BY <1>4, <2>1, ProceedTypeOK DEF CountItems, Finish
<1>5. CASE ResetRestaurant(h)
  BY <1>5 DEF ResetRestaurant, Finish, Proceed, TypeOK
<1>6. CASE ClearCart(h)
  BY <1>6, FS_EmptySet DEF ClearCart, TypeOK
<1>7. CASE Abandon(h)
  BY <1>7, ProceedTypeOK DEF Abandon, Finish
<1>8. QED
  BY <1>1, <1>2, <1>3, <1>4, <1>5, <1>6, <1>7

\* createOrder.
LEMMA CheckoutTypeOK ==
  ASSUME TypeOK, NEW h \in Handlers, CreateOrder(h) \/ PlaceOrder(h)
  PROVE  TypeOK'
<1>1. CASE CreateOrder(h)
  <2>1. [kind |-> "createOrder", order |-> [restaurant |-> restaurant, lines |-> items]]
          \in CheckoutRequest
    BY <1>1 DEF CreateOrder, TypeOK, CheckoutRequest, Order
  <2>2. QED
    BY <1>1, <2>1, ProceedTypeOK DEF CreateOrder
<1>2. CASE PlaceOrder(h)
  <2>1. req[h].order \in Order
    BY <1>2, RequestShape DEF PlaceOrder, CheckoutRequest
  <2>2. QED
    BY <1>2, <2>1, FS_EmptySet DEF PlaceOrder, Finish, Proceed, TypeOK
<1>3. QED
  BY <1>1, <1>2

\* Menu edits, cascades included.
LEMMA CatalogTypeOK == ASSUME TypeOK, CatalogNext PROVE TypeOK'
<1>1. ASSUME NEW S, deleteItems(S), UNCHANGED <<active, restaurant, req>>
      PROVE  TypeOK'
  <2>1. menu' \in [MenuItems -> MenuItem \cup {NULL}]
    BY <1>1 DEF deleteItems, TypeOK
  <2>2. items' \subseteq items /\ IsFiniteSet(items')
    BY <1>1, FS_Subset DEF deleteItems, TypeOK
  <2>3. placed' \in [OrderNumbers -> Order \cup {NULL}]
    <3>1. ASSUME NEW n \in OrderNumbers, placed[n] # NULL
          PROVE  [placed[n] EXCEPT !.lines = {line \in @ : line.item \notin S}] \in Order
      BY <3>1 DEF TypeOK, Order
    <3>2. QED
      BY <1>1, <3>1 DEF deleteItems
  <2>4. QED
    BY <1>1, <2>1, <2>2, <2>3 DEF TypeOK
<1>2. CASE \E i \in MenuItems, row \in MenuItem : UpdateMenuItem(i, row)
  BY <1>2 DEF UpdateMenuItem, TypeOK
<1>3. CASE \E i \in MenuItems : DeleteMenuItem(i)
  BY <1>1, <1>3 DEF DeleteMenuItem
<1>4. CASE \E c \in Categories : DeleteCategory(c)
  BY <1>1, <1>4 DEF DeleteCategory
<1>5. CASE \E r \in Restaurants : UpdateRestaurantStatus(r)
  BY <1>5 DEF UpdateRestaurantStatus, TypeOK
<1>6. QED
  BY <1>2, <1>3, <1>4, <1>5 DEF CatalogNext

\* Every step keeps the shapes.
LEMMA NextTypeOK == TypeOK /\ [Next]_vars => TypeOK'
<1> SUFFICES ASSUME TypeOK, [Next]_vars PROVE TypeOK'
  OBVIOUS
<1>1. CASE CartsNext
  <2>1. PICK h \in Handlers :
          \/ \E i \in MenuItems, quantity \in 1..MaxQuantity, clear \in BOOLEAN :
               AddToCart(h, i, quantity, clear)
          \/ ReadCart(h) \/ SwitchRestaurant(h) \/ ClaimRestaurant(h)
          \/ FindItem(h) \/ CreateItem(h)
          \/ \E row \in items, quantity \in 0..MaxQuantity :
               UpdateCartItem(h, row, quantity)
          \/ \E row \in items : RemoveCartItem(h, row)
          \/ SetQuantity(h) \/ DeleteItem(h) \/ CountItems(h) \/ ResetRestaurant(h)
          \/ ClearCart(h) \/ Abandon(h)
    BY <1>1 DEF CartsNext
  <2>2. 0 \in 0..MaxQuantity
    BY QuantityIsPositive
  <2>3. (\E row \in items : RemoveCartItem(h, row)) =>
          \E row \in items, quantity \in 0..MaxQuantity : UpdateCartItem(h, row, quantity)
    BY <2>2 DEF RemoveCartItem
  <2>4. QED
    BY <2>1, <2>3, AddTypeOK, EditTypeOK
<1>2. CASE CheckoutNext
  BY <1>2, CheckoutTypeOK DEF CheckoutNext
<1>3. CASE CatalogNext
  BY <1>3, CatalogTypeOK
<1>4. CASE UNCHANGED vars
  BY <1>4 DEF vars, TypeOK
<1>5. QED
  BY <1>1, <1>2, <1>3, <1>4 DEF Next

(***************************************************************************)
(* The rows keep their shapes, and a menu item has one row in the cart,    *)
(* however many requests overlap.                                          *)
(***************************************************************************)
THEOREM TypeCorrect == Spec => []TypeOK
BY InitTypeOK, NextTypeOK, PTL DEF Spec

-----------------------------------------------------------------------------
\* What a step of request h makes of the cart, the orders and its own reads.
StepKeeps(h) ==
  /\ RowsAreOnMenu'
  /\ UNCHANGED catalog
  /\ \A g \in Handlers \ {h} : req'[g] = req[g]
  /\ isFreshRead(req[h]) => isFreshRead(req[h])'
  /\ CartHasOneRestaurant =>
       CartHasOneRestaurant' \/ isOvertaken(h, {"claim", "create", "reset"})
  /\ OrderedOnce => OrderedOnce' \/ isOvertaken(h, {"createOrder"})

\* A query that only reads keeps all if what it remembers is true.
LEMMA ReadKeeps ==
  ASSUME TypeOK, RowsAreOnMenu, NEW h \in Handlers, NEW r, Proceed(h, r),
         isFreshRead(req[h]) => isFreshRead(r), UNCHANGED <<catalog, cart, placed>>
  PROVE  StepKeeps(h)
<1>1. req'[h] = r /\ \A g \in Handlers \ {h} : req'[g] = req[g]
  BY DEF Proceed, TypeOK
<1>2. isFreshRead(req[h]) => isFreshRead(req[h])'
  BY <1>1 DEF isFreshRead
<1>3. QED
  BY <1>1, <1>2 DEF StepKeeps, CartHasOneRestaurant, OrderedOnce, RowsAreOnMenu

LEMMA IdleIsFresh == isFreshRead(Idle)
BY DEF isFreshRead, Idle

\* The queries of addToCart.
LEMMA AddKeeps ==
  ASSUME TypeOK, RowsAreOnMenu, NEW h \in Handlers,
         \/ \E i \in MenuItems, quantity \in 1..MaxQuantity, clear \in BOOLEAN :
              AddToCart(h, i, quantity, clear)
         \/ ReadCart(h) \/ SwitchRestaurant(h) \/ ClaimRestaurant(h)
         \/ FindItem(h) \/ CreateItem(h)
  PROVE  StepKeeps(h)
<1>1. CASE \E i \in MenuItems, quantity \in 1..MaxQuantity, clear \in BOOLEAN :
             AddToCart(h, i, quantity, clear)
  BY <1>1, ReadKeeps DEF AddToCart, isFreshRead
<1>2. CASE ReadCart(h)
  BY <1>2, ReadKeeps, IdleIsFresh DEF ReadCart, Finish, isFreshRead
<1>3. CASE FindItem(h)
  <2>1. isFreshRead(req[h]) => isFreshRead([req[h] EXCEPT !.kind = "create"])
    BY <1>3, RequestShape DEF FindItem, isFreshRead
  <2>2. QED
    BY <1>3, <2>1, ReadKeeps DEF FindItem, isFreshRead
<1>4. CASE SwitchRestaurant(h) \/ ClaimRestaurant(h)
  <2>1. /\ req'[h] = [req[h] EXCEPT !.kind = "find"]
        /\ \A g \in Handlers \ {h} : req'[g] = req[g]
    BY <1>4 DEF SwitchRestaurant, ClaimRestaurant, Proceed, TypeOK
  <2>2. req'[h].kind = "find" /\ req'[h].item = req[h].item /\ req'[h] # req[h]
    BY <1>4, <2>1, RequestShape DEF SwitchRestaurant, ClaimRestaurant
  <2>3. restaurant' = restaurantOf[req[h].item] /\ UNCHANGED <<catalog, placed>>
    BY <1>4 DEF SwitchRestaurant, ClaimRestaurant
  <2>4. isFreshRead(req[h])'
    BY <2>2, <2>3 DEF isFreshRead
  <2>5. items' = {} \/ (ClaimRestaurant(h) /\ UNCHANGED items)
    BY <1>4 DEF SwitchRestaurant, ClaimRestaurant
  <2>6. CASE items' = {}
    BY <2>1, <2>3, <2>4, <2>6 DEF StepKeeps, CartHasOneRestaurant, OrderedOnce, RowsAreOnMenu
  <2>7. CASE ClaimRestaurant(h) /\ UNCHANGED items
    <3>1. ASSUME CartHasOneRestaurant, isFreshRead(req[h]) PROVE items = {}
      <4>1. restaurant = NULL
        BY <2>7, <3>1 DEF ClaimRestaurant, isFreshRead
      <4>2. \A row \in items : restaurantOf[row.item] \in Restaurants
        BY ItemsHaveRestaurants DEF TypeOK, CartItem
      <4>3. QED
        BY <3>1, <4>1, <4>2, NullIsNoRow DEF CartHasOneRestaurant
    <3>2. CartHasOneRestaurant =>
            CartHasOneRestaurant' \/ isOvertaken(h, {"claim", "create", "reset"})
      BY <2>2, <2>7, <3>1 DEF ClaimRestaurant, isOvertaken, CartHasOneRestaurant
    <3>3. QED
      BY <2>1, <2>3, <2>4, <2>7, <3>2 DEF StepKeeps, OrderedOnce, RowsAreOnMenu
  <2>8. QED
    BY <2>5, <2>6, <2>7
<1>5. CASE CreateItem(h)
  <2>1. /\ req'[h] = Idle
        /\ \A g \in Handlers \ {h} : req'[g] = req[g]
    BY <1>5 DEF CreateItem, Finish, Proceed, TypeOK
  <2>2. isFreshRead(req[h])' /\ req'[h] # req[h]
    BY <1>5, <2>1 DEF CreateItem, isFreshRead, Idle
  <2>3. UNCHANGED <<catalog, restaurant, placed>>
    BY <1>5 DEF CreateItem
  <2>4. ASSUME NEW row \in items', row \notin items
        PROVE  row.item = req[h].item /\ menu[row.item] # NULL /\ isFresh(row.id)
    BY <1>5, <2>4 DEF CreateItem
  <2>5. RowsAreOnMenu'
    BY <2>3, <2>4 DEF RowsAreOnMenu
  <2>6. CartHasOneRestaurant =>
          CartHasOneRestaurant' \/ isOvertaken(h, {"claim", "create", "reset"})
    <3> SUFFICES ASSUME CartHasOneRestaurant, isFreshRead(req[h]) PROVE CartHasOneRestaurant'
      BY <1>5, <2>2 DEF CreateItem, isOvertaken
    <3>1. restaurant = restaurantOf[req[h].item]
      BY <1>5 DEF CreateItem, isFreshRead
    <3>2. QED
      BY <2>3, <2>4, <3>1 DEF CartHasOneRestaurant
  <2>7. OrderedOnce => OrderedOnce'
    BY <2>3, <2>4 DEF OrderedOnce, isFresh
  <2>8. QED
    BY <2>1, <2>2, <2>3, <2>5, <2>6, <2>7 DEF StepKeeps
<1>6. QED
  BY <1>1, <1>2, <1>3, <1>4, <1>5

\* The queries of updateCartItem, removeCartItem and clearCart.
LEMMA EditKeeps ==
  ASSUME TypeOK, RowsAreOnMenu, NEW h \in Handlers,
         \/ \E row \in items, quantity \in 0..MaxQuantity : UpdateCartItem(h, row, quantity)
         \/ SetQuantity(h) \/ DeleteItem(h) \/ CountItems(h) \/ ResetRestaurant(h)
         \/ ClearCart(h) \/ Abandon(h)
  PROVE  StepKeeps(h)
<1>1. CASE \E row \in items, quantity \in 0..MaxQuantity : UpdateCartItem(h, row, quantity)
  BY <1>1, ReadKeeps DEF UpdateCartItem, isFreshRead
<1>2. CASE Abandon(h)
  BY <1>2, ReadKeeps, IdleIsFresh DEF Abandon, Finish
<1>3. CASE CountItems(h)
  <2>1. Cardinality(items) = 0 => items = {}
    BY FS_EmptySet DEF TypeOK
  <2>2. QED
    BY <1>3, <2>1, ReadKeeps, IdleIsFresh DEF CountItems, Finish, isFreshRead
<1>4. CASE SetQuantity(h)
  <2>1. /\ req'[h] = Idle
        /\ \A g \in Handlers \ {h} : req'[g] = req[g]
    BY <1>4 DEF SetQuantity, Finish, Proceed, TypeOK
  <2>2. \A x \in items' : \E row \in items : x.id = row.id /\ x.item = row.item
    <3>1. \A row \in items : row \in CartItem
      BY DEF TypeOK
    <3>2. \A row \in items : /\ [row EXCEPT !.quantity = req[h].quantity].id = row.id
                             /\ [row EXCEPT !.quantity = req[h].quantity].item = row.item
      BY <3>1 DEF CartItem
    <3>3. QED
      BY <1>4, <3>2 DEF SetQuantity
  <2>3. UNCHANGED <<catalog, restaurant, placed>>
    BY <1>4 DEF SetQuantity
  <2>4. CartHasOneRestaurant => CartHasOneRestaurant'
    BY <2>2, <2>3 DEF CartHasOneRestaurant
  <2>5. OrderedOnce => OrderedOnce'
    BY <2>2, <2>3 DEF OrderedOnce
  <2>6. RowsAreOnMenu'
    BY <2>2, <2>3 DEF RowsAreOnMenu
  <2>7. isFreshRead(req[h])'
    BY <2>1 DEF isFreshRead, Idle
  <2>8. QED
    BY <2>1, <2>3, <2>4, <2>5, <2>6, <2>7 DEF StepKeeps
<1>5. CASE DeleteItem(h)
  <2>1. /\ req'[h] \in {Idle, [kind |-> "count"]}
        /\ \A g \in Handlers \ {h} : req'[g] = req[g]
    BY <1>5 DEF DeleteItem, Finish, Proceed, TypeOK
  <2>2. items' \subseteq items /\ UNCHANGED <<catalog, restaurant, placed>>
    BY <1>5 DEF DeleteItem
  <2>3. isFreshRead(req[h])'
    BY <2>1 DEF isFreshRead, Idle
  <2>4. QED
    BY <2>1, <2>2, <2>3 DEF StepKeeps, CartHasOneRestaurant, OrderedOnce, RowsAreOnMenu
<1>6. CASE ResetRestaurant(h)
  <2>1. /\ req'[h] = Idle
        /\ \A g \in Handlers \ {h} : req'[g] = req[g]
    BY <1>6 DEF ResetRestaurant, Finish, Proceed, TypeOK
  <2>2. isFreshRead(req[h])' /\ req'[h] # req[h]
    BY <1>6, <2>1 DEF ResetRestaurant, isFreshRead, Idle
  <2>3. isFreshRead(req[h]) => items = {}
    BY <1>6 DEF ResetRestaurant, isFreshRead
  <2>4. UNCHANGED <<catalog, items, placed>>
    BY <1>6 DEF ResetRestaurant
  <2>5. CartHasOneRestaurant' \/ isOvertaken(h, {"claim", "create", "reset"})
    BY <1>6, <2>2, <2>3, <2>4 DEF ResetRestaurant, isOvertaken, CartHasOneRestaurant
  <2>6. QED
    BY <2>1, <2>2, <2>4, <2>5 DEF StepKeeps, OrderedOnce, RowsAreOnMenu
<1>7. CASE ClearCart(h)
  <2>1. req[h] = Idle /\ req' = req /\ items' = {} /\ UNCHANGED <<catalog, placed>>
    BY <1>7 DEF ClearCart
  <2>2. isFreshRead(req[h])'
    BY <2>1 DEF isFreshRead, Idle
  <2>3. QED
    BY <2>1, <2>2 DEF StepKeeps, CartHasOneRestaurant, OrderedOnce, RowsAreOnMenu
<1>8. QED
  BY <1>1, <1>2, <1>3, <1>4, <1>5, <1>6, <1>7

\* An order that is placed, and the lines of one whose cart nobody changed.
LEMMA PlacedOrder ==
  ASSUME TypeOK, RowsAreOnMenu, NEW h \in Handlers, PlaceOrder(h), placed' # placed
  PROVE  /\ \E n \in OrderNumbers :
              /\ placed[n] = NULL /\ placed'[n] = req[h].order
              /\ \A m \in OrderNumbers \ {n} : placed'[m] = placed[m]
         /\ items' = {} /\ req[h].order \in Order
         /\ isFreshRead(req[h]) => /\ req[h].order.lines = items
                                   /\ req[h].order.restaurant = restaurant
<1>1. /\ \A line \in req[h].order.lines : menu[line.item] # NULL
      /\ \E n \in OrderNumbers :
           placed[n] = NULL /\ placed' = [placed EXCEPT ![n] = req[h].order]
      /\ items' = {}
  BY DEF PlaceOrder
<1>2. req[h].order \in Order
  BY RequestShape DEF PlaceOrder, CheckoutRequest
<1>3. isFreshRead(req[h]) => /\ req[h].order.lines = items
                             /\ req[h].order.restaurant = restaurant
  BY <1>1 DEF PlaceOrder, isFreshRead
<1>4. QED
  BY <1>1, <1>2, <1>3 DEF TypeOK

\* createOrder: the lines read are the cart's rows, which the order takes over.
LEMMA CheckoutKeeps ==
  ASSUME TypeOK, RowsAreOnMenu, NEW h \in Handlers, CreateOrder(h) \/ PlaceOrder(h)
  PROVE  StepKeeps(h)
<1>1. CASE CreateOrder(h)
  <2>1. isFreshRead([kind |-> "createOrder",
                     order |-> [restaurant |-> restaurant, lines |-> items]])
    BY DEF isFreshRead, RowsAreOnMenu
  <2>2. QED
    BY <1>1, <2>1, ReadKeeps DEF CreateOrder
<1>2. CASE PlaceOrder(h)
  <2>1. /\ req'[h] = Idle
        /\ \A g \in Handlers \ {h} : req'[g] = req[g]
    BY <1>2 DEF PlaceOrder, Finish, Proceed, TypeOK
  <2>2. isFreshRead(req[h])' /\ req'[h] # req[h] /\ req[h].kind = "createOrder"
    BY <1>2, <2>1 DEF PlaceOrder, isFreshRead, Idle
  <2>3. CASE UNCHANGED <<cart, placed>>
    BY <1>2, <2>1, <2>2, <2>3 DEF PlaceOrder, StepKeeps, CartHasOneRestaurant, OrderedOnce,
       RowsAreOnMenu
  <2>4. CASE placed' # placed
    <3>1. items' = {} /\ UNCHANGED catalog
      BY <1>2, <2>4, PlacedOrder DEF PlaceOrder
    <3>2. ASSUME OrderedOnce, isFreshRead(req[h]) PROVE OrderedOnce'
      <4>1. PICK n \in OrderNumbers :
              /\ placed[n] = NULL /\ placed'[n] = req[h].order
              /\ \A m \in OrderNumbers \ {n} : placed'[m] = placed[m]
        BY <1>2, <2>4, PlacedOrder
      <4>2. req[h].order.lines = items
        BY <1>2, <2>4, <3>2, PlacedOrder
      <4> SUFFICES ASSUME NEW k \in OrderNumbers, NEW m \in OrderNumbers \ {k},
                          placed'[k] # NULL, placed'[m] # NULL,
                          NEW line \in placed'[k].lines, NEW other \in placed'[m].lines
                   PROVE  other.id # line.id
        BY <3>1 DEF OrderedOnce
      <4>3. CASE k = n
        BY <3>2, <4>1, <4>2, <4>3 DEF OrderedOnce
      <4>4. CASE m = n
        BY <3>2, <4>1, <4>2, <4>4 DEF OrderedOnce
      <4>5. CASE k # n /\ m # n
        BY <3>2, <4>1, <4>5 DEF OrderedOnce
      <4>6. QED
        BY <4>3, <4>4, <4>5
    <3>3. OrderedOnce => OrderedOnce' \/ isOvertaken(h, {"createOrder"})
      BY <2>2, <3>2 DEF isOvertaken
    <3>4. QED
      BY <2>1, <2>2, <3>1, <3>3 DEF StepKeeps, CartHasOneRestaurant, RowsAreOnMenu
  <2>5. CASE placed' = placed
    <3>1. req[h].order \in Order
      BY <2>2, RequestShape DEF CheckoutRequest
    <3>2. UNCHANGED cart
      BY <1>2, <2>5, <3>1, NullIsNoRow DEF PlaceOrder, TypeOK
    <3>3. QED
      BY <2>3, <2>5, <3>2
  <2>6. QED
    BY <2>4, <2>5
<1>3. QED
  BY <1>1, <1>2

\* Menu edits: a deleted item takes its rows and its lines along.
CatalogKeeps ==
  /\ RowsAreOnMenu'
  /\ UNCHANGED <<restaurant, req>>
  /\ \A h \in Handlers : isFreshRead(req[h]) => isFreshRead(req[h])'
  /\ items' \subseteq items
  /\ \A row \in items \ items' : menu'[row.item] = NULL
  /\ \A n \in OrderNumbers : placed'[n] # NULL <=> placed[n] # NULL
  /\ \A n \in OrderNumbers : placed[n] # NULL =>
       /\ placed'[n].restaurant = placed[n].restaurant
       /\ placed'[n].lines \subseteq placed[n].lines
       /\ \A line \in placed[n].lines : line \in placed'[n].lines \/ menu'[line.item] = NULL

LEMMA DeletionKeeps ==
  ASSUME TypeOK, RowsAreOnMenu, NEW S, deleteItems(S), UNCHANGED <<active, restaurant, req>>
  PROVE  CatalogKeeps
<1>1. items' = {row \in items : row.item \notin S}
  BY DEF deleteItems
<1>2. \A i \in MenuItems : menu'[i] = IF i \in S THEN NULL ELSE menu[i]
  BY DEF deleteItems
<1>3. ASSUME NEW n \in OrderNumbers
      PROVE  /\ placed'[n] # NULL <=> placed[n] # NULL
             /\ placed[n] # NULL =>
                  /\ placed'[n].restaurant = placed[n].restaurant
                  /\ placed'[n].lines \subseteq placed[n].lines
                  /\ \A line \in placed[n].lines :
                       line \in placed'[n].lines \/ menu'[line.item] = NULL
  <2>1. CASE placed[n] = NULL
    BY <2>1 DEF deleteItems
  <2>2. CASE placed[n] # NULL
    <3>1. placed[n] \in Order
      BY <2>2 DEF TypeOK
    <3>2. placed'[n] = [placed[n] EXCEPT !.lines = {line \in @ : line.item \notin S}]
      BY <2>2 DEF deleteItems
    <3>3. placed'[n] \in Order
      BY <3>1, <3>2 DEF Order
    <3>4. \A line \in placed[n].lines : line.item \in MenuItems
      BY <3>1 DEF Order, CartItem
    <3>5. QED
      BY <1>2, <3>1, <3>2, <3>3, <3>4, NullIsNoRow DEF Order
  <2>3. QED
    BY <2>1, <2>2
<1>4. ASSUME NEW h \in Handlers, isFreshRead(req[h])
      PROVE  isFreshRead(req[h])'
  <2>1. CASE req[h].kind = "createOrder"
    <3>1. req[h].order.lines \subseteq CartItem
      BY <2>1, RequestShape DEF CheckoutRequest, Order
    <3>2. \A line \in req[h].order.lines : line.item \in MenuItems
      BY <3>1 DEF CartItem
    <3>3. items' = {line \in req[h].order.lines : menu'[line.item] # NULL}
      BY <1>1, <1>2, <1>4, <2>1, <3>2 DEF isFreshRead
    <3>4. QED
      BY <1>4, <2>1, <3>3 DEF isFreshRead
  <2>2. CASE req[h].kind # "createOrder"
    BY <1>1, <1>4, <2>2 DEF isFreshRead
  <2>3. QED
    BY <2>1, <2>2
<1>5. RowsAreOnMenu' /\ \A row \in items \ items' : menu'[row.item] = NULL
  BY <1>1, <1>2 DEF RowsAreOnMenu, TypeOK, CartItem
<1>6. QED
  BY <1>1, <1>3, <1>4, <1>5 DEF CatalogKeeps

LEMMA CatalogStepKeeps == ASSUME TypeOK, RowsAreOnMenu, CatalogNext PROVE CatalogKeeps
<1>1. CASE \E i \in MenuItems, row \in MenuItem : UpdateMenuItem(i, row)
  <2>1. PICK i \in MenuItems, row \in MenuItem : UpdateMenuItem(i, row)
    BY <1>1
  <2>2. \A j \in MenuItems : menu'[j] = NULL <=> menu[j] = NULL
    BY <2>1, NullIsNoRow DEF UpdateMenuItem, TypeOK
  <2>3. ASSUME NEW h \in Handlers, isFreshRead(req[h])
        PROVE  isFreshRead(req[h])'
    <3>1. UNCHANGED <<restaurant, items, req>>
      BY <2>1 DEF UpdateMenuItem
    <3>2. req[h].kind = "createOrder" =>
            \A line \in req[h].order.lines : line.item \in MenuItems
      BY RequestShape DEF CheckoutRequest, Order, CartItem
    <3>3. QED
      BY <2>2, <2>3, <3>1, <3>2 DEF isFreshRead
  <2>4. RowsAreOnMenu'
    BY <2>1, <2>2 DEF UpdateMenuItem, RowsAreOnMenu, TypeOK, CartItem
  <2>5. QED
    BY <2>1, <2>3, <2>4 DEF UpdateMenuItem, CatalogKeeps
<1>2. CASE \E i \in MenuItems : DeleteMenuItem(i)
  BY <1>2, DeletionKeeps DEF DeleteMenuItem
<1>3. CASE \E c \in Categories : DeleteCategory(c)
  BY <1>3, DeletionKeeps DEF DeleteCategory
<1>4. CASE \E r \in Restaurants : UpdateRestaurantStatus(r)
  BY <1>4 DEF UpdateRestaurantStatus, CatalogKeeps, RowsAreOnMenu, isFreshRead
<1>5. QED
  BY <1>1, <1>2, <1>3, <1>4 DEF CatalogNext

\* Every step is one of a request or of the catalog.
LEMMA Steps ==
  ASSUME TypeOK, RowsAreOnMenu, Next
  PROVE  CatalogKeeps \/ \E h \in Handlers : StepKeeps(h)
<1>1. CASE CartsNext
  <2>1. PICK h \in Handlers :
          \/ \E i \in MenuItems, quantity \in 1..MaxQuantity, clear \in BOOLEAN :
               AddToCart(h, i, quantity, clear)
          \/ ReadCart(h) \/ SwitchRestaurant(h) \/ ClaimRestaurant(h)
          \/ FindItem(h) \/ CreateItem(h)
          \/ \E row \in items, quantity \in 0..MaxQuantity :
               UpdateCartItem(h, row, quantity)
          \/ \E row \in items : RemoveCartItem(h, row)
          \/ SetQuantity(h) \/ DeleteItem(h) \/ CountItems(h) \/ ResetRestaurant(h)
          \/ ClearCart(h) \/ Abandon(h)
    BY <1>1 DEF CartsNext
  <2>2. 0 \in 0..MaxQuantity
    BY QuantityIsPositive
  <2>3. (\E row \in items : RemoveCartItem(h, row)) =>
          \E row \in items, quantity \in 0..MaxQuantity : UpdateCartItem(h, row, quantity)
    BY <2>2 DEF RemoveCartItem
  <2>4. QED
    BY <2>1, <2>3, AddKeeps, EditKeeps
<1>2. CASE CheckoutNext
  BY <1>2, CheckoutKeeps DEF CheckoutNext
<1>3. CASE CatalogNext
  BY <1>3, CatalogStepKeeps
<1>4. QED
  BY <1>1, <1>2, <1>3 DEF Next

\* The rows of the cart are on the menu: the inductive part any overlap keeps.
LEMMA RowsInvariant == Spec => [](TypeOK /\ RowsAreOnMenu)
<1>1. Init => RowsAreOnMenu
  BY DEF Init, RowsAreOnMenu
<1>2. TypeOK /\ RowsAreOnMenu /\ [Next]_vars => RowsAreOnMenu'
  <2>1. ASSUME TypeOK, RowsAreOnMenu, Next PROVE RowsAreOnMenu'
    BY <2>1, Steps DEF CatalogKeeps, StepKeeps
  <2>2. ASSUME RowsAreOnMenu, UNCHANGED vars PROVE RowsAreOnMenu'
    BY <2>2 DEF vars, RowsAreOnMenu
  <2>3. QED
    BY <2>1, <2>2
<1>3. QED
  BY <1>1, <1>2, InitTypeOK, NextTypeOK, PTL DEF Spec

(***************************************************************************)
(* A cart of one restaurant becomes one of two only by a step of addToCart *)
(* or removeCartItem that another request overtook (carts.service.ts:116,  *)
(* :142, :209); no request and no restaurant makes a request's own reads   *)
(* untrue.                                                                 *)
(***************************************************************************)
THEOREM OneRestaurantIsKept == Spec => OneRestaurantKept
<1> DEFINE kept ==
      /\ CartHasOneRestaurant =>
           CartHasOneRestaurant' \/ \E h \in Handlers : isOvertaken(h, {"claim", "create", "reset"})
      /\ ReadsHold
<1>1. TypeOK /\ RowsAreOnMenu /\ Next => kept
  <2> SUFFICES ASSUME TypeOK, RowsAreOnMenu, Next PROVE kept
    OBVIOUS
  <2>1. CASE CatalogKeeps
    BY <2>1 DEF CatalogKeeps, CartHasOneRestaurant, ReadsHold
  <2>2. CASE \E h \in Handlers : StepKeeps(h)
    BY <2>2 DEF StepKeeps, ReadsHold
  <2>3. QED
    BY <2>1, <2>2, Steps
<1>2. TypeOK /\ RowsAreOnMenu /\ [Next]_vars => [kept]_vars
  BY <1>1
<1>3. QED
  BY <1>2, RowsInvariant, PTL DEF Spec, OneRestaurantKept

(***************************************************************************)
(* A row is ordered twice, or stays in the cart once ordered, only by a    *)
(* createOrder that another request overtook (orders.service.ts:19, :96).  *)
(***************************************************************************)
THEOREM OrderedOnceIsKept == Spec => OrderedOnceKept
<1> DEFINE kept == OrderedOnce =>
      OrderedOnce' \/ \E h \in Handlers : isOvertaken(h, {"createOrder"})
<1>1. TypeOK /\ RowsAreOnMenu /\ Next => kept
  <2> SUFFICES ASSUME TypeOK, RowsAreOnMenu, Next, OrderedOnce
               PROVE  OrderedOnce' \/ \E h \in Handlers : isOvertaken(h, {"createOrder"})
    OBVIOUS
  <2>1. CASE CatalogKeeps
    BY <2>1 DEF CatalogKeeps, OrderedOnce
  <2>2. CASE \E h \in Handlers : StepKeeps(h)
    BY <2>2 DEF StepKeeps
  <2>3. QED
    BY <2>1, <2>2, Steps
<1>2. TypeOK /\ RowsAreOnMenu /\ [Next]_vars => [kept]_vars
  BY <1>1
<1>3. QED
  BY <1>2, RowsInvariant, PTL DEF Spec, OrderedOnceKept

-----------------------------------------------------------------------------
\* What the customer sees of a step: a step of Purchase, or nothing.
Seen == Promise!Next \/ UNCHANGED Promise!vars

\* A query that writes no row the customer sees.
LEMMA HiddenIsSeen == UNCHANGED <<menu, items, placed>> => Seen
BY DEF Seen, Promise!vars

\* A row that a request which nobody overtook creates is of the cart's restaurant.
LEMMA CreateIsSeen ==
  ASSUME TypeOK, CartHasOneRestaurant, NEW h \in Handlers, CreateItem(h), isFreshRead(req[h])
  PROVE  Seen
<1> DEFINE i == req[h].item
<1>1. CASE items' = items
  BY <1>1, HiddenIsSeen DEF CreateItem
<1>2. CASE items' # items
  <2>1. /\ menu[i] # NULL /\ \A row \in items : row.item # i
        /\ restaurant = restaurantOf[i]
    BY <1>2 DEF CreateItem, isFreshRead
  <2>2. req[h] \in [kind : {"switch", "claim", "find", "create"}, item : MenuItems,
                    quantity : Nat \ {0}, price : Prices]
    BY RequestShape DEF CreateItem
  <2>3. PICK id \in RowIds :
          /\ isFresh(id)
          /\ items' = items \cup {[id |-> id, item |-> i, quantity |-> req[h].quantity,
                                   unitPrice |-> req[h].price]}
    BY <1>2 DEF CreateItem
  <2> DEFINE row == [id |-> id, item |-> i, quantity |-> req[h].quantity,
                     unitPrice |-> req[h].price]
  <2>4. row \in Promise!Row /\ row.item = i /\ row.id = id
    BY <2>2 DEF Promise!Row
  <2>5. Promise!isNew(id)
    BY <2>3 DEF isFresh, Promise!isNew
  <2>6. \A other \in items : restaurantOf[other.item] = restaurantOf[i]
    BY <2>1 DEF CartHasOneRestaurant
  <2>7. UNCHANGED <<menu, placed>>
    BY DEF CreateItem
  <2>8. i \in MenuItems /\ row \in items' /\ items' = items \cup {row}
    BY <2>2, <2>3
  <2> HIDE DEF row, i
  <2>9. Promise!PutIn(row)
    BY <2>1, <2>4, <2>5, <2>6, <2>7, <2>8 DEF Promise!PutIn
  <2>10. QED
    BY <2>8, <2>9 DEF Seen, Promise!Next
<1>3. QED
  BY <1>1, <1>2

\* The other writes of the cart's rows touch one row, or all.
LEMMA EditIsSeen ==
  ASSUME TypeOK, NEW h \in Handlers,
         SetQuantity(h) \/ DeleteItem(h) \/ SwitchRestaurant(h) \/ ClearCart(h)
  PROVE  Seen
<1>1. CASE SwitchRestaurant(h) \/ ClearCart(h)
  <2>1. Promise!Empty
    BY <1>1 DEF SwitchRestaurant, ClearCart, Promise!Empty
  <2>2. QED
    BY <2>1 DEF Seen, Promise!Next
<1>2. CASE DeleteItem(h)
  <2>1. items' = {row \in items : row.id # req[h].id} /\ UNCHANGED <<menu, placed>>
    BY <1>2 DEF DeleteItem
  <2>2. CASE items' = items
    BY <2>1, <2>2, HiddenIsSeen
  <2>3. CASE items' # items
    <3>1. PICK row \in items : row.id = req[h].id
      BY <2>1, <2>3
    <3>2. items' = items \ {row}
      BY <2>1, <3>1 DEF TypeOK
    <3>3. Promise!TakeOut(row)
      BY <2>1, <3>2 DEF Promise!TakeOut
    <3>4. QED
      BY <3>3 DEF Seen, Promise!Next
  <2>4. QED
    BY <2>2, <2>3
<1>3. CASE SetQuantity(h)
  <2> DEFINE set(row) == [row EXCEPT !.quantity = req[h].quantity]
  <2>1. /\ items' = {IF row.id = req[h].id THEN set(row) ELSE row : row \in items}
        /\ UNCHANGED <<menu, placed>>
    BY <1>3 DEF SetQuantity
  <2>2. req[h].quantity \in Nat \ {0}
    BY <1>3, RequestShape DEF SetQuantity
  <2>3. CASE \A row \in items : row.id # req[h].id
    <3>1. items' = items
      BY <2>1, <2>3
    <3>2. QED
      BY <2>1, <3>1, HiddenIsSeen
  <2>4. CASE \E row \in items : row.id = req[h].id
    <3>1. PICK row \in items : row.id = req[h].id
      BY <2>4
    <3>2. \A other \in items : other.id = req[h].id <=> other = row
      BY <3>1 DEF TypeOK
    <3>3. items' = (items \ {row}) \cup {set(row)}
      BY <2>1, <3>2
    <3>4. row \in CartItem
      BY DEF TypeOK
    <3>5. set(row).quantity = req[h].quantity
      BY <3>4 DEF CartItem
    <3>6. set(row) \in items'
      BY <3>3
    <3>7. Promise!Change(row, set(row))
      BY <2>1, <2>2, <3>3, <3>5 DEF Promise!Change
    <3>8. QED
      BY <3>6, <3>7 DEF Seen, Promise!Next
  <2>5. QED
    BY <2>3, <2>4
<1>4. QED
  BY <1>1, <1>2, <1>3

\* A request that orders has read a cart that was not empty.
OrdersHaveLines ==
  \A h \in Handlers : req[h].kind = "createOrder" => req[h].order.lines # {}

\* An order that nobody overtook takes the whole cart.
LEMMA PlaceIsSeen ==
  ASSUME TypeOK, RowsAreOnMenu, OrdersHaveLines, CartHasOneRestaurant,
         NEW h \in Handlers, PlaceOrder(h), isFreshRead(req[h])
  PROVE  Seen
<1>1. req[h].kind = "createOrder" /\ UNCHANGED menu
  BY DEF PlaceOrder
<1>2. req[h].order \in Order
  BY <1>1, RequestShape DEF CheckoutRequest
<1>3. CASE placed' # placed
  <2>1. PICK n \in OrderNumbers :
          placed[n] = NULL /\ placed' = [placed EXCEPT ![n] = req[h].order]
    BY <1>3 DEF PlaceOrder
  <2>2. /\ items' = {} /\ req[h].order.lines = items
        /\ req[h].order.restaurant = restaurant
    BY <1>3, PlacedOrder
  <2>3. req[h].order = [restaurant |-> restaurant, lines |-> items]
    BY <1>2, <2>2 DEF Order
  <2>4. items # {} /\ \A row \in items : restaurantOf[row.item] = restaurant
    BY <1>1, <2>2 DEF OrdersHaveLines, CartHasOneRestaurant
  <2>5. restaurant \in Restaurants
    BY <1>2, <2>2 DEF Order
  <2>6. Promise!Order(n, restaurant)
    BY <1>1, <2>1, <2>2, <2>3, <2>4 DEF Promise!Order
  <2>7. QED
    BY <2>5, <2>6 DEF Seen, Promise!Next
<1>4. CASE placed' = placed
  <2>1. items' = items
    BY <1>2, <1>4, NullIsNoRow DEF PlaceOrder, TypeOK
  <2>2. QED
    BY <1>1, <1>4, <2>1, HiddenIsSeen
<1>5. QED
  BY <1>3, <1>4

\* What the restaurants and administrators do: a deleted item is withdrawn.
LEMMA WithdrawIsSeen ==
  ASSUME TypeOK, NEW S \in SUBSET MenuItems, deleteItems(S)
  PROVE  Seen
<1>1. {i \in MenuItems : menu'[i] # NULL} = {i \in MenuItems : menu[i] # NULL} \ S
  BY DEF deleteItems
<1>2. Promise!Withdraw(S)
  BY <1>1 DEF deleteItems, Promise!Withdraw
<1>3. QED
  BY <1>2 DEF Seen, Promise!Next

LEMMA CatalogIsSeen == ASSUME TypeOK, CatalogNext PROVE Seen
<1>1. ASSUME NEW i \in MenuItems, NEW row \in MenuItem, UpdateMenuItem(i, row)
      PROVE  Seen
  <2>1. \A j \in MenuItems : menu'[j] = NULL <=> menu[j] = NULL
    BY <1>1, NullIsNoRow DEF UpdateMenuItem, TypeOK
  <2>2. UNCHANGED <<items, placed>>
    BY <1>1 DEF UpdateMenuItem
  <2>3. QED
    BY <2>1, <2>2 DEF Seen, Promise!vars
<1>2. ASSUME NEW i \in MenuItems, DeleteMenuItem(i) PROVE Seen
  BY <1>2, WithdrawIsSeen DEF DeleteMenuItem
<1>3. ASSUME NEW c \in Categories, DeleteCategory(c) PROVE Seen
  <2>1. c \in SUBSET MenuItems
    BY CategoriesHoldItems
  <2>2. QED
    BY <1>3, <2>1, WithdrawIsSeen DEF DeleteCategory
<1>4. ASSUME NEW r \in Restaurants, UpdateRestaurantStatus(r) PROVE Seen
  BY <1>4, HiddenIsSeen DEF UpdateRestaurantStatus
<1>5. QED
  BY <1>1, <1>2, <1>3, <1>4 DEF CatalogNext

\* Every step is seen as a step of Purchase, but for two overtaken ones.
LEMMA StepIsSeen ==
  ASSUME TypeOK, RowsAreOnMenu, OrdersHaveLines, CartHasOneRestaurant, Next
  PROVE  Seen \/ \E h \in Handlers : isOvertaken(h, {"create", "createOrder"})
<1>1. ASSUME NEW h \in Handlers, CreateItem(h) \/ PlaceOrder(h)
      PROVE  Seen \/ isOvertaken(h, {"create", "createOrder"})
  <2>1. req[h].kind \in {"create", "createOrder"} /\ req'[h] = Idle
    BY <1>1 DEF CreateItem, PlaceOrder, Finish, Proceed, TypeOK
  <2>2. req'[h] # req[h]
    BY <2>1 DEF Idle
  <2>3. QED
    BY <1>1, <2>1, <2>2, CreateIsSeen, PlaceIsSeen DEF isOvertaken
<1>2. ASSUME NEW h \in Handlers,
             SetQuantity(h) \/ DeleteItem(h) \/ SwitchRestaurant(h) \/ ClearCart(h)
      PROVE  Seen
  BY <1>2, EditIsSeen
<1>3. ASSUME NEW h \in Handlers,
             \/ \E i \in MenuItems, quantity \in 1..MaxQuantity, clear \in BOOLEAN :
                  AddToCart(h, i, quantity, clear)
             \/ ReadCart(h) \/ ClaimRestaurant(h) \/ FindItem(h)
             \/ \E row \in items, quantity \in 0..MaxQuantity :
                  UpdateCartItem(h, row, quantity)
             \/ \E row \in items : RemoveCartItem(h, row)
             \/ CountItems(h) \/ ResetRestaurant(h) \/ Abandon(h) \/ CreateOrder(h)
      PROVE  Seen
  <2>1. UNCHANGED <<menu, items, placed>>
    BY <1>3 DEF AddToCart, ReadCart, ClaimRestaurant, FindItem, UpdateCartItem, RemoveCartItem,
       CountItems, ResetRestaurant, Abandon, CreateOrder
  <2>2. QED
    BY <2>1, HiddenIsSeen
<1>4. CASE CatalogNext
  BY <1>4, CatalogIsSeen
<1>5. CASE CartsNext
  BY <1>1, <1>2, <1>3, <1>5 DEF CartsNext
<1>6. CASE CheckoutNext
  BY <1>1, <1>3, <1>6 DEF CheckoutNext
<1>7. QED
  BY <1>4, <1>5, <1>6 DEF Next

\* Requests that order keep the lines they read.
LEMMA LinesInvariant == Spec => [](TypeOK /\ RowsAreOnMenu /\ OrdersHaveLines)
<1>1. Init => OrdersHaveLines
  BY DEF Init, Idle, OrdersHaveLines
<1>2. TypeOK /\ OrdersHaveLines /\ [Next]_vars => OrdersHaveLines'
  <2> SUFFICES ASSUME TypeOK, OrdersHaveLines, [Next]_vars, NEW g \in Handlers,
                      req'[g].kind = "createOrder", req'[g] # req[g]
               PROVE  req'[g].order.lines # {}
    BY DEF OrdersHaveLines
  <2>1. ASSUME NEW h \in Handlers, CreateOrder(h)
        PROVE  req'[g].order.lines # {}
    BY <2>1 DEF CreateOrder, Proceed, TypeOK
  <2>2. ASSUME NEW h \in Handlers,
               \/ \E i \in MenuItems, quantity \in 1..MaxQuantity, clear \in BOOLEAN :
                    AddToCart(h, i, quantity, clear)
               \/ ReadCart(h) \/ ClaimRestaurant(h) \/ SwitchRestaurant(h)
               \/ FindItem(h) \/ CreateItem(h)
        PROVE  req'[g].kind # "createOrder"
    BY <2>2, RequestShape DEF AddToCart, ReadCart, ClaimRestaurant, SwitchRestaurant, FindItem,
       CreateItem, Finish, Proceed, TypeOK, Idle
  <2>3. ASSUME NEW h \in Handlers,
               \/ \E row \in items, quantity \in 0..MaxQuantity :
                    UpdateCartItem(h, row, quantity)
               \/ \E row \in items : RemoveCartItem(h, row)
               \/ SetQuantity(h) \/ DeleteItem(h) \/ CountItems(h) \/ ResetRestaurant(h)
               \/ ClearCart(h) \/ Abandon(h) \/ PlaceOrder(h)
        PROVE  req'[g].kind # "createOrder"
    BY <2>3 DEF UpdateCartItem, RemoveCartItem, SetQuantity, DeleteItem, CountItems,
       ResetRestaurant, ClearCart, Abandon, PlaceOrder, Finish, Proceed, TypeOK, Idle
  <2>4. ASSUME CatalogNext \/ UNCHANGED vars PROVE FALSE
    BY <2>4 DEF CatalogNext, UpdateMenuItem, DeleteMenuItem, DeleteCategory,
       UpdateRestaurantStatus, vars
  <2>5. QED
    BY <2>1, <2>2, <2>3, <2>4 DEF Next, CartsNext, CheckoutNext
<1>3. QED
  BY <1>1, <1>2, RowsInvariant, PTL DEF Spec

(***************************************************************************)
(* However requests overlap, and whatever menus do meanwhile, each query   *)
(* does to cart and orders what Purchase allows, or it is the creation of  *)
(* a row or an order by a request that another one overtook                *)
(* (carts.service.ts:142, orders.service.ts:138).                          *)
(***************************************************************************)
THEOREM PurchaseIsKept == Spec => PurchaseKept
<1> DEFINE kept == CartHasOneRestaurant =>
      \/ UNCHANGED Promise!vars
      \/ Promise!Next
      \/ \E h \in Handlers : isOvertaken(h, {"create", "createOrder"})
<1>1. TypeOK /\ RowsAreOnMenu /\ OrdersHaveLines /\ Next => kept
  BY StepIsSeen DEF Seen
<1>2. TypeOK /\ RowsAreOnMenu /\ OrdersHaveLines /\ [Next]_vars => [kept]_vars
  BY <1>1
<1>3. QED
  BY <1>2, LinesInvariant, PTL DEF Spec, PurchaseKept

-----------------------------------------------------------------------------
\* A customer who waits for each answer overtakes nobody.
LEMMA NextFresh == OneAtATime /\ TypeOK /\ FreshReads /\ [Next]_vars => FreshReads'
<1> SUFFICES ASSUME OneAtATime, TypeOK, FreshReads, [Next]_vars PROVE FreshReads'
  OBVIOUS
<1>1. CASE UNCHANGED vars
  BY <1>1 DEF vars, FreshReads, isFreshRead, RowsAreOnMenu
<1>2. CASE Next
  <2>1. CASE CatalogKeeps
    BY <2>1 DEF CatalogKeeps, FreshReads
  <2>2. CASE \E h \in Handlers : StepKeeps(h)
    <3>1. PICK h \in Handlers : StepKeeps(h)
      BY <2>2
    <3>2. \A g \in Handlers : g = h
      BY DEF OneAtATime
    <3>3. QED
      BY <3>1, <3>2 DEF StepKeeps, FreshReads
  <2>3. QED
    BY <1>2, <2>1, <2>2, Steps DEF FreshReads
<1>3. QED
  BY <1>1, <1>2

\* An order has the restaurant and the lines of a cart nobody changed.
LEMMA NextOrders == IInv /\ [Next]_vars => OrderHasOneRestaurant'
<1> SUFFICES ASSUME IInv, [Next]_vars PROVE OrderHasOneRestaurant'
  OBVIOUS
<1> USE DEF IInv
<1>1. CASE UNCHANGED placed
  BY <1>1 DEF OrderHasOneRestaurant
<1>2. CASE CatalogNext
  <2>1. CatalogKeeps
    BY <1>2, CatalogStepKeeps DEF FreshReads
  <2>2. QED
    BY <2>1 DEF CatalogKeeps, OrderHasOneRestaurant
<1>3. ASSUME NEW h \in Handlers, PlaceOrder(h), placed' # placed
      PROVE  OrderHasOneRestaurant'
  <2>1. PICK n \in OrderNumbers :
          /\ placed[n] = NULL /\ placed'[n] = req[h].order
          /\ \A m \in OrderNumbers \ {n} : placed'[m] = placed[m]
    BY <1>3, PlacedOrder DEF FreshReads
  <2>2. req[h].order.lines = items /\ req[h].order.restaurant = restaurant
    BY <1>3, PlacedOrder DEF FreshReads
  <2>3. QED
    BY <2>1, <2>2 DEF CartHasOneRestaurant, OrderHasOneRestaurant
<1>4. CASE CheckoutNext
  BY <1>1, <1>3, <1>4 DEF CheckoutNext, CreateOrder
<1>5. CASE CartsNext
  BY <1>1, <1>5 DEF CartsNext, AddToCart, ReadCart, SwitchRestaurant, ClaimRestaurant, FindItem,
     CreateItem, UpdateCartItem, RemoveCartItem, SetQuantity, DeleteItem, CountItems,
     ResetRestaurant, ClearCart, Abandon
<1>6. QED
  BY <1>1, <1>2, <1>4, <1>5 DEF Next, vars

\* IInv is inductive for a customer who waits for each answer.
THEOREM CartInvariant ==
  ASSUME OneAtATime
  PROVE  Spec => []IInv
<1>1. Init => IInv
  BY InitTypeOK DEF Init, Idle, IInv, CartHasOneRestaurant, OrderHasOneRestaurant, OrderedOnce,
     FreshReads, isFreshRead, RowsAreOnMenu
<1>2. IInv /\ [Next]_vars => IInv'
  <2> SUFFICES ASSUME IInv, [Next]_vars PROVE IInv'
    OBVIOUS
  <2>1. TypeOK' /\ FreshReads' /\ OrderHasOneRestaurant'
    BY NextTypeOK, NextFresh, NextOrders DEF IInv
  <2>2. \A h \in Handlers : \A kinds : ~isOvertaken(h, kinds)
    BY DEF isOvertaken, IInv, FreshReads
  <2>3. CASE UNCHANGED vars
    BY <2>1, <2>3 DEF vars, IInv, CartHasOneRestaurant, OrderedOnce
  <2>4. CASE Next
    <3>1. CASE CatalogKeeps
      BY <2>1, <3>1 DEF CatalogKeeps, IInv, CartHasOneRestaurant, OrderedOnce
    <3>2. CASE \E h \in Handlers : StepKeeps(h)
      BY <2>1, <2>2, <3>2 DEF StepKeeps, IInv
    <3>3. QED
      BY <2>4, <3>1, <3>2, Steps DEF IInv, FreshReads
  <2>5. QED
    BY <2>3, <2>4
<1>3. QED
  BY <1>1, <1>2, PTL DEF Spec

(***************************************************************************)
(* The cart of a customer who waits for each answer has one restaurant,    *)
(* wherever addToCart and removeCartItem die between their queries, and so *)
(* has each of that customer's orders (carts.service.ts:98-151).           *)
(***************************************************************************)
THEOREM OneRestaurantPerOrder ==
  ASSUME OneAtATime
  PROVE  Spec => [](CartHasOneRestaurant /\ OrderHasOneRestaurant)
BY CartInvariant, PTL DEF IInv

(***************************************************************************)
(* No row of such a customer is ordered twice or left in the cart once     *)
(* ordered (orders.service.ts:96-145).                                     *)
(***************************************************************************)
THEOREM RowsAreOrderedOnce ==
  ASSUME OneAtATime
  PROVE  Spec => []OrderedOnce
BY CartInvariant, PTL DEF IInv

(***************************************************************************)
(* For a customer who waits for each answer, addToCart, its queries and    *)
(* checkout implement Purchase: although they read first and write later,  *)
(* query by query, an order takes the cart as it is when it is placed, and *)
(* all of it (carts.service.ts:77-151, orders.service.ts:19-145).          *)
(***************************************************************************)
THEOREM OneCustomerPurchases ==
  ASSUME OneAtATime
  PROVE  Spec => ImplementsPurchase
<1>1. Init => Promise!Init
  <2>1. ASSUME Init PROVE {i \in MenuItems : menu[i] # NULL} = MenuItems
    BY <2>1, NullIsNoRow DEF Init
  <2>2. QED
    BY <2>1 DEF Init, Promise!Init
<1>2. IInv /\ OrdersHaveLines /\ [Next]_vars => [Promise!Next]_(Promise!vars)
  <2> SUFFICES ASSUME IInv, OrdersHaveLines, [Next]_vars PROVE Seen
    BY DEF Seen
  <2>1. \A h \in Handlers : \A kinds : ~isOvertaken(h, kinds)
    BY DEF isOvertaken, IInv, FreshReads
  <2>2. CASE Next
    BY <2>1, <2>2, StepIsSeen DEF IInv, FreshReads
  <2>3. CASE UNCHANGED vars
    BY <2>3, HiddenIsSeen DEF vars
  <2>4. QED
    BY <2>2, <2>3
<1>3. QED
  BY <1>1, <1>2, CartInvariant, LinesInvariant, PTL DEF Spec, ImplementsPurchase, Promise!Spec
=============================================================================
