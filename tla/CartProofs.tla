------------------------------ MODULE CartProofs ------------------------------
(* Theorems about Cart, for any number of requests, sessions, products,     *)
(* prices and keys.                                                         *)
EXTENDS Cart, FiniteSetTheorems, TLAPS

USE DEF Committed, Commit

-----------------------------------------------------------------------------
(* What an operation names, and what a row of cart_items is.                *)

LEMMA OpFields ==
  ASSUME NEW op \in Op
  PROVE  /\ op.session \in Sessions
         /\ op.kind \in {"add", "update", "remove", "clear", "checkout"}
         /\ op.kind = "add" => op.product \in Products /\ op.qty \in Quantities
         /\ op.kind = "update" => op.qty \in Quantities
         /\ op.kind = "checkout" => op.key \in Keys \cup {None}
BY DEF Op

(* The items of an empty cart are items.                                    *)
LEMMA NoItemsTyped == NoItems \in [Products -> Item]
BY DEF NoItems, Item

(* A row of cart_items has a quantity that is not zero, NoItem has zero.    *)
LEMMA ItemFields ==
  ASSUME NEW i \in Item
  PROVE  /\ i.qty \in Nat /\ i.price \in Prices \cup {None}
         /\ i # NoItem => i.qty # 0
BY ConstantsAssumption DEF Item, NoItem

(* What a request notes down. *)
LEMMA RequestTypes ==
  ASSUME NEW r \in RequestState, NEW pc \in InFlight \cup {"done", "refused"}
  PROVE  /\ \A op \in Op : [r EXCEPT !.op = op, !.pc = pc] \in RequestState
         /\ \A items \in [Products -> Item] :
              [r EXCEPT !.pc = pc, !.read = items] \in RequestState
BY DEF RequestState

(* A request moves to a step of RequestState. *)
LEMMA GotoType ==
  ASSUME TypeOK, NEW c \in Requests, NEW pc, Goto(c, pc),
         pc \in InFlight \cup Committed \cup {"refused", "server_error"}
  PROVE  requests' \in [Requests -> RequestState]
BY DEF TypeOK, Goto, RequestState

(* The end of a transaction keeps the types of requests and row locks.      *)
LEMMA EndTransactionType ==
  ASSUME TypeOK, NEW c \in Requests, NEW pc, EndTransaction(c, pc),
         pc \in Committed \cup {"refused", "server_error"}
  PROVE  /\ requests' \in [Requests -> RequestState]
         /\ lock' \in [Sessions -> Requests \cup {None}]
<1>1. Goto(c, pc)
  BY DEF EndTransaction
<1>2. requests' \in [Requests -> RequestState]
  BY <1>1, GotoType
<1>3. QED
  BY <1>2 DEF EndTransaction, TypeOK

(* Taking the row lock keeps the type of the locks.                         *)
LEMMA LockType ==
  ASSUME TypeOK, NEW c \in Requests, requests[c].op \in Op, Lock(c)
  PROVE  lock' \in [Sessions -> Requests \cup {None}]
BY OpFields DEF TypeOK, Lock

(* Writing the items of one cart keeps the type of the carts.               *)
LEMMA SetItemsType ==
  ASSUME TypeOK, NEW s \in Sessions, NEW items \in [Products -> Item], SetItems(s, items)
  PROVE  carts' \in [Sessions -> CartRow]
<1> DEFINE row == [carts[s] EXCEPT !.items = items]
<1>1. carts[s] \in CartRow
  BY DEF TypeOK
<1>2. row \in CartRow
  BY <1>1 DEF CartRow
<1>3. carts' = [carts EXCEPT ![s] = row]
  BY DEF SetItems
<1>4. QED
  BY <1>2, <1>3 DEF TypeOK

-----------------------------------------------------------------------------
(* Types. *)

(* The tables start with their types: no cart, no order, no request.        *)
LEMMA TypeInit == Init => TypeOK
<1> SUFFICES ASSUME Init PROVE TypeOK
  OBVIOUS
<1>1. carts \in [Sessions -> CartRow]
  BY NoItemsTyped DEF Init, CartRow, NoCart
<1>2. requests \in [Requests -> RequestState]
  BY NoItemsTyped DEF Init, RequestState, NoItems
<1>3. QED
  BY <1>1, <1>2 DEF Init, TypeOK

(* Every handler step, menu edit and restart keeps the types.               *)
LEMMA TypeStep == TypeOK /\ OpFits /\ [Next]_vars => TypeOK'
<1> USE ConstantsAssumption
<1> SUFFICES ASSUME TypeOK, OpFits, [Next]_vars PROVE TypeOK'
  OBVIOUS
<1>1. ASSUME NEW c \in Requests, NEW op \in Op, Arrive(c, op) PROVE TypeOK'
  <2> DEFINE row == [requests[c] EXCEPT !.op = op, !.pc = FirstStep(op)]
  <2>1. FirstStep(op) \in InFlight \cup {"done", "refused"}
    BY OpFields DEF FirstStep, InFlight
  <2>2. row \in RequestState
    BY <2>1, RequestTypes DEF TypeOK
  <2>3. requests' = [requests EXCEPT ![c] = row]
    BY <1>1 DEF Arrive
  <2>4. requests' \in [Requests -> RequestState]
    BY <2>2, <2>3 DEF TypeOK
  <2>5. QED
    BY <1>1, <2>4 DEF Arrive, TypeOK
<1>2. ASSUME NEW c \in Requests, InsertCart(c) PROVE TypeOK'
  <2>1. requests' \in [Requests -> RequestState]
    BY <1>2, GotoType DEF InsertCart, InFlight
  <2>2. lock' \in [Sessions -> Requests \cup {None}]
    BY <1>2, LockType DEF InsertCart, OpFits, TypeOK
  <2>3. QED
    BY <1>2, <2>1, <2>2 DEF InsertCart, TypeOK
<1>3. ASSUME NEW c \in Requests, RereadCart(c) PROVE TypeOK'
  <2>1. requests' \in [Requests -> RequestState]
    BY <1>3, GotoType DEF RereadCart, InFlight
  <2>2. QED
    BY <1>3, <2>1 DEF RereadCart, TypeOK
<1>4. ASSUME NEW c \in Requests, LockCart(c) PROVE TypeOK'
  <2>1. requests' \in [Requests -> RequestState]
    BY <1>4, GotoType DEF LockCart, InFlight
  <2>2. lock' \in [Sessions -> Requests \cup {None}]
    BY <1>4, LockType DEF LockCart, OpFits, TypeOK
  <2>3. QED
    BY <1>4, <2>1, <2>2 DEF LockCart, TypeOK
<1>5. ASSUME NEW c \in Requests, AddItem(c) PROVE TypeOK'
  <2> DEFINE op == requests[c].op
             items == Cart(c).items
             row == [Cart(c) EXCEPT !.status = IF Cart(c).status = "none" THEN "active"
                                                                 ELSE Cart(c).status,
                                    !.items = Upsert(items, c, op)]
  <2>1. op \in Op /\ op.kind = "add"
    BY <1>5 DEF AddItem, OpFits
  <2>2. op.session \in Sessions /\ op.product \in Products /\ op.qty \in Quantities
    BY <2>1, OpFields
  <2>3. Cart(c) \in CartRow /\ items \in [Products -> Item]
    BY <2>2 DEF TypeOK, Cart, CartRow
  <2>4. Upsert(items, c, op) \in [Products -> Item]
    <3>1. items[op.product] \in Item
      BY <2>2, <2>3
    <3>2. [id |-> c, qty |-> op.qty, price |-> menu[op.product].price] \in Item
      BY <2>2 DEF TypeOK, Item
    <3>3. items[op.product] # NoItem =>
            [items[op.product] EXCEPT !.qty = items[op.product].qty + op.qty] \in Item
      BY <2>2, <3>1 DEF Item
    <3>4. QED
      BY <2>3, <3>1, <3>2, <3>3 DEF Upsert
  <2>5. row \in CartRow
    BY <2>3, <2>4 DEF CartRow
  <2>6. carts' \in [Sessions -> CartRow]
    <3>1. CASE menu[op.product].sale = "on"
      <4>1. carts' = [carts EXCEPT ![op.session] = row]
        BY <1>5, <3>1 DEF AddItem, Cart
      <4>2. QED
        BY <2>5, <4>1 DEF TypeOK
    <3>2. CASE menu[op.product].sale # "on"
      BY <1>5, <3>2 DEF AddItem, TypeOK
    <3>3. QED
      BY <3>1, <3>2
  <2>7. QED
    BY <1>5, <2>6, EndTransactionType DEF AddItem, TypeOK
<1>6. ASSUME NEW c \in Requests, UpdateQuantity(c) PROVE TypeOK'
  <2> DEFINE op == requests[c].op
  <2>1. op.session \in Sessions /\ op.qty \in Quantities
    BY <1>6, OpFields DEF UpdateQuantity, OpFits
  <2>2. Cart(c).items \in [Products -> Item]
    BY <2>1 DEF TypeOK, Cart, CartRow
  <2>3. ASSUME NEW p \in Found(c)
        PROVE  [Cart(c).items EXCEPT ![p].qty = op.qty] \in [Products -> Item]
    <3>1. p \in Products /\ Cart(c).items[p] \in Item
      BY <2>2 DEF Found
    <3>2. Cart(c).items[p] # NoItem
      BY <1>6, <2>1 DEF Found, UpdateQuantity, OpFits, Op, NoItem
    <3>3. [Cart(c).items[p] EXCEPT !.qty = op.qty] \in Item
      BY <2>1, <3>1, <3>2 DEF Item
    <3>4. QED
      BY <2>2, <3>1, <3>3
  <2>4. carts' \in [Sessions -> CartRow]
    BY <1>6, <2>1, <2>3, SetItemsType DEF UpdateQuantity, TypeOK
  <2>5. QED
    BY <1>6, <2>4, EndTransactionType DEF UpdateQuantity, TypeOK
<1>7. ASSUME NEW c \in Requests, RemoveItem(c) PROVE TypeOK'
  <2> DEFINE op == requests[c].op
  <2>1. op.session \in Sessions
    BY <1>7, OpFields DEF RemoveItem, OpFits
  <2>2. Cart(c).items \in [Products -> Item]
    BY <2>1 DEF TypeOK, Cart, CartRow
  <2>3. ASSUME NEW p \in Found(c)
        PROVE  [Cart(c).items EXCEPT ![p] = NoItem] \in [Products -> Item]
    BY <2>2 DEF Found, Item
  <2>4. carts' \in [Sessions -> CartRow]
    BY <1>7, <2>1, <2>3, SetItemsType DEF RemoveItem, TypeOK
  <2>5. QED
    BY <1>7, <2>4, EndTransactionType DEF RemoveItem, TypeOK
<1>8. ASSUME NEW c \in Requests, ClearCart(c) PROVE TypeOK'
  <2>1. requests[c].op.session \in Sessions
    BY <1>8, OpFields DEF ClearCart, OpFits
  <2>2. carts' \in [Sessions -> CartRow]
    BY <1>8, <2>1, NoItemsTyped, SetItemsType DEF ClearCart
  <2>3. QED
    BY <1>8, <2>2, EndTransactionType DEF ClearCart, TypeOK
<1>9. ASSUME NEW c \in Requests, LockForCheckout(c) PROVE TypeOK'
  <2> DEFINE s == requests[c].op.session
  <2>1. requests[c].op \in Op /\ s \in Sessions
    BY <1>9, OpFields DEF LockForCheckout, OpFits
  <2>2. carts[s].order \in Requests \cup {None}
    BY <2>1 DEF TypeOK, CartRow
  <2>3. requests' \in [Requests -> RequestState]
    <3>1. CASE \E pc \in {"read", "refused"} : Goto(c, pc)
      BY <3>1, GotoType DEF InFlight
    <3>2. CASE requests' = [requests EXCEPT ![c] =
                              [@ EXCEPT !.pc = "done", !.result = carts[s].order]]
      BY <2>2, <3>2 DEF TypeOK, RequestState
    <3>3. QED
      BY <1>9, <3>1, <3>2 DEF LockForCheckout
  <2>4. lock' \in [Sessions -> Requests \cup {None}]
    BY <1>9, <2>1, LockType DEF LockForCheckout, TypeOK
  <2>5. QED
    BY <1>9, <2>3, <2>4 DEF LockForCheckout, TypeOK
<1>10. ASSUME NEW c \in Requests, ReadItems(c) PROVE TypeOK'
  <2>1. requests[c].op.session \in Sessions
    BY <1>10, OpFields DEF ReadItems, OpFits
  <2>2. Cart(c).items \in [Products -> Item]
    BY <2>1 DEF TypeOK, Cart, CartRow
  <2>3. CASE EndTransaction(c, "refused")
    BY <1>10, <2>3, EndTransactionType DEF ReadItems, TypeOK
  <2>4. CASE ~EndTransaction(c, "refused")
    <3> DEFINE row == [requests[c] EXCEPT !.pc = "order", !.read = Cart(c).items]
    <3> "order" \in InFlight
      BY DEF InFlight
    <3>1. row \in RequestState
      BY <2>2, RequestTypes DEF TypeOK
    <3>2. requests' = [requests EXCEPT ![c] = row]
      BY <1>10, <2>4 DEF ReadItems
    <3>3. requests' \in [Requests -> RequestState]
      BY <3>1, <3>2 DEF TypeOK
    <3>4. QED
      BY <1>10, <2>4, <3>3 DEF ReadItems, TypeOK
  <2>5. QED
    BY <2>3, <2>4
<1>11. ASSUME NEW c \in Requests, CreateOrder(c) PROVE TypeOK'
  <2> DEFINE s == requests[c].op.session
             row == [carts[s] EXCEPT !.status = "checked_out",
                                     !.key = requests[c].op.key, !.order = c]
  <2>1. CASE ~Place(c)
    BY <1>11, <2>1, EndTransactionType DEF CreateOrder, TypeOK
  <2>2. CASE Place(c)
    <3>1. requests[c].op \in Op /\ requests[c].op.kind = "checkout"
      BY <1>11 DEF CreateOrder, OpFits
    <3>2. s \in Sessions /\ requests[c].op.key \in Keys \cup {None}
      BY <3>1, OpFields
    <3>3. carts[s] \in CartRow
      BY <3>2 DEF TypeOK
    <3>4. row \in CartRow
      BY <3>2, <3>3 DEF CartRow
    <3>5. carts' \in [Sessions -> CartRow]
      <4>1. carts' = [carts EXCEPT ![s] = row]
        BY <2>2 DEF Place
      <4>2. QED
        BY <3>4, <4>1 DEF TypeOK
    <3>6. requests[c].read \in [Products -> Item]
      BY DEF TypeOK, RequestState
    <3>7. orders' \in [Requests -> [Products -> Item] \cup {None}]
      BY <2>2, <3>6 DEF Place, TypeOK
    <3>8. requests' \in [Requests -> RequestState]
      <4>0. PICK pc \in Committed :
              requests' = [requests EXCEPT ![c] = [@ EXCEPT !.pc = pc, !.result = c]]
        BY <2>2 DEF Place
      <4> DEFINE request == [requests[c] EXCEPT !.pc = pc, !.result = c]
      <4>1. request \in RequestState
        BY DEF TypeOK, RequestState
      <4>2. requests' = [requests EXCEPT ![c] = request]
        BY <4>0
      <4>3. QED
        BY <4>1, <4>2 DEF TypeOK
    <3>9. lock' \in [Sessions -> Requests \cup {None}]
      BY <2>2 DEF Place, TypeOK
    <3>10. QED
      BY <1>11, <3>5, <3>7, <3>8, <3>9 DEF CreateOrder, TypeOK
  <2>3. QED
    BY <2>1, <2>2
<1>12. ASSUME NEW p \in Products, NEW sale \in {"on", "off"}, NEW price \in Prices,
              UpdateProduct(p, sale, price)
       PROVE  TypeOK'
  BY <1>12 DEF UpdateProduct, TypeOK
<1>13. ASSUME NEW p \in Products, DeleteProduct(p) PROVE TypeOK'
  <2>1. ASSUME NEW s \in Sessions
        PROVE  [carts[s] EXCEPT !.items[p] = NoItem] \in CartRow
    <3>1. carts[s] \in CartRow /\ carts[s].items \in [Products -> Item]
      BY DEF TypeOK, CartRow
    <3>2. [carts[s].items EXCEPT ![p] = NoItem] \in [Products -> Item]
      BY <3>1 DEF Item
    <3>3. QED
      BY <3>1, <3>2 DEF CartRow
  <2>2. carts' \in [Sessions -> CartRow]
    BY <1>13, <2>1 DEF DeleteProduct
  <2>3. menu' \in [Products -> [sale : {"on", "off", "deleted"}, price : Prices]]
    BY <1>13 DEF DeleteProduct, TypeOK
  <2>4. QED
    BY <1>13, <2>2, <2>3 DEF DeleteProduct, TypeOK
<1>14. CASE WorkerRestart
  <2>1. requests' \in [Requests -> RequestState]
    <3>1. ASSUME NEW c \in Requests PROVE [requests[c] EXCEPT !.pc = "lost"] \in RequestState
      BY DEF TypeOK, RequestState
    <3>2. QED
      BY <1>14, <3>1 DEF WorkerRestart, TypeOK
  <2>2. QED
    BY <1>14, <2>1 DEF WorkerRestart, TypeOK
<1>15. CASE UNCHANGED vars
  BY <1>15 DEF vars, TypeOK
<1>16. QED
  BY <1>1, <1>2, <1>3, <1>4, <1>5, <1>6, <1>7, <1>8, <1>9, <1>10, <1>11, <1>12, <1>13,
     <1>14, <1>15 DEF Next, Step

-----------------------------------------------------------------------------
(* What one step of a request can change.                                   *)

(* Only the acting request moves, and it keeps its operation.               *)
LEMMA GotoEffect ==
  ASSUME TypeOK, NEW c \in Requests, NEW pc, Goto(c, pc)
  PROVE  /\ requests'[c].pc = pc /\ requests'[c].op = requests[c].op
         /\ \A d \in Requests \ {c} : requests'[d] = requests[d]
BY DEF TypeOK, Goto, RequestState

(* The end of a transaction gives back every row lock of its request.       *)
LEMMA EndTransactionEffect ==
  ASSUME TypeOK, NEW c \in Requests, NEW pc, EndTransaction(c, pc)
  PROVE  /\ requests'[c].pc = pc /\ requests'[c].op = requests[c].op
         /\ \A d \in Requests \ {c} : requests'[d] = requests[d]
         /\ \A s \in Sessions : lock'[s] = IF lock[s] = c THEN None ELSE lock[s]
<1>1. Goto(c, pc)
  BY DEF EndTransaction
<1>2. QED
  BY <1>1, GotoEffect DEF EndTransaction

(* The steps that can follow a step. *)
After == [insert   |-> {"mutate", "reread"},
          reread   |-> {"lock", "server_error"},
          lock     |-> {"mutate", "refused"},
          mutate   |-> Committed \cup {"refused"},
          checkout |-> {"read", "done", "refused"},
          read     |-> {"order", "refused"},
          order    |-> Committed \cup {"refused", "server_error"}]

(* A step is one of the operation's; nobody else's request moves.           *)
LEMMA StepMoves ==
  ASSUME TypeOK, NEW c \in Requests, Step(c)
  PROVE  /\ requests[c].pc \in InFlight
         /\ requests'[c].pc \in After[requests[c].pc]
         /\ requests'[c].op = requests[c].op
         /\ \A d \in Requests \ {c} : requests'[d] = requests[d]
<1>1. CASE InsertCart(c)
  BY <1>1, GotoEffect DEF InsertCart, After, InFlight
<1>2. CASE RereadCart(c)
  BY <1>2, GotoEffect DEF RereadCart, After, InFlight
<1>3. CASE LockCart(c)
  BY <1>3, GotoEffect DEF LockCart, After, InFlight
<1>4. CASE AddItem(c)
  BY <1>4, EndTransactionEffect DEF AddItem, After, InFlight
<1>5. CASE UpdateQuantity(c)
  BY <1>5, EndTransactionEffect DEF UpdateQuantity, After, InFlight
<1>6. CASE RemoveItem(c)
  BY <1>6, EndTransactionEffect DEF RemoveItem, After, InFlight
<1>7. CASE ClearCart(c)
  BY <1>7, EndTransactionEffect DEF ClearCart, After, InFlight
<1>8. CASE LockForCheckout(c)
  <2>1. CASE \E pc \in {"read", "refused"} : Goto(c, pc)
    BY <1>8, <2>1, GotoEffect DEF LockForCheckout, After, InFlight
  <2>2. CASE ~ \E pc \in {"read", "refused"} : Goto(c, pc)
    <3> DEFINE row == [requests[c] EXCEPT !.pc = "done",
                         !.result = carts[requests[c].op.session].order]
    <3>1. requests[c].pc = "checkout" /\ requests' = [requests EXCEPT ![c] = row]
      BY <1>8, <2>2 DEF LockForCheckout
    <3>2. row.pc = "done" /\ row.op = requests[c].op
      BY DEF TypeOK, RequestState
    <3>3. QED
      BY <3>1, <3>2 DEF After, InFlight, TypeOK
  <2>3. QED
    BY <2>1, <2>2
<1>9. CASE ReadItems(c)
  <2>1. CASE EndTransaction(c, "refused")
    BY <1>9, <2>1, EndTransactionEffect DEF ReadItems, After, InFlight
  <2>2. CASE ~EndTransaction(c, "refused")
    <3> DEFINE row == [requests[c] EXCEPT !.pc = "order", !.read = Cart(c).items]
    <3>1. requests[c].pc = "read" /\ requests' = [requests EXCEPT ![c] = row]
      BY <1>9, <2>2 DEF ReadItems
    <3>2. row.pc = "order" /\ row.op = requests[c].op
      BY DEF TypeOK, RequestState
    <3>3. QED
      BY <3>1, <3>2 DEF After, InFlight, TypeOK
  <2>3. QED
    BY <2>1, <2>2
<1>10. CASE CreateOrder(c)
  <2>1. CASE ~Place(c)
    BY <1>10, <2>1, EndTransactionEffect DEF CreateOrder, After, InFlight
  <2>2. CASE Place(c)
    BY <1>10, <2>2 DEF CreateOrder, Place, After, InFlight, TypeOK, RequestState
  <2>3. QED
    BY <2>1, <2>2
<1>11. QED
  BY <1>1, <1>2, <1>3, <1>4, <1>5, <1>6, <1>7, <1>8, <1>9, <1>10 DEF Step

(* Row locks are taken when they are free and given back by their holder.   *)
LockSteps(c) ==
  /\ \A s \in Sessions :
       \/ lock'[s] = lock[s]
       \/ lock[s] = None /\ lock'[s] = c
       \/ lock[s] = c /\ lock'[s] = None
  /\ requests'[c].pc \in {"mutate", "read"} => lock'[requests[c].op.session] = c
  /\ requests'[c].pc = "order" => UNCHANGED lock

(* Every step of a request treats the row locks so.                         *)
LEMMA StepLocks ==
  ASSUME TypeOK, OpFits, NEW c \in Requests, Step(c)
  PROVE  LockSteps(c)
<1>1. requests[c].op \in Op /\ requests[c].op.session \in Sessions
  BY StepMoves, OpFields DEF OpFits, InFlight
<1>2. CASE /\ Lock(c) /\ LockFree(requests[c].op.session)
           /\ requests'[c].pc \in {"mutate", "read"}
  <2>1. lock' = [lock EXCEPT ![requests[c].op.session] = c]
    BY <1>2 DEF Lock
  <2>2. requests'[c].op = requests[c].op
    BY StepMoves
  <2>3. QED
    BY <1>1, <1>2, <2>1, <2>2 DEF LockFree, TypeOK, LockSteps
<1>3. CASE UNCHANGED lock /\ requests'[c].pc \notin {"mutate", "read"}
  BY <1>3 DEF LockSteps
<1>4. ASSUME NEW pc \in Committed \cup {"refused", "server_error"}, EndTransaction(c, pc)
      PROVE  LockSteps(c)
  BY <1>4, EndTransactionEffect DEF LockSteps
<1>5. CASE Place(c)
  <2>1. requests'[c].pc \in Committed
    BY <1>5 DEF Place, TypeOK, RequestState
  <2>2. QED
    BY <1>5, <2>1 DEF Place, LockSteps
<1>6. QED
  <2>1. CASE InsertCart(c) \/ RereadCart(c) \/ LockCart(c)
    BY <1>2, <1>3, <2>1, GotoEffect DEF InsertCart, RereadCart, LockCart
  <2>2. CASE AddItem(c) \/ UpdateQuantity(c) \/ RemoveItem(c) \/ ClearCart(c)
    BY <1>4, <2>2 DEF AddItem, UpdateQuantity, RemoveItem, ClearCart
  <2>3. CASE LockForCheckout(c)
    <3>1. ASSUME NEW pc \in {"read", "refused"}, Goto(c, pc) PROVE LockSteps(c)
      <4>1. requests'[c].pc = pc
        BY <3>1, GotoEffect
      <4>2. requests' # [requests EXCEPT ![c] = [@ EXCEPT !.pc = "done",
                           !.result = carts[requests[c].op.session].order]]
        BY <4>1 DEF TypeOK, RequestState
      <4>3. CASE pc = "read"
        BY <1>2, <2>3, <4>1, <4>2, <4>3, GotoEffect DEF LockForCheckout
      <4>4. CASE pc = "refused"
        BY <1>3, <2>3, <4>1, <4>2, <4>4, GotoEffect DEF LockForCheckout
      <4>5. QED
        BY <4>3, <4>4
    <3>2. CASE ~(Goto(c, "read") \/ Goto(c, "refused"))
      <4>1. requests'[c].pc = "done"
        BY <2>3, <3>2 DEF LockForCheckout, TypeOK, RequestState
      <4>2. QED
        BY <1>3, <2>3, <3>2, <4>1 DEF LockForCheckout
    <3>3. QED
      BY <3>1, <3>2
  <2>4. CASE ReadItems(c)
    <3>1. CASE EndTransaction(c, "refused")
      BY <1>4, <3>1
    <3>2. CASE ~EndTransaction(c, "refused")
      <4>1. requests'[c].pc = "order"
        BY <2>4, <3>2 DEF ReadItems, TypeOK, RequestState
      <4>2. QED
        BY <1>3, <2>4, <3>2, <4>1 DEF ReadItems
    <3>3. QED
      BY <3>1, <3>2
  <2>5. CASE CreateOrder(c)
    BY <1>4, <1>5, <2>5 DEF CreateOrder
  <2>6. QED
    BY <2>1, <2>2, <2>3, <2>4, <2>5 DEF Step

(* Only its own cart, only under the lock, and only its own order.          *)
CartSteps(c) ==
  /\ \A s \in Sessions \ {requests[c].op.session} : carts'[s] = carts[s]
  /\ requests[c].pc \notin {"mutate", "order"} => UNCHANGED carts
  /\ \A d \in Requests \ {c} : orders'[d] = orders[d]
  /\ requests'[c].pc \notin Committed => UNCHANGED orders
  /\ UNCHANGED menu

(* Every step of a request treats carts, orders and menu so.                *)
LEMMA StepCarts ==
  ASSUME TypeOK, OpFits, NEW c \in Requests, Step(c)
  PROVE  CartSteps(c)
<1>1. requests[c].op.session \in Sessions
  BY StepMoves, OpFields DEF OpFits, InFlight
<1>2. CASE UNCHANGED <<carts, orders, menu>>
  BY <1>2 DEF CartSteps
<1>3. ASSUME NEW items, SetItems(requests[c].op.session, items),
             requests[c].pc = "mutate", UNCHANGED <<orders, menu>>
      PROVE  CartSteps(c)
  BY <1>1, <1>3 DEF SetItems, CartSteps, TypeOK
<1>4. CASE AddItem(c)
  BY <1>1, <1>2, <1>4 DEF AddItem, CartSteps, TypeOK
<1>5. CASE CreateOrder(c)
  <2>1. CASE ~Place(c)
    BY <1>2, <1>5, <2>1 DEF CreateOrder
  <2>2. CASE Place(c)
    <3>1. requests'[c].pc \in Committed
      BY <2>2 DEF Place, TypeOK, RequestState
    <3>2. QED
      BY <1>1, <1>5, <2>2, <3>1 DEF CreateOrder, Place, CartSteps, TypeOK
  <2>3. QED
    BY <2>1, <2>2
<1>6. QED
  BY <1>2, <1>3, <1>4, <1>5 DEF Step, InsertCart, RereadCart, LockCart,
     UpdateQuantity, RemoveItem, ClearCart, LockForCheckout, ReadItems

-----------------------------------------------------------------------------
(* The parts of the inductive invariant. *)

(* The inductive invariant holds of the empty tables.                       *)
LEMMA IInvInit == Init => IInv
<1> SUFFICES ASSUME Init PROVE IInv
  OBVIOUS
<1>1. TypeOK
  BY TypeInit
<1>2. OpFits /\ OrderFresh /\ LockHeld /\ ReadCurrent
  BY DEF Init, OpFits, OrderFresh, LockHeld, ReadCurrent
<1>3. RowsFit
  BY DEF Init, RowsFit, NoCart
<1>4. DeletedGone
  BY DEF Init, DeletedGone, NoCart, NoItems
<1>5. QED
  BY <1>1, <1>2, <1>3, <1>4 DEF IInv

(* Every step leaves each request inside the operation it asks for.         *)
LEMMA OpFitsStep == TypeOK /\ OpFits /\ [Next]_vars => OpFits'
<1> SUFFICES ASSUME TypeOK, OpFits, [Next]_vars PROVE OpFits'
  OBVIOUS
<1>1. ASSUME NEW c \in Requests, Step(c) PROVE OpFits'
  BY <1>1, StepMoves DEF OpFits, After, InFlight
<1>2. ASSUME NEW c \in Requests, NEW op \in Op, Arrive(c, op) PROVE OpFits'
  <2>1. /\ requests'[c].pc = FirstStep(op) /\ requests'[c].op = op
        /\ \A d \in Requests \ {c} : requests'[d] = requests[d]
    BY <1>2 DEF Arrive, TypeOK, RequestState
  <2>2. /\ FirstStep(op) \in {"insert", "reread"} => op.kind = "add"
        /\ FirstStep(op) \in {"checkout", "read", "order"} => op.kind = "checkout"
    BY OpFields DEF FirstStep
  <2>3. QED
    BY <2>1, <2>2 DEF OpFits
<1>3. CASE WorkerRestart
  <2>1. \A c \in Requests : /\ requests'[c].op = requests[c].op
                            /\ requests'[c].pc \in {requests[c].pc, "lost"}
                            /\ requests[c].pc = "idle" => requests'[c].pc = "idle"
    BY <1>3 DEF WorkerRestart, TypeOK, RequestState, InFlight
  <2>2. QED
    BY <2>1 DEF OpFits
<1>4. CASE UNCHANGED requests
  BY <1>4 DEF OpFits
<1>5. QED
  BY <1>1, <1>2, <1>3, <1>4 DEF Next, UpdateProduct, DeleteProduct, vars

(* Whatever is not a step of a request leaves orders and status alone.      *)
Aside ==
  /\ UNCHANGED orders
  /\ \A s \in Sessions : /\ carts'[s].status = carts[s].status
                         /\ carts'[s].order = carts[s].order
                         /\ carts'[s].key = carts[s].key
                         /\ carts[s].items = NoItems => carts'[s].items = NoItems
  /\ \A c \in Requests :
       /\ requests[c].pc \in Committed => requests'[c].pc \in Committed
       /\ requests'[c].pc \in {"mutate", "read", "order"} =>
            requests'[c] = requests[c] /\ UNCHANGED lock

(* Arrivals, menu edits and restarts are such steps.                        *)
LEMMA AsideSteps ==
  ASSUME TypeOK, [Next]_vars, ~ \E c \in Requests : Step(c)
  PROVE  Aside
<1>1. ASSUME NEW c \in Requests, NEW op \in Op, Arrive(c, op) PROVE Aside
  <2>1. /\ requests[c].pc = "idle" /\ requests'[c].pc = FirstStep(op)
        /\ \A d \in Requests \ {c} : requests'[d] = requests[d]
        /\ UNCHANGED <<carts, orders, lock>>
    BY <1>1 DEF Arrive, TypeOK, RequestState
  <2>2. FirstStep(op) \notin {"mutate", "read", "order"}
    BY OpFields DEF FirstStep
  <2>3. QED
    BY <2>1, <2>2 DEF Aside
<1>2. CASE WorkerRestart
  <2>1. \A c \in Requests : IF requests[c].pc \in InFlight THEN requests'[c].pc = "lost"
                                                           ELSE requests'[c] = requests[c]
    BY <1>2 DEF WorkerRestart, TypeOK, RequestState
  <2>2. QED
    BY <1>2, <2>1 DEF WorkerRestart, Aside, InFlight
<1>3. ASSUME NEW p \in Products, DeleteProduct(p) PROVE Aside
  <2>1. ASSUME NEW s \in Sessions
        PROVE  /\ carts'[s].status = carts[s].status
               /\ carts'[s].order = carts[s].order
               /\ carts'[s].key = carts[s].key
               /\ carts'[s].items = [carts[s].items EXCEPT ![p] = NoItem]
    BY <1>3 DEF DeleteProduct, TypeOK, CartRow
  <2>2. [NoItems EXCEPT ![p] = NoItem] = NoItems
    BY DEF NoItems
  <2>3. QED
    BY <1>3, <2>1, <2>2 DEF DeleteProduct, Aside
<1>4. CASE UNCHANGED <<carts, orders, requests, lock>>
  BY <1>4 DEF Aside
<1>5. QED
  BY <1>1, <1>2, <1>3, <1>4 DEF Next, UpdateProduct, vars

(* A request that works on a cart finds it open, under its lock.            *)
LEMMA OwnCart ==
  ASSUME IInv, NEW c \in Requests, requests[c].pc \in {"mutate", "read", "order"}
  PROVE  LET s == requests[c].op.session IN
         /\ s \in Sessions /\ carts[s] \in CartRow /\ lock[s] = c
         /\ carts[s].status # "checked_out" /\ carts[s].order = None
         /\ requests[c].op.kind # "add" => carts[s].status = "active"
<1> DEFINE s == requests[c].op.session
<1>1. s \in Sessions
  BY OpFields DEF IInv, OpFits
<1>2. carts[s] \in CartRow
  BY <1>1 DEF IInv, TypeOK
<1>3. QED
  BY <1>1, <1>2 DEF IInv, LockHeld, RowsFit, Cart, CartRow

(* What happens to the acting request's own cart.                           *)
CartMoves(c) ==
  LET s == requests[c].op.session IN
  \/ carts'[s] = carts[s] /\ UNCHANGED orders
  \/ /\ requests[c].pc = "mutate" /\ UNCHANGED orders
     /\ carts'[s].status = "active" /\ carts'[s].order = carts[s].order
     /\ carts'[s].key = carts[s].key
  \/ requests[c].pc = "order" /\ Place(c)

(* Every step of a request is one of the three.                             *)
LEMMA StepOwnCart ==
  ASSUME IInv, NEW c \in Requests, Step(c)
  PROVE  CartMoves(c)
<1> DEFINE s == requests[c].op.session
<1>1. CASE UNCHANGED <<carts, orders>>
  BY <1>1 DEF CartMoves
<1>2. ASSUME NEW items, SetItems(s, items), requests[c].pc = "mutate",
             requests[c].op.kind # "add", UNCHANGED orders
      PROVE  CartMoves(c)
  <2>1. s \in Sessions /\ carts[s] \in CartRow /\ carts[s].status = "active"
    BY <1>2, OwnCart
  <2>2. carts' = [carts EXCEPT ![s] = [@ EXCEPT !.items = items]]
    BY <1>2 DEF SetItems
  <2>3. /\ carts'[s].status = "active" /\ carts'[s].order = carts[s].order
        /\ carts'[s].key = carts[s].key
    BY <2>1, <2>2 DEF IInv, TypeOK, CartRow
  <2>4. QED
    BY <1>2, <2>3 DEF CartMoves
<1>3. CASE AddItem(c) /\ ~UNCHANGED carts
  <2>1. /\ s \in Sessions /\ carts[s] \in CartRow /\ carts[s].status # "checked_out"
    BY <1>3, OwnCart DEF AddItem
  <2> DEFINE row == [carts[s] EXCEPT
                       !.status = IF carts[s].status = "none" THEN "active"
                                                              ELSE carts[s].status,
                       !.items = Upsert(carts[s].items, c, requests[c].op)]
  <2>2. carts' = [carts EXCEPT ![s] = row]
    BY <1>3 DEF AddItem, Cart
  <2>3. /\ row.status = IF carts[s].status = "none" THEN "active" ELSE carts[s].status
        /\ row.order = carts[s].order /\ row.key = carts[s].key
    BY <2>1 DEF CartRow
  <2>4. carts'[s] = row
    BY <2>1, <2>2 DEF IInv, TypeOK
  <2>5. /\ carts'[s].status = IF carts[s].status = "none" THEN "active"
                                                        ELSE carts[s].status
        /\ carts'[s].order = carts[s].order /\ carts'[s].key = carts[s].key
    BY <2>3, <2>4
  <2>6. carts'[s].status = "active"
    BY <2>1, <2>5 DEF CartRow
  <2>7. QED
    BY <1>3, <2>5, <2>6 DEF AddItem, CartMoves
<1>4. CASE CreateOrder(c)
  BY <1>1, <1>4 DEF CreateOrder, CartMoves
<1>5. QED
  BY <1>1, <1>2, <1>3, <1>4 DEF Step, InsertCart, RereadCart, LockCart, AddItem,
     UpdateQuantity, RemoveItem, ClearCart, LockForCheckout, ReadItems

(* The commit of a checkout: the cart row and its order, together.          *)
LEMMA PlaceEffect ==
  ASSUME IInv, NEW c \in Requests, Place(c), requests[c].pc = "order"
  PROVE  LET s == requests[c].op.session IN
         /\ carts'[s] = [carts[s] EXCEPT !.status = "checked_out",
                           !.key = requests[c].op.key, !.order = c]
         /\ carts'[s].status = "checked_out" /\ carts'[s].order = c
         /\ carts'[s].key = requests[c].op.key
         /\ orders'[c] = requests[c].read /\ orders'[c] # None
         /\ orders[c] = None
<1>1. requests[c].op.session \in Sessions /\ carts[requests[c].op.session] \in CartRow
  BY OwnCart
<1>2. requests[c].read \in [Products -> Item]
  BY DEF IInv, TypeOK, RequestState
<1>3. QED
  BY <1>1, <1>2, NullAssumption DEF Place, IInv, TypeOK, CartRow, OrderFresh

(* A cart stays checked out exactly as long as it has an order.             *)
LEMMA RowsFitStep == IInv /\ [Next]_vars => RowsFit'
<1> SUFFICES ASSUME IInv, [Next]_vars, NEW s \in Sessions
             PROVE  /\ carts'[s].status = "checked_out" <=> carts'[s].order # None
                    /\ carts'[s].order # None => orders'[carts'[s].order] # None
                    /\ carts'[s].status = "none" => carts'[s].items = NoItems
  BY DEF RowsFit
<1>1. /\ carts[s].status = "checked_out" <=> carts[s].order # None
      /\ carts[s].order # None => orders[carts[s].order] # None
      /\ carts[s].status = "none" => carts[s].items = NoItems
      /\ carts[s].order \in Requests \cup {None}
  BY DEF IInv, RowsFit, TypeOK, CartRow
<1>2. ASSUME NEW c \in Requests, Step(c), s # requests[c].op.session
      PROVE  /\ carts'[s] = carts[s]
             /\ \A d \in Requests : orders[d] # None => orders'[d] # None
  <2>1. CartSteps(c) /\ CartMoves(c)
    BY <1>2, StepCarts, StepOwnCart DEF IInv
  <2>2. carts'[s] = carts[s]
    BY <1>2, <2>1 DEF CartSteps
  <2>3. ASSUME NEW d \in Requests, orders[d] # None PROVE orders'[d] # None
    BY <2>1, <2>3, PlaceEffect DEF CartMoves, CartSteps
  <2>4. QED
    BY <2>2, <2>3
<1>3. ASSUME NEW c \in Requests, Step(c), s = requests[c].op.session
      PROVE  /\ carts'[s].status = "checked_out" <=> carts'[s].order # None
             /\ carts'[s].order # None => orders'[carts'[s].order] # None
             /\ carts'[s].status = "none" => carts'[s].items = NoItems
  <2>1. CASE carts'[s] = carts[s] /\ UNCHANGED orders
    BY <1>1, <2>1
  <2>2. CASE /\ requests[c].pc = "mutate"
             /\ carts'[s].status = "active" /\ carts'[s].order = carts[s].order
    <3>1. carts[s].order = None
      BY <1>3, <2>2, OwnCart
    <3>2. QED
      BY <2>2, <3>1
  <2>3. CASE requests[c].pc = "order" /\ Place(c)
    <3>1. carts'[s].status = "checked_out" /\ carts'[s].order = c /\ orders'[c] # None
      BY <1>3, <2>3, PlaceEffect
    <3>2. QED
      BY <3>1, ConstantsAssumption
  <2>4. QED
    BY <1>3, <2>1, <2>2, <2>3, StepOwnCart DEF CartMoves
<1>4. CASE ~ \E c \in Requests : Step(c)
  BY <1>1, <1>4, AsideSteps DEF Aside, IInv
<1>5. QED
  BY <1>1, <1>2, <1>3, <1>4

(* No order is written before its checkout has committed.                   *)
LEMMA OrderFreshStep == IInv /\ [Next]_vars => OrderFresh'
<1> SUFFICES ASSUME IInv, [Next]_vars, NEW d \in Requests, orders'[d] # None
             PROVE  requests'[d].pc \in Committed
  BY DEF OrderFresh
<1>1. orders[d] # None => requests[d].pc \in Committed
  BY DEF IInv, OrderFresh
<1>2. ASSUME NEW c \in Requests, Step(c) PROVE requests'[d].pc \in Committed
  BY <1>1, <1>2, StepMoves, StepCarts DEF CartSteps, IInv, InFlight
<1>3. CASE ~ \E c \in Requests : Step(c)
  BY <1>1, <1>3, AsideSteps DEF Aside, IInv
<1>4. QED
  BY <1>2, <1>3

(* While a request works on a cart, no step of another touches it.          *)
LEMMA Undisturbed ==
  ASSUME IInv, NEW c \in Requests, Step(c), NEW d \in Requests \ {c},
         requests[d].pc \in {"mutate", "read", "order"}
  PROVE  LET s == requests[d].op.session IN
         /\ requests'[d] = requests[d] /\ lock'[s] = d /\ carts'[s] = carts[s]
<1> DEFINE s == requests[d].op.session
<1>1. s \in Sessions /\ lock[s] = d
  BY OwnCart
<1>2. requests'[d] = requests[d] /\ LockSteps(c) /\ CartSteps(c)
  BY StepMoves, StepLocks, StepCarts DEF IInv
<1>3. lock'[s] = d
  BY <1>1, <1>2, ConstantsAssumption DEF LockSteps
<1>4. carts'[s] = carts[s]
  <2>1. CASE requests[c].op.session = s
    <3>1. requests[c].pc \notin {"mutate", "order"}
      BY <1>1, <2>1, OwnCart
    <3>2. QED
      BY <1>2, <3>1 DEF CartSteps
  <2>2. CASE requests[c].op.session # s
    BY <1>1, <1>2, <2>2 DEF CartSteps
  <2>3. QED
    BY <2>1, <2>2
<1>5. QED
  BY <1>2, <1>3, <1>4

(* Whoever works on a cart goes on holding its row, and the cart stays open.*)
LEMMA LockHeldStep == IInv /\ [Next]_vars => LockHeld'
<1> SUFFICES ASSUME IInv, [Next]_vars, NEW d \in Requests,
                    requests'[d].pc \in {"mutate", "read", "order"}
             PROVE  LET s == requests'[d].op.session IN
                    /\ lock'[s] = d
                    /\ carts'[s].status = "none" =>
                         requests'[d].pc = "mutate" /\ requests'[d].op.kind = "add"
                    /\ carts'[s].status # "checked_out"
  BY DEF LockHeld, Cart
<1> DEFINE s == requests'[d].op.session
<1>1. requests[d].pc \in {"mutate", "read", "order"} =>
        LET t == requests[d].op.session IN
        /\ t \in Sessions /\ lock[t] = d
        /\ carts[t].status = "none" =>
             requests[d].pc = "mutate" /\ requests[d].op.kind = "add"
        /\ carts[t].status # "checked_out"
  BY OwnCart DEF IInv, LockHeld, Cart
<1>2. ASSUME NEW c \in Requests \ {d}, Step(c)
      PROVE  /\ lock'[s] = d
             /\ carts'[s].status = "none" =>
                  requests'[d].pc = "mutate" /\ requests'[d].op.kind = "add"
             /\ carts'[s].status # "checked_out"
  <2>1. requests'[d] = requests[d]
    BY <1>2, StepMoves DEF IInv
  <2>2. QED
    BY <1>1, <1>2, <2>1, Undisturbed
<1>3. CASE Step(d)
  <2>1. /\ requests'[d].op = requests[d].op
        /\ requests'[d].pc \in After[requests[d].pc] /\ requests[d].pc \in InFlight
    BY <1>3, StepMoves DEF IInv
  <2>2. LockSteps(d) /\ CartSteps(d)
    BY <1>3, StepLocks, StepCarts DEF IInv
  <2>3. requests[d].pc \in {"insert", "lock", "checkout", "read"}
    BY <2>1 DEF After, InFlight
  <2>4. carts' = carts
    BY <2>2, <2>3 DEF CartSteps
  <2>5. CASE requests[d].pc = "read"
    <3>1. requests'[d].pc = "order"
      BY <2>1, <2>5 DEF After
    <3>2. QED
      BY <1>1, <2>1, <2>2, <2>4, <2>5, <3>1 DEF LockSteps
  <2>6. CASE requests[d].pc = "insert"
    <3>1. InsertCart(d) /\ requests'[d].pc = "mutate"
      BY <1>3, <2>1, <2>6 DEF Step, InsertCart, RereadCart, LockCart, AddItem,
         UpdateQuantity, RemoveItem, ClearCart, LockForCheckout, ReadItems, CreateOrder,
         After
    <3>2. Cart(d).status = "none"
      BY <3>1, GotoEffect DEF InsertCart, IInv
    <3>3. requests[d].op.kind = "add"
      BY <2>6 DEF IInv, OpFits
    <3>4. QED
      BY <2>1, <2>2, <2>4, <3>1, <3>2, <3>3 DEF LockSteps, Cart
  <2>7. CASE requests[d].pc \in {"lock", "checkout"}
    <3>1. LockCart(d) \/ LockForCheckout(d)
      BY <1>3, <2>7 DEF Step, InsertCart, RereadCart, LockCart, AddItem,
         UpdateQuantity, RemoveItem, ClearCart, LockForCheckout, ReadItems, CreateOrder
    <3>2. requests'[d].pc \in {"mutate", "read"}
      BY <2>1, <2>7 DEF After
    <3>3. Active(requests[d].op.session)
      <4>1. CASE LockCart(d)
        BY <3>2, <4>1, GotoEffect DEF LockCart, IInv
      <4>2. CASE LockForCheckout(d)
        <5>1. ~Goto(d, "refused")
          BY <3>2, GotoEffect DEF IInv
        <5>2. requests' # [requests EXCEPT ![d] = [@ EXCEPT !.pc = "done",
                             !.result = carts[requests[d].op.session].order]]
          BY <3>2 DEF IInv, TypeOK, RequestState
        <5>3. QED
          BY <4>2, <5>1, <5>2 DEF LockForCheckout
      <4>3. QED
        BY <3>1, <4>1, <4>2
    <3>4. QED
      BY <2>1, <2>2, <2>4, <3>2, <3>3 DEF LockSteps, Active
  <2>8. QED
    BY <2>3, <2>5, <2>6, <2>7
<1>4. CASE ~ \E c \in Requests : Step(c)
  <2>1. /\ requests'[d] = requests[d] /\ UNCHANGED lock
        /\ \A t \in Sessions : carts'[t].status = carts[t].status
    BY <1>4, AsideSteps DEF Aside, IInv
  <2>2. QED
    BY <1>1, <2>1
<1>5. QED
  BY <1>2, <1>3, <1>4

(* What is not a step of a request never revives a product, and takes from  *)
(* carts only products that are gone.                                       *)
LEMMA AsideMenu ==
  ASSUME TypeOK, [Next]_vars, ~ \E c \in Requests : Step(c), NEW p \in Products
  PROVE  /\ menu'[p].sale # "deleted" =>
              /\ menu[p].sale # "deleted"
              /\ \A s \in Sessions : carts'[s].items[p] = carts[s].items[p]
         /\ menu'[p].sale = "deleted" =>
              \/ \A s \in Sessions : carts'[s].items[p] = NoItem
              \/ /\ menu[p].sale = "deleted"
                 /\ \A s \in Sessions : carts'[s].items[p] = carts[s].items[p]
<1>1. CASE UNCHANGED <<carts, menu>>
  BY <1>1
<1>2. ASSUME NEW q \in Products, NEW sale \in {"on", "off"}, NEW price \in Prices,
             UpdateProduct(q, sale, price)
      PROVE  /\ UNCHANGED carts
             /\ menu'[p].sale = "deleted" <=> menu[p].sale = "deleted"
  BY <1>2 DEF UpdateProduct, TypeOK
<1>3. ASSUME NEW q \in Products, DeleteProduct(q)
      PROVE  /\ p # q => menu'[p] = menu[p]
             /\ p = q => menu'[p].sale = "deleted"
             /\ \A s \in Sessions :
                  carts'[s].items[p] = IF p = q THEN NoItem ELSE carts[s].items[p]
  <2>1. menu' = [menu EXCEPT ![q] = [menu[q] EXCEPT !.sale = "deleted"]]
    BY <1>3 DEF DeleteProduct
  <2>2. ASSUME NEW s \in Sessions
        PROVE  carts'[s].items[p] = IF p = q THEN NoItem ELSE carts[s].items[p]
    <3>1. carts[s] \in CartRow /\ carts[s].items \in [Products -> Item]
      BY DEF TypeOK, CartRow
    <3>2. carts'[s] = [carts[s] EXCEPT !.items = [carts[s].items EXCEPT ![q] = NoItem]]
      BY <1>3 DEF DeleteProduct
    <3>3. carts'[s].items = [carts[s].items EXCEPT ![q] = NoItem]
      BY <3>1, <3>2 DEF CartRow
    <3>4. QED
      BY <3>1, <3>3
  <2>3. QED
    BY <2>1, <2>2 DEF TypeOK
<1>4. CASE \E q \in Products :
            \E sale \in {"on", "off"}, price \in Prices : UpdateProduct(q, sale, price)
  <2>1. UNCHANGED carts /\ (menu'[p].sale = "deleted" <=> menu[p].sale = "deleted")
    BY <1>2, <1>4
  <2>2. QED
    BY <2>1
<1>5. CASE \E q \in Products : DeleteProduct(q)
  <2>1. PICK q \in Products : DeleteProduct(q)
    BY <1>5
  <2>2. CASE p = q
    BY <1>3, <2>1, <2>2
  <2>3. CASE p # q
    <3>1. menu'[p] = menu[p]
      BY <1>3, <2>1, <2>3
    <3>2. \A s \in Sessions : carts'[s].items[p] = carts[s].items[p]
      BY <1>3, <2>1, <2>3
    <3>3. QED
      BY <3>1, <3>2
  <2>4. QED
    BY <2>2, <2>3
<1>6. QED
  BY <1>1, <1>4, <1>5 DEF Next, Arrive, WorkerRestart, vars

(* No request puts into its cart a product that is gone.                    *)
LEMMA StepKeepsGone ==
  ASSUME IInv, NEW c \in Requests, Step(c), NEW p \in Products,
         menu[p].sale = "deleted"
  PROVE  carts'[requests[c].op.session].items[p] = NoItem
<1> DEFINE s == requests[c].op.session
           op == requests[c].op
<1>1. op \in Op /\ s \in Sessions
  BY StepMoves, OpFields DEF IInv, OpFits, InFlight
<1>2. /\ carts[s] \in CartRow /\ carts[s].items \in [Products -> Item]
      /\ carts[s].items[p] = NoItem
  BY <1>1 DEF IInv, TypeOK, CartRow, DeletedGone
<1>3. CASE UNCHANGED carts
  BY <1>2, <1>3
<1>4. ASSUME NEW items, SetItems(s, items), items[p] = NoItem
      PROVE  carts'[s].items[p] = NoItem
  <2>1. carts' = [carts EXCEPT ![s] = [carts[s] EXCEPT !.items = items]]
    BY <1>4 DEF SetItems
  <2>2. QED
    BY <1>1, <1>2, <1>4, <2>1 DEF IInv, TypeOK, CartRow
<1>5. CASE AddItem(c) /\ ~UNCHANGED carts
  <2> DEFINE items == Upsert(carts[s].items, c, op)
             row == [carts[s] EXCEPT
                       !.status = IF carts[s].status = "none" THEN "active"
                                                              ELSE carts[s].status,
                       !.items = items]
  <2>1. menu[op.product].sale = "on" /\ carts' = [carts EXCEPT ![s] = row]
    BY <1>5 DEF AddItem, Cart
  <2>2. items[p] = NoItem
    BY <1>2, <2>1 DEF Upsert
  <2>3. row.items = items
    BY <1>2 DEF CartRow
  <2>4. QED
    BY <1>1, <2>1, <2>2, <2>3 DEF IInv, TypeOK
<1>6. CASE UpdateQuantity(c) /\ ~UNCHANGED carts
  <2>1. PICK q \in Found(c) :
               SetItems(s, [Cart(c).items EXCEPT ![q].qty = op.qty])
    BY <1>6 DEF UpdateQuantity
  <2>2. carts[s].items[q] # NoItem
    <3>1. op.item \in Requests /\ carts[s].items[q].id = op.item
      BY <1>1, <1>6 DEF UpdateQuantity, Found, Cart, Op
    <3>2. NoItem.id = None
      BY DEF NoItem
    <3>3. QED
      BY <3>1, <3>2, ConstantsAssumption
  <2>3. QED
    BY <1>2, <1>4, <2>1, <2>2 DEF Cart
<1>7. CASE RemoveItem(c) /\ ~UNCHANGED carts
  <2>1. PICK q \in Found(c) : SetItems(s, [Cart(c).items EXCEPT ![q] = NoItem])
    BY <1>7 DEF RemoveItem
  <2>2. QED
    BY <1>2, <1>4, <2>1 DEF Cart, Found
<1>8. CASE ClearCart(c)
  BY <1>4, <1>8 DEF ClearCart, NoItems
<1>9. CASE CreateOrder(c) /\ Place(c)
  <2>1. carts'[s] = [carts[s] EXCEPT !.status = "checked_out",
                                     !.key = requests[c].op.key, !.order = c]
    BY <1>9, PlaceEffect DEF CreateOrder
  <2>2. carts'[s].items = carts[s].items
    BY <1>2, <2>1 DEF CartRow
  <2>3. QED
    BY <1>2, <2>2
<1>10. QED
  BY <1>3, <1>5, <1>6, <1>7, <1>8, <1>9 DEF Step, InsertCart, RereadCart, LockCart,
     LockForCheckout, ReadItems, CreateOrder

(* No step leaves a product that is gone in a cart.                         *)
LEMMA DeletedGoneStep == IInv /\ [Next]_vars => DeletedGone'
<1> SUFFICES ASSUME IInv, [Next]_vars, NEW s \in Sessions, NEW p \in Products,
                    menu'[p].sale = "deleted"
             PROVE  carts'[s].items[p] = NoItem
  BY DEF DeletedGone
<1>1. menu[p].sale = "deleted" => carts[s].items[p] = NoItem
  BY DEF IInv, DeletedGone
<1>2. ASSUME NEW c \in Requests, Step(c) PROVE carts'[s].items[p] = NoItem
  BY <1>1, <1>2, StepCarts, StepKeepsGone DEF CartSteps, IInv
<1>3. CASE ~ \E c \in Requests : Step(c)
  BY <1>1, <1>3, AsideMenu DEF IInv
<1>4. QED
  BY <1>2, <1>3

(* What a checkout read stays what its cart holds.                          *)
LEMMA ReadCurrentStep == IInv /\ [Next]_vars => ReadCurrent'
<1> SUFFICES ASSUME IInv, [Next]_vars, NEW d \in Requests, requests'[d].pc = "order"
             PROVE  /\ InCart(requests'[d].read) # {}
                    /\ \A p \in Products : menu'[p].sale # "deleted" =>
                         requests'[d].read[p] = carts'[requests'[d].op.session].items[p]
  BY DEF ReadCurrent, Cart, InCart
<1>1. requests[d].pc = "order" =>
        /\ requests[d].op.session \in Sessions
        /\ InCart(requests[d].read) # {}
        /\ \A p \in Products : menu[p].sale # "deleted" =>
             requests[d].read[p] = carts[requests[d].op.session].items[p]
  BY OwnCart DEF IInv, ReadCurrent, Cart
<1>2. ASSUME NEW c \in Requests \ {d}, Step(c)
      PROVE  /\ requests'[d] = requests[d] /\ menu' = menu
             /\ carts'[requests[d].op.session] = carts[requests[d].op.session]
  <2>1. requests'[d] = requests[d] /\ menu' = menu
    BY <1>2, StepMoves, StepCarts DEF IInv, CartSteps
  <2>2. QED
    BY <1>2, <2>1, Undisturbed
<1>3. CASE Step(d)
  <2>1. requests[d].pc = "read"
    BY <1>3, StepMoves DEF IInv, After, InFlight
  <2>2. ReadItems(d)
    BY <1>3, <2>1 DEF Step, InsertCart, RereadCart, LockCart, AddItem,
       UpdateQuantity, RemoveItem, ClearCart, LockForCheckout, CreateOrder
  <2>3. ~EndTransaction(d, "refused")
    BY EndTransactionEffect DEF IInv
  <2> DEFINE row == [requests[d] EXCEPT !.pc = "order", !.read = Cart(d).items]
  <2>4. /\ requests' = [requests EXCEPT ![d] = row]
        /\ InCart(Cart(d).items) # {} /\ carts' = carts
    BY <2>2, <2>3 DEF ReadItems
  <2>5. row.read = Cart(d).items /\ row.op = requests[d].op
    BY DEF IInv, TypeOK, RequestState
  <2>6. requests'[d] = row
    BY <2>4 DEF IInv, TypeOK
  <2>7. QED
    BY <2>4, <2>5, <2>6 DEF Cart
<1>4. CASE ~ \E c \in Requests : Step(c)
  <2>1. requests'[d] = requests[d]
    BY <1>4, AsideSteps DEF Aside, IInv
  <2>2. QED
    BY <1>1, <1>4, <2>1, AsideMenu DEF IInv
<1>5. QED
  BY <1>1, <1>2, <1>3, <1>4

-----------------------------------------------------------------------------
(* The theorems about every behaviour. *)

(* The invariant is inductive. *)
LEMMA IInvStep == IInv /\ [Next]_vars => IInv'
BY TypeStep, OpFitsStep, RowsFitStep, OrderFreshStep, LockHeldStep, DeletedGoneStep,
   ReadCurrentStep DEF IInv

(* Whoever works on a cart holds its row lock, a cart is checked out        *)
(* exactly when it has its order, what a checkout has read is what the cart *)
(* still holds, and no cart keeps a deleted product: the reasons why a      *)
(* checkout (modules/cart/service.py) orders what it has read.              *)
THEOREM Invariance == Spec => []IInv
<1>1. Init => IInv
  BY IInvInit
<1>2. IInv /\ [Next]_vars => IInv'
  BY IInvStep
<1>3. QED
  BY <1>1, <1>2, PTL DEF Spec

(* The tables carts, cart_items and orders, the menu, the requests and the  *)
(* row locks keep their types, whatever requests the guests send.           *)
THEOREM TypeInvariant == Spec => []TypeOK
<1>1. IInv => TypeOK
  BY DEF IInv
<1>2. QED
  BY <1>1, Invariance, PTL

-----------------------------------------------------------------------------
(* A key stands for one order. *)

(* What KeyInv rests on: how a step treats the key of each cart.            *)
KeyMoves(s) ==
  \/ carts'[s].key = carts[s].key /\ carts'[s].order = carts[s].order
     /\ (carts[s].status = "checked_out" => carts'[s].status = "checked_out")
  \/ /\ carts[s].status # "checked_out" /\ carts'[s].status = "checked_out"
     /\ \E c \in Requests :
          /\ requests[c].pc = "order" /\ Place(c) /\ ~KeyTaken(c)
          /\ s = requests[c].op.session /\ carts'[s].key = requests[c].op.key
          /\ carts'[s].order = c

(* A cart is given its key with its order, by a checkout that found no cart *)
(* with this key, and keeps both.                                           *)
LEMMA KeySteps ==
  ASSUME IInv, [Next]_vars, NEW s \in Sessions
  PROVE  KeyMoves(s)
<1>1. ASSUME NEW c \in Requests, Step(c), s # requests[c].op.session
      PROVE  KeyMoves(s)
  BY <1>1, StepCarts DEF CartSteps, KeyMoves, IInv
<1>2. ASSUME NEW c \in Requests, Step(c), s = requests[c].op.session
      PROVE  KeyMoves(s)
  <2>1. CASE carts'[s] = carts[s]
    BY <2>1 DEF KeyMoves
  <2>2. CASE /\ requests[c].pc = "mutate" /\ carts'[s].order = carts[s].order
             /\ carts'[s].key = carts[s].key
    <3>1. carts[s].status # "checked_out"
      BY <1>2, <2>2, OwnCart
    <3>2. QED
      BY <2>2, <3>1 DEF KeyMoves
  <2>3. CASE requests[c].pc = "order" /\ Place(c) /\ carts'[s] # carts[s]
    <3>1. CreateOrder(c)
      BY <1>2, <2>3 DEF Step, InsertCart, RereadCart, LockCart, AddItem,
         UpdateQuantity, RemoveItem, ClearCart, LockForCheckout, ReadItems
    <3>2. ~KeyTaken(c)
      BY <2>3, <3>1 DEF CreateOrder
    <3>3. carts[s].status # "checked_out"
      BY <1>2, <2>3, OwnCart
    <3>4. /\ carts'[s].status = "checked_out" /\ carts'[s].order = c
          /\ carts'[s].key = requests[c].op.key
      BY <1>2, <2>3, PlaceEffect
    <3>5. QED
      BY <1>2, <2>3, <3>2, <3>3, <3>4 DEF KeyMoves
  <2>4. QED
    BY <1>2, <2>1, <2>2, <2>3, StepOwnCart DEF CartMoves
<1>3. CASE ~ \E c \in Requests : Step(c)
  BY <1>3, AsideSteps DEF Aside, KeyMoves, IInv
<1>4. QED
  BY <1>1, <1>2, <1>3

(* The unique index: a second cart is never given a key that stands.        *)
LEMMA KeysApart ==
  ASSUME IInv, KeyInv, [Next]_vars, NEW s \in Sessions, carts'[s].key # None
  PROVE  /\ carts'[s].status = "checked_out"
         /\ \A t \in Sessions \ {s} : carts'[t].key # carts'[s].key
<1>1. \A t \in Sessions : KeyMoves(t)
  BY KeySteps
<1>2. carts'[s].status = "checked_out"
  BY <1>1 DEF KeyInv, KeyMoves
<1>3. ASSUME NEW t \in Sessions \ {s}, carts'[t].key = carts'[s].key PROVE FALSE
  <2>1. ASSUME NEW a \in Sessions, NEW b \in Sessions, a # b,
               carts'[a].key = carts'[b].key, carts'[a].key # None
        PROVE  carts'[a].key = carts[a].key
    <3>1. KeyMoves(a)
      BY KeySteps
    <3>2. CASE carts'[a].key # carts[a].key
      <4>1. PICK c \in Requests :
              /\ requests[c].pc = "order" /\ Place(c) /\ ~KeyTaken(c)
              /\ a = requests[c].op.session /\ carts'[a].key = requests[c].op.key
        BY <3>1, <3>2 DEF KeyMoves
      <4>2. carts'[b] = carts[b]
        BY <2>1, <4>1 DEF Place, IInv, TypeOK
      <4>3. QED
        BY <2>1, <4>1, <4>2 DEF KeyTaken
    <3>3. QED
      BY <3>2
  <2>2. carts[s].key = carts'[s].key /\ carts[t].key = carts'[t].key
    BY <1>3, <2>1
  <2>3. QED
    BY <1>3, <2>2 DEF KeyInv
<1>4. QED
  BY <1>2, <1>3

(* A request becomes answered by its own order or by the one that stands    *)
(* under its key (Replay).                                                  *)
LEMMA NewAnswer ==
  ASSUME IInv, [Next]_vars, NEW c \in Requests, Answered(c)', requests'[c] # requests[c]
  PROVE  \E s \in Sessions : /\ carts'[s].key = requests'[c].op.key
                             /\ carts'[s].order = requests'[c].result
<1>1. Step(c)
  <2>1. ASSUME NEW d \in Requests, Step(d) PROVE c = d
    BY <2>1, StepMoves DEF IInv
  <2>2. ASSUME NEW d \in Requests, NEW op \in Op, Arrive(d, op) PROVE FALSE
    <3>1. /\ requests'[d].pc = FirstStep(op) /\ requests'[d].op = op
          /\ \A e \in Requests \ {d} : requests'[e] = requests[e]
      BY <2>2 DEF Arrive, IInv, TypeOK, RequestState
    <3>2. op.kind = "checkout" /\ FirstStep(op) = "done"
      BY <3>1 DEF Answered
    <3>3. QED
      BY <3>2, OpFields DEF FirstStep
  <2>3. CASE WorkerRestart
    <3>1. requests'[c].pc = "lost"
      BY <2>3 DEF WorkerRestart, IInv, TypeOK, RequestState
    <3>2. QED
      BY <3>1 DEF Answered
  <2>4. CASE UNCHANGED requests
    BY <2>4
  <2>5. QED
    BY <2>1, <2>2, <2>3, <2>4 DEF Next, UpdateProduct, DeleteProduct, vars
<1>2. /\ requests'[c].op = requests[c].op /\ requests[c].pc \in InFlight
      /\ requests'[c].pc \in After[requests[c].pc]
  BY <1>1, StepMoves DEF IInv
<1>3. requests[c].op.kind = "checkout" /\ requests[c].op.key # None
  BY <1>2 DEF Answered
<1>4. requests[c].op \in Op /\ requests[c].op.session \in Sessions
  BY <1>2, OpFields DEF IInv, OpFits, InFlight
<1> DEFINE s == requests[c].op.session
<1>5. CASE LockForCheckout(c)
  <2>1. ASSUME NEW pc \in {"read", "refused"}, Goto(c, pc) PROVE FALSE
    BY <2>1, GotoEffect DEF Answered, IInv
  <2> DEFINE row == [requests[c] EXCEPT !.pc = "done", !.result = carts[s].order]
  <2>2. Replay(c) /\ requests' = [requests EXCEPT ![c] = row] /\ carts' = carts
    BY <1>5, <2>1 DEF LockForCheckout
  <2>3. row.result = carts[s].order
    BY DEF IInv, TypeOK, RequestState
  <2>4. requests'[c].result = carts[s].order
    BY <2>2, <2>3 DEF IInv, TypeOK
  <2>5. QED
    BY <1>2, <1>4, <2>2, <2>4 DEF Replay, Cart
<1>6. CASE CreateOrder(c)
  <2>1. ~EndTransaction(c, "refused") /\ ~EndTransaction(c, "server_error")
    BY EndTransactionEffect DEF Answered, IInv
  <2>2. Place(c) /\ requests[c].pc = "order"
    BY <1>6, <2>1 DEF CreateOrder
  <2>3. carts'[s].key = requests[c].op.key /\ carts'[s].order = c
    BY <2>2, PlaceEffect
  <2>8. PICK pc \in Committed :
          requests' = [requests EXCEPT ![c] = [@ EXCEPT !.pc = pc, !.result = c]]
    BY <2>2 DEF Place
  <2> DEFINE row == [requests[c] EXCEPT !.pc = pc, !.result = c]
  <2>4. requests' = [requests EXCEPT ![c] = row]
    BY <2>8
  <2>5. row.result = c
    BY DEF IInv, TypeOK, RequestState
  <2>6. requests'[c].result = c
    BY <2>4, <2>5 DEF IInv, TypeOK
  <2>7. QED
    BY <1>2, <1>4, <2>3, <2>6
<1>7. requests[c].pc \notin {"insert", "reread", "lock", "read"}
  BY <1>2 DEF Answered, After
<1>8. QED
  BY <1>1, <1>3, <1>5, <1>6, <1>7 DEF Step, InsertCart, RereadCart, LockCart, AddItem,
     UpdateQuantity, RemoveItem, ClearCart, ReadItems

(* KeyInv is inductive together with IInv.                                  *)
LEMMA KeyInvStep == IInv /\ KeyInv /\ [Next]_vars => KeyInv'
<1> SUFFICES ASSUME IInv, KeyInv, [Next]_vars PROVE KeyInv'
  OBVIOUS
<1>1. ASSUME NEW c \in Requests, Answered(c)'
      PROVE  \E s \in Sessions : /\ carts'[s].key = requests'[c].op.key
                                 /\ carts'[s].order = requests'[c].result
  <2>1. CASE requests'[c] = requests[c]
    <3>1. Answered(c)
      BY <1>1, <2>1 DEF Answered
    <3>2. PICK s \in Sessions : /\ carts[s].key = requests[c].op.key
                                /\ carts[s].order = requests[c].result
      BY <3>1 DEF KeyInv
    <3>3. carts[s].status = "checked_out"
      BY <3>1, <3>2 DEF KeyInv, Answered
    <3>4. carts'[s].key = carts[s].key /\ carts'[s].order = carts[s].order
      BY <3>3, KeySteps DEF KeyMoves
    <3>5. QED
      BY <2>1, <3>2, <3>4
  <2>2. CASE requests'[c] # requests[c]
    BY <1>1, <2>2, NewAnswer
  <2>3. QED
    BY <2>1, <2>2
<1>2. QED
  BY <1>1, KeysApart DEF KeyInv

(* Checkouts accepted under one idempotency key were given one order,       *)
(* whatever carts they named and however they overlapped.                   *)
THEOREM OneOrderPerKeyHolds == Spec => []OneOrderPerKey
<1>1. Init => KeyInv
  BY DEF Init, KeyInv, Answered, NoCart
<1>2. IInv /\ KeyInv /\ [Next]_vars => KeyInv'
  BY KeyInvStep
<1>3. KeyInv => OneOrderPerKey
  BY DEF KeyInv, OneOrderPerKey, Answered
<1>4. QED
  BY <1>1, <1>2, <1>3, Invariance, PTL DEF Spec

-----------------------------------------------------------------------------
(* What was added is in the cart. *)

(* The units of one more request. *)
LEMMA UnitsGrow ==
  ASSUME NEW S, IsFiniteSet(S), NEW c, NEW n \in Nat, \A u \in S : u[1] # c
  PROVE  /\ IsFiniteSet(S \cup ({c} \X (1..n)))
         /\ Cardinality(S \cup ({c} \X (1..n))) = Cardinality(S) + n
<1> DEFINE T == {c} \X (1..n)
           f == [i \in 1..n |-> <<c, i>>]
<1>1. f \in Bijection(1..n, T)
  <2>1. f \in [1..n -> T]
    OBVIOUS
  <2>2. \A i, j \in 1..n : f[i] = f[j] => i = j
    OBVIOUS
  <2>3. \A t \in T : \E i \in 1..n : f[i] = t
    OBVIOUS
  <2>4. QED
    BY <2>1, <2>2, <2>3 DEF Bijection, Injection, Surjection, IsInjective
<1>2. ExistsBijection(1..n, T)
  BY <1>1 DEF ExistsBijection
<1>3. IsFiniteSet(T) /\ Cardinality(T) = n
  BY <1>2, FS_NatBijection, FS_CountingElements
<1>4. S \cap T = {}
  OBVIOUS
<1>5. Cardinality(S) \in Nat
  BY FS_CardinalityType
<1> HIDE DEF T
<1>6. /\ IsFiniteSet(S \cup T)
      /\ Cardinality(S \cup T) = Cardinality(S) + Cardinality(T) - Cardinality(S \cap T)
  BY <1>3, FS_Union
<1>7. Cardinality(S \cap T) = 0
  BY <1>4, FS_EmptySet
<1>8. IsFiniteSet(S \cup T) /\ Cardinality(S \cup T) = Cardinality(S) + n
  BY <1>3, <1>5, <1>6, <1>7
<1>9. QED
  BY <1>8 DEF T

(* A request asks for one operation and, once over, stays over.            *)
OpUnset == \A c \in Requests : requests[c].pc = "idle" => requests[c].op = None

LEMMA RequestKept ==
  ASSUME IInv, OpUnset, [Next]_vars, NEW c \in Requests
  PROVE  /\ requests[c].op # None => requests'[c].op = requests[c].op
         /\ requests[c].pc \in Committed => requests'[c] = requests[c]
         /\ requests'[c].pc = "idle" => requests'[c] = requests[c]
<1>1. ASSUME NEW d \in Requests, Step(d)
      PROVE  /\ requests'[c].op = requests[c].op
             /\ requests[c].pc \in Committed => requests'[c] = requests[c]
             /\ requests'[c].pc = "idle" => requests'[c] = requests[c]
  <2>1. CASE c = d
    BY <1>1, <2>1, StepMoves DEF IInv, InFlight, After
  <2>2. CASE c # d
    BY <1>1, <2>2, StepMoves DEF IInv
  <2>3. QED
    BY <2>1, <2>2
<1>2. ASSUME NEW d \in Requests, NEW op \in Op, Arrive(d, op)
      PROVE  \/ requests'[c] = requests[c]
             \/ /\ requests[c].pc = "idle" /\ requests[c].op = None
                /\ requests'[c].pc # "idle"
  <2>1. FirstStep(op) # "idle"
    BY OpFields DEF FirstStep
  <2>2. QED
    BY <1>2, <2>1 DEF Arrive, IInv, TypeOK, RequestState, OpUnset
<1>3. CASE WorkerRestart
  <2>1. \/ requests'[c] = requests[c]
        \/ /\ requests[c].pc \in InFlight /\ requests'[c].pc = "lost"
           /\ requests'[c].op = requests[c].op
    BY <1>3 DEF WorkerRestart, IInv, TypeOK, RequestState
  <2>2. QED
    BY <2>1 DEF InFlight
<1>4. CASE requests' = requests
  BY <1>4
<1>5. QED
  BY <1>1, <1>2, <1>3, <1>4 DEF Next, UpdateProduct, DeleteProduct, vars

(* Who has added stays with what it asked for, and no one else       *)
(* counts but a request that adds in this step.                            *)
LEMMA AddedStep ==
  ASSUME IInv, OpUnset, [Next]_vars, NEW s \in Sessions, NEW p \in Products,
         NEW c \in Requests
  PROVE  /\ c \in AddedTo(s, p) => c \in AddedTo(s, p)' /\ requests'[c].op = requests[c].op
         /\ c \in AddedTo(s, p)' /\ c \notin AddedTo(s, p) =>
              /\ AddItem(c) /\ requests'[c].pc \in Committed
              /\ requests[c].op.session = s /\ requests[c].op.product = p
<1>1. c \in AddedTo(s, p) => c \in AddedTo(s, p)' /\ requests'[c].op = requests[c].op
  BY RequestKept DEF AddedTo, Touches
<1>2. ASSUME c \in AddedTo(s, p)', c \notin AddedTo(s, p)
      PROVE  /\ AddItem(c) /\ requests'[c].pc \in Committed
             /\ requests[c].op.session = s /\ requests[c].op.product = p
  <2>1. /\ requests'[c].pc \in Committed /\ requests'[c].op.kind = "add"
        /\ requests'[c].op.session = s /\ requests'[c].op.product = p
        /\ requests'[c] # requests[c]
    BY <1>2 DEF AddedTo, Touches
  <2>2. ASSUME NEW d \in Requests, Step(d)
        PROVE  AddItem(c) /\ requests'[c].op = requests[c].op
    <3>1. c = d /\ requests'[c].op = requests[c].op
      BY <2>1, <2>2, StepMoves DEF IInv
    <3>2. requests[c].pc \in {"mutate", "checkout", "order"}
      BY <2>1, <2>2, <3>1, StepMoves DEF IInv, InFlight, After
    <3>3. requests[c].pc = "mutate"
      BY <2>1, <3>1, <3>2 DEF IInv, OpFits
    <3>4. QED
      BY <2>1, <2>2, <3>1, <3>3
      DEF Step, InsertCart, RereadCart, LockCart, UpdateQuantity, RemoveItem, ClearCart,
          LockForCheckout, ReadItems, CreateOrder
  <2>3. ASSUME NEW d \in Requests, NEW op \in Op, Arrive(d, op) PROVE FALSE
    <3>1. requests'[c].pc = FirstStep(op) /\ requests'[c].op = op
      BY <2>1, <2>3 DEF Arrive, IInv, TypeOK, RequestState
    <3>2. QED
      BY <2>1, <3>1 DEF FirstStep
  <2>4. ~WorkerRestart
    BY <2>1 DEF WorkerRestart, IInv, TypeOK, RequestState
  <2>5. QED
    BY <2>1, <2>2, <2>3, <2>4 DEF Next, UpdateProduct, DeleteProduct, vars
<1>3. QED
  BY <1>1, <1>2

(* How a step that leaves the cart to additions changes its quantity of a  *)
(* product on the menu: an addition that commits adds what it asks for, no *)
(* other step changes it.                                                  *)
Adds(c, s, p) == /\ AddItem(c) /\ requests'[c].pc \in Committed
                 /\ requests[c].op.session = s /\ requests[c].op.product = p
QtyStep(s, p) ==
  \/ /\ \A c \in Requests : ~Adds(c, s, p)
     /\ Held(s)[p].qty' = Held(s)[p].qty
  \/ \E c \in Requests :
       /\ Adds(c, s, p) /\ \A d \in Requests \ {c} : ~Adds(d, s, p)
       /\ requests[c].pc = "mutate"
       /\ Held(s)[p].qty' = Held(s)[p].qty + requests[c].op.qty

(* A cart that is not ordered holds its items. *)
LEMMA HeldUntouched ==
  ASSUME IInv, NEW s \in Sessions, carts'[s] = carts[s],
         carts[s].order # None => orders'[carts[s].order] = orders[carts[s].order]
  PROVE  Held(s)' = Held(s)
BY DEF Held

LEMMA QtyOfAddition ==
  ASSUME IInv, NEW c \in Requests, AddItem(c), requests'[c].pc \in Committed,
         NEW s \in Sessions, s = requests[c].op.session, NEW p \in Products
  PROVE  Held(s)[p].qty' = IF p = requests[c].op.product
                             THEN Held(s)[p].qty + requests[c].op.qty ELSE Held(s)[p].qty
<1>1. requests[c].op \in Op /\ requests[c].op.kind = "add" /\ requests[c].pc = "mutate"
  BY DEF AddItem, IInv, OpFits
<1>2. /\ requests[c].op.product \in Products
      /\ requests[c].op.qty \in Nat \ {0}
  BY <1>1, OpFields, ConstantsAssumption
<1>3. carts[s] \in CartRow /\ carts[s].order = None /\ carts[s].items \in [Products -> Item]
  BY <1>1, OwnCart DEF CartRow
<1>4. PICK items : items = Upsert(carts[s].items, c, requests[c].op)
  OBVIOUS
<1>5. PICK status : carts' = [carts EXCEPT ![s] = [carts[s] EXCEPT !.status = status, !.items = items]]
  <2>1. menu[requests[c].op.product].sale = "on"
    BY EndTransactionEffect DEF AddItem, IInv
  <2>2. QED
    BY <1>4, <2>1 DEF AddItem, Cart
<1>6. carts'[s].order = None /\ carts'[s].items = items
  BY <1>3, <1>5 DEF IInv, TypeOK, CartRow
<1>7. Held(s) = carts[s].items /\ Held(s)' = items
  BY <1>3, <1>6 DEF Held
<1>8. carts[s].items[p] \in Item
  BY <1>3
<1>9. CASE p # requests[c].op.product
  BY <1>3, <1>4, <1>7, <1>9 DEF Upsert
<1>10. CASE p = requests[c].op.product
  <2>1. items[p] = IF carts[s].items[p] = NoItem
                     THEN [id |-> c, qty |-> requests[c].op.qty, price |-> menu[p].price]
                     ELSE [carts[s].items[p] EXCEPT !.qty = carts[s].items[p].qty + requests[c].op.qty]
    BY <1>3, <1>4, <1>10 DEF Upsert
  <2>2. CASE carts[s].items[p] = NoItem
    BY <1>2, <1>7, <1>10, <2>1, <2>2 DEF NoItem
  <2>3. CASE carts[s].items[p] # NoItem
    <3>1. carts[s].items[p] \in [id : Requests, qty : Nat \ {0}, price : Prices]
      BY <1>8, <2>3 DEF Item
    <3>2. items[p].qty = carts[s].items[p].qty + requests[c].op.qty
      BY <2>1, <2>3, <3>1
    <3>3. QED
      BY <1>7, <1>10, <3>2
  <2>4. QED
    BY <2>2, <2>3
<1>11. QED
  BY <1>9, <1>10

LEMMA QtyStepOfRequest ==
  ASSUME IInv, OpUnset, NEW c \in Requests, Step(c), NEW s \in Sessions, NEW p \in Products,
         OnlyAdded(s), menu[p].sale # "deleted"
  PROVE  QtyStep(s, p)
<1>1. /\ CartSteps(c)
      /\ \A d \in Requests \ {c} : requests'[d] = requests[d]
      /\ requests[c].op \in Op /\ requests[c].op # None
      /\ requests[c].pc \in InFlight
  BY StepCarts, StepMoves, NullAssumption DEF IInv, OpFits, InFlight
<1>2. \A d \in Requests \ {c} : ~Adds(d, s, p)
  BY <1>1 DEF Adds, AddItem
<1>3. CASE Adds(c, s, p)
  <2>1. Held(s)[p].qty' = Held(s)[p].qty + requests[c].op.qty
    BY <1>3, QtyOfAddition DEF Adds
  <2>2. requests[c].pc = "mutate"
    BY <1>3 DEF Adds, AddItem
  <2>3. QED
    BY <1>2, <1>3, <2>1, <2>2 DEF QtyStep
<1>4. CASE ~Adds(c, s, p)
  <2>1. CASE requests[c].op.session # s
    <3>1. carts'[s] = carts[s]
      BY <1>1, <2>1 DEF CartSteps
    <3>2. carts[s].order # None => orders'[carts[s].order] = orders[carts[s].order]
      <4>1. CASE UNCHANGED orders
        BY <4>1
      <4>2. CASE requests[c].pc = "order" /\ Place(c)
        <5>1. orders[c] = None
          BY <4>2, PlaceEffect
        <5>2. carts[s].order # None => carts[s].order \in Requests /\ orders[carts[s].order] # None
          BY DEF IInv, RowsFit, TypeOK, CartRow
        <5>3. QED
          BY <1>1, <5>1, <5>2 DEF CartSteps
      <4>3. QED
        BY <4>1, <4>2, StepOwnCart DEF CartMoves
    <3>3. Held(s)' = Held(s)
      BY <3>1, <3>2, HeldUntouched
    <3>4. QED
      BY <1>2, <1>4, <3>3 DEF QtyStep
  <2>2. CASE requests[c].op.session = s
    <3>1. requests[c].op.kind \in {"add", "checkout"}
      BY <1>1, <2>2 DEF OnlyAdded, Touches
    <3>2. CASE UNCHANGED <<carts, orders>>
      BY <1>2, <1>4, <3>2 DEF QtyStep, Held
    <3>3. CASE AddItem(c) /\ requests'[c].pc \in Committed
      <4>1. p # requests[c].op.product
        BY <1>4, <2>2, <3>3 DEF Adds
      <4>2. Held(s)[p].qty' = Held(s)[p].qty
        BY <2>2, <3>3, <4>1, QtyOfAddition
      <4>3. QED
        BY <1>2, <1>4, <4>2 DEF QtyStep
    <3>4. CASE requests[c].pc = "order" /\ Place(c)
      <4>1. carts[s].order = None
        BY <2>2, <3>4, OwnCart
      <4>2. requests[c].read[p] = carts[s].items[p]
        BY <2>2, <3>4 DEF IInv, ReadCurrent, Cart
      <4>3. Held(s) = carts[s].items /\ Held(s)' = requests[c].read
        <5>1. carts'[s].order = c /\ orders'[c] = requests[c].read /\ c # None
          BY <2>2, <3>4, PlaceEffect, ConstantsAssumption
        <5>2. QED
          BY <4>1, <5>1 DEF Held
      <4>4. Held(s)[p].qty' = Held(s)[p].qty
        BY <4>2, <4>3
      <4>5. QED
        BY <1>2, <1>4, <4>4 DEF QtyStep
    <3>5. QED
      <4>1. CASE AddItem(c) /\ requests'[c].pc \notin Committed
        BY <3>2, <4>1, EndTransactionEffect DEF AddItem, IInv
      <4>2. CASE CreateOrder(c)
        BY <3>2, <3>4, <4>2 DEF CreateOrder
      <4>3. QED
        BY <3>1, <3>2, <3>3, <4>1, <4>2
        DEF Step, InsertCart, RereadCart, LockCart, UpdateQuantity, RemoveItem, ClearCart,
            LockForCheckout, ReadItems
  <2>3. QED
    BY <2>1, <2>2
<1>5. QED
  BY <1>3, <1>4

LEMMA QtySteps ==
  ASSUME IInv, OpUnset, [Next]_vars, NEW s \in Sessions, NEW p \in Products,
         OnlyAdded(s), menu'[p].sale # "deleted"
  PROVE  menu[p].sale # "deleted" /\ QtyStep(s, p)
<1>1. ASSUME NEW c \in Requests, Step(c) PROVE menu[p].sale # "deleted" /\ QtyStep(s, p)
  BY <1>1, StepCarts, QtyStepOfRequest DEF CartSteps, IInv
<1>2. CASE ~ \E c \in Requests : Step(c)
  <2>1. \A c \in Requests : ~Adds(c, s, p)
    BY <1>2 DEF Adds, Step
  <2>2. Held(s)[p].qty' = Held(s)[p].qty /\ menu[p].sale # "deleted"
    <3>1. CASE UNCHANGED <<carts, orders, menu>>
      BY <3>1 DEF Held
    <3>2. ASSUME NEW r \in Products, NEW sale, NEW price, UpdateProduct(r, sale, price)
          PROVE  Held(s)[p].qty' = Held(s)[p].qty /\ menu[p].sale # "deleted"
      BY <3>2 DEF UpdateProduct, Held, IInv, TypeOK
    <3>3. ASSUME NEW r \in Products, DeleteProduct(r)
          PROVE  Held(s)[p].qty' = Held(s)[p].qty /\ menu[p].sale # "deleted"
      <4>1. r # p /\ menu[p].sale # "deleted"
        BY <3>3 DEF DeleteProduct, IInv, TypeOK
      <4>2. /\ carts[s] \in CartRow /\ carts'[s] = [carts[s] EXCEPT !.items[r] = NoItem]
            /\ UNCHANGED orders
        BY <3>3 DEF DeleteProduct, IInv, TypeOK
      <4>3. carts'[s].order = carts[s].order /\ carts'[s].items[p] = carts[s].items[p]
        BY <4>1, <4>2 DEF CartRow
      <4>4. QED
        BY <4>1, <4>2, <4>3 DEF Held
    <3>4. QED
      BY <1>2, <3>1, <3>2, <3>3 DEF Next, Arrive, WorkerRestart, vars
  <2>3. QED
    BY <2>1, <2>2 DEF QtyStep
<1>3. QED
  BY <1>1, <1>2

(* A cart left to additions holds the units that were added. *)
UnitsInv ==
  /\ OpUnset
  /\ \A s \in Sessions, p \in Products : OnlyAdded(s) /\ menu[p].sale # "deleted" =>
       /\ IsFiniteSet(Units(s, p))
       /\ Held(s)[p].qty = Cardinality(Units(s, p))

LEMMA UnitsInit == Init => UnitsInv
<1>1. SUFFICES ASSUME Init, NEW s \in Sessions, NEW p \in Products
               PROVE  /\ OpUnset
                      /\ IsFiniteSet(Units(s, p))
                      /\ Held(s)[p].qty = Cardinality(Units(s, p))
  BY DEF UnitsInv, Init, OpUnset
<1>2. OpUnset
  BY <1>1 DEF Init, OpUnset
<1>3. AddedTo(s, p) = {}
  BY <1>1 DEF Init, AddedTo
<1>4. Units(s, p) = {}
  BY <1>3 DEF Units
<1>5. Held(s)[p].qty = 0
  BY <1>1 DEF Init, Held, NoCart, NoItems, NoItem
<1>6. QED
  BY <1>2, <1>4, <1>5, FS_EmptySet

LEMMA UnitsStep == IInv /\ UnitsInv /\ [Next]_vars => UnitsInv'
<1> SUFFICES ASSUME IInv, UnitsInv, [Next]_vars PROVE UnitsInv'
  OBVIOUS
<1>1. OpUnset /\ OpUnset'
  BY RequestKept DEF UnitsInv, OpUnset
<1>2. ASSUME NEW s \in Sessions, NEW p \in Products, OnlyAdded(s)', menu'[p].sale # "deleted"
      PROVE  /\ IsFiniteSet(Units(s, p)')
             /\ Held(s)[p].qty' = Cardinality(Units(s, p)')
  <2>1. OnlyAdded(s)
    BY <1>1, <1>2, RequestKept DEF OnlyAdded, Touches
  <2>2. menu[p].sale # "deleted" /\ QtyStep(s, p)
    BY <1>1, <1>2, <2>1, QtySteps
  <2>3. IsFiniteSet(Units(s, p)) /\ Held(s)[p].qty = Cardinality(Units(s, p))
    BY <2>1, <2>2 DEF UnitsInv
  <2>4. /\ \A c \in AddedTo(s, p) : c \in AddedTo(s, p)' /\ requests'[c].op = requests[c].op
        /\ \A c \in AddedTo(s, p)' : c \in AddedTo(s, p) \/ Adds(c, s, p)
        /\ AddedTo(s, p) \subseteq Requests /\ AddedTo(s, p)' \subseteq Requests
    <3>1. AddedTo(s, p) \subseteq Requests /\ AddedTo(s, p)' \subseteq Requests
      BY DEF AddedTo
    <3>2. QED
      BY <1>1, <3>1, AddedStep DEF Adds
  <2>5. PICK U, A, B : U = Units(s, p) /\ A = AddedTo(s, p) /\ B = AddedTo(s, p)'
    OBVIOUS
  <2>6. U = UNION {{d} \X (1..requests[d].op.qty) : d \in A}
    BY <2>5 DEF Units
  <2>7. Units(s, p)' = UNION {{d} \X (1..requests'[d].op.qty) : d \in B}
    BY <2>5 DEF Units
  <2>8. CASE \A c \in Requests : ~Adds(c, s, p)
    <3>1. A = B /\ \A d \in A : requests'[d].op = requests[d].op
      BY <2>4, <2>5, <2>8
    <3>2. Units(s, p)' = U
      BY <2>6, <2>7, <3>1
    <3>3. Held(s)[p].qty' = Held(s)[p].qty
      BY <2>2, <2>8 DEF QtyStep
    <3>4. QED
      BY <2>3, <2>5, <3>2, <3>3
  <2>9. CASE \E c \in Requests : Adds(c, s, p)
    <3>1. PICK c \in Requests :
            /\ Adds(c, s, p) /\ \A d \in Requests \ {c} : ~Adds(d, s, p)
            /\ requests[c].pc = "mutate"
            /\ Held(s)[p].qty' = Held(s)[p].qty + requests[c].op.qty
      BY <2>2, <2>9 DEF QtyStep
    <3>2. c \notin A
      BY <2>5, <3>1 DEF AddedTo
    <3>3. requests'[c].op = requests[c].op /\ requests[c].op.qty \in Nat /\ requests[c].op # None
      <4>1. requests[c].op \in Op /\ requests[c].op.kind = "add"
        BY <3>1 DEF IInv, OpFits, Adds, AddItem
      <4>2. requests[c].op.qty \in Nat /\ requests[c].op # None
        BY <4>1, OpFields, ConstantsAssumption, NullAssumption
      <4>3. QED
        BY <1>1, <4>2, RequestKept
    <3>4. c \in B
      BY <2>5, <3>1, <3>3 DEF AddedTo, Touches, Adds, AddItem
    <3>5. B = A \cup {c} /\ \A d \in B : requests'[d].op = requests[d].op
      BY <2>4, <2>5, <3>1, <3>3, <3>4
    <3>6. PICK n \in Nat : n = requests[c].op.qty
      BY <3>3
    <3>7. Units(s, p)' = U \cup ({c} \X (1..n))
      BY <2>6, <2>7, <3>5, <3>6
    <3>8. \A u \in U : u[1] # c
      BY <2>6, <3>2
    <3>9. /\ IsFiniteSet(U \cup ({c} \X (1..n)))
          /\ Cardinality(U \cup ({c} \X (1..n))) = Cardinality(U) + n
      BY <2>3, <2>5, <3>8, UnitsGrow
    <3>10. QED
      BY <2>3, <2>5, <3>1, <3>6, <3>7, <3>9
  <2>10. QED
    BY <2>8, <2>9
<1>3. QED
  BY <1>1, <1>2 DEF UnitsInv

(* While a session only adds, its cart, and then its order, holds exactly  *)
(* the units that acknowledged requests added, whoever inserts the cart,   *)
(* however additions and checkouts overlap and whatever restarts.          *)
THEOREM NoAddLostHolds == Spec => []NoAddLost
<1>1. UnitsInv => NoAddLost
  BY DEF UnitsInv, NoAddLost
<1>2. QED
  BY <1>1, UnitsInit, UnitsStep, Invariance, PTL DEF Spec

-----------------------------------------------------------------------------
(* The cart is a Basket. *)

(* What a basket shows of its items is a content.                           *)
LEMMA ShownType ==
  ASSUME NEW items \in [Products -> Item]
  PROVE  Shown(items) \in [Products -> [qty : Nat, price : Prices \cup {None}]]
BY ItemFields DEF Shown

(* The empty tables are empty baskets.                                      *)
LEMMA OrderingInit == Init => Ordering!Init
<1> SUFFICES ASSUME Init PROVE Ordering!Init
  OBVIOUS
<1>1. \A s \in Sessions : carts[s].order = None /\ Held(s) = NoItems
  BY DEF Init, NoCart, Held
<1>2. \A c \in Requests : orders[c] = None
  BY DEF Init
<1>3. QED
  BY <1>1, <1>2 DEF Ordering!Init

(* A step that places no order changes open baskets at most.                *)
LEMMA OrderingChange ==
  ASSUME IInv, TypeOK', RowsFit', orders' = orders,
         \A s \in Sessions : carts'[s].order = carts[s].order
  PROVE  Ordering!Change
<1>1. ASSUME NEW s \in Sessions PROVE Held(s)' \in [Products -> Item]
  <2>1. carts'[s] \in CartRow
    BY DEF TypeOK
  <2>2. carts'[s].order # None => carts'[s].order \in Requests
    BY <2>1 DEF CartRow
  <2>3. carts'[s].order # None => orders'[carts'[s].order] \in [Products -> Item]
    BY <2>2 DEF TypeOK, RowsFit
  <2>4. QED
    BY <2>1, <2>3 DEF Held, CartRow
<1>2. ASSUME NEW s \in Sessions, carts[s].order # None PROVE Held(s)' = Held(s)
  BY <1>2 DEF Held
<1>3. [s \in Sessions |-> Shown(Held(s))]' \in
        [Sessions -> [Products -> [qty : Nat, price : Prices \cup {None}]]]
  BY <1>1, ShownType
<1>4. [s \in Sessions |-> carts[s].order]' = [s \in Sessions |-> carts[s].order]
  OBVIOUS
<1>5. [c \in Requests |-> IF orders[c] = None THEN None ELSE Shown(orders[c])]'
        = [c \in Requests |-> IF orders[c] = None THEN None ELSE Shown(orders[c])]
  OBVIOUS
<1>6. QED
  BY <1>2, <1>3, <1>4, <1>5 DEF Ordering!Change

(* The step that places an order buys the basket as it is.                  *)
LEMMA OrderingOrder ==
  ASSUME IInv, NEW c \in Requests, requests[c].pc = "order", Place(c),
         NEW s \in Sessions, s = requests[c].op.session,
         \A p \in InCart(requests[c].read) : menu[p].sale # "deleted"
  PROVE  Ordering!Order(s, c)
<1> DEFINE read == requests[c].read
<1>1. s \in Sessions /\ carts[s] \in CartRow /\ carts[s].order = None
  BY OwnCart
<1>2. carts[s].items \in [Products -> Item] /\ read \in [Products -> Item]
  BY <1>1 DEF CartRow, IInv, TypeOK, RequestState
<1>3. InCart(read) # {} /\ read = carts[s].items
  <2>1. /\ InCart(read) # {}
        /\ \A p \in Products : menu[p].sale # "deleted" => read[p] = carts[s].items[p]
    BY DEF IInv, ReadCurrent, Cart
  <2>2. ASSUME NEW p \in Products PROVE read[p] = carts[s].items[p]
    <3>1. CASE menu[p].sale # "deleted"
      BY <2>1, <3>1
    <3>2. CASE menu[p].sale = "deleted"
      BY <1>1, <3>2 DEF IInv, DeletedGone, InCart
    <3>3. QED
      BY <3>1, <3>2
  <2>3. QED
    BY <1>2, <2>1, <2>2
<1>4. /\ carts'[s].order = c /\ orders'[c] = read /\ orders'[c] # None
      /\ orders[c] = None
  BY PlaceEffect
<1>5. Held(s) = read /\ Held(s)' = read
  <2>1. carts'[s].order # None /\ c # None
    BY <1>4, ConstantsAssumption
  <2>2. QED
    BY <1>1, <1>3, <1>4, <2>1 DEF Held
<1>6. ASSUME NEW b \in Sessions \ {s}
      PROVE  carts'[b] = carts[b] /\ Held(b)' = Held(b)
  <2>1. carts'[b] = carts[b]
    BY <1>6 DEF Place, IInv, TypeOK
  <2>2. ASSUME NEW d \in Requests \ {c} PROVE orders'[d] = orders[d]
    BY <2>2 DEF Place, IInv, TypeOK
  <2>3. carts[b].order # None => carts[b].order \in Requests \ {c}
    BY <1>4 DEF IInv, RowsFit, TypeOK, CartRow
  <2>4. QED
    BY <2>1, <2>2, <2>3 DEF Held
<1>7. Shown(Held(s)) # Shown(NoItems)
  <2>1. PICK p \in Products : read[p] # NoItem
    BY <1>3 DEF InCart
  <2>2. read[p].qty # 0
    BY <1>2, <2>1, ItemFields
  <2>3. Shown(read)[p].qty # 0 /\ Shown(NoItems)[p].qty = 0
    BY <2>2 DEF Shown, NoItems, NoItem
  <2>4. QED
    BY <1>5, <2>3
<1>8. [b \in Sessions |-> carts[b].order]'
        = [[b \in Sessions |-> carts[b].order] EXCEPT ![s] = c]
  BY <1>1, <1>4, <1>6
<1>9. [d \in Requests |-> IF orders[d] = None THEN None ELSE Shown(orders[d])]'
        = [[d \in Requests |-> IF orders[d] = None THEN None ELSE Shown(orders[d])]
             EXCEPT ![c] = Shown(Held(s))]
  BY <1>4, <1>5 DEF Place, IInv, TypeOK
<1>10. [b \in Sessions |-> Shown(Held(b))]' = [b \in Sessions |-> Shown(Held(b))]
  BY <1>5, <1>6
<1>11. QED
  BY <1>1, <1>4, <1>7, <1>8, <1>9, <1>10 DEF Ordering!Order

(* Every step is a change, an order or a stutter of Basket.                 *)
LEMMA OrderingStep ==
  IInv /\ IInv' /\ [Next]_vars => [Ordering!Next]_(Ordering!vars)
<1> SUFFICES ASSUME IInv, IInv', [Next]_vars PROVE Ordering!Next
  OBVIOUS
<1>1. CASE orders' = orders /\ \A s \in Sessions : carts'[s].order = carts[s].order
  BY <1>1, OrderingChange DEF IInv, Ordering!Next
<1>2. CASE ~(orders' = orders /\ \A s \in Sessions : carts'[s].order = carts[s].order)
  <2>1. PICK c \in Requests : Step(c)
    BY <1>2, AsideSteps DEF Aside, IInv
  <2>2. requests[c].pc = "order" /\ Place(c)
    BY <1>2, <2>1, StepOwnCart, StepCarts DEF CartMoves, CartSteps, IInv
  <2>3. CreateOrder(c)
    BY <2>1, <2>2 DEF Step, InsertCart, RereadCart, LockCart, AddItem,
       UpdateQuantity, RemoveItem, ClearCart, LockForCheckout, ReadItems
  <2>4. \A p \in InCart(requests[c].read) : menu[p].sale # "deleted"
    BY <1>2, <2>3 DEF CreateOrder
  <2>5. requests[c].op.session \in Sessions
    BY <2>2, OwnCart
  <2>6. QED
    BY <2>2, <2>4, <2>5, OrderingOrder DEF Ordering!Next
<1>3. QED
  BY <1>1, <1>2

(* The cart service implements Basket: whatever requests, menu edits and    *)
(* restarts interleave, a cart is ordered at most once and never empty, and *)
(* its order is what the cart held, for good.                               *)
THEOREM Refinement == Spec => BasketSpec
<1>1. Init => Ordering!Init
  BY OrderingInit
<1>2. IInv /\ IInv' /\ [Next]_vars => [Ordering!Next]_(Ordering!vars)
  BY OrderingStep
<1>3. QED
  BY <1>1, <1>2, Invariance, PTL DEF Spec, BasketSpec, Ordering!Spec
=============================================================================
