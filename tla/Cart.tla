--------------------------------- MODULE Cart ---------------------------------
(***************************************************************************)
(* The carts of one restaurant: /api/cart/items, DELETE /api/cart and      *)
(* POST /api/cart/checkout over the tables carts, cart_items and orders at *)
(* READ COMMITTED, while the menu changes.                                 *)
(*                                                                         *)
(* A request looks its cart up without a lock, then takes the row lock of  *)
(* the cart and keeps it until its transaction ends: mutations wait for    *)
(* it, checkout does not (NOWAIT).  An INSERT of a cart that has not been  *)
(* committed is a lock on a cart nobody else sees.  Under the lock a       *)
(* mutation is one step, checkout is two: what it reads, what it writes.   *)
(* The reply is built after the commit and may fail, or the worker may die *)
(* before it is out: a request that committed ends "done" or "unanswered". *)
(* All locations have one currency.  Carts checked out before phase 14,    *)
(* which have no order_id, are left out.                                   *)
(***************************************************************************)
EXTENDS Naturals, FiniteSets

CONSTANTS
  Requests,     \* the requests, the orders they place and the items they insert
  Sessions,     \* values of X-Cart-Session
  Products,     \* a product in one of its variants, with modifiers
  Prices,
  Quantities,   \* the quantities a guest asks for
  Keys,         \* values of idempotency_key
  None          \* SQL NULL

ASSUME ConstantsAssumption ==
  /\ Quantities \subseteq Nat \ {0}
  /\ None \notin Requests \cup Keys

VARIABLES
  carts,      \* [Sessions -> row with its items]; status "none": no row
  orders,     \* [Requests -> items \cup {None}]: the order_items of an order
  menu,       \* [Products -> [sale, price]]; sale "deleted": no row
  requests,   \* [Requests -> [pc, op, read, result]]
  lock        \* [Sessions -> Requests \cup {None}]: row locks on carts

vars == <<carts, orders, menu, requests, lock>>

(* cart_items has one row per product in a cart: uq_cart_item_identity.    *)
(* The row carries the name of the request that inserted it; qty 0 stands  *)
(* for a row that does not exist.                                          *)
NoItem == [id |-> None, qty |-> 0, price |-> None]
NoItems == [p \in Products |-> NoItem]
Item == [id : Requests, qty : Nat \ {0}, price : Prices] \cup {NoItem}

NoCart == [status |-> "none", items |-> NoItems, key |-> None, order |-> None]
CartRow == [status : {"none", "active", "checked_out"}, items : [Products -> Item],
            key : Keys \cup {None}, order : Requests \cup {None}]

Op ==
  [kind : {"add"}, session : Sessions, product : Products, qty : Quantities]
    \cup [kind : {"update"}, session : Sessions, item : Requests, qty : Quantities]
    \cup [kind : {"remove"}, session : Sessions, item : Requests]
    \cup [kind : {"clear"}, session : Sessions]
    \cup [kind : {"checkout"}, session : Sessions, key : Keys \cup {None}]

ASSUME NullAssumption == None \notin [Products -> Item] /\ None \notin Op

InFlight == {"insert", "reread", "lock", "mutate", "checkout", "read", "order"}
Committed == {"done", "unanswered"}
RequestState ==
  [pc : InFlight \cup Committed \cup {"idle", "refused", "server_error", "lost"},
   op : Op \cup {None}, read : [Products -> Item], result : Requests \cup {None}]

(* Type invariant. *)
TypeOK ==
  /\ carts \in [Sessions -> CartRow]
  /\ orders \in [Requests -> [Products -> Item] \cup {None}]
  /\ menu \in [Products -> [sale : {"on", "off", "deleted"}, price : Prices]]
  /\ requests \in [Requests -> RequestState]
  /\ lock \in [Sessions -> Requests \cup {None}]

Init ==
  /\ carts = [s \in Sessions |-> NoCart]
  /\ orders = [c \in Requests |-> None]
  /\ menu \in [Products -> [sale : {"on"}, price : Prices]]
  /\ requests = [c \in Requests |->
                   [pc |-> "idle", op |-> None, read |-> NoItems, result |-> None]]
  /\ lock = [s \in Sessions |-> None]

Cart(c) == carts[requests[c].op.session]
Active(s) == carts[s].status = "active"

(* Mutant: FOR UPDATE is left out. *)
LockFree_NoLock(s) == s \in Sessions
LockFree(s) == lock[s] = None

-----------------------------------------------------------------------------
(* Steps that several operations share. *)

Goto(c, pc) == requests' = [requests EXCEPT ![c].pc = pc]
Lock(c) == lock' = [lock EXCEPT ![requests[c].op.session] = c]

(* Mutant: a refused request leaves its transaction open. *)
EndTransaction_OnlyDone(c, pc) ==
  /\ Goto(c, pc)
  /\ lock' = IF pc \in Committed THEN [s \in Sessions |-> IF lock[s] = c THEN None ELSE lock[s]]
                                    ELSE lock

(* The answer; commit or rollback releases the lock. *)
EndTransaction(c, pc) ==
  /\ Goto(c, pc)
  /\ lock' = [s \in Sessions |-> IF lock[s] = c THEN None ELSE lock[s]]

(* db.commit() went through; db.refresh and build_cart_response follow, on *)
(* other queries, and their failure takes nothing back.                    *)
Commit(c) == \E pc \in Committed : EndTransaction(c, pc)

(* The request arrives and looks for the session's active cart. *)
FirstStep(op) ==
  CASE op.kind = "checkout" -> "checkout"
    [] op.kind # "checkout" /\ Active(op.session) -> "lock"
    [] op.kind = "add" /\ ~Active(op.session) -> "insert"
    [] op.kind = "clear" /\ ~Active(op.session) -> "done"
    [] op.kind \in {"update", "remove"} /\ ~Active(op.session) -> "refused"

Arrive(c, op) ==
  /\ requests[c].pc = "idle"
  /\ requests' = [requests EXCEPT ![c] = [@ EXCEPT !.op = op, !.pc = FirstStep(op)]]
  /\ UNCHANGED <<carts, orders, menu, lock>>

(* get_or_create_cart: ix_carts_session_restaurant makes the INSERT wait   *)
(* for one that is not committed yet, and fail on any row, active or not.  *)
InsertCart(c) ==
  /\ requests[c].pc = "insert"
  /\ IF Cart(c).status = "none"
       THEN LockFree(requests[c].op.session) /\ Lock(c) /\ Goto(c, "mutate")
       ELSE Goto(c, "reread") /\ UNCHANGED lock
  /\ UNCHANGED <<carts, orders, menu>>

RereadCart(c) ==
  /\ requests[c].pc = "reread"
  /\ Goto(c, IF Active(requests[c].op.session) THEN "lock" ELSE "server_error")
  /\ UNCHANGED <<carts, orders, menu, lock>>

(* Mutant: the status is not judged again when the wait ends. *)
LockCart_AnyStatus(c) ==
  /\ requests[c].pc = "lock"
  /\ LockFree(requests[c].op.session) /\ Lock(c) /\ Goto(c, "mutate")
  /\ UNCHANGED <<carts, orders, menu>>

(* _lock_active_cart: no row matches, or the wait for the lock begins; the *)
(* status is judged again when it ends.                                    *)
LockCart(c) ==
  /\ requests[c].pc = "lock"
  /\ \/ ~Active(requests[c].op.session) /\ Goto(c, "refused") /\ UNCHANGED lock
     \/ /\ Active(requests[c].op.session) /\ LockFree(requests[c].op.session)
        /\ Lock(c) /\ Goto(c, "mutate")
  /\ UNCHANGED <<carts, orders, menu>>

-----------------------------------------------------------------------------
(* Mutations, under the lock. *)

SetItems(s, items) == carts' = [carts EXCEPT ![s].items = items]

(* INSERT ... ON CONFLICT DO UPDATE adds the quantity, keeps the price.    *)
Upsert(items, c, op) ==
  LET old == items[op.product] IN
  [items EXCEPT ![op.product] =
     IF old = NoItem THEN [id |-> c, qty |-> op.qty, price |-> menu[op.product].price]
                     ELSE [old EXCEPT !.qty = old.qty + op.qty]]

(* Refused if the product is gone or not on sale: a new cart rolls back. *)
AddItem(c) ==
  LET op == requests[c].op IN
  /\ requests[c].pc = "mutate" /\ op.kind = "add"
  /\ IF menu[op.product].sale = "on"
       THEN /\ carts' = [carts EXCEPT ![op.session] =
                  [@ EXCEPT !.status = IF Cart(c).status = "none" THEN "active"
                                                                 ELSE Cart(c).status,
                            !.items = Upsert(Cart(c).items, c, op)]]
            /\ Commit(c)
       ELSE EndTransaction(c, "refused") /\ UNCHANGED carts
  /\ UNCHANGED <<orders, menu>>

(* The item is looked for in this cart only. *)
Found(c) == {p \in Products : Cart(c).items[p].id = requests[c].op.item}

UpdateQuantity(c) ==
  LET op == requests[c].op IN
  /\ requests[c].pc = "mutate" /\ op.kind = "update"
  /\ \/ /\ \E p \in Found(c) :
             SetItems(op.session, [Cart(c).items EXCEPT ![p].qty = op.qty])
        /\ Commit(c)
     \/ Found(c) = {} /\ EndTransaction(c, "refused") /\ UNCHANGED carts
  /\ UNCHANGED <<orders, menu>>

(* Mutant: the row stays, with quantity 0. *)
RemoveItem_Zero(c) ==
  /\ requests[c].pc = "mutate" /\ requests[c].op.kind = "remove"
  /\ \E p \in Found(c) :
       SetItems(requests[c].op.session, [Cart(c).items EXCEPT ![p].qty = 0])
  /\ Commit(c)
  /\ UNCHANGED <<orders, menu>>

RemoveItem(c) ==
  LET op == requests[c].op IN
  /\ requests[c].pc = "mutate" /\ op.kind = "remove"
  /\ \/ /\ \E p \in Found(c) : SetItems(op.session, [Cart(c).items EXCEPT ![p] = NoItem])
        /\ Commit(c)
     \/ Found(c) = {} /\ EndTransaction(c, "refused") /\ UNCHANGED carts
  /\ UNCHANGED <<orders, menu>>

ClearCart(c) ==
  /\ requests[c].pc = "mutate" /\ requests[c].op.kind = "clear"
  /\ SetItems(requests[c].op.session, NoItems)
  /\ Commit(c)
  /\ UNCHANGED <<orders, menu>>

-----------------------------------------------------------------------------
(* checkout_cart *)

(* Mutant: a second checkout is answered with its own order. *)
Replay_Any(c) == requests[c].op.key # None
Replay(c) == requests[c].op.key # None /\ Cart(c).key = requests[c].op.key

(* FOR UPDATE NOWAIT, whatever the status, then what the status says.  The *)
(* replay commits nothing and is one step: another checkout of the cart,   *)
(* which holds the row for its own replay, is one that has yet to take it. *)
LockForCheckout(c) ==
  LET s == requests[c].op.session IN
  /\ requests[c].pc = "checkout"
  /\ \/ /\ Active(s) /\ LockFree(s)
        /\ Lock(c) /\ Goto(c, "read")
     \/ /\ carts[s].status = "checked_out" /\ LockFree(s) /\ Replay(c)
        /\ requests' = [requests EXCEPT ![c] =
                          [@ EXCEPT !.pc = "done", !.result = carts[s].order]]
        /\ UNCHANGED lock
     \/ /\ \/ carts[s].status = "none" \/ ~LockFree(s)
           \/ /\ carts[s].status = "checked_out"
              /\ ~Replay(c) \/ \E d \in Requests \ {c} :
                   requests[d].pc = "checkout" /\ requests[d].op.session = s
        /\ Goto(c, "refused") /\ UNCHANGED lock
  /\ UNCHANGED <<carts, orders, menu>>

InCart(items) == {p \in Products : items[p] # NoItem}

(* Items and menu are read; an empty cart and items that are not on sale   *)
(* are refused, and so may be what else the request asks for (minimum      *)
(* order, scheduled time, address, table, zone).                           *)
ReadItems(c) ==
  /\ requests[c].pc = "read"
  /\ \/ EndTransaction(c, "refused")
     \/ /\ InCart(Cart(c).items) # {}
        /\ \A p \in InCart(Cart(c).items) : menu[p].sale = "on"
        /\ requests' = [requests EXCEPT ![c] =
                          [@ EXCEPT !.pc = "order", !.read = Cart(c).items]]
        /\ UNCHANGED lock
  /\ UNCHANGED <<carts, orders, menu>>

(* Mutant: no unique index. *)
KeyTaken_NoIndex(c) == requests[c].op.kind # "checkout"
KeyTaken(c) ==
  requests[c].op.key # None /\ \E s \in Sessions : carts[s].key = requests[c].op.key

(* INSERT order and order_items, UPDATE cart, COMMIT, in one transaction;  *)
(* the order is read again for the answer, which may fail.                 *)
Place(c) ==
  /\ orders' = [orders EXCEPT ![c] = requests[c].read]
  /\ carts' = [carts EXCEPT ![requests[c].op.session] =
       [@ EXCEPT !.status = "checked_out", !.key = requests[c].op.key, !.order = c]]
  /\ \E pc \in Committed :
       requests' = [requests EXCEPT ![c] = [@ EXCEPT !.pc = pc, !.result = c]]
  /\ lock' = [s \in Sessions |-> IF lock[s] = c THEN None ELSE lock[s]]

(* A product deleted since it was read fails the foreign key of            *)
(* order_items, a key that stands for another cart the unique index.       *)
CreateOrder(c) ==
  /\ requests[c].pc = "order"
  /\ LET gone == \E p \in InCart(requests[c].read) : menu[p].sale = "deleted" IN
     \/ /\ gone \/ KeyTaken(c)
        /\ EndTransaction(c, IF gone THEN "server_error" ELSE "refused")
        /\ UNCHANGED <<carts, orders>>
     \/ ~gone /\ ~KeyTaken(c) /\ Place(c)
  /\ UNCHANGED menu

-----------------------------------------------------------------------------
(* The restaurant edits its menu. *)
UpdateProduct(p, sale, price) ==
  /\ menu[p].sale # "deleted"
  /\ menu' = [menu EXCEPT ![p] = [sale |-> sale, price |-> price]]
  /\ UNCHANGED <<carts, orders, requests, lock>>

(* DELETE cascades to the items of every cart, without the cart's lock. *)
DeleteProduct(p) ==
  /\ menu[p].sale # "deleted"
  /\ menu' = [menu EXCEPT ![p].sale = "deleted"]
  /\ carts' = [s \in Sessions |-> [carts[s] EXCEPT !.items[p] = NoItem]]
  /\ UNCHANGED <<orders, requests, lock>>

(* The single worker restarts: open transactions roll back. *)
WorkerRestart ==
  /\ requests' = [c \in Requests |->
       IF requests[c].pc \in InFlight THEN [requests[c] EXCEPT !.pc = "lost"]
                                      ELSE requests[c]]
  /\ lock' = [s \in Sessions |-> None]
  /\ UNCHANGED <<carts, orders, menu>>

-----------------------------------------------------------------------------
Step(c) ==
  \/ InsertCart(c) \/ RereadCart(c) \/ LockCart(c)
  \/ AddItem(c) \/ UpdateQuantity(c) \/ RemoveItem(c) \/ ClearCart(c)
  \/ LockForCheckout(c) \/ ReadItems(c) \/ CreateOrder(c)

Next ==
  \/ \E c \in Requests : Step(c) \/ \E op \in Op : Arrive(c, op)
  \/ \E p \in Products :
       \/ \E sale \in {"on", "off"}, price \in Prices : UpdateProduct(p, sale, price)
       \/ DeleteProduct(p)
  \/ WorkerRestart

Spec == Init /\ [][Next]_vars

(* Requests run on; PostgreSQL serves those that wait for a lock in turn. *)
FairSpec == Spec /\ \A c \in Requests : SF_vars(Step(c))

-----------------------------------------------------------------------------
(* Safety. *)

(* The cart keeps the promises of Basket: one order per cart, never empty, *)
(* with exactly the items the cart had, none added or removed between the  *)
(* reading and the commit, none after it.                                  *)
Held(s) == IF carts[s].order = None THEN carts[s].items ELSE orders[carts[s].order]
Shown(items) == [p \in Products |-> [qty |-> items[p].qty, price |-> items[p].price]]

Ordering == INSTANCE Basket WITH
  Baskets <- Sessions,
  Ids <- Requests,
  Contents <- [Products -> [qty : Nat, price : Prices \cup {None}]],
  Empty <- Shown(NoItems),
  content <- [s \in Sessions |-> Shown(Held(s))],
  placed <- [s \in Sessions |-> carts[s].order],
  bought <- [c \in Requests |-> IF orders[c] = None THEN None ELSE Shown(orders[c])]

BasketSpec == Ordering!Spec

(* Checkouts accepted under one key were given one order, whichever cart   *)
(* they named: a retry finds what the first call did, and a key never      *)
(* stands for two orders.                                                  *)
OneOrderPerKey ==
  \A c, d \in Requests :
    /\ requests[c].pc = "done" /\ requests[c].op.kind = "checkout"
    /\ requests[d].pc = "done" /\ requests[d].op.kind = "checkout"
    /\ requests[c].op.key = requests[d].op.key /\ requests[c].op.key # None
    => requests[c].result = requests[d].result

(* No addition is lost that an acknowledgement stands for: while nobody    *)
(* updates, removes or clears, a cart, and then its order, holds of each   *)
(* product the units of the additions that committed and no other, whoever *)
(* created the cart: those acknowledged, and those that committed but      *)
(* failed to answer.  add_item has no key: a guest who repeats an addition *)
(* of the second kind has its units twice.                                 *)
Touches(c, s) == requests[c].op # None /\ requests[c].op.session = s
OnlyAdded(s) ==
  \A c \in Requests : Touches(c, s) => requests[c].op.kind \in {"add", "checkout"}
AddedTo(s, p) == {c \in Requests : /\ requests[c].pc \in Committed /\ Touches(c, s)
                                   /\ requests[c].op.kind = "add"
                                   /\ requests[c].op.product = p}
Units(s, p) == UNION {{c} \X (1..requests[c].op.qty) : c \in AddedTo(s, p)}
NoAddLost ==
  \A s \in Sessions, p \in Products :
    OnlyAdded(s) /\ menu[p].sale # "deleted" => Held(s)[p].qty = Cardinality(Units(s, p))

-----------------------------------------------------------------------------
(* The inductive invariant. *)

(* A request is at a step of the operation it asks for. *)
OpFits ==
  \A c \in Requests :
    /\ requests[c].pc # "idle" => requests[c].op \in Op
    /\ requests[c].pc \in {"insert", "reread"} => requests[c].op.kind = "add"
    /\ requests[c].pc \in {"checkout", "read", "order"} => requests[c].op.kind = "checkout"

(* A cart is checked out together with its order, and starts empty. *)
RowsFit ==
  \A s \in Sessions :
    /\ carts[s].status = "checked_out" <=> carts[s].order # None
    /\ carts[s].order # None => orders[carts[s].order] # None
    /\ carts[s].status = "none" => carts[s].items = NoItems

(* An order exists only when the request that placed it has committed. *)
OrderFresh == \A c \in Requests : orders[c] # None => requests[c].pc \in Committed

(* Whoever works on a cart holds its row, and the cart is open. *)
LockHeld ==
  \A c \in Requests : requests[c].pc \in {"mutate", "read", "order"} =>
    /\ lock[requests[c].op.session] = c
    /\ Cart(c).status = "none" => requests[c].pc = "mutate" /\ requests[c].op.kind = "add"
    /\ Cart(c).status # "checked_out"

(* No cart holds a product that is gone. *)
DeletedGone ==
  \A s \in Sessions, p \in Products :
    menu[p].sale = "deleted" => carts[s].items[p] = NoItem

(* What a checkout read is what the cart holds, but for deleted products.  *)
ReadCurrent ==
  \A c \in Requests : requests[c].pc = "order" =>
    /\ InCart(requests[c].read) # {}
    /\ \A p \in Products :
         menu[p].sale # "deleted" => requests[c].read[p] = Cart(c).items[p]

IInv == /\ TypeOK /\ OpFits /\ RowsFit /\ OrderFresh /\ LockHeld
        /\ DeletedGone /\ ReadCurrent

(* A key stands in one cart, which is checked out, and whoever checked out *)
(* under it was given that cart's order.                                   *)
Answered(c) == /\ requests[c].pc = "done" /\ requests[c].op.kind = "checkout"
               /\ requests[c].op.key # None
KeyInv ==
  /\ \A s \in Sessions : carts[s].key # None =>
       /\ carts[s].status = "checked_out"
       /\ \A t \in Sessions \ {s} : carts[t].key # carts[s].key
  /\ \A c \in Requests : Answered(c) =>
       \E s \in Sessions : /\ carts[s].key = requests[c].op.key
                           /\ carts[s].order = requests[c].result

-----------------------------------------------------------------------------
(* Liveness: every request that arrived is answered, or lost in a restart. *)
RequestsAnswered ==
  \A c \in Requests : requests[c].pc \in InFlight ~> requests[c].pc \notin InFlight

-----------------------------------------------------------------------------
(* Statements of the repository about this code, checked as they stand. *)

(* "Failed to create or retrieve cart after concurrent conflict.": when    *)
(* adding an item fails so, another request about the session's cart runs. *)
FailureIsConcurrentConflict ==
  [][\A c \in Requests :
       requests[c].pc = "reread" /\ requests'[c].pc = "server_error" =>
         \E d \in Requests \ {c} :
           Touches(d, requests[c].op.session) /\ requests[d].pc \in InFlight]_vars
=============================================================================
