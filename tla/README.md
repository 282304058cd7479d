# Taomly in TLA+

Taomly is a multi-tenant restaurant platform: guests order, pay, reserve tables
and call waiters from a Telegram Mini App or the web; restaurants, agencies and
a superadmin manage them. It is one FastAPI process (`uvicorn --workers 1`) over
PostgreSQL at READ COMMITTED, through synchronous SQLAlchemy. Handlers written
with `def` run on threads; the payment callbacks and the webhooks are `async def`
and run on the event loop.

The modules here model the parts of the program in which requests meet: where a
check and the write it justifies are separate statements, where a lock is taken
or forgotten, where a call is repeated. TLC checks them on small instances;
eight modules of proofs show the same safety properties for all instances.

## Inventory

| component | state | operations | who it meets | what is hard | correct when |
|---|---|---|---|---|---|
| payments (`modules/payments`) | `payments`, `payment_attempts`, `orders.paid_at` | create_payment; Payme Check/Create/Perform/Cancel/CheckTransaction; Click Prepare/Complete; sandbox callback | the order's status (admin PATCH), two providers that retry | checks without locks, lost replies, cancellation after payment, a callback that blocks the event loop | one open payment per order; paid_at is the truth; a paid order is never cancelled; a retry finds what the first call did |
| order status (`routers/orders.py`) | `orders.status` | PATCH status | payment callbacks, KDS | row lock from SELECT to commit; release of a refused request's lock | the graph of `status_transitions.py` is followed |
| cart and checkout (`modules/cart`) | `carts`, `cart_items`, `orders` | get_or_create, add/update/remove/clear, checkout, replay | order creation | a lock awaited by mutations and refused by checkout (NOWAIT); retries | one order per cart, with the items the cart had |
| order creation, quota (`routers/orders.py`) | `orders`, `subscriptions`, `usage_events` | create_order; kitchen board and lists | billing, tables, admin PATCH, background tasks | advisory try-lock around COUNT and INSERT; what runs after the response | no order judged by the quota exceeds it; what is announced has happened; an accepted order is seen by its kitchen, client and restaurant |
| scheduled orders (`modules/scheduled`) | `orders.status` | polling loop | admin PATCH, other workers | row locks released early; a swallowed exception | every due order is activated (it is not) |
| reservations (`modules/reservations`) | `reservations`, `locations.is_reservation_enabled` | create with Idempotency-Key; admin transitions | admin of the location | advisory lock per (location, phone), unique index, three lookups | limits hold for guests; a key names one reservation; history follows the graph |
| waiter calls (`routers/waiter_calls.py`) | `waiter_calls` | create, update status | several guests, several admins | check-then-insert, unlocked read | one open call per table (not when requests overlap) |
| locations and tables (`routers/restaurants.py`) | `locations`, `restaurant_tables` | create, update, delete; QR lookup | agency, waiter calls, orders | COUNT-then-write, slugs that move | one location stays active (not when two deletions overlap); a QR code finds its table |
| billing (`routers/billing.py`) | `subscriptions` | subscribe | quota | advisory try-lock | one active subscription |
| auth (`auth.py`) | `revoked_tokens` | login, logout, refresh, purge | every request | revocation against expiry | a revoked token is not accepted again |
| agency, superadmin | `agencies`, `restaurants`, bot tokens | create, update, delete, freeze, transfer, impersonate | Telegram | check-then-write of the bot token | no two restaurants accept one bot's users |
| Telegram (`handlers.py`) | `_BOT_CACHE`, one process | get_location_bot, invalidate_bot_cache; notifications | agency, webhooks, orders | a cache filled from what was read before, failures after the commit | a cached bot is the location's bot |
| menu (`routers/menu_admin.py`, `menu_public.py`) | `categories`, `products`, variants, modifiers, translations, photos in R2 | CRUD, photo upload; public menu | order creation, carts | rules kept three times, each in another location's time zone; deletions after the commit | what is sold is what is shown; photos in use exist |
| zones, analytics, AI, public pages | tables of their own | CRUD, reads, external calls | - | little shared state | - |

PROJECT.json lists the components with their sources and, under `hazards`, each
place where the code can go wrong in a way a unit test would hardly reach.

## Modules

- `StatusTransitions` — the status graphs of `status_transitions.py`, as data.
- `PaymentLedger` — what the payment service promises of an order, without
  requests, providers or locks: one open payment per order, money taken is
  recorded for good, a paid order is not withdrawn.
- `Payments` — the payment service and the order's status. `create_payment` is
  one action per query (`CreatePayment`, `ReplayLookup`, `CheckPaid`,
  `CheckActive`, `InsertPayment`), since it locks nothing and READ COMMITTED lets
  each query see what has been committed by then. A callback locks the payment's
  row and commits once, so it is one action; if it must wait for the order's row
  (`WaitForOrderRow`) it blocks the event loop meanwhile (`loop`). A PATCH is two
  actions, `LockOrder` and `UpdateOrderStatus`, with the row lock held between.
  A refused PATCH keeps the lock until `CloseSession`: FastAPI runs `get_db`'s
  rollback through the event loop. `view` is what a provider knows: the reply to
  any call may be lost, after which the provider repeats it or asks for the state
  of the transaction (`PaymeCheckTransaction`, which answers from `paid_at` alone).
- `PaymentsProofs` — theorems about `Payments`; `PaymentsMoneyProofs` — more of
  them, about amounts, providers and the audit trail.
- `Reservations` — the creation of a reservation, one action per query, with the
  blocking transaction-level advisory lock per (location, phone); the admin's
  transition under a row lock; the location's flag; the window of 60 minutes.
- `ReservationsProofs` — theorems about `Reservations`.
- `Basket` — what the cart promises a guest: ordered at most once, never empty,
  with exactly what the basket held.
- `Cart` — the carts of a restaurant under the row lock. A request looks its cart
  up without a lock (`Arrive`), may have to insert one (`InsertCart`,
  `RereadCart`), takes the row lock (`LockCart`, which waits; `LockForCheckout`,
  which does not) and holds it to the end. A mutation under the lock is one
  action; checkout is two, `ReadItems` and `CreateOrder`, because products change
  and disappear without the cart's lock in between (`UpdateProduct`,
  `DeleteProduct`). The three unique indexes decide in `InsertCart`, `Upsert` and
  `KeyTaken`. A commit and the answer to it are two things: what follows the
  commit (`db.refresh`, `build_cart_response`) may fail, so a request that has
  committed ends `"done"` or `"unanswered"` (`Commit`). `Cart!Ordering` maps it to
  `Basket`.
- `CartProofs` — theorems about `Cart`.
- `Orders` — the orders of one restaurant. `create_order` is one action per query
  that others can get in front of: `Begin`, `ReadPlan`, `TryLock`, `Count`,
  `Check`, `Insert`, `Respond`; whoever ends returns the advisory lock
  (`EndTransaction`). `subscribe` is three. Around them: the order of a checkout,
  status changes, the background notifications, table deletion, the clock,
  restarts, and the loop that should activate scheduled orders (`WakeUp`,
  `ImportFails`). The kitchen board and the lists are operators.
- `OrdersProofs` — theorems about `Orders`.
- `Tenancy` — agencies, restaurants, locations with slug and bot, sessions and
  revocations, and the cache of bots of the one process. An operation that
  judges what it reads and commits later is two actions, a third when it goes on
  after the commit. `update_restaurant` may fail in that third one, with the token
  committed and the cache as it was (`UpdateRestaurantFails`).
- `Floor` — `Tenancy` with tables, their QR codes and the calls of the waiter.
- `FloorProofs` — theorems about `Floor`, and so about `Tenancy`;
  `FloorRaceProofs` — more of them, about the checks that commit later.
- `Menu` — the menu of one restaurant: operations of its admins, photos in R2,
  the menus the public sees and the rules by which `create_order` takes an item.
  Locations have time zones of their own, and each of the three asks another one:
  `get_restaurant_by_slug` that of the location with the slug, `get_menu` that of
  the restaurant's first active location, `TakesItem` that of the location which
  gets the order.
- `MenuProofs` — theorems about `Menu`.
- `MCPayments`, `MCReservations`, `MCCart`, `MCOrders`, `MCFloor`, `MCMenu` —
  model values, rows found at the start, and symmetry for TLC.

Names follow the source. A row of a table is identified with the request that
inserts it, because a request inserts at most one; status `"none"` stands for a
row that does not exist yet. Amounts are abstracted to "equals the payment's
amount or not" (`WrongAmount`), timestamps to "set or not", texts to model values.
In `Orders`, `Tenancy` and `Menu` a request is used once, so `Requests` bounds
the operations of a behaviour. A few variables are history and are read by
properties only: `limit` and `month` of an order (what the quota judged it by),
`overlap` (which requests were in progress at one time), `loggedOut`, and `urls`
(whether a photo's URL has been given to more than one product).

## Runs

| run | asks | bounds |
|---|---|---|
| `PaymentsSafety` | every invariant of the payments tables, and `PaymentLedger`, in production | 1 order, 2 requests with or without one key, 2 Payme transactions (one with a wrong amount), 1 Click transaction, calls across providers |
| `PaymentsLive` | requests end; created transactions are settled; `PaymentLedger`, with the sandbox callback | 1 order, 2 requests with or without one key, 1 Payme transaction, an admin who asks for 2 statuses |
| `ReservationsSafety` | a key names one reservation; a retry is not refused | 3 requests, 1 phone, guest and verified user, 1 key, 2 sets of details |
| `ReservationsLifecycle` | guest limits; what two admins leave behind; requests end | 2 guests, limits 1 and 1, 2 admins |
| `CartSafety` | a key stands for one order; no committed addition is lost or counted twice | 4 requests, 2 sessions, 1 product, 1 key |
| `CartLifecycle` | `Cart` implements `Basket`; requests end | 3 requests, 1 session, 1 product with 2 prices, 1 key |
| `OrdersSafety` | quota, subscription, locks, tables, announcements, views | 2 orders, 2 subscribers, 2 own locations and a foreign one, 1 table, plans with limit 1 and none, a kitchen board that holds 1 order, one turn of the month |
| `FloorSafety` | isolation of bots, active locations, cache, revocation, QR codes | 3 requests, 2 restaurants and a new one, 3 locations, 4 tables, 3 calls, 4 tokens, 2 bots, time 0..2, restarts |
| `MenuSafety` | menus against order rules, photos, bounds, foreign keys | 3 requests, 2 products, 2 variants, 2 groups, 3 options, 3 photos, a day of 4 hours, 2 zones and a bad one |

Two requests are enough for each race of `create_payment`, whose conflicts are
pairwise; two transactions let a second one arrive while the first is in any
state. Of the statuses an admin may ask for (`Targets`), two do for the liveness
run: accepted is a change that holds the row lock, cancelled one that ends the
order. Orders do not interact. The guest limits need one request more than the
limit allows. To use one key for two carts takes four requests, two that fill the
carts and two that check out; to put an item into a cart that is checked out
meanwhile takes three. Two orders meet at a limit of one; the quota, the turn of
the month and a change of plan need no third. The operations of `Floor` and
`Menu` disturb each other in pairs, and a third shows what a later reader finds;
the rows found at the start let the first of them be any operation. A day of
four hours has windows that cross midnight and zones that move an hour past it.
All state spaces are finite without constraints. The runs of `Floor` and `Menu`
do not check deadlock: when every request is used nothing more happens.
`OrdersSafety` does, since status changes, notifications and restarts go on.

The properties of `Floor` about races say what goes wrong *only* when the
operations they name overlap: the code guards with a check that is not locked,
so what it keeps is that operations one after the other never break the rule,
whatever else happens between them (`Overlapping`). Where the code says that the
overlap itself is harmless, a run below shows that it is not.

Three more runs check a statement of the repository that the code does not keep,
and TLC shows how; PROJECT.json quotes the statement:

| run | statement | what happens |
|---|---|---|
| `FailureIsConcurrentConflict` | the 500 of get_or_create_cart is a concurrent conflict | it is the answer to every addition after a checkout, since the unique index covers checked-out carts |
| `OneCallPerTable` | of two simultaneous calls of the waiter the second waits and gets 400 | FOR UPDATE finds no row to lock; both are inserted |
| `ScheduledOrderActivated` | an order activates when its time has come | the loop's import of `VALID_STATUS_TRANSITIONS` fails, the error is logged, the order stays new |

### What else the models contain

Behaviour met while modelling that no property excludes, beyond these runs. The
actions named contain it.

- `Payments`: an order may be cancelled between `CreatePayment` and
  `InsertPayment`, and the payment of it be paid, although the code says a
  payment is for a non-terminal order (`modules/payments/service.py:209`).
- `Payments`: Payme's CreateTransaction takes up a payment made for Click
  (`CrossPay`); PerformTransaction then finds no row (`service.py:479`, `553`).
- `Payments`: a refused PATCH holds its row lock until the event loop runs
  `get_db`'s cleanup; a callback that waits for this row blocks that loop
  (`WaitForOrderRow`, `CloseSession`). Only a restart helps (`MonitoredSpec`).
- `Payments`: CheckTransaction "returns current state"
  (`modules/payments/tests/test_payments.py:645`), but tells it from `paid_at`
  alone: it calls a cancelled payment created and a reversed one performed. A
  repeated CreateTransaction says created of a performed payment. So
  `ProviderAgreement` concludes from "created" only that the payment is the
  transaction's, and from "performed" only that it was paid once.
- `Payments`: a payment the sandbox callback has cancelled can neither be
  performed nor cancelled, and the provider is never told of its end
  (`CreatedIsSettled`).
- `Cart`: an addition whose answer fails after the commit is in the cart, and a
  client that repeats it has its units twice. `NoAddLost` counts committed
  additions, acknowledged or not.
- `Reservations`: a verified user, who takes no lock, can insert between a
  guest's COUNT and INSERT; `GuestLimits` counts guests' rows only.
- `Orders`: checkouts ask no quota (`Checkout`), so the plan's limit can be
  exceeded by them; `QuotaRespected` is about the orders that are judged. The
  sum of a direct order leaves out the modifiers' price (`routers/orders.py:508`)
  where the cart's has it (`modules/cart/service.py:481`). The limit of the
  kitchen board counts finished orders too (`KdsAnswers`), and then hides active
  ones. The commit inside the activation loop (`activation.py:133`) is never
  reached.
- `Orders`: the background tasks run in any order after the response, so a
  message may name a status the order has left by then (`Notify`).
- `Floor`: `update_status` judges a call it has read without a lock, so a call that
  another admin ends meanwhile is opened again (`waiter_calls.py:244`), although
  ended is final (`:239`).
- `Floor`: `update_location` can part a location's slug from its restaurant's, which the
  text of `get_table_by_number` takes to be equal. `create_table` promises
  numbers unique in the restaurant, the database only in the location.
- `Tenancy`: `update_restaurant` promises to reset the cached bot when the token
  changes (`agency.py:448`). If `db.refresh`, after the commit, fails, the answer
  is 500 and the cache keeps the old bot until a restart (`UpdateRestaurantFails`);
  a webhook that has read the old token may also fill the cache again. `CacheFresh`
  names both.
- `Tenancy`: guard I-4, the only active location stays active (`restaurants.py:812`),
  counts before it commits: two admins who each delete one of two locations leave
  none. `ActiveLocationRemains` names this overlap.
- `Tenancy`: `update_restaurant` of a restaurant without active location drops
  the new bot token with a warning. A revocation that the purge forgot is void
  for the rest of the second in which the token expires, because the library
  compares whole seconds and PostgreSQL does not.
- `Menu`: `delete_category` says it deletes the category's products
  (`menu_admin.py:413`), but the relationship has no cascade and the foreign key
  sets NULL: they stay without category, count in the quota and can be ordered,
  while no menu shows them. `SoldAsShown` leaves them out.
- `Menu`: `get_menu` says it returns only what is available (`menu_public.py:84`),
  and judges that in the time zone of the first active location. An order at a
  location in another zone may be refused what this menu shows, and be given what
  it does not; the location's own menu agrees with the order (`SoldAsShown`). The
  product quota counts and inserts without a lock. A photo's URL that a second
  product is given dies with the first.

## Fairness

- A request that has started runs on. Threads are scheduled, PostgreSQL grants
  locks in the order they were asked for, so a step that waits for a lock is
  taken if the lock is free again and again: strong fairness for the steps of a
  request, weak for those that wait for nothing.
- Providers repeat a call without reply, and not every reply is lost: strong
  fairness of the delivered Perform or Cancel (`PaymeSettles`).
- `MonitoredSpec` adds that the platform restarts a worker whose event loop is
  blocked. Without it the service can stay stuck; it is assumed only where it is
  named.
- `LiveSpec` of `Orders`: steps of requests and the polling loop go on (weak
  fairness: they wait for nothing), and the worker is not restarted. It is the
  most favourable case for `ScheduledOrderActivated`, which fails all the same.
- Clients, admins, the passing of time, CheckTransaction and the failures of
  what follows a commit are under no fairness.

## Proofs

Every invariant, action property and refinement that a passing run checks is
also a theorem, for any number of requests, rows and limits. The proofs have
one step per action; where most actions leave a part of the state alone, a lemma
says so once. The assumptions on the constants are named in the modules that
declare them, and TLC evaluates them in every run.

`PaymentsProofs` proves, for all values of the constants that satisfy
`ConstantsAssumption`:

- `TypeInvariant`, `OneActivePaymentHolds`, `PaidProjectionHolds`,
  `IdempotentReplayHolds`: `Spec => []...` for four of the invariants of
  `PaymentsSafety`;
- `PaidOrderNotCancelledHolds`: the action property;
- `Refinement`: `Spec` implements `PaymentLedger`.

None of them is inductive alone. `IInv` joins them with: rows exist entirely or
not at all (`RowsExist`); a request in flight has inserted nothing (`FreshRow`);
the key index (`KeyUnique`); an answer is a payment of the requested order and
key (`AnswersMatch`), from which `IdempotentReplay` follows; what a PATCH read is
what the row holds while it has the lock (`LockedRowSeen`), from which
`PaidOrderNotCancelled` and the `Withdraw` step of the refinement follow.

`PaymentsMoneyProofs` adds `MoneyIsExactHolds`, `ProviderAgreementHolds` and
`AttemptsAgreeHolds`. The invariant says that a payment was taken up by the
transaction that was opened for it (`Accounts`) and that a row's status, its
transaction and its `paid_at` fit each other (`RowsAgree`); of each transaction,
that what the last reply allows its provider to conclude is something the row
has reached and does not take back (CheckTransaction may call a cancelled
payment created, so nothing is concluded from that word but the transaction); of the audit trail, row by row, the
attempt that matches the status. The last two theorems are about production: the
sandbox callback changes payments behind the provider's back.

`ReservationsProofs` proves, from `ConstantsAssumption`:

- `TypesHold`, `ReplaysAgree` and `HistoriesTold`: `TypeOK`, `IdempotentReplay`
  and `StampsTellHistory`. The unique index makes rows with one key one row
  (`KeyUnique`), and what a request was given exists and is what it asked for
  (`Answers`); rows keep their form and never return to an active status. A seated,
  completed or missed reservation has the stamp of its confirmation, because the
  row lock makes the status an admin judges the status it changes.
- `LimitsHold`: `GuestLimits`. A guest holds the advisory lock of its phone from
  its counts to its INSERT. What guests hold of a phone is therefore no more than
  the guest with the lock counted, since others' rows only leave the count, and
  its own INSERT adds one to a number below the limit. With the lock free the
  number is at most the limit.
- `RetriesNotRefused`: the action property `RetryNotRefused`. A request looks for
  its key again once it has the lock; if it goes on to the counts, no reservation
  has this key and these details, and none gets them while the lock is held
  (`NoTwin`), since they name the guest's phone too.

`CartProofs` proves, from `ConstantsAssumption` and `NullAssumption` (SQL NULL is
no request, no key, no list of items and no operation):

- `TypeInvariant` and `Invariance`: `Spec => []TypeOK` and `Spec => []IInv`;
- `Refinement`: `Spec` implements `Basket`;
- `OneOrderPerKeyHolds`, `NoAddLostHolds`: the invariants of `CartSafety`.

That an order holds what the cart held needs a chain: whoever works on a cart
holds its row (`LockHeld`), so no other request changes it between the reading
of a checkout and its INSERT; what was read is therefore what the cart holds,
but for products that were deleted (`ReadCurrent`); those have left the cart
(`DeletedGone`), and a checkout that read one fails on the foreign key. A cart
is checked out exactly when it has an order (`RowsFit`), and a request whose
checkout is under way has no order yet (`OrderFresh`), so the step that places
one is `Order` of `Basket` and every other step is its `Change`. `StepMoves`,
`StepLocks` and `StepCarts` say once what a step of a request can touch;
`AsideSteps` and `AsideMenu` say it of everything else.

For `OneOrderPerKey`: two orders never carry one key, as the index decides in
`CreateOrder`, and what a checkout was answered is an order of the key it gave.
For `NoAddLost` the units of an addition are pairs of the request and a number,
so the units of all committed additions, answered or not, are a set, and the
cart holds as many as this set has members (`UnitsInv`). A committed request stays
so (`RequestKept`); only an addition that commits changes the quantity of a product
that is on the menu (`QtyStep`), and it does so in the step that commits it, under
the row lock; a checkout orders what it read, which is what the cart holds.

`OrdersProofs` proves, from `OrdersAssumption` and `AnswerAssumption` (no status
code is NULL), for any number of requests, any limits, plans and length of month:

- `TypeInvariant`, `OneActiveSubscriptionHolds`, `LocksReleasedHolds`: three of
  the invariants of `OrdersSafety`;
- `TablesServeLocationHolds`: another one;
- `QuotaRespectedHolds`: the action property;
- `NoticesTellTruthHolds`, `AcceptedIsServedHolds`: the invariants about what is
  announced and what the views show.

For the subscription the invariant says that whoever is past the try-lock holds
it, and that what its UPDATE found active is still all that is active: then the
commit leaves one active row. For the quota: a request that is past `Count` with
a limit holds the advisory lock, and the orders of the month it counted in that
were judged by a quota are fewer than that limit. The count can only fall behind
it: another judged order needs the lock, a cancelled order leaves, and the clock
moves forward. `Insert` adds one row, so the cardinality is at most the limit
(`FS_AddElement` and the monotonicity of cardinality). Steps that do not touch
orders, requests and locks are dealt with once. For the tables: what `Check` found
of a table (`Fitting`) can only be undone by its deletion before the INSERT, which
the foreign key notices, and after it sets the order's table to NULL. What is
announced is scheduled after the commit, orders are not deleted and statuses
follow the graph, so a notice is true in whatever order the background tasks run.
That the kitchen board shows an active order while the active orders of its
location are within the limit is a statement about the rows ahead of it, for
every limit.

`FloorProofs` proves, from `TenancyAssumption`, `FloorAssumption` and
`ExistingAssumption` (every restaurant found at the start has an active location;
one that was inactive when migration 0010 introduced locations would have none):

- `RevokedStaysOutHolds`. A token that was logged out has claims, and is in
  `revoked` or expired before now (`RevokedInv`). Only a purge takes it out of
  `revoked`, and the clock does not go back; `jose` compares whole seconds, so
  such a token is accepted only within the second in which it expires.
- `TypeInvariant`. `TypeOK` alone is not inductive, because a commit uses what
  the request has read: `Ops` adds that a location it is about still exists and
  that a bot it has read is a bot (`Fits`).
- `ActiveLocationRemainsHolds`. Guard I-4 counts before the commit, so the
  invariant speaks of the deletions in progress (`Left`): each one leaves another
  active location or was in progress together with one that has committed.
  Requests in progress at one time are recorded as such (`RunPairs`), so a
  commit that takes the other location from a deletion in progress gives that
  deletion its excuse, and when the last location goes the two are in `overlap`
  (`Clash`). That a count above one leaves another location is a fact about
  cardinality (`AnotherActive`). `Frame` and `RowsKept` say once what no step
  does to requests and rows.

`FloorRaceProofs` proves, in addition from `FoundAssumption` (the rows found at
the start obey the keys, and no race has happened before): `BotIsolationHolds`,
`CacheFreshHolds` and `QRFindsTableHolds`. They share one
argument. What a request has done is not taken back, and requests that wait to
commit overlap (`RunPairs`). A request judges what it reads; a commit of another
that makes this judgement false gives it its excuse, a request it overlapped and
that has acted (`Met`). When it then commits, the two of them excuse what the
state has become (`Excused`), and what made them overlap stays so. The cache adds
that an entry is written from a row read before and removed after every commit
that changes the bot of a location unless the request fails in between, so an
entry that is wrong belongs to a request still to invalidate it, to one that
failed before it could, or to an overlap; a restart empties it. For the
QR codes: slugs are unique among locations, numbers in a location, by the
indexes.

`MenuProofs` proves, from `MenuAssumption` and `ExistingAssumption` (the menu
found at the start obeys its foreign keys and the CHECK, its categories are the
restaurant's own, and a photo is missing or shared only if its URL was reused):

- `TypesHold`: the types, that each row's parent exists, that categories are the
  restaurant's own, and that a request in progress carries what its operation
  needs (`TypeInv`).
- `GroupBoundsHolds`: a group's bounds are checked by `create_modifier_group`, or
  by the CHECK when a PATCH compared a new bound with one that has changed.
- `SoldAsShownHolds` follows from `TypeInv`: what was checked of an item, part by
  part, in the zone of the order's location, is what the menu of that location
  shows, and the restaurant's menu when it is judged in the same zone. Of the hours, `WindowIsWalked` shows for a day of
  any length that `is_within_schedule` admits exactly the hours that the clock
  passes between the window's start and its end, over midnight too.
- `ShownPhotosExistHolds`: a photo given once is on one product, and whoever may
  remove the file saw the photo on that product; once the product's row let go
  of it, no row has it (`PhotoInv`). Each step does one of four things to a photo
  (`PhotoStep`).

Only model-checked: liveness, which needs fairness and ENABLED and is out of the
prover's reach (`RequestsAnswered` of `Payments`, `Reservations` and `Cart`,
`CreatedIsSettled` of `Payments`), and that the three statements above are violated.

## Plan

Modelled first: what concerns money, then the components with the most intricate
concurrency control, reservations and carts; then orders with quota and billing,
the dining room with everything that decides who may act in it, and the menu.
Left, in this order:

1. The sum of an order (variants, modifiers, zone fee) in `create_order` and in
   the cart, against each other.
2. Delivery zones, with the fee a checkout has read.
3. The size of the connection pool.

## Not modelled

Cryptography (JWT, password hashes, provider signatures, initData, token
encryption), names, texts, translations' wording and the content of
notifications, amounts other than of payments and carts, delivery zones,
`update_restaurant_settings`, the registration of webhooks with Telegram,
read-only dashboards and lists of the superadmin, analytics, the AI assistant,
the token by which a guest of the web reads an order, the browser code, request
rate limits, the size of the connection pool. Carts of before phase 14 without
order_id are left out. Of time there are days in `Orders`, hours in `Menu`,
half seconds in `Tenancy` and none elsewhere. Requests that are refused without
reading or writing the modelled state are left out.
