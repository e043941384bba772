# Business & Life: a TLA+ model of orders, stock, procurement, payments, delivery and services

Business & Life is a local-economy platform: customers order from merchants,
merchants keep an inventory of ingredients in supply lots and storage places and
buy from suppliers, payments go through a hosted checkout, couriers deliver,
providers of local services do jobs at an agreed price. It is a Node.js program
on PostgreSQL made of express layers embedded in one another
(`server-paymongo.js` is the entry). Almost everything that has to be right
about it is in how handlers on the same rows interleave. This project models
that where a mistake costs stock or money, or leaves a customer without a
delivery.

## 1. Inventory of the system

| Component (source) | State it keeps | Operations | What makes it hard | What makes it correct |
|---|---|---|---|---|
| Orders (`server-orders.js`) | `orders`, `order_items`, status events | place, check in, confirm presence, record payment, start, ready, hand off, complete, cancel | combinations of payment method, fulfilment, presence and trust; cancel at every stage | stock follows the status; nothing is prepared before its gate |
| Reservations (`order-stock-reservation.js`) | `order_stock_reservations` and their lots, `order_stock_consumptions`, lot allocations | reserve or extend, expire, consume, release, return | expiry between acceptance and start; a live hold that is not planned again | no double promise; taken once, returned once |
| Lots (`inventory-lot-core.js`, `inventory-lot-runtime.js`) | `supply_lots` | three planners; apply, restore | lot state, expiry and recall change under a plan | lots and aggregate conserve what was received |
| Inventory movements (`server-business-accounting.js`) | `inventory`, `inventory_adjustments`, `product_sales` | loss, count, counter sale, prepared removal | ignore reservations | quantities never go below zero |
| Unavailable stock (`inventory-state-core.js`) | `inventory_unavailable_allocations` | put aside, put back | no lock, no comparison with the shelf | |
| Storage places (`inventory-locations.js`) | balances per item and place, per lot and place, home places, transfers | transfer, reverse, new home, purchase, repair by the page that shows them | balances follow the quantities late; the page repairs them without a transaction | transfers make and lose nothing; drift heals |
| Count sessions (`inventory-count-sessions.js`) | sessions with their snapshots | open, save, review, resume, post; of the business or of one place | the shelf moves between snapshot and posting | the books move by the variance that was approved, and promised stock stays |
| Supplier commerce (`server-supplier-commercial-v3.js`) | recalls, returns, invoices, agreements | receive, recall, return, invoice | recall against lots in use; a dispatch that reads before its transaction | a recalled lot stays held; goods are returned once |
| Procurement (`server-suppliers.js`, `server-supplier-exceptions-v5.js`, `server-supplier-domain-v2.js`) | purchase orders and items, backorders, booked payments, lot sources | order, confirm, reject, backorder, receive, receive by hand, repack, pay | progress may be reported from any open status; a stock level read before the transaction; computed evidence numbers | goods are traced, refusals hold, every payment is in the books |
| Marketplace (`server-marketplace.js`) | storefronts, products | place, start, cancel, edit product | repeats Orders' handlers for its own orders | the same |
| Payment Core (`payment-core.js`) | `payment_intents`, `order_payments`, `provider_events`, `refunds`, `payment_allocations` | create intent, mirror, register event, request refund | statements that commit one by one; at-least-once events | paid once, never overpaid, nothing lost |
| PayMongo (`paymongo-adapter.js`) | `payment_attempts`, provider sessions | checkout, webhook, refund execution, reconciliation | waits for the provider between check and write | as above; no refund that the provider did not make |
| Payments gateway (`server-payments.js`) | none | mirror hook after the response | the hook may never run, or run late | every payment has its intent |
| Delivery (`server-delivery.js`) | `deliveries`, `delivery_offers`, `courier_profiles.available`, quotes, handoff failures | checkout, offer rounds, availability, accept, decline, assign, status, complete | two-transaction checkout, unlocked status reads, expiring offers, availability snapshots | one courier for a delivery and one delivery for a courier; handed over before it is carried; nothing dispatched that is not ready |
| Courier pay (`courier-compensation-core.js`, `reconcileDeliveryRefundEconomics` of `paymongo-adapter.js`) | `payment_allocations` of deliveries | allocate on completion; hold or reverse after a refund | completion and refund read each other's rows unlocked | refunded pay is not paid out; a reversal stands |
| Local services (`server-services.js`) | jobs, quotes, change orders, intents of jobs | ask, quote, answer, report, complete, confirm, pay | quotes lapse and replace each other; two lock orders | the price is that of one quote; no more than it is paid |
| Supplier profiles, sourcing (RFQ) and the daily view | their own tables | publish, quote, award | little interleaving | |
| Accounts, sessions, hardening | accounts, sessions, MFA marks | sign in, step up, revoke | revocation against use | |
| Governance, admin, support, notifications, legal, incidents, trust, monetisation, finance views, receipts, evidence, catalogue | their own tables | mostly single-transaction CRUD | little interleaving | |

How they interact: Orders and Marketplace call Reservations inside their own
transaction; Reservations reads `supply_lots`, `inventory` and
`inventory_unavailable_allocations`, which Movements, Count sessions,
Procurement and Supplier commerce write. The places' balances are written by
transfers, purchases and counts only, and repaired when they are shown.
PayMongo's webhook credits the order and, when that covers it, reserves stock
and accepts it in the same transaction; the Payments gateway calls Payment Core
after the response of a route of the accounting layer. Delivery reads the
order's status when a courier is requested and writes it at pickup and at
completion; the order's cancellation does not tell Delivery. A completion
allocates the courier's pay, which the end of a refund holds or reverses. A
completed service job is paid through intents of the same Payment Core.

Concurrency and failure: PostgreSQL READ COMMITTED, `NOW()` is the start of the
transaction. A handler that is `BEGIN; SELECT ... FOR UPDATE; ...; COMMIT` is
one atomic step. A handler with plain `pool.query` calls is one step per
statement. Provider calls are lost, late or repeated; webhooks are repeated
until answered 2xx; the process may stop anywhere.

The complete list of hazards, with line numbers and the properties that guard
against them, is in `PROJECT.json`.

## 2. Plan

Done, in this order:

1. **LotPlanning, OrderStock** - orders, reservations and the shelf;
   **StockPromise** is what they promise.
2. **Payments**, **Refunds** - intents, checkout, webhooks, hand-recorded
   payments, refund requests and executions.
3. **Dispatch** - delivery from the request for a courier to completion.
4. **StockPlaces**, **CountSession** - where the stock is, and counting it
   against a moving shelf, on top of OrderStock.
5. **Procurement** - purchase orders, the ways goods come in and go back, and
   the money, on top of OrderStock.
6. **ServiceJobs**, **JobPayments** - quotes, change orders and the payment of
   a job; **Bargain** is what they promise.
7. **CourierPay** - completion and refund of the same order, on top of Refunds.

Left:

- An abstract specification of delivery (one courier, who alone moves it
  forward) that Dispatch implements.
- Delivery quotes and checkout; the notifications outbox; sessions.
- The planner loops as recursive functions, shown to compute what LotPlanning's
  predicates say, over bounded inputs.

Runs: one question each, a dozen in all. A module that comes later joins its
question to a run whose instance can answer both; its instance then has several
kinds of `day` (section 4).

## 3. Modules

```
LotPlanning <- OrderStock <- StockPlaces <- CountSession <- MCCountSession
                    |   <- Procurement <- MCProcurement
                    |   <- MCOrderStock          (implements StockPromise)
Payments <- Refunds <- CourierPay <- MCPayments
Dispatch <- MCDispatch
ServiceJobs <- JobPayments <- MCServiceJobs      (implements Bargain)
Sums: totals over rows, used by all but Dispatch

SumsProofs <- OrderStockProofs <- CountSessionProofs   (StockPlaces, CountSession)
           |                   <- ProcurementProofs
           <- PaymentsProofs <- CourierPayProofs       (Payments, Refunds; CourierPay)
           <- ServiceJobsProofs                        (ServiceJobs, JobPayments)
DispatchProofs
```

### Sums

`Total(f, S)`, the sum of a column `f` over a finite set `S` of rows: SQL's
`SUM` and JavaScript's `reduce`. It is the fold of the community modules, so
that TLC evaluates it and theorems can be stated about it.

### LotPlanning

The three planners as predicates on the amounts taken from each lot: FEFO
(`planFefoAllocation` and the reservation planner), count (loose stock first)
and loss (lots first). LOOSE stock is what the aggregate row has beyond its
lots. The loop they share is stated by its outcome, `IsFefoTake`: it fixes the
amounts, because lots have a total order.

### OrderStock

| Model | Code |
|---|---|
| `status`, `terms`, `presence`, `paid` | the `orders` row |
| `hold`, `heldLots` | `order_stock_reservations` and their lots; after a start, the lot allocations. A row past `expires_at` and one the sweep released are both "released": every reader filters on both |
| `stock` | `stock_consumed_at`, `stock_reversed_at` |
| `onHand`, `lotQty`, `lotState` | `inventory.quantity` or `marketplace_products.stock_quantity`; `supply_lots` |
| `expired`, `recalled`, `withheld` | expiry dates passed, `supply_recall_lot_matches`, active unavailable allocations |
| `booked`, `lotBooked` | the evidence rows of movements other than orders |

One action per handler, each the whole transaction: `PlaceOrder`, `CheckIn`,
`ConfirmPresence`, `RecordPayment`, `StartPreparation`, `MarkReady`, `HandOff`,
`Complete`, `Cancel`; `LapseHold` is the passage of `expires_at`; the shelf's
other movements are `RecordLoss`, `RecordLotLoss`, `RecordCount`,
`SellAtCounter`, `ReceiveLot`, `RecallLot`, `LotExpires`, `Withhold`,
`PutBack`, `SetMarketStock`. A 4xx answer rolls back and is not a step.

Abstractions: one business; all rows of an order share one expiry; a counter
sale uses one ingredient; trust is a boolean fixed when the order is placed; the
total of an order is fixed (delivery checkout adds its fee in a second
transaction, which is not modelled). The start of an order that still waits
for its customer is guarded by trust as in the code, but trusted orders never
wait. A courier's completion of a delivery order belongs to Dispatch.

### StockPromise

The abstract specification: an order may hold, lets go, takes in full if the
units are there, gives back in full, or is dropped. It has no lots, statuses or
expiry. `KeepsPromise` is OrderStock under the mapping `Claim`.

### StockPlaces

| Model | Code |
|---|---|
| `at`, `lotAt` | `inventory_location_balances`, `inventory_lot_location_balances` |
| `home` | the place the item's storage columns name |
| `transfer` | `inventory_location_transfers` and their lots |
| `repair` | the page that is reconciling: what it has left to do, what it has read, what it has planned to write |

Orders, receipts and adjustments change a quantity and no balance. A balance
that differs from its quantity is DRIFT, and it is settled either inside a
transaction (`Settled`, `LotsSettled`: the surplus goes to the home place, a
lack is drained in a fixed order, `DrainItem` and `DrainLot`) or by the page,
whose statements commit one by one: `RepairReads`, `RepairPlans`,
`RepairWrites`, with any other transaction in between. `TransferFefo`,
`TransferLot`, `ReverseTransfer`, `Rehome` and `BuyLot` are one transaction
each. Only one page of a business repairs at a time, as in the code, which
keeps its repairs in a map.

Abstractions: no counted products (they have no places); names, conditions and
identifiers of places are left out. `RepairPlans` takes what the code reads one
statement after the other (`inventory-locations.js:185-207`) at one moment, and
the two 409 answers on the way (`:177`, `:218`), after which the page is opened
again, are left out.

### CountSession

One `session`, the latest; a business has at most one that is active. `OpenCount`
snapshots the quantities of some items, `OpenCountAt` the balances of a place
after settling them; `SaveCount`, `ReviewCount`, `ResumeCount`; `PostCount` looks
at the snapshot again, at reservations and withheld stock, and corrects items,
lots and balances in item order. What an item's balances are when its turn comes
depends on whether it or an earlier item was short (`ReconciledBefore`), because
taking lots off reconciles the whole business.

### Procurement

| Model | Code |
|---|---|
| `poStatus`, `expected` | `purchase_orders` |
| `confirmed`, `received` | `purchase_order_items` (`Unanswered` is NULL) |
| `backorder` | the line's latest `supplier_backorders` row |
| `invoiced`, `poPaid`, `ledger` | active invoice evidence; `paid_amount`; the booked expenses by `source_id` |
| `ret`, `dispatching` | `purchase_returns`; dispatches that have read the status and have not locked the row |
| `source`, `lotIn` | what a lot came from, and with how much |
| `byHand`, `overwritten` | receipts by hand between their read and their write; a history variable: the net movements such a write has written over |

One action per handler except two: the dispatch of a return is `BeginDispatch`
and `FinishDispatch` or `FailDispatch`, a receipt by hand
`ReadForReceiptByHand` and `ReceiveByHand`. The second writes the sum of a
level it has read earlier, so movements in between are lost from the aggregate;
the code says nowhere that they are not, and `GoodsTraced` accounts for them by
`overwritten`: exactly those, and no others, are missing.

Abstractions: confirmed and actual prices equal the ordered price; one lot per
return; invoices are a sum; a proposal of a backorder, which reads without
locks, is one action, because nothing looks at a proposal but its answer.

### ServiceJobs, JobPayments, Bargain

ServiceJobs has the job row (`status`, `confirmedDone`, `accepted`,
`agreedTotal`, `quoteAmount`, `finalPrice`) and the job's quotes by version.
Every handler locks the job and is one action; that a quote has lapsed is
noticed when it is answered (`FindExpired`), not before.

JobPayments adds intents, checkout and webhook of a job. Creating an intent
locks the job and then the intents that are over; the webhook locks an intent
and then the job. So both transactions are cut at the lock they may wait for:
`creating[j]` and `held[i]` are the locks, `BeginIntent`/`EndIntent` and
`LockIntent`/`Credit` the halves, and `AbortWebhook` and `AbortIntent` what
PostgreSQL does about a deadlock. `Restart` releases every lock. A refund is one
action here; Refunds has it statement by statement. It was asked for while the
intent was confirmed, and its execution does not look at the status again.

`RecordCheckout`, the write of a checkout call that waited for the provider,
excludes only "succeeded" (`paymongo-adapter.js:339`): an intent refunded
meanwhile is open again. `serviceJobPaymentSummaryDb` then no longer counts its
amount as confirmed but still counts its refunds, so what remains of the payment
is missing from what was paid (`NetPaid`), and the clamp at zero (`PaidFor`) may
hide the refunds of others. The history variable `forgotten` names the intents
this has happened to; no guard reads it.

Bargain is the abstract specification: a price may be agreed anew until the work
is done and never after, and what was paid, less what was paid back, is never
more than it. `KeepsBargain` maps the final price, or the agreed total before
there is one, to the price. Once something was paid back, the books of a job may
be lost (`Unbook`), and nothing is promised of its amounts from then on:
`RecordCheckout` does that, and nothing else does. The price, and every job
whose books were not lost, keep the whole promise.

### Payments

| Model | Code |
|---|---|
| `orderStatus`, `paid`, `rows` | `orders`, `order_payments` with their `payment_intent_id` |
| `hooks` | responses of the merchant payment route whose mirror has not run |
| `intent`, `amount`, `openAttempt` | `payment_intents`, `payment_attempts` |
| `calls` | checkout calls between the provider's answer and the local write |
| `session` | the provider's checkout session (external) |
| `event`, `handling`, `failing` | `provider_events.processing_status`; deliveries before `BEGIN`; deliveries after `ROLLBACK`, before `markProviderEvent` |

A webhook is three steps: `Deliver` registers the event, then one of
`FindDuplicate`, `HoldForReview`, `Credit` (the transaction) or `RollBack`, and
after a rollback `MarkFailed`. A checkout is two: `BeginCheckout` and
`RecordCheckout`. `Restart` drops everything under way and runs the backfill.
Every order is an online order; "accepted" stands for it and what follows; a
stock shortage is a possible outcome of any credit that would accept an order.
Idempotency keys give one provider session per intent, so the code's branch for
an event of another session is never reached. Money is whole units; the code's
0.001 tolerance is not modelled.

### Refunds

Neither `createRefundRequest` nor `executePayMongoRefund` opens a transaction,
so each statement is a step. `CheckRefund` and `InsertRefund` are a request; an
execution is `StartRefund`, `MarkProcessing`, `ProviderTakes`, `TakeAnswer`,
`BookRefund`, `TotalRefunds`, `CloseRefund`, `EndExecution`, and
`ExecutionFails` is the catch, possible from every place inside the `try`. Any
number of executions may be under way. The provider takes one refund per key,
answers `pending`, `processing`, `succeeded` or `failed`, ends moving refunds
without telling, and declines what exceeds the payment (external, from how the
code uses it). All of Payments runs alongside (`PaymentStep`).

### CourierPay

| Model | Code |
|---|---|
| `pay` | `payment_allocations` of deliveries: order, the payment they come from, share, status |
| `completing`, `completed` | a completion between its reads and its write; how many there were |
| `review` | a worker's `reconcileDeliveryRefundEconomics`: what it has read and which shares are left |
| `audited` | intents whose reconciliation failed, with the audit event that says so |

The completion is one transaction under READ COMMITTED: `BeginCompletion` reads
pay on record and refunds, `ReadEvidence` the payments, `CommitCompletion`
inserts; refunds commit in between. The reconciliation has no transaction:
`ReadPosition`, `ReadShares`, `SettleShare` for each share, `ReviewFails`. It
starts where the execution closes its intent (`CloseAndReview`) or when a person
executes a succeeded refund again (`ReviewAgain`). A payment covers merchandise
first and the delivery with the rest (`DeliveryPart`). All of Refunds runs
alongside, unchanged.

Abstractions: the split of an amount between shares in cents; which policy is
active (only whether there are shares). No settlement is ever written by the
code, so no share's cash has moved.

### Dispatch

| Model | Code |
|---|---|
| `orderStatus` | `orders.order_status`; what precedes "ready" is one value |
| `delivery`, `courier`, `round` | `deliveries.status`, `courier_account_id`, `dispatch_round` |
| `offer` | `delivery_offers`, one row for each delivery, courier and round (its UNIQUE key); "closed" is withdrawn or expired, which no handler tells apart |
| `available`, `eligible` | `courier_profiles.available`; approval, expiry dates and documents in order (`courierEligibilityAssessment`) |
| `joining`, `seen` | availability transactions that are open, and the waiting deliveries they read |
| `call` | status calls between their read of the delivery and their write |
| `failures`, `lock` | `handoff_failed_attempts`, `handoff_locked_until` |

A handler that locks the rows it decides on is one action: `RequestCourier`,
`Accept`, `AcceptRefused`, `Decline`, `Assign`, `Review`, `GoUnavailable`,
`Reconcile`, `WrongCode`, `Complete`. Turning available is `BeginShift` (the
transaction holds the courier's profile row and reads the waiting deliveries
without a lock) and `EndShift` or `AbortShift`; actions that need that row wait
(`c \notin joining`). A status call is `BeginStatus` (read outside the
transaction) and `EndStatus` (an unconditional write) or `DropStatus`. Time is
`OfferLapses`, `EligibilityLapses` and `LockLapses`. `MarkReady`, `HandOff` and
`CancelOrder` are the order's own handlers as far as Delivery sees them.

Abstractions: a ready delivery order is paid (delivery checkout takes online
payment only, and OrderStock's `PreparationGated` covers the rest), and
`RequestCourier` reads the order's row, which the code reads unlocked before its
transaction, in the same step; territory,
vehicle, capacity, range and test isolation are the constant `Able`; a courier is
offered every waiting delivery rather than the first five; `failed` and the
`requested` status of a delivery are written by no handler.

## 4. What is checked

| Run | Shows | Instance |
|---|---|---|
| `shelf` | `TypeOK`, `ItemsConserved`, `LotsConserved`, `KeepsPromise` | two orders for the same ingredient, one also for a counted product, against every other movement |
| `backed` | `StockFollowsStatus`, `PreparationGated`, `ReservationsBacked`, `LiveHoldCanStart`, `HeldUpStartsHeal` | the two orders on four combinations of payment and fulfilment, with receipts, recalls, expiry and withholding; no loss, count or sale: the code lets these remove held stock, and says so with a 409 at the start |
| `counts` | `PlacesTypeOK`, `ReservationsBacked`, `LotsWithinOnHand`, `CountsSettle`, `TransfersConserve`, `DriftHeals` | an order, a lot to come, two items in two places, one transfer, sessions of the business or of a place |
| `procurement` | `TradeTypeOK`, `GoodsTraced`, `LedgerShowsPayments`, `RefusalsHold` | two purchase orders of three lines, three lots of two items, one return |
| `services` | `AgreedPriceStands`, `KeepsBargain`, `CapturedJobMoneySurfaces` | one job, up to three quotes of two prices, two intents whose checkout calls may write before, between or after their refunds, one restart |
| `payments` | `NeverOverpaid`, `PaidIsEvidenced`, `CreditedOnce`, `ReviewedNotCredited`, `SucceededStays`, `CapturedMoneySurfaces`, `RefundsAreReal`, `RefundedIsRepaid`, `PayTypeOK`, `RefundedPayHeld` | one order of two units, two intents, two refunds, two workers, two checkout calls at once, one completion, one restart |
| `dispatch` | `TypeOK`, `OneJobPerCourier`, `AvailableIsFree`, `DeliveredIsCompleted`, `GuessesLimited`, `FirstAcceptWins`, `CarriedIsHandedOff`, `RefusalStands` | two deliveries that both couriers can serve, two rounds, two availability transactions at once, on one of the days two overlapping status calls |
| `recall` | violation of `RecalledLotsStayHeld` | finding |
| `ledger` | violation of `LedgerShowsPayments`, the instance of `procurement` with narrower evidence numbers | finding |
| `over_refund` | violation of `RefundsWithinPayment`, days of refunds | finding |
| `unready` | violation of `ReadyWhenDispatched` | finding |
| `reopened` | violation of `DeliveredForGood`, with two status calls of a delivery under way | finding |

### Days

Where the product of everything a module can do is beyond TLC, the MC module
draws a `day` at the start and never changes it; a day restrains some of the
steps (never the code inside one), and the run checks the union. What is left
out is a COMBINATION of a day's rare event with another day's:

- `MCCountSession`: transfers and sessions; pages that repair, and sessions; new
  homes and sessions; sessions with variances of two items; and, without a
  session, transfers, pages and new homes together. On the others, the second
  item is counted as expected: it is there for the order in which items are
  corrected.
- `MCProcurement`: confirmations (answers, backorders, progress, receipt); goods
  (receipt, repacking, returns, losses, sales, with recalls); by hand (receipts
  by hand with the same, without returns); money (invoices, credits, payments of
  two orders).
- `MCServiceJobs`: bargain (all quotes, one intent, no refund or restart);
  payments (the first quote, two intents that lapse, deadlock and are refunded,
  a restart).
- `MCPayments`: payments (two intents, overlapping checkout calls and
  deliveries); refunds (one intent, two refunds executed by two workers, a slow
  provider, a restart); late writes (one intent, refunded by one worker while a
  second checkout call has not written yet); deliveries (an order paid first, with a provider that
  answers at once and no restart, completed before, between or after its
  refunds). Completions and refunds of the third day do not overlap, see below.
- `MCDispatch`: two deliveries with one round each; one delivery with two; one
  delivery of which two status calls may be under way at once. On the first two
  days a delivery has one call at a time, on the third no shift begins after the
  delivery was made: a late call may put a courier who has turned available back
  on a delivered delivery (`reopened`), and `AvailableIsFree` would be false.
  Theorems cover any number of deliveries, rounds and calls.

### Bounds, and why they are enough

Two orders compete for one item and either may be the one served; need 2 and
lot size 2 let an order empty a lot, straddle lot and loose stock, or be short; a
second lot makes the FEFO order matter. Two places are the fewest between which
stock moves and that a drain must order. Purchase-order lines of two packs and
of one, one of two units per pack, give partial receipt, partial confirmation
and a lot that is more than one unit. `EvidenceWidth` is 1000000 in the code; in
`procurement` it is 10, which no payment of the instance reaches, in `ledger` it
is 2, which one does: the theorem `PaymentsShown` says that nothing else about
the width matters. Three quotes are an accepted one, its change order and one
that replaces that. Two intents of one order are the smallest case of double
payment, two deliveries of one event the smallest overlap, one restart the
smallest recovery. `MaxBooked = 2` lets a refund be booked twice before it is
left alone. Two couriers and two deliveries are the smallest instance in which a
courier may be given a second delivery and a delivery a second courier. Handlers
compare an offer's round with the present one for equality only, so two rounds
have every case: present, and past. `MaxShifts = 2` opens both couriers'
availability transactions at once. `MaxFailures` is 2 for the code's 5: one
failure that does not lock, and one that does. `Callers` bounds the status calls
under way: two are one that writes and one that writes late.
`OneJobPerCourier` and `AvailableIsFree` are checked with one (`OneCaller`: a
courier's client waits for an answer before it sends the next report, which
neither the handler nor `public/delivery-ui.js:90` sees to);
`CarriedIsHandedOff` is about the late writes and is checked, and proved,
without it. The properties quantify over pairs at most, apart from sums.

Deadlock checking is off where the instance really ends (all orders completed
or cancelled, all bounds used up). In Dispatch something can always happen, and
it is on.

### Fairness

- `OrderStock!FairSpec`: WF on `LapseHold`, because `expires_at` is never NULL on
  a reserved row and time passes; merchants and customers owe nothing.
- `Payments!Fairness`: WF on `Deliver` (the provider repeats a delivery that was
  not answered 2xx; an event in manual review was answered), on the work of a
  delivery that was received, and on `MarkFailed`; restarts are bounded.
  Customers, merchants and checkout calls owe nothing.
- `CountSession!PagesKeepComing`: WF on the repair: the page is opened again and
  again and its statements go on. `DriftHeals` speaks of a shelf that is quiet
  from some moment on; drift that is made all the time is never gone.
- `JobPayments!Fairness`: WF as in Payments; SF on the steps that wait for a row
  lock (`EndIntent`, `Credit`, `HoldForReview`), because PostgreSQL queues those
  who wait and serves them when the lock is released. Which of two deadlocked
  transactions is aborted is the database's choice, and nothing says that it is
  ever the creation. In the run an instance has two intents, so there is a last
  creation and the webhook gets through. A customer who opened a new intent at
  each repeated delivery, over and over, could see the webhook aborted each
  time; the run does not exclude that.

### Findings

- `recall`: a recalled lot that an order had emptied turns `available` when the
  order is cancelled (`inventory-lot-runtime.js:58`).
- `ledger`: the evidence number of a payment of a purchase order is
  `id*1000000 + centavos`, so an order of 10,000.00 or more reaches the numbers
  of the next and overwrites its booked payments (`server-suppliers.js:451`).
- `over_refund`: two refund requests may together exceed the payment
  (`payment-core.js:424`).
- `unready`: an order that is cancelled after its courier was requested still
  gets a courier, and is "completed" by the delivery
  (`server-delivery.js:1439`).
- `reopened`: a late status write puts a delivered delivery back under way
  (`server-delivery.js:1489`).

Met while modelling, without a run of their own:

- A completion that has found no refund and a refund that finds no share yet
  leave the courier's share eligible for a refunded payment
  (`courier-compensation-core.js:68`, `paymongo-adapter.js:798`):
  `RefundedPayHeld` is false under `OverlapSpec` of MCPayments, which TLC shows.
  `payments` keeps the two apart, and shows that the property holds whichever
  comes first, provided one is over before the other begins.
- The process stops between the closing of a refunded intent and the
  reconciliation of its shares: nobody repeats it, until a person executes the
  succeeded refund again.
- An execution of a refund that fails late writes `failed`, even over the
  `succeeded` another execution has reached; a delivery completed after that
  finds no refund and allocates pay. On the days of deliveries nothing fails.
- A line the supplier never answered counts as ordered when it is received and
  as nothing when its backorder is fulfilled: received packs can then exceed the
  confirmed ones, which `docs/sop/SOP_SUPPLIER_PROCUREMENT.md:68` excludes.
- A refund whose execution stops after `processing` was written is refused from
  then on, and no refund webhook ends it.
- A checkout call that has waited for the provider while its intent was paid and
  refunded, in part or in full, writes "requires_action" over "refunded"
  (`paymongo-adapter.js:339` excludes only "succeeded"). For an order the row in
  `order_payments` and the paid amount stay. A job has no such row: what remains
  of the payment is out of its books, and the customer can be charged for it
  again (`forgotten` in JobPayments). No doc or test says what should happen.

## 5. What is proved

With TLAPS, for every value of the constants that satisfies the assumptions
(`PlanningAssumption`, `OrderStockAssumption`, `PlacesAssumption`,
`ScopeAssumption`, `ProcurementAssumption`, `PaymentsAssumption`,
`RefundsAssumption`, `CourierPayAssumption`, `DispatchAssumption`,
`ServiceJobsAssumption`, `JobPaymentsAssumption`: the types of the parameters,
positive totals and lot sizes, reserved words that are no ids, and that the ids
whose rows are summed are finitely many, as the rows of a table are). TLC
evaluates them on every run that has the module.

All safety properties and refinements the passing runs check are theorems; the
table names them, the paragraphs say along which argument.

| Module | Properties |
|---|---|
| OrderStockProofs | `TypeOK`, `StockFollowsStatus`, `PreparationGated`, `ItemsConserved`, `LotsConserved`, `ReservationsBacked`*, `LiveHoldCanStart`*, `KeepsPromise` |
| CountSessionProofs | `PlacesTypeOK`, `TransfersConserve`, `CountsSettle`, `ReservationsBacked`*, `LotsWithinOnHand`* |
| PaymentsProofs | `NeverOverpaid`, `ReviewedNotCredited`, `CreditedOnce`, `PaidIsEvidenced`, `SucceededStays`; with refunds: `RefundsAreReal`, `RefundedIsRepaid`, and the five of payments again |
| CourierPayProofs | `PayTypeOK`, `ReversalStands`, `RefundedPayHeld`*, and all invariants of payments and refunds with completions and reconciliations |
| ServiceJobsProofs | `AgreedPriceStands`, `PriceIsFinal`, `KeepsBargain`, `NoJobOverpaid` |
| ProcurementProofs | `TradeTypeOK`, `RefusalsHold`, `GoodsTraced`, `LedgerShowsPayments`* |
| DispatchProofs | `TypeOK`, `GuessesLimited`, `OneJobPerCourier`*, `AvailableIsFree`*, `CarriedIsHandedOff`, `FirstAcceptWins`, `DeliveredIsCompleted`, `RefusalStands` |

The theorems marked * have a hypothesis, and it is the one under which the code
keeps the property at all:

- `ShelfOps \cap Removals = {}`: losses, lot losses, counts, counter sales and
  edits of a product's stock remove units without looking at reservations. The
  code allows them to, and answers the start of the order whose units are gone
  with a 409. What the theorems say is that nothing ELSE breaks a promise:
  orders among themselves, receipts, recalls, expiry, withholding. In
  CountSessionProofs the corrections of a count SESSION are included (unlike
  those of the single count in `Removals` they look at reservations), and so is
  everything that moves stock between places.
- `RefundsApart` and `Undisturbed`, hypotheses on the behaviour: no refund of an
  order succeeds between the moment a completion of its delivery finds no refund
  and the moment it commits, and the process does not stop during an execution
  of a refund. No lock in the code sees to the first (section 4, findings
  without a run), and the second is the window in which a stop leaves shares
  unreconciled. The days of deliveries of `payments` satisfy both: `Apart`
  implies the first, `PromptProvider` the second. The theorem allows more than
  those days do: executions that fail at any statement and are retried, slow
  providers, completions that overlap an execution before its refund succeeds,
  stops between executions.
- `OneCaller`: the status calls of one delivery do not overlap. `reopened`
  shows what happens when they do. Every other theorem about Dispatch allows any
  number of overlapping calls.
- `[]BelowWidth`: the payments of one order stay below the width of its evidence
  numbers. `ledger` shows what happens when they do not.

The arguments:

- **SumsProofs**. The facts about `Total`, from the fold's definition: it exists
  as a function on the subsets of a finite set (`SumOverExists`), so it can be
  unfolded at any element (`TotalSplit`), not only at the one CHOOSE picks. Then
  sums of sums, of parts, of unions, one changed term, monotonicity, and a table
  summed by rows or by columns (`TotalSwap`). The library's induction theorems
  take an operator; here induction is over the set of those subsets for which
  the claim holds (`SubsetInduction`), from the well-foundedness of strict
  inclusion.
- **OrderStockProofs**. `TypeCorrect`, `StockFollows` and `GatesHold`: TypeOK
  alone is inductive because every removal compares with what is there first
  (`MayConsume`, the planners' bounds); StockFollowsStatus needs TypeOK, and
  PreparationGated needs the two facts per order it states. One step per
  action. `OrdersKeepPromise`: the invariants give each step its image under
  `Claim`: an order that starts was held or free and all its need was on hand;
  one that is cancelled either took or had not, which StockFollowsStatus tells.
  `ItemsAreConserved` and `LotsAreConserved` from `ConservedInv`, which adds
  that a lot nobody has received is empty. A movement changes one term of the
  level and books the same change; a start adds the order's need to what orders
  used and a cancellation takes it back out, and no other step changes which
  orders those are.
  `HoldsAreBacked` and `HoldsCanStart` from `BackedInv`. ReservationsBacked is
  not inductive: it sums what is held of each lot and item, but what a planner
  gives a new hold it takes from lots and loose stock separately. So the
  invariant says, of each item, that its lots claim no more than there is
  (`LotsFit`), that what is held of a lot is in it (`LotsBacked`), that what is
  held without a lot is within the loose stock (`LooseBacked`), and that a held
  lot is available or recalled (`HeldLotsStand`). The sum over an item of what
  its holds have is then a table summed by orders and by lots.
- **CountSessionProofs**. `PlacesTypeCorrect` from `PlacesInv`: the balances
  stay natural numbers because a drain takes from a place what is there
  (`DrainItem`, `DrainLot`) and a move what the source has; the invariant adds
  what the page's repair has planned (`RepairOK`) and that a session under
  review has every item counted (`SessionOK`). `TransfersMakeNothing` and
  `CountsAreSettled` are action properties: a transfer settles the drift of its
  item before it moves, so its places add up afterwards, whatever had been
  drifting. `HoldsSurviveCounts` and `LotsStayWithinOnHand` show that posting a
  count keeps BackedInv, because it refuses to post a shortage of an item of which anything is
  reserved (`ShortagesUnreserved`), and every other correction adds.
- **PaymentsProofs**. `Overpayment` from TypeOK and the balance comparisons in
  the two writers of `paid`. `ReviewIsExclusive` needs a strengthening
  (`ReviewInv`): what is under way for an intent, and its confirmation, can be
  traced back to its session (`Traced`), and while an event is held for review
  its intent is not confirmed and, if the session was paid, its amount does not
  fit the balance (`HeldBack`) - now or later, because the balance only shrinks
  (`BalanceShrinks`), so no later delivery can credit it. `CreditIsOnce` rests
  on `RowInv`: a row with the intent's id exists exactly when the intent is
  confirmed, is alone, and has its amount; payments and mirrors of others leave
  those rows where they are (`ForeignPayment`, `MirrorLeaves`).
  `ConfirmedForGood` is an action property and follows from the types, action
  by action. `PaymentsAreEvidenced`: each writer of `paid` appends a row of
  the same amount, except that a credit leaves the row its intent has already
  and adds to `paid` all the same; RowInv says that no credit meets one. A
  mirror changes whose row it is and not its amount.
  For refunds: `NoInventedRefund` from `RefundInv`: an execution that has reached
  booking or beyond belongs to a refund the provider has made, and a provider
  success is final. Payments' steps are carried over with the lemmas above.
  `RefundedMeansRepaid` from `RepaidInv`, which follows an execution from place
  to place: one that has found the whole amount on record is right about it for
  good, because what is on record the provider has made and what it has made
  only grows, so the intent it closes later is still repaid. `RefundsKeepPayments`
  needs `PaidInv` because the status by which a repeated delivery recognises a
  credited intent is exactly what a refund takes away: RowInv keeps the second
  credit out by the row and the balance instead. `ConfirmedUnderRefunds` is
  Payments' action property again, for all steps of Refunds.
- **CourierPayProofs**. `PayKeepsRefunds`: completions and reconciliations leave
  payments and refunds as they were, so every step is a step of Refunds or a
  stutter and its theorems hold here, which `PayKeepsPayments` collects.
  `PayTypeCorrect` and `ReversalIsFinal` from `PayInv`: no share a
  reconciliation has read was reversed (`ReviewsOpen`), and it writes a share
  only if its status is the one it read.
  `RefundsHoldPay` from `DerivedInv` and `HeldInv`. A share stands on a payment
  row that covers part of the delivery, and goes on to, because rows are only
  added and keep amount and intent (`RowsGrow`, `DerivedStays`): the
  reconciliation cannot miss it by finding that its intent paid for no delivery.
  `HeldInv` follows a succeeded refund until its shares are reviewed: no share of
  its intent is eligible, or a failure is on record, or a worker that executes
  it has the review before it, with every eligible share among those it has
  read. Only a completion makes shares eligible (`EligibleShrinks`), and under
  `RefundsApart` it commits for an order without a succeeded refund, of which
  `HeldInv` says nothing. A late failure takes the refund's success away and with
  it the claim; the retry that succeeds again has the review before it again.
- **ServiceJobsProofs**. `PriceStands` from `JobsInv`, job by job (`PriceOK`):
  AgreedPriceStands is inductive once it also says that a job without an agreed
  price has no accepted quote (`Unagreed`), so that a new initial quote touches
  none. The payments of a job leave the job alone, so the invariant holds of
  the whole of JobPayments. `CompletionIsFinal` is an action property that
  follows from it.
  `JobsKeepBargain` is the refinement of Bargain, from `BargainInv`. What was
  paid for a job is the sum, over its intents, of what each adds (`Net`), so
  every step changes one term or none: accepting a quote agrees, completing
  finishes, a credit pays (or does nothing, if an intent that was refunded in
  part is credited again), a refund pays back, a checkout's write to a refunded
  intent loses the books of its job, all others stutter. What makes it inductive
  is `IntentOK`: an intent that is not forgotten has refunds only while it is
  confirmed, so `Net` is a natural number, the clamp of `PaidFor` does nothing
  (`BookedSum`), and what is credited anew was nothing before; and a forgotten
  intent has refunds, which is what Bargain asks for before the books may be
  lost. `JobsNeverOverpaid` is then an invariant of Bargain, carried back to
  every job that has no forgotten intent; nothing bounds the number of checkout
  calls or when they write.
- **ProcurementProofs**. `Refusals` from `RefusalInv`: nothing is received for an
  order that may still be rejected, and a return whose dispatch has read its
  status is past the supplier's answer. `PaymentsShown`: `LedgerInv` adds that an
  entry lies within the numbers of its order and is no more than was paid, so
  that the number of a new payment is free. `TradeTypesCorrect` and
  `GoodsAreTraced` from `TradeInv`, whose part `GoodsInv` needs `FreshLots`: a
  lot nobody has received is empty, without intake and source. Each way goods
  come in writes a lot and the number that says where from in the same step, so
  one term of `CameIn`, of what was repacked or of what was sent back changes by
  what the level does. A receipt by hand writes a level it read before: the
  difference to the present one goes to `overwritten`, and with it every
  equation closes. OrderStock's steps run alongside, and their lemmas are stated
  for any set of lot states so that they hold with the state "returned".
- **DispatchProofs**. `DispatchTypeCorrect` and `AttemptsLimited` come together:
  the type of the count needs the relation of count and lock. `AcceptanceHolds`
  needs that a waiting delivery has no courier (`AcceptInv`), so that no step
  that gives a delivery away can meet an accepted offer of it.
  `DeliveryCompletes` rests on `DoneInv`. `HandedOffFirst` has no hypothesis on
  the calls: `HandInv` says of each call under way, however stale, that its
  delivery has a courier and that a stage past the pickup is wanted only if the
  order has left the counter, because the call read the pickup and the order
  never goes back. `OneJobEach` and `AvailableMeansFree` share `JobInv`: an available courier, and one whose
  availability transaction is open, is on no delivery, and a status call under
  way wants the stage after the present one. That last part is true only under
  `OneCaller`. `RefusalIsFinal` is an action property, action by action.

Only model-checked:

- Liveness: `HeldUpStartsHeal`, `CapturedMoneySurfaces`,
  `CapturedJobMoneySurfaces`, `DriftHeals`. Fairness and ENABLED are out of the
  prover's reach.

## 6. Not modelled

- Delivery quotes and checkout: the order and its delivery are made in two
  transactions; what can go wrong in between is listed as a hazard and follows
  from reading them. Pricing, routing and tracking: arithmetic on real numbers
  and calls to a routing service.
- The live reconciliation and the settlements of Payment Core: comparisons that
  write nothing, and rows nothing in the code pays out.
- Requests for quotation, supplier profiles, price agreements, promotions,
  account statements, the daily view; ledgers, reports and recipe costing;
  storefronts and catalogue: derivations and single-statement edits.
- The notifications outbox: best effort for every handler modelled here, none of
  which reads a message back.
- Accounts, sessions and hardening, governance, administration, trust and
  monetisation: one transaction each, cryptography and counters.
- Finance views, receipts, evidence, legal and help content, the browser
  application and QA scripts: derivations, I/O, content and views, with no state
  machine that interleaves.
