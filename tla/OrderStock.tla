----------------------------- MODULE OrderStock -----------------------------
(***************************************************************************)
(* Merchant orders and the stock they hold, use and return.                *)
(*                                                                         *)
(* server-orders.js (and server-marketplace.js, which repeats start and    *)
(* cancel for marketplace orders) owns the order's life; order-stock-       *)
(* reservation.js holds stock for it; server-business-accounting.js and     *)
(* server-supplier-commercial-v3.js move the same shelf for other reasons.  *)
(* Each handler is one transaction that locks the rows it decides on        *)
(* (SELECT ... FOR UPDATE, commit or roll back whole), so each is one       *)
(* action; a handler that answers 4xx changes nothing and is not a step.    *)
(*                                                                         *)
(* One business.  Stock of a marketplace product is an item without lots.   *)
(***************************************************************************)
EXTENDS LotPlanning

CONSTANTS
    Orders,
    MarketItems,  \* marketplace_products with a counted stock of their own
    Need,         \* Need[o][i]: what the lines of order o need of item i
    MaxNeed,      \* bound: the largest such need
    OrderTotal,   \* orders.total
    AllowedTerms, \* the terms under which customers order in this instance
    ShelfOps,     \* the movements other than orders of this instance
    LotSize,      \* LotSize[l]: quantity received with the lot
    OpeningLots,  \* lots on the shelf at the start
    OpeningStock, \* OpeningStock[i]: quantity at the start, those lots included
    Perishable,   \* lots with an expiry date
    MaxCount,     \* bound: the largest counted stock level
    MarketLevels, \* bound: the stock levels a merchant types into a product
    MaxWithheld   \* bound: the most that is put aside as unavailable

Terms == [fulfil : {"pickup", "delivery"}, pay : {"cash", "online"},
          counter : BOOLEAN, trusted : BOOLEAN]

NoTerms == [fulfil |-> "none", pay |-> "none", counter |-> FALSE, trusted |-> FALSE]

ASSUME OrderStockAssumption ==
    /\ IsFiniteSet(Orders)
    /\ MarketItems \subseteq Items
    /\ \A l \in Lots : LotItem[l] \notin MarketItems
    /\ MaxNeed \in Nat
    /\ Need \in [Orders -> [Items -> 0..MaxNeed]]
    /\ \A o \in Orders : \E i \in Items : Need[o][i] > 0
    /\ OrderTotal \in [Orders -> Nat]
    /\ AllowedTerms \subseteq Terms
    /\ LotSize \in [Lots -> Nat \ {0}]
    /\ OpeningLots \subseteq Lots
    /\ OpeningStock \in [Items -> Nat]
    /\ \A i \in Items : Total(LotSize, LotsOf(i) \cap OpeningLots) <= OpeningStock[i]
    /\ Perishable \subseteq Lots
    /\ MaxCount \in Nat /\ MaxWithheld \in Nat
    /\ MarketLevels \subseteq Nat

Statuses == {"none", "awaiting_payment", "awaiting_customer_presence", "accepted",
             "preparing", "ready", "handoff_to_delivery", "completed", "cancelled"}

LotStates == {"unreceived", "available", "quarantined", "depleted"}

VARIABLES
    status,    \* orders.order_status; "none" before the row exists
    terms,     \* fulfilment, payment method and trust snapshot of the order
    presence,  \* customer_checked_in_at / presence_confirmed_at
    paid,      \* orders.paid_amount
    hold,      \* state of the order's reservation rows, which share one expiry
    heldLots,  \* heldLots[o][l]: reserved from a lot, then used from it
    stock,     \* stock_consumed_at / stock_reversed_at
    onHand,    \* inventory.quantity, or marketplace_products.stock_quantity
    lotQty,    \* supply_lots.quantity_remaining_base
    lotState,  \* supply_lots.lot_state
    expired,   \* lots whose expires_at has passed
    recalled,  \* lots matched by a recall notice (supply_recall_lot_matches)
    withheld,  \* active inventory_unavailable_allocations
    booked,    \* net stock evidence other than orders: receipts, sales, adjustments
    lotBooked  \* the same evidence, per lot

orderVars == <<status, terms, presence, paid>>
holdVars  == <<hold, heldLots, stock>>
shelfVars == <<onHand, lotQty, lotState>>
bookVars  == <<booked, lotBooked>>
yardVars  == <<expired, recalled, withheld>>
vars == <<orderVars, holdVars, shelfVars, bookVars, yardVars>>

-----------------------------------------------------------------------------
NoLots == [l \in Lots |-> 0]

Init ==
    /\ status = [o \in Orders |-> "none"]
    /\ terms = [o \in Orders |-> NoTerms]
    /\ presence = [o \in Orders |-> "unknown"]
    /\ paid = [o \in Orders |-> 0]
    /\ hold = [o \in Orders |-> "none"]
    /\ heldLots = [o \in Orders |-> NoLots]
    /\ stock = [o \in Orders |-> "untouched"]
    /\ lotQty = [l \in Lots |-> IF l \in OpeningLots THEN LotSize[l] ELSE 0]
    /\ lotState = [l \in Lots |-> IF l \in OpeningLots THEN "available" ELSE "unreceived"]
    /\ onHand = OpeningStock
    /\ expired = {} /\ recalled = {}
    /\ withheld = [i \in Items |-> 0]
    /\ booked = onHand
    /\ lotBooked = lotQty

-----------------------------------------------------------------------------
(* Reservations.  A hold is "reserved" while its rows say so and expires_at *)
(* is ahead; every reader filters on both, so a row past its expiry and a   *)
(* row the sweep has marked released are the same hold: "released".  The    *)
(* lot rows of a released hold are replaced before they are read again.     *)

LiveOthers(o) == {p \in Orders \ {o} : hold[p] = "reserved"}

HeldLoose(p, i) == Need[p][i] - Total(heldLots[p], LotsOf(i))

(* Mutant: a planner that forgets what others hold on the lots. *)
FreeLotsIgnoringHolds(o) == lotQty
FreeLots(o) ==
    [l \in Lots |-> AtLeastZero(
        lotQty[l] - Total([p \in Orders |-> heldLots[p][l]], LiveOthers(o)))]

FreeLoose(o, i) == AtLeastZero(
    Loose(onHand[i], lotQty, i) - Total([p \in Orders |-> HeldLoose(p, i)], LiveOthers(o)))

UsableLots == {l \in Lots : lotState[l] = "available" /\ l \notin expired}

Available(o, i) == AtLeastZero(
    FreeLoose(o, i) + Total(FreeLots(o), LotsOf(i) \cap UsableLots) - withheld[i])

(* planInventoryReservationAllocation and planMarketplaceReservation for    *)
(* every need of the order; one shortage fails the whole reservation.       *)
FitsShelf(o, take) ==
    /\ OnlyFrom(take, UsableLots)
    /\ \A i \in Items :
         /\ Need[o][i] <= Available(o, i)
         /\ IsFefoTake(take, FreeLots(o), LotsOf(i) \cap UsableLots, Need[o][i])

(* reserveOrderStock: a live hold is only extended, never planned again.    *)
MayReserve(o, take) ==
    IF hold[o] = "reserved" THEN take = heldLots[o] ELSE FitsShelf(o, take)

OrderTakes == [Lots -> 0..MaxNeed]

Reserve(o) ==
    \E take \in OrderTakes :
        /\ MayReserve(o, take)
        /\ hold' = [hold EXCEPT ![o] = "reserved"]
        /\ heldLots' = [heldLots EXCEPT ![o] = take]
        /\ UNCHANGED stock

(* Mutant: acceptance sets no expires_at. *)
LapseUnpaidHold(o) ==
    /\ hold[o] = "reserved" /\ status[o] # "accepted"
    /\ hold' = [hold EXCEPT ![o] = "released"]
    /\ heldLots' = [heldLots EXCEPT ![o] = NoLots]
    /\ UNCHANGED <<orderVars, stock, shelfVars, bookVars, yardVars>>

(* expires_at passes: 30 minutes after checkout, 240 after acceptance.      *)
LapseHold(o) ==
    /\ hold[o] = "reserved"
    /\ hold' = [hold EXCEPT ![o] = "released"]
    /\ heldLots' = [heldLots EXCEPT ![o] = NoLots]
    /\ UNCHANGED <<orderVars, stock, shelfVars, bookVars, yardVars>>

-----------------------------------------------------------------------------
(* createOrder, createMarketplaceOrder: insert the order and reserve.       *)
(* Mutant: counter presence accepts online orders too. *)
FirstStatusByPresence(t) ==
    IF t.counter \/ t.trusted THEN "accepted"
    ELSE IF t.pay = "cash" THEN "awaiting_customer_presence" ELSE "awaiting_payment"

FirstStatus(t) ==
    IF t.pay = "cash" /\ t.fulfil = "pickup"
    THEN IF t.counter \/ t.trusted THEN "accepted" ELSE "awaiting_customer_presence"
    ELSE "awaiting_payment"

PlaceOrder(o, t) ==
    /\ status[o] = "none"
    /\ ~(t.fulfil = "delivery" /\ t.pay = "cash")
    /\ status' = [status EXCEPT ![o] = FirstStatus(t)]
    /\ terms' = [terms EXCEPT ![o] = t]
    /\ presence' = [presence EXCEPT ![o] = IF t.counter THEN "confirmed" ELSE "unknown"]
    /\ Reserve(o)
    /\ UNCHANGED <<paid, shelfVars, bookVars, yardVars>>

(* POST /api/orders/:id/check-in *)
CheckIn(o) ==
    /\ status[o] = "awaiting_customer_presence"
    /\ presence' = [presence EXCEPT ![o] = "checked_in"]
    /\ UNCHANGED <<status, terms, paid, holdVars, shelfVars, bookVars, yardVars>>

(* POST /api/orders/merchant/:id/confirm-presence; setStatus reserves       *)
(* before it accepts.                                                      *)
ConfirmPresence(o, manual) ==
    /\ status[o] = "awaiting_customer_presence"
    /\ presence[o] = "checked_in" \/ manual
    /\ presence' = [presence EXCEPT ![o] = "confirmed"]
    /\ status' = [status EXCEPT ![o] = "accepted"]
    /\ Reserve(o)
    /\ UNCHANGED <<terms, paid, shelfVars, bookVars, yardVars>>

(* POST /api/orders/merchant/:id/payment: any order with a balance, in any  *)
(* status; the payment that completes an awaited one accepts the order, and *)
(* a shortage then takes the payment back with the transaction.             *)
RecordPayment(o, amount) ==
    /\ status[o] # "none"
    /\ amount <= OrderTotal[o] - paid[o]
    /\ paid' = [paid EXCEPT ![o] = @ + amount]
    /\ IF paid[o] + amount = OrderTotal[o] /\ status[o] = "awaiting_payment"
       THEN /\ status' = [status EXCEPT ![o] = "accepted"]
            /\ Reserve(o)
       ELSE UNCHANGED <<status, holdVars>>
    /\ UNCHANGED <<terms, presence, shelfVars, bookVars, yardVars>>

-----------------------------------------------------------------------------
(* applyLotAllocations / applyPhysicalLotReductions: a lot emptied by the   *)
(* movement is depleted, whatever it was.                                  *)
TakeFromLots(take) ==
    /\ lotQty' = [l \in Lots |-> lotQty[l] - take[l]]
    /\ lotState' = [l \in Lots |->
         IF take[l] > 0 /\ take[l] = lotQty[l] THEN "depleted" ELSE lotState[l]]

LotsStillThere(take) ==
    \A l \in Lots : take[l] > 0 => lotState[l] = "available" /\ take[l] <= lotQty[l]

(* Mutant: the aggregate is not read again before it is reduced. *)
MayConsumeUnchecked(o, take) == MayReserve(o, take) /\ LotsStillThere(take)

(* consumeOrderReservations: reserve (or keep the live hold), then take     *)
(* every need or nothing.  Its early return on stock_consumed_at is for an  *)
(* order StartPreparation no longer admits.                                *)
MayConsume(o, take) ==
    /\ MayReserve(o, take)
    /\ \A i \in Items : Need[o][i] <= onHand[i]
    /\ LotsStillThere(take)

(* POST /api/orders/merchant/:id/start, and marketplaceStart *)
StartPreparation(o) ==
    /\ status[o] \in {"accepted", "awaiting_customer_presence"}
    /\ status[o] = "awaiting_customer_presence" => terms[o].trusted
    /\ \E take \in OrderTakes :
         /\ MayConsume(o, take)
         /\ heldLots' = [heldLots EXCEPT ![o] = take]
         /\ TakeFromLots(take)
    /\ hold' = [hold EXCEPT ![o] = "consumed"]
    /\ stock' = [stock EXCEPT ![o] = "consumed"]
    /\ onHand' = [i \in Items |-> onHand[i] - Need[o][i]]
    /\ status' = [status EXCEPT ![o] = "preparing"]
    /\ UNCHANGED <<terms, presence, paid, bookVars, yardVars>>

MarkReady(o) ==
    /\ status[o] = "preparing"
    /\ status' = [status EXCEPT ![o] = "ready"]
    /\ UNCHANGED <<terms, presence, paid, holdVars, shelfVars, bookVars, yardVars>>

HandOff(o) ==
    /\ status[o] = "ready" /\ terms[o].fulfil = "delivery"
    /\ status' = [status EXCEPT ![o] = "handoff_to_delivery"]
    /\ UNCHANGED <<terms, presence, paid, holdVars, shelfVars, bookVars, yardVars>>

Complete(o, allowCredit) ==
    /\ status[o] = "ready" /\ terms[o].fulfil = "pickup"
    /\ paid[o] = OrderTotal[o] \/ allowCredit
    /\ status' = [status EXCEPT ![o] = "completed"]
    /\ UNCHANGED <<terms, presence, paid, holdVars, shelfVars, bookVars, yardVars>>

(* releaseOrderReservations, then reverseStock: stock that was used and not *)
(* yet returned goes back, to the lots it came from; an emptied lot that    *)
(* gets stock back is available again.                                     *)
(* Mutant: cancellation forgets the reservation rows. *)
KeepHold(o) == UNCHANGED hold

ReleaseHold(o) ==
    hold' = [hold EXCEPT ![o] = IF @ = "reserved" THEN "released" ELSE @]

(* Mutant: the loose part of the stock is not returned. *)
ReturnLotStockOnly(o) ==
    /\ stock' = [stock EXCEPT ![o] = "reversed"]
    /\ onHand' = [i \in Items |-> onHand[i] + Total(heldLots[o], LotsOf(i))]
    /\ lotQty' = [l \in Lots |-> lotQty[l] + heldLots[o][l]]
    /\ UNCHANGED lotState

(* Mutant: the lots get nothing back. *)
ReturnAggregateOnly(o) ==
    /\ stock' = [stock EXCEPT ![o] = "reversed"]
    /\ onHand' = [i \in Items |-> onHand[i] + Need[o][i]]
    /\ UNCHANGED <<lotQty, lotState>>

ReturnStock(o) ==
    /\ stock' = [stock EXCEPT ![o] = "reversed"]
    /\ onHand' = [i \in Items |-> onHand[i] + Need[o][i]]
    /\ lotQty' = [l \in Lots |-> lotQty[l] + heldLots[o][l]]
    /\ lotState' = [l \in Lots |->
         IF heldLots[o][l] > 0 /\ lotState[l] = "depleted" THEN "available" ELSE lotState[l]]

(* POST /api/orders/merchant/:id/cancel, and marketplaceCancel *)
Cancel(o) ==
    /\ status[o] \notin {"none", "completed", "cancelled"}
    /\ ReleaseHold(o)
    /\ IF stock[o] = "consumed" THEN ReturnStock(o) ELSE UNCHANGED <<stock, shelfVars>>
    /\ heldLots' = [heldLots EXCEPT ![o] = NoLots]
    /\ status' = [status EXCEPT ![o] = "cancelled"]
    /\ UNCHANGED <<terms, presence, paid, bookVars, yardVars>>

-----------------------------------------------------------------------------
(* The shelf moves for other reasons too.  Each movement leaves evidence    *)
(* (inventory_adjustments, product_sales, a receipt): booked and lotBooked. *)

MoveItem(i, level) ==
    /\ onHand' = [onHand EXCEPT ![i] = level]
    /\ booked' = [booked EXCEPT ![i] = @ + level - onHand[i]]

RemoveFromShelf(i, q, take) ==
    /\ MoveItem(i, onHand[i] - q)
    /\ TakeFromLots(take)
    /\ lotBooked' = [l \in Lots |-> lotBooked[l] - take[l]]

(* The closing check of an adjustment: lots must not exceed the aggregate.  *)
LotsFitShelf(i) == Total(lotQty', LotsOf(i)) <= onHand'[i]

(* POST /api/inventory/adjustments, every loss kind without a chosen lot;   *)
(* 'expired' looks at expired lots only.                                    *)
RecordLoss(i, q, onlyExpired) ==
    /\ "loss" \in ShelfOps /\ i \notin MarketItems
    /\ q <= onHand[i]
    /\ \E take \in [Lots -> 0..q] :
         /\ IsLossTake(take, onHand[i], lotQty, i,
                       IF onlyExpired THEN LotsOf(i) \cap expired ELSE LotsOf(i), q)
         /\ RemoveFromShelf(i, q, take)
    /\ LotsFitShelf(i)
    /\ UNCHANGED <<orderVars, holdVars, yardVars>>

(* The same handler with an explicit lot_id.                               *)
RecordLotLoss(l, q, onlyExpired) ==
    LET i == LotItem[l]
    IN  /\ "lot_loss" \in ShelfOps
        /\ q <= onHand[i]
        /\ onlyExpired => l \in expired
        /\ \E take \in [Lots -> 0..q] :
             /\ IsLotTake(take, lotQty, l, q)
             /\ RemoveFromShelf(i, q, take)
        /\ LotsFitShelf(i)
        /\ UNCHANGED <<orderVars, holdVars, yardVars>>

(* The same handler, kind 'count_correction': the shelf is set to what was  *)
(* counted.                                                                *)
RecordCount(i, counted) ==
    /\ "count" \in ShelfOps /\ i \notin MarketItems
    /\ IF counted < onHand[i]
       THEN \E take \in [Lots -> 0..(onHand[i] - counted)] :
              /\ IsCountTake(take, onHand[i], lotQty, i, onHand[i] - counted)
              /\ RemoveFromShelf(i, onHand[i] - counted, take)
       ELSE /\ MoveItem(i, counted)
            /\ UNCHANGED <<lotQty, lotState, lotBooked>>
    /\ LotsFitShelf(i)
    /\ UNCHANGED <<orderVars, holdVars, yardVars>>

(* POST /api/product-sales (quick sale) and prepared-product-removals, for  *)
(* a recipe of one ingredient.  Reservations are not looked at.            *)
SellAtCounter(i, q) ==
    LET usable == LotsOf(i) \cap UsableLots
    IN  /\ "sale" \in ShelfOps /\ i \notin MarketItems
        /\ FefoCovers(onHand[i], lotQty, i, usable, q)
        /\ \E take \in [Lots -> 0..q] :
             /\ OnlyFrom(take, usable)
             /\ IsFefoTake(take, lotQty, usable, q)
             /\ RemoveFromShelf(i, q, take)
        /\ UNCHANGED <<orderVars, holdVars, yardVars>>

(* Purchase-order receipt of a linked item: aggregate and a fresh lot.      *)
ReceiveLot(l) ==
    /\ "receive" \in ShelfOps
    /\ lotState[l] = "unreceived"
    /\ MoveItem(LotItem[l], onHand[LotItem[l]] + LotSize[l])
    /\ lotQty' = [lotQty EXCEPT ![l] = LotSize[l]]
    /\ lotState' = [lotState EXCEPT ![l] = "available"]
    /\ lotBooked' = [lotBooked EXCEPT ![l] = LotSize[l]]
    /\ UNCHANGED <<orderVars, holdVars, yardVars>>

(* applyRecallMatches: the lot is matched for good, and quarantined if      *)
(* anything of it is left.                                                 *)
RecallLot(l) ==
    /\ "recall" \in ShelfOps
    /\ lotState[l] # "unreceived"
    /\ recalled' = recalled \cup {l}
    /\ lotState' = [lotState EXCEPT ![l] = IF lotQty[l] > 0 THEN "quarantined" ELSE @]
    /\ UNCHANGED <<orderVars, holdVars, onHand, lotQty, bookVars, expired, withheld>>

(* Time passes the expires_at of a lot; earlier dates first.               *)
LotExpires(l) ==
    /\ "expiry" \in ShelfOps
    /\ l \in Perishable \ expired
    /\ \A k \in Perishable \cap LotsOf(LotItem[l]) : Rank[k] < Rank[l] => k \in expired
    /\ expired' = expired \cup {l}
    /\ UNCHANGED <<orderVars, holdVars, shelfVars, bookVars, recalled, withheld>>

(* createInventoryUnavailableAllocation: no lock, no comparison with what   *)
(* is on the shelf; and its release.                                       *)
Withhold(i, q) ==
    /\ "withhold" \in ShelfOps /\ i \notin MarketItems
    /\ withheld[i] + q <= MaxWithheld
    /\ withheld' = [withheld EXCEPT ![i] = @ + q]
    /\ UNCHANGED <<orderVars, holdVars, shelfVars, bookVars, expired, recalled>>

PutBack(i, q) ==
    /\ q <= withheld[i]
    /\ withheld' = [withheld EXCEPT ![i] = @ - q]
    /\ UNCHANGED <<orderVars, holdVars, shelfVars, bookVars, expired, recalled>>

(* The stock level a merchant types into a marketplace product.            *)
SetMarketStock(i, level) ==
    /\ "market" \in ShelfOps /\ i \in MarketItems
    /\ MoveItem(i, level)
    /\ UNCHANGED <<orderVars, holdVars, lotQty, lotState, lotBooked, yardVars>>

-----------------------------------------------------------------------------
OrderStep(o) ==
    \/ \E t \in AllowedTerms : PlaceOrder(o, t)
    \/ CheckIn(o)
    \/ \E manual \in BOOLEAN : ConfirmPresence(o, manual)
    \/ \E amount \in 1..OrderTotal[o] : RecordPayment(o, amount)
    \/ StartPreparation(o)
    \/ MarkReady(o)
    \/ HandOff(o)
    \/ \E allowCredit \in BOOLEAN : Complete(o, allowCredit)
    \/ Cancel(o)
    \/ LapseHold(o)

ItemStep(i) ==
    \/ \E q \in 1..MaxCount, onlyExpired \in BOOLEAN : RecordLoss(i, q, onlyExpired)
    \/ \E counted \in 0..MaxCount : RecordCount(i, counted)
    \/ \E q \in 1..MaxCount : SellAtCounter(i, q)
    \/ \E q \in 1..MaxWithheld : Withhold(i, q) \/ PutBack(i, q)
    \/ \E level \in MarketLevels : SetMarketStock(i, level)

LotStep(l) ==
    \/ \E q \in 1..MaxCount, onlyExpired \in BOOLEAN : RecordLotLoss(l, q, onlyExpired)
    \/ ReceiveLot(l)
    \/ RecallLot(l)
    \/ LotExpires(l)

Next ==
    \/ \E o \in Orders : OrderStep(o)
    \/ \E i \in Items : ItemStep(i)
    \/ \E l \in Lots : LotStep(l)

Spec == Init /\ [][Next]_vars

(* The only progress assumed: a reservation's expires_at does arrive.       *)
FairSpec == Spec /\ \A o \in Orders : WF_vars(LapseHold(o))

-----------------------------------------------------------------------------
(* Types of the order, reservation and stock tables.  The part that could   *)
(* fail: no sequence of starts, losses, counts and sales takes an aggregate *)
(* or a lot below zero.                                                    *)
TypeOK ==
    /\ status \in [Orders -> Statuses]
    /\ terms \in [Orders -> Terms \cup {NoTerms}]
    /\ presence \in [Orders -> {"unknown", "checked_in", "confirmed"}]
    /\ paid \in [Orders -> Nat]
    /\ hold \in [Orders -> {"none", "reserved", "released", "consumed"}]
    /\ heldLots \in [Orders -> OrderTakes]
    /\ stock \in [Orders -> {"untouched", "consumed", "reversed"}]
    /\ onHand \in [Items -> Nat]
    /\ lotQty \in [Lots -> Nat]
    /\ lotState \in [Lots -> LotStates]
    /\ expired \subseteq Lots
    /\ recalled \subseteq Lots
    /\ withheld \in [Items -> 0..MaxWithheld]
    /\ booked \in [Items -> Int]
    /\ lotBooked \in [Lots -> Int]

Unstarted == {"awaiting_payment", "awaiting_customer_presence", "accepted"}
Underway  == {"preparing", "ready", "handoff_to_delivery", "completed"}

OrderFollowsStatus(o) ==
    /\ status[o] = "none" => hold[o] = "none" /\ stock[o] = "untouched"
    /\ status[o] \in Unstarted =>
          hold[o] \in {"reserved", "released"} /\ stock[o] = "untouched"
    /\ status[o] \in Underway => hold[o] = "consumed" /\ stock[o] = "consumed"
    /\ status[o] = "cancelled" =>
          \/ hold[o] = "released" /\ stock[o] = "untouched"
          \/ hold[o] = "consumed" /\ stock[o] = "reversed"

(* What an order has done to the stock is what its status says: nothing     *)
(* before it exists, at most a hold until it starts, its stock used exactly *)
(* while it is being made or done, and after a cancellation no hold and     *)
(* nothing used that was not returned.                                     *)
StockFollowsStatus == \A o \in Orders : OrderFollowsStatus(o)

OrderGated(o) ==
    /\ paid[o] <= OrderTotal[o]
    /\ status[o] = "awaiting_payment" => terms[o].pay = "online"
    /\ status[o] = "awaiting_customer_presence" =>
          terms[o].pay = "cash" /\ terms[o].fulfil = "pickup"
    /\ status[o] \in {"accepted"} \cup Underway =>
          IF terms[o].pay = "online" THEN paid[o] = OrderTotal[o]
          ELSE /\ terms[o].fulfil = "pickup"
               /\ presence[o] = "confirmed" \/ terms[o].trusted

(* Control points of order processing: no order is made before it is paid   *)
(* online in full or, for cash, before the merchant has seen the customer   *)
(* or has chosen to trust them; until then it waits for exactly the one of  *)
(* the two it needs; and nobody pays more than the order costs.             *)
PreparationGated == \A o \in Orders : OrderGated(o)

Using == {o \in Orders : stock[o] = "consumed"}

(* The aggregate differs from the receipts, sales and adjustments on record *)
(* by exactly what unfinished and completed orders used: no start takes     *)
(* twice, no cancellation returns twice, too little or for nothing.         *)
ItemsConserved ==
    \A i \in Items : onHand[i] = booked[i] - Total([o \in Orders |-> Need[o][i]], Using)

(* The same for every supply lot.                                          *)
LotsConserved ==
    \A l \in Lots : lotQty[l] = lotBooked[l] - Total([o \in Orders |-> heldLots[o][l]], Using)

Holding == {o \in Orders : hold[o] = "reserved"}

(* No stock is promised twice: as long as nothing but orders removes stock, *)
(* everything under a live hold is physically there, lot by lot, among the  *)
(* loose stock, and in the aggregate.                                      *)
ReservationsBacked ==
    /\ \A l \in Lots : Total([o \in Orders |-> heldLots[o][l]], Holding) <= lotQty[l]
    /\ \A i \in Items :
         /\ Total([o \in Orders |-> HeldLoose(o, i)], Holding) <= Loose(onHand[i], lotQty, i)
         /\ Total([o \in Orders |-> Need[o][i]], Holding) <= onHand[i]

HeldLotsNotRecalled(o) ==
    \A l \in Lots : heldLots[o][l] > 0 => l \notin recalled

(* An accepted order with a live hold on lots nobody recalled can start:    *)
(* "Reserved Inventory quantity changed before preparation started." and    *)
(* "Lot allocation changed while stock was being consumed" are not answers  *)
(* such an order gets, whatever other orders do meanwhile.                  *)
LiveHoldCanStart ==
    \A o \in Orders :
        status[o] = "accepted" /\ hold[o] = "reserved" /\ HeldLotsNotRecalled(o)
            => MayConsume(o, heldLots[o])

CanStart(o) == \E take \in OrderTakes : MayConsume(o, take)
ShelfCanServe(o) == \E take \in OrderTakes : FitsShelf(o, take)

(* An accepted order never stays blocked behind its own stale reservation:  *)
(* if the shelf can serve it, preparation becomes possible (or the order    *)
(* goes, or the shelf loses the stock).  The hold on a recalled or lost lot *)
(* lapses, and the next start plans again.                                 *)
HeldUpStartsHeal ==
    \A o \in Orders :
        status[o] = "accepted" ~>
            (status[o] # "accepted" \/ CanStart(o) \/ ~ShelfCanServe(o))

(* A lot matched by a recall is quarantined as long as anything of it is    *)
(* on the shelf.                                                           *)
RecalledLotsStayHeld ==
    \A l \in recalled : lotQty[l] > 0 => lotState[l] # "available"

-----------------------------------------------------------------------------
(* What an order means for the stock, without lots, holds or statuses.      *)
Claim(o) ==
    IF stock[o] = "consumed" THEN "taken"
    ELSE IF stock[o] = "reversed" THEN "returned"
    ELSE IF status[o] = "cancelled" THEN "dropped"
    ELSE IF hold[o] = "reserved" THEN "held" ELSE "none"

Promise == INSTANCE StockPromise
    WITH claim <- [o \in Orders |-> Claim(o)], units <- onHand

(* The whole machinery of reservations, lots and statuses keeps the promise *)
(* StockPromise states: stock moves for an order only when it is taken or   *)
(* returned, in full, once each and in that order.                          *)
KeepsPromise == Promise!Spec
=============================================================================
