---------------------------- MODULE StockPlaces ----------------------------
(***************************************************************************)
(* Where the stock is: inventory-locations.js.                             *)
(*                                                                         *)
(* Every item and every lot has a balance per storage place, beside its     *)
(* quantity.  Orders, receipts and adjustments change the quantity and not  *)
(* the balances; the balances follow later, when a transaction of this file *)
(* or a page that shows them RECONCILES: the difference is added at the      *)
(* item's home place, or drained from its places in a fixed order.          *)
(* Transactions reconcile under locks and are one action each.  The page    *)
(* reconciles on the connection pool, where every statement commits alone,  *)
(* so its repair is a sequence of steps that other transactions overlap.    *)
(***************************************************************************)
EXTENDS OrderStock

CONSTANTS
    Places,      \* inventory_storage_locations
    PlaceRank,   \* their ids: the last tie-break when balances are drained
    ItemRank,    \* inventory ids: the order in which items are locked
    OpeningHome, \* OpeningHome[i]: the item's home place at the start
    Transfers    \* bound: the internal transfers of this instance

ASSUME PlacesAssumption ==
    /\ MarketItems = {}
    /\ IsFiniteSet(Places)
    /\ PlaceRank \in [Places -> Nat]
    /\ \A p, q \in Places : PlaceRank[p] = PlaceRank[q] => p = q
    /\ ItemRank \in [Items -> Nat]
    /\ \A i, j \in Items : ItemRank[i] = ItemRank[j] => i = j
    /\ OpeningHome \in [Items -> Places]
    /\ Items \cap Lots = {}

VARIABLES
    at,        \* at[i][p]: inventory_location_balances
    lotAt,     \* lotAt[l][p]: inventory_lot_location_balances
    home,      \* the place the item's storage columns name
    transfer,  \* inventory_location_transfers with their lots
    repair     \* the page that is reconciling, if one is

placeVars == <<at, lotAt, home, transfer>>

NoTransfer == [state |-> "none"]

IdleRepair == [phase |-> "idle"]

OnlyAt(p, q) == [r \in Places |-> IF r = p THEN q ELSE 0]

(* ensureInventoryLocationSchema reconciles every business when the server  *)
(* starts.                                                                 *)
InitPlaces ==
    /\ at = [i \in Items |-> OnlyAt(OpeningHome[i], onHand[i])]
    /\ lotAt = [l \in Lots |-> OnlyAt(OpeningHome[LotItem[l]], lotQty[l])]
    /\ home = OpeningHome
    /\ transfer = [t \in Transfers |-> NoTransfer]
    /\ repair = IdleRepair

-----------------------------------------------------------------------------
(* The two drain orders: an item's home place first and then the fullest    *)
(* (reconcileInventoryLocationBalance), a lot's fullest place first         *)
(* (reduceBalances); ties by id.                                           *)
Fuller(bal, p, q) == bal[p] > bal[q] \/ (bal[p] = bal[q] /\ PlaceRank[p] < PlaceRank[q])

HomeThenFuller(bal, h, p, q) == q # h /\ (p = h \/ Fuller(bal, p, q))

(* What the walk over the places takes from p when n are to go.            *)
Drain(bal, before, n) ==
    [p \in Places |-> Lesser(bal[p], AtLeastZero(n - Total(bal, before[p])))]

DrainItem(bal, h, n) ==
    Drain(bal, [p \in Places |-> {q \in Places : HomeThenFuller(bal, h, q, p)}], n)

DrainLot(bal, n) == Drain(bal, [p \in Places |-> {q \in Places : Fuller(bal, q, p)}], n)

(* The change that makes the balances add up to the target.                *)
ItemChange(bal, h, target) ==
    LET gap == target - Total(bal, Places)
        drained == DrainItem(bal, h, -gap)
    IN  IF gap >= 0 THEN OnlyAt(h, gap) ELSE [p \in Places |-> -drained[p]]

LotChange(bal, h, target) ==
    LET gap == target - Total(bal, Places)
        drained == DrainLot(bal, -gap)
    IN  IF gap >= 0 THEN OnlyAt(h, gap) ELSE [p \in Places |-> -drained[p]]

SettledItem(bal, h, target) ==
    LET change == ItemChange(bal, h, target) IN [p \in Places |-> bal[p] + change[p]]

SettledLot(bal, h, target) ==
    LET change == LotChange(bal, h, target) IN [p \in Places |-> bal[p] + change[p]]

(* reconcileBusinessInventoryLocations inside a transaction: all balances   *)
(* as they are once every item and every lot is reconciled.                *)
Settled == [i \in Items |-> SettledItem(at[i], home[i], onHand[i])]
LotsSettled == [l \in Lots |-> SettledLot(lotAt[l], home[LotItem[l]], lotQty[l])]

AddsUp(bal, target) == Total(bal, Places) = target

Drifted == (\E i \in Items : ~AddsUp(at[i], onHand[i]))
           \/ (\E l \in Lots : ~AddsUp(lotAt[l], lotQty[l]))

-----------------------------------------------------------------------------
Move(bal, src, dst, q) == [bal EXCEPT ![src] = @ - q, ![dst] = @ + q]

LotTakes == [Lots -> 0..Total(LotSize, Lots)]

(* POST /api/inventory/transfers.  The item and, through sourceLotRows, the *)
(* whole business are reconciled first.  Without a chosen lot the FEFO plan *)
(* takes usable lots, and stock no lot accounts for covers the rest; with   *)
(* one, that lot, whatever its state, must cover it all.                    *)
TransferWith(t, i, src, dst, q, eligible, mayUseLoose, lotsBefore) ==
    LET before == Settled
        there == [l \in Lots |-> lotsBefore[l][src]]
        loose == AtLeastZero(before[i][src] - Total(there, LotsOf(i)))
    IN  /\ transfer[t] = NoTransfer
        /\ src # dst
        /\ q <= before[i][src]
        /\ \E take \in LotTakes :
             /\ OnlyFrom(take, eligible)
             /\ IsFefoTake(take, there, eligible, q)
             /\ q - Total(take, eligible) <= (IF mayUseLoose THEN loose ELSE 0)
             /\ lotAt' = [l \in Lots |-> Move(lotsBefore[l], src, dst, take[l])]
             /\ transfer' = [transfer EXCEPT ![t] =
                  [state |-> "done", item |-> i, src |-> src, dst |-> dst, q |-> q,
                   lots |-> take]]
        /\ at' = [before EXCEPT ![i] = Move(@, src, dst, q)]
        /\ AddsUp(at'[i], onHand[i])
        /\ UNCHANGED <<vars, home, repair>>

(* Mutant: the lots' balances are used as they are found. *)
TransferUnsettled(t, i, src, dst, q, eligible, mayUseLoose) ==
    TransferWith(t, i, src, dst, q, eligible, mayUseLoose, lotAt)

TransferMove(t, i, src, dst, q, eligible, mayUseLoose) ==
    TransferWith(t, i, src, dst, q, eligible, mayUseLoose, LotsSettled)

TransferFefo(t, i, src, dst, q) ==
    TransferMove(t, i, src, dst, q, LotsOf(i) \cap UsableLots, TRUE)

TransferLot(t, l, src, dst, q) ==
    TransferMove(t, LotItem[l], src, dst, q, {l}, FALSE)

(* Mutant: a reversal asks for the item's quantity alone. *)
ItemStillThere(m, before) == m.q <= before[m.dst]

MoveStillThere(m, before) ==
    /\ m.q <= before[m.dst]
    /\ \A l \in Lots : m.lots[l] <= lotAt[l][m.dst]

(* POST /api/inventory/transfers/:id/reverse: the item is reconciled, the   *)
(* lots are not.                                                           *)
ReverseTransfer(t) ==
    /\ transfer[t].state = "done"
    /\ LET m == transfer[t]
           before == SettledItem(at[m.item], home[m.item], onHand[m.item])
       IN  /\ MoveStillThere(m, before)
           /\ at' = [at EXCEPT ![m.item] = Move(before, m.dst, m.src, m.q)]
           /\ lotAt' = [l \in Lots |-> Move(lotAt[l], m.dst, m.src, m.lots[l])]
    /\ transfer' = [transfer EXCEPT ![t] = [state |-> "reversed"]]
    /\ UNCHANGED <<vars, home, repair>>

(* PUT /api/inventory/:id/storage *)
Rehome(i, p) ==
    /\ p # home[i]
    /\ home' = [home EXCEPT ![i] = p]
    /\ UNCHANGED <<vars, at, lotAt, transfer, repair>>

(* POST /api/inventory/purchases: a purchase brings a fresh lot as a        *)
(* purchase-order receipt does, may name another home, and reconciles the   *)
(* item and the lot.                                                       *)
BuyLot(l, p) ==
    LET i == LotItem[l]
    IN  /\ ReceiveLot(l)
        /\ home' = [home EXCEPT ![i] = p]
        /\ at' = [at EXCEPT ![i] = SettledItem(@, p, onHand'[i])]
        /\ lotAt' = [lotAt EXCEPT ![l] = SettledLot(@, p, lotQty'[l])]
        /\ UNCHANGED <<transfer, repair>>

-----------------------------------------------------------------------------
(* inventoryLocationReadSnapshot: the page that finds a drift repairs it,   *)
(* item after item and lot after lot, without a transaction.  One repair    *)
(* per business at a time.  For each: the quantity is read, then the        *)
(* balances are summed and the change planned, then written place by place. *)
RepairStarts ==
    /\ repair.phase = "idle"
    /\ Drifted
    /\ repair' = [phase |-> "next", todo |-> Items \cup Lots]
    /\ UNCHANGED <<vars, placeVars>>

RepairReads(x) ==
    /\ repair.phase = "next"
    /\ x \in repair.todo
    /\ repair.todo \cap Items # {} => x \in Items
    /\ repair' = [phase |-> "read", todo |-> repair.todo \ {x}, target |-> x,
                  canonical |-> IF x \in Items THEN onHand[x] ELSE lotQty[x]]
    /\ UNCHANGED <<vars, placeVars>>

RepairPlans ==
    /\ repair.phase = "read"
    /\ LET x == repair.target
           change == IF x \in Items THEN ItemChange(at[x], home[x], repair.canonical)
                     ELSE LotChange(lotAt[x], home[LotItem[x]], repair.canonical)
       IN  repair' = IF change = OnlyAt(home[IF x \in Items THEN x ELSE LotItem[x]], 0)
                     THEN [phase |-> "next", todo |-> repair.todo]
                     ELSE [phase |-> "write", todo |-> repair.todo, target |-> x,
                           change |-> change]
    /\ UNCHANGED <<vars, placeVars>>

(* Mutant: a repair only ever adds. *)
WrittenUp(q, change) == q + AtLeastZero(change)

(* quantity + diff, or GREATEST(0, quantity - take).                       *)
Written(q, change) == AtLeastZero(q + change)

RepairWrites(p) ==
    /\ repair.phase = "write"
    /\ repair.change[p] # 0
    /\ LET x == repair.target
           left == [repair.change EXCEPT ![p] = 0]
       IN  /\ IF x \in Items
              THEN at' = [at EXCEPT ![x][p] = Written(@, repair.change[p])] /\ UNCHANGED lotAt
              ELSE lotAt' = [lotAt EXCEPT ![x][p] = Written(@, repair.change[p])] /\ UNCHANGED at
           /\ repair' = IF \A r \in Places : left[r] = 0
                        THEN [phase |-> "next", todo |-> repair.todo]
                        ELSE [repair EXCEPT !.change = left]
    /\ UNCHANGED <<vars, home, transfer>>

RepairEnds ==
    /\ repair.phase = "next" /\ repair.todo = {}
    /\ repair' = IdleRepair
    /\ UNCHANGED <<vars, placeVars>>

RepairStep ==
    \/ RepairStarts
    \/ \E x \in Items \cup Lots : RepairReads(x)
    \/ RepairPlans
    \/ \E p \in Places : RepairWrites(p)
    \/ RepairEnds

-----------------------------------------------------------------------------
TransferStep(t) ==
    \/ \E i \in Items, src, dst \in Places : \E q \in 1..MaxCount : TransferFefo(t, i, src, dst, q)
    \/ \E l \in Lots, src, dst \in Places : \E q \in 1..MaxCount : TransferLot(t, l, src, dst, q)
    \/ ReverseTransfer(t)

PlaceStep ==
    \/ \E t \in Transfers : TransferStep(t)
    \/ \E i \in Items, p \in Places : Rehome(i, p)
    \/ \E l \in Lots, p \in Places : BuyLot(l, p)
    \/ RepairStep

(* Everything else that moves the shelf leaves the balances as they are.    *)
ShelfStep == Next /\ UNCHANGED <<placeVars, repair>>

-----------------------------------------------------------------------------
(* Types of the balance tables.  The part that could fail: drains, moves,   *)
(* reversals and counts take nothing from a place that is not there.        *)
PlacesTypeOK ==
    /\ at \in [Items -> [Places -> Nat]]
    /\ lotAt \in [Lots -> [Places -> Nat]]
    /\ home \in [Items -> Places]
    /\ \A t \in Transfers : transfer[t].state \in {"none", "done", "reversed"}
    /\ repair.phase \in {"idle", "next", "read", "write"}

(* Lots never claim more of an item than there is: the loose stock planners *)
(* compute is never negative, whatever orders, receipts and counts do.      *)
LotsWithinOnHand == \A i \in Items : Total(lotQty, LotsOf(i)) <= onHand[i]

(* A transfer or its reversal moves stock between places and makes or loses *)
(* none: quantities stay, the item's balances add up to its quantity, and   *)
(* every lot's balances add up to the lot, or to what they did.             *)
TransferSettles(t) ==
    LET i == IF transfer[t] = NoTransfer THEN transfer'[t].item ELSE transfer[t].item
    IN  /\ UNCHANGED <<onHand, lotQty>>
        /\ AddsUp(at'[i], onHand[i])
        /\ \A l \in LotsOf(i) :
             AddsUp(lotAt'[l], IF transfer[t] = NoTransfer THEN lotQty[l]
                               ELSE Total(lotAt[l], Places))

TransfersConserve == [][\A t \in Transfers : transfer'[t] # transfer[t] => TransferSettles(t)]_placeVars
=============================================================================
