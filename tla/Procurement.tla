---------------------------- MODULE Procurement ----------------------------
(***************************************************************************)
(* Purchase orders between a merchant and its suppliers: the order, what    *)
(* the supplier confirms of it, the goods that come in, go back or are      *)
(* repacked, and the money.                                                *)
(*                                                                         *)
(* server-suppliers.js owns the order's life and its payments, server-      *)
(* supplier-exceptions-v5.js the backorders, server-supplier-commercial-    *)
(* v3.js invoices and returns, server-supplier-domain-v2.js lots received   *)
(* by hand and repacking.  Handlers that lock what they decide on are one   *)
(* action.  Two read first and write later: the dispatch of a return reads  *)
(* its status before its transaction, and a receipt by hand reads the       *)
(* stock it adds to.                                                       *)
(*                                                                         *)
(* The shelf is that of OrderStock: counter sales, losses and recalls move  *)
(* the same items and lots.                                                *)
(***************************************************************************)
EXTENDS OrderStock

CONSTANTS
    PurchaseOrders, \* purchase_orders.id
    PoItems,        \* purchase_order_items
    OrderOf,        \* OrderOf[n]: the purchase order of the line
    StockItem,      \* StockItem[n]: the inventory row its catalogue item is linked to
    Ordered,        \* ordered_packs
    UnitsPerPack,   \* base_units_per_pack_snapshot
    PackPrice,      \* price_per_pack_snapshot; confirmed and actual prices equal it
    Returns,        \* purchase_returns, one lot each
    EvidenceWidth,  \* 1000000 centavos: see EvidenceId
    Unanswered,     \* confirmed_packs IS NULL
    MaxInvoice,     \* bound: invoices recorded for one order
    MaxCredit       \* bound: the credit a supplier confirms for a return

ASSUME ProcurementAssumption ==
    /\ MarketItems = {}
    /\ PurchaseOrders \subseteq Nat
    /\ IsFiniteSet(PoItems) /\ IsFiniteSet(Returns)
    /\ OrderOf \in [PoItems -> PurchaseOrders]
    /\ StockItem \in [PoItems -> Items]
    /\ Ordered \in [PoItems -> Nat \ {0}]
    /\ UnitsPerPack \in [PoItems -> Nat \ {0}]
    /\ PackPrice \in [PoItems -> Nat]
    /\ EvidenceWidth \in Nat \ {0}
    /\ Unanswered \notin Nat
    /\ MaxInvoice \in Nat /\ MaxCredit \in Nat

VARIABLES
    poStatus,    \* purchase_orders.status
    confirmed,   \* confirmed_packs of a line
    received,    \* received_packs of a line
    expected,    \* expected_total of an order
    backorder,   \* the line's latest supplier_backorders row
    invoiced,    \* sum of the order's active purchase_invoice_evidence
    poPaid,      \* purchase_orders.paid_amount
    ledger,      \* transactions of source supplier_payment / supplier_receipt, by source_id
    ret,         \* purchase_returns
    dispatching, \* returns whose dispatch has read the status and not yet locked the row
    source,      \* where a lot came from: its order line, its parent lot, or a hand
    lotIn,       \* quantity_received_base of a lot that came after the start
    byHand,      \* receipts by hand: the stock level read, not yet written
    overwritten  \* net stock movements that receipts by hand wrote over

orderBookVars == <<poStatus, confirmed, received, expected, backorder>>
moneyVars     == <<invoiced, poPaid, ledger>>
goodsVars     == <<source, lotIn>>
handVars      == <<byHand, overwritten>>
returnVars    == <<ret, dispatching>>
tradeVars     == <<orderBookVars, moneyVars, returnVars, goodsVars, handVars>>
allVars       == <<vars, tradeVars>>

ItemsOf(po) == {n \in PoItems : OrderOf[n] = po}

NoBackorder == [state |-> "none", packs |-> 0]
NoReturn    == [status |-> "none"]
NotReading  == [phase |-> "idle"]
From(kind, of, input) == [kind |-> kind, of |-> of, input |-> input]
Nowhere == From("none", "none", 0)

InitTrade ==
    /\ poStatus = [po \in PurchaseOrders |-> "none"]
    /\ confirmed = [n \in PoItems |-> Unanswered]
    /\ received = [n \in PoItems |-> 0]
    /\ expected = [po \in PurchaseOrders |-> 0]
    /\ backorder = [n \in PoItems |-> NoBackorder]
    /\ invoiced = [po \in PurchaseOrders |-> 0]
    /\ poPaid = [po \in PurchaseOrders |-> 0]
    /\ ledger = [id \in {} |-> NoBackorder]
    /\ ret = [r \in Returns |-> NoReturn]
    /\ dispatching = {}
    /\ source = [l \in Lots |-> Nowhere]
    /\ lotIn = [l \in Lots |-> 0]
    /\ byHand = [l \in Lots |-> NotReading]
    /\ overwritten = [i \in Items |-> 0]

-----------------------------------------------------------------------------
(* The order and what the supplier confirms of it.                         *)

Value(packs, po) == Total([n \in PoItems |-> packs[n] * PackPrice[n]], ItemsOf(po))

(* POST /api/procurement/orders                                            *)
CreatePurchaseOrder(po) ==
    /\ poStatus[po] = "none"
    /\ poStatus' = [poStatus EXCEPT ![po] = "sent"]
    /\ expected' = [expected EXCEPT ![po] = Value(Ordered, po)]
    /\ UNCHANGED <<vars, confirmed, received, backorder, moneyVars, returnVars, goodsVars, handVars>>

AnswerableStatuses == {"sent", "accepted", "partially_accepted"}

(* POST /api/supplier/orders/:id/respond with reject                       *)
RejectOrder(po) ==
    /\ poStatus[po] \in AnswerableStatuses
    /\ poStatus' = [poStatus EXCEPT ![po] = "rejected"]
    /\ UNCHANGED <<vars, confirmed, received, expected, backorder, moneyVars, returnVars,
                   goodsVars, handVars>>

(* The same handler with an answer, possibly for no line: a line it leaves  *)
(* out keeps what was confirmed before, or is confirmed as ordered.        *)
ConfirmOrder(po, answer) ==
    /\ poStatus[po] \in AnswerableStatuses
    /\ \A n \in PoItems \ ItemsOf(po) : answer[n] = Unanswered
    /\ confirmed' = [n \in PoItems |->
         IF answer[n] # Unanswered THEN answer[n]
         ELSE IF n \in ItemsOf(po) /\ confirmed[n] = Unanswered THEN Ordered[n]
         ELSE confirmed[n]]
    /\ poStatus' = [poStatus EXCEPT ![po] =
         IF \E n \in ItemsOf(po) : answer[n] # Unanswered /\ answer[n] < Ordered[n]
         THEN "partially_accepted" ELSE "accepted"]
    /\ expected' = [expected EXCEPT ![po] = Value(confirmed', po)]
    /\ UNCHANGED <<vars, received, backorder, moneyVars, returnVars, goodsVars, handVars>>

ProgressStatuses == {"preparing", "ready_for_pickup", "out_for_delivery", "delivered"}

ClosedStatuses == {"none", "received", "rejected"}

(* POST /api/supplier/orders/:id/status: from any open status to any.       *)
ReportProgress(po, to) ==
    /\ poStatus[po] \notin ClosedStatuses
    /\ poStatus' = [poStatus EXCEPT ![po] = to]
    /\ UNCHANGED <<vars, confirmed, received, expected, backorder, moneyVars, returnVars,
                   goodsVars, handVars>>

(* unconfirmedPacks: a line never answered counts as confirmed zero here,   *)
(* and as confirmed in full when it is received (Expectable).              *)
Unconfirmed(n) ==
    AtLeastZero(Ordered[n] - (IF confirmed[n] = Unanswered THEN 0 ELSE confirmed[n]))

(* POST /api/supplier/orders/:id/backorders.  The order and the line are    *)
(* read without a lock; an insert that comes late is one that was made at   *)
(* the time of its reads, for nothing looks at a proposal but its answer.   *)
ProposeBackorder(n, packs) ==
    /\ poStatus[OrderOf[n]] \in {"partially_accepted", "preparing"}
    /\ packs <= Unconfirmed(n)
    /\ backorder[n].state \notin {"proposed", "merchant_accepted"}
    /\ backorder' = [backorder EXCEPT ![n] = [state |-> "proposed", packs |-> packs]]
    /\ UNCHANGED <<vars, poStatus, confirmed, received, expected, moneyVars, returnVars,
                   goodsVars, handVars>>

(* POST /api/procurement/backorders/:id/respond                            *)
AnswerBackorder(n, accept) ==
    /\ backorder[n].state = "proposed"
    /\ backorder' = [backorder EXCEPT ![n].state =
         IF accept THEN "merchant_accepted" ELSE "merchant_declined"]
    /\ UNCHANGED <<vars, poStatus, confirmed, received, expected, moneyVars, returnVars,
                   goodsVars, handVars>>

(* POST /api/supplier/backorders/:id/fulfil: locks the backorder and the    *)
(* line; the order only moves from partially_accepted to accepted.  A line  *)
(* never answered is NULL to BOOL_AND, which skips it.                     *)
FulfilBackorder(n) ==
    LET po == OrderOf[n]
    IN  /\ backorder[n].state = "merchant_accepted"
        /\ backorder[n].packs <= Unconfirmed(n)
        /\ confirmed' = [confirmed EXCEPT ![n] =
             (IF @ = Unanswered THEN 0 ELSE @) + backorder[n].packs]
        /\ backorder' = [backorder EXCEPT ![n].state = "fulfilled"]
        /\ poStatus' = [poStatus EXCEPT ![po] =
             IF @ = "partially_accepted"
                /\ \A m \in ItemsOf(po) :
                     confirmed'[m] # Unanswered => confirmed'[m] >= Ordered[m]
             THEN "accepted" ELSE @]
        /\ UNCHANGED <<vars, received, expected, moneyVars, returnVars, goodsVars, handVars>>

-----------------------------------------------------------------------------
(* Goods that come in.                                                     *)

(* A fresh lot: supply_lots rows start available.                          *)
PutLot(l, i, units, from) ==
    /\ lotState[l] = "unreceived" /\ LotItem[l] = i
    /\ lotQty' = [lotQty EXCEPT ![l] = units]
    /\ lotState' = [lotState EXCEPT ![l] = "available"]
    /\ lotIn' = [lotIn EXCEPT ![l] = units]
    /\ source' = [source EXCEPT ![l] = from]

(* COALESCE(confirmed_packs, ordered_packs)                                *)
Expectable(n) == IF confirmed[n] = Unanswered THEN Ordered[n] ELSE confirmed[n]

MayReceive(n, packs) == packs <= Expectable(n) - received[n]

ReceiveUnits(n, l, packs) ==
    /\ onHand' = [onHand EXCEPT ![StockItem[n]] = @ + packs * UnitsPerPack[n]]
    /\ PutLot(l, StockItem[n], packs * UnitsPerPack[n], From("order", n, 0))

(* POST /api/procurement/orders/:id/receive, in both servers.  A line with  *)
(* nothing received is skipped, but the order's status is set all the same. *)
ReceivePacks(n, packs) ==
    LET po == OrderOf[n]
    IN  /\ poStatus[po] \notin ClosedStatuses
        /\ IF packs = 0
           THEN UNCHANGED <<onHand, lotQty, lotState, goodsVars>>
           ELSE /\ MayReceive(n, packs)
                /\ \E l \in Lots : ReceiveUnits(n, l, packs)
        /\ received' = [received EXCEPT ![n] = @ + packs]
        /\ poStatus' = [poStatus EXCEPT ![po] =
             IF \A m \in ItemsOf(po) : received'[m] >= Expectable(m)
             THEN "received" ELSE "partially_received"]
        /\ UNCHANGED <<orderVars, holdVars, bookVars, yardVars, confirmed, expected, backorder,
                       moneyVars, returnVars, handVars>>

(* POST /api/procurement/supply-lots: the stock level is read on the pool,  *)
ReadForReceiptByHand(l) ==
    /\ lotState[l] = "unreceived" /\ byHand[l] = NotReading
    /\ byHand' = [byHand EXCEPT ![l] = [phase |-> "read", level |-> onHand[LotItem[l]]]]
    /\ UNCHANGED <<vars, orderBookVars, moneyVars, returnVars, goodsVars, overwritten>>

(* and the sum is written in a transaction that does not look again.        *)
ReceiveByHand(l) ==
    LET i == LotItem[l]
    IN  /\ byHand[l] # NotReading
        /\ onHand' = [onHand EXCEPT ![i] = byHand[l].level + LotSize[l]]
        /\ overwritten' = [overwritten EXCEPT ![i] = @ + onHand[i] - byHand[l].level]
        /\ PutLot(l, i, LotSize[l], From("hand", "none", 0))
        /\ byHand' = [byHand EXCEPT ![l] = NotReading]
        /\ UNCHANGED <<orderVars, holdVars, bookVars, yardVars, orderBookVars, moneyVars,
                       returnVars>>

(* POST /api/procurement/supply-lots/:id/repack: any lot, whatever its      *)
(* state; what is not packed is waste.  An emptied lot keeps its state.    *)
Repack(k, l, input, packed) ==
    LET i == LotItem[k] j == LotItem[l]
    IN  /\ i # j
        /\ input <= lotQty[k] /\ input <= onHand[i]
        /\ lotState[l] = "unreceived"
        /\ lotQty' = [lotQty EXCEPT ![k] = @ - input, ![l] = packed]
        /\ onHand' = [onHand EXCEPT ![i] = @ - input, ![j] = @ + packed]
        /\ lotState' = [lotState EXCEPT ![l] = "available"]
        /\ lotIn' = [lotIn EXCEPT ![l] = packed]
        /\ source' = [source EXCEPT ![l] = From("repack", k, input)]
        /\ UNCHANGED <<orderVars, holdVars, bookVars, yardVars, orderBookVars, moneyVars,
                       returnVars, handVars>>

-----------------------------------------------------------------------------
(* Goods that go back.                                                     *)

Connected(r) == ret[r].connected

Left(r) == ret[r].status \in {"returned", "resolved"}

(* POST /api/procurement/returns: an original lot with a source; the lot is *)
(* read without a lock, and its stock is looked at again at the dispatch.   *)
(* Lots of an order have its supplier, lots received by hand an external    *)
(* supply party.                                                           *)
RequestReturn(r, l, q) ==
    /\ ret[r] = NoReturn
    /\ source[l].kind \in {"order", "hand"}
    /\ q <= lotQty[l]
    /\ ret' = [ret EXCEPT ![r] = [status |-> "requested", lot |-> l, q |-> q,
                                  connected |-> source[l].kind = "order", credit |-> 0]]
    /\ UNCHANGED <<vars, orderBookVars, moneyVars, dispatching, goodsVars, handVars>>

(* Mutant: a supplier may change its mind about an authorised return. *)
StillOpen(r) == ret[r].status \in {"requested", "authorized"}

AwaitsSupplier(r) == ret[r].status = "requested"

(* POST /api/supplier/returns/:id/respond: one conditional UPDATE          *)
AnswerReturn(r, authorize) ==
    /\ ret[r] # NoReturn /\ Connected(r) /\ AwaitsSupplier(r)
    /\ ret' = [ret EXCEPT ![r].status = IF authorize THEN "authorized" ELSE "rejected"]
    /\ UNCHANGED <<vars, orderBookVars, moneyVars, dispatching, goodsVars, handVars>>

(* POST /api/procurement/returns/:id/dispatch reads the status,            *)
BeginDispatch(r) ==
    /\ r \notin dispatching
    /\ ret[r] # NoReturn
    /\ IF Connected(r) THEN ret[r].status = "authorized"
       ELSE ret[r].status \in {"requested", "authorized"}
    /\ dispatching' = dispatching \cup {r}
    /\ UNCHANGED <<vars, orderBookVars, moneyVars, ret, goodsVars, handVars>>

(* Mutant: the lot's quantity at the request is trusted. *)
ReturnFitsStock(r) == ret[r].q <= onHand[LotItem[ret[r].lot]]

ReturnFits(r) ==
    /\ ret[r].q <= lotQty[ret[r].lot]
    /\ ret[r].q <= onHand[LotItem[ret[r].lot]]

(* Mutant: returned_at is not looked at. *)
AnyReturn(r) == TRUE

NotYetReturned(r) == ~Left(r)

(* and its transaction looks at returned_at only; the lot and the stock are *)
(* locked and looked at again.  Another call that has read the status too   *)
(* may still be under way.                                                 *)
FinishDispatch(r) ==
    LET l == ret[r].lot q == ret[r].q
    IN  /\ r \in dispatching
        /\ NotYetReturned(r)
        /\ ReturnFits(r)
        /\ onHand' = [onHand EXCEPT ![LotItem[l]] = @ - q]
        /\ lotQty' = [lotQty EXCEPT ![l] = @ - q]
        /\ lotState' = [lotState EXCEPT ![l] = IF lotQty[l] = q THEN "returned" ELSE @]
        /\ ret' = [ret EXCEPT ![r].status = "returned"]
        /\ dispatching' \in {dispatching, dispatching \ {r}}
        /\ UNCHANGED <<orderVars, holdVars, bookVars, yardVars, orderBookVars, moneyVars,
                       goodsVars, handVars>>

(* Any other outcome of that transaction: a 409, nothing changed.          *)
FailDispatch(r) ==
    /\ r \in dispatching
    /\ Left(r) \/ ~ReturnFits(r)
    /\ dispatching' = dispatching \ {r}
    /\ UNCHANGED <<vars, orderBookVars, moneyVars, ret, goodsVars, handVars>>

(* POST /api/supplier/returns/:id/resolve and, for an external party,       *)
(* /api/procurement/returns/:id/external-resolution.                       *)
ResolveReturn(r, credit) ==
    /\ ret[r].status = "returned"
    /\ ret' = [ret EXCEPT ![r] = [@ EXCEPT !.status = "resolved", !.credit = credit]]
    /\ UNCHANGED <<vars, orderBookVars, moneyVars, dispatching, goodsVars, handVars>>

-----------------------------------------------------------------------------
(* The money.                                                              *)

ReturnsOf(po) == {r \in Returns :
    Left(r) /\ source[ret[r].lot].kind = "order" /\ OrderOf[source[ret[r].lot].of] = po}

Credits(po) == Total([r \in Returns |-> ret[r].credit], ReturnsOf(po))

(* commercialPosition: what was invoiced, else what was received, else what *)
(* was ordered, less the credits and the payments.                         *)
Basis(po) ==
    IF invoiced[po] > 0 THEN invoiced[po]
    ELSE IF Value(received, po) > 0 THEN Value(received, po)
    ELSE expected[po]

Outstanding(po) == AtLeastZero(AtLeastZero(Basis(po) - Credits(po)) - poPaid[po])

(* POST /api/procurement/orders/:id/invoices, by either side.              *)
RecordInvoice(po, amount) ==
    /\ poStatus[po] # "none"
    /\ invoiced[po] + amount <= MaxInvoice
    /\ invoiced' = [invoiced EXCEPT ![po] = @ + amount]
    /\ UNCHANGED <<vars, orderBookVars, poPaid, ledger, returnVars, goodsVars, handVars>>

(* Mutant: two equal payments have one evidence id. *)
EvidenceIdByAmount(po, paidNow, amount) == po * EvidenceWidth + amount

(* The source_id under which a payment of the order is booked:              *)
(* id * 1000000 + the centavos paid so far, this payment included.         *)
EvidenceId(po, paidNow, amount) == po * EvidenceWidth + paidNow

(* POST /api/procurement/orders/:id/payment.  The expense and the           *)
(* supplier's receipt share the id; a row that has it is overwritten        *)
(* (ON CONFLICT DO UPDATE).                                                *)
PayOrder(po, amount) ==
    LET id == EvidenceId(po, poPaid[po] + amount, amount)
    IN  /\ poStatus[po] # "none"
        /\ amount <= Outstanding(po)
        /\ poPaid' = [poPaid EXCEPT ![po] = @ + amount]
        /\ ledger' = [k \in DOMAIN ledger \cup {id} |->
             IF k = id THEN [po |-> po, amount |-> amount] ELSE ledger[k]]
        /\ UNCHANGED <<vars, orderBookVars, invoiced, returnVars, goodsVars, handVars>>

-----------------------------------------------------------------------------
MostPacks == FoldSet(LAMBDA n, most : IF Ordered[n] > most THEN Ordered[n] ELSE most, 0, PoItems)

MostUnits == Total(UnitsPerPack, PoItems) * MostPacks

Answers == [PoItems -> {Unanswered} \cup 0..MostPacks]

OrderBookStep ==
    \/ \E po \in PurchaseOrders :
         \/ CreatePurchaseOrder(po)
         \/ RejectOrder(po)
         \/ \E answer \in Answers : ConfirmOrder(po, answer)
         \/ \E to \in ProgressStatuses : ReportProgress(po, to)
    \/ \E n \in PoItems :
         \/ \E packs \in 1..MostPacks : ProposeBackorder(n, packs)
         \/ \E accept \in BOOLEAN : AnswerBackorder(n, accept)
         \/ FulfilBackorder(n)
         \/ \E packs \in 0..MostPacks : ReceivePacks(n, packs)

GoodsStep ==
    \/ \E l \in Lots : ReadForReceiptByHand(l) \/ ReceiveByHand(l)
    \/ \E k, l \in Lots : \E input \in 1..MostUnits : \E packed \in 1..input :
         Repack(k, l, input, packed)

ReturnStep ==
    \E r \in Returns :
        \/ \E l \in Lots, q \in 1..MostUnits : RequestReturn(r, l, q)
        \/ \E authorize \in BOOLEAN : AnswerReturn(r, authorize)
        \/ BeginDispatch(r)
        \/ FinishDispatch(r)
        \/ FailDispatch(r)
        \/ \E credit \in 0..MaxCredit : ResolveReturn(r, credit)

MoneyStep ==
    \E po \in PurchaseOrders :
        \/ \E amount \in 1..MaxInvoice : RecordInvoice(po, amount)
        \/ \E amount \in 1..Outstanding(po) : PayOrder(po, amount)

(* What else moves the shelf: a lot with a code of its own may be recalled. *)
ShelfStep ==
    /\ \/ \E i \in Items : ItemStep(i)
       \/ \E l \in Lots :
            \/ \E q \in 1..MaxCount, onlyExpired \in BOOLEAN : RecordLotLoss(l, q, onlyExpired)
            \/ source[l].kind # "repack" /\ RecallLot(l)
    /\ UNCHANGED tradeVars

TradeInit == Init /\ InitTrade

TradeNext == OrderBookStep \/ GoodsStep \/ ReturnStep \/ MoneyStep \/ ShelfStep

TradeSpec == TradeInit /\ [][TradeNext]_allVars

-----------------------------------------------------------------------------
PoStatuses == {"none", "sent", "accepted", "partially_accepted", "partially_received",
               "received", "rejected"} \cup ProgressStatuses

BackorderRows == [state : {"none", "proposed", "merchant_accepted", "merchant_declined",
                           "fulfilled"}, packs : Nat]

ReturnRows == [status : {"requested", "authorized", "rejected", "returned", "resolved"},
               lot : Lots, q : Nat, connected : BOOLEAN, credit : Nat]

(* Types of the procurement tables.  The part that could fail: neither a    *)
(* return, nor a repack, nor a receipt by hand from a stale level, among    *)
(* sales, losses and each other, takes a stock level or a lot below zero.   *)
TradeTypeOK ==
    /\ onHand \in [Items -> Nat]
    /\ lotQty \in [Lots -> Nat]
    /\ lotState \in [Lots -> LotStates \cup {"returned"}]
    /\ poStatus \in [PurchaseOrders -> PoStatuses]
    /\ confirmed \in [PoItems -> Nat \cup {Unanswered}]
    /\ received \in [PoItems -> Nat]
    /\ expected \in [PurchaseOrders -> Nat]
    /\ backorder \in [PoItems -> BackorderRows]
    /\ invoiced \in [PurchaseOrders -> Nat]
    /\ poPaid \in [PurchaseOrders -> Nat]
    /\ DOMAIN ledger \subseteq Nat
    /\ \A id \in DOMAIN ledger :
         ledger[id] \in [po : PurchaseOrders, amount : Nat \ {0}]
    /\ ret \in [Returns -> ReturnRows \cup {NoReturn}]
    /\ dispatching \subseteq Returns
    /\ lotIn \in [Lots -> Nat]
    /\ byHand \in [Lots -> {NotReading} \cup [phase : {"read"}, level : Nat]]
    /\ overwritten \in [Items -> Int]

RepackedFrom(k) ==
    Total([l \in Lots |-> source[l].input],
          {l \in Lots : source[l].kind = "repack" /\ source[l].of = k})

SentBack(l) == Total([r \in Returns |-> ret[r].q], {r \in Returns : Left(r) /\ ret[r].lot = l})

CameIn(i) ==
    Total([n \in PoItems |-> received[n] * UnitsPerPack[n]], {n \in PoItems : StockItem[n] = i})
    + Total(lotIn, {l \in LotsOf(i) : source[l].kind \in {"hand", "repack"}})

WentOut(i) == Total([l \in Lots |-> RepackedFrom(l) + SentBack(l)], LotsOf(i))

(* Goods are traced through every table: a stock level is what the order    *)
(* lines, the hand receipts and the repacked lots brought in, less what was *)
(* repacked or sent back and what other movements on record took, and less  *)
(* exactly the movements a receipt by hand wrote over; and every lot is     *)
(* what it came in with, less what was repacked, sent back or lost from it. *)
GoodsTraced ==
    /\ \A i \in Items : onHand[i] + overwritten[i] = booked[i] + CameIn(i) - WentOut(i)
    /\ \A l \in Lots : lotQty[l] = lotBooked[l] + lotIn[l] - RepackedFrom(l) - SentBack(l)

RefusedUnmoved ==
    /\ \A po \in PurchaseOrders :
         poStatus[po] = "rejected" =>
            /\ poStatus'[po] = "rejected"
            /\ \A n \in ItemsOf(po) : received[n] = 0 /\ received'[n] = 0
    /\ \A r \in Returns : ret[r] # NoReturn /\ ret[r].status = "rejected" => ret'[r] = ret[r]

(* What the supplier refused stays refused: nothing was or ever will be     *)
(* received for a rejected purchase order, and the goods of a rejected      *)
(* return never leave, although the dispatch reads the return's status      *)
(* before its transaction and not in it.                                   *)
RefusalsHold == [][RefusedUnmoved]_allVars

Booked(po, total) ==
    LET id == po * EvidenceWidth + total IN id \in DOMAIN ledger /\ ledger[id].po = po

OpenedBy(po, id) == id - po * EvidenceWidth - ledger[id].amount

(* The books show every payment of every purchase order: the last payment   *)
(* has its entry, and each entry continues one of the same order or is its  *)
(* first, so the entries of an order add up to what it was paid.           *)
LedgerShowsPayments ==
    /\ \A po \in PurchaseOrders : poPaid[po] > 0 => Booked(po, poPaid[po])
    /\ \A id \in DOMAIN ledger :
         LET po == ledger[id].po IN OpenedBy(po, id) = 0 \/ Booked(po, OpenedBy(po, id))
=============================================================================
