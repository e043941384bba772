------------------------- MODULE ProcurementProofs --------------------------
(***************************************************************************)
(* Purchase orders and returns, for every number of orders, lines, lots and *)
(* calls under way: what a supplier refused stays refused, the books show   *)
(* every payment as long as no order is paid so much that its evidence ids  *)
(* reach those of the next order, and the goods are traced through every    *)
(* table.                                                                  *)
(***************************************************************************)
EXTENDS Procurement, OrderStockProofs

OrderTables ==
    /\ poStatus \in [PurchaseOrders -> PoStatuses]
    /\ received \in [PoItems -> Nat]

Early(po) == poStatus[po] \in {"none", "sent", "accepted", "partially_accepted", "rejected"}

(* Receiving anything takes an order out of the stages it can be refused in. *)
NothingReceivedEarly ==
    \A po \in PurchaseOrders : Early(po) => \A n \in ItemsOf(po) : received[n] = 0

(* A dispatch that has read a status that lets the goods go can still find  *)
(* the return refused only if the supplier answers twice.                  *)
Dispatchable(r) ==
    /\ ret[r] # NoReturn
    /\ ret[r].status # "rejected"
    /\ Connected(r) => ret[r].status # "requested"

ReturnsInv ==
    /\ ret \in [Returns -> ReturnRows \cup {NoReturn}]
    /\ dispatching \subseteq Returns
    /\ \A r \in dispatching : Dispatchable(r)

RefusalInv == OrderTables /\ NothingReceivedEarly /\ ReturnsInv

-----------------------------------------------------------------------------
LEMMA InitRefusals == TradeInit => RefusalInv
  <1> SUFFICES ASSUME TradeInit PROVE RefusalInv
    OBVIOUS
  <1> USE DEF TradeInit, InitTrade
  <1>1. OrderTables
    BY DEF OrderTables, PoStatuses
  <1>2. NothingReceivedEarly
    BY DEF NothingReceivedEarly, ItemsOf
  <1>3. ReturnsInv
    BY DEF ReturnsInv
  <1> QED BY <1>1, <1>2, <1>3 DEF RefusalInv

LEMMA SameBook ==
  ASSUME OrderTables, NothingReceivedEarly, UNCHANGED <<poStatus, received>>
  PROVE  (OrderTables /\ NothingReceivedEarly)'
  BY DEF OrderTables, NothingReceivedEarly, Early, ItemsOf

LEMMA SameReturns ==
  ASSUME ReturnsInv, UNCHANGED returnVars
  PROVE  ReturnsInv'
  BY DEF ReturnsInv, Dispatchable, Connected, returnVars

(* An order changes its status and nothing is received.                     *)
LEMMA StatusStep ==
  ASSUME OrderTables, NothingReceivedEarly, NEW po \in PurchaseOrders, NEW to \in PoStatuses,
         poStatus' = [poStatus EXCEPT ![po] = to], UNCHANGED received,
         to \in {"none", "sent", "accepted", "partially_accepted", "rejected"} => Early(po)
  PROVE  (OrderTables /\ NothingReceivedEarly)'
  BY DEF OrderTables, NothingReceivedEarly, Early, ItemsOf

LEMMA ReceiveStep ==
  ASSUME OrderTables, NothingReceivedEarly, NEW n \in PoItems, NEW packs \in Nat,
         ReceivePacks(n, packs)
  PROVE  (OrderTables /\ NothingReceivedEarly)'
  <1>0. OrderOf[n] \in PurchaseOrders
    BY ProcurementAssumption
  <1>1. PICK to \in {"received", "partially_received"} :
          poStatus' = [poStatus EXCEPT ![OrderOf[n]] = to]
    BY DEF ReceivePacks
  <1>2. received' = [received EXCEPT ![n] = @ + packs]
    BY DEF ReceivePacks
  <1>3. OrderTables'
    BY <1>0, <1>1, <1>2 DEF OrderTables, PoStatuses
  <1>4. ASSUME NEW po \in PurchaseOrders, Early(po)', NEW m \in ItemsOf(po)
        PROVE  received'[m] = 0
    <2>1. po # OrderOf[n]
      BY <1>0, <1>1, <1>4 DEF Early, OrderTables
    <2>2. Early(po) /\ m # n /\ m \in PoItems
      BY <1>1, <1>4, <2>1 DEF Early, OrderTables, ItemsOf
    <2>3. received[m] = 0
      BY <1>4, <2>2 DEF NothingReceivedEarly
    <2> QED BY <1>2, <2>2, <2>3 DEF OrderTables
  <1>5. NothingReceivedEarly'
    BY <1>4 DEF NothingReceivedEarly, ItemsOf
  <1> QED BY <1>3, <1>5

LEMMA BookStep ==
  ASSUME RefusalInv, OrderBookStep
  PROVE  RefusalInv'
  <1> USE DEF RefusalInv
  <1>0. UNCHANGED returnVars
    BY DEF OrderBookStep, CreatePurchaseOrder, RejectOrder, ConfirmOrder, ReportProgress,
           ProposeBackorder, AnswerBackorder, FulfilBackorder, ReceivePacks
  <1>1. ASSUME NEW po \in PurchaseOrders, CreatePurchaseOrder(po)
        PROVE  (OrderTables /\ NothingReceivedEarly)'
    BY <1>1, StatusStep DEF CreatePurchaseOrder, Early, PoStatuses
  <1>2. ASSUME NEW po \in PurchaseOrders, RejectOrder(po)
        PROVE  (OrderTables /\ NothingReceivedEarly)'
    BY <1>2, StatusStep DEF RejectOrder, AnswerableStatuses, Early, PoStatuses
  <1>3. ASSUME NEW po \in PurchaseOrders, NEW answer \in Answers, ConfirmOrder(po, answer)
        PROVE  (OrderTables /\ NothingReceivedEarly)'
    <2>1. PICK to \in {"accepted", "partially_accepted"} :
            poStatus' = [poStatus EXCEPT ![po] = to]
      BY <1>3 DEF ConfirmOrder
    <2>2. Early(po) /\ UNCHANGED received
      BY <1>3 DEF ConfirmOrder, AnswerableStatuses, Early
    <2> QED BY <2>1, <2>2, StatusStep DEF PoStatuses
  <1>4. ASSUME NEW po \in PurchaseOrders, NEW to \in ProgressStatuses, ReportProgress(po, to)
        PROVE  (OrderTables /\ NothingReceivedEarly)'
    BY <1>4, StatusStep DEF ReportProgress, ProgressStatuses, PoStatuses
  <1>5. ASSUME NEW n \in PoItems, NEW packs \in 1..MostPacks, ProposeBackorder(n, packs)
        PROVE  (OrderTables /\ NothingReceivedEarly)'
    BY <1>5, SameBook DEF ProposeBackorder
  <1>6. ASSUME NEW n \in PoItems, NEW accept \in BOOLEAN, AnswerBackorder(n, accept)
        PROVE  (OrderTables /\ NothingReceivedEarly)'
    BY <1>6, SameBook DEF AnswerBackorder
  <1>7. ASSUME NEW n \in PoItems, FulfilBackorder(n)
        PROVE  (OrderTables /\ NothingReceivedEarly)'
    <2> DEFINE po == OrderOf[n]
    <2>0. po \in PurchaseOrders /\ UNCHANGED received
      BY <1>7, ProcurementAssumption DEF FulfilBackorder
    <2>1. \/ poStatus[po] = "partially_accepted"
             /\ poStatus' = [poStatus EXCEPT ![po] = "accepted"]
          \/ poStatus' = [poStatus EXCEPT ![po] = poStatus[po]]
      BY <1>7 DEF FulfilBackorder
    <2>2. CASE poStatus[po] = "partially_accepted"
               /\ poStatus' = [poStatus EXCEPT ![po] = "accepted"]
      BY <2>0, <2>2, StatusStep DEF Early, PoStatuses
    <2>3. CASE poStatus' = [poStatus EXCEPT ![po] = poStatus[po]]
      <3>1. poStatus' = poStatus
        BY <2>3 DEF OrderTables
      <3> QED BY <2>0, <3>1, SameBook
    <2> QED BY <2>1, <2>2, <2>3
  <1>8. ASSUME NEW n \in PoItems, NEW packs \in 0..MostPacks, ReceivePacks(n, packs)
        PROVE  (OrderTables /\ NothingReceivedEarly)'
    <2>1. packs \in Nat
      OBVIOUS
    <2> QED BY <1>8, <2>1, ReceiveStep
  <1>9. (OrderTables /\ NothingReceivedEarly)'
    BY <1>1, <1>2, <1>3, <1>4, <1>5, <1>6, <1>7, <1>8 DEF OrderBookStep
  <1> QED BY <1>0, <1>9, SameReturns

LEMMA ReturnsStep ==
  ASSUME RefusalInv, NEW r \in Returns,
         \/ \E l \in Lots, q \in 1..MostUnits : RequestReturn(r, l, q)
         \/ \E authorize \in BOOLEAN : AnswerReturn(r, authorize)
         \/ BeginDispatch(r)
         \/ FinishDispatch(r)
         \/ FailDispatch(r)
         \/ \E credit \in 0..MaxCredit : ResolveReturn(r, credit)
  PROVE  /\ RefusalInv'
         /\ ret[r] # NoReturn /\ ret[r].status = "rejected" => ret'[r] = ret[r]
         /\ \A p \in Returns : p # r => ret'[p] = ret[p]
         /\ UNCHANGED <<poStatus, received>>
  <1> DEFINE Frame == \A p \in Returns : p # r => ret'[p] = ret[p]
             Stays == ret[r] # NoReturn /\ ret[r].status = "rejected" => ret'[r] = ret[r]
  <1>0. ReturnsInv /\ OrderTables /\ NothingReceivedEarly
    BY DEF RefusalInv
  <1>1. ASSUME NEW row \in ReturnRows, ret' = [ret EXCEPT ![r] = row],
               row.status # "rejected", row.connected => row.status # "requested",
               dispatching' \subseteq dispatching
        PROVE  ReturnsInv'
    <2>1. ret'[r] = row /\ \A p \in Returns : p # r => ret'[p] = ret[p]
      BY <1>0, <1>1 DEF ReturnsInv
    <2>2. row # NoReturn
      BY DEF ReturnRows, NoReturn
    <2> QED BY <1>0, <1>1, <2>1, <2>2 DEF ReturnsInv, Dispatchable, Connected
  <1>2. ASSUME NEW l \in Lots, NEW q \in 1..MostUnits, RequestReturn(r, l, q)
        PROVE  ReturnsInv' /\ Stays /\ Frame
    <2>1. PICK row : row = [status |-> "requested", lot |-> l, q |-> q,
                            connected |-> source[l].kind = "order", credit |-> 0]
      OBVIOUS
    <2>2. row \in ReturnRows
      BY <2>1 DEF ReturnRows
    <2>3. ret[r] = NoReturn /\ ret' = [ret EXCEPT ![r] = row] /\ dispatching' = dispatching
      BY <1>2, <2>1 DEF RequestReturn
    <2>4. r \notin dispatching
      BY <1>0, <2>3 DEF ReturnsInv, Dispatchable
    <2> QED BY <1>0, <2>2, <2>3, <2>4 DEF ReturnsInv, Dispatchable, Connected
  <1>3. ASSUME NEW authorize \in BOOLEAN, AnswerReturn(r, authorize)
        PROVE  ReturnsInv' /\ Stays /\ Frame
    <2>1. ret[r] \in ReturnRows /\ ret[r].status = "requested" /\ ret[r].connected
      BY <1>0, <1>3 DEF AnswerReturn, AwaitsSupplier, Connected, ReturnsInv
    <2>2. PICK row : row = [ret[r] EXCEPT !.status =
                              IF authorize THEN "authorized" ELSE "rejected"]
      OBVIOUS
    <2>3. row \in ReturnRows
      BY <2>1, <2>2 DEF ReturnRows
    <2>4. ret' = [ret EXCEPT ![r] = row] /\ dispatching' = dispatching
      BY <1>0, <1>3, <2>2 DEF AnswerReturn, ReturnsInv
    <2>5. r \notin dispatching
      BY <1>0, <2>1 DEF ReturnsInv, Dispatchable, Connected
    <2> QED BY <1>0, <2>1, <2>3, <2>4, <2>5 DEF ReturnsInv, Dispatchable, Connected
  <1>4. ASSUME BeginDispatch(r) PROVE ReturnsInv' /\ Stays /\ Frame
    <2>1. Dispatchable(r)
      BY <1>4 DEF BeginDispatch, Dispatchable
    <2> QED BY <1>0, <1>4, <2>1 DEF BeginDispatch, ReturnsInv, Dispatchable, Connected
  <1>5. ASSUME FinishDispatch(r) PROVE ReturnsInv' /\ Stays /\ Frame
    <2>1. ret[r] \in ReturnRows /\ ret[r].status # "rejected"
      BY <1>0, <1>5 DEF FinishDispatch, ReturnsInv, Dispatchable
    <2>2. PICK row : row = [ret[r] EXCEPT !.status = "returned"]
      OBVIOUS
    <2>3. row \in ReturnRows /\ row.status = "returned"
      BY <2>1, <2>2 DEF ReturnRows
    <2>4. ret' = [ret EXCEPT ![r] = row] /\ dispatching' \subseteq dispatching
      BY <1>0, <1>5, <2>2 DEF FinishDispatch, ReturnsInv
    <2> QED BY <1>0, <1>1, <2>1, <2>3, <2>4 DEF ReturnsInv
  <1>6. ASSUME FailDispatch(r) PROVE ReturnsInv' /\ Stays /\ Frame
    BY <1>0, <1>6 DEF FailDispatch, ReturnsInv, Dispatchable, Connected
  <1>7. ASSUME NEW credit \in 0..MaxCredit, ResolveReturn(r, credit)
        PROVE  ReturnsInv' /\ Stays /\ Frame
    <2>0. ret[r].status = "returned"
      BY <1>7, Zenon DEF ResolveReturn
    <2>1. ret[r] \in ReturnRows
      BY <1>0, <2>0 DEF ReturnsInv, NoReturn
    <2>2. PICK row : row = [ret[r] EXCEPT !.status = "resolved", !.credit = credit]
      OBVIOUS
    <2>3. row \in ReturnRows /\ row.status = "resolved"
      <3>1. credit \in Nat
        BY ProcurementAssumption
      <3>2. row = [status |-> "resolved", lot |-> ret[r].lot, q |-> ret[r].q,
                   connected |-> ret[r].connected, credit |-> credit]
        BY <2>1, <2>2 DEF ReturnRows
      <3> QED BY <2>1, <3>1, <3>2 DEF ReturnRows
    <2>4. ret' = [ret EXCEPT ![r] = row] /\ dispatching' = dispatching
      BY <1>7, <2>2, Zenon DEF ResolveReturn
    <2> QED BY <1>0, <1>1, <2>0, <2>1, <2>3, <2>4 DEF ReturnsInv
  <1>8. UNCHANGED <<poStatus, received>>
    BY DEF RequestReturn, AnswerReturn, BeginDispatch, FinishDispatch, FailDispatch, ResolveReturn,
           orderBookVars
  <1>9. (OrderTables /\ NothingReceivedEarly)'
    BY <1>0, <1>8, SameBook
  <1> QED BY <1>2, <1>3, <1>4, <1>5, <1>6, <1>7, <1>8, <1>9 DEF RefusalInv

(* Goods, money and the shelf touch neither an order's stage nor a return.  *)
LEMMA ElsewhereStep ==
  ASSUME GoodsStep \/ MoneyStep \/ ShelfStep
  PROVE  UNCHANGED <<poStatus, received, returnVars>>
  BY DEF GoodsStep, MoneyStep, ShelfStep, ReadForReceiptByHand, ReceiveByHand, Repack, RecordInvoice,
         PayOrder, tradeVars, orderBookVars

LEMMA RefusalStep == RefusalInv /\ [TradeNext]_allVars => RefusalInv'
  <1> SUFFICES ASSUME RefusalInv, [TradeNext]_allVars PROVE RefusalInv'
    OBVIOUS
  <1>1. CASE OrderBookStep
    BY <1>1, BookStep
  <1>2. CASE ReturnStep
    BY <1>2, ReturnsStep DEF ReturnStep
  <1>3. CASE UNCHANGED <<poStatus, received, returnVars>>
    BY <1>3, SameBook, SameReturns DEF RefusalInv
  <1>4. CASE UNCHANGED allVars
    BY <1>4, SameBook, SameReturns DEF RefusalInv, allVars, tradeVars, orderBookVars
  <1> QED BY <1>1, <1>2, <1>3, <1>4, ElsewhereStep DEF TradeNext

(* The strengthening by which a refused order stays refused.                *)
THEOREM AlwaysRefusalInv == TradeSpec => []RefusalInv
  BY InitRefusals, RefusalStep, PTL DEF TradeSpec

LEMMA RejectedOrderStays ==
  ASSUME RefusalInv, [TradeNext]_allVars, NEW po \in PurchaseOrders, poStatus[po] = "rejected"
  PROVE  /\ poStatus'[po] = "rejected"
         /\ \A n \in ItemsOf(po) : received[n] = 0 /\ received'[n] = 0
  <1>0. OrderTables
    BY DEF RefusalInv
  <1>1. ASSUME OrderBookStep PROVE poStatus'[po] = "rejected"
    <2>1. ASSUME NEW p \in PurchaseOrders, NEW to \in PoStatuses,
                 poStatus' = [poStatus EXCEPT ![p] = to], poStatus[p] # "rejected"
          PROVE  poStatus'[po] = "rejected"
      BY <1>0, <2>1 DEF OrderTables
    <2>2. ASSUME NEW p \in PurchaseOrders
          PROVE  /\ CreatePurchaseOrder(p) => poStatus'[po] = "rejected"
                 /\ RejectOrder(p) => poStatus'[po] = "rejected"
                 /\ \A to \in ProgressStatuses :
                      ReportProgress(p, to) => poStatus'[po] = "rejected"
      BY <2>1 DEF CreatePurchaseOrder, RejectOrder, ReportProgress, AnswerableStatuses,
                  ClosedStatuses, ProgressStatuses, PoStatuses
    <2>3. ASSUME NEW p \in PurchaseOrders, NEW answer \in Answers, ConfirmOrder(p, answer)
          PROVE  poStatus'[po] = "rejected"
      <3>1. PICK to \in {"accepted", "partially_accepted"} :
              poStatus' = [poStatus EXCEPT ![p] = to]
        BY <2>3 DEF ConfirmOrder
      <3>2. poStatus[p] # "rejected"
        BY <2>3 DEF ConfirmOrder, AnswerableStatuses
      <3> QED BY <2>1, <3>1, <3>2 DEF PoStatuses
    <2>4. ASSUME NEW n \in PoItems, FulfilBackorder(n)
          PROVE  poStatus'[po] = "rejected"
      <3>0. OrderOf[n] \in PurchaseOrders
        BY ProcurementAssumption
      <3>1. \/ poStatus[OrderOf[n]] = "partially_accepted"
               /\ poStatus' = [poStatus EXCEPT ![OrderOf[n]] = "accepted"]
            \/ poStatus' = [poStatus EXCEPT ![OrderOf[n]] = poStatus[OrderOf[n]]]
        BY <2>4 DEF FulfilBackorder
      <3> QED BY <1>0, <3>0, <3>1 DEF OrderTables
    <2>5. ASSUME NEW n \in PoItems, NEW packs \in 0..MostPacks, ReceivePacks(n, packs)
          PROVE  poStatus'[po] = "rejected"
      <3>0. OrderOf[n] \in PurchaseOrders
        BY ProcurementAssumption
      <3>1. PICK to \in {"received", "partially_received"} :
              poStatus' = [poStatus EXCEPT ![OrderOf[n]] = to]
        BY <2>5 DEF ReceivePacks
      <3>2. poStatus[OrderOf[n]] # "rejected"
        BY <2>5 DEF ReceivePacks, ClosedStatuses
      <3> QED BY <2>1, <3>0, <3>1, <3>2 DEF PoStatuses
    <2>6. ASSUME NEW n \in PoItems, NEW packs \in 1..MostPacks, ProposeBackorder(n, packs)
          PROVE  poStatus'[po] = "rejected"
      BY <2>6 DEF ProposeBackorder
    <2>7. ASSUME NEW n \in PoItems, NEW accept \in BOOLEAN, AnswerBackorder(n, accept)
          PROVE  poStatus'[po] = "rejected"
      BY <2>7 DEF AnswerBackorder
    <2> QED BY <1>1, <2>2, <2>3, <2>4, <2>5, <2>6, <2>7 DEF OrderBookStep
  <1>3. ReturnStep => UNCHANGED <<poStatus, received>>
    BY ReturnsStep DEF ReturnStep
  <1>4. poStatus'[po] = "rejected"
    BY <1>1, <1>3, ElsewhereStep DEF TradeNext, allVars, tradeVars, orderBookVars
  <1>5. NothingReceivedEarly /\ NothingReceivedEarly'
    BY RefusalStep DEF RefusalInv
  <1> QED BY <1>4, <1>5 DEF NothingReceivedEarly, Early, ItemsOf

LEMMA RejectedReturnStays ==
  ASSUME RefusalInv, [TradeNext]_allVars, NEW r \in Returns, ret[r] # NoReturn,
         ret[r].status = "rejected"
  PROVE  ret'[r] = ret[r]
  <1>1. CASE ReturnStep
    BY <1>1, ReturnsStep DEF ReturnStep
  <1>2. OrderBookStep => UNCHANGED ret
    BY DEF OrderBookStep, CreatePurchaseOrder, RejectOrder, ConfirmOrder, ReportProgress,
           ProposeBackorder, AnswerBackorder, FulfilBackorder, ReceivePacks, returnVars
  <1> QED BY <1>1, <1>2, ElsewhereStep DEF TradeNext, allVars, tradeVars, returnVars

(* However the supplier's answers, the receipts and the dispatches of a     *)
(* return interleave, nothing is received for an order it rejected and a    *)
(* return it rejected never leaves.                                        *)
THEOREM Refusals == TradeSpec => RefusalsHold
  <1>1. RefusalInv /\ [TradeNext]_allVars => [RefusedUnmoved]_allVars
    BY RejectedOrderStays, RejectedReturnStays DEF RefusedUnmoved
  <1> QED BY <1>1, AlwaysRefusalInv, PTL DEF TradeSpec, RefusalsHold

-----------------------------------------------------------------------------
(* Payments below the width: the ids of an order stay clear of those of     *)
(* every other order, whatever the orders' numbers.                        *)
BelowWidth == \A po \in PurchaseOrders : poPaid[po] < EvidenceWidth

(* Every entry lies within what its order was paid.                         *)
EntryInRange(id) ==
    LET po == ledger[id].po
    IN  /\ po \in PurchaseOrders
        /\ ledger[id].amount \in Nat \ {0}
        /\ id \in Nat
        /\ id - po * EvidenceWidth \in 1..poPaid[po]

LedgerInv ==
    /\ poPaid \in [PurchaseOrders -> Nat]
    /\ \A id \in DOMAIN ledger : EntryInRange(id)
    /\ LedgerShowsPayments

LEMMA WholeMultiples ==
  ASSUME NEW a \in Nat, NEW b \in Nat, NEW w \in Nat, a < b
  PROVE  a * w + w <= b * w
  <1>1. PICK d \in Nat : b = a + 1 + d
    <2>1. b - a - 1 \in Nat /\ b = a + 1 + (b - a - 1)
      OBVIOUS
    <2> QED BY <2>1
  <1>2. b * w = a * w + w + d * w
    BY <1>1
  <1>3. d * w \in Nat /\ a * w \in Nat
    OBVIOUS
  <1> QED BY <1>2, <1>3

LEMMA OneOrderPerId ==
  ASSUME NEW a \in Nat, NEW b \in Nat, NEW w \in Nat,
         NEW s \in 0..(w - 1), NEW t \in 0..(w - 1), a * w + s = b * w + t
  PROVE  a = b /\ s = t
  <1>0. a * w \in Nat /\ b * w \in Nat
    OBVIOUS
  <1>1. ~(a < b)
    BY <1>0, WholeMultiples
  <1>2. ~(b < a)
    BY <1>0, WholeMultiples
  <1>3. a = b
    BY <1>1, <1>2
  <1>4. a * w + s = a * w + t
    BY <1>3
  <1> QED BY <1>0, <1>3, <1>4

LEMMA SameLedger ==
  ASSUME LedgerInv, UNCHANGED <<poPaid, ledger>>
  PROVE  LedgerInv'
  BY DEF LedgerInv, EntryInRange, LedgerShowsPayments, Booked, OpenedBy

LEMMA InitLedger == TradeInit => LedgerInv
  BY DEF TradeInit, InitTrade, LedgerInv, LedgerShowsPayments

LEMMA PayStep ==
  ASSUME LedgerInv, BelowWidth, BelowWidth', NEW po \in PurchaseOrders,
         NEW amount \in 1..Outstanding(po), PayOrder(po, amount)
  PROVE  LedgerInv'
  <1> DEFINE W == EvidenceWidth
             total == poPaid[po] + amount
             new == po * W + total
  <1>0. po \in Nat /\ PurchaseOrders \subseteq Nat /\ W \in Nat \ {0} /\ po * W \in Nat
    BY ProcurementAssumption
  <1>1. amount \in Nat \ {0} /\ poPaid[po] \in Nat /\ poPaid \in [PurchaseOrders -> Nat]
    BY DEF LedgerInv
  <1>2. /\ poPaid' = [poPaid EXCEPT ![po] = total]
        /\ ledger' = [k \in DOMAIN ledger \cup {new} |->
             IF k = new THEN [po |-> po, amount |-> amount] ELSE ledger[k]]
    BY DEF PayOrder, EvidenceId
  <1>3. total \in 1..(W - 1) /\ poPaid' \in [PurchaseOrders -> Nat] /\ poPaid'[po] = total
    BY <1>0, <1>1, <1>2 DEF BelowWidth
  <1>4. \A p \in PurchaseOrders : poPaid[p] \in Nat /\ poPaid[p] <= poPaid'[p]
    BY <1>1, <1>2
  <1>5. new \notin DOMAIN ledger
    <2> SUFFICES ASSUME new \in DOMAIN ledger PROVE FALSE
      OBVIOUS
    <2> DEFINE q == ledger[new].po
               s == new - q * W
    <2>1. q \in PurchaseOrders /\ s \in 1..poPaid[q]
      BY DEF LedgerInv, EntryInRange
    <2>2. q \in Nat /\ q * W \in Nat /\ poPaid[q] \in Nat /\ poPaid[q] < W
      <3> HIDE DEF q, new
      <3>1. q \in Nat /\ poPaid[q] \in Nat /\ poPaid[q] < W
        BY <1>0, <1>1, <2>1 DEF BelowWidth
      <3> QED BY <1>0, <3>1
    <2>3. s \in 0..(W - 1) /\ q * W + s = po * W + total
      BY <1>0, <1>1, <2>1, <2>2
    <2>4. q = po /\ s = total
      <3> HIDE DEF s, q, total
      <3> QED BY <1>0, <1>3, <2>2, <2>3, OneOrderPerId
    <2> QED BY <1>1, <2>1, <2>4
  <1>6. /\ new \in Nat
        /\ DOMAIN ledger' = DOMAIN ledger \cup {new}
        /\ ledger'[new] = [po |-> po, amount |-> amount]
        /\ \A k \in DOMAIN ledger : ledger'[k] = ledger[k]
    BY <1>0, <1>1, <1>2, <1>5
  <1>7. ASSUME NEW id \in DOMAIN ledger' PROVE EntryInRange(id)'
    <2>1. CASE id = new
      <3>1. id - po * W = total
        BY <1>0, <1>1, <2>1
      <3>2. ledger'[id] = [po |-> po, amount |-> amount] /\ id \in Nat
        BY <1>6, <2>1
      <3> HIDE DEF total, new
      <3> QED BY <1>1, <1>3, <3>1, <3>2 DEF EntryInRange
    <2>2. CASE id # new
      <3>1. id \in DOMAIN ledger /\ ledger'[id] = ledger[id]
        BY <1>6, <2>2
      <3>2. EntryInRange(id)
        BY <3>1 DEF LedgerInv
      <3>3. PICK p \in PurchaseOrders : p = ledger[id].po
        BY <3>2 DEF EntryInRange
      <3>4. PICK u : u = id - p * EvidenceWidth
        OBVIOUS
      <3>5. u \in 1..poPaid[p] /\ poPaid[p] <= poPaid'[p] /\ poPaid'[p] \in Nat
        BY <1>3, <1>4, <3>2, <3>3, <3>4 DEF EntryInRange
      <3>6. u \in 1..poPaid'[p]
        BY <1>4, <3>5
      <3> QED BY <3>1, <3>2, <3>3, <3>4, <3>6 DEF EntryInRange
    <2> QED BY <2>1, <2>2
  <1> DEFINE Shown(L, p, t) == p * W + t \in DOMAIN L /\ L[p * W + t].po = p
  <1>8. \A p \in PurchaseOrders, t \in Int : Shown(ledger, p, t) => Shown(ledger', p, t)
    BY <1>6
  <1>9. Shown(ledger', po, total)
    BY <1>6
  <1>10. \A p \in PurchaseOrders : poPaid'[p] > 0 => Shown(ledger', p, poPaid'[p])
    <2> SUFFICES ASSUME NEW p \in PurchaseOrders, poPaid'[p] > 0
                 PROVE  Shown(ledger', p, poPaid'[p])
      OBVIOUS
    <2>1. CASE p = po
      BY <1>3, <1>9, <2>1
    <2>2. CASE p # po
      <3>1. poPaid'[p] = poPaid[p] /\ poPaid[p] \in Int
        BY <1>1, <1>2, <2>2
      <3>2. Shown(ledger, p, poPaid[p])
        BY <3>1 DEF LedgerInv, LedgerShowsPayments, Booked
      <3> QED BY <1>8, <3>1, <3>2
    <2> QED BY <2>1, <2>2
  <1> DEFINE Opened(L, id) == id - L[id].po * W - L[id].amount
  <1>11. ASSUME NEW id \in DOMAIN ledger'
         PROVE  \/ Opened(ledger', id) = 0
                \/ Shown(ledger', ledger'[id].po, Opened(ledger', id))
    <2>1. CASE id = new
      <3>1. ledger'[id].po = po /\ Opened(ledger', id) = poPaid[po]
        BY <1>0, <1>1, <1>6, <2>1
      <3>2. poPaid[po] > 0 => Shown(ledger, po, poPaid[po])
        BY DEF LedgerInv, LedgerShowsPayments, Booked
      <3> QED BY <1>1, <1>8, <3>1, <3>2
    <2>2. CASE id # new
      <3>1. id \in DOMAIN ledger /\ ledger'[id] = ledger[id]
        BY <1>6, <2>2
      <3>2. /\ EntryInRange(id)
            /\ Opened(ledger, id) = 0 \/ Shown(ledger, ledger[id].po, Opened(ledger, id))
        BY <3>1 DEF LedgerInv, LedgerShowsPayments, Booked, OpenedBy
      <3>3. ledger[id].po \in PurchaseOrders /\ Opened(ledger, id) \in Int
        BY <1>0, <3>2 DEF EntryInRange
      <3> HIDE DEF Shown
      <3> QED BY <1>8, <3>1, <3>2, <3>3
    <2> QED BY <2>1, <2>2
  <1>12. LedgerShowsPayments'
    <2> HIDE DEF total, new
    <2> QED BY <1>10, <1>11 DEF LedgerShowsPayments, Booked, OpenedBy
  <1> QED BY <1>3, <1>7, <1>12 DEF LedgerInv

(* Nothing but a payment touches the paid amounts and their entries.        *)
LEMMA LedgerElsewhere ==
  ASSUME OrderBookStep \/ GoodsStep \/ ReturnStep \/ ShelfStep
  PROVE  UNCHANGED <<poPaid, ledger>>
  <1>1. OrderBookStep => UNCHANGED moneyVars
    BY DEF OrderBookStep, CreatePurchaseOrder, RejectOrder, ConfirmOrder, ReportProgress,
           ProposeBackorder, AnswerBackorder, FulfilBackorder, ReceivePacks
  <1>2. GoodsStep \/ ShelfStep => UNCHANGED moneyVars
    BY DEF GoodsStep, ShelfStep, ReadForReceiptByHand, ReceiveByHand, Repack, tradeVars
  <1>3. ReturnStep => UNCHANGED moneyVars
    <2> USE DEF RequestReturn, AnswerReturn, BeginDispatch, FinishDispatch, FailDispatch
    <2>1. ASSUME NEW r \in Returns, NEW credit \in 0..MaxCredit, ResolveReturn(r, credit)
          PROVE  UNCHANGED moneyVars
      BY <2>1, Zenon DEF ResolveReturn
    <2> QED BY <2>1, Zenon DEF ReturnStep
  <1> QED BY <1>1, <1>2, <1>3 DEF moneyVars

LEMMA LedgerStep ==
  LedgerInv /\ BelowWidth /\ BelowWidth' /\ [TradeNext]_allVars => LedgerInv'
  <1> SUFFICES ASSUME LedgerInv, BelowWidth, BelowWidth', [TradeNext]_allVars PROVE LedgerInv'
    OBVIOUS
  <1>1. CASE UNCHANGED <<poPaid, ledger>>
    BY <1>1, SameLedger
  <1>2. ASSUME NEW po \in PurchaseOrders, NEW amount \in 1..MaxInvoice,
               RecordInvoice(po, amount)
        PROVE  LedgerInv'
    BY <1>2, SameLedger DEF RecordInvoice
  <1>3. CASE MoneyStep
    BY <1>2, <1>3, PayStep DEF MoneyStep
  <1>4. CASE UNCHANGED allVars
    BY <1>1, <1>4 DEF allVars, tradeVars, moneyVars
  <1> QED BY <1>1, <1>3, <1>4, LedgerElsewhere DEF TradeNext

(* While no order has been paid the width of an evidence id, 10,000.00 in   *)
(* the code, the books show every payment of every order, whatever the      *)
(* orders' numbers and the payments.  The run ledger shows what happens     *)
(* when one is paid more.                                                  *)
THEOREM PaymentsShown == TradeSpec /\ []BelowWidth => []LedgerShowsPayments
  <1>1. LedgerInv => LedgerShowsPayments
    BY DEF LedgerInv
  <1> QED BY <1>1, InitLedger, LedgerStep, PTL DEF TradeSpec

-----------------------------------------------------------------------------
(* One row of a table is written.                                           *)
Updated(table, table2, key, row) == table2 = [table EXCEPT ![key] = row]

(* The sums the goods are traced by, as functions of the tables they are    *)
(* taken over: what a change of one row does to each is a lemma.           *)
SourceRows == [kind : {"none", "order", "hand", "repack"},
               of : {"none"} \cup PoItems \cup Lots, input : Nat]

Repacks(src, k) ==
    Total([l \in Lots |-> src[l].input], {l \in Lots : src[l].kind = "repack" /\ src[l].of = k})

Gone(rows, r) == rows[r].status \in {"returned", "resolved"}

Sent(rows, l) ==
    Total([r \in Returns |-> rows[r].q], {r \in Returns : Gone(rows, r) /\ rows[r].lot = l})

LinesIn(packs, i) ==
    Total([n \in PoItems |-> packs[n] * UnitsPerPack[n]], {n \in PoItems : StockItem[n] = i})

LotsIn(units, src, i) == Total(units, {l \in LotsOf(i) : src[l].kind \in {"hand", "repack"}})

Out(src, rows, i) == Total([l \in Lots |-> Repacks(src, l) + Sent(rows, l)], LotsOf(i))

LEMMA RepacksType ==
  ASSUME NEW src \in [Lots -> SourceRows], NEW k
  PROVE  Repacks(src, k) \in Int
  <1> DEFINE f == [l \in Lots |-> src[l].input]
             S == {l \in Lots : src[l].kind = "repack" /\ src[l].of = k}
  <1>1. IsFiniteSet(S)
    BY PlanningAssumption, FS_Subset
  <1>2. \A l \in S : f[l] \in Int
    BY DEF SourceRows
  <1> HIDE DEF f, S
  <1>3. Total(f, S) \in Int
    BY <1>1, <1>2, TotalType
  <1> QED BY <1>3 DEF Repacks, f, S

(* A lot that came from no other lot gets its source.                       *)
LEMMA RepacksChange ==
  ASSUME NEW src \in [Lots -> SourceRows], NEW l \in Lots, NEW from \in SourceRows,
         src[l].kind # "repack", NEW src2, Updated(src, src2, l, from), NEW k
  PROVE  Repacks(src2, k) =
           Repacks(src, k) + (IF from.kind = "repack" /\ from.of = k THEN from.input ELSE 0)
  <1> USE DEF Updated
  <1> DEFINE f == [m \in Lots |-> src[m].input]
             g == [m \in Lots |-> src2[m].input]
             S == {m \in Lots : src[m].kind = "repack" /\ src[m].of = k}
             T == {m \in Lots : src2[m].kind = "repack" /\ src2[m].of = k}
  <1>1. IsFiniteSet(S) /\ IsFiniteSet(T) /\ l \notin S
    BY PlanningAssumption, FS_Subset
  <1>2. \A m \in S : f[m] = g[m] /\ f[m] \in Int /\ g[m] \in Int
    BY <1>1 DEF SourceRows
  <1>3. g[l] = from.input /\ g[l] \in Int
    BY DEF SourceRows
  <1>4. T = IF from.kind = "repack" /\ from.of = k THEN S \cup {l} ELSE S
    OBVIOUS
  <1>5. Repacks(src, k) = Total(f, S) /\ Repacks(src2, k) = Total(g, T)
    BY DEF Repacks
  <1> HIDE DEF f, g, S, T
  <1>6. Total(f, S) = Total(g, S) /\ Total(f, S) \in Int
    BY <1>1, <1>2, TotalSame, TotalType
  <1>7. CASE from.kind = "repack" /\ from.of = k
    <2>1. Total(g, S \cup {l}) = Total(g, S) + g[l]
      BY <1>1, <1>2, <1>3, TotalAdd
    <2>2. T = S \cup {l}
      BY <1>4, <1>7
    <2>3. Total(g, T) = Total(g, S \cup {l})
      BY <2>2, Zenon
    <2> QED BY <1>3, <1>5, <1>6, <1>7, <2>1, <2>3
  <1>8. CASE ~(from.kind = "repack" /\ from.of = k)
    <2>2. T = S
      BY <1>4, <1>8
    <2>3. Total(g, T) = Total(g, S)
      BY <2>2, Zenon
    <2> QED BY <1>5, <1>6, <1>8, <2>3
  <1> QED BY <1>7, <1>8

ReturnTable == [Returns -> ReturnRows \cup {NoReturn}]

LEMMA SentFacts ==
  ASSUME NEW rows \in ReturnTable, NEW l
  PROVE  /\ IsFiniteSet({r \in Returns : Gone(rows, r) /\ rows[r].lot = l})
         /\ \A r \in Returns : Gone(rows, r) => rows[r] \in ReturnRows /\ rows[r].q \in Nat
         /\ Sent(rows, l) \in Nat
  <1> DEFINE f == [r \in Returns |-> rows[r].q]
             S == {r \in Returns : Gone(rows, r) /\ rows[r].lot = l}
  <1>1. IsFiniteSet(S)
    BY ProcurementAssumption, FS_Subset
  <1>2. \A r \in Returns : Gone(rows, r) => rows[r] \in ReturnRows
    BY DEF ReturnTable, Gone, NoReturn
  <1>3. \A r \in Returns : Gone(rows, r) => rows[r].q \in Nat
    BY <1>2 DEF ReturnRows
  <1>4. \A r \in S : f[r] \in Nat
    BY <1>3
  <1>5. Sent(rows, l) = Total(f, S)
    BY DEF Sent
  <1> HIDE DEF f
  <1>6. Total(f, S) \in Nat
    <2> HIDE DEF S
    <2> QED BY <1>1, <1>4, TotalNat
  <1> QED BY <1>1, <1>2, <1>3, <1>5, <1>6

LEMMA SentType ==
  ASSUME NEW rows \in ReturnTable, NEW l
  PROVE  Sent(rows, l) \in Int
  <1>1. Sent(rows, l) \in Nat
    BY SentFacts, Zenon
  <1> QED BY <1>1

(* The goods of one more return have left.                                  *)
LEMMA SentChange ==
  ASSUME NEW rows \in ReturnTable, NEW r \in Returns, NEW row \in ReturnRows,
         ~Gone(rows, r), row.status \in {"returned", "resolved"},
         NEW rows2, Updated(rows, rows2, r, row), NEW l
  PROVE  Sent(rows2, l) = Sent(rows, l) + (IF row.lot = l THEN row.q ELSE 0)
  <1> USE DEF Updated
  <1> DEFINE f == [p \in Returns |-> rows[p].q]
             g == [p \in Returns |-> rows2[p].q]
             S == {p \in Returns : Gone(rows, p) /\ rows[p].lot = l}
             T == {p \in Returns : Gone(rows2, p) /\ rows2[p].lot = l}
  <1>1. rows2[r] = row /\ \A p \in Returns : p # r => rows2[p] = rows[p]
    BY DEF ReturnTable
  <1>2. IsFiniteSet(S) /\ r \notin S
    BY SentFacts
  <1>3. \A p \in S : f[p] = g[p] /\ f[p] \in Int /\ g[p] \in Int
    <2> TAKE p \in S
    <2>1. p \in Returns /\ p # r /\ Gone(rows, p)
      BY <1>2
    <2>2. rows[p].q \in Nat /\ rows2[p] = rows[p]
      BY <1>1, <2>1, SentFacts
    <2> QED BY <2>1, <2>2
  <1>4. g[r] = row.q /\ g[r] \in Int
    BY <1>1 DEF ReturnRows
  <1>5. Gone(rows2, r) /\ \A p \in Returns : p # r => (Gone(rows2, p) <=> Gone(rows, p))
    BY <1>1 DEF Gone
  <1>6. T = IF row.lot = l THEN S \cup {r} ELSE S
    BY <1>1, <1>5
  <1>7. Sent(rows, l) = Total(f, S) /\ Sent(rows2, l) = Total(g, T)
    BY DEF Sent
  <1> HIDE DEF f, g, S, T
  <1>8. Total(f, S) = Total(g, S) /\ Total(f, S) \in Int
    BY <1>2, <1>3, TotalSame, TotalType
  <1>9. CASE row.lot = l
    <2>1. Total(g, S \cup {r}) = Total(g, S) + g[r]
      BY <1>2, <1>3, <1>4, TotalAdd
    <2>2. T = S \cup {r}
      BY <1>6, <1>9
    <2>3. Total(g, T) = Total(g, S \cup {r})
      BY <2>2, Zenon
    <2> QED BY <1>4, <1>7, <1>8, <1>9, <2>1, <2>3
  <1>10. CASE row.lot # l
    <2>2. T = S
      BY <1>6, <1>10
    <2>3. Total(g, T) = Total(g, S)
      BY <2>2, Zenon
    <2> QED BY <1>7, <1>8, <1>10, <2>3
  <1> QED BY <1>9, <1>10

(* Requests, answers and resolutions move no goods.                         *)
LEMMA SentSame ==
  ASSUME NEW rows \in ReturnTable, NEW rows2,
         \A r \in Returns :
            /\ Gone(rows2, r) <=> Gone(rows, r)
            /\ Gone(rows, r) => rows2[r].lot = rows[r].lot /\ rows2[r].q = rows[r].q,
         NEW l
  PROVE  Sent(rows2, l) = Sent(rows, l)
  <1> DEFINE f == [p \in Returns |-> rows[p].q]
             g == [p \in Returns |-> rows2[p].q]
             S == {p \in Returns : Gone(rows, p) /\ rows[p].lot = l}
             T == {p \in Returns : Gone(rows2, p) /\ rows2[p].lot = l}
  <1>1. IsFiniteSet(S) /\ \A p \in S : f[p] = g[p]
    BY SentFacts
  <1>2. T = S
    OBVIOUS
  <1>3. Sent(rows, l) = Total(f, S) /\ Sent(rows2, l) = Total(g, T)
    BY DEF Sent
  <1> HIDE DEF f, g, S, T
  <1>4. Total(f, S) = Total(g, S)
    BY <1>1, TotalSame
  <1>5. Total(g, T) = Total(g, S)
    BY <1>2, Zenon
  <1> QED BY <1>3, <1>4, <1>5

LEMMA LinesInType ==
  ASSUME NEW packs \in [PoItems -> Nat], NEW i
  PROVE  LinesIn(packs, i) \in Nat
  <1> DEFINE f == [n \in PoItems |-> packs[n] * UnitsPerPack[n]]
             S == {n \in PoItems : StockItem[n] = i}
  <1>1. IsFiniteSet(S)
    BY ProcurementAssumption, FS_Subset
  <1>2. \A n \in S : f[n] \in Nat
    <2> TAKE n \in S
    <2>1. packs[n] \in Nat /\ UnitsPerPack[n] \in Nat
      BY ProcurementAssumption
    <2>2. packs[n] * UnitsPerPack[n] \in Nat
      BY <2>1
    <2> QED BY <2>2
  <1> HIDE DEF f, S
  <1>3. Total(f, S) \in Nat
    BY <1>1, <1>2, TotalNat
  <1> QED BY <1>3 DEF LinesIn, f, S

LEMMA LinesInChange ==
  ASSUME NEW packs \in [PoItems -> Nat], NEW n \in PoItems, NEW more \in Nat,
         NEW packs2, Updated(packs, packs2, n, packs[n] + more), NEW i
  PROVE  LinesIn(packs2, i) =
           LinesIn(packs, i) + (IF StockItem[n] = i THEN more * UnitsPerPack[n] ELSE 0)
  <1> USE DEF Updated
  <1> DEFINE f == [m \in PoItems |-> packs[m] * UnitsPerPack[m]]
             g == [m \in PoItems |-> packs2[m] * UnitsPerPack[m]]
             S == {m \in PoItems : StockItem[m] = i}
  <1>1. IsFiniteSet(S)
    BY ProcurementAssumption, FS_Subset
  <1>2. packs2 \in [PoItems -> Nat] /\ packs2[n] = packs[n] + more
        /\ \A m \in PoItems : m # n => packs2[m] = packs[m]
    OBVIOUS
  <1>3. \A m \in PoItems : f[m] \in Int /\ g[m] \in Int
    <2> TAKE m \in PoItems
    <2>1. packs[m] \in Nat /\ packs2[m] \in Nat /\ UnitsPerPack[m] \in Nat
      BY <1>2, ProcurementAssumption
    <2>2. packs[m] * UnitsPerPack[m] \in Int /\ packs2[m] * UnitsPerPack[m] \in Int
      BY <2>1
    <2> QED BY <2>2
  <1>4. g[n] = f[n] + more * UnitsPerPack[n] /\ more * UnitsPerPack[n] \in Int
    <2>1. packs[n] \in Nat /\ UnitsPerPack[n] \in Nat
      BY ProcurementAssumption
    <2>2. (packs[n] + more) * UnitsPerPack[n] = packs[n] * UnitsPerPack[n] + more * UnitsPerPack[n]
      BY <2>1
    <2>3. more * UnitsPerPack[n] \in Int
      BY <2>1
    <2> QED BY <1>2, <2>2, <2>3
  <1>5. \A m \in S : f[m] \in Int /\ (m # n => g[m] = f[m])
    BY <1>2, <1>3
  <1>6. LinesIn(packs, i) = Total(f, S) /\ LinesIn(packs2, i) = Total(g, S)
    BY DEF LinesIn
  <1>7. n \in S <=> StockItem[n] = i
    OBVIOUS
  <1>7a. f[n] \in Int /\ g[n] \in Int
    BY <1>3
  <1> HIDE DEF f, g, S
  <1>8. CASE n \in S
    <2>1. Total(g, S) = Total(f, S) + g[n] - f[n]
      BY <1>1, <1>5, <1>7a, <1>8, TotalChange
    <2>2. Total(f, S) \in Int
      BY <1>1, <1>5, TotalType
    <2> QED BY <1>4, <1>6, <1>7, <1>7a, <1>8, <2>1, <2>2
  <1>9. CASE n \notin S
    <2>1. Total(g, S) = Total(f, S) /\ Total(f, S) \in Int
      <3>1. \A m \in S : f[m] = g[m]
        BY <1>5, <1>9
      <3> QED BY <1>1, <1>5, <3>1, TotalSame, TotalType
    <2> QED BY <1>6, <1>7, <1>9, <2>1
  <1> QED BY <1>8, <1>9

LEMMA LotsInType ==
  ASSUME NEW units \in [Lots -> Nat], NEW src, NEW i
  PROVE  LotsIn(units, src, i) \in Nat
  <1> DEFINE S == {l \in LotsOf(i) : src[l].kind \in {"hand", "repack"}}
  <1>1. IsFiniteSet(S) /\ S \subseteq Lots
    BY LotsFinite, PlanningAssumption, FS_Subset DEF LotsOf
  <1>2. LotsIn(units, src, i) = Total(units, S)
    BY DEF LotsIn
  <1> HIDE DEF S
  <1>3. Total(units, S) \in Nat
    BY <1>1, TotalNat
  <1> QED BY <1>2, <1>3

(* A lot that had not come in comes in, from an order line or not.          *)
LEMMA LotsInChange ==
  ASSUME NEW units \in [Lots -> Nat], NEW src \in [Lots -> SourceRows], NEW l \in Lots,
         src[l].kind = "none", NEW more \in Nat, NEW from \in SourceRows,
         NEW units2, Updated(units, units2, l, more),
         NEW src2, Updated(src, src2, l, from), NEW i
  PROVE  LotsIn(units2, src2, i) = LotsIn(units, src, i) +
           (IF LotItem[l] = i /\ from.kind \in {"hand", "repack"} THEN more ELSE 0)
  <1> USE DEF Updated
  <1> DEFINE S == {m \in LotsOf(i) : src[m].kind \in {"hand", "repack"}}
             T == {m \in LotsOf(i) : src2[m].kind \in {"hand", "repack"}}
  <1>1. IsFiniteSet(S) /\ S \subseteq Lots /\ l \notin S
    BY PlanningAssumption, FS_Subset DEF LotsOf
  <1>2. T = IF LotItem[l] = i /\ from.kind \in {"hand", "repack"} THEN S \cup {l} ELSE S
    BY DEF LotsOf
  <1>3. units2[l] = more /\ \A m \in S : units2[m] = units[m] /\ units[m] \in Int
    BY <1>1
  <1>4. LotsIn(units, src, i) = Total(units, S) /\ LotsIn(units2, src2, i) = Total(units2, T)
    BY DEF LotsIn
  <1> HIDE DEF S, T
  <1>5. Total(units2, S) = Total(units, S) /\ Total(units, S) \in Int
    BY <1>1, <1>3, TotalSame, TotalType
  <1>6. CASE LotItem[l] = i /\ from.kind \in {"hand", "repack"}
    <2>1. T = S \cup {l}
      BY <1>2, <1>6
    <2>2. Total(units2, T) = Total(units2, S \cup {l})
      BY <2>1, Zenon
    <2>3. Total(units2, S \cup {l}) = Total(units2, S) + units2[l]
      <3>1. \A m \in S \cup {l} : units2[m] \in Int
        BY <1>3
      <3> QED BY <1>1, <3>1, TotalAdd
    <2> QED BY <1>3, <1>4, <1>5, <1>6, <2>2, <2>3
  <1>7. CASE ~(LotItem[l] = i /\ from.kind \in {"hand", "repack"})
    <2>1. T = S
      BY <1>2, <1>7
    <2>2. Total(units2, T) = Total(units2, S)
      BY <2>1, Zenon
    <2> QED BY <1>4, <1>5, <1>7, <2>2
  <1> QED BY <1>6, <1>7

(* Goods leave one lot, repacked or sent back.                              *)
LeavesLot(src, rows, src2, rows2, k, d) ==
    \A l \in Lots : Repacks(src2, l) + Sent(rows2, l) =
                       Repacks(src, l) + Sent(rows, l) + (IF l = k THEN d ELSE 0)

LEMMA OutChange ==
  ASSUME NEW src \in [Lots -> SourceRows], NEW rows \in ReturnTable,
         NEW src2 \in [Lots -> SourceRows], NEW rows2 \in ReturnTable,
         NEW k \in Lots, NEW d \in Int, LeavesLot(src, rows, src2, rows2, k, d),
         NEW i \in Items
  PROVE  /\ Out(src2, rows2, i) = Out(src, rows, i) + (IF LotItem[k] = i THEN d ELSE 0)
         /\ Out(src, rows, i) \in Int
  <1> USE DEF LeavesLot
  <1> DEFINE f == [l \in Lots |-> Repacks(src, l) + Sent(rows, l)]
             g == [l \in Lots |-> Repacks(src2, l) + Sent(rows2, l)]
             S == LotsOf(i)
  <1>1. IsFiniteSet(S) /\ S \subseteq Lots /\ (k \in S <=> LotItem[k] = i)
    BY PlanningAssumption, FS_Subset DEF LotsOf
  <1>2. \A l \in Lots : f[l] \in Int /\ g[l] \in Int /\ g[l] = f[l] + (IF l = k THEN d ELSE 0)
    <2> TAKE l \in Lots
    <2>1. Repacks(src, l) \in Int /\ Sent(rows, l) \in Int
      BY RepacksType, SentType
    <2>2. Repacks(src2, l) \in Int /\ Sent(rows2, l) \in Int
      BY RepacksType, SentType
    <2> QED BY <2>1, <2>2
  <1>3. Out(src, rows, i) = Total(f, S) /\ Out(src2, rows2, i) = Total(g, S)
    BY DEF Out
  <1> HIDE DEF f, g, S
  <1>4. Total(f, S) \in Int
    BY <1>1, <1>2, TotalType
  <1>5. CASE k \in S
    <2>1. Total(g, S) = Total(f, S) + g[k] - f[k]
      <3>1. \A l \in S : f[l] \in Int
        BY <1>1, <1>2
      <3>2. \A l \in S \ {k} : g[l] = f[l]
        BY <1>1, <1>2
      <3>3. g[k] \in Int
        BY <1>2
      <3> QED BY <1>1, <1>5, <3>1, <3>2, <3>3, TotalChange
    <2>2. g[k] = f[k] + d /\ f[k] \in Int
      BY <1>2
    <2> QED BY <1>1, <1>3, <1>4, <1>5, <2>1, <2>2
  <1>6. CASE k \notin S
    <2>1. \A l \in S : f[l] = g[l]
      BY <1>1, <1>2, <1>6
    <2>2. Total(f, S) = Total(g, S)
      BY <1>1, <2>1, TotalSame
    <2> QED BY <1>1, <1>3, <1>4, <1>6, <2>2
  <1> QED BY <1>5, <1>6

-----------------------------------------------------------------------------
(* A lot that has not come in has nothing and comes from nowhere.           *)
FreshLots ==
    \A l \in Lots : lotState[l] = "unreceived" =>
        lotQty[l] = 0 /\ lotIn[l] = 0 /\ source[l] = Nowhere

GoodsTypes ==
    /\ ShelfTypes
    /\ lotState \in [Lots -> LotStates \cup {"returned"}]
    /\ source \in [Lots -> SourceRows]
    /\ lotIn \in [Lots -> Nat]
    /\ byHand \in [Lots -> {NotReading} \cup [phase : {"read"}, level : Nat]]
    /\ overwritten \in [Items -> Int]
    /\ received \in [PoItems -> Nat]

GoodsInv == GoodsTypes /\ FreshLots /\ GoodsTraced

(* GoodsTraced, of any tables.                                              *)
Traces(hand, over, book, packs, units, src, rows, qty, lotBook) ==
    /\ \A i \in Items :
         hand[i] + over[i] = book[i] + (LinesIn(packs, i) + LotsIn(units, src, i)) - Out(src, rows, i)
    /\ \A l \in Lots : qty[l] = lotBook[l] + units[l] - Repacks(src, l) - Sent(rows, l)

LEMMA TracedNow ==
  GoodsTraced <=>
    Traces(onHand, overwritten, booked, received, lotIn, source, ret, lotQty, lotBooked)
  BY DEF GoodsTraced, Traces, CameIn, WentOut, RepackedFrom, SentBack, LinesIn, LotsIn, Out,
         Repacks, Sent, Left, Gone

LEMMA TracedNext ==
  GoodsTraced' <=>
    Traces(onHand', overwritten', booked', received', lotIn', source', ret', lotQty', lotBooked')
  BY DEF GoodsTraced, Traces, CameIn, WentOut, RepackedFrom, SentBack, LinesIn, LotsIn, Out,
         Repacks, Sent, Left, Gone

(* The sums are numbers, so that a change of one term changes them by it.   *)
LEMMA SumTypes ==
  ASSUME NEW packs \in [PoItems -> Nat], NEW units \in [Lots -> Nat],
         NEW src \in [Lots -> SourceRows], NEW rows \in ReturnTable
  PROVE  /\ \A i \in Items : /\ LinesIn(packs, i) \in Int
                             /\ LotsIn(units, src, i) \in Int
                             /\ Out(src, rows, i) \in Int
         /\ \A l \in Lots : Repacks(src, l) \in Int /\ Sent(rows, l) \in Int
  <1>1. ASSUME NEW i \in Items
        PROVE  LinesIn(packs, i) \in Int /\ LotsIn(units, src, i) \in Int
    <2>1. LinesIn(packs, i) \in Nat /\ LotsIn(units, src, i) \in Nat
      BY LinesInType, LotsInType
    <2> QED BY <2>1
  <1>2. ASSUME NEW l \in Lots PROVE Repacks(src, l) \in Int /\ Sent(rows, l) \in Int
    BY RepacksType, SentType
  <1>3. ASSUME NEW i \in Items PROVE Out(src, rows, i) \in Int
    <2> DEFINE f == [l \in Lots |-> Repacks(src, l) + Sent(rows, l)]
               S == LotsOf(i)
    <2>1. IsFiniteSet(S) /\ S \subseteq Lots
      BY PlanningAssumption, FS_Subset DEF LotsOf
    <2>2. \A l \in S : f[l] \in Int
      BY <1>2, <2>1
    <2> HIDE DEF f, S
    <2>3. Total(f, S) \in Int
      BY <2>1, <2>2, TotalType
    <2> QED BY <2>3 DEF Out, f, S
  <1> QED BY <1>1, <1>2, <1>3

LEMMA OutSame ==
  ASSUME NEW src, NEW rows, NEW src2, NEW rows2,
         \A l \in Lots : Repacks(src2, l) + Sent(rows2, l) = Repacks(src, l) + Sent(rows, l),
         NEW i \in Items
  PROVE  Out(src2, rows2, i) = Out(src, rows, i)
  <1> DEFINE f == [l \in Lots |-> Repacks(src, l) + Sent(rows, l)]
             g == [l \in Lots |-> Repacks(src2, l) + Sent(rows2, l)]
             S == LotsOf(i)
  <1>1. IsFiniteSet(S) /\ \A l \in S : f[l] = g[l]
    BY PlanningAssumption, FS_Subset DEF LotsOf
  <1>2. Out(src, rows, i) = Total(f, S) /\ Out(src2, rows2, i) = Total(g, S)
    BY DEF Out
  <1> HIDE DEF f, g, S
  <1> QED BY <1>1, <1>2, TotalSame

-----------------------------------------------------------------------------
(* Returns that move no goods.                                              *)
LEMMA ReturnsMoveNothing ==
  ASSUME GoodsInv, ret \in ReturnTable,
         UNCHANGED <<shelfVars, bookVars, withheld, received, goodsVars, handVars>>,
         \A r \in Returns :
            /\ Gone(ret', r) <=> Gone(ret, r)
            /\ Gone(ret, r) => ret'[r].lot = ret[r].lot /\ ret'[r].q = ret[r].q
  PROVE  GoodsInv'
  <1> USE DEF shelfVars, bookVars, goodsVars, handVars
  <1>1. GoodsTypes'
    BY DEF GoodsInv, GoodsTypes, ShelfTypes
  <1>2. FreshLots'
    BY DEF GoodsInv, FreshLots
  <1>3. \A l \in Lots : Sent(ret', l) = Sent(ret, l)
    BY SentSame
  <1>4. \A l \in Lots : Repacks(source, l) + Sent(ret', l) = Repacks(source, l) + Sent(ret, l)
    BY <1>3
  <1>5. \A i \in Items : Out(source, ret', i) = Out(source, ret, i)
    BY <1>4, OutSame
  <1>6. Traces(onHand, overwritten, booked, received, lotIn, source, ret, lotQty, lotBooked)
    BY TracedNow DEF GoodsInv
  <1>7. Traces(onHand, overwritten, booked, received, lotIn, source, ret', lotQty, lotBooked)
    BY <1>3, <1>5, <1>6 DEF Traces
  <1>8. GoodsTraced'
    BY <1>7, TracedNext
  <1> QED BY <1>1, <1>2, <1>8 DEF GoodsInv

LEMMA GoodsStay ==
  ASSUME GoodsInv, ret \in ReturnTable,
         UNCHANGED <<shelfVars, bookVars, withheld, received, goodsVars, handVars, ret>>
  PROVE  GoodsInv'
  BY ReturnsMoveNothing

(* Movements of the shelf leave evidence of the same amount.                *)
LEMMA MovementTraced ==
  ASSUME GoodsInv, ret \in ReturnTable, ShelfTypes',
         lotState' \in [Lots -> LotStates \cup {"returned"}],
         UNCHANGED tradeVars,
         \A i \in Items : onHand'[i] - onHand[i] = booked'[i] - booked[i],
         \A l \in Lots : lotQty'[l] - lotQty[l] = lotBooked'[l] - lotBooked[l],
         \A l \in Lots : lotState'[l] = "unreceived" => lotState[l] = "unreceived" /\ lotQty'[l] = 0
  PROVE  GoodsInv'
  <1>0. UNCHANGED <<source, lotIn, byHand, overwritten, received, ret>>
    BY DEF tradeVars, orderBookVars, returnVars, goodsVars, handVars
  <1>1. GoodsTypes'
    BY <1>0 DEF GoodsInv, GoodsTypes
  <1>2. FreshLots'
    BY <1>0 DEF GoodsInv, FreshLots
  <1>3. Traces(onHand, overwritten, booked, received, lotIn, source, ret, lotQty, lotBooked)
    BY TracedNow DEF GoodsInv
  <1>4. /\ \A i \in Items : /\ LinesIn(received, i) \in Int
                            /\ LotsIn(lotIn, source, i) \in Int
                            /\ Out(source, ret, i) \in Int
        /\ \A l \in Lots : Repacks(source, l) \in Int /\ Sent(ret, l) \in Int
    BY SumTypes DEF GoodsInv, GoodsTypes
  <1>5. /\ \A i \in Items : onHand[i] \in Int /\ booked[i] \in Int /\ overwritten[i] \in Int
        /\ \A l \in Lots : lotQty[l] \in Int /\ lotBooked[l] \in Int /\ lotIn[l] \in Int
    BY DEF GoodsInv, GoodsTypes, ShelfTypes
  <1>6. /\ \A i \in Items : onHand'[i] \in Int /\ booked'[i] \in Int
        /\ \A l \in Lots : lotQty'[l] \in Int /\ lotBooked'[l] \in Int
    BY DEF ShelfTypes
  <1>7. Traces(onHand', overwritten, booked', received, lotIn, source, ret, lotQty', lotBooked')
    <2>1. ASSUME NEW i \in Items
          PROVE  onHand'[i] + overwritten[i] =
                   booked'[i] + (LinesIn(received, i) + LotsIn(lotIn, source, i)) - Out(source, ret, i)
      <3>1. onHand[i] + overwritten[i] =
              booked[i] + (LinesIn(received, i) + LotsIn(lotIn, source, i)) - Out(source, ret, i)
        BY <1>3 DEF Traces
      <3> QED BY <1>4, <1>5, <1>6, <3>1
    <2>2. ASSUME NEW l \in Lots
          PROVE  lotQty'[l] = lotBooked'[l] + lotIn[l] - Repacks(source, l) - Sent(ret, l)
      <3>1. lotQty[l] = lotBooked[l] + lotIn[l] - Repacks(source, l) - Sent(ret, l)
        BY <1>3 DEF Traces
      <3> QED BY <1>4, <1>5, <1>6, <3>1
    <2> QED BY <2>1, <2>2 DEF Traces
  <1>8. GoodsTraced'
    BY <1>0, <1>7, TracedNext
  <1> QED BY <1>1, <1>2, <1>8 DEF GoodsInv

LEMMA RemovalTraced ==
  ASSUME GoodsInv, ret \in ReturnTable, NEW i \in Items, NEW q \in Nat, q <= onHand[i],
         NEW take \in [Lots -> 0..q], \A l \in Lots : take[l] <= lotQty[l],
         RemoveFromShelf(i, q, take), UNCHANGED <<yardVars, tradeVars>>
  PROVE  GoodsInv'
  <1>0. ShelfTypes /\ lotState \in [Lots -> LotStates \cup {"returned"}] /\ FreshLots
    BY DEF GoodsInv, GoodsTypes
  <1>1. /\ onHand' \in [Items -> Nat]
        /\ lotQty' \in [Lots -> Nat]
        /\ lotState' \in [Lots -> LotStates \cup {"returned"}]
        /\ booked' \in [Items -> Int]
        /\ lotBooked' \in [Lots -> Int]
    <2>1. "depleted" \in LotStates \cup {"returned"}
      BY DEF LotStates
    <2> QED BY <1>0, <2>1, RemoveFromShelfType
  <1>2. ShelfTypes'
    BY <1>0, <1>1 DEF ShelfTypes, yardVars
  <1>3. \A j \in Items : onHand'[j] - onHand[j] = booked'[j] - booked[j]
    BY <1>0 DEF RemoveFromShelf, MoveItem, ShelfTypes
  <1>4. \A l \in Lots : lotQty'[l] - lotQty[l] = lotBooked'[l] - lotBooked[l]
    BY <1>0 DEF RemoveFromShelf, TakeFromLots, ShelfTypes
  <1>5. ASSUME NEW l \in Lots, lotState'[l] = "unreceived"
        PROVE  lotState[l] = "unreceived" /\ lotQty'[l] = 0
    <2>1. lotState[l] = "unreceived"
      BY <1>5 DEF RemoveFromShelf, TakeFromLots
    <2>2. lotQty[l] = 0
      BY <1>0, <2>1 DEF FreshLots
    <2>3. take[l] = 0
      BY <2>2
    <2> QED BY <2>1, <2>2, <2>3 DEF RemoveFromShelf, TakeFromLots
  <1> QED BY <1>1, <1>2, <1>3, <1>4, <1>5, MovementTraced DEF yardVars

LEMMA ShelfTraced ==
  ASSUME GoodsInv, ret \in ReturnTable, ShelfStep
  PROVE  GoodsInv'
  <1>0. ShelfTypes /\ lotState \in [Lots -> LotStates \cup {"returned"}] /\ FreshLots
        /\ UNCHANGED tradeVars
    BY DEF GoodsInv, GoodsTypes, ShelfStep
  <1>1. ASSUME NEW i \in Items, ItemStep(i) PROVE GoodsInv'
    <2>1. ASSUME NEW q \in Nat, NEW take \in [Lots -> 0..q], q <= onHand[i],
                 \A l \in Lots : take[l] <= lotQty[l],
                 RemoveFromShelf(i, q, take), UNCHANGED yardVars
          PROVE  GoodsInv'
      BY <1>0, <2>1, RemovalTraced
    <2>2. ASSUME NEW level \in Nat, MoveItem(i, level),
                 UNCHANGED <<lotQty, lotState, lotBooked, yardVars>>
          PROVE  GoodsInv'
      <3>1. onHand' \in [Items -> Nat] /\ booked' \in [Items -> Int]
        BY <1>0, <2>2, MoveItemType
      <3>2. ShelfTypes'
        BY <1>0, <2>2, <3>1 DEF ShelfTypes, yardVars
      <3>3. \A j \in Items : onHand'[j] - onHand[j] = booked'[j] - booked[j]
        BY <1>0, <2>2 DEF MoveItem, ShelfTypes
      <3>4. \A l \in Lots : lotQty'[l] - lotQty[l] = lotBooked'[l] - lotBooked[l]
        BY <1>0, <2>2 DEF ShelfTypes
      <3>5. \A l \in Lots : lotState'[l] = "unreceived" =>
              lotState[l] = "unreceived" /\ lotQty'[l] = 0
        BY <1>0, <2>2 DEF FreshLots
      <3>6. lotState' \in [Lots -> LotStates \cup {"returned"}]
        BY <1>0, <2>2
      <3> QED BY <1>0, <3>2, <3>3, <3>4, <3>5, <3>6, MovementTraced
    <2>3. ASSUME withheld' \in [Items -> 0..MaxWithheld], UNCHANGED <<shelfVars, bookVars>>
          PROVE  GoodsInv'
      <3> USE DEF shelfVars, bookVars
      <3>1. ShelfTypes' /\ lotState' \in [Lots -> LotStates \cup {"returned"}]
        BY <1>0, <2>3 DEF ShelfTypes
      <3>2. \A j \in Items : onHand'[j] - onHand[j] = booked'[j] - booked[j]
        BY <1>0, <2>3 DEF ShelfTypes
      <3>3. \A l \in Lots : lotQty'[l] - lotQty[l] = lotBooked'[l] - lotBooked[l]
        BY <1>0, <2>3 DEF ShelfTypes
      <3>4. \A l \in Lots : lotState'[l] = "unreceived" =>
              lotState[l] = "unreceived" /\ lotQty'[l] = 0
        BY <1>0, <2>3 DEF FreshLots
      <3> QED BY <1>0, <3>1, <3>2, <3>3, <3>4, MovementTraced
    <2> QED BY <1>0, <1>1, <2>1, <2>2, <2>3, ItemStepMoves
  <1>2. ASSUME NEW l \in Lots, NEW q \in 1..MaxCount, NEW onlyExpired \in BOOLEAN,
               RecordLotLoss(l, q, onlyExpired)
        PROVE  GoodsInv'
    <2>0. LotItem[l] \in Items /\ q \in Nat
      BY PlanningAssumption, OrderStockAssumption
    <2>1. PICK take \in [Lots -> 0..q] :
            /\ IsLotTake(take, lotQty, l, q)
            /\ RemoveFromShelf(LotItem[l], q, take)
      BY <1>2 DEF RecordLotLoss
    <2>2. q <= onHand[LotItem[l]] /\ UNCHANGED yardVars
      BY <1>2 DEF RecordLotLoss
    <2>3. \A k \in Lots : take[k] <= lotQty[k]
      BY <1>0, <2>1 DEF IsLotTake, ShelfTypes
    <2> QED BY <1>0, <2>0, <2>1, <2>2, <2>3, RemovalTraced
  <1>3. ASSUME NEW l \in Lots, RecallLot(l) PROVE GoodsInv'
    <2>1. UNCHANGED <<onHand, lotQty, booked, lotBooked, withheld>>
      BY <1>3 DEF RecallLot, bookVars
    <2>2. lotState[l] # "unreceived" /\
          lotState' = [lotState EXCEPT ![l] = IF lotQty[l] > 0 THEN "quarantined" ELSE @]
      BY <1>3 DEF RecallLot
    <2>3. ShelfTypes'
      BY <1>0, <2>1 DEF ShelfTypes
    <2>4. lotState' \in [Lots -> LotStates \cup {"returned"}]
      BY <1>0, <2>2 DEF LotStates
    <2>5. \A k \in Lots : lotState'[k] = "unreceived" => lotState[k] = "unreceived" /\ lotQty'[k] = 0
      BY <1>0, <2>1, <2>2 DEF FreshLots
    <2>6. \A j \in Items : onHand'[j] - onHand[j] = booked'[j] - booked[j]
      BY <1>0, <2>1 DEF ShelfTypes
    <2>7. \A k \in Lots : lotQty'[k] - lotQty[k] = lotBooked'[k] - lotBooked[k]
      BY <1>0, <2>1 DEF ShelfTypes
    <2> QED BY <1>0, <2>3, <2>4, <2>5, <2>6, <2>7, MovementTraced
  <1> QED BY <1>1, <1>2, <1>3 DEF ShelfStep

-----------------------------------------------------------------------------
NumbersKnown ==
    /\ \A i \in Items : /\ onHand[i] \in Int /\ booked[i] \in Int /\ overwritten[i] \in Int
                        /\ LinesIn(received, i) \in Int
                        /\ LotsIn(lotIn, source, i) \in Int
                        /\ Out(source, ret, i) \in Int
    /\ \A l \in Lots : /\ lotQty[l] \in Int /\ lotBooked[l] \in Int /\ lotIn[l] \in Int
                       /\ Repacks(source, l) \in Int /\ Sent(ret, l) \in Int

LEMMA Numbers ==
  ASSUME GoodsInv, ret \in ReturnTable
  PROVE  NumbersKnown
  <1>1. /\ \A i \in Items : onHand[i] \in Int /\ booked[i] \in Int /\ overwritten[i] \in Int
        /\ \A l \in Lots : lotQty[l] \in Int /\ lotBooked[l] \in Int /\ lotIn[l] \in Int
    BY DEF GoodsInv, GoodsTypes, ShelfTypes
  <1>2. /\ \A i \in Items : /\ LinesIn(received, i) \in Int
                            /\ LotsIn(lotIn, source, i) \in Int
                            /\ Out(source, ret, i) \in Int
        /\ \A l \in Lots : Repacks(source, l) \in Int /\ Sent(ret, l) \in Int
    BY SumTypes DEF GoodsInv, GoodsTypes
  <1> QED BY <1>1, <1>2 DEF NumbersKnown

(* What every receipt does, from a purchase order or by hand: a fresh lot,  *)
(* a stock level that rises by its units or is written over.               *)
LEMMA PutLotTypes ==
  ASSUME GoodsInv, NEW l \in Lots, NEW i \in Items, NEW units \in Nat, NEW from \in SourceRows,
         PutLot(l, i, units, from)
  PROVE  /\ lotState[l] = "unreceived" /\ LotItem[l] = i
         /\ lotQty[l] = 0 /\ lotIn[l] = 0 /\ source[l] = Nowhere
         /\ lotQty' \in [Lots -> Nat] /\ lotIn' \in [Lots -> Nat]
         /\ lotState' \in [Lots -> LotStates \cup {"returned"}]
         /\ source' \in [Lots -> SourceRows]
         /\ FreshLots'
         /\ \A k \in Lots : lotQty'[k] = lotQty[k] + (IF k = l THEN units ELSE 0)
         /\ \A k \in Lots : lotIn'[k] = lotIn[k] + (IF k = l THEN units ELSE 0)
  <1>1. /\ lotState[l] = "unreceived" /\ LotItem[l] = i
        /\ lotQty' = [lotQty EXCEPT ![l] = units]
        /\ lotState' = [lotState EXCEPT ![l] = "available"]
        /\ lotIn' = [lotIn EXCEPT ![l] = units]
        /\ source' = [source EXCEPT ![l] = from]
    BY DEF PutLot
  <1>2. /\ lotQty \in [Lots -> Nat] /\ lotIn \in [Lots -> Nat]
        /\ lotState \in [Lots -> LotStates \cup {"returned"}]
        /\ source \in [Lots -> SourceRows] /\ FreshLots
    BY DEF GoodsInv, GoodsTypes, ShelfTypes
  <1>3. lotQty[l] = 0 /\ lotIn[l] = 0 /\ source[l] = Nowhere
    BY <1>1, <1>2 DEF FreshLots
  <1>4. /\ lotQty' \in [Lots -> Nat] /\ lotIn' \in [Lots -> Nat]
        /\ lotState' \in [Lots -> LotStates \cup {"returned"}]
        /\ source' \in [Lots -> SourceRows]
    BY <1>1, <1>2 DEF LotStates
  <1>5. /\ \A k \in Lots : lotQty'[k] = lotQty[k] + (IF k = l THEN units ELSE 0)
        /\ \A k \in Lots : lotIn'[k] = lotIn[k] + (IF k = l THEN units ELSE 0)
    BY <1>1, <1>2, <1>3
  <1>6. FreshLots'
    BY <1>1, <1>2 DEF FreshLots
  <1> QED BY <1>1, <1>3, <1>4, <1>5, <1>6

(* A receipt adds the same to the lot, to its intake and, together with     *)
(* what it wrote over, to the stock level.                                 *)
ReceiptOf(l, i, units, from) ==
    /\ PutLot(l, i, units, from)
    /\ from.kind \in {"order", "hand"}
    /\ UNCHANGED <<bookVars, yardVars, ret>>
    /\ received' \in [PoItems -> Nat]
    /\ \A j \in Items : LinesIn(received', j) =
          LinesIn(received, j) + (IF j = i /\ from.kind = "order" THEN units ELSE 0)
    /\ onHand' \in [Items -> Nat]
    /\ overwritten' \in [Items -> Int]
    /\ \A j \in Items : onHand'[j] + overwritten'[j] =
          onHand[j] + overwritten[j] + (IF j = i THEN units ELSE 0)
    /\ byHand' \in [Lots -> {NotReading} \cup [phase : {"read"}, level : Nat]]

LEMMA ReceiptTraced ==
  ASSUME GoodsInv, ret \in ReturnTable, NEW l \in Lots, NEW i \in Items, NEW units \in Nat,
         NEW from \in SourceRows, ReceiptOf(l, i, units, from)
  PROVE  GoodsInv'
  <1> USE DEF ReceiptOf
  <1>1. /\ lotState[l] = "unreceived" /\ LotItem[l] = i
        /\ lotQty[l] = 0 /\ lotIn[l] = 0 /\ source[l] = Nowhere
        /\ lotQty' \in [Lots -> Nat] /\ lotIn' \in [Lots -> Nat]
        /\ lotState' \in [Lots -> LotStates \cup {"returned"}]
        /\ source' \in [Lots -> SourceRows]
        /\ FreshLots'
        /\ \A k \in Lots : lotQty'[k] = lotQty[k] + (IF k = l THEN units ELSE 0)
        /\ \A k \in Lots : lotIn'[k] = lotIn[k] + (IF k = l THEN units ELSE 0)
    BY PutLotTypes
  <1>2. /\ lotIn \in [Lots -> Nat] /\ source \in [Lots -> SourceRows]
        /\ Updated(lotIn, lotIn', l, units)
        /\ Updated(source, source', l, from)
        /\ source[l].kind = "none" /\ source[l].kind # "repack"
    BY <1>1 DEF GoodsInv, GoodsTypes, PutLot, Nowhere, From, Updated
  <1>3. GoodsTypes'
    BY <1>1 DEF GoodsInv, GoodsTypes, ShelfTypes, bookVars, yardVars
  <1>4. \A k \in Lots : Repacks(source', k) = Repacks(source, k)
    <2> TAKE k \in Lots
    <2>1. Repacks(source', k) =
            Repacks(source, k) + (IF from.kind = "repack" /\ from.of = k THEN from.input ELSE 0)
      BY <1>2, RepacksChange
    <2>2. Repacks(source, k) \in Int
      BY <1>2, RepacksType
    <2> QED BY <2>1, <2>2
  <1>5. \A j \in Items : Out(source', ret, j) = Out(source, ret, j)
    BY <1>4, OutSame
  <1>6. \A j \in Items : LotsIn(lotIn', source', j) =
          LotsIn(lotIn, source, j) + (IF j = i /\ from.kind = "hand" THEN units ELSE 0)
    <2> TAKE j \in Items
    <2>1. LotsIn(lotIn', source', j) = LotsIn(lotIn, source, j) +
            (IF LotItem[l] = j /\ from.kind \in {"hand", "repack"} THEN units ELSE 0)
      BY <1>2, LotsInChange
    <2> QED BY <1>1, <2>1
  <1>7. NumbersKnown
    BY Numbers
  <1>8. /\ \A j \in Items : onHand'[j] \in Int /\ overwritten'[j] \in Int
        /\ \A k \in Lots : lotQty'[k] \in Int /\ lotIn'[k] \in Int
    BY <1>1
  <1>9. Traces(onHand, overwritten, booked, received, lotIn, source, ret, lotQty, lotBooked)
    BY TracedNow DEF GoodsInv
  <1>10. Traces(onHand', overwritten', booked, received', lotIn', source', ret, lotQty', lotBooked)
    <2>1. ASSUME NEW j \in Items
          PROVE  onHand'[j] + overwritten'[j] =
                   booked[j] + (LinesIn(received', j) + LotsIn(lotIn', source', j))
                   - Out(source', ret, j)
      <3>1. onHand[j] + overwritten[j] =
              booked[j] + (LinesIn(received, j) + LotsIn(lotIn, source, j)) - Out(source, ret, j)
        BY <1>9 DEF Traces
      <3>2. onHand'[j] + overwritten'[j] = onHand[j] + overwritten[j] + (IF j = i THEN units ELSE 0)
        OBVIOUS
      <3>3. LinesIn(received', j) + LotsIn(lotIn', source', j) =
              LinesIn(received, j) + LotsIn(lotIn, source, j) + (IF j = i THEN units ELSE 0)
        BY <1>6, <1>7 DEF NumbersKnown
      <3> QED BY <1>5, <1>7, <1>8, <3>1, <3>2, <3>3 DEF NumbersKnown
    <2>2. ASSUME NEW k \in Lots
          PROVE  lotQty'[k] = lotBooked[k] + lotIn'[k] - Repacks(source', k) - Sent(ret, k)
      <3>1. lotQty[k] = lotBooked[k] + lotIn[k] - Repacks(source, k) - Sent(ret, k)
        BY <1>9 DEF Traces
      <3> QED BY <1>1, <1>4, <1>7, <3>1 DEF NumbersKnown
    <2> QED BY <2>1, <2>2 DEF Traces
  <1>11. GoodsTraced'
    BY <1>10, TracedNext DEF bookVars
  <1> QED BY <1>1, <1>3, <1>11 DEF GoodsInv

LEMMA ReceiveTraced ==
  ASSUME GoodsInv, ret \in ReturnTable, NEW n \in PoItems, NEW packs \in Nat, ReceivePacks(n, packs)
  PROVE  GoodsInv'
  <1>0. StockItem[n] \in Items /\ UnitsPerPack[n] \in Nat /\ packs * UnitsPerPack[n] \in Nat
    <2>1. StockItem[n] \in Items /\ UnitsPerPack[n] \in Nat
      BY ProcurementAssumption
    <2> QED BY <2>1
  <1>1. /\ UNCHANGED <<bookVars, yardVars, ret, handVars>>
        /\ received' = [received EXCEPT ![n] = @ + packs]
    BY DEF ReceivePacks, returnVars
  <1>2. received \in [PoItems -> Nat] /\ onHand \in [Items -> Nat]
        /\ overwritten \in [Items -> Int]
        /\ byHand \in [Lots -> {NotReading} \cup [phase : {"read"}, level : Nat]]
    BY DEF GoodsInv, GoodsTypes, ShelfTypes
  <1>3. CASE packs = 0
    <2>1. received' = received
      BY <1>1, <1>2, <1>3
    <2> QED BY <1>1, <1>3, <2>1, GoodsStay DEF ReceivePacks, shelfVars, yardVars
  <1>4. CASE packs # 0
    <2> DEFINE from == From("order", n, 0)
               units == packs * UnitsPerPack[n]
               i == StockItem[n]
    <2>1. PICK l \in Lots : ReceiveUnits(n, l, packs)
      BY <1>4 DEF ReceivePacks
    <2>2. /\ onHand' = [onHand EXCEPT ![i] = @ + units]
          /\ PutLot(l, i, units, from)
      BY <2>1 DEF ReceiveUnits
    <2>3. from \in SourceRows /\ from.kind = "order"
      BY DEF From, SourceRows
    <2>4. received' \in [PoItems -> Nat]
      BY <1>1, <1>2
    <2>5. \A j \in Items : LinesIn(received', j) =
             LinesIn(received, j) + (IF j = i /\ from.kind = "order" THEN units ELSE 0)
      <3> TAKE j \in Items
      <3>0. Updated(received, received', n, received[n] + packs)
        BY <1>1 DEF Updated
      <3>1. LinesIn(received', j) = LinesIn(received, j) + (IF StockItem[n] = j THEN units ELSE 0)
        BY <1>2, <3>0, LinesInChange
      <3> QED BY <2>3, <3>1
    <2>6. units \in Nat /\ i \in Items
      BY <1>0
    <2> HIDE DEF from, units, i
    <2>7. onHand' \in [Items -> Nat]
      BY <1>2, <2>2, <2>6
    <2>8. \A j \in Items : onHand'[j] + overwritten'[j] =
             onHand[j] + overwritten[j] + (IF j = i THEN units ELSE 0)
      BY <1>1, <1>2, <2>2, <2>6 DEF handVars
    <2>9. overwritten' \in [Items -> Int]
          /\ byHand' \in [Lots -> {NotReading} \cup [phase : {"read"}, level : Nat]]
      BY <1>1, <1>2 DEF handVars
    <2>10. ReceiptOf(l, i, units, from)
      BY <1>1, <2>2, <2>3, <2>4, <2>5, <2>7, <2>8, <2>9 DEF ReceiptOf
    <2> QED BY <2>3, <2>6, <2>10, ReceiptTraced
  <1> QED BY <1>3, <1>4

LEMMA ByHandTraced ==
  ASSUME GoodsInv, ret \in ReturnTable, NEW l \in Lots, ReceiveByHand(l)
  PROVE  GoodsInv'
  <1> DEFINE i == LotItem[l]
             from == From("hand", "none", 0)
  <1>0. i \in Items /\ LotSize[l] \in Nat
    BY PlanningAssumption, OrderStockAssumption
  <1>1. /\ received \in [PoItems -> Nat] /\ onHand \in [Items -> Nat]
        /\ overwritten \in [Items -> Int]
        /\ byHand \in [Lots -> {NotReading} \cup [phase : {"read"}, level : Nat]]
    BY DEF GoodsInv, GoodsTypes, ShelfTypes
  <1>2. /\ byHand[l] # NotReading
        /\ onHand' = [onHand EXCEPT ![i] = byHand[l].level + LotSize[l]]
        /\ overwritten' = [overwritten EXCEPT ![i] = @ + onHand[i] - byHand[l].level]
        /\ PutLot(l, i, LotSize[l], from)
        /\ byHand' = [byHand EXCEPT ![l] = NotReading]
        /\ UNCHANGED <<bookVars, yardVars, ret, received>>
    BY DEF ReceiveByHand, orderBookVars, returnVars
  <1>3. byHand[l].level \in Nat
    BY <1>1, <1>2
  <1>4. from \in SourceRows /\ from.kind = "hand"
    BY DEF From, SourceRows
  <1> HIDE DEF i, from
  <1>5. onHand' \in [Items -> Nat] /\ overwritten' \in [Items -> Int]
    BY <1>0, <1>1, <1>2, <1>3
  <1>6. \A j \in Items : onHand'[j] + overwritten'[j] =
           onHand[j] + overwritten[j] + (IF j = i THEN LotSize[l] ELSE 0)
    BY <1>0, <1>1, <1>2, <1>3
  <1>7. \A j \in Items : LinesIn(received', j) =
           LinesIn(received, j) + (IF j = i /\ from.kind = "order" THEN LotSize[l] ELSE 0)
    <2> TAKE j \in Items
    <2>1. LinesIn(received, j) \in Nat
      BY <1>1, LinesInType
    <2> QED BY <1>2, <1>4, <2>1
  <1>8. byHand' \in [Lots -> {NotReading} \cup [phase : {"read"}, level : Nat]]
    BY <1>1, <1>2
  <1>9. received' \in [PoItems -> Nat]
    BY <1>1, <1>2
  <1>10. ReceiptOf(l, i, LotSize[l], from)
    BY <1>2, <1>4, <1>5, <1>6, <1>7, <1>8, <1>9 DEF ReceiptOf
  <1> QED BY <1>0, <1>4, <1>10, ReceiptTraced

LEMMA ReadTraced ==
  ASSUME GoodsInv, ret \in ReturnTable, NEW l \in Lots, ReadForReceiptByHand(l)
  PROVE  GoodsInv'
  <1>0. LotItem[l] \in Items
    BY PlanningAssumption
  <1>1. /\ byHand' = [byHand EXCEPT ![l] = [phase |-> "read", level |-> onHand[LotItem[l]]]]
        /\ UNCHANGED <<onHand, lotQty, lotState, booked, lotBooked, withheld,
                       received, source, lotIn, overwritten, ret>>
    BY DEF ReadForReceiptByHand, vars, shelfVars, bookVars, yardVars, orderBookVars, goodsVars,
           returnVars
  <1>2. GoodsTypes'
    <2>1. onHand[LotItem[l]] \in Nat
      BY <1>0 DEF GoodsInv, GoodsTypes, ShelfTypes
    <2>2. byHand' \in [Lots -> {NotReading} \cup [phase : {"read"}, level : Nat]]
      BY <1>1, <2>1 DEF GoodsInv, GoodsTypes
    <2>3. ShelfTypes'
      BY <1>1 DEF GoodsInv, GoodsTypes, ShelfTypes
    <2> QED BY <1>1, <2>2, <2>3 DEF GoodsInv, GoodsTypes
  <1>3. FreshLots'
    BY <1>1 DEF GoodsInv, FreshLots
  <1>4. GoodsTraced'
    <2>1. Traces(onHand', overwritten', booked', received', lotIn', source', ret', lotQty', lotBooked')
      BY <1>1, TracedNow DEF GoodsInv
    <2> QED BY <2>1, TracedNext
  <1> QED BY <1>2, <1>3, <1>4 DEF GoodsInv

LEMMA RepackTraced ==
  ASSUME GoodsInv, ret \in ReturnTable, NEW k \in Lots, NEW l \in Lots,
         NEW input \in Nat \ {0}, NEW packed \in Nat, Repack(k, l, input, packed)
  PROVE  GoodsInv'
  <1> DEFINE i == LotItem[k]
             j == LotItem[l]
             from == From("repack", k, input)
  <1>0. i \in Items /\ j \in Items
    BY PlanningAssumption
  <1>1. /\ i # j /\ k # l
        /\ input <= lotQty[k] /\ input <= onHand[i]
        /\ lotState[l] = "unreceived"
        /\ lotQty' = [lotQty EXCEPT ![k] = @ - input, ![l] = packed]
        /\ onHand' = [onHand EXCEPT ![i] = @ - input, ![j] = @ + packed]
        /\ lotState' = [lotState EXCEPT ![l] = "available"]
        /\ lotIn' = [lotIn EXCEPT ![l] = packed]
        /\ source' = [source EXCEPT ![l] = from]
        /\ UNCHANGED <<bookVars, yardVars, received, ret, handVars>>
    BY DEF Repack, orderBookVars, returnVars
  <1>2. /\ onHand \in [Items -> Nat] /\ lotQty \in [Lots -> Nat] /\ lotIn \in [Lots -> Nat]
        /\ lotState \in [Lots -> LotStates \cup {"returned"}]
        /\ source \in [Lots -> SourceRows] /\ FreshLots
    BY DEF GoodsInv, GoodsTypes, ShelfTypes
  <1>3. lotQty[l] = 0 /\ lotIn[l] = 0 /\ source[l] = Nowhere
    BY <1>1, <1>2 DEF FreshLots
  <1>4. /\ from \in SourceRows /\ from.kind = "repack" /\ from.of = k /\ from.input = input
        /\ source[l].kind = "none"
    BY <1>3 DEF From, Nowhere, SourceRows
  <1> HIDE DEF i, j, from
  <1>5. /\ \A m \in Items : onHand'[m] = onHand[m] - (IF m = i THEN input ELSE 0)
                                                   + (IF m = j THEN packed ELSE 0)
        /\ \A m \in Lots : lotQty'[m] = lotQty[m] - (IF m = k THEN input ELSE 0)
                                                  + (IF m = l THEN packed ELSE 0)
        /\ \A m \in Lots : lotIn'[m] = lotIn[m] + (IF m = l THEN packed ELSE 0)
    BY <1>0, <1>1, <1>2, <1>3
  <1>6. /\ onHand' \in [Items -> Nat] /\ lotQty' \in [Lots -> Nat] /\ lotIn' \in [Lots -> Nat]
        /\ lotState' \in [Lots -> LotStates \cup {"returned"}]
        /\ source' \in [Lots -> SourceRows]
    <2>1. onHand[i] - input \in Nat /\ lotQty[k] - input \in Nat
      BY <1>0, <1>1, <1>2
    <2>2. onHand' \in [Items -> Nat] /\ lotQty' \in [Lots -> Nat]
      BY <1>0, <1>1, <1>2, <2>1
    <2> QED BY <1>1, <1>2, <1>4, <2>2 DEF LotStates
  <1>7. GoodsTypes'
    BY <1>1, <1>6 DEF GoodsInv, GoodsTypes, ShelfTypes, bookVars, yardVars, handVars
  <1>8. FreshLots'
    <2>1. lotState[k] # "unreceived"
      BY <1>1, <1>2 DEF FreshLots
    <2> SUFFICES ASSUME NEW m \in Lots, lotState'[m] = "unreceived"
                 PROVE  lotQty'[m] = 0 /\ lotIn'[m] = 0 /\ source'[m] = Nowhere
      BY DEF FreshLots
    <2>2. m # l /\ m # k /\ lotState[m] = "unreceived"
      BY <1>1, <1>2, <2>1
    <2> QED BY <1>1, <1>2, <2>2 DEF FreshLots
  <1>9. \A m \in Lots : Repacks(source', m) = Repacks(source, m) + (IF m = k THEN input ELSE 0)
    <2> TAKE m \in Lots
    <2>1. Updated(source, source', l, from)
      BY <1>1 DEF Updated
    <2>2. Repacks(source', m) =
            Repacks(source, m) + (IF from.kind = "repack" /\ from.of = m THEN from.input ELSE 0)
      BY <1>2, <1>4, <2>1, RepacksChange
    <2> QED BY <1>4, <2>2
  <1>10. NumbersKnown
    BY Numbers
  <1>11. \A m \in Items : Out(source', ret, m) = Out(source, ret, m) + (IF m = i THEN input ELSE 0)
    <2> TAKE m \in Items
    <2>1. LeavesLot(source, ret, source', ret, k, input)
      BY <1>9, <1>10 DEF NumbersKnown, LeavesLot
    <2>2. Out(source', ret, m) = Out(source, ret, m) + (IF LotItem[k] = m THEN input ELSE 0)
      BY <1>2, <1>6, <2>1, OutChange
    <2> QED BY <2>2 DEF i
  <1>12. \A m \in Items : LotsIn(lotIn', source', m) =
           LotsIn(lotIn, source, m) + (IF m = j THEN packed ELSE 0)
    <2> TAKE m \in Items
    <2>1. Updated(source, source', l, from) /\ Updated(lotIn, lotIn', l, packed)
      BY <1>1 DEF Updated
    <2>2. LotsIn(lotIn', source', m) = LotsIn(lotIn, source, m) +
            (IF LotItem[l] = m /\ from.kind \in {"hand", "repack"} THEN packed ELSE 0)
      BY <1>2, <1>4, <2>1, LotsInChange
    <2> QED BY <1>4, <2>2 DEF j
  <1>13. Traces(onHand, overwritten, booked, received, lotIn, source, ret, lotQty, lotBooked)
    BY TracedNow DEF GoodsInv
  <1>14. Traces(onHand', overwritten, booked, received, lotIn', source', ret, lotQty', lotBooked)
    <2>1. ASSUME NEW m \in Items
          PROVE  onHand'[m] + overwritten[m] =
                   booked[m] + (LinesIn(received, m) + LotsIn(lotIn', source', m))
                   - Out(source', ret, m)
      <3>1. onHand[m] + overwritten[m] =
              booked[m] + (LinesIn(received, m) + LotsIn(lotIn, source, m)) - Out(source, ret, m)
        BY <1>13 DEF Traces
      <3>2. /\ onHand[m] \in Int /\ overwritten[m] \in Int /\ booked[m] \in Int
            /\ LinesIn(received, m) \in Int /\ LotsIn(lotIn, source, m) \in Int
            /\ Out(source, ret, m) \in Int
        BY <1>10 DEF NumbersKnown
      <3>3. onHand'[m] = onHand[m] - (IF m = i THEN input ELSE 0) + (IF m = j THEN packed ELSE 0)
        BY <1>5
      <3>4. Out(source', ret, m) = Out(source, ret, m) + (IF m = i THEN input ELSE 0)
        BY <1>11
      <3>5. LotsIn(lotIn', source', m) = LotsIn(lotIn, source, m) + (IF m = j THEN packed ELSE 0)
        BY <1>12
      <3> QED BY <3>1, <3>2, <3>3, <3>4, <3>5
    <2>2. ASSUME NEW m \in Lots
          PROVE  lotQty'[m] = lotBooked[m] + lotIn'[m] - Repacks(source', m) - Sent(ret, m)
      <3>1. lotQty[m] = lotBooked[m] + lotIn[m] - Repacks(source, m) - Sent(ret, m)
        BY <1>13 DEF Traces
      <3>2. /\ lotQty[m] \in Int /\ lotBooked[m] \in Int /\ lotIn[m] \in Int
            /\ Repacks(source, m) \in Int /\ Sent(ret, m) \in Int
        BY <1>10 DEF NumbersKnown
      <3>3. lotQty'[m] = lotQty[m] - (IF m = k THEN input ELSE 0) + (IF m = l THEN packed ELSE 0)
        BY <1>5
      <3>4. lotIn'[m] = lotIn[m] + (IF m = l THEN packed ELSE 0)
        BY <1>5
      <3>5. Repacks(source', m) = Repacks(source, m) + (IF m = k THEN input ELSE 0)
        BY <1>9
      <3> QED BY <3>1, <3>2, <3>3, <3>4, <3>5
    <2> QED BY <2>1, <2>2 DEF Traces
  <1>15. GoodsTraced'
    <2>1. Traces(onHand', overwritten', booked', received', lotIn', source', ret', lotQty', lotBooked')
      BY <1>1, <1>14 DEF bookVars, handVars
    <2> QED BY <2>1, TracedNext
  <1> QED BY <1>7, <1>8, <1>15 DEF GoodsInv

LEMMA DispatchTraced ==
  ASSUME GoodsInv, ReturnsInv, NEW r \in Returns, FinishDispatch(r)
  PROVE  GoodsInv'
  <1> DEFINE row == [ret[r] EXCEPT !.status = "returned"]
             l == ret[r].lot
             q == ret[r].q
             i == LotItem[l]
  <1>1. ret \in ReturnTable /\ ret[r] \in ReturnRows
    BY DEF ReturnsInv, ReturnTable, FinishDispatch, Dispatchable
  <1>2. /\ l \in Lots /\ q \in Nat /\ i \in Items
        /\ row \in ReturnRows /\ row.lot = l /\ row.q = q /\ row.status = "returned"
    BY <1>1, PlanningAssumption DEF ReturnRows
  <1>3. /\ ~Gone(ret, r)
        /\ q <= lotQty[l] /\ q <= onHand[i]
        /\ onHand' = [onHand EXCEPT ![i] = @ - q]
        /\ lotQty' = [lotQty EXCEPT ![l] = @ - q]
        /\ lotState' = [lotState EXCEPT ![l] = IF lotQty[l] = q THEN "returned" ELSE @]
        /\ Updated(ret, ret', r, row)
        /\ UNCHANGED <<bookVars, yardVars, received, goodsVars, handVars>>
    BY DEF FinishDispatch, NotYetReturned, Left, Gone, ReturnFits, Updated, orderBookVars
  <1>4. ret' \in ReturnTable
    BY <1>1, <1>2, <1>3 DEF ReturnTable, Updated
  <1> HIDE DEF row, l, q, i
  <1>5. /\ onHand \in [Items -> Nat] /\ lotQty \in [Lots -> Nat] /\ lotIn \in [Lots -> Nat]
        /\ lotState \in [Lots -> LotStates \cup {"returned"}]
        /\ source \in [Lots -> SourceRows] /\ FreshLots
    BY DEF GoodsInv, GoodsTypes, ShelfTypes
  <1>6. onHand' \in [Items -> Nat] /\ lotQty' \in [Lots -> Nat]
    <2>1. onHand[i] - q \in Nat /\ lotQty[l] - q \in Nat
      BY <1>2, <1>3, <1>5
    <2> QED BY <1>2, <1>3, <1>5, <2>1
  <1>7. GoodsTypes'
    <2>1. lotState' \in [Lots -> LotStates \cup {"returned"}]
      BY <1>2, <1>3, <1>5
    <2> QED BY <1>3, <1>6, <2>1 DEF GoodsInv, GoodsTypes, ShelfTypes, bookVars, yardVars, goodsVars,
                                    handVars
  <1>8. FreshLots'
    <2> SUFFICES ASSUME NEW m \in Lots, lotState'[m] = "unreceived"
                 PROVE  lotQty'[m] = 0 /\ lotIn'[m] = 0 /\ source'[m] = Nowhere
      BY DEF FreshLots
    <2>1. lotState[m] = "unreceived"
      BY <1>2, <1>3, <1>5
    <2>2. lotQty[m] = 0 /\ lotIn[m] = 0 /\ source[m] = Nowhere
      BY <1>5, <2>1 DEF FreshLots
    <2> QED BY <1>2, <1>3, <1>5, <2>2 DEF goodsVars
  <1>9. \A m \in Lots : Sent(ret', m) = Sent(ret, m) + (IF m = l THEN q ELSE 0)
    <2> TAKE m \in Lots
    <2>1. Sent(ret', m) = Sent(ret, m) + (IF row.lot = m THEN row.q ELSE 0)
      BY <1>1, <1>2, <1>3, SentChange
    <2> QED BY <1>2, <2>1
  <1>10. NumbersKnown
    BY <1>1, Numbers
  <1>11. \A m \in Items : Out(source, ret', m) = Out(source, ret, m) + (IF m = i THEN q ELSE 0)
    <2> TAKE m \in Items
    <2>1. LeavesLot(source, ret, source, ret', l, q)
      <3> SUFFICES ASSUME NEW x \in Lots
                   PROVE  Repacks(source, x) + Sent(ret', x) =
                            Repacks(source, x) + Sent(ret, x) + (IF x = l THEN q ELSE 0)
        BY DEF LeavesLot
      <3>1. Repacks(source, x) \in Int /\ Sent(ret, x) \in Int
        BY <1>10 DEF NumbersKnown
      <3> QED BY <1>2, <1>9, <3>1
    <2>2. Out(source, ret', m) = Out(source, ret, m) + (IF LotItem[l] = m THEN q ELSE 0)
      BY <1>1, <1>2, <1>4, <1>5, <2>1, OutChange
    <2> QED BY <2>2 DEF i
  <1>12. Traces(onHand, overwritten, booked, received, lotIn, source, ret, lotQty, lotBooked)
    BY TracedNow DEF GoodsInv
  <1>13. Traces(onHand', overwritten, booked, received, lotIn, source, ret', lotQty', lotBooked)
    <2>1. ASSUME NEW m \in Items
          PROVE  onHand'[m] + overwritten[m] =
                   booked[m] + (LinesIn(received, m) + LotsIn(lotIn, source, m))
                   - Out(source, ret', m)
      <3>1. onHand[m] + overwritten[m] =
              booked[m] + (LinesIn(received, m) + LotsIn(lotIn, source, m)) - Out(source, ret, m)
        BY <1>12 DEF Traces
      <3>2. onHand'[m] = onHand[m] - (IF m = i THEN q ELSE 0)
        BY <1>2, <1>3, <1>5
      <3>3. /\ onHand[m] \in Int /\ overwritten[m] \in Int /\ booked[m] \in Int
            /\ LinesIn(received, m) \in Int /\ LotsIn(lotIn, source, m) \in Int
            /\ Out(source, ret, m) \in Int
        BY <1>10 DEF NumbersKnown
      <3> QED BY <1>2, <1>11, <3>1, <3>2, <3>3
    <2>2. ASSUME NEW m \in Lots
          PROVE  lotQty'[m] = lotBooked[m] + lotIn[m] - Repacks(source, m) - Sent(ret', m)
      <3>1. lotQty[m] = lotBooked[m] + lotIn[m] - Repacks(source, m) - Sent(ret, m)
        BY <1>12 DEF Traces
      <3>2. lotQty'[m] = lotQty[m] - (IF m = l THEN q ELSE 0)
        BY <1>2, <1>3, <1>5
      <3>3. /\ lotQty[m] \in Int /\ lotBooked[m] \in Int /\ lotIn[m] \in Int
            /\ Repacks(source, m) \in Int /\ Sent(ret, m) \in Int
        BY <1>10 DEF NumbersKnown
      <3> QED BY <1>2, <1>9, <3>1, <3>2, <3>3
    <2> QED BY <2>1, <2>2 DEF Traces
  <1>14. GoodsTraced'
    <2>1. Traces(onHand', overwritten', booked', received', lotIn', source', ret', lotQty', lotBooked')
      BY <1>3, <1>13 DEF bookVars, goodsVars, handVars
    <2> QED BY <2>1, TracedNext
  <1> QED BY <1>7, <1>8, <1>14 DEF GoodsInv

(* Returns that are asked for, answered, refused or settled.                *)
LEMMA ReturnsTraced ==
  ASSUME GoodsInv, ReturnsInv, NEW r \in Returns,
         \/ \E l \in Lots, q \in 1..MostUnits : RequestReturn(r, l, q)
         \/ \E authorize \in BOOLEAN : AnswerReturn(r, authorize)
         \/ BeginDispatch(r)
         \/ FinishDispatch(r)
         \/ FailDispatch(r)
         \/ \E credit \in 0..MaxCredit : ResolveReturn(r, credit)
  PROVE  GoodsInv'
  <1>0. ret \in ReturnTable
    BY DEF ReturnsInv, ReturnTable
  <1>1. ASSUME NEW row, ret' = [ret EXCEPT ![r] = row],
               row.status \in {"returned", "resolved"} <=> Gone(ret, r),
               Gone(ret, r) => row.lot = ret[r].lot /\ row.q = ret[r].q,
               UNCHANGED <<shelfVars, bookVars, withheld, received, goodsVars, handVars>>
        PROVE  GoodsInv'
    <2>1. \A p \in Returns :
            /\ Gone(ret', p) <=> Gone(ret, p)
            /\ Gone(ret, p) => ret'[p].lot = ret[p].lot /\ ret'[p].q = ret[p].q
      BY <1>0, <1>1 DEF Gone, ReturnTable
    <2> QED BY <1>0, <1>1, <2>1, ReturnsMoveNothing
  <1> USE DEF vars, shelfVars, bookVars, yardVars, orderBookVars
  <1>2. ASSUME NEW l \in Lots, NEW q \in 1..MostUnits, RequestReturn(r, l, q)
        PROVE  GoodsInv'
    <2>1. PICK row : row = [status |-> "requested", lot |-> l, q |-> q,
                            connected |-> source[l].kind = "order", credit |-> 0]
      OBVIOUS
    <2>2. row.status = "requested" /\ ~Gone(ret, r)
      BY <1>2, <2>1 DEF RequestReturn, Gone, NoReturn
    <2>3. ret' = [ret EXCEPT ![r] = row]
      BY <1>2, <2>1 DEF RequestReturn
    <2> QED BY <1>1, <1>2, <2>2, <2>3 DEF RequestReturn
  <1>3. ASSUME NEW authorize \in BOOLEAN, AnswerReturn(r, authorize)
        PROVE  GoodsInv'
    <2>1. PICK row : row = [ret[r] EXCEPT !.status =
                              IF authorize THEN "authorized" ELSE "rejected"]
      OBVIOUS
    <2>2. ret[r] \in ReturnRows /\ ret[r].status = "requested"
      BY <1>0, <1>3 DEF AnswerReturn, AwaitsSupplier, ReturnTable
    <2>3. row.status \in {"authorized", "rejected"} /\ ~Gone(ret, r)
      BY <2>1, <2>2 DEF ReturnRows, Gone
    <2>4. ret' = [ret EXCEPT ![r] = row]
      BY <1>0, <1>3, <2>1 DEF AnswerReturn, ReturnTable
    <2> QED BY <1>1, <1>3, <2>3, <2>4 DEF AnswerReturn
  <1>4. ASSUME BeginDispatch(r) \/ FailDispatch(r) PROVE GoodsInv'
    BY <1>0, <1>4, GoodsStay DEF BeginDispatch, FailDispatch
  <1>5. ASSUME FinishDispatch(r) PROVE GoodsInv'
    BY <1>5, DispatchTraced
  <1>6. ASSUME NEW credit \in 0..MaxCredit, ResolveReturn(r, credit)
        PROVE  GoodsInv'
    <2>1. /\ ret[r].status = "returned"
          /\ ret' = [ret EXCEPT ![r] = [ret[r] EXCEPT !.status = "resolved", !.credit = credit]]
          /\ UNCHANGED <<vars, orderBookVars, goodsVars, handVars>>
      BY <1>6, Zenon DEF ResolveReturn
    <2>2. ret[r] \in ReturnRows
      BY <1>0, <2>1 DEF ReturnTable, NoReturn
    <2>3. PICK row : row = [ret[r] EXCEPT !.status = "resolved", !.credit = credit]
      OBVIOUS
    <2>4. row = [status |-> "resolved", lot |-> ret[r].lot, q |-> ret[r].q,
                 connected |-> ret[r].connected, credit |-> credit]
      BY <2>2, <2>3 DEF ReturnRows
    <2>5. row.status = "resolved" /\ row.lot = ret[r].lot /\ row.q = ret[r].q /\ Gone(ret, r)
      BY <2>1, <2>4 DEF Gone
    <2>6. ret' = [ret EXCEPT ![r] = row]
      BY <2>1, <2>3, Zenon
    <2> QED BY <1>1, <2>1, <2>5, <2>6
  <1> QED BY <1>2, <1>3, <1>4, <1>5, <1>6

LEMMA BookTraced ==
  ASSUME GoodsInv, ret \in ReturnTable, OrderBookStep
  PROVE  GoodsInv'
  <1>1. ASSUME NEW n \in PoItems, NEW packs \in 0..MostPacks, ReceivePacks(n, packs)
        PROVE  GoodsInv'
    <2>1. packs \in Nat
      OBVIOUS
    <2> QED BY <1>1, <2>1, ReceiveTraced
  <1>2. ASSUME UNCHANGED <<vars, received, returnVars, goodsVars, handVars>>
        PROVE  GoodsInv'
    BY <1>2, GoodsStay DEF vars, shelfVars, bookVars, yardVars, returnVars
  <1>3. \/ \E n \in PoItems : \E packs \in 0..MostPacks : ReceivePacks(n, packs)
        \/ UNCHANGED <<vars, received, returnVars, goodsVars, handVars>>
    BY DEF OrderBookStep, CreatePurchaseOrder, RejectOrder, ConfirmOrder, ReportProgress,
           ProposeBackorder, AnswerBackorder, FulfilBackorder
  <1> QED BY <1>1, <1>2, <1>3

LEMMA InitTraced == TradeInit => GoodsInv
  <1> SUFFICES ASSUME TradeInit PROVE GoodsInv
    OBVIOUS
  <1> USE DEF TradeInit, Init, InitTrade
  <1>1. GoodsTypes
    <2>1. ShelfTypes
      BY OrderStockAssumption DEF ShelfTypes
    <2>2. /\ source \in [Lots -> SourceRows] /\ lotIn \in [Lots -> Nat]
          /\ lotState \in [Lots -> LotStates \cup {"returned"}]
      BY DEF Nowhere, From, SourceRows, LotStates
    <2> QED BY <2>1, <2>2 DEF GoodsTypes
  <1>2. FreshLots
    <2> SUFFICES ASSUME NEW l \in Lots, lotState[l] = "unreceived"
                 PROVE  lotQty[l] = 0 /\ lotIn[l] = 0 /\ source[l] = Nowhere
      BY DEF FreshLots
    <2>1. l \notin OpeningLots
      OBVIOUS
    <2> QED BY <2>1
  <1>3. ret \in ReturnTable
    BY DEF ReturnTable
  <1>4. \A l \in Lots : Repacks(source, l) = 0
    <2> TAKE l \in Lots
    <2>1. {m \in Lots : source[m].kind = "repack" /\ source[m].of = l} = {}
      BY DEF Nowhere, From
    <2> DEFINE f == [m \in Lots |-> source[m].input]
    <2>2. Repacks(source, l) = Total(f, {})
      BY <2>1, Zenon DEF Repacks
    <2> QED BY <2>2, TotalEmpty
  <1>5. \A l \in Lots : Sent(ret, l) = 0
    <2> TAKE l \in Lots
    <2>1. {r \in Returns : Gone(ret, r) /\ ret[r].lot = l} = {}
      BY DEF Gone, NoReturn
    <2> DEFINE f == [r \in Returns |-> ret[r].q]
    <2>2. Sent(ret, l) = Total(f, {})
      BY <2>1, Zenon DEF Sent
    <2> QED BY <2>2, TotalEmpty
  <1>6. ASSUME NEW i \in Items PROVE Out(source, ret, i) = 0
    <2> DEFINE f == [l \in Lots |-> Repacks(source, l) + Sent(ret, l)]
               S == LotsOf(i)
    <2>0. IsFiniteSet(S) /\ S \subseteq Lots
      BY PlanningAssumption, FS_Subset DEF LotsOf
    <2>1. \A l \in S : f[l] = 0
      <3> TAKE l \in S
      <3>1. Repacks(source, l) = 0 /\ Sent(ret, l) = 0 /\ l \in Lots
        BY <1>4, <1>5, <2>0
      <3> QED BY <3>1
    <2>2. Out(source, ret, i) = Total(f, S)
      BY DEF Out
    <2> HIDE DEF f, S
    <2> QED BY <2>0, <2>1, <2>2, TotalZero
  <1>7. ASSUME NEW i \in Items PROVE LinesIn(received, i) = 0
    <2> DEFINE f == [n \in PoItems |-> received[n] * UnitsPerPack[n]]
               S == {n \in PoItems : StockItem[n] = i}
    <2>1. IsFiniteSet(S)
      BY ProcurementAssumption, FS_Subset
    <2>2. \A n \in S : f[n] = 0
      <3> TAKE n \in S
      <3>1. UnitsPerPack[n] \in Nat /\ received[n] = 0
        BY ProcurementAssumption
      <3> QED BY <3>1
    <2>3. LinesIn(received, i) = Total(f, S)
      BY DEF LinesIn
    <2> HIDE DEF f, S
    <2> QED BY <2>1, <2>2, <2>3, TotalZero
  <1>8. ASSUME NEW i \in Items PROVE LotsIn(lotIn, source, i) = 0
    <2>1. {l \in LotsOf(i) : source[l].kind \in {"hand", "repack"}} = {}
      BY DEF Nowhere, From, LotsOf
    <2>2. LotsIn(lotIn, source, i) = Total(lotIn, {})
      BY <2>1, Zenon DEF LotsIn
    <2> QED BY <2>2, TotalEmpty
  <1>9. Traces(onHand, overwritten, booked, received, lotIn, source, ret, lotQty, lotBooked)
    <2>1. ASSUME NEW i \in Items
          PROVE  onHand[i] + overwritten[i] =
                   booked[i] + (LinesIn(received, i) + LotsIn(lotIn, source, i)) - Out(source, ret, i)
      <3>1. onHand[i] = booked[i] /\ onHand[i] \in Int /\ overwritten[i] = 0
        BY OrderStockAssumption
      <3> QED BY <1>6, <1>7, <1>8, <3>1
    <2>2. ASSUME NEW l \in Lots
          PROVE  lotQty[l] = lotBooked[l] + lotIn[l] - Repacks(source, l) - Sent(ret, l)
      <3>1. lotQty[l] = lotBooked[l] /\ lotQty[l] \in Int /\ lotIn[l] = 0
        BY OrderStockAssumption
      <3> QED BY <1>4, <1>5, <3>1
    <2> QED BY <2>1, <2>2 DEF Traces
  <1>10. GoodsTraced
    BY <1>9, TracedNow
  <1> QED BY <1>1, <1>2, <1>10 DEF GoodsInv

LEMMA GoodsInvStep == RefusalInv /\ GoodsInv /\ [TradeNext]_allVars => GoodsInv'
  <1> SUFFICES ASSUME RefusalInv, GoodsInv, [TradeNext]_allVars PROVE GoodsInv'
    OBVIOUS
  <1>0. ReturnsInv /\ ret \in ReturnTable
    BY DEF RefusalInv, ReturnsInv, ReturnTable
  <1>1. CASE OrderBookStep
    BY <1>0, <1>1, BookTraced
  <1>2. CASE GoodsStep
    <2>1. ASSUME NEW k \in Lots, NEW l \in Lots, NEW input \in 1..MostUnits, NEW packed \in 1..input,
                 Repack(k, l, input, packed)
          PROVE  GoodsInv'
      <3>1. input \in Nat \ {0} /\ packed \in Nat
        OBVIOUS
      <3> QED BY <1>0, <2>1, <3>1, RepackTraced
    <2> QED BY <1>0, <1>2, <2>1, ReadTraced, ByHandTraced DEF GoodsStep
  <1>3. CASE ReturnStep
    BY <1>0, <1>3, ReturnsTraced DEF ReturnStep
  <1>4. CASE MoneyStep
    <2>1. UNCHANGED <<vars, orderBookVars, returnVars, goodsVars, handVars>>
      BY <1>4 DEF MoneyStep, RecordInvoice, PayOrder
    <2> QED BY <1>0, <2>1, GoodsStay
            DEF vars, shelfVars, bookVars, yardVars, orderBookVars, returnVars
  <1>5. CASE ShelfStep
    BY <1>0, <1>5, ShelfTraced
  <1>6. CASE UNCHANGED allVars
    BY <1>0, <1>6, GoodsStay
    DEF allVars, tradeVars, vars, shelfVars, bookVars, yardVars, orderBookVars, returnVars
  <1> QED BY <1>1, <1>2, <1>3, <1>4, <1>5, <1>6 DEF TradeNext

-----------------------------------------------------------------------------
(* The orders' and the money's columns.                                     *)
BookTypes ==
    /\ confirmed \in [PoItems -> Nat \cup {Unanswered}]
    /\ expected \in [PurchaseOrders -> Nat]
    /\ backorder \in [PoItems -> BackorderRows]

MoneyTypes ==
    /\ invoiced \in [PurchaseOrders -> Nat]
    /\ poPaid \in [PurchaseOrders -> Nat]
    /\ DOMAIN ledger \subseteq Nat
    /\ \A id \in DOMAIN ledger :
         ledger[id] \in [po : PurchaseOrders, amount : Nat \ {0}]

TradeInv == RefusalInv /\ GoodsInv /\ BookTypes /\ MoneyTypes

LEMMA ValueNat ==
  ASSUME NEW po, NEW packs, \A n \in ItemsOf(po) : packs[n] \in Nat
  PROVE  Value(packs, po) \in Nat
  <1> DEFINE f == [n \in PoItems |-> packs[n] * PackPrice[n]]
             S == ItemsOf(po)
  <1>1. IsFiniteSet(S)
    BY ProcurementAssumption, FS_Subset DEF ItemsOf
  <1>2. \A n \in S : f[n] \in Nat
    <2> TAKE n \in S
    <2>1. n \in PoItems /\ packs[n] \in Nat /\ PackPrice[n] \in Nat
      BY ProcurementAssumption DEF ItemsOf
    <2>2. packs[n] * PackPrice[n] \in Nat
      BY <2>1
    <2> QED BY <2>1, <2>2
  <1>3. Value(packs, po) = Total(f, S)
    BY DEF Value
  <1> HIDE DEF f, S
  <1> QED BY <1>1, <1>2, <1>3, TotalNat

LEMMA ConfirmTypes ==
  ASSUME BookTypes, NEW po \in PurchaseOrders, NEW answer \in Answers, ConfirmOrder(po, answer)
  PROVE  BookTypes'
  <1>1. answer \in [PoItems -> Nat \cup {Unanswered}]
    BY DEF Answers
  <1>2. confirmed' = [n \in PoItems |->
          IF answer[n] # Unanswered THEN answer[n]
          ELSE IF n \in ItemsOf(po) /\ confirmed[n] = Unanswered THEN Ordered[n]
          ELSE confirmed[n]]
    BY DEF ConfirmOrder
  <1>3. Ordered \in [PoItems -> Nat]
    BY ProcurementAssumption
  <1>4. confirmed' \in [PoItems -> Nat \cup {Unanswered}]
    BY <1>1, <1>2, <1>3 DEF BookTypes
  <1>5. \A n \in ItemsOf(po) : confirmed'[n] \in Nat
    BY <1>1, <1>2, <1>3 DEF BookTypes, ItemsOf
  <1>6. Value(confirmed', po) \in Nat
    BY <1>5, ValueNat
  <1>7. expected' \in [PurchaseOrders -> Nat]
    <2>1. expected' = [expected EXCEPT ![po] = Value(confirmed', po)]
      BY DEF ConfirmOrder
    <2> QED BY <1>6, <2>1 DEF BookTypes
  <1> QED BY <1>4, <1>7 DEF ConfirmOrder, BookTypes

LEMMA FulfilTypes ==
  ASSUME BookTypes, NEW n \in PoItems, FulfilBackorder(n)
  PROVE  BookTypes'
  <1>1. backorder[n] \in BackorderRows /\ backorder[n].packs \in Nat
    BY DEF BookTypes, BackorderRows
  <1> DEFINE before == IF confirmed[n] = Unanswered THEN 0 ELSE confirmed[n]
  <1>2. before \in Nat /\ before + backorder[n].packs \in Nat
    BY <1>1 DEF BookTypes
  <1>3. /\ confirmed' = [confirmed EXCEPT ![n] = before + backorder[n].packs]
        /\ backorder' = [backorder EXCEPT ![n].state = "fulfilled"]
        /\ expected' = expected
    BY DEF FulfilBackorder
  <1> HIDE DEF before
  <1>4. confirmed' \in [PoItems -> Nat \cup {Unanswered}]
    BY <1>2, <1>3 DEF BookTypes
  <1>5. backorder' \in [PoItems -> BackorderRows]
    BY <1>3 DEF BookTypes, BackorderRows
  <1> QED BY <1>3, <1>4, <1>5 DEF BookTypes

LEMMA BookTypesStep ==
  ASSUME BookTypes, OrderBookStep
  PROVE  BookTypes'
  <1>1. ASSUME NEW po \in PurchaseOrders, CreatePurchaseOrder(po) PROVE BookTypes'
    <2>1. \A n \in ItemsOf(po) : Ordered[n] \in Nat
      BY ProcurementAssumption DEF ItemsOf
    <2>2. Value(Ordered, po) \in Nat
      BY <2>1, ValueNat
    <2>3. /\ expected' = [expected EXCEPT ![po] = Value(Ordered, po)]
          /\ UNCHANGED <<confirmed, backorder>>
      BY <1>1 DEF CreatePurchaseOrder
    <2> QED BY <2>2, <2>3 DEF BookTypes
  <1>2. ASSUME NEW n \in PoItems, NEW packs \in 1..MostPacks, ProposeBackorder(n, packs)
        PROVE  BookTypes'
    <2>1. backorder' = [backorder EXCEPT ![n] = [state |-> "proposed", packs |-> packs]]
          /\ UNCHANGED <<confirmed, expected>>
      BY <1>2 DEF ProposeBackorder
    <2>2. [state |-> "proposed", packs |-> packs] \in BackorderRows
      BY DEF BackorderRows
    <2> QED BY <2>1, <2>2 DEF BookTypes
  <1>3. ASSUME NEW n \in PoItems, NEW accept \in BOOLEAN, AnswerBackorder(n, accept)
        PROVE  BookTypes'
    <2>1. backorder' = [backorder EXCEPT ![n].state =
             IF accept THEN "merchant_accepted" ELSE "merchant_declined"]
          /\ UNCHANGED <<confirmed, expected>>
      BY <1>3 DEF AnswerBackorder
    <2>2. backorder' \in [PoItems -> BackorderRows]
      BY <2>1 DEF BookTypes, BackorderRows
    <2> QED BY <2>1, <2>2 DEF BookTypes
  <1>4. ASSUME UNCHANGED <<confirmed, expected, backorder>> PROVE BookTypes'
    BY <1>4 DEF BookTypes
  <1>5. ASSUME NEW po \in PurchaseOrders,
               RejectOrder(po) \/ \E to \in ProgressStatuses : ReportProgress(po, to)
        PROVE  BookTypes'
    BY <1>4, <1>5 DEF RejectOrder, ReportProgress
  <1>6. ASSUME NEW n \in PoItems, NEW packs \in 0..MostPacks, ReceivePacks(n, packs)
        PROVE  BookTypes'
    BY <1>4, <1>6 DEF ReceivePacks
  <1> QED BY <1>1, <1>2, <1>3, <1>5, <1>6, ConfirmTypes, FulfilTypes DEF OrderBookStep

LEMMA MoneyTypesStep ==
  ASSUME MoneyTypes, MoneyStep
  PROVE  MoneyTypes'
  <1>1. ASSUME NEW po \in PurchaseOrders, NEW amount \in 1..MaxInvoice, RecordInvoice(po, amount)
        PROVE  MoneyTypes'
    BY <1>1 DEF RecordInvoice, MoneyTypes
  <1>2. ASSUME NEW po \in PurchaseOrders, NEW amount \in 1..Outstanding(po), PayOrder(po, amount)
        PROVE  MoneyTypes'
    <2> DEFINE id == po * EvidenceWidth + (poPaid[po] + amount)
    <2>0. amount \in Nat \ {0} /\ poPaid[po] \in Nat
      BY DEF MoneyTypes
    <2>1. id \in Nat
      <3>1. po \in Nat /\ EvidenceWidth \in Nat
        BY ProcurementAssumption
      <3>2. po * EvidenceWidth \in Nat
        BY <3>1
      <3> QED BY <2>0, <3>2
    <2>2. /\ poPaid' = [poPaid EXCEPT ![po] = @ + amount]
          /\ ledger' = [k \in DOMAIN ledger \cup {id} |->
               IF k = id THEN [po |-> po, amount |-> amount] ELSE ledger[k]]
          /\ invoiced' = invoiced
      BY <1>2 DEF PayOrder, EvidenceId
    <2> HIDE DEF id
    <2>3. DOMAIN ledger' \subseteq Nat
      BY <2>1, <2>2 DEF MoneyTypes
    <2>4. [po |-> po, amount |-> amount] \in [po : PurchaseOrders, amount : Nat \ {0}]
      BY <2>0
    <2>5. \A k \in DOMAIN ledger' : ledger'[k] \in [po : PurchaseOrders, amount : Nat \ {0}]
      BY <2>2, <2>4 DEF MoneyTypes
    <2>6. poPaid' \in [PurchaseOrders -> Nat]
      BY <2>0, <2>2 DEF MoneyTypes
    <2> QED BY <2>2, <2>3, <2>5, <2>6 DEF MoneyTypes
  <1> QED BY <1>1, <1>2 DEF MoneyStep

LEMMA InitTrading == TradeInit => TradeInv
  <1> SUFFICES ASSUME TradeInit PROVE TradeInv
    OBVIOUS
  <1>1. BookTypes
    BY DEF TradeInit, InitTrade, BookTypes, BackorderRows, NoBackorder
  <1>2. MoneyTypes
    BY DEF TradeInit, InitTrade, MoneyTypes
  <1> QED BY <1>1, <1>2, InitRefusals, InitTraced DEF TradeInv

(* Goods, returns and the shelf touch neither what was ordered nor the money. *)
LEMMA TradeInvStep == TradeInv /\ [TradeNext]_allVars => TradeInv'
  <1> SUFFICES ASSUME TradeInv, [TradeNext]_allVars PROVE TradeInv'
    OBVIOUS
  <1>0. RefusalInv' /\ GoodsInv'
    BY RefusalStep, GoodsInvStep DEF TradeInv
  <1>1. ASSUME UNCHANGED <<confirmed, expected, backorder>> PROVE BookTypes'
    BY <1>1 DEF BookTypes, TradeInv
  <1>2. ASSUME UNCHANGED moneyVars PROVE MoneyTypes'
    BY <1>2 DEF MoneyTypes, TradeInv, moneyVars
  <1>3. ASSUME OrderBookStep PROVE BookTypes' /\ MoneyTypes'
    <2>1. UNCHANGED moneyVars
      BY <1>3 DEF OrderBookStep, CreatePurchaseOrder, RejectOrder, ConfirmOrder, ReportProgress,
                  ProposeBackorder, AnswerBackorder, FulfilBackorder, ReceivePacks
    <2> QED BY <1>2, <1>3, <2>1, BookTypesStep DEF TradeInv
  <1>4. ASSUME MoneyStep PROVE BookTypes' /\ MoneyTypes'
    <2>1. UNCHANGED <<confirmed, expected, backorder>>
      BY <1>4 DEF MoneyStep, RecordInvoice, PayOrder, orderBookVars
    <2> QED BY <1>1, <1>4, <2>1, MoneyTypesStep DEF TradeInv
  <1>5. ASSUME GoodsStep \/ ShelfStep \/ UNCHANGED allVars PROVE BookTypes' /\ MoneyTypes'
    <2>1. UNCHANGED <<confirmed, expected, backorder, moneyVars>>
      BY <1>5 DEF GoodsStep, ShelfStep, ReadForReceiptByHand, ReceiveByHand, Repack, allVars,
                  tradeVars, orderBookVars
    <2> QED BY <1>1, <1>2, <2>1
  <1>6. ASSUME ReturnStep PROVE BookTypes' /\ MoneyTypes'
    <2>1. ASSUME NEW r \in Returns, NEW credit \in 0..MaxCredit, ResolveReturn(r, credit)
          PROVE  UNCHANGED <<orderBookVars, moneyVars>>
      BY <2>1, Zenon DEF ResolveReturn
    <2>2. UNCHANGED <<orderBookVars, moneyVars>>
      BY <1>6, <2>1, Zenon
      DEF ReturnStep, RequestReturn, AnswerReturn, BeginDispatch, FinishDispatch, FailDispatch
    <2> QED BY <1>1, <1>2, <2>2 DEF orderBookVars
  <1> QED BY <1>0, <1>3, <1>4, <1>5, <1>6 DEF TradeNext, TradeInv

(* No column of purchasing leaves its range: in particular no return, no    *)
(* repacking and no receipt by hand from a stale level takes a stock level  *)
(* or a lot below zero, whatever happens between its steps.                *)
THEOREM TradeTypesCorrect == TradeSpec => []TradeTypeOK
  <1>1. TradeInv => TradeTypeOK
    <2> SUFFICES ASSUME TradeInv PROVE TradeTypeOK
      OBVIOUS
    <2>1. OrderTables /\ ReturnsInv /\ GoodsTypes /\ BookTypes /\ MoneyTypes
      BY DEF TradeInv, RefusalInv, GoodsInv
    <2> QED BY <2>1 DEF OrderTables, ReturnsInv, GoodsTypes, ShelfTypes, BookTypes, MoneyTypes,
                        TradeTypeOK
  <1> QED BY <1>1, InitTrading, TradeInvStep, PTL DEF TradeSpec

(* Whatever is ordered, received, repacked and sent back, and in whatever   *)
(* order the calls interleave: every stock level and every lot is accounted *)
(* for by the tables, up to exactly what receipts by hand wrote over.      *)
THEOREM GoodsAreTraced == TradeSpec => []GoodsTraced
  <1>1. TradeInv => GoodsTraced
    BY DEF TradeInv, GoodsInv
  <1> QED BY <1>1, InitTrading, TradeInvStep, PTL DEF TradeSpec
=============================================================================
