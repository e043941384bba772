-------------------------- MODULE OrderStockProofs --------------------------
(* Theorems about OrderStock for every set of orders, items, lots, needs    *)
(* and shelf movements.                                                    *)
EXTENDS OrderStock, SumsProofs

(* What Next offers, one action per name.                                   *)
LEMMA NextCases ==
    ASSUME Next
    PROVE  \/ \E o \in Orders, t \in AllowedTerms : PlaceOrder(o, t)
           \/ \E o \in Orders : CheckIn(o)
           \/ \E o \in Orders, manual \in BOOLEAN : ConfirmPresence(o, manual)
           \/ \E o \in Orders : \E amount \in 1..OrderTotal[o] : RecordPayment(o, amount)
           \/ \E o \in Orders : StartPreparation(o)
           \/ \E o \in Orders : MarkReady(o) \/ HandOff(o)
           \/ \E o \in Orders, allowCredit \in BOOLEAN : Complete(o, allowCredit)
           \/ \E o \in Orders : Cancel(o)
           \/ \E o \in Orders : LapseHold(o)
           \/ \E i \in Items : ItemStep(i)
           \/ \E l \in Lots : LotStep(l)
  BY DEF Next, OrderStep

-----------------------------------------------------------------------------
(* A reservation made by any handler stores amounts of the right kind.      *)
LEMMA ReserveType ==
    ASSUME TypeOK, NEW o \in Orders, Reserve(o)
    PROVE  /\ hold' \in [Orders -> {"none", "reserved", "released", "consumed"}]
           /\ heldLots' \in [Orders -> OrderTakes]
           /\ stock' = stock
  BY DEF TypeOK, Reserve

(* The part of the types that a movement of the shelf needs and keeps.  The *)
(* states a lot may have are left open: purchasing knows one more.          *)
ShelfTypes ==
    /\ onHand \in [Items -> Nat]
    /\ lotQty \in [Lots -> Nat]
    /\ withheld \in [Items -> 0..MaxWithheld]
    /\ booked \in [Items -> Int]
    /\ lotBooked \in [Lots -> Int]

LEMMA ShelfTyped == TypeOK => ShelfTypes
  BY DEF TypeOK, ShelfTypes

LEMMA TakeFromLotsType ==
    ASSUME ShelfTypes, NEW States, "depleted" \in States, lotState \in [Lots -> States],
           NEW take \in [Lots -> Nat], \A l \in Lots : take[l] <= lotQty[l],
           TakeFromLots(take)
    PROVE  /\ lotQty' \in [Lots -> Nat]
           /\ lotState' \in [Lots -> States]
  BY DEF ShelfTypes, TakeFromLots

LEMMA MoveItemType ==
    ASSUME ShelfTypes, NEW i \in Items, NEW level \in Nat, MoveItem(i, level)
    PROVE  onHand' \in [Items -> Nat] /\ booked' \in [Items -> Int]
  BY DEF ShelfTypes, MoveItem

LEMMA RemoveFromShelfType ==
    ASSUME ShelfTypes, NEW States, "depleted" \in States, lotState \in [Lots -> States],
           NEW i \in Items, NEW q \in Nat, q <= onHand[i],
           NEW take \in [Lots -> 0..q], \A l \in Lots : take[l] <= lotQty[l],
           RemoveFromShelf(i, q, take)
    PROVE  /\ onHand' \in [Items -> Nat]
           /\ lotQty' \in [Lots -> Nat]
           /\ lotState' \in [Lots -> States]
           /\ booked' \in [Items -> Int]
           /\ lotBooked' \in [Lots -> Int]
  <1>1. take \in [Lots -> Nat]
    OBVIOUS
  <1>2. lotQty' \in [Lots -> Nat] /\ lotState' \in [Lots -> States]
    BY <1>1, TakeFromLotsType DEF RemoveFromShelf
  <1>3. onHand' \in [Items -> Nat] /\ booked' \in [Items -> Int]
    <2>1. onHand[i] - q \in Nat
      BY DEF ShelfTypes
    <2> QED BY <2>1, MoveItemType DEF RemoveFromShelf
  <1>4. lotBooked' \in [Lots -> Int]
    BY DEF ShelfTypes, RemoveFromShelf
  <1> QED BY <1>2, <1>3, <1>4

(* A first-expired take never asks a lot for more than it has.              *)
LEMMA FefoWithinLots ==
    ASSUME ShelfTypes, NEW S \in SUBSET Lots, NEW needed, NEW take \in [Lots -> Nat],
           OnlyFrom(take, S), IsFefoTake(take, lotQty, S, needed)
    PROVE  \A l \in Lots : take[l] <= lotQty[l]
  BY DEF ShelfTypes, OnlyFrom, IsFefoTake

LEMMA InitType == Init => TypeOK
  BY OrderStockAssumption
  DEF Init, TypeOK, Statuses, NoTerms, NoLots, OrderTakes, LotStates

LEMMA StartType ==
    ASSUME TypeOK, NEW o \in Orders, StartPreparation(o)
    PROVE  TypeOK'
  <1>1. PICK take \in OrderTakes :
          /\ MayConsume(o, take)
          /\ heldLots' = [heldLots EXCEPT ![o] = take]
          /\ TakeFromLots(take)
    BY DEF StartPreparation
  <1>2. take \in [Lots -> Nat] /\ \A l \in Lots : take[l] <= lotQty[l]
    BY <1>1, OrderStockAssumption DEF OrderTakes, MayConsume, LotsStillThere, TypeOK
  <1>3. lotQty' \in [Lots -> Nat] /\ lotState' \in [Lots -> LotStates]
    <2>1. lotState \in [Lots -> LotStates] /\ "depleted" \in LotStates
      BY DEF TypeOK, LotStates
    <2> QED BY <1>1, <1>2, <2>1, ShelfTyped, TakeFromLotsType
  <1>4. onHand' \in [Items -> Nat]
    <2>1. onHand' = [i \in Items |-> onHand[i] - Need[o][i]]
      BY DEF StartPreparation
    <2>2. ASSUME NEW i \in Items PROVE onHand[i] - Need[o][i] \in Nat
      <3>1. onHand[i] \in Nat /\ Need[o][i] \in 0..MaxNeed /\ MaxNeed \in Nat
        BY OrderStockAssumption DEF TypeOK
      <3>2. Need[o][i] <= onHand[i]
        BY <1>1 DEF MayConsume
      <3> QED BY <3>1, <3>2
    <2> QED BY <2>1, <2>2
  <1>5. heldLots' \in [Orders -> OrderTakes]
    BY <1>1 DEF TypeOK
  <1> QED
    BY <1>3, <1>4, <1>5 DEF StartPreparation, TypeOK, Statuses, bookVars, yardVars

LEMMA CancelType ==
    ASSUME TypeOK, NEW o \in Orders, Cancel(o)
    PROVE  TypeOK'
  <1>1. NoLots \in OrderTakes
    BY OrderStockAssumption DEF NoLots, OrderTakes
  <1>2. heldLots' \in [Orders -> OrderTakes] /\ status' \in [Orders -> Statuses]
    BY <1>1 DEF Cancel, TypeOK, Statuses
  <1>3. hold' \in [Orders -> {"none", "reserved", "released", "consumed"}]
    BY DEF Cancel, ReleaseHold, TypeOK
  <1>4. /\ stock' \in [Orders -> {"untouched", "consumed", "reversed"}]
        /\ onHand' \in [Items -> Nat]
        /\ lotQty' \in [Lots -> Nat]
        /\ lotState' \in [Lots -> LotStates]
    <2>1. CASE stock[o] = "consumed"
      <3>1. heldLots[o] \in [Lots -> 0..MaxNeed] /\ Need[o] \in [Items -> 0..MaxNeed]
        BY OrderStockAssumption DEF TypeOK, OrderTakes
      <3>2. ReturnStock(o)
        BY <2>1 DEF Cancel
      <3> QED BY <3>1, <3>2, OrderStockAssumption DEF ReturnStock, TypeOK, LotStates
    <2>2. CASE stock[o] # "consumed"
      BY <2>2 DEF Cancel, TypeOK, shelfVars
    <2> QED BY <2>1, <2>2
  <1> QED
    BY <1>2, <1>3, <1>4 DEF Cancel, TypeOK, bookVars, yardVars

(* What a shelf movement is, whatever its reason: it takes stock that is    *)
(* there, sets a level, or changes what is withheld.                        *)
LEMMA ItemStepMoves ==
    ASSUME ShelfTypes, NEW i \in Items, ItemStep(i)
    PROVE  \/ \E q \in Nat : \E take \in [Lots -> 0..q] :
                /\ q <= onHand[i] /\ \A l \in Lots : take[l] <= lotQty[l]
                /\ RemoveFromShelf(i, q, take)
                /\ UNCHANGED <<orderVars, holdVars, yardVars>>
           \/ \E level \in Nat :
                /\ MoveItem(i, level)
                /\ UNCHANGED <<lotQty, lotState, lotBooked, orderVars, holdVars, yardVars>>
           \/ /\ withheld' \in [Items -> 0..MaxWithheld]
              /\ UNCHANGED <<orderVars, holdVars, shelfVars, bookVars, expired, recalled>>
  <1> DEFINE removes(q, take) ==
                /\ q <= onHand[i] /\ \A l \in Lots : take[l] <= lotQty[l]
                /\ RemoveFromShelf(i, q, take)
                /\ UNCHANGED <<orderVars, holdVars, yardVars>>
  <1>1. ASSUME NEW q \in 1..MaxCount, NEW onlyExpired \in BOOLEAN, RecordLoss(i, q, onlyExpired)
        PROVE  \E n \in Nat : \E take \in [Lots -> 0..n] : removes(n, take)
    <2> DEFINE candidates == IF onlyExpired THEN LotsOf(i) \cap expired ELSE LotsOf(i)
    <2>1. q \in Nat /\ q <= onHand[i]
      BY <1>1, OrderStockAssumption DEF RecordLoss
    <2>2. PICK take \in [Lots -> 0..q] :
            /\ IsLossTake(take, onHand[i], lotQty, i, candidates, q)
            /\ RemoveFromShelf(i, q, take)
      BY <1>1 DEF RecordLoss
    <2>3. \A l \in Lots : take[l] <= lotQty[l]
      <3>1. take \in [Lots -> Nat] /\ candidates \in SUBSET Lots
        BY <2>1, <2>2 DEF LotsOf
      <3>2. OnlyFrom(take, candidates) /\ IsFefoTake(take, lotQty, candidates, q)
        BY <2>2 DEF IsLossTake
      <3> HIDE DEF candidates
      <3> QED BY <3>1, <3>2, FefoWithinLots
    <2>4. removes(q, take)
      BY <1>1, <2>1, <2>2, <2>3 DEF RecordLoss
    <2> HIDE DEF removes
    <2> QED BY <2>1, <2>2, <2>4
  <1>2. ASSUME NEW counted \in 0..MaxCount, RecordCount(i, counted), counted < onHand[i]
        PROVE  \E n \in Nat : \E take \in [Lots -> 0..n] : removes(n, take)
    <2> DEFINE q == onHand[i] - counted
    <2>1. q \in Nat /\ q <= onHand[i]
      BY <1>2, OrderStockAssumption DEF ShelfTypes
    <2>2. PICK take \in [Lots -> 0..q] :
            /\ IsCountTake(take, onHand[i], lotQty, i, q)
            /\ RemoveFromShelf(i, q, take)
      BY <1>2 DEF RecordCount
    <2> DEFINE fromLots == AtLeastZero(q - Loose(onHand[i], lotQty, i))
    <2>3. \A l \in Lots : take[l] <= lotQty[l]
      <3>1. take \in [Lots -> Nat] /\ LotsOf(i) \in SUBSET Lots
        BY <2>1, <2>2 DEF LotsOf
      <3>2. OnlyFrom(take, LotsOf(i)) /\ IsFefoTake(take, lotQty, LotsOf(i), fromLots)
        BY <2>2 DEF IsCountTake
      <3> HIDE DEF fromLots
      <3> QED BY <3>1, <3>2, FefoWithinLots
    <2> HIDE DEF q
    <2>4. removes(q, take)
      BY <1>2, <2>1, <2>2, <2>3 DEF RecordCount
    <2> HIDE DEF removes
    <2> QED BY <2>1, <2>2, <2>4
  <1>3. ASSUME NEW q \in 1..MaxCount, SellAtCounter(i, q)
        PROVE  \E n \in Nat : \E take \in [Lots -> 0..n] : removes(n, take)
    <2> DEFINE usable == LotsOf(i) \cap UsableLots
    <2>1. q \in Nat /\ q <= onHand[i]
      BY <1>3, OrderStockAssumption DEF SellAtCounter, FefoCovers
    <2>2. PICK take \in [Lots -> 0..q] :
            /\ OnlyFrom(take, usable)
            /\ IsFefoTake(take, lotQty, usable, q)
            /\ RemoveFromShelf(i, q, take)
      BY <1>3 DEF SellAtCounter
    <2>3. \A l \in Lots : take[l] <= lotQty[l]
      <3>1. take \in [Lots -> Nat] /\ usable \in SUBSET Lots
        BY <2>1, <2>2 DEF LotsOf
      <3> HIDE DEF usable
      <3> QED BY <2>2, <3>1, FefoWithinLots
    <2>4. removes(q, take)
      BY <1>3, <2>1, <2>2, <2>3 DEF SellAtCounter
    <2> HIDE DEF removes
    <2> QED BY <2>1, <2>2, <2>4
  <1>4. ASSUME NEW counted \in 0..MaxCount, RecordCount(i, counted), ~(counted < onHand[i])
        PROVE  /\ counted \in Nat /\ MoveItem(i, counted)
               /\ UNCHANGED <<lotQty, lotState, lotBooked, orderVars, holdVars, yardVars>>
    BY <1>4, OrderStockAssumption DEF RecordCount
  <1>5. ASSUME NEW q \in 1..MaxWithheld, Withhold(i, q) \/ PutBack(i, q)
        PROVE  /\ withheld' \in [Items -> 0..MaxWithheld]
               /\ UNCHANGED <<orderVars, holdVars, shelfVars, bookVars, expired, recalled>>
    <2>1. withheld[i] \in 0..MaxWithheld /\ q \in 1..MaxWithheld /\ MaxWithheld \in Nat
      BY OrderStockAssumption DEF ShelfTypes
    <2> QED BY <1>5, <2>1 DEF Withhold, PutBack, ShelfTypes
  <1>6. ASSUME NEW level \in MarketLevels, SetMarketStock(i, level)
        PROVE  /\ level \in Nat /\ MoveItem(i, level)
               /\ UNCHANGED <<lotQty, lotState, lotBooked, orderVars, holdVars, yardVars>>
    BY <1>6, OrderStockAssumption DEF SetMarketStock
  <1>7. CASE \E q \in 1..MaxCount, onlyExpired \in BOOLEAN : RecordLoss(i, q, onlyExpired)
    BY <1>1, <1>7
  <1>8. CASE \E counted \in 0..MaxCount : RecordCount(i, counted)
    BY <1>2, <1>4, <1>8
  <1>9. CASE \E q \in 1..MaxCount : SellAtCounter(i, q)
    BY <1>3, <1>9
  <1>10. CASE \E q \in 1..MaxWithheld : Withhold(i, q) \/ PutBack(i, q)
    BY <1>5, <1>10
  <1>11. CASE \E level \in MarketLevels : SetMarketStock(i, level)
    BY <1>6, <1>11
  <1> QED BY <1>7, <1>8, <1>9, <1>10, <1>11 DEF ItemStep

LEMMA ItemStepType ==
    ASSUME TypeOK, NEW i \in Items, ItemStep(i)
    PROVE  TypeOK'
  <1>1. ASSUME NEW q \in Nat, NEW take \in [Lots -> 0..q],
               q <= onHand[i], \A l \in Lots : take[l] <= lotQty[l],
               RemoveFromShelf(i, q, take), UNCHANGED <<orderVars, holdVars, yardVars>>
        PROVE  TypeOK'
    <2>1. lotState \in [Lots -> LotStates] /\ "depleted" \in LotStates
      BY DEF TypeOK, LotStates
    <2>2. /\ onHand' \in [Items -> Nat] /\ lotQty' \in [Lots -> Nat]
          /\ lotState' \in [Lots -> LotStates]
          /\ booked' \in [Items -> Int] /\ lotBooked' \in [Lots -> Int]
      BY <1>1, <2>1, ShelfTyped, RemoveFromShelfType
    <2> QED BY <1>1, <2>2 DEF TypeOK, orderVars, holdVars, yardVars
  <1>2. ASSUME NEW level \in Nat, MoveItem(i, level),
               UNCHANGED <<lotQty, lotState, lotBooked, orderVars, holdVars, yardVars>>
        PROVE  TypeOK'
    BY <1>2, ShelfTyped, MoveItemType DEF TypeOK, orderVars, holdVars, yardVars
  <1>3. ASSUME withheld' \in [Items -> 0..MaxWithheld],
               UNCHANGED <<orderVars, holdVars, shelfVars, bookVars, expired, recalled>>
        PROVE  TypeOK'
    BY <1>3 DEF TypeOK, orderVars, holdVars, shelfVars, bookVars
  <1> QED BY <1>1, <1>2, <1>3, ShelfTyped, ItemStepMoves

LEMMA LotStepType ==
    ASSUME TypeOK, NEW l \in Lots, LotStep(l)
    PROVE  TypeOK'
  <1>0. LotItem[l] \in Items
    BY PlanningAssumption
  <1>1. ASSUME NEW q \in 1..MaxCount, NEW onlyExpired \in BOOLEAN, RecordLotLoss(l, q, onlyExpired)
        PROVE  TypeOK'
    <2>1. q \in Nat /\ q <= onHand[LotItem[l]]
      BY <1>1, OrderStockAssumption DEF RecordLotLoss
    <2>2. PICK take \in [Lots -> 0..q] :
            /\ IsLotTake(take, lotQty, l, q)
            /\ RemoveFromShelf(LotItem[l], q, take)
      BY <1>1 DEF RecordLotLoss
    <2>3. \A k \in Lots : take[k] <= lotQty[k]
      BY <2>2 DEF IsLotTake, TypeOK
    <2>4. lotState \in [Lots -> LotStates] /\ "depleted" \in LotStates
      BY DEF TypeOK, LotStates
    <2>5. /\ onHand' \in [Items -> Nat] /\ lotQty' \in [Lots -> Nat]
          /\ lotState' \in [Lots -> LotStates]
          /\ booked' \in [Items -> Int] /\ lotBooked' \in [Lots -> Int]
      BY <1>0, <2>1, <2>2, <2>3, <2>4, ShelfTyped, RemoveFromShelfType
    <2> QED BY <1>1, <2>5 DEF RecordLotLoss, TypeOK, orderVars, holdVars, yardVars
  <1>2. ASSUME ReceiveLot(l) PROVE TypeOK'
    <2>1. LotSize[l] \in Nat /\ onHand[LotItem[l]] + LotSize[l] \in Nat
      BY <1>0, OrderStockAssumption DEF TypeOK
    <2>2. onHand' \in [Items -> Nat] /\ booked' \in [Items -> Int]
      BY <1>0, <1>2, <2>1, ShelfTyped, MoveItemType DEF ReceiveLot
    <2> QED
      BY <1>2, <2>1, <2>2 DEF ReceiveLot, TypeOK, LotStates, orderVars, holdVars, yardVars
  <1>3. ASSUME RecallLot(l) PROVE TypeOK'
    BY <1>3 DEF RecallLot, TypeOK, LotStates, orderVars, holdVars, bookVars
  <1>4. ASSUME LotExpires(l) PROVE TypeOK'
    BY <1>4 DEF LotExpires, TypeOK, orderVars, holdVars, shelfVars, bookVars
  <1> QED BY <1>1, <1>2, <1>3, <1>4 DEF LotStep

(* Every handler keeps every column in its range.                           *)
LEMMA StepType ==
    ASSUME TypeOK, [Next]_vars
    PROVE  TypeOK'
  <1>1. ASSUME NEW o \in Orders, NEW t \in AllowedTerms, PlaceOrder(o, t) PROVE TypeOK'
    <2>1. t \in Terms
      BY OrderStockAssumption
    <2> QED
      BY <1>1, <2>1, ReserveType
      DEF PlaceOrder, FirstStatus, TypeOK, Statuses, shelfVars, bookVars, yardVars
  <1>2. ASSUME NEW o \in Orders, CheckIn(o) PROVE TypeOK'
    BY <1>2 DEF CheckIn, TypeOK, holdVars, shelfVars, bookVars, yardVars
  <1>3. ASSUME NEW o \in Orders, NEW manual \in BOOLEAN, ConfirmPresence(o, manual) PROVE TypeOK'
    BY <1>3, ReserveType
    DEF ConfirmPresence, TypeOK, Statuses, shelfVars, bookVars, yardVars
  <1>4. ASSUME NEW o \in Orders, NEW amount \in 1..OrderTotal[o], RecordPayment(o, amount)
        PROVE  TypeOK'
    <2>1. paid' \in [Orders -> Nat]
      BY <1>4, OrderStockAssumption DEF RecordPayment, TypeOK
    <2>2. status' \in [Orders -> Statuses]
      BY <1>4 DEF RecordPayment, TypeOK, Statuses
    <2>3. /\ hold' \in [Orders -> {"none", "reserved", "released", "consumed"}]
          /\ heldLots' \in [Orders -> OrderTakes]
          /\ stock' = stock
      BY <1>4, ReserveType DEF RecordPayment, TypeOK, holdVars
    <2> QED
      BY <1>4, <2>1, <2>2, <2>3 DEF RecordPayment, TypeOK, shelfVars, bookVars, yardVars
  <1>5. ASSUME NEW o \in Orders, MarkReady(o) \/ HandOff(o) PROVE TypeOK'
    BY <1>5 DEF MarkReady, HandOff, TypeOK, Statuses, holdVars, shelfVars, bookVars, yardVars
  <1>6. ASSUME NEW o \in Orders, NEW allowCredit \in BOOLEAN, Complete(o, allowCredit) PROVE TypeOK'
    BY <1>6 DEF Complete, TypeOK, Statuses, holdVars, shelfVars, bookVars, yardVars
  <1>7. ASSUME NEW o \in Orders, LapseHold(o) PROVE TypeOK'
    <2>1. NoLots \in OrderTakes
      BY OrderStockAssumption DEF NoLots, OrderTakes
    <2> QED
      BY <1>7, <2>1 DEF LapseHold, TypeOK, orderVars, shelfVars, bookVars, yardVars
  <1>8. CASE UNCHANGED vars
    BY <1>8 DEF TypeOK, vars, orderVars, holdVars, shelfVars, bookVars, yardVars
  <1> QED
    BY <1>1, <1>2, <1>3, <1>4, <1>5, <1>6, <1>7, <1>8,
       StartType, CancelType, ItemStepType, LotStepType, NextCases

(* No column of an order, a reservation, an inventory row or a lot ever     *)
(* leaves its range; in particular neither the aggregate stock nor any lot  *)
(* becomes negative, in whatever order customers, the counter, receipts,    *)
(* recalls and stock counts reach the shelf.                               *)
THEOREM TypeCorrect == Spec => []TypeOK
  <1>1. Init => TypeOK
    BY InitType
  <1>2. TypeOK /\ [Next]_vars => TypeOK'
    BY StepType
  <1> QED BY <1>1, <1>2, PTL DEF Spec

-----------------------------------------------------------------------------
(* Movements of the shelf leave every order and every reservation alone.    *)
LEMMA ShelfStepsLeaveOrders ==
    ASSUME \/ \E i \in Items : ItemStep(i)
           \/ \E l \in Lots : LotStep(l)
    PROVE  UNCHANGED <<orderVars, holdVars>>
  <1>1. ASSUME NEW i \in Items, ItemStep(i) PROVE UNCHANGED <<orderVars, holdVars>>
    BY <1>1 DEF ItemStep, RecordLoss, RecordCount, SellAtCounter, Withhold, PutBack,
                SetMarketStock
  <1>2. ASSUME NEW l \in Lots, LotStep(l) PROVE UNCHANGED <<orderVars, holdVars>>
    BY <1>2 DEF LotStep, RecordLotLoss, ReceiveLot, RecallLot, LotExpires
  <1> QED BY <1>1, <1>2

FollowInv == TypeOK /\ StockFollowsStatus

LEMMA InitFollows == Init => StockFollowsStatus
  BY DEF Init, StockFollowsStatus, OrderFollowsStatus, Unstarted, Underway

LEMMA StepFollows ==
    ASSUME FollowInv, [Next]_vars
    PROVE  StockFollowsStatus'
  <1> USE DEF FollowInv
  <1>1. ASSUME NEW o \in Orders, NEW t \in AllowedTerms, PlaceOrder(o, t)
        PROVE  StockFollowsStatus'
    BY <1>1 DEF PlaceOrder, FirstStatus, Reserve, TypeOK,
                StockFollowsStatus, OrderFollowsStatus, Unstarted, Underway
  <1>2. ASSUME NEW o \in Orders, CheckIn(o) PROVE StockFollowsStatus'
    BY <1>2 DEF CheckIn, holdVars, StockFollowsStatus, OrderFollowsStatus
  <1>3. ASSUME NEW o \in Orders, NEW manual \in BOOLEAN, ConfirmPresence(o, manual)
        PROVE  StockFollowsStatus'
    BY <1>3 DEF ConfirmPresence, Reserve, TypeOK,
                StockFollowsStatus, OrderFollowsStatus, Unstarted, Underway
  <1>4. ASSUME NEW o \in Orders, NEW amount \in 1..OrderTotal[o], RecordPayment(o, amount)
        PROVE  StockFollowsStatus'
    <2>1. CASE paid[o] + amount = OrderTotal[o] /\ status[o] = "awaiting_payment"
      BY <1>4, <2>1 DEF RecordPayment, Reserve, TypeOK,
                        StockFollowsStatus, OrderFollowsStatus, Unstarted, Underway
    <2>2. CASE ~(paid[o] + amount = OrderTotal[o] /\ status[o] = "awaiting_payment")
      BY <1>4, <2>2 DEF RecordPayment, holdVars, StockFollowsStatus, OrderFollowsStatus
    <2> QED BY <2>1, <2>2
  <1>5. ASSUME NEW o \in Orders, StartPreparation(o) PROVE StockFollowsStatus'
    BY <1>5 DEF StartPreparation, TypeOK,
                StockFollowsStatus, OrderFollowsStatus, Unstarted, Underway
  <1>6. ASSUME NEW o \in Orders, MarkReady(o) \/ HandOff(o) PROVE StockFollowsStatus'
    BY <1>6 DEF MarkReady, HandOff, holdVars, TypeOK,
                StockFollowsStatus, OrderFollowsStatus, Unstarted, Underway
  <1>7. ASSUME NEW o \in Orders, NEW allowCredit \in BOOLEAN, Complete(o, allowCredit)
        PROVE  StockFollowsStatus'
    BY <1>7 DEF Complete, holdVars, TypeOK,
                StockFollowsStatus, OrderFollowsStatus, Unstarted, Underway
  <1>8. ASSUME NEW o \in Orders, Cancel(o) PROVE StockFollowsStatus'
    <2>1. CASE stock[o] = "consumed"
      BY <1>8, <2>1 DEF Cancel, ReleaseHold, ReturnStock, TypeOK, Statuses,
                        StockFollowsStatus, OrderFollowsStatus, Unstarted, Underway
    <2>2. CASE stock[o] # "consumed"
      BY <1>8, <2>2 DEF Cancel, ReleaseHold, TypeOK, Statuses,
                        StockFollowsStatus, OrderFollowsStatus, Unstarted, Underway
    <2> QED BY <2>1, <2>2
  <1>9. ASSUME NEW o \in Orders, LapseHold(o) PROVE StockFollowsStatus'
    BY <1>9 DEF LapseHold, orderVars, TypeOK, Statuses,
                StockFollowsStatus, OrderFollowsStatus, Unstarted, Underway
  <1>10. ASSUME UNCHANGED <<orderVars, holdVars>> PROVE StockFollowsStatus'
    BY <1>10 DEF orderVars, holdVars, StockFollowsStatus, OrderFollowsStatus
  <1>11. CASE UNCHANGED vars
    BY <1>10, <1>11 DEF vars
  <1> QED
    BY <1>1, <1>2, <1>3, <1>4, <1>5, <1>6, <1>7, <1>8, <1>9, <1>10, <1>11,
       NextCases, ShelfStepsLeaveOrders

(* Stock is held only by orders waiting to start, used exactly by orders    *)
(* that started, and returned by every order cancelled after its start:     *)
(* the reservation columns never contradict the order's status.             *)
THEOREM StockFollows == Spec => []StockFollowsStatus
  <1>1. Init => FollowInv
    BY InitType, InitFollows DEF FollowInv
  <1>2. FollowInv /\ [Next]_vars => FollowInv'
    BY StepType, StepFollows DEF FollowInv
  <1>3. FollowInv => StockFollowsStatus
    BY DEF FollowInv
  <1> QED BY <1>1, <1>2, <1>3, PTL DEF Spec

-----------------------------------------------------------------------------
GateInv == TypeOK /\ PreparationGated

LEMMA InitGated == Init => PreparationGated
  BY OrderStockAssumption DEF Init, PreparationGated, OrderGated, Underway

(* An order is gated by its own columns only.                               *)
LEMMA GatedFrame ==
    ASSUME NEW o \in Orders, OrderGated(o),
           status'[o] = status[o], terms'[o] = terms[o],
           presence'[o] = presence[o], paid'[o] = paid[o]
    PROVE  OrderGated(o)'
  BY DEF OrderGated

LEMMA StepGated ==
    ASSUME GateInv, [Next]_vars
    PROVE  PreparationGated'
  <1>0. \A p \in Orders : OrderGated(p)
    BY DEF GateInv, PreparationGated
  <1>1. ASSUME NEW o \in Orders, NEW t \in AllowedTerms, PlaceOrder(o, t)
        PROVE  PreparationGated'
    <2>1. t \in Terms
      BY OrderStockAssumption
    <2>2. OrderGated(o)'
      <3>1. /\ paid'[o] = paid[o] /\ paid[o] <= OrderTotal[o]
            /\ terms'[o] = t /\ status'[o] = FirstStatus(t)
            /\ presence'[o] = IF t.counter THEN "confirmed" ELSE "unknown"
            /\ ~(t.fulfil = "delivery" /\ t.pay = "cash")
        BY <1>0, <1>1 DEF PlaceOrder, GateInv, TypeOK, OrderGated
      <3> QED
        BY <2>1, <3>1 DEF OrderGated, FirstStatus, Underway, Terms
    <2>3. ASSUME NEW p \in Orders, p # o PROVE OrderGated(p)'
      BY <1>0, <1>1, <2>3, GatedFrame DEF PlaceOrder, GateInv, TypeOK
    <2> QED BY <2>2, <2>3 DEF PreparationGated
  <1>2. ASSUME NEW o \in Orders, CheckIn(o) PROVE PreparationGated'
    BY <1>0, <1>2 DEF CheckIn, GateInv, TypeOK, PreparationGated, OrderGated, Underway
  <1>3. ASSUME NEW o \in Orders, NEW manual \in BOOLEAN, ConfirmPresence(o, manual)
        PROVE  PreparationGated'
    BY <1>0, <1>3 DEF ConfirmPresence, GateInv, TypeOK, PreparationGated, OrderGated, Underway
  <1>4. ASSUME NEW o \in Orders, NEW amount \in 1..OrderTotal[o], RecordPayment(o, amount)
        PROVE  PreparationGated'
    <2>1. /\ OrderTotal[o] \in Nat /\ paid[o] \in Nat /\ amount \in Nat \ {0}
          /\ amount <= OrderTotal[o] - paid[o] /\ paid'[o] = paid[o] + amount
      <3>1. OrderTotal[o] \in Nat
        BY OrderStockAssumption
      <3>2. paid \in [Orders -> Nat]
        BY DEF GateInv, TypeOK
      <3>3. amount \in Nat \ {0}
        BY <1>4, <3>1
      <3>4. amount <= OrderTotal[o] - paid[o] /\ paid' = [paid EXCEPT ![o] = @ + amount]
        BY <1>4 DEF RecordPayment
      <3> QED BY <3>1, <3>2, <3>3, <3>4
    <2>2. OrderGated(o)'
      <3>1. CASE paid[o] + amount = OrderTotal[o] /\ status[o] = "awaiting_payment"
        <4>1. status'[o] = "accepted" /\ terms'[o] = terms[o]
          BY <1>4, <3>1 DEF RecordPayment, GateInv, TypeOK
        <4>2. terms[o].pay = "online"
          BY <1>0, <3>1 DEF OrderGated
        <4> QED BY <2>1, <3>1, <4>1, <4>2 DEF OrderGated
      <3>2. CASE ~(paid[o] + amount = OrderTotal[o] /\ status[o] = "awaiting_payment")
        <4>1. status'[o] = status[o] /\ terms'[o] = terms[o] /\ presence'[o] = presence[o]
          BY <1>4, <3>2 DEF RecordPayment
        <4>2. paid[o] # OrderTotal[o]
          BY <2>1
        <4> QED BY <1>0, <2>1, <4>1, <4>2 DEF OrderGated
      <3> QED BY <3>1, <3>2
    <2>3. ASSUME NEW p \in Orders, p # o PROVE OrderGated(p)'
      <3>1. /\ status'[p] = status[p] /\ paid'[p] = paid[p]
            /\ terms'[p] = terms[p] /\ presence'[p] = presence[p]
        BY <1>4, <2>3 DEF RecordPayment, GateInv, TypeOK
      <3> QED BY <1>0, <3>1, GatedFrame
    <2> QED BY <2>2, <2>3 DEF PreparationGated
  <1>5. ASSUME NEW o \in Orders, StartPreparation(o) PROVE PreparationGated'
    BY <1>0, <1>5 DEF StartPreparation, GateInv, TypeOK, PreparationGated, OrderGated, Underway
  <1>6. ASSUME NEW o \in Orders, MarkReady(o) \/ HandOff(o) PROVE PreparationGated'
    BY <1>0, <1>6 DEF MarkReady, HandOff, GateInv, TypeOK, PreparationGated, OrderGated, Underway
  <1>7. ASSUME NEW o \in Orders, NEW allowCredit \in BOOLEAN, Complete(o, allowCredit)
        PROVE  PreparationGated'
    BY <1>0, <1>7 DEF Complete, GateInv, TypeOK, PreparationGated, OrderGated, Underway
  <1>8. ASSUME NEW o \in Orders, Cancel(o) PROVE PreparationGated'
    BY <1>0, <1>8 DEF Cancel, GateInv, TypeOK, PreparationGated, OrderGated, Underway
  <1>9. ASSUME UNCHANGED orderVars PROVE PreparationGated'
    BY <1>0, <1>9, GatedFrame DEF orderVars, PreparationGated
  <1>10. ASSUME NEW o \in Orders, LapseHold(o) PROVE PreparationGated'
    BY <1>9, <1>10 DEF LapseHold
  <1>11. CASE UNCHANGED vars
    BY <1>9, <1>11 DEF vars
  <1> QED
    BY <1>1, <1>2, <1>3, <1>4, <1>5, <1>6, <1>7, <1>8, <1>9, <1>10, <1>11,
       NextCases, ShelfStepsLeaveOrders

(* Nothing is prepared before it is paid online in full or, for cash pickup,*)
(* before the customer was seen or is trusted; no order is overpaid.        *)
THEOREM GatesHold == Spec => []PreparationGated
  <1>1. Init => GateInv
    BY InitType, InitGated DEF GateInv
  <1>2. GateInv /\ [Next]_vars => GateInv'
    BY StepType, StepGated DEF GateInv
  <1>3. GateInv => PreparationGated
    BY DEF GateInv
  <1> QED BY <1>1, <1>2, <1>3, PTL DEF Spec

-----------------------------------------------------------------------------
(* Refinement: OrderStock implements StockPromise.                          *)

claims == [o \in Orders |-> Claim(o)]

(* A step that leaves an order's columns alone leaves its claim alone, so a *)
(* step of one order changes at most that order's entry.                    *)
LEMMA ClaimMoves ==
    ASSUME NEW o \in Orders, NEW c,
           Claim(o)' = c,
           \A p \in Orders \ {o} :
               status'[p] = status[p] /\ hold'[p] = hold[p] /\ stock'[p] = stock[p]
    PROVE  claims' = [claims EXCEPT ![o] = c]
  <1>1. \A p \in Orders \ {o} : Claim(p)' = Claim(p)
    BY DEF Claim
  <1> QED BY <1>1 DEF claims

LEMMA ClaimsStay ==
    ASSUME UNCHANGED <<status, hold, stock>>
    PROVE  claims' = claims
  BY DEF claims, Claim

LEMMA InitPromise == Init => Promise!Init
  BY OrderStockAssumption DEF Init, Promise!Init, Claim

(* Every handler is one promise of the abstract specification, or none.     *)
LEMMA StepPromise ==
    ASSUME FollowInv, TypeOK', [Next]_vars
    PROVE  [Promise!Next]_(Promise!vars)
  <1> DEFINE goal == [Promise!Next]_(Promise!vars)
  <1>0. /\ \A p \in Orders : OrderFollowsStatus(p)
        /\ status \in [Orders -> Statuses]
        /\ hold \in [Orders -> {"none", "reserved", "released", "consumed"}]
        /\ stock \in [Orders -> {"untouched", "consumed", "reversed"}]
    BY DEF FollowInv, StockFollowsStatus, TypeOK
  <1>a. ASSUME claims' = claims, onHand' = onHand PROVE goal
    BY <1>a DEF claims, Promise!vars
  <1>b. ASSUME NEW o \in Orders, Reserve(o), onHand' = onHand,
               status[o] \in {"none"} \cup Unstarted, status'[o] \in Unstarted,
               \A p \in Orders \ {o} : status'[p] = status[p]
        PROVE  goal
    <2>1. \A p \in Orders \ {o} : hold'[p] = hold[p] /\ stock'[p] = stock[p]
      BY <1>0, <1>b DEF Reserve
    <2>2. Claim(o)' = "held"
      BY <1>0, <1>b DEF Reserve, Claim, OrderFollowsStatus, Unstarted
    <2>3. claims' = [claims EXCEPT ![o] = "held"]
      BY <1>b, <2>1, <2>2, ClaimMoves
    <2>4. claims[o] \in {"none", "held"}
      BY <1>0, <1>b DEF claims, Claim, OrderFollowsStatus, Unstarted
    <2>5. CASE claims[o] = "none"
      <3>1. Promise!Hold(o)
        BY <1>b, <2>3, <2>5 DEF Promise!Hold, claims
      <3> QED BY <3>1 DEF Promise!Next
    <2>6. CASE claims[o] = "held"
      <3>1. claims' = claims
        BY <2>3, <2>6 DEF claims
      <3> QED BY <1>a, <1>b, <3>1
    <2> QED BY <2>4, <2>5, <2>6
  <1>1. ASSUME NEW o \in Orders, NEW t \in AllowedTerms, PlaceOrder(o, t) PROVE goal
    BY <1>0, <1>1, <1>b DEF PlaceOrder, FirstStatus, Unstarted, shelfVars
  <1>2. ASSUME UNCHANGED <<status, hold, stock, onHand>> PROVE goal
    BY <1>2, <1>a, ClaimsStay
  <1>3. ASSUME NEW o \in Orders, CheckIn(o) PROVE goal
    BY <1>2, <1>3 DEF CheckIn, holdVars, shelfVars
  <1>4. ASSUME NEW o \in Orders, NEW manual \in BOOLEAN, ConfirmPresence(o, manual) PROVE goal
    BY <1>0, <1>4, <1>b DEF ConfirmPresence, Unstarted, shelfVars
  <1>5. ASSUME NEW o \in Orders, NEW amount \in 1..OrderTotal[o], RecordPayment(o, amount)
        PROVE  goal
    <2>1. CASE paid[o] + amount = OrderTotal[o] /\ status[o] = "awaiting_payment"
      BY <1>0, <1>5, <2>1, <1>b DEF RecordPayment, Unstarted, shelfVars
    <2>2. CASE ~(paid[o] + amount = OrderTotal[o] /\ status[o] = "awaiting_payment")
      BY <1>2, <1>5, <2>2 DEF RecordPayment, holdVars, shelfVars
    <2> QED BY <2>1, <2>2
  <1>6. ASSUME NEW o \in Orders, StartPreparation(o) PROVE goal
    <2>1. claims[o] \in {"none", "held"}
      BY <1>0, <1>6 DEF StartPreparation, claims, Claim, OrderFollowsStatus, Unstarted
    <2>2. Claim(o)' = "taken"
      BY <1>0, <1>6 DEF StartPreparation, Claim
    <2>3. \A p \in Orders \ {o} :
             status'[p] = status[p] /\ hold'[p] = hold[p] /\ stock'[p] = stock[p]
      BY <1>0, <1>6 DEF StartPreparation
    <2>4. claims' = [claims EXCEPT ![o] = "taken"]
      BY <2>2, <2>3, ClaimMoves
    <2>5. /\ \A i \in Items : Need[o][i] <= onHand[i]
          /\ onHand' = [i \in Items |-> onHand[i] - Need[o][i]]
      BY <1>6 DEF StartPreparation, MayConsume
    <2>6. Promise!TakeStock(o)
      BY <2>1, <2>4, <2>5 DEF Promise!TakeStock, claims
    <2> QED BY <2>6 DEF Promise!Next
  <1>7. ASSUME NEW o \in Orders, UNCHANGED <<hold, stock, onHand>>,
               status[o] # "cancelled", status'[o] # "cancelled",
               \A p \in Orders \ {o} : status'[p] = status[p]
        PROVE  goal
    <2>1. claims' = claims
      BY <1>7 DEF claims, Claim
    <2> QED BY <1>7, <1>a, <2>1
  <1>8. ASSUME NEW o \in Orders, MarkReady(o) \/ HandOff(o) PROVE goal
    BY <1>0, <1>7, <1>8 DEF MarkReady, HandOff, holdVars, shelfVars
  <1>9. ASSUME NEW o \in Orders, NEW allowCredit \in BOOLEAN, Complete(o, allowCredit) PROVE goal
    BY <1>0, <1>7, <1>9 DEF Complete, holdVars, shelfVars
  <1>10. ASSUME NEW o \in Orders, Cancel(o) PROVE goal
    <2>0. \A p \in Orders \ {o} :
             status'[p] = status[p] /\ hold'[p] = hold[p] /\ stock'[p] = stock[p]
      <3>1. \A p \in Orders \ {o} : status'[p] = status[p] /\ hold'[p] = hold[p]
        BY <1>0, <1>10 DEF Cancel, ReleaseHold
      <3>2. \A p \in Orders \ {o} : stock'[p] = stock[p]
        BY <1>0, <1>10 DEF Cancel, ReturnStock
      <3> QED BY <3>1, <3>2
    <2>1. CASE stock[o] = "consumed"
      <3>1. ReturnStock(o)
        BY <1>10, <2>1 DEF Cancel
      <3>2. claims[o] = "taken" /\ Claim(o)' = "returned"
        BY <1>0, <2>1, <3>1 DEF ReturnStock, claims, Claim
      <3>3. claims' = [claims EXCEPT ![o] = "returned"]
        BY <2>0, <3>2, ClaimMoves
      <3>4. Promise!GiveBack(o)
        BY <3>1, <3>2, <3>3 DEF Promise!GiveBack, claims, ReturnStock
      <3> QED BY <3>4 DEF Promise!Next
    <2>2. CASE stock[o] # "consumed"
      <3>1. stock[o] = "untouched" /\ status[o] \in Unstarted
        BY <1>0, <1>10, <2>2 DEF Cancel, OrderFollowsStatus, Statuses, Unstarted, Underway
      <3>2. UNCHANGED <<stock, onHand>> /\ status'[o] = "cancelled"
        BY <1>0, <1>10, <2>2 DEF Cancel, shelfVars
      <3>3. claims[o] \in {"none", "held"} /\ Claim(o)' = "dropped"
        BY <3>1, <3>2 DEF claims, Claim, Unstarted
      <3>4. claims' = [claims EXCEPT ![o] = "dropped"]
        BY <2>0, <3>3, ClaimMoves
      <3>5. Promise!Drop(o)
        BY <3>2, <3>3, <3>4 DEF Promise!Drop, claims
      <3> QED BY <3>5 DEF Promise!Next
    <2> QED BY <2>1, <2>2
  <1>11. ASSUME NEW o \in Orders, LapseHold(o) PROVE goal
    <2>1. status[o] \in Unstarted /\ stock[o] = "untouched"
      BY <1>0, <1>11 DEF LapseHold, OrderFollowsStatus, Statuses, Unstarted, Underway
    <2>2. UNCHANGED <<status, stock, onHand>> /\ hold' = [hold EXCEPT ![o] = "released"]
      BY <1>11 DEF LapseHold, orderVars, shelfVars
    <2>3. claims[o] = "held" /\ Claim(o)' = "none"
      BY <1>0, <1>11, <2>1, <2>2 DEF LapseHold, claims, Claim, Unstarted
    <2>4. claims' = [claims EXCEPT ![o] = "none"]
      BY <1>0, <2>2, <2>3, ClaimMoves
    <2>5. Promise!Lapse(o)
      BY <2>2, <2>3, <2>4 DEF Promise!Lapse, claims
    <2> QED BY <2>5 DEF Promise!Next
  <1>12. ASSUME UNCHANGED <<orderVars, holdVars>> PROVE goal
    <2>1. claims' = claims
      BY <1>12, ClaimsStay DEF orderVars, holdVars
    <2>2. Promise!MoveShelf
      BY <2>1 DEF Promise!MoveShelf, claims, TypeOK
    <2> QED BY <2>2 DEF Promise!Next
  <1>13. CASE UNCHANGED vars
    BY <1>12, <1>13 DEF vars
  <1> QED
    BY <1>1, <1>3, <1>4, <1>5, <1>6, <1>8, <1>9, <1>10, <1>11, <1>12, <1>13,
       NextCases, ShelfStepsLeaveOrders

(* Whatever the code does with holds, lots, statuses and payments, an order *)
(* takes exactly its need at most once, only when it is there, and returns  *)
(* exactly that at most once.                                              *)
THEOREM OrdersKeepPromise == Spec => KeepsPromise
  <1>1. Init => FollowInv /\ Promise!Init
    BY InitType, InitFollows, InitPromise DEF FollowInv
  <1>2. FollowInv /\ [Next]_vars => FollowInv'
    BY StepType, StepFollows DEF FollowInv
  <1>3. FollowInv /\ FollowInv' /\ [Next]_vars => [Promise!Next]_(Promise!vars)
    BY StepPromise DEF FollowInv
  <1> QED BY <1>1, <1>2, <1>3, PTL DEF Spec, KeepsPromise, Promise!Spec

-----------------------------------------------------------------------------
(* The sums of ItemsConserved and LotsConserved, and what an order adds.    *)
Used(i) == Total([o \in Orders |-> Need[o][i]], Using)
UsedFrom(l) == Total([o \in Orders |-> heldLots[o][l]], Using)

(* A lot that has not been received has nothing to return to.               *)
UnreceivedEmpty ==
    \A l \in Lots : lotState[l] = "unreceived" => lotQty[l] = 0 /\ lotBooked[l] = 0

Conserved == ItemsConserved /\ LotsConserved /\ UnreceivedEmpty

ConservedInv == FollowInv /\ Conserved

LEMMA UsedNat ==
    ASSUME TypeOK
    PROVE  /\ IsFiniteSet(Using) /\ Using \subseteq Orders
           /\ \A o \in Orders, i \in Items : Need[o][i] \in Nat
           /\ \A o \in Orders, l \in Lots : heldLots[o][l] \in Nat
           /\ \A i \in Items : Used(i) \in Nat
           /\ \A l \in Lots : UsedFrom(l) \in Nat
  <1>1. IsFiniteSet(Using) /\ Using \subseteq Orders
    BY OrderStockAssumption, FS_Subset DEF Using
  <1>2. \A o \in Orders, i \in Items : Need[o][i] \in Nat
    BY OrderStockAssumption
  <1>3. \A o \in Orders, l \in Lots : heldLots[o][l] \in Nat
    BY OrderStockAssumption DEF TypeOK, OrderTakes
  <1>4. \A i \in Items : Used(i) \in Nat
    BY <1>1, <1>2, TotalNat DEF Used
  <1>5. \A l \in Lots : UsedFrom(l) \in Nat
    BY <1>1, <1>3, TotalNat DEF UsedFrom
  <1> QED BY <1>1, <1>2, <1>3, <1>4, <1>5

(* Steps that use and return nothing.                                       *)
LEMMA UsedStays ==
    ASSUME TypeOK, stock' = stock, \A o \in Using : heldLots'[o] = heldLots[o]
    PROVE  /\ \A i \in Items : Used(i)' = Used(i)
           /\ \A l \in Lots : UsedFrom(l)' = UsedFrom(l)
  <1>1. Using' = Using
    BY DEF Using
  <1>2. ASSUME NEW l \in Lots
        PROVE  Total([o \in Orders |-> heldLots'[o][l]], Using)
                  = Total([o \in Orders |-> heldLots[o][l]], Using)
    BY UsedNat, TotalSame
  <1> QED BY <1>1, <1>2 DEF Used, UsedFrom

LEMMA ConservedStays ==
    ASSUME ConservedInv, stock' = stock, \A o \in Using : heldLots'[o] = heldLots[o],
           UNCHANGED <<shelfVars, bookVars>>
    PROVE  Conserved'
  <1>1. /\ \A i \in Items : Used(i)' = Used(i)
        /\ \A l \in Lots : UsedFrom(l)' = UsedFrom(l)
    BY UsedStays DEF ConservedInv, FollowInv
  <1>2. UnreceivedEmpty'
    BY DEF ConservedInv, Conserved, UnreceivedEmpty, shelfVars, bookVars
  <1> QED
    BY <1>1, <1>2 DEF ConservedInv, Conserved, ItemsConserved, LotsConserved, Used, UsedFrom,
                      shelfVars, bookVars

(* Movements of the shelf leave evidence of the same amount.                *)
LEMMA MovementConserves ==
    ASSUME ConservedInv, TypeOK', UNCHANGED holdVars,
           \A i \in Items : onHand'[i] - onHand[i] = booked'[i] - booked[i],
           \A l \in Lots : lotQty'[l] - lotQty[l] = lotBooked'[l] - lotBooked[l],
           UnreceivedEmpty'
    PROVE  Conserved'
  <1>1. /\ \A i \in Items : Used(i)' = Used(i) /\ Used(i) \in Nat
        /\ \A l \in Lots : UsedFrom(l)' = UsedFrom(l) /\ UsedFrom(l) \in Nat
    BY UsedStays, UsedNat DEF ConservedInv, FollowInv, holdVars
  <1>2. ASSUME NEW i \in Items
        PROVE  onHand'[i] = booked'[i] - Used(i)'
    <2>1. onHand[i] = booked[i] - Used(i)
      BY DEF ConservedInv, Conserved, ItemsConserved, Used
    <2>2. onHand[i] \in Int /\ onHand'[i] \in Int /\ booked[i] \in Int /\ booked'[i] \in Int
      BY DEF ConservedInv, FollowInv, TypeOK
    <2> QED BY <1>1, <2>1, <2>2
  <1>3. ASSUME NEW l \in Lots
        PROVE  lotQty'[l] = lotBooked'[l] - UsedFrom(l)'
    <2>1. lotQty[l] = lotBooked[l] - UsedFrom(l)
      BY DEF ConservedInv, Conserved, LotsConserved, UsedFrom
    <2>2. lotQty[l] \in Int /\ lotQty'[l] \in Int /\ lotBooked[l] \in Int /\ lotBooked'[l] \in Int
      BY DEF ConservedInv, FollowInv, TypeOK
    <2> QED BY <1>1, <2>1, <2>2
  <1> QED
    BY <1>2, <1>3 DEF Conserved, ItemsConserved, LotsConserved, Used, UsedFrom

LEMMA RemovalConserves ==
    ASSUME ConservedInv, TypeOK', NEW i \in Items, NEW q \in Nat, NEW take \in [Lots -> 0..q],
           \A l \in Lots : take[l] <= lotQty[l],
           RemoveFromShelf(i, q, take), UNCHANGED holdVars
    PROVE  Conserved'
  <1> USE DEF ConservedInv, FollowInv
  <1>0. /\ onHand \in [Items -> Nat] /\ booked \in [Items -> Int]
        /\ lotQty \in [Lots -> Nat] /\ lotBooked \in [Lots -> Int] /\ lotState \in [Lots -> LotStates]
    BY DEF TypeOK
  <1>1. \A j \in Items : onHand'[j] - onHand[j] = booked'[j] - booked[j]
    BY <1>0 DEF RemoveFromShelf, MoveItem
  <1>2. \A l \in Lots : lotQty'[l] - lotQty[l] = lotBooked'[l] - lotBooked[l]
    BY <1>0 DEF RemoveFromShelf, TakeFromLots
  <1>3. ASSUME NEW l \in Lots, lotState'[l] = "unreceived"
        PROVE  lotQty'[l] = 0 /\ lotBooked'[l] = 0
    <2>1. lotState[l] = "unreceived"
      BY <1>3 DEF RemoveFromShelf, TakeFromLots
    <2>2. lotQty[l] = 0 /\ lotBooked[l] = 0
      BY <2>1 DEF Conserved, UnreceivedEmpty
    <2>3. take[l] = 0
      BY <2>2
    <2> QED BY <2>2, <2>3 DEF RemoveFromShelf, TakeFromLots
  <1> QED
    BY <1>1, <1>2, <1>3, MovementConserves DEF UnreceivedEmpty

LEMMA ItemStepConserves ==
    ASSUME ConservedInv, TypeOK', NEW i \in Items, ItemStep(i)
    PROVE  Conserved'
  <1>0. TypeOK
    BY DEF ConservedInv, FollowInv
  <1>1. ASSUME NEW q \in Nat, NEW take \in [Lots -> 0..q], \A l \in Lots : take[l] <= lotQty[l],
               RemoveFromShelf(i, q, take), UNCHANGED holdVars
        PROVE  Conserved'
    BY <1>1, RemovalConserves
  <1>2. ASSUME NEW level \in Nat, MoveItem(i, level),
               UNCHANGED <<lotQty, lotState, lotBooked, holdVars>>
        PROVE  Conserved'
    <2>1. \A j \in Items : onHand'[j] - onHand[j] = booked'[j] - booked[j]
      BY <1>0, <1>2 DEF MoveItem, TypeOK
    <2>2. \A l \in Lots : lotQty'[l] - lotQty[l] = lotBooked'[l] - lotBooked[l]
      BY <1>0, <1>2 DEF TypeOK
    <2>3. UnreceivedEmpty'
      BY <1>2 DEF ConservedInv, Conserved, UnreceivedEmpty
    <2> QED BY <1>2, <2>1, <2>2, <2>3, MovementConserves
  <1>3. ASSUME UNCHANGED <<holdVars, shelfVars, bookVars>>
        PROVE  Conserved'
    BY <1>3, ConservedStays DEF holdVars
  <1> QED
    BY <1>0, <1>1, <1>2, <1>3, ShelfTyped, ItemStepMoves

LEMMA LotStepConserves ==
    ASSUME ConservedInv, TypeOK', NEW l \in Lots, LotStep(l)
    PROVE  Conserved'
  <1>0. TypeOK /\ LotItem[l] \in Items
    BY PlanningAssumption DEF ConservedInv, FollowInv
  <1>1. ASSUME NEW q \in 1..MaxCount, NEW onlyExpired \in BOOLEAN, RecordLotLoss(l, q, onlyExpired)
        PROVE  Conserved'
    <2>1. q \in Nat
      BY OrderStockAssumption
    <2>2. PICK take \in [Lots -> 0..q] :
            /\ IsLotTake(take, lotQty, l, q)
            /\ RemoveFromShelf(LotItem[l], q, take)
      BY <1>1 DEF RecordLotLoss
    <2>3. \A k \in Lots : take[k] <= lotQty[k]
      BY <1>0, <2>2 DEF IsLotTake, TypeOK
    <2>4. UNCHANGED holdVars
      BY <1>1 DEF RecordLotLoss
    <2> QED
      BY <1>0, <2>1, <2>2, <2>3, <2>4, RemovalConserves
  <1>2. ASSUME ReceiveLot(l) PROVE Conserved'
    <2>0. /\ onHand \in [Items -> Nat] /\ booked \in [Items -> Int] /\ LotSize[l] \in Nat
          /\ lotQty \in [Lots -> Nat] /\ lotBooked \in [Lots -> Int] /\ lotState \in [Lots -> LotStates]
      BY <1>0, OrderStockAssumption DEF TypeOK
    <2>1. lotQty[l] = 0 /\ lotBooked[l] = 0
      BY <1>2 DEF ReceiveLot, ConservedInv, Conserved, UnreceivedEmpty
    <2>2. \A j \in Items : onHand'[j] - onHand[j] = booked'[j] - booked[j]
      BY <1>0, <1>2, <2>0 DEF ReceiveLot, MoveItem
    <2>3. \A k \in Lots : lotQty'[k] - lotQty[k] = lotBooked'[k] - lotBooked[k]
      BY <1>2, <2>0, <2>1 DEF ReceiveLot
    <2>4. UnreceivedEmpty'
      BY <1>2, <2>0 DEF ReceiveLot, ConservedInv, Conserved, UnreceivedEmpty
    <2>5. UNCHANGED holdVars
      BY <1>2 DEF ReceiveLot
    <2> QED BY <2>2, <2>3, <2>4, <2>5, MovementConserves
  <1>3. ASSUME RecallLot(l) PROVE Conserved'
    <2>1. \A i \in Items : onHand'[i] - onHand[i] = booked'[i] - booked[i]
      BY <1>0, <1>3 DEF RecallLot, bookVars, TypeOK
    <2>2. \A k \in Lots : lotQty'[k] - lotQty[k] = lotBooked'[k] - lotBooked[k]
      BY <1>0, <1>3 DEF RecallLot, bookVars, TypeOK
    <2>3. UnreceivedEmpty'
      BY <1>0, <1>3 DEF RecallLot, bookVars, TypeOK, ConservedInv, Conserved, UnreceivedEmpty
    <2>4. UNCHANGED holdVars
      BY <1>3 DEF RecallLot
    <2> QED BY <2>1, <2>2, <2>3, <2>4, MovementConserves
  <1>4. ASSUME LotExpires(l) PROVE Conserved'
    BY <1>4, ConservedStays DEF LotExpires, holdVars
  <1> QED BY <1>1, <1>2, <1>3, <1>4 DEF LotStep

(* An order that starts uses its needs and its lots, once.                  *)
LEMMA StartConserves ==
    ASSUME ConservedInv, TypeOK', NEW o \in Orders, StartPreparation(o)
    PROVE  Conserved'
  <1>0. TypeOK /\ IsFiniteSet(Using) /\ Using \subseteq Orders
    BY UsedNat DEF ConservedInv, FollowInv
  <1>1. o \notin Using
    BY DEF ConservedInv, FollowInv, StartPreparation, StockFollowsStatus, OrderFollowsStatus,
           Unstarted, Using
  <1>2. Using' = Using \cup {o}
    BY <1>0 DEF StartPreparation, Using, TypeOK
  <1>3. PICK take \in OrderTakes :
          /\ MayConsume(o, take)
          /\ heldLots' = [heldLots EXCEPT ![o] = take]
          /\ TakeFromLots(take)
    BY DEF StartPreparation
  <1>4. take \in [Lots -> Nat]
    BY <1>3, OrderStockAssumption DEF OrderTakes
  <1>5. ASSUME NEW i \in Items
        PROVE  onHand'[i] = booked'[i] - Used(i)'
    <2>1. Used(i)' = Used(i) + Need[o][i]
      BY <1>0, <1>1, <1>2, UsedNat, TotalAdd DEF Used
    <2>2. onHand[i] = booked[i] - Used(i)
      BY DEF ConservedInv, Conserved, ItemsConserved, Used
    <2>3. onHand'[i] = onHand[i] - Need[o][i] /\ booked'[i] = booked[i]
      BY DEF StartPreparation, bookVars
    <2>4. onHand[i] \in Int /\ booked[i] \in Int /\ Need[o][i] \in Nat /\ Used(i) \in Nat
      BY <1>0, UsedNat DEF TypeOK
    <2> QED BY <2>1, <2>2, <2>3, <2>4
  <1>6. ASSUME NEW l \in Lots
        PROVE  lotQty'[l] = lotBooked'[l] - UsedFrom(l)'
    <2> DEFINE after == [p \in Orders |-> heldLots'[p][l]]
    <2>1. \A p \in Using : after[p] = heldLots[p][l]
      BY <1>0, <1>1, <1>3 DEF TypeOK
    <2>2. after[o] = take[l] /\ take[l] \in Nat
      BY <1>0, <1>3, <1>4 DEF TypeOK
    <2>3. \A p \in Using \cup {o} : after[p] \in Int
      <3>1. \A p \in Using : heldLots[p][l] \in Nat
        BY <1>0, UsedNat
      <3> HIDE DEF after
      <3> QED BY <2>1, <2>2, <3>1
    <2>4. UsedFrom(l)' = Total(after, Using) + take[l]
      <3>1. Total(after, Using \cup {o}) = Total(after, Using) + after[o]
        BY <1>0, <1>1, <2>3, TotalAdd
      <3>2. UsedFrom(l)' = Total(after, Using')
        BY DEF UsedFrom
      <3> HIDE DEF after
      <3> QED BY <1>2, <2>2, <3>1, <3>2
    <2>5. Total(after, Using) = UsedFrom(l)
      BY <1>0, <2>1, TotalSame DEF UsedFrom
    <2>6. lotQty[l] = lotBooked[l] - UsedFrom(l)
      BY DEF ConservedInv, Conserved, LotsConserved, UsedFrom
    <2>7. lotQty'[l] = lotQty[l] - take[l] /\ lotBooked'[l] = lotBooked[l]
      BY <1>3 DEF StartPreparation, TakeFromLots, bookVars
    <2>8. lotQty[l] \in Int /\ lotBooked[l] \in Int /\ UsedFrom(l) \in Nat
      BY <1>0, UsedNat DEF TypeOK
    <2> QED BY <2>2, <2>4, <2>5, <2>6, <2>7, <2>8
  <1>7. ASSUME NEW l \in Lots, lotState'[l] = "unreceived"
        PROVE  lotQty'[l] = 0 /\ lotBooked'[l] = 0
    <2>1. lotState[l] = "unreceived"
      BY <1>3, <1>7 DEF TakeFromLots
    <2>2. lotQty[l] = 0 /\ lotBooked[l] = 0
      BY <2>1 DEF ConservedInv, Conserved, UnreceivedEmpty
    <2>3. take[l] = 0
      BY <1>3, <1>4, <2>1 DEF MayConsume, LotsStillThere
    <2> QED BY <1>3, <2>2, <2>3 DEF StartPreparation, TakeFromLots, bookVars
  <1> QED
    BY <1>5, <1>6, <1>7
    DEF Conserved, ItemsConserved, LotsConserved, UnreceivedEmpty, Used, UsedFrom

(* An order that is cancelled after its start returns exactly that.         *)
LEMMA CancelConserves ==
    ASSUME ConservedInv, TypeOK', NEW o \in Orders, Cancel(o)
    PROVE  Conserved'
  <1>0. TypeOK /\ IsFiniteSet(Using) /\ Using \subseteq Orders
    BY UsedNat DEF ConservedInv, FollowInv
  <1>1. CASE stock[o] # "consumed"
    <2>1. \A p \in Using : heldLots'[p] = heldLots[p]
      BY <1>0, <1>1 DEF Cancel, Using, TypeOK
    <2> QED BY <1>1, <2>1, ConservedStays DEF Cancel
  <1>2. CASE stock[o] = "consumed"
    <2>1. o \in Using /\ Using' = Using \ {o} /\ IsFiniteSet(Using \ {o})
      BY <1>0, <1>2, FS_Subset DEF Cancel, ReturnStock, Using, TypeOK
    <2>2. ASSUME NEW i \in Items
          PROVE  onHand'[i] = booked'[i] - Used(i)'
      <3>1. Used(i) = Need[o][i] + Used(i)'
        BY <1>0, <2>1, UsedNat, TotalSplit DEF Used
      <3>2. onHand[i] = booked[i] - Used(i)
        BY DEF ConservedInv, Conserved, ItemsConserved, Used
      <3>3. onHand'[i] = onHand[i] + Need[o][i] /\ booked'[i] = booked[i]
        BY <1>2 DEF Cancel, ReturnStock, bookVars
      <3>4. onHand[i] \in Int /\ booked[i] \in Int /\ Need[o][i] \in Nat /\ Used(i) \in Nat
        BY <1>0, UsedNat DEF TypeOK
      <3>5. Used(i)' \in Nat
        BY <1>0, <2>1, UsedNat, TotalNat DEF Used
      <3> QED BY <3>1, <3>2, <3>3, <3>4, <3>5
    <2>3. ASSUME NEW l \in Lots
          PROVE  /\ UsedFrom(l) = heldLots[o][l] + UsedFrom(l)'
                 /\ UsedFrom(l)' \in Nat /\ heldLots[o][l] \in Nat
      <3> DEFINE before == [p \in Orders |-> heldLots[p][l]]
                 after == [p \in Orders |-> heldLots'[p][l]]
      <3>1. /\ \A p \in Using : before[p] \in Int
            /\ \A p \in Using \ {o} : before[p] \in Nat
        BY <1>0, UsedNat
      <3>2. Total(before, Using) = before[o] + Total(before, Using \ {o})
        BY <1>0, <2>1, <3>1, TotalSplit
      <3>3. \A p \in Using \ {o} : after[p] = before[p]
        BY <1>0, <2>1 DEF Cancel, TypeOK
      <3>4. Total(after, Using \ {o}) = Total(before, Using \ {o})
        BY <2>1, <3>3, TotalSame
      <3>5. Total(before, Using \ {o}) \in Nat
        BY <2>1, <3>1, TotalNat
      <3>6. before[o] = heldLots[o][l] /\ heldLots[o][l] \in Nat
        BY <1>0, UsedNat
      <3>7. UsedFrom(l)' = Total(after, Using \ {o}) /\ UsedFrom(l) = Total(before, Using)
        BY <2>1 DEF UsedFrom
      <3> QED BY <3>2, <3>4, <3>5, <3>6, <3>7
    <2>4. ASSUME NEW l \in Lots
          PROVE  /\ lotQty'[l] = lotQty[l] + heldLots[o][l] /\ lotBooked'[l] = lotBooked[l]
                 /\ lotQty[l] \in Nat /\ lotBooked[l] \in Int
                 /\ lotQty[l] = lotBooked[l] - UsedFrom(l)
      <3>1. lotQty'[l] = lotQty[l] + heldLots[o][l] /\ lotBooked'[l] = lotBooked[l]
        BY <1>2 DEF Cancel, ReturnStock, bookVars
      <3>2. lotQty[l] \in Nat /\ lotBooked[l] \in Int
        BY <1>0 DEF TypeOK
      <3> QED BY <3>1, <3>2 DEF ConservedInv, Conserved, LotsConserved, UsedFrom
    <2>5. \A l \in Lots : lotQty'[l] = lotBooked'[l] - UsedFrom(l)'
      BY <2>3, <2>4
    <2>6. ASSUME NEW l \in Lots, lotState'[l] = "unreceived"
          PROVE  lotQty'[l] = 0 /\ lotBooked'[l] = 0
      <3>1. lotState[l] = "unreceived"
        BY <1>2, <2>6 DEF Cancel, ReturnStock
      <3>2. lotQty[l] = 0 /\ lotBooked[l] = 0
        BY <3>1 DEF ConservedInv, Conserved, UnreceivedEmpty
      <3>3. heldLots[o][l] = 0
        BY <2>3, <2>4, <3>2
      <3> QED BY <2>4, <3>2, <3>3
    <2> QED
      BY <2>2, <2>5, <2>6
      DEF Conserved, ItemsConserved, LotsConserved, UnreceivedEmpty, Used, UsedFrom
  <1> QED BY <1>1, <1>2

LEMMA InitConserved == Init => Conserved
  <1> SUFFICES ASSUME Init PROVE Conserved
    OBVIOUS
  <1>1. Using = {}
    BY DEF Init, Using
  <1>2. /\ \A i \in Items : Used(i) = 0
        /\ \A l \in Lots : UsedFrom(l) = 0
    BY <1>1, TotalEmpty DEF Used, UsedFrom
  <1>3. /\ \A i \in Items : onHand[i] = booked[i] /\ onHand[i] \in Int
        /\ \A l \in Lots : lotQty[l] = lotBooked[l] /\ lotQty[l] \in Int
        /\ \A l \in Lots : lotState[l] = "unreceived" => lotQty[l] = 0
    BY OrderStockAssumption DEF Init
  <1> QED
    BY <1>2, <1>3
    DEF Conserved, ItemsConserved, LotsConserved, UnreceivedEmpty, Used, UsedFrom

LEMMA StepConserved ==
    ASSUME ConservedInv, TypeOK', [Next]_vars
    PROVE  Conserved'
  <1>0. /\ TypeOK
        /\ \A p \in Using : status[p] \in Underway /\ hold[p] = "consumed" /\ p \in Orders
    BY DEF ConservedInv, FollowInv, StockFollowsStatus, OrderFollowsStatus, Using, TypeOK,
           Statuses, Unstarted, Underway
  <1>1. ASSUME NEW o \in Orders, o \notin Using, Reserve(o), UNCHANGED <<shelfVars, bookVars>>
        PROVE  Conserved'
    BY <1>0, <1>1, ConservedStays DEF Reserve, TypeOK
  <1>2. ASSUME NEW o \in Orders, NEW t \in AllowedTerms, PlaceOrder(o, t) PROVE Conserved'
    BY <1>0, <1>1, <1>2 DEF PlaceOrder, Underway
  <1>3. ASSUME NEW o \in Orders, NEW manual \in BOOLEAN, ConfirmPresence(o, manual)
        PROVE  Conserved'
    BY <1>0, <1>1, <1>3 DEF ConfirmPresence, Underway
  <1>4. ASSUME NEW o \in Orders, NEW amount \in 1..OrderTotal[o], RecordPayment(o, amount)
        PROVE  Conserved'
    <2>1. CASE paid[o] + amount = OrderTotal[o] /\ status[o] = "awaiting_payment"
      BY <1>0, <1>1, <1>4, <2>1 DEF RecordPayment, Underway
    <2>2. CASE ~(paid[o] + amount = OrderTotal[o] /\ status[o] = "awaiting_payment")
      BY <1>4, <2>2, ConservedStays DEF RecordPayment, holdVars
    <2> QED BY <2>1, <2>2
  <1>5. ASSUME UNCHANGED <<holdVars, shelfVars, bookVars>> PROVE Conserved'
    BY <1>5, ConservedStays DEF holdVars
  <1>6. ASSUME NEW o \in Orders,
               CheckIn(o) \/ MarkReady(o) \/ HandOff(o)
               \/ (\E allowCredit \in BOOLEAN : Complete(o, allowCredit))
        PROVE  Conserved'
    BY <1>5, <1>6 DEF CheckIn, MarkReady, HandOff, Complete
  <1>7. ASSUME NEW o \in Orders, LapseHold(o) PROVE Conserved'
    BY <1>0, <1>7, ConservedStays DEF LapseHold, TypeOK
  <1>8. CASE UNCHANGED vars
    BY <1>5, <1>8 DEF vars
  <1> QED
    BY <1>2, <1>3, <1>4, <1>6, <1>7, <1>8, StartConserves, CancelConserves,
       ItemStepConserves, LotStepConserves, NextCases

(* The aggregate of every item differs from the evidence on record by       *)
(* exactly what orders that started and were not cancelled used.            *)
THEOREM ItemsAreConserved == Spec => []ItemsConserved
  <1>1. Init => ConservedInv
    BY InitType, InitFollows, InitConserved DEF ConservedInv, FollowInv
  <1>2. ConservedInv /\ [Next]_vars => ConservedInv'
    BY StepType, StepFollows, StepConserved DEF ConservedInv, FollowInv
  <1>3. ConservedInv => ItemsConserved
    BY DEF ConservedInv, Conserved
  <1> QED BY <1>1, <1>2, <1>3, PTL DEF Spec

(* The same for every supply lot.                                           *)
THEOREM LotsAreConserved == Spec => []LotsConserved
  <1>1. Init => ConservedInv
    BY InitType, InitFollows, InitConserved DEF ConservedInv, FollowInv
  <1>2. ConservedInv /\ [Next]_vars => ConservedInv'
    BY StepType, StepFollows, StepConserved DEF ConservedInv, FollowInv
  <1>3. ConservedInv => LotsConserved
    BY DEF ConservedInv, Conserved
  <1> QED BY <1>1, <1>2, <1>3, PTL DEF Spec

-----------------------------------------------------------------------------
(* What the holds of a set of orders take from a lot, and loose.            *)
HeldFrom(held, l, S) == Total([o \in Orders |-> held[o][l]], S)
LoosePart(held, o, i) == Need[o][i] - Total(held[o], LotsOf(i))
HeldLooseIn(held, i, S) == Total([o \in Orders |-> LoosePart(held, o, i)], S)

WithinNeed(held) == \A o \in Orders, i \in Items : Total(held[o], LotsOf(i)) <= Need[o][i]

OnLots(i) == Total(lotQty, LotsOf(i))

LotsFit == \A i \in Items : OnLots(i) <= onHand[i]

LotsBacked == \A l \in Lots : HeldFrom(heldLots, l, Holding) <= lotQty[l]

LooseBacked == \A i \in Items : HeldLooseIn(heldLots, i, Holding) <= onHand[i] - OnLots(i)

HeldLotsStand ==
    \A o \in Holding, l \in Lots :
        heldLots[o][l] > 0 => lotState[l] = "available" \/ l \in recalled

Backed == WithinNeed(heldLots) /\ LotsFit /\ LotsBacked /\ LooseBacked /\ HeldLotsStand

BackedInv == ConservedInv /\ Backed

LEMMA LotsFinite == \A i \in Items : IsFiniteSet(LotsOf(i)) /\ LotsOf(i) \subseteq Lots
  <1>1. \A i \in Items : LotsOf(i) \subseteq Lots
    BY DEF LotsOf
  <1> QED BY <1>1, PlanningAssumption, FS_Subset

LEMMA TakeNat ==
    ASSUME NEW take \in OrderTakes
    PROVE  /\ \A l \in Lots : take[l] \in Nat
           /\ \A i \in Items : Total(take, LotsOf(i)) \in Nat
  <1>1. \A l \in Lots : take[l] \in Nat
    BY OrderStockAssumption DEF OrderTakes
  <1> QED BY <1>1, LotsFinite, TotalNat

LEMMA OnLotsNat ==
    ASSUME TypeOK
    PROVE  \A i \in Items : OnLots(i) \in Nat
  <1>1. \A l \in Lots : lotQty[l] \in Nat
    BY DEF TypeOK
  <1> QED BY <1>1, LotsFinite, TotalNat DEF OnLots

LEMMA HeldFacts ==
    ASSUME NEW held \in [Orders -> OrderTakes], WithinNeed(held), NEW S \in SUBSET Orders
    PROVE  /\ IsFiniteSet(S)
           /\ \A o \in Orders, l \in Lots : held[o][l] \in Nat
           /\ \A o \in Orders, i \in Items : LoosePart(held, o, i) \in Nat
           /\ \A l \in Lots : HeldFrom(held, l, S) \in Nat
           /\ \A i \in Items : HeldLooseIn(held, i, S) \in Nat
  <1>1. IsFiniteSet(S)
    BY OrderStockAssumption, FS_Subset
  <1>2. \A o \in Orders, l \in Lots : held[o][l] \in Nat
    BY OrderStockAssumption DEF OrderTakes
  <1>3. ASSUME NEW o \in Orders, NEW i \in Items
        PROVE  LoosePart(held, o, i) \in Nat
    <2>1. Total(held[o], LotsOf(i)) \in Nat
      BY TakeNat
    <2>2. Need[o][i] \in Nat /\ Total(held[o], LotsOf(i)) <= Need[o][i]
      BY OrderStockAssumption DEF WithinNeed
    <2> QED BY <2>1, <2>2 DEF LoosePart
  <1>4. \A l \in Lots : HeldFrom(held, l, S) \in Nat
    BY <1>1, <1>2, TotalNat DEF HeldFrom
  <1>5. \A i \in Items : HeldLooseIn(held, i, S) \in Nat
    BY <1>1, <1>3, TotalNat DEF HeldLooseIn
  <1> QED BY <1>1, <1>2, <1>3, <1>4, <1>5

(* Fewer orders hold no more.                                               *)
LEMMA HeldPart ==
    ASSUME NEW held \in [Orders -> OrderTakes], WithinNeed(held),
           NEW S \in SUBSET Orders, NEW R \in SUBSET S
    PROVE  /\ \A l \in Lots : HeldFrom(held, l, R) <= HeldFrom(held, l, S)
           /\ \A i \in Items : HeldLooseIn(held, i, R) <= HeldLooseIn(held, i, S)
  <1>1. \A l \in Lots : HeldFrom(held, l, R) <= HeldFrom(held, l, S)
    BY HeldFacts, TotalPart DEF HeldFrom
  <1>2. \A i \in Items : HeldLooseIn(held, i, R) <= HeldLooseIn(held, i, S)
    BY HeldFacts, TotalPart DEF HeldLooseIn
  <1> QED BY <1>1, <1>2

LEMMA HeldSame ==
    ASSUME NEW held, NEW other, NEW S \in SUBSET Orders, \A o \in S : other[o] = held[o]
    PROVE  /\ \A l \in Lots : HeldFrom(other, l, S) = HeldFrom(held, l, S)
           /\ \A i \in Items : HeldLooseIn(other, i, S) = HeldLooseIn(held, i, S)
  <1>0. IsFiniteSet(S)
    BY OrderStockAssumption, FS_Subset
  <1>1. \A l \in Lots : HeldFrom(other, l, S) = HeldFrom(held, l, S)
    BY <1>0, TotalSame DEF HeldFrom
  <1>2. \A i \in Items : HeldLooseIn(other, i, S) = HeldLooseIn(held, i, S)
    BY <1>0, TotalSame DEF HeldLooseIn, LoosePart
  <1> QED BY <1>1, <1>2

LEMMA HeldAdd ==
    ASSUME NEW held \in [Orders -> OrderTakes], WithinNeed(held),
           NEW S \in SUBSET Orders, NEW o \in Orders \ S
    PROVE  /\ \A l \in Lots : HeldFrom(held, l, S \cup {o}) = HeldFrom(held, l, S) + held[o][l]
           /\ \A i \in Items :
                HeldLooseIn(held, i, S \cup {o}) = HeldLooseIn(held, i, S) + LoosePart(held, o, i)
  <1>1. ASSUME NEW l \in Lots
        PROVE  HeldFrom(held, l, S \cup {o}) = HeldFrom(held, l, S) + held[o][l]
    <2> DEFINE f == [p \in Orders |-> held[p][l]]
    <2>1. \A p \in S \cup {o} : f[p] \in Int
      <3>1. \A p \in Orders : held[p][l] \in Nat
        BY HeldFacts
      <3> QED BY <3>1
    <2>2. f[o] = held[o][l]
      OBVIOUS
    <2>3. HeldFrom(held, l, S \cup {o}) = Total(f, S \cup {o}) /\ HeldFrom(held, l, S) = Total(f, S)
      BY DEF HeldFrom
    <2> HIDE DEF f
    <2>4. Total(f, S \cup {o}) = Total(f, S) + f[o]
      BY <2>1, HeldFacts, TotalAdd
    <2> QED BY <2>2, <2>3, <2>4
  <1>2. ASSUME NEW i \in Items
        PROVE  HeldLooseIn(held, i, S \cup {o}) = HeldLooseIn(held, i, S) + LoosePart(held, o, i)
    <2> DEFINE f == [p \in Orders |-> LoosePart(held, p, i)]
    <2>1. \A p \in S \cup {o} : f[p] \in Int
      <3>1. \A p \in Orders : LoosePart(held, p, i) \in Nat
        BY HeldFacts
      <3> QED BY <3>1
    <2>2. f[o] = LoosePart(held, o, i)
      OBVIOUS
    <2>3. HeldLooseIn(held, i, S \cup {o}) = Total(f, S \cup {o}) /\ HeldLooseIn(held, i, S) = Total(f, S)
      BY DEF HeldLooseIn
    <2> HIDE DEF f
    <2>4. Total(f, S \cup {o}) = Total(f, S) + f[o]
      BY <2>1, HeldFacts, TotalAdd
    <2> QED BY <2>2, <2>3, <2>4
  <1> QED BY <1>1, <1>2

(* What a reservation takes fits beside what the other live holds take: lot *)
(* by lot, and loose.                                                      *)
LEMMA ReservedFits ==
    ASSUME BackedInv, NEW o \in Orders, NEW take \in OrderTakes, MayReserve(o, take)
    PROVE  /\ \A l \in Lots : take[l] + HeldFrom(heldLots, l, LiveOthers(o)) <= lotQty[l]
           /\ \A l \in Lots : take[l] > 0 => lotState[l] = "available" \/ l \in recalled
           /\ \A i \in Items :
                /\ Total(take, LotsOf(i)) <= Need[o][i]
                /\ Need[o][i] - Total(take, LotsOf(i)) + HeldLooseIn(heldLots, i, LiveOthers(o))
                      <= onHand[i] - OnLots(i)
  <1> DEFINE others == LiveOthers(o)
  <1>0. /\ TypeOK /\ heldLots \in [Orders -> OrderTakes] /\ WithinNeed(heldLots)
        /\ Holding \in SUBSET Orders /\ others \in SUBSET Holding /\ o \notin others
        /\ others \in SUBSET Orders /\ o \in Orders \ others
        /\ hold[o] = "reserved" => Holding = others \cup {o} /\ o \in Holding
        /\ hold[o] # "reserved" => Holding = others
    BY DEF BackedInv, Backed, ConservedInv, FollowInv, TypeOK, Holding, LiveOthers
  <1> HIDE DEF others
  <1>f. /\ IsFiniteSet(others)
        /\ \A p \in Orders, l \in Lots : heldLots[p][l] \in Nat
        /\ \A p \in Orders, i \in Items : LoosePart(heldLots, p, i) \in Nat
        /\ \A l \in Lots : HeldFrom(heldLots, l, others) \in Nat
        /\ \A i \in Items : HeldLooseIn(heldLots, i, others) \in Nat
    BY <1>0, HeldFacts
  <1>n. /\ \A l \in Lots : lotQty[l] \in Nat /\ take[l] \in Nat
        /\ \A i \in Items : /\ Need[o][i] \in Nat /\ onHand[i] \in Nat
                            /\ withheld[i] \in Nat
                            /\ OnLots(i) \in Nat /\ Total(take, LotsOf(i)) \in Nat
    BY <1>0, TakeNat, OnLotsNat, OrderStockAssumption DEF TypeOK
  <1>1. CASE hold[o] = "reserved"
    <2>1. take = heldLots[o] /\ o \in Holding /\ Holding = others \cup {o}
      BY <1>0, <1>1 DEF MayReserve
    <2>2. ASSUME NEW l \in Lots
          PROVE  take[l] + HeldFrom(heldLots, l, others) <= lotQty[l]
      <3>1. HeldFrom(heldLots, l, others \cup {o}) = HeldFrom(heldLots, l, others) + heldLots[o][l]
        BY <1>0, HeldAdd
      <3>2. HeldFrom(heldLots, l, Holding) <= lotQty[l]
        BY DEF BackedInv, Backed, LotsBacked
      <3>3. HeldFrom(heldLots, l, Holding) = HeldFrom(heldLots, l, others \cup {o})
        BY <2>1, Zenon
      <3> QED BY <1>f, <1>n, <2>1, <3>1, <3>2, <3>3
    <2>3. ASSUME NEW i \in Items
          PROVE  /\ Total(take, LotsOf(i)) <= Need[o][i]
                 /\ Need[o][i] - Total(take, LotsOf(i)) + HeldLooseIn(heldLots, i, others)
                      <= onHand[i] - OnLots(i)
      <3>1. HeldLooseIn(heldLots, i, others \cup {o})
               = HeldLooseIn(heldLots, i, others) + LoosePart(heldLots, o, i)
        BY <1>0, HeldAdd
      <3>2. HeldLooseIn(heldLots, i, Holding) <= onHand[i] - OnLots(i)
        BY DEF BackedInv, Backed, LooseBacked
      <3>3. LoosePart(heldLots, o, i) = Need[o][i] - Total(take, LotsOf(i))
        BY <2>1 DEF LoosePart
      <3>4. Total(take, LotsOf(i)) <= Need[o][i]
        BY <1>0, <2>1 DEF WithinNeed
      <3>5. HeldLooseIn(heldLots, i, Holding) = HeldLooseIn(heldLots, i, others \cup {o})
        BY <2>1, Zenon
      <3> QED BY <1>f, <1>n, <3>1, <3>2, <3>3, <3>4, <3>5
    <2>4. \A l \in Lots : take[l] > 0 => lotState[l] = "available" \/ l \in recalled
      BY <2>1 DEF BackedInv, Backed, HeldLotsStand
    <2> QED BY <2>2, <2>3, <2>4 DEF others
  <1>2. CASE hold[o] # "reserved"
    <2>0. FitsShelf(o, take)
      BY <1>2 DEF MayReserve
    <2>1. ASSUME NEW l \in Lots
          PROVE  /\ take[l] + HeldFrom(heldLots, l, others) <= lotQty[l]
                 /\ take[l] > 0 => lotState[l] = "available"
      <3>1. HeldFrom(heldLots, l, others) <= lotQty[l]
        BY <1>0, <1>2 DEF BackedInv, Backed, LotsBacked
      <3>2. CASE l \in UsableLots
        <4>1. take[l] <= FreeLots(o)[l]
          <5>1. LotItem[l] \in Items /\ l \in LotsOf(LotItem[l])
            BY PlanningAssumption DEF LotsOf
          <5> QED BY <2>0, <3>2, <5>1 DEF FitsShelf, IsFefoTake
        <4>2. FreeLots(o)[l] = AtLeastZero(lotQty[l] - HeldFrom(heldLots, l, others))
          BY DEF FreeLots, HeldFrom, others
        <4> QED BY <1>f, <1>n, <3>1, <3>2, <4>1, <4>2 DEF AtLeastZero, UsableLots
      <3>3. CASE l \notin UsableLots
        <4>1. take[l] = 0
          BY <2>0, <3>3 DEF FitsShelf, OnlyFrom
        <4> QED BY <1>f, <1>n, <3>1, <4>1
      <3> QED BY <3>2, <3>3
    <2>2. ASSUME NEW i \in Items
          PROVE  /\ Total(take, LotsOf(i)) <= Need[o][i]
                 /\ Need[o][i] - Total(take, LotsOf(i)) + HeldLooseIn(heldLots, i, others)
                      <= onHand[i] - OnLots(i)
      <3> DEFINE usable == LotsOf(i) \cap UsableLots
                 free == FreeLots(o)
      <3>1. usable \in SUBSET LotsOf(i) /\ IsFiniteSet(usable) /\ IsFiniteSet(LotsOf(i) \ usable)
            /\ \A l \in LotsOf(i) : l \in Lots
        BY LotsFinite, FS_Subset
      <3>2. Total(take, LotsOf(i)) = Total(take, usable)
        <4>1. \A l \in LotsOf(i) \ usable : take[l] = 0
          BY <2>0, <3>1 DEF FitsShelf, OnlyFrom
        <4>2. LotsOf(i) = usable \cup (LotsOf(i) \ usable) /\ usable \cap (LotsOf(i) \ usable) = {}
          BY <3>1
        <4>3. \A l \in usable \cup (LotsOf(i) \ usable) : take[l] \in Int
          BY <1>n, <3>1
        <4> HIDE DEF usable
        <4>4. Total(take, usable \cup (LotsOf(i) \ usable))
                 = Total(take, usable) + Total(take, LotsOf(i) \ usable)
          BY <3>1, <4>2, <4>3, TotalUnion
        <4>5. Total(take, LotsOf(i) \ usable) = 0
          BY <3>1, <4>1, TotalZero
        <4>6. Total(take, LotsOf(i)) = Total(take, usable \cup (LotsOf(i) \ usable))
          BY <4>2, Zenon
        <4>7. Total(take, usable) \in Int
          BY <3>1, <4>3, TotalType
        <4> QED BY <4>4, <4>5, <4>6, <4>7
      <3>3. Total(free, usable) \in Nat
        <4>1. \A l \in usable : free[l] \in Nat
          <5>1. ASSUME NEW l \in Lots PROVE free[l] \in Nat
            <6>1. free[l] = AtLeastZero(lotQty[l] - HeldFrom(heldLots, l, others))
              BY DEF FreeLots, HeldFrom, others
            <6> QED BY <1>f, <1>n, <6>1 DEF AtLeastZero
          <5> QED BY <3>1, <5>1
        <4> HIDE DEF free, usable
        <4> QED BY <3>1, <4>1, TotalNat
      <3>4. Total(take, usable) = Lesser(Need[o][i], Total(free, usable))
        BY <2>0 DEF FitsShelf, IsFefoTake
      <3>5. Need[o][i] <= AtLeastZero(FreeLoose(o, i) + Total(free, usable) - withheld[i])
        BY <2>0 DEF FitsShelf, Available
      <3>6. FreeLoose(o, i)
               = AtLeastZero(AtLeastZero(onHand[i] - OnLots(i)) - HeldLooseIn(heldLots, i, others))
        BY DEF FreeLoose, Loose, OnLots, HeldLooseIn, HeldLoose, LoosePart, others
      <3>7. HeldLooseIn(heldLots, i, others) <= onHand[i] - OnLots(i)
        BY <1>0, <1>2 DEF BackedInv, Backed, LooseBacked
      <3> HIDE DEF free, usable
      <3>8. FreeLoose(o, i) = onHand[i] - OnLots(i) - HeldLooseIn(heldLots, i, others)
        BY <1>f, <1>n, <3>6, <3>7 DEF AtLeastZero
      <3> DEFINE heldLoose == HeldLooseIn(heldLots, i, others)
                 taken == Total(take, LotsOf(i))
                 lots == Total(free, usable)
                 n == Need[o][i]
                 spare == onHand[i] - OnLots(i)
      <3>9. /\ taken = Lesser(n, lots)
            /\ n <= AtLeastZero(spare - heldLoose + lots - withheld[i])
            /\ heldLoose <= spare /\ spare \in Int /\ heldLoose \in Nat /\ lots \in Nat
            /\ n \in Nat /\ withheld[i] \in Nat
        BY <1>f, <1>n, <3>2, <3>3, <3>4, <3>5, <3>7, <3>8
      <3>10. taken <= n /\ n - taken + heldLoose <= spare
        <4> HIDE DEF heldLoose, taken, lots, n, spare
        <4> QED BY <3>9 DEF Lesser, AtLeastZero
      <3> QED BY <3>10
    <2> QED BY <2>1, <2>2 DEF others
  <1> QED BY <1>1, <1>2

(* Movements that leave evidence but remove stock without looking at holds. *)
Removals == {"loss", "lot_loss", "count", "sale", "market"}

(* Steps after which no more is held and no less is on the shelf.           *)
LEMMA BackedStays ==
    ASSUME BackedInv, TypeOK', WithinNeed(heldLots)', HeldLotsStand',
           Holding' \subseteq Holding, \A o \in Holding' : heldLots'[o] = heldLots[o],
           \A l \in Lots : lotQty[l] <= lotQty'[l],
           \A i \in Items : onHand[i] - OnLots(i) <= onHand'[i] - OnLots(i)'
    PROVE  Backed'
  <1>0. /\ TypeOK /\ WithinNeed(heldLots) /\ Holding \in SUBSET Orders
        /\ heldLots \in [Orders -> OrderTakes]
    BY DEF BackedInv, ConservedInv, FollowInv, Backed, TypeOK, Holding
  <1>1. Holding' \in SUBSET Holding /\ Holding' \in SUBSET Orders
    BY <1>0
  <1>n. /\ \A l \in Lots : lotQty[l] \in Nat /\ lotQty'[l] \in Nat
        /\ \A i \in Items : /\ onHand[i] \in Nat /\ onHand'[i] \in Nat
                            /\ OnLots(i) \in Nat /\ OnLots(i)' \in Nat
    <2>1. \A l \in Lots : lotQty'[l] \in Nat
      BY DEF TypeOK
    <2>2. \A i \in Items : Total(lotQty', LotsOf(i)) \in Nat
      BY <2>1, LotsFinite, TotalNat
    <2> QED BY <1>0, <2>1, <2>2, OnLotsNat DEF TypeOK, OnLots
  <1>2. ASSUME NEW l \in Lots PROVE HeldFrom(heldLots', l, Holding') <= lotQty'[l]
    <2>1. HeldFrom(heldLots', l, Holding') = HeldFrom(heldLots, l, Holding')
      BY <1>1, HeldSame
    <2>2. HeldFrom(heldLots, l, Holding') <= HeldFrom(heldLots, l, Holding)
      BY <1>0, <1>1, HeldPart
    <2>3. HeldFrom(heldLots, l, Holding') \in Nat /\ HeldFrom(heldLots, l, Holding) \in Nat
      BY <1>0, <1>1, HeldFacts
    <2>4. HeldFrom(heldLots, l, Holding) <= lotQty[l]
      BY DEF BackedInv, Backed, LotsBacked
    <2> QED BY <1>n, <2>1, <2>2, <2>3, <2>4
  <1>3. ASSUME NEW i \in Items
        PROVE  /\ HeldLooseIn(heldLots', i, Holding') <= onHand'[i] - OnLots(i)'
               /\ OnLots(i)' <= onHand'[i]
    <2>1. HeldLooseIn(heldLots', i, Holding') = HeldLooseIn(heldLots, i, Holding')
      BY <1>1, HeldSame
    <2>2. HeldLooseIn(heldLots, i, Holding') <= HeldLooseIn(heldLots, i, Holding)
      BY <1>0, <1>1, HeldPart
    <2>3. HeldLooseIn(heldLots, i, Holding') \in Nat /\ HeldLooseIn(heldLots, i, Holding) \in Nat
      BY <1>0, <1>1, HeldFacts
    <2>4. HeldLooseIn(heldLots, i, Holding) <= onHand[i] - OnLots(i)
      BY DEF BackedInv, Backed, LooseBacked
    <2> QED BY <1>n, <2>1, <2>2, <2>3, <2>4
  <1>4. LotsBacked' /\ LooseBacked' /\ LotsFit'
    BY <1>2, <1>3 DEF LotsBacked, LooseBacked, LotsFit, HeldFrom, HeldLooseIn, LoosePart
  <1> QED BY <1>4 DEF Backed

(* Steps that touch neither holds nor the shelf's quantities.               *)
LEMMA BackedUntouched ==
    ASSUME BackedInv, TypeOK', UNCHANGED <<holdVars, onHand, lotQty>>,
           \A l \in Lots : \/ lotState'[l] = lotState[l] \/ l \in recalled',
           recalled \subseteq recalled'
    PROVE  Backed'
  <1>1. WithinNeed(heldLots)'
    BY DEF BackedInv, Backed, WithinNeed, holdVars
  <1>2. HeldLotsStand' /\ Holding' = Holding
    BY DEF BackedInv, Backed, HeldLotsStand, holdVars, Holding
  <1>3. \A i \in Items : OnLots(i)' = OnLots(i) /\ OnLots(i) \in Nat /\ onHand[i] \in Nat
    BY OnLotsNat DEF OnLots, BackedInv, ConservedInv, FollowInv, TypeOK
  <1>4. \A l \in Lots : lotQty[l] \in Nat
    BY DEF BackedInv, ConservedInv, FollowInv, TypeOK
  <1> QED
    BY <1>1, <1>2, <1>3, <1>4, BackedStays DEF holdVars

(* An order's takes are replaced: the needs stay the bound.                 *)
LEMMA WithinAfter ==
    ASSUME BackedInv, NEW o \in Orders, NEW take \in OrderTakes,
           \A i \in Items : Total(take, LotsOf(i)) <= Need[o][i],
           heldLots' = [heldLots EXCEPT ![o] = take]
    PROVE  WithinNeed(heldLots)'
  <1>1. WithinNeed(heldLots) /\ heldLots \in [Orders -> OrderTakes]
    BY DEF BackedInv, Backed, ConservedInv, FollowInv, TypeOK
  <1>2. ASSUME NEW p \in Orders, NEW i \in Items
        PROVE  Total(heldLots'[p], LotsOf(i)) <= Need[p][i]
    <2>1. CASE p = o
      BY <1>1, <2>1
    <2>2. CASE p # o
      BY <1>1, <2>2 DEF WithinNeed
    <2> QED BY <2>1, <2>2
  <1> QED BY <1>2 DEF WithinNeed

LEMMA NoLotsWithin ==
    NoLots \in OrderTakes /\ \A o \in Orders, i \in Items : Total(NoLots, LotsOf(i)) <= Need[o][i]
  <1>1. NoLots \in OrderTakes
    BY OrderStockAssumption DEF NoLots, OrderTakes
  <1>2. \A i \in Items : \A l \in LotsOf(i) : NoLots[l] = 0
    BY LotsFinite DEF NoLots
  <1>3. \A i \in Items : Total(NoLots, LotsOf(i)) = 0
    BY <1>2, LotsFinite, TotalZero
  <1> QED BY <1>1, <1>3, OrderStockAssumption

(* Reserving while the shelf stands still.                                  *)
LEMMA ReserveBacked ==
    ASSUME BackedInv, TypeOK', NEW o \in Orders, Reserve(o), UNCHANGED <<shelfVars, recalled>>
    PROVE  Backed'
  <1>0. /\ TypeOK /\ heldLots \in [Orders -> OrderTakes] /\ heldLots' \in [Orders -> OrderTakes]
        /\ hold \in [Orders -> {"none", "reserved", "released", "consumed"}]
    BY DEF BackedInv, ConservedInv, FollowInv, TypeOK
  <1>1. PICK take \in OrderTakes :
          /\ MayReserve(o, take)
          /\ hold' = [hold EXCEPT ![o] = "reserved"]
          /\ heldLots' = [heldLots EXCEPT ![o] = take]
    BY DEF Reserve
  <1> DEFINE others == LiveOthers(o)
  <1>2. /\ others \in SUBSET Orders /\ o \in Orders \ others /\ Holding' = others \cup {o}
        /\ \A p \in others : heldLots'[p] = heldLots[p]
        /\ heldLots'[o] = take
    BY <1>0, <1>1 DEF LiveOthers, Holding
  <1>3. /\ \A l \in Lots : take[l] + HeldFrom(heldLots, l, others) <= lotQty[l]
        /\ \A l \in Lots : take[l] > 0 => lotState[l] = "available" \/ l \in recalled
        /\ \A i \in Items :
             /\ Total(take, LotsOf(i)) <= Need[o][i]
             /\ Need[o][i] - Total(take, LotsOf(i)) + HeldLooseIn(heldLots, i, others)
                   <= onHand[i] - OnLots(i)
    BY <1>1, ReservedFits
  <1> HIDE DEF others
  <1>4. WithinNeed(heldLots)'
    BY <1>1, <1>3, WithinAfter
  <1>5. WithinNeed(heldLots')
    BY <1>4 DEF WithinNeed
  <1>6. ASSUME NEW l \in Lots PROVE HeldFrom(heldLots', l, Holding') <= lotQty'[l]
    <2>1. HeldFrom(heldLots', l, others \cup {o}) = HeldFrom(heldLots', l, others) + take[l]
      BY <1>0, <1>2, <1>5, HeldAdd
    <2>2. HeldFrom(heldLots', l, others) = HeldFrom(heldLots, l, others)
      BY <1>2, HeldSame
    <2>3. HeldFrom(heldLots', l, Holding') = HeldFrom(heldLots', l, others \cup {o})
      BY <1>2, Zenon
    <2>4. HeldFrom(heldLots', l, others) \in Nat /\ take[l] \in Nat
      BY <1>0, <1>2, <1>5, HeldFacts, TakeNat
    <2> QED BY <1>3, <2>1, <2>2, <2>3, <2>4 DEF shelfVars
  <1>7. ASSUME NEW i \in Items
        PROVE  HeldLooseIn(heldLots', i, Holding') <= onHand'[i] - OnLots(i)'
    <2>1. HeldLooseIn(heldLots', i, others \cup {o})
             = HeldLooseIn(heldLots', i, others) + LoosePart(heldLots', o, i)
      BY <1>0, <1>2, <1>5, HeldAdd
    <2>2. HeldLooseIn(heldLots', i, others) = HeldLooseIn(heldLots, i, others)
      BY <1>2, HeldSame
    <2>3. HeldLooseIn(heldLots', i, Holding') = HeldLooseIn(heldLots', i, others \cup {o})
      BY <1>2, Zenon
    <2>4. HeldLooseIn(heldLots', i, others) \in Nat /\ LoosePart(heldLots', o, i) \in Nat
      BY <1>0, <1>2, <1>5, HeldFacts
    <2>5. LoosePart(heldLots', o, i) = Need[o][i] - Total(take, LotsOf(i))
      BY <1>2 DEF LoosePart
    <2>6. onHand'[i] = onHand[i] /\ OnLots(i)' = OnLots(i)
      BY DEF shelfVars, OnLots
    <2>7. onHand[i] \in Nat /\ OnLots(i) \in Nat
      BY <1>0, OnLotsNat DEF TypeOK
    <2> QED BY <1>3, <2>1, <2>2, <2>3, <2>4, <2>5, <2>6, <2>7
  <1>8. HeldLotsStand'
    <2>1. ASSUME NEW p \in Holding', NEW l \in Lots, heldLots'[p][l] > 0
          PROVE  lotState[l] = "available" \/ l \in recalled
      <3>1. CASE p = o
        BY <1>2, <1>3, <2>1, <3>1
      <3>2. CASE p # o
        <4>1. p \in Holding /\ heldLots'[p] = heldLots[p]
          BY <1>2, <2>1, <3>2 DEF others, LiveOthers, Holding
        <4> QED BY <2>1, <4>1 DEF BackedInv, Backed, HeldLotsStand
      <3> QED BY <3>1, <3>2
    <2> QED BY <2>1 DEF HeldLotsStand, shelfVars
  <1>9. LotsFit'
    BY DEF BackedInv, Backed, LotsFit, OnLots, shelfVars
  <1> QED
    BY <1>4, <1>6, <1>7, <1>8, <1>9
    DEF Backed, LotsBacked, LooseBacked, HeldFrom, HeldLooseIn, LoosePart

(* What a start or a return does to a lot total.                            *)
LEMMA OnLotsAfter ==
    ASSUME TypeOK, NEW take \in OrderTakes, NEW i \in Items,
           \/ \A l \in Lots : lotQty'[l] = lotQty[l] - take[l]
           \/ \A l \in Lots : lotQty'[l] = lotQty[l] + take[l]
    PROVE  /\ OnLots(i) \in Nat /\ Total(take, LotsOf(i)) \in Nat
           /\ (\A l \in Lots : lotQty'[l] = lotQty[l] - take[l])
                 => OnLots(i)' = OnLots(i) - Total(take, LotsOf(i))
           /\ (\A l \in Lots : lotQty'[l] = lotQty[l] + take[l])
                 => OnLots(i)' = OnLots(i) + Total(take, LotsOf(i))
  <1>0. OnLots(i)' = Total(lotQty', LotsOf(i)) /\ OnLots(i) = Total(lotQty, LotsOf(i))
    BY DEF OnLots
  <1>1. \A l \in LotsOf(i) : lotQty[l] \in Nat /\ take[l] \in Nat /\ l \in Lots
    BY LotsFinite, TakeNat DEF TypeOK
  <1>2. OnLots(i) \in Nat /\ Total(take, LotsOf(i)) \in Nat /\ IsFiniteSet(LotsOf(i))
    BY OnLotsNat, TakeNat, LotsFinite
  <1>3. ASSUME \A l \in Lots : lotQty'[l] = lotQty[l] - take[l]
        PROVE  OnLots(i)' = OnLots(i) - Total(take, LotsOf(i))
    <2>1. \A l \in LotsOf(i) : lotQty'[l] \in Int /\ take[l] \in Int /\ lotQty[l] = lotQty'[l] + take[l]
      BY <1>1, <1>3
    <2>2. Total(lotQty, LotsOf(i)) = Total(lotQty', LotsOf(i)) + Total(take, LotsOf(i))
      BY <1>2, <2>1, TotalSum
    <2>3. Total(lotQty', LotsOf(i)) \in Int
      BY <1>2, <2>1, TotalType
    <2> QED BY <1>0, <1>2, <2>2, <2>3
  <1>4. ASSUME \A l \in Lots : lotQty'[l] = lotQty[l] + take[l]
        PROVE  OnLots(i)' = OnLots(i) + Total(take, LotsOf(i))
    <2>1. \A l \in LotsOf(i) : lotQty[l] \in Int /\ take[l] \in Int /\ lotQty'[l] = lotQty[l] + take[l]
      BY <1>1, <1>4
    <2> QED BY <1>0, <1>2, <2>1, TotalSum
  <1> QED BY <1>2, <1>3, <1>4

(* A start uses what its own hold covers, and leaves the other holds what   *)
(* they take.                                                              *)
LEMMA StartBacked ==
    ASSUME BackedInv, TypeOK', NEW o \in Orders, StartPreparation(o)
    PROVE  Backed'
  <1>0. /\ TypeOK /\ heldLots \in [Orders -> OrderTakes] /\ heldLots' \in [Orders -> OrderTakes]
        /\ hold \in [Orders -> {"none", "reserved", "released", "consumed"}]
        /\ WithinNeed(heldLots)
    BY DEF BackedInv, Backed, ConservedInv, FollowInv, TypeOK
  <1>1. PICK take \in OrderTakes :
          /\ MayConsume(o, take)
          /\ heldLots' = [heldLots EXCEPT ![o] = take]
          /\ TakeFromLots(take)
    BY DEF StartPreparation
  <1> DEFINE others == LiveOthers(o)
  <1>2. /\ others \in SUBSET Orders /\ o \notin others /\ Holding' = others
        /\ \A p \in others : heldLots'[p] = heldLots[p]
        /\ others \in SUBSET Holding
    BY <1>0, <1>1 DEF LiveOthers, Holding, StartPreparation
  <1>3. /\ \A l \in Lots : take[l] + HeldFrom(heldLots, l, others) <= lotQty[l]
        /\ \A i \in Items :
             /\ Total(take, LotsOf(i)) <= Need[o][i]
             /\ Need[o][i] - Total(take, LotsOf(i)) + HeldLooseIn(heldLots, i, others)
                   <= onHand[i] - OnLots(i)
    BY <1>1, ReservedFits DEF MayConsume
  <1> HIDE DEF others
  <1>4. WithinNeed(heldLots)'
    BY <1>1, <1>3, WithinAfter
  <1>5. \A l \in Lots : lotQty'[l] = lotQty[l] - take[l]
    BY <1>1 DEF TakeFromLots
  <1>6. ASSUME NEW l \in Lots
        PROVE  /\ HeldFrom(heldLots', l, Holding') <= lotQty'[l]
               /\ HeldFrom(heldLots, l, others) \in Nat /\ take[l] \in Nat /\ lotQty[l] \in Nat
    <2>1. HeldFrom(heldLots', l, Holding') = HeldFrom(heldLots, l, others)
      BY <1>2, HeldSame
    <2>2. HeldFrom(heldLots, l, others) \in Nat /\ take[l] \in Nat /\ lotQty[l] \in Nat
      BY <1>0, <1>2, HeldFacts, TakeNat DEF TypeOK
    <2> QED BY <1>3, <1>5, <2>1, <2>2
  <1>7. ASSUME NEW i \in Items
        PROVE  /\ HeldLooseIn(heldLots', i, Holding') <= onHand'[i] - OnLots(i)'
               /\ OnLots(i)' <= onHand'[i]
    <2>1. HeldLooseIn(heldLots', i, Holding') = HeldLooseIn(heldLots, i, others)
      BY <1>2, HeldSame
    <2>2. HeldLooseIn(heldLots, i, others) \in Nat
      BY <1>0, <1>2, HeldFacts
    <2>3. /\ OnLots(i)' = OnLots(i) - Total(take, LotsOf(i))
          /\ OnLots(i) \in Nat /\ Total(take, LotsOf(i)) \in Nat
      BY <1>0, <1>5, OnLotsAfter
    <2>4. onHand'[i] = onHand[i] - Need[o][i] /\ onHand[i] \in Nat /\ Need[o][i] \in Nat
      BY <1>0, OrderStockAssumption DEF StartPreparation, TypeOK
    <2> QED BY <1>3, <2>1, <2>2, <2>3, <2>4
  <1>8. HeldLotsStand'
    <2>1. ASSUME NEW p \in Holding', NEW l \in Lots, heldLots'[p][l] > 0
          PROVE  lotState'[l] = "available" \/ l \in recalled'
      <3>1. p \in Holding /\ p \in others /\ heldLots'[p] = heldLots[p] /\ p \in Orders
        BY <1>2, <2>1
      <3>2. lotState[l] = "available" \/ l \in recalled
        BY <2>1, <3>1 DEF BackedInv, Backed, HeldLotsStand
      <3>3. ~(take[l] > 0 /\ take[l] = lotQty[l])
        <4> DEFINE f == [q \in Orders |-> heldLots[q][l]]
        <4>1. \A q \in Orders : f[q] \in Nat
          BY <1>0, <1>2, HeldFacts
        <4>2. f[p] = heldLots[p][l] /\ HeldFrom(heldLots, l, others) = Total(f, others)
          BY <3>1 DEF HeldFrom
        <4>3. IsFiniteSet(others)
          BY <1>0, <1>2, HeldFacts
        <4> HIDE DEF f
        <4>4. f[p] <= Total(f, others)
          BY <1>2, <3>1, <4>1, <4>3, TotalTerm
        <4>5. f[p] \in Nat /\ f[p] > 0
          BY <2>1, <3>1, <4>1, <4>2
        <4> QED BY <1>3, <1>6, <4>2, <4>4, <4>5
      <3>4. lotState'[l] = lotState[l]
        BY <1>1, <3>3 DEF TakeFromLots
      <3>5. recalled' = recalled
        BY DEF StartPreparation, yardVars
      <3> QED BY <3>2, <3>4, <3>5
    <2> QED BY <2>1 DEF HeldLotsStand
  <1> QED
    BY <1>4, <1>6, <1>7, <1>8
    DEF Backed, LotsBacked, LooseBacked, LotsFit, HeldFrom, HeldLooseIn, LoosePart

LEMMA CancelBacked ==
    ASSUME BackedInv, TypeOK', NEW o \in Orders, Cancel(o)
    PROVE  Backed'
  <1>0. /\ TypeOK /\ heldLots \in [Orders -> OrderTakes]
        /\ hold \in [Orders -> {"none", "reserved", "released", "consumed"}]
        /\ WithinNeed(heldLots)
    BY DEF BackedInv, Backed, ConservedInv, FollowInv, TypeOK
  <1>1. /\ Holding' \subseteq Holding /\ o \notin Holding'
        /\ \A p \in Holding' : heldLots'[p] = heldLots[p]
    BY <1>0 DEF Cancel, ReleaseHold, Holding
  <1>2. WithinNeed(heldLots)'
    BY NoLotsWithin, WithinAfter DEF Cancel
  <1>3. recalled' = recalled /\ heldLots[o] \in OrderTakes
    BY <1>0 DEF Cancel, yardVars
  <1>4. CASE stock[o] = "consumed"
    <2>1. /\ \A l \in Lots : lotQty'[l] = lotQty[l] + heldLots[o][l]
          /\ \A l \in Lots : lotState[l] = "available" => lotState'[l] = "available"
          /\ \A i \in Items : onHand'[i] = onHand[i] + Need[o][i]
      BY <1>4 DEF Cancel, ReturnStock
    <2>2. HeldLotsStand'
      BY <1>1, <1>3, <2>1 DEF BackedInv, Backed, HeldLotsStand
    <2>3. \A l \in Lots : lotQty[l] <= lotQty'[l]
      BY <1>0, <1>3, <2>1, TakeNat DEF TypeOK
    <2>4. ASSUME NEW i \in Items
          PROVE  onHand[i] - OnLots(i) <= onHand'[i] - OnLots(i)'
      <3>1. /\ OnLots(i)' = OnLots(i) + Total(heldLots[o], LotsOf(i))
            /\ OnLots(i) \in Nat /\ Total(heldLots[o], LotsOf(i)) \in Nat
        BY <1>0, <1>3, <2>1, OnLotsAfter
      <3>2. Total(heldLots[o], LotsOf(i)) <= Need[o][i]
        BY <1>0 DEF WithinNeed
      <3>3. onHand[i] \in Nat /\ Need[o][i] \in Nat
        BY <1>0, OrderStockAssumption DEF TypeOK
      <3> QED BY <2>1, <3>1, <3>2, <3>3
    <2> QED BY <1>1, <1>2, <2>2, <2>3, <2>4, BackedStays
  <1>5. CASE stock[o] # "consumed"
    <2>1. UNCHANGED shelfVars
      BY <1>5 DEF Cancel
    <2>2. HeldLotsStand'
      BY <1>1, <1>3, <2>1 DEF BackedInv, Backed, HeldLotsStand, shelfVars
    <2>3. \A l \in Lots : lotQty[l] <= lotQty'[l]
      BY <1>0, <2>1 DEF TypeOK, shelfVars
    <2>4. \A i \in Items : onHand[i] - OnLots(i) <= onHand'[i] - OnLots(i)'
      BY <1>0, <2>1, OnLotsNat DEF TypeOK, OnLots, shelfVars
    <2> QED BY <1>1, <1>2, <2>2, <2>3, <2>4, BackedStays
  <1> QED BY <1>4, <1>5

LEMMA LapseBacked ==
    ASSUME BackedInv, TypeOK', NEW o \in Orders, LapseHold(o)
    PROVE  Backed'
  <1>0. TypeOK /\ heldLots \in [Orders -> OrderTakes] /\ hold \in [Orders -> {"none", "reserved", "released", "consumed"}]
    BY DEF BackedInv, ConservedInv, FollowInv, TypeOK
  <1>1. /\ Holding' \subseteq Holding
        /\ \A p \in Holding' : heldLots'[p] = heldLots[p]
    BY <1>0 DEF LapseHold, Holding
  <1>2. WithinNeed(heldLots)'
    BY NoLotsWithin, WithinAfter DEF LapseHold
  <1>3. UNCHANGED <<shelfVars, recalled>>
    BY DEF LapseHold, yardVars
  <1>4. HeldLotsStand'
    BY <1>1, <1>3 DEF BackedInv, Backed, HeldLotsStand, shelfVars
  <1>5. \A l \in Lots : lotQty[l] <= lotQty'[l]
    BY <1>0, <1>3 DEF TypeOK, shelfVars
  <1>6. \A i \in Items : onHand[i] - OnLots(i) <= onHand'[i] - OnLots(i)'
    BY <1>0, <1>3, OnLotsNat DEF TypeOK, OnLots, shelfVars
  <1> QED BY <1>1, <1>2, <1>4, <1>5, <1>6, BackedStays

LEMMA LotStepBacked ==
    ASSUME BackedInv, TypeOK', ShelfOps \cap Removals = {}, NEW l \in Lots, LotStep(l)
    PROVE  Backed'
  <1>0. /\ TypeOK /\ LotItem[l] \in Items /\ lotQty \in [Lots -> Nat] /\ onHand \in [Items -> Nat]
        /\ LotSize[l] \in Nat /\ lotState \in [Lots -> LotStates]
    BY PlanningAssumption, OrderStockAssumption DEF BackedInv, ConservedInv, FollowInv, TypeOK
  <1>1. ASSUME ReceiveLot(l) PROVE Backed'
    <2>1. /\ UNCHANGED <<holdVars, recalled>>
          /\ lotQty' = [lotQty EXCEPT ![l] = LotSize[l]]
          /\ onHand' = [onHand EXCEPT ![LotItem[l]] = onHand[LotItem[l]] + LotSize[l]]
          /\ lotState' = [lotState EXCEPT ![l] = "available"]
          /\ lotQty[l] = 0
      BY <1>1 DEF ReceiveLot, MoveItem, yardVars, BackedInv, ConservedInv, Conserved, UnreceivedEmpty
    <2>2. WithinNeed(heldLots)' /\ HeldLotsStand' /\ Holding' = Holding
      BY <1>0, <2>1 DEF BackedInv, Backed, WithinNeed, HeldLotsStand, holdVars, Holding
    <2>3. \A k \in Lots : lotQty[k] <= lotQty'[k]
      BY <1>0, <2>1
    <2>4. ASSUME NEW i \in Items
          PROVE  onHand[i] - OnLots(i) <= onHand'[i] - OnLots(i)'
      <3>0. /\ OnLots(i) = Total(lotQty, LotsOf(i)) /\ OnLots(i)' = Total(lotQty', LotsOf(i))
            /\ OnLots(i) \in Nat
        BY <1>0, OnLotsNat DEF OnLots
      <3>1. CASE LotItem[l] = i
        <4>1. l \in LotsOf(i) /\ \A k \in LotsOf(i) : lotQty[k] \in Int
          BY <1>0, <3>1, LotsFinite DEF LotsOf
        <4>2. /\ lotQty'[l] = LotSize[l] /\ lotQty'[l] \in Int
              /\ \A k \in LotsOf(i) \ {l} : lotQty'[k] = lotQty[k]
          BY <1>0, <2>1, LotsFinite
        <4>3. Total(lotQty', LotsOf(i)) = Total(lotQty, LotsOf(i)) + lotQty'[l] - lotQty[l]
          BY <4>1, <4>2, LotsFinite, TotalChange
        <4> QED BY <1>0, <2>1, <3>0, <3>1, <4>2, <4>3
      <3>2. CASE LotItem[l] # i
        <4>1. \A k \in LotsOf(i) : lotQty'[k] = lotQty[k]
          BY <1>0, <2>1, <3>2, LotsFinite DEF LotsOf
        <4>2. Total(lotQty', LotsOf(i)) = Total(lotQty, LotsOf(i))
          BY <4>1, LotsFinite, TotalSame
        <4> QED BY <1>0, <2>1, <3>0, <3>2, <4>2
      <3> QED BY <3>1, <3>2
    <2> QED BY <2>1, <2>2, <2>3, <2>4, BackedStays DEF holdVars
  <1>2. ASSUME RecallLot(l) PROVE Backed'
    BY <1>0, <1>2, BackedUntouched DEF RecallLot
  <1>3. ASSUME LotExpires(l) PROVE Backed'
    BY <1>3, BackedUntouched DEF LotExpires, shelfVars
  <1>4. ASSUME NEW q \in 1..MaxCount, NEW onlyExpired \in BOOLEAN, RecordLotLoss(l, q, onlyExpired)
        PROVE  FALSE
    BY <1>4 DEF RecordLotLoss, Removals
  <1> QED BY <1>1, <1>2, <1>3, <1>4 DEF LotStep

LEMMA ItemStepBacked ==
    ASSUME BackedInv, TypeOK', ShelfOps \cap Removals = {}, NEW i \in Items, ItemStep(i)
    PROVE  Backed'
  <1>1. \E q \in 1..MaxWithheld : Withhold(i, q) \/ PutBack(i, q)
    BY DEF ItemStep, RecordLoss, RecordCount, SellAtCounter, SetMarketStock, Removals
  <1>2. UNCHANGED <<holdVars, shelfVars, recalled>>
    BY <1>1 DEF Withhold, PutBack
  <1> QED BY <1>2, BackedUntouched DEF shelfVars

LEMMA InitBacked == Init => Backed
  <1> SUFFICES ASSUME Init PROVE Backed
    OBVIOUS
  <1>0. TypeOK
    BY InitType
  <1>1. Holding = {}
    BY DEF Init, Holding
  <1>2. WithinNeed(heldLots)
    BY NoLotsWithin DEF Init, WithinNeed
  <1>3. ASSUME NEW i \in Items PROVE OnLots(i) <= onHand[i] /\ OnLots(i) \in Nat /\ onHand[i] \in Nat
    <2> DEFINE opening == LotsOf(i) \cap OpeningLots
               rest == LotsOf(i) \ OpeningLots
    <2>1. /\ IsFiniteSet(opening) /\ IsFiniteSet(rest) /\ LotsOf(i) = opening \cup rest
          /\ opening \cap rest = {}
      BY LotsFinite, FS_Subset
    <2>2. /\ \A l \in opening : lotQty[l] = LotSize[l]
          /\ \A l \in rest : lotQty[l] = 0
          /\ \A l \in opening \cup rest : lotQty[l] \in Int
      BY <1>0, LotsFinite DEF Init, TypeOK
    <2>3. Total(LotSize, opening) <= OpeningStock[i]
      BY OrderStockAssumption
    <2> HIDE DEF opening, rest
    <2>4. Total(lotQty, opening \cup rest) = Total(lotQty, opening) + Total(lotQty, rest)
      BY <2>1, <2>2, TotalUnion
    <2>5. Total(lotQty, opening) = Total(LotSize, opening) /\ Total(lotQty, rest) = 0
      BY <2>1, <2>2, TotalSame, TotalZero
    <2>6. OnLots(i) = Total(lotQty, opening \cup rest)
      BY <2>1, Zenon DEF OnLots
    <2>7. OnLots(i) \in Nat /\ onHand[i] = OpeningStock[i] /\ onHand[i] \in Nat
      BY <1>0, OnLotsNat DEF Init, TypeOK
    <2>8. Total(lotQty, opening) \in Int
      BY <2>1, <2>2, TotalType
    <2> QED BY <2>3, <2>4, <2>5, <2>6, <2>7, <2>8
  <1>4. /\ \A l \in Lots : HeldFrom(heldLots, l, Holding) = 0
        /\ \A i \in Items : HeldLooseIn(heldLots, i, Holding) = 0
    BY <1>1, TotalEmpty DEF HeldFrom, HeldLooseIn
  <1>5. LotsBacked
    BY <1>0, <1>4 DEF LotsBacked, TypeOK
  <1>6. LooseBacked /\ LotsFit
    BY <1>3, <1>4 DEF LooseBacked, LotsFit
  <1> QED BY <1>1, <1>2, <1>5, <1>6 DEF Backed, HeldLotsStand

LEMMA StepBacked ==
    ASSUME BackedInv, TypeOK', ShelfOps \cap Removals = {}, [Next]_vars
    PROVE  Backed'
  <1>1. ASSUME NEW o \in Orders, NEW t \in AllowedTerms, PlaceOrder(o, t) PROVE Backed'
    BY <1>1, ReserveBacked DEF PlaceOrder, yardVars
  <1>2. ASSUME NEW o \in Orders, NEW manual \in BOOLEAN, ConfirmPresence(o, manual)
        PROVE  Backed'
    BY <1>2, ReserveBacked DEF ConfirmPresence, yardVars
  <1>3. ASSUME UNCHANGED <<holdVars, shelfVars, yardVars>> PROVE Backed'
    BY <1>3, BackedUntouched DEF shelfVars, yardVars
  <1>4. ASSUME NEW o \in Orders, NEW amount \in 1..OrderTotal[o], RecordPayment(o, amount)
        PROVE  Backed'
    BY <1>3, <1>4, ReserveBacked DEF RecordPayment, yardVars
  <1>5. ASSUME NEW o \in Orders,
               CheckIn(o) \/ MarkReady(o) \/ HandOff(o)
               \/ (\E allowCredit \in BOOLEAN : Complete(o, allowCredit))
        PROVE  Backed'
    BY <1>3, <1>5 DEF CheckIn, MarkReady, HandOff, Complete
  <1>6. CASE UNCHANGED vars
    BY <1>3, <1>6 DEF vars
  <1> QED
    BY <1>1, <1>2, <1>4, <1>5, <1>6, StartBacked, CancelBacked, LapseBacked,
       ItemStepBacked, LotStepBacked, NextCases

LEMMA BackedIsInductive ==
    ASSUME ShelfOps \cap Removals = {}
    PROVE  /\ Init => BackedInv
           /\ BackedInv /\ [Next]_vars => BackedInv'
  <1>1. Init => BackedInv
    BY InitType, InitFollows, InitConserved, InitBacked DEF BackedInv, ConservedInv, FollowInv
  <1>2. BackedInv /\ [Next]_vars => BackedInv'
    BY StepType, StepFollows, StepConserved, StepBacked DEF BackedInv, ConservedInv, FollowInv
  <1> QED BY <1>1, <1>2

(* The needs under live holds: what they take from lots and what they take  *)
(* loose, lot by lot instead of order by order.                             *)
LEMMA NeedsOnHand ==
    ASSUME BackedInv, NEW i \in Items
    PROVE  /\ Total([o \in Orders |-> Need[o][i]], Holding) <= onHand[i]
           /\ Total([o \in Orders |-> HeldLoose(o, i)], Holding) <= Loose(onHand[i], lotQty, i)
  <1>0. /\ TypeOK /\ heldLots \in [Orders -> OrderTakes] /\ WithinNeed(heldLots)
        /\ Holding \in SUBSET Orders /\ IsFiniteSet(LotsOf(i)) /\ LotsOf(i) \subseteq Lots
    BY LotsFinite DEF BackedInv, Backed, ConservedInv, FollowInv, TypeOK, Holding
  <1>1. /\ IsFiniteSet(Holding)
        /\ \A o \in Orders, l \in Lots : heldLots[o][l] \in Nat
        /\ \A o \in Orders : LoosePart(heldLots, o, i) \in Nat
        /\ HeldLooseIn(heldLots, i, Holding) \in Nat
    BY <1>0, HeldFacts
  <1> DEFINE need == [o \in Orders |-> Need[o][i]]
             onlots == [o \in Orders |-> Total(heldLots[o], LotsOf(i))]
             loose == [o \in Orders |-> LoosePart(heldLots, o, i)]
             perLot == [l \in Lots |-> HeldFrom(heldLots, l, Holding)]
             column == [l \in Lots |-> [o \in Orders |-> heldLots[o][l]]]
  <1>2. \A o \in Holding : onlots[o] \in Int /\ loose[o] \in Int /\ need[o] = onlots[o] + loose[o]
    <2>1. \A o \in Orders : Total(heldLots[o], LotsOf(i)) \in Nat /\ Need[o][i] \in Nat
      BY <1>0, TakeNat, OrderStockAssumption
    <2> QED BY <1>0, <1>1, <2>1 DEF LoosePart
  <1>3. \A o \in Holding : onlots[o] = Total(heldLots[o], LotsOf(i))
    BY <1>0
  <1>4. \A l \in LotsOf(i) : perLot[l] = Total(column[l], Holding)
    BY <1>0 DEF HeldFrom
  <1>5. \A l \in LotsOf(i) : perLot[l] \in Int /\ lotQty[l] \in Int /\ perLot[l] <= lotQty[l]
    <2>1. \A l \in Lots : HeldFrom(heldLots, l, Holding) \in Nat /\ lotQty[l] \in Nat
      BY <1>0, HeldFacts DEF TypeOK
    <2> QED BY <1>0, <2>1 DEF BackedInv, Backed, LotsBacked
  <1>6. Total(loose, Holding) = HeldLooseIn(heldLots, i, Holding)
    BY DEF HeldLooseIn
  <1>7. \A o \in Holding, l \in LotsOf(i) :
          heldLots[o][l] \in Int /\ column[l][o] = heldLots[o][l]
    BY <1>0, <1>1
  <1> HIDE DEF need, onlots, loose, perLot, column
  <1>8. Total(need, Holding) = Total(onlots, Holding) + Total(loose, Holding)
    BY <1>1, <1>2, TotalSum
  <1>9. Total(onlots, Holding) = Total(perLot, LotsOf(i))
    <2>1. TableSums(heldLots, column, onlots, perLot, Holding, LotsOf(i))
      BY <1>3, <1>4, <1>7 DEF TableSums
    <2> QED BY <1>0, <1>1, <2>1, TotalSwap
  <1>10. Total(perLot, LotsOf(i)) <= Total(lotQty, LotsOf(i))
    BY <1>0, <1>5, TotalMonotonic
  <1>11. Total(perLot, LotsOf(i)) \in Int /\ OnLots(i) = Total(lotQty, LotsOf(i))
         /\ OnLots(i) \in Nat /\ onHand[i] \in Nat
    BY <1>0, <1>5, TotalType, OnLotsNat DEF OnLots, TypeOK
  <1>12. HeldLooseIn(heldLots, i, Holding) <= onHand[i] - OnLots(i)
    BY DEF BackedInv, Backed, LooseBacked
  <1>13. Total(need, Holding) <= onHand[i]
    BY <1>1, <1>6, <1>8, <1>9, <1>10, <1>11, <1>12
  <1>14. HeldLooseIn(heldLots, i, Holding) <= Loose(onHand[i], lotQty, i)
    BY <1>1, <1>11, <1>12 DEF Loose, AtLeastZero
  <1> QED BY <1>13, <1>14 DEF need, HeldLooseIn, LoosePart, HeldLoose

(* As long as only orders remove stock, no stock is promised twice.         *)
THEOREM HoldsAreBacked ==
    ASSUME ShelfOps \cap Removals = {}
    PROVE  Spec => []ReservationsBacked
  <1>1. Init => BackedInv
    BY BackedIsInductive
  <1>2. BackedInv /\ [Next]_vars => BackedInv'
    BY BackedIsInductive
  <1>3. BackedInv => ReservationsBacked
    BY NeedsOnHand DEF ReservationsBacked, BackedInv, Backed, LotsBacked, HeldFrom
  <1> QED BY <1>1, <1>2, <1>3, PTL DEF Spec

(* As long as only orders remove stock, a live hold on lots nobody recalled *)
(* is enough to start.                                                     *)
THEOREM HoldsCanStart ==
    ASSUME ShelfOps \cap Removals = {}
    PROVE  Spec => []LiveHoldCanStart
  <1>1. Init => BackedInv
    BY BackedIsInductive
  <1>2. BackedInv /\ [Next]_vars => BackedInv'
    BY BackedIsInductive
  <1>3. BackedInv => LiveHoldCanStart
    <2> SUFFICES ASSUME BackedInv, NEW o \in Orders,
                        hold[o] = "reserved", HeldLotsNotRecalled(o)
                 PROVE  MayConsume(o, heldLots[o])
      BY DEF LiveHoldCanStart
    <2>0. /\ TypeOK /\ heldLots \in [Orders -> OrderTakes] /\ WithinNeed(heldLots)
          /\ Holding \in SUBSET Orders /\ o \in Holding
      BY DEF BackedInv, Backed, ConservedInv, FollowInv, TypeOK, Holding
    <2>1. ASSUME NEW i \in Items PROVE Need[o][i] <= onHand[i]
      <3> DEFINE need == [p \in Orders |-> Need[p][i]]
      <3>1. /\ \A p \in Holding : need[p] \in Nat
            /\ need[o] = Need[o][i] /\ Need[o][i] \in Nat /\ onHand[i] \in Nat
        BY <2>0, OrderStockAssumption DEF TypeOK
      <3>2. Total(need, Holding) <= onHand[i]
        BY NeedsOnHand
      <3> HIDE DEF need
      <3>3. need[o] <= Total(need, Holding) /\ Total(need, Holding) \in Nat
        BY <2>0, <3>1, HeldFacts, TotalTerm, TotalNat
      <3> QED BY <3>1, <3>2, <3>3
    <2>2. ASSUME NEW l \in Lots, heldLots[o][l] > 0
          PROVE  lotState[l] = "available" /\ heldLots[o][l] <= lotQty[l]
      <3>1. lotState[l] = "available"
        BY <2>0, <2>2 DEF HeldLotsNotRecalled, BackedInv, Backed, HeldLotsStand
      <3> DEFINE f == [p \in Orders |-> heldLots[p][l]]
      <3>2. /\ \A p \in Holding : f[p] \in Nat
            /\ f[o] = heldLots[o][l]
            /\ HeldFrom(heldLots, l, Holding) = Total(f, Holding)
        BY <2>0, HeldFacts DEF HeldFrom
      <3>3. HeldFrom(heldLots, l, Holding) <= lotQty[l] /\ lotQty[l] \in Nat
        BY <2>0 DEF BackedInv, Backed, LotsBacked, TypeOK
      <3> HIDE DEF f
      <3>4. f[o] <= Total(f, Holding) /\ Total(f, Holding) \in Nat
        BY <2>0, <3>2, HeldFacts, TotalTerm, TotalNat
      <3> QED BY <2>0, <3>1, <3>2, <3>3, <3>4
    <2> QED
      BY <2>1, <2>2 DEF MayConsume, MayReserve, LotsStillThere
  <1> QED BY <1>1, <1>2, <1>3, PTL DEF Spec
=============================================================================
