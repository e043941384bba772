-------------------------- MODULE CountSessionProofs -------------------------
(* Theorems about places, transfers and counts for every set of places,     *)
(* items, lots and orders.  The balances (PlacesInv) need nothing of the     *)
(* orders; that counts respect live holds needs OrderStockProofs' BackedInv. *)
EXTENDS CountSession, OrderStockProofs

(* The walk over the places.  before[p]: the places that are drained before *)
(* p, of a strict total order.                                             *)
Ordered(before, S) ==
    /\ \A p \in S : before[p] \in SUBSET S /\ p \notin before[p]
    /\ \A p, q \in S : p = q \/ p \in before[q] \/ q \in before[p]
    /\ \A p, q \in S : p \in before[q] => before[p] \subseteq before[q]

(* A non-empty set of places has a last one.                                *)
LEMMA LastPlace ==
    ASSUME NEW before, NEW S, IsFiniteSet(S), Ordered(before, S), NEW A \in SUBSET S, A # {}
    PROVE  \E m \in A : \A q \in A \ {m} : q \in before[m]
  <1> DEFINE hasLast(B) == B = {} \/ \E m \in B : \A q \in B \ {m} : q \in before[m]
             T == {B \in SUBSET S : hasLast(B)}
  <1>1. {} \in T
    OBVIOUS
  <1>2. ASSUME NEW B \in SUBSET S, NEW x \in S, B \in T, x \notin B
        PROVE  B \cup {x} \in T
    <2>1. CASE B = {}
      BY <2>1
    <2>2. CASE B # {}
      <3>1. PICK m \in B : \A q \in B \ {m} : q \in before[m]
        BY <1>2, <2>2
      <3>2. m \in S /\ m # x /\ (m \in before[x] \/ x \in before[m])
        BY <1>2 DEF Ordered
      <3>3. CASE x \in before[m]
        <4>1. \A q \in (B \cup {x}) \ {m} : q \in before[m]
          BY <3>1, <3>3
        <4> QED BY <4>1
      <3>4. CASE m \in before[x]
        <4>1. before[m] \subseteq before[x]
          BY <3>2, <3>4 DEF Ordered
        <4>2. \A q \in (B \cup {x}) \ {x} : q \in before[x]
          BY <3>1, <3>4, <4>1
        <4> QED BY <4>2
      <3> QED BY <3>2, <3>3, <3>4
    <2> QED BY <2>1, <2>2
  <1>3. A \in T
    <2> HIDE DEF T
    <2>1. \A B \in SUBSET S : B \in T
      BY <1>1, <1>2, SubsetInduction
    <2> QED BY <2>1
  <1> QED BY <1>3

(* The walk takes from the places it has passed what it was asked for, or   *)
(* all they hold.                                                          *)
LEMMA DrainTakes ==
    ASSUME NEW bal, NEW before, NEW n \in Nat,
           \A p \in Places : bal[p] \in Nat, Ordered(before, Places)
    PROVE  /\ \A p \in Places : Drain(bal, before, n)[p] \in Nat /\ Drain(bal, before, n)[p] <= bal[p]
           /\ Total(Drain(bal, before, n), Places) = Lesser(n, Total(bal, Places))
  <1> DEFINE drain == Drain(bal, before, n)
             closed(A) == \A p \in A : before[p] \subseteq A
             Bad == {A \in SUBSET Places : closed(A) /\ Total(drain, A) # Lesser(n, Total(bal, A))}
  <1>0. IsFiniteSet(Places) /\ \A A \in SUBSET Places : IsFiniteSet(A) /\ Total(bal, A) \in Nat
    <2>1. \A A \in SUBSET Places : IsFiniteSet(A)
      BY PlacesAssumption, FS_Subset
    <2> QED BY <2>1, PlacesAssumption, TotalNat
  <1>1. ASSUME NEW p \in Places
        PROVE  /\ drain[p] = Lesser(bal[p], AtLeastZero(n - Total(bal, before[p])))
               /\ drain[p] \in Nat /\ drain[p] <= bal[p]
    <2>1. Total(bal, before[p]) \in Nat
      BY <1>0 DEF Ordered
    <2> QED BY <2>1 DEF Drain, Lesser, AtLeastZero
  <1>2. Bad = {}
    <2> SUFFICES ASSUME Bad # {} PROVE FALSE
      OBVIOUS
    <2>1. PICK A \in Bad : \A B \in Bad : B \subseteq A => B = A
      <3>1. Bad \in SUBSET (SUBSET Places)
        OBVIOUS
      <3> HIDE DEF Bad
      <3> QED BY <1>0, <3>1, SmallestSubset
    <2>2. A # {}
      <3>1. Total(drain, {}) = 0 /\ Total(bal, {}) = 0
        BY TotalEmpty
      <3>2. Total(drain, {}) = Lesser(n, Total(bal, {}))
        BY <3>1 DEF Lesser
      <3> QED BY <2>1, <3>2
    <2>3. PICK m \in A : \A q \in A \ {m} : q \in before[m]
      BY <1>0, <2>1, <2>2, LastPlace
    <2>4. m \in Places /\ before[m] = A \ {m}
      BY <2>1, <2>3 DEF Ordered
    <2>5. closed(A \ {m})
      BY <2>1, <2>3, <2>4 DEF Ordered
    <2>6. Total(drain, A \ {m}) = Lesser(n, Total(bal, A \ {m}))
      <3>1. A \ {m} # A /\ A \ {m} \in SUBSET Places /\ A \ {m} \subseteq A
        BY <2>1, <2>3
      <3>2. A \ {m} \notin Bad
        BY <2>1, <3>1
      <3> QED BY <2>5, <3>1, <3>2
    <2>7. /\ IsFiniteSet(A) /\ A \in SUBSET Places
          /\ \A p \in A : drain[p] \in Int /\ bal[p] \in Int
      BY <1>0, <1>1, <2>1
    <2> HIDE DEF drain
    <2>8. /\ Total(drain, A) = drain[m] + Total(drain, A \ {m})
          /\ Total(bal, A) = bal[m] + Total(bal, A \ {m})
      BY <2>3, <2>7, TotalSplit
    <2>9. drain[m] = Lesser(bal[m], AtLeastZero(n - Total(bal, A \ {m})))
      <3>1. Total(bal, before[m]) = Total(bal, A \ {m})
        BY <2>4, Zenon
      <3> QED BY <1>1, <2>4, <3>1
    <2>10. bal[m] \in Nat /\ Total(bal, A \ {m}) \in Nat
      BY <1>0, <2>1, <2>4
    <2>11. Total(drain, A) = Lesser(n, Total(bal, A))
      BY <2>6, <2>8, <2>9, <2>10 DEF Lesser, AtLeastZero
    <2> QED BY <2>1, <2>11
  <1>3. Total(drain, Places) = Lesser(n, Total(bal, Places))
    <2>1. closed(Places)
      BY DEF Ordered
    <2> QED BY <1>2, <2>1
  <1> QED BY <1>1, <1>3

(* Both drain orders are such orders.                                       *)
LEMMA DrainOrders ==
    ASSUME NEW bal \in [Places -> Nat], NEW h \in Places
    PROVE  /\ Ordered([p \in Places |-> {q \in Places : HomeThenFuller(bal, h, q, p)}], Places)
           /\ Ordered([p \in Places |-> {q \in Places : Fuller(bal, q, p)}], Places)
  <1>1. /\ \A p \in Places : ~Fuller(bal, p, p)
        /\ \A p, q \in Places : p = q \/ Fuller(bal, p, q) \/ Fuller(bal, q, p)
        /\ \A p, q, r \in Places : Fuller(bal, r, p) /\ Fuller(bal, p, q) => Fuller(bal, r, q)
    BY PlacesAssumption DEF Fuller
  <1>2. /\ \A p \in Places : ~HomeThenFuller(bal, h, p, p)
        /\ \A p, q \in Places : p = q \/ HomeThenFuller(bal, h, p, q) \/ HomeThenFuller(bal, h, q, p)
        /\ \A p, q, r \in Places :
             HomeThenFuller(bal, h, r, p) /\ HomeThenFuller(bal, h, p, q) => HomeThenFuller(bal, h, r, q)
    BY <1>1 DEF HomeThenFuller
  <1>3. Ordered([p \in Places |-> {q \in Places : Fuller(bal, q, p)}], Places)
    BY <1>1 DEF Ordered
  <1>4. Ordered([p \in Places |-> {q \in Places : HomeThenFuller(bal, h, q, p)}], Places)
    BY <1>2 DEF Ordered
  <1> QED BY <1>3, <1>4

(* Reconciled balances are never negative and add up to the quantity.       *)
LEMMA Settles ==
    ASSUME NEW bal \in [Places -> Nat], NEW h \in Places, NEW target \in Nat
    PROVE  /\ ItemChange(bal, h, target) \in [Places -> Int]
           /\ LotChange(bal, h, target) \in [Places -> Int]
           /\ SettledItem(bal, h, target) \in [Places -> Nat]
           /\ SettledLot(bal, h, target) \in [Places -> Nat]
           /\ AddsUp(SettledItem(bal, h, target), target)
           /\ AddsUp(SettledLot(bal, h, target), target)
  <1> DEFINE gap == target - Total(bal, Places)
             itemDrain == DrainItem(bal, h, -gap)
             lotDrain == DrainLot(bal, -gap)
  <1>0. IsFiniteSet(Places) /\ Total(bal, Places) \in Nat
    BY PlacesAssumption, TotalNat
  <1>1. CASE gap >= 0
    <2> DEFINE up == OnlyAt(h, gap)
               settled == [p \in Places |-> bal[p] + up[p]]
    <2>1. gap \in Nat
      BY <1>0, <1>1
    <2>2. ItemChange(bal, h, target) = up /\ LotChange(bal, h, target) = up
      BY <1>1 DEF ItemChange, LotChange
    <2>3. up \in [Places -> Nat] /\ up[h] = gap /\ \A p \in Places \ {h} : up[p] = 0
      BY <2>1 DEF OnlyAt
    <2> HIDE DEF gap, up
    <2>4. settled \in [Places -> Nat] /\ \A p \in Places : settled[p] = bal[p] + up[p]
      BY <2>3
    <2>5. \A p \in Places : bal[p] \in Int /\ up[p] \in Int /\ settled[p] = bal[p] + up[p]
      BY <2>3, <2>4
    <2>6. SettledItem(bal, h, target) = settled /\ SettledLot(bal, h, target) = settled
      BY <2>2 DEF SettledItem, SettledLot
    <2> HIDE DEF settled
    <2>7. Total(settled, Places) = Total(bal, Places) + Total(up, Places)
      BY <1>0, <2>5, TotalSum
    <2>8. Total(up, Places) = gap
      BY <1>0, <2>1, <2>3, TotalSingle
    <2>9. AddsUp(settled, target)
      BY <1>0, <2>7, <2>8 DEF AddsUp, gap
    <2> QED BY <2>2, <2>3, <2>4, <2>6, <2>9
  <1>2. CASE gap < 0
    <2>0. -gap \in Nat /\ Lesser(-gap, Total(bal, Places)) = -gap
      BY <1>0, <1>2 DEF Lesser
    <2>1. ASSUME NEW drain,
                 \A p \in Places : drain[p] \in Nat /\ drain[p] <= bal[p],
                 Total(drain, Places) = -gap
          PROVE  /\ [p \in Places |-> -drain[p]] \in [Places -> Int]
                 /\ [p \in Places |-> bal[p] + [r \in Places |-> -drain[r]][p]] \in [Places -> Nat]
                 /\ AddsUp([p \in Places |-> bal[p] + [r \in Places |-> -drain[r]][p]], target)
      <3> DEFINE settled == [p \in Places |-> bal[p] + [r \in Places |-> -drain[r]][p]]
      <3>1. settled \in [Places -> Nat] /\ \A p \in Places : bal[p] = settled[p] + drain[p]
        BY <2>1
      <3>2. \A p \in Places : settled[p] \in Int /\ drain[p] \in Int /\ bal[p] = settled[p] + drain[p]
        BY <2>1, <3>1
      <3>3. [p \in Places |-> -drain[p]] \in [Places -> Int]
        BY <2>1
      <3> HIDE DEF settled
      <3>4. Total(bal, Places) = Total(settled, Places) + Total(drain, Places)
        BY <1>0, <3>2, TotalSum
      <3>5. Total(settled, Places) \in Int
        BY <1>0, <3>2, TotalType
      <3>6. AddsUp(settled, target)
        BY <1>0, <2>1, <3>4, <3>5 DEF AddsUp
      <3> QED BY <3>1, <3>3, <3>6 DEF settled
    <2>2. /\ \A p \in Places : itemDrain[p] \in Nat /\ itemDrain[p] <= bal[p]
          /\ Total(itemDrain, Places) = -gap
      <3> DEFINE before == [p \in Places |-> {q \in Places : HomeThenFuller(bal, h, q, p)}]
      <3>1. Ordered(before, Places)
        BY DrainOrders
      <3>2. itemDrain = Drain(bal, before, -gap)
        BY DEF DrainItem
      <3> HIDE DEF before, itemDrain
      <3> QED BY <2>0, <3>1, <3>2, DrainTakes
    <2>3. /\ \A p \in Places : lotDrain[p] \in Nat /\ lotDrain[p] <= bal[p]
          /\ Total(lotDrain, Places) = -gap
      <3> DEFINE before == [p \in Places |-> {q \in Places : Fuller(bal, q, p)}]
      <3>1. Ordered(before, Places)
        BY DrainOrders
      <3>2. lotDrain = Drain(bal, before, -gap)
        BY DEF DrainLot
      <3> HIDE DEF before, lotDrain
      <3> QED BY <2>0, <3>1, <3>2, DrainTakes
    <2>4. /\ ItemChange(bal, h, target) = [p \in Places |-> -itemDrain[p]]
          /\ LotChange(bal, h, target) = [p \in Places |-> -lotDrain[p]]
      BY <1>0, <1>2 DEF ItemChange, LotChange
    <2>5. /\ SettledItem(bal, h, target) = [p \in Places |-> bal[p] + [r \in Places |-> -itemDrain[r]][p]]
          /\ SettledLot(bal, h, target) = [p \in Places |-> bal[p] + [r \in Places |-> -lotDrain[r]][p]]
      BY <2>4 DEF SettledItem, SettledLot
    <2> HIDE DEF gap, itemDrain, lotDrain
    <2> QED BY <2>1, <2>2, <2>3, <2>4, <2>5
  <1> QED BY <1>0, <1>1, <1>2

(* Moving stock from one place to another keeps the total.                  *)
LEMMA MoveKeeps ==
    ASSUME NEW bal \in [Places -> Nat], NEW src \in Places, NEW dst \in Places, src # dst,
           NEW q \in Nat, q <= bal[src]
    PROVE  /\ Move(bal, src, dst, q) \in [Places -> Nat]
           /\ Total(Move(bal, src, dst, q), Places) = Total(bal, Places)
  <1> DEFINE taken == [bal EXCEPT ![src] = @ - q]
             moved == Move(bal, src, dst, q)
  <1>1. /\ taken \in [Places -> Nat] /\ taken[src] = bal[src] - q /\ taken[dst] = bal[dst]
        /\ \A p \in Places \ {src} : taken[p] = bal[p]
    OBVIOUS
  <1>2. /\ moved \in [Places -> Nat] /\ moved[dst] = taken[dst] + q
        /\ \A p \in Places \ {dst} : moved[p] = taken[p]
    BY DEF Move
  <1> HIDE DEF taken, moved
  <1>3. Total(taken, Places) = Total(bal, Places) + taken[src] - bal[src]
    BY <1>1, PlacesAssumption, TotalChange
  <1>4. Total(moved, Places) = Total(taken, Places) + moved[dst] - taken[dst]
    BY <1>1, <1>2, PlacesAssumption, TotalChange
  <1>5. Total(bal, Places) \in Nat
    BY PlacesAssumption, TotalNat
  <1> QED BY <1>1, <1>2, <1>3, <1>4, <1>5 DEF moved

-----------------------------------------------------------------------------
(* What the rows of transfers, the page's repair and the session hold.      *)
Moves == {m \in [state : {"done"}, item : Items, src : Places, dst : Places,
                 q : Nat, lots : [Lots -> Nat]] : m.src # m.dst}

TransfersOK == \A t \in Transfers : transfer[t] \in Moves \cup {NoTransfer, [state |-> "reversed"]}

RepairOK ==
    repair \in {IdleRepair}
        \cup [phase : {"next"}, todo : SUBSET (Items \cup Lots)]
        \cup [phase : {"read"}, todo : SUBSET (Items \cup Lots), target : Items \cup Lots,
              canonical : Nat]
        \cup [phase : {"write"}, todo : SUBSET (Items \cup Lots), target : Items \cup Lots,
              change : [Places -> Int]]

Counts == Nat \cup {Absent}

SessionOK ==
    /\ session \in {NoSession, [status |-> "posted"]}
        \cup [status : {"in_progress", "review"}, scope : Places \cup {Everywhere},
              expected : [Items -> Counts], counted : [Items -> Counts]]
    /\ session.status = "review" => AllCounted

PlacesInv ==
    /\ TypeOK
    /\ at \in [Items -> [Places -> Nat]]
    /\ lotAt \in [Lots -> [Places -> Nat]]
    /\ home \in [Items -> Places]
    /\ DOMAIN transfer = Transfers /\ TransfersOK
    /\ RepairOK
    /\ SessionOK

LEMMA SettledFacts ==
    ASSUME PlacesInv
    PROVE  /\ Settled \in [Items -> [Places -> Nat]]
           /\ LotsSettled \in [Lots -> [Places -> Nat]]
           /\ \A i \in Items : AddsUp(Settled[i], onHand[i])
           /\ \A l \in Lots : AddsUp(LotsSettled[l], lotQty[l])
           /\ \A l \in Lots, p \in Places : LotsSettled[l][p] <= lotQty[l]
  <1>1. ASSUME NEW i \in Items
        PROVE  /\ SettledItem(at[i], home[i], onHand[i]) \in [Places -> Nat]
               /\ AddsUp(SettledItem(at[i], home[i], onHand[i]), onHand[i])
    BY Settles DEF PlacesInv, TypeOK
  <1>2. ASSUME NEW l \in Lots
        PROVE  /\ SettledLot(lotAt[l], home[LotItem[l]], lotQty[l]) \in [Places -> Nat]
               /\ AddsUp(SettledLot(lotAt[l], home[LotItem[l]], lotQty[l]), lotQty[l])
    <2>1. home[LotItem[l]] \in Places /\ lotAt[l] \in [Places -> Nat] /\ lotQty[l] \in Nat
      BY PlanningAssumption DEF PlacesInv, TypeOK
    <2> QED BY <2>1, Settles
  <1>3. ASSUME NEW l \in Lots, NEW p \in Places
        PROVE  LotsSettled[l][p] <= lotQty[l]
    <2> DEFINE bal == SettledLot(lotAt[l], home[LotItem[l]], lotQty[l])
    <2>1. bal \in [Places -> Nat] /\ Total(bal, Places) = lotQty[l] /\ LotsSettled[l] = bal
      BY <1>2 DEF AddsUp, LotsSettled
    <2> HIDE DEF bal
    <2>2. bal[p] <= Total(bal, Places)
      BY <2>1, PlacesAssumption, TotalTerm
    <2> QED BY <2>1, <2>2
  <1> QED BY <1>1, <1>2, <1>3 DEF Settled, LotsSettled

LEMMA LotTakesNat == \A take \in LotTakes : take \in [Lots -> Nat]
  <1>1. Total(LotSize, Lots) \in Nat
    BY PlanningAssumption, OrderStockAssumption, TotalNat
  <1> QED BY <1>1 DEF LotTakes

(* What a count takes from lots: only from those of items that came up      *)
(* short, and no more than they have - in all, or at the counted place.     *)
LEMMA PostTakes ==
    ASSUME PlacesInv, session.status = "review", NEW take \in LotTakes,
           IF session.scope = Everywhere THEN TakesEverywhere(take)
           ELSE TakesAt(session.scope, take)
    PROVE  /\ \A l \in Lots : take[l] \in Nat /\ take[l] <= lotQty[l]
           /\ \A l \in Lots : LotItem[l] \notin Shortages => take[l] = 0
           /\ session.scope # Everywhere =>
                 \A l \in Lots : take[l] <= LotsSettled[l][session.scope]
  <1>0. take \in [Lots -> Nat]
    BY LotTakesNat
  <1>1. session.scope \in Places \cup {Everywhere}
    BY DEF PlacesInv, SessionOK, NoSession
  <1>2. ASSUME NEW l \in Lots
        PROVE  /\ take[l] <= lotQty[l]
               /\ LotItem[l] \notin Shortages => take[l] = 0
               /\ session.scope # Everywhere => take[l] <= LotsSettled[l][session.scope]
    <2> DEFINE i == LotItem[l]
    <2>0. /\ i \in Items /\ l \in LotsOf(i) /\ lotQty[l] \in Nat /\ take[l] \in Nat
          /\ PartOf(take, i)[l] = take[l]
      BY <1>0, PlanningAssumption DEF LotsOf, PartOf, PlacesInv, TypeOK
    <2>1. session.scope # Everywhere =>
            LotsSettled[l][session.scope] \in Nat /\ LotsSettled[l][session.scope] <= lotQty[l]
      BY <1>1, SettledFacts
    <2>2. CASE i \notin Shortages
      <3>1. PartOf(take, i) = NoLots
        BY <2>0, <2>2 DEF TakesEverywhere, TakesAt
      <3>2. take[l] = 0
        BY <2>0, <3>1 DEF NoLots
      <3> QED BY <2>0, <2>1, <3>2
    <2>3. CASE i \in Shortages /\ session.scope = Everywhere
      <3>1. IsCountTake(PartOf(take, i), onHand[i], lotQty, i, -Delta(i))
        BY <2>0, <2>3 DEF TakesEverywhere
      <3>2. PartOf(take, i)[l] <= lotQty[l]
        BY <2>0, <3>1 DEF IsCountTake, IsFefoTake
      <3> QED BY <2>0, <2>3, <3>2
    <2>4. CASE i \in Shortages /\ session.scope # Everywhere
      <3>1. IsFefoTake(take, [k \in Lots |-> LotsSettled[k][session.scope]], LotsOf(i), -Delta(i))
        BY <2>0, <2>4 DEF TakesAt
      <3>2. take[l] <= LotsSettled[l][session.scope]
        BY <2>0, <3>1 DEF IsFefoTake
      <3> QED BY <2>0, <2>1, <2>4, <3>2
    <2> QED BY <2>2, <2>3, <2>4
  <1> QED BY <1>0, <1>2

(* What a count does to the aggregate and to the evidence.                  *)
LEMMA PostLevels ==
    ASSUME PlacesInv, PostCount
    PROVE  /\ \A i \in Variances : /\ i \in Items /\ Delta(i) \in Int
                                   /\ session.counted[i] \in Nat /\ session.expected[i] \in Nat
                                   /\ onHand'[i] = onHand[i] + Delta(i)
                                   /\ booked'[i] = booked[i] + Delta(i)
           /\ \A i \in Items \ Variances : onHand'[i] = onHand[i] /\ booked'[i] = booked[i]
           /\ onHand' \in [Items -> Nat] /\ booked' \in [Items -> Int]
  <1>0. /\ onHand \in [Items -> Nat] /\ booked \in [Items -> Int]
        /\ session.status = "review" /\ AllCounted
        /\ session.expected \in [Items -> Counts] /\ session.counted \in [Items -> Counts]
    BY DEF PlacesInv, SessionOK, NoSession, PostCount, TypeOK
  <1>1. ASSUME NEW i \in Variances
        PROVE  /\ i \in Items /\ i \in Listed /\ Delta(i) \in Int
               /\ session.counted[i] \in Nat /\ session.expected[i] \in Nat
    BY <1>0 DEF Variances, Listed, AllCounted, Counts, Delta, Absent
  <1>2. ASSUME NEW i \in Variances
        PROVE  CorrectedLevel(i) = onHand[i] + Delta(i)
    <2>1. CASE session.scope = Everywhere
      <3>1. onHand[i] = session.expected[i]
        BY <1>1, <2>1 DEF PostCount, NothingMoved, Current
      <3> QED BY <1>1, <2>1, <3>1 DEF CorrectedLevel, Delta
    <2>2. CASE session.scope # Everywhere
      BY <2>2 DEF CorrectedLevel
    <2> QED BY <2>1, <2>2
  <1>3. \A i \in Items \ Variances : CorrectedLevel(i) = onHand[i]
    BY DEF CorrectedLevel
  <1>4. \A i \in Items : CorrectedLevel(i) \in Nat
    <2>1. \A i \in Items : CorrectedLevel(i) \in Int /\ CorrectedLevel(i) >= 0
      BY <1>0, <1>1, <1>2, <1>3 DEF PostCount
    <2> QED BY <2>1
  <1>5. \A i \in Items : /\ onHand'[i] = CorrectedLevel(i)
                         /\ booked'[i] = booked[i] + (IF i \in Variances THEN Delta(i) ELSE 0)
    BY DEF PostCount
  <1>6. onHand' \in [Items -> Nat] /\ booked' \in [Items -> Int]
    BY <1>0, <1>1, <1>4 DEF PostCount
  <1> QED BY <1>0, <1>1, <1>2, <1>3, <1>5, <1>6

LEMMA PostType ==
    ASSUME PlacesInv, PostCount
    PROVE  PlacesInv'
  <1>0. /\ TypeOK /\ session.status = "review" /\ session.scope \in Places \cup {Everywhere}
        /\ session.counted \in [Items -> Counts]
        /\ at \in [Items -> [Places -> Nat]] /\ lotAt \in [Lots -> [Places -> Nat]]
        /\ home \in [Items -> Places]
    BY DEF PlacesInv, SessionOK, NoSession, PostCount
  <1>1. PICK take \in LotTakes :
          /\ TakeFromLots(take)
          /\ lotBooked' = [l \in Lots |-> lotBooked[l] - take[l]]
          /\ IF session.scope = Everywhere
             THEN TakesEverywhere(take) /\ PlacesEverywhere
             ELSE TakesAt(session.scope, take) /\ PlacesAt(session.scope, take)
    BY DEF PostCount
  <1>2. /\ take \in [Lots -> Nat]
        /\ \A l \in Lots : take[l] \in Nat /\ take[l] <= lotQty[l]
        /\ session.scope # Everywhere =>
              \A l \in Lots : take[l] <= LotsSettled[l][session.scope]
    BY <1>0, <1>1, PostTakes, LotTakesNat
  <1>3. lotQty' \in [Lots -> Nat] /\ lotState' \in [Lots -> LotStates]
    <2>1. lotState \in [Lots -> LotStates] /\ "depleted" \in LotStates
      BY <1>0 DEF TypeOK, LotStates
    <2> QED BY <1>0, <1>1, <1>2, <2>1, ShelfTyped, TakeFromLotsType
  <1>4. lotBooked' \in [Lots -> Int]
    BY <1>0, <1>1, <1>2 DEF TypeOK
  <1>5. onHand' \in [Items -> Nat] /\ booked' \in [Items -> Int]
    BY PostLevels
  <1>6. TypeOK'
    BY <1>0, <1>3, <1>4, <1>5 DEF PostCount, TypeOK, orderVars, holdVars, yardVars
  <1>s. Settled \in [Items -> [Places -> Nat]] /\ LotsSettled \in [Lots -> [Places -> Nat]]
    BY SettledFacts
  <1>7. at' \in [Items -> [Places -> Nat]]
    <2>1. CASE session.scope = Everywhere /\ Variances # {}
      <3>1. ASSUME NEW i \in Items
            PROVE  SettledItem(IF Earlier(i, Variances) = {} THEN at[i] ELSE Settled[i],
                               home[i], onHand'[i]) \in [Places -> Nat]
        BY <1>0, <1>5, <1>s, Settles
      <3> QED BY <1>1, <2>1, <3>1 DEF PlacesEverywhere
    <2>2. CASE session.scope = Everywhere /\ Variances = {}
      BY <1>0, <1>1, <2>2 DEF PlacesEverywhere
    <2>3. CASE session.scope # Everywhere
      <3>1. ASSUME NEW i \in Variances
            PROVE  session.counted[i] \in Nat
        BY PostLevels
      <3>2. ASSUME NEW i \in Items
            PROVE  (IF i \in Variances
                    THEN [(IF ReconciledBefore(i) THEN Settled[i] ELSE at[i])
                            EXCEPT ![session.scope] = session.counted[i]]
                    ELSE IF Shortages = {} THEN at[i] ELSE Settled[i]) \in [Places -> Nat]
        BY <1>0, <1>s, <3>1
      <3> QED BY <1>1, <2>3, <3>2 DEF PlacesAt
    <2> QED BY <2>1, <2>2, <2>3
  <1>8. lotAt' \in [Lots -> [Places -> Nat]]
    <2>1. CASE session.scope = Everywhere /\ Variances # {}
      <3>1. ASSUME NEW l \in Lots
            PROVE  SettledLot(IF Earlier(LotItem[l], Variances) = {} THEN lotAt[l] ELSE LotsSettled[l],
                              home[LotItem[l]], lotQty'[l]) \in [Places -> Nat]
        <4>1. home[LotItem[l]] \in Places
          BY <1>0, PlanningAssumption
        <4> QED BY <1>0, <1>3, <1>s, <4>1, Settles
      <3>2. lotAt' = [l \in Lots |->
               SettledLot(IF Earlier(LotItem[l], Variances) = {} THEN lotAt[l] ELSE LotsSettled[l],
                          home[LotItem[l]], lotQty'[l])]
        BY <1>1, <2>1 DEF PlacesEverywhere
      <3> QED BY <3>1, <3>2
    <2>2. CASE session.scope = Everywhere /\ Variances = {}
      BY <1>0, <1>1, <2>2 DEF PlacesEverywhere
    <2>3. CASE session.scope # Everywhere
      <3>1. ASSUME NEW l \in Lots
            PROVE  [LotsSettled[l] EXCEPT ![session.scope] = @ - take[l]] \in [Places -> Nat]
        <4>1. LotsSettled[l][session.scope] \in Nat /\ session.scope \in Places
          BY <1>0, <1>s, <2>3
        <4>2. LotsSettled[l][session.scope] - take[l] \in Nat
          BY <1>2, <2>3, <4>1
        <4> QED BY <1>s, <4>2
      <3>2. lotAt' = IF Shortages = {} THEN lotAt
                     ELSE [l \in Lots |-> [LotsSettled[l] EXCEPT ![session.scope] = @ - take[l]]]
        BY <1>1, <2>3 DEF PlacesAt
      <3> QED BY <1>0, <3>1, <3>2
    <2> QED BY <2>1, <2>2, <2>3
  <1>9. SessionOK' /\ UNCHANGED <<home, transfer, repair>>
    BY DEF PostCount, SessionOK
  <1> QED
    BY <1>6, <1>7, <1>8, <1>9 DEF PlacesInv, TransfersOK, RepairOK

-----------------------------------------------------------------------------
(* A transfer moves what the reconciled balances have at its source.        *)
LEMMA TransferMoves ==
    ASSUME PlacesInv, NEW t \in Transfers, NEW i \in Items, NEW src \in Places, NEW dst \in Places,
           NEW q \in Nat, NEW eligible \in SUBSET Lots, NEW mayUseLoose,
           TransferMove(t, i, src, dst, q, eligible, mayUseLoose)
    PROVE  /\ UNCHANGED session => PlacesInv'
           /\ AddsUp(at'[i], onHand[i])
           /\ \A l \in Lots : AddsUp(lotAt'[l], lotQty[l])
           /\ UNCHANGED <<onHand, lotQty>>
           /\ transfer[t] = NoTransfer /\ transfer'[t].item = i
           /\ \A u \in Transfers \ {t} : transfer'[u] = transfer[u]
  <1> DEFINE there == [l \in Lots |-> LotsSettled[l][src]]
  <1>0. /\ Settled \in [Items -> [Places -> Nat]] /\ LotsSettled \in [Lots -> [Places -> Nat]]
        /\ \A l \in Lots : AddsUp(LotsSettled[l], lotQty[l])
    BY SettledFacts
  <1>1. PICK take \in LotTakes :
          /\ OnlyFrom(take, eligible)
          /\ IsFefoTake(take, there, eligible, q)
          /\ lotAt' = [l \in Lots |-> Move(LotsSettled[l], src, dst, take[l])]
          /\ transfer' = [transfer EXCEPT ![t] =
               [state |-> "done", item |-> i, src |-> src, dst |-> dst, q |-> q, lots |-> take]]
    BY DEF TransferMove, TransferWith
  <1>2. /\ src # dst /\ q <= Settled[i][src] /\ transfer[t] = NoTransfer
        /\ at' = [Settled EXCEPT ![i] = Move(@, src, dst, q)]
        /\ AddsUp(at'[i], onHand[i])
        /\ UNCHANGED <<vars, home, repair>>
    BY DEF TransferMove, TransferWith
  <1>3. take \in [Lots -> Nat]
    BY <1>1, LotTakesNat
  <1>4. ASSUME NEW l \in Lots
        PROVE  take[l] <= LotsSettled[l][src]
    <2>1. LotsSettled[l][src] \in Nat
      BY <1>0
    <2>2. CASE l \in eligible
      BY <1>1, <2>2 DEF IsFefoTake
    <2>3. CASE l \notin eligible
      BY <1>1, <2>1, <2>3 DEF OnlyFrom
    <2> QED BY <2>2, <2>3
  <1>5. ASSUME NEW l \in Lots
        PROVE  /\ Move(LotsSettled[l], src, dst, take[l]) \in [Places -> Nat]
               /\ AddsUp(Move(LotsSettled[l], src, dst, take[l]), lotQty[l])
    <2> DEFINE bal == LotsSettled[l]
    <2>1. bal \in [Places -> Nat] /\ take[l] \in Nat /\ take[l] <= bal[src] /\ AddsUp(bal, lotQty[l])
      BY <1>0, <1>3, <1>4
    <2> HIDE DEF bal
    <2>2. /\ Move(bal, src, dst, take[l]) \in [Places -> Nat]
          /\ Total(Move(bal, src, dst, take[l]), Places) = Total(bal, Places)
      BY <1>2, <2>1, MoveKeeps
    <2> QED BY <2>1, <2>2 DEF AddsUp, bal
  <1>6. lotAt' \in [Lots -> [Places -> Nat]] /\ \A l \in Lots : AddsUp(lotAt'[l], lotQty[l])
    BY <1>1, <1>5
  <1>7. at' \in [Items -> [Places -> Nat]]
    <2>1. Move(Settled[i], src, dst, q) \in [Places -> Nat]
      BY <1>0, <1>2, MoveKeeps
    <2> QED BY <1>0, <1>2, <2>1
  <1>8. DOMAIN transfer = Transfers /\ TransfersOK
    BY DEF PlacesInv
  <1>9. /\ DOMAIN transfer' = Transfers /\ TransfersOK'
        /\ transfer'[t].item = i
        /\ \A u \in Transfers \ {t} : transfer'[u] = transfer[u]
    <2> DEFINE m == [state |-> "done", item |-> i, src |-> src, dst |-> dst, q |-> q, lots |-> take]
    <2>1. m \in Moves
      BY <1>2, <1>3 DEF Moves
    <2>2. transfer' = [transfer EXCEPT ![t] = m] /\ m.item = i
      BY <1>1
    <2> HIDE DEF m
    <2>3. DOMAIN transfer' = Transfers /\ transfer'[t] = m
          /\ \A u \in Transfers \ {t} : transfer'[u] = transfer[u]
      BY <1>8, <2>2
    <2>4. TransfersOK'
      BY <1>8, <2>1, <2>3 DEF TransfersOK
    <2> QED BY <2>2, <2>3, <2>4
  <1>10. UNCHANGED session => PlacesInv'
    BY <1>2, <1>6, <1>7, <1>9
    DEF PlacesInv, TypeOK, RepairOK, SessionOK, AllCounted, Listed,
        vars, orderVars, holdVars, shelfVars, bookVars, yardVars
  <1> QED
    BY <1>2, <1>6, <1>9, <1>10 DEF vars, shelfVars

LEMMA ReversalMoves ==
    ASSUME PlacesInv, NEW t \in Transfers, ReverseTransfer(t)
    PROVE  /\ UNCHANGED session => PlacesInv'
           /\ transfer[t] # NoTransfer
           /\ AddsUp(at'[transfer[t].item], onHand[transfer[t].item])
           /\ \A l \in Lots : AddsUp(lotAt'[l], Total(lotAt[l], Places))
           /\ UNCHANGED <<onHand, lotQty>>
           /\ \A u \in Transfers \ {t} : transfer'[u] = transfer[u]
  <1> DEFINE m == transfer[t]
             before == SettledItem(at[m.item], home[m.item], onHand[m.item])
  <1>1. m \in Moves /\ m # NoTransfer
    <2>1. m \in Moves \cup {NoTransfer, [state |-> "reversed"]}
      BY DEF PlacesInv, TransfersOK
    <2> QED BY <2>1 DEF ReverseTransfer, NoTransfer
  <1>2. /\ m.item \in Items /\ m.src \in Places /\ m.dst \in Places /\ m.dst # m.src
        /\ m.q \in Nat /\ m.lots \in [Lots -> Nat]
    BY <1>1 DEF Moves
  <1>3. /\ m.q <= before[m.dst] /\ \A l \in Lots : m.lots[l] <= lotAt[l][m.dst]
        /\ at' = [at EXCEPT ![m.item] = Move(before, m.dst, m.src, m.q)]
        /\ lotAt' = [l \in Lots |-> Move(lotAt[l], m.dst, m.src, m.lots[l])]
        /\ transfer' = [transfer EXCEPT ![t] = [state |-> "reversed"]]
        /\ UNCHANGED <<vars, home, repair>>
    BY DEF ReverseTransfer, MoveStillThere
  <1>4. before \in [Places -> Nat] /\ AddsUp(before, onHand[m.item])
    <2>1. /\ at[m.item] \in [Places -> Nat] /\ home[m.item] \in Places /\ onHand[m.item] \in Nat
      BY <1>2 DEF PlacesInv, TypeOK
    <2> QED BY <2>1, Settles
  <1> HIDE DEF before
  <1>5. /\ Move(before, m.dst, m.src, m.q) \in [Places -> Nat]
        /\ AddsUp(Move(before, m.dst, m.src, m.q), onHand[m.item])
    BY <1>2, <1>3, <1>4, MoveKeeps DEF AddsUp
  <1>6. ASSUME NEW l \in Lots
        PROVE  /\ Move(lotAt[l], m.dst, m.src, m.lots[l]) \in [Places -> Nat]
               /\ Total(Move(lotAt[l], m.dst, m.src, m.lots[l]), Places) = Total(lotAt[l], Places)
    <2>1. lotAt[l] \in [Places -> Nat] /\ m.lots[l] \in Nat /\ m.lots[l] <= lotAt[l][m.dst]
      BY <1>2, <1>3 DEF PlacesInv
    <2> QED BY <1>2, <2>1, MoveKeeps
  <1> HIDE DEF m
  <1>7. at' \in [Items -> [Places -> Nat]] /\ AddsUp(at'[m.item], onHand[m.item])
    BY <1>2, <1>3, <1>5 DEF PlacesInv
  <1>8. lotAt' \in [Lots -> [Places -> Nat]]
        /\ \A l \in Lots : AddsUp(lotAt'[l], Total(lotAt[l], Places))
    BY <1>3, <1>6 DEF AddsUp
  <1>9. /\ DOMAIN transfer' = Transfers /\ TransfersOK'
        /\ \A u \in Transfers \ {t} : transfer'[u] = transfer[u]
    <2>1. DOMAIN transfer = Transfers /\ TransfersOK
      BY DEF PlacesInv
    <2>2. /\ DOMAIN transfer' = Transfers /\ transfer'[t] = [state |-> "reversed"]
          /\ \A u \in Transfers \ {t} : transfer'[u] = transfer[u]
      BY <1>3, <2>1
    <2> QED BY <2>1, <2>2 DEF TransfersOK
  <1>10. UNCHANGED session => PlacesInv'
    BY <1>3, <1>7, <1>8, <1>9
    DEF PlacesInv, TypeOK, RepairOK, SessionOK, AllCounted, Listed,
        vars, orderVars, holdVars, shelfVars, bookVars, yardVars
  <1> QED
    BY <1>1, <1>3, <1>7, <1>8, <1>9, <1>10 DEF m, vars, shelfVars

(* Steps of the shelf and the session that leave the balances alone.        *)
LEMMA PlacesStay ==
    ASSUME PlacesInv, TypeOK', UNCHANGED <<placeVars, repair>>, SessionOK'
    PROVE  PlacesInv'
  BY DEF PlacesInv, placeVars, TransfersOK, RepairOK

LEMMA BuyLotType ==
    ASSUME PlacesInv, NEW l \in Lots, NEW p \in Places, BuyLot(l, p), UNCHANGED session
    PROVE  PlacesInv'
  <1>1. TypeOK'
    <2>1. LotStep(l)
      BY DEF BuyLot, LotStep
    <2> QED BY <2>1, LotStepType DEF PlacesInv
  <1>2. LotItem[l] \in Items /\ onHand' \in [Items -> Nat] /\ lotQty' \in [Lots -> Nat]
    BY <1>1, PlanningAssumption DEF TypeOK
  <1>3. /\ SettledItem(at[LotItem[l]], p, onHand'[LotItem[l]]) \in [Places -> Nat]
        /\ SettledLot(lotAt[l], p, lotQty'[l]) \in [Places -> Nat]
    BY <1>2, Settles DEF PlacesInv
  <1>4. at' \in [Items -> [Places -> Nat]] /\ lotAt' \in [Lots -> [Places -> Nat]]
        /\ home' \in [Items -> Places]
    BY <1>2, <1>3 DEF BuyLot, PlacesInv
  <1>5. SessionOK'
    BY DEF PlacesInv, SessionOK, AllCounted, Listed
  <1> QED
    BY <1>1, <1>4, <1>5 DEF BuyLot, PlacesInv, TransfersOK, RepairOK

LEMMA RepairType ==
    ASSUME PlacesInv, RepairStep, UNCHANGED session
    PROVE  PlacesInv' /\ UNCHANGED <<vars, home, transfer>>
  <1>0. /\ TypeOK /\ at \in [Items -> [Places -> Nat]] /\ lotAt \in [Lots -> [Places -> Nat]]
        /\ home \in [Items -> Places] /\ RepairOK /\ LotItem \in [Lots -> Items]
        /\ onHand \in [Items -> Nat] /\ lotQty \in [Lots -> Nat]
    BY PlanningAssumption DEF PlacesInv, TypeOK
  <1>s. SessionOK'
    BY DEF PlacesInv, SessionOK, AllCounted, Listed
  <1>1. UNCHANGED <<vars, home, transfer>>
    BY DEF RepairStep, RepairStarts, RepairReads, RepairPlans, RepairWrites, RepairEnds, placeVars
  <1>2. /\ RepairOK' /\ at' \in [Items -> [Places -> Nat]] /\ lotAt' \in [Lots -> [Places -> Nat]]
    <2>1. CASE RepairStarts
      BY <1>0, <2>1 DEF RepairStarts, placeVars, RepairOK
    <2>2. ASSUME NEW x \in Items \cup Lots, RepairReads(x)
          PROVE  /\ RepairOK' /\ at' \in [Items -> [Places -> Nat]]
                 /\ lotAt' \in [Lots -> [Places -> Nat]]
      <3>1. (IF x \in Items THEN onHand[x] ELSE lotQty[x]) \in Nat
        BY <1>0, <2>2
      <3>2. repair.todo \in SUBSET (Items \cup Lots)
        BY <1>0, <2>2 DEF RepairReads, RepairOK, IdleRepair
      <3>3. RepairOK'
        BY <2>2, <3>1, <3>2 DEF RepairReads, RepairOK
      <3> QED BY <1>0, <2>2, <3>3 DEF RepairReads, placeVars
    <2>3. CASE RepairPlans
      <3> DEFINE x == repair.target
                 change == IF x \in Items THEN ItemChange(at[x], home[x], repair.canonical)
                           ELSE LotChange(lotAt[x], home[LotItem[x]], repair.canonical)
      <3>1. /\ repair.todo \in SUBSET (Items \cup Lots) /\ x \in Items \cup Lots
            /\ repair.canonical \in Nat
        BY <1>0, <2>3 DEF RepairPlans, RepairOK, IdleRepair
      <3>2. change \in [Places -> Int]
        <4>1. CASE x \in Items
          BY <1>0, <3>1, <4>1, Settles
        <4>2. CASE x \notin Items
          <5>1. x \in Lots /\ home[LotItem[x]] \in Places
            BY <1>0, <3>1, <4>2
          <5> QED BY <1>0, <3>1, <4>2, <5>1, Settles
        <4> QED BY <4>1, <4>2
      <3>3. \/ repair' = [phase |-> "next", todo |-> repair.todo]
            \/ repair' = [phase |-> "write", todo |-> repair.todo, target |-> x, change |-> change]
        BY <2>3 DEF RepairPlans
      <3> HIDE DEF change
      <3>4. RepairOK'
        BY <3>1, <3>2, <3>3 DEF RepairOK
      <3> QED BY <1>0, <2>3, <3>4 DEF RepairPlans, placeVars
    <2>4. ASSUME NEW p \in Places, RepairWrites(p)
          PROVE  /\ RepairOK' /\ at' \in [Items -> [Places -> Nat]]
                 /\ lotAt' \in [Lots -> [Places -> Nat]]
      <3> DEFINE x == repair.target
                 left == [repair.change EXCEPT ![p] = 0]
      <3>0. repair \in [phase : {"write"}, todo : SUBSET (Items \cup Lots), target : Items \cup Lots,
                        change : [Places -> Int]]
        BY <1>0, <2>4 DEF RepairWrites, RepairOK, IdleRepair
      <3>1. /\ repair.todo \in SUBSET (Items \cup Lots) /\ x \in Items \cup Lots
            /\ repair.change \in [Places -> Int] /\ left \in [Places -> Int]
        BY <3>0
      <3>2. \/ repair' = [phase |-> "next", todo |-> repair.todo]
            \/ repair' = [repair EXCEPT !.change = left]
        BY <2>4 DEF RepairWrites
      <3>3. RepairOK'
        <4>1. CASE repair' = [phase |-> "next", todo |-> repair.todo]
          BY <3>1, <4>1 DEF RepairOK
        <4>2. CASE repair' = [repair EXCEPT !.change = left]
          <5>1. repair' \in [phase : {"write"}, todo : SUBSET (Items \cup Lots),
                             target : Items \cup Lots, change : [Places -> Int]]
            BY <3>0, <3>1, <4>2
          <5> QED BY <5>1 DEF RepairOK
        <4> QED BY <3>2, <4>1, <4>2
      <3>4. \A q \in Int : Written(q, repair.change[p]) \in Nat
        BY <3>1 DEF Written, AtLeastZero
      <3>5. at' \in [Items -> [Places -> Nat]] /\ lotAt' \in [Lots -> [Places -> Nat]]
        <4>1. CASE x \in Items
          <5>1. Written(at[x][p], repair.change[p]) \in Nat
            BY <1>0, <3>4, <4>1
          <5>2. at' = [at EXCEPT ![x][p] = Written(@, repair.change[p])] /\ lotAt' = lotAt
            BY <2>4, <4>1 DEF RepairWrites
          <5> QED BY <1>0, <5>1, <5>2
        <4>2. CASE x \notin Items
          <5>1. x \in Lots /\ Written(lotAt[x][p], repair.change[p]) \in Nat
            BY <1>0, <3>1, <3>4, <4>2
          <5>2. lotAt' = [lotAt EXCEPT ![x][p] = Written(@, repair.change[p])] /\ at' = at
            BY <2>4, <4>2 DEF RepairWrites
          <5> QED BY <1>0, <5>1, <5>2
        <4> QED BY <4>1, <4>2
      <3> QED BY <3>3, <3>5
    <2>5. CASE RepairEnds
      BY <1>0, <2>5 DEF RepairEnds, placeVars, RepairOK
    <2> QED BY <2>1, <2>2, <2>3, <2>4, <2>5 DEF RepairStep
  <1>3. TypeOK'
    BY <1>0, <1>1 DEF TypeOK, vars, orderVars, holdVars, shelfVars, bookVars, yardVars
  <1>4. home' \in [Items -> Places] /\ DOMAIN transfer' = Transfers /\ TransfersOK'
    BY <1>1 DEF PlacesInv, TransfersOK
  <1> QED
    BY <1>1, <1>2, <1>3, <1>4, <1>s DEF PlacesInv

-----------------------------------------------------------------------------
LEMMA OpenType ==
    ASSUME PlacesInv,
           \/ \E chosen \in SUBSET Items : OpenCount(chosen)
           \/ \E p \in Places : OpenCountAt(p)
    PROVE  PlacesInv' /\ UNCHANGED <<vars, home, transfer, repair>>
  <1>1. ASSUME NEW scope \in Places \cup {Everywhere}, NEW expected \in [Items -> Counts],
               session' = Opened(scope, expected)
        PROVE  SessionOK'
    <2>1. session' \in [status : {"in_progress"}, scope : Places \cup {Everywhere},
                        expected : [Items -> Counts], counted : [Items -> Counts]]
      BY <1>1 DEF Opened, Counts
    <2> QED BY <2>1 DEF SessionOK
  <1>2. ASSUME NEW chosen \in SUBSET Items, OpenCount(chosen)
        PROVE  PlacesInv' /\ UNCHANGED <<vars, home, transfer, repair>>
    <2>1. [i \in Items |-> IF i \in chosen THEN onHand[i] ELSE Absent] \in [Items -> Counts]
      BY DEF PlacesInv, TypeOK, Counts
    <2>2. SessionOK'
      BY <1>1, <1>2, <2>1 DEF OpenCount
    <2>3. TypeOK'
      BY <1>2 DEF OpenCount, PlacesInv, TypeOK, vars, orderVars, holdVars, shelfVars, bookVars, yardVars
    <2> QED BY <1>2, <2>2, <2>3, PlacesStay DEF OpenCount, placeVars
  <1>3. ASSUME NEW p \in Places, OpenCountAt(p)
        PROVE  PlacesInv' /\ UNCHANGED <<vars, home, transfer, repair>>
    <2>1. /\ at' = Settled /\ at' \in [Items -> [Places -> Nat]]
          /\ lotAt' = LotsSettled /\ lotAt' \in [Lots -> [Places -> Nat]]
          /\ UNCHANGED <<vars, home, transfer, repair>>
      BY <1>3, SettledFacts DEF OpenCountAt
    <2>2. [i \in Items |-> IF at'[i][p] > 0 THEN at'[i][p] ELSE Absent] \in [Items -> Counts]
      BY <2>1 DEF Counts
    <2>3. SessionOK'
      BY <1>1, <1>3, <2>2 DEF OpenCountAt
    <2>4. TypeOK'
      BY <2>1 DEF PlacesInv, TypeOK, vars, orderVars, holdVars, shelfVars, bookVars, yardVars
    <2> QED BY <2>1, <2>3, <2>4 DEF PlacesInv, TransfersOK, RepairOK
  <1> QED BY <1>2, <1>3

LEMMA CountingType ==
    ASSUME PlacesInv,
           \/ \E i \in Items, n \in 0..MaxCount : SaveCount(i, n)
           \/ ReviewCount
           \/ ResumeCount
    PROVE  PlacesInv' /\ UNCHANGED <<vars, placeVars, repair>>
  <1> DEFINE Open == [status : {"in_progress", "review"}, scope : Places \cup {Everywhere},
                      expected : [Items -> Counts], counted : [Items -> Counts]]
  <1>1. session \in Open
    BY DEF PlacesInv, SessionOK, NoSession, SaveCount, ReviewCount, ResumeCount, Active
  <1>2. ASSUME NEW i \in Items, NEW n \in 0..MaxCount, SaveCount(i, n)
        PROVE  SessionOK'
    <2>1. n \in Counts /\ session.counted[i] \in Counts /\ i \in Items
      BY <1>1, OrderStockAssumption DEF Counts
    <2>2. session' = [session EXCEPT !.counted[i] = n] /\ session.status = "in_progress"
      BY <1>2 DEF SaveCount
    <2>3. session' \in Open /\ session'.status = "in_progress"
      BY <1>1, <2>1, <2>2
    <2> QED BY <2>3 DEF SessionOK
  <1>3. ASSUME ReviewCount PROVE SessionOK'
    <2>1. session' = [session EXCEPT !.status = "review"] /\ AllCounted
      BY <1>3 DEF ReviewCount
    <2>2. session' \in Open /\ session'.expected = session.expected
          /\ session'.counted = session.counted
      BY <1>1, <2>1
    <2> QED BY <2>1, <2>2 DEF SessionOK, AllCounted, Listed
  <1>4. ASSUME ResumeCount PROVE SessionOK'
    <2>1. session' = [session EXCEPT !.status = "in_progress"]
      BY <1>4 DEF ResumeCount
    <2>2. session' \in Open /\ session'.status = "in_progress"
      BY <1>1, <2>1
    <2> QED BY <2>2 DEF SessionOK
  <1>5. UNCHANGED <<vars, placeVars, repair>>
    BY DEF SaveCount, ReviewCount, ResumeCount
  <1>6. TypeOK'
    BY <1>5 DEF PlacesInv, TypeOK, vars, orderVars, holdVars, shelfVars, bookVars, yardVars
  <1> QED BY <1>2, <1>3, <1>4, <1>5, <1>6, PlacesStay

LEMMA InitPlacesInv == CountInit => PlacesInv
  <1> SUFFICES ASSUME CountInit PROVE PlacesInv
    OBVIOUS
  <1>1. TypeOK
    BY InitType DEF CountInit
  <1>2. \A p \in Places, q \in Nat : OnlyAt(p, q) \in [Places -> Nat]
    BY DEF OnlyAt
  <1>3. /\ at \in [Items -> [Places -> Nat]] /\ lotAt \in [Lots -> [Places -> Nat]]
        /\ home \in [Items -> Places]
    BY <1>1, <1>2, PlacesAssumption, PlanningAssumption DEF CountInit, InitPlaces, TypeOK
  <1>4. DOMAIN transfer = Transfers /\ TransfersOK /\ RepairOK /\ SessionOK
    BY DEF CountInit, InitPlaces, TransfersOK, RepairOK, SessionOK, NoSession
  <1> QED BY <1>1, <1>3, <1>4 DEF PlacesInv

(* The steps of the whole, by what they do to the shelf.                    *)
LEMMA CountCases ==
    ASSUME CountNext
    PROVE  \/ Next /\ UNCHANGED <<placeVars, repair, session>>
           \/ \E t \in Transfers, i \in Items, src, dst \in Places, q \in Nat,
                 eligible \in SUBSET Lots, mayUseLoose \in BOOLEAN :
                TransferMove(t, i, src, dst, q, eligible, mayUseLoose) /\ UNCHANGED session
           \/ \E t \in Transfers : ReverseTransfer(t) /\ UNCHANGED session
           \/ \E i \in Items, p \in Places : Rehome(i, p) /\ UNCHANGED session
           \/ \E l \in Lots, p \in Places : BuyLot(l, p) /\ UNCHANGED session
           \/ RepairStep /\ UNCHANGED session
           \/ \/ \E chosen \in SUBSET Items : OpenCount(chosen)
              \/ \E p \in Places : OpenCountAt(p)
           \/ \/ \E i \in Items, n \in 0..MaxCount : SaveCount(i, n)
              \/ ReviewCount
              \/ ResumeCount
           \/ PostCount
  <1> DEFINE moves(t) == \E i \in Items, src, dst \in Places, q \in Nat,
                            eligible \in SUBSET Lots, mayUseLoose \in BOOLEAN :
                           TransferMove(t, i, src, dst, q, eligible, mayUseLoose)
  <1>1. ASSUME NEW t \in Transfers, NEW i \in Items, NEW src \in Places, NEW dst \in Places,
               NEW q \in 1..MaxCount, TransferFefo(t, i, src, dst, q)
        PROVE  moves(t)
    <2>1. LotsOf(i) \cap UsableLots \in SUBSET Lots /\ q \in Nat /\ TRUE \in BOOLEAN
      BY OrderStockAssumption DEF LotsOf
    <2>2. TransferMove(t, i, src, dst, q, LotsOf(i) \cap UsableLots, TRUE)
      BY <1>1 DEF TransferFefo
    <2> QED BY <2>1, <2>2
  <1>2. ASSUME NEW t \in Transfers, NEW l \in Lots, NEW src \in Places, NEW dst \in Places,
               NEW q \in 1..MaxCount, TransferLot(t, l, src, dst, q)
        PROVE  moves(t)
    <2>1. {l} \in SUBSET Lots /\ LotItem[l] \in Items /\ q \in Nat /\ FALSE \in BOOLEAN
      BY PlanningAssumption, OrderStockAssumption
    <2>2. TransferMove(t, LotItem[l], src, dst, q, {l}, FALSE)
      BY <1>2 DEF TransferLot
    <2> QED BY <2>1, <2>2
  <1> HIDE DEF moves
  <1>3. ASSUME NEW t \in Transfers, TransferStep(t)
        PROVE  moves(t) \/ ReverseTransfer(t)
    BY <1>1, <1>2, <1>3 DEF TransferStep
  <1> QED
    BY <1>3 DEF CountNext, ShelfStep, PlaceStep, SessionStep, moves

LEMMA StepPlaces ==
    ASSUME PlacesInv, [CountNext]_allVars
    PROVE  PlacesInv'
  <1>0. /\ UNCHANGED session => SessionOK'
        /\ UNCHANGED vars => TypeOK'
    BY DEF PlacesInv, SessionOK, AllCounted, Listed,
           TypeOK, vars, orderVars, holdVars, shelfVars, bookVars, yardVars
  <1>1. CASE Next /\ UNCHANGED <<placeVars, repair, session>>
    BY <1>0, <1>1, StepType, PlacesStay DEF PlacesInv
  <1>2. ASSUME NEW t \in Transfers, NEW i \in Items, NEW src \in Places, NEW dst \in Places,
               NEW q \in Nat, NEW eligible \in SUBSET Lots, NEW mayUseLoose \in BOOLEAN,
               TransferMove(t, i, src, dst, q, eligible, mayUseLoose), UNCHANGED session
        PROVE  PlacesInv'
    BY <1>2, TransferMoves
  <1>3. ASSUME NEW i \in Items, NEW p \in Places, Rehome(i, p), UNCHANGED session
        PROVE  PlacesInv'
    BY <1>0, <1>3 DEF Rehome, PlacesInv, TransfersOK, RepairOK
  <1>4. CASE UNCHANGED allVars
    BY <1>0, <1>4, PlacesStay DEF allVars
  <1> QED
    BY <1>1, <1>2, <1>3, <1>4, ReversalMoves, BuyLotType, RepairType, OpenType, CountingType,
       PostType, CountCases

(* No drain, move, reversal, repair or count takes from a place what is not *)
(* there.                                                                  *)
THEOREM PlacesTypeCorrect == CountSpec => []PlacesTypeOK
  <1>1. CountInit => PlacesInv
    BY InitPlacesInv
  <1>2. PlacesInv /\ [CountNext]_allVars => PlacesInv'
    BY StepPlaces
  <1>3. PlacesInv => PlacesTypeOK
    <2> SUFFICES ASSUME PlacesInv PROVE PlacesTypeOK
      OBVIOUS
    <2>1. \A t \in Transfers : transfer[t].state \in {"none", "done", "reversed"}
      BY DEF PlacesInv, TransfersOK, Moves, NoTransfer
    <2>2. repair.phase \in {"idle", "next", "read", "write"}
      BY DEF PlacesInv, RepairOK, IdleRepair
    <2> QED BY <2>1, <2>2 DEF PlacesInv, PlacesTypeOK
  <1> QED BY <1>1, <1>2, <1>3, PTL DEF CountSpec

(* A transfer or a reversal moves stock between places and makes or loses   *)
(* none.                                                                   *)
LEMMA StepTransfers ==
    ASSUME PlacesInv, [CountNext]_allVars, NEW u \in Transfers, transfer'[u] # transfer[u]
    PROVE  TransferSettles(u)
  <1>0. \A i \in Items : LotsOf(i) \subseteq Lots
    BY DEF LotsOf
  <1>1. ASSUME NEW t \in Transfers, NEW i \in Items, NEW src \in Places, NEW dst \in Places,
               NEW q \in Nat, NEW eligible \in SUBSET Lots, NEW mayUseLoose \in BOOLEAN,
               TransferMove(t, i, src, dst, q, eligible, mayUseLoose)
        PROVE  TransferSettles(u)
    <2>1. u = t /\ transfer[u] = NoTransfer /\ transfer'[u].item = i
      BY <1>1, TransferMoves
    <2> QED BY <1>0, <1>1, <2>1, TransferMoves DEF TransferSettles
  <1>2. ASSUME NEW t \in Transfers, ReverseTransfer(t)
        PROVE  TransferSettles(u)
    <2>1. u = t /\ transfer[u] # NoTransfer /\ transfer[u].item \in Items
      BY <1>2, ReversalMoves DEF PlacesInv, TransfersOK, Moves, ReverseTransfer
    <2> QED BY <1>0, <1>2, <2>1, ReversalMoves DEF TransferSettles
  <1>3. transfer' # transfer
    OBVIOUS
  <1> QED
    BY <1>1, <1>2, <1>3, CountCases, OpenType, CountingType, RepairType
    DEF Rehome, BuyLot, PostCount, placeVars, allVars

(* A transfer or its reversal leaves the level of its item as it was; the   *)
(* places of the item then add up to it, and those of each of its lots to  *)
(* what was at hand of the lot.                                            *)
THEOREM TransfersMakeNothing == CountSpec => TransfersConserve
  <1>1. CountInit => PlacesInv
    BY InitPlacesInv
  <1>2. PlacesInv /\ [CountNext]_allVars => PlacesInv'
    BY StepPlaces
  <1>3. PlacesInv /\ [CountNext]_allVars
           => [\A t \in Transfers : transfer'[t] # transfer[t] => TransferSettles(t)]_placeVars
    BY StepTransfers
  <1> QED BY <1>1, <1>2, <1>3, PTL DEF CountSpec, TransfersConserve

(* A posted count moves the books by the variance and settles the places.   *)
LEMMA PostSettles ==
    ASSUME PlacesInv, PostCount, NEW i \in Variances
    PROVE  /\ onHand'[i] = onHand[i] + Delta(i)
           /\ AddsUp(at'[i], onHand'[i])
           /\ session.scope # Everywhere => at'[i][session.scope] = session.counted[i]
  <1>0. /\ i \in Items /\ onHand'[i] = onHand[i] + Delta(i) /\ onHand'[i] \in Nat
        /\ session.scope \in Places \cup {Everywhere}
        /\ at \in [Items -> [Places -> Nat]] /\ home[i] \in Places
        /\ Settled \in [Items -> [Places -> Nat]]
    <2>1. onHand' \in [Items -> Nat] /\ i \in Items /\ onHand'[i] = onHand[i] + Delta(i)
      BY PostLevels
    <2>2. session.scope \in Places \cup {Everywhere}
      BY DEF PlacesInv, SessionOK, NoSession, PostCount
    <2> QED BY <2>1, <2>2, SettledFacts DEF PlacesInv
  <1>1. CASE session.scope = Everywhere
    <2> DEFINE bal == IF Earlier(i, Variances) = {} THEN at[i] ELSE Settled[i]
    <2>1. at'[i] = SettledItem(bal, home[i], onHand'[i])
      BY <1>0, <1>1 DEF PostCount, PlacesEverywhere
    <2>2. bal \in [Places -> Nat]
      BY <1>0
    <2> HIDE DEF bal
    <2>3. AddsUp(at'[i], onHand'[i])
      <3>1. AddsUp(SettledItem(bal, home[i], onHand'[i]), onHand'[i])
        BY <1>0, <2>2, Settles
      <3> QED BY <2>1, <3>1
    <2> QED BY <1>0, <1>1, <2>3
  <1>2. CASE session.scope # Everywhere
    <2>1. at'[i] = [(IF ReconciledBefore(i) THEN Settled[i] ELSE at[i])
                      EXCEPT ![session.scope] = session.counted[i]]
      BY <1>0, <1>2 DEF PostCount, PlacesAt
    <2>2. at'[i][session.scope] = session.counted[i]
      BY <1>0, <1>2, <2>1
    <2>3. AddsUp(at'[i], onHand'[i])
      BY <1>2 DEF PostCount, PlacesConserve
    <2> QED BY <1>0, <2>2, <2>3
  <1> QED BY <1>1, <1>2

(* Posting a count books for each item exactly its variance on what the     *)
(* level is at that moment, its places then sum to that level, and a place *)
(* that was counted holds what was counted there.                          *)
THEOREM CountsAreSettled == CountSpec => CountsSettle
  <1> DEFINE settles ==
        session.status = "review" /\ session'.status = "posted" =>
         \A i \in Variances :
             /\ onHand'[i] = onHand[i] + Delta(i)
             /\ AddsUp(at'[i], onHand'[i])
             /\ session.scope # Everywhere =>
                    at'[i][session.scope] = session.counted[i]
  <1>1. CountInit => PlacesInv
    BY InitPlacesInv
  <1>2. PlacesInv /\ [CountNext]_allVars => PlacesInv'
    BY StepPlaces
  <1>3. PlacesInv /\ [CountNext]_allVars => [settles]_allVars
    <2> SUFFICES ASSUME PlacesInv, CountNext,
                        session.status = "review", session'.status = "posted", NEW i \in Variances
                 PROVE  /\ onHand'[i] = onHand[i] + Delta(i)
                        /\ AddsUp(at'[i], onHand'[i])
                        /\ session.scope # Everywhere =>
                               at'[i][session.scope] = session.counted[i]
      OBVIOUS
    <2>1. PostCount
      <3>1. session' # session
        OBVIOUS
      <3>2. session'.status \notin {"in_progress", "review"}
        OBVIOUS
      <3>3. session \in [status : {"in_progress", "review"}, scope : Places \cup {Everywhere},
                        expected : [Items -> Counts], counted : [Items -> Counts]]
        BY DEF PlacesInv, SessionOK, NoSession
      <3> QED
        BY <3>1, <3>2, <3>3, CountCases
        DEF OpenCount, OpenCountAt, Opened, SaveCount, ReviewCount, ResumeCount
    <2> QED BY <2>1, PostSettles
  <1> QED BY <1>1, <1>2, <1>3, PTL DEF CountSpec, CountsSettle

-----------------------------------------------------------------------------
(* Every step of places and sessions but the posting of a count is a step   *)
(* of the shelf, or leaves it alone.                                        *)
LEMMA CountShelfSteps ==
    ASSUME PlacesInv, [CountNext]_allVars
    PROVE  [Next]_vars \/ PostCount
  <1>1. ASSUME NEW t \in Transfers, NEW i \in Items, NEW src \in Places, NEW dst \in Places,
               NEW q \in Nat, NEW eligible \in SUBSET Lots, NEW mayUseLoose \in BOOLEAN,
               TransferMove(t, i, src, dst, q, eligible, mayUseLoose)
        PROVE  UNCHANGED vars
    BY <1>1 DEF TransferMove, TransferWith
  <1>2. ASSUME NEW t \in Transfers, ReverseTransfer(t)
        PROVE  UNCHANGED vars
    BY <1>2 DEF ReverseTransfer
  <1>3. ASSUME NEW l \in Lots, NEW p \in Places, BuyLot(l, p)
        PROVE  Next
    BY <1>3 DEF BuyLot, LotStep, Next
  <1> QED
    BY <1>1, <1>2, <1>3, CountCases, OpenType, CountingType, RepairType DEF Rehome, allVars

(* A count corrects the books and the lots by the same amounts.             *)
LEMMA PostConserves ==
    ASSUME PlacesInv, BackedInv, PostCount
    PROVE  ConservedInv'
  <1>0. /\ TypeOK /\ TypeOK' /\ session.status = "review" /\ UNCHANGED <<orderVars, holdVars, yardVars>>
    BY PostType DEF PlacesInv, PostCount
  <1>1. StockFollowsStatus'
    BY <1>0 DEF BackedInv, ConservedInv, FollowInv, StockFollowsStatus, OrderFollowsStatus,
                orderVars, holdVars
  <1>2. PICK take \in LotTakes :
          /\ TakeFromLots(take)
          /\ lotBooked' = [l \in Lots |-> lotBooked[l] - take[l]]
          /\ IF session.scope = Everywhere THEN TakesEverywhere(take)
             ELSE TakesAt(session.scope, take)
    BY DEF PostCount
  <1>3. \A l \in Lots : take[l] \in Nat /\ take[l] <= lotQty[l]
    BY <1>0, <1>2, PostTakes
  <1>4. \A i \in Items : onHand'[i] - onHand[i] = booked'[i] - booked[i]
    <2>1. /\ \A i \in Variances : /\ Delta(i) \in Int
                                  /\ onHand'[i] = onHand[i] + Delta(i)
                                  /\ booked'[i] = booked[i] + Delta(i)
          /\ \A i \in Items \ Variances : onHand'[i] = onHand[i] /\ booked'[i] = booked[i]
      BY PostLevels
    <2>2. \A i \in Items : onHand[i] \in Int /\ booked[i] \in Int
      BY <1>0 DEF TypeOK
    <2> QED BY <2>1, <2>2
  <1>5. \A l \in Lots : lotQty'[l] - lotQty[l] = lotBooked'[l] - lotBooked[l]
    BY <1>0, <1>2, <1>3 DEF TakeFromLots, TypeOK
  <1>6. UnreceivedEmpty'
    <2>1. ASSUME NEW l \in Lots, lotState'[l] = "unreceived"
          PROVE  lotQty'[l] = 0 /\ lotBooked'[l] = 0
      <3>1. lotState[l] = "unreceived"
        BY <1>2, <2>1 DEF TakeFromLots
      <3>2. lotQty[l] = 0 /\ lotBooked[l] = 0
        BY <3>1 DEF BackedInv, ConservedInv, Conserved, UnreceivedEmpty
      <3>3. take[l] = 0
        BY <1>3, <3>2
      <3> QED BY <1>2, <3>2, <3>3 DEF TakeFromLots
    <2> QED BY <2>1 DEF UnreceivedEmpty
  <1>7. Conserved'
    BY <1>0, <1>4, <1>5, <1>6, MovementConserves DEF BackedInv
  <1> QED BY <1>0, <1>1, <1>7 DEF ConservedInv, FollowInv

(* No live hold needs an item that comes up short, so a count takes nothing *)
(* that is held.                                                           *)
LEMMA PostBacked ==
    ASSUME PlacesInv, BackedInv, PostCount
    PROVE  Backed'
  <1>0. /\ TypeOK /\ TypeOK' /\ session.status = "review" /\ UNCHANGED <<holdVars, yardVars>>
        /\ heldLots \in [Orders -> OrderTakes] /\ WithinNeed(heldLots) /\ Holding \in SUBSET Orders
    BY PostType DEF PlacesInv, PostCount, TypeOK, BackedInv, Backed, Holding
  <1>1. PICK take \in LotTakes :
          /\ TakeFromLots(take)
          /\ IF session.scope = Everywhere THEN TakesEverywhere(take)
             ELSE TakesAt(session.scope, take)
    BY DEF PostCount
  <1>2. \A l \in Lots : /\ take[l] \in Nat /\ take[l] <= lotQty[l]
                        /\ LotItem[l] \notin Shortages => take[l] = 0
    BY <1>0, <1>1, PostTakes
  <1>3. Holding' = Holding /\ heldLots' = heldLots
    BY <1>0 DEF Holding, holdVars
  <1>4. \A o \in Holding, i \in Shortages : i \in Items /\ Need[o][i] = 0
    BY DEF PostCount, ShortagesUnreserved, Holding, Shortages, Variances, Listed
  <1>f. /\ IsFiniteSet(Holding)
        /\ \A o \in Orders, l \in Lots : heldLots[o][l] \in Nat
        /\ \A o \in Orders, i \in Items : LoosePart(heldLots, o, i) \in Nat
    BY <1>0, HeldFacts
  <1>n. \A o \in Holding, i \in Shortages : Total(heldLots[o], LotsOf(i)) = 0
    <2>1. ASSUME NEW o \in Holding, NEW i \in Shortages
          PROVE  Total(heldLots[o], LotsOf(i)) = 0
      <3>1. Total(heldLots[o], LotsOf(i)) <= Need[o][i] /\ Need[o][i] = 0
        BY <1>0, <1>4 DEF WithinNeed
      <3>2. Total(heldLots[o], LotsOf(i)) \in Nat
        BY <1>0, <1>4, TakeNat
      <3> QED BY <3>1, <3>2
    <2> QED BY <2>1
  <1>5. \A o \in Holding, l \in Lots : LotItem[l] \in Shortages => heldLots[o][l] = 0
    <2>1. ASSUME NEW o \in Holding, NEW l \in Lots, LotItem[l] \in Shortages
          PROVE  heldLots[o][l] = 0
      <3> DEFINE held == heldLots[o]
                 lots == LotsOf(LotItem[l])
      <3>1. IsFiniteSet(lots) /\ l \in lots /\ \A k \in lots : held[k] \in Nat
        BY <1>0, <1>4, <1>f, <2>1, LotsFinite DEF LotsOf
      <3>2. Total(held, lots) = 0
        BY <1>n, <2>1
      <3> HIDE DEF held, lots
      <3>3. held[l] <= Total(held, lots)
        BY <3>1, TotalTerm
      <3> QED BY <3>1, <3>2, <3>3 DEF held
    <2> QED BY <2>1
  <1>6. ASSUME NEW l \in Lots
        PROVE  HeldFrom(heldLots', l, Holding') <= lotQty'[l]
    <2>1. lotQty'[l] = lotQty[l] - take[l] /\ lotQty[l] \in Nat
      BY <1>0, <1>1 DEF TakeFromLots, TypeOK
    <2>2. HeldFrom(heldLots, l, Holding) <= lotQty[l]
      BY DEF BackedInv, Backed, LotsBacked
    <2>3. CASE LotItem[l] \in Shortages
      <3> DEFINE f == [o \in Orders |-> heldLots[o][l]]
      <3>1. \A o \in Holding : f[o] = 0
        BY <1>0, <1>5, <2>3
      <3>2. HeldFrom(heldLots, l, Holding) = Total(f, Holding)
        BY DEF HeldFrom
      <3> HIDE DEF f
      <3>3. Total(f, Holding) = 0
        BY <1>f, <3>1, TotalZero
      <3> QED BY <1>2, <1>3, <2>1, <3>2, <3>3
    <2>4. CASE LotItem[l] \notin Shortages
      BY <1>2, <1>3, <2>1, <2>2, <2>4
    <2> QED BY <2>3, <2>4
  <1>7. ASSUME NEW i \in Items
        PROVE  /\ HeldLooseIn(heldLots', i, Holding') <= onHand'[i] - OnLots(i)'
               /\ OnLots(i)' <= onHand'[i]
    <2>0. /\ OnLots(i)' = Total(lotQty', LotsOf(i)) /\ OnLots(i) = Total(lotQty, LotsOf(i))
          /\ OnLots(i) \in Nat /\ onHand[i] \in Nat /\ onHand'[i] \in Nat
          /\ IsFiniteSet(LotsOf(i)) /\ \A l \in LotsOf(i) : l \in Lots /\ LotItem[l] = i
      BY <1>0, OnLotsNat, LotsFinite DEF OnLots, TypeOK, LotsOf
    <2>1. HeldLooseIn(heldLots, i, Holding) <= onHand[i] - OnLots(i)
          /\ OnLots(i) <= onHand[i] /\ HeldLooseIn(heldLots, i, Holding) \in Nat
      BY <1>0, HeldFacts DEF BackedInv, Backed, LooseBacked, LotsFit
    <2>2. CASE i \in Shortages
      <3> DEFINE f == [o \in Orders |-> LoosePart(heldLots, o, i)]
      <3>1. \A o \in Holding : f[o] = 0
        BY <1>0, <1>4, <1>n, <2>2 DEF LoosePart
      <3>2. HeldLooseIn(heldLots, i, Holding) = Total(f, Holding)
        BY DEF HeldLooseIn
      <3> HIDE DEF f
      <3>3. Total(f, Holding) = 0
        BY <1>f, <3>1, TotalZero
      <3>4. OnLots(i)' <= onHand'[i]
        BY <2>0, <2>2 DEF PostCount, VariancesFit, LotsFitShelf, Shortages
      <3>5. OnLots(i)' \in Nat
        <4>1. \A l \in LotsOf(i) : lotQty'[l] \in Nat
          BY <1>0, <2>0 DEF TypeOK
        <4> QED BY <2>0, <4>1, TotalNat
      <3> QED BY <1>3, <2>0, <3>2, <3>3, <3>4, <3>5
    <2>3. CASE i \notin Shortages
      <3>1. \A l \in LotsOf(i) : lotQty'[l] = lotQty[l]
        BY <1>0, <1>1, <1>2, <2>0, <2>3 DEF TakeFromLots, TypeOK
      <3>2. Total(lotQty', LotsOf(i)) = Total(lotQty, LotsOf(i))
        BY <2>0, <3>1, TotalSame
      <3>3. onHand[i] <= onHand'[i]
        <4>1. CASE i \in Variances
          <5>1. Delta(i) \in Int /\ onHand'[i] = onHand[i] + Delta(i)
            BY <4>1, PostLevels
          <5>2. Delta(i) >= 0
            BY <2>3, <4>1, <5>1 DEF Shortages
          <5> QED BY <2>0, <5>1, <5>2
        <4>2. CASE i \notin Variances
          BY <2>0, <4>2, PostLevels
        <4> QED BY <4>1, <4>2
      <3> QED BY <1>3, <2>0, <2>1, <3>2, <3>3
    <2> QED BY <2>2, <2>3
  <1>8. HeldLotsStand'
    <2>1. ASSUME NEW o \in Holding, NEW l \in Lots, heldLots[o][l] > 0
          PROVE  lotState'[l] = "available" \/ l \in recalled
      <3>1. LotItem[l] \notin Shortages
        BY <1>5, <2>1
      <3>2. (take[l] = 0 /\ lotState[l] = "available") \/ l \in recalled
        BY <1>2, <2>1, <3>1 DEF BackedInv, Backed, HeldLotsStand
      <3> QED BY <1>1, <3>2 DEF TakeFromLots
    <2> QED BY <1>0, <1>3, <2>1 DEF HeldLotsStand, yardVars
  <1>9. WithinNeed(heldLots)'
    BY <1>0, <1>3 DEF WithinNeed
  <1> QED
    BY <1>6, <1>7, <1>8, <1>9
    DEF Backed, LotsBacked, LooseBacked, LotsFit, HeldFrom, HeldLooseIn, LoosePart

LEMMA CountsBackedInductive ==
    ASSUME ShelfOps \cap Removals = {}
    PROVE  /\ CountInit => PlacesInv /\ BackedInv
           /\ PlacesInv /\ BackedInv /\ [CountNext]_allVars => PlacesInv' /\ BackedInv'
  <1>1. CountInit => PlacesInv /\ BackedInv
    BY InitPlacesInv, BackedIsInductive DEF CountInit
  <1>2. PlacesInv /\ BackedInv /\ PostCount => BackedInv'
    BY PostConserves, PostBacked DEF BackedInv
  <1>3. PlacesInv /\ BackedInv /\ [CountNext]_allVars => PlacesInv' /\ BackedInv'
    BY <1>2, StepPlaces, CountShelfSteps, BackedIsInductive
  <1> QED BY <1>1, <1>3

(* Counts and transfers leave every live hold its stock: as long as only    *)
(* orders and counts remove stock, no stock is promised twice.              *)
THEOREM HoldsSurviveCounts ==
    ASSUME ShelfOps \cap Removals = {}
    PROVE  CountSpec => []ReservationsBacked
  <1>1. CountInit => PlacesInv /\ BackedInv
    BY CountsBackedInductive
  <1>2. PlacesInv /\ BackedInv /\ [CountNext]_allVars => PlacesInv' /\ BackedInv'
    BY CountsBackedInductive
  <1>3. BackedInv => ReservationsBacked
    BY NeedsOnHand DEF ReservationsBacked, BackedInv, Backed, LotsBacked, HeldFrom
  <1> QED BY <1>1, <1>2, <1>3, PTL DEF CountSpec

(* As long as only orders and counts remove stock, the lots of an item      *)
(* never claim more than there is of it.                                    *)
THEOREM LotsStayWithinOnHand ==
    ASSUME ShelfOps \cap Removals = {}
    PROVE  CountSpec => []LotsWithinOnHand
  <1>1. CountInit => PlacesInv /\ BackedInv
    BY CountsBackedInductive
  <1>2. PlacesInv /\ BackedInv /\ [CountNext]_allVars => PlacesInv' /\ BackedInv'
    BY CountsBackedInductive
  <1>3. BackedInv => LotsWithinOnHand
    BY DEF BackedInv, Backed, LotsFit, OnLots, LotsWithinOnHand
  <1> QED BY <1>1, <1>2, <1>3, PTL DEF CountSpec
=============================================================================
