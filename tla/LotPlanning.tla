---------------------------- MODULE LotPlanning ----------------------------
(***************************************************************************)
(* The planners that decide which supply lots an inventory movement takes  *)
(* from: inventory-lot-core.js and planInventoryReservationAllocation of    *)
(* order-stock-reservation.js.                                             *)
(*                                                                         *)
(* A stocked item is one aggregate row (inventory.quantity) and the supply  *)
(* lots received for it.  What the aggregate has beyond its lots is LOOSE   *)
(* stock (the code's "untracked" quantity).  The planners are stated as     *)
(* predicates on the outcome: which amounts a plan may take from each lot.  *)
(* A plan is determined by its inputs because lots have a total FEFO order. *)
(***************************************************************************)
EXTENDS Sums

CONSTANTS Items,    \* inventory rows (and stock-counted marketplace products)
          Lots,     \* supply_lots rows
          LotItem,  \* LotItem[l]: the item a lot was received for
          Rank      \* Rank[l]: place of the lot in the first-expired order

ASSUME PlanningAssumption ==
    /\ IsFiniteSet(Lots)
    /\ LotItem \in [Lots -> Items]
    /\ Rank \in [Lots -> Nat]
    /\ \A k, l \in Lots : Rank[k] = Rank[l] => k = l

-----------------------------------------------------------------------------
LotsOf(i) == {l \in Lots : LotItem[l] = i}

AtLeastZero(n) == IF n < 0 THEN 0 ELSE n

Lesser(m, n) == IF m < n THEN m ELSE n

(* max(0, stock - what its lots still hold): a shelf whose lots claim more *)
(* than its aggregate has no loose stock at all.                           *)
Loose(stock, qty, i) == AtLeastZero(stock - Total(qty, LotsOf(i)))

-----------------------------------------------------------------------------
OnlyFrom(take, candidates) == \A l \in Lots \ candidates : take[l] = 0

(* The loop all planners share: walk the candidate lots in FEFO order and   *)
(* take what is still needed.  Its outcome: nothing beyond what a lot has,  *)
(* a lot touched only when every earlier candidate is exhausted, and as     *)
(* much of the need as the candidates cover.                               *)
IsFefoTake(take, avail, candidates, needed) ==
    /\ \A l \in candidates : take[l] <= avail[l]
    /\ \A k, l \in candidates :
         Rank[k] < Rank[l] /\ take[l] > 0 => take[k] = avail[k]
    /\ Total(take, candidates) = Lesser(needed, Total(avail, candidates))

(* planFefoAllocation: usable stock is loose stock plus the usable lots,    *)
(* and never more than the aggregate says is there.                        *)
FefoCovers(stock, qty, i, usable, needed) ==
    /\ needed <= stock
    /\ needed <= Loose(stock, qty, i) + Total(qty, usable)

(* planPhysicalStockReduction, mode 'count': loose stock goes first, every  *)
(* lot (whatever its state) after it.                                       *)
IsCountTake(take, stock, qty, i, needed) ==
    LET fromLots == AtLeastZero(needed - Loose(stock, qty, i))
    IN  /\ OnlyFrom(take, LotsOf(i))
        /\ IsFefoTake(take, qty, LotsOf(i), fromLots)
        /\ Total(take, LotsOf(i)) = fromLots

(* planPhysicalStockReduction, mode 'loss': the candidate lots first (all   *)
(* of them, or only the expired ones), and loose stock must cover the rest. *)
IsLossTake(take, stock, qty, i, candidates, needed) ==
    /\ OnlyFrom(take, candidates)
    /\ IsFefoTake(take, qty, candidates, needed)
    /\ needed - Total(take, candidates) <= Loose(stock, qty, i)

(* planPhysicalStockReduction with an explicit lot: that lot or nothing.    *)
IsLotTake(take, qty, lot, needed) ==
    /\ 0 < qty[lot] /\ needed <= qty[lot]
    /\ take = [l \in Lots |-> IF l = lot THEN needed ELSE 0]
=============================================================================
