---------------------------- MODULE StockPromise ----------------------------
(***************************************************************************)
(* What the platform promises about an order and the merchant's stock, with *)
(* no word on how: an order may hold its stock for a while; it takes exactly *)
(* what it needs, once, and only if it is there; it gives exactly that back, *)
(* once, and only after taking it; an order that was dropped or has given   *)
(* its stock back never touches the shelf again.  Between such steps the    *)
(* merchant may change the shelf freely.                                   *)
(***************************************************************************)
EXTENDS Integers

CONSTANTS Orders, Items,
          Need    \* Need[o][i]: units of item i that order o needs

VARIABLES
    claim,  \* claim[o]: what order o has done about its stock
    units   \* units[i]: the merchant's stock of item i

Claims == {"none", "held", "taken", "returned", "dropped"}

vars == <<claim, units>>

Init ==
    /\ claim = [o \in Orders |-> "none"]
    /\ units \in [Items -> Nat]

Hold(o) ==
    /\ claim[o] = "none"
    /\ claim' = [claim EXCEPT ![o] = "held"]
    /\ UNCHANGED units

Lapse(o) ==
    /\ claim[o] = "held"
    /\ claim' = [claim EXCEPT ![o] = "none"]
    /\ UNCHANGED units

TakeStock(o) ==
    /\ claim[o] \in {"none", "held"}
    /\ \A i \in Items : Need[o][i] <= units[i]
    /\ claim' = [claim EXCEPT ![o] = "taken"]
    /\ units' = [i \in Items |-> units[i] - Need[o][i]]

GiveBack(o) ==
    /\ claim[o] = "taken"
    /\ claim' = [claim EXCEPT ![o] = "returned"]
    /\ units' = [i \in Items |-> units[i] + Need[o][i]]

Drop(o) ==
    /\ claim[o] \in {"none", "held"}
    /\ claim' = [claim EXCEPT ![o] = "dropped"]
    /\ UNCHANGED units

MoveShelf ==
    /\ units' \in [Items -> Nat]
    /\ UNCHANGED claim

Next ==
    \/ \E o \in Orders : Hold(o) \/ Lapse(o) \/ TakeStock(o) \/ GiveBack(o) \/ Drop(o)
    \/ MoveShelf

Spec == Init /\ [][Next]_vars
=============================================================================
