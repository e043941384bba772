--------------------------- MODULE CountSession ---------------------------
(***************************************************************************)
(* Counting the stock: inventory-count-sessions.js.                        *)
(*                                                                         *)
(* A session fixes what the books expect, people count for as long as it    *)
(* takes while orders and receipts go on, and posting corrects the books by *)
(* the variance - for the whole business, or for one storage place.  Every  *)
(* handler is one transaction that locks the session and, when it posts,    *)
(* the counted items.                                                      *)
(***************************************************************************)
EXTENDS StockPlaces

CONSTANT Everywhere  \* the scope of a session that is not bound to a place

ASSUME ScopeAssumption == Everywhere \notin Places

VARIABLE session  \* the latest inventory_count_sessions row and its items

allVars == <<vars, placeVars, repair, session>>

Absent == -1  \* not an item of the session; not counted yet

NoSession == [status |-> "none"]

Active == session.status \in {"in_progress", "review"}

Listed == {i \in Items : session.expected[i] # Absent}

Opened(scope, expected) ==
    [status |-> "in_progress", scope |-> scope, expected |-> expected,
     counted |-> [i \in Items |-> Absent]]

(* POST /api/inventory/count-sessions, one active session per business: of  *)
(* all items, or of those of a category or a storage area ...              *)
OpenCount(chosen) ==
    /\ ~Active
    /\ chosen # {}
    /\ session' = Opened(Everywhere,
                         [i \in Items |-> IF i \in chosen THEN onHand[i] ELSE Absent])
    /\ UNCHANGED <<vars, placeVars, repair>>

(* ... or of what one place holds once the balances are reconciled.         *)
OpenCountAt(p) ==
    /\ ~Active
    /\ at' = Settled
    /\ \E i \in Items : at'[i][p] > 0
    /\ session' = Opened(p, [i \in Items |-> IF at'[i][p] > 0 THEN at'[i][p] ELSE Absent])
    /\ lotAt' = LotsSettled
    /\ UNCHANGED <<vars, home, transfer, repair>>

(* PUT /api/inventory/count-sessions/:id/items/:inventoryId *)
SaveCount(i, n) ==
    /\ session.status = "in_progress"
    /\ i \in Listed
    /\ session' = [session EXCEPT !.counted[i] = n]
    /\ UNCHANGED <<vars, placeVars, repair>>

AllCounted == \A i \in Listed : session.counted[i] # Absent

ReviewCount ==
    /\ Active /\ AllCounted
    /\ session' = [session EXCEPT !.status = "review"]
    /\ UNCHANGED <<vars, placeVars, repair>>

(* Back to counting: what was expected stays what it was.                  *)
ResumeCount ==
    /\ Active
    /\ session' = [session EXCEPT !.status = "in_progress"]
    /\ UNCHANGED <<vars, placeVars, repair>>

-----------------------------------------------------------------------------
(* POST /api/inventory/count-sessions/:id/post.  The merchant has approved  *)
(* every variance; a session that was posted answers as before and changes  *)
(* nothing.                                                                *)
Variances == {i \in Listed : session.counted[i] # session.expected[i]}

Delta(i) == session.counted[i] - session.expected[i]

Shortages == {i \in Variances : Delta(i) < 0}

Current(i) == IF session.scope = Everywhere THEN onHand[i] ELSE at[i][session.scope]

(* Mutant: a count that trusts its snapshot. *)
TrustSnapshot == TRUE

(* "Inventory changed after this count started."                           *)
NothingMoved == \A i \in Listed : Current(i) = session.expected[i]

(* Mutant: a reservation stops a count only while the order is unpaid. *)
ShortagesUnawaited ==
    \A i \in Shortages : \A o \in Orders :
        hold[o] = "reserved" /\ status[o] # "accepted" => Need[o][i] = 0

(* "This item has stock reserved for an active order."                     *)
ShortagesUnreserved == \A i \in Shortages : \A o \in Orders : hold[o] = "reserved" => Need[o][i] = 0

CorrectedLevel(i) ==
    IF i \notin Variances THEN onHand[i]
    ELSE IF session.scope = Everywhere THEN session.counted[i] ELSE onHand[i] + Delta(i)

PartOf(take, i) == [l \in Lots |-> IF LotItem[l] = i THEN take[l] ELSE 0]

Earlier(i, S) == {j \in S : ItemRank[j] < ItemRank[i]}

(* A count of the business: lots follow planPhysicalStockReduction in mode  *)
(* 'count', and after each item everything is reconciled, so an item with   *)
(* an earlier variance has been reconciled once before its own.            *)
TakesEverywhere(take) ==
    \A i \in Items :
        IF i \in Shortages THEN IsCountTake(PartOf(take, i), onHand[i], lotQty, i, -Delta(i))
        ELSE PartOf(take, i) = NoLots

PlacesEverywhere ==
    IF Variances = {} THEN UNCHANGED <<at, lotAt>>
    ELSE /\ at' = [i \in Items |->
              SettledItem(IF Earlier(i, Variances) = {} THEN at[i] ELSE Settled[i],
                          home[i], onHand'[i])]
         /\ lotAt' = [l \in Lots |->
              SettledLot(IF Earlier(LotItem[l], Variances) = {} THEN lotAt[l] ELSE LotsSettled[l],
                         home[LotItem[l]], lotQty'[l])]

(* A count of a place: planLocationStockReduction reconciles everything,    *)
(* then takes a shortage from the lots at that place in FEFO order, and     *)
(* the rest from what no lot accounts for.                                 *)
ReconciledBefore(i) == i \in Shortages \/ Earlier(i, Shortages) # {}

TakesAt(p, take) ==
    \A i \in Items :
        IF i \in Shortages
        THEN /\ -Delta(i) <= Settled[i][p]
             /\ IsFefoTake(take, [l \in Lots |-> LotsSettled[l][p]], LotsOf(i), -Delta(i))
        ELSE PartOf(take, i) = NoLots

PlacesAt(p, take) ==
    /\ at' = [i \in Items |->
         IF i \in Variances
         THEN [(IF ReconciledBefore(i) THEN Settled[i] ELSE at[i]) EXCEPT ![p] = session.counted[i]]
         ELSE IF Shortages = {} THEN at[i] ELSE Settled[i]]
    /\ lotAt' = IF Shortages = {} THEN lotAt
                ELSE [l \in Lots |-> [LotsSettled[l] EXCEPT ![p] = @ - take[l]]]

(* "Location count posting must conserve business-total stock."             *)
PlacesConserve ==
    session.scope # Everywhere => \A i \in Variances : AddsUp(at'[i], onHand'[i])

(* Mutant: only a shortage is compared with the lots, before its lots go. *)
ShortagesFit == \A i \in Shortages : -Delta(i) <= onHand[i]

(* "Lot quantities would exceed the corrected Inventory quantity."          *)
VariancesFit == \A i \in Variances : LotsFitShelf(i)

PostCount ==
    /\ session.status = "review"
    /\ NothingMoved
    /\ ShortagesUnreserved
    /\ \A i \in Items : CorrectedLevel(i) >= 0
    /\ onHand' = [i \in Items |-> CorrectedLevel(i)]
    /\ booked' = [i \in Items |-> booked[i] + (IF i \in Variances THEN Delta(i) ELSE 0)]
    /\ \E take \in LotTakes :
         /\ TakeFromLots(take)
         /\ lotBooked' = [l \in Lots |-> lotBooked[l] - take[l]]
         /\ IF session.scope = Everywhere
            THEN TakesEverywhere(take) /\ PlacesEverywhere
            ELSE TakesAt(session.scope, take) /\ PlacesAt(session.scope, take)
    /\ PlacesConserve
    /\ VariancesFit
    /\ session' = [status |-> "posted"]
    /\ UNCHANGED <<orderVars, holdVars, yardVars, home, transfer, repair>>

-----------------------------------------------------------------------------
CountInit == Init /\ InitPlaces /\ session = NoSession

SessionStep ==
    \/ \E chosen \in SUBSET Items : OpenCount(chosen)
    \/ \E p \in Places : OpenCountAt(p)
    \/ \E i \in Items, n \in 0..MaxCount : SaveCount(i, n)
    \/ ReviewCount
    \/ ResumeCount
    \/ PostCount

CountNext ==
    \/ ShelfStep /\ UNCHANGED session
    \/ PlaceStep /\ UNCHANGED session
    \/ SessionStep

CountSpec == CountInit /\ [][CountNext]_allVars

(* The only progress assumed: the page that shows the balances is opened    *)
(* again and again, and its repair goes on.                                *)
PagesKeepComing == WF_allVars(RepairStep /\ UNCHANGED session)

-----------------------------------------------------------------------------
(* A posted count moves the books by exactly the variance that was          *)
(* approved, and settles where the stock is: the balances of a corrected    *)
(* item add up to its new quantity, and the counted place holds what was    *)
(* counted there, although quantity and balances had drifted apart since.   *)
CountsSettle ==
    [][session.status = "review" /\ session'.status = "posted" =>
         \A i \in Variances :
             /\ onHand'[i] = onHand[i] + Delta(i)
             /\ AddsUp(at'[i], onHand'[i])
             /\ session.scope # Everywhere =>
                    at'[i][session.scope] = session.counted[i]]_allVars

(* Pages that keep being opened heal every drift once the shelf is quiet,   *)
(* whatever their repairs overlapped with before.                          *)
DriftHeals == <>[][RepairStep]_allVars => <>[](~Drifted)
=============================================================================
