------------------------------ MODULE Dispatch ------------------------------
(***************************************************************************)
(* Delivery of ready orders by couriers (server-delivery.js): the rounds of *)
(* offers a merchant opens, the couriers who take or refuse them, the       *)
(* admin's manual assignment, the courier's journey, and the customer's     *)
(* handoff code (delivery-handoff-security.js).  Each delivery belongs to   *)
(* one order, so orders are named by their deliveries.                      *)
(*                                                                         *)
(* A handler whose transaction locks the rows it decides on is one action.  *)
(* Two are not.  A courier who turns available reads the waiting deliveries *)
(* without locking them and inserts its offers later.  A status call reads  *)
(* the delivery before its transaction and writes whatever it has become.   *)
(*                                                                         *)
(* A delivery order is paid online before it is prepared, so a ready order  *)
(* is a paid one.  An offer whose time is over is not told from one marked  *)
(* expired or withdrawn: no handler lets it be accepted or refused.         *)
(***************************************************************************)
EXTENDS Integers, FiniteSets

CONSTANTS
    Deliveries,
    Couriers,
    Callers,     \* Callers[d]: bound on the status calls of d under way at once
    Able,        \* Able[d]: couriers with the territory, vehicle and range for d
    MaxFailures, \* HANDOFF_MAX_FAILED_ATTEMPTS
    MaxShifts,   \* bound: availability transactions open at once
    MaxRounds    \* bound: rounds of offers of each delivery

ASSUME DispatchAssumption ==
    /\ Able \in [Deliveries -> SUBSET Couriers]
    /\ DOMAIN Callers = Deliveries
    /\ "none" \notin Couriers
    /\ MaxFailures \in Nat \ {0}
    /\ MaxShifts \in Nat
    /\ MaxRounds \in [Deliveries -> Nat]

Rounds(d) == 1..MaxRounds[d]
Slots     == UNION {{d} \X Couriers \X Rounds(d) : d \in Deliveries}
Calls     == UNION {{d} \X Callers[d] : d \in Deliveries}

OrderStatuses == {"preparing", "ready", "handoff_to_delivery", "completed", "cancelled"}

(* The statuses a courier may ask for, by the one the delivery has.         *)
Flow == [courier_assigned             |-> "courier_en_route_to_merchant",
         courier_en_route_to_merchant |-> "courier_arrived_at_merchant",
         courier_arrived_at_merchant  |-> "picked_up",
         picked_up                    |-> "in_transit",
         in_transit                   |-> "courier_arrived_at_customer"]
Reported == {Flow[s] : s \in DOMAIN Flow}
Active   == {"courier_assigned"} \cup Reported

Waiting == {"quoted", "awaiting_courier"}

DeliveryStatuses == Waiting \cup Active \cup {"delivered"}
OfferStatuses    == {"none", "pending", "accepted", "declined", "closed"}

VARIABLES
    orderStatus, \* orders.order_status; "preparing" and what precedes it are one
    delivery,    \* deliveries.status
    courier,     \* deliveries.courier_account_id
    round,       \* deliveries.dispatch_round
    offer,       \* delivery_offers.status; "closed" is withdrawn or expired
    available,   \* courier_profiles.available
    eligible,    \* the courier's approval and documents are in order
    joining,     \* couriers whose availability transaction is open
    seen,        \* the waiting deliveries it has read, with their round
    call,        \* the status a call has decided on and not written yet
    failures,    \* deliveries.handoff_failed_attempts
    lock         \* handoff_locked_until: none, in the future, in the past

offerVars   == <<round, offer>>
courierVars == <<available, eligible, joining, seen>>
codeVars    == <<failures, lock>>
vars == <<orderStatus, delivery, courier, offerVars, courierVars, call, codeVars>>

TypeOK ==
    /\ orderStatus \in [Deliveries -> OrderStatuses]
    /\ delivery \in [Deliveries -> DeliveryStatuses]
    /\ courier \in [Deliveries -> Couriers \cup {"none"}]
    /\ round \in [Deliveries -> Nat]
    /\ offer \in [Slots -> OfferStatuses]
    /\ available \in [Couriers -> BOOLEAN]
    /\ eligible \in [Couriers -> BOOLEAN]
    /\ joining \in SUBSET Couriers
    /\ seen \in [Couriers -> SUBSET (Deliveries \X Nat)]
    /\ call \in [Calls -> Reported \cup {"none"}]
    /\ failures \in [Deliveries -> 0..MaxFailures]
    /\ lock \in [Deliveries -> {"none", "active", "lapsed"}]

Init ==
    /\ orderStatus = [d \in Deliveries |-> "preparing"]
    /\ delivery = [d \in Deliveries |-> "quoted"]
    /\ courier = [d \in Deliveries |-> "none"]
    /\ round = [d \in Deliveries |-> 0]
    /\ offer = [s \in Slots |-> "none"]
    /\ available = [c \in Couriers |-> FALSE]
    /\ eligible = [c \in Couriers |-> TRUE]
    /\ joining = {}
    /\ seen = [c \in Couriers |-> {}]
    /\ call = [w \in Calls |-> "none"]
    /\ failures = [d \in Deliveries |-> 0]
    /\ lock = [d \in Deliveries |-> "none"]

-----------------------------------------------------------------------------
(* courierHasActiveDelivery *)
JobsOf(c) == {d \in Deliveries : courier[d] = c /\ delivery[d] \in Active}

(* deliveryOfferCourierGate, as courierOfferGateFromDb calls it.            *)
(* Mutant: the gate looks at neither the availability nor other jobs. *)
CarelessGate(c, d) == eligible[c] /\ c \in Able[d]
Gate(c, d) == eligible[c] /\ available[c] /\ c \in Able[d] /\ JobsOf(c) \ {d} = {}

OffersOf(c)   == {s \in Slots : s[2] = c}
OffersFor(d)  == {s \in Slots : s[1] = d}
Close(closed) == [s \in Slots |->
                    IF s \in closed /\ offer[s] = "pending" THEN "closed" ELSE offer[s]]

(* What reconcileCourierEligibility finds withdrawn for a courier who is    *)
(* not eligible or not available.                                          *)
Withdrawn(c) == IF eligible[c] /\ available[c] THEN {} ELSE OffersOf(c)

-----------------------------------------------------------------------------
(* The order's own steps (server-orders.js), as far as deliveries see them. *)
MarkReady(d) ==
    /\ orderStatus[d] = "preparing"
    /\ orderStatus' = [orderStatus EXCEPT ![d] = "ready"]
    /\ UNCHANGED <<delivery, courier, offerVars, courierVars, call, codeVars>>

HandOff(d) ==
    /\ orderStatus[d] = "ready"
    /\ orderStatus' = [orderStatus EXCEPT ![d] = "handoff_to_delivery"]
    /\ UNCHANGED <<delivery, courier, offerVars, courierVars, call, codeVars>>

(* Mutant: a cancellation looks at nothing. *)
CancelAnyOrder(d) ==
    /\ orderStatus' = [orderStatus EXCEPT ![d] = "cancelled"]
    /\ UNCHANGED <<delivery, courier, offerVars, courierVars, call, codeVars>>

(* Nothing is told to the delivery.                                        *)
CancelOrder(d) ==
    /\ orderStatus[d] \notin {"completed", "cancelled"}
    /\ orderStatus' = [orderStatus EXCEPT ![d] = "cancelled"]
    /\ UNCHANGED <<delivery, courier, offerVars, courierVars, call, codeVars>>

-----------------------------------------------------------------------------
(* POST /api/delivery/:id/request-courier, with createOfferRound: each      *)
(* courier who says to be available passes reconciliation and the gate; one *)
(* whose availability transaction is open holds the lock this waits for.    *)
RequestCourier(d) ==
    LET next   == round[d] + 1
        unfit  == {c \in Couriers : available[c] /\ ~eligible[c]}
        chosen == {c \in Couriers : Gate(c, d)}
    IN  /\ orderStatus[d] = "ready"
        /\ delivery[d] \in Waiting
        /\ next \in Rounds(d)
        /\ \A s \in OffersFor(d) : s[3] = round[d] => offer[s] # "pending"
        /\ \A c \in joining : ~available[c]
        /\ delivery' = [delivery EXCEPT ![d] = "awaiting_courier"]
        /\ round' = [round EXCEPT ![d] = next]
        /\ offer' = [s \in Slots |->
             IF s[1] = d /\ s[2] \in chosen /\ s[3] = next /\ offer[s] = "none" THEN "pending"
             ELSE IF s[2] \in unfit /\ offer[s] = "pending" THEN "closed" ELSE offer[s]]
        /\ available' = [c \in Couriers |-> available[c] /\ eligible[c]]
        /\ UNCHANGED <<orderStatus, courier, eligible, joining, seen, call, codeVars>>

OfferLapses(s) ==
    /\ offer[s] = "pending"
    /\ offer' = [offer EXCEPT ![s] = "closed"]
    /\ UNCHANGED <<orderStatus, delivery, courier, round, courierVars, call, codeVars>>

-----------------------------------------------------------------------------
(* Mutant: whoever is on a delivery may turn available. *)
MayJoinBusy(c) == eligible[c]
MayJoin(c) == eligible[c] /\ JobsOf(c) = {}

OfferedBefore(d, c) == \E r \in Rounds(d) : r = round[d] /\ offer[<<d, c, r>>] # "none"

(* PUT /api/courier/availability {available: true}, up to the list of       *)
(* waiting deliveries: it holds the courier's profile row from here on.     *)
BeginShift(c) ==
    /\ c \notin joining /\ Cardinality(joining) < MaxShifts
    /\ MayJoin(c)
    /\ joining' = joining \cup {c}
    /\ seen' = [seen EXCEPT ![c] =
         {<<d, round[d]>> : d \in {d \in Deliveries :
            /\ delivery[d] = "awaiting_courier" /\ courier[d] = "none"
            /\ ~OfferedBefore(d, c)}}]
    /\ UNCHANGED <<orderStatus, delivery, courier, offerVars, available, eligible, call, codeVars>>

(* ... and from there: its offers, and the availability, become visible.    *)
EndShift(c) ==
    /\ c \in joining
    /\ joining' = joining \ {c}
    /\ seen' = [seen EXCEPT ![c] = {}]
    /\ available' = [available EXCEPT ![c] = TRUE]
    /\ offer' = [s \in Slots |->
         IF /\ s[2] = c /\ <<s[1], s[3]>> \in seen[c]
            /\ c \in Able[s[1]] /\ offer[s] = "none"
         THEN "pending"
         ELSE IF s[2] = c /\ ~available[c] /\ offer[s] = "pending" THEN "closed" ELSE offer[s]]
    /\ UNCHANGED <<orderStatus, delivery, courier, round, eligible, call, codeVars>>

AbortShift(c) ==
    /\ c \in joining
    /\ joining' = joining \ {c}
    /\ seen' = [seen EXCEPT ![c] = {}]
    /\ UNCHANGED <<orderStatus, delivery, courier, offerVars, available, eligible, call, codeVars>>

(* PUT /api/courier/availability {available: false}                         *)
GoUnavailable(c) ==
    /\ c \notin joining
    /\ available' = [available EXCEPT ![c] = FALSE]
    /\ offer' = Close(OffersOf(c))
    /\ UNCHANGED <<orderStatus, delivery, courier, round, eligible, joining, seen, call, codeVars>>

(* A document or an approval runs out; nobody has looked yet.               *)
EligibilityLapses(c) ==
    /\ eligible[c]
    /\ eligible' = [eligible EXCEPT ![c] = FALSE]
    /\ UNCHANGED <<orderStatus, delivery, courier, offerVars, available, joining, seen, call, codeVars>>

(* reconcileCourierEligibility on its own: the courier opens the profile or *)
(* the offers, or the gate refuses a manual assignment.                     *)
Reconcile(c) ==
    /\ c \notin joining
    /\ available' = [available EXCEPT ![c] = @ /\ eligible[c]]
    /\ offer' = Close(Withdrawn(c))
    /\ UNCHANGED <<orderStatus, delivery, courier, round, eligible, joining, seen, call, codeVars>>

(* PATCH /api/admin/couriers/:accountId, to 'approved' or to anything else; *)
(* or the courier moves to another operating area, which ends an approval.  *)
Review(c, approved) ==
    /\ c \notin joining
    /\ eligible' = [eligible EXCEPT ![c] = approved]
    /\ available' = [available EXCEPT ![c] = @ /\ approved]
    /\ offer' = IF approved THEN offer ELSE Close(OffersOf(c))
    /\ UNCHANGED <<orderStatus, delivery, courier, round, joining, seen, call, codeVars>>

-----------------------------------------------------------------------------
(* POST /api/courier/delivery-offers/:offerId/decline *)
Decline(s) ==
    /\ offer[s] = "pending"
    /\ offer' = [offer EXCEPT ![s] =
         IF delivery[s[1]] = "awaiting_courier" /\ s[3] = round[s[1]] THEN "declined" ELSE "closed"]
    /\ UNCHANGED <<orderStatus, delivery, courier, round, courierVars, call, codeVars>>

(* Mutant: the offer's round is not compared with the delivery's. *)
OfAnyRound(s) == delivery[s[1]] = "awaiting_courier"
Open(s) == delivery[s[1]] = "awaiting_courier" /\ courier[s[1]] = "none" /\ s[3] = round[s[1]]

(* POST /api/courier/delivery-offers/:offerId/accept.  The order is not     *)
(* looked at again.                                                        *)
Accept(s) ==
    LET d == s[1]
        c == s[2]
    IN  /\ offer[s] = "pending"
        /\ Open(s)
        /\ c \notin joining
        /\ Gate(c, d)
        /\ courier' = [courier EXCEPT ![d] = c]
        /\ delivery' = [delivery EXCEPT ![d] = "courier_assigned"]
        /\ offer' = [Close({t \in OffersFor(d) : t[3] = s[3]} \cup (OffersOf(c) \ OffersFor(d)))
                       EXCEPT ![s] = "accepted"]
        /\ available' = [available EXCEPT ![c] = FALSE]
        /\ UNCHANGED <<orderStatus, round, eligible, joining, seen, call, codeVars>>

(* ... of an offer of an earlier round, or by a courier the gate refuses.   *)
(* An accept of a delivery already taken changes nothing.                   *)
AcceptRefused(s) ==
    /\ offer[s] = "pending"
    /\ delivery[s[1]] = "awaiting_courier"
    /\ \/ /\ ~Open(s)
          /\ offer' = Close({s})
          /\ UNCHANGED available
       \/ /\ Open(s) /\ s[2] \notin joining /\ ~Gate(s[2], s[1])
          /\ offer' = Close({s} \cup Withdrawn(s[2]))
          /\ available' = [available EXCEPT ![s[2]] = @ /\ eligible[s[2]]]
    /\ UNCHANGED <<orderStatus, delivery, courier, round, eligible, joining, seen, call, codeVars>>

(* Mutant: a refusal of the round does not count. *)
NobodyRefused(d, c) == FALSE
Refused(d, c) == \E r \in Rounds(d) : r = round[d] /\ offer[<<d, c, r>>] = "declined"

(* POST /api/admin/deliveries/:id/assign.  The order is not looked at.      *)
Assign(d, c) ==
    /\ delivery[d] = "awaiting_courier" /\ courier[d] = "none"
    /\ ~Refused(d, c)
    /\ c \notin joining
    /\ Gate(c, d)
    /\ courier' = [courier EXCEPT ![d] = c]
    /\ delivery' = [delivery EXCEPT ![d] = "courier_assigned"]
    /\ offer' = Close(OffersFor(d) \cup OffersOf(c))
    /\ available' = [available EXCEPT ![c] = FALSE]
    /\ UNCHANGED <<orderStatus, round, eligible, joining, seen, call, codeVars>>

-----------------------------------------------------------------------------
(* Mutant: the status asked for is not compared with the one there is. *)
BeginAnyStatus(w) ==
    /\ delivery[w[1]] \in DOMAIN Flow
    /\ call[w] = "none"
    /\ \E status \in Reported : call' = [call EXCEPT ![w] = status]
    /\ UNCHANGED <<orderStatus, delivery, courier, offerVars, courierVars, codeVars>>

(* POST /api/courier/deliveries/:id/status, up to its transaction.          *)
BeginStatus(w) ==
    /\ delivery[w[1]] \in DOMAIN Flow
    /\ call[w] = "none"
    /\ call' = [call EXCEPT ![w] = Flow[delivery[w[1]]]]
    /\ UNCHANGED <<orderStatus, delivery, courier, offerVars, courierVars, codeVars>>

(* ... and from there.  The write has no condition.                         *)
EndStatus(w) ==
    /\ call[w] # "none"
    /\ call' = [call EXCEPT ![w] = "none"]
    /\ delivery' = [delivery EXCEPT ![w[1]] = call[w]]
    /\ orderStatus' = [orderStatus EXCEPT ![w[1]] =
         IF call[w] = "picked_up" /\ @ = "ready" THEN "handoff_to_delivery" ELSE @]
    /\ UNCHANGED <<courier, offerVars, courierVars, codeVars>>

DropStatus(w) ==
    /\ call[w] # "none"
    /\ call' = [call EXCEPT ![w] = "none"]
    /\ UNCHANGED <<orderStatus, delivery, courier, offerVars, courierVars, codeVars>>

-----------------------------------------------------------------------------
(* Mutant: failures after a lock go on counting from where they were. *)
FailuresGoOn(d) == failures[d] + 1

(* nextHandoffFailureState: after a lock that is over it starts afresh.     *)
NextFailures(d) == IF lock[d] = "lapsed" THEN 1 ELSE failures[d] + 1

(* Mutant: one attempt more than the maximum. *)
LocksLate(n) == n > MaxFailures
Locks(n) == n >= MaxFailures

(* POST /api/courier/deliveries/:id/complete, with a wrong code.            *)
WrongCode(d) ==
    /\ delivery[d] = "courier_arrived_at_customer"
    /\ lock[d] # "active"
    /\ failures' = [failures EXCEPT ![d] = NextFailures(d)]
    /\ lock' = [lock EXCEPT ![d] = IF Locks(NextFailures(d)) THEN "active" ELSE "none"]
    /\ UNCHANGED <<orderStatus, delivery, courier, offerVars, courierVars, call>>

LockLapses(d) ==
    /\ lock[d] = "active"
    /\ lock' = [lock EXCEPT ![d] = "lapsed"]
    /\ UNCHANGED <<orderStatus, delivery, courier, offerVars, courierVars, call, failures>>

(* ... with the right one: the order is completed, whatever its status.     *)
Complete(d) ==
    /\ delivery[d] = "courier_arrived_at_customer"
    /\ lock[d] # "active"
    /\ delivery' = [delivery EXCEPT ![d] = "delivered"]
    /\ orderStatus' = [orderStatus EXCEPT ![d] = "completed"]
    /\ failures' = [failures EXCEPT ![d] = 0]
    /\ lock' = [lock EXCEPT ![d] = "none"]
    /\ UNCHANGED <<courier, offerVars, courierVars, call>>

-----------------------------------------------------------------------------
OrderStep(d)  == MarkReady(d) \/ HandOff(d) \/ CancelOrder(d)
OfferStep(s)  == OfferLapses(s) \/ Decline(s) \/ Accept(s) \/ AcceptRefused(s)
StatusStep(w) == BeginStatus(w) \/ EndStatus(w) \/ DropStatus(w)
CodeStep(d)   == WrongCode(d) \/ LockLapses(d) \/ Complete(d)
CourierStep(c) ==
    \/ BeginShift(c) \/ EndShift(c) \/ AbortShift(c) \/ GoUnavailable(c)
    \/ EligibilityLapses(c) \/ Reconcile(c)
    \/ \E approved \in BOOLEAN : Review(c, approved)

Next ==
    \/ \E d \in Deliveries : OrderStep(d) \/ RequestCourier(d) \/ CodeStep(d)
    \/ \E s \in Slots : OfferStep(s)
    \/ \E c \in Couriers : CourierStep(c)
    \/ \E d \in Deliveries, c \in Couriers : Assign(d, c)
    \/ \E w \in Calls : StatusStep(w)

Spec == Init /\ [][Next]_vars

-----------------------------------------------------------------------------
(* A status call has an outcome before the courier's client sends the next. *)
OneCaller == \A v, w \in Calls : v[1] = w[1] => v = w

(* No courier is ever on two deliveries, although an accept, an assignment  *)
(* and a turn to available decide on them under different locks.           *)
OneJobPerCourier ==
    \A d, e \in Deliveries :
        (delivery[d] \in Active /\ delivery[e] \in Active /\ courier[d] = courier[e]) => d = e

(* A courier on a delivery is not available: what the availability handler  *)
(* has read stays true until it commits.                                   *)
AvailableIsFree == \A c \in Couriers : available[c] => JobsOf(c) = {}

(* First accept wins: an accepted offer is of the delivery's last round and *)
(* its courier has the delivery; rounds, late offers and the admin's        *)
(* assignment never take it away.                                          *)
FirstAcceptWins ==
    \A s \in Slots : offer[s] = "accepted" => courier[s[1]] = s[2] /\ round[s[1]] = s[3]

(* A refusal stands for its round: no turn to available makes the offer     *)
(* again, and nobody assigns the courier to the delivery.                  *)
RefusalStands ==
    [][\A s \in Slots : offer[s] = "declined" =>
         /\ offer'[s] = "declined"
         /\ (courier[s[1]] = "none" /\ courier'[s[1]] = s[2]) => s[3] # round[s[1]]]_vars

(* The goods are with the courier, or were.                                 *)
Carried == {"picked_up", "in_transit", "courier_arrived_at_customer", "delivered"}

(* Whatever status calls overlap, and whichever of them writes late: the    *)
(* delivery stays with its courier, never waits for one again, and is not   *)
(* carried, nor at the customer's door, before the merchant's order has     *)
(* left the counter.  A late write may take a delivery back to a stage it   *)
(* has had; it cannot take it past the pickup it has not had.               *)
CarriedIsHandedOff ==
    [][\A d \in Deliveries : courier[d] # "none" =>
         /\ courier'[d] = courier[d] /\ delivery'[d] \notin Waiting
         /\ delivery'[d] \in Carried => orderStatus'[d] \notin {"preparing", "ready"}]_vars

(* A delivered order is completed, and no cancellation undoes that.         *)
DeliveredIsCompleted ==
    \A d \in Deliveries : delivery[d] = "delivered" => orderStatus[d] = "completed"

(* Between two locks a courier has MaxFailures attempts at the code: the    *)
(* last of them locks, and only a lock that is over starts the count again. *)
GuessesLimited ==
    \A d \in Deliveries :
        /\ failures[d] <= MaxFailures
        /\ failures[d] = MaxFailures <=> lock[d] # "none"

(* What SOP_DELIVERY.md prohibits: "Dispatching an unpaid/unready order."   *)
(* A courier gets a delivery only while its order is ready, or has been     *)
(* handed off to the delivery.                                             *)
ReadyWhenDispatched ==
    [][\A d \in Deliveries : courier'[d] # courier[d] =>
         orderStatus[d] \in {"ready", "handoff_to_delivery"}]_vars

(* "Tracking closes after delivered/failed/cancelled" (SOP_DELIVERY.md): a  *)
(* delivered delivery does not return to a status under way.               *)
DeliveredForGood ==
    [][\A d \in Deliveries : delivery[d] = "delivered" => delivery'[d] = "delivered"]_vars
=============================================================================
