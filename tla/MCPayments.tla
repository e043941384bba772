----------------------------- MODULE MCPayments ------------------------------
(* One order of two units, one of them the fee of its delivery.  On a day   *)
(* of payments a customer may open two intents for it; on a day of refunds  *)
(* it has one, i1, and two people refund it twice; on a day of late writes  *)
(* one person does, while a second checkout call of i1 is under way; on a   *)
(* day of deliveries it is delivered as well.  Days of deliveries keep      *)
(* completions and refunds apart, days of overlaps let them run at once.    *)
EXTENDS CourierPay

CONSTANTS o1, i1, i2, r1, r2, w1, w2

VARIABLE day

Days == {"payments", "refunds", "late writes", "deliveries"}

MCSource   == [i \in Intents |-> o1]
MCTotal    == [o \in {o1} |-> 2]
MCFee      == [o \in {o1} |-> 1]
MCRefundOf == [r \in {r1, r2} |-> i1]
TwoForFirst  == [i \in {i1, i2} |-> IF i = i1 THEN 2 ELSE 1]
TwoCalls     == [i \in {i1, i2} |-> 2]

OneDelivery ==
    /\ handling[i1] + failing[i1] <= 1 /\ intent[i2] = "none"
    /\ orderStatus[o1] # "cancelled"

(* The provider answers at once and refunds, nothing fails or stops.        *)
PromptProvider ==
    /\ \A r \in RefundIds : provider[r] \notin Moving \cup {"failed"} /\ booked[r] <= 1
    /\ event[i1] # "failed" /\ failing[i1] = 0
    /\ restarts = 0

OneWorker == work[w2].at = "idle" /\ restarts = 0

(* The order is paid before it is delivered or anything is refunded; then   *)
(* no call and no delivery of an event is under way.                       *)
Untouched ==
    /\ completing[o1].at = "idle" /\ completed[o1] = 0
    /\ \A r \in RefundIds : refund[r] = "none"

PaidFirst ==
    \/ Untouched'
    \/ /\ paid[o1] = OrderTotal[o1] /\ calls[i1] = 0 /\ handling[i1] = 0
       /\ UNCHANGED <<orderVars, calls, session, webhookVars>>

(* Nothing is delivered: a reconciliation finds nothing, and runs alone.    *)
NoDelivery ==
    /\ UNCHANGED <<pay, deliveryVars, audited>>
    /\ IF \E w \in Workers : review[w] # NoReview
       THEN UNCHANGED allVars
       ELSE UNCHANGED allVars => UNCHANGED review

Apart == completing[o1].at = "idle" \/ \A w \in Workers : ~AtWorkOn(w, i1)

MCInit == PayInit /\ day \in Days

MCNext ==
    /\ PayNext
    /\ UNCHANGED day
    /\ IF day = "late writes" THEN OneWorker' ELSE calls'[i1] <= 1
    /\ day = "payments" => UNCHANGED refundVars
    /\ day \in {"payments", "refunds", "late writes"} => NoDelivery
    /\ day # "payments" => OneDelivery'
    /\ day \in {"deliveries", "overlaps"} => PromptProvider' /\ PaidFirst
    /\ day = "deliveries" => Apart'

MCSpec == MCInit /\ [][MCNext]_<<payAllVars, day>>

MCFairSpec == MCSpec /\ Fairness

RequestsSpec == MCSpec /\ day = "refunds"
OverlapSpec  == PayInit /\ day = "overlaps" /\ [][MCNext]_<<payAllVars, day>>
=============================================================================
