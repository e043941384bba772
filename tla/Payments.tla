------------------------------ MODULE Payments ------------------------------
(***************************************************************************)
(* Paying for an order: the payment intents and order payments of           *)
(* payment-core.js, PayMongo's hosted checkout and signed webhooks          *)
(* (paymongo-adapter.js), payments a merchant records by hand               *)
(* (server-business-accounting.js) and their mirror into Payment Core       *)
(* (server-payments.js).                                                   *)
(*                                                                         *)
(* A database transaction that locks what it decides on is one action.      *)
(* What happens between transactions is not: a checkout call waits for the  *)
(* provider between its check and its write, a webhook delivery registers   *)
(* its event, then works, then may mark the event failed, and the mirror    *)
(* runs after the response has been sent.  Deliveries repeat until one is   *)
(* answered 2xx, calls overlap, and the process may stop at any point.      *)
(*                                                                         *)
(* Every order here is an online order.  The stock an accepted order needs  *)
(* is OrderStock's business: here, accepting may fail for lack of it.       *)
(***************************************************************************)
EXTENDS Sequences, Sums

CONSTANTS
    Orders,
    Intents,      \* payment_intents rows customers may open
    SourceOrder,  \* SourceOrder[i]: source_id of the intent
    OrderTotal,   \* orders.total
    Configured,   \* the provider's configuration is 'sandbox' or 'active'
    MaxCalls,     \* bound: checkout calls of an intent under way at once
    MaxHandlers,  \* bound: webhook deliveries of its event under way at once
    MaxRestarts   \* bound: how often the process stops and starts again

ASSUME PaymentsAssumption ==
    /\ SourceOrder \in [Intents -> Orders]
    /\ OrderTotal \in [Orders -> Nat \ {0}]
    /\ Configured \in BOOLEAN
    /\ "none" \notin Intents /\ "mirror" \notin Intents
    /\ MaxCalls \in [Intents -> Nat] /\ MaxHandlers \in [Intents -> Nat]
    /\ MaxRestarts \in Nat

OrderStatuses  == {"awaiting_payment", "accepted", "cancelled"}
OpenStatuses   == {"requires_provider", "requires_action"}
Confirmed      == {"succeeded", "partially_refunded", "refunded"}
IntentStatuses == {"none"} \cup OpenStatuses \cup Confirmed

VARIABLES
    orderStatus, \* orders.order_status; "accepted" and what follows it are one
    paid,        \* orders.paid_amount; outstanding_amount is total minus paid
    rows,        \* order_payments of the order, oldest first, and their intent
    hooks,       \* mirror hooks scheduled for the order and not run yet
    intent,      \* payment_intents.status; "none" before the row exists
    amount,      \* payment_intents.amount
    openAttempt, \* a payment_attempts row of the intent is 'requires_action'
    calls,       \* checkout calls that have the provider's session, not recorded
    session,     \* the provider's checkout session for the intent
    event,       \* provider_events.processing_status of the session's paid event
    handling,    \* deliveries that registered the event and not begun to work
    failing,     \* deliveries rolled back that have not marked the event yet
    restarts

orderVars   == <<orderStatus, paid, rows, hooks>>
intentVars  == <<intent, amount, openAttempt>>
webhookVars == <<event, handling, failing>>
vars == <<orderVars, intentVars, calls, session, webhookVars, restarts>>

Init ==
    /\ orderStatus = [o \in Orders |-> "awaiting_payment"]
    /\ paid = [o \in Orders |-> 0]
    /\ rows = [o \in Orders |-> <<>>]
    /\ hooks = [o \in Orders |-> 0]
    /\ intent = [i \in Intents |-> "none"]
    /\ amount = [i \in Intents |-> 0]
    /\ openAttempt = [i \in Intents |-> FALSE]
    /\ calls = [i \in Intents |-> 0]
    /\ session = [i \in Intents |-> "none"]
    /\ event = [i \in Intents |-> "none"]
    /\ handling = [i \in Intents |-> 0]
    /\ failing = [i \in Intents |-> 0]
    /\ restarts = 0

-----------------------------------------------------------------------------
Outstanding(o) == OrderTotal[o] - paid[o]

(* Mutant: the new total is the amount of the last payment. *)
PaidAfterReplacing(o, n) == n
PaidAfter(o, n) == paid[o] + n

(* The payment that covers an awaited order accepts it.                     *)
Accepts(o, n) == paid[o] + n = OrderTotal[o] /\ orderStatus[o] = "awaiting_payment"

(* payment_intent_id is unique: a second row of the same intent stays out.  *)
HasRow(o, by) == by \in Intents /\ \E n \in DOMAIN rows[o] : rows[o][n].intent = by

AddPayment(o, n, by) ==
    /\ rows' = [rows EXCEPT ![o] =
         IF HasRow(o, by) THEN @ ELSE Append(@, [amount |-> n, intent |-> by])]
    /\ paid' = [paid EXCEPT ![o] = PaidAfter(o, n)]
    /\ orderStatus' = [orderStatus EXCEPT ![o] = IF Accepts(o, n) THEN "accepted" ELSE @]

(* POST /api/orders/merchant/:id/payment, with the stock it needs.          *)
RecordPayment(o, n) ==
    /\ n <= Outstanding(o)
    /\ AddPayment(o, n, "none")
    /\ hooks' = [hooks EXCEPT ![o] = @ + 1]
    /\ UNCHANGED <<intentVars, calls, session, webhookVars, restarts>>

(* The hook of that route, after its response: it mirrors the order's       *)
(* latest payment (ORDER BY id DESC LIMIT 1), if no intent has it yet.      *)
MirrorLatest(o) ==
    /\ hooks[o] > 0
    /\ hooks' = [hooks EXCEPT ![o] = @ - 1]
    /\ rows' = [rows EXCEPT ![o] = [n \in DOMAIN @ |->
         IF n = Len(@) /\ @[n].intent = "none" THEN [@[n] EXCEPT !.intent = "mirror"] ELSE @[n]]]
    /\ UNCHANGED <<orderStatus, paid, intentVars, calls, session, webhookVars, restarts>>

CancelOrder(o) ==
    /\ orderStatus[o] # "cancelled"
    /\ orderStatus' = [orderStatus EXCEPT ![o] = "cancelled"]
    /\ UNCHANGED <<paid, rows, hooks, intentVars, calls, session, webhookVars, restarts>>

-----------------------------------------------------------------------------
(* createOrderPaymentIntent: for the whole balance, whatever the order's    *)
(* status.  A repeated idempotency key returns the row and is no step.      *)
CreateIntent(i) ==
    LET o == SourceOrder[i]
    IN  /\ intent[i] = "none"
        /\ Outstanding(o) > 0
        /\ intent' = [intent EXCEPT ![i] =
             IF Configured THEN "requires_action" ELSE "requires_provider"]
        /\ amount' = [amount EXCEPT ![i] = Outstanding(o)]
        /\ UNCHANGED <<orderVars, openAttempt, calls, session, webhookVars, restarts>>

(* createPayMongoCheckout up to the provider's answer.  The idempotency key *)
(* is the intent's, so the provider has one session per intent.  With an    *)
(* open attempt on file its URL is reused instead.                         *)
BeginCheckout(i) ==
    /\ intent[i] \in OpenStatuses /\ ~openAttempt[i]
    /\ calls[i] < MaxCalls[i]
    /\ calls' = [calls EXCEPT ![i] = @ + 1]
    /\ session' = [session EXCEPT ![i] = IF @ = "none" THEN "open" ELSE @]
    /\ UNCHANGED <<orderVars, intentVars, webhookVars, restarts>>

(* Mutant: the late writer does not look at the intent's status. *)
ReopenAnyway(i) == "requires_action"

(* UPDATE payment_intents ... WHERE status<>'succeeded' *)
AfterCheckout(i) == IF intent[i] # "succeeded" THEN "requires_action" ELSE "succeeded"

(* ... and from there: the attempt is inserted and the intent updated.      *)
RecordCheckout(i) ==
    /\ calls[i] > 0
    /\ calls' = [calls EXCEPT ![i] = @ - 1]
    /\ openAttempt' = [openAttempt EXCEPT ![i] = TRUE]
    /\ intent' = [intent EXCEPT ![i] = AfterCheckout(i)]
    /\ UNCHANGED <<orderVars, amount, session, webhookVars, restarts>>

(* The customer pays at the provider, with the URL of a recorded attempt.   *)
(* An "unclear" event lists another number of paid payments, another amount *)
(* or another currency than the intent's.                                  *)
CustomerPays(i, how) ==
    /\ session[i] = "open" /\ openAttempt[i]
    /\ session' = [session EXCEPT ![i] = how]
    /\ UNCHANGED <<orderVars, intentVars, calls, webhookVars, restarts>>

-----------------------------------------------------------------------------
(* processPayMongoWebhook, up to BEGIN: registerProviderEvent keeps the     *)
(* first row of an event; a processed event is a duplicate, and no step.    *)
(* Mutant: a delivery whose event is already on file is a duplicate. *)
IsNewDelivery(i) == event[i] = "none"
NeedsWork(i) == event[i] # "processed"

Deliver(i) ==
    /\ session[i] \in {"paid", "unclear"}
    /\ NeedsWork(i)
    /\ handling[i] + failing[i] < MaxHandlers[i]
    /\ handling' = [handling EXCEPT ![i] = @ + 1]
    /\ event' = [event EXCEPT ![i] = IF @ = "none" THEN "received" ELSE @]
    /\ UNCHANGED <<orderVars, intentVars, calls, session, failing, restarts>>

(* Mutant: the intent locked in the transaction is not looked at again. *)
NeverCredited(i) == FALSE
AlreadyCredited(i) == intent[i] = "succeeded"

(* Mutant: the order's current balance is not compared. *)
AnyAmountFits(i) == TRUE
FitsBalance(i) == amount[i] <= Outstanding(SourceOrder[i])

Finish(i, outcome) ==
    /\ handling[i] > 0
    /\ handling' = [handling EXCEPT ![i] = @ - 1]
    /\ event' = [event EXCEPT ![i] = outcome]
    /\ UNCHANGED failing

FindDuplicate(i) ==
    /\ session[i] = "paid" /\ AlreadyCredited(i)
    /\ Finish(i, "processed")
    /\ UNCHANGED <<orderVars, intentVars, calls, session, restarts>>

(* Mutant: the intent is confirmed before the balance is compared. *)
ConfirmAndReview(i) == intent' = [intent EXCEPT ![i] = "succeeded"]
KeepIntent(i) == UNCHANGED intent

(* The event or the balance does not match: manual_review, nothing credited.*)
HoldForReview(i) ==
    /\ session[i] = "paid" => ~AlreadyCredited(i) /\ ~FitsBalance(i)
    /\ Finish(i, "manual_review")
    /\ KeepIntent(i)
    /\ UNCHANGED <<orderVars, amount, openAttempt, calls, session, restarts>>

MayCredit(i) == session[i] = "paid" /\ ~AlreadyCredited(i) /\ FitsBalance(i)

(* confirmOrderPayMongoSourcePayment and the rest of the transaction.       *)
Credit(i) ==
    /\ MayCredit(i)
    /\ Finish(i, "processed")
    /\ AddPayment(SourceOrder[i], amount[i], i)
    /\ intent' = [intent EXCEPT ![i] = "succeeded"]
    /\ openAttempt' = [openAttempt EXCEPT ![i] = FALSE]
    /\ UNCHANGED <<hooks, amount, calls, session, restarts>>

(* The order would be accepted, its stock is short: everything rolls back.  *)
RollBack(i) ==
    /\ MayCredit(i) /\ Accepts(SourceOrder[i], amount[i])
    /\ handling[i] > 0
    /\ handling' = [handling EXCEPT ![i] = @ - 1]
    /\ failing' = [failing EXCEPT ![i] = @ + 1]
    /\ UNCHANGED <<orderVars, intentVars, calls, session, event, restarts>>

(* markProviderEvent(..., 'failed'), in a statement of its own.             *)
MarkFailed(i) ==
    /\ failing[i] > 0
    /\ failing' = [failing EXCEPT ![i] = @ - 1]
    /\ event' = [event EXCEPT ![i] = "failed"]
    /\ UNCHANGED <<orderVars, intentVars, calls, session, handling, restarts>>

-----------------------------------------------------------------------------
(* The process stops: everything under way is gone.  When it starts,        *)
(* backfillLegacyOrderPayments gives every bare payment its intent.         *)
Restart ==
    /\ restarts < MaxRestarts
    /\ restarts' = restarts + 1
    /\ calls' = [i \in Intents |-> 0]
    /\ handling' = [i \in Intents |-> 0]
    /\ failing' = [i \in Intents |-> 0]
    /\ hooks' = [o \in Orders |-> 0]
    /\ rows' = [o \in Orders |-> [n \in DOMAIN rows[o] |->
         IF rows[o][n].intent = "none" THEN [rows[o][n] EXCEPT !.intent = "mirror"]
         ELSE rows[o][n]]]
    /\ UNCHANGED <<orderStatus, paid, intentVars, session, event>>

OrderStep(o) ==
    \/ \E n \in 1..OrderTotal[o] : RecordPayment(o, n)
    \/ MirrorLatest(o)
    \/ CancelOrder(o)

IntentStep(i) ==
    \/ CreateIntent(i)
    \/ BeginCheckout(i)
    \/ RecordCheckout(i)
    \/ \E how \in {"paid", "unclear"} : CustomerPays(i, how)
    \/ Deliver(i)
    \/ FindDuplicate(i)
    \/ HoldForReview(i)
    \/ Credit(i)
    \/ RollBack(i)
    \/ MarkFailed(i)

Next ==
    \/ \E o \in Orders : OrderStep(o)
    \/ \E i \in Intents : IntentStep(i)
    \/ Restart

Spec == Init /\ [][Next]_vars

(* The provider repeats a delivery that was not answered 2xx, a delivery    *)
(* that was received is worked on, and a failed one marks its event.        *)
Fairness ==
    \A i \in Intents :
        /\ WF_vars(Deliver(i) /\ event[i] # "manual_review")
        /\ WF_vars(FindDuplicate(i) \/ HoldForReview(i) \/ Credit(i) \/ RollBack(i))
        /\ WF_vars(MarkFailed(i))

-----------------------------------------------------------------------------
PaymentRow == [amount : Nat, intent : Intents \cup {"none", "mirror"}]

(* Types of the tables and of the calls under way.                          *)
TypeOK ==
    /\ orderStatus \in [Orders -> OrderStatuses]
    /\ paid \in [Orders -> Nat]
    /\ rows \in [Orders -> Seq(PaymentRow)]
    /\ hooks \in [Orders -> Nat]
    /\ intent \in [Intents -> IntentStatuses]
    /\ amount \in [Intents -> Nat]
    /\ openAttempt \in [Intents -> BOOLEAN]
    /\ calls \in [Intents -> Nat]
    /\ session \in [Intents -> {"none", "open", "paid", "unclear"}]
    /\ event \in [Intents -> {"none", "received", "processed", "failed", "manual_review"}]
    /\ handling \in [Intents -> Nat]
    /\ failing \in [Intents -> Nat]
    /\ restarts \in 0..MaxRestarts

(* However many intents, hand-recorded payments and repeated deliveries an  *)
(* order sees, no more is credited to it than it costs.                    *)
NeverOverpaid == \A o \in Orders : paid[o] <= OrderTotal[o]

(* paid_amount is the sum of the order's payment rows: no writer of the     *)
(* total loses another's payment or counts one twice.                      *)
PaidIsEvidenced ==
    \A o \in Orders :
        paid[o] = Total([n \in DOMAIN rows[o] |-> rows[o][n].amount], DOMAIN rows[o])

RowsOf(i) == {n \in DOMAIN rows[SourceOrder[i]] : rows[SourceOrder[i]][n].intent = i}

(* A confirmed intent has paid its order with one row of its amount, in     *)
(* spite of deliveries that repeat, overlap and fail halfway; and no intent *)
(* has two.                                                                *)
CreditedOnce ==
    \A i \in Intents :
        /\ \A m, n \in RowsOf(i) : m = n
        /\ intent[i] \in Confirmed =>
              \E n \in RowsOf(i) : rows[SourceOrder[i]][n].amount = amount[i]

(* Money that was credited is never sent to manual review as well, however  *)
(* its deliveries overlap.                                                 *)
ReviewedNotCredited ==
    \A i \in Intents : event[i] = "manual_review" => intent[i] # "succeeded"

(* A checkout call that is still waiting for the provider when the payment  *)
(* is confirmed does not open the intent again.                            *)
SucceededStays ==
    [][\A i \in Intents : intent[i] = "succeeded" => intent'[i] \in Confirmed]_vars

(* Money the provider has captured does not go unnoticed: it is in a row of *)
(* the order, or its event is left to a person, whatever process stops and  *)
(* repeated deliveries come between.  (The intent would not show it: a late *)
(* checkout write may open a refunded one again.)                          *)
CapturedMoneySurfaces ==
    \A i \in Intents :
        session[i] \in {"paid", "unclear"} ~>
            HasRow(SourceOrder[i], i) \/ event[i] \in {"manual_review", "failed"}
=============================================================================
