----------------------------- MODULE CourierPay ------------------------------
(***************************************************************************)
(* What a delivery earns its courier, and what a refund makes of it:        *)
(* allocateCourierCompensation of courier-compensation-core.js, called by   *)
(* the courier's completion of a delivery (server-delivery.js), and         *)
(* reconcileDeliveryRefundEconomics of paymongo-adapter.js, called by a     *)
(* refund that has succeeded.                                              *)
(*                                                                         *)
(* The completion is one transaction of several reads and a write, under    *)
(* READ COMMITTED: refunds commit in between.  The reconciliation opens no  *)
(* transaction, each of its statements commits by itself.  Neither locks a  *)
(* row the other decides on.                                               *)
(***************************************************************************)
EXTENDS Refunds

CONSTANTS
    DeliveryFee,    \* deliveries.delivery_fee, part of the order's total
    Shares,         \* what a completion allocates: "courier_net" in the promotional
                    \* phase, with "platform_fee" after it
    MaxCompletions  \* bound: how often a delivery may be reported complete

ASSUME CourierPayAssumption ==
    /\ DeliveryFee \in [Orders -> Nat \ {0}]
    /\ \A o \in Orders : DeliveryFee[o] <= OrderTotal[o]
    /\ "courier_net" \in Shares
    /\ MaxCompletions \in Nat

VARIABLES
    pay,        \* payment_allocations of deliveries: order, its payment, share, status
    completing, \* the completion of the order's delivery: place, and payments it read
    completed,  \* completions the delivery has had
    review,     \* a worker's reconciliation: intent, place, and what it has read
    audited     \* intents with a 'delivery_refund_economics_reconciliation_failed'

deliveryVars == <<completing, completed>>
reviewVars   == <<review, audited>>
payVars      == <<pay, deliveryVars, reviewVars>>
payAllVars   == <<allVars, payVars>>

NotCompleting == [at |-> "idle", basis |-> {}]
NoReview == [intent |-> "none", at |-> "idle", full |-> FALSE, left |-> {}]

PayInit ==
    /\ RefundsInit
    /\ pay = {}
    /\ completing = [o \in Orders |-> NotCompleting]
    /\ completed = [o \in Orders |-> 0]
    /\ review = [w \in Workers |-> NoReview]
    /\ audited = {}

-----------------------------------------------------------------------------
(* A payment covers merchandise first and the delivery with the rest: what  *)
(* insertBaseOrderAllocations and the merchant's route write for it.        *)
Beyond(n, base) == IF n > base THEN n - base ELSE 0

PaidUpTo(o, n) == Total([m \in DOMAIN rows[o] |-> rows[o][m].amount], 1..n)

DeliveryPart(o, n) ==
    LET merchandise == OrderTotal[o] - DeliveryFee[o]
    IN  Beyond(PaidUpTo(o, n), merchandise) - Beyond(PaidUpTo(o, n - 1), merchandise)

PayOf(o)  == {x \in pay : x.order = o}
PayFrom(i) == {x \in PayOf(SourceOrder[i]) : rows[x.order][x.row].intent = i}

AlreadyPaid(o) == \E x \in PayOf(o) : x.share = "courier_net" /\ x.status # "reversed"

OrderRefunded(o) == \E i \in Intents : SourceOrder[i] = o /\ Succeeded(i) # {}

End(o) ==
    /\ completing' = [completing EXCEPT ![o] = NotCompleting]
    /\ completed' = [completed EXCEPT ![o] = @ + 1]

(* POST /api/courier/deliveries/:id/complete, in a transaction that holds   *)
(* the delivery.  Its courier was dispatched for a paid order.  A delivery  *)
(* without basis or active policy, pay on record, or a refund that has      *)
(* succeeded ends the allocation.                                          *)
BeginCompletion(o) ==
    /\ completing[o].at = "idle" /\ completed[o] < MaxCompletions
    /\ paid[o] = OrderTotal[o]
    /\ \/ End(o)
       \/ /\ ~AlreadyPaid(o) /\ ~OrderRefunded(o)
          /\ completing' = [completing EXCEPT ![o].at = "unrefunded"]
          /\ UNCHANGED completed
    /\ UNCHANGED <<allVars, pay, reviewVars>>

(* The intent of a payment is 'succeeded'; a mirrored payment's always is.  *)
Evidence(by) == by = "mirror" \/ (by \in Intents /\ intent[by] = "succeeded")

Basis(o) ==
    {n \in DOMAIN rows[o] : DeliveryPart(o, n) > 0 /\ Evidence(rows[o][n].intent)}

(* orderDeliveryPaymentEvidence, and the comparison of what it finds with   *)
(* the fee: a payment without its mirror, or a refunded one, is a HOLD.     *)
ReadEvidence(o) ==
    /\ completing[o].at = "unrefunded"
    /\ IF Total([n \in DOMAIN rows[o] |-> DeliveryPart(o, n)], Basis(o)) = DeliveryFee[o]
       THEN /\ completing' = [completing EXCEPT ![o] = [at |-> "evidenced", basis |-> Basis(o)]]
            /\ UNCHANGED completed
       ELSE End(o)
    /\ UNCHANGED <<allVars, pay, reviewVars>>

Earned(o) ==
    {x \in [order : {o}, row : completing[o].basis, share : Shares, status : {"eligible"}] :
        \A y \in PayOf(o) : y.row = x.row /\ y.share = x.share => y.status = "reversed"}

(* The allocations are inserted, and the transaction commits.               *)
CommitCompletion(o) ==
    /\ completing[o].at = "evidenced"
    /\ pay' = pay \cup Earned(o)
    /\ End(o)
    /\ UNCHANGED <<allVars, reviewVars>>

(* The transaction is rolled back: the courier reports again.               *)
AbortCompletion(o) ==
    /\ completing[o].at # "idle"
    /\ completing' = [completing EXCEPT ![o] = NotCompleting]
    /\ UNCHANGED <<allVars, pay, completed, reviewVars>>

-----------------------------------------------------------------------------
(* reconcileDeliveryRefundEconomics of an intent, in a worker's hands.      *)

Reviewing(w, i) == review' = [review EXCEPT ![w] = [NoReview EXCEPT !.intent = i, !.at = "due"]]
Reviewed(w) == review' = [review EXCEPT ![w] = NoReview]

(* The refund's execution closes the intent and goes on to its shares.      *)
CloseAndReview(w) ==
    /\ CloseRefund(w)
    /\ Reviewing(w, RefundOf[work[w].refund])
    /\ UNCHANGED <<pay, deliveryVars, audited>>

(* A succeeded refund that is executed again is only reconciled again.      *)
ReviewAgain(w, r) ==
    /\ work[w] = Idle /\ review[w] = NoReview
    /\ refund[r] = "succeeded"
    /\ Reviewing(w, RefundOf[r])
    /\ UNCHANGED <<allVars, pay, deliveryVars, audited>>

DeliveryPaidBy(i) ==
    \E n \in RowsOf(i) : DeliveryPart(SourceOrder[i], n) > 0

(* The first statement: how much of the intent was refunded by now.         *)
ReadPosition(w) ==
    LET i == review[w].intent
    IN  /\ review[w].at = "due"
        /\ IF DeliveryPaidBy(i)
           THEN review' = [review EXCEPT ![w].at = "position", ![w].full = FullyRefunded(i)]
           ELSE Reviewed(w)
        /\ UNCHANGED <<allVars, pay, deliveryVars, audited>>

Unreversed(i) == {x \in PayFrom(i) : x.status # "reversed"}

(* The second: its shares that are not reversed (FOR UPDATE, but no         *)
(* transaction keeps the locks).                                           *)
ReadShares(w) ==
    LET shares == Unreversed(review[w].intent)
    IN  /\ review[w].at = "position"
        /\ IF shares = {} THEN Reviewed(w)
           ELSE review' = [review EXCEPT ![w].at = "shares", ![w].left = shares]
        /\ UNCHANGED <<allVars, pay, deliveryVars, audited>>

(* No settlement is ever written, so no share's cash may have moved.        *)
(* Mutant: a partial refund leaves the shares alone. *)
FullOnly(x, full) == IF full THEN "reversed" ELSE x.status
Target(x, full) == IF full THEN "reversed" ELSE "manual_review"

(* One UPDATE per share, on condition that its status is still the one read.*)
SettleShare(w) ==
    /\ review[w].at = "shares"
    /\ \E x \in review[w].left :
         /\ pay' = IF x \in pay
                   THEN (pay \ {x}) \cup {[x EXCEPT !.status = Target(x, review[w].full)]}
                   ELSE pay
         /\ IF review[w].left = {x} THEN Reviewed(w)
            ELSE review' = [review EXCEPT ![w].left = @ \ {x}]
    /\ UNCHANGED <<allVars, deliveryVars, audited>>

(* A statement fails: the execution goes on, with an audit event.  The      *)
(* repeated reconciliation has no audit and answers with the error.         *)
ReviewFails(w) ==
    /\ review[w] # NoReview
    /\ audited' = IF work[w] = Idle THEN audited ELSE audited \cup {review[w].intent}
    /\ Reviewed(w)
    /\ UNCHANGED <<allVars, pay, deliveryVars>>

-----------------------------------------------------------------------------
(* The process stops: open completions roll back, reconciliations are gone. *)
RestartEverything ==
    /\ RestartAll
    /\ completing' = [o \in Orders |-> NotCompleting]
    /\ review' = [w \in Workers |-> NoReview]
    /\ UNCHANGED <<pay, completed, audited>>

DeliveryStep(o) ==
    \/ BeginCompletion(o)
    \/ ReadEvidence(o)
    \/ CommitCompletion(o)
    \/ AbortCompletion(o)

ReviewStep(w) ==
    \/ CloseAndReview(w)
    \/ \E r \in RefundIds : ReviewAgain(w, r)
    \/ ReadPosition(w)
    \/ ReadShares(w)
    \/ SettleShare(w)
    \/ ReviewFails(w)

(* What remains of an execution waits for its reconciliation.               *)
Execution(w) ==
    /\ review[w] = NoReview
    /\ \/ \E r \in RefundIds : StartRefund(w, r)
       \/ MarkProcessing(w)
       \/ ProviderTakes(w)
       \/ TakeAnswer(w)
       \/ ExecutionFails(w)
       \/ BookRefund(w)
       \/ TotalRefunds(w)
       \/ EndExecution(w)
    /\ UNCHANGED payVars

PayNext ==
    \/ PaymentStep /\ UNCHANGED payVars
    \/ (\E r \in RefundIds : RefundStep(r)) /\ UNCHANGED payVars
    \/ \E w \in Workers : Execution(w) \/ ReviewStep(w)
    \/ \E o \in Orders : DeliveryStep(o)
    \/ RestartEverything

PaySpec == PayInit /\ [][PayNext]_payAllVars

-----------------------------------------------------------------------------
PayRow == [order : Orders, row : Nat \ {0}, share : Shares,
           status : {"eligible", "manual_review", "reversed"}]

(* Types of the allocations of deliveries and of what is under way for      *)
(* them, on top of those of Refunds.                                       *)
PayTypeOK ==
    /\ RefundsTypeOK
    /\ pay \subseteq PayRow
    /\ completing \in [Orders -> [at : {"idle", "unrefunded", "evidenced"},
                                  basis : SUBSET (Nat \ {0})]]
    /\ completed \in [Orders -> Nat]
    /\ review \in [Workers -> [intent : Intents \cup {"none"},
                               at : {"idle", "due", "position", "shares"},
                               full : BOOLEAN, left : SUBSET PayRow]]
    /\ audited \subseteq Intents

AtWorkOn(w, i) ==
    \/ work[w] # Idle /\ RefundOf[work[w].refund] = i
    \/ review[w].intent = i

Settled(i) ==
    /\ \A w \in Workers : ~AtWorkOn(w, i)
    /\ completing[SourceOrder[i]].at = "idle"
    /\ i \notin audited

(* "succeeded refund holds new Courier compensation for allocation review", *)
(* "full intent refund reverses only unsettled Delivery-derived economics": *)
(* when nothing is under way and no failure is on record, no share of a     *)
(* payment with a succeeded refund is eligible for payout, whether the      *)
(* delivery was completed before the refund or after it.                    *)
RefundedPayHeld ==
    \A i \in Intents :
        Settled(i) /\ Succeeded(i) # {} =>
            \A x \in PayFrom(i) : x.status # "eligible"

(* A reversed share is final: no later reconciliation, by whatever position *)
(* it has read, and no later completion takes it up again.                 *)
ReversalStands == [][\A x \in pay : x.status = "reversed" => x \in pay']_payAllVars
=============================================================================
