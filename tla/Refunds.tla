------------------------------ MODULE Refunds -------------------------------
(***************************************************************************)
(* Refunds of confirmed payments: createRefundRequest of payment-core.js    *)
(* and executePayMongoRefund of paymongo-adapter.js, together with all that *)
(* Payments does to the same intents.                                      *)
(*                                                                         *)
(* Neither handler opens a transaction: every statement commits by itself   *)
(* and what was read before is not locked.  So a request is a check and an  *)
(* insert, and an execution is a sequence of steps that other executions,   *)
(* a stop of the process or a lost answer may come between.                *)
(***************************************************************************)
EXTENDS Payments

CONSTANTS
    RefundIds,  \* refunds rows that may be asked for
    RefundOf,   \* RefundOf[r]: payment_intent_id of the refund
    Workers,    \* executions of refunds that may be under way at once
    MaxBooked   \* bound: a refund booked this often is not executed again

ASSUME RefundsAssumption ==
    /\ RefundOf \in [RefundIds -> Intents] /\ "none" \notin RefundIds
    /\ IsFiniteSet(RefundIds)
    /\ MaxBooked \in Nat

VARIABLES
    refund,       \* refunds.status; "checked": balance read, row not inserted
    refundAmount, \* refunds.amount
    booked,       \* payment_allocations rows 'refund' written for it
    provider,     \* what the provider has made of its idempotency key
    work          \* an execution: its refund and the statement it has reached

refundVars == <<refund, refundAmount, booked, provider, work>>
allVars == <<vars, refundVars>>

Idle == [refund |-> "none", at |-> "idle"]

RefundsInit ==
    /\ Init
    /\ refund = [r \in RefundIds |-> "none"]
    /\ refundAmount = [r \in RefundIds |-> 0]
    /\ booked = [r \in RefundIds |-> 0]
    /\ provider = [r \in RefundIds |-> "none"]
    /\ work = [w \in Workers |-> Idle]

RefundsFor(i) == {r \in RefundIds : RefundOf[r] = i}

-----------------------------------------------------------------------------
(* createRefundRequest: the refunds that count against the balance.         *)
Counted(i) == {r \in RefundsFor(i) : refund[r] \in {"requested", "processing", "succeeded"}}

CheckRefund(r, n) ==
    LET i == RefundOf[r]
    IN  /\ refund[r] = "none"
        /\ intent[i] \in {"succeeded", "partially_refunded"}
        /\ n <= amount[i] - Total(refundAmount, Counted(i))
        /\ refund' = [refund EXCEPT ![r] = "checked"]
        /\ refundAmount' = [refundAmount EXCEPT ![r] = n]
        /\ UNCHANGED <<vars, booked, provider, work>>

InsertRefund(r) ==
    /\ refund[r] = "checked"
    /\ refund' = [refund EXCEPT ![r] = "requested"]
    /\ UNCHANGED <<vars, refundAmount, booked, provider, work>>

-----------------------------------------------------------------------------
Reach(w, place) == work' = [work EXCEPT ![w].at = place]
Leave(w) == work' = [work EXCEPT ![w] = Idle]

(* executePayMongoRefund reads the refund: one that is processing or has    *)
(* succeeded is refused (a succeeded one only reconciles delivery shares).  *)
StartRefund(w, r) ==
    /\ work[w] = Idle
    /\ refund[r] \in {"requested", "failed"}
    /\ booked[r] < MaxBooked
    /\ work' = [work EXCEPT ![w] = [refund |-> r, at |-> "read"]]
    /\ UNCHANGED <<vars, refund, refundAmount, booked, provider>>

MarkProcessing(w) ==
    LET r == work[w].refund
    IN  /\ work[w].at = "read"
        /\ refund' = [refund EXCEPT ![r] = "processing"]
        /\ Reach(w, "asking")
        /\ UNCHANGED <<vars, refundAmount, booked, provider>>

Moving == {"pending", "processing"}
PaidBack(i) == {r \in RefundsFor(i) : provider[r] \in {"succeeded"} \cup Moving}

(* POST /v1/refunds.  The key is the refund's: asked again, the provider    *)
(* does not refund again.  It declines what exceeds the payment.           *)
ProviderTakes(w) ==
    LET r == work[w].refund
        i == RefundOf[r]
    IN  /\ work[w].at = "asking"
        /\ IF provider[r] = "none"
           THEN /\ refundAmount[r] <= amount[i] - Total(refundAmount, PaidBack(i))
                /\ \E s \in Moving \cup {"succeeded", "failed"} :
                     provider' = [provider EXCEPT ![r] = s]
           ELSE UNCHANGED provider
        /\ Reach(w, "answered")
        /\ UNCHANGED <<vars, refund, refundAmount, booked>>

(* A refund under way at the provider ends there; no event reports it.      *)
ProviderEnds(r, s) ==
    /\ provider[r] \in Moving
    /\ provider' = [provider EXCEPT ![r] = s]
    /\ UNCHANGED <<vars, refund, refundAmount, booked, work>>

(* Mutant: whatever the provider accepted has succeeded. *)
MappedOptimistically(answer) == IF answer = "failed" THEN "failed" ELSE "succeeded"

(* Mutant: the table accepts 'pending'. *)
MappedVerbatim(answer) == answer

(* 'pending' passes the code's list and fails the table's CHECK; the catch  *)
(* then records 'failed'.                                                  *)
Mapped(answer) == IF answer = "pending" THEN "failed" ELSE answer

TakeAnswer(w) ==
    LET r == work[w].refund
        status == Mapped(provider[r])
    IN  /\ work[w].at = "answered"
        /\ refund' = [refund EXCEPT ![r] = status]
        /\ IF provider[r] = "pending" THEN Leave(w)
           ELSE Reach(w, IF status = "succeeded" THEN "booking" ELSE "closing")
        /\ UNCHANGED <<vars, refundAmount, booked, provider>>

(* The catch: the request times out, is declined, its answer is lost, or a  *)
(* statement after it fails.  Whatever was reached, 'failed' is written.    *)
ExecutionFails(w) ==
    /\ work[w].at \in {"asking", "answered", "booking", "totalling", "full", "partial",
                       "closing"}
    /\ refund' = [refund EXCEPT ![work[w].refund] = "failed"]
    /\ Leave(w)
    /\ UNCHANGED <<vars, refundAmount, booked, provider>>

BookRefund(w) ==
    LET r == work[w].refund
    IN  /\ work[w].at = "booking"
        /\ booked' = [booked EXCEPT ![r] = @ + 1]
        /\ Reach(w, "totalling")
        /\ UNCHANGED <<vars, refund, refundAmount, provider>>

Succeeded(i) == {r \in RefundsFor(i) : refund[r] = "succeeded"}

(* Mutant: the refunds counted are those asked for. *)
CoveredByRequests(i) == Total(refundAmount, Counted(i)) >= amount[i]
FullyRefunded(i) == Total(refundAmount, Succeeded(i)) >= amount[i]

TotalRefunds(w) ==
    /\ work[w].at = "totalling"
    /\ Reach(w, IF FullyRefunded(RefundOf[work[w].refund]) THEN "full" ELSE "partial")
    /\ UNCHANGED <<vars, refund, refundAmount, booked, provider>>

CloseRefund(w) ==
    LET i == RefundOf[work[w].refund]
    IN  /\ work[w].at \in {"full", "partial"}
        /\ intent' = [intent EXCEPT ![i] =
             IF work[w].at = "full" THEN "refunded" ELSE "partially_refunded"]
        /\ Reach(w, "closing")
        /\ UNCHANGED <<orderVars, amount, openAttempt, calls, session, webhookVars,
                       restarts, refund, refundAmount, booked, provider>>

(* The audit event is written and the execution answers.                    *)
EndExecution(w) ==
    /\ work[w].at = "closing"
    /\ Leave(w)
    /\ UNCHANGED <<vars, refund, refundAmount, booked, provider>>

(* The process stops: requests checked and executions under way are gone.   *)
RestartAll ==
    /\ Restart
    /\ refund' = [r \in RefundIds |-> IF refund[r] = "checked" THEN "none" ELSE refund[r]]
    /\ work' = [w \in Workers |-> Idle]
    /\ UNCHANGED <<refundAmount, booked, provider>>

-----------------------------------------------------------------------------
RefundStep(r) ==
    \/ \E n \in 1..amount[RefundOf[r]] : CheckRefund(r, n)
    \/ InsertRefund(r)
    \/ \E s \in {"succeeded", "failed"} : ProviderEnds(r, s)

WorkerStep(w) ==
    \/ \E r \in RefundIds : StartRefund(w, r)
    \/ MarkProcessing(w)
    \/ ProviderTakes(w)
    \/ TakeAnswer(w)
    \/ ExecutionFails(w)
    \/ BookRefund(w)
    \/ TotalRefunds(w)
    \/ CloseRefund(w)
    \/ EndExecution(w)

PaymentStep ==
    /\ \/ \E o \in Orders : OrderStep(o)
       \/ \E i \in Intents : IntentStep(i)
    /\ UNCHANGED refundVars

RefundsNext ==
    \/ PaymentStep
    \/ \E r \in RefundIds : RefundStep(r)
    \/ \E w \in Workers : WorkerStep(w)
    \/ RestartAll

RefundsSpec == RefundsInit /\ [][RefundsNext]_allVars

-----------------------------------------------------------------------------
(* Types of the refund rows (their statuses are the table's CHECK) and of   *)
(* the executions under way, on top of those of Payments.                  *)
RefundsTypeOK ==
    /\ TypeOK
    /\ refund \in [RefundIds -> {"none", "checked", "requested", "processing",
                                 "succeeded", "failed"}]
    /\ refundAmount \in [RefundIds -> Nat]
    /\ booked \in [RefundIds -> Nat]
    /\ provider \in [RefundIds -> {"none", "succeeded", "failed"} \cup Moving]
    /\ work \in [Workers -> [refund : RefundIds \cup {"none"},
                             at : {"idle", "read", "asking", "answered", "booking",
                                   "totalling", "full", "partial", "closing"}]]

(* The platform records no refund the provider has not made: not as a       *)
(* succeeded refund, not as a refund allocation, however executions,        *)
(* retries and lost answers interleave.                                    *)
RefundsAreReal ==
    \A r \in RefundIds :
        refund[r] = "succeeded" \/ booked[r] > 0 => provider[r] = "succeeded"

(* An intent is marked refunded only when the provider has paid back all of *)
(* it.                                                                     *)
RefundedIsRepaid ==
    \A i \in Intents :
        intent[i] = "refunded" =>
            Total(refundAmount, {r \in RefundsFor(i) : provider[r] = "succeeded"}) >= amount[i]

(* "Refund amount exceeds refundable balance": the refunds of an intent     *)
(* that count against its balance never exceed it.                         *)
RefundsWithinPayment ==
    \A i \in Intents : Total(refundAmount, Counted(i)) <= amount[i]
=============================================================================
