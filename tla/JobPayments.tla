---------------------------- MODULE JobPayments -----------------------------
(***************************************************************************)
(* The customer of a completed service job pays for it: intents of          *)
(* payment-core.js, checkout sessions and webhooks of paymongo-adapter.js.  *)
(*                                                                         *)
(* Creating an intent locks the job and then the intents that are over; a   *)
(* webhook locks its intent and then the job.  The two locks are state      *)
(* here: creating[j] holds the lock of job j, and held[i] that of intent i. *)
(* When each waits for the other, the database aborts one of them.         *)
(*                                                                         *)
(* A refund, which Refunds has step by step, is one action here.           *)
(***************************************************************************)
EXTENDS ServiceJobs, Sums

CONSTANTS
    Intents,       \* payment_intents rows customers may open
    JobOf,         \* JobOf[i]: source_id of the intent
    MaxDeliveries, \* bound: webhook deliveries of an intent's event under way
    MaxCalls,      \* bound: checkout calls of an intent under way
    MaxRestarts    \* bound: how often the process stops and starts again

ASSUME JobPaymentsAssumption ==
    /\ JobOf \in [Intents -> Jobs] /\ Null \notin Intents /\ IsFiniteSet(Intents)
    /\ MaxDeliveries \in Nat /\ MaxCalls \in Nat /\ MaxRestarts \in Nat

VARIABLES
    creating, \* the intent whose creation holds the lock of the job
    intent,   \* payment_intents.status; "open" is requires_provider or _action
    amount,   \* payment_intents.amount
    lapsed,   \* expires_at is over
    refunded, \* sum of the succeeded refunds of the intent
    openAttempt, \* a payment_attempts row of the intent is 'requires_action'
    calls,    \* checkout calls that have the provider's session, not recorded
    session,  \* the provider's checkout session
    event,    \* provider_events.processing_status of its paid event
    waiting,  \* deliveries that registered the event and have no lock yet
    held,     \* a delivery holds the lock of the intent
    failing,  \* deliveries rolled back that have not marked the event yet
    restarts,
    forgotten \* history, for Bargain: intents a checkout's late write took out
              \* of the books after a refund

intentVars  == <<intent, amount, lapsed, refunded, openAttempt, forgotten>>
webhookVars == <<event, waiting, held, failing>>
payVars     == <<creating, intentVars, calls, session, webhookVars, restarts>>
vars        == <<jobVars, payVars>>

Confirmed == {"succeeded", "partially_refunded", "refunded"}

Init ==
    /\ InitJobs
    /\ creating = [j \in Jobs |-> Null]
    /\ intent = [i \in Intents |-> "none"]
    /\ amount = [i \in Intents |-> 0]
    /\ lapsed = [i \in Intents |-> FALSE]
    /\ refunded = [i \in Intents |-> 0]
    /\ openAttempt = [i \in Intents |-> FALSE]
    /\ calls = [i \in Intents |-> 0]
    /\ session = [i \in Intents |-> "none"]
    /\ event = [i \in Intents |-> "none"]
    /\ waiting = [i \in Intents |-> 0]
    /\ held = [i \in Intents |-> FALSE]
    /\ failing = [i \in Intents |-> 0]
    /\ restarts = 0
    /\ forgotten = {}

-----------------------------------------------------------------------------
(* serviceJobPaymentSummary                                                *)
IntentsOf(j) == {i \in Intents : JobOf[i] = j}

Payable(j) ==
    IF finalPrice[j] # Null THEN finalPrice[j]
    ELSE IF quoteAmount[j] # Null THEN quoteAmount[j] ELSE 0

Credited(j) == {i \in IntentsOf(j) : intent[i] \in Confirmed}

NetPaid(j) == Total(amount, Credited(j)) - Total(refunded, IntentsOf(j))

PaidFor(j) == IF NetPaid(j) > 0 THEN NetPaid(j) ELSE 0

Outstanding(j) == Payable(j) - PaidFor(j)

PayableNow(j) == status[j] = "completed" /\ confirmedDone[j]

Over(i)    == intent[i] = "open" /\ lapsed[i]
Pending(j) == \E i \in IntentsOf(j) : intent[i] = "open" /\ ~lapsed[i]

JobFree(j) == creating[j] = Null

-----------------------------------------------------------------------------
(* createServiceJobPaymentIntent, up to the lock of the job                *)
BeginIntent(i) ==
    LET j == JobOf[i]
    IN  /\ intent[i] = "none" /\ PayableNow(j) /\ Payable(j) > 0
        /\ JobFree(j)
        /\ creating' = [creating EXCEPT ![j] = i]
        /\ UNCHANGED <<jobVars, intentVars, calls, session, webhookVars, restarts>>

Blocked(j) == \E i \in IntentsOf(j) : Over(i) /\ held[i]

MayOpen(j) == Outstanding(j) > 0 /\ ~Pending(j)

(* ... and from there: intents that are over are cancelled, which takes     *)
(* their locks, and the balance is charged.  A refusal rolls back.         *)
EndIntent(j) ==
    LET i == creating[j]
    IN  /\ ~JobFree(j) /\ ~Blocked(j)
        /\ creating' = [creating EXCEPT ![j] = Null]
        /\ IF MayOpen(j)
           THEN /\ intent' = [k \in Intents |->
                     IF k = i THEN "open"
                     ELSE IF JobOf[k] = j /\ Over(k) THEN "cancelled" ELSE intent[k]]
                /\ amount' = [amount EXCEPT ![i] = Outstanding(j)]
           ELSE UNCHANGED <<intent, amount>>
        /\ UNCHANGED <<jobVars, lapsed, refunded, openAttempt, forgotten, calls, session,
                       webhookVars, restarts>>

IntentLapses(i) ==
    /\ intent[i] = "open" /\ ~lapsed[i]
    /\ lapsed' = [lapsed EXCEPT ![i] = TRUE]
    /\ UNCHANGED <<jobVars, creating, intent, amount, refunded, openAttempt, forgotten, calls,
                   session, webhookVars, restarts>>

(* createPayMongoCheckout up to the provider's answer.  Its reads are not   *)
(* locked; whether the intent is over is not looked at.  One key and so one *)
(* session per intent; with an open attempt on file its URL is reused.     *)
BeginCheckout(i) ==
    LET j == JobOf[i]
    IN  /\ intent[i] = "open" /\ amount[i] <= Outstanding(j) /\ ~openAttempt[i]
        /\ calls[i] < MaxCalls
        /\ calls' = [calls EXCEPT ![i] = @ + 1]
        /\ session' = [session EXCEPT ![i] = IF @ = "none" THEN "open" ELSE @]
        /\ UNCHANGED <<jobVars, creating, intentVars, webhookVars, restarts>>

(* ... and its write, which leaves only a succeeded intent alone: one that  *)
(* was cancelled or refunded meanwhile is open again.                      *)
RecordCheckout(i) ==
    /\ calls[i] > 0 /\ ~held[i]
    /\ calls' = [calls EXCEPT ![i] = @ - 1]
    /\ openAttempt' = [openAttempt EXCEPT ![i] = TRUE]
    /\ intent' = [intent EXCEPT ![i] = IF @ = "succeeded" THEN @ ELSE "open"]
    /\ forgotten' = IF intent[i] \in {"partially_refunded", "refunded"}
                    THEN forgotten \cup {i} ELSE forgotten
    /\ UNCHANGED <<jobVars, creating, amount, lapsed, refunded, session, webhookVars, restarts>>

(* The customer pays with the URL of a recorded attempt; the provider's     *)
(* session does not lapse with the intent.  "unclear": other than one       *)
(* payment of this amount.                                                 *)
CustomerPays(i, how) ==
    /\ session[i] = "open" /\ openAttempt[i]
    /\ session' = [session EXCEPT ![i] = how]
    /\ UNCHANGED <<jobVars, creating, intentVars, calls, webhookVars, restarts>>

-----------------------------------------------------------------------------
(* Mutant: a delivery whose event is already on file is a duplicate. *)
IsNewDelivery(i) == event[i] = "none"

NeedsWork(i) == event[i] # "processed"

(* processPayMongoWebhook registers the event.                             *)
Deliver(i) ==
    /\ session[i] \in {"paid", "unclear"}
    /\ NeedsWork(i)
    /\ waiting[i] + failing[i] + (IF held[i] THEN 1 ELSE 0) < MaxDeliveries
    /\ waiting' = [waiting EXCEPT ![i] = @ + 1]
    /\ event' = [event EXCEPT ![i] = IF @ = "none" THEN "received" ELSE @]
    /\ UNCHANGED <<jobVars, creating, intentVars, calls, session, held, failing, restarts>>

HoldUnclear(i) ==
    /\ waiting[i] > 0 /\ session[i] = "unclear"
    /\ waiting' = [waiting EXCEPT ![i] = @ - 1]
    /\ event' = [event EXCEPT ![i] = "manual_review"]
    /\ UNCHANGED <<jobVars, creating, intentVars, calls, session, held, failing, restarts>>

(* Its transaction locks the intent,                                       *)
LockIntent(i) ==
    /\ waiting[i] > 0 /\ session[i] = "paid" /\ ~held[i]
    /\ waiting' = [waiting EXCEPT ![i] = @ - 1]
    /\ held' = [held EXCEPT ![i] = TRUE]
    /\ UNCHANGED <<jobVars, creating, intentVars, calls, session, event, failing, restarts>>

Commit(i, outcome) ==
    /\ held[i]
    /\ held' = [held EXCEPT ![i] = FALSE]
    /\ event' = [event EXCEPT ![i] = outcome]
    /\ UNCHANGED <<jobVars, creating, amount, lapsed, refunded, forgotten, calls, session,
                   waiting, failing, restarts>>

(* finds it credited,                                                      *)
FindDuplicate(i) ==
    /\ intent[i] = "succeeded"
    /\ Commit(i, "processed")
    /\ UNCHANGED <<intent, openAttempt>>

(* Mutant: the balance is not compared again. *)
AnyAmountFits(i) == TRUE

FitsBalance(i) == amount[i] <= Outstanding(JobOf[i])

NeedsJob(i) == held[i] /\ intent[i] # "succeeded"

(* or locks the job and compares the balance: the status of the intent, be  *)
(* it cancelled or refunded, is not looked at again.                       *)
Credit(i) ==
    /\ NeedsJob(i) /\ JobFree(JobOf[i])
    /\ PayableNow(JobOf[i]) /\ FitsBalance(i)
    /\ Commit(i, "processed")
    /\ intent' = [intent EXCEPT ![i] = "succeeded"]
    /\ openAttempt' = [openAttempt EXCEPT ![i] = FALSE]

HoldForReview(i) ==
    /\ NeedsJob(i) /\ JobFree(JobOf[i])
    /\ ~PayableNow(JobOf[i]) \/ ~FitsBalance(i)
    /\ Commit(i, "manual_review")
    /\ UNCHANGED <<intent, openAttempt>>

(* Each has what the other waits for: the database aborts one.             *)
Deadlocked(i) == NeedsJob(i) /\ Over(i) /\ ~JobFree(JobOf[i])

AbortWebhook(i) ==
    /\ Deadlocked(i)
    /\ held' = [held EXCEPT ![i] = FALSE]
    /\ failing' = [failing EXCEPT ![i] = @ + 1]
    /\ UNCHANGED <<jobVars, creating, intentVars, calls, session, event, waiting, restarts>>

AbortIntent(i) ==
    /\ Deadlocked(i)
    /\ creating' = [creating EXCEPT ![JobOf[i]] = Null]
    /\ UNCHANGED <<jobVars, intentVars, calls, session, webhookVars, restarts>>

(* markProviderEvent(..., 'failed'), in a statement of its own.             *)
MarkFailed(i) ==
    /\ failing[i] > 0
    /\ failing' = [failing EXCEPT ![i] = @ - 1]
    /\ event' = [event EXCEPT ![i] = "failed"]
    /\ UNCHANGED <<jobVars, creating, intentVars, calls, session, waiting, held, restarts>>

-----------------------------------------------------------------------------
(* A refund of the intent succeeds.  It was asked for while the intent was  *)
(* confirmed, and its execution does not look at the status again.         *)
Refund(i, n) ==
    /\ intent[i] = "succeeded" \/ refunded[i] > 0
    /\ ~held[i]
    /\ n <= amount[i] - refunded[i]
    /\ refunded' = [refunded EXCEPT ![i] = @ + n]
    /\ intent' = [intent EXCEPT ![i] =
         IF refunded[i] + n = amount[i] THEN "refunded" ELSE "partially_refunded"]
    /\ UNCHANGED <<jobVars, creating, amount, lapsed, openAttempt, forgotten, calls, session,
                   webhookVars, restarts>>

(* The process stops: what was under way is gone, and its locks with it.   *)
Restart ==
    /\ restarts < MaxRestarts
    /\ restarts' = restarts + 1
    /\ creating' = [j \in Jobs |-> Null]
    /\ calls' = [i \in Intents |-> 0]
    /\ waiting' = [i \in Intents |-> 0]
    /\ held' = [i \in Intents |-> FALSE]
    /\ failing' = [i \in Intents |-> 0]
    /\ UNCHANGED <<jobVars, intentVars, session, event>>

CustomerStep(i) ==
    \/ BeginIntent(i)
    \/ IntentLapses(i)
    \/ BeginCheckout(i)
    \/ RecordCheckout(i)
    \/ \E how \in {"paid", "unclear"} : CustomerPays(i, how)
    \/ \E n \in 1..amount[i] : Refund(i, n)

WebhookStep(i) ==
    \/ Deliver(i)
    \/ HoldUnclear(i)
    \/ LockIntent(i)
    \/ FindDuplicate(i)
    \/ Credit(i)
    \/ HoldForReview(i)
    \/ AbortWebhook(i)
    \/ AbortIntent(i)
    \/ MarkFailed(i)

Next ==
    \/ \E j \in Jobs : JobStep(j) /\ UNCHANGED payVars
    \/ \E j \in Jobs : EndIntent(j)
    \/ \E i \in Intents : CustomerStep(i) \/ WebhookStep(i)
    \/ Restart

Spec == Init /\ [][Next]_vars

(* A transaction that is not blocked goes on and a deadlock is broken; who  *)
(* waits for a row lock is queued and gets it when it is released (SF); the *)
(* provider repeats a delivery that was not answered 2xx.                  *)
Fairness ==
    /\ \A j \in Jobs : SF_vars(EndIntent(j))
    /\ \A i \in Intents :
         /\ WF_vars(Deliver(i) /\ event[i] # "manual_review")
         /\ WF_vars(HoldUnclear(i) \/ LockIntent(i))
         /\ WF_vars(FindDuplicate(i) \/ AbortWebhook(i) \/ AbortIntent(i))
         /\ SF_vars(Credit(i) \/ HoldForReview(i))
         /\ WF_vars(MarkFailed(i))

-----------------------------------------------------------------------------
Unbooked(j) == \E i \in IntentsOf(j) : i \in forgotten

TheBargain == INSTANCE Bargain WITH
    Prices <- Totals,
    price  <- [j \in Jobs |-> IF finalPrice[j] # Null THEN finalPrice[j] ELSE agreedTotal[j]],
    done   <- [j \in Jobs |-> status[j] = "completed"],
    paid   <- [j \in Jobs |-> IF Unbooked(j) THEN 0 ELSE PaidFor(j)],
    paidBack <- [j \in Jobs |-> \E i \in IntentsOf(j) : refunded[i] > 0],
    unbooked <- [j \in Jobs |-> Unbooked(j)]

(* Quotes, change orders, intents that lapse and are paid all the same,     *)
(* overlapping webhooks, checkout calls and refunds keep the bargain: a     *)
(* price moves only before the work is done, and no more than it is ever   *)
(* taken for a job.  The second ends for a job of which a payment was paid *)
(* back and a checkout call then writes late: recordCheckout takes that    *)
(* payment out of the books, and what was paid can be charged again.       *)
KeepsBargain == TheBargain!Spec

(* Money the provider has captured for a job is credited or left to a       *)
(* person: the deadlock of creation and webhook, which may abort the        *)
(* webhook, does not go on for ever, and no restart loses the payment.     *)
(* (What was credited and refunded may be out of the books again.)         *)
CapturedJobMoneySurfaces ==
    \A i \in Intents :
        session[i] \in {"paid", "unclear"} ~>
            intent[i] \in Confirmed \/ event[i] = "manual_review" \/ i \in forgotten
=============================================================================
