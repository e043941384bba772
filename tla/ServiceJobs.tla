---------------------------- MODULE ServiceJobs -----------------------------
(***************************************************************************)
(* Jobs of Local Services (server-services.js): a customer asks a provider  *)
(* for work, they agree on a quote, change orders may replace it while the  *)
(* work goes on, and the provider completes the job at the agreed total.    *)
(*                                                                         *)
(* Quotes, answers and status calls lock the job's row, so each is one      *)
(* action.  What the time does to a quote's validity is noticed when it is  *)
(* answered and not before.                                                *)
(***************************************************************************)
EXTENDS Integers, FiniteSets

CONSTANTS
    Jobs,
    Totals,    \* the totals a quote may have
    Null,      \* SQL's NULL
    MaxQuotes  \* bound: quote versions of one job

ASSUME ServiceJobsAssumption ==
    /\ Totals \subseteq Nat /\ Null \notin Nat
    /\ MaxQuotes \in Nat

Versions == 1..MaxQuotes

VARIABLES
    status,        \* service_jobs.status; "none" before the job is asked for
    confirmedDone, \* customer_confirmed_at is set
    quote,         \* service_job_quotes by version_no
    accepted,      \* accepted_quote_id, as a version
    agreedTotal,   \* agreed_total
    quoteAmount,   \* quote_amount
    finalPrice     \* final_price

priceVars == <<accepted, agreedTotal, quoteAmount, finalPrice>>
jobVars   == <<status, confirmedDone, quote, priceVars>>

Phases == {"initial", "change_order"}

NoQuote == [status |-> "none"]

InitJobs ==
    /\ status = [j \in Jobs |-> "none"]
    /\ confirmedDone = [j \in Jobs |-> FALSE]
    /\ quote = [j \in Jobs |-> [k \in Versions |-> NoQuote]]
    /\ accepted = [j \in Jobs |-> Null]
    /\ agreedTotal = [j \in Jobs |-> Null]
    /\ quoteAmount = [j \in Jobs |-> Null]
    /\ finalPrice = [j \in Jobs |-> Null]

-----------------------------------------------------------------------------
Is(q, state) == q.status = state

Sent(j, k, phase) == Is(quote[j][k], "sent") /\ quote[j][k].phase = phase

NextVersion(j, k) ==
    /\ Is(quote[j][k], "none")
    /\ \A n \in Versions : n < k => ~Is(quote[j][n], "none")

(* POST /api/services/jobs                                                 *)
AskForJob(j) ==
    /\ status[j] = "none"
    /\ status' = [status EXCEPT ![j] = "requested"]
    /\ UNCHANGED <<confirmedDone, quote, priceVars>>

Unpriced == {"requested", "provider_reviewing", "quoted"}
Underway == {"accepted", "scheduled", "in_progress"}

(* createServiceQuote: supersedes the sent quote of the same phase.        *)
SendQuote(j, k, phase, total) ==
    /\ IF phase = "initial" THEN status[j] \in Unpriced
       ELSE status[j] \in Underway /\ accepted[j] # Null
    /\ NextVersion(j, k)
    /\ quote' = [quote EXCEPT ![j] = [n \in Versions |->
         IF n = k THEN [status |-> "sent", phase |-> phase, total |-> total, valid |-> TRUE]
         ELSE IF Sent(j, n, phase) THEN [@[n] EXCEPT !.status = "superseded"]
         ELSE @[n]]]
    /\ IF phase = "initial"
       THEN /\ status' = [status EXCEPT ![j] = "quoted"]
            /\ quoteAmount' = [quoteAmount EXCEPT ![j] = total]
       ELSE UNCHANGED <<status, quoteAmount>>
    /\ UNCHANGED <<confirmedDone, accepted, agreedTotal, finalPrice>>

(* valid_until passes.                                                     *)
QuoteLapses(j, k) ==
    /\ ~Is(quote[j][k], "none")
    /\ quote[j][k].valid
    /\ quote' = [quote EXCEPT ![j][k].valid = FALSE]
    /\ UNCHANGED <<status, confirmedDone, priceVars>>

Withdraw(j) ==
    /\ status' = [status EXCEPT ![j] = "provider_reviewing"]
    /\ quoteAmount' = [quoteAmount EXCEPT ![j] = Null]

(* respondToServiceQuote finds the quote expired, whatever the answer: the  *)
(* row is marked, and a job that still waits on it goes back.              *)
FindExpired(j, k) ==
    /\ Is(quote[j][k], "sent") /\ ~quote[j][k].valid
    /\ quote' = [quote EXCEPT ![j][k].status = "expired"]
    /\ IF quote[j][k].phase = "initial" /\ status[j] = "quoted" THEN Withdraw(j)
       ELSE UNCHANGED <<status, quoteAmount>>
    /\ UNCHANGED <<confirmedDone, accepted, agreedTotal, finalPrice>>

Answerable(j, k) ==
    /\ Is(quote[j][k], "sent") /\ quote[j][k].valid
    /\ IF quote[j][k].phase = "initial" THEN status[j] = "quoted" ELSE status[j] \in Underway

(* Mutant: the quote accepted before stays accepted. *)
StaysAccepted(q) == q

Replaced(q) == IF Is(q, "accepted") THEN [q EXCEPT !.status = "superseded"] ELSE q

AcceptQuote(j, k) ==
    LET total == quote[j][k].total
    IN  /\ Answerable(j, k)
        /\ quote' = [quote EXCEPT ![j] = [n \in Versions |->
             IF n = k THEN [@[n] EXCEPT !.status = "accepted"] ELSE Replaced(@[n])]]
        /\ status' = [status EXCEPT ![j] = IF quote[j][k].phase = "initial" THEN "accepted" ELSE @]
        /\ accepted' = [accepted EXCEPT ![j] = k]
        /\ agreedTotal' = [agreedTotal EXCEPT ![j] = total]
        /\ quoteAmount' = [quoteAmount EXCEPT ![j] = total]
        /\ UNCHANGED <<confirmedDone, finalPrice>>

TurnDownQuote(j, k, answer) ==
    /\ Answerable(j, k)
    /\ quote' = [quote EXCEPT ![j][k].status = answer]
    /\ IF quote[j][k].phase = "initial" THEN Withdraw(j) ELSE UNCHANGED <<status, quoteAmount>>
    /\ UNCHANGED <<confirmedDone, accepted, agreedTotal, finalPrice>>

-----------------------------------------------------------------------------
(* POST /api/service-provider/jobs/:id/status                              *)
Steps == [requested          |-> {"provider_reviewing", "cancelled"},
          provider_reviewing |-> {"cancelled"},
          quoted             |-> {"cancelled"},
          accepted           |-> {"scheduled", "in_progress", "cancelled"},
          scheduled          |-> {"in_progress", "cancelled"},
          in_progress        |-> {"disputed"}]

ReportStatus(j, to) ==
    /\ status[j] \in DOMAIN Steps
    /\ to \in Steps[status[j]]
    /\ status' = [status EXCEPT ![j] = to]
    /\ UNCHANGED <<confirmedDone, quote, priceVars>>

PendingChange(j) == \E k \in Versions : Sent(j, k, "change_order")

(* ... to completed: acceptedCompletionPrice refuses any other amount.     *)
CompleteJob(j) ==
    /\ status[j] = "in_progress"
    /\ agreedTotal[j] # Null /\ accepted[j] # Null
    /\ ~PendingChange(j)
    /\ status' = [status EXCEPT ![j] = "completed"]
    /\ finalPrice' = [finalPrice EXCEPT ![j] = agreedTotal[j]]
    /\ UNCHANGED <<confirmedDone, quote, accepted, agreedTotal, quoteAmount>>

(* POST /api/services/jobs/:id/confirm-completion                          *)
ConfirmCompletion(j) ==
    /\ status[j] = "completed"
    /\ confirmedDone' = [confirmedDone EXCEPT ![j] = TRUE]
    /\ UNCHANGED <<status, quote, priceVars>>

JobStep(j) ==
    \/ AskForJob(j)
    \/ \E k \in Versions :
         \/ \E phase \in Phases, total \in Totals : SendQuote(j, k, phase, total)
         \/ QuoteLapses(j, k)
         \/ FindExpired(j, k)
         \/ AcceptQuote(j, k)
         \/ \E answer \in {"declined", "changes_requested"} : TurnDownQuote(j, k, answer)
    \/ \E to \in {"provider_reviewing", "scheduled", "in_progress", "cancelled", "disputed"} :
         ReportStatus(j, to)
    \/ CompleteJob(j)
    \/ ConfirmCompletion(j)

-----------------------------------------------------------------------------
JobStatuses == {"none", "completed", "cancelled", "disputed"} \cup Unpriced \cup Underway

QuoteRows == [status : {"sent", "accepted", "superseded", "declined", "changes_requested",
                        "expired"},
              phase : Phases, total : Totals, valid : BOOLEAN]

(* Types of the job and quote tables.                                      *)
JobsTypeOK ==
    /\ status \in [Jobs -> JobStatuses]
    /\ confirmedDone \in [Jobs -> BOOLEAN]
    /\ quote \in [Jobs -> [Versions -> {NoQuote} \cup QuoteRows]]
    /\ accepted \in [Jobs -> Versions \cup {Null}]
    /\ agreedTotal \in [Jobs -> Totals \cup {Null}]
    /\ quoteAmount \in [Jobs -> Totals \cup {Null}]
    /\ finalPrice \in [Jobs -> Totals \cup {Null}]

(* The price of a job is at every stage that of one quote: of the sent one  *)
(* the customer is looking at, then of the one accepted last, which no      *)
(* answer, expiry, change order or completion parts from the job; and a     *)
(* completed job has no change order left to answer.                       *)
AgreedPriceStands ==
    \A j \in Jobs :
        /\ status[j] = "quoted" =>
             \E k \in Versions : Sent(j, k, "initial") /\ quoteAmount[j] = quote[j][k].total
        /\ \A k \in Versions : Is(quote[j][k], "accepted") <=> accepted[j] = k
        /\ accepted[j] # Null =>
             /\ agreedTotal[j] = quote[j][accepted[j]].total
             /\ quoteAmount[j] = agreedTotal[j]
        /\ status[j] \in Underway \cup {"completed", "disputed"} => accepted[j] # Null
        /\ status[j] = "completed" => finalPrice[j] = agreedTotal[j] /\ ~PendingChange(j)
=============================================================================
