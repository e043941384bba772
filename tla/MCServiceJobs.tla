--------------------------- MODULE MCServiceJobs ----------------------------
(* One job.  On a day of bargaining up to three quotes are sent for it and  *)
(* one intent is paid; on a day of payments the first quote is accepted and *)
(* the work done, and two intents are opened for it.                       *)
EXTENDS JobPayments

CONSTANTS j1, i1, i2

VARIABLE day

OneJob == [i \in Intents |-> j1]

FirstQuoteAgreed ==
    /\ Is(quote[j1][2], "none")
    /\ ~Is(quote[j1][1], "none") => quote[j1][1].valid /\ quote[j1][1].total = 2
    /\ status[j1] \in {"none", "requested", "quoted", "accepted", "in_progress", "completed"}

OneDelivery(i) == waiting[i] + failing[i] + (IF held[i] THEN 1 ELSE 0) <= 1

OnePayment ==
    /\ intent[i2] = "none" /\ creating[j1] # i2
    /\ OneDelivery(i1)
    /\ session[i1] # "unclear"

MCInit == Init /\ day \in {"bargain", "payments"}

MCNext ==
    /\ Next
    /\ UNCHANGED day
    /\ day = "payments" => FirstQuoteAgreed' /\ OneDelivery(i2)'
    /\ day = "bargain" => OnePayment' /\ UNCHANGED <<refunded, restarts>>

MCSpec == MCInit /\ [][MCNext]_<<vars, day>>

MCFairSpec == MCSpec /\ Fairness
=============================================================================
