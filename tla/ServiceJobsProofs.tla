-------------------------- MODULE ServiceJobsProofs -------------------------
(***************************************************************************)
(* Jobs and their prices, for every number of jobs, quote versions and      *)
(* payments: the price of a job stands, and is final once it is completed;  *)
(* and JobPayments implements Bargain, so that no job is overpaid.          *)
(***************************************************************************)
EXTENDS JobPayments, SumsProofs

(* A job whose first quote is not accepted yet has no accepted quote: what  *)
(* keeps a new initial quote from touching an agreed price.                *)
Unagreed(j) == status[j] \in Unpriced \cup {"none"} => accepted[j] = Null

QuotedPrice(j) ==
    status[j] = "quoted" =>
        \E k \in Versions : Sent(j, k, "initial") /\ quoteAmount[j] = quote[j][k].total

OneAccepted(j) == \A k \in Versions : Is(quote[j][k], "accepted") <=> accepted[j] = k

AcceptedPrice(j) ==
    accepted[j] # Null =>
        agreedTotal[j] = quote[j][accepted[j]].total /\ quoteAmount[j] = agreedTotal[j]

WorkIsAgreed(j) ==
    status[j] \in Underway \cup {"completed", "disputed"} => accepted[j] # Null

CompletedPrice(j) ==
    status[j] = "completed" => finalPrice[j] = agreedTotal[j] /\ ~PendingChange(j)

PriceOK(j) ==
    /\ Unagreed(j)
    /\ QuotedPrice(j)
    /\ OneAccepted(j)
    /\ AcceptedPrice(j)
    /\ WorkIsAgreed(j)
    /\ CompletedPrice(j)

JobsInv == JobsTypeOK /\ \A j \in Jobs : PriceOK(j)

Parts(j) == <<status[j], quote[j], accepted[j], agreedTotal[j], quoteAmount[j], finalPrice[j]>>

-----------------------------------------------------------------------------
(* What a version holds, field by field.                                    *)
LEMMA Fields ==
  ASSUME JobsTypeOK, NEW j \in Jobs, NEW k \in Versions
  PROVE  /\ Is(quote[j][k], "none") <=> quote[j][k] = NoQuote
         /\ ~Is(quote[j][k], "none") => quote[j][k] \in QuoteRows
  <1>1. quote[j][k] \in {NoQuote} \cup QuoteRows
    BY DEF JobsTypeOK
  <1>2. ASSUME quote[j][k] \in QuoteRows PROVE quote[j][k].status # "none"
    BY <1>2 DEF QuoteRows
  <1> QED BY <1>1, <1>2 DEF Is, NoQuote

LEMMA NullIsNoVersion == Null \notin Versions
  BY ServiceJobsAssumption DEF Versions

LEMMA InitInv == InitJobs => JobsInv
  <1> SUFFICES ASSUME InitJobs PROVE JobsInv
    OBVIOUS
  <1>1. JobsTypeOK
    BY DEF InitJobs, JobsTypeOK, JobStatuses
  <1>2. ASSUME NEW j \in Jobs PROVE PriceOK(j)
    <2>1. \A k \in Versions : quote[j][k].status = "none"
      BY DEF InitJobs, NoQuote
    <2>2. status[j] = "none" /\ accepted[j] = Null
      BY DEF InitJobs
    <2> QED
      BY <2>1, <2>2, NullIsNoVersion
      DEF PriceOK, Unagreed, QuotedPrice, OneAccepted, AcceptedPrice, WorkIsAgreed,
          CompletedPrice, Is, Underway
  <1> QED BY <1>1, <1>2 DEF JobsInv

(* A job none of whose columns change keeps its price.                      *)
LEMMA Untouched ==
  ASSUME NEW j \in Jobs, PriceOK(j), Parts(j)' = Parts(j)
  PROVE  PriceOK(j)'
  BY DEF Parts, PriceOK, Unagreed, QuotedPrice, OneAccepted, AcceptedPrice, WorkIsAgreed,
         CompletedPrice, PendingChange, Sent, Is

LEMMA OtherJobs ==
  ASSUME JobsInv, NEW j \in Jobs, NEW p \in Jobs, p # j, JobStep(j)
  PROVE  Parts(p)' = Parts(p)
  BY DEF JobsInv, JobsTypeOK, JobStep, AskForJob, SendQuote, QuoteLapses, FindExpired, AcceptQuote,
         TurnDownQuote, Withdraw, ReportStatus, CompleteJob, ConfirmCompletion, Parts, priceVars

-----------------------------------------------------------------------------
LEMMA AskStep ==
  ASSUME JobsInv, NEW j \in Jobs, AskForJob(j)
  PROVE  JobsTypeOK' /\ PriceOK(j)'
  <1>1. JobsTypeOK'
    BY DEF JobsInv, JobsTypeOK, AskForJob, priceVars, JobStatuses, Unpriced
  <1>2. status'[j] = "requested" /\ UNCHANGED <<quote, accepted, agreedTotal, quoteAmount>>
    BY DEF JobsInv, JobsTypeOK, AskForJob, priceVars
  <1>3. PriceOK(j)
    BY DEF JobsInv
  <1>4. status[j] = "none"
    BY DEF AskForJob
  <1> QED
    BY <1>1, <1>2, <1>3, <1>4
    DEF PriceOK, Unagreed, QuotedPrice, OneAccepted, AcceptedPrice, WorkIsAgreed,
        CompletedPrice, Is, Underway

LEMMA SendStep ==
  ASSUME JobsInv, NEW j \in Jobs, NEW k \in Versions, NEW phase \in Phases, NEW total \in Totals,
         SendQuote(j, k, phase, total)
  PROVE  JobsTypeOK' /\ PriceOK(j)'
  <1> DEFINE row == [status |-> "sent", phase |-> phase, total |-> total, valid |-> TRUE]
  <1>0. JobsTypeOK /\ PriceOK(j)
    BY DEF JobsInv
  <1>1. \A n \in Versions : quote'[j][n] =
          IF n = k THEN row
          ELSE IF Sent(j, n, phase) THEN [quote[j][n] EXCEPT !.status = "superseded"]
          ELSE quote[j][n]
    BY <1>0 DEF SendQuote, JobsTypeOK
  <1>2. \A n \in Versions : Sent(j, n, phase) => quote[j][n] \in QuoteRows
    BY <1>0, Fields DEF Sent, Is
  <1>3. JobsTypeOK'
    <2>1. row \in QuoteRows
      BY DEF QuoteRows
    <2>2. \A n \in Versions : Sent(j, n, phase) =>
            [quote[j][n] EXCEPT !.status = "superseded"] \in QuoteRows
      BY <1>2 DEF QuoteRows
    <2>3. quote' \in [Jobs -> [Versions -> {NoQuote} \cup QuoteRows]]
      BY <1>0, <2>1, <2>2 DEF SendQuote, JobsTypeOK
    <2>4. status' \in [Jobs -> JobStatuses] /\ quoteAmount' \in [Jobs -> Totals \cup {Null}]
      BY <1>0 DEF SendQuote, JobsTypeOK, JobStatuses, Unpriced
    <2> QED BY <1>0, <2>3, <2>4 DEF SendQuote, JobsTypeOK
  <1>4. accepted' = accepted /\ agreedTotal' = agreedTotal /\ finalPrice' = finalPrice
    BY DEF SendQuote
  <1>5. Is(quote[j][k], "none") /\ accepted[j] # k
    <2>1. Is(quote[j][k], "none")
      BY DEF SendQuote, NextVersion
    <2> QED BY <2>1, <1>0 DEF PriceOK, OneAccepted, Is
  <1>6. OneAccepted(j)'
    <2>1. ASSUME NEW n \in Versions
          PROVE  Is(quote'[j][n], "accepted") <=> Is(quote[j][n], "accepted")
      <3>1. CASE n = k
        <4>1. quote'[j][k] = row
          BY <1>1
        <4> QED BY <1>5, <3>1, <4>1 DEF Is
      <3>2. CASE n # k /\ Sent(j, n, phase)
        <4>1. quote'[j][n] = [quote[j][n] EXCEPT !.status = "superseded"]
          BY <1>1, <3>2
        <4>2. quote'[j][n].status = "superseded"
          BY <1>2, <3>2, <4>1 DEF QuoteRows
        <4> QED BY <3>2, <4>2 DEF Is, Sent
      <3>3. CASE n # k /\ ~Sent(j, n, phase)
        BY <1>1, <3>3
      <3> QED BY <3>1, <3>2, <3>3
    <2> QED BY <2>1, <1>0, <1>4 DEF PriceOK, OneAccepted
  <1>7. accepted[j] # Null => quote'[j][accepted[j]] = quote[j][accepted[j]]
    <2>1. accepted[j] \in Versions \cup {Null}
      BY <1>0 DEF JobsTypeOK
    <2>2. ASSUME accepted[j] \in Versions PROVE ~Sent(j, accepted[j], phase)
      BY <2>2, <1>0 DEF PriceOK, OneAccepted, Is, Sent
    <2> QED BY <1>1, <1>5, <2>1, <2>2
  <1>8. CASE phase = "initial"
    <2>1. status'[j] = "quoted" /\ quoteAmount'[j] = total /\ status[j] \in Unpriced
      BY <1>0, <1>8 DEF SendQuote, JobsTypeOK
    <2>2. accepted[j] = Null
      BY <1>0, <2>1 DEF PriceOK, Unagreed
    <2>3. QuotedPrice(j)'
      <3>1. quote'[j][k] = row
        BY <1>1
      <3>2. Sent(j, k, "initial")' /\ quoteAmount'[j] = quote'[j][k].total
        BY <1>8, <2>1, <3>1 DEF Sent, Is
      <3> QED BY <3>2 DEF QuotedPrice
    <2>4. (Unagreed(j) /\ AcceptedPrice(j) /\ WorkIsAgreed(j) /\ CompletedPrice(j))'
      BY <1>4, <2>1, <2>2 DEF Unagreed, AcceptedPrice, WorkIsAgreed, CompletedPrice, Underway
    <2> QED BY <1>3, <1>6, <2>3, <2>4 DEF PriceOK
  <1>9. CASE phase # "initial"
    <2>1. status' = status /\ quoteAmount' = quoteAmount /\ status[j] \in Underway
      BY <1>9 DEF SendQuote
    <2>2. AcceptedPrice(j)'
      BY <1>0, <1>4, <1>7, <2>1 DEF PriceOK, AcceptedPrice
    <2>3. (Unagreed(j) /\ QuotedPrice(j) /\ WorkIsAgreed(j) /\ CompletedPrice(j))'
      BY <1>0, <1>4, <2>1 DEF PriceOK, Unagreed, QuotedPrice, WorkIsAgreed, CompletedPrice,
                              Underway, Unpriced
    <2> QED BY <1>3, <1>6, <2>2, <2>3 DEF PriceOK
  <1> QED BY <1>8, <1>9

(* A version of the job changes its status, or its time is over; the rest   *)
(* of the tables stand.                                                    *)
LEMMA Marked ==
  ASSUME JobsTypeOK, NEW j \in Jobs, NEW k \in Versions, ~Is(quote[j][k], "none"),
         NEW state \in {"sent", "accepted", "superseded", "declined", "changes_requested",
                        "expired"},
         NEW q, q = [quote[j][k] EXCEPT !.status = state]
  PROVE  /\ q \in QuoteRows /\ q.status = state
         /\ q.phase = quote[j][k].phase /\ q.total = quote[j][k].total
  <1>1. quote[j][k] \in QuoteRows
    BY Fields
  <1> QED BY <1>1 DEF QuoteRows

LEMMA LapseStep ==
  ASSUME JobsInv, NEW j \in Jobs, NEW k \in Versions, QuoteLapses(j, k)
  PROVE  JobsTypeOK' /\ PriceOK(j)'
  <1>0. JobsTypeOK /\ PriceOK(j)
    BY DEF JobsInv
  <1>1. quote[j][k] \in QuoteRows
    BY <1>0, Fields DEF QuoteLapses
  <1> DEFINE row == [quote[j][k] EXCEPT !.valid = FALSE]
  <1>2. quote' = [quote EXCEPT ![j] = [quote[j] EXCEPT ![k] = row]]
    BY <1>0 DEF QuoteLapses, JobsTypeOK
  <1>3. /\ row \in QuoteRows /\ row.status = quote[j][k].status
        /\ row.phase = quote[j][k].phase /\ row.total = quote[j][k].total
    BY <1>1 DEF QuoteRows
  <1> HIDE DEF row
  <1>4. \A n \in Versions : quote'[j][n] = IF n = k THEN row ELSE quote[j][n]
    BY <1>0, <1>2 DEF JobsTypeOK
  <1>5. UNCHANGED <<status, confirmedDone, accepted, agreedTotal, quoteAmount, finalPrice>>
    BY DEF QuoteLapses, priceVars
  <1>6. JobsTypeOK'
    BY <1>0, <1>2, <1>3, <1>5 DEF JobsTypeOK
  <1>7. \A n \in Versions : quote'[j][n].status = quote[j][n].status
    BY <1>3, <1>4
  <1>8. \A n \in Versions : quote'[j][n].phase = quote[j][n].phase
    BY <1>3, <1>4
  <1>9. \A n \in Versions : quote'[j][n].total = quote[j][n].total
    BY <1>3, <1>4
  <1>10. accepted[j] \in Versions \cup {Null}
    BY <1>0 DEF JobsTypeOK
  <1>11. (Unagreed(j) /\ WorkIsAgreed(j) /\ OneAccepted(j) /\ AcceptedPrice(j))'
    BY <1>0, <1>5, <1>7, <1>9, <1>10
    DEF PriceOK, Unagreed, WorkIsAgreed, OneAccepted, AcceptedPrice, Is
  <1>12. (QuotedPrice(j) /\ CompletedPrice(j))'
    BY <1>0, <1>5, <1>7, <1>8, <1>9
    DEF PriceOK, QuotedPrice, CompletedPrice, PendingChange, Sent, Is
  <1> QED BY <1>6, <1>11, <1>12 DEF PriceOK

(* A sent version gets an answer other than an acceptance.                  *)
LEMMA AnsweredStep ==
  ASSUME JobsInv, NEW j \in Jobs, NEW k \in Versions, Is(quote[j][k], "sent"),
         NEW row \in QuoteRows, row.status \in {"declined", "changes_requested", "expired"},
         row.phase = quote[j][k].phase,
         quote' = [quote EXCEPT ![j] = [quote[j] EXCEPT ![k] = row]],
         UNCHANGED <<confirmedDone, accepted, agreedTotal, finalPrice>>,
         \/ Withdraw(j) /\ status[j] = "quoted"
         \/ /\ UNCHANGED <<status, quoteAmount>>
            /\ quote[j][k].phase = "initial" => status[j] # "quoted"
  PROVE  JobsTypeOK' /\ PriceOK(j)'
  <1>0. JobsTypeOK /\ PriceOK(j)
    BY DEF JobsInv
  <1>2. row.status \notin {"sent", "accepted", "none"}
    OBVIOUS
  <1>3. \A n \in Versions : quote'[j][n] = IF n = k THEN row ELSE quote[j][n]
    BY <1>0 DEF JobsTypeOK
  <1>4. /\ status' \in [Jobs -> JobStatuses]
        /\ quoteAmount' \in [Jobs -> Totals \cup {Null}]
        /\ \/ status[j] = "quoted" /\ status'[j] = "provider_reviewing"
           \/ status'[j] = status[j] /\ quoteAmount'[j] = quoteAmount[j]
    <2>1. CASE Withdraw(j) /\ status[j] = "quoted"
      BY <1>0, <2>1 DEF Withdraw, JobsTypeOK, JobStatuses, Unpriced
    <2>2. CASE UNCHANGED <<status, quoteAmount>>
      BY <1>0, <2>2 DEF JobsTypeOK
    <2> QED BY <2>1, <2>2
  <1>5. JobsTypeOK'
    BY <1>0, <1>4 DEF JobsTypeOK
  <1>6. accepted[j] \in Versions \cup {Null} /\ accepted[j] # k
    BY <1>0 DEF JobsTypeOK, PriceOK, OneAccepted, Is
  <1>7. OneAccepted(j)'
    BY <1>0, <1>2, <1>3 DEF PriceOK, OneAccepted, Is
  <1>8. (Unagreed(j) /\ WorkIsAgreed(j) /\ AcceptedPrice(j))'
    BY <1>0, <1>3, <1>4, <1>6
    DEF PriceOK, Unagreed, WorkIsAgreed, AcceptedPrice, Unpriced, Underway
  <1>9. QuotedPrice(j)'
    <2> SUFFICES ASSUME status'[j] = "quoted"
                 PROVE  \E n \in Versions :
                          Sent(j, n, "initial")' /\ quoteAmount'[j] = quote'[j][n].total
      BY DEF QuotedPrice
    <2>1. status[j] = "quoted" /\ quoteAmount'[j] = quoteAmount[j]
      BY <1>4
    <2>2. quote[j][k].phase # "initial"
      BY <2>1, <1>0, <1>4 DEF Withdraw, JobsTypeOK
    <2>3. PICK n \in Versions : Sent(j, n, "initial") /\ quoteAmount[j] = quote[j][n].total
      BY <1>0, <2>1 DEF PriceOK, QuotedPrice
    <2>4. n # k
      BY <2>2, <2>3 DEF Sent
    <2>5. quote'[j][n] = quote[j][n]
      BY <1>3, <2>4
    <2> QED BY <2>1, <2>3, <2>5 DEF Sent
  <1>10. CompletedPrice(j)'
    <2>1. \A n \in Versions : Sent(j, n, "change_order")' => Sent(j, n, "change_order")
      BY <1>2, <1>3 DEF Sent, Is
    <2> QED BY <1>0, <1>4, <2>1 DEF PriceOK, CompletedPrice, PendingChange
  <1> QED BY <1>5, <1>7, <1>8, <1>9, <1>10 DEF PriceOK

LEMMA ExpiredStep ==
  ASSUME JobsInv, NEW j \in Jobs, NEW k \in Versions, FindExpired(j, k)
  PROVE  JobsTypeOK' /\ PriceOK(j)'
  <1>0. JobsTypeOK
    BY DEF JobsInv
  <1>1. Is(quote[j][k], "sent")
    BY DEF FindExpired
  <1>2. PICK row : row = [quote[j][k] EXCEPT !.status = "expired"]
    OBVIOUS
  <1>3. row \in QuoteRows /\ row.status = "expired" /\ row.phase = quote[j][k].phase
    BY <1>0, <1>1, <1>2, Marked DEF Is
  <1>4. quote' = [quote EXCEPT ![j] = [quote[j] EXCEPT ![k] = row]]
    BY <1>0, <1>2 DEF FindExpired, JobsTypeOK
  <1>5. \/ Withdraw(j) /\ status[j] = "quoted"
        \/ /\ UNCHANGED <<status, quoteAmount>>
           /\ quote[j][k].phase = "initial" => status[j] # "quoted"
    BY DEF FindExpired
  <1>6. UNCHANGED <<confirmedDone, accepted, agreedTotal, finalPrice>>
    BY DEF FindExpired
  <1> QED BY <1>1, <1>3, <1>4, <1>5, <1>6, AnsweredStep

LEMMA TurnDownStep ==
  ASSUME JobsInv, NEW j \in Jobs, NEW k \in Versions,
         NEW answer \in {"declined", "changes_requested"}, TurnDownQuote(j, k, answer)
  PROVE  JobsTypeOK' /\ PriceOK(j)'
  <1>0. JobsTypeOK
    BY DEF JobsInv
  <1>1. Is(quote[j][k], "sent")
    BY DEF TurnDownQuote, Answerable
  <1>2. PICK row : row = [quote[j][k] EXCEPT !.status = answer]
    OBVIOUS
  <1>3. row \in QuoteRows /\ row.status = answer /\ row.phase = quote[j][k].phase
    BY <1>0, <1>1, <1>2, Marked DEF Is
  <1>4. quote' = [quote EXCEPT ![j] = [quote[j] EXCEPT ![k] = row]]
    BY <1>0, <1>2 DEF TurnDownQuote, JobsTypeOK
  <1>5. \/ Withdraw(j) /\ status[j] = "quoted"
        \/ /\ UNCHANGED <<status, quoteAmount>>
           /\ quote[j][k].phase = "initial" => status[j] # "quoted"
    BY DEF TurnDownQuote, Answerable
  <1>6. UNCHANGED <<confirmedDone, accepted, agreedTotal, finalPrice>>
    BY DEF TurnDownQuote
  <1> QED BY <1>1, <1>3, <1>4, <1>5, <1>6, AnsweredStep

(* The quote accepted before is the only other one marked so.               *)
LEMMA AcceptStep ==
  ASSUME JobsInv, NEW j \in Jobs, NEW k \in Versions, AcceptQuote(j, k)
  PROVE  JobsTypeOK' /\ PriceOK(j)'
  <1>0. JobsTypeOK /\ PriceOK(j)
    BY DEF JobsInv
  <1>1. Is(quote[j][k], "sent")
    BY DEF AcceptQuote, Answerable
  <1>2. PICK row : row = [quote[j][k] EXCEPT !.status = "accepted"]
    OBVIOUS
  <1>3. row \in QuoteRows /\ row.status = "accepted" /\ row.total = quote[j][k].total
    BY <1>0, <1>1, <1>2, Marked DEF Is
  <1>4. \A n \in Versions :
          /\ Replaced(quote[j][n]) \in {NoQuote} \cup QuoteRows
          /\ Replaced(quote[j][n]).status # "accepted"
          /\ Replaced(quote[j][n]) # quote[j][n] => Replaced(quote[j][n]).status = "superseded"
    <2> TAKE n \in Versions
    <2>1. CASE Is(quote[j][n], "accepted")
      <3>1. PICK old : old = [quote[j][n] EXCEPT !.status = "superseded"]
        OBVIOUS
      <3>2. old \in QuoteRows /\ old.status = "superseded"
        BY <1>0, <2>1, <3>1, Marked DEF Is
      <3>3. Replaced(quote[j][n]) = old
        BY <2>1, <3>1 DEF Replaced
      <3> QED BY <3>2, <3>3
    <2>2. CASE ~Is(quote[j][n], "accepted")
      <3>1. Replaced(quote[j][n]) = quote[j][n]
        BY <2>2 DEF Replaced
      <3>2. quote[j][n] \in {NoQuote} \cup QuoteRows
        BY <1>0 DEF JobsTypeOK
      <3> QED BY <2>2, <3>1, <3>2 DEF Is
    <2> QED BY <2>1, <2>2
  <1>5. quote' = [quote EXCEPT ![j] =
          [n \in Versions |-> IF n = k THEN row ELSE Replaced(quote[j][n])]]
    BY <1>0, <1>2 DEF AcceptQuote, JobsTypeOK
  <1>6. \A n \in Versions : quote'[j][n] = IF n = k THEN row ELSE Replaced(quote[j][n])
    BY <1>0, <1>5 DEF JobsTypeOK
  <1>7. /\ accepted' = [accepted EXCEPT ![j] = k]
        /\ agreedTotal' = [agreedTotal EXCEPT ![j] = quote[j][k].total]
        /\ quoteAmount' = [quoteAmount EXCEPT ![j] = quote[j][k].total]
        /\ UNCHANGED <<confirmedDone, finalPrice>>
    BY DEF AcceptQuote
  <1>8. /\ status' \in [Jobs -> JobStatuses]
        /\ status'[j] \in Underway
    BY <1>0 DEF AcceptQuote, Answerable, JobsTypeOK, JobStatuses, Underway
  <1>9. quote[j][k].total \in Totals
    BY <1>0, <1>1, Fields DEF Is, QuoteRows
  <1>10. JobsTypeOK'
    <2>1. quote' \in [Jobs -> [Versions -> {NoQuote} \cup QuoteRows]]
      BY <1>0, <1>3, <1>4, <1>5 DEF JobsTypeOK
    <2> QED BY <1>0, <1>7, <1>8, <1>9, <2>1 DEF JobsTypeOK
  <1>11. accepted'[j] = k /\ agreedTotal'[j] = quote[j][k].total
         /\ quoteAmount'[j] = quote[j][k].total
    BY <1>0, <1>7 DEF JobsTypeOK
  <1>12. OneAccepted(j)'
    BY <1>3, <1>4, <1>6, <1>11 DEF OneAccepted, Is
  <1>13. AcceptedPrice(j)'
    <2>1. quote'[j][k] = row
      BY <1>6
    <2> QED BY <1>3, <1>11, <2>1 DEF AcceptedPrice
  <1>14. (Unagreed(j) /\ QuotedPrice(j) /\ WorkIsAgreed(j) /\ CompletedPrice(j))'
    BY <1>8, <1>11, NullIsNoVersion
    DEF Unagreed, QuotedPrice, WorkIsAgreed, CompletedPrice, Underway, Unpriced
  <1> QED BY <1>10, <1>12, <1>13, <1>14 DEF PriceOK

LEMMA ReportStep ==
  ASSUME JobsInv, NEW j \in Jobs,
         NEW to \in {"provider_reviewing", "scheduled", "in_progress", "cancelled", "disputed"},
         ReportStatus(j, to)
  PROVE  JobsTypeOK' /\ PriceOK(j)'
  <1>0. JobsTypeOK /\ PriceOK(j)
    BY DEF JobsInv
  <1>1. UNCHANGED <<confirmedDone, quote, accepted, agreedTotal, quoteAmount, finalPrice>>
    BY DEF ReportStatus, priceVars
  <1>2. status' = [status EXCEPT ![j] = to] /\ to \in JobStatuses
    BY DEF ReportStatus, JobStatuses, Unpriced, Underway
  <1>3. JobsTypeOK'
    BY <1>0, <1>1, <1>2 DEF JobsTypeOK
  <1>4. status'[j] = to
    BY <1>0, <1>2 DEF JobsTypeOK
  <1>5. /\ to = "provider_reviewing" => status[j] \in Unpriced
        /\ to \in Underway \cup {"disputed"} => status[j] \in Underway
    BY DEF ReportStatus, Steps, Unpriced, Underway
  <1>6. (Unagreed(j) /\ WorkIsAgreed(j))'
    BY <1>0, <1>1, <1>4, <1>5 DEF PriceOK, Unagreed, WorkIsAgreed, Unpriced, Underway
  <1>7. (QuotedPrice(j) /\ CompletedPrice(j))'
    BY <1>4 DEF QuotedPrice, CompletedPrice
  <1>8. (OneAccepted(j) /\ AcceptedPrice(j))'
    BY <1>0, <1>1 DEF PriceOK, OneAccepted, AcceptedPrice
  <1> QED BY <1>3, <1>6, <1>7, <1>8 DEF PriceOK

LEMMA CompleteStep ==
  ASSUME JobsInv, NEW j \in Jobs, CompleteJob(j)
  PROVE  JobsTypeOK' /\ PriceOK(j)'
  <1>0. JobsTypeOK /\ PriceOK(j)
    BY DEF JobsInv
  <1>1. UNCHANGED <<confirmedDone, quote, accepted, agreedTotal, quoteAmount>>
    BY DEF CompleteJob
  <1>2. status'[j] = "completed" /\ finalPrice'[j] = agreedTotal[j]
    BY <1>0 DEF CompleteJob, JobsTypeOK
  <1>3. JobsTypeOK'
    BY <1>0, <1>1 DEF CompleteJob, JobsTypeOK, JobStatuses
  <1>4. accepted[j] # Null /\ ~PendingChange(j)
    BY DEF CompleteJob
  <1>5. (Unagreed(j) /\ QuotedPrice(j) /\ WorkIsAgreed(j))'
    BY <1>1, <1>2, <1>4 DEF Unagreed, QuotedPrice, WorkIsAgreed, Unpriced
  <1>6. (OneAccepted(j) /\ AcceptedPrice(j))'
    BY <1>0, <1>1 DEF PriceOK, OneAccepted, AcceptedPrice
  <1>7. CompletedPrice(j)'
    BY <1>1, <1>2, <1>4 DEF CompletedPrice, PendingChange, Sent
  <1> QED BY <1>3, <1>5, <1>6, <1>7 DEF PriceOK

LEMMA ConfirmStep ==
  ASSUME JobsInv, NEW j \in Jobs, ConfirmCompletion(j)
  PROVE  JobsTypeOK' /\ PriceOK(j)'
  <1>1. JobsTypeOK'
    BY DEF JobsInv, JobsTypeOK, ConfirmCompletion, priceVars
  <1>2. Parts(j)' = Parts(j) /\ PriceOK(j)
    BY DEF ConfirmCompletion, priceVars, Parts, JobsInv
  <1> QED BY <1>1, <1>2, Untouched

LEMMA JobKeepsInv ==
  ASSUME JobsInv, NEW j \in Jobs, JobStep(j)
  PROVE  JobsInv'
  <1>1. JobsTypeOK' /\ PriceOK(j)'
    BY AskStep, SendStep, LapseStep, ExpiredStep, AcceptStep, TurnDownStep, ReportStep,
       CompleteStep, ConfirmStep DEF JobStep
  <1>2. ASSUME NEW p \in Jobs, p # j PROVE PriceOK(p)'
    <2>1. Parts(p)' = Parts(p)
      BY <1>2, OtherJobs
    <2> QED BY <2>1, Untouched DEF JobsInv
  <1> QED BY <1>1, <1>2 DEF JobsInv

LEMMA StillInv == JobsInv /\ UNCHANGED jobVars => JobsInv'
  BY DEF JobsInv, JobsTypeOK, PriceOK, Unagreed, QuotedPrice, OneAccepted, AcceptedPrice,
         WorkIsAgreed, CompletedPrice, PendingChange, Sent, Is, jobVars, priceVars

(* Intents, checkouts, webhooks and refunds only read the job.              *)
LEMMA PaymentsLeaveJobs ==
  ASSUME Next, ~\E j \in Jobs : JobStep(j)
  PROVE  UNCHANGED jobVars
  BY DEF Next, EndIntent, CustomerStep, WebhookStep, BeginIntent, IntentLapses, BeginCheckout,
         RecordCheckout, CustomerPays, Refund, Deliver, HoldUnclear, LockIntent, FindDuplicate,
         Credit, HoldForReview, Commit, AbortWebhook, AbortIntent, MarkFailed, Restart

LEMMA StepInv == JobsInv /\ [Next]_vars => JobsInv'
  <1> SUFFICES ASSUME JobsInv, [Next]_vars PROVE JobsInv'
    OBVIOUS
  <1>1. CASE \E j \in Jobs : JobStep(j)
    BY <1>1, JobKeepsInv
  <1>2. CASE ~\E j \in Jobs : JobStep(j)
    BY <1>2, PaymentsLeaveJobs, StillInv DEF vars
  <1> QED BY <1>1, <1>2

(* The strengthening by which the price of a job stands.                    *)
THEOREM AlwaysInv == Spec => []JobsInv
  <1>1. Init => JobsInv
    BY InitInv DEF Init
  <1> QED BY <1>1, StepInv, PTL DEF Spec

(* The tables of jobs and quotes keep their types.                          *)
THEOREM JobsTypeCorrect == Spec => []JobsTypeOK
  <1>1. JobsInv => JobsTypeOK
    BY DEF JobsInv
  <1> QED BY <1>1, AlwaysInv, PTL

(* For any jobs and any number of quotes the price of a job is that of one  *)
(* quote at every stage, and a completed job leaves none unanswered.        *)
THEOREM PriceStands == Spec => []AgreedPriceStands
  <1>1. JobsInv => AgreedPriceStands
    BY DEF JobsInv, PriceOK, QuotedPrice, OneAccepted, AcceptedPrice, WorkIsAgreed, CompletedPrice,
           AgreedPriceStands
  <1> QED BY <1>1, AlwaysInv, PTL

(* A completed job stays completed at its price, whatever quotes are still  *)
(* on file and whatever is paid, retried or refunded.                       *)
PriceIsFinal ==
    \A j \in Jobs : status[j] = "completed" =>
        status'[j] = "completed" /\ finalPrice'[j] = finalPrice[j]

(* For every job, with any number of payments under way.                    *)
THEOREM CompletionIsFinal == Spec => [][PriceIsFinal]_vars
  <1>1. ASSUME JobsInv, NEW p \in Jobs, JobStep(p) PROVE PriceIsFinal
    <2> SUFFICES ASSUME NEW j \in Jobs, status[j] = "completed"
                 PROVE  status'[j] = "completed" /\ finalPrice'[j] = finalPrice[j]
      BY DEF PriceIsFinal
    <2>1. CASE j # p
      BY <1>1, <2>1, OtherJobs DEF Parts
    <2>2. CASE j = p
      BY <1>1, <2>2
      DEF JobStep, AskForJob, SendQuote, QuoteLapses, FindExpired, AcceptQuote, Answerable,
          TurnDownQuote, ReportStatus, Steps, CompleteJob, ConfirmCompletion, priceVars,
          Unpriced, Underway
    <2> QED BY <2>1, <2>2
  <1>2. ASSUME UNCHANGED jobVars PROVE PriceIsFinal
    BY <1>2 DEF PriceIsFinal, jobVars, priceVars
  <1>3. JobsInv /\ [Next]_vars => [PriceIsFinal]_vars
    BY <1>1, <1>2, PaymentsLeaveJobs DEF vars
  <1> QED BY <1>3, AlwaysInv, PTL DEF Spec

-----------------------------------------------------------------------------
(* Refinement: JobPayments implements Bargain.                              *)
IntentStates ==
    {"none", "open", "cancelled", "succeeded", "partially_refunded", "refunded"}

PayTypes ==
    /\ intent \in [Intents -> IntentStates]
    /\ amount \in [Intents -> Nat]
    /\ refunded \in [Intents -> Nat]
    /\ calls \in [Intents -> Nat]
    /\ held \in [Intents -> BOOLEAN]
    /\ session \in [Intents -> {"none", "open", "paid", "unclear"}]
    /\ creating \in [Jobs -> Intents \cup {Null}]
    /\ forgotten \in SUBSET Intents

(* Money is paid back from an intent that is credited; only one that a late *)
(* checkout write took out of the books has refunds and no credit.         *)
IntentOK(i) ==
    /\ refunded[i] <= amount[i]
    /\ intent[i] \notin Confirmed /\ i \notin forgotten => refunded[i] = 0
    /\ intent[i] \in {"partially_refunded", "refunded"} => refunded[i] > 0
    /\ i \in forgotten => refunded[i] > 0 /\ intent[i] # "none"
    /\ intent[i] = "none" => calls[i] = 0 /\ session[i] = "none" /\ ~held[i]

CreatesOwn(j) == creating[j] # Null => JobOf[creating[j]] = j /\ intent[creating[j]] = "none"

IntentInv ==
    /\ PayTypes
    /\ \A i \in Intents : IntentOK(i)
    /\ \A j \in Jobs : CreatesOwn(j)

Unfinished == \A j \in Jobs : status[j] # "completed" => finalPrice[j] = Null

BargainInv == JobsInv /\ Unfinished /\ IntentInv

(* What an intent adds to what its job was paid.                            *)
Net == [i \in Intents |-> (IF intent[i] \in Confirmed THEN amount[i] ELSE 0) - refunded[i]]

LEMMA NetType ==
  ASSUME IntentInv, NEW i \in Intents
  PROVE  Net[i] \in Int /\ (i \notin forgotten => Net[i] \in Nat)
  <1>1. refunded[i] \in Nat /\ amount[i] \in Nat /\ IntentOK(i)
    BY DEF IntentInv, PayTypes
  <1> QED BY <1>1 DEF IntentOK, Net

LEMMA IntentsFinite ==
  ASSUME NEW j \in Jobs
  PROVE  IsFiniteSet(IntentsOf(j)) /\ IntentsOf(j) \subseteq Intents
  BY JobPaymentsAssumption, FS_Subset DEF IntentsOf

(* For any table of intents: the sum over the credited rows less that over  *)
(* all rows is one sum.                                                    *)
CreditedIn(st, j) == {i \in IntentsOf(j) : st[i] \in Confirmed}

NetIn(st, am, back) ==
    [i \in Intents |-> (IF st[i] \in Confirmed THEN am[i] ELSE 0) - back[i]]

LEMMA NetSum ==
  ASSUME NEW st, NEW am \in [Intents -> Nat], NEW back \in [Intents -> Nat], NEW j \in Jobs
  PROVE  Total(am, CreditedIn(st, j)) - Total(back, IntentsOf(j))
           = Total(NetIn(st, am, back), IntentsOf(j))
  <1> DEFINE S == IntentsOf(j)
             credit == [i \in Intents |-> IF st[i] \in Confirmed THEN am[i] ELSE 0]
             net == NetIn(st, am, back)
  <1>1. IsFiniteSet(S) /\ S \subseteq Intents
    BY IntentsFinite
  <1>2. \A i \in S : /\ net[i] \in Int /\ back[i] \in Int /\ am[i] \in Int
                     /\ credit[i] = net[i] + back[i]
    <2> SUFFICES ASSUME NEW i \in S
                 PROVE  /\ net[i] \in Int /\ back[i] \in Int /\ am[i] \in Int
                        /\ credit[i] = net[i] + back[i]
      OBVIOUS
    <2>1. i \in Intents /\ am[i] \in Nat /\ back[i] \in Nat
      BY <1>1
    <2> QED BY <2>1 DEF NetIn
  <1>3. CreditedIn(st, j) \in SUBSET S
    BY DEF CreditedIn
  <1>4. /\ \A i \in CreditedIn(st, j) : am[i] \in Int /\ credit[i] = am[i]
        /\ \A i \in S \ CreditedIn(st, j) : credit[i] = 0
    BY <1>1, <1>2 DEF CreditedIn
  <1> HIDE DEF S, credit, net
  <1>5. Total(am, CreditedIn(st, j)) = Total(credit, S)
    BY <1>1, <1>3, <1>4, TotalWithin
  <1>6. Total(credit, S) = Total(net, S) + Total(back, S)
    <2>1. \A i \in S : net[i] \in Int /\ back[i] \in Int /\ credit[i] = net[i] + back[i]
      BY <1>2
    <2> QED BY <1>1, <2>1, TotalSum
  <1>7. Total(net, S) \in Int /\ Total(back, S) \in Int
    BY <1>1, <1>2, TotalType
  <1>8. Total(am, CreditedIn(st, j)) - Total(back, S) = Total(net, S)
    BY <1>5, <1>6, <1>7
  <1> QED BY <1>8 DEF S, net

LEMMA PaidIsNet ==
  ASSUME IntentInv, NEW j \in Jobs
  PROVE  NetPaid(j) = Total(Net, IntentsOf(j)) /\ NetPaid(j) \in Int
  <1>1. Credited(j) = CreditedIn(intent, j) /\ Net = NetIn(intent, amount, refunded)
    BY DEF Credited, CreditedIn, Net, NetIn
  <1>2. amount \in [Intents -> Nat] /\ refunded \in [Intents -> Nat]
    BY DEF IntentInv, PayTypes
  <1>3. NetPaid(j) = Total(amount, CreditedIn(intent, j)) - Total(refunded, IntentsOf(j))
    BY <1>1, Zenon DEF NetPaid
  <1>4. Total(Net, IntentsOf(j)) \in Int
    BY NetType, IntentsFinite, TotalType
  <1> QED BY <1>1, <1>2, <1>3, <1>4, NetSum

LEMMA PaidIsNetNext ==
  ASSUME IntentInv', NEW j \in Jobs
  PROVE  NetPaid(j)' = Total(Net', IntentsOf(j))
  <1>1. Credited(j)' = CreditedIn(intent', j) /\ Net' = NetIn(intent', amount', refunded')
    BY DEF Credited, CreditedIn, Net, NetIn, IntentsOf
  <1>2. amount' \in [Intents -> Nat] /\ refunded' \in [Intents -> Nat]
    BY DEF IntentInv, PayTypes
  <1>3. NetPaid(j)' = Total(amount', CreditedIn(intent', j)) - Total(refunded', IntentsOf(j))
    BY <1>1, Zenon DEF NetPaid, IntentsOf
  <1> QED BY <1>1, <1>2, <1>3, NetSum

LEMMA PaidType ==
  ASSUME IntentInv, NEW j \in Jobs
  PROVE  PaidFor(j) \in Nat
  BY PaidIsNet DEF PaidFor

(* As long as nothing is out of the books, an intent is worth something or  *)
(* nothing and what was paid for the job is their sum.                     *)
LEMMA BookedSum ==
  ASSUME IntentInv, NEW j \in Jobs, ~Unbooked(j)
  PROVE  /\ NetPaid(j) \in Nat /\ PaidFor(j) = NetPaid(j)
         /\ \A i \in IntentsOf(j) : Net[i] \in Nat /\ Net[i] <= PaidFor(j)
  <1> DEFINE S == IntentsOf(j)
  <1>1. IsFiniteSet(S) /\ S \subseteq Intents
    BY IntentsFinite
  <1>2. \A i \in S : Net[i] \in Nat
    BY <1>1, NetType DEF Unbooked
  <1>3. NetPaid(j) = Total(Net, S)
    BY PaidIsNet
  <1> HIDE DEF S
  <1>4. Total(Net, S) \in Nat /\ \A i \in S : Net[i] <= Total(Net, S)
    BY <1>1, <1>2, TotalNat, TotalTerm
  <1> QED BY <1>2, <1>3, <1>4 DEF PaidFor, S

-----------------------------------------------------------------------------
LEMMA InitIntents == Init => IntentInv /\ Unfinished
  <1> SUFFICES ASSUME Init PROVE IntentInv /\ Unfinished
    OBVIOUS
  <1>1. PayTypes
    BY DEF Init, PayTypes, IntentStates
  <1>2. \A i \in Intents : IntentOK(i)
    BY DEF Init, IntentOK, Confirmed
  <1>3. \A j \in Jobs : CreatesOwn(j)
    BY DEF Init, CreatesOwn
  <1>4. Unfinished
    BY DEF Init, InitJobs, Unfinished
  <1> QED BY <1>1, <1>2, <1>3, <1>4 DEF IntentInv

(* What a step may do to the intents that leaves all their money as it was. *)
Quiet == IntentInv' /\ Net' = Net /\ UNCHANGED <<refunded, forgotten>>

(* A step that touches neither an intent's status nor its money.            *)
LEMMA MoneyUntouched ==
  ASSUME UNCHANGED <<intent, amount, refunded, forgotten>>
  PROVE  Net' = Net /\ UNCHANGED <<refunded, forgotten>>
  BY DEF Net

LEMMA BeginIntentStep ==
  ASSUME IntentInv, NEW i \in Intents, BeginIntent(i)
  PROVE  Quiet
  <1>1. PayTypes'
    BY JobPaymentsAssumption DEF IntentInv, PayTypes, BeginIntent, intentVars, webhookVars
  <1>2. ASSUME NEW k \in Intents PROVE IntentOK(k)'
    BY DEF IntentInv, IntentOK, BeginIntent, intentVars, webhookVars
  <1>3. ASSUME NEW j \in Jobs PROVE CreatesOwn(j)'
    BY DEF IntentInv, PayTypes, CreatesOwn, BeginIntent, intentVars
  <1> QED BY <1>1, <1>2, <1>3, MoneyUntouched DEF Quiet, IntentInv, BeginIntent, intentVars

LEMMA LapsesStep ==
  ASSUME IntentInv, NEW i \in Intents, IntentLapses(i)
  PROVE  Quiet
  <1>1. IntentInv'
    BY DEF IntentInv, PayTypes, IntentOK, CreatesOwn, IntentLapses, webhookVars
  <1> QED BY <1>1, MoneyUntouched DEF Quiet, IntentLapses

LEMMA BeginCheckoutStep ==
  ASSUME IntentInv, NEW i \in Intents, BeginCheckout(i)
  PROVE  Quiet
  <1>1. PayTypes'
    BY DEF IntentInv, PayTypes, BeginCheckout, intentVars, webhookVars
  <1>2. ASSUME NEW k \in Intents PROVE IntentOK(k)'
    BY DEF IntentInv, PayTypes, IntentOK, BeginCheckout, intentVars, webhookVars
  <1>3. ASSUME NEW j \in Jobs PROVE CreatesOwn(j)'
    BY DEF IntentInv, CreatesOwn, BeginCheckout, intentVars
  <1> QED BY <1>1, <1>2, <1>3, MoneyUntouched DEF Quiet, IntentInv, BeginCheckout, intentVars

LEMMA CustomerPaysStep ==
  ASSUME IntentInv, NEW i \in Intents, NEW how \in {"paid", "unclear"}, CustomerPays(i, how)
  PROVE  Quiet
  <1>1. PayTypes'
    BY DEF IntentInv, PayTypes, CustomerPays, intentVars, webhookVars
  <1>2. ASSUME NEW k \in Intents PROVE IntentOK(k)'
    BY DEF IntentInv, PayTypes, IntentOK, CustomerPays, intentVars, webhookVars
  <1>3. ASSUME NEW j \in Jobs PROVE CreatesOwn(j)'
    BY DEF IntentInv, CreatesOwn, CustomerPays, intentVars
  <1> QED BY <1>1, <1>2, <1>3, MoneyUntouched DEF Quiet, IntentInv, CustomerPays, intentVars

(* A checkout's write reopens an intent that was cancelled.                 *)
LEMMA RecordStep ==
  ASSUME IntentInv, NEW i \in Intents, RecordCheckout(i),
         intent[i] \notin {"partially_refunded", "refunded"}
  PROVE  Quiet
  <1>1. PayTypes'
    BY DEF IntentInv, PayTypes, RecordCheckout, webhookVars, IntentStates
  <1>2. IntentOK(i) /\ calls[i] > 0 /\ intent[i] \in IntentStates
    BY DEF IntentInv, PayTypes, RecordCheckout
  <1>3. intent[i] \in {"open", "cancelled", "succeeded"} /\ forgotten' = forgotten
    BY <1>2 DEF IntentOK, IntentStates, RecordCheckout
  <1>4. ASSUME NEW k \in Intents PROVE IntentOK(k)'
    BY <1>3 DEF IntentInv, PayTypes, IntentOK, Confirmed, RecordCheckout, webhookVars
  <1>5. ASSUME NEW j \in Jobs PROVE CreatesOwn(j)'
    BY <1>3 DEF IntentInv, PayTypes, CreatesOwn, RecordCheckout
  <1>6. \A k \in Intents : intent'[k] \in Confirmed <=> intent[k] \in Confirmed
    BY <1>3 DEF IntentInv, PayTypes, RecordCheckout, Confirmed
  <1>7. Net' = Net /\ refunded' = refunded
    BY <1>6 DEF Net, RecordCheckout
  <1> QED BY <1>1, <1>3, <1>4, <1>5, <1>7 DEF Quiet, IntentInv

(* One that was refunded it takes out of the books.                         *)
LEMMA ForgetStep ==
  ASSUME IntentInv, NEW i \in Intents, RecordCheckout(i),
         intent[i] \in {"partially_refunded", "refunded"}
  PROVE  /\ IntentInv' /\ Net' = [Net EXCEPT ![i] = 0 - refunded[i]]
         /\ forgotten' = forgotten \cup {i} /\ refunded' = refunded /\ refunded[i] > 0
  <1>1. /\ intent' = [intent EXCEPT ![i] = "open"]
        /\ forgotten' = forgotten \cup {i} /\ refunded' = refunded
    BY DEF RecordCheckout
  <1>2. PayTypes'
    BY <1>1 DEF IntentInv, PayTypes, RecordCheckout, webhookVars, IntentStates
  <1>3. refunded[i] > 0 /\ IntentOK(i)
    BY DEF IntentInv, IntentOK
  <1>4. ASSUME NEW k \in Intents PROVE IntentOK(k)'
    BY <1>1, <1>3 DEF IntentInv, PayTypes, IntentOK, Confirmed, RecordCheckout, webhookVars
  <1>5. ASSUME NEW j \in Jobs PROVE CreatesOwn(j)'
    BY <1>1 DEF IntentInv, PayTypes, CreatesOwn, RecordCheckout
  <1>6. Net' = [Net EXCEPT ![i] = 0 - refunded[i]]
    <2>1. ASSUME NEW k \in Intents
          PROVE  Net'[k] = IF k = i THEN 0 - refunded[i] ELSE Net[k]
      BY <1>1 DEF IntentInv, PayTypes, Net, Confirmed, RecordCheckout
    <2> QED BY <2>1 DEF Net
  <1> QED BY <1>1, <1>2, <1>3, <1>4, <1>5, <1>6 DEF IntentInv

LEMMA EndIntentStep ==
  ASSUME IntentInv, JobsTypeOK, NEW j \in Jobs, EndIntent(j)
  PROVE  Quiet
  <1> DEFINE i == creating[j]
  <1>1. i \in Intents /\ JobOf[i] = j /\ intent[i] = "none" /\ IntentOK(i)
    BY DEF IntentInv, PayTypes, CreatesOwn, EndIntent, JobFree
  <1>2. \A p \in Jobs : creating'[p] = IF p = j THEN Null ELSE creating[p]
    BY DEF IntentInv, PayTypes, EndIntent
  <1>3. CASE ~MayOpen(j)
    <2>1. UNCHANGED <<intent, amount, refunded, forgotten>>
      BY <1>3 DEF EndIntent
    <2>2. PayTypes'
      BY <2>1 DEF IntentInv, PayTypes, EndIntent, webhookVars
    <2>3. ASSUME NEW k \in Intents PROVE IntentOK(k)'
      BY <2>1 DEF IntentInv, IntentOK, EndIntent, webhookVars
    <2>4. ASSUME NEW p \in Jobs PROVE CreatesOwn(p)'
      BY <1>2, <2>1 DEF IntentInv, CreatesOwn
    <2> QED BY <2>1, <2>2, <2>3, <2>4, MoneyUntouched DEF Quiet, IntentInv
  <1>4. CASE MayOpen(j)
    <2> HIDE DEF i
    <2>1. /\ intent' = [k \in Intents |->
                 IF k = i THEN "open"
                 ELSE IF JobOf[k] = j /\ Over(k) THEN "cancelled" ELSE intent[k]]
          /\ amount' = [amount EXCEPT ![i] = Outstanding(j)]
          /\ UNCHANGED <<refunded, forgotten, calls, held, session>>
      BY <1>4 DEF EndIntent, i, webhookVars
    <2>2. Outstanding(j) \in Nat
      <3>1. Payable(j) \in Int
        <4>1. finalPrice[j] \in Totals \cup {Null} /\ quoteAmount[j] \in Totals \cup {Null}
          BY DEF JobsTypeOK
        <4>2. \A t \in Totals : t \in Int
          BY ServiceJobsAssumption
        <4>3. CASE finalPrice[j] # Null
          BY <4>1, <4>2, <4>3 DEF Payable
        <4>4. CASE finalPrice[j] = Null
          BY <4>1, <4>2, <4>4 DEF Payable
        <4> QED BY <4>3, <4>4
      <3>2. PaidFor(j) \in Int
        BY PaidType
      <3> QED BY <1>4, <3>1, <3>2 DEF MayOpen, Outstanding
    <2>3. PayTypes'
      <3>1. intent' \in [Intents -> IntentStates]
        BY <2>1 DEF IntentInv, PayTypes, IntentStates
      <3>2. amount' \in [Intents -> Nat]
        BY <2>1, <2>2 DEF IntentInv, PayTypes
      <3>3. creating' \in [Jobs -> Intents \cup {Null}]
        BY DEF IntentInv, PayTypes, EndIntent
      <3> QED BY <2>1, <3>1, <3>2, <3>3 DEF IntentInv, PayTypes
    <2>4. ASSUME NEW k \in Intents
          PROVE  /\ IntentOK(k)'
                 /\ intent'[k] \in Confirmed <=> intent[k] \in Confirmed
                 /\ intent[k] \in Confirmed => amount'[k] = amount[k]
      <3>1. IntentOK(k) /\ i # Null
        BY JobPaymentsAssumption, <1>1 DEF IntentInv, i
      <3>2. CASE k = i
        <4>1. intent'[k] = "open" /\ amount'[k] = Outstanding(j) /\ refunded'[k] = 0
              /\ k \notin forgotten'
          <5>1. refunded[k] = 0 /\ k \notin forgotten
            BY <1>1, <3>2 DEF i, IntentOK, Confirmed
          <5> QED BY <1>1, <2>1, <3>2, <5>1 DEF IntentInv, PayTypes, i
        <4>2. intent[k] \notin Confirmed
          BY <1>1, <3>2 DEF Confirmed, i
        <4> QED BY <4>1, <4>2, <2>2 DEF IntentOK, Confirmed
      <3>3. CASE k # i
        <4>1. amount'[k] = amount[k] /\ refunded'[k] = refunded[k]
          BY <2>1, <3>3 DEF IntentInv, PayTypes
        <4>2. intent'[k] = intent[k] \/ (intent[k] = "open" /\ intent'[k] = "cancelled")
          BY <2>1, <3>3 DEF Over
        <4> QED BY <2>1, <3>1, <4>1, <4>2 DEF IntentOK, Confirmed
      <3> QED BY <3>2, <3>3
    <2>5. ASSUME NEW p \in Jobs PROVE CreatesOwn(p)'
      <3>1. CASE p = j
        BY <1>2, <3>1 DEF CreatesOwn
      <3>2. CASE p # j /\ creating[p] # Null
        <4>1. creating'[p] = creating[p] /\ creating[p] \in Intents
          BY <1>2, <3>2 DEF IntentInv, PayTypes
        <4>2. JobOf[creating[p]] = p /\ intent[creating[p]] = "none"
          BY <3>2 DEF IntentInv, CreatesOwn
        <4>3. intent'[creating[p]] = "none"
          BY <1>1, <2>1, <3>2, <4>1, <4>2 DEF i
        <4> QED BY <4>1, <4>2, <4>3 DEF CreatesOwn
      <3>3. CASE p # j /\ creating[p] = Null
        BY <1>2, <3>3 DEF CreatesOwn
      <3> QED BY <3>1, <3>2, <3>3
    <2>6. Net' = Net
      <3>1. ASSUME NEW k \in Intents PROVE Net'[k] = Net[k]
        BY <2>1, <2>4 DEF Net
      <3> QED BY <3>1 DEF Net
    <2> QED BY <2>1, <2>3, <2>4, <2>5, <2>6 DEF Quiet, IntentInv
  <1> QED BY <1>3, <1>4

LEMMA WebhookOpens ==
  ASSUME IntentInv, NEW i \in Intents,
         Deliver(i) \/ HoldUnclear(i) \/ LockIntent(i) \/ AbortWebhook(i) \/ MarkFailed(i)
  PROVE  Quiet
  <1>1. PayTypes' /\ UNCHANGED <<intent, amount, refunded, forgotten, calls, session, creating>>
    BY DEF IntentInv, PayTypes, intentVars, Deliver, HoldUnclear, LockIntent, AbortWebhook,
           MarkFailed
  <1>2. \A k \in Intents : held'[k] => held[k] \/ session[k] = "paid"
    BY DEF IntentInv, PayTypes, Deliver, HoldUnclear, LockIntent, AbortWebhook, MarkFailed
  <1>3. ASSUME NEW k \in Intents PROVE IntentOK(k)'
    BY <1>1, <1>2 DEF IntentInv, IntentOK
  <1>4. ASSUME NEW j \in Jobs PROVE CreatesOwn(j)'
    BY <1>1 DEF IntentInv, CreatesOwn
  <1> QED BY <1>1, <1>3, <1>4, MoneyUntouched DEF Quiet, IntentInv

LEMMA WebhookEnds ==
  ASSUME IntentInv, NEW i \in Intents, FindDuplicate(i) \/ HoldForReview(i)
  PROVE  Quiet
  <1>1. /\ PayTypes'
        /\ UNCHANGED <<intent, amount, refunded, forgotten, calls, session, creating>>
        /\ \A k \in Intents : held'[k] => held[k]
    BY DEF IntentInv, PayTypes, Commit, FindDuplicate, HoldForReview
  <1>2. ASSUME NEW k \in Intents PROVE IntentOK(k)'
    BY <1>1 DEF IntentInv, IntentOK
  <1>3. ASSUME NEW j \in Jobs PROVE CreatesOwn(j)'
    BY <1>1 DEF IntentInv, CreatesOwn
  <1> QED BY <1>1, <1>2, <1>3, MoneyUntouched DEF Quiet, IntentInv

LEMMA LocksFreed ==
  ASSUME IntentInv, Restart \/ \E i \in Intents : AbortIntent(i)
  PROVE  Quiet
  <1>1. /\ PayTypes'
        /\ UNCHANGED <<intent, amount, refunded, forgotten, session>>
        /\ \A k \in Intents : (held'[k] => held[k]) /\ calls'[k] <= calls[k]
        /\ \A j \in Jobs : creating'[j] = Null \/ creating'[j] = creating[j]
    <2>1. CASE Restart
      BY <2>1 DEF IntentInv, PayTypes, Restart, intentVars
    <2>2. ASSUME NEW i \in Intents, AbortIntent(i)
          PROVE  /\ UNCHANGED <<intent, amount, refunded, forgotten, session, calls, held>>
                 /\ creating' = [creating EXCEPT ![JobOf[i]] = Null]
      BY <2>2 DEF AbortIntent, intentVars, webhookVars
    <2>3. CASE \E i \in Intents : AbortIntent(i)
      BY <2>2, <2>3 DEF IntentInv, PayTypes
    <2> QED BY <2>1, <2>3
  <1>2. ASSUME NEW k \in Intents PROVE IntentOK(k)'
    BY <1>1 DEF IntentInv, PayTypes, IntentOK
  <1>3. ASSUME NEW j \in Jobs PROVE CreatesOwn(j)'
    BY <1>1 DEF IntentInv, CreatesOwn
  <1> QED BY <1>1, <1>2, <1>3, MoneyUntouched DEF Quiet, IntentInv

(* What an intent is worth to its job moves from one amount to another.     *)
NetMoves(i, m) ==
    IntentInv' /\ Net' = [Net EXCEPT ![i] = m] /\ forgotten' = forgotten

LEMMA CreditStep ==
  ASSUME IntentInv, NEW i \in Intents, Credit(i)
  PROVE  NetMoves(i, amount[i] - refunded[i]) /\ refunded' = refunded
  <1>1. /\ intent' = [intent EXCEPT ![i] = "succeeded"]
        /\ held' = [held EXCEPT ![i] = FALSE]
        /\ UNCHANGED <<amount, refunded, forgotten, calls, session, creating>>
        /\ held[i]
    BY DEF Credit, Commit
  <1>2. PayTypes'
    BY <1>1 DEF IntentInv, PayTypes, IntentStates
  <1>3. intent[i] # "none"
    BY <1>1 DEF IntentInv, IntentOK
  <1>4. ASSUME NEW k \in Intents PROVE IntentOK(k)'
    BY <1>1 DEF IntentInv, PayTypes, IntentOK, Confirmed
  <1>5. ASSUME NEW j \in Jobs PROVE CreatesOwn(j)'
    BY <1>1, <1>3 DEF IntentInv, PayTypes, CreatesOwn
  <1>6. Net' = [Net EXCEPT ![i] = amount[i] - refunded[i]]
    BY <1>1 DEF IntentInv, PayTypes, Net, Confirmed
  <1> QED BY <1>1, <1>2, <1>4, <1>5, <1>6 DEF NetMoves, IntentInv

LEMMA RefundStep ==
  ASSUME IntentInv, NEW i \in Intents, NEW n \in 1..amount[i], Refund(i, n)
  PROVE  /\ IntentInv' /\ forgotten' = forgotten
         /\ refunded' = [refunded EXCEPT ![i] = @ + n]
         /\ \A k \in Intents \ {i} : Net'[k] = Net[k]
         /\ i \notin forgotten => NetMoves(i, Net[i] - n) /\ n <= Net[i]
         /\ i \in forgotten => refunded[i] > 0
  <1>1. /\ intent[i] = "succeeded" \/ refunded[i] > 0
        /\ ~held[i]
        /\ n <= amount[i] - refunded[i]
        /\ refunded' = [refunded EXCEPT ![i] = @ + n]
        /\ intent' = [intent EXCEPT ![i] =
             IF refunded[i] + n = amount[i] THEN "refunded" ELSE "partially_refunded"]
        /\ UNCHANGED <<amount, forgotten, calls, held, session, creating>>
    BY DEF Refund, webhookVars
  <1>2. amount[i] \in Nat /\ refunded[i] \in Nat /\ n \in Nat /\ n > 0 /\ IntentOK(i)
    BY DEF IntentInv, PayTypes
  <1>3. PayTypes'
    BY <1>1, <1>2 DEF IntentInv, PayTypes, IntentStates
  <1>4. intent[i] # "none"
    BY <1>1, <1>2 DEF IntentOK, Confirmed
  <1>5. ASSUME NEW k \in Intents PROVE IntentOK(k)'
    <2>1. CASE k = i
      BY <1>1, <1>2, <2>1 DEF IntentInv, PayTypes, IntentOK, Confirmed
    <2>2. CASE k # i
      BY <1>1, <2>2 DEF IntentInv, PayTypes, IntentOK
    <2> QED BY <2>1, <2>2
  <1>6. ASSUME NEW j \in Jobs PROVE CreatesOwn(j)'
    BY <1>1, <1>4 DEF IntentInv, PayTypes, CreatesOwn
  <1>7. \A k \in Intents \ {i} : Net'[k] = Net[k]
    BY <1>1 DEF IntentInv, PayTypes, Net
  <1>8. ASSUME i \notin forgotten
        PROVE  Net' = [Net EXCEPT ![i] = Net[i] - n] /\ n <= Net[i]
    <2>1. Net[i] = amount[i] - refunded[i]
      BY <1>1, <1>2, <1>8 DEF Net, IntentOK, Confirmed
    <2>2. Net'[i] = Net[i] - n
      BY <1>1, <1>2, <2>1 DEF IntentInv, PayTypes, Net, Confirmed
    <2> QED BY <1>1, <1>7, <2>1, <2>2 DEF Net
  <1> QED BY <1>1, <1>2, <1>3, <1>5, <1>6, <1>7, <1>8 DEF NetMoves, IntentInv, IntentOK

-----------------------------------------------------------------------------
(* The state of Bargain.                                                    *)
Agreed == [j \in Jobs |-> IF finalPrice[j] # Null THEN finalPrice[j] ELSE agreedTotal[j]]
Done   == [j \in Jobs |-> status[j] = "completed"]
Paid   == [j \in Jobs |-> IF Unbooked(j) THEN 0 ELSE PaidFor(j)]
Back   == [j \in Jobs |-> \E i \in IntentsOf(j) : refunded[i] > 0]
Lost   == [j \in Jobs |-> Unbooked(j)]

LEMMA NothingNew ==
  ASSUME Agreed' = Agreed, Done' = Done, Paid' = Paid, Back' = Back, Lost' = Lost
  PROVE  [TheBargain!Next]_(TheBargain!vars)
  BY DEF TheBargain!vars, Agreed, Done, Paid, Back, Lost

LEMMA CompletedHasPrice ==
  ASSUME JobsInv, NEW j \in Jobs, status[j] = "completed"
  PROVE  finalPrice[j] \in Totals /\ finalPrice[j] # Null
  <1>1. accepted[j] \in Versions /\ finalPrice[j] = quote[j][accepted[j]].total
    BY DEF JobsInv, JobsTypeOK, PriceOK, WorkIsAgreed, CompletedPrice, AcceptedPrice
  <1>2. Is(quote[j][accepted[j]], "accepted")
    BY <1>1 DEF JobsInv, PriceOK, OneAccepted
  <1>3. quote[j][accepted[j]] \in QuoteRows
    BY <1>1, <1>2, Fields DEF JobsInv, Is
  <1> QED BY <1>1, <1>3, ServiceJobsAssumption DEF QuoteRows

LEMMA InitBargain == Init => BargainInv /\ TheBargain!Init
  <1> SUFFICES ASSUME Init PROVE BargainInv /\ TheBargain!Init
    OBVIOUS
  <1>1. BargainInv
    BY InitInv, InitIntents DEF BargainInv, Init
  <1>2. ASSUME NEW j \in Jobs
        PROVE  /\ PaidFor(j) = 0 /\ ~Unbooked(j)
               /\ ~\E i \in IntentsOf(j) : refunded[i] > 0
    <2>1. \A i \in IntentsOf(j) : Net[i] = 0 /\ refunded[i] = 0
      BY IntentsFinite DEF Init, Net, Confirmed
    <2>2. Total(Net, IntentsOf(j)) = 0
      BY <2>1, IntentsFinite, TotalZero
    <2>3. NetPaid(j) = 0
      BY <1>1, <2>2, PaidIsNet DEF BargainInv
    <2> QED BY <2>1, <2>3 DEF PaidFor, Unbooked, Init
  <1>3. TheBargain!Init
    <2>1. \A j \in Jobs : agreedTotal[j] = Null /\ finalPrice[j] = Null /\ status[j] = "none"
      BY DEF Init, InitJobs
    <2>2. Agreed = [j \in Jobs |-> Null] /\ Done = [j \in Jobs |-> FALSE]
      BY <2>1 DEF Agreed, Done
    <2>3. Paid = [j \in Jobs |-> 0]
      BY <1>2 DEF Paid
    <2>4. Back = [j \in Jobs |-> FALSE] /\ Lost = [j \in Jobs |-> FALSE]
      <3>1. \A j \in Jobs : Unbooked(j) = FALSE
        BY <1>2 DEF Unbooked
      <3>2. \A j \in Jobs : (\E i \in IntentsOf(j) : refunded[i] > 0) = FALSE
        BY <1>2
      <3> QED BY <3>1, <3>2, Zenon DEF Back, Lost
    <2> QED BY <2>2, <2>3, <2>4 DEF TheBargain!Init, Agreed, Done, Paid, Back, Lost
  <1> QED BY <1>1, <1>3

(* The books of a job, and what it was paid, follow from its intents.       *)
LEMMA BooksStay ==
  ASSUME UNCHANGED <<refunded, forgotten>>
  PROVE  /\ Back' = Back /\ Lost' = Lost
         /\ \A j \in Jobs : Unbooked(j)' = Unbooked(j)
  BY DEF Back, Lost, Unbooked, IntentsOf

LEMMA PaidStays ==
  ASSUME IntentInv, Quiet
  PROVE  Paid' = Paid
  <1>1. ASSUME NEW j \in Jobs PROVE PaidFor(j)' = PaidFor(j)
    <2>1. NetPaid(j)' = Total(Net', IntentsOf(j)) /\ NetPaid(j) = Total(Net, IntentsOf(j))
      BY PaidIsNet, PaidIsNetNext DEF Quiet
    <2>2. NetPaid(j)' = NetPaid(j)
      BY <2>1, Zenon DEF Quiet
    <2> QED BY <2>2 DEF PaidFor
  <1>2. \A j \in Jobs : Unbooked(j)' = Unbooked(j)
    BY BooksStay DEF Quiet
  <1> QED BY <1>1, <1>2 DEF Paid

(* Nothing is paid for a job by a step that leaves its intents alone.       *)
LEMMA OthersUnpaid ==
  ASSUME IntentInv, IntentInv', NEW j \in Jobs,
         \A k \in IntentsOf(j) : Net'[k] = Net[k]
  PROVE  NetPaid(j)' = NetPaid(j) /\ PaidFor(j)' = PaidFor(j)
  <1> DEFINE S == IntentsOf(j)
             old == Net
             new == Net'
  <1>1. NetPaid(j)' = Total(new, S) /\ NetPaid(j) = Total(old, S)
    BY PaidIsNet, PaidIsNetNext
  <1>2. IsFiniteSet(S) /\ \A k \in S : new[k] = old[k]
    BY IntentsFinite
  <1> HIDE DEF S, old, new
  <1>3. Total(new, S) = Total(old, S)
    BY <1>2, TotalSame
  <1>4. NetPaid(j)' = NetPaid(j)
    BY <1>1, <1>3
  <1> QED BY <1>4 DEF PaidFor

LEMMA PaidMoves ==
  ASSUME IntentInv, NEW i \in Intents, NEW m \in Nat, NetMoves(i, m), ~Lost[JobOf[i]]
  PROVE  Paid' = [Paid EXCEPT ![JobOf[i]] = @ + m - Net[i]]
  <1> DEFINE j == JobOf[i]
  <1>0. j \in Jobs /\ IntentInv' /\ ~Unbooked(j)
    BY JobPaymentsAssumption DEF NetMoves, Lost
  <1>1. \A p \in Jobs : Unbooked(p)' = Unbooked(p)
    BY DEF NetMoves, Unbooked, IntentsOf
  <1>2. ASSUME NEW p \in Jobs, p # j PROVE PaidFor(p)' = PaidFor(p)
    <2>1. \A k \in IntentsOf(p) : Net'[k] = Net[k]
      BY <1>2 DEF NetMoves, IntentsOf, Net
    <2> QED BY <1>0, <2>1, OthersUnpaid
  <1>3. PaidFor(j)' = PaidFor(j) + m - Net[i]
    <2> DEFINE S == IntentsOf(j)
               old == Net
               new == Net'
    <2>1. NetPaid(j)' = Total(new, S) /\ NetPaid(j) = Total(old, S)
      BY <1>0, PaidIsNet, PaidIsNetNext
    <2>2. IsFiniteSet(S) /\ S \subseteq Intents /\ i \in S
      BY <1>0, IntentsFinite DEF IntentsOf
    <2>3. \A k \in S : old[k] \in Int
      BY <2>2, NetType
    <2>4. new[i] = m /\ \A k \in S \ {i} : new[k] = old[k]
      BY <2>2 DEF NetMoves, Net
    <2>5. NetPaid(j) \in Nat /\ PaidFor(j) = NetPaid(j) /\ Net[i] \in Nat /\ Net[i] <= NetPaid(j)
      BY <1>0, <2>2, BookedSum
    <2> HIDE DEF S, old, new
    <2>6. Total(new, S) = Total(old, S) + new[i] - old[i]
      BY <2>2, <2>3, <2>4, TotalChange
    <2>7. NetPaid(j)' = NetPaid(j) + m - Net[i]
      BY <2>1, <2>4, <2>6 DEF old
    <2>8. NetPaid(j)' >= 0 /\ NetPaid(j)' \in Int
      BY <2>5, <2>7
    <2> QED BY <2>5, <2>7, <2>8 DEF PaidFor
  <1> QED BY <1>0, <1>1, <1>2, <1>3 DEF Paid

(* A job that is out of the books stays as it is for Bargain.               *)
LEMMA LostStays ==
  ASSUME IntentInv, IntentInv', NEW i \in Intents, Lost[JobOf[i]], forgotten' = forgotten,
         \A k \in Intents \ {i} : Net'[k] = Net[k]
  PROVE  Paid' = Paid
  <1>1. \A p \in Jobs : Unbooked(p)' = Unbooked(p)
    BY DEF Unbooked, IntentsOf
  <1>2. ASSUME NEW p \in Jobs, p # JobOf[i] PROVE PaidFor(p)' = PaidFor(p)
    <2>1. \A k \in IntentsOf(p) : Net'[k] = Net[k]
      BY <1>2 DEF IntentsOf
    <2> QED BY <2>1, OthersUnpaid
  <1>3. JobOf[i] \in Jobs /\ Unbooked(JobOf[i])
    BY JobPaymentsAssumption DEF Lost
  <1> QED BY <1>1, <1>2, <1>3 DEF Paid

(* Credit is a payment of the whole intent, or nothing when the intent had  *)
(* been credited before.                                                   *)
LEMMA CreditPays ==
  ASSUME BargainInv, NEW i \in Intents, Credit(i), UNCHANGED jobVars
  PROVE  IntentInv' /\ [TheBargain!Next]_(TheBargain!vars)
  <1> DEFINE j == JobOf[i]
             m == amount[i] - refunded[i]
  <1>0. /\ IntentInv /\ JobsInv /\ IntentOK(i) /\ amount[i] \in Nat /\ refunded[i] \in Nat
        /\ j \in Jobs /\ m \in Nat
    BY JobPaymentsAssumption DEF BargainInv, IntentInv, PayTypes, IntentOK
  <1>1. NetMoves(i, m) /\ refunded' = refunded
    BY <1>0, CreditStep
  <1>2. Agreed' = Agreed /\ Done' = Done /\ Back' = Back /\ Lost' = Lost
    BY <1>1, BooksStay DEF jobVars, priceVars, Agreed, Done, NetMoves
  <1>3. CASE Lost[j]
    <2>1. \A k \in Intents \ {i} : Net'[k] = Net[k]
      BY <1>1 DEF NetMoves, Net
    <2>2. Paid' = Paid
      BY <1>0, <1>1, <1>3, <2>1, LostStays DEF NetMoves
    <2> QED BY <1>1, <1>2, <2>2, NothingNew DEF NetMoves
  <1>4. CASE ~Lost[j] /\ m = Net[i]
    <2>1. Paid' = [Paid EXCEPT ![j] = @ + m - Net[i]]
      BY <1>0, <1>1, <1>4, PaidMoves
    <2>2. Paid[j] = PaidFor(j) /\ PaidFor(j) \in Nat
      BY <1>0, <1>4, PaidType DEF Paid, Lost
    <2>3. Paid[j] + m - Net[i] = Paid[j]
      BY <1>0, <1>4, <2>2
    <2>4. Paid' = Paid
      BY <2>1, <2>3 DEF Paid
    <2> QED BY <1>1, <1>2, <2>4, NothingNew DEF NetMoves
  <1>5. CASE ~Lost[j] /\ m # Net[i]
    <2>1. intent[i] \notin Confirmed /\ refunded[i] = 0 /\ Net[i] = 0 /\ m = amount[i]
      <3>1. i \notin forgotten
        BY <1>0, <1>5 DEF Lost, Unbooked, IntentsOf
      <3> QED BY <1>0, <1>5, <3>1 DEF Net, IntentOK
    <2>2. status[j] = "completed"
      BY DEF Credit, PayableNow
    <2>3. Agreed[j] = finalPrice[j] /\ Payable(j) = finalPrice[j] /\ finalPrice[j] \in Nat
      BY <1>0, <2>2, CompletedHasPrice, ServiceJobsAssumption DEF Agreed, Payable
    <2>4. m <= Payable(j) - PaidFor(j)
      BY <2>1 DEF Credit, FitsBalance, Outstanding
    <2>5. Paid[j] = PaidFor(j) /\ PaidFor(j) \in Nat
      BY <1>0, <1>5, PaidType DEF Paid, Lost
    <2>6. m \in 1..(Agreed[j] - Paid[j])
      BY <1>0, <1>5, <2>1, <2>3, <2>4, <2>5
    <2>7. Paid' = [Paid EXCEPT ![j] = @ + m]
      <3>1. Paid' = [Paid EXCEPT ![j] = @ + m - Net[i]]
        BY <1>0, <1>1, <1>5, PaidMoves
      <3>2. Paid[j] + m - Net[i] = Paid[j] + m
        BY <1>0, <2>1, <2>5
      <3> QED BY <3>1, <3>2
    <2>8. TheBargain!Pay(j)
      <3>1. Done[j]
        BY <1>0, <2>2 DEF Done
      <3> HIDE DEF j, m
      <3> QED BY <1>2, <1>5, <2>6, <2>7, <3>1
          DEF TheBargain!Pay, Agreed, Done, Paid, Back, Lost
    <2> QED BY <1>0, <1>1, <2>8 DEF NetMoves, TheBargain!Next
  <1> QED BY <1>3, <1>4, <1>5

(* A refund takes back what is in the books, and nothing of a job that is   *)
(* out of them already.                                                    *)
LEMMA RefundPaysBack ==
  ASSUME BargainInv, NEW i \in Intents, NEW n \in 1..amount[i], Refund(i, n), UNCHANGED jobVars
  PROVE  IntentInv' /\ [TheBargain!Next]_(TheBargain!vars)
  <1> DEFINE j == JobOf[i]
  <1>0. /\ IntentInv /\ amount[i] \in Nat /\ n \in Nat /\ n > 0 /\ j \in Jobs
        /\ refunded \in [Intents -> Nat]
    BY JobPaymentsAssumption DEF BargainInv, IntentInv, PayTypes
  <1>1. /\ IntentInv' /\ forgotten' = forgotten
        /\ refunded' = [refunded EXCEPT ![i] = @ + n]
        /\ \A k \in Intents \ {i} : Net'[k] = Net[k]
        /\ i \notin forgotten => NetMoves(i, Net[i] - n) /\ n <= Net[i]
    BY <1>0, RefundStep
  <1>2. Agreed' = Agreed /\ Done' = Done /\ Lost' = Lost
    BY <1>1 DEF jobVars, priceVars, Agreed, Done, Lost, Unbooked, IntentsOf
  <1>3. Back' = [Back EXCEPT ![j] = TRUE]
    <2>1. ASSUME NEW p \in Jobs PROVE Back'[p] = IF p = j THEN TRUE ELSE Back[p]
      <3>1. CASE p = j
        <4>1. refunded'[i] > 0 /\ i \in IntentsOf(p)
          BY <1>0, <1>1, <3>1 DEF IntentsOf
        <4> QED BY <3>1, <4>1 DEF Back, IntentsOf
      <3>2. CASE p # j
        <4>1. \A k \in IntentsOf(p) : refunded'[k] = refunded[k]
          BY <1>0, <1>1, <3>2 DEF IntentsOf
        <4> QED BY <3>2, <4>1 DEF Back, IntentsOf
      <3> QED BY <3>1, <3>2
    <2> QED BY <2>1 DEF Back
  <1>4. CASE Lost[j]
    <2>1. Paid' = Paid
      BY <1>0, <1>1, <1>4, LostStays
    <2>2. Back[j]
      <3>1. PICK k \in IntentsOf(j) : k \in forgotten
        BY <1>0, <1>4 DEF Lost, Unbooked
      <3>2. IntentOK(k)
        BY <1>0, <3>1 DEF IntentInv, IntentsOf
      <3> QED BY <1>0, <3>1, <3>2 DEF Back, IntentOK
    <2>3. Back' = Back
      BY <1>3, <2>2 DEF Back
    <2> QED BY <1>1, <1>2, <2>1, <2>3, NothingNew
  <1>5. CASE ~Lost[j]
    <2>1. ~Unbooked(j) /\ i \in IntentsOf(j) /\ i \notin forgotten
      BY <1>0, <1>5 DEF Lost, Unbooked, IntentsOf
    <2>2. Paid[j] = PaidFor(j) /\ PaidFor(j) \in Nat /\ Net[i] \in Nat /\ Net[i] <= PaidFor(j)
      BY <1>0, <2>1, BookedSum DEF Paid
    <2>3. Paid' = [Paid EXCEPT ![j] = @ - n]
      <3>1. Net[i] - n \in Nat /\ NetMoves(i, Net[i] - n)
        BY <1>0, <1>1, <2>1, <2>2
      <3>2. Paid' = [Paid EXCEPT ![j] = @ + (Net[i] - n) - Net[i]]
        BY <1>0, <1>5, <3>1, PaidMoves
      <3>3. Paid[j] + (Net[i] - n) - Net[i] = Paid[j] - n
        BY <1>0, <2>2
      <3> QED BY <3>2, <3>3
    <2>4. n \in 1..Paid[j]
      BY <1>0, <1>1, <2>1, <2>2
    <2>5. TheBargain!PayBack(j)
      <3> HIDE DEF j
      <3> QED BY <1>2, <1>3, <1>5, <2>3, <2>4
          DEF TheBargain!PayBack, Agreed, Done, Paid, Back, Lost
    <2> QED BY <1>0, <1>1, <2>5 DEF TheBargain!Next
  <1> QED BY <1>4, <1>5

(* A checkout's write to a refunded intent takes its job out of the books.  *)
LEMMA ForgetUnbooks ==
  ASSUME BargainInv, NEW i \in Intents, RecordCheckout(i), UNCHANGED jobVars,
         intent[i] \in {"partially_refunded", "refunded"}
  PROVE  IntentInv' /\ [TheBargain!Next]_(TheBargain!vars)
  <1> DEFINE j == JobOf[i]
  <1>0. IntentInv /\ j \in Jobs /\ i \in IntentsOf(j)
    BY JobPaymentsAssumption DEF BargainInv, IntentsOf
  <1>1. /\ IntentInv' /\ Net' = [Net EXCEPT ![i] = 0 - refunded[i]]
        /\ forgotten' = forgotten \cup {i} /\ refunded' = refunded /\ refunded[i] > 0
    BY <1>0, ForgetStep
  <1>2. Agreed' = Agreed /\ Done' = Done /\ Back' = Back
    BY <1>1 DEF jobVars, priceVars, Agreed, Done, Back, IntentsOf
  <1>3. Back[j]
    BY <1>0, <1>1 DEF Back
  <1>4. ASSUME NEW p \in Jobs
        PROVE  Unbooked(p)' = IF p = j THEN TRUE ELSE Unbooked(p)
    BY <1>0, <1>1 DEF Unbooked, IntentsOf
  <1>5. ASSUME NEW p \in Jobs, p # j PROVE PaidFor(p)' = PaidFor(p)
    <2>1. \A k \in IntentsOf(p) : Net'[k] = Net[k]
      BY <1>1, <1>5 DEF IntentsOf, Net
    <2> QED BY <1>0, <1>1, <2>1, OthersUnpaid
  <1> HIDE DEF j
  <1>6. Lost' = [Lost EXCEPT ![j] = TRUE]
    BY <1>0, <1>4 DEF Lost
  <1>7. Paid' = [Paid EXCEPT ![j] = 0]
    BY <1>0, <1>4, <1>5 DEF Paid
  <1>8. TheBargain!Unbook(j)
    BY <1>2, <1>3, <1>6, <1>7 DEF TheBargain!Unbook, Agreed, Done, Paid, Back, Lost
  <1> QED BY <1>0, <1>1, <1>8 DEF TheBargain!Next

-----------------------------------------------------------------------------
(* Of the steps of a job, an accepted quote sets its price and its          *)
(* completion makes it final; no other touches either.                     *)
LEMMA JobBargains ==
  ASSUME BargainInv, NEW j \in Jobs, JobStep(j), UNCHANGED payVars
  PROVE  Unfinished' /\ [TheBargain!Next]_(TheBargain!vars)
  <1>0. JobsInv /\ JobsTypeOK /\ Unfinished /\ IntentInv
    BY DEF BargainInv, JobsInv
  <1>1. Paid' = Paid /\ Back' = Back /\ Lost' = Lost
    <2>1. UNCHANGED <<intent, amount, refunded, forgotten>>
      BY DEF payVars, intentVars
    <2> QED BY <2>1 DEF Paid, PaidFor, NetPaid, Credited, IntentsOf, Unbooked, Back, Lost
  <1>2. CASE \E k \in Versions : AcceptQuote(j, k)
    <2> PICK k \in Versions : AcceptQuote(j, k)
      BY <1>2
    <2>1. Is(quote[j][k], "sent") /\ status[j] # "completed"
      BY DEF AcceptQuote, Answerable, Underway
    <2>2. PICK total \in Totals : total = quote[j][k].total
      <3>1. quote[j][k] \in QuoteRows
        BY <1>0, <2>1, Fields DEF Is
      <3> QED BY <3>1 DEF QuoteRows
    <2>3. finalPrice' = finalPrice /\ agreedTotal' = [agreedTotal EXCEPT ![j] = total]
      BY <2>2 DEF AcceptQuote
    <2>4. status' = status \/ status' = [status EXCEPT ![j] = "accepted"]
      BY <1>0 DEF AcceptQuote, JobsTypeOK
    <2>5. Done' = Done /\ ~Done[j]
      BY <1>0, <2>1, <2>4 DEF Done, JobsTypeOK
    <2>6. finalPrice[j] = Null
      BY <1>0, <2>1 DEF Unfinished
    <2>7. Agreed' = [Agreed EXCEPT ![j] = total]
      BY <1>0, <2>3, <2>6 DEF Agreed, JobsTypeOK
    <2>8. TheBargain!Agree(j, total)
      BY <1>1, <2>5, <2>7 DEF TheBargain!Agree, Agreed, Done, Paid, Back, Lost
    <2>9. Unfinished'
      <3>1. \A p \in Jobs : status'[p] = "completed" <=> status[p] = "completed"
        BY <1>0, <2>1, <2>4 DEF JobsTypeOK
      <3> QED BY <1>0, <2>3, <3>1 DEF Unfinished
    <2> QED BY <2>8, <2>9 DEF TheBargain!Next
  <1>3. CASE CompleteJob(j)
    <2>1. /\ status[j] = "in_progress" /\ agreedTotal[j] # Null
          /\ status' = [status EXCEPT ![j] = "completed"]
          /\ finalPrice' = [finalPrice EXCEPT ![j] = agreedTotal[j]]
          /\ agreedTotal' = agreedTotal
      BY <1>3 DEF CompleteJob
    <2>2. finalPrice[j] = Null
      BY <1>0, <2>1 DEF Unfinished
    <2>3. Agreed' = Agreed /\ Agreed[j] # Null
      BY <1>0, <2>1, <2>2 DEF Agreed, JobsTypeOK
    <2>4. Done' = [Done EXCEPT ![j] = TRUE]
      BY <1>0, <2>1 DEF Done, JobsTypeOK
    <2>5. TheBargain!Finish(j)
      BY <1>1, <2>3, <2>4 DEF TheBargain!Finish, Agreed, Done, Paid, Back, Lost
    <2>6. Unfinished'
      BY <1>0, <2>1 DEF Unfinished, JobsTypeOK
    <2> QED BY <2>5, <2>6 DEF TheBargain!Next
  <1>4. CASE ~(\E k \in Versions : AcceptQuote(j, k)) /\ ~CompleteJob(j)
    <2>1. finalPrice' = finalPrice /\ agreedTotal' = agreedTotal
      BY <1>4 DEF JobStep, AskForJob, SendQuote, QuoteLapses, FindExpired, TurnDownQuote,
                  ReportStatus, ConfirmCompletion, priceVars
    <2>2. \A p \in Jobs : status'[p] = "completed" <=> status[p] = "completed"
      BY <1>0, <1>4
      DEF JobsTypeOK, JobStep, AskForJob, SendQuote, QuoteLapses, FindExpired, TurnDownQuote,
          Withdraw, Answerable, ReportStatus, Steps, ConfirmCompletion, Unpriced, Underway
    <2>3. Agreed' = Agreed /\ Done' = Done
      BY <2>1, <2>2 DEF Agreed, Done
    <2>4. Unfinished'
      BY <1>0, <2>1, <2>2 DEF Unfinished
    <2> QED BY <1>1, <2>3, <2>4, NothingNew
  <1> QED BY <1>2, <1>3, <1>4

LEMMA BargainStep ==
  ASSUME BargainInv, [Next]_vars
  PROVE  BargainInv' /\ [TheBargain!Next]_(TheBargain!vars)
  <1>0. JobsInv /\ JobsTypeOK /\ Unfinished /\ IntentInv
    BY DEF BargainInv, JobsInv
  <1>1. JobsInv'
    BY <1>0, StepInv
  <1>2. ASSUME UNCHANGED jobVars, Quiet
        PROVE  BargainInv' /\ [TheBargain!Next]_(TheBargain!vars)
    <2>1. Agreed' = Agreed /\ Done' = Done /\ Unfinished'
      BY <1>0, <1>2 DEF jobVars, priceVars, Agreed, Done, Unfinished
    <2>2. Paid' = Paid /\ Back' = Back /\ Lost' = Lost
      BY <1>0, <1>2, PaidStays, BooksStay DEF Quiet
    <2> QED BY <1>1, <1>2, <2>1, <2>2, NothingNew DEF BargainInv, Quiet
  <1>3. CASE \E j \in Jobs : JobStep(j) /\ UNCHANGED payVars
    <2>1. Unfinished' /\ [TheBargain!Next]_(TheBargain!vars)
      BY <1>3, JobBargains
    <2>2. IntentInv'
      BY <1>0, <1>3
      DEF IntentInv, PayTypes, IntentOK, CreatesOwn, payVars, intentVars, webhookVars
    <2> QED BY <1>1, <2>1, <2>2 DEF BargainInv
  <1>4. CASE \E j \in Jobs : EndIntent(j)
    <2>1. UNCHANGED jobVars
      BY <1>4 DEF EndIntent
    <2>2. Quiet
      BY <1>0, <1>4, EndIntentStep
    <2> QED BY <1>2, <2>1, <2>2
  <1>5. ASSUME NEW i \in Intents, CustomerStep(i)
        PROVE  BargainInv' /\ [TheBargain!Next]_(TheBargain!vars)
    <2>1. UNCHANGED jobVars
      BY <1>5 DEF CustomerStep, BeginIntent, IntentLapses, BeginCheckout, RecordCheckout,
                  CustomerPays, Refund
    <2>2. Unfinished'
      BY <1>0, <2>1 DEF jobVars, priceVars, Unfinished
    <2>3. CASE \E n \in 1..amount[i] : Refund(i, n)
      <3>1. IntentInv' /\ [TheBargain!Next]_(TheBargain!vars)
        BY <2>1, <2>3, RefundPaysBack
      <3> QED BY <1>1, <2>2, <3>1 DEF BargainInv
    <2>4. CASE RecordCheckout(i) /\ intent[i] \in {"partially_refunded", "refunded"}
      <3>1. IntentInv' /\ [TheBargain!Next]_(TheBargain!vars)
        BY <2>1, <2>4, ForgetUnbooks
      <3> QED BY <1>1, <2>2, <3>1 DEF BargainInv
    <2>5. CASE /\ ~\E n \in 1..amount[i] : Refund(i, n)
               /\ ~(RecordCheckout(i) /\ intent[i] \in {"partially_refunded", "refunded"})
      <3>1. Quiet
        BY <1>0, <1>5, <2>5, BeginIntentStep, LapsesStep, BeginCheckoutStep, RecordStep,
           CustomerPaysStep DEF CustomerStep
      <3> QED BY <1>2, <2>1, <3>1
    <2> QED BY <2>3, <2>4, <2>5
  <1>6. ASSUME NEW i \in Intents, WebhookStep(i)
        PROVE  BargainInv' /\ [TheBargain!Next]_(TheBargain!vars)
    <2>1. UNCHANGED jobVars
      BY <1>6 DEF WebhookStep, Deliver, HoldUnclear, LockIntent, FindDuplicate, Credit,
                  HoldForReview, Commit, AbortWebhook, AbortIntent, MarkFailed
    <2>2. CASE Credit(i)
      <3>1. IntentInv' /\ [TheBargain!Next]_(TheBargain!vars)
        BY <2>1, <2>2, CreditPays
      <3>2. Unfinished'
        BY <1>0, <2>1 DEF jobVars, priceVars, Unfinished
      <3> QED BY <1>1, <3>1, <3>2 DEF BargainInv
    <2>3. CASE ~Credit(i)
      <3>1. Quiet
        BY <1>0, <1>6, <2>3, WebhookOpens, WebhookEnds, LocksFreed DEF WebhookStep
      <3> QED BY <1>2, <2>1, <3>1
    <2> QED BY <2>2, <2>3
  <1>7. CASE Restart
    <2>1. UNCHANGED jobVars
      BY <1>7 DEF Restart
    <2>2. Quiet
      BY <1>0, <1>7, LocksFreed
    <2> QED BY <1>2, <2>1, <2>2
  <1>8. CASE UNCHANGED vars
    <2>1. UNCHANGED jobVars
      BY <1>8 DEF vars
    <2>2. Quiet
      BY <1>0, <1>8 DEF vars, payVars, intentVars, webhookVars, Quiet, Net, IntentInv, PayTypes,
                        IntentOK, CreatesOwn
    <2> QED BY <1>2, <2>1, <2>2
  <1> QED BY <1>3, <1>4, <1>5, <1>6, <1>7, <1>8 DEF Next

(* Whatever quotes, change orders, overlapping webhooks and checkout calls, *)
(* lapsed intents, restarts and refunds do, JobPayments implements Bargain, *)
(* a late checkout write to a refunded intent being its Unbook: for any     *)
(* jobs, totals and intents.                                               *)
THEOREM JobsKeepBargain == Spec => KeepsBargain
  <1>1. Init => BargainInv /\ TheBargain!Init
    BY InitBargain
  <1>2. BargainInv /\ [Next]_vars => BargainInv' /\ [TheBargain!Next]_(TheBargain!vars)
    BY BargainStep
  <1> QED BY <1>1, <1>2, PTL DEF Spec, KeepsBargain, TheBargain!Spec

(* Types of Bargain's state.                                                *)
Priced == \A j \in Jobs : Paid[j] \in Nat /\ (Done[j] => Agreed[j] \in Nat)

(* Invariant of Bargain: nothing is paid before the work is done, and no    *)
(* more than its price afterwards.                                         *)
Covered == \A j \in Jobs : Paid[j] <= IF Done[j] THEN Agreed[j] ELSE 0

LEMMA BargainPriced == BargainInv => Priced
  <1> SUFFICES ASSUME BargainInv, NEW j \in Jobs
               PROVE  Paid[j] \in Nat /\ (Done[j] => Agreed[j] \in Nat)
    BY DEF Priced
  <1>1. Paid[j] \in Nat
    BY PaidType DEF BargainInv, Paid, Lost
  <1>2. Done[j] => Agreed[j] \in Nat
    BY CompletedHasPrice, ServiceJobsAssumption DEF BargainInv, Done, Agreed
  <1> QED BY <1>1, <1>2

LEMMA CoveredStep ==
  ASSUME Priced, Priced', Covered, [TheBargain!Next]_(TheBargain!vars)
  PROVE  Covered'
  <1> SUFFICES ASSUME NEW p \in Jobs
               PROVE  Paid'[p] <= IF Done'[p] THEN Agreed'[p] ELSE 0
    BY DEF Covered
  <1>0. /\ Paid[p] \in Nat /\ (Done[p] => Agreed[p] \in Nat)
        /\ Paid'[p] \in Nat /\ (Done'[p] => Agreed'[p] \in Nat)
        /\ Paid[p] <= IF Done[p] THEN Agreed[p] ELSE 0
    BY DEF Priced, Covered
  <1>1. CASE UNCHANGED <<Agreed, Done, Paid, Back, Lost>>
    BY <1>0, <1>1
  <1>2. ASSUME NEW j \in Jobs, NEW t \in Totals, TheBargain!Agree(j, t)
        PROVE  Paid'[p] <= IF Done'[p] THEN Agreed'[p] ELSE 0
    <2>1. ~Done[j] /\ Agreed' = [Agreed EXCEPT ![j] = t] /\ Done' = Done /\ Paid' = Paid
      BY <1>2 DEF TheBargain!Agree, Agreed, Done, Paid, Back, Lost
    <2>2. Done[p] => Agreed'[p] = Agreed[p]
      BY <2>1 DEF Agreed
    <2> QED BY <1>0, <2>1, <2>2
  <1>3. ASSUME NEW j \in Jobs, TheBargain!Finish(j)
        PROVE  Paid'[p] <= IF Done'[p] THEN Agreed'[p] ELSE 0
    <2>1. Done' = [Done EXCEPT ![j] = TRUE] /\ Agreed' = Agreed /\ Paid' = Paid
      BY <1>3 DEF TheBargain!Finish, Agreed, Done, Paid, Back, Lost
    <2> QED BY <1>0, <2>1
  <1>4. ASSUME NEW j \in Jobs, TheBargain!Pay(j)
        PROVE  Paid'[p] <= IF Done'[p] THEN Agreed'[p] ELSE 0
    <2>1. /\ Done[j] /\ Done' = Done /\ Agreed' = Agreed
          /\ \E n \in 1..(Agreed[j] - Paid[j]) : Paid' = [Paid EXCEPT ![j] = @ + n]
      BY <1>4 DEF TheBargain!Pay, Agreed, Done, Paid, Back, Lost
    <2>2. PICK n \in 1..(Agreed[j] - Paid[j]) : Paid' = [Paid EXCEPT ![j] = @ + n]
      BY <2>1
    <2>3. Paid'[p] = IF p = j THEN Paid[p] + n ELSE Paid[p]
      BY <2>2 DEF Paid
    <2> QED BY <1>0, <2>1, <2>2, <2>3
  <1>5. ASSUME NEW j \in Jobs, TheBargain!PayBack(j)
        PROVE  Paid'[p] <= IF Done'[p] THEN Agreed'[p] ELSE 0
    <2>1. /\ Done' = Done /\ Agreed' = Agreed
          /\ \E n \in 1..Paid[j] : Paid' = [Paid EXCEPT ![j] = @ - n]
      BY <1>5 DEF TheBargain!PayBack, Agreed, Done, Paid, Back, Lost
    <2>2. PICK n \in 1..Paid[j] : Paid' = [Paid EXCEPT ![j] = @ - n]
      BY <2>1
    <2>3. Paid'[p] = IF p = j THEN Paid[p] - n ELSE Paid[p]
      BY <2>2 DEF Paid
    <2> QED BY <1>0, <2>1, <2>2, <2>3
  <1>6. ASSUME NEW j \in Jobs, TheBargain!Unbook(j)
        PROVE  Paid'[p] <= IF Done'[p] THEN Agreed'[p] ELSE 0
    <2>1. Done' = Done /\ Agreed' = Agreed /\ Paid' = [Paid EXCEPT ![j] = 0]
      BY <1>6 DEF TheBargain!Unbook, Agreed, Done, Paid, Back, Lost
    <2>2. Paid'[p] = IF p = j THEN 0 ELSE Paid[p]
      BY <2>1 DEF Paid
    <2> QED BY <1>0, <2>1, <2>2
  <1>7. TheBargain!Next \/ UNCHANGED <<Agreed, Done, Paid, Back, Lost>>
    BY DEF TheBargain!vars, Agreed, Done, Paid, Back, Lost
  <1> QED BY <1>1, <1>2, <1>3, <1>4, <1>5, <1>6, <1>7 DEF TheBargain!Next

(* What is paid for a job, less what was paid back, is nothing before it is *)
(* completed and never more than its final price afterwards, until a       *)
(* checkout's late write takes a refunded payment of the job out of the    *)
(* books: from then on what the books show is not what was paid.           *)
NoJobOverpaid ==
    \A j \in Jobs : ~Unbooked(j) =>
        PaidFor(j) <= IF status[j] = "completed" THEN finalPrice[j] ELSE 0

(* Credits, of intents that lapsed or were reopened too, and refunds and    *)
(* checkout writes in any order never take more for a job than that.       *)
THEOREM JobsNeverOverpaid == Spec => []NoJobOverpaid
  <1>1. Init => BargainInv /\ Covered
    <2> SUFFICES ASSUME Init PROVE BargainInv /\ Covered
      OBVIOUS
    <2>1. BargainInv /\ TheBargain!Init
      BY InitBargain
    <2>2. \A j \in Jobs : Paid[j] = 0 /\ ~Done[j]
      BY <2>1 DEF TheBargain!Init, Init, InitJobs, Paid, Done
    <2> QED BY <2>1, <2>2 DEF Covered
  <1>2. BargainInv /\ [Next]_vars => BargainInv' /\ [TheBargain!Next]_(TheBargain!vars)
    BY BargainStep
  <1>3. BargainInv => Priced
    BY BargainPriced
  <1>4. Priced /\ Priced' /\ Covered /\ [TheBargain!Next]_(TheBargain!vars) => Covered'
    BY CoveredStep
  <1>5. BargainInv /\ Covered => NoJobOverpaid
    <2> SUFFICES ASSUME BargainInv, Covered, NEW j \in Jobs, ~Unbooked(j)
                 PROVE  PaidFor(j) <= IF status[j] = "completed" THEN finalPrice[j] ELSE 0
      BY DEF NoJobOverpaid
    <2>1. CASE status[j] = "completed"
      BY <2>1, CompletedHasPrice DEF BargainInv, Covered, Paid, Done, Agreed
    <2>2. CASE status[j] # "completed"
      BY <2>2 DEF Covered, Paid, Done
    <2> QED BY <2>1, <2>2
  <1> QED BY <1>1, <1>2, <1>3, <1>4, <1>5, PTL DEF Spec
=============================================================================
