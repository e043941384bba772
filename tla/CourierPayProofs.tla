-------------------------- MODULE CourierPayProofs ---------------------------
(***************************************************************************)
(* Courier pay, for every number of orders, intents, refunds, workers and   *)
(* reported completions: it leaves payments and refunds as they were, so    *)
(* what is proved of Refunds holds here; its rows keep their types; a       *)
(* reversed share stays as it is; and, where completions and refunds of an  *)
(* order do not overlap, a refund leaves no share eligible.                *)
(***************************************************************************)
EXTENDS CourierPay, PaymentsProofs

(* Every step is a step of Refunds or leaves its variables alone.           *)
LEMMA PayStepIsRefundStep == [PayNext]_payAllVars => [RefundsNext]_allVars
  <1> SUFFICES ASSUME [PayNext]_payAllVars PROVE [RefundsNext]_allVars
    OBVIOUS
  <1>1. CASE UNCHANGED payAllVars
    BY <1>1 DEF payAllVars
  <1>2. CASE PaymentStep \/ (\E r \in RefundIds : RefundStep(r))
    BY <1>2 DEF RefundsNext
  <1>3. ASSUME NEW w \in Workers, Execution(w) PROVE RefundsNext
    BY <1>3 DEF Execution, WorkerStep, RefundsNext
  <1>4. ASSUME NEW w \in Workers, ReviewStep(w) PROVE [RefundsNext]_allVars
    <2>1. CASE CloseAndReview(w)
      BY <2>1 DEF CloseAndReview, WorkerStep, RefundsNext
    <2>2. CASE ~CloseAndReview(w)
      BY <1>4, <2>2
      DEF ReviewStep, ReviewAgain, ReadPosition, ReadShares, SettleShare, ReviewFails
    <2> QED BY <2>1, <2>2
  <1>5. ASSUME NEW o \in Orders, DeliveryStep(o) PROVE UNCHANGED allVars
    BY <1>5 DEF DeliveryStep, BeginCompletion, ReadEvidence, CommitCompletion, AbortCompletion
  <1>6. CASE RestartEverything
    BY <1>6 DEF RestartEverything, RefundsNext
  <1> QED BY <1>1, <1>2, <1>3, <1>4, <1>5, <1>6 DEF PayNext

(* Courier pay, with its own transactions and statements, implements        *)
(* Refunds: whatever holds of payments and refunds alone still does.        *)
THEOREM PayKeepsRefunds == PaySpec => RefundsSpec
  <1>1. PayInit => RefundsInit
    BY DEF PayInit
  <1> QED BY <1>1, PayStepIsRefundStep, PTL DEF PaySpec, RefundsSpec

(* So, deliveries and their economics under way or not, no order is         *)
(* credited more than it costs or anything its rows do not show, no intent  *)
(* twice, nothing credited is under review, no refund is on record that the *)
(* provider has not made, and none is complete that it has not completed.   *)
THEOREM PayKeepsPayments ==
    PaySpec => [](NeverOverpaid /\ PaidIsEvidenced /\ CreditedOnce /\ ReviewedNotCredited
                  /\ RefundsAreReal /\ RefundedIsRepaid)
  BY PayKeepsRefunds, RefundsKeepPayments, NoInventedRefund, RefundedMeansRepaid, PTL

-----------------------------------------------------------------------------
CompletionRow == [at : {"idle", "unrefunded", "evidenced"}, basis : SUBSET (Nat \ {0})]
ReviewRow == [intent : Intents \cup {"none"}, at : {"idle", "due", "position", "shares"},
              full : BOOLEAN, left : SUBSET PayRow]

PayTables ==
    /\ pay \subseteq PayRow
    /\ completing \in [Orders -> CompletionRow]
    /\ completed \in [Orders -> Nat]
    /\ review \in [Workers -> ReviewRow]
    /\ audited \subseteq Intents

(* A reconciliation is of an intent, and none of the shares it has read was *)
(* reversed.                                                               *)
ReviewsOpen == \A w \in Workers :
    /\ review[w] # NoReview => review[w].intent \in Intents
    /\ \A x \in review[w].left : x.status # "reversed"

PayInv == PayTables /\ ReviewsOpen

LEMMA InitPay == PayInit => PayInv
  BY DEF PayInit, PayInv, PayTables, ReviewsOpen, NotCompleting, NoReview, CompletionRow,
         ReviewRow

LEMMA UntouchedPay == PayInv /\ UNCHANGED payVars => PayInv'
  BY DEF PayInv, PayTables, ReviewsOpen, payVars, deliveryVars, reviewVars

LEMMA CompletionStep ==
  ASSUME TypeOK, PayInv, NEW o \in Orders, DeliveryStep(o)
  PROVE  PayInv'
  <1> USE DEF PayInv, PayTables
  <1>0. ASSUME UNCHANGED reviewVars PROVE ReviewsOpen' /\ review' = review /\ audited' = audited
    BY <1>0 DEF ReviewsOpen, reviewVars
  <1>1. ASSUME End(o) PROVE /\ completing' \in [Orders -> CompletionRow]
                            /\ completed' \in [Orders -> Nat]
    <2>1. completing' \in [Orders -> CompletionRow]
      BY <1>1 DEF End, NotCompleting, CompletionRow
    <2>2. completed' = [completed EXCEPT ![o] = @ + 1]
      BY <1>1 DEF End
    <2>3. completed' \in [Orders -> Nat]
      BY <2>2, Increment
    <2> QED BY <2>1, <2>3
  <1>2. CASE BeginCompletion(o)
    <2>1. UNCHANGED reviewVars /\ pay' = pay
      BY <1>2 DEF BeginCompletion
    <2>2. \/ End(o)
          \/ completing' = [completing EXCEPT ![o].at = "unrefunded"] /\ completed' = completed
      BY <1>2 DEF BeginCompletion
    <2>3. CASE ~End(o)
      BY <1>0, <2>1, <2>2, <2>3 DEF CompletionRow
    <2> QED BY <1>0, <1>1, <2>1, <2>3
  <1>3. CASE ReadEvidence(o)
    <2>1. UNCHANGED reviewVars /\ pay' = pay
      BY <1>3 DEF ReadEvidence
    <2>2. \/ End(o)
          \/ /\ completing' = [completing EXCEPT ![o] = [at |-> "evidenced", basis |-> Basis(o)]]
             /\ completed' = completed
      BY <1>3 DEF ReadEvidence
    <2>3. Basis(o) \in SUBSET (Nat \ {0})
      <3>1. rows[o] \in Seq(PaymentRow)
        BY DEF TypeOK
      <3>2. DOMAIN rows[o] \subseteq Nat \ {0}
        BY <3>1
      <3> QED BY <3>2 DEF Basis
    <2>4. CASE ~End(o)
      BY <1>0, <2>1, <2>2, <2>3, <2>4 DEF CompletionRow
    <2> QED BY <1>0, <1>1, <2>1, <2>4
  <1>4. CASE CommitCompletion(o)
    <2>1. UNCHANGED reviewVars /\ End(o) /\ pay' = pay \cup Earned(o)
      BY <1>4 DEF CommitCompletion
    <2>2. completing[o].basis \in SUBSET (Nat \ {0})
      BY DEF CompletionRow
    <2>3. Earned(o) \subseteq PayRow
      BY <2>2 DEF Earned, PayRow
    <2> QED BY <1>0, <1>1, <2>1, <2>3
  <1>5. CASE AbortCompletion(o)
    BY <1>0, <1>5 DEF AbortCompletion, NotCompleting, CompletionRow
  <1> QED BY <1>2, <1>3, <1>4, <1>5 DEF DeliveryStep

LEMMA ReconciliationStep ==
  ASSUME RefundInv, PayInv, NEW w \in Workers, ReviewStep(w)
  PROVE  PayInv'
  <1> USE DEF PayInv, PayTables
  <1>0. ASSUME NEW i \in Intents, Reviewing(w, i)
        PROVE  review' \in [Workers -> ReviewRow] /\ ReviewsOpen'
    BY <1>0 DEF Reviewing, ReviewsOpen, NoReview, ReviewRow
  <1>1. ASSUME Reviewed(w) PROVE review' \in [Workers -> ReviewRow] /\ ReviewsOpen'
    BY <1>1 DEF Reviewed, ReviewsOpen, NoReview, ReviewRow
  <1>2. CASE CloseAndReview(w)
    <2>1. work[w].refund \in RefundIds
      BY <1>2 DEF CloseAndReview, CloseRefund, RefundInv, Working
    <2>2. RefundOf[work[w].refund] \in Intents
      BY <2>1, RefundsAssumption
    <2>3. Reviewing(w, RefundOf[work[w].refund]) /\ UNCHANGED <<pay, deliveryVars, audited>>
      BY <1>2 DEF CloseAndReview
    <2> QED BY <1>0, <2>2, <2>3 DEF deliveryVars
  <1>3. ASSUME NEW r \in RefundIds, ReviewAgain(w, r) PROVE PayInv'
    <2>1. RefundOf[r] \in Intents
      BY RefundsAssumption
    <2> QED BY <1>0, <1>3, <2>1 DEF ReviewAgain, deliveryVars
  <1>4. CASE ReadPosition(w)
    <2>1. UNCHANGED <<pay, deliveryVars, audited>>
      BY <1>4 DEF ReadPosition
    <2> DEFINE whole == FullyRefunded(review[w].intent)
    <2>a. whole \in BOOLEAN
      BY DEF FullyRefunded
    <2>b. \/ Reviewed(w)
          \/ review' = [review EXCEPT ![w].at = "position", ![w].full = whole]
      BY <1>4 DEF ReadPosition
    <2> HIDE DEF whole
    <2>2. \/ Reviewed(w)
          \/ \E b \in BOOLEAN : review' = [review EXCEPT ![w].at = "position", ![w].full = b]
      BY <2>a, <2>b
    <2>3. ASSUME NEW b \in BOOLEAN,
                 review' = [review EXCEPT ![w].at = "position", ![w].full = b]
          PROVE  review' \in [Workers -> ReviewRow] /\ ReviewsOpen'
      <3>1. review' \in [Workers -> ReviewRow]
        BY <2>3 DEF ReviewRow
      <3>2. review[w] # NoReview
        BY <1>4 DEF ReadPosition, NoReview
      <3>3. ReviewsOpen'
        BY <2>3, <3>2 DEF ReviewsOpen, ReviewRow
      <3> QED BY <3>1, <3>3
    <2> QED BY <1>1, <2>1, <2>2, <2>3 DEF deliveryVars
  <1>5. CASE ReadShares(w)
    <2> DEFINE shares == Unreversed(review[w].intent)
    <2>1. UNCHANGED <<pay, deliveryVars, audited>>
      BY <1>5 DEF ReadShares
    <2>2. \/ Reviewed(w)
          \/ review' = [review EXCEPT ![w].at = "shares", ![w].left = shares]
      BY <1>5 DEF ReadShares
    <2>3. shares \subseteq PayRow /\ \A x \in shares : x.status # "reversed"
      BY DEF Unreversed, PayFrom, PayOf
    <2> HIDE DEF shares
    <2>4. ASSUME review' = [review EXCEPT ![w].at = "shares", ![w].left = shares]
          PROVE  review' \in [Workers -> ReviewRow] /\ ReviewsOpen'
      <3>1. review' \in [Workers -> ReviewRow]
        BY <2>3, <2>4 DEF ReviewRow
      <3>2. review[w] # NoReview
        BY <1>5 DEF ReadShares, NoReview
      <3>3. ReviewsOpen'
        BY <2>3, <2>4, <3>2 DEF ReviewsOpen, ReviewRow
      <3> QED BY <3>1, <3>3
    <2> QED BY <1>1, <2>1, <2>2, <2>4 DEF deliveryVars
  <1>6. CASE SettleShare(w)
    <2>1. PICK x \in review[w].left :
            /\ pay' = IF x \in pay
                      THEN (pay \ {x}) \cup {[x EXCEPT !.status = Target(x, review[w].full)]}
                      ELSE pay
            /\ \/ Reviewed(w)
               \/ review' = [review EXCEPT ![w].left = @ \ {x}]
      BY <1>6 DEF SettleShare
    <2>2. UNCHANGED <<deliveryVars, audited>>
      BY <1>6 DEF SettleShare
    <2>3. Target(x, review[w].full) \in {"eligible", "manual_review", "reversed"}
      BY DEF Target
    <2>4. x \in pay => [x EXCEPT !.status = Target(x, review[w].full)] \in PayRow
      BY <2>3 DEF PayRow
    <2>5. pay' \subseteq PayRow
      BY <2>1, <2>4
    <2>6. ASSUME review' = [review EXCEPT ![w].left = @ \ {x}]
          PROVE  review' \in [Workers -> ReviewRow] /\ ReviewsOpen'
      <3>1. review' \in [Workers -> ReviewRow]
        BY <2>6 DEF ReviewRow
      <3>2. review[w] # NoReview
        BY <1>6 DEF SettleShare, NoReview
      <3>3. ReviewsOpen'
        BY <2>6, <3>2 DEF ReviewsOpen, ReviewRow
      <3> QED BY <3>1, <3>3
    <2> QED BY <1>1, <2>1, <2>2, <2>5, <2>6 DEF deliveryVars
  <1>7. CASE ReviewFails(w)
    <2>1. review[w].intent \in Intents
      BY <1>7 DEF ReviewFails, ReviewsOpen
    <2>2. audited' \subseteq Intents
      BY <1>7, <2>1 DEF ReviewFails
    <2>3. Reviewed(w) /\ UNCHANGED <<pay, deliveryVars>>
      BY <1>7 DEF ReviewFails
    <2> QED BY <1>1, <2>2, <2>3 DEF deliveryVars
  <1> QED BY <1>2, <1>3, <1>4, <1>5, <1>6, <1>7 DEF ReviewStep

LEMMA StepPay == TypeOK /\ RefundInv /\ PayInv /\ [PayNext]_payAllVars => PayInv'
  <1> SUFFICES ASSUME TypeOK, RefundInv, PayInv, [PayNext]_payAllVars PROVE PayInv'
    OBVIOUS
  <1>1. CASE UNCHANGED payVars
    BY <1>1, UntouchedPay
  <1>2. CASE RestartEverything
    <2>1. /\ completing' = [o \in Orders |-> NotCompleting]
          /\ review' = [v \in Workers |-> NoReview]
          /\ UNCHANGED <<pay, completed, audited>>
      BY <1>2 DEF RestartEverything
    <2> QED
      BY <2>1
      DEF PayInv, PayTables, ReviewsOpen, NotCompleting, NoReview, CompletionRow, ReviewRow
  <1>3. ASSUME NEW w \in Workers, Execution(w) PROVE UNCHANGED payVars
    BY <1>3 DEF Execution
  <1>4. CASE UNCHANGED payAllVars
    BY <1>1, <1>4 DEF payAllVars
  <1> QED
    BY <1>1, <1>2, <1>3, <1>4, CompletionStep, ReconciliationStep DEF PayNext

LEMMA PayInvariant == PaySpec => [](TypeOK /\ RefundInv /\ PayInv)
  <1>1. PaySpec => [](TypeOK /\ RefundInv)
    BY PayKeepsRefunds, RefundInvariant, PTL
  <1> QED BY <1>1, InitPay, StepPay, PTL DEF PaySpec

(* The allocations of deliveries and all that is under way for them keep    *)
(* their types, and so do payments and refunds beside them.                *)
THEOREM PayTypeCorrect == PaySpec => []PayTypeOK
  <1>1. PayInv /\ RefundsTypeOK => PayTypeOK
    BY DEF PayInv, PayTables, CompletionRow, ReviewRow, PayTypeOK
  <1> QED BY <1>1, PayInvariant, PayKeepsRefunds, RefundsTypeCorrect, PTL

(* A reversed share of a delivery is never taken up again.                  *)
THEOREM ReversalIsFinal == PaySpec => ReversalStands
  <1> DEFINE Stands == \A x \in pay : x.status = "reversed" => x \in pay'
  <1>1. PayInv /\ [PayNext]_payAllVars => [Stands]_payAllVars
    <2> SUFFICES ASSUME PayInv, PayNext, NEW x \in pay, x.status = "reversed" PROVE x \in pay'
      OBVIOUS
    <2>1. ASSUME NEW w \in Workers, SettleShare(w) PROVE x \in pay'
      BY <2>1 DEF SettleShare, PayInv, ReviewsOpen
    <2>2. ASSUME NEW w \in Workers, ReviewStep(w), ~SettleShare(w) PROVE pay' = pay
      BY <2>2
      DEF ReviewStep, CloseAndReview, ReviewAgain, ReadPosition, ReadShares, ReviewFails
    <2>3. ASSUME NEW o \in Orders, DeliveryStep(o) PROVE x \in pay'
      BY <2>3
      DEF DeliveryStep, BeginCompletion, ReadEvidence, CommitCompletion, AbortCompletion
    <2>4. ASSUME NEW w \in Workers, Execution(w) PROVE pay' = pay
      BY <2>4 DEF Execution, payVars
    <2>5. CASE RestartEverything
      BY <2>5 DEF RestartEverything
    <2>6. CASE UNCHANGED payVars
      BY <2>6 DEF payVars
    <2> QED BY <2>1, <2>2, <2>3, <2>4, <2>5, <2>6 DEF PayNext
  <1> QED BY <1>1, PayInvariant, PTL DEF PaySpec, ReversalStands

-----------------------------------------------------------------------------
(* What a share stands on stays: payment rows are only added, and keep      *)
(* their amount and the intent that wrote them.                            *)
Grown(s, t) ==
    /\ DOMAIN s \subseteq DOMAIN t
    /\ \A n \in DOMAIN s :
          /\ t[n].amount = s[n].amount
          /\ \A i \in Intents : t[n].intent = i <=> s[n].intent = i

Named(s, t) ==
    /\ t = [n \in DOMAIN s |-> t[n]]
    /\ \A n \in DOMAIN s :
          \/ t[n] = s[n]
          \/ s[n].intent = "none" /\ t[n] = [s[n] EXCEPT !.intent = "mirror"]

LEMMA NamedRows ==
  ASSUME NEW s \in Seq(PaymentRow), NEW t, Named(s, t)
  PROVE  Grown(s, t)
  <1> USE DEF Named
  <1>1. "none" \notin Intents /\ "mirror" \notin Intents
    BY PaymentsAssumption
  <1>2. DOMAIN t = DOMAIN s
    OBVIOUS
  <1>3. ASSUME NEW n \in DOMAIN s
        PROVE  /\ t[n].amount = s[n].amount
               /\ \A i \in Intents : t[n].intent = i <=> s[n].intent = i
    <2>1. s[n] \in PaymentRow
      BY ElementOfSeq, LenProperties
    <2> QED BY <1>1, <1>3, <2>1 DEF PaymentRow
  <1> QED BY <1>2, <1>3 DEF Grown

LEMMA AddedRow ==
  ASSUME TypeOK, NEW o \in Orders, NEW p \in Orders, NEW n \in Nat,
         NEW by \in Intents \cup {"none", "mirror"}, AddPayment(p, n, by)
  PROVE  Grown(rows[o], rows'[o])
  <1> DEFINE row == [amount |-> n, intent |-> by]
  <1>1. rows'[o] = rows[o] \/ rows'[o] = Append(rows[o], row)
    BY DEF AddPayment, TypeOK
  <1>2. rows[o] \in Seq(PaymentRow) /\ row \in PaymentRow
    BY DEF TypeOK, PaymentRow
  <1> HIDE DEF row
  <1>3. /\ DOMAIN rows[o] \subseteq DOMAIN Append(rows[o], row)
        /\ \A k \in DOMAIN rows[o] : Append(rows[o], row)[k] = rows[o][k]
    BY <1>2, AppendProperties, LenProperties
  <1> QED BY <1>1, <1>3 DEF Grown

LEMMA RowsGrow ==
  ASSUME TypeOK, [Next]_vars, NEW o \in Orders
  PROVE  Grown(rows[o], rows'[o])
  <1>0. rows[o] \in Seq(PaymentRow)
    BY DEF TypeOK
  <1>1. CASE rows' = rows
    BY <1>1 DEF Grown
  <1>2. ASSUME NEW p \in Orders, NEW n \in 1..OrderTotal[p], RecordPayment(p, n)
        PROVE  Grown(rows[o], rows'[o])
    <2>1. n \in Nat /\ AddPayment(p, n, "none")
      BY <1>2, PaymentsAssumption DEF RecordPayment
    <2> QED BY <2>1, AddedRow
  <1>3. ASSUME NEW p \in Orders, MirrorLatest(p) PROVE Grown(rows[o], rows'[o])
    <2>1. CASE o = p
      <3> DEFINE s == rows[o]
      <3>1. rows'[o] = [n \in DOMAIN s |->
              IF n = Len(s) /\ s[n].intent = "none"
              THEN [s[n] EXCEPT !.intent = "mirror"] ELSE s[n]]
        BY <1>3, <2>1 DEF MirrorLatest, TypeOK
      <3>a. s \in Seq(PaymentRow)
        BY <1>0
      <3> HIDE DEF s
      <3>2. Named(s, rows'[o])
        BY <3>1 DEF Named
      <3>3. Grown(s, rows'[o])
        BY <3>a, <3>2, NamedRows
      <3> QED BY <3>3 DEF s
    <2>2. CASE o # p
      BY <1>3, <2>2 DEF MirrorLatest, TypeOK, Grown
    <2> QED BY <2>1, <2>2
  <1>4. ASSUME NEW i \in Intents, Credit(i) PROVE Grown(rows[o], rows'[o])
    <2>1. SourceOrder[i] \in Orders /\ amount[i] \in Nat
      BY PaymentsAssumption DEF TypeOK
    <2>2. AddPayment(SourceOrder[i], amount[i], i)
      BY <1>4 DEF Credit
    <2>3. ASSUME NEW p \in Orders, NEW n \in Nat, AddPayment(p, n, i)
          PROVE  Grown(rows[o], rows'[o])
      BY <2>3, AddedRow
    <2> QED BY <2>1, <2>2, <2>3
  <1>5. CASE Restart
    <2> DEFINE s == rows[o]
    <2>1. rows'[o] = [n \in DOMAIN s |->
            IF s[n].intent = "none" THEN [s[n] EXCEPT !.intent = "mirror"] ELSE s[n]]
      BY <1>5 DEF Restart
    <2>a. s \in Seq(PaymentRow)
      BY <1>0
    <2> HIDE DEF s
    <2>2. Named(s, rows'[o])
      BY <2>1 DEF Named
    <2>3. Grown(s, rows'[o])
      BY <2>a, <2>2, NamedRows
    <2> QED BY <2>3 DEF s
  <1>6. ASSUME NEW i \in Intents, IntentStep(i), ~Credit(i) PROVE rows' = rows
    BY <1>6
    DEF IntentStep, CreateIntent, BeginCheckout, RecordCheckout, CustomerPays, Deliver,
        FindDuplicate, HoldForReview, RollBack, MarkFailed, orderVars
  <1>7. ASSUME NEW p \in Orders, CancelOrder(p) PROVE rows' = rows
    BY <1>7 DEF CancelOrder
  <1> QED
    BY <1>1, <1>2, <1>3, <1>4, <1>5, <1>6, <1>7 DEF Next, OrderStep, vars, orderVars

(* An execution's statements and a reconciliation's write no payment.       *)
LEMMA ExecutionKeepsRows ==
  ASSUME NEW w \in Workers, WorkerStep(w)
  PROVE  rows' = rows
  BY DEF WorkerStep, StartRefund, MarkProcessing, ProviderTakes, TakeAnswer, ExecutionFails,
         BookRefund, TotalRefunds, CloseRefund, EndExecution, vars, orderVars

LEMMA PayRowsGrow ==
  ASSUME TypeOK, [PayNext]_payAllVars
  PROVE  \A o \in Orders : Grown(rows[o], rows'[o])
  <1>1. [RefundsNext]_allVars
    BY PayStepIsRefundStep
  <1>2. CASE rows' = rows
    BY <1>2 DEF Grown
  <1>3. CASE rows' # rows
    <2>1. ASSUME NEW r \in RefundIds, RefundStep(r) PROVE rows' = rows
      BY <2>1 DEF RefundStep, CheckRefund, InsertRefund, ProviderEnds, vars, orderVars
    <2>2. PaymentStep \/ RestartAll
      BY <1>1, <1>3, <2>1, ExecutionKeepsRows DEF RefundsNext, allVars, vars, orderVars
    <2>3. [Next]_vars
      BY <2>2 DEF PaymentStep, RestartAll, Next
    <2> QED BY <2>3, RowsGrow
  <1> QED BY <1>2, <1>3

(* A payment that covers part of the delivery.                              *)
Derived(o, n) == n \in DOMAIN rows[o] /\ DeliveryPart(o, n) > 0

(* It goes on to, and in the same part.                                     *)
LEMMA DerivedStays ==
  ASSUME TypeOK, NEW o \in Orders, Grown(rows[o], rows'[o]), NEW n, Derived(o, n)
  PROVE  Derived(o, n)'
  <1>1. rows[o] \in Seq(PaymentRow)
    BY DEF TypeOK
  <1>2. DOMAIN rows[o] = 1..Len(rows[o]) /\ Len(rows[o]) \in Nat
    BY <1>1, LenProperties
  <1>3. n \in 1..Len(rows[o])
    BY <1>2 DEF Derived
  <1>4. ASSUME NEW k \in 0..Len(rows[o])
        PROVE  PaidUpTo(o, k)' = PaidUpTo(o, k)
    <2> DEFINE f == [m \in DOMAIN rows[o] |-> rows[o][m].amount]
               g == [m \in DOMAIN rows'[o] |-> rows'[o][m].amount]
               S == 1..k
    <2>1. IsFiniteSet(S)
      BY FS_Interval
    <2>2. S \subseteq DOMAIN rows[o]
      BY <1>2
    <2>3. \A m \in S : g[m] = f[m]
      BY <2>2 DEF Grown
    <2>4. PaidUpTo(o, k) = Total(f, S) /\ PaidUpTo(o, k)' = Total(g, S)
      BY DEF PaidUpTo
    <2> HIDE DEF f, g, S
    <2>5. Total(g, S) = Total(f, S)
      BY <2>1, <2>3, TotalSame
    <2> QED BY <2>4, <2>5
  <1>5. PaidUpTo(o, n)' = PaidUpTo(o, n) /\ PaidUpTo(o, n - 1)' = PaidUpTo(o, n - 1)
    BY <1>2, <1>3, <1>4
  <1>6. DeliveryPart(o, n)' = DeliveryPart(o, n)
    BY <1>5, Zenon DEF DeliveryPart, Beyond
  <1>7. n \in DOMAIN rows'[o]
    BY DEF Derived, Grown
  <1> QED BY <1>6, <1>7 DEF Derived

DerivedInv ==
    /\ \A x \in pay : Derived(x.order, x.row)
    /\ \A o \in Orders : \A n \in completing[o].basis : Derived(o, n)

(* A share is written by a completion or settled by a reconciliation, which *)
(* leaves it no longer eligible.                                           *)
LEMMA SharesWritten ==
  ASSUME PayInv, [PayNext]_payAllVars, NEW x \in pay'
  PROVE  \/ \E y \in pay : /\ x.order = y.order /\ x.row = y.row
                           /\ x.status = "eligible" => x = y
         \/ \E o \in Orders : CommitCompletion(o) /\ x.order = o /\ x.row \in completing[o].basis
  <1>1. CASE x \in pay
    BY <1>1
  <1>2. ASSUME NEW w \in Workers, SettleShare(w), x \notin pay
        PROVE  \E y \in pay : /\ x.order = y.order /\ x.row = y.row
                              /\ x.status = "eligible" => x = y
    <2>1. PICK y \in review[w].left :
            pay' = IF y \in pay
                   THEN (pay \ {y}) \cup {[y EXCEPT !.status = Target(y, review[w].full)]}
                   ELSE pay
      BY <1>2 DEF SettleShare
    <2>2. y \in pay /\ x = [y EXCEPT !.status = Target(y, review[w].full)]
      BY <1>2, <2>1
    <2>3. y \in PayRow
      BY <2>2 DEF PayInv, PayTables
    <2>4. Target(y, review[w].full) # "eligible"
      BY DEF Target
    <2>5. x.order = y.order /\ x.row = y.row /\ x.status # "eligible"
      BY <2>2, <2>3, <2>4 DEF PayRow
    <2> QED BY <2>2, <2>5
  <1>3. ASSUME NEW w \in Workers, ReviewStep(w), ~SettleShare(w) PROVE pay' = pay
    BY <1>3
    DEF ReviewStep, CloseAndReview, ReviewAgain, ReadPosition, ReadShares, ReviewFails
  <1>4. ASSUME NEW w \in Workers, Execution(w) PROVE pay' = pay
    BY <1>4 DEF Execution, payVars
  <1>5. ASSUME NEW o \in Orders, CommitCompletion(o), x \notin pay
        PROVE  x.order = o /\ x.row \in completing[o].basis
    BY <1>5 DEF CommitCompletion, Earned
  <1>6. ASSUME NEW o \in Orders, DeliveryStep(o), ~CommitCompletion(o) PROVE pay' = pay
    BY <1>6 DEF DeliveryStep, BeginCompletion, ReadEvidence, AbortCompletion
  <1>7. RestartEverything \/ UNCHANGED payVars \/ UNCHANGED payAllVars => pay' = pay
    BY DEF RestartEverything, payVars, payAllVars
  <1> QED BY <1>1, <1>2, <1>3, <1>4, <1>5, <1>6, <1>7 DEF PayNext

LEMMA BasesRead ==
  ASSUME PayInv, [PayNext]_payAllVars, NEW o \in Orders, NEW n \in completing'[o].basis
  PROVE  n \in completing[o].basis \/ Derived(o, n)
  <1>0. completing \in [Orders -> CompletionRow]
    BY DEF PayInv, PayTables
  <1>1. ASSUME NEW p \in Orders, DeliveryStep(p) PROVE n \in completing[o].basis \/ Derived(o, n)
    <2>1. End(p) \/ AbortCompletion(p) => n \in completing[o].basis
      BY <1>0 DEF End, AbortCompletion, NotCompleting
    <2>2. BeginCompletion(p) /\ ~End(p) => n \in completing[o].basis
      BY <1>0 DEF BeginCompletion, CompletionRow
    <2>3. CASE ReadEvidence(p) /\ ~End(p)
      <3>1. completing' = [completing EXCEPT ![p] = [at |-> "evidenced", basis |-> Basis(p)]]
        BY <2>3 DEF ReadEvidence
      <3>2. CASE p = o
        <4>1. n \in Basis(o)
          BY <1>0, <3>1, <3>2
        <4> QED BY <4>1 DEF Basis, Derived
      <3>3. CASE p # o
        BY <1>0, <3>1, <3>3
      <3> QED BY <3>2, <3>3
    <2>4. CommitCompletion(p) => End(p)
      BY DEF CommitCompletion
    <2> QED BY <1>1, <2>1, <2>2, <2>3, <2>4 DEF DeliveryStep
  <1>2. CASE RestartEverything
    BY <1>2 DEF RestartEverything, NotCompleting
  <1>3. UNCHANGED payVars \/ UNCHANGED payAllVars => completing' = completing
    BY DEF payVars, deliveryVars, payAllVars
  <1>4. ASSUME NEW w \in Workers, ReviewStep(w) PROVE completing' = completing
    BY <1>4
    DEF ReviewStep, CloseAndReview, ReviewAgain, ReadPosition, ReadShares, SettleShare,
        ReviewFails, deliveryVars
  <1> QED BY <1>1, <1>2, <1>3, <1>4 DEF PayNext, Execution

LEMMA StepDerived ==
  ASSUME TypeOK, PayInv, DerivedInv, [PayNext]_payAllVars
  PROVE  DerivedInv'
  <1>1. ASSUME NEW o \in Orders, NEW n, Derived(o, n) PROVE Derived(o, n)'
    BY <1>1, PayRowsGrow, DerivedStays
  <1>2. ASSUME NEW x \in pay' PROVE Derived(x.order, x.row)'
    <2>1. x.order \in Orders /\ Derived(x.order, x.row)
      <3>1. CASE \E y \in pay : x.order = y.order /\ x.row = y.row
        BY <3>1 DEF DerivedInv, PayInv, PayTables, PayRow
      <3>2. CASE \E o \in Orders : x.order = o /\ x.row \in completing[o].basis
        BY <3>2 DEF DerivedInv
      <3> QED BY <3>1, <3>2, SharesWritten
    <2> QED BY <1>1, <2>1
  <1>3. ASSUME NEW o \in Orders, NEW n \in completing'[o].basis PROVE Derived(o, n)'
    <2>1. Derived(o, n)
      BY BasesRead DEF DerivedInv
    <2> QED BY <1>1, <2>1
  <1> QED BY <1>2, <1>3 DEF DerivedInv

LEMMA InitDerived == PayInit => DerivedInv
  BY DEF PayInit, DerivedInv, NotCompleting

-----------------------------------------------------------------------------
Eligible(i) == {x \in PayFrom(i) : x.status = "eligible"}

(* A worker that executes the refund has the shares of its intent before it.*)
Awaits(w, r) ==
    /\ work[w].refund = r
    /\ \/ work[w].at \in {"booking", "totalling", "full", "partial"}
       \/ /\ review[w].intent = RefundOf[r]
          /\ review[w].at = "shares" => Eligible(RefundOf[r]) \subseteq review[w].left

(* Of a refund that has succeeded no share is eligible, unless its failure  *)
(* is on record or a worker still has it to review.                        *)
HeldFor(r) ==
    \/ Eligible(RefundOf[r]) = {}
    \/ RefundOf[r] \in audited
    \/ \E w \in Workers : Awaits(w, r)

HeldInv == \A r \in RefundIds : refund[r] = "succeeded" => HeldFor(r)

(* No refund of an order succeeds while the order's delivery is being       *)
(* completed: no lock in the code sees to it.                              *)
RefundsApart == \A o \in Orders : completing[o].at # "idle" => ~OrderRefunded(o)

(* The process does not stop between a refund and its reconciliation.       *)
Undisturbed == RestartEverything => \A w \in Workers : work[w] = Idle

(* Only a completion makes shares eligible.                                 *)
LEMMA EligibleShrinks ==
  ASSUME TypeOK, PayInv, DerivedInv, [PayNext]_payAllVars, NEW i \in Intents,
         ~CommitCompletion(SourceOrder[i])
  PROVE  Eligible(i)' \subseteq Eligible(i)
  <1> SUFFICES ASSUME NEW x \in Eligible(i)' PROVE x \in Eligible(i)
    OBVIOUS
  <1>1. /\ x \in pay' /\ x.order = SourceOrder[i] /\ x.status = "eligible"
        /\ rows'[x.order][x.row].intent = i
    BY DEF Eligible, PayFrom, PayOf
  <1>2. x \in pay
    BY <1>1, SharesWritten
  <1>3. x.order \in Orders /\ x.row \in DOMAIN rows[x.order]
    BY <1>1, <1>2, PaymentsAssumption DEF DerivedInv, Derived
  <1>4. rows[x.order][x.row].intent = i
    BY <1>1, <1>3, PayRowsGrow DEF Grown
  <1> QED BY <1>1, <1>2, <1>4 DEF Eligible, PayFrom, PayOf

(* What one worker does leaves another's review before it.                  *)
LEMMA OthersAwait ==
  ASSUME NEW r \in RefundIds, HeldFor(r), audited \subseteq audited',
         Eligible(RefundOf[r])' \subseteq Eligible(RefundOf[r]), NEW w \in Workers,
         \A v \in Workers : v # w => work'[v] = work[v] /\ review'[v] = review[v],
         Awaits(w, r) => HeldFor(r)'
  PROVE  HeldFor(r)'
  <1>1. CASE Eligible(RefundOf[r]) = {} \/ RefundOf[r] \in audited
    BY <1>1 DEF HeldFor
  <1>2. ASSUME NEW v \in Workers, Awaits(v, r), v # w PROVE Awaits(v, r)'
    BY <1>2 DEF Awaits
  <1> QED BY <1>1, <1>2 DEF HeldFor

(* Nor does what no worker does.                                            *)
LEMMA AllAwait ==
  ASSUME NEW r \in RefundIds, HeldFor(r), audited \subseteq audited',
         Eligible(RefundOf[r])' \subseteq Eligible(RefundOf[r]),
         UNCHANGED <<work, review>>
  PROVE  HeldFor(r)'
  <1>1. ASSUME NEW v \in Workers, Awaits(v, r) PROVE Awaits(v, r)'
    BY <1>1 DEF Awaits
  <1> QED BY <1>1 DEF HeldFor

(* A statement of an execution: of another refund, or of this one on its    *)
(* way to the review.                                                      *)
LEMMA ExecutionHeld ==
  ASSUME TypeOK, RefundInv, PayInv, DerivedInv, HeldInv, NEW w \in Workers, Execution(w),
         NEW r \in RefundIds, refund'[r] = "succeeded",
         Eligible(RefundOf[r])' \subseteq Eligible(RefundOf[r])
  PROVE  HeldFor(r)'
  <1>0. /\ review' = review /\ audited' = audited /\ review[w] = NoReview
        /\ RefundOf[r] \in Intents /\ "none" \notin Intents /\ r # "none"
        /\ RefundTables
    BY RefundsAssumption, PaymentsAssumption
    DEF Execution, payVars, reviewVars, RefundInv
  <1>1. Awaits(w, r) <=> /\ work[w].refund = r
                         /\ work[w].at \in {"booking", "totalling", "full", "partial"}
    BY <1>0 DEF Awaits, NoReview
  <1>2. ASSUME \A v \in Workers : v # w => work'[v] = work[v], refund[r] = "succeeded",
               ~Awaits(w, r) \/ Awaits(w, r)'
        PROVE  HeldFor(r)'
    <2>1. HeldFor(r)
      BY <1>2 DEF HeldInv
    <2>2. Awaits(w, r) => HeldFor(r)'
      BY <1>2 DEF HeldFor
    <2> QED BY <1>0, <1>2, <2>1, <2>2, OthersAwait
  <1>3. ASSUME NEW p \in RefundIds, StartRefund(w, p) PROVE HeldFor(r)'
    <2>1. ~Awaits(w, r) /\ refund[r] = "succeeded"
      BY <1>0, <1>1, <1>3 DEF StartRefund, Idle
    <2>2. \A v \in Workers : v # w => work'[v] = work[v]
      BY <1>0, <1>3 DEF StartRefund, RefundTables
    <2> QED BY <1>2, <2>1, <2>2
  <1>4. CASE MarkProcessing(w) \/ ProviderTakes(w)
    <2>1. ~Awaits(w, r)
      BY <1>1, <1>4 DEF MarkProcessing, ProviderTakes
    <2>2. refund[r] = "succeeded"
      BY <1>0, <1>4 DEF MarkProcessing, ProviderTakes, RefundTables
    <2>3. \A v \in Workers : v # w => work'[v] = work[v]
      BY <1>0, <1>4 DEF MarkProcessing, ProviderTakes, Reach, RefundTables
    <2> QED BY <1>2, <2>1, <2>2, <2>3
  <1>5. CASE TakeAnswer(w)
    <2>1. CASE work[w].refund = r
      <3>1. Mapped(provider[r]) = "succeeded"
        BY <1>0, <1>5, <2>1 DEF TakeAnswer, RefundTables
      <3>2. provider[r] # "pending"
        BY <3>1 DEF Mapped
      <3>3. work' = [work EXCEPT ![w].at = "booking"]
        BY <1>5, <2>1, <3>1, <3>2 DEF TakeAnswer, Reach
      <3>4. Awaits(w, r)'
        BY <1>0, <2>1, <3>3 DEF Awaits, RefundTables
      <3> QED BY <3>4 DEF HeldFor
    <2>2. CASE work[w].refund # r
      <3>1. refund[r] = "succeeded" /\ ~Awaits(w, r)
        BY <1>0, <1>1, <1>5, <2>2 DEF TakeAnswer, RefundTables
      <3>2. \A v \in Workers : v # w => work'[v] = work[v]
        BY <1>0, <1>5 DEF TakeAnswer, Reach, Leave, RefundTables
      <3> QED BY <1>2, <3>1, <3>2
    <2> QED BY <2>1, <2>2
  <1>6. CASE ExecutionFails(w)
    <2>1. work[w].refund # r /\ refund[r] = "succeeded"
      BY <1>0, <1>6 DEF ExecutionFails, RefundTables
    <2>2. \A v \in Workers : v # w => work'[v] = work[v]
      BY <1>0, <1>6 DEF ExecutionFails, Leave, RefundTables
    <2> QED BY <1>1, <1>2, <2>1, <2>2
  <1>7. CASE BookRefund(w) \/ TotalRefunds(w)
    <2>1. \E place \in {"totalling", "full", "partial"} : Reach(w, place)
      BY <1>7 DEF BookRefund, TotalRefunds
    <2>2. refund[r] = "succeeded"
      BY <1>7 DEF BookRefund, TotalRefunds
    <2>3. \A v \in Workers : v # w => work'[v] = work[v]
      BY <1>0, <2>1 DEF Reach, RefundTables
    <2>4. Awaits(w, r) => Awaits(w, r)'
      BY <1>0, <1>1, <2>1 DEF Reach, RefundTables, Awaits
    <2> QED BY <1>2, <2>2, <2>3, <2>4
  <1>8. CASE EndExecution(w)
    <2>1. ~Awaits(w, r) /\ refund[r] = "succeeded"
      BY <1>1, <1>8 DEF EndExecution
    <2>2. \A v \in Workers : v # w => work'[v] = work[v]
      BY <1>0, <1>8 DEF EndExecution, Leave, RefundTables
    <2> QED BY <1>2, <2>1, <2>2
  <1> QED BY <1>3, <1>4, <1>5, <1>6, <1>7, <1>8 DEF Execution

(* A statement of the reconciliation itself: it goes on to the next, settles*)
(* what it has read, or leaves its failure on record.                      *)
LEMMA ReviewHeld ==
  ASSUME TypeOK, RefundInv, PayInv, DerivedInv, HeldInv, NEW w \in Workers, ReviewStep(w),
         NEW r \in RefundIds, refund'[r] = "succeeded",
         Eligible(RefundOf[r])' \subseteq Eligible(RefundOf[r])
  PROVE  HeldFor(r)'
  <1> DEFINE i == RefundOf[r]
  <1>0. /\ i \in Intents /\ "none" \notin Intents /\ r # "none"
        /\ RefundTables /\ review \in [Workers -> ReviewRow]
    BY RefundsAssumption, PaymentsAssumption DEF RefundInv, PayInv, PayTables
  <1>1. refund' = refund
    BY DEF ReviewStep, CloseAndReview, CloseRefund, ReviewAgain, ReadPosition, ReadShares,
           SettleShare, ReviewFails, allVars, refundVars
  <1>2. \A v \in Workers : v # w => work'[v] = work[v] /\ review'[v] = review[v]
    <2>1. CASE CloseAndReview(w)
      BY <1>0, <2>1 DEF CloseAndReview, CloseRefund, Reach, Reviewing, RefundTables
    <2>2. CASE ~CloseAndReview(w)
      BY <1>0, <2>2
      DEF ReviewStep, ReviewAgain, ReadPosition, ReadShares, SettleShare, ReviewFails,
          Reviewing, Reviewed, allVars, refundVars
    <2> QED BY <2>1, <2>2
  <1>3. audited \subseteq audited'
    BY DEF ReviewStep, CloseAndReview, ReviewAgain, ReadPosition, ReadShares, SettleShare,
           ReviewFails
  <1>4. HeldFor(r)
    BY <1>1 DEF HeldInv
  <1> SUFFICES ASSUME Awaits(w, r) PROVE HeldFor(r)'
    BY <1>2, <1>3, <1>4, OthersAwait
  <1>5. CASE CloseAndReview(w)
    <2>1. /\ work' = [work EXCEPT ![w].at = "closing"]
          /\ review' = [review EXCEPT ![w] = [NoReview EXCEPT !.intent = i, !.at = "due"]]
      BY <1>5 DEF CloseAndReview, CloseRefund, Reach, Reviewing, Awaits
    <2>2. /\ work'[w].refund = r
          /\ review'[w].intent = i /\ review'[w].at = "due"
      BY <1>0, <2>1 DEF RefundTables, Awaits, NoReview
    <2>3. Awaits(w, r)'
      BY <2>2 DEF Awaits
    <2> QED BY <2>3 DEF HeldFor
  <1>6. ASSUME NEW q \in RefundIds, ReviewAgain(w, q) PROVE HeldFor(r)'
    BY <1>0, <1>6 DEF ReviewAgain, Awaits, Idle
  <1>7. CASE ~CloseAndReview(w) /\ ~\E q \in RefundIds : ReviewAgain(w, q)
    <2>1. work' = work
      BY <1>7
      DEF ReviewStep, ReadPosition, ReadShares, SettleShare, ReviewFails, allVars, refundVars
    <2>2. CASE work[w].at \in {"booking", "totalling", "full", "partial"}
      <3>1. Awaits(w, r)'
        BY <2>1, <2>2 DEF Awaits
      <3> QED BY <3>1 DEF HeldFor
    <2>3. CASE work[w].at \notin {"booking", "totalling", "full", "partial"}
      <3>0. /\ work[w].refund = r /\ review[w].intent = i
            /\ review[w].at = "shares" => Eligible(i) \subseteq review[w].left
        BY <2>3 DEF Awaits
      <3>1. CASE ReadPosition(w)
        <4>1. CASE DeliveryPaidBy(i)
          <5>1. review'[w].intent = i /\ review'[w].at = "position"
            BY <1>0, <3>0, <3>1, <4>1 DEF ReadPosition, ReviewRow
          <5>2. Awaits(w, r)'
            BY <2>1, <3>0, <5>1 DEF Awaits
          <5> QED BY <5>2 DEF HeldFor
        <4>2. CASE ~DeliveryPaidBy(i)
          <5>1. Eligible(i) = {}
            BY <4>2 DEF Eligible, PayFrom, PayOf, DeliveryPaidBy, RowsOf, DerivedInv, Derived
          <5> QED BY <5>1 DEF HeldFor
        <4> QED BY <4>1, <4>2
      <3>2. CASE ReadShares(w)
        <4>1. Eligible(i) \subseteq Unreversed(i)
          BY DEF Eligible, Unreversed
        <4>2. CASE Unreversed(i) = {}
          BY <4>1, <4>2 DEF HeldFor
        <4>3. CASE Unreversed(i) # {}
          <5> DEFINE shares == Unreversed(i)
          <5>1. review' = [review EXCEPT ![w].at = "shares", ![w].left = shares]
            BY <3>0, <3>2, <4>3 DEF ReadShares
          <5> HIDE DEF shares
          <5>2. review'[w].intent = i /\ review'[w].left = shares
            BY <1>0, <3>0, <5>1 DEF ReviewRow
          <5>3. Eligible(i)' \subseteq review'[w].left
            BY <4>1, <5>2 DEF shares
          <5>4. Awaits(w, r)'
            BY <2>1, <3>0, <5>2, <5>3 DEF Awaits
          <5> QED BY <5>4 DEF HeldFor
        <4> QED BY <4>2, <4>3
      <3>3. CASE SettleShare(w)
        <4>1. PICK x \in review[w].left :
                /\ pay' = IF x \in pay
                          THEN (pay \ {x}) \cup {[x EXCEPT !.status = Target(x, review[w].full)]}
                          ELSE pay
                /\ IF review[w].left = {x} THEN Reviewed(w)
                   ELSE review' = [review EXCEPT ![w].left = @ \ {x}]
          BY <3>3 DEF SettleShare
        <4>2. Eligible(i) \subseteq review[w].left
          BY <3>0, <3>3 DEF SettleShare
        <4>3. x \notin Eligible(i)'
          <5>1. Target(x, review[w].full) # "eligible"
            BY DEF Target
          <5>2. x \in pay => x \in PayRow
            BY DEF PayInv, PayTables
          <5>3. x \in pay' => x.status # "eligible"
            BY <4>1, <5>1, <5>2 DEF PayRow
          <5> QED BY <5>3 DEF Eligible, PayFrom, PayOf
        <4>4. CASE review[w].left = {x}
          <5>1. Eligible(i)' = {}
            BY <4>2, <4>3, <4>4
          <5> QED BY <5>1 DEF HeldFor
        <4>5. CASE review[w].left # {x}
          <5>1. review'[w].intent = i /\ review'[w].left = review[w].left \ {x}
            BY <1>0, <3>0, <4>1, <4>5 DEF ReviewRow
          <5>2. Eligible(i)' \subseteq review'[w].left
            BY <4>2, <4>3, <5>1
          <5>3. Awaits(w, r)'
            BY <2>1, <3>0, <5>1, <5>2 DEF Awaits
          <5> QED BY <5>3 DEF HeldFor
        <4> QED BY <4>4, <4>5
      <3>4. CASE ReviewFails(w)
        BY <1>0, <3>0, <3>4 DEF ReviewFails, Idle, HeldFor
      <3> QED BY <1>7, <3>1, <3>2, <3>3, <3>4 DEF ReviewStep
    <2> QED BY <2>2, <2>3
  <1> QED BY <1>5, <1>6, <1>7

LEMMA StepHeld ==
  ASSUME TypeOK, RefundInv, PayInv, DerivedInv, HeldInv, RefundsApart,
         [PayNext]_payAllVars, [Undisturbed]_payAllVars
  PROVE  HeldInv'
  <1> SUFFICES ASSUME NEW r \in RefundIds, refund'[r] = "succeeded" PROVE HeldFor(r)'
    BY DEF HeldInv
  <1> DEFINE i == RefundOf[r]
  <1>0. i \in Intents /\ SourceOrder[i] \in Orders /\ RefundTables
    BY RefundsAssumption, PaymentsAssumption DEF RefundInv
  <1>1. ~CommitCompletion(SourceOrder[i])
    <2> SUFFICES ASSUME CommitCompletion(SourceOrder[i]) PROVE FALSE
      OBVIOUS
    <2>1. completing[SourceOrder[i]].at = "evidenced" /\ refund[r] = "succeeded"
      BY DEF CommitCompletion, allVars, refundVars
    <2>2. OrderRefunded(SourceOrder[i])
      BY <1>0, <2>1 DEF OrderRefunded, Succeeded, RefundsFor
    <2> QED BY <1>0, <2>1, <2>2 DEF RefundsApart
  <1>2. Eligible(i)' \subseteq Eligible(i)
    BY <1>0, <1>1, EligibleShrinks
  <1>3. ASSUME UNCHANGED <<audited, work, review>>, refund[r] = "succeeded" PROVE HeldFor(r)'
    <2>1. HeldFor(r)
      BY <1>3 DEF HeldInv
    <2> QED BY <1>2, <1>3, <2>1, AllAwait
  <1>4. CASE UNCHANGED payAllVars \/ (PaymentStep /\ UNCHANGED payVars)
    BY <1>3, <1>4 DEF payAllVars, payVars, reviewVars, allVars, refundVars, PaymentStep
  <1>5. ASSUME NEW q \in RefundIds, RefundStep(q), UNCHANGED payVars PROVE HeldFor(r)'
    <2>1. work' = work /\ refund[r] = "succeeded"
      BY <1>0, <1>5 DEF RefundStep, CheckRefund, InsertRefund, ProviderEnds, RefundTables
    <2> QED BY <1>3, <1>5, <2>1 DEF payVars, reviewVars
  <1>6. ASSUME NEW o \in Orders, DeliveryStep(o) PROVE HeldFor(r)'
    BY <1>3, <1>6
    DEF DeliveryStep, BeginCompletion, ReadEvidence, CommitCompletion, AbortCompletion,
        reviewVars, allVars, refundVars
  <1>7. ASSUME NEW w \in Workers, Execution(w) PROVE HeldFor(r)'
    BY <1>2, <1>7, ExecutionHeld
  <1>8. ASSUME NEW w \in Workers, ReviewStep(w) PROVE HeldFor(r)'
    BY <1>2, <1>8, ReviewHeld
  <1>9. CASE RestartEverything /\ ~UNCHANGED payAllVars
    <2>1. \A w \in Workers : work[w] = Idle
      BY <1>9 DEF Undisturbed
    <2>2. refund[r] = "succeeded" /\ audited' = audited
      BY <1>0, <1>9 DEF RestartEverything, RestartAll, RefundTables
    <2>3. \A w \in Workers : ~Awaits(w, r)
      BY <2>1, RefundsAssumption DEF Awaits, Idle
    <2>4. Eligible(i) = {} \/ i \in audited
      BY <2>2, <2>3 DEF HeldInv, HeldFor
    <2> QED BY <1>2, <2>2, <2>4 DEF HeldFor
  <1> QED BY <1>4, <1>5, <1>6, <1>7, <1>8, <1>9 DEF PayNext

LEMMA InitHeld == PayInit => HeldInv
  BY DEF PayInit, RefundsInit, HeldInv

(* Where no refund succeeds during a completion of its order's delivery,    *)
(* and the process does not stop during an execution, a succeeded refund    *)
(* whose reconciliation is over, with no failure on record, leaves no share *)
(* eligible: in spite of executions of one intent that overlap, fail at any *)
(* statement and are retried, repeated reconciliations, and completions     *)
(* between them.  The code promises neither: under OverlapSpec of           *)
(* MCPayments, without the first, a share stays eligible.                   *)
THEOREM RefundsHoldPay ==
    PaySpec /\ []RefundsApart /\ [][Undisturbed]_payAllVars => []RefundedPayHeld
  <1>1. PayInit => DerivedInv /\ HeldInv
    BY InitDerived, InitHeld
  <1>2. /\ TypeOK /\ RefundInv /\ PayInv /\ DerivedInv /\ HeldInv /\ RefundsApart
        /\ [PayNext]_payAllVars /\ [Undisturbed]_payAllVars
        => DerivedInv' /\ HeldInv'
    BY StepDerived, StepHeld
  <1>3. HeldInv => RefundedPayHeld
    <2> SUFFICES ASSUME HeldInv, NEW i \in Intents, Settled(i), NEW r \in Succeeded(i)
                 PROVE  \A x \in PayFrom(i) : x.status # "eligible"
      BY DEF RefundedPayHeld
    <2>1. r \in RefundIds /\ RefundOf[r] = i /\ refund[r] = "succeeded"
      BY DEF Succeeded, RefundsFor
    <2>2. ASSUME NEW w \in Workers, Awaits(w, r) PROVE FALSE
      <3>1. ~AtWorkOn(w, i)
        BY DEF Settled
      <3> QED BY <2>1, <2>2, <3>1 DEF Awaits, AtWorkOn, Idle
    <2>3. Eligible(i) = {}
      BY <2>1, <2>2 DEF HeldInv, HeldFor, Settled
    <2> QED BY <2>3 DEF Eligible
  <1> QED BY <1>1, <1>2, <1>3, PayInvariant, PTL DEF PaySpec
=============================================================================
