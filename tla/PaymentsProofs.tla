--------------------------- MODULE PaymentsProofs ---------------------------
(***************************************************************************)
(* Payments, for every number of orders, intents, calls, deliveries and     *)
(* restarts: types, no overpayment, one payment row per confirmed intent,   *)
(* a paid amount that its rows add up to, and no credited payment under     *)
(* review.  Then refunds, for every number of refunds, of executions at     *)
(* once and of stops: types, no refund on record that the provider has not  *)
(* made, and no intent marked refunded that is not paid back.              *)
(***************************************************************************)
EXTENDS Refunds, SequenceTheorems, SumsProofs

LEMMA InitType == Init => TypeOK
  BY PaymentsAssumption
  DEF Init, TypeOK, OrderStatuses, IntentStatuses, PaymentRow

(* Adding a payment keeps the order's columns and its rows well-typed.      *)
LEMMA AddPaymentType ==
  ASSUME TypeOK, NEW o \in Orders, NEW n \in Nat,
         NEW by \in Intents \cup {"none", "mirror"}, AddPayment(o, n, by)
  PROVE  /\ orderStatus' \in [Orders -> OrderStatuses]
         /\ paid' \in [Orders -> Nat]
         /\ rows' \in [Orders -> Seq(PaymentRow)]
  <1>1. orderStatus' \in [Orders -> OrderStatuses]
    BY DEF AddPayment, TypeOK, OrderStatuses
  <1>2. paid' \in [Orders -> Nat]
    BY DEF AddPayment, TypeOK, PaidAfter
  <1>3. [amount |-> n, intent |-> by] \in PaymentRow
    BY DEF PaymentRow
  <1>4. rows' \in [Orders -> Seq(PaymentRow)]
    BY <1>3 DEF AddPayment, TypeOK
  <1> QED BY <1>1, <1>2, <1>4

(* Naming the mirror on some rows of an order leaves well-typed rows.       *)
LEMMA MirroredRows ==
  ASSUME NEW s \in Seq(PaymentRow), NEW t,
         t = [n \in DOMAIN s |-> t[n]],
         \A n \in DOMAIN s : t[n] = s[n] \/ t[n] = [s[n] EXCEPT !.intent = "mirror"]
  PROVE  t \in Seq(PaymentRow)
  <1>2. DOMAIN s = 1..Len(s) /\ Len(s) \in Nat
    BY LenProperties
  <1>1. ASSUME NEW n \in DOMAIN s PROVE t[n] \in PaymentRow
    <2>1. s[n] \in PaymentRow
      BY <1>2, ElementOfSeq
    <2>2. [s[n] EXCEPT !.intent = "mirror"] \in PaymentRow
      BY <2>1 DEF PaymentRow
    <2> QED BY <2>1, <2>2
  <1>3. t \in [1..Len(s) -> PaymentRow]
    BY <1>1, <1>2
  <1> QED BY <1>2, <1>3, SeqDef

LEMMA OrderStepType ==
  ASSUME TypeOK, NEW o \in Orders, OrderStep(o)
  PROVE  TypeOK'
  <1>0. OrderTotal[o] \in Nat /\ Outstanding(o) \in Int
    BY PaymentsAssumption DEF TypeOK, Outstanding
  <1>1. ASSUME NEW n \in 1..OrderTotal[o], RecordPayment(o, n) PROVE TypeOK'
    <2>1. n \in Nat
      BY <1>0, <1>1
    <2>2. AddPayment(o, n, "none")
      BY <1>1 DEF RecordPayment
    <2>3. /\ orderStatus' \in [Orders -> OrderStatuses]
          /\ paid' \in [Orders -> Nat]
          /\ rows' \in [Orders -> Seq(PaymentRow)]
      BY <2>1, <2>2, AddPaymentType
    <2>4. hooks' \in [Orders -> Nat]
      BY <1>1 DEF RecordPayment, TypeOK
    <2>5. UNCHANGED <<intentVars, calls, session, webhookVars, restarts>>
      BY <1>1 DEF RecordPayment
    <2> QED BY <2>3, <2>4, <2>5 DEF TypeOK, intentVars, webhookVars
  <1>2. CASE MirrorLatest(o)
    <2>0. rows[o] \in Seq(PaymentRow)
      BY DEF TypeOK
    <2>1. rows'[o] \in Seq(PaymentRow)
      <3>1. rows'[o] = [n \in DOMAIN rows[o] |->
              IF n = Len(rows[o]) /\ rows[o][n].intent = "none"
              THEN [rows[o][n] EXCEPT !.intent = "mirror"] ELSE rows[o][n]]
        BY <1>2 DEF MirrorLatest, TypeOK
      <3>2. rows'[o] = [n \in DOMAIN rows[o] |-> rows'[o][n]]
        BY <3>1
      <3>3. \A n \in DOMAIN rows[o] : \/ rows'[o][n] = rows[o][n]
                                     \/ rows'[o][n] = [rows[o][n] EXCEPT !.intent = "mirror"]
        BY <3>1
      <3> QED BY <2>0, <3>2, <3>3, MirroredRows
    <2>2. rows' \in [Orders -> Seq(PaymentRow)]
      BY <1>2, <2>1 DEF MirrorLatest, TypeOK
    <2> QED BY <1>2, <2>2 DEF MirrorLatest, TypeOK, intentVars, webhookVars
  <1>3. CASE CancelOrder(o)
    BY <1>3 DEF CancelOrder, TypeOK, OrderStatuses, intentVars, webhookVars
  <1> QED BY <1>1, <1>2, <1>3 DEF OrderStep

LEMMA IntentStepType ==
  ASSUME TypeOK, NEW i \in Intents, IntentStep(i)
  PROVE  TypeOK'
  <1>0. SourceOrder[i] \in Orders /\ OrderTotal[SourceOrder[i]] \in Nat
    BY PaymentsAssumption
  <1>1. CASE CreateIntent(i)
    <2>1. Outstanding(SourceOrder[i]) \in Nat
      BY <1>0, <1>1 DEF CreateIntent, TypeOK, Outstanding
    <2> QED
      BY <1>1, <2>1
      DEF CreateIntent, TypeOK, IntentStatuses, OpenStatuses, orderVars, webhookVars
  <1>2. CASE BeginCheckout(i)
    BY <1>2 DEF BeginCheckout, TypeOK, orderVars, intentVars, webhookVars
  <1>3. CASE RecordCheckout(i)
    BY <1>3
    DEF RecordCheckout, AfterCheckout, TypeOK, IntentStatuses, OpenStatuses, Confirmed,
        orderVars, webhookVars
  <1>4. ASSUME NEW how \in {"paid", "unclear"}, CustomerPays(i, how) PROVE TypeOK'
    BY <1>4 DEF CustomerPays, TypeOK, orderVars, intentVars, webhookVars
  <1>5. CASE Deliver(i)
    BY <1>5 DEF Deliver, TypeOK, orderVars, intentVars
  <1>6. CASE FindDuplicate(i)
    BY <1>6 DEF FindDuplicate, Finish, TypeOK, orderVars, intentVars
  <1>7. CASE HoldForReview(i)
    BY <1>7 DEF HoldForReview, Finish, KeepIntent, TypeOK, orderVars
  <1>8. CASE Credit(i)
    <2>1. AddPayment(SourceOrder[i], amount[i], i)
      BY <1>8 DEF Credit
    <2>2. /\ orderStatus' \in [Orders -> OrderStatuses]
          /\ paid' \in [Orders -> Nat]
          /\ rows' \in [Orders -> Seq(PaymentRow)]
      BY <1>0, <2>1, AddPaymentType DEF TypeOK
    <2> QED BY <1>8, <2>2 DEF Credit, Finish, TypeOK, IntentStatuses, Confirmed
  <1>9. CASE RollBack(i)
    BY <1>9 DEF RollBack, TypeOK, orderVars, intentVars
  <1>10. CASE MarkFailed(i)
    BY <1>10 DEF MarkFailed, TypeOK, orderVars, intentVars
  <1> QED
    BY <1>1, <1>2, <1>3, <1>4, <1>5, <1>6, <1>7, <1>8, <1>9, <1>10 DEF IntentStep

LEMMA RestartType ==
  ASSUME TypeOK, Restart
  PROVE  TypeOK'
  <1>1. ASSUME NEW o \in Orders PROVE rows'[o] \in Seq(PaymentRow)
    <2>0. rows[o] \in Seq(PaymentRow)
      BY DEF TypeOK
    <2>1. rows'[o] = [n \in DOMAIN rows[o] |->
            IF rows[o][n].intent = "none"
            THEN [rows[o][n] EXCEPT !.intent = "mirror"] ELSE rows[o][n]]
      BY DEF Restart
    <2>2. rows'[o] = [n \in DOMAIN rows[o] |-> rows'[o][n]]
      BY <2>1
    <2>3. \A n \in DOMAIN rows[o] : \/ rows'[o][n] = rows[o][n]
                                   \/ rows'[o][n] = [rows[o][n] EXCEPT !.intent = "mirror"]
      BY <2>1
    <2> QED BY <2>0, <2>2, <2>3, MirroredRows
  <1>2. rows' \in [Orders -> Seq(PaymentRow)]
    BY <1>1 DEF Restart, TypeOK
  <1>3. restarts' \in 0..MaxRestarts
    BY PaymentsAssumption DEF Restart, TypeOK
  <1>4. /\ calls' \in [Intents -> Nat] /\ hooks' \in [Orders -> Nat]
        /\ handling' \in [Intents -> Nat] /\ failing' \in [Intents -> Nat]
    BY DEF Restart
  <1>5. UNCHANGED <<orderStatus, paid, intentVars, session, event>>
    BY DEF Restart
  <1> QED BY <1>2, <1>3, <1>4, <1>5 DEF TypeOK, intentVars

LEMMA StepType == TypeOK /\ [Next]_vars => TypeOK'
  <1> SUFFICES ASSUME TypeOK, [Next]_vars PROVE TypeOK'
    OBVIOUS
  <1>1. CASE UNCHANGED vars
    BY <1>1 DEF vars, orderVars, intentVars, webhookVars, TypeOK
  <1> QED BY <1>1, OrderStepType, IntentStepType, RestartType DEF Next

(* Every column of the payment tables keeps its type.                       *)
THEOREM PaymentsTypeCorrect == Spec => []TypeOK
  BY InitType, StepType, PTL DEF Spec

-----------------------------------------------------------------------------
(* Every step adds a payment that fits the balance to one order, or leaves  *)
(* every paid_amount alone.                                                *)
LEMMA PaidStep ==
  ASSUME TypeOK, [Next]_vars
  PROVE  \/ UNCHANGED paid
         \/ \E o \in Orders, n \in Nat :
               n <= Outstanding(o) /\ paid' = [paid EXCEPT ![o] = @ + n]
  <1>1. CASE UNCHANGED vars
    BY <1>1 DEF vars, orderVars
  <1>2. ASSUME NEW o \in Orders, OrderStep(o)
        PROVE  \/ UNCHANGED paid
               \/ \E n \in Nat : n <= Outstanding(o) /\ paid' = [paid EXCEPT ![o] = @ + n]
    <2>1. ASSUME NEW n \in 1..OrderTotal[o], RecordPayment(o, n)
          PROVE  n \in Nat /\ n <= Outstanding(o) /\ paid' = [paid EXCEPT ![o] = @ + n]
      <3>1. n \in Nat
        BY PaymentsAssumption
      <3> QED BY <2>1, <3>1 DEF RecordPayment, AddPayment, PaidAfter, TypeOK
    <2>2. CASE MirrorLatest(o)
      BY <2>2 DEF MirrorLatest
    <2>3. CASE CancelOrder(o)
      BY <2>3 DEF CancelOrder
    <2> QED BY <1>2, <2>1, <2>2, <2>3 DEF OrderStep
  <1>3. ASSUME NEW i \in Intents, IntentStep(i), paid' # paid
        PROVE  LET o == SourceOrder[i]
               IN  amount[i] <= Outstanding(o) /\ paid' = [paid EXCEPT ![o] = @ + amount[i]]
    <2>1. Credit(i)
      BY <1>3
      DEF IntentStep, CreateIntent, BeginCheckout, RecordCheckout, CustomerPays, Deliver,
          FindDuplicate, HoldForReview, RollBack, MarkFailed, orderVars
    <2> QED
      BY <2>1, PaymentsAssumption
      DEF Credit, MayCredit, FitsBalance, AddPayment, PaidAfter, TypeOK
  <1>4. CASE Restart
    BY <1>4 DEF Restart
  <1>5. \A i \in Intents : SourceOrder[i] \in Orders /\ amount[i] \in Nat
    BY PaymentsAssumption DEF TypeOK
  <1> QED BY <1>1, <1>2, <1>3, <1>4, <1>5 DEF Next

(* The balance of an order never grows.                                     *)
LEMMA BalanceShrinks ==
  ASSUME TypeOK, [Next]_vars, NEW p \in Orders
  PROVE  /\ Outstanding(p) \in Int /\ Outstanding(p)' \in Int
         /\ Outstanding(p)' <= Outstanding(p)
  <1>1. OrderTotal[p] \in Nat /\ paid[p] \in Nat
    BY PaymentsAssumption DEF TypeOK
  <1>2. paid'[p] \in Nat /\ paid'[p] >= paid[p]
    <2>1. ASSUME NEW o \in Orders, NEW n \in Nat, paid' = [paid EXCEPT ![o] = @ + n]
          PROVE  paid'[p] \in Nat /\ paid'[p] >= paid[p]
      <3>1. CASE o = p
        BY <1>1, <2>1, <3>1 DEF TypeOK
      <3>2. CASE o # p
        BY <1>1, <2>1, <3>2 DEF TypeOK
      <3> QED BY <3>1, <3>2
    <2> QED BY <1>1, <2>1, PaidStep
  <1> QED BY <1>1, <1>2 DEF Outstanding

LEMMA InitBalance == Init => NeverOverpaid
  BY PaymentsAssumption DEF Init, NeverOverpaid

LEMMA StepBalance == TypeOK /\ NeverOverpaid /\ [Next]_vars => NeverOverpaid'
  <1> SUFFICES ASSUME TypeOK, NeverOverpaid, [Next]_vars, NEW p \in Orders
               PROVE  paid'[p] <= OrderTotal[p]
    BY DEF NeverOverpaid
  <1>1. OrderTotal[p] \in Nat /\ paid[p] \in Nat /\ paid[p] <= OrderTotal[p]
    BY PaymentsAssumption DEF TypeOK, NeverOverpaid
  <1>2. ASSUME NEW o \in Orders, NEW n \in Nat, n <= Outstanding(o),
               paid' = [paid EXCEPT ![o] = @ + n]
        PROVE  paid'[p] <= OrderTotal[p]
    <2>1. CASE o = p
      BY <1>1, <1>2, <2>1 DEF Outstanding, TypeOK
    <2>2. CASE o # p
      BY <1>1, <1>2, <2>2 DEF TypeOK
    <2> QED BY <2>1, <2>2
  <1> QED BY <1>1, <1>2, PaidStep

(* No more is credited to an order than it costs, by however many intents,  *)
(* hands and repeated deliveries.                                          *)
THEOREM Overpayment == Spec => []NeverOverpaid
  BY InitBalance, StepBalance, PaymentsTypeCorrect, PTL DEF Spec

-----------------------------------------------------------------------------
(* Sessions, events and deliveries hang together: an event is only of a     *)
(* session somebody paid, a session only of an intent that exists, and only *)
(* a paid session confirms its intent.  What was held for review did not    *)
(* fit the balance, and the balance only shrinks.                          *)
Traced(i) ==
    /\ event[i] # "none" \/ handling[i] > 0 \/ failing[i] > 0 =>
          session[i] \in {"paid", "unclear"}
    /\ session[i] # "none" \/ calls[i] > 0 => intent[i] # "none"
    /\ intent[i] \in Confirmed => session[i] = "paid"

HeldBack(i) ==
    event[i] = "manual_review" =>
        intent[i] # "succeeded" /\ (session[i] = "paid" => ~FitsBalance(i))

ReviewInv == \A i \in Intents : Traced(i) /\ HeldBack(i)

LEMMA InitReview == Init => ReviewInv
  BY DEF Init, ReviewInv, Traced, HeldBack, Confirmed

(* A step that leaves an intent's own columns alone keeps its part.         *)
LEMMA UntouchedIntent ==
  ASSUME TypeOK, [Next]_vars, NEW j \in Intents, Traced(j), HeldBack(j),
         event'[j] = event[j], handling'[j] <= handling[j], failing'[j] <= failing[j],
         session'[j] = session[j], calls'[j] <= calls[j], intent'[j] = intent[j],
         amount'[j] = amount[j], handling'[j] \in Nat, failing'[j] \in Nat, calls'[j] \in Nat
  PROVE  Traced(j)' /\ HeldBack(j)'
  <1>0. handling[j] \in Nat /\ failing[j] \in Nat /\ calls[j] \in Nat
    BY DEF TypeOK
  <1>1. Traced(j)'
    BY <1>0 DEF Traced
  <1>2. ASSUME ~FitsBalance(j) PROVE ~FitsBalance(j)'
    <2>1. SourceOrder[j] \in Orders /\ amount[j] \in Nat
      BY PaymentsAssumption DEF TypeOK
    <2>2. /\ Outstanding(SourceOrder[j]) \in Int /\ Outstanding(SourceOrder[j])' \in Int
          /\ Outstanding(SourceOrder[j])' <= Outstanding(SourceOrder[j])
      BY <2>1, BalanceShrinks
    <2> QED BY <1>2, <2>1, <2>2 DEF FitsBalance
  <1> QED BY <1>1, <1>2 DEF HeldBack

(* The intent's own steps.                                                 *)
LEMMA OwnReview ==
  ASSUME TypeOK, TypeOK', [Next]_vars, NEW i \in Intents, Traced(i), HeldBack(i), IntentStep(i)
  PROVE  Traced(i)' /\ HeldBack(i)'
  <1>0. /\ handling[i] \in Nat /\ failing[i] \in Nat /\ calls[i] \in Nat
        /\ handling'[i] \in Nat /\ failing'[i] \in Nat /\ calls'[i] \in Nat
    BY DEF TypeOK
  <1> DEFINE Quiet == /\ event'[i] = event[i]
                      /\ handling'[i] = handling[i] /\ failing'[i] = failing[i]
  <1>1. CASE CreateIntent(i)
    BY <1>0, <1>1
    DEF CreateIntent, Traced, HeldBack, TypeOK, Confirmed, OpenStatuses, webhookVars
  <1>2. CASE BeginCheckout(i)
    <2>1. /\ intent'[i] = intent[i] /\ amount'[i] = amount[i] /\ paid' = paid
          /\ intent[i] \in OpenStatuses /\ Quiet
          /\ session'[i] = IF session[i] = "none" THEN "open" ELSE session[i]
      BY <1>2 DEF BeginCheckout, TypeOK, intentVars, webhookVars, orderVars
    <2> QED
      BY <1>0, <2>1
      DEF Traced, HeldBack, Confirmed, OpenStatuses, FitsBalance, Outstanding
  <1>3. CASE RecordCheckout(i)
    <2>1. /\ intent'[i] = AfterCheckout(i) /\ amount'[i] = amount[i] /\ paid' = paid
          /\ Quiet /\ session' = session /\ calls[i] > 0
      BY <1>3 DEF RecordCheckout, TypeOK, webhookVars, orderVars
    <2> QED
      BY <1>0, <2>1
      DEF Traced, HeldBack, Confirmed, AfterCheckout, FitsBalance, Outstanding
  <1>4. ASSUME NEW how \in {"paid", "unclear"}, CustomerPays(i, how)
        PROVE  Traced(i)' /\ HeldBack(i)'
    <2>1. /\ intent' = intent /\ Quiet /\ session[i] = "open" /\ session'[i] = how
          /\ calls' = calls
      BY <1>4 DEF CustomerPays, TypeOK, webhookVars, intentVars
    <2> QED BY <1>0, <2>1 DEF Traced, HeldBack, Confirmed
  <1>5. CASE Deliver(i)
    <2>1. /\ intent' = intent /\ session' = session /\ calls' = calls /\ amount' = amount
          /\ paid' = paid /\ session[i] \in {"paid", "unclear"}
          /\ event'[i] = "manual_review" => event[i] = "manual_review"
      BY <1>5 DEF Deliver, TypeOK, orderVars, intentVars
    <2> QED BY <1>0, <2>1 DEF Traced, HeldBack, FitsBalance, Outstanding
  <1>6. CASE FindDuplicate(i)
    <2>1. /\ intent' = intent /\ session' = session /\ calls' = calls
          /\ session[i] = "paid" /\ event'[i] = "processed"
      BY <1>6 DEF FindDuplicate, Finish, TypeOK, intentVars
    <2> QED BY <1>0, <2>1 DEF Traced, HeldBack
  <1>7. CASE HoldForReview(i)
    <2>1. /\ intent' = intent /\ session' = session /\ calls' = calls /\ amount' = amount
          /\ paid' = paid /\ handling[i] > 0 /\ event'[i] = "manual_review"
          /\ session[i] = "paid" => intent[i] # "succeeded" /\ ~FitsBalance(i)
      BY <1>7 DEF HoldForReview, Finish, KeepIntent, AlreadyCredited, TypeOK, orderVars
    <2> QED BY <1>0, <2>1 DEF Traced, HeldBack, Confirmed, FitsBalance, Outstanding
  <1>8. CASE Credit(i)
    <2>1. /\ intent'[i] = "succeeded" /\ session' = session /\ calls' = calls
          /\ session[i] = "paid" /\ event'[i] = "processed"
      BY <1>8 DEF Credit, MayCredit, Finish, TypeOK
    <2> QED BY <1>0, <2>1 DEF Traced, HeldBack, Confirmed
  <1>9. CASE RollBack(i)
    <2>1. /\ intent' = intent /\ session' = session /\ calls' = calls /\ amount' = amount
          /\ paid' = paid /\ session[i] = "paid" /\ event' = event
      BY <1>9 DEF RollBack, MayCredit, TypeOK, orderVars, intentVars
    <2> QED BY <1>0, <2>1 DEF Traced, HeldBack, FitsBalance, Outstanding
  <1>10. CASE MarkFailed(i)
    <2>1. /\ intent' = intent /\ session' = session /\ calls' = calls
          /\ failing[i] > 0 /\ event'[i] = "failed"
      BY <1>10 DEF MarkFailed, TypeOK, intentVars
    <2> QED BY <1>0, <2>1 DEF Traced, HeldBack
  <1> QED
    BY <1>1, <1>2, <1>3, <1>4, <1>5, <1>6, <1>7, <1>8, <1>9, <1>10 DEF IntentStep

(* Nobody else's step touches the columns of an intent; a stop only drops   *)
(* what was under way for it.                                              *)
LEMMA OthersLeave ==
  ASSUME TypeOK, [Next]_vars, NEW j \in Intents, ~IntentStep(j)
  PROVE  /\ event'[j] = event[j] /\ session'[j] = session[j]
         /\ intent'[j] = intent[j] /\ amount'[j] = amount[j]
         /\ handling'[j] <= handling[j] /\ failing'[j] <= failing[j] /\ calls'[j] <= calls[j]
  <1>0. handling[j] \in Nat /\ failing[j] \in Nat /\ calls[j] \in Nat
    BY DEF TypeOK
  <1> DEFINE Left == /\ event'[j] = event[j] /\ session'[j] = session[j]
                     /\ intent'[j] = intent[j] /\ amount'[j] = amount[j]
                     /\ handling'[j] = handling[j] /\ failing'[j] = failing[j]
                     /\ calls'[j] = calls[j]
  <1>1. CASE UNCHANGED vars
    BY <1>0, <1>1 DEF vars, intentVars, webhookVars
  <1>2. ASSUME NEW o \in Orders, OrderStep(o) PROVE Left
    BY <1>2 DEF OrderStep, RecordPayment, MirrorLatest, CancelOrder, intentVars, webhookVars
  <1>3. ASSUME NEW i \in Intents, IntentStep(i) PROVE Left
    <2>0. i # j
      BY <1>3
    <2>1. CASE CreateIntent(i)
      BY <2>0, <2>1 DEF CreateIntent, TypeOK, webhookVars
    <2>2. CASE BeginCheckout(i)
      BY <2>0, <2>2 DEF BeginCheckout, TypeOK, intentVars, webhookVars
    <2>3. CASE RecordCheckout(i)
      BY <2>0, <2>3 DEF RecordCheckout, TypeOK, webhookVars
    <2>4. ASSUME NEW how \in {"paid", "unclear"}, CustomerPays(i, how) PROVE Left
      BY <2>0, <2>4 DEF CustomerPays, TypeOK, intentVars, webhookVars
    <2>5. CASE Deliver(i)
      BY <2>0, <2>5 DEF Deliver, TypeOK, intentVars
    <2>6. CASE FindDuplicate(i)
      BY <2>0, <2>6 DEF FindDuplicate, Finish, TypeOK, intentVars
    <2>7. CASE HoldForReview(i)
      BY <2>0, <2>7 DEF HoldForReview, Finish, KeepIntent, TypeOK
    <2>8. CASE Credit(i)
      BY <2>0, <2>8 DEF Credit, Finish, TypeOK
    <2>9. CASE RollBack(i)
      BY <2>0, <2>9 DEF RollBack, TypeOK, intentVars
    <2>10. CASE MarkFailed(i)
      BY <2>0, <2>10 DEF MarkFailed, TypeOK, intentVars
    <2> QED
      BY <1>3, <2>1, <2>2, <2>3, <2>4, <2>5, <2>6, <2>7, <2>8, <2>9, <2>10 DEF IntentStep
  <1>4. CASE Restart
    BY <1>0, <1>4 DEF Restart, intentVars
  <1> QED BY <1>0, <1>1, <1>2, <1>3, <1>4 DEF Next

LEMMA StepReview == TypeOK /\ TypeOK' /\ ReviewInv /\ [Next]_vars => ReviewInv'
  <1> SUFFICES ASSUME TypeOK, TypeOK', ReviewInv, [Next]_vars, NEW j \in Intents
               PROVE  Traced(j)' /\ HeldBack(j)'
    BY DEF ReviewInv
  <1>0. Traced(j) /\ HeldBack(j)
    BY DEF ReviewInv
  <1>1. CASE IntentStep(j)
    BY <1>0, <1>1, OwnReview
  <1>2. CASE ~IntentStep(j)
    <2>1. handling'[j] \in Nat /\ failing'[j] \in Nat /\ calls'[j] \in Nat
      BY DEF TypeOK
    <2> QED BY <1>0, <1>2, <2>1, OthersLeave, UntouchedIntent
  <1> QED BY <1>1, <1>2

LEMMA ReviewInvariant == Spec => []ReviewInv
  <1> QED BY InitReview, StepReview, PaymentsTypeCorrect, PTL DEF Spec

(* Credited money is never sent to review as well, however many deliveries  *)
(* of its event overlap or fail halfway.                                   *)
THEOREM ReviewIsExclusive == Spec => []ReviewedNotCredited
  <1>1. ReviewInv => ReviewedNotCredited
    BY DEF ReviewInv, HeldBack, ReviewedNotCredited
  <1> QED BY <1>1, ReviewInvariant, PTL

LEMMA StepConfirmed ==
  TypeOK /\ [Next]_vars =>
      [\A i \in Intents : intent[i] = "succeeded" => intent'[i] \in Confirmed]_vars
  <1> SUFFICES ASSUME TypeOK, [Next]_vars, NEW j \in Intents, intent[j] = "succeeded"
               PROVE  intent'[j] \in Confirmed
    OBVIOUS
  <1>1. CASE IntentStep(j)
    <2>1. intent'[j] = "succeeded"
      BY <1>1
      DEF IntentStep, CreateIntent, BeginCheckout, RecordCheckout, AfterCheckout, CustomerPays,
          Deliver, FindDuplicate, HoldForReview, KeepIntent, Credit, RollBack, MarkFailed,
          intentVars, TypeOK
    <2> QED BY <2>1 DEF Confirmed
  <1>2. CASE ~IntentStep(j)
    BY <1>2, OthersLeave DEF Confirmed
  <1> QED BY <1>1, <1>2

(* A checkout call still under way never opens a confirmed intent again.    *)
THEOREM ConfirmedForGood == Spec => SucceededStays
  BY StepConfirmed, PaymentsTypeCorrect, PTL DEF Spec, SucceededStays

-----------------------------------------------------------------------------
(* An intent is opened for the whole balance, and the balance only shrinks. *)
(* So what credits it pays the order in full, and nothing credits it again, *)
(* not even when a refund has since taken its status away: its amount does  *)
(* not fit the balance any more.                                           *)
PaidFor(i) == \E n \in RowsOf(i) : rows[SourceOrder[i]][n].amount = amount[i]

RowInv(i) ==
    /\ \A m, n \in RowsOf(i) : m = n
    /\ intent[i] # "none" => amount[i] > 0 /\ Outstanding(SourceOrder[i]) <= amount[i]
    /\ RowsOf(i) # {} => intent[i] # "none" /\ ~FitsBalance(i)
    /\ intent[i] \in Confirmed => PaidFor(i)

SameRows(j) ==
    /\ RowsOf(j)' = RowsOf(j)
    /\ \A n \in RowsOf(j) : rows'[SourceOrder[j]][n].amount = rows[SourceOrder[j]][n].amount

(* A payment of anybody else leaves the rows of an intent as they are.      *)
LEMMA ForeignPayment ==
  ASSUME TypeOK, NEW j \in Intents, NEW o \in Orders, NEW n \in Nat,
         NEW by \in Intents \cup {"none", "mirror"}, by # j, AddPayment(o, n, by)
  PROVE  SameRows(j)
  <1>0. SourceOrder[j] \in Orders
    BY PaymentsAssumption
  <1>1. CASE rows'[SourceOrder[j]] = rows[SourceOrder[j]]
    BY <1>1 DEF SameRows, RowsOf
  <1>2. CASE rows'[SourceOrder[j]] # rows[SourceOrder[j]]
    <2> DEFINE s == rows[SourceOrder[j]]
               row == [amount |-> n, intent |-> by]
    <2>1. rows'[SourceOrder[j]] = Append(s, row)
      BY <1>0, <1>2 DEF AddPayment, TypeOK
    <2>2. s \in Seq(PaymentRow) /\ row \in PaymentRow
      BY <1>0 DEF TypeOK, PaymentRow
    <2>3. /\ DOMAIN s = 1..Len(s) /\ Len(s) \in Nat
          /\ DOMAIN Append(s, row) = 1..(Len(s) + 1)
          /\ \A k \in 1..Len(s) : Append(s, row)[k] = s[k]
          /\ Append(s, row)[Len(s) + 1] = row
      BY <2>2, AppendProperties, LenProperties
    <2> QED BY <2>1, <2>3 DEF SameRows, RowsOf
  <1> QED BY <1>1, <1>2

(* Nor does the mirror, which only names rows that have no intent.          *)
LEMMA MirrorLeaves ==
  ASSUME NEW j \in Intents,
         LET s == rows[SourceOrder[j]]
             t == rows'[SourceOrder[j]]
         IN  /\ t = [n \in DOMAIN s |-> t[n]]
             /\ \A n \in DOMAIN s :
                  t[n] = s[n] \/ (s[n].intent = "none" /\ t[n].intent = "mirror")
  PROVE  SameRows(j)
  <1> DEFINE s == rows[SourceOrder[j]]
             t == rows'[SourceOrder[j]]
  <1>1. j # "none" /\ j # "mirror"
    BY PaymentsAssumption
  <1>2. DOMAIN t = DOMAIN s
    OBVIOUS
  <1>3. \A n \in DOMAIN s : t[n].intent = j <=> s[n].intent = j
    BY <1>1
  <1>4. \A n \in DOMAIN s : s[n].intent = j => t[n] = s[n]
    BY <1>1
  <1>5. RowsOf(j)' = RowsOf(j)
    BY <1>2, <1>3 DEF RowsOf
  <1> QED BY <1>4, <1>5 DEF SameRows, RowsOf

LEMMA RowsKept ==
  ASSUME TypeOK, [Next]_vars, NEW j \in Intents, ~Credit(j)
  PROVE  SameRows(j)
  <1>0. /\ SourceOrder \in [Intents -> Orders] /\ OrderTotal \in [Orders -> Nat]
        /\ "none" # j /\ amount \in [Intents -> Nat]
    BY PaymentsAssumption DEF TypeOK
  <1>1. CASE rows' = rows
    BY <1>1 DEF SameRows, RowsOf
  <1>2. ASSUME NEW o \in Orders, OrderStep(o), rows' # rows PROVE SameRows(j)
    <2>1. ASSUME NEW n \in 1..OrderTotal[o], RecordPayment(o, n) PROVE SameRows(j)
      <3>1. n \in Nat /\ AddPayment(o, n, "none")
        BY <1>0, <2>1 DEF RecordPayment
      <3> QED BY <1>0, <3>1, ForeignPayment
    <2>2. CASE MirrorLatest(o)
      <3>1. CASE o = SourceOrder[j]
        <4> DEFINE s == rows[o]
                   t == rows'[o]
        <4>1. t = [n \in DOMAIN s |->
                IF n = Len(s) /\ s[n].intent = "none"
                THEN [s[n] EXCEPT !.intent = "mirror"] ELSE s[n]]
          BY <2>2 DEF MirrorLatest, TypeOK
        <4>2. s \in Seq(PaymentRow)
          BY DEF TypeOK
        <4>3. ASSUME NEW n \in DOMAIN s
              PROVE  t[n] = s[n] \/ (s[n].intent = "none" /\ t[n].intent = "mirror")
          <5>1. s[n] \in PaymentRow
            BY <4>2, ElementOfSeq, LenProperties
          <5> QED BY <4>1, <5>1 DEF PaymentRow
        <4>4. t = [n \in DOMAIN s |-> t[n]]
          BY <4>1
        <4> QED BY <3>1, <4>3, <4>4, MirrorLeaves
      <3>2. CASE o # SourceOrder[j]
        BY <1>0, <2>2, <3>2 DEF MirrorLatest, TypeOK, SameRows, RowsOf
      <3> QED BY <3>1, <3>2
    <2>3. CASE CancelOrder(o)
      BY <1>2, <2>3 DEF CancelOrder
    <2> QED BY <1>2, <2>1, <2>2, <2>3 DEF OrderStep
  <1>3. ASSUME NEW i \in Intents, IntentStep(i), rows' # rows PROVE SameRows(j)
    <2>1. Credit(i)
      BY <1>3
      DEF IntentStep, CreateIntent, BeginCheckout, RecordCheckout, CustomerPays, Deliver,
          FindDuplicate, HoldForReview, RollBack, MarkFailed, orderVars
    <2>2. i # j /\ AddPayment(SourceOrder[i], amount[i], i)
      BY <2>1 DEF Credit
    <2> QED BY <1>0, <2>2, ForeignPayment
  <1>4. CASE Restart
    <2> DEFINE s == rows[SourceOrder[j]]
               t == rows'[SourceOrder[j]]
    <2>1. t = [n \in DOMAIN s |->
            IF s[n].intent = "none" THEN [s[n] EXCEPT !.intent = "mirror"] ELSE s[n]]
      BY <1>0, <1>4 DEF Restart
    <2>2. s \in Seq(PaymentRow)
      BY <1>0 DEF TypeOK
    <2>3. ASSUME NEW n \in DOMAIN s
          PROVE  t[n] = s[n] \/ (s[n].intent = "none" /\ t[n].intent = "mirror")
      <3>1. s[n] \in PaymentRow
        BY <2>2, ElementOfSeq, LenProperties
      <3> QED BY <2>1, <3>1 DEF PaymentRow
    <2>4. t = [n \in DOMAIN s |-> t[n]]
      BY <2>1
    <2> QED BY <2>3, <2>4, MirrorLeaves
  <1> QED BY <1>1, <1>2, <1>3, <1>4 DEF Next, vars, orderVars

LEMMA OwnCredit ==
  ASSUME TypeOK, NEW j \in Intents, RowInv(j), Traced(j), Credit(j)
  PROVE  RowInv(j)'
  <1> DEFINE o == SourceOrder[j]
             row == [amount |-> amount[j], intent |-> j]
  <1>1. o \in Orders /\ rows[o] \in Seq(PaymentRow) /\ row \in PaymentRow
    BY PaymentsAssumption DEF TypeOK, PaymentRow
  <1>2. RowsOf(j) = {}
    BY DEF RowInv, Credit, MayCredit
  <1>3. rows'[o] = Append(rows[o], row)
    <2>1. ~HasRow(o, j)
      BY <1>2 DEF HasRow, RowsOf
    <2>2. rows' = [rows EXCEPT ![o] = Append(@, row)]
      BY <2>1 DEF Credit, AddPayment
    <2> QED BY <1>1, <2>2 DEF TypeOK
  <1>4. /\ DOMAIN rows[o] = 1..Len(rows[o]) /\ Len(rows[o]) \in Nat
        /\ DOMAIN rows'[o] = 1..(Len(rows[o]) + 1)
        /\ \A k \in 1..Len(rows[o]) : rows'[o][k] = rows[o][k]
        /\ rows'[o][Len(rows[o]) + 1] = row
    BY <1>1, <1>3, AppendProperties, LenProperties
  <1>5. RowsOf(j)' = {Len(rows[o]) + 1}
    <2>1. \A k \in 1..Len(rows[o]) : rows'[o][k].intent # j
      BY <1>2, <1>4 DEF RowsOf
    <2>2. rows'[o][Len(rows[o]) + 1].intent = j
      BY <1>4
    <2>3. RowsOf(j)' = {k \in 1..(Len(rows[o]) + 1) : rows'[o][k].intent = j}
      BY <1>4 DEF RowsOf
    <2>4. 1..(Len(rows[o]) + 1) = 1..Len(rows[o]) \cup {Len(rows[o]) + 1}
      BY <1>4
    <2> QED BY <2>1, <2>2, <2>3, <2>4
  <1>6. intent'[j] = "succeeded" /\ amount'[j] = amount[j]
    BY DEF Credit, TypeOK
  <1>7. rows'[o][Len(rows[o]) + 1].amount = amount[j]
    BY <1>4
  <1>8. \E n \in RowsOf(j)' : rows'[o][n].amount = amount'[j]
    BY <1>5, <1>6, <1>7
  <1>9. \A m, n \in RowsOf(j)' : m = n
    BY <1>5
  <1>10. intent[j] # "none"
    BY DEF Credit, MayCredit, Traced
  <1>11. amount'[j] > 0 /\ Outstanding(o)' <= 0 /\ Outstanding(o)' \in Int
    <2>1. paid' = [paid EXCEPT ![o] = @ + amount[j]]
      BY DEF Credit, AddPayment, PaidAfter, TypeOK
    <2>2. OrderTotal[o] \in Nat /\ paid[o] \in Nat /\ amount[j] \in Nat
      BY <1>1, PaymentsAssumption DEF TypeOK
    <2>3. paid'[o] = paid[o] + amount[j]
      BY <1>1, <2>1 DEF TypeOK
    <2> QED BY <1>6, <1>10, <2>2, <2>3 DEF RowInv, Outstanding
  <1> HIDE DEF row
  <1>12. amount'[j] \in Nat
    BY <1>6 DEF TypeOK
  <1> HIDE DEF o
  <1>13. Outstanding(o)' <= amount'[j] /\ ~(amount'[j] <= Outstanding(o)')
    BY <1>11, <1>12
  <1> QED BY <1>6, <1>8, <1>9, <1>11, <1>13 DEF RowInv, FitsBalance, PaidFor, o

LEMMA OtherCredit ==
  ASSUME TypeOK, TypeOK', [Next]_vars, NEW j \in Intents, RowInv(j), Traced(j), ~Credit(j)
  PROVE  RowInv(j)'
  <1>0. SourceOrder[j] \in Orders /\ amount[j] \in Nat /\ amount'[j] \in Nat
    BY PaymentsAssumption DEF TypeOK
  <1>1. SameRows(j)
    BY RowsKept
  <1>2. /\ Outstanding(SourceOrder[j]) \in Int /\ Outstanding(SourceOrder[j])' \in Int
        /\ Outstanding(SourceOrder[j])' <= Outstanding(SourceOrder[j])
    BY <1>0, BalanceShrinks
  <1>3. CASE CreateIntent(j)
    <2>1. /\ intent[j] = "none" /\ intent'[j] \in OpenStatuses /\ paid' = paid
          /\ amount'[j] = Outstanding(SourceOrder[j]) /\ Outstanding(SourceOrder[j]) > 0
      BY <1>3 DEF CreateIntent, TypeOK, orderVars, OpenStatuses
    <2>2. RowsOf(j)' = {}
      BY <1>1, <2>1 DEF RowInv, SameRows
    <2>3. Outstanding(SourceOrder[j])' = Outstanding(SourceOrder[j])
      BY <2>1 DEF Outstanding
    <2> QED BY <1>2, <2>1, <2>2, <2>3 DEF RowInv, OpenStatuses, Confirmed
  <1>4. CASE ~CreateIntent(j)
    <2>1. /\ intent'[j] = "none" <=> intent[j] = "none"
          /\ intent'[j] \in Confirmed => intent[j] \in Confirmed
          /\ amount'[j] = amount[j]
      <3>1. CASE RecordCheckout(j)
        <4>1. /\ calls[j] > 0 /\ intent'[j] = AfterCheckout(j) /\ amount'[j] = amount[j]
          BY <3>1 DEF RecordCheckout, TypeOK
        <4> QED BY <4>1 DEF AfterCheckout, Traced, Confirmed
      <3>3. CASE IntentStep(j) /\ ~RecordCheckout(j)
        BY <1>4, <3>3
        DEF IntentStep, BeginCheckout, CustomerPays, Deliver, FindDuplicate, HoldForReview,
            KeepIntent, RollBack, MarkFailed, intentVars
      <3>2. CASE ~IntentStep(j)
        BY <3>2, OthersLeave
      <3> QED BY <3>1, <3>2, <3>3
    <2>2. PaidFor(j) => PaidFor(j)'
      BY <1>1, <2>1 DEF PaidFor, SameRows
    <2>3. ~FitsBalance(j) => ~FitsBalance(j)'
      BY <1>0, <1>2, <2>1 DEF FitsBalance
    <2>4. Outstanding(SourceOrder[j]) <= amount[j] => Outstanding(SourceOrder[j])' <= amount'[j]
      BY <1>0, <1>2, <2>1
    <2> QED BY <1>1, <2>1, <2>2, <2>3, <2>4 DEF RowInv, SameRows
  <1> QED BY <1>3, <1>4

RowsInv == \A i \in Intents : RowInv(i)

LEMMA InitRows == Init => RowsInv
  <1> SUFFICES ASSUME Init, NEW i \in Intents PROVE RowInv(i)
    BY DEF RowsInv
  <1>1. RowsOf(i) = {} /\ intent[i] = "none"
    BY PaymentsAssumption DEF Init, RowsOf
  <1> QED BY <1>1 DEF RowInv, Confirmed

LEMMA StepRows == TypeOK /\ TypeOK' /\ ReviewInv /\ RowsInv /\ [Next]_vars => RowsInv'
  <1> SUFFICES ASSUME TypeOK, TypeOK', ReviewInv, RowsInv, [Next]_vars, NEW j \in Intents
               PROVE  RowInv(j)'
    BY DEF RowsInv
  <1>0. RowInv(j) /\ Traced(j)
    BY DEF RowsInv, ReviewInv
  <1>1. CASE Credit(j)
    BY <1>0, <1>1, OwnCredit
  <1>2. CASE ~Credit(j)
    BY <1>0, <1>2, OtherCredit
  <1> QED BY <1>1, <1>2

LEMMA RowsInvariant == Spec => []RowsInv
  BY InitRows, StepRows, ReviewInvariant, PaymentsTypeCorrect, PTL DEF Spec

(* A confirmed intent has paid its order with exactly one row, of its own   *)
(* amount; no intent has two.                                              *)
THEOREM CreditIsOnce == Spec => []CreditedOnce
  <1>1. RowsInv => CreditedOnce
    BY DEF RowsInv, RowInv, PaidFor, CreditedOnce
  <1> QED BY <1>1, RowsInvariant, PTL

-----------------------------------------------------------------------------
(* The sum of the amounts of an order's payment rows.                       *)
Amounts(s) == [n \in DOMAIN s |-> s[n].amount]
RowTotal(s) == Total(Amounts(s), DOMAIN s)

(* A row more adds its amount.                                             *)
LEMMA RowTotalAppended ==
  ASSUME NEW s \in Seq(PaymentRow), NEW row \in PaymentRow
  PROVE  RowTotal(Append(s, row)) = RowTotal(s) + row.amount
  <1> DEFINE t == Append(s, row)
             f == Amounts(t)
             S == DOMAIN s
             last == Len(s) + 1
  <1>1. /\ S = 1..Len(s) /\ Len(s) \in Nat /\ DOMAIN t = 1..last
        /\ \A k \in 1..Len(s) : t[k] = s[k] /\ s[k] \in PaymentRow
        /\ t[last] = row
    BY AppendProperties, LenProperties, ElementOfSeq
  <1>2. IsFiniteSet(S) /\ last \notin S /\ DOMAIN t = S \cup {last}
    <2>1. 1..last = 1..Len(s) \cup {last} /\ last \notin 1..Len(s)
      BY <1>1
    <2>2. IsFiniteSet(1..Len(s))
      BY <1>1, FS_Interval
    <2> QED BY <1>1, <2>1, <2>2
  <1>3. \A k \in S : f[k] = Amounts(s)[k]
    BY <1>1, <1>2 DEF Amounts
  <1>4. f[last] = row.amount
    BY <1>1, <1>2 DEF Amounts
  <1>5. \A k \in S \cup {last} : f[k] \in Int
    BY <1>1, <1>2, <1>4 DEF Amounts, PaymentRow
  <1> HIDE DEF f, S, last
  <1>6. Total(f, S \cup {last}) = Total(f, S) + f[last]
    BY <1>2, <1>5, TotalAdd
  <1>7. Total(f, S) = Total(Amounts(s), S)
    BY <1>2, <1>3, TotalSame
  <1>8. RowTotal(t) = Total(f, S \cup {last})
    BY <1>2, Zenon DEF RowTotal, f
  <1> QED BY <1>4, <1>6, <1>7, <1>8 DEF RowTotal, S

(* Rows that keep their amounts keep their sum.                            *)
LEMMA RowTotalKept ==
  ASSUME NEW s, NEW t, DOMAIN t = DOMAIN s, \A n \in DOMAIN s : t[n].amount = s[n].amount
  PROVE  RowTotal(t) = RowTotal(s)
  <1>1. Amounts(t) = Amounts(s)
    BY DEF Amounts
  <1> QED BY <1>1, Zenon DEF RowTotal

LEMMA EmptyRowTotal == RowTotal(<<>>) = 0
  <1>1. DOMAIN <<>> = {}
    OBVIOUS
  <1>2. RowTotal(<<>>) = Total(Amounts(<<>>), {})
    BY <1>1, Zenon DEF RowTotal
  <1> QED BY <1>2, TotalEmpty

Evidenced(o) == paid[o] = RowTotal(rows[o])

(* A payment that has no row yet adds its amount to both.                   *)
LEMMA PaymentEvidenced ==
  ASSUME TypeOK, NEW o \in Orders, NEW n \in Nat, NEW by \in Intents \cup {"none", "mirror"},
         AddPayment(o, n, by), ~HasRow(o, by), NEW p \in Orders, Evidenced(p)
  PROVE  Evidenced(p)'
  <1> DEFINE row == [amount |-> n, intent |-> by]
  <1>1. /\ rows' = [rows EXCEPT ![o] = Append(@, row)] /\ paid' = [paid EXCEPT ![o] = @ + n]
    BY DEF AddPayment, PaidAfter, TypeOK
  <1>2. row \in PaymentRow /\ row.amount = n /\ rows[o] \in Seq(PaymentRow)
    BY DEF PaymentRow, TypeOK
  <1>3. CASE p = o
    <2>1. rows'[o] = Append(rows[o], row) /\ paid'[o] = paid[o] + n
      BY <1>1 DEF TypeOK
    <2>2. RowTotal(Append(rows[o], row)) = RowTotal(rows[o]) + n
      BY <1>2, RowTotalAppended
    <2> HIDE DEF row
    <2> QED BY <1>3, <2>1, <2>2 DEF Evidenced
  <1>4. CASE p # o
    BY <1>1, <1>4 DEF TypeOK, Evidenced
  <1> QED BY <1>3, <1>4

(* The mirror names rows and changes no amount.                            *)
LEMMA RenamedEvidenced ==
  ASSUME TypeOK, NEW p \in Orders, Evidenced(p), paid' = paid,
         DOMAIN rows'[p] = DOMAIN rows[p],
         \A n \in DOMAIN rows[p] : \/ rows'[p][n] = rows[p][n]
                                   \/ rows'[p][n] = [rows[p][n] EXCEPT !.intent = "mirror"]
  PROVE  Evidenced(p)'
  <1>1. ASSUME NEW n \in DOMAIN rows[p] PROVE rows'[p][n].amount = rows[p][n].amount
    <2>1. rows[p][n] \in PaymentRow
      BY ElementOfSeq, LenProperties DEF TypeOK
    <2> QED BY <2>1 DEF PaymentRow
  <1> QED BY <1>1, RowTotalKept DEF Evidenced

LEMMA StepEvidenced ==
  ASSUME TypeOK, RowsInv, [Next]_vars, NEW p \in Orders, Evidenced(p)
  PROVE  Evidenced(p)'
  <1>0. SourceOrder \in [Intents -> Orders] /\ amount \in [Intents -> Nat]
    BY PaymentsAssumption DEF TypeOK
  <1>1. CASE UNCHANGED <<paid, rows>>
    BY <1>1 DEF Evidenced
  <1>2. ASSUME NEW o \in Orders, NEW n \in 1..OrderTotal[o], RecordPayment(o, n)
        PROVE  Evidenced(p)'
    <2>1. n \in Nat /\ AddPayment(o, n, "none") /\ ~HasRow(o, "none")
      BY <1>2, PaymentsAssumption DEF RecordPayment, HasRow
    <2> QED BY <2>1, PaymentEvidenced
  <1>3. ASSUME NEW o \in Orders, MirrorLatest(o) PROVE Evidenced(p)'
    <2>1. CASE p = o
      <3>1. rows'[o] = [n \in DOMAIN rows[o] |->
              IF n = Len(rows[o]) /\ rows[o][n].intent = "none"
              THEN [rows[o][n] EXCEPT !.intent = "mirror"] ELSE rows[o][n]]
        BY <1>3 DEF MirrorLatest, TypeOK
      <3>2. paid' = paid
        BY <1>3 DEF MirrorLatest
      <3> QED BY <2>1, <3>1, <3>2, RenamedEvidenced
    <2>2. CASE p # o
      BY <1>3, <2>2 DEF MirrorLatest, TypeOK, Evidenced
    <2> QED BY <2>1, <2>2
  <1>4. ASSUME NEW i \in Intents, Credit(i) PROVE Evidenced(p)'
    <2>1. ~HasRow(SourceOrder[i], i)
      BY <1>4 DEF RowsInv, RowInv, RowsOf, HasRow, Credit, MayCredit
    <2>2. AddPayment(SourceOrder[i], amount[i], i)
      BY <1>4 DEF Credit
    <2> QED BY <1>0, <2>1, <2>2, PaymentEvidenced
  <1>5. CASE Restart
    <2>1. rows'[p] = [n \in DOMAIN rows[p] |->
            IF rows[p][n].intent = "none"
            THEN [rows[p][n] EXCEPT !.intent = "mirror"] ELSE rows[p][n]]
      BY <1>5 DEF Restart
    <2>2. paid' = paid
      BY <1>5 DEF Restart
    <2> QED BY <2>1, <2>2, RenamedEvidenced
  <1>6. ASSUME NEW o \in Orders, CancelOrder(o) PROVE UNCHANGED <<paid, rows>>
    BY <1>6 DEF CancelOrder
  <1>7. ASSUME NEW i \in Intents, IntentStep(i), ~Credit(i) PROVE UNCHANGED <<paid, rows>>
    BY <1>7
    DEF IntentStep, CreateIntent, BeginCheckout, RecordCheckout, CustomerPays, Deliver,
        FindDuplicate, HoldForReview, RollBack, MarkFailed, orderVars
  <1>8. CASE UNCHANGED vars
    BY <1>1, <1>8 DEF vars, orderVars
  <1> QED
    BY <1>1, <1>2, <1>3, <1>4, <1>5, <1>6, <1>7, <1>8 DEF Next, OrderStep

AllEvidenced == \A o \in Orders : Evidenced(o)

LEMMA InitEvidenced == Init => AllEvidenced
  BY EmptyRowTotal DEF Init, Evidenced, AllEvidenced

LEMMA EvidenceIsAll == AllEvidenced => PaidIsEvidenced
  BY DEF AllEvidenced, Evidenced, RowTotal, Amounts, PaidIsEvidenced

(* The paid amount of an order is what its payment rows add up to: no       *)
(* intent that has a row is credited, so no credit goes without one.        *)
THEOREM PaymentsAreEvidenced == Spec => []PaidIsEvidenced
  <1>1. TypeOK /\ RowsInv /\ AllEvidenced /\ [Next]_vars => AllEvidenced'
    BY StepEvidenced DEF AllEvidenced
  <1> QED
    BY <1>1, InitEvidenced, EvidenceIsAll, RowsInvariant, PaymentsTypeCorrect, PTL DEF Spec

-----------------------------------------------------------------------------

Places == {"idle", "read", "asking", "answered", "booking", "totalling", "full", "partial",
           "closing"}
Answers == {"none", "succeeded", "failed", "pending", "processing"}

RefundTables ==
    /\ refund \in [RefundIds -> {"none", "checked", "requested", "processing",
                                 "succeeded", "failed"}]
    /\ refundAmount \in [RefundIds -> Nat]
    /\ booked \in [RefundIds -> Nat]
    /\ provider \in [RefundIds -> Answers]
    /\ work \in [Workers -> [refund : RefundIds \cup {"none"}, at : Places]]

(* An execution that is past "idle" is of a refund.                         *)
Working == \A w \in Workers : work[w].at # "idle" => work[w].refund \in RefundIds

(* What is on record, or about to be, the provider has made.                *)
Real(r) == refund[r] = "succeeded" \/ booked[r] > 0 => provider[r] = "succeeded"

BooksReal == \A w \in Workers :
    work[w].at = "booking" => provider[work[w].refund] = "succeeded"

RefundInv ==
    /\ RefundTables
    /\ Working
    /\ \A r \in RefundIds : Real(r)
    /\ BooksReal

LEMMA InitRefunds == RefundsInit => TypeOK /\ RefundInv
  <1> SUFFICES ASSUME RefundsInit PROVE TypeOK /\ RefundInv
    OBVIOUS
  <1>1. TypeOK
    BY InitType DEF RefundsInit
  <1>2. RefundTables
    BY DEF RefundsInit, RefundTables, Idle, Places, Answers
  <1>3. Working /\ BooksReal /\ \A r \in RefundIds : Real(r)
    BY DEF RefundsInit, Working, BooksReal, Real, Idle
  <1> QED BY <1>1, <1>2, <1>3 DEF RefundInv

(* Payments' own steps leave the refund tables alone.                       *)
LEMMA UntouchedRefunds == RefundInv /\ UNCHANGED refundVars => RefundInv'
  BY DEF RefundInv, RefundTables, Working, Real, BooksReal, refundVars

LEMMA RequestStep ==
  ASSUME TypeOK, RefundInv, NEW r \in RefundIds, RefundStep(r)
  PROVE  TypeOK' /\ RefundInv'
  <1> USE DEF RefundInv
  <1>0. RefundOf[r] \in Intents /\ amount[RefundOf[r]] \in Nat
    BY RefundsAssumption DEF TypeOK
  <1>1. ASSUME NEW n \in 1..amount[RefundOf[r]], CheckRefund(r, n) PROVE RefundInv'
    <2>1. n \in Nat
      BY <1>0
    <2>2. RefundTables'
      BY <1>1, <2>1 DEF CheckRefund, RefundTables
    <2>3. Working' /\ BooksReal' /\ \A p \in RefundIds : Real(p)'
      BY <1>1 DEF CheckRefund, RefundTables, Working, BooksReal, Real
    <2> QED BY <2>2, <2>3
  <1>2. ASSUME InsertRefund(r) PROVE RefundInv'
    <2>1. RefundTables'
      BY <1>2 DEF InsertRefund, RefundTables
    <2>2. Working' /\ BooksReal' /\ \A p \in RefundIds : Real(p)'
      BY <1>2 DEF InsertRefund, RefundTables, Working, BooksReal, Real
    <2> QED BY <2>1, <2>2
  <1>3. ASSUME NEW s \in {"succeeded", "failed"}, ProviderEnds(r, s) PROVE RefundInv'
    <2>1. RefundTables'
      BY <1>3 DEF ProviderEnds, RefundTables, Answers
    <2>2. \A p \in RefundIds : provider[p] = "succeeded" => provider'[p] = "succeeded"
      BY <1>3 DEF ProviderEnds, RefundTables, Moving
    <2>3. Working' /\ BooksReal' /\ \A p \in RefundIds : Real(p)'
      BY <1>3, <2>2 DEF ProviderEnds, Working, BooksReal, Real
    <2> QED BY <2>1, <2>3
  <1>4. UNCHANGED vars
    BY DEF RefundStep, CheckRefund, InsertRefund, ProviderEnds
  <1>5. TypeOK'
    BY <1>4, StepType
  <1> QED BY <1>1, <1>2, <1>3, <1>5 DEF RefundStep

LEMMA Increment ==
  ASSUME NEW S, NEW f \in [S -> Nat], NEW x
  PROVE  [f EXCEPT ![x] = @ + 1] \in [S -> Nat]
  <1>1. ASSUME NEW y \in S PROVE [f EXCEPT ![x] = @ + 1][y] \in Nat
    <2>1. f[y] \in Nat
      OBVIOUS
    <2> QED BY <2>1
  <1> QED BY <1>1

LEMMA ExecutionStep ==
  ASSUME TypeOK, RefundInv, NEW w \in Workers, WorkerStep(w)
  PROVE  RefundInv'
  <1> USE DEF RefundInv
  <1> DEFINE r == work[w].refund
  <1>0. work[w].at # "idle" => r \in RefundIds
    BY DEF Working
  <1>1. ASSUME NEW p \in RefundIds, StartRefund(w, p) PROVE RefundInv'
    <2>1. RefundTables'
      BY <1>1 DEF StartRefund, RefundTables, Places
    <2>2. Working' /\ BooksReal' /\ \A q \in RefundIds : Real(q)'
      BY <1>1 DEF StartRefund, RefundTables, Working, BooksReal, Real
    <2> QED BY <2>1, <2>2
  <1>2. CASE MarkProcessing(w)
    <2>1. RefundTables'
      BY <1>2 DEF MarkProcessing, Reach, RefundTables, Places
    <2>2. Working' /\ BooksReal' /\ \A q \in RefundIds : Real(q)'
      BY <1>0, <1>2 DEF MarkProcessing, Reach, RefundTables, Working, BooksReal, Real
    <2> QED BY <2>1, <2>2
  <1>3. CASE ProviderTakes(w)
    <2>0. \/ provider' = provider
          \/ provider[r] = "none" /\ \E s \in Answers : provider' = [provider EXCEPT ![r] = s]
      BY <1>3 DEF ProviderTakes, Answers, Moving
    <2>1. RefundTables'
      BY <1>3, <2>0 DEF ProviderTakes, Reach, RefundTables, Places
    <2>2. \A q \in RefundIds : provider[q] = "succeeded" => provider'[q] = "succeeded"
      BY <2>0 DEF RefundTables
    <2>3. Working' /\ BooksReal' /\ \A q \in RefundIds : Real(q)'
      BY <1>0, <1>3, <2>2 DEF ProviderTakes, Reach, RefundTables, Working, BooksReal, Real
    <2> QED BY <2>1, <2>3
  <1>4. CASE TakeAnswer(w)
    <2> DEFINE status == Mapped(provider[r])
    <2>0. r \in RefundIds /\ provider[r] \in Answers
      BY <1>0, <1>4 DEF TakeAnswer, RefundTables
    <2>1. /\ refund' = [refund EXCEPT ![r] = status]
          /\ UNCHANGED <<refundAmount, booked, provider>>
      BY <1>4 DEF TakeAnswer
    <2>2. /\ status \in {"none", "succeeded", "failed", "processing"}
          /\ status = "succeeded" => provider[r] = "succeeded"
      BY <2>0 DEF Mapped, Answers
    <2>3. \/ work' = [work EXCEPT ![w] = Idle]
          \/ status = "succeeded" /\ work' = [work EXCEPT ![w].at = "booking"]
          \/ work' = [work EXCEPT ![w].at = "closing"]
      BY <1>4 DEF TakeAnswer, Reach, Leave
    <2> HIDE DEF status
    <2>4. work' \in [Workers -> [refund : RefundIds \cup {"none"}, at : Places]]
      BY <2>3 DEF Idle, RefundTables, Places
    <2>5. refund' \in [RefundIds -> {"none", "checked", "requested", "processing",
                                    "succeeded", "failed"}]
      BY <2>1, <2>2 DEF RefundTables
    <2>6. RefundTables'
      BY <2>1, <2>4, <2>5 DEF RefundTables
    <2>7. \A q \in RefundIds : Real(q)'
      BY <2>1, <2>2 DEF RefundTables, Real
    <2>8. Working'
      BY <2>0, <2>3 DEF Idle, RefundTables, Working
    <2>9. BooksReal'
      BY <2>1, <2>2, <2>3 DEF Idle, RefundTables, BooksReal
    <2> QED BY <2>6, <2>7, <2>8, <2>9
  <1>5. CASE ExecutionFails(w)
    <2>1. RefundTables'
      BY <1>5 DEF ExecutionFails, Leave, Idle, RefundTables, Places
    <2>2. Working' /\ BooksReal' /\ \A q \in RefundIds : Real(q)'
      BY <1>5 DEF ExecutionFails, Leave, Idle, RefundTables, Working, BooksReal, Real
    <2> QED BY <2>1, <2>2
  <1>6. CASE BookRefund(w)
    <2>2. provider[r] = "succeeded"
      BY <1>6 DEF BookRefund, BooksReal
    <2>3. /\ booked' = [booked EXCEPT ![r] = @ + 1]
          /\ work' = [work EXCEPT ![w].at = "totalling"]
          /\ UNCHANGED <<refund, refundAmount, provider>>
      BY <1>6 DEF BookRefund, Reach
    <2>1. RefundTables'
      <3>0. booked \in [RefundIds -> Nat]
        BY DEF RefundTables
      <3>1. booked' \in [RefundIds -> Nat]
        BY <2>3, <3>0, Increment
      <3>2. work' \in [Workers -> [refund : RefundIds \cup {"none"}, at : Places]]
        BY <2>3 DEF RefundTables, Places
      <3> QED BY <2>3, <3>1, <3>2 DEF RefundTables
    <2>4. \A q \in RefundIds : Real(q)'
      BY <2>2, <2>3 DEF RefundTables, Real
    <2>5. Working' /\ BooksReal'
      BY <1>0, <1>6, <2>3 DEF BookRefund, RefundTables, Working, BooksReal
    <2> QED BY <2>1, <2>4, <2>5
  <1>7. CASE TotalRefunds(w)
    <2>1. RefundTables'
      BY <1>7 DEF TotalRefunds, Reach, RefundTables, Places
    <2>2. Working' /\ BooksReal' /\ \A q \in RefundIds : Real(q)'
      BY <1>0, <1>7 DEF TotalRefunds, Reach, RefundTables, Working, BooksReal, Real
    <2> QED BY <2>1, <2>2
  <1>8. CASE CloseRefund(w)
    <2>1. RefundTables'
      BY <1>8 DEF CloseRefund, Reach, RefundTables, Places
    <2>2. Working' /\ BooksReal' /\ \A q \in RefundIds : Real(q)'
      BY <1>0, <1>8 DEF CloseRefund, Reach, RefundTables, Working, BooksReal, Real
    <2> QED BY <2>1, <2>2
  <1>9. CASE EndExecution(w)
    <2>1. RefundTables'
      BY <1>9 DEF EndExecution, Leave, Idle, RefundTables, Places
    <2>2. Working' /\ BooksReal' /\ \A q \in RefundIds : Real(q)'
      BY <1>9 DEF EndExecution, Leave, Idle, RefundTables, Working, BooksReal, Real
    <2> QED BY <2>1, <2>2
  <1> QED
    BY <1>1, <1>2, <1>3, <1>4, <1>5, <1>6, <1>7, <1>8, <1>9 DEF WorkerStep

(* An execution's last statement closes the intent; the rest leave Payments *)
(* alone.                                                                  *)
LEMMA ExecutionType ==
  ASSUME TypeOK, RefundInv, NEW w \in Workers, WorkerStep(w)
  PROVE  TypeOK'
  <1>1. CASE CloseRefund(w)
    BY <1>1
    DEF CloseRefund, TypeOK, IntentStatuses, Confirmed, orderVars, webhookVars
  <1>2. CASE ~CloseRefund(w)
    <2>1. UNCHANGED vars
      BY <1>2
      DEF WorkerStep, StartRefund, MarkProcessing, ProviderTakes, TakeAnswer, ExecutionFails,
          BookRefund, TotalRefunds, EndExecution
    <2> QED BY <2>1, StepType
  <1> QED BY <1>1, <1>2

LEMMA StepRefunds == TypeOK /\ RefundInv /\ [RefundsNext]_allVars => TypeOK' /\ RefundInv'
  <1> SUFFICES ASSUME TypeOK, RefundInv, [RefundsNext]_allVars PROVE TypeOK' /\ RefundInv'
    OBVIOUS
  <1>1. CASE UNCHANGED allVars
    BY <1>1, StepType, UntouchedRefunds DEF allVars
  <1>2. CASE PaymentStep
    BY <1>2, OrderStepType, IntentStepType, UntouchedRefunds DEF PaymentStep
  <1>3. CASE RestartAll
    <2>1. TypeOK'
      BY <1>3, RestartType DEF RestartAll
    <2>2. RefundTables'
      BY <1>3 DEF RestartAll, RefundInv, RefundTables, Idle, Places
    <2>3. Working' /\ BooksReal'
      BY <1>3 DEF RestartAll, Working, BooksReal, Idle
    <2>4. \A r \in RefundIds : Real(r)'
      BY <1>3 DEF RestartAll, RefundInv, Real
    <2> QED BY <2>1, <2>2, <2>3, <2>4 DEF RefundInv
  <1> QED BY <1>1, <1>2, <1>3, RequestStep, ExecutionStep, ExecutionType DEF RefundsNext

LEMMA RefundInvariant == RefundsSpec => [](TypeOK /\ RefundInv)
  BY InitRefunds, StepRefunds, PTL DEF RefundsSpec

(* Refund rows keep to the statuses their table accepts, whatever the       *)
(* provider answers.                                                       *)
THEOREM RefundsTypeCorrect == RefundsSpec => []RefundsTypeOK
  <1>1. TypeOK /\ RefundInv => RefundsTypeOK
    BY DEF RefundInv, RefundTables, Answers, Places, Moving, RefundsTypeOK
  <1> QED BY <1>1, RefundInvariant, PTL

(* The platform records no refund the provider has not made.                *)
THEOREM NoInventedRefund == RefundsSpec => []RefundsAreReal
  <1>1. RefundInv => RefundsAreReal
    BY DEF RefundInv, Real, RefundsAreReal
  <1> QED BY <1>1, RefundInvariant, PTL

-----------------------------------------------------------------------------
(* Payments under refunds: all of the above still holds, of intents whose   *)
(* status a refund has moved on.                                           *)
PaidInv == ReviewInv /\ RowsInv /\ NeverOverpaid /\ AllEvidenced

LEMMA InitPaid == Init => PaidInv
  BY InitReview, InitRows, InitBalance, InitEvidenced DEF PaidInv

LEMMA StepPaid == TypeOK /\ TypeOK' /\ PaidInv /\ [Next]_vars => PaidInv'
  <1> SUFFICES ASSUME TypeOK, TypeOK', PaidInv, [Next]_vars PROVE PaidInv'
    OBVIOUS
  <1>1. ReviewInv' /\ RowsInv' /\ NeverOverpaid'
    BY StepReview, StepRows, StepBalance DEF PaidInv
  <1>2. AllEvidenced'
    BY StepEvidenced DEF PaidInv, AllEvidenced
  <1> QED BY <1>1, <1>2 DEF PaidInv

(* A payment that was credited stays as it is.                              *)
Standing(i) == PaidFor(i) /\ session[i] = "paid" /\ intent[i] # "none"

LEMMA StandingStays ==
  ASSUME TypeOK, PaidInv, [Next]_vars, NEW j \in Intents, Standing(j)
  PROVE  Standing(j)' /\ amount'[j] = amount[j] /\ (intent'[j] = "refunded" => intent[j] = "refunded")
  <1>0. RowInv(j) /\ Traced(j)
    BY DEF PaidInv, RowsInv, ReviewInv
  <1>1. ~Credit(j)
    BY <1>0 DEF Standing, PaidFor, RowInv, Credit, MayCredit
  <1>2. SameRows(j)
    BY <1>1, RowsKept
  <1>3. /\ intent'[j] # "none" /\ amount'[j] = amount[j] /\ session'[j] = "paid"
        /\ intent'[j] = "refunded" => intent[j] = "refunded"
    <2>1. CASE RecordCheckout(j)
      BY <2>1 DEF RecordCheckout, AfterCheckout, Standing, TypeOK
    <2>2. CASE IntentStep(j) /\ ~RecordCheckout(j)
      BY <1>1, <2>2
      DEF IntentStep, CreateIntent, BeginCheckout, CustomerPays, Deliver, FindDuplicate,
          HoldForReview, KeepIntent, RollBack, MarkFailed, intentVars, Standing, TypeOK
    <2>3. CASE ~IntentStep(j)
      BY <2>3, OthersLeave DEF Standing
    <2> QED BY <2>1, <2>2, <2>3
  <1> QED BY <1>2, <1>3 DEF Standing, PaidFor, SameRows

(* A refund that closes a standing payment's intent changes only its status.*)
LEMMA ClosedIntent ==
  ASSUME TypeOK, PaidInv, NEW i \in Intents, NEW s \in {"refunded", "partially_refunded"},
         Standing(i), intent' = [intent EXCEPT ![i] = s],
         UNCHANGED <<orderVars, amount, openAttempt, calls, session, webhookVars, restarts>>
  PROVE  PaidInv' /\ \A j \in Intents : Standing(j) => Standing(j)'
  <1>1. /\ UNCHANGED <<paid, rows, amount, calls, session, event, handling, failing>>
    BY DEF orderVars, webhookVars
  <1>2. NeverOverpaid' /\ AllEvidenced'
    BY <1>1 DEF PaidInv, NeverOverpaid, AllEvidenced, Evidenced
  <1>3. ASSUME NEW j \in Intents
        PROVE  /\ RowsOf(j)' = RowsOf(j) /\ (PaidFor(j)' <=> PaidFor(j))
               /\ (FitsBalance(j)' <=> FitsBalance(j))
               /\ Outstanding(SourceOrder[j])' = Outstanding(SourceOrder[j])
    BY <1>1 DEF RowsOf, PaidFor, FitsBalance, Outstanding
  <1>4. ASSUME NEW j \in Intents
        PROVE  /\ intent'[j] = "none" <=> intent[j] = "none"
               /\ intent'[j] = "succeeded" => intent[j] = "succeeded"
               /\ intent'[j] \in Confirmed => intent[j] \in Confirmed \/ Standing(j)
    BY DEF Standing, TypeOK
  <1>5. ASSUME NEW j \in Intents PROVE Traced(j)' /\ HeldBack(j)' /\ RowInv(j)'
    <2>1. Traced(j) /\ HeldBack(j) /\ RowInv(j)
      BY DEF PaidInv, ReviewInv, RowsInv
    <2>2. Traced(j)'
      BY <1>1, <1>4, <2>1 DEF Traced, Standing
    <2>3. HeldBack(j)'
      BY <1>1, <1>3, <1>4, <2>1 DEF HeldBack
    <2>4. RowInv(j)'
      BY <1>1, <1>3, <1>4, <2>1 DEF RowInv, Standing
    <2> QED BY <2>2, <2>3, <2>4
  <1>6. \A j \in Intents : Standing(j) => Standing(j)'
    BY <1>1, <1>3, <1>4 DEF Standing
  <1> QED BY <1>2, <1>5, <1>6 DEF PaidInv, ReviewInv, RowsInv

(* Every refund is of a payment that stands, what the provider has made of  *)
(* it was asked for on behalf of a row that was inserted, and an execution  *)
(* that found the payment repaid found so.                                 *)
BackFor(i) == {r \in RefundsFor(i) : provider[r] = "succeeded"}
Repaid(i) == Total(refundAmount, BackFor(i)) >= amount[i]

Inserted(r) == refund[r] \notin {"none", "checked"}

RefundedInv(r) ==
    /\ refund[r] # "none" => Standing(RefundOf[r])
    /\ ~Inserted(r) => provider[r] = "none"

ExecutionInv(w) == \A r \in RefundIds : work[w].refund = r =>
    /\ work[w].at # "idle" => Inserted(r)
    /\ work[w].at = "answered" => provider[r] # "none"
    /\ work[w].at = "full" => Repaid(RefundOf[r])

RepaidInv ==
    /\ \A r \in RefundIds : RefundedInv(r)
    /\ \A w \in Workers : ExecutionInv(w)
    /\ \A i \in Intents : intent[i] = "refunded" => Repaid(i)

(* What the provider has paid back stays paid back.                         *)
LEMMA RepaidStays ==
  ASSUME RefundTables, RefundTables', NEW i \in Intents, Repaid(i), amount'[i] = amount[i],
         amount[i] \in Nat,
         \A r \in RefundIds : provider[r] = "succeeded" =>
            provider'[r] = "succeeded" /\ refundAmount'[r] = refundAmount[r]
  PROVE  Repaid(i)'
  <1> DEFINE R == BackFor(i)
             S == BackFor(i)'
             f == refundAmount
             g == refundAmount'
  <1>1. /\ R \in SUBSET RefundIds /\ S \in SUBSET RefundIds /\ R \subseteq S
        /\ \A r \in R : f[r] = g[r]
        /\ \A r \in S : g[r] \in Nat
    BY DEF BackFor, RefundsFor, RefundTables
  <1>2. IsFiniteSet(R) /\ IsFiniteSet(S)
    BY <1>1, RefundsAssumption, FS_Subset
  <1>3. Total(f, R) >= amount[i]
    BY DEF Repaid
  <1>4. Repaid(i)' <=> Total(g, S) >= amount'[i]
    BY DEF Repaid
  <1>6. \A r \in R : f[r] \in Int /\ g[r] \in Int
    BY <1>1
  <1> HIDE DEF R, S, f, g
  <1>7. Total(f, R) = Total(g, R)
    BY <1>1, <1>2, TotalSame
  <1>8. Total(g, R) <= Total(g, S)
    BY <1>1, <1>2, TotalPart
  <1>9. Total(f, R) \in Int /\ Total(g, S) \in Int
    BY <1>1, <1>2, <1>6, TotalType
  <1> QED BY <1>3, <1>4, <1>7, <1>8, <1>9

(* Succeeded refunds are the provider's: what they cover is repaid.         *)
LEMMA CoveredIsRepaid ==
  ASSUME RefundTables, \A r \in RefundIds : Real(r), NEW i \in Intents, amount[i] \in Nat,
         FullyRefunded(i)
  PROVE  Repaid(i)
  <1> DEFINE R == Succeeded(i)
             S == BackFor(i)
  <1>1. R \in SUBSET S /\ S \in SUBSET RefundIds /\ \A r \in S : refundAmount[r] \in Nat
    BY DEF Succeeded, BackFor, RefundsFor, Real, RefundTables
  <1>2. IsFiniteSet(R) /\ IsFiniteSet(S)
    BY <1>1, RefundsAssumption, FS_Subset
  <1>3. Total(refundAmount, R) >= amount[i]
    BY DEF FullyRefunded
  <1>4. Repaid(i) <=> Total(refundAmount, S) >= amount[i]
    BY DEF Repaid
  <1>5. \A r \in R : refundAmount[r] \in Int
    BY <1>1
  <1>6. \A r \in S : refundAmount[r] \in Int
    BY <1>1
  <1> HIDE DEF R, S
  <1>7. Total(refundAmount, R) <= Total(refundAmount, S)
    BY <1>1, <1>2, TotalPart
  <1>8. Total(refundAmount, R) \in Int /\ Total(refundAmount, S) \in Int
    BY <1>2, <1>5, <1>6, TotalType
  <1> QED BY <1>3, <1>4, <1>7, <1>8

LEMMA InitRepaid == RefundsInit => PaidInv /\ RepaidInv
  <1> SUFFICES ASSUME RefundsInit PROVE PaidInv /\ RepaidInv
    OBVIOUS
  <1>1. PaidInv
    BY InitPaid DEF RefundsInit
  <1>2. \A i \in Intents : intent[i] = "none"
    BY DEF RefundsInit, Init
  <1> QED
    BY <1>1, <1>2 DEF RefundsInit, RepaidInv, RefundedInv, ExecutionInv, Inserted, Idle

(* What no step takes back.                                                 *)
Onward ==
    /\ \A r \in RefundIds : provider[r] = "succeeded" =>
          provider'[r] = "succeeded" /\ refundAmount'[r] = refundAmount[r]
    /\ \A r \in RefundIds : provider[r] # "none" => provider'[r] # "none"
    /\ \A r \in RefundIds : Inserted(r) => Inserted(r)'
    /\ \A i \in Intents : Standing(i) => Standing(i)' /\ amount'[i] = amount[i]

LEMMA OnwardRepaid ==
  ASSUME TypeOK, RefundTables, RefundTables', Onward, NEW i \in Intents, Standing(i), Repaid(i)
  PROVE  Repaid(i)'
  BY RepaidStays DEF Onward, TypeOK

(* An execution that is left alone, or ends, keeps its part.                *)
LEMMA OtherExecution ==
  ASSUME TypeOK, RefundTables, RefundTables', Onward, RepaidInv, NEW w \in Workers,
         work'[w] = work[w] \/ work'[w] = Idle
  PROVE  ExecutionInv(w)'
  <1>1. CASE work'[w] = Idle
    BY <1>1 DEF ExecutionInv, Idle
  <1>2. CASE work'[w] = work[w]
    <2> SUFFICES ASSUME NEW r \in RefundIds, work[w].refund = r, work[w].at # "idle"
                 PROVE  /\ Inserted(r)'
                        /\ work[w].at = "answered" => provider'[r] # "none"
                        /\ work[w].at = "full" => Repaid(RefundOf[r])'
      BY <1>2 DEF ExecutionInv
    <2>1. RefundOf[r] \in Intents
      BY RefundsAssumption
    <2>2. ExecutionInv(w) /\ RefundedInv(r)
      BY DEF RepaidInv
    <2>3. Standing(RefundOf[r]) /\ Inserted(r)
      BY <2>2 DEF ExecutionInv, RefundedInv, Inserted
    <2>4. Repaid(RefundOf[r]) => Repaid(RefundOf[r])'
      BY <2>1, <2>3, OnwardRepaid
    <2> QED BY <2>2, <2>3, <2>4 DEF ExecutionInv, Onward
  <1> QED BY <1>1, <1>2

(* Once no status but that of a repaid payment has become "refunded".       *)
LEMMA RefundedStays ==
  ASSUME TypeOK, RefundTables, RefundTables', PaidInv, Onward, RepaidInv, NEW i \in Intents,
         intent'[i] = "refunded" => intent[i] = "refunded" \/ (Standing(i) /\ Repaid(i))
  PROVE  intent'[i] = "refunded" => Repaid(i)'
  <1>1. intent[i] = "refunded" => Standing(i) /\ Repaid(i)
    BY DEF RepaidInv, PaidInv, ReviewInv, RowsInv, Traced, RowInv, Standing, Confirmed
  <1> QED BY <1>1, OnwardRepaid

(* Payments' own steps.                                                    *)
LEMMA PaymentRepaid ==
  ASSUME TypeOK, TypeOK', RefundInv, PaidInv, RepaidInv, [Next]_vars, UNCHANGED refundVars
  PROVE  RepaidInv'
  <1>0. RefundTables /\ RefundTables' /\ Working
    BY UntouchedRefunds DEF RefundInv
  <1>1. UNCHANGED <<refund, refundAmount, provider, work>>
    BY DEF refundVars
  <1>2. Onward
    BY <1>1, StandingStays DEF Onward, Inserted
  <1>3. \A w \in Workers : ExecutionInv(w)'
    BY <1>0, <1>1, <1>2, OtherExecution
  <1>4. \A r \in RefundIds : RefundOf[r] \in Intents
    BY RefundsAssumption
  <1>5. \A r \in RefundIds : RefundedInv(r)'
    BY <1>1, <1>2, <1>4 DEF RepaidInv, RefundedInv, Inserted, Onward
  <1>6. ASSUME NEW i \in Intents PROVE intent'[i] = "refunded" => Repaid(i)'
    <2>1. intent[i] # "refunded" => intent'[i] # "refunded"
      <3>1. CASE IntentStep(i)
        BY <3>1
        DEF IntentStep, CreateIntent, BeginCheckout, RecordCheckout, AfterCheckout, CustomerPays,
            Deliver, FindDuplicate, HoldForReview, KeepIntent, Credit, RollBack, MarkFailed,
            intentVars, TypeOK
      <3>2. CASE ~IntentStep(i)
        BY <3>2, OthersLeave
      <3> QED BY <3>1, <3>2
    <2> QED BY <1>0, <1>2, <2>1, RefundedStays
  <1> QED BY <1>3, <1>5, <1>6 DEF RepaidInv

(* The process stops: requests that were only checked are gone.             *)
LEMMA RestartRepaid ==
  ASSUME TypeOK, TypeOK', RefundInv, RefundInv', PaidInv, RepaidInv, RestartAll
  PROVE  RepaidInv'
  <1>0. RefundTables /\ RefundTables' /\ Working /\ Next
    BY DEF RefundInv, RestartAll, Next
  <1>1. /\ refund' = [r \in RefundIds |-> IF refund[r] = "checked" THEN "none" ELSE refund[r]]
        /\ work' = [w \in Workers |-> Idle]
        /\ UNCHANGED <<refundAmount, provider>>
        /\ intent' = intent
    BY DEF RestartAll, Restart, intentVars
  <1>2. Onward
    <2>1. \A r \in RefundIds : Inserted(r) => Inserted(r)'
      BY <1>1 DEF Inserted
    <2> QED BY <1>0, <1>1, <2>1, StandingStays DEF Onward
  <1>3. \A w \in Workers : ExecutionInv(w)'
    BY <1>0, <1>1, <1>2, OtherExecution
  <1>4. \A r \in RefundIds : RefundOf[r] \in Intents
    BY RefundsAssumption
  <1>5. ASSUME NEW r \in RefundIds PROVE RefundedInv(r)'
    <2>1. refund'[r] # "none" => refund[r] # "none"
      BY <1>1
    <2>2. ~Inserted(r)' => ~Inserted(r)
      BY <1>2 DEF Onward
    <2>3. RefundedInv(r)
      BY DEF RepaidInv
    <2> QED BY <1>1, <1>2, <1>4, <2>1, <2>2, <2>3 DEF RefundedInv, Onward
  <1>6. \A i \in Intents : intent'[i] = "refunded" => Repaid(i)'
    BY <1>0, <1>1, <1>2, RefundedStays
  <1> QED BY <1>3, <1>5, <1>6 DEF RepaidInv

(* A request, and what becomes of it at the provider.                       *)
LEMMA RequestRepaid ==
  ASSUME TypeOK, RefundInv, RefundInv', PaidInv, RepaidInv, NEW r \in RefundIds, RefundStep(r)
  PROVE  RepaidInv'
  <1>0. RefundTables /\ RefundTables' /\ Working /\ RefundOf[r] \in Intents
    BY RefundsAssumption DEF RefundInv
  <1>1. UNCHANGED vars /\ work' = work
    BY DEF RefundStep, CheckRefund, InsertRefund, ProviderEnds
  <1>2. \A i \in Intents : /\ Standing(i)' <=> Standing(i)
                          /\ amount'[i] = amount[i] /\ intent'[i] = intent[i]
    BY <1>1 DEF vars, orderVars, intentVars, Standing, PaidFor, RowsOf
  <1>3. RefundedInv(r)
    BY DEF RepaidInv
  <1> DEFINE Kept ==
        /\ provider[r] = "succeeded" =>
              provider'[r] = "succeeded" /\ refundAmount'[r] = refundAmount[r]
        /\ provider[r] # "none" => provider'[r] # "none"
        /\ Inserted(r) => Inserted(r)'
        /\ RefundedInv(r)'
        /\ \A q \in RefundIds : q # r =>
              /\ refund'[q] = refund[q] /\ provider'[q] = provider[q]
              /\ refundAmount'[q] = refundAmount[q]
  <1>4. Kept
    <2>1. ASSUME NEW n \in 1..amount[RefundOf[r]], CheckRefund(r, n) PROVE Kept
      <3>1. /\ refund[r] = "none" /\ refund' = [refund EXCEPT ![r] = "checked"]
            /\ refundAmount' = [refundAmount EXCEPT ![r] = n] /\ provider' = provider
            /\ intent[RefundOf[r]] \in Confirmed
        BY <2>1 DEF CheckRefund, Confirmed
      <3>2. Standing(RefundOf[r])
        BY <1>0, <3>1 DEF PaidInv, ReviewInv, RowsInv, Traced, RowInv, Standing, Confirmed
      <3>3. provider[r] = "none"
        BY <1>3, <3>1 DEF RefundedInv, Inserted
      <3>4. refund'[r] = "checked"
        BY <1>0, <3>1 DEF RefundTables
      <3> QED BY <1>0, <1>2, <3>1, <3>2, <3>3, <3>4 DEF RefundedInv, Inserted
    <2>2. CASE InsertRefund(r)
      <3>1. /\ refund[r] = "checked" /\ refund' = [refund EXCEPT ![r] = "requested"]
            /\ refundAmount' = refundAmount /\ provider' = provider
        BY <2>2 DEF InsertRefund
      <3>2. refund'[r] = "requested"
        BY <1>0, <3>1 DEF RefundTables
      <3> QED BY <1>0, <1>2, <1>3, <3>1, <3>2 DEF RefundedInv, Inserted
    <2>3. ASSUME NEW s \in {"succeeded", "failed"}, ProviderEnds(r, s) PROVE Kept
      <3>1. /\ provider[r] \in Moving /\ provider' = [provider EXCEPT ![r] = s]
            /\ refundAmount' = refundAmount /\ refund' = refund
        BY <2>3 DEF ProviderEnds
      <3>2. provider'[r] = s /\ s # "none"
        BY <1>0, <3>1 DEF RefundTables
      <3>3. Inserted(r) /\ provider[r] # "succeeded"
        BY <1>3, <3>1 DEF RefundedInv, Moving
      <3>4. Inserted(r)'
        BY <3>1, <3>3 DEF Inserted
      <3>5. RefundedInv(r)'
        BY <1>0, <1>2, <1>3, <3>1, <3>4 DEF RefundedInv
      <3>6. \A q \in RefundIds : q # r => provider'[q] = provider[q]
        BY <1>0, <3>1 DEF RefundTables
      <3> QED BY <3>1, <3>2, <3>3, <3>4, <3>5, <3>6
    <2> QED BY <2>1, <2>2, <2>3 DEF RefundStep
  <1>5. Onward
    BY <1>2, <1>4 DEF Onward, Inserted
  <1>6. \A w \in Workers : ExecutionInv(w)'
    BY <1>0, <1>1, <1>5, OtherExecution
  <1>7. \A q \in RefundIds : RefundOf[q] \in Intents
    BY RefundsAssumption
  <1>8. \A q \in RefundIds : RefundedInv(q)'
    BY <1>2, <1>4, <1>7 DEF RepaidInv, RefundedInv, Inserted
  <1>9. \A i \in Intents : intent'[i] = "refunded" => Repaid(i)'
    BY <1>0, <1>2, <1>5, RefundedStays
  <1> QED BY <1>6, <1>8, <1>9 DEF RepaidInv

(* One statement of an execution, but for the one that closes the intent,   *)
(* writes its refund's status or takes its first answer, no more.           *)
LEMMA StatementEffect ==
  ASSUME RefundInv, RepaidInv, NEW w \in Workers, WorkerStep(w), ~CloseRefund(w)
  PROVE  /\ UNCHANGED <<vars, refundAmount>>
         /\ \A v \in Workers : v # w => work'[v] = work[v]
         /\ \A q \in RefundIds :
              /\ refund'[q] = refund[q] \/ (Inserted(q) /\ Inserted(q)')
              /\ provider'[q] = provider[q]
                    \/ (Inserted(q) /\ provider[q] = "none" /\ provider'[q] # "none")
  <1> DEFINE r == work[w].refund
             Effect ==
               /\ UNCHANGED <<vars, refundAmount>>
               /\ \A v \in Workers : v # w => work'[v] = work[v]
               /\ \A q \in RefundIds :
                    /\ refund'[q] = refund[q] \/ (Inserted(q) /\ Inserted(q)')
                    /\ provider'[q] = provider[q]
                          \/ (Inserted(q) /\ provider[q] = "none" /\ provider'[q] # "none")
  <1>0. RefundTables /\ (work[w].at # "idle" => r \in RefundIds /\ Inserted(r))
    BY DEF RefundInv, Working, RepaidInv, ExecutionInv
  <1>1. ASSUME NEW s \in {"succeeded", "failed", "processing"}, refund' = [refund EXCEPT ![r] = s],
               work[w].at # "idle", UNCHANGED <<vars, refundAmount, provider>>,
               \A v \in Workers : v # w => work'[v] = work[v]
        PROVE  Effect
    <2>1. \A q \in RefundIds : refund'[q] = IF q = r THEN s ELSE refund[q]
      BY <1>0, <1>1 DEF RefundTables
    <2>2. s # "none" /\ s # "checked"
      BY <1>1
    <2> QED BY <1>0, <1>1, <2>1, <2>2 DEF Inserted
  <1>2. ASSUME NEW p \in RefundIds, StartRefund(w, p) PROVE Effect
    BY <1>0, <1>2 DEF StartRefund, RefundTables
  <1>3. CASE MarkProcessing(w)
    BY <1>0, <1>1, <1>3 DEF MarkProcessing, Reach, RefundTables
  <1>4. CASE ProviderTakes(w)
    <2>1. /\ UNCHANGED <<vars, refundAmount, refund>> /\ work[w].at = "asking"
          /\ work' = [work EXCEPT ![w].at = "answered"]
      BY <1>4 DEF ProviderTakes, Reach
    <2>2. \/ provider' = provider
          \/ /\ provider[r] = "none"
             /\ \E s \in {"pending", "processing", "succeeded", "failed"} :
                   provider' = [provider EXCEPT ![r] = s]
      BY <1>4 DEF ProviderTakes, Moving
    <2>3. \A v \in Workers : v # w => work'[v] = work[v]
      BY <1>0, <2>1 DEF RefundTables
    <2>4. \A q \in RefundIds :
             \/ provider'[q] = provider[q]
             \/ q = r /\ provider[q] = "none" /\ provider'[q] # "none"
      BY <1>0, <2>1, <2>2 DEF RefundTables
    <2> QED BY <1>0, <2>1, <2>3, <2>4
  <1>5. CASE TakeAnswer(w)
    <2> DEFINE status == Mapped(provider[r])
    <2>1. /\ refund' = [refund EXCEPT ![r] = status] /\ work[w].at = "answered"
          /\ UNCHANGED <<vars, refundAmount, provider>>
      BY <1>5 DEF TakeAnswer
    <2>2. provider[r] # "none" /\ provider[r] \in Answers
      BY <1>0, <2>1 DEF RepaidInv, ExecutionInv, RefundTables
    <2>3. status \in {"succeeded", "failed", "processing"}
      BY <2>2 DEF Mapped, Answers
    <2>4. \A v \in Workers : v # w => work'[v] = work[v]
      BY <1>0, <1>5 DEF TakeAnswer, Reach, Leave, RefundTables
    <2> HIDE DEF status
    <2> QED BY <1>1, <2>1, <2>3, <2>4
  <1>6. CASE ExecutionFails(w)
    BY <1>0, <1>1, <1>6 DEF ExecutionFails, Leave, RefundTables
  <1>7. CASE BookRefund(w) \/ TotalRefunds(w) \/ EndExecution(w)
    <2>1. UNCHANGED <<vars, refundAmount, refund, provider>>
      BY <1>7 DEF BookRefund, TotalRefunds, EndExecution
    <2>2. \A v \in Workers : v # w => work'[v] = work[v]
      BY <1>0, <1>7 DEF BookRefund, TotalRefunds, EndExecution, Reach, Leave, RefundTables
    <2> QED BY <2>1, <2>2
  <1> QED
    BY <1>2, <1>3, <1>4, <1>5, <1>6, <1>7 DEF WorkerStep

LEMMA StatementRepaid ==
  ASSUME TypeOK, RefundInv, RefundInv', PaidInv, RepaidInv, NEW w \in Workers, WorkerStep(w),
         ~CloseRefund(w)
  PROVE  RepaidInv'
  <1>0. RefundTables /\ RefundTables' /\ Working
    BY DEF RefundInv
  <1>1. /\ UNCHANGED <<vars, refundAmount>>
        /\ \A v \in Workers : v # w => work'[v] = work[v]
        /\ \A q \in RefundIds :
              /\ refund'[q] = refund[q] \/ (Inserted(q) /\ Inserted(q)')
              /\ provider'[q] = provider[q]
                    \/ (Inserted(q) /\ provider[q] = "none" /\ provider'[q] # "none")
    BY StatementEffect
  <1>2. \A i \in Intents : /\ Standing(i)' <=> Standing(i)
                          /\ amount'[i] = amount[i] /\ intent'[i] = intent[i]
    BY <1>1 DEF vars, orderVars, intentVars, Standing, PaidFor, RowsOf
  <1>3. Onward
    BY <1>1, <1>2 DEF Onward, Inserted
  <1>4. \A q \in RefundIds : RefundOf[q] \in Intents /\ RefundedInv(q)
    BY RefundsAssumption DEF RepaidInv
  <1>5. \A q \in RefundIds : RefundedInv(q)'
    BY <1>1, <1>2, <1>4 DEF RefundedInv, Inserted
  <1>6. \A i \in Intents : intent'[i] = "refunded" => Repaid(i)'
    BY <1>0, <1>2, <1>3, RefundedStays
  <1>7. ExecutionInv(w)'
    <2> SUFFICES ASSUME NEW r \in RefundIds, work'[w].refund = r, work'[w].at # "idle"
                 PROVE  /\ Inserted(r)'
                        /\ work'[w].at = "answered" => provider'[r] # "none"
                        /\ work'[w].at = "full" => Repaid(RefundOf[r])'
      BY DEF ExecutionInv
    <2>1. work[w].refund = r \/ \E p \in RefundIds : StartRefund(w, p)
      BY <1>0
      DEF WorkerStep, MarkProcessing, ProviderTakes, TakeAnswer, ExecutionFails, BookRefund,
          TotalRefunds, EndExecution, Reach, Leave, Idle, RefundTables
    <2>2. ASSUME NEW p \in RefundIds, StartRefund(w, p)
          PROVE  r = p /\ Inserted(r)' /\ work'[w].at = "read"
      BY <1>0, <2>2 DEF StartRefund, RefundTables, Inserted
    <2>3. CASE work[w].refund = r /\ ~ \E p \in RefundIds : StartRefund(w, p)
      <3>1. work[w].at # "idle"
        BY <2>3
        DEF WorkerStep, MarkProcessing, ProviderTakes, TakeAnswer, ExecutionFails, BookRefund,
            TotalRefunds, EndExecution
      <3>2. Inserted(r)
        BY <2>3, <3>1 DEF RepaidInv, ExecutionInv
      <3>3. Inserted(r)'
        BY <1>3, <3>2 DEF Onward
      <3>4. ASSUME work'[w].at = "answered" PROVE provider'[r] # "none"
        <4>1. ProviderTakes(w)
          BY <1>0, <2>3, <3>4
          DEF WorkerStep, MarkProcessing, TakeAnswer, ExecutionFails, BookRefund,
              TotalRefunds, EndExecution, Reach, Leave, Idle, RefundTables
        <4> QED BY <1>0, <2>3, <4>1 DEF ProviderTakes, RefundTables, Moving
      <3>5. ASSUME work'[w].at = "full" PROVE Repaid(RefundOf[r])'
        <4>1. TotalRefunds(w)
          BY <1>0, <2>3, <3>5
          DEF WorkerStep, MarkProcessing, ProviderTakes, TakeAnswer, ExecutionFails, BookRefund,
              EndExecution, Reach, Leave, Idle, RefundTables
        <4>2. FullyRefunded(RefundOf[r])
          BY <1>0, <2>3, <3>5, <4>1 DEF TotalRefunds, Reach, RefundTables
        <4>3. RefundOf[r] \in Intents /\ amount[RefundOf[r]] \in Nat
          BY <1>4 DEF TypeOK
        <4>4. Repaid(RefundOf[r])
          BY <1>0, <4>2, <4>3, CoveredIsRepaid DEF RefundInv
        <4>5. Standing(RefundOf[r])
          BY <1>4, <3>2 DEF RefundedInv, Inserted
        <4> QED BY <1>0, <1>3, <4>3, <4>4, <4>5, OnwardRepaid
      <3> QED BY <3>3, <3>4, <3>5
    <2> QED BY <2>1, <2>2, <2>3
  <1>8. \A v \in Workers : ExecutionInv(v)'
    BY <1>0, <1>1, <1>3, <1>7, OtherExecution
  <1> QED BY <1>5, <1>6, <1>8 DEF RepaidInv

LEMMA CloseRepaid ==
  ASSUME TypeOK, RefundInv, RefundInv', PaidInv, RepaidInv, NEW w \in Workers, CloseRefund(w)
  PROVE  PaidInv' /\ RepaidInv'
  <1> DEFINE r == work[w].refund
             status == IF work[w].at = "full" THEN "refunded" ELSE "partially_refunded"
  <1>0. RefundTables /\ RefundTables' /\ r \in RefundIds /\ RefundOf[r] \in Intents
    BY RefundsAssumption DEF RefundInv, Working, CloseRefund
  <1>1. /\ work[w].at # "idle"
        /\ intent' = [intent EXCEPT ![RefundOf[r]] = status]
        /\ work' = [work EXCEPT ![w].at = "closing"]
        /\ UNCHANGED <<refund, refundAmount, provider>>
    BY DEF CloseRefund, Reach
  <1>2. UNCHANGED <<orderVars, amount, openAttempt, calls, session, webhookVars, restarts>>
    BY DEF CloseRefund
  <1>3. Standing(RefundOf[r]) /\ Inserted(r)
    BY <1>0, <1>1 DEF RepaidInv, ExecutionInv, RefundedInv, Inserted
  <1>4. PaidInv' /\ \A j \in Intents : Standing(j) => Standing(j)'
    BY <1>0, <1>1, <1>2, <1>3, ClosedIntent
  <1>5. Onward
    BY <1>1, <1>2, <1>4 DEF Onward, Inserted
  <1>6. ASSUME NEW v \in Workers PROVE ExecutionInv(v)'
    <2>1. CASE v = w
      <3>1. work'[w].refund = work[w].refund /\ work'[w].at = "closing"
        BY <1>0, <1>1 DEF RefundTables
      <3>2. \A q \in RefundIds : q = work[w].refund => Inserted(q)'
        BY <1>1, <1>3 DEF Inserted
      <3> QED BY <2>1, <3>1, <3>2 DEF ExecutionInv
    <2>2. CASE v # w
      <3>1. work'[v] = work[v]
        BY <1>1, <2>2 DEF RefundTables
      <3> QED BY <1>0, <1>5, <3>1, OtherExecution
    <2> QED BY <2>1, <2>2
  <1>7. ASSUME NEW q \in RefundIds PROVE RefundedInv(q)'
    <2>1. RefundedInv(q) /\ RefundOf[q] \in Intents
      BY RefundsAssumption DEF RepaidInv
    <2> QED BY <1>1, <1>4, <2>1 DEF RefundedInv, Inserted
  <1>8. ASSUME NEW i \in Intents PROVE intent'[i] = "refunded" => Repaid(i)'
    <2>1. intent'[i] = "refunded" =>
            intent[i] = "refunded" \/ (i = RefundOf[r] /\ work[w].at = "full")
      BY <1>0, <1>1 DEF TypeOK
    <2>2. work[w].at = "full" => Repaid(RefundOf[r])
      BY <1>0 DEF RepaidInv, ExecutionInv
    <2> QED BY <1>0, <1>3, <1>5, <2>1, <2>2, RefundedStays
  <1> QED BY <1>4, <1>6, <1>7, <1>8 DEF RepaidInv

LEMMA StepRepaid ==
  TypeOK /\ RefundInv /\ PaidInv /\ RepaidInv /\ [RefundsNext]_allVars => PaidInv' /\ RepaidInv'
  <1> SUFFICES ASSUME TypeOK, RefundInv, PaidInv, RepaidInv, [RefundsNext]_allVars
               PROVE  PaidInv' /\ RepaidInv'
    OBVIOUS
  <1>0. TypeOK' /\ RefundInv'
    BY StepRefunds
  <1>1. CASE [Next]_vars /\ UNCHANGED refundVars
    BY <1>0, <1>1, StepPaid, PaymentRepaid
  <1>2. CASE RestartAll
    <2>1. Next
      BY <1>2 DEF RestartAll, Next
    <2> QED BY <1>0, <1>2, <2>1, StepPaid, RestartRepaid
  <1>3. ASSUME NEW r \in RefundIds, RefundStep(r) PROVE PaidInv' /\ RepaidInv'
    <2>1. UNCHANGED vars
      BY <1>3 DEF RefundStep, CheckRefund, InsertRefund, ProviderEnds
    <2> QED BY <1>0, <1>3, <2>1, StepPaid, RequestRepaid
  <1>4. ASSUME NEW w \in Workers, WorkerStep(w) PROVE PaidInv' /\ RepaidInv'
    <2>1. CASE CloseRefund(w)
      BY <1>0, <2>1, CloseRepaid
    <2>2. CASE ~CloseRefund(w)
      <3>1. UNCHANGED vars
        BY <1>4, <2>2, StatementEffect
      <3> QED BY <1>0, <1>4, <2>2, <3>1, StepPaid, StatementRepaid
    <2> QED BY <2>1, <2>2
  <1>5. PaymentStep => Next /\ UNCHANGED refundVars
    BY DEF PaymentStep, Next
  <1>6. UNCHANGED allVars => UNCHANGED vars /\ UNCHANGED refundVars
    BY DEF allVars
  <1> QED BY <1>1, <1>2, <1>3, <1>4, <1>5, <1>6 DEF RefundsNext

LEMMA RepaidInvariant == RefundsSpec => [](PaidInv /\ RepaidInv)
  BY InitRepaid, StepRepaid, RefundInvariant, PTL DEF RefundsSpec

(* An intent is marked refunded only when the provider has paid back all of *)
(* it.                                                                     *)
THEOREM RefundedMeansRepaid == RefundsSpec => []RefundedIsRepaid
  <1>1. RepaidInv => RefundedIsRepaid
    BY DEF RepaidInv, Repaid, BackFor, RefundedIsRepaid
  <1> QED BY <1>1, RepaidInvariant, PTL

(* With refunds under way no order is credited more than it costs or        *)
(* anything its rows do not show, no intent twice, and nothing credited is  *)
(* under review: not even when a refund has taken the status away that a    *)
(* repeated delivery would be recognised by.                               *)
THEOREM RefundsKeepPayments ==
    RefundsSpec => [](NeverOverpaid /\ PaidIsEvidenced /\ CreditedOnce /\ ReviewedNotCredited)
  <1>1. PaidInv => NeverOverpaid /\ PaidIsEvidenced
    BY EvidenceIsAll DEF PaidInv
  <1>2. PaidInv => CreditedOnce /\ ReviewedNotCredited
    BY DEF PaidInv, RowsInv, RowInv, PaidFor, CreditedOnce, ReviewInv, HeldBack,
           ReviewedNotCredited
  <1> QED BY <1>1, <1>2, RepaidInvariant, PTL

(* A refund is the one step that takes "succeeded" from an intent, and it   *)
(* leaves it confirmed.                                                    *)
THEOREM ConfirmedUnderRefunds == RefundsSpec => SucceededStays
  <1> DEFINE Stays == \A i \in Intents : intent[i] = "succeeded" => intent'[i] \in Confirmed
  <1>1. TypeOK /\ RefundInv /\ RepaidInv /\ [RefundsNext]_allVars => [Stays]_vars
    <2> SUFFICES ASSUME TypeOK, RefundInv, RepaidInv, [RefundsNext]_allVars, vars' # vars
                 PROVE  Stays
      OBVIOUS
    <2>1. CASE Next
      <3>1. [Stays]_vars
        BY <2>1, StepConfirmed
      <3> QED BY <3>1
    <2>2. ASSUME NEW w \in Workers, CloseRefund(w) PROVE Stays
      BY <2>2 DEF CloseRefund, TypeOK, Confirmed
    <2>3. (\E w \in Workers : CloseRefund(w)) \/ Next
      <3>1. ASSUME NEW w \in Workers, WorkerStep(w), ~CloseRefund(w) PROVE vars' = vars
        BY <3>1, StatementEffect
      <3>2. ASSUME NEW r \in RefundIds, RefundStep(r) PROVE vars' = vars
        BY <3>2 DEF RefundStep, CheckRefund, InsertRefund, ProviderEnds
      <3>3. RestartAll \/ PaymentStep => Next
        BY DEF RestartAll, PaymentStep, Next
      <3> QED BY <3>1, <3>2, <3>3 DEF RefundsNext, allVars
    <2> QED BY <2>1, <2>2, <2>3
  <1> HIDE DEF Stays
  <1>2. RefundsSpec => [][Stays]_vars
    BY <1>1, RefundInvariant, RepaidInvariant, PTL DEF RefundsSpec
  <1> QED BY <1>2 DEF SucceededStays, Stays
=============================================================================
