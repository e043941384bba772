--------------------------- MODULE DispatchProofs ---------------------------
(* Theorems about Dispatch.                                                *)
EXTENDS Dispatch, TLAPS

(* Offers and calls are named by what they belong to.                       *)
LEMMA SlotParts ==
    /\ \A s \in Slots : s[1] \in Deliveries /\ s[2] \in Couriers
                        /\ s[3] \in Rounds(s[1]) /\ s = <<s[1], s[2], s[3]>>
    /\ \A d \in Deliveries, c \in Couriers : \A r \in Rounds(d) : <<d, c, r>> \in Slots
BY DEF Slots

LEMMA CallParts == \A w \in Calls : w[1] \in Deliveries
BY DispatchAssumption DEF Calls

(* Statuses: what a courier may report is under way, and not waiting.       *)
LEMMA FlowFacts ==
    /\ \A s \in DOMAIN Flow : Flow[s] \in Reported /\ s \in Active
    /\ Reported \subseteq Active /\ "courier_assigned" \in Active
    /\ "courier_arrived_at_customer" \in Reported
    /\ "delivered" \notin Active /\ "none" \notin Reported
    /\ Active \cap Waiting = {} /\ "delivered" \notin Waiting
    /\ "courier_arrived_at_customer" \notin DOMAIN Flow
    /\ "delivered" \notin DOMAIN Flow
    /\ \A s \in DOMAIN Flow : s \notin Waiting
    /\ \A s \in Reported : s \in DeliveryStatuses /\ s # "delivered"
BY DEF Flow, Reported, Active, Waiting, DeliveryStatuses

LEMMA CloseType == ASSUME NEW S, offer \in [Slots -> OfferStatuses]
                   PROVE  Close(S) \in [Slots -> OfferStatuses]
BY DEF Close, OfferStatuses

-----------------------------------------------------------------------------
(* The types, and the count of wrong codes with them: it stays within the   *)
(* maximum because reaching it sets the lock.                              *)
TypeInv == TypeOK /\ GuessesLimited

LEMMA TypeInit == Init => TypeInv
BY DispatchAssumption, SlotParts DEF Init, TypeInv, TypeOK, GuessesLimited, OrderStatuses,
   DeliveryStatuses, Waiting, OfferStatuses

LEMMA OrderStepTypes == ASSUME TypeInv, NEW d \in Deliveries, OrderStep(d) PROVE TypeInv'
BY DEF TypeInv, TypeOK, GuessesLimited, OrderStep, MarkReady, HandOff, CancelOrder,
   OrderStatuses, offerVars, courierVars, codeVars

LEMMA RequestTypes == ASSUME TypeInv, NEW d \in Deliveries, RequestCourier(d) PROVE TypeInv'
<1>1. round' \in [Deliveries -> Nat]
  BY DEF TypeInv, TypeOK, RequestCourier
<1>2. offer' \in [Slots -> OfferStatuses]
  BY DEF TypeInv, TypeOK, RequestCourier, OfferStatuses
<1>3. delivery' \in [Deliveries -> DeliveryStatuses] /\ available' \in [Couriers -> BOOLEAN]
  BY DEF TypeInv, TypeOK, RequestCourier, DeliveryStatuses, Waiting
<1> QED BY <1>1, <1>2, <1>3 DEF TypeInv, TypeOK, GuessesLimited, RequestCourier, codeVars

LEMMA OfferStepTypes == ASSUME TypeInv, NEW s \in Slots, OfferStep(s) PROVE TypeInv'
<1>0. s[1] \in Deliveries /\ s[2] \in Couriers BY SlotParts
<1>1. CASE OfferLapses(s)
  BY <1>1 DEF OfferLapses, TypeInv, TypeOK, GuessesLimited, OfferStatuses, courierVars, codeVars
<1>2. CASE Decline(s)
  BY <1>2 DEF Decline, TypeInv, TypeOK, GuessesLimited, OfferStatuses, courierVars, codeVars
<1>3. CASE Accept(s)
  <2>1. offer' \in [Slots -> OfferStatuses]
    BY <1>3, CloseType DEF Accept, TypeInv, TypeOK, OfferStatuses
  <2>2. delivery' \in [Deliveries -> DeliveryStatuses]
    BY <1>3 DEF Accept, TypeInv, TypeOK, DeliveryStatuses, Active
  <2>3. courier' \in [Deliveries -> Couriers \cup {"none"}] /\ available' \in [Couriers -> BOOLEAN]
    BY <1>0, <1>3 DEF Accept, TypeInv, TypeOK
  <2> QED BY <1>3, <2>1, <2>2, <2>3 DEF Accept, TypeInv, TypeOK, GuessesLimited, codeVars
<1>4. CASE AcceptRefused(s)
  <2>1. offer' \in [Slots -> OfferStatuses]
    BY <1>4, CloseType DEF AcceptRefused, TypeInv, TypeOK
  <2>2. available' \in [Couriers -> BOOLEAN]
    BY <1>0, <1>4 DEF AcceptRefused, TypeInv, TypeOK
  <2> QED BY <1>4, <2>1, <2>2 DEF AcceptRefused, TypeInv, TypeOK, GuessesLimited, codeVars
<1> QED BY <1>1, <1>2, <1>3, <1>4 DEF OfferStep

LEMMA CourierStepTypes == ASSUME TypeInv, NEW c \in Couriers, CourierStep(c) PROVE TypeInv'
<1>1. CASE BeginShift(c)
  <2>1. seen' \in [Couriers -> SUBSET (Deliveries \X Nat)]
    BY <1>1 DEF BeginShift, TypeInv, TypeOK
  <2> QED BY <1>1, <2>1 DEF BeginShift, TypeInv, TypeOK, GuessesLimited, offerVars, codeVars
<1>2. CASE EndShift(c)
  <2>1. offer' \in [Slots -> OfferStatuses]
    BY <1>2 DEF EndShift, TypeInv, TypeOK, OfferStatuses
  <2>2. seen' \in [Couriers -> SUBSET (Deliveries \X Nat)]
    BY <1>2 DEF EndShift, TypeInv, TypeOK
  <2> QED BY <1>2, <2>1, <2>2 DEF EndShift, TypeInv, TypeOK, GuessesLimited, codeVars
<1>3. CASE AbortShift(c)
  BY <1>3 DEF AbortShift, TypeInv, TypeOK, GuessesLimited, offerVars, codeVars
<1>4. CASE GoUnavailable(c)
  BY <1>4, CloseType DEF GoUnavailable, TypeInv, TypeOK, GuessesLimited, codeVars
<1>5. CASE EligibilityLapses(c)
  BY <1>5 DEF EligibilityLapses, TypeInv, TypeOK, GuessesLimited, offerVars, codeVars
<1>6. CASE Reconcile(c)
  BY <1>6, CloseType DEF Reconcile, TypeInv, TypeOK, GuessesLimited, codeVars
<1>7. ASSUME NEW approved \in BOOLEAN, Review(c, approved) PROVE TypeInv'
  BY <1>7, CloseType DEF Review, TypeInv, TypeOK, GuessesLimited, codeVars
<1> QED BY <1>1, <1>2, <1>3, <1>4, <1>5, <1>6, <1>7 DEF CourierStep

LEMMA AssignTypes ==
    ASSUME TypeInv, NEW d \in Deliveries, NEW c \in Couriers, Assign(d, c) PROVE TypeInv'
<1>1. delivery' \in [Deliveries -> DeliveryStatuses]
  BY DEF Assign, TypeInv, TypeOK, DeliveryStatuses, Active
<1>2. offer' \in [Slots -> OfferStatuses]
  BY CloseType DEF Assign, TypeInv, TypeOK
<1> QED BY <1>1, <1>2 DEF Assign, TypeInv, TypeOK, GuessesLimited, codeVars

LEMMA StatusStepTypes == ASSUME TypeInv, NEW w \in Calls, StatusStep(w) PROVE TypeInv'
<1>0. w[1] \in Deliveries BY CallParts
<1>1. CASE BeginStatus(w)
  BY <1>0, <1>1, FlowFacts DEF BeginStatus, TypeInv, TypeOK, GuessesLimited, offerVars,
     courierVars, codeVars
<1>2. CASE EndStatus(w)
  <2>1. call[w] \in DeliveryStatuses
    BY <1>2, FlowFacts DEF EndStatus, TypeInv, TypeOK
  <2>2. orderStatus' \in [Deliveries -> OrderStatuses]
    BY <1>0, <1>2 DEF EndStatus, TypeInv, TypeOK, OrderStatuses
  <2> QED BY <1>0, <1>2, <2>1, <2>2 DEF EndStatus, TypeInv, TypeOK, GuessesLimited, offerVars,
             courierVars, codeVars
<1>3. CASE DropStatus(w)
  BY <1>3 DEF DropStatus, TypeInv, TypeOK, GuessesLimited, offerVars, courierVars, codeVars
<1> QED BY <1>1, <1>2, <1>3 DEF StatusStep

LEMMA CodeStepTypes == ASSUME TypeInv, NEW d \in Deliveries, CodeStep(d) PROVE TypeInv'
<1>1. CASE WrongCode(d)
  <2>1. NextFailures(d) \in 1..MaxFailures
    BY <1>1, DispatchAssumption DEF WrongCode, NextFailures, TypeInv, TypeOK, GuessesLimited
  <2>2. Locks(NextFailures(d)) <=> NextFailures(d) = MaxFailures
    BY <2>1, DispatchAssumption DEF Locks
  <2> QED BY <1>1, <2>1, <2>2, DispatchAssumption DEF WrongCode, TypeInv, TypeOK,
             GuessesLimited, offerVars, courierVars
<1>2. CASE LockLapses(d)
  BY <1>2 DEF LockLapses, TypeInv, TypeOK, GuessesLimited, offerVars, courierVars
<1>3. CASE Complete(d)
  BY <1>3, DispatchAssumption DEF Complete, TypeInv, TypeOK, GuessesLimited, offerVars,
     courierVars, OrderStatuses, DeliveryStatuses
<1> QED BY <1>1, <1>2, <1>3 DEF CodeStep

LEMMA TypeStep == TypeInv /\ [Next]_vars => TypeInv'
<1> SUFFICES ASSUME TypeInv, [Next]_vars PROVE TypeInv'
  OBVIOUS
<1>1. CASE Next
  BY <1>1, OrderStepTypes, RequestTypes, CodeStepTypes, OfferStepTypes, CourierStepTypes,
     AssignTypes, StatusStepTypes DEF Next
<1>2. CASE UNCHANGED vars
  BY <1>2 DEF vars, offerVars, courierVars, codeVars, TypeInv, TypeOK, GuessesLimited
<1> QED BY <1>1, <1>2

(* Whatever couriers, merchants and admins do in whatever order, the rows   *)
(* of dispatch keep their types.                                           *)
THEOREM DispatchTypeCorrect == Spec => []TypeOK
<1>1. TypeInv => TypeOK BY DEF TypeInv
<1> QED BY <1>1, TypeInit, TypeStep, PTL DEF Spec

(* nextHandoffFailureState: attempts at the code are limited between locks.     *)
THEOREM AttemptsLimited == Spec => []GuessesLimited
<1>1. TypeInv => GuessesLimited BY DEF TypeInv
<1> QED BY <1>1, TypeInit, TypeStep, PTL DEF Spec

-----------------------------------------------------------------------------
(* Who is on which delivery.  An accept and an assignment trust that an     *)
(* available courier is free, so availability is part of the invariant, and *)
(* with it what an open availability transaction has established; a status  *)
(* call must find the delivery as it has read it.                          *)
Unassigned    == \A d \in Deliveries : delivery[d] \in Waiting <=> courier[d] = "none"
JoiningIsFree == \A c \in joining : JobsOf(c) = {}
CallsFresh    == \A w \in Calls : call[w] # "none" =>
                   delivery[w[1]] \in DOMAIN Flow /\ call[w] = Flow[delivery[w[1]]]

JobInv == /\ TypeOK /\ Unassigned /\ OneJobPerCourier
          /\ AvailableIsFree /\ JoiningIsFree /\ CallsFresh

LEMMA JobInit == Init => JobInv
<1> SUFFICES ASSUME Init PROVE JobInv
  OBVIOUS
<1>1. TypeOK BY TypeInit DEF TypeInv
<1>2. \A d \in Deliveries : delivery[d] \in Waiting /\ delivery[d] \notin Active
  BY FlowFacts DEF Init, Waiting
<1> QED BY <1>1, <1>2 DEF Init, JobInv, Unassigned, OneJobPerCourier, AvailableIsFree,
           JoiningIsFree, CallsFresh

(* A step that moves no delivery: availability comes only from a courier's  *)
(* own transaction, and that begins only when the courier is free.          *)
LEMMA NoMove ==
    ASSUME JobInv, TypeOK', UNCHANGED <<courier, call>>,
           \A d \in Deliveries : delivery'[d] = delivery[d]
                                  \/ (delivery[d] \in Waiting /\ delivery'[d] \in Waiting),
           \A c \in Couriers : available'[c] => available[c] \/ c \in joining,
           \A c \in joining' : c \in joining \/ JobsOf(c) = {}
    PROVE  JobInv'
<1>1. \A d \in Deliveries : delivery'[d] \in Active <=> delivery[d] \in Active
  BY FlowFacts DEF JobInv, TypeOK
<1>2. \A c : JobsOf(c)' = JobsOf(c)
  BY <1>1 DEF JobsOf
<1>3. Unassigned' /\ OneJobPerCourier'
  BY <1>1 DEF JobInv, Unassigned, OneJobPerCourier
<1>4. AvailableIsFree' /\ JoiningIsFree'
  BY <1>2 DEF JobInv, AvailableIsFree, JoiningIsFree
<1>5. CallsFresh'
  BY CallParts, FlowFacts DEF JobInv, CallsFresh
<1> QED BY <1>3, <1>4, <1>5 DEF JobInv

(* A courier takes a waiting delivery (Accept, Assign).                     *)
LEMMA TakeJob ==
    ASSUME JobInv, TypeOK', NEW d \in Deliveries, NEW c \in Couriers,
           delivery[d] = "awaiting_courier", c \notin joining, Gate(c, d),
           courier' = [courier EXCEPT ![d] = c],
           delivery' = [delivery EXCEPT ![d] = "courier_assigned"],
           available' = [available EXCEPT ![c] = FALSE],
           UNCHANGED <<joining, call>>
    PROVE  JobInv'
<1>1. JobsOf(c) = {}
  BY DEF Gate, JobInv, AvailableIsFree
<1>2. "awaiting_courier" \in Waiting /\ "courier_assigned" \in Active /\ c # "none"
  BY FlowFacts, DispatchAssumption DEF Waiting
<1>3. \A e \in Deliveries : e # d => delivery'[e] = delivery[e] /\ courier'[e] = courier[e]
  BY DEF JobInv, TypeOK
<1>4. delivery'[d] = "courier_assigned" /\ courier'[d] = c
  BY DEF JobInv, TypeOK
<1>5. Unassigned'
  BY <1>2, <1>3, <1>4, FlowFacts DEF JobInv, Unassigned
<1>6. OneJobPerCourier'
  BY <1>1, <1>3, <1>4 DEF JobInv, OneJobPerCourier, JobsOf
<1>7. \A b \in Couriers : b # c => JobsOf(b)' \subseteq JobsOf(b)
  BY <1>3, <1>4 DEF JobsOf
<1>8. AvailableIsFree' /\ JoiningIsFree'
  BY <1>7 DEF JobInv, TypeOK, AvailableIsFree, JoiningIsFree
<1>9. CallsFresh'
  BY <1>2, <1>3, CallParts, FlowFacts DEF JobInv, CallsFresh
<1> QED BY <1>5, <1>6, <1>8, <1>9 DEF JobInv

(* A courier's delivery goes on or ends, with no other call under way.      *)
LEMMA MoveOn ==
    ASSUME JobInv, TypeOK', NEW d \in Deliveries, NEW status \in Reported \cup {"delivered"},
           delivery[d] \in Active,
           delivery' = [delivery EXCEPT ![d] = status],
           \A w \in Calls : w[1] = d => call'[w] = "none",
           \A w \in Calls : w[1] # d => call'[w] = call[w],
           UNCHANGED <<courier, available, joining>>
    PROVE  JobInv'
<1>1. \A e \in Deliveries : e # d => delivery'[e] = delivery[e]
  BY DEF JobInv, TypeOK
<1>2. delivery'[d] = status /\ status \notin Waiting
  BY FlowFacts DEF JobInv, TypeOK
<1>3. \A e \in Deliveries : delivery'[e] \in Active => delivery[e] \in Active
  BY <1>1
<1>4. Unassigned'
  BY <1>1, <1>2, FlowFacts DEF JobInv, Unassigned
<1>5. OneJobPerCourier'
  BY <1>3 DEF JobInv, OneJobPerCourier
<1>6. \A c : JobsOf(c)' \subseteq JobsOf(c)
  BY <1>3 DEF JobsOf
<1>7. AvailableIsFree' /\ JoiningIsFree'
  BY <1>6 DEF JobInv, AvailableIsFree, JoiningIsFree
<1>8. CallsFresh'
  BY <1>1, CallParts DEF JobInv, CallsFresh
<1> QED BY <1>4, <1>5, <1>7, <1>8 DEF JobInv

LEMMA StatusKeepsJobs ==
    ASSUME OneCaller, JobInv, TypeOK', NEW w \in Calls, StatusStep(w) PROVE JobInv'
<1>0. w[1] \in Deliveries BY CallParts
<1>1. CASE BeginStatus(w)
  <2>1. CallsFresh'
    BY <1>1 DEF BeginStatus, JobInv, TypeOK, CallsFresh
  <2> QED BY <1>1, <2>1 DEF BeginStatus, JobInv, Unassigned, OneJobPerCourier, AvailableIsFree,
             JoiningIsFree, JobsOf, courierVars
<1>2. CASE EndStatus(w)
  <2>1. call[w] \in Reported /\ delivery[w[1]] \in Active
    BY <1>2, FlowFacts DEF EndStatus, JobInv, CallsFresh
  <2>2. \A v \in Calls : v[1] = w[1] => v = w
    BY DEF OneCaller
  <2> QED BY <1>0, <1>2, <2>1, <2>2, MoveOn DEF EndStatus, JobInv, TypeOK, courierVars
<1>3. CASE DropStatus(w)
  BY <1>3 DEF DropStatus, JobInv, TypeOK, Unassigned, OneJobPerCourier, AvailableIsFree,
     JoiningIsFree, CallsFresh, JobsOf, courierVars
<1> QED BY <1>1, <1>2, <1>3 DEF StatusStep

LEMMA CodeKeepsJobs == ASSUME JobInv, TypeOK', NEW d \in Deliveries, CodeStep(d) PROVE JobInv'
<1>1. CASE WrongCode(d)
  BY <1>1, NoMove DEF WrongCode, courierVars
<1>2. CASE LockLapses(d)
  BY <1>2, NoMove DEF LockLapses, courierVars
<1>3. CASE Complete(d)
  <2>1. delivery[d] \in Active
    BY <1>3, FlowFacts DEF Complete
  <2>2. \A w \in Calls : w[1] = d => call[w] = "none"
    BY <1>3, FlowFacts DEF Complete, JobInv, CallsFresh
  <2> QED BY <1>3, <2>1, <2>2, MoveOn DEF Complete, courierVars
<1> QED BY <1>1, <1>2, <1>3 DEF CodeStep

LEMMA OffersKeepJobs == ASSUME JobInv, TypeOK', NEW s \in Slots, OfferStep(s) PROVE JobInv'
<1>0. s[1] \in Deliveries /\ s[2] \in Couriers BY SlotParts
<1>1. CASE OfferLapses(s) BY <1>1, NoMove DEF OfferLapses, courierVars
<1>2. CASE Decline(s)     BY <1>2, NoMove DEF Decline, courierVars
<1>3. CASE Accept(s)      BY <1>0, <1>3, TakeJob DEF Accept, Open
<1>4. CASE AcceptRefused(s)
  <2>1. \A c \in Couriers : available'[c] => available[c]
    BY <1>0, <1>4 DEF AcceptRefused, JobInv, TypeOK
  <2> QED BY <1>4, <2>1, NoMove DEF AcceptRefused
<1> QED BY <1>1, <1>2, <1>3, <1>4 DEF OfferStep

LEMMA CouriersKeepJobs == ASSUME JobInv, TypeOK', NEW c \in Couriers, CourierStep(c) PROVE JobInv'
<1>1. CASE BeginShift(c)        BY <1>1, NoMove DEF BeginShift, MayJoin
<1>2. CASE EndShift(c)          BY <1>2, NoMove DEF EndShift, JobInv, TypeOK
<1>3. CASE AbortShift(c)        BY <1>3, NoMove DEF AbortShift
<1>4. CASE GoUnavailable(c)     BY <1>4, NoMove DEF GoUnavailable, JobInv, TypeOK
<1>5. CASE EligibilityLapses(c) BY <1>5, NoMove DEF EligibilityLapses
<1>6. CASE Reconcile(c)         BY <1>6, NoMove DEF Reconcile, JobInv, TypeOK
<1>7. ASSUME NEW approved \in BOOLEAN, Review(c, approved) PROVE JobInv'
  BY <1>7, NoMove DEF Review, JobInv, TypeOK
<1> QED BY <1>1, <1>2, <1>3, <1>4, <1>5, <1>6, <1>7 DEF CourierStep

LEMMA JobStep == OneCaller /\ JobInv /\ TypeOK' /\ [Next]_vars => JobInv'
<1> SUFFICES ASSUME OneCaller, JobInv, TypeOK', [Next]_vars PROVE JobInv'
  OBVIOUS
<1>1. ASSUME NEW d \in Deliveries, OrderStep(d) PROVE JobInv'
  BY <1>1, NoMove DEF OrderStep, MarkReady, HandOff, CancelOrder, courierVars
<1>2. ASSUME NEW d \in Deliveries, RequestCourier(d) PROVE JobInv'
  <2>1. \A e \in Deliveries : delivery'[e] = delivery[e]
                               \/ (delivery[e] \in Waiting /\ delivery'[e] \in Waiting)
    BY <1>2 DEF RequestCourier, JobInv, TypeOK, Waiting
  <2>2. \A c \in Couriers : available'[c] => available[c]
    BY <1>2 DEF RequestCourier
  <2> QED BY <1>2, <2>1, <2>2, NoMove DEF RequestCourier
<1>3. ASSUME NEW d \in Deliveries, NEW c \in Couriers, Assign(d, c) PROVE JobInv'
  BY <1>3, TakeJob DEF Assign
<1>4. CASE UNCHANGED vars
  BY <1>4, NoMove DEF vars, courierVars
<1> QED BY <1>1, <1>2, <1>3, <1>4, CodeKeepsJobs, OffersKeepJobs, CouriersKeepJobs,
           StatusKeepsJobs DEF Next

(* While a delivery's status calls come one at a time, no interleaving of   *)
(* accepts, assignments, rounds and turns to available puts a courier on    *)
(* two deliveries.                                                         *)
THEOREM OneJobEach == OneCaller => (Spec => []OneJobPerCourier)
<1> SUFFICES ASSUME OneCaller PROVE Spec => []OneJobPerCourier
  OBVIOUS
<1>1. JobInv /\ TypeOK' /\ [Next]_vars => JobInv' BY JobStep
<1>2. JobInv => OneJobPerCourier BY DEF JobInv
<1> QED BY <1>1, <1>2, JobInit, DispatchTypeCorrect, PTL DEF Spec

(* Nor is a courier on a delivery ever available for offers.                *)
THEOREM AvailableMeansFree == OneCaller => (Spec => []AvailableIsFree)
<1> SUFFICES ASSUME OneCaller PROVE Spec => []AvailableIsFree
  OBVIOUS
<1>1. JobInv /\ TypeOK' /\ [Next]_vars => JobInv' BY JobStep
<1>2. JobInv => AvailableIsFree BY DEF JobInv
<1> QED BY <1>1, <1>2, JobInit, DispatchTypeCorrect, PTL DEF Spec

-----------------------------------------------------------------------------
(* The goods leave the counter before they are carried.  A call that is     *)
(* under way may write at any time, so what it may write must stay right:   *)
(* its delivery has a courier, and a stage after the pickup was asked for   *)
(* only when the order had left the counter.  No bound on calls is assumed. *)
AtCounter == {"preparing", "ready"}

Prepared    == \A d \in Deliveries : delivery[d] # "quoted" => orderStatus[d] # "preparing"
HandedOff   == \A d \in Deliveries : delivery[d] \in Carried => orderStatus[d] \notin AtCounter
CallsTaken  == \A w \in Calls : call[w] # "none" => delivery[w[1]] \notin Waiting
CallsHanded == \A w \in Calls : call[w] \in Carried \ {"picked_up"} =>
                 orderStatus[w[1]] \notin AtCounter

HandInv == TypeOK /\ Unassigned /\ Prepared /\ HandedOff /\ CallsTaken /\ CallsHanded

LEMMA CarriedFacts ==
    /\ Carried \cap Waiting = {} /\ "quoted" \notin Carried /\ "quoted" \in Waiting
    /\ "courier_assigned" \notin Carried /\ "none" \notin Carried
    /\ "awaiting_courier" \in Waiting
    /\ \A s \in DOMAIN Flow : Flow[s] \in Carried \ {"picked_up"} => s \in Carried
BY DEF Carried, Waiting, Flow

LEMMA HandInit == Init => HandInv
<1> SUFFICES ASSUME Init PROVE HandInv
  OBVIOUS
<1>1. TypeOK BY TypeInit DEF TypeInv
<1> QED BY <1>1, CarriedFacts DEF Init, HandInv, Unassigned, Prepared, HandedOff, CallsTaken,
           CallsHanded

(* Steps by which no delivery is taken or picked up, and no order is back   *)
(* at the counter.                                                         *)
Settled ==
    /\ UNCHANGED <<courier, call>>
    /\ \A d \in Deliveries :
         /\ \/ delivery'[d] = delivery[d]
            \/ delivery[d] = "courier_arrived_at_customer" /\ delivery'[d] = "delivered"
         /\ orderStatus'[d] \in AtCounter => orderStatus[d] \in AtCounter
         /\ orderStatus'[d] = "preparing" => orderStatus[d] = "preparing"

LEMMA SettledKeeps == ASSUME HandInv, TypeOK', Settled PROVE HandInv'
<1>1. \A d \in Deliveries : (delivery'[d] \in Waiting <=> delivery[d] \in Waiting)
                            /\ (delivery'[d] \in Carried <=> delivery[d] \in Carried)
                            /\ (delivery'[d] = "quoted" <=> delivery[d] = "quoted")
  BY CarriedFacts DEF Settled, Carried, Waiting
<1> QED BY <1>1, CallParts DEF Settled, HandInv, Unassigned, Prepared, HandedOff, CallsTaken, CallsHanded

(* A courier gets a delivery (Accept, Assign).                              *)
LEMMA TakenAtCounter ==
    ASSUME HandInv, TypeOK', NEW d \in Deliveries, NEW c \in Couriers,
           delivery[d] = "awaiting_courier",
           courier' = [courier EXCEPT ![d] = c],
           delivery' = [delivery EXCEPT ![d] = "courier_assigned"],
           UNCHANGED <<orderStatus, call>>
    PROVE  HandInv'
<1>1. /\ delivery'[d] = "courier_assigned" /\ courier'[d] = c /\ c # "none"
      /\ \A e \in Deliveries : e # d => delivery'[e] = delivery[e] /\ courier'[e] = courier[e]
      /\ "courier_assigned" \notin Waiting
  BY DispatchAssumption, FlowFacts DEF HandInv, TypeOK
<1>2. Unassigned'
  BY <1>1 DEF HandInv, Unassigned
<1>3. Prepared' /\ HandedOff'
  BY <1>1, CarriedFacts DEF HandInv, Prepared, HandedOff
<1>4. CallsTaken' /\ CallsHanded'
  BY <1>1, CallParts DEF HandInv, CallsTaken, CallsHanded
<1> QED BY <1>2, <1>3, <1>4 DEF HandInv

LEMMA RequestAtCounter ==
    ASSUME HandInv, TypeOK', NEW d \in Deliveries, RequestCourier(d) PROVE HandInv'
<1>1. /\ delivery[d] \in Waiting /\ orderStatus[d] = "ready"
      /\ delivery' = [delivery EXCEPT ![d] = "awaiting_courier"]
      /\ UNCHANGED <<orderStatus, courier, call>>
  BY DEF RequestCourier
<1>2. \A e \in Deliveries : (delivery'[e] \in Waiting <=> delivery[e] \in Waiting)
                            /\ (delivery'[e] = delivery[e] \/ e = d)
  BY <1>1, CarriedFacts DEF HandInv, TypeOK
<1>3. delivery'[d] \notin Carried
  BY <1>1, CarriedFacts DEF HandInv, TypeOK
<1> QED BY <1>1, <1>2, <1>3, CallParts DEF HandInv, Unassigned, Prepared, HandedOff, CallsTaken,
           CallsHanded

LEMMA StatusAtCounter ==
    ASSUME HandInv, TypeOK', NEW w \in Calls, StatusStep(w) PROVE HandInv'
<1>0. w[1] \in Deliveries BY CallParts
<1>1. CASE BeginStatus(w)
  <2>1. \A v \in Calls : call'[v] # "none" =>
          call'[v] = call[v] \/ (v = w /\ delivery[w[1]] \in DOMAIN Flow
                                 /\ call'[v] = Flow[delivery[w[1]]])
    BY <1>1 DEF BeginStatus, HandInv, TypeOK
  <2>2. CallsTaken'
    BY <1>1, <2>1, FlowFacts DEF BeginStatus, HandInv, CallsTaken
  <2>3. CallsHanded'
    BY <1>0, <1>1, <2>1, CarriedFacts DEF BeginStatus, HandInv, HandedOff, CallsHanded
  <2> QED BY <1>1, <2>2, <2>3 DEF BeginStatus, HandInv, Unassigned, Prepared, HandedOff
<1>2. CASE EndStatus(w)
  <2>1. /\ call[w] \in Reported /\ call[w] \notin Waiting /\ call[w] # "none"
        /\ delivery[w[1]] \notin Waiting /\ delivery[w[1]] # "quoted"
    BY <1>2, FlowFacts, CarriedFacts DEF EndStatus, HandInv, TypeOK, CallsTaken
  <2>2. /\ delivery'[w[1]] = call[w] /\ courier' = courier
        /\ \A e \in Deliveries : e # w[1] => delivery'[e] = delivery[e]
                                             /\ orderStatus'[e] = orderStatus[e]
        /\ orderStatus'[w[1]] = IF call[w] = "picked_up" /\ orderStatus[w[1]] = "ready"
                                THEN "handoff_to_delivery" ELSE orderStatus[w[1]]
    BY <1>0, <1>2 DEF EndStatus, HandInv, TypeOK
  <2>3. \A v \in Calls : call'[v] # "none" => call'[v] = call[v]
    BY <1>2 DEF EndStatus, HandInv, TypeOK
  <2>4. orderStatus[w[1]] # "preparing"
    BY <1>0, <2>1 DEF HandInv, Prepared
  <2>5. Unassigned'
    BY <1>0, <2>1, <2>2 DEF HandInv, Unassigned
  <2>6. Prepared' /\ HandedOff'
    <3>1. call[w] \in Carried => orderStatus'[w[1]] \notin AtCounter
      BY <2>2, <2>4 DEF HandInv, CallsHanded, AtCounter
    <3>2. orderStatus'[w[1]] # "preparing"
      BY <2>2, <2>4
    <3> QED BY <2>2, <3>1, <3>2 DEF HandInv, Prepared, HandedOff
  <2>7. CallsTaken' /\ CallsHanded'
    <3>1. \A e \in Deliveries : orderStatus'[e] \in AtCounter => orderStatus[e] \in AtCounter
      BY <2>2 DEF AtCounter
    <3>2. \A e \in Deliveries : delivery[e] \notin Waiting => delivery'[e] \notin Waiting
      BY <2>1, <2>2
    <3> QED BY <2>3, <3>1, <3>2, CallParts, CarriedFacts DEF HandInv, CallsTaken, CallsHanded
  <2> QED BY <2>5, <2>6, <2>7 DEF HandInv
<1>3. CASE DropStatus(w)
  <2>1. \A v \in Calls : call'[v] # "none" => call'[v] = call[v]
    BY <1>3 DEF DropStatus, HandInv, TypeOK
  <2> QED BY <1>3, <2>1, CarriedFacts DEF DropStatus, HandInv, Unassigned, Prepared, HandedOff,
             CallsTaken, CallsHanded
<1> QED BY <1>1, <1>2, <1>3 DEF StatusStep

LEMMA HandStep == HandInv /\ TypeOK' /\ [Next]_vars => HandInv'
<1> SUFFICES ASSUME HandInv, TypeOK', [Next]_vars PROVE HandInv'
  OBVIOUS
<1>1. ASSUME NEW d \in Deliveries, OrderStep(d) PROVE HandInv'
  <2>1. Settled
    BY <1>1 DEF OrderStep, MarkReady, HandOff, CancelOrder, HandInv, TypeOK, AtCounter, Settled
  <2> QED BY <2>1, SettledKeeps
<1>2. ASSUME NEW d \in Deliveries, CodeStep(d) PROVE HandInv'
  <2>1. Settled
    BY <1>2 DEF CodeStep, WrongCode, LockLapses, Complete, HandInv, TypeOK, AtCounter, Settled,
       courierVars
  <2> QED BY <2>1, SettledKeeps
<1>3. ASSUME NEW s \in Slots, OfferStep(s) PROVE HandInv'
  <2>1. CASE Accept(s)
    <3>1. s[1] \in Deliveries /\ s[2] \in Couriers
      BY SlotParts
    <3> QED BY <2>1, <3>1, TakenAtCounter DEF Accept, Open
  <2>2. CASE OfferLapses(s) \/ Decline(s) \/ AcceptRefused(s)
    <3>1. Settled
      BY <2>2 DEF OfferLapses, Decline, AcceptRefused, courierVars, Settled
    <3> QED BY <3>1, SettledKeeps
  <2> QED BY <1>3, <2>1, <2>2 DEF OfferStep
<1>4. ASSUME NEW c \in Couriers, CourierStep(c) PROVE HandInv'
  <2>1. Settled
    BY <1>4 DEF CourierStep, BeginShift, EndShift, AbortShift, GoUnavailable,
       EligibilityLapses, Reconcile, Review, Settled
  <2> QED BY <2>1, SettledKeeps
<1>5. ASSUME NEW d \in Deliveries, NEW c \in Couriers, Assign(d, c) PROVE HandInv'
  BY <1>5, TakenAtCounter DEF Assign
<1>6. ASSUME NEW d \in Deliveries, RequestCourier(d) PROVE HandInv'
  BY <1>6, RequestAtCounter
<1>7. ASSUME NEW w \in Calls, StatusStep(w) PROVE HandInv'
  BY <1>7, StatusAtCounter
<1>8. CASE UNCHANGED vars
  <2>1. Settled
    BY <1>8 DEF vars, Settled
  <2> QED BY <2>1, SettledKeeps
<1> QED BY <1>1, <1>2, <1>3, <1>4, <1>5, <1>6, <1>7, <1>8 DEF Next

(* Nobody takes a delivery from its courier: who may take one finds it      *)
(* waiting, and it never is.                                               *)
LEMMA CourierStays ==
    ASSUME HandInv, [Next]_vars, NEW d \in Deliveries, courier[d] # "none"
    PROVE  courier'[d] = courier[d]
<1> DEFINE P == courier'[d] = courier[d]
<1> SUFFICES P OBVIOUS
<1>0. delivery[d] # "awaiting_courier"
  BY CarriedFacts DEF HandInv, Unassigned
<1>1. ASSUME NEW s \in Slots, OfferStep(s) PROVE P
  BY <1>0, <1>1, SlotParts DEF OfferStep, OfferLapses, Decline, Accept, AcceptRefused, Open,
     HandInv, TypeOK
<1>2. ASSUME NEW c \in Couriers, CourierStep(c) PROVE P
  BY <1>2 DEF CourierStep, BeginShift, EndShift, AbortShift, GoUnavailable, EligibilityLapses,
     Reconcile, Review
<1>3. ASSUME NEW e \in Deliveries, NEW c \in Couriers, Assign(e, c) PROVE P
  BY <1>0, <1>3 DEF Assign, HandInv, TypeOK
<1>4. CASE \/ \E e \in Deliveries : OrderStep(e) \/ RequestCourier(e) \/ CodeStep(e)
           \/ \E w \in Calls : StatusStep(w)
           \/ UNCHANGED vars
  BY <1>4 DEF OrderStep, MarkReady, HandOff, CancelOrder, RequestCourier, CodeStep, WrongCode,
     LockLapses, Complete, StatusStep, BeginStatus, EndStatus, DropStatus, vars
<1> HIDE DEF P
<1> QED BY <1>1, <1>2, <1>3, <1>4 DEF Next

(* For any number of status calls under way at once, and late writes among  *)
(* them: a taken delivery stays with its courier and is not carried, nor at *)
(* the customer's door, before its order has left the counter.             *)
THEOREM HandedOffFirst == Spec => CarriedIsHandedOff
<1>1. HandInv /\ TypeOK' /\ [Next]_vars => HandInv' BY HandStep
<1>2. HandInv /\ HandInv' /\ [Next]_vars =>
        [\A d \in Deliveries : courier[d] # "none" =>
           /\ courier'[d] = courier[d] /\ delivery'[d] \notin Waiting
           /\ delivery'[d] \in Carried => orderStatus'[d] \notin {"preparing", "ready"}]_vars
  BY CourierStays DEF HandInv, Unassigned, HandedOff, AtCounter
<1> QED BY <1>1, <1>2, HandInit, DispatchTypeCorrect, PTL DEF Spec, CarriedIsHandedOff

-----------------------------------------------------------------------------
(* First accept wins.  An accepted offer holds because its delivery is not  *)
(* waiting any more, so no round, accept or assignment can touch it.        *)
WaitingIsFree == \A d \in Deliveries : delivery[d] \in Waiting => courier[d] = "none"
AcceptInv == TypeOK /\ WaitingIsFree /\ FirstAcceptWins

LEMMA AcceptInit == Init => AcceptInv
<1> SUFFICES ASSUME Init PROVE AcceptInv
  OBVIOUS
<1>1. TypeOK BY TypeInit DEF TypeInv
<1> QED BY <1>1 DEF Init, AcceptInv, WaitingIsFree, FirstAcceptWins

LEMMA NothingAccepted ==
    ASSUME AcceptInv, NEW d \in Deliveries, courier[d] = "none"
    PROVE  \A t \in Slots : t[1] = d => offer[t] # "accepted"
BY SlotParts, DispatchAssumption DEF AcceptInv, FirstAcceptWins

(* Steps that give no delivery away and open no round.                      *)
LEMMA AcceptedKept ==
    ASSUME AcceptInv, TypeOK', UNCHANGED <<courier, round>>,
           \A d \in Deliveries : delivery'[d] \in Waiting => delivery[d] \in Waiting,
           \A t \in Slots : offer'[t] = "accepted" => offer[t] = "accepted"
    PROVE  AcceptInv'
BY DEF AcceptInv, WaitingIsFree, FirstAcceptWins

LEMMA AcceptStep == AcceptInv /\ TypeOK' /\ [Next]_vars => AcceptInv'
<1> SUFFICES ASSUME AcceptInv, TypeOK', [Next]_vars PROVE AcceptInv'
  OBVIOUS
<1>1. ASSUME NEW d \in Deliveries, OrderStep(d) PROVE AcceptInv'
  BY <1>1, AcceptedKept DEF OrderStep, MarkReady, HandOff, CancelOrder, offerVars
<1>2. ASSUME NEW d \in Deliveries, RequestCourier(d) PROVE AcceptInv'
  <2>1. courier[d] = "none"
    BY <1>2 DEF RequestCourier, AcceptInv, WaitingIsFree
  <2>2. \A t \in Slots : offer'[t] = "accepted" => offer[t] = "accepted"
    BY <1>2 DEF RequestCourier
  <2>3. FirstAcceptWins'
    BY <1>2, <2>1, <2>2, NothingAccepted, SlotParts DEF RequestCourier, AcceptInv, TypeOK, FirstAcceptWins
  <2> QED BY <1>2, <2>1, <2>3 DEF RequestCourier, AcceptInv, TypeOK, WaitingIsFree
<1>3. ASSUME NEW d \in Deliveries, CodeStep(d) PROVE AcceptInv'
  <2>1. \A e \in Deliveries : delivery'[e] \in Waiting => delivery[e] \in Waiting
    BY <1>3 DEF CodeStep, WrongCode, LockLapses, Complete, AcceptInv, TypeOK, Waiting
  <2> QED BY <1>3, <2>1, AcceptedKept DEF CodeStep, WrongCode, LockLapses, Complete, offerVars
<1>4. ASSUME NEW s \in Slots, OfferStep(s) PROVE AcceptInv'
  <2>0. s[1] \in Deliveries /\ s[2] \in Couriers BY SlotParts
  <2>1. CASE OfferLapses(s)
    BY <1>4, <2>1, AcceptedKept DEF OfferLapses, AcceptInv, TypeOK
  <2>2. CASE Decline(s)
    BY <1>4, <2>2, AcceptedKept DEF Decline, AcceptInv, TypeOK
  <2>3. CASE Accept(s)
    <3>1. \A t \in Slots : offer'[t] = "accepted" => t = s \/ (offer[t] = "accepted" /\ t[1] # s[1])
      BY <2>0, <2>3, NothingAccepted DEF Accept, Open, Close, AcceptInv, TypeOK
    <3>2. /\ courier' = [courier EXCEPT ![s[1]] = s[2]]
          /\ round' = round /\ s[3] = round[s[1]]
      BY <2>3 DEF Accept, Open, offerVars
    <3>3. courier'[s[1]] = s[2] /\ round'[s[1]] = s[3]
      BY <2>0, <3>2 DEF AcceptInv, TypeOK
    <3>4. ASSUME NEW t \in Slots, offer'[t] = "accepted", t # s
          PROVE  courier'[t[1]] = t[2] /\ round'[t[1]] = t[3]
      <4>1. offer[t] = "accepted" /\ t[1] # s[1]
        BY <3>1, <3>4
      <4>2. courier'[t[1]] = courier[t[1]]
        BY <3>2, <4>1, SlotParts DEF AcceptInv, TypeOK
      <4> QED BY <3>2, <4>1, <4>2 DEF AcceptInv, FirstAcceptWins
    <3>5. FirstAcceptWins'
      BY <3>3, <3>4 DEF FirstAcceptWins
    <3> QED BY <2>0, <2>3, <3>5 DEF Accept, AcceptInv, TypeOK, WaitingIsFree, Waiting
  <2>4. CASE AcceptRefused(s)
    BY <1>4, <2>4, AcceptedKept DEF AcceptRefused, Close, AcceptInv, TypeOK
  <2> QED BY <1>4, <2>1, <2>2, <2>3, <2>4 DEF OfferStep
<1>5. ASSUME NEW c \in Couriers, CourierStep(c) PROVE AcceptInv'
  <2>1. UNCHANGED <<courier, round, delivery>>
    BY <1>5 DEF CourierStep, BeginShift, EndShift, AbortShift, GoUnavailable, EligibilityLapses,
       Reconcile, Review, offerVars
  <2>2. ASSUME NEW t \in Slots, offer'[t] = "accepted" PROVE offer[t] = "accepted"
    <3>1. CASE offer' = offer BY <2>2, <3>1
    <3>2. CASE \E closed : offer' = Close(closed)
      BY <2>2, <3>2 DEF Close
    <3>3. CASE EndShift(c)
      BY <2>2, <3>3 DEF EndShift
    <3>4. CASE BeginShift(c) \/ AbortShift(c) \/ EligibilityLapses(c)
      BY <3>1, <3>4 DEF BeginShift, AbortShift, EligibilityLapses, offerVars
    <3>5. CASE GoUnavailable(c) \/ Reconcile(c)
      BY <3>2, <3>5 DEF GoUnavailable, Reconcile
    <3>6. CASE \E approved \in BOOLEAN : Review(c, approved)
      BY <3>1, <3>2, <3>6 DEF Review
    <3> QED BY <1>5, <3>3, <3>4, <3>5, <3>6 DEF CourierStep
  <2> QED BY <2>1, <2>2, AcceptedKept
<1>6. ASSUME NEW d \in Deliveries, NEW c \in Couriers, Assign(d, c) PROVE AcceptInv'
  <2>1. \A t \in Slots : offer'[t] = "accepted" => offer[t] = "accepted" /\ t[1] # d
    BY <1>6, NothingAccepted DEF Assign, Close, AcceptInv, TypeOK
  <2>2. FirstAcceptWins'
    BY <1>6, <2>1, SlotParts DEF Assign, AcceptInv, TypeOK, FirstAcceptWins
  <2> QED BY <1>6, <2>2 DEF Assign, AcceptInv, TypeOK, WaitingIsFree, Waiting
<1>7. ASSUME NEW w \in Calls, StatusStep(w) PROVE AcceptInv'
  <2>1. \A e \in Deliveries : delivery'[e] \in Waiting => delivery[e] \in Waiting
    BY <1>7, FlowFacts DEF StatusStep, BeginStatus, EndStatus, DropStatus, AcceptInv, TypeOK
  <2> QED BY <1>7, <2>1, AcceptedKept DEF StatusStep, BeginStatus, EndStatus, DropStatus, offerVars
<1>8. CASE UNCHANGED vars
  BY <1>8, AcceptedKept DEF vars, offerVars
<1> QED BY <1>1, <1>2, <1>3, <1>4, <1>5, <1>6, <1>7, <1>8 DEF Next

(* A courier whose accept was answered 200 has the delivery for good,       *)
(* however many status calls, rounds and late offers there are.            *)
THEOREM AcceptanceHolds == Spec => []FirstAcceptWins
<1>1. AcceptInv => FirstAcceptWins BY DEF AcceptInv
<1> QED BY <1>1, AcceptInit, AcceptStep, DispatchTypeCorrect, PTL DEF Spec

-----------------------------------------------------------------------------
(* Completion and cancellation of the order.                               *)
DoneInv == TypeOK /\ DeliveredIsCompleted

LEMMA DoneStep == DoneInv /\ TypeOK' /\ [Next]_vars => DoneInv'
<1> SUFFICES ASSUME DoneInv, TypeOK', [Next]_vars PROVE DoneInv'
  OBVIOUS
<1>1. ASSUME NEW d \in Deliveries, OrderStep(d) PROVE DoneInv'
  BY <1>1 DEF OrderStep, MarkReady, HandOff, CancelOrder, DoneInv, TypeOK, DeliveredIsCompleted
<1>2. ASSUME NEW d \in Deliveries, RequestCourier(d) PROVE DoneInv'
  BY <1>2 DEF RequestCourier, DoneInv, TypeOK, DeliveredIsCompleted
<1>3. ASSUME NEW d \in Deliveries, CodeStep(d) PROVE DoneInv'
  BY <1>3 DEF CodeStep, WrongCode, LockLapses, Complete, DoneInv, TypeOK, DeliveredIsCompleted
<1>4. ASSUME NEW s \in Slots, OfferStep(s) PROVE DoneInv'
  BY <1>4, SlotParts DEF OfferStep, OfferLapses, Decline, Accept, AcceptRefused, DoneInv, TypeOK,
     DeliveredIsCompleted
<1>5. ASSUME NEW c \in Couriers, CourierStep(c) PROVE DoneInv'
  BY <1>5 DEF CourierStep, BeginShift, EndShift, AbortShift, GoUnavailable, EligibilityLapses,
     Reconcile, Review, DoneInv, DeliveredIsCompleted
<1>6. ASSUME NEW d \in Deliveries, NEW c \in Couriers, Assign(d, c) PROVE DoneInv'
  BY <1>6 DEF Assign, DoneInv, TypeOK, DeliveredIsCompleted
<1>7. ASSUME NEW w \in Calls, StatusStep(w) PROVE DoneInv'
  <2>1. CASE EndStatus(w)
    <3>1. w[1] \in Deliveries /\ call[w] # "delivered"
      BY <2>1, CallParts, FlowFacts DEF EndStatus, DoneInv, TypeOK
    <3> QED BY <2>1, <3>1 DEF EndStatus, DoneInv, TypeOK, DeliveredIsCompleted
  <2>2. CASE BeginStatus(w) \/ DropStatus(w)
    BY <2>2 DEF BeginStatus, DropStatus, DoneInv, DeliveredIsCompleted
  <2> QED BY <1>7, <2>1, <2>2 DEF StatusStep
<1>8. CASE UNCHANGED vars
  BY <1>8 DEF vars, DoneInv, DeliveredIsCompleted
<1> QED BY <1>1, <1>2, <1>3, <1>4, <1>5, <1>6, <1>7, <1>8 DEF Next

(* The order of a delivered delivery is completed and stays so, whatever    *)
(* merchants cancel or hand off meanwhile.                                 *)
THEOREM DeliveryCompletes == Spec => []DeliveredIsCompleted
<1>1. Init => DoneInv
  BY TypeInit DEF Init, DoneInv, TypeInv, DeliveredIsCompleted
<1>2. DoneInv => DeliveredIsCompleted BY DEF DoneInv
<1> QED BY <1>1, <1>2, DoneStep, DispatchTypeCorrect, PTL DEF Spec

-----------------------------------------------------------------------------
(* Refusals: each way an offer is written leaves a declined one alone, and  *)
(* both ways to give a delivery away look at the offer of the round.        *)
LEMMA RefusalStep ==
    ASSUME TypeOK, [Next]_vars, NEW s \in Slots, offer[s] = "declined"
    PROVE  /\ offer'[s] = "declined"
           /\ (courier[s[1]] = "none" /\ courier'[s[1]] = s[2]) => s[3] # round[s[1]]
<1> DEFINE P == /\ offer'[s] = "declined"
                /\ (courier[s[1]] = "none" /\ courier'[s[1]] = s[2]) => s[3] # round[s[1]]
<1> SUFFICES P OBVIOUS
<1>0. /\ s[1] \in Deliveries /\ s[2] \in Couriers /\ "none" \notin Couriers
      /\ s[3] \in Rounds(s[1]) /\ s = <<s[1], s[2], s[3]>>
  BY SlotParts, DispatchAssumption
<1>1. ASSUME NEW d \in Deliveries, OrderStep(d) PROVE P
  BY <1>0, <1>1 DEF OrderStep, MarkReady, HandOff, CancelOrder, offerVars
<1>2. ASSUME NEW d \in Deliveries, RequestCourier(d) PROVE P
  BY <1>0, <1>2 DEF RequestCourier
<1>3. ASSUME NEW d \in Deliveries, CodeStep(d) PROVE P
  BY <1>0, <1>3 DEF CodeStep, WrongCode, LockLapses, Complete, offerVars
<1>4. ASSUME NEW t \in Slots, OfferStep(t) PROVE P
  <2>0. t[1] \in Deliveries /\ t[2] \in Couriers /\ t = <<t[1], t[2], t[3]>>
    BY SlotParts
  <2>1. CASE OfferLapses(t) BY <1>0, <2>1 DEF OfferLapses, TypeOK
  <2>2. CASE Decline(t)     BY <1>0, <2>2 DEF Decline, TypeOK
  <2>3. CASE Accept(t)
    <3>1. t # s BY <2>3 DEF Accept
    <3>2. offer'[s] = "declined"
      BY <2>3, <3>1 DEF Accept, Close, TypeOK
    <3>3. t[3] = round[t[1]]
      BY <2>3 DEF Accept, Open
    <3> QED BY <1>0, <2>0, <2>3, <3>1, <3>2, <3>3 DEF Accept, TypeOK
  <2>4. CASE AcceptRefused(t) BY <1>0, <2>4 DEF AcceptRefused, Close, TypeOK
  <2> QED BY <1>4, <2>1, <2>2, <2>3, <2>4 DEF OfferStep
<1>5. ASSUME NEW c \in Couriers, CourierStep(c) PROVE P
  BY <1>0, <1>5 DEF CourierStep, BeginShift, EndShift, AbortShift, GoUnavailable,
     EligibilityLapses, Reconcile, Review, offerVars, Close
<1>6. ASSUME NEW d \in Deliveries, NEW c \in Couriers, Assign(d, c) PROVE P
  <2>1. offer'[s] = "declined"
    BY <1>6 DEF Assign, Close
  <2> QED BY <1>0, <1>6, <2>1 DEF Assign, Refused, TypeOK
<1>7. ASSUME NEW w \in Calls, StatusStep(w) PROVE P
  BY <1>0, <1>7 DEF StatusStep, BeginStatus, EndStatus, DropStatus, offerVars
<1>8. CASE UNCHANGED vars
  BY <1>0, <1>8 DEF vars, offerVars
<1> HIDE DEF P
<1> QED BY <1>1, <1>2, <1>3, <1>4, <1>5, <1>6, <1>7, <1>8 DEF Next

(* A courier's refusal of an offer stands for the whole round, against the  *)
(* admin's assignment and the courier's own turns to available.            *)
THEOREM RefusalIsFinal == Spec => RefusalStands
<1>1. TypeOK /\ [Next]_vars =>
        [\A s \in Slots : offer[s] = "declined" =>
           /\ offer'[s] = "declined"
           /\ (courier[s[1]] = "none" /\ courier'[s[1]] = s[2]) => s[3] # round[s[1]]]_vars
  BY RefusalStep
<1> QED BY <1>1, DispatchTypeCorrect, PTL DEF Spec, RefusalStands
=============================================================================
