----------------------------- MODULE MCDispatch -----------------------------
(* Couriers who are able to make every delivery, on one of three days: two  *)
(* deliveries with one round of offers each, or one delivery that is        *)
(* offered twice, each with one status call at a time; or one delivery, of  *)
(* which two status calls are under way at once.  On a day of calls no      *)
(* shift begins after the delivery was made: a late call may then put a     *)
(* courier who is available back on it (DeliveredForGood).                  *)
EXTENDS Dispatch, TLC

CONSTANTS d1, d2, c1, c2, k1, k2

VARIABLE day

AnyCourier == [d \in Deliveries |-> Couriers]
OneCall    == [d \in Deliveries |-> {k1}]
TwoCalls   == [d \in Deliveries |-> {k1, k2}]
OneRound   == [d \in Deliveries |-> 1]
TwoRounds  == [d \in Deliveries |-> 2]
Alike      == Permutations(Deliveries) \cup Permutations(Couriers)

Busy(d) == orderStatus[d] # "preparing"

MCInit == Init /\ day \in {"deliveries", "rounds", "calls"}

OneCallAtATime == \A w \in Calls : w[2] # k1 => call[w] = "none"
OneDelivery    == \A d, e \in Deliveries : Busy(d) /\ Busy(e) => d = e
OneRoundEach   == \A d \in Deliveries : round[d] <= 1
ShiftsAreOver  == "delivered" \in {delivery[d] : d \in Deliveries} => joining' \subseteq joining

MCNext ==
    /\ Next
    /\ UNCHANGED day
    /\ day # "rounds" => OneRoundEach'
    /\ day # "deliveries" => OneDelivery'
    /\ IF day = "calls" THEN ShiftsAreOver ELSE OneCallAtATime'

MCSpec == MCInit /\ [][MCNext]_<<vars, day>>
=============================================================================
