---------------------------- MODULE MCOrderStock ----------------------------
(* Small shops for TLC: one ingredient with supply lots and one marketplace *)
(* product, two customers' orders.                                         *)
EXTENDS OrderStock

CONSTANTS o1, o2, rice, mug, l1, l2

OneItem  == {rice}
TwoItems == {rice, mug}

MCLotItem == [l \in {l1, l2} |-> rice]
MCRank    == [l \in {l1, l2} |-> IF l = l1 THEN 1 ELSE 2]
MCLotSize == [l \in {l1, l2} |-> 2]

BothNeedRice == [o \in {o1, o2} |-> [i \in {rice} |-> 2]]
RiceAndMug   == [o \in {o1, o2} |->
                   [i \in {rice, mug} |-> IF i = rice THEN 2 ELSE IF o = o1 THEN 1 ELSE 0]]

Prices == [o \in {o1, o2} |-> IF o = o1 THEN 2 ELSE 1]

NoCharge == [o \in {o1, o2} |-> 0]

CounterTerms == {t \in Terms : t.fulfil = "pickup" /\ t.pay = "cash" /\ t.counter /\ ~t.trusted}

(* Cash before and at the counter, online at the counter, online delivery.  *)
(* OrderStockProofs has the gates for all sixteen combinations.             *)
FourTerms == CounterTerms \cup
    {t \in Terms : t.pay = "cash" /\ t.fulfil = "pickup" /\ ~t.counter /\ ~t.trusted} \cup
    {t \in Terms : t.pay = "online" /\ t.fulfil = "pickup" /\ t.counter /\ t.trusted} \cup
    {t \in Terms : t.pay = "online" /\ t.fulfil = "delivery" /\ ~t.counter /\ ~t.trusted}

RiceOf5 == [i \in {rice} |-> 5]
Rice3Mug1 == [i \in {rice, mug} |-> IF i = rice THEN 3 ELSE 1]
Rice5Mug1 == [i \in {rice, mug} |-> IF i = rice THEN 5 ELSE 1]
=============================================================================
