--------------------------- MODULE MCProcurement ---------------------------
(* A merchant who buys rice, in packs of two units (n1) and in single units *)
(* (n2 of the same order, n3 of another), and repacks it into bags.  The    *)
(* whole product of orders, goods and money is beyond TLC: a behaviour has  *)
(* one kind of day, in which the rest of the business stands still.         *)
EXTENDS Procurement

CONSTANTS rice, bags, l1, l2, l3, n1, n2, n3, r1

VARIABLE day

Days == {"confirmations", "goods", "by hand", "money"}

MCLotItem == [l \in {l1, l2, l3} |-> IF l = l3 THEN bags ELSE rice]
MCRank    == [l \in {l1, l2, l3} |-> IF l = l1 THEN 1 ELSE IF l = l2 THEN 2 ELSE 3]
MCLotSize == [l \in {l1, l2, l3} |-> 1]
OneRice   == [i \in {rice, bags} |-> IF i = rice THEN 1 ELSE 0]
MCOrderOf == [n \in {n1, n2, n3} |-> IF n = n3 THEN 2 ELSE 1]
AllRice   == [n \in {n1, n2, n3} |-> rice]
MCOrdered == [n \in {n1, n2, n3} |-> IF n = n2 THEN 1 ELSE 2]
MCUnits   == [n \in {n1, n2, n3} |-> IF n = n1 THEN 2 ELSE 1]
MCPrice   == [n \in {n1, n2, n3} |-> 1]
Nothing   == [o \in {} |-> 0]

NoConfirmations == UNCHANGED <<confirmed, backorder>> /\ \A po \in PurchaseOrders :
    poStatus'[po] \in {poStatus[po], "sent", "partially_received", "received"}

OnlyReceiptOf(lines) == \A n \in PoItems \ lines : received'[n] = received[n]

OneProgress == \A po \in PurchaseOrders :
    poStatus'[po] \in ProgressStatuses => poStatus'[po] \in {poStatus[po], "preparing"}

MCInit == TradeInit /\ day \in Days

MCNext ==
    /\ TradeNext
    /\ UNCHANGED day
    /\ OneProgress
    /\ day # "confirmations" => NoConfirmations
    /\ IF day = "by hand" THEN UNCHANGED recalled ELSE UNCHANGED handVars
    /\ day # "money" => UNCHANGED moneyVars /\ poStatus'[2] = "none"
    /\ day \notin {"goods", "money"} => UNCHANGED returnVars
    /\ day \notin {"goods", "by hand"} =>
         UNCHANGED <<bookVars, yardVars>> /\ \A l \in Lots : source'[l].kind # "repack"
    /\ day \in {"goods", "by hand"} => OnlyReceiptOf({n1})
    /\ day = "money" => OnlyReceiptOf({n2, n3})

MCSpec == MCInit /\ [][MCNext]_<<allVars, day>>
=============================================================================
