-------------------------- MODULE MCCountSession --------------------------
(* A shop with rice, which an order uses and a lot of which is on the way,  *)
(* and salt, in two storage places.  The whole product of transfers, pages, *)
(* new homes and sessions is beyond TLC: a behaviour has one kind of day.   *)
EXTENDS CountSession

CONSTANTS o1, rice, salt, l1, p1, p2, t1

VARIABLE day

Days == {"transfers", "pages", "homes", "two counts", "no session"}

MCLotItem == [l \in {l1} |-> rice]
MCRank    == [l \in {l1} |-> 1]
MCLotSize == [l \in {l1} |-> 1]
MCPlaceRank == [p \in {p1, p2} |-> IF p = p1 THEN 1 ELSE 2]
MCItemRank == [i \in {rice, salt} |-> IF i = rice THEN 1 ELSE 2]
MCHome == [i \in {rice, salt} |-> p1]

RiceOnly == [o \in {o1} |-> [i \in {rice, salt} |-> IF i = rice THEN 1 ELSE 0]]
NoCharge == [o \in {o1} |-> 0]
Rice2Salt1 == [i \in {rice, salt} |-> IF i = rice THEN 2 ELSE 1]
CounterTerms == {t \in Terms : t.fulfil = "pickup" /\ t.pay = "cash" /\ t.counter /\ ~t.trusted}

SaltAgrees ==
    session'.status \in {"in_progress", "review"} =>
        session'.counted[salt] \in {Absent, session'.expected[salt]}

(* Salt is there for the order in which two items are counted.             *)
SaltStays ==
    /\ home'[salt] = home[salt]
    /\ \A t \in Transfers : transfer'[t].state = "done" => transfer'[t].item = rice

MCInit == CountInit /\ day \in Days

MCNext ==
    /\ CountNext
    /\ UNCHANGED day
    /\ SaltStays
    /\ day \notin {"transfers", "no session"} => UNCHANGED transfer
    /\ day \notin {"pages", "no session"} => UNCHANGED repair
    /\ day \notin {"homes", "no session"} => UNCHANGED home
    /\ day = "pages" => UNCHANGED lotState
    /\ day = "no session" => UNCHANGED session
    /\ day # "two counts" => SaltAgrees

MCSpec == MCInit /\ [][MCNext]_<<allVars, day>> /\ PagesKeepComing
=============================================================================
