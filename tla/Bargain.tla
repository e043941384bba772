------------------------------ MODULE Bargain -------------------------------
(***************************************************************************)
(* What the platform promises two people who agree on a price for some      *)
(* work: the price is one that was offered and agreed to, it may be agreed  *)
(* anew until the work is done and never after, and what has been paid for  *)
(* the work, less what was paid back, is at no time more than that price.   *)
(* The last is promised as long as the books are right: once something was  *)
(* paid back, they may lose sight of what had been paid (Unbook).           *)
(***************************************************************************)
EXTENDS Integers

CONSTANTS Jobs,
          Prices, \* amounts that may be offered
          Null    \* no price yet

VARIABLES
    price, \* price[j]: the price agreed for job j
    done,  \* done[j]: the work is done
    paid,  \* paid[j]: what was paid for it and not paid back
    paidBack, \* paidBack[j]: some of what was paid for it was paid back
    unbooked  \* unbooked[j]: the books of j are wrong, no amount is promised

vars == <<price, done, paid, paidBack, unbooked>>

Init ==
    /\ price = [j \in Jobs |-> Null]
    /\ done = [j \in Jobs |-> FALSE]
    /\ paid = [j \in Jobs |-> 0]
    /\ paidBack = [j \in Jobs |-> FALSE]
    /\ unbooked = [j \in Jobs |-> FALSE]

Agree(j, p) ==
    /\ ~done[j]
    /\ price' = [price EXCEPT ![j] = p]
    /\ UNCHANGED <<done, paid, paidBack, unbooked>>

Finish(j) ==
    /\ price[j] # Null
    /\ done' = [done EXCEPT ![j] = TRUE]
    /\ UNCHANGED <<price, paid, paidBack, unbooked>>

Pay(j) ==
    /\ done[j] /\ ~unbooked[j]
    /\ \E n \in 1..(price[j] - paid[j]) : paid' = [paid EXCEPT ![j] = @ + n]
    /\ UNCHANGED <<price, done, paidBack, unbooked>>

PayBack(j) ==
    /\ ~unbooked[j]
    /\ \E n \in 1..paid[j] : paid' = [paid EXCEPT ![j] = @ - n]
    /\ paidBack' = [paidBack EXCEPT ![j] = TRUE]
    /\ UNCHANGED <<price, done, unbooked>>

Unbook(j) ==
    /\ paidBack[j]
    /\ unbooked' = [unbooked EXCEPT ![j] = TRUE]
    /\ paid' = [paid EXCEPT ![j] = 0]
    /\ UNCHANGED <<price, done, paidBack>>

Next ==
    \E j \in Jobs :
        \/ \E p \in Prices : Agree(j, p)
        \/ Finish(j)
        \/ Pay(j)
        \/ PayBack(j)
        \/ Unbook(j)

Spec == Init /\ [][Next]_vars
=============================================================================
