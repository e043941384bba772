SPECIFICATION MCFairSpec
CONSTANTS
    o1 = o1
    i1 = i1
    i2 = i2
    r1 = r1
    r2 = r2
    w1 = w1
    w2 = w2
    Orders = {o1}
    Intents = {i1, i2}
    SourceOrder <- MCSource
    OrderTotal <- MCTotal
    Configured = TRUE
    MaxCalls <- TwoCalls
    MaxHandlers <- TwoForFirst
    MaxRestarts = 1
    RefundIds = {r1, r2}
    RefundOf <- MCRefundOf
    Workers = {w1, w2}
    MaxBooked = 2
    DeliveryFee <- MCFee
    Shares = {"courier_net"}
    MaxCompletions = 1
INVARIANTS NeverOverpaid PaidIsEvidenced CreditedOnce ReviewedNotCredited RefundsAreReal RefundedIsRepaid PayTypeOK RefundedPayHeld
PROPERTIES SucceededStays CapturedMoneySurfaces
CHECK_DEADLOCK FALSE
