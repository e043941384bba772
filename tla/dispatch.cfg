SPECIFICATION MCSpec
CONSTANTS
    d1 = d1
    d2 = d2
    c1 = c1
    c2 = c2
    k1 = k1
    k2 = k2
    Deliveries = {d1, d2}
    Couriers = {c1, c2}
    Callers <- TwoCalls
    Able <- AnyCourier
    MaxFailures = 2
    MaxShifts = 2
    MaxRounds <- TwoRounds
SYMMETRY Alike
INVARIANTS TypeOK OneJobPerCourier AvailableIsFree DeliveredIsCompleted GuessesLimited FirstAcceptWins
PROPERTIES CarriedIsHandedOff RefusalStands
