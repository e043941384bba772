SPECIFICATION MCSpec
CONSTANTS
    d1 = d1
    d2 = d2
    c1 = c1
    c2 = c2
    k1 = k1
    k2 = k2
    Deliveries = {d1}
    Couriers = {c1}
    Callers <- OneCall
    Able <- AnyCourier
    MaxFailures = 2
    MaxShifts = 1
    MaxRounds <- OneRound
SYMMETRY Alike
PROPERTIES ReadyWhenDispatched
