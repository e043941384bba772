SPECIFICATION MCFairSpec
CONSTANTS
    Null = Null
    j1 = j1
    i1 = i1
    i2 = i2
    Jobs = {j1}
    Totals = {1, 2}
    MaxQuotes = 3
    Intents = {i1, i2}
    JobOf <- OneJob
    MaxDeliveries = 2
    MaxCalls = 2
    MaxRestarts = 1
INVARIANTS AgreedPriceStands
PROPERTIES  CapturedJobMoneySurfaces
CHECK_DEADLOCK FALSE
