SPECIFICATION FairSpec
CONSTANTS
    o1 = o1
    o2 = o2
    rice = rice
    mug = mug
    l1 = l1
    l2 = l2
    Orders = {o1, o2}
    Items <- TwoItems
    MarketItems = {mug}
    Lots = {l1, l2}
    LotItem <- MCLotItem
    Rank <- MCRank
    LotSize <- MCLotSize
    Need <- RiceAndMug
    MaxNeed = 2
    OrderTotal <- Prices
    AllowedTerms <- FourTerms
    ShelfOps = {"receive", "recall", "expiry", "withhold"}
    OpeningLots = {l1}
    OpeningStock <- Rice5Mug1
    Perishable = {l1}
    MaxCount = 1
    MarketLevels = {}
    MaxWithheld = 1
INVARIANTS StockFollowsStatus PreparationGated ReservationsBacked LiveHoldCanStart
PROPERTIES HeldUpStartsHeal
CHECK_DEADLOCK FALSE
