SPECIFICATION Spec
CONSTANTS
    o1 = o1
    o2 = o2
    rice = rice
    mug = mug
    l1 = l1
    l2 = l2
    Orders = {o1, o2}
    Items <- OneItem
    MarketItems = {}
    Lots = {l1, l2}
    LotItem <- MCLotItem
    Rank <- MCRank
    LotSize <- MCLotSize
    Need <- BothNeedRice
    MaxNeed = 2
    OrderTotal <- Prices
    AllowedTerms <- CounterTerms
    ShelfOps = {"recall"}
    OpeningLots = {l1}
    OpeningStock <- RiceOf5
    Perishable = {l1}
    MaxCount = 5
    MarketLevels = {}
    MaxWithheld = 1
INVARIANTS RecalledLotsStayHeld
CHECK_DEADLOCK FALSE
