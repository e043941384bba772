SPECIFICATION Spec
CONSTANTS
    o1 = o1
    o2 = o2
    rice = rice
    mug = mug
    l1 = l1
    l2 = l2
    Orders = {o1, o2}
    Items <- TwoItems
    MarketItems = {mug}
    Lots = {l1, l2}
    LotItem <- MCLotItem
    Rank <- MCRank
    LotSize <- MCLotSize
    Need <- RiceAndMug
    MaxNeed = 2
    OrderTotal <- NoCharge
    AllowedTerms <- CounterTerms
    ShelfOps = {"loss", "lot_loss", "count", "sale", "receive", "recall", "expiry", "market"}
    OpeningLots = {l1}
    OpeningStock <- Rice3Mug1
    Perishable = {l1}
    MaxCount = 3
    MarketLevels = {1}
    MaxWithheld = 1
INVARIANTS TypeOK ItemsConserved LotsConserved
PROPERTIES KeepsPromise
