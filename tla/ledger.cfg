SPECIFICATION MCSpec
CONSTANTS
    rice = rice
    bags = bags
    l1 = l1
    l2 = l2
    l3 = l3
    n1 = n1
    n2 = n2
    n3 = n3
    r1 = r1
    Orders = {}
    Items = {rice, bags}
    MarketItems = {}
    Lots = {l1, l2, l3}
    LotItem <- MCLotItem
    Rank <- MCRank
    LotSize <- MCLotSize
    Need <- Nothing
    MaxNeed = 0
    OrderTotal <- Nothing
    AllowedTerms = {}
    ShelfOps = {"lot_loss", "recall"}
    OpeningLots = {}
    OpeningStock <- OneRice
    Perishable = {}
    MaxCount = 1
    MarketLevels = {}
    MaxWithheld = 0
    PurchaseOrders = {1, 2}
    PoItems = {n1, n2, n3}
    OrderOf <- MCOrderOf
    StockItem <- AllRice
    Ordered <- MCOrdered
    UnitsPerPack <- MCUnits
    PackPrice <- MCPrice
    Returns = {r1}
    EvidenceWidth = 2
    Unanswered = Unanswered
    MaxInvoice = 2
    MaxCredit = 1
INVARIANTS LedgerShowsPayments
CHECK_DEADLOCK FALSE
