SPECIFICATION MCSpec
CONSTANTS
    o1 = o1
    rice = rice
    salt = salt
    l1 = l1
    p1 = p1
    p2 = p2
    t1 = t1
    Orders = {o1}
    Items = {rice, salt}
    MarketItems = {}
    Lots = {l1}
    LotItem <- MCLotItem
    Rank <- MCRank
    LotSize <- MCLotSize
    Need <- RiceOnly
    MaxNeed = 1
    OrderTotal <- NoCharge
    AllowedTerms <- CounterTerms
    ShelfOps = {"receive"}
    OpeningLots = {}
    OpeningStock <- Rice2Salt1
    Perishable = {}
    MaxCount = 2
    MarketLevels = {}
    MaxWithheld = 0
    Places = {p1, p2}
    PlaceRank <- MCPlaceRank
    ItemRank <- MCItemRank
    OpeningHome <- MCHome
    Transfers = {t1}
    Everywhere = Everywhere
INVARIANTS PlacesTypeOK ReservationsBacked LotsWithinOnHand
PROPERTIES CountsSettle TransfersConserve DriftHeals
CHECK_DEADLOCK FALSE
