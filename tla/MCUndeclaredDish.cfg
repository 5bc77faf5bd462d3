SPECIFICATION Spec
CONSTANTS
    Requests = {r1, r2}
    Scenarios <- MCScenarios
    Items = {"a1", "a2", "b1"}
    KitchenOf <- MCKitchenOf
    UnitPrice <- MCUnitPrice
    QuantityCap = 3
    CouponRow <- MCCouponRow
    InitialCoins = 250
    InitialLines <- MCInitialLines
    MaxLines = 2
    MaxPlaced = 2
    Keys = {k1, k2, k3}
    Prices = {0, 1, 2}
    Week = {0, 1}
    DayLength = 4
    Windows <- MCWindows
    DaySessions <- MCDaySessions
    Fans = {"f1", "f2"}
    Delivered <- MCDelivered
    MaxReviews = 2
    MaxTaps = 2
    PageSize = 2
    MaxWindow = 4
    MaxClock = 4
    Catalogue = {1, 2, 3, 4}
    Ranks <- MCRanks
    Limit = 1
    TakeFloor = 3
    MaxChanges = 1
INVARIANT DishesDeclareNutrition
CHECK_DEADLOCK FALSE
