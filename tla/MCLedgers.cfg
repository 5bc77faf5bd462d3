SPECIFICATION LedgersSpec
CONSTANTS
    Requests = {r1, r2}
    Withdrawals = {i1, i2}
    Amounts = {1, 2}
    MaxTopUps = 3
    MaxRefunds = 2
    PayoutIds = {i1, i2}
    KitchenRequests = {r1, r2}
    OpsRequests = {o1}
    OrderTotals = {10, 15}
    MaxGross = 25
    PremiumReels = {i1}
    PremiumDays = 4
    CycleDays = 2
    Price = 1
    MaxPremiumTopUps = 3
    ReelCap = 1
    CampaignIds = {c1}
    SuggestionIds = {i1, i2}
    AdReels = {reel}
    MaxCharges = 2
SYMMETRY Symmetry
INVARIANTS FundsReserved FailedIsRefunded NeverOverdrawn RefundedStaysFailed WithinEarnings PlansArePaid PaidPeriodHonoured ChargesCoverSpend SpendIsLiveDays
PROPERTIES EndedForGood
CHECK_DEADLOCK FALSE
