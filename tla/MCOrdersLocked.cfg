SPECIFICATION LockedSpec
CONSTANTS
    Users = {u1}
    OrderIds = {o1}
    Requests = {r1, r2, r3, r4, r5}
    InitialWallet = 3
    InitialCoins = 1
    ItemsTotal = 3
    CouponDiscount = 1
    UsageLimit = 0
    PerUserLimit = 0
    MaxRedeemableCoins = 1
    Simulatable = {"DELIVERED", "CANCELLED"}
SYMMETRY Symmetry
INVARIANTS BooksBalance
PROPERTIES ImplementsLifecycle
CHECK_DEADLOCK FALSE
