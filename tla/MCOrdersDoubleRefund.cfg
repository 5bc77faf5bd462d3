SPECIFICATION Spec
CONSTANTS
    Users = {u1}
    OrderIds = {o1}
    Requests = {r1, r2, r3}
    InitialWallet = 3
    InitialCoins = 1
    ItemsTotal = 3
    CouponDiscount = 1
    UsageLimit = 1
    PerUserLimit = 1
    MaxRedeemableCoins = 1
    Simulatable = {}
SYMMETRY Symmetry
INVARIANT RefundedAtMostOnce
CHECK_DEADLOCK FALSE
