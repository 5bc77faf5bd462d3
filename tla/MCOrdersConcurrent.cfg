SPECIFICATION Spec
CONSTANTS
    Users = {u1}
    OrderIds = {o1, o2}
    Requests = {r1, r2, r3, r4}
    InitialWallet = 3
    InitialCoins = 1
    ItemsTotal = 3
    CouponDiscount = 1
    UsageLimit = 1
    PerUserLimit = 1
    MaxRedeemableCoins = 1
    Simulatable = {"DELIVERED"}
SYMMETRY Symmetry
INVARIANTS TypeOK CoinsNeverNegative TrackingMatchesStatus WalletOrdersPaidUpFront EffectsMatchHistory
PROPERTIES RefundsCommitWithCancellation
CHECK_DEADLOCK FALSE
