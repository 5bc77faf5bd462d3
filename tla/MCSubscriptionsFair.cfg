SPECIFICATION FairSpec
CONSTANTS
    Subs = {s1}
    Requests = {r1}
    Calls = {"approve", "kitchenPause", "pause", "kitchenResume", "cancel", "read", "skip"}
    MaxDay = 3
    StartDays = {0, 1}
    PauseDays = {1}
    CycleDays = 1
    CycleGuard = 3
    WindowDays = 2
    OffDays = {1}
    PricePerCycle = 2
    MaxCoins = 1
    MaxRefunds = 2
PROPERTIES TimedPauseEnds BackfillsCatchUp
CHECK_DEADLOCK FALSE
