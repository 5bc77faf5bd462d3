SPECIFICATION Spec
CONSTANTS
    Subs = {s1}
    Requests = {r1, r2}
    Calls = {"approve", "reject", "kitchenPause", "pause", "kitchenResume", "resume", "cancel", "read", "pauseAll"}
    MaxDay = 2
    StartDays = {0, 1}
    PauseDays = {1}
    CycleDays = 1
    CycleGuard = 3
    WindowDays = 2
    OffDays = {1}
    PricePerCycle = 2
    MaxCoins = 1
    MaxRefunds = 2
SYMMETRY Symmetry
INVARIANT ReversedOnce
CHECK_DEADLOCK FALSE
