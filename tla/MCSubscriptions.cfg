SPECIFICATION Spec
CONSTANTS
    Subs = {s1}
    Requests = {r1, r2}
    Calls = {"approve", "reject", "pause", "resume", "cancel", "read", "pauseAll", "dispatch", "swap"}
    MaxDay = 2
    StartDays = {0, 1}
    PauseDays = {1}
    CycleDays = 1
    CycleGuard = 3
    WindowDays = 2
    OffDays = {1}
    PricePerCycle = 2
    MaxCoins = 1
    MaxRefunds = 1
SYMMETRY Symmetry
INVARIANTS FirstCycleKeepsItsPrice BillsFollowCycles RejectedIsRefunded
PROPERTIES LifecycleIsKept
CHECK_DEADLOCK FALSE
