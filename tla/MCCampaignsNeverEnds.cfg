SPECIFICATION FairSpec
CONSTANTS
    CampaignIds = {c1}
    Reels = {reel}
    SuggestionIds = {}
    Requests = {r1}
    Calls = {"create", "pause", "resume", "read"}
    MaxDay = 3
    Budgets = {1, 2}
    Durations = {1, 2}
    MaxCharges = 2
PROPERTY CampaignsEnd
CHECK_DEADLOCK FALSE
