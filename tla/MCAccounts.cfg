SPECIFICATION Spec
CONSTANTS
    Requests = {r1, r2}
    Scenarios <- MCScenarios
    Users = {u1, u2}
    Partners = {k1}
    Owners = {u2}
    SmsLimit = 1
    MaxCodes = 2
    MaxTokens = 3
    MaxOuts = 1
    Members = {m1, m2, m3}
    ReferralCodes = {c1, c2}
    RefereeBonus = 50
    ReferrerBonus = 100
    Decidable = {"UNDER_REVIEW"}
    AssistDocuments = {"photo", "aadhaar"}
    MaxAssist = 2
    MaxToolIterations = 2
    MaxQuestions = 3
    MaxResets = 1
    MaxEscalations = 1
SYMMETRY Symmetry
INVARIANTS SingleUse SessionsEnd ReferralsAgree LiveIsComplete PaidIsNotCancelled ResetsForget HandlersKnowTheirCaller
PROPERTIES StepsOnlyForward
CHECK_DEADLOCK FALSE
