CONSTANTS
    r1 = r1
    r2 = r2
    Requests = {r1, r2}
    MaxDevices = 2
    Leeway = 2
    TTL = 3
    Margin = 0
    RotationAttempts = 2
    Prompt = 1
    MaxTokens = 3
    MaxTime = 4
    MaxFailures = 1
SPECIFICATION Spec
INVARIANTS
    TypeOK
    OneChain
    LogoutEndsTheSession
    SurvivesRetries
PROPERTIES
    KeepsLiveCookies
SYMMETRY Tabs
