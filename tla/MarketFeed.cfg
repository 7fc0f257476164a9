SPECIFICATION WatchedSpec
CONSTANTS
    r1 = r1
    x = x
    NoBar = NoBar
    Rules = {r1}
    AiRules = {r1}
    Bars <- TwoBars
    Levels = {2}
    MaxDeliver = 2
    MaxStores = 2
    MaxEdits = 1
    MaxFaults = 1
    Symbols = {x}
    Tracked = {}
    Loops = {"fmp_profile_calendar", "cboe"}
    Listed = 1
    MaxRequests = 2
    MaxErrors = 1
INVARIANTS
    
    ReceiptsAreSound
    LostClaimsNeedErrors
PROPERTIES
    CrossedRulesFire
    
CHECK_DEADLOCK FALSE
