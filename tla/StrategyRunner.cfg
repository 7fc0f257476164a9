SPECIFICATION WatchedSpec
CONSTANTS
    p1 = p1
    p2 = p2
    technical = technical
    thesis = thesis
    aapl = aapl
    None = None
    Permissions = {p1, p2}
    Symbols = {aapl}
    Strategies = {technical, thesis, gated}
    gated = gated
    Gated = gated
    SymbolOf <- MCSymbolOf
    StrategyOf <- MCStrategyOf
    Weights = {1, 2}
    Quantities = {1, 2}
    StrategyCap = 2
    SymbolCap = 3
    PortfolioCap = 3
    MaxDesired = 2
    MaxChanges = 3
    MaxDeaths = 1
    MaxManual = 1
    e1 = e1
    e2 = e2
    a1 = a1
    NoRow = NoRow
    Approvals = {a1}
    Passes = {e1, e2}
    Measured <- TwoMetrics
    MaxHands = 2
    MaxCrashes = 1
SYMMETRY PassSymmetry
INVARIANTS
    AutomationTypeOK
    
    PositionsCoverSleeves
    SleeveFollowsDesired
    StrandedNeedsDeath
    
    
    PromotionsAreAccounted
PROPERTY StagesMoveLegally
CHECK_DEADLOCK FALSE
