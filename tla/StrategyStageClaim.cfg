SPECIFICATION Spec
CONSTANTS
    p1 = p1
    p2 = p2
    technical = technical
    thesis = thesis
    aapl = aapl
    None = None
    Permissions = {p1, p2}
    Symbols = {aapl}
    Strategies = {technical, thesis}
    SymbolOf <- MCSymbolOf
    StrategyOf <- MCStrategyOf
    Weights = {1, 2}
    Quantities = {1, 2}
    StrategyCap = 2
    SymbolCap = 3
    PortfolioCap = 3
    MaxDesired = 2
    MaxChanges = 3
    MaxDeaths = 1
    MaxManual = 1
PROPERTY AllowedPermissionsAreEvaluated
CHECK_DEADLOCK FALSE
