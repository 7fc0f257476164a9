SPECIFICATION Spec
CONSTANTS
    t1 = t1
    t2 = t2
    aapl = aapl
    h1 = h1
    h2 = h2
    d1 = d1
    d2 = d2
    None = None
    Theses = {t1, t2}
    Symbols = {aapl}
    SymbolOf <- MCSymbolOf
    Handlers = {h1, h2}
    Drafters = {d1}
    Drafts <- MCFullDrafts
    MaxHistory = 4
    MaxVersion = 1
    MaxEnters = 1
    MaxAbandons = 0
PROPERTIES
    TerminalIsFinal
