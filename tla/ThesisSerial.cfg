SPECIFICATION FairSpec
CONSTANTS
    t1 = t1
    t2 = t2
    aapl = aapl
    h1 = h1
    h2 = h2
    d1 = d1
    d2 = d2
    None = None
    Theses = {t1}
    Symbols = {aapl}
    SymbolOf <- MCSymbolOf
    Handlers = {h1}
    Drafters = {d1, d2}
    Drafts <- MCDrafts
    MaxHistory = 7
    MaxVersion = 3
    MaxEnters = 3
    MaxAbandons = 2
INVARIANTS
    HistoryIsChain
    
    ExtraEntryNeedsLostRequest
PROPERTIES
    TerminalIsFinal
    LeavingActionableClosesCard
    EntryLeavesActionable
