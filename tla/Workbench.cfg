SPECIFICATION WatchedSpec
CONSTANTS
    c1 = c1
    c2 = c2
    other = other
    Trigger = Trigger
    Candidates = {c1, c2}
    Cards = {c1, c2, Trigger, other}
    Theses = {"none", "armed"}
    Hits <- FourHits
    Marks <- OneMark
    MaxHandlings = 1
    MaxDecisions = 1
    MaxFaults = 1
INVARIANTS
    WorkbenchTypeOK
    QueueIsSound
PROPERTIES
    DecisionsCloseCards
    TrackedProposalsClear
