SPECIFICATION FairSpec
CONSTANTS
    MaxLength = 1
    MaxVersion = 3
    MaxFaults = 2
INVARIANTS
    TypeOK
    OverdueStatusIsOverdue
PROPERTIES
    VerdictsAreNotReversed
    
    
CHECK_DEADLOCK FALSE
