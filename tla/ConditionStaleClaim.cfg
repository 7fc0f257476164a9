SPECIFICATION FairSpec
CONSTANTS
    MaxLength = 1
    MaxVersion = 1
    MaxFaults = 0
PROPERTIES
    OverdueIsSettled
CHECK_DEADLOCK FALSE
