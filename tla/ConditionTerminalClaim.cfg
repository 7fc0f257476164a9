SPECIFICATION FairSpec
CONSTANTS
    MaxLength = 1
    MaxVersion = 1
    MaxFaults = 0
PROPERTIES
    SatisfiedIsTerminal
CHECK_DEADLOCK FALSE
