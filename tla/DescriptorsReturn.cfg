SPECIFICATION FairSpec
CONSTANTS
    Slots = 4
    MaxRuns = 2
    MaxRequests = 1
    MaxWrites = 1
    Capacity = 1
CHECK_DEADLOCK FALSE
PROPERTY CommandReturns
