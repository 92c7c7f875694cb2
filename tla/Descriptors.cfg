SPECIFICATION FairSpec
CONSTANTS
    Slots = 4
    MaxRuns = 2
    MaxRequests = 1
    MaxWrites = 2
    Capacity = 1
INVARIANT NoneLeftOpen
INVARIANT OutputWhole
PROPERTY CrossesOnlyInDrop
PROPERTY RunReturns
CHECK_DEADLOCK FALSE
