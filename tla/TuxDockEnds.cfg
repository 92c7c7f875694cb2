SPECIFICATION FairSpec
CONSTANTS
    Containers = {1, 2}
    Images = {1}
    Start <- OneRunning
    Menu <- EndMenu
    MaxPorts = 0
    MaxOps = 2
    MaxChanges = 0
    MaxFailures = 0
    MaxQueue = 1
    Timeouts = FALSE
    Periodic = FALSE
    Signals <- Both
PROPERTY OperationEnds
PROPERTY ExitFinishes
PROPERTY TriggerRefreshes
