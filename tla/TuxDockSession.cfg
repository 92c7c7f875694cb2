SPECIFICATION Spec
CONSTANTS
    Containers = {1, 2}
    Images = {1}
    Start <- OneRunning
    Menu <- SessionMenu
    MaxPorts = 1
    MaxOps = 2
    MaxChanges = 0
    MaxFailures = 0
    MaxQueue = 1
    Timeouts = TRUE
    Periodic = TRUE
    Signals <- Both
INVARIANT TypeOK
INVARIANT OneOperation
INVARIANT ExecTarget
INVARIANT LostOnlyAtExit
INVARIANT AllJoined
