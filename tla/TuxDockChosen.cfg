SPECIFICATION Spec
CONSTANTS
    Containers = {1, 2}
    Images = {1}
    Start <- OneRunning
    Menu <- PickMenu
    MaxPorts = 1
    MaxOps = 1
    MaxChanges = 1
    MaxFailures = 0
    MaxQueue = 2
    Timeouts = TRUE
    Periodic = TRUE
    Signals <- NoSignals
INVARIANT ChosenIsShown
