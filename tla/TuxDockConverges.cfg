SPECIFICATION FairSpec
CONSTANTS
    Containers = {1, 2}
    Images = {1}
    Start <- OneRunning
    Menu <- ConvergeMenu
    MaxPorts = 1
    MaxOps = 1
    MaxChanges = 1
    MaxFailures = 1
    MaxQueue = 1
    Timeouts = TRUE
    Periodic = TRUE
    Signals <- NoSignals
PROPERTY CacheConverges
