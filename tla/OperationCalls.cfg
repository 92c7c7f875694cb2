SPECIFICATION FairSpec
CONSTANTS
    Acts <- AllActs
    Framed = {"length", "chunked"}
    EngineEnds = TRUE
    MaxChanges = 0
    MaxSignals = 1
    MaxOps = 2
INVARIANT Undisturbed
INVARIANT NeverDefaultOnUI
INVARIANT SwallowedIsShown
PROPERTY FailsOnlyIfRefused
PROPERTY ImplementsCall
PROPERTY CallReturns
