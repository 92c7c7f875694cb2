CONSTANTS
  MaxPid = 3
  Signals <- Term
  Programs <- ShellEngineHidden
  MaxImages = 2
  Statuses <- StatusPerPid
  DrainPolls = 1
  Libc = TRUE
  ProcFails = FALSE
SPECIFICATION Spec
INVARIANTS WebEnginesGraceful
PROPERTIES BroadcastReachesAll
