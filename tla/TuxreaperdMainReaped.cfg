CONSTANTS
  MaxPid = 3
  Signals <- Term
  Programs <- ShellOnly
  MaxImages = 2
  Statuses <- StatusPerPid
  DrainPolls = 1
  Libc = TRUE
  ProcFails = FALSE
SPECIFICATION Spec
INVARIANTS MainReapNoticed
