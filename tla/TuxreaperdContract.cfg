CONSTANTS
  MaxPid = 3
  Signals <- Term
  Programs <- ShellOnly
  MaxImages = 2
  Statuses <- FirstDiesKilled
  DrainPolls = 1
  Libc = FALSE
  ProcFails = TRUE
SPECIFICATION FairSpec
PROPERTIES ImplementsContract NoticedLeadsToExit ZombiesReaped RecordedIsBroadcast
