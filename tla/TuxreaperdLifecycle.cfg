CONSTANTS
  MaxPid = 5
  Signals <- NoSignals
  Programs <- ShellOnly
  MaxImages = 2
  Statuses <- FirstKilled
  DrainPolls = 2
  Libc = TRUE
  ProcFails = FALSE
SPECIFICATION Spec
INVARIANTS TypeOK ZombieAnnounced ExitStatusFaithful
PROPERTIES DrainComplete
CHECK_DEADLOCK FALSE
