CONSTANTS
  NTasks = 2
  FileTasks = 2
  Daemon <- FirstIsDaemon
  Delay <- Zeros
  RsDur <- Zeros
  RsTime <- NoTimes
  Pid = {p1, p2, p3}
  NoPid = NoPid
  Slot = {1, 2}
  KillTries = 2
  CounterMod = 8
  TornUpdates = TRUE
  PidReuse = FALSE
  OpenMayFail = FALSE
  Day = 1
  MaxAge = 2
  MaxLag = 0
SPECIFICATION Spec
SYMMETRY Symmetry
INVARIANT CounterExact
