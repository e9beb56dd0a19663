CONSTANTS
  NTasks = 2
  FileTasks = 1
  Daemon <- FirstIsDaemon
  Delay <- Zeros
  RsDur <- SecondRestarts
  RsTime <- NoTimes
  Pid = {p1, p2}
  NoPid = NoPid
  Slot = {1, 2}
  KillTries = 2
  CounterMod = 4
  TornUpdates = FALSE
  PidReuse = TRUE
  OpenMayFail = TRUE
  Day = 1
  MaxAge = 2
  MaxLag = 0
SPECIFICATION Spec
SYMMETRY Symmetry
INVARIANT NoLostChild
