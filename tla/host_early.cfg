CONSTANTS
  NTasks = 1
  FileTasks = 1
  Daemon <- AllDaemons
  Delay <- Zeros
  RsDur <- Zeros
  RsTime <- NoTimes
  Pid = {p1, p2}
  NoPid = NoPid
  Slot = {1}
  KillTries = 2
  CounterMod = 4
  TornUpdates = FALSE
  PidReuse = FALSE
  OpenMayFail = FALSE
  Day = 1
  MaxAge = 1
  MaxLag = 0
SPECIFICATION HostSpec
INVARIANT StopJoins
CHECK_DEADLOCK FALSE
