CONSTANTS
  NTasks = 2
  FileTasks = 2
  Daemon <- FirstIsDaemon
  Delay <- Ones
  RsDur <- Zeros
  RsTime <- NoTimes
  Pid = {p1, p2}
  NoPid = NoPid
  Slot = {1}
  KillTries = 2
  CounterMod = 4
  TornUpdates = FALSE
  PidReuse = FALSE
  OpenMayFail = FALSE
  Day = 1
  MaxAge = 1
  MaxLag = 0
SPECIFICATION FairSpec
PROPERTIES StopReturns Revived
