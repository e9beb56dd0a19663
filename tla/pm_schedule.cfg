CONSTANTS
  NTasks = 1
  FileTasks = 1
  Daemon <- AllDaemons
  Delay <- Twos
  RsDur <- Threes
  RsTime <- AtSecond1
  Pid = {p1, p2}
  NoPid = NoPid
  Slot = {1, 2}
  KillTries = 2
  CounterMod = 4
  TornUpdates = FALSE
  PidReuse = FALSE
  OpenMayFail = FALSE
  Day = 5
  MaxAge = 6
  MaxLag = 1
SPECIFICATION Spec
INVARIANT StopHalts
PROPERTIES RespectsDelay KillsOnlyWhenDue
