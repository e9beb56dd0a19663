------------------------------- MODULE MCUtil -------------------------------
(* The parts of Common/util and Common/utilc share no state: each behaviour *)
(* is one of one part, and the others rest where they begin.                *)
EXTENDS RWLock, TimerQueue, ThreadPool, Singleton, Settings, MemFile, BuffList,
        DList, NetStream, Guid, LogFiles, Text

VARIABLE part

utilVars == <<part, lockVars, timerVars, poolVars, singletonVars, settingsVars, memVars,
              bufListVars, dllVars, streamVars, guidVars, logVars, textVars>>

MCRepeats == [r \in Work |-> IF r = CHOOSE w \in Work : TRUE THEN 1 ELSE 2]
MCPeriodic == {CHOOSE r \in TimerWork : TRUE}
MCValue == [f \in File |-> [k \in Key |->
              IF f = CHOOSE g \in File : TRUE THEN "a"
              ELSE IF k = CHOOSE j \in Key : TRUE THEN "b" ELSE NoValue]]
MCOffset == {-2, -1, 0, 1, 2}
MCSvrid == [c \in Asker |-> IF c = CHOOSE d \in Asker : TRUE THEN 1 ELSE 2]

UtilInit ==
  /\ part \in {"lock", "timer", "pool", "singleton", "settings", "memfile",
               "buflist", "dll", "stream", "guid", "log", "text"}
  /\ LockInit /\ TimerInit /\ PoolInit /\ SingletonInit /\ SettingsInit /\ MemInit
  /\ BufListInit /\ DllInit /\ StreamInit /\ GuidInit /\ LogInit /\ TextInit

Only(p) ==
  /\ part = p /\ UNCHANGED part
  /\ p # "lock" => UNCHANGED lockVars
  /\ p # "timer" => UNCHANGED timerVars
  /\ p # "pool" => UNCHANGED poolVars
  /\ p # "singleton" => UNCHANGED singletonVars
  /\ p # "settings" => UNCHANGED settingsVars
  /\ p # "memfile" => UNCHANGED memVars
  /\ p # "buflist" => UNCHANGED bufListVars
  /\ p # "dll" => UNCHANGED dllVars
  /\ p # "stream" => UNCHANGED streamVars
  /\ p # "guid" => UNCHANGED guidVars
  /\ p # "log" => UNCHANGED logVars
  /\ p # "text" => UNCHANGED textVars

UtilNext ==
  \/ Only("lock") /\ LockNext
  \/ Only("timer") /\ TimerNext
  \/ Only("pool") /\ PoolNext
  \/ Only("singleton") /\ SingletonNext
  \/ Only("settings") /\ SettingsNext
  \/ Only("memfile") /\ MemNext
  \/ Only("buflist") /\ BufListNext
  \/ Only("dll") /\ DllNext
  \/ Only("stream") /\ StreamNext
  \/ Only("guid") /\ GuidNext
  \/ Only("log") /\ LogNext
  \/ Only("text") /\ TextNext

UtilSpec == UtilInit /\ [][UtilNext]_utilVars /\ LockFairness
=============================================================================
