-------------------------- MODULE ProcessMgrProofs --------------------------
(***************************************************************************)
(* Theorems about the process manager, for every number of tasks, every    *)
(* set of process ids and every choice of the other constants.             *)
(***************************************************************************)
EXTENDS ProcessMgrProps, FiniteSetTheorems, TLAPS

TypeInv == TypeOK /\ StepInv

(* What the counter's arithmetic modulo CounterMod comes to.               *)
LEMMA CounterArith ==
  /\ \A n \in Nat : n % CounterMod \in 0..CounterMod-1
  /\ \A n \in 0..CounterMod-1 : (n + CounterMod - 1) % CounterMod \in 0..CounterMod-1
  /\ \A n \in 1..CounterMod-1 : (n + CounterMod - 1) % CounterMod = n - 1
  /\ \A n \in 0..CounterMod-2 : (n + 1) % CounterMod = n + 1
  BY SystemAssumption, TaskAssumption

-----------------------------------------------------------------------------
(* Types.                                                                  *)

(* The initial state is of the right type.                                 *)
LEMMA TypeInit == Init => TypeInv
  <1> USE ClockAssumption, TaskAssumption, SystemAssumption
  <1> SUFFICES ASSUME Init PROVE TypeInv
    OBVIOUS
  <1>1. /\ tod \in 0..Day-1 /\ lag \in 0..MaxLag
        /\ m_nNum \in 0..CounterMod-1 /\ reg \in 0..CounterMod-1
        /\ idx \in 1..NTasks+1 /\ tries \in 1..KillTries
        /\ size \in 0..NTasks
    BY DEF Init
  <1>2. /\ startup \in [Tasks -> Ages] /\ shutdown \in [Tasks -> {NotDown}]
        /\ gone \in [Tasks -> {NotDown}] /\ pid \in [Tasks -> {NoPid}]
    BY DEF Init, Ages
  <1>3. /\ treg \in [Thread -> 0..CounterMod-1] /\ ttries \in [Thread -> 0..KillTries]
        /\ \A th \in Thread : thread[th] = "idle"
        /\ thread \in [Thread -> {"idle"}]
    BY DEF Init
  <1>4. proc \in [Pid -> {"free"}] /\ owner \in [Pid -> 0..NTasks] /\ spared = {}
    BY DEF Init
  <1> QED
    BY <1>1, <1>2, <1>3, <1>4 DEF Init, TypeInv, TypeOK, StepInv

(* The ages stay ages when a second passes.                                *)
LEMMA TypeTick ==
  ASSUME TypeInv, Tick
  PROVE  TypeInv'
  <1> USE ClockAssumption, TaskAssumption
  <1>1. tod' \in 0..Day-1 /\ lag' \in 0..MaxLag
    BY DEF TypeInv, TypeOK, Tick, HoldsNow
  <1>2. startup' \in [Tasks -> Ages]
    BY DEF TypeInv, TypeOK, Tick, Ages, Older
  <1>3. shutdown' \in [Tasks -> Ages \cup {NotDown, Negative}]
    <2>1. ASSUME NEW a \in Ages \cup {NotDown, Negative}
          PROVE  (IF Noticed(a) THEN Older(a) ELSE a) \in Ages \cup {NotDown, Negative}
      BY DEF Ages, Older, Noticed, NotDown, Negative
    <2> QED
      BY <2>1 DEF TypeInv, TypeOK, Tick
  <1>4. gone' \in [Tasks -> Ages \cup {NotDown}]
    <2>1. ASSUME NEW t \in Tasks, gone[t] \in 0..Delay[t]-1
          PROVE  gone[t] + 1 \in Ages
      BY <2>1 DEF Ages
    <2> QED
      BY <2>1 DEF TypeInv, TypeOK, Tick
  <1> QED
    BY <1>1, <1>2, <1>3, <1>4 DEF TypeInv, TypeOK, StepInv, Tick, procVars, loopVars,
       thrVars

(* A process that ends or is told to.                                      *)
LEMMA TypeFalls ==
  ASSUME TypeInv, NEW p \in Pid, NEW state \in {"ending", "exited"}, Falls(p, state)
  PROVE  /\ proc' \in [Pid -> {"free", "run", "ending", "exited"}]
         /\ owner' \in [Pid -> 0..NTasks]
         /\ gone' \in [Tasks -> Ages \cup {NotDown}]
  BY ClockAssumption DEF TypeInv, TypeOK, Falls, Ages

LEMMA TypeKill ==
  ASSUME TypeInv, NEW p, KillReturns(p) \/ KillFails(p)
  PROVE  /\ proc' \in [Pid -> {"free", "run", "ending", "exited"}]
         /\ owner' \in [Pid -> 0..NTasks]
         /\ gone' \in [Tasks -> Ages \cup {NotDown}]
  BY TypeFalls DEF TypeInv, TypeOK, KillReturns, KillFails, procVars

LEMMA TypeEnvironment ==
  ASSUME TypeInv, Environment
  PROVE  TypeInv'
  <1> USE ClockAssumption, TaskAssumption, SystemAssumption
  <1>1. ASSUME NEW p \in Pid, Exit(p) PROVE TypeInv'
    BY <1>1, TypeFalls DEF TypeInv, TypeOK, StepInv, Exit, program, clockVars,
       taskVars, loopVars, thrVars, flagVars
  <1>2. ASSUME NEW p \in Pid, Release(p) PROVE TypeInv'
    BY <1>2 DEF TypeInv, TypeOK, StepInv, Release, program, clockVars,
       taskVars, loopVars, thrVars, flagVars, histVars
  <1>3. ASSUME NEW p \in Pid, Foreign(p) PROVE TypeInv'
    BY <1>3 DEF TypeInv, TypeOK, StepInv, Foreign, program, clockVars,
       taskVars, loopVars, thrVars, flagVars, histVars
  <1> QED
    BY <1>1, <1>2, <1>3, TypeTick DEF Environment

LEMMA TaskNext == \A t \in Tasks : t + 1 \in 1..NTasks+1 /\ t \in 0..NTasks
  BY TaskAssumption DEF Tasks

LEMMA ThreadTask == \A th \in Thread : th[1] \in Tasks
  BY DEF Thread

LEMMA TypeOwner ==
  ASSUME TypeInv, Owner
  PROVE  TypeInv'
  <1> USE ClockAssumption, TaskAssumption, SystemAssumption DEF TypeInv, TypeOK, StepInv,
      procVars, thrVars, loopVars, flagVars, clockVars, histVars, taskVars, locals, world,
      outside, others
  <1>1. CASE Start
    BY <1>1 DEF Start
  <1>2. ASSUME NEW S \in SUBSET Tasks, NewTasks(S)
        PROVE  shutdown' \in [Tasks -> Ages \cup {NotDown, Negative}]
    BY <1>2 DEF NewTasks, Ages
  <1>3. ASSUME size' \in size..NTasks, thread' = thread
        PROVE  \A th \in Thread : thread'[th] # "idle" => th[1] <= size'
    BY <1>3, ThreadTask, TaskNext
  <1>4. CASE AddTasks
    <2>1. 1..FileTasks \in SUBSET Tasks
      BY DEF Tasks
    <2>2. size' \in size..NTasks /\ size' \in 0..NTasks
      BY <1>4 DEF AddTasks
    <2>3. NewTasks(1..FileTasks)
      BY <1>4 DEF AddTasks
    <2>4. UNCHANGED <<procVars, thrVars, others, pid, startup, histVars>>
      BY <1>4 DEF AddTasks
    <2>5. shutdown' \in [Tasks -> Ages \cup {NotDown, Negative}]
      BY <1>2, <2>1, <2>3
    <2>6. \A th \in Thread : thread'[th] # "idle" => th[1] <= size'
      BY <1>3, <2>2, <2>4
    <2> QED
      BY <2>2, <2>4, <2>5, <2>6
  <1>5. CASE AddTask
    <2>1. {size + 1} \in SUBSET Tasks
      BY <1>5 DEF AddTask, Tasks
    <2>2. size' \in size..NTasks /\ size' \in 0..NTasks
      BY <1>5 DEF AddTask
    <2>3. NewTasks({size + 1})
      BY <1>5 DEF AddTask
    <2>4. UNCHANGED <<procVars, thrVars, others, pid, startup, histVars>>
      BY <1>5 DEF AddTask
    <2>5. shutdown' \in [Tasks -> Ages \cup {NotDown, Negative}]
      BY <1>2, <2>1, <2>3
    <2>6. \A th \in Thread : thread'[th] # "idle" => th[1] <= size'
      BY <1>3, <2>2, <2>4
    <2> QED
      BY <2>2, <2>4, <2>5, <2>6
  <1>6. ASSUME NEW next \in {"stopping", "deleting"}, BeginStop(next)
        PROVE  TypeInv'
    BY <1>6, ZenonT(30) DEF BeginStop
  <1>7. CASE EndStop
    BY <1>7 DEF EndStop
  <1> QED
    BY <1>1, <1>4, <1>5, <1>6, <1>7 DEF Owner, Stop, Delete

(* The loop thread: the index stays within the vector and one past it, and *)
(* the attempts stay positive.                                             *)
LEMMA TypeEachTask ==
  ASSUME TypeInv, NEW t \in Tasks, EachTask(t)
  PROVE  TypeInv'
  <1> USE ClockAssumption, TaskAssumption, SystemAssumption DEF TypeInv, TypeOK, StepInv,
      procVars, thrVars, loopVars, flagVars, clockVars, histVars, taskVars, world,
      outside, AtTask
  <1>1. Loaded \in 0..CounterMod-1 /\ MaxLag < MaxAge + 1 /\ lag \in Ages
    BY DEF Loaded, Ages
  <1>2. ASSUME NEW what \in {"launch", "restart"}, AtTask(t), Decide(what)
        PROVE  TypeInv'
    BY <1>1, <1>2 DEF Decide
  <1>3. CASE AwaitDelay(t)
    <2>1. idx' \in 1..NTasks+1
      BY <1>3, TaskNext DEF AwaitDelay
    <2>2. shutdown' \in [Tasks -> Ages \cup {NotDown, Negative}]
      BY <1>1, <1>3 DEF AwaitDelay
    <2> QED
      BY <1>3, <2>1, <2>2 DEF AwaitDelay
  <1>4. CASE NothingToDo(t)
    BY <1>4 DEF NothingToDo, Tasks
  <1> QED
    BY <1>2, <1>3, <1>4 DEF EachTask, StartFirst, Revive, Restart

LEMMA TypeSpawn ==
  ASSUME TypeInv, Spawn
  PROVE  TypeInv'
  <1> USE ClockAssumption, TaskAssumption, SystemAssumption
  <1>1. m_nNum' \in 0..CounterMod-1
    <2>1. m_nNum' = ((IF TornUpdates THEN reg ELSE m_nNum) + 1) % CounterMod
      BY DEF Spawn
    <2>2. reg \in 0..CounterMod-1 /\ m_nNum \in 0..CounterMod-1
      BY DEF TypeInv, TypeOK
    <2> QED
      BY <2>1, <2>2, CounterArith
  <1>2. idx \in Tasks /\ idx' \in 1..NTasks+1
    <2>1. idx \in 1..NTasks /\ idx' = idx + 1
      BY DEF TypeInv, TypeOK, StepInv, Spawn
    <2> QED
      BY <2>1 DEF Tasks
  <1>3. /\ thread' \in [Thread -> {"idle", "kill", "create", "inputIdle", "dec", "store"}]
        /\ ttries' \in [Thread -> 0..KillTries]
        /\ \A th \in Thread : thread'[th] = "kill" => ttries'[th] > 0
        /\ \A th \in Thread : thread'[th] # "idle" => th[1] <= size
    <2>1. PICK k \in Slot :
            /\ thread' = [thread EXCEPT ![<<idx, k>>] =
                            IF loop = "launch" THEN "create" ELSE "kill"]
            /\ ttries' = [ttries EXCEPT ![<<idx, k>>] = KillTries]
      BY DEF Spawn
    <2>2. <<idx, k>> \in Thread /\ <<idx, k>>[1] = idx
      BY <1>2 DEF Thread
    <2>3. idx <= size
      BY DEF TypeInv, StepInv, Spawn
    <2> QED
      BY <2>1, <2>2, <2>3 DEF TypeInv, TypeOK, StepInv
  <1> QED
    BY <1>1, <1>2, <1>3 DEF TypeInv, TypeOK, StepInv, Spawn, taskVars, flagVars, world,
       procVars, clockVars, histVars

LEMMA TypeFinalKill ==
  ASSUME TypeInv, FinalKill
  PROVE  TypeInv'
  <1> USE ClockAssumption, TaskAssumption, SystemAssumption
  <1>1. idx \in Tasks /\ idx + 1 \in 1..NTasks+1
    <2>1. idx \in 1..NTasks
      BY DEF TypeInv, TypeOK, FinalKill
    <2> QED
      BY <2>1 DEF Tasks
  <1>2. /\ proc' \in [Pid -> {"free", "run", "ending", "exited"}]
        /\ owner' \in [Pid -> 0..NTasks]
        /\ gone' \in [Tasks -> Ages \cup {NotDown}]
    <2>1. CASE UNCHANGED <<procVars, gone>>
      BY <2>1 DEF TypeInv, TypeOK, procVars
    <2>2. CASE KillReturns(pid[idx]) \/ KillFails(pid[idx])
      BY <2>2, TypeKill
    <2> QED
      BY <2>1, <2>2 DEF FinalKill, histVars
  <1>3. spared' \in SUBSET Pid
    BY <1>1 DEF TypeInv, TypeOK, FinalKill, KillFails, histVars
  <1>4. idx' \in 1..NTasks+1 /\ tries' \in 1..KillTries
    BY <1>1 DEF TypeInv, TypeOK, FinalKill
  <1> QED
    BY <1>2, <1>3, <1>4 DEF TypeInv, TypeOK, StepInv, FinalKill, taskVars, thrVars,
       flagVars, clockVars

LEMMA TypeLoop ==
  ASSUME TypeInv, LoopThread
  PROVE  TypeInv'
  <1> USE ClockAssumption, TaskAssumption, SystemAssumption DEF TypeInv, TypeOK, StepInv,
      procVars, thrVars, loopVars, flagVars, clockVars, histVars, taskVars, locals, world,
      outside, LoopAt
  <1>1. CASE RunBegins \/ RunTests \/ UvReturns
    BY <1>1, ZenonT(30) DEF RunBegins, RunTests, UvReturns
  <1>2. CASE TimerFires
    <2>1. m_bStart \in BOOLEAN
      OBVIOUS
    <2>2. timer' \in BOOLEAN /\ due' \in BOOLEAN /\ lag' = 0
      BY <1>2, <2>1, Zenon DEF TimerFires
    <2>3. loop' \in {"lock", "uvrun"}
      BY <1>2 DEF TimerFires
    <2>4. UNCHANGED <<taskVars, thrVars, histVars, locals, procVars, m_bStart,
                      m_bRunning, m_mutex, ctl, tod, m_nNum>>
      BY <1>2 DEF TimerFires
    <2> QED
      BY <2>2, <2>3, <2>4
  <1>3. CASE ProtectLocks
    BY <1>3 DEF ProtectLocks
  <1>4. CASE ProtectUnlocks \/ ProtectReturns
    BY <1>4 DEF ProtectUnlocks, ProtectReturns
  <1>5. CASE FinalLock
    BY <1>5 DEF FinalLock
  <1>6. CASE FinalKill
    BY <1>6, TypeFinalKill
  <1>7. CASE FinalUnlock \/ RunEnds
    BY <1>7, ZenonT(30) DEF FinalUnlock, RunEnds
  <1> QED
    BY <1>1, <1>2, <1>3, <1>4, <1>5, <1>6, <1>7, TypeEachTask, TypeSpawn DEF LoopThread

LEMMA TypeLauncher ==
  ASSUME TypeInv, NEW th \in Thread, Launcher(th)
  PROVE  TypeInv'
  <1> USE ClockAssumption, TaskAssumption, SystemAssumption DEF TypeInv, TypeOK, StepInv,
      procVars, thrVars, loopVars, flagVars, clockVars, histVars, taskVars, others, ThreadAt
  <1>1. th[1] \in Tasks
    BY DEF Thread
  <1>2. CASE LauncherKills(th)
    <2>1. /\ proc' \in [Pid -> {"free", "run", "ending", "exited"}]
          /\ owner' \in [Pid -> 0..NTasks]
          /\ gone' \in [Tasks -> Ages \cup {NotDown}]
      <3> HIDE DEF TypeInv
      <3> QED
        BY <1>2, TypeKill DEF LauncherKills
    <2>2. /\ thread' = [thread EXCEPT ![th] = "create"]
          /\ pid' = [pid EXCEPT ![th[1]] = NoPid]
          /\ UNCHANGED <<others, size, startup, shutdown, treg, ttries, spared>>
      BY <1>2 DEF LauncherKills
    <2>3. /\ thread' \in [Thread -> {"idle", "kill", "create", "inputIdle", "dec", "store"}]
          /\ pid' \in [Tasks -> Pid \cup {NoPid}]
          /\ \A tk \in Thread : thread'[tk] = "kill" => thread[tk] = "kill"
          /\ \A tk \in Thread : thread'[tk] # "idle" => thread[tk] # "idle" \/ tk = th
      BY <2>2
    <2>4. thread[th] = "kill"
      BY <1>2 DEF LauncherKills
    <2> QED
      BY <2>1, <2>2, <2>3, <2>4
  <1>3. CASE LauncherKillFails(th)
    BY <1>3 DEF LauncherKillFails, KillFails
  <1>4. CASE ChildCreated(th)
    <2>1. owner' \in [Pid -> 0..NTasks] /\ pid' \in [Tasks -> Pid \cup {NoPid}]
      BY <1>1, <1>4, TaskNext DEF ChildCreated
    <2>2. proc' \in [Pid -> {"free", "run", "ending", "exited"}]
          /\ gone' \in [Tasks -> Ages \cup {NotDown}]
      BY <1>1, <1>4 DEF ChildCreated
    <2> QED
      BY <1>4, <2>1, <2>2 DEF ChildCreated
  <1>5. CASE CreateFails(th)
    BY <1>5 DEF CreateFails
  <1>6. CASE StartNoted(th)
    BY <1>1, <1>6 DEF StartNoted, Ages
  <1>7. CASE DecLoads(th)
    BY <1>7 DEF DecLoads, Loaded
  <1>8. CASE DecStores(th)
    <2>1. m_nNum' = ((IF TornUpdates THEN treg[th] ELSE m_nNum) + CounterMod - 1)
                       % CounterMod
      BY <1>8 DEF DecStores
    <2>2. treg[th] \in 0..CounterMod-1 /\ m_nNum \in 0..CounterMod-1
      OBVIOUS
    <2>3. m_nNum' \in 0..CounterMod-1
      <3> HIDE DEF TypeInv, TypeOK, StepInv
      <3> QED
        BY <2>1, <2>2, CounterArith
    <2> QED
      BY <1>8, <2>3 DEF DecStores
  <1> QED
    BY <1>2, <1>3, <1>4, <1>5, <1>6, <1>7, <1>8 DEF Launcher

LEMMA TypeStep == TypeInv /\ [Next]_vars => TypeInv'
  <1> SUFFICES ASSUME TypeInv, [Next]_vars PROVE TypeInv'
    OBVIOUS
  <1>1. CASE UNCHANGED vars
    BY <1>1 DEF TypeInv, TypeOK, StepInv, vars, procVars, thrVars, loopVars, flagVars,
       clockVars, histVars, taskVars
  <1> QED
    BY <1>1, TypeEnvironment, TypeOwner, TypeLoop, TypeLauncher DEF Next

(* Every reachable state is of the right type, and the loop thread never   *)
(* uses an element of m_vecProcess that does not exist.                    *)
THEOREM TypeCorrect == Spec => [](TypeOK /\ StepInv)
  <1>1. Spec => []TypeInv
    BY TypeInit, TypeStep, PTL DEF Spec
  <1> QED
    BY <1>1, PTL DEF TypeInv

-----------------------------------------------------------------------------
(* m_nNum, the number Protect waits for, is exact when its updates are not *)
(* torn, and a task never has two launcher threads.                        *)

Walking == loop \in {"each", "launch", "restart"}
Waiting == Walking \/ loop = "wait"

CounterInv == TypeInv /\ LauncherInv

LEMMA BusyFinite == IsFiniteSet(Busy)
  <1>1. IsFiniteSet(Tasks)
    BY FS_Interval, TaskAssumption DEF Tasks
  <1>2. IsFiniteSet(Thread)
    BY <1>1, FS_Product, SystemAssumption DEF Thread
  <1> QED
    BY <1>2, FS_Subset DEF Busy

(* LauncherInv survives a step that leaves the launchers and the counter   *)
(* alone and moves the loop thread only forward through the vector.        *)
LEMMA LauncherKept ==
  ASSUME TypeInv, LauncherInv,
         thread' = thread, m_nNum' = m_nNum,
         Waiting' = Waiting,
         Walking' => Walking /\ idx' \in {idx, idx + 1}
  PROVE  LauncherInv'
  <1>1. Busy' = Busy
    BY DEF Busy
  <1>2. CounterExact'
    BY <1>1 DEF LauncherInv, CounterExact, Waiting, Walking
  <1>3. Walking' => m_nNum' < idx' /\ \A th \in Busy' : th[1] < idx'
    <2>1. \A th \in Busy : th[1] \in Int
      BY TaskAssumption DEF Busy, Thread, Tasks
    <2>2. idx \in Int /\ m_nNum \in Int
      BY TaskAssumption, SystemAssumption DEF TypeInv, TypeOK
    <2> QED
      BY <1>1, <2>1, <2>2 DEF LauncherInv, Walking
  <1> QED
    BY <1>1, <1>2, <1>3 DEF LauncherInv, Walking

LEMMA LauncherInit == Init => LauncherInv
  BY DEF Init, LauncherInv, CounterExact, Busy

LEMMA LauncherOutside ==
  ASSUME TypeInv, LauncherInv, Environment \/ Owner \/ UNCHANGED vars
  PROVE  LauncherInv'
  <1>1. CASE Environment
    <2>1. UNCHANGED <<thread, m_nNum, loop, idx>>
      BY <1>1 DEF Environment, Exit, Release, Foreign, Tick, program, loopVars, thrVars
    <2> QED
      BY <2>1, LauncherKept DEF Waiting, Walking
  <1>2. CASE Owner
    <2>1. /\ UNCHANGED <<thread, m_nNum, idx>>
          /\ loop' = loop \/ (loop = "none" /\ loop' = "begin")
      BY <1>2 DEF Owner, Start, AddTasks, AddTask, Stop, Delete, BeginStop, EndStop, thrVars,
         locals, others, loopVars, outside
    <2> QED
      BY <2>1, LauncherKept DEF Waiting, Walking
  <1>3. CASE UNCHANGED vars
    BY <1>3, LauncherKept DEF Waiting, Walking, vars, thrVars, loopVars
  <1> QED
    BY <1>1, <1>2, <1>3

(* The loop thread counts each thread it starts, and leaves Protect only   *)
(* when none is left.                                                      *)
LEMMA LauncherSpawn ==
  ASSUME TypeInv, LauncherInv, Spawn, ~TornUpdates
  PROVE  LauncherInv'
  <1>1. /\ idx \in Tasks /\ idx \in 1..NTasks /\ idx' = idx + 1
        /\ m_nNum \in Nat /\ m_nNum < idx
        /\ loop' = "each"
    <2>1. idx <= size /\ m_nNum < idx /\ idx' = idx + 1 /\ loop' = "each"
      BY DEF TypeInv, StepInv, LauncherInv, Spawn
    <2> QED
      BY <2>1, TaskAssumption, SystemAssumption DEF TypeInv, TypeOK, Tasks
  <1>2. m_nNum' = m_nNum + 1
    <2>1. m_nNum' = (m_nNum + 1) % CounterMod
      BY DEF Spawn
    <2>2. m_nNum \in 0..CounterMod-2
      BY <1>1, TaskAssumption, SystemAssumption
    <2> QED
      BY <2>1, <2>2, CounterArith
  <1>3. \A th \in Busy : th[1] < idx
    BY DEF Spawn, LauncherInv
  <1>4. PICK k \in Slot : /\ thread[<<idx, k>>] = "idle"
                          /\ thread' = [thread EXCEPT ![<<idx, k>>] =
                               IF loop = "launch" THEN "create" ELSE "kill"]
    BY DEF Spawn, BusyOf
  <1>5. <<idx, k>> \in Thread
    BY <1>1 DEF Thread
  <1>6. Busy' = Busy \cup {<<idx, k>>} /\ <<idx, k>> \notin Busy
    BY <1>4, <1>5 DEF TypeInv, TypeOK, Busy
  <1>7. Cardinality(Busy') = Cardinality(Busy) + 1
    BY <1>6, BusyFinite, FS_AddElement
  <1>8. m_nNum = Cardinality(Busy)
    BY DEF LauncherInv, CounterExact, Spawn
  <1>9. \A th \in Busy' : th[1] < idx'
    <2>1. \A th \in Busy : th[1] \in Int
      BY TaskAssumption DEF Busy, Thread, Tasks
    <2> QED
      BY <1>1, <1>3, <1>6, <2>1
  <1>10. \A th, tk \in Busy' : th[1] = tk[1] => th = tk
    <2>1. \A th \in Busy : th[1] # idx
      BY <1>1, <1>3
    <2> QED
      BY <1>6, <2>1 DEF LauncherInv
  <1> QED
    BY <1>1, <1>2, <1>7, <1>8, <1>9, <1>10 DEF LauncherInv, CounterExact

LEMMA LauncherLoop ==
  ASSUME TypeInv, LauncherInv, LoopThread, ~TornUpdates
  PROVE  LauncherInv'
  <1>1. CASE RunBegins \/ RunTests \/ UvReturns \/ TimerFires \/ ProtectUnlocks \/ FinalLock
             \/ FinalUnlock \/ RunEnds
    <2>1. /\ thread' = thread /\ m_nNum' = m_nNum
          /\ Waiting' = Waiting /\ ~Walking'
      BY <1>1 DEF RunBegins, RunTests, UvReturns, TimerFires, ProtectUnlocks, FinalLock,
         FinalUnlock, RunEnds, LoopAt, outside, thrVars, Waiting, Walking
    <2> QED
      BY <2>1, LauncherKept
  <1>2. CASE ProtectLocks
    <2>1. /\ thread' = thread /\ m_nNum' = 0 /\ idx' = 1
          /\ loop = "lock" /\ loop' = "each"
      BY <1>2 DEF ProtectLocks, LoopAt, outside, thrVars
    <2>2. Busy' = {}
      BY <2>1 DEF LauncherInv, CounterExact, Busy
    <2> QED
      BY <2>1, <2>2, FS_EmptySet DEF LauncherInv, CounterExact
  <1>3. CASE ProtectReturns
    <2>1. /\ thread' = thread /\ m_nNum = 0
          /\ loop = "wait" /\ loop' = "uvrun"
      BY <1>3 DEF ProtectReturns, LoopAt, outside, thrVars
    <2>2. Busy = {}
      BY <2>1, BusyFinite, FS_EmptySet DEF LauncherInv, CounterExact
    <2> QED
      BY <2>1, <2>2 DEF LauncherInv, CounterExact, Busy
  <1>4. ASSUME NEW t \in Tasks, EachTask(t) PROVE LauncherInv'
    <2>1. /\ thread' = thread /\ m_nNum' = m_nNum /\ loop = "each"
          /\ \/ loop' \in {"launch", "restart"} /\ idx' = idx
             \/ loop' = loop /\ idx' = idx + 1
      BY <1>4 DEF EachTask, StartFirst, Revive, AwaitDelay, Restart, NothingToDo, AtTask,
         Decide, outside, thrVars
    <2> QED
      BY <2>1, LauncherKept DEF Waiting, Walking
  <1>5. CASE FinalKill
    BY <1>5, LauncherKept DEF FinalKill, thrVars, Waiting, Walking
  <1> QED
    BY <1>1, <1>2, <1>3, <1>4, <1>5, LauncherSpawn DEF LoopThread

(* A launcher that goes on stays counted; one that ends is counted down.   *)
LEMMA LauncherLauncher ==
  ASSUME TypeInv, LauncherInv, NEW th \in Thread, Launcher(th), ~TornUpdates
  PROVE  LauncherInv'
  <1>1. UNCHANGED <<loop, idx>>
    BY DEF Launcher, LauncherKills, LauncherKillFails, ChildCreated, CreateFails, StartNoted,
       DecLoads, DecStores, others, loopVars
  <1>2. CASE DecStores(th)
    <2>1. /\ thread[th] = "store" /\ thread' = [thread EXCEPT ![th] = "idle"]
          /\ m_nNum' = (m_nNum + CounterMod - 1) % CounterMod
      BY <1>2 DEF DecStores, ThreadAt
    <2>2. th \in Busy /\ Busy' = Busy \ {th}
      BY <2>1 DEF Busy, TypeInv, TypeOK
    <2>3. Waiting /\ m_nNum = Cardinality(Busy)
      BY <2>2 DEF LauncherInv, CounterExact, Waiting, Walking
    <2>4. Cardinality(Busy') = Cardinality(Busy) - 1
      BY <2>2, BusyFinite, FS_RemoveElement
    <2>5. m_nNum \in 1..CounterMod-1
      <3>1. Cardinality(Busy) # 0
        BY <2>2, BusyFinite, FS_EmptySet
      <3> QED
        BY <3>1, <2>3, SystemAssumption DEF TypeInv, TypeOK
    <2>6. m_nNum' = m_nNum - 1
      BY <2>1, <2>5, CounterArith
    <2>7. CounterExact'
      BY <1>1, <2>3, <2>4, <2>6 DEF CounterExact, Waiting, Walking
    <2>8. Walking => m_nNum' < idx
      <3>1. idx \in Int
        BY TaskAssumption DEF TypeInv, TypeOK
      <3> QED
        BY <2>5, <2>6, <3>1 DEF LauncherInv, Walking
    <2> QED
      BY <1>1, <2>2, <2>7, <2>8 DEF LauncherInv, Walking
  <1>3. CASE ~DecStores(th)
    <2>1. /\ thread[th] # "idle" /\ m_nNum' = m_nNum
          /\ \E s \in {"kill", "create", "inputIdle", "dec", "store"} :
               thread' = [thread EXCEPT ![th] = s]
      BY <1>3 DEF Launcher, LauncherKills, LauncherKillFails, ChildCreated, CreateFails,
         StartNoted, DecLoads, ThreadAt, others, TypeInv, TypeOK
    <2>2. Busy' = Busy
      BY <2>1 DEF Busy, TypeInv, TypeOK
    <2> QED
      BY <1>1, <2>1, <2>2 DEF LauncherInv, CounterExact
  <1> QED
    BY <1>2, <1>3

LEMMA LauncherStep ==
  ASSUME ~TornUpdates
  PROVE  CounterInv /\ [Next]_vars => CounterInv'
  BY TypeStep, LauncherOutside, LauncherLoop, LauncherLauncher DEF CounterInv, Next

LEMMA CounterInductive == ~TornUpdates => (Spec => []CounterInv)
  <1> SUFFICES ASSUME ~TornUpdates PROVE Spec => []CounterInv
    OBVIOUS
  <1>1. Init => CounterInv
    BY TypeInit, LauncherInit DEF CounterInv
  <1> QED
    BY <1>1, LauncherStep, PTL DEF Spec

(* What Protect waits for is what it has started: if ++ and -- of m_nNum   *)
(* are not torn, m_nNum is the number of launcher threads from the reset   *)
(* to the end of Protect, and outside of it there is none.                 *)
THEOREM CounterIsExact == ~TornUpdates => (Spec => []CounterExact)
  <1>1. CounterInv => CounterExact
    BY DEF CounterInv, LauncherInv
  <1> QED
    BY <1>1, CounterInductive, PTL

(* And so no task is ever launched by two threads at the same time.        *)
THEOREM OneLauncher == ~TornUpdates => (Spec => []OneLauncherPerTask)
  <1>1. CounterInv => OneLauncherPerTask
    <2> SUFFICES ASSUME CounterInv, NEW t \in Tasks
                 PROVE  Cardinality(BusyOf(t)) <= 1
      BY DEF OneLauncherPerTask
    <2>1. \A j, k \in BusyOf(t) : j = k
      BY DEF CounterInv, LauncherInv, Busy, BusyOf, Thread
    <2>2. CASE BusyOf(t) = {}
      BY <2>2, FS_EmptySet
    <2>3. CASE BusyOf(t) # {}
      <3>1. PICK k : BusyOf(t) = {k}
        BY <2>1, <2>3
      <3> QED
        BY <3>1, FS_Singleton
    <2> QED
      BY <2>2, <2>3
  <1> QED
    BY <1>1, CounterInductive, PTL
=============================================================================
