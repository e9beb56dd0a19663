------------------------ MODULE ProcessMgrChildProofs -----------------------
(***************************************************************************)
(* No child is lost and none is left that has not been told to end,        *)
(* provided that m_nNum is not torn and that OpenProcess opens every       *)
(* process that exists; the final loop tells every child to end, except    *)
(* those it could not kill.  A child that has been told still runs for a   *)
(* while: Kill does not wait for it.                                       *)
(* What Protect decides by the clock is still true when a launcher acts on *)
(* it: a child that is killed is due, and a daemon that is started again   *)
(* has been dead for its delay.                                            *)
(***************************************************************************)
EXTENDS ProcessMgrProofs

SafeBuild == ~TornUpdates /\ ~OpenMayFail

SafeInv == CounterInv /\ ChildInv

IsChild(p) == proc[p] = "run" /\ owner[p] # 0

(* No new child appears, nothing on record changes, and no thread gets     *)
(* into a position to start one.                                           *)
NoNews ==
  /\ \A p \in Pid : IsChild(p)' => IsChild(p) /\ owner'[p] = owner[p]
  /\ \A p \in Pid : proc'[p] = "free" => owner'[p] = 0
  /\ pid' = pid
  /\ \A t \in Tasks : t > size' => t > size
  /\ loop' = "launch" => loop = "launch" /\ idx' = idx
  /\ \A th \in Thread : thread'[th] = "create" => thread[th] = "create"
  /\ \A th \in Thread : thread[th] = "inputIdle" => thread'[th] = "inputIdle"
  /\ \A t \in Tasks : pid[t] # NoPid /\ Noticed(shutdown'[t]) => Noticed(shutdown[t])

LEMMA ChildrenFewer ==
  ASSUME NEW t \in Tasks, \A p \in Pid : IsChild(p)' => IsChild(p) /\ owner'[p] = owner[p],
         Children(t) = {}
  PROVE  Children(t)' = {}
  BY TaskAssumption DEF Children, IsChild, Tasks

LEMMA ChildKept ==
  ASSUME TypeInv, LauncherInv, ChildInv, NoNews
  PROVE  ChildInv'
  <1>1. NoLostChild'
    BY DEF NoLostChild, ChildInv, NoNews, IsChild
  <1>2. \A p \in Pid : proc'[p] = "free" => owner'[p] = 0
    BY DEF NoNews
  <1>3. \A t \in Tasks : t > size' => pid'[t] = NoPid
    BY DEF ChildInv, NoNews
  <1>4. ASSUME loop' = "launch" PROVE Children(idx)' = {}
    <2>1. Children(idx) = {} /\ idx' = idx /\ idx \in Tasks
      BY <1>4, TaskAssumption DEF ChildInv, NoNews, TypeInv, TypeOK, StepInv, Tasks
    <2>2. Children(idx)' = {p \in Pid : proc'[p] = "run" /\ owner'[p] = idx}
      BY <2>1 DEF Children
    <2> QED
      BY <2>1, <2>2, TaskAssumption DEF NoNews, IsChild, Children, Tasks
  <1>5. ASSUME NEW th \in Thread, thread'[th] = "create" PROVE Children(th[1])' = {}
    BY <1>5, ThreadTask, ChildrenFewer DEF ChildInv, NoNews
  <1>6. ASSUME NEW t \in Tasks, pid'[t] # NoPid, Noticed(shutdown'[t]),
               \A k \in Slot : thread'[<<t, k>>] # "inputIdle"
        PROVE  Children(t)' = {}
    <2>1. \A k \in Slot : thread[<<t, k>>] # "inputIdle"
      BY <1>6 DEF NoNews, Thread
    <2> QED
      BY <1>6, <2>1, ChildrenFewer DEF ChildInv, NoNews
  <1> QED
    BY <1>1, <1>2, <1>3, <1>4, <1>5, <1>6 DEF ChildInv

LEMMA ChildInit == Init => ChildInv
  BY DEF Init, ChildInv, NoLostChild, Children

LEMMA ChildOutside ==
  ASSUME TypeInv, LauncherInv, ChildInv, Environment \/ Owner \/ UNCHANGED vars
  PROVE  ChildInv'
  <1> SUFFICES NoNews
    BY ChildKept
  <1> USE DEF NoNews, IsChild
  <1>1. ASSUME NEW p \in Pid, Exit(p) PROVE NoNews
    BY <1>1 DEF Exit, Falls, program, taskVars, loopVars, thrVars, TypeInv, TypeOK, ChildInv
  <1>2. ASSUME NEW p \in Pid, Release(p) PROVE NoNews
    BY <1>2 DEF Release, program, taskVars, loopVars, thrVars, TypeInv, TypeOK, ChildInv
  <1>3. ASSUME NEW p \in Pid, Foreign(p) PROVE NoNews
    BY <1>3 DEF Foreign, program, taskVars, loopVars, thrVars, TypeInv, TypeOK, ChildInv
  <1>4. CASE Tick
    <2>1. ASSUME NEW t \in Tasks, Noticed(shutdown'[t]) PROVE Noticed(shutdown[t])
      BY <1>4, <2>1 DEF Tick
    <2> QED
      BY <1>4, <2>1 DEF Tick, procVars, loopVars, thrVars, ChildInv
  <1>5. CASE Start
    BY <1>5 DEF Start, procVars, taskVars, locals, thrVars, ChildInv
  <1>6. CASE AddTasks \/ AddTask
    <2>1. size \in Nat /\ size' \in Nat /\ size <= size'
      BY <1>6, TaskAssumption DEF AddTasks, AddTask, TypeInv, TypeOK
    <2>2. \A t \in Tasks : t > size' => t > size
      BY <2>1, TaskAssumption DEF Tasks
    <2>3. ASSUME NEW t \in Tasks, pid[t] # NoPid PROVE shutdown'[t] = shutdown[t]
      <3>1. t <= size
        BY <2>1, <2>3, TaskAssumption DEF ChildInv, Tasks
      <3>2. t \notin 1..FileTasks \/ size # 0
        BY <3>1, TaskAssumption DEF Tasks
      <3>3. t # size + 1
        BY <2>1, <3>1, TaskAssumption DEF Tasks
      <3> QED
        BY <1>6, <3>2, <3>3 DEF AddTasks, AddTask, NewTasks
    <2>4. UNCHANGED <<procVars, thrVars, loopVars, pid>>
      BY <1>6 DEF AddTasks, AddTask, others
    <2> QED
      BY <2>2, <2>3, <2>4 DEF procVars, thrVars, loopVars, ChildInv
  <1>7. CASE Stop \/ Delete \/ EndStop
    BY <1>7 DEF Stop, Delete, BeginStop, EndStop, loopVars, outside, world, procVars, taskVars,
       thrVars, ChildInv
  <1>8. CASE UNCHANGED vars
    BY <1>8 DEF vars, loopVars, procVars, taskVars, thrVars, ChildInv
  <1> QED
    BY <1>1, <1>2, <1>3, <1>4, <1>5, <1>6, <1>7, <1>8 DEF Environment, Owner

(* What the loop thread decides: a task that has never been started, and a *)
(* daemon that Find or an earlier pass has found dead, has no child.       *)
LEMMA DecidedToLaunch ==
  ASSUME TypeInv, LauncherInv, ChildInv, SafeBuild, NEW t \in Tasks, AtTask(t),
         pid[t] = NoPid \/ HasQuit(t)
  PROVE  Children(t) = {}
  <1>1. CASE pid[t] = NoPid
    BY <1>1, SystemAssumption, TaskAssumption DEF ChildInv, NoLostChild, Children, Tasks
  <1>2. CASE pid[t] # NoPid /\ Noticed(shutdown[t])
    <2>1. \A k \in Slot : <<t, k>> \notin Busy
      BY TaskAssumption DEF LauncherInv, AtTask, Tasks
    <2>2. \A k \in Slot : thread[<<t, k>>] = "idle"
      BY <2>1 DEF Busy, Thread
    <2> QED
      BY <1>2, <2>2 DEF ChildInv
  <1>3. CASE CannotOpen(pid[t])
    <2>1. ASSUME NEW p \in Children(t) PROVE pid[t] = p /\ p \in Pid /\ proc[p] = "run"
      BY TaskAssumption DEF ChildInv, NoLostChild, Children, Tasks
    <2>2. pid[t] \notin Pid \/ proc[pid[t]] = "free"
      BY <1>3 DEF CannotOpen, SafeBuild
    <2> QED
      BY <2>1, <2>2
  <1> QED
    BY <1>1, <1>2, <1>3 DEF HasQuit, Find

LEMMA ChildEachTask ==
  ASSUME TypeInv, LauncherInv, ChildInv, SafeBuild, NEW t \in Tasks, EachTask(t)
  PROVE  ChildInv'
  <1>1. UNCHANGED <<procVars, thrVars, size, pid>>
    BY DEF EachTask, StartFirst, Revive, AwaitDelay, Restart, NothingToDo, Decide, outside,
       world, taskVars
  <1>2. /\ \A s \in Tasks : Children(s)' = Children(s)
        /\ NoLostChild' /\ \A p \in Pid : proc'[p] = "free" => owner'[p] = 0
        /\ \A s \in Tasks : s > size' => pid'[s] = NoPid
        /\ \A th \in Thread : thread'[th] = "create" => Children(th[1])' = {}
    BY <1>1, ThreadTask DEF ChildInv, NoLostChild, Children, procVars, thrVars
  <1>3. CASE StartFirst(t) \/ Revive(t)
    <2>1. Children(t) = {} /\ idx' = t /\ shutdown' = shutdown
      BY <1>3, DecidedToLaunch DEF StartFirst, Revive, AtTask, Decide, outside, taskVars
    <2> QED
      BY <1>1, <1>2, <2>1 DEF ChildInv, Children, thrVars
  <1>4. CASE AwaitDelay(t)
    <2>1. loop' = "each" /\ (shutdown' = shutdown \/ shutdown[t] = NotDown)
      BY <1>4 DEF AwaitDelay, AtTask
    <2>2. \A s \in Tasks : s # t => shutdown'[s] = shutdown[s]
      BY <1>4 DEF AwaitDelay, TypeInv, TypeOK
    <2>3. CASE shutdown[t] = NotDown
      <3>1. Children(t) = {}
        BY <1>4, DecidedToLaunch DEF AwaitDelay
      <3> QED
        BY <1>1, <1>2, <2>1, <2>2, <3>1 DEF ChildInv, thrVars
    <2>4. CASE shutdown' = shutdown
      BY <1>1, <1>2, <2>1, <2>4 DEF ChildInv, thrVars
    <2> QED
      BY <2>1, <2>3, <2>4
  <1>5. CASE Restart(t) \/ NothingToDo(t)
    <2>1. loop' # "launch" /\ shutdown' = shutdown
      BY <1>5 DEF Restart, NothingToDo, AtTask, Decide, outside, taskVars
    <2> QED
      BY <1>1, <1>2, <2>1 DEF ChildInv, thrVars
  <1> QED
    BY <1>3, <1>4, <1>5 DEF EachTask

LEMMA ChildSpawn ==
  ASSUME TypeInv, LauncherInv, ChildInv, Spawn
  PROVE  ChildInv'
  <1>1. UNCHANGED <<procVars, taskVars>> /\ loop' = "each"
    BY DEF Spawn, world
  <1>2. PICK k \in Slot : /\ thread[<<idx, k>>] = "idle"
                          /\ thread' = [thread EXCEPT ![<<idx, k>>] =
                               IF loop = "launch" THEN "create" ELSE "kill"]
    BY DEF Spawn, BusyOf
  <1>3. idx \in Tasks /\ <<idx, k>> \in Thread
    <2>1. idx \in 1..NTasks
      BY TaskAssumption DEF TypeInv, TypeOK, StepInv, Spawn
    <2> QED
      BY <2>1 DEF Thread, Tasks
  <1>4. \A s \in Tasks : Children(s)' = Children(s)
    BY <1>1 DEF Children, procVars
  <1>5. ASSUME NEW th \in Thread, thread'[th] = "create" PROVE Children(th[1])' = {}
    <2>1. CASE th = <<idx, k>>
      BY <1>2, <1>3, <1>4, <1>5, <2>1 DEF ChildInv, TypeInv, TypeOK
    <2>2. CASE th # <<idx, k>>
      BY <1>2, <1>4, <1>5, <2>2, ThreadTask DEF ChildInv, TypeInv, TypeOK
    <2> QED
      BY <2>1, <2>2
  <1>6. ASSUME NEW t \in Tasks, pid'[t] # NoPid, Noticed(shutdown'[t]),
               \A j \in Slot : thread'[<<t, j>>] # "inputIdle"
        PROVE  Children(t)' = {}
    <2>1. \A th \in Thread : thread[th] = "inputIdle" => thread'[th] = "inputIdle"
      BY <1>2, <1>3 DEF TypeInv, TypeOK
    <2>2. \A j \in Slot : thread[<<t, j>>] # "inputIdle"
      BY <1>6, <2>1 DEF Thread
    <2> QED
      BY <1>1, <1>4, <1>6, <2>2 DEF ChildInv, taskVars
  <1> QED
    BY <1>1, <1>5, <1>6 DEF ChildInv, NoLostChild, procVars, taskVars

(* A process that a Kill tells to end was one child at most, and its       *)
(* task's.                                                                 *)
LEMMA KillShrinks ==
  ASSUME TypeInv, ChildInv, NEW q, KillReturns(q) \/ KillFails(q)
  PROVE  /\ \A p \in Pid : IsChild(p)' => IsChild(p) /\ owner'[p] = owner[p]
         /\ \A p \in Pid : proc'[p] = "free" => owner'[p] = 0
  BY DEF KillReturns, KillFails, Falls, procVars, IsChild, ChildInv, TypeInv, TypeOK

LEMMA KillTellsIt ==
  ASSUME TypeInv, ChildInv, SafeBuild, NEW q \in Pid, KillReturns(q)
  PROVE  ~IsChild(q)'
  BY DEF KillReturns, CannotOpen, Falls, SafeBuild, procVars, IsChild, TypeInv, TypeOK

LEMMA ChildLoop ==
  ASSUME TypeInv, LauncherInv, ChildInv, SafeBuild, LoopThread
  PROVE  ChildInv'
  <1>1. CASE \/ RunBegins \/ RunTests \/ UvReturns \/ TimerFires \/ ProtectLocks
             \/ ProtectUnlocks \/ ProtectReturns \/ FinalLock \/ FinalUnlock \/ RunEnds
    <2>1. UNCHANGED <<procVars, taskVars, thrVars>> /\ loop' # "launch"
      BY <1>1 DEF RunBegins, RunTests, UvReturns, TimerFires, ProtectLocks, ProtectUnlocks,
         ProtectReturns, FinalLock, FinalUnlock, RunEnds, LoopAt, outside, world
    <2>2. NoNews
      BY <2>1 DEF NoNews, IsChild, procVars, taskVars, thrVars, ChildInv
    <2> QED
      BY <2>2, ChildKept
  <1>2. CASE FinalKill
    <2>1. UNCHANGED <<taskVars, thrVars, loop>> /\ loop # "launch"
      BY <1>2 DEF FinalKill
    <2>2. /\ \A p \in Pid : IsChild(p)' => IsChild(p) /\ owner'[p] = owner[p]
          /\ \A p \in Pid : proc'[p] = "free" => owner'[p] = 0
      <3>1. CASE UNCHANGED procVars
        BY <3>1 DEF procVars, IsChild, ChildInv
      <3>2. CASE KillReturns(pid[idx]) \/ KillFails(pid[idx])
        BY <3>2, KillShrinks
      <3> QED
        BY <1>2, <3>1, <3>2 DEF FinalKill
    <2>3. NoNews
      BY <2>1, <2>2 DEF NoNews, taskVars, thrVars
    <2> QED
      BY <2>3, ChildKept
  <1> QED
    BY <1>1, <1>2, ChildEachTask, ChildSpawn DEF LoopThread

LEMMA ChildCreatedKeeps ==
  ASSUME TypeInv, LauncherInv, ChildInv, NEW th \in Thread, ChildCreated(th)
  PROVE  ChildInv'
  <1> DEFINE t == th[1]
  <1>1. t \in Tasks /\ t # 0 /\ Children(t) = {}
    <2>1. t \in Tasks
      BY ThreadTask
    <2>2. Children(t) = {}
      BY DEF ChildCreated, ThreadAt, ChildInv
    <2> QED
      BY <2>1, <2>2, TaskAssumption DEF Tasks
  <1>2. PICK p \in Pid : /\ proc[p] = "free"
                         /\ proc' = [proc EXCEPT ![p] = "run"]
                         /\ owner' = [owner EXCEPT ![p] = t]
                         /\ pid' = [pid EXCEPT ![t] = p]
    BY DEF ChildCreated, CanGet
  <1>3. /\ thread[th] = "create" /\ thread' = [thread EXCEPT ![th] = "inputIdle"]
        /\ UNCHANGED <<loop, idx, size, shutdown>>
    BY DEF ChildCreated, ThreadAt, others, loopVars
  <1>4. ASSUME NEW s \in Tasks, s # t PROVE Children(s)' = Children(s)
    <2>1. p \notin Children(s) /\ p \notin Children(s)'
      BY <1>2, <1>4 DEF Children, TypeInv, TypeOK
    <2>2. \A q \in Pid : q # p => proc'[q] = proc[q] /\ owner'[q] = owner[q]
      BY <1>2 DEF TypeInv, TypeOK
    <2> QED
      BY <2>1, <2>2 DEF Children
  <1>5. NoLostChild'
    <2> SUFFICES ASSUME NEW q \in Pid, proc'[q] = "run", owner'[q] # 0
                 PROVE  pid'[owner'[q]] = q
      BY DEF NoLostChild
    <2>1. CASE q = p
      BY <1>1, <1>2, <2>1 DEF TypeInv, TypeOK
    <2>2. CASE q # p
      <3>1. proc[q] = "run" /\ owner'[q] = owner[q] /\ owner[q] # 0
        BY <1>2, <2>2 DEF TypeInv, TypeOK
      <3>2. owner[q] # t
        BY <1>1, <3>1 DEF Children
      <3>3. owner[q] \in Tasks
        BY <3>1, TaskAssumption DEF TypeInv, TypeOK, Tasks
      <3> QED
        BY <1>2, <3>1, <3>2, <3>3 DEF ChildInv, NoLostChild, TypeInv, TypeOK
    <2> QED
      BY <2>1, <2>2
  <1>6. \A q \in Pid : proc'[q] = "free" => owner'[q] = 0
    BY <1>2 DEF ChildInv, TypeInv, TypeOK
  <1>7. \A s \in Tasks : s > size' => pid'[s] = NoPid
    <2>1. t <= size
      BY <1>3 DEF TypeInv, StepInv
    <2>2. \A s \in Tasks : s > size => s # t
      BY <2>1, TaskAssumption DEF TypeInv, TypeOK, Tasks
    <2> QED
      BY <1>1, <1>2, <1>3, <2>2 DEF ChildInv, TypeInv, TypeOK
  <1>8. ASSUME loop' = "launch" PROVE Children(idx)' = {}
    <2>1. th \in Busy
      BY <1>3 DEF Busy
    <2>2. idx \in Int /\ t < idx /\ idx <= size /\ idx \in Tasks
      <3>1. t < idx /\ idx <= size /\ idx \in 1..NTasks
        BY <1>3, <1>8, <2>1, TaskAssumption DEF LauncherInv, TypeInv, StepInv, TypeOK
      <3> QED
        BY <3>1 DEF Tasks
    <2>3. idx # t
      BY <2>2, <1>1, TaskAssumption DEF Tasks
    <2>4. Children(idx)' = {q \in Pid : proc'[q] = "run" /\ owner'[q] = idx}
      BY <1>3 DEF Children
    <2> QED
      BY <1>2, <1>3, <1>8, <2>2, <2>3, <2>4 DEF ChildInv, Children, TypeInv, TypeOK
  <1>9. ASSUME NEW tk \in Thread, thread'[tk] = "create" PROVE Children(tk[1])' = {}
    <2>1. tk # th /\ thread[tk] = "create"
      BY <1>3, <1>9 DEF TypeInv, TypeOK
    <2>2. tk[1] # t
      BY <1>3, <2>1 DEF LauncherInv, Busy
    <2> QED
      BY <1>4, <2>1, <2>2, ThreadTask DEF ChildInv
  <1>10. ASSUME NEW s \in Tasks, pid'[s] # NoPid, Noticed(shutdown'[s]),
                \A k \in Slot : thread'[<<s, k>>] # "inputIdle"
         PROVE  Children(s)' = {}
    <2>1. s # t
      <3>1. th = <<t, th[2]>> /\ th[2] \in Slot /\ thread'[th] = "inputIdle"
        BY <1>3 DEF Thread, TypeInv, TypeOK
      <3> QED
        BY <1>10, <3>1
    <2>2. \A k \in Slot : thread[<<s, k>>] # "inputIdle"
      BY <1>3, <1>10, <2>1 DEF Thread, TypeInv, TypeOK
    <2> QED
      BY <1>1, <1>2, <1>3, <1>4, <1>10, <2>1, <2>2 DEF ChildInv, TypeInv, TypeOK
  <1> QED
    BY <1>5, <1>6, <1>7, <1>8, <1>9, <1>10 DEF ChildInv

LEMMA LauncherKillsKeeps ==
  ASSUME TypeInv, LauncherInv, ChildInv, SafeBuild, NEW th \in Thread, LauncherKills(th)
  PROVE  ChildInv'
  <1> DEFINE t == th[1]
  <1>1. t \in Tasks
    BY ThreadTask
  <1>2. /\ pid' = [pid EXCEPT ![t] = NoPid]
        /\ thread' = [thread EXCEPT ![th] = "create"] /\ thread[th] = "kill"
        /\ UNCHANGED <<loop, idx, size, shutdown>>
        /\ KillReturns(pid[t])
    BY DEF LauncherKills, ThreadAt, others, loopVars
  <1>3. /\ \A p \in Pid : IsChild(p)' => IsChild(p) /\ owner'[p] = owner[p]
        /\ \A p \in Pid : proc'[p] = "free" => owner'[p] = 0
    BY <1>2, KillShrinks
  <1>4. Children(t)' = {}
    <2> SUFFICES ASSUME NEW p \in Pid, IsChild(p)', owner'[p] = t PROVE FALSE
      BY <1>1, TaskAssumption DEF Children, IsChild, Tasks
    <2>1. IsChild(p) /\ owner[p] = t /\ pid[t] = p
      BY <1>3 DEF IsChild, ChildInv, NoLostChild
    <2> QED
      BY <1>2, <2>1, KillTellsIt
  <1>5. NoLostChild'
    <2> SUFFICES ASSUME NEW q \in Pid, IsChild(q)'
                 PROVE  pid'[owner'[q]] = q
      BY DEF NoLostChild, IsChild
    <2>1. IsChild(q) /\ owner'[q] = owner[q] /\ pid[owner[q]] = q
      BY <1>3 DEF ChildInv, NoLostChild, IsChild
    <2>2. owner'[q] # t
      BY <1>4 DEF Children, IsChild
    <2>3. owner[q] \in Tasks
      BY <2>1, TaskAssumption DEF IsChild, TypeInv, TypeOK, Tasks
    <2> QED
      BY <1>2, <2>1, <2>2, <2>3 DEF TypeInv, TypeOK
  <1>6. \A s \in Tasks : s > size' => pid'[s] = NoPid
    BY <1>1, <1>2 DEF ChildInv, TypeInv, TypeOK
  <1>7. ASSUME loop' = "launch" PROVE Children(idx)' = {}
    <2>1. Children(idx) = {} /\ idx' = idx /\ idx \in 1..NTasks
      BY <1>2, <1>7, TaskAssumption DEF ChildInv, TypeInv, TypeOK, StepInv
    <2>2. Children(idx)' = {q \in Pid : proc'[q] = "run" /\ owner'[q] = idx}
      BY <2>1 DEF Children
    <2> QED
      BY <1>3, <2>1, <2>2, TaskAssumption DEF IsChild, Children
  <1>8. ASSUME NEW tk \in Thread, thread'[tk] = "create" PROVE Children(tk[1])' = {}
    <2>1. CASE tk = th
      BY <1>4, <2>1
    <2>2. CASE tk # th
      BY <1>2, <1>3, <1>8, <2>2, ThreadTask, ChildrenFewer DEF ChildInv, TypeInv, TypeOK
    <2> QED
      BY <2>1, <2>2
  <1>9. ASSUME NEW s \in Tasks, pid'[s] # NoPid, Noticed(shutdown'[s]),
               \A k \in Slot : thread'[<<s, k>>] # "inputIdle"
        PROVE  Children(s)' = {}
    <2>1. s # t /\ pid[s] # NoPid
      BY <1>1, <1>2, <1>9 DEF TypeInv, TypeOK
    <2>2. \A k \in Slot : thread[<<s, k>>] # "inputIdle"
      BY <1>2, <1>9 DEF Thread, TypeInv, TypeOK
    <2> QED
      BY <1>2, <1>3, <1>9, <2>1, <2>2, ChildrenFewer DEF ChildInv
  <1> QED
    BY <1>3, <1>5, <1>6, <1>7, <1>8, <1>9 DEF ChildInv

LEMMA ChildLauncher ==
  ASSUME TypeInv, LauncherInv, ChildInv, SafeBuild, NEW th \in Thread, Launcher(th)
  PROVE  ChildInv'
  <1>1. CASE LauncherKillFails(th)
    <2>1. UNCHANGED <<pid, shutdown, size, loop, idx>>
      BY <1>1 DEF LauncherKillFails, taskVars, others, loopVars
    <2>2. /\ \A tk \in Thread : thread'[tk] = "create" => thread[tk] = "create"
          /\ \A tk \in Thread : thread[tk] = "inputIdle" => thread'[tk] = "inputIdle"
      BY <1>1 DEF LauncherKillFails, TypeInv, TypeOK
    <2>3. NoNews
      BY <1>1, <2>1, <2>2, KillShrinks DEF LauncherKillFails, NoNews
    <2> QED
      BY <2>3, ChildKept
  <1>2. CASE CreateFails(th) \/ DecLoads(th) \/ DecStores(th)
    <2>1. UNCHANGED <<procVars, taskVars, loopVars>>
      BY <1>2 DEF CreateFails, DecLoads, DecStores, others
    <2>2. /\ \A tk \in Thread : thread'[tk] = "create" => thread[tk] = "create"
          /\ \A tk \in Thread : thread[tk] = "inputIdle" => thread'[tk] = "inputIdle"
      BY <1>2 DEF CreateFails, DecLoads, DecStores, ThreadAt, TypeInv, TypeOK
    <2>3. NoNews
      BY <2>1, <2>2 DEF NoNews, procVars, taskVars, loopVars, IsChild, ChildInv
    <2> QED
      BY <2>3, ChildKept
  <1>3. CASE StartNoted(th)
    <2> DEFINE t == th[1]
    <2>1. /\ UNCHANGED <<procVars, size, pid, loop, idx>>
          /\ shutdown' = [shutdown EXCEPT ![t] = NotDown]
          /\ thread[th] = "inputIdle" /\ thread' = [thread EXCEPT ![th] = "dec"]
      BY <1>3 DEF StartNoted, ThreadAt, others, loopVars
    <2>2. ASSUME NEW s \in Tasks, pid'[s] # NoPid, Noticed(shutdown'[s]),
                 \A k \in Slot : thread'[<<s, k>>] # "inputIdle"
          PROVE  Children(s)' = {}
      <3>1. t \in Tasks /\ th = <<t, th[2]>>
        BY DEF Thread
      <3>2. s # t /\ shutdown'[s] = shutdown[s]
        BY <2>1, <2>2, <3>1 DEF Noticed, NotDown, TypeInv, TypeOK
      <3>3. \A k \in Slot : <<s, k>> # th
        BY <3>1, <3>2
      <3>4. \A k \in Slot : thread[<<s, k>>] # "inputIdle"
        BY <2>1, <2>2, <3>3 DEF Thread, TypeInv, TypeOK
      <3> QED
        BY <2>1, <2>2, <3>2, <3>4 DEF ChildInv, Children, procVars
    <2>3. ASSUME NEW tk \in Thread, thread'[tk] = "create" PROVE thread[tk] = "create"
      BY <2>1, <2>3 DEF TypeInv, TypeOK
    <2> QED
      BY <2>1, <2>2, <2>3 DEF ChildInv, NoLostChild, Children, procVars
  <1> QED
    BY <1>1, <1>2, <1>3, ChildCreatedKeeps, LauncherKillsKeeps DEF Launcher

LEMMA SafeInductive == SafeBuild => (Spec => []SafeInv)
  <1> SUFFICES ASSUME SafeBuild PROVE Spec => []SafeInv
    OBVIOUS
  <1>1. Init => SafeInv
    BY TypeInit, LauncherInit, ChildInit DEF SafeInv, CounterInv
  <1>2. SafeInv /\ [Next]_vars => SafeInv'
    <2>1. CounterInv /\ [Next]_vars => CounterInv'
      BY LauncherStep DEF SafeBuild
    <2> QED
      BY <2>1, ChildOutside, ChildLoop, ChildLauncher DEF SafeInv, CounterInv, Next
  <1> QED
    BY <1>1, <1>2, PTL DEF Spec

(* The manager never loses sight of a child, and starts a program again    *)
(* only when it has told every earlier instance to end: the pid on record  *)
(* is overwritten only when nothing else runs under it.                    *)
THEOREM NoChildIsLost == SafeBuild => (Spec => []NoLostChild)
  <1>1. SafeInv => NoLostChild
    BY DEF SafeInv, ChildInv
  <1> QED
    BY <1>1, SafeInductive, PTL

-----------------------------------------------------------------------------
(* The end of the loop thread.                                             *)
Ending == loop \in {"kill", "exit", "none"}

LEMMA OrphanInit == Init => OrphanInv
  BY DEF Init, OrphanInv, NoOrphans

(* No child appears, none is pardoned and the final loop does not move.    *)
LEMMA OrphanKept ==
  ASSUME TypeInv, OrphanInv,
         \A p \in Pid : IsChild(p)' => IsChild(p) /\ owner'[p] = owner[p],
         spared' = spared \/ ~Ending',
         loop' = loop \/ ~Ending' \/ (loop = "exit" /\ loop' = "none"),
         idx' = idx \/ loop' # "kill"
  PROVE  OrphanInv'
  BY DEF OrphanInv, NoOrphans, IsChild, Ending

LEMMA OrphanOutside ==
  ASSUME SafeInv, OrphanInv, Environment \/ Owner \/ UNCHANGED vars
  PROVE  OrphanInv'
  <1> USE DEF SafeInv, CounterInv
  <1>1. CASE Environment
    <2>1. UNCHANGED <<loop, idx, spared>>
      BY <1>1 DEF Environment, Exit, Release, Foreign, Tick, program, loopVars, histVars
    <2>2. \A p \in Pid : IsChild(p)' => IsChild(p) /\ owner'[p] = owner[p]
      <3>1. ASSUME NEW q \in Pid, Exit(q) \/ Release(q) \/ Foreign(q), NEW p \in Pid, IsChild(p)'
            PROVE  IsChild(p) /\ owner'[p] = owner[p]
        BY <3>1 DEF Exit, Falls, Release, Foreign, IsChild, ChildInv, TypeInv, TypeOK
      <3>2. Tick => UNCHANGED procVars
        BY DEF Tick
      <3> QED
        BY <1>1, <3>1, <3>2 DEF Environment, IsChild, procVars
    <2> QED
      BY <2>1, <2>2, OrphanKept
  <1>2. CASE Owner
    <2>1. /\ UNCHANGED <<procVars, idx>>
          /\ loop' = "begin" \/ UNCHANGED <<loop, spared>>
      BY <1>2 DEF Owner, Start, AddTasks, AddTask, Stop, Delete, BeginStop, EndStop, others,
         loopVars, outside, world, histVars, locals
    <2> QED
      BY <2>1, OrphanKept DEF procVars, IsChild, Ending
  <1>3. CASE UNCHANGED vars
    BY <1>3, OrphanKept DEF vars, procVars, loopVars, histVars, IsChild
  <1> QED
    BY <1>1, <1>2, <1>3

(* The final loop passes an element only when its child is dead or told to *)
(* end, or has withstood the last attempt.                                 *)
LEMMA OrphanFinalKill ==
  ASSUME SafeInv, OrphanInv, SafeBuild, FinalKill
  PROVE  OrphanInv'
  <1>1. TypeInv /\ ChildInv /\ loop = "kill" /\ loop' = "kill"
    BY DEF SafeInv, CounterInv, FinalKill
  <1>2. \A p \in Pid : IsChild(p)' => IsChild(p) /\ owner'[p] = owner[p]
    BY <1>1, KillShrinks DEF FinalKill, procVars, IsChild
  <1>3. spared \subseteq spared'
    BY DEF FinalKill, KillReturns, KillFails, histVars
  <1>4. CASE idx' = idx
    <2> SUFFICES ASSUME NEW p \in Pid, IsChild(p)'
                 PROVE  p \in spared' \/ owner'[p] >= idx'
      BY <1>1 DEF OrphanInv, NoOrphans, IsChild
    <2> QED
      BY <1>1, <1>2, <1>3, <1>4 DEF OrphanInv, IsChild
  <1>5. CASE idx' = idx + 1
    <2> SUFFICES ASSUME NEW p \in Pid, IsChild(p)'
                 PROVE  p \in spared' \/ owner'[p] >= idx + 1
      BY <1>1, <1>5 DEF OrphanInv, NoOrphans, IsChild
    <2>1. IsChild(p) /\ owner'[p] = owner[p] /\ pid[owner[p]] = p
      BY <1>1, <1>2 DEF ChildInv, NoLostChild, IsChild
    <2>2. p \in spared \/ owner[p] >= idx
      BY <1>1, <2>1 DEF OrphanInv, IsChild
    <2>3. owner[p] \in Int /\ idx \in Int
      BY <1>1, TaskAssumption DEF TypeInv, TypeOK
    <2>4. CASE owner[p] = idx
      <3>1. pid[idx] = p /\ pid[idx] # NoPid
        BY <2>1, <2>4, SystemAssumption
      <3>2. ~KillReturns(p)
        BY <1>1, KillTellsIt
      <3> QED
        BY <1>5, <2>3, <3>1, <3>2 DEF FinalKill
    <2> QED
      BY <1>3, <2>1, <2>2, <2>3, <2>4
  <1> QED
    BY <1>1, <1>4, <1>5 DEF FinalKill, TypeInv, TypeOK

LEMMA OrphanLoop ==
  ASSUME SafeInv, OrphanInv, SafeBuild, LoopThread
  PROVE  OrphanInv'
  <1>1. TypeInv /\ ChildInv
    BY DEF SafeInv, CounterInv
  <1>2. CASE \/ RunBegins \/ RunTests \/ UvReturns \/ TimerFires \/ ProtectLocks
             \/ ProtectUnlocks \/ ProtectReturns \/ RunEnds \/ Spawn
    <2>1. UNCHANGED procVars /\ (~Ending' \/ UNCHANGED spared)
          /\ (~Ending' \/ (loop = "exit" /\ loop' = "none"))
      BY <1>2 DEF RunBegins, RunTests, UvReturns, TimerFires, ProtectLocks, ProtectUnlocks,
         ProtectReturns, RunEnds, Spawn, LoopAt, outside, world, histVars, Ending
    <2> QED
      BY <1>1, <2>1, OrphanKept DEF procVars, IsChild, Ending
  <1>3. ASSUME NEW t \in Tasks, EachTask(t) PROVE OrphanInv'
    <2>1. UNCHANGED procVars /\ ~Ending'
      BY <1>3 DEF EachTask, StartFirst, Revive, AwaitDelay, Restart, NothingToDo, Decide,
         AtTask, outside, world, Ending
    <2> QED
      BY <1>1, <2>1, OrphanKept DEF procVars, IsChild, Ending
  <1>4. CASE FinalLock
    <2>1. idx' = 1 /\ owner' = owner /\ loop' = "kill"
      BY <1>4 DEF FinalLock, LoopAt, outside, world, procVars
    <2>2. \A p \in Pid : owner[p] # 0 => owner[p] >= 1
      BY <1>1, TaskAssumption DEF TypeInv, TypeOK
    <2> QED
      BY <2>1, <2>2 DEF OrphanInv, NoOrphans
  <1>5. CASE FinalUnlock
    <2>1. UNCHANGED <<proc, owner, spared>> /\ loop = "kill" /\ loop' = "exit" /\ idx > size
      BY <1>5 DEF FinalUnlock, LoopAt, outside, world, procVars, histVars
    <2>2. ASSUME NEW p \in Pid, IsChild(p) PROVE ~(owner[p] >= idx)
      <3>1. owner[p] \in Tasks
        BY <1>1, <2>2, TaskAssumption DEF TypeInv, TypeOK, IsChild, Tasks
      <3>2. pid[owner[p]] = p /\ p # NoPid
        BY <1>1, <2>2, SystemAssumption DEF ChildInv, NoLostChild, IsChild
      <3>3. ~(owner[p] > size)
        BY <1>1, <3>1, <3>2 DEF ChildInv
      <3> QED
        BY <1>1, <2>1, <3>1, <3>3, TaskAssumption DEF TypeInv, TypeOK, Tasks
    <2> QED
      BY <2>1, <2>2 DEF OrphanInv, NoOrphans, IsChild
  <1> QED
    BY <1>2, <1>3, <1>4, <1>5, OrphanFinalKill DEF LoopThread

(* While the loop thread ends there is no launcher that could start a      *)
(* child behind its back.                                                  *)
LEMMA OrphanLauncher ==
  ASSUME SafeInv, OrphanInv, NEW th \in Thread, Launcher(th)
  PROVE  OrphanInv'
  <1>1. thread[th] # "idle" /\ loop' = loop
    BY DEF Launcher, LauncherKills, LauncherKillFails, ChildCreated, CreateFails, StartNoted,
       DecLoads, DecStores, ThreadAt, others, loopVars
  <1>2. ~Ending
    BY <1>1 DEF SafeInv, CounterInv, LauncherInv, CounterExact, Busy, Ending
  <1> QED
    BY <1>1, <1>2 DEF OrphanInv, NoOrphans, Ending

LEMMA OrphanInductive == SafeBuild => (Spec => [](SafeInv /\ OrphanInv))
  <1> SUFFICES ASSUME SafeBuild PROVE Spec => [](SafeInv /\ OrphanInv)
    OBVIOUS
  <1>1. SafeInv /\ OrphanInv /\ [Next]_vars => OrphanInv'
    BY OrphanOutside, OrphanLoop, OrphanLauncher DEF Next
  <1> QED
    BY <1>1, OrphanInit, SafeInductive, PTL DEF Spec

(* When the loop thread is gone every child has been told to end, except   *)
(* one that withstood every attempt ("stop all child process and exit",    *)
(* main.cpp:35).                                                           *)
THEOREM NoneLeftBehind == SafeBuild => (Spec => []NoOrphans)
  <1>1. OrphanInv => NoOrphans
    BY DEF OrphanInv
  <1> QED
    BY <1>1, OrphanInductive, PTL

(* The strengthening that the four invariants rest on, as one.             *)
THEOREM Inductive == SafeBuild => (Spec => []IInv)
  <1>1. SafeInv /\ OrphanInv => IInv
    BY DEF SafeInv, CounterInv, TypeInv, IInv
  <1> QED
    BY <1>1, OrphanInductive, PTL

-----------------------------------------------------------------------------
(* m_bRunning is set from the first statement of the loop thread to its    *)
(* last, and once Stop has returned the thread is not in Protect.          *)
Final == {"while", "killLock", "kill", "exit"}

HaltInv ==
  /\ m_bRunning <=> loop \notin {"none", "begin"}
  /\ ctl # "idle" => ~m_bStart
  /\ ctl = "dead" \/ (ctl = "idle" /\ ~m_bStart) => loop \in {"none", "begin"} \cup Final

LEMMA HaltStep ==
  ASSUME TypeInv, HaltInv, [Next]_vars
  PROVE  HaltInv'
  <1>1. CASE Environment \/ UNCHANGED vars
    <2>1. UNCHANGED <<loop, m_bRunning, ctl, m_bStart>>
      BY <1>1 DEF Environment, Exit, Release, Foreign, Tick, program, loopVars, flagVars, vars
    <2> QED
      BY <2>1 DEF HaltInv
  <1>2. CASE Owner
    <2>1. CASE Start
      BY <2>1 DEF Start, HaltInv
    <2>2. CASE AddTasks \/ AddTask
      BY <2>2 DEF AddTasks, AddTask, others, loopVars, flagVars, HaltInv
    <2>3. CASE Stop \/ Delete
      BY <2>3 DEF Stop, Delete, BeginStop, loopVars, HaltInv
    <2>4. CASE EndStop
      BY <2>4 DEF EndStop, loopVars, HaltInv
    <2> QED
      BY <1>2, <2>1, <2>2, <2>3, <2>4 DEF Owner
  <1>3. CASE LoopThread
    <2>1. CASE RunBegins \/ RunEnds
      BY <2>1 DEF RunBegins, RunEnds, LoopAt, HaltInv, Final
    <2>2. CASE ~RunBegins /\ ~RunEnds
      <3>1. UNCHANGED <<m_bRunning, ctl, m_bStart>>
        BY <1>3, <2>2 DEF LoopThread, RunTests, UvReturns, TimerFires, ProtectLocks,
           ProtectUnlocks, ProtectReturns, EachTask, StartFirst, Revive, AwaitDelay, Restart,
           NothingToDo, Decide, Spawn, FinalLock, FinalKill, FinalUnlock, flagVars
      <3>2. /\ loop \notin {"none", "begin"} /\ loop' \notin {"none", "begin"}
            /\ loop \in Final /\ ~m_bStart => loop' \in Final
        BY <1>3, <2>2 DEF LoopThread, RunTests, UvReturns, TimerFires, ProtectLocks,
           ProtectUnlocks, ProtectReturns, EachTask, StartFirst, Revive, AwaitDelay, Restart,
           NothingToDo, Decide, Spawn, FinalLock, FinalKill, FinalUnlock, AtTask, LoopAt, Final
      <3> QED
        BY <3>1, <3>2 DEF HaltInv
    <2> QED
      BY <2>1, <2>2
  <1>4. ASSUME NEW th \in Thread, Launcher(th) PROVE HaltInv'
    <2>1. UNCHANGED <<loop, m_bRunning, ctl, m_bStart>>
      BY <1>4 DEF Launcher, LauncherKills, LauncherKillFails, ChildCreated, CreateFails,
         StartNoted, DecLoads, DecStores, others, loopVars, flagVars
    <2> QED
      BY <2>1 DEF HaltInv
  <1> QED
    BY <1>1, <1>2, <1>3, <1>4 DEF Next

(* Once Stop or the destructor has returned nothing is started or          *)
(* restarted any more, even if Stop came before the loop thread had begun. *)
THEOREM StopHaltsAll == ~TornUpdates => (Spec => []StopHalts)
  <1> SUFFICES ASSUME ~TornUpdates PROVE Spec => []StopHalts
    OBVIOUS
  <1>1. Init => HaltInv
    BY DEF Init, HaltInv
  <1>2. CounterInv /\ HaltInv /\ [Next]_vars => HaltInv'
    BY HaltStep DEF CounterInv
  <1>3. Spec => [](CounterInv /\ HaltInv)
    BY <1>1, <1>2, CounterInductive, PTL DEF Spec
  <1>4. CounterInv /\ HaltInv => StopHalts
    BY DEF CounterInv, LauncherInv, CounterExact, HaltInv, StopHalts, Final
  <1> QED
    BY <1>3, <1>4, PTL

-----------------------------------------------------------------------------
(* What Protect decides by the clock.                                      *)

(* Differences of times of day.                                            *)
LEMMA DayArith ==
  ASSUME NEW a \in 0..Day-1, NEW b \in 0..Day-1
  PROVE  /\ (a + Day - b) % Day = IF a >= b THEN a - b ELSE a + Day - b
         /\ (a + 1) % Day = IF a + 1 = Day THEN 0 ELSE a + 1
  <1>1. CASE a >= b
    <2>1. a + Day - b = (a - b) + Day /\ a - b \in 0..Day-1
      BY <1>1, ClockAssumption
    <2> QED
      BY <1>1, <2>1, ClockAssumption
  <1>2. CASE a < b
    BY <1>2, ClockAssumption
  <1> QED
    BY <1>1, <1>2, ClockAssumption

-----------------------------------------------------------------------------
(* What KillsOnlyWhenDue asks for when a child is killed; it goes on       *)
(* holding from Protect's decision to the launcher's step.                 *)
IsDue(t) ==
  \/ RsDur[t] > 0 /\ startup[t] > RsDur[t]
  \/ RsTime[t] # NoTime /\ startup[t] > (tod + Day - RsTime[t]) % Day

DueInv ==
  /\ loop = "restart" => IsDue(idx)
  /\ \A th \in Thread : thread[th] = "kill" => IsDue(th[1])

(* A captured `now' that lags makes the code restart later, never earlier. *)
LEMMA DecidedToRestart ==
  ASSUME TypeInv, NEW t \in Tasks, DueAgain(t)
  PROVE  IsDue(t)
  <1>1. /\ tod \in 0..Day-1 /\ lag \in 0..MaxLag /\ lag \in 0..Day-1 /\ startup[t] \in Nat
        /\ Day \in Nat /\ RsDur[t] \in Nat
    BY ClockAssumption, TaskAssumption DEF TypeInv, TypeOK, Ages
  <1>2. CASE RanLongEnough(startup[t], RsDur[t], lag)
    BY <1>1, <1>2 DEF RanLongEnough, Since, IsDue
  <1>3. CASE NeedRestart(startup[t], RsTime[t], tod, lag)
    <2> DEFINE now == CapturedTime(tod, lag)
    <2>1. RsTime[t] \in 0..Day-1 /\ RsTime[t] # NoTime
      BY <1>3, TaskAssumption DEF NeedRestart
    <2>2. now = IF tod >= lag THEN tod - lag ELSE tod + Day - lag
      BY <1>1, DayArith DEF CapturedTime
    <2>3. now > RsTime[t] /\ startup[t] - lag > now - RsTime[t]
      BY <1>3 DEF NeedRestart, Since
    <2>4. (tod + Day - RsTime[t]) % Day
            = IF tod >= RsTime[t] THEN tod - RsTime[t] ELSE tod + Day - RsTime[t]
      BY <1>1, <2>1, DayArith
    <2> HIDE DEF now
    <2>5. startup[t] > (tod + Day - RsTime[t]) % Day
      BY <1>1, <2>1, <2>2, <2>3, <2>4
    <2> QED
      BY <2>1, <2>5 DEF IsDue
  <1> QED
    BY <1>2, <1>3 DEF DueAgain

LEMMA DueTick ==
  ASSUME TypeInv, Tick, NEW t \in Tasks, IsDue(t)
  PROVE  IsDue(t)'
  <1>1. /\ tod \in 0..Day-1 /\ startup[t] \in 0..MaxAge /\ Day \in Nat \ {0} /\ MaxAge \in Nat
        /\ MaxLag \in Nat /\ RsDur[t] \in Nat /\ RsDur[t] < MaxAge
        /\ RsTime[t] # NoTime => RsTime[t] \in 0..Day-1 /\ Day <= MaxAge
    BY ClockAssumption, TaskAssumption DEF TypeInv, TypeOK, Ages
  <1>2. startup'[t] = IF startup[t] < MaxAge THEN startup[t] + 1 ELSE MaxAge
    BY DEF Tick, Older
  <1>3. tod' = IF tod + 1 = Day THEN 0 ELSE tod + 1
    <2>1. tod' = (tod + 1) % Day /\ 0 \in 0..Day-1
      BY <1>1 DEF Tick
    <2> QED
      BY <1>1, <2>1, DayArith
  <1>4. CASE RsDur[t] > 0 /\ startup[t] > RsDur[t]
    BY <1>1, <1>2, <1>4 DEF IsDue
  <1>5. CASE RsTime[t] # NoTime /\ startup[t] > (tod + Day - RsTime[t]) % Day
    <2>1. tod' \in 0..Day-1 /\ RsTime[t] \in 0..Day-1
      BY <1>1, <1>3, <1>5
    <2>2. /\ (tod + Day - RsTime[t]) % Day
               = IF tod >= RsTime[t] THEN tod - RsTime[t] ELSE tod + Day - RsTime[t]
          /\ (tod' + Day - RsTime[t]) % Day
               = IF tod' >= RsTime[t] THEN tod' - RsTime[t] ELSE tod' + Day - RsTime[t]
      BY <1>1, <2>1, DayArith
    <2>3. startup'[t] > (tod' + Day - RsTime[t]) % Day
      <3> DEFINE r == RsTime[t]
                 x == (tod + Day - r) % Day
                 y == (tod' + Day - r) % Day
      <3>1. /\ x = IF tod >= r THEN tod - r ELSE tod + Day - r
            /\ y = IF tod' >= r THEN tod' - r ELSE tod' + Day - r
            /\ startup[t] > x
            /\ r \in 0..Day-1 /\ Day <= MaxAge
        BY <1>1, <1>5, <2>1, <2>2
      <3> HIDE DEF r, x, y
      <3>2. y <= x + 1 /\ y < Day /\ x \in Int /\ y \in Int
        BY <1>1, <1>3, <2>1, <3>1
      <3>3. startup'[t] > y
        BY <1>1, <1>2, <3>1, <3>2
      <3> QED
        BY <3>3 DEF r, y
    <2> QED
      BY <1>5, <2>3 DEF IsDue
  <1> QED
    BY <1>4, <1>5 DEF IsDue

(* A step that changes no start time, no clock, and lets nobody begin to   *)
(* restart or kill.                                                        *)
LEMMA DueKept ==
  ASSUME DueInv, UNCHANGED <<startup, tod>>,
         loop' = "restart" => loop = "restart" /\ idx' = idx,
         \A th \in Thread : thread'[th] = "kill" => thread[th] = "kill"
  PROVE  DueInv'
  BY DEF DueInv, IsDue

LEMMA DueStep ==
  ASSUME CounterInv, DueInv, [Next]_vars
  PROVE  DueInv'
  <1> USE DEF CounterInv
  <1>1. CASE Tick
    <2>1. UNCHANGED <<loop, idx, thread>>
      BY <1>1 DEF Tick, loopVars, thrVars
    <2>2. loop = "restart" => idx \in Tasks
      BY TaskAssumption DEF TypeInv, TypeOK, StepInv, Tasks
    <2> QED
      BY <1>1, <2>1, <2>2, ThreadTask, DueTick DEF DueInv
  <1>2. CASE (Environment /\ ~Tick) \/ Owner \/ UNCHANGED vars
    <2>1. /\ UNCHANGED <<startup, tod, thread, idx>>
          /\ loop' = loop \/ loop' = "begin"
      BY <1>2 DEF Environment, Exit, Release, Foreign, program, clockVars, taskVars, loopVars,
         thrVars, vars, Owner, Start, AddTasks, AddTask, Stop, Delete, BeginStop, EndStop,
         outside, world, others, locals
    <2> QED
      BY <2>1, DueKept
  <1>3. CASE Spawn
    <2>1. UNCHANGED <<startup, tod>> /\ loop' = "each"
      BY <1>3 DEF Spawn, taskVars, world, clockVars
    <2>2. PICK k \in Slot : thread' = [thread EXCEPT ![<<idx, k>>] =
                               IF loop = "launch" THEN "create" ELSE "kill"]
      BY <1>3 DEF Spawn
    <2>3. ASSUME NEW th \in Thread, thread'[th] = "kill" PROVE IsDue(th[1])
      BY <1>3, <2>2, <2>3 DEF Spawn, DueInv, TypeInv, TypeOK
    <2> QED
      BY <2>1, <2>3 DEF DueInv, IsDue
  <1>4. ASSUME NEW t \in Tasks, EachTask(t) PROVE DueInv'
    <2>1. UNCHANGED <<startup, tod, thread>>
      BY <1>4 DEF EachTask, StartFirst, Revive, AwaitDelay, Restart, NothingToDo, Decide,
         outside, world, clockVars, taskVars, thrVars
    <2>2. CASE Restart(t)
      <3>1. IsDue(t) /\ t = idx /\ idx' = idx
        BY <2>2, DecidedToRestart DEF Restart, AtTask, Decide
      <3> QED
        BY <2>1, <3>1 DEF DueInv, IsDue
    <2>3. CASE ~Restart(t)
      <3>1. loop' # "restart"
        BY <1>4, <2>3 DEF EachTask, StartFirst, Revive, AwaitDelay, NothingToDo, Decide, AtTask
      <3> QED
        BY <2>1, <3>1, DueKept
    <2> QED
      BY <2>2, <2>3
  <1>5. CASE LoopThread /\ ~Spawn /\ ~\E t \in Tasks : EachTask(t)
    <2>1. UNCHANGED <<startup, tod, thread>> /\ loop' # "restart"
      BY <1>5 DEF LoopThread, RunBegins, RunTests, UvReturns, TimerFires, ProtectLocks,
         ProtectUnlocks, ProtectReturns, FinalLock, FinalKill, FinalUnlock, RunEnds, LoopAt,
         outside, world, clockVars, taskVars, thrVars
    <2> QED
      BY <2>1, DueKept
  <1>6. ASSUME NEW th \in Thread, StartNoted(th) PROVE DueInv'
    <2>1. /\ thread[th] = "inputIdle" /\ thread' = [thread EXCEPT ![th] = "dec"]
          /\ startup' = [startup EXCEPT ![th[1]] = 0]
          /\ UNCHANGED <<loop, idx, tod>>
      BY <1>6 DEF StartNoted, ThreadAt, others, loopVars, clockVars
    <2>2. loop = "restart" => idx # th[1]
      <3>1. idx \in Int
        BY TaskAssumption DEF TypeInv, TypeOK
      <3> QED
        BY <2>1, <3>1 DEF LauncherInv, Busy
    <2>3. \A tk \in Thread : thread'[tk] = "kill" => thread[tk] = "kill" /\ tk[1] # th[1]
      BY <2>1 DEF LauncherInv, Busy, TypeInv, TypeOK
    <2> QED
      BY <2>1, <2>2, <2>3, ThreadTask DEF DueInv, IsDue, TypeInv, TypeOK
  <1>7. ASSUME NEW th \in Thread, Launcher(th), ~StartNoted(th) PROVE DueInv'
    <2>1. UNCHANGED <<startup, tod, loop, idx>>
      BY <1>7 DEF Launcher, LauncherKills, LauncherKillFails, ChildCreated, CreateFails,
         DecLoads, DecStores, others, loopVars, clockVars, taskVars
    <2>2. \A tk \in Thread : thread'[tk] = "kill" => thread[tk] = "kill"
      BY <1>7 DEF Launcher, LauncherKills, LauncherKillFails, ChildCreated, CreateFails,
         DecLoads, DecStores, ThreadAt, TypeInv, TypeOK
    <2> QED
      BY <2>1, <2>2, DueKept
  <1> QED
    BY <1>1, <1>2, <1>3, <1>4, <1>5, <1>6, <1>7 DEF Next

(* A restart kills only a child that has run for longer than rsdur or was  *)
(* started before the latest time of day rstime, however late the launcher *)
(* gets to it.                                                             *)
THEOREM KillsAreDue == ~TornUpdates => (Spec => KillsOnlyWhenDue)
  <1> SUFFICES ASSUME ~TornUpdates PROVE Spec => KillsOnlyWhenDue
    OBVIOUS
  <1>1. Init => DueInv
    BY DEF Init, DueInv
  <1>2. CounterInv /\ DueInv /\ [Next]_vars => DueInv'
    BY DueStep
  <1>3. DueInv =>
          [\A t \in Tasks : \A k \in Slot :
             (/\ thread[<<t, k>>] = "kill" /\ thread'[<<t, k>>] = "create"
              /\ pid[t] \in Pid /\ proc[pid[t]] = "run")
             => \/ RsDur[t] > 0 /\ startup[t] > RsDur[t]
                \/ RsTime[t] # NoTime
                   /\ startup[t] > (tod + Day - RsTime[t]) % Day]_thread
    BY DEF DueInv, IsDue, Thread
  <1> QED
    BY <1>1, <1>2, <1>3, CounterInductive, PTL DEF Spec, KillsOnlyWhenDue
-----------------------------------------------------------------------------
(* AddTask drops the option, so only tasks of the file may have a delay.   *)
DelaysFromFile == \A t \in Tasks : t > FileTasks => Delay[t] = 0

(* The child that t has on record is still there, told to end or not.      *)
There(t) == pid[t] \in Pid /\ owner[pid[t]] = t /\ proc[pid[t]] \in {"run", "ending"}

LongGone(t) == ~There(t) /\ gone[t] # NotDown /\ gone[t] + MaxLag >= Delay[t]

(* A process has been started for t and the start has been noted.          *)
Noted(t) == pid[t] # NoPid /\ \A k \in Slot : thread[<<t, k>>] # "inputIdle"

(* gone tells since when a task has no child; when an exit is on record    *)
(* the child has gone, and not later than that, but for the lag of the     *)
(* pass that recorded it; and LongGone holds from Protect's decision to    *)
(* the start of the next child.                                            *)
DelayInv ==
  /\ \A t \in Tasks : pid[t] # NoPid /\ Children(t) = {} => gone[t] # NotDown
  /\ \A t \in Tasks : Noted(t) =>
       /\ shutdown[t] # Negative
       /\ Noticed(shutdown[t]) =>
            ~There(t) /\ (shutdown[t] <= gone[t] + MaxLag \/ gone[t] >= Delay[t])
  /\ loop = "launch" /\ pid[idx] # NoPid => LongGone(idx)
  /\ \A th \in Thread : thread[th] = "create" /\ pid[th[1]] # NoPid => LongGone(th[1])

(* The child on record of one task at most ends or is told to.             *)
SomethingFalls == \E p \in Pid : \E state \in {"ending", "exited"} :
                    proc[p] \in {"run", "ending"} /\ Falls(p, state)

NothingFalls ==
  /\ gone' = gone
  /\ \A t \in Tasks : Children(t)' = Children(t) /\ (pid'[t] # NoPid /\ There(t)' => There(t))

(* A step that starts nothing and decides nothing: at most a process ends, *)
(* a pid is forgotten or an unused field of a new task gets its garbage.   *)
LEMMA DelayKept ==
  ASSUME SafeInv, DelayInv,
         NothingFalls \/ SomethingFalls,
         \A t \in Tasks : pid'[t] # NoPid => pid'[t] = pid[t] /\ shutdown'[t] = shutdown[t],
         loop' = "launch" => loop = "launch" /\ idx' = idx,
         \A th \in Thread :
           /\ thread[th] = "inputIdle" => thread'[th] = "inputIdle"
           /\ thread'[th] = "create" => thread[th] = "create" \/ pid'[th[1]] = NoPid
  PROVE  DelayInv'
  <1> USE DEF SafeInv, CounterInv
  <1>1. \A t \in Tasks : Noted(t)' => Noted(t) /\ shutdown'[t] = shutdown[t]
    BY DEF Noted, Thread
  <1>2. loop' = "launch" => idx' = idx /\ idx \in Tasks
    BY TaskAssumption DEF TypeInv, TypeOK, StepInv, Tasks
  <1>3. CASE NothingFalls
    <2>1. \A t \in Tasks : Noted(t)' => pid'[t] # NoPid
      BY DEF Noted
    <2> QED
      BY <1>1, <1>2, <1>3, <2>1, ThreadTask DEF DelayInv, LongGone, NothingFalls
  <1>4. ASSUME NEW p \in Pid, NEW state \in {"ending", "exited"},
               proc[p] \in {"run", "ending"}, Falls(p, state)
        PROVE  DelayInv'
    <2> DEFINE Fell(t) == owner[p] = t /\ pid[t] = p
    <2>1. /\ proc' = [proc EXCEPT ![p] = state] /\ owner' = owner
          /\ gone' = [t \in Tasks |-> IF Fell(t) THEN 0 ELSE gone[t]]
      BY <1>4 DEF Falls
    <2>2. ASSUME NEW t \in Tasks, ~Fell(t)
          PROVE  /\ gone'[t] = gone[t] /\ Children(t)' = Children(t)
                 /\ pid'[t] # NoPid /\ There(t)' => There(t)
      <3>1. p \notin Children(t)
        BY <2>2, TaskAssumption DEF Children, ChildInv, NoLostChild, Tasks
      <3>2. \A q \in Pid : q # p => proc'[q] = proc[q]
        BY <2>1 DEF TypeInv, TypeOK
      <3>3. Children(t)' = Children(t)
        BY <1>4, <2>1, <3>1, <3>2 DEF Children, TypeInv, TypeOK
      <3> QED
        BY <2>1, <2>2, <3>2, <3>3 DEF There
    <2>3. ASSUME NEW t \in Tasks, Fell(t)
          PROVE  gone'[t] # NotDown /\ There(t)
      BY <1>4, <2>1, <2>3 DEF There, NotDown
    <2> HIDE DEF Fell
    <2>4. \A t \in Tasks : pid'[t] # NoPid /\ Children(t)' = {} => gone'[t] # NotDown
      BY <2>2, <2>3 DEF DelayInv
    <2>5. ASSUME NEW t \in Tasks, Noted(t)'
          PROVE  /\ shutdown'[t] # Negative
                 /\ Noticed(shutdown'[t]) =>
                      /\ ~There(t)'
                      /\ shutdown'[t] <= gone'[t] + MaxLag \/ gone'[t] >= Delay[t]
      <3>1. Noted(t) /\ shutdown'[t] = shutdown[t] /\ pid'[t] # NoPid
        BY <1>1, <2>5 DEF Noted
      <3>2. Noticed(shutdown[t]) => ~Fell(t)
        BY <2>3, <3>1 DEF DelayInv
      <3> QED
        BY <2>2, <3>1, <3>2 DEF DelayInv
    <2>6. loop' = "launch" /\ pid'[idx'] # NoPid => LongGone(idx)'
      <3> SUFFICES ASSUME loop' = "launch", pid'[idx'] # NoPid PROVE LongGone(idx)'
        OBVIOUS
      <3>1. loop = "launch" /\ idx' = idx /\ idx \in Tasks /\ LongGone(idx)
        BY <1>2 DEF DelayInv
      <3>2. ~Fell(idx)
        BY <2>3, <3>1 DEF LongGone
      <3>3. gone'[idx] = gone[idx] /\ ~There(idx)'
        BY <2>2, <3>1, <3>2 DEF LongGone
      <3> QED
        BY <3>1, <3>3 DEF LongGone, There
    <2>7. ASSUME NEW th \in Thread, thread'[th] = "create", pid'[th[1]] # NoPid
          PROVE  LongGone(th[1])'
      <3>1. LongGone(th[1]) /\ th[1] \in Tasks
        BY <2>7, ThreadTask DEF DelayInv
      <3>2. ~Fell(th[1])
        BY <2>3, <3>1 DEF LongGone
      <3> QED
        BY <2>2, <2>7, <3>1, <3>2 DEF LongGone
    <2> QED
      BY <2>4, <2>5, <2>6, <2>7 DEF DelayInv
  <1> QED
    BY <1>3, <1>4 DEF SomethingFalls

(* Both the recorded exit and what it records grow older, until the delay  *)
(* is over.                                                                *)
LEMMA DelayTick ==
  ASSUME SafeInv, DelayInv, Tick
  PROVE  DelayInv'
  <1> USE DEF SafeInv, CounterInv
  <1>1. /\ UNCHANGED <<pid, thread, loop, idx, proc, owner>>
        /\ \A t \in Tasks : /\ Children(t)' = Children(t)
                            /\ Noted(t)' <=> Noted(t)
                            /\ There(t)' <=> There(t)
    BY DEF Tick, procVars, loopVars, thrVars, Children, Noted, There
  <1>2. ASSUME NEW t \in Tasks
        PROVE  /\ gone[t] \in Ages \cup {NotDown} /\ gone[t] \in Int
               /\ gone[t] = NotDown <=> gone'[t] = NotDown
               /\ gone'[t] \in {gone[t], gone[t] + 1}
               /\ gone[t] < Delay[t] /\ gone[t] # NotDown => gone'[t] = gone[t] + 1
               /\ Delay[t] \in Nat
    BY ClockAssumption, TaskAssumption DEF Tick, TypeInv, TypeOK, Ages, NotDown
  <1>3. \A t \in Tasks : LongGone(t) => LongGone(t)'
    BY <1>1, <1>2, ClockAssumption DEF LongGone
  <1>4. ASSUME NEW t \in Tasks, Noted(t)
        PROVE  /\ shutdown'[t] # Negative
               /\ Noticed(shutdown'[t]) =>
                    /\ ~There(t)'
                    /\ shutdown'[t] <= gone'[t] + MaxLag \/ gone'[t] >= Delay[t]
    <2>1. shutdown[t] # Negative /\ shutdown[t] \in Ages \cup {NotDown, Negative}
      BY <1>4 DEF DelayInv, TypeInv, TypeOK
    <2>2. CASE ~Noticed(shutdown[t])
      BY <2>1, <2>2 DEF Tick, Noticed
    <2>3. CASE Noticed(shutdown[t])
      <3>1. /\ shutdown[t] \in Int /\ shutdown[t] >= 0
            /\ shutdown'[t] \in Int /\ shutdown'[t] >= 0 /\ shutdown'[t] <= shutdown[t] + 1
        BY <2>1, <2>3, ClockAssumption DEF Tick, Noticed, Older, Ages, NotDown, Negative
      <3>2. gone[t] # NotDown
        BY <1>4, <2>3 DEF ChildInv, DelayInv, Noted
      <3>3. shutdown[t] <= gone[t] + MaxLag \/ gone[t] >= Delay[t]
        BY <1>4, <2>3 DEF DelayInv
      <3>4. shutdown'[t] <= gone'[t] + MaxLag \/ gone'[t] >= Delay[t]
        BY <1>2, <3>1, <3>2, <3>3, ClockAssumption
      <3>5. ~There(t)'
        BY <1>1, <1>4, <2>3 DEF DelayInv
      <3> QED
        BY <3>1, <3>4, <3>5 DEF Negative
    <2> QED
      BY <2>2, <2>3
  <1>5. loop = "launch" => idx \in Tasks
    BY TaskAssumption DEF TypeInv, TypeOK, StepInv, Tasks
  <1> QED
    BY <1>1, <1>2, <1>3, <1>4, <1>5, ThreadTask DEF DelayInv

(* The child that HasQuit has found dead is not there any more.            *)
LEMMA QuitForGood ==
  ASSUME SafeInv, DelayInv, SafeBuild, NEW t \in Tasks, AtTask(t), pid[t] # NoPid, HasQuit(t)
  PROVE  ~There(t)
  <1> USE DEF SafeInv, CounterInv
  <1>1. CASE Noticed(shutdown[t])
    <2>1. \A k \in Slot : <<t, k>> \notin Busy
      BY TaskAssumption DEF LauncherInv, AtTask, Tasks
    <2>2. Noted(t)
      BY <2>1 DEF Noted, Busy, Thread
    <2> QED
      BY <1>1, <2>2 DEF DelayInv
  <1>2. CASE CannotOpen(pid[t])
    BY <1>2 DEF CannotOpen, SafeBuild, There
  <1> QED
    BY <1>1, <1>2 DEF HasQuit, Find

(* Protect starts a daemon again only when the exit on record, if it waits *)
(* for one, is old enough even with the lag of the pass that decides.      *)
LEMMA DelayRevive ==
  ASSUME SafeInv, DelayInv, SafeBuild, DelaysFromFile, NEW t \in Tasks, Revive(t)
  PROVE  LongGone(t)
  <1> USE DEF SafeInv, CounterInv
  <1>1. AtTask(t) /\ HasQuit(t) /\ pid[t] # NoPid
    BY DEF Revive
  <1>2. gone[t] # NotDown /\ gone[t] \in Nat /\ ~There(t)
    BY <1>1, DecidedToLaunch, QuitForGood DEF DelayInv, TypeInv, TypeOK, Ages
  <1>3. Delay[t] \in Nat /\ MaxLag \in Nat /\ lag \in Nat
    BY ClockAssumption, TaskAssumption DEF TypeInv, TypeOK
  <1>4. CASE DelayOf(t) = 0
    <2>1. Delay[t] = 0
      BY <1>4, TaskAssumption DEF DelayOf, DelaysFromFile, Tasks
    <2> QED
      BY <1>2, <1>3, <2>1 DEF LongGone
  <1>5. CASE DelayOf(t) # 0
    <2>1. Delay[t] = DelayOf(t) /\ Delay[t] > 0
      BY <1>3, <1>5 DEF DelayOf
    <2>2. shutdown[t] # NotDown /\ SinceShutdown(shutdown[t], lag) >= Delay[t]
      BY <2>1 DEF Revive
    <2>3. \A k \in Slot : thread[<<t, k>>] # "inputIdle"
      <3>1. \A k \in Slot : <<t, k>> \notin Busy
        BY <1>1, TaskAssumption DEF LauncherInv, AtTask, Tasks
      <3> QED
        BY <3>1 DEF Busy, Thread
    <2>4. shutdown[t] # Negative /\ shutdown[t] \in Nat
      BY <1>1, <2>2, <2>3 DEF DelayInv, Noted, TypeInv, TypeOK, Ages
    <2>5. shutdown[t] <= gone[t] + MaxLag \/ gone[t] >= Delay[t]
      BY <1>1, <2>3, <2>4 DEF DelayInv, Noted, Noticed
    <2> QED
      BY <1>2, <1>3, <2>2, <2>4, <2>5 DEF SinceShutdown, Since, LongGone
  <1> QED
    BY <1>4, <1>5

LEMMA DelayEachTask ==
  ASSUME SafeInv, DelayInv, SafeBuild, DelaysFromFile, NEW t \in Tasks, EachTask(t)
  PROVE  DelayInv'
  <1> USE DEF SafeInv, CounterInv
  <1>1. /\ UNCHANGED <<pid, thread, proc, owner, gone>>
        /\ \A s \in Tasks : /\ Children(s)' = Children(s)
                            /\ Noted(s)' <=> Noted(s)
                            /\ There(s)' <=> There(s)
    BY DEF EachTask, StartFirst, Revive, AwaitDelay, Restart, NothingToDo, Decide, outside,
       world, procVars, histVars, taskVars, thrVars, Children, Noted, There
  <1>2. AtTask(t) /\ t = idx /\ (AwaitDelay(t) \/ shutdown' = shutdown)
    BY DEF EachTask, StartFirst, Revive, Restart, NothingToDo, AwaitDelay, Decide, outside,
       taskVars, AtTask
  <1>3. \A s \in Tasks : LongGone(s)' <=> LongGone(s)
    BY <1>1 DEF LongGone
  <1>4. CASE StartFirst(t) \/ Revive(t)
    <2>1. idx' = idx /\ (pid[t] # NoPid => LongGone(t))
      BY <1>4, DelayRevive DEF StartFirst, Revive, Decide
    <2>2. shutdown' = shutdown
      BY <1>4 DEF StartFirst, Revive, Decide, outside, taskVars
    <2> QED
      BY <1>1, <1>2, <1>3, <2>1, <2>2, ThreadTask DEF DelayInv
  <1>5. CASE Restart(t) \/ NothingToDo(t)
    <2>1. loop' # "launch" /\ shutdown' = shutdown
      BY <1>5 DEF Restart, NothingToDo, AtTask, Decide, outside, taskVars
    <2> QED
      BY <1>1, <2>1, DelayKept DEF NothingFalls
  <1>6. CASE AwaitDelay(t)
    <2>1. loop' # "launch" /\ pid[t] # NoPid /\ HasQuit(t)
      BY <1>6 DEF AwaitDelay, AtTask
    <2>2. gone[t] # NotDown /\ gone[t] \in Nat /\ ~There(t)
      BY <1>2, <2>1, DecidedToLaunch, QuitForGood DEF DelayInv, TypeInv, TypeOK, Ages
    <2>3. shutdown' = shutdown \/ shutdown' = [shutdown EXCEPT ![t] = lag]
      BY <1>6 DEF AwaitDelay
    <2>4. lag \in 0..MaxLag /\ MaxLag \in Nat
      BY ClockAssumption DEF TypeInv, TypeOK
    <2>5. ASSUME NEW s \in Tasks, Noted(s)
          PROVE  /\ shutdown'[s] # Negative
                 /\ Noticed(shutdown'[s]) =>
                      ~There(s) /\ (shutdown'[s] <= gone[s] + MaxLag \/ gone[s] >= Delay[s])
      BY <2>2, <2>3, <2>4, <2>5 DEF DelayInv, TypeInv, TypeOK, Negative
    <2> QED
      BY <1>1, <1>3, <2>1, <2>5, ThreadTask DEF DelayInv
  <1> QED
    BY <1>4, <1>5, <1>6 DEF EachTask

LEMMA DelaySpawn ==
  ASSUME SafeInv, DelayInv, Spawn
  PROVE  DelayInv'
  <1> USE DEF SafeInv, CounterInv
  <1>1. /\ UNCHANGED <<pid, proc, owner, gone, shutdown>> /\ loop' = "each"
        /\ \A s \in Tasks : /\ Children(s)' = Children(s)
                            /\ There(s)' <=> There(s)
                            /\ LongGone(s)' <=> LongGone(s)
    BY DEF Spawn, world, procVars, histVars, taskVars, Children, There, LongGone
  <1>2. PICK k \in Slot : thread' = [thread EXCEPT ![<<idx, k>>] =
                             IF loop = "launch" THEN "create" ELSE "kill"]
    BY DEF Spawn
  <1>3. <<idx, k>> \in Thread
    BY TaskAssumption DEF Spawn, TypeInv, TypeOK, StepInv, Thread, Tasks
  <1>4. thread[<<idx, k>>] # "inputIdle"
    <2>1. idx \in Int
      BY TaskAssumption DEF TypeInv, TypeOK
    <2>2. <<idx, k>> \notin Busy
      BY <2>1 DEF Spawn, LauncherInv
    <2> QED
      BY <1>3, <2>2 DEF Busy
  <1>5. \A s \in Tasks : Noted(s)' => Noted(s)
    BY <1>1, <1>2, <1>3, <1>4 DEF Noted, Thread, TypeInv, TypeOK
  <1>6. ASSUME NEW th \in Thread, thread'[th] = "create", pid[th[1]] # NoPid
        PROVE  LongGone(th[1])
    BY <1>2, <1>6 DEF Spawn, DelayInv, TypeInv, TypeOK
  <1> QED
    BY <1>1, <1>5, <1>6, ThreadTask DEF DelayInv

(* The new child has no exit on record once its start has been noted.      *)
LEMMA DelayCreated ==
  ASSUME SafeInv, DelayInv, NEW th \in Thread, ChildCreated(th)
  PROVE  DelayInv'
  <1> USE DEF SafeInv, CounterInv
  <1> DEFINE t == th[1]
  <1>1. t \in Tasks /\ thread[th] = "create" /\ thread' = [thread EXCEPT ![th] = "inputIdle"]
        /\ UNCHANGED <<loop, idx, shutdown>> /\ gone' = [gone EXCEPT ![t] = NotDown]
    BY ThreadTask DEF ChildCreated, ThreadAt, others, loopVars
  <1>2. PICK p \in Pid : /\ proc[p] = "free" /\ proc' = [proc EXCEPT ![p] = "run"]
                         /\ owner' = [owner EXCEPT ![p] = t]
                         /\ pid' = [pid EXCEPT ![t] = p]
    BY DEF ChildCreated, CanGet
  <1>3. p \in Children(t)'
    BY <1>2 DEF Children, TypeInv, TypeOK
  <1>4. ASSUME NEW s \in Tasks, s # t
        PROVE  /\ Children(s)' = Children(s) /\ pid'[s] = pid[s] /\ gone'[s] = gone[s]
               /\ Noted(s)' => Noted(s)
               /\ There(s)' => There(s)
    <2>1. Children(s)' = Children(s)
      BY <1>1, <1>2, <1>4 DEF Children, TypeInv, TypeOK
    <2>2. pid'[s] = pid[s] /\ gone'[s] = gone[s]
      BY <1>1, <1>2, <1>4 DEF TypeInv, TypeOK
    <2>3. \A k \in Slot : thread'[<<s, k>>] = thread[<<s, k>>]
      BY <1>1, <1>4 DEF Thread, TypeInv, TypeOK
    <2>4. There(s)' => There(s)
      <3>1. owner'[p] = t /\ \A q \in Pid : q # p => proc'[q] = proc[q] /\ owner'[q] = owner[q]
        BY <1>2 DEF TypeInv, TypeOK
      <3> QED
        BY <1>4, <2>2, <3>1 DEF There
    <2> QED
      BY <2>1, <2>2, <2>3, <2>4 DEF Noted
  <1>5. ~Noted(t)'
    <2>1. \E k \in Slot : th = <<t, k>>
      BY DEF Thread
    <2> QED
      BY <1>1, <2>1 DEF Noted, TypeInv, TypeOK
  <1>6. loop = "launch" => idx \in Tasks /\ idx # t
    <2>1. idx \in Int /\ (loop = "launch" => idx \in Tasks)
      BY TaskAssumption DEF TypeInv, TypeOK, StepInv, Tasks
    <2> QED
      BY <1>1, <2>1 DEF LauncherInv, Busy
  <1>7. \A tk \in Thread : thread'[tk] = "create" => thread[tk] = "create" /\ tk[1] # t
    BY <1>1 DEF LauncherInv, Busy, TypeInv, TypeOK
  <1> HIDE DEF t
  <1>8. \A s \in Tasks : pid'[s] # NoPid /\ Children(s)' = {} => gone'[s] # NotDown
    BY <1>3, <1>4 DEF DelayInv
  <1>9. \A s \in Tasks : Noted(s)' =>
          /\ shutdown'[s] # Negative
          /\ Noticed(shutdown'[s]) =>
               ~There(s)' /\ (shutdown'[s] <= gone'[s] + MaxLag \/ gone'[s] >= Delay[s])
    BY <1>1, <1>4, <1>5 DEF DelayInv
  <1>10. loop' = "launch" /\ pid'[idx'] # NoPid => LongGone(idx)'
    BY <1>1, <1>4, <1>6 DEF DelayInv, LongGone
  <1>11. \A tk \in Thread : thread'[tk] = "create" /\ pid'[tk[1]] # NoPid => LongGone(tk[1])'
    BY <1>4, <1>7, ThreadTask DEF DelayInv, LongGone
  <1> QED
    BY <1>8, <1>9, <1>10, <1>11 DEF DelayInv

LEMMA DelayLauncher ==
  ASSUME SafeInv, DelayInv, NEW th \in Thread, Launcher(th)
  PROVE  DelayInv'
  <1> USE DEF SafeInv, CounterInv
  <1>1. CASE LauncherKills(th)
    <2>1. /\ UNCHANGED <<shutdown, loop, idx>> /\ pid' = [pid EXCEPT ![th[1]] = NoPid]
          /\ thread[th] = "kill" /\ thread' = [thread EXCEPT ![th] = "create"]
          /\ UNCHANGED <<procVars, gone>> \/ SomethingFalls
      BY <1>1 DEF LauncherKills, ThreadAt, others, loopVars, KillReturns, SomethingFalls
    <2>3. \A t \in Tasks : pid'[t] # NoPid => pid'[t] = pid[t]
      BY <2>1 DEF TypeInv, TypeOK
    <2>2. UNCHANGED <<procVars, gone>> => NothingFalls
      BY <2>3 DEF procVars, Children, There, NothingFalls
    <2>4. \A tk \in Thread :
            /\ thread[tk] = "inputIdle" => thread'[tk] = "inputIdle"
            /\ thread'[tk] = "create" => thread[tk] = "create" \/ pid'[tk[1]] = NoPid
      BY <2>1, ThreadTask DEF TypeInv, TypeOK
    <2> QED
      BY <2>1, <2>2, <2>3, <2>4, DelayKept
  <1>2. CASE LauncherKillFails(th) \/ CreateFails(th) \/ DecLoads(th) \/ DecStores(th)
    <2>1. UNCHANGED <<shutdown, loop, idx, pid, proc, owner, gone>>
      BY <1>2 DEF LauncherKillFails, KillFails, CreateFails, DecLoads, DecStores, others, loopVars,
         taskVars, histVars, procVars
    <2>2. \A tk \in Thread :
            /\ thread[tk] = "inputIdle" => thread'[tk] = "inputIdle"
            /\ thread'[tk] = "create" => thread[tk] = "create"
      BY <1>2 DEF LauncherKillFails, CreateFails, DecLoads, DecStores, ThreadAt, TypeInv, TypeOK
    <2>3. NothingFalls
      BY <2>1 DEF Children, There, NothingFalls
    <2> QED
      BY <2>1, <2>2, <2>3, DelayKept
  <1>3. CASE StartNoted(th)
    <2>1. /\ thread[th] = "inputIdle" /\ thread' = [thread EXCEPT ![th] = "dec"]
          /\ shutdown' = [shutdown EXCEPT ![th[1]] = NotDown]
          /\ UNCHANGED <<loop, idx, pid, proc, owner, gone>>
      BY <1>3 DEF StartNoted, ThreadAt, others, loopVars, histVars, procVars
    <2>2. \A t \in Tasks : /\ Children(t)' = Children(t)
                           /\ There(t)' <=> There(t)
                           /\ LongGone(t)' <=> LongGone(t)
      BY <2>1 DEF Children, LongGone, There
    <2>3. ASSUME NEW t \in Tasks, Noted(t)'
          PROVE  /\ shutdown'[t] # Negative
                 /\ Noticed(shutdown'[t]) =>
                      /\ ~There(t)'
                      /\ shutdown'[t] <= gone'[t] + MaxLag \/ gone'[t] >= Delay[t]
      <3>1. CASE t = th[1]
        BY <2>1, <3>1 DEF Noticed, NotDown, Negative, TypeInv, TypeOK
      <3>2. CASE t # th[1]
        <4>1. Noted(t) /\ shutdown'[t] = shutdown[t]
          BY <2>1, <2>3, <3>2 DEF Noted, Thread, TypeInv, TypeOK
        <4> QED
          BY <2>1, <2>2, <4>1 DEF DelayInv
      <3> QED
        BY <3>1, <3>2
    <2>4. \A tk \in Thread : thread'[tk] = "create" => thread[tk] = "create"
      BY <2>1 DEF TypeInv, TypeOK
    <2>5. loop = "launch" => idx \in Tasks
      BY TaskAssumption DEF TypeInv, TypeOK, StepInv, Tasks
    <2> QED
      BY <2>1, <2>2, <2>3, <2>4, <2>5, ThreadTask DEF DelayInv
  <1> QED
    BY <1>1, <1>2, <1>3, DelayCreated DEF Launcher

LEMMA DelayOutside ==
  ASSUME SafeInv, DelayInv, (Environment /\ ~Tick) \/ Owner \/ UNCHANGED vars
  PROVE  DelayInv'
  <1> USE DEF SafeInv, CounterInv
  <1>1. UNCHANGED <<pid, thread, idx>> /\ (loop' = loop \/ loop' = "begin")
    BY DEF Environment, Exit, Release, Foreign, program, taskVars, loopVars, thrVars, vars,
       Owner, Start, AddTasks, AddTask, Stop, Delete, BeginStop, EndStop, outside, others,
       locals
  <1>2. NothingFalls \/ SomethingFalls
    <2> USE DEF NothingFalls, There
    <2>1. ASSUME NEW p \in Pid, Exit(p) PROVE SomethingFalls
      BY <2>1 DEF Exit, SomethingFalls
    <2>2. ASSUME NEW p \in Pid, Release(p) PROVE NothingFalls
      BY <1>1, <2>2, TaskAssumption DEF Release, histVars, Children, TypeInv, TypeOK, Tasks
    <2>3. ASSUME NEW p \in Pid, Foreign(p) PROVE NothingFalls
      BY <1>1, <2>3, TaskAssumption DEF Foreign, histVars, Children, ChildInv, TypeInv, TypeOK,
         Tasks
    <2>4. CASE Owner \/ UNCHANGED vars
      BY <1>1, <2>4 DEF Owner, Start, AddTasks, AddTask, Stop, Delete, BeginStop, EndStop, outside,
         world, others, procVars, histVars, vars, Children
    <2> QED
      BY <2>1, <2>2, <2>3, <2>4 DEF Environment
  <1>3. \A t \in Tasks : pid[t] # NoPid => shutdown'[t] = shutdown[t]
    <2>1. CASE AddTasks \/ AddTask
      <3> SUFFICES ASSUME NEW t \in Tasks, pid[t] # NoPid PROVE shutdown'[t] = shutdown[t]
        OBVIOUS
      <3>1. t <= size /\ size \in Nat /\ t \in Nat /\ t >= 1
        BY TaskAssumption DEF ChildInv, TypeInv, TypeOK, Tasks
      <3>2. t # size + 1 /\ size # 0
        BY <3>1
      <3> QED
        BY <2>1, <3>2 DEF AddTasks, AddTask, NewTasks
    <2>2. CASE ~AddTasks /\ ~AddTask
      BY <2>2 DEF Environment, Exit, Release, Foreign, program, taskVars, vars, Owner, Start,
         Stop, Delete, BeginStop, EndStop, outside
    <2> QED
      BY <2>1, <2>2
  <1> QED
    BY <1>1, <1>2, <1>3, DelayKept

LEMMA DelayLoop ==
  ASSUME SafeInv, DelayInv, SafeBuild, DelaysFromFile, LoopThread
  PROVE  DelayInv'
  <1> USE DEF SafeInv, CounterInv
  <1>1. CASE FinalKill
    <2>1. /\ UNCHANGED <<pid, shutdown, thread>> /\ loop' # "launch"
          /\ UNCHANGED <<procVars, gone>> \/ SomethingFalls
      BY <1>1 DEF FinalKill, KillReturns, KillFails, SomethingFalls, taskVars, thrVars, histVars
    <2>2. UNCHANGED <<procVars, gone>> => NothingFalls
      BY <2>1 DEF procVars, Children, There, NothingFalls
    <2> QED
      BY <2>1, <2>2, DelayKept
  <1>2. CASE ~FinalKill /\ ~Spawn /\ ~\E t \in Tasks : EachTask(t)
    <2>1. UNCHANGED <<pid, shutdown, thread, proc, owner, gone>> /\ loop' # "launch"
      BY <1>2 DEF LoopThread, RunBegins, RunTests, UvReturns, TimerFires, ProtectLocks,
         ProtectUnlocks, ProtectReturns, FinalLock, FinalUnlock, RunEnds, LoopAt,
         outside, world, procVars, histVars, taskVars, thrVars
    <2>2. NothingFalls
      BY <2>1 DEF Children, There, NothingFalls
    <2> QED
      BY <2>1, <2>2, DelayKept
  <1> QED
    BY <1>1, <1>2, DelaySpawn, DelayEachTask DEF LoopThread

(* A daemon found dead is started again only when it has been dead for its *)
(* delay, but for the lag of the pass that found it dead: in builds whose  *)
(* counter is not torn, on systems that open every process, and for tasks  *)
(* that have their delay from the file.                                    *)
THEOREM DelaysKept == SafeBuild /\ DelaysFromFile => (Spec => RespectsDelay)
  <1> SUFFICES ASSUME SafeBuild, DelaysFromFile PROVE Spec => RespectsDelay
    OBVIOUS
  <1>1. Init => DelayInv
    BY DEF Init, DelayInv, Noted
  <1>2. SafeInv /\ DelayInv /\ [Next]_vars => DelayInv'
    BY DelayTick, DelayOutside, DelayLoop, DelayLauncher DEF Next
  <1>3. SafeInv /\ DelayInv /\ [Next]_vars =>
          [\A t \in Tasks :
             pid[t] # NoPid /\ pid'[t] \notin {NoPid, pid[t]} =>
               gone[t] # NotDown /\ gone[t] + MaxLag >= Delay[t]]_pid
    <2> SUFFICES ASSUME SafeInv, DelayInv, [Next]_vars, NEW t \in Tasks,
                        pid[t] # NoPid, pid'[t] \notin {NoPid, pid[t]}
                 PROVE  gone[t] # NotDown /\ gone[t] + MaxLag >= Delay[t]
      OBVIOUS
    <2>1. PICK th \in Thread : LauncherKills(th) \/ ChildCreated(th)
      BY DEF Next, Environment, Exit, Release, Foreign, Tick, program, taskVars, vars, Owner,
         Start, AddTasks, AddTask, Stop, Delete, BeginStop, EndStop, outside, LoopThread,
         RunBegins, RunTests, UvReturns, TimerFires, ProtectLocks, ProtectUnlocks,
         ProtectReturns, EachTask, StartFirst, Revive, AwaitDelay, Restart, NothingToDo, Decide,
         Spawn, FinalLock, FinalKill, FinalUnlock, RunEnds, Launcher, LauncherKillFails,
         CreateFails, StartNoted, DecLoads, DecStores
    <2>2. th[1] = t /\ thread[th] = "create"
      BY <2>1, ThreadTask DEF LauncherKills, ChildCreated, ThreadAt, SafeInv, CounterInv,
         TypeInv, TypeOK
    <2> QED
      BY <2>2 DEF DelayInv, LongGone
  <1> QED
    BY <1>1, <1>2, <1>3, SafeInductive, PTL DEF Spec, RespectsDelay
=============================================================================
