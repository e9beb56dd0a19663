----------------------------- MODULE HostProofs -----------------------------
(***************************************************************************)
(* The host uses the process manager as its owner may, so the manager's    *)
(* invariants hold under it; and when the service has reported that it is  *)
(* stopped, or the console program has deleted the manager and ended,      *)
(* every child has been told to end and none will be started.              *)
(***************************************************************************)
EXTENDS Host, ProcessMgrChildProofs

(* Every step of the host does one of the owner's operations, a step of    *)
(* another thread of the manager, or nothing to the manager.               *)
LEMMA HostUsesManager == HostNext => Next \/ UNCHANGED vars
<1> SUFFICES ASSUME HostNext PROVE Next \/ UNCHANGED vars
  OBVIOUS
<1>1. CASE ServiceMain \/ Creates \/ UsesDeleted
  BY <1>1 DEF ServiceMain, Registers, ReportsRunning, LoadsTasks, StartsManager, PollsStatus,
     ManagerStopped, ReportsStopped, ServiceExits, Creates, UsesDeleted, Next, Owner
<1>2. CASE Handlers
  BY <1>2 DEF Handlers, HandlerReports, CtrlEvent, Deleted, CutShort, ConsoleExits, Next, Owner
<1>3. CASE Admin \/ Scm
  BY <1>3 DEF Admin, Install, CreatesService, StartsService, Uninstall, UninstallStops,
     UninstallDeletes, Scm, ScmStarts, UserStops, ScmRemoves
<1>4. CASE Environment \/ LoopThread \/ \E th \in Thread : Launcher(th)
  BY <1>4 DEF Next
<1>5. QED
  BY <1>1, <1>2, <1>3, <1>4 DEF HostNext

LEMMA HostRefinesOwner == HostSpec => Spec
<1>1. HostInit => Init
  BY DEF HostInit
<1>2. [HostNext]_allVars => [Next]_vars
  BY HostUsesManager DEF allVars
<1>3. QED
  BY <1>1, <1>2, PTL DEF HostSpec, Spec

-----------------------------------------------------------------------------
LEMMA HostTypeStep ==
  ASSUME HostTypeOK, [HostNext]_allVars
  PROVE  HostTypeOK'
<1>1. CASE UNCHANGED hostVars
  BY <1>1 DEF HostTypeOK, hostVars
<1>2. CASE ServiceMain \/ Creates \/ UsesDeleted
  BY <1>2 DEF HostTypeOK, ServiceMain, Registers, ReportsRunning, LoadsTasks, StartsManager,
     PollsStatus, ManagerStopped, ReportsStopped, ServiceExits, Creates, UsesDeleted, At
<1>3. CASE Handlers
  BY <1>3 DEF HostTypeOK, Handlers, HandlerReports, CtrlEvent, Deleted, CutShort, ConsoleExits
<1>4. CASE Admin
  BY <1>4 DEF HostTypeOK, Admin, Install, CreatesService, StartsService, Uninstall,
     UninstallStops, UninstallDeletes, AdminAt, Launches, At, HandlerWrites
<1>5. CASE Scm
  BY <1>5 DEF HostTypeOK, Scm, ScmStarts, UserStops, ScmRemoves, Launches, At, HandlerWrites
<1>6. QED
  BY <1>1, <1>2, <1>3, <1>4, <1>5 DEF HostNext, allVars

(* The host's own variables have their types.                              *)
THEOREM HostTypeCorrect == HostSpec => []HostTypeOK
<1>1. HostInit => HostTypeOK
  BY DEF HostInit, HostTypeOK
<1>2. HostTypeOK /\ [HostNext]_allVars => HostTypeOK'
  BY HostTypeStep
<1>3. QED
  BY <1>1, <1>2, PTL DEF HostSpec

-----------------------------------------------------------------------------
(* Where the host's threads are when.                                      *)
NotReported == {"off", "register", "report", "failed"}

PlaceInv ==
  /\ mode = "console" =>
       /\ main \in {"creat", "addTasks", "start", "sleep", "exited", "undefined"}
       /\ handler \in {"idle", "delete", "return"} /\ reported = "none"
  /\ mode = "service" =>
       /\ main \notin {"creat", "sleep"} /\ handler \in {"idle", "report"}
       /\ main \in NotReported => reported # "RUNNING" /\ handler = "idle"
       /\ status = "STOPPED" => main \in NotReported \cup {"done", "exited"}
       /\ reported = "STOPPED" => main \in {"done", "exited"}

LEMMA PlaceStep ==
  ASSUME HostTypeOK, PlaceInv, [HostNext]_allVars
  PROVE  PlaceInv'
<1> USE DEF HostTypeOK, PlaceInv, NotReported
<1>1. CASE UNCHANGED hostVars
  BY <1>1 DEF hostVars
<1>2. CASE ServiceMain \/ Creates \/ UsesDeleted
  <2>1. CASE Registers \/ ReportsRunning
    BY <2>1 DEF Registers, ReportsRunning, At
  <2>2. CASE LoadsTasks \/ StartsManager
    BY <2>2 DEF LoadsTasks, StartsManager, At
  <2>3. CASE PollsStatus \/ ManagerStopped
    BY <2>3 DEF PollsStatus, ManagerStopped, At
  <2>4. CASE ReportsStopped \/ ServiceExits \/ Creates \/ UsesDeleted
    BY <2>4 DEF ReportsStopped, ServiceExits, Creates, UsesDeleted, At
  <2>5. QED
    BY <1>2, <2>1, <2>2, <2>3, <2>4 DEF ServiceMain
<1>3. CASE Handlers
  BY <1>3 DEF Handlers, HandlerReports, CtrlEvent, Deleted, CutShort, ConsoleExits, Alive
<1>4. CASE Admin
  BY <1>4 DEF Admin, Install, CreatesService, StartsService, Uninstall,
     UninstallStops, UninstallDeletes, AdminAt, Launches, At, HandlerWrites, CanStop, Alive
<1>5. CASE Scm
  BY <1>5 DEF Scm, ScmStarts, UserStops, ScmRemoves, Launches, At, HandlerWrites, CanStop, Alive
<1>6. QED
  BY <1>1, <1>2, <1>3, <1>4, <1>5 DEF HostNext, allVars
-----------------------------------------------------------------------------
(* The loop thread has nothing to do but to end, and all that runs has     *)
(* withstood it.                                                           *)
Quiet == loop \in {"none", "begin", "while", "killLock", "kill", "exit"}
NoChildren == \A p \in Pid : ~IsChild(p)
AllSpared == \A p \in Pid : IsChild(p) => p \in spared
Over == ~m_bStart /\ Quiet /\ AllSpared

ServiceOver == mode = "service" /\ main \in {"stopped", "done", "exited"}

Starting == main \in NotReported \cup {"creat", "addTasks", "start"}

ManagerInv ==
  /\ m_bRunning <=> loop \notin {"none", "begin"}
  /\ Starting => loop = "none" /\ NoChildren
  /\ loop = "begin" => NoChildren
  /\ main = "stop" \/ handler = "delete" => ~m_bStart
  /\ handler = "delete" => ctl = "deleting"
  /\ ServiceOver \/ ctl = "dead" => Over

(* While the loop thread has begun or is about to end no child appears.    *)
LEMMA QuietEnvironment ==
  ASSUME SafeInv, Environment
  PROVE  /\ UNCHANGED <<loop, m_bStart, m_bRunning, ctl, spared>>
         /\ \A p \in Pid : IsChild(p)' => IsChild(p)
<1>1. UNCHANGED <<loop, m_bStart, m_bRunning, ctl, spared>>
  BY DEF Environment, Exit, Release, Foreign, Tick, program, loopVars, flagVars, histVars
<1>2. ASSUME NEW q \in Pid, Exit(q) \/ Release(q) \/ Foreign(q), NEW p \in Pid, IsChild(p)'
      PROVE  IsChild(p)
  BY <1>2 DEF Exit, Falls, Release, Foreign, IsChild, SafeInv, CounterInv, ChildInv, TypeInv, TypeOK
<1>3. Tick => UNCHANGED procVars
  BY DEF Tick
<1>4. QED
  BY <1>1, <1>2, <1>3 DEF Environment, IsChild, procVars

LEMMA QuietLauncher ==
  ASSUME SafeInv, NEW th \in Thread, Launcher(th)
  PROVE  ~Quiet /\ UNCHANGED <<loop, m_bStart, m_bRunning, ctl>>
<1>1. thread[th] # "idle" /\ UNCHANGED <<loop, m_bStart, m_bRunning, ctl>>
  BY DEF Launcher, LauncherKills, LauncherKillFails, ChildCreated, CreateFails, StartNoted,
     DecLoads, DecStores, ThreadAt, others, loopVars, flagVars
<1>2. QED
  BY <1>1 DEF SafeInv, CounterInv, LauncherInv, CounterExact, Busy, Quiet

LEMMA QuietLoop ==
  ASSUME SafeInv, LoopThread
  PROVE  /\ m_bStart' = m_bStart /\ ctl' = ctl
         /\ (m_bRunning <=> loop \notin {"none", "begin"})
              => (m_bRunning' <=> loop' \notin {"none", "begin"})
         /\ loop' # "begin" /\ loop # "none"
         /\ Quiet /\ ~m_bStart =>
              /\ Quiet' /\ spared \subseteq spared'
              /\ \A p \in Pid : IsChild(p)' => IsChild(p)
<1>1. CASE FinalKill
  <2>1. /\ UNCHANGED <<m_bStart, m_bRunning, ctl>> /\ loop = "kill" /\ loop' = "kill"
        /\ spared \subseteq spared'
    BY <1>1 DEF FinalKill, flagVars, KillReturns, KillFails, histVars
  <2>2. \A p \in Pid : IsChild(p)' => IsChild(p)
    BY <1>1, KillShrinks DEF FinalKill, procVars, IsChild, SafeInv, CounterInv
  <2>3. QED
    BY <2>1, <2>2 DEF Quiet
<1>2. CASE RunBegins \/ RunTests \/ FinalLock \/ FinalUnlock \/ RunEnds
  BY <1>2 DEF RunBegins, RunTests, FinalLock, FinalUnlock, RunEnds, LoopAt, outside, world,
     procVars, histVars, flagVars, locals, Quiet, IsChild
<1>3. CASE \/ UvReturns \/ TimerFires \/ ProtectLocks \/ ProtectUnlocks \/ ProtectReturns
           \/ \E t \in Tasks : EachTask(t)
           \/ Spawn
  <2>1. UNCHANGED <<m_bStart, m_bRunning, ctl>>
    BY <1>3 DEF UvReturns, TimerFires, ProtectLocks, ProtectUnlocks, ProtectReturns, EachTask,
       StartFirst, Revive, AwaitDelay, Restart, NothingToDo, Decide, Spawn, flagVars
  <2>2. ~Quiet /\ loop' \notin {"none", "begin"}
    BY <1>3 DEF UvReturns, TimerFires, ProtectLocks, ProtectUnlocks, ProtectReturns, EachTask,
       StartFirst, Revive, AwaitDelay, Restart, NothingToDo, Decide, Spawn, AtTask, LoopAt, Quiet
  <2>3. QED
    BY <2>1, <2>2 DEF Quiet
<1>4. QED
  BY <1>1, <1>2, <1>3 DEF LoopThread

(* A step of the manager's own threads, or of the world around them.       *)
LEMMA ManagerOwnStep ==
  ASSUME SafeInv, ManagerInv, UNCHANGED hostVars,
         Environment \/ LoopThread \/ \E th \in Thread : Launcher(th)
  PROVE  ManagerInv'
<1> USE DEF ManagerInv, NoChildren, AllSpared, Over, ServiceOver, Starting, hostVars
<1>1. CASE Environment
  BY <1>1, QuietEnvironment DEF Quiet
<1>2. ASSUME NEW th \in Thread, Launcher(th) PROVE ManagerInv'
  BY <1>2, QuietLauncher DEF Quiet
<1>3. CASE LoopThread
  BY <1>3, QuietLoop
<1>4. QED
  BY <1>1, <1>2, <1>3

LEMMA ManagerStep ==
  ASSUME SafeInv, OrphanInv, HostTypeOK, PlaceInv, ManagerInv, [HostNext]_allVars
  PROVE  ManagerInv'
<1> USE DEF ManagerInv, NoChildren, AllSpared, Over, ServiceOver, Starting, NotReported, Quiet
<1>1. CASE UNCHANGED allVars
  BY <1>1 DEF allVars, vars, hostVars, flagVars, loopVars, histVars, procVars, IsChild
<1>2. ASSUME UNCHANGED vars,
             Starting' => Starting,
             main' = "stop" => main = "stop", handler' = "delete" => handler = "delete",
             ServiceOver' => ServiceOver
      PROVE  ManagerInv'
  BY <1>2 DEF vars, flagVars, loopVars, histVars, procVars, IsChild
<1>3. CASE Registers \/ ReportsRunning \/ ReportsStopped \/ ServiceExits \/ Creates \/ HandlerReports
  BY <1>3, <1>2 DEF Registers, ReportsRunning, ReportsStopped, ServiceExits, Creates,
     HandlerReports, At
<1>4. CASE CutShort \/ ConsoleExits \/ UsesDeleted
  BY <1>4, <1>2 DEF CutShort, ConsoleExits, UsesDeleted, PlaceInv
<1>5. CASE Admin \/ Scm
  <2>1. UNCHANGED vars
    BY <1>5 DEF Admin, Install, CreatesService, StartsService, Uninstall, UninstallStops,
       UninstallDeletes, Scm, ScmStarts, UserStops, ScmRemoves
  <2>2. /\ main' = main \/ (main = "off" /\ main' = "register")
        /\ mode' = mode
        /\ handler' \in {handler, "report"}
    BY <1>5 DEF Admin, Install, CreatesService, StartsService, Uninstall, UninstallStops,
       UninstallDeletes, Scm, ScmStarts, UserStops, ScmRemoves, Launches, At, HandlerWrites
  <2>3. QED
    BY <2>1, <2>2, <1>2
<1>6. CASE LoadsTasks
  <2>1. /\ UNCHANGED <<loop, m_bStart, m_bRunning, ctl, spared, proc, owner, handler>>
        /\ main = "addTasks" /\ main' = "start"
    BY <1>6 DEF LoadsTasks, AddTasks, others, loopVars, flagVars, procVars, histVars, vars, At
  <2>2. QED
    BY <2>1 DEF IsChild
<1>7. CASE StartsManager
  <2>1. /\ loop' = "begin" /\ UNCHANGED <<m_bRunning, proc, owner, handler>> /\ loop = "none"
        /\ main = "start" /\ main' \in {"poll", "sleep"} /\ ctl = "idle" /\ ctl' = "idle"
    BY <1>7 DEF StartsManager, Start, procVars, At
  <2>2. QED
    BY <2>1 DEF IsChild
<1>8. CASE PollsStatus \/ CtrlEvent
  <2>1. \/ /\ m_bStart' = FALSE /\ UNCHANGED <<loop, m_bRunning, spared, proc, owner>>
           /\ ctl = "idle"
           /\ \/ main = "poll" /\ main' = "stop" /\ handler' = handler /\ ctl' = "stopping"
              \/ main' = main /\ handler' = "delete" /\ ctl' = "deleting"
        \/ UNCHANGED <<vars, main>> /\ handler' = "return"
    BY <1>8 DEF PollsStatus, CtrlEvent, Stop, Delete, BeginStop, loopVars, outside, world,
       procVars, histVars, At
  <2>2. mode' = mode
    BY <1>8 DEF PollsStatus, CtrlEvent
  <2>3. CASE UNCHANGED <<vars, main>> /\ handler' = "return"
    BY <2>2, <2>3, <1>2
  <2>4. handler = "delete" => ctl # "idle"
    OBVIOUS
  <2>5. QED
    BY <2>1, <2>2, <2>3, <2>4 DEF IsChild, PlaceInv
<1>9. CASE ManagerStopped \/ Deleted
  <2>1. /\ ~m_bRunning /\ UNCHANGED <<loop, m_bStart, m_bRunning, spared, proc, owner, mode>>
        /\ ctl' \in {"idle", "dead"}
        /\ \/ main = "stop" /\ main' = "stopped" /\ handler' = handler
           \/ handler = "delete" /\ handler' = "return" /\ main' = main
    BY <1>9 DEF ManagerStopped, Deleted, EndStop, loopVars, outside, world, procVars, histVars, At
  <2>2. ~m_bStart /\ loop \in {"none", "begin"}
    BY <2>1
  <2>3. AllSpared
    BY <2>2 DEF OrphanInv, NoOrphans, IsChild
  <2>4. handler' # "delete"
    BY <2>1 DEF PlaceInv, HostTypeOK
  <2>5. QED
    BY <2>1, <2>2, <2>3, <2>4 DEF IsChild
<1>10. CASE \/ Environment /\ UNCHANGED hostVars
            \/ Alive /\ LoopThread /\ UNCHANGED hostVars
            \/ \E th \in Thread : Alive /\ Launcher(th) /\ UNCHANGED hostVars
  BY <1>10, ManagerOwnStep
<1>11. QED
  BY <1>1, <1>3, <1>4, <1>5, <1>6, <1>7, <1>8, <1>9, <1>10
    DEF HostNext, ServiceMain, Handlers

(* When STOPPED is reported, and when the console program has deleted the  *)
(* manager and ended, every child of the manager has been told to end but  *)
(* one that withstood the final Kill, and none will be started: whenever   *)
(* the stop request or the console event comes, before the loop thread has *)
(* begun to run included.                                                  *)
THEOREM HostStopsClean == SafeBuild => (HostSpec => []StoppedClean)
<1> SUFFICES ASSUME SafeBuild PROVE HostSpec => []StoppedClean
  OBVIOUS
<1>1. HostInit => PlaceInv /\ ManagerInv
  BY DEF HostInit, Init, PlaceInv, ManagerInv, NotReported, Starting, ServiceOver, NoChildren, IsChild
<1>2. HostTypeOK /\ PlaceInv /\ [HostNext]_allVars => PlaceInv'
  BY PlaceStep
<1>3. SafeInv /\ OrphanInv /\ HostTypeOK /\ PlaceInv /\ ManagerInv /\ [HostNext]_allVars
        => ManagerInv'
  BY ManagerStep
<1>4. HostSpec => [](SafeInv /\ OrphanInv)
  BY HostRefinesOwner, OrphanInductive, PTL
<1>5. HostTypeOK /\ PlaceInv /\ ManagerInv => StoppedClean
  BY DEF HostTypeOK, PlaceInv, ManagerInv, ServiceOver, Over, AllSpared, StoppedClean, IsChild
<1>6. QED
  BY <1>1, <1>2, <1>3, <1>4, <1>5, HostTypeCorrect, PTL DEF HostSpec
-----------------------------------------------------------------------------
(* What has been reported when: ServiceStrl writes STOP_PENDING only while *)
(* RUNNING is the last report, and what it has not reported yet is no step *)
(* back, because ServiceMain writes STOPPED before it reports it.          *)
AtWork == {"addTasks", "start", "poll", "stop", "stopped"}

ReportInv ==
  /\ mode = "console" =>
       /\ main \in {"creat", "addTasks", "start", "sleep", "exited", "undefined"}
       /\ handler # "report" /\ reported = "none"
  /\ mode = "service" =>
       /\ main \notin {"creat", "sleep"} /\ handler \in {"idle", "report"}
       /\ main = "off" => reported = "none"
       /\ main \in {"register", "report", "failed"} => reported = "START_PENDING"
       /\ main \in AtWork => reported \in {"RUNNING", "STOP_PENDING"}
       /\ main \in {"done", "exited"} => reported = "STOPPED" /\ status = "STOPPED"
       /\ handler = "report" =>
            \/ main \in AtWork /\ reported = "RUNNING" /\ status = "STOP_PENDING"
            \/ main \in {"done", "exited", "undefined"}

LEMMA ReportStep ==
  ASSUME HostTypeOK, ReportInv, [HostNext]_allVars
  PROVE  ReportInv' /\ (reported' # reported => Rank[reported'] > Rank[reported])
<1> USE DEF HostTypeOK, ReportInv, AtWork
<1>1. CASE UNCHANGED hostVars
  BY <1>1 DEF hostVars
<1>2. CASE Registers \/ ReportsRunning
  BY <1>2 DEF Registers, ReportsRunning, At, Rank
<1>3. CASE LoadsTasks \/ StartsManager \/ PollsStatus \/ ManagerStopped
  BY <1>3 DEF LoadsTasks, StartsManager, PollsStatus, ManagerStopped, At
<1>4. CASE ReportsStopped \/ ServiceExits \/ Creates
  BY <1>4 DEF ReportsStopped, ServiceExits, Creates, At, Rank
<1>5. CASE HandlerReports
  BY <1>5 DEF HandlerReports, Alive, Rank
<1>6. CASE CtrlEvent \/ Deleted \/ CutShort \/ ConsoleExits \/ UsesDeleted
  BY <1>6 DEF CtrlEvent, Deleted, CutShort, ConsoleExits, UsesDeleted
<1>7. CASE Admin
  BY <1>7 DEF Admin, Install, CreatesService, StartsService, Uninstall,
     UninstallStops, UninstallDeletes, AdminAt, Launches, At, HandlerWrites, CanStop, Alive, Rank
<1>8. CASE Scm
  BY <1>8 DEF Scm, ScmStarts, UserStops, ScmRemoves, Launches, At, HandlerWrites, CanStop, Alive,
     Rank
<1>9. QED
  BY <1>1, <1>2, <1>3, <1>4, <1>5, <1>6, <1>7, <1>8
    DEF HostNext, allVars, ServiceMain, Handlers

(* Whatever the order in which ServiceMain and ServiceStrl write the       *)
(* status and report it, no report goes back.                              *)
THEOREM ReportsGoForward == HostSpec => ReportsForward
<1>1. HostInit => ReportInv
  BY DEF HostInit, ReportInv, AtWork
<1>2. HostTypeOK /\ ReportInv /\ [HostNext]_allVars
        => ReportInv' /\ [Rank[reported'] > Rank[reported]]_reported
  BY ReportStep
<1>3. QED
  BY <1>1, <1>2, HostTypeCorrect, PTL DEF HostSpec, ReportsForward
=============================================================================
