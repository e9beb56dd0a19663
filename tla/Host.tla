-------------------------------- MODULE Host --------------------------------
(***************************************************************************)
(* The program around the process manager (src/Projects/as/main.cpp): as a *)
(* Windows service (ServiceMain, the control handler ServiceStrl, Install  *)
(* and Uninstall, and the service control manager they talk to) or in a    *)
(* console (main and the handler CtrlCHandler).  The process manager is    *)
(* the one of ProcessMgr; the host is its owner.                           *)
(***************************************************************************)
EXTENDS ProcessMgrProps

VARIABLES
  mode,       \* how the program is run: "service" or "console"
  installed,  \* the service in the SCM's database: "no", "yes", "marked" (to delete)
  reported,   \* the last state the SCM was told
  status,     \* _status.dwCurrentState
  main,       \* program counter of ServiceMain, or of main in a console
  handler,    \* program counter of ServiceStrl, or of CtrlCHandler
  admin       \* program counter of as -i or as -u

hostVars == <<mode, installed, reported, status, main, handler, admin>>
allVars  == <<vars, hostVars>>

HostInit ==
  /\ Init
  /\ mode \in {"service", "console"}
  /\ installed \in (IF mode = "service" THEN {"no", "yes"} ELSE {"no"})
  /\ reported = "none" /\ status = "STOPPED"
  /\ main = IF mode = "service" THEN "off" ELSE "creat"
  /\ handler = "idle" /\ admin = "idle"

At(from, to) == main = from /\ main' = to

(* The process of the program exists, so its threads run; of one whose     *)
(* behaviour has become undefined the model says no more.                  *)
Alive == main \notin {"off", "exited", "undefined"}

-----------------------------------------------------------------------------
(* The service control manager.                                            *)

(* A started service is in START_PENDING until ServiceMain reports.        *)
Launches == At("off", "register") /\ reported' = "START_PENDING"

(* SERVICE_AUTO_START, or a user who starts it.                            *)
ScmStarts ==
  /\ installed = "yes" /\ Launches
  /\ UNCHANGED <<vars, mode, installed, status, handler, admin>>

(* ServiceStrl is called with SERVICE_CONTROL_STOP, lines 45-51: only a    *)
(* service that has reported RUNNING gets it.                              *)
CanStop == reported = "RUNNING" /\ handler = "idle" /\ Alive

(* Variant: the control code is stored instead of the state.               *)
HandlerWritesCode ==
  /\ CanStop
  /\ status' = "CONTROL_STOP"
  /\ handler' = "report"

HandlerWrites ==
  /\ CanStop
  /\ status' = "STOP_PENDING"
  /\ handler' = "report"

UserStops ==
  /\ HandlerWrites
  /\ UNCHANGED <<vars, mode, installed, reported, main, admin>>

HandlerReports ==
  /\ handler = "report"
  /\ Alive
  /\ reported' = status
  /\ handler' = "idle"
  /\ UNCHANGED <<vars, mode, installed, status, main, admin>>

(* A service marked for deletion goes when it has stopped and no handle to *)
(* it is open.                                                             *)
ScmRemoves ==
  /\ installed = "marked" /\ reported \in {"none", "STOPPED"} /\ admin = "idle"
  /\ installed' = "no"
  /\ UNCHANGED <<vars, mode, reported, status, main, handler, admin>>

-----------------------------------------------------------------------------
(* ServiceMain, lines 67-99.                                               *)

Registers ==
  /\ main = "register" /\ main' \in {"report", "failed"}
  /\ UNCHANGED <<vars, mode, installed, reported, status, handler, admin>>

ReportsRunning ==
  /\ At("report", "addTasks")
  /\ status' = "RUNNING" /\ reported' = "RUNNING"
  /\ UNCHANGED <<vars, mode, installed, handler, admin>>

(* AddTasks, or its early returns: no file, or not a JSON array.           *)
LoadsTasks ==
  /\ At("addTasks", "start")
  /\ AddTasks \/ UNCHANGED vars
  /\ UNCHANGED <<mode, installed, reported, status, handler, admin>>

StartsManager ==
  /\ At("start", IF mode = "service" THEN "poll" ELSE "sleep")
  /\ Start
  /\ UNCHANGED <<mode, installed, reported, status, handler, admin>>

(* Variant: the loop ends when the state has been reported.                *)
PollsReported ==
  /\ At("poll", "stop")
  /\ reported \notin {"RUNNING", "STOP_PENDING"}
  /\ Stop
  /\ UNCHANGED <<mode, installed, reported, status, handler, admin>>

PollsStatus ==
  /\ At("poll", "stop")
  /\ status # "RUNNING"
  /\ Stop
  /\ UNCHANGED <<mode, installed, reported, status, handler, admin>>

(* Variant: Stop is not waited for.                                        *)
ManagerStopping ==
  /\ At("stop", "stopped")
  /\ UNCHANGED <<vars, mode, installed, reported, status, handler, admin>>

ManagerStopped ==
  /\ At("stop", "stopped")
  /\ EndStop
  /\ UNCHANGED <<mode, installed, reported, status, handler, admin>>

(* Variant: the state in memory is not written.                            *)
ReportsOnly ==
  /\ At("stopped", "done")
  /\ reported' = "STOPPED"
  /\ UNCHANGED <<vars, mode, installed, status, handler, admin>>

ReportsStopped ==
  /\ At("stopped", "done")
  /\ status' = "STOPPED" /\ reported' = "STOPPED"
  /\ UNCHANGED <<vars, mode, installed, handler, admin>>

(* The dispatcher and main return, lines 264-283.                          *)
ServiceExits ==
  /\ At("done", "exited")
  /\ UNCHANGED <<vars, mode, installed, reported, status, handler, admin>>

-----------------------------------------------------------------------------
(* main in a console, lines 205-227, and CtrlCHandler, lines 27-40.        *)

Creates ==
  /\ At("creat", "addTasks")
  /\ UNCHANGED <<vars, mode, installed, reported, status, handler, admin>>

(* The handler runs on a thread of its own, at any time.  It finds _pm     *)
(* NULL and does nothing, or it deletes the manager.  Windows calls the    *)
(* handlers of one event at a time, and the first event ends the process.  *)
CtrlEvent ==
  /\ mode = "console" /\ handler = "idle"
  /\ main \in {"creat", "addTasks", "start", "sleep"}
  /\ IF main = "creat" THEN handler' = "return" /\ UNCHANGED vars
                       ELSE handler' = "delete" /\ Delete
  /\ UNCHANGED <<mode, installed, reported, status, main, admin>>

(* main calls AddTasks or Start of the manager that the handler deletes or *)
(* has deleted, lines 224-225: what happens from there on is undefined.    *)
UsesDeleted ==
  /\ main \in {"addTasks", "start"} /\ ctl # "idle"
  /\ main' = "undefined"
  /\ UNCHANGED <<vars, mode, installed, reported, status, handler, admin>>

Deleted ==
  /\ handler = "delete" /\ handler' = "return" /\ Alive
  /\ EndStop
  /\ UNCHANGED <<mode, installed, reported, status, main, admin>>

(* Windows ends the process when the handler takes too long: it gives it a *)
(* few seconds when the console is closed, the user logs off or the system *)
(* shuts down.                                                             *)
CutShort ==
  /\ handler = "delete" /\ Alive
  /\ main' = "exited"
  /\ UNCHANGED <<vars, mode, installed, reported, status, handler, admin>>

(* The handler returns FALSE, so the next one ends the process.            *)
ConsoleExits ==
  /\ handler = "return" /\ Alive
  /\ main' = "exited"
  /\ UNCHANGED <<vars, mode, installed, reported, status, handler, admin>>

-----------------------------------------------------------------------------
(* as -i and as -u: Install, lines 118-164, and Uninstall, lines 166-196.  *)

AdminAt(from, to) == mode = "service" /\ admin = from /\ admin' = to

IsInstalled == installed # "no"

(* If IsInstalled returns true Install is over, without a start.           *)
Install ==
  /\ AdminAt("idle", "create") /\ ~IsInstalled
  /\ UNCHANGED <<vars, mode, installed, reported, status, main, handler>>

CreatesService ==
  /\ \/ AdminAt("create", "start") /\ installed' = "yes"
     \/ AdminAt("create", "idle") /\ UNCHANGED installed
  /\ UNCHANGED <<vars, mode, reported, status, main, handler>>

(* StartService may fail: the service stays installed.                     *)
StartsService ==
  /\ AdminAt("start", "idle")
  /\ Launches \/ UNCHANGED <<main, reported>>
  /\ UNCHANGED <<vars, mode, installed, status, handler>>

Uninstall ==
  /\ AdminAt("idle", "ustop") /\ IsInstalled
  /\ UNCHANGED <<vars, mode, installed, reported, status, main, handler>>

(* The result of ControlService is not looked at.                          *)
UninstallStops ==
  /\ AdminAt("ustop", "udelete")
  /\ HandlerWrites \/ (~CanStop /\ UNCHANGED <<status, handler>>)
  /\ UNCHANGED <<vars, mode, installed, reported, main>>

UninstallDeletes ==
  /\ AdminAt("udelete", "idle")
  /\ installed' = "marked"
  /\ UNCHANGED <<vars, mode, reported, status, main, handler>>

-----------------------------------------------------------------------------
ServiceMain ==
  \/ Registers \/ ReportsRunning \/ LoadsTasks \/ StartsManager
  \/ PollsStatus \/ ManagerStopped \/ ReportsStopped \/ ServiceExits

Handlers == HandlerReports \/ CtrlEvent \/ Deleted \/ CutShort \/ ConsoleExits

Admin ==
  \/ Install \/ CreatesService \/ StartsService
  \/ Uninstall \/ UninstallStops \/ UninstallDeletes

Scm == ScmStarts \/ UserStops \/ ScmRemoves

HostNext ==
  \/ ServiceMain \/ Creates \/ UsesDeleted \/ Handlers \/ Admin \/ Scm
  \/ Environment /\ UNCHANGED hostVars
  \/ Alive /\ LoopThread /\ UNCHANGED hostVars
  \/ \E th \in Thread : Alive /\ Launcher(th) /\ UNCHANGED hostVars

HostSpec == HostInit /\ [][HostNext]_allVars

(* Threads that can run do, the SCM removes what it may, and the clock     *)
(* advances.  Nobody has to start, stop, install or uninstall anything.    *)
HostFairness ==
  /\ WF_allVars(ServiceMain) /\ WF_allVars(HandlerReports)
  /\ WF_allVars(CreatesService \/ StartsService \/ UninstallStops \/ UninstallDeletes)
  /\ SF_allVars(ScmRemoves)
  /\ WF_allVars(Alive /\ LoopThread /\ UNCHANGED hostVars)
  /\ \A th \in Thread : WF_allVars(Alive /\ Launcher(th) /\ UNCHANGED hostVars)
  /\ WF_allVars(Tick /\ UNCHANGED hostVars)

HostFairSpec == HostSpec /\ HostFairness

-----------------------------------------------------------------------------
(* Properties.                                                             *)

(* The type of the host's own variables.                                   *)
HostTypeOK ==
  /\ mode \in {"service", "console"}
  /\ installed \in {"no", "yes", "marked"}
  /\ reported \in {"none", "START_PENDING", "RUNNING", "STOP_PENDING", "STOPPED"}
  /\ status \in {"RUNNING", "STOP_PENDING", "STOPPED"}
  /\ main \in {"off", "register", "report", "failed", "creat", "addTasks", "start",
               "poll", "sleep", "stop", "stopped", "done", "exited", "undefined"}
  /\ handler \in {"idle", "report", "delete", "return"}
  /\ admin \in {"idle", "create", "start", "ustop", "udelete"}

(* When the service is reported as stopped, and when the console program   *)
(* has ended and its handler had the time to delete the manager, every     *)
(* child has been told to end, except one that could not be killed, and    *)
(* none will be started ("stop all child process and exit", main.cpp:35):  *)
(* also if the stop request comes before the loop thread has begun.        *)
StoppedClean ==
  reported = "STOPPED" \/ (main = "exited" /\ ctl = "dead") =>
    \A p \in Pid : proc[p] = "run" /\ owner[p] # 0 => p \in spared

(* What the SCM is told never goes back to an earlier state, although two  *)
(* threads write the status and report it.                                 *)
Rank == [none |-> 0, START_PENDING |-> 1, RUNNING |-> 2, STOP_PENDING |-> 3, STOPPED |-> 4]
ReportsForward == [][Rank[reported'] > Rank[reported]]_reported

(* A stop request that ServiceStrl has taken ends in STOPPED.              *)
StopHonoured == status = "STOP_PENDING" ~> reported = "STOPPED"

(* as -u stops and removes the service (main.cpp:6, README): a service     *)
(* that Uninstall has marked is gone in the end.                           *)
UninstallCompletes ==
  installed = "marked" ~> installed = "no" \/ main = "failed"
=============================================================================
