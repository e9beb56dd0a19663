----------------------------- MODULE ProcessMgr -----------------------------
(***************************************************************************)
(* The process manager CPM (src/Common/pm/pm.cpp): the thread that owns    *)
(* it (Start, AddTask, AddTasks, Stop, the destructor), the loop thread    *)
(* (Run, Timer, Protect), the detached launcher threads that Protect       *)
(* starts, and the part of Windows they act on: processes, their ids, the  *)
(* calls OpenProcess, TerminateProcess and CreateProcess, and the clock.   *)
(*                                                                         *)
(* A task is its index in m_vecProcess.  A launcher thread is <<t, k>>:    *)
(* its closure refers to the vector slot of task t.                        *)
(***************************************************************************)
EXTENDS Schedule, FiniteSets

CONSTANTS
  NTasks,       \* tasks the run may add; the first FileTasks come from
  FileTasks,    \* the configuration file (AddTasks), the others from AddTask
  Daemon,       \* [Tasks -> BOOLEAN]     Options::daemon
  Delay,        \* [Tasks -> Nat]         Options::delay, in seconds
  RsDur,        \* [Tasks -> Nat]         Options::rsdur, in seconds
  RsTime,       \* [Tasks -> second of the day, or NoTime]  Options::rstime
  Pid,          \* process ids
  NoPid,        \* pid 0: never started
  Slot,         \* launcher threads one task can have at a time
  KillTries,    \* attempts of Kill (5 in the code)
  CounterMod,   \* m_nNum counts modulo this (2^32 in the code)
  TornUpdates,  \* ++ and -- of m_nNum run on several cores without a lock
  PidReuse,     \* Windows may give a recorded dead child's id to another process
  OpenMayFail   \* OpenProcess may refuse a process that exists

Tasks  == 1..NTasks
Thread == Tasks \X Slot

ASSUME TaskAssumption ==
  /\ NTasks \in Nat /\ FileTasks \in 0..NTasks
  /\ Daemon \in [Tasks -> BOOLEAN]
  /\ Delay \in [Tasks -> Nat]
  /\ RsDur \in [Tasks -> Nat]
  /\ RsTime \in [Tasks -> (0..Day-1) \cup {NoTime}]
  /\ \A t \in Tasks : /\ Delay[t] + MaxLag <= MaxAge
                      /\ RsDur[t] + MaxLag < MaxAge
                      /\ RsTime[t] # NoTime => Day + MaxLag <= MaxAge

ASSUME SystemAssumption ==
  /\ NoPid \notin Pid
  /\ Slot \in SUBSET Nat /\ IsFiniteSet(Slot) /\ Slot # {}
  /\ KillTries \in Nat \ {0}
  /\ CounterMod \in Nat /\ CounterMod > NTasks
  /\ {TornUpdates, PidReuse, OpenMayFail} \subseteq BOOLEAN

VARIABLES
  size,        \* m_vecProcess.size()
  pid,         \* Process::pid
  startup,     \* Process::startup, as an age
  shutdown,    \* Process::shutdown, as an age, NotDown or Negative
  m_bStart, m_bRunning, m_nNum,
  m_mutex,     \* "free" or "loop": the only holder that keeps it over a step
  timer,       \* the uv timer is active
  due,         \* its second has passed
  ctl,         \* the owner's program counter
  loop,        \* the loop thread's program counter
  idx,         \* the element of m_vecProcess the loop thread is at
  reg,         \* the value of m_nNum it has loaded
  tries,       \* attempts left to it in Kill
  thread,      \* a launcher thread's program counter
  treg,        \* the value of m_nNum a launcher has loaded
  ttries,      \* attempts left to a launcher in Kill
  tod, lag,    \* second of the day; age of the `now' Protect has captured
  proc,        \* a process id's state: "free", "run", "ending" (terminated, not
               \* yet gone), "exited" (a handle is open)
  owner,       \* the task it was created for; 0: not a child of this manager
  gone,        \* history: age of the last death, or termination, of the child
               \* on record, up to Delay[t]; NotDown while one runs
  spared       \* history: processes the final Kill gave up on

procVars  == <<proc, owner>>
taskVars  == <<size, pid, startup, shutdown>>
loopVars  == <<loop, idx, reg, tries>>
thrVars   == <<thread, treg, ttries>>
flagVars  == <<m_bStart, m_bRunning, m_mutex, timer, due, ctl>>
clockVars == <<tod, lag>>
histVars  == <<gone, spared>>

(* What a step leaves alone, for short.                                    *)
locals  == <<idx, reg, tries>>
world   == <<procVars, clockVars, histVars>>
outside == <<world, taskVars, thrVars>>                     \* of the loop thread
others  == <<loopVars, flagVars, clockVars, m_nNum>>        \* of a launcher
program == <<taskVars, loopVars, thrVars, flagVars, m_nNum>>

vars == <<procVars, taskVars, loopVars, thrVars, flagVars, clockVars, histVars, m_nNum>>

Busy == {th \in Thread : thread[th] # "idle"}
BusyOf(t) == {k \in Slot : thread[<<t, k>>] # "idle"}

(* The running children of task t that nobody has told to end.             *)
Children(t) == {p \in Pid : proc[p] = "run" /\ owner[p] = t}

Init ==
  /\ size = 0
  /\ pid = [t \in Tasks |-> NoPid]
  /\ startup = [t \in Tasks |-> MaxAge]
  /\ shutdown = [t \in Tasks |-> NotDown]
  /\ m_bStart = FALSE /\ m_bRunning = FALSE
  /\ m_nNum \in {0, CounterMod - 1}            \* not initialised by CPM()
  /\ m_mutex = "free" /\ timer = FALSE /\ due = FALSE
  /\ ctl = "idle" /\ loop = "none"
  /\ idx = 1 /\ reg = 0 /\ tries = KillTries
  /\ thread = [th \in Thread |-> "idle"]
  /\ treg = [th \in Thread |-> 0] /\ ttries = [th \in Thread |-> 0]
  /\ tod \in 0..Day-1 /\ lag = 0
  /\ proc = [p \in Pid |-> "free"] /\ owner = [p \in Pid |-> 0]
  /\ gone = [t \in Tasks |-> NotDown]
  /\ spared = {}

-----------------------------------------------------------------------------
(* Windows.                                                                *)

(* OpenProcess returns NULL.                                               *)
CannotOpen(p) == p \notin Pid \/ proc[p] = "free" \/ OpenMayFail

(* The process takes a step to its end; gone notes when, if it is a child  *)
(* on record.                                                              *)
Falls(p, state) ==
  /\ proc' = [proc EXCEPT ![p] = state]
  /\ gone' = [t \in Tasks |-> IF owner[p] = t /\ pid[t] = p THEN 0 ELSE gone[t]]
  /\ UNCHANGED owner

(* CreateProcess gives task t's new child a free id.  Without PidReuse it  *)
(* is not one that another task still has on record.                       *)
CanGet(t, p) ==
  /\ proc[p] = "free"
  /\ PidReuse \/ \A s \in Tasks \ {t} : pid[s] # p

(* One round of the loop in Kill that ends it with `return true': nothing  *)
(* to open, or TerminateProcess has been called.  It only asks for the     *)
(* end, and WaitForSingleObject does not wait for it: the handle, opened   *)
(* with PROCESS_TERMINATE alone, lacks the right to.                       *)
KillReturns(p) ==
  \/ CannotOpen(p) /\ UNCHANGED <<procVars, gone>>
  \/ p \in Pid /\ proc[p] \in {"run", "ending"} /\ Falls(p, "ending")

(* The other round: TerminateProcess fails.  It does for a process that    *)
(* has already exited, and may for one that is ending or that this process *)
(* has no right to terminate.                                              *)
KillFails(p) ==
  p \in Pid /\ proc[p] # "free" /\ UNCHANGED <<procVars, gone>>

(* The process ends; its id lives on as long as somebody holds a handle.   *)
Exit(p) ==
  /\ proc[p] \in {"run", "ending"}
  /\ Falls(p, "exited")
  /\ UNCHANGED <<clockVars, program, spared>>

(* The last handle is closed.  RunChild keeps one during WaitForInputIdle. *)
Release(p) ==
  /\ proc[p] = "exited"
  /\ ~ \E th \in Thread : thread[th] = "inputIdle" /\ pid[th[1]] = p
  /\ proc' = [proc EXCEPT ![p] = "free"]
  /\ owner' = [owner EXCEPT ![p] = 0]
  /\ UNCHANGED <<clockVars, histVars, program>>

(* Somebody else's process takes an id that a task still has on record.    *)
Foreign(p) ==
  /\ PidReuse
  /\ proc[p] = "free"
  /\ \E t \in Tasks : pid[t] = p
  /\ proc' = [proc EXCEPT ![p] = "run"]
  /\ UNCHANGED <<clockVars, histVars, program, owner>>

(* Protect has captured `now' and still uses it.                           *)
HoldsNow == loop \in {"lock", "each", "launch", "restart"}

(* A second passes.  MaxLag bounds how long Protect uses one `now'.        *)
Tick ==
  /\ HoldsNow => lag < MaxLag
  /\ tod' = (tod + 1) % Day
  /\ lag' = IF HoldsNow THEN lag + 1 ELSE 0
  /\ startup' = [t \in Tasks |-> Older(startup[t])]
  /\ shutdown' = [t \in Tasks |->
       IF Noticed(shutdown[t]) THEN Older(shutdown[t]) ELSE shutdown[t]]
  /\ gone' = [t \in Tasks |->
       IF gone[t] \in 0..Delay[t]-1 THEN gone[t] + 1 ELSE gone[t]]
  /\ due' = timer
  /\ UNCHANGED <<procVars, loopVars, thrVars, size, pid, m_bStart, m_bRunning,
                 m_mutex, timer, ctl, spared, m_nNum>>

-----------------------------------------------------------------------------
(* The owner.                                                              *)

(* CPM::Start, lines 83-91.  A second Start waits for the loop thread of   *)
(* the first (a bound: two loop threads at once are not modelled).         *)
Start ==
  /\ ctl = "idle" /\ ~m_bStart /\ loop = "none"
  /\ m_bStart' = TRUE
  /\ timer' = TRUE /\ due' = FALSE
  /\ loop' = "begin"
  /\ spared' = {}
  /\ UNCHANGED <<procVars, taskVars, thrVars, locals, m_bRunning, m_mutex, ctl,
                 clockVars, gone, m_nNum>>

(* main.cpp adds its tasks before Start, so push_back moves no slot that a *)
(* running launcher refers to.                                             *)
MayAdd == ctl = "idle" /\ loop = "none" /\ m_mutex = "free"

(* The fields of new tasks.  Nobody initialises shutdown.                  *)
NewTasks(S) ==
  \E g \in {NotDown, Negative, MaxAge} :
    shutdown' = [t \in Tasks |-> IF t \in S THEN g ELSE shutdown[t]]

(* CPM::AddTasks, lines 111-169: all tasks of the file in one critical     *)
(* section.                                                                *)
AddTasks ==
  /\ MayAdd
  /\ size = 0 /\ FileTasks > 0
  /\ size' = FileTasks
  /\ NewTasks(1..FileTasks)
  /\ UNCHANGED <<procVars, thrVars, others, pid, startup, histVars>>

(* CPM::AddTask, lines 93-109.                                             *)
AddTask ==
  /\ MayAdd
  /\ FileTasks <= size /\ size < NTasks
  /\ size' = size + 1
  /\ NewTasks({size + 1})
  /\ UNCHANGED <<procVars, thrVars, others, pid, startup, histVars>>

(* The delay the program uses: AddTask does not copy it from the options,  *)
(* so it keeps the 0 of Options().                                         *)
DelayOf(t) == IF t <= FileTasks THEN Delay[t] ELSE 0

(* CPM::Stop, lines 171-176, and the first statement of ~CPM, lines 74-81. *)
BeginStop(next) ==
  /\ ctl = "idle"
  /\ m_bStart' = FALSE
  /\ ctl' = next
  /\ UNCHANGED <<loopVars, outside, m_bRunning, m_mutex, timer, due, m_nNum>>

Stop   == BeginStop("stopping")
Delete == BeginStop("deleting")

(* while (m_bRunning) is over: Stop returns; ~CPM closes the loop and      *)
(* destroys the mutex, and the object is gone.                             *)
EndStop ==
  /\ ctl \in {"stopping", "deleting"}
  /\ ~m_bRunning
  /\ ctl' = IF ctl = "stopping" THEN "idle" ELSE "dead"
  /\ UNCHANGED <<loopVars, outside, m_bStart, m_bRunning, m_mutex, timer, due,
                 m_nNum>>

-----------------------------------------------------------------------------
(* The loop thread.                                                        *)

LoopAt(from, to) == loop = from /\ loop' = to

(* CPM::Run, lines 188-202.                                                *)
RunBegins ==
  /\ LoopAt("begin", "while")
  /\ m_bRunning' = TRUE
  /\ UNCHANGED <<locals, outside, m_bStart, m_mutex, timer, due, ctl, m_nNum>>

RunTests ==
  /\ LoopAt("while", IF m_bStart THEN "uvrun" ELSE "killLock")
  /\ UNCHANGED <<flagVars, locals, outside, m_nNum>>

(* uv_run returns: no active handle is left.                               *)
UvReturns ==
  /\ LoopAt("uvrun", "while")
  /\ ~timer
  /\ UNCHANGED <<flagVars, locals, outside, m_nNum>>

(* Variant: the timer is never stopped.                                    *)
TimerFiresOn ==
  /\ loop = "uvrun" /\ timer /\ due
  /\ due' = FALSE
  /\ loop' = IF m_bStart THEN "lock" ELSE "uvrun"
  /\ lag' = 0
  /\ UNCHANGED <<taskVars, thrVars, histVars, locals, procVars, m_bStart,
                 m_bRunning, m_mutex, timer, ctl, tod, m_nNum>>

(* CPM::Timer, lines 204-210, up to time(NULL) in Protect, line 214.       *)
TimerFires ==
  /\ loop = "uvrun" /\ timer /\ due
  /\ due' = FALSE
  /\ loop' = IF m_bStart THEN "lock" ELSE "uvrun"
  /\ timer' = m_bStart
  /\ lag' = 0
  /\ UNCHANGED <<taskVars, thrVars, histVars, locals, procVars, m_bStart,
                 m_bRunning, m_mutex, ctl, tod, m_nNum>>

(* CPM::Protect, lines 216-217.                                            *)
ProtectLocks ==
  /\ LoopAt("lock", "each")
  /\ m_mutex = "free" /\ m_mutex' = "loop"
  /\ m_nNum' = 0
  /\ idx' = 1
  /\ UNCHANGED <<outside, reg, tries, m_bStart, m_bRunning, timer, due, ctl>>

(* CPM::Find, lines 278-286: the possible answers.                         *)
Find(p) == {b \in BOOLEAN : IF b THEN proc[p] # "free" ELSE CannotOpen(p)}

(* The condition of Protect's second branch, line 227.                     *)
HasQuit(t) ==
  /\ Daemon[t]
  /\ Noticed(shutdown[t]) \/ FALSE \in Find(pid[t])

StillThere(t) ==
  \/ ~Daemon[t]
  \/ ~Noticed(shutdown[t]) /\ TRUE \in Find(pid[t])

DueAgain(t) ==
  \/ NeedRestart(startup[t], RsTime[t], tod, lag)
  \/ RanLongEnough(startup[t], RsDur[t], lag)

AtTask(t) == loop = "each" /\ t = idx /\ t <= size

(* What ++ and -- load.  Only a torn update needs the copy.                *)
Loaded == IF TornUpdates THEN m_nNum ELSE 0

(* m_nNum++ starts: the loop thread loads the counter.  Its program        *)
(* counter says what it has decided to do.                                 *)
Decide(what) ==
  /\ loop' = what
  /\ reg' = Loaded
  /\ UNCHANGED <<flagVars, outside, idx, tries, m_nNum>>

(* Lines 219-226.                                                          *)
StartFirst(t) ==
  /\ AtTask(t) /\ pid[t] = NoPid
  /\ Decide("launch")

(* Lines 227-242: at once, or when the delay is over.                      *)
Revive(t) ==
  /\ AtTask(t) /\ pid[t] # NoPid /\ HasQuit(t)
  /\ DelayOf(t) > 0 =>
       shutdown[t] # NotDown /\ SinceShutdown(shutdown[t], lag) >= DelayOf(t)
  /\ Decide("launch")

(* Variant: the exit is recorded anew by every pass.                       *)
AwaitDelayForgets(t) ==
  /\ AtTask(t) /\ pid[t] # NoPid /\ HasQuit(t)
  /\ DelayOf(t) > 0
  /\ shutdown' = [shutdown EXCEPT ![t] = lag]
  /\ idx' = idx + 1
  /\ UNCHANGED <<thrVars, flagVars, world, size, pid, startup, loop, reg, tries,
                 m_nNum>>

(* Lines 228-235: the exit is recorded, or the delay is not over.          *)
AwaitDelay(t) ==
  /\ AtTask(t) /\ pid[t] # NoPid /\ HasQuit(t)
  /\ DelayOf(t) > 0
  /\ \/ /\ shutdown[t] = NotDown
        /\ shutdown' = [shutdown EXCEPT ![t] = lag]
     \/ /\ shutdown[t] # NotDown
        /\ SinceShutdown(shutdown[t], lag) < DelayOf(t)
        /\ UNCHANGED shutdown
  /\ idx' = idx + 1
  /\ UNCHANGED <<thrVars, flagVars, world, size, pid, startup, loop, reg,
                 tries, m_nNum>>

(* Variant: a restart starts the program without killing it first.         *)
RestartUnkilled(t) ==
  /\ AtTask(t) /\ pid[t] # NoPid /\ StillThere(t) /\ DueAgain(t)
  /\ Decide("launch")

(* Lines 243-270.                                                          *)
Restart(t) ==
  /\ AtTask(t) /\ pid[t] # NoPid /\ StillThere(t) /\ DueAgain(t)
  /\ Decide("restart")

NothingToDo(t) ==
  /\ AtTask(t) /\ pid[t] # NoPid /\ StillThere(t) /\ ~DueAgain(t)
  /\ idx' = idx + 1
  /\ UNCHANGED <<flagVars, outside, loop, reg, tries, m_nNum>>

(* m_nNum++ ends and the detached thread is created.                       *)
Spawn ==
  /\ loop \in {"launch", "restart"} /\ loop' = "each"
  /\ m_nNum' = ((IF TornUpdates THEN reg ELSE m_nNum) + 1) % CounterMod
  /\ \E k \in Slot \ BusyOf(idx) :
       /\ \A j \in Slot \ BusyOf(idx) : k <= j
       /\ thread' = [thread EXCEPT ![<<idx, k>>] =
                       IF loop = "launch" THEN "create" ELSE "kill"]
       /\ ttries' = [ttries EXCEPT ![<<idx, k>>] = KillTries]
  /\ idx' = idx + 1
  /\ UNCHANGED <<taskVars, flagVars, world, reg, tries, treg>>

(* Lines 272-275.                                                          *)
ProtectUnlocks ==
  /\ LoopAt("each", "wait")
  /\ idx > size
  /\ m_mutex' = "free"
  /\ lag' = 0
  /\ UNCHANGED <<taskVars, thrVars, histVars, locals, procVars, m_bStart,
                 m_bRunning, timer, due, ctl, tod, m_nNum>>

(* Variant: Protect does not wait for its threads.                         *)
ProtectReturnsEarly ==
  /\ LoopAt("wait", "uvrun")
  /\ UNCHANGED <<flagVars, locals, outside, m_nNum>>

ProtectReturns ==
  /\ LoopAt("wait", "uvrun")
  /\ m_nNum = 0
  /\ UNCHANGED <<flagVars, locals, outside, m_nNum>>

(* Variant: m_bRunning is reset before the children are killed.            *)
FinalLockEarly ==
  /\ LoopAt("killLock", "kill")
  /\ m_mutex = "free" /\ m_mutex' = "loop"
  /\ m_bRunning' = FALSE
  /\ idx' = 1 /\ tries' = KillTries
  /\ UNCHANGED <<outside, reg, m_bStart, timer, due, ctl, m_nNum>>

(* The end of Run, lines 194-201.                                          *)
FinalLock ==
  /\ LoopAt("killLock", "kill")
  /\ m_mutex = "free" /\ m_mutex' = "loop"
  /\ idx' = 1 /\ tries' = KillTries
  /\ UNCHANGED <<outside, reg, m_bStart, m_bRunning, timer, due, ctl, m_nNum>>

FinalKill ==
  /\ loop = "kill" /\ idx <= size
  /\ LET next == idx' = idx + 1 /\ tries' = KillTries
     IN \/ /\ pid[idx] = NoPid
           /\ next
           /\ UNCHANGED <<procVars, histVars>>
        \/ /\ pid[idx] # NoPid /\ KillReturns(pid[idx])
           /\ next
           /\ UNCHANGED spared
        \/ /\ pid[idx] # NoPid /\ KillFails(pid[idx])
           /\ IF tries > 1
                THEN tries' = tries - 1 /\ UNCHANGED <<idx, spared>>
                ELSE next /\ spared' = spared \cup {pid[idx]}
  /\ UNCHANGED <<taskVars, thrVars, flagVars, clockVars, loop, reg, m_nNum>>

(* Variant: the last task is not killed.                                   *)
FinalUnlockEarly ==
  /\ LoopAt("kill", "exit")
  /\ idx >= size
  /\ m_mutex' = "free"
  /\ UNCHANGED <<locals, outside, m_bStart, m_bRunning, timer, due, ctl, m_nNum>>

FinalUnlock ==
  /\ LoopAt("kill", "exit")
  /\ idx > size
  /\ m_mutex' = "free"
  /\ UNCHANGED <<locals, outside, m_bStart, m_bRunning, timer, due, ctl, m_nNum>>

RunEnds ==
  /\ LoopAt("exit", "none")
  /\ m_bRunning' = FALSE
  /\ UNCHANGED <<locals, outside, m_bStart, m_mutex, timer, due, ctl, m_nNum>>

-----------------------------------------------------------------------------
(* The launcher threads, lines 222-225, 238-241, 246-254 and 260-268.      *)

ThreadAt(th, from, to) == thread[th] = from /\ thread' = [thread EXCEPT ![th] = to]

(* if(Kill(pid)) { pid = 0; RunChild }                                     *)
LauncherKills(th) ==
  /\ ThreadAt(th, "kill", "create")
  /\ KillReturns(pid[th[1]])
  /\ pid' = [pid EXCEPT ![th[1]] = NoPid]
  /\ UNCHANGED <<others, size, startup, shutdown, treg, ttries, spared>>

(* Variant: no last attempt.                                               *)
LauncherKillRepeats(th) ==
  /\ thread[th] = "kill"
  /\ KillFails(pid[th[1]])
  /\ ttries' = [ttries EXCEPT ![th] = @ - 1]
  /\ UNCHANGED <<taskVars, others, thread, treg, spared>>

(* Variant: the result of Kill is not looked at.                           *)
LauncherKillIgnored(th) ==
  /\ thread[th] = "kill"
  /\ KillFails(pid[th[1]])
  /\ ttries' = [ttries EXCEPT ![th] = @ - 1]
  /\ thread' = IF ttries[th] > 1 THEN thread ELSE [thread EXCEPT ![th] = "create"]
  /\ UNCHANGED <<taskVars, others, treg, spared>>

(* A failed attempt; after the last one the error is logged.               *)
LauncherKillFails(th) ==
  /\ thread[th] = "kill"
  /\ KillFails(pid[th[1]])
  /\ ttries' = [ttries EXCEPT ![th] = @ - 1]
  /\ thread' = IF ttries[th] > 1 THEN thread ELSE [thread EXCEPT ![th] = "dec"]
  /\ UNCHANGED <<taskVars, others, treg, spared>>

(* CPM::CreateChildProcess, lines 345-410: CreateProcess succeeds,         *)
(* line 391, or not, line 389.                                             *)
ChildCreated(th) ==
  /\ ThreadAt(th, "create", "inputIdle")
  /\ \E p \in Pid :
       /\ CanGet(th[1], p)
       /\ proc' = [proc EXCEPT ![p] = "run"]
       /\ owner' = [owner EXCEPT ![p] = th[1]]
       /\ pid' = [pid EXCEPT ![th[1]] = p]
  /\ gone' = [gone EXCEPT ![th[1]] = NotDown]
  /\ UNCHANGED <<others, size, startup, shutdown, treg, ttries, spared>>

CreateFails(th) ==
  /\ ThreadAt(th, "create", "dec")
  /\ UNCHANGED <<procVars, taskVars, histVars, others, treg, ttries>>

(* Variant: RunChild counts down too (its m_nNum--, now commented out).    *)
StartNotedCounts(th) ==
  /\ ThreadAt(th, "inputIdle", "dec")
  /\ startup' = [startup EXCEPT ![th[1]] = 0]
  /\ shutdown' = [shutdown EXCEPT ![th[1]] = NotDown]
  /\ m_nNum' = (m_nNum + CounterMod - 1) % CounterMod
  /\ UNCHANGED <<procVars, histVars, loopVars, flagVars, clockVars, size, pid, treg,
                 ttries>>

(* Variant: shutdown is not reset.                                         *)
StartNotedOnly(th) ==
  /\ ThreadAt(th, "inputIdle", "dec")
  /\ startup' = [startup EXCEPT ![th[1]] = 0]
  /\ UNCHANGED <<procVars, histVars, others, size, pid, shutdown, treg, ttries>>

(* WaitForInputIdle returns, at once or within a minute; RunChild notes    *)
(* the start, lines 338-339.                                               *)
StartNoted(th) ==
  /\ ThreadAt(th, "inputIdle", "dec")
  /\ startup' = [startup EXCEPT ![th[1]] = 0]
  /\ shutdown' = [shutdown EXCEPT ![th[1]] = NotDown]
  /\ UNCHANGED <<procVars, histVars, others, size, pid, treg, ttries>>

(* m_nNum--: load, then store; the thread ends.                            *)
DecLoads(th) ==
  /\ ThreadAt(th, "dec", "store")
  /\ treg' = [treg EXCEPT ![th] = Loaded]
  /\ UNCHANGED <<procVars, taskVars, histVars, others, ttries>>

DecStores(th) ==
  /\ ThreadAt(th, "store", "idle")
  /\ m_nNum' = ((IF TornUpdates THEN treg[th] ELSE m_nNum) + CounterMod - 1) % CounterMod
  /\ treg' = [treg EXCEPT ![th] = 0]
  /\ ttries' = [ttries EXCEPT ![th] = 0]
  /\ UNCHANGED <<procVars, taskVars, loopVars, flagVars, clockVars, histVars>>

-----------------------------------------------------------------------------
Environment ==
  \/ \E p \in Pid : Exit(p) \/ Release(p) \/ Foreign(p)
  \/ Tick

Owner == Start \/ AddTasks \/ AddTask \/ Stop \/ Delete \/ EndStop

EachTask(t) ==
  StartFirst(t) \/ Revive(t) \/ AwaitDelay(t) \/ Restart(t) \/ NothingToDo(t)

LoopThread ==
  \/ RunBegins \/ RunTests \/ UvReturns \/ TimerFires
  \/ ProtectLocks \/ ProtectUnlocks \/ ProtectReturns
  \/ \E t \in Tasks : EachTask(t)
  \/ Spawn
  \/ FinalLock \/ FinalKill \/ FinalUnlock \/ RunEnds

Launcher(th) ==
  \/ LauncherKills(th) \/ LauncherKillFails(th)
  \/ ChildCreated(th) \/ CreateFails(th) \/ StartNoted(th)
  \/ DecLoads(th) \/ DecStores(th)

Next ==
  \/ Environment
  \/ Owner
  \/ LoopThread
  \/ \E th \in Thread : Launcher(th)

Spec == Init /\ [][Next]_vars

(* The scheduler runs every thread that can go on, the clock advances,     *)
(* terminated processes end, handles are closed, and CreateProcess does    *)
(* not fail for ever.                                                      *)
Fairness ==
  /\ WF_vars(LoopThread)
  /\ \A th \in Thread : WF_vars(Launcher(th)) /\ SF_vars(ChildCreated(th))
  /\ WF_vars(EndStop)
  /\ WF_vars(Tick)
  /\ \A p \in Pid : WF_vars(Release(p)) /\ WF_vars(proc[p] = "ending" /\ Exit(p))

FairSpec == Spec /\ Fairness
=============================================================================
