--------------------------- MODULE ProcessMgrProps --------------------------
(***************************************************************************)
(* What makes the process manager correct: the invariants, the action      *)
(* properties and the liveness properties the runs check.                  *)
(***************************************************************************)
EXTENDS ProcessMgr

(* The type of every variable.                                             *)
TypeOK ==
  /\ size \in 0..NTasks
  /\ pid \in [Tasks -> Pid \cup {NoPid}]
  /\ startup \in [Tasks -> Ages]
  /\ shutdown \in [Tasks -> Ages \cup {NotDown, Negative}]
  /\ m_bStart \in BOOLEAN /\ m_bRunning \in BOOLEAN
  /\ m_nNum \in 0..CounterMod-1
  /\ m_mutex \in {"free", "loop"}
  /\ timer \in BOOLEAN /\ due \in BOOLEAN
  /\ ctl \in {"idle", "stopping", "deleting", "dead"}
  /\ loop \in {"none", "begin", "while", "uvrun", "lock", "each", "launch", "restart",
               "wait", "killLock", "kill", "exit"}
  /\ idx \in 1..NTasks+1
  /\ reg \in 0..CounterMod-1
  /\ tries \in 1..KillTries
  /\ thread \in [Thread -> {"idle", "kill", "create", "inputIdle", "dec", "store"}]
  /\ treg \in [Thread -> 0..CounterMod-1]
  /\ ttries \in [Thread -> 0..KillTries]
  /\ tod \in 0..Day-1 /\ lag \in 0..MaxLag
  /\ proc \in [Pid -> {"free", "run", "ending", "exited"}]
  /\ owner \in [Pid -> 0..NTasks]
  /\ gone \in [Tasks -> Ages \cup {NotDown}]
  /\ spared \in SUBSET Pid

(* m_nNum counts the threads that are starting a child, as its comment     *)
(* says (pm.cpp:47), from the moment Protect resets it until Protect has   *)
(* waited for it to reach 0; at any other time there is no such thread.    *)
CounterExact ==
  IF loop \in {"each", "launch", "restart", "wait"}
    THEN m_nNum = Cardinality(Busy)
    ELSE Busy = {}

(* Two launcher threads never work for the same task at the same time,     *)
(* though Protect does not look whether one is still at it.                *)
OneLauncherPerTask == \A t \in Tasks : Cardinality(BusyOf(t)) <= 1

(* The manager never loses sight of a child: one that runs and has not     *)
(* been told to end is the one its task has on record, so there are never  *)
(* two of them, although RunChild overwrites the pid without looking (its  *)
(* check is commented out).  An instance that has been told to end may     *)
(* still be there when the next one is started: Kill does not wait.        *)
NoLostChild == \A p \in Pid : proc[p] = "run" /\ owner[p] # 0 => pid[owner[p]] = p

(* When the loop thread is gone every child has been told to end, except   *)
(* those that withstood every attempt of the final Kill.                   *)
NoOrphans ==
  loop \in {"exit", "none"} =>
    \A p \in Pid : proc[p] = "run" /\ owner[p] # 0 => p \in spared

(* After Stop or the destructor has returned, no thread is left that would *)
(* use the object: m_bRunning, which both wait for, says whether the loop  *)
(* thread is at work (pm.cpp:46).                                          *)
StopJoins ==
  ctl = "dead" \/ (ctl = "idle" /\ ~m_bStart) => loop = "none" /\ Busy = {}

(* After Stop has returned nothing is started or restarted any more: no    *)
(* launcher is at work, and the loop thread is gone, or has been overtaken *)
(* before its first statement and can do nothing but kill the children,    *)
(* with m_bRunning set as long as it does.                                 *)
StopHalts ==
  ctl = "dead" \/ (ctl = "idle" /\ ~m_bStart) =>
    /\ Busy = {}
    /\ \/ loop \in {"none", "begin"}
       \/ loop \in {"while", "killLock", "kill", "exit"} /\ m_bRunning

(* A daemon found dead is started again only when it has been dead for its *)
(* delay, whether it crashed or the final loop of an earlier Run killed    *)
(* it; the capture of `now' before the lock can cost it MaxLag.            *)
RespectsDelay ==
  [][\A t \in Tasks :
       pid[t] # NoPid /\ pid'[t] \notin {NoPid, pid[t]} =>
         gone[t] # NotDown /\ gone[t] + MaxLag >= Delay[t]]_pid

(* A launcher kills a running child only if the child has run for longer   *)
(* than rsdur or was started before the latest time of day rstime.         *)
KillsOnlyWhenDue ==
  [][\A t \in Tasks : \A k \in Slot :
       (/\ thread[<<t, k>>] = "kill" /\ thread'[<<t, k>>] = "create"
        /\ pid[t] \in Pid /\ proc[pid[t]] = "run")
       => \/ RsDur[t] > 0 /\ startup[t] > RsDur[t]
          \/ RsTime[t] # NoTime /\ startup[t] > (tod + Day - RsTime[t]) % Day]_thread

(* Stop and the destructor return.                                         *)
StopReturns == ctl \in {"stopping", "deleting"} ~> ctl \in {"idle", "dead"}

(* A task that has never been started, or a daemon whose process is gone,  *)
(* runs again unless the manager is stopped.                               *)
Wanted(t) ==
  /\ t <= size /\ m_bStart
  /\ pid[t] = NoPid \/ (Daemon[t] /\ proc[pid[t]] = "free")

Revived == \A t \in Tasks : Wanted(t) ~> Children(t) # {} \/ ~m_bStart

-----------------------------------------------------------------------------
(* The strengthening that makes the invariants inductive (of a build whose *)
(* counter updates are not torn and a system that opens every process).    *)

(* The element a thread is at exists, and attempts are counted down from a *)
(* positive number.                                                        *)
StepInv ==
  /\ loop \in {"launch", "restart"} => idx <= size
  /\ \A th \in Thread : thread[th] = "kill" => ttries[th] > 0
  /\ \A th \in Thread : thread[th] # "idle" => th[1] <= size

(* While Protect walks the vector the launchers belong to elements it has  *)
(* passed, one thread each, and m_nNum counts them.                        *)
LauncherInv ==
  /\ CounterExact
  /\ loop \in {"each", "launch", "restart"} =>
       m_nNum < idx /\ \A th \in Busy : th[1] < idx
  /\ \A th, tk \in Busy : th[1] = tk[1] => th = tk

(* Before a child of a task is created, the task has no running one.       *)
ChildInv ==
  /\ NoLostChild
  /\ \A p \in Pid : proc[p] = "free" => owner[p] = 0
  /\ \A t \in Tasks : t > size => pid[t] = NoPid
  /\ loop = "launch" => Children(idx) = {}
  /\ \A th \in Thread : thread[th] = "create" => Children(th[1]) = {}
  /\ \A t \in Tasks :
       /\ pid[t] # NoPid /\ Noticed(shutdown[t])
       /\ \A k \in Slot : thread[<<t, k>>] # "inputIdle"
       => Children(t) = {}

(* The final loop leaves behind only what it has spared.                   *)
OrphanInv ==
  /\ NoOrphans
  /\ loop = "kill" =>
       \A p \in Pid : proc[p] = "run" /\ owner[p] # 0 => p \in spared \/ owner[p] >= idx

IInv == TypeOK /\ StepInv /\ LauncherInv /\ ChildInv /\ OrphanInv

-----------------------------------------------------------------------------
(* CPM implements Supervisor: on while the loop thread exists, an instance *)
(* per running child not told to end, refused where the final Kill gave    *)
(* up.                                                                     *)
Abstract == INSTANCE Supervisor WITH
  on      <- loop # "none",
  live    <- [t \in Tasks |-> Cardinality(Children(t))],
  refused <- {t \in Tasks : Children(t) \cap spared # {}}

ImplementsSupervisor == Abstract!Spec
=============================================================================
