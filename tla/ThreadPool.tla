----------------------------- MODULE ThreadPool -----------------------------
(***************************************************************************)
(* ThreadPool of Common/util/ThreadPool.cpp: works and timers in a Windows *)
(* thread pool with a cleanup group.  closeWork and closeTimer delete the  *)
(* runnable; the header says that one which runs once may do so itself, at *)
(* the end of its run().                                                   *)
(***************************************************************************)
EXTENDS Naturals, Functions

CONSTANTS
  Work, TimerWork,   \* the runnables given to startWork and to startTimer
  repeats,           \* [Work -> Nat]
  periodic,          \* those of TimerWork with msPeriod # 0
  threadNum,         \* pool threads
  MaxPending         \* bound: callbacks of a timer that wait for a thread

ASSUME WorkAssumption ==
  /\ repeats \in [Work -> Nat] /\ Work \cap TimerWork = {}
  /\ periodic \subseteq TimerWork

VARIABLES
  runnable,   \* [Runnable -> "new" | "open" | "deleted" | "released"]
  submits,    \* [Runnable -> rounds left to the loop of startWork]
  pending,    \* [Runnable -> callbacks that wait for a pool thread]
  running,    \* [Runnable -> callbacks that run]
  ran,        \* [Runnable -> callbacks that have begun]
  due,        \* timers that are set
  pool,       \* "open" | "draining", "cancelling": in stop(true), stop(false) |
              \* "drained", "cancelled": after it |
              \* "failed": the constructor has no cleanup group | "left": after its stop
  misused,    \* history: closed by others than their only run()
  touched     \* history: used when they had been deleted

poolVars == <<runnable, submits, pending, running, ran, due, pool, misused, touched>>

Runnable == Work \cup TimerWork
RunsOnce(r) == IF r \in Work THEN repeats[r] = 1 ELSE r \notin periodic
None == [r \in Runnable |-> 0]

PoolInit ==
  /\ runnable = [r \in Runnable |-> "new"]
  /\ submits = None /\ pending = None /\ running = None /\ ran = None
  /\ due = {} /\ pool \in {"open", "failed"}
  /\ misused = {} /\ touched = {}

Takes == pool \in {"open", "failed"}
Touch(r) == touched' = IF runnable[r] = "deleted" THEN touched \cup {r} ELSE touched

-----------------------------------------------------------------------------
(* Variant: the loop goes to i <= repeats.                                 *)
StartWorkOnceMore(r) ==
  /\ Takes /\ runnable[r] = "new"
  /\ runnable' = [runnable EXCEPT ![r] = "open"]
  /\ submits' = [submits EXCEPT ![r] = repeats[r] + 1]
  /\ UNCHANGED <<pending, running, ran, due, pool, misused, touched>>

(* startWork creates the work, lines 67-68, ...                            *)
StartWork(r) ==
  /\ Takes /\ runnable[r] = "new"
  /\ runnable' = [runnable EXCEPT ![r] = "open"]
  /\ submits' = [submits EXCEPT ![r] = repeats[r]]
  /\ UNCHANGED <<pending, running, ran, due, pool, misused, touched>>

(* ... and submits it as often as was asked, while pool threads run it.    *)
Submit(r) ==
  /\ submits[r] > 0
  /\ submits' = [submits EXCEPT ![r] = @ - 1]
  /\ pending' = [pending EXCEPT ![r] = @ + 1]
  /\ Touch(r)
  /\ UNCHANGED <<runnable, running, ran, due, pool, misused>>

StartPoolTimer(r) ==
  /\ Takes /\ runnable[r] = "new"
  /\ runnable' = [runnable EXCEPT ![r] = "open"]
  /\ due' = due \cup {r}
  /\ UNCHANGED <<submits, pending, running, ran, pool, misused, touched>>

FallDue(r) ==
  /\ r \in due /\ pending[r] < MaxPending
  /\ pending' = [pending EXCEPT ![r] = @ + 1]
  /\ due' = IF r \in periodic THEN due ELSE due \ {r}
  /\ UNCHANGED <<runnable, submits, running, ran, pool, misused, touched>>

(* doWork and expired: a pool thread begins to run the runnable.           *)
Begin(r) ==
  /\ pending[r] > 0 /\ SumFunction(running) < threadNum
  /\ pending' = [pending EXCEPT ![r] = @ - 1]
  /\ running' = [running EXCEPT ![r] = @ + 1]
  /\ ran' = IF r \in periodic THEN ran ELSE [ran EXCEPT ![r] = @ + 1]
  /\ Touch(r)
  /\ UNCHANGED <<runnable, submits, due, pool, misused>>

Return(r) ==
  /\ running[r] > 0
  /\ running' = [running EXCEPT ![r] = @ - 1]
  /\ UNCHANGED <<runnable, submits, pending, ran, due, pool, misused, touched>>

(* closeWork or closeTimer, by the run() of r itself or by anybody else:   *)
(* callbacks that are pending still come, a timer is not set any more.     *)
CloseRunnable(r, itself) ==
  /\ runnable[r] = "open"
  /\ itself => running[r] > 0
  /\ runnable' = [runnable EXCEPT ![r] = "deleted"]
  /\ due' = due \ {r}
  /\ misused' = IF itself /\ RunsOnce(r) THEN misused ELSE misused \cup {r}
  /\ UNCHANGED <<submits, pending, running, ran, pool, touched>>

(* stop(wait), also by the destructor, not while startWork submits:        *)
(* CloseThreadpoolCleanupGroupMembers cancels what is pending if told so.  *)
(* Without a cleanup group stop does nothing at all.                       *)
StopPool(wait) ==
  /\ Takes /\ submits = None
  /\ IF pool = "failed"
       THEN pool' = "left" /\ UNCHANGED <<pending, due>>
       ELSE /\ pool' = IF wait THEN "draining" ELSE "cancelling"
            /\ pending' = [r \in Runnable |->
                             IF wait \/ runnable[r] = "deleted" THEN pending[r] ELSE 0]
            /\ due' = {}
  /\ UNCHANGED <<runnable, submits, running, ran, misused, touched>>

(* It returns when no callback of a member is left; one that was closed    *)
(* before may be no member any more.                                       *)
PoolStops ==
  /\ pool \in {"draining", "cancelling"}
  /\ \A r \in Runnable : runnable[r] = "open" => pending[r] = 0 /\ running[r] = 0
  /\ pool' = IF pool = "draining" THEN "drained" ELSE "cancelled"
  /\ runnable' = [r \in Runnable |->
                    IF runnable[r] = "open" THEN "released" ELSE runnable[r]]
  /\ UNCHANGED <<submits, pending, running, ran, due, misused, touched>>

(* The destructor finds the group closed, and a new pool is built.         *)
Rebuild ==
  /\ pool \in {"drained", "cancelled"} /\ pending = None /\ running = None
  /\ pool' \in {"open", "failed"}
  /\ runnable' = [r \in Runnable |-> "new"]
  /\ ran' = None /\ misused' = {} /\ touched' = {}
  /\ UNCHANGED <<submits, pending, running, due>>

PoolNext ==
  \/ \E r \in Work : StartWork(r) \/ Submit(r)
  \/ \E r \in TimerWork : StartPoolTimer(r) \/ FallDue(r)
  \/ \E r \in Runnable : Begin(r) \/ Return(r)
  \/ \E r \in Runnable, itself \in BOOLEAN : CloseRunnable(r, itself)
  \/ \E wait \in BOOLEAN : StopPool(wait)
  \/ PoolStops \/ Rebuild

PoolSpec == PoolInit /\ [][PoolNext]_poolVars

-----------------------------------------------------------------------------
(* A runnable that runs once may close itself in its run(), although       *)
(* startWork's loop may not be over then: neither it nor another callback  *)
(* uses a deleted runnable, unless somebody else closed it, or it had      *)
(* more to run.  And stop(true) returns when every repetition of every     *)
(* work that nobody else closed has run, if the constructor succeeded.     *)
PoolPromises ==
  /\ touched \subseteq misused
  /\ pool = "drained" =>
       \A r \in Work \ misused : runnable[r] # "new" => ran[r] = repeats[r]
=============================================================================
