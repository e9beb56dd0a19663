------------------------------- MODULE RWLock -------------------------------
(***************************************************************************)
(* SlimRWLock of Common/util/Mutex.h as it is built where Windows has no   *)
(* SRWLOCK to offer: two counters and a flag under counter_mutex, and a    *)
(* condition variable each for readers and writers.  What a thread does    *)
(* between taking counter_mutex and waiting or returning is one step.      *)
(***************************************************************************)
EXTENDS Naturals, FiniteSets

CONSTANT Thread

ASSUME ThreadAssumption == IsFiniteSet(Thread)

VARIABLES
  read_cnt, write_cnt, inwriteflag,
  at   \* [Thread -> where it is]: asleep in a wait, woken (it has not looked at
       \* its condition again yet), with the lock, or out of it

lockVars == <<read_cnt, write_cnt, inwriteflag, at>>

Where == {"out", "write asleep", "write woken", "writing",
          "read asleep", "read woken", "reading"}

Are(places) == {t \in Thread : at[t] \in places}

LockInit ==
  /\ read_cnt = 0 /\ write_cnt = 0 /\ inwriteflag = FALSE
  /\ at = [t \in Thread |-> "out"]

(* Variant: a writer that does not wait for readers.                       *)
WaitToWriteOnly(t) ==
  IF ~inwriteflag
    THEN inwriteflag' = TRUE /\ at' = [at EXCEPT ![t] = "writing"]
    ELSE at' = [at EXCEPT ![t] = "write asleep"] /\ UNCHANGED inwriteflag

(* Variant: readers wait for the writer inside, not for those that wait.   *)
WaitToReadOnly(t) ==
  IF ~inwriteflag
    THEN read_cnt' = read_cnt + 1 /\ at' = [at EXCEPT ![t] = "reading"]
    ELSE at' = [at EXCEPT ![t] = "read asleep"] /\ UNCHANGED read_cnt

(* The two waits with their conditions: go in, or fall asleep.             *)
WaitToWrite(t) ==
  IF read_cnt = 0 /\ ~inwriteflag
    THEN /\ inwriteflag' = TRUE
         /\ at' = [at EXCEPT ![t] = "writing"]
    ELSE /\ at' = [at EXCEPT ![t] = "write asleep"]
         /\ UNCHANGED inwriteflag

WaitToRead(t) ==
  IF write_cnt = 0
    THEN /\ read_cnt' = read_cnt + 1
         /\ at' = [at EXCEPT ![t] = "reading"]
    ELSE /\ at' = [at EXCEPT ![t] = "read asleep"]
         /\ UNCHANGED read_cnt

(* Thread t leaves with cond_w.notify_one, or with cond_r.notify_all.      *)
LeaveToWriter(t) ==
  IF Are({"write asleep"}) = {}
    THEN at' = [at EXCEPT ![t] = "out"]
    ELSE \E u \in Are({"write asleep"}) :
           at' = [at EXCEPT ![t] = "out", ![u] = "write woken"]

LeaveToReaders(t) ==
  at' = [u \in Thread |->
           IF u = t THEN "out"
           ELSE IF at[u] = "read asleep" THEN "read woken" ELSE at[u]]

-----------------------------------------------------------------------------
Lock(t) ==
  /\ at[t] = "out"
  /\ write_cnt' = write_cnt + 1
  /\ WaitToWrite(t)
  /\ UNCHANGED read_cnt

LockWoken(t) ==
  /\ at[t] = "write woken"
  /\ WaitToWrite(t)
  /\ UNCHANGED <<read_cnt, write_cnt>>

Unlock(t) ==
  /\ at[t] = "writing"
  /\ write_cnt' = write_cnt - 1
  /\ IF write_cnt = 1 THEN LeaveToReaders(t) ELSE LeaveToWriter(t)
  /\ inwriteflag' = FALSE
  /\ UNCHANGED read_cnt

LockShared(t) ==
  /\ at[t] = "out"
  /\ WaitToRead(t)
  /\ UNCHANGED <<write_cnt, inwriteflag>>

LockSharedWoken(t) ==
  /\ at[t] = "read woken"
  /\ WaitToRead(t)
  /\ UNCHANGED <<write_cnt, inwriteflag>>

(* Variant: the count is tested before it is counted down.                 *)
UnlockSharedSilently(t) ==
  /\ at[t] = "reading"
  /\ read_cnt' = read_cnt - 1 /\ at' = [at EXCEPT ![t] = "out"]
  /\ UNCHANGED <<write_cnt, inwriteflag>>

UnlockShared(t) ==
  /\ at[t] = "reading"
  /\ read_cnt' = read_cnt - 1
  /\ IF read_cnt = 1 /\ write_cnt > 0
       THEN LeaveToWriter(t)
       ELSE at' = [at EXCEPT ![t] = "out"]
  /\ UNCHANGED <<write_cnt, inwriteflag>>

(* A condition variable may wake a thread without a notification.          *)
Spurious(t) ==
  /\ \/ at[t] = "write asleep" /\ at' = [at EXCEPT ![t] = "write woken"]
     \/ at[t] = "read asleep" /\ at' = [at EXCEPT ![t] = "read woken"]
  /\ UNCHANGED <<read_cnt, write_cnt, inwriteflag>>

LockNext ==
  \E t \in Thread :
    \/ Lock(t) \/ LockWoken(t) \/ Unlock(t)
    \/ LockShared(t) \/ LockSharedWoken(t) \/ UnlockShared(t)
    \/ Spurious(t)

LockSpec == LockInit /\ [][LockNext]_lockVars

(* Threads that are awake run on, and who has the lock gives it back.      *)
LockFairness ==
  \A t \in Thread :
    WF_lockVars(LockWoken(t) \/ Unlock(t) \/ LockSharedWoken(t) \/ UnlockShared(t))

LockFairSpec == LockSpec /\ LockFairness

-----------------------------------------------------------------------------
Writers == Are({"writing"})
Readers == Are({"reading"})
Wanting == Are({"write asleep", "write woken", "writing"})

LockTypeOK ==
  /\ read_cnt \in Nat /\ write_cnt \in Nat /\ inwriteflag \in BOOLEAN
  /\ at \in [Thread -> Where]

(* The counters count the threads they stand for.                          *)
Counted ==
  /\ read_cnt = Cardinality(Readers)
  /\ write_cnt = Cardinality(Wanting)

(* The lock excludes: one writer and no reader, or readers only.           *)
Excludes ==
  /\ inwriteflag <=> Writers # {}
  /\ \A t, u \in Writers : t = u
  /\ Writers # {} => Readers = {}

(* No wake-up is lost: somebody sleeps only while another thread is inside *)
(* or on its way in, who will wake it.                                     *)
NobodyForgotten ==
  /\ Are({"write asleep"}) # {} =>
       Writers \cup Readers \cup Are({"write woken"}) # {}
  /\ Are({"read asleep"}) # {} => Wanting # {}

LockInv == LockTypeOK /\ Counted /\ Excludes /\ NobodyForgotten

(* The lock is a reader-writer lock.                                       *)
Promise == INSTANCE SharedLock WITH readers <- Readers, writers <- Writers
ImplementsSharedLock == Promise!Spec

(* While writers want the lock one of them gets it: readers that come      *)
(* later wait.  Nothing of the kind holds for readers.                     *)
WritersEnter == write_cnt > 0 ~> inwriteflag
=============================================================================
