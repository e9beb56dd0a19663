----------------------------- MODULE TimerQueue -----------------------------
(***************************************************************************)
(* TimerQueue and Timer of Common/util/Timer.cpp: one Windows timer queue  *)
(* for all users, counted by init, which takes m_cs, and by cleanup, which *)
(* does not.  A deleted handle is free for the next queue to have.         *)
(***************************************************************************)
EXTENDS Naturals, FiniteSets

CONSTANTS
  User,       \* each: init, start, stop or ~Timer, cleanup, and again
  MaxCount    \* 2^32 - 1 in the code; bound: nobody calls init beyond

ASSUME UserAssumption == IsFiniteSet(User) /\ MaxCount \in Nat

VARIABLES
  m_nInitCount,
  m_timerQueue,   \* handle of the last queue created, 0 = NULL
  queues,         \* the queues that exist
  user,           \* [User -> "out" | "initing" | "in" | "loaded", "stored", "deleting"]:
                  \* the last three in cleanup
  reg,            \* [User -> the value of m_nInitCount it has loaded]
  m_timer,        \* [User -> queue of its timer, 0 = NULL]
  raced,          \* history: what a cleanup has overlapped, "none", "cleanups" or "inits"
  twice           \* history: a queue was deleted that did not exist any more

timerVars == <<m_nInitCount, m_timerQueue, queues, user, reg, m_timer, raced, twice>>

Handle == 1..Cardinality(User)

TimerInit ==
  /\ m_nInitCount = 0 /\ m_timerQueue = 0 /\ queues = {}
  /\ user = [u \in User |-> "out"]
  /\ reg = [u \in User |-> 0] /\ m_timer = reg
  /\ raced = "none" /\ twice = FALSE

CleaningUp == {u \in User : user[u] \in {"loaded", "stored", "deleting"}}
Initing    == {u \in User : user[u] = "initing"}

Moves(u, from, to) == user[u] = from /\ user' = [user EXCEPT ![u] = to]

-----------------------------------------------------------------------------
(* init has m_cs, creates the queue if it is the first, and loads the      *)
(* count; it returns false if there is no new queue.                       *)
QueueInit(u) ==
  /\ Moves(u, "out", "initing") /\ Initing = {}
  /\ m_nInitCount < MaxCount
  /\ IF m_nInitCount = 0
       THEN \E h \in Handle \ queues : m_timerQueue' = h /\ queues' = queues \cup {h}
       ELSE UNCHANGED <<m_timerQueue, queues>>
  /\ reg' = [reg EXCEPT ![u] = m_nInitCount]
  /\ raced' = IF CleaningUp # {} THEN "inits" ELSE raced
  /\ UNCHANGED <<m_nInitCount, m_timer, twice>>

(* Variant: only the init that creates the queue is counted.               *)
InitCountsOnce(u) ==
  /\ Moves(u, "initing", "in")
  /\ m_nInitCount' = 1
  /\ reg' = [reg EXCEPT ![u] = 0]
  /\ UNCHANGED <<m_timerQueue, queues, m_timer, raced, twice>>

InitCounts(u) ==
  /\ Moves(u, "initing", "in")
  /\ m_nInitCount' = reg[u] + 1
  /\ reg' = [reg EXCEPT ![u] = 0]
  /\ UNCHANGED <<m_timerQueue, queues, m_timer, raced, twice>>

(* cleanup: m_nInitCount-- is a load and a store, line 109.                *)
CountLoads(u) ==
  /\ Moves(u, "in", "loaded") /\ m_timer[u] = 0
  /\ reg' = [reg EXCEPT ![u] = m_nInitCount]
  /\ raced' = IF Initing # {} THEN "inits"
              ELSE IF CleaningUp # {} /\ raced = "none" THEN "cleanups" ELSE raced
  /\ UNCHANGED <<m_nInitCount, m_timerQueue, queues, m_timer, twice>>

CountStores(u) ==
  /\ Moves(u, "loaded", "stored")
  /\ m_nInitCount' = IF reg[u] = 0 THEN MaxCount ELSE reg[u] - 1
  /\ reg' = [reg EXCEPT ![u] = 0]
  /\ UNCHANGED <<m_timerQueue, queues, m_timer, raced, twice>>

(* It looks at the count again, line 111, ...                              *)
LooksAtCount(u) ==
  /\ Moves(u, "stored", IF m_nInitCount = 0 /\ m_timerQueue # 0 THEN "deleting" ELSE "out")
  /\ UNCHANGED <<m_nInitCount, m_timerQueue, queues, reg, m_timer, raced, twice>>

(* ... and deletes the queue, line 112.                                    *)
DeleteQueue(u) ==
  /\ Moves(u, "deleting", "out")
  /\ queues' = queues \ {m_timerQueue}
  /\ twice' = (twice \/ m_timerQueue \notin queues)
  /\ UNCHANGED <<m_nInitCount, m_timerQueue, reg, m_timer, raced>>

(* Timer::start fails if there is no such queue.                           *)
StartTimer(u) ==
  /\ user[u] = "in" /\ m_timer[u] = 0 /\ m_timerQueue \in queues
  /\ m_timer' = [m_timer EXCEPT ![u] = m_timerQueue]
  /\ UNCHANGED <<m_nInitCount, m_timerQueue, queues, user, reg, raced, twice>>

(* stop, or ~Timer.                                                        *)
StopTimer(u) ==
  /\ m_timer[u] # 0
  /\ m_timer' = [m_timer EXCEPT ![u] = 0]
  /\ UNCHANGED <<m_nInitCount, m_timerQueue, queues, user, reg, raced, twice>>

TimerNext ==
  \E u \in User :
    \/ QueueInit(u) \/ InitCounts(u)
    \/ CountLoads(u) \/ CountStores(u) \/ LooksAtCount(u) \/ DeleteQueue(u)
    \/ StartTimer(u) \/ StopTimer(u)

TimerSpec == TimerInit /\ [][TimerNext]_timerVars

-----------------------------------------------------------------------------
(* As long as no init has overlapped a cleanup, a user between init and    *)
(* cleanup has the queue, its timer is in it, and there is never a second  *)
(* one: also after cleanups that took each other's count, which leave it   *)
(* too high and never too low.  As long as not even two cleanups have      *)
(* overlapped, the last one leaves no queue, and none is deleted twice.    *)
OneQueue ==
  /\ raced # "inits" =>
       /\ \A u \in User : user[u] = "in" => m_timerQueue \in queues
       /\ \A u \in User : m_timer[u] # 0 => m_timer[u] \in queues
       /\ queues \subseteq {m_timerQueue}
  /\ raced = "none" =>
       /\ (\A u \in User : user[u] = "out") => queues = {}
       /\ ~twice
=============================================================================
