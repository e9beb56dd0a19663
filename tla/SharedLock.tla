----------------------------- MODULE SharedLock -----------------------------
(***************************************************************************)
(* What a reader-writer lock promises: a thread that has it for writing    *)
(* has it alone.                                                           *)
(***************************************************************************)
CONSTANT Thread

VARIABLES readers, writers   \* the threads that have the lock

sharedVars == <<readers, writers>>

Init == readers = {} /\ writers = {}

Acquire(t) ==
  /\ readers = {} /\ writers = {}
  /\ writers' = {t} /\ UNCHANGED readers

Release(t) ==
  /\ t \in writers
  /\ writers' = writers \ {t} /\ UNCHANGED readers

AcquireShared(t) ==
  /\ writers = {} /\ t \notin readers
  /\ readers' = readers \cup {t} /\ UNCHANGED writers

ReleaseShared(t) ==
  /\ t \in readers
  /\ readers' = readers \ {t} /\ UNCHANGED writers

Next ==
  \E t \in Thread :
    Acquire(t) \/ Release(t) \/ AcquireShared(t) \/ ReleaseShared(t)

Spec == Init /\ [][Next]_sharedVars
=============================================================================
