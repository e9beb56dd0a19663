----------------------------- MODULE UtilProofs -----------------------------
(***************************************************************************)
(* Invariants of the parts of Common/util and of the linked list, for      *)
(* every value of their constants: the reader-writer lock, which also      *)
(* implements SharedLock, the singleton, the settings, the list and the    *)
(* loops over it, the timer queue, the thread pool, the ids and the log.   *)
(***************************************************************************)
EXTENDS RWLock, TimerQueue, ThreadPool, Singleton, Settings, DList, Guid, LogFiles,
        FiniteSetTheorems, TLAPS

-----------------------------------------------------------------------------
(* The reader-writer lock.                                                 *)

(* Counting sets of threads.                                               *)
LEMMA SetsOfThreads ==
  ASSUME NEW S \in SUBSET Thread
  PROVE  /\ Cardinality(S) \in Nat
         /\ Cardinality(S) = 0 <=> S = {}
         /\ Cardinality(S) = 1 => \A t, u \in S : t = u
         /\ \A t \in S : Cardinality(S \ {t}) = Cardinality(S) - 1
         /\ \A t \in Thread \ S : Cardinality(S \cup {t}) = Cardinality(S) + 1
<1>1. IsFiniteSet(S)
  BY ThreadAssumption, FS_Subset
<1>2. Cardinality(S) \in Nat
  BY <1>1, FS_CardinalityType
<1>3. Cardinality(S) = 0 <=> S = {}
  BY <1>1, FS_EmptySet
<1>4. Cardinality(S) = 1 => \A t, u \in S : t = u
  BY <1>1, FS_Singleton
<1>5. \A t \in S : Cardinality(S \ {t}) = Cardinality(S) - 1
  BY <1>1, FS_RemoveElement
<1>6. \A t \in Thread \ S : Cardinality(S \cup {t}) = Cardinality(S) + 1
  BY <1>1, FS_AddElement
<1>7. QED
  BY <1>2, <1>3, <1>4, <1>5, <1>6

LEMMA CountedOne ==
  ASSUME NEW S \in SUBSET Thread, NEW t \in S
  PROVE  /\ Cardinality(S) \in Nat /\ Cardinality(S) # 0
         /\ Cardinality(S) = 1 <=> S = {t}
         /\ Cardinality(S \ {t}) = Cardinality(S) - 1
<1>1. Cardinality(S) \in Nat /\ Cardinality(S) # 0 /\ Cardinality(S \ {t}) = Cardinality(S) - 1
  BY SetsOfThreads
<1>2. Cardinality(S) = 1 => S = {t}
  BY SetsOfThreads
<1>3. Cardinality({t}) = 1
  BY FS_Singleton
<1>4. QED
  BY <1>1, <1>2, <1>3

LEMMA PlacesAreThreads ==
  /\ \A places : Are(places) \in SUBSET Thread
  /\ Readers \in SUBSET Thread /\ Wanting \in SUBSET Thread
  BY DEF Are, Readers, Wanting

LEMMA InitLockInv == LockInit => LockInv
<1>1. ASSUME LockInit PROVE LockInv
  <2>1. LockTypeOK
    BY <1>1 DEF LockInit, LockTypeOK, Where
  <2>2. Readers = {} /\ Writers = {} /\ Wanting = {} /\ Are({"write asleep"}) = {}
        /\ Are({"read asleep"}) = {}
    BY <1>1 DEF LockInit, Readers, Writers, Wanting, Are
  <2>3. Counted
    BY <1>1, <2>2, FS_EmptySet DEF LockInit, Counted, Wanting
  <2>4. Excludes /\ NobodyForgotten
    BY <1>1, <2>2 DEF LockInit, Excludes, NobodyForgotten
  <2>5. QED
    BY <2>1, <2>3, <2>4 DEF LockInv
<1>2. QED
  BY <1>1

(* A writer goes in or falls asleep, having been counted.                  *)
LEMMA WaitToWriteKeeps ==
  ASSUME LockTypeOK, NEW t \in Thread, at[t] \in {"out", "write woken"},
         read_cnt = Cardinality(Readers), Excludes,
         read_cnt' = read_cnt, write_cnt' \in Nat,
         write_cnt' = Cardinality(Wanting \cup {t}),
         Are({"write asleep"}) # {} =>
           Writers \cup Readers \cup (Are({"write woken"}) \ {t}) # {}
             \/ at[t] = "write woken",
         WaitToWrite(t)
  PROVE  LockInv'
<1>1. LockTypeOK'
  BY DEF LockTypeOK, WaitToWrite, Where
<1>2. Readers' = Readers /\ Wanting' = Wanting \cup {t}
  BY DEF LockTypeOK, WaitToWrite, Where, Readers, Wanting, Are
<1>3. Counted'
  BY <1>2 DEF Counted, Wanting
<1>4. (read_cnt = 0) <=> (Readers = {})
  BY SetsOfThreads, PlacesAreThreads DEF Readers
<1>5. CASE read_cnt = 0 /\ ~inwriteflag
  <2>1. Writers' = {t} /\ inwriteflag' = TRUE
    BY <1>5 DEF Excludes, WaitToWrite, LockTypeOK, Writers, Are
  <2>2. Excludes' /\ NobodyForgotten'
    BY <2>1, <1>2, <1>4, <1>5 DEF Excludes, NobodyForgotten, Are, Writers
  <2>3. QED
    BY <1>1, <1>3, <2>2 DEF LockInv
<1>6. CASE ~(read_cnt = 0 /\ ~inwriteflag)
  <2>1. Writers' = Writers /\ inwriteflag' = inwriteflag
    BY <1>6 DEF WaitToWrite, LockTypeOK, Writers, Are
  <2>2. Readers # {} \/ Writers # {}
    BY <1>4, <1>6 DEF Excludes
  <2>3. at'[t] = "write asleep"
    BY <1>6 DEF WaitToWrite, LockTypeOK
  <2>4. Excludes'
    BY <2>1, <1>2 DEF Excludes
  <2>5. NobodyForgotten'
    BY <2>1, <2>2, <2>3, <1>2 DEF NobodyForgotten, Are, Writers
  <2>6. QED
    BY <1>1, <1>3, <2>4, <2>5 DEF LockInv
<1>7. QED
  BY <1>5, <1>6

LEMMA ReadersAreNat ==
  ASSUME LockTypeOK, NEW t \in Thread, WaitToRead(t)
  PROVE  read_cnt' \in Nat
<1>1. CASE write_cnt = 0
  BY <1>1 DEF LockTypeOK, WaitToRead
<1>2. CASE write_cnt # 0
  BY <1>2 DEF LockTypeOK, WaitToRead
<1>3. QED
  BY <1>1, <1>2

LEMMA WaitToReadKeeps ==
  ASSUME LockInv, NEW t \in Thread, at[t] \in {"out", "read woken"},
         UNCHANGED <<write_cnt, inwriteflag>>, WaitToRead(t)
  PROVE  LockInv'
<1> USE DEF LockInv
<1>1. LockTypeOK'
  <2>1. at' \in [Thread -> Where]
    BY DEF LockTypeOK, WaitToRead, Where
  <2>2. read_cnt' \in Nat
    BY ReadersAreNat
  <2>3. QED
    BY <2>1, <2>2 DEF LockTypeOK
<1>2. Writers' = Writers /\ Wanting' = Wanting
      /\ Are({"write asleep"})' = Are({"write asleep"})
      /\ Are({"write woken"})' = Are({"write woken"})
  BY DEF LockTypeOK, WaitToRead, Where, Writers, Wanting, Are
<1>3. (write_cnt = 0) <=> (Wanting = {})
  BY SetsOfThreads, PlacesAreThreads DEF Wanting, Counted
<1>4. Writers \subseteq Wanting
  BY DEF Writers, Wanting, Are
<1>5. CASE write_cnt = 0
  <2>1. Readers' = Readers \cup {t} /\ t \notin Readers
    BY <1>5 DEF LockTypeOK, WaitToRead, Readers, Are
  <2>2. Counted'
    <3>1. Cardinality(Readers \cup {t}) = Cardinality(Readers) + 1
      BY <2>1, SetsOfThreads, PlacesAreThreads
    <3>2. read_cnt' = read_cnt + 1
      BY <1>5 DEF WaitToRead
    <3>3. QED
      BY <1>2, <2>1, <3>1, <3>2 DEF Counted
  <2>3. Excludes' /\ NobodyForgotten'
    BY <1>2, <1>3, <1>4, <1>5, <2>1
      DEF Excludes, NobodyForgotten, WaitToRead, Wanting, Are, LockTypeOK
  <2>4. QED
    BY <1>1, <2>2, <2>3
<1>6. CASE write_cnt # 0
  <2>1. Readers' = Readers /\ read_cnt' = read_cnt
    BY <1>6 DEF LockTypeOK, WaitToRead, Readers, Are
  <2>2. Counted' /\ Excludes'
    BY <1>2, <2>1 DEF Counted, Excludes, Wanting
  <2>3. NobodyForgotten'
    BY <1>2, <1>3, <1>6, <2>1 DEF NobodyForgotten, Wanting
  <2>4. QED
    BY <1>1, <2>2, <2>3
<1>7. QED
  BY <1>5, <1>6

LEMMA UnlockKeeps ==
  ASSUME LockInv, NEW t \in Thread, Unlock(t)
  PROVE  LockInv'
<1> USE DEF LockInv
<1>1. t \in Writers /\ t \in Wanting /\ Writers = {t} /\ Readers = {}
  BY DEF Unlock, Excludes, Writers, Wanting, Are
<1>2. /\ write_cnt = Cardinality(Wanting) /\ write_cnt \in Nat /\ write_cnt # 0
      /\ write_cnt = 1 <=> Wanting = {t}
      /\ Cardinality(Wanting \ {t}) = write_cnt - 1
  BY <1>1, CountedOne, PlacesAreThreads DEF Counted
<1>0. write_cnt' = write_cnt - 1 /\ write_cnt' \in Nat
  BY <1>2 DEF Unlock
<1>3. CASE write_cnt = 1
  <2>1. \A u \in Thread : at'[u] = IF u = t THEN "out"
          ELSE IF at[u] = "read asleep" THEN "read woken" ELSE at[u]
    BY <1>3 DEF Unlock, LeaveToReaders
  <2>2. LockTypeOK'
    <3>1. at' \in [Thread -> Where]
      BY <1>3 DEF Unlock, LeaveToReaders, LockTypeOK, Where
    <3>2. QED
      BY <1>0, <3>1 DEF LockTypeOK, Unlock
  <2>3. Wanting' = {} /\ Writers' = {} /\ Readers' = {}
    BY <1>1, <1>2, <1>3, <2>1 DEF Wanting, Writers, Readers, Are
  <2>4. Counted'
    BY <1>1, <1>2, <1>3, <2>3, FS_EmptySet DEF Counted, Wanting, Unlock
  <2>5. Excludes'
    BY <2>3 DEF Excludes, Unlock
  <2>6. NobodyForgotten'
    BY <2>1, <2>3 DEF NobodyForgotten, Wanting, Are
  <2>7. QED
    BY <2>2, <2>4, <2>5, <2>6
<1>4. CASE write_cnt # 1 /\ Are({"write asleep"}) = {}
  <2>1. at' = [at EXCEPT ![t] = "out"]
    BY <1>4 DEF Unlock, LeaveToWriter
  <2>2. LockTypeOK'
    <3>1. at' \in [Thread -> Where]
      BY <2>1 DEF LockTypeOK, Where
    <3>2. QED
      BY <1>0, <3>1 DEF LockTypeOK, Unlock
  <2>3. Wanting' = Wanting \ {t} /\ Writers' = {} /\ Readers' = {}
    BY <1>1, <2>1 DEF Wanting, Writers, Readers, Are, LockTypeOK
  <2>4. Counted'
    BY <1>1, <1>2, <2>3 DEF Counted, Wanting, Unlock
  <2>5. Excludes'
    BY <2>3 DEF Excludes, Unlock
  <2>6. Wanting' # {}
    BY <1>1, <1>2, <1>4, <2>3
  <2>7. Are({"write asleep"})' = {}
    BY <1>4, <2>1 DEF Are, LockTypeOK
  <2>8. NobodyForgotten'
    BY <2>6, <2>7 DEF NobodyForgotten, Wanting
  <2>9. QED
    BY <2>2, <2>4, <2>5, <2>8
<1>5. CASE write_cnt # 1 /\ Are({"write asleep"}) # {}
  <2>1. PICK u \in Are({"write asleep"}) :
          at' = [at EXCEPT ![t] = "out", ![u] = "write woken"]
    BY <1>5 DEF Unlock, LeaveToWriter
  <2>2. u \in Thread /\ u # t /\ at[u] = "write asleep"
    BY DEF Are, Unlock
  <2>3. LockTypeOK'
    <3>1. at' \in [Thread -> Where]
      BY <2>1 DEF LockTypeOK, Where
    <3>2. QED
      BY <1>0, <3>1 DEF LockTypeOK, Unlock
  <2>4. Wanting' = Wanting \ {t} /\ Writers' = {} /\ Readers' = {}
    BY <1>1, <2>1, <2>2 DEF Wanting, Writers, Readers, Are, LockTypeOK
  <2>5. Counted'
    BY <1>1, <1>2, <2>4 DEF Counted, Wanting, Unlock
  <2>6. Excludes'
    BY <2>4 DEF Excludes, Unlock
  <2>7. u \in Are({"write woken"})'
    BY <2>1, <2>2 DEF Are, LockTypeOK
  <2>10. u \in Wanting'
    BY <2>1, <2>2 DEF Are, Wanting, LockTypeOK
  <2>8. NobodyForgotten'
    BY <2>7, <2>10 DEF NobodyForgotten
  <2>9. QED
    BY <2>3, <2>5, <2>6, <2>8
<1>6. QED
  BY <1>3, <1>4, <1>5

LEMMA UnlockSharedKeeps ==
  ASSUME LockInv, NEW t \in Thread, UnlockShared(t)
  PROVE  LockInv'
<1> USE DEF LockInv
<1>1. t \in Readers /\ Writers = {}
  BY DEF UnlockShared, Excludes, Readers, Are
<1>2. /\ read_cnt = Cardinality(Readers) /\ read_cnt \in Nat /\ read_cnt # 0
      /\ read_cnt = 1 <=> Readers = {t}
      /\ Cardinality(Readers \ {t}) = read_cnt - 1
  BY <1>1, CountedOne, PlacesAreThreads DEF Counted
<1>6. write_cnt = 0 => Wanting = {}
  BY SetsOfThreads, PlacesAreThreads DEF Counted
<1>0. read_cnt' = read_cnt - 1 /\ read_cnt' \in Nat
  BY <1>2 DEF UnlockShared
<1>3. CASE read_cnt = 1 /\ write_cnt > 0 /\ Are({"write asleep"}) # {}
  <2>1. PICK u \in Are({"write asleep"}) :
          at' = [at EXCEPT ![t] = "out", ![u] = "write woken"]
    BY <1>3 DEF UnlockShared, LeaveToWriter
  <2>2. u \in Thread /\ u # t /\ at[u] = "write asleep"
    BY DEF Are, UnlockShared
  <2>3. LockTypeOK'
    <3>1. at' \in [Thread -> Where]
      BY <2>1 DEF LockTypeOK, Where
    <3>2. QED
      BY <1>0, <3>1 DEF LockTypeOK, UnlockShared
  <2>4. Wanting' = Wanting /\ Writers' = {} /\ Readers' = Readers \ {t}
    BY <1>1, <2>1, <2>2 DEF Wanting, Writers, Readers, Are, LockTypeOK, UnlockShared
  <2>5. Counted'
    BY <1>2, <2>4 DEF Counted, Wanting, UnlockShared
  <2>6. Excludes'
    BY <1>1, <2>4 DEF Excludes, UnlockShared
  <2>7. u \in Are({"write woken"})'
    BY <2>1, <2>2 DEF Are, LockTypeOK
  <2>10. u \in Wanting'
    BY <2>1, <2>2 DEF Are, Wanting, LockTypeOK
  <2>8. NobodyForgotten'
    BY <2>7, <2>10 DEF NobodyForgotten
  <2>9. QED
    BY <2>3, <2>5, <2>6, <2>8
<1>4. CASE ~(read_cnt = 1 /\ write_cnt > 0 /\ Are({"write asleep"}) # {})
  <2>1. at' = [at EXCEPT ![t] = "out"]
    BY <1>4 DEF UnlockShared, LeaveToWriter
  <2>2. LockTypeOK'
    <3>1. at' \in [Thread -> Where]
      BY <2>1 DEF LockTypeOK, Where
    <3>2. QED
      BY <1>0, <3>1 DEF LockTypeOK, UnlockShared
  <2>3. /\ Wanting' = Wanting /\ Writers' = {} /\ Readers' = Readers \ {t}
        /\ Are({"write asleep"})' = Are({"write asleep"})
        /\ Are({"read asleep"})' = Are({"read asleep"})
    BY <1>1, <2>1 DEF Wanting, Writers, Readers, Are, LockTypeOK, UnlockShared
  <2>4. Counted'
    BY <1>2, <2>3 DEF Counted, Wanting, UnlockShared
  <2>5. Excludes'
    BY <1>1, <2>3 DEF Excludes, UnlockShared
  <2>6. Are({"write asleep"}) # {} => Readers' # {}
    <3>1. Are({"write asleep"}) # {} => write_cnt > 0
      <4>1. Are({"write asleep"}) \subseteq Wanting
        BY DEF Are, Wanting
      <4>2. write_cnt \in Nat
        BY DEF LockTypeOK
      <4>3. write_cnt # 0 => write_cnt > 0
        BY <4>2, SMT
      <4>4. QED
        BY <1>6, <4>1, <4>3
    <3>2. QED
      BY <1>1, <1>2, <1>4, <2>3, <3>1
  <2>7. NobodyForgotten'
    BY <2>3, <2>6 DEF NobodyForgotten, Wanting
  <2>8. QED
    BY <2>2, <2>4, <2>5, <2>7
<1>5. QED
  BY <1>3, <1>4

LEMMA SpuriousKeeps ==
  ASSUME LockInv, NEW t \in Thread, Spurious(t)
  PROVE  LockInv'
<1> USE DEF LockInv
<1>1. LockTypeOK'
  BY DEF Spurious, LockTypeOK, Where
<1>2. /\ Writers' = Writers /\ Readers' = Readers /\ Wanting' = Wanting
      /\ Are({"write asleep"})' \subseteq Are({"write asleep"})
      /\ Are({"read asleep"})' \subseteq Are({"read asleep"})
      /\ Are({"write woken"}) \subseteq Are({"write woken"})'
  BY DEF Spurious, LockTypeOK, Where, Writers, Readers, Wanting, Are
<1>3. Counted' /\ Excludes'
  BY <1>2 DEF Counted, Excludes, Spurious, Wanting
<1>4. NobodyForgotten'
  BY <1>2 DEF NobodyForgotten, Wanting
<1>5. QED
  BY <1>1, <1>3, <1>4

LEMMA StepKeepsLockInv == LockInv /\ [LockNext]_lockVars => LockInv'
<1> SUFFICES ASSUME LockInv, [LockNext]_lockVars PROVE LockInv'
  OBVIOUS
<1>1. ASSUME NEW t \in Thread, Lock(t) PROVE LockInv'
  <2>1. t \notin Wanting /\ at[t] = "out"
    BY <1>1 DEF Lock, Wanting, Are
  <2>2. write_cnt' = Cardinality(Wanting \cup {t}) /\ write_cnt' \in Nat
    <3>1. Cardinality(Wanting \cup {t}) = Cardinality(Wanting) + 1
      BY <2>1, SetsOfThreads, PlacesAreThreads
    <3>2. write_cnt' = write_cnt + 1 /\ write_cnt \in Nat
      BY <1>1 DEF Lock, LockInv, LockTypeOK
    <3>3. QED
      BY <3>1, <3>2 DEF LockInv, Counted
  <2>3. Are({"write asleep"}) # {} =>
           Writers \cup Readers \cup (Are({"write woken"}) \ {t}) # {}
    BY <2>1 DEF LockInv, NobodyForgotten, Are
  <2>4. QED
    BY <1>1, <2>1, <2>2, <2>3, WaitToWriteKeeps DEF LockInv, Lock, Counted
<1>2. ASSUME NEW t \in Thread, LockWoken(t) PROVE LockInv'
  <2>1. Wanting \cup {t} = Wanting /\ at[t] = "write woken"
    BY <1>2 DEF LockWoken, Wanting, Are
  <2>2. write_cnt' = Cardinality(Wanting \cup {t}) /\ write_cnt' \in Nat
    BY <1>2, <2>1 DEF LockInv, LockWoken, Counted, LockTypeOK
  <2>3. QED
    BY <1>2, <2>1, <2>2, WaitToWriteKeeps DEF LockInv, LockWoken, Counted
<1>3. ASSUME NEW t \in Thread, LockShared(t) \/ LockSharedWoken(t) PROVE LockInv'
  BY <1>3, WaitToReadKeeps DEF LockShared, LockSharedWoken
<1>4. CASE UNCHANGED lockVars
  BY <1>4 DEF lockVars, LockInv, LockTypeOK, Counted, Excludes, NobodyForgotten,
              Writers, Readers, Wanting, Are
<1>5. QED
  BY <1>1, <1>2, <1>3, <1>4, UnlockKeeps, UnlockSharedKeeps, SpuriousKeeps DEF LockNext

(* The counters count the threads they stand for, the lock excludes, and   *)
(* no wake-up is lost, however many threads there are: SlimRWLock's lock,  *)
(* unlock and their shared forms.                                          *)
THEOREM LockIsRight == LockSpec => []LockInv
  BY InitLockInv, StepKeepsLockInv, PTL DEF LockSpec

-----------------------------------------------------------------------------
LEMMA StepIsPromised ==
  LockInv /\ [LockNext]_lockVars => [Promise!Next]_<<Readers, Writers>>
<1> SUFFICES ASSUME LockInv, [LockNext]_lockVars
             PROVE  Promise!Next \/ UNCHANGED <<Readers, Writers>>
  OBVIOUS
<1> USE DEF LockInv
<1>1. ASSUME NEW t \in Thread, Lock(t) \/ LockWoken(t)
      PROVE  Promise!Acquire(t) \/ UNCHANGED <<Readers, Writers>>
  <2>1. WaitToWrite(t) /\ at[t] \notin {"reading", "writing"}
    BY <1>1 DEF Lock, LockWoken
  <2>2. Readers' = Readers
    BY <2>1 DEF WaitToWrite, Readers, Are, LockTypeOK
  <2>3. CASE read_cnt = 0 /\ ~inwriteflag
    <3>1. Readers = {} /\ Writers = {}
      BY <2>3, SetsOfThreads, PlacesAreThreads DEF Counted, Excludes, Readers
    <3>2. Writers' = {t}
      BY <2>1, <2>3, <3>1 DEF WaitToWrite, Writers, Are, LockTypeOK
    <3>3. QED
      BY <2>2, <3>1, <3>2 DEF Promise!Acquire
  <2>4. CASE ~(read_cnt = 0 /\ ~inwriteflag)
    <3>1. Writers' = Writers
      BY <2>1, <2>4 DEF WaitToWrite, Writers, Are, LockTypeOK
    <3>2. QED
      BY <2>2, <3>1
  <2>5. QED
    BY <2>3, <2>4
<1>2. ASSUME NEW t \in Thread, LockShared(t) \/ LockSharedWoken(t)
      PROVE  Promise!AcquireShared(t) \/ UNCHANGED <<Readers, Writers>>
  <2>1. WaitToRead(t) /\ at[t] \notin {"reading", "writing"}
    BY <1>2 DEF LockShared, LockSharedWoken
  <2>2. Writers' = Writers
    BY <2>1 DEF WaitToRead, Writers, Are, LockTypeOK
  <2>3. CASE write_cnt = 0
    <3>1. Wanting = {}
      BY <2>3, SetsOfThreads, PlacesAreThreads DEF Counted, Wanting
    <3>2. Writers = {}
      BY <3>1 DEF Writers, Wanting, Are
    <3>3. Readers' = Readers \cup {t} /\ t \notin Readers
      BY <2>1, <2>3 DEF WaitToRead, Readers, Are, LockTypeOK
    <3>4. QED
      BY <2>2, <3>2, <3>3 DEF Promise!AcquireShared
  <2>4. CASE write_cnt # 0
    <3>1. Readers' = Readers
      BY <2>1, <2>4 DEF WaitToRead, Readers, Are, LockTypeOK
    <3>2. QED
      BY <2>2, <3>1
  <2>5. QED
    BY <2>3, <2>4
<1>3. ASSUME NEW t \in Thread, Unlock(t) PROVE Promise!Release(t)
  <2>1. \A u \in Thread : at'[u] # at[u] =>
          \/ u = t /\ at'[u] = "out"
          \/ /\ at[u] \in {"write asleep", "read asleep"}
             /\ at'[u] \in {"write woken", "read woken"}
    BY <1>3 DEF Unlock, LeaveToReaders, LeaveToWriter, LockTypeOK, Are
  <2>2. at'[t] = "out" /\ at[t] = "writing"
    BY <1>3 DEF Unlock, LeaveToReaders, LeaveToWriter, LockTypeOK, Are
  <2>3. Readers' = Readers
    BY <2>1, <2>2 DEF Readers, Are
  <2>4. Writers' = Writers \ {t} /\ t \in Writers
    BY <2>1, <2>2 DEF Writers, Are
  <2>5. QED
    BY <2>3, <2>4 DEF Promise!Release
<1>4. ASSUME NEW t \in Thread, UnlockShared(t) PROVE Promise!ReleaseShared(t)
  <2>1. \A u \in Thread : at'[u] # at[u] =>
          \/ u = t /\ at'[u] = "out"
          \/ at[u] = "write asleep" /\ at'[u] = "write woken"
    BY <1>4 DEF UnlockShared, LeaveToWriter, LockTypeOK, Are
  <2>2. at'[t] = "out" /\ at[t] = "reading"
    BY <1>4 DEF UnlockShared, LeaveToWriter, LockTypeOK, Are
  <2>3. Writers' = Writers
    BY <2>1, <2>2 DEF Writers, Are
  <2>4. Readers' = Readers \ {t} /\ t \in Readers
    BY <2>1, <2>2 DEF Readers, Are
  <2>5. QED
    BY <2>3, <2>4 DEF Promise!ReleaseShared
<1>5. ASSUME NEW t \in Thread, Spurious(t) PROVE UNCHANGED <<Readers, Writers>>
  BY <1>5 DEF Spurious, Readers, Writers, Are, LockTypeOK
<1>6. CASE UNCHANGED lockVars
  BY <1>6 DEF lockVars, Readers, Writers, Are
<1>7. QED
  BY <1>1, <1>2, <1>3, <1>4, <1>5, <1>6 DEF LockNext, Promise!Next

(* The counters, the flag and the two condition variables of SlimRWLock    *)
(* together do what SharedLock promises.                                   *)
THEOREM LockImplements == LockSpec => ImplementsSharedLock
<1>1. LockInit => Promise!Init
  BY DEF LockInit, Promise!Init, Readers, Writers, Are
<1>2. QED
  BY <1>1, LockIsRight, StepIsPromised, PTL
    DEF LockSpec, ImplementsSharedLock, Promise!Spec, Promise!sharedVars

-----------------------------------------------------------------------------
(* Singleton: m_cs is with the caller that creates or is about to leave,   *)
(* and what exists is what m_pInstance points to.                          *)
SingletonInv ==
  /\ instances = m_pInstance /\ \A i, j \in instances : i = j
  /\ caller \in [Caller -> {"idle", "create", "leave", "return", "use"}]
  /\ got \in [Caller -> SUBSET Instance] /\ m_pInstance \in SUBSET Instance
  /\ \A c \in Caller : caller[c] \in {"create", "leave"} <=> c \in csOwner
  /\ \A c, d \in csOwner : c = d
  /\ \A c \in Caller : caller[c] = "create" => m_pInstance = {}
  /\ \A c \in Caller : caller[c] \in {"leave", "return", "use"} => m_pInstance # {}
  /\ \A c \in Caller : caller[c] = "use" => got[c] = m_pInstance

LEMMA SingletonStep ==
  ASSUME ~ReleasesLate, SingletonInv, [SingletonNext]_singletonVars
  PROVE  SingletonInv'
<1> USE DEF SingletonInv, Goes
<1>1. ASSUME NEW c \in Caller, GetEnters(c) PROVE SingletonInv'
  BY <1>1 DEF GetEnters, LocksCs
<1>2. ASSUME NEW c \in Caller, GetCreates(c) PROVE SingletonInv'
  <2>1. caller[c] = "create" /\ c \in csOwner /\ instances = {}
    BY <1>2 DEF GetCreates
  <2>2. PICK i \in Instance : m_pInstance' = {i} /\ instances' = {i}
    BY <1>2, <2>1 DEF GetCreates
  <2>3. \A d \in Caller : caller[d] \notin {"leave", "return", "use"}
    BY <2>1
  <2>4. QED
    BY <1>2, <2>1, <2>2, <2>3 DEF GetCreates
<1>3. ASSUME NEW c \in Caller, GetLeaves(c) PROVE SingletonInv'
  BY <1>3 DEF GetLeaves
<1>4. ASSUME NEW c \in Caller, GetReturns(c) PROVE SingletonInv'
  BY <1>4 DEF GetReturns
<1>5. ASSUME NEW c \in Caller, UsesNoMore(c) PROVE SingletonInv'
  BY <1>5 DEF UsesNoMore
<1>6. ASSUME NEW c \in Caller, ReleaseInstance(c) PROVE SingletonInv'
  BY <1>6 DEF ReleaseInstance
<1>7. CASE UNCHANGED singletonVars
  BY <1>7 DEF singletonVars
<1>8. QED
  BY <1>1, <1>2, <1>3, <1>4, <1>5, <1>6, <1>7 DEF SingletonNext

(* GetInstance gives every caller the one instance, as long as             *)
(* ReleaseInstance is called when nobody uses the class: Singleton.h.      *)
THEOREM SingletonIsOne ==
  ASSUME ~ReleasesLate
  PROVE  SingletonSpec => []OneInstance
<1>1. SingletonInit => SingletonInv
  BY DEF SingletonInit, SingletonInv
<1>2. SingletonInv /\ [SingletonNext]_singletonVars => SingletonInv'
  BY SingletonStep
<1>3. SingletonInv => OneInstance
  BY DEF SingletonInv, OneInstance
<1>4. QED
  BY <1>1, <1>2, <1>3, PTL DEF SingletonSpec

-----------------------------------------------------------------------------
(* Settings: who has g_rwLock is where getValue takes it, and a value that *)
(* is in the map is never NoValue again.                                   *)
AnyValue == {Value[f][k] : f \in File, k \in Key} \cup {NoValue}

SettingsInv ==
  /\ \A t \in Reader : call[t].at = "search" <=> t \in rwReaders
  /\ \A t \in Reader : call[t].at = "insert" <=> t \in rwWriters
  /\ rwWriters # {} => rwReaders = {}
  /\ \A t, u \in rwWriters : t = u
  /\ rwReaders \in SUBSET Reader /\ rwWriters \in SUBSET Reader
  /\ g_strProfile \in File
  /\ loading \in SUBSET File
  /\ call \in [Reader -> [at : {"idle", "search", "found", "returned", "missed", "read",
                                "insert"},
                          key : Key \cup {NoValue}, val : AnyValue]]
  /\ g_settings \in [Key -> AnyValue]
  /\ \A t \in Reader : call[t].at # "idle" => call[t].key \in Key
  /\ \A t \in Reader :
       call[t].at \in {"found", "returned"} =>
         call[t].val # NoValue /\ call[t].val = g_settings[call[t].key]

LEMMA SettingsStep ==
  SettingsInv /\ [SettingsNext]_settingsVars => SettingsInv'
<1> SUFFICES ASSUME SettingsInv, [SettingsNext]_settingsVars PROVE SettingsInv'
  OBVIOUS
<1> USE DEF SettingsInv, At, Idle
<1> NoValue \in AnyValue
  BY DEF AnyValue
<1>1. ASSUME NEW f \in File, LoadFromProfile(f) PROVE SettingsInv'
  BY <1>1 DEF LoadFromProfile
<1>10. ASSUME NEW f \in File, Loaded(f) PROVE SettingsInv'
  BY <1>10 DEF Loaded
<1>2. ASSUME NEW t \in Reader, NEW k \in Key, Search(t, k) PROVE SettingsInv'
  BY <1>2 DEF Search, g_rwLock!AcquireShared
<1>3. ASSUME NEW t \in Reader, Searched(t) PROVE SettingsInv'
  <2>1. call[t].at = "search" /\ call[t].key \in Key /\ g_settings[call[t].key] \in AnyValue
    BY <1>3 DEF Searched
  <2>2. PICK a \in {"found", "missed"} :
          /\ call' = [call EXCEPT ![t] = [at |-> a, key |-> call[t].key,
                                         val |-> g_settings[call[t].key]]]
          /\ a = "found" => g_settings[call[t].key] # NoValue
    BY <1>3 DEF Searched
  <2>3. QED
    BY <1>3, <2>1, <2>2 DEF Searched, g_rwLock!ReleaseShared
<1>4. ASSUME NEW t \in Reader, ReadValue(t) PROVE SettingsInv'
  <2>1. call[t].key \in Key
    BY <1>4 DEF ReadValue
  <2>2. PICK v \in AnyValue :
          call' = [call EXCEPT ![t] = IF v = NoValue THEN Idle ELSE At("read", call[t].key, v)]
    <3>1. MayRead(call[t].key) \subseteq AnyValue
      BY <2>1 DEF MayRead, AnyValue
    <3>2. QED
      BY <1>4, <3>1 DEF ReadValue
  <2>3. PICK new \in [at : {"idle", "read"}, key : Key \cup {NoValue}, val : AnyValue] :
          call' = [call EXCEPT ![t] = new] /\ (new.at = "read" => new.key \in Key)
    <3>1. CASE v = NoValue
      <4>1. call' = [call EXCEPT ![t] = Idle]
        BY <2>2, <3>1
      <4>2. Idle \in [at : {"idle", "read"}, key : Key \cup {NoValue}, val : AnyValue]
        OBVIOUS
      <4>3. QED
        BY <4>1, <4>2
    <3>2. CASE v # NoValue
      <4>1. call' = [call EXCEPT ![t] = At("read", call[t].key, v)]
        BY <2>2, <3>2
      <4>2. At("read", call[t].key, v)
              \in [at : {"idle", "read"}, key : Key \cup {NoValue}, val : AnyValue]
        BY <2>1
      <4>3. QED
        BY <4>1, <4>2, <2>1
    <3>3. QED
      BY <3>1, <3>2
  <2>4. QED
    BY <1>4, <2>3 DEF ReadValue
<1>5. ASSUME NEW t \in Reader, BeginInsert(t) PROVE SettingsInv'
  BY <1>5 DEF BeginInsert, g_rwLock!Acquire
<1>6. ASSUME NEW t \in Reader, Inserted(t) PROVE SettingsInv'
  BY <1>6 DEF Inserted, Insert, g_rwLock!Release
<1>7. ASSUME NEW t \in Reader, ReturnsFound(t) PROVE SettingsInv'
  <2>1. call[t].at = "found" /\ call[t].key \in Key /\ g_settings[call[t].key] \in AnyValue
    BY <1>7 DEF ReturnsFound
  <2>2. QED
    BY <1>7, <2>1 DEF ReturnsFound
<1>8. CASE UNCHANGED settingsVars
  BY <1>8 DEF settingsVars
<1>9. QED
  BY <1>1, <1>2, <1>3, <1>4, <1>5, <1>6, <1>7, <1>8, <1>10 DEF SettingsNext

(* getValue: nobody inserts while another thread searches, what an         *)
(* iterator points to when it is used without the lock is what was found,  *)
(* and it stays in the map, whatever profiles and readers there are, even  *)
(* while the profile's name is being assigned.                             *)
THEOREM SettingsStay == SettingsSpec => []FoundForGood
<1>1. SettingsInit => SettingsInv
  BY FileAssumption DEF SettingsInit, SettingsInv, AnyValue, Idle, At, g_rwLock!Init
<1>2. SettingsInv => FoundForGood
  BY DEF SettingsInv, FoundForGood
<1>3. QED
  BY <1>1, <1>2, SettingsStep, PTL DEF SettingsSpec

-----------------------------------------------------------------------------
(* Linked list.                                                            *)
LEMMA WellLinkedStep == WellLinked /\ [DllNext]_dllVars => WellLinked'
<1> SUFFICES ASSUME WellLinked, [DllNext]_dllVars PROVE WellLinked'
  OBVIOUS
<1> USE EntryAssumption DEF WellLinked
<1>1. ASSUME NEW d \in Entry, NEW h \in Header, AddEntry(d, h) PROVE WellLinked'
  <2>1. next[d] = NULL /\ prev[d] = NULL
    BY <1>1 DEF AddEntry, DllAddFront
  <2>2. \A n \in Entry \cup Header : next[n] # d
    BY <2>1
  <2>3. \A n \in Entry \cup Header :
          next'[n] = IF n = h THEN d ELSE IF n = d THEN next[h] ELSE next[n]
    BY <1>1 DEF AddEntry, DllAddFront
  <2>4. \A n \in Entry :
          prev'[n] = IF n = d THEN h ELSE IF n = next[h] THEN d ELSE prev[n]
    BY <1>1 DEF AddEntry, DllAddFront
  <2>5. /\ next' \in [Entry \cup Header -> Entry \cup {NULL}]
        /\ prev' \in [Entry -> Entry \cup Header \cup {NULL}]
    BY <1>1 DEF AddEntry, DllAddFront
  <2>6. \A n \in Entry \cup Header, e \in Entry : next'[n] = e <=> prev'[e] = n
    BY <2>1, <2>2, <2>3, <2>4
  <2>7. \A e \in Entry : prev'[e] = NULL => next'[e] = NULL
    BY <2>1, <2>2, <2>3, <2>4
  <2>8. QED
    BY <2>5, <2>6, <2>7
<1>2. ASSUME NEW d \in Entry, RemoveEntry(d) PROVE WellLinked'
  <2>1. prev[d] \in Entry \cup Header /\ next[prev[d]] = d
    BY <1>2 DEF RemoveEntry, DllRemove
  <2>2. \A n \in Entry \cup Header :
          next'[n] = IF n = d THEN NULL ELSE IF n = prev[d] THEN next[d] ELSE next[n]
    BY <1>2, <2>1 DEF RemoveEntry, DllRemove
  <2>3. \A n \in Entry :
          prev'[n] = IF n = d THEN NULL ELSE IF n = next[d] THEN prev[d] ELSE prev[n]
    BY <1>2 DEF RemoveEntry, DllRemove
  <2>4. /\ next' \in [Entry \cup Header -> Entry \cup {NULL}]
        /\ prev' \in [Entry -> Entry \cup Header \cup {NULL}]
    BY <1>2, <2>1 DEF RemoveEntry, DllRemove
  <2>5. \A n \in Entry \cup Header, e \in Entry : next'[n] = e <=> prev'[e] = n
    BY <2>1, <2>2, <2>3
  <2>6. \A e \in Entry : prev'[e] = NULL => next'[e] = NULL
    BY <2>1, <2>2, <2>3
  <2>7. QED
    BY <2>4, <2>5, <2>6
<1>3. ASSUME UNCHANGED <<next, prev>> PROVE WellLinked'
  BY <1>3
<1>4. QED
  BY <1>1, <1>2, <1>3 DEF DllNext, dllVars, BeginLoop, NextOfLoop

(* dll_add_front and dll_remove keep the two chains of pointers each       *)
(* other's reverse, for any number of entries and lists.                   *)
THEOREM ListIsWellLinked == DllSpec => []WellLinked
<1>1. DllInit => WellLinked
  BY EntryAssumption DEF DllInit, WellLinked
<1>2. QED
  BY <1>1, WellLinkedStep, PTL DEF DllSpec

(* The entries the loop has still to come to.                              *)
ToCome == toVisit \ visited

(* The invariant of the induction: the entries to come are linked with     *)
(* each other only, the next one (tmp) is the first of them, and they are  *)
(* the least set that holds tmp and the followers of its members.          *)
LoopInv ==
  /\ WellLinked
  /\ toVisit \in SUBSET Entry /\ visited \in SUBSET toVisit
  /\ it \in Entry \cup {NULL} /\ tmp \in ToCome \cup {NULL}
  /\ it = NULL => tmp = NULL
  /\ tmp = NULL => ToCome = {}
  /\ \A e \in ToCome : prev[e] # NULL /\ next[e] \in ToCome \cup {NULL}
  /\ tmp # NULL => prev[tmp] \notin ToCome
  /\ tmp # NULL => \A k \in SUBSET Entry :
       tmp \in k /\ (\A e \in k : next[e] \in k \cup {NULL}) => ToCome \subseteq k

(* An action that leaves the loop alone and the entries to come.           *)
LEMMA ToComeStays ==
  ASSUME LoopInv, WellLinked', UNCHANGED loopVars,
         \A e \in ToCome : next'[e] = next[e] /\ prev'[e] # NULL,
         tmp # NULL => prev'[tmp] \notin ToCome
  PROVE  LoopInv'
<1>1. UNCHANGED <<it, tmp, toVisit, visited, ToCome>>
  BY DEF loopVars, ToCome
<1>2. ASSUME tmp # NULL, NEW k \in SUBSET Entry, tmp \in k,
             \A e \in k : next'[e] \in k \cup {NULL}
      PROVE  ToCome \subseteq k
  <2> DEFINE j == k \cap ToCome
  <2>1. tmp \in j
    BY <1>2 DEF LoopInv
  <2>2. \A e \in j : next[e] \in j \cup {NULL}
    BY <1>2 DEF LoopInv
  <2>3. j \in SUBSET Entry
    OBVIOUS
  <2>4. ToCome \subseteq j
    BY <1>2, <2>1, <2>2, <2>3 DEF LoopInv
  <2>5. QED
    BY <2>4
<1>3. QED
  BY <1>1, <1>2 DEF LoopInv

(* dll_add_front between two steps of a loop.                              *)
LEMMA AddKeeps ==
  ASSUME LoopInv, WellLinked', NEW d \in Entry, NEW h \in Header, AddEntry(d, h)
  PROVE  LoopInv'
<1>1. /\ prev[d] = NULL /\ UNCHANGED loopVars
      /\ next' = [next EXCEPT ![d] = next[h], ![h] = d]
      /\ prev' = [n \in Entry |->
                    IF n = d THEN h ELSE IF n = next[h] THEN d ELSE prev[n]]
  BY DEF AddEntry, DllAddFront
<1>2. d \notin ToCome /\ ToCome \subseteq Entry
  BY <1>1 DEF LoopInv, ToCome
<1>3. \A e \in ToCome : next'[e] = next[e] /\ prev'[e] # NULL
  BY <1>1, <1>2, EntryAssumption DEF LoopInv, WellLinked
<1>4. ASSUME tmp # NULL PROVE prev'[tmp] \notin ToCome
  <2>1. tmp \in Entry /\ tmp # d
    BY <1>2, <1>4 DEF LoopInv
  <2>2. prev'[tmp] \in {d, prev[tmp]}
    BY <1>1, <2>1
  <2>3. QED
    BY <1>2, <1>4, <2>2 DEF LoopInv
<1>5. QED
  BY <1>1, <1>3, <1>4, ToComeStays

(* dll_remove of an entry that the loop has been at, or never comes to.    *)
LEMMA RemoveKeeps ==
  ASSUME LoopInv, WellLinked', NEW d \in Entry, RemoveEntry(d)
  PROVE  LoopInv'
<1>1. /\ prev[d] # NULL /\ d \notin ToCome /\ UNCHANGED loopVars
      /\ next' = [next EXCEPT ![prev[d]] = next[d], ![d] = NULL]
      /\ prev' = [n \in Entry |->
                    IF n = d THEN NULL ELSE IF n = next[d] THEN prev[d] ELSE prev[n]]
  BY DEF RemoveEntry, DllRemove, ToCome
<1>2. prev[d] \notin ToCome /\ ToCome \subseteq Entry /\ prev[d] \in Entry \cup Header
  <2>1. next[prev[d]] = d /\ prev[d] \in Entry \cup Header
    BY <1>1 DEF LoopInv, WellLinked
  <2>2. QED
    BY <1>1, <2>1, EntryAssumption DEF LoopInv, ToCome
<1>3. \A e \in ToCome : next'[e] = next[e] /\ prev'[e] # NULL
  BY <1>1, <1>2, EntryAssumption DEF LoopInv, WellLinked
<1>4. ASSUME tmp # NULL PROVE prev'[tmp] \notin ToCome
  <2>1. tmp \in Entry /\ tmp # d
    BY <1>1, <1>2, <1>4 DEF LoopInv
  <2>2. prev'[tmp] \in {prev[d], prev[tmp]}
    BY <1>1, <2>1
  <2>3. QED
    BY <1>2, <1>4, <2>2 DEF LoopInv
<1>5. QED
  BY <1>1, <1>3, <1>4, ToComeStays

(* The start of a loop: what can be reached from the header is to come.    *)
LEMMA BeginLoopKeeps ==
  ASSUME LoopInv, WellLinked', NEW h \in Header, BeginLoop(h)
  PROVE  LoopInv'
<1> DEFINE first == next[h]
<1>1. /\ it = NULL /\ first # NULL /\ it' = first /\ tmp' = next[first]
      /\ visited' = {first} /\ toVisit' = After(h) /\ UNCHANGED <<next, prev>>
  BY DEF BeginLoop
<1>2. /\ next \in [Entry \cup Header -> Entry \cup {NULL}]
      /\ prev \in [Entry -> Entry \cup Header \cup {NULL}]
      /\ \A n \in Entry \cup Header, d \in Entry : next[n] = d <=> prev[d] = n
      /\ \A d \in Entry : prev[d] = NULL => next[d] = NULL
  BY DEF LoopInv, WellLinked
<1>3. first \in Entry /\ prev[first] = h
  BY <1>1, <1>2
<1>4. first \in After(h)
  BY <1>1, <1>3 DEF After, Closed
<1>5. \A e \in After(h) : next[e] \in After(h) \cup {NULL}
  BY <1>2 DEF After, Closed
<1>6. \A e \in After(h) : prev[e] # NULL
  <2> DEFINE k == {e \in Entry : prev[e] # NULL}
  <2>1. Closed(k, h)
    BY <1>2, <1>3, EntryAssumption DEF Closed
  <2>2. QED
    BY <2>1 DEF After
<1>7. ToCome' = After(h) \ {first}
  BY <1>1 DEF ToCome
<1>8. \A e \in ToCome' : next[e] # first /\ prev[e] # NULL /\ next[e] \in ToCome' \cup {NULL}
  <2>1. \A e \in ToCome' : e \in Entry /\ e # h
    BY <1>7, EntryAssumption DEF After
  <2>2. QED
    BY <1>2, <1>3, <1>5, <1>6, <1>7, <2>1
<1>9. next[first] # first
  BY <1>2, <1>3, EntryAssumption
<1>10. tmp' \in ToCome' \cup {NULL}
  BY <1>1, <1>4, <1>5, <1>7, <1>9
<1>11. ASSUME NEW k \in SUBSET Entry, next[first] \in k \cup {NULL},
              \A e \in k : next[e] \in k \cup {NULL}
       PROVE  ToCome' \subseteq k
  <2>1. Closed(k \cup {first}, h)
    BY <1>3, <1>11 DEF Closed
  <2>2. k \cup {first} \in SUBSET Entry
    BY <1>3
  <2>3. After(h) \subseteq k \cup {first}
    BY <2>1, <2>2 DEF After
  <2>4. QED
    BY <1>7, <2>3
<1>12. tmp' = NULL => ToCome' = {}
  <2>1. {} \in SUBSET Entry /\ \A e \in {} : next[e] \in {} \cup {NULL}
    OBVIOUS
  <2>2. next[first] = NULL => ToCome' \subseteq {}
    BY <1>11, <2>1
  <2>3. QED
    BY <1>1, <2>2
<1>13. tmp' # NULL => prev'[tmp'] \notin ToCome'
  <2>1. tmp' # NULL => prev[tmp'] = first
    BY <1>1, <1>2, <1>3
  <2>2. QED
    BY <1>1, <1>7, <2>1
<1>14. toVisit' \in SUBSET Entry /\ visited' \in SUBSET toVisit'
  BY <1>1, <1>4 DEF After
<1>15. it' \in Entry /\ it' # NULL
  BY <1>1, <1>3
<1>16. tmp' # NULL => \A k \in SUBSET Entry :
         tmp' \in k /\ (\A e \in k : next'[e] \in k \cup {NULL}) => ToCome' \subseteq k
  BY <1>1, <1>11
<1>17. \A e \in ToCome' : prev'[e] # NULL /\ next'[e] \in ToCome' \cup {NULL}
  BY <1>1, <1>8
<1>18. QED
  BY <1>10, <1>12, <1>13, <1>14, <1>15, <1>16, <1>17 DEF LoopInv

(* A step of the loop, which took the next entry in time.                  *)
LEMMA NextKeeps ==
  ASSUME LoopInv, WellLinked', NextOfLoop
  PROVE  LoopInv'
<1>1. /\ it # NULL /\ it' = tmp /\ tmp' = IF tmp = NULL THEN NULL ELSE next[tmp]
      /\ visited' = visited \cup ({tmp} \ {NULL}) /\ UNCHANGED <<next, prev, toVisit>>
  BY DEF NextOfLoop
<1>2. CASE tmp = NULL
  <2>1. it' = NULL /\ tmp' = NULL /\ visited' = visited /\ ToCome' = ToCome
    BY <1>1, <1>2 DEF ToCome
  <2>2. QED
    BY <1>1, <1>2, <2>1 DEF LoopInv
<1>3. CASE tmp # NULL
  <2>1. tmp \in ToCome /\ tmp \in Entry /\ ToCome \subseteq Entry /\ ToCome' = ToCome \ {tmp}
    BY <1>1, <1>3 DEF LoopInv, ToCome
  <2>2. next[tmp] # tmp /\ \A e \in ToCome : next[e] # tmp
    BY <1>3, <2>1 DEF LoopInv, WellLinked
  <2>3. tmp' \in ToCome' \cup {NULL} /\ tmp' = next[tmp]
    BY <1>1, <1>3, <2>1, <2>2 DEF LoopInv
  <2>4. \A e \in ToCome' : prev'[e] # NULL /\ next'[e] \in ToCome' \cup {NULL}
    BY <1>1, <2>1, <2>2 DEF LoopInv
  <2>5. ASSUME NEW k \in SUBSET Entry, next[tmp] \in k \cup {NULL},
               \A e \in k : next[e] \in k \cup {NULL}
        PROVE  ToCome' \subseteq k
    <3>1. k \cup {tmp} \in SUBSET Entry /\ \A e \in k \cup {tmp} : next[e] \in k \cup {tmp} \cup {NULL}
      BY <2>1, <2>5
    <3>2. ToCome \subseteq k \cup {tmp}
      BY <1>3, <3>1 DEF LoopInv
    <3>3. QED
      BY <2>1, <3>2
  <2>6. tmp' = NULL => ToCome' = {}
    <3>1. {} \in SUBSET Entry /\ \A e \in {} : next[e] \in {} \cup {NULL}
      OBVIOUS
    <3>2. next[tmp] = NULL => ToCome' \subseteq {}
      BY <2>5, <3>1
    <3>3. QED
      BY <2>3, <3>2
  <2>7. tmp' # NULL => prev'[tmp'] \notin ToCome'
    <3>1. tmp' # NULL => prev[tmp'] = tmp
      BY <2>1, <2>3 DEF LoopInv, WellLinked
    <3>2. QED
      BY <1>1, <2>1, <3>1
  <2>8. visited' \in SUBSET toVisit' /\ toVisit' \in SUBSET Entry
    BY <1>1, <2>1 DEF LoopInv, ToCome
  <2>9. tmp' # NULL => \A k \in SUBSET Entry :
          tmp' \in k /\ (\A e \in k : next'[e] \in k \cup {NULL}) => ToCome' \subseteq k
    BY <1>1, <2>3, <2>5
  <2>10. QED
    BY <1>1, <1>3, <2>1, <2>3, <2>4, <2>6, <2>7, <2>8, <2>9 DEF LoopInv
<1>4. QED
  BY <1>2, <1>3

(* The invariant of the loop is inductive.                                 *)
LEMMA LoopStep == LoopInv /\ [DllNext]_dllVars => LoopInv'
<1> SUFFICES ASSUME LoopInv, [DllNext]_dllVars PROVE LoopInv'
  OBVIOUS
<1>1. WellLinked'
  BY WellLinkedStep DEF LoopInv
<1>2. CASE UNCHANGED dllVars
  <2>1. UNCHANGED <<next, prev, it, tmp, toVisit, visited>>
    BY <1>2 DEF dllVars
  <2>2. QED
    BY <1>1, <2>1 DEF LoopInv, ToCome
<1>3. QED
  BY <1>1, <1>2, AddKeeps, RemoveKeeps, BeginLoopKeeps, NextKeeps DEF DllNext

(* dll_foreach_safe: whatever else is added to the list or taken from it   *)
(* meanwhile, a loop visits every entry that was in the list when it began *)
(* and that nobody took out.                                               *)
THEOREM LoopVisitsEvery == DllSpec => []LoopVisitsAll
<1>1. DllInit => LoopInv
  BY EntryAssumption DEF DllInit, LoopInv, WellLinked, ToCome
<1>2. LoopInv => LoopVisitsAll
  BY DEF LoopInv, LoopVisitsAll, ToCome
<1>3. QED
  BY <1>1, <1>2, LoopStep, PTL DEF DllSpec

-----------------------------------------------------------------------------
(* The timer queue: m_nInitCount is never below the number of those who    *)
(* have not given their count back, nor is what a cleanup has loaded; who  *)
(* finds it 0 deletes the queue, and nobody needs it then.                 *)
Holding == {u \in User : user[u] \in {"in", "loaded"}}

QueueTypeOK ==
  /\ user \in [User -> {"out", "initing", "in", "loaded", "stored", "deleting"}]
  /\ reg \in [User -> Nat] /\ m_timer \in [User -> Nat]
  /\ m_nInitCount \in Nat /\ m_timerQueue \in Nat
  /\ queues \in SUBSET Nat /\ 0 \notin queues
  /\ raced \in {"none", "cleanups", "inits"}

NeverLow ==
  /\ Cardinality(Holding) <= m_nInitCount
  /\ \A u \in User : user[u] = "loaded" => Cardinality(Holding) <= reg[u]
  /\ \A u \in User : user[u] = "initing" => reg[u] = m_nInitCount /\ CleaningUp = {}
  /\ \A u \in User : user[u] = "deleting" => m_nInitCount = 0
  /\ m_nInitCount > 0 \/ Initing # {} => m_timerQueue \in queues
  /\ queues \subseteq {m_timerQueue}
  /\ m_nInitCount = 0 /\ queues # {} =>
       \E u \in User : user[u] \in {"initing", "stored", "deleting"}
  /\ \A u \in User : m_timer[u] # 0 => m_timer[u] = m_timerQueue

CountedExactly ==
  /\ m_nInitCount = Cardinality(Holding)
  /\ \A u \in User : user[u] = "loaded" => reg[u] = m_nInitCount
  /\ \A u, v \in CleaningUp : u = v
  /\ \A u \in User :
       user[u] = "deleting" \/ (user[u] = "stored" /\ m_nInitCount = 0) =>
         m_timerQueue \in queues
  /\ twice = FALSE

QueueInv ==
  /\ QueueTypeOK
  /\ \A u \in User : m_timer[u] # 0 => user[u] = "in"
  /\ \A u, v \in Initing : u = v
  /\ raced # "inits" => NeverLow
  /\ raced = "none" => CountedExactly

LEMMA UsersCounted ==
  /\ Cardinality(Holding) \in Nat /\ (Cardinality(Holding) = 0 <=> Holding = {})
  /\ \A u \in User \ Holding : Cardinality(Holding \cup {u}) = Cardinality(Holding) + 1
  /\ \A u \in Holding : Cardinality(Holding \ {u}) = Cardinality(Holding) - 1
<1>1. IsFiniteSet(Holding)
  BY UserAssumption, FS_Subset DEF Holding
<1>2. QED
  BY <1>1, FS_CardinalityType, FS_EmptySet, FS_AddElement, FS_RemoveElement

(* Types, and who may have a timer or be in init.                          *)
LEMMA QueueTypeStep ==
  ASSUME QueueInv, NEW u \in User,
         \/ QueueInit(u) \/ InitCounts(u) \/ CountLoads(u) \/ CountStores(u)
         \/ LooksAtCount(u) \/ DeleteQueue(u) \/ StartTimer(u) \/ StopTimer(u)
  PROVE  /\ QueueTypeOK'
         /\ \A v \in User : m_timer'[v] # 0 => user'[v] = "in"
         /\ \A v, w \in Initing' : v = w
<1> USE DEF QueueInv, QueueTypeOK
<1>1. CASE QueueInit(u)
  <2>1. m_timerQueue' \in Nat /\ queues' \in SUBSET Nat /\ 0 \notin queues'
    <3>1. \A h \in Handle : h \in Nat /\ h # 0
      BY UserAssumption, FS_CardinalityType DEF Handle
    <3>2. CASE m_nInitCount = 0
      <4>1. PICK h \in Handle : m_timerQueue' = h /\ queues' = queues \cup {h}
        BY <1>1, <3>2 DEF QueueInit
      <4>2. QED
        BY <3>1, <4>1
    <3>3. CASE m_nInitCount # 0
      BY <1>1, <3>3 DEF QueueInit
    <3>4. QED
      BY <3>2, <3>3
  <2>2. user' \in [User -> {"out", "initing", "in", "loaded", "stored", "deleting"}]
    BY <1>1 DEF QueueInit, Moves
  <2>3. UNCHANGED <<m_nInitCount, m_timer>> /\ reg' \in [User -> Nat]
        /\ raced' \in {"none", "cleanups", "inits"}
    BY <1>1 DEF QueueInit
  <2>4. \A v \in User : user'[v] = IF v = u THEN "initing" ELSE user[v]
    BY <1>1 DEF QueueInit, Moves
  <2>5. user[u] = "out" /\ Initing = {}
    BY <1>1 DEF QueueInit, Moves
  <2>6. QED
    BY <2>1, <2>2, <2>3, <2>4, <2>5 DEF Initing
<1>2. CASE InitCounts(u)
  BY <1>2 DEF InitCounts, Moves, Initing
<1>3. CASE CountLoads(u)
  BY <1>3 DEF CountLoads, Moves, Initing
<1>4. CASE CountStores(u)
  <2>1. m_nInitCount' \in Nat
    BY <1>4, UserAssumption DEF CountStores
  <2>2. QED
    BY <1>4, <2>1 DEF CountStores, Moves, Initing
<1>5. CASE LooksAtCount(u)
  BY <1>5 DEF LooksAtCount, Moves, Initing
<1>6. CASE DeleteQueue(u)
  BY <1>6 DEF DeleteQueue, Moves, Initing
<1>7. CASE StartTimer(u)
  BY <1>7 DEF StartTimer, Initing
<1>8. CASE StopTimer(u)
  BY <1>8 DEF StopTimer, Initing
<1>9. QED
  BY <1>1, <1>2, <1>3, <1>4, <1>5, <1>6, <1>7, <1>8

(* init, which no cleanup has overlapped.                                  *)
LEMMA InitKeepsCount ==
  ASSUME QueueInv, NEW u \in User, QueueInit(u) \/ InitCounts(u), raced' # "inits"
  PROVE  NeverLow' /\ (raced' = "none" => CountedExactly')
<1> USE DEF QueueInv, QueueTypeOK
<1>1. raced' = raced /\ raced # "inits" /\ CleaningUp = {}
  BY DEF QueueInit, InitCounts, Moves, NeverLow
<1>2. NeverLow /\ (raced = "none" => CountedExactly)
  BY <1>1
<1>3. CASE QueueInit(u)
  <2>1. /\ user[u] = "out" /\ Initing = {}
        /\ \A v \in User : user'[v] = IF v = u THEN "initing" ELSE user[v]
        /\ \A v \in User : reg'[v] = IF v = u THEN m_nInitCount ELSE reg[v]
        /\ UNCHANGED <<m_nInitCount, m_timer, twice>>
    BY <1>3 DEF QueueInit, Moves
  <2>2. Holding' = Holding /\ CleaningUp' = {} /\ Initing' = {u}
    BY <1>1, <2>1 DEF Holding, CleaningUp, Initing
  <2>3. m_timerQueue' \in queues' /\ queues' \subseteq {m_timerQueue'}
    <3>1. CASE m_nInitCount = 0
      <4>1. queues = {}
        BY <1>1, <1>2, <2>1, <3>1 DEF NeverLow, CleaningUp, Initing
      <4>2. QED
        BY <1>3, <3>1, <4>1 DEF QueueInit
    <3>2. CASE m_nInitCount # 0
      <4>1. UNCHANGED <<m_timerQueue, queues>>
        BY <1>3, <3>2 DEF QueueInit
      <4>2. m_nInitCount > 0
        BY <3>2
      <4>3. QED
        BY <1>2, <4>1, <4>2 DEF NeverLow
    <3>3. QED
      BY <3>1, <3>2
  <2>4. \A v \in User : m_timer[v] # 0 => m_timer[v] = m_timerQueue'
    <3>1. CASE m_nInitCount = 0
      <4>1. Holding = {}
        BY <1>2, <3>1, UsersCounted DEF NeverLow
      <4>2. QED
        BY <4>1 DEF Holding
    <3>2. CASE m_nInitCount # 0
      BY <1>2, <1>3, <3>2 DEF QueueInit, NeverLow
    <3>3. QED
      BY <3>1, <3>2
  <2>5. NeverLow'
    BY <1>2, <2>1, <2>2, <2>3, <2>4 DEF NeverLow
  <2>6. raced' = "none" => CountedExactly'
    BY <1>1, <1>2, <2>1, <2>2, <2>3 DEF CountedExactly
  <2>7. QED
    BY <2>5, <2>6
<1>4. CASE InitCounts(u)
  <2>1. /\ user[u] = "initing" /\ reg[u] = m_nInitCount
        /\ \A v \in User : user'[v] = IF v = u THEN "in" ELSE user[v]
        /\ \A v \in User : v # u => reg'[v] = reg[v]
        /\ m_nInitCount' = reg[u] + 1
        /\ UNCHANGED <<m_timerQueue, queues, m_timer, twice>>
    BY <1>2, <1>4 DEF InitCounts, Moves, NeverLow
  <2>2. Holding' = Holding \cup {u} /\ u \notin Holding
    BY <2>1 DEF Holding
  <2>3. CleaningUp' = {} /\ Initing' = {} /\ Initing # {}
    BY <1>1, <2>1 DEF CleaningUp, Initing
  <2>4. \A v \in User : user'[v] \notin {"loaded", "initing", "stored", "deleting"}
    BY <2>3 DEF CleaningUp, Initing
  <2>5. Cardinality(Holding') = Cardinality(Holding) + 1
    BY <2>2, UsersCounted
  <2>6. NeverLow'
    BY <1>2, <2>1, <2>3, <2>4, <2>5, UsersCounted DEF NeverLow
  <2>7. raced' = "none" => CountedExactly'
    BY <1>1, <1>2, <2>1, <2>3, <2>4, <2>5 DEF CountedExactly
  <2>8. QED
    BY <2>6, <2>7
<1>5. QED
  BY <1>3, <1>4

(* cleanup, which may have overlapped others.                              *)
LEMMA CleanupKeepsCount ==
  ASSUME QueueInv, NEW u \in User, raced' # "inits",
         CountLoads(u) \/ CountStores(u) \/ LooksAtCount(u) \/ DeleteQueue(u)
  PROVE  NeverLow' /\ (raced' = "none" => CountedExactly')
<1> USE DEF QueueInv, QueueTypeOK
<1>1. raced # "inits" /\ (raced' = "none" => raced = "none")
  BY DEF CountLoads, CountStores, LooksAtCount, DeleteQueue
<1>2. NeverLow /\ (raced' = "none" => CountedExactly)
  BY <1>1
<1>3. CASE CountLoads(u)
  <2>1. /\ user[u] = "in" /\ Initing = {}
        /\ \A v \in User : user'[v] = IF v = u THEN "loaded" ELSE user[v]
        /\ \A v \in User : reg'[v] = IF v = u THEN m_nInitCount ELSE reg[v]
        /\ UNCHANGED <<m_nInitCount, m_timerQueue, queues, m_timer, twice>>
        /\ raced' = "none" => CleaningUp = {}
    BY <1>3 DEF CountLoads, Moves
  <2>2. Holding' = Holding /\ CleaningUp' = CleaningUp \cup {u} /\ Initing' = {}
    BY <2>1 DEF Holding, CleaningUp, Initing
  <2>3. NeverLow'
    BY <1>2, <2>1, <2>2 DEF NeverLow, Initing
  <2>4. raced' = "none" => CountedExactly'
    BY <1>2, <2>1, <2>2 DEF CountedExactly
  <2>5. QED
    BY <2>3, <2>4
<1>4. CASE CountStores(u)
  <2>1. /\ user[u] = "loaded"
        /\ \A v \in User : user'[v] = IF v = u THEN "stored" ELSE user[v]
        /\ \A v \in User : v # u => reg'[v] = reg[v]
        /\ UNCHANGED <<m_timerQueue, queues, m_timer, twice>>
    BY <1>4 DEF CountStores, Moves
  <2>2. Holding' = Holding \ {u} /\ u \in Holding
    BY <2>1 DEF Holding
  <2>3. Cardinality(Holding') = Cardinality(Holding) - 1 /\ Cardinality(Holding) >= 1
    BY <2>2, UsersCounted
  <2>4. m_nInitCount' = reg[u] - 1 /\ reg[u] >= Cardinality(Holding) /\ m_nInitCount >= 1
    BY <1>2, <1>4, <2>1, <2>3, UsersCounted DEF CountStores, NeverLow
  <2>5. CleaningUp' = CleaningUp /\ u \in CleaningUp /\ Initing' = Initing
    BY <2>1 DEF CleaningUp, Initing
  <2>6. /\ Initing' = {} /\ m_timerQueue' \in queues'
        /\ \A v \in User : user'[v] \notin {"initing", "deleting"}
    BY <1>2, <2>1, <2>4, <2>5 DEF NeverLow, Initing
  <2>7. \A v \in User : user'[v] = "loaded" => Cardinality(Holding') <= reg'[v]
    BY <1>2, <2>1, <2>3, UsersCounted DEF NeverLow
  <2>8. Cardinality(Holding') <= m_nInitCount'
    BY <2>3, <2>4, UsersCounted
  <2>9. /\ queues' \subseteq {m_timerQueue'} /\ user'[u] = "stored"
        /\ \A v \in User : m_timer'[v] # 0 => m_timer'[v] = m_timerQueue'
    BY <1>2, <2>1 DEF NeverLow
  <2>10. NeverLow'
    BY <2>6, <2>7, <2>8, <2>9 DEF NeverLow
  <2>11. ASSUME raced' = "none" PROVE CountedExactly'
    <3>1. m_nInitCount' = Cardinality(Holding')
      BY <1>2, <2>1, <2>3, <2>4, <2>11, UsersCounted DEF CountedExactly
    <3>2. \A v \in User : user'[v] # "loaded"
      BY <1>2, <2>1, <2>5, <2>11 DEF CountedExactly, CleaningUp
    <3>3. QED
      BY <1>2, <2>1, <2>5, <2>6, <2>11, <3>1, <3>2 DEF CountedExactly
  <2>12. QED
    BY <2>10, <2>11
<1>5. CASE LooksAtCount(u)
  <2>1. /\ user[u] = "stored"
        /\ \A v \in User : user'[v] =
             IF v = u THEN IF m_nInitCount = 0 /\ m_timerQueue # 0 THEN "deleting" ELSE "out"
                      ELSE user[v]
        /\ UNCHANGED <<m_nInitCount, m_timerQueue, queues, reg, m_timer, twice>>
    BY <1>5 DEF LooksAtCount, Moves
  <2>2. Holding' = Holding /\ CleaningUp' \subseteq CleaningUp /\ Initing' = Initing
    BY <2>1 DEF Holding, CleaningUp, Initing
  <2>3. queues # {} => m_timerQueue # 0
    BY <1>2 DEF NeverLow
  <2>4. Initing = {}
    BY <1>2, <2>1 DEF NeverLow, CleaningUp, Initing
  <2>5. m_nInitCount = 0 /\ queues # {} => user'[u] = "deleting"
    BY <2>1, <2>3
  <2>6. NeverLow'
    BY <1>2, <2>1, <2>2, <2>4, <2>5 DEF NeverLow, Initing
  <2>7. raced' = "none" => CountedExactly'
    BY <1>2, <2>1, <2>2 DEF CountedExactly
  <2>8. QED
    BY <2>6, <2>7
<1>6. CASE DeleteQueue(u)
  <2>1. /\ user[u] = "deleting"
        /\ \A v \in User : user'[v] = IF v = u THEN "out" ELSE user[v]
        /\ queues' = queues \ {m_timerQueue} /\ twice' = (twice \/ m_timerQueue \notin queues)
        /\ UNCHANGED <<m_nInitCount, m_timerQueue, reg, m_timer>>
    BY <1>6 DEF DeleteQueue, Moves
  <2>2. Holding' = Holding /\ CleaningUp' \subseteq CleaningUp /\ Initing' = Initing
    BY <2>1 DEF Holding, CleaningUp, Initing
  <2>3. m_nInitCount = 0 /\ queues' = {} /\ Initing = {}
    BY <1>2, <2>1 DEF NeverLow, CleaningUp, Initing
  <2>4. NeverLow'
    <3>1. m_nInitCount' = 0 /\ queues' = {} /\ Initing' = {}
      BY <2>1, <2>2, <2>3
    <3>2. \A v \in User : user'[v] # "initing"
      BY <3>1 DEF Initing
    <3>3. /\ Cardinality(Holding') <= 0
          /\ \A v \in User : user'[v] = "loaded" => Cardinality(Holding') <= reg'[v]
          /\ \A v \in User : m_timer'[v] # 0 => m_timer'[v] = m_timerQueue'
      BY <1>2, <2>1, <2>2, <2>3 DEF NeverLow
    <3>4. QED
      BY <3>1, <3>2, <3>3 DEF NeverLow
  <2>5. ASSUME raced' = "none" PROVE CountedExactly'
    <3>1. \A v \in User \ {u} : user[v] \notin {"loaded", "stored", "deleting"}
      BY <1>2, <2>1, <2>5 DEF CountedExactly, CleaningUp
    <3>2. QED
      BY <1>2, <2>1, <2>2, <2>5, <3>1 DEF CountedExactly
  <2>6. QED
    BY <2>4, <2>5
<1>7. QED
  BY <1>3, <1>4, <1>5, <1>6

LEMMA QueueStep ==
  ASSUME QueueInv, [TimerNext]_timerVars
  PROVE  QueueInv'
<1>1. ASSUME NEW u \in User, QueueInit(u) \/ InitCounts(u) PROVE QueueInv'
  BY <1>1, QueueTypeStep, InitKeepsCount DEF QueueInv
<1>2. ASSUME NEW u \in User,
             CountLoads(u) \/ CountStores(u) \/ LooksAtCount(u) \/ DeleteQueue(u)
      PROVE  QueueInv'
  BY <1>2, QueueTypeStep, CleanupKeepsCount DEF QueueInv
<1>3. ASSUME UNCHANGED <<m_nInitCount, m_timerQueue, queues, user, reg, raced, twice>>,
             raced # "inits" => \A u \in User : m_timer'[u] # 0 => m_timer'[u] = m_timerQueue
      PROVE  (raced # "inits" => NeverLow)' /\ (raced = "none" => CountedExactly)'
  BY <1>3 DEF QueueInv, NeverLow, CountedExactly, Holding, CleaningUp, Initing
<1>4. ASSUME NEW u \in User, StartTimer(u) PROVE QueueInv'
  BY <1>3, <1>4, QueueTypeStep DEF StartTimer, QueueInv, QueueTypeOK, NeverLow
<1>5. ASSUME NEW u \in User, StopTimer(u) PROVE QueueInv'
  BY <1>3, <1>5, QueueTypeStep DEF StopTimer, QueueInv, QueueTypeOK, NeverLow
<1>6. CASE UNCHANGED timerVars
  BY <1>6 DEF timerVars, QueueInv, QueueTypeOK, NeverLow, CountedExactly, Holding, CleaningUp,
     Initing
<1>7. QED
  BY <1>1, <1>2, <1>4, <1>5, <1>6 DEF TimerNext

(* TimerQueue::init and cleanup: as long as no init overlaps a cleanup,    *)
(* who is in has the one queue, even if cleanups overlap and take each     *)
(* other's count; and as long as nothing overlaps a cleanup, the last one  *)
(* deletes the queue, once.                                                *)
THEOREM TimersShareOneQueue == TimerSpec => []OneQueue
<1>1. TimerInit => QueueInv
  <2>1. TimerInit => Holding = {} /\ CleaningUp = {} /\ Initing = {}
    BY DEF TimerInit, Holding, CleaningUp, Initing
  <2>2. QED
    BY <2>1, FS_EmptySet
      DEF TimerInit, QueueInv, QueueTypeOK, NeverLow, CountedExactly
<1>2. QueueInv /\ [TimerNext]_timerVars => QueueInv'
  BY QueueStep
<1>3. QueueInv => OneQueue
  <2> SUFFICES ASSUME QueueInv PROVE OneQueue
    OBVIOUS
  <2>1. \A u \in User : user[u] = "in" => Cardinality(Holding) # 0
    BY UsersCounted DEF Holding
  <2>2. raced # "inits" => \A u \in User : user[u] = "in" => m_timerQueue \in queues
    BY <2>1, UsersCounted DEF QueueInv, QueueTypeOK, NeverLow
  <2>3. (\A u \in User : user[u] = "out") => Holding = {}
    BY DEF Holding
  <2>4. raced = "none" /\ (\A u \in User : user[u] = "out") => queues = {}
    BY <2>3, UsersCounted DEF QueueInv, NeverLow, CountedExactly
  <2>5. QED
    BY <2>2, <2>4 DEF QueueInv, OneQueue, NeverLow, CountedExactly
<1>4. QED
  BY <1>1, <1>2, <1>3, PTL DEF TimerSpec

-----------------------------------------------------------------------------
(* The thread pool: what startWork has yet to submit, the callbacks that   *)
(* wait and those that have begun are the repetitions of a work, and a     *)
(* timer that is not periodic has one callback.                            *)
PoolTypeOK ==
  /\ runnable \in [Runnable -> {"new", "open", "deleted", "released"}]
  /\ submits \in [Runnable -> Nat] /\ pending \in [Runnable -> Nat]
  /\ running \in [Runnable -> Nat] /\ ran \in [Runnable -> Nat]
  /\ due \in SUBSET TimerWork
  /\ pool \in {"open", "draining", "cancelling", "drained", "cancelled", "failed", "left"}
  /\ misused \in SUBSET Runnable

WorksCounted ==
  \A r \in Work :
    /\ running[r] <= ran[r]
    /\ runnable[r] = "new" => submits[r] = 0 /\ pending[r] = 0 /\ ran[r] = 0
    /\ runnable[r] # "new" =>
         /\ submits[r] + pending[r] + ran[r] <= repeats[r]
         /\ pool \notin {"cancelling", "cancelled"} =>
              submits[r] + pending[r] + ran[r] = repeats[r]

TimersCounted ==
  \A r \in TimerWork :
    /\ submits[r] = 0
    /\ runnable[r] = "new" => pending[r] = 0 /\ ran[r] = 0 /\ r \notin due
    /\ r \notin periodic =>
         /\ running[r] <= ran[r]
         /\ pending[r] + ran[r] <= 1
         /\ r \in due => pending[r] = 0 /\ ran[r] = 0

(* Nothing is left for a runnable that closed itself in its only run().    *)
ClosedInTime ==
  \A r \in Runnable \ misused :
    runnable[r] = "deleted" => submits[r] = 0 /\ pending[r] = 0 /\ r \notin due

PoolEmpties ==
  /\ pool \notin {"open", "failed"} => submits = None
  /\ pool \notin {"open", "failed", "left"} => due = {}
  /\ pool \in {"drained", "cancelled"} =>
       \A r \in Work : runnable[r] # "open" /\ (runnable[r] = "released" => pending[r] = 0)
  /\ pool \notin {"drained", "cancelled"} => \A r \in Runnable : runnable[r] # "released"

PoolInv ==
  /\ PoolTypeOK /\ WorksCounted /\ TimersCounted /\ ClosedInTime /\ PoolEmpties
  /\ touched \subseteq misused

LEMMA PoolStep == PoolInv /\ [PoolNext]_poolVars => PoolInv'
<1> SUFFICES ASSUME PoolInv, [PoolNext]_poolVars PROVE PoolInv'
  OBVIOUS
<1> USE WorkAssumption
    DEF PoolInv, PoolTypeOK, WorksCounted, TimersCounted, ClosedInTime, PoolEmpties, Runnable,
        None, Takes, Touch
<1>1. ASSUME NEW r \in Work, StartWork(r) PROVE PoolInv'
  BY <1>1 DEF StartWork
<1>2. ASSUME NEW r \in Work, Submit(r) PROVE PoolInv'
  <2>1. PoolTypeOK'
    BY <1>2 DEF Submit
  <2>2. WorksCounted'
    <3>1. /\ UNCHANGED <<runnable, running, ran, pool>> /\ runnable[r] # "new"
          /\ \A v \in Work \ {r} : submits'[v] = submits[v] /\ pending'[v] = pending[v]
          /\ submits'[r] = submits[r] - 1 /\ pending'[r] = pending[r] + 1
      BY <1>2 DEF Submit
    <3>2. submits'[r] + pending'[r] + ran'[r] = submits[r] + pending[r] + ran[r]
      BY <3>1
    <3>3. QED
      BY <3>1, <3>2
  <2>3. TimersCounted'
    BY <1>2 DEF Submit
  <2>4. ClosedInTime'
    BY <1>2 DEF Submit
  <2>5. PoolEmpties' /\ touched' \subseteq misused'
    BY <1>2 DEF Submit
  <2>6. QED
    BY <2>1, <2>2, <2>3, <2>4, <2>5
<1>3. ASSUME NEW r \in TimerWork, StartPoolTimer(r) PROVE PoolInv'
  BY <1>3 DEF StartPoolTimer
<1>4. ASSUME NEW r \in TimerWork, FallDue(r) PROVE PoolInv'
  BY <1>4 DEF FallDue
<1>5. ASSUME NEW r \in Runnable, Begin(r) PROVE PoolInv'
  <2>1. PoolTypeOK'
    BY <1>5 DEF Begin
  <2>2. WorksCounted'
    <3>1. CASE r \in Work /\ r \notin periodic
      <4>1. /\ UNCHANGED <<runnable, submits, pool>> /\ runnable[r] # "new"
            /\ \A v \in Work \ {r} : /\ pending'[v] = pending[v]
                                     /\ running'[v] = running[v] /\ ran'[v] = ran[v]
            /\ pending'[r] = pending[r] - 1 /\ running'[r] = running[r] + 1
            /\ ran'[r] = ran[r] + 1
        BY <1>5, <3>1 DEF Begin
      <4>2. submits'[r] + pending'[r] + ran'[r] = submits[r] + pending[r] + ran[r]
        BY <4>1
      <4>3. running'[r] <= ran'[r]
        BY <3>1, <4>1
      <4>4. QED
        BY <4>1, <4>2, <4>3
    <3>2. CASE r \in TimerWork
      <4>1. /\ UNCHANGED <<runnable, submits, pool>>
            /\ \A v \in Work : /\ pending'[v] = pending[v]
                               /\ running'[v] = running[v] /\ ran'[v] = ran[v]
        BY <1>5, <3>2 DEF Begin
      <4>2. QED
        BY <4>1
    <3>3. QED
      BY <3>1, <3>2
  <2>3. TimersCounted'
    BY <1>5 DEF Begin
  <2>4. ClosedInTime'
    BY <1>5 DEF Begin
  <2>5. PoolEmpties' /\ touched' \subseteq misused'
    BY <1>5 DEF Begin
  <2>6. QED
    BY <2>1, <2>2, <2>3, <2>4, <2>5
<1>6. ASSUME NEW r \in Runnable, Return(r) PROVE PoolInv'
  BY <1>6 DEF Return
<1>7. ASSUME NEW r \in Runnable, NEW itself \in BOOLEAN, CloseRunnable(r, itself) PROVE PoolInv'
  <2>1. PoolTypeOK'
    BY <1>7 DEF CloseRunnable, RunsOnce
  <2>2. WorksCounted'
    BY <1>7 DEF CloseRunnable, RunsOnce
  <2>3. TimersCounted'
    BY <1>7 DEF CloseRunnable, RunsOnce
  <2>4. ClosedInTime'
    <3>1. CASE ~itself \/ ~RunsOnce(r)
      BY <1>7, <3>1 DEF CloseRunnable
    <3>2. CASE itself /\ RunsOnce(r)
      <4>1. running[r] > 0
        BY <1>7, <3>2 DEF CloseRunnable
      <4>2. submits[r] = 0 /\ pending[r] = 0
        <5>1. running[r] \in Nat /\ ran[r] \in Nat /\ submits[r] \in Nat /\ pending[r] \in Nat
          OBVIOUS
        <5>2. CASE r \in Work
          <6>1. repeats[r] = 1 /\ running[r] <= ran[r] /\ runnable[r] # "new"
            BY <1>7, <3>2, <5>2 DEF RunsOnce, CloseRunnable
          <6>2. submits[r] + pending[r] + ran[r] <= repeats[r]
            BY <5>2, <6>1
          <6>3. ran[r] >= 1
            BY <4>1, <5>1, <6>1
          <6>4. QED
            BY <5>1, <6>1, <6>2, <6>3
        <5>3. CASE r \in TimerWork
          <6>1. r \notin periodic /\ submits[r] = 0
            BY <3>2, <5>3 DEF RunsOnce
          <6>2. running[r] <= ran[r] /\ pending[r] + ran[r] <= 1
            BY <5>3, <6>1
          <6>3. QED
            BY <4>1, <5>1, <6>1, <6>2
        <5>4. QED
          BY <5>2, <5>3
      <4>3. QED
        BY <1>7, <4>2 DEF CloseRunnable
    <3>3. QED
      BY <3>1, <3>2
  <2>5. PoolEmpties' /\ touched' \subseteq misused'
    BY <1>7 DEF CloseRunnable, RunsOnce
  <2>6. QED
    BY <2>1, <2>2, <2>3, <2>4, <2>5
<1>8. ASSUME NEW wait \in BOOLEAN, StopPool(wait) PROVE PoolInv'
  BY <1>8 DEF StopPool
<1>9. CASE PoolStops
  <2>1. PoolTypeOK'
    BY <1>9 DEF PoolStops
  <2>2. WorksCounted'
    BY <1>9 DEF PoolStops
  <2>3. TimersCounted'
    BY <1>9 DEF PoolStops
  <2>4. ClosedInTime'
    BY <1>9 DEF PoolStops
  <2>5. PoolEmpties' /\ touched' \subseteq misused'
    BY <1>9 DEF PoolStops
  <2>6. QED
    BY <2>1, <2>2, <2>3, <2>4, <2>5
<1>10. CASE Rebuild
  BY <1>10 DEF Rebuild
<1>11. CASE UNCHANGED poolVars
  BY <1>11 DEF poolVars
<1>12. QED
  BY <1>1, <1>2, <1>3, <1>4, <1>5, <1>6, <1>7, <1>8, <1>9, <1>10, <1>11 DEF PoolNext

(* startWork, startTimer, closeWork, closeTimer and stop: a runnable that  *)
(* runs once and closes itself in run() is not used any more, neither by   *)
(* the loop of startWork nor by a callback; and after stop(true) of a pool *)
(* whose constructor succeeded each work has run as often as was asked,    *)
(* unless it was closed by somebody else or with more to run.              *)
THEOREM PoolKeepsPromises == PoolSpec => []PoolPromises
<1>1. PoolInit => PoolInv
  BY DEF PoolInit, PoolInv, PoolTypeOK, WorksCounted, TimersCounted, ClosedInTime, PoolEmpties,
         Runnable, None
<1>2. PoolInv => PoolPromises
  BY DEF PoolInv, PoolTypeOK, WorksCounted, ClosedInTime, PoolEmpties, PoolPromises, Runnable, None
<1>3. QED
  BY <1>1, <1>2, PoolStep, PTL DEF PoolSpec

-----------------------------------------------------------------------------
(* The ids.                                                                *)

(* Dividing a sum by one of its factors.                                   *)
LEMMA DivMod ==
  ASSUME NEW a \in Nat, NEW b \in Nat \ {0}, NEW r \in 0..b-1
  PROVE  (a * b + r) \div b = a /\ (a * b + r) % b = r
  OBVIOUS

(* The process can be read back from an id.                                *)
LEMMA IdDecodes ==
  ASSUME NEW t \in Nat, NEW p \in 0..Servers-1, NEW s \in 0..sequenceMax-1
  PROVE  IdOf(t, p, s) \in Nat /\ (IdOf(t, p, s) \div sequenceMax) % Servers = p
<1> DEFINE a == t * Servers + p
<1>1. a \in Nat /\ a % Servers = p
  BY DivMod, SvridAssumption
<1> HIDE DEF a
<1>2. (a * sequenceMax + s) \div sequenceMax = a /\ a * sequenceMax + s \in Nat
  BY <1>1, DivMod, SvridAssumption
<1>3. QED
  BY <1>1, <1>2 DEF IdOf, a

(* A later millisecond gives a greater id, whatever the sequence was.      *)
LEMMA IdGrows ==
  ASSUME NEW t \in Nat, NEW u \in Nat, t < u, NEW p \in 0..Servers-1, NEW s \in 0..sequenceMax-1
  PROVE  IdOf(t, p, s) < IdOf(u, p, 0)
<1> DEFINE a == t * Servers + p
           b == u * Servers + p
<1>1. a \in Nat /\ b \in Nat /\ a < b
  BY SvridAssumption
<1> HIDE DEF a, b
<1>2. a * sequenceMax + s < b * sequenceMax + 0
  <2>1. PICK d \in Nat : b = a + 1 + d
    BY <1>1
  <2>2. b * sequenceMax = a * sequenceMax + sequenceMax + d * sequenceMax
    BY <1>1, <2>1, SvridAssumption
  <2>3. d * sequenceMax \in Nat /\ a * sequenceMax \in Nat
    BY <1>1, SvridAssumption
  <2> HIDE DEF a
  <2>4. QED
    BY <2>2, <2>3, SvridAssumption
<1>3. QED
  BY <1>2 DEF IdOf, a, b

(* Types: no variable leaves its range.                                    *)
GuidTypeOK ==
  /\ now \in Nat \ {0} /\ calls \in Nat
  /\ lastTimestamp \in [Process -> Nat] /\ sequence \in [Process -> 0..sequenceMax-1]
  /\ latest \in [Process -> Nat]
  /\ timestamp \in [Asker -> Nat] /\ getId \in [Asker -> {"idle", "number", "wait", "return"}]

(* What call c will return if it has its number.                           *)
NextId(c) == IdOf(timestamp[c], svrid[c], sequence[svrid[c]])

(* The latest id of a process is not above the one its variables stand     *)
(* for, and a call on its way to return is past it.                        *)
CallInv ==
  \A c \in Asker : LET p == svrid[c] IN
    /\ lastTimestamp[p] <= now /\ timestamp[c] <= now
    /\ getId[c] \in {"idle", "number"} => latest[p] <= IdOf(lastTimestamp[p], p, sequence[p])
    /\ getId[c] # "idle" => lastTimestamp[p] <= timestamp[c]
    /\ getId[c] = "number" => timestamp[c] > 0
    /\ getId[c] = "wait" =>
         sequence[p] = 0 /\ \A t \in Nat : t > lastTimestamp[p] => latest[p] < IdOf(t, p, 0)
    /\ getId[c] = "return" => latest[p] < NextId(c)

(* The invariant of the induction.                                         *)
GuidInv ==
  /\ GuidTypeOK /\ CallInv
  /\ IsFiniteSet(ids) /\ ids \subseteq Nat /\ IdsUnique
  /\ \A id \in ids : (id \div sequenceMax) % Servers \in Process

(* Each process asks for ids from one thread only.                         *)
OneCaller == \A c, d \in Asker : svrid[c] = svrid[d] => c = d

LEMMA ProcessNumbers ==
  /\ \A c \in Asker : svrid[c] \in Process
  /\ Process \subseteq 0..Servers-1
  /\ Servers \in Nat \ {0} /\ sequenceMax \in Nat \ {0}
  BY SvridAssumption DEF Process

LEMMA GuidStarts == GuidInit => GuidInv
<1> SUFFICES ASSUME GuidInit PROVE GuidInv
  OBVIOUS
<1>1. GuidTypeOK
  BY ProcessNumbers DEF GuidInit, GuidTypeOK
<1>2. CallInv
  <2>1. \A p \in Process : IdOf(0, p, 0) \in Nat
    BY ProcessNumbers, IdDecodes
  <2>2. \A p \in Process : lastTimestamp[p] = 0 /\ sequence[p] = 0 /\ latest[p] = 0
    BY DEF GuidInit
  <2>3. \A c \in Asker : getId[c] = "idle" /\ timestamp[c] = 0 /\ now = 1
    BY DEF GuidInit
  <2>4. \A p \in Process : latest[p] <= IdOf(lastTimestamp[p], p, sequence[p])
    BY <2>1, <2>2
  <2>5. \A c \in Asker : lastTimestamp[svrid[c]] = 0
    BY <2>2, ProcessNumbers
  <2>6. ASSUME NEW c \in Asker
        PROVE  /\ lastTimestamp[svrid[c]] <= now /\ timestamp[c] <= now
               /\ latest[svrid[c]]
                    <= IdOf(lastTimestamp[svrid[c]], svrid[c], sequence[svrid[c]])
               /\ lastTimestamp[svrid[c]] <= timestamp[c]
    <3>1. svrid[c] \in Process
      BY ProcessNumbers
    <3>2. latest[svrid[c]]
                    <= IdOf(lastTimestamp[svrid[c]], svrid[c], sequence[svrid[c]])
      BY <2>4, <3>1
    <3>3. lastTimestamp[svrid[c]] <= now /\ timestamp[c] <= now
      BY <2>3, <2>5
    <3>4. lastTimestamp[svrid[c]] <= timestamp[c]
      BY <2>3, <2>5
    <3>5. QED
      BY <3>2, <3>3, <3>4
  <2>7. QED
    BY <2>3, <2>6 DEF CallInv
<1>3. IsFiniteSet(ids) /\ ids \subseteq Nat /\ IdsUnique
  BY FS_EmptySet DEF GuidInit, IdsUnique
<1>4. QED
  BY <1>1, <1>2, <1>3 DEF GuidInv, GuidInit

(* The last number of a millisecond is followed by 0.                      *)
LEMMA NumberFollows ==
  ASSUME NEW s \in 0..sequenceMax-1
  PROVE  /\ (s + 1) % sequenceMax \in 0..sequenceMax-1
         /\ (s + 1) % sequenceMax # 0 => (s + 1) % sequenceMax = s + 1
  BY ProcessNumbers

LEMMA TypeNumber ==
  ASSUME GuidTypeOK, NEW c \in Asker, Number(c)
  PROVE  GuidTypeOK'
<1>1. \A p \in Process, t \in Nat : NextSequence(p, t) \in 0..sequenceMax-1
  BY NumberFollows, ProcessNumbers DEF NextSequence, GuidTypeOK
<1>2. QED
  BY <1>1, ProcessNumbers DEF GuidTypeOK, Number

(* A call's number gives an id past the latest one, or makes it wait.      *)
LEMMA NumberIsNew ==
  ASSUME GuidTypeOK, CallInv, OneCaller, NEW c \in Asker, Number(c)
  PROVE  CallInv'
<1> DEFINE p == svrid[c]
           t == timestamp[c]
           s == NextSequence(p, t)
<1>1. /\ getId[c] = "number" /\ sequence' = [sequence EXCEPT ![p] = s]
      /\ getId' = [getId EXCEPT ![c] =
                     IF s = 0 /\ lastTimestamp[p] = t THEN "wait" ELSE "return"]
      /\ UNCHANGED <<now, lastTimestamp, timestamp, ids, calls, latest>>
  BY DEF Number
<1>2. /\ p \in Process /\ p \in 0..Servers-1 /\ t \in Nat /\ sequence[p] \in 0..sequenceMax-1
      /\ lastTimestamp[p] \in Nat /\ latest[p] \in Nat
  BY ProcessNumbers DEF GuidTypeOK
<1>3. /\ latest[p] <= IdOf(lastTimestamp[p], p, sequence[p])
      /\ lastTimestamp[p] <= t
  BY <1>1 DEF CallInv
<1>4. s = IF lastTimestamp[p] = t THEN (sequence[p] + 1) % sequenceMax ELSE 0
  BY DEF NextSequence
<1>5. \A u \in Nat : u > lastTimestamp[p] => latest[p] < IdOf(u, p, 0)
  <2> SUFFICES ASSUME NEW u \in Nat, u > lastTimestamp[p] PROVE latest[p] < IdOf(u, p, 0)
    OBVIOUS
  <2>1. IdOf(lastTimestamp[p], p, sequence[p]) < IdOf(u, p, 0)
    BY <1>2, IdGrows
  <2>2. IdOf(lastTimestamp[p], p, sequence[p]) \in Nat /\ IdOf(u, p, 0) \in Nat
    <3>1. 0 \in 0..sequenceMax-1
      BY ProcessNumbers
    <3> HIDE DEF p
    <3>2. QED
      BY <1>2, <3>1, IdDecodes
  <2>3. QED
    BY <1>2, <1>3, <2>1, <2>2
<1>6. s # 0 => latest[p] < IdOf(t, p, s)
  <2> SUFFICES ASSUME s # 0 PROVE latest[p] < IdOf(t, p, s)
    OBVIOUS
  <2>1. lastTimestamp[p] = t /\ s = sequence[p] + 1
    BY <1>2, <1>4, NumberFollows
  <2>2. IdOf(t, p, sequence[p]) \in Nat /\ IdOf(t, p, s) = IdOf(t, p, sequence[p]) + 1
    <3>1. t * Servers \in Nat /\ (t * Servers + p) * sequenceMax \in Nat
      BY <1>2, ProcessNumbers
    <3>2. QED
      BY <1>2, <2>1, <3>1 DEF IdOf
  <2>3. QED
    BY <1>2, <1>3, <2>1, <2>2
<1>7. ~(s = 0 /\ lastTimestamp[p] = t) => latest[p] < IdOf(t, p, s)
  BY <1>2, <1>3, <1>5, <1>6
<1> HIDE DEF s
<1>8. ASSUME NEW d \in Asker, d # c PROVE svrid[d] # p
  BY <1>8 DEF OneCaller
<1>9. \A d \in Asker : d # c =>
        /\ getId'[d] = getId[d] /\ sequence'[svrid[d]] = sequence[svrid[d]]
        /\ NextId(d)' = NextId(d)
  BY <1>1, <1>8, ProcessNumbers DEF GuidTypeOK, NextId
<1>10. sequence'[p] = s /\ NextId(c)' = IdOf(t, p, s)
  BY <1>1, <1>2 DEF GuidTypeOK, NextId
<1>11. getId'[c] = IF s = 0 /\ lastTimestamp[p] = t THEN "wait" ELSE "return"
  BY <1>1 DEF GuidTypeOK
<1> HIDE DEF p, t
<1>12. QED
  BY <1>1, <1>3, <1>5, <1>7, <1>9, <1>10, <1>11 DEF CallInv, p, t

(* The id that is returned is new.                                         *)
LEMMA ReturnedIsNew ==
  ASSUME GuidInv, OneCaller, NEW c \in Asker, ReturnId(c)
  PROVE  GuidInv'
<1> USE DEF GuidInv
<1> DEFINE p == svrid[c]
           id == NextId(c)
<1>1. /\ getId[c] = "return" /\ getId' = [getId EXCEPT ![c] = "idle"]
      /\ lastTimestamp' = [lastTimestamp EXCEPT ![p] = timestamp[c]]
      /\ ids' = ids \cup {id} /\ calls' = calls + 1
      /\ latest' = [latest EXCEPT ![p] = id]
      /\ UNCHANGED <<now, sequence, timestamp>>
  BY DEF ReturnId, NextId
<1>2. /\ p \in Process /\ p \in 0..Servers-1
      /\ timestamp[c] \in Nat /\ sequence[p] \in 0..sequenceMax-1
  BY ProcessNumbers DEF GuidTypeOK
<1>3. id \in Nat /\ (id \div sequenceMax) % Servers = p /\ latest[p] < id
  BY <1>1, <1>2, IdDecodes DEF NextId, CallInv
<1>4. id \notin ids
  <2> SUFFICES ASSUME id \in ids PROVE FALSE
    OBVIOUS
  <2>1. id <= latest[p] /\ latest[p] \in Nat
    BY <1>2, <1>3 DEF IdsUnique, GuidTypeOK
  <2>2. QED
    BY <1>3, <2>1
<1> HIDE DEF p, id
<1>5. GuidTypeOK'
  BY <1>1, <1>2, <1>3 DEF GuidTypeOK
<1>6. IsFiniteSet(ids') /\ Cardinality(ids') = calls' /\ ids' \subseteq Nat
  BY <1>1, <1>3, <1>4, FS_AddElement DEF IdsUnique
<1>7. \A i \in ids' : \A q \in Process :
        (i \div sequenceMax) % Servers = q => i <= latest'[q]
  <2> SUFFICES ASSUME NEW i \in ids', NEW q \in Process,
                      (i \div sequenceMax) % Servers = q
               PROVE  i <= latest'[q]
    OBVIOUS
  <2>1. CASE i = id
    BY <1>1, <1>3, <2>1 DEF GuidTypeOK
  <2>2. CASE i \in ids
    <3>1. i <= latest[q] /\ i \in Nat /\ latest[q] \in Nat
      BY <2>2 DEF IdsUnique, GuidTypeOK
    <3>2. CASE q = p
      <4>1. latest'[q] = id
        BY <1>1, <3>2 DEF GuidTypeOK
      <4>2. QED
        BY <1>3, <3>1, <3>2, <4>1
    <3>3. CASE q # p
      BY <1>1, <3>1, <3>3 DEF GuidTypeOK
    <3>4. QED
      BY <3>2, <3>3
  <2>3. QED
    BY <1>1, <2>1, <2>2
<1>8. CallInv'
  <2> SUFFICES ASSUME NEW d \in Asker
               PROVE  /\ lastTimestamp'[svrid[d]] <= now' /\ timestamp'[d] <= now'
                      /\ getId'[d] \in {"idle", "number"} =>
                           latest'[svrid[d]]
                             <= IdOf(lastTimestamp'[svrid[d]], svrid[d], sequence'[svrid[d]])
                      /\ getId'[d] # "idle" => lastTimestamp'[svrid[d]] <= timestamp'[d]
                      /\ getId'[d] = "number" => timestamp'[d] > 0
                      /\ getId'[d] = "wait" =>
                           /\ sequence'[svrid[d]] = 0
                           /\ \A t \in Nat : t > lastTimestamp'[svrid[d]]
                                 => latest'[svrid[d]] < IdOf(t, svrid[d], 0)
                      /\ getId'[d] = "return" => latest'[svrid[d]] < NextId(d)'
    BY DEF CallInv
  <2>1. CASE d = c
    <3>1. svrid[d] = p /\ latest'[p] = id /\ lastTimestamp'[p] = timestamp[c]
          /\ getId'[d] = "idle" /\ sequence'[p] = sequence[p] /\ timestamp[c] <= now
      BY <1>1, <1>2, <2>1 DEF GuidTypeOK, CallInv, p
    <3>2. id = IdOf(timestamp[c], p, sequence[p])
      BY DEF id, NextId, p
    <3>3. QED
      BY <1>1, <1>3, <2>1, <3>1, <3>2
  <2>2. CASE d # c
    <3>1. svrid[d] # p /\ svrid[d] \in Process
      BY <2>2, ProcessNumbers DEF OneCaller, p
    <3>2. /\ lastTimestamp'[svrid[d]] = lastTimestamp[svrid[d]]
          /\ latest'[svrid[d]] = latest[svrid[d]] /\ getId'[d] = getId[d]
          /\ NextId(d)' = NextId(d)
      BY <1>1, <2>2, <3>1 DEF GuidTypeOK, NextId
    <3>3. QED
      BY <1>1, <3>2 DEF CallInv
  <2>3. QED
    BY <2>1, <2>2
<1>9. \A i \in ids' : (i \div sequenceMax) % Servers \in Process
  BY <1>1, <1>2, <1>3
<1>10. QED
  BY <1>5, <1>6, <1>7, <1>8, <1>9 DEF IdsUnique

LEMMA GuidStep ==
  ASSUME GuidInv, OneCaller, ~ClockGoesBack, [GuidNext]_guidVars
  PROVE  GuidInv'
<1> USE DEF GuidInv
<1>1. CASE Tick
  <2>1. /\ now' = now + 1 /\ now \in Nat
        /\ UNCHANGED <<lastTimestamp, sequence, timestamp, getId, ids, calls, latest>>
    BY <1>1 DEF Tick, GuidTypeOK
  <2>2. GuidTypeOK'
    BY <2>1 DEF GuidTypeOK
  <2>3. \A c \in Asker : NextId(c)' = NextId(c)
    BY <2>1 DEF NextId
  <2>4. \A c \in Asker : lastTimestamp[svrid[c]] \in Nat /\ timestamp[c] \in Nat
    BY ProcessNumbers DEF GuidTypeOK
  <2>5. CallInv'
    BY <2>1, <2>3, <2>4 DEF CallInv
  <2>6. QED
    BY <2>1, <2>2, <2>5 DEF IdsUnique
<1>2. ASSUME NEW c \in Asker, ReadClock(c) PROVE GuidInv'
  <2>1. /\ getId[c] = "idle" /\ getId' = [getId EXCEPT ![c] = "number"]
        /\ timestamp' = [timestamp EXCEPT ![c] = now]
        /\ UNCHANGED <<now, lastTimestamp, sequence, ids, calls, latest>>
    BY <1>2 DEF ReadClock
  <2>2. GuidTypeOK'
    BY <2>1 DEF GuidTypeOK
  <2>3. \A d \in Asker : d # c =>
          getId'[d] = getId[d] /\ timestamp'[d] = timestamp[d] /\ NextId(d)' = NextId(d)
    BY <2>1 DEF GuidTypeOK, NextId
  <2>4. getId'[c] = "number" /\ timestamp'[c] = now /\ now \in Nat \ {0}
    BY <2>1 DEF GuidTypeOK
  <2>5. CallInv'
    BY <2>1, <2>3, <2>4 DEF CallInv
  <2>6. QED
    BY <2>1, <2>2, <2>5 DEF IdsUnique
<1>3. ASSUME NEW c \in Asker, Number(c) PROVE GuidInv'
  <2>1. UNCHANGED <<ids, calls, latest>>
    BY <1>3 DEF Number
  <2>2. QED
    BY <1>3, <2>1, TypeNumber, NumberIsNew DEF IdsUnique
<1>4. ASSUME NEW c \in Asker, GetNextMillis(c) PROVE GuidInv'
  <2>1. /\ getId[c] = "wait" /\ now > lastTimestamp[svrid[c]]
        /\ timestamp' = [timestamp EXCEPT ![c] = now]
        /\ getId' = [getId EXCEPT ![c] = "return"]
        /\ UNCHANGED <<now, lastTimestamp, sequence, ids, calls, latest>>
    BY <1>4 DEF GetNextMillis
  <2>2. GuidTypeOK'
    BY <2>1 DEF GuidTypeOK
  <2>3. \A d \in Asker : d # c =>
          getId'[d] = getId[d] /\ timestamp'[d] = timestamp[d] /\ NextId(d)' = NextId(d)
    BY <2>1 DEF GuidTypeOK, NextId
  <2>4. /\ getId'[c] = "return" /\ timestamp'[c] = now /\ now \in Nat
        /\ lastTimestamp[svrid[c]] \in Nat /\ sequence[svrid[c]] = 0
    BY <2>1, ProcessNumbers DEF GuidTypeOK, CallInv
  <2>5. NextId(c)' = IdOf(now, svrid[c], 0)
    BY <2>1, <2>4 DEF NextId
  <2>6. latest[svrid[c]] < IdOf(now, svrid[c], 0)
    BY <2>1, <2>4 DEF CallInv
  <2>7. CallInv'
    BY <2>1, <2>3, <2>4, <2>5, <2>6 DEF CallInv
  <2>8. QED
    BY <2>1, <2>2, <2>7 DEF IdsUnique
<1>5. CASE UNCHANGED guidVars
  <2>1. UNCHANGED <<now, lastTimestamp, sequence, timestamp, getId, ids, calls, latest>>
    BY <1>5 DEF guidVars
  <2>2. GuidTypeOK' /\ CallInv' /\ IdsUnique'
    BY <2>1 DEF GuidTypeOK, CallInv, NextId, IdsUnique
  <2>3. QED
    BY <2>1, <2>2
<1>6. QED
  BY <1>1, <1>2, <1>3, <1>4, <1>5, ReturnedIsNew DEF GuidNext

(* getId: where each process asks from one thread and the clock does not   *)
(* go back, no id is given twice, and those of a process grow.             *)
THEOREM IdsAreUnique ==
  ASSUME OneCaller, ~ClockGoesBack
  PROVE  GuidSpec => []IdsUnique
<1>1. GuidInv => IdsUnique
  BY DEF GuidInv
<1>2. GuidInv /\ [GuidNext]_guidVars => GuidInv'
  BY GuidStep
<1>3. QED
  BY <1>1, <1>2, GuidStarts, PTL DEF GuidSpec

-----------------------------------------------------------------------------
(* The log.                                                                *)

(* The k-th of the numbers in use, when all are: the one after the file    *)
(* being written comes first.                                              *)
Nth(k) == IF rotatedIndex + k > Files THEN rotatedIndex + k - Files ELSE rotatedIndex + k

(* Files are begun in the order of their numbers, around and around.       *)
LogNumbers ==
  /\ begun \in Seq(1..Files) /\ rotatedIndex \in 1..Files /\ stdFilePtr \in BOOLEAN
  /\ Len(begun) <= Files
  /\ Len(begun) < Files => \A k \in 1..Len(begun) : begun[k] = k
  /\ Len(begun) = Files => \A k \in 1..Files : begun[k] = Nth(k)
  /\ Len(begun) > 0 => begun[Len(begun)] = rotatedIndex
  /\ stdFilePtr => Len(begun) > 0

(* In the order in which the files were begun, each has a later last line; *)
(* only the one that is being written may share its second.                *)
LogTimes ==
  /\ second \in Nat /\ mtime \in [1..Files -> Nat]
  /\ \A j \in 1..Files : mtime[j] <= second
  /\ \A k, l \in 1..Len(begun) : k < l =>
       /\ mtime[begun[k]] <= mtime[begun[l]]
       /\ l < Len(begun) \/ ~stdFilePtr => mtime[begun[k]] < mtime[begun[l]]

(* The invariant of the induction.                                         *)
LogInv == LogNumbers /\ LogTimes

(* The types of the file numbers.                                          *)
LEMMA LogTyped ==
  ASSUME LogNumbers
  PROVE  /\ Files \in Nat /\ Files > 0 /\ rotatedIndex \in 1..Files /\ rotatedIndex \in Nat
         /\ begun \in Seq(1..Files) /\ Len(begun) \in Nat /\ Len(begun) <= Files
         /\ \A k \in 1..Len(begun) : begun[k] \in 1..Files
         /\ stdFilePtr => Len(begun) > 0
<1>1. begun \in Seq(1..Files)
  BY DEF LogNumbers
<1>2. Files \in Nat /\ Files > 0
  <2>1. Files \in Nat \ {0}
    BY LogAssumption
  <2>2. QED
    BY <2>1
<1>3. Len(begun) \in Nat /\ \A k \in 1..Len(begun) : begun[k] \in 1..Files
  BY <1>1, <1>2
<1>4. rotatedIndex \in 1..Files /\ rotatedIndex \in Nat
  BY <1>2 DEF LogNumbers
<1>5. Len(begun) <= Files /\ (stdFilePtr => Len(begun) > 0)
  BY DEF LogNumbers
<1>6. QED
  BY <1>1, <1>2, <1>3, <1>4, <1>5

(* No file is begun twice before it is forgotten.                          *)
LEMMA BegunOnce ==
  ASSUME LogNumbers, NEW k \in 1..Len(begun), NEW l \in 1..Len(begun), k # l
  PROVE  begun[k] # begun[l]
<1>1. Len(begun) \in Nat /\ Files \in Nat /\ Files > 0 /\ rotatedIndex \in 1..Files
  BY LogTyped
<1>2. CASE Len(begun) < Files
  BY <1>1, <1>2 DEF LogNumbers
<1>3. CASE Len(begun) = Files
  <2>1. begun[k] = Nth(k) /\ begun[l] = Nth(l)
    BY <1>3 DEF LogNumbers
  <2>2. Nth(k) # Nth(l)
    BY <1>1, <1>3 DEF Nth
  <2>3. QED
    BY <2>1, <2>2
<1>4. QED
  BY <1>1, <1>2, <1>3 DEF LogNumbers

(* The number that comes next, for all that print and open do.             *)
Next1(i) == i = IF Len(begun) < Files THEN Len(begun) + 1 ELSE begun[1]

(* print, when the file is full: the next number around.                   *)
LEMMA NextIndexNext ==
  ASSUME LogNumbers, stdFilePtr
  PROVE  Next1(NextIndex)
<1>1. Len(begun) \in Nat /\ Files \in Nat /\ Files > 0 /\ rotatedIndex \in 1..Files /\ Len(begun) > 0
  BY LogTyped
<1>2. CASE Len(begun) < Files
  <2>1. rotatedIndex = Len(begun)
    BY <1>1, <1>2 DEF LogNumbers
  <2>2. QED
    BY <1>1, <1>2, <2>1 DEF NextIndex, Next1
<1>3. CASE Len(begun) = Files
  <2>1. begun[1] = Nth(1)
    BY <1>1, <1>3 DEF LogNumbers
  <2>2. QED
    BY <1>1, <1>3, <2>1 DEF Next1, NextIndex, Nth
<1>4. QED
  BY <1>1, <1>2, <1>3 DEF LogNumbers

(* The largest number of an interval.                                      *)
LEMMA MaxUpTo ==
  ASSUME NEW n \in Nat
  PROVE  Max(0..n) = n
<1>1. n \in 0..n /\ \A y \in 0..n : n >= y
  OBVIOUS
<1>2. ASSUME NEW x \in 0..n, \A y \in 0..n : x >= y PROVE x = n
  <2>1. x >= n
    BY <1>1, <1>2
  <2>2. QED
    BY <2>1
<1>3. QED
  BY <1>1, <1>2 DEF Max

(* getIndex: the files that are found are those that were begun.           *)
LEMMA FoundAre ==
  ASSUME LogNumbers, LogPath = "plain"
  PROVE  /\ Found = 1..Len(begun) /\ Max(Found \cup {0}) = Len(begun)
         /\ Found = {begun[k] : k \in 1..Len(begun)}
<1>1. Len(begun) \in Nat /\ Files \in Nat /\ Files > 0 /\ rotatedIndex \in 1..Files
      /\ begun \in Seq(1..Files) /\ DOMAIN begun = 1..Len(begun)
  BY LogTyped
<1>2. Found = {begun[k] : k \in 1..Len(begun)}
  BY <1>1 DEF Found, ToSet
<1>3. Found = 1..Len(begun)
  <2>1. CASE Len(begun) < Files
    <3>1. \A k \in 1..Len(begun) : begun[k] = k
      BY <2>1 DEF LogNumbers
    <3>2. QED
      BY <1>2, <3>1
  <2>2. CASE Len(begun) = Files
    <3>1. \A k \in 1..Files : begun[k] = Nth(k)
      BY <2>2 DEF LogNumbers
    <3>2. ASSUME NEW v \in 1..Files PROVE \E k \in 1..Files : begun[k] = v
      <4>1. CASE v > rotatedIndex
        <5>1. v - rotatedIndex \in 1..Files /\ Nth(v - rotatedIndex) = v
          BY <1>1, <4>1 DEF Nth
        <5>2. QED
          BY <3>1, <5>1
      <4>2. CASE v <= rotatedIndex
        <5>1. v - rotatedIndex + Files \in 1..Files /\ Nth(v - rotatedIndex + Files) = v
          BY <1>1, <4>2 DEF Nth
        <5>2. QED
          BY <3>1, <5>1
      <4>3. QED
        BY <1>1, <4>1, <4>2
    <3>3. \A k \in 1..Len(begun) : begun[k] \in 1..Files
      BY <1>1
    <3>4. Found \subseteq 1..Files
      BY <1>2, <3>3
    <3>5. 1..Files \subseteq Found
      BY <1>2, <2>2, <3>2
    <3>6. Found = 1..Files
      BY <3>4, <3>5
    <3>7. QED
      BY <2>2, <3>6
  <2>3. Len(begun) < Files \/ Len(begun) = Files
    <3>1. Files \in Nat /\ Len(begun) \in Nat /\ Len(begun) <= Files
      BY LogTyped
    <3>2. QED
      BY <3>1
  <2>4. QED
    BY <2>1, <2>2, <2>3
<1>4. Max(Found \cup {0}) = Len(begun)
  <2>1. Found \cup {0} = 0..Len(begun)
    BY <1>1, <1>3
  <2>2. QED
    BY <1>1, <2>1, MaxUpTo
<1>5. QED
  BY <1>2, <1>3, <1>4

(* open: getIndex returns the first free number, or the oldest file.       *)
LEMMA GetIndexNext ==
  ASSUME LogInv, LogPath = "plain", ~stdFilePtr
  PROVE  Next1(GetIndex)
<1>1. Len(begun) \in Nat /\ Files \in Nat /\ Files > 0 /\ begun \in Seq(1..Files)
  BY LogTyped DEF LogInv
<1>2. CASE Len(begun) < Files
  BY <1>2, FoundAre DEF GetIndex, Next1, LogInv
<1>3. CASE ~(Len(begun) < Files)
  <2>1. Len(begun) = Files /\ 1 \in 1..Len(begun)
    BY <1>1, <1>3 DEF LogInv, LogNumbers
  <2>2. Found = {begun[k] : k \in 1..Len(begun)} /\ begun[1] \in Found
    BY <2>1, FoundAre DEF LogInv
  <2>3. \A k \in 1..Len(begun) : k # 1 => mtime[begun[1]] < mtime[begun[k]]
    BY <1>1, <2>1 DEF LogInv, LogTimes
  <2>4. \A k \in 1..Len(begun) : begun[k] \in Int /\ mtime[begun[k]] \in Int
    BY <1>1 DEF LogInv, LogTimes
  <2>5. \A j \in Found : Older(begun[1], j)
    BY <2>1, <2>2, <2>3, <2>4 DEF Older
  <2>6. ASSUME NEW i \in Found, \A j \in Found : Older(i, j) PROVE i = begun[1]
    <3>1. PICK k \in 1..Len(begun) : i = begun[k]
      BY <2>2
    <3>2. Older(i, begun[1])
      BY <2>2, <2>6
    <3>3. CASE k # 1
      BY <2>1, <2>3, <2>4, <3>1, <3>2, <3>3 DEF Older
    <3>4. QED
      BY <3>1, <3>3
  <2>7. GetIndex = CHOOSE i \in Found : \A j \in Found : Older(i, j)
    <3>1. Max(Found \cup {0}) = Files
      BY <2>1, FoundAre DEF LogInv
    <3>2. ~(Files < Files)
      BY <1>1
    <3>3. QED
      BY <3>1, <3>2 DEF GetIndex
  <2>8. GetIndex = begun[1]
    BY <2>2, <2>5, <2>6, <2>7
  <2>9. QED
    BY <1>3, <2>8 DEF Next1
<1>4. QED
  BY <1>2, <1>3

(* How many files are taken from the front of the list for a new one.      *)
Dropped == IF Len(begun) < Files THEN 0 ELSE 1

(* The list of the files, when one more is begun: those that stay keep     *)
(* their order.                                                            *)
LEMMA BegunChanges ==
  ASSUME LogNumbers, NEW i, Next1(i), BeginFile(i)
  PROVE  /\ LogNumbers' /\ i \in 1..Files /\ begun'[Len(begun')] = i /\ Len(begun') > 0
         /\ Len(begun') - 1 + Dropped = Len(begun)
         /\ \A k \in 1..(Len(begun') - 1) : begun'[k] = begun[k + Dropped]
<1>1. Len(begun) \in Nat /\ Files \in Nat /\ Files > 0 /\ begun \in Seq(1..Files)
      /\ rotatedIndex \in 1..Files /\ Len(begun) <= Files
  BY LogTyped
<1>2. rotatedIndex' = i /\ stdFilePtr' = TRUE /\ begun' = Append(RemoveFirst(begun, i), i)
  BY DEF BeginFile
<1>3. CASE Len(begun) < Files
  <2>1. i = Len(begun) + 1 /\ i \in 1..Files
    BY <1>1, <1>3 DEF Next1
  <2>2. \A k \in 1..Len(begun) : begun[k] = k
    BY <1>3 DEF LogNumbers
  <2>3. RemoveFirst(begun, i) = begun
    BY <1>1, <2>1, <2>2 DEF RemoveFirst
  <2>4. /\ begun' \in Seq(1..Files) /\ Len(begun') = Len(begun) + 1
        /\ \A k \in 1..Len(begun) : begun'[k] = begun[k]
        /\ begun'[Len(begun) + 1] = i
    BY <1>1, <1>2, <2>1, <2>3
  <2>5. \A k \in 1..(Len(begun) + 1) : begun'[k] = k
    <3> SUFFICES ASSUME NEW k \in 1..(Len(begun) + 1) PROVE begun'[k] = k
      OBVIOUS
    <3>1. k \in 1..Len(begun) \/ k = Len(begun) + 1
      BY <1>1
    <3>2. QED
      BY <2>1, <2>2, <2>4, <3>1
  <2>6. Len(begun) + 1 = Files => \A k \in 1..Files : begun'[k] = Nth(k)'
    <3> SUFFICES ASSUME Len(begun) + 1 = Files, NEW k \in 1..Files PROVE begun'[k] = Nth(k)'
      OBVIOUS
    <3>1. rotatedIndex' = Files /\ begun'[k] = k
      BY <1>2, <2>1, <2>5
    <3>2. Files + k > Files /\ Files + k - Files = k
      BY <1>1
    <3>3. QED
      BY <3>1, <3>2 DEF Nth
  <2>7. LogNumbers'
    BY <1>1, <1>2, <1>3, <2>1, <2>4, <2>5, <2>6 DEF LogNumbers
  <2>8. Dropped = 0
    BY <1>3 DEF Dropped
  <2>9. \A k \in 1..(Len(begun') - 1) : begun'[k] = begun[k + Dropped]
    BY <1>1, <2>4, <2>8
  <2>10. Len(begun') - 1 + Dropped = Len(begun) /\ Len(begun') > 0
    BY <1>1, <2>4, <2>8
  <2>11. QED
    BY <1>1, <2>1, <2>4, <2>7, <2>9, <2>10
<1>4. CASE Len(begun) = Files
  <2>1. i = begun[1] /\ 1 \in 1..Len(begun) /\ i \in 1..Files
    BY <1>1, <1>4 DEF Next1
  <2>2. RemoveFirst(begun, i) = RemoveAt(begun, 1)
    <3>1. {k \in 1..Len(begun) : begun[k] = i} = {1}
      BY <2>1, BegunOnce
    <3>2. Min({1}) = 1
      BY DEF Min
    <3>3. QED
      BY <2>1, <3>1, <3>2 DEF RemoveFirst, SelectInSeq
  <2>3. /\ RemoveAt(begun, 1) \in Seq(1..Files) /\ Len(RemoveAt(begun, 1)) = Files - 1
        /\ \A k \in 1..(Files - 1) : RemoveAt(begun, 1)[k] = begun[k + 1]
    <3>1. SubSeq(begun, 1, 1 - 1) = <<>>
      BY <1>1
    <3>2. /\ SubSeq(begun, 1 + 1, Len(begun)) \in Seq(1..Files)
          /\ Len(SubSeq(begun, 1 + 1, Len(begun))) = Files - 1
          /\ \A k \in 1..(Files - 1) : SubSeq(begun, 1 + 1, Len(begun))[k] = begun[k + 1]
      BY <1>1, <1>4
    <3>3. QED
      BY <3>1, <3>2 DEF RemoveAt
  <2>4. /\ begun' \in Seq(1..Files) /\ Len(begun') = Files
        /\ \A k \in 1..(Files - 1) : begun'[k] = begun[k + 1]
        /\ begun'[Files] = i
    BY <1>1, <1>2, <2>1, <2>2, <2>3
  <2>5. \A k \in 1..Files : begun'[k] = Nth(k)'
    <3>1. \A k \in 1..Files : begun[k] = Nth(k)
      BY <1>4 DEF LogNumbers
    <3>2. rotatedIndex' = Nth(1)
      BY <1>1, <1>2, <2>1, <3>1
    <3> SUFFICES ASSUME NEW k \in 1..Files PROVE begun'[k] = Nth(k)'
      OBVIOUS
    <3>3. CASE k = Files
      <4>1. Nth(k)' = rotatedIndex'
        BY <1>1, <1>2, <2>1, <3>3 DEF Nth
      <4>2. QED
        BY <1>2, <2>4, <3>3, <4>1
    <3>4. CASE k \in 1..(Files - 1)
      <4>1. begun'[k] = Nth(k + 1)
        <5>1. k + 1 \in 1..Files
          BY <1>1, <3>4
        <5>2. QED
          BY <2>4, <3>1, <3>4, <5>1
      <4>2. Nth(k)' = Nth(k + 1)
        BY <1>1, <3>2, <3>4 DEF Nth
      <4>3. QED
        BY <4>1, <4>2
    <3>5. QED
      BY <1>1, <3>3, <3>4
  <2>6. LogNumbers'
    <3>1. rotatedIndex' \in 1..Files /\ stdFilePtr' \in BOOLEAN /\ begun'[Len(begun')] = rotatedIndex'
      BY <1>2, <2>1, <2>4
    <3>2. Len(begun') <= Files /\ ~(Len(begun') < Files) /\ Len(begun') > 0
      BY <1>1, <2>4
    <3>3. QED
      BY <2>4, <2>5, <3>1, <3>2 DEF LogNumbers
  <2>7. Dropped = 1
    BY <1>1, <1>4 DEF Dropped
  <2>8. Len(begun') - 1 + Dropped = Len(begun) /\ Len(begun') > 0
    BY <1>1, <1>4, <2>4, <2>7
  <2>9. \A k \in 1..(Len(begun') - 1) : begun'[k] = begun[k + Dropped]
    BY <2>4, <2>7
  <2>10. QED
    BY <2>1, <2>4, <2>6, <2>8, <2>9
<1>5. QED
  BY <1>1, <1>3, <1>4

(* A file is begun: it gets the latest of the times.                       *)
LEMMA BeginFileKeeps ==
  ASSUME LogInv, NEW i, Next1(i), BeginFile(i),
         stdFilePtr => \A j \in (1..Files) \ {rotatedIndex} : mtime[j] < second
  PROVE  LogInv'
<1>1. /\ LogNumbers' /\ i \in 1..Files /\ begun'[Len(begun')] = i /\ Len(begun') > 0
  BY BegunChanges DEF LogInv
<1>2. /\ Len(begun') - 1 + Dropped = Len(begun)
      /\ \A k \in 1..(Len(begun') - 1) : begun'[k] = begun[k + Dropped]
  BY BegunChanges DEF LogInv
<1>3. /\ Files \in Nat /\ rotatedIndex \in 1..Files
      /\ Len(begun) \in Nat /\ \A k \in 1..Len(begun) : begun[k] \in 1..Files
  BY LogTyped DEF LogInv
<1>4. Len(begun') \in Nat /\ \A k \in 1..Len(begun') : begun'[k] \in 1..Files
  <2>1. begun' \in Seq(1..Files)
    BY <1>1 DEF LogNumbers
  <2>2. QED
    BY <1>3, <2>1
<1>5. PICK n \in Nat : n = Len(begun)
  BY <1>3
<1>6. PICK m \in Nat : m = Len(begun')
  BY <1>4
<1>7. PICK d \in {0, 1} : d = Dropped
  BY DEF Dropped
<1>8. /\ d \in {0, 1} /\ d \in Nat /\ m - 1 + d = n /\ m > 0 /\ begun'[m] = i
      /\ d = 1 => i = begun[1]
      /\ d = 0 => i = n + 1 /\ \A k \in 1..n : begun[k] = k
      /\ \A k \in 1..(m - 1) : begun'[k] = begun[k + d]
      /\ n > 0 => begun[n] = rotatedIndex
      /\ \A k \in 1..n : begun[k] \in 1..Files
      /\ \A k \in 1..m : begun'[k] \in 1..Files
  <2>1. d \in {0, 1} /\ d \in Nat
    OBVIOUS
  <2>2. n > 0 => begun[n] = rotatedIndex
    BY <1>5 DEF LogInv, LogNumbers
  <2>3. d = 0 => i = n + 1 /\ \A k \in 1..n : begun[k] = k
    BY <1>5, <1>7 DEF LogInv, LogNumbers, Dropped, Next1
  <2>4. d = 1 => i = begun[1]
    BY <1>7 DEF Dropped, Next1
  <2>5. m - 1 + d = n /\ m > 0 /\ begun'[m] = i
    BY <1>1, <1>2, <1>5, <1>6, <1>7
  <2>6. QED
    BY <1>2, <1>3, <1>4, <1>5, <1>6, <1>7, <2>1, <2>2, <2>3, <2>4, <2>5
<1>9. \A k, l \in 1..n : k # l => begun[k] # begun[l]
  BY <1>5, BegunOnce DEF LogInv
<1>10. second \in Nat /\ mtime \in [1..Files -> Nat] /\ \A j \in 1..Files : mtime[j] <= second
  BY DEF LogInv, LogTimes
<1>11. /\ second' = second /\ stdFilePtr' = TRUE
       /\ mtime' = [j \in 1..Files |-> IF j = i \/ (stdFilePtr /\ j = rotatedIndex)
                                    THEN second ELSE mtime[j]]
  BY DEF BeginFile
<1>12. /\ mtime' \in [1..Files -> Nat] /\ mtime'[i] = second
       /\ stdFilePtr => mtime'[rotatedIndex] = second
       /\ \A j \in 1..Files : mtime'[j] <= second
       /\ \A j \in 1..Files : j # i /\ (j # rotatedIndex \/ ~stdFilePtr) => mtime'[j] = mtime[j]
  BY <1>1, <1>3, <1>10, <1>11
<1>13. ASSUME NEW k \in 1..m, NEW l \in 1..m, k < l
       PROVE  /\ mtime'[begun'[k]] <= mtime'[begun'[l]]
              /\ l < m => mtime'[begun'[k]] < mtime'[begun'[l]]
  <2>1. begun'[k] \in 1..Files /\ begun'[l] \in 1..Files
    BY <1>8
  <2>2. mtime'[begun'[k]] \in Nat /\ mtime'[begun'[l]] \in Nat
    BY <1>12, <2>1
  <2>3. CASE l = m
    BY <1>8, <1>12, <2>1, <2>3
  <2>4. CASE l < m
    <3>1. k \in 1..(m - 1) /\ l \in 1..(m - 1)
      BY <1>13, <2>4
    <3>2. /\ k + d \in 1..n /\ l + d \in 1..n /\ k + d < l + d /\ k + d < n /\ n \in 1..n
      BY <1>8, <1>13, <3>1
    <3>3. begun'[k] = begun[k + d] /\ begun'[l] = begun[l + d]
      BY <1>8, <3>1
    <3>4. begun'[k] # i /\ begun'[l] # i
      <4>1. CASE d = 1
        <5>1. 1 \in 1..n /\ k + d # 1 /\ l + d # 1
          BY <3>1, <3>2, <4>1
        <5>2. QED
          BY <1>8, <1>9, <3>2, <3>3, <4>1, <5>1
      <4>2. CASE d = 0
        <5>1. begun[k + d] = k + d /\ begun[l + d] = l + d /\ i = n + 1
          BY <1>8, <3>2, <4>2
        <5>2. QED
          BY <3>2, <3>3, <5>1
      <4>3. QED
        BY <1>8, <4>1, <4>2
    <3>5. begun'[k] # rotatedIndex
      BY <1>8, <1>9, <3>2, <3>3
    <3>6. mtime'[begun'[k]] = mtime[begun[k + d]]
      BY <1>12, <2>1, <3>3, <3>4, <3>5
    <3>7. (l + d < n \/ ~stdFilePtr) => mtime[begun[k + d]] < mtime[begun[l + d]]
      BY <1>5, <3>2 DEF LogInv, LogTimes
    <3>8. mtime'[begun'[k]] < mtime'[begun'[l]]
      <4>1. CASE begun'[l] = rotatedIndex /\ stdFilePtr
        <5>1. mtime'[begun'[l]] = second
          BY <1>12, <4>1
        <5>2. mtime[begun[k + d]] < second
          BY <2>1, <3>3, <3>5, <4>1
        <5>3. QED
          BY <3>6, <5>1, <5>2
      <4>2. CASE begun'[l] # rotatedIndex \/ ~stdFilePtr
        <5>1. mtime'[begun'[l]] = mtime[begun[l + d]]
          BY <1>12, <2>1, <3>3, <3>4, <4>2
        <5>2. l + d < n \/ ~stdFilePtr
          <6>1. l + d = n => begun'[l] = rotatedIndex
            BY <1>8, <3>2, <3>3
          <6>2. QED
            BY <3>2, <4>2, <6>1
        <5>3. QED
          BY <3>6, <3>7, <5>1, <5>2
      <4>3. QED
        BY <4>1, <4>2
    <3>9. QED
      BY <2>2, <3>8
  <2>5. QED
    BY <2>3, <2>4
<1>14. LogTimes'
  BY <1>6, <1>10, <1>11, <1>12, <1>13 DEF LogTimes
<1>15. QED
  BY <1>1, <1>14 DEF LogInv

(* The invariant of the log is inductive.                                  *)
LEMMA LogStep ==
  ASSUME LogInv, [LogNext]_logVars, LogPath = "plain", ~SameSecond
  PROVE  LogInv'
<1>1. CASE SecondPasses
  <2>1. second \in Nat /\ mtime \in [1..Files -> Nat] /\ second' = second + 1
        /\ UNCHANGED <<mtime, begun, stdFilePtr, rotatedIndex>>
    BY <1>1 DEF SecondPasses, LogInv, LogTimes
  <2>2. second' \in Nat /\ \A j \in 1..Files : mtime'[j] <= second'
    BY <2>1 DEF LogInv, LogTimes
  <2>3. QED
    BY <2>1, <2>2 DEF LogInv, LogNumbers, LogTimes, Nth
<1>2. CASE Open
  BY <1>2, GetIndexNext, BeginFileKeeps DEF Open
<1>3. CASE Close
  <2>1. stdFilePtr /\ stdFilePtr' = FALSE /\ UNCHANGED <<second, mtime, begun, rotatedIndex>>
        /\ \A j \in (1..Files) \ {rotatedIndex} : mtime[j] < mtime[rotatedIndex]
    BY <1>3 DEF Close, Settled
  <2>2. begun \in Seq(1..Files) /\ Len(begun) \in Nat /\ Len(begun) > 0
        /\ begun[Len(begun)] = rotatedIndex
        /\ \A k \in 1..Len(begun) : begun[k] \in 1..Files
    BY <2>1, LogTyped DEF LogInv, LogNumbers
  <2>3. ASSUME NEW k \in 1..Len(begun), NEW l \in 1..Len(begun), k < l
        PROVE  mtime[begun[k]] < mtime[begun[l]]
    <3>1. CASE l < Len(begun)
      BY <2>3, <3>1 DEF LogInv, LogTimes
    <3>2. CASE l = Len(begun)
      <4>1. begun[k] # begun[l]
        BY <2>3, <2>2, BegunOnce DEF LogInv
      <4>2. QED
        BY <2>1, <2>2, <3>2, <4>1
    <3>3. QED
      BY <2>2, <3>1, <3>2
  <2>4. LogNumbers'
    BY <2>1 DEF LogInv, LogNumbers, Nth
  <2>5. LogTimes'
    BY <2>1, <2>3 DEF LogInv, LogTimes
  <2>6. QED
    BY <2>4, <2>5 DEF LogInv
<1>4. CASE PrintLine /\ logSize + 1 >= FileSize
  BY <1>4, NextIndexNext, BeginFileKeeps DEF PrintLine, Settled, LogInv
<1>5. CASE PrintLine /\ ~(logSize + 1 >= FileSize)
  <2>1. stdFilePtr /\ mtime' = [mtime EXCEPT ![rotatedIndex] = second]
        /\ UNCHANGED <<second, begun, stdFilePtr, rotatedIndex>>
    BY <1>5 DEF PrintLine
  <2>2. begun \in Seq(1..Files) /\ Len(begun) \in Nat /\ Len(begun) > 0
        /\ begun[Len(begun)] = rotatedIndex /\ rotatedIndex \in 1..Files
        /\ \A k \in 1..Len(begun) : begun[k] \in 1..Files
    BY <2>1, LogTyped DEF LogInv, LogNumbers
  <2>3. /\ second \in Nat /\ mtime \in [1..Files -> Nat] /\ \A j \in 1..Files : mtime[j] <= second
    BY DEF LogInv, LogTimes
  <2>4. /\ mtime' \in [1..Files -> Nat] /\ mtime'[rotatedIndex] = second
        /\ \A j \in 1..Files : mtime'[j] <= second
        /\ \A j \in 1..Files : j # rotatedIndex => mtime'[j] = mtime[j]
    BY <2>1, <2>2, <2>3
  <2>5. ASSUME NEW k \in 1..Len(begun), NEW l \in 1..Len(begun), k < l
        PROVE  /\ mtime'[begun[k]] <= mtime'[begun[l]]
               /\ l < Len(begun) => mtime'[begun[k]] < mtime'[begun[l]]
    <3>1. CASE l < Len(begun)
      <4>1. Len(begun) \in 1..Len(begun) /\ k # Len(begun) /\ l # Len(begun)
        BY <2>2, <2>5, <3>1
      <4>2. begun[k] # rotatedIndex /\ begun[l] # rotatedIndex
        BY <2>2, <4>1, BegunOnce DEF LogInv
      <4>3. mtime[begun[k]] < mtime[begun[l]]
        BY <2>5, <3>1 DEF LogInv, LogTimes
      <4>4. mtime'[begun[k]] < mtime'[begun[l]]
        BY <2>2, <2>4, <4>2, <4>3
      <4>5. mtime'[begun[k]] \in Nat /\ mtime'[begun[l]] \in Nat
        BY <2>2, <2>4
      <4>6. QED
        BY <4>4, <4>5
    <3>2. CASE l = Len(begun)
      BY <2>2, <2>4, <3>2
    <3>3. QED
      BY <2>2, <3>1, <3>2
  <2>6. LogNumbers'
    BY <2>1 DEF LogInv, LogNumbers, Nth
  <2>7. LogTimes'
    BY <2>1, <2>3, <2>4, <2>5 DEF LogTimes
  <2>8. QED
    BY <2>6, <2>7 DEF LogInv
<1>6. CASE UNCHANGED logVars
  BY <1>6 DEF logVars, LogInv, LogNumbers, LogTimes, Nth
<1>7. QED
  BY <1>1, <1>2, <1>3, <1>4, <1>5, <1>6 DEF LogNext

(* A file that is begun again is the one begun before all others.          *)
LEMMA EmptiesOldest ==
  ASSUME LogInv, [LogNext]_logVars, LogPath = "plain",
         begun' # begun, ToSet(begun') = ToSet(begun)
  PROVE  Len(begun) = Files /\ Last(begun') = Head(begun)
<1>1. PICK i : Next1(i) /\ BeginFile(i)
  BY GetIndexNext, NextIndexNext
     DEF LogNext, SecondPasses, Open, Close, PrintLine, logVars, LogInv
<1>2. begun'[Len(begun')] = i /\ Len(begun') > 0 /\ LogNumbers' /\ LogNumbers
  BY <1>1, BegunChanges DEF LogInv
<1>3. begun' \in Seq(1..Files) /\ begun \in Seq(1..Files) /\ Len(begun) \in Nat /\ Files \in Nat
      /\ Len(begun) <= Files /\ Files > 0
  BY <1>2, LogTyped DEF LogNumbers
<1>4. CASE Len(begun) < Files
  <2>1. i = Len(begun) + 1 /\ \A k \in 1..Len(begun) : begun[k] = k
    BY <1>2, <1>1, <1>4 DEF Next1, LogNumbers
  <2>2. i \in ToSet(begun')
    BY <1>2, <1>3 DEF ToSet
  <2>3. i \notin ToSet(begun)
    <3>1. DOMAIN begun = 1..Len(begun)
      BY <1>3
    <3>2. \A k \in 1..Len(begun) : begun[k] # i
      BY <1>3, <2>1
    <3>3. QED
      BY <3>1, <3>2 DEF ToSet
  <2>4. QED
    BY <2>2, <2>3
<1>5. CASE Len(begun) = Files
  <2>1. i = begun[1]
    BY <1>1, <1>3, <1>5 DEF Next1
  <2>2. Head(begun) = begun[1]
    BY <1>3, <1>5
  <2>3. QED
    BY <1>2, <1>5, <2>1, <2>2 DEF Last
<1>6. QED
  BY <1>3, <1>4, <1>5

(* Log: with the files looked up, and found in the order of their last     *)
(* lines, a file is emptied only when all numbers are in use, and it is    *)
(* then the one begun before all others.                                   *)
THEOREM OldestFileGoes ==
  ASSUME LogPath = "plain", ~SameSecond
  PROVE  LogSpec => OldestGoes
<1>1. LogInit => LogInv
  <2> SUFFICES ASSUME LogInit PROVE LogInv
    OBVIOUS
  <2>1. Files \in Nat \ {0}
    BY LogAssumption
  <2>2. begun = <<>> /\ rotatedIndex = 1 /\ stdFilePtr = FALSE /\ second = 1
        /\ mtime = [i \in 1..Files |-> 0]
    BY DEF LogInit
  <2>3. Len(begun) = 0 /\ begun \in Seq(1..Files)
    BY <2>2
  <2>4. LogNumbers
    <3>1. rotatedIndex \in 1..Files
      BY <2>1, <2>2
    <3>2. stdFilePtr \in BOOLEAN /\ ~stdFilePtr
      BY <2>2
    <3>3. Len(begun) <= Files /\ Len(begun) # Files /\ ~(Len(begun) > 0)
      BY <2>1, <2>3
    <3>4. \A k \in 1..Len(begun) : begun[k] = k
      BY <2>3
    <3>5. QED
      BY <2>3, <3>1, <3>2, <3>3, <3>4 DEF LogNumbers
  <2>5. LogTimes
    BY <2>1, <2>2, <2>3 DEF LogTimes
  <2>6. QED
    BY <2>4, <2>5 DEF LogInv
<1>2. LogInv /\ [LogNext]_logVars => LogInv'
  BY LogStep
<1>3. LogInv /\ [LogNext]_logVars =>
      [begun' # begun /\ ToSet(begun') = ToSet(begun) =>
         Len(begun) = Files /\ Last(begun') = Head(begun)]_logVars
  BY EmptiesOldest
<1>4. QED
  BY <1>1, <1>2, <1>3, PTL DEF LogSpec, OldestGoes

=============================================================================
