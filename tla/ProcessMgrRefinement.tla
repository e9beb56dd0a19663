------------------------ MODULE ProcessMgrRefinement ------------------------
(***************************************************************************)
(* The process manager implements Supervisor, provided that m_nNum is not  *)
(* torn and that OpenProcess opens every process that exists.              *)
(***************************************************************************)
EXTENDS ProcessMgrChildProofs

(* The mapping, by its parts.                                              *)
On      == loop # "none"
Live    == [t \in Tasks |-> Cardinality(Children(t))]
Refused == {t \in Tasks : Children(t) \cap spared # {}}

(* Only the final Kill spares anything, and Start forgets it.              *)
SparedInv == ~Ending => spared = {}

RefInv == SafeInv /\ OrphanInv /\ SparedInv

AbstractStep == [Abstract!Next]_Abstract!vars

LEMMA SparedStep ==
  ASSUME TypeInv, SparedInv, LauncherInv, [Next]_vars
  PROVE  SparedInv'
  <1>1. CASE Environment \/ UNCHANGED vars
    BY <1>1 DEF Environment, Exit, Release, Foreign, Tick, program, loopVars, histVars, vars,
       SparedInv, Ending
  <1>2. CASE Owner
    BY <1>2 DEF Owner, Start, AddTasks, AddTask, Stop, Delete, BeginStop, EndStop, others,
       loopVars, outside, world, histVars, SparedInv, Ending
  <1>3. CASE LoopThread
    <2>1. CASE FinalKill \/ FinalLock \/ FinalUnlock \/ RunEnds
      BY <2>1 DEF FinalKill, FinalLock, FinalUnlock, RunEnds, LoopAt, SparedInv, Ending
    <2>2. CASE ~(FinalKill \/ FinalLock \/ FinalUnlock \/ RunEnds)
      <3>1. ~Ending /\ spared' = spared
        BY <1>3, <2>2 DEF LoopThread, RunBegins, RunTests, UvReturns, TimerFires,
           ProtectLocks, ProtectUnlocks, ProtectReturns, EachTask, StartFirst, Revive,
           AwaitDelay, Restart, NothingToDo, Decide, Spawn, AtTask, LoopAt, outside, world,
           histVars, Ending
      <3> QED
        BY <3>1 DEF SparedInv
    <2> QED
      BY <2>1, <2>2
  <1>4. ASSUME NEW th \in Thread, Launcher(th) PROVE SparedInv'
    <2>1. UNCHANGED <<loop, spared>>
      BY <1>4 DEF Launcher, LauncherKills, LauncherKillFails, ChildCreated, CreateFails,
         StartNoted, DecLoads, DecStores, others, loopVars, histVars
    <2> QED
      BY <2>1 DEF SparedInv, Ending
  <1> QED
    BY <1>1, <1>2, <1>3, <1>4 DEF Next

(* A task has at most one child, the one it has on record.                 *)
LEMMA OneChild ==
  ASSUME ChildInv, NEW t \in Tasks
  PROVE  /\ Children(t) = {} => Cardinality(Children(t)) = 0
         /\ \A p \in Children(t) : /\ Children(t) = {p} /\ p = pid[t]
                                   /\ Cardinality(Children(t)) = 1
         /\ Cardinality(Children(t)) \in {0, 1}
         /\ Cardinality(Children(t)) > 0 => Children(t) # {}
  <1>1. \A p \in Children(t) : p = pid[t]
    BY TaskAssumption DEF ChildInv, NoLostChild, Children, Tasks
  <1>2. CASE Children(t) = {}
    BY <1>2, FS_EmptySet
  <1>3. ASSUME NEW p \in Children(t) PROVE Children(t) = {p} /\ Cardinality(Children(t)) = 1
    <2>1. Children(t) = {p}
      BY <1>1
    <2> QED
      BY <2>1, FS_Singleton
  <1> QED
    BY <1>1, <1>2, <1>3

LEMMA ChildrenAre ==
  \A t \in Tasks, p \in Pid : p \in Children(t) <=> IsChild(p) /\ owner[p] = t
  BY TaskAssumption DEF Children, IsChild, Tasks

(* A step that leaves the children, the spared and the loop thread's       *)
(* existence alone is a stutter of the abstract specification.             *)
LEMMA MapsToStutter ==
  ASSUME \A t \in Tasks : Children(t)' = Children(t),
         Refused' = Refused,
         On' = On
  PROVE  UNCHANGED Abstract!vars
  <1>1. Live' = Live
    BY DEF Live
  <1> QED
    BY <1>1 DEF Abstract!vars, Live, Refused, On

(* A process that falls is End of its task, or nothing: if it is no child, *)
(* and if it has been told to end before.                                  *)
LEMMA MapsToEnd ==
  ASSUME TypeInv, ChildInv, NEW q \in Pid, NEW state, state # "run", proc[q] # "free",
         Falls(q, state), UNCHANGED <<spared, loop>>
  PROVE  AbstractStep
  <1>1. proc' = [proc EXCEPT ![q] = state] /\ owner' = owner
    BY DEF Falls
  <1>2. ASSUME NEW t \in Tasks PROVE Children(t)' = Children(t) \ {q}
    BY <1>1 DEF Children, TypeInv, TypeOK
  <1>3. CASE owner[q] = 0 \/ proc[q] # "run"
    <2>1. \A t \in Tasks : Children(t)' = Children(t)
      BY <1>2, <1>3, TaskAssumption DEF Children, Tasks
    <2>2. Refused' = Refused
      BY <2>1 DEF Refused
    <2> QED
      BY <2>1, <2>2, MapsToStutter DEF On, AbstractStep
  <1>4. CASE owner[q] # 0 /\ proc[q] = "run"
    <2>1. PICK s \in Tasks : s = owner[q]
      BY <1>4, TaskAssumption DEF TypeInv, TypeOK, Tasks
    <2>2. q \in Children(s) /\ \A t \in Tasks : t # s => q \notin Children(t)
      BY <1>4, <2>1 DEF Children
    <2>3. Children(s) = {q} /\ Cardinality(Children(s)) = 1
      BY <2>1, <2>2, OneChild
    <2>4. Children(s)' = {} /\ \A t \in Tasks : t # s => Children(t)' = Children(t)
      BY <1>2, <2>1, <2>2, <2>3
    <2>5. Live' = [Live EXCEPT ![s] = @ - 1] /\ Live[s] > 0
      <3>1. Cardinality(Children(s)') = 0 /\ Cardinality(Children(s)) - 1 = 0
        BY <2>3, <2>4, FS_EmptySet
      <3> QED
        BY <2>1, <2>3, <2>4, <3>1 DEF Live
    <2>6. Refused' = Refused \ {s}
      BY <2>1, <2>4 DEF Refused
    <2>7. Abstract!End(s)
      BY <2>5, <2>6 DEF Abstract!End, Live, Refused
    <2> QED
      BY <2>1, <2>7 DEF Abstract!Next, AbstractStep
  <1> QED
    BY <1>3, <1>4

LEMMA MapsToKill ==
  ASSUME TypeInv, ChildInv, NEW q, KillReturns(q), UNCHANGED <<spared, loop>>
  PROVE  AbstractStep
  <1>1. CASE UNCHANGED procVars
    <2>1. \A t \in Tasks : Children(t)' = Children(t)
      BY <1>1 DEF Children, procVars
    <2> QED
      BY <2>1, MapsToStutter DEF On, Refused, AbstractStep
  <1>2. CASE q \in Pid /\ proc[q] \in {"run", "ending"} /\ Falls(q, "ending")
    BY <1>2, MapsToEnd
  <1> QED
    BY <1>1, <1>2 DEF KillReturns

(* Steps that touch no process.                                            *)
LEMMA MapsQuiet ==
  ASSUME UNCHANGED <<procVars, spared>>, On' = On
  PROVE  AbstractStep
  <1>1. \A t \in Tasks : Children(t)' = Children(t)
    BY DEF Children, procVars
  <1> QED
    BY <1>1, MapsToStutter DEF Refused, AbstractStep

LEMMA MapsEnvironment ==
  ASSUME RefInv, Environment
  PROVE  AbstractStep
  <1> USE DEF RefInv, SafeInv, CounterInv
  <1>1. ASSUME NEW p \in Pid, Exit(p) PROVE AbstractStep
    BY <1>1, MapsToEnd DEF Exit, program, loopVars
  <1>2. ASSUME NEW p \in Pid, Release(p) \/ Foreign(p) PROVE AbstractStep
    <2>1. \A t \in Tasks : Children(t)' = Children(t)
      <3>1. \A q \in Pid : q # p => proc'[q] = proc[q] /\ owner'[q] = owner[q]
        BY <1>2 DEF Release, Foreign, TypeInv, TypeOK
      <3>2. proc[p] # "run" /\ (proc'[p] # "run" \/ owner'[p] = 0)
        BY <1>2 DEF Release, Foreign, ChildInv, TypeInv, TypeOK
      <3> QED
        BY <3>1, <3>2, TaskAssumption, SMTT(30) DEF Children, Tasks
    <2>2. UNCHANGED <<loop, spared>>
      BY <1>2 DEF Release, Foreign, program, loopVars, histVars
    <2> QED
      BY <2>1, <2>2, MapsToStutter DEF On, Refused, AbstractStep
  <1>3. CASE Tick
    BY <1>3, MapsQuiet DEF Tick, loopVars, On
  <1> QED
    BY <1>1, <1>2, <1>3 DEF Environment

LEMMA MapsOwner ==
  ASSUME RefInv, Owner
  PROVE  AbstractStep
  <1>1. CASE Start
    <2>1. \A t \in Tasks : Children(t)' = Children(t)
      BY <1>1 DEF Start, Children, procVars
    <2>2. Live' = Live /\ Refused' = {} /\ ~On /\ On'
      BY <1>1, <2>1 DEF Live, Refused, On, Start
    <2>3. Abstract!TurnOn
      BY <2>2 DEF Abstract!TurnOn, Live, Refused, On
    <2> QED
      BY <2>3 DEF Abstract!Next, AbstractStep
  <1>2. CASE AddTasks \/ AddTask \/ Stop \/ Delete \/ EndStop
    BY <1>2, MapsQuiet DEF AddTasks, AddTask, Stop, Delete, BeginStop, EndStop, others,
       loopVars, outside, world, histVars, On
  <1> QED
    BY <1>1, <1>2 DEF Owner

LEMMA MapsFinalKill ==
  ASSUME RefInv, FinalKill
  PROVE  AbstractStep
  <1> USE DEF RefInv, SafeInv, CounterInv
  <1>1. loop = "kill" /\ loop' = "kill"
    BY DEF FinalKill
  <1>2. CASE UNCHANGED <<procVars, spared>>
    BY <1>1, <1>2, MapsQuiet DEF On
  <1>3. CASE KillReturns(pid[idx]) /\ UNCHANGED spared
    BY <1>1, <1>3, MapsToKill
  <1>4. ASSUME NEW q \in Pid, UNCHANGED procVars, spared' = spared \cup {q}
        PROVE  AbstractStep
    <2>1. \A t \in Tasks : Children(t)' = Children(t)
      BY <1>4 DEF Children, procVars
    <2>2. CASE ~IsChild(q)
      <3>1. \A t \in Tasks : q \notin Children(t)
        BY <2>2, ChildrenAre
      <3>2. Refused' = Refused
        BY <1>4, <2>1, <3>1 DEF Refused
      <3> QED
        BY <1>1, <2>1, <3>2, MapsToStutter DEF On, AbstractStep
    <2>3. CASE IsChild(q)
      <3> DEFINE s == owner[q]
      <3>1. s \in Tasks
        BY <2>3, TaskAssumption DEF IsChild, TypeInv, TypeOK, Tasks
      <3>2. q \in Children(s) /\ \A t \in Tasks : t # s => q \notin Children(t)
        BY <2>3, <3>1, ChildrenAre
      <3>3. Refused' = Refused \cup {s}
        BY <1>4, <2>1, <3>1, <3>2 DEF Refused
      <3>4. Live' = Live /\ Live[s] > 0
        BY <2>1, <3>1, <3>2, OneChild DEF Live
      <3>5. Abstract!Refuse(s)
        BY <1>1, <3>3, <3>4 DEF Abstract!Refuse, Live, Refused
      <3> QED
        BY <3>1, <3>5 DEF Abstract!Next, AbstractStep
    <2> QED
      BY <2>2, <2>3
  <1> QED
    BY <1>2, <1>3, <1>4 DEF FinalKill, KillFails, procVars, histVars

LEMMA MapsLoop ==
  ASSUME RefInv, LoopThread
  PROVE  AbstractStep
  <1>1. CASE \/ RunBegins \/ RunTests \/ UvReturns \/ TimerFires \/ ProtectLocks
             \/ ProtectUnlocks \/ ProtectReturns \/ FinalLock \/ FinalUnlock \/ Spawn
    BY <1>1, MapsQuiet DEF RunBegins, RunTests, UvReturns, TimerFires, ProtectLocks,
       ProtectUnlocks, ProtectReturns, FinalLock, FinalUnlock, Spawn, LoopAt, outside, world,
       histVars, On
  <1>2. ASSUME NEW t \in Tasks, EachTask(t) PROVE AbstractStep
    BY <1>2, MapsQuiet DEF EachTask, StartFirst, Revive, AwaitDelay, Restart, NothingToDo,
       Decide, AtTask, outside, world, histVars, On
  <1>3. CASE RunEnds
    <2>1. /\ UNCHANGED <<procVars, spared>> /\ loop = "exit" /\ loop' = "none"
      BY <1>3 DEF RunEnds, LoopAt, outside, world, histVars
    <2>2. \A t \in Tasks : Children(t)' = Children(t)
      BY <2>1 DEF Children, procVars
    <2>3. Live' = Live /\ Refused' = Refused
      BY <2>1, <2>2 DEF Live, Refused
    <2>4. ASSUME NEW t \in Tasks, Live[t] > 0 PROVE t \in Refused
      <3>1. PICK p : p \in Children(t)
        BY <2>4, OneChild DEF Live, RefInv, SafeInv
      <3>2. p \in spared
        BY <2>1, <3>1, TaskAssumption DEF RefInv, OrphanInv, NoOrphans, Children, Tasks
      <3> QED
        BY <3>1, <3>2 DEF Refused
    <2>5. Abstract!TurnOff
      BY <2>1, <2>3, <2>4 DEF Abstract!TurnOff, Live, Refused
    <2> QED
      BY <2>5 DEF Abstract!Next, AbstractStep
  <1> QED
    BY <1>1, <1>2, <1>3, MapsFinalKill DEF LoopThread

LEMMA MapsChildCreated ==
  ASSUME RefInv, NEW th \in Thread, ChildCreated(th)
  PROVE  AbstractStep
  <1> USE DEF RefInv, SafeInv, CounterInv
  <1> DEFINE t == th[1]
  <1>1. t \in Tasks /\ Children(t) = {}
    BY ThreadTask DEF ChildCreated, ThreadAt, ChildInv
  <1>2. PICK p \in Pid : /\ proc[p] = "free"
                         /\ proc' = [proc EXCEPT ![p] = "run"]
                         /\ owner' = [owner EXCEPT ![p] = t]
    BY DEF ChildCreated, CanGet
  <1>3. loop' = loop /\ spared' = spared /\ th \in Busy
    BY DEF ChildCreated, ThreadAt, others, loopVars, Busy
  <1>4. ~Ending /\ spared = {}
    BY <1>3 DEF LauncherInv, CounterExact, SparedInv, Ending
  <1>5. \A q \in Pid : q # p => proc'[q] = proc[q] /\ owner'[q] = owner[q]
    BY <1>2 DEF TypeInv, TypeOK
  <1>6. ASSUME NEW s \in Tasks, s # t PROVE Children(s)' = Children(s)
    <2>1. p \notin Children(s) /\ p \notin Children(s)'
      BY <1>2, <1>6 DEF Children, TypeInv, TypeOK
    <2> QED
      BY <1>5, <2>1 DEF Children
  <1>7. Children(t)' = {p}
    <2>1. \A q \in Pid : q # p => q \notin Children(t)'
      BY <1>1, <1>5 DEF Children
    <2>2. p \in Children(t)'
      BY <1>2 DEF Children, TypeInv, TypeOK
    <2> QED
      BY <2>1, <2>2 DEF Children
  <1>8. Live' = [Live EXCEPT ![t] = 1] /\ Live[t] = 0
    <2>1. Cardinality(Children(t)') = 1 /\ Cardinality(Children(t)) = 0
      BY <1>1, <1>7, FS_Singleton, FS_EmptySet
    <2> QED
      BY <1>1, <1>6, <2>1 DEF Live
  <1>9. Refused' = Refused
    BY <1>3, <1>4 DEF Refused
  <1>10. Abstract!Launch(t)
    BY <1>3, <1>4, <1>8, <1>9 DEF Abstract!Launch, Live, Refused, Ending
  <1> QED
    BY <1>1, <1>10 DEF Abstract!Next, AbstractStep

LEMMA MapsLauncher ==
  ASSUME RefInv, NEW th \in Thread, Launcher(th)
  PROVE  AbstractStep
  <1> USE DEF RefInv, SafeInv, CounterInv
  <1>1. CASE LauncherKills(th)
    BY <1>1, MapsToKill DEF LauncherKills, others, loopVars
  <1>2. CASE \/ LauncherKillFails(th) \/ CreateFails(th) \/ StartNoted(th)
             \/ DecLoads(th) \/ DecStores(th)
    BY <1>2, MapsQuiet DEF LauncherKillFails, KillFails, CreateFails, StartNoted, DecLoads,
       DecStores, others, loopVars, histVars, On
  <1> QED
    BY <1>1, <1>2, MapsChildCreated DEF Launcher

(* Every behaviour of the process manager is one of Supervisor: it starts  *)
(* a task's program only while it is on and every instance has ended or    *)
(* been told to, and it goes off only when all have that did not withstand *)
(* being killed.                                                           *)
THEOREM Implements == SafeBuild => (Spec => ImplementsSupervisor)
  <1> SUFFICES ASSUME SafeBuild PROVE Spec => ImplementsSupervisor
    OBVIOUS
  <1>1. Init => Abstract!Init
    <2> SUFFICES ASSUME Init PROVE Abstract!Init
      OBVIOUS
    <2>1. \A t \in Tasks : Children(t) = {}
      BY DEF Init, Children
    <2>2. Live = [t \in Tasks |-> 0] /\ Refused = {}
      BY <2>1, FS_EmptySet DEF Live, Refused
    <2> QED
      BY <2>2 DEF Abstract!Init, Init, Live, Refused
  <1>2. Init => SparedInv
    BY DEF Init, SparedInv
  <1>3. SafeInv /\ SparedInv /\ [Next]_vars => SparedInv'
    BY SparedStep DEF SafeInv, CounterInv
  <1>4. Spec => []RefInv
    BY <1>2, <1>3, OrphanInductive, PTL DEF Spec, RefInv
  <1>5. RefInv /\ [Next]_vars => [Abstract!Next]_Abstract!vars
    <2>1. UNCHANGED vars => AbstractStep
      BY MapsQuiet DEF vars, loopVars, histVars, On
    <2> QED
      BY <2>1, MapsEnvironment, MapsOwner, MapsLoop, MapsLauncher DEF Next, AbstractStep
  <1> QED
    BY <1>1, <1>4, <1>5, PTL DEF Spec, ImplementsSupervisor, Abstract!Spec
=============================================================================
