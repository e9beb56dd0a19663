----------------------------- MODULE Singleton ------------------------------
(***************************************************************************)
(* Singleton of Common/util/Singleton.h: GetInstance creates the instance  *)
(* at the first call, and returns m_pInstance as it is after m_cs has been *)
(* given back.                                                             *)
(***************************************************************************)
EXTENDS Naturals

CONSTANTS
  Caller, Instance,   \* Instance: addresses an instance may get
  ReleasesLate        \* ReleaseInstance may be called while others use the class

VARIABLES
  m_pInstance,   \* {} = nullptr
  instances,     \* instances that exist
  csOwner,       \* who has m_cs
  caller,        \* [Caller -> "idle" | "create" | "leave" | "return" | "use"]
  got            \* [Caller -> what GetInstance has returned to it]

singletonVars == <<m_pInstance, instances, csOwner, caller, got>>

SingletonInit ==
  /\ m_pInstance = {} /\ instances = {} /\ csOwner = {}
  /\ caller = [c \in Caller |-> "idle"] /\ got = [c \in Caller |-> {}]

Goes(c, from, to) == caller[c] = from /\ caller' = [caller EXCEPT ![c] = to]

(* Variant: m_pInstance is tested without m_cs.                            *)
LocksNothing(c) == UNCHANGED csOwner

LocksCs(c) == csOwner = {} /\ csOwner' = {c}

-----------------------------------------------------------------------------
GetEnters(c) ==
  /\ LocksCs(c)
  /\ Goes(c, "idle", IF m_pInstance = {} THEN "create" ELSE "leave")
  /\ UNCHANGED <<m_pInstance, instances, got>>

GetCreates(c) ==
  /\ Goes(c, "create", "leave")
  /\ \E i \in Instance \ instances :
       m_pInstance' = {i} /\ instances' = instances \cup {i}
  /\ UNCHANGED <<csOwner, got>>

GetLeaves(c) ==
  /\ Goes(c, "leave", "return") /\ csOwner' = {}
  /\ UNCHANGED <<m_pInstance, instances, got>>

GetReturns(c) ==
  /\ Goes(c, "return", "use")
  /\ got' = [got EXCEPT ![c] = m_pInstance]
  /\ UNCHANGED <<m_pInstance, instances, csOwner>>

UsesNoMore(c) ==
  /\ Goes(c, "use", "idle") /\ got' = [got EXCEPT ![c] = {}]
  /\ UNCHANGED <<m_pInstance, instances, csOwner>>

(* ReleaseInstance, all of it under m_cs.                                  *)
ReleaseInstance(c) ==
  /\ caller[c] = "idle" /\ csOwner = {}
  /\ ReleasesLate \/ \A d \in Caller : caller[d] = "idle"
  /\ instances' = instances \ m_pInstance /\ m_pInstance' = {}
  /\ UNCHANGED <<csOwner, caller, got>>

SingletonNext ==
  \E c \in Caller :
    \/ GetEnters(c) \/ GetCreates(c) \/ GetLeaves(c) \/ GetReturns(c)
    \/ UsesNoMore(c) \/ ReleaseInstance(c)

SingletonSpec == SingletonInit /\ [][SingletonNext]_singletonVars

-----------------------------------------------------------------------------
(* Whatever the order of the calls, the callers that use an instance use   *)
(* one that exists, and there is no second one.                            *)
OneInstance ==
  /\ \A i, j \in instances : i = j
  /\ \A c \in Caller : caller[c] = "use" => got[c] = instances /\ got[c] # {}
=============================================================================
