-------------------------------- MODULE DList -------------------------------
(***************************************************************************)
(* doubly_linked_list.c: entries with prev and next, lists that begin at a *)
(* head, dll_add_front, dll_remove, and the loop start_foreach_dll_safe,   *)
(* which remembers the next entry before its body may remove this one.     *)
(***************************************************************************)
EXTENDS FiniteSets

CONSTANTS Entry, Header, NULL

ASSUME EntryAssumption == Entry \cap Header = {} /\ NULL \notin Entry \cup Header

VARIABLES
  next,      \* [Entry \cup Header -> Entry or NULL]
  prev,      \* [Entry -> Entry, Header or NULL]
  it, tmp,   \* the entry the loop is at, NULL outside of it, and the next one
  toVisit,   \* entries of the list when the loop began
  visited    \* entries the loop has been at

dllVars == <<next, prev, it, tmp, toVisit, visited>>
loopVars == <<it, tmp, toVisit, visited>>

DllInit ==
  /\ next = [n \in Entry \cup Header |-> NULL]
  /\ prev = [n \in Entry |-> NULL]
  /\ it = NULL /\ tmp = NULL /\ toVisit = {} /\ visited = {}

-----------------------------------------------------------------------------
(* Variant: the entry that was first does not learn of the new one.        *)
DllAddFrontOnly(d, h) ==
  /\ prev[d] = NULL
  /\ next' = [next EXCEPT ![d] = next[h], ![h] = d]
  /\ prev' = [prev EXCEPT ![d] = h]

(* Nothing happens to an entry that is in a list.                          *)
DllAddFront(d, h) ==
  /\ prev[d] = NULL
  /\ next' = [next EXCEPT ![d] = next[h], ![h] = d]
  /\ prev' = [n \in Entry |->
                IF n = d THEN h ELSE IF n = next[h] THEN d ELSE prev[n]]

DllRemove(d) ==
  /\ prev[d] # NULL
  /\ next' = [next EXCEPT ![prev[d]] = next[d], ![d] = NULL]
  /\ prev' = [n \in Entry |->
                IF n = d THEN NULL ELSE IF n = next[d] THEN prev[d] ELSE prev[n]]

(* The loop is safe if no entry is removed that it has still to come to.   *)
RemoveEntry(d) ==
  /\ DllRemove(d) /\ d \notin toVisit \ visited
  /\ UNCHANGED loopVars

AddEntry(d, h) == DllAddFront(d, h) /\ UNCHANGED loopVars

(* The entries from n on, n itself and NULL left out: those that are in    *)
(* every set that holds the next one of n and of each of its members.      *)
Closed(k, n) == \A p \in k \cup {n} : next[p] \in k \cup {NULL}
After(n) == {e \in Entry : \A k \in SUBSET Entry : Closed(k, n) => e \in k}

BeginLoop(h) ==
  /\ it = NULL /\ next[h] # NULL
  /\ it' = next[h] /\ tmp' = next[it'] /\ visited' = {it'}
  /\ toVisit' = After(h)
  /\ UNCHANGED <<next, prev>>

(* Variant: end_foreach_dll, which asks the entry it is at for the next.   *)
NextOfUnsafeLoop ==
  /\ it # NULL /\ it' = next[it] /\ UNCHANGED tmp
  /\ visited' = visited \cup ({it'} \ {NULL})
  /\ UNCHANGED <<next, prev, toVisit>>

NextOfLoop ==
  /\ it # NULL
  /\ it' = tmp
  /\ tmp' = IF tmp = NULL THEN NULL ELSE next[tmp]
  /\ visited' = visited \cup ({tmp} \ {NULL})
  /\ UNCHANGED <<next, prev, toVisit>>

DllNext ==
  \/ \E d \in Entry, h \in Header : AddEntry(d, h)
  \/ \E d \in Entry : RemoveEntry(d)
  \/ \E h \in Header : BeginLoop(h)
  \/ NextOfLoop

DllSpec == DllInit /\ [][DllNext]_dllVars

-----------------------------------------------------------------------------
(* The two chains of pointers are each other's reverse, and an entry in no *)
(* list points nowhere.                                                    *)
WellLinked ==
  /\ next \in [Entry \cup Header -> Entry \cup {NULL}]
  /\ prev \in [Entry -> Entry \cup Header \cup {NULL}]
  /\ \A n \in Entry \cup Header, d \in Entry : next[n] = d <=> prev[d] = n
  /\ \A d \in Entry : prev[d] = NULL => next[d] = NULL

(* Whatever is added, and whoever is removed by the body of the loop while *)
(* the loop is at it, a loop that has ended has been at every entry that   *)
(* was in the list when it began, and at no other.                         *)
LoopVisitsAll ==
  it = NULL => visited = toVisit
=============================================================================
