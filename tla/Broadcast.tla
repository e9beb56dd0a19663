------------------------------ MODULE Broadcast ------------------------------
(***************************************************************************)
(* What a ring buffer promises, without positions, counts or memory: the   *)
(* items 1, 2, 3, ... are published in order, every reader receives each   *)
(* of them once and in order, and a reader is never more than Capacity     *)
(* items behind.                                                           *)
(***************************************************************************)
EXTENDS Integers

CONSTANTS MaxReaders, Capacity

VARIABLES
  readers, \* how many readers there are
  sent,    \* the last item published
  got      \* [1..MaxReaders -> the last item received]

vars == <<readers, sent, got>>

Init ==
  /\ readers \in 1..MaxReaders
  /\ sent = 0
  /\ got = [r \in 1..MaxReaders |-> 0]

Send(k) ==
  /\ sent' = sent + k
  /\ \A r \in 1..readers : sent' - got[r] <= Capacity
  /\ UNCHANGED <<readers, got>>

Receive(r, k) ==
  /\ got[r] + k <= sent
  /\ got' = [got EXCEPT ![r] = @ + k]
  /\ UNCHANGED <<readers, sent>>

Next ==
  \E k \in 1..Capacity :
    Send(k) \/ \E r \in 1..readers : Receive(r, k)

Spec == Init /\ [][Next]_vars
=============================================================================
