---------------------------- MODULE RingBuffProps ----------------------------
(***************************************************************************)
(* What makes the ring buffer correct.                                     *)
(***************************************************************************)
EXTENDS RingBuff

(* The type of every variable.                                             *)
RingTypeOK ==
  /\ mode \in {"oldest", "own"} /\ destroys \in BOOLEAN
  /\ buf \in [Place -> 0..MaxItems]
  /\ head \in Place /\ oldest_tail \in Place
  /\ tail \in [1..MaxReaders -> Place]
  /\ ins \in {"idle", "count", "copy", "gone"}
  /\ pn \in 0..MaxCall /\ pt \in Place
  /\ rd \in {"idle", "load", "count", "take", "search", "update", "destroy", "gone"}
  /\ who \in 1..readers /\ readers \in 1..MaxReaders /\ want \in 0..MaxCall /\ copies \in BOOLEAN
  /\ ch \in Place /\ cn \in 0..MaxCall /\ new \in Place /\ most \in 0..Count-1
  /\ sent \in 0..MaxItems
  /\ got \in [1..MaxReaders -> 0..MaxItems \cup {Wrong}]
  /\ destroyed \in 0..MaxItems \cup {Wrong}

(* destroy_ring_buff has not been called.                                  *)
Alive == rd \notin {"destroy", "gone"}

(* The two threads never use the same place at the same time, although     *)
(* nothing but head and oldest_tail keeps them apart: the places an insert *)
(* is about to fill are not ones that hold an element some reader still    *)
(* has to read or to destroy.                                              *)
Filling == IF ins = "copy" THEN Places(head, pn) ELSE {}
InUse ==
  Places(oldest_tail, Waiting(head, oldest_tail))
    \cup UNION {Places(TailOf(r), Waiting(head, TailOf(r))) : r \in 1..readers}
Disjoint == Filling \cap InUse = {}

(* A reader that is about to copy elements out finds the next ones there,  *)
(* in order and none twice; destroy_element gets every element once, after *)
(* all readers have read it.                                               *)
InOrder == \A r \in 1..readers : got[r] # Wrong
DestroyedInOrder ==
  /\ destroyed # Wrong
  /\ Alive => \A r \in 1..readers : destroyed <= got[r]

(* When the ring is gone, so is every element that was inserted.           *)
AllDestroyed == rd = "gone" /\ destroys => destroyed = sent

(* No reader's tail is older than the ring's oldest tail.                  *)
OldestIsOldest ==
  Alive => \A r \in 1..readers : Waiting(head, TailOf(r)) <= Waiting(head, oldest_tail)

-----------------------------------------------------------------------------
(* The strengthening that makes the invariants inductive (of a build that  *)
(* loads head once, where inserts keep out of the search for the oldest    *)
(* tail).  Behind(p) is how far place p is behind head.                    *)

Behind(p) == Waiting(head, p)

(* The places between oldest_tail and head hold the last elements          *)
(* published.                                                              *)
Content ==
  /\ Behind(oldest_tail) <= sent
  /\ \A p \in Place :
       Behind(p) \in 1..Behind(oldest_tail) => buf[p] = sent + 1 - Behind(p)

(* The oldest_tail an insert has loaded may be out of date, but then it    *)
(* counts too few free places.                                             *)
InsertInv ==
  /\ ins = "count" => Behind(oldest_tail) <= Behind(pt)
  /\ ins = "copy" => pn + Behind(oldest_tail) < Count
  /\ ins \in {"count", "copy"} => sent + pn <= MaxItems

(* The head a reader has loaded may be out of date, but then it counts too *)
(* few elements.                                                           *)
ConsumeInv ==
  LET t == TailOf(who)
  IN /\ rd \in {"load", "count", "take"} /\ ~copies => Behind(t) > 0 /\ want = 1
     /\ rd = "count" => Behind(ch) <= Behind(t) /\ (~copies => ch # t)
     /\ rd = "take" => cn <= Behind(t) /\ (~copies => cn = 1)
     /\ copies /\ rd \in {"load", "count", "take"} => mode = "oldest"

(* What the search has found so far, and where oldest_tail is moved to.    *)
UpdateInv ==
  /\ rd \in {"search", "update"} => Behind(new) <= Behind(oldest_tail)
  /\ rd = "search" =>
       /\ mode = "own" /\ most = IF who = 1 THEN 0 ELSE Behind(new)
       /\ \A r \in 1..who-1 : Behind(tail[r]) <= most
  /\ rd = "update" =>
       \A r \in 1..readers : mode = "own" => Behind(tail[r]) <= Behind(new)

(* Every element published is behind head, read or about to be read.       *)
Peeked(r) == r = who /\ ~copies /\ rd \in {"load", "count", "take"}
HistoryInv ==
  /\ Alive => \A r \in 1..readers :
       got[r] = IF mode = "oldest" /\ rd = "update" THEN sent - Behind(new)
                ELSE sent - Behind(TailOf(r)) + (IF Peeked(r) THEN 1 ELSE 0)
  /\ destroyed = IF destroys THEN sent - Behind(oldest_tail) ELSE 0

(* The ring's use and its end.                                             *)
PhaseInv ==
  /\ mode = "oldest" => readers = 1
  /\ ~Alive <=> ins = "gone"
  /\ rd = "gone" /\ destroys => oldest_tail = head

RingInv ==
  /\ RingTypeOK /\ PhaseInv /\ Content /\ InsertInv /\ ConsumeInv /\ UpdateInv
  /\ HistoryInv /\ OldestIsOldest /\ InOrder

-----------------------------------------------------------------------------
(* RingBuff implements Broadcast.                                          *)
Abstract == INSTANCE Broadcast WITH Capacity <- Count - 1

ImplementsBroadcast == Abstract!Spec
=============================================================================
