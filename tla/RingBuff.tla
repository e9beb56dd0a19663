------------------------------ MODULE RingBuff ------------------------------
(***************************************************************************)
(* The lock-free ring buffer (src/Common/utilc/ring_buff.c, ring_buff.h):  *)
(* one thread inserts, one thread reads for one or several readers.  Every *)
(* load and store of head and oldest_tail that the other thread can see is *)
(* a step of its own.                                                      *)
(*                                                                         *)
(* Positions count elements (the code counts bytes, in multiples of        *)
(* element_len).  The elements inserted are 1, 2, 3, ...; 0 is memory that *)
(* has not been written.                                                   *)
(***************************************************************************)
EXTENDS Integers

CONSTANTS
  Count,         \* the ring's places (count of create_ring_buff)
  ElementLen,    \* bytes of an element
  MaxReaders,    \* bound: readers that keep a tail of their own
  MaxCall,       \* the largest max_count of a call
  MaxItems,      \* bound: elements the run inserts
  ReloadTail,    \* the build may load oldest_tail anew for each mention of it
  ReloadHead,    \* the build may load head anew for each mention of it
  Serialized     \* the callers keep inserts out of the search for the oldest tail

ASSUME RingAssumption ==
  /\ Count \in Nat /\ Count > 1
  /\ ElementLen \in Nat \ {0}
  /\ MaxReaders \in Nat \ {0}
  /\ MaxCall \in 1..Count
  /\ MaxItems \in Nat
  /\ {ReloadTail, ReloadHead, Serialized} \subseteq BOOLEAN

VARIABLES
  readers,       \* the length of the consumer list
  mode,          \* "oldest": the reader passes no tail; "own": readers pass theirs
  destroys,      \* a destroy_element was given
  buf, head, oldest_tail,
  tail,          \* [1..MaxReaders -> a reader's own tail]
  ins,           \* program counter of the inserting thread
  pn, pt,        \* its n and the oldest_tail it has loaded
  rd,            \* program counter of the reading thread
  who,           \* the reader it works for
  want, copies,  \* max_count of its ring_consume, and whether there is a dest
  ch, cn,        \* the head it has loaded, and its n
  new,           \* the tail it moves oldest_tail to
  most,          \* the macro's ___n: the largest count of waiting elements
  sent,          \* history: the last element published
  got,           \* history: the last element a reader has read, Wrong after an error
  destroyed      \* history: the last element destroyed, Wrong after an error

ringVars == <<readers, mode, destroys, buf, head, oldest_tail>>
insVars  == <<ins, pn, pt, sent>>
rdVars   == <<tail, rd, who, want, copies, ch, cn, new, most, got, destroyed>>
vars     == <<ringVars, insVars, rdVars>>

Wrong == -1
Place == 0..Count-1

(* Variant: the end of the buffer is not wrapped.                          *)
AdvanceLate(p, n) == IF p + n <= Count THEN p + n ELSE p + n - Count

(* (p + n) % buflen for n <= buflen.                                       *)
Advance(p, n) == IF p + n < Count THEN p + n ELSE p + n - Count

(* The places from p on, n of them.                                        *)
Places(p, n) == {Advance(p, i) : i \in 0..n-1}

(* Elements from t up to h.                                                *)
Waiting(h, t) == IF h >= t THEN h - t ELSE Count - t + h

Init ==
  /\ readers \in 1..MaxReaders
  /\ mode \in (IF readers = 1 THEN {"oldest", "own"} ELSE {"own"})
  /\ destroys \in BOOLEAN
  /\ buf = [p \in Place |-> 0]
  /\ head = 0 /\ oldest_tail = 0
  /\ tail = [r \in 1..MaxReaders |-> 0]
  /\ ins = "idle" /\ pn = 0 /\ pt = 0
  /\ rd = "idle" /\ who = 1 /\ want = 0 /\ copies = FALSE
  /\ ch = 0 /\ cn = 0 /\ new = 0 /\ most = 0
  /\ sent = 0 /\ got = [r \in 1..MaxReaders |-> 0] /\ destroyed = 0

-----------------------------------------------------------------------------
(* The inserting thread.                                                   *)

InsAt(from, to) == ins = from /\ ins' = to

(* What a later mention of a shared variable yields: the value loaded      *)
(* before, or the present one.                                             *)
Again(reload, loaded, present) == IF reload THEN {loaded, present} ELSE {loaded}

(* Variant: no place is kept free to tell a full ring from an empty one.   *)
FreeSpaceAll(t, u) ==
  IF head = t THEN Count
  ELSE IF head < t THEN u - head
  ELSE Count - head + u

(* ring_get_count_free_elements, lines 54-81: oldest_tail is t when it is  *)
(* compared and u when it is subtracted.  Fewer than two bytes count as    *)
(* none.                                                                   *)
FreeSpace(t, u) ==
  IF head = t THEN Count - 1
  ELSE IF head < t THEN u - head - 1
  ELSE Count - head + u - 1
FreeElements(t, u) ==
  LET f == FreeSpace(t, u)
  IN IF f < 1 \/ f * ElementLen < 2 THEN 0 ELSE f

(* ring_insert and ring_next_linear_insert_range load oldest_tail; pn is   *)
(* max_count.                                                              *)
InsertBegins ==
  /\ InsAt("idle", "count")
  /\ pt' = oldest_tail
  /\ pn' \in 1..MaxCall
  /\ sent + pn' <= MaxItems
  /\ UNCHANGED <<ringVars, rdVars, sent>>

AtMost(m, n) == IF n < m THEN n ELSE m

(* Lines 113-118; or lines 238-254 and a caller that writes up to its pn   *)
(* elements into the range.                                                *)
InsertCounts ==
  /\ ins = "count"
  /\ \E t \in Again(ReloadTail, pt, oldest_tail) :
       \E u \in Again(ReloadTail, t, oldest_tail) :
         LET free == FreeElements(t, u)
         IN \E room \in {free, AtMost(free, Count - head)} :
              /\ pn' = AtMost(pn, room)
              /\ ins' = IF pn' = 0 THEN "idle" ELSE "copy"
  /\ UNCHANGED <<ringVars, rdVars, pt, sent>>

(* memcpy of the next k elements to the places from head on.               *)
Copied(k) ==
  [p \in Place |->
     IF p \in head..head+k-1 THEN sent + 1 + p - head ELSE buf[p]]

(* Whether an insert would disturb the search for the oldest tail.         *)
MayPublish == Serialized => rd # "search"

(* Variant: src is not moved on after the first memcpy.                    *)
InsertWrapsAgain ==
  /\ ins = "copy" /\ head + pn > Count
  /\ MayPublish
  /\ buf' = Copied(Count - head)
  /\ pn' = pn - (Count - head)
  /\ head' = 0
  /\ UNCHANGED <<rdVars, readers, mode, destroys, oldest_tail, ins, pt, sent>>

(* Lines 124-140: the first memcpy, up to the end, is published.           *)
InsertWraps ==
  /\ ins = "copy" /\ head + pn > Count
  /\ MayPublish
  /\ buf' = Copied(Count - head)
  /\ sent' = sent + Count - head
  /\ pn' = pn - (Count - head)
  /\ head' = 0
  /\ UNCHANGED <<rdVars, readers, mode, destroys, oldest_tail, ins, pt>>

(* Lines 142-145; ring_bump_head, lines 257-260.                           *)
InsertEnds ==
  /\ InsAt("copy", "idle") /\ head + pn <= Count
  /\ MayPublish
  /\ buf' = Copied(pn)
  /\ sent' = sent + pn
  /\ head' = Advance(head, pn)
  /\ pn' = 0
  /\ UNCHANGED <<rdVars, readers, mode, destroys, oldest_tail, pt>>

-----------------------------------------------------------------------------
(* The reading thread.                                                     *)

RdAt(from, to) == rd = from /\ rd' = to

(* The tail ring_consume starts from.                                      *)
TailOf(r) == IF mode = "own" THEN tail[r] ELSE oldest_tail

(* r reads n elements from place p on.                                     *)
Reads(r, p, n) ==
  got' = [got EXCEPT ![r] =
            IF \A i \in 0..n-1 : buf[Advance(p, i)] = @ + 1 + i
              THEN @ + n ELSE Wrong]

(* ring_consume(ring, NULL, dest, max_count).                              *)
Take ==
  /\ RdAt("idle", "load") /\ mode = "oldest"
  /\ want' \in 1..MaxCall
  /\ copies' = TRUE
  /\ UNCHANGED <<ringVars, insVars, tail, who, ch, cn, new, most, got, destroyed>>

(* ring_get_element, lines 203-212, and the use of what it returns; then   *)
(* ring_consume(ring, tail, NULL, 1).                                      *)
GetElement(r) ==
  /\ RdAt("idle", "load")
  /\ head # TailOf(r)
  /\ Reads(r, TailOf(r), 1)
  /\ who' = r /\ want' = 1 /\ copies' = FALSE
  /\ UNCHANGED <<ringVars, insVars, tail, ch, cn, new, most, destroyed>>

(* ring_get_count_waiting_elements, lines 83-106: the first load of head.  *)
ConsumeLoads ==
  /\ RdAt("load", "count")
  /\ ch' = head
  /\ UNCHANGED <<ringVars, insVars, tail, who, want, copies, cn, new, most, got,
                 destroyed>>

(* head is h when it is compared and g when it is subtracted.  A negative  *)
(* difference becomes a huge unsigned count, which exceeds every           *)
(* max_count.                                                              *)
WaitingElements(h, g, t) ==
  IF h = t THEN 0
  ELSE IF h > t THEN (IF g >= t THEN g - t ELSE MaxCall)
  ELSE Count - t + g

(* Lines 161-167.                                                          *)
ConsumeCounts ==
  /\ RdAt("count", "take")
  /\ \E h \in Again(ReloadHead, ch, head) : \E g \in Again(ReloadHead, h, head) :
       cn' = AtMost(want, WaitingElements(h, g, TailOf(who)))
  /\ UNCHANGED <<ringVars, insVars, tail, who, want, copies, ch, new, most, got,
                 destroyed>>

(* Lines 169-200 for a reader without a tail of its own.                   *)
ConsumeOldest ==
  /\ RdAt("take", "update") /\ mode = "oldest"
  /\ IF copies THEN Reads(who, oldest_tail, cn) ELSE UNCHANGED got
  /\ new' = Advance(oldest_tail, cn)
  /\ UNCHANGED <<ringVars, insVars, tail, who, want, copies, ch, cn, most, destroyed>>

(* Variant: the oldest tail follows the reader without a search.           *)
ConsumeOwnOnly ==
  /\ RdAt("take", "update") /\ mode = "own"
  /\ tail' = [tail EXCEPT ![who] = Advance(@, cn)]
  /\ new' = tail'[who]
  /\ UNCHANGED <<ringVars, insVars, who, want, copies, ch, cn, most, got, destroyed>>

(* Lines 169-174 for one with a tail of its own, and the macros' choice:   *)
(* ring_consume_single_tail moves oldest_tail along, lines 163-170;        *)
(* ring_consume_and_update_oldest_tail searches for the oldest tail if     *)
(* this one was it, lines 138-144.                                         *)
ConsumeOwn ==
  /\ rd = "take" /\ mode = "own"
  /\ tail' = [tail EXCEPT ![who] = Advance(@, cn)]
  /\ new' = tail'[who]
  /\ most' = 0
  /\ \/ readers = 1 /\ rd' = "update" /\ UNCHANGED who
     \/ rd' = "search" /\ oldest_tail = tail[who] /\ who' = 1
     \/ rd' = "idle" /\ oldest_tail # tail[who] /\ UNCHANGED who
  /\ UNCHANGED <<ringVars, insVars, want, copies, ch, cn, got, destroyed>>

(* One round of the macro's loop, lines 145-152.                           *)
Search ==
  /\ rd = "search"
  /\ LET m == Waiting(head, tail[who])
     IN IF m >= most THEN most' = m /\ new' = tail[who] ELSE UNCHANGED <<most, new>>
  /\ IF who < readers
       THEN who' = who + 1 /\ UNCHANGED rd
       ELSE rd' = "update" /\ UNCHANGED who
  /\ UNCHANGED <<ringVars, insVars, tail, want, copies, ch, cn, got, destroyed>>

(* destroy_element is called for the element at oldest_tail.               *)
Destroys == destroyed' = IF buf[oldest_tail] = destroyed + 1 THEN destroyed + 1 ELSE Wrong

(* ring_update_oldest_tail, lines 214-226.                                 *)
UpdateAtOnce ==
  /\ RdAt("update", "idle") /\ ~destroys
  /\ oldest_tail' = new
  /\ UNCHANGED <<insVars, readers, mode, destroys, buf, head, tail, who, want, copies,
                 ch, cn, new, most, got, destroyed>>

(* Variant: oldest_tail is moved first.                                    *)
UpdateOneMoved ==
  /\ rd = "update" /\ destroys /\ oldest_tail # new
  /\ oldest_tail' = Advance(oldest_tail, 1)
  /\ destroyed' = IF buf[oldest_tail'] = destroyed + 1 THEN destroyed + 1 ELSE Wrong
  /\ UNCHANGED <<insVars, readers, mode, destroys, buf, head, tail, rd, who, want,
                 copies, ch, cn, new, most, got>>

UpdateOne ==
  /\ rd = "update" /\ destroys /\ oldest_tail # new
  /\ Destroys
  /\ oldest_tail' = Advance(oldest_tail, 1)
  /\ UNCHANGED <<insVars, readers, mode, destroys, buf, head, tail, rd, who, want,
                 copies, ch, cn, new, most, got>>

UpdateEnds ==
  /\ RdAt("update", "idle") /\ destroys /\ oldest_tail = new
  /\ UNCHANGED <<ringVars, insVars, tail, who, want, copies, ch, cn, new, most, got,
                 destroyed>>

(* destroy_ring_buff, lines 36-52, when both threads have finished.        *)
DestroyBegins ==
  /\ ins = "idle" /\ ins' = "gone"
  /\ RdAt("idle", "destroy")
  /\ UNCHANGED <<ringVars, pn, pt, sent, tail, who, want, copies, ch, cn, new, most,
                 got, destroyed>>

DestroyOne ==
  /\ rd = "destroy" /\ destroys /\ oldest_tail # head
  /\ Destroys
  /\ oldest_tail' = Advance(oldest_tail, 1)
  /\ UNCHANGED <<insVars, readers, mode, destroys, buf, head, tail, rd, who, want,
                 copies, ch, cn, new, most, got>>

(* Variant: the loop ends one element early.                               *)
DestroyEndsEarly ==
  /\ RdAt("destroy", "gone")
  /\ destroys => Waiting(head, oldest_tail) <= 1
  /\ UNCHANGED <<ringVars, insVars, tail, who, want, copies, ch, cn, new, most, got,
                 destroyed>>

DestroyEnds ==
  /\ RdAt("destroy", "gone")
  /\ destroys => oldest_tail = head
  /\ UNCHANGED <<ringVars, insVars, tail, who, want, copies, ch, cn, new, most, got,
                 destroyed>>

-----------------------------------------------------------------------------
Inserter == InsertBegins \/ InsertCounts \/ InsertWraps \/ InsertEnds

Reading ==
  \/ Take \/ (\E r \in 1..readers : GetElement(r))
  \/ ConsumeLoads \/ ConsumeCounts \/ ConsumeOldest \/ ConsumeOwn \/ Search
  \/ UpdateAtOnce \/ UpdateOne \/ UpdateEnds

Destroy == DestroyBegins \/ DestroyOne \/ DestroyEnds

Next == Inserter \/ Reading \/ Destroy

Spec == Init /\ [][Next]_vars
=============================================================================
