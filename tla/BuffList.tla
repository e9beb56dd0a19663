------------------------------ MODULE BuffList ------------------------------
(***************************************************************************)
(* buflist.c: bytes that wait in a list of segments, appended at the tail  *)
(* and used up from the head.  Bytes are numbered as they are appended.    *)
(***************************************************************************)
EXTENDS Integers, SequencesExt

CONSTANTS Sanity,     \* 1024 in the code: a list this long is taken for corrupt
          MaxSegment,     \* bound: bytes of a segment
          MaxAppended    \* bound: bytes appended before the numbers start again

ASSUME BuffListAssumption == {Sanity, MaxSegment, MaxAppended} \subseteq Nat

VARIABLES
  segments,   \* <<[len, pos, buf], ...>>: the list from *head on
  appended,   \* bytes appended since the list was last destroyed
  taken,      \* those of them that have been used
  result      \* what the last call has returned

bufListVars == <<segments, appended, taken, result>>

BufListInit == segments = <<>> /\ appended = 0 /\ taken = 0 /\ result = 0

Left(s) == s.len - s.pos

-----------------------------------------------------------------------------
(* The walk to the tail counts the segments down from Sanity.              *)
AppendSegment(len, mallocFails) ==
  /\ appended + len <= MaxAppended
  /\ IF Len(segments) >= Sanity \/ mallocFails
       THEN result' = -1 /\ UNCHANGED <<segments, appended>>
       ELSE /\ segments' = Append(segments,
                 [len |-> len, pos |-> 0,
                  buf |-> [i \in 1..len |-> appended + i]])
            /\ appended' = appended + len
            /\ result' = IF segments = <<>> THEN 1 ELSE 0
  /\ UNCHANGED taken

(* Variant: the segment that is used up stays.                             *)
UseSegmentKeeps(len) ==
  /\ segments # <<>> /\ len \in 1..Left(Head(segments))
  /\ segments' = <<[Head(segments) EXCEPT !.pos = @ + len]>> \o Tail(segments)
  /\ result' = Left(Head(segments'))
  /\ taken' = taken + len /\ UNCHANGED appended

(* The caller's assertions: a segment, and no more than it has left.       *)
UseSegment(len) ==
  /\ segments # <<>> /\ len \in 1..Left(Head(segments))
  /\ LET used == [Head(segments) EXCEPT !.pos = @ + len]
     IN  segments' = IF Left(used) = 0 THEN Tail(segments)
                     ELSE <<used>> \o Tail(segments)
  /\ result' = IF segments' = <<>> THEN 0 ELSE Left(Head(segments'))
  /\ taken' = taken + len /\ UNCHANGED appended

(* Returns where the bytes of the first segment begin, and their number.   *)
NextSegmentLen ==
  /\ result' = IF segments = <<>> THEN 0 ELSE Left(Head(segments))
  /\ UNCHANGED <<segments, appended, taken>>

DestroyAll ==
  /\ segments' = <<>> /\ appended' = 0 /\ taken' = 0 /\ UNCHANGED result

BufListNext ==
  \/ \E len \in 1..MaxSegment :
       (\E fails \in BOOLEAN : AppendSegment(len, fails)) \/ UseSegment(len)
  \/ NextSegmentLen \/ DestroyAll

BufListSpec == BufListInit /\ [][BufListNext]_bufListVars

-----------------------------------------------------------------------------
(* The byte that is used next, and the last one of a segment.              *)
First(s) == s.buf[s.pos + 1]
Final(s) == s.buf[s.len]

(* The bytes that wait are those appended and not yet used, all of them,   *)
(* in order; and no segment without bytes stays in the list, so that a     *)
(* length of 0 means what the header says it means, that nothing waits.    *)
BytesInOrder ==
  /\ \A i \in DOMAIN segments : LET s == segments[i] IN
       /\ Left(s) > 0
       /\ \A j \in (s.pos + 1)..(s.len - 1) : s.buf[j + 1] = s.buf[j] + 1
       /\ i < Len(segments) => First(segments[i + 1]) = Final(s) + 1
  /\ IF segments = <<>> THEN taken = appended
     ELSE First(Head(segments)) = taken + 1 /\ Final(Last(segments)) = appended
=============================================================================
