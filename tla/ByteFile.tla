------------------------------ MODULE ByteFile ------------------------------
(***************************************************************************)
(* What a memory file promises: a file of at most Limit bytes with a       *)
(* position for writing and another for reading, neither past the end.     *)
(***************************************************************************)
EXTENDS Integers, SequencesExt

CONSTANTS Byte, Newline, Limit,
  MaxCall, Offset   \* bounds: bytes asked for by one call, offsets of seeks

VARIABLES data, wpos, rpos, got   \* got: what the last call has read

fileVars == <<data, wpos, rpos, got>>

(* Bytes from position p on, for n bytes at most.                          *)
From(s, p, n) == SubSeq(s, p + 1, IF p + n < Len(s) THEN p + n ELSE Len(s))

(* s with the bytes b at position p, longer if they reach past its end.    *)
Over(s, p, b) == SubSeq(s, 1, p) \o b \o From(s, p + Len(b), Len(s))

Put(b) ==
  /\ wpos + Len(b) <= Limit
  /\ data' = Over(data, wpos, b) /\ wpos' = wpos + Len(b)
  /\ UNCHANGED <<rpos, got>>

(* A seek to a place outside the file goes to its end.                     *)
Target(origin, pos, off) ==
  LET t == CASE origin = "cur" -> pos + off
             [] origin = "end" -> Len(data) - off
             [] origin = "set" -> off
  IN  IF t \in 0..Len(data) THEN t ELSE Len(data)

SeekTo ==
  \E off \in Offset, origin \in {"cur", "end", "set"} :
    /\ \/ rpos' = Target(origin, rpos, off) /\ UNCHANGED wpos
       \/ wpos' = Target(origin, wpos, off) /\ UNCHANGED rpos
    /\ UNCHANGED <<data, got>>

Get(n) ==
  /\ got' = From(data, rpos, n) /\ rpos' = rpos + Len(got')
  /\ UNCHANGED <<data, wpos>>

(* A line ends with its newline; one cut off by the end of the file is     *)
(* filled with zeros.                                                      *)
GetLine(n) ==
  LET rest == From(data, rpos, n)
      line == SelectInSeq(rest, LAMBDA b : b = Newline)
  IN  /\ got' = IF line > 0 THEN SubSeq(rest, 1, line)
                ELSE rest \o [i \in 1..(n - Len(rest)) |-> 0]
      /\ rpos' = rpos + (IF line > 0 THEN line ELSE Len(rest))
      /\ UNCHANGED <<data, wpos>>

Empty == data' = <<>> /\ wpos' = 0 /\ rpos' = 0 /\ UNCHANGED got

Given == data' \in BoundedSeq(Byte, Limit) /\ wpos' = 0 /\ rpos' = 0 /\ UNCHANGED got

FileInit == data = <<>> /\ wpos = 0 /\ rpos = 0 /\ got = <<>>

FileNext ==
  \/ \E b \in BoundedSeq(Byte, Limit) : Put(b)
  \/ SeekTo
  \/ \E n \in 1..MaxCall : Get(n) \/ GetLine(n)
  \/ Empty \/ Given

FileSpec == FileInit /\ [][FileNext]_fileVars
=============================================================================
