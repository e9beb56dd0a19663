------------------------------- MODULE MemFile ------------------------------
(***************************************************************************)
(* memfile of Common/util/memfile.cpp, and its twin in C, utilc_memfile.c: *)
(* a file in a buffer that grows by memInc bytes at least, to maxSize at   *)
(* most, or in a buffer of the caller's.                                   *)
(***************************************************************************)
EXTENDS Integers, SequencesExt

CONSTANTS
  Byte, Newline,
  memInc, maxSize,
  SizeT,          \* size_t wraps at SizeT
  MaxCall, Offset  \* bounds: bytes written or read by one call, offsets of seeks

ASSUME MemAssumption ==
  /\ memInc \in Nat \ {0} /\ maxSize \in Nat /\ SizeT \in Nat \ {0}
  /\ 0 \in Byte /\ Newline # 0
  /\ MaxCall \in Nat /\ Offset \subseteq Int

VARIABLES
  selfAlloc, buffer,   \* buffer: its _bufLen bytes, <<>> = NULL
  readPos, writePos, fileSize,
  read                 \* bytes the last read, getc or gets has returned

memVars == <<selfAlloc, buffer, readPos, writePos, fileSize, read>>

Least(a, b) == IF a < b THEN a ELSE b
Greatest(a, b) == IF a > b THEN a ELSE b

MemInit ==
  /\ selfAlloc = TRUE /\ buffer = <<>> /\ read = <<>>
  /\ readPos = 0 /\ writePos = 0 /\ fileSize = 0

Space == Len(buffer) - writePos

(* Variant: the old bytes are not copied to the new buffer.                *)
ReservedEmpty(s, mallocFails) ==
  LET newSize == Least(Len(buffer) + Greatest(s - Space, memInc), maxSize)
  IN  IF Space >= s \/ ~selfAlloc \/ newSize <= Len(buffer) \/ mallocFails
        THEN buffer ELSE [i \in 1..newSize |-> 0]

(* reserve: the buffer with room for s bytes more, if there can be; in C   *)
(* malloc may fail.                                                        *)
Reserved(s, mallocFails) ==
  LET newSize == Least(Len(buffer) + Greatest(s - Space, memInc), maxSize)
  IN  IF Space >= s \/ ~selfAlloc \/ newSize <= Len(buffer) \/ mallocFails
        THEN buffer
        ELSE buffer \o [i \in 1..(newSize - Len(buffer)) |-> 0]

(* Unsigned positions: one that has gone below 0 is past the end as well.  *)
Sought(origin, pos, off) ==
  Least(CASE origin = "cur" -> (pos + off) % SizeT
          [] origin = "end" -> (fileSize - off) % SizeT
          [] origin = "set" -> off % SizeT,
        fileSize)

-----------------------------------------------------------------------------
(* The two constructors, after the destructor of the file before.          *)
Create(own, content) ==
  /\ selfAlloc' = own /\ buffer' = content
  /\ readPos' = 0 /\ writePos' = 0 /\ fileSize' = Len(content)
  /\ UNCHANGED read

Trunc(freeBuf) ==
  /\ buffer' = IF freeBuf /\ selfAlloc THEN <<>> ELSE buffer
  /\ readPos' = 0 /\ writePos' = 0 /\ fileSize' = 0
  /\ UNCHANGED <<selfAlloc, read>>

(* write, puts and putc; write(NULL) leaves the bytes that are there.      *)
Write(buf, len, mallocFails) ==
  LET room == Reserved(len, mallocFails)
      n == Least(len, Len(room) - writePos)
  IN  /\ buffer' = [i \in 1..Len(room) |->
                      IF buf # <<>> /\ i \in (writePos + 1)..(writePos + n)
                        THEN buf[i - writePos] ELSE room[i]]
      /\ writePos' = writePos + n
      /\ fileSize' = Greatest(fileSize, writePos')
      /\ UNCHANGED <<selfAlloc, readPos, read>>

ReserveOnly(len, mallocFails) ==
  /\ buffer' = Reserved(len, mallocFails)
  /\ UNCHANGED <<selfAlloc, readPos, writePos, fileSize, read>>

Rest(size) == SubSeq(buffer, readPos + 1, Least(readPos + size, fileSize))

(* read and getc                                                           *)
Read(size) ==
  /\ read' = Rest(size)
  /\ readPos' = readPos + Len(read')
  /\ UNCHANGED <<selfAlloc, buffer, writePos, fileSize>>

(* gets asks getc for a byte until it is a newline; at the end of the file *)
(* getc gives zeros, and gets goes on until it has size of them.           *)
Gets(size) ==
  LET bytes == Rest(size) \o [i \in 1..(size - Len(Rest(size))) |-> 0]
      line == SelectInSeq(bytes, LAMBDA b : b = Newline)
  IN  /\ read' = IF line = 0 THEN bytes ELSE SubSeq(bytes, 1, line)
      /\ readPos' = Least(readPos + Len(read'), fileSize)
      /\ UNCHANGED <<selfAlloc, buffer, writePos, fileSize>>

SeekG(off, origin) ==
  /\ readPos' = Sought(origin, readPos, off)
  /\ UNCHANGED <<selfAlloc, buffer, writePos, fileSize, read>>

(* The second clamp, to _bufLen, finds nothing left to do.                 *)
SeekP(off, origin) ==
  LET p == Sought(origin, writePos, off)
  IN  /\ writePos' = Least(p, Len(buffer))
      /\ fileSize' = IF p > Len(buffer) THEN Len(buffer) ELSE fileSize
      /\ UNCHANGED <<selfAlloc, buffer, readPos, read>>

MemNext ==
  \/ Create(TRUE, <<>>) \/ \E c \in BoundedSeq(Byte, maxSize) : Create(FALSE, c)
  \/ \E freeBuf \in BOOLEAN : Trunc(freeBuf)
  \/ \E len \in 1..MaxCall, fails \in BOOLEAN :
       \/ \E buf \in [1..len -> Byte] \cup {<<>>} : Write(buf, len, fails)
       \/ ReserveOnly(len, fails)
  \/ \E size \in 1..MaxCall : Read(size) \/ Gets(size)
  \/ \E off \in Offset, origin \in {"cur", "end", "set"} :
       SeekG(off, origin) \/ SeekP(off, origin)

MemSpec == MemInit /\ [][MemNext]_memVars

-----------------------------------------------------------------------------
(* The file is a byte file: a byte that was written is what a read of its  *)
(* place returns, however the buffer has grown, moved and been reused.     *)
Bytes == INSTANCE ByteFile WITH
           data <- SubSeq(buffer, 1, fileSize), wpos <- writePos,
           rpos <- readPos, got <- read, Limit <- maxSize
ImplementsByteFile == Bytes!FileSpec
=============================================================================
