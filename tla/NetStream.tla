------------------------------ MODULE NetStream -----------------------------
(***************************************************************************)
(* CNetStreamMaker of Common/util/NetStreamMaker.cpp, its twin in C and    *)
(* the parser of utilc/netstream.c: numbers of several bytes are written   *)
(* byte by byte, highest first, and read bit by bit.                       *)
(***************************************************************************)
EXTENDS Integers, SequencesExt

CONSTANTS
  ByteBits,    \* 8 in the code
  FirstSize,   \* 16 in the code
  Widths,      \* bytes of the numbers written: be16, be24, be32, be64
  MaxBytes     \* bound: bytes of a stream

ASSUME StreamAssumption ==
  /\ ByteBits \in Nat \ {0} /\ FirstSize \in Nat \ {0}
  /\ Widths \subseteq Nat \ {0} /\ MaxBytes \in Nat

VARIABLES
  data, nMax,   \* data: the nCurrent bytes written; nMax bytes are allocated
  todo,         \* blocks of bytes that the append call has still to write
  written,      \* the bits of all that was to be written
  lost,         \* a realloc has failed, which the appends do not report
  nCurrent,     \* bits read by the parser
  dwRet         \* bits of the last number read

streamVars == <<data, nMax, todo, written, lost, nCurrent, dwRet>>

StreamInit ==
  /\ data = <<>> /\ nMax = 0 /\ todo = <<>> /\ written = <<>> /\ lost = FALSE
  /\ nCurrent = 0 /\ dwRet = <<>>

(* A number of n bits is the sequence of its bits, the highest first.      *)
Bits(n) == [1..n -> {0, 1}]
ByteValue == Bits(ByteBits)

AllBits(bytes) ==
  [n \in 1..(ByteBits * Len(bytes)) |->
     bytes[((n - 1) \div ByteBits) + 1][((n - 1) % ByteBits) + 1]]

Over(s, p, new) == [i \in DOMAIN s |-> IF i - p \in DOMAIN new THEN new[i - p] ELSE s[i]]

(* val >> k, and what is left of a number that is cut to a byte.           *)
ShiftRight(val, k) == [i \in 1..Len(val) |-> IF i > k THEN val[i - k] ELSE 0]
LowByte(val) == [i \in 1..ByteBits |-> val[Len(val) - ByteBits + i]]

Shifted(val, i) == LowByte(ShiftRight(val, ByteBits * i))
(* Variant: lowest byte first.                                             *)
LittleEndian(val, width) == [i \in 1..width |-> Shifted(val, i - 1)]

BigEndian(val, width) == [i \in 1..width |-> Shifted(val, width - i)]

(* Doubled from the first size on.                                         *)
Doubled[k \in Nat] == IF k = 0 THEN FirstSize ELSE 2 * Doubled[k - 1]

RoomFor(ns) == CHOOSE dn \in {Doubled[k] : k \in 0..ns} :
                 ns <= dn /\ (dn = FirstSize \/ ns > dn \div 2)

-----------------------------------------------------------------------------
Appends(blocks, bits) ==
  /\ todo = <<>> /\ todo' = blocks
  /\ Len(written) + Len(bits) <= MaxBytes * ByteBits
  /\ written' = written \o bits
  /\ UNCHANGED <<data, nMax, lost, nCurrent, dwRet>>

AppendBe(val, width) ==
  Appends([i \in 1..width |-> <<BigEndian(val, width)[i]>>], val)

AppendData(bytes) == Appends(<<bytes>>, AllBits(bytes))

(* append_data; after one that fails the call goes on with the next byte.  *)
AppendBlock(reallocFails) ==
  /\ todo # <<>> /\ todo' = Tail(todo)
  /\ LET ns == Len(data) + Len(Head(todo))
     IN  IF ns > nMax /\ reallocFails
           THEN lost' = TRUE /\ UNCHANGED <<data, nMax>>
           ELSE /\ data' = data \o Head(todo)
                /\ nMax' = IF ns > nMax THEN RoomFor(ns) ELSE nMax
                /\ UNCHANGED lost
  /\ UNCHANGED <<written, nCurrent, dwRet>>

(* rewrite_be: over bytes that have been written.                          *)
RewriteBe(start, val, width) ==
  /\ todo = <<>> /\ start + width <= Len(data)
  /\ data' = Over(data, start, BigEndian(val, width))
  /\ written' = Over(written, ByteBits * start, val)
  /\ dwRet' = <<>>
  /\ UNCHANGED <<nMax, todo, lost, nCurrent>>

(* A stream that is cleared keeps its memory; a new parser begins.         *)
Clear ==
  /\ todo = <<>>
  /\ data' = <<>> /\ written' = <<>> /\ lost' = FALSE
  /\ nCurrent' = 0 /\ dwRet' = <<>>
  /\ UNCHANGED <<nMax, todo>>

(* The bit of data that the mask selects at position n, counted from 0.    *)
Masked(n) == data[(n \div ByteBits) + 1][(n % ByteBits) + 1]

ReadBits(bitCount) ==
  /\ todo = <<>> /\ nCurrent + bitCount <= ByteBits * Len(data)
  /\ dwRet' = [i \in 1..bitCount |-> Masked(nCurrent + i - 1)]
  /\ nCurrent' = nCurrent + bitCount
  /\ UNCHANGED <<data, nMax, todo, written, lost>>

(* net_stream_read_buff gives the bytes from the one it is in.             *)
ReadBuff(len) ==
  /\ todo = <<>> /\ nCurrent + len * ByteBits <= ByteBits * Len(data)
  /\ dwRet' = AllBits(SubSeq(data, nCurrent \div ByteBits + 1,
                             nCurrent \div ByteBits + len))
  /\ nCurrent' = nCurrent + len * ByteBits
  /\ nCurrent % ByteBits = 0   \* callers read whole bytes before a buffer
  /\ UNCHANGED <<data, nMax, todo, written, lost>>

StreamNext ==
  \/ \E width \in Widths : \E val \in Bits(ByteBits * width) :
       \/ AppendBe(val, width)
       \/ \E start \in 0..MaxBytes : RewriteBe(start, val, width)
  \/ \E bytes \in [1..2 -> ByteValue] : AppendData(bytes)
  \/ \E fails \in BOOLEAN : AppendBlock(fails)
  \/ Clear
  \/ \E bitCount \in 1..(ByteBits + 1) : ReadBits(bitCount)
  \/ ReadBuff(1)

StreamSpec == StreamInit /\ [][StreamNext]_streamVars

-----------------------------------------------------------------------------
(* Unless memory ran out, what the parser reads is what was written: any   *)
(* number of bits at any place, across bytes, growth of the buffer and     *)
(* numbers that were rewritten in place.                                   *)
ReadsBack ==
  ~lost =>
    /\ todo = <<>> => AllBits(data) = written
    /\ Len(data) <= nMax
    /\ dwRet = <<>> \/ dwRet = SubSeq(written, nCurrent - Len(dwRet) + 1, nCurrent)
=============================================================================
