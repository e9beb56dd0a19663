----------------------------- MODULE ByteProofs -----------------------------
(***************************************************************************)
(* Invariants of the parts that hold bytes, for every value of their       *)
(* constants: the memory file implements ByteFile, the buffer list hands   *)
(* its bytes over in order, and what the binary stream has written can be  *)
(* read back from its buffer.                                              *)
(***************************************************************************)
EXTENDS MemFile, BuffList, NetStream,
        FiniteSetTheorems, SequenceTheorems, WellFoundedInduction, TLAPS

-----------------------------------------------------------------------------
(* The memory file.                                                        *)

(* A set of numbers has a smallest one.                                    *)
LEMMA SmallestExists ==
  ASSUME NEW S \in SUBSET Nat, S # {}
  PROVE  \E x \in S : \A y \in S : x <= y
<1> DEFINE R == OpToRel(<, Nat)
<1>1. ASSUME NEW a \in Nat, NEW b \in Nat, ~(<<a, b>> \in R) PROVE b <= a
  <2>1. <<a, b>> \in Nat \X Nat
    OBVIOUS
  <2>2. ~(<<a, b>>[1] < <<a, b>>[2])
    BY <1>1, <2>1, Zenon DEF OpToRel
  <2>3. QED
    BY <2>2
<1>2. IsWellFoundedOn(R, Nat)
  BY NatLessThanWellFounded
<1>3. PICK x \in S : \A y \in S : ~(<<y, x>> \in R)
  BY <1>2, WFMin, Zenon
<1> HIDE DEF R
<1>4. QED
  BY <1>1, <1>3

LEMMA LeastGreatest ==
  ASSUME NEW a \in Int, NEW b \in Int
  PROVE  /\ Least(a, b) \in {a, b} /\ Least(a, b) <= a /\ Least(a, b) <= b
         /\ Greatest(a, b) \in {a, b} /\ Greatest(a, b) >= a /\ Greatest(a, b) >= b
  BY DEF Least, Greatest

(* The positions stay inside the file, and the file inside the buffer.     *)
PositionsInside ==
  /\ readPos \in 0..fileSize /\ writePos \in 0..fileSize
  /\ fileSize \in 0..Len(buffer)

(* The invariant of the induction.                                         *)
MemInv ==
  /\ selfAlloc \in BOOLEAN /\ buffer \in Seq(Byte) /\ Len(buffer) <= maxSize
  /\ PositionsInside

(* Membership of BoundedSeq, by length.                                    *)
LEMMA BoundedSeqIs ==
  ASSUME NEW S, NEW n \in Nat, NEW s
  PROVE  s \in BoundedSeq(S, n) <=> s \in Seq(S) /\ Len(s) <= n
<1>1. s \in BoundedSeq(S, n) => s \in Seq(S) /\ Len(s) <= n
  <2> SUFFICES ASSUME s \in BoundedSeq(S, n) PROVE s \in Seq(S) /\ Len(s) <= n
    OBVIOUS
  <2>1. PICK m \in 0..n : s \in [1..m -> S]
    BY DEF BoundedSeq, SeqOf
  <2>2. s \in Seq(S) /\ m \in Nat
    BY <2>1, SeqDef
  <2>3. Len(s) = m
    BY <2>1, <2>2, LenProperties
  <2>4. QED
    BY <2>2, <2>3
<1>2. s \in Seq(S) /\ Len(s) <= n => s \in BoundedSeq(S, n)
  <2> SUFFICES ASSUME s \in Seq(S), Len(s) <= n PROVE s \in BoundedSeq(S, n)
    OBVIOUS
  <2>1. s \in [1..Len(s) -> S] /\ Len(s) \in 0..n
    BY LenProperties
  <2>2. QED
    BY <2>1 DEF BoundedSeq, SeqOf
<1>3. QED
  BY <1>1, <1>2

LEMMA BytesBounded == Bytes!BoundedSeq(Byte, maxSize) = BoundedSeq(Byte, maxSize)
  BY DEF Bytes!BoundedSeq, Bytes!SeqOf, BoundedSeq, SeqOf

(* reserve keeps the bytes that are there, and to maxSize.                 *)
LEMMA ReservedGrows ==
  ASSUME MemInv, NEW s \in Nat, NEW fails \in BOOLEAN
  PROVE  LET room == Reserved(s, fails) IN
         /\ room \in Seq(Byte) /\ Len(room) >= Len(buffer) /\ Len(room) <= maxSize
         /\ \A i \in 1..Len(buffer) : room[i] = buffer[i]
<1> DEFINE n == Least(Len(buffer) + Greatest(s - Space, memInc), maxSize)
           more == [i \in 1..(n - Len(buffer)) |-> 0]
<1>0. Len(buffer) \in Nat /\ buffer \in Seq(Byte) /\ writePos \in Nat /\ Len(buffer) <= maxSize
  BY DEF MemInv, PositionsInside
<1>1. CASE Space >= s \/ ~selfAlloc \/ n <= Len(buffer) \/ fails
  <2>1. Reserved(s, fails) = buffer
    BY <1>1 DEF Reserved
  <2>2. QED
    BY <1>0, <2>1
<1>2. CASE ~(Space >= s \/ ~selfAlloc \/ n <= Len(buffer) \/ fails)
  <2>1. Reserved(s, fails) = buffer \o more
    BY <1>2 DEF Reserved
  <2>2. n \in Nat /\ n <= maxSize /\ n > Len(buffer)
    <3>2. Greatest(s - Space, memInc) \in Int
      BY <1>0, MemAssumption, LeastGreatest DEF Space
    <3>3. n \in Int /\ n <= maxSize
      BY <1>0, <3>2, MemAssumption, LeastGreatest
    <3> HIDE DEF n
    <3>4. QED
      BY <1>0, <1>2, <3>3
  <2> HIDE DEF n
  <2>3. more \in Seq(Byte) /\ Len(more) = n - Len(buffer)
    <3>1. n - Len(buffer) \in Nat
      BY <1>0, <2>2
    <3>2. QED
      BY <3>1, MemAssumption
  <2> HIDE DEF more
  <2>4. QED
    BY <1>0, <2>1, <2>2, <2>3
<1>3. QED
  BY <1>1, <1>2

(* The bytes of the file.                                                  *)
FileNow == SubSeq(buffer, 1, fileSize)

LEMMA FileIs ==
  ASSUME MemInv
  PROVE  /\ FileNow \in Seq(Byte) /\ Len(FileNow) = fileSize
         /\ \A i \in 1..fileSize : FileNow[i] = buffer[i]
<1>1. fileSize \in Nat /\ fileSize <= Len(buffer) /\ buffer \in Seq(Byte) /\ Len(buffer) \in Nat
  BY DEF MemInv, PositionsInside
<1>2. \A i \in 1..fileSize : buffer[i] \in Byte
  BY <1>1
<1>3. QED
  BY <1>1, <1>2, SubSeqProperties DEF FileNow

(* write puts the bytes it has copied, fewer than asked for if the buffer  *)
(* is full, at the write position of the byte file.                        *)
LEMMA WriteIsPut ==
  ASSUME MemInv, NEW len \in Nat \ {0}, NEW fails \in BOOLEAN,
         NEW buf \in [1..len -> Byte] \cup {<<>>}, Write(buf, len, fails)
  PROVE  MemInv' /\ \E b \in Bytes!BoundedSeq(Byte, maxSize) : Bytes!Put(b)
<1> DEFINE room == Reserved(len, fails)
           n == Least(len, Len(room) - writePos)
           Cell(i) == IF buf # <<>> /\ i \in (writePos + 1)..(writePos + n)
                        THEN buf[i - writePos] ELSE room[i]
<1>1. /\ buffer' = [i \in 1..Len(room) |-> Cell(i)]
      /\ writePos' = writePos + n /\ fileSize' = Greatest(fileSize, writePos')
      /\ UNCHANGED <<selfAlloc, readPos, read>>
  BY DEF Write
<1>2. /\ room \in Seq(Byte) /\ Len(room) >= Len(buffer) /\ Len(room) <= maxSize
      /\ \A i \in 1..Len(buffer) : room[i] = buffer[i]
  BY ReservedGrows
<1>3. /\ Len(buffer) \in Nat /\ fileSize \in 0..Len(buffer) /\ writePos \in 0..fileSize
      /\ readPos \in 0..fileSize /\ selfAlloc \in BOOLEAN
  BY DEF MemInv, PositionsInside
<1> HIDE DEF room
<1>4. Len(room) \in Nat
  BY <1>2
<1>5. n \in 0..len /\ writePos + n <= Len(room)
  BY <1>2, <1>3, <1>4 DEF Least
<1> HIDE DEF n
<1>6. \A i \in 1..Len(room) : Cell(i) \in Byte
  <2> SUFFICES ASSUME NEW i \in 1..Len(room) PROVE Cell(i) \in Byte
    OBVIOUS
  <2>1. room[i] \in Byte
    BY <1>2
  <2>2. ASSUME buf # <<>>, i \in (writePos + 1)..(writePos + n) PROVE buf[i - writePos] \in Byte
    <3>1. buf \in [1..len -> Byte] /\ i - writePos \in 1..len
      BY <1>3, <1>5, <2>2
    <3>2. QED
      BY <3>1
  <2>3. QED
    BY <2>1, <2>2
<1> HIDE DEF Cell
<1>7. /\ buffer' \in [1..Len(room) -> Byte]
      /\ \A i \in 1..Len(room) : buffer'[i] = Cell(i)
  BY <1>1, <1>6
<1>8. buffer' \in Seq(Byte) /\ Len(buffer') = Len(room)
  <2>1. buffer' \in Seq(Byte)
    BY <1>4, <1>7, SeqDef
  <2>2. QED
    BY <1>4, <1>7, <2>1, LenProperties
<1>9. fileSize' = IF fileSize > writePos + n THEN fileSize ELSE writePos + n
  BY <1>1 DEF Greatest
<1>10. MemInv'
  BY <1>1, <1>2, <1>3, <1>4, <1>5, <1>8, <1>9 DEF MemInv, PositionsInside
<1> DEFINE b == SubSeq(buffer', writePos + 1, writePos + n)
           old == FileNow
<1>11. b \in Seq(Byte) /\ Len(b) = n /\ \A i \in 1..n : b[i] = buffer'[writePos + i]
  <2>1. \A i \in (writePos + 1)..(writePos + n) : buffer'[i] \in Byte
    BY <1>3, <1>5, <1>7
  <2>2. writePos + 1 \in Int /\ writePos + n \in Int /\ n \in Nat
    BY <1>3, <1>5
  <2>3. /\ b \in Seq(Byte)
        /\ Len(b) = IF writePos + 1 <= writePos + n THEN (writePos + n) - (writePos + 1) + 1 ELSE 0
        /\ \A i \in 1..((writePos + n) - (writePos + 1) + 1) :
             b[i] = buffer'[(writePos + 1) + i - 1]
    BY <2>1, <2>2, SubSeqProperties
  <2> HIDE DEF b
  <2>4. (writePos + n) - (writePos + 1) + 1 = n
    BY <1>3, <2>2
  <2>5. \A i \in 1..n : (writePos + 1) + i - 1 = writePos + i
    BY <1>3
  <2>6. Len(b) = n
    BY <1>3, <2>2, <2>3, <2>4
  <2>7. QED
    BY <2>3, <2>4, <2>5, <2>6
<1> HIDE DEF b
<1>12. old \in Seq(Byte) /\ Len(old) = fileSize /\ \A i \in 1..fileSize : old[i] = buffer[i]
  BY FileIs
<1>13. /\ FileNow' \in Seq(Byte) /\ Len(FileNow') = fileSize'
       /\ \A i \in 1..fileSize' : FileNow'[i] = buffer'[i]
  <2>1. \A i \in 1..fileSize' : buffer'[i] \in Byte
    BY <1>3, <1>5, <1>7, <1>8, <1>10 DEF MemInv, PositionsInside
  <2>2. fileSize' \in Nat
    BY <1>3, <1>5, <1>9
  <2> DEFINE f == fileSize'
             s == SubSeq(buffer', 1, f)
  <2>3. FileNow' = s
    BY DEF FileNow
  <2>4. \A i \in 1..f : buffer'[i] \in Byte
    BY <2>1
  <2>5. f \in Nat /\ f \in Int /\ 1 \in Int
    BY <2>2
  <2> HIDE DEF f
  <2>6. /\ s \in Seq(Byte) /\ Len(s) = IF 1 <= f THEN f - 1 + 1 ELSE 0
        /\ \A i \in 1..(f - 1 + 1) : s[i] = buffer'[1 + i - 1]
    BY <2>4, <2>5, SubSeqProperties
  <2> HIDE DEF s
  <2>7. s \in Seq(Byte) /\ Len(s) = f /\ \A i \in 1..f : s[i] = buffer'[i]
    BY <2>5, <2>6
  <2>8. QED
    BY <2>3, <2>7 DEF f
<1> HIDE DEF old
<1>14. FileNow' = Bytes!Over(old, writePos, b)
  <2> DEFINE first == SubSeq(old, 1, writePos)
             last == Bytes!From(old, writePos + Len(b), Len(old))
  <2>1. first \in Seq(Byte) /\ Len(first) = writePos /\ \A i \in 1..writePos : first[i] = buffer[i]
    <3>1. \A i \in 1..writePos : old[i] \in Byte /\ old[i] = buffer[i]
      BY <1>3, <1>12
    <3>2. QED
      BY <1>3, <3>1, SubSeqProperties
  <2>2. /\ last \in Seq(Byte)
        /\ Len(last) = IF fileSize > writePos + n THEN fileSize - (writePos + n) ELSE 0
        /\ \A i \in 1..Len(last) : last[i] = buffer[writePos + n + i]
    <3>1. last = SubSeq(old, writePos + n + 1, fileSize)
      <4>1. last = SubSeq(old, writePos + n + 1,
                     IF writePos + n + fileSize < fileSize THEN writePos + n + fileSize ELSE fileSize)
        BY <1>11, <1>12 DEF Bytes!From
      <4>2. ~(writePos + n + fileSize < fileSize)
        BY <1>3, <1>5
      <4>3. QED
        BY <4>1, <4>2
    <3> HIDE DEF last
    <3>2. \A i \in (writePos + n + 1)..fileSize : old[i] \in Byte /\ old[i] = buffer[i]
      BY <1>3, <1>5, <1>12
    <3>3. writePos + n + 1 \in Int /\ fileSize \in Int
      BY <1>3, <1>5
    <3>4. /\ last \in Seq(Byte)
          /\ Len(last) = IF writePos + n + 1 <= fileSize THEN fileSize - (writePos + n + 1) + 1 ELSE 0
          /\ \A i \in 1..(fileSize - (writePos + n + 1) + 1) :
               last[i] = old[(writePos + n + 1) + i - 1]
      BY <3>1, <3>2, <3>3, SubSeqProperties
    <3>5. QED
      BY <1>3, <1>5, <3>2, <3>4
  <2> HIDE DEF first, last
  <2> DEFINE whole == first \o b \o last
  <2>3. /\ first \o b \in Seq(Byte) /\ Len(first \o b) = writePos + n
        /\ \A i \in 1..(writePos + n) :
             (first \o b)[i] = IF i <= writePos THEN buffer[i] ELSE buffer'[i]
    <3>1. /\ first \o b \in Seq(Byte) /\ Len(first \o b) = Len(first) + Len(b)
          /\ \A i \in 1..Len(first) + Len(b) :
               (first \o b)[i] = IF i <= Len(first) THEN first[i] ELSE b[i - Len(first)]
      BY <1>11, <2>1, ConcatProperties
    <3>2. \A i \in 1..(writePos + n) : i > writePos =>
            i - writePos \in 1..n /\ writePos + (i - writePos) = i
      BY <1>3, <1>5
    <3>3. writePos \in Nat /\ n \in Nat
      BY <1>3, <1>5
    <3>4. \A i \in 1..(writePos + n) : i <= writePos => i \in 1..writePos
      BY <3>3
    <3>5. \A i \in 1..(writePos + n) : i <= writePos \/ i > writePos
      BY <3>3
    <3>6. Len(first) + Len(b) = writePos + n
      BY <1>11, <2>1
    <3>7. QED
      BY <1>11, <2>1, <3>1, <3>2, <3>4, <3>5, <3>6
  <2>4. /\ whole \in Seq(Byte) /\ Len(whole) = fileSize'
        /\ \A i \in 1..fileSize' :
             whole[i] = IF i <= writePos \/ i > writePos + n THEN buffer[i] ELSE buffer'[i]
    <3> DEFINE front == first \o b
    <3> HIDE DEF front
    <3>1. /\ whole \in Seq(Byte) /\ Len(whole) = Len(front) + Len(last)
          /\ \A i \in 1..Len(front) + Len(last) :
               whole[i] = IF i <= Len(front) THEN front[i] ELSE last[i - Len(front)]
      BY <2>2, <2>3, ConcatProperties DEF front
    <3>2. Len(front) + Len(last) = fileSize' /\ Len(last) \in Nat
      BY <1>3, <1>5, <1>9, <2>2, <2>3 DEF front
    <3>3. \A i \in 1..fileSize' : i > writePos + n =>
            i - (writePos + n) \in 1..Len(last) /\ writePos + n + (i - (writePos + n)) = i
      <4>1. writePos + n \in Nat /\ Len(front) = writePos + n
        BY <1>3, <1>5, <2>3 DEF front
      <4>2. fileSize' = (writePos + n) + Len(last)
        BY <3>2, <4>1
      <4>3. QED
        BY <3>2, <4>1, <4>2
    <3>4. \A i \in 1..fileSize' : i <= writePos + n => i \in 1..(writePos + n)
      BY <1>3, <1>5
    <3>5. \A i \in 1..fileSize' : i > writePos + n => whole[i] = buffer[i]
      <4> SUFFICES ASSUME NEW i \in 1..fileSize', i > writePos + n PROVE whole[i] = buffer[i]
        OBVIOUS
      <4>1. ~(i <= Len(front)) /\ i \in 1..Len(front) + Len(last) /\ Len(front) = writePos + n
        BY <1>3, <1>5, <2>3, <3>2 DEF front
      <4>2. whole[i] = last[i - (writePos + n)]
        BY <3>1, <4>1
      <4>3. QED
        BY <2>2, <3>3, <4>2
    <3>6. \A i \in 1..fileSize' : i <= writePos + n =>
            whole[i] = IF i <= writePos THEN buffer[i] ELSE buffer'[i]
      <4> SUFFICES ASSUME NEW i \in 1..fileSize', i <= writePos + n
                   PROVE  whole[i] = IF i <= writePos THEN buffer[i] ELSE buffer'[i]
        OBVIOUS
      <4>1. i <= Len(front) /\ i \in 1..Len(front) + Len(last)
        BY <2>3, <3>2 DEF front
      <4>2. whole[i] = front[i]
        BY <3>1, <4>1
      <4>3. QED
        BY <2>3, <3>4, <4>2 DEF front
    <3> HIDE DEF whole
    <3>7. QED
      BY <1>3, <1>5, <3>1, <3>2, <3>5, <3>6
  <2>5. \A i \in 1..fileSize' : i <= writePos \/ i > writePos + n => buffer'[i] = buffer[i]
    <3> SUFFICES ASSUME NEW i \in 1..fileSize', i <= writePos \/ i > writePos + n
                 PROVE  buffer'[i] = buffer[i]
      OBVIOUS
    <3>1. i \in 1..Len(buffer) /\ i \in 1..Len(room) /\ i \notin (writePos + 1)..(writePos + n)
      BY <1>2, <1>3, <1>4, <1>5, <1>9
    <3>2. QED
      BY <1>2, <1>7, <3>1 DEF Cell
  <2> HIDE DEF whole
  <2>6. FileNow' = whole
    BY <1>13, <2>4, <2>5, SeqEqual
  <2>7. QED
    BY <2>6 DEF Bytes!Over, first, last, whole
<1>15. Bytes!Put(b)
  <2>1. writePos + Len(b) <= maxSize
    BY <1>2, <1>3, <1>4, <1>5, <1>11, MemAssumption
  <2>2. QED
    BY <1>1, <1>11, <1>14, <2>1 DEF Bytes!Put, FileNow, old
<1>16. b \in Bytes!BoundedSeq(Byte, maxSize)
  <2>1. Len(b) <= maxSize
    BY <1>2, <1>3, <1>4, <1>5, <1>11, MemAssumption
  <2>2. QED
    BY <1>11, <2>1, BoundedSeqIs, BytesBounded, MemAssumption
<1>17. QED
  BY <1>10, <1>15, <1>16
(* Growing moves no byte of the file.                                      *)
LEMMA ReserveIsQuiet ==
  ASSUME MemInv, NEW len \in Nat, NEW fails \in BOOLEAN, ReserveOnly(len, fails)
  PROVE  MemInv' /\ UNCHANGED Bytes!fileVars
<1>1. /\ buffer' \in Seq(Byte) /\ Len(buffer') >= Len(buffer) /\ Len(buffer') <= maxSize
      /\ \A i \in 1..Len(buffer) : buffer'[i] = buffer[i]
  BY ReservedGrows DEF ReserveOnly
<1>2. UNCHANGED <<selfAlloc, readPos, writePos, fileSize, read>>
  BY DEF ReserveOnly
<1>3. MemInv'
  BY <1>1, <1>2 DEF MemInv, PositionsInside
<1>4. FileNow' = FileNow
  <2>1. FileNow \in Seq(Byte) /\ Len(FileNow) = fileSize /\ \A i \in 1..fileSize : FileNow[i] = buffer[i]
    BY FileIs
  <2>2. fileSize \in Nat /\ fileSize <= Len(buffer) /\ Len(buffer) \in Nat /\ Len(buffer') \in Nat
    BY <1>1 DEF MemInv, PositionsInside
  <2>3. \A i \in 1..fileSize : buffer'[i] \in Byte /\ buffer'[i] = buffer[i]
    BY <1>1, <2>2
  <2>4. /\ SubSeq(buffer', 1, fileSize) \in Seq(Byte) /\ Len(SubSeq(buffer', 1, fileSize)) = fileSize
        /\ \A i \in 1..fileSize : SubSeq(buffer', 1, fileSize)[i] = buffer'[i]
    BY <2>2, <2>3, SubSeqProperties
  <2>5. SubSeq(buffer', 1, fileSize) = FileNow
    BY <2>1, <2>3, <2>4, SeqEqual
  <2>6. QED
    BY <1>2, <2>5 DEF FileNow
<1>5. QED
  BY <1>2, <1>3, <1>4 DEF Bytes!fileVars, FileNow

LEMMA CreateIsGiven ==
  ASSUME MemInv, NEW own \in BOOLEAN, NEW content \in BoundedSeq(Byte, maxSize), Create(own, content)
  PROVE  MemInv' /\ Bytes!Given
<1>1. content \in Seq(Byte) /\ Len(content) <= maxSize /\ Len(content) \in Nat
  <2>1. content \in Seq(Byte) /\ Len(content) <= maxSize
    BY BoundedSeqIs, MemAssumption
  <2>2. QED
    BY <2>1
<1>2. /\ selfAlloc' = own /\ buffer' = content
      /\ readPos' = 0 /\ writePos' = 0 /\ fileSize' = Len(content) /\ read' = read
  BY DEF Create
<1>3. FileNow' = content
  BY <1>1, <1>2, SubSeqFull DEF FileNow
<1>4. MemInv'
  BY <1>1, <1>2 DEF MemInv, PositionsInside
<1>5. Bytes!Given
  BY <1>2, <1>3, BytesBounded DEF Bytes!Given, FileNow
<1>6. QED
  BY <1>4, <1>5

LEMMA TruncIsEmpty ==
  ASSUME MemInv, NEW freeBuf \in BOOLEAN, Trunc(freeBuf)
  PROVE  MemInv' /\ Bytes!Empty
<1>1. /\ buffer' \in {<<>>, buffer} /\ selfAlloc' = selfAlloc /\ read' = read
      /\ readPos' = 0 /\ writePos' = 0 /\ fileSize' = 0
  BY DEF Trunc
<1>2. buffer \in Seq(Byte) /\ <<>> \in Seq(Byte) /\ Len(<<>>) = 0 /\ Len(buffer) \in Nat
  BY DEF MemInv
<1>3. FileNow' = <<>>
  BY <1>1, SubSeqEmpty DEF FileNow
<1>4. MemInv'
  <2>1. selfAlloc \in BOOLEAN /\ Len(buffer) <= maxSize
    BY DEF MemInv
  <2>2. buffer' \in Seq(Byte) /\ Len(buffer') \in Nat /\ Len(buffer') <= maxSize
    <3>1. CASE buffer' = <<>>
      BY <1>2, <3>1, MemAssumption
    <3>2. CASE buffer' = buffer
      BY <1>2, <2>1, <3>2
    <3>3. QED
      BY <1>1, <3>1, <3>2
  <2>3. QED
    BY <1>1, <2>1, <2>2 DEF MemInv, PositionsInside
<1>5. Bytes!Empty
  BY <1>1, <1>3 DEF Bytes!Empty, FileNow
<1>6. QED
  BY <1>4, <1>5

(* What read copies are the bytes from the read position on.               *)
LEMMA RestIs ==
  ASSUME MemInv, NEW size \in Nat
  PROVE  /\ Rest(size) = Bytes!From(FileNow, readPos, size)
         /\ Rest(size) \in Seq(Byte) /\ readPos + Len(Rest(size)) = Least(readPos + size, fileSize)
<1>1. /\ fileSize \in Nat /\ readPos \in 0..fileSize /\ fileSize <= Len(buffer)
      /\ buffer \in Seq(Byte) /\ Len(buffer) \in Nat
  BY DEF MemInv, PositionsInside
<1> DEFINE end == Least(readPos + size, fileSize)
<1>2. end \in readPos..fileSize /\ end = IF readPos + size < fileSize THEN readPos + size ELSE fileSize
  BY <1>1 DEF Least
<1>3. /\ FileNow \in Seq(Byte) /\ Len(FileNow) = fileSize
      /\ \A i \in 1..fileSize : FileNow[i] = buffer[i]
  BY FileIs
<1>4. Bytes!From(FileNow, readPos, size) = SubSeq(FileNow, readPos + 1, end)
  BY <1>2, <1>3 DEF Bytes!From
<1>5. Rest(size) = SubSeq(buffer, readPos + 1, end)
  BY DEF Rest
<1> HIDE DEF end
<1>6. \A i \in (readPos + 1)..end : i \in 1..fileSize /\ i \in 1..Len(buffer)
  BY <1>1, <1>2
<1>7. \A i \in (readPos + 1)..end : buffer[i] \in Byte /\ FileNow[i] \in Byte /\ FileNow[i] = buffer[i]
  BY <1>1, <1>3, <1>6
<1> DEFINE n == end - (readPos + 1) + 1
<1>8. readPos + 1 \in Int /\ end \in Int /\ readPos + 1 \in Int
  BY <1>1, <1>2
<1>9. /\ SubSeq(buffer, readPos + 1, end) \in Seq(Byte)
      /\ Len(SubSeq(buffer, readPos + 1, end)) = IF readPos + 1 <= end THEN n ELSE 0
      /\ \A i \in 1..n : SubSeq(buffer, readPos + 1, end)[i] = buffer[readPos + 1 + i - 1]
  BY <1>7, <1>8, SubSeqProperties
<1>10. /\ SubSeq(FileNow, readPos + 1, end) \in Seq(Byte)
       /\ Len(SubSeq(FileNow, readPos + 1, end)) = IF readPos + 1 <= end THEN n ELSE 0
       /\ \A i \in 1..n : SubSeq(FileNow, readPos + 1, end)[i] = FileNow[readPos + 1 + i - 1]
  BY <1>7, <1>8, SubSeqProperties
<1>11. /\ n = end - readPos /\ n \in Nat /\ readPos + n = end
       /\ readPos + 1 <= end <=> n # 0
       /\ \A i \in 1..n : readPos + 1 + i - 1 \in (readPos + 1)..end
  BY <1>1, <1>2
<1> HIDE DEF n
<1>12. /\ Len(SubSeq(FileNow, readPos + 1, end)) = n /\ Len(SubSeq(buffer, readPos + 1, end)) = n
  BY <1>9, <1>10, <1>11
<1>13. SubSeq(FileNow, readPos + 1, end) = SubSeq(buffer, readPos + 1, end)
  <2>1. \A i \in 1..n : SubSeq(FileNow, readPos + 1, end)[i] = SubSeq(buffer, readPos + 1, end)[i]
    BY <1>7, <1>9, <1>10, <1>11
  <2>2. QED
    BY <1>9, <1>10, <1>12, <2>1, SeqEqual
<1>14. QED
  BY <1>4, <1>5, <1>9, <1>11, <1>12, <1>13 DEF end

LEMMA ReadIsGet ==
  ASSUME MemInv, NEW size \in Nat, Read(size)
  PROVE  MemInv' /\ Bytes!Get(size)
<1>1. /\ read' = Rest(size) /\ readPos' = readPos + Len(read')
      /\ UNCHANGED <<selfAlloc, buffer, writePos, fileSize>>
  BY DEF Read
<1>2. read' = Bytes!From(FileNow, readPos, size) /\ readPos' = Least(readPos + size, fileSize)
  BY <1>1, RestIs
<1>3. readPos' \in 0..fileSize
  BY <1>2 DEF MemInv, PositionsInside, Least
<1>4. MemInv'
  BY <1>1, <1>3 DEF MemInv, PositionsInside
<1>5. QED
  BY <1>1, <1>2, <1>4 DEF Bytes!Get, FileNow

(* SelectInSeq finds the first newline, or there is none.                  *)
LEMMA FirstOf ==
  ASSUME NEW s \in Seq(Byte)
  PROVE  LET line == SelectInSeq(s, LAMBDA b : b = Newline) IN
         \/ /\ line \in 1..Len(s) /\ s[line] = Newline
            /\ \A i \in 1..Len(s) : s[i] = Newline => line <= i
         \/ line = 0 /\ \A i \in 1..Len(s) : s[i] # Newline
<1> DEFINE I == {i \in 1..Len(s) : s[i] = Newline}
<1>1. SelectInSeq(s, LAMBDA b : b = Newline) = IF I # {} THEN Min(I) ELSE 0
  BY DEF SelectInSeq
<1>2. CASE I = {}
  BY <1>1, <1>2
<1>3. CASE I # {}
  <2>1. \E x \in I : \A y \in I : x <= y
    <3>1. I \in SUBSET Nat
      OBVIOUS
    <3> HIDE DEF I
    <3>2. QED
      BY <1>3, <3>1, SmallestExists
  <2>2. Min(I) \in I /\ \A y \in I : Min(I) <= y
    BY <2>1 DEF Min
  <2>3. QED
    BY <1>1, <1>3, <2>2
<1>4. QED
  BY <1>2, <1>3

(* gets stops at the first newline of the file; the zeros that getc gives  *)
(* at the end are none.                                                    *)
LEMMA GetsIsGetLine ==
  ASSUME MemInv, NEW size \in Nat, Gets(size)
  PROVE  MemInv' /\ Bytes!GetLine(size)
<1> DEFINE rest == Rest(size)
           zeros == [i \in 1..(size - Len(rest)) |-> 0]
           bytes == rest \o zeros
           found == SelectInSeq(bytes, LAMBDA b : b = Newline)
           line == SelectInSeq(rest, LAMBDA b : b = Newline)
<1>1. /\ read' = IF found = 0 THEN bytes ELSE SubSeq(bytes, 1, found)
      /\ readPos' = Least(readPos + Len(read'), fileSize)
      /\ UNCHANGED <<selfAlloc, buffer, writePos, fileSize>>
  BY DEF Gets
<1>2. /\ rest = Bytes!From(FileNow, readPos, size) /\ rest \in Seq(Byte)
      /\ readPos + Len(rest) = Least(readPos + size, fileSize)
  BY RestIs
<1>3. readPos \in 0..fileSize /\ fileSize \in Nat
  BY DEF MemInv, PositionsInside
<1> HIDE DEF rest
<1>4. Len(rest) \in 0..size /\ readPos + Len(rest) <= fileSize
  BY <1>2, <1>3 DEF Least
<1>5. zeros \in Seq(Byte) /\ Len(zeros) = size - Len(rest) /\ \A i \in 1..Len(zeros) : zeros[i] = 0
  <2>1. size - Len(rest) \in Nat
    BY <1>4
  <2>2. QED
    BY <2>1, MemAssumption
<1> HIDE DEF zeros
<1>6. /\ bytes \in Seq(Byte) /\ Len(bytes) = size
      /\ \A i \in 1..Len(rest) : bytes[i] = rest[i]
      /\ \A i \in (Len(rest) + 1)..size : bytes[i] = 0
  <2>1. /\ bytes \in Seq(Byte) /\ Len(bytes) = Len(rest) + Len(zeros)
        /\ \A i \in 1..Len(rest) + Len(zeros) :
             bytes[i] = IF i <= Len(rest) THEN rest[i] ELSE zeros[i - Len(rest)]
    BY <1>2, <1>5, ConcatProperties
  <2> HIDE DEF bytes
  <2>2. Len(rest) + Len(zeros) = size
    BY <1>4, <1>5
  <2>3. \A i \in (Len(rest) + 1)..size : i - Len(rest) \in 1..Len(zeros) /\ ~(i <= Len(rest))
    BY <1>4, <1>5
  <2>4. \A i \in 1..Len(rest) : i \in 1..Len(rest) + Len(zeros) /\ i <= Len(rest)
    BY <1>4, <1>5
  <2>5. \A i \in (Len(rest) + 1)..size : i \in 1..Len(rest) + Len(zeros)
    BY <1>4, <2>2
  <2>6. QED
    BY <1>5, <2>1, <2>2, <2>3, <2>4, <2>5
<1> HIDE DEF bytes
<1>7. \/ /\ line \in 1..Len(rest) /\ rest[line] = Newline
         /\ \A i \in 1..Len(rest) : rest[i] = Newline => line <= i
      \/ line = 0 /\ \A i \in 1..Len(rest) : rest[i] # Newline
  BY <1>2, FirstOf
<1>8. \/ /\ found \in 1..Len(bytes) /\ bytes[found] = Newline
         /\ \A i \in 1..Len(bytes) : bytes[i] = Newline => found <= i
      \/ found = 0 /\ \A i \in 1..Len(bytes) : bytes[i] # Newline
  BY <1>6, FirstOf
<1> HIDE DEF found, line
<1>9. \A i \in 1..size : bytes[i] = Newline => i \in 1..Len(rest) /\ rest[i] = Newline
  <2> SUFFICES ASSUME NEW i \in 1..size, bytes[i] = Newline
               PROVE  i \in 1..Len(rest) /\ rest[i] = Newline
    OBVIOUS
  <2>1. i \notin (Len(rest) + 1)..size
    BY <1>6, MemAssumption
  <2>2. i \in 1..Len(rest)
    BY <1>4, <2>1
  <2>3. QED
    BY <1>6, <2>2
<1>10. found = line
  <2>1. CASE found = 0
    <3>1. ASSUME line \in 1..Len(rest) PROVE FALSE
      BY <1>4, <1>6, <1>7, <1>8, <2>1, <3>1
    <3>2. QED
      BY <1>7, <2>1, <3>1
  <2>2. CASE found # 0
    <3>1. found \in 1..Len(rest) /\ rest[found] = Newline
      BY <1>6, <1>8, <1>9, <2>2
    <3>2. line \in 1..Len(rest) /\ rest[line] = Newline /\ line <= found
      BY <1>7, <3>1
    <3>3. found <= line
      BY <1>4, <1>6, <1>8, <2>2, <3>2
    <3>4. QED
      BY <1>4, <3>1, <3>2, <3>3
  <2>3. QED
    BY <2>1, <2>2
<1>11. /\ read' = IF line > 0 THEN SubSeq(rest, 1, line) ELSE bytes
       /\ readPos' = readPos + (IF line > 0 THEN line ELSE Len(rest))
  <2>1. CASE line = 0
    <3>1. read' = bytes /\ readPos' = Least(readPos + size, fileSize)
      BY <1>1, <1>6, <1>10, <2>1
    <3>2. QED
      BY <1>2, <2>1, <3>1
  <2>2. CASE line # 0
    <3>1. line \in 1..Len(rest) /\ line \in Nat /\ line \in 1..size /\ line > 0
      BY <1>4, <1>7, <2>2
    <3>2. /\ SubSeq(rest, 1, line) \in Seq(Byte) /\ Len(SubSeq(rest, 1, line)) = line
          /\ \A i \in 1..line : SubSeq(rest, 1, line)[i] = rest[i]
      <4>1. \A i \in 1..line : rest[i] \in Byte
        BY <1>2, <1>4, <3>1
      <4>2. QED
        BY <3>1, <4>1, SubSeqProperties
    <3>3. /\ SubSeq(bytes, 1, line) \in Seq(Byte) /\ Len(SubSeq(bytes, 1, line)) = line
          /\ \A i \in 1..line : SubSeq(bytes, 1, line)[i] = bytes[i]
      <4>1. \A i \in 1..line : bytes[i] \in Byte
        BY <1>4, <1>6, <3>1
      <4>2. QED
        BY <3>1, <4>1, SubSeqProperties
    <3>4. SubSeq(bytes, 1, line) = SubSeq(rest, 1, line)
      <4>1. \A i \in 1..line : bytes[i] = rest[i]
        BY <1>4, <1>6, <3>1
      <4>2. QED
        BY <3>2, <3>3, <4>1, SeqEqual
    <3>5. read' = SubSeq(rest, 1, line) /\ Len(read') = line
      BY <1>1, <1>10, <2>2, <3>2, <3>4
    <3>6. Least(readPos + line, fileSize) = readPos + line
      BY <1>3, <1>4, <3>1 DEF Least
    <3>7. QED
      BY <1>1, <3>1, <3>5, <3>6
  <2>3. QED
    BY <2>1, <2>2
<1>12. readPos' \in 0..fileSize
  BY <1>3, <1>4, <1>7, <1>11
<1>13. MemInv'
  BY <1>1, <1>12 DEF MemInv, PositionsInside
<1>14. Bytes!GetLine(size)
  <2>1. Bytes!GetLine(size)
          <=> /\ read' = IF line > 0 THEN SubSeq(rest, 1, line) ELSE bytes
              /\ readPos' = readPos + (IF line > 0 THEN line ELSE Len(rest))
              /\ UNCHANGED <<SubSeq(buffer, 1, fileSize), writePos>>
    BY <1>2 DEF Bytes!GetLine, Bytes!SelectInSeq, Bytes!Min, SelectInSeq, Min, FileNow,
                line, bytes, zeros
  <2>2. QED
    BY <1>1, <1>11, <2>1
<1>15. QED
  BY <1>13, <1>14
(* No offset carries a position round the end of size_t into the file.     *)
OffsetsFit == \A off \in Offset : maxSize + off < SizeT /\ maxSize - off < SizeT

LEMMA WrappedOnce ==
  ASSUME NEW n \in Nat \ {0}, NEW t \in Int, t < n, -n < t
  PROVE  t % n = IF t >= 0 THEN t ELSE t + n
  OBVIOUS

(* The unsigned arithmetic of the seeks and its clamp go where the signed  *)
(* one would.                                                              *)
LEMMA SoughtIsTarget ==
  ASSUME MemInv, OffsetsFit, NEW off \in Offset, NEW origin \in {"cur", "end", "set"},
         NEW pos \in 0..fileSize
  PROVE  /\ Sought(origin, pos, off) = Bytes!Target(origin, pos, off)
         /\ Sought(origin, pos, off) \in 0..fileSize
<1> DEFINE t == CASE origin = "cur" -> pos + off
                  [] origin = "end" -> fileSize - off
                  [] origin = "set" -> off
<1>1. fileSize \in 0..maxSize /\ maxSize \in Nat /\ SizeT \in Nat \ {0} /\ off \in Int
  BY MemAssumption DEF MemInv, PositionsInside
<1>2. t \in Int /\ t < SizeT /\ t > maxSize - SizeT
  <2>1. maxSize + off < SizeT /\ maxSize - off < SizeT
    BY DEF OffsetsFit
  <2>2. pos \in Int /\ pos >= 0 /\ pos <= maxSize /\ fileSize >= 0 /\ fileSize <= maxSize
    BY <1>1
  <2>3. CASE origin = "cur"
    BY <1>1, <2>1, <2>2, <2>3
  <2>4. CASE origin = "end"
    BY <1>1, <2>1, <2>2, <2>4
  <2>5. CASE origin = "set"
    BY <1>1, <2>1, <2>2, <2>5
  <2>6. QED
    BY <2>3, <2>4, <2>5
<1>3. Sought(origin, pos, off) = Least(t % SizeT, fileSize)
  BY DEF Sought
<1>4. Len(FileNow) = fileSize
  BY FileIs
<1>5. Bytes!Target(origin, pos, off) = IF t \in 0..fileSize THEN t ELSE fileSize
  BY <1>4 DEF Bytes!Target, FileNow
<1> HIDE DEF t
<1>6. t % SizeT = IF t >= 0 THEN t ELSE t + SizeT
  <2>1. -SizeT < t
    BY <1>1, <1>2
  <2>2. QED
    BY <1>1, <1>2, <2>1, WrappedOnce
<1>7. QED
  BY <1>1, <1>2, <1>3, <1>5, <1>6 DEF Least

LEMMA SeekGIsSeekTo ==
  ASSUME MemInv, OffsetsFit, NEW off \in Offset, NEW origin \in {"cur", "end", "set"},
         SeekG(off, origin)
  PROVE  MemInv' /\ Bytes!SeekTo
<1>1. /\ readPos' = Sought(origin, readPos, off)
      /\ UNCHANGED <<selfAlloc, buffer, writePos, fileSize, read>>
  BY DEF SeekG
<1>2. readPos \in 0..fileSize
  BY DEF MemInv, PositionsInside
<1>3. readPos' = Bytes!Target(origin, readPos, off) /\ readPos' \in 0..fileSize
  BY <1>1, <1>2, SoughtIsTarget
<1>4. MemInv'
  BY <1>1, <1>3 DEF MemInv, PositionsInside
<1>5. UNCHANGED <<SubSeq(buffer, 1, fileSize), read>> /\ UNCHANGED writePos
  BY <1>1
<1>6. QED
  BY <1>3, <1>4, <1>5 DEF Bytes!SeekTo

LEMMA SeekPIsSeekTo ==
  ASSUME MemInv, OffsetsFit, NEW off \in Offset, NEW origin \in {"cur", "end", "set"},
         SeekP(off, origin)
  PROVE  MemInv' /\ Bytes!SeekTo
<1> DEFINE p == Sought(origin, writePos, off)
<1>1. /\ writePos' = Least(p, Len(buffer))
      /\ fileSize' = IF p > Len(buffer) THEN Len(buffer) ELSE fileSize
      /\ UNCHANGED <<selfAlloc, buffer, readPos, read>>
  BY DEF SeekP
<1>2. writePos \in 0..fileSize /\ fileSize \in 0..Len(buffer) /\ Len(buffer) \in Nat
  BY DEF MemInv, PositionsInside
<1>3. p = Bytes!Target(origin, writePos, off) /\ p \in 0..fileSize
  BY <1>2, SoughtIsTarget
<1> HIDE DEF p
<1>4. writePos' = p /\ fileSize' = fileSize
  BY <1>1, <1>2, <1>3 DEF Least
<1>5. MemInv'
  BY <1>1, <1>3, <1>4 DEF MemInv, PositionsInside
<1>6. UNCHANGED <<SubSeq(buffer, 1, fileSize), read>> /\ UNCHANGED readPos
  BY <1>1, <1>4
<1>7. QED
  BY <1>3, <1>4, <1>5, <1>6 DEF Bytes!SeekTo

(* Every step is a step of the byte file, or grows the buffer only.        *)
LEMMA MemStep ==
  ASSUME MemInv, OffsetsFit, [MemNext]_memVars
  PROVE  MemInv' /\ [Bytes!FileNext]_(Bytes!fileVars)
<1> USE DEF Bytes!FileNext
<1>1. ASSUME Create(TRUE, <<>>) PROVE MemInv' /\ Bytes!FileNext
  <2>1. <<>> \in BoundedSeq(Byte, maxSize)
    <3>1. <<>> \in Seq(Byte) /\ Len(<<>>) <= maxSize /\ maxSize \in Nat
      BY MemAssumption
    <3>2. QED
      BY <3>1, BoundedSeqIs
  <2>2. QED
    BY <1>1, <2>1, CreateIsGiven
<1>2. ASSUME NEW c \in BoundedSeq(Byte, maxSize), Create(FALSE, c) PROVE MemInv' /\ Bytes!FileNext
  BY <1>2, CreateIsGiven
<1>3. ASSUME NEW freeBuf \in BOOLEAN, Trunc(freeBuf) PROVE MemInv' /\ Bytes!FileNext
  BY <1>3, TruncIsEmpty
<1>4. ASSUME NEW len \in 1..MaxCall, NEW fails \in BOOLEAN,
             NEW buf \in [1..len -> Byte] \cup {<<>>}, Write(buf, len, fails)
      PROVE  MemInv' /\ Bytes!FileNext
  <2>1. len \in Nat \ {0}
    BY MemAssumption
  <2>2. QED
    BY <1>4, <2>1, WriteIsPut
<1>5. ASSUME NEW len \in 1..MaxCall, NEW fails \in BOOLEAN, ReserveOnly(len, fails)
      PROVE  MemInv' /\ UNCHANGED Bytes!fileVars
  <2>1. len \in Nat
    BY MemAssumption
  <2>2. QED
    BY <1>5, <2>1, ReserveIsQuiet
<1>6. ASSUME NEW size \in 1..MaxCall, Read(size) \/ Gets(size) PROVE MemInv' /\ Bytes!FileNext
  <2>1. size \in Nat
    BY MemAssumption
  <2>2. MemInv' /\ (Bytes!Get(size) \/ Bytes!GetLine(size))
    BY <1>6, <2>1, ReadIsGet, GetsIsGetLine
  <2>3. QED
    BY <2>2
<1>7. ASSUME NEW off \in Offset, NEW origin \in {"cur", "end", "set"},
             SeekG(off, origin) \/ SeekP(off, origin)
      PROVE  MemInv' /\ Bytes!FileNext
  BY <1>7, SeekGIsSeekTo, SeekPIsSeekTo
<1>8. CASE UNCHANGED memVars
  <2>1. UNCHANGED <<selfAlloc, buffer, readPos, writePos, fileSize, read>>
    BY <1>8 DEF memVars
  <2>2. MemInv'
    BY <2>1 DEF MemInv, PositionsInside
  <2>3. QED
    BY <2>1, <2>2 DEF Bytes!fileVars
<1> HIDE DEF Bytes!FileNext
<1>9. QED
  BY <1>1, <1>2, <1>3, <1>4, <1>5, <1>6, <1>7, <1>8 DEF MemNext

LEMMA MemStarts == MemInit => MemInv /\ Bytes!FileInit
<1> SUFFICES ASSUME MemInit PROVE MemInv /\ Bytes!FileInit
  OBVIOUS
<1>1. /\ selfAlloc = TRUE /\ buffer = <<>> /\ read = <<>>
      /\ readPos = 0 /\ writePos = 0 /\ fileSize = 0
  BY DEF MemInit
<1>2. SubSeq(buffer, 1, fileSize) = <<>>
  BY <1>1, SubSeqEmpty
<1>3. MemInv
  BY <1>1, EmptySeq, MemAssumption DEF MemInv, PositionsInside
<1>4. QED
  BY <1>1, <1>2, <1>3 DEF Bytes!FileInit

(* memfile: whatever is written, read, sought, truncated and reserved, in  *)
(* whatever order, and wherever malloc fails, it is a byte file of at most *)
(* maxSize bytes.                                                          *)
THEOREM MemFileImplements == ASSUME OffsetsFit PROVE MemSpec => ImplementsByteFile
<1>1. MemInv /\ [MemNext]_memVars => MemInv' /\ [Bytes!FileNext]_(Bytes!fileVars)
  BY MemStep
<1>2. QED
  BY <1>1, MemStarts, PTL DEF MemSpec, ImplementsByteFile, Bytes!FileSpec

-----------------------------------------------------------------------------
(* The buffer list.                                                        *)

(* A block of bytes, each a number: which byte of the stream it is.        *)
ByteBlock == UNION {[1..n -> Nat] : n \in Nat}
(* The segments of the list.                                               *)
Segment == [len : Nat, pos : Nat, buf : ByteBlock]

(* What is left of a segment is not empty and holds consecutive bytes.     *)
Whole(s) ==
  /\ s.pos < s.len
  /\ \A j \in 1..s.len : s.buf[j] = Final(s) - (s.len - j)
  /\ Final(s) \in Nat /\ Final(s) >= s.len

(* The invariant of the induction: each segment goes on where the one      *)
(* before it ends, the first one goes on where the user has stopped        *)
(* taking, and the last one ends with the last byte appended.              *)
BufInv ==
  /\ segments \in Seq(Segment) /\ appended \in Nat /\ taken \in Nat
  /\ \A i \in 1..Len(segments) :
       /\ Whole(segments[i])
       /\ i < Len(segments) => First(segments[i + 1]) = Final(segments[i]) + 1
  /\ IF segments = <<>> THEN taken = appended
     ELSE First(segments[1]) = taken + 1 /\ Final(segments[Len(segments)]) = appended

(* append: the new segment follows the last one.                           *)
LEMMA AppendKeeps ==
  ASSUME BufInv, NEW len \in 1..MaxSegment, NEW fails \in BOOLEAN, AppendSegment(len, fails)
  PROVE  BufInv'
<1> DEFINE new == [len |-> len, pos |-> 0, buf |-> [i \in 1..len |-> appended + i]]
<1>1. CASE UNCHANGED <<segments, appended>>
  BY <1>1 DEF BufInv, AppendSegment, First, Final
<1>2. CASE segments' = Append(segments, new) /\ appended' = appended + len
  <2>1. /\ segments \in Seq(Segment) /\ appended \in Nat /\ taken \in Nat /\ taken' = taken
        /\ Len(segments) \in Nat /\ len \in Nat /\ len > 0
    BY BuffListAssumption DEF BufInv, AppendSegment
  <2>2. new \in Segment
    <3>1. [i \in 1..len |-> appended + i] \in [1..len -> Nat]
      BY <2>1
    <3>2. QED
      BY <2>1, <3>1 DEF Segment, ByteBlock
  <2>3. First(new) = appended + 1 /\ Final(new) = appended + len
        /\ \A j \in 1..len : new.buf[j] = appended + j
    BY <2>1 DEF First, Final
  <2>4. new.len = len /\ new.pos = 0
    OBVIOUS
  <2> HIDE DEF new
  <2>5. PICK n \in Nat : n = Len(segments)
    BY <2>1
  <2>6. /\ segments' \in Seq(Segment) /\ Len(segments') = n + 1 /\ segments' # <<>>
        /\ \A i \in 1..n : segments'[i] = segments[i]
        /\ segments'[n + 1] = new
    BY <1>2, <2>1, <2>2, <2>5
  <2>7. /\ \A i \in 1..n : /\ Whole(segments[i])
                           /\ i < n => First(segments[i + 1]) = Final(segments[i]) + 1
        /\ n > 0 => First(segments[1]) = taken + 1 /\ Final(segments[n]) = appended
        /\ n = 0 => taken = appended
    BY <2>1, <2>5 DEF BufInv
  <2>8. Whole(new)
    BY <2>1, <2>3, <2>4 DEF Whole
  <2>9. \A i \in 1..(n + 1) :
          /\ Whole(segments'[i])
          /\ i < n + 1 => First(segments'[i + 1]) = Final(segments'[i]) + 1
    <3> SUFFICES ASSUME NEW i \in 1..(n + 1)
                 PROVE  /\ Whole(segments'[i])
                        /\ i < n + 1 => First(segments'[i + 1]) = Final(segments'[i]) + 1
      OBVIOUS
    <3>1. CASE i = n + 1
      BY <2>6, <2>8, <3>1
    <3>2. CASE i = n
      <4>1. segments'[i] = segments[n] /\ segments'[i + 1] = new /\ n \in 1..n
        BY <2>6, <3>2
      <4>2. QED
        BY <2>3, <2>7, <4>1
    <3>3. CASE i \in 1..(n - 1)
      <4>1. i \in 1..n /\ i + 1 \in 1..n /\ i < n
        BY <3>3
      <4>2. segments'[i] = segments[i] /\ segments'[i + 1] = segments[i + 1]
        BY <2>6, <4>1
      <4>3. QED
        BY <2>7, <4>1, <4>2
    <3>4. QED
      BY <3>1, <3>2, <3>3
  <2>10. First(segments'[1]) = taken' + 1
    <3>1. CASE n = 0
      BY <2>1, <2>3, <2>6, <2>7, <3>1
    <3>2. CASE n > 0
      BY <2>1, <2>6, <2>7, <3>2
    <3>3. QED
      BY <3>1, <3>2
  <2>11. Final(segments'[n + 1]) = appended'
    BY <1>2, <2>3, <2>6
  <2>12. appended' \in Nat /\ taken' \in Nat
    BY <1>2, <2>1
  <2>13. QED
    BY <2>6, <2>9, <2>10, <2>11, <2>12 DEF BufInv, First, Final, Whole
<1>3. QED
  BY <1>1, <1>2 DEF AppendSegment

(* What is left of a segment, its first byte and the order of its bytes.   *)
LEMMA SegmentFacts ==
  ASSUME NEW s \in Segment, Whole(s)
  PROVE  /\ s.len \in Nat /\ s.pos \in Nat /\ s.pos < s.len /\ Left(s) > 0
         /\ Left(s) = s.len - s.pos
         /\ First(s) = Final(s) - (s.len - (s.pos + 1)) /\ First(s) \in Nat
         /\ \A j \in (s.pos + 1)..(s.len - 1) : s.buf[j + 1] = s.buf[j] + 1
<1>1. s.len \in Nat /\ s.pos \in Nat
  BY DEF Segment
<1>2. s.pos < s.len /\ Final(s) \in Nat /\ Final(s) >= s.len
  BY DEF Whole
<1>3. s.pos + 1 \in 1..s.len
  BY <1>1, <1>2
<1>4. First(s) = Final(s) - (s.len - (s.pos + 1))
  BY <1>3 DEF Whole, First
<1>5. ASSUME NEW j \in (s.pos + 1)..(s.len - 1)
      PROVE  s.buf[j + 1] = s.buf[j] + 1
  <2>1. j \in 1..s.len /\ j + 1 \in 1..s.len /\ j \in Int
    BY <1>1, <1>2
  <2>2. s.buf[j] = Final(s) - (s.len - j) /\ s.buf[j + 1] = Final(s) - (s.len - (j + 1))
    BY <2>1 DEF Whole
  <2>3. QED
    BY <1>1, <1>2, <2>1, <2>2
<1>6. Left(s) = s.len - s.pos
  BY DEF Left
<1>7. QED
  BY <1>1, <1>2, <1>4, <1>5, <1>6

(* A segment of which the user has taken some bytes.                       *)
LEMMA UsedFacts ==
  ASSUME NEW s \in Segment, Whole(s), NEW len \in Nat \ {0}, len <= Left(s),
         NEW u, u = [s EXCEPT !.pos = @ + len]
  PROVE  /\ u \in Segment /\ Final(u) = Final(s) /\ Left(u) = Left(s) - len
         /\ Left(u) # 0 => Whole(u) /\ First(u) = First(s) + len
         /\ Left(u) = 0 => Final(s) = First(s) + len - 1
<1>1. /\ s.len \in Nat /\ s.pos \in Nat /\ s.pos < s.len /\ Left(s) = s.len - s.pos
      /\ First(s) = Final(s) - (s.len - (s.pos + 1)) /\ First(s) \in Nat
      /\ Final(s) \in Nat /\ Final(s) >= s.len
  BY SegmentFacts DEF Whole
<1>2. /\ u \in Segment /\ u.len = s.len /\ u.pos = s.pos + len /\ u.buf = s.buf
  BY <1>1 DEF Segment
<1>3. Final(u) = Final(s) /\ Left(u) = s.len - (s.pos + len)
  BY <1>2 DEF Final, Left
<1>4. ASSUME Left(u) # 0 PROVE Whole(u) /\ First(u) = First(s) + len
  <2>1. u.pos < u.len
    BY <1>1, <1>2, <1>3, <1>4
  <2>2. Whole(u)
    BY <1>1, <1>2, <1>3, <2>1 DEF Whole
  <2>3. First(u) = Final(u) - (u.len - (u.pos + 1))
    BY <1>2, <2>2, SegmentFacts
  <2>4. QED
    BY <1>1, <1>2, <1>3, <2>2, <2>3
<1>5. QED
  BY <1>1, <1>2, <1>3, <1>4

(* use: a segment that is used up goes, one that is not stays in front.    *)
LEMMA UseKeeps ==
  ASSUME BufInv, NEW len \in 1..MaxSegment, UseSegment(len)
  PROVE  BufInv'
<1> DEFINE rest == Tail(segments)
<1>1. PICK n \in Nat : n = Len(segments)
  BY DEF BufInv
<1>2. PICK used : used = [Head(segments) EXCEPT !.pos = @ + len]
  OBVIOUS
<1>3. PICK head : head = Head(segments)
  OBVIOUS
<1>4. /\ segments # <<>> /\ len \in Nat \ {0} /\ len <= Left(head)
      /\ segments' = IF Left(used) = 0 THEN rest ELSE <<used>> \o rest
      /\ taken' = taken + len /\ appended' = appended
  <2>1. len \in 1..Left(head)
    BY <1>3 DEF UseSegment
  <2>2. len \in Nat \ {0}
    BY BuffListAssumption
  <2>3. len <= Left(head)
    BY <2>1, <2>2
  <2>4. QED
    BY <1>2, <2>2, <2>3 DEF UseSegment
<1>5. /\ segments \in Seq(Segment) /\ appended \in Nat /\ taken \in Nat /\ taken' \in Nat
      /\ n >= 1 /\ segments[1] = head /\ head \in Segment
  BY <1>1, <1>3, <1>4 DEF BufInv
<1>6. /\ Whole(head) /\ First(head) = taken + 1 /\ Final(segments[n]) = appended
      /\ n > 1 => First(segments[2]) = Final(head) + 1
  BY <1>1, <1>4, <1>5 DEF BufInv
<1>7. /\ used \in Segment /\ Final(used) = Final(head)
      /\ Left(used) # 0 => Whole(used) /\ First(used) = First(head) + len
      /\ Left(used) = 0 => Final(head) = First(head) + len - 1
  BY <1>2, <1>3, <1>4, <1>5, <1>6, UsedFacts
<1>8. Len(rest) = n - 1 /\ rest \in Seq(Segment) /\ \A i \in 1..(n - 1) : rest[i] = segments[i + 1]
  BY <1>1, <1>4, <1>5
<1>9. \A i \in 1..n : /\ Whole(segments[i])
                      /\ i < n => First(segments[i + 1]) = Final(segments[i]) + 1
  BY <1>1 DEF BufInv
<1>10. CASE Left(used) = 0
  <2>1. /\ segments' \in Seq(Segment) /\ Len(segments') = n - 1
        /\ \A i \in 1..(n - 1) : segments'[i] = segments[i + 1]
    BY <1>4, <1>8, <1>10
  <2>2. taken' = Final(head)
    <3>1. taken' = taken + len /\ Final(head) = taken + 1 + len - 1
      BY <1>4, <1>6, <1>7, <1>10
    <3>2. QED
      BY <1>4, <1>5, <3>1
  <2>3. \A i \in 1..(n - 1) :
          /\ Whole(segments'[i])
          /\ i < n - 1 => First(segments'[i + 1]) = Final(segments'[i]) + 1
    <3> SUFFICES ASSUME NEW i \in 1..(n - 1)
                 PROVE  /\ Whole(segments'[i])
                        /\ i < n - 1 => First(segments'[i + 1]) = Final(segments'[i]) + 1
      OBVIOUS
    <3>1. i + 1 \in 1..n /\ segments'[i] = segments[i + 1]
      BY <2>1
    <3>2. i < n - 1 => i + 1 < n /\ segments'[i + 1] = segments[i + 1 + 1]
      BY <2>1
    <3>3. QED
      BY <1>9, <3>1, <3>2
  <2>4. CASE n = 1
    <3>1. segments' = <<>> /\ taken' = appended'
      <4>1. segments' = <<>>
        BY <2>1, <2>4
      <4>2. segments[n] = head
        BY <1>5, <2>4
      <4>3. QED
        BY <1>4, <1>6, <2>2, <4>1, <4>2
    <3>2. QED
      BY <1>4, <1>5, <3>1 DEF BufInv
  <2>5. CASE n > 1
    <3>1. First(segments'[1]) = taken' + 1
      BY <1>6, <2>1, <2>2, <2>5
    <3>2. Final(segments'[n - 1]) = appended' /\ segments' # <<>>
      <4>1. n - 1 \in 1..(n - 1) /\ n - 1 + 1 = n
        BY <2>5
      <4>2. segments'[n - 1] = segments[n]
        BY <2>1, <4>1
      <4>3. segments' # <<>>
        BY <2>1, <2>5
      <4>4. QED
        BY <1>4, <1>6, <4>2, <4>3
    <3>3. \A i \in 1..Len(segments') :
            /\ Whole(segments'[i])
            /\ i < Len(segments') => First(segments'[i + 1]) = Final(segments'[i]) + 1
      BY <2>1, <2>3
    <3>4. First(segments'[1]) = taken' + 1 /\ Final(segments'[Len(segments')]) = appended'
      BY <2>1, <3>1, <3>2
    <3>5. segments' \in Seq(Segment) /\ appended' \in Nat /\ taken' \in Nat /\ segments' # <<>>
      BY <1>4, <1>5, <2>1, <3>2
    <3>6. QED
      BY <3>3, <3>4, <3>5 DEF BufInv, First, Final, Whole
  <2>6. QED
    BY <1>5, <2>4, <2>5
<1>11. CASE Left(used) # 0
  <2>1. /\ segments' \in Seq(Segment) /\ Len(segments') = n /\ segments'[1] = used
        /\ \A i \in 2..n : segments'[i] = segments[i]
    <3>1. segments' = <<used>> \o rest /\ <<used>> \in Seq(Segment) /\ Len(<<used>>) = 1
          /\ <<used>>[1] = used
      BY <1>4, <1>7, <1>11
    <3> HIDE DEF rest
    <3>2. /\ segments' \in Seq(Segment) /\ Len(segments') = 1 + (n - 1)
          /\ \A i \in 1..n : segments'[i] = IF i <= 1 THEN <<used>>[i] ELSE rest[i - 1]
      BY <1>5, <1>8, <3>1
    <3>3. \A i \in 2..n : i - 1 \in 1..(n - 1) /\ i - 1 + 1 = i /\ i \in 1..n /\ ~(i <= 1)
      OBVIOUS
    <3>4. QED
      BY <1>5, <1>8, <3>1, <3>2, <3>3
  <2>2. First(used) = taken' + 1
    <3>1. First(used) = taken + 1 + len
      BY <1>6, <1>7, <1>11
    <3>2. QED
      BY <1>4, <1>5, <3>1
  <2>3. \A i \in 1..n :
          /\ Whole(segments'[i])
          /\ i < n => First(segments'[i + 1]) = Final(segments'[i]) + 1
    <3> SUFFICES ASSUME NEW i \in 1..n
                 PROVE  /\ Whole(segments'[i])
                        /\ i < n => First(segments'[i + 1]) = Final(segments'[i]) + 1
      OBVIOUS
    <3>1. i < n => segments'[i + 1] = segments[i + 1]
      BY <2>1
    <3>2. CASE i = 1
      BY <1>6, <1>7, <1>11, <2>1, <3>1, <3>2
    <3>3. CASE i \in 2..n
      BY <1>9, <2>1, <3>1, <3>3
    <3>4. QED
      BY <3>2, <3>3
  <2>4. Final(segments'[n]) = appended' /\ segments' # <<>>
    <3>1. n = 1 \/ n \in 2..n
      BY <1>5
    <3>2. segments' # <<>>
      BY <1>5, <2>1
    <3>3. CASE n = 1
      BY <1>4, <1>5, <1>6, <1>7, <2>1, <3>2, <3>3
    <3>4. CASE n \in 2..n
      BY <1>4, <1>6, <2>1, <3>2, <3>4
    <3>5. QED
      BY <3>1, <3>3, <3>4
  <2>5. /\ \A i \in 1..Len(segments') :
              /\ Whole(segments'[i])
              /\ i < Len(segments') => First(segments'[i + 1]) = Final(segments'[i]) + 1
        /\ First(segments'[1]) = taken' + 1 /\ Final(segments'[Len(segments')]) = appended'
    BY <2>1, <2>2, <2>3, <2>4
  <2>6. segments' \in Seq(Segment) /\ appended' \in Nat /\ taken' \in Nat /\ segments' # <<>>
    BY <1>4, <1>5, <2>1, <2>4
  <2>7. QED
    BY <2>5, <2>6 DEF BufInv, First, Final, Whole
<1>12. QED
  BY <1>10, <1>11

(* The invariant of the buffer list is inductive.                          *)
LEMMA BufStep == BufInv /\ [BufListNext]_bufListVars => BufInv'
<1> SUFFICES ASSUME BufInv, [BufListNext]_bufListVars PROVE BufInv'
  OBVIOUS
<1>1. ASSUME DestroyAll PROVE BufInv'
  BY <1>1 DEF DestroyAll, BufInv
<1>2. ASSUME UNCHANGED <<segments, appended, taken>> PROVE BufInv'
  BY <1>2 DEF BufInv, First, Final
<1>3. QED
  BY <1>1, <1>2, AppendKeeps, UseKeeps DEF BufListNext, NextSegmentLen, bufListVars

(* The buffer list: whatever is appended and used, the bytes in it are     *)
(* consecutive, from the one after the last byte taken to the last one     *)
(* appended.                                                               *)
THEOREM BytesStayInOrder == BufListSpec => []BytesInOrder
<1>1. BufListInit => BufInv
  BY DEF BufListInit, BufInv
<1>2. BufInv => BytesInOrder
  <2> SUFFICES ASSUME BufInv PROVE BytesInOrder
    OBVIOUS
  <2>1. segments \in Seq(Segment) /\ Len(segments) \in Nat /\ DOMAIN segments = 1..Len(segments)
    BY DEF BufInv
  <2>2. \A i \in 1..Len(segments) :
          /\ segments[i] \in Segment /\ Whole(segments[i])
          /\ i < Len(segments) => First(segments[i + 1]) = Final(segments[i]) + 1
    BY <2>1 DEF BufInv
  <2>3. segments # <<>> => Head(segments) = segments[1]
    BY <2>1
  <2>4. QED
    BY <2>1, <2>2, <2>3, SegmentFacts DEF BufInv, BytesInOrder, Last
<1>3. QED
  BY <1>1, <1>2, BufStep, PTL DEF BufListSpec

-----------------------------------------------------------------------------
(* The binary stream.                                                      *)

(* A byte has a bit.                                                       *)
LEMMA ByteBitsNat == ByteBits \in Nat /\ ByteBits > 0
<1>1. ByteBits \in Nat \ {0}
  BY StreamAssumption
<1>2. QED
  BY <1>1

(* Position n, counted from 0, is bit r of byte a.                         *)
LEMMA BitPlace ==
  ASSUME NEW a \in Nat, NEW r \in 0..(ByteBits - 1)
  PROVE  (a * ByteBits + r) \div ByteBits = a /\ (a * ByteBits + r) % ByteBits = r
BY ByteBitsNat

(* The bits of a byte come before those of a later byte.                   *)
LEMMA ByteOrder ==
  ASSUME NEW a \in Int, NEW b \in Int, a < b
  PROVE  a * ByteBits + ByteBits <= b * ByteBits
<1>1. PICK c \in Nat : b = a + 1 + c
  <2>1. b - a - 1 \in Nat /\ b = a + 1 + (b - a - 1)
    OBVIOUS
  <2>2. QED
    BY <2>1
<1>2. b * ByteBits = a * ByteBits + ByteBits + c * ByteBits
  BY <1>1, ByteBitsNat
<1>3. c * ByteBits >= 0 /\ a * ByteBits \in Int /\ c * ByteBits \in Int
  BY ByteBitsNat
<1>4. QED
  BY <1>2, <1>3, ByteBitsNat

(* The number of a bit is one of a byte and one within the byte.           *)
LEMMA BitPlaces ==
  ASSUME NEW len \in Nat, NEW n \in 1..(ByteBits * len)
  PROVE  \E a \in 0..(len - 1), r \in 0..(ByteBits - 1) : n = a * ByteBits + r + 1
<1> DEFINE a == (n - 1) \div ByteBits
           r == (n - 1) % ByteBits
<1>1. n - 1 \in Nat /\ n - 1 < ByteBits * len /\ ByteBits * len = len * ByteBits
  BY ByteBitsNat
<1>2. a \in Int /\ r \in 0..(ByteBits - 1) /\ n - 1 = a * ByteBits + r
  BY <1>1, ByteBitsNat
<1> HIDE DEF a, r
<1>3. a >= 0
  <2>1. CASE a < 0
    <3>1. a * ByteBits + ByteBits <= 0 * ByteBits
      BY <1>2, <2>1, ByteOrder
    <3>2. QED
      BY <1>1, <1>2, <3>1, ByteBitsNat
  <2>2. QED
    BY <1>2, <2>1
<1>4. a < len
  <2>1. CASE len <= a
    <3>1. len * ByteBits <= a * ByteBits
      <4>1. CASE len = a
        BY <4>1, ByteBitsNat
      <4>2. CASE len < a
        BY <1>2, <4>2, ByteOrder, ByteBitsNat
      <4>3. QED
        BY <1>2, <2>1, <4>1, <4>2
    <3>2. QED
      BY <1>1, <1>2, <3>1, ByteBitsNat
  <2>2. QED
    BY <1>2, <2>1
<1>5. n = a * ByteBits + r + 1 /\ a \in 0..(len - 1)
  BY <1>2, <1>3, <1>4, ByteBitsNat
<1>6. QED
  BY <1>2, <1>5

(* The bit of a byte that is there is there.                               *)
LEMMA PlaceInside ==
  ASSUME NEW len \in Nat, NEW a \in 0..(len - 1), NEW r \in 0..(ByteBits - 1)
  PROVE  /\ a * ByteBits + r + 1 \in 1..(ByteBits * len) /\ a * ByteBits \in Nat
         /\ a * ByteBits + r + 1 - 1 = a * ByteBits + r
<1>1. a * ByteBits + ByteBits <= len * ByteBits
  BY ByteOrder
<1>2. a * ByteBits \in Nat /\ len * ByteBits = ByteBits * len /\ ByteBits * len \in Nat
  BY ByteBitsNat
<1>3. QED
  BY <1>1, <1>2, ByteBitsNat

(* The bits of a sequence of bytes, one by one.                            *)
LEMMA AllBitsAre ==
  ASSUME NEW bytes \in Seq(ByteValue)
  PROVE  /\ AllBits(bytes) \in Seq({0, 1}) /\ Len(AllBits(bytes)) = ByteBits * Len(bytes)
         /\ DOMAIN AllBits(bytes) = 1..(ByteBits * Len(bytes))
         /\ ByteBits * Len(bytes) \in Nat
         /\ \A a \in 0..(Len(bytes) - 1), r \in 0..(ByteBits - 1) :
              AllBits(bytes)[a * ByteBits + r + 1] = bytes[a + 1][r + 1]
<1>1. Len(bytes) \in Nat /\ ByteBits * Len(bytes) \in Nat
  BY ByteBitsNat
<1>2. ASSUME NEW a \in 0..(Len(bytes) - 1), NEW r \in 0..(ByteBits - 1)
      PROVE  AllBits(bytes)[a * ByteBits + r + 1] = bytes[a + 1][r + 1]
  <2>1. PICK n : n = a * ByteBits + r + 1
    OBVIOUS
  <2>2. a * ByteBits + r + 1 \in 1..(ByteBits * Len(bytes))
        /\ a * ByteBits + r + 1 - 1 = a * ByteBits + r
    BY <1>1, PlaceInside
  <2>3. n \in 1..(ByteBits * Len(bytes)) /\ n - 1 = a * ByteBits + r
    <3>1. n \in 1..(ByteBits * Len(bytes))
      BY <2>1, <2>2, Zenon
    <3>2. n - 1 = a * ByteBits + r
      <4>1. PICK c \in Nat : c = a * ByteBits
        BY ByteBitsNat
      <4>2. n = c + r + 1 /\ r \in Nat
        BY <2>1, <4>1, ByteBitsNat
      <4>3. QED
        BY <4>1, <4>2
    <3>3. QED
      BY <3>1, <3>2
  <2>4. (n - 1) \div ByteBits = a /\ (n - 1) % ByteBits = r
    BY <1>1, <2>3, BitPlace
  <2>5. AllBits(bytes)[n] = bytes[a + 1][r + 1]
    BY <2>3, <2>4 DEF AllBits
  <2>6. QED
    BY <2>1, <2>5
<1>3. ASSUME NEW n \in 1..(ByteBits * Len(bytes)) PROVE AllBits(bytes)[n] \in {0, 1}
  <2>1. PICK a \in 0..(Len(bytes) - 1), r \in 0..(ByteBits - 1) : n = a * ByteBits + r + 1
    BY <1>1, BitPlaces
  <2>2. a + 1 \in 1..Len(bytes) /\ r + 1 \in 1..ByteBits
    BY <1>1, ByteBitsNat
  <2>3. bytes[a + 1] \in [1..ByteBits -> {0, 1}]
    BY <2>2 DEF ByteValue, Bits
  <2>4. bytes[a + 1][r + 1] \in {0, 1}
    BY <2>2, <2>3
  <2>5. QED
    BY <1>2, <2>1, <2>4
<1>4. AllBits(bytes) \in [1..(ByteBits * Len(bytes)) -> {0, 1}]
  BY <1>3 DEF AllBits
<1>5. QED
  BY <1>1, <1>2, <1>4

(* Bits that agree with bytes at every place are their bits.               *)
LEMMA SameBits ==
  ASSUME NEW bytes \in Seq(ByteValue), NEW s \in Seq({0, 1}),
         Len(s) = ByteBits * Len(bytes),
         \A a \in 0..(Len(bytes) - 1), r \in 0..(ByteBits - 1) :
           s[a * ByteBits + r + 1] = bytes[a + 1][r + 1]
  PROVE  AllBits(bytes) = s
<1>1. \A i \in 1..Len(s) : AllBits(bytes)[i] = s[i]
  <2> SUFFICES ASSUME NEW i \in 1..(ByteBits * Len(bytes)) PROVE AllBits(bytes)[i] = s[i]
    OBVIOUS
  <2>1. PICK a \in 0..(Len(bytes) - 1), r \in 0..(ByteBits - 1) : i = a * ByteBits + r + 1
    <3>1. Len(bytes) \in Nat
      OBVIOUS
    <3>2. QED
      BY <3>1, BitPlaces
  <2>2. AllBits(bytes)[a * ByteBits + r + 1] = bytes[a + 1][r + 1]
    BY AllBitsAre
  <2>3. QED
    BY <2>1, <2>2
<1>2. QED
  BY <1>1, AllBitsAre, SeqEqual

(* append_be: the bytes of a number, highest first, have its bits in       *)
(* order.                                                                  *)
LEMMA BigEndianBits ==
  ASSUME NEW width \in Nat \ {0}, NEW val \in Bits(ByteBits * width)
  PROVE  /\ BigEndian(val, width) \in Seq(ByteValue) /\ Len(BigEndian(val, width)) = width
         /\ val \in Seq({0, 1}) /\ Len(val) = ByteBits * width
         /\ AllBits(BigEndian(val, width)) = val
<1>1. /\ ByteBits * width \in Nat /\ val \in Seq({0, 1}) /\ Len(val) = ByteBits * width
      /\ \A i \in 1..(ByteBits * width) : val[i] \in {0, 1}
  <2>1. ByteBits * width \in Nat
    BY ByteBitsNat
  <2>2. QED
    BY <2>1 DEF Bits
<1>2. ASSUME NEW a \in 0..(width - 1), NEW r \in 0..(ByteBits - 1)
      PROVE  /\ a * ByteBits + r + 1 \in 1..(ByteBits * width)
             /\ Shifted(val, width - (a + 1))[r + 1] = val[a * ByteBits + r + 1]
  <2> DEFINE k == ByteBits * (width - (a + 1))
             i == ByteBits * width - ByteBits + (r + 1)
  <2>1. a * ByteBits + r + 1 \in 1..(ByteBits * width) /\ a * ByteBits \in Nat
    BY PlaceInside
  <2>2. k = ByteBits * width - a * ByteBits - ByteBits
    BY ByteBitsNat
  <2>3. i \in Int /\ k \in Int /\ i - k = a * ByteBits + r + 1 /\ i > k
    BY <1>1, <2>1, <2>2, ByteBitsNat
  <2>4. k >= 0
    <3>1. a * ByteBits + ByteBits <= width * ByteBits /\ width * ByteBits = ByteBits * width
      BY ByteOrder, ByteBitsNat
    <3>2. QED
      BY <1>1, <2>1, <2>2, <3>1, ByteBitsNat
  <2>5. i \in 1..(ByteBits * width) /\ r + 1 \in 1..ByteBits
    BY <1>1, <2>1, <2>3, <2>4, ByteBitsNat
  <2>6. ShiftRight(val, k)[i] = val[i - k] /\ Len(ShiftRight(val, k)) = ByteBits * width
    BY <1>1, <2>3, <2>5 DEF ShiftRight
  <2> HIDE DEF k
  <2>7. LowByte(ShiftRight(val, k))[r + 1] = ShiftRight(val, k)[i]
    BY <2>5, <2>6 DEF LowByte
  <2>8. Shifted(val, width - (a + 1)) = LowByte(ShiftRight(val, k))
    BY DEF Shifted, k
  <2>9. QED
    BY <2>1, <2>3, <2>6, <2>7, <2>8
<1>3. ASSUME NEW a \in 0..(width - 1) PROVE Shifted(val, width - (a + 1)) \in ByteValue
  <2> DEFINE b == Shifted(val, width - (a + 1))
  <2>1. \A j \in 1..ByteBits : b[j] \in {0, 1}
    <3> SUFFICES ASSUME NEW j \in 1..ByteBits PROVE b[j] \in {0, 1}
      OBVIOUS
    <3>1. j - 1 \in 0..(ByteBits - 1) /\ j - 1 + 1 = j
      BY ByteBitsNat
    <3>2. \A r \in 0..(ByteBits - 1) : b[r + 1] \in {0, 1}
      BY <1>1, <1>2
    <3>3. QED
      BY <3>1, <3>2
  <2>2. b = [j \in 1..ByteBits |-> b[j]]
    BY DEF Shifted, LowByte
  <2> HIDE DEF b
  <2>3. b \in ByteValue
    BY <2>1, <2>2 DEF ByteValue, Bits
  <2>4. QED
    BY <2>3 DEF b
<1>4. BigEndian(val, width) \in [1..width -> ByteValue]
  <2>1. ASSUME NEW i \in 1..width PROVE Shifted(val, width - i) \in ByteValue
    <3>1. i - 1 \in 0..(width - 1) /\ width - i = width - ((i - 1) + 1)
      OBVIOUS
    <3>2. QED
      BY <1>3, <3>1
  <2>2. QED
    BY <2>1 DEF BigEndian
<1>5. BigEndian(val, width) \in Seq(ByteValue) /\ Len(BigEndian(val, width)) = width
  BY <1>4
<1>6. \A a \in 0..(width - 1), r \in 0..(ByteBits - 1) :
        val[a * ByteBits + r + 1] = BigEndian(val, width)[a + 1][r + 1]
  <2>1. \A a \in 0..(width - 1) : BigEndian(val, width)[a + 1] = Shifted(val, width - (a + 1))
    BY DEF BigEndian
  <2>2. QED
    BY <1>2, <2>1
<1>7. AllBits(BigEndian(val, width)) = val
  BY <1>1, <1>5, <1>6, SameBits
<1>8. QED
  BY <1>1, <1>5, <1>7

(* The bits of two sequences, one behind the other.                        *)
LEMMA ConcatBits ==
  ASSUME NEW s \in Seq(ByteValue), NEW t \in Seq(ByteValue)
  PROVE  AllBits(s \o t) = AllBits(s) \o AllBits(t)
<1> DEFINE both == AllBits(s) \o AllBits(t)
<1>1. /\ Len(s) \in Nat /\ Len(t) \in Nat /\ Len(s \o t) = Len(s) + Len(t) /\ s \o t \in Seq(ByteValue)
      /\ \A i \in 1..(Len(s) + Len(t)) : (s \o t)[i] = IF i <= Len(s) THEN s[i] ELSE t[i - Len(s)]
  BY ConcatProperties
<1>2. PICK m \in Nat, n \in Nat :
        /\ m = ByteBits * Len(s) /\ n = ByteBits * Len(t)
        /\ ByteBits * (Len(s) + Len(t)) = m + n /\ Len(s) * ByteBits = m
  <2>1. /\ ByteBits * (Len(s) + Len(t)) = ByteBits * Len(s) + ByteBits * Len(t)
        /\ ByteBits * Len(s) = Len(s) * ByteBits
        /\ ByteBits * Len(s) \in Nat /\ ByteBits * Len(t) \in Nat
    BY <1>1, ByteBitsNat
  <2>2. QED
    BY <2>1
<1>3. /\ both \in Seq({0, 1}) /\ Len(both) = m + n
      /\ \A i \in 1..(m + n) : both[i] = IF i <= m THEN AllBits(s)[i] ELSE AllBits(t)[i - m]
  <2>1. /\ AllBits(s) \in Seq({0, 1}) /\ Len(AllBits(s)) = m
        /\ AllBits(t) \in Seq({0, 1}) /\ Len(AllBits(t)) = n
    BY <1>2, AllBitsAre
  <2>2. PICK u \in Seq({0, 1}), v \in Seq({0, 1}) : u = AllBits(s) /\ v = AllBits(t)
    BY <2>1
  <2>3. /\ u \o v \in Seq({0, 1}) /\ Len(u \o v) = m + n
        /\ \A i \in 1..(m + n) : (u \o v)[i] = IF i <= m THEN u[i] ELSE v[i - m]
    <3>1. Len(u) = m /\ Len(v) = n
      BY <2>1, <2>2
    <3>2. /\ u \o v \in Seq({0, 1}) /\ Len(u \o v) = Len(u) + Len(v)
          /\ \A i \in 1..(Len(u) + Len(v)) :
               (u \o v)[i] = IF i <= Len(u) THEN u[i] ELSE v[i - Len(u)]
      BY ConcatProperties
    <3>3. QED
      BY <3>1, <3>2, Zenon
  <2>4. QED
    BY <2>2, <2>3
<1> HIDE DEF both
<1>4. ASSUME NEW a \in 0..(Len(s) + Len(t) - 1), NEW r \in 0..(ByteBits - 1)
      PROVE  both[a * ByteBits + r + 1] = (s \o t)[a + 1][r + 1]
  <2>1. PICK i : i = a * ByteBits + r + 1
    OBVIOUS
  <2>2. PICK c \in Nat : c = a * ByteBits
    BY <1>1, ByteBitsNat
  <2>3. i \in 1..(m + n) /\ i = c + r + 1 /\ r \in Nat
    <3>1. Len(s) + Len(t) \in Nat
      BY <1>1
    <3>2. i \in 1..(ByteBits * (Len(s) + Len(t)))
      BY <2>1, <3>1, PlaceInside
    <3>3. r \in Nat
      BY ByteBitsNat
    <3>4. QED
      BY <1>2, <2>1, <2>2, <3>2, <3>3
  <2>4. CASE a < Len(s)
    <3>1. a \in 0..(Len(s) - 1) /\ a + 1 <= Len(s) /\ a + 1 \in 1..(Len(s) + Len(t))
      BY <1>1, <2>4
    <3>2. i \in 1..m
      BY <1>1, <1>2, <2>1, <3>1, PlaceInside
    <3>3. both[i] = AllBits(s)[i]
      BY <1>3, <2>3, <3>2
    <3>4. (s \o t)[a + 1] = s[a + 1]
      BY <1>1, <3>1
    <3>5. AllBits(s)[i] = s[a + 1][r + 1]
      BY <2>1, <3>1, AllBitsAre
    <3>6. QED
      BY <2>1, <3>3, <3>4, <3>5
  <2>5. CASE Len(s) <= a
    <3>1. PICK b \in 0..(Len(t) - 1) : a = Len(s) + b
      <4>1. a - Len(s) \in 0..(Len(t) - 1) /\ a = Len(s) + (a - Len(s))
        BY <1>1, <2>5
      <4>2. QED
        BY <4>1
    <3>2. PICK d \in Nat : d = b * ByteBits
      BY <1>1, ByteBitsNat
    <3>3. c = m + d
      BY <1>1, <1>2, <2>2, <3>1, <3>2, ByteBitsNat
    <3>4. ~(i <= m) /\ i - m = d + r + 1
      BY <2>3, <3>3
    <3>5. both[i] = AllBits(t)[d + r + 1]
      BY <1>3, <2>3, <3>4
    <3>6. a + 1 \in 1..(Len(s) + Len(t)) /\ ~(a + 1 <= Len(s)) /\ a + 1 - Len(s) = b + 1
      BY <1>1, <3>1
    <3>7. (s \o t)[a + 1] = t[b + 1]
      BY <1>1, <3>6
    <3>8. AllBits(t)[d + r + 1] = t[b + 1][r + 1]
      BY <3>2, AllBitsAre
    <3>9. QED
      BY <2>1, <3>5, <3>7, <3>8
  <2>6. QED
    BY <1>1, <2>4, <2>5
<1>5. AllBits(s \o t) = both
  <2>1. Len(both) = ByteBits * Len(s \o t)
    BY <1>1, <1>2, <1>3
  <2>2. \A a \in 0..(Len(s \o t) - 1), r \in 0..(ByteBits - 1) :
          both[a * ByteBits + r + 1] = (s \o t)[a + 1][r + 1]
    BY <1>1, <1>4
  <2>3. QED
    BY <1>1, <1>3, <2>1, <2>2, SameBits
<1>6. QED
  BY <1>5 DEF both

(* Overwriting part of a sequence, element by element.                     *)
LEMMA OverIs ==
  ASSUME NEW S, NEW s \in Seq(S), NEW new \in Seq(S), NEW p \in Nat
  PROVE  /\ Over(s, p, new) \in Seq(S) /\ Len(Over(s, p, new)) = Len(s)
         /\ \A i \in 1..Len(s) :
              Over(s, p, new)[i] = IF i - p \in 1..Len(new) THEN new[i - p] ELSE s[i]
<1>1. /\ Len(s) \in Nat /\ DOMAIN s = 1..Len(s) /\ DOMAIN new = 1..Len(new)
      /\ \A i \in 1..Len(s) : s[i] \in S
      /\ \A i \in 1..Len(new) : new[i] \in S
  OBVIOUS
<1>2. Over(s, p, new) = [i \in 1..Len(s) |-> IF i - p \in 1..Len(new) THEN new[i - p] ELSE s[i]]
  BY <1>1 DEF Over
<1>3. \A i \in 1..Len(s) : (IF i - p \in 1..Len(new) THEN new[i - p] ELSE s[i]) \in S
  BY <1>1
<1>4. Over(s, p, new) \in [1..Len(s) -> S]
  BY <1>2, <1>3
<1>5. QED
  BY <1>1, <1>2, <1>4

(* Overwriting whole bytes overwrites their bits.                          *)
LEMMA OverBits ==
  ASSUME NEW s \in Seq(ByteValue), NEW new \in Seq(ByteValue), NEW p \in Nat
  PROVE  AllBits(Over(s, p, new)) = Over(AllBits(s), ByteBits * p, AllBits(new))
<1> DEFINE bits == Over(AllBits(s), ByteBits * p, AllBits(new))
           bytes == Over(s, p, new)
<1>1. /\ Len(s) \in Nat /\ Len(new) \in Nat /\ bytes \in Seq(ByteValue) /\ Len(bytes) = Len(s)
      /\ \A i \in 1..Len(s) : bytes[i] = IF i - p \in 1..Len(new) THEN new[i - p] ELSE s[i]
  BY OverIs
<1>2. PICK m \in Nat, n \in Nat, q \in Nat :
        /\ m = ByteBits * Len(s) /\ n = ByteBits * Len(new)
        /\ q = ByteBits * p /\ q = p * ByteBits /\ n = Len(new) * ByteBits
  <2>1. /\ ByteBits * Len(s) \in Nat /\ ByteBits * Len(new) \in Nat /\ ByteBits * p \in Nat
        /\ ByteBits * p = p * ByteBits /\ ByteBits * Len(new) = Len(new) * ByteBits
    BY <1>1, ByteBitsNat
  <2>2. QED
    BY <2>1
<1>3. /\ bits \in Seq({0, 1}) /\ Len(bits) = m
      /\ \A i \in 1..m : bits[i] = IF i - q \in 1..n THEN AllBits(new)[i - q] ELSE AllBits(s)[i]
  <2>1. /\ AllBits(s) \in Seq({0, 1}) /\ Len(AllBits(s)) = m
        /\ AllBits(new) \in Seq({0, 1}) /\ Len(AllBits(new)) = n
    BY <1>2, AllBitsAre
  <2>2. PICK u \in Seq({0, 1}), v \in Seq({0, 1}) : u = AllBits(s) /\ v = AllBits(new)
    BY <2>1
  <2>3. /\ Over(u, q, v) \in Seq({0, 1}) /\ Len(Over(u, q, v)) = m
        /\ \A i \in 1..m : Over(u, q, v)[i] = IF i - q \in 1..n THEN v[i - q] ELSE u[i]
    <3>1. /\ Over(u, q, v) \in Seq({0, 1}) /\ Len(Over(u, q, v)) = Len(u)
          /\ \A i \in 1..Len(u) :
               Over(u, q, v)[i] = IF i - q \in 1..Len(v) THEN v[i - q] ELSE u[i]
      BY OverIs
    <3>2. Len(u) = m /\ Len(v) = n
      BY <2>1, <2>2
    <3>3. QED
      BY <3>1, <3>2
  <2>4. bits = Over(u, q, v)
    BY <1>2, <2>2
  <2> HIDE DEF bits
  <2>5. QED
    BY <2>2, <2>3, <2>4
<1> HIDE DEF bits, bytes
<1>4. ASSUME NEW a \in 0..(Len(s) - 1), NEW r \in 0..(ByteBits - 1)
      PROVE  bits[a * ByteBits + r + 1] = bytes[a + 1][r + 1]
  <2>1. PICK i : i = a * ByteBits + r + 1
    OBVIOUS
  <2>2. PICK c \in Nat : c = a * ByteBits
    BY <1>1, ByteBitsNat
  <2>3. i \in 1..m /\ i = c + r + 1 /\ r \in Nat /\ r < ByteBits /\ a + 1 \in 1..Len(s) /\ a \in Nat
    <3>1. i \in 1..(ByteBits * Len(s))
      BY <1>1, <2>1, PlaceInside
    <3>2. r \in Nat /\ r < ByteBits /\ a \in Nat /\ a + 1 \in 1..Len(s)
      BY <1>1, ByteBitsNat
    <3>3. QED
      BY <1>2, <2>1, <2>2, <3>1, <3>2
  <2>4. CASE a + 1 - p \in 1..Len(new)
    <3>1. PICK b \in 0..(Len(new) - 1) : a = p + b
      <4>1. a - p \in 0..(Len(new) - 1) /\ a = p + (a - p)
        BY <1>1, <2>3, <2>4
      <4>2. QED
        BY <4>1
    <3>2. PICK d \in Nat : d = b * ByteBits
      BY <1>1, ByteBitsNat
    <3>3. c = q + d
      BY <1>1, <1>2, <2>2, <3>1, <3>2, ByteBitsNat
    <3>4. d + r + 1 \in 1..n
      BY <1>1, <1>2, <3>2, PlaceInside
    <3>5. i - q = d + r + 1
      BY <2>3, <3>3
    <3>6. bits[i] = AllBits(new)[d + r + 1]
      BY <1>3, <2>3, <3>4, <3>5
    <3>7. a + 1 - p = b + 1
      BY <3>1
    <3>8. bytes[a + 1] = new[b + 1]
      <4>1. bytes[a + 1] = new[a + 1 - p]
        BY <1>1, <2>3, <2>4
      <4>2. QED
        BY <3>7, <4>1
    <3>9. AllBits(new)[d + r + 1] = new[b + 1][r + 1]
      BY <3>2, AllBitsAre
    <3>10. QED
      BY <2>1, <3>6, <3>8, <3>9
  <2>5. CASE ~(a + 1 - p \in 1..Len(new))
    <3>1. a < p \/ p + Len(new) <= a
      BY <1>1, <2>3, <2>5
    <3>2. ~(i - q \in 1..n)
      <4>1. CASE a < p
        <5>1. c + ByteBits <= q
          BY <1>2, <2>2, <2>3, <4>1, ByteOrder
        <5>2. QED
          BY <2>3, <5>1, ByteBitsNat
      <4>2. CASE p + Len(new) <= a
        <5>1. PICK e \in Nat : a = p + Len(new) + e
          <6>1. a - p - Len(new) \in Nat /\ a = p + Len(new) + (a - p - Len(new))
            BY <1>1, <2>3, <4>2
          <6>2. QED
            BY <6>1
        <5>2. PICK f \in Nat : f = e * ByteBits
          BY ByteBitsNat
        <5>3. c = q + n + f
          BY <1>1, <1>2, <2>2, <5>1, <5>2, ByteBitsNat
        <5>4. QED
          BY <2>3, <5>3
      <4>3. QED
        BY <3>1, <4>1, <4>2
    <3>3. bits[i] = AllBits(s)[i]
      BY <1>3, <2>3, <3>2
    <3>4. bytes[a + 1] = s[a + 1]
      BY <1>1, <2>3, <2>5
    <3>5. AllBits(s)[i] = s[a + 1][r + 1]
      BY <2>1, AllBitsAre
    <3>6. QED
      BY <2>1, <3>3, <3>4, <3>5
  <2>6. QED
    BY <2>4, <2>5
<1>5. AllBits(bytes) = bits
  BY <1>1, <1>2, <1>3, <1>4, SameBits
<1>6. QED
  BY <1>5 DEF bits, bytes

(* The sizes exist: the first ones can be listed up to any number, and two *)
(* such lists agree.                                                       *)
Listed(n, h) == h \in [0..n -> Nat] /\ h[0] = FirstSize /\ \A k \in 1..n : h[k] = 2 * h[k - 1]

(* There is a list of the first sizes, however long.                       *)
LEMMA ListExists == \A n \in Nat : \E h : Listed(n, h)
<1> DEFINE bad == {n \in Nat : ~ \E h : Listed(n, h)}
<1>1. FirstSize \in Nat
  BY StreamAssumption
<1>2. SUFFICES ASSUME bad # {} PROVE FALSE
  OBVIOUS
<1>3. PICK n \in bad : \A m \in bad : n <= m
  BY <1>2, SmallestExists
<1>4. n # 0
  <2>1. Listed(0, [k \in 0..0 |-> FirstSize])
    BY <1>1 DEF Listed
  <2>2. QED
    BY <2>1
<1>5. n - 1 \in Nat /\ n - 1 \notin bad
  BY <1>3, <1>4
<1>6. PICK h : Listed(n - 1, h)
  BY <1>5
<1>7. n \in Nat \ {0} /\ h \in [0..(n - 1) -> Nat] /\ h[0] = FirstSize
      /\ \A k \in 1..(n - 1) : h[k] = 2 * h[k - 1]
  BY <1>4, <1>6 DEF Listed
<1> DEFINE g == [k \in 0..n |-> IF k < n THEN h[k] ELSE 2 * h[n - 1]]
<1>8. g \in [0..n -> Nat] /\ g[0] = FirstSize
  BY <1>7
<1>9. ASSUME NEW k \in 1..n PROVE g[k] = 2 * g[k - 1]
  <2>1. CASE k = n
    BY <1>7, <2>1
  <2>2. CASE k \in 1..(n - 1)
    BY <1>7, <2>2
  <2>3. QED
    BY <1>7, <2>1, <2>2
<1> HIDE DEF g
<1>10. Listed(n, g)
  BY <1>8, <1>9 DEF Listed
<1>11. QED
  BY <1>3, <1>10

(* Two lists of sizes agree where both have one.                           *)
LEMMA ListsAgree ==
  ASSUME NEW n \in Nat, NEW m \in Nat, n <= m, NEW g, NEW h, Listed(n, g), Listed(m, h)
  PROVE  \A k \in 0..n : g[k] = h[k]
<1> DEFINE bad == {k \in 0..n : g[k] # h[k]}
<1>1. SUFFICES ASSUME bad # {} PROVE FALSE
  OBVIOUS
<1>2. bad \in SUBSET Nat
  OBVIOUS
<1>3. PICK k \in bad : \A j \in bad : k <= j
  BY <1>1, <1>2, SmallestExists
<1>4. k # 0
  BY DEF Listed
<1>5. k \in 1..n /\ k \in 1..m /\ k - 1 \in 0..n /\ k - 1 \notin bad
  BY <1>3, <1>4
<1>6. g[k - 1] = h[k - 1] /\ g[k] = 2 * g[k - 1] /\ h[k] = 2 * h[k - 1]
  BY <1>5 DEF Listed
<1>7. QED
  BY <1>6

(* The recursive function of the sizes is what its definition says.        *)
LEMMA DoubledIs ==
  /\ Doubled[0] = FirstSize /\ FirstSize \in Nat \ {0}
  /\ \A k \in Nat : Doubled[k] \in Nat
  /\ \A k \in Nat \ {0} : Doubled[k] = 2 * Doubled[k - 1]
<1> DEFINE d == [n \in Nat |-> (CHOOSE h : Listed(n, h))[n]]
<1>1. \A n \in Nat : Listed(n, CHOOSE h : Listed(n, h))
  BY ListExists
<1>2. FirstSize \in Nat \ {0}
  BY StreamAssumption
<1>3. d[0] = FirstSize /\ \A n \in Nat : d[n] \in Nat
  <2>1. ASSUME NEW n \in Nat PROVE d[n] \in Nat
    <3>1. PICK h : h = (CHOOSE f : Listed(n, f))
      OBVIOUS
    <3>2. Listed(n, h)
      BY <1>1, <3>1
    <3>3. h[n] \in Nat
      BY <3>2 DEF Listed
    <3>4. QED
      BY <3>1, <3>3
  <2>2. d[0] = FirstSize
    <3>1. PICK h : h = (CHOOSE f : Listed(0, f))
      OBVIOUS
    <3>2. Listed(0, h)
      BY <1>1, <3>1
    <3>3. QED
      BY <3>1, <3>2 DEF Listed
  <2>3. QED
    BY <2>1, <2>2
<1>4. ASSUME NEW n \in Nat \ {0} PROVE d[n] = 2 * d[n - 1]
  <2>1. PICK h : h = (CHOOSE f : Listed(n, f))
    OBVIOUS
  <2>2. PICK g : g = (CHOOSE f : Listed(n - 1, f))
    OBVIOUS
  <2>3. n - 1 \in Nat /\ n - 1 <= n /\ n - 1 \in 0..(n - 1) /\ n \in 1..n
    OBVIOUS
  <2>4. Listed(n, h) /\ Listed(n - 1, g)
    BY <1>1, <2>1, <2>2, <2>3
  <2>5. h[n] = 2 * h[n - 1]
    BY <2>3, <2>4 DEF Listed
  <2>6. g[n - 1] = h[n - 1]
    BY <2>3, <2>4, ListsAgree
  <2>7. d[n] = h[n] /\ d[n - 1] = g[n - 1]
    BY <2>1, <2>2, <2>3
  <2>8. QED
    BY <2>5, <2>6, <2>7
<1>5. d = [k \in Nat |-> IF k = 0 THEN FirstSize ELSE 2 * d[k - 1]]
  <2>2. d = [k \in Nat |-> d[k]]
    OBVIOUS
  <2> HIDE DEF d
  <2>1. \A k \in Nat : d[k] = IF k = 0 THEN FirstSize ELSE 2 * d[k - 1]
    <3> SUFFICES ASSUME NEW k \in Nat
                 PROVE  d[k] = IF k = 0 THEN FirstSize ELSE 2 * d[k - 1]
      OBVIOUS
    <3>1. CASE k = 0
      BY <1>3, <3>1
    <3>2. CASE k # 0
      BY <1>4, <3>2
    <3>3. QED
      BY <3>1, <3>2
  <2>3. [k \in Nat |-> d[k]] = [k \in Nat |-> IF k = 0 THEN FirstSize ELSE 2 * d[k - 1]]
    BY <2>1
  <2>4. QED
    BY <2>2, <2>3
<1> HIDE DEF d
<1>6. Doubled = [k \in Nat |-> IF k = 0 THEN FirstSize ELSE 2 * Doubled[k - 1]]
  BY <1>5 DEF Doubled
<1>7. Doubled[0] = FirstSize /\ \A k \in Nat \ {0} : Doubled[k] = 2 * Doubled[k - 1]
  BY <1>6
<1> DEFINE bad == {k \in Nat : Doubled[k] \notin Nat}
<1>8. ASSUME bad # {} PROVE FALSE
  <2>1. PICK k \in bad : \A j \in bad : k <= j
    BY <1>8, SmallestExists
  <2>2. k # 0
    BY <1>2, <1>7
  <2>3. k \in Nat \ {0} /\ k - 1 \in Nat /\ k - 1 \notin bad
    BY <2>1, <2>2
  <2>4. Doubled[k - 1] \in Nat /\ Doubled[k] = 2 * Doubled[k - 1]
    BY <1>7, <2>3
  <2>5. QED
    BY <2>4
<1>9. QED
  BY <1>2, <1>7, <1>8

(* append_data: doubling reaches a size that a block of any length fits.   *)
LEMMA RoomFits ==
  ASSUME NEW ns \in Nat
  PROVE  RoomFor(ns) \in Nat /\ ns <= RoomFor(ns)
<1> DEFINE small == {k \in Nat : Doubled[k] <= k}
           fit == {k \in Nat : ns <= Doubled[k]}
<1>1. ASSUME small # {} PROVE FALSE
  <2>1. PICK k \in small : \A j \in small : k <= j
    BY <1>1, SmallestExists
  <2>2. k # 0
    BY DoubledIs
  <2>3. k \in Nat \ {0} /\ k - 1 \in Nat /\ k - 1 \notin small
    BY <2>1, <2>2
  <2>4. Doubled[k - 1] \in Nat /\ Doubled[k - 1] > k - 1 /\ Doubled[k] = 2 * Doubled[k - 1]
    BY <2>3, DoubledIs
  <2>5. Doubled[k] > k
    BY <2>3, <2>4
  <2>6. Doubled[k] <= k /\ Doubled[k] \in Nat /\ k \in Nat
    BY DoubledIs
  <2>7. QED
    BY <2>5, <2>6
<1>2. Doubled[ns] \in Nat /\ ns <= Doubled[ns]
  BY <1>1, DoubledIs
<1>3. ns \in fit
  BY <1>2
<1>4. PICK k \in fit : \A j \in fit : k <= j
  BY <1>3, SmallestExists
<1>5. k \in 0..ns /\ k \in Nat /\ ns <= Doubled[k] /\ Doubled[k] \in Nat
  BY <1>3, <1>4, DoubledIs
<1>6. Doubled[k] = FirstSize \/ ns > Doubled[k] \div 2
  <2>1. CASE k = 0
    BY <2>1, DoubledIs
  <2>2. CASE k # 0
    <3>1. k \in Nat \ {0} /\ k - 1 \in Nat /\ k - 1 \notin fit
      BY <1>4, <1>5, <2>2
    <3>2. Doubled[k - 1] \in Nat /\ Doubled[k] = 2 * Doubled[k - 1]
      BY <3>1, DoubledIs
    <3>3. ns > Doubled[k - 1]
      BY <3>1, <3>2
    <3>4. Doubled[k] \div 2 = Doubled[k - 1]
      BY <3>2
    <3>5. QED
      BY <3>3, <3>4
  <2>3. QED
    BY <2>1, <2>2
<1>7. Doubled[k] \in {Doubled[j] : j \in 0..ns}
  BY <1>5
<1>8. /\ RoomFor(ns) \in {Doubled[j] : j \in 0..ns}
      /\ ns <= RoomFor(ns)
  BY <1>5, <1>6, <1>7 DEF RoomFor
<1>9. QED
  BY <1>8, DoubledIs

(* The bytes that an append call has still to write: those of its only     *)
(* block, or one of each.                                                  *)
BytesOf(blocks) == IF Len(blocks) = 1 THEN blocks[1]
                   ELSE [k \in 1..Len(blocks) |-> blocks[k][1]]
(* An append has one block to write, or blocks of one byte.                *)
OneByOne(blocks) ==
  /\ blocks \in Seq(Seq(ByteValue))
  /\ Len(blocks) = 1 \/ \A k \in 1..Len(blocks) : Len(blocks[k]) = 1

(* The invariant of the induction: unless a byte was lost, the bits        *)
(* written are those in the buffer and those still to write; the buffer    *)
(* has room for what it holds, and what was read last are the bits before  *)
(* the place of reading.                                                   *)
StreamInv ==
  /\ data \in Seq(ByteValue) /\ OneByOne(todo) /\ nMax \in Nat /\ nCurrent \in Nat
  /\ lost \in BOOLEAN
  /\ ~lost =>
       /\ written = AllBits(data \o BytesOf(todo))
       /\ Len(data) <= nMax /\ nCurrent <= ByteBits * Len(data)
       /\ \/ dwRet = <<>>
          \/ /\ dwRet \in Seq({0, 1}) /\ Len(dwRet) <= nCurrent
             /\ dwRet = SubSeq(written, nCurrent - Len(dwRet) + 1, nCurrent)

(* The bytes that are still to write, by the number of blocks.             *)
LEMMA BytesOfBlocks ==
  ASSUME NEW blocks, OneByOne(blocks)
  PROVE  /\ BytesOf(blocks) \in Seq(ByteValue)
         /\ blocks = <<>> => BytesOf(blocks) = <<>>
         /\ Len(blocks) # 1 => /\ Len(BytesOf(blocks)) = Len(blocks)
                               /\ \A k \in 1..Len(blocks) : BytesOf(blocks)[k] = blocks[k][1]
<1>1. blocks \in Seq(Seq(ByteValue)) /\ Len(blocks) \in Nat
  BY DEF OneByOne
<1>2. CASE Len(blocks) = 1
  <2>1. BytesOf(blocks) = blocks[1] /\ blocks # <<>>
    BY <1>2 DEF BytesOf
  <2>2. blocks[1] \in Seq(ByteValue)
    BY <1>1, <1>2
  <2>3. QED
    BY <1>2, <2>1, <2>2
<1>3. CASE Len(blocks) # 1
  <2>1. \A k \in 1..Len(blocks) : Len(blocks[k]) = 1 /\ blocks[k] \in Seq(ByteValue)
    BY <1>1, <1>3 DEF OneByOne
  <2>2. \A k \in 1..Len(blocks) : blocks[k][1] \in ByteValue
    BY <2>1
  <2>3. BytesOf(blocks) = [k \in 1..Len(blocks) |-> blocks[k][1]]
    BY <1>3 DEF BytesOf
  <2>4. BytesOf(blocks) \in [1..Len(blocks) -> ByteValue]
    BY <2>2, <2>3
  <2>5. BytesOf(blocks) \in Seq(ByteValue) /\ Len(BytesOf(blocks)) = Len(blocks)
    <3>1. PICK n \in Nat : n = Len(blocks)
      BY <1>1
    <3>2. PICK bytes \in [1..n -> ByteValue] : bytes = BytesOf(blocks)
      BY <2>4, <3>1
    <3>3. bytes \in Seq(ByteValue)
      BY <3>2, SeqDef
    <3>4. Len(bytes) = n
      BY <3>2, <3>3, LenProperties
    <3>5. QED
      BY <3>1, <3>2, <3>3, <3>4
  <2>6. blocks = <<>> => BytesOf(blocks) = <<>>
    BY <2>5
  <2>7. \A k \in 1..Len(blocks) : BytesOf(blocks)[k] = blocks[k][1]
    BY <2>3
  <2>8. QED
    BY <1>3, <2>5, <2>6, <2>7
<1>4. QED
  BY <1>2, <1>3

(* With no append under way, what was written is what data holds.          *)
LEMMA WrittenIsData ==
  ASSUME StreamInv, ~lost, todo = <<>>
  PROVE  /\ written = AllBits(data) /\ written \in Seq({0, 1})
         /\ Len(written) = ByteBits * Len(data) /\ ByteBits * Len(data) \in Nat
<1>1. BytesOf(todo) = <<>>
  BY BytesOfBlocks DEF StreamInv
<1>2. data \in Seq(ByteValue) /\ data \o <<>> = data
  BY ConcatEmptySeq DEF StreamInv
<1>3. written = AllBits(data)
  BY <1>1, <1>2 DEF StreamInv
<1>4. QED
  BY <1>2, <1>3, AllBitsAre

(* An append begins: its bits are all still to write.                      *)
LEMMA AppendsKeeps ==
  ASSUME StreamInv, NEW blocks, NEW bits, OneByOne(blocks), AllBits(BytesOf(blocks)) = bits,
         Appends(blocks, bits)
  PROVE  StreamInv'
<1>1. /\ todo = <<>> /\ todo' = blocks /\ written' = written \o bits
      /\ UNCHANGED <<data, nMax, lost, nCurrent, dwRet>>
  BY DEF Appends
<1>2. data \in Seq(ByteValue) /\ BytesOf(blocks) \in Seq(ByteValue)
  BY BytesOfBlocks DEF StreamInv
<1>3. CASE lost
  BY <1>1, <1>3 DEF StreamInv
<1>4. CASE ~lost
  <2>1. written' = AllBits(data \o BytesOf(blocks))
    BY <1>1, <1>2, <1>4, WrittenIsData, ConcatBits
  <2>2. /\ written \in Seq({0, 1}) /\ bits \in Seq({0, 1}) /\ Len(written) = ByteBits * Len(data)
        /\ Len(written) \in Nat
    BY <1>1, <1>2, <1>4, WrittenIsData, AllBitsAre
  <2>3. ASSUME dwRet # <<>>
        PROVE  dwRet' = SubSeq(written', nCurrent' - Len(dwRet') + 1, nCurrent')
    <3>1. /\ dwRet \in Seq({0, 1}) /\ Len(dwRet) <= nCurrent /\ nCurrent \in Nat
          /\ nCurrent <= Len(written)
          /\ dwRet = SubSeq(written, nCurrent - Len(dwRet) + 1, nCurrent)
      BY <1>4, <2>2, <2>3 DEF StreamInv
    <3>2. SubSeq(written \o bits, nCurrent - Len(dwRet) + 1, nCurrent)
            = SubSeq(written, nCurrent - Len(dwRet) + 1, nCurrent)
      BY <2>2, <3>1
    <3>3. QED
      BY <1>1, <3>1, <3>2
  <2>4. QED
    BY <1>1, <1>4, <2>1, <2>3 DEF StreamInv
<1>5. QED
  BY <1>3, <1>4

(* append_be of a number.                                                  *)
LEMMA AppendBeKeeps ==
  ASSUME StreamInv, NEW width \in Widths, NEW val \in Bits(ByteBits * width), AppendBe(val, width)
  PROVE  StreamInv'
<1> DEFINE be == BigEndian(val, width)
           blocks == [i \in 1..width |-> <<be[i]>>]
<1>1. width \in Nat \ {0}
  BY StreamAssumption
<1>2. be \in Seq(ByteValue) /\ Len(be) = width /\ AllBits(be) = val
  BY <1>1, BigEndianBits
<1>3. Appends(blocks, val)
  BY DEF AppendBe
<1> HIDE DEF be
<1>4. \A i \in 1..width : <<be[i]>> \in Seq(ByteValue) /\ Len(<<be[i]>>) = 1 /\ <<be[i]>>[1] = be[i]
  BY <1>2
<1>5. blocks \in Seq(Seq(ByteValue)) /\ Len(blocks) = width
      /\ \A i \in 1..width : blocks[i] = <<be[i]>>
  BY <1>1, <1>4
<1> HIDE DEF blocks
<1>6. OneByOne(blocks)
  BY <1>4, <1>5 DEF OneByOne
<1>7. BytesOf(blocks) = be
  <2>1. CASE width = 1
    <3>1. BytesOf(blocks) = <<be[1]>>
      BY <1>5, <2>1 DEF BytesOf
    <3>2. QED
      BY <1>2, <2>1, <3>1
  <2>2. CASE width # 1
    <3>1. /\ BytesOf(blocks) \in Seq(ByteValue) /\ Len(BytesOf(blocks)) = width
          /\ \A k \in 1..width : BytesOf(blocks)[k] = blocks[k][1]
      BY <1>5, <1>6, <2>2, BytesOfBlocks
    <3>2. \A k \in 1..width : BytesOf(blocks)[k] = be[k]
      BY <1>4, <1>5, <3>1
    <3>3. QED
      BY <1>2, <3>1, <3>2, SeqEqual
  <2>3. QED
    BY <2>1, <2>2
<1>8. QED
  BY <1>2, <1>3, <1>6, <1>7, AppendsKeeps

(* append_data of a block of bytes.                                        *)
LEMMA AppendDataKeeps ==
  ASSUME StreamInv, NEW bytes \in [1..2 -> ByteValue], AppendData(bytes)
  PROVE  StreamInv'
<1>1. bytes \in Seq(ByteValue)
  <2>1. PICK n \in Nat : n = 2
    OBVIOUS
  <2>2. bytes \in [1..n -> ByteValue]
    BY <2>1
  <2>3. QED
    BY <2>2
<1>2. OneByOne(<<bytes>>) /\ BytesOf(<<bytes>>) = bytes
  BY <1>1 DEF OneByOne, BytesOf
<1>3. QED
  BY <1>2, AppendsKeeps DEF AppendData

(* One block is written, into a larger buffer where it needs one; or the   *)
(* larger buffer cannot be had, and the block is lost.                     *)
LEMMA AppendBlockKeeps ==
  ASSUME StreamInv, NEW fails \in BOOLEAN, AppendBlock(fails)
  PROVE  StreamInv'
<1>1. PICK first : first = Head(todo)
  OBVIOUS
<1>2. PICK rest : rest = Tail(todo)
  OBVIOUS
<1>3. /\ todo # <<>> /\ todo \in Seq(Seq(ByteValue)) /\ data \in Seq(ByteValue)
      /\ Len(todo) \in Nat \ {0} /\ nMax \in Nat /\ nCurrent \in Nat
  BY DEF StreamInv, OneByOne, AppendBlock
<1>4. /\ first \in Seq(ByteValue) /\ rest \in Seq(Seq(ByteValue)) /\ Len(rest) = Len(todo) - 1
      /\ first = todo[1] /\ \A k \in 1..(Len(todo) - 1) : rest[k] = todo[k + 1]
  BY <1>1, <1>2, <1>3
<1>5. Len(data) + Len(first) \in Nat /\ Len(data) \in Nat /\ Len(first) \in Nat
  BY <1>3, <1>4
<1>6. /\ todo' = rest /\ UNCHANGED <<written, nCurrent, dwRet>>
      /\ \/ lost' = TRUE /\ UNCHANGED <<data, nMax>>
         \/ /\ data' = data \o first /\ lost' = lost
            /\ nMax' = IF Len(data) + Len(first) > nMax THEN RoomFor(Len(data) + Len(first)) ELSE nMax
  BY <1>1, <1>2 DEF AppendBlock
<1>7. OneByOne(rest)
  <2>1. CASE Len(todo) = 1
    BY <1>4, <2>1 DEF OneByOne
  <2>2. CASE Len(todo) # 1
    <3>1. \A k \in 1..Len(todo) : Len(todo[k]) = 1
      BY <2>2 DEF StreamInv, OneByOne
    <3>2. \A k \in 1..Len(rest) : Len(rest[k]) = 1
      <4> SUFFICES ASSUME NEW k \in 1..Len(rest) PROVE Len(rest[k]) = 1
        OBVIOUS
      <4>1. k + 1 \in 1..Len(todo) /\ rest[k] = todo[k + 1]
        BY <1>3, <1>4
      <4>2. QED
        BY <3>1, <4>1
    <3>3. QED
      BY <1>4, <3>2 DEF OneByOne
  <2>3. QED
    BY <2>1, <2>2
<1>8. CASE lost' = TRUE /\ UNCHANGED <<data, nMax>>
  BY <1>6, <1>7, <1>8 DEF StreamInv
<1>9. CASE /\ data' = data \o first /\ lost' = lost
           /\ nMax' = IF Len(data) + Len(first) > nMax THEN RoomFor(Len(data) + Len(first)) ELSE nMax
  <2>1. /\ data' \in Seq(ByteValue) /\ Len(data') = Len(data) + Len(first)
    BY <1>3, <1>4, <1>9, ConcatProperties
  <2>2. nMax' \in Nat /\ Len(data') <= nMax'
    <3>1. PICK ns \in Nat : ns = Len(data) + Len(first)
      BY <1>5
    <3>2. RoomFor(ns) \in Nat /\ ns <= RoomFor(ns)
      BY RoomFits
    <3>3. nMax' = IF ns > nMax THEN RoomFor(ns) ELSE nMax
      BY <1>9, <3>1
    <3>4. QED
      BY <1>3, <2>1, <3>1, <3>2, <3>3
  <2>3. data' \o BytesOf(rest) = data \o BytesOf(todo)
    <3>1. BytesOf(todo) = first \o BytesOf(rest) /\ BytesOf(rest) \in Seq(ByteValue)
      <4>1. BytesOf(rest) \in Seq(ByteValue)
        BY <1>7, BytesOfBlocks
      <4>2. CASE Len(todo) = 1
        <5>1. BytesOf(todo) = first /\ rest = <<>>
          BY <1>4, <4>2 DEF BytesOf
        <5>2. BytesOf(rest) = <<>>
          BY <1>7, <5>1, BytesOfBlocks
        <5>3. QED
          BY <1>4, <4>1, <5>1, <5>2, ConcatEmptySeq
      <4>3. CASE Len(todo) # 1
        <5>1. /\ BytesOf(todo) \in Seq(ByteValue) /\ Len(BytesOf(todo)) = Len(todo)
              /\ \A k \in 1..Len(todo) : BytesOf(todo)[k] = todo[k][1]
          BY <4>3, BytesOfBlocks DEF StreamInv
        <5>2. Len(BytesOf(rest)) = Len(rest) /\ \A k \in 1..Len(rest) : BytesOf(rest)[k] = rest[k][1]
          <6>1. CASE Len(rest) = 1
            <7>1. BytesOf(rest) = rest[1]
              BY <6>1 DEF BytesOf
            <7>2. rest[1] = todo[2] /\ 2 \in 1..Len(todo)
              BY <1>3, <1>4, <6>1
            <7>3. Len(rest[1]) = 1
              BY <4>3, <7>2 DEF StreamInv, OneByOne
            <7>4. \A k \in 1..1 : k = 1
              OBVIOUS
            <7>5. QED
              BY <6>1, <7>1, <7>3, <7>4
          <6>2. CASE Len(rest) # 1
            BY <1>7, <6>2, BytesOfBlocks
          <6>3. QED
            BY <6>1, <6>2
        <5>3. Len(first) = 1
          BY <1>3, <1>4, <4>3 DEF StreamInv, OneByOne
        <5>4. /\ first \o BytesOf(rest) \in Seq(ByteValue) /\ Len(first \o BytesOf(rest)) = Len(todo)
              /\ \A k \in 1..Len(todo) : (first \o BytesOf(rest))[k] =
                   IF k <= 1 THEN first[k] ELSE BytesOf(rest)[k - 1]
          <6>1. /\ first \o BytesOf(rest) \in Seq(ByteValue)
                /\ Len(first \o BytesOf(rest)) = Len(first) + Len(BytesOf(rest))
                /\ \A k \in 1..(Len(first) + Len(BytesOf(rest))) : (first \o BytesOf(rest))[k] =
                     IF k <= Len(first) THEN first[k] ELSE BytesOf(rest)[k - Len(first)]
            BY <1>4, <4>1, ConcatProperties
          <6>2. Len(first) = 1 /\ Len(first) + Len(BytesOf(rest)) = Len(todo)
            BY <1>3, <1>4, <5>2, <5>3
          <6>3. QED
            BY <6>1, <6>2
        <5>5. ASSUME NEW k \in 1..Len(todo) PROVE BytesOf(todo)[k] = (first \o BytesOf(rest))[k]
          <6>1. CASE k = 1
            <7>1. BytesOf(todo)[1] = todo[1][1] /\ (first \o BytesOf(rest))[1] = first[1]
              BY <5>1, <5>4, <6>1
            <7>2. QED
              BY <1>4, <6>1, <7>1
          <6>2. CASE k # 1
            <7>1. k - 1 \in 1..(Len(todo) - 1) /\ k - 1 + 1 = k /\ ~(k <= 1)
              BY <1>3, <6>2
            <7>2. /\ BytesOf(todo)[k] = todo[k][1]
                  /\ (first \o BytesOf(rest))[k] = BytesOf(rest)[k - 1]
              BY <5>1, <5>4, <7>1
            <7>3. BytesOf(rest)[k - 1] = rest[k - 1][1] /\ rest[k - 1] = todo[k]
              BY <1>4, <5>2, <7>1
            <7>4. QED
              BY <7>2, <7>3
          <6>3. QED
            BY <6>1, <6>2
        <5>6. QED
          BY <4>1, <5>1, <5>4, <5>5, SeqEqual
      <4>4. QED
        BY <4>1, <4>2, <4>3
    <3>2. (data \o first) \o BytesOf(rest) = data \o (first \o BytesOf(rest))
      <4>1. PICK u : u = BytesOf(rest)
        OBVIOUS
      <4>2. u \in Seq(ByteValue) /\ first \in Seq(ByteValue) /\ data \in Seq(ByteValue)
        BY <1>3, <1>4, <3>1, <4>1
      <4>3. (data \o first) \o u = data \o (first \o u)
        BY <4>2, ConcatAssociative
      <4>4. QED
        BY <4>1, <4>3
    <3>3. QED
      BY <1>9, <3>1, <3>2
  <2>4. ~lost => nCurrent <= ByteBits * Len(data')
    <3>1. ByteBits * Len(data') = ByteBits * Len(data) + ByteBits * Len(first)
      BY <1>5, <2>1, ByteBitsNat
    <3>2. ByteBits * Len(data) \in Nat /\ ByteBits * Len(first) \in Nat
      BY <1>5, ByteBitsNat
    <3>3. QED
      BY <1>3, <3>1, <3>2 DEF StreamInv
  <2>5. QED
    BY <1>6, <1>7, <1>9, <2>1, <2>2, <2>3, <2>4 DEF StreamInv
<1>10. QED
  BY <1>6, <1>8, <1>9

(* A part of a sequence, element by element.                               *)
LEMMA SliceIs ==
  ASSUME NEW S, NEW s \in Seq(S), NEW m \in Nat, NEW n \in Nat, m + n <= Len(s)
  PROVE  /\ SubSeq(s, m + 1, m + n) \in Seq(S) /\ Len(SubSeq(s, m + 1, m + n)) = n
         /\ \A i \in 1..n : SubSeq(s, m + 1, m + n)[i] = s[m + i]
<1>1. m + 1 \in Int /\ m + n \in Int /\ m + n - (m + 1) + 1 = n
  OBVIOUS
<1>2. \A i \in (m + 1)..(m + n) : s[i] \in S
  BY ElementOfSeq, LenProperties
<1>3. /\ SubSeq(s, m + 1, m + n) \in Seq(S)
      /\ Len(SubSeq(s, m + 1, m + n)) = IF m + 1 <= m + n THEN n ELSE 0
      /\ \A i \in 1..n : SubSeq(s, m + 1, m + n)[i] = s[m + 1 + i - 1]
  BY <1>1, <1>2, SubSeqProperties
<1>4. (IF m + 1 <= m + n THEN n ELSE 0) = n /\ \A i \in 1..n : m + 1 + i - 1 = m + i
  OBVIOUS
<1>5. QED
  BY <1>3, <1>4

(* rewrite_be of a number over bytes that are there.                       *)
LEMMA RewriteBeKeeps ==
  ASSUME StreamInv, NEW width \in Widths, NEW val \in Bits(ByteBits * width),
         NEW start \in 0..MaxBytes, RewriteBe(start, val, width)
  PROVE  StreamInv'
<1> DEFINE be == BigEndian(val, width)
<1>1. width \in Nat \ {0} /\ start \in Nat
  BY StreamAssumption
<1>2. be \in Seq(ByteValue) /\ Len(be) = width /\ AllBits(be) = val
  BY <1>1, BigEndianBits
<1>3. /\ todo = <<>> /\ start + width <= Len(data) /\ data' = Over(data, start, be)
      /\ written' = Over(written, ByteBits * start, val)
      /\ dwRet' = <<>> /\ UNCHANGED <<nMax, todo, lost, nCurrent>>
  BY DEF RewriteBe
<1> HIDE DEF be
<1>4. data \in Seq(ByteValue) /\ data' \in Seq(ByteValue) /\ Len(data') = Len(data)
  BY <1>1, <1>2, <1>3, OverIs DEF StreamInv
<1>5. CASE lost
  BY <1>3, <1>4, <1>5 DEF StreamInv
<1>6. CASE ~lost
  <2>1. written' = AllBits(data')
    BY <1>1, <1>2, <1>3, <1>4, <1>6, WrittenIsData, OverBits
  <2>2. BytesOf(todo') = <<>>
    BY <1>3, BytesOfBlocks DEF StreamInv
  <2>3. data' \o <<>> = data'
    BY <1>4, ConcatEmptySeq
  <2>4. QED
    BY <1>3, <1>4, <1>6, <2>1, <2>2, <2>3 DEF StreamInv
<1>7. QED
  BY <1>5, <1>6

(* read_bits: the bits one by one.                                         *)
LEMMA ReadBitsKeeps ==
  ASSUME StreamInv, NEW bitCount \in 1..(ByteBits + 1), ReadBits(bitCount)
  PROVE  StreamInv'
<1>1. /\ todo = <<>> /\ nCurrent + bitCount <= ByteBits * Len(data)
      /\ dwRet' = [i \in 1..bitCount |-> Masked(nCurrent + i - 1)]
      /\ nCurrent' = nCurrent + bitCount
      /\ UNCHANGED <<data, nMax, todo, written, lost>>
  BY DEF ReadBits
<1>2. bitCount \in Nat /\ bitCount > 0 /\ nCurrent \in Nat /\ nCurrent' \in Nat /\ data \in Seq(ByteValue)
  BY <1>1, ByteBitsNat DEF StreamInv
<1>3. CASE lost
  BY <1>1, <1>2, <1>3 DEF StreamInv
<1>4. CASE ~lost
  <2>1. /\ written = AllBits(data) /\ written \in Seq({0, 1}) /\ Len(written) = ByteBits * Len(data)
        /\ ByteBits * Len(data) \in Nat
    BY <1>1, <1>4, WrittenIsData
  <2>2. PICK w \in Nat : w = ByteBits * Len(data)
    BY <2>1
  <2>3. \A i \in 1..bitCount : nCurrent + i \in 1..w /\ nCurrent + i - 1 = (nCurrent + i) - 1
    BY <1>1, <1>2, <2>2
  <2>4. \A i \in 1..bitCount : Masked(nCurrent + i - 1) = written[nCurrent + i]
    <3> SUFFICES ASSUME NEW i \in 1..bitCount PROVE Masked(nCurrent + i - 1) = written[nCurrent + i]
      OBVIOUS
    <3>1. PICK n : n = nCurrent + i
      OBVIOUS
    <3>2. n \in 1..(ByteBits * Len(data)) /\ nCurrent + i - 1 = n - 1
      BY <2>2, <2>3, <3>1
    <3>3. AllBits(data)[n] = data[((n - 1) \div ByteBits) + 1][((n - 1) % ByteBits) + 1]
      BY <3>2 DEF AllBits
    <3>4. Masked(n - 1) = data[((n - 1) \div ByteBits) + 1][((n - 1) % ByteBits) + 1]
      BY DEF Masked
    <3>5. QED
      BY <2>1, <3>1, <3>2, <3>3, <3>4
  <2>5. dwRet' \in Seq({0, 1}) /\ Len(dwRet') = bitCount
    <3>1. \A i \in 1..bitCount : Masked(nCurrent + i - 1) \in {0, 1}
      <4>1. \A j \in 1..w : written[j] \in {0, 1}
        BY <2>1, <2>2
      <4>2. QED
        BY <2>3, <2>4, <4>1
    <3>2. dwRet' \in [1..bitCount -> {0, 1}]
      BY <1>1, <3>1
    <3>3. QED
      BY <1>2, <3>2
  <2>6. SubSeq(written, nCurrent + 1, nCurrent + bitCount) = dwRet'
    <3> DEFINE part == SubSeq(written, nCurrent + 1, nCurrent + bitCount)
    <3>1. /\ part \in Seq({0, 1}) /\ Len(part) = bitCount
          /\ \A i \in 1..bitCount : part[i] = written[nCurrent + i]
      <4>1. nCurrent + bitCount <= Len(written)
        BY <1>1, <2>1
      <4>2. written \in Seq({0, 1}) /\ nCurrent \in Nat /\ bitCount \in Nat
        BY <1>1, <1>2, <2>1
      <4>3. QED
        BY <4>1, <4>2, SliceIs
    <3>2. \A i \in 1..bitCount : part[i] = dwRet'[i]
      BY <1>1, <2>4, <3>1
    <3> HIDE DEF part
    <3>3. part = dwRet'
      BY <2>5, <3>1, <3>2, SeqEqual
    <3>4. QED
      BY <3>3 DEF part
  <2>7. nCurrent' - Len(dwRet') + 1 = nCurrent + 1 /\ Len(dwRet') <= nCurrent'
    BY <1>1, <1>2, <2>5
  <2>8. QED
    BY <1>1, <1>2, <1>4, <2>1, <2>5, <2>6, <2>7 DEF StreamInv
<1>5. QED
  BY <1>3, <1>4

(* The bits of a part of a sequence are a part of its bits.                *)
LEMMA SubBits ==
  ASSUME NEW bytes \in Seq(ByteValue), NEW c \in Nat, NEW len \in Nat, c + len <= Len(bytes)
  PROVE  AllBits(SubSeq(bytes, c + 1, c + len))
           = SubSeq(AllBits(bytes), ByteBits * c + 1, ByteBits * c + ByteBits * len)
<1> DEFINE part == SubSeq(bytes, c + 1, c + len)
           bits == SubSeq(AllBits(bytes), ByteBits * c + 1, ByteBits * c + ByteBits * len)
<1>1. /\ part \in Seq(ByteValue) /\ Len(part) = len /\ Len(bytes) \in Nat
      /\ \A i \in 1..len : part[i] = bytes[c + i]
  OBVIOUS
<1>2. PICK m \in Nat, n \in Nat, w \in Nat :
        /\ m = ByteBits * c /\ n = ByteBits * len /\ w = ByteBits * Len(bytes) /\ m + n <= w
        /\ m = c * ByteBits /\ n = len * ByteBits
  <2>1. PICK e \in Nat : Len(bytes) = c + len + e
    <3>1. PICK k \in Nat : k = Len(bytes) /\ c + len <= k
      BY <1>1
    <3>2. k - (c + len) \in Nat /\ k = c + len + (k - (c + len))
      BY <3>1
    <3>3. QED
      BY <3>1, <3>2
  <2>2. PICK m \in Nat, n \in Nat, f \in Nat :
          /\ m = ByteBits * c /\ n = ByteBits * len /\ f = ByteBits * e
          /\ m = c * ByteBits /\ n = len * ByteBits
    BY ByteBitsNat
  <2>3. ByteBits * Len(bytes) = m + n + f
    BY <1>1, <2>1, <2>2, ByteBitsNat
  <2>4. m + n + f \in Nat /\ m + n <= m + n + f
    OBVIOUS
  <2>5. QED
    BY <2>2, <2>3, <2>4
<1>3. /\ bits \in Seq({0, 1}) /\ Len(bits) = n
      /\ \A i \in 1..n : bits[i] = AllBits(bytes)[m + i]
  <2>1. PICK u \in Seq({0, 1}) : u = AllBits(bytes) /\ Len(u) = w
    BY <1>2, AllBitsAre
  <2>2. /\ SubSeq(u, m + 1, m + n) \in Seq({0, 1}) /\ Len(SubSeq(u, m + 1, m + n)) = n
        /\ \A i \in 1..n : SubSeq(u, m + 1, m + n)[i] = u[m + i]
    <3>1. m + n \in Nat /\ m + n <= Len(u)
      BY <1>2, <2>1
    <3>2. QED
      BY <3>1, SliceIs
  <2>3. bits = SubSeq(u, m + 1, m + n)
    BY <1>2, <2>1
  <2> HIDE DEF bits
  <2>4. QED
    BY <2>1, <2>2, <2>3
<1> HIDE DEF part, bits
<1>4. ASSUME NEW a \in 0..(len - 1), NEW r \in 0..(ByteBits - 1)
      PROVE  bits[a * ByteBits + r + 1] = part[a + 1][r + 1]
  <2>1. PICK i : i = a * ByteBits + r + 1
    OBVIOUS
  <2>2. PICK d \in Nat : d = a * ByteBits
    BY ByteBitsNat
  <2>3. i \in 1..(ByteBits * len)
    BY <2>1, PlaceInside
  <2>4. i \in 1..n /\ i = d + r + 1 /\ r \in Nat
    BY <1>2, <2>1, <2>2, <2>3, ByteBitsNat
  <2>5. PICK b \in 0..(Len(bytes) - 1) : b = c + a
    BY <1>1
  <2>6. b * ByteBits = m + d
    BY <1>2, <2>2, <2>5, ByteBitsNat
  <2>7. m + i = (m + d) + r + 1
    BY <2>4
  <2>8. AllBits(bytes)[b * ByteBits + r + 1] = bytes[b + 1][r + 1]
    BY AllBitsAre
  <2>9. bits[i] = bytes[b + 1][r + 1]
    BY <1>3, <2>4, <2>6, <2>7, <2>8
  <2>10. a + 1 \in 1..len /\ c + (a + 1) = b + 1
    BY <2>5
  <2>11. part[a + 1] = bytes[b + 1]
    BY <1>1, <2>10
  <2>12. QED
    BY <2>1, <2>9, <2>11
<1>5. AllBits(part) = bits
  BY <1>1, <1>2, <1>3, <1>4, SameBits
<1>6. QED
  BY <1>5 DEF part, bits

(* read_buff: whole bytes, from a byte boundary.                           *)
LEMMA ReadBuffKeeps ==
  ASSUME StreamInv, NEW len \in Nat, ReadBuff(len)
  PROVE  StreamInv'
<1>1. PICK c : c = nCurrent \div ByteBits
  OBVIOUS
<1>2. /\ todo = <<>> /\ nCurrent + len * ByteBits <= ByteBits * Len(data)
      /\ dwRet' = AllBits(SubSeq(data, c + 1, c + len))
      /\ nCurrent' = nCurrent + len * ByteBits /\ nCurrent % ByteBits = 0
      /\ UNCHANGED <<data, nMax, todo, written, lost>>
  BY <1>1 DEF ReadBuff
<1>3. nCurrent \in Nat /\ data \in Seq(ByteValue) /\ Len(data) \in Nat
  BY DEF StreamInv
<1>4. c \in Nat /\ nCurrent = c * ByteBits
  BY <1>1, <1>2, <1>3, ByteBitsNat
<1>5. PICK n \in Nat : n = len * ByteBits /\ n = ByteBits * len
  BY ByteBitsNat
<1>6. nCurrent' = nCurrent + n /\ nCurrent' \in Nat
  BY <1>2, <1>3, <1>5
<1>7. CASE lost
  BY <1>2, <1>6, <1>7 DEF StreamInv
<1>8. CASE ~lost
  <2>1. /\ written = AllBits(data) /\ written \in Seq({0, 1}) /\ Len(written) = ByteBits * Len(data)
        /\ ByteBits * Len(data) \in Nat
    BY <1>2, <1>8, WrittenIsData
  <2>2. c + len <= Len(data)
    <3>1. CASE Len(data) < c + len
      <4>1. Len(data) * ByteBits + ByteBits <= (c + len) * ByteBits
        BY <1>3, <1>4, <3>1, ByteOrder
      <4>2. (c + len) * ByteBits = nCurrent + n
        BY <1>4, <1>5, ByteBitsNat
      <4>3. Len(data) * ByteBits = ByteBits * Len(data)
        BY <1>3, ByteBitsNat
      <4>4. QED
        BY <1>2, <1>3, <1>5, <2>1, <4>1, <4>2, <4>3, ByteBitsNat
    <3>2. QED
      BY <1>3, <1>4, <3>1
  <2>3. dwRet' = SubSeq(written, nCurrent + 1, nCurrent + n)
    <3>1. nCurrent = ByteBits * c
      BY <1>4, ByteBitsNat
    <3>2. QED
      <4>1. AllBits(SubSeq(data, c + 1, c + len))
              = SubSeq(AllBits(data), ByteBits * c + 1, ByteBits * c + ByteBits * len)
        BY <1>3, <1>4, <2>2, SubBits
      <4>2. QED
        BY <1>2, <1>5, <2>1, <3>1, <4>1
  <2>4. nCurrent + n <= Len(written)
    BY <1>2, <1>5, <2>1
  <2>5. dwRet' \in Seq({0, 1}) /\ Len(dwRet') = n
    BY <1>3, <2>1, <2>3, <2>4
  <2>6. nCurrent' - Len(dwRet') + 1 = nCurrent + 1 /\ Len(dwRet') <= nCurrent'
        /\ nCurrent' <= ByteBits * Len(data)
    BY <1>3, <1>6, <2>1, <2>4, <2>5
  <2>7. QED
    BY <1>2, <1>6, <1>8, <2>3, <2>5, <2>6 DEF StreamInv
<1>9. QED
  BY <1>7, <1>8

(* clear: nothing is left to read.                                         *)
LEMMA ClearKeeps ==
  ASSUME StreamInv, Clear
  PROVE  StreamInv'
<1>1. /\ todo = <<>> /\ data' = <<>> /\ written' = <<>> /\ lost' = FALSE
      /\ nCurrent' = 0 /\ dwRet' = <<>> /\ todo' = todo /\ nMax' = nMax
  BY DEF Clear
<1>2. OneByOne(todo) /\ nMax \in Nat
  BY DEF StreamInv
<1>3. BytesOf(<<>>) = <<>>
  BY <1>1, <1>2, BytesOfBlocks
<1>4. PICK e : e = <<>> /\ e \in Seq(ByteValue)
  <2>1. <<>> \in Seq(ByteValue)
    OBVIOUS
  <2>2. QED
    BY <2>1, Zenon
<1>5. AllBits(e) = <<>> /\ e \o <<>> = e
  <2>1. AllBits(e) \in Seq({0, 1}) /\ Len(AllBits(e)) = ByteBits * Len(e)
    BY <1>4, AllBitsAre
  <2>2. ByteBits * Len(e) = 0
    BY <1>4, ByteBitsNat
  <2>3. QED
    BY <2>1, <2>2, ConcatEmptySeq
<1>6. written' = AllBits(data' \o BytesOf(todo'))
  BY <1>1, <1>3, <1>4, <1>5
<1>7. Len(data') <= nMax' /\ nCurrent' <= ByteBits * Len(data') /\ nCurrent' \in Nat
      /\ data' \in Seq(ByteValue)
  BY <1>1, <1>2, ByteBitsNat
<1>8. QED
  BY <1>1, <1>2, <1>6, <1>7 DEF StreamInv

(* The invariant of the stream is inductive.                               *)
LEMMA StreamStep == StreamInv /\ [StreamNext]_streamVars => StreamInv'
<1> SUFFICES ASSUME StreamInv, [StreamNext]_streamVars PROVE StreamInv'
  OBVIOUS
<1>1. CASE UNCHANGED streamVars
  BY <1>1 DEF StreamInv, streamVars
<1>2. CASE StreamNext
  BY <1>2, AppendBeKeeps, AppendDataKeeps, AppendBlockKeeps, RewriteBeKeeps, ReadBitsKeeps,
     ReadBuffKeeps, ClearKeeps DEF StreamNext
<1>3. QED
  BY <1>1, <1>2

(* Binary streams: unless memory ran out, the parser reads the bits that   *)
(* were written, for bytes of any size and numbers of any width, whatever  *)
(* the buffer has grown to and whatever was rewritten in place.            *)
THEOREM StreamReadsBack == StreamSpec => []ReadsBack
<1>1. StreamInit => StreamInv
  <2> SUFFICES ASSUME StreamInit PROVE StreamInv
    OBVIOUS
  <2>1. data = <<>> /\ nMax = 0 /\ todo = <<>> /\ written = <<>> /\ lost = FALSE /\ nCurrent = 0
        /\ dwRet = <<>>
    BY DEF StreamInit
  <2>2. OneByOne(<<>>)
    BY DEF OneByOne
  <2>3. BytesOf(<<>>) = <<>>
    BY <2>2, BytesOfBlocks
  <2>4. PICK e : e = <<>> /\ e \in Seq(ByteValue)
    <3>1. <<>> \in Seq(ByteValue)
      OBVIOUS
    <3>2. QED
      BY <3>1, Zenon
  <2>5. AllBits(e) = <<>> /\ e \o <<>> = e
    <3>1. AllBits(e) \in Seq({0, 1}) /\ Len(AllBits(e)) = ByteBits * Len(e)
      BY <2>4, AllBitsAre
    <3>2. ByteBits * Len(e) = 0
      BY <2>4, ByteBitsNat
    <3>3. QED
      BY <3>1, <3>2, ConcatEmptySeq
  <2>6. written = AllBits(data \o BytesOf(todo))
    BY <2>1, <2>3, <2>4, <2>5
  <2>7. Len(data) <= nMax /\ nCurrent <= ByteBits * Len(data) /\ nCurrent \in Nat /\ nMax \in Nat
        /\ data \in Seq(ByteValue)
    BY <2>1, ByteBitsNat
  <2>8. QED
    BY <2>1, <2>2, <2>6, <2>7 DEF StreamInv
<1>2. StreamInv => ReadsBack
  BY WrittenIsData DEF StreamInv, ReadsBack
<1>3. QED
  BY <1>1, <1>2, StreamStep, PTL DEF StreamSpec

=============================================================================
