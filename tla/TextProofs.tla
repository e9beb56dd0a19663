------------------------------ MODULE TextProofs ----------------------------
(***************************************************************************)
(* The functions of StringHandle.cpp that Text models take every text      *)
(* apart as they should, for every alphabet.  Each loop is given by the    *)
(* states it goes through, and an invariant of those states says what its  *)
(* result is.                                                              *)
(***************************************************************************)
EXTENDS Text, SequenceTheorems, FiniteSetTheorems, WellFoundedInduction, TLAPS

-----------------------------------------------------------------------------
(* Loops, and induction over what they have passed.                        *)

(* A set of numbers has a smallest one.                                    *)
LEMMA SmallestExists ==
  ASSUME NEW S \in SUBSET Nat, S # {}
  PROVE  \E x \in S : \A y \in S : x <= y
<1> DEFINE R == OpToRel(<, Nat)
<1>1. ASSUME NEW a \in Nat, NEW b \in Nat, ~(<<a, b>> \in R) PROVE b <= a
  <2>1. <<a, b>> \in Nat \X Nat
    OBVIOUS
  <2>2. ~(<<a, b>>[1] < <<a, b>>[2])
    BY <1>1, <2>1, Zenon DEF OpToRel
  <2>3. QED
    BY <2>2
<1>2. IsWellFoundedOn(R, Nat)
  BY NatLessThanWellFounded
<1>3. PICK x \in S : \A y \in S : ~(<<y, x>> \in R)
  BY <1>2, WFMin, Zenon
<1> HIDE DEF R
<1>4. QED
  BY <1>1, <1>3

(* What a loop has made of start after each i: the states it goes through. *)
Passes(f, step, start, n) ==
  f[0] = start /\ \A i \in 1..n : f[i] = step[i][f[i - 1]]

(* A loop goes through some states.                                        *)
LEMMA PassesExist ==
  ASSUME NEW n \in Nat, NEW S, NEW start \in S, NEW step \in [1..n -> [S -> S]]
  PROVE  \E f \in [0..n -> S] : Passes(f, step, start, n)
<1> DEFINE Exist(m) == \E f \in [0..m -> S] : Passes(f, step, start, m)
           bad == {m \in 0..n : ~Exist(m)}
<1>1. bad \in SUBSET Nat /\ (bad = {} => Exist(n))
  OBVIOUS
<1>2. SUFFICES ASSUME bad # {} PROVE FALSE
  BY <1>1
<1>3. PICK m \in bad : \A k \in bad : m <= k
  <2> HIDE DEF bad
  <2>1. QED
    BY <1>1, <1>2, SmallestExists
<1>4. m # 0
  <2> DEFINE f == [i \in 0..0 |-> start]
  <2>1. f \in [0..0 -> S] /\ f[0] = start
    OBVIOUS
  <2> HIDE DEF f
  <2>2. Exist(0)
    BY <2>1 DEF Passes
  <2>3. QED
    BY <2>2
<1>5. m \in 1..n /\ m \in Nat /\ m - 1 \in 0..n /\ m - 1 \notin bad
  BY <1>3, <1>4
<1>6. PICK f \in [0..(m - 1) -> S] : Passes(f, step, start, m - 1)
  BY <1>5
<1> DEFINE h == [i \in 0..m |-> IF i = m THEN step[m][f[m - 1]] ELSE f[i]]
<1>7. step[m][f[m - 1]] \in S
  <2>1. f[m - 1] \in S
    BY <1>5
  <2>2. QED
    BY <1>5, <2>1
<1>8. h \in [0..m -> S]
  <2>1. ASSUME NEW i \in 0..m PROVE (IF i = m THEN step[m][f[m - 1]] ELSE f[i]) \in S
    <3>1. i = m \/ i \in 0..(m - 1)
      BY <1>5
    <3>2. QED
      BY <1>7, <3>1
  <2>2. QED
    BY <2>1
<1>9. h[m] = step[m][f[m - 1]] /\ \A i \in 0..(m - 1) : h[i] = f[i]
  BY <1>5
<1> HIDE DEF h
<1>10. Passes(h, step, start, m)
  <2>1. h[0] = start
    BY <1>5, <1>6, <1>9 DEF Passes
  <2>2. ASSUME NEW i \in 1..m PROVE h[i] = step[i][h[i - 1]]
    <3>1. h[i - 1] = f[i - 1]
      BY <1>5, <1>9
    <3>2. CASE i = m
      BY <1>9, <3>1, <3>2
    <3>3. CASE i # m
      <4>1. i \in 1..(m - 1) /\ i \in 0..(m - 1)
        BY <1>5, <3>3
      <4>2. QED
        BY <1>6, <1>9, <3>1, <4>1 DEF Passes
    <3>4. QED
      BY <3>2, <3>3
  <2>3. QED
    BY <2>1, <2>2 DEF Passes
<1>11. Exist(m)
  BY <1>8, <1>10
<1>12. QED
  BY <1>3, <1>11

(* The states that a loop goes through are the only ones.                  *)
LEMMA LoopOf ==
  ASSUME NEW n \in Nat, NEW S, NEW start, NEW step, NEW f \in [0..n -> S], Passes(f, step, start, n)
  PROVE  Loop(step, start, n) = f[n]
<1> DEFINE Is(h) == h = [i \in 0..n |-> IF i = 0 THEN start ELSE step[i][h[i - 1]]]
           g == CHOOSE h : Is(h)
<1>1. f \in [0..n -> S] /\ Passes(f, step, start, n)
  OBVIOUS
<1>2. f = [i \in 0..n |-> IF i = 0 THEN start ELSE step[i][f[i - 1]]]
  <2>1. ASSUME NEW i \in 0..n PROVE f[i] = IF i = 0 THEN start ELSE step[i][f[i - 1]]
    <3>1. CASE i = 0
      BY <1>1, <3>1 DEF Passes
    <3>2. CASE i \in 1..n
      BY <1>1, <3>2 DEF Passes
    <3>3. QED
      BY <3>1, <3>2
  <2>2. QED
    BY <2>1
<1>3. Is(g)
  <2>1. Is(f)
    BY <1>2
  <2> HIDE DEF Is
  <2>2. QED
    BY <2>1
<1>4. Loop(step, start, n) = g[n]
  BY DEF Loop
<1> HIDE DEF g
<1>5. \A i \in 0..n : g[i] = IF i = 0 THEN start ELSE step[i][g[i - 1]]
  BY <1>3
<1>6. \A i \in 0..n : g[i] = f[i]
  <2> DEFINE bad == {i \in 0..n : g[i] # f[i]}
  <2>1. SUFFICES ASSUME bad # {} PROVE FALSE
    OBVIOUS
  <2>2. PICK i \in bad : \A k \in bad : i <= k
    <3>1. bad \in SUBSET Nat
      OBVIOUS
    <3> HIDE DEF bad
    <3>2. QED
      BY <2>1, <3>1, SmallestExists
  <2>3. i # 0
    <3>1. f[0] = start
      BY <1>1 DEF Passes
    <3>2. 0 \in 0..n
      OBVIOUS
    <3>3. g[0] = start
      BY <1>5, <3>2
    <3>4. QED
      BY <3>1, <3>3
  <2>4. i \in 1..n /\ i \in 0..n /\ i - 1 \in 0..n /\ i - 1 \notin bad
    BY <2>2, <2>3
  <2>5. g[i] = step[i][g[i - 1]] /\ f[i] = step[i][f[i - 1]]
    BY <1>1, <1>5, <2>4 DEF Passes
  <2>6. g[i - 1] = f[i - 1]
    BY <2>4
  <2>7. QED
    BY <2>2, <2>5, <2>6
<1>7. g[n] = f[n]
  BY <1>6
<1>8. QED
  BY <1>1, <1>4, <1>7

(* So the result of a loop is the last of the states it goes through.      *)
LEMMA LoopIs ==
  ASSUME NEW n \in Nat, NEW S, NEW start \in S, NEW step \in [1..n -> [S -> S]]
  PROVE  \E f \in [0..n -> S] : Passes(f, step, start, n) /\ Loop(step, start, n) = f[n]
<1>1. PICK f \in [0..n -> S] : Passes(f, step, start, n)
  BY PassesExist
<1>2. Loop(step, start, n) = f[n]
  BY <1>1, LoopOf
<1>3. QED
  BY <1>1, <1>2

(* Induction over the first numbers, for a set of them.                    *)
LEMMA UpTo ==
  ASSUME NEW n \in Nat, NEW P, 0 \in P, \A i \in 1..n : i - 1 \in P => i \in P
  PROVE  0..n \subseteq P
<1> DEFINE bad == (0..n) \ P
<1>1. SUFFICES ASSUME bad # {} PROVE FALSE
  OBVIOUS
<1>2. PICK i \in bad : \A k \in bad : i <= k
  <2>1. bad \in SUBSET Nat
    OBVIOUS
  <2> HIDE DEF bad
  <2>2. QED
    BY <1>1, <2>1, SmallestExists
<1>3. i \in 1..n /\ i - 1 \in 0..n /\ i - 1 \notin bad
  BY <1>2
<1>4. QED
  BY <1>2, <1>3

-----------------------------------------------------------------------------
(* Fields between separators.                                              *)

(* The runs of a set, when a run behind its places is added.               *)
LEMMA RunAdded ==
  ASSUME NEW a \in Nat, NEW i \in Nat, a < i, NEW free \in SUBSET (1..(a - 1))
  PROVE  Runs(free \cup ((a + 1)..i)) = Runs(free) \cup {<<a + 1, i>>}
<1> DEFINE more == free \cup ((a + 1)..i)
<1>1. \A p \in free : p \in Nat /\ 1 <= p /\ p < a
  OBVIOUS
<1>2. ASSUME NEW r \in Runs(free) PROVE r \in Runs(more)
  <2>1. /\ r \in free \X free /\ r[1] \in free /\ r[2] \in free
        /\ r[1] <= r[2] /\ r[1]..r[2] \subseteq free /\ r[1] - 1 \notin free /\ r[2] + 1 \notin free
    BY DEF Runs
  <2>2. r[1] - 1 \notin more /\ r[2] + 1 \notin more
    <3>1. r[1] \in Nat /\ r[2] \in Nat /\ r[1] < a /\ r[2] < a
      BY <1>1, <2>1
    <3>2. r[1] - 1 \notin (a + 1)..i /\ r[2] + 1 \notin (a + 1)..i
      BY <3>1
    <3>3. QED
      BY <2>1, <3>2
  <2>3. r \in more \X more
    BY <2>1
  <2>4. QED
    BY <2>1, <2>2, <2>3 DEF Runs
<1>3. <<a + 1, i>> \in Runs(more)
  <2>1. a + 1 \in more /\ i \in more
    BY <1>1
  <2>2. a \notin more /\ i + 1 \notin more
    BY <1>1
  <2>3. PICK r \in more \X more : r[1] = a + 1 /\ r[2] = i /\ r = <<a + 1, i>>
    BY <2>1
  <2>4. r[1] <= r[2] /\ r[1]..r[2] \subseteq more /\ r[1] - 1 \notin more /\ r[2] + 1 \notin more
    BY <2>2, <2>3
  <2>5. QED
    BY <2>3, <2>4 DEF Runs
<1>4. ASSUME NEW r \in Runs(more), r \notin Runs(free) PROVE r = <<a + 1, i>>
  <2>1. /\ r \in more \X more /\ r[1] \in more /\ r[2] \in more /\ r = <<r[1], r[2]>>
        /\ r[1] <= r[2] /\ r[1]..r[2] \subseteq more /\ r[1] - 1 \notin more /\ r[2] + 1 \notin more
    BY DEF Runs
  <2>2. a \notin more /\ r[1] \in Nat /\ r[2] \in Nat
    <3>1. more \subseteq Nat /\ a \notin free /\ a \notin (a + 1)..i
      BY <1>1
    <3>2. QED
      BY <2>1, <3>1
  <2>3. CASE r[2] < a
    <3>1. r[1] \in free /\ r[2] \in free
      BY <2>1, <2>2, <2>3
    <3>2. r[1]..r[2] \subseteq free
      BY <2>1, <2>2, <2>3
    <3>3. r \in free \X free
      BY <2>1, <3>1
    <3>4. QED
      BY <1>4, <2>1, <3>2, <3>3 DEF Runs
  <2>4. CASE r[2] >= a
    <3>1. r[2] > a
      BY <2>1, <2>2, <2>4
    <3>2. r[1] > a
      <4>1. CASE r[1] <= a
        <5>1. a \in r[1]..r[2]
          BY <2>2, <2>4, <4>1
        <5>2. QED
          BY <2>1, <2>2, <5>1
      <4>2. QED
        BY <2>2, <4>1
    <3>3. r[1] \in (a + 1)..i /\ r[2] \in (a + 1)..i
      BY <1>1, <2>1, <2>2, <3>1, <3>2
    <3>4. r[1] = a + 1
      <4>1. CASE r[1] > a + 1
        <5>1. r[1] - 1 \in (a + 1)..i
          BY <3>3, <4>1
        <5>2. QED
          BY <2>1, <5>1
      <4>2. QED
        BY <3>3, <4>1
    <3>5. r[2] = i
      <4>1. CASE r[2] < i
        <5>1. r[2] + 1 \in (a + 1)..i
          BY <3>3, <4>1
        <5>2. QED
          BY <2>1, <5>1
      <4>2. QED
        BY <3>3, <4>1
    <3>6. QED
      BY <2>1, <3>4, <3>5
  <2>5. QED
    BY <2>2, <2>3, <2>4
<1>5. QED
  BY <1>2, <1>3, <1>4

(* So a field is added behind the fields.                                  *)
LEMMA FieldAdded ==
  ASSUME NEW s \in Seq(Char), NEW a \in Nat, NEW i \in Nat, a < i, i <= Len(s),
         NEW free \in SUBSET (1..(a - 1)), NEW vec \in Seq(Seq(Char)), AreFields(vec, s, free)
  PROVE  AreFields(Append(vec, SubSeq(s, a + 1, i)), s, free \cup ((a + 1)..i))
<1> DEFINE more == free \cup ((a + 1)..i)
           new == <<a + 1, i>>
           val == SubSeq(s, a + 1, i)
           long == Append(vec, val)
<1>1. Runs(more) = Runs(free) \cup {new}
  BY RunAdded
<1>2. \A r \in Runs(free) : r[1] \in Nat /\ r[1] < a + 1 /\ r[1] \in free
  <2>1. \A p \in free : p \in Nat /\ p < a + 1
    OBVIOUS
  <2>2. \A r \in Runs(free) : r[1] \in free
    BY DEF Runs
  <2>3. QED
    BY <2>1, <2>2
<1>3. new \notin Runs(free)
  BY <1>2
<1>4. IsFiniteSet(Runs(free)) /\ IsFiniteSet(Runs(more))
  <2>1. IsFiniteSet(1..(a - 1))
    BY FS_Interval
  <2>2. IsFiniteSet(free)
    BY <2>1, FS_Subset
  <2>3. IsFiniteSet(free \X free)
    BY <2>2, FS_Product
  <2>4. Runs(free) \subseteq free \X free
    BY DEF Runs
  <2>5. IsFiniteSet(Runs(free))
    BY <2>3, <2>4, FS_Subset
  <2>6. IsFiniteSet(Runs(free) \cup {new})
    BY <2>5, FS_AddElement
  <2>7. QED
    BY <1>1, <2>5, <2>6
<1>5. PICK n \in Nat : n = Cardinality(Runs(free)) /\ n = Len(vec)
  BY <1>4, FS_CardinalityType DEF AreFields
<1>6. Cardinality(Runs(more)) = n + 1
  <2>1. Cardinality(Runs(free) \cup {new}) = Cardinality(Runs(free)) + 1
    BY <1>3, <1>4, FS_AddElement
  <2>2. QED
    BY <1>1, <1>5, <2>1
<1>7. Len(long) = n + 1 /\ long[n + 1] = val /\ \A k \in 1..n : long[k] = vec[k]
  BY <1>5
<1> HIDE DEF long, more
<1>8. ASSUME NEW r \in Runs(more)
      PROVE  long[Cardinality({q \in Runs(more) : q[1] <= r[1]})] = SubSeq(s, r[1], r[2])
  <2>1. CASE r = new
    <3>1. r[1] = a + 1 /\ r[2] = i
      BY <2>1
    <3>2. {q \in Runs(more) : q[1] <= r[1]} = Runs(more)
      BY <1>1, <1>2, <3>1
    <3>3. QED
      BY <1>6, <1>7, <3>1, <3>2
  <2>2. CASE r \in Runs(free)
    <3> DEFINE upTo == {q \in Runs(free) : q[1] <= r[1]}
    <3>1. {q \in Runs(more) : q[1] <= r[1]} = upTo
      <4>1. ~(new[1] <= r[1])
        BY <1>2, <2>2
      <4>2. QED
        BY <1>1, <4>1
    <3>2. IsFiniteSet(upTo) /\ Cardinality(upTo) <= n
      BY <1>4, <1>5, FS_Subset
    <3>3. Cardinality(upTo) \in 1..n
      <4>1. r \in upTo
        BY <1>2, <2>2
      <4>2. Cardinality(upTo) \in Nat /\ Cardinality(upTo) # 0
        BY <3>2, <4>1, FS_CardinalityType, FS_EmptySet
      <4>3. QED
        BY <3>2, <4>2
    <3>4. vec[Cardinality(upTo)] = SubSeq(s, r[1], r[2])
      BY <2>2 DEF AreFields
    <3> HIDE DEF upTo
    <3>5. QED
      BY <1>7, <3>1, <3>3, <3>4
  <2>3. QED
    BY <1>1, <2>1, <2>2
<1>9. QED
  BY <1>6, <1>7, <1>8 DEF AreFields, long, more

(* A field that has been read up to i ends, if it has characters.          *)
LEMMA FieldEnds ==
  ASSUME NEW s \in Seq(Char), NEW i \in 0..Len(s), NEW a \in 0..i,
         NEW free \in SUBSET DOMAIN s, a \notin free, (a + 1)..i \subseteq free,
         NEW vec \in Seq(Seq(Char)), AreFields(vec, s, free \cap (1..(a - 1))),
         NEW res \in Seq(Char), res = SubSeq(s, a + 1, i)
  PROVE  AreFields(IF res = <<>> THEN vec ELSE Append(vec, res), s, free \cap (1..i))
<1> DEFINE before == free \cap (1..(a - 1))
<1>0. DOMAIN s = 1..Len(s) /\ free \subseteq Nat \ {0}
  <2>1. DOMAIN s = 1..Len(s)
    BY LenProperties
  <2>2. QED
    BY <2>1
<1>1. CASE a = i
  <2>1. res = <<>>
    BY <1>1, SubSeqEmpty
  <2>2. free \cap (1..i) = before
    BY <1>0, <1>1
  <2>3. QED
    BY <2>1, <2>2
<1>2. CASE a < i
  <2>1. Len(SubSeq(s, a + 1, i)) = i - a /\ SubSeq(s, a + 1, i) \in Seq(Char)
    <3>1. \A k \in (a + 1)..i : s[k] \in Char
      BY <1>0, ElementOfSeq
    <3>2. QED
      BY <1>2, <3>1, SubSeqProperties
  <2>2. res # <<>>
    <3>1. Len(<<>>) = 0
      OBVIOUS
    <3>2. Len(res) > 0
      BY <1>2, <2>1
    <3>3. QED
      BY <3>1, <3>2
  <2>3. free \cap (1..i) = before \cup ((a + 1)..i)
    BY <1>0, <1>2
  <2>4. before \in SUBSET (1..(a - 1))
    OBVIOUS
  <2>5. a \in Nat /\ i \in Nat /\ i <= Len(s)
    OBVIOUS
  <2> HIDE DEF before
  <2>6. AreFields(Append(vec, SubSeq(s, a + 1, i)), s, before \cup ((a + 1)..i))
    <3>1. AreFields(vec, s, before)
      BY DEF before
    <3>2. QED
      BY <1>2, <2>4, <2>5, <3>1, FieldAdded
  <2>7. (IF res = <<>> THEN vec ELSE Append(vec, res)) = Append(vec, SubSeq(s, a + 1, i))
    BY <2>2
  <2>8. QED
    BY <2>3, <2>6, <2>7
<1>3. a = i \/ a < i
  OBVIOUS
<1>4. QED
  BY <1>1, <1>2, <1>3

(* A loop that appends the characters at free places and ends a field at   *)
(* the others reads the fields.                                            *)
LEMMA FieldsRead ==
  ASSUME NEW s \in Seq(Char), NEW free \in SUBSET DOMAIN s,
         NEW vec \in [0..Len(s) -> Seq(Seq(Char))], NEW res \in [0..Len(s) -> Seq(Char)],
         vec[0] = <<>>, res[0] = <<>>,
         \A i \in free : vec[i] = vec[i - 1] /\ res[i] = Append(res[i - 1], s[i]),
         \A i \in DOMAIN s \ free :
           /\ res[i] = <<>>
           /\ vec[i] = IF res[i - 1] = <<>> THEN vec[i - 1] ELSE Append(vec[i - 1], res[i - 1])
  PROVE  AreFields(IF res[Len(s)] = <<>> THEN vec[Len(s)] ELSE Append(vec[Len(s)], res[Len(s)]),
                   s, free)
<1> DEFINE n == Len(s)
           At(i, a) == /\ a \notin free /\ (a + 1)..i \subseteq free /\ res[i] = SubSeq(s, a + 1, i)
                       /\ AreFields(vec[i], s, free \cap (1..(a - 1)))
           Reading == {i \in 0..n : \E a \in 0..i : At(i, a)}
<1>0. n \in Nat /\ DOMAIN s = 1..n /\ \A i \in 1..n : s[i] \in Char
  BY LenProperties, ElementOfSeq
<1>1. 0 \in Reading
  <2>1. 0 \notin free /\ (0 + 1)..0 = {} /\ free \cap (1..(0 - 1)) = {}
    BY <1>0
  <2>2. res[0] = SubSeq(s, 0 + 1, 0)
    BY SubSeqEmpty
  <2>3. Runs({}) = {}
    BY DEF Runs
  <2>4. AreFields(<<>>, s, {})
    BY <2>3, FS_EmptySet DEF AreFields
  <2>5. AreFields(vec[0], s, free \cap (1..(0 - 1)))
    BY <2>1, <2>4
  <2>6. At(0, 0)
    BY <2>1, <2>2, <2>5
  <2> HIDE DEF At
  <2>7. QED
    BY <1>0, <2>6
<1>2. ASSUME NEW i \in 1..n, i - 1 \in Reading PROVE i \in Reading
  <2>1. PICK a \in 0..(i - 1) : At(i - 1, a)
    BY <1>2
  <2>2. i - 1 \in 0..Len(s) /\ i - 1 \in 0..n /\ a \in 0..i /\ a \in Nat /\ i \in 0..n /\ i \in 0..i
    BY <1>0
  <2>3. CASE i \in free
    <3>1. (a + 1)..i \subseteq free
      <4>1. (a + 1)..i = ((a + 1)..(i - 1)) \cup {i}
        BY <2>2
      <4>2. QED
        BY <2>1, <2>3, <4>1
    <3>2. res[i] = SubSeq(s, a + 1, i)
      <4>1. res[i] = Append(SubSeq(s, a + 1, i - 1), s[i])
        BY <2>1, <2>3
      <4>2. SubSeq(s, a + 1, i - 1) \in Seq(Char)
        BY <1>0, <2>2, SubSeqProperties
      <4>3. SubSeq(s, a + 1, i) = SubSeq(s, a + 1, i - 1) \o <<s[i]>>
        <5>1. a + 1 \in 1..Len(s) /\ i \in (a + 1)..Len(s)
          BY <2>2
        <5>2. QED
          BY <5>1, SubSeqRecursiveSecond
      <4>4. QED
        BY <1>0, <4>1, <4>2, <4>3, AppendIsConcat
    <3>3. At(i, a)
      BY <2>1, <2>3, <3>1, <3>2
    <3> HIDE DEF At
    <3>4. QED
      BY <2>2, <3>3
  <2>4. CASE i \notin free
    <3>1. /\ res[i] = <<>>
          /\ vec[i] = IF res[i - 1] = <<>> THEN vec[i - 1] ELSE Append(vec[i - 1], res[i - 1])
      BY <1>0, <2>4
    <3>2. AreFields(vec[i], s, free \cap (1..(i - 1)))
      <4>1. vec[i - 1] \in Seq(Seq(Char))
        BY <2>2
      <4>2. /\ a \notin free /\ (a + 1)..(i - 1) \subseteq free
            /\ res[i - 1] = SubSeq(s, a + 1, i - 1)
            /\ AreFields(vec[i - 1], s, free \cap (1..(a - 1)))
        BY <2>1
      <4>3. i - 1 \in 0..Len(s) /\ a \in 0..(i - 1) /\ res[i - 1] \in Seq(Char)
        BY <2>2
      <4> HIDE DEF At, Reading
      <4>4. AreFields(IF res[i - 1] = <<>> THEN vec[i - 1] ELSE Append(vec[i - 1], res[i - 1]),
                      s, free \cap (1..(i - 1)))
        BY <4>1, <4>2, <4>3, FieldEnds
      <4>5. QED
        BY <3>1, <4>4
    <3>3. (i + 1)..i = {} /\ SubSeq(s, i + 1, i) = <<>>
      BY SubSeqEmpty
    <3>4. At(i, i)
      BY <2>4, <3>1, <3>2, <3>3
    <3> HIDE DEF At
    <3>5. QED
      BY <2>2, <3>4
  <2>5. QED
    BY <2>3, <2>4
<1>3. n \in Reading
  <2>1. \A i \in 1..n : i - 1 \in Reading => i \in Reading
    BY <1>2
  <2> HIDE DEF Reading
  <2>2. 0..n \subseteq Reading
    BY <1>0, <1>1, <2>1, UpTo
  <2>3. QED
    BY <1>0, <2>2
<1>4. PICK a \in 0..n : At(n, a)
  BY <1>3
<1>5. free \cap (1..n) = free /\ n \in 0..Len(s) /\ vec[n] \in Seq(Seq(Char)) /\ res[n] \in Seq(Char)
  BY <1>0
<1>6. AreFields(IF res[n] = <<>> THEN vec[n] ELSE Append(vec[n], res[n]), s, free \cap (1..n))
  BY <1>4, <1>5, FieldEnds
<1>7. QED
  BY <1>5, <1>6

(* Append keeps to the elements' set.                                      *)
LEMMA AppendTyped ==
  ASSUME NEW S, NEW q \in Seq(S), NEW e \in S
  PROVE  Append(q, e) \in Seq(S)
  BY AppendProperties

-----------------------------------------------------------------------------
(* StringSplit by a character.                                             *)

(* The state of the loop of the split by a character.                      *)
CharState == [vec : Seq(Seq(Char)), res : Seq(Char)]

(* Loops over this state go through such states.                           *)
LEMMA CharLoop ==
  ASSUME NEW n \in Nat, NEW step \in [1..n -> [CharState -> CharState]], NEW start \in CharState
  PROVE  \E f \in [0..n -> CharState] : Passes(f, step, start, n) /\ Loop(step, start, n) = f[n]
  BY LoopIs

(* What Ended makes of this state.                                         *)
LEMMA EndedChar ==
  ASSUME NEW f \in CharState
  PROVE  /\ Ended(f) \in CharState /\ Ended(f).res = <<>>
         /\ Ended(f).vec = IF f.res = <<>> THEN f.vec ELSE Append(f.vec, f.res)
<1>1. f.vec \in Seq(Seq(Char)) /\ f.res \in Seq(Char) /\ f = [vec |-> f.vec, res |-> f.res]
  BY DEF CharState
<1>2. CASE f.res = <<>>
  BY <1>1, <1>2 DEF Ended
<1>3. CASE f.res # <<>>
  <2>1. Ended(f) = [vec |-> Append(f.vec, f.res), res |-> <<>>]
    BY <1>1, <1>3 DEF Ended
  <2>2. Append(f.vec, f.res) \in Seq(Seq(Char)) /\ <<>> \in Seq(Char)
    BY <1>1, AppendTyped
  <2> HIDE <1>1
  <2>3. QED
    BY <1>3, <2>1, <2>2 DEF CharState
<1>4. QED
  BY <1>2, <1>3

(* The passes of the split by a character, and what they make of a text.   *)
CharPass(tag, c, f) == IF c = tag THEN Ended(f) ELSE [f EXCEPT !.res = Append(@, c)]
CharSteps(s, tag) == [i \in DOMAIN s |-> [f \in CharState |-> CharPass(tag, s[i], f)]]
CharStart == [vec |-> <<>>, res |-> <<>>]
Scan(s, tag) == Loop(CharSteps(s, tag), CharStart, Len(s))

(* A pass of the split by a character keeps the type of the state.         *)
LEMMA CharPassIs ==
  ASSUME NEW tag, NEW c \in Char, NEW f \in CharState
  PROVE  /\ CharPass(tag, c, f) \in CharState
         /\ c # tag => CharPass(tag, c, f) = [vec |-> f.vec, res |-> Append(f.res, c)]
<1>1. f.vec \in Seq(Seq(Char)) /\ f.res \in Seq(Char) /\ f = [vec |-> f.vec, res |-> f.res]
  BY DEF CharState
<1>2. CASE c = tag
  BY <1>2, EndedChar DEF CharPass
<1>3. CASE c # tag
  <2>1. CharPass(tag, c, f) = [vec |-> f.vec, res |-> Append(f.res, c)]
    BY <1>1, <1>3 DEF CharPass
  <2>2. Append(f.res, c) \in Seq(Char)
    BY <1>1, AppendTyped
  <2>3. CharPass(tag, c, f) \in CharState
    BY <1>1, <2>1, <2>2 DEF CharState
  <2>4. QED
    BY <2>1, <2>3
<1>4. QED
  BY <1>2, <1>3

(* The passes over a text are those of its characters.                     *)
LEMMA CharStepsTyped ==
  ASSUME NEW s \in Seq(Char), NEW tag
  PROVE  /\ CharSteps(s, tag) \in [1..Len(s) -> [CharState -> CharState]] /\ CharStart \in CharState
         /\ \A i \in 1..Len(s), f \in CharState :
              CharSteps(s, tag)[i][f] = CharPass(tag, s[i], f)
<1>1. DOMAIN s = 1..Len(s) /\ \A i \in 1..Len(s) : s[i] \in Char
  BY LenProperties, ElementOfSeq
<1>2. CharStart \in CharState
  BY DEF CharStart, CharState
<1>3. QED
  BY <1>1, <1>2, CharPassIs DEF CharSteps

(* The split ends the field that the loop has been reading.                *)
LEMMA SplitIsScan ==
  ASSUME NEW s \in Seq(Char), NEW tag
  PROVE  SplitChar(s, tag) = Ended(Scan(s, tag)).vec
  BY DEF SplitChar, Scan, CharSteps, CharPass, CharState, CharStart

(* The loop goes through some states.                                      *)
LEMMA ScanPasses ==
  ASSUME NEW s \in Seq(Char), NEW tag
  PROVE  \E f \in [0..Len(s) -> CharState] :
           Passes(f, CharSteps(s, tag), CharStart, Len(s)) /\ Scan(s, tag) = f[Len(s)]
<1> DEFINE n == Len(s)
           steps == CharSteps(s, tag)
<1>1. n \in Nat /\ steps \in [1..n -> [CharState -> CharState]] /\ CharStart \in CharState
  BY CharStepsTyped, LenProperties
<1>2. Scan(s, tag) = Loop(steps, CharStart, n)
  BY DEF Scan
<1> HIDE DEF n, steps
<1>3. \E f \in [0..n -> CharState] : Passes(f, steps, CharStart, n) /\ Loop(steps, CharStart, n) = f[n]
  BY <1>1, CharLoop
<1>4. QED
  BY <1>2, <1>3 DEF n, steps

(* The loop keeps the type of its state.                                   *)
LEMMA ScanTyped ==
  ASSUME NEW s \in Seq(Char), NEW tag
  PROVE  Scan(s, tag) \in CharState
<1>1. Len(s) \in Nat /\ Len(s) \in 0..Len(s)
  BY LenProperties
<1>2. QED
  BY <1>1, ScanPasses

(* The split by a character gives the fields between its places.           *)
LEMMA SplitCharFields ==
  ASSUME NEW s \in Seq(Char), NEW tag \in Char
  PROVE  AreFields(SplitChar(s, tag), s, {p \in DOMAIN s : s[p] # tag})
<1> DEFINE n == Len(s)
           free == {p \in DOMAIN s : s[p] # tag}
<1>1. n \in Nat /\ DOMAIN s = 1..n /\ \A i \in 1..n : s[i] \in Char
  BY LenProperties, ElementOfSeq
<1>2. PICK f \in [0..n -> CharState] :
        Passes(f, CharSteps(s, tag), CharStart, n) /\ Scan(s, tag) = f[n]
  BY ScanPasses
<1> DEFINE vec == [i \in 0..n |-> f[i].vec]
           res == [i \in 0..n |-> f[i].res]
<1>3. vec \in [0..n -> Seq(Seq(Char))] /\ res \in [0..n -> Seq(Char)]
  BY DEF CharState
<1>4. vec[0] = <<>> /\ res[0] = <<>>
  BY <1>1, <1>2 DEF Passes, CharStart
<1>5. ASSUME NEW i \in 1..n
      PROVE  /\ i \in free => vec[i] = vec[i - 1] /\ res[i] = Append(res[i - 1], s[i])
             /\ i \notin free =>
                  /\ res[i] = <<>>
                  /\ vec[i] = IF res[i - 1] = <<>> THEN vec[i - 1]
                              ELSE Append(vec[i - 1], res[i - 1])
  <2>1. i \in 0..n /\ i - 1 \in 0..n /\ f[i - 1] \in CharState
    BY <1>1
  <2>2. f[i] = CharPass(tag, s[i], f[i - 1])
    <3>1. f[i] = CharSteps(s, tag)[i][f[i - 1]]
      BY <1>2 DEF Passes
    <3>2. QED
      BY <2>1, <3>1, CharStepsTyped
  <2>3. /\ vec[i] = f[i].vec /\ res[i] = f[i].res
        /\ vec[i - 1] = f[i - 1].vec /\ res[i - 1] = f[i - 1].res
    BY <2>1
  <2>4. i \in free <=> s[i] # tag
    BY <1>1
  <2> HIDE DEF vec, res, free
  <2>5. CASE s[i] = tag
    <3>1. f[i] = Ended(f[i - 1])
      BY <2>2, <2>5 DEF CharPass
    <3>2. QED
      BY <2>1, <2>3, <2>4, <2>5, <3>1, EndedChar
  <2>6. CASE s[i] # tag
    <3>1. f[i] = [vec |-> f[i - 1].vec, res |-> Append(f[i - 1].res, s[i])]
      BY <1>1, <2>1, <2>2, <2>6, CharPassIs
    <3>2. QED
      BY <2>3, <2>4, <2>6, <3>1
  <2>7. QED
    BY <2>5, <2>6
<1>6. AreFields(IF res[n] = <<>> THEN vec[n] ELSE Append(vec[n], res[n]), s, free)
  <2>1. \A i \in free : vec[i] = vec[i - 1] /\ res[i] = Append(res[i - 1], s[i])
    BY <1>1, <1>5
  <2>2. \A i \in DOMAIN s \ free :
           /\ res[i] = <<>>
           /\ vec[i] = IF res[i - 1] = <<>> THEN vec[i - 1] ELSE Append(vec[i - 1], res[i - 1])
    BY <1>1, <1>5
  <2>3. free \in SUBSET DOMAIN s
    OBVIOUS
  <2> HIDE DEF free, vec, res
  <2>4. QED
    BY <1>3, <1>4, <2>1, <2>2, <2>3, FieldsRead
<1>7. f[n] \in CharState /\ vec[n] = f[n].vec /\ res[n] = f[n].res
  BY <1>1
<1> HIDE DEF vec, res, free
<1>8. Ended(f[n]).vec = IF res[n] = <<>> THEN vec[n] ELSE Append(vec[n], res[n])
  BY <1>7, EndedChar
<1>9. SplitChar(s, tag) = Ended(f[n]).vec
  BY <1>2, SplitIsScan
<1>10. QED
  BY <1>6, <1>8, <1>9 DEF free

-----------------------------------------------------------------------------
(* StringSplit by a string.                                                *)

(* The places of the separators are the only set that leaves those out     *)
(* that begin within another one.                                          *)
AreSeparators(found, s, tag) ==
  \A p \in DOMAIN s :
    p \in found <=> StandsAt(s, tag, p) /\ \A q \in found : q < p => q + Len(tag) <= p

LEMMA SeparatorsAre ==
  ASSUME NEW s \in Seq(Char), NEW tag,
         NEW found \in SUBSET DOMAIN s, AreSeparators(found, s, tag)
  PROVE  Separators(s, tag) = found
<1> DEFINE other == Separators(s, tag)
<1>1. other \in SUBSET DOMAIN s /\ AreSeparators(other, s, tag)
  <2>1. other = CHOOSE g \in SUBSET DOMAIN s : AreSeparators(g, s, tag)
    BY DEF Separators, AreSeparators
  <2> HIDE DEF other
  <2>2. QED
    BY <2>1
<1> HIDE DEF other
<1> DEFINE bad == {p \in DOMAIN s : ~(p \in found <=> p \in other)}
<1>2. SUFFICES ASSUME bad # {} PROVE FALSE
  BY <1>1 DEF other
<1>3. DOMAIN s = 1..Len(s) /\ Len(s) \in Nat
  BY LenProperties
<1>4. bad \in SUBSET Nat
  BY <1>3
<1>5. PICK p \in bad : \A q \in bad : p <= q
  <2> HIDE DEF bad
  <2>1. QED
    BY <1>2, <1>4, SmallestExists
<1>6. p \in DOMAIN s /\ p \in Nat
  BY <1>3
<1>7. ASSUME NEW q \in DOMAIN s, q < p PROVE q \in found <=> q \in other
  <2>1. q \notin bad
    BY <1>3, <1>5, <1>6, <1>7
  <2>2. QED
    BY <2>1
<1>8. (\A q \in found : q < p => q + Len(tag) <= p) <=> (\A q \in other : q < p => q + Len(tag) <= p)
  BY <1>1, <1>7
<1>9. p \in found <=> p \in other
  BY <1>1, <1>6, <1>8 DEF AreSeparators
<1>10. QED
  BY <1>9

(* The comparison with a part of the text finds a separator where its      *)
(* characters stand.                                                       *)
LEMMA OccursIs ==
  ASSUME NEW s \in Seq(Char), NEW tag \in Seq(Char), Len(tag) \in 1..Len(s), NEW p \in 1..Len(s)
  PROVE  Occurs(s, tag, p) <=> StandsAt(s, tag, p)
<1> DEFINE L == Len(tag)
           part == SubSeq(s, p, p + L - 1)
<1>1. /\ Len(s) \in Nat /\ L \in Nat /\ L >= 1 /\ p \in Nat /\ p >= 1 /\ p + L - 1 \in Int
      /\ DOMAIN s = 1..Len(s) /\ DOMAIN tag = 1..L /\ \A k \in 1..Len(s) : s[k] \in Char
  BY LenProperties, ElementOfSeq
<1>2. Occurs(s, tag, p) <=> p + L - 1 <= Len(s) /\ part = tag
  BY DEF Occurs
<1>3. StandsAt(s, tag, p) <=>
        \A k \in 1..L : p + k - 1 \in 1..Len(s) /\ s[p + k - 1] = tag[k]
  BY <1>1 DEF StandsAt
<1>4. ASSUME p + L - 1 <= Len(s)
      PROVE  part = tag <=> StandsAt(s, tag, p)
  <2>1. \A k \in p..(p + L - 1) : s[k] \in Char
    BY <1>1, <1>4
  <2>2. part \in Seq(Char) /\ Len(part) = L /\ \A k \in 1..L : part[k] = s[p + k - 1]
    <3> DEFINE e == p + L - 1
    <3>1. p \in Int /\ e \in Int /\ \A k \in p..e : s[k] \in Char
      BY <1>1, <2>1
    <3>2. p <= e /\ e - p + 1 = L
      BY <1>1
    <3> HIDE DEF e
    <3>3. /\ SubSeq(s, p, e) \in Seq(Char) /\ Len(SubSeq(s, p, e)) = e - p + 1
          /\ \A k \in 1..(e - p + 1) : SubSeq(s, p, e)[k] = s[p + k - 1]
      BY <3>1, <3>2, SubSeqProperties
    <3>4. QED
      BY <3>2, <3>3 DEF e
  <2>3. \A k \in 1..L : p + k - 1 \in 1..Len(s)
    BY <1>1, <1>4
  <2> HIDE DEF part
  <2>4. ASSUME part = tag PROVE StandsAt(s, tag, p)
    BY <1>3, <2>2, <2>3, <2>4
  <2>5. ASSUME StandsAt(s, tag, p) PROVE part = tag
    <3>1. \A k \in 1..L : part[k] = tag[k]
      BY <1>3, <2>2, <2>5
    <3>2. QED
      BY <2>2, <3>1, SeqEqual
  <2>6. QED
    BY <2>4, <2>5
<1>5. StandsAt(s, tag, p) => p + L - 1 <= Len(s)
  <2>1. L \in 1..L
    BY <1>1
  <2>2. StandsAt(s, tag, p) => p + L - 1 \in 1..Len(s)
    BY <1>3, <2>1
  <2>3. QED
    BY <1>1, <2>2
<1> HIDE DEF part, L
<1>6. QED
  BY <1>2, <1>4, <1>5

(* The state of the loop of the split by a string.                         *)
StringState == [vec : Seq(Seq(Char)), res : Seq(Char), next : Nat]

(* Loops over this state go through such states.                           *)
LEMMA StringLoop ==
  ASSUME NEW n \in Nat, NEW step \in [1..n -> [StringState -> StringState]], NEW start \in StringState
  PROVE  \E f \in [0..n -> StringState] : Passes(f, step, start, n) /\ Loop(step, start, n) = f[n]
  BY LoopIs

(* What Ended makes of this state.                                         *)
LEMMA EndedString ==
  ASSUME NEW f \in StringState
  PROVE  /\ Ended(f) \in StringState /\ Ended(f).res = <<>> /\ Ended(f).next = f.next
         /\ Ended(f).vec = IF f.res = <<>> THEN f.vec ELSE Append(f.vec, f.res)
<1>1. /\ f.vec \in Seq(Seq(Char)) /\ f.res \in Seq(Char) /\ f.next \in Nat
      /\ f = [vec |-> f.vec, res |-> f.res, next |-> f.next]
  BY DEF StringState
<1>2. CASE f.res = <<>>
  BY <1>1, <1>2 DEF Ended
<1>3. CASE f.res # <<>>
  <2>1. Ended(f) = [vec |-> Append(f.vec, f.res), res |-> <<>>, next |-> f.next]
    BY <1>1, <1>3 DEF Ended
  <2>2. Append(f.vec, f.res) \in Seq(Seq(Char)) /\ <<>> \in Seq(Char)
    BY <1>1, AppendTyped
  <2>3. f.next \in Nat
    BY <1>1
  <2>4. QED
    BY <1>3, <2>1, <2>2, <2>3 DEF StringState
<1>4. QED
  BY <1>2, <1>3

(* One pass of the split by a string.                                      *)
StringPass(s, tag, i, f) ==
  IF i < f.next THEN f
  ELSE IF Occurs(s, tag, i) THEN [Ended(f) EXCEPT !.next = i + Len(tag)]
  ELSE [f EXCEPT !.res = Append(@, s[i])]

(* The three cases of a pass.                                              *)
LEMMA StringPassIs ==
  ASSUME NEW s \in Seq(Char), NEW tag \in Seq(Char), NEW i \in 1..Len(s), NEW f \in StringState
  PROVE  /\ StringPass(s, tag, i, f) \in StringState
         /\ i < f.next => StringPass(s, tag, i, f) = f
         /\ i >= f.next /\ Occurs(s, tag, i) =>
              /\ StringPass(s, tag, i, f).res = <<>>
              /\ StringPass(s, tag, i, f).next = i + Len(tag)
              /\ StringPass(s, tag, i, f).vec =
                   IF f.res = <<>> THEN f.vec ELSE Append(f.vec, f.res)
         /\ i >= f.next /\ ~Occurs(s, tag, i) =>
              /\ StringPass(s, tag, i, f).vec = f.vec
              /\ StringPass(s, tag, i, f).next = f.next
              /\ StringPass(s, tag, i, f).res = Append(f.res, s[i])
<1>1. /\ f.vec \in Seq(Seq(Char)) /\ f.res \in Seq(Char) /\ f.next \in Nat
      /\ f = [vec |-> f.vec, res |-> f.res, next |-> f.next]
  BY DEF StringState
<1>2. i \in Nat /\ Len(tag) \in Nat /\ s[i] \in Char
  BY ElementOfSeq, LenProperties
<1>3. CASE i < f.next
  <2>1. StringPass(s, tag, i, f) = f
    BY <1>3 DEF StringPass
  <2>2. ~(i >= f.next)
    BY <1>1, <1>2, <1>3
  <2>3. QED
    BY <2>1, <2>2
<1>4. CASE i >= f.next /\ Occurs(s, tag, i)
  <2>1. ~(i < f.next)
    BY <1>1, <1>2, <1>4
  <2>2. StringPass(s, tag, i, f) = [Ended(f) EXCEPT !.next = i + Len(tag)]
    BY <1>4, <2>1 DEF StringPass
  <2>3. PICK e \in StringState : e = Ended(f)
    BY EndedString
  <2>4. e.vec \in Seq(Seq(Char)) /\ e.res \in Seq(Char) /\ e = [vec |-> e.vec, res |-> e.res, next |-> e.next]
    BY DEF StringState
  <2>5. StringPass(s, tag, i, f) = [vec |-> e.vec, res |-> e.res, next |-> i + Len(tag)]
    BY <2>2, <2>3, <2>4
  <2>6. i + Len(tag) \in Nat
    BY <1>2
  <2>7. e.res = <<>> /\ e.vec = IF f.res = <<>> THEN f.vec ELSE Append(f.vec, f.res)
    BY <2>3, EndedString
  <2>8. StringPass(s, tag, i, f) \in StringState
    BY <2>4, <2>5, <2>6 DEF StringState
  <2>9. QED
    BY <1>4, <2>1, <2>5, <2>7, <2>8
<1>5. CASE i >= f.next /\ ~Occurs(s, tag, i)
  <2>1. ~(i < f.next)
    BY <1>1, <1>2, <1>5
  <2>2. StringPass(s, tag, i, f) = [vec |-> f.vec, res |-> Append(f.res, s[i]), next |-> f.next]
    BY <1>1, <1>5, <2>1 DEF StringPass
  <2>3. Append(f.res, s[i]) \in Seq(Char)
    BY <1>1, <1>2, AppendTyped
  <2>4. StringPass(s, tag, i, f) \in StringState
    BY <1>1, <2>2, <2>3 DEF StringState
  <2>5. QED
    BY <1>5, <2>1, <2>2, <2>4
<1>6. i < f.next \/ i >= f.next
  BY <1>1, <1>2
<1>7. QED
  BY <1>3, <1>4, <1>5, <1>6

(* The split by a string gives the fields between the separators.          *)
LEMMA SplitStringFields ==
  ASSUME NEW s \in Seq(Char), NEW tag \in Seq(Char), Len(tag) \in 1..Len(s)
  PROVE  AreFields(SplitString(s, tag), s, Between(s, tag))
<1> DEFINE n == Len(s)
           L == Len(tag)
           first == [vec |-> <<>>, res |-> <<>>, next |-> 1]
           body == [i \in DOMAIN s |-> [f \in StringState |-> StringPass(s, tag, i, f)]]
<1>0. /\ n \in Nat /\ DOMAIN s = 1..n /\ L \in Nat /\ L >= 1 /\ L <= n
      /\ \A i \in 1..n : s[i] \in Char
  BY LenProperties, ElementOfSeq
<1>1. first \in StringState
  BY DEF StringState
<1>2. body \in [1..n -> [StringState -> StringState]]
  BY <1>0, StringPassIs
<1>3. \A i \in 1..n, f \in StringState : body[i][f] = StringPass(s, tag, i, f)
  BY <1>0
<1>4. SplitString(s, tag) = Ended(Loop(body, first, n)).vec
  <2>1. ~(Len(tag) > Len(s))
    BY <1>0
  <2>2. QED
    BY <2>1 DEF SplitString, StringPass, StringState
<1> HIDE DEF body, first
<1>5. PICK f \in [0..n -> StringState] : Passes(f, body, first, n) /\ Loop(body, first, n) = f[n]
  <2>1. n \in Nat
    BY <1>0
  <2> HIDE DEF n
  <2>2. QED
    BY <1>1, <1>2, <2>1, StringLoop
<1> DEFINE vec == [i \in 0..n |-> f[i].vec]
           res == [i \in 0..n |-> f[i].res]
           next == [i \in 0..n |-> f[i].next]
           found == {i \in 1..n : i >= next[i - 1] /\ Occurs(s, tag, i)}
           free == {i \in 1..n : i >= next[i - 1] /\ ~Occurs(s, tag, i)}
<1>6. /\ vec \in [0..n -> Seq(Seq(Char))] /\ res \in [0..n -> Seq(Char)]
      /\ next \in [0..n -> Nat]
  BY DEF StringState
<1>7. vec[0] = <<>> /\ res[0] = <<>> /\ next[0] = 1
  BY <1>0, <1>5 DEF Passes, first
<1>8. ASSUME NEW i \in 1..n
      PROVE  /\ i < next[i - 1] => vec[i] = vec[i - 1] /\ res[i] = res[i - 1] /\ next[i] = next[i - 1]
             /\ i \in free => /\ vec[i] = vec[i - 1] /\ next[i] = next[i - 1]
                              /\ res[i] = Append(res[i - 1], s[i])
             /\ i \in found =>
                  /\ res[i] = <<>> /\ next[i] = i + L
                  /\ vec[i] = IF res[i - 1] = <<>> THEN vec[i - 1]
                              ELSE Append(vec[i - 1], res[i - 1])
  <2>1. i \in 0..n /\ i - 1 \in 0..n /\ f[i - 1] \in StringState
    BY <1>0
  <2>2. f[i] = StringPass(s, tag, i, f[i - 1])
    BY <1>3, <1>5, <2>1 DEF Passes
  <2>3. /\ vec[i] = f[i].vec /\ res[i] = f[i].res /\ next[i] = f[i].next
        /\ vec[i - 1] = f[i - 1].vec /\ res[i - 1] = f[i - 1].res /\ next[i - 1] = f[i - 1].next
    BY <2>1
  <2> HIDE DEF vec, res, next
  <2>4. QED
    BY <2>1, <2>2, <2>3, StringPassIs
<1>9. \A i \in 1..n : i \in found \/ i \in free \/ i < next[i - 1]
  <2>1. ASSUME NEW i \in 1..n PROVE next[i - 1] \in Nat /\ i \in Nat
    <3>1. i - 1 \in 0..n /\ i \in Nat
      BY <1>0
    <3>2. QED
      BY <1>6, <3>1
  <2>2. QED
    BY <2>1
<1>10. \A i \in found : i \in 1..n /\ i >= next[i - 1] /\ Occurs(s, tag, i)
  OBVIOUS
<1>11. \A i \in free : i \in 1..n /\ i >= next[i - 1] /\ i \notin found
  OBVIOUS
<1>12. \A i \in 1..n : i >= next[i - 1] /\ Occurs(s, tag, i) => i \in found
  OBVIOUS
<1>13. found \subseteq 1..n /\ free \subseteq 1..n
  OBVIOUS
<1> HIDE DEF vec, res, next, found, free
(* The separators found so far end before next, and it is behind the last. *)
<1> DEFINE Good(i) == /\ \A q \in found : q <= i => q + L <= next[i]
                      /\ next[i] = 1 \/ \E q \in found : q <= i /\ next[i] = q + L
                      /\ next[i] > i + 1 => res[i] = <<>>
           good == {i \in 0..n : Good(i)}
<1>14. 0 \in good
  <2>1. \A q \in found : q > 0 /\ ~(q <= 0)
    BY <1>0, <1>13
  <2>2. Good(0)
    BY <1>7, <2>1
  <2>3. QED
    BY <1>0, <2>2
<1>15. ASSUME NEW i \in 1..n, i - 1 \in good PROVE i \in good
  <2>1. Good(i - 1)
    BY <1>15
  <2>2. /\ i \in Nat /\ i - 1 \in 0..n /\ i \in 0..n /\ next[i - 1] \in Nat /\ next[i] \in Nat
        /\ \A q \in found : q \in Nat
    <3>1. i \in Nat /\ i - 1 \in 0..n /\ i \in 0..n
      BY <1>0
    <3>2. next[i - 1] \in Nat /\ next[i] \in Nat
      BY <1>6, <3>1
    <3>3. \A q \in found : q \in Nat
      BY <1>0, <1>13
    <3>4. QED
      BY <3>1, <3>2, <3>3
  <2>3. CASE i \in found
    <3>1. next[i] = i + L /\ res[i] = <<>>
      BY <1>8, <2>3
    <3>2. ASSUME NEW q \in found, q <= i PROVE q + L <= next[i]
      BY <1>0, <2>2, <3>1, <3>2
    <3>3. Good(i)
      BY <2>2, <2>3, <3>1, <3>2
    <3> HIDE DEF Good
    <3>4. QED
      BY <2>2, <3>3
  <2>4. CASE i \notin found
    <3>1. next[i] = next[i - 1]
      BY <1>8, <1>9, <2>4
    <3>2. ASSUME NEW q \in found, q <= i PROVE q + L <= next[i]
      <4>1. q <= i - 1
        BY <2>2, <2>4, <3>2
      <4>2. QED
        BY <2>1, <3>1, <4>1
    <3>3. next[i] = 1 \/ \E q \in found : q <= i /\ next[i] = q + L
      BY <2>1, <2>2, <3>1
    <3>4. ASSUME next[i] > i + 1 PROVE res[i] = <<>>
      <4>1. i < next[i - 1] /\ next[i - 1] > (i - 1) + 1
        BY <2>2, <3>1, <3>4
      <4>2. QED
        BY <1>8, <2>1, <4>1
    <3>5. Good(i)
      BY <3>2, <3>3, <3>4
    <3> HIDE DEF Good
    <3>6. QED
      BY <2>2, <3>5
  <2>5. QED
    BY <2>3, <2>4
<1>16. \A i \in 0..n : Good(i)
  <2>1. \A i \in 1..n : i - 1 \in good => i \in good
    BY <1>15
  <2>2. n \in Nat
    BY <1>0
  <2> HIDE DEF good, n
  <2>3. 0..n \subseteq good
    BY <1>14, <2>1, <2>2, UpTo
  <2>4. QED
    BY <2>3 DEF good
<1>17. ASSUME NEW i \in 1..n
       PROVE  /\ \A q \in found : q < i => q + L <= next[i - 1]
              /\ next[i - 1] = 1 \/ \E q \in found : q < i /\ next[i - 1] = q + L
              /\ next[i - 1] > i => res[i - 1] = <<>>
              /\ next[i - 1] \in Nat /\ i \in Nat
  <2>1. Good(i - 1)
    <3>1. i - 1 \in 0..n
      BY <1>0
    <3> HIDE DEF Good
    <3>2. QED
      BY <1>16, <3>1
  <2>2. /\ i \in Nat /\ i - 1 \in 0..n /\ next[i - 1] \in Nat /\ (i - 1) + 1 = i
        /\ \A q \in found : q \in Nat /\ (q <= i - 1 <=> q < i)
    <3>1. i \in Nat /\ i - 1 \in 0..n /\ (i - 1) + 1 = i
      BY <1>0
    <3>2. next[i - 1] \in Nat
      BY <1>6, <3>1
    <3>3. \A q \in found : q \in Nat
      BY <1>0, <1>13
    <3>4. QED
      BY <3>1, <3>2, <3>3
  <2>3. QED
    BY <2>1, <2>2
<1> HIDE DEF Good
<1>18. Separators(s, tag) = found
  <2>1. ASSUME NEW p \in DOMAIN s
        PROVE  p \in found <=> StandsAt(s, tag, p) /\ \A q \in found : q < p => q + Len(tag) <= p
    <3>1. p \in 1..n /\ p \in Nat /\ next[p - 1] \in Nat /\ \A q \in found : q \in Nat
      BY <1>0, <1>13, <1>17
    <3>2. ASSUME p \in found
          PROVE  StandsAt(s, tag, p) /\ \A q \in found : q < p => q + Len(tag) <= p
      <4>1. StandsAt(s, tag, p) /\ p >= next[p - 1]
        BY <1>10, <3>1, <3>2, OccursIs
      <4>2. ASSUME NEW q \in found, q < p PROVE q + L <= p
        <5>1. q + L <= next[p - 1]
          BY <1>17, <3>1, <4>2
        <5>2. QED
          BY <1>0, <3>1, <4>1, <5>1
      <4>3. QED
        BY <4>1, <4>2
    <3>3. ASSUME StandsAt(s, tag, p), \A q \in found : q < p => q + Len(tag) <= p
          PROVE  p \in found
      <4>1. p >= next[p - 1]
        <5>1. CASE next[p - 1] = 1
          BY <3>1, <5>1
        <5>2. CASE \E q \in found : q < p /\ next[p - 1] = q + L
          BY <3>1, <3>3, <5>2
        <5>3. QED
          BY <1>17, <3>1, <5>1, <5>2
      <4>2. Occurs(s, tag, p)
        BY <3>1, <3>3, OccursIs
      <4>3. QED
        BY <1>12, <3>1, <4>1, <4>2
    <3>4. QED
      BY <3>2, <3>3
  <2>2. found \in SUBSET DOMAIN s
    BY <1>0, <1>13
  <2>3. AreSeparators(found, s, tag)
    BY <2>1 DEF AreSeparators
  <2>4. QED
    BY <2>2, <2>3, SeparatorsAre
<1>19. Between(s, tag) = free
  <2>1. Between(s, tag) = {p \in 1..n : \A q \in found : p < q \/ p >= q + L}
    BY <1>0, <1>18 DEF Between
  <2>2. ASSUME NEW p \in 1..n
        PROVE  p \in free <=> \A q \in found : p < q \/ p >= q + L
    <3>1. p \in Nat /\ next[p - 1] \in Nat /\ \A q \in found : q \in Nat
      BY <1>0, <1>13, <1>17
    <3>2. ASSUME p \in free, NEW q \in found PROVE p < q \/ p >= q + L
      <4>1. p >= next[p - 1] /\ p # q
        BY <1>11, <3>2
      <4>2. CASE q < p
        <5>1. q + L <= next[p - 1]
          BY <1>17, <4>2
        <5>2. QED
          BY <1>0, <3>1, <4>1, <5>1
      <4>3. QED
        BY <3>1, <4>1, <4>2
    <3>3. ASSUME \A q \in found : p < q \/ p >= q + L PROVE p \in free
      <4>1. p \notin found
        BY <1>0, <3>1, <3>3
      <4>2. p >= next[p - 1]
        <5>1. CASE next[p - 1] = 1
          BY <3>1, <5>1
        <5>2. CASE \E q \in found : q < p /\ next[p - 1] = q + L
          <6>1. PICK q \in found : q < p /\ next[p - 1] = q + L
            BY <5>2
          <6>2. QED
            BY <3>1, <3>3, <6>1
        <5>3. QED
          BY <1>17, <5>1, <5>2
      <4>3. QED
        BY <1>9, <3>1, <4>1, <4>2
    <3>4. QED
      BY <3>2, <3>3
  <2>3. QED
    BY <1>13, <2>1, <2>2
<1>20. AreFields(IF res[n] = <<>> THEN vec[n] ELSE Append(vec[n], res[n]), s, free)
  <2>1. \A i \in free : vec[i] = vec[i - 1] /\ res[i] = Append(res[i - 1], s[i])
    BY <1>8, <1>13
  <2>2. ASSUME NEW i \in DOMAIN s \ free
        PROVE  /\ res[i] = <<>>
               /\ vec[i] = IF res[i - 1] = <<>> THEN vec[i - 1]
                           ELSE Append(vec[i - 1], res[i - 1])
    <3>1. i \in 1..n /\ i \notin free
      BY <1>0
    <3>2. CASE i \in found
      BY <1>8, <3>1, <3>2
    <3>3. CASE i \notin found
      <4>1. i < next[i - 1]
        BY <1>9, <3>1, <3>3
      <4>2. next[i - 1] > i
        BY <1>17, <3>1, <4>1
      <4>3. res[i - 1] = <<>>
        BY <1>17, <3>1, <4>2
      <4>4. vec[i] = vec[i - 1] /\ res[i] = res[i - 1]
        BY <1>8, <3>1, <4>1
      <4>5. QED
        BY <4>3, <4>4
    <3>4. QED
      BY <3>2, <3>3
  <2>3. free \in SUBSET DOMAIN s
    BY <1>0, <1>13
  <2>4. QED
    BY <1>6, <1>7, <2>1, <2>2, <2>3, FieldsRead
<1>21. f[n] \in StringState /\ vec[n] = f[n].vec /\ res[n] = f[n].res
  BY <1>0 DEF vec, res
<1>22. Ended(f[n]).vec = IF res[n] = <<>> THEN vec[n] ELSE Append(vec[n], res[n])
  BY <1>21, EndedString
<1>23. QED
  BY <1>4, <1>5, <1>19, <1>20, <1>22

-----------------------------------------------------------------------------
(* StringSplit by an array of characters.                                  *)

(* The state of the loop of the split by an array, and one pass of it.     *)
ArrayState(s) == [vec : Seq(Seq(Char)), first : 1..Len(s), flag : BOOLEAN]

ArrayPass(s, tags, i, f) ==
  IF s[i] \notin tags
    THEN IF f.flag THEN f ELSE [f EXCEPT !.first = i, !.flag = TRUE]
  ELSE [f EXCEPT !.flag = FALSE,
         !.vec = Append(@, IF f.flag THEN SubSeq(s, f.first, i - 1) ELSE <<>>)]

(* Loops over this state go through such states.                           *)
LEMMA ArrayLoop ==
  ASSUME NEW s, NEW n \in Nat, NEW step \in [1..n -> [ArrayState(s) -> ArrayState(s)]],
         NEW start \in ArrayState(s)
  PROVE  \E f \in [0..n -> ArrayState(s)] : Passes(f, step, start, n) /\ Loop(step, start, n) = f[n]
  BY LoopIs

(* What is behind the last separator is a part of the text also when no    *)
(* field has begun.                                                        *)
Behind(f, i) == IF f.flag THEN f.first ELSE i

(* The cases of a pass.                                                    *)
LEMMA ArrayPassIs ==
  ASSUME NEW s \in Seq(Char), NEW tags, NEW i \in 1..Len(s),
         NEW f \in ArrayState(s)
  PROVE  /\ s[i] \notin tags =>
              /\ ArrayPass(s, tags, i, f).vec = f.vec /\ ArrayPass(s, tags, i, f).flag
              /\ ArrayPass(s, tags, i, f).first = Behind(f, i)
         /\ s[i] \in tags =>
              /\ ArrayPass(s, tags, i, f).vec = Append(f.vec, SubSeq(s, Behind(f, i), i - 1))
              /\ ~ArrayPass(s, tags, i, f).flag /\ ArrayPass(s, tags, i, f).first = f.first
         /\ ArrayPass(s, tags, i, f) \in ArrayState(s)
         /\ SubSeq(s, Behind(f, i), i - 1) \in Seq(Char)
<1>1. /\ f.vec \in Seq(Seq(Char)) /\ f.first \in 1..Len(s) /\ f.flag \in BOOLEAN
      /\ f = [vec |-> f.vec, first |-> f.first, flag |-> f.flag]
  BY DEF ArrayState
<1>2. i \in Nat /\ Len(s) \in Nat /\ \A k \in 1..Len(s) : s[k] \in Char
  BY ElementOfSeq, LenProperties
<1>3. Behind(f, i) \in 1..Len(s)
  BY <1>1 DEF Behind
<1>4. SubSeq(s, Behind(f, i), i - 1) \in Seq(Char)
  <2>1. \A k \in Behind(f, i)..(i - 1) : s[k] \in Char
    BY <1>2, <1>3
  <2>2. QED
    BY <1>2, <1>3, <2>1, SubSeqProperties
<1>5. CASE s[i] \notin tags
  <2>1. ArrayPass(s, tags, i, f) = [vec |-> f.vec, first |-> Behind(f, i), flag |-> TRUE]
    <3>1. CASE f.flag
      BY <1>1, <1>5, <3>1 DEF ArrayPass, Behind
    <3>2. CASE ~f.flag
      BY <1>1, <1>5, <3>2 DEF ArrayPass, Behind
    <3>3. QED
      BY <3>1, <3>2
  <2>2. ArrayPass(s, tags, i, f) \in ArrayState(s)
    BY <1>1, <1>3, <2>1 DEF ArrayState
  <2>3. QED
    BY <1>4, <1>5, <2>1, <2>2
<1>6. CASE s[i] \in tags
  <2>1. (IF f.flag THEN SubSeq(s, f.first, i - 1) ELSE <<>>) = SubSeq(s, Behind(f, i), i - 1)
    <3>1. SubSeq(s, i, i - 1) = <<>>
      BY <1>2, SubSeqEmpty
    <3>2. QED
      BY <3>1 DEF Behind
  <2>2. ArrayPass(s, tags, i, f) = [vec |-> Append(f.vec, SubSeq(s, Behind(f, i), i - 1)),
                                    first |-> f.first, flag |-> FALSE]
    BY <1>1, <1>6, <2>1 DEF ArrayPass
  <2>3. Append(f.vec, SubSeq(s, Behind(f, i), i - 1)) \in Seq(Seq(Char))
    BY <1>1, <1>4, AppendTyped
  <2>4. ArrayPass(s, tags, i, f) \in ArrayState(s)
    BY <1>1, <2>2, <2>3 DEF ArrayState
  <2>5. /\ ArrayPass(s, tags, i, f).vec = Append(f.vec, SubSeq(s, Behind(f, i), i - 1))
        /\ ~ArrayPass(s, tags, i, f).flag /\ ArrayPass(s, tags, i, f).first = f.first
    <3> DEFINE v == Append(f.vec, SubSeq(s, Behind(f, i), i - 1))
    <3>1. ArrayPass(s, tags, i, f) = [vec |-> v, first |-> f.first, flag |-> FALSE]
      BY <2>2
    <3> HIDE DEF v
    <3>2. /\ ArrayPass(s, tags, i, f).vec = v /\ ~ArrayPass(s, tags, i, f).flag
          /\ ArrayPass(s, tags, i, f).first = f.first
      BY <3>1
    <3>3. QED
      BY <3>2 DEF v
  <2>6. QED
    BY <1>4, <1>6, <2>4, <2>5
<1>7. QED
  BY <1>5, <1>6

(* At a separator what is behind the last one is appended.                 *)
LEMMA ArrayPassEnds ==
  ASSUME NEW s \in Seq(Char), NEW tags, NEW i \in 1..Len(s), NEW f \in ArrayState(s), s[i] \in tags
  PROVE  /\ ArrayPass(s, tags, i, f).vec = Append(f.vec, SubSeq(s, Behind(f, i), i - 1))
         /\ ~ArrayPass(s, tags, i, f).flag /\ ArrayPass(s, tags, i, f).first = f.first
         /\ SubSeq(s, Behind(f, i), i - 1) \in Seq(Char)
  BY ArrayPassIs

(* The number of a set's members below a place.                            *)
Below(S, p) == Cardinality({m \in S : m < p})

(* Counting goes up by one at a member, and ends at the number of members. *)
LEMMA BelowNext ==
  ASSUME NEW n \in Nat, NEW S \in SUBSET (1..n), NEW i \in Nat
  PROVE  /\ Below(S, i) \in Nat /\ Below(S, 1) = 0
         /\ Below(S, i + 1) = IF i \in S THEN Below(S, i) + 1 ELSE Below(S, i)
         /\ Below(S, n + 1) = Cardinality(S)
<1>1. IsFiniteSet(S)
  <2>1. IsFiniteSet(1..n)
    BY FS_Interval
  <2>2. QED
    BY <2>1, FS_Subset
<1>2. ASSUME NEW m \in S
      PROVE  ~(m < 1) /\ m < n + 1 /\ (m < i + 1 <=> m < i \/ m = i) /\ (m < i => m # i)
  OBVIOUS
<1>3. \A p \in Nat : IsFiniteSet({m \in S : m < p})
  BY <1>1, FS_Subset
<1>4. Below(S, i) \in Nat
  BY <1>3, FS_CardinalityType DEF Below
<1>5. Below(S, 1) = 0
  <2>1. {m \in S : m < 1} = {}
    BY <1>2
  <2>2. QED
    BY <2>1, FS_EmptySet DEF Below
<1>6. Below(S, n + 1) = Cardinality(S)
  <2>1. {m \in S : m < n + 1} = S
    BY <1>2
  <2>2. QED
    BY <2>1 DEF Below
<1>7. CASE i \in S
  <2> DEFINE below == {m \in S : m < i}
  <2>1. {m \in S : m < i + 1} = below \cup {i}
    BY <1>2, <1>7
  <2>2. i \notin below /\ IsFiniteSet(below)
    BY <1>3
  <2>3. Below(S, i) = Cardinality(below) /\ Below(S, i + 1) = Cardinality({m \in S : m < i + 1})
    BY DEF Below
  <2> HIDE DEF below
  <2>4. Cardinality(below \cup {i}) = Cardinality(below) + 1
    BY <2>2, FS_AddElement
  <2>5. QED
    BY <1>4, <1>5, <1>6, <1>7, <2>1, <2>3, <2>4
<1>8. CASE i \notin S
  <2>1. {m \in S : m < i + 1} = {m \in S : m < i}
    BY <1>2, <1>8
  <2>2. QED
    BY <1>4, <1>5, <1>6, <1>8, <2>1 DEF Below
<1>9. QED
  BY <1>7, <1>8

(* A field, or the place behind a separator, that goes on up to p begins   *)
(* behind the last separator before p.                                     *)
LEMMA LastBefore ==
  ASSUME NEW S \in SUBSET (Nat \ {0}), NEW p \in Nat, NEW b \in Nat, b - 1 \in S \cup {0},
         \A m \in S : m < b \/ m >= p,
         NEW q \in S \cup {0}, q < p, \A m \in S : m <= q \/ m >= p, b <= p, b >= 1
  PROVE  q = b - 1
<1>1. q \in Nat
  OBVIOUS
<1>2. CASE q < b - 1
  <2>1. b - 1 \in S
    BY <1>1, <1>2
  <2>2. QED
    BY <1>1, <1>2, <2>1
<1>3. CASE q > b - 1
  <2>1. q \in S
    BY <1>1, <1>3
  <2>2. QED
    BY <1>1, <1>3, <2>1
<1>4. QED
  BY <1>1, <1>2, <1>3

(* A loop without a pass leaves its start as it is.                        *)
AtFirst == {[vec |-> <<>>, first |-> 1, flag |-> FALSE]}

LEMMA LoopAtFirst ==
  ASSUME NEW n \in Nat, NEW step \in [1..n -> [AtFirst -> AtFirst]], NEW start \in AtFirst
  PROVE  \E f \in [0..n -> AtFirst] : Passes(f, step, start, n) /\ Loop(step, start, n) = f[n]
  BY LoopIs

(* An empty text is one empty field.                                       *)
LEMMA SplitArrayOfNone ==
  ASSUME NEW tags
  PROVE  AreBetween(SplitArray(<<>>, tags), <<>>, tags)
<1> DEFINE first == [vec |-> <<>>, first |-> 1, flag |-> FALSE]
           (* The loop has no pass. *)
           body == [i \in DOMAIN <<>> |->
                     [f \in [vec : Seq(Seq(Char)), first : DOMAIN <<>>, flag : BOOLEAN] |->
                        ArrayPass(<<>>, tags, i, f)]]
<1>1. Len(<<>>) = 0 /\ DOMAIN <<>> = {}
  OBVIOUS
<1>2. SplitArray(<<>>, tags) = Append(Loop(body, first, 0).vec, SubSeq(<<>>, Loop(body, first, 0).first, 0))
  BY <1>1 DEF SplitArray, ArrayPass
<1>3. body \in [1..0 -> [AtFirst -> AtFirst]] /\ first \in AtFirst
  BY <1>1 DEF AtFirst
<1>4. Loop(body, first, 0) = first
  <2> HIDE DEF body, first
  <2>1. \E f \in [0..0 -> AtFirst] : Loop(body, first, 0) = f[0]
    BY <1>3, LoopAtFirst
  <2>2. \A g \in AtFirst : g = first
    BY DEF AtFirst, first
  <2>3. QED
    BY <2>1, <2>2
<1>5. first.vec = <<>> /\ first.first = 1
  OBVIOUS
<1> HIDE DEF body, first
<1>6. SplitArray(<<>>, tags) = Append(<<>>, SubSeq(<<>>, 1, 0))
  BY <1>2, <1>4, <1>5
<1>7. Append(<<>>, SubSeq(<<>>, 1, 0)) = <<SubSeq(<<>>, 1, 0)>>
  OBVIOUS
<1> DEFINE vec == SplitArray(<<>>, tags)
<1>8. Len(vec) = 1 /\ vec[1] = SubSeq(<<>>, 1, 0)
  BY <1>6, <1>7
<1>9. AreBetween(vec, <<>>, tags) <=>
        /\ Len(vec) = Cardinality({}) + 1
        /\ vec[Cardinality({}) + 1] = SubSeq(<<>>, 1, 0)
  <2>1. {p \in DOMAIN <<>> : <<>>[p] \in tags} = {}
    BY <1>1
  <2> HIDE DEF vec
  <2>2. QED
    BY <1>1, <2>1 DEF AreBetween
<1>10. Cardinality({}) = 0
  BY FS_EmptySet
<1>11. Cardinality({}) + 1 = 1
  BY <1>10
<1> HIDE DEF vec
<1>12. AreBetween(vec, <<>>, tags)
  BY <1>8, <1>9, <1>11
<1>13. QED
  BY <1>12 DEF vec

(* The split by an array gives what is between the separators.             *)
LEMMA SplitArrayFields ==
  ASSUME NEW s \in Seq(Char), NEW tags, s # <<>>
  PROVE  AreBetween(SplitArray(s, tags), s, tags)
<1> DEFINE n == Len(s)
           seps == {p \in DOMAIN s : s[p] \in tags}
           begins == {b \in DOMAIN s : b \notin seps /\ b - 1 \in seps \cup {0}}
           first == [vec |-> <<>>, first |-> 1, flag |-> FALSE]
           body == [i \in DOMAIN s |-> [f \in ArrayState(s) |-> ArrayPass(s, tags, i, f)]]
<1>0. n \in Nat /\ DOMAIN s = 1..n /\ \A i \in 1..n : s[i] \in Char
  BY LenProperties, ElementOfSeq
<1>1. n >= 1
  <2>1. n # 0
    BY EmptySeq
  <2>2. QED
    BY <1>0, <2>1
<1>2. first \in ArrayState(s)
  <2>1. 1 \in 1..Len(s)
    BY <1>0, <1>1
  <2>2. QED
    BY <2>1 DEF ArrayState
<1>3. body \in [1..n -> [ArrayState(s) -> ArrayState(s)]]
  BY <1>0, ArrayPassIs
<1>4. \A i \in 1..n, f \in ArrayState(s) : body[i][f] = ArrayPass(s, tags, i, f)
  BY <1>0
<1> DEFINE end == Loop(body, first, n)
<1>5. SplitArray(s, tags) = Append(end.vec, SubSeq(s, end.first, n))
  BY <1>0 DEF SplitArray, ArrayPass, ArrayState
<1> HIDE DEF body, first
<1>6. PICK f \in [0..n -> ArrayState(s)] : Passes(f, body, first, n) /\ end = f[n]
  <2>1. n \in Nat
    BY <1>0
  <2> HIDE DEF n
  <2>2. QED
    BY <1>2, <1>3, <2>1, ArrayLoop
<1> DEFINE vec == [i \in 0..n |-> f[i].vec]
           flag == [i \in 0..n |-> f[i].flag]
           (* The place behind the last separator, or where the field begins. *)
           from == [i \in 0..n |-> Behind(f[i], i + 1)]
           (* Where the last field with characters begins. *)
           begun == [i \in 0..n |-> f[i].first]
           K(p) == Below(seps, p)
<1>7. ASSUME NEW i \in 0..n
      PROVE  /\ vec[i] \in Seq(Seq(Char)) /\ flag[i] \in BOOLEAN
             /\ from[i] \in 1..(n + 1) /\ begun[i] \in 1..n
  <2>1. f[i] \in ArrayState(s)
    OBVIOUS
  <2>2. f[i].vec \in Seq(Seq(Char)) /\ f[i].flag \in BOOLEAN /\ f[i].first \in 1..n
    BY <2>1 DEF ArrayState
  <2>3. from[i] \in 1..(n + 1)
    BY <1>0, <2>2 DEF Behind
  <2>4. QED
    BY <2>2, <2>3
<1>8. vec[0] = <<>> /\ ~flag[0] /\ from[0] = 1 /\ begun[0] = 1
  BY <1>0, <1>6 DEF Passes, first, Behind
<1>9. ASSUME NEW i \in 1..n
      PROVE  /\ i \notin seps => /\ vec[i] = vec[i - 1] /\ flag[i] /\ from[i] = from[i - 1]
                                 /\ begun[i] = from[i]
             /\ i \in seps => /\ vec[i] = Append(vec[i - 1], SubSeq(s, from[i - 1], i - 1))
                              /\ ~flag[i] /\ from[i] = i + 1 /\ begun[i] = begun[i - 1]
             /\ SubSeq(s, from[i - 1], i - 1) \in Seq(Char)
  <2>1. i \in 0..n /\ i - 1 \in 0..n /\ f[i - 1] \in ArrayState(s) /\ (i - 1) + 1 = i
    BY <1>0
  <2>2. f[i] = ArrayPass(s, tags, i, f[i - 1])
    BY <1>4, <1>6, <2>1 DEF Passes
  <2>3. /\ vec[i] = f[i].vec /\ flag[i] = f[i].flag /\ from[i] = Behind(f[i], i + 1)
        /\ vec[i - 1] = f[i - 1].vec /\ flag[i - 1] = f[i - 1].flag
        /\ from[i - 1] = Behind(f[i - 1], i) /\ begun[i] = f[i].first /\ begun[i - 1] = f[i - 1].first
    BY <2>1
  <2>4. i \in seps <=> s[i] \in tags
    BY <1>0
  <2> HIDE DEF vec, flag, from, begun, seps
  <2>5. CASE i \in seps
    <3>1. /\ f[i].vec = Append(f[i - 1].vec, SubSeq(s, Behind(f[i - 1], i), i - 1))
          /\ ~f[i].flag /\ SubSeq(s, Behind(f[i - 1], i), i - 1) \in Seq(Char)
          /\ f[i].first = f[i - 1].first
      <4> DEFINE g == f[i - 1]
                 h == ArrayPass(s, tags, i, g)
      <4>1. g \in ArrayState(s) /\ s[i] \in tags /\ f[i] = h
        BY <2>1, <2>2, <2>4, <2>5
      <4> HIDE DEF g
      <4>2. /\ h.vec = Append(g.vec, SubSeq(s, Behind(g, i), i - 1)) /\ ~h.flag /\ h.first = g.first
            /\ SubSeq(s, Behind(g, i), i - 1) \in Seq(Char)
        BY <4>1, ArrayPassEnds
      <4> HIDE DEF h
      <4>3. QED
        BY <4>1, <4>2 DEF g
    <3>2. from[i] = i + 1
      BY <2>3, <3>1 DEF Behind
    <3>3. QED
      BY <2>3, <2>5, <3>1, <3>2
  <2>6. CASE i \notin seps
    <3>1. /\ f[i].vec = f[i - 1].vec /\ f[i].flag /\ f[i].first = Behind(f[i - 1], i)
          /\ SubSeq(s, Behind(f[i - 1], i), i - 1) \in Seq(Char)
      BY <2>1, <2>2, <2>4, <2>6, ArrayPassIs
    <3>2. from[i] = Behind(f[i - 1], i)
      BY <2>3, <3>1 DEF Behind
    <3>3. QED
      BY <2>3, <2>6, <3>1, <3>2
  <2>7. QED
    BY <2>5, <2>6
<1>10. seps \in SUBSET (1..n)
  BY <1>0
<1>11. \A p \in Nat : K(p) \in Nat /\ K(p + 1) = IF p \in seps THEN K(p) + 1 ELSE K(p)
  BY <1>0, <1>10, BelowNext
<1>12. K(1) = 0 /\ K(n + 1) = Cardinality(seps)
  BY <1>0, <1>10, BelowNext
<1>13. AreBetween(SplitArray(s, tags), s, tags) <=>
         /\ Len(SplitArray(s, tags)) = Cardinality(seps) + 1
         /\ \A q \in seps \cup {0}, p \in seps :
              q < p /\ (\A m \in seps : m <= q \/ m >= p) =>
                SplitArray(s, tags)[K(p) + 1] = SubSeq(s, q + 1, p - 1)
         /\ \E b \in begins \cup {1} :
              /\ \A c \in begins : c <= b
              /\ SplitArray(s, tags)[Cardinality(seps) + 1] = SubSeq(s, b, n)
  BY DEF AreBetween, Below
<1>14. /\ \A b \in begins : b \in 1..n /\ b \notin seps /\ b - 1 \in seps \cup {0}
       /\ \A b \in 1..n : b \notin seps /\ b - 1 \in seps \cup {0} => b \in begins
  BY <1>0
<1> HIDE DEF vec, flag, from, begun, seps, begins, K, end

<1> DEFINE Value(v, p) ==
             \A q \in seps \cup {0} :
               q < p /\ (\A m \in seps : m <= q \/ m >= p) => v = SubSeq(s, q + 1, p - 1)
           Good(i) == /\ Len(vec[i]) = K(i + 1)
                      /\ \A p \in seps : p <= i => K(p) < Len(vec[i]) /\ Value(vec[i][K(p) + 1], p)
                      /\ from[i] - 1 \in seps \cup {0} /\ \A m \in seps : m < from[i] \/ m >= i + 1
                      /\ from[i] <= i + 1
           good == {i \in 0..n : Good(i)}
<1>15. \A p \in seps : p \in 1..n /\ p \in Nat /\ p # 0
  BY <1>0, <1>10
(* The field that ends before p is the one behind the last separator.      *)
<1>16. ASSUME NEW i \in 0..n, Good(i) PROVE Value(SubSeq(s, from[i], i), i + 1)
  <2>1. ASSUME NEW q \in seps \cup {0}, q < i + 1, \A m \in seps : m <= q \/ m >= i + 1
        PROVE  q + 1 = from[i]
    <3>1. from[i] \in Nat /\ from[i] >= 1 /\ i + 1 \in Nat
      BY <1>0, <1>7
    <3>2. seps \in SUBSET (Nat \ {0})
      BY <1>15
    <3>3. from[i] - 1 \in seps \cup {0} /\ from[i] <= i + 1 /\ \A m \in seps : m < from[i] \/ m >= i + 1
      BY <1>16
    <3> HIDE DEF Good, Value, good
    <3>4. q = from[i] - 1
      BY <2>1, <3>1, <3>2, <3>3, LastBefore
    <3>5. QED
      BY <3>1, <3>4
  <2>2. (i + 1) - 1 = i
    BY <1>0
  <2>3. QED
    BY <2>1, <2>2
<1>17. 0 \in good
  <2>1. Len(vec[0]) = K(0 + 1)
    BY <1>8, <1>12
  <2>2. \A p \in seps : ~(p <= 0) /\ p >= 0 + 1
    BY <1>15
  <2>3. from[0] - 1 \in seps \cup {0} /\ from[0] <= 0 + 1
    BY <1>8
  <2>4. Good(0)
    BY <2>1, <2>2, <2>3
  <2> HIDE DEF Good
  <2>5. QED
    BY <1>0, <2>4
<1>18. ASSUME NEW i \in 1..n, i - 1 \in good PROVE i \in good
  <2>1. Good(i - 1)
    BY <1>18
  <2>2. i \in Nat /\ i \in 0..n /\ i - 1 \in 0..n /\ (i - 1) + 1 = i
    BY <1>0
  <2>3. from[i - 1] \in 1..(n + 1) /\ vec[i - 1] \in Seq(Seq(Char))
    BY <1>7, <2>2
  <2>4. /\ Len(vec[i - 1]) = K(i)
        /\ \A p \in seps : p <= i - 1 => K(p) < Len(vec[i - 1]) /\ Value(vec[i - 1][K(p) + 1], p)
        /\ from[i - 1] - 1 \in seps \cup {0} /\ from[i - 1] <= i
        /\ \A m \in seps : m < from[i - 1] \/ m >= i
    BY <2>1, <2>2
  <2>5. CASE i \notin seps
    <3>1. vec[i] = vec[i - 1] /\ from[i] = from[i - 1] /\ K(i + 1) = K(i)
      BY <1>9, <1>11, <2>2, <2>5
    <3>2. \A p \in seps : p <= i => p <= i - 1
      BY <1>15, <2>2, <2>5
    <3>3. \A m \in seps : m < from[i] \/ m >= i + 1
      BY <1>15, <2>2, <2>4, <2>5, <3>1
    <3>4. from[i] <= i + 1
      BY <1>0, <2>2, <2>3, <2>4, <3>1
    <3> HIDE DEF Value
    <3>5. Good(i)
      BY <2>4, <3>1, <3>2, <3>3, <3>4
    <3> HIDE DEF Good
    <3>6. QED
      BY <2>2, <3>5
  <2>6. CASE i \in seps
    <3> DEFINE last == SubSeq(s, from[i - 1], i - 1)
    <3>1. vec[i] = Append(vec[i - 1], last) /\ from[i] = i + 1 /\ K(i + 1) = K(i) + 1 /\ last \in Seq(Char)
      BY <1>9, <1>11, <2>2, <2>6
    <3>2. Value(last, i)
      <4> HIDE DEF Value, Good
      <4>1. Value(SubSeq(s, from[i - 1], i - 1), (i - 1) + 1)
        BY <1>16, <2>1, <2>2
      <4>2. QED
        BY <2>2, <4>1
    <3> HIDE DEF last, Value
    <3>3. /\ Len(vec[i]) = K(i) + 1 /\ vec[i][K(i) + 1] = last
          /\ \A k \in 1..K(i) : vec[i][k] = vec[i - 1][k]
      BY <2>3, <2>4, <3>1, AppendProperties
    <3>4. ASSUME NEW p \in seps, p <= i
          PROVE  K(p) < Len(vec[i]) /\ Value(vec[i][K(p) + 1], p)
      <4>1. K(i) \in Nat /\ K(p) \in Nat
        BY <1>11, <1>15, <2>2
      <4>2. CASE p = i
        BY <3>2, <3>3, <4>1, <4>2
      <4>3. CASE p # i
        <5>1. p <= i - 1
          BY <1>15, <2>2, <3>4, <4>3
        <5>2. K(p) < K(i) /\ Value(vec[i - 1][K(p) + 1], p)
          BY <2>4, <5>1
        <5>3. K(p) + 1 \in 1..K(i)
          BY <4>1, <5>2
        <5>4. K(p) < Len(vec[i])
          BY <3>3, <4>1, <5>2
        <5>5. QED
          BY <3>3, <5>2, <5>3, <5>4
      <4>4. QED
        BY <4>2, <4>3
    <3>5. /\ from[i] - 1 \in seps \cup {0} /\ from[i] <= i + 1
          /\ \A m \in seps : m < from[i] \/ m >= i + 1
      BY <1>15, <2>2, <2>6, <3>1
    <3>6. Good(i)
      BY <3>1, <3>3, <3>4, <3>5
    <3> HIDE DEF Good
    <3>7. QED
      BY <2>2, <3>6
  <2>7. QED
    BY <2>5, <2>6
<1>19. 0..n \subseteq good
  <2>1. \A i \in 1..n : i - 1 \in good => i \in good
    BY <1>18
  <2>2. n \in Nat
    BY <1>0
  <2> HIDE DEF good, n
  <2>3. QED
    BY <1>17, <2>1, <2>2, UpTo
(* Where the last field with characters begins is the last begin of one.   *)
<1> DEFINE Begun(i) == begun[i] \in begins \cup {1} /\ \A c \in begins : c <= i => c <= begun[i]
           begunWell == {i \in 0..n : Begun(i)}
<1>20. 0 \in begunWell
  <2>1. \A c \in begins : ~(c <= 0)
    BY <1>14
  <2>2. QED
    BY <1>0, <1>8, <2>1
<1>21. ASSUME NEW i \in 1..n, i - 1 \in begunWell PROVE i \in begunWell
  <2>1. i \in Nat /\ i \in 0..n /\ i - 1 \in 0..n /\ (i - 1) + 1 = i
    BY <1>0
  <2>2. begun[i - 1] \in begins \cup {1} /\ \A c \in begins : c <= i - 1 => c <= begun[i - 1]
    BY <1>21
  <2>3. CASE i \in seps
    <3>1. begun[i] = begun[i - 1]
      BY <1>9, <2>3
    <3>2. \A c \in begins : c <= i => c <= i - 1
      BY <1>14, <2>1, <2>3
    <3>3. QED
      BY <2>1, <2>2, <3>1, <3>2
  <2>4. CASE i \notin seps
    <3>1. begun[i] = from[i] /\ from[i] = from[i - 1]
      BY <1>9, <2>4
    <3>2. /\ from[i] - 1 \in seps \cup {0} /\ from[i] <= i
          /\ \A m \in seps : m < from[i] \/ m >= i + 1
      <4>1. Good(i) /\ Good(i - 1)
        BY <1>19, <2>1
      <4>2. QED
        BY <2>1, <3>1, <4>1
    <3>3. from[i] \in 1..i
      BY <1>7, <2>1, <3>2
    <3>4. from[i] \in begins
      <4>1. from[i] \in 1..n /\ from[i] \notin seps
        BY <1>0, <2>1, <3>2, <3>3
      <4>2. QED
        BY <1>14, <3>2, <4>1
    <3>5. ASSUME NEW c \in begins, c <= i PROVE c <= from[i]
      <4>1. c \in 1..n /\ c - 1 \in seps \cup {0}
        BY <1>14
      <4>2. QED
        BY <1>0, <2>1, <3>2, <3>3, <3>5, <4>1
    <3>6. QED
      BY <2>1, <3>1, <3>4, <3>5
  <2>5. QED
    BY <2>3, <2>4
<1>22. n \in 0..n /\ n \in 1..n
  BY <1>0, <1>1
<1>23. Good(n) /\ Begun(n)
  <2>1. \A i \in 1..n : i - 1 \in begunWell => i \in begunWell
    BY <1>21
  <2>2. n \in Nat
    BY <1>0
  <2> HIDE DEF begunWell, n
  <2>3. 0..n \subseteq begunWell
    BY <1>20, <2>1, <2>2, UpTo
  <2> USE DEF begunWell
  <2>4. QED
    BY <1>19, <1>22, <2>3
<1>24. end.vec = vec[n] /\ end.first = begun[n]
  <2>1. vec[n] = f[n].vec /\ begun[n] = f[n].first
    BY <1>22 DEF vec, begun
  <2>2. QED
    BY <1>6, <2>1
<1> DEFINE last == SubSeq(s, begun[n], n)
           long == Append(vec[n], last)
<1>25. SplitArray(s, tags) = long
  BY <1>5, <1>24
<1>26. last \in Seq(Char) /\ vec[n] \in Seq(Seq(Char))
  <2>1. vec[n] \in Seq(Seq(Char)) /\ begun[n] \in 1..n
    BY <1>7, <1>22
  <2>2. \A k \in begun[n]..n : s[k] \in Char
    BY <1>0, <2>1
  <2>3. QED
    BY <1>0, <2>1, <2>2, SubSeqProperties
<1>27. K(n + 1) \in Nat /\ Len(vec[n]) = K(n + 1)
  BY <1>0, <1>11, <1>23
<1> HIDE DEF last, Value
<1>28. /\ Len(long) = K(n + 1) + 1 /\ long[K(n + 1) + 1] = last
       /\ \A k \in 1..K(n + 1) : long[k] = vec[n][k]
  BY <1>26, <1>27, AppendProperties
<1>29. ASSUME NEW p \in seps PROVE Value(long[K(p) + 1], p)
  <2>1. p <= n /\ K(p) \in Nat
    BY <1>11, <1>15
  <2>2. K(p) < K(n + 1) /\ Value(vec[n][K(p) + 1], p)
    BY <1>23, <1>27, <2>1
  <2>3. K(p) + 1 \in 1..K(n + 1)
    BY <1>27, <2>1, <2>2
  <2> HIDE DEF long
  <2>4. QED
    BY <1>28, <2>2, <2>3
<1> HIDE DEF long
<1>30. \A q \in seps \cup {0}, p \in seps :
         q < p /\ (\A m \in seps : m <= q \/ m >= p) =>
           SplitArray(s, tags)[K(p) + 1] = SubSeq(s, q + 1, p - 1)
  BY <1>25, <1>29 DEF Value
<1>31. \E b \in begins \cup {1} :
         /\ \A c \in begins : c <= b
         /\ SplitArray(s, tags)[Cardinality(seps) + 1] = SubSeq(s, b, n)
  <2>1. \A c \in begins : c <= begun[n]
    BY <1>14, <1>23
  <2>2. SplitArray(s, tags)[Cardinality(seps) + 1] = SubSeq(s, begun[n], n)
    BY <1>12, <1>25, <1>28 DEF last
  <2>3. QED
    BY <1>23, <2>1, <2>2
<1>32. QED
  BY <1>12, <1>13, <1>25, <1>28, <1>30, <1>31

-----------------------------------------------------------------------------
(* StringTrimVector.                                                       *)

(* A finite set as a sequence has each of its elements once.               *)
LEMMA SetToSeqIs ==
  ASSUME NEW S, IsFiniteSet(S)
  PROVE  /\ SetToSeq(S) \in Seq(S) /\ IsInjective(SetToSeq(S)) /\ ToSet(SetToSeq(S)) = S
<1> DEFINE n == Cardinality(S)
           q == SetToSeq(S)
<1>1. n \in Nat
  BY FS_CardinalityType
<1>2. PICK g \in Bijection(1..n, S) : TRUE
  BY FS_CardinalityType DEF ExistsBijection
<1>3. g \in [1..n -> S] /\ IsInjective(g)
  BY <1>2 DEF Bijection, Injection, IsInjective
<1>4. q \in [1..n -> S] /\ IsInjective(q)
  <2>1. q = CHOOSE f \in [1..n -> S] : IsInjective(f)
    BY DEF SetToSeq
  <2> HIDE DEF q, n
  <2>2. QED
    BY <1>3, <2>1
<1> HIDE DEF q
<1>5. q \in Seq(S)
  BY <1>1, <1>4, SeqDef
<1>6. q \in Injection(1..n, S)
  BY <1>4 DEF Injection, IsInjective
<1>7. q \in Surjection(1..n, S)
  <2>1. Cardinality(1..n) = n
    BY <1>1, FS_Interval
  <2>2. QED
    BY <1>6, <2>1, FS_Injection
<1>8. ToSet(q) = S
  <2>1. DOMAIN q = 1..n
    BY <1>4
  <2>2. \A x \in S : \E i \in 1..n : q[i] = x
    BY <1>7 DEF Surjection
  <2>3. \A i \in 1..n : q[i] \in S
    BY <1>4
  <2>4. QED
    BY <2>1, <2>2, <2>3 DEF ToSet
<1>9. QED
  BY <1>4, <1>5, <1>8 DEF q

(* The elements of a sequence are finitely many.                           *)
LEMMA ToSetFinite ==
  ASSUME NEW S, NEW q \in Seq(S)
  PROVE  IsFiniteSet(ToSet(q)) /\ ToSet(q) \subseteq S
<1>1. Len(q) \in Nat /\ q \in [1..Len(q) -> S] /\ DOMAIN q = 1..Len(q)
  BY LenProperties
<1>2. IsFiniteSet(1..Len(q))
  BY <1>1, FS_Interval
<1>3. q \in Surjection(1..Len(q), ToSet(q))
  BY <1>1 DEF Surjection, ToSet
<1>4. ToSet(q) \subseteq S
  BY <1>1 DEF ToSet
<1>5. QED
  BY <1>2, <1>3, <1>4, FS_Surjection

(* Induction over what a sequence begins with, for a set of sequences.     *)
LEMMA Growing ==
  ASSUME NEW S, NEW s \in Seq(S), NEW P, <<>> \in P,
         \A t \in P : \A x \in S : t \in Seq(S) => Append(t, x) \in P
  PROVE  s \in P
<1> DEFINE n == Len(s)
           good == {i \in 0..n : SubSeq(s, 1, i) \in P}
<1>1. n \in Nat /\ \A i \in 1..n : s[i] \in S
  BY LenProperties, ElementOfSeq
<1>2. 0 \in good
  <2>1. SubSeq(s, 1, 0) = <<>>
    BY SubSeqEmpty
  <2>2. 0 \in 0..n
    BY <1>1
  <2>3. SubSeq(s, 1, 0) \in P
    BY <2>1, Zenon
  <2>4. QED
    BY <2>2, <2>3, Zenon
<1>3. ASSUME NEW i \in 1..n, i - 1 \in good PROVE i \in good
  <2>1. SubSeq(s, 1, i - 1) \in Seq(S)
    <3>1. \A k \in 1..(i - 1) : s[k] \in S
      BY <1>1
    <3>2. i - 1 \in Int
      OBVIOUS
    <3>3. QED
      BY <3>1, <3>2, SubSeqProperties
  <2>2. SubSeq(s, 1, i) = Append(SubSeq(s, 1, i - 1), s[i])
    <3>1. 1 \in 1..Len(s) /\ i \in 1..Len(s)
      BY <1>1
    <3>2. SubSeq(s, 1, i) = SubSeq(s, 1, i - 1) \o <<s[i]>>
      BY <3>1, SubSeqRecursiveSecond
    <3>3. QED
      BY <1>1, <2>1, <3>2, AppendIsConcat
  <2>3. Append(SubSeq(s, 1, i - 1), s[i]) \in P
    BY <1>1, <1>3, <2>1
  <2>4. i \in 0..n
    BY <1>1
  <2>5. QED
    BY <2>2, <2>3, <2>4, Zenon
<1>4. n \in good
  <2>1. \A i \in 1..n : i - 1 \in good => i \in good
    BY <1>3
  <2>2. n \in 0..n
    BY <1>1
  <2> HIDE DEF good, n
  <2>3. n \in Nat
    BY <1>1
  <2>4. 0..n \subseteq good
    BY <1>2, <2>1, <2>3, UpTo
  <2>5. QED
    BY <2>2, <2>4
<1>5. SubSeq(s, 1, n) = s
  BY SubSeqFull
<1>6. QED
  BY <1>4, <1>5

(* A text that is one character longer takes one pass more.                *)
LEMMA ScanGrows ==
  ASSUME NEW s \in Seq(Char), NEW c \in Char, NEW tag
  PROVE  Scan(Append(s, c), tag) = CharPass(tag, c, Scan(s, tag))
<1> DEFINE n == Len(s)
           long == Append(s, c)
<1>1. /\ n \in Nat /\ long \in Seq(Char) /\ Len(long) = n + 1 /\ long[n + 1] = c
      /\ \A i \in 1..n : long[i] = s[i]
  BY AppendProperties, LenProperties
<1>2. PICK f \in [0..n -> CharState] :
        Passes(f, CharSteps(s, tag), CharStart, n) /\ Scan(s, tag) = f[n]
  BY ScanPasses
<1> DEFINE h == [i \in 0..(n + 1) |-> IF i = n + 1 THEN CharPass(tag, c, f[n]) ELSE f[i]]
<1>3. f[n] \in CharState /\ CharPass(tag, c, f[n]) \in CharState
  <2>1. f[n] \in CharState
    BY <1>1
  <2>2. QED
    BY <2>1, CharPassIs
<1>4. h \in [0..(n + 1) -> CharState]
  <2>1. \A i \in 0..(n + 1) : i = n + 1 \/ i \in 0..n
    BY <1>1
  <2>2. QED
    BY <1>3, <2>1
<1>5. /\ h[n + 1] = CharPass(tag, c, f[n]) /\ h[0] = f[0] /\ h[n] = f[n]
      /\ \A i \in 1..n : h[i] = f[i] /\ h[i - 1] = f[i - 1]
  BY <1>1
<1> HIDE DEF h, long
<1>6. Passes(h, CharSteps(long, tag), CharStart, n + 1)
  <2>1. h[0] = CharStart
    BY <1>2, <1>5 DEF Passes
  <2>2. \A i \in 1..(n + 1), g \in CharState : CharSteps(long, tag)[i][g] = CharPass(tag, long[i], g)
    BY <1>1, CharStepsTyped
  <2>3. ASSUME NEW i \in 1..(n + 1) PROVE h[i] = CharSteps(long, tag)[i][h[i - 1]]
    <3>1. CASE i = n + 1
      <4>1. i - 1 = n
        BY <1>1, <3>1
      <4>2. QED
        BY <1>1, <1>3, <1>5, <2>2, <3>1, <4>1
    <3>2. CASE i # n + 1
      <4>1. i \in 1..n /\ i - 1 \in 0..n
        BY <1>1, <3>2
      <4>2. f[i] = CharSteps(s, tag)[i][f[i - 1]] /\ f[i - 1] \in CharState
        BY <1>2, <4>1 DEF Passes
      <4>3. f[i] = CharPass(tag, s[i], f[i - 1])
        BY <4>1, <4>2, CharStepsTyped
      <4>4. CharSteps(long, tag)[i][h[i - 1]] = CharPass(tag, s[i], f[i - 1])
        BY <1>1, <1>5, <2>2, <4>1, <4>2
      <4>5. QED
        BY <1>5, <4>1, <4>3, <4>4
    <3>3. QED
      BY <3>1, <3>2
  <2>4. QED
    BY <2>1, <2>3 DEF Passes
<1>7. Loop(CharSteps(long, tag), CharStart, n + 1) = h[n + 1]
  <2>1. n + 1 \in Nat
    BY <1>1
  <2> DEFINE m == n + 1
  <2>2. m \in Nat /\ h \in [0..m -> CharState] /\ Passes(h, CharSteps(long, tag), CharStart, m)
    BY <1>4, <1>6, <2>1
  <2> HIDE DEF m
  <2>3. Loop(CharSteps(long, tag), CharStart, m) = h[m]
    BY <2>2, LoopOf
  <2>4. QED
    BY <2>3 DEF m
<1>8. QED
  BY <1>1, <1>2, <1>3, <1>5, <1>7 DEF Scan, long

(* Nothing is made of an empty text.                                       *)
LEMMA ScanEmpty ==
  ASSUME NEW tag
  PROVE  Scan(<<>>, tag) = CharStart
<1> DEFINE steps == CharSteps(<<>>, tag)
           f == [i \in 0..0 |-> CharStart]
<1>1. f \in [0..0 -> CharState] /\ f[0] = CharStart /\ Len(<<>>) = 0 /\ 0 \in Nat
  BY DEF CharStart, CharState
<1> HIDE DEF f, steps
<1>2. Passes(f, steps, CharStart, 0)
  BY <1>1 DEF Passes
<1>3. Loop(steps, CharStart, 0) = f[0]
  <2> DEFINE m == 0
  <2>1. m \in Nat /\ f \in [0..m -> CharState] /\ Passes(f, steps, CharStart, m)
    BY <1>1, <1>2
  <2> HIDE DEF m
  <2>2. Loop(steps, CharStart, m) = f[m]
    BY <2>1, LoopOf
  <2>3. QED
    BY <2>2 DEF m
<1>4. QED
  BY <1>1, <1>3 DEF Scan, steps

(* The fields of a split by a character have characters, and not that one. *)
Plain(tag) == Seq(Char \ {tag})
Field(tag) == Plain(tag) \ {<<>>}

(* The fields that the loop reads are such fields.                         *)
LEMMA ScanClean ==
  ASSUME NEW s \in Seq(Char), NEW tag
  PROVE  Scan(s, tag).vec \in Seq(Field(tag)) /\ Scan(s, tag).res \in Plain(tag)
<1> DEFINE Clean(t) == Scan(t, tag).vec \in Seq(Field(tag)) /\ Scan(t, tag).res \in Plain(tag)
           clean == {t \in Seq(Char) : Clean(t)}
<1>1. <<>> \in clean
  <2>1. Scan(<<>>, tag).vec = <<>> /\ Scan(<<>>, tag).res = <<>>
    BY ScanEmpty DEF CharStart
  <2>2. <<>> \in Seq(Field(tag)) /\ <<>> \in Plain(tag) /\ <<>> \in Seq(Char)
    BY DEF Plain
  <2>3. QED
    BY <2>1, <2>2
<1>2. ASSUME NEW t \in clean, NEW c \in Char PROVE Append(t, c) \in clean
  <2>1. t \in Seq(Char) /\ Clean(t) /\ Append(t, c) \in Seq(Char)
    BY AppendTyped
  <2> DEFINE g == Scan(t, tag)
             h == Scan(Append(t, c), tag)
  <2>2. g \in CharState /\ h = CharPass(tag, c, g)
    BY <2>1, ScanGrows, ScanTyped
  <2>3. g.vec \in Seq(Field(tag)) /\ g.res \in Plain(tag)
    BY <2>1
  <2>4. h.vec \in Seq(Field(tag)) /\ h.res \in Plain(tag)
    <3> HIDE DEF g, h
    <3>1. CASE c = tag
      <4>1. h = Ended(g)
        BY <2>2, <3>1 DEF CharPass
      <4>2. h.res = <<>> /\ h.vec = IF g.res = <<>> THEN g.vec ELSE Append(g.vec, g.res)
        BY <2>2, <4>1, EndedChar
      <4>3. CASE g.res = <<>>
        BY <2>3, <4>2, <4>3
      <4>4. CASE g.res # <<>>
        <5>1. g.res \in Field(tag)
          BY <2>3, <4>4 DEF Field
        <5>2. Append(g.vec, g.res) \in Seq(Field(tag))
          BY <2>3, <5>1, AppendTyped
        <5>3. <<>> \in Plain(tag)
          BY DEF Plain
        <5>4. QED
          BY <4>2, <4>4, <5>2, <5>3
      <4>5. QED
        BY <4>3, <4>4
    <3>2. CASE c # tag
      <4>1. h.vec = g.vec /\ h.res = Append(g.res, c)
        BY <2>2, <3>2, CharPassIs
      <4>2. Append(g.res, c) \in Seq(Char \ {tag})
        <5>1. c \in Char \ {tag} /\ g.res \in Seq(Char \ {tag})
          BY <2>3, <3>2 DEF Plain
        <5>2. QED
          BY <5>1, AppendTyped
      <4>3. QED
        BY <2>3, <4>1, <4>2 DEF Plain
    <3>3. QED
      BY <3>1, <3>2
  <2>5. Clean(Append(t, c))
    BY <2>4
  <2> HIDE DEF Clean, g, h
  <2>6. QED
    BY <2>1, <2>5
<1>3. s \in clean
  <2>1. \A t \in clean : \A c \in Char : t \in Seq(Char) => Append(t, c) \in clean
    BY <1>2
  <2> HIDE DEF clean
  <2>2. QED
    BY <1>1, <2>1, Growing
<1>4. QED
  BY <1>3

(* Characters that are not the separator are appended to the field.        *)
LEMMA ScanPlain ==
  ASSUME NEW s \in Seq(Char), NEW tag, NEW x \in Plain(tag)
  PROVE  Scan(s \o x, tag) = [vec |-> Scan(s, tag).vec, res |-> Scan(s, tag).res \o x]
<1> DEFINE g == Scan(s, tag)
           Read(t) == Scan(s \o t, tag) = [vec |-> g.vec, res |-> g.res \o t]
           read == {t \in Plain(tag) : Read(t)}
<1>1. g \in CharState /\ g.vec \in Seq(Seq(Char)) /\ g.res \in Seq(Char) /\ g = [vec |-> g.vec, res |-> g.res]
  <2>1. g \in CharState
    BY ScanTyped
  <2> HIDE DEF g
  <2>2. QED
    BY <2>1 DEF CharState
<1>2. <<>> \in read
  <2>1. s \o <<>> = s /\ g.res \o <<>> = g.res /\ <<>> \in Plain(tag)
    BY <1>1, ConcatEmptySeq DEF Plain
  <2>2. Read(<<>>)
    BY <1>1, <2>1
  <2> HIDE DEF Read
  <2>3. QED
    BY <2>1, <2>2
<1>3. ASSUME NEW t \in read, NEW c \in Char \ {tag} PROVE Append(t, c) \in read
  <2>1. t \in Plain(tag) /\ Read(t) /\ Append(t, c) \in Plain(tag)
    BY AppendTyped DEF Plain
  <2>2. t \in Seq(Char) /\ s \o t \in Seq(Char) /\ <<c>> \in Seq(Char) /\ c \in Char
    BY <2>1, ConcatProperties DEF Plain
  <2>3. s \o Append(t, c) = Append(s \o t, c) /\ g.res \o Append(t, c) = Append(g.res \o t, c)
    <3>1. Append(t, c) = t \o <<c>> /\ Append(s \o t, c) = (s \o t) \o <<c>>
      BY <2>2, AppendIsConcat
    <3>2. g.res \o t \in Seq(Char) /\ Append(g.res \o t, c) = (g.res \o t) \o <<c>>
      BY <1>1, <2>2, ConcatProperties, AppendIsConcat
    <3>3. (s \o t) \o <<c>> = s \o (t \o <<c>>)
      BY <2>2, ConcatAssociative
    <3>4. (g.res \o t) \o <<c>> = g.res \o (t \o <<c>>)
      BY <1>1, <2>2, ConcatAssociative
    <3>5. QED
      BY <3>1, <3>2, <3>3, <3>4
  <2>4. Scan(Append(s \o t, c), tag) = CharPass(tag, c, Scan(s \o t, tag))
    BY <2>2, ScanGrows, ScanTyped
  <2>5. CharPass(tag, c, Scan(s \o t, tag)) =
          [vec |-> Scan(s \o t, tag).vec, res |-> Append(Scan(s \o t, tag).res, c)]
    <3>1. Scan(s \o t, tag) \in CharState /\ c # tag
      BY <2>2, ScanGrows, ScanTyped
    <3>2. QED
      BY <2>2, <3>1, CharPassIs
  <2>6. Scan(s \o t, tag).vec = g.vec /\ Scan(s \o t, tag).res = g.res \o t
    BY <2>1
  <2>7. Read(Append(t, c))
    BY <2>3, <2>4, <2>5, <2>6
  <2> HIDE DEF Read
  <2>8. QED
    BY <2>1, <2>7
<1>4. x \in read
  <2>1. \A t \in read : \A c \in Char \ {tag} : t \in Seq(Char \ {tag}) => Append(t, c) \in read
    BY <1>3
  <2>2. x \in Seq(Char \ {tag})
    BY DEF Plain
  <2> HIDE DEF read
  <2>3. QED
    BY <1>2, <2>1, <2>2, Growing
<1>5. QED
  BY <1>4

(* Loops that make a text go through texts.                                *)
LEMMA TextLoop ==
  ASSUME NEW n \in Nat, NEW step \in [1..n -> [Seq(Char) -> Seq(Char)]], NEW start \in Seq(Char)
  PROVE  \E f \in [0..n -> Seq(Char)] : Passes(f, step, start, n) /\ Loop(step, start, n) = f[n]
<1>1. ASSUME NEW S, S = Seq(Char)
      PROVE  \E f \in [0..n -> S] : Passes(f, step, start, n) /\ Loop(step, start, n) = f[n]
  <2>1. start \in S /\ step \in [1..n -> [S -> S]]
    BY <1>1
  <2>2. PICK f \in [0..n -> S] : Passes(f, step, start, n)
    BY <2>1, PassesExist
  <2>3. Loop(step, start, n) = f[n]
    BY <2>2, LoopOf
  <2>4. QED
    BY <2>2, <2>3
<1>2. QED
  BY <1>1

(* Fields that are put together with a character they do not have, and     *)
(* split by it again, are the same fields.                                 *)
LEMMA JoinedSplit ==
  ASSUME NEW tag \in Char, NEW q \in Seq(Field(tag))
  PROVE  Joined(q, tag) \in Seq(Char) /\ SplitChar(Joined(q, tag), tag) = q
<1> DEFINE n == Len(q)
           Base(r) == IF r = <<>> THEN <<>> ELSE Append(r, tag)
           steps == [k \in DOMAIN q |-> [r \in Seq(Char) |-> Base(r) \o q[k]]]
<1>1. n \in Nat /\ DOMAIN q = 1..n /\ \A k \in 1..n : q[k] \in Field(tag)
  BY LenProperties, ElementOfSeq
<1>2. \A x \in Field(tag) : x \in Plain(tag) /\ x \in Seq(Char) /\ x # <<>>
  <2>1. \A x \in Seq(Char \ {tag}) : x \in Seq(Char)
    OBVIOUS
  <2>2. QED
    BY <2>1 DEF Field, Plain
<1>3. ASSUME NEW r \in Seq(Char) PROVE Base(r) \in Seq(Char)
  BY AppendTyped
<1>4. steps \in [1..n -> [Seq(Char) -> Seq(Char)]]
  <2>1. ASSUME NEW k \in 1..n, NEW r \in Seq(Char) PROVE Base(r) \o q[k] \in Seq(Char)
    BY <1>1, <1>2, <1>3, ConcatProperties
  <2>2. QED
    BY <1>1, <2>1
<1>5. \A k \in 1..n, r \in Seq(Char) : steps[k][r] = Base(r) \o q[k]
  BY <1>1
<1>6. Joined(q, tag) = Loop(steps, <<>>, n)
  BY DEF Joined
<1> HIDE DEF steps
<1>7. PICK g \in [0..n -> Seq(Char)] : Passes(g, steps, <<>>, n) /\ Loop(steps, <<>>, n) = g[n]
  <2>1. n \in Nat /\ <<>> \in Seq(Char)
    BY <1>1
  <2> DEFINE none == <<>>
  <2>2. none \in Seq(Char)
    BY <2>1
  <2> HIDE DEF n, none
  <2>3. \E g \in [0..n -> Seq(Char)] : Passes(g, steps, none, n) /\ Loop(steps, none, n) = g[n]
    BY <1>4, <2>1, <2>2, TextLoop
  <2>4. QED
    BY <2>3 DEF none
<1> DEFINE Good(k) == /\ g[k] = <<>> <=> k = 0
                      /\ Scan(Base(g[k]), tag) = [vec |-> SubSeq(q, 1, k), res |-> <<>>]
                      /\ Ended(Scan(g[k], tag)).vec = SubSeq(q, 1, k)
           good == {k \in 0..n : Good(k)}
<1>8. g[0] = <<>> /\ 0 \in 0..n /\ n \in 0..n
  BY <1>1, <1>7 DEF Passes
<1>9. 0 \in good
  <2>1. SubSeq(q, 1, 0) = <<>>
    BY SubSeqEmpty
  <2>2. Base(g[0]) = <<>>
    BY <1>8
  <2>3. Scan(<<>>, tag) = [vec |-> <<>>, res |-> <<>>]
    BY ScanEmpty DEF CharStart
  <2>4. Ended(Scan(<<>>, tag)).vec = <<>>
    BY <2>3 DEF Ended
  <2>5. Good(0)
    BY <1>8, <2>1, <2>2, <2>3, <2>4
  <2> HIDE DEF Good
  <2>6. QED
    BY <1>8, <2>5
<1>10. ASSUME NEW k \in 1..n, k - 1 \in good PROVE k \in good
  <2>1. Good(k - 1) /\ k \in 0..n /\ k - 1 \in 0..n /\ k # 0
    BY <1>1, <1>10
  <2> DEFINE r == g[k - 1]
             x == q[k]
             last == SubSeq(q, 1, k - 1)
             upTo == SubSeq(q, 1, k)
  <2>2. r \in Seq(Char) /\ x \in Field(tag) /\ x \in Plain(tag) /\ x \in Seq(Char) /\ x # <<>>
    BY <1>1, <1>2, <2>1
  <2>3. g[k] = Base(r) \o x
    <3>1. g[k] = steps[k][g[k - 1]]
      BY <1>7 DEF Passes
    <3>2. QED
      BY <1>5, <2>2, <3>1
  <2>4. last \in Seq(Field(tag)) /\ upTo = Append(last, x)
    <3>1. \A m \in 1..(k - 1) : q[m] \in Field(tag)
      BY <1>1
    <3>2. last \in Seq(Field(tag))
      BY <3>1, SubSeqProperties
    <3>3. 1 \in 1..Len(q) /\ k \in 1..Len(q)
      BY <1>1
    <3>4. upTo = last \o <<x>>
      BY <3>3, SubSeqRecursiveSecond
    <3>5. QED
      BY <2>2, <3>2, <3>4, AppendIsConcat
  <2>5. Scan(Base(r), tag) = [vec |-> last, res |-> <<>>]
    BY <2>1
  <2> HIDE DEF r, x, last, upTo
  <2>6. Base(r) \in Seq(Char) /\ g[k] \in Seq(Char)
    BY <1>3, <2>1, <2>2
  <2> HIDE DEF Good
  <2> DEFINE b == Base(r)
  <2>7. Scan(g[k], tag) = [vec |-> last, res |-> x]
    <3>1. Scan(b, tag) = [vec |-> last, res |-> <<>>] /\ b \in Seq(Char) /\ g[k] = b \o x
      BY <2>3, <2>5, <2>6
    <3> HIDE DEF b
    <3>2. Scan(b \o x, tag) = [vec |-> Scan(b, tag).vec, res |-> Scan(b, tag).res \o x]
      BY <2>2, <3>1, ScanPlain
    <3>3. <<>> \o x = x
      BY <2>2, ConcatEmptySeq
    <3>4. QED
      BY <3>1, <3>2, <3>3
  <2>8. g[k] # <<>>
    <3>1. Len(x) # 0
      BY <2>2, EmptySeq
    <3>2. b \in Seq(Char) /\ g[k] = b \o x
      BY <2>3, <2>6
    <3> HIDE DEF b
    <3>3. Len(b \o x) = Len(b) + Len(x) /\ Len(b) \in Nat /\ Len(x) \in Nat
      BY <2>2, <3>2, ConcatProperties, LenProperties
    <3>4. Len(<<>>) = 0
      OBVIOUS
    <3>5. QED
      BY <3>1, <3>2, <3>3, <3>4
  <2>9. Ended(Scan(g[k], tag)) = [vec |-> upTo, res |-> <<>>]
    <3>1. Ended(Scan(g[k], tag)) = [vec |-> Append(last, x), res |-> <<>>]
      <4>1. ASSUME NEW v, NEW w, w # <<>>
            PROVE  Ended([vec |-> v, res |-> w]) = [vec |-> Append(v, w), res |-> <<>>]
        BY <4>1 DEF Ended
      <4>2. QED
        BY <2>2, <2>7, <4>1
    <3>2. QED
      BY <2>4, <3>1
  <2>10. Scan(Base(g[k]), tag) = [vec |-> upTo, res |-> <<>>]
    <3>1. Base(g[k]) = Append(g[k], tag)
      BY <2>8
    <3>2. Scan(Append(g[k], tag), tag) = Ended(Scan(g[k], tag))
      BY <2>6, ScanGrows DEF CharPass
    <3>3. QED
      BY <2>9, <3>1, <3>2
  <2>11. Ended(Scan(g[k], tag)).vec = upTo
    BY <2>9
  <2>12. Good(k)
    BY <2>1, <2>8, <2>10, <2>11 DEF Good, upTo
  <2>13. QED
    BY <2>1, <2>12
<1>11. Good(n)
  <2>1. \A k \in 1..n : k - 1 \in good => k \in good
    BY <1>10
  <2>2. n \in Nat
    BY <1>1
  <2> HIDE DEF good, n
  <2>3. 0..n \subseteq good
    BY <1>9, <2>1, <2>2, UpTo
  <2>4. QED
    BY <1>8, <2>3 DEF good
<1>12. SubSeq(q, 1, n) = q
  BY SubSeqFull
<1>13. g[n] \in Seq(Char) /\ Joined(q, tag) = g[n]
  BY <1>6, <1>7, <1>8
<1>14. SplitChar(g[n], tag) = q
  BY <1>11, <1>12, <1>13, SplitIsScan
<1>15. QED
  BY <1>13, <1>14

(* StringTrimVector keeps each field once.                                 *)
LEMMA TrimKeepsOnce ==
  ASSUME NEW s \in Seq(Char), NEW tag \in Char
  PROVE  LET kept == SplitChar(TrimVector(s, tag), tag)
         IN  IsInjective(kept) /\ ToSet(kept) = ToSet(SplitChar(s, tag))
<1> DEFINE fields == SplitChar(s, tag)
           once == SetToSeq(ToSet(fields))
<1>1. fields \in Seq(Field(tag))
  <2> DEFINE g == Scan(s, tag)
  <2>1. g \in CharState /\ g.vec \in Seq(Field(tag)) /\ g.res \in Plain(tag)
    BY ScanTyped, ScanClean
  <2>2. fields = Ended(g).vec
    BY SplitIsScan
  <2> HIDE DEF g, fields
  <2>3. fields = IF g.res = <<>> THEN g.vec ELSE Append(g.vec, g.res)
    BY <2>1, <2>2, EndedChar
  <2>4. CASE g.res = <<>>
    BY <2>1, <2>3, <2>4
  <2>5. CASE g.res # <<>>
    <3>1. g.res \in Field(tag)
      BY <2>1, <2>5 DEF Field
    <3>2. Append(g.vec, g.res) \in Seq(Field(tag))
      BY <2>1, <3>1, AppendTyped
    <3>3. QED
      BY <2>3, <2>5, <3>2
  <2>6. QED
    BY <2>4, <2>5
<1>2. TrimVector(s, tag) = Joined(once, tag)
  BY DEF TrimVector
<1> HIDE DEF fields
<1>3. IsFiniteSet(ToSet(fields)) /\ ToSet(fields) \subseteq Field(tag)
  BY <1>1, ToSetFinite
<1>4. once \in Seq(ToSet(fields)) /\ IsInjective(once) /\ ToSet(once) = ToSet(fields)
  BY <1>3, SetToSeqIs
<1> HIDE DEF once
<1>5. once \in Seq(Field(tag))
  BY <1>3, <1>4
<1>6. SplitChar(Joined(once, tag), tag) = once
  BY <1>5, JoinedSplit
<1>7. QED
  BY <1>2, <1>4, <1>6 DEF fields

-----------------------------------------------------------------------------
(* utf8_cut, and all of the texts.                                         *)

(* A set of numbers up to n has a greatest one.                            *)
LEMMA MaxIs ==
  ASSUME NEW n \in Nat, NEW S \in SUBSET (0..n), S # {}
  PROVE  Max(S) \in S /\ \A y \in S : y <= Max(S)
<1> DEFINE rest == {n - x : x \in S}
<1>1. \A x \in S : x \in Nat /\ n - x \in Nat /\ n - x \in rest
  OBVIOUS
<1>2. rest \in SUBSET Nat /\ rest # {}
  BY <1>1
<1>3. PICK r \in rest : \A y \in rest : r <= y
  <2> HIDE DEF rest
  <2>1. QED
    BY <1>2, SmallestExists
<1>4. PICK m \in S : r = n - m
  BY <1>3
<1>5. \A y \in S : m >= y
  <2>1. ASSUME NEW y \in S PROVE m >= y
    <3>1. r <= n - y
      BY <1>1, <1>3
    <3>2. QED
      BY <1>1, <1>4, <3>1
  <2>2. QED
    BY <2>1
<1>6. Max(S) \in S /\ \A y \in S : Max(S) >= y
  <2>1. Max(S) = CHOOSE x \in S : \A y \in S : x >= y
    BY DEF Max
  <2>2. QED
    BY <1>5, <2>1
<1>7. QED
  BY <1>1, <1>6

(* The invariant of the induction: the bytes begin with a character.       *)
TextInv ==
  /\ text \in Seq(Char) /\ utf8 \in Seq(Nat)
  /\ utf8 # <<>> => utf8[1] = 0

(* It holds for every text that is typed.                                  *)
LEMMA TextInvHolds == TextSpec => []TextInv
<1>1. TextInit => TextInv
  BY DEF TextInit, TextInv
<1>2. TextInv /\ [TextNext]_textVars => TextInv'
  <2> SUFFICES ASSUME TextInv, [TextNext]_textVars PROVE TextInv'
    OBVIOUS
  <2>1. ASSUME NEW c \in Char, Type(c) PROVE TextInv'
    <3>1. Append(text, c) \in Seq(Char)
      BY AppendTyped DEF TextInv
    <3>2. QED
      BY <2>1, <3>1 DEF TextInv, Type
  <2>2. ASSUME NEW n \in 1..4, TypeUtf8(n) PROVE TextInv'
    <3> DEFINE bytes == [b \in 1..n |-> b - 1]
    <3>1. bytes \in Seq(Nat) /\ Len(bytes) = n /\ bytes[1] = 0 /\ n \in Nat /\ n >= 1
      <4>1. n \in Nat /\ bytes \in [1..n -> Nat] /\ bytes[1] = 0
        OBVIOUS
      <4> HIDE DEF bytes
      <4>2. bytes \in Seq(Nat)
        BY <4>1, SeqDef
      <4>3. Len(bytes) = n
        BY <4>1, <4>2, LenProperties
      <4>4. QED
        BY <4>1, <4>2, <4>3
    <3>2. utf8' = utf8 \o bytes /\ text' = text
      BY <2>2 DEF TypeUtf8
    <3> HIDE DEF bytes
    <3>3. /\ utf8 \o bytes \in Seq(Nat) /\ Len(utf8) \in Nat
          /\ \A i \in 1..(Len(utf8) + n) :
               (utf8 \o bytes)[i] = IF i <= Len(utf8) THEN utf8[i] ELSE bytes[i - Len(utf8)]
      BY <3>1, ConcatProperties, LenProperties DEF TextInv
    <3>4. 1 \in 1..(Len(utf8) + n)
      BY <3>1, <3>3
    <3>5. (utf8 \o bytes)[1] = 0
      <4>1. CASE utf8 = <<>>
        <5>1. <<>> \o bytes = bytes
          BY <3>1, ConcatEmptySeq
        <5>2. QED
          BY <3>1, <4>1, <5>1
      <4>2. CASE utf8 # <<>>
        <5>1. Len(utf8) >= 1
          BY <3>3, <4>2, EmptySeq DEF TextInv
        <5>2. QED
          BY <3>3, <3>4, <4>2, <5>1 DEF TextInv
      <4>3. QED
        BY <4>1, <4>2
    <3>6. QED
      BY <3>2, <3>3, <3>5 DEF TextInv
  <2>3. CASE ClearText
    BY <2>3 DEF TextInv, ClearText
  <2>4. CASE UNCHANGED textVars
    BY <2>4 DEF TextInv, textVars
  <2>5. QED
    BY <2>1, <2>2, <2>3, <2>4 DEF TextNext
<1>3. QED
  BY <1>1, <1>2, PTL DEF TextSpec

(* A separator is a text with characters.                                  *)
LEMMA TagsAre ==
  ASSUME NEW tag \in Tags
  PROVE  tag \in Seq(Char) /\ Len(tag) \in Nat \ {0}
<1>1. PICK n \in 1..MaxTag : tag \in [1..n -> Char]
  BY DEF Tags
<1>2. n \in Nat /\ n # 0 /\ tag \in Seq(Char)
  BY <1>1, TextAssumption, SeqDef
<1>3. Len(tag) = n
  BY <1>1, <1>2, LenProperties
<1>4. QED
  BY <1>2, <1>3

(* The splits of every text give its fields.                               *)
LEMMA SplitsAreRight ==
  ASSUME text \in Seq(Char)
  PROVE  SplitsRight
<1>1. Len(text) \in Nat
  BY LenProperties
<1>2. ASSUME NEW tag \in Tags
      PROVE  IF Len(tag) > Len(text) THEN SplitString(text, tag) = <<text>>
             ELSE AreFields(SplitString(text, tag), text, Between(text, tag))
  <2>1. CASE Len(tag) > Len(text)
    BY <2>1 DEF SplitString
  <2>2. CASE ~(Len(tag) > Len(text))
    <3>1. Len(tag) \in 1..Len(text) /\ tag \in Seq(Char)
      BY <1>1, <2>2, TagsAre
    <3>2. QED
      BY <2>2, <3>1, SplitStringFields
  <2>3. QED
    BY <2>1, <2>2
<1>3. ASSUME NEW c \in Char
      PROVE  /\ AreFields(SplitChar(text, c), text, {p \in DOMAIN text : text[p] # c})
             /\ LET kept == SplitChar(TrimVector(text, c), c)
                IN  IsInjective(kept) /\ ToSet(kept) = ToSet(SplitChar(text, c))
  BY SplitCharFields, TrimKeepsOnce
<1>4. ASSUME NEW tags \in SUBSET Char
      PROVE  AreBetween(SplitArray(text, tags), text, tags)
  <2>1. CASE text = <<>>
    BY <2>1, SplitArrayOfNone
  <2>2. CASE text # <<>>
    BY <2>2, SplitArrayFields
  <2>3. QED
    BY <2>1, <2>2
<1>5. QED
  BY <1>2, <1>3, <1>4 DEF SplitsRight

(* A text whose bytes begin with a character is cut at one.                *)
LEMMA CutsAreWhole ==
  ASSUME TextInv
  PROVE  CutsWholeCharacters
<1>1. SUFFICES ASSUME NEW unLength \in 0..Len(utf8)
      PROVE  LET cut == Utf8Cut(utf8, unLength)
             IN  /\ Len(cut) <= unLength /\ AtBoundary(utf8, Len(cut)) /\ cut = SubSeq(utf8, 1, Len(cut))
                 /\ \A n \in 0..unLength : AtBoundary(utf8, n) => n <= Len(cut)
  BY DEF CutsWholeCharacters
<1> DEFINE cut == Utf8Cut(utf8, unLength)
           begins == {p \in 0..unLength : utf8[p + 1] = 0}
<1>2. /\ utf8 \in Seq(Nat) /\ Len(utf8) \in Nat /\ unLength \in Nat /\ unLength <= Len(utf8)
      /\ \A k \in 1..Len(utf8) : utf8[k] \in Nat
  BY LenProperties, ElementOfSeq DEF TextInv
<1>3. CASE unLength = Len(utf8)
  <2>1. cut = utf8
    BY <1>2, <1>3 DEF Utf8Cut
  <2>2. utf8 = SubSeq(utf8, 1, Len(utf8))
    BY <1>2, SubSeqFull
  <2>3. QED
    BY <1>2, <1>3, <2>1, <2>2 DEF AtBoundary
<1>4. CASE unLength < Len(utf8)
  <2>1. utf8 # <<>>
    <3>1. Len(<<>>) = 0
      OBVIOUS
    <3>2. QED
      BY <1>2, <1>4, <3>1
  <2>2. 0 \in begins
    <3>1. utf8[0 + 1] = 0
      BY <2>1 DEF TextInv
    <3>2. QED
      BY <1>2, <3>1
  <2> DEFINE m == Max(begins)
  <2>3. m \in begins /\ \A y \in begins : y <= m
    <3>1. begins \in SUBSET (0..unLength) /\ begins # {}
      BY <2>2
    <3> HIDE DEF begins
    <3>2. QED
      BY <1>2, <3>1, MaxIs
  <2>4. cut = SubSeq(utf8, 1, m)
    <3>1. ~(Len(utf8) <= unLength) /\ begins # {}
      BY <1>2, <1>4, <2>2
    <3>2. QED
      BY <3>1 DEF Utf8Cut
  <2>5. m \in Nat /\ m <= unLength /\ utf8[m + 1] = 0
    BY <1>2, <2>3
  <2> HIDE DEF m
  <2>6. Len(SubSeq(utf8, 1, m)) = m
    <3>1. \A k \in 1..m : utf8[k] \in Nat
      BY <1>2, <2>5
    <3>2. Len(SubSeq(utf8, 1, m)) = IF 1 <= m THEN m - 1 + 1 ELSE 0
      BY <2>5, <3>1, SubSeqProperties
    <3>3. QED
      BY <2>5, <3>2
  <2>7. ASSUME NEW n \in 0..unLength, AtBoundary(utf8, n) PROVE n <= m
    <3>1. n # Len(utf8)
      BY <1>2, <1>4
    <3>2. n \in begins
      BY <2>7, <3>1 DEF AtBoundary
    <3>3. QED
      BY <2>3, <3>2
  <2> HIDE DEF cut, begins
  <2>8. Len(cut) = m
    BY <2>4, <2>6
  <2>9. AtBoundary(utf8, Len(cut)) /\ Len(cut) <= unLength /\ cut = SubSeq(utf8, 1, Len(cut))
    BY <2>4, <2>5, <2>8 DEF AtBoundary
  <2>10. \A n \in 0..unLength : AtBoundary(utf8, n) => n <= Len(cut)
    BY <2>7, <2>8
  <2>11. QED
    BY <2>9, <2>10 DEF cut
<1>5. unLength = Len(utf8) \/ unLength < Len(utf8)
  BY <1>2
<1>6. QED
  BY <1>3, <1>4, <1>5

(* The functions of StringHandle.cpp take every text apart as they should, *)
(* for every alphabet and for separators of every length.                  *)
THEOREM TextsTakenApart == TextSpec => []TakesApart
<1>1. TextInv => TakesApart
  BY SplitsAreRight, CutsAreWhole DEF TakesApart, TextInv
<1>2. QED
  BY <1>1, TextInvHolds, PTL
=============================================================================
