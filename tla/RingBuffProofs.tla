--------------------------- MODULE RingBuffProofs ---------------------------
(***************************************************************************)
(* Proofs about the ring buffer, for every size of the ring, number of     *)
(* readers and length of the calls: in a build that loads head once and    *)
(* with inserts kept out of the search for the oldest tail, RingInv is     *)
(* inductive.                                                              *)
(***************************************************************************)
EXTENDS RingBuffProps, TLAPS

SafeRing == ~ReloadHead /\ Serialized

-----------------------------------------------------------------------------
(* Arithmetic of places.                                                   *)

LEMMA WaitingType ==
  ASSUME NEW h \in Place, NEW p \in Place
  PROVE  Waiting(h, p) \in 0..Count-1 /\ (Waiting(h, p) = 0 <=> h = p)
  BY RingAssumption DEF Waiting, Place

LEMMA AdvanceType ==
  ASSUME NEW p \in Place, NEW n \in 0..Count
  PROVE  Advance(p, n) \in Place
  BY RingAssumption DEF Advance, Place

(* A head that moves on by k leaves every place behind by k more.          *)
LEMMA HeadMoves ==
  ASSUME NEW h \in Place, NEW p \in Place, NEW k \in Nat,
         Waiting(h, p) + k < Count
  PROVE  /\ Advance(h, k) \in Place
         /\ Waiting(Advance(h, k), p) = Waiting(h, p) + k
  BY RingAssumption DEF Waiting, Advance, Place

(* A tail that moves on by k is behind by k less.                          *)
LEMMA TailMoves ==
  ASSUME NEW h \in Place, NEW p \in Place, NEW k \in Nat,
         k <= Waiting(h, p)
  PROVE  /\ Advance(p, k) \in Place
         /\ Waiting(h, Advance(p, k)) = Waiting(h, p) - k
  BY RingAssumption DEF Waiting, Advance, Place

(* The head as a reader loaded it counts less than the head of now.        *)
LEMMA OldHead ==
  ASSUME NEW h \in Place, NEW c \in Place, NEW t \in Place,
         Waiting(h, c) <= Waiting(h, t)
  PROVE  WaitingElements(c, c, t) = Waiting(h, t) - Waiting(h, c)
  BY RingAssumption DEF Waiting, WaitingElements, Place

LEMMA SameDistance ==
  ASSUME NEW h \in Place, NEW p \in Place, NEW q \in Place,
         Waiting(h, p) = Waiting(h, q)
  PROVE  p = q
  BY RingAssumption DEF Waiting, Place

(* The oldest tail as an insert loaded it leaves no more free places than  *)
(* the one of now.                                                         *)
LEMMA FreeIsFree ==
  ASSUME NEW o \in Place, NEW t \in Place, NEW u \in Place, head \in Place,
         Waiting(head, o) <= Waiting(head, u),
         Waiting(head, u) <= Waiting(head, t)
  PROVE  /\ FreeElements(t, u) \in Nat
         /\ FreeElements(t, u) + Waiting(head, o) < Count
  <1>1. /\ FreeSpace(t, u) \in Int
        /\ FreeSpace(t, u) > 0 => FreeSpace(t, u) + Waiting(head, o) < Count
    BY RingAssumption DEF FreeSpace, Waiting, Place
  <1> QED
    BY <1>1, WaitingType, RingAssumption DEF FreeElements

-----------------------------------------------------------------------------
(* The inserting thread keeps RingInv.                                     *)

(* k of the elements of an insert are copied and published.                *)
Publishes(k) ==
  /\ k <= pn /\ head + k <= Count
  /\ buf' = Copied(k) /\ sent' = sent + k /\ pn' = pn - k
  /\ head' = Advance(head, k)
  /\ ins' \in {"copy", "idle"}
  /\ UNCHANGED <<readers, mode, destroys, oldest_tail, pt, rdVars>>

LEMMA TailType ==
  ASSUME RingTypeOK, NEW r \in 1..readers
  PROVE  r \in 1..MaxReaders /\ TailOf(r) \in Place
  <1>1. r \in 1..MaxReaders
    BY RingAssumption DEF RingTypeOK
  <1> QED
    BY <1>1 DEF RingTypeOK, TailOf

LEMMA PublishMoves ==
  ASSUME RingInv, NEW k \in Nat, Publishes(k), ins = "copy"
  PROVE  /\ head' \in Place
         /\ \A p \in Place : Behind(p) <= Behind(oldest_tail) =>
              Waiting(head', p) = Behind(p) + k
         /\ Behind(oldest_tail) \in Nat
         /\ Behind(oldest_tail) + k < Count
         /\ Alive
         /\ \A r \in 1..readers : TailOf(r) \in Place /\ Behind(TailOf(r)) <= Behind(oldest_tail)
  <1>1. head \in Place /\ oldest_tail \in Place /\ pn \in Nat
    BY RingAssumption DEF RingInv, RingTypeOK
  <1>2. Behind(oldest_tail) \in Nat /\ Behind(oldest_tail) + k < Count
    BY <1>1, WaitingType, RingAssumption DEF RingInv, InsertInv, Publishes, Behind
  <1>3. ASSUME NEW p \in Place, Behind(p) <= Behind(oldest_tail)
        PROVE  head' \in Place /\ Waiting(head', p) = Behind(p) + k
    <2>1. Waiting(head, p) \in Nat /\ Waiting(head, p) + k < Count
      BY <1>1, <1>2, <1>3, WaitingType, RingAssumption DEF Behind
    <2> QED
      BY <1>1, <2>1, HeadMoves DEF Publishes, Behind
  <1>4. Alive
    BY DEF RingInv, PhaseInv
  <1>5. \A r \in 1..readers : TailOf(r) \in Place /\ Behind(TailOf(r)) <= Behind(oldest_tail)
    BY <1>1, <1>4, TailType DEF RingInv, OldestIsOldest, Behind
  <1> QED
    BY <1>1, <1>2, <1>3, <1>4, <1>5

LEMMA PublishContent ==
  ASSUME RingInv, NEW k \in Nat, Publishes(k), ins = "copy"
  PROVE  buf' \in [Place -> 0..MaxItems] /\ Content'
  <1>1. /\ head \in Place /\ oldest_tail \in Place /\ pn \in Nat /\ sent \in Nat
        /\ buf \in [Place -> 0..MaxItems] /\ sent + k <= MaxItems
    BY RingAssumption DEF RingInv, RingTypeOK, InsertInv, Publishes
  <1>2. buf' \in [Place -> 0..MaxItems]
    BY <1>1, RingAssumption DEF Publishes, Copied, Place
  <1>3. Behind(oldest_tail)' = Behind(oldest_tail) + k
    BY <1>1, PublishMoves DEF Behind, Publishes
  <1>4. ASSUME NEW p \in Place, Behind(p)' \in 1..Behind(oldest_tail)'
        PROVE  buf'[p] = sent' + 1 - Behind(p)'
    <2>1. buf'[p] = IF p \in head..head+k-1 THEN sent + 1 + p - head ELSE buf[p]
      BY DEF Publishes, Copied
    <2>2. CASE p \in head..head+k-1
      <3>1. Waiting(head', p) = head + k - p
        <4>1. k < Count
          BY PublishMoves, RingAssumption
        <4> QED
          BY <1>1, <2>2, <4>1, RingAssumption DEF Publishes, Advance, Waiting, Place
      <3> QED
        BY <1>1, <2>1, <2>2, <3>1 DEF Publishes, Behind
    <2>3. CASE p \notin head..head+k-1
      <3>1. Behind(p) \in 1..Behind(oldest_tail) /\ Behind(p)' = Behind(p) + k
        <4>1. Behind(oldest_tail) \in Nat /\ Behind(oldest_tail) + k < Count
          BY PublishMoves
        <4> QED
          BY <1>1, <1>3, <1>4, <2>3, <4>1, RingAssumption
             DEF Publishes, Advance, Waiting, Place, Behind
      <3> QED
        BY <1>1, <2>1, <2>3, <3>1 DEF Publishes, RingInv, Content
    <2> QED
      BY <2>2, <2>3
  <1>5. Behind(oldest_tail)' <= sent'
    BY <1>1, <1>3, PublishMoves DEF RingInv, Content, Publishes
  <1> QED
    BY <1>2, <1>4, <1>5 DEF Content, Place

LEMMA Publish ==
  ASSUME RingInv, NEW k \in Nat, Publishes(k), ins = "copy", rd # "search"
  PROVE  RingInv'
  <1> DEFINE Far(p) == p \in Place /\ Behind(p) <= Behind(oldest_tail)
  <1>1. /\ head' \in Place
        /\ \A p \in Place : Far(p) => Behind(p)' = Behind(p) + k
        /\ \A p \in Place : Behind(p) \in Nat
    <2>1. head \in Place /\ head' \in Place
      BY PublishMoves DEF RingInv, RingTypeOK
    <2> QED
      BY <2>1, PublishMoves, WaitingType DEF Behind
  <1>2. \A r \in 1..readers : Far(TailOf(r)) /\ TailOf(r)' = TailOf(r)
    BY PublishMoves DEF Publishes, rdVars, TailOf
  <1>3. Far(oldest_tail) /\ who \in 1..readers /\ readers \in Nat
    <2>1. oldest_tail \in Place /\ readers \in 1..MaxReaders /\ who \in 1..readers
      BY DEF RingInv, RingTypeOK
    <2> QED
      BY <2>1, PublishMoves, RingAssumption
  <1>4. RingTypeOK'
    <2>1. pn' \in 0..MaxCall /\ sent' \in 0..MaxItems
      BY RingAssumption DEF RingInv, RingTypeOK, InsertInv, Publishes
    <2>2. buf' \in [Place -> 0..MaxItems]
      BY PublishContent
    <2>3. ins' \in {"idle", "count", "copy", "gone"}
      BY DEF Publishes
    <2>4. UNCHANGED <<readers, mode, destroys, oldest_tail, pt, rdVars>>
      BY DEF Publishes
    <2> QED
      BY <1>1, <2>1, <2>2, <2>3, <2>4 DEF RingInv, RingTypeOK, rdVars, Place
  <1>5. PhaseInv'
    BY PublishMoves DEF RingInv, PhaseInv, Publishes, rdVars, Alive
  <1>6. InsertInv'
    <2>1. pn \in Nat /\ sent \in Nat /\ Behind(oldest_tail)' = Behind(oldest_tail) + k
          /\ Behind(oldest_tail) \in Nat
      BY <1>1, <1>3, RingAssumption DEF RingInv, RingTypeOK, Publishes
    <2> QED
      BY <2>1, RingAssumption DEF RingInv, InsertInv, Publishes
  <1>7. ConsumeInv'
    <2>1. UNCHANGED <<rd, copies, want, who, ch, cn, mode>>
      BY DEF Publishes, rdVars
    <2>2. rd = "count" => Far(ch)
      <3>1. ch \in Place /\ TailOf(who) \in Place /\ oldest_tail \in Place
        BY <1>2, <1>3 DEF RingInv, RingTypeOK
      <3> QED
        BY <1>1, <1>2, <1>3, <3>1 DEF RingInv, ConsumeInv
    <2> DEFINE t == TailOf(who)
    <2>3. TailOf(who)' = t /\ Behind(t) \in Nat /\ Behind(TailOf(who))' = Behind(t) + k
      BY <1>1, <1>2, <1>3, <2>1 DEF Behind
    <2>4. rd = "count" => Behind(ch) \in Nat /\ Behind(ch)' = Behind(ch) + k
      BY <1>1, <2>1, <2>2 DEF Behind
    <2>5. cn \in Nat /\ copies \in BOOLEAN
      BY RingAssumption DEF RingInv, RingTypeOK
    <2> QED
      BY <2>1, <2>3, <2>4, <2>5 DEF RingInv, ConsumeInv
  <1>8. UpdateInv'
    <2>1. UNCHANGED <<rd, new, tail, readers, mode, oldest_tail>>
      BY DEF Publishes, rdVars
    <2>2. rd = "update" => Far(new)
      BY DEF RingInv, RingTypeOK, UpdateInv
    <2>3. mode = "own" => \A r \in 1..readers : Far(tail[r])
      BY <1>2 DEF TailOf
    <2> QED
      BY <1>1, <1>3, <2>1, <2>2, <2>3 DEF RingInv, UpdateInv
  <1>9. HistoryInv'
    <2>1. UNCHANGED <<rd, new, tail, readers, mode, oldest_tail, got, who, copies, destroyed,
                      destroys>> /\ sent' = sent + k /\ sent \in Nat
      BY DEF Publishes, rdVars, RingInv, RingTypeOK
    <2>2. rd = "update" => Far(new)
      BY DEF RingInv, RingTypeOK, UpdateInv
    <2> QED
      BY <1>1, <1>2, <1>3, <2>1, <2>2 DEF RingInv, HistoryInv, Alive, Peeked
  <1>10. OldestIsOldest' /\ InOrder'
    BY <1>1, <1>2, <1>3 DEF Publishes, rdVars, RingInv, OldestIsOldest, InOrder, Alive, Behind
  <1> QED
    BY <1>4, <1>5, <1>6, <1>7, <1>8, <1>9, <1>10, PublishContent DEF RingInv

LEMMA RingFacts ==
  ASSUME RingInv
  PROVE  /\ head \in Place /\ oldest_tail \in Place /\ sent \in Nat
         /\ \A p \in Place : Behind(p) \in 0..Count-1
         /\ \A r \in 1..readers :
              /\ r \in 1..MaxReaders /\ TailOf(r) \in Place
              /\ Alive => Behind(TailOf(r)) <= Behind(oldest_tail)
         /\ who \in 1..readers
         /\ Behind(oldest_tail) <= sent
  <1>1. head \in Place /\ oldest_tail \in Place /\ sent \in Nat /\ who \in 1..readers
    BY DEF RingInv, RingTypeOK
  <1>2. \A p \in Place : Behind(p) \in 0..Count-1
    BY <1>1, WaitingType DEF Behind
  <1> QED
    BY <1>1, <1>2, TailType DEF RingInv, OldestIsOldest, Content, Behind

LEMMA InsertBeginsStep ==
  ASSUME RingInv, InsertBegins
  PROVE  RingInv'
  <1>1. RingTypeOK'
    BY RingAssumption DEF RingInv, RingTypeOK, InsertBegins, InsAt, ringVars, rdVars, Place
  <1>2. PhaseInv' /\ InsertInv'
    BY RingFacts DEF RingInv, PhaseInv, InsertInv, InsertBegins, InsAt, ringVars, rdVars,
       Alive, Behind
  <1>3. Content' /\ ConsumeInv' /\ UpdateInv' /\ HistoryInv' /\ OldestIsOldest' /\ InOrder'
    BY DEF RingInv, Content, ConsumeInv, UpdateInv, HistoryInv, OldestIsOldest, InOrder,
       InsertBegins, ringVars, rdVars, Alive, Behind, TailOf, Peeked
  <1> QED
    BY <1>1, <1>2, <1>3 DEF RingInv

LEMMA InsertCountsStep ==
  ASSUME RingInv, InsertCounts
  PROVE  RingInv'
  <1>1. ins = "count" /\ UNCHANGED <<ringVars, rdVars, pt, sent>>
    BY DEF InsertCounts
  <1>2. /\ pn' \in Nat /\ pn' <= pn
        /\ pn' + Behind(oldest_tail) < Count /\ sent + pn' <= MaxItems
        /\ ins' = IF pn' = 0 THEN "idle" ELSE "copy"
    <2>1. PICK t \in Again(ReloadTail, pt, oldest_tail) :
            \E u \in Again(ReloadTail, t, oldest_tail) :
              \E room \in {FreeElements(t, u), AtMost(FreeElements(t, u), Count - head)} :
                /\ pn' = AtMost(pn, room)
                /\ ins' = IF pn' = 0 THEN "idle" ELSE "copy"
      BY DEF InsertCounts
    <2>2. PICK u \in Again(ReloadTail, t, oldest_tail) :
            \E room \in {FreeElements(t, u), AtMost(FreeElements(t, u), Count - head)} :
              /\ pn' = AtMost(pn, room)
              /\ ins' = IF pn' = 0 THEN "idle" ELSE "copy"
      BY <2>1
    <2>3. pt \in Place /\ oldest_tail \in Place /\ head \in Place /\ pn \in Nat
      BY RingAssumption DEF RingInv, RingTypeOK
    <2>4. /\ t \in Place /\ u \in Place
          /\ Waiting(head, oldest_tail) <= Waiting(head, u)
          /\ Waiting(head, u) <= Waiting(head, t)
      <3>1. t \in {pt, oldest_tail} /\ u \in {t, oldest_tail}
        BY DEF Again
      <3>2. Waiting(head, oldest_tail) <= Waiting(head, pt)
        BY <1>1 DEF RingInv, InsertInv, Behind
      <3>3. Waiting(head, oldest_tail) \in Nat /\ Waiting(head, pt) \in Nat
        BY <2>3, WaitingType, RingAssumption
      <3> QED
        BY <2>3, <3>1, <3>2, <3>3
    <2>5. FreeElements(t, u) \in Nat /\ FreeElements(t, u) + Behind(oldest_tail) < Count
      BY <2>3, <2>4, FreeIsFree DEF Behind
    <2>6. /\ Count - head \in Nat /\ Behind(oldest_tail) \in Nat
          /\ sent \in Nat /\ MaxItems \in Nat /\ sent + pn <= MaxItems
      BY <1>1, <2>3, RingFacts, RingAssumption DEF Place, RingInv, InsertInv
    <2> QED
      BY <2>2, <2>3, <2>5, <2>6, RingAssumption DEF AtMost
  <1>3. RingTypeOK'
    <2>1. pn' \in 0..MaxCall
      BY <1>2, RingAssumption DEF RingInv, RingTypeOK
    <2>2. ins' \in {"idle", "count", "copy", "gone"}
      BY <1>2
    <2> QED
      BY <1>1, <2>1, <2>2 DEF RingInv, RingTypeOK, ringVars, rdVars, Place
  <1>4. PhaseInv'
    BY <1>1, <1>2 DEF RingInv, PhaseInv, ringVars, rdVars, Alive
  <1>5. InsertInv'
    BY <1>1, <1>2 DEF InsertInv, Behind, ringVars
  <1>6. Content' /\ ConsumeInv' /\ UpdateInv' /\ HistoryInv' /\ OldestIsOldest' /\ InOrder'
    BY <1>1 DEF RingInv, Content, ConsumeInv, UpdateInv, HistoryInv, OldestIsOldest, InOrder,
       ringVars, rdVars, Alive, Behind, TailOf, Peeked
  <1> QED
    BY <1>3, <1>4, <1>5, <1>6 DEF RingInv

LEMMA InserterStep ==
  ASSUME SafeRing, RingInv, Inserter
  PROVE  RingInv'
  <1>1. head \in Place /\ pn \in Nat
    BY RingAssumption DEF RingInv, RingTypeOK
  <1>2. CASE InsertWraps
    <2>1. Count - head \in Nat /\ Advance(head, Count - head) = 0
      BY <1>1, RingAssumption DEF Place, Advance
    <2>2. Publishes(Count - head) /\ ins = "copy" /\ rd # "search"
      BY <1>1, <1>2, <2>1, RingAssumption
         DEF InsertWraps, Publishes, MayPublish, SafeRing, Place
    <2> QED
      BY <2>1, <2>2, Publish
  <1>3. CASE InsertEnds
    <2>1. Publishes(pn) /\ ins = "copy" /\ rd # "search"
      BY <1>1, <1>3 DEF InsertEnds, InsAt, Publishes, MayPublish, SafeRing
    <2> QED
      BY <1>1, <2>1, Publish
  <1> QED
    BY <1>2, <1>3, InsertBeginsStep, InsertCountsStep DEF Inserter

-----------------------------------------------------------------------------
(* The reading thread keeps RingInv.                                       *)

LEMMA ReaderKeeps ==
  ASSUME RingInv, UNCHANGED <<ringVars, insVars>>, Alive, Alive'
  PROVE  PhaseInv' /\ Content' /\ InsertInv'
  BY DEF RingInv, PhaseInv, Content, InsertInv, ringVars, insVars, Alive, Behind

LEMMA TakeStep ==
  ASSUME RingInv, Take
  PROVE  RingInv'
  <1>1. RingTypeOK'
    BY RingAssumption DEF RingInv, RingTypeOK, Take, RdAt, ringVars, insVars, Place
  <1>2. PhaseInv' /\ Content' /\ InsertInv'
    BY ReaderKeeps DEF Take, RdAt, Alive
  <1>3. ConsumeInv' /\ UpdateInv'
    BY DEF Take, RdAt, ConsumeInv, UpdateInv, ringVars
  <1>4. HistoryInv' /\ OldestIsOldest' /\ InOrder'
    BY DEF RingInv, HistoryInv, OldestIsOldest, InOrder, Take, RdAt, ringVars, insVars, Alive,
       Behind, TailOf, Peeked
  <1> QED
    BY <1>1, <1>2, <1>3, <1>4 DEF RingInv

LEMMA AdvanceZero ==
  ASSUME NEW p \in Place
  PROVE  Advance(p, 0) = p
  BY RingAssumption DEF Advance, Place

(* The element a reader finds at its tail is the next one.                 *)
LEMMA NextElement ==
  ASSUME RingInv, Alive, NEW r \in 1..readers, NEW i \in Nat,
         i < Behind(TailOf(r))
  PROVE  buf[Advance(TailOf(r), i)] = sent - Behind(TailOf(r)) + 1 + i
  <1> DEFINE p == Advance(TailOf(r), i)
  <1>1. /\ head \in Place /\ TailOf(r) \in Place /\ sent \in Nat
        /\ Behind(TailOf(r)) \in Nat /\ Behind(oldest_tail) \in Nat
        /\ Behind(TailOf(r)) <= Behind(oldest_tail)
    BY RingFacts, RingAssumption
  <1>2. p \in Place /\ Behind(p) = Behind(TailOf(r)) - i
    BY <1>1, TailMoves DEF Behind
  <1>3. Behind(p) \in 1..Behind(oldest_tail)
    BY <1>1, <1>2
  <1>4. buf[p] = sent + 1 - Behind(p)
    BY <1>2, <1>3 DEF RingInv, Content
  <1> QED
    BY <1>1, <1>2, <1>4

LEMMA ReadsNext ==
  ASSUME RingInv, Alive, NEW r \in 1..readers, NEW n \in Nat,
         n <= Behind(TailOf(r)),
         got[r] = sent - Behind(TailOf(r)),
         Reads(r, TailOf(r), n)
  PROVE  got' = [got EXCEPT ![r] = sent - Behind(TailOf(r)) + n]
  <1>1. sent \in Nat /\ Behind(TailOf(r)) \in Nat
    BY RingFacts, RingAssumption
  <1>2. \A i \in 0..n-1 : buf[Advance(TailOf(r), i)] = got[r] + 1 + i
    <2> TAKE i \in 0..n-1
    <2>1. i \in Nat /\ i < Behind(TailOf(r))
      BY <1>1
    <2> QED
      BY <1>1, <2>1, NextElement
  <1> QED
    BY <1>1, <1>2 DEF Reads

LEMMA GetElementStep ==
  ASSUME RingInv, NEW r \in 1..readers, GetElement(r)
  PROVE  RingInv'
  <1>1. /\ rd = "idle" /\ rd' = "load" /\ who' = r /\ want' = 1 /\ copies' = FALSE
        /\ UNCHANGED <<ringVars, insVars, tail, ch, cn, new, most, destroyed>>
        /\ Alive /\ Alive'
    BY DEF GetElement, RdAt, Alive
  <1>2. /\ head \in Place /\ TailOf(r) \in Place /\ r \in 1..MaxReaders
        /\ Behind(TailOf(r)) \in Nat /\ Behind(TailOf(r)) > 0
        /\ sent \in Nat /\ Behind(TailOf(r)) <= sent
    <2>1. /\ head \in Place /\ TailOf(r) \in Place /\ r \in 1..MaxReaders /\ sent \in Nat
          /\ Behind(TailOf(r)) \in Nat /\ Behind(oldest_tail) \in Nat
          /\ Behind(TailOf(r)) <= Behind(oldest_tail) /\ Behind(oldest_tail) <= sent
      BY <1>1, RingFacts, RingAssumption
    <2>2. Behind(TailOf(r)) # 0
      BY <2>1, WaitingType DEF Behind, GetElement
    <2> QED
      BY <2>1, <2>2
  <1>3. \A q \in 1..readers : got[q] = sent - Behind(TailOf(q))
    <2> TAKE q \in 1..readers
    <2>1. sent - Behind(TailOf(q)) \in Int
      BY RingFacts, RingAssumption
    <2> QED
      BY <1>1, <2>1 DEF RingInv, HistoryInv, Alive, Peeked
  <1>4. got' = [got EXCEPT ![r] = sent - Behind(TailOf(r)) + 1]
    BY <1>1, <1>2, <1>3, ReadsNext DEF GetElement
  <1>5. /\ got'[r] = sent - Behind(TailOf(r)) + 1
        /\ \A q \in 1..readers : q # r => got'[q] = got[q]
    BY <1>2, <1>4, RingFacts DEF RingInv, RingTypeOK
  <1>6. RingTypeOK'
    <2>1. sent - Behind(TailOf(r)) + 1 \in 0..MaxItems
      <3>1. MaxItems \in Nat /\ sent <= MaxItems
        BY RingAssumption DEF RingInv, RingTypeOK
      <3> QED
        BY <1>2, <3>1
    <2>2. got' \in [1..MaxReaders -> 0..MaxItems \cup {Wrong}]
      BY <1>4, <2>1 DEF RingInv, RingTypeOK
    <2>3. want' \in 0..MaxCall /\ who' \in 1..readers
      BY <1>1, RingAssumption
    <2> QED
      BY <1>1, <2>2, <2>3 DEF RingInv, RingTypeOK, ringVars, insVars, Place
  <1>7. ConsumeInv' /\ UpdateInv'
    BY <1>1, <1>2 DEF ConsumeInv, UpdateInv, ringVars, TailOf, Behind
  <1>8. HistoryInv'
    <2>1. ASSUME NEW q \in 1..readers, q # r
          PROVE  got'[q] = sent - Behind(TailOf(q)) + 0
      <3>1. sent - Behind(TailOf(q)) \in Int
        BY RingFacts, RingAssumption
      <3> QED
        BY <1>3, <1>5, <2>1, <3>1
    <2> QED
      BY <1>1, <1>5, <2>1 DEF RingInv, HistoryInv, ringVars, insVars, Alive, Behind, TailOf,
         Peeked
  <1>9. OldestIsOldest' /\ InOrder'
    <2>1. got'[r] # Wrong
      BY <1>2, <1>5 DEF Wrong
    <2> QED
      BY <1>1, <1>5, <2>1
         DEF RingInv, OldestIsOldest, InOrder, ringVars, insVars, TailOf
  <1> QED
    BY <1>1, <1>6, <1>7, <1>8, <1>9, ReaderKeeps DEF RingInv

LEMMA ConsumeLoadsStep ==
  ASSUME RingInv, ConsumeLoads
  PROVE  RingInv'
  <1>1. /\ rd = "load" /\ rd' = "count" /\ ch' = head
        /\ UNCHANGED <<ringVars, insVars, tail, who, want, copies, cn, new, most, got,
                       destroyed>>
        /\ Alive /\ Alive'
    BY DEF ConsumeLoads, RdAt, Alive
  <1>2. RingTypeOK'
    BY <1>1 DEF RingInv, RingTypeOK, ringVars, insVars, Place
  <1>3. ConsumeInv'
    <2>1. head \in Place /\ TailOf(who) \in Place /\ Behind(head) = 0
          /\ Behind(TailOf(who)) >= 0 /\ (head = TailOf(who) => Behind(TailOf(who)) = 0)
      BY RingFacts, WaitingType, RingAssumption DEF Behind
    <2> QED
      BY <1>1, <2>1 DEF RingInv, ConsumeInv, ringVars, TailOf, Behind
  <1>4. UpdateInv' /\ HistoryInv' /\ OldestIsOldest' /\ InOrder'
    BY <1>1 DEF RingInv, UpdateInv, HistoryInv, OldestIsOldest, InOrder, ringVars, insVars,
       Alive, Behind, TailOf, Peeked
  <1> QED
    BY <1>1, <1>2, <1>3, <1>4, ReaderKeeps DEF RingInv

LEMMA ConsumeCountsStep ==
  ASSUME SafeRing, RingInv, ConsumeCounts
  PROVE  RingInv'
  <1>1. /\ rd = "count" /\ rd' = "take"
        /\ UNCHANGED <<ringVars, insVars, tail, who, want, copies, ch, new, most, got,
                       destroyed>>
        /\ Alive /\ Alive'
    BY DEF ConsumeCounts, RdAt, Alive
  <1>2. cn' = AtMost(want, WaitingElements(ch, ch, TailOf(who)))
    BY DEF ConsumeCounts, Again, SafeRing
  <1>3. /\ head \in Place /\ TailOf(who) \in Place /\ ch \in Place /\ want \in 0..MaxCall
        /\ Behind(ch) \in Nat /\ Behind(TailOf(who)) \in Nat
    <2>1. ch \in Place /\ want \in 0..MaxCall
      BY DEF RingInv, RingTypeOK
    <2> QED
      BY <2>1, RingFacts, RingAssumption
  <1>4. Behind(ch) <= Behind(TailOf(who)) /\ (~copies => ch # TailOf(who) /\ want = 1)
    BY <1>1 DEF RingInv, ConsumeInv
  <1>5. WaitingElements(ch, ch, TailOf(who)) = Behind(TailOf(who)) - Behind(ch)
    BY <1>3, <1>4, OldHead DEF Behind
  <1>6. ch # TailOf(who) => Behind(ch) # Behind(TailOf(who))
    BY <1>3, SameDistance DEF Behind
  <1>7. /\ cn' \in 0..MaxCall /\ cn' <= Behind(TailOf(who))
        /\ ~copies => cn' = 1
    BY <1>2, <1>3, <1>4, <1>5, <1>6, RingAssumption DEF AtMost
  <1>8. RingTypeOK'
    BY <1>1, <1>7 DEF RingInv, RingTypeOK, ringVars, insVars, Place
  <1>9. ConsumeInv'
    BY <1>1, <1>7 DEF RingInv, ConsumeInv, ringVars, TailOf, Behind
  <1>10. UpdateInv' /\ HistoryInv' /\ OldestIsOldest' /\ InOrder'
    BY <1>1 DEF RingInv, UpdateInv, HistoryInv, OldestIsOldest, InOrder, ringVars, insVars,
       Alive, Behind, TailOf, Peeked
  <1> QED
    BY <1>1, <1>8, <1>9, <1>10, ReaderKeeps DEF RingInv

(* What a reader that consumes has read, and where it goes.                *)
LEMMA ConsumeFacts ==
  ASSUME RingInv, rd = "take"
  PROVE  /\ head \in Place /\ TailOf(who) \in Place /\ who \in 1..readers
         /\ who \in 1..MaxReaders
         /\ cn \in Nat /\ cn <= Count /\ cn <= Behind(TailOf(who))
         /\ Advance(TailOf(who), cn) \in Place
         /\ Behind(Advance(TailOf(who), cn)) = Behind(TailOf(who)) - cn
         /\ Behind(TailOf(who)) \in Nat /\ Behind(oldest_tail) \in Nat /\ sent \in Nat
         /\ Behind(TailOf(who)) <= Behind(oldest_tail) /\ Behind(oldest_tail) <= sent
         /\ got[who] = sent - Behind(TailOf(who)) + (IF copies THEN 0 ELSE 1)
         /\ ~copies => cn = 1
         /\ copies => mode = "oldest"
  <1>1. /\ head \in Place /\ TailOf(who) \in Place /\ who \in 1..readers
        /\ who \in 1..MaxReaders /\ Behind(TailOf(who)) \in Nat
        /\ Behind(oldest_tail) \in Nat /\ sent \in Nat
        /\ Behind(TailOf(who)) <= Behind(oldest_tail) /\ Behind(oldest_tail) <= sent
    BY RingFacts, RingAssumption DEF Alive
  <1>2. /\ cn \in Nat /\ cn <= Count /\ cn <= Behind(TailOf(who))
        /\ ~copies => cn = 1
        /\ copies => mode = "oldest"
    BY RingAssumption DEF RingInv, RingTypeOK, ConsumeInv
  <1>3. /\ Advance(TailOf(who), cn) \in Place
        /\ Behind(Advance(TailOf(who), cn)) = Behind(TailOf(who)) - cn
    BY <1>1, <1>2, TailMoves DEF Behind
  <1>4. got[who] = sent - Behind(TailOf(who)) + (IF copies THEN 0 ELSE 1)
    BY <1>1 DEF RingInv, HistoryInv, Alive, Peeked
  <1> QED
    BY <1>1, <1>2, <1>3, <1>4

LEMMA ConsumeOldestStep ==
  ASSUME RingInv, ConsumeOldest
  PROVE  RingInv'
  <1>1. /\ rd = "take" /\ rd' = "update" /\ mode = "oldest"
        /\ new' = Advance(oldest_tail, cn)
        /\ UNCHANGED <<ringVars, insVars, tail, who, want, copies, ch, cn, most, destroyed>>
        /\ Alive /\ Alive' /\ TailOf(who) = oldest_tail
    BY DEF ConsumeOldest, RdAt, Alive, TailOf
  <1>2. /\ readers = 1 /\ who = 1
        /\ new' \in Place /\ Behind(new') = Behind(oldest_tail) - cn
        /\ Behind(new') <= Behind(oldest_tail)
        /\ sent - Behind(new') \in Nat /\ sent - Behind(new') = sent - Behind(oldest_tail) + cn
    BY <1>1, ConsumeFacts DEF RingInv, PhaseInv
  <1>3. got' = [got EXCEPT ![who] = sent - Behind(oldest_tail) + cn]
    <2>1. CASE copies
      <3>1. got[who] = sent - Behind(oldest_tail)
        BY <1>1, <2>1, ConsumeFacts
      <3> QED
        BY <1>1, <2>1, <3>1, ConsumeFacts, ReadsNext DEF ConsumeOldest
    <2>2. CASE ~copies
      <3>1. got[who] = sent - Behind(oldest_tail) + cn
        BY <1>1, <2>2, ConsumeFacts
      <3> QED
        BY <2>2, <3>1, ConsumeFacts DEF ConsumeOldest, RingInv, RingTypeOK
    <2> QED
      BY <2>1, <2>2
  <1>4. got'[who] = sent - Behind(new')
    BY <1>2, <1>3, ConsumeFacts, <1>1 DEF RingInv, RingTypeOK
  <1>5. RingTypeOK'
    <2>1. sent - Behind(oldest_tail) + cn \in 0..MaxItems
      <3>1. MaxItems \in Nat /\ sent <= MaxItems
        BY RingAssumption DEF RingInv, RingTypeOK
      <3> QED
        BY <1>1, <1>2, <3>1, ConsumeFacts
    <2>2. got' \in [1..MaxReaders -> 0..MaxItems \cup {Wrong}]
      BY <1>3, <2>1 DEF RingInv, RingTypeOK
    <2> QED
      BY <1>1, <1>2, <2>2 DEF RingInv, RingTypeOK, ringVars, insVars, Place
  <1>6. ConsumeInv' /\ UpdateInv'
    BY <1>1, <1>2 DEF ConsumeInv, UpdateInv, ringVars, Behind
  <1>7. HistoryInv' /\ OldestIsOldest' /\ InOrder'
    <2>1. got'[1] = sent - Behind(new') /\ got'[1] # Wrong
      BY <1>2, <1>4 DEF Wrong
    <2> QED
      BY <1>1, <1>2, <2>1 DEF RingInv, HistoryInv, OldestIsOldest, InOrder, ringVars, insVars,
         Behind, TailOf
  <1> QED
    BY <1>1, <1>5, <1>6, <1>7, ReaderKeeps DEF RingInv

LEMMA ConsumeOwnStep ==
  ASSUME RingInv, ConsumeOwn
  PROVE  RingInv'
  <1>1. /\ rd = "take" /\ rd' \in {"update", "search", "idle"} /\ mode = "own"
        /\ new' = tail'[who] /\ most' = 0
        /\ tail' = [tail EXCEPT ![who] = Advance(tail[who], cn)]
        /\ UNCHANGED <<ringVars, insVars, want, copies, ch, cn, got, destroyed>>
        /\ Alive /\ Alive' /\ TailOf(who) = tail[who]
    BY DEF ConsumeOwn, Alive, TailOf
  <1>2. /\ rd' = "update" => readers = 1 /\ who' = who
        /\ rd' = "search" => oldest_tail = tail[who] /\ who' = 1
        /\ rd' = "idle" => who' = who
    BY DEF ConsumeOwn
  <1>3. readers \in Nat /\ readers >= 1 /\ tail \in [1..MaxReaders -> Place]
    BY RingAssumption DEF RingInv, RingTypeOK
  <1>4. /\ tail'[who] \in Place /\ Behind(tail'[who]) = Behind(tail[who]) - 1
        /\ Behind(tail[who]) \in Nat /\ Behind(tail[who]) <= Behind(oldest_tail)
        /\ Behind(oldest_tail) \in Nat /\ Behind(oldest_tail) <= sent /\ sent \in Nat
        /\ Behind(tail'[who]) <= Behind(oldest_tail) /\ Behind(tail'[who]) \in Nat
        /\ got[who] = sent - Behind(tail'[who])
    <2>1. /\ cn = 1 /\ ~copies /\ tail'[who] = Advance(tail[who], cn)
      BY <1>1, <1>3, ConsumeFacts
    <2>2. Behind(tail'[who]) \in Nat
      BY <1>1, <2>1, RingFacts, ConsumeFacts, RingAssumption
    <2> QED
      BY <1>1, <2>1, <2>2, ConsumeFacts
  <1>5. ASSUME NEW q \in 1..readers
        PROVE  /\ tail'[q] \in Place /\ Behind(tail'[q]) \in Nat
               /\ Behind(tail'[q]) <= Behind(oldest_tail)
               /\ got[q] = sent - Behind(tail'[q])
    <2>1. CASE q = who
      BY <1>4, <2>1
    <2>2. CASE q # who
      <3>1. /\ tail'[q] = tail[q] /\ TailOf(q) = tail[q] /\ sent - Behind(tail[q]) \in Int
            /\ Behind(tail[q]) \in Nat
        BY <1>1, <1>3, <2>2, RingFacts, RingAssumption DEF TailOf
      <3> QED
        BY <1>1, <2>2, <3>1, RingFacts DEF RingInv, HistoryInv, Alive, Peeked
    <2> QED
      BY <2>1, <2>2
  <1>6. RingTypeOK'
    <2>1. who' \in 1..readers
      BY <1>1, <1>2, <1>3, ConsumeFacts
    <2>2. tail' \in [1..MaxReaders -> Place] /\ new' \in Place
      BY <1>1, <1>3, <1>4, ConsumeFacts
    <2>3. most' \in 0..Count-1
      BY <1>1, RingAssumption
    <2> QED
      BY <1>1, <2>1, <2>2, <2>3 DEF RingInv, RingTypeOK, ringVars, insVars, Place
  <1>7. ConsumeInv'
    BY <1>1 DEF ConsumeInv
  <1>8. UpdateInv'
    <2>1. rd' = "update" => \A r \in 1..readers : r = who
      BY <1>2, <1>3, ConsumeFacts, <1>1
    <2> QED
      BY <1>1, <1>2, <1>3, <1>4, <2>1 DEF UpdateInv, ringVars, Behind
  <1>9. HistoryInv' /\ OldestIsOldest' /\ InOrder'
    <2>1. \A q \in 1..readers : got[q] = sent - Behind(tail'[q]) + 0
      BY <1>4, <1>5
    <2>2. HistoryInv'
      BY <1>1, <2>1 DEF RingInv, HistoryInv, ringVars, insVars, Behind, TailOf, Peeked
    <2> QED
      BY <1>1, <1>5, <2>2 DEF RingInv, OldestIsOldest, InOrder, ringVars, Behind, TailOf
  <1> QED
    BY <1>1, <1>6, <1>7, <1>8, <1>9, ReaderKeeps DEF RingInv

LEMMA SearchStep ==
  ASSUME RingInv, Search
  PROVE  RingInv'
  <1> DEFINE m == Behind(tail[who])
  <1>1. /\ rd = "search" /\ rd' \in {"search", "update"} /\ Alive /\ Alive'
        /\ mode = "own" /\ most = IF who = 1 THEN 0 ELSE Behind(new)
        /\ UNCHANGED <<ringVars, insVars, tail, want, copies, ch, cn, got, destroyed>>
    BY DEF Search, Alive, RingInv, UpdateInv
  <1>2. /\ rd' = "search" => who < readers /\ who' = who + 1
        /\ rd' = "update" => who = readers /\ who' = who
    <2>1. who \in 1..readers /\ readers \in Nat
      BY RingAssumption DEF RingInv, RingTypeOK
    <2> QED
      BY <1>1, <2>1 DEF Search
  <1>3. /\ tail \in [1..MaxReaders -> Place] /\ new \in Place /\ most \in Nat /\ most < Count
        /\ who \in 1..readers /\ readers \in 1..MaxReaders /\ readers \in Nat
        /\ \A r \in 1..readers : r \in 1..MaxReaders
    BY RingAssumption DEF RingInv, RingTypeOK
  <1>4. \A p \in Place : Behind(p) \in Nat /\ Behind(p) < Count
    BY RingFacts, RingAssumption
  <1>5. IF m >= most THEN most' = m /\ new' = tail[who]
                     ELSE most' = most /\ new' = new
    BY DEF Search, Behind
  <1>6. /\ new' \in Place /\ most' \in 0..Count-1 /\ most' = Behind(new')
        /\ most <= most' /\ m <= most'
    <2>1. tail[who] \in Place /\ m \in Nat /\ m < Count /\ Behind(new) \in Nat
      BY <1>3, <1>4
    <2>2. CASE m >= most
      <3>1. most' = m /\ new' = tail[who]
        BY <1>5, <2>2
      <3>2. Behind(new') = m
        BY <3>1
      <3> QED
        BY <1>3, <2>1, <2>2, <3>1, <3>2, RingAssumption
    <2>3. CASE ~(m >= most)
      <3>1. most' = most /\ new' = new
        BY <1>5, <2>3
      <3>2. Behind(new') = most
        BY <1>1, <1>3, <2>1, <2>3, <3>1
      <3> QED
        BY <1>3, <2>1, <2>3, <3>1, <3>2, RingAssumption
    <2> QED
      BY <2>2, <2>3
  <1>7. Behind(new') <= Behind(oldest_tail)
    <2>1. Behind(tail[who]) <= Behind(oldest_tail)
      BY <1>1, <1>3, RingFacts DEF TailOf
    <2> QED
      BY <1>1, <1>5, <2>1 DEF RingInv, UpdateInv
  <1>8. \A r \in 1..who : Behind(tail[r]) <= most'
    <2> TAKE r \in 1..who
    <2>1. CASE r = who
      BY <1>6, <2>1
    <2>2. CASE r # who
      <3>1. r \in 1..who-1 /\ r \in 1..MaxReaders
        BY <1>3, <2>2, RingAssumption
      <3>2. Behind(tail[r]) <= most /\ Behind(tail[r]) \in Nat
        BY <1>1, <1>3, <1>4, <3>1 DEF RingInv, UpdateInv
      <3>3. most' \in Nat
        BY <1>6, RingAssumption
      <3> QED
        BY <1>3, <1>6, <3>2, <3>3
    <2> QED
      BY <2>1, <2>2
  <1>9. RingTypeOK'
    <2>1. who' \in 1..readers
      BY <1>1, <1>2, <1>3
    <2> QED
      BY <1>1, <1>3, <1>6, <2>1 DEF RingInv, RingTypeOK, ringVars, insVars, Place
  <1>10. ConsumeInv'
    BY <1>1 DEF ConsumeInv
  <1>11. UpdateInv'
    <2>1. CASE rd' = "search"
      <3>1. who' # 1 /\ who' - 1 = who
        BY <1>2, <1>3, <2>1
      <3> QED
        BY <1>1, <1>6, <1>7, <1>8, <2>1, <3>1 DEF UpdateInv, ringVars, Behind
    <2>2. CASE rd' = "update"
      <3>1. 1..who = 1..readers
        BY <1>2, <2>2
      <3> QED
        BY <1>1, <1>6, <1>7, <1>8, <2>2, <3>1 DEF UpdateInv, ringVars, Behind
    <2> QED
      BY <1>1, <2>1, <2>2
  <1>12. HistoryInv' /\ OldestIsOldest' /\ InOrder'
    BY <1>1 DEF RingInv, HistoryInv, OldestIsOldest, InOrder, ringVars, insVars, Alive, Behind,
       TailOf, Peeked
  <1> QED
    BY <1>1, <1>9, <1>10, <1>11, <1>12, ReaderKeeps DEF RingInv

-----------------------------------------------------------------------------
(* The oldest tail moves on.                                               *)

LEMMA OldestMoves ==
  ASSUME RingInv, NEW p \in Place, Behind(p) <= Behind(oldest_tail),
         oldest_tail' = p, UNCHANGED <<buf, head, insVars>>
  PROVE  Content' /\ InsertInv' /\ oldest_tail' \in Place
  <1>1. /\ Behind(p) \in Nat /\ Behind(oldest_tail) \in Nat /\ sent \in Nat
        /\ Behind(oldest_tail) <= sent
        /\ \A q \in Place : Behind(q) \in Nat
    BY RingFacts, RingAssumption
  <1>2. \A q \in Place : Behind(q)' = Behind(q)
    BY DEF Behind
  <1>3. Behind(oldest_tail)' = Behind(p)
    BY DEF Behind
  <1>4. Content'
    <2>1. \A q \in Place : Behind(q) \in 1..Behind(p) => buf[q] = sent + 1 - Behind(q)
      BY <1>1 DEF RingInv, Content
    <2>2. Behind(p) <= sent
      BY <1>1
    <2> QED
      BY <2>1, <2>2 DEF Content, Behind, insVars
  <1>5. InsertInv'
    <2>1. pt \in Place /\ pn \in Nat
      BY RingAssumption DEF RingInv, RingTypeOK
    <2>2. ins = "count" => Behind(p) <= Behind(pt)
      BY <1>1, <2>1 DEF RingInv, InsertInv
    <2>3. ins = "copy" => pn + Behind(p) < Count
      BY <1>1, <2>1, RingAssumption DEF RingInv, InsertInv
    <2> QED
      BY <2>2, <2>3 DEF RingInv, InsertInv, Behind, insVars
  <1> QED
    BY <1>4, <1>5

LEMMA UpdateFacts ==
  ASSUME RingInv, rd = "update"
  PROVE  /\ new \in Place /\ Behind(new) \in Nat /\ Behind(new) <= Behind(oldest_tail)
         /\ Alive /\ sent \in Nat
         /\ mode = "oldest" => readers = 1 /\ who = 1
         /\ \A r \in 1..readers :
              /\ r \in 1..MaxReaders
              /\ mode = "own" => Behind(tail[r]) <= Behind(new)
              /\ got[r] = IF mode = "oldest" THEN sent - Behind(new)
                                             ELSE sent - Behind(tail[r]) + 0
  <1>1. /\ new \in Place /\ Behind(new) \in Nat /\ Behind(new) <= Behind(oldest_tail)
        /\ sent \in Nat /\ who \in 1..readers /\ mode \in {"oldest", "own"}
    <2>1. new \in Place /\ mode \in {"oldest", "own"}
      BY DEF RingInv, RingTypeOK
    <2> QED
      BY <2>1, RingFacts, RingAssumption DEF RingInv, UpdateInv
  <1>2. Alive /\ (mode = "oldest" => readers = 1 /\ who = 1)
    BY <1>1 DEF Alive, RingInv, PhaseInv
  <1>3. ASSUME NEW r \in 1..readers
        PROVE  /\ r \in 1..MaxReaders
               /\ mode = "own" => Behind(tail[r]) <= Behind(new)
               /\ got[r] = IF mode = "oldest" THEN sent - Behind(new)
                                              ELSE sent - Behind(tail[r]) + 0
    <2>1. r \in 1..MaxReaders /\ sent - Behind(TailOf(r)) \in Int
      BY RingFacts, RingAssumption
    <2> QED
      BY <1>1, <1>2, <2>1 DEF RingInv, UpdateInv, HistoryInv, TailOf, Peeked
  <1> QED
    BY <1>1, <1>2, <1>3

LEMMA UpdateAtOnceStep ==
  ASSUME RingInv, UpdateAtOnce
  PROVE  RingInv'
  <1>1. /\ rd = "update" /\ rd' = "idle" /\ ~destroys /\ oldest_tail' = new
        /\ UNCHANGED <<insVars, readers, mode, destroys, buf, head, tail, who, want, copies,
                       ch, cn, new, most, got, destroyed>>
        /\ Alive'
    BY DEF UpdateAtOnce, RdAt, Alive
  <1>2. Content' /\ InsertInv' /\ oldest_tail' \in Place
    BY <1>1, UpdateFacts, OldestMoves
  <1>3. RingTypeOK'
    BY <1>1, <1>2 DEF RingInv, RingTypeOK, insVars, Place
  <1>4. PhaseInv' /\ ConsumeInv' /\ UpdateInv'
    BY <1>1, UpdateFacts DEF RingInv, PhaseInv, ConsumeInv, UpdateInv, insVars, Alive
  <1>5. HistoryInv' /\ OldestIsOldest' /\ InOrder'
    <2>1. Waiting(head, new) <= Waiting(head, new) /\ sent - Behind(new) + 0 = sent - Behind(new)
      BY <1>1, UpdateFacts DEF Behind
    <2>2. OldestIsOldest' /\ InOrder'
      BY <1>1, <2>1, UpdateFacts DEF RingInv, OldestIsOldest, InOrder, TailOf, Behind
    <2>3. HistoryInv'
      BY <1>1, <2>1, UpdateFacts DEF RingInv, RingTypeOK, HistoryInv, TailOf, Behind, Peeked,
         insVars
    <2> QED
      BY <2>2, <2>3
  <1> QED
    BY <1>2, <1>3, <1>4, <1>5 DEF RingInv

(* destroy_element gets the oldest element, which is the next one.         *)
LEMMA DestroysNext ==
  ASSUME RingInv, destroys, Behind(oldest_tail) > 0, Destroys,
         oldest_tail' = Advance(oldest_tail, 1)
  PROVE  /\ oldest_tail' \in Place
         /\ Behind(oldest_tail') = Behind(oldest_tail) - 1
         /\ Behind(oldest_tail') <= Behind(oldest_tail)
         /\ Behind(oldest_tail') \in Nat
         /\ destroyed' = sent - Behind(oldest_tail')
         /\ destroyed' \in 0..MaxItems
  <1>1. /\ head \in Place /\ oldest_tail \in Place /\ Behind(oldest_tail) \in Nat
        /\ sent \in Nat /\ sent <= MaxItems /\ Behind(oldest_tail) <= sent
        /\ MaxItems \in Nat
    BY RingFacts, RingAssumption DEF RingInv, RingTypeOK
  <1>2. oldest_tail' \in Place /\ Behind(oldest_tail') = Behind(oldest_tail) - 1
    BY <1>1, TailMoves DEF Behind
  <1>3. buf[oldest_tail] = sent + 1 - Behind(oldest_tail)
    BY <1>1 DEF RingInv, Content
  <1>4. destroyed = sent - Behind(oldest_tail)
    BY DEF RingInv, HistoryInv
  <1>5. destroyed' = sent - Behind(oldest_tail) + 1
    BY <1>1, <1>3, <1>4 DEF Destroys
  <1> QED
    BY <1>1, <1>2, <1>5

LEMMA UpdateOneStep ==
  ASSUME RingInv, UpdateOne
  PROVE  RingInv'
  <1>1. /\ rd = "update" /\ destroys /\ oldest_tail # new
        /\ oldest_tail' = Advance(oldest_tail, 1) /\ Destroys
        /\ UNCHANGED <<insVars, readers, mode, destroys, buf, head, tail, rd, who, want,
                       copies, ch, cn, new, most, got>>
    BY DEF UpdateOne
  <1>2. /\ head \in Place /\ oldest_tail \in Place /\ Behind(oldest_tail) \in Nat
        /\ sent \in Nat
    BY RingFacts, RingAssumption
  <1>3. Behind(new) < Behind(oldest_tail)
    <2>1. Behind(new) # Behind(oldest_tail)
      BY <1>1, <1>2, UpdateFacts, SameDistance DEF Behind
    <2> QED
      BY <1>1, <1>2, <2>1, UpdateFacts
  <1>4. /\ oldest_tail' \in Place /\ Behind(oldest_tail') = Behind(oldest_tail) - 1
        /\ Behind(oldest_tail') <= Behind(oldest_tail)
        /\ destroyed' = sent - Behind(oldest_tail') /\ destroyed' \in 0..MaxItems
    BY <1>1, <1>2, <1>3, UpdateFacts, DestroysNext
  <1>5. Behind(new) <= Behind(oldest_tail') /\ Behind(oldest_tail') \in Nat
    BY <1>1, <1>2, <1>3, <1>4, UpdateFacts
  <1>6. Content' /\ InsertInv'
    BY <1>1, <1>4, OldestMoves
  <1>7. RingTypeOK'
    BY <1>1, <1>4 DEF RingInv, RingTypeOK, insVars, Place
  <1>8. PhaseInv' /\ ConsumeInv'
    BY <1>1 DEF RingInv, PhaseInv, ConsumeInv, insVars, Alive
  <1>9. UpdateInv'
    BY <1>1, <1>5 DEF RingInv, UpdateInv, Behind
  <1>10. HistoryInv'
    <2>1. mode \in {"oldest", "own"}
      BY DEF RingInv, RingTypeOK
    <2> QED
      BY <1>1, <1>4, <2>1 DEF RingInv, HistoryInv, TailOf, Behind, Peeked, Alive, insVars
  <1>11. OldestIsOldest' /\ InOrder'
    <2>1. InOrder'
      BY <1>1 DEF RingInv, InOrder
    <2>2. ASSUME NEW r \in 1..readers
          PROVE  /\ mode = "own" => Behind(tail[r]) <= Behind(oldest_tail')
                 /\ Behind(oldest_tail') <= Behind(oldest_tail')
      <3>1. mode = "own" => Behind(tail[r]) \in Nat
        BY RingFacts, RingAssumption DEF TailOf
      <3> QED
        BY <1>1, <1>5, <3>1, UpdateFacts
    <2> QED
      BY <1>1, <2>1, <2>2 DEF OldestIsOldest, TailOf, Behind
  <1> QED
    BY <1>6, <1>7, <1>8, <1>9, <1>10, <1>11 DEF RingInv

LEMMA UpdateEndsStep ==
  ASSUME RingInv, UpdateEnds
  PROVE  RingInv'
  <1>1. /\ rd = "update" /\ rd' = "idle" /\ destroys /\ oldest_tail = new
        /\ UNCHANGED <<ringVars, insVars, tail, who, want, copies, ch, cn, new, most, got,
                       destroyed>>
        /\ Alive /\ Alive'
    BY DEF UpdateEnds, RdAt, Alive
  <1>2. RingTypeOK'
    BY <1>1 DEF RingInv, RingTypeOK, ringVars, insVars, Place
  <1>3. ConsumeInv' /\ UpdateInv'
    BY <1>1 DEF ConsumeInv, UpdateInv
  <1>4. OldestIsOldest' /\ InOrder'
    BY <1>1 DEF RingInv, OldestIsOldest, InOrder, ringVars, TailOf, Alive
  <1>5. HistoryInv'
    <2>1. sent - Behind(new) + 0 = sent - Behind(new)
      BY <1>1, UpdateFacts
    <2> QED
      BY <1>1, <2>1, UpdateFacts DEF RingInv, RingTypeOK, HistoryInv, TailOf, Behind, Peeked,
         ringVars, insVars
  <1> QED
    BY <1>1, <1>2, <1>3, <1>4, <1>5, ReaderKeeps DEF RingInv

LEMMA DestroyBeginsStep ==
  ASSUME RingInv, DestroyBegins
  PROVE  RingInv'
  <1>1. /\ ins' = "gone" /\ rd' = "destroy" /\ ~Alive'
        /\ UNCHANGED <<ringVars, pn, pt, sent, tail, who, want, copies, ch, cn, new, most,
                       got, destroyed>>
    BY DEF DestroyBegins, RdAt, Alive
  <1>2. RingTypeOK'
    BY <1>1 DEF RingInv, RingTypeOK, ringVars, Place
  <1>3. PhaseInv' /\ Content' /\ InsertInv' /\ ConsumeInv' /\ UpdateInv'
    BY <1>1 DEF RingInv, PhaseInv, Content, InsertInv, ConsumeInv, UpdateInv, ringVars, Behind
  <1>4. HistoryInv' /\ OldestIsOldest' /\ InOrder'
    BY <1>1 DEF RingInv, HistoryInv, OldestIsOldest, InOrder, ringVars, Behind
  <1> QED
    BY <1>2, <1>3, <1>4 DEF RingInv

LEMMA DestroyOneStep ==
  ASSUME RingInv, DestroyOne
  PROVE  RingInv'
  <1>1. /\ rd = "destroy" /\ destroys /\ oldest_tail # head /\ ~Alive /\ ~Alive'
        /\ oldest_tail' = Advance(oldest_tail, 1) /\ Destroys
        /\ UNCHANGED <<insVars, readers, mode, destroys, buf, head, tail, rd, who, want,
                       copies, ch, cn, new, most, got>>
    BY DEF DestroyOne, Alive
  <1>2. Behind(oldest_tail) > 0
    <2>1. head \in Place /\ oldest_tail \in Place /\ Behind(oldest_tail) \in Nat
      BY RingFacts, RingAssumption
    <2>2. Behind(oldest_tail) # 0
      BY <1>1, <2>1, WaitingType DEF Behind
    <2> QED
      BY <2>1, <2>2
  <1>3. /\ oldest_tail' \in Place /\ Behind(oldest_tail') <= Behind(oldest_tail)
        /\ destroyed' = sent - Behind(oldest_tail') /\ destroyed' \in 0..MaxItems
    BY <1>1, <1>2, DestroysNext
  <1>4. Content' /\ InsertInv'
    BY <1>1, <1>3, OldestMoves
  <1>5. RingTypeOK'
    BY <1>1, <1>3 DEF RingInv, RingTypeOK, insVars, Place
  <1>6. PhaseInv' /\ ConsumeInv' /\ UpdateInv'
    BY <1>1 DEF RingInv, PhaseInv, ConsumeInv, UpdateInv, insVars
  <1>7. HistoryInv' /\ OldestIsOldest' /\ InOrder'
    BY <1>1, <1>3 DEF RingInv, HistoryInv, OldestIsOldest, InOrder, Behind, insVars
  <1> QED
    BY <1>4, <1>5, <1>6, <1>7 DEF RingInv

LEMMA DestroyEndsStep ==
  ASSUME RingInv, DestroyEnds
  PROVE  RingInv'
  <1>1. /\ rd = "destroy" /\ rd' = "gone" /\ (destroys => oldest_tail = head)
        /\ ~Alive /\ ~Alive'
        /\ UNCHANGED <<ringVars, insVars, tail, who, want, copies, ch, cn, new, most, got,
                       destroyed>>
    BY DEF DestroyEnds, RdAt, Alive
  <1>2. RingTypeOK'
    BY <1>1 DEF RingInv, RingTypeOK, ringVars, insVars, Place
  <1>3. PhaseInv' /\ Content' /\ InsertInv' /\ ConsumeInv' /\ UpdateInv'
    BY <1>1 DEF RingInv, PhaseInv, Content, InsertInv, ConsumeInv, UpdateInv, ringVars,
       insVars, Behind
  <1>4. HistoryInv' /\ OldestIsOldest' /\ InOrder'
    BY <1>1 DEF RingInv, HistoryInv, OldestIsOldest, InOrder, ringVars, insVars, Behind
  <1> QED
    BY <1>2, <1>3, <1>4 DEF RingInv

-----------------------------------------------------------------------------
LEMMA RingInit == Init => RingInv
  <1> SUFFICES ASSUME Init PROVE RingInv
    OBVIOUS
  <1>1. /\ readers \in 1..MaxReaders /\ readers \in Nat /\ 0 \in Place /\ 1 \in 1..readers
        /\ Behind(0) = 0 /\ \A r \in 1..readers : r \in 1..MaxReaders
    BY RingAssumption DEF Init, Place, Behind, Waiting
  <1>2. RingTypeOK
    <2>1. /\ buf \in [Place -> 0..MaxItems] /\ tail \in [1..MaxReaders -> Place]
          /\ got \in [1..MaxReaders -> 0..MaxItems \cup {Wrong}]
      BY <1>1, RingAssumption DEF Init
    <2>2. mode \in {"oldest", "own"}
      BY DEF Init
    <2>3. /\ 0 \in 0..MaxCall /\ 0 \in 0..Count-1 /\ 0 \in 0..MaxItems
      BY RingAssumption
    <2> QED
      BY <1>1, <2>1, <2>2, <2>3 DEF Init, RingTypeOK
  <1>3. TailOf(1) = 0 /\ \A r \in 1..readers : TailOf(r) = 0
    BY <1>1 DEF Init, TailOf
  <1>4. PhaseInv /\ Content /\ InsertInv /\ ConsumeInv /\ UpdateInv
    BY <1>1, RingAssumption DEF Init, PhaseInv, Content, InsertInv, ConsumeInv, UpdateInv, Alive
  <1>5. HistoryInv /\ OldestIsOldest /\ InOrder
    <2>1. Waiting(head, 0) = 0
      BY <1>1 DEF Init, Behind
    <2>2. \A r \in 1..readers : got[r] = 0
      BY <1>1 DEF Init
    <2> QED
      BY <1>1, <1>3, <2>1, <2>2
         DEF Init, HistoryInv, OldestIsOldest, InOrder, Alive, Peeked, Behind, Wrong
  <1> QED
    BY <1>2, <1>4, <1>5 DEF RingInv

LEMMA RingStep ==
  ASSUME SafeRing
  PROVE  RingInv /\ [Next]_vars => RingInv'
  <1> SUFFICES ASSUME RingInv, [Next]_vars PROVE RingInv'
    OBVIOUS
  <1>1. CASE Inserter
    BY <1>1, InserterStep
  <1>2. CASE Reading
    BY <1>2, TakeStep, GetElementStep, ConsumeLoadsStep, ConsumeCountsStep, ConsumeOldestStep,
       ConsumeOwnStep, SearchStep, UpdateAtOnceStep, UpdateOneStep, UpdateEndsStep DEF Reading
  <1>3. CASE Destroy
    BY <1>3, DestroyBeginsStep, DestroyOneStep, DestroyEndsStep DEF Destroy
  <1>4. CASE UNCHANGED vars
    <2> USE <1>4 DEF vars, ringVars, insVars, rdVars
    <2>1. RingTypeOK'
      BY DEF RingInv, RingTypeOK, Place
    <2>2. PhaseInv' /\ Content' /\ InsertInv' /\ ConsumeInv'
      BY DEF RingInv, PhaseInv, Content, InsertInv, ConsumeInv, Alive, Behind, TailOf
    <2>3. UpdateInv' /\ HistoryInv' /\ OldestIsOldest' /\ InOrder'
      BY DEF RingInv, UpdateInv, HistoryInv, OldestIsOldest, InOrder, Alive, Behind, TailOf,
         Peeked
    <2> QED
      BY <2>1, <2>2, <2>3 DEF RingInv
  <1> QED
    BY <1>1, <1>2, <1>3, <1>4 DEF Next

(* RingInv is invariant: with it every property below is a fact about a    *)
(* single state.                                                           *)
THEOREM RingInductive == SafeRing => (Spec => []RingInv)
  <1> SUFFICES ASSUME SafeRing PROVE Spec => []RingInv
    OBVIOUS
  <1> QED
    BY RingInit, RingStep, PTL DEF Spec

(* Every reachable state has the right type.                               *)
THEOREM RingTypeCorrect == SafeRing => (Spec => []RingTypeOK)
  <1>1. RingInv => RingTypeOK
    BY DEF RingInv
  <1> QED
    BY <1>1, RingInductive, PTL

(* No reader's tail is older than oldest_tail, which is what the macros    *)
(* search for.                                                             *)
THEOREM OldestTail == SafeRing => (Spec => []OldestIsOldest)
  <1>1. RingInv => OldestIsOldest
    BY DEF RingInv
  <1> QED
    BY <1>1, RingInductive, PTL

(* A reader gets every element once and in the order of insertion.         *)
THEOREM ReadInOrder == SafeRing => (Spec => []InOrder)
  <1>1. RingInv => InOrder
    BY DEF RingInv
  <1> QED
    BY <1>1, RingInductive, PTL

(* A place behind head by at most the length of the used part is not one   *)
(* of the n free places an insert fills.                                   *)
LEMMA FreePlace ==
  ASSUME NEW h \in Place, NEW n \in Nat, NEW u \in Nat, n + u < Count,
         NEW i \in Nat, i < n
  PROVE  Waiting(h, Advance(h, i)) = 0 \/ Waiting(h, Advance(h, i)) > u
  BY RingAssumption DEF Waiting, Advance, Place

LEMMA UsedPlace ==
  ASSUME NEW h \in Place, NEW p \in Place, NEW u \in Nat, Waiting(h, p) <= u,
         NEW i \in Nat, i < Waiting(h, p)
  PROVE  Waiting(h, Advance(p, i)) \in 1..u
  <1>1. Waiting(h, p) \in Nat
    BY WaitingType, RingAssumption
  <1> QED
    BY <1>1, TailMoves

(* An insert fills places that no reader has still to read and that hold   *)
(* nothing to destroy, although no lock keeps the threads apart.           *)
THEOREM PlacesDisjoint == SafeRing => (Spec => []Disjoint)
  <1>1. RingInv => Disjoint
    <2> SUFFICES ASSUME RingInv, NEW p \in Filling, p \in InUse PROVE FALSE
      BY DEF Disjoint
    <2> DEFINE u == Behind(oldest_tail)
    <2>1. ins = "copy" /\ p \in Places(head, pn)
      BY DEF Filling
    <2>2. Alive /\ pn \in Nat /\ pn + u < Count
      BY <2>1, RingAssumption DEF RingInv, RingTypeOK, PhaseInv, InsertInv
    <2>3. /\ head \in Place /\ oldest_tail \in Place /\ u \in Nat /\ Waiting(head, oldest_tail) = u
          /\ \A r \in 1..readers : TailOf(r) \in Place /\ Waiting(head, TailOf(r)) <= u
      BY <2>2, RingFacts, RingAssumption DEF Behind
    <2>4. Waiting(head, p) = 0 \/ Waiting(head, p) > u
      <3>1. PICK i \in 0..pn-1 : p = Advance(head, i)
        BY <2>1 DEF Places
      <3> QED
        BY <2>2, <2>3, <3>1, FreePlace
    <2>5. ASSUME NEW t \in Place, Waiting(head, t) <= u, p \in Places(t, Waiting(head, t))
          PROVE  Waiting(head, p) \in 1..u
      <3>1. Waiting(head, t) \in Nat
        BY <2>3, WaitingType, RingAssumption
      <3>2. PICK i \in 0..Waiting(head, t)-1 : p = Advance(t, i)
        BY <2>5 DEF Places
      <3> QED
        BY <2>3, <2>5, <3>1, <3>2, UsedPlace
    <2>6. Waiting(head, p) \in 1..u
      <3>1. CASE p \in Places(oldest_tail, Waiting(head, oldest_tail))
        BY <2>3, <2>5, <3>1
      <3>2. CASE p \in UNION {Places(TailOf(r), Waiting(head, TailOf(r))) : r \in 1..readers}
        <4>1. PICK r \in 1..readers : p \in Places(TailOf(r), Waiting(head, TailOf(r)))
          BY <3>2
        <4> QED
          BY <2>3, <2>5, <4>1
      <3> QED
        BY <3>1, <3>2 DEF InUse
    <2> QED
      BY <2>3, <2>4, <2>6
  <1> QED
    BY <1>1, RingInductive, PTL

LEMMA ReadsAre ==
  ASSUME RingInv, Alive, NEW r \in 1..readers
  PROVE  /\ got[r] \in Nat /\ r \in 1..MaxReaders
         /\ sent - Behind(oldest_tail) <= got[r] /\ got[r] <= sent
  <1>1. /\ sent \in Nat /\ Behind(oldest_tail) \in Nat /\ Behind(oldest_tail) <= sent
        /\ TailOf(r) \in Place /\ Behind(TailOf(r)) \in Nat
        /\ Behind(TailOf(r)) <= Behind(oldest_tail) /\ r \in 1..MaxReaders
    BY RingFacts, RingAssumption
  <1>2. CASE mode = "oldest" /\ rd = "update"
    <2>1. /\ Behind(new) \in Nat /\ Behind(new) <= Behind(oldest_tail)
          /\ got[r] = sent - Behind(new)
      BY <1>2, UpdateFacts
    <2> QED
      BY <1>1, <2>1
  <1>3. CASE ~(mode = "oldest" /\ rd = "update")
    <2>1. got[r] = sent - Behind(TailOf(r)) + (IF Peeked(r) THEN 1 ELSE 0)
      BY <1>3 DEF RingInv, HistoryInv
    <2>2. Peeked(r) => Behind(TailOf(r)) > 0
      <3>1. Peeked(r) => r = who /\ Behind(TailOf(who)) > 0
        BY RingAssumption DEF Peeked, RingInv, ConsumeInv
      <3> QED
        BY <3>1
    <2> QED
      BY <1>1, <2>1, <2>2
  <1> QED
    BY <1>2, <1>3

(* destroy_element gets every element once, in order, and only after all   *)
(* readers have read it.                                                   *)
THEOREM DestroyInOrder == SafeRing => (Spec => []DestroyedInOrder)
  <1>1. RingInv => DestroyedInOrder
    <2> SUFFICES ASSUME RingInv PROVE DestroyedInOrder
      OBVIOUS
    <2>1. /\ destroyed = IF destroys THEN sent - Behind(oldest_tail) ELSE 0
          /\ Behind(oldest_tail) \in Nat /\ sent \in Nat /\ Behind(oldest_tail) <= sent
      BY RingFacts, RingAssumption DEF RingInv, HistoryInv
    <2>2. destroyed # Wrong
      BY <2>1 DEF Wrong
    <2>3. ASSUME Alive, NEW r \in 1..readers PROVE destroyed <= got[r]
      BY <2>1, <2>3, ReadsAre
    <2> QED
      BY <2>2, <2>3 DEF DestroyedInOrder
  <1> QED
    BY <1>1, RingInductive, PTL

(* destroy_ring_buff leaves no element undestroyed.                        *)
THEOREM EverythingDestroyed == SafeRing => (Spec => []AllDestroyed)
  <1>1. RingInv => AllDestroyed
    <2> SUFFICES ASSUME RingInv, rd = "gone", destroys PROVE destroyed = sent
      BY DEF AllDestroyed
    <2>1. head \in Place /\ sent \in Nat /\ oldest_tail = head
      BY RingFacts DEF RingInv, PhaseInv
    <2>2. Behind(oldest_tail) = 0
      BY <2>1, WaitingType DEF Behind
    <2> QED
      BY <2>1, <2>2 DEF RingInv, HistoryInv
  <1> QED
    BY <1>1, RingInductive, PTL

-----------------------------------------------------------------------------
(* RingBuff implements Broadcast.                                          *)

LEMMA MapsPublish ==
  ASSUME RingInv, NEW k \in 1..Count, Publishes(k), ins = "copy"
  PROVE  Abstract!Next
  <1>1. /\ Behind(oldest_tail) \in Nat /\ Behind(oldest_tail) + k < Count /\ Alive
    BY PublishMoves, RingAssumption
  <1>2. sent \in Nat /\ sent' = sent + k /\ UNCHANGED <<readers, got>> /\ k \in 1..Count-1
    BY <1>1, RingFacts, RingAssumption DEF Publishes, rdVars
  <1>3. ASSUME NEW r \in 1..readers PROVE sent' - got[r] <= Count - 1
    BY <1>1, <1>2, ReadsAre, RingAssumption
  <1>4. Abstract!Send(k)
    BY <1>2, <1>3 DEF Abstract!Send
  <1> QED
    BY <1>2, <1>4 DEF Abstract!Next

LEMMA MapsRead ==
  ASSUME RingInv, NEW r \in 1..readers, NEW n \in Nat, Alive, Alive',
         n <= Behind(TailOf(r)),
         got[r] = sent - Behind(TailOf(r)),
         Reads(r, TailOf(r), n),
         UNCHANGED <<readers, sent>>
  PROVE  [Abstract!Next]_Abstract!vars
  <1>1. /\ r \in 1..MaxReaders /\ sent \in Nat /\ Behind(TailOf(r)) \in Nat
        /\ Behind(TailOf(r)) < Count
    BY RingFacts, RingAssumption
  <1>2. got' = [got EXCEPT ![r] = got[r] + n]
    BY ReadsNext
  <1>3. CASE n = 0
    <2>1. got' = got
      BY <1>1, <1>2, <1>3 DEF RingInv, RingTypeOK
    <2> QED
      BY <2>1 DEF Abstract!vars
  <1>4. CASE n # 0
    <2>1. n \in 1..Count-1 /\ got[r] + n <= sent
      BY <1>1, <1>4, RingAssumption
    <2>2. Abstract!Receive(r, n)
      BY <1>2, <2>1 DEF Abstract!Receive
    <2> QED
      BY <2>1, <2>2 DEF Abstract!Next
  <1> QED
    BY <1>3, <1>4

LEMMA RingMaps ==
  ASSUME SafeRing, RingInv, [Next]_vars
  PROVE  [Abstract!Next]_Abstract!vars
  <1>1. CASE InsertWraps
    <2>1. head \in Place /\ pn \in Nat
      BY RingAssumption DEF RingInv, RingTypeOK
    <2>2. Count - head \in 1..Count /\ Advance(head, Count - head) = 0
      BY <2>1, RingAssumption DEF Place, Advance
    <2>3. Publishes(Count - head) /\ ins = "copy"
      BY <1>1, <2>1, <2>2, RingAssumption DEF InsertWraps, Publishes, Place
    <2> QED
      BY <2>2, <2>3, MapsPublish
  <1>2. CASE InsertEnds
    <2>1. pn \in Nat /\ pn <= Count /\ Publishes(pn) /\ ins = "copy" /\ sent \in Nat
      BY <1>2, RingAssumption DEF InsertEnds, InsAt, Publishes, RingInv, RingTypeOK
    <2>2. CASE pn = 0
      <3>1. UNCHANGED <<readers, sent, got>>
        BY <2>1, <2>2 DEF Publishes, rdVars
      <3> QED
        BY <3>1 DEF Abstract!vars
    <2>3. CASE pn # 0
      BY <2>1, <2>3, MapsPublish, RingAssumption
    <2> QED
      BY <2>2, <2>3
  <1>3. ASSUME NEW r \in 1..readers, GetElement(r)
        PROVE  [Abstract!Next]_Abstract!vars
    <2>1. /\ Alive /\ Alive' /\ UNCHANGED <<readers, sent>>
          /\ rd = "idle" /\ Reads(r, TailOf(r), 1) /\ head # TailOf(r)
      BY <1>3 DEF GetElement, RdAt, Alive, ringVars, insVars
    <2>2. /\ head \in Place /\ TailOf(r) \in Place /\ sent \in Nat
          /\ Behind(TailOf(r)) \in Nat
      BY RingFacts, RingAssumption
    <2>3. Behind(TailOf(r)) # 0
      BY <2>1, <2>2, WaitingType DEF Behind
    <2>4. got[r] = sent - Behind(TailOf(r))
      BY <2>1, <2>2 DEF RingInv, HistoryInv, Peeked
    <2> QED
      BY <2>1, <2>2, <2>3, <2>4, MapsRead
  <1>4. CASE ConsumeOldest
    <2>1. /\ rd = "take" /\ mode = "oldest" /\ Alive /\ Alive' /\ UNCHANGED <<readers, sent>>
          /\ TailOf(who) = oldest_tail
          /\ IF copies THEN Reads(who, oldest_tail, cn) ELSE UNCHANGED got
      BY <1>4 DEF ConsumeOldest, RdAt, Alive, TailOf, ringVars, insVars
    <2>2. CASE copies
      <3>1. got[who] = sent - Behind(TailOf(who))
        BY <2>1, <2>2, ConsumeFacts
      <3> QED
        BY <2>1, <2>2, <3>1, ConsumeFacts, MapsRead
    <2>3. CASE ~copies
      BY <2>1, <2>3 DEF Abstract!vars
    <2> QED
      BY <2>2, <2>3
  <1>5. CASE \/ InsertBegins \/ InsertCounts \/ Take \/ ConsumeLoads \/ ConsumeCounts
             \/ ConsumeOwn \/ Search \/ UpdateAtOnce \/ UpdateOne \/ UpdateEnds
             \/ Destroy \/ UNCHANGED vars
    <2>1. UNCHANGED <<readers, sent, got>>
      BY <1>5 DEF InsertBegins, InsertCounts, Take, ConsumeLoads, ConsumeCounts, ConsumeOwn,
         Search, UpdateAtOnce, UpdateOne, UpdateEnds, Destroy, DestroyBegins, DestroyOne,
         DestroyEnds, vars, ringVars, insVars, rdVars
    <2> QED
      BY <2>1 DEF Abstract!vars
  <1> QED
    BY <1>1, <1>2, <1>3, <1>4, <1>5 DEF Next, Inserter, Reading

(* Every behaviour of the ring buffer is one of Broadcast.                 *)
THEOREM RingImplements == SafeRing => (Spec => ImplementsBroadcast)
  <1> SUFFICES ASSUME SafeRing PROVE Spec => ImplementsBroadcast
    OBVIOUS
  <1>1. Init => Abstract!Init
    BY DEF Init, Abstract!Init
  <1>2. RingInv /\ [Next]_vars => [Abstract!Next]_Abstract!vars
    BY RingMaps
  <1> QED
    BY <1>1, <1>2, RingInductive, PTL DEF Spec, ImplementsBroadcast, Abstract!Spec
=============================================================================
