-------------------------------- MODULE Text --------------------------------
(***************************************************************************)
(* Functions of Common/util/StringHandle.cpp that take a text apart: the   *)
(* splits by a character and by a string, StringTrimVector and utf8_cut.   *)
(* A text is typed character by character; what the functions make of it   *)
(* is compared with definitions that do not scan.                          *)
(***************************************************************************)
EXTENDS Integers, FiniteSets, SequencesExt

CONSTANTS
  Char,       \* characters of the texts that are split
  MaxText,    \* bound: characters of a text
  MaxTag      \* bound: characters of a separator

ASSUME TextAssumption == MaxText \in Nat /\ MaxTag \in Nat

VARIABLES
  text,
  utf8   \* a UTF-8 text: the place of each byte in its character, 0 for the first

textVars == <<text, utf8>>

TextInit == text = <<>> /\ utf8 = <<>>

Type(c) == utf8 = <<>> /\ Len(text) < MaxText /\ text' = Append(text, c) /\ UNCHANGED utf8
TypeUtf8(n) ==
  /\ text = <<>> /\ Len(utf8) + n <= 2 * MaxText
  /\ utf8' = utf8 \o [b \in 1..n |-> b - 1] /\ UNCHANGED text
ClearText == text' = <<>> /\ utf8' = <<>>

TextNext == (\E c \in Char : Type(c)) \/ (\E n \in 1..4 : TypeUtf8(n)) \/ ClearText

TextSpec == TextInit /\ [][TextNext]_textVars

Tags == UNION {[1..n -> Char] : n \in 1..MaxTag}

-----------------------------------------------------------------------------
(* What a loop over 1..n makes of start, where step[i] says what its body  *)
(* makes of a state for i.                                                 *)
Loop(step, start, n) ==
  LET f[i \in 0..n] == IF i = 0 THEN start ELSE step[i][f[i - 1]]
  IN  f[n]

(* Fields so far and the one that is being read; an empty one is dropped.  *)
Ended(f) == IF f.res = <<>> THEN f
            ELSE [f EXCEPT !.vec = Append(@, f.res), !.res = <<>>]

SplitChar(s, tag) ==
  LET step == [i \in DOMAIN s |-> [f \in [vec : Seq(Seq(Char)), res : Seq(Char)] |->
                 IF s[i] = tag THEN Ended(f) ELSE [f EXCEPT !.res = Append(@, s[i])]]]
  IN  Ended(Loop(step, [vec |-> <<>>, res |-> <<>>], Len(s))).vec

(* The separator is found at p, not later than nEndPos.                    *)
Occurs(s, tag, p) == p + Len(tag) - 1 <= Len(s) /\ SubSeq(s, p, p + Len(tag) - 1) = tag

(* The overload for strings: behind a separator the loop goes on at next.  *)
SplitString(s, tag) ==
  LET step == [i \in DOMAIN s |-> [f \in [vec : Seq(Seq(Char)), res : Seq(Char), next : Nat] |->
                 IF i < f.next THEN f
                 ELSE IF Occurs(s, tag, i) THEN [Ended(f) EXCEPT !.next = i + Len(tag)]
                 ELSE [f EXCEPT !.res = Append(@, s[i])]]]
  IN  IF Len(tag) > Len(s) THEN <<s>>
      ELSE Ended(Loop(step, [vec |-> <<>>, res |-> <<>>, next |-> 1], Len(s))).vec

(* The overload for an array of separators: bStartFlag says that a field   *)
(* has begun, at nIndexSecond; what is left at the end is one more field.  *)
SplitArray(s, tags) ==
  LET step == [i \in DOMAIN s |-> [f \in [vec : Seq(Seq(Char)), first : DOMAIN s, flag : BOOLEAN] |->
                 IF s[i] \notin tags
                   THEN IF f.flag THEN f ELSE [f EXCEPT !.first = i, !.flag = TRUE]
                   ELSE [f EXCEPT !.flag = FALSE,
                           !.vec = Append(@, IF f.flag THEN SubSeq(s, f.first, i - 1) ELSE <<>>)]]]
      end == Loop(step, [vec |-> <<>>, first |-> 1, flag |-> FALSE], Len(s))
  IN  Append(end.vec, SubSeq(s, end.first, Len(s)))

(* StringTrimVector: the fields in a set, put together again.              *)
Joined(fields, tag) ==
  LET step == [k \in DOMAIN fields |-> [res \in Seq(Char) |->
                 (IF res = <<>> THEN <<>> ELSE Append(res, tag)) \o fields[k]]]
  IN  Loop(step, <<>>, Len(fields))

TrimVector(s, tag) == Joined(SetToSeq(ToSet(SplitChar(s, tag))), tag)

(* Variant: the text is cut at unLength.                                   *)
CutAnywhere(str, unLength) == SubSeq(str, 1, unLength)

(* utf8_cut: the text is cut before the last character that begins at      *)
(* unLength or before.                                                     *)
Utf8Cut(str, unLength) ==
  LET begins == {p \in 0..unLength : str[p + 1] = 0}
  IN  IF Len(str) <= unLength \/ begins = {} THEN str ELSE SubSeq(str, 1, Max(begins))

-----------------------------------------------------------------------------
(* The separators in a text: where its characters stand, if that does not  *)
(* begin within another separator.                                         *)
StandsAt(s, tag, p) ==
  \A k \in DOMAIN tag : p + k - 1 \in DOMAIN s /\ s[p + k - 1] = tag[k]

Separators(s, tag) ==
  CHOOSE found \in SUBSET DOMAIN s : \A p \in DOMAIN s :
    p \in found <=> StandsAt(s, tag, p) /\ \A q \in found : q < p => q + Len(tag) <= p

Between(s, tag) ==
  {p \in DOMAIN s : \A q \in Separators(s, tag) : p < q \/ p >= q + Len(tag)}

(* The longest runs of places that are free of separators, each from its   *)
(* first place to its last; and what is in them, in the order of the text. *)
Runs(free) ==
  {r \in free \X free : /\ r[1] <= r[2] /\ r[1]..r[2] \subseteq free
                        /\ r[1] - 1 \notin free /\ r[2] + 1 \notin free}

AreFields(vec, s, free) ==
  /\ Len(vec) = Cardinality(Runs(free))
  /\ \A r \in Runs(free) :
       vec[Cardinality({q \in Runs(free) : q[1] <= r[1]})] = SubSeq(s, r[1], r[2])

(* One field more than separators: in front of each separator what is      *)
(* between it and the one before, or the begin, and at the end what is     *)
(* left from where the last field with characters begins, with the         *)
(* separators behind it, or the whole text if there is no such field.      *)
AreBetween(vec, s, tags) ==
  LET seps   == {p \in DOMAIN s : s[p] \in tags}
      begins == {b \in DOMAIN s : b \notin seps /\ b - 1 \in seps \cup {0}}
  IN  /\ Len(vec) = Cardinality(seps) + 1
      /\ \A q \in seps \cup {0}, p \in seps :
           q < p /\ (\A m \in seps : m <= q \/ m >= p) =>
             vec[Cardinality({m \in seps : m < p}) + 1] = SubSeq(s, q + 1, p - 1)
      /\ \E b \in begins \cup {1} :
           /\ \A c \in begins : c <= b
           /\ vec[Cardinality(seps) + 1] = SubSeq(s, b, Len(s))

(* The two splits that rule texts and times of day are taken apart with    *)
(* give the fields between the separators, those without characters left   *)
(* out, also for separators that overlap themselves; a text shorter than   *)
(* the separator comes back whole.  StringTrimVector keeps each field      *)
(* once.  The array overload gives the empty fields too; a text that ends  *)
(* in a separator has its last field with characters again at the end, and *)
(* the separators behind it as well.                                       *)
SplitsRight ==
  /\ \A tag \in Tags :
       IF Len(tag) > Len(text) THEN SplitString(text, tag) = <<text>>
       ELSE AreFields(SplitString(text, tag), text, Between(text, tag))
  /\ \A c \in Char :
       /\ AreFields(SplitChar(text, c), text, {p \in DOMAIN text : text[p] # c})
       /\ LET kept == SplitChar(TrimVector(text, c), c)
          IN  IsInjective(kept) /\ ToSet(kept) = ToSet(SplitChar(text, c))
  /\ \A tags \in SUBSET Char : AreBetween(SplitArray(text, tags), text, tags)

(* A text that is cut has at most unLength bytes and whole characters, and *)
(* as many of them as fit.                                                 *)
AtBoundary(str, n) == n = Len(str) \/ str[n + 1] = 0

CutsWholeCharacters ==
  \A unLength \in 0..Len(utf8) :
    LET cut == Utf8Cut(utf8, unLength)
    IN  /\ Len(cut) <= unLength /\ AtBoundary(utf8, Len(cut)) /\ cut = SubSeq(utf8, 1, Len(cut))
        /\ \A n \in 0..unLength : AtBoundary(utf8, n) => n <= Len(cut)

TakesApart == SplitsRight /\ CutsWholeCharacters
=============================================================================
