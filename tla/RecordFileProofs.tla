--------------------------- MODULE RecordFileProofs --------------------------
(***************************************************************************)
(* What the operators of RecordFile and FieldEncoding return, for files    *)
(* and fields of any length: which lines a reader picks, what a write      *)
(* leaves that stopped anywhere, and which fields come back as they were.  *)
(***************************************************************************)
EXTENDS RecordFile, FieldEncoding, SequenceTheorems, FiniteSetTheorems, WellFoundedInduction,
        TLAPS

(* This many items of the sequence, from this one on *)
Window(picked, seq, first, size) ==
  DOMAIN picked = 1..size /\ \A n \in 1..size : picked[n] = seq[first + n - 1]

(* Picking adjacent places is taking a subsequence. *)
LEMMA PickedRange ==
  ASSUME NEW seq, NEW a \in Nat, NEW b \in Nat, NEW size \in Nat, a + size = b + 1,
         NEW places, places = a..b
  PROVE  Window(Picked(seq, places), seq, a, size)
<1>1. Cardinality(a..b) = size
  BY FS_Interval
<1>2. ASSUME NEW n \in 1..size
      PROVE  Nth(a..b, n) = a + n - 1
  <2>1. \A i \in a..b : Cardinality({j \in a..b : j <= i}) = i + 1 - a
    <3> SUFFICES ASSUME NEW i \in a..b
                 PROVE  Cardinality({j \in a..b : j <= i}) = i + 1 - a
      OBVIOUS
    <3> DEFINE below == {j \in a..b : j <= i}
    <3>1. below = a..i
      OBVIOUS
    <3>2. a \in Int /\ i \in Int /\ ~(a > i)
      OBVIOUS
    <3>3. Cardinality(a..i) = i - a + 1
      BY <3>2, FS_Interval
    <3>4. Cardinality(below) = i + 1 - a
      <4> HIDE DEF below
      <4> QED BY <3>1, <3>2, <3>3
    <3> QED BY <3>4
  <2>2. a + n - 1 \in a..b /\ \A i \in a..b : i + 1 - a = n <=> i = a + n - 1
    OBVIOUS
  <2> QED BY <2>1, <2>2 DEF Nth
<1> QED BY <1>1, <1>2 DEF Picked, Window

(* The rank of a place among the places; no two have the same. *)
Rank(places, i) == Cardinality({j \in places : j <= i})

LEMMA Ranks ==
  ASSUME NEW places \in SUBSET Nat, IsFiniteSet(places)
  PROVE  /\ Cardinality(places) \in Nat
         /\ \A i \in places : Rank(places, i) \in 1..Cardinality(places)
         /\ \A x, y \in places : Rank(places, x) = Rank(places, y) => x = y
<1> DEFINE Upto(k) == {j \in places : j <= k}
<1>1. \A k \in places : IsFiniteSet(Upto(k)) /\ Cardinality(Upto(k)) \in Nat
  BY FS_Subset, FS_CardinalityType
<1>2. Cardinality(places) \in Nat
  BY FS_CardinalityType
<1>3. ASSUME NEW i \in places
      PROVE  Cardinality(Upto(i)) \in 1..Cardinality(places)
  <2>1. i \in Upto(i) /\ Upto(i) \in SUBSET places
    OBVIOUS
  <2>2. Cardinality(Upto(i)) # 0
    BY <1>1, <2>1, FS_EmptySet
  <2>3. Cardinality(Upto(i)) <= Cardinality(places)
    BY <2>1, FS_Subset
  <2> QED BY <1>1, <1>2, <2>2, <2>3
<1>4. ASSUME NEW x \in places, NEW y \in places, x < y
      PROVE  Cardinality(Upto(x)) # Cardinality(Upto(y))
  <2>1. \A l, j : j \in Upto(l) <=> j \in places /\ j <= l
    OBVIOUS
  <2> HIDE DEF Upto
  <2>2. x \in Nat /\ y \in Nat
    OBVIOUS
  <2>3. y \in Upto(y) /\ y \notin Upto(x)
    BY <1>4, <2>1, <2>2
  <2>4. ASSUME NEW j \in Upto(x) PROVE j \in Upto(y)
    <3>1. j \in places /\ j <= x
      BY <2>1
    <3>2. j \in Nat
      BY <3>1
    <3>3. j <= y
      BY <1>4, <2>2, <3>1, <3>2
    <3> QED BY <2>1, <3>1, <3>3
  <2>5. Upto(x) \in SUBSET Upto(y)
    BY <2>4
  <2> QED BY <1>1, <2>3, <2>5, FS_Subset
<1>5. \A x, y \in places : x < y \/ y < x \/ x = y
  OBVIOUS
<1>6. \A i : Rank(places, i) = Cardinality(Upto(i))
  BY DEF Rank
<1> HIDE DEF Upto
<1> QED BY <1>2, <1>3, <1>4, <1>5, <1>6

(* Every place is picked. *)
LEMMA PickedItems ==
  ASSUME NEW seq, NEW places \in SUBSET Nat, IsFiniteSet(places), NEW i \in places
  PROVE  /\ Cardinality(places) \in Nat
         /\ \E n \in 1..Cardinality(places) : Picked(seq, places)[n] = seq[i]
<1> DEFINE n == Rank(places, i)
<1>1. n \in 1..Cardinality(places) /\ Cardinality(places) \in Nat
  BY Ranks
<1>2. \A k \in places : Rank(places, k) = n => k = i
  BY Ranks
<1>3. Nth(places, n) = i
  BY <1>2 DEF Nth, Rank
<1> QED BY <1>1, <1>3 DEF Picked

(* Nothing else is picked: there are as many ranks as places, and no two places
   have the same, so each rank is that of a place. *)
LEMMA PickedFrom ==
  ASSUME NEW seq, NEW places \in SUBSET Nat, IsFiniteSet(places),
         NEW n \in 1..Cardinality(places)
  PROVE  \E i \in places : Picked(seq, places)[n] = seq[i]
<1> DEFINE ranks == 1..Cardinality(places)
           f == [i \in places |-> Rank(places, i)]
<1>1. f \in Injection(places, ranks)
  BY Ranks DEF Injection, IsInjective
<1>2. IsFiniteSet(ranks) /\ Cardinality(ranks) = Cardinality(places)
  <2>1. Cardinality(places) \in Nat
    BY Ranks
  <2> QED BY <2>1, FS_Interval
<1> HIDE DEF f, ranks
<1>3. f \in Surjection(places, ranks)
  BY <1>1, <1>2, FS_Injection
<1>4. PICK i \in places : f[i] = n
  BY <1>3 DEF Surjection, ranks
<1>5. Nth(places, n) \in places
  BY <1>4 DEF Nth, Rank, f
<1> QED BY <1>5 DEF Picked

(* A sequence over a set is one over any larger set. *)
LEMMA SeqWider ==
  ASSUME NEW few, NEW more, few \subseteq more, NEW seq \in Seq(few)
  PROVE  seq \in Seq(more)
<1>1. Len(seq) \in Nat /\ seq \in [1..Len(seq) -> few]
  BY LenProperties
<1>2. seq \in [1..Len(seq) -> more]
  BY <1>1
<1> QED BY <1>1, <1>2, SeqDef

(* Two sequences, one behind the other *)
LEMMA Joined ==
  ASSUME NEW items, NEW s \in Seq(items), NEW t \in Seq(items)
  PROVE  /\ s \o t \in Seq(items) /\ Len(s \o t) = Len(s) + Len(t)
         /\ \A i \in 1..Len(s) : (s \o t)[i] = s[i]
         /\ \A i \in 1..Len(t) : (s \o t)[Len(s) + i] = t[i]
<1>1. Len(s) \in Nat /\ Len(t) \in Nat
  BY LenProperties
<1>2. \A i \in 1..Len(s) : i \in 1..Len(s) + Len(t) /\ i <= Len(s)
  BY <1>1
<1>3. \A i \in 1..Len(t) :
        /\ Len(s) + i \in 1..Len(s) + Len(t) /\ ~(Len(s) + i <= Len(s))
        /\ Len(s) + i - Len(s) = i
  BY <1>1
<1> QED BY <1>2, <1>3, ConcatProperties

(* The same of a sequence with a name of its own *)
LEMMA JoinedAs ==
  ASSUME NEW items, NEW s \in Seq(items), NEW t \in Seq(items), NEW both, both = s \o t
  PROVE  /\ both \in Seq(items) /\ Len(both) = Len(s) + Len(t)
         /\ \A i \in 1..Len(s) : both[i] = s[i]
         /\ \A i \in 1..Len(t) : both[Len(s) + i] = t[i]
BY Joined

-----------------------------------------------------------------------------
States == {"whole", "short", "last", "broken"}

(* Lines with these keys and values *)
LinesOf(keys, values) == [key : keys, value : values, state : States]

(* The lines of a key, as many as there are values. *)
LEMMA LinesShape ==
  ASSUME NEW keys, NEW values, NEW key \in keys, NEW seq \in Seq(values)
  PROVE  /\ Lines(key, seq) \in Seq(LinesOf(keys, values))
         /\ Len(Lines(key, seq)) = Len(seq)
         /\ \A i \in 1..Len(seq) : Lines(key, seq)[i] = Line(key, seq[i])
<1>1. Len(seq) \in Nat /\ DOMAIN seq = 1..Len(seq) /\ \A i \in 1..Len(seq) : seq[i] \in values
  BY LenProperties, ElementOfSeq
<1>2. Lines(key, seq) = [i \in 1..Len(seq) |-> Line(key, seq[i])]
  BY <1>1 DEF Lines
<1>3. Lines(key, seq) \in [1..Len(seq) -> LinesOf(keys, values)]
  BY <1>1, <1>2 DEF Line, LinesOf, States
<1>4. Lines(key, seq) \in Seq(LinesOf(keys, values))
  BY <1>1, <1>3, SeqDef
<1> QED BY <1>1, <1>2, <1>4, LenProperties

AllWhole(lines) == \A i \in 1..Len(lines) : lines[i].state = "whole"

(* The first lines, of which only the last may not be whole *)
CutShort(file, lines) ==
  /\ Len(file) <= Len(lines)
  /\ \A i \in 1..Len(file) :
       /\ file[i].key = lines[i].key
       /\ file[i].value = lines[i].value
       /\ i < Len(file) => file[i].state = "whole"

(* A write that stops leaves no more than that. *)
LEMMA WrittenShape ==
  ASSUME NEW keys, NEW values, NEW lines \in Seq(LinesOf(keys, values)), AllWhole(lines),
         NEW breakable \in SUBSET (1..Len(lines)),
         NEW file \in Written(lines, breakable)
  PROVE  file \in Seq(LinesOf(keys, values)) /\ CutShort(file, lines)
<1>1. Len(lines) \in Nat /\ \A i \in 1..Len(lines) : lines[i] \in LinesOf(keys, values)
  BY LenProperties, ElementOfSeq
<1>2. ASSUME NEW k \in 0..Len(lines)
      PROVE  /\ SubSeq(lines, 1, k) \in Seq(LinesOf(keys, values))
             /\ Len(SubSeq(lines, 1, k)) = k
             /\ \A i \in 1..k : SubSeq(lines, 1, k)[i] = lines[i]
  BY <1>1, SubSeqProperties
<1>3. ASSUME NEW k \in 1..Len(lines), NEW state \in States, file = Cut(lines, k, state)
      PROVE  /\ file \in Seq(LinesOf(keys, values))
             /\ Len(file) = k
             /\ \A i \in 1..k - 1 : file[i] = lines[i]
             /\ file[k] = [lines[k] EXCEPT !.state = state]
  <2>1. [lines[k] EXCEPT !.state = state] \in LinesOf(keys, values)
    BY <1>1 DEF LinesOf
  <2>2. k - 1 \in 0..Len(lines)
    BY <1>1
  <2> QED BY <1>2, <1>3, <2>1, <2>2, AppendProperties DEF Cut
<1>4. ASSUME \E k \in 0..Len(lines) : file = SubSeq(lines, 1, k)
      PROVE  file \in Seq(LinesOf(keys, values)) /\ CutShort(file, lines)
  BY <1>1, <1>2, <1>4 DEF AllWhole, CutShort
<1>5. ASSUME \E k \in 1..Len(lines), state \in States : file = Cut(lines, k, state)
      PROVE  file \in Seq(LinesOf(keys, values)) /\ CutShort(file, lines)
  <2>1. PICK k \in 1..Len(lines), state \in States : file = Cut(lines, k, state)
    BY <1>5
  <2>2. lines[k] \in LinesOf(keys, values) /\ file[k].key = lines[k].key /\ file[k].value = lines[k].value
    BY <1>1, <1>3, <2>1 DEF LinesOf
  <2>3. /\ file \in Seq(LinesOf(keys, values)) /\ Len(file) = k
        /\ \A i \in 1..k - 1 : file[i] = lines[i]
    BY <1>3, <2>1
  <2>4. k <= Len(lines) /\ \A i \in 1..k : i \in 1..Len(lines) /\ (i = k \/ i \in 1..k - 1)
    BY <1>1
  <2> QED BY <1>1, <2>2, <2>3, <2>4 DEF AllWhole, CutShort
<1> QED BY <1>4, <1>5 DEF Written, States

(* The one line of this key is here, and has its fields. *)
OnlyAt(file, key, p) ==
  /\ p \in DOMAIN file /\ file[p].state # "short"
  /\ \A i \in DOMAIN file : file[i].key = key <=> i = p

(* The field of a key that one line has. *)
LEMMA OnlyField ==
  ASSUME NEW file, NEW key, NEW p \in Nat, OnlyAt(file, key, p)
  PROVE  Fields(file, key)[1] = file[p]
<1> DEFINE places == {i \in DOMAIN file : file[i].key = key /\ file[i].state # "short"}
<1>1. places = p..p
  <2>1. \A i : i \in places <=> i = p
    BY DEF OnlyAt
  <2>2. \A i : i \in p..p <=> i = p
    OBVIOUS
  <2> QED BY <2>1, <2>2
<1>2. Fields(file, key) = Picked(file, places)
  BY DEF Fields
<1> HIDE DEF places
<1>3. p + 1 = p + 1 /\ 1 \in Nat
  OBVIOUS
<1>4. Window(Picked(file, places), file, p, 1)
  BY <1>1, <1>3, PickedRange
<1>5. 1 \in 1..1 /\ p + 1 - 1 = p
  OBVIOUS
<1>6. Picked(file, places)[1] = file[p]
  BY <1>4, <1>5 DEF Window
<1> QED BY <1>2, <1>6

-----------------------------------------------------------------------------
(* The encoding of fields: Encode and Decode are recursive functions, so what they
   return is an induction over the bytes of a field. *)

(* What holds of 0 and of the next number holds of all up to a bound. *)
LEMMA Counting ==
  ASSUME NEW n \in Nat, NEW S, 0 \in S, \A k \in 0..n : k \in S /\ k < n => k + 1 \in S
  PROVE  \A k \in 0..n : k \in S
<1> DEFINE R == {x \in Nat \X Nat : x[1] < x[2]}
           T == {k \in 0..n : k \notin S}
<1>1. IsWellFoundedOn(R, Nat)
  <2>1. R = OpToRel(<, Nat)
    BY DEF OpToRel
  <2> QED BY <2>1, NatLessThanWellFounded
<1>2. SUFFICES ASSUME T # {} PROVE FALSE
  OBVIOUS
<1>3. PICK k \in T : \A m \in T : <<m, k>> \notin R
  <2>1. T \subseteq Nat
    OBVIOUS
  <2> HIDE DEF R, T
  <2> QED BY <1>1, <1>2, <2>1, WFMin
<1>4. k \in 1..n
  OBVIOUS
<1>5. k - 1 \in 0..n /\ k - 1 < n /\ <<k - 1, k>> \in R
  BY <1>4
<1>6. k - 1 \in S
  BY <1>3, <1>5
<1> QED BY <1>4, <1>5, <1>6

(* A byte as it is written: an escape, itself, or the two bytes of a letter *)
UnitOf(unit, b) ==
  \/ /\ Len(unit) = 3 /\ unit[1] = Percent /\ unit[2] # Percent /\ unit[3] # Percent
     /\ 16 * DigitValue(unit[2]) + DigitValue(unit[3]) = b /\ b < 128
  \/ Len(unit) = 1 /\ unit[1] = b /\ b # Percent /\ b < 128
  \/ Len(unit) = 2 /\ unit[1] >= 128 /\ unit[2] >= 128 /\ b >= 128

(* Short sequences have their elements in the set. *)
LEMMA Singleton == ASSUME NEW S, NEW a \in S, NEW seq, seq = <<a>>
  PROVE seq \in Seq(S) /\ Len(seq) = 1 /\ seq[1] = a
OBVIOUS

LEMMA Couple == ASSUME NEW S, NEW a \in S, NEW b \in S, NEW seq, seq = <<a, b>>
  PROVE seq \in Seq(S) /\ Len(seq) = 2 /\ seq[1] = a /\ seq[2] = b
OBVIOUS

LEMMA Triple == ASSUME NEW S, NEW a \in S, NEW b \in S, NEW c \in S, NEW seq, seq = <<a, b, c>>
  PROVE seq \in Seq(S) /\ Len(seq) = 3 /\ seq[1] = a /\ seq[2] = b /\ seq[3] = c
OBVIOUS

(* The bytes one byte is encoded to. *)
LEMMA EncodedUnit ==
  ASSUME NEW b \in Byte
  PROVE  EncodeByte(b) \in Seq(Byte) /\ UnitOf(EncodeByte(b), b)
<1>1. PICK unit : unit = EncodeByte(b)
  OBVIOUS
<1>2. CASE b \in Escaped
  <2>1. PICK high, low : high = DigitByte(b \div 16) /\ low = DigitByte(b % 16)
    OBVIOUS
  <2>2. /\ high \in Byte /\ low \in Byte /\ high # Percent /\ low # Percent /\ b < 128
        /\ 16 * DigitValue(high) + DigitValue(low) = b
    <3>1. b = 37 \/ b = 10 \/ b = 13 \/ b = 9 \/ b = 124
      BY <1>2 DEF Escaped, Percent
    <3>2. CASE b = 37
      BY <2>1, <3>2 DEF DigitByte, DigitValue, Byte, Percent
    <3>3. CASE b = 10
      BY <2>1, <3>3 DEF DigitByte, DigitValue, Byte, Percent
    <3>4. CASE b = 13
      BY <2>1, <3>4 DEF DigitByte, DigitValue, Byte, Percent
    <3>5. CASE b = 9
      BY <2>1, <3>5 DEF DigitByte, DigitValue, Byte, Percent
    <3>6. CASE b = 124
      BY <2>1, <3>6 DEF DigitByte, DigitValue, Byte, Percent
    <3> QED BY <3>1, <3>2, <3>3, <3>4, <3>5, <3>6
  <2>3. unit = <<Percent, high, low>> /\ Percent \in Byte
    BY <1>1, <1>2, <2>1 DEF EncodeByte, Percent, Byte
  <2>4. unit \in Seq(Byte) /\ Len(unit) = 3
        /\ unit[1] = Percent /\ unit[2] = high /\ unit[3] = low
    BY <2>2, <2>3, Triple
  <2> QED BY <1>1, <2>2, <2>4 DEF UnitOf
<1>3. CASE b \notin Escaped /\ b < 128
  <2>1. unit = <<b>> /\ b # Percent
    BY <1>1, <1>3 DEF EncodeByte, CharBytes, Escaped
  <2>2. unit \in Seq(Byte) /\ Len(unit) = 1 /\ unit[1] = b
    BY <2>1, Singleton
  <2> QED BY <1>1, <1>3, <2>1, <2>2 DEF UnitOf
<1>4. CASE b >= 128
  <2>1. PICK first, second : first = 192 + b \div 64 /\ second = 128 + (b % 64)
    OBVIOUS
  <2>2. first \in Byte /\ second \in Byte /\ first >= 128 /\ second >= 128
    <3>1. b \in 128..255
      BY <1>4 DEF Byte
    <3>2. b \div 64 \in 0..3 /\ b % 64 \in 0..63
      BY <3>1
    <3> QED BY <2>1, <3>2 DEF Byte
  <2>3. unit = <<first, second>>
    BY <1>1, <1>4, <2>1 DEF EncodeByte, CharBytes, Escaped, Percent, Byte
  <2>4. unit \in Seq(Byte) /\ Len(unit) = 2 /\ unit[1] = first /\ unit[2] = second
    BY <2>2, <2>3, Couple
  <2> QED BY <1>1, <1>4, <2>2, <2>4 DEF UnitOf
<1> QED BY <1>2, <1>3, <1>4 DEF Byte

(* Joining sequences one by one *)
Joins(seqs, n, all) ==
  /\ all[1] = seqs[1]
  /\ \A i \in 2..n : all[i] = all[i - 1] \o seqs[i]

(* FlattenSeq is the last of the concatenations of longer and longer fronts. *)
LEMMA Flattened ==
  ASSUME NEW items, NEW n \in Nat \ {0}, NEW seqs \in [1..n -> Seq(items)]
  PROVE  \E all \in [1..n -> Seq(items)] : Joins(seqs, n, all) /\ FlattenSeq(seqs) = all[n]
<1> DEFINE S == {k \in 0..n : k > 0 => \E all \in [1..k -> Seq(items)] : Joins(seqs, k, all)}
<1>1. \A k \in 0..n : k \in S /\ k < n => k + 1 \in S
  <2> SUFFICES ASSUME NEW k \in 0..n, k \in S, k < n
               PROVE  k + 1 \in S
    OBVIOUS
  <2>1. CASE k = 0
    <3>1. PICK all : all = [i \in 1..1 |-> seqs[1]]
      OBVIOUS
    <3>2. all \in [1..1 -> Seq(items)] /\ Joins(seqs, 1, all)
      BY <3>1 DEF Joins
    <3> QED BY <2>1, <3>2
  <2>2. CASE k > 0
    <3>1. PICK all \in [1..k -> Seq(items)] : Joins(seqs, k, all)
      BY <2>2
    <3>2. PICK next : next = all[k] \o seqs[k + 1]
      OBVIOUS
    <3>3. next \in Seq(items)
      <4>1. all[k] \in Seq(items) /\ seqs[k + 1] \in Seq(items)
        BY <2>2
      <4> QED BY <3>2, <4>1
    <3>4. PICK more : more = [i \in 1..k + 1 |-> IF i <= k THEN all[i] ELSE next]
      OBVIOUS
    <3>5. more \in [1..k + 1 -> Seq(items)]
      BY <3>3, <3>4
    <3>6. /\ \A i \in 1..k : more[i] = all[i]
          /\ more[k + 1] = next
      BY <3>4
    <3>7. Joins(seqs, k + 1, more)
      <4>1. more[1] = seqs[1]
        BY <2>2, <3>1, <3>6 DEF Joins
      <4>2. ASSUME NEW i \in 2..k + 1
            PROVE  more[i] = more[i - 1] \o seqs[i]
        <5>1. CASE i = k + 1
          <6>1. more[i - 1] = all[k]
            BY <2>2, <3>6, <5>1
          <6> QED BY <3>2, <3>6, <5>1, <6>1
        <5>2. CASE i \in 2..k
          <6>1. i \in 1..k /\ i - 1 \in 1..k
            BY <5>2
          <6>2. all[i] = all[i - 1] \o seqs[i]
            BY <3>1, <5>2 DEF Joins
          <6> QED BY <3>6, <6>1, <6>2
        <5>3. i = k + 1 \/ i \in 2..k
          BY <2>2
        <5> QED BY <5>1, <5>2, <5>3
      <4> QED BY <4>1, <4>2 DEF Joins
    <3> QED BY <3>5, <3>7
  <2> QED BY <2>1, <2>2
<1>2. n \in S
  <2>1. 0 \in S
    OBVIOUS
  <2>2. n \in Nat /\ n \in 0..n
    OBVIOUS
  <2> HIDE DEF S
  <2> QED BY <1>1, <2>1, <2>2, Counting
<1>3. PICK all \in [1..n -> Seq(items)] : Joins(seqs, n, all)
  BY <1>2
<1> DEFINE Step(f) == [i \in 1..n |-> IF i = 1 THEN seqs[i] ELSE f[i - 1] \o seqs[i]]
           flatten == CHOOSE f : f = Step(f)
<1>4. all = Step(all)
  <2>1. ASSUME NEW i \in 1..n
        PROVE  all[i] = Step(all)[i]
    <3>1. i = 1 \/ i \in 2..n
      OBVIOUS
    <3> QED BY <1>3, <3>1 DEF Joins
  <2>2. all = [i \in 1..n |-> all[i]]
    OBVIOUS
  <2> QED BY <2>1, <2>2
<1>5. flatten = Step(flatten)
  <2> HIDE DEF Step
  <2> QED BY <1>4
<1>6. \A i \in 1..n : flatten[i] = IF i = 1 THEN seqs[i] ELSE flatten[i - 1] \o seqs[i]
  <2> HIDE DEF flatten
  <2> QED BY <1>5
<1>7. FlattenSeq(seqs) = flatten[n]
  <2>1. Len(seqs) = n
    OBVIOUS
  <2> QED BY <2>1 DEF FlattenSeq
<1> HIDE DEF flatten, Step
<1>8. flatten[n] = all[n]
  <2> DEFINE T == {k \in 0..n : k > 0 => flatten[k] = all[k]}
  <2>1. ASSUME NEW k \in 0..n, k \in T, k < n
        PROVE  k + 1 \in T
    <3>1. CASE k = 0
      BY <1>3, <1>6, <3>1 DEF Joins
    <3>2. CASE k > 0
      <4>1. all[k + 1] = all[k] \o seqs[k + 1]
        <5>1. k + 1 \in 2..n /\ (k + 1) - 1 = k
          BY <2>1, <3>2
        <5> QED BY <1>3, <5>1 DEF Joins
      <4>2. flatten[k + 1] = flatten[k] \o seqs[k + 1]
        <5>1. k + 1 \in 1..n /\ (k + 1) - 1 = k /\ k + 1 # 1
          BY <2>1, <3>2
        <5> QED BY <1>6, <5>1
      <4>3. flatten[k] = all[k] /\ k + 1 \in 0..n
        BY <2>1, <3>2
      <4> QED BY <4>1, <4>2, <4>3
    <3> QED BY <3>1, <3>2
  <2>2. 0 \in T
    OBVIOUS
  <2>3. n \in T
    <3>1. n \in Nat /\ n \in 0..n
      OBVIOUS
    <3> HIDE DEF T
    <3> QED BY <2>1, <2>2, <3>1, Counting
  <2> QED BY <2>3
<1> QED BY <1>3, <1>7, <1>8

(* Every escape has its two digits. *)
WholeEscapes(out) == \A i \in 1..Len(out) : out[i] = Percent => i + 2 <= Len(out)

(* Where the bytes of the input went in the output *)
EncodedAt(out, s, n, at) ==
  /\ at[0] = 0 /\ at[n] = Len(out)
  /\ \A j \in 1..n :
       /\ at[j] = at[j - 1] + Len(EncodeByte(s[j])) /\ at[j] <= Len(out)
       /\ \A i \in 1..Len(EncodeByte(s[j])) : out[at[j - 1] + i] = EncodeByte(s[j])[i]

(* Escapes that are whole in two parts are whole when these are joined. *)
LEMMA WholeEscapesJoined ==
  ASSUME NEW s \in Seq(Byte), NEW t \in Seq(Byte), WholeEscapes(s), WholeEscapes(t),
         NEW both, both = s \o t
  PROVE  WholeEscapes(both)
<1>1. /\ Len(s) \in Nat /\ Len(t) \in Nat /\ Len(both) = Len(s) + Len(t)
      /\ \A i \in 1..Len(s) : both[i] = s[i]
      /\ \A i \in 1..Len(t) : both[Len(s) + i] = t[i]
  BY Joined
<1> SUFFICES ASSUME NEW i \in 1..Len(both), both[i] = Percent
             PROVE  i + 2 <= Len(both)
  BY DEF WholeEscapes
<1>2. CASE i <= Len(s)
  <2>1. i \in 1..Len(s)
    BY <1>1, <1>2
  <2> QED BY <1>1, <2>1 DEF WholeEscapes
<1>3. CASE i > Len(s)
  <2>1. PICK k \in 1..Len(t) : i = Len(s) + k
    <3>1. i - Len(s) \in 1..Len(t) /\ i = Len(s) + (i - Len(s))
      BY <1>1, <1>3
    <3> QED BY <3>1
  <2>2. k + 2 <= Len(t)
    BY <1>1, <2>1 DEF WholeEscapes
  <2> QED BY <1>1, <2>1, <2>2
<1> QED BY <1>1, <1>2, <1>3

(* What Encode makes of a field, byte by byte from its beginning. *)
LEMMA Encoded ==
  ASSUME NEW s \in Seq(Byte), NEW n \in Nat, n = Len(s)
  PROVE  /\ Encode(s) \in Seq(Byte) /\ WholeEscapes(Encode(s))
         /\ \E at \in [0..n -> Nat] : EncodedAt(Encode(s), s, n, at)
<1> DEFINE seqs == [i \in 1..n |-> EncodeByte(s[i])]
<1>1. DOMAIN s = 1..n /\ \A i \in 1..n : s[i] \in Byte
  BY LenProperties, ElementOfSeq
<1>2. \A i \in 1..n : /\ EncodeByte(s[i]) \in Seq(Byte) /\ UnitOf(EncodeByte(s[i]), s[i])
                      /\ Len(EncodeByte(s[i])) \in Nat
  BY <1>1, EncodedUnit, LenProperties
<1>3. Encode(s) = FlattenSeq(seqs)
  BY <1>1 DEF Encode
<1>4. seqs \in [1..n -> Seq(Byte)] /\ \A i \in 1..n : seqs[i] = EncodeByte(s[i])
  BY <1>2
<1>5. CASE n = 0
  <2>1. PICK none : none = seqs
    OBVIOUS
  <2>2. none \in Seq(Byte) /\ Len(none) = 0
    BY <1>4, <1>5, <2>1
  <2>3. Encode(s) = none
    BY <1>3, <2>1, <2>2 DEF FlattenSeq
  <2>4. WholeEscapes(none)
    BY <2>2 DEF WholeEscapes
  <2>5. PICK at \in [0..0 -> Nat] : at[0] = 0
    <3>1. [j \in 0..0 |-> 0] \in [0..0 -> Nat] /\ [j \in 0..0 |-> 0][0] = 0
      OBVIOUS
    <3> QED BY <3>1
  <2>6. EncodedAt(none, s, 0, at)
    BY <2>2, <2>5 DEF EncodedAt
  <2> QED BY <1>5, <2>2, <2>3, <2>4, <2>6
<1>6. CASE n > 0
  <2>1. PICK all \in [1..n -> Seq(Byte)] : Joins(seqs, n, all) /\ FlattenSeq(seqs) = all[n]
    <3>1. n \in Nat \ {0}
      BY <1>6
    <3> HIDE DEF seqs
    <3> QED BY <1>4, <3>1, Flattened
  <2> HIDE DEF seqs
  <2>2. PICK at : at = [j \in 0..n |-> IF j = 0 THEN 0 ELSE Len(all[j])]
    OBVIOUS
  <2>3. /\ at \in [0..n -> Nat] /\ at[0] = 0
        /\ \A j \in 1..n : at[j] = Len(all[j]) /\ at[j] \in Nat /\ all[j] \in Seq(Byte)
    <3>1. \A j \in 1..n : all[j] \in Seq(Byte) /\ Len(all[j]) \in Nat
      BY LenProperties
    <3> QED BY <2>2, <3>1
  <2> DEFINE Grows(j) ==
               /\ at[j] = at[j - 1] + Len(EncodeByte(s[j]))
               /\ \A i \in 1..Len(EncodeByte(s[j])) : all[j][at[j - 1] + i] = EncodeByte(s[j])[i]
               /\ j > 1 => /\ all[j] = all[j - 1] \o EncodeByte(s[j])
                           /\ \A i \in 1..at[j - 1] : all[j][i] = all[j - 1][i]
  <2>4. ASSUME NEW j \in 1..n
        PROVE  Grows(j)
    <3>1. CASE j = 1
      <4>1. all[1] = EncodeByte(s[1]) /\ at[j - 1] = 0
        BY <1>4, <2>1, <2>3, <3>1 DEF Joins
      <4> QED BY <1>2, <2>3, <3>1, <4>1
    <3>2. CASE j > 1
      <4>1. j \in 2..n /\ j - 1 \in 1..n
        BY <3>2
      <4>2. PICK front, unit : front = all[j - 1] /\ unit = EncodeByte(s[j])
        OBVIOUS
      <4>3. /\ front \in Seq(Byte) /\ unit \in Seq(Byte) /\ all[j] = front \o unit
            /\ at[j - 1] = Len(front) /\ at[j] = Len(all[j])
        BY <1>2, <1>4, <2>1, <2>3, <4>1, <4>2 DEF Joins
      <4>4. /\ Len(all[j]) = Len(front) + Len(unit)
            /\ \A i \in 1..Len(front) : all[j][i] = front[i]
            /\ \A i \in 1..Len(unit) : all[j][Len(front) + i] = unit[i]
        BY <4>3, Joined
      <4> QED BY <4>2, <4>3, <4>4
    <3>3. j = 1 \/ j > 1
      OBVIOUS
    <3> HIDE DEF Grows
    <3> QED BY <3>1, <3>2, <3>3
  <2>5. \A j \in 1..n : at[j] <= at[n] /\ \A i \in 1..at[j] : all[n][i] = all[j][i]
    <3> DEFINE S == {k \in 0..n :
                       k > 0 => \A j \in 1..k :
                         at[j] <= at[k] /\ \A i \in 1..at[j] : all[k][i] = all[j][i]}
    <3>1. ASSUME NEW k \in 0..n, k \in S, k < n
          PROVE  k + 1 \in S
      <4> SUFFICES ASSUME NEW j \in 1..k + 1
                   PROVE  at[j] <= at[k + 1] /\ \A i \in 1..at[j] : all[k + 1][i] = all[j][i]
        BY <3>1
      <4>1. CASE j = k + 1
        BY <2>3, <3>1, <4>1
      <4>2. CASE j \in 1..k
        <5>1. k + 1 \in 1..n /\ (k + 1) - 1 = k /\ k + 1 > 1 /\ k \in 1..n /\ j \in 1..n
          BY <3>1, <4>2
        <5>2. at[j] <= at[k] /\ \A i \in 1..at[j] : all[k][i] = all[j][i]
          BY <3>1, <4>2
        <5>3. at[k + 1] = at[k] + Len(EncodeByte(s[k + 1])) /\ Len(EncodeByte(s[k + 1])) \in Nat
          BY <1>2, <2>4, <5>1
        <5>4. \A i \in 1..at[k] : all[k + 1][i] = all[k][i]
          <6>1. PICK m \in 1..n : m = k + 1 /\ m - 1 = k /\ m > 1
            BY <5>1
          <6>2. \A i \in 1..at[m - 1] : all[m][i] = all[m - 1][i]
            BY <2>4, <6>1
          <6> QED BY <6>1, <6>2
        <5>5. at[j] \in Nat /\ at[k] \in Nat
          BY <2>3, <5>1
        <5>6. \A i \in 1..at[j] : i \in 1..at[k]
          BY <5>2, <5>5
        <5> QED BY <5>2, <5>3, <5>4, <5>5, <5>6
      <4>3. j = k + 1 \/ j \in 1..k
        OBVIOUS
      <4> QED BY <4>1, <4>2, <4>3
    <3>2. 0 \in S /\ n \in 0..n
      OBVIOUS
    <3>3. n \in S
      <4> HIDE DEF S
      <4> QED BY <3>1, <3>2, Counting
    <3> QED BY <1>6, <3>3
  <2>6. WholeEscapes(all[n])
    <3> DEFINE S == {k \in 0..n : k > 0 => WholeEscapes(all[k])}
    <3>1. \A j \in 1..n : WholeEscapes(EncodeByte(s[j]))
      <4> SUFFICES ASSUME NEW j \in 1..n
                   PROVE  WholeEscapes(EncodeByte(s[j]))
        OBVIOUS
      <4>1. PICK unit : unit = EncodeByte(s[j])
        OBVIOUS
      <4>2. UnitOf(unit, s[j]) /\ s[j] \in Byte
        BY <1>1, <1>2, <4>1
      <4>3. WholeEscapes(unit)
        <5>1. CASE Len(unit) = 3 /\ unit[2] # Percent /\ unit[3] # Percent
          <6>1. \A i \in 1..3 : i = 1 \/ i = 2 \/ i = 3
            OBVIOUS
          <6> QED BY <5>1, <6>1 DEF WholeEscapes
        <5>2. CASE Len(unit) = 1 /\ unit[1] # Percent
          <6>1. \A i \in 1..1 : i = 1
            OBVIOUS
          <6> QED BY <5>2, <6>1 DEF WholeEscapes
        <5>3. CASE Len(unit) = 2 /\ unit[1] # Percent /\ unit[2] # Percent
          <6>1. \A i \in 1..2 : i = 1 \/ i = 2
            OBVIOUS
          <6> QED BY <5>3, <6>1 DEF WholeEscapes
        <5> QED BY <4>2, <5>1, <5>2, <5>3 DEF UnitOf, Percent
      <4> QED BY <4>1, <4>3
    <3>2. ASSUME NEW k \in 0..n, k \in S, k < n
          PROVE  k + 1 \in S
      <4>1. k + 1 \in 1..n /\ k + 1 \in 0..n
        BY <3>2
      <4>2. CASE k = 0
        <5>1. all[1] = EncodeByte(s[1])
          BY <1>4, <2>1, <4>1, <4>2 DEF Joins
        <5> QED BY <3>1, <4>1, <4>2, <5>1
      <4>3. CASE k > 0
        <5>1. (k + 1) - 1 = k /\ k + 1 > 1 /\ k \in 1..n
          BY <4>3
        <5>2. all[k + 1] = all[k] \o EncodeByte(s[k + 1])
          BY <2>4, <4>1, <5>1
        <5>3. WholeEscapes(all[k]) /\ WholeEscapes(EncodeByte(s[k + 1]))
          BY <3>1, <3>2, <4>1, <4>3
        <5>4. WholeEscapes(all[k + 1])
          BY <1>2, <2>3, <4>1, <5>1, <5>2, <5>3, WholeEscapesJoined
        <5> QED BY <4>1, <5>4
      <4> QED BY <4>2, <4>3
    <3>3. 0 \in S /\ n \in 0..n
      OBVIOUS
    <3>4. n \in S
      <4> HIDE DEF S
      <4> QED BY <3>2, <3>3, Counting
    <3> QED BY <1>6, <3>4
  <2>7. EncodedAt(all[n], s, n, at)
    <3>1. at[n] = Len(all[n]) /\ n \in 1..n
      BY <1>6, <2>3
    <3>2. ASSUME NEW j \in 1..n, NEW i \in 1..Len(EncodeByte(s[j]))
          PROVE  all[n][at[j - 1] + i] = EncodeByte(s[j])[i]
      <4>1. at[j - 1] \in Nat /\ Len(EncodeByte(s[j])) \in Nat
        <5>1. j - 1 \in 0..n
          OBVIOUS
        <5> QED BY <1>2, <2>3, <5>1
      <4>2. at[j - 1] + i \in 1..at[j]
        <5>1. at[j] = at[j - 1] + Len(EncodeByte(s[j]))
          BY <2>4
        <5> QED BY <4>1, <5>1
      <4>3. all[n][at[j - 1] + i] = all[j][at[j - 1] + i]
        BY <2>5, <4>2
      <4>4. all[j][at[j - 1] + i] = EncodeByte(s[j])[i]
        BY <2>4
      <4> QED BY <4>3, <4>4
    <3>3. ASSUME NEW j \in 1..n
          PROVE  at[j] = at[j - 1] + Len(EncodeByte(s[j])) /\ at[j] <= Len(all[n])
      <4>1. at[j] = at[j - 1] + Len(EncodeByte(s[j]))
        BY <2>4
      <4>2. at[j] <= at[n]
        BY <2>5
      <4> QED BY <3>1, <4>1, <4>2
    <3>4. at[0] = 0
      BY <2>3
    <3> HIDE DEF Grows
    <3> QED BY <3>1, <3>2, <3>3, <3>4 DEF EncodedAt
  <2>8. Encode(s) = all[n] /\ all[n] \in Seq(Byte)
    BY <1>3, <1>6, <2>1, <2>3
  <2> QED BY <2>3, <2>6, <2>7, <2>8
<1> QED BY <1>5, <1>6

(* What decoding gives from a byte on, when what it gives from the later ones is known *)
RestOf(out, i, from) ==
  IF out[i] = Percent
  THEN CharBytes(16 * DigitValue(out[i + 1]) + DigitValue(out[i + 2])) \o from[i + 3]
  ELSE CharBytes(out[i]) \o from[i + 1]

DecodedFrom(out, size, low, from) ==
  from[size + 1] = <<>> /\ \A i \in low..size : from[i] = RestOf(out, i, from)

(* CharAt is one of the shapes the decoder tells apart. *)
LEMMA CharShape ==
  ASSUME NEW b \in Int
  PROVE  /\ CharBytes(b) \in Seq(Int)
         /\ b < 128 => CharBytes(b) = <<b>>
         /\ b >= 128 => Len(CharBytes(b)) = 2
<1>1. PICK char, first, second :
        char = CharBytes(b) /\ first = 192 + b \div 64 /\ second = 128 + (b % 64)
  OBVIOUS
<1>2. CASE b < 128
  <2>1. char = <<b>>
    BY <1>1, <1>2 DEF CharBytes
  <2>2. char \in Seq(Int)
    BY <2>1, Singleton
  <2> QED BY <1>1, <1>2, <2>1, <2>2
<1>3. CASE b >= 128
  <2>1. char = <<first, second>> /\ first \in Int /\ second \in Int
    BY <1>1, <1>3 DEF CharBytes
  <2>2. char \in Seq(Int) /\ Len(char) = 2
    BY <2>1, Couple
  <2> QED BY <1>1, <1>3, <2>2
<1> QED BY <1>2, <1>3

SeqsFrom(from, low, size) == \A k \in low..size + 1 : from[k] \in Seq(Int)

SameFrom(other, from, low, size) == \A k \in low..size + 1 : other[k] = from[k]

(* What is left to decode after such a character. *)
LEMMA RestShape ==
  ASSUME NEW out \in Seq(Byte), WholeEscapes(out), NEW size \in Nat, size = Len(out),
         NEW i \in 1..size, NEW from, SeqsFrom(from, i + 1, size)
  PROVE  /\ RestOf(out, i, from) \in Seq(Int)
         /\ \A other : SameFrom(other, from, i + 1, size)
                       => RestOf(out, i, other) = RestOf(out, i, from)
<1>1. \A k \in 1..size : out[k] \in Int
  <2>1. \A k \in 1..size : out[k] \in Byte
    BY ElementOfSeq
  <2>2. Byte \subseteq Int
    BY DEF Byte
  <2> QED BY <2>1, <2>2
<1>2. CASE out[i] = Percent
  <2>1. i + 2 <= size
    BY <1>2 DEF WholeEscapes
  <2>2. i + 1 \in 1..size /\ i + 2 \in 1..size /\ i + 3 \in i + 1..size + 1
    BY <2>1
  <2>3. 16 * DigitValue(out[i + 1]) + DigitValue(out[i + 2]) \in Int
    <3>1. \A b \in Int : DigitValue(b) \in Int
      BY DEF DigitValue
    <3>2. PICK high \in Int, low \in Int :
            high = DigitValue(out[i + 1]) /\ low = DigitValue(out[i + 2])
      BY <1>1, <2>2, <3>1
    <3> QED BY <3>2
  <2>4. PICK char \in Seq(Int) :
          char = CharBytes(16 * DigitValue(out[i + 1]) + DigitValue(out[i + 2]))
    BY <2>3, CharShape
  <2>5. \A f : RestOf(out, i, f) = char \o f[i + 3]
    BY <1>2, <2>4 DEF RestOf
  <2>6. from[i + 3] \in Seq(Int)
    BY <2>2 DEF SeqsFrom
  <2>7. char \o from[i + 3] \in Seq(Int)
    BY <2>4, <2>6
  <2> QED BY <2>2, <2>5, <2>7 DEF SameFrom
<1>3. CASE out[i] # Percent
  <2>1. i + 1 \in i + 1..size + 1
    OBVIOUS
  <2>2. out[i] \in Int
    BY <1>1
  <2>3. PICK char \in Seq(Int) : char = CharBytes(out[i])
    BY <2>2, CharShape
  <2>4. \A f : RestOf(out, i, f) = char \o f[i + 1]
    BY <1>3, <2>3 DEF RestOf
  <2>5. from[i + 1] \in Seq(Int)
    BY <2>1 DEF SeqsFrom
  <2>6. char \o from[i + 1] \in Seq(Int)
    BY <2>3, <2>5
  <2> QED BY <2>1, <2>4, <2>6 DEF SameFrom
<1> QED BY <1>2, <1>3

(* What Decode makes of a field, byte by byte from its end. *)
LEMMA Decoded ==
  ASSUME NEW out \in Seq(Byte), WholeEscapes(out), NEW size \in Nat, size = Len(out)
  PROVE  \E from \in [1..size + 1 -> Seq(Int)] :
           DecodedFrom(out, size, 1, from) /\ Decode(out) = from[1]
<1> DEFINE S == {k \in 0..size : \E from \in [size + 1 - k..size + 1 -> Seq(Int)] :
                                   DecodedFrom(out, size, size + 1 - k, from)}
<1>1. ASSUME NEW k \in 0..size, k \in S, k < size
      PROVE  k + 1 \in S
  <2>1. PICK low \in 1..size : low = size - k /\ low + 1 = size + 1 - k /\ low = size + 1 - (k + 1)
    BY <1>1
  <2>2. PICK from \in [low + 1..size + 1 -> Seq(Int)] : DecodedFrom(out, size, low + 1, from)
    BY <1>1, <2>1
  <2>3. \A i \in low + 1..size + 1 : from[i] \in Seq(Int)
    OBVIOUS
  <2>4. PICK rest \in Seq(Int) : rest = RestOf(out, low, from)
    <3>1. SeqsFrom(from, low + 1, size)
      BY <2>3 DEF SeqsFrom
    <3> QED BY <3>1, RestShape
  <2>5. PICK more : more = [i \in low..size + 1 |-> IF i = low THEN rest ELSE from[i]]
    OBVIOUS
  <2>6. more[low] = rest /\ \A i \in low + 1..size + 1 : more[i] = from[i]
    BY <2>5
  <2>7. more \in [low..size + 1 -> Seq(Int)]
    <3>1. \A i \in low..size + 1 : i = low \/ i \in low + 1..size + 1
      OBVIOUS
    <3> QED BY <2>3, <2>4, <2>5, <3>1
  <2>8. ASSUME NEW i \in low..size
        PROVE  more[i] = RestOf(out, i, more)
    <3>1. i \in 1..size /\ \A j \in i + 1..size + 1 : j \in low + 1..size + 1
      OBVIOUS
    <3>2. SeqsFrom(from, i + 1, size) /\ SameFrom(more, from, i + 1, size)
      BY <2>3, <2>6, <3>1 DEF SeqsFrom, SameFrom
    <3>3. RestOf(out, i, more) = RestOf(out, i, from)
      BY <3>1, <3>2, RestShape
    <3>4. CASE i = low
      BY <2>4, <2>6, <3>3, <3>4
    <3>5. CASE i \in low + 1..size
      <4>1. from[i] = RestOf(out, i, from) /\ i \in low + 1..size + 1
        BY <2>2, <3>5 DEF DecodedFrom
      <4> QED BY <2>6, <3>3, <4>1
    <3>6. i = low \/ i \in low + 1..size
      OBVIOUS
    <3> QED BY <3>4, <3>5, <3>6
  <2>9. DecodedFrom(out, size, low, more)
    <3>1. size + 1 \in low + 1..size + 1
      OBVIOUS
    <3>2. more[size + 1] = <<>>
      BY <2>2, <2>6, <3>1 DEF DecodedFrom
    <3> QED BY <2>8, <3>2 DEF DecodedFrom
  <2> QED BY <1>1, <2>1, <2>7, <2>9
<1>2. 0 \in S
  <2>1. PICK from : from = [i \in size + 1..size + 1 |-> <<>>]
    OBVIOUS
  <2>2. from \in [size + 1..size + 1 -> Seq(Int)] /\ from[size + 1] = <<>>
    BY <2>1
  <2>3. DecodedFrom(out, size, size + 1, from)
    BY <2>2 DEF DecodedFrom
  <2>4. size + 1 - 0 = size + 1
    OBVIOUS
  <2> QED BY <2>2, <2>3, <2>4
<1>3. size \in S
  <2>1. size \in 0..size
    OBVIOUS
  <2> HIDE DEF S
  <2> QED BY <1>1, <1>2, <2>1, Counting
<1>4. PICK from \in [1..size + 1 -> Seq(Int)] : DecodedFrom(out, size, 1, from)
  <2>1. size + 1 - size = 1
    OBVIOUS
  <2> QED BY <1>3, <2>1
<1> DEFINE Step(f) == [i \in 1..size + 1 |-> IF i > size THEN <<>> ELSE RestOf(out, i, f)]
           choice == CHOOSE f : f = Step(f)
<1>5. from = Step(from)
  <2>1. ASSUME NEW i \in 1..size + 1
        PROVE  from[i] = Step(from)[i]
    <3>1. i = size + 1 \/ i \in 1..size
      OBVIOUS
    <3>2. CASE i = size + 1
      BY <1>4, <3>2 DEF DecodedFrom
    <3>3. CASE i \in 1..size
      BY <1>4, <3>3 DEF DecodedFrom
    <3> QED BY <3>1, <3>2, <3>3
  <2>2. from = [i \in 1..size + 1 |-> from[i]]
    OBVIOUS
  <2>3. Step(from) = [i \in 1..size + 1 |-> Step(from)[i]]
    OBVIOUS
  <2> HIDE DEF Step
  <2> QED BY <2>1, <2>2, <2>3
<1>6. choice = Step(choice)
  <2> HIDE DEF Step
  <2> QED BY <1>5
<1>7. Decode(out) = choice[1]
  BY DEF Decode, RestOf
<1> HIDE DEF choice
<1>8. \A i \in 1..size + 1 : choice[i] = IF i > size THEN <<>> ELSE RestOf(out, i, choice)
  BY <1>6
<1> HIDE DEF Step
<1>9. choice[1] = from[1]
  <2> DEFINE T == {k \in 0..size : \A i \in size + 1 - k..size + 1 : choice[i] = from[i]}
  <2>1. ASSUME NEW k \in 0..size, k \in T, k < size
        PROVE  k + 1 \in T
    <3>1. PICK low \in 1..size :
            low = size - k /\ low + 1 = size + 1 - k /\ low = size + 1 - (k + 1)
      BY <2>1
    <3>2. /\ \A i \in low + 1..size + 1 : choice[i] = from[i]
          /\ \A i \in low + 1..size + 1 : from[i] \in Seq(Int)
      BY <2>1, <3>1
    <3>3. RestOf(out, low, choice) = RestOf(out, low, from)
      <4>1. SeqsFrom(from, low + 1, size) /\ SameFrom(choice, from, low + 1, size)
        BY <3>2 DEF SeqsFrom, SameFrom
      <4> QED BY <4>1, RestShape
    <3>4. choice[low] = RestOf(out, low, choice)
      <4>1. low \in 1..size + 1 /\ ~(low > size)
        OBVIOUS
      <4> QED BY <1>8, <4>1
    <3>5. from[low] = RestOf(out, low, from)
      BY <1>4 DEF DecodedFrom
    <3>6. \A i \in low..size + 1 : i = low \/ i \in low + 1..size + 1
      OBVIOUS
    <3>7. \A i \in low..size + 1 : choice[i] = from[i]
      BY <3>2, <3>3, <3>4, <3>5, <3>6
    <3> QED BY <2>1, <3>1, <3>7
  <2>2. 0 \in T
    <3>1. choice[size + 1] = <<>> /\ from[size + 1] = <<>>
      BY <1>4, <1>8 DEF DecodedFrom
    <3>2. \A i \in size + 1 - 0..size + 1 : i = size + 1
      OBVIOUS
    <3> QED BY <3>1, <3>2
  <2>3. size \in T
    <3>1. size \in 0..size
      OBVIOUS
    <3> HIDE DEF T
    <3> QED BY <2>1, <2>2, <3>1, Counting
  <2>4. 1 \in size + 1 - size..size + 1
    OBVIOUS
  <2> QED BY <2>3, <2>4
<1> QED BY <1>4, <1>7, <1>9

(* What one byte comes back as: itself, or four bytes when it was not ASCII *)
ComesBack(b, whole, rest) ==
  /\ b < 128 => whole = <<b>> \o rest
  /\ b >= 128 => Len(whole) = 4 + Len(rest)

(* What decoding the encoding of one byte puts before the rest. *)
LEMMA UnitDecoded ==
  ASSUME NEW out \in Seq(Byte), NEW size \in Nat, size = Len(out),
         NEW from \in [1..size + 1 -> Seq(Int)], DecodedFrom(out, size, 1, from),
         NEW b \in Byte, NEW unit, UnitOf(unit, b), NEW a \in Nat, a + Len(unit) <= size,
         \A i \in 1..Len(unit) : out[a + i] = unit[i]
  PROVE  ComesBack(b, from[a + 1], from[a + Len(unit) + 1])
<1>1. b \in Int /\ \A i \in 1..size : out[i] \in Int
  <2>1. \A i \in 1..size : out[i] \in Byte
    BY ElementOfSeq
  <2>2. Byte \subseteq Int
    BY DEF Byte
  <2> QED BY <2>1, <2>2
<1>2. CASE /\ Len(unit) = 3 /\ unit[1] = Percent /\ b < 128
           /\ 16 * DigitValue(unit[2]) + DigitValue(unit[3]) = b
  <2>1. a + 1 \in 1..size /\ a + 2 \in 1..size /\ a + 3 \in 1..size
    BY <1>2
  <2>2. out[a + 1] = unit[1] /\ out[a + 2] = unit[2] /\ out[a + 3] = unit[3]
    BY <1>2
  <2>3. from[a + 1] = RestOf(out, a + 1, from)
    BY <2>1 DEF DecodedFrom
  <2>4. a + 1 + 1 = a + 2 /\ a + 1 + 2 = a + 3 /\ a + 1 + 3 = a + 4
    OBVIOUS
  <2>5. RestOf(out, a + 1, from) = CharBytes(b) \o from[a + 4]
    BY <1>2, <2>2, <2>4 DEF RestOf
  <2>6. CharBytes(b) = <<b>>
    BY <1>1, <1>2, CharShape
  <2>7. a + Len(unit) + 1 = a + 4
    BY <1>2
  <2> QED BY <1>1, <1>2, <2>3, <2>5, <2>6, <2>7 DEF ComesBack
<1>3. CASE Len(unit) = 1 /\ unit[1] = b /\ b # Percent /\ b < 128
  <2>1. a + 1 \in 1..size /\ out[a + 1] = b
    BY <1>3
  <2>2. from[a + 1] = RestOf(out, a + 1, from)
    BY <2>1 DEF DecodedFrom
  <2>3. a + 1 + 1 = a + 2 /\ a + Len(unit) + 1 = a + 2
    BY <1>3
  <2>4. RestOf(out, a + 1, from) = CharBytes(b) \o from[a + 2]
    BY <1>3, <2>1, <2>3 DEF RestOf
  <2>5. CharBytes(b) = <<b>>
    BY <1>1, <1>3, CharShape
  <2> QED BY <1>1, <1>3, <2>2, <2>3, <2>4, <2>5 DEF ComesBack
<1>4. CASE Len(unit) = 2 /\ unit[1] >= 128 /\ unit[2] >= 128 /\ b >= 128
  <2>1. a + 1 \in 1..size /\ a + 2 \in 1..size /\ a + 3 \in 1..size + 1
    BY <1>4
  <2>2. /\ out[a + 1] = unit[1] /\ out[a + 2] = unit[2]
        /\ out[a + 1] \in Int /\ out[a + 2] \in Int
    BY <1>1, <1>4, <2>1
  <2>3. out[a + 1] >= 128 /\ out[a + 2] >= 128 /\ out[a + 1] # Percent /\ out[a + 2] # Percent
    BY <1>4, <2>2 DEF Percent
  <2>4. /\ from[a + 1] = RestOf(out, a + 1, from)
        /\ from[a + 2] = RestOf(out, a + 2, from)
    BY <2>1 DEF DecodedFrom
  <2>5. a + 1 + 1 = a + 2 /\ a + 2 + 1 = a + 3 /\ a + Len(unit) + 1 = a + 3
    BY <1>4
  <2>6. PICK first \in Seq(Int), second \in Seq(Int) :
          /\ first = CharBytes(out[a + 1]) /\ second = CharBytes(out[a + 2])
          /\ Len(first) = 2 /\ Len(second) = 2
    BY <2>2, <2>3, CharShape
  <2>7. from[a + 1] = first \o from[a + 2] /\ from[a + 2] = second \o from[a + 3]
    BY <2>3, <2>4, <2>5, <2>6 DEF RestOf
  <2>8. from[a + 3] \in Seq(Int) /\ from[a + 2] \in Seq(Int)
    <3>1. a + 2 \in 1..size + 1
      BY <2>1
    <3> QED BY <2>1, <3>1
  <2>9. Len(from[a + 1]) = 4 + Len(from[a + 3])
    <3>1. \A x \in Seq(Int), y \in Seq(Int) :
            Len(x) \in Nat /\ Len(x \o y) = Len(x) + Len(y)
      BY Joined, LenProperties
    <3>2. /\ Len(from[a + 1]) = Len(first) + Len(from[a + 2])
          /\ Len(from[a + 2]) = Len(second) + Len(from[a + 3]) /\ Len(from[a + 3]) \in Nat
      BY <2>6, <2>7, <2>8, <3>1
    <3> QED BY <2>6, <3>2
  <2> QED BY <1>1, <1>4, <2>5, <2>9 DEF ComesBack
<1> QED BY <1>2, <1>3, <1>4 DEF UnitOf

(* A sequence is its first element and the rest. *)
LEMMA FirstAndRest ==
  ASSUME NEW S, NEW head \in Seq(S), NEW rest \in Seq(S), NEW back \in Seq(S), NEW m \in Nat
  PROVE  /\ Len(head) = 1 /\ Len(rest) = m /\ Len(back) = m + 1 /\ back[1] = head[1]
         /\ \A i \in 1..m : back[1 + i] = rest[i]
         => head \o rest = back
<1>1. PICK both : both = head \o rest
  OBVIOUS
<1>2. /\ both \in Seq(S) /\ Len(both) = Len(head) + Len(rest)
      /\ \A i \in 1..Len(head) : both[i] = head[i]
      /\ \A i \in 1..Len(rest) : both[Len(head) + i] = rest[i]
  BY <1>1, JoinedAs
<1> SUFFICES ASSUME /\ Len(head) = 1 /\ Len(rest) = m /\ Len(back) = m + 1 /\ back[1] = head[1]
                    /\ \A i \in 1..m : back[1 + i] = rest[i]
             PROVE  both = back
  BY <1>1
<1>3. Len(both) = m + 1 /\ both[1] = head[1] /\ \A i \in 1..m : both[1 + i] = rest[i]
  BY <1>2
<1>4. ASSUME NEW i \in 1..m + 1
      PROVE  both[i] = back[i]
  <2>1. CASE i = 1
    BY <1>3, <2>1
  <2>2. CASE i > 1
    <3>1. PICK k \in 1..m : i = 1 + k
      <4>1. i - 1 \in 1..m /\ i = 1 + (i - 1)
        BY <2>2
      <4> QED BY <4>1
    <3> QED BY <1>3, <3>1
  <2> QED BY <2>1, <2>2
<1> QED BY <1>2, <1>3, <1>4, SeqEqual

(* A front of a sequence and what comes after it. *)
LEMMA SubSeqFront ==
  ASSUME NEW S, NEW s \in Seq(S), NEW j \in 1..Len(s), NEW rest, rest = SubSeq(s, j + 1, Len(s)),
         NEW head, head = <<s[j]>>
  PROVE  head \o rest = SubSeq(s, j, Len(s))
<1>1. /\ Len(s) \in Nat /\ j + 1 \in 1..Len(s) + 1 /\ s[j] \in S
      /\ \A i \in j..Len(s) : s[i] \in S
  BY LenProperties, ElementOfSeq
<1>2. head \in Seq(S) /\ Len(head) = 1 /\ head[1] = s[j]
  BY <1>1, Singleton
<1>3. PICK m \in Nat : m = Len(s) - j
  <2>1. Len(s) - j \in Nat
    BY <1>1
  <2> QED BY <2>1
<1>4. rest \in Seq(S) /\ Len(rest) = m /\ \A i \in 1..m : rest[i] = s[j + i]
  <2>1. \A i \in 1..m : (j + 1) + i - 1 = j + i
    OBVIOUS
  <2>2. Len(s) - (j + 1) + 1 = m
    BY <1>1, <1>3
  <2> QED BY <1>1, <1>3, <2>1, <2>2, SubSeqProperties
<1>5. PICK back : back = SubSeq(s, j, Len(s))
  OBVIOUS
<1>6. /\ back \in Seq(S) /\ Len(back) = m + 1
      /\ \A i \in 1..m + 1 : back[i] = s[j + i - 1]
  <2>1. j \in Int /\ Len(s) \in Int /\ j <= Len(s) /\ Len(s) - j + 1 = m + 1
    BY <1>1, <1>3
  <2> QED BY <1>1, <1>5, <2>1, SubSeqProperties
<1>7. back[1] = head[1] /\ \A i \in 1..m : back[1 + i] = rest[i]
  <2>1. 1 \in 1..m + 1 /\ j + 1 - 1 = j
    BY <1>3
  <2>2. \A i \in 1..m : 1 + i \in 1..m + 1 /\ j + (1 + i) - 1 = j + i
    BY <1>3
  <2> QED BY <1>2, <1>4, <1>6, <2>1, <2>2
<1>8. head \o rest = back
  BY <1>2, <1>4, <1>6, <1>7, FirstAndRest
<1> QED BY <1>5, <1>8

(* A string is what it was after it was written and read exactly if it is ASCII. *)
LEMMA AsciiComesBack ==
  ASSUME NEW s \in Seq(Byte)
  PROVE  Trip(s) = s <=> Ascii(s)
<1>1. PICK n \in Nat : n = Len(s)
  BY LenProperties
<1>2. /\ DOMAIN s = 1..n /\ \A j \in 1..n : s[j] \in Byte
      /\ s \in Seq(Int) /\ \A j \in 1..n : s[j] \in Int
  <2>1. DOMAIN s = 1..n /\ \A j \in 1..n : s[j] \in Byte
    BY <1>1, LenProperties, ElementOfSeq
  <2>2. Byte \subseteq Int
    BY DEF Byte
  <2> QED BY <2>1, <2>2, SeqWider
<1>3. PICK out \in Seq(Byte), at \in [0..n -> Nat] :
        out = Encode(s) /\ WholeEscapes(out) /\ EncodedAt(out, s, n, at)
  BY <1>1, Encoded
<1>4. PICK size \in Nat : size = Len(out)
  BY LenProperties
<1>5. PICK from \in [1..size + 1 -> Seq(Int)] :
        DecodedFrom(out, size, 1, from) /\ Decode(out) = from[1]
  BY <1>3, <1>4, Decoded
<1>6. PICK rest : rest = [j \in 0..n |-> from[at[j] + 1]]
  OBVIOUS
<1>7. \A j \in 0..n : at[j] \in 0..size
  <2>1. \A j \in 0..n : j = 0 \/ j \in 1..n
    OBVIOUS
  <2>2. \A j \in 1..n : at[j] \in Nat /\ at[j] <= size
    BY <1>3, <1>4 DEF EncodedAt
  <2>3. at[0] = 0
    BY <1>3 DEF EncodedAt
  <2> QED BY <2>1, <2>2, <2>3
<1>8. /\ Trip(s) = rest[0] /\ rest[n] = <<>>
      /\ \A j \in 0..n : rest[j] \in Seq(Int) /\ Len(rest[j]) \in Nat
  <2>1. \A j \in 0..n : rest[j] = from[at[j] + 1] /\ at[j] + 1 \in 1..size + 1
    BY <1>6, <1>7
  <2>2. at[0] + 1 = 1 /\ at[n] + 1 = size + 1
    BY <1>3, <1>4 DEF EncodedAt
  <2>3. 0 \in 0..n /\ n \in 0..n
    OBVIOUS
  <2>4. Trip(s) = from[1]
    BY <1>3, <1>5 DEF Trip
  <2>5. from[size + 1] = <<>>
    BY <1>5 DEF DecodedFrom
  <2>6. \A j \in 0..n : rest[j] \in Seq(Int)
    BY <2>1
  <2> QED BY <2>1, <2>2, <2>3, <2>4, <2>5, <2>6, LenProperties
<1>9. \A j \in 1..n : ComesBack(s[j], rest[j - 1], rest[j])
  <2> SUFFICES ASSUME NEW j \in 1..n
               PROVE  ComesBack(s[j], rest[j - 1], rest[j])
    OBVIOUS
  <2>1. PICK a \in Nat : a = at[j - 1]
    <3>1. j - 1 \in 0..n
      OBVIOUS
    <3> QED BY <3>1
  <2>2. PICK unit \in Seq(Byte) : unit = EncodeByte(s[j]) /\ UnitOf(unit, s[j])
    BY <1>2, EncodedUnit
  <2>3. /\ at[j] = a + Len(unit) /\ a + Len(unit) <= size
        /\ \A i \in 1..Len(unit) : out[a + i] = unit[i]
    BY <1>3, <1>4, <2>1, <2>2 DEF EncodedAt
  <2>4. ComesBack(s[j], from[a + 1], from[a + Len(unit) + 1])
    BY <1>2, <1>4, <1>5, <2>2, <2>3, UnitDecoded
  <2>5. rest[j - 1] = from[a + 1] /\ rest[j] = from[a + Len(unit) + 1]
    <3>1. j - 1 \in 0..n /\ j \in 0..n
      OBVIOUS
    <3> QED BY <1>6, <2>1, <2>3, <3>1
  <2> QED BY <2>4, <2>5
<1>10. ASSUME Ascii(s)
       PROVE  Trip(s) = s
  <2> DEFINE S == {k \in 0..n : rest[n - k] = SubSeq(s, n - k + 1, n)}
  <2>1. ASSUME NEW k \in 0..n, k \in S, k < n
        PROVE  k + 1 \in S
    <3>1. PICK j \in 1..n : j = n - k /\ j - 1 = n - (k + 1) /\ n - (k + 1) + 1 = j
      BY <2>1
    <3>2. s[j] < 128
      BY <1>2, <1>10 DEF Ascii
    <3>3. PICK head : head = <<s[j]>>
      OBVIOUS
    <3>4. rest[j - 1] = head \o rest[j]
      BY <1>9, <3>2, <3>3 DEF ComesBack
    <3>5. rest[j] = SubSeq(s, j + 1, n)
      BY <2>1, <3>1
    <3>6. head \o rest[j] = SubSeq(s, j, n)
      BY <1>1, <1>2, <3>3, <3>5, SubSeqFront
    <3>7. k + 1 \in 0..n
      BY <2>1
    <3> QED BY <3>1, <3>4, <3>6, <3>7
  <2>2. 0 \in S
    <3>1. n - 0 = n /\ n - 0 + 1 = n + 1 /\ n + 1 \in Int /\ n < n + 1
      OBVIOUS
    <3>2. SubSeq(s, n + 1, n) = <<>>
      BY <3>1, SubSeqEmpty
    <3> QED BY <1>8, <3>1, <3>2
  <2>3. n \in S
    <3>1. n \in 0..n
      OBVIOUS
    <3> HIDE DEF S
    <3> QED BY <2>1, <2>2, <3>1, Counting
  <2>4. rest[0] = SubSeq(s, 1, n)
    <3>1. n - n = 0 /\ n - n + 1 = 1
      OBVIOUS
    <3> QED BY <2>3, <3>1
  <2>5. SubSeq(s, 1, n) = s
    BY <1>1, <1>2
  <2> QED BY <1>8, <2>4, <2>5
<1>11. ASSUME ~Ascii(s)
       PROVE  Trip(s) # s
  <2>1. PICK m \in 1..n : s[m] >= 128
    BY <1>2, <1>11 DEF Ascii
  <2> DEFINE S == {k \in 0..n : Len(rest[n - k]) >= k + (IF n - k < m THEN 3 ELSE 0)}
  <2>2. ASSUME NEW k \in 0..n, k \in S, k < n
        PROVE  k + 1 \in S
    <3>1. PICK j \in 1..n : j = n - k /\ j - 1 = n - (k + 1)
      BY <2>2
    <3>2. j \in 0..n /\ j - 1 \in 0..n
      OBVIOUS
    <3>3. Len(rest[j]) \in Nat /\ Len(rest[j - 1]) \in Nat
      BY <1>8, <3>2
    <3>4. Len(rest[j]) >= k + (IF j < m THEN 3 ELSE 0)
      BY <2>2, <3>1
    <3>5. CASE s[j] < 128
      <4>1. j # m
        BY <1>2, <2>1, <3>5
      <4>2. PICK head : head = <<s[j]>>
        OBVIOUS
      <4>3. head \in Seq(Int) /\ Len(head) = 1
        BY <1>2, <4>2, Singleton
      <4>4. rest[j - 1] = head \o rest[j]
        BY <1>9, <3>5, <4>2 DEF ComesBack
      <4>5. Len(rest[j - 1]) = 1 + Len(rest[j])
        <5>1. PICK back \in Seq(Int) : back = rest[j]
          BY <1>8, <3>2
        <5>2. Len(head \o back) = Len(head) + Len(back)
          BY <4>3, Joined
        <5> QED BY <4>3, <4>4, <5>1, <5>2
      <4>6. (j - 1 < m) => j < m
        BY <4>1
      <4>7. Len(rest[j - 1]) >= k + 1 + (IF j - 1 < m THEN 3 ELSE 0)
        <5>1. PICK long \in Nat, short \in Nat : long = Len(rest[j - 1]) /\ short = Len(rest[j])
          BY <3>3
        <5>2. long = 1 + short /\ short >= k + (IF j < m THEN 3 ELSE 0)
          BY <3>4, <4>5, <5>1
        <5>3. long >= k + 1 + (IF j - 1 < m THEN 3 ELSE 0)
          BY <4>6, <5>2
        <5> QED BY <5>1, <5>3
      <4> QED BY <2>2, <3>1, <4>7
    <3>6. CASE s[j] >= 128
      <4>1. Len(rest[j - 1]) = 4 + Len(rest[j])
        BY <1>9, <3>6 DEF ComesBack
      <4>2. Len(rest[j - 1]) >= k + 1 + (IF j - 1 < m THEN 3 ELSE 0)
        <5>1. PICK long \in Nat, short \in Nat : long = Len(rest[j - 1]) /\ short = Len(rest[j])
          BY <3>3
        <5>2. long = 4 + short /\ short >= k
          BY <3>4, <4>1, <5>1
        <5>3. long >= k + 1 + (IF j - 1 < m THEN 3 ELSE 0)
          BY <5>2
        <5> QED BY <5>1, <5>3
      <4> QED BY <2>2, <3>1, <4>2
    <3>7. s[j] < 128 \/ s[j] >= 128
      BY <1>2
    <3> QED BY <3>5, <3>6, <3>7
  <2>3. 0 \in S
    <3>1. n - 0 = n /\ ~(n < m) /\ n \in 0..n
      OBVIOUS
    <3>2. Len(rest[n]) >= 0
      BY <1>8, <3>1
    <3> QED BY <3>1, <3>2
  <2>4. n \in S
    <3>1. n \in 0..n
      OBVIOUS
    <3> HIDE DEF S
    <3> QED BY <2>2, <2>3, <3>1, Counting
  <2>5. Len(rest[0]) >= n + 3
    <3>1. n - n = 0 /\ 0 < m
      OBVIOUS
    <3> QED BY <2>4, <3>1
  <2> QED BY <1>1, <1>8, <2>5
<1> QED BY <1>10, <1>11

=============================================================================
