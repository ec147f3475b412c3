------------------------- MODULE TempContainerProofs -------------------------
(***************************************************************************)
(* Proofs about TempContainer and the FileContainer under it: whatever     *)
(* calls have moved the windows, a container holds the bytes that were     *)
(* written, for any size of windows and files.                             *)
(*                                                                         *)
(* A file container is shown to be a string (FileIs), each of whose calls  *)
(* does to the string what it says; then a temporary container is one too  *)
(* (Holds), by what its windows and the string of its file have of it.     *)
(***************************************************************************)
EXTENDS TempContainer, SequenceTheorems, WellFoundedInduction, TLAPS

-----------------------------------------------------------------------------
(* What is shown to hold. *)

\* A series of units of which all but the last are full.
Filled(units) ==
    /\ units \in Seq(Seq(Values))
    /\ \A i \in 1 .. Len(units) : Len(units[i]) <= MaxFileUnitSize
    /\ \A i \in 1 .. Len(units) - 1 : Len(units[i]) = MaxFileUnitSize

ByteAt(units, p) == units[p \div MaxFileUnitSize + 1][(p % MaxFileUnitSize) + 1]

Contents(units) == [i \in 1 .. File!Size(units) |-> ByteAt(units, i - 1)]

\* The units are those of the string str.
FileIs(units, str) ==
    /\ Filled(units)
    /\ str \in Seq(Values) /\ Len(str) = File!Size(units)
    /\ \A i \in 1 .. Len(str) : str[i] = ByteAt(units, i - 1)

Windows == [start : Nat, bytes : Seq(Values), dirty : BOOLEAN]

\* The window w has all that the string str has at its place.
Shows(w, str) ==
    /\ w \in Windows
    /\ w.start % mCacheSize = 0 /\ w.start <= Len(str)
    /\ Len(w.bytes) <= mCacheSize /\ End(w) <= Len(str)
    /\ Len(w.bytes) = mCacheSize \/ End(w) = Len(str)
    /\ \A i \in 1 .. Len(w.bytes) : w.bytes[i] = str[w.start + i]

Changed(w, p) == w.dirty /\ Has(w, p)

\* The bytes that a changed window does not have are in the file, which holds
\* the string str; a window begins within it.
Backed(v1, v2, str, all) ==
    /\ Len(str) <= Len(all)
    /\ v1.start <= Len(str) /\ v2.start <= Len(str)
    /\ \A p \in 0 .. Len(all) - 1 :
        Changed(v1, p) \/ Changed(v2, p) \/ (p < Len(str) /\ str[p + 1] = all[p + 1])

\* The container c is the string all.
Holds(c, all) ==
    /\ c = [w1 |-> c.w1, w2 |-> c.w2, file |-> c.file, first |-> c.first]
    /\ all \in Seq(Values) /\ c.first \in BOOLEAN
    /\ Shows(c.w1, all)
    /\ c.w2 # NoWindow => Shows(c.w2, all) /\ c.w2.start # c.w1.start
    /\ c.file = NoFile =>
        /\ c.w1.start = 0
        /\ c.w2 = NoWindow => Len(all) <= mCacheSize
        /\ c.w2 # NoWindow => c.w2.start = mCacheSize /\ Len(all) <= 2 * mCacheSize
    /\ c.file # NoFile =>
        /\ c.w2 # NoWindow /\ Filled(c.file)
        /\ Backed(c.w1, c.w2, Contents(c.file), all)

IInv == Holds(Container, bytes)

-----------------------------------------------------------------------------
(* Induction over the naturals, by their smallest element. *)

LEMMA ByInduction ==
    ASSUME NEW S, 0 \in S, \A n \in Nat : n \in S => n + 1 \in S
    PROVE  Nat \subseteq S
<1> DEFINE T == {k \in Nat : k \notin S}
           R == OpToRel(<, Nat)
<1> SUFFICES ASSUME T # {} PROVE FALSE
  OBVIOUS
<1>1. IsWellFoundedOn(R, Nat)
  BY NatLessThanWellFounded
<1>2. R = {ss \in Nat \X Nat : ss[1] < ss[2]}
  BY DEF OpToRel
<1> HIDE DEF R
<1>3. PICK m \in T : \A y \in T : ~(<<y, m>> \in R)
  BY <1>1, WFMin
<1>4. m # 0 /\ m - 1 \in Nat /\ m - 1 < m /\ (m - 1) + 1 = m
  BY <1>3
<1>5. m - 1 \in T
  BY <1>3, <1>4
<1>6. <<m - 1, m>> \in R
  <2>1. m \in Nat
    BY <1>3
  <2> QED
    BY <2>1, <1>2, <1>4
<1> QED
  BY <1>3, <1>5, <1>6

-----------------------------------------------------------------------------
(* Places. *)

LEMMA Sizes == mCacheSize \in Nat \ {0} /\ MaxFileUnitSize \in Nat \ {0}
  BY TempContainerAssumption

LEMMA Division ==
    ASSUME NEW n \in Nat \ {0}, NEW p \in Nat
    PROVE  /\ p \div n \in Nat /\ p % n \in 0 .. n - 1
           /\ p = (p \div n) * n + (p % n)
  OBVIOUS

\* The multiples of n: a smaller one is n smaller.
LEMMA Multiples ==
    ASSUME NEW n \in Nat \ {0}, NEW a \in Nat, NEW b \in Nat, a < b
    PROVE  a * n \in Nat /\ b * n \in Nat /\ a * n + n <= b * n
<1> DEFINE c == b - a - 1
<1>1. c \in Nat /\ b = a + 1 + c
  OBVIOUS
<1>2. b * n = a * n + n + c * n /\ c * n \in Nat /\ a * n \in Nat
  BY <1>1
<1> QED
  BY <1>2

\* The place of p = a * n + r is found by division.
LEMMA PlaceIs ==
    ASSUME NEW n \in Nat \ {0}, NEW a \in Nat, NEW r \in 0 .. n - 1
    PROVE  a * n + r \in Nat /\ (a * n + r) \div n = a /\ (a * n + r) % n = r
<1> DEFINE p == a * n + r
           b == p \div n
<1>1. a * n \in Nat /\ p \in Nat
  OBVIOUS
<1>2. b \in Nat /\ p % n \in 0 .. n - 1 /\ p = b * n + (p % n)
  BY <1>1, Division
<1>3. b = a
  <2> HIDE DEF b
  <2>1. ~(a < b)
    BY <1>1, <1>2, Multiples
  <2>2. ~(b < a)
    BY <1>1, <1>2, Multiples
  <2> QED
    BY <2>1, <2>2, <1>2
<1> QED
  BY <1>1, <1>2, <1>3

\* Two places of windows do not overlap.
LEMMA Apart ==
    ASSUME NEW a \in Nat, NEW b \in Nat, a % mCacheSize = 0, b % mCacheSize = 0, a # b
    PROVE  a + mCacheSize <= b \/ b + mCacheSize <= a
<1> DEFINE i == a \div mCacheSize
           j == b \div mCacheSize
<1>1. i \in Nat /\ j \in Nat /\ a = i * mCacheSize /\ b = j * mCacheSize
  BY Sizes, Division
<1> HIDE DEF i, j
<1>2. i < j \/ j < i
  BY <1>1
<1> QED
  BY <1>1, <1>2, Sizes, Multiples

LEMMA StartOf ==
    ASSUME NEW at \in Nat
    PROVE  /\ at - (at % mCacheSize) \in Nat
           /\ (at - (at % mCacheSize)) % mCacheSize = 0
           /\ at - (at % mCacheSize) <= at /\ at < at - (at % mCacheSize) + mCacheSize
<1> DEFINE q == at \div mCacheSize
<1>1. /\ q \in Nat /\ at % mCacheSize \in 0 .. mCacheSize - 1
      /\ at = q * mCacheSize + (at % mCacheSize) /\ q * mCacheSize \in Nat
  <2>1. /\ q \in Nat /\ at % mCacheSize \in 0 .. mCacheSize - 1
        /\ at = q * mCacheSize + (at % mCacheSize)
    BY Sizes, Division
  <2> HIDE DEF q
  <2> QED
    BY <2>1, Sizes
<1>2. at - (at % mCacheSize) = q * mCacheSize
  BY <1>1
<1>3. (q * mCacheSize + 0) % mCacheSize = 0
  <2> HIDE DEF q
  <2>1. 0 \in 0 .. mCacheSize - 1
    BY Sizes
  <2> QED
    BY <1>1, <2>1, Sizes, PlaceIs
<1> HIDE DEF q
<1> QED
  BY <1>1, <1>2, <1>3, Sizes

LEMMA FirstStarts ==
    0 % mCacheSize = 0 /\ mCacheSize % mCacheSize = 0
<1>1. (0 * mCacheSize + 0) % mCacheSize = 0 /\ (1 * mCacheSize + 0) % mCacheSize = 0
  <2>1. 0 \in 0 .. mCacheSize - 1
    BY Sizes
  <2> QED
    BY <2>1, Sizes, PlaceIs
<1> QED
  BY <1>1, Sizes

-----------------------------------------------------------------------------
(* Strings. *)

\* next is str with a byte stored at a place within it or at its end.
Stored(str, next, at, byte) ==
    /\ str \in Seq(Values) /\ next \in Seq(Values)
    /\ at \in 0 .. Len(str) /\ byte \in Values
    /\ Len(next) = IF at = Len(str) THEN at + 1 ELSE Len(str)
    /\ next[at + 1] = byte
    /\ \A i \in 1 .. Len(str) : i # at + 1 => next[i] = str[i]

\* str with the first n bytes of chunk written at a place of it.
OverLen(str, to, n) == IF to + n > Len(str) THEN to + n ELSE Len(str)

Over(str, to, chunk, n) ==
    [i \in 1 .. OverLen(str, to, n) |-> IF to < i /\ i <= to + n THEN chunk[i - to] ELSE str[i]]

LEMMA OverTyped ==
    ASSUME NEW str \in Seq(Values), NEW chunk \in Seq(Values),
           NEW to \in 0 .. Len(str), NEW n \in 0 .. Len(chunk)
    PROVE  /\ Over(str, to, chunk, n) \in Seq(Values)
           /\ Len(Over(str, to, chunk, n)) = OverLen(str, to, n)
           /\ OverLen(str, to, n) \in Nat
           /\ \A i \in 1 .. OverLen(str, to, n) :
                Over(str, to, chunk, n)[i] = IF to < i /\ i <= to + n THEN chunk[i - to] ELSE str[i]
<1>1. /\ Len(str) \in Nat /\ Len(chunk) \in Nat
      /\ \A i \in 1 .. Len(str) : str[i] \in Values
      /\ \A i \in 1 .. Len(chunk) : chunk[i] \in Values
  BY LenProperties, ElementOfSeq
<1>2. OverLen(str, to, n) \in Nat
  BY <1>1 DEF OverLen
<1>3. ASSUME NEW i \in 1 .. OverLen(str, to, n)
      PROVE  (IF to < i /\ i <= to + n THEN chunk[i - to] ELSE str[i]) \in Values
  <2>1. CASE to < i /\ i <= to + n
    <3>1. i - to \in 1 .. Len(chunk)
      BY <1>1, <2>1, <1>2
    <3> QED
      BY <3>1, <1>1, <2>1
  <2>2. CASE ~(to < i /\ i <= to + n)
    <3>1. i \in 1 .. Len(str)
      BY <1>1, <2>2, <1>2 DEF OverLen
    <3> QED
      BY <3>1, <1>1, <2>2
  <2> QED
    BY <2>1, <2>2
<1>4. Over(str, to, chunk, n) \in [1 .. OverLen(str, to, n) -> Values]
  BY <1>3 DEF Over
<1>5. Over(str, to, chunk, n) \in Seq(Values)
  BY <1>2, <1>4, SeqDef
<1>6. Len(Over(str, to, chunk, n)) = OverLen(str, to, n)
  BY <1>2, <1>4, <1>5, LenProperties
<1> QED
  BY <1>2, <1>5, <1>6 DEF Over

LEMMA OverNone ==
    ASSUME NEW str \in Seq(Values), NEW chunk \in Seq(Values), NEW to \in 0 .. Len(str)
    PROVE  Over(str, to, chunk, 0) = str
<1>1. Len(str) \in Nat /\ Len(chunk) \in Nat
  BY LenProperties
<1>2. 0 \in 0 .. Len(chunk) /\ OverLen(str, to, 0) = Len(str)
  BY <1>1 DEF OverLen
<1>3. \A i \in 1 .. Len(str) : ~(to < i /\ i <= to + 0)
  BY <1>1
<1> QED
  BY <1>1, <1>2, <1>3, OverTyped, SeqEqual

LEMMA OverNext ==
    ASSUME NEW str \in Seq(Values), NEW chunk \in Seq(Values),
           NEW to \in 0 .. Len(str), NEW n \in 0 .. Len(chunk) - 1
    PROVE  Stored(Over(str, to, chunk, n), Over(str, to, chunk, n + 1), to + n, chunk[n + 1])
<1> DEFINE old == Over(str, to, chunk, n)
           new == Over(str, to, chunk, n + 1)
<1>1. /\ Len(str) \in Nat /\ Len(chunk) \in Nat
      /\ n \in 0 .. Len(chunk) /\ n + 1 \in 0 .. Len(chunk) /\ n + 1 \in 1 .. Len(chunk)
  BY LenProperties
<1>2. /\ old \in Seq(Values) /\ Len(old) = OverLen(str, to, n)
      /\ \A i \in 1 .. OverLen(str, to, n) :
            old[i] = IF to < i /\ i <= to + n THEN chunk[i - to] ELSE str[i]
  BY <1>1, OverTyped
<1>3. /\ new \in Seq(Values) /\ Len(new) = OverLen(str, to, n + 1)
      /\ \A i \in 1 .. OverLen(str, to, n + 1) :
            new[i] = IF to < i /\ i <= to + (n + 1) THEN chunk[i - to] ELSE str[i]
  BY <1>1, OverTyped
<1> HIDE DEF old, new
<1>4. chunk[n + 1] \in Values
  BY <1>1, ElementOfSeq
<1>5. /\ to + n \in 0 .. OverLen(str, to, n)
      /\ OverLen(str, to, n + 1) = IF to + n = OverLen(str, to, n) THEN to + n + 1 ELSE OverLen(str, to, n)
  BY <1>1 DEF OverLen
<1>6. new[to + n + 1] = chunk[n + 1]
  <2>1. /\ to + n + 1 \in 1 .. OverLen(str, to, n + 1)
        /\ to < to + n + 1 /\ to + n + 1 <= to + (n + 1) /\ (to + n + 1) - to = n + 1
    BY <1>1 DEF OverLen
  <2> QED
    BY <2>1, <1>3
<1>7. ASSUME NEW i \in 1 .. Len(old), i # to + n + 1 PROVE new[i] = old[i]
  <2>1. /\ i \in 1 .. OverLen(str, to, n) /\ i \in 1 .. OverLen(str, to, n + 1)
        /\ (to < i /\ i <= to + n) <=> (to < i /\ i <= to + (n + 1))
    BY <1>1, <1>2, <1>7 DEF OverLen
  <2> QED
    BY <2>1, <1>2, <1>3
<1>8. Stored(old, new, to + n, chunk[n + 1])
  BY <1>2, <1>3, <1>4, <1>5, <1>6, <1>7 DEF Stored
<1> QED
  BY <1>8 DEF old, new

\* Any series of writes of one byte after the other.
-----------------------------------------------------------------------------
(* The loops are what their recursive definitions say. *)

LEMMA FileWriteSteps ==
    ASSUME NEW units, NEW to, NEW chunk, Len(chunk) \in Nat
    PROVE  \E u : /\ File!Write(units, to, chunk) = u[Len(chunk)]
                  /\ u[0] = units
                  /\ \A i \in 1 .. Len(chunk) : u[i] = File!WriteByte(u[i - 1], to + i - 1, chunk[i])
<1> DEFINE upTo[i \in 0 .. Len(chunk)] ==
             IF i = 0 THEN units ELSE File!WriteByte(upTo[i - 1], to + i - 1, chunk[i])
           Value(g, i) == IF i = 0 THEN units ELSE File!WriteByte(g[i - 1], to + i - 1, chunk[i])
           Def(g, m) == g = [i \in 0 .. m |-> Value(g, i)]
           S == {m \in Nat : \E g : Def(g, m)}
<1>1. File!Write(units, to, chunk) = upTo[Len(chunk)]
  BY DEF File!Write
<1>2. 0 \in S
  <2> DEFINE g == [i \in 0 .. 0 |-> units]
  <2>1. Def(g, 0)
    OBVIOUS
  <2> QED
    BY <2>1
<1>3. ASSUME NEW m \in Nat, m \in S PROVE m + 1 \in S
  <2>1. PICK g : Def(g, m)
    BY <1>3
  <2> DEFINE h == [i \in 0 .. m + 1 |-> Value(g, i)]
  <2>2. ASSUME NEW i \in 0 .. m PROVE h[i] = g[i]
    <3> HIDE DEF Value
    <3>1. i \in 0 .. m + 1
      OBVIOUS
    <3>2. h[i] = Value(g, i)
      BY <3>1
    <3>3. g[i] = Value(g, i)
      BY <2>1
    <3> QED
      BY <3>2, <3>3
  <2>3. ASSUME NEW i \in 0 .. m + 1
        PROVE  Value(g, i) = Value(h, i)
    <3>1. CASE i = 0
      BY <3>1
    <3>2. CASE i # 0
      <4>1. i - 1 \in 0 .. m
        BY <3>2
      <4>2. h[i - 1] = g[i - 1]
        BY <2>2, <4>1
      <4> HIDE DEF h
      <4> QED
        BY <3>2, <4>2
    <3> QED
      BY <3>1, <3>2
  <2>4. Def(h, m + 1)
    <3> HIDE DEF Value
    <3> QED
      BY <2>3
  <2>5. m + 1 \in Nat
    OBVIOUS
  <2> HIDE DEF h, Def
  <2> QED
    BY <2>4, <2>5
<1>4. Len(chunk) \in S
  <2> HIDE DEF S
  <2>1. \A m \in Nat : m \in S => m + 1 \in S
    BY <1>3
  <2>2. Nat \subseteq S
    BY <1>2, <2>1, ByInduction
  <2> QED
    BY <2>2
<1>5. \E g : Def(g, Len(chunk))
  BY <1>4
<1>6. Def(upTo, Len(chunk))
  BY <1>5
<1> HIDE DEF upTo
<1>7. upTo[0] = units
  BY <1>6
<1>8. ASSUME NEW i \in 1 .. Len(chunk)
      PROVE  upTo[i] = File!WriteByte(upTo[i - 1], to + i - 1, chunk[i])
  <2>1. i \in 0 .. Len(chunk) /\ i # 0
    OBVIOUS
  <2>2. upTo[i] = Value(upTo, i)
    <3> HIDE DEF Value
    <3> QED
      BY <1>6, <2>1
  <2> QED
    BY <2>1, <2>2
<1> QED
  BY <1>1, <1>7, <1>8

LEMMA WriteSteps ==
    ASSUME NEW c, NEW to, NEW chunk, Len(chunk) \in Nat
    PROVE  \E u : /\ WriteAll(c, to, chunk) = u[Len(chunk)]
                  /\ u[0] = c
                  /\ \A i \in 1 .. Len(chunk) : u[i] = WriteByte(u[i - 1], to + i - 1, chunk[i])
<1> DEFINE upTo[i \in 0 .. Len(chunk)] ==
             IF i = 0 THEN c ELSE WriteByte(upTo[i - 1], to + i - 1, chunk[i])
           Value(g, i) == IF i = 0 THEN c ELSE WriteByte(g[i - 1], to + i - 1, chunk[i])
           Def(g, m) == g = [i \in 0 .. m |-> Value(g, i)]
           S == {m \in Nat : \E g : Def(g, m)}
<1>1. WriteAll(c, to, chunk) = upTo[Len(chunk)]
  BY DEF WriteAll
<1>2. 0 \in S
  <2> DEFINE g == [i \in 0 .. 0 |-> c]
  <2>1. Def(g, 0)
    OBVIOUS
  <2> QED
    BY <2>1
<1>3. ASSUME NEW m \in Nat, m \in S PROVE m + 1 \in S
  <2>1. PICK g : Def(g, m)
    BY <1>3
  <2> DEFINE h == [i \in 0 .. m + 1 |-> Value(g, i)]
  <2>2. ASSUME NEW i \in 0 .. m PROVE h[i] = g[i]
    <3> HIDE DEF Value
    <3>1. i \in 0 .. m + 1
      OBVIOUS
    <3>2. h[i] = Value(g, i)
      BY <3>1
    <3>3. g[i] = Value(g, i)
      BY <2>1
    <3> QED
      BY <3>2, <3>3
  <2>3. ASSUME NEW i \in 0 .. m + 1
        PROVE  Value(g, i) = Value(h, i)
    <3>1. CASE i = 0
      BY <3>1
    <3>2. CASE i # 0
      <4>1. i - 1 \in 0 .. m
        BY <3>2
      <4>2. h[i - 1] = g[i - 1]
        BY <2>2, <4>1
      <4> HIDE DEF h
      <4> QED
        BY <3>2, <4>2
    <3> QED
      BY <3>1, <3>2
  <2>4. Def(h, m + 1)
    <3> HIDE DEF Value
    <3> QED
      BY <2>3
  <2>5. m + 1 \in Nat
    OBVIOUS
  <2> HIDE DEF h, Def
  <2> QED
    BY <2>4, <2>5
<1>4. Len(chunk) \in S
  <2> HIDE DEF S
  <2>1. \A m \in Nat : m \in S => m + 1 \in S
    BY <1>3
  <2>2. Nat \subseteq S
    BY <1>2, <2>1, ByInduction
  <2> QED
    BY <2>2
<1>5. \E g : Def(g, Len(chunk))
  BY <1>4
<1>6. Def(upTo, Len(chunk))
  BY <1>5
<1> HIDE DEF upTo
<1>7. upTo[0] = c
  BY <1>6
<1>8. ASSUME NEW i \in 1 .. Len(chunk)
      PROVE  upTo[i] = WriteByte(upTo[i - 1], to + i - 1, chunk[i])
  <2>1. i \in 0 .. Len(chunk) /\ i # 0
    OBVIOUS
  <2>2. upTo[i] = Value(upTo, i)
    <3> HIDE DEF Value
    <3> QED
      BY <1>6, <2>1
  <2> QED
    BY <2>1, <2>2
<1> QED
  BY <1>1, <1>7, <1>8

\* u is the series of what the iterations of a read return.
Reads(u, c, from, size) ==
    /\ ReadAll(c, from, size) = u[size]
    /\ u[0] = [c |-> c, bytes |-> <<>>]
    /\ \A i \in 1 .. size : u[i] = ReadByte(u[i - 1], from + i - 1)

LEMMA ReadSteps ==
    ASSUME NEW c, NEW from, NEW size, size \in Nat
    PROVE  \E u : Reads(u, c, from, size)
<1> DEFINE upTo[i \in 0 .. size] ==
             IF i = 0 THEN [c |-> c, bytes |-> <<>>] ELSE ReadByte(upTo[i - 1], from + i - 1)
           Value(g, i) == IF i = 0 THEN [c |-> c, bytes |-> <<>>] ELSE ReadByte(g[i - 1], from + i - 1)
           Def(g, m) == g = [i \in 0 .. m |-> Value(g, i)]
           S == {m \in Nat : \E g : Def(g, m)}
<1>1. ReadAll(c, from, size) = upTo[size]
  BY DEF ReadAll
<1>2. 0 \in S
  <2> DEFINE g == [i \in 0 .. 0 |-> [c |-> c, bytes |-> <<>>]]
  <2>1. Def(g, 0)
    OBVIOUS
  <2> QED
    BY <2>1
<1>3. ASSUME NEW m \in Nat, m \in S PROVE m + 1 \in S
  <2>1. PICK g : Def(g, m)
    BY <1>3
  <2> DEFINE h == [i \in 0 .. m + 1 |-> Value(g, i)]
  <2>2. ASSUME NEW i \in 0 .. m PROVE h[i] = g[i]
    <3> HIDE DEF Value
    <3>1. i \in 0 .. m + 1
      OBVIOUS
    <3>2. h[i] = Value(g, i)
      BY <3>1
    <3>3. g[i] = Value(g, i)
      BY <2>1
    <3> QED
      BY <3>2, <3>3
  <2>3. ASSUME NEW i \in 0 .. m + 1
        PROVE  Value(g, i) = Value(h, i)
    <3>1. CASE i = 0
      BY <3>1
    <3>2. CASE i # 0
      <4>1. i - 1 \in 0 .. m
        BY <3>2
      <4>2. h[i - 1] = g[i - 1]
        BY <2>2, <4>1
      <4> HIDE DEF h
      <4> QED
        BY <3>2, <4>2
    <3> QED
      BY <3>1, <3>2
  <2>4. Def(h, m + 1)
    <3> HIDE DEF Value
    <3> QED
      BY <2>3
  <2>5. m + 1 \in Nat
    OBVIOUS
  <2> HIDE DEF h, Def
  <2> QED
    BY <2>4, <2>5
<1>4. size \in S
  <2> HIDE DEF S
  <2>1. \A m \in Nat : m \in S => m + 1 \in S
    BY <1>3
  <2>2. Nat \subseteq S
    BY <1>2, <2>1, ByInduction
  <2> QED
    BY <2>2
<1>5. \E g : Def(g, size)
  BY <1>4
<1>6. Def(upTo, size)
  BY <1>5
<1> HIDE DEF upTo
<1>7. upTo[0] = [c |-> c, bytes |-> <<>>]
  BY <1>6
<1>8. ASSUME NEW i \in 1 .. size
      PROVE  upTo[i] = ReadByte(upTo[i - 1], from + i - 1)
  <2>1. i \in 0 .. size /\ i # 0
    OBVIOUS
  <2>2. upTo[i] = Value(upTo, i)
    <3> HIDE DEF Value
    <3> QED
      BY <1>6, <2>1
  <2> QED
    BY <2>1, <2>2
<1> QED
  BY <1>1, <1>7, <1>8 DEF Reads

-----------------------------------------------------------------------------
(* A file container is a string. *)

LEMMA FilledParts ==
    ASSUME NEW u, Filled(u)
    PROVE  /\ Len(u) \in Nat /\ u \in Seq(Seq(Values))
           /\ \A i \in 1 .. Len(u) :
                /\ u[i] \in Seq(Values) /\ Len(u[i]) \in Nat /\ Len(u[i]) <= MaxFileUnitSize
                /\ i < Len(u) => Len(u[i]) = MaxFileUnitSize
<1>1. Len(u) \in Nat /\ u \in Seq(Seq(Values))
  BY LenProperties DEF Filled
<1>2. ASSUME NEW i \in 1 .. Len(u)
      PROVE  /\ u[i] \in Seq(Values) /\ Len(u[i]) \in Nat /\ Len(u[i]) <= MaxFileUnitSize
             /\ i < Len(u) => Len(u[i]) = MaxFileUnitSize
  <2>1. u[i] \in Seq(Values) /\ Len(u[i]) \in Nat
    BY <1>1, ElementOfSeq, LenProperties
  <2>2. i < Len(u) => i \in 1 .. Len(u) - 1
    BY <1>1
  <2> QED
    BY <2>1, <2>2 DEF Filled
<1> QED
  BY <1>1, <1>2

LEMMA SizeOf ==
    ASSUME NEW u, Filled(u)
    PROVE  /\ File!Size(u) \in Nat
           /\ u = <<>> => File!Size(u) = 0
           /\ u # <<>> => /\ Len(u) >= 1
                          /\ (Len(u) - 1) * MaxFileUnitSize \in Nat
                          /\ File!Size(u) = (Len(u) - 1) * MaxFileUnitSize + Len(u[Len(u)])
<1>1. CASE u = <<>>
  BY <1>1 DEF File!Size
<1>2. CASE u # <<>>
  <2>1. Len(u) \in Nat /\ Len(u) >= 1
    BY <1>2, EmptySeq DEF Filled
  <2>2. (Len(u) - 1) * MaxFileUnitSize \in Nat
    BY <2>1, Sizes
  <2>3. Len(u[Len(u)]) \in Nat
    BY <2>1, FilledParts
  <2> QED
    BY <1>2, <2>1, <2>2, <2>3 DEF File!Size, File!Last
<1> QED
  BY <1>1, <1>2

Unit(p)     == p \div MaxFileUnitSize
Position(p) == p % MaxFileUnitSize

LEMMA UnitOf ==
    ASSUME NEW p \in Nat
    PROVE  /\ Unit(p) \in Nat /\ Position(p) \in Nat /\ Position(p) < MaxFileUnitSize
           /\ Unit(p) * MaxFileUnitSize \in Nat
           /\ p = Unit(p) * MaxFileUnitSize + Position(p)
<1>1. /\ Unit(p) \in Nat /\ Position(p) \in 0 .. MaxFileUnitSize - 1
      /\ p = Unit(p) * MaxFileUnitSize + Position(p)
  BY Sizes, Division DEF Unit, Position
<1> QED
  BY <1>1, Sizes

\* A place is in the file when it is in its unit.
LEMMA Inside ==
    ASSUME NEW u, Filled(u), NEW p \in Nat
    PROVE  p < File!Size(u) <=> Unit(p) + 1 <= Len(u) /\ Position(p) < Len(u[Unit(p) + 1])
<1> DEFINE q == Unit(p)
           r == Position(p)
           M == MaxFileUnitSize
           n == Len(u)
<1>1. /\ q \in Nat /\ r \in Nat /\ r < M /\ q * M \in Nat /\ p = q * M + r /\ M \in Nat \ {0}
  BY UnitOf, Sizes
<1>2. n \in Nat
  BY FilledParts
<1>3. CASE u = <<>>
  <2>1. File!Size(u) = 0 /\ n = 0
    BY <1>3, SizeOf, EmptySeq
  <2> HIDE DEF q, r, M, n
  <2> QED
    BY <1>1, <2>1 DEF q, n
<1>4. CASE u # <<>>
  <2> DEFINE l == Len(u[n])
  <2>1. n >= 1 /\ (n - 1) * M \in Nat /\ File!Size(u) = (n - 1) * M + l
    BY <1>4, SizeOf
  <2>2. l \in Nat /\ l <= M /\ \A i \in 1 .. n : i < n => Len(u[i]) = M
    BY <1>2, <2>1, FilledParts
  <2>3. p < (n - 1) * M + l <=> q + 1 <= n /\ r < Len(u[q + 1])
    <3> HIDE DEF q, r, M, n, l
    <3>1. CASE q < n - 1
      <4>1. q * M + M <= (n - 1) * M
        BY <1>1, <1>2, <2>1, <3>1, Multiples
      <4>2. q + 1 \in 1 .. n /\ q + 1 < n
        BY <1>1, <1>2, <3>1
      <4>3. Len(u[q + 1]) = M
        BY <2>2, <4>2
      <4> QED
        BY <4>1, <4>2, <4>3, <1>1, <1>2, <2>1, <2>2
    <3>2. CASE q = n - 1
      <4>1. q + 1 = n
        BY <3>2, <1>2
      <4>2. Len(u[q + 1]) = l
        BY <4>1 DEF l
      <4> QED
        BY <3>2, <4>1, <4>2, <1>1, <1>2, <2>1, <2>2
    <3>3. CASE q > n - 1
      <4>1. (n - 1) * M + M <= q * M
        BY <1>1, <1>2, <2>1, <3>3, Multiples
      <4> QED
        BY <4>1, <3>3, <1>1, <1>2, <2>1, <2>2
    <3> QED
      BY <3>1, <3>2, <3>3, <1>1, <1>2
  <2> QED
    BY <2>1, <2>3
<1> QED
  BY <1>3, <1>4

\* The end of the file is the end of its last unit, or the start of the next.
LEMMA AtEnd ==
    ASSUME NEW u, Filled(u)
    PROVE  \/ /\ Unit(File!Size(u)) = Len(u) /\ Position(File!Size(u)) = 0
              /\ \A i \in 1 .. Len(u) : Len(u[i]) = MaxFileUnitSize
           \/ /\ Unit(File!Size(u)) + 1 = Len(u)
              /\ Position(File!Size(u)) = Len(u[Len(u)])
              /\ Len(u[Len(u)]) < MaxFileUnitSize
<1> DEFINE M == MaxFileUnitSize
           n == Len(u)
<1>1. n \in Nat /\ M \in Nat \ {0}
  BY FilledParts, Sizes
<1>2. CASE u = <<>>
  <2>1. File!Size(u) = 0 /\ n = 0
    BY <1>2, SizeOf, EmptySeq
  <2>2. 0 * M + 0 = 0 /\ 0 \in 0 .. M - 1
    BY <1>1
  <2>3. (0 * M + 0) \div M = 0 /\ (0 * M + 0) % M = 0
    BY <1>1, <2>2, PlaceIs
  <2>4. Unit(0) = 0 /\ Position(0) = 0
    BY <2>2, <2>3 DEF Unit, Position
  <2> QED
    BY <2>1, <2>4
<1>3. CASE u # <<>>
  <2> DEFINE l == Len(u[n])
  <2>1. n >= 1 /\ n - 1 \in Nat /\ (n - 1) * M \in Nat /\ File!Size(u) = (n - 1) * M + l
    <3>1. n >= 1 /\ (n - 1) * M \in Nat /\ File!Size(u) = (n - 1) * M + l
      BY <1>3, SizeOf
    <3>2. n - 1 \in Nat
      BY <1>1, <3>1
    <3> QED
      BY <3>1, <3>2
  <2>2. l \in Nat /\ l <= M /\ \A i \in 1 .. n : i < n => Len(u[i]) = M
    BY <1>1, <2>1, FilledParts
  <2>3. CASE l = M
    <3>1. (n - 1) * M + M = n * M + 0
      <4> HIDE DEF n, M
      <4>1. (n - 1) * M = n * M - M
        BY <1>1
      <4> QED
        BY <1>1, <4>1
    <3>2. 0 \in 0 .. M - 1
      BY <1>1
    <3>3. (n * M + 0) \div M = n /\ (n * M + 0) % M = 0
      BY <1>1, <3>2, PlaceIs
    <3>4. File!Size(u) = n * M + 0
      BY <2>1, <2>3, <3>1
    <3>5. Unit(File!Size(u)) = n /\ Position(File!Size(u)) = 0
      BY <3>3, <3>4 DEF Unit, Position
    <3>6. \A i \in 1 .. n : Len(u[i]) = M
      BY <2>2, <2>3, <1>1
    <3> QED
      BY <3>5, <3>6
  <2>4. CASE l # M
    <3>1. l \in 0 .. M - 1
      BY <2>2, <2>4, <1>1
    <3>2. ((n - 1) * M + l) \div M = n - 1 /\ ((n - 1) * M + l) % M = l
      BY <1>1, <2>1, <3>1, PlaceIs
    <3>3. Unit(File!Size(u)) = n - 1 /\ Position(File!Size(u)) = l
      BY <2>1, <3>2 DEF Unit, Position
    <3> QED
      BY <3>1, <3>3, <1>1
  <2> QED
    BY <2>3, <2>4
<1> QED
  BY <1>2, <1>3

\* Two places are in one place of one unit only if they are the same.
LEMMA SamePlace ==
    ASSUME NEW p \in Nat, NEW k \in Nat, Unit(p) = Unit(k), Position(p) = Position(k)
    PROVE  p = k
  BY UnitOf

\* v is u with the unit at k replaced, or added behind the last.
Replaced(u, v, k, unit) ==
    /\ v \in Seq(Seq(Values))
    /\ Len(v) = IF k = Len(u) + 1 THEN k ELSE Len(u)
    /\ v[k] = unit
    /\ \A i \in 1 .. Len(u) : i # k => v[i] = u[i]

\* One byte of a write goes into one unit.
LEMMA ByteGoes ==
    ASSUME NEW u, Filled(u), NEW at \in 0 .. File!Size(u), NEW byte \in Values
    PROVE  \E old, unit :
            /\ Stored(old, unit, Position(at), byte)
            /\ Replaced(u, File!WriteByte(u, at, byte), Unit(at) + 1, unit)
            /\ \/ Unit(at) + 1 <= Len(u) /\ old = u[Unit(at) + 1]
               \/ /\ Unit(at) = Len(u) /\ old = <<>>
                  /\ \A i \in 1 .. Len(u) : Len(u[i]) = MaxFileUnitSize
<1> DEFINE q == Unit(at)
           r == Position(at)
           M == MaxFileUnitSize
           n == Len(u)
           v == File!WriteByte(u, at, byte)
           extended == IF q + 1 = n + 1 /\ r = 0 THEN Append(u, <<>>) ELSE u
<1>1. /\ n \in Nat /\ M \in Nat \ {0} /\ File!Size(u) \in Nat /\ at \in Nat
      /\ q \in Nat /\ r \in Nat /\ r < M
  <2>1. n \in Nat /\ M \in Nat \ {0} /\ File!Size(u) \in Nat
    BY FilledParts, SizeOf, Sizes
  <2>2. at \in Nat
    BY <2>1
  <2> QED
    BY <2>1, <2>2, UnitOf
<1>2. u \in Seq(Seq(Values)) /\ u # Failed
  BY TempContainerAssumption DEF Filled
<1>3. v = IF q + 1 > Len(extended) THEN Failed
          ELSE IF Len(extended[q + 1]) < r THEN Failed
          ELSE IF Len(extended[q + 1]) = r
          THEN [extended EXCEPT ![q + 1] = Append(@, byte)]
          ELSE [extended EXCEPT ![q + 1][r + 1] = byte]
  BY <1>2 DEF File!WriteByte, Unit, Position
<1>4. CASE q = n /\ r = 0 /\ \A i \in 1 .. n : Len(u[i]) = M
  <2>1. /\ extended = Append(u, <<>>) /\ <<>> \in Seq(Values)
    BY <1>4, EmptySeq DEF extended
  <2>2. /\ extended \in Seq(Seq(Values)) /\ Len(extended) = n + 1 /\ extended[n + 1] = <<>>
        /\ \A i \in 1 .. n : extended[i] = u[i]
    <3> HIDE DEF extended
    <3> QED
      BY <2>1, <1>2, AppendProperties
  <2> DEFINE unit == Append(<<>>, byte)
  <2>3. /\ unit \in Seq(Values) /\ Len(unit) = 1 /\ unit[1] = byte /\ Len(<<>>) = 0
    BY <2>1, EmptySeq, AppendProperties
  <2> HIDE DEF extended, unit, v, n, q, r
  <2>4. v = [extended EXCEPT ![n + 1] = unit]
    BY <1>1, <1>3, <1>4, <2>2, <2>3 DEF unit
  <2>5. n + 1 \in 1 .. Len(extended)
    BY <1>1, <2>2
  <2>6. /\ v \in Seq(Seq(Values)) /\ Len(v) = n + 1
        /\ \A i \in 1 .. Len(extended) : v[i] = IF i = n + 1 THEN unit ELSE extended[i]
    BY <2>2, <2>3, <2>4, <2>5, ExceptSeq
  <2>7. Stored(<<>>, unit, r, byte)
    BY <2>1, <2>3, <1>4 DEF Stored
  <2>8. \A i \in 1 .. n : i # n + 1 => v[i] = u[i]
    BY <2>2, <2>6, <1>1
  <2>9. v[n + 1] = unit
    BY <2>5, <2>6
  <2>10. Replaced(u, v, q + 1, unit)
    BY <1>4, <2>6, <2>8, <2>9 DEF Replaced, n
  <2> QED
    BY <2>7, <2>10, <1>4 DEF v, n, q, r
<1>5. CASE q + 1 <= n /\ r <= Len(u[q + 1])
  <2> DEFINE old == u[q + 1]
  <2>1. extended = u /\ q + 1 \in 1 .. n
    BY <1>1, <1>5 DEF extended
  <2>2. old \in Seq(Values) /\ Len(old) \in Nat
    BY <2>1, FilledParts
  <2>3. PICK unit : Stored(old, unit, r, byte) /\ v = [u EXCEPT ![q + 1] = unit]
    <3> HIDE DEF extended, v, n, q, r
    <3>1. CASE Len(old) = r
      <4> DEFINE unit == Append(old, byte)
      <4>1. /\ unit \in Seq(Values) /\ Len(unit) = r + 1 /\ unit[r + 1] = byte
            /\ \A i \in 1 .. Len(old) : unit[i] = old[i]
        BY <2>2, <3>1, AppendProperties
      <4>2. Stored(old, unit, r, byte)
        <5> HIDE DEF unit, old
        <5> QED
          BY <4>1, <2>2, <3>1, <1>1 DEF Stored
      <4>3. v = [u EXCEPT ![q + 1] = unit]
        BY <1>3, <2>1, <1>5, <3>1, <1>1 DEF n
      <4> QED
        BY <4>2, <4>3
    <3>2. CASE Len(old) # r
      <4> DEFINE unit == [old EXCEPT ![r + 1] = byte]
      <4>1. r + 1 \in 1 .. Len(old)
        BY <2>2, <3>2, <1>1, <1>5
      <4>2. /\ unit \in Seq(Values) /\ Len(unit) = Len(old)
            /\ \A i \in 1 .. Len(old) : unit[i] = IF i = r + 1 THEN byte ELSE old[i]
        BY <2>2, <4>1, ExceptSeq
      <4>3. Stored(old, unit, r, byte)
        <5> HIDE DEF unit, old
        <5> QED
          BY <4>1, <4>2, <2>2, <3>2, <1>1 DEF Stored
      <4>4. v = [u EXCEPT ![q + 1] = unit]
        BY <1>3, <2>1, <1>5, <3>2, <1>1, <2>2 DEF n
      <4> QED
        BY <4>3, <4>4
    <3> QED
      BY <3>1, <3>2
  <2>4. unit \in Seq(Values)
    BY <2>3 DEF Stored
  <2>5. /\ v \in Seq(Seq(Values)) /\ Len(v) = n
        /\ \A i \in 1 .. n : v[i] = IF i = q + 1 THEN unit ELSE u[i]
    <3> HIDE DEF q, v
    <3> QED
      BY <1>2, <2>1, <2>3, <2>4, ExceptSeq
  <2> HIDE DEF v, n, q, r
  <2>6. Replaced(u, v, q + 1, unit)
    BY <2>1, <2>5, <1>1 DEF Replaced, n
  <2> QED
    BY <2>3, <2>6, <1>5 DEF v, n, q, r
<1>6. (q = n /\ r = 0 /\ \A i \in 1 .. n : Len(u[i]) = M) \/ (q + 1 <= n /\ r <= Len(u[q + 1]))
  <2>1. CASE at = File!Size(u)
    <3>1. CASE Unit(File!Size(u)) = n /\ Position(File!Size(u)) = 0 /\ \A i \in 1 .. n : Len(u[i]) = M
      BY <2>1, <3>1
    <3>2. CASE Unit(File!Size(u)) + 1 = n /\ Position(File!Size(u)) = Len(u[n])
      <4>1. q + 1 = n /\ r = Len(u[n])
        BY <2>1, <3>2
      <4> QED
        BY <4>1, <1>1
    <3> QED
      BY <3>1, <3>2, AtEnd
  <2>2. CASE at # File!Size(u)
    <3>1. at < File!Size(u)
      BY <2>2, <1>1
    <3>2. q + 1 <= n /\ r < Len(u[q + 1])
      BY <3>1, <1>1, Inside
    <3>3. q + 1 \in 1 .. n
      BY <3>2, <1>1
    <3>4. Len(u[q + 1]) \in Nat
      BY <3>3, FilledParts
    <3> QED
      BY <3>2, <3>4, <1>1
  <2> QED
    BY <2>1, <2>2
<1> QED
  BY <1>4, <1>5, <1>6

LEMMA FileByteIs ==
    ASSUME NEW u, NEW str, NEW next, NEW at, NEW byte,
           FileIs(u, str), Stored(str, next, at, byte)
    PROVE  FileIs(File!WriteByte(u, at, byte), next)
<1> DEFINE q == Unit(at)
           r == Position(at)
           M == MaxFileUnitSize
           n == Len(u)
           v == File!WriteByte(u, at, byte)
<1>1. /\ Filled(u) /\ str \in Seq(Values) /\ Len(str) = File!Size(u) /\ Len(str) \in Nat
      /\ \A i \in 1 .. Len(str) : str[i] = ByteAt(u, i - 1)
      /\ next \in Seq(Values) /\ at \in 0 .. Len(str) /\ byte \in Values /\ at \in Nat
      /\ Len(next) = IF at = Len(str) THEN at + 1 ELSE Len(str)
      /\ next[at + 1] = byte
      /\ \A i \in 1 .. Len(str) : i # at + 1 => next[i] = str[i]
  BY LenProperties DEF FileIs, Stored
<1>2. PICK old, unit :
        /\ Stored(old, unit, r, byte)
        /\ Replaced(u, v, q + 1, unit)
        /\ \/ q + 1 <= n /\ old = u[q + 1]
           \/ q = n /\ old = <<>> /\ \A i \in 1 .. n : Len(u[i]) = M
  BY <1>1, ByteGoes
<1>3. /\ n \in Nat /\ M \in Nat \ {0} /\ q \in Nat /\ r \in Nat /\ r < M
      /\ \A i \in 1 .. n : Len(u[i]) \in Nat /\ Len(u[i]) <= M /\ (i < n => Len(u[i]) = M)
  BY <1>1, FilledParts, Sizes, UnitOf
<1> HIDE DEF q, r, M, n, v
<1>4. /\ old \in Seq(Values) /\ unit \in Seq(Values) /\ Len(old) \in Nat /\ Len(unit) \in Nat
      /\ r <= Len(old) /\ Len(unit) = (IF r = Len(old) THEN r + 1 ELSE Len(old))
      /\ unit[r + 1] = byte
      /\ \A i \in 1 .. Len(old) : i # r + 1 => unit[i] = old[i]
  BY <1>2, LenProperties DEF Stored
<1>5. /\ v \in Seq(Seq(Values)) /\ Len(v) = (IF q = n THEN n + 1 ELSE n) /\ v[q + 1] = unit
      /\ \A i \in 1 .. n : i # q + 1 => v[i] = u[i]
  BY <1>2, <1>3 DEF Replaced, n
<1>6. Len(old) <= M /\ (q + 1 < n => Len(old) = M) /\ (q + 1 <= n => Len(old) = Len(u[q + 1]))
      /\ (q + 1 > n => q = n /\ Len(old) = 0)
  <2>1. CASE q + 1 <= n /\ old = u[q + 1]
    <3>1. q + 1 \in 1 .. n
      BY <2>1, <1>3
    <3>2. Len(u[q + 1]) <= M /\ (q + 1 < n => Len(u[q + 1]) = M)
      BY <3>1, <1>3
    <3> QED
      BY <2>1, <3>2, <1>3
  <2>2. CASE q = n /\ old = <<>>
    <3>1. Len(old) = 0
      BY <2>2, EmptySeq
    <3> QED
      BY <2>2, <3>1, <1>3
  <2> QED
    BY <2>1, <2>2, <1>2
<1>7. Filled(v)
  <2>1. ASSUME NEW i \in 1 .. Len(v)
        PROVE  Len(v[i]) <= M /\ (i < Len(v) => Len(v[i]) = M)
    <3>1. CASE i = q + 1
      <4>1. Len(v[i]) = Len(unit)
        BY <3>1, <1>5
      <4>2. Len(unit) <= M
        BY <1>3, <1>4, <1>6
      <4>3. i < Len(v) => Len(unit) = M
        BY <3>1, <1>3, <1>4, <1>5, <1>6
      <4> QED
        BY <4>1, <4>2, <4>3
    <3>2. CASE i # q + 1
      <4>1. i \in 1 .. n /\ v[i] = u[i]
        BY <3>2, <1>3, <1>5
      <4>2. CASE i < n
        BY <4>1, <4>2, <1>3
      <4>3. CASE i = n
        <5>1. Len(u[i]) <= M
          BY <4>1, <1>3
        <5>2. i < Len(v) => q = n
          BY <4>3, <1>5, <1>3
        <5>3. q = n => Len(u[i]) = M
          BY <4>1, <1>2, <1>3
        <5> QED
          BY <4>1, <5>1, <5>2, <5>3
      <4> QED
        BY <4>1, <4>2, <4>3, <1>3
    <3> QED
      BY <3>1, <3>2
  <2>2. Len(v) \in Nat
    BY <1>3, <1>5
  <2>3. \A i \in 1 .. Len(v) : Len(v[i]) <= MaxFileUnitSize
    BY <2>1 DEF M
  <2>4. \A i \in 1 .. Len(v) - 1 : Len(v[i]) = MaxFileUnitSize
    <3>1. \A i \in 1 .. Len(v) - 1 : i \in 1 .. Len(v) /\ i < Len(v)
      BY <2>2
    <3> QED
      BY <2>1, <3>1 DEF M
  <2> QED
    BY <1>5, <2>3, <2>4 DEF Filled
<1>8. ASSUME NEW p \in Nat
      PROVE  /\ p < File!Size(v) <=> p < File!Size(u) \/ p = at
             /\ p = at => ByteAt(v, p) = byte
             /\ p # at /\ p < File!Size(u) => ByteAt(v, p) = ByteAt(u, p)
  <2> DEFINE a == Unit(p)
             b == Position(p)
  <2>1. a \in Nat /\ b \in Nat
    BY UnitOf
  <2>2. p < File!Size(v) <=> a + 1 <= Len(v) /\ b < Len(v[a + 1])
    BY <1>7, Inside
  <2>3. p < File!Size(u) <=> a + 1 <= n /\ b < Len(u[a + 1])
    BY <1>1, Inside DEF n
  <2>4. p = at <=> a = q /\ b = r
    BY <1>1, SamePlace DEF q, r
  <2>5. ByteAt(v, p) = v[a + 1][b + 1] /\ ByteAt(u, p) = u[a + 1][b + 1]
    BY DEF ByteAt, Unit, Position
  <2> HIDE DEF a, b
  <2>6. CASE a = q
    <3>1. v[a + 1] = unit /\ a + 1 <= Len(v)
      BY <2>6, <1>3, <1>5, <1>6
    <3>2. b < Len(unit) <=> b < Len(old) \/ b = r
      BY <2>1, <1>3, <1>4
    <3>3. p < File!Size(u) <=> b < Len(old)
      BY <2>1, <2>3, <2>6, <1>3, <1>4, <1>6
    <3>4. b # r /\ b < Len(old) => unit[b + 1] = old[b + 1] /\ old = u[a + 1]
      <4>1. ASSUME b # r, b < Len(old) PROVE unit[b + 1] = old[b + 1] /\ old = u[a + 1]
        <5>1. b + 1 \in 1 .. Len(old) /\ b + 1 # r + 1
          BY <4>1, <2>1, <1>3, <1>4
        <5>2. ~(q = n)
          BY <4>1, <2>1, <1>2, <1>3, <1>6
        <5> QED
          BY <5>1, <5>2, <1>2, <1>4, <2>6
      <4> QED
        BY <4>1
    <3>5. p < File!Size(v) <=> p < File!Size(u) \/ p = at
      BY <2>2, <2>4, <2>6, <3>1, <3>2, <3>3
    <3>6. p = at => ByteAt(v, p) = byte
      BY <2>4, <2>5, <3>1, <1>4
    <3>7. p # at /\ p < File!Size(u) => ByteAt(v, p) = ByteAt(u, p)
      BY <2>4, <2>5, <2>6, <3>1, <3>3, <3>4
    <3> QED
      BY <3>5, <3>6, <3>7
  <2>7. CASE a # q
    <3>1. p # at
      BY <2>4, <2>7
    <3>2. a + 1 <= Len(v) <=> a + 1 <= n
      BY <2>1, <2>7, <1>3, <1>5, <1>6
    <3>3. a + 1 <= n => v[a + 1] = u[a + 1]
      <4>1. a + 1 <= n => a + 1 \in 1 .. n /\ a + 1 # q + 1
        BY <2>1, <2>7, <1>3
      <4> QED
        BY <4>1, <1>5
    <3> QED
      BY <2>2, <2>3, <2>5, <3>1, <3>2, <3>3
  <2> QED
    BY <2>6, <2>7
<1>9. File!Size(v) \in Nat
  BY <1>7, SizeOf
<1>10. Len(next) = File!Size(v)
  <2>1. File!Size(u) < File!Size(v) <=> File!Size(u) < File!Size(u) \/ File!Size(u) = at
    BY <1>1, <1>8
  <2>2. File!Size(u) + 1 < File!Size(v) <=> File!Size(u) + 1 < File!Size(u) \/ File!Size(u) + 1 = at
    <3>1. File!Size(u) + 1 \in Nat
      BY <1>1
    <3> QED
      BY <3>1, <1>8
  <2>3. File!Size(u) # 0 => File!Size(u) - 1 < File!Size(v)
    <3>1. File!Size(u) # 0 => File!Size(u) - 1 \in Nat /\ File!Size(u) - 1 < File!Size(u)
      BY <1>1
    <3> QED
      BY <3>1, <1>8
  <2> QED
    BY <2>1, <2>2, <2>3, <1>1, <1>9
<1>11. ASSUME NEW i \in 1 .. Len(next) PROVE next[i] = ByteAt(v, i - 1)
  <2>1. i - 1 \in Nat /\ i \in Nat /\ (i - 1) + 1 = i /\ i - 1 < Len(next)
    BY <1>9, <1>10
  <2>2. CASE i - 1 = at
    <3>1. ByteAt(v, i - 1) = byte
      BY <2>1, <2>2, <1>8
    <3>2. i = at + 1
      BY <2>1, <2>2, <1>1
    <3> QED
      BY <3>1, <3>2, <1>1
  <2>3. CASE i - 1 # at
    <3>1. i - 1 < File!Size(u)
      BY <2>1, <2>3, <1>1
    <3>2. i \in 1 .. Len(str) /\ i # at + 1
      BY <3>1, <2>1, <2>3, <1>1
    <3>3. ByteAt(v, i - 1) = ByteAt(u, i - 1)
      BY <3>1, <2>1, <2>3, <1>8
    <3> QED
      BY <3>2, <3>3, <1>1
  <2> QED
    BY <2>2, <2>3
<1> QED
  BY <1>1, <1>7, <1>10, <1>11 DEF FileIs, v

\* A write to a file container writes to its string.
LEMMA FileWriteIs ==
    ASSUME NEW u, NEW str, FileIs(u, str), NEW to \in 0 .. Len(str), NEW chunk \in Seq(Values)
    PROVE  FileIs(File!Write(u, to, chunk), Over(str, to, chunk, Len(chunk)))
<1>1. /\ Len(chunk) \in Nat /\ str \in Seq(Values) /\ Len(str) \in Nat /\ to \in Nat
  BY LenProperties DEF FileIs
<1>2. PICK w : /\ File!Write(u, to, chunk) = w[Len(chunk)]
               /\ w[0] = u
               /\ \A i \in 1 .. Len(chunk) : w[i] = File!WriteByte(w[i - 1], to + i - 1, chunk[i])
  BY <1>1, FileWriteSteps
<1> DEFINE S == {i \in Nat : i <= Len(chunk) => FileIs(w[i], Over(str, to, chunk, i))}
<1>3. 0 \in S
  BY <1>1, <1>2, OverNone
<1>4. ASSUME NEW i \in Nat, i \in S PROVE i + 1 \in S
  <2> SUFFICES ASSUME i + 1 <= Len(chunk)
               PROVE  FileIs(w[i + 1], Over(str, to, chunk, i + 1))
    BY <1>4
  <2>1. i \in 0 .. Len(chunk) - 1 /\ i <= Len(chunk) /\ i + 1 \in 1 .. Len(chunk)
    BY <1>1
  <2>2. FileIs(w[i], Over(str, to, chunk, i))
    BY <2>1, <1>4
  <2>3. Stored(Over(str, to, chunk, i), Over(str, to, chunk, i + 1), to + i, chunk[i + 1])
    BY <1>1, <2>1, OverNext
  <2>4. w[i + 1] = File!WriteByte(w[i], to + i, chunk[i + 1])
    <3>1. (i + 1) - 1 = i /\ to + (i + 1) - 1 = to + i
      BY <1>1
    <3>2. w[i + 1] = File!WriteByte(w[(i + 1) - 1], to + (i + 1) - 1, chunk[i + 1])
      BY <2>1, <1>2
    <3> QED
      BY <3>1, <3>2
  <2> QED
    BY <2>2, <2>3, <2>4, FileByteIs
<1>5. Len(chunk) \in S
  <2> HIDE DEF S
  <2>1. Nat \subseteq S
    BY <1>3, <1>4, ByInduction
  <2> QED
    BY <2>1, <1>1
<1> QED
  BY <1>1, <1>2, <1>5

-----------------------------------------------------------------------------
(* Parts of strings. *)

LEMMA PartIs ==
    ASSUME NEW V, NEW str \in Seq(V), NEW from \in Nat, NEW to \in Nat, from <= to, to <= Len(str)
    PROVE  /\ SubSeq(str, from + 1, to) \in Seq(V)
           /\ Len(SubSeq(str, from + 1, to)) = to - from
           /\ \A i \in 1 .. to - from : SubSeq(str, from + 1, to)[i] = str[from + i]
<1>1. Len(str) \in Nat /\ from + 1 \in Int /\ to \in Int
  BY LenProperties
<1>2. \A i \in from + 1 .. to : str[i] \in V
  BY <1>1, ElementOfSeq
<1>3. /\ SubSeq(str, from + 1, to) \in Seq(V)
      /\ Len(SubSeq(str, from + 1, to)) = IF from + 1 <= to THEN to - (from + 1) + 1 ELSE 0
      /\ \A i \in 1 .. to - (from + 1) + 1 : SubSeq(str, from + 1, to)[i] = str[from + 1 + i - 1]
  BY <1>1, <1>2, SubSeqProperties
<1>4. Len(SubSeq(str, from + 1, to)) = to - from
  BY <1>3
<1>5. ASSUME NEW i \in 1 .. to - from PROVE SubSeq(str, from + 1, to)[i] = str[from + i]
  <2>1. i \in 1 .. to - (from + 1) + 1 /\ from + 1 + i - 1 = from + i
    OBVIOUS
  <2> QED
    BY <2>1, <1>3
<1> QED
  BY <1>3, <1>4, <1>5

\* The first n of a string.
LEMMA HeadIs ==
    ASSUME NEW V, NEW str \in Seq(V), NEW n \in 0 .. Len(str)
    PROVE  /\ SubSeq(str, 1, n) \in Seq(V)
           /\ Len(SubSeq(str, 1, n)) = n
           /\ \A i \in 1 .. n : SubSeq(str, 1, n)[i] = str[i]
<1>1. Len(str) \in Nat /\ n \in Nat /\ 0 \in Nat /\ 0 <= n /\ n <= Len(str) /\ 0 + 1 = 1
  BY LenProperties
<1>2. /\ SubSeq(str, 0 + 1, n) \in Seq(V)
      /\ Len(SubSeq(str, 0 + 1, n)) = n - 0
      /\ \A i \in 1 .. n - 0 : SubSeq(str, 0 + 1, n)[i] = str[0 + i]
  BY <1>1, PartIs
<1>3. n - 0 = n /\ \A i \in 1 .. n : 0 + i = i
  BY <1>1
<1> QED
  BY <1>1, <1>2, <1>3

\* str without what is between two places.
Cut(str, from, to) == SubSeq(str, 1, from) \o SubSeq(str, to + 1, Len(str))

LEMMA CutIs ==
    ASSUME NEW str \in Seq(Values), NEW from \in Nat, NEW to \in Nat, from <= to, to <= Len(str)
    PROVE  /\ Cut(str, from, to) \in Seq(Values)
           /\ Len(Cut(str, from, to)) = Len(str) - (to - from)
           /\ \A i \in 1 .. Len(str) - (to - from) :
                Cut(str, from, to)[i] = IF i <= from THEN str[i] ELSE str[i + (to - from)]
<1> DEFINE a == SubSeq(str, 1, from)
           b == SubSeq(str, to + 1, Len(str))
<1>1. Len(str) \in Nat /\ from \in 0 .. Len(str) /\ Len(str) <= Len(str)
  BY LenProperties
<1>2. a \in Seq(Values) /\ Len(a) = from /\ \A i \in 1 .. from : a[i] = str[i]
  BY <1>1, HeadIs
<1>3. b \in Seq(Values) /\ Len(b) = Len(str) - to /\ \A i \in 1 .. Len(str) - to : b[i] = str[to + i]
  BY <1>1, PartIs
<1> HIDE DEF a, b
<1>4. /\ a \o b \in Seq(Values) /\ Len(a \o b) = Len(a) + Len(b)
      /\ \A i \in 1 .. Len(a) + Len(b) : (a \o b)[i] = IF i <= Len(a) THEN a[i] ELSE b[i - Len(a)]
  BY <1>2, <1>3, ConcatProperties
<1>5. Len(a) + Len(b) = Len(str) - (to - from)
  BY <1>1, <1>2, <1>3
<1>6. ASSUME NEW i \in 1 .. Len(str) - (to - from)
      PROVE  (a \o b)[i] = IF i <= from THEN str[i] ELSE str[i + (to - from)]
  <2>1. (a \o b)[i] = IF i <= from THEN a[i] ELSE b[i - from]
    BY <1>2, <1>4, <1>5
  <2>2. i <= from => a[i] = str[i]
    BY <1>2
  <2>3. ~(i <= from) => b[i - from] = str[i + (to - from)]
    <3>1. ~(i <= from) => i - from \in 1 .. Len(str) - to /\ to + (i - from) = i + (to - from)
      BY <1>1
    <3> QED
      BY <3>1, <1>3
  <2> QED
    BY <2>1, <2>2, <2>3
<1>7. Cut(str, from, to) = a \o b
  BY DEF Cut, a, b
<1> QED
  BY <1>4, <1>5, <1>6, <1>7

\* Moving what follows and cutting off the end leaves the rest.
LEMMA MovedAndCut ==
    ASSUME NEW str \in Seq(Values), NEW from \in Nat, NEW to \in Nat, from <= to, to <= Len(str),
           NEW moved, moved = SubSeq(str, to + 1, Len(str))
    PROVE  /\ moved \in Seq(Values) /\ Len(moved) = Len(str) - to
           /\ OverLen(str, from, Len(moved)) = Len(str)
           /\ SubSeq(Over(str, from, moved, Len(moved)), 1, Len(str) - (to - from)) = Cut(str, from, to)
<1> DEFINE n == Len(str) - (to - from)
           over == Over(str, from, moved, Len(moved))
<1>1. Len(str) \in Nat /\ from \in 0 .. Len(str) /\ Len(str) <= Len(str)
  BY LenProperties
<1>2. /\ moved \in Seq(Values) /\ Len(moved) = Len(str) - to
      /\ \A i \in 1 .. Len(str) - to : moved[i] = str[to + i]
  BY <1>1, PartIs
<1>3. OverLen(str, from, Len(moved)) = Len(str)
  BY <1>1, <1>2 DEF OverLen
<1>4. /\ over \in Seq(Values) /\ Len(over) = Len(str)
      /\ \A i \in 1 .. Len(str) :
            over[i] = IF from < i /\ i <= from + Len(moved) THEN moved[i - from] ELSE str[i]
  <2>1. Len(moved) \in 0 .. Len(moved) /\ moved \in Seq(Values) /\ from \in 0 .. Len(str)
    BY <1>1, <1>2
  <2>2. /\ over \in Seq(Values) /\ Len(over) = OverLen(str, from, Len(moved))
        /\ \A i \in 1 .. OverLen(str, from, Len(moved)) :
            over[i] = IF from < i /\ i <= from + Len(moved) THEN moved[i - from] ELSE str[i]
    <3> HIDE DEF n
    <3>1. over \in Seq(Values) /\ Len(over) = OverLen(str, from, Len(moved))
      BY ZenonT(30), <2>1, OverTyped
    <3>2. PICK k : k = Len(moved)
      OBVIOUS
    <3>3. \A i \in 1 .. OverLen(str, from, k) :
            Over(str, from, moved, k)[i] = IF from < i /\ i <= from + k THEN moved[i - from] ELSE str[i]
      <4> HIDE DEF over
      <4>1. k \in 0 .. Len(moved)
        BY <2>1, <3>2
      <4> QED
        BY ZenonT(30), <4>1, <2>1, OverTyped
    <3>4. over = Over(str, from, moved, k)
      BY <3>2
    <3> QED
      BY <3>1, <3>2, <3>3, <3>4
  <2> QED
    BY <2>2, <1>3
<1> HIDE DEF over
<1>5. n \in 0 .. Len(over)
  BY <1>1, <1>4
<1>6. /\ SubSeq(over, 1, n) \in Seq(Values) /\ Len(SubSeq(over, 1, n)) = n
      /\ \A i \in 1 .. n : SubSeq(over, 1, n)[i] = over[i]
  <2> HIDE DEF n
  <2> QED
    BY <1>4, <1>5, HeadIs
<1>7. /\ Cut(str, from, to) \in Seq(Values) /\ Len(Cut(str, from, to)) = n
      /\ \A i \in 1 .. n : Cut(str, from, to)[i] = IF i <= from THEN str[i] ELSE str[i + (to - from)]
  BY CutIs
<1>8. ASSUME NEW i \in 1 .. n PROVE SubSeq(over, 1, n)[i] = Cut(str, from, to)[i]
  <2>1. SubSeq(over, 1, n)[i] = over[i]
    BY <1>6
  <2>2. Cut(str, from, to)[i] = IF i <= from THEN str[i] ELSE str[i + (to - from)]
    BY <1>7
  <2>3. i \in 1 .. Len(str)
    BY <1>1
  <2>4. over[i] = IF from < i /\ i <= from + Len(moved) THEN moved[i - from] ELSE str[i]
    BY <1>4, <2>3
  <2>5. CASE i <= from
    BY <2>1, <2>2, <2>4, <2>5
  <2>6. CASE ~(i <= from)
    <3>1. from < i /\ i <= from + Len(moved) /\ i - from \in 1 .. Len(str) - to
      BY <2>6, <1>1, <1>2
    <3>2. moved[i - from] = str[to + (i - from)] /\ to + (i - from) = i + (to - from)
      BY <3>1, <1>1, <1>2
    <3> QED
      BY <2>1, <2>2, <2>4, <2>6, <3>1, <3>2
  <2> QED
    BY <2>5, <2>6
<1>9. SubSeq(over, 1, n) = Cut(str, from, to)
  <2> HIDE DEF n
  <2> QED
    BY <1>6, <1>7, <1>8, SeqEqual
<1> QED
  BY <1>2, <1>3, <1>9 DEF over, n

-----------------------------------------------------------------------------
(* The other calls of a file container. *)

LEMMA FileReadIs ==
    ASSUME NEW u, NEW str, FileIs(u, str), NEW from \in Nat, NEW to \in Nat, from <= to, to <= Len(str)
    PROVE  File!Read(u, from, to - from) = SubSeq(str, from + 1, to)
<1> DEFINE read == [i \in 1 .. to - from |-> ByteAt(u, from + i - 1)]
<1>1. /\ str \in Seq(Values) /\ Len(str) = File!Size(u) /\ Len(str) \in Nat
      /\ \A i \in 1 .. Len(str) : str[i] = ByteAt(u, i - 1)
  BY LenProperties DEF FileIs
<1>2. File!Read(u, from, to - from) = read
  <2>1. ~(from + (to - from) > File!Size(u))
    BY <1>1
  <2> QED
    BY <2>1 DEF File!Read, ByteAt
<1>3. /\ SubSeq(str, from + 1, to) \in Seq(Values)
      /\ Len(SubSeq(str, from + 1, to)) = to - from
      /\ \A i \in 1 .. to - from : SubSeq(str, from + 1, to)[i] = str[from + i]
  BY <1>1, PartIs
<1>4. ASSUME NEW i \in 1 .. to - from PROVE read[i] = SubSeq(str, from + 1, to)[i] /\ read[i] \in Values
  <2>1. from + i \in 1 .. Len(str) /\ (from + i) - 1 = from + i - 1
    BY <1>1
  <2>2. str[from + i] = ByteAt(u, from + i - 1) /\ str[from + i] \in Values
    BY <1>1, <2>1, ElementOfSeq
  <2> QED
    BY <2>2, <1>3
<1>5. read \in Seq(Values) /\ Len(read) = to - from
  <2>1. to - from \in Nat /\ read \in [1 .. to - from -> Values]
    <3>1. to - from \in Nat
      OBVIOUS
    <3>2. \A i \in 1 .. to - from : ByteAt(u, from + i - 1) \in Values
      BY <1>4
    <3> QED
      BY <3>1, <3>2
  <2> HIDE DEF read
  <2>2. read \in Seq(Values)
    BY <2>1, SeqDef
  <2> QED
    BY <2>1, <2>2, LenProperties
<1> HIDE DEF read
<1> QED
  BY <1>2, <1>3, <1>4, <1>5, SeqEqual

LEMMA FileEmpty == FileIs(<<>>, <<>>)
<1>1. <<>> \in Seq(Seq(Values)) /\ <<>> \in Seq(Values) /\ Len(<<>>) = 0
  BY EmptySeq
<1>2. Filled(<<>>)
  BY <1>1 DEF Filled
<1> QED
  BY <1>1, <1>2, SizeOf DEF FileIs

LEMMA FileTruncateIs ==
    ASSUME NEW u, NEW str, FileIs(u, str), NEW size \in Nat, size < Len(str)
    PROVE  FileIs(File!Truncate(u, size), SubSeq(str, 1, size))
<1> DEFINE q == Unit(size)
           r == Position(size)
           M == MaxFileUnitSize
           v == File!Truncate(u, size)
<1>1. /\ Filled(u) /\ str \in Seq(Values) /\ Len(str) = File!Size(u) /\ Len(str) \in Nat
      /\ \A i \in 1 .. Len(str) : str[i] = ByteAt(u, i - 1)
  BY LenProperties DEF FileIs
<1>2. /\ SubSeq(str, 1, size) \in Seq(Values) /\ Len(SubSeq(str, 1, size)) = size
      /\ \A i \in 1 .. size : SubSeq(str, 1, size)[i] = str[i]
  <2>1. size \in 0 .. Len(str)
    BY <1>1
  <2> QED
    BY <2>1, <1>1, HeadIs
<1>3. CASE size = 0
  <2>1. SubSeq(str, 1, 0) = <<>> /\ v = <<>>
    BY <1>3, SubSeqEmpty DEF File!Truncate
  <2> QED
    BY <2>1, <1>3, FileEmpty
<1>4. CASE size # 0
  <2>1. /\ q \in Nat /\ r \in Nat /\ r < M /\ M \in Nat \ {0} /\ q * M \in Nat /\ size = q * M + r
        /\ Len(u) \in Nat /\ u \in Seq(Seq(Values))
        /\ \A i \in 1 .. Len(u) : u[i] \in Seq(Values) /\ Len(u[i]) \in Nat /\ (i < Len(u) => Len(u[i]) = M)
    BY <1>1, UnitOf, Sizes, FilledParts
  <2>2. q + 1 <= Len(u) /\ r < Len(u[q + 1])
    BY <1>1, Inside
  <2> DEFINE front == SubSeq(u, 1, q + 1)
             unit  == SubSeq(u[q + 1], 1, r)
  <2>3. v = [front EXCEPT ![q + 1] = SubSeq(@, 1, r)]
    BY <1>4 DEF File!Truncate, Unit, Position
  <2> HIDE DEF q, r, M, v
  <2>4. q + 1 \in 0 .. Len(u) /\ q + 1 \in 1 .. Len(u) /\ q + 1 \in 1 .. q + 1
    BY <2>1, <2>2
  <2>5. /\ front \in Seq(Seq(Values)) /\ Len(front) = q + 1
        /\ \A i \in 1 .. q + 1 : front[i] = u[i]
    BY <2>1, <2>4, HeadIs
  <2>6. r \in 0 .. Len(u[q + 1]) /\ u[q + 1] \in Seq(Values)
    BY <2>1, <2>2, <2>4
  <2>7. unit \in Seq(Values) /\ Len(unit) = r /\ \A i \in 1 .. r : unit[i] = u[q + 1][i]
    BY <2>6, HeadIs
  <2>8. v = [front EXCEPT ![q + 1] = unit]
    BY <2>3, <2>4, <2>5
  <2> HIDE DEF front, unit
  <2>9. /\ v \in Seq(Seq(Values)) /\ Len(v) = q + 1
        /\ \A i \in 1 .. q + 1 : v[i] = IF i = q + 1 THEN unit ELSE front[i]
    BY <2>4, <2>5, <2>7, <2>8, ExceptSeq
  <2>10. /\ v[q + 1] = unit /\ v # <<>>
         /\ \A i \in 1 .. q : v[i] = u[i] /\ Len(u[i]) = M
    <3>1. v # <<>>
      BY <2>1, <2>9, EmptySeq
    <3>2. \A i \in 1 .. q : i \in 1 .. q + 1 /\ i # q + 1 /\ i \in 1 .. Len(u) /\ i < Len(u)
      BY <2>1, <2>2
    <3> QED
      BY <3>1, <3>2, <2>1, <2>4, <2>5, <2>9
  <2>11. Filled(v)
    <3>1. ASSUME NEW i \in 1 .. Len(v) PROVE Len(v[i]) <= MaxFileUnitSize
      <4>1. CASE i = q + 1
        BY <4>1, <2>1, <2>7, <2>10 DEF M
      <4>2. CASE i # q + 1
        <5>1. i \in 1 .. q
          BY <4>2, <2>1, <2>9
        <5> QED
          BY <5>1, <2>1, <2>10 DEF M
      <4> QED
        BY <4>1, <4>2
    <3>2. ASSUME NEW i \in 1 .. Len(v) - 1 PROVE Len(v[i]) = MaxFileUnitSize
      <4>1. i \in 1 .. q
        BY <2>1, <2>9
      <4> QED
        BY <4>1, <2>10 DEF M
    <3> QED
      BY <3>1, <3>2, <2>9 DEF Filled
  <2>12. File!Size(v) = size
    <3>1. File!Size(v) = (Len(v) - 1) * M + Len(v[Len(v)])
      BY <2>10, <2>11, SizeOf DEF M
    <3>2. Len(v) - 1 = q /\ Len(v[Len(v)]) = r
      BY <2>1, <2>7, <2>9, <2>10
    <3> QED
      BY <3>1, <3>2, <2>1
  <2>13. ASSUME NEW i \in 1 .. size PROVE SubSeq(str, 1, size)[i] = ByteAt(v, i - 1)
    <3> DEFINE a == Unit(i - 1)
               b == Position(i - 1)
    <3>1. i - 1 \in Nat /\ i - 1 < size /\ i \in 1 .. Len(str)
      BY <1>1
    <3>2. a \in Nat /\ b \in Nat
      BY <3>1, UnitOf
    <3>3. a + 1 <= Len(v) /\ b < Len(v[a + 1])
      BY <3>1, <2>11, <2>12, Inside
    <3>4. ByteAt(v, i - 1) = v[a + 1][b + 1] /\ ByteAt(u, i - 1) = u[a + 1][b + 1]
      BY DEF ByteAt, Unit, Position
    <3> HIDE DEF a, b
    <3>5. v[a + 1][b + 1] = u[a + 1][b + 1]
      <4>1. CASE a = q
        <5>1. b + 1 \in 1 .. r
          BY <4>1, <3>2, <3>3, <2>1, <2>7, <2>10
        <5> QED
          BY <5>1, <4>1, <2>7, <2>10
      <4>2. CASE a # q
        <5>1. a + 1 \in 1 .. q
          BY SMTT(30), <4>2, <3>2, <3>3, <2>1, <2>9
        <5> QED
          BY <5>1, <2>10
      <4> QED
        BY <4>1, <4>2
    <3>6. SubSeq(str, 1, size)[i] = ByteAt(u, i - 1)
      BY <3>1, <1>1, <1>2
    <3> QED
      BY <3>4, <3>5, <3>6
  <2>14. FileIs(v, SubSeq(str, 1, size))
    BY <1>2, <2>11, <2>12, <2>13 DEF FileIs
  <2> QED
    BY <2>14 DEF v
<1> QED
  BY <1>3, <1>4

\* A removal from a file container is one from its string.
LEMMA FileColapseIs ==
    ASSUME NEW u, NEW str, FileIs(u, str), NEW from \in Nat, NEW to \in Nat, from <= to, to <= Len(str)
    PROVE  FileIs(File!Colapse(u, from, to), Cut(str, from, to))
<1> DEFINE moved == SubSeq(str, to + 1, Len(str))
           size  == Len(str) - (to - from)
           over  == Over(str, from, moved, Len(moved))
<1>1. str \in Seq(Values) /\ Len(str) = File!Size(u) /\ Len(str) \in Nat
  BY LenProperties DEF FileIs
<1>2. File!Read(u, to, Len(str) - to) = moved
  <2>1. to <= Len(str) /\ Len(str) <= Len(str)
    BY <1>1
  <2> QED
    BY <1>1, <2>1, FileReadIs
<1>3. /\ moved \in Seq(Values) /\ Len(moved) = Len(str) - to
      /\ OverLen(str, from, Len(moved)) = Len(str)
      /\ SubSeq(over, 1, size) = Cut(str, from, to)
  BY <1>1, MovedAndCut
<1> HIDE DEF moved
<1>4. ~(to < from \/ File!Size(u) < to)
  BY <1>1
<1>5. CASE to = from
  <2>1. File!Colapse(u, from, to) = u
    BY <1>4, <1>5 DEF File!Colapse
  <2>2. /\ Cut(str, from, to) \in Seq(Values) /\ Len(Cut(str, from, to)) = Len(str) - (to - from)
        /\ \A i \in 1 .. Len(str) - (to - from) :
            Cut(str, from, to)[i] = IF i <= from THEN str[i] ELSE str[i + (to - from)]
    BY ZenonT(30), <1>1, CutIs
  <2>3. Len(str) - (to - from) = Len(str) /\ to - from = 0 /\ \A i \in 1 .. Len(str) : i + 0 = i
    BY <1>1, <1>5
  <2>4. Len(Cut(str, from, to)) = Len(str) /\ \A i \in 1 .. Len(str) : Cut(str, from, to)[i] = str[i]
    BY <2>2, <2>3
  <2>5. Cut(str, from, to) = str
    BY <2>2, <2>4, <1>1, SeqEqual
  <2> QED
    BY <2>1, <2>5
<1>6. CASE to # from
  <2>1. size \in Nat /\ size < Len(str)
    BY <1>1, <1>6
  <2> DEFINE written == IF moved = <<>> THEN u ELSE File!Write(u, from, moved)
  <2>2. File!Colapse(u, from, to) = File!Truncate(written, size)
    BY <1>1, <1>2, <1>4, <1>6 DEF File!Colapse
  <2>3. FileIs(written, over)
    <3>1. CASE moved = <<>>
      <4>1. Len(moved) = 0 /\ from \in 0 .. Len(str)
        BY <3>1, <1>1, EmptySeq
      <4>2. over = str
        BY <4>1, <1>1, <1>3, OverNone
      <4> QED
        BY <4>2, <3>1
    <3>2. CASE moved # <<>>
      <4>1. from \in 0 .. Len(str)
        BY <1>1
      <4> QED
        BY <4>1, <3>2, <1>3, FileWriteIs
    <3> QED
      BY <3>1, <3>2
  <2>4. Len(over) = Len(str)
    <3>1. Len(moved) \in 0 .. Len(moved) /\ from \in 0 .. Len(str)
      BY <1>1, <1>3
    <3> QED
      BY <3>1, <1>1, <1>3, OverTyped
  <2> HIDE DEF written, over, size
  <2>5. FileIs(File!Truncate(written, size), SubSeq(over, 1, size))
    BY <2>1, <2>3, <2>4, FileTruncateIs
  <2> QED
    BY <2>2, <2>5, <1>3
<1> QED
  BY <1>5, <1>6

-----------------------------------------------------------------------------
(* Windows. *)

LEMMA WindowParts ==
    ASSUME NEW w \in Windows
    PROVE  /\ w.start \in Nat /\ w.bytes \in Seq(Values) /\ w.dirty \in BOOLEAN
           /\ Len(w.bytes) \in Nat /\ End(w) \in Nat /\ End(w) = w.start + Len(w.bytes)
           /\ w = Window(w.start, w.bytes, w.dirty)
<1>1. w.start \in Nat /\ w.bytes \in Seq(Values) /\ w.dirty \in BOOLEAN
  BY DEF Windows
<1>2. Len(w.bytes) \in Nat
  BY <1>1, LenProperties
<1>3. w = Window(w.start, w.bytes, w.dirty)
  BY DEF Windows, Window
<1> QED
  BY <1>1, <1>2, <1>3 DEF End

LEMMA WindowIs ==
    ASSUME NEW start \in Nat, NEW content \in Seq(Values), NEW dirty \in BOOLEAN
    PROVE  /\ Window(start, content, dirty) \in Windows
           /\ Window(start, content, dirty).start = start
           /\ Window(start, content, dirty).bytes = content
           /\ Window(start, content, dirty).dirty = dirty
  BY DEF Window, Windows

LEMMA IsAWindow == ASSUME NEW w \in Windows PROVE w # NoWindow
<1> SUFFICES ASSUME w = NoWindow PROVE FALSE
  OBVIOUS
<1>1. DOMAIN w = {"start", "bytes", "dirty"}
  BY DEF Windows
<1>2. "none" \in DOMAIN NoWindow
  BY DEF NoWindow
<1> QED
  BY <1>1, <1>2

LEMMA CleanedNoWindow == Cleaned(NoWindow) = NoWindow
<1>1. NoWindow.dirty = FALSE
  BY DEF NoWindow
<1>2. DOMAIN Cleaned(NoWindow) = DOMAIN NoWindow
  BY DEF Cleaned
<1>3. ASSUME NEW x \in DOMAIN NoWindow PROVE Cleaned(NoWindow)[x] = NoWindow[x]
  <2>1. CASE x = "dirty"
    BY <1>1, <2>1 DEF Cleaned
  <2>2. CASE x # "dirty"
    BY <2>2 DEF Cleaned
  <2> QED
    BY <2>1, <2>2
<1>4. NoWindow = [x \in DOMAIN NoWindow |-> NoWindow[x]]
  BY DEF NoWindow
<1>5. Cleaned(NoWindow) = [x \in DOMAIN NoWindow |-> Cleaned(NoWindow)[x]]
  BY DEF Cleaned
<1> QED
  BY <1>2, <1>3, <1>4, <1>5

LEMMA NoWindowHas ==
    /\ NoWindow.start = 0 /\ NoWindow.dirty = FALSE /\ End(NoWindow) = 0
    /\ Cleaned(NoWindow) = NoWindow
    /\ \A p \in Nat : ~Has(NoWindow, p) /\ ~Changed(NoWindow, p)
<1>1. NoWindow.start = 0 /\ NoWindow.dirty = FALSE /\ NoWindow.bytes = <<>>
  BY DEF NoWindow
<1>2. Len(<<>>) = 0
  BY EmptySeq
<1>3. Cleaned(NoWindow) = NoWindow
  BY CleanedNoWindow
<1> QED
  BY <1>1, <1>2, <1>3 DEF End, Has, Changed

LEMMA ShowsParts ==
    ASSUME NEW w, NEW all \in Seq(Values), Shows(w, all)
    PROVE  /\ w \in Windows /\ w # NoWindow /\ Len(all) \in Nat /\ mCacheSize \in Nat \ {0}
           /\ w.start \in Nat /\ w.bytes \in Seq(Values) /\ w.dirty \in BOOLEAN
           /\ Len(w.bytes) \in Nat /\ End(w) \in Nat /\ End(w) = w.start + Len(w.bytes)
           /\ w.start % mCacheSize = 0 /\ w.start <= Len(all)
           /\ Len(w.bytes) <= mCacheSize /\ End(w) <= Len(all)
           /\ Len(w.bytes) = mCacheSize \/ End(w) = Len(all)
           /\ \A i \in 1 .. Len(w.bytes) : w.bytes[i] = all[w.start + i]
<1>1. w \in Windows
  BY DEF Shows
<1> QED
  BY <1>1, WindowParts, IsAWindow, LenProperties, Sizes DEF Shows

\* A window has the bytes of its place, as far as there are some.
LEMMA ShowsAt ==
    ASSUME NEW w, NEW all \in Seq(Values), Shows(w, all), NEW p \in Nat
    PROVE  /\ Has(w, p) <=> Takes(w, p) /\ p < Len(all)
           /\ Has(w, p) => w.bytes[p - w.start + 1] = all[p + 1]
<1>1. Has(w, p) <=> Takes(w, p) /\ p < Len(all)
  BY ShowsParts DEF Has, Takes
<1>2. ASSUME Has(w, p) PROVE w.bytes[p - w.start + 1] = all[p + 1]
  <2>1. p - w.start + 1 \in 1 .. Len(w.bytes) /\ w.start + (p - w.start + 1) = p + 1
    BY <1>2, ShowsParts DEF Has
  <2>2. \A i \in 1 .. Len(w.bytes) : w.bytes[i] = all[w.start + i]
    BY ShowsParts
  <2> QED
    BY <2>1, <2>2
<1> QED
  BY <1>1, <1>2

LEMMA CleanedShows ==
    ASSUME NEW w, NEW all \in Seq(Values), Shows(w, all)
    PROVE  /\ Shows(Cleaned(w), all) /\ Cleaned(w).start = w.start
           /\ Cleaned(w).dirty = FALSE
<1> DEFINE v == Cleaned(w)
<1>1. w \in Windows
  BY ShowsParts
<1>2. v \in Windows /\ v.start = w.start /\ v.bytes = w.bytes /\ v.dirty = FALSE
  BY <1>1 DEF Cleaned, Windows
<1>3. End(v) = End(w)
  BY <1>2 DEF End
<1> HIDE DEF v
<1>4. Shows(v, all)
  BY <1>2, <1>3 DEF Shows
<1> QED
  BY <1>2, <1>4 DEF v

LEMMA WindowWith ==
    ASSUME NEW w \in Windows, NEW content
    PROVE  [w EXCEPT !.bytes = content, !.dirty = TRUE]
            = [start |-> w.start, bytes |-> content, dirty |-> TRUE]
<1> DEFINE a == [w EXCEPT !.bytes = content, !.dirty = TRUE]
           b == [start |-> w.start, bytes |-> content, dirty |-> TRUE]
<1>1. DOMAIN w = {"start", "bytes", "dirty"} /\ DOMAIN a = DOMAIN w
  BY DEF Windows
<1>2. a.start = w.start /\ a.bytes = content /\ a.dirty = TRUE
  BY <1>1
<1>3. a = [x \in DOMAIN w |-> a[x]]
  OBVIOUS
<1>4. b = [x \in {"start", "bytes", "dirty"} |-> b[x]]
  OBVIOUS
<1>5. b.start = w.start /\ b.bytes = content /\ b.dirty = TRUE
  OBVIOUS
<1> HIDE DEF a, b
<1> QED
  BY <1>1, <1>2, <1>3, <1>4, <1>5

\* A byte that is written: to the window that takes it, past the other one.
\* The window v is w with a byte put at a place that w takes.
IsPut(v, w, at) ==
    /\ v.start = w.start /\ v.dirty
    /\ \A p \in Nat : Has(v, p) <=> Has(w, p) \/ p = at

LEMMA PutShows ==
    ASSUME NEW w, NEW str, NEW next, NEW at, NEW byte,
           Stored(str, next, at, byte), Shows(w, str), Takes(w, at)
    PROVE  Shows(Put(w, at, byte), next) /\ IsPut(Put(w, at, byte), w, at)
<1> DEFINE v == Put(w, at, byte)
<1>1. /\ str \in Seq(Values) /\ next \in Seq(Values) /\ Len(str) \in Nat
      /\ at \in Nat /\ at <= Len(str) /\ byte \in Values
      /\ Len(next) = IF at = Len(str) THEN at + 1 ELSE Len(str)
      /\ next[at + 1] = byte
      /\ \A i \in 1 .. Len(str) : i # at + 1 => next[i] = str[i]
  BY LenProperties DEF Stored
<1>2. /\ w \in Windows /\ w.start \in Nat /\ w.bytes \in Seq(Values) /\ mCacheSize \in Nat \ {0}
      /\ Len(w.bytes) \in Nat /\ End(w) \in Nat /\ End(w) = w.start + Len(w.bytes)
      /\ w.start % mCacheSize = 0 /\ w.start <= Len(str)
      /\ Len(w.bytes) <= mCacheSize /\ End(w) <= Len(str)
      /\ Len(w.bytes) = mCacheSize \/ End(w) = Len(str)
      /\ \A i \in 1 .. Len(w.bytes) : w.bytes[i] = str[w.start + i]
  BY <1>1, ShowsParts
<1>3. w.start <= at /\ at < w.start + mCacheSize
  BY DEF Takes
<1> DEFINE r == at - w.start
<1>4. PICK content :
        /\ v = [start |-> w.start, bytes |-> content, dirty |-> TRUE]
        /\ content \in Seq(Values) /\ Len(content) = (IF r = Len(w.bytes) THEN r + 1 ELSE Len(w.bytes))
        /\ content[r + 1] = byte
        /\ \A i \in 1 .. Len(w.bytes) : i # r + 1 => content[i] = w.bytes[i]
  <2>1. CASE at = End(w)
    <3> DEFINE content == Append(w.bytes, byte)
    <3>1. v = [start |-> w.start, bytes |-> content, dirty |-> TRUE]
      <4>1. v = [w EXCEPT !.bytes = content, !.dirty = TRUE]
        BY <2>1 DEF Put
      <4> HIDE DEF v, content
      <4> QED
        BY <4>1, <1>2, WindowWith
    <3>2. /\ content \in Seq(Values) /\ Len(content) = Len(w.bytes) + 1
          /\ content[Len(w.bytes) + 1] = byte
          /\ \A i \in 1 .. Len(w.bytes) : content[i] = w.bytes[i]
      BY <1>1, <1>2, AppendProperties
    <3>3. r = Len(w.bytes)
      BY <2>1, <1>2
    <3> HIDE DEF content, r
    <3>4. /\ content \in Seq(Values) /\ Len(content) = (IF r = Len(w.bytes) THEN r + 1 ELSE Len(w.bytes))
          /\ content[r + 1] = byte
          /\ \A i \in 1 .. Len(w.bytes) : i # r + 1 => content[i] = w.bytes[i]
      BY <3>2, <3>3
    <3> QED
      BY <3>1, <3>4
  <2>2. CASE at # End(w)
    <3> DEFINE content == [w.bytes EXCEPT ![r + 1] = byte]
    <3>1. v = [start |-> w.start, bytes |-> content, dirty |-> TRUE]
      <4>1. v = [w EXCEPT !.bytes = content, !.dirty = TRUE]
        BY <2>2 DEF Put
      <4> HIDE DEF v, content
      <4> QED
        BY <4>1, <1>2, WindowWith
    <3>2. r + 1 \in 1 .. Len(w.bytes) /\ r # Len(w.bytes)
      BY SMTT(30), <2>2, <1>1, <1>2, <1>3
    <3> HIDE DEF r
    <3>3. /\ content \in Seq(Values) /\ Len(content) = Len(w.bytes)
          /\ \A i \in 1 .. Len(w.bytes) : content[i] = IF i = r + 1 THEN byte ELSE w.bytes[i]
      BY <3>2, <1>1, <1>2, ExceptSeq
    <3> HIDE DEF content
    <3>4. /\ content \in Seq(Values) /\ Len(content) = (IF r = Len(w.bytes) THEN r + 1 ELSE Len(w.bytes))
          /\ content[r + 1] = byte
          /\ \A i \in 1 .. Len(w.bytes) : i # r + 1 => content[i] = w.bytes[i]
      BY <3>2, <3>3
    <3> QED
      BY <3>1, <3>4
  <2> QED
    BY <2>1, <2>2
<1>5. v.start = w.start /\ v.bytes = content /\ v.dirty = TRUE /\ v \in Windows
  BY <1>2, <1>4 DEF Windows
<1>6. r \in Nat /\ at = w.start + r /\ w.start \in Nat
  BY <1>1, <1>2, <1>3
<1> HIDE DEF v, r
<1>7. End(v) = IF at = End(w) THEN at + 1 ELSE End(w)
  <2>1. End(v) = w.start + Len(content)
    BY <1>5 DEF End
  <2>2. at = End(w) <=> r = Len(w.bytes)
    BY <1>2, <1>6
  <2>3. CASE r = Len(w.bytes)
    <3>1. Len(content) = r + 1 /\ at = End(w)
      BY <2>2, <2>3, <1>4
    <3>2. w.start + (r + 1) = at + 1
      BY <1>6
    <3> QED
      BY <2>1, <3>1, <3>2
  <2>4. CASE r # Len(w.bytes)
    <3>1. Len(content) = Len(w.bytes) /\ at # End(w)
      BY <2>2, <2>4, <1>4
    <3> QED
      BY <2>1, <3>1, <1>2
  <2> QED
    BY <2>3, <2>4
<1>8. Len(content) <= mCacheSize /\ End(v) <= Len(next) /\ w.start <= Len(next)
      /\ (Len(content) = mCacheSize \/ End(v) = Len(next))
  BY SMTT(30), <1>1, <1>2, <1>3, <1>4, <1>7, <1>6
<1>9. ASSUME NEW i \in 1 .. Len(content) PROVE content[i] = next[w.start + i]
  <2>1. CASE i = r + 1
    <3>1. w.start + i = at + 1
      BY <2>1, <1>6
    <3> QED
      BY <2>1, <3>1, <1>1, <1>4
  <2>2. CASE i # r + 1
    <3>1. i \in 1 .. Len(w.bytes)
      BY <2>2, <1>1, <1>2, <1>4, <1>6
    <3>2. i \in Nat /\ i >= 1 /\ i <= Len(w.bytes)
      BY <3>1, <1>2
    <3>3. w.start + i \in 1 .. Len(str)
      BY SMTT(30), <3>2, <1>1, <1>2
    <3>4. w.start + i # at + 1
      BY <2>2, <3>2, <1>2, <1>6
    <3> QED
      BY <2>2, <3>1, <3>3, <3>4, <1>1, <1>2, <1>4
  <2> QED
    BY <2>1, <2>2
<1>10. Shows(v, next)
  BY <1>2, <1>5, <1>8, <1>9 DEF Shows
<1>11. ASSUME NEW p \in Nat PROVE Has(v, p) <=> Has(w, p) \/ p = at
  BY <1>1, <1>2, <1>3, <1>5, <1>7 DEF Has
<1>12. IsPut(v, w, at)
  <2>1. v.start = w.start /\ v.dirty
    BY <1>5
  <2> QED
    BY <2>1, <1>11 DEF IsPut
<1> QED
  BY <1>10, <1>12 DEF v

LEMMA PutStart ==
    ASSUME NEW v, NEW w, NEW at, IsPut(v, w, at)
    PROVE  v.start = w.start
  BY DEF IsPut

LEMMA PastShows ==
    ASSUME NEW w, NEW str, NEW next, NEW at, NEW byte,
           Stored(str, next, at, byte), Shows(w, str), ~Takes(w, at)
    PROVE  Shows(w, next)
<1>1. /\ str \in Seq(Values) /\ next \in Seq(Values) /\ Len(str) \in Nat
      /\ at \in Nat /\ at <= Len(str)
      /\ Len(next) = IF at = Len(str) THEN at + 1 ELSE Len(str)
      /\ \A i \in 1 .. Len(str) : i # at + 1 => next[i] = str[i]
  BY LenProperties DEF Stored
<1>2. /\ w \in Windows /\ w.start \in Nat /\ w.bytes \in Seq(Values) /\ mCacheSize \in Nat \ {0}
      /\ Len(w.bytes) \in Nat /\ End(w) \in Nat /\ End(w) = w.start + Len(w.bytes)
      /\ w.start % mCacheSize = 0 /\ w.start <= Len(str)
      /\ Len(w.bytes) <= mCacheSize /\ End(w) <= Len(str)
      /\ Len(w.bytes) = mCacheSize \/ End(w) = Len(str)
      /\ \A i \in 1 .. Len(w.bytes) : w.bytes[i] = str[w.start + i]
  BY <1>1, ShowsParts
<1>3. ~(w.start <= at /\ at < w.start + mCacheSize)
  BY DEF Takes
<1>4. /\ w.start <= Len(next) /\ End(w) <= Len(next)
      /\ Len(w.bytes) = mCacheSize \/ End(w) = Len(next)
  BY <1>1, <1>2, <1>3
<1>5. ASSUME NEW i \in 1 .. Len(w.bytes) PROVE w.bytes[i] = next[w.start + i]
  <2>1. w.start + i \in 1 .. Len(str) /\ w.start + i # at + 1
    BY SMTT(30), <1>1, <1>2, <1>3
  <2> QED
    BY <2>1, <1>1, <1>2
<1> QED
  BY <1>2, <1>4, <1>5 DEF Shows

-----------------------------------------------------------------------------
(* Windows over a file. *)

LEMMA ContentsIs ==
    ASSUME NEW f, NEW str, FileIs(f, str)
    PROVE  Contents(f) = str
<1>1. /\ str \in Seq(Values) /\ Len(str) = File!Size(f)
      /\ \A i \in 1 .. Len(str) : str[i] = ByteAt(f, i - 1)
  BY DEF FileIs
<1>2. str = [i \in 1 .. Len(str) |-> str[i]]
  BY <1>1, LenProperties
<1> QED
  BY <1>1, <1>2 DEF Contents

\* Units of bytes are a string.
LEMMA FilledIs ==
    ASSUME NEW f, Filled(f)
    PROVE  FileIs(f, Contents(f))
<1> DEFINE str == Contents(f)
           n   == File!Size(f)
<1>1. n \in Nat
  BY SizeOf
<1>2. ASSUME NEW i \in 1 .. n PROVE ByteAt(f, i - 1) \in Values
  <2> DEFINE a == Unit(i - 1)
             b == Position(i - 1)
  <2>1. i - 1 \in Nat /\ i - 1 < n
    BY <1>1
  <2>2. a \in Nat /\ b \in Nat /\ a + 1 <= Len(f) /\ b < Len(f[a + 1])
    BY <2>1, UnitOf, Inside
  <2>3. ByteAt(f, i - 1) = f[a + 1][b + 1]
    BY DEF ByteAt, Unit, Position
  <2> HIDE DEF a, b
  <2>4. a + 1 \in 1 .. Len(f) /\ Len(f) \in Nat
    BY <2>2, FilledParts
  <2>5. f[a + 1] \in Seq(Values) /\ Len(f[a + 1]) \in Nat
    BY <2>4, FilledParts
  <2>6. b + 1 \in 1 .. Len(f[a + 1])
    BY <2>2, <2>5
  <2> QED
    BY <2>3, <2>5, <2>6, ElementOfSeq
<1>3. str \in [1 .. n -> Values]
  BY <1>2 DEF Contents
<1>4. str \in Seq(Values) /\ Len(str) = n
  <2> HIDE DEF n, str
  <2>1. str \in Seq(Values)
    BY <1>1, <1>3, SeqDef
  <2> QED
    BY <1>1, <1>3, <2>1, LenProperties
<1>5. \A i \in 1 .. n : str[i] = ByteAt(f, i - 1)
  BY DEF Contents
<1> QED
  BY <1>4, <1>5 DEF FileIs

LEMMA WrittenIs ==
    ASSUME NEW f, NEW str, FileIs(f, str), NEW all \in Seq(Values), NEW w, Shows(w, all),
           w.start <= Len(str), Len(str) <= Len(all)
    PROVE  \E next :
            /\ FileIs(Written(f, w), next) /\ Len(str) <= Len(next) /\ Len(next) <= Len(all)
            /\ \A p \in Nat : p < Len(all) =>
                /\ Changed(w, p) => p < Len(next) /\ next[p + 1] = all[p + 1]
                /\ ~Changed(w, p) /\ p < Len(str) => p < Len(next) /\ next[p + 1] = str[p + 1]
<1>1. /\ w \in Windows /\ Len(all) \in Nat /\ w.start \in Nat /\ w.bytes \in Seq(Values)
      /\ w.dirty \in BOOLEAN /\ Len(w.bytes) \in Nat
      /\ End(w) = w.start + Len(w.bytes) /\ End(w) <= Len(all)
      /\ \A i \in 1 .. Len(w.bytes) : w.bytes[i] = all[w.start + i]
  BY ShowsParts
<1>2. str \in Seq(Values) /\ Len(str) \in Nat
  BY LenProperties DEF FileIs
<1>3. CASE ~w.dirty
  <2>1. Written(f, w) = f /\ \A p \in Nat : ~Changed(w, p)
    BY <1>3 DEF Written, Changed
  <2> QED
    BY <2>1, <1>2
<1>4. CASE w.dirty
  <2> DEFINE n    == Len(w.bytes)
             next == Over(str, w.start, w.bytes, n)
  <2>1. w.start \in 0 .. Len(str) /\ n \in 0 .. Len(w.bytes)
    BY <1>1, <1>2
  <2>2. FileIs(Written(f, w), next)
    <3>1. FileIs(File!Write(f, w.start, w.bytes), next)
      BY <2>1, <1>1, FileWriteIs
    <3> QED
      BY <3>1, <1>4 DEF Written
  <2> HIDE DEF n
  <2>3. /\ Len(next) = OverLen(str, w.start, n)
        /\ \A i \in 1 .. OverLen(str, w.start, n) :
            next[i] = IF w.start < i /\ i <= w.start + n THEN w.bytes[i - w.start] ELSE str[i]
    BY <2>1, <1>1, <1>2, OverTyped
  <2> HIDE DEF next
  <2>4. Len(str) <= Len(next) /\ Len(next) <= Len(all) /\ Len(next) \in Nat /\ w.start + n <= Len(next)
    BY <2>3, <1>1, <1>2 DEF OverLen, n
  <2>5. ASSUME NEW p \in Nat, p < Len(all)
        PROVE  /\ Changed(w, p) => p < Len(next) /\ next[p + 1] = all[p + 1]
               /\ ~Changed(w, p) /\ p < Len(str) => p < Len(next) /\ next[p + 1] = str[p + 1]
    <3>1. Changed(w, p) <=> w.start <= p /\ p < w.start + n
      BY <1>1, <1>4 DEF Changed, Has, n
    <3>2. CASE w.start <= p /\ p < w.start + n
      <4> DEFINE i == p + 1
      <4>1. i \in Nat /\ 1 <= i /\ w.start < i /\ i <= w.start + n
        <5>1. n \in Nat /\ w.start \in Nat
          BY <1>1 DEF n
        <5> QED
          BY <5>1, <3>2
      <4>2. w.start + n <= Len(next) /\ Len(next) = OverLen(str, w.start, n) /\ Len(next) \in Nat
        BY <2>3, <2>4
      <4>3. w.start + n \in Nat
        BY <1>1 DEF n
      <4>4. p < Len(next) /\ i \in 1 .. OverLen(str, w.start, n)
        BY <4>1, <4>2, <4>3
      <4> HIDE DEF i
      <4>5. next[i] = w.bytes[i - w.start]
        BY <4>1, <4>4, <2>3
      <4>6. i - w.start \in 1 .. Len(w.bytes) /\ w.start + (i - w.start) = i
        BY <4>1, <1>1 DEF n
      <4>7. next[i] = all[i]
        BY <4>5, <4>6, <1>1
      <4> QED
        BY <3>1, <3>2, <4>4, <4>7 DEF i
    <3>3. CASE ~(w.start <= p /\ p < w.start + n)
      <4>1. ASSUME p < Len(str) PROVE p < Len(next) /\ next[p + 1] = str[p + 1]
        <5>1. /\ p + 1 \in 1 .. OverLen(str, w.start, n) /\ p < Len(next)
              /\ ~(w.start < p + 1 /\ p + 1 <= w.start + n)
          BY <4>1, <3>3, <2>3, <2>4, <1>1, <1>2 DEF n
        <5> QED
          BY <5>1, <2>3
      <4> QED
        BY <3>1, <3>3, <4>1
    <3> QED
      BY <3>2, <3>3
  <2> QED
    BY <2>2, <2>4, <2>5
<1> QED
  BY <1>1, <1>3, <1>4

LEMMA LesserIs ==
    ASSUME NEW a \in Nat, NEW b \in Nat
    PROVE  Min({a, b}) = IF a <= b THEN a ELSE b
<1> DEFINE m == IF a <= b THEN a ELSE b
<1>1. m \in {a, b} /\ \A y \in {a, b} : m <= y
  OBVIOUS
<1>2. \A x \in {a, b} : (\A y \in {a, b} : x <= y) => x = m
  OBVIOUS
<1> QED
  BY <1>1, <1>2 DEF Min

\* The string str has all there is at the place of a window.
Current(str, all, start) ==
    \A p \in Nat : (start <= p /\ p < start + mCacheSize /\ p < Len(all))
                    => p < Len(str) /\ str[p + 1] = all[p + 1]

LEMMA LoadedIs ==
    ASSUME NEW f, NEW str, FileIs(f, str), NEW all \in Seq(Values), Len(str) <= Len(all),
           NEW start \in Nat, start % mCacheSize = 0, start <= Len(str), Current(str, all, start)
    PROVE  /\ Shows(Loaded(f, start), all)
           /\ Loaded(f, start).start = start /\ Loaded(f, start).dirty = FALSE
<1>1. /\ str \in Seq(Values) /\ Len(str) \in Nat /\ Len(str) = File!Size(f)
      /\ Len(all) \in Nat /\ mCacheSize \in Nat \ {0}
  BY LenProperties, Sizes DEF FileIs
<1> DEFINE rest == Len(str) - start
           size == IF mCacheSize <= rest THEN mCacheSize ELSE rest
           content == SubSeq(str, start + 1, start + size)
<1>2. rest \in Nat /\ size \in Nat /\ start + size <= Len(str) /\ (start + size) - start = size
  BY <1>1
<1>3. Min({mCacheSize, File!Size(f) - start}) = size
  <2> HIDE DEF rest
  <2>1. Min({mCacheSize, rest}) = size
    BY <1>1, <1>2, LesserIs
  <2> QED
    BY <2>1, <1>1 DEF rest
<1>4. Loaded(f, start) = Window(start, File!Read(f, start, size), FALSE)
  BY <1>1, <1>3 DEF Loaded
<1>5. size <= mCacheSize /\ (size = mCacheSize \/ start + size = Len(str))
  BY <1>1
<1> HIDE DEF size
<1>6. File!Read(f, start, size) = content
  <2> DEFINE e == start + size
  <2>1. e \in Nat /\ start <= e /\ e <= Len(str) /\ e - start = size
    BY <1>2
  <2> HIDE DEF e
  <2>2. File!Read(f, start, e - start) = SubSeq(str, start + 1, e)
    BY <2>1, FileReadIs
  <2> QED
    BY <2>1, <2>2 DEF e
<1>7. /\ content \in Seq(Values) /\ Len(content) = size
      /\ \A i \in 1 .. size : content[i] = str[start + i]
  <2> DEFINE e == start + size
  <2>1. e \in Nat /\ start <= e /\ e <= Len(str) /\ e - start = size
    BY <1>2
  <2> HIDE DEF e
  <2>2. /\ SubSeq(str, start + 1, e) \in Seq(Values)
        /\ Len(SubSeq(str, start + 1, e)) = e - start
        /\ \A i \in 1 .. e - start : SubSeq(str, start + 1, e)[i] = str[start + i]
    BY SMTT(30), <2>1, <1>1, PartIs
  <2> QED
    BY <2>1, <2>2 DEF e
<1> HIDE DEF content
<1> DEFINE w == Loaded(f, start)
<1>8. w \in Windows /\ w.start = start /\ w.bytes = content /\ w.dirty = FALSE
  <2>1. w = Window(start, content, FALSE) /\ FALSE \in BOOLEAN
    BY <1>4, <1>6
  <2>2. content \in Seq(Values)
    BY <1>7
  <2> HIDE DEF w
  <2> QED
    BY <2>1, <2>2, WindowIs
<1> HIDE DEF w, rest
<1>9. End(w) = start + size
  BY <1>7, <1>8 DEF End
<1>10. size = mCacheSize \/ start + size = Len(all)
  <2>1. CASE size = mCacheSize
    BY <2>1
  <2>2. CASE size # mCacheSize
    <3>1. start + size = Len(str) /\ start <= Len(str) /\ Len(str) < start + mCacheSize
      BY <2>2, <1>1, <1>2, <1>5
    <3>2. ~(Len(str) < Len(all))
      BY <3>1, <1>1 DEF Current
    <3> QED
      BY <3>1, <3>2, <1>1
  <2> QED
    BY <2>1, <2>2
<1>11. ASSUME NEW i \in 1 .. size PROVE content[i] = all[start + i]
  <2>1. start + i - 1 \in Nat /\ (start + i - 1) + 1 = start + i
    BY <1>2
  <2>2. start <= start + i - 1 /\ start + i - 1 < start + mCacheSize /\ start + i - 1 < Len(all)
    BY <1>1, <1>2, <1>5
  <2>3. str[(start + i - 1) + 1] = all[(start + i - 1) + 1]
    BY <2>1, <2>2 DEF Current
  <2> QED
    BY <2>1, <2>3, <1>7
<1>12. Shows(w, all)
  BY <1>1, <1>2, <1>5, <1>7, <1>8, <1>9, <1>10, <1>11 DEF Shows
<1> QED
  BY <1>8, <1>12 DEF w

-----------------------------------------------------------------------------
(* Moving the windows. *)

EitherBacked(v1, v2, str, all) == Backed(v1, v2, str, all) \/ Backed(v2, v1, str, all)

\* At the end of the file the window that stays is written as well.
Settled(once, start, other, written, stays) ==
    IF start >= File!Size(once)
    THEN written = Written(once, other) /\ stays = Cleaned(other)
    ELSE written = once /\ stays = other

\* The window victim is moved to start; other is the other window.
LEMMA MoveFacts ==
    ASSUME NEW all \in Seq(Values), NEW f, NEW str, FileIs(f, str),
           NEW victim, NEW other, Shows(victim, all), Shows(other, all),
           EitherBacked(victim, other, str, all),
           NEW start \in Nat, start % mCacheSize = 0, start <= Len(all), start # other.start,
           NEW once, once = Written(f, victim),
           NEW written, NEW stays, Settled(once, start, other, written, stays)
    PROVE  \E next :
            /\ FileIs(written, next) /\ Len(next) > 0
            /\ Shows(Loaded(written, start), all) /\ Loaded(written, start).start = start
            /\ Shows(stays, all) /\ stays.start = other.start
            /\ Backed(Loaded(written, start), stays, next, all)
            /\ Backed(stays, Loaded(written, start), next, all)
<1>1. /\ str \in Seq(Values) /\ Len(str) \in Nat /\ Len(all) \in Nat /\ mCacheSize \in Nat \ {0}
      /\ Len(str) <= Len(all) /\ victim.start <= Len(str) /\ other.start <= Len(str)
      /\ victim.start \in Nat /\ other.start \in Nat /\ other.start % mCacheSize = 0
      /\ \A p \in 0 .. Len(all) - 1 :
            Changed(victim, p) \/ Changed(other, p) \/ (p < Len(str) /\ str[p + 1] = all[p + 1])
  BY LenProperties, ShowsParts, Sizes DEF FileIs, Backed, EitherBacked
<1>2. PICK mid :
        /\ FileIs(once, mid) /\ Len(str) <= Len(mid) /\ Len(mid) <= Len(all)
        /\ \A p \in Nat : p < Len(all) =>
            /\ Changed(victim, p) => p < Len(mid) /\ mid[p + 1] = all[p + 1]
            /\ ~Changed(victim, p) /\ p < Len(str) => p < Len(mid) /\ mid[p + 1] = str[p + 1]
  BY <1>1, WrittenIs
<1>3. mid \in Seq(Values) /\ Len(mid) \in Nat /\ Len(mid) = File!Size(once) /\ other.start <= Len(mid)
  <2>1. mid \in Seq(Values) /\ Len(mid) \in Nat /\ Len(mid) = File!Size(once)
    BY <1>2, LenProperties DEF FileIs
  <2> QED
    BY <2>1, <1>1, <1>2
<1>4. ASSUME NEW p \in Nat, p < Len(all), ~Changed(other, p)
      PROVE  p < Len(mid) /\ mid[p + 1] = all[p + 1]
  <2>1. p \in 0 .. Len(all) - 1
    BY <1>1, <1>4
  <2> QED
    BY <2>1, <1>1, <1>2, <1>4
<1>5. CASE start >= File!Size(once)
  <2>1. written = Written(once, other) /\ stays = Cleaned(other)
    BY <1>5 DEF Settled
  <2>2. PICK next :
          /\ FileIs(written, next) /\ Len(mid) <= Len(next) /\ Len(next) <= Len(all)
          /\ \A p \in Nat : p < Len(all) =>
              /\ Changed(other, p) => p < Len(next) /\ next[p + 1] = all[p + 1]
              /\ ~Changed(other, p) /\ p < Len(mid) => p < Len(next) /\ next[p + 1] = mid[p + 1]
    BY <2>1, <1>2, <1>3, WrittenIs, SMTT(30)
  <2>3. \A p \in Nat : p < Len(all) => p < Len(next) /\ next[p + 1] = all[p + 1]
    BY <2>2, <1>4
  <2>4. next \in Seq(Values) /\ Len(next) \in Nat
    BY <2>2, LenProperties DEF FileIs
  <2>5. Len(next) = Len(all)
    <3>1. CASE Len(all) = 0
      BY <3>1, <2>2, <2>4
    <3>2. CASE Len(all) # 0
      <4>1. Len(all) - 1 \in Nat /\ Len(all) - 1 < Len(all)
        BY <3>2, <1>1
      <4>2. Len(all) - 1 < Len(next)
        BY <4>1, <2>3
      <4> QED
        BY <4>2, <2>2, <2>4, <1>1
    <3> QED
      BY <3>1, <3>2
  <2> DEFINE loaded == Loaded(written, start)
  <2>6. Shows(loaded, all) /\ loaded.start = start
    <3>1. Current(next, all, start)
      BY <2>3 DEF Current
    <3>2. Len(next) <= Len(all) /\ start <= Len(next)
      BY <2>2, <2>5
    <3> QED
      BY <3>1, <3>2, <2>2, LoadedIs
  <2>7. Shows(stays, all) /\ stays.start = other.start
    BY <2>1, CleanedShows
  <2> HIDE DEF loaded
  <2>8. Len(next) > 0
    BY <2>4, <2>5, <1>1
  <2>9. Backed(loaded, stays, next, all) /\ Backed(stays, loaded, next, all)
    <3>1. ASSUME NEW p \in 0 .. Len(all) - 1 PROVE p < Len(next) /\ next[p + 1] = all[p + 1]
      <4>1. p \in Nat /\ p < Len(all)
        BY <1>1
      <4> QED
        BY <4>1, <2>3
    <3>2. Len(next) <= Len(all) /\ loaded.start <= Len(next) /\ stays.start <= Len(next)
      BY <2>2, <2>5, <2>6, <2>7, <1>1
    <3> QED
      BY <3>1, <3>2 DEF Backed
  <2> QED
    BY <2>2, <2>6, <2>7, <2>8, <2>9 DEF loaded
<1>6. CASE ~(start >= File!Size(once))
  <2>1. written = once /\ stays = other /\ start < Len(mid)
    BY <1>1, <1>3, <1>6 DEF Settled
  <2>2. ASSUME NEW p \in Nat, start <= p, p < start + mCacheSize, p < Len(all)
        PROVE  p < Len(mid) /\ mid[p + 1] = all[p + 1]
    <3>1. ~Changed(other, p)
      <4>1. start + mCacheSize <= other.start \/ other.start + mCacheSize <= start
        BY <1>1, Apart
      <4>2. ~Takes(other, p)
        BY <4>1, <2>2, <1>1 DEF Takes
      <4> QED
        BY <4>2, ShowsAt DEF Changed
    <3> QED
      BY <3>1, <2>2, <1>4
  <2> DEFINE loaded == Loaded(written, start)
  <2>3. Shows(loaded, all) /\ loaded.start = start
    <3>1. Current(mid, all, start)
      BY <2>2 DEF Current
    <3>2. FileIs(written, mid) /\ Len(mid) <= Len(all) /\ start <= Len(mid)
      BY <2>1, <1>2, <1>3
    <3> QED
      BY <3>1, <3>2, LoadedIs
  <2> HIDE DEF loaded
  <2>4. Backed(loaded, stays, mid, all) /\ Backed(stays, loaded, mid, all)
    <3>1. ASSUME NEW p \in 0 .. Len(all) - 1
          PROVE  Changed(stays, p) \/ (p < Len(mid) /\ mid[p + 1] = all[p + 1])
      BY <1>1, <1>4, <2>1
    <3>2. Len(mid) <= Len(all) /\ loaded.start <= Len(mid) /\ stays.start <= Len(mid)
      BY <2>1, <2>3, <1>1, <1>2, <1>3
    <3> QED
      BY <3>1, <3>2 DEF Backed
  <2>5. Len(mid) > 0
    BY <2>1, <1>3
  <2> QED
    BY <2>1, <2>3, <2>4, <2>5, <1>2 DEF loaded
<1> QED
  BY <1>5, <1>6

LEMMA NotNoFile ==
    ASSUME NEW f, NEW str, FileIs(f, str), Len(str) > 0
    PROVE  f # NoFile
<1> SUFFICES ASSUME f = <<>> PROVE FALSE
  BY DEF NoFile
<1>1. Filled(<<>>) /\ Len(str) = File!Size(<<>>)
  BY DEF FileIs
<1> QED
  BY <1>1, SizeOf

\* What is a container that holds a string.
LEMMA HoldsOverFile ==
    ASSUME NEW all \in Seq(Values), NEW v1, NEW v2, NEW f, NEW str, NEW first \in BOOLEAN,
           Shows(v1, all), Shows(v2, all), v1.start # v2.start,
           FileIs(f, str), f # NoFile, Backed(v1, v2, str, all)
    PROVE  Holds([w1 |-> v1, w2 |-> v2, file |-> f, first |-> first], all)
<1> DEFINE c == [w1 |-> v1, w2 |-> v2, file |-> f, first |-> first]
<1>1. c.w1 = v1 /\ c.w2 = v2 /\ c.file = f /\ c.first = first
  OBVIOUS
<1>2. c = [w1 |-> c.w1, w2 |-> c.w2, file |-> c.file, first |-> c.first]
  OBVIOUS
<1>3. v2 # NoWindow /\ Filled(f) /\ Contents(f) = str
  BY ShowsParts, ContentsIs DEF FileIs
<1> HIDE DEF c
<1>4. Holds(c, all)
  BY <1>1, <1>2, <1>3 DEF Holds
<1> QED
  BY <1>4 DEF c

LEMMA HoldsInWindows ==
    ASSUME NEW all \in Seq(Values), NEW v1, NEW v2, NEW first \in BOOLEAN,
           Shows(v1, all), v1.start = 0,
           \/ v2 = NoWindow /\ Len(all) <= mCacheSize
           \/ Shows(v2, all) /\ v2.start = mCacheSize /\ Len(all) <= 2 * mCacheSize
    PROVE  Holds([w1 |-> v1, w2 |-> v2, file |-> NoFile, first |-> first], all)
<1> DEFINE c == [w1 |-> v1, w2 |-> v2, file |-> NoFile, first |-> first]
<1>1. c.w1 = v1 /\ c.w2 = v2 /\ c.file = NoFile /\ c.first = first
  OBVIOUS
<1>2. c = [w1 |-> c.w1, w2 |-> c.w2, file |-> c.file, first |-> c.first]
  OBVIOUS
<1>3. v2 = NoWindow \/ (v2 # NoWindow /\ Shows(v2, all) /\ v2.start = mCacheSize /\ v2.start # v1.start
                         /\ Len(all) <= 2 * mCacheSize)
  BY ShowsParts, Sizes
<1> HIDE DEF c
<1>4. v2 = NoWindow => Len(all) <= mCacheSize
  BY ShowsParts
<1>5. Holds(c, all)
  BY <1>1, <1>2, <1>3, <1>4 DEF Holds
<1> QED
  BY <1>5 DEF c

LEMMA MovedIs ==
    ASSUME NEW c, NEW all, Holds(c, all), c.file # NoFile,
           NEW start \in Nat, start % mCacheSize = 0, start <= Len(all),
           start # c.w1.start, start # c.w2.start
    PROVE  /\ Holds(Moved(c, start), all) /\ Moved(c, start).w2 # NoWindow
           /\ Moved(c, start).w1.start = start \/ Moved(c, start).w2.start = start
<1>1. /\ all \in Seq(Values) /\ c.first \in BOOLEAN /\ c.w2 # NoWindow
      /\ Shows(c.w1, all) /\ Shows(c.w2, all)
      /\ FileIs(c.file, Contents(c.file)) /\ Backed(c.w1, c.w2, Contents(c.file), all)
  BY FilledIs DEF Holds
<1> DEFINE victim  == IF c.first THEN c.w2 ELSE c.w1
           other   == IF c.first THEN c.w1 ELSE c.w2
           once    == Written(c.file, victim)
           atEnd   == start >= File!Size(once)
           written == IF atEnd THEN Written(once, other) ELSE once
           stays   == IF atEnd THEN Cleaned(other) ELSE other
           loaded  == Loaded(written, start)
<1>2. Moved(c, start) = [w1 |-> IF c.first THEN stays ELSE loaded,
                         w2 |-> IF c.first THEN loaded ELSE stays,
                         file |-> written, first |-> ~c.first]
  BY DEF Moved
<1>3. /\ Shows(victim, all) /\ Shows(other, all) /\ start # other.start
      /\ EitherBacked(victim, other, Contents(c.file), all)
  BY <1>1 DEF EitherBacked
<1>4. Settled(once, start, other, written, stays)
  BY DEF Settled
<1>5. once = Written(c.file, victim)
  OBVIOUS
<1> HIDE DEF victim, other, once, atEnd, written, stays
<1>6. PICK next :
        /\ FileIs(written, next) /\ Len(next) > 0
        /\ Shows(loaded, all) /\ loaded.start = start
        /\ Shows(stays, all) /\ stays.start = other.start
        /\ Backed(loaded, stays, next, all) /\ Backed(stays, loaded, next, all)
  BY <1>1, <1>3, <1>4, <1>5, MoveFacts
<1> HIDE DEF loaded
<1>7. written # NoFile /\ loaded.start # stays.start /\ loaded # NoWindow /\ stays # NoWindow
  BY <1>1, <1>3, <1>6, NotNoFile, ShowsParts
<1>8. CASE c.first
  <2>1. Moved(c, start) = [w1 |-> stays, w2 |-> loaded, file |-> written, first |-> FALSE]
    BY <1>2, <1>8
  <2>2. Holds([w1 |-> stays, w2 |-> loaded, file |-> written, first |-> FALSE], all)
    <3>1. FALSE \in BOOLEAN
      OBVIOUS
    <3> QED
      BY <3>1, <1>1, <1>6, <1>7, HoldsOverFile
  <2>3. Moved(c, start).w2 = loaded
    BY <2>1
  <2> QED
    BY <2>1, <2>2, <2>3, <1>6, <1>7
<1>9. CASE ~c.first
  <2>1. Moved(c, start) = [w1 |-> loaded, w2 |-> stays, file |-> written, first |-> TRUE]
    BY <1>2, <1>9
  <2>2. Holds([w1 |-> loaded, w2 |-> stays, file |-> written, first |-> TRUE], all)
    <3>1. TRUE \in BOOLEAN
      OBVIOUS
    <3> QED
      BY <3>1, <1>1, <1>6, <1>7, HoldsOverFile
  <2>3. Moved(c, start).w1 = loaded /\ Moved(c, start).w2 = stays
    BY <2>1
  <2> QED
    BY <2>1, <2>2, <2>3, <1>6, <1>7
<1> QED
  BY <1>8, <1>9

LEMMA SecondWindow ==
    ASSUME NEW c, c = [w1 |-> c.w1, w2 |-> c.w2, file |-> c.file, first |-> c.first],
           NEW new, NEW first
    PROVE  [c EXCEPT !.w2 = new, !.first = first]
            = [w1 |-> c.w1, w2 |-> new, file |-> c.file, first |-> first]
<1> DEFINE a == [c EXCEPT !.w2 = new, !.first = first]
           b == [w1 |-> c.w1, w2 |-> new, file |-> c.file, first |-> first]
<1>1. DOMAIN c = {"w1", "w2", "file", "first"} /\ DOMAIN a = DOMAIN c
  OBVIOUS
<1>2. a.w1 = c.w1 /\ a.w2 = new /\ a.file = c.file /\ a.first = first
  BY <1>1
<1>3. a = [x \in DOMAIN c |-> a[x]]
  OBVIOUS
<1>4. b = [x \in {"w1", "w2", "file", "first"} |-> b[x]]
  OBVIOUS
<1>5. b.w1 = c.w1 /\ b.w2 = new /\ b.file = c.file /\ b.first = first
  OBVIOUS
<1> HIDE DEF a, b
<1> QED
  BY <1>1, <1>2, <1>3, <1>4, <1>5

\* Some window may take the byte at a place.
Taken(c, at) == Takes(c.w1, at) \/ (c.w2 # NoWindow /\ Takes(c.w2, at))

LEMMA FillCacheIs ==
    ASSUME NEW c, NEW all, Holds(c, all), NEW at \in Nat, at <= Len(all), ~Taken(c, at)
    PROVE  Holds(FillCache(c, at), all) /\ Taken(FillCache(c, at), at)
<1> DEFINE start == at - (at % mCacheSize)
           d == FillCache(c, at)
<1>1. /\ start \in Nat /\ start % mCacheSize = 0 /\ start <= at /\ at < start + mCacheSize
      /\ mCacheSize \in Nat \ {0}
  BY StartOf, Sizes
<1> HIDE DEF start
<1>2. /\ c = [w1 |-> c.w1, w2 |-> c.w2, file |-> c.file, first |-> c.first]
      /\ all \in Seq(Values) /\ Len(all) \in Nat /\ Shows(c.w1, all)
      /\ c.w2 # NoWindow => Shows(c.w2, all) /\ c.w2.start # c.w1.start
  BY LenProperties DEF Holds
<1>3. c.w1.start # start /\ ~(c.w2 # NoWindow /\ c.w2.start = start)
  BY <1>1 DEF Taken, Takes
<1>4. \A w : w.start = start => Takes(w, at)
  BY <1>1 DEF Takes
<1>5. CASE c.file # NoFile
  <2>1. c.w2 # NoWindow /\ ~(c.w2 = NoWindow /\ start = mCacheSize)
    BY <1>5 DEF Holds
  <2>2. d = Moved(c, start)
    BY <1>3, <1>5, <2>1 DEF FillCache, start
  <2>3. Holds(d, all) /\ d.w2 # NoWindow /\ (d.w1.start = start \/ d.w2.start = start)
    <3>1. start <= Len(all)
      BY <1>1, <1>2
    <3>2. start # c.w1.start /\ start # c.w2.start
      BY <2>1, <1>3
    <3>3. /\ Holds(Moved(c, start), all) /\ Moved(c, start).w2 # NoWindow
          /\ Moved(c, start).w1.start = start \/ Moved(c, start).w2.start = start
      BY <3>1, <3>2, <1>1, <1>5, MovedIs
    <3> HIDE DEF d
    <3> QED
      BY <3>3, <2>2
  <2> HIDE DEF d
  <2> QED
    BY <2>3, <1>4 DEF Taken, d
<1>6. CASE c.file = NoFile /\ c.w2 = NoWindow
  <2>1. c.w1.start = 0 /\ Len(all) <= mCacheSize
    BY <1>6 DEF Holds
  <2>2. at = mCacheSize /\ Len(all) = mCacheSize
    <3>1. ~(0 <= at /\ at < 0 + mCacheSize)
      BY <2>1 DEF Taken, Takes
    <3> QED
      BY <3>1, <2>1, <1>1, <1>2
  <2>3. start = mCacheSize
    BY <2>2, FirstStarts, Sizes DEF start
  <2> DEFINE new == Window(start, <<>>, FALSE)
  <2>4. d = [w1 |-> c.w1, w2 |-> new, file |-> NoFile, first |-> FALSE]
    <3>1. d = [c EXCEPT !.w2 = new, !.first = FALSE]
      BY <1>3, <1>6, <2>3 DEF FillCache, start
    <3> HIDE DEF d, new
    <3> QED
      BY <3>1, <1>2, <1>6, SecondWindow
  <2>5. /\ new \in Windows /\ new.start = start /\ new.bytes = <<>> /\ new.dirty = FALSE /\ Len(<<>>) = 0
    <3>1. <<>> \in Seq(Values) /\ FALSE \in BOOLEAN /\ Len(<<>>) = 0
      BY EmptySeq
    <3> QED
      BY <3>1, <1>1, WindowIs
  <2> HIDE DEF new, d
  <2>6. End(new) = mCacheSize
    BY <2>3, <2>5, <1>1 DEF End
  <2>7. Shows(new, all)
    BY <2>2, <2>3, <2>5, <2>6, <1>1 DEF Shows
  <2>8. Holds(d, all)
    <3>1. FALSE \in BOOLEAN /\ Len(all) <= 2 * mCacheSize
      BY <2>2, <1>1
    <3> QED
      BY <3>1, <2>1, <2>3, <2>4, <2>5, <2>7, <1>2, HoldsInWindows
  <2>9. d.w2 = new /\ new # NoWindow /\ Takes(new, at)
    BY <2>4, <2>5, <1>4, IsAWindow
  <2> QED
    BY <2>8, <2>9 DEF Taken, d
<1>7. CASE c.file = NoFile /\ c.w2 # NoWindow
  <2>1. /\ c.w1.start = 0 /\ c.w2.start = mCacheSize /\ Len(all) <= 2 * mCacheSize
        /\ Shows(c.w1, all) /\ Shows(c.w2, all)
    BY <1>7 DEF Holds
  <2>2. at = 2 * mCacheSize /\ Len(all) = 2 * mCacheSize
    <3>1. ~(0 <= at /\ at < 0 + mCacheSize) /\ ~(mCacheSize <= at /\ at < mCacheSize + mCacheSize)
      BY <2>1, <1>7 DEF Taken, Takes
    <3>2. mCacheSize \in Nat /\ Len(all) \in Nat /\ Len(all) <= 2 * mCacheSize
      BY <2>1, <1>1, <1>2
    <3> QED
      BY <3>1, <3>2
  <2>3. start = 2 * mCacheSize
    <3>1. 0 \in 0 .. mCacheSize - 1 /\ 2 * mCacheSize + 0 = 2 * mCacheSize
      BY <1>1
    <3>2. (2 * mCacheSize + 0) % mCacheSize = 0
      BY <3>1, Sizes, PlaceIs
    <3>3. at % mCacheSize = 0
      BY <3>1, <3>2, <2>2
    <3> QED
      BY <3>3, <2>2, <1>1 DEF start
  <2> DEFINE new == Window(start, <<>>, FALSE)
             b1  == c.w1.bytes
             b2  == c.w2.bytes
             f   == File!Write(File!Write(<<>>, 0, b1), mCacheSize, b2)
  <2>4. d = [w1 |-> new, w2 |-> Cleaned(c.w2), file |-> f, first |-> TRUE]
    BY <1>3, <1>7 DEF FillCache, start
  <2>5. /\ new \in Windows /\ new.start = start /\ new.bytes = <<>> /\ new.dirty = FALSE /\ Len(<<>>) = 0
    <3>1. <<>> \in Seq(Values) /\ FALSE \in BOOLEAN /\ Len(<<>>) = 0
      BY EmptySeq
    <3> QED
      BY <3>1, <1>1, WindowIs
  <2> HIDE DEF new, d
  <2>6. End(new) = 2 * mCacheSize
    BY <2>3, <2>5, <1>1 DEF End
  <2>7. Shows(new, all)
    BY <2>2, <2>3, <2>5, <2>6, <1>1 DEF Shows
  <2>8. Shows(Cleaned(c.w2), all) /\ Cleaned(c.w2).start = mCacheSize
    BY <2>1, <1>2, CleanedShows
  <2>9. /\ b1 \in Seq(Values) /\ Len(b1) = mCacheSize /\ \A i \in 1 .. mCacheSize : b1[i] = all[i]
        /\ b2 \in Seq(Values) /\ Len(b2) = mCacheSize
        /\ \A i \in 1 .. mCacheSize : b2[i] = all[mCacheSize + i]
    <3>1. /\ b1 \in Seq(Values) /\ Len(b1) \in Nat /\ (Len(b1) = mCacheSize \/ 0 + Len(b1) = Len(all))
          /\ Len(b1) <= mCacheSize
          /\ \A i \in 1 .. Len(b1) : b1[i] = all[0 + i]
      BY <2>1, <1>2, ShowsParts
    <3>2. /\ b2 \in Seq(Values) /\ Len(b2) \in Nat
          /\ (Len(b2) = mCacheSize \/ mCacheSize + Len(b2) = Len(all))
          /\ \A i \in 1 .. Len(b2) : b2[i] = all[mCacheSize + i]
      BY <2>1, <1>2, ShowsParts
    <3> HIDE DEF b1, b2
    <3>3. Len(b1) = mCacheSize /\ Len(b2) = mCacheSize
      BY <3>1, <3>2, <2>2, <1>1
    <3>4. ASSUME NEW i \in 1 .. mCacheSize PROVE b1[i] = all[i]
      <4>1. 0 + i = i
        OBVIOUS
      <4> QED
        BY <4>1, <3>1, <3>3
    <3> QED
      BY <3>1, <3>2, <3>3, <3>4
  <2> HIDE DEF b1, b2
  <2> DEFINE s1 == Over(<<>>, 0, b1, Len(b1))
             s2 == Over(s1, mCacheSize, b2, Len(b2))
  <2>10. /\ FileIs(File!Write(<<>>, 0, b1), s1) /\ s1 \in Seq(Values) /\ Len(s1) = mCacheSize
         /\ \A i \in 1 .. mCacheSize : s1[i] = all[i]
    <3>1. <<>> \in Seq(Values) /\ Len(<<>>) = 0 /\ 0 \in 0 .. Len(<<>>) /\ Len(b1) \in 0 .. Len(b1)
      BY <2>9, <1>1, EmptySeq
    <3>2. FileIs(File!Write(<<>>, 0, b1), s1)
      BY <3>1, <2>9, FileEmpty, FileWriteIs
    <3>3. OverLen(<<>>, 0, Len(b1)) = mCacheSize
      BY <3>1, <2>9, <1>1 DEF OverLen
    <3>4. /\ s1 \in Seq(Values) /\ Len(s1) = OverLen(<<>>, 0, Len(b1))
      BY ZenonT(60), <3>1, <2>9, OverTyped
    <3>5. ASSUME NEW i \in 1 .. mCacheSize PROVE s1[i] = all[i]
      <4>1. i \in 1 .. OverLen(<<>>, 0, Len(b1)) /\ 0 < i /\ i <= 0 + Len(b1) /\ i - 0 = i
        BY <3>3, <2>9
      <4>2. s1[i] = b1[i - 0]
        BY <4>1 DEF Over
      <4> QED
        BY <4>1, <4>2, <2>9
    <3> QED
      BY <3>2, <3>3, <3>4, <3>5
  <2> HIDE DEF s1
  <2>11. /\ FileIs(f, s2) /\ s2 \in Seq(Values) /\ Len(s2) = 2 * mCacheSize
         /\ \A i \in 1 .. 2 * mCacheSize : s2[i] = all[i]
    <3>1. mCacheSize \in 0 .. Len(s1) /\ Len(b2) \in 0 .. Len(b2)
      BY <2>9, <2>10, <1>1
    <3>2. FileIs(f, s2)
      BY <3>1, <2>9, <2>10, FileWriteIs
    <3>3. OverLen(s1, mCacheSize, Len(b2)) = 2 * mCacheSize
      BY <2>9, <2>10, <1>1 DEF OverLen
    <3>4. /\ s2 \in Seq(Values) /\ Len(s2) = OverLen(s1, mCacheSize, Len(b2))
      BY <3>1, <2>9, <2>10, OverTyped
    <3>5. ASSUME NEW i \in 1 .. 2 * mCacheSize PROVE s2[i] = all[i]
      <4>1. /\ i \in 1 .. OverLen(s1, mCacheSize, Len(b2)) /\ i <= mCacheSize + Len(b2)
        BY <3>3, <2>9, <1>1
      <4>2. s2[i] = IF mCacheSize < i THEN b2[i - mCacheSize] ELSE s1[i]
        BY <4>1 DEF Over
      <4>3. CASE mCacheSize < i
        <5>1. i - mCacheSize \in 1 .. mCacheSize /\ mCacheSize + (i - mCacheSize) = i
          BY <4>3, <1>1
        <5> QED
          BY <5>1, <4>2, <4>3, <2>9
      <4>4. CASE ~(mCacheSize < i)
        <5>1. i \in 1 .. mCacheSize
          BY <4>4, <1>1
        <5> QED
          BY <5>1, <4>2, <4>4, <2>10
      <4> QED
        BY <4>3, <4>4
    <3> QED
      BY <3>2, <3>3, <3>4, <3>5
  <2> HIDE DEF s2, f
  <2>12. Backed(new, Cleaned(c.w2), s2, all)
    <3>1. ASSUME NEW p \in 0 .. Len(all) - 1 PROVE p < Len(s2) /\ s2[p + 1] = all[p + 1]
      <4>1. p + 1 \in 1 .. 2 * mCacheSize /\ p < 2 * mCacheSize
        BY <2>2, <1>1
      <4> QED
        BY <4>1, <2>11
    <3>2. Len(s2) <= Len(all) /\ new.start <= Len(s2) /\ Cleaned(c.w2).start <= Len(s2)
      BY <2>2, <2>3, <2>5, <2>8, <2>11, <1>1
    <3> QED
      BY <3>1, <3>2 DEF Backed
  <2>13. f # NoFile
    <3>1. Len(s2) > 0
      BY <2>11, <1>1
    <3> QED
      BY <3>1, <2>11, NotNoFile
  <2>14. Holds(d, all)
    <3>1. TRUE \in BOOLEAN /\ new.start # Cleaned(c.w2).start
      BY <2>3, <2>5, <2>8, <1>1
    <3> QED
      BY <3>1, <2>4, <2>7, <2>8, <2>11, <2>12, <2>13, <1>2, HoldsOverFile
  <2>15. d.w1 = new /\ Takes(new, at)
    BY <2>4, <2>5, <1>4
  <2> QED
    BY <2>14, <2>15 DEF Taken, d
<1> QED
  BY <1>5, <1>6, <1>7

-----------------------------------------------------------------------------
(* A container is a string. *)

LEMMA HoldsParts ==
    ASSUME NEW c, NEW all, Holds(c, all)
    PROVE  /\ c = [w1 |-> c.w1, w2 |-> c.w2, file |-> c.file, first |-> c.first]
           /\ all \in Seq(Values) /\ Len(all) \in Nat /\ mCacheSize \in Nat \ {0} /\ c.first \in BOOLEAN
           /\ Shows(c.w1, all)
           /\ c.w2 # NoWindow => Shows(c.w2, all) /\ c.w2.start # c.w1.start
           /\ c.file = NoFile =>
                /\ c.w1.start = 0
                /\ c.w2 = NoWindow => Len(all) <= mCacheSize
                /\ c.w2 # NoWindow => c.w2.start = mCacheSize /\ Len(all) <= 2 * mCacheSize
           /\ c.file # NoFile =>
                /\ c.w2 # NoWindow
                /\ FileIs(c.file, Contents(c.file)) /\ Contents(c.file) \in Seq(Values)
                /\ Len(Contents(c.file)) = File!Size(c.file) /\ Len(Contents(c.file)) \in Nat
                /\ Backed(c.w1, c.w2, Contents(c.file), all)
<1>1. c.file # NoFile => FileIs(c.file, Contents(c.file))
  BY FilledIs DEF Holds
<1>2. c.file # NoFile =>
        /\ Contents(c.file) \in Seq(Values)
        /\ Len(Contents(c.file)) = File!Size(c.file) /\ Len(Contents(c.file)) \in Nat
  BY <1>1, LenProperties DEF FileIs
<1>3. all \in Seq(Values) /\ Len(all) \in Nat /\ mCacheSize \in Nat \ {0}
  BY LenProperties, Sizes DEF Holds
<1> QED
  BY <1>1, <1>2, <1>3 DEF Holds

LEMMA SizeIs ==
    ASSUME NEW c, NEW all, Holds(c, all)
    PROVE  Size(c) = Len(all)
<1> DEFINE S == {End(c.w1), End(c.w2)} \cup (IF c.file = NoFile THEN {} ELSE {File!Size(c.file)})
           n == Len(all)
<1>1. /\ all \in Seq(Values) /\ n \in Nat /\ mCacheSize \in Nat \ {0} /\ Shows(c.w1, all)
      /\ c.w2 # NoWindow => Shows(c.w2, all) /\ c.w2.start # c.w1.start
  BY HoldsParts
<1>2. /\ c.w1.start \in Nat /\ Len(c.w1.bytes) \in Nat /\ End(c.w1) \in Nat /\ End(c.w1) <= n
      /\ End(c.w1) = c.w1.start + Len(c.w1.bytes)
      /\ (Len(c.w1.bytes) = mCacheSize \/ End(c.w1) = n)
  BY <1>1, ShowsParts
<1>3. End(c.w2) \in Nat /\ End(c.w2) <= n
  <2>1. CASE c.w2 = NoWindow
    BY <2>1, <1>1, NoWindowHas
  <2>2. CASE c.w2 # NoWindow
    BY <2>2, <1>1, ShowsParts
  <2> QED
    BY <2>1, <2>2
<1>4. \A x \in S : x \in Nat /\ x <= n
  <2>1. c.file # NoFile => File!Size(c.file) \in Nat /\ File!Size(c.file) <= n
    BY HoldsParts DEF Backed
  <2> QED
    BY <2>1, <1>2, <1>3
<1>5. n \in S
  <2>1. CASE c.file = NoFile /\ c.w2 = NoWindow
    <3>1. c.w1.start = 0 /\ n <= mCacheSize
      BY <2>1, HoldsParts
    <3>2. End(c.w1) = n
      BY <3>1, <1>1, <1>2
    <3> QED
      BY <3>2
  <2>2. CASE c.file = NoFile /\ c.w2 # NoWindow
    <3>1. c.w2.start = mCacheSize /\ n <= 2 * mCacheSize
      BY <2>2, HoldsParts
    <3>2. /\ Len(c.w2.bytes) \in Nat /\ End(c.w2) = c.w2.start + Len(c.w2.bytes)
          /\ (Len(c.w2.bytes) = mCacheSize \/ End(c.w2) = n)
      BY <2>2, <1>1, ShowsParts
    <3>3. End(c.w2) = n
      BY <3>1, <3>2, <1>1, <1>3
    <3> QED
      BY <3>3
  <2>3. CASE c.file # NoFile
    <3>1. /\ File!Size(c.file) = Len(Contents(c.file)) /\ Len(Contents(c.file)) \in Nat
          /\ Backed(c.w1, c.w2, Contents(c.file), all) /\ c.w2 # NoWindow
      BY <2>3, HoldsParts
    <3>2. CASE n = 0
      <4>1. End(c.w1) = 0
        BY <3>2, <1>2
      <4> QED
        BY <3>2, <4>1
    <3>3. CASE n # 0
      <4> DEFINE p == n - 1
      <4>1. p \in Nat /\ p \in 0 .. n - 1 /\ p + 1 = n
        BY <3>3, <1>1
      <4> HIDE DEF p
      <4>2. Changed(c.w1, p) \/ Changed(c.w2, p) \/ p < Len(Contents(c.file))
        BY <4>1, <3>1 DEF Backed
      <4>3. CASE Changed(c.w1, p)
        <5>1. End(c.w1) = n
          BY <4>1, <4>3, <1>1, <1>2 DEF Changed, Has
        <5> QED
          BY <5>1
      <4>4. CASE Changed(c.w2, p)
        <5>1. End(c.w2) = n
          BY <4>1, <4>4, <1>1, <1>3 DEF Changed, Has
        <5> QED
          BY <5>1
      <4>5. CASE p < Len(Contents(c.file))
        <5>1. File!Size(c.file) <= n
          BY <2>3, <1>4
        <5>2. File!Size(c.file) = n
          BY <4>1, <4>5, <3>1, <5>1, <1>1
        <5> QED
          BY <5>2, <2>3
      <4> QED
        BY <4>2, <4>3, <4>4, <4>5
    <3> QED
      BY <3>2, <3>3
  <2> QED
    BY <2>1, <2>2, <2>3
<1>6. Size(c) = CHOOSE x \in S : \A y \in S : x >= y
  BY DEF Size, Max
<1> HIDE DEF S, n
<1>7. \A x \in S : (\A y \in S : x >= y) => x = n
  BY <1>1, <1>4, <1>5
<1>8. \E x \in S : \A y \in S : x >= y
  BY <1>1, <1>4, <1>5
<1> QED
  BY <1>6, <1>7, <1>8 DEF n

LEMMA FirstWith ==
    ASSUME NEW c, c = [w1 |-> c.w1, w2 |-> c.w2, file |-> c.file, first |-> c.first], NEW new
    PROVE  /\ [c EXCEPT !.w1 = new] = [w1 |-> new, w2 |-> c.w2, file |-> c.file, first |-> c.first]
           /\ [c EXCEPT !.w2 = new] = [w1 |-> c.w1, w2 |-> new, file |-> c.file, first |-> c.first]
<1> DEFINE a == [c EXCEPT !.w1 = new]
           d == [c EXCEPT !.w2 = new]
           b == [w1 |-> new, w2 |-> c.w2, file |-> c.file, first |-> c.first]
           e == [w1 |-> c.w1, w2 |-> new, file |-> c.file, first |-> c.first]
<1>1. DOMAIN c = {"w1", "w2", "file", "first"} /\ DOMAIN a = DOMAIN c /\ DOMAIN d = DOMAIN c
  OBVIOUS
<1>2. /\ a.w1 = new /\ a.w2 = c.w2 /\ a.file = c.file /\ a.first = c.first
      /\ d.w1 = c.w1 /\ d.w2 = new /\ d.file = c.file /\ d.first = c.first
  BY <1>1
<1>3. a = [x \in DOMAIN c |-> a[x]] /\ d = [x \in DOMAIN c |-> d[x]]
  OBVIOUS
<1>4. /\ b = [x \in {"w1", "w2", "file", "first"} |-> b[x]]
      /\ e = [x \in {"w1", "w2", "file", "first"} |-> e[x]]
  OBVIOUS
<1>5. /\ b.w1 = new /\ b.w2 = c.w2 /\ b.file = c.file /\ b.first = c.first
      /\ e.w1 = c.w1 /\ e.w2 = new /\ e.file = c.file /\ e.first = c.first
  OBVIOUS
<1> HIDE DEF a, b, d, e
<1>6. a = b
  BY <1>1, <1>2, <1>3, <1>4, <1>5
<1>7. d = e
  BY <1>1, <1>2, <1>3, <1>4, <1>5
<1> QED
  BY <1>6, <1>7 DEF a, b, d, e

\* A byte put in one window; the other one does not take it.
LEMMA BackedStored ==
    ASSUME NEW v, NEW w, NEW str, NEW all, NEW next, NEW at, NEW byte,
           Stored(all, next, at, byte), Shows(v, all), Takes(v, at),
           EitherBacked(v, w, str, all), Len(str) \in Nat
    PROVE  Backed(Put(v, at, byte), w, str, next) /\ Backed(w, Put(v, at, byte), str, next)
<1>1. /\ Len(all) \in Nat /\ Len(next) \in Nat /\ at \in Nat /\ at <= Len(all)
      /\ Len(next) = IF at = Len(all) THEN at + 1 ELSE Len(all)
      /\ \A i \in 1 .. Len(all) : i # at + 1 => next[i] = all[i]
  BY LenProperties DEF Stored
<1> DEFINE put == Put(v, at, byte)
<1>2. IsPut(put, v, at)
  BY PutShows
<1> HIDE DEF put
<1>3. /\ Len(str) <= Len(all) /\ v.start <= Len(str) /\ w.start <= Len(str)
      /\ \A p \in 0 .. Len(all) - 1 :
            Changed(v, p) \/ Changed(w, p) \/ (p < Len(str) /\ str[p + 1] = all[p + 1])
  BY DEF EitherBacked, Backed
<1>4. ASSUME NEW p \in 0 .. Len(next) - 1
      PROVE  \/ Changed(put, p) \/ Changed(w, p)
             \/ (p < Len(str) /\ str[p + 1] = next[p + 1])
  <2>1. p \in Nat
    BY <1>1
  <2>2. CASE p = at
    BY <2>1, <2>2, <1>2 DEF Changed, IsPut
  <2>3. CASE p # at
    <3>1. p \in 0 .. Len(all) - 1 /\ p + 1 \in 1 .. Len(all) /\ p + 1 # at + 1
      BY <2>1, <2>3, <1>1
    <3>2. next[p + 1] = all[p + 1]
      BY <3>1, <1>1
    <3>3. Changed(v, p) => Changed(put, p)
      BY <2>1, <1>2 DEF Changed, IsPut
    <3> QED
      BY <3>1, <3>2, <3>3, <1>3
  <2> QED
    BY <2>2, <2>3
<1>5. Len(str) <= Len(next)
  BY <1>1, <1>3
<1> QED
  <2>1. put.start = v.start
    BY <1>2 DEF IsPut
  <2>2. Backed(put, w, str, next) /\ Backed(w, put, str, next)
    BY <2>1, <1>3, <1>4, <1>5 DEF Backed
  <2> QED
    BY <2>2 DEF put

\* The container d is c with a byte put in the window that takes it.
PutIn(d, c, at, byte) ==
    d = IF Takes(c.w1, at)
        THEN [c EXCEPT !.w1 = Put(@, at, byte)]
        ELSE [c EXCEPT !.w2 = Put(@, at, byte)]

\* A second window and a file are in both or in neither; the file is the same.
SameKind(d, c) == d.file = c.file /\ (d.w2 = NoWindow <=> c.w2 = NoWindow)

LEMMA PutHolds ==
    ASSUME NEW c, NEW all, NEW next, NEW at, NEW byte,
           Holds(c, all), Stored(all, next, at, byte), Taken(c, at),
           NEW d, PutIn(d, c, at, byte)
    PROVE  Holds(d, next) /\ SameKind(d, c)
<1>1. /\ c = [w1 |-> c.w1, w2 |-> c.w2, file |-> c.file, first |-> c.first]
      /\ all \in Seq(Values) /\ Len(all) \in Nat /\ mCacheSize \in Nat \ {0} /\ c.first \in BOOLEAN
      /\ Shows(c.w1, all)
      /\ c.w2 # NoWindow => Shows(c.w2, all) /\ c.w2.start # c.w1.start
  BY HoldsParts
<1>2. /\ next \in Seq(Values) /\ Len(next) \in Nat /\ at \in Nat /\ at <= Len(all)
      /\ Len(next) = IF at = Len(all) THEN at + 1 ELSE Len(all)
  BY <1>1, LenProperties DEF Stored
<1>3. c.w1.start \in Nat /\ c.w1.start % mCacheSize = 0
  BY <1>1, ShowsParts
<1>4. c.w2 # NoWindow => c.w2.start \in Nat /\ c.w2.start % mCacheSize = 0 /\ c.w2.start <= Len(all)
  BY <1>1, ShowsParts
<1>5. c.w2 # NoWindow => ~(Takes(c.w1, at) /\ Takes(c.w2, at))
  <2> SUFFICES ASSUME c.w2 # NoWindow PROVE ~(Takes(c.w1, at) /\ Takes(c.w2, at))
    OBVIOUS
  <2>1. c.w1.start + mCacheSize <= c.w2.start \/ c.w2.start + mCacheSize <= c.w1.start
    BY <1>1, <1>3, <1>4, Apart
  <2>2. c.w1.start \in Nat /\ c.w2.start \in Nat /\ mCacheSize \in Nat
    BY <1>1, <1>3, <1>4
  <2> QED
    BY <2>1, <2>2, <1>2 DEF Takes
<1>6. c.file = NoFile /\ c.w2 = NoWindow => Len(next) <= mCacheSize
  <2> SUFFICES ASSUME c.file = NoFile, c.w2 = NoWindow PROVE Len(next) <= mCacheSize
    OBVIOUS
  <2>1. c.w1.start = 0 /\ Len(all) <= mCacheSize /\ Takes(c.w1, at)
    BY HoldsParts DEF Taken
  <2>2. at < mCacheSize
    BY <2>1, <1>1, <1>2 DEF Takes
  <2> QED
    BY <2>1, <2>2, <1>1, <1>2
<1>7. c.file = NoFile /\ c.w2 # NoWindow => Len(next) <= 2 * mCacheSize /\ c.w1.start = 0 /\ c.w2.start = mCacheSize
  <2> SUFFICES ASSUME c.file = NoFile, c.w2 # NoWindow
               PROVE  Len(next) <= 2 * mCacheSize /\ c.w1.start = 0 /\ c.w2.start = mCacheSize
    OBVIOUS
  <2>1. c.w1.start = 0 /\ c.w2.start = mCacheSize /\ Len(all) <= 2 * mCacheSize
    BY HoldsParts
  <2>2. mCacheSize \in Nat /\ at \in Nat /\ at < 2 * mCacheSize
    BY <2>1, <1>1, <1>2 DEF Takes, Taken
  <2> QED
    BY <2>1, <2>2, <1>2
<1>8. c.file = NoFile => c.w1.start = 0
  BY HoldsParts
<1>9. CASE Takes(c.w1, at)
  <2> DEFINE v == Put(c.w1, at, byte)
  <2>1. d = [w1 |-> v, w2 |-> c.w2, file |-> c.file, first |-> c.first]
    <3>1. d = [c EXCEPT !.w1 = v]
      BY <1>9 DEF PutIn
    <3> HIDE DEF v
    <3> QED
      BY <3>1, <1>1, FirstWith
  <2>2. Shows(v, next) /\ v.start = c.w1.start
    <3>1. Shows(v, next) /\ IsPut(v, c.w1, at)
      BY <1>1, <1>9, PutShows
    <3> HIDE DEF v
    <3> QED
      BY <3>1, PutStart
  <2>3. c.w2 # NoWindow => Shows(c.w2, next)
    BY <1>1, <1>5, <1>9, PastShows
  <2>4. ASSUME c.file = NoFile PROVE Holds(d, next)
    <3>1. \/ c.w2 = NoWindow /\ Len(next) <= mCacheSize
          \/ Shows(c.w2, next) /\ c.w2.start = mCacheSize /\ Len(next) <= 2 * mCacheSize
      BY <2>3, <2>4, <1>6, <1>7
    <3> HIDE DEF v
    <3>2. Holds([w1 |-> v, w2 |-> c.w2, file |-> NoFile, first |-> c.first], next)
      BY <3>1, <2>2, <2>4, <1>1, <1>2, <1>8, HoldsInWindows
    <3> QED
      BY <3>2, <2>1, <2>4
  <2>5. ASSUME c.file # NoFile PROVE Holds(d, next)
    <3> DEFINE str == Contents(c.file)
    <3>1. /\ c.w2 # NoWindow /\ FileIs(c.file, str) /\ Len(str) \in Nat
          /\ EitherBacked(c.w1, c.w2, str, all)
      BY <2>5, HoldsParts DEF EitherBacked
    <3> HIDE DEF str
    <3>2. Backed(v, c.w2, str, next)
      BY <3>1, <1>1, <1>9, BackedStored
    <3> HIDE DEF v
    <3>3. Holds([w1 |-> v, w2 |-> c.w2, file |-> c.file, first |-> c.first], next)
      BY <3>1, <3>2, <2>2, <2>3, <2>5, <1>1, <1>2, HoldsOverFile
    <3> QED
      BY <3>3, <2>1
  <2> HIDE DEF v
  <2>6. d.file = c.file /\ d.w2 = c.w2
    BY <2>1
  <2>7. SameKind(d, c)
    BY <2>6 DEF SameKind
  <2>8. Holds(d, next)
    BY <2>4, <2>5
  <2> QED
    BY <2>7, <2>8
<1>10. CASE ~Takes(c.w1, at)
  <2> DEFINE v == Put(c.w2, at, byte)
  <2>1. d = [w1 |-> c.w1, w2 |-> v, file |-> c.file, first |-> c.first]
    <3>1. d = [c EXCEPT !.w2 = v]
      BY <1>10 DEF PutIn
    <3> HIDE DEF v
    <3> QED
      BY <3>1, <1>1, FirstWith
  <2>2. c.w2 # NoWindow /\ Takes(c.w2, at) /\ Shows(c.w2, all)
    BY <1>1, <1>10 DEF Taken
  <2>3. Shows(v, next) /\ v.start = c.w2.start
    <3>1. Shows(v, next) /\ IsPut(v, c.w2, at)
      BY <2>2, PutShows
    <3> HIDE DEF v
    <3> QED
      BY <3>1, PutStart
  <2>4. Shows(c.w1, next)
    BY <1>1, <1>10, PastShows
  <2>5. ASSUME c.file = NoFile PROVE Holds(d, next)
    <3>1. Shows(v, next) /\ v.start = mCacheSize /\ Len(next) <= 2 * mCacheSize
      BY <2>2, <2>3, <2>5, <1>7
    <3> HIDE DEF v
    <3>2. Holds([w1 |-> c.w1, w2 |-> v, file |-> NoFile, first |-> c.first], next)
      BY <3>1, <2>4, <2>5, <1>1, <1>2, <1>8, HoldsInWindows
    <3> QED
      BY <3>2, <2>1, <2>5
  <2>6. ASSUME c.file # NoFile PROVE Holds(d, next)
    <3> DEFINE str == Contents(c.file)
    <3>1. /\ FileIs(c.file, str) /\ Len(str) \in Nat
          /\ EitherBacked(c.w2, c.w1, str, all)
      BY <2>6, HoldsParts DEF EitherBacked
    <3> HIDE DEF str
    <3>2. Backed(c.w1, v, str, next)
      BY <3>1, <2>2, BackedStored
    <3> HIDE DEF v
    <3>3. Holds([w1 |-> c.w1, w2 |-> v, file |-> c.file, first |-> c.first], next)
      BY <3>1, <3>2, <2>2, <2>3, <2>4, <2>6, <1>1, <1>2, HoldsOverFile
    <3> QED
      BY <3>3, <2>1
  <2>7. v # NoWindow
    BY <2>3, <1>2, ShowsParts
  <2> HIDE DEF v
  <2>8. d.file = c.file /\ d.w2 = v
    BY <2>1
  <2>9. SameKind(d, c)
    BY <2>2, <2>7, <2>8 DEF SameKind
  <2>10. Holds(d, next)
    BY <2>5, <2>6
  <2> QED
    BY <2>9, <2>10
<1> QED
  BY <1>9, <1>10

LEMMA WriteByteIs ==
    ASSUME NEW c, NEW all, NEW next, NEW at, NEW byte,
           Holds(c, all), Stored(all, next, at, byte)
    PROVE  /\ Holds(WriteByte(c, at, byte), next)
           /\ c.file = NoFile /\ at < Len(all) =>
                SameKind(WriteByte(c, at, byte), c)
<1> DEFINE filled == IF Taken(c, at) THEN c ELSE FillCache(c, at)
           d == WriteByte(c, at, byte)
<1>1. PutIn(d, filled, at, byte)
  BY DEF WriteByte, Taken, PutIn
<1>2. at \in Nat /\ at <= Len(all) /\ Len(all) \in Nat
  BY LenProperties DEF Stored
<1>3. Holds(filled, all) /\ Taken(filled, at)
  <2>1. CASE Taken(c, at)
    BY <2>1
  <2>2. CASE ~Taken(c, at)
    BY <2>2, <1>2, FillCacheIs
  <2> QED
    BY <2>1, <2>2
<1>4. c.file = NoFile /\ at < Len(all) => filled = c
  <2> SUFFICES ASSUME c.file = NoFile, at < Len(all) PROVE Taken(c, at)
    OBVIOUS
  <2>1. CASE c.w2 = NoWindow
    <3>1. c.w1.start = 0 /\ Len(all) <= mCacheSize /\ mCacheSize \in Nat
      BY <2>1, HoldsParts
    <3> QED
      BY <3>1, <1>2 DEF Taken, Takes
  <2>2. CASE c.w2 # NoWindow
    <3>1. /\ c.w1.start = 0 /\ c.w2.start = mCacheSize /\ Len(all) <= 2 * mCacheSize
          /\ mCacheSize \in Nat
      BY <2>2, HoldsParts
    <3> QED
      BY <3>1, <2>2, <1>2 DEF Taken, Takes
  <2> QED
    BY <2>1, <2>2
<1> HIDE DEF filled, d
<1>5. Holds(d, next) /\ SameKind(d, filled)
  BY <1>1, <1>3, PutHolds
<1> QED
  BY <1>4, <1>5 DEF d

\* What a write does, and that it stays within the windows when it starts there.
LEMMA WriteAllIs ==
    ASSUME NEW c, NEW all, Holds(c, all), NEW to \in 0 .. Len(all), NEW chunk \in Seq(Values)
    PROVE  /\ Holds(WriteAll(c, to, chunk), Over(all, to, chunk, Len(chunk)))
           /\ c.file = NoFile /\ to + Len(chunk) <= Len(all) =>
                SameKind(WriteAll(c, to, chunk), c)
<1>1. /\ Len(chunk) \in Nat /\ all \in Seq(Values) /\ Len(all) \in Nat /\ to \in Nat
  BY HoldsParts, LenProperties
<1>2. PICK u : /\ WriteAll(c, to, chunk) = u[Len(chunk)]
               /\ u[0] = c
               /\ \A i \in 1 .. Len(chunk) : u[i] = WriteByte(u[i - 1], to + i - 1, chunk[i])
  BY <1>1, WriteSteps
<1> DEFINE Stays(i) == c.file = NoFile /\ to + i <= Len(all) =>
                        SameKind(u[i], c)
           S == {i \in Nat : i <= Len(chunk) => Holds(u[i], Over(all, to, chunk, i)) /\ Stays(i)}
<1>3. 0 \in S
  BY <1>1, <1>2, OverNone DEF SameKind
<1>4. ASSUME NEW i \in Nat, i \in S PROVE i + 1 \in S
  <2> SUFFICES ASSUME i + 1 <= Len(chunk)
               PROVE  Holds(u[i + 1], Over(all, to, chunk, i + 1)) /\ Stays(i + 1)
    BY <1>4
  <2>1. i \in 0 .. Len(chunk) - 1 /\ i \in 0 .. Len(chunk) /\ i <= Len(chunk) /\ i + 1 \in 1 .. Len(chunk)
    BY <1>1
  <2>2. Holds(u[i], Over(all, to, chunk, i)) /\ Stays(i)
    BY <2>1, <1>4
  <2>3. Stored(Over(all, to, chunk, i), Over(all, to, chunk, i + 1), to + i, chunk[i + 1])
    BY <1>1, <2>1, OverNext
  <2>4. u[i + 1] = WriteByte(u[i], to + i, chunk[i + 1])
    <3>1. (i + 1) - 1 = i /\ to + (i + 1) - 1 = to + i
      BY <1>1
    <3>2. u[i + 1] = WriteByte(u[(i + 1) - 1], to + (i + 1) - 1, chunk[i + 1])
      BY <2>1, <1>2
    <3> QED
      BY <3>1, <3>2
  <2>5. /\ Holds(u[i + 1], Over(all, to, chunk, i + 1))
        /\ u[i].file = NoFile /\ to + i < Len(Over(all, to, chunk, i)) =>
            SameKind(u[i + 1], u[i])
    BY <2>2, <2>3, <2>4, WriteByteIs
  <2>6. Len(Over(all, to, chunk, i)) = OverLen(all, to, i)
    BY <1>1, <2>1, OverTyped
  <2>7. to + (i + 1) <= Len(all) => to + i <= Len(all) /\ to + i < OverLen(all, to, i)
    BY <1>1, <2>1 DEF OverLen
  <2>8. Stays(i + 1)
    <3> SUFFICES ASSUME c.file = NoFile, to + (i + 1) <= Len(all) PROVE SameKind(u[i + 1], c)
      OBVIOUS
    <3>1. SameKind(u[i], c)
      BY <2>2, <2>7
    <3>2. u[i].file = NoFile
      BY <3>1 DEF SameKind
    <3>3. SameKind(u[i + 1], u[i])
      BY <3>2, <2>5, <2>6, <2>7
    <3> QED
      BY <3>1, <3>3 DEF SameKind
  <2> QED
    BY <2>5, <2>8
<1>5. Len(chunk) \in S
  <2> HIDE DEF S
  <2>1. Nat \subseteq S
    BY <1>3, <1>4, ByInduction
  <2> QED
    BY <2>1, <1>1
<1> QED
  BY <1>1, <1>2, <1>5

-----------------------------------------------------------------------------
(* Reading. *)

\* A byte within the container is in a window that takes it.
LEMMA TakenHas ==
    ASSUME NEW c, NEW all, Holds(c, all), NEW at \in Nat, at < Len(all)
    PROVE  /\ Taken(c, at) <=> Has(c.w1, at) \/ Has(c.w2, at)
           /\ Has(c.w1, at) => c.w1.bytes[at - c.w1.start + 1] = all[at + 1]
           /\ Has(c.w2, at) => c.w2.bytes[at - c.w2.start + 1] = all[at + 1]
<1>1. /\ all \in Seq(Values) /\ Shows(c.w1, all)
      /\ c.w2 # NoWindow => Shows(c.w2, all)
  BY HoldsParts
<1>2. /\ Has(c.w1, at) <=> Takes(c.w1, at)
      /\ Has(c.w1, at) => c.w1.bytes[at - c.w1.start + 1] = all[at + 1]
  BY <1>1, ShowsAt
<1>3. CASE c.w2 = NoWindow
  <2>1. ~Has(c.w2, at)
    BY <1>3, NoWindowHas
  <2> QED
    BY <2>1, <1>2, <1>3 DEF Taken
<1>4. CASE c.w2 # NoWindow
  <2>1. /\ Has(c.w2, at) <=> Takes(c.w2, at)
        /\ Has(c.w2, at) => c.w2.bytes[at - c.w2.start + 1] = all[at + 1]
    BY <1>1, <1>4, ShowsAt
  <2> QED
    BY <2>1, <1>2, <1>4 DEF Taken
<1> QED
  BY <1>3, <1>4

LEMMA ReadByteIs ==
    ASSUME NEW r, NEW all, Holds(r.c, all), NEW at \in Nat, at < Len(all)
    PROVE  /\ Holds(ReadByte(r, at).c, all)
           /\ ReadByte(r, at).bytes = Append(r.bytes, all[at + 1])
<1> DEFINE c == IF Has(r.c.w1, at) \/ Has(r.c.w2, at) THEN r.c ELSE FillCache(r.c, at)
           byte == IF Has(c.w1, at) THEN c.w1.bytes[at - c.w1.start + 1]
                   ELSE IF Has(c.w2, at) THEN c.w2.bytes[at - c.w2.start + 1]
                   ELSE Failed
<1>1. ReadByte(r, at) = [c |-> c, bytes |-> Append(r.bytes, byte)]
  BY DEF ReadByte
<1>2. at <= Len(all)
  <2>1. Len(all) \in Nat
    BY HoldsParts
  <2> QED
    BY <2>1
<1>3. Holds(c, all) /\ Taken(c, at)
  <2>1. Taken(r.c, at) <=> Has(r.c.w1, at) \/ Has(r.c.w2, at)
    BY TakenHas
  <2>2. CASE Taken(r.c, at)
    BY <2>1, <2>2
  <2>3. CASE ~Taken(r.c, at)
    <3>1. Holds(FillCache(r.c, at), all) /\ Taken(FillCache(r.c, at), at)
      BY <2>3, <1>2, FillCacheIs
    <3> QED
      BY <2>1, <2>3, <3>1
  <2> QED
    BY <2>2, <2>3
<1> HIDE DEF c
<1>4. byte = all[at + 1]
  <2>1. Has(c.w1, at) \/ Has(c.w2, at)
    BY <1>3, TakenHas
  <2>2. Has(c.w1, at) => c.w1.bytes[at - c.w1.start + 1] = all[at + 1]
    BY <1>3, TakenHas
  <2>3. Has(c.w2, at) => c.w2.bytes[at - c.w2.start + 1] = all[at + 1]
    BY <1>3, TakenHas
  <2> QED
    BY <2>1, <2>2, <2>3
<1> HIDE DEF byte
<1> QED
  BY <1>1, <1>3, <1>4

\* After i bytes from a place on: the container still holds all.
HasRead(r, all, from, i) ==
    /\ Holds(r.c, all)
    /\ r.bytes \in Seq(Values) /\ Len(r.bytes) = i
    /\ \A k \in 1 .. i : r.bytes[k] = all[from + k]

LEMMA HasReadNext ==
    ASSUME NEW r, NEW all, NEW from \in Nat, NEW i \in Nat, HasRead(r, all, from, i), from + i < Len(all)
    PROVE  HasRead(ReadByte(r, from + i), all, from, i + 1)
<1> DEFINE next == ReadByte(r, from + i)
<1>1. Holds(r.c, all) /\ r.bytes \in Seq(Values) /\ Len(r.bytes) = i
  BY DEF HasRead
<1>2. \A k \in 1 .. i : r.bytes[k] = all[from + k]
  BY DEF HasRead
<1>3. from + i \in Nat /\ (from + i) + 1 = from + (i + 1)
  OBVIOUS
<1>4. Holds(next.c, all) /\ next.bytes = Append(r.bytes, all[(from + i) + 1])
  BY <1>1, <1>3, ReadByteIs
<1> HIDE DEF next
<1>5. all[from + (i + 1)] \in Values
  <2>1. all \in Seq(Values) /\ Len(all) \in Nat
    BY <1>1, HoldsParts
  <2>2. from + (i + 1) \in 1 .. Len(all)
    BY <2>1
  <2> QED
    BY <2>1, <2>2, ElementOfSeq
<1>6. next.bytes = Append(r.bytes, all[from + (i + 1)])
  BY <1>3, <1>4
<1>7. /\ next.bytes \in Seq(Values) /\ Len(next.bytes) = i + 1
      /\ next.bytes[i + 1] = all[from + (i + 1)]
      /\ \A k \in 1 .. i : next.bytes[k] = r.bytes[k]
  BY <1>1, <1>5, <1>6, AppendProperties
<1>8. ASSUME NEW k \in 1 .. i + 1 PROVE next.bytes[k] = all[from + k]
  <2>1. CASE k = i + 1
    BY <2>1, <1>7
  <2>2. CASE k # i + 1
    <3>1. k \in 1 .. i
      BY <2>2
    <3> QED
      BY <3>1, <1>2, <1>7
  <2> QED
    BY <2>1, <2>2
<1>9. HasRead(next, all, from, i + 1)
  BY <1>4, <1>7, <1>8 DEF HasRead
<1> QED
  BY <1>9 DEF next

LEMMA ReadAllIs ==
    ASSUME NEW c, NEW all, Holds(c, all), NEW from \in Nat, NEW to \in Nat, from <= to, to <= Len(all)
    PROVE  /\ Holds(ReadAll(c, from, to - from).c, all)
           /\ ReadAll(c, from, to - from).bytes = SubSeq(all, from + 1, to)
<1> DEFINE size == to - from
<1>1. size \in Nat /\ all \in Seq(Values) /\ Len(all) \in Nat
  BY HoldsParts
<1>2. from + size = to /\ \A i \in Nat : i < size => from + i < Len(all)
  BY <1>1
<1> HIDE DEF size
<1>0. size \in Nat
  BY <1>1
<1>3. PICK u : Reads(u, c, from, size)
  BY <1>0, ReadSteps
<1> DEFINE S == {i \in Nat : i <= size => HasRead(u[i], all, from, i)}
<1>4. 0 \in S
  <2>1. u[0].c = c /\ u[0].bytes = <<>>
    BY <1>3 DEF Reads
  <2>2. <<>> \in Seq(Values) /\ Len(<<>>) = 0
    BY EmptySeq
  <2>3. Holds(u[0].c, all) /\ u[0].bytes \in Seq(Values) /\ Len(u[0].bytes) = 0
    BY <2>1, <2>2
  <2>4. HasRead(u[0], all, from, 0)
    BY <2>3 DEF HasRead
  <2> QED
    BY <2>4
<1>5. ASSUME NEW i \in Nat, i \in S PROVE i + 1 \in S
  <2> SUFFICES ASSUME i + 1 <= size PROVE HasRead(u[i + 1], all, from, i + 1)
    BY <1>5
  <2>1. i < size /\ i <= size /\ i + 1 \in 1 .. size /\ (i + 1) - 1 = i /\ from + (i + 1) - 1 = from + i
    BY <1>1
  <2>2. HasRead(u[i], all, from, i)
    BY <2>1, <1>5
  <2>3. u[i + 1] = ReadByte(u[(i + 1) - 1], from + (i + 1) - 1)
    BY <2>1, <1>3 DEF Reads
  <2>4. u[i + 1] = ReadByte(u[i], from + i)
    BY <2>1, <2>3
  <2>5. from + i < Len(all)
    BY <2>1, <1>2
  <2> QED
    BY <2>2, <2>4, <2>5, HasReadNext
<1>6. HasRead(u[size], all, from, size)
  <2> HIDE DEF S
  <2>1. Nat \subseteq S
    BY <1>4, <1>5, ByInduction
  <2> QED
    BY <2>1, <1>1 DEF S
<1>7. /\ SubSeq(all, from + 1, to) \in Seq(Values)
      /\ Len(SubSeq(all, from + 1, to)) = size
      /\ \A i \in 1 .. size : SubSeq(all, from + 1, to)[i] = all[from + i]
  BY <1>1, PartIs DEF size
<1>8. u[size].bytes = SubSeq(all, from + 1, to)
  <2> DEFINE a == u[size].bytes
             b == SubSeq(all, from + 1, to)
  <2>1. a \in Seq(Values) /\ Len(a) = size /\ \A k \in 1 .. size : a[k] = all[from + k]
    BY <1>6 DEF HasRead
  <2>2. b \in Seq(Values) /\ Len(b) = size /\ \A k \in 1 .. size : b[k] = all[from + k]
    BY <1>7
  <2> HIDE DEF a, b
  <2>3. a = b
    BY <2>1, <2>2, SeqEqual
  <2> QED
    BY <2>3 DEF a, b
<1> QED
  BY <1>3, <1>6, <1>8 DEF size, HasRead, Reads
-----------------------------------------------------------------------------
(* Removing. *)

LEMMA BytesWith ==
    ASSUME NEW w \in Windows, NEW content \in Seq(Values), NEW v, v = [w EXCEPT !.bytes = content]
    PROVE  v \in Windows /\ v.start = w.start /\ v.bytes = content
  BY DEF Windows

\* The string's end moves into a window, or to behind it.
LEMMA TrimmedShows ==
    ASSUME NEW w, NEW all \in Seq(Values), Shows(w, all),
           NEW n \in 0 .. Len(all), w.start <= n, n <= w.start + mCacheSize,
           NEW v, v = [w EXCEPT !.bytes = SubSeq(@, 1, n - w.start)]
    PROVE  Shows(v, SubSeq(all, 1, n)) /\ v.start = w.start
<1> DEFINE content == SubSeq(w.bytes, 1, n - w.start)
           cut == SubSeq(all, 1, n)
<1>1. /\ w \in Windows /\ Len(all) \in Nat /\ mCacheSize \in Nat \ {0}
      /\ w.start \in Nat /\ w.bytes \in Seq(Values)
      /\ Len(w.bytes) \in Nat /\ End(w) = w.start + Len(w.bytes)
      /\ w.start % mCacheSize = 0
      /\ Len(w.bytes) = mCacheSize \/ End(w) = Len(all)
  BY ShowsParts
<1>2. \A i \in 1 .. Len(w.bytes) : w.bytes[i] = all[w.start + i]
  BY ShowsParts
<1>3. /\ n \in Nat /\ n - w.start \in 0 .. Len(w.bytes) /\ n - w.start \in Nat
      /\ w.start \in Nat /\ Len(w.bytes) \in Nat
  BY <1>1, SMTT(30)
<1>4. /\ content \in Seq(Values) /\ Len(content) = n - w.start
      /\ \A i \in 1 .. n - w.start : content[i] = w.bytes[i]
  BY <1>1, <1>3, HeadIs, SMTT(30)
<1>5. /\ cut \in Seq(Values) /\ Len(cut) = n
      /\ \A i \in 1 .. n : cut[i] = all[i]
  BY HeadIs
<1>6. v = [w EXCEPT !.bytes = content]
  OBVIOUS
<1> HIDE DEF content, cut
<1>7. v \in Windows /\ v.start = w.start /\ v.bytes = content
  <2>1. w \in Windows /\ content \in Seq(Values)
    BY <1>1, <1>4
  <2> QED
    BY ONLY <2>1, <1>6, BytesWith
<1>8. End(v) = n
  <2>1. End(v) = w.start + (n - w.start)
    BY <1>4, <1>7 DEF End
  <2> QED
    BY <2>1, <1>1, <1>3
<1>9. ASSUME NEW i \in 1 .. Len(v.bytes) PROVE v.bytes[i] = cut[v.start + i]
  <2>1. Len(v.bytes) = n - w.start
    BY <1>4, <1>7
  <2>2. i \in 1 .. n - w.start
    BY <2>1
  <2>3. i \in 1 .. Len(w.bytes) /\ w.start + i \in 1 .. n
    <3>1. i \in Nat /\ 1 <= i /\ i <= n - w.start
      BY <2>2, <1>3
    <3> QED
      BY ONLY <3>1, <1>3
  <2>4. content[i] = w.bytes[i] /\ w.bytes[i] = all[w.start + i] /\ cut[w.start + i] = all[w.start + i]
    BY <2>2, <2>3, <1>2, <1>4, <1>5
  <2> QED
    BY <2>4, <1>7
<1>10. Len(v.bytes) <= mCacheSize /\ v.start <= Len(cut) /\ v.start % mCacheSize = 0
  <2>1. v.start % mCacheSize = 0
    BY <1>1, <1>7
  <2>2. Len(v.bytes) = n - w.start /\ v.start = w.start /\ Len(cut) = n
    BY <1>4, <1>5, <1>7
  <2>3. n - w.start <= mCacheSize
    BY <1>1, <1>3
  <2> QED
    BY <2>1, <2>2, <2>3
<1>11. Shows(v, cut)
  <2>1. v \in Windows /\ End(v) = Len(cut) /\ End(v) <= Len(cut)
    BY <1>3, <1>5, <1>7, <1>8
  <2> QED
    BY <2>1, <1>9, <1>10 DEF Shows
<1> QED
  BY <1>7, <1>11 DEF cut

LEMMA BeforeEndShows ==
    ASSUME NEW w, NEW all \in Seq(Values), Shows(w, all),
           NEW n \in 0 .. Len(all), w.start + mCacheSize <= n
    PROVE  Shows(w, SubSeq(all, 1, n))
<1> DEFINE cut == SubSeq(all, 1, n)
<1>1. /\ w \in Windows /\ Len(all) \in Nat /\ mCacheSize \in Nat \ {0}
      /\ w.start \in Nat /\ Len(w.bytes) \in Nat /\ End(w) = w.start + Len(w.bytes)
      /\ w.start % mCacheSize = 0 /\ Len(w.bytes) <= mCacheSize
      /\ Len(w.bytes) = mCacheSize \/ End(w) = Len(all)
  BY ShowsParts
<1>2. \A i \in 1 .. Len(w.bytes) : w.bytes[i] = all[w.start + i]
  BY ShowsParts
<1>3. /\ cut \in Seq(Values) /\ Len(cut) = n
      /\ \A i \in 1 .. n : cut[i] = all[i]
  BY HeadIs
<1> HIDE DEF cut
<1>4. Len(w.bytes) = mCacheSize /\ End(w) <= n /\ w.start <= n
  BY <1>1
<1>5. ASSUME NEW i \in 1 .. Len(w.bytes) PROVE w.bytes[i] = cut[w.start + i]
  <2>1. w.start + i \in 1 .. n
    BY <1>1, <1>4
  <2> QED
    BY <2>1, <1>2, <1>3
<1>6. Shows(w, cut)
  BY <1>1, <1>3, <1>4, <1>5 DEF Shows
<1> QED
  BY <1>6 DEF cut

\* One window that has the whole string.
LEMMA WholeWindow ==
    ASSUME NEW w, NEW all \in Seq(Values), Shows(w, all), w.start = 0, Len(all) <= mCacheSize
    PROVE  w.bytes = all
<1>1. /\ w \in Windows /\ Len(all) \in Nat /\ mCacheSize \in Nat \ {0}
      /\ w.bytes \in Seq(Values) /\ Len(w.bytes) \in Nat /\ End(w) = w.start + Len(w.bytes)
      /\ End(w) <= Len(all)
      /\ Len(w.bytes) = mCacheSize \/ End(w) = Len(all)
  BY ShowsParts
<1>2. \A i \in 1 .. Len(w.bytes) : w.bytes[i] = all[w.start + i]
  BY ShowsParts
<1>3. Len(w.bytes) = Len(all)
  BY <1>1
<1>4. \A i \in 1 .. Len(w.bytes) : w.bytes[i] = all[i]
  BY <1>1, <1>2
<1> QED
  BY <1>1, <1>3, <1>4, SeqEqual

LEMMA WholeShows ==
    ASSUME NEW w \in Windows, w.start = 0, w.bytes \in Seq(Values), Len(w.bytes) <= mCacheSize
    PROVE  Shows(w, w.bytes)
<1>1. Len(w.bytes) \in Nat /\ End(w) = Len(w.bytes) /\ mCacheSize \in Nat \ {0}
  BY Sizes, LenProperties DEF End
<1>2. w.start % mCacheSize = 0
  BY FirstStarts
<1>3. \A i \in 1 .. Len(w.bytes) : w.start + i = i
  OBVIOUS
<1> QED
  BY <1>1, <1>2, <1>3 DEF Shows

LEMMA ColapseWindowIs ==
    ASSUME NEW c, NEW all, Holds(c, all), c.file = NoFile, c.w2 = NoWindow,
           NEW from \in Nat, NEW to \in Nat, from <= to, to <= Len(all)
    PROVE  Holds(ColapseWindow(c, from, to), Cut(all, from, to))
<1> DEFINE cut == Cut(all, from, to)
           v == [c.w1 EXCEPT !.bytes = cut]
<1>1. /\ c = [w1 |-> c.w1, w2 |-> c.w2, file |-> c.file, first |-> c.first]
      /\ all \in Seq(Values) /\ Len(all) \in Nat /\ mCacheSize \in Nat \ {0} /\ c.first \in BOOLEAN
      /\ Shows(c.w1, all) /\ c.w1.start = 0 /\ Len(all) <= mCacheSize
  BY HoldsParts
<1>2. c.w1.bytes = all /\ c.w1 \in Windows
  BY <1>1, WholeWindow, ShowsParts
<1>3. cut \in Seq(Values) /\ Len(cut) = Len(all) - (to - from)
  BY <1>1, CutIs
<1>4. ColapseWindow(c, from, to) = [c EXCEPT !.w1 = v]
  BY <1>2 DEF ColapseWindow, Cut
<1> HIDE DEF cut
<1>5. v \in Windows /\ v.start = 0 /\ v.bytes = cut
  BY <1>1, <1>2, <1>3, BytesWith
<1> HIDE DEF v
<1>6. ColapseWindow(c, from, to) = [w1 |-> v, w2 |-> NoWindow, file |-> NoFile, first |-> c.first]
  BY <1>1, <1>4, FirstWith
<1>7. Len(cut) \in Nat /\ Len(cut) <= mCacheSize
  BY <1>1, <1>3
<1>8. Shows(v, v.bytes)
  BY <1>3, <1>5, <1>7, WholeShows
<1>9. Holds([w1 |-> v, w2 |-> NoWindow, file |-> NoFile, first |-> c.first], cut)
  BY <1>1, <1>3, <1>5, <1>7, <1>8, HoldsInWindows
<1> QED
  BY <1>6, <1>9 DEF cut

LEMMA ColapseWindowsIs ==
    ASSUME NEW c, NEW all, Holds(c, all), c.file = NoFile, c.w2 # NoWindow,
           NEW from \in Nat, NEW to \in Nat, from <= to, to <= Len(all)
    PROVE  Holds(ColapseWindows(c, from, to), Cut(all, from, to))
<1> DEFINE rest == SubSeq(all, to + 1, Len(all))
           over == Over(all, from, rest, Len(rest))
           moved == WriteAll(c, from, rest)
           size == Len(all) - (to - from)
           cut == Cut(all, from, to)
<1>1. all \in Seq(Values) /\ Len(all) \in Nat /\ mCacheSize \in Nat \ {0} /\ Len(all) <= 2 * mCacheSize
  BY HoldsParts
<1>2. size \in Nat /\ size <= Len(all) /\ from \in 0 .. Len(all)
  BY <1>1
<1>3. Size(c) = Len(all)
  BY SizeIs
<1>4. ReadAll(c, to, Len(all) - to).bytes = rest
  <2>1. PICK end \in Nat : end = Len(all)
    BY <1>1
  <2>2. to <= end /\ end <= Len(all)
    BY <2>1
  <2>3. ReadAll(c, to, end - to).bytes = SubSeq(all, to + 1, end)
    BY <2>2, ReadAllIs
  <2> QED
    BY <2>1, <2>3
<1>5. /\ rest \in Seq(Values) /\ Len(rest) = Len(all) - to
      /\ OverLen(all, from, Len(rest)) = Len(all)
      /\ SubSeq(over, 1, size) = cut
  BY <1>1, MovedAndCut
<1>6. over \in Seq(Values) /\ Len(over) = Len(all)
  <2>1. Len(rest) \in 0 .. Len(rest)
    BY <1>1, <1>5
  <2>2. over \in Seq(Values) /\ Len(over) = OverLen(all, from, Len(rest))
    BY ZenonT(30), <2>1, <1>1, <1>2, <1>5, OverTyped
  <2> QED
    BY <2>2, <1>5
<1>7. cut \in Seq(Values) /\ Len(cut) = size
  <2>1. Cut(all, from, to) \in Seq(Values) /\ Len(Cut(all, from, to)) = Len(all) - (to - from)
    <3> HIDE DEF rest, over, moved, size, cut
    <3> QED
      BY <1>1, CutIs, ZenonT(30)
  <2> QED
    BY <2>1
<1>8. ColapseWindows(c, from, to) =
        IF size <= mCacheSize
        THEN [w1 |-> [moved.w1 EXCEPT !.bytes = SubSeq(@, 1, size)], w2 |-> NoWindow, file |-> NoFile, first |-> TRUE]
        ELSE [moved EXCEPT !.w2.bytes = SubSeq(@, 1, size - mCacheSize)]
  BY <1>3, <1>4 DEF ColapseWindows
<1>9. Holds(moved, over) /\ SameKind(moved, c)
  <2>1. from + Len(rest) <= Len(all)
    BY <1>1, <1>5
  <2> HIDE DEF rest
  <2> QED
    BY <2>1, <1>2, <1>5, WriteAllIs
<1> HIDE DEF rest, over, moved, size, cut
<1>10. moved.file = NoFile /\ moved.w2 # NoWindow
  BY <1>9 DEF SameKind
<1>11. /\ moved = [w1 |-> moved.w1, w2 |-> moved.w2, file |-> moved.file, first |-> moved.first]
       /\ moved.first \in BOOLEAN /\ Shows(moved.w1, over) /\ Shows(moved.w2, over)
       /\ moved.w1.start = 0 /\ moved.w2.start = mCacheSize
  BY <1>9, <1>10, HoldsParts
<1>12. size \in 0 .. Len(over)
  BY <1>1, <1>2, <1>6
<1>13. CASE size <= mCacheSize
  <2> DEFINE v == [moved.w1 EXCEPT !.bytes = SubSeq(@, 1, size)]
  <2>1. moved.w1.start <= size /\ size <= moved.w1.start + mCacheSize /\ size - moved.w1.start = size
    BY <1>1, <1>2, <1>11, <1>13
  <2>2. v = [moved.w1 EXCEPT !.bytes = SubSeq(@, 1, size - moved.w1.start)]
    BY <2>1
  <2>3. ColapseWindows(c, from, to) = [w1 |-> v, w2 |-> NoWindow, file |-> NoFile, first |-> TRUE]
    BY <1>8, <1>13
  <2> HIDE DEF v
  <2>4. Shows(v, SubSeq(over, 1, size)) /\ v.start = moved.w1.start
    BY <2>1, <2>2, <1>6, <1>11, <1>12, TrimmedShows
  <2>5. Shows(v, cut) /\ v.start = 0
    BY <2>4, <1>5, <1>11
  <2>6. Len(cut) <= mCacheSize
    BY <1>7, <1>13
  <2>7. Holds([w1 |-> v, w2 |-> NoWindow, file |-> NoFile, first |-> TRUE], cut)
    BY <2>5, <2>6, <1>7, HoldsInWindows
  <2> QED
    BY <2>3, <2>7 DEF cut
<1>14. CASE ~(size <= mCacheSize)
  <2> DEFINE v == [moved.w2 EXCEPT !.bytes = SubSeq(@, 1, size - mCacheSize)]
             d == [w1 |-> moved.w1, w2 |-> v, file |-> NoFile, first |-> moved.first]
  <2>1. /\ moved.w2.start <= size /\ size <= moved.w2.start + mCacheSize
        /\ moved.w1.start + mCacheSize <= size /\ size <= 2 * mCacheSize
    BY <1>1, <1>2, <1>11, <1>14
  <2>2. v = [moved.w2 EXCEPT !.bytes = SubSeq(@, 1, size - moved.w2.start)]
    BY <1>11
  <2>3. ColapseWindows(c, from, to) = d
    <3>1. ColapseWindows(c, from, to) = [moved EXCEPT !.w2 = v]
      BY <1>8, <1>14
    <3> HIDE DEF v
    <3>2. [moved EXCEPT !.w2 = v] = [w1 |-> moved.w1, w2 |-> v, file |-> moved.file, first |-> moved.first]
      BY <1>11, FirstWith
    <3> QED
      BY <3>1, <3>2, <1>10
  <2> HIDE DEF v
  <2>4. Shows(v, SubSeq(over, 1, size)) /\ v.start = moved.w2.start
    BY <2>1, <2>2, <1>6, <1>11, <1>12, TrimmedShows
  <2>5. Shows(moved.w1, SubSeq(over, 1, size))
    BY <2>1, <1>6, <1>11, <1>12, BeforeEndShows
  <2>6. /\ Shows(v, cut) /\ v.start = mCacheSize /\ Shows(moved.w1, cut)
        /\ Len(cut) <= 2 * mCacheSize
    BY <2>1, <2>4, <2>5, <1>5, <1>7, <1>11
  <2>7. Holds(d, cut)
    BY <2>6, <1>7, <1>11, HoldsInWindows
  <2> QED
    BY <2>3, <2>7 DEF cut
<1> QED
  BY <1>13, <1>14

\* Both windows written: the file has the string.
LEMMA BothWritten ==
    ASSUME NEW c, NEW all, Holds(c, all), c.file # NoFile
    PROVE  FileIs(Written(Written(c.file, c.w1), c.w2), all)
<1> DEFINE str == Contents(c.file)
           f1 == Written(c.file, c.w1)
           f2 == Written(f1, c.w2)
<1>1. /\ all \in Seq(Values) /\ Len(all) \in Nat /\ Shows(c.w1, all) /\ Shows(c.w2, all)
      /\ FileIs(c.file, str) /\ Backed(c.w1, c.w2, str, all) /\ Len(str) \in Nat
      /\ c.w2.start \in Nat
  <2>1. /\ all \in Seq(Values) /\ Len(all) \in Nat /\ Shows(c.w1, all) /\ Shows(c.w2, all)
        /\ FileIs(c.file, str) /\ Backed(c.w1, c.w2, str, all) /\ Len(str) \in Nat
    BY HoldsParts
  <2>2. c.w2.start \in Nat
    BY <2>1, ShowsParts
  <2> QED
    BY <2>1, <2>2
<1> HIDE DEF str
<1>2. /\ Len(str) <= Len(all) /\ c.w1.start <= Len(str) /\ c.w2.start <= Len(str)
  BY <1>1 DEF Backed
<1>3. \A p \in 0 .. Len(all) - 1 :
        Changed(c.w1, p) \/ Changed(c.w2, p) \/ (p < Len(str) /\ str[p + 1] = all[p + 1])
  BY <1>1 DEF Backed
<1>4. PICK s1 :
        /\ FileIs(f1, s1) /\ Len(str) <= Len(s1) /\ Len(s1) <= Len(all)
        /\ \A p \in Nat : p < Len(all) =>
            /\ Changed(c.w1, p) => p < Len(s1) /\ s1[p + 1] = all[p + 1]
            /\ ~Changed(c.w1, p) /\ p < Len(str) => p < Len(s1) /\ s1[p + 1] = str[p + 1]
  BY <1>1, <1>2, WrittenIs
<1> HIDE DEF f1
<1>5. s1 \in Seq(Values) /\ Len(s1) \in Nat /\ c.w2.start <= Len(s1)
  <2>1. s1 \in Seq(Values)
    BY <1>4 DEF FileIs
  <2>2. Len(s1) \in Nat
    BY <2>1, LenProperties
  <2>3. Len(str) <= Len(s1)
    BY <1>4
  <2> QED
    BY <2>1, <2>2, <2>3, <1>1, <1>2
<1>6. PICK s2 :
        /\ FileIs(f2, s2) /\ Len(s1) <= Len(s2) /\ Len(s2) <= Len(all)
        /\ \A p \in Nat : p < Len(all) =>
            /\ Changed(c.w2, p) => p < Len(s2) /\ s2[p + 1] = all[p + 1]
            /\ ~Changed(c.w2, p) /\ p < Len(s1) => p < Len(s2) /\ s2[p + 1] = s1[p + 1]
  <2>1. FileIs(f1, s1) /\ Len(s1) <= Len(all)
    BY <1>4
  <2> QED
    BY <2>1, <1>1, <1>5, WrittenIs
<1> HIDE DEF f2
<1>7. s2 \in Seq(Values) /\ Len(s2) \in Nat
  <2>1. s2 \in Seq(Values)
    BY <1>6 DEF FileIs
  <2> QED
    BY <2>1, LenProperties
<1>8. ASSUME NEW p \in 0 .. Len(all) - 1 PROVE p < Len(s2) /\ s2[p + 1] = all[p + 1]
  <2>1. p \in Nat /\ p < Len(all)
    BY <1>1
  <2>2. CASE Changed(c.w2, p)
    BY <2>1, <2>2, <1>6
  <2>3. CASE ~Changed(c.w2, p)
    <3>1. p < Len(s1) /\ s1[p + 1] = all[p + 1]
      <4>1. CASE Changed(c.w1, p)
        BY <2>1, <4>1, <1>4
      <4>2. CASE ~Changed(c.w1, p)
        <5>1. p < Len(str) /\ str[p + 1] = all[p + 1]
          BY <2>3, <4>2, <1>3
        <5> QED
          BY <2>1, <4>2, <5>1, <1>4
      <4> QED
        BY <4>1, <4>2
    <3>2. p < Len(s2) /\ s2[p + 1] = s1[p + 1]
      BY <2>1, <2>3, <3>1, <1>6
    <3> QED
      BY <3>1, <3>2
  <2> QED
    BY <2>2, <2>3
<1>9. Len(s2) = Len(all)
  <2>1. Len(s2) <= Len(all)
    BY <1>6
  <2>2. CASE Len(all) = 0
    BY <2>1, <2>2, <1>7
  <2>3. CASE Len(all) # 0
    <3>1. Len(all) - 1 \in 0 .. Len(all) - 1
      BY <2>3, <1>1
    <3>2. Len(all) - 1 < Len(s2)
      BY <3>1, <1>8
    <3> QED
      BY <2>1, <3>2, <1>1, <1>7
  <2> QED
    BY <2>2, <2>3
<1>10. ASSUME NEW i \in 1 .. Len(s2) PROVE s2[i] = all[i]
  <2> DEFINE p == i - 1
  <2>1. p \in 0 .. Len(all) - 1 /\ p + 1 = i
    BY <1>1, <1>9
  <2> HIDE DEF p
  <2>2. s2[p + 1] = all[p + 1]
    BY <2>1, <1>8
  <2> QED
    BY <2>1, <2>2
<1>11. s2 = all
  BY <1>1, <1>7, <1>9, <1>10, SeqEqual
<1>12. FileIs(f2, s2)
  BY <1>6
<1>13. f2 = Written(Written(c.file, c.w1), c.w2)
  BY DEF f1, f2
<1> QED
  BY <1>11, <1>12, <1>13

LEMMA ColapseFileIs ==
    ASSUME NEW c, NEW all, Holds(c, all), c.file # NoFile,
           NEW from \in Nat, NEW to \in Nat, from <= to, to <= Len(all)
    PROVE  Holds(ColapseFile(c, from, to), Cut(all, from, to))
<1> DEFINE f == File!Colapse(Written(Written(c.file, c.w1), c.w2), from, to)
           size == File!Size(f)
           next == IF from < mCacheSize THEN mCacheSize ELSE from - (from % mCacheSize)
           cut == Cut(all, from, to)
<1>1. ColapseFile(c, from, to) =
        IF size <= mCacheSize
        THEN [w1 |-> Loaded(f, 0), w2 |-> NoWindow, file |-> NoFile, first |-> TRUE]
        ELSE IF size <= 2 * mCacheSize
        THEN [w1 |-> Loaded(f, 0), w2 |-> Loaded(f, mCacheSize), file |-> NoFile, first |-> c.first]
        ELSE [w1 |-> Loaded(f, 0), w2 |-> Loaded(f, next), file |-> f, first |-> FALSE]
  BY DEF ColapseFile
<1>2. all \in Seq(Values) /\ Len(all) \in Nat /\ mCacheSize \in Nat \ {0} /\ c.first \in BOOLEAN
  BY HoldsParts
<1>3. FileIs(f, cut)
  <2> DEFINE g == Written(Written(c.file, c.w1), c.w2)
  <2>1. FileIs(g, all)
    BY BothWritten
  <2> HIDE DEF g
  <2>2. FileIs(File!Colapse(g, from, to), Cut(all, from, to))
    BY <2>1, FileColapseIs
  <2> QED
    BY <2>2 DEF g
<1>4. cut \in Seq(Values) /\ Len(cut) = Len(all) - (to - from)
  BY <1>2, CutIs
<1>5. size = Len(cut) /\ Len(cut) \in Nat /\ from <= Len(cut)
  <2>1. size = Len(cut)
    BY <1>3 DEF FileIs
  <2> QED
    BY <2>1, <1>2, <1>4
<1> HIDE DEF f, cut
<1>6. ASSUME NEW start \in Nat, start % mCacheSize = 0, start <= Len(cut)
      PROVE  /\ Shows(Loaded(f, start), cut)
             /\ Loaded(f, start).start = start /\ Loaded(f, start).dirty = FALSE
  <2>1. Current(cut, cut, start)
    BY DEF Current
  <2>2. Len(cut) <= Len(cut)
    BY <1>5
  <2> QED
    BY <2>1, <2>2, <1>3, <1>4, <1>6, LoadedIs
<1>7. Shows(Loaded(f, 0), cut) /\ Loaded(f, 0).start = 0
  <2>1. 0 \in Nat /\ 0 % mCacheSize = 0 /\ 0 <= Len(cut)
    BY <1>5, FirstStarts
  <2> QED
    BY <2>1, <1>6
<1>8. CASE size <= mCacheSize
  <2>1. Holds([w1 |-> Loaded(f, 0), w2 |-> NoWindow, file |-> NoFile, first |-> TRUE], cut)
    BY <1>4, <1>5, <1>7, <1>8, HoldsInWindows
  <2> QED
    BY <2>1, <1>1, <1>8 DEF cut
<1>9. CASE ~(size <= mCacheSize) /\ size <= 2 * mCacheSize
  <2>1. mCacheSize \in Nat /\ mCacheSize % mCacheSize = 0 /\ mCacheSize <= Len(cut)
    <3>1. mCacheSize \in Nat /\ mCacheSize <= Len(cut)
      BY <1>2, <1>5, <1>9
    <3> QED
      BY <3>1, FirstStarts
  <2>2. Shows(Loaded(f, mCacheSize), cut) /\ Loaded(f, mCacheSize).start = mCacheSize
    BY <2>1, <1>6
  <2>3. Len(cut) <= 2 * mCacheSize
    BY <1>5, <1>9
  <2>4. Holds([w1 |-> Loaded(f, 0), w2 |-> Loaded(f, mCacheSize), file |-> NoFile, first |-> c.first], cut)
    BY <2>2, <2>3, <1>2, <1>4, <1>7, HoldsInWindows
  <2> QED
    BY <2>4, <1>1, <1>9 DEF cut
<1>10. CASE ~(size <= mCacheSize) /\ ~(size <= 2 * mCacheSize)
  <2>1. next \in Nat /\ next % mCacheSize = 0 /\ next <= Len(cut) /\ next # 0
    <3>1. CASE from < mCacheSize
      <4>1. next = mCacheSize /\ mCacheSize <= Len(cut) /\ mCacheSize \in Nat /\ mCacheSize # 0
        BY <3>1, <1>2, <1>5, <1>10
      <4> QED
        BY <4>1, FirstStarts
    <3>2. CASE ~(from < mCacheSize)
      <4> DEFINE start == from - (from % mCacheSize)
      <4>1. /\ start \in Nat /\ start % mCacheSize = 0
            /\ start <= from /\ from < start + mCacheSize
        BY StartOf
      <4>2. next = start
        BY <3>2
      <4> HIDE DEF start, next
      <4>3. start # 0 /\ start <= Len(cut)
        BY <4>1, <3>2, <1>2, <1>5
      <4> QED
        BY <4>1, <4>2, <4>3
    <3> QED
      BY <3>1, <3>2
  <2> HIDE DEF next
  <2>2. Shows(Loaded(f, next), cut) /\ Loaded(f, next).start = next
    BY <2>1, <1>6
  <2>3. Backed(Loaded(f, 0), Loaded(f, next), cut, cut)
    <3>1. \A p \in 0 .. Len(cut) - 1 : p < Len(cut)
      BY <1>5
    <3>2. Loaded(f, 0).start <= Len(cut) /\ Loaded(f, next).start <= Len(cut) /\ Len(cut) <= Len(cut)
      BY <2>1, <2>2, <1>5, <1>7
    <3> QED
      BY <3>1, <3>2 DEF Backed
  <2>4. f # NoFile
    <3>1. Len(cut) > 0
      BY <1>2, <1>5, <1>10
    <3> QED
      BY <3>1, <1>3, NotNoFile
  <2>5. Loaded(f, 0).start # Loaded(f, next).start
    BY <2>1, <2>2, <1>7
  <2>6. Holds([w1 |-> Loaded(f, 0), w2 |-> Loaded(f, next), file |-> f, first |-> FALSE], cut)
    BY <2>2, <2>3, <2>4, <2>5, <1>3, <1>4, <1>7, HoldsOverFile
  <2> QED
    BY <2>6, <1>1, <1>10 DEF cut
<1> QED
  BY <1>8, <1>9, <1>10
-----------------------------------------------------------------------------
(* The calls. *)

\* What a write leaves.
LEMMA OverIs ==
    ASSUME NEW str \in Seq(Values), NEW chunk \in Seq(Values), NEW to \in 0 .. Len(str)
    PROVE  SubSeq(str, 1, to) \o chunk \o SubSeq(str, to + Len(chunk) + 1, Len(str))
            = Over(str, to, chunk, Len(chunk))
<1> DEFINE n == Len(chunk)
           a == SubSeq(str, 1, to)
           b == SubSeq(str, to + n + 1, Len(str))
           over == Over(str, to, chunk, n)
           size == OverLen(str, to, n)
           all == a \o chunk \o b
<1>1. n \in Nat /\ Len(str) \in Nat /\ to \in Nat /\ to <= Len(str) /\ n \in 0 .. n
  BY LenProperties
<1>2. /\ over \in Seq(Values) /\ Len(over) = size
      /\ \A i \in 1 .. size : over[i] = IF to < i /\ i <= to + n THEN chunk[i - to] ELSE str[i]
  BY <1>1, OverTyped
<1>3. a \in Seq(Values) /\ Len(a) = to /\ \A i \in 1 .. to : a[i] = str[i]
  BY <1>1, HeadIs
<1>4. /\ b \in Seq(Values) /\ Len(b) = size - (to + n)
      /\ \A i \in 1 .. size - (to + n) : b[i] = str[(to + n) + i]
  <2>1. CASE to + n <= Len(str)
    <3>1. size = Len(str) /\ to + n \in Nat
      BY <2>1, <1>1 DEF OverLen
    <3> QED
      BY <2>1, <3>1, <1>1, PartIs
  <2>2. CASE ~(to + n <= Len(str))
    <3>1. size - (to + n) = 0 /\ to + n + 1 > Len(str) /\ to + n + 1 \in Nat
      BY <2>2, <1>1 DEF OverLen
    <3>2. b = <<>>
      BY <3>1, <1>1, SubSeqProperties
    <3> QED
      BY <3>1, <3>2, EmptySeq
  <2> QED
    BY <2>1, <2>2
<1>5. size \in Nat /\ to + n <= size /\ to + n \in Nat
  BY <1>1 DEF OverLen
<1> HIDE DEF a, b, over, size, n
<1>6. /\ a \o chunk \in Seq(Values) /\ Len(a \o chunk) = to + n
      /\ \A i \in 1 .. to + n : (a \o chunk)[i] = IF i <= to THEN a[i] ELSE chunk[i - to]
  BY <1>3, ConcatProperties DEF n
<1>7. /\ all \in Seq(Values) /\ Len(all) = size
      /\ \A i \in 1 .. size : all[i] = IF i <= to + n THEN (a \o chunk)[i] ELSE b[i - (to + n)]
  <2> DEFINE head == a \o chunk
  <2>1. head \in Seq(Values) /\ Len(head) = to + n
    BY <1>6
  <2> HIDE DEF head
  <2>2. /\ head \o b \in Seq(Values) /\ Len(head \o b) = (to + n) + (size - (to + n))
        /\ \A i \in 1 .. (to + n) + (size - (to + n)) :
            (head \o b)[i] = IF i <= to + n THEN head[i] ELSE b[i - (to + n)]
    <3>1. /\ head \o b \in Seq(Values) /\ Len(head \o b) = Len(head) + Len(b)
          /\ \A i \in 1 .. Len(head) + Len(b) :
              (head \o b)[i] = IF i <= Len(head) THEN head[i] ELSE b[i - Len(head)]
      BY <2>1, <1>4, ConcatProperties
    <3>2. Len(head) = to + n /\ Len(b) = size - (to + n)
      BY <2>1, <1>4
    <3> QED
      BY <3>1, <3>2
  <2>3. (to + n) + (size - (to + n)) = size
    BY <1>5
  <2> QED
    BY <2>2, <2>3 DEF head
<1> HIDE DEF all
<1>8. ASSUME NEW i \in 1 .. size PROVE all[i] = over[i]
  <2>0. i \in Nat /\ i >= 1 /\ i <= size
    BY <1>5
  <2>1. CASE i <= to
    <3>1. i \in 1 .. to /\ i \in 1 .. to + n /\ i <= to + n /\ ~(to < i)
      BY <2>0, <2>1, <1>1
    <3> QED
      BY <2>1, <3>1, <1>2, <1>3, <1>6, <1>7
  <2>2. CASE to < i /\ i <= to + n
    <3>1. i \in 1 .. to + n /\ ~(i <= to)
      BY <2>0, <2>2, <1>1
    <3> QED
      BY <2>2, <3>1, <1>2, <1>6, <1>7
  <2>3. CASE ~(i <= to + n)
    <3> DEFINE k == i - (to + n)
    <3>1. k \in 1 .. size - (to + n) /\ (to + n) + k = i
      BY <2>0, <2>3, <1>5
    <3> HIDE DEF k
    <3>2. b[k] = str[i]
      BY <3>1, <1>4
    <3>3. all[i] = b[k]
      BY <2>3, <1>7 DEF k
    <3> QED
      BY <2>3, <3>2, <3>3, <1>2
  <2> QED
    BY <2>0, <2>1, <2>2, <2>3, <1>1
<1>9. all = over
  BY <1>2, <1>7, <1>8, SeqEqual
<1> QED
  BY <1>9 DEF all, a, b, over, n

LEMMA ChunksAre == ASSUME NEW chunk \in Chunks PROVE chunk \in Seq(Values)
<1>1. PICK n \in 1 .. MaxChunk : chunk \in [1 .. n -> Values]
  BY DEF Chunks
<1>2. n \in Nat
  BY TempContainerAssumption
<1> QED
  BY <1>1, <1>2, SeqDef

\* A call leaves the container that it says.
LEMMA BecomeIs ==
    ASSUME NEW c, NEW all, Holds(c, all), Become(c)
    PROVE  Container' = c
<1>1. c = [w1 |-> c.w1, w2 |-> c.w2, file |-> c.file, first |-> c.first]
  BY HoldsParts
<1>2. Container' = [w1 |-> c.w1, w2 |-> c.w2, file |-> c.file, first |-> c.first]
  BY DEF Become, Container
<1> QED
  BY <1>1, <1>2

LEMMA InitHolds == Init => IInv
<1> SUFFICES ASSUME Init PROVE IInv
  OBVIOUS
<1> DEFINE v == Window(0, <<>>, FALSE)
<1>1. <<>> \in Seq(Values) /\ Len(<<>>) = 0
  BY EmptySeq
<1>2. v \in Windows /\ v.start = 0 /\ v.bytes = <<>>
  BY <1>1, WindowIs
<1> HIDE DEF v
<1>3. mCacheSize \in Nat
  BY Sizes
<1>4. Shows(v, <<>>)
  <2>1. v.bytes \in Seq(Values) /\ Len(v.bytes) = 0
    BY <1>1, <1>2
  <2>2. Len(v.bytes) <= mCacheSize
    BY <2>1, <1>3
  <2>3. Shows(v, v.bytes)
    BY <2>1, <2>2, <1>2, WholeShows
  <2> QED
    BY <2>3, <1>2
<1>5. Holds([w1 |-> v, w2 |-> NoWindow, file |-> NoFile, first |-> TRUE], <<>>)
  <2>1. Len(<<>>) <= mCacheSize
    BY <1>1, <1>3
  <2>2. <<>> \in Seq(Values) /\ v.start = 0
    BY <1>1, <1>2
  <2> QED
    BY <2>1, <2>2, <1>4, HoldsInWindows
<1>6. Container = [w1 |-> v, w2 |-> NoWindow, file |-> NoFile, first |-> TRUE] /\ bytes = <<>>
  BY DEF Init, Container, v
<1> QED
  BY <1>5, <1>6 DEF IInv

LEMMA WriteHolds ==
    ASSUME IInv, NEW to \in 0 .. MaxSize, NEW chunk \in Chunks, Write(to, chunk)
    PROVE  IInv'
<1> DEFINE over == Over(bytes, to, chunk, Len(chunk))
           next == WriteAll(Container, to, chunk)
<1>1. Holds(Container, bytes) /\ bytes \in Seq(Values) /\ Len(bytes) \in Nat
  BY HoldsParts DEF IInv
<1>2. chunk \in Seq(Values)
  BY ChunksAre
<1>3. to \in 0 .. Len(bytes)
  <2>1. Size(Container) = Len(bytes) /\ to <= Size(Container)
    BY <1>1, SizeIs DEF Write
  <2>2. to >= 0 /\ to \in Int
    OBVIOUS
  <2> QED
    BY <2>1, <2>2, <1>1
<1>4. Holds(next, over)
  BY <1>1, <1>2, <1>3, WriteAllIs
<1>5. bytes' = over
  <2>1. bytes' = SubSeq(bytes, 1, to) \o chunk \o SubSeq(bytes, to + Len(chunk) + 1, Len(bytes))
    BY DEF Write
  <2> QED
    BY <2>1, <1>1, <1>2, <1>3, OverIs
<1>6. Become(next)
  BY DEF Write
<1> HIDE DEF next, over
<1>7. Container' = next
  BY <1>4, <1>6, BecomeIs
<1> QED
  BY <1>4, <1>5, <1>7 DEF IInv

LEMMA ReadHolds ==
    ASSUME IInv, NEW from \in 0 .. MaxSize, NEW size \in 1 .. MaxChunk, Read(from, size)
    PROVE  IInv'
<1> DEFINE to == from + size
           next == ReadAll(Container, from, size).c
<1>1. Holds(Container, bytes) /\ Len(bytes) \in Nat
  BY HoldsParts DEF IInv
<1>2. from \in Nat /\ to \in Nat /\ from <= to /\ to - from = size /\ to <= Len(bytes)
  <2>1. Size(Container) = Len(bytes) /\ to <= Size(Container)
    BY <1>1, SizeIs DEF Read
  <2> QED
    BY <2>1
<1>3. Holds(next, bytes)
  <2> HIDE DEF to
  <2>1. Holds(ReadAll(Container, from, to - from).c, bytes)
    BY <1>1, <1>2, ReadAllIs
  <2> QED
    BY <2>1, <1>2
<1>4. Become(next) /\ bytes' = bytes
  BY DEF Read
<1> HIDE DEF next
<1>5. Container' = next
  BY <1>3, <1>4, BecomeIs
<1> QED
  BY <1>3, <1>4, <1>5 DEF IInv

LEMMA ColapseHolds ==
    ASSUME IInv, NEW from \in 0 .. MaxSize, NEW to \in 0 .. MaxSize, Colapse(from, to)
    PROVE  IInv'
<1> DEFINE cut == Cut(bytes, from, to)
           next == IF file # NoFile THEN ColapseFile(Container, from, to)
                   ELSE IF w2 # NoWindow THEN ColapseWindows(Container, from, to)
                   ELSE ColapseWindow(Container, from, to)
<1>1. Holds(Container, bytes) /\ Len(bytes) \in Nat /\ Container.file = file /\ Container.w2 = w2
  BY HoldsParts DEF IInv, Container
<1>2. from \in Nat /\ to \in Nat /\ from <= to /\ to <= Len(bytes)
  <2>1. Size(Container) = Len(bytes) /\ to <= Size(Container) /\ from <= to
    BY <1>1, SizeIs DEF Colapse
  <2> QED
    BY <2>1
<1>3. Holds(next, cut)
  <2>1. CASE file # NoFile
    <3>1. Holds(ColapseFile(Container, from, to), cut)
      BY <2>1, <1>1, <1>2, ColapseFileIs
    <3> QED
      BY <2>1, <3>1
  <2>2. CASE file = NoFile /\ w2 # NoWindow
    <3>1. Holds(ColapseWindows(Container, from, to), cut)
      BY <2>2, <1>1, <1>2, ColapseWindowsIs
    <3> QED
      BY <2>2, <3>1
  <2>3. CASE file = NoFile /\ w2 = NoWindow
    <3>1. Holds(ColapseWindow(Container, from, to), cut)
      BY <2>3, <1>1, <1>2, ColapseWindowIs
    <3> QED
      BY <2>3, <3>1
  <2> QED
    BY <2>1, <2>2, <2>3
<1>4. Become(next) /\ bytes' = cut
  BY DEF Colapse, Cut
<1> HIDE DEF next, cut
<1>5. Container' = next
  BY <1>3, <1>4, BecomeIs
<1> QED
  BY <1>3, <1>4, <1>5 DEF IInv

LEMMA StepHolds == IInv /\ [Next]_vars => IInv'
<1> SUFFICES ASSUME IInv, [Next]_vars PROVE IInv'
  OBVIOUS
<1>1. CASE \E to \in 0 .. MaxSize, chunk \in Chunks : Write(to, chunk)
  BY <1>1, WriteHolds
<1>2. CASE \E from \in 0 .. MaxSize, size \in 1 .. MaxChunk : Read(from, size)
  BY <1>2, ReadHolds
<1>3. CASE \E from, to \in 0 .. MaxSize : Colapse(from, to)
  BY <1>3, ColapseHolds
<1>4. CASE UNCHANGED vars
  BY <1>4 DEF vars, IInv, Container
<1> QED
  BY <1>1, <1>2, <1>3, <1>4 DEF Next

\* Whatever calls were made, the windows and the file together are the string
\* of bytes that was written: each window has a part of it, and what no
\* changed window has is in the file (TemporalContainer of ps_container.cpp).
THEOREM ContainerIsString == Spec => []IInv
<1> QED
  BY InitHolds, StepHolds, PTL DEF Spec

LEMMA HoldsReads == IInv => HoldsWhatWasWritten
<1> SUFFICES ASSUME IInv PROVE HoldsWhatWasWritten
  OBVIOUS
<1>1. Holds(Container, bytes) /\ Len(bytes) \in Nat
  BY HoldsParts DEF IInv
<1>2. Size(Container) = Len(bytes)
  BY <1>1, SizeIs
<1>3. ASSUME NEW from \in 0 .. Len(bytes), NEW to \in from .. Len(bytes)
      PROVE  ReadAll(Container, from, to - from).bytes = SubSeq(bytes, from + 1, to)
  <2>1. from \in Nat /\ to \in Nat /\ from <= to /\ to <= Len(bytes)
    BY <1>1
  <2> QED
    BY <2>1, <1>1, ReadAllIs
<1> QED
  BY <1>2, <1>3 DEF HoldsWhatWasWritten

\* Whatever writes, reads and removals have moved the windows over the file,
\* a container has the size that the calls should have left and Read of any
\* part of it returns the bytes that were written there.
THEOREM ReadsWhatWasWritten == Spec => []HoldsWhatWasWritten
<1> QED
  BY ContainerIsString, HoldsReads, PTL
=============================================================================
