---------------------------- MODULE BTreeProofs -----------------------------
(***************************************************************************)
(* Proofs about BTree, for any sets of values and rows, any sizes of nodes *)
(* and any tree that operations can make, when no value is null.           *)
(*                                                                         *)
(* First what the operators do to keys, nodes and trees, each as a lemma   *)
(* about every tree; then that each action keeps the invariant; then what  *)
(* follows from it, for the shape of the tree, for the set of its keys and *)
(* for the scans.  The recursive functions of the model (a search in a     *)
(* node, a walk down, along the leaves or along the free nodes) are turned *)
(* into sequences of steps, and induction over these is by the smallest    *)
(* natural that contradicts (ByInduction).                                 *)
(***************************************************************************)
EXTENDS BTreeInvariant, SequenceTheorems, FiniteSetTheorems, WellFoundedInduction, TLAPS

-----------------------------------------------------------------------------
(* Naturals. *)

LEMMA ByInduction ==
    ASSUME NEW S, 0 \in S, \A n \in Nat : n \in S => n + 1 \in S
    PROVE  Nat \subseteq S
<1> DEFINE T == {k \in Nat : k \notin S}
           R == OpToRel(<, Nat)
<1> SUFFICES ASSUME T # {} PROVE FALSE
  OBVIOUS
<1>1. IsWellFoundedOn(R, Nat)
  BY NatLessThanWellFounded
<1>2. R = {ss \in Nat \X Nat : ss[1] < ss[2]}
  BY DEF OpToRel
<1> HIDE DEF R
<1>3. PICK m \in T : \A y \in T : ~(<<y, m>> \in R)
  BY <1>1, WFMin
<1>4. m # 0 /\ m - 1 \in Nat /\ m - 1 < m /\ (m - 1) + 1 = m
  BY <1>3
<1>5. m - 1 \in T
  BY <1>3, <1>4
<1>6. <<m - 1, m>> \in R
  <2>1. m \in Nat
    BY <1>3
  <2> QED
    BY <2>1, <1>2, <1>4
<1> QED
  BY <1>3, <1>5, <1>6

LEMMA MaxOfIs ==
    ASSUME NEW S, S \subseteq Nat, IsFiniteSet(S), S # {}
    PROVE  MaxOf(S) \in S /\ \A x \in S : x <= MaxOf(S)
<1> DEFINE HasMax(A) == \E m \in A : \A x \in A : x <= m
           T == {n \in Nat : \A A \in SUBSET Nat :
                    IsFiniteSet(A) /\ A # {} /\ Cardinality(A) = n => HasMax(A)}
<1>1. 0 \in T
  BY FS_EmptySet
<1>2. ASSUME NEW n \in Nat, n \in T PROVE n + 1 \in T
  <2>1. ASSUME NEW A \in SUBSET Nat, IsFiniteSet(A), A # {}, Cardinality(A) = n + 1
        PROVE  HasMax(A)
    <3>1. PICK a \in A : TRUE
      BY <2>1
    <3>2. IsFiniteSet(A \ {a}) /\ Cardinality(A \ {a}) = n
      <4>1. IsFiniteSet(A \ {a}) /\ Cardinality(A \ {a}) = Cardinality(A) - 1
        BY <2>1, <3>1, FS_RemoveElement
      <4> QED
        BY <2>1, <4>1
    <3>3. CASE A \ {a} = {}
      BY <3>1, <3>3
    <3>4. CASE A \ {a} # {}
      <4>1. A \ {a} \in SUBSET Nat
        OBVIOUS
      <4>2. PICK m \in A \ {a} : \A x \in A \ {a} : x <= m
        BY <1>2, <3>2, <3>4, <4>1
      <4>3. CASE a <= m
        BY <4>2, <4>3, <3>1
      <4>4. CASE ~(a <= m)
        <5>1. a \in Nat /\ m \in Nat /\ m <= a
          BY <4>4, <4>2, <3>1
        <5>2. ASSUME NEW x \in A PROVE x <= a
          BY <5>1, <4>2
        <5> QED
          BY <5>2, <3>1
      <4> QED
        BY <4>3, <4>4
    <3> QED
      BY <3>3, <3>4
  <2> HIDE DEF HasMax
  <2> QED
    BY <2>1
<1>3. Nat \subseteq T
  <2>1. \A n \in Nat : n \in T => n + 1 \in T
    BY <1>2
  <2> HIDE DEF T
  <2> QED
    BY <1>1, <2>1, ByInduction
<1>4. HasMax(S)
  BY <1>3, FS_CardinalityType
<1> QED
  BY <1>4 DEF MaxOf

LEMMA Multiples ==
    ASSUME NEW n \in Nat \ {0}, NEW a \in Nat, NEW b \in Nat, a < b
    PROVE  a * n \in Nat /\ b * n \in Nat /\ a * n + n <= b * n
<1> DEFINE c == b - a - 1
<1>1. c \in Nat /\ b = a + 1 + c
  OBVIOUS
<1>2. b * n = a * n + n + c * n /\ c * n \in Nat /\ a * n \in Nat
  BY <1>1
<1> QED
  BY <1>2

-----------------------------------------------------------------------------
(* Keys, when no value is null, are ordered as numbers are. *)

LEMMA KeyParts ==
    ASSUME NoNulls, NEW k \in AllKeys
    PROVE  /\ k = <<k[1], k[2]>> /\ k[1] \in Nat \ {0} /\ k[2] \in 0 .. MaxOf(Rows) + 1
           /\ MaxOf(Rows) \in Nat
           /\ k # SentinelKey => k[1] < SentinelKey[1]
<1>1. /\ MaxOf(Rows) \in Nat /\ \A r \in Rows : r \in Nat /\ r <= MaxOf(Rows)
      /\ MaxOf(Values) \in Nat /\ \A v \in Values : v \in Nat \ {0} /\ v <= MaxOf(Values)
  <2>1. Rows \subseteq Nat /\ IsFiniteSet(Rows) /\ Rows # {}
    BY BTreeAssumption
  <2>2. Values \subseteq Nat \ {0} /\ IsFiniteSet(Values) /\ Values # {} /\ Values \subseteq Nat
    BY BTreeAssumption
  <2>3. MaxOf(Rows) \in Rows /\ \A r \in Rows : r <= MaxOf(Rows)
    BY <2>1, MaxOfIs
  <2>4. MaxOf(Values) \in Values /\ \A v \in Values : v <= MaxOf(Values)
    BY <2>2, MaxOfIs
  <2> QED
    BY <2>1, <2>2, <2>3, <2>4
<1>2. SentinelKey = <<MaxOf(Values) + 1, MaxOf(Rows) + 1>>
  BY DEF SentinelKey
<1>3. CASE k = SentinelKey
  BY <1>1, <1>2, <1>3
<1>4. CASE k \in Keys
  <2>1. k \in Values \X Rows
    BY <1>4 DEF Keys, NoNulls
  <2> QED
    BY <2>1, <1>1, <1>2
<1> QED
  BY <1>3, <1>4 DEF AllKeys

LEMMA NumIs ==
    ASSUME NoNulls, NEW k \in AllKeys
    PROVE  Num(k) \in Nat \ {0} /\ Num(k) <= Top
<1> DEFINE m == MaxOf(Rows) + 2
<1>1. /\ m \in Nat \ {0} /\ k[1] \in Nat \ {0} /\ k[2] \in 0 .. m - 1
      /\ k # SentinelKey => k[1] < SentinelKey[1]
  BY KeyParts
<1>2. SentinelKey \in AllKeys
  BY DEF AllKeys
<1>3. SentinelKey[1] \in Nat /\ SentinelKey[2] \in 0 .. m - 1
  BY <1>2, KeyParts
<1>4. Num(k) = k[1] * m + k[2] /\ Top = SentinelKey[1] * m + SentinelKey[2]
  BY DEF Num, Top
<1> HIDE DEF m
<1>5. 0 * m \in Nat /\ k[1] * m \in Nat /\ 0 * m + m <= k[1] * m
  <2>1. 0 < k[1] /\ 0 \in Nat /\ k[1] \in Nat
    BY <1>1
  <2> QED
    BY <2>1, <1>1, Multiples
<1>6. CASE k = SentinelKey
  BY <1>6, <1>5, <1>4, <1>1
<1>7. CASE k # SentinelKey
  <2>1. SentinelKey[1] * m \in Nat /\ k[1] * m + m <= SentinelKey[1] * m
    BY <1>7, <1>1, <1>3, Multiples
  <2> QED
    BY <2>1, <1>5, <1>4, <1>1, <1>3
<1> QED
  BY <1>6, <1>7

LEMMA CompareIs ==
    ASSUME NoNulls, NEW a \in AllKeys, NEW b \in AllKeys
    PROVE  /\ CompareWith(a, b) \in Int
           /\ CompareWith(a, b) < 0 <=> Num(a) < Num(b)
           /\ CompareWith(a, b) > 0 <=> Num(a) > Num(b)
           /\ CompareWith(a, b) <= 0 <=> Num(a) <= Num(b)
           /\ a = b <=> Num(a) = Num(b)
<1> DEFINE m == MaxOf(Rows) + 2
<1>1. /\ m \in Nat \ {0} /\ a[1] \in Nat /\ a[2] \in 0 .. m - 1 /\ a = <<a[1], a[2]>>
      /\ b[1] \in Nat /\ b[2] \in 0 .. m - 1 /\ b = <<b[1], b[2]>>
  BY KeyParts
<1>2. Num(a) = a[1] * m + a[2] /\ Num(b) = b[1] * m + b[2]
  BY DEF Num
<1> HIDE DEF m
<1>3. Num(a) \in Nat /\ Num(b) \in Nat
  BY NumIs
<1>4. CASE a[1] < b[1]
  <2>1. Num(a) < Num(b)
    <3>1. a[1] * m \in Nat /\ b[1] * m \in Nat /\ a[1] * m + m <= b[1] * m
      BY <1>4, <1>1, Multiples
    <3> QED
      BY <3>1, <1>1, <1>2
  <2>2. CompareWith(a, b) = -1
    BY <1>4, <1>1 DEF CompareWith
  <2> QED
    BY <2>1, <2>2, <1>3
<1>5. CASE b[1] < a[1]
  <2>1. Num(b) < Num(a)
    <3>1. a[1] * m \in Nat /\ b[1] * m \in Nat /\ b[1] * m + m <= a[1] * m
      BY <1>5, <1>1, Multiples
    <3> QED
      BY <3>1, <1>1, <1>2
  <2>2. CompareWith(a, b) = 1
    BY <1>5, <1>1 DEF CompareWith
  <2> QED
    BY <2>1, <2>2, <1>3
<1>6. CASE a[1] = b[1]
  <2>1. b[1] * m \in Nat /\ Num(a) = b[1] * m + a[2]
    <3>1. b[1] * m \in Nat
      BY <1>1
    <3> QED
      BY <3>1, <1>6, <1>2
  <2>2. Num(a) < Num(b) <=> a[2] < b[2]
    BY <2>1, <1>1, <1>2
  <2>3. Num(a) > Num(b) <=> a[2] > b[2]
    BY <2>1, <1>1, <1>2
  <2>4. a = b <=> a[2] = b[2]
    BY <1>6, <1>1
  <2>5. CompareWith(a, b) = IF a[2] = b[2] THEN 0 ELSE IF a[2] < b[2] THEN -1 ELSE 1
    BY <2>4, <1>6, <1>1 DEF CompareWith
  <2>6. CASE a[2] = b[2]
    BY <2>2, <2>3, <2>4, <2>5, <2>6, <1>3, <1>1
  <2>7. CASE a[2] < b[2]
    BY <2>2, <2>3, <2>4, <2>5, <2>7, <1>3, <1>1
  <2>8. CASE a[2] > b[2]
    BY <2>2, <2>3, <2>4, <2>5, <2>8, <1>3, <1>1
  <2> QED
    BY <2>6, <2>7, <2>8, <1>1
<1> QED
  BY <1>4, <1>5, <1>6, <1>1

\* Searches may also be for what is below every key.
LowKey == <<Null, 0>>

Marks == AllKeys \cup {LowKey}

LEMMA CompareMark ==
    ASSUME NoNulls, NEW a \in Marks, NEW b \in AllKeys
    PROVE  /\ Num(a) \in Nat /\ Num(b) \in Nat
           /\ CompareWith(a, b) < 0 <=> Num(a) < Num(b)
           /\ CompareWith(a, b) > 0 <=> Num(a) > Num(b)
           /\ CompareWith(a, b) <= 0 <=> Num(a) <= Num(b)
<1>1. CASE a \in AllKeys
  BY <1>1, CompareIs, NumIs
<1>2. CASE a = LowKey
  <2>1. MaxOf(Rows) \in Nat /\ b[1] \in Nat \ {0}
    BY KeyParts
  <2>2. LowKey[1] = 0 /\ LowKey[2] = 0
    BY DEF LowKey, Null
  <2>3. Num(a) = 0
    <3>1. Num(a) = 0 * (MaxOf(Rows) + 2) + 0
      BY <1>2, <2>2 DEF Num
    <3> QED
      BY <3>1, <2>1
  <2>4. Num(b) \in Nat \ {0}
    BY NumIs
  <2>5. a # b /\ a[1] < b[1]
    BY <1>2, <2>1, <2>2
  <2>6. CompareWith(a, b) = -1
    BY <2>5 DEF CompareWith
  <2> QED
    BY <2>3, <2>4, <2>6
<1> QED
  BY <1>1, <1>2 DEF Marks

-----------------------------------------------------------------------------
(* Nodes without nulls, and the search in one. *)

LEMMA NodeIs ==
    ASSUME NEW n \in Node
    PROVE  /\ Len(n.keys) \in Nat /\ DOMAIN n.keys = 1 .. Len(n.keys)
           /\ n.keys \in [1 .. Len(n.keys) -> AllKeys]
           /\ KeysCount(n) = Len(n.keys) /\ NotNull(n) = Len(n.keys)
           /\ \A i \in 1 .. Len(n.keys) : GetKey(n, i) = n.keys[i] /\ n.keys[i] \in AllKeys
           /\ GetKeys(n) = n.keys
<1>1. n.keys \in Seq(AllKeys) /\ n.nulls = 0
  BY DEF Node
<1>2. Len(n.keys) \in Nat /\ n.keys \in [1 .. Len(n.keys) -> AllKeys]
  BY <1>1, LenProperties
<1>3. KeysCount(n) = Len(n.keys) /\ NotNull(n) = Len(n.keys)
  BY <1>1, <1>2 DEF KeysCount, NotNull
<1>4. ASSUME NEW i \in 1 .. Len(n.keys) PROVE GetKey(n, i) = n.keys[i] /\ n.keys[i] \in AllKeys
  BY <1>2, <1>3 DEF GetKey
<1>5. DOMAIN n.keys = 1 .. Len(n.keys)
  BY <1>2
<1>6. GetKeys(n) = n.keys
  BY <1>2, <1>4, <1>5 DEF GetKeys
<1> QED
  BY <1>2, <1>3, <1>4, <1>5, <1>6

\* What a search finds in keys that descend.
Found(ks, k, at) ==
    /\ at \in 0 .. Len(ks)
    /\ \A i \in 1 .. at : Num(ks[i]) >= k
    /\ \A i \in at + 1 .. Len(ks) : Num(ks[i]) < k

LEMMA SearchSteps ==
    ASSUME NEW n, NEW key, KeysCount(n) \in Nat
    PROVE  \E u : /\ u[0] = [top |-> 1, bottom |-> KeysCount(n)]
                  /\ \A turn \in 1 .. KeysCount(n) : u[turn] = Halve(n, key, u[turn - 1])
                  /\ FindBiggerOrEqual(n, key) =
                        IF KeysCount(n) = 0 \/ CompareWith(key, GetKey(n, 1)) > 0 THEN 0
                        ELSE IF CompareWith(key, GetKey(n, u[KeysCount(n)].bottom)) > 0
                             THEN u[KeysCount(n)].top ELSE u[KeysCount(n)].bottom
<1> DEFINE Search[turn \in 0 .. KeysCount(n)] ==
               IF turn = 0 THEN [top |-> 1, bottom |-> KeysCount(n)]
               ELSE Halve(n, key, Search[turn - 1])
           Step(g, turn) == IF turn = 0 THEN [top |-> 1, bottom |-> KeysCount(n)]
                            ELSE Halve(n, key, g[turn - 1])
           Def(g, m) == g = [turn \in 0 .. m |-> Step(g, turn)]
           S == {m \in Nat : \E g : Def(g, m)}
<1>1. FindBiggerOrEqual(n, key) =
         IF KeysCount(n) = 0 \/ CompareWith(key, GetKey(n, 1)) > 0 THEN 0
         ELSE IF CompareWith(key, GetKey(n, Search[KeysCount(n)].bottom)) > 0
              THEN Search[KeysCount(n)].top ELSE Search[KeysCount(n)].bottom
  BY DEF FindBiggerOrEqual
<1>2. 0 \in S
  <2> DEFINE g == [turn \in 0 .. 0 |-> [top |-> 1, bottom |-> KeysCount(n)]]
  <2>1. Def(g, 0)
    OBVIOUS
  <2> QED
    BY <2>1
<1>3. ASSUME NEW m \in Nat, m \in S PROVE m + 1 \in S
  <2>1. PICK g : Def(g, m)
    BY <1>3
  <2> DEFINE h == [turn \in 0 .. m + 1 |-> Step(g, turn)]
  <2>2. \A turn \in 0 .. m : h[turn] = g[turn]
    <3>1. ASSUME NEW turn \in 0 .. m PROVE h[turn] = g[turn]
      <4> HIDE DEF Step
      <4>1. turn \in 0 .. m + 1
        OBVIOUS
      <4>2. h[turn] = Step(g, turn)
        BY <4>1
      <4>3. g[turn] = Step(g, turn)
        BY <2>1
      <4> QED
        BY <4>2, <4>3
    <3> QED
      BY <3>1
  <2>3. ASSUME NEW turn \in 0 .. m + 1
        PROVE  Step(g, turn) = Step(h, turn)
    <3>1. CASE turn = 0
      BY <3>1
    <3>2. CASE turn # 0
      <4>1. turn - 1 \in 0 .. m
        BY <3>2
      <4>2. h[turn - 1] = g[turn - 1]
        BY <2>2, <4>1
      <4> HIDE DEF h
      <4> QED
        BY <3>2, <4>2
    <3> QED
      BY <3>1, <3>2
  <2>4. Def(h, m + 1)
    <3> HIDE DEF Step
    <3> QED
      BY <2>3
  <2>5. m + 1 \in Nat
    OBVIOUS
  <2> HIDE DEF h, Def
  <2> QED
    BY <2>4, <2>5
<1>4. KeysCount(n) \in S
  <2> HIDE DEF S
  <2>1. \A m \in Nat : m \in S => m + 1 \in S
    BY <1>3
  <2>2. Nat \subseteq S
    BY <1>2, <2>1, ByInduction
  <2> QED
    BY <2>2
<1>5. \E g : Def(g, KeysCount(n))
  BY <1>4
<1>6. Def(Search, KeysCount(n))
  BY <1>5
<1> HIDE DEF Search
<1>7. Search[0] = [top |-> 1, bottom |-> KeysCount(n)]
  BY <1>6
<1>8. ASSUME NEW turn \in 1 .. KeysCount(n)
      PROVE  Search[turn] = Halve(n, key, Search[turn - 1])
  <2>1. turn \in 0 .. KeysCount(n) /\ turn # 0
    OBVIOUS
  <2>2. Search[turn] = Step(Search, turn)
    <3> HIDE DEF Step
    <3> QED
      BY <1>6, <2>1
  <2> QED
    BY <2>1, <2>2
<1> QED
  BY <1>1, <1>7, <1>8

\* The key is at the top or below it, and above all that is below the bottom.
Bracket(ks, k, at, turn) ==
    /\ at \in [top : 1 .. Len(ks), bottom : 1 .. Len(ks)]
    /\ at.top <= at.bottom /\ Num(ks[at.top]) >= k
    /\ \A i \in at.bottom + 1 .. Len(ks) : Num(ks[i]) < k
    /\ at.bottom <= at.top + 1 \/ at.bottom - at.top + turn <= Len(ks) - 1

LEMMA HalveKeeps ==
    ASSUME NoNulls, NEW n \in Node, Descending(n.keys), NEW key \in Marks, NEW turn \in Nat,
           NEW at, Bracket(n.keys, Num(key), at, turn)
    PROVE  Bracket(n.keys, Num(key), Halve(n, key, at), turn + 1)
<1> DEFINE median == (at.top + at.bottom) \div 2
           len    == Len(n.keys)
           k      == Num(key)
<1>1. /\ at \in [top : 1 .. len, bottom : 1 .. len] /\ at.top \in 1 .. len /\ at.bottom \in 1 .. len
      /\ at.top <= at.bottom /\ Num(n.keys[at.top]) >= k /\ len \in Nat
      /\ \A i \in at.bottom + 1 .. len : Num(n.keys[i]) < k
      /\ at.bottom <= at.top + 1 \/ at.bottom - at.top + turn <= len - 1
  BY NodeIs DEF Bracket
<1>2. CASE at.bottom <= at.top + 1
  <2>1. Halve(n, key, at) = at
    BY <1>2 DEF Halve
  <2> QED
    BY <2>1, <1>1, <1>2 DEF Bracket
<1>3. CASE ~(at.bottom <= at.top + 1)
  <2>1. median \in at.top + 1 .. at.bottom - 1
    BY SMTT(30), <1>1, <1>3
  <2>2. median \in 1 .. len
    BY <2>1, <1>1, SMTT(30)
  <2> HIDE DEF median
  <2>3. /\ GetKey(n, median) = n.keys[median] /\ n.keys[median] \in AllKeys
        /\ CompareWith(key, n.keys[median]) < 0 <=> k < Num(n.keys[median])
        /\ Num(n.keys[median]) \in Nat /\ k \in Nat
    BY <2>2, NodeIs, CompareMark
  <2>4. CASE CompareWith(key, GetKey(n, median)) < 0
    <3>1. Halve(n, key, at) = [at EXCEPT !.top = median]
      BY <2>4, <1>3 DEF Halve, median
    <3>2. PICK r : r = [at EXCEPT !.top = median]
      OBVIOUS
    <3>3. /\ r \in [top : 1 .. len, bottom : 1 .. len]
          /\ r.top = median /\ r.bottom = at.bottom
      BY <3>2, <1>1, <2>2
    <3>4. r.top <= r.bottom /\ Num(n.keys[r.top]) >= k /\ r.bottom - r.top + (turn + 1) <= len - 1
      BY SMTT(30), <3>3, <2>1, <1>1, <1>3, <2>3, <2>4
    <3> QED
      BY <3>1, <3>2, <3>3, <3>4, <1>1 DEF Bracket
  <2>5. CASE ~(CompareWith(key, GetKey(n, median)) < 0)
    <3>1. Halve(n, key, at) = [at EXCEPT !.bottom = median]
      BY <2>5, <1>3 DEF Halve, median
    <3>2. PICK r : r = [at EXCEPT !.bottom = median]
      OBVIOUS
    <3>3. /\ r \in [top : 1 .. len, bottom : 1 .. len]
          /\ r.top = at.top /\ r.bottom = median
      BY <3>2, <1>1, <2>2
    <3>4. r.top <= r.bottom /\ Num(n.keys[r.top]) >= k /\ r.bottom - r.top + (turn + 1) <= len - 1
      BY <3>3, <2>1, <1>1, <1>3, SMTT(30)
    <3>5. ASSUME NEW i \in median + 1 .. len PROVE Num(n.keys[i]) < k
      <4>1. i \in 1 .. len /\ median < i
        BY <2>2, <1>1
      <4>2. Num(n.keys[median]) > Num(n.keys[i])
        BY <4>1, <2>2 DEF Descending
      <4>3. Num(n.keys[i]) \in Nat
        BY <4>1, NodeIs, NumIs
      <4> QED
        BY <4>2, <4>3, <2>3, <2>5
    <3> QED
      BY <3>1, <3>2, <3>3, <3>4, <3>5 DEF Bracket
  <2> QED
    BY <2>4, <2>5
<1> QED
  BY <1>2, <1>3

LEMMA SearchMark ==
    ASSUME NoNulls, NEW n \in Node, Descending(n.keys), NEW key \in Marks
    PROVE  Found(n.keys, Num(key), FindBiggerOrEqual(n, key))
<1> DEFINE len == Len(n.keys)
           k   == Num(key)
<1>1. /\ len \in Nat /\ KeysCount(n) = len /\ k \in Nat
      /\ \A i \in 1 .. len : GetKey(n, i) = n.keys[i] /\ n.keys[i] \in AllKeys
      /\ \A i \in 1 .. len : Num(n.keys[i]) \in Nat
  <2>1. Num(key) \in Nat
    <3>1. SentinelKey \in AllKeys
      BY DEF AllKeys
    <3> QED
      BY <3>1, CompareMark
  <2> QED
    BY <2>1, NodeIs, NumIs
<1>2. PICK u : /\ u[0] = [top |-> 1, bottom |-> len]
               /\ \A turn \in 1 .. len : u[turn] = Halve(n, key, u[turn - 1])
               /\ FindBiggerOrEqual(n, key) =
                     IF len = 0 \/ CompareWith(key, GetKey(n, 1)) > 0 THEN 0
                     ELSE IF CompareWith(key, GetKey(n, u[len].bottom)) > 0
                          THEN u[len].top ELSE u[len].bottom
  <2>1. KeysCount(n) \in Nat /\ KeysCount(n) = len
    BY <1>1
  <2>2. PICK u : /\ u[0] = [top |-> 1, bottom |-> KeysCount(n)]
                 /\ \A turn \in 1 .. KeysCount(n) : u[turn] = Halve(n, key, u[turn - 1])
                 /\ FindBiggerOrEqual(n, key) =
                        IF KeysCount(n) = 0 \/ CompareWith(key, GetKey(n, 1)) > 0 THEN 0
                        ELSE IF CompareWith(key, GetKey(n, u[KeysCount(n)].bottom)) > 0
                             THEN u[KeysCount(n)].top ELSE u[KeysCount(n)].bottom
    BY <2>1, SearchSteps
  <2> HIDE DEF len
  <2> WITNESS u
  <2> QED
    BY <2>1, <2>2
<1>3. CASE len = 0
  BY <1>1, <1>2, <1>3 DEF Found
<1>4. CASE len # 0 /\ CompareWith(key, GetKey(n, 1)) > 0
  <2>1. 1 \in 1 .. len
    BY <1>1, <1>4
  <2>2. Num(n.keys[1]) < k
    BY <1>1, <1>4, <2>1, CompareMark
  <2>3. ASSUME NEW i \in 1 .. len PROVE Num(n.keys[i]) < k
    <3>1. i = 1 \/ Num(n.keys[1]) > Num(n.keys[i])
      BY <2>1 DEF Descending
    <3> QED
      BY <3>1, <2>1, <2>2, <1>1
  <2>4. FindBiggerOrEqual(n, key) = 0
    BY <1>2, <1>4
  <2> QED
    BY <2>3, <2>4, <1>1 DEF Found
<1>5. CASE len # 0 /\ ~(CompareWith(key, GetKey(n, 1)) > 0)
  <2>1. 1 \in 1 .. len
    BY <1>1, <1>5
  <2>2. k <= Num(n.keys[1])
    <3>1. ~(Num(key) > Num(n.keys[1]))
      BY <1>1, <1>5, <2>1, CompareMark
    <3> QED
      BY <3>1, <2>1, <1>1
  <2> DEFINE S == {turn \in Nat : turn <= len => Bracket(n.keys, k, u[turn], turn)}
  <2>3. 0 \in S
    <3>1. u[0] \in [top : 1 .. len, bottom : 1 .. len] /\ u[0].top = 1 /\ u[0].bottom = len
      BY <1>2, <2>1, <1>1
    <3> QED
      BY <3>1, <2>2, <1>1, <2>1 DEF Bracket
  <2>4. ASSUME NEW turn \in Nat, turn \in S PROVE turn + 1 \in S
    <3>1. SUFFICES ASSUME turn + 1 <= len PROVE Bracket(n.keys, k, u[turn + 1], turn + 1)
      OBVIOUS
    <3>2. turn + 1 \in 1 .. len /\ turn <= len /\ (turn + 1) - 1 = turn
      BY <3>1, <1>1
    <3>3. u[turn + 1] = Halve(n, key, u[turn])
      BY <3>2, <1>2
    <3>4. Bracket(n.keys, k, u[turn], turn)
      BY <3>2, <2>4
    <3> HIDE DEF k
    <3> QED
      BY <3>3, <3>4, HalveKeeps DEF k
  <2>5. Bracket(n.keys, k, u[len], len)
    <3>1. \A turn \in Nat : turn \in S => turn + 1 \in S
      BY <2>4
    <3>2. Nat \subseteq S
      <4> HIDE DEF S
      <4> QED
        BY <2>3, <3>1, ByInduction
    <3> QED
      BY <3>2, <1>1
  <2> DEFINE at == u[len]
  <2>6. /\ at.top \in 1 .. len /\ at.bottom \in 1 .. len /\ at.top <= at.bottom
        /\ at.bottom <= at.top + 1 /\ Num(n.keys[at.top]) >= k
        /\ \A i \in at.bottom + 1 .. len : Num(n.keys[i]) < k
    BY <2>5, <1>1 DEF Bracket
  <2>7. FindBiggerOrEqual(n, key) = IF CompareWith(key, GetKey(n, at.bottom)) > 0
                                    THEN at.top ELSE at.bottom
    BY <1>2, <1>5
  <2> HIDE DEF at
  <2>8. CompareWith(key, GetKey(n, at.bottom)) > 0 <=> Num(n.keys[at.bottom]) < k
    <3>1. CompareWith(key, n.keys[at.bottom]) > 0 <=> Num(key) > Num(n.keys[at.bottom])
      BY <2>6, <1>1, CompareMark
    <3> QED
      BY <3>1, <2>6, <1>1
  <2>9. ASSUME NEW f \in 1 .. len, NEW i \in 1 .. f, Num(n.keys[f]) >= k PROVE Num(n.keys[i]) >= k
    <3>1. i \in 1 .. len /\ (i = f \/ Num(n.keys[i]) > Num(n.keys[f]))
      <4>1. i \in 1 .. len /\ (i = f \/ i < f)
        OBVIOUS
      <4> QED
        BY <4>1 DEF Descending
    <3> QED
      BY <3>1, <2>9, <1>1
  <2>10. CASE Num(n.keys[at.bottom]) < k
    <3>1. FindBiggerOrEqual(n, key) = at.top
      BY <2>7, <2>8, <2>10
    <3>2. ASSUME NEW i \in at.top + 1 .. len PROVE Num(n.keys[i]) < k
      <4>1. i = at.bottom \/ i \in at.bottom + 1 .. len
        BY <2>6
      <4> QED
        BY <4>1, <2>6, <2>10
    <3> QED
      BY <3>1, <3>2, <2>6, <2>9, <1>1 DEF Found
  <2>11. CASE ~(Num(n.keys[at.bottom]) < k)
    <3>1. FindBiggerOrEqual(n, key) = at.bottom
      BY <2>7, <2>8, <2>11
    <3>2. Num(n.keys[at.bottom]) >= k
      BY <2>11, <2>6, <1>1
    <3> QED
      BY <3>1, <3>2, <2>6, <2>9, <1>1 DEF Found
  <2> QED
    BY <2>10, <2>11
<1> QED
  BY <1>3, <1>4, <1>5

LEMMA SearchIs ==
    ASSUME NoNulls, NEW n \in Node, Descending(n.keys), NEW key \in AllKeys
    PROVE  Found(n.keys, Num(key), FindBiggerOrEqual(n, key))
  BY SearchMark DEF Marks

-----------------------------------------------------------------------------
(* Sequences with an element more, or less. *)

Inserted(s, r, at, e) ==
    /\ Len(r) = Len(s) + 1 /\ at \in 1 .. Len(s) + 1 /\ r[at] = e
    /\ \A j \in 1 .. at - 1 : r[j] = s[j]
    /\ \A j \in at .. Len(s) : r[j + 1] = s[j]

Removed(s, r, at) ==
    /\ Len(r) = Len(s) - 1 /\ at \in 1 .. Len(s)
    /\ \A j \in 1 .. at - 1 : r[j] = s[j]
    /\ \A j \in at + 1 .. Len(s) : r[j - 1] = s[j]

LEMMA PartIs ==
    ASSUME NEW S, NEW s \in Seq(S), NEW i \in 1 .. Len(s) + 1, NEW j \in i - 1 .. Len(s)
    PROVE  /\ SubSeq(s, i, j) \in Seq(S) /\ Len(SubSeq(s, i, j)) = j - i + 1
           /\ \A k \in 1 .. j - i + 1 : SubSeq(s, i, j)[k] = s[i + k - 1]
<1>1. Len(s) \in Nat /\ i \in Int /\ j \in Int
  BY LenProperties
<1>2. \A k \in i .. j : s[k] \in S
  BY <1>1, ElementOfSeq
<1>3. /\ SubSeq(s, i, j) \in Seq(S)
      /\ Len(SubSeq(s, i, j)) = IF i <= j THEN j - i + 1 ELSE 0
      /\ \A k \in 1 .. j - i + 1 : SubSeq(s, i, j)[k] = s[i + k - 1]
  BY <1>1, <1>2, SubSeqProperties
<1>4. Len(SubSeq(s, i, j)) = j - i + 1
  BY <1>1, <1>3
<1> QED
  BY <1>3, <1>4

LEMMA InsertAtIs ==
    ASSUME NEW S, NEW s \in Seq(S), NEW at \in 1 .. Len(s) + 1, NEW e \in S
    PROVE  InsertAt(s, at, e) \in Seq(S) /\ Inserted(s, InsertAt(s, at, e), at, e)
<1> DEFINE a == SubSeq(s, 1, at - 1)
           b == SubSeq(s, at, Len(s))
           c == a \o <<e>>
           r == c \o b
<1>0. Len(s) \in Nat
  BY LenProperties
<1>1. /\ a \in Seq(S) /\ Len(a) = at - 1
      /\ \A k \in 1 .. at - 1 : a[k] = s[k]
  <2>1. 1 \in 1 .. Len(s) + 1 /\ at - 1 \in 1 - 1 .. Len(s)
    BY <1>0
  <2>2. /\ a \in Seq(S) /\ Len(a) = (at - 1) - 1 + 1
        /\ \A k \in 1 .. (at - 1) - 1 + 1 : a[k] = s[1 + k - 1]
    BY <2>1, PartIs
  <2> HIDE DEF a
  <2> QED
    BY <2>2
<1>2. /\ b \in Seq(S) /\ Len(b) = Len(s) - at + 1
      /\ \A k \in 1 .. Len(s) - at + 1 : b[k] = s[at + k - 1]
  <2>1. Len(s) \in at - 1 .. Len(s)
    BY <1>0
  <2> QED
    BY <2>1, PartIs
<1> HIDE DEF a, b
<1>3. <<e>> \in Seq(S) /\ Len(<<e>>) = 1 /\ <<e>>[1] = e
  OBVIOUS
<1>4. /\ c \in Seq(S) /\ Len(c) = at
      /\ \A k \in 1 .. at : c[k] = IF k <= at - 1 THEN a[k] ELSE e
  <2>1. /\ c \in Seq(S) /\ Len(c) = Len(a) + Len(<<e>>)
        /\ \A k \in 1 .. Len(a) + Len(<<e>>) :
               c[k] = IF k <= Len(a) THEN a[k] ELSE <<e>>[k - Len(a)]
    BY <1>1, <1>3, ConcatProperties
  <2> HIDE DEF c
  <2>2. Len(c) = at
    BY <2>1, <1>1, <1>3
  <2>3. ASSUME NEW k \in 1 .. at PROVE c[k] = IF k <= at - 1 THEN a[k] ELSE e
    <3>1. c[k] = IF k <= at - 1 THEN a[k] ELSE <<e>>[k - (at - 1)]
      BY <2>1, <1>1, <1>3, SMTT(30)
    <3>2. CASE k <= at - 1
      BY <3>1, <3>2
    <3>3. CASE k = at
      <4>1. k - (at - 1) = 1 /\ ~(k <= at - 1)
        BY <3>3
      <4>2. c[k] = <<e>>[1]
        BY <4>1, <3>1
      <4> QED
        BY <4>1, <4>2, <1>3
    <3> QED
      BY <3>2, <3>3
  <2> QED
    BY <2>1, <2>2, <2>3
<1> HIDE DEF c
<1>5. /\ r \in Seq(S) /\ Len(r) = Len(s) + 1
      /\ \A k \in 1 .. Len(s) + 1 : r[k] = IF k <= at THEN c[k] ELSE b[k - at]
  <2>1. /\ r \in Seq(S) /\ Len(r) = Len(c) + Len(b)
        /\ \A k \in 1 .. Len(c) + Len(b) : r[k] = IF k <= Len(c) THEN c[k] ELSE b[k - Len(c)]
    BY <1>2, <1>4, ConcatProperties
  <2>2. Len(c) + Len(b) = Len(s) + 1
    BY <1>0, <1>2, <1>4
  <2> HIDE DEF r
  <2> QED
    BY <2>1, <2>2, <1>4
<1>6. InsertAt(s, at, e) = r
  BY DEF InsertAt, r, c, a, b
<1> HIDE DEF r
<1>7. r[at] = e
  BY <1>0, <1>4, <1>5
<1>8. ASSUME NEW k \in 1 .. at - 1 PROVE r[k] = s[k]
  BY <1>0, <1>1, <1>4, <1>5
<1>9. ASSUME NEW k \in at .. Len(s) PROVE r[k + 1] = s[k]
  <2>1. k + 1 \in 1 .. Len(s) + 1 /\ ~(k + 1 <= at) /\ k + 1 - at \in 1 .. Len(s) - at + 1
    BY <1>0
  <2>2. r[k + 1] = b[k + 1 - at] /\ b[k + 1 - at] = s[at + (k + 1 - at) - 1]
    BY <2>1, <1>5, <1>2
  <2>3. at + (k + 1 - at) - 1 = k
    BY <1>0
  <2> QED
    BY <2>2, <2>3
<1> QED
  BY <1>5, <1>6, <1>7, <1>8, <1>9 DEF Inserted

LEMMA RemoveAtIs ==
    ASSUME NEW S, NEW s \in Seq(S), NEW at \in 1 .. Len(s)
    PROVE  RemoveAt(s, at) \in Seq(S) /\ Removed(s, RemoveAt(s, at), at)
<1> DEFINE a == SubSeq(s, 1, at - 1)
           b == SubSeq(s, at + 1, Len(s))
           r == a \o b
<1>0. Len(s) \in Nat
  BY LenProperties
<1>1. /\ a \in Seq(S) /\ Len(a) = at - 1
      /\ \A k \in 1 .. at - 1 : a[k] = s[k]
  <2>1. 1 \in 1 .. Len(s) + 1 /\ at - 1 \in 1 - 1 .. Len(s)
    BY <1>0
  <2>2. /\ a \in Seq(S) /\ Len(a) = (at - 1) - 1 + 1
        /\ \A k \in 1 .. (at - 1) - 1 + 1 : a[k] = s[1 + k - 1]
    BY <2>1, PartIs
  <2> HIDE DEF a
  <2> QED
    BY <2>2
<1>2. /\ b \in Seq(S) /\ Len(b) = Len(s) - at
      /\ \A k \in 1 .. Len(s) - at : b[k] = s[at + k]
  <2>1. Len(s) \in (at + 1) - 1 .. Len(s) /\ at + 1 \in 1 .. Len(s) + 1
    BY <1>0
  <2>2. /\ b \in Seq(S) /\ Len(b) = Len(s) - (at + 1) + 1
        /\ \A k \in 1 .. Len(s) - (at + 1) + 1 : b[k] = s[(at + 1) + k - 1]
    BY <2>1, PartIs
  <2> HIDE DEF b
  <2>3. Len(s) - (at + 1) + 1 = Len(s) - at /\ \A k \in 1 .. Len(s) - at : (at + 1) + k - 1 = at + k
    BY <1>0
  <2> QED
    BY <2>2, <2>3
<1> HIDE DEF a, b
<1>3. /\ r \in Seq(S) /\ Len(r) = Len(s) - 1
      /\ \A k \in 1 .. Len(s) - 1 : r[k] = IF k <= at - 1 THEN a[k] ELSE b[k - (at - 1)]
  <2>1. /\ r \in Seq(S) /\ Len(r) = Len(a) + Len(b)
        /\ \A k \in 1 .. Len(a) + Len(b) : r[k] = IF k <= Len(a) THEN a[k] ELSE b[k - Len(a)]
    BY <1>1, <1>2, ConcatProperties
  <2>2. Len(a) + Len(b) = Len(s) - 1
    BY <1>0, <1>1, <1>2
  <2> HIDE DEF r
  <2> QED
    BY <2>1, <2>2, <1>1
<1>4. RemoveAt(s, at) = r
  BY DEF RemoveAt, r, a, b
<1> HIDE DEF r
<1>5. ASSUME NEW k \in 1 .. at - 1 PROVE r[k] = s[k]
  BY <1>0, <1>1, <1>3
<1>6. ASSUME NEW k \in at + 1 .. Len(s) PROVE r[k - 1] = s[k]
  <2>1. k - 1 \in 1 .. Len(s) - 1 /\ ~(k - 1 <= at - 1) /\ (k - 1) - (at - 1) \in 1 .. Len(s) - at
    BY <1>0
  <2>2. /\ r[k - 1] = b[(k - 1) - (at - 1)]
        /\ b[(k - 1) - (at - 1)] = s[at + ((k - 1) - (at - 1))]
    BY <2>1, <1>3, <1>2
  <2>3. at + ((k - 1) - (at - 1)) = k
    BY <1>0
  <2> QED
    BY <2>2, <2>3
<1> QED
  BY <1>3, <1>4, <1>5, <1>6 DEF Removed

-----------------------------------------------------------------------------
(* Nodes with a key more, or less, and their parts. *)

\* Key i of n, with its child, is key j of m.
Pair(n, i, m, j) == n.keys[i] = m.keys[j] /\ (~n.leaf => n.child[i] = m.child[j])

Alike(r, n) == r.leaf = n.leaf /\ r.prev = n.prev /\ r.next = n.next

LEMMA FitIs ==
    ASSUME NoNulls, NEW n, Fit(n)
    PROVE  /\ n \in Node /\ Descending(n.keys) /\ Len(n.keys) \in Nat /\ KeysCount(n) = Len(n.keys)
           /\ n.leaf \in BOOLEAN /\ n.prev \in Nat /\ n.next \in Nat /\ n.nulls = 0
           /\ n.keys \in Seq(AllKeys) /\ n.child \in Seq(Nat)
           /\ \A i \in 1 .. Len(n.keys) :
                /\ n.keys[i] \in AllKeys /\ GetKey(n, i) = n.keys[i]
                /\ Num(n.keys[i]) \in Nat \ {0} /\ Num(n.keys[i]) <= Top
                /\ ~n.leaf => n.child[i] \in Nat
<1>1. n \in Node /\ Descending(n.keys) /\ (~n.leaf => Len(n.child) = Len(n.keys))
  BY DEF Fit
<1>2. /\ n.leaf \in BOOLEAN /\ n.prev \in Nat /\ n.next \in Nat /\ n.nulls = 0
      /\ n.keys \in Seq(AllKeys) /\ n.child \in Seq(Nat)
  BY <1>1 DEF Node
<1>3. /\ Len(n.keys) \in Nat /\ KeysCount(n) = Len(n.keys)
      /\ \A i \in 1 .. Len(n.keys) : GetKey(n, i) = n.keys[i] /\ n.keys[i] \in AllKeys
  BY <1>1, NodeIs
<1>4. ASSUME NEW i \in 1 .. Len(n.keys) PROVE ~n.leaf => n.child[i] \in Nat
  BY <1>1, <1>2, ElementOfSeq
<1>5. ASSUME NEW i \in 1 .. Len(n.keys) PROVE Num(n.keys[i]) \in Nat \ {0} /\ Num(n.keys[i]) <= Top
  BY <1>3, NumIs
<1> QED
  BY <1>1, <1>2, <1>3, <1>4, <1>5

\* The keys of a node are told apart by their numbers.
LEMMA SameIndex ==
    ASSUME NoNulls, NEW n, Fit(n), NEW i \in 1 .. Len(n.keys), NEW j \in 1 .. Len(n.keys),
           Num(n.keys[i]) = Num(n.keys[j])
    PROVE  i = j
<1>1. Len(n.keys) \in Nat /\ Num(n.keys[i]) \in Nat /\ Num(n.keys[j]) \in Nat /\ Descending(n.keys)
  BY FitIs
<1>2. ~(i < j) /\ ~(j < i)
  BY <1>1 DEF Descending
<1> QED
  BY <1>1, <1>2

LEMMA FirstIsBiggest ==
    ASSUME NoNulls, NEW n, Fit(n), NEW i \in 1 .. Len(n.keys)
    PROVE  1 \in 1 .. Len(n.keys) /\ Num(n.keys[i]) <= Num(n.keys[1])
<1>1. Len(n.keys) \in Nat /\ 1 \in 1 .. Len(n.keys) /\ Num(n.keys[i]) \in Nat /\ Num(n.keys[1]) \in Nat
  BY FitIs
<1>2. i = 1 \/ 1 < i
  BY <1>1
<1>3. Num(n.keys[i]) = Num(n.keys[1]) \/ Num(n.keys[1]) > Num(n.keys[i])
  BY <1>1, <1>2, FitIs DEF Descending
<1> QED
  BY <1>1, <1>3

\* A new key that is below the first one goes where the order wants it.
LEMMA DescendingInserted ==
    ASSUME NoNulls, NEW s \in Seq(AllKeys), Descending(s), NEW key \in AllKeys,
           \A i \in 1 .. Len(s) : Num(s[i]) # Num(key),
           NEW f, Found(s, Num(key), f),
           NEW r \in Seq(AllKeys), Inserted(s, r, f + 1, key)
    PROVE  Descending(r)
<1>1. /\ Len(s) \in Nat /\ f \in 0 .. Len(s) /\ Num(key) \in Nat
      /\ \A i \in 1 .. Len(s) : s[i] \in AllKeys /\ Num(s[i]) \in Nat
  BY LenProperties, ElementOfSeq, NumIs DEF Found
<1>2. /\ Len(r) = Len(s) + 1 /\ r[f + 1] = key
      /\ \A j \in 1 .. f : r[j] = s[j]
      /\ \A j \in f + 1 .. Len(s) : r[j + 1] = s[j]
  BY <1>1 DEF Inserted
<1>3. /\ \A i \in 1 .. f : Num(s[i]) > Num(key)
      /\ \A i \in f + 1 .. Len(s) : Num(s[i]) < Num(key)
  BY <1>1 DEF Found
<1>4. ASSUME NEW i \in 1 .. Len(r), NEW j \in 1 .. Len(r), i < j
      PROVE  Num(r[i]) > Num(r[j])
  <2>1. CASE j <= f
    <3>1. i \in 1 .. f /\ j \in 1 .. f /\ i \in 1 .. Len(s) /\ j \in 1 .. Len(s)
      BY <2>1, <1>1, <1>2, <1>4
    <3>2. r[i] = s[i] /\ r[j] = s[j]
      BY <3>1, <1>2
    <3> QED
      BY <3>1, <3>2, <1>4 DEF Descending
  <2>2. CASE j = f + 1
    <3>1. i \in 1 .. f
      BY <2>2, <1>1, <1>4
    <3>2. r[i] = s[i] /\ r[j] = key
      BY <3>1, <2>2, <1>2
    <3> QED
      BY <3>1, <3>2, <1>3
  <2>3. CASE j > f + 1 /\ i = f + 1
    <3>1. j - 1 \in f + 1 .. Len(s) /\ (j - 1) + 1 = j
      BY <2>3, <1>1, <1>2
    <3>2. r[j] = s[j - 1] /\ r[i] = key
      BY <3>1, <2>3, <1>2
    <3>3. Num(s[j - 1]) < Num(key) /\ Num(s[j - 1]) \in Nat
      BY <3>1, <1>1, <1>3
    <3> QED
      BY <3>2, <3>3, <1>1
  <2>4. CASE j > f + 1 /\ i < f + 1
    <3>1. j - 1 \in f + 1 .. Len(s) /\ (j - 1) + 1 = j /\ i \in 1 .. f
      BY <2>4, <1>1, <1>2
    <3>2. r[j] = s[j - 1] /\ r[i] = s[i]
      BY <3>1, <1>2
    <3>3. Num(s[j - 1]) < Num(key) /\ Num(s[i]) > Num(key)
      BY <3>1, <1>3
    <3>4. Num(s[j - 1]) \in Nat /\ Num(s[i]) \in Nat
      BY <3>1, <1>1
    <3> QED
      BY <3>2, <3>3, <3>4, <1>1
  <2>5. CASE j > f + 1 /\ i > f + 1
    <3>1. /\ j - 1 \in f + 1 .. Len(s) /\ (j - 1) + 1 = j /\ i - 1 \in f + 1 .. Len(s) /\ (i - 1) + 1 = i
          /\ i - 1 \in 1 .. Len(s) /\ j - 1 \in 1 .. Len(s) /\ i - 1 < j - 1
      BY <2>5, <1>1, <1>2, <1>4
    <3>2. r[j] = s[j - 1] /\ r[i] = s[i - 1]
      BY <3>1, <1>2
    <3> QED
      BY <3>1, <3>2 DEF Descending
  <2> QED
    BY <2>1, <2>2, <2>3, <2>4, <2>5, <1>1, <1>2
<1> QED
  BY <1>4 DEF Descending

LEMMA DescendingRemoved ==
    ASSUME NoNulls, NEW s \in Seq(AllKeys), Descending(s), NEW r \in Seq(AllKeys),
           NEW at, Removed(s, r, at)
    PROVE  Descending(r)
<1>1. Len(s) \in Nat /\ at \in 1 .. Len(s)
  BY LenProperties DEF Removed
<1>2. /\ Len(r) = Len(s) - 1
      /\ \A j \in 1 .. at - 1 : r[j] = s[j]
      /\ \A j \in at + 1 .. Len(s) : r[j - 1] = s[j]
  BY <1>1 DEF Removed
<1>3. ASSUME NEW i \in 1 .. Len(r), NEW j \in 1 .. Len(r), i < j
      PROVE  Num(r[i]) > Num(r[j])
  <2>1. CASE j < at
    <3>1. i \in 1 .. at - 1 /\ j \in 1 .. at - 1 /\ i \in 1 .. Len(s) /\ j \in 1 .. Len(s)
      BY <2>1, <1>1, <1>2, <1>3
    <3> QED
      BY <3>1, <1>2, <1>3 DEF Descending
  <2>2. CASE j >= at /\ i < at
    <3>1. /\ i \in 1 .. at - 1 /\ j + 1 \in at + 1 .. Len(s) /\ (j + 1) - 1 = j
          /\ i \in 1 .. Len(s) /\ j + 1 \in 1 .. Len(s) /\ i < j + 1
      BY <2>2, <1>1, <1>2, <1>3
    <3>2. r[i] = s[i] /\ r[j] = s[j + 1]
      BY <3>1, <1>2
    <3> QED
      BY <3>1, <3>2 DEF Descending
  <2>3. CASE i >= at
    <3>1. /\ i + 1 \in at + 1 .. Len(s) /\ (i + 1) - 1 = i /\ j + 1 \in at + 1 .. Len(s) /\ (j + 1) - 1 = j
          /\ i + 1 \in 1 .. Len(s) /\ j + 1 \in 1 .. Len(s) /\ i + 1 < j + 1
      BY <2>3, <1>1, <1>2, <1>3
    <3>2. r[i] = s[i + 1] /\ r[j] = s[j + 1]
      BY <3>1, <1>2
    <3> QED
      BY <3>1, <3>2 DEF Descending
  <2> QED
    BY <2>1, <2>2, <2>3, <1>1, <1>2
<1> QED
  BY <1>3 DEF Descending

LEMMA SetKeyIs ==
    ASSUME NoNulls, NEW n \in Node, NEW i \in 1 .. Len(n.keys), NEW key \in AllKeys
    PROVE  /\ SetKey(n, i, key) = [n EXCEPT !.keys = [n.keys EXCEPT ![i] = key]]
           /\ SetKey(n, i, key) \in Node
           /\ n.keys[i] = key => SetKey(n, i, key) = n
<1>1. /\ NotNull(n) = Len(n.keys) /\ Len(n.keys) \in Nat /\ n.keys \in Seq(AllKeys)
      /\ n.keys \in [1 .. Len(n.keys) -> AllKeys]
  BY NodeIs DEF Node
<1>2. SetKey(n, i, key) = [n EXCEPT !.keys[i] = key]
  BY <1>1 DEF SetKey
<1>3. SetKey(n, i, key) = [n EXCEPT !.keys = [n.keys EXCEPT ![i] = key]]
  BY <1>2 DEF Node
<1>4. [n.keys EXCEPT ![i] = key] \in Seq(AllKeys)
  BY <1>1, ExceptSeq
<1>5. SetKey(n, i, key) \in Node
  BY <1>3, <1>4 DEF Node
<1>6. ASSUME n.keys[i] = key PROVE SetKey(n, i, key) = n
  <2>1. [n.keys EXCEPT ![i] = key] = n.keys
    BY <1>1, <1>6
  <2> QED
    BY <1>3, <2>1 DEF Node
<1> QED
  BY <1>3, <1>5, <1>6

\* A node with a key put among its own.
Grown(n, r, key, child) ==
    /\ Fit(r) /\ Alike(r, n) /\ Len(r.keys) = Len(n.keys) + 1 /\ r.keys[1] = n.keys[1]
    /\ \A j \in 1 .. Len(r.keys) :
         \/ r.keys[j] = key /\ (~n.leaf => r.child[j] = child)
         \/ \E i \in 1 .. Len(n.keys) : Pair(r, j, n, i)
    /\ \A i \in 1 .. Len(n.keys) : \E j \in 1 .. Len(r.keys) : Pair(n, i, r, j)
    /\ \E j \in 1 .. Len(r.keys) : r.keys[j] = key /\ (~n.leaf => r.child[j] = child)

LEMMA InsertKeyIs ==
    ASSUME NoNulls, NEW n, Fit(n), Len(n.keys) >= 1, NEW key \in AllKeys, NEW child \in Nat,
           \A i \in 1 .. Len(n.keys) : Num(n.keys[i]) # Num(key),
           Num(key) < Num(n.keys[1])
    PROVE  Grown(n, InsertKey(n, key, child), key, child)
<1> DEFINE f    == FindBiggerOrEqual(n, key)
           keys == InsertAt(n.keys, f + 1, key)
           kids == IF n.leaf THEN n.child ELSE InsertAt(n.child, f + 1, child)
           m    == [n EXCEPT !.keys = keys, !.child = kids, !.nulls = n.nulls]
<1>1. /\ n \in Node /\ Descending(n.keys) /\ Len(n.keys) \in Nat /\ KeysCount(n) = Len(n.keys)
      /\ n.keys \in Seq(AllKeys) /\ n.child \in Seq(Nat) /\ n.leaf \in BOOLEAN /\ n.nulls = 0
      /\ 1 \in 1 .. Len(n.keys) /\ Num(key) \in Nat /\ Num(n.keys[1]) \in Nat
  BY FitIs, NumIs
<1>2. Found(n.keys, Num(key), f)
  BY <1>1, SearchIs
<1>3. f \in 1 .. Len(n.keys)
  <2>1. f # 0
    <3>1. SUFFICES ASSUME f = 0 PROVE FALSE
      OBVIOUS
    <3>2. Num(n.keys[1]) < Num(key)
      BY <1>1, <1>2, <3>1 DEF Found
    <3> QED
      BY <3>2, <1>1
  <2> QED
    BY <2>1, <1>1, <1>2 DEF Found
<1>5. key[1] # Null
  BY KeyParts DEF Null
<1>6. f + 1 \in 1 .. Len(n.keys) + 1
  BY <1>1, <1>3
<1>7. keys \in Seq(AllKeys) /\ Inserted(n.keys, keys, f + 1, key)
  BY <1>1, <1>6, InsertAtIs
<1>8. ~n.leaf => kids \in Seq(Nat) /\ Inserted(n.child, kids, f + 1, child)
  <2>1. SUFFICES ASSUME ~n.leaf
                 PROVE  InsertAt(n.child, f + 1, child) \in Seq(Nat)
                        /\ Inserted(n.child, InsertAt(n.child, f + 1, child), f + 1, child)
    OBVIOUS
  <2>2. Len(n.child) = Len(n.keys)
    BY <2>1 DEF Fit
  <2> QED
    BY <2>2, <1>1, <1>6, InsertAtIs
<1>9. n.leaf => kids = <<>> /\ kids = n.child
  BY DEF Fit
<1>10. InsertKey(n, key, child) = SetKey(m, f + 1, key)
  <2>1. KeysCount(n) # 0
    BY <1>1
  <2> QED
    BY <2>1, <1>5 DEF InsertKey
<1> HIDE DEF keys, kids, f
<1>11. kids \in Seq(Nat)
  BY <1>8, <1>9, <1>1
<1>12. /\ m \in Node /\ m.leaf = n.leaf /\ m.keys = keys /\ m.child = kids
       /\ m.prev = n.prev /\ m.next = n.next
  BY <1>1, <1>7, <1>11 DEF Node
<1> HIDE DEF m
<1>13. Len(keys) = Len(n.keys) + 1 /\ keys[f + 1] = key
  BY <1>7 DEF Inserted
<1>14. InsertKey(n, key, child) = m
  <2>1. f + 1 \in 1 .. Len(m.keys) /\ m.keys[f + 1] = key
    BY <1>12, <1>13, <1>6
  <2> QED
    BY <2>1, <1>10, <1>12, SetKeyIs
<1>15. Fit(m)
  <2>1. Descending(keys)
    BY <1>1, <1>2, <1>7, DescendingInserted
  <2>2. ~n.leaf => Len(kids) = Len(keys)
    BY <1>8, <1>13 DEF Inserted, Fit
  <2> QED
    BY <2>1, <2>2, <1>9, <1>12 DEF Fit
<1>16. ~n.leaf => Len(n.child) = Len(n.keys)
  BY DEF Fit
<1>17. ASSUME NEW i \in 1 .. Len(n.keys)
       PROVE  \E j \in 1 .. Len(keys) : n.keys[i] = keys[j] /\ (~n.leaf => n.child[i] = kids[j])
  <2>1. CASE i < f + 1
    <3>1. i \in 1 .. (f + 1) - 1 /\ i \in 1 .. Len(keys)
      BY <2>1, <1>1, <1>3, <1>13
    <3>2. keys[i] = n.keys[i] /\ (~n.leaf => kids[i] = n.child[i])
      BY <3>1, <1>7, <1>8 DEF Inserted
    <3> QED
      BY <3>1, <3>2
  <2>2. CASE ~(i < f + 1)
    <3>1. i \in f + 1 .. Len(n.keys) /\ i + 1 \in 1 .. Len(keys)
      BY <2>2, <1>1, <1>3, <1>13
    <3>2. keys[i + 1] = n.keys[i] /\ (~n.leaf => kids[i + 1] = n.child[i])
      BY <3>1, <1>7, <1>8, <1>16 DEF Inserted
    <3> QED
      BY <3>1, <3>2
  <2> QED
    BY <2>1, <2>2
<1>18. ASSUME NEW j \in 1 .. Len(keys)
       PROVE  \/ keys[j] = key /\ (~n.leaf => kids[j] = child)
              \/ \E i \in 1 .. Len(n.keys) : keys[j] = n.keys[i] /\ (~n.leaf => kids[j] = n.child[i])
  <2>1. CASE j < f + 1
    <3>1. j \in 1 .. (f + 1) - 1 /\ j \in 1 .. Len(n.keys)
      BY <2>1, <1>1, <1>3, <1>13
    <3>2. keys[j] = n.keys[j] /\ (~n.leaf => kids[j] = n.child[j])
      BY <3>1, <1>7, <1>8 DEF Inserted
    <3> QED
      BY <3>1, <3>2
  <2>2. CASE j > f + 1
    <3>1. j - 1 \in f + 1 .. Len(n.keys) /\ (j - 1) + 1 = j /\ j - 1 \in 1 .. Len(n.keys)
      BY <2>2, <1>1, <1>3, <1>13
    <3>2. keys[j] = n.keys[j - 1] /\ (~n.leaf => kids[j] = n.child[j - 1])
      <4>1. keys[(j - 1) + 1] = n.keys[j - 1]
        BY <3>1, <1>7 DEF Inserted
      <4>2. ~n.leaf => kids[(j - 1) + 1] = n.child[j - 1]
        BY <3>1, <1>8, <1>16 DEF Inserted
      <4> QED
        BY <4>1, <4>2, <3>1
    <3> QED
      BY <3>1, <3>2
  <2>3. CASE j = f + 1
    BY <2>3, <1>7, <1>8 DEF Inserted
  <2> QED
    BY <2>1, <2>2, <2>3, <1>3, <1>13
<1>19. \E j \in 1 .. Len(keys) : keys[j] = key /\ (~n.leaf => kids[j] = child)
  <2>1. f + 1 \in 1 .. Len(keys)
    BY <1>6, <1>13
  <2>2. keys[f + 1] = key /\ (~n.leaf => kids[f + 1] = child)
    BY <1>7, <1>8 DEF Inserted
  <2> QED
    BY <2>1, <2>2
<1>20. keys[1] = n.keys[1]
  <2>1. 1 \in 1 .. (f + 1) - 1
    BY <1>3, <1>1
  <2> QED
    BY <2>1, <1>7 DEF Inserted
<1>21. Alike(m, n)
  BY <1>12 DEF Alike
<1>22. \A j \in 1 .. Len(m.keys) :
         \/ m.keys[j] = key /\ (~n.leaf => m.child[j] = child)
         \/ \E i \in 1 .. Len(n.keys) : Pair(m, j, n, i)
  BY <1>12, <1>18 DEF Pair
<1>23. \A i \in 1 .. Len(n.keys) : \E j \in 1 .. Len(m.keys) : Pair(n, i, m, j)
  BY <1>12, <1>17 DEF Pair
<1>24. \E j \in 1 .. Len(m.keys) : m.keys[j] = key /\ (~n.leaf => m.child[j] = child)
  BY <1>12, <1>19
<1>25. Len(m.keys) = Len(n.keys) + 1 /\ m.keys[1] = n.keys[1]
  BY <1>12, <1>13, <1>20
<1> QED
  BY <1>14, <1>15, <1>21, <1>22, <1>23, <1>24, <1>25 DEF Grown

\* The first key of a node that has none.
LEMMA InsertFirstIs ==
    ASSUME NoNulls, NEW n \in Node, ~n.leaf, n.keys = <<>>, n.child = <<>>,
           NEW key \in AllKeys, NEW child \in Nat
    PROVE  LET r == InsertKey(n, key, child)
           IN  Fit(r) /\ Alike(r, n) /\ r.keys = <<key>> /\ r.child = <<child>>
<1> DEFINE keys == InsertAt(n.keys, 1, key)
           kids == InsertAt(n.child, 1, child)
           m    == [n EXCEPT !.keys = keys, !.child = kids, !.nulls = n.nulls]
<1>1. key[1] # Null
  BY KeyParts DEF Null
<1>2. /\ n.keys \in Seq(AllKeys) /\ n.child \in Seq(Nat) /\ n.nulls = 0
      /\ Len(n.keys) = 0 /\ Len(n.child) = 0
  BY DEF Node
<1>3. 1 \in 1 .. Len(n.keys) + 1 /\ 1 \in 1 .. Len(n.child) + 1
  BY <1>2
<1>4. /\ keys \in Seq(AllKeys) /\ Inserted(n.keys, keys, 1, key)
      /\ kids \in Seq(Nat) /\ Inserted(n.child, kids, 1, child)
  BY <1>2, <1>3, InsertAtIs
<1>5. InsertKey(n, key, child) = SetKey(m, 1, key)
  <2>1. KeysCount(n) = 0
    BY <1>2 DEF KeysCount
  <2> QED
    BY <2>1, <1>1 DEF InsertKey
<1> HIDE DEF keys, kids
<1>6. Len(keys) = 1 /\ keys[1] = key /\ Len(kids) = 1 /\ kids[1] = child
  BY <1>4, <1>2 DEF Inserted
<1>7. keys = <<key>> /\ kids = <<child>>
  BY <1>4, <1>6, LenProperties
<1>8. /\ m \in Node /\ m.leaf = n.leaf /\ m.keys = keys /\ m.child = kids
      /\ m.prev = n.prev /\ m.next = n.next
  BY <1>2, <1>4 DEF Node
<1> HIDE DEF m
<1>9. InsertKey(n, key, child) = m
  <2>1. 1 \in 1 .. Len(m.keys) /\ m.keys[1] = key
    <3>1. m.keys = <<key>>
      BY <1>7, <1>8
    <3> QED
      BY <3>1
  <2> QED
    BY <2>1, <1>5, <1>8, SetKeyIs
<1>10. Fit(m)
  <2>1. Descending(keys)
    BY <1>6 DEF Descending
  <2> QED
    BY <2>1, <1>6, <1>8 DEF Fit
<1> QED
  BY <1>7, <1>8, <1>9, <1>10 DEF Alike

\* A node without one of its keys.
Shrunk(n, r, at) ==
    /\ Fit(r) /\ Alike(r, n) /\ Len(r.keys) = Len(n.keys) - 1
    /\ at # 1 => r.keys[1] = n.keys[1]
    /\ \A j \in 1 .. Len(r.keys) : \E i \in 1 .. Len(n.keys) : i # at /\ Pair(r, j, n, i)
    /\ \A i \in 1 .. Len(n.keys) : i # at => \E j \in 1 .. Len(r.keys) : Pair(n, i, r, j)

LEMMA RemoveKeyIs ==
    ASSUME NoNulls, NEW n, Fit(n), NEW at \in 1 .. Len(n.keys)
    PROVE  Shrunk(n, RemoveKey(n, at), at)
<1> DEFINE keys == RemoveAt(n.keys, at)
           kids == IF n.leaf THEN n.child ELSE RemoveAt(n.child, at)
           m    == [n EXCEPT !.keys = keys, !.child = kids, !.nulls = n.nulls]
<1>1. /\ n \in Node /\ Descending(n.keys) /\ Len(n.keys) \in Nat /\ NotNull(n) = Len(n.keys)
      /\ n.keys \in Seq(AllKeys) /\ n.child \in Seq(Nat) /\ n.leaf \in BOOLEAN /\ n.nulls = 0
  BY FitIs, NodeIs
<1>2. keys \in Seq(AllKeys) /\ Removed(n.keys, keys, at)
  BY <1>1, RemoveAtIs
<1>3. ~n.leaf => Len(n.child) = Len(n.keys)
  BY DEF Fit
<1>4. ~n.leaf => kids \in Seq(Nat) /\ Removed(n.child, kids, at)
  BY <1>1, <1>3, RemoveAtIs
<1>5. n.leaf => kids = <<>> /\ kids = n.child
  BY DEF Fit
<1>6. RemoveKey(n, at) = m
  <2>1. ~(at > NotNull(n))
    BY <1>1
  <2> QED
    BY <2>1 DEF RemoveKey
<1> HIDE DEF keys, kids
<1>7. kids \in Seq(Nat)
  BY <1>4, <1>5, <1>1
<1>8. /\ m \in Node /\ m.leaf = n.leaf /\ m.keys = keys /\ m.child = kids
      /\ m.prev = n.prev /\ m.next = n.next
  BY <1>1, <1>2, <1>7 DEF Node
<1> HIDE DEF m
<1>9. Len(keys) = Len(n.keys) - 1
  BY <1>2 DEF Removed
<1>10. Fit(m)
  <2>1. Descending(keys)
    BY <1>1, <1>2, DescendingRemoved
  <2>2. ~n.leaf => Len(kids) = Len(keys)
    BY <1>3, <1>4, <1>9 DEF Removed
  <2> QED
    BY <2>1, <2>2, <1>5, <1>8 DEF Fit
<1>11. ASSUME NEW i \in 1 .. Len(n.keys), i # at
       PROVE  \E j \in 1 .. Len(keys) : n.keys[i] = keys[j] /\ (~n.leaf => n.child[i] = kids[j])
  <2>1. CASE i < at
    <3>1. i \in 1 .. at - 1 /\ i \in 1 .. Len(keys)
      BY <2>1, <1>1, <1>9
    <3>2. keys[i] = n.keys[i] /\ (~n.leaf => kids[i] = n.child[i])
      BY <3>1, <1>2, <1>4 DEF Removed
    <3> QED
      BY <3>1, <3>2
  <2>2. CASE i > at
    <3>1. i \in at + 1 .. Len(n.keys) /\ i - 1 \in 1 .. Len(keys)
      BY <2>2, <1>1, <1>9
    <3>2. keys[i - 1] = n.keys[i] /\ (~n.leaf => kids[i - 1] = n.child[i])
      BY <3>1, <1>2, <1>4, <1>3 DEF Removed
    <3> QED
      BY <3>1, <3>2
  <2> QED
    BY <2>1, <2>2, <1>11, <1>1
<1>12. ASSUME NEW j \in 1 .. Len(keys)
       PROVE  \E i \in 1 .. Len(n.keys) :
                 i # at /\ keys[j] = n.keys[i] /\ (~n.leaf => kids[j] = n.child[i])
  <2>1. CASE j < at
    <3>1. j \in 1 .. at - 1 /\ j \in 1 .. Len(n.keys) /\ j # at
      BY <2>1, <1>1, <1>9
    <3>2. keys[j] = n.keys[j] /\ (~n.leaf => kids[j] = n.child[j])
      BY <3>1, <1>2, <1>4 DEF Removed
    <3> QED
      BY <3>1, <3>2
  <2>2. CASE ~(j < at)
    <3>1. j + 1 \in at + 1 .. Len(n.keys) /\ (j + 1) - 1 = j /\ j + 1 \in 1 .. Len(n.keys) /\ j + 1 # at
      BY <2>2, <1>1, <1>9
    <3>2. keys[j] = n.keys[j + 1] /\ (~n.leaf => kids[j] = n.child[j + 1])
      <4>1. keys[(j + 1) - 1] = n.keys[j + 1]
        BY <3>1, <1>2 DEF Removed
      <4>2. ~n.leaf => kids[(j + 1) - 1] = n.child[j + 1]
        BY <3>1, <1>4, <1>3 DEF Removed
      <4> QED
        BY <4>1, <4>2, <3>1
    <3> QED
      BY <3>1, <3>2
  <2> QED
    BY <2>1, <2>2
<1>13. at # 1 => keys[1] = n.keys[1]
  <2>1. SUFFICES ASSUME at # 1 PROVE keys[1] = n.keys[1]
    OBVIOUS
  <2>2. 1 \in 1 .. at - 1
    BY <2>1, <1>1
  <2> QED
    BY <2>2, <1>2 DEF Removed
<1>14. Alike(m, n)
  BY <1>8 DEF Alike
<1>15. \A j \in 1 .. Len(m.keys) : \E i \in 1 .. Len(n.keys) : i # at /\ Pair(m, j, n, i)
  BY <1>8, <1>12 DEF Pair
<1>16. \A i \in 1 .. Len(n.keys) : i # at => \E j \in 1 .. Len(m.keys) : Pair(n, i, m, j)
  BY <1>8, <1>11 DEF Pair
<1>17. Len(m.keys) = Len(n.keys) - 1 /\ (at # 1 => m.keys[1] = n.keys[1])
  BY <1>8, <1>9, <1>13
<1> QED
  BY <1>6, <1>10, <1>14, <1>15, <1>16, <1>17 DEF Shrunk

LEMMA PartOfNode ==
    ASSUME NoNulls, NEW n, Fit(n), NEW i \in 1 .. Len(n.keys) + 1, NEW j \in i - 1 .. Len(n.keys)
    PROVE  /\ SubSeq(n.keys, i, j) \in Seq(AllKeys) /\ Children(n, i, j) \in Seq(Nat)
           /\ \A r \in Node : r.leaf = n.leaf /\ r.keys = SubSeq(n.keys, i, j) /\ r.child = Children(n, i, j)
                => /\ Fit(r) /\ Len(r.keys) = j - i + 1
                   /\ \A k \in 1 .. j - i + 1 : i + k - 1 \in 1 .. Len(n.keys) /\ Pair(r, k, n, i + k - 1)
<1>1. /\ n.keys \in Seq(AllKeys) /\ n.child \in Seq(Nat) /\ n.leaf \in BOOLEAN
      /\ Len(n.keys) \in Nat /\ Descending(n.keys)
  BY FitIs
<1>2. /\ SubSeq(n.keys, i, j) \in Seq(AllKeys) /\ Len(SubSeq(n.keys, i, j)) = j - i + 1
      /\ \A k \in 1 .. j - i + 1 : SubSeq(n.keys, i, j)[k] = n.keys[i + k - 1]
  BY <1>1, PartIs
<1>3. CASE n.leaf
  <2>1. Children(n, i, j) = <<>> /\ <<>> \in Seq(Nat)
    BY <1>3 DEF Children
  <2>2. ASSUME NEW r \in Node, r.leaf = n.leaf, r.keys = SubSeq(n.keys, i, j), r.child = <<>>
        PROVE  Descending(r.keys)
    <3>1. ASSUME NEW a \in 1 .. Len(r.keys), NEW b \in 1 .. Len(r.keys), a < b
          PROVE  Num(r.keys[a]) > Num(r.keys[b])
      <4>1. /\ a \in 1 .. j - i + 1 /\ b \in 1 .. j - i + 1
            /\ i + a - 1 \in 1 .. Len(n.keys) /\ i + b - 1 \in 1 .. Len(n.keys)
            /\ i + a - 1 < i + b - 1
        BY <1>1, <1>2, <2>2, <3>1
      <4>2. r.keys[a] = n.keys[i + a - 1] /\ r.keys[b] = n.keys[i + b - 1]
        BY <4>1, <1>2, <2>2
      <4> QED
        BY <4>1, <4>2, <1>1 DEF Descending
    <3> QED
      BY <3>1 DEF Descending
  <2>3. ASSUME NEW k \in 1 .. j - i + 1 PROVE i + k - 1 \in 1 .. Len(n.keys)
    BY <1>1
  <2> QED
    BY <2>1, <2>2, <2>3, <1>2, <1>3 DEF Fit, Pair
<1>4. CASE ~n.leaf
  <2>1. Children(n, i, j) = SubSeq(n.child, i, j) /\ Len(n.child) = Len(n.keys)
    BY <1>4 DEF Children, Fit
  <2>2. /\ SubSeq(n.child, i, j) \in Seq(Nat) /\ Len(SubSeq(n.child, i, j)) = j - i + 1
        /\ \A k \in 1 .. j - i + 1 : SubSeq(n.child, i, j)[k] = n.child[i + k - 1]
    <3>1. i \in 1 .. Len(n.child) + 1 /\ j \in i - 1 .. Len(n.child) /\ n.child \in Seq(Nat)
      BY <1>1, <2>1
    <3> QED
      BY <3>1, PartIs
  <2>3. ASSUME NEW r \in Node, r.leaf = n.leaf, r.keys = SubSeq(n.keys, i, j)
        PROVE  Descending(r.keys)
    <3>1. ASSUME NEW a \in 1 .. Len(r.keys), NEW b \in 1 .. Len(r.keys), a < b
          PROVE  Num(r.keys[a]) > Num(r.keys[b])
      <4>1. /\ a \in 1 .. j - i + 1 /\ b \in 1 .. j - i + 1
            /\ i + a - 1 \in 1 .. Len(n.keys) /\ i + b - 1 \in 1 .. Len(n.keys)
            /\ i + a - 1 < i + b - 1
        BY <1>1, <1>2, <2>3, <3>1
      <4>2. r.keys[a] = n.keys[i + a - 1] /\ r.keys[b] = n.keys[i + b - 1]
        BY <4>1, <1>2, <2>3
      <4> QED
        BY <4>1, <4>2, <1>1 DEF Descending
    <3> QED
      BY <3>1 DEF Descending
  <2>4. ASSUME NEW k \in 1 .. j - i + 1 PROVE i + k - 1 \in 1 .. Len(n.keys)
    BY <1>1
  <2> QED
    BY <2>1, <2>2, <2>3, <2>4, <1>2, <1>4 DEF Fit, Pair
<1> QED
  BY <1>3, <1>4, <1>1

\* The keys of two nodes one after the other, when all of the first are above.
LEMMA JoinedNode ==
    ASSUME NoNulls, NEW a, Fit(a), NEW b, Fit(b), a.leaf = b.leaf,
           \A i \in 1 .. Len(a.keys), j \in 1 .. Len(b.keys) : Num(a.keys[i]) > Num(b.keys[j])
    PROVE  /\ a.keys \o b.keys \in Seq(AllKeys) /\ a.child \o b.child \in Seq(Nat)
           /\ \A r \in Node : r.leaf = a.leaf /\ r.keys = a.keys \o b.keys /\ r.child = a.child \o b.child
                => /\ Fit(r) /\ Len(r.keys) = Len(a.keys) + Len(b.keys)
                   /\ \A k \in 1 .. Len(a.keys) : k \in 1 .. Len(r.keys) /\ Pair(r, k, a, k)
                   /\ \A k \in 1 .. Len(b.keys) :
                        Len(a.keys) + k \in 1 .. Len(r.keys) /\ Pair(r, Len(a.keys) + k, b, k)
                   /\ \A k \in 1 .. Len(r.keys) :
                        k \in 1 .. Len(a.keys) \/ k - Len(a.keys) \in 1 .. Len(b.keys)
<1>1. /\ a.keys \in Seq(AllKeys) /\ a.child \in Seq(Nat) /\ a.leaf \in BOOLEAN
      /\ Len(a.keys) \in Nat /\ Descending(a.keys)
      /\ b.keys \in Seq(AllKeys) /\ b.child \in Seq(Nat) /\ b.leaf \in BOOLEAN
      /\ Len(b.keys) \in Nat /\ Descending(b.keys)
  BY FitIs
<1> DEFINE la == Len(a.keys)
           lb == Len(b.keys)
<1>0. la \in Nat /\ lb \in Nat
  BY <1>1
<1>2. /\ a.keys \o b.keys \in Seq(AllKeys) /\ Len(a.keys \o b.keys) = la + lb
      /\ \A k \in 1 .. la + lb : (a.keys \o b.keys)[k] = IF k <= la THEN a.keys[k] ELSE b.keys[k - la]
  BY <1>1, ConcatProperties
<1>3. /\ a.child \o b.child \in Seq(Nat)
      /\ ~a.leaf => /\ Len(a.child \o b.child) = la + lb
                    /\ \A k \in 1 .. la + lb :
                          (a.child \o b.child)[k] = IF k <= la THEN a.child[k] ELSE b.child[k - la]
  <2>1. /\ a.child \o b.child \in Seq(Nat) /\ Len(a.child \o b.child) = Len(a.child) + Len(b.child)
        /\ \A k \in 1 .. Len(a.child) + Len(b.child) :
              (a.child \o b.child)[k] = IF k <= Len(a.child) THEN a.child[k] ELSE b.child[k - Len(a.child)]
    BY <1>1, ConcatProperties
  <2>2. ~a.leaf => Len(a.child) = la /\ Len(b.child) = lb
    BY DEF Fit
  <2> HIDE DEF la, lb
  <2> QED
    BY <2>1, <2>2
<1>4. a.leaf => a.child \o b.child = <<>>
  BY DEF Fit
<1> SUFFICES ASSUME NEW r \in Node, r.leaf = a.leaf, r.keys = a.keys \o b.keys, r.child = a.child \o b.child
             PROVE  /\ Fit(r) /\ Len(r.keys) = la + lb
                    /\ \A k \in 1 .. la : k \in 1 .. Len(r.keys) /\ Pair(r, k, a, k)
                    /\ \A k \in 1 .. lb : la + k \in 1 .. Len(r.keys) /\ Pair(r, la + k, b, k)
                    /\ \A k \in 1 .. Len(r.keys) : k \in 1 .. la \/ k - la \in 1 .. lb
  BY <1>2, <1>3
<1>5. Len(r.keys) = la + lb
  BY <1>2
<1>6. ASSUME NEW k \in 1 .. la PROVE k \in 1 .. Len(r.keys) /\ Pair(r, k, a, k)
  <2> HIDE DEF la, lb
  <2>1. k \in 1 .. la + lb /\ k <= la
    BY <1>0
  <2> QED
    BY <2>1, <1>2, <1>3, <1>5 DEF Pair
<1>7. ASSUME NEW k \in 1 .. lb PROVE la + k \in 1 .. Len(r.keys) /\ Pair(r, la + k, b, k)
  <2> HIDE DEF la, lb
  <2>1. la + k \in 1 .. la + lb /\ ~(la + k <= la) /\ (la + k) - la = k
    BY <1>0
  <2>2. r.keys[la + k] = b.keys[(la + k) - la] /\ (~a.leaf => r.child[la + k] = b.child[(la + k) - la])
    BY <2>1, <1>2, <1>3
  <2> QED
    BY <2>1, <2>2, <1>5 DEF Pair
<1>8. ASSUME NEW k \in 1 .. Len(r.keys) PROVE k \in 1 .. la \/ k - la \in 1 .. lb
  <2> HIDE DEF la, lb
  <2> QED
    BY <1>5, <1>0
<1>9. Descending(r.keys)
  <2>1. ASSUME NEW i \in 1 .. Len(r.keys), NEW j \in 1 .. Len(r.keys), i < j
        PROVE  Num(r.keys[i]) > Num(r.keys[j])
    <3>1. CASE j <= la
      <4>1. i \in 1 .. la /\ j \in 1 .. la
        BY <3>1, <2>1, <1>0, <1>5
      <4>2. r.keys[i] = a.keys[i] /\ r.keys[j] = a.keys[j]
        BY <4>1, <1>6 DEF Pair
      <4> QED
        BY <4>1, <4>2, <2>1, <1>1 DEF Descending
    <3>2. CASE i <= la /\ j > la
      <4>1. i \in 1 .. la /\ j - la \in 1 .. lb /\ la + (j - la) = j
        <5> HIDE DEF la, lb
        <5> QED
          BY <3>2, <2>1, <1>0, <1>5
      <4>2. r.keys[i] = a.keys[i] /\ r.keys[la + (j - la)] = b.keys[j - la]
        BY <4>1, <1>6, <1>7 DEF Pair
      <4> QED
        BY <4>1, <4>2
    <3>3. CASE i > la
      <4>1. i - la \in 1 .. lb /\ la + (i - la) = i /\ j - la \in 1 .. lb /\ la + (j - la) = j /\ i - la < j - la
        <5> HIDE DEF la, lb
        <5> QED
          BY <3>3, <2>1, <1>0, <1>5
      <4>2. r.keys[la + (i - la)] = b.keys[i - la] /\ r.keys[la + (j - la)] = b.keys[j - la]
        BY <4>1, <1>7 DEF Pair
      <4> QED
        BY <4>1, <4>2, <1>1 DEF Descending
    <3> QED
      BY <3>1, <3>2, <3>3, <1>0, <1>5
  <2> QED
    BY <2>1 DEF Descending
<1>10. Fit(r)
  <2>1. ~a.leaf => Len(r.child) = Len(r.keys)
    BY <1>3, <1>5
  <2> QED
    BY <2>1, <1>4, <1>9 DEF Fit
<1> QED
  BY <1>5, <1>6, <1>7, <1>8, <1>10

-----------------------------------------------------------------------------
(* What the levels and the intervals of a whole tree say of its nodes. *)

LEMMA WholeIs ==
    ASSUME NoNulls, NEW t, NEW g, Whole(t, g), NEW x \in g.used
    PROVE  /\ x \in Nat \ {0} /\ x \in DOMAIN t.nodes
           /\ g.lev[x] \in Nat /\ g.lo[x] \in Nat /\ g.hi[x] \in Nat
           /\ g.lo[x] < g.hi[x] /\ g.hi[x] <= Top /\ Top \in Nat
           /\ Fit(t.nodes[x]) /\ t.nodes[x] \in Node /\ Len(t.nodes[x].keys) \in Nat \ {0}
           /\ t.nodes[x].leaf \in BOOLEAN /\ (t.nodes[x].leaf <=> g.lev[x] = 0)
           /\ \A i \in 1 .. Len(t.nodes[x].keys) :
                /\ Num(t.nodes[x].keys[i]) \in Nat
                /\ Covers(g, x, Num(t.nodes[x].keys[i]))
<1>1. g \in Ghosts /\ Placed(t, g)
  BY DEF Whole
<1>2. /\ x \in Nat \ {0} /\ g.lev[x] \in Nat /\ g.lo[x] \in Nat /\ g.hi[x] \in Nat
  BY <1>1 DEF Ghosts
<1>3. /\ x \in DOMAIN t.nodes /\ Fit(t.nodes[x]) /\ Len(t.nodes[x].keys) >= 1
      /\ t.nodes[x].leaf <=> g.lev[x] = 0
      /\ g.lo[x] < g.hi[x] /\ g.hi[x] <= Top
      /\ \A i \in 1 .. Len(t.nodes[x].keys) : Covers(g, x, Num(t.nodes[x].keys[i]))
  BY <1>1 DEF Placed, Covers
<1>4. /\ t.nodes[x] \in Node /\ Len(t.nodes[x].keys) \in Nat /\ t.nodes[x].leaf \in BOOLEAN
      /\ \A i \in 1 .. Len(t.nodes[x].keys) : Num(t.nodes[x].keys[i]) \in Nat
  BY <1>3, FitIs
<1>5. Top \in Nat
  BY NumIs DEF Top, AllKeys
<1>6. Len(t.nodes[x].keys) \in Nat \ {0}
  BY <1>3, <1>4
<1> QED
  BY <1>2, <1>3, <1>4, <1>5, <1>6

\* Two nodes of a level have no key in common.
LEMMA SameNode ==
    ASSUME NoNulls, NEW t, NEW g, Whole(t, g), NEW x \in g.used, NEW y \in g.used,
           g.lev[x] = g.lev[y], NEW k \in Nat, Covers(g, x, k), Covers(g, y, k)
    PROVE  x = y
<1>1. /\ g.lo[x] \in Nat /\ g.hi[x] \in Nat /\ g.lo[y] \in Nat /\ g.hi[y] \in Nat
  BY WholeIs
<1>2. g.lo[x] < k /\ k <= g.hi[x] /\ g.lo[y] < k /\ k <= g.hi[y]
  BY DEF Covers
<1>3. ~(g.hi[x] <= g.lo[y]) /\ ~(g.hi[y] <= g.lo[x])
  BY <1>1, <1>2
<1> QED
  BY <1>3 DEF Whole, Apart

LEMMA ChildIs ==
    ASSUME NoNulls, NEW t, NEW g, Whole(t, g), NEW p \in g.used, NEW i, NEW x, IsChild(t, p, i, x)
    PROVE  /\ x \in g.used /\ g.lev[p] = g.lev[x] + 1 /\ x # t.root /\ x # p
           /\ i \in 1 .. Len(t.nodes[p].keys) /\ g.hi[x] = Num(t.nodes[p].keys[i])
           /\ Covers(g, p, g.hi[x])
<1>1. i \in 1 .. Len(t.nodes[p].keys) /\ ~t.nodes[p].leaf /\ t.nodes[p].child[i] = x
  BY DEF IsChild
<1>2. x \in g.used /\ g.lev[x] + 1 = g.lev[p] /\ g.hi[x] = Num(t.nodes[p].keys[i])
  BY <1>1 DEF Whole, Family
<1>3. g.lev[x] \in Nat /\ g.lev[p] \in Nat /\ g.lev[t.root] \in Nat /\ g.lev[p] <= g.lev[t.root]
  BY <1>2, WholeIs DEF Whole, Rooted
<1>4. g.lev[p] = g.lev[x] + 1 /\ x # t.root /\ x # p
  BY <1>2, <1>3
<1>5. Covers(g, p, g.hi[x])
  BY <1>1, <1>2, WholeIs
<1> QED
  BY <1>1, <1>2, <1>4, <1>5

LEMMA ParentOf ==
    ASSUME NoNulls, NEW t, NEW g, Whole(t, g), NEW x \in g.used, x # t.root
    PROVE  \E p \in g.used : \E i \in 1 .. Len(t.nodes[p].keys) : IsChild(t, p, i, x)
  BY DEF Whole, Rooted

\* A node has one parent, in one place.
LEMMA OnlyParent ==
    ASSUME NoNulls, NEW t, NEW g, Whole(t, g), NEW p \in g.used, NEW i, NEW q \in g.used, NEW j, NEW x,
           IsChild(t, p, i, x), IsChild(t, q, j, x)
    PROVE  p = q /\ i = j
<1>1. /\ x \in g.used /\ g.lev[p] = g.lev[x] + 1 /\ g.lev[q] = g.lev[x] + 1
      /\ Covers(g, p, g.hi[x]) /\ Covers(g, q, g.hi[x])
      /\ i \in 1 .. Len(t.nodes[p].keys) /\ g.hi[x] = Num(t.nodes[p].keys[i])
      /\ j \in 1 .. Len(t.nodes[q].keys) /\ g.hi[x] = Num(t.nodes[q].keys[j])
  BY ChildIs
<1>2. g.hi[x] \in Nat
  BY <1>1, WholeIs
<1>3. p = q
  BY <1>1, <1>2, SameNode
<1>4. Fit(t.nodes[p])
  BY WholeIs
<1> QED
  BY <1>1, <1>3, <1>4, SameIndex

\* A node below the level of p whose interval ends in that of p is a child of p.
LEMMA HeirOf ==
    ASSUME NoNulls, NEW t, NEW g, Whole(t, g), NEW p \in g.used, NEW y \in g.used,
           g.lev[p] = g.lev[y] + 1, Covers(g, p, g.hi[y])
    PROVE  \E j \in 1 .. Len(t.nodes[p].keys) : IsChild(t, p, j, y)
<1>1. g.lev[y] \in Nat /\ g.hi[y] \in Nat /\ g.lev[p] \in Nat /\ g.lev[t.root] \in Nat
      /\ g.lev[p] <= g.lev[t.root]
  BY WholeIs DEF Whole, Rooted
<1>2. y # t.root
  BY <1>1
<1>3. PICK q \in g.used : \E j \in 1 .. Len(t.nodes[q].keys) : IsChild(t, q, j, y)
  BY <1>2, ParentOf
<1>4. g.lev[q] = g.lev[y] + 1 /\ Covers(g, q, g.hi[y])
  BY <1>3, ChildIs
<1>5. q = p
  BY <1>1, <1>4, SameNode
<1> QED
  BY <1>3, <1>5

\* The next node below a child is the next child.
LEMMA Siblings ==
    ASSUME NoNulls, NEW t, NEW g, Whole(t, g), NEW p \in g.used, NEW i, NEW x, NEW y,
           IsChild(t, p, i, x), IsChild(t, p, i + 1, y)
    PROVE  /\ x \in g.used /\ y \in g.used /\ x # y
           /\ t.nodes[x].prev = y /\ t.nodes[y].next = x
           /\ g.hi[y] = g.lo[x] /\ g.lev[y] = g.lev[x]
<1>1. /\ x \in g.used /\ y \in g.used /\ g.lev[p] = g.lev[x] + 1 /\ g.lev[p] = g.lev[y] + 1
      /\ i \in 1 .. Len(t.nodes[p].keys) /\ i + 1 \in 1 .. Len(t.nodes[p].keys)
      /\ g.hi[x] = Num(t.nodes[p].keys[i]) /\ g.hi[y] = Num(t.nodes[p].keys[i + 1])
      /\ Covers(g, p, g.hi[x]) /\ Covers(g, p, g.hi[y])
  BY ChildIs
<1>2. /\ g.lo[x] \in Nat /\ g.hi[x] \in Nat /\ g.lo[x] < g.hi[x] /\ g.lev[x] \in Nat
      /\ g.lo[y] \in Nat /\ g.hi[y] \in Nat /\ g.lo[y] < g.hi[y] /\ g.lev[y] \in Nat
      /\ g.lo[p] \in Nat /\ g.hi[p] \in Nat
      /\ Fit(t.nodes[p]) /\ Len(t.nodes[p].keys) \in Nat
  BY <1>1, WholeIs
<1>3. g.hi[y] < g.hi[x]
  BY SMTT(30), <1>1, <1>2, FitIs DEF Descending
<1>4. x # y /\ g.lev[x] = g.lev[y]
  <2>1. x # y
    <3>1. g.hi[x] # g.hi[y]
      BY <1>2, <1>3
    <3> QED
      BY <3>1
  <2>2. g.lev[x] = g.lev[y]
    <3>1. g.lev[x] + 1 = g.lev[y] + 1 /\ g.lev[x] \in Nat /\ g.lev[y] \in Nat
      BY <1>1, <1>2
    <3> QED
      BY <3>1
  <2> QED
    BY <2>1, <2>2
<1>5. g.hi[y] <= g.lo[x]
  <2>1. g.hi[x] <= g.lo[y] \/ g.hi[y] <= g.lo[x]
    BY <1>1, <1>4 DEF Whole, Apart
  <2> QED
    BY <2>1, <1>2, <1>3
<1> DEFINE q == t.nodes[x].prev
<1>6. q # NIL_NODE
  <2>1. g.lo[x] # 0
    BY <1>2, <1>5
  <2> QED
    BY <2>1, <1>1 DEF Whole, Linked
<1>7. q \in g.used /\ g.lev[q] = g.lev[x] /\ g.hi[q] = g.lo[x] /\ t.nodes[q].next = x
  BY <1>1, <1>6 DEF Whole, Linked
<1> HIDE DEF q
<1>8. Covers(g, p, g.hi[q])
  BY SMTT(30), <1>1, <1>2, <1>5, <1>7 DEF Covers
<1>9. PICK j \in 1 .. Len(t.nodes[p].keys) : IsChild(t, p, j, q)
  BY <1>1, <1>7, <1>8, HeirOf
<1>10. g.hi[q] = Num(t.nodes[p].keys[j])
  BY <1>9, ChildIs
<1>11. /\ Num(t.nodes[p].keys[j]) >= Num(t.nodes[p].keys[i + 1])
       /\ Num(t.nodes[p].keys[j]) < Num(t.nodes[p].keys[i])
       /\ Num(t.nodes[p].keys[j]) \in Nat /\ Num(t.nodes[p].keys[i]) \in Nat
       /\ Num(t.nodes[p].keys[i + 1]) \in Nat
  BY <1>1, <1>2, <1>5, <1>7, <1>10
<1>12. i \in Nat /\ j \in Nat
  BY <1>1, <1>2, <1>9
<1>13. ~(j < i) /\ j # i /\ ~(i + 1 < j)
  <2>1. Descending(t.nodes[p].keys)
    BY <1>2, FitIs
  <2>2. j < i => Num(t.nodes[p].keys[j]) > Num(t.nodes[p].keys[i])
    BY <2>1, <1>1, <1>9 DEF Descending
  <2>3. i + 1 < j => Num(t.nodes[p].keys[i + 1]) > Num(t.nodes[p].keys[j])
    BY <2>1, <1>1, <1>9 DEF Descending
  <2> QED
    BY <2>2, <2>3, <1>11
<1>14. j = i + 1
  BY <1>12, <1>13
<1>15. q = y
  BY <1>9, <1>14 DEF IsChild
<1> QED
  BY <1>1, <1>4, <1>7, <1>15 DEF q

\* The search for a key leads from a node that covers it to a child that does.
LEMMA Descend ==
    ASSUME NoNulls, NEW t, NEW g, Whole(t, g), NEW p \in g.used, ~t.nodes[p].leaf,
           NEW k \in Nat, Covers(g, p, k), NEW f, Found(t.nodes[p].keys, k, f), f # 0
    PROVE  /\ IsChild(t, p, f, t.nodes[p].child[f])
           /\ Covers(g, t.nodes[p].child[f], k)
<1>1. /\ Len(t.nodes[p].keys) \in Nat /\ Fit(t.nodes[p]) /\ g.lo[p] \in Nat /\ g.hi[p] \in Nat
  BY WholeIs
<1>2. f \in 1 .. Len(t.nodes[p].keys) /\ Num(t.nodes[p].keys[f]) >= k
  BY <1>1 DEF Found
<1> DEFINE c == t.nodes[p].child[f]
<1>3. IsChild(t, p, f, c)
  BY <1>2 DEF IsChild
<1> HIDE DEF c
<1>4. /\ c \in g.used /\ g.lev[p] = g.lev[c] + 1 /\ g.hi[c] = Num(t.nodes[p].keys[f])
      /\ Covers(g, p, g.hi[c])
  BY <1>3, ChildIs
<1>5. g.lo[c] \in Nat /\ g.hi[c] \in Nat /\ g.lo[c] < g.hi[c] /\ g.lev[c] \in Nat
  BY <1>4, WholeIs
<1>6. SUFFICES ASSUME ~(g.lo[c] < k) PROVE FALSE
  BY <1>2, <1>3, <1>4, <1>5 DEF Covers, c
<1> DEFINE q == t.nodes[c].prev
<1>7. q # NIL_NODE
  <2>1. g.lo[c] # 0
    BY <1>5, <1>6, <1>1 DEF Covers
  <2> QED
    BY <2>1, <1>4 DEF Whole, Linked
<1>8. q \in g.used /\ g.lev[q] = g.lev[c] /\ g.hi[q] = g.lo[c]
  BY <1>4, <1>7 DEF Whole, Linked
<1> HIDE DEF q
<1>9. Covers(g, p, g.hi[q])
  BY <1>1, <1>4, <1>5, <1>6, <1>8 DEF Covers
<1>10. PICK j \in 1 .. Len(t.nodes[p].keys) : IsChild(t, p, j, q)
  BY <1>4, <1>8, <1>9, HeirOf
<1>11. g.hi[q] = Num(t.nodes[p].keys[j])
  BY <1>10, ChildIs
<1>12. ~(Num(t.nodes[p].keys[j]) < k)
  BY <1>5, <1>6, <1>8, <1>11
<1>13. ~(j \in f + 1 .. Len(t.nodes[p].keys))
  BY <1>12 DEF Found
<1>14. j < f \/ j = f
  BY <1>13, <1>2, <1>1
<1>15. Num(t.nodes[p].keys[j]) < Num(t.nodes[p].keys[f])
  BY <1>4, <1>5, <1>8, <1>11
<1>16. Num(t.nodes[p].keys[j]) \in Nat /\ Num(t.nodes[p].keys[f]) \in Nat /\ Descending(t.nodes[p].keys)
  BY <1>1, <1>2, FitIs
<1>17. j < f => Num(t.nodes[p].keys[j]) > Num(t.nodes[p].keys[f])
  BY <1>16, <1>2 DEF Descending
<1> QED
  BY <1>14, <1>15, <1>16, <1>17

\* Where the nodes are tight the interval of a child is inside that of its parent.
LEMMA Inside ==
    ASSUME NoNulls, NEW t, NEW g, Whole(t, g), NEW X, Tight(t, g, X), NEW p \in g.used,
           \A y \in X : g.lev[y] # g.lev[p], NEW i, NEW x, IsChild(t, p, i, x)
    PROVE  g.lo[p] <= g.lo[x] /\ g.hi[x] <= g.hi[p]
<1>1. /\ x \in g.used /\ g.lev[p] = g.lev[x] + 1 /\ Covers(g, p, g.hi[x])
  BY ChildIs
<1>2. /\ g.lo[x] \in Nat /\ g.hi[x] \in Nat /\ g.lo[x] < g.hi[x] /\ g.lev[x] \in Nat
      /\ g.lo[p] \in Nat /\ g.hi[p] \in Nat
  BY <1>1, WholeIs
<1>3. g.lo[p] < g.hi[x] /\ g.hi[x] <= g.hi[p]
  BY <1>1 DEF Covers
<1> DEFINE q == t.nodes[p].prev
<1>4. CASE q = NIL_NODE
  <2>1. g.lo[p] = 0
    BY <1>4 DEF Whole, Linked
  <2> QED
    BY <2>1, <1>2, <1>3
<1>5. CASE q # NIL_NODE
  <2>1. q \in g.used /\ g.lev[q] = g.lev[p] /\ g.hi[q] = g.lo[p]
    BY <1>5 DEF Whole, Linked
  <2> HIDE DEF q
  <2>2. Len(t.nodes[q].keys) \in Nat \ {0} /\ 1 \in 1 .. Len(t.nodes[q].keys)
        /\ (t.nodes[q].leaf <=> g.lev[q] = 0) /\ g.lev[p] # 0
    BY <2>1, <1>1, <1>2, WholeIs, SMTT(30)
  <2>3. ~t.nodes[q].leaf
    BY <2>1, <2>2
  <2> DEFINE y == t.nodes[q].child[1]
  <2>4. IsChild(t, q, 1, y)
    BY <2>2, <2>3 DEF IsChild
  <2> HIDE DEF y
  <2>5. y \in g.used /\ g.lev[q] = g.lev[y] + 1 /\ g.hi[y] = Num(t.nodes[q].keys[1])
    BY <2>1, <2>4, ChildIs
  <2>6. g.hi[y] = g.lo[p]
    <3>1. q \notin X
      BY <2>1
    <3> QED
      BY <3>1, <2>1, <2>5 DEF Tight
  <2>7. g.lev[y] \in Nat /\ g.lo[y] \in Nat /\ g.hi[y] \in Nat /\ g.lo[y] < g.hi[y]
    BY <2>5, WholeIs
  <2>8. x # y /\ g.lev[x] = g.lev[y]
    <3>1. x # y
      <4>1. g.hi[x] # g.hi[y]
        BY <2>6, <2>7, <1>2, <1>3
      <4> QED
        BY <4>1
    <3>2. g.lev[x] = g.lev[y]
      <4>1. g.lev[x] + 1 = g.lev[y] + 1 /\ g.lev[x] \in Nat /\ g.lev[y] \in Nat
        BY <2>1, <2>5, <2>7, <1>1, <1>2
      <4> QED
        BY <4>1
    <3> QED
      BY <3>1, <3>2
  <2>9. g.hi[x] <= g.lo[y] \/ g.hi[y] <= g.lo[x]
    BY <2>5, <2>8, <1>1 DEF Whole, Apart
  <2> QED
    BY <2>6, <2>7, <2>9, <1>2, <1>3
<1> QED
  BY <1>4, <1>5

-----------------------------------------------------------------------------
(* Writing, allocating and freeing nodes. *)

\* t2 is t with node x written.
Written(t, t2, x, n) ==
    /\ t2 \in Trees /\ t2.root = t.root /\ t2.free = t.free
    /\ DOMAIN t2.nodes = DOMAIN t.nodes /\ t2.nodes[x] = n
    /\ \A y \in DOMAIN t.nodes : y # x => t2.nodes[y] = t.nodes[y]

LEMMA TreeParts ==
    ASSUME NEW t \in Trees
    PROVE  /\ t.nodes \in Seq(Node) /\ Len(t.nodes) \in Nat /\ DOMAIN t.nodes = 1 .. Len(t.nodes)
           /\ t.root \in Nat /\ t.free \in Nat
           /\ t = [nodes |-> t.nodes, root |-> t.root, free |-> t.free]
           /\ \A x \in DOMAIN t.nodes : t.nodes[x] \in Node /\ x \in Nat \ {0}
<1>1. t.nodes \in Seq(Node) /\ t.root \in Nat /\ t.free \in Nat
      /\ t = [nodes |-> t.nodes, root |-> t.root, free |-> t.free]
  BY DEF Trees
<1>2. Len(t.nodes) \in Nat /\ DOMAIN t.nodes = 1 .. Len(t.nodes)
  BY <1>1, LenProperties
<1>3. \A x \in 1 .. Len(t.nodes) : t.nodes[x] \in Node /\ x \in Nat \ {0}
  BY <1>1, <1>2, ElementOfSeq
<1> QED
  BY <1>1, <1>2, <1>3

LEMMA WriteIs ==
    ASSUME NEW t \in Trees, NEW x \in DOMAIN t.nodes, NEW n \in Node
    PROVE  Written(t, [t EXCEPT !.nodes[x] = n], x, n)
<1> DEFINE nodes == [t.nodes EXCEPT ![x] = n]
           t2    == [t EXCEPT !.nodes = nodes]
<1>1. /\ t.nodes \in Seq(Node) /\ DOMAIN t.nodes = 1 .. Len(t.nodes) /\ Len(t.nodes) \in Nat
      /\ x \in 1 .. Len(t.nodes)
  BY TreeParts
<1>2. nodes \in Seq(Node) /\ DOMAIN nodes = DOMAIN t.nodes /\ nodes[x] = n
      /\ \A y \in DOMAIN t.nodes : y # x => nodes[y] = t.nodes[y]
  BY <1>1, ExceptSeq
<1>3. [t EXCEPT !.nodes[x] = n] = t2
  BY DEF Trees
<1> HIDE DEF nodes
<1>4. t2 \in Trees /\ t2.root = t.root /\ t2.free = t.free /\ t2.nodes = nodes
  BY <1>2 DEF Trees
<1> HIDE DEF t2
<1> QED
  BY <1>2, <1>3, <1>4 DEF Written

LEMMA SetNextIs ==
    ASSUME NEW t \in Trees, NEW x \in DOMAIN t.nodes, NEW y \in Nat
    PROVE  /\ [t.nodes[x] EXCEPT !.next = y] \in Node
           /\ Written(t, SetNext(t, x, y), x, [t.nodes[x] EXCEPT !.next = y])
<1>1. t.nodes[x] \in Node /\ x # NIL_NODE
  BY TreeParts DEF NIL_NODE
<1> DEFINE n == [t.nodes[x] EXCEPT !.next = y]
<1>2. n \in Node
  BY <1>1 DEF Node
<1>3. SetNext(t, x, y) = [t EXCEPT !.nodes[x] = n]
  BY <1>1 DEF SetNext, Trees
<1> HIDE DEF n
<1>4. Written(t, SetNext(t, x, y), x, n)
  BY <1>2, <1>3, WriteIs
<1> QED
  BY <1>2, <1>4 DEF n

\* What is not free may be written.
LEMMA FreeChainKept ==
    ASSUME NEW t, NEW t2, NEW used, FreeChain(t, used), t2.free = t.free,
           DOMAIN t2.nodes = DOMAIN t.nodes,
           \A y \in DOMAIN t.nodes \ used : t2.nodes[y] = t.nodes[y]
    PROVE  FreeChain(t2, used)
<1>1. PICK n, fl : FreeList(t, used, n, fl)
  BY DEF FreeChain
<1>2. /\ n \in Nat /\ fl \in [Nat -> Nat] /\ fl[0] = NIL_NODE /\ fl[n] = t.free
      /\ \A i \in 1 .. n : fl[i] \in DOMAIN t.nodes /\ t.nodes[fl[i]] = [NewNode EXCEPT !.next = fl[i - 1]]
      /\ \A i, j \in 1 .. n : fl[i] = fl[j] => i = j
      /\ used = DOMAIN t.nodes \ {fl[i] : i \in 1 .. n}
  BY <1>1 DEF FreeList
<1>3. ASSUME NEW i \in 1 .. n PROVE t2.nodes[fl[i]] = t.nodes[fl[i]]
  BY <1>2
<1>4. \A i \in 1 .. n : fl[i] \in DOMAIN t2.nodes /\ t2.nodes[fl[i]] = [NewNode EXCEPT !.next = fl[i - 1]]
  BY <1>2, <1>3
<1>5. FreeList(t2, used, n, fl)
  BY <1>2, <1>4 DEF FreeList
<1> QED
  BY <1>5 DEF FreeChain

LEMMA NewNodeIs ==
    /\ NewNode \in Node /\ NewNode.nulls = 0 /\ ~NewNode.leaf
    /\ NewNode.keys = <<>> /\ NewNode.child = <<>> /\ NewNode.prev = 0 /\ NewNode.next = 0
<1>1. <<>> \in Seq(AllKeys) /\ <<>> \in Seq(Nat)
  OBVIOUS
<1> QED
  BY <1>1 DEF NewNode, Node, NIL_NODE

LEMMA AllocateIs ==
    ASSUME NEW t \in Trees, NEW used, used \subseteq DOMAIN t.nodes, FreeChain(t, used)
    PROVE  LET new == AllocatedId(t)
               t2  == AllocateNode(t)
           IN  /\ new \in Nat \ {0} /\ new \notin used /\ t2 \in Trees /\ t2.root = t.root
               /\ new \in DOMAIN t2.nodes /\ DOMAIN t.nodes \subseteq DOMAIN t2.nodes
               /\ \A y \in used : t2.nodes[y] = t.nodes[y]
               /\ t2.nodes[new].nulls = 0
               /\ FreeChain(t2, used \cup {new})
<1> DEFINE new == AllocatedId(t)
           t2  == AllocateNode(t)
<1>1. PICK n, fl : FreeList(t, used, n, fl)
  BY DEF FreeChain
<1>2. /\ n \in Nat /\ fl \in [Nat -> Nat] /\ fl[0] = NIL_NODE /\ fl[n] = t.free
      /\ \A i \in 1 .. n : fl[i] \in DOMAIN t.nodes /\ t.nodes[fl[i]] = [NewNode EXCEPT !.next = fl[i - 1]]
      /\ \A i, j \in 1 .. n : fl[i] = fl[j] => i = j
      /\ used = DOMAIN t.nodes \ {fl[i] : i \in 1 .. n}
  BY <1>1 DEF FreeList
<1>3. /\ t.nodes \in Seq(Node) /\ DOMAIN t.nodes = 1 .. Len(t.nodes) /\ Len(t.nodes) \in Nat
      /\ \A x \in DOMAIN t.nodes : x \in Nat \ {0}
  BY TreeParts
<1>4. CASE t.free # NIL_NODE
  <2>1. n \in 1 .. n /\ n - 1 \in Nat
    <3>1. n # 0
      BY <1>2, <1>4
    <3> QED
      BY <3>1, <1>2
  <2>2. /\ new = fl[n] /\ new \in DOMAIN t.nodes /\ t.nodes[new] = [NewNode EXCEPT !.next = fl[n - 1]]
        /\ fl[n - 1] \in Nat
    BY <2>1, <1>2, <1>4 DEF AllocatedId
  <2>3. t.nodes[new].next = fl[n - 1] /\ t.nodes[new].nulls = 0
    BY <2>2 DEF NewNode
  <2>4. t2 = [t EXCEPT !.free = fl[n - 1]]
    BY <2>2, <2>3, <1>2, <1>4 DEF AllocateNode
  <2> HIDE DEF t2, new
  <2>5. t2 \in Trees /\ t2.root = t.root /\ t2.nodes = t.nodes /\ t2.free = fl[n - 1]
    BY <2>2, <2>4 DEF Trees
  <2>6. used \cup {new} = DOMAIN t.nodes \ {fl[i] : i \in 1 .. n - 1}
    <3>1. \A i \in 1 .. n : i \in 1 .. n - 1 \/ i = n
      BY <1>2
    <3>2. \A i \in 1 .. n - 1 : i \in 1 .. n /\ i # n
      BY <1>2
    <3>3. {fl[i] : i \in 1 .. n} = {fl[i] : i \in 1 .. n - 1} \cup {new}
      BY <3>1, <3>2, <2>1, <2>2
    <3>4. new \notin {fl[i] : i \in 1 .. n - 1}
      BY <3>2, <2>1, <2>2, <1>2
    <3> QED
      BY <3>3, <3>4, <2>2, <1>2
  <2>7. \A i \in 1 .. n - 1 : i \in 1 .. n
    BY <1>2
  <2>8. FreeList(t2, used \cup {new}, n - 1, fl)
    BY <2>1, <2>5, <2>6, <2>7, <1>2 DEF FreeList
  <2>9. FreeChain(t2, used \cup {new})
    BY <2>8 DEF FreeChain
  <2>10. new \notin used
    BY <2>1, <2>2, <1>2
  <2> QED
    BY <2>2, <2>3, <2>5, <2>9, <2>10, <1>3 DEF t2, new
<1>5. CASE t.free = NIL_NODE
  <2>1. new = Len(t.nodes) + 1 /\ t2 = [t EXCEPT !.nodes = Append(t.nodes, NewNode)]
    BY <1>5 DEF AllocatedId, AllocateNode
  <2>2. NewNode \in Node /\ NewNode.nulls = 0
    BY NewNodeIs
  <2> DEFINE nodes == Append(t.nodes, NewNode)
  <2>3. /\ nodes \in Seq(Node) /\ Len(nodes) = Len(t.nodes) + 1
        /\ \A i \in 1 .. Len(t.nodes) : nodes[i] = t.nodes[i]
        /\ nodes[Len(t.nodes) + 1] = NewNode
    BY <1>3, <2>2, AppendProperties
  <2> HIDE DEF nodes
  <2>4. DOMAIN nodes = 1 .. Len(t.nodes) + 1
    BY <2>3, LenProperties
  <2> HIDE DEF t2, new
  <2>5. t2 \in Trees /\ t2.root = t.root /\ t2.nodes = nodes /\ t2.free = t.free
    BY <2>1, <2>3 DEF Trees, nodes
  <2>6. n = 0
    <3>1. SUFFICES ASSUME n # 0 PROVE FALSE
      OBVIOUS
    <3>2. n \in 1 .. n
      BY <3>1, <1>2
    <3> QED
      BY <3>2, <1>2, <1>3, <1>5 DEF NIL_NODE
  <2>7. used = 1 .. Len(t.nodes) /\ 1 .. n = {}
    <3>1. 1 .. n = {}
      BY <2>6
    <3> QED
      BY SMTT(30), <3>1, <1>2, <1>3
  <2>8. used \cup {new} = DOMAIN t2.nodes \ {fl[i] : i \in 1 .. n}
    <3>1. 1 .. Len(t.nodes) + 1 = 1 .. Len(t.nodes) \cup {Len(t.nodes) + 1}
      BY <1>3
    <3> QED
      BY <3>1, <2>1, <2>4, <2>5, <2>7
  <2>9. FreeList(t2, used \cup {new}, n, fl)
    BY <2>5, <2>7, <2>8, <1>2 DEF FreeList
  <2>10. FreeChain(t2, used \cup {new})
    BY <2>9 DEF FreeChain
  <2>11. new \in Nat \ {0} /\ new \notin used /\ new \in DOMAIN t2.nodes /\ DOMAIN t.nodes \subseteq DOMAIN t2.nodes
    BY <2>1, <2>4, <2>5, <2>7, <1>3
  <2>12. /\ \A y \in used : t2.nodes[y] = t.nodes[y]
         /\ t2.nodes[new].nulls = 0
    BY <2>1, <2>2, <2>3, <2>5, <2>7
  <2> QED
    BY <2>5, <2>10, <2>11, <2>12 DEF t2, new
<1> QED
  BY <1>4, <1>5

LEMMA FreeIs ==
    ASSUME NEW t \in Trees, NEW used, used \subseteq DOMAIN t.nodes, FreeChain(t, used), NEW x \in used
    PROVE  LET t2 == FreeNode(t, x)
           IN  /\ t2 \in Trees /\ t2.root = t.root /\ DOMAIN t2.nodes = DOMAIN t.nodes
               /\ \A y \in DOMAIN t.nodes : y # x => t2.nodes[y] = t.nodes[y]
               /\ FreeChain(t2, used \ {x})
<1> DEFINE n0 == [NewNode EXCEPT !.nulls = t.nodes[x].nulls, !.next = t.free]
           n1 == [NewNode EXCEPT !.next = t.free]
           t1 == [t EXCEPT !.nodes[x] = n1]
           t2 == FreeNode(t, x)
<1>1. PICK n, fl : FreeList(t, used, n, fl)
  BY DEF FreeChain
<1>2. /\ n \in Nat /\ fl \in [Nat -> Nat] /\ fl[0] = NIL_NODE /\ fl[n] = t.free
      /\ \A i \in 1 .. n : fl[i] \in DOMAIN t.nodes /\ t.nodes[fl[i]] = [NewNode EXCEPT !.next = fl[i - 1]]
      /\ \A i, j \in 1 .. n : fl[i] = fl[j] => i = j
      /\ used = DOMAIN t.nodes \ {fl[i] : i \in 1 .. n}
  BY <1>1 DEF FreeList
<1>3. t.free \in Nat /\ x \in Nat /\ t.nodes[x] \in Node
  BY TreeParts
<1>4. n0 = n1
  <2>1. t.nodes[x].nulls = 0
    BY <1>3 DEF Node
  <2>2. NewNode \in Node /\ NewNode.nulls = 0
    BY NewNodeIs
  <2> QED
    BY <2>1, <2>2, <1>3 DEF Node
<1>5. n1 \in Node
  BY NewNodeIs, <1>3 DEF Node
<1>6. t2 = [t EXCEPT !.nodes[x] = n1, !.free = x]
  BY <1>4 DEF FreeNode
<1> HIDE DEF n0, n1
<1>7. Written(t, t1, x, n1)
  BY <1>5, WriteIs
<1>8. t2 = [t1 EXCEPT !.free = x]
  BY <1>6 DEF Trees
<1> HIDE DEF t1, t2
<1>9. t2 \in Trees /\ t2.root = t1.root /\ t2.nodes = t1.nodes /\ t2.free = x
  BY <1>3, <1>7, <1>8 DEF Trees, Written
<1>10. /\ DOMAIN t2.nodes = DOMAIN t.nodes /\ t2.nodes[x] = n1 /\ t2.root = t.root
       /\ \A y \in DOMAIN t.nodes : y # x => t2.nodes[y] = t.nodes[y]
  BY <1>7, <1>9 DEF Written
<1> DEFINE fl2 == [i \in Nat |-> IF i = n + 1 THEN x ELSE fl[i]]
<1>11. /\ fl2 \in [Nat -> Nat] /\ fl2[0] = NIL_NODE /\ fl2[n + 1] = x
       /\ \A i \in 0 .. n : fl2[i] = fl[i]
  BY <1>2, <1>3
<1> HIDE DEF fl2
<1>12. \A i \in 1 .. n : fl[i] # x
  BY <1>2
<1>13. ASSUME NEW i \in 1 .. n + 1
       PROVE  fl2[i] \in DOMAIN t2.nodes /\ t2.nodes[fl2[i]] = [NewNode EXCEPT !.next = fl2[i - 1]]
  <2>1. CASE i = n + 1
    <3>1. i - 1 = n /\ n \in 0 .. n
      BY <2>1, <1>2
    <3> QED
      BY <3>1, <2>1, <1>2, <1>10, <1>11 DEF n1
  <2>2. CASE i \in 1 .. n
    <3>1. i - 1 \in 0 .. n /\ i \in 0 .. n
      BY <2>2, <1>2
    <3>2. fl2[i] = fl[i] /\ fl2[i - 1] = fl[i - 1]
      BY <3>1, <1>11
    <3> QED
      BY <3>2, <2>2, <1>2, <1>10, <1>12
  <2> QED
    BY <2>1, <2>2, <1>2
<1>14. ASSUME NEW i \in 1 .. n + 1, NEW j \in 1 .. n + 1, fl2[i] = fl2[j] PROVE i = j
  <2>1. \A m \in 1 .. n + 1 : m = n + 1 \/ (m \in 1 .. n /\ fl2[m] = fl[m])
    BY <1>2, <1>11
  <2> QED
    BY <2>1, <1>2, <1>11, <1>12, <1>14
<1>15. used \ {x} = DOMAIN t2.nodes \ {fl2[i] : i \in 1 .. n + 1}
  <2>1. \A m \in 1 .. n + 1 : m = n + 1 \/ (m \in 1 .. n /\ fl2[m] = fl[m])
    BY <1>2, <1>11
  <2>2. n + 1 \in 1 .. n + 1 /\ \A m \in 1 .. n : m \in 1 .. n + 1 /\ fl2[m] = fl[m]
    BY <1>2, <1>11
  <2>3. {fl2[i] : i \in 1 .. n + 1} = {fl[i] : i \in 1 .. n} \cup {x}
    BY <2>1, <2>2, <1>11
  <2> QED
    BY <2>3, <1>2, <1>10
<1>16. FreeList(t2, used \ {x}, n + 1, fl2)
  BY <1>2, <1>9, <1>11, <1>13, <1>14, <1>15 DEF FreeList
<1> QED
  BY <1>9, <1>10, <1>16 DEF FreeChain, t2

-----------------------------------------------------------------------------
(* Splitting a node. *)

\* t2 is t with x split: its tail is in new, and p has the first key of the tail.
SplitUp(t, g, t2, p, x, new) ==
    LET node == t.nodes[x]
        s    == Len(node.keys) \div 2
        a    == t2.nodes[new]
        b    == t2.nodes[x]
    IN  /\ t2 \in Trees /\ t2.root = t.root
        /\ new \in Nat \ {0} /\ new \notin g.used /\ new \in DOMAIN t2.nodes
        /\ g.used \subseteq DOMAIN t2.nodes
        /\ FreeChain(t2, g.used \cup {new})
        /\ Fit(a) /\ a.leaf = node.leaf /\ a.prev = node.prev /\ a.next = x
        /\ Len(a.keys) = Len(node.keys) - s /\ \A k \in 1 .. Len(node.keys) - s : Pair(a, k, node, s + k)
        /\ Fit(b) /\ b.leaf = node.leaf /\ b.prev = new /\ b.next = node.next
        /\ Len(b.keys) = s /\ \A k \in 1 .. s : Pair(b, k, node, k)
        /\ Grown(t.nodes[p], t2.nodes[p], node.keys[s + 1], new)
        /\ node.prev # NIL_NODE => t2.nodes[node.prev] = [t.nodes[node.prev] EXCEPT !.next = new]
        /\ \A y \in g.used : y \notin {x, p, node.prev} => t2.nodes[y] = t.nodes[y]

LEMMA Halves ==
    ASSUME NEW n \in Nat, n >= 2
    PROVE  /\ n \div 2 \in Nat /\ n \div 2 >= 1 /\ (n \div 2) + 1 \in 2 .. n
           /\ n \div 2 \in 0 .. n /\ n - (n \div 2) \in Nat /\ n - (n \div 2) >= 1
           /\ (n \div 2) + (n \div 2) \in {n, n - 1}
  OBVIOUS

\* The key at which a node is split is new to its parent.
LEMMA MiddleKey ==
    ASSUME NoNulls, NEW t, NEW g, Whole(t, g), NEW X, Tight(t, g, X), NEW p \in g.used, NEW i, NEW x,
           IsChild(t, p, i, x), x \notin X, NEW m \in 2 .. Len(t.nodes[x].keys)
    PROVE  LET mid == t.nodes[x].keys[m]
           IN  /\ mid \in AllKeys /\ \A j \in 1 .. Len(t.nodes[p].keys) : Num(t.nodes[p].keys[j]) # Num(mid)
               /\ Num(mid) < Num(t.nodes[p].keys[1]) /\ Num(mid) < g.hi[x] /\ g.lo[x] < Num(mid)
<1> DEFINE mid == t.nodes[x].keys[m]
<1>1. /\ x \in g.used /\ g.lev[p] = g.lev[x] + 1 /\ i \in 1 .. Len(t.nodes[p].keys)
      /\ g.hi[x] = Num(t.nodes[p].keys[i])
  BY ChildIs
<1>2. /\ Fit(t.nodes[x]) /\ Fit(t.nodes[p]) /\ Len(t.nodes[x].keys) \in Nat
      /\ g.lo[x] \in Nat /\ g.hi[x] \in Nat /\ g.lev[x] \in Nat /\ Len(t.nodes[p].keys) \in Nat
      /\ ~t.nodes[p].leaf
  BY <1>1, WholeIs DEF IsChild
<1>3. m \in 1 .. Len(t.nodes[x].keys) /\ 1 \in 1 .. Len(t.nodes[x].keys) /\ 1 < m
  BY <1>2
<1>4. mid \in AllKeys /\ Num(mid) \in Nat /\ Num(t.nodes[x].keys[1]) \in Nat
  BY <1>2, <1>3, FitIs
<1>5. Num(t.nodes[x].keys[1]) = g.hi[x]
  BY <1>1 DEF Tight
<1>6. Num(mid) < g.hi[x]
  BY <1>2, <1>3, <1>4, <1>5, FitIs DEF Descending
<1>7. Covers(g, x, Num(mid))
  BY <1>1, <1>3, WholeIs
<1>8. ASSUME NEW j \in 1 .. Len(t.nodes[p].keys) PROVE Num(t.nodes[p].keys[j]) # Num(mid)
  <2> DEFINE y == t.nodes[p].child[j]
  <2>1. IsChild(t, p, j, y)
    BY <1>2 DEF IsChild
  <2> HIDE DEF y
  <2>2. y \in g.used /\ g.lev[p] = g.lev[y] + 1 /\ g.hi[y] = Num(t.nodes[p].keys[j])
    BY <2>1, ChildIs
  <2>3. g.lev[y] \in Nat /\ g.lo[y] \in Nat /\ g.hi[y] \in Nat /\ g.lo[y] < g.hi[y]
    BY <2>2, WholeIs
  <2>4. g.lev[x] = g.lev[y]
    <3>1. g.lev[p] = g.lev[x] + 1 /\ g.lev[x] \in Nat
      BY <1>1, <1>2
    <3>2. g.lev[p] = g.lev[y] + 1 /\ g.lev[y] \in Nat
      BY <2>2, <2>3
    <3> QED
      BY <3>1, <3>2
  <2>5. SUFFICES ASSUME g.hi[y] = Num(mid) PROVE FALSE
    BY <2>2
  <2>6. Covers(g, y, Num(mid))
    BY <2>3, <2>5 DEF Covers
  <2>7. x = y
    <3> HIDE DEF mid
    <3> QED
      BY <2>2, <2>4, <2>6, <1>1, <1>4, <1>7, SameNode
  <2>8. g.hi[x] = Num(mid)
    BY <2>5, <2>7
  <2> QED
    <3> HIDE DEF mid
    <3> QED
      BY <2>8, <1>4, <1>6
<1>9. Num(mid) < Num(t.nodes[p].keys[1])
  <2>1. Num(t.nodes[p].keys[i]) <= Num(t.nodes[p].keys[1]) /\ 1 \in 1 .. Len(t.nodes[p].keys)
    BY <1>1, <1>2, FirstIsBiggest
  <2>2. Num(t.nodes[p].keys[i]) \in Nat /\ Num(t.nodes[p].keys[1]) \in Nat
    BY <2>1, <1>1, <1>2, FitIs
  <2> HIDE DEF mid
  <2> QED
    BY <2>1, <2>2, <1>1, <1>4, <1>6
<1> QED
  BY <1>4, <1>6, <1>7, <1>8, <1>9 DEF Covers

LEMMA SplitNodeIs ==
    ASSUME NoNulls, NEW t, NEW g, Whole(t, g), NEW X, Tight(t, g, X), NEW p \in g.used, NEW i, NEW x,
           IsChild(t, p, i, x), x \notin X, Len(t.nodes[x].keys) >= 2
    PROVE  SplitUp(t, g, SplitNode(t, p, x), p, x, AllocatedId(t))
<1> DEFINE node == t.nodes[x]
           n    == Len(node.keys)
           s    == n \div 2
           new  == AllocatedId(t)
           t1   == AllocateNode(t)
           mid  == node.keys[s + 1]
           a    == [leaf  |-> node.leaf, keys |-> SubSeq(node.keys, s + 1, n),
                    child |-> Children(node, s + 1, n), nulls |-> 0, prev |-> node.prev, next |-> x]
           b    == [node EXCEPT !.keys = SubSeq(node.keys, 1, s), !.child = Children(node, 1, s),
                                !.nulls = 0, !.prev = new]
           c    == InsertKey(t.nodes[p], mid, new)
           t5   == [t1 EXCEPT !.nodes[new] = a, !.nodes[x] = b, !.nodes[p] = InsertKey(@, mid, new)]
           t2   == SetNext(t5, node.prev, new)
<1>1. /\ x \in g.used /\ g.lev[p] = g.lev[x] + 1 /\ x # p
  BY ChildIs
<1>2. /\ Fit(node) /\ Fit(t.nodes[p]) /\ n \in Nat /\ x \in Nat \ {0} /\ g.lev[x] \in Nat
      /\ g.lo[x] \in Nat /\ g.hi[x] \in Nat /\ g.lo[x] < g.hi[x] /\ Len(t.nodes[p].keys) >= 1
      /\ x \in DOMAIN t.nodes /\ p \in DOMAIN t.nodes /\ ~t.nodes[p].leaf
  BY <1>1, WholeIs DEF IsChild
<1>3. /\ s \in Nat /\ s >= 1 /\ s + 1 \in 2 .. n /\ s \in 0 .. n /\ n - s \in Nat /\ n - s >= 1
  BY <1>2, Halves
<1> HIDE DEF s
<1>4. /\ node \in Node /\ n = KeysCount(node) /\ NotNull(node) = n /\ node.nulls = 0
      /\ GetKeys(node) = node.keys /\ GetKey(node, s + 1) = mid
      /\ node.leaf \in BOOLEAN /\ node.prev \in Nat /\ node.next \in Nat
  <2>1. s + 1 \in 1 .. n
    BY <1>3
  <2> QED
    BY <2>1, <1>2, FitIs, NodeIs
<1>5. /\ mid \in AllKeys /\ \A j \in 1 .. Len(t.nodes[p].keys) : Num(t.nodes[p].keys[j]) # Num(mid)
      /\ Num(mid) < Num(t.nodes[p].keys[1])
  BY <1>3, MiddleKey
<1>6. /\ t \in Trees /\ g.used \subseteq DOMAIN t.nodes /\ FreeChain(t, g.used)
  <2>1. \A y \in g.used : y \in DOMAIN t.nodes
    BY WholeIs
  <2> QED
    BY <2>1 DEF Whole
<1>7. /\ new \in Nat \ {0} /\ new \notin g.used /\ t1 \in Trees /\ t1.root = t.root
      /\ new \in DOMAIN t1.nodes /\ DOMAIN t.nodes \subseteq DOMAIN t1.nodes
      /\ \A y \in g.used : t1.nodes[y] = t.nodes[y]
      /\ FreeChain(t1, g.used \cup {new})
  BY <1>6, AllocateIs
<1>8. /\ SubSeq(node.keys, s + 1, n) \in Seq(AllKeys) /\ Children(node, s + 1, n) \in Seq(Nat)
      /\ \A r \in Node : r.leaf = node.leaf /\ r.keys = SubSeq(node.keys, s + 1, n)
                         /\ r.child = Children(node, s + 1, n)
           => /\ Fit(r) /\ Len(r.keys) = n - (s + 1) + 1
              /\ \A k \in 1 .. n - (s + 1) + 1 : Pair(r, k, node, (s + 1) + k - 1)
  <2>1. s + 1 \in 1 .. n + 1 /\ n \in (s + 1) - 1 .. n
    BY <1>3
  <2>2. Fit(node)
    BY <1>2
  <2>3. ASSUME NEW v, Fit(v), NEW h \in 1 .. Len(v.keys) + 1, NEW j \in h - 1 .. Len(v.keys)
        PROVE  /\ SubSeq(v.keys, h, j) \in Seq(AllKeys) /\ Children(v, h, j) \in Seq(Nat)
               /\ \A r \in Node : r.leaf = v.leaf /\ r.keys = SubSeq(v.keys, h, j) /\ r.child = Children(v, h, j)
                    => /\ Fit(r) /\ Len(r.keys) = j - h + 1
                       /\ \A k \in 1 .. j - h + 1 : Pair(r, k, v, h + k - 1)
    BY <2>3, PartOfNode
  <2> HIDE DEF node
  <2> QED
    BY <2>1, <2>2, <2>3
<1>9. /\ SubSeq(node.keys, 1, s) \in Seq(AllKeys) /\ Children(node, 1, s) \in Seq(Nat)
      /\ \A r \in Node : r.leaf = node.leaf /\ r.keys = SubSeq(node.keys, 1, s)
                         /\ r.child = Children(node, 1, s)
           => /\ Fit(r) /\ Len(r.keys) = s - 1 + 1
              /\ \A k \in 1 .. s - 1 + 1 : Pair(r, k, node, 1 + k - 1)
  <2>1. 1 \in 1 .. n + 1 /\ s \in 1 - 1 .. n
    BY <1>2, <1>3
  <2>2. Fit(node)
    BY <1>2
  <2>3. ASSUME NEW v, Fit(v), NEW h \in 1 .. Len(v.keys) + 1, NEW j \in h - 1 .. Len(v.keys)
        PROVE  /\ SubSeq(v.keys, h, j) \in Seq(AllKeys) /\ Children(v, h, j) \in Seq(Nat)
               /\ \A r \in Node : r.leaf = v.leaf /\ r.keys = SubSeq(v.keys, h, j) /\ r.child = Children(v, h, j)
                    => /\ Fit(r) /\ Len(r.keys) = j - h + 1
                       /\ \A k \in 1 .. j - h + 1 : Pair(r, k, v, h + k - 1)
    BY <2>3, PartOfNode
  <2> HIDE DEF node
  <2> QED
    BY <2>1, <2>2, <2>3
<1>10. n - (s + 1) + 1 = n - s /\ s - 1 + 1 = s /\ \A k \in Nat : (s + 1) + k - 1 = s + k /\ 1 + k - 1 = k
  <2> HIDE DEF n
  <2> QED
    BY <1>2, <1>3
<1>11. SplitNode(t, p, x) = t2
  <2>1. KeysCount(node) = n /\ ~(NotNull(node) < s)
    BY <1>3, <1>4
  <2>2. node.nulls - node.nulls = 0
    BY <1>4
  <2> DEFINE t6 == [t1 EXCEPT !.nodes[new] = a, !.nodes[x] = b,
                              !.nodes[p] = InsertKey(@, GetKey(node, s + 1), new)]
  <2>4. SplitNode(t, p, x) = SetNext(t6, node.prev, new)
    BY <2>1, <2>2, <1>4 DEF SplitNode, s
  <2> HIDE DEF node
  <2>5. GetKey(node, s + 1) = mid
    BY <1>4
  <2> QED
    BY <2>4, <2>5
<1>12. /\ a \in Node /\ a.leaf = node.leaf /\ a.keys = SubSeq(node.keys, s + 1, n)
       /\ a.child = Children(node, s + 1, n) /\ a.prev = node.prev /\ a.next = x
  BY <1>2, <1>4, <1>8 DEF Node
<1>13. /\ b \in Node /\ b.leaf = node.leaf /\ b.keys = SubSeq(node.keys, 1, s)
       /\ b.child = Children(node, 1, s) /\ b.prev = new /\ b.next = node.next
  BY <1>4, <1>7, <1>9 DEF Node
<1>14. Grown(t.nodes[p], c, mid, new) /\ c \in Node
  <2>1. new \in Nat
    BY <1>7
  <2>2. Grown(t.nodes[p], c, mid, new)
    BY <2>1, <1>2, <1>5, InsertKeyIs
  <2> QED
    BY <2>2, FitIs DEF Grown
<1> HIDE DEF a, b, c
<1>15. Fit(a) /\ Len(a.keys) = n - s /\ \A k \in 1 .. n - s : Pair(a, k, node, s + k)
  <2>1. /\ Fit(a) /\ Len(a.keys) = n - (s + 1) + 1
        /\ \A k \in 1 .. n - (s + 1) + 1 : Pair(a, k, node, (s + 1) + k - 1)
    BY <1>8, <1>12
  <2>2. ASSUME NEW k \in 1 .. n - s PROVE Pair(a, k, node, s + k)
    <3>1. k \in 1 .. n - (s + 1) + 1 /\ (s + 1) + k - 1 = s + k
      BY <1>10
    <3>2. Pair(a, k, node, (s + 1) + k - 1)
      BY <3>1, <2>1
    <3> QED
      BY <3>1, <3>2
  <2> QED
    BY <2>1, <2>2, <1>10
<1>16. Fit(b) /\ Len(b.keys) = s /\ \A k \in 1 .. s : Pair(b, k, node, k)
  <2>1. /\ Fit(b) /\ Len(b.keys) = s - 1 + 1
        /\ \A k \in 1 .. s - 1 + 1 : Pair(b, k, node, 1 + k - 1)
    BY <1>9, <1>13
  <2>2. ASSUME NEW k \in 1 .. s PROVE Pair(b, k, node, k)
    <3>1. k \in 1 .. s - 1 + 1 /\ 1 + k - 1 = k
      BY <1>10
    <3>2. Pair(b, k, node, 1 + k - 1)
      BY <3>1, <2>1
    <3> QED
      BY <3>1, <3>2
  <2> QED
    BY <2>1, <2>2, <1>10
<1>17. /\ t5 \in Trees /\ t5.root = t1.root /\ t5.free = t1.free /\ DOMAIN t5.nodes = DOMAIN t1.nodes
       /\ t5.nodes[new] = a /\ t5.nodes[x] = b /\ t5.nodes[p] = c
       /\ \A w \in DOMAIN t1.nodes : w \notin {new, x, p} => t5.nodes[w] = t1.nodes[w]
  <2>1. /\ new # x /\ new # p /\ x # p /\ x \in DOMAIN t1.nodes /\ p \in DOMAIN t1.nodes
        /\ new \in DOMAIN t1.nodes /\ t1 \in Trees
    BY <1>1, <1>2, <1>7
  <2>2. a \in Node /\ b \in Node /\ c \in Node
    BY <1>12, <1>13, <1>14
  <2>3. c = InsertKey(t1.nodes[p], mid, new)
    BY <1>7 DEF c
  <2> DEFINE u  == [t1 EXCEPT !.nodes[new] = a]
             v  == [u EXCEPT !.nodes[x] = b]
             v5 == [v EXCEPT !.nodes[p] = c]
  <2>4. t5 = [v EXCEPT !.nodes[p] = InsertKey(t1.nodes[p], mid, new)]
    OBVIOUS
  <2> HIDE DEF t1, new, mid, node, t5
  <2>5. Written(t1, u, new, a)
    BY <2>1, <2>2, WriteIs
  <2> HIDE DEF u
  <2>6. Written(u, v, x, b)
    <3>1. u \in Trees /\ x \in DOMAIN u.nodes
      BY <2>1, <2>5 DEF Written
    <3> QED
      BY <3>1, <2>2, WriteIs
  <2> HIDE DEF v
  <2>7. Written(v, v5, p, c)
    <3>1. v \in Trees /\ p \in DOMAIN v.nodes
      BY <2>1, <2>5, <2>6 DEF Written
    <3> QED
      BY <3>1, <2>2, WriteIs
  <2>8. t5 = v5
    BY <2>3, <2>4
  <2> HIDE DEF v5
  <2> QED
    BY <2>1, <2>5, <2>6, <2>7, <2>8 DEF Written
<1> HIDE DEF t5
<1>18. FreeChain(t5, g.used \cup {new})
  <2>1. \A y \in DOMAIN t1.nodes \ (g.used \cup {new}) : t5.nodes[y] = t1.nodes[y]
    BY <1>1, <1>17
  <2> HIDE DEF t1, new
  <2> QED
    BY <2>1, <1>7, <1>17, FreeChainKept
<1>19. CASE node.prev = NIL_NODE
  <2>1. t2 = t5
    BY <1>19 DEF SetNext
  <2>2. \A y \in g.used : y \notin {x, p} => t2.nodes[y] = t.nodes[y]
    <3>1. \A y \in g.used : y \in DOMAIN t1.nodes /\ y # new
      BY <1>6, <1>7
    <3> QED
      BY <3>1, <2>1, <1>7, <1>17
  <2> HIDE DEF t2, t1, new
  <2>3. g.used \subseteq DOMAIN t5.nodes /\ new \in DOMAIN t5.nodes
    BY <1>6, <1>7, <1>17
  <2>4. SplitUp(t, g, t2, p, x, new)
    BY ZenonT(30), <2>1, <2>2, <2>3, <1>7, <1>12, <1>13, <1>14, <1>15, <1>16, <1>17, <1>18, <1>19 DEF SplitUp, s
  <2> QED
    BY <2>4, <1>11 DEF t2, t1, new
<1>20. CASE node.prev # NIL_NODE
  <2> DEFINE q == node.prev
  <2>1. /\ q \in g.used /\ g.lev[q] = g.lev[x] /\ g.hi[q] = g.lo[x]
    BY <1>1, <1>20 DEF Whole, Linked
  <2>2. q # x /\ q # p /\ q # new /\ q \in DOMAIN t1.nodes
    <3>1. q # new /\ q \in DOMAIN t1.nodes
      BY <2>1, <1>6, <1>7
    <3>2. q # p
      BY <2>1, <1>1, <1>2
    <3>3. q # x
      <4>1. g.hi[q] # g.hi[x]
        BY <2>1, <1>2
      <4> QED
        BY <4>1
    <3> QED
      BY <3>1, <3>2, <3>3
  <2>3. t5.nodes[q] = t.nodes[q]
    BY <2>1, <2>2, <1>7, <1>17
  <2> HIDE DEF q, t1
  <2>4. Written(t5, t2, q, [t.nodes[q] EXCEPT !.next = new])
    <3>1. q \in DOMAIN t5.nodes /\ new \in Nat /\ t2 = SetNext(t5, q, new)
      BY <2>2, <1>7, <1>17 DEF q
    <3> HIDE DEF t2, new
    <3>2. Written(t5, t2, q, [t5.nodes[q] EXCEPT !.next = new])
      BY <3>1, <1>17, SetNextIs
    <3> QED
      BY <3>2, <2>3
  <2> HIDE DEF t2, new
  <2>5. FreeChain(t2, g.used \cup {new})
    <3>1. t2.free = t5.free /\ DOMAIN t2.nodes = DOMAIN t5.nodes
          /\ \A y \in DOMAIN t5.nodes \ (g.used \cup {new}) : t2.nodes[y] = t5.nodes[y]
      BY <2>1, <2>4 DEF Written
    <3> QED
      BY <3>1, <1>18, FreeChainKept
  <2>6. /\ t2 \in Trees /\ t2.root = t.root /\ new \in DOMAIN t2.nodes /\ g.used \subseteq DOMAIN t2.nodes
        /\ t2.nodes[new] = a /\ t2.nodes[x] = b /\ t2.nodes[p] = c
        /\ t2.nodes[q] = [t.nodes[q] EXCEPT !.next = new]
    BY <2>2, <2>4, <1>1, <1>2, <1>6, <1>7, <1>17 DEF Written
  <2>7. ASSUME NEW y \in g.used, y \notin {x, p, q} PROVE t2.nodes[y] = t.nodes[y]
    <3>1. y \in DOMAIN t1.nodes /\ y # new
      BY <1>6, <1>7
    <3>2. t2.nodes[y] = t5.nodes[y] /\ t5.nodes[y] = t1.nodes[y] /\ t1.nodes[y] = t.nodes[y]
      BY <3>1, <2>4, <2>7, <1>7, <1>17 DEF Written
    <3> QED
      BY <3>2
  <2>8. SplitUp(t, g, t2, p, x, new)
    BY <2>5, <2>6, <2>7, <1>7, <1>12, <1>13, <1>14, <1>15, <1>16 DEF SplitUp, s, q
  <2> QED
    BY <2>8, <1>11 DEF t2, t1, new
<1> QED
  BY <1>19, <1>20

\* A leaf has the key.
Holds(t, g, k) ==
    \E y \in g.used : t.nodes[y].leaf /\ \E i \in 1 .. Len(t.nodes[y].keys) : t.nodes[y].keys[i] = k

\* The intervals when x has been split at a key whose number is m.
Cut(g, x, new, m) ==
    [used |-> g.used \cup {new}, lev |-> [g.lev EXCEPT ![new] = g.lev[x]],
     lo |-> [g.lo EXCEPT ![new] = g.lo[x], ![x] = m], hi |-> [g.hi EXCEPT ![new] = m]]

LEMMA CutIs ==
    ASSUME NEW g \in Ghosts, NEW x \in g.used, NEW new \in Nat \ {0}, new \notin g.used, NEW m \in Nat
    PROVE  LET g2 == Cut(g, x, new, m)
           IN  /\ g2 \in Ghosts /\ g2.used = g.used \cup {new}
               /\ g2.lev[new] = g.lev[x] /\ g2.lo[new] = g.lo[x] /\ g2.hi[new] = m /\ g2.lo[x] = m
               /\ \A y \in g.used : g2.lev[y] = g.lev[y] /\ g2.hi[y] = g.hi[y]
               /\ \A y \in g.used : y # x => g2.lo[y] = g.lo[y]
<1> DEFINE lev == [g.lev EXCEPT ![new] = g.lev[x]]
           lo  == [g.lo EXCEPT ![new] = g.lo[x], ![x] = m]
           hi  == [g.hi EXCEPT ![new] = m]
           g2  == Cut(g, x, new, m)
<1>1. /\ g.used \subseteq Nat \ {0} /\ g.lev \in [Nat -> Nat] /\ g.lo \in [Nat -> Nat]
      /\ g.hi \in [Nat -> Nat] /\ x \in Nat /\ new # x
  BY DEF Ghosts
<1>2. /\ lev \in [Nat -> Nat] /\ lev[new] = g.lev[x]
      /\ \A y \in g.used : lev[y] = g.lev[y]
  BY <1>1
<1>3. /\ lo \in [Nat -> Nat] /\ lo[new] = g.lo[x] /\ lo[x] = m
      /\ \A y \in g.used : y # x => lo[y] = g.lo[y]
  BY <1>1
<1>4. /\ hi \in [Nat -> Nat] /\ hi[new] = m
      /\ \A y \in g.used : hi[y] = g.hi[y]
  BY <1>1
<1>5. g2.used = g.used \cup {new} /\ g2.lev = lev /\ g2.lo = lo /\ g2.hi = hi
      /\ g2 = [used |-> g.used \cup {new}, lev |-> lev, lo |-> lo, hi |-> hi]
  BY DEF Cut
<1> HIDE DEF lev, lo, hi
<1>6. g2 \in Ghosts
  BY <1>1, <1>2, <1>3, <1>4, <1>5 DEF Ghosts
<1> HIDE DEF g2
<1> QED
  BY <1>2, <1>3, <1>4, <1>5, <1>6 DEF g2

LEMMA SplitWhole ==
    ASSUME NoNulls, NEW t, NEW g, Whole(t, g), Tight(t, g, {}), NEW p \in g.used, NEW i, NEW x,
           IsChild(t, p, i, x), Len(t.nodes[x].keys) >= 2, NEW t2, NEW new, SplitUp(t, g, t2, p, x, new)
    PROVE  LET g2 == Cut(g, x, new, Num(t.nodes[x].keys[Len(t.nodes[x].keys) \div 2 + 1]))
           IN  /\ Whole(t2, g2) /\ Tight(t2, g2, {})
               /\ \A k : Holds(t2, g2, k) <=> Holds(t, g, k)
<1> DEFINE node == t.nodes[x]
           n    == Len(node.keys)
           s    == n \div 2
           mid  == node.keys[s + 1]
           m    == Num(mid)
           a    == t2.nodes[new]
           b    == t2.nodes[x]
           q    == node.prev
           g2   == Cut(g, x, new, m)
<1>1. /\ x \in g.used /\ g.lev[p] = g.lev[x] + 1 /\ x # t.root /\ x # p
  BY ChildIs
<1>2. /\ Fit(node) /\ n \in Nat \ {0} /\ x \in Nat \ {0} /\ g.lev[x] \in Nat
      /\ g.lo[x] \in Nat /\ g.hi[x] \in Nat /\ g.lo[x] < g.hi[x] /\ g.hi[x] <= Top /\ Top \in Nat
      /\ ~t.nodes[p].leaf /\ g.lo[p] \in Nat /\ g.hi[p] \in Nat /\ node.leaf \in BOOLEAN
      /\ (node.leaf <=> g.lev[x] = 0)
  BY <1>1, WholeIs DEF IsChild
<1>3. /\ s \in Nat /\ s >= 1 /\ s + 1 \in 2 .. n /\ s \in 0 .. n /\ n - s \in Nat /\ n - s >= 1
  BY <1>2, Halves
<1>4. SplitUp(t, g, t2, p, x, new)
  OBVIOUS
<1>5. /\ t2 \in Trees /\ t2.root = t.root
      /\ new \in Nat \ {0} /\ new \notin g.used /\ new \in DOMAIN t2.nodes
      /\ g.used \subseteq DOMAIN t2.nodes
      /\ FreeChain(t2, g.used \cup {new})
  BY <1>4 DEF SplitUp
<1>6. /\ Fit(a) /\ a.leaf = node.leaf /\ a.prev = q /\ a.next = x
      /\ Len(a.keys) = n - s /\ \A k \in 1 .. n - s : Pair(a, k, node, s + k)
  BY <1>4 DEF SplitUp
<1>7. /\ Fit(b) /\ b.leaf = node.leaf /\ b.prev = new /\ b.next = node.next
      /\ Len(b.keys) = s /\ \A k \in 1 .. s : Pair(b, k, node, k)
  BY <1>4 DEF SplitUp
<1>8. Grown(t.nodes[p], t2.nodes[p], mid, new)
  BY <1>4 DEF SplitUp
<1>9. /\ q # NIL_NODE => t2.nodes[q] = [t.nodes[q] EXCEPT !.next = new]
      /\ \A y \in g.used : y \notin {x, p, q} => t2.nodes[y] = t.nodes[y]
  BY <1>4 DEF SplitUp
<1> HIDE DEF s
<1>10. /\ mid \in AllKeys /\ m < g.hi[x] /\ g.lo[x] < m /\ m \in Nat
  BY <1>3, MiddleKey, NumIs
<1> HIDE DEF m, mid
<1>11. /\ g.lo[p] <= g.lo[x] /\ g.hi[x] <= g.hi[p]
  BY Inside
<1>12. /\ g2 \in Ghosts /\ g2.used = g.used \cup {new}
       /\ g2.lev[new] = g.lev[x] /\ g2.lo[new] = g.lo[x] /\ g2.hi[new] = m /\ g2.lo[x] = m
       /\ \A y \in g.used : g2.lev[y] = g.lev[y] /\ g2.hi[y] = g.hi[y]
       /\ \A y \in g.used : y # x => g2.lo[y] = g.lo[y]
  BY <1>1, <1>5, <1>10, CutIs DEF Whole
<1> HIDE DEF g2, a, b
<1>13. q # NIL_NODE => /\ q \in g.used /\ g.lev[q] = g.lev[x] /\ g.hi[q] = g.lo[x] /\ t.nodes[q].next = x
                       /\ q # x /\ q # p
  <2>1. SUFFICES ASSUME q # NIL_NODE
                 PROVE  /\ q \in g.used /\ g.lev[q] = g.lev[x] /\ g.hi[q] = g.lo[x] /\ t.nodes[q].next = x
                        /\ q # x /\ q # p
    OBVIOUS
  <2>2. q \in g.used /\ g.lev[q] = g.lev[x] /\ g.hi[q] = g.lo[x] /\ t.nodes[q].next = x
    BY <2>1, <1>1 DEF Whole, Linked
  <2>3. q # p
    BY <2>2, <1>1, <1>2
  <2>4. g.hi[q] # g.hi[x]
    BY <2>2, <1>2
  <2> QED
    BY <2>2, <2>3, <2>4
<1> HIDE DEF q
\* What is left of the other nodes.
<1>14. ASSUME NEW y \in g.used, y # x, y # p
       PROVE  /\ Fit(t2.nodes[y]) /\ t2.nodes[y].leaf = t.nodes[y].leaf /\ t2.nodes[y].keys = t.nodes[y].keys
              /\ t2.nodes[y].child = t.nodes[y].child
  <2>1. Fit(t.nodes[y]) /\ t.nodes[y] \in Node
    BY WholeIs
  <2>2. CASE y = q
    <3>1. q # NIL_NODE
      <4>1. y \in Nat \ {0}
        BY WholeIs
      <4> QED
        BY <4>1, <2>2 DEF NIL_NODE
    <3>2. t2.nodes[y] = [t.nodes[y] EXCEPT !.next = new]
      BY <3>1, <2>2, <1>9
    <3>3. t2.nodes[y] \in Node /\ t2.nodes[y].leaf = t.nodes[y].leaf /\ t2.nodes[y].keys = t.nodes[y].keys
          /\ t2.nodes[y].child = t.nodes[y].child
      BY <3>2, <2>1, <1>5 DEF Node
    <3> QED
      BY <3>3, <2>1 DEF Fit
  <2>3. CASE y # q
    BY <2>1, <2>3, <1>9, <1>14
  <2> QED
    BY <2>2, <2>3
<1>15. ASSUME NEW y \in g.used, y # x
       PROVE  t2.nodes[y].prev = t.nodes[y].prev
  <2>1. CASE y = p
    BY <2>1, <1>8 DEF Grown, Alike
  <2>2. CASE y # p /\ y # q
    BY <2>2, <1>9, <1>15
  <2>3. CASE y = q /\ y # p
    <3>1. q # NIL_NODE
      <4>1. y \in Nat \ {0}
        BY WholeIs
      <4> QED
        BY <4>1, <2>3 DEF NIL_NODE
    <3>2. t2.nodes[y] = [t.nodes[y] EXCEPT !.next = new] /\ t.nodes[y] \in Node
      BY <3>1, <2>3, <1>9, WholeIs
    <3> QED
      BY <3>2 DEF Node
  <2> QED
    BY <2>1, <2>2, <2>3
<1>16. ASSUME NEW y \in g.used, y # q
       PROVE  t2.nodes[y].next = t.nodes[y].next
  <2>1. CASE y = p
    BY <2>1, <1>8 DEF Grown, Alike
  <2>2. CASE y = x
    BY <2>2, <1>7 DEF b
  <2>3. CASE y # p /\ y # x
    BY <2>3, <1>9, <1>16
  <2> QED
    BY <2>1, <2>2, <2>3
<1>17. q # NIL_NODE => t2.nodes[q].next = new
  <2>1. SUFFICES ASSUME q # NIL_NODE PROVE t2.nodes[q].next = new
    OBVIOUS
  <2>2. t2.nodes[q] = [t.nodes[q] EXCEPT !.next = new] /\ t.nodes[q] \in Node
    BY <2>1, <1>9, <1>13, WholeIs
  <2> QED
    BY <2>2 DEF Node
<1>18. Placed(t2, g2)
  <2> SUFFICES ASSUME NEW y \in g2.used
               PROVE  /\ y \in DOMAIN t2.nodes /\ Fit(t2.nodes[y]) /\ Len(t2.nodes[y].keys) >= 1
                      /\ t2.nodes[y].leaf <=> g2.lev[y] = 0
                      /\ g2.lo[y] < g2.hi[y] /\ g2.hi[y] <= Top
                      /\ \A k \in 1 .. Len(t2.nodes[y].keys) :
                           g2.lo[y] < Num(t2.nodes[y].keys[k]) /\ Num(t2.nodes[y].keys[k]) <= g2.hi[y]
    BY DEF Placed
  <2>1. CASE y = new
    <3>1. g2.lo[y] = g.lo[x] /\ g2.hi[y] = m /\ g2.lev[y] = g.lev[x]
      BY <2>1, <1>12
    <3>2. ASSUME NEW k \in 1 .. n - s PROVE g.lo[x] < Num(a.keys[k]) /\ Num(a.keys[k]) <= m
      <4>1. s + k \in 1 .. n /\ s + 1 \in 1 .. n /\ (s + 1 = s + k \/ s + 1 < s + k)
        BY <1>2, <1>3
      <4>2. a.keys[k] = node.keys[s + k]
        BY <1>6 DEF Pair
      <4>3. g.lo[x] < Num(node.keys[s + k]) /\ Num(node.keys[s + k]) \in Nat
        BY <4>1, <1>1, WholeIs DEF Covers
      <4>4. Num(node.keys[s + k]) <= m
        <5>1. Descending(node.keys) /\ m = Num(node.keys[s + 1])
          BY <1>2 DEF Fit, m, mid
        <5>2. s + 1 < s + k => Num(node.keys[s + 1]) > Num(node.keys[s + k])
          BY <5>1, <4>1 DEF Descending
        <5> QED
          BY <5>1, <5>2, <4>1, <4>3, <1>10
      <4> QED
        BY <4>2, <4>3, <4>4
    <3>3. Len(a.keys) >= 1
      BY <1>3, <1>6
    <3>4. m <= Top
      BY <1>2, <1>10
    <3> QED
      BY <3>1, <3>2, <3>3, <3>4, <2>1, <1>2, <1>5, <1>6, <1>10 DEF a
  <2>2. CASE y = x
    <3>1. g2.lo[y] = m /\ g2.hi[y] = g.hi[x] /\ g2.lev[y] = g.lev[x]
      BY <2>2, <1>1, <1>12
    <3>2. ASSUME NEW k \in 1 .. s PROVE m < Num(b.keys[k]) /\ Num(b.keys[k]) <= g.hi[x]
      <4>1. k \in 1 .. n /\ s + 1 \in 1 .. n /\ k < s + 1
        BY <1>2, <1>3
      <4>2. b.keys[k] = node.keys[k]
        BY <1>7 DEF Pair
      <4>3. Num(node.keys[k]) <= g.hi[x] /\ Num(node.keys[k]) \in Nat
        BY <4>1, <1>1, WholeIs DEF Covers
      <4>4. Num(node.keys[k]) > Num(node.keys[s + 1]) /\ m = Num(node.keys[s + 1])
        BY <4>1, <1>2 DEF Fit, Descending, m, mid
      <4> QED
        BY <4>2, <4>3, <4>4, <1>10
    <3> QED
      BY <3>1, <3>2, <2>2, <1>1, <1>2, <1>3, <1>5, <1>7, <1>10 DEF b
  <2>3. CASE y = p
    <3>1. g2.lo[y] = g.lo[p] /\ g2.hi[y] = g.hi[p] /\ g2.lev[y] = g.lev[p]
      BY <2>3, <1>1, <1>12
    <3>2. /\ Fit(t2.nodes[p]) /\ t2.nodes[p].leaf = t.nodes[p].leaf
          /\ Len(t2.nodes[p].keys) = Len(t.nodes[p].keys) + 1
          /\ \A j \in 1 .. Len(t2.nodes[p].keys) :
               \/ t2.nodes[p].keys[j] = mid
               \/ \E h \in 1 .. Len(t.nodes[p].keys) : t2.nodes[p].keys[j] = t.nodes[p].keys[h]
      BY <1>8 DEF Grown, Alike, Pair
    <3>3. /\ Len(t.nodes[p].keys) \in Nat /\ (t.nodes[p].leaf <=> g.lev[p] = 0)
          /\ g.lo[p] < g.hi[p] /\ g.hi[p] <= Top
          /\ \A h \in 1 .. Len(t.nodes[p].keys) :
               g.lo[p] < Num(t.nodes[p].keys[h]) /\ Num(t.nodes[p].keys[h]) <= g.hi[p]
      BY WholeIs DEF Covers
    <3>4. g.lo[p] < m /\ m <= g.hi[p]
      BY <1>2, <1>10, <1>11
    <3>5. ASSUME NEW j \in 1 .. Len(t2.nodes[p].keys)
          PROVE  g.lo[p] < Num(t2.nodes[p].keys[j]) /\ Num(t2.nodes[p].keys[j]) <= g.hi[p]
      BY <3>2, <3>3, <3>4 DEF m
    <3>6. Len(t2.nodes[p].keys) >= 1
      BY <3>2, <3>3
    <3> QED
      BY <3>1, <3>2, <3>3, <3>5, <3>6, <2>3, <1>5
  <2>4. CASE y \in g.used /\ y # x /\ y # p
    <3>1. g2.lo[y] = g.lo[y] /\ g2.hi[y] = g.hi[y] /\ g2.lev[y] = g.lev[y]
      BY <2>4, <1>12
    <3>2. /\ Len(t.nodes[y].keys) >= 1 /\ (t.nodes[y].leaf <=> g.lev[y] = 0)
          /\ g.lo[y] < g.hi[y] /\ g.hi[y] <= Top
          /\ \A h \in 1 .. Len(t.nodes[y].keys) :
               g.lo[y] < Num(t.nodes[y].keys[h]) /\ Num(t.nodes[y].keys[h]) <= g.hi[y]
      BY <2>4 DEF Whole, Placed
    <3> QED
      BY <3>1, <3>2, <2>4, <1>5, <1>14
  <2> QED
    BY <2>1, <2>2, <2>3, <2>4, <1>12
<1>19. Linked(t2, g2)
  <2> SUFFICES ASSUME NEW y \in g2.used
               PROVE  /\ t2.nodes[y].prev = NIL_NODE => g2.lo[y] = 0
                      /\ t2.nodes[y].prev # NIL_NODE =>
                           /\ t2.nodes[y].prev \in g2.used
                           /\ g2.lev[t2.nodes[y].prev] = g2.lev[y]
                           /\ g2.hi[t2.nodes[y].prev] = g2.lo[y]
                           /\ t2.nodes[t2.nodes[y].prev].next = y
                      /\ t2.nodes[y].next = NIL_NODE => g2.hi[y] = Top
                      /\ t2.nodes[y].next # NIL_NODE =>
                           t2.nodes[y].next \in g2.used /\ t2.nodes[t2.nodes[y].next].prev = y
    BY DEF Linked
  <2>1. /\ t.nodes[x].prev = NIL_NODE => g.lo[x] = 0
        /\ t.nodes[x].next = NIL_NODE => g.hi[x] = Top
        /\ t.nodes[x].next # NIL_NODE =>
             t.nodes[x].next \in g.used /\ t.nodes[t.nodes[x].next].prev = x
    BY <1>1 DEF Whole, Linked
  <2>2. t.nodes[x].next # x
    <3>1. SUFFICES ASSUME t.nodes[x].next = x PROVE FALSE
      OBVIOUS
    <3>2. q = x
      BY <3>1, <2>1, <1>2 DEF q, NIL_NODE
    <3> QED
      BY <3>2, <1>13, <1>2 DEF NIL_NODE
  <2>3. CASE y = new
    <3>1. t2.nodes[y].prev = q /\ t2.nodes[y].next = x /\ g2.lo[y] = g.lo[x] /\ g2.lev[y] = g.lev[x]
      BY <2>3, <1>6, <1>12 DEF a
    <3>2. x # NIL_NODE /\ t2.nodes[x].prev = new /\ x \in g2.used
      BY <1>1, <1>2, <1>7, <1>12 DEF b, NIL_NODE
    <3>3. q # NIL_NODE => /\ q \in g2.used /\ g2.lev[q] = g.lev[x] /\ g2.hi[q] = g.lo[x]
                          /\ t2.nodes[q].next = new
      BY <1>12, <1>13, <1>17
    <3> QED
      BY <3>1, <3>2, <3>3, <2>1, <2>3 DEF q
  <2>4. CASE y = x
    <3>1. t2.nodes[y].prev = new /\ t2.nodes[y].next = t.nodes[x].next
      BY <2>4, <1>7 DEF b
    <3>2. new # NIL_NODE /\ new \in g2.used /\ g2.lev[new] = g2.lev[x] /\ g2.hi[new] = g2.lo[x]
          /\ t2.nodes[new].next = x
      BY <1>1, <1>5, <1>6, <1>12 DEF a, NIL_NODE
    <3>3. t.nodes[x].next # NIL_NODE =>
             t.nodes[x].next \in g2.used /\ t2.nodes[t.nodes[x].next].prev = x
      BY <2>1, <2>2, <1>12, <1>15
    <3>4. g2.hi[x] = g.hi[x]
      BY <1>1, <1>12
    <3> QED
      BY <3>1, <3>2, <3>3, <3>4, <2>1, <2>4
  <2>5. CASE y \in g.used /\ y # x
    <3>1. /\ g2.lo[y] = g.lo[y] /\ g2.hi[y] = g.hi[y] /\ g2.lev[y] = g.lev[y]
          /\ t2.nodes[y].prev = t.nodes[y].prev
      BY <2>5, <1>12, <1>15
    <3>2. /\ t.nodes[y].prev = NIL_NODE => g.lo[y] = 0
          /\ t.nodes[y].prev # NIL_NODE =>
               /\ t.nodes[y].prev \in g.used
               /\ g.lev[t.nodes[y].prev] = g.lev[y] /\ g.hi[t.nodes[y].prev] = g.lo[y]
               /\ t.nodes[t.nodes[y].prev].next = y
          /\ t.nodes[y].next = NIL_NODE => g.hi[y] = Top
          /\ t.nodes[y].next # NIL_NODE =>
               t.nodes[y].next \in g.used /\ t.nodes[t.nodes[y].next].prev = y
      BY <2>5 DEF Whole, Linked
    <3>3. ASSUME t.nodes[y].prev # NIL_NODE
          PROVE  /\ t.nodes[y].prev \in g2.used /\ g2.lev[t.nodes[y].prev] = g.lev[y]
                 /\ g2.hi[t.nodes[y].prev] = g.lo[y] /\ t2.nodes[t.nodes[y].prev].next = y
      <4>1. t.nodes[y].prev # q
        BY <3>2, <3>3, <2>5, <1>13
      <4> QED
        BY <4>1, <3>2, <3>3, <1>12, <1>16
    <3>4. CASE y = q
      <4>1. q # NIL_NODE
        <5>1. y \in Nat \ {0}
          BY <2>5, WholeIs
        <5> QED
          BY <5>1, <3>4 DEF NIL_NODE
      <4>2. t2.nodes[y].next = new /\ new # NIL_NODE /\ new \in g2.used /\ t2.nodes[new].prev = y
        BY <4>1, <3>4, <1>5, <1>6, <1>12, <1>17 DEF a, NIL_NODE
      <4> QED
        BY <4>2, <3>1, <3>2, <3>3
    <3>5. CASE y # q
      <4>1. t2.nodes[y].next = t.nodes[y].next
        BY <3>5, <2>5, <1>16
      <4>2. ASSUME t.nodes[y].next # NIL_NODE
            PROVE  t.nodes[y].next \in g2.used /\ t2.nodes[t.nodes[y].next].prev = y
        <5>1. t.nodes[y].next # x
          BY <4>2, <3>2, <3>5 DEF q
        <5> QED
          BY <5>1, <4>2, <3>2, <1>12, <1>15
      <4> QED
        BY <4>1, <4>2, <3>1, <3>2, <3>3
    <3> QED
      BY <3>4, <3>5
  <2> QED
    BY <2>3, <2>4, <2>5, <1>12
<1>20. Apart(g2)
  <2>1. ASSUME NEW y \in g.used, y # x, g.lev[y] = g.lev[x]
        PROVE  /\ g2.lo[y] = g.lo[y] /\ g2.hi[y] = g.hi[y] /\ g.lo[y] \in Nat /\ g.hi[y] \in Nat
               /\ g.hi[y] <= g.lo[x] \/ g.hi[x] <= g.lo[y]
    BY <2>1, <1>1, <1>12, WholeIs DEF Whole, Apart
  <2>2. ASSUME NEW y \in g2.used, NEW z \in g2.used, y # z, g2.lev[y] = g2.lev[z]
        PROVE  g2.hi[y] <= g2.lo[z] \/ g2.hi[z] <= g2.lo[y]
    <3>1. CASE y = new /\ z = x
      BY <3>1, <1>10, <1>12
    <3>2. CASE y = x /\ z = new
      BY <3>2, <1>10, <1>12
    <3>3. CASE y = new /\ z \in g.used /\ z # x
      <4>1. g.lev[z] = g.lev[x]
        BY <3>3, <2>2, <1>12
      <4>2. /\ g2.lo[z] = g.lo[z] /\ g2.hi[z] = g.hi[z] /\ g.lo[z] \in Nat /\ g.hi[z] \in Nat
            /\ g.hi[z] <= g.lo[x] \/ g.hi[x] <= g.lo[z]
        BY <4>1, <3>3, <2>1
      <4>3. g2.lo[y] = g.lo[x] /\ g2.hi[y] = m
        BY <3>3, <1>12
      <4> QED
        BY <4>2, <4>3, <1>2, <1>10
    <3>4. CASE z = new /\ y \in g.used /\ y # x
      <4>1. g.lev[y] = g.lev[x]
        BY <3>4, <2>2, <1>12
      <4>2. /\ g2.lo[y] = g.lo[y] /\ g2.hi[y] = g.hi[y] /\ g.lo[y] \in Nat /\ g.hi[y] \in Nat
            /\ g.hi[y] <= g.lo[x] \/ g.hi[x] <= g.lo[y]
        BY <4>1, <3>4, <2>1
      <4>3. g2.lo[z] = g.lo[x] /\ g2.hi[z] = m
        BY <3>4, <1>12
      <4> QED
        BY <4>2, <4>3, <1>2, <1>10
    <3>5. CASE y = x /\ z \in g.used /\ z # x
      <4>1. g.lev[z] = g.lev[x]
        BY <3>5, <2>2, <1>12
      <4>2. /\ g2.lo[z] = g.lo[z] /\ g2.hi[z] = g.hi[z] /\ g.lo[z] \in Nat /\ g.hi[z] \in Nat
            /\ g.hi[z] <= g.lo[x] \/ g.hi[x] <= g.lo[z]
        BY <4>1, <3>5, <2>1
      <4>3. g2.lo[y] = m /\ g2.hi[y] = g.hi[x]
        BY <3>5, <1>1, <1>12
      <4> QED
        BY <4>2, <4>3, <1>2, <1>10
    <3>6. CASE z = x /\ y \in g.used /\ y # x
      <4>1. g.lev[y] = g.lev[x]
        BY <3>6, <2>2, <1>12
      <4>2. /\ g2.lo[y] = g.lo[y] /\ g2.hi[y] = g.hi[y] /\ g.lo[y] \in Nat /\ g.hi[y] \in Nat
            /\ g.hi[y] <= g.lo[x] \/ g.hi[x] <= g.lo[y]
        BY <4>1, <3>6, <2>1
      <4>3. g2.lo[z] = m /\ g2.hi[z] = g.hi[x]
        BY <3>6, <1>1, <1>12
      <4> QED
        BY <4>2, <4>3, <1>2, <1>10
    <3>7. CASE y \in g.used /\ y # x /\ z \in g.used /\ z # x
      <4>1. /\ g2.lo[y] = g.lo[y] /\ g2.hi[y] = g.hi[y] /\ g2.lo[z] = g.lo[z] /\ g2.hi[z] = g.hi[z]
            /\ g.lev[y] = g.lev[z]
        BY <3>7, <2>2, <1>12
      <4> QED
        BY <4>1, <3>7, <2>2 DEF Whole, Apart
    <3> QED
      BY <3>1, <3>2, <3>3, <3>4, <3>5, <3>6, <3>7, <2>2, <1>12
  <2> QED
    BY <2>2 DEF Apart
\* The children of the nodes, old and new.
<1>21. ASSUME NEW y \in g.used, ~t.nodes[y].leaf, NEW j \in 1 .. Len(t.nodes[y].keys)
       PROVE  /\ t.nodes[y].child[j] \in g.used /\ g.lev[t.nodes[y].child[j]] + 1 = g.lev[y]
              /\ g.hi[t.nodes[y].child[j]] = Num(t.nodes[y].keys[j])
              /\ t.nodes[y].child[j] \in g2.used /\ g2.lev[t.nodes[y].child[j]] + 1 = g.lev[y]
              /\ g2.hi[t.nodes[y].child[j]] = Num(t.nodes[y].keys[j])
  <2>1. /\ t.nodes[y].child[j] \in g.used /\ g.lev[t.nodes[y].child[j]] + 1 = g.lev[y]
        /\ g.hi[t.nodes[y].child[j]] = Num(t.nodes[y].keys[j])
    BY <1>21 DEF Whole, Family
  <2> QED
    BY <2>1, <1>12
<1>22. Family(t2, g2)
  <2> SUFFICES ASSUME NEW y \in g2.used, ~t2.nodes[y].leaf, NEW j \in 1 .. Len(t2.nodes[y].keys)
               PROVE  /\ t2.nodes[y].child[j] \in g2.used
                      /\ g2.lev[t2.nodes[y].child[j]] + 1 = g2.lev[y]
                      /\ g2.hi[t2.nodes[y].child[j]] = Num(t2.nodes[y].keys[j])
    BY DEF Family
  <2>1. CASE y = new
    <3>1. j \in 1 .. n - s /\ s + j \in 1 .. n /\ ~node.leaf
      BY <2>1, <1>2, <1>3, <1>6 DEF a
    <3>2. t2.nodes[y].keys[j] = node.keys[s + j] /\ t2.nodes[y].child[j] = node.child[s + j]
      BY <3>1, <2>1, <1>6 DEF a, Pair
    <3>3. g2.lev[y] = g.lev[x]
      BY <2>1, <1>12
    <3> QED
      BY <3>1, <3>2, <3>3, <1>1, <1>21
  <2>2. CASE y = x
    <3>1. j \in 1 .. s /\ j \in 1 .. n /\ ~node.leaf
      BY <2>2, <1>2, <1>3, <1>7 DEF b
    <3>2. t2.nodes[y].keys[j] = node.keys[j] /\ t2.nodes[y].child[j] = node.child[j]
      BY <3>1, <2>2, <1>7 DEF b, Pair
    <3>3. g2.lev[y] = g.lev[x]
      BY <2>2, <1>1, <1>12
    <3> QED
      BY <3>1, <3>2, <3>3, <1>1, <1>21
  <2>3. CASE y = p
    <3>1. g2.lev[y] = g.lev[p] /\ g2.lev[new] + 1 = g.lev[p] /\ g2.hi[new] = Num(mid) /\ new \in g2.used
      BY <2>3, <1>1, <1>12 DEF m
    <3>2. \/ t2.nodes[p].keys[j] = mid /\ t2.nodes[p].child[j] = new
          \/ \E h \in 1 .. Len(t.nodes[p].keys) :
                t2.nodes[p].keys[j] = t.nodes[p].keys[h] /\ t2.nodes[p].child[j] = t.nodes[p].child[h]
      BY <2>3, <1>2, <1>8 DEF Grown, Pair, Alike
    <3> QED
      BY ZenonT(30), <3>1, <3>2, <2>3, <1>2, <1>21
  <2>4. CASE y \in g.used /\ y # x /\ y # p
    <3>1. g2.lev[y] = g.lev[y]
      BY <2>4, <1>12
    <3> QED
      BY <3>1, <2>4, <1>14, <1>21
  <2> QED
    BY <2>1, <2>2, <2>3, <2>4, <1>12
<1>23. Rooted(t2, g2)
  <2>1. /\ t.root \in g.used /\ g.lo[t.root] = 0 /\ g.hi[t.root] = Top
        /\ \A y \in g.used : g.lev[y] <= g.lev[t.root]
    BY DEF Whole, Rooted
  <2>2. t2.root \in g2.used /\ g2.lo[t2.root] = 0 /\ g2.hi[t2.root] = Top
    BY <2>1, <1>1, <1>5, <1>12
  <2>3. ASSUME NEW y \in g2.used PROVE g2.lev[y] <= g2.lev[t2.root]
    BY <2>1, <1>1, <1>5, <1>12
  <2>4. ASSUME NEW y \in g2.used, y # t2.root
        PROVE  \E z \in g2.used : \E j \in 1 .. Len(t2.nodes[z].keys) : IsChild(t2, z, j, y)
    <3>1. CASE y = new
      <4>1. PICK j \in 1 .. Len(t2.nodes[p].keys) : t2.nodes[p].child[j] = new
        BY <1>2, <1>8 DEF Grown
      <4>2. IsChild(t2, p, j, y)
        BY <4>1, <3>1, <1>2, <1>8 DEF IsChild, Grown, Alike
      <4> QED
        BY <4>1, <4>2, <1>12
    <3>2. CASE y \in g.used
      <4>1. PICK z \in g.used : \E j \in 1 .. Len(t.nodes[z].keys) : IsChild(t, z, j, y)
        BY <3>2, <2>4, <1>5, ParentOf
      <4>2. PICK j \in 1 .. Len(t.nodes[z].keys) : IsChild(t, z, j, y)
        BY <4>1
      <4>3. ~t.nodes[z].leaf /\ t.nodes[z].child[j] = y
        BY <4>2 DEF IsChild
      <4>4. CASE z = x /\ j <= s
        <5>1. j \in 1 .. s /\ x \in g2.used
          BY <4>4, <1>1, <1>3, <1>12
        <5>2. t2.nodes[x].child[j] = y /\ j \in 1 .. Len(t2.nodes[x].keys) /\ ~t2.nodes[x].leaf
          BY <5>1, <4>3, <4>4, <1>7 DEF b, Pair
        <5> QED
          BY <5>1, <5>2 DEF IsChild
      <4>5. CASE z = x /\ ~(j <= s)
        <5>1. j - s \in 1 .. n - s /\ s + (j - s) = j /\ new \in g2.used
          BY <4>5, <1>2, <1>3, <1>12
        <5>2. t2.nodes[new].child[j - s] = node.child[s + (j - s)]
              /\ j - s \in 1 .. Len(t2.nodes[new].keys) /\ ~t2.nodes[new].leaf
          BY <5>1, <4>3, <4>5, <1>6 DEF a, Pair
        <5> QED
          BY <5>1, <5>2, <4>3, <4>5 DEF IsChild
      <4>6. CASE z = p
        <5>1. PICK h \in 1 .. Len(t2.nodes[p].keys) : Pair(t.nodes[p], j, t2.nodes[p], h)
          BY <4>6, <1>8 DEF Grown
        <5>2. t2.nodes[p].child[h] = y /\ ~t2.nodes[p].leaf
          BY <5>1, <4>3, <4>6, <1>8 DEF Pair, Grown, Alike
        <5> QED
          BY <5>1, <5>2, <1>12 DEF IsChild
      <4>7. CASE z # x /\ z # p
        BY <4>3, <4>7, <1>12, <1>14 DEF IsChild
      <4> QED
        BY <4>4, <4>5, <4>6, <4>7
    <3> QED
      BY <3>1, <3>2, <1>12
  <2> QED
    BY <2>2, <2>3, <2>4 DEF Rooted
<1>24. FreeChain(t2, g2.used)
  BY <1>5, <1>12
<1>25. Tight(t2, g2, {})
  <2> SUFFICES ASSUME NEW y \in g2.used PROVE Num(t2.nodes[y].keys[1]) = g2.hi[y]
    BY DEF Tight
  <2>1. CASE y = new
    <3>1. 1 \in 1 .. n - s
      BY <1>3
    <3>2. t2.nodes[y].keys[1] = mid
      BY <3>1, <2>1, <1>6 DEF a, Pair, mid
    <3> QED
      BY <3>2, <2>1, <1>12 DEF m
  <2>2. CASE y = x
    <3>1. 1 \in 1 .. s
      BY <1>3
    <3>2. t2.nodes[y].keys[1] = node.keys[1]
      BY <3>1, <2>2, <1>7 DEF b, Pair
    <3>3. Num(node.keys[1]) = g.hi[x]
      BY <1>1 DEF Tight
    <3> QED
      BY <3>2, <3>3, <2>2, <1>1, <1>12
  <2>3. CASE y = p
    <3>1. t2.nodes[y].keys[1] = t.nodes[p].keys[1]
      BY <2>3, <1>8 DEF Grown
    <3>2. Num(t.nodes[p].keys[1]) = g.hi[p]
      BY DEF Tight
    <3> QED
      BY <3>1, <3>2, <2>3, <1>12
  <2>4. CASE y \in g.used /\ y # x /\ y # p
    <3>1. Num(t.nodes[y].keys[1]) = g.hi[y]
      BY <2>4 DEF Tight
    <3> QED
      BY <3>1, <2>4, <1>12, <1>14
  <2> QED
    BY <2>1, <2>2, <2>3, <2>4, <1>12
<1>26. Whole(t2, g2)
  BY <1>5, <1>12, <1>18, <1>19, <1>20, <1>22, <1>23, <1>24 DEF Whole
<1>27. ASSUME NEW k, Holds(t, g, k) PROVE Holds(t2, g2, k)
  <2>1. PICK y \in g.used : t.nodes[y].leaf /\ \E j \in 1 .. Len(t.nodes[y].keys) : t.nodes[y].keys[j] = k
    BY <1>27 DEF Holds
  <2>2. PICK j \in 1 .. Len(t.nodes[y].keys) : t.nodes[y].keys[j] = k
    BY <2>1
  <2>3. CASE y = x /\ j <= s
    <3>1. j \in 1 .. s /\ x \in g2.used
      BY <2>3, <1>1, <1>3, <1>12
    <3>2. t2.nodes[x].keys[j] = k /\ j \in 1 .. Len(t2.nodes[x].keys) /\ t2.nodes[x].leaf
      BY <3>1, <2>1, <2>2, <2>3, <1>7 DEF b, Pair
    <3> QED
      BY <3>1, <3>2 DEF Holds
  <2>4. CASE y = x /\ ~(j <= s)
    <3>1. j - s \in 1 .. n - s /\ s + (j - s) = j /\ new \in g2.used
      BY <2>4, <1>2, <1>3, <1>12
    <3>2. t2.nodes[new].keys[j - s] = node.keys[s + (j - s)]
          /\ j - s \in 1 .. Len(t2.nodes[new].keys) /\ t2.nodes[new].leaf
      BY <3>1, <2>1, <2>4, <1>6 DEF a, Pair
    <3> QED
      BY <3>1, <3>2, <2>2, <2>4 DEF Holds
  <2>5. CASE y # x
    <3>1. y # p
      BY <2>1, <1>2
    <3> QED
      BY <3>1, <2>1, <2>2, <2>5, <1>12, <1>14 DEF Holds
  <2> QED
    BY <2>3, <2>4, <2>5
<1>28. ASSUME NEW k, Holds(t2, g2, k) PROVE Holds(t, g, k)
  <2>1. PICK y \in g2.used : t2.nodes[y].leaf /\ \E j \in 1 .. Len(t2.nodes[y].keys) : t2.nodes[y].keys[j] = k
    BY <1>28 DEF Holds
  <2>2. PICK j \in 1 .. Len(t2.nodes[y].keys) : t2.nodes[y].keys[j] = k
    BY <2>1
  <2>3. CASE y = new
    <3>1. j \in 1 .. n - s /\ s + j \in 1 .. n /\ node.leaf
      BY <2>1, <2>3, <1>2, <1>3, <1>6, SMTT(30) DEF a
    <3>2. node.keys[s + j] = k
      BY <3>1, <2>2, <2>3, <1>6 DEF a, Pair
    <3> QED
      BY <3>1, <3>2, <1>1 DEF Holds
  <2>4. CASE y = x
    <3>1. j \in 1 .. s /\ j \in 1 .. n /\ node.leaf
      BY <2>1, <2>4, <1>2, <1>3, <1>7 DEF b
    <3>2. node.keys[j] = k
      BY <3>1, <2>2, <2>4, <1>7 DEF b, Pair
    <3> QED
      BY <3>1, <3>2, <1>1 DEF Holds
  <2>5. CASE y = p
    BY <2>1, <2>5, <1>2, <1>8 DEF Grown, Alike
  <2>6. CASE y \in g.used /\ y # x /\ y # p
    BY <2>1, <2>2, <2>6, <1>14 DEF Holds
  <2> QED
    BY <2>3, <2>4, <2>5, <2>6, <1>12
<1> QED
  BY <1>25, <1>26, <1>27, <1>28 DEF g2, m, mid, s

-----------------------------------------------------------------------------
(* A root over the root. *)

Raise(g, new, root) ==
    [used |-> g.used \cup {new}, lev |-> [g.lev EXCEPT ![new] = g.lev[root] + 1],
     lo |-> [g.lo EXCEPT ![new] = 0], hi |-> [g.hi EXCEPT ![new] = Top]]

LEMMA RaiseIs ==
    ASSUME NEW g \in Ghosts, NEW root \in g.used, NEW new \in Nat \ {0}, new \notin g.used, Top \in Nat
    PROVE  LET g2 == Raise(g, new, root)
           IN  /\ g2 \in Ghosts /\ g2.used = g.used \cup {new}
               /\ g2.lev[new] = g.lev[root] + 1 /\ g2.lo[new] = 0 /\ g2.hi[new] = Top
               /\ \A y \in g.used : g2.lev[y] = g.lev[y] /\ g2.hi[y] = g.hi[y] /\ g2.lo[y] = g.lo[y]
<1> DEFINE lev == [g.lev EXCEPT ![new] = g.lev[root] + 1]
           lo  == [g.lo EXCEPT ![new] = 0]
           hi  == [g.hi EXCEPT ![new] = Top]
           g2  == Raise(g, new, root)
<1>1. /\ g.used \subseteq Nat \ {0} /\ g.lev \in [Nat -> Nat] /\ g.lo \in [Nat -> Nat]
      /\ g.hi \in [Nat -> Nat] /\ root \in Nat /\ new # root
  BY DEF Ghosts
<1>2. g.lev[root] + 1 \in Nat
  BY <1>1
<1>3. /\ lev \in [Nat -> Nat] /\ lev[new] = g.lev[root] + 1
      /\ \A y \in g.used : lev[y] = g.lev[y]
  BY <1>1, <1>2
<1>4. /\ lo \in [Nat -> Nat] /\ lo[new] = 0
      /\ \A y \in g.used : lo[y] = g.lo[y]
  BY <1>1
<1>5. /\ hi \in [Nat -> Nat] /\ hi[new] = Top
      /\ \A y \in g.used : hi[y] = g.hi[y]
  BY <1>1
<1>6. g2.used = g.used \cup {new} /\ g2.lev = lev /\ g2.lo = lo /\ g2.hi = hi
      /\ g2 = [used |-> g.used \cup {new}, lev |-> lev, lo |-> lo, hi |-> hi]
  BY DEF Raise
<1> HIDE DEF lev, lo, hi
<1>7. g2 \in Ghosts
  BY <1>1, <1>3, <1>4, <1>5, <1>6 DEF Ghosts
<1> HIDE DEF g2
<1> QED
  BY <1>3, <1>4, <1>5, <1>6, <1>7 DEF g2

\* A new root has one key, above all the others, that leads to the old one.
LEMMA NewRootIs ==
    ASSUME NoNulls, NEW t \in Trees, NEW used, used \subseteq DOMAIN t.nodes, FreeChain(t, used)
    PROVE  LET new == AllocatedId(t)
               t2  == NewRoot(t)
               a   == t2.nodes[new]
           IN  /\ t2 \in Trees /\ t2.root = new
               /\ new \in Nat \ {0} /\ new \notin used /\ new \in DOMAIN t2.nodes
               /\ used \subseteq DOMAIN t2.nodes
               /\ FreeChain(t2, used \cup {new})
               /\ Fit(a) /\ ~a.leaf /\ a.prev = NIL_NODE /\ a.next = NIL_NODE
               /\ a.keys = <<SentinelKey>> /\ a.child = <<t.root>>
               /\ \A y \in used : t2.nodes[y] = t.nodes[y]
<1> DEFINE new   == AllocatedId(t)
           t1    == AllocateNode(t)
           blank == [NewNode EXCEPT !.nulls = t1.nodes[new].nulls]
           a     == InsertKey(blank, SentinelKey, t.root)
           t3    == [t1 EXCEPT !.nodes[new] = a]
           t2    == NewRoot(t)
<1>1. /\ new \in Nat \ {0} /\ new \notin used /\ t1 \in Trees /\ t1.root = t.root
      /\ new \in DOMAIN t1.nodes /\ DOMAIN t.nodes \subseteq DOMAIN t1.nodes
      /\ \A y \in used : t1.nodes[y] = t.nodes[y]
      /\ t1.nodes[new].nulls = 0 /\ FreeChain(t1, used \cup {new})
  BY AllocateIs
<1>2. t.root \in Nat /\ SentinelKey \in AllKeys
  BY TreeParts DEF AllKeys
<1>3. /\ blank \in Node /\ ~blank.leaf /\ blank.keys = <<>> /\ blank.child = <<>>
      /\ blank.prev = 0 /\ blank.next = 0
  BY <1>1, NewNodeIs DEF Node
<1>4. t2 = [t3 EXCEPT !.root = new]
  BY <1>1 DEF NewRoot, Trees
<1> HIDE DEF blank
<1>5. Fit(a) /\ Alike(a, blank) /\ a.keys = <<SentinelKey>> /\ a.child = <<t.root>>
  BY <1>2, <1>3, InsertFirstIs
<1>6. a \in Node
  BY <1>5 DEF Fit
<1> HIDE DEF a, t1, new
<1>7. Written(t1, t3, new, a)
  BY <1>1, <1>6, WriteIs
<1> HIDE DEF t3, t2
<1>8. t2 \in Trees /\ t2.root = new /\ t2.nodes = t3.nodes /\ t2.free = t1.free
  BY <1>1, <1>4, <1>7 DEF Written, Trees
<1>9. t2.nodes[new] = a /\ DOMAIN t2.nodes = DOMAIN t1.nodes
      /\ \A y \in DOMAIN t1.nodes : y # new => t2.nodes[y] = t1.nodes[y]
  BY <1>7, <1>8 DEF Written
<1>10. FreeChain(t2, used \cup {new})
  <2>1. \A y \in DOMAIN t1.nodes \ (used \cup {new}) : t2.nodes[y] = t1.nodes[y]
    BY <1>9
  <2> QED
    BY <2>1, <1>1, <1>8, <1>9, FreeChainKept
<1>11. \A y \in used : t2.nodes[y] = t.nodes[y]
  BY <1>1, <1>9
<1>12. used \subseteq DOMAIN t2.nodes /\ new \in DOMAIN t2.nodes
  BY <1>1, <1>9
<1>13. ~a.leaf /\ a.prev = NIL_NODE /\ a.next = NIL_NODE
  BY <1>3, <1>5 DEF Alike, NIL_NODE
<1> QED
  BY <1>1, <1>5, <1>8, <1>9, <1>10, <1>11, <1>12, <1>13 DEF t2, new

LEMMA RaiseWhole ==
    ASSUME NoNulls, NEW t, NEW g, Whole(t, g), Tight(t, g, {})
    PROVE  LET t2  == NewRoot(t)
               new == AllocatedId(t)
               g2  == Raise(g, new, t.root)
           IN  /\ Whole(t2, g2) /\ Tight(t2, g2, {}) /\ t2.root = new /\ new \notin g.used
               /\ IsChild(t2, new, 1, t.root) /\ Len(t2.nodes[new].keys) = 1
               /\ \A y \in g.used : t2.nodes[y] = t.nodes[y]
               /\ \A k : Holds(t2, g2, k) <=> Holds(t, g, k)
<1> DEFINE t2  == NewRoot(t)
           new == AllocatedId(t)
           g2  == Raise(g, new, t.root)
           a   == t2.nodes[new]
<1>1. /\ t \in Trees /\ g.used \subseteq DOMAIN t.nodes /\ FreeChain(t, g.used)
  <2>1. \A y \in g.used : y \in DOMAIN t.nodes
    BY WholeIs
  <2> QED
    BY <2>1 DEF Whole
<1>2. /\ t2 \in Trees /\ t2.root = new
      /\ new \in Nat \ {0} /\ new \notin g.used /\ new \in DOMAIN t2.nodes
      /\ g.used \subseteq DOMAIN t2.nodes
      /\ FreeChain(t2, g.used \cup {new})
      /\ Fit(a) /\ ~a.leaf /\ a.prev = NIL_NODE /\ a.next = NIL_NODE
      /\ a.keys = <<SentinelKey>> /\ a.child = <<t.root>>
      /\ \A y \in g.used : t2.nodes[y] = t.nodes[y]
  BY <1>1, NewRootIs
<1>3. /\ t.root \in g.used /\ g.lo[t.root] = 0 /\ g.hi[t.root] = Top
      /\ \A y \in g.used : g.lev[y] <= g.lev[t.root]
  BY DEF Whole, Rooted
<1>4. Top \in Nat /\ 0 < Top /\ g.lev[t.root] \in Nat
  BY <1>3, WholeIs
<1>5. /\ g2 \in Ghosts /\ g2.used = g.used \cup {new}
      /\ g2.lev[new] = g.lev[t.root] + 1 /\ g2.lo[new] = 0 /\ g2.hi[new] = Top
      /\ \A y \in g.used : g2.lev[y] = g.lev[y] /\ g2.hi[y] = g.hi[y] /\ g2.lo[y] = g.lo[y]
  BY <1>2, <1>3, <1>4, RaiseIs DEF Whole
<1>6. /\ Len(a.keys) = 1 /\ a.keys[1] = SentinelKey /\ a.child[1] = t.root
  <2>1. Len(<<SentinelKey>>) = 1 /\ <<SentinelKey>>[1] = SentinelKey /\ <<t.root>>[1] = t.root
    OBVIOUS
  <2> QED
    BY <2>1, <1>2
<1> HIDE DEF t2, new, g2, a
<1>7. t2.nodes[new] = a
  BY DEF a
<1>8. Placed(t2, g2)
  <2> SUFFICES ASSUME NEW y \in g2.used
               PROVE  /\ y \in DOMAIN t2.nodes /\ Fit(t2.nodes[y]) /\ Len(t2.nodes[y].keys) >= 1
                      /\ t2.nodes[y].leaf <=> g2.lev[y] = 0
                      /\ g2.lo[y] < g2.hi[y] /\ g2.hi[y] <= Top
                      /\ \A k \in 1 .. Len(t2.nodes[y].keys) :
                           g2.lo[y] < Num(t2.nodes[y].keys[k]) /\ Num(t2.nodes[y].keys[k]) <= g2.hi[y]
    BY DEF Placed
  <2>1. CASE y = new
    <3>1. g2.lev[new] # 0
      BY <1>4, <1>5
    <3>2. ASSUME NEW k \in 1 .. Len(a.keys) PROVE Num(a.keys[k]) = Top
      <4>1. k \in 1 .. 1
        BY <1>6
      <4>2. k = 1
        BY <4>1
      <4> QED
        BY <4>2, <1>6 DEF Top
    <3>3. Top <= Top /\ 0 < Top /\ Len(a.keys) >= 1
      BY <1>4, <1>6
    <3>4. g2.lo[y] = 0 /\ g2.hi[y] = Top /\ t2.nodes[y] = a
      BY <2>1, <1>5, <1>7
    <3>5. /\ y \in DOMAIN t2.nodes /\ Fit(t2.nodes[y]) /\ (t2.nodes[y].leaf <=> g2.lev[y] = 0)
      BY <3>1, <3>4, <2>1, <1>2
    <3> QED
      BY <3>2, <3>3, <3>4, <3>5
  <2>2. CASE y \in g.used
    BY <2>2, <1>2, <1>5 DEF Whole, Placed
  <2> QED
    BY <2>1, <2>2, <1>5
<1>9. Linked(t2, g2)
  <2> SUFFICES ASSUME NEW y \in g2.used
               PROVE  /\ t2.nodes[y].prev = NIL_NODE => g2.lo[y] = 0
                      /\ t2.nodes[y].prev # NIL_NODE =>
                           /\ t2.nodes[y].prev \in g2.used
                           /\ g2.lev[t2.nodes[y].prev] = g2.lev[y]
                           /\ g2.hi[t2.nodes[y].prev] = g2.lo[y]
                           /\ t2.nodes[t2.nodes[y].prev].next = y
                      /\ t2.nodes[y].next = NIL_NODE => g2.hi[y] = Top
                      /\ t2.nodes[y].next # NIL_NODE =>
                           t2.nodes[y].next \in g2.used /\ t2.nodes[t2.nodes[y].next].prev = y
    BY DEF Linked
  <2>1. CASE y = new
    BY <2>1, <1>2, <1>5, <1>7
  <2>2. CASE y \in g.used
    BY <2>2, <1>2, <1>5 DEF Whole, Linked
  <2> QED
    BY <2>1, <2>2, <1>5
<1>10. Apart(g2)
  <2>1. ASSUME NEW y \in g.used PROVE g2.lev[y] # g2.lev[new]
    <3>1. g.lev[y] \in Nat /\ g.lev[y] <= g.lev[t.root]
      BY <1>3, WholeIs
    <3> QED
      BY <3>1, <1>4, <1>5
  <2>2. ASSUME NEW y \in g.used, NEW z \in g.used, y # z, g2.lev[y] = g2.lev[z]
        PROVE  g2.hi[y] <= g2.lo[z] \/ g2.hi[z] <= g2.lo[y]
    BY <2>2, <1>5 DEF Whole, Apart
  <2> QED
    BY <2>1, <2>2, <1>5 DEF Apart
<1>11. Family(t2, g2)
  <2> SUFFICES ASSUME NEW y \in g2.used, ~t2.nodes[y].leaf, NEW j \in 1 .. Len(t2.nodes[y].keys)
               PROVE  /\ t2.nodes[y].child[j] \in g2.used
                      /\ g2.lev[t2.nodes[y].child[j]] + 1 = g2.lev[y]
                      /\ g2.hi[t2.nodes[y].child[j]] = Num(t2.nodes[y].keys[j])
    BY DEF Family
  <2>1. CASE y = new
    <3>1. j = 1
      <4>1. Len(t2.nodes[y].keys) = 1
        BY <2>1, <1>6, <1>7
      <4>2. j \in 1 .. 1
        BY <4>1
      <4> QED
        BY <4>2
    <3> QED
      BY <3>1, <2>1, <1>3, <1>5, <1>6, <1>7 DEF Top
  <2>2. CASE y \in g.used
    <3>1. /\ t.nodes[y].child[j] \in g.used /\ g.lev[t.nodes[y].child[j]] + 1 = g.lev[y]
          /\ g.hi[t.nodes[y].child[j]] = Num(t.nodes[y].keys[j])
      BY <2>2, <1>2 DEF Whole, Family
    <3> QED
      BY <3>1, <2>2, <1>2, <1>5
  <2> QED
    BY <2>1, <2>2, <1>5
<1>12. IsChild(t2, new, 1, t.root)
  BY <1>2, <1>6, <1>7 DEF IsChild
<1>13. Rooted(t2, g2)
  <2>1. t2.root \in g2.used /\ g2.lo[t2.root] = 0 /\ g2.hi[t2.root] = Top
    BY <1>2, <1>5
  <2>2. ASSUME NEW y \in g2.used PROVE g2.lev[y] <= g2.lev[t2.root]
    <3>1. CASE y = new
      BY <3>1, <1>2, <1>4, <1>5
    <3>2. CASE y \in g.used
      <4>1. g.lev[y] \in Nat /\ g.lev[y] <= g.lev[t.root]
        BY <3>2, <1>3, WholeIs
      <4> QED
        BY <4>1, <3>2, <1>2, <1>4, <1>5
    <3> QED
      BY <3>1, <3>2, <1>5
  <2>3. ASSUME NEW y \in g2.used, y # t2.root
        PROVE  \E z \in g2.used : \E j \in 1 .. Len(t2.nodes[z].keys) : IsChild(t2, z, j, y)
    <3>1. y \in g.used
      BY <2>3, <1>2, <1>5
    <3>2. CASE y = t.root
      <4>1. 1 \in 1 .. Len(t2.nodes[new].keys)
        BY <1>6, <1>7
      <4> QED
        BY <4>1, <3>2, <1>5, <1>12
    <3>3. CASE y # t.root
      <4>1. PICK z \in g.used : \E j \in 1 .. Len(t.nodes[z].keys) : IsChild(t, z, j, y)
        BY <3>1, <3>3, ParentOf
      <4>2. t2.nodes[z] = t.nodes[z] /\ z \in g2.used
        BY <1>2, <1>5
      <4> QED
        BY <4>1, <4>2 DEF IsChild
    <3> QED
      BY <3>2, <3>3
  <2> QED
    BY <2>1, <2>2, <2>3 DEF Rooted
<1>14. Whole(t2, g2)
  BY <1>2, <1>5, <1>8, <1>9, <1>10, <1>11, <1>13 DEF Whole
<1>15. Tight(t2, g2, {})
  <2> SUFFICES ASSUME NEW y \in g2.used PROVE Num(t2.nodes[y].keys[1]) = g2.hi[y]
    BY DEF Tight
  <2>1. CASE y = new
    BY <2>1, <1>5, <1>6, <1>7 DEF Top
  <2>2. CASE y \in g.used
    BY <2>2, <1>2, <1>5 DEF Tight
  <2> QED
    BY <2>1, <2>2, <1>5
<1>16. ASSUME NEW k PROVE Holds(t2, g2, k) <=> Holds(t, g, k)
  <2>1. ASSUME Holds(t, g, k) PROVE Holds(t2, g2, k)
    BY <2>1, <1>2, <1>5 DEF Holds
  <2>2. ASSUME Holds(t2, g2, k) PROVE Holds(t, g, k)
    BY <2>2, <1>2, <1>5, <1>7 DEF Holds
  <2> QED
    BY <2>1, <2>2
<1> QED
  BY <1>2, <1>6, <1>7, <1>12, <1>14, <1>15, <1>16 DEF t2, new, g2

-----------------------------------------------------------------------------
(* Joining two children of a node. *)

Joined(t, p, l, r, at) == FreeNode(JoinNodes([t EXCEPT !.nodes[p] = RemoveKey(@, at)], l, r), l)

\* t2 is t with the keys of l behind those of r, and l freed.
JoinUp(t, g, t2, p, l, r, at) ==
    LET from == t.nodes[l]
        into == t.nodes[r]
        b    == t2.nodes[r]
    IN  /\ t2 \in Trees /\ t2.root = t.root /\ g.used \subseteq DOMAIN t2.nodes
        /\ FreeChain(t2, g.used \ {l})
        /\ Fit(b) /\ b.leaf = into.leaf /\ b.prev = from.prev /\ b.next = into.next
        /\ Len(b.keys) = Len(into.keys) + Len(from.keys)
        /\ \A k \in 1 .. Len(into.keys) : k \in 1 .. Len(b.keys) /\ Pair(b, k, into, k)
        /\ \A k \in 1 .. Len(from.keys) :
             Len(into.keys) + k \in 1 .. Len(b.keys) /\ Pair(b, Len(into.keys) + k, from, k)
        /\ \A k \in 1 .. Len(b.keys) :
             k \in 1 .. Len(into.keys) \/ k - Len(into.keys) \in 1 .. Len(from.keys)
        /\ Shrunk(t.nodes[p], t2.nodes[p], at)
        /\ from.prev # NIL_NODE => t2.nodes[from.prev] = [t.nodes[from.prev] EXCEPT !.next = r]
        /\ \A y \in g.used : y \notin {l, r, p, from.prev} => t2.nodes[y] = t.nodes[y]

\* Where the nodes around two neighbours are.
LEMMA AroundTwo ==
    ASSUME NoNulls, NEW t, NEW g, Whole(t, g), NEW p \in g.used, NEW i, NEW r, NEW l,
           IsChild(t, p, i, r), IsChild(t, p, i + 1, l)
    PROVE  LET q == t.nodes[l].prev
           IN  /\ r \in g.used /\ l \in g.used /\ r # l /\ r # p /\ l # p
               /\ i \in 1 .. Len(t.nodes[p].keys) /\ i + 1 \in 2 .. Len(t.nodes[p].keys)
               /\ t.nodes[r].prev = l /\ t.nodes[l].next = r /\ g.hi[l] = g.lo[r] /\ g.lev[l] = g.lev[r]
               /\ t.nodes[l].leaf = t.nodes[r].leaf /\ l # t.root /\ r # t.root
               /\ q # NIL_NODE => /\ q \in g.used /\ q # l /\ q # r /\ q # p /\ t.nodes[q].next = l
                                  /\ g.lev[q] = g.lev[l] /\ g.hi[q] = g.lo[l]
<1> DEFINE q == t.nodes[l].prev
<1>1. /\ r \in g.used /\ l \in g.used /\ r # l
      /\ t.nodes[r].prev = l /\ t.nodes[l].next = r /\ g.hi[l] = g.lo[r] /\ g.lev[l] = g.lev[r]
  BY Siblings
<1>2. /\ r # p /\ l # p /\ r # t.root /\ l # t.root /\ g.lev[p] = g.lev[l] + 1
      /\ i \in 1 .. Len(t.nodes[p].keys) /\ i + 1 \in 1 .. Len(t.nodes[p].keys)
  BY ChildIs
<1>3. /\ g.lo[l] \in Nat /\ g.hi[l] \in Nat /\ g.lo[l] < g.hi[l] /\ g.lev[l] \in Nat
      /\ g.lo[r] \in Nat /\ g.hi[r] \in Nat /\ g.lo[r] < g.hi[r] /\ Len(t.nodes[p].keys) \in Nat
      /\ (t.nodes[l].leaf <=> g.lev[l] = 0) /\ (t.nodes[r].leaf <=> g.lev[r] = 0)
      /\ t.nodes[l].leaf \in BOOLEAN /\ t.nodes[r].leaf \in BOOLEAN
  BY <1>1, WholeIs
<1>4. t.nodes[l].leaf = t.nodes[r].leaf
  BY <1>1, <1>3
<1>5. i + 1 \in 2 .. Len(t.nodes[p].keys)
  BY <1>2, <1>3
<1>6. ASSUME q # NIL_NODE
      PROVE  /\ q \in g.used /\ q # l /\ q # r /\ q # p /\ t.nodes[q].next = l
             /\ g.lev[q] = g.lev[l] /\ g.hi[q] = g.lo[l]
  <2>1. q \in g.used /\ t.nodes[q].next = l /\ g.lev[q] = g.lev[l] /\ g.hi[q] = g.lo[l]
    BY <1>1, <1>6 DEF Whole, Linked
  <2> HIDE DEF q
  <2>2. q # p
    BY <2>1, <1>2, <1>3
  <2>3. g.hi[q] # g.hi[l] /\ g.hi[q] # g.hi[r]
    BY <2>1, <1>1, <1>3
  <2> QED
    BY <2>1, <2>2, <2>3
<1> QED
  BY <1>1, <1>2, <1>4, <1>5, <1>6

LEMMA JoinedIs ==
    ASSUME NoNulls, NEW t, NEW g, Whole(t, g), NEW p \in g.used, NEW i, NEW r, NEW l,
           IsChild(t, p, i, r), IsChild(t, p, i + 1, l)
    PROVE  JoinUp(t, g, Joined(t, p, l, r, i + 1), p, l, r, i + 1)
<1> DEFINE from == t.nodes[l]
           into == t.nodes[r]
           q    == from.prev
           c    == RemoveKey(t.nodes[p], i + 1)
           t1   == [t EXCEPT !.nodes[p] = c]
           b    == [into EXCEPT !.keys = into.keys \o from.keys, !.child = into.child \o from.child,
                                !.nulls = into.nulls + from.nulls, !.prev = q]
           t3   == [t1 EXCEPT !.nodes[r] = b]
           t4   == SetNext(t3, q, r)
           t2   == FreeNode(t4, l)
<1>1. /\ r \in g.used /\ l \in g.used /\ r # l /\ r # p /\ l # p
      /\ i \in 1 .. Len(t.nodes[p].keys) /\ i + 1 \in 2 .. Len(t.nodes[p].keys)
      /\ t.nodes[r].prev = l /\ t.nodes[l].next = r /\ g.hi[l] = g.lo[r] /\ g.lev[l] = g.lev[r]
      /\ t.nodes[l].leaf = t.nodes[r].leaf
      /\ q # NIL_NODE => /\ q \in g.used /\ q # l /\ q # r /\ q # p /\ t.nodes[q].next = l
                         /\ g.lev[q] = g.lev[l] /\ g.hi[q] = g.lo[l]
  BY AroundTwo
<1>2. /\ Fit(from) /\ Fit(into) /\ Fit(t.nodes[p]) /\ g.hi[l] \in Nat /\ g.lo[r] \in Nat
      /\ Len(t.nodes[p].keys) \in Nat
      /\ \A k \in 1 .. Len(from.keys) : Num(from.keys[k]) \in Nat /\ Num(from.keys[k]) <= g.hi[l]
      /\ \A k \in 1 .. Len(into.keys) : Num(into.keys[k]) \in Nat /\ g.lo[r] < Num(into.keys[k])
  BY <1>1, WholeIs DEF Covers
<1>3. /\ t \in Trees /\ g.used \subseteq DOMAIN t.nodes /\ FreeChain(t, g.used)
      /\ r \in Nat \ {0} /\ g.used \subseteq Nat \ {0}
  <2>1. \A y \in g.used : y \in DOMAIN t.nodes /\ y \in Nat \ {0}
    BY WholeIs
  <2> QED
    BY <2>1, <1>1 DEF Whole
<1>4. /\ from \in Node /\ into \in Node /\ from.nulls = 0 /\ into.nulls = 0 /\ q \in Nat
      /\ into.leaf \in BOOLEAN /\ into.next \in Nat
      /\ GetKeys(from) = from.keys /\ GetKeys(into) = into.keys
  BY <1>2, FitIs, NodeIs
<1>5. Joined(t, p, l, r, i + 1) = t2
  <2>1. t1.nodes[r] = into /\ t1.nodes[l] = from
    <3>1. Written(t, t1, p, c)
      <4>1. i + 1 \in 1 .. Len(t.nodes[p].keys)
        BY <1>1, <1>2
      <4>2. c \in Node
        BY <4>1, <1>2, RemoveKeyIs DEF Shrunk, Fit
      <4> QED
        BY <4>2, <1>3, WriteIs
    <3> QED
      BY <3>1, <1>1, <1>3 DEF Written
  <2>2. t1 = [t EXCEPT !.nodes[p] = RemoveKey(@, i + 1)]
    BY DEF c
  <2> HIDE DEF t1
  <2>3. JoinNodes(t1, l, r) = t4
    BY <2>1, <1>4 DEF JoinNodes
  <2> QED
    BY <2>2, <2>3 DEF Joined
<1>6. /\ into.keys \o from.keys \in Seq(AllKeys) /\ into.child \o from.child \in Seq(Nat)
      /\ \A v \in Node : v.leaf = into.leaf /\ v.keys = into.keys \o from.keys
                         /\ v.child = into.child \o from.child
           => /\ Fit(v) /\ Len(v.keys) = Len(into.keys) + Len(from.keys)
              /\ \A k \in 1 .. Len(into.keys) : k \in 1 .. Len(v.keys) /\ Pair(v, k, into, k)
              /\ \A k \in 1 .. Len(from.keys) :
                   Len(into.keys) + k \in 1 .. Len(v.keys) /\ Pair(v, Len(into.keys) + k, from, k)
              /\ \A k \in 1 .. Len(v.keys) :
                   k \in 1 .. Len(into.keys) \/ k - Len(into.keys) \in 1 .. Len(from.keys)
  <2>1. ASSUME NEW j \in 1 .. Len(into.keys), NEW k \in 1 .. Len(from.keys)
        PROVE  Num(into.keys[j]) > Num(from.keys[k])
    BY <1>1, <1>2
  <2>2. Fit(into) /\ Fit(from) /\ into.leaf = from.leaf
    BY <1>1, <1>2
  <2> HIDE DEF into, from
  <2> QED
    BY <2>1, <2>2, JoinedNode
<1>7. /\ b \in Node /\ b.leaf = into.leaf /\ b.keys = into.keys \o from.keys
      /\ b.child = into.child \o from.child /\ b.prev = q /\ b.next = into.next
  <2>1. into.nulls + from.nulls = 0
    BY <1>4
  <2> QED
    BY <2>1, <1>4, <1>6 DEF Node
<1>8. Shrunk(t.nodes[p], c, i + 1) /\ c \in Node
  <2>1. i + 1 \in 1 .. Len(t.nodes[p].keys)
    BY <1>1, <1>2
  <2>2. Shrunk(t.nodes[p], c, i + 1)
    BY <2>1, <1>2, RemoveKeyIs
  <2> QED
    BY <2>2 DEF Shrunk, Fit
<1> HIDE DEF b, c
<1>9. /\ Fit(b) /\ Len(b.keys) = Len(into.keys) + Len(from.keys)
      /\ \A k \in 1 .. Len(into.keys) : k \in 1 .. Len(b.keys) /\ Pair(b, k, into, k)
      /\ \A k \in 1 .. Len(from.keys) :
           Len(into.keys) + k \in 1 .. Len(b.keys) /\ Pair(b, Len(into.keys) + k, from, k)
      /\ \A k \in 1 .. Len(b.keys) :
           k \in 1 .. Len(into.keys) \/ k - Len(into.keys) \in 1 .. Len(from.keys)
  BY <1>6, <1>7
<1>10. Written(t, t1, p, c)
  BY <1>3, <1>8, WriteIs
<1> HIDE DEF t1
<1>11. Written(t1, t3, r, b)
  <2>1. t1 \in Trees /\ r \in DOMAIN t1.nodes
    BY <1>1, <1>3, <1>10 DEF Written
  <2> QED
    BY <2>1, <1>7, WriteIs
<1> HIDE DEF t3
<1>12. /\ t3 \in Trees /\ t3.root = t.root /\ t3.free = t.free /\ DOMAIN t3.nodes = DOMAIN t.nodes
       /\ t3.nodes[p] = c /\ t3.nodes[r] = b
       /\ \A y \in DOMAIN t.nodes : y # p /\ y # r => t3.nodes[y] = t.nodes[y]
  BY <1>1, <1>3, <1>10, <1>11 DEF Written
<1>13. /\ t4 \in Trees /\ t4.root = t.root /\ t4.free = t.free /\ DOMAIN t4.nodes = DOMAIN t.nodes
       /\ t4.nodes[p] = c /\ t4.nodes[r] = b
       /\ q # NIL_NODE => t4.nodes[q] = [t.nodes[q] EXCEPT !.next = r]
       /\ \A y \in DOMAIN t.nodes : y # p /\ y # r /\ y # q => t4.nodes[y] = t.nodes[y]
  <2>1. CASE q = NIL_NODE
    <3>1. t4 = t3
      BY <2>1 DEF SetNext
    <3> HIDE DEF t4, q
    <3> QED
      BY <3>1, <2>1, <1>12
  <2>2. CASE q # NIL_NODE
    <3> HIDE DEF q
    <3>1. q \in DOMAIN t.nodes /\ q # p /\ q # r
      BY <2>2, <1>1, <1>3
    <3>2. q \in DOMAIN t3.nodes /\ t3.nodes[q] = t.nodes[q] /\ r \in Nat
      BY <3>1, <1>3, <1>12
    <3>3. Written(t3, t4, q, [t3.nodes[q] EXCEPT !.next = r])
      BY <3>2, <1>12, SetNextIs
    <3> HIDE DEF t4
    <3> QED
      BY <3>1, <3>2, <3>3, <1>1, <1>3, <1>12 DEF Written
  <2> QED
    BY <2>1, <2>2
<1> HIDE DEF t4
<1>14. FreeChain(t4, g.used)
  <2>1. \A y \in DOMAIN t.nodes \ g.used : t4.nodes[y] = t.nodes[y]
    <3> SUFFICES ASSUME NEW y \in DOMAIN t.nodes \ g.used PROVE t4.nodes[y] = t.nodes[y]
      OBVIOUS
    <3>1. y # NIL_NODE
      BY <1>3, TreeParts DEF NIL_NODE
    <3>2. y # p /\ y # r /\ y # q
      <4> HIDE DEF q
      <4> QED
        BY <3>1, <1>1
    <3> QED
      BY <3>2, <1>13
  <2> QED
    BY <2>1, <1>3, <1>13, FreeChainKept
<1>15. /\ t2 \in Trees /\ t2.root = t4.root /\ DOMAIN t2.nodes = DOMAIN t4.nodes
       /\ \A y \in DOMAIN t4.nodes : y # l => t2.nodes[y] = t4.nodes[y]
       /\ FreeChain(t2, g.used \ {l})
  <2>1. g.used \subseteq DOMAIN t4.nodes
    BY <1>3, <1>13
  <2>2. t4 \in Trees /\ l \in g.used
    BY <1>1, <1>13
  <2> HIDE DEF q, from, into
  <2> QED
    BY <2>1, <2>2, <1>14, FreeIs
<1> HIDE DEF t2
<1>16. t2.nodes[p] = c /\ t2.nodes[r] = b /\ t2.root = t.root /\ g.used \subseteq DOMAIN t2.nodes
  BY <1>1, <1>3, <1>13, <1>15
<1>17. q # NIL_NODE => t2.nodes[q] = [t.nodes[q] EXCEPT !.next = r]
  <2> HIDE DEF q
  <2> QED
    BY <1>1, <1>3, <1>13, <1>15
<1>18. ASSUME NEW y \in g.used, y \notin {l, r, p, q} PROVE t2.nodes[y] = t.nodes[y]
  <2> HIDE DEF q
  <2> QED
    BY <1>3, <1>13, <1>15, <1>18
<1>19. JoinUp(t, g, t2, p, l, r, i + 1)
  BY <1>7, <1>8, <1>9, <1>15, <1>16, <1>17, <1>18 DEF JoinUp
<1> QED
  BY <1>5, <1>19 DEF t2

\* The intervals when r has taken the keys of l.
Fuse(g, l, r) == [g EXCEPT !.used = g.used \ {l}, !.lo = [g.lo EXCEPT ![r] = g.lo[l]]]

LEMMA FuseIs ==
    ASSUME NEW g \in Ghosts, NEW l \in g.used, NEW r \in g.used, l # r
    PROVE  LET g2 == Fuse(g, l, r)
           IN  /\ g2 \in Ghosts /\ g2.used = g.used \ {l} /\ g2.lev = g.lev /\ g2.hi = g.hi
               /\ g2.lo[r] = g.lo[l]
               /\ \A y \in g.used : y # r => g2.lo[y] = g.lo[y]
<1> DEFINE lo == [g.lo EXCEPT ![r] = g.lo[l]]
           g2 == Fuse(g, l, r)
<1>1. /\ g.used \subseteq Nat \ {0} /\ g.lev \in [Nat -> Nat] /\ g.lo \in [Nat -> Nat]
      /\ g.hi \in [Nat -> Nat] /\ r \in Nat /\ l \in Nat
  BY DEF Ghosts
<1>2. /\ lo \in [Nat -> Nat] /\ lo[r] = g.lo[l]
      /\ \A y \in g.used : y # r => lo[y] = g.lo[y]
  BY <1>1
<1>3. g2 = [g EXCEPT !.used = g.used \ {l}, !.lo = lo]
  BY DEF Fuse
<1> HIDE DEF lo, g2
<1>4. g2 \in Ghosts /\ g2.used = g.used \ {l} /\ g2.lev = g.lev /\ g2.hi = g.hi /\ g2.lo = lo
  BY <1>1, <1>2, <1>3 DEF Ghosts
<1> QED
  BY <1>2, <1>4 DEF g2

LEMMA JoinWhole ==
    ASSUME NoNulls, NEW t, NEW g, Whole(t, g), Tight(t, g, {}), NEW p \in g.used, NEW i, NEW r, NEW l,
           IsChild(t, p, i, r), IsChild(t, p, i + 1, l),
           NEW t2, JoinUp(t, g, t2, p, l, r, i + 1)
    PROVE  LET g2 == Fuse(g, l, r)
           IN  /\ Whole(t2, g2) /\ Tight(t2, g2, {})
               /\ \A k : Holds(t2, g2, k) <=> Holds(t, g, k)
<1> DEFINE from == t.nodes[l]
           into == t.nodes[r]
           nf   == Len(from.keys)
           ni   == Len(into.keys)
           q    == from.prev
           b    == t2.nodes[r]
           g2   == Fuse(g, l, r)
<1>1. /\ r \in g.used /\ l \in g.used /\ r # l /\ r # p /\ l # p
      /\ i \in 1 .. Len(t.nodes[p].keys) /\ i + 1 \in 2 .. Len(t.nodes[p].keys)
      /\ t.nodes[r].prev = l /\ t.nodes[l].next = r /\ g.hi[l] = g.lo[r] /\ g.lev[l] = g.lev[r]
      /\ from.leaf = into.leaf /\ l # t.root /\ r # t.root
      /\ q # NIL_NODE => /\ q \in g.used /\ q # l /\ q # r /\ q # p /\ t.nodes[q].next = l
                         /\ g.lev[q] = g.lev[l] /\ g.hi[q] = g.lo[l]
  BY AroundTwo
<1>2. /\ Fit(from) /\ Fit(into) /\ Len(t.nodes[p].keys) \in Nat /\ nf \in Nat \ {0} /\ ni \in Nat \ {0}
      /\ g.lo[l] \in Nat /\ g.hi[l] \in Nat /\ g.lo[l] < g.hi[l] /\ g.lev[l] \in Nat
      /\ g.lo[r] \in Nat /\ g.hi[r] \in Nat /\ g.lo[r] < g.hi[r] /\ g.hi[r] <= Top /\ Top \in Nat
      /\ (into.leaf <=> g.lev[r] = 0) /\ into.leaf \in BOOLEAN
      /\ ~t.nodes[p].leaf
  BY <1>1, WholeIs DEF IsChild
<1>3. JoinUp(t, g, t2, p, l, r, i + 1)
  OBVIOUS
<1>4. /\ t2 \in Trees /\ t2.root = t.root /\ g.used \subseteq DOMAIN t2.nodes
      /\ FreeChain(t2, g.used \ {l})
  BY <1>3 DEF JoinUp
<1>5. /\ Fit(b) /\ b.leaf = into.leaf /\ b.prev = q /\ b.next = into.next
      /\ Len(b.keys) = ni + nf
      /\ \A k \in 1 .. ni : k \in 1 .. Len(b.keys) /\ Pair(b, k, into, k)
      /\ \A k \in 1 .. nf : ni + k \in 1 .. Len(b.keys) /\ Pair(b, ni + k, from, k)
      /\ \A k \in 1 .. Len(b.keys) : k \in 1 .. ni \/ k - ni \in 1 .. nf
  BY <1>3 DEF JoinUp
<1>6. Shrunk(t.nodes[p], t2.nodes[p], i + 1)
  BY <1>3 DEF JoinUp
<1>7. /\ q # NIL_NODE => t2.nodes[q] = [t.nodes[q] EXCEPT !.next = r]
      /\ \A y \in g.used : y \notin {l, r, p, q} => t2.nodes[y] = t.nodes[y]
  BY <1>3 DEF JoinUp
<1>8. /\ g2 \in Ghosts /\ g2.used = g.used \ {l} /\ g2.lev = g.lev /\ g2.hi = g.hi
      /\ g2.lo[r] = g.lo[l]
      /\ \A y \in g.used : y # r => g2.lo[y] = g.lo[y]
  BY <1>1, FuseIs DEF Whole
<1> HIDE DEF g2, b, nf, ni, q
<1>9. t2.nodes[r] = b
  BY DEF b
<1>10. r \in g2.used /\ p \in g2.used
  BY <1>1, <1>8
\* A key of the joined node, with its child, is one of the two nodes.
<1>11. ASSUME NEW k \in 1 .. Len(b.keys)
       PROVE  \/ k \in 1 .. ni /\ Pair(b, k, into, k)
              \/ \E h \in 1 .. nf : Pair(b, k, from, h)
  <2>1. CASE k \in 1 .. ni
    BY <2>1, <1>5
  <2>2. CASE k - ni \in 1 .. nf
    <3>1. ni + (k - ni) = k
      BY <1>2
    <3>2. Pair(b, ni + (k - ni), from, k - ni)
      BY <2>2, <1>5
    <3> QED
      BY <2>2, <3>1, <3>2
  <2> QED
    BY <2>1, <2>2, <1>5
<1>12. ASSUME NEW y \in g.used, y # l, y # r, y # p
       PROVE  /\ Fit(t2.nodes[y]) /\ t2.nodes[y].leaf = t.nodes[y].leaf /\ t2.nodes[y].keys = t.nodes[y].keys
              /\ t2.nodes[y].child = t.nodes[y].child
  <2>1. Fit(t.nodes[y]) /\ t.nodes[y] \in Node
    BY WholeIs
  <2>2. CASE y = q
    <3>1. q # NIL_NODE
      <4>1. y \in Nat \ {0}
        BY WholeIs
      <4> QED
        BY <4>1, <2>2 DEF NIL_NODE
    <3>2. t2.nodes[y] = [t.nodes[y] EXCEPT !.next = r]
      BY <3>1, <2>2, <1>7
    <3>3. r \in Nat
      BY <1>1, WholeIs
    <3>4. t2.nodes[y] \in Node /\ t2.nodes[y].leaf = t.nodes[y].leaf /\ t2.nodes[y].keys = t.nodes[y].keys
          /\ t2.nodes[y].child = t.nodes[y].child
      BY <3>2, <3>3, <2>1 DEF Node
    <3> QED
      BY <3>4, <2>1 DEF Fit
  <2>3. CASE y # q
    BY <2>1, <2>3, <1>7, <1>12
  <2> QED
    BY <2>2, <2>3
<1>13. ASSUME NEW y \in g.used, y # l, y # r
       PROVE  t2.nodes[y].prev = t.nodes[y].prev
  <2>1. CASE y = p
    BY <2>1, <1>6 DEF Shrunk, Alike
  <2>2. CASE y # p /\ y # q
    BY <2>2, <1>7, <1>13
  <2>3. CASE y = q /\ y # p
    <3>1. q # NIL_NODE
      <4>1. y \in Nat \ {0}
        BY WholeIs
      <4> QED
        BY <4>1, <2>3 DEF NIL_NODE
    <3>2. t2.nodes[y] = [t.nodes[y] EXCEPT !.next = r] /\ t.nodes[y] \in Node
      BY <3>1, <2>3, <1>7, WholeIs
    <3> QED
      BY <3>2 DEF Node
  <2> QED
    BY <2>1, <2>2, <2>3
<1>14. ASSUME NEW y \in g.used, y # l, y # q
       PROVE  t2.nodes[y].next = t.nodes[y].next
  <2>1. CASE y = p
    BY <2>1, <1>6 DEF Shrunk, Alike
  <2>2. CASE y = r
    BY <2>2, <1>5, <1>9
  <2>3. CASE y # p /\ y # r
    BY <2>3, <1>7, <1>14
  <2> QED
    BY <2>1, <2>2, <2>3
<1>15. q # NIL_NODE => t2.nodes[q].next = r
  <2>1. SUFFICES ASSUME q # NIL_NODE PROVE t2.nodes[q].next = r
    OBVIOUS
  <2>2. q \in g.used
    BY <2>1, <1>1 DEF q
  <2>3. t2.nodes[q] = [t.nodes[q] EXCEPT !.next = r] /\ t.nodes[q] \in Node
    BY <2>1, <2>2, <1>7, WholeIs
  <2> QED
    BY <2>3 DEF Node
<1>16. Placed(t2, g2)
  <2> SUFFICES ASSUME NEW y \in g2.used
               PROVE  /\ y \in DOMAIN t2.nodes /\ Fit(t2.nodes[y]) /\ Len(t2.nodes[y].keys) >= 1
                      /\ t2.nodes[y].leaf <=> g2.lev[y] = 0
                      /\ g2.lo[y] < g2.hi[y] /\ g2.hi[y] <= Top
                      /\ \A k \in 1 .. Len(t2.nodes[y].keys) :
                           g2.lo[y] < Num(t2.nodes[y].keys[k]) /\ Num(t2.nodes[y].keys[k]) <= g2.hi[y]
    BY DEF Placed
  <2>1. CASE y = r
    <3>1. g2.lo[y] = g.lo[l] /\ g2.hi[y] = g.hi[r] /\ g2.lev[y] = g.lev[r] /\ t2.nodes[y] = b
      BY <2>1, <1>8, <1>9
    <3>2. ASSUME NEW k \in 1 .. Len(b.keys) PROVE g.lo[l] < Num(b.keys[k]) /\ Num(b.keys[k]) <= g.hi[r]
      <4>1. CASE k \in 1 .. ni /\ Pair(b, k, into, k)
        <5>1. b.keys[k] = into.keys[k]
          BY <4>1 DEF Pair
        <5>2. Num(into.keys[k]) \in Nat /\ g.lo[r] < Num(into.keys[k]) /\ Num(into.keys[k]) <= g.hi[r]
          BY <4>1, <1>1, WholeIs DEF Covers, ni
        <5> QED
          BY <5>1, <5>2, <1>1, <1>2
      <4>2. CASE \E h \in 1 .. nf : Pair(b, k, from, h)
        <5>1. PICK h \in 1 .. nf : b.keys[k] = from.keys[h]
          BY <4>2 DEF Pair
        <5>2. Num(from.keys[h]) \in Nat /\ g.lo[l] < Num(from.keys[h]) /\ Num(from.keys[h]) <= g.hi[l]
          BY <1>1, WholeIs DEF Covers, nf
        <5> QED
          BY <5>1, <5>2, <1>1, <1>2
      <4> QED
        BY <4>1, <4>2, <1>11
    <3>3. Len(b.keys) >= 1 /\ g.lo[l] < g.hi[r]
      BY <1>1, <1>2, <1>5
    <3>4. y \in DOMAIN t2.nodes /\ Fit(b) /\ (b.leaf <=> g2.lev[y] = 0)
      BY <3>1, <2>1, <1>1, <1>2, <1>4, <1>5
    <3> QED
      BY <3>1, <3>2, <3>3, <3>4, <1>2
  <2>2. CASE y = p
    <3>1. g2.lo[y] = g.lo[p] /\ g2.hi[y] = g.hi[p] /\ g2.lev[y] = g.lev[p]
      BY <2>2, <1>1, <1>8
    <3>2. /\ Fit(t2.nodes[p]) /\ t2.nodes[p].leaf = t.nodes[p].leaf
          /\ Len(t2.nodes[p].keys) = Len(t.nodes[p].keys) - 1
          /\ \A j \in 1 .. Len(t2.nodes[p].keys) :
               \E h \in 1 .. Len(t.nodes[p].keys) : t2.nodes[p].keys[j] = t.nodes[p].keys[h]
      BY <1>6 DEF Shrunk, Alike, Pair
    <3>3. /\ Len(t.nodes[p].keys) \in Nat /\ (t.nodes[p].leaf <=> g.lev[p] = 0)
          /\ g.lo[p] < g.hi[p] /\ g.hi[p] <= Top
          /\ \A h \in 1 .. Len(t.nodes[p].keys) :
               g.lo[p] < Num(t.nodes[p].keys[h]) /\ Num(t.nodes[p].keys[h]) <= g.hi[p]
      BY WholeIs DEF Covers
    <3>4. ASSUME NEW j \in 1 .. Len(t2.nodes[p].keys)
          PROVE  g.lo[p] < Num(t2.nodes[p].keys[j]) /\ Num(t2.nodes[p].keys[j]) <= g.hi[p]
      BY <3>2, <3>3
    <3>5. Len(t2.nodes[p].keys) >= 1
      BY <3>2, <3>3, <1>1
    <3> QED
      BY <3>1, <3>2, <3>3, <3>4, <3>5, <2>2, <1>4
  <2>3. CASE y \in g.used /\ y # r /\ y # p /\ y # l
    <3>1. g2.lo[y] = g.lo[y] /\ g2.hi[y] = g.hi[y] /\ g2.lev[y] = g.lev[y]
      BY <2>3, <1>8
    <3>2. /\ Len(t.nodes[y].keys) >= 1 /\ (t.nodes[y].leaf <=> g.lev[y] = 0)
          /\ g.lo[y] < g.hi[y] /\ g.hi[y] <= Top
          /\ \A h \in 1 .. Len(t.nodes[y].keys) :
               g.lo[y] < Num(t.nodes[y].keys[h]) /\ Num(t.nodes[y].keys[h]) <= g.hi[y]
      BY <2>3 DEF Whole, Placed
    <3> QED
      BY <3>1, <3>2, <2>3, <1>4, <1>12
  <2> QED
    BY <2>1, <2>2, <2>3, <1>8
<1>17. Linked(t2, g2)
  <2> SUFFICES ASSUME NEW y \in g2.used
               PROVE  /\ t2.nodes[y].prev = NIL_NODE => g2.lo[y] = 0
                      /\ t2.nodes[y].prev # NIL_NODE =>
                           /\ t2.nodes[y].prev \in g2.used
                           /\ g2.lev[t2.nodes[y].prev] = g2.lev[y]
                           /\ g2.hi[t2.nodes[y].prev] = g2.lo[y]
                           /\ t2.nodes[t2.nodes[y].prev].next = y
                      /\ t2.nodes[y].next = NIL_NODE => g2.hi[y] = Top
                      /\ t2.nodes[y].next # NIL_NODE =>
                           t2.nodes[y].next \in g2.used /\ t2.nodes[t2.nodes[y].next].prev = y
    BY DEF Linked
  <2>0. y \in g.used /\ y # l
    BY <1>8
  <2>1. ASSUME NEW z \in g.used
        PROVE  /\ t.nodes[z].prev = NIL_NODE => g.lo[z] = 0
               /\ t.nodes[z].prev # NIL_NODE =>
                    /\ t.nodes[z].prev \in g.used
                    /\ g.lev[t.nodes[z].prev] = g.lev[z] /\ g.hi[t.nodes[z].prev] = g.lo[z]
                    /\ t.nodes[t.nodes[z].prev].next = z
               /\ t.nodes[z].next = NIL_NODE => g.hi[z] = Top
               /\ t.nodes[z].next # NIL_NODE =>
                    t.nodes[z].next \in g.used /\ t.nodes[t.nodes[z].next].prev = z
    BY DEF Whole, Linked
  <2>2. CASE y = r
    <3>1. t2.nodes[y].prev = q /\ t2.nodes[y].next = t.nodes[r].next /\ g2.lo[y] = g.lo[l]
      BY <2>2, <1>5, <1>8, <1>9
    <3>2. q = NIL_NODE => g.lo[l] = 0
      BY <2>1, <1>1 DEF q
    <3>3. q # NIL_NODE => /\ q \in g2.used /\ g2.lev[q] = g2.lev[r] /\ g2.hi[q] = g.lo[l]
                          /\ t2.nodes[q].next = r
      BY <1>1, <1>8, <1>15 DEF q
    <3>4. t.nodes[r].next = NIL_NODE => g2.hi[r] = Top
      BY <2>1, <1>1, <1>8
    <3>5. ASSUME t.nodes[r].next # NIL_NODE
          PROVE  t.nodes[r].next \in g2.used /\ t2.nodes[t.nodes[r].next].prev = r
      <4>1. t.nodes[r].next \in g.used /\ t.nodes[t.nodes[r].next].prev = r
        BY <3>5, <2>1, <1>1
      <4>2. t.nodes[r].next # l
        <5>1. SUFFICES ASSUME t.nodes[r].next = l PROVE FALSE
          OBVIOUS
        <5>2. q = r
          BY <5>1, <4>1 DEF q
        <5>3. q # NIL_NODE
          <6>1. r \in Nat \ {0}
            BY <1>1, WholeIs
          <6> QED
            BY <6>1, <5>2 DEF NIL_NODE
        <5> QED
          BY <5>2, <5>3, <1>1 DEF q
      <4>3. t.nodes[r].next # r
        BY <4>1, <1>1
      <4> QED
        BY <4>1, <4>2, <4>3, <1>8, <1>13
    <3> QED
      BY <3>1, <3>2, <3>3, <3>4, <3>5, <2>2
  <2>3. CASE y # r
    <3>1. /\ g2.lo[y] = g.lo[y] /\ g2.hi[y] = g.hi[y] /\ g2.lev[y] = g.lev[y]
          /\ t2.nodes[y].prev = t.nodes[y].prev
      BY <2>0, <2>3, <1>8, <1>13
    <3>2. ASSUME t.nodes[y].prev # NIL_NODE
          PROVE  /\ t.nodes[y].prev \in g2.used /\ g2.lev[t.nodes[y].prev] = g.lev[y]
                 /\ g2.hi[t.nodes[y].prev] = g.lo[y] /\ t2.nodes[t.nodes[y].prev].next = y
      <4>1. /\ t.nodes[y].prev \in g.used
            /\ g.lev[t.nodes[y].prev] = g.lev[y] /\ g.hi[t.nodes[y].prev] = g.lo[y]
            /\ t.nodes[t.nodes[y].prev].next = y
        BY <3>2, <2>0, <2>1
      <4>2. t.nodes[y].prev # l
        BY <4>1, <2>3, <1>1
      <4>3. t.nodes[y].prev # q
        <5>1. q # NIL_NODE => t.nodes[q].next = l
          BY <1>1 DEF q
        <5> QED
          BY <5>1, <4>1, <3>2, <2>0
      <4> QED
        BY <4>1, <4>2, <4>3, <1>8, <1>14
    <3>3. t.nodes[y].prev = NIL_NODE => g.lo[y] = 0
      BY <2>0, <2>1
    <3>4. CASE y = q
      <4>1. q # NIL_NODE
        <5>1. y \in Nat \ {0}
          BY <2>0, WholeIs
        <5> QED
          BY <5>1, <3>4 DEF NIL_NODE
      <4>2. t2.nodes[y].next = r /\ r # NIL_NODE /\ t2.nodes[r].prev = y
        <5>1. r \in Nat \ {0}
          BY <1>1, WholeIs
        <5> QED
          BY <5>1, <4>1, <3>4, <1>5, <1>9, <1>15 DEF NIL_NODE
      <4> QED
        BY <4>2, <3>1, <3>2, <3>3, <1>10
    <3>5. CASE y # q
      <4>1. t2.nodes[y].next = t.nodes[y].next
        BY <3>5, <2>0, <1>14
      <4>2. t.nodes[y].next = NIL_NODE => g.hi[y] = Top
        BY <2>0, <2>1
      <4>3. ASSUME t.nodes[y].next # NIL_NODE
            PROVE  t.nodes[y].next \in g2.used /\ t2.nodes[t.nodes[y].next].prev = y
        <5>1. t.nodes[y].next \in g.used /\ t.nodes[t.nodes[y].next].prev = y
          BY <4>3, <2>0, <2>1
        <5>2. t.nodes[y].next # l
          BY <5>1, <3>5 DEF q
        <5>3. t.nodes[y].next # r
          BY <5>1, <2>0, <1>1
        <5> QED
          BY <5>1, <5>2, <5>3, <1>8, <1>13
      <4> QED
        BY <4>1, <4>2, <4>3, <3>1, <3>2, <3>3
    <3> QED
      BY <3>4, <3>5
  <2> QED
    BY <2>2, <2>3
<1>18. Apart(g2)
  <2>1. ASSUME NEW y \in g.used, y # r, y # l, g.lev[y] = g.lev[r]
        PROVE  g.hi[y] <= g.lo[l] \/ g.hi[r] <= g.lo[y]
    <3>1. g.hi[y] <= g.lo[r] \/ g.hi[r] <= g.lo[y]
      BY <2>1, <1>1 DEF Whole, Apart
    <3>2. g.hi[y] <= g.lo[l] \/ g.hi[l] <= g.lo[y]
      BY <2>1, <1>1 DEF Whole, Apart
    <3>3. g.lo[y] \in Nat /\ g.hi[y] \in Nat /\ g.lo[y] < g.hi[y]
      BY WholeIs
    <3> QED
      BY <3>1, <3>2, <3>3, <1>1, <1>2
  <2>2. ASSUME NEW y \in g2.used, NEW z \in g2.used, y # z, g2.lev[y] = g2.lev[z]
        PROVE  g2.hi[y] <= g2.lo[z] \/ g2.hi[z] <= g2.lo[y]
    <3>1. y \in g.used /\ y # l /\ z \in g.used /\ z # l /\ g.lev[y] = g.lev[z]
      BY <2>2, <1>8
    <3>2. CASE y = r
      <4>1. g2.lo[y] = g.lo[l] /\ g2.hi[y] = g.hi[r] /\ g2.lo[z] = g.lo[z] /\ g2.hi[z] = g.hi[z]
        BY <3>1, <3>2, <2>2, <1>8
      <4> QED
        BY <4>1, <3>1, <3>2, <2>1, <2>2
    <3>3. CASE z = r
      <4>1. g2.lo[z] = g.lo[l] /\ g2.hi[z] = g.hi[r] /\ g2.lo[y] = g.lo[y] /\ g2.hi[y] = g.hi[y]
        BY <3>1, <3>3, <2>2, <1>8
      <4> QED
        BY <4>1, <3>1, <3>3, <2>1, <2>2
    <3>4. CASE y # r /\ z # r
      <4>1. g2.lo[y] = g.lo[y] /\ g2.hi[y] = g.hi[y] /\ g2.lo[z] = g.lo[z] /\ g2.hi[z] = g.hi[z]
        BY <3>1, <3>4, <1>8
      <4> QED
        BY <4>1, <3>1, <2>2 DEF Whole, Apart
    <3> QED
      BY <3>2, <3>3, <3>4
  <2> QED
    BY <2>2 DEF Apart
\* The children that are left.
<1>19. ASSUME NEW y \in g.used, ~t.nodes[y].leaf, NEW j \in 1 .. Len(t.nodes[y].keys), y # p \/ j # i + 1
       PROVE  /\ t.nodes[y].child[j] \in g2.used /\ g2.lev[t.nodes[y].child[j]] + 1 = g.lev[y]
              /\ g2.hi[t.nodes[y].child[j]] = Num(t.nodes[y].keys[j])
  <2>1. /\ t.nodes[y].child[j] \in g.used /\ g.lev[t.nodes[y].child[j]] + 1 = g.lev[y]
        /\ g.hi[t.nodes[y].child[j]] = Num(t.nodes[y].keys[j])
    BY <1>19 DEF Whole, Family
  <2>2. t.nodes[y].child[j] # l
    <3>1. SUFFICES ASSUME t.nodes[y].child[j] = l PROVE FALSE
      OBVIOUS
    <3>2. IsChild(t, y, j, l)
      BY <3>1, <1>19 DEF IsChild
    <3> QED
      BY <3>2, <1>19, OnlyParent
  <2> QED
    BY <2>1, <2>2, <1>8
<1>20. Family(t2, g2)
  <2> SUFFICES ASSUME NEW y \in g2.used, ~t2.nodes[y].leaf, NEW j \in 1 .. Len(t2.nodes[y].keys)
               PROVE  /\ t2.nodes[y].child[j] \in g2.used
                      /\ g2.lev[t2.nodes[y].child[j]] + 1 = g2.lev[y]
                      /\ g2.hi[t2.nodes[y].child[j]] = Num(t2.nodes[y].keys[j])
    BY DEF Family
  <2>1. CASE y = r
    <3>1. j \in 1 .. Len(b.keys) /\ ~into.leaf /\ ~from.leaf /\ ~b.leaf /\ t2.nodes[y] = b
          /\ g2.lev[y] = g.lev[r] /\ g.lev[l] = g.lev[r]
      BY <2>1, <1>1, <1>5, <1>8, <1>9
    <3>2. CASE j \in 1 .. ni /\ Pair(b, j, into, j)
      <4>1. b.keys[j] = into.keys[j] /\ b.child[j] = into.child[j]
        BY <3>1, <3>2 DEF Pair
      <4> QED
        BY <4>1, <3>1, <3>2, <1>1, <1>19 DEF ni
    <3>3. CASE \E h \in 1 .. nf : Pair(b, j, from, h)
      <4>1. PICK h \in 1 .. nf : b.keys[j] = from.keys[h] /\ b.child[j] = from.child[h]
        BY <3>1, <3>3 DEF Pair
      <4> QED
        BY <4>1, <3>1, <1>1, <1>19 DEF nf
    <3> QED
      BY <3>1, <3>2, <3>3, <1>11
  <2>2. CASE y = p
    <3>1. g2.lev[y] = g.lev[p]
      BY <2>2, <1>8
    <3>2. PICK h \in 1 .. Len(t.nodes[p].keys) :
             h # i + 1 /\ t2.nodes[p].keys[j] = t.nodes[p].keys[h]
             /\ t2.nodes[p].child[j] = t.nodes[p].child[h]
      BY <2>2, <1>2, <1>6 DEF Shrunk, Pair, Alike
    <3> QED
      BY <3>1, <3>2, <2>2, <1>2, <1>19, SMTT(30)
  <2>3. CASE y \in g.used /\ y # l /\ y # r /\ y # p
    BY <2>3, <1>8, <1>12, <1>19
  <2> QED
    BY <2>1, <2>2, <2>3, <1>8
<1>21. Rooted(t2, g2)
  <2>1. /\ t.root \in g.used /\ g.lo[t.root] = 0 /\ g.hi[t.root] = Top
        /\ \A y \in g.used : g.lev[y] <= g.lev[t.root]
    BY DEF Whole, Rooted
  <2>2. t2.root \in g2.used /\ g2.lo[t2.root] = 0 /\ g2.hi[t2.root] = Top
    BY <2>1, <1>1, <1>4, <1>8
  <2>3. ASSUME NEW y \in g2.used PROVE g2.lev[y] <= g2.lev[t2.root]
    BY <2>1, <1>4, <1>8
  <2>4. ASSUME NEW y \in g2.used, y # t2.root
        PROVE  \E z \in g2.used : \E j \in 1 .. Len(t2.nodes[z].keys) : IsChild(t2, z, j, y)
    <3>1. y \in g.used /\ y # l /\ y # t.root
      BY <2>4, <1>4, <1>8
    <3>2. PICK z \in g.used : \E j \in 1 .. Len(t.nodes[z].keys) : IsChild(t, z, j, y)
      BY <3>1, ParentOf
    <3>3. PICK j \in 1 .. Len(t.nodes[z].keys) : IsChild(t, z, j, y)
      BY <3>2
    <3>4. ~t.nodes[z].leaf /\ t.nodes[z].child[j] = y
      BY <3>3 DEF IsChild
    <3>5. CASE z = r
      <4>1. j \in 1 .. ni
        BY <3>5 DEF ni
      <4>2. b.child[j] = y /\ j \in 1 .. Len(b.keys) /\ ~b.leaf
        BY <4>1, <3>4, <3>5, <1>5 DEF Pair
      <4> QED
        BY <4>2, <1>9, <1>10 DEF IsChild
    <3>6. CASE z = l
      <4>1. j \in 1 .. nf /\ ~b.leaf
        BY <3>4, <3>6, <1>1, <1>5 DEF nf
      <4>2. ni + j \in 1 .. Len(b.keys) /\ b.child[ni + j] = from.child[j]
        BY <4>1, <1>5 DEF Pair
      <4>3. IsChild(t2, r, ni + j, y)
        BY <4>1, <4>2, <3>4, <3>6, <1>9 DEF IsChild
      <4> QED
        BY <4>2, <4>3, <1>9, <1>10
    <3>7. CASE z = p
      <4>1. j # i + 1
        <5>1. t.nodes[p].child[i + 1] = l
          BY DEF IsChild
        <5> QED
          BY <5>1, <3>1, <3>4, <3>7
      <4>2. PICK h \in 1 .. Len(t2.nodes[p].keys) : Pair(t.nodes[p], j, t2.nodes[p], h)
        BY <4>1, <3>7, <1>6 DEF Shrunk
      <4>3. t2.nodes[p].child[h] = y /\ ~t2.nodes[p].leaf
        BY <4>2, <3>4, <3>7, <1>6 DEF Pair, Shrunk, Alike
      <4> QED
        BY <4>2, <4>3, <1>10 DEF IsChild
    <3>8. CASE z # r /\ z # l /\ z # p
      BY <3>4, <3>8, <1>8, <1>12 DEF IsChild
    <3> QED
      BY <3>5, <3>6, <3>7, <3>8
  <2> QED
    BY <2>2, <2>3, <2>4 DEF Rooted
<1>22. Tight(t2, g2, {})
  <2> SUFFICES ASSUME NEW y \in g2.used PROVE Num(t2.nodes[y].keys[1]) = g2.hi[y]
    BY DEF Tight
  <2>1. y \in g.used /\ y # l
    BY <1>8
  <2>2. Num(t.nodes[y].keys[1]) = g.hi[y] /\ g2.hi[y] = g.hi[y]
    BY <2>1, <1>8 DEF Tight
  <2>3. CASE y = r
    <3>1. 1 \in 1 .. ni
      BY <1>2
    <3> QED
      BY <3>1, <2>2, <2>3, <1>5, <1>9 DEF Pair
  <2>4. CASE y = p
    <3>1. i + 1 # 1
      BY <1>1, <1>2
    <3> QED
      BY <3>1, <2>2, <2>4, <1>6 DEF Shrunk
  <2>5. CASE y # r /\ y # p
    BY <2>1, <2>2, <2>5, <1>12
  <2> QED
    BY <2>3, <2>4, <2>5
<1>23. Whole(t2, g2)
  BY <1>4, <1>8, <1>16, <1>17, <1>18, <1>20, <1>21 DEF Whole
<1>24. ASSUME NEW k, Holds(t, g, k) PROVE Holds(t2, g2, k)
  <2>1. PICK y \in g.used : t.nodes[y].leaf /\ \E j \in 1 .. Len(t.nodes[y].keys) : t.nodes[y].keys[j] = k
    BY <1>24 DEF Holds
  <2>2. PICK j \in 1 .. Len(t.nodes[y].keys) : t.nodes[y].keys[j] = k
    BY <2>1
  <2>3. CASE y = r
    <3>1. j \in 1 .. ni
      BY <2>3 DEF ni
    <3>2. b.keys[j] = k /\ j \in 1 .. Len(b.keys) /\ b.leaf
      BY <3>1, <2>1, <2>2, <2>3, <1>5 DEF Pair
    <3> QED
      BY <3>2, <1>9, <1>10 DEF Holds
  <2>4. CASE y = l
    <3>1. j \in 1 .. nf /\ b.leaf
      BY <2>1, <2>4, <1>1, <1>5 DEF nf
    <3>2. ni + j \in 1 .. Len(b.keys) /\ b.keys[ni + j] = k
      BY <3>1, <2>2, <2>4, <1>5 DEF Pair
    <3> QED
      BY <3>1, <3>2, <1>9, <1>10 DEF Holds
  <2>5. CASE y # r /\ y # l
    <3>1. y # p
      BY <2>1, <1>2
    <3> QED
      BY <3>1, <2>1, <2>2, <2>5, <1>8, <1>12 DEF Holds
  <2> QED
    BY <2>3, <2>4, <2>5
<1>25. ASSUME NEW k, Holds(t2, g2, k) PROVE Holds(t, g, k)
  <2>1. PICK y \in g2.used : t2.nodes[y].leaf /\ \E j \in 1 .. Len(t2.nodes[y].keys) : t2.nodes[y].keys[j] = k
    BY <1>25 DEF Holds
  <2>2. PICK j \in 1 .. Len(t2.nodes[y].keys) : t2.nodes[y].keys[j] = k
    BY <2>1
  <2>3. CASE y = r
    <3>1. j \in 1 .. Len(b.keys) /\ b.keys[j] = k /\ into.leaf /\ from.leaf
      BY <2>1, <2>2, <2>3, <1>1, <1>5, <1>9
    <3>2. CASE j \in 1 .. ni /\ Pair(b, j, into, j)
      BY <3>1, <3>2, <1>1 DEF Holds, Pair, ni
    <3>3. CASE \E h \in 1 .. nf : Pair(b, j, from, h)
      BY <3>1, <3>3, <1>1 DEF Holds, Pair, nf
    <3> QED
      BY <3>1, <3>2, <3>3, <1>11
  <2>4. CASE y = p
    BY <2>1, <2>4, <1>2, <1>6 DEF Shrunk, Alike
  <2>5. CASE y \in g.used /\ y # r /\ y # p /\ y # l
    BY <2>1, <2>2, <2>5, <1>12 DEF Holds
  <2> QED
    BY <2>3, <2>4, <2>5, <1>8
<1> QED
  BY <1>22, <1>23, <1>24, <1>25 DEF g2

-----------------------------------------------------------------------------
(* The keys of a leaf. *)

LEMMA LeafWritten ==
    ASSUME NoNulls, NEW t, NEW g, Whole(t, g), NEW x \in g.used, t.nodes[x].leaf,
           NEW n, Fit(n), Alike(n, t.nodes[x]), Len(n.keys) >= 1,
           \A i \in 1 .. Len(n.keys) : Covers(g, x, Num(n.keys[i]))
    PROVE  LET t2 == [t EXCEPT !.nodes[x] = n]
           IN  /\ Whole(t2, g) /\ t2.root = t.root /\ t2.nodes[x] = n
               /\ \A y \in g.used : y # x => t2.nodes[y] = t.nodes[y]
<1> DEFINE t2 == [t EXCEPT !.nodes[x] = n]
<1>1. /\ t \in Trees /\ x \in DOMAIN t.nodes /\ n \in Node /\ \A y \in g.used : y \in DOMAIN t.nodes
  BY WholeIs DEF Whole, Fit
<1>2. Written(t, t2, x, n)
  BY <1>1, WriteIs
<1> HIDE DEF t2
<1>3. /\ t2 \in Trees /\ t2.root = t.root /\ t2.free = t.free /\ DOMAIN t2.nodes = DOMAIN t.nodes
      /\ t2.nodes[x] = n /\ \A y \in g.used : y # x => t2.nodes[y] = t.nodes[y]
      /\ \A y \in DOMAIN t.nodes \ g.used : t2.nodes[y] = t.nodes[y]
  BY <1>1, <1>2 DEF Written
<1>4. n.leaf = t.nodes[x].leaf /\ n.prev = t.nodes[x].prev /\ n.next = t.nodes[x].next
  BY DEF Alike
<1>5. \A y \in g.used : /\ t2.nodes[y].leaf = t.nodes[y].leaf /\ t2.nodes[y].prev = t.nodes[y].prev
                        /\ t2.nodes[y].next = t.nodes[y].next
  BY <1>3, <1>4
<1>6. Placed(t2, g)
  <2> SUFFICES ASSUME NEW y \in g.used
               PROVE  /\ y \in DOMAIN t2.nodes /\ Fit(t2.nodes[y]) /\ Len(t2.nodes[y].keys) >= 1
                      /\ t2.nodes[y].leaf <=> g.lev[y] = 0
                      /\ g.lo[y] < g.hi[y] /\ g.hi[y] <= Top
                      /\ \A k \in 1 .. Len(t2.nodes[y].keys) :
                           g.lo[y] < Num(t2.nodes[y].keys[k]) /\ Num(t2.nodes[y].keys[k]) <= g.hi[y]
    BY DEF Placed
  <2>1. /\ g.lo[y] < g.hi[y] /\ g.hi[y] <= Top /\ (t.nodes[y].leaf <=> g.lev[y] = 0)
        /\ Fit(t.nodes[y]) /\ Len(t.nodes[y].keys) >= 1
        /\ \A k \in 1 .. Len(t.nodes[y].keys) :
             g.lo[y] < Num(t.nodes[y].keys[k]) /\ Num(t.nodes[y].keys[k]) <= g.hi[y]
    BY DEF Whole, Placed
  <2>2. CASE y = x
    BY <2>1, <2>2, <1>1, <1>3, <1>5 DEF Covers
  <2>3. CASE y # x
    BY <2>1, <2>3, <1>1, <1>3
  <2> QED
    BY <2>2, <2>3
<1>7. Linked(t2, g)
  BY <1>5 DEF Whole, Linked
<1>8. \A y \in g.used : ~t.nodes[y].leaf => t2.nodes[y] = t.nodes[y]
  BY <1>3
<1>9. Family(t2, g)
  BY <1>5, <1>8 DEF Whole, Family
<1>10. Rooted(t2, g)
  <2>1. ASSUME NEW y \in g.used, y # t2.root
        PROVE  \E z \in g.used : \E j \in 1 .. Len(t2.nodes[z].keys) : IsChild(t2, z, j, y)
    <3>1. PICK z \in g.used : \E j \in 1 .. Len(t.nodes[z].keys) : IsChild(t, z, j, y)
      BY <2>1, <1>3, ParentOf
    <3>2. PICK j \in 1 .. Len(t.nodes[z].keys) : IsChild(t, z, j, y)
      BY <3>1
    <3>3. t2.nodes[z] = t.nodes[z]
      BY <3>2, <1>8 DEF IsChild
    <3> QED
      BY <3>2, <3>3 DEF IsChild
  <2>2. /\ t2.root \in g.used /\ g.lo[t2.root] = 0 /\ g.hi[t2.root] = Top
        /\ \A y \in g.used : g.lev[y] <= g.lev[t2.root]
    BY <1>3 DEF Whole, Rooted
  <2> QED
    BY <2>1, <2>2 DEF Rooted
<1>11. FreeChain(t2, g.used)
  <2>1. FreeChain(t, g.used)
    BY DEF Whole
  <2> QED
    BY <2>1, <1>3, FreeChainKept
<1>12. Whole(t2, g)
  BY <1>3, <1>6, <1>7, <1>9, <1>10, <1>11 DEF Whole
<1> QED
  BY <1>3, <1>12 DEF t2

-----------------------------------------------------------------------------
(* The key that leads to a node whose first key was removed. *)

Lower(g, c, nx, m) == [g EXCEPT !.lo = [g.lo EXCEPT ![nx] = m], !.hi = [g.hi EXCEPT ![c] = m]]

LEMMA LowerIs ==
    ASSUME NEW g \in Ghosts, NEW c \in g.used, NEW nx \in g.used, NEW m \in Nat
    PROVE  LET g2 == Lower(g, c, nx, m)
           IN  /\ g2 \in Ghosts /\ g2.used = g.used /\ g2.lev = g.lev
               /\ g2.hi[c] = m /\ g2.lo[nx] = m
               /\ \A y \in g.used : y # c => g2.hi[y] = g.hi[y]
               /\ \A y \in g.used : y # nx => g2.lo[y] = g.lo[y]
<1> DEFINE lo == [g.lo EXCEPT ![nx] = m]
           hi == [g.hi EXCEPT ![c] = m]
           g2 == Lower(g, c, nx, m)
<1>1. /\ g.used \subseteq Nat \ {0} /\ g.lev \in [Nat -> Nat] /\ g.lo \in [Nat -> Nat]
      /\ g.hi \in [Nat -> Nat] /\ c \in Nat /\ nx \in Nat
  BY DEF Ghosts
<1>2. lo \in [Nat -> Nat] /\ lo[nx] = m /\ \A y \in g.used : y # nx => lo[y] = g.lo[y]
  BY <1>1
<1>3. hi \in [Nat -> Nat] /\ hi[c] = m /\ \A y \in g.used : y # c => hi[y] = g.hi[y]
  BY <1>1
<1>4. g2 = [g EXCEPT !.lo = lo, !.hi = hi]
  BY DEF Lower
<1> HIDE DEF lo, hi, g2
<1>5. g2 \in Ghosts /\ g2.used = g.used /\ g2.lev = g.lev /\ g2.lo = lo /\ g2.hi = hi
  BY <1>1, <1>2, <1>3, <1>4 DEF Ghosts
<1> QED
  BY <1>2, <1>3, <1>5 DEF g2

\* A key of a node lowered, above the one that follows.
Lowered(n, r, i, key) ==
    /\ Fit(r) /\ Alike(r, n) /\ Len(r.keys) = Len(n.keys) /\ r.child = n.child
    /\ r.keys[i] = key /\ \A j \in 1 .. Len(n.keys) : j # i => r.keys[j] = n.keys[j]

LEMMA AdjustKeyNodeIs ==
    ASSUME NoNulls, NEW n, Fit(n), NEW i \in 1 .. Len(n.keys), NEW c, Fit(c), Len(c.keys) >= 1,
           Num(c.keys[1]) <= Num(n.keys[i]),
           \A j \in 1 .. Len(n.keys) : i < j => Num(n.keys[j]) < Num(c.keys[1])
    PROVE  Lowered(n, AdjustKeyNode(n, c, i), i, c.keys[1])
<1> DEFINE key  == c.keys[1]
           keys == [n.keys EXCEPT ![i] = key]
           m    == [n EXCEPT !.keys = keys]
<1>1. /\ n \in Node /\ Descending(n.keys) /\ Len(n.keys) \in Nat /\ n.nulls = 0 /\ n.keys \in Seq(AllKeys)
      /\ Len(c.keys) \in Nat /\ 1 \in 1 .. Len(c.keys) /\ GetKey(n, i) = n.keys[i] /\ n.keys[i] \in AllKeys
      /\ \A j \in 1 .. Len(n.keys) : Num(n.keys[j]) \in Nat
  <2>1. Len(c.keys) \in Nat
    BY FitIs
  <2>2. 1 \in 1 .. Len(c.keys)
    BY <2>1
  <2> QED
    BY <2>1, <2>2, FitIs
<1>2. GetKey(c, 1) = key /\ key \in AllKeys /\ Num(key) \in Nat
  BY <1>1, FitIs
<1> HIDE DEF key
<1>3. key[1] # Null /\ n.keys[i][1] # Null
  BY <1>1, <1>2, KeyParts DEF Null
<1>4. AdjustKeyNode(n, c, i) = SetKey(n, i, key)
  <2>1. [n EXCEPT !.nulls = n.nulls] = n
    BY <1>1 DEF Node
  <2> QED
    BY <2>1, <1>1, <1>2, <1>3 DEF AdjustKeyNode
<1>5. SetKey(n, i, key) = m /\ m \in Node
  <2>1. n \in Node /\ key \in AllKeys
    BY <1>1, <1>2
  <2>2. /\ SetKey(n, i, key) = [n EXCEPT !.keys = [n.keys EXCEPT ![i] = key]]
        /\ SetKey(n, i, key) \in Node
    BY <2>1, SetKeyIs
  <2> QED
    BY <2>2
<1>6. /\ keys \in Seq(AllKeys) /\ Len(keys) = Len(n.keys) /\ keys[i] = key
      /\ \A j \in 1 .. Len(n.keys) : j # i => keys[j] = n.keys[j]
  BY <1>1, <1>2, ExceptSeq
<1> HIDE DEF keys
<1>7. /\ m.leaf = n.leaf /\ m.keys = keys /\ m.child = n.child /\ m.prev = n.prev /\ m.next = n.next
  BY <1>1, <1>6 DEF Node
<1> HIDE DEF m
<1>8. ASSUME NEW a \in 1 .. Len(keys), NEW b \in 1 .. Len(keys), a < b
      PROVE  Num(keys[a]) > Num(keys[b])
  <2>1. Num(n.keys[a]) > Num(n.keys[b]) /\ Num(n.keys[a]) \in Nat /\ Num(n.keys[b]) \in Nat
    BY <1>1, <1>6, <1>8 DEF Descending
  <2>2. CASE a = i
    <3>1. keys[a] = key /\ keys[b] = n.keys[b] /\ Num(n.keys[b]) < Num(key)
      BY <2>2, <1>1, <1>6, <1>8 DEF key
    <3> QED
      BY <3>1, <2>1, <1>2
  <2>3. CASE b = i
    <3>1. keys[b] = key /\ keys[a] = n.keys[a] /\ Num(key) <= Num(n.keys[b])
      BY <2>3, <1>1, <1>6, <1>8 DEF key
    <3> QED
      BY <3>1, <2>1, <1>2
  <2>4. CASE a # i /\ b # i
    BY <2>1, <2>4, <1>6
  <2> QED
    BY <2>2, <2>3, <2>4
<1>9. Fit(m)
  <2>1. Descending(keys)
    BY <1>8 DEF Descending
  <2> QED
    BY <2>1, <1>5, <1>6, <1>7 DEF Fit
<1>10. Lowered(n, m, i, key)
  BY <1>6, <1>7, <1>9 DEF Lowered, Alike
<1> QED
  BY <1>4, <1>5, <1>10 DEF key

\* t2 is t with the key i of p, which leads to c, lowered to the first one of c.
AdjustUp(t, g, t2, g2, p, i, c) ==
    /\ Whole(t2, g2) /\ Tight(t2, g2, IF i = 1 THEN {p} ELSE {}) /\ t2.root = t.root
    /\ Lowered(t.nodes[p], t2.nodes[p], i, t.nodes[c].keys[1])
    /\ \A y \in g.used : y # p => t2.nodes[y] = t.nodes[y]
    /\ t.nodes[c].next \in g.used /\ g.lev[t.nodes[c].next] = g.lev[c]
    /\ Num(t.nodes[c].keys[1]) \in Nat
    /\ \A k : Holds(t2, g2, k) <=> Holds(t, g, k)

LEMMA AdjustWhole ==
    ASSUME NoNulls, NEW t, NEW g, Whole(t, g), NEW p \in g.used, NEW i, NEW c, IsChild(t, p, i, c),
           Tight(t, g, {c}), g.hi[c] # Top
    PROVE  AdjustUp(t, g, [t EXCEPT !.nodes[p] = AdjustKeyNode(t.nodes[p], t.nodes[c], i)],
                    Lower(g, c, t.nodes[c].next, Num(t.nodes[c].keys[1])), p, i, c)
<1> DEFINE n  == AdjustKeyNode(t.nodes[p], t.nodes[c], i)
           t2 == [t EXCEPT !.nodes[p] = n]
           nx == t.nodes[c].next
           m  == Num(t.nodes[c].keys[1])
           g2 == Lower(g, c, nx, m)
<1>1. /\ c \in g.used /\ g.lev[p] = g.lev[c] + 1 /\ c # t.root /\ c # p
      /\ i \in 1 .. Len(t.nodes[p].keys) /\ g.hi[c] = Num(t.nodes[p].keys[i])
      /\ ~t.nodes[p].leaf /\ t.nodes[p].child[i] = c
  BY ChildIs DEF IsChild
<1>2. /\ Fit(t.nodes[c]) /\ Fit(t.nodes[p]) /\ Len(t.nodes[c].keys) \in Nat \ {0}
      /\ Len(t.nodes[p].keys) \in Nat \ {0} /\ g.lev[c] \in Nat
      /\ g.lo[c] \in Nat /\ g.hi[c] \in Nat /\ g.lo[c] < g.hi[c] /\ g.hi[c] <= Top /\ Top \in Nat
      /\ g.lo[p] \in Nat /\ g.hi[p] \in Nat
  BY <1>1, WholeIs
<1>3. 1 \in 1 .. Len(t.nodes[c].keys)
  BY <1>2
<1>4. m \in Nat /\ g.lo[c] < m /\ m <= g.hi[c]
  BY <1>1, <1>3, WholeIs DEF Covers
<1>5. /\ nx \in g.used /\ t.nodes[nx].prev = c /\ g.lev[nx] = g.lev[c] /\ g.lo[nx] = g.hi[c] /\ nx # c
      /\ g.lo[nx] \in Nat /\ g.hi[nx] \in Nat /\ g.lo[nx] < g.hi[nx]
  <2>1. nx # NIL_NODE
    BY <1>1 DEF Whole, Linked
  <2>2. nx \in g.used /\ t.nodes[nx].prev = c
    BY <2>1, <1>1 DEF Whole, Linked
  <2>3. c # NIL_NODE
    <3>1. c \in Nat \ {0}
      BY <1>1, WholeIs
    <3> QED
      BY <3>1 DEF NIL_NODE
  <2> HIDE DEF nx
  <2>4. g.lev[nx] = g.lev[c] /\ g.lo[nx] = g.hi[c]
    BY <2>2, <2>3 DEF Whole, Linked
  <2>5. g.lo[nx] \in Nat /\ g.hi[nx] \in Nat /\ g.lo[nx] < g.hi[nx]
    BY <2>2, WholeIs
  <2>6. g.lo[nx] # g.lo[c]
    BY <2>4, <1>2
  <2> QED
    BY <2>2, <2>4, <2>5, <2>6
<1> HIDE DEF nx, m
<1>6. /\ g.lo[p] <= g.lo[c] /\ g.hi[c] <= g.hi[p]
  <2>1. \A y \in {c} : g.lev[y] # g.lev[p]
    BY <1>1, <1>2
  <2> QED
    BY <2>1, Inside
\* The other children of p that are below c are below its new first key.
<1>7. ASSUME NEW j \in 1 .. Len(t.nodes[p].keys), i < j PROVE Num(t.nodes[p].keys[j]) < m
  <2>1. i + 1 \in 1 .. Len(t.nodes[p].keys)
    BY <1>1, <1>2, <1>7
  <2> DEFINE y == t.nodes[p].child[i + 1]
  <2>2. IsChild(t, p, i + 1, y)
    BY <2>1, <1>1 DEF IsChild
  <2> HIDE DEF y
  <2>3. g.hi[y] = g.lo[c]
    BY <2>2, Siblings
  <2>4. g.hi[y] = Num(t.nodes[p].keys[i + 1])
    BY <2>2, ChildIs
  <2>5. /\ Num(t.nodes[p].keys[j]) \in Nat /\ Num(t.nodes[p].keys[i + 1]) \in Nat
        /\ Descending(t.nodes[p].keys)
    BY <2>1, <1>2, FitIs
  <2>6. i + 1 = j \/ i + 1 < j
    BY <1>1, <1>2, <1>7
  <2>7. i + 1 < j => Num(t.nodes[p].keys[i + 1]) > Num(t.nodes[p].keys[j])
    BY <2>1, <2>5 DEF Descending
  <2> QED
    BY <2>3, <2>4, <2>5, <2>6, <2>7, <1>2, <1>4
<1>8. Lowered(t.nodes[p], n, i, t.nodes[c].keys[1])
  <2>1. Len(t.nodes[c].keys) >= 1 /\ Num(t.nodes[c].keys[1]) <= Num(t.nodes[p].keys[i])
    BY <1>1, <1>2, <1>4 DEF m
  <2>2. \A j \in 1 .. Len(t.nodes[p].keys) : i < j => Num(t.nodes[p].keys[j]) < Num(t.nodes[c].keys[1])
    BY <1>7 DEF m
  <2> QED
    BY <2>1, <2>2, <1>1, <1>2, AdjustKeyNodeIs
<1> HIDE DEF n
<1>9. /\ t \in Trees /\ p \in DOMAIN t.nodes /\ n \in Node /\ \A y \in g.used : y \in DOMAIN t.nodes
  BY <1>8, WholeIs DEF Whole, Lowered, Fit
<1>10. Written(t, t2, p, n)
  BY <1>9, WriteIs
<1> HIDE DEF t2
<1>11. /\ t2 \in Trees /\ t2.root = t.root /\ t2.free = t.free /\ DOMAIN t2.nodes = DOMAIN t.nodes
       /\ t2.nodes[p] = n /\ \A y \in g.used : y # p => t2.nodes[y] = t.nodes[y]
       /\ \A y \in DOMAIN t.nodes \ g.used : t2.nodes[y] = t.nodes[y]
  BY <1>9, <1>10 DEF Written
<1>12. /\ g2 \in Ghosts /\ g2.used = g.used /\ g2.lev = g.lev
       /\ g2.hi[c] = m /\ g2.lo[nx] = m
       /\ \A y \in g.used : y # c => g2.hi[y] = g.hi[y]
       /\ \A y \in g.used : y # nx => g2.lo[y] = g.lo[y]
  BY <1>1, <1>4, <1>5, LowerIs, SMTT(30) DEF Whole
<1> HIDE DEF g2
<1>13. n.leaf = t.nodes[p].leaf /\ n.prev = t.nodes[p].prev /\ n.next = t.nodes[p].next
       /\ n.child = t.nodes[p].child /\ Len(n.keys) = Len(t.nodes[p].keys) /\ Fit(n)
       /\ n.keys[i] = t.nodes[c].keys[1]
       /\ \A j \in 1 .. Len(t.nodes[p].keys) : j # i => n.keys[j] = t.nodes[p].keys[j]
  BY <1>8 DEF Lowered, Alike
<1>14. \A y \in g.used : /\ t2.nodes[y].leaf = t.nodes[y].leaf /\ t2.nodes[y].prev = t.nodes[y].prev
                         /\ t2.nodes[y].next = t.nodes[y].next /\ t2.nodes[y].child = t.nodes[y].child
                         /\ Len(t2.nodes[y].keys) = Len(t.nodes[y].keys)
  BY <1>11, <1>13
<1>15. Placed(t2, g2)
  <2> SUFFICES ASSUME NEW y \in g2.used
               PROVE  /\ y \in DOMAIN t2.nodes /\ Fit(t2.nodes[y]) /\ Len(t2.nodes[y].keys) >= 1
                      /\ t2.nodes[y].leaf <=> g2.lev[y] = 0
                      /\ g2.lo[y] < g2.hi[y] /\ g2.hi[y] <= Top
                      /\ \A k \in 1 .. Len(t2.nodes[y].keys) :
                           g2.lo[y] < Num(t2.nodes[y].keys[k]) /\ Num(t2.nodes[y].keys[k]) <= g2.hi[y]
    BY DEF Placed
  <2>0. y \in g.used
    BY <1>12
  <2>1. /\ g.lo[y] < g.hi[y] /\ g.hi[y] <= Top /\ (t.nodes[y].leaf <=> g.lev[y] = 0)
        /\ Fit(t.nodes[y]) /\ Len(t.nodes[y].keys) \in Nat \ {0} /\ g.lo[y] \in Nat /\ g.hi[y] \in Nat
        /\ \A k \in 1 .. Len(t.nodes[y].keys) :
             Num(t.nodes[y].keys[k]) \in Nat /\ Covers(g, y, Num(t.nodes[y].keys[k]))
    BY <2>0, WholeIs
  <2>2. CASE y = p
    <3>1. p # c /\ p # nx
      BY <1>1, <1>2, <1>5
    <3>2. g2.lo[y] = g.lo[p] /\ g2.hi[y] = g.hi[p] /\ g2.lev[y] = g.lev[p] /\ t2.nodes[y] = n
      BY <3>1, <2>0, <2>2, <1>11, <1>12
    <3>3. ASSUME NEW k \in 1 .. Len(n.keys)
          PROVE  g.lo[p] < Num(n.keys[k]) /\ Num(n.keys[k]) <= g.hi[p]
      <4>1. CASE k = i
        <5>1. Num(n.keys[k]) = m
          BY <4>1, <1>13 DEF m
        <5> QED
          BY <5>1, <1>2, <1>4, <1>6
      <4>2. CASE k # i
        <5>1. n.keys[k] = t.nodes[p].keys[k] /\ k \in 1 .. Len(t.nodes[p].keys)
          BY <4>2, <1>13
        <5> QED
          BY <5>1, <2>1, <2>2 DEF Covers
      <4> QED
        BY <4>1, <4>2
    <3>4. Len(n.keys) >= 1 /\ Fit(n) /\ (n.leaf <=> g.lev[p] = 0)
      BY <2>1, <2>2, <1>13
    <3> QED
      BY <3>2, <3>3, <3>4, <2>0, <2>1, <2>2, <1>9, <1>11
  <2>3. CASE y # p
    <3>1. t2.nodes[y] = t.nodes[y] /\ y \in DOMAIN t2.nodes /\ g2.lev[y] = g.lev[y]
      BY <2>0, <2>3, <1>9, <1>11, <1>12
    <3>2. CASE y = c
      <4>1. g2.lo[y] = g.lo[c] /\ g2.hi[y] = m
        BY <3>2, <1>1, <1>5, <1>12
      <4>2. ASSUME NEW k \in 1 .. Len(t.nodes[c].keys)
            PROVE  g.lo[c] < Num(t.nodes[c].keys[k]) /\ Num(t.nodes[c].keys[k]) <= m
        <5>1. Num(t.nodes[c].keys[k]) <= Num(t.nodes[c].keys[1])
          BY <1>2, FirstIsBiggest
        <5> QED
          BY <5>1, <3>2, <2>1 DEF Covers, m
      <4> QED
        BY <3>1, <3>2, <4>1, <4>2, <2>1, <1>2, <1>4
    <3>3. CASE y = nx
      <4>1. g2.lo[y] = m /\ g2.hi[y] = g.hi[y] /\ m <= g.lo[y]
        BY <3>3, <1>4, <1>5, <1>12
      <4>2. ASSUME NEW k \in 1 .. Len(t.nodes[y].keys)
            PROVE  m < Num(t.nodes[y].keys[k]) /\ Num(t.nodes[y].keys[k]) <= g.hi[y]
        <5>1. /\ g.lo[y] < Num(t.nodes[y].keys[k]) /\ Num(t.nodes[y].keys[k]) <= g.hi[y]
              /\ Num(t.nodes[y].keys[k]) \in Nat
          BY <2>1 DEF Covers
        <5> QED
          BY <5>1, <4>1, <2>1, <1>4
      <4>3. m < g.hi[y]
        BY <4>1, <2>1, <1>4
      <4>4. Len(t.nodes[y].keys) >= 1
        BY <2>1
      <4> QED
        BY <3>1, <4>1, <4>2, <4>3, <4>4, <2>1
    <3>4. CASE y # c /\ y # nx
      <4>1. g2.lo[y] = g.lo[y] /\ g2.hi[y] = g.hi[y]
        BY <3>4, <2>0, <1>12
      <4>2. Len(t.nodes[y].keys) >= 1
        BY <2>1
      <4> QED
        BY <3>1, <4>1, <4>2, <2>1 DEF Covers
    <3> QED
      BY <3>2, <3>3, <3>4
  <2> QED
    BY <2>2, <2>3
<1>16. Linked(t2, g2)
  <2> SUFFICES ASSUME NEW y \in g.used
               PROVE  /\ t.nodes[y].prev = NIL_NODE => g2.lo[y] = 0
                      /\ t.nodes[y].prev # NIL_NODE =>
                           /\ t.nodes[y].prev \in g.used
                           /\ g.lev[t.nodes[y].prev] = g.lev[y]
                           /\ g2.hi[t.nodes[y].prev] = g2.lo[y]
                           /\ t.nodes[t.nodes[y].prev].next = y
                      /\ t.nodes[y].next = NIL_NODE => g2.hi[y] = Top
                      /\ t.nodes[y].next # NIL_NODE =>
                           t.nodes[y].next \in g.used /\ t.nodes[t.nodes[y].next].prev = y
    BY <1>12, <1>14 DEF Linked
  <2>1. /\ t.nodes[y].prev = NIL_NODE => g.lo[y] = 0
        /\ t.nodes[y].prev # NIL_NODE =>
             /\ t.nodes[y].prev \in g.used
             /\ g.lev[t.nodes[y].prev] = g.lev[y] /\ g.hi[t.nodes[y].prev] = g.lo[y]
             /\ t.nodes[t.nodes[y].prev].next = y
        /\ t.nodes[y].next = NIL_NODE => g.hi[y] = Top
        /\ t.nodes[y].next # NIL_NODE =>
             t.nodes[y].next \in g.used /\ t.nodes[t.nodes[y].next].prev = y
    BY DEF Whole, Linked
  <2>2. c # NIL_NODE
    <3>1. c \in Nat \ {0}
      BY <1>1, WholeIs
    <3> QED
      BY <3>1 DEF NIL_NODE
  <2>3. t.nodes[y].prev = NIL_NODE => g2.lo[y] = 0
    BY <2>1, <2>2, <1>5, <1>12
  <2>4. t.nodes[y].next = NIL_NODE => g2.hi[y] = Top
    <3>1. y = c => t.nodes[y].next = nx /\ nx # NIL_NODE
      <4>1. nx \in Nat \ {0}
        BY <1>5, WholeIs
      <4> QED
        BY <4>1 DEF nx, NIL_NODE
    <3> QED
      BY <3>1, <2>1, <1>12
  <2>5. ASSUME t.nodes[y].prev # NIL_NODE PROVE g2.hi[t.nodes[y].prev] = g2.lo[y]
    <3>1. CASE y = nx
      BY <3>1, <1>5, <1>12
    <3>2. CASE y # nx
      <4>1. t.nodes[y].prev # c
        BY <3>2, <2>1, <2>5 DEF nx
      <4> QED
        BY <4>1, <3>2, <2>1, <2>5, <1>12
    <3> QED
      BY <3>1, <3>2
  <2> QED
    BY <2>1, <2>3, <2>4, <2>5
<1>17. Apart(g2)
  <2>1. ASSUME NEW y \in g.used, y # c, y # nx, g.lev[y] = g.lev[c]
        PROVE  /\ g.hi[y] <= g.lo[c] \/ m <= g.lo[y]
               /\ g.hi[y] <= m \/ g.hi[nx] <= g.lo[y]
    <3>1. g.hi[y] <= g.lo[c] \/ g.hi[c] <= g.lo[y]
      BY <2>1, <1>1 DEF Whole, Apart
    <3>2. g.hi[y] <= g.lo[nx] \/ g.hi[nx] <= g.lo[y]
      BY <2>1, <1>5 DEF Whole, Apart
    <3>3. g.lo[y] \in Nat /\ g.hi[y] \in Nat /\ g.lo[y] < g.hi[y]
      BY WholeIs
    <3>4. g.lo[nx] = g.hi[c] /\ g.lo[nx] \in Nat /\ g.hi[nx] \in Nat
      BY <1>5
    <3> QED
      BY SMTT(30), <3>1, <3>2, <3>3, <3>4, <1>2, <1>4
  <2>2. ASSUME NEW y \in g.used, NEW z \in g.used, y # z, g.lev[y] = g.lev[z]
        PROVE  g2.hi[y] <= g2.lo[z] \/ g2.hi[z] <= g2.lo[y]
    <3>0. m <= m
      BY <1>4
    <3>1. CASE y = c /\ z = nx
      BY <3>0, <3>1, <1>12
    <3>2. CASE z = c /\ y = nx
      BY <3>0, <3>2, <1>12
    <3>3. CASE y = c /\ z # nx
      <4>1. g2.lo[y] = g.lo[c] /\ g2.hi[y] = m /\ g2.lo[z] = g.lo[z] /\ g2.hi[z] = g.hi[z]
        BY <3>3, <2>2, <1>5, <1>12
      <4> QED
        BY <4>1, <3>3, <2>1, <2>2
    <3>4. CASE z = c /\ y # nx
      <4>1. g2.lo[z] = g.lo[c] /\ g2.hi[z] = m /\ g2.lo[y] = g.lo[y] /\ g2.hi[y] = g.hi[y]
        BY <3>4, <2>2, <1>5, <1>12
      <4> QED
        BY <4>1, <3>4, <2>1, <2>2
    <3>5. CASE y = nx /\ z # c
      <4>1. g2.lo[y] = m /\ g2.hi[y] = g.hi[nx] /\ g2.lo[z] = g.lo[z] /\ g2.hi[z] = g.hi[z]
            /\ g.lev[z] = g.lev[c]
        BY <3>5, <2>2, <1>5, <1>12
      <4> QED
        BY <4>1, <3>5, <2>1, <2>2
    <3>6. CASE z = nx /\ y # c
      <4>1. g2.lo[z] = m /\ g2.hi[z] = g.hi[nx] /\ g2.lo[y] = g.lo[y] /\ g2.hi[y] = g.hi[y]
            /\ g.lev[y] = g.lev[c]
        BY <3>6, <2>2, <1>5, <1>12
      <4> QED
        BY <4>1, <3>6, <2>1, <2>2
    <3>7. CASE y # c /\ y # nx /\ z # c /\ z # nx
      <4>1. g2.lo[z] = g.lo[z] /\ g2.hi[z] = g.hi[z] /\ g2.lo[y] = g.lo[y] /\ g2.hi[y] = g.hi[y]
        BY <3>7, <1>12
      <4> QED
        BY <4>1, <2>2 DEF Whole, Apart
    <3> QED
      BY <3>1, <3>2, <3>3, <3>4, <3>5, <3>6, <3>7
  <2> QED
    BY <2>2, <1>12 DEF Apart
<1>18. Family(t2, g2)
  <2> SUFFICES ASSUME NEW y \in g.used, ~t.nodes[y].leaf, NEW j \in 1 .. Len(t.nodes[y].keys)
               PROVE  /\ t.nodes[y].child[j] \in g.used
                      /\ g.lev[t.nodes[y].child[j]] + 1 = g.lev[y]
                      /\ g2.hi[t.nodes[y].child[j]] = Num(t2.nodes[y].keys[j])
    BY <1>12, <1>14 DEF Family
  <2>1. /\ t.nodes[y].child[j] \in g.used /\ g.lev[t.nodes[y].child[j]] + 1 = g.lev[y]
        /\ g.hi[t.nodes[y].child[j]] = Num(t.nodes[y].keys[j])
    BY DEF Whole, Family
  <2>2. CASE y = p /\ j = i
    BY <2>1, <2>2, <1>1, <1>11, <1>12, <1>13 DEF m
  <2>3. CASE y # p \/ j # i
    <3>1. t.nodes[y].child[j] # c
      <4>1. SUFFICES ASSUME t.nodes[y].child[j] = c PROVE FALSE
        OBVIOUS
      <4>2. IsChild(t, y, j, c)
        BY <4>1 DEF IsChild
      <4> QED
        BY <4>2, <2>3, OnlyParent
    <3>2. t2.nodes[y].keys[j] = t.nodes[y].keys[j]
      BY <2>3, <1>11, <1>13
    <3> QED
      BY <3>1, <3>2, <2>1, <1>12
  <2> QED
    BY <2>2, <2>3
<1>19. Rooted(t2, g2)
  <2>1. /\ t.root \in g.used /\ g.lo[t.root] = 0 /\ g.hi[t.root] = Top
        /\ \A y \in g.used : g.lev[y] <= g.lev[t.root]
    BY DEF Whole, Rooted
  <2>2. t.root # nx
    BY <2>1, <1>2, <1>5
  <2>3. t2.root \in g2.used /\ g2.lo[t2.root] = 0 /\ g2.hi[t2.root] = Top
    BY <2>1, <2>2, <1>1, <1>11, <1>12
  <2>4. ASSUME NEW y \in g2.used PROVE g2.lev[y] <= g2.lev[t2.root]
    BY <2>1, <1>11, <1>12
  <2>5. ASSUME NEW y \in g2.used, y # t2.root
        PROVE  \E z \in g2.used : \E j \in 1 .. Len(t2.nodes[z].keys) : IsChild(t2, z, j, y)
    <3>1. PICK z \in g.used : \E j \in 1 .. Len(t.nodes[z].keys) : IsChild(t, z, j, y)
      BY <2>5, <1>11, <1>12, ParentOf
    <3> QED
      BY <3>1, <1>12, <1>14 DEF IsChild
  <2> QED
    BY <2>3, <2>4, <2>5 DEF Rooted
<1>20. FreeChain(t2, g2.used)
  <2>1. FreeChain(t, g.used)
    BY DEF Whole
  <2> QED
    BY <2>1, <1>11, <1>12, FreeChainKept
<1>21. Whole(t2, g2)
  BY <1>11, <1>12, <1>15, <1>16, <1>17, <1>18, <1>19, <1>20 DEF Whole
<1>22. Tight(t2, g2, IF i = 1 THEN {p} ELSE {})
  <2> SUFFICES ASSUME NEW y \in g.used, i = 1 => y # p
               PROVE  Num(t2.nodes[y].keys[1]) = g2.hi[y]
    BY <1>12 DEF Tight
  <2>1. CASE y = c
    BY <2>1, <1>1, <1>11, <1>12 DEF m
  <2>2. CASE y # c
    <3>1. Num(t.nodes[y].keys[1]) = g.hi[y] /\ g2.hi[y] = g.hi[y]
      BY <2>2, <1>12 DEF Tight
    <3>2. CASE y = p
      <4>1. 1 \in 1 .. Len(t.nodes[p].keys)
        BY <1>2
      <4> QED
        BY <4>1, <3>1, <3>2, <1>11, <1>13
    <3>3. CASE y # p
      BY <3>1, <3>3, <1>11
    <3> QED
      BY <3>2, <3>3
  <2> QED
    BY <2>1, <2>2
<1>23. ASSUME NEW k PROVE Holds(t2, g2, k) <=> Holds(t, g, k)
  <2>1. ASSUME NEW y \in g.used, t.nodes[y].leaf PROVE t2.nodes[y] = t.nodes[y]
    BY <2>1, <1>1, <1>11
  <2>2. ASSUME Holds(t, g, k) PROVE Holds(t2, g2, k)
    BY <2>1, <2>2, <1>12 DEF Holds
  <2>3. ASSUME Holds(t2, g2, k) PROVE Holds(t, g, k)
    BY <2>1, <2>3, <1>12, <1>14 DEF Holds
  <2> QED
    BY <2>2, <2>3
<1>24. Lowered(t.nodes[p], t2.nodes[p], i, t.nodes[c].keys[1])
  BY <1>8, <1>11
<1>25. \A y \in g.used : y # p => t2.nodes[y] = t.nodes[y]
  BY <1>11
<1> QED
  BY <1>4, <1>5, <1>11, <1>21, <1>22, <1>23, <1>24, <1>25 DEF AdjustUp, t2, g2, n, nx, m

-----------------------------------------------------------------------------
(* The root gives its place to its only child. *)

\* The level of the root is its own.
LEMMA RootAlone ==
    ASSUME NoNulls, NEW t, NEW g, Whole(t, g), NEW x \in g.used, g.lev[x] = g.lev[t.root]
    PROVE  x = t.root
<1>1. t.root \in g.used /\ g.lo[t.root] = 0 /\ g.hi[t.root] = Top
  BY DEF Whole, Rooted
<1>2. g.lo[x] \in Nat /\ g.hi[x] \in Nat /\ g.lo[x] < g.hi[x] /\ g.hi[x] <= Top /\ Top \in Nat
  BY WholeIs
<1>3. ~(g.hi[x] <= g.lo[t.root]) /\ ~(g.hi[t.root] <= g.lo[x])
  BY <1>1, <1>2
<1> QED
  BY <1>1, <1>3 DEF Whole, Apart

LEMMA CollapseWhole ==
    ASSUME NoNulls, NEW t, NEW g, Whole(t, g), Tight(t, g, {}), ~t.nodes[t.root].leaf,
           t.nodes[t.root].child[Len(t.nodes[t.root].keys)] = t.nodes[t.root].child[1]
    PROVE  LET c  == t.nodes[t.root].child[1]
               t2 == FreeNode([t EXCEPT !.root = c], t.root)
               g2 == [g EXCEPT !.used = g.used \ {t.root}]
           IN  /\ Whole(t2, g2) /\ Tight(t2, g2, {}) /\ t2.root = c
               /\ c \in g.used /\ c # t.root /\ Len(t.nodes[t.root].keys) = 1
               /\ \A y \in g.used : y # t.root => t2.nodes[y] = t.nodes[y]
               /\ \A k : Holds(t2, g2, k) <=> Holds(t, g, k)
<1> DEFINE root == t.root
           c    == t.nodes[root].child[1]
           t1   == [t EXCEPT !.root = c]
           t2   == FreeNode(t1, root)
           g2   == [g EXCEPT !.used = g.used \ {root}]
<1>1. /\ root \in g.used /\ g.lo[root] = 0 /\ g.hi[root] = Top
      /\ \A y \in g.used : g.lev[y] <= g.lev[root]
  BY DEF Whole, Rooted
<1>2. /\ Len(t.nodes[root].keys) \in Nat \ {0} /\ g.lev[root] \in Nat /\ Fit(t.nodes[root])
  BY <1>1, WholeIs
<1>3. IsChild(t, root, 1, c) /\ 1 \in 1 .. Len(t.nodes[root].keys)
  <2>1. 1 \in 1 .. Len(t.nodes[root].keys)
    BY <1>2
  <2> QED
    BY <2>1 DEF IsChild
<1>4. Len(t.nodes[root].keys) = 1
  <2>1. Len(t.nodes[root].keys) \in 1 .. Len(t.nodes[root].keys)
    BY <1>2
  <2>2. IsChild(t, root, Len(t.nodes[root].keys), c)
    BY <2>1 DEF IsChild
  <2> HIDE DEF c, root
  <2> QED
    BY <2>2, <1>1, <1>3, OnlyParent
<1> HIDE DEF c
<1>5. /\ c \in g.used /\ g.lev[root] = g.lev[c] + 1 /\ c # root /\ g.hi[c] = Num(t.nodes[root].keys[1])
      /\ Covers(g, root, g.hi[c])
  BY <1>1, <1>3, ChildIs
<1>6. /\ c \in Nat /\ g.lev[c] \in Nat /\ g.lo[c] \in Nat /\ g.hi[c] \in Nat /\ g.lo[c] < g.hi[c]
      /\ g.hi[c] <= Top /\ Top \in Nat
  BY <1>5, WholeIs
<1>7. g.hi[c] = Top
  BY <1>1, <1>5 DEF Tight
<1>8. /\ t \in Trees /\ g \in Ghosts /\ g.used \subseteq DOMAIN t.nodes /\ FreeChain(t, g.used)
  <2>1. \A y \in g.used : y \in DOMAIN t.nodes
    BY WholeIs
  <2> QED
    BY <2>1 DEF Whole
<1>9. t1 \in Trees /\ t1.root = c /\ t1.nodes = t.nodes /\ t1.free = t.free
  BY <1>6, <1>8 DEF Trees
<1> HIDE DEF t1
<1>10. FreeChain(t1, g.used)
  BY <1>8, <1>9, FreeChainKept
<1>11. /\ t2 \in Trees /\ t2.root = c /\ DOMAIN t2.nodes = DOMAIN t.nodes
       /\ \A y \in DOMAIN t.nodes : y # root => t2.nodes[y] = t.nodes[y]
       /\ FreeChain(t2, g.used \ {root})
  <2>1. g.used \subseteq DOMAIN t1.nodes
    BY <1>8, <1>9
  <2> HIDE DEF root
  <2>2. /\ t2 \in Trees /\ t2.root = t1.root /\ DOMAIN t2.nodes = DOMAIN t1.nodes
        /\ \A y \in DOMAIN t1.nodes : y # root => t2.nodes[y] = t1.nodes[y]
        /\ FreeChain(t2, g.used \ {root})
    BY <2>1, <1>1, <1>9, <1>10, FreeIs
  <2> QED
    BY <2>2, <1>9
<1> HIDE DEF t2
<1>12. /\ g2 \in Ghosts /\ g2.used = g.used \ {root} /\ g2.lev = g.lev /\ g2.lo = g.lo /\ g2.hi = g.hi
  BY <1>8 DEF Ghosts
<1> HIDE DEF g2
<1>13. \A y \in g2.used : y \in g.used /\ y # root /\ t2.nodes[y] = t.nodes[y] /\ y \in DOMAIN t2.nodes
  BY <1>8, <1>11, <1>12
<1>14. ASSUME NEW y \in g.used, g.lev[y] = g.lev[root] PROVE y = root
  BY <1>14, RootAlone
<1>15. g.lo[c] = 0
  <2> DEFINE q == t.nodes[c].prev
  <2>1. SUFFICES ASSUME q # NIL_NODE PROVE FALSE
    BY <1>5 DEF Whole, Linked
  <2>2. q \in g.used /\ g.lev[q] = g.lev[c] /\ g.hi[q] = g.lo[c]
    BY <2>1, <1>5 DEF Whole, Linked
  <2> HIDE DEF q
  <2>3. g.lo[q] \in Nat /\ g.hi[q] \in Nat /\ g.lo[q] < g.hi[q] /\ g.hi[q] <= Top
    BY <2>2, WholeIs
  <2>4. Covers(g, root, g.hi[q])
    BY <2>3, <1>1 DEF Covers
  <2>5. PICK j \in 1 .. Len(t.nodes[root].keys) : IsChild(t, root, j, q)
    BY <2>2, <2>4, <1>1, <1>5, HeirOf
  <2>6. j = 1
    <3>1. j \in 1 .. 1
      BY <1>4
    <3> QED
      BY <3>1
  <2>7. q = c
    BY <2>5, <2>6, <1>3 DEF IsChild
  <2> QED
    BY <2>2, <2>7, <1>6
<1>16. Placed(t2, g2)
  BY <1>12, <1>13 DEF Whole, Placed
<1>17. Linked(t2, g2)
  <2> SUFFICES ASSUME NEW y \in g2.used
               PROVE  /\ t2.nodes[y].prev = NIL_NODE => g2.lo[y] = 0
                      /\ t2.nodes[y].prev # NIL_NODE =>
                           /\ t2.nodes[y].prev \in g2.used
                           /\ g2.lev[t2.nodes[y].prev] = g2.lev[y]
                           /\ g2.hi[t2.nodes[y].prev] = g2.lo[y]
                           /\ t2.nodes[t2.nodes[y].prev].next = y
                      /\ t2.nodes[y].next = NIL_NODE => g2.hi[y] = Top
                      /\ t2.nodes[y].next # NIL_NODE =>
                           t2.nodes[y].next \in g2.used /\ t2.nodes[t2.nodes[y].next].prev = y
    BY DEF Linked
  <2>1. /\ t.nodes[y].prev = NIL_NODE => g.lo[y] = 0
        /\ t.nodes[y].prev # NIL_NODE =>
             /\ t.nodes[y].prev \in g.used
             /\ g.lev[t.nodes[y].prev] = g.lev[y] /\ g.hi[t.nodes[y].prev] = g.lo[y]
             /\ t.nodes[t.nodes[y].prev].next = y
        /\ t.nodes[y].next = NIL_NODE => g.hi[y] = Top
        /\ t.nodes[y].next # NIL_NODE =>
             t.nodes[y].next \in g.used /\ t.nodes[t.nodes[y].next].prev = y
    BY <1>13 DEF Whole, Linked
  <2>2. y \in g.used /\ y # root /\ t2.nodes[y] = t.nodes[y] /\ y # NIL_NODE
    <3>1. y \in Nat \ {0}
      BY <1>13, WholeIs
    <3> QED
      BY <3>1, <1>13 DEF NIL_NODE
  <2>3. t.nodes[y].prev # root
    BY <2>1, <2>2, <1>14, <1>1, WholeIs DEF NIL_NODE
  <2>4. t.nodes[y].next # root
    <3>1. SUFFICES ASSUME t.nodes[y].next = root PROVE FALSE
      OBVIOUS
    <3>2. root # NIL_NODE
      BY <1>1, WholeIs DEF NIL_NODE
    <3>3. t.nodes[root].prev = y
      BY <3>1, <3>2, <2>1
    <3>4. g.lev[y] = g.lev[root]
      BY <3>3, <2>2, <1>1 DEF Whole, Linked
    <3> QED
      BY <3>4, <2>2, <1>14
  <2> QED
    BY <2>1, <2>2, <2>3, <2>4, <1>12, <1>13
<1>18. Apart(g2)
  BY <1>12 DEF Whole, Apart
<1>19. Family(t2, g2)
  <2> SUFFICES ASSUME NEW y \in g2.used, ~t2.nodes[y].leaf, NEW j \in 1 .. Len(t2.nodes[y].keys)
               PROVE  /\ t2.nodes[y].child[j] \in g2.used
                      /\ g2.lev[t2.nodes[y].child[j]] + 1 = g2.lev[y]
                      /\ g2.hi[t2.nodes[y].child[j]] = Num(t2.nodes[y].keys[j])
    BY DEF Family
  <2>1. y \in g.used /\ t2.nodes[y] = t.nodes[y]
    BY <1>13
  <2>2. /\ t.nodes[y].child[j] \in g.used /\ g.lev[t.nodes[y].child[j]] + 1 = g.lev[y]
        /\ g.hi[t.nodes[y].child[j]] = Num(t.nodes[y].keys[j])
    BY <2>1 DEF Whole, Family
  <2>3. t.nodes[y].child[j] # root
    <3>1. IsChild(t, y, j, t.nodes[y].child[j])
      BY <2>1 DEF IsChild
    <3> QED
      BY <3>1, <2>1, ChildIs
  <2> QED
    BY <2>1, <2>2, <2>3, <1>12
<1>20. Rooted(t2, g2)
  <2>1. t2.root \in g2.used /\ g2.lo[t2.root] = 0 /\ g2.hi[t2.root] = Top
    BY <1>5, <1>7, <1>11, <1>12, <1>15
  <2>2. ASSUME NEW y \in g2.used PROVE g2.lev[y] <= g2.lev[t2.root]
    <3>1. y \in g.used /\ g.lev[y] # g.lev[root] /\ g.lev[y] <= g.lev[root]
      BY <1>1, <1>13, <1>14
    <3>2. g.lev[y] \in Nat
      BY <3>1, WholeIs
    <3>3. g.lev[y] <= g.lev[c]
      BY <3>1, <3>2, <1>5, <1>6
    <3> QED
      BY <3>3, <1>11, <1>12
  <2>3. ASSUME NEW y \in g2.used, y # t2.root
        PROVE  \E z \in g2.used : \E j \in 1 .. Len(t2.nodes[z].keys) : IsChild(t2, z, j, y)
    <3>1. y \in g.used /\ y # root /\ y # c
      BY <2>3, <1>11, <1>13
    <3>2. PICK z \in g.used : \E j \in 1 .. Len(t.nodes[z].keys) : IsChild(t, z, j, y)
      BY <3>1, ParentOf
    <3>3. PICK j \in 1 .. Len(t.nodes[z].keys) : IsChild(t, z, j, y)
      BY <3>2
    <3>4. z # root
      <4>1. SUFFICES ASSUME z = root PROVE FALSE
        OBVIOUS
      <4>2. j \in 1 .. 1
        BY <4>1, <1>4
      <4>3. j = 1
        BY <4>2
      <4> QED
        BY <4>1, <4>3, <3>1, <3>3, <1>3 DEF IsChild
    <3>5. z \in g2.used /\ t2.nodes[z] = t.nodes[z]
      BY <3>4, <1>12, <1>13
    <3> QED
      BY <3>3, <3>5 DEF IsChild
  <2> QED
    BY <2>1, <2>2, <2>3 DEF Rooted
<1>21. Whole(t2, g2)
  BY <1>11, <1>12, <1>16, <1>17, <1>18, <1>19, <1>20 DEF Whole
<1>22. Tight(t2, g2, {})
  BY <1>12, <1>13 DEF Tight
<1>23. ASSUME NEW k PROVE Holds(t2, g2, k) <=> Holds(t, g, k)
  <2>1. ASSUME Holds(t, g, k) PROVE Holds(t2, g2, k)
    <3>1. PICK y \in g.used : t.nodes[y].leaf /\ \E j \in 1 .. Len(t.nodes[y].keys) : t.nodes[y].keys[j] = k
      BY <2>1 DEF Holds
    <3>2. y \in g2.used
      BY <3>1, <1>12
    <3> QED
      BY <3>1, <3>2, <1>13 DEF Holds
  <2>2. ASSUME Holds(t2, g2, k) PROVE Holds(t, g, k)
    BY <2>2, <1>13 DEF Holds
  <2> QED
    BY <2>1, <2>2
<1>24. \A y \in g.used : y # root => t2.nodes[y] = t.nodes[y]
  BY <1>8, <1>11
<1> QED
  BY <1>4, <1>5, <1>11, <1>21, <1>22, <1>23, <1>24 DEF t2, t1, g2, c

-----------------------------------------------------------------------------
(* Numbers of keys. *)

LEMMA ThirdsIs ==
    ASSUME NEW k \in Nat, k >= 9
    PROVE  /\ (2 * k) \div 3 - 1 \in Nat /\ k \div 3 - 1 \in Nat /\ k \div 3 - 1 >= 2
           /\ (2 * k) \div 3 - 1 >= 2 * (k \div 3 - 1) + 1 /\ (2 * k) \div 3 - 1 <= k - 1
           /\ k >= 12 => k \div 3 - 1 >= 3
  OBVIOUS

LEMMA SizesIs ==
    ASSUME NoNulls, NEW n, Fit(n)
    PROVE  /\ Full(n) \in Nat /\ Poor(n) \in Nat /\ Poor(n) >= 2 /\ (~n.leaf => Poor(n) >= 3)
           /\ Full(n) >= 2 * Poor(n) + 1 /\ Full(n) <= KeysPerNode(n) - 1 /\ KeysPerNode(n) \in Nat
           /\ NeedsSpliting(n) <=> Len(n.keys) >= Full(n)
           /\ NeedsJoining(n) <=> Len(n.keys) < Poor(n)
<1>1. LeafKeys \in Nat /\ LeafKeys >= 9 /\ InnerKeys \in Nat /\ InnerKeys >= 12 /\ InnerKeys >= 9
  BY BTreeAssumption
<1>2. KeysCount(n) = Len(n.keys) /\ n.leaf \in BOOLEAN
  BY FitIs
<1>3. /\ NeedsSpliting(n) <=> Len(n.keys) >= Full(n)
      /\ NeedsJoining(n) <=> Len(n.keys) < Poor(n)
  BY <1>2 DEF NeedsSpliting, NeedsJoining, Full, Poor
<1>4. CASE n.leaf
  <2>1. KeysPerNode(n) = LeafKeys
    BY <1>4 DEF KeysPerNode
  <2>2. Full(n) = (2 * LeafKeys) \div 3 - 1 /\ Poor(n) = LeafKeys \div 3 - 1
    BY <2>1 DEF Full, Poor
  <2>3. /\ Full(n) \in Nat /\ Poor(n) \in Nat /\ Poor(n) >= 2
        /\ Full(n) >= 2 * Poor(n) + 1 /\ Full(n) <= LeafKeys - 1
    BY <2>2, <1>1, ThirdsIs
  <2> QED
    BY <2>1, <2>3, <1>1, <1>3, <1>4
<1>5. CASE ~n.leaf
  <2>1. KeysPerNode(n) = InnerKeys
    BY <1>5 DEF KeysPerNode
  <2>2. Full(n) = (2 * InnerKeys) \div 3 - 1 /\ Poor(n) = InnerKeys \div 3 - 1
    BY <2>1 DEF Full, Poor
  <2>3. /\ Full(n) \in Nat /\ Poor(n) \in Nat /\ Poor(n) >= 2 /\ Poor(n) >= 3
        /\ Full(n) >= 2 * Poor(n) + 1 /\ Full(n) <= InnerKeys - 1
    BY <2>2, <1>1, ThirdsIs
  <2> QED
    BY <2>1, <2>3, <1>1, <1>3, <1>5
<1> QED
  BY <1>2, <1>4, <1>5

\* Nodes of one kind have the same limits.
LEMMA SameSizes ==
    ASSUME NEW n, NEW m, n.leaf = m.leaf
    PROVE  Full(n) = Full(m) /\ Poor(n) = Poor(m)
  BY DEF Full, Poor, KeysPerNode

\* The halves of a node with more keys than it may keep.
LEMMA HalvesFit ==
    ASSUME NEW F \in Nat, NEW P \in Nat, P >= 2, F >= 2 * P + 1,
           NEW n \in Nat, n >= F, n <= F + P
    PROVE  /\ n \div 2 \in Nat /\ n - (n \div 2) \in Nat /\ n >= 2
           /\ n \div 2 >= P /\ n - (n \div 2) >= P
           /\ n \div 2 < F /\ n - (n \div 2) < F
<1> DEFINE h == n \div 2
<1>1. h \in Nat /\ 2 * h <= n /\ n <= 2 * h + 1
  OBVIOUS
<1> HIDE DEF h
<1>2. h >= P /\ n - h >= P /\ h < F /\ n - h < F /\ n - h \in Nat /\ n >= 2
  BY <1>1
<1> QED
  BY <1>1, <1>2 DEF h

-----------------------------------------------------------------------------
(* The contents of the leaves, and the search for a key in them. *)

LEMMA ContentsIs ==
    ASSUME NoNulls, NEW t, NEW g, Whole(t, g), NEW k
    PROVE  /\ k \in LeafContents(t) <=> k # SentinelKey /\ Holds(t, g, k)
           /\ k \in LeafContents(t) => k \in Keys
<1>1. t \in Trees /\ FreeChain(t, g.used) /\ g.used \subseteq DOMAIN t.nodes
  BY WholeIs DEF Whole
<1>2. PICK n, fl : FreeList(t, g.used, n, fl)
  BY <1>1 DEF FreeChain
<1>3. \A y \in DOMAIN t.nodes : t.nodes[y].leaf => y \in g.used
  <2> SUFFICES ASSUME NEW y \in DOMAIN t.nodes, t.nodes[y].leaf, y \notin g.used PROVE FALSE
    OBVIOUS
  <2>1. PICK i \in 1 .. n : y = fl[i]
    BY <1>2 DEF FreeList
  <2>2. t.nodes[y] = [NewNode EXCEPT !.next = fl[i - 1]]
    BY <1>2, <2>1 DEF FreeList
  <2> QED
    BY <2>2 DEF NewNode
<1>4. \A y \in DOMAIN t.nodes : GetKeys(t.nodes[y]) = t.nodes[y].keys
                             /\ DOMAIN t.nodes[y].keys = 1 .. Len(t.nodes[y].keys)
                             /\ \A i \in 1 .. Len(t.nodes[y].keys) : t.nodes[y].keys[i] \in AllKeys
  BY <1>1, TreeParts, NodeIs
<1>5. ToSet(t.nodes) = {t.nodes[y] : y \in DOMAIN t.nodes}
  BY DEF ToSet
<1>6. Holds(t, g, k) => k \in AllKeys
  BY <1>1, <1>4 DEF Holds
<1>7. k \in UNION {ToSet(GetKeys(n2)) : n2 \in {m \in ToSet(t.nodes) : m.leaf}} <=> Holds(t, g, k)
  <2>1. ASSUME Holds(t, g, k) PROVE k \in UNION {ToSet(GetKeys(n2)) : n2 \in {m \in ToSet(t.nodes) : m.leaf}}
    <3>1. PICK y \in g.used : t.nodes[y].leaf /\ \E i \in 1 .. Len(t.nodes[y].keys) : t.nodes[y].keys[i] = k
      BY <2>1 DEF Holds
    <3>2. y \in DOMAIN t.nodes /\ t.nodes[y] \in {m \in ToSet(t.nodes) : m.leaf}
      BY <3>1, <1>1, <1>5
    <3>3. k \in ToSet(GetKeys(t.nodes[y]))
      BY <3>1, <3>2, <1>4 DEF ToSet
    <3> QED
      BY <3>2, <3>3
  <2>2. ASSUME k \in UNION {ToSet(GetKeys(n2)) : n2 \in {m \in ToSet(t.nodes) : m.leaf}} PROVE Holds(t, g, k)
    <3>1. PICK n2 \in {m \in ToSet(t.nodes) : m.leaf} : k \in ToSet(GetKeys(n2))
      BY <2>2
    <3>2. PICK y \in DOMAIN t.nodes : n2 = t.nodes[y]
      BY <1>5
    <3>3. t.nodes[y].leaf /\ k \in ToSet(t.nodes[y].keys)
      BY <3>1, <3>2, <1>4
    <3>4. \E i \in 1 .. Len(t.nodes[y].keys) : t.nodes[y].keys[i] = k
      BY <3>2, <3>3, <1>4 DEF ToSet
    <3> QED
      BY <3>2, <3>3, <3>4, <1>3 DEF Holds
  <2> QED
    BY <2>1, <2>2
<1>8. k \in LeafContents(t) <=> k # SentinelKey /\ Holds(t, g, k)
  <2> DEFINE U == UNION {ToSet(GetKeys(n2)) : n2 \in {m \in ToSet(t.nodes) : m.leaf}}
  <2>1. LeafContents(t) = U \ {SentinelKey}
    BY DEF LeafContents
  <2>2. k \in U <=> Holds(t, g, k)
    BY <1>7
  <2> HIDE DEF U
  <2> QED
    BY <2>1, <2>2
<1>9. k \in AllKeys /\ k # SentinelKey => k \in Keys
  BY DEF AllKeys
<1> QED
  BY <1>6, <1>8, <1>9

\* Where the first key is that of the interval the search for a covered key finds one.
LEMMA FoundIn ==
    ASSUME NoNulls, NEW t, NEW g, Whole(t, g), NEW x \in g.used, Num(t.nodes[x].keys[1]) = g.hi[x],
           NEW key \in AllKeys, Covers(g, x, Num(key))
    PROVE  /\ Found(t.nodes[x].keys, Num(key), FindBiggerOrEqual(t.nodes[x], key))
           /\ FindBiggerOrEqual(t.nodes[x], key) \in 1 .. Len(t.nodes[x].keys)
<1>1. t.nodes[x] \in Node /\ Len(t.nodes[x].keys) \in Nat \ {0} /\ Fit(t.nodes[x])
  BY WholeIs
<1>2. Descending(t.nodes[x].keys)
  BY <1>1 DEF Fit
<1>3. Found(t.nodes[x].keys, Num(key), FindBiggerOrEqual(t.nodes[x], key))
  BY <1>1, <1>2, SearchIs
<1> DEFINE f == FindBiggerOrEqual(t.nodes[x], key)
<1> HIDE DEF f
<1>4. f \in 0 .. Len(t.nodes[x].keys) /\ (f = 0 => Num(t.nodes[x].keys[1]) < Num(key))
  <2>1. Found(t.nodes[x].keys, Num(key), f)
    BY <1>3 DEF f
  <2>2. f = 0 => 1 \in f + 1 .. Len(t.nodes[x].keys)
    BY <1>1
  <2> QED
    BY <2>1, <2>2 DEF Found
<1>5. Num(key) <= g.hi[x] /\ Num(key) \in Nat /\ g.hi[x] \in Nat
  BY WholeIs, NumIs DEF Covers
<1>6. f # 0
  BY <1>4, <1>5
<1> QED
  BY <1>1, <1>3, <1>4, <1>6 DEF f

\* A search finds the very key when the node has it.
LEMMA FoundExact ==
    ASSUME NoNulls, NEW n, Fit(n), NEW j \in 1 .. Len(n.keys), NEW f, Found(n.keys, Num(n.keys[j]), f)
    PROVE  f = j
<1>1. Len(n.keys) \in Nat /\ Num(n.keys[j]) \in Nat /\ Descending(n.keys) /\ f \in 0 .. Len(n.keys)
  BY FitIs DEF Found
<1>2. ~(j \in f + 1 .. Len(n.keys))
  BY <1>1 DEF Found
<1>3. j <= f
  BY <1>1, <1>2
<1>4. f \in 1 .. Len(n.keys) /\ f \in 1 .. f /\ Num(n.keys[f]) \in Nat
  BY <1>1, <1>3, FitIs
<1>5. Num(n.keys[f]) >= Num(n.keys[j])
  BY <1>4 DEF Found
<1>6. ~(j < f)
  BY <1>1, <1>4, <1>5 DEF Descending
<1> QED
  BY <1>1, <1>3, <1>6

\* The step of a search from a node to the one below it on the way to a key.
LEMMA Below ==
    ASSUME NoNulls, NEW t, NEW g, Whole(t, g), NEW p \in g.used, Num(t.nodes[p].keys[1]) = g.hi[p],
           ~t.nodes[p].leaf, NEW key \in AllKeys, Covers(g, p, Num(key))
    PROVE  LET f == FindBiggerOrEqual(t.nodes[p], key)
               c == t.nodes[p].child[f]
           IN  /\ IsChild(t, p, f, c) /\ c \in g.used /\ g.lev[p] = g.lev[c] + 1 /\ Covers(g, c, Num(key))
               /\ \A y \in g.used : g.lev[p] = g.lev[y] + 1 /\ Covers(g, y, Num(key)) => y = c
<1> DEFINE f == FindBiggerOrEqual(t.nodes[p], key)
<1> DEFINE c == t.nodes[p].child[f]
<1>1. Found(t.nodes[p].keys, Num(key), f) /\ f \in 1 .. Len(t.nodes[p].keys)
  BY FoundIn
<1>2. Num(key) \in Nat /\ Len(t.nodes[p].keys) \in Nat
  BY NumIs, WholeIs
<1> HIDE DEF f
<1>3. IsChild(t, p, f, c) /\ Covers(g, c, Num(key))
  BY <1>1, <1>2, Descend
<1>4. c \in g.used /\ g.lev[p] = g.lev[c] + 1
  BY <1>3, ChildIs
<1> HIDE DEF c
<1>5. ASSUME NEW y \in g.used, g.lev[p] = g.lev[y] + 1, Covers(g, y, Num(key)) PROVE y = c
  <2>1. g.lev[y] \in Nat /\ g.lev[c] \in Nat
    BY <1>4, WholeIs
  <2>2. g.lev[y] = g.lev[c]
    BY <2>1, <1>4, <1>5
  <2> QED
    BY <2>2, <1>2, <1>3, <1>4, <1>5, SameNode
<1> QED
  BY <1>3, <1>4, <1>5 DEF c, f

-----------------------------------------------------------------------------
(* A split and what it does to the numbers of keys. *)

\* The nodes of the level of p and above keep their places.
Kept(g, g2, p) ==
    \A y \in g.used : g.lev[y] >= g.lev[p] =>
        y \in g2.used /\ g2.lev[y] = g.lev[y] /\ g2.lo[y] = g.lo[y] /\ g2.hi[y] = g.hi[y]

\* The numbers of keys, where x is yet to be split.
SizedBut(t, g, x) ==
    \A y \in g.used \ {x} :
        /\ Len(t.nodes[y].keys) <= Full(t.nodes[y])
        /\ y # t.root => Len(t.nodes[y].keys) >= Poor(t.nodes[y]) - 1

LEMMA SplitStep ==
    ASSUME NoNulls, NEW t, NEW g, Whole(t, g), Tight(t, g, {}),
           NEW p \in g.used, NEW i, NEW x, IsChild(t, p, i, x), SizedBut(t, g, x),
           Len(t.nodes[x].keys) >= Full(t.nodes[x]),
           Len(t.nodes[x].keys) <= Full(t.nodes[x]) + Poor(t.nodes[x]),
           Len(t.nodes[p].keys) < Full(t.nodes[p])
    PROVE  LET t2 == SplitNode(t, p, x)
           IN  /\ t2.root = t.root /\ Len(t2.nodes[p].keys) = Len(t.nodes[p].keys) + 1
               /\ \A y \in g.used \ {x} : t2.nodes[y].leaf = t.nodes[y].leaf
                                       /\ Len(t2.nodes[y].keys) >= Len(t.nodes[y].keys)
               /\ \E g2 : /\ Whole(t2, g2) /\ Tight(t2, g2, {}) /\ Sized(t2, g2) /\ Kept(g, g2, p)
                          /\ \A k : Holds(t2, g2, k) <=> Holds(t, g, k)
                          /\ \A c \in g2.used, k \in Nat :
                               g2.lev[c] = g.lev[x] /\ Covers(g, x, k) /\ Covers(g2, c, k) =>
                                 /\ Len(t2.nodes[c].keys) < Full(t2.nodes[c])
                                 /\ Len(t2.nodes[c].keys) >= Poor(t2.nodes[c])
<1> DEFINE new == AllocatedId(t)
           t2 == SplitNode(t, p, x)
           n  == Len(t.nodes[x].keys)
           s  == n \div 2
<1>1. /\ x \in g.used /\ g.lev[p] = g.lev[x] + 1 /\ x # t.root /\ x # p
      /\ g.lev[x] \in Nat
  <2>1. x \in g.used /\ g.lev[p] = g.lev[x] + 1 /\ x # t.root /\ x # p
    BY ChildIs
  <2> QED
    BY <2>1, WholeIs
<1>2. /\ Fit(t.nodes[x]) /\ n \in Nat /\ Fit(t.nodes[p])
      /\ Len(t.nodes[p].keys) \in Nat
  BY <1>1, WholeIs
<1> DEFINE F == Full(t.nodes[x])
           P == Poor(t.nodes[x])
<1>3. F \in Nat /\ P \in Nat /\ P >= 2 /\ F >= 2 * P + 1
  BY <1>2, SizesIs
<1>4. n >= F /\ n <= F + P
  OBVIOUS
<1> HIDE DEF F, P, n
<1>5. s \in Nat /\ n - s \in Nat /\ n >= 2 /\ s >= P /\ n - s >= P /\ s < F /\ n - s < F
  BY <1>2, <1>3, <1>4, HalvesFit
<1>6. SplitUp(t, g, t2, p, x, new)
  <2>1. x \notin {} /\ Len(t.nodes[x].keys) >= 2
    BY <1>5 DEF n
  <2> HIDE DEF t2, new
  <2> QED
    BY <2>1, SplitNodeIs DEF t2, new
<1> HIDE DEF t2, new
<1>7. /\ t2.root = t.root /\ new \notin g.used
      /\ t2.nodes[new].leaf = t.nodes[x].leaf /\ Len(t2.nodes[new].keys) = n - s
      /\ t2.nodes[x].leaf = t.nodes[x].leaf /\ Len(t2.nodes[x].keys) = s
      /\ t2.nodes[p].leaf = t.nodes[p].leaf /\ Len(t2.nodes[p].keys) = Len(t.nodes[p].keys) + 1
      /\ t.nodes[x].prev # NIL_NODE => t2.nodes[t.nodes[x].prev] = [t.nodes[t.nodes[x].prev] EXCEPT !.next = new]
      /\ \A y \in g.used : y \notin {x, p, t.nodes[x].prev} => t2.nodes[y] = t.nodes[y]
  BY <1>6 DEF SplitUp, Grown, Alike, n
<1>8. ASSUME NEW y \in g.used, y # x, y # p
      PROVE  t2.nodes[y].leaf = t.nodes[y].leaf /\ t2.nodes[y].keys = t.nodes[y].keys
  <2>1. CASE y = t.nodes[x].prev
    <3>1. y # NIL_NODE /\ t.nodes[y] \in Node
      BY WholeIs DEF NIL_NODE
    <3>2. t2.nodes[y] = [t.nodes[y] EXCEPT !.next = new]
      BY <3>1, <1>7, <2>1
    <3> QED
      BY <3>1, <3>2 DEF Node
  <2>2. CASE y # t.nodes[x].prev
    BY <2>2, <1>7, <1>8
  <2> QED
    BY <2>1, <2>2
<1> DEFINE m == Num(t.nodes[x].keys[s + 1])
<1> DEFINE g2 == Cut(g, x, new, m)
<1>9. /\ Whole(t2, g2) /\ Tight(t2, g2, {})
      /\ \A k : Holds(t2, g2, k) <=> Holds(t, g, k)
  <2>1. Len(t.nodes[x].keys) >= 2
    BY <1>5 DEF n
  <2> QED
    BY <2>1, <1>6, SplitWhole DEF n
<1>10. g \in Ghosts /\ m \in Nat /\ new \in Nat \ {0}
  <2>1. s + 1 \in 1 .. n
    BY <1>5, <1>2, <1>3
  <2>2. g \in Ghosts /\ new \in Nat \ {0}
    BY <1>6 DEF SplitUp, Whole
  <2> QED
    BY <2>1, <2>2, <1>1, WholeIs DEF n
<1> HIDE DEF m
<1>11. /\ g2.used = g.used \cup {new} /\ g2.lev[new] = g.lev[x] /\ g2.lo[new] = g.lo[x]
       /\ \A y \in g.used : g2.lev[y] = g.lev[y] /\ g2.hi[y] = g.hi[y]
       /\ \A y \in g.used : y # x => g2.lo[y] = g.lo[y]
  BY <1>1, <1>7, <1>10, CutIs
<1> HIDE DEF g2
<1>12. Kept(g, g2, p)
  <2> SUFFICES ASSUME NEW y \in g.used, g.lev[y] >= g.lev[p]
               PROVE  y \in g2.used /\ g2.lev[y] = g.lev[y] /\ g2.lo[y] = g.lo[y] /\ g2.hi[y] = g.hi[y]
    BY DEF Kept
  <2>1. y # x
    BY <1>1
  <2> QED
    BY <2>1, <1>11
<1>13. Full(t2.nodes[new]) = F /\ Full(t2.nodes[x]) = F /\ Poor(t2.nodes[new]) = P /\ Poor(t2.nodes[x]) = P
       /\ Full(t2.nodes[p]) = Full(t.nodes[p]) /\ Poor(t2.nodes[p]) = Poor(t.nodes[p])
  BY <1>7, SameSizes DEF F, P
<1>14. ASSUME NEW y \in g2.used
       PROVE  /\ Len(t2.nodes[y].keys) <= Full(t2.nodes[y])
              /\ y # t2.root => Len(t2.nodes[y].keys) >= Poor(t2.nodes[y]) - 1
  <2>1. CASE y = new
    <3>1. n - s <= F /\ n - s >= P - 1
      BY <1>3, <1>5
    <3> QED
      BY <3>1, <2>1, <1>7, <1>13
  <2>2. CASE y = x
    <3>1. s <= F /\ s >= P - 1
      BY <1>3, <1>5
    <3> QED
      BY <3>1, <2>2, <1>7, <1>13
  <2>3. CASE y = p
    <3>1. /\ Full(t.nodes[p]) \in Nat /\ Poor(t.nodes[p]) \in Nat
      BY <1>2, SizesIs
    <3>2. p # t.root => Len(t.nodes[p].keys) >= Poor(t.nodes[p]) - 1
      BY <1>1 DEF SizedBut
    <3>3. Len(t.nodes[p].keys) + 1 <= Full(t.nodes[p])
      BY <3>1, <1>2
    <3>4. p # t.root => Len(t.nodes[p].keys) + 1 >= Poor(t.nodes[p]) - 1
      BY <3>1, <3>2, <1>2
    <3> QED
      BY <3>3, <3>4, <2>3, <1>7, <1>13
  <2>4. CASE y # new /\ y # x /\ y # p
    <3>1. y \in g.used
      BY <2>4, <1>11
    <3>2. t2.nodes[y].leaf = t.nodes[y].leaf /\ t2.nodes[y].keys = t.nodes[y].keys
      BY <3>1, <2>4, <1>8
    <3>3. Full(t2.nodes[y]) = Full(t.nodes[y]) /\ Poor(t2.nodes[y]) = Poor(t.nodes[y])
      BY <3>2, SameSizes
    <3> QED
      BY <3>1, <3>2, <3>3, <2>4, <1>7 DEF SizedBut
  <2> QED
    BY <2>1, <2>2, <2>3, <2>4
<1>15. ASSUME NEW c \in g2.used, NEW k \in Nat, g2.lev[c] = g.lev[x], Covers(g, x, k), Covers(g2, c, k)
       PROVE  /\ Len(t2.nodes[c].keys) < Full(t2.nodes[c])
              /\ Len(t2.nodes[c].keys) >= Poor(t2.nodes[c])
  <2>1. c = new \/ c = x
    <3> SUFFICES ASSUME c # new, c # x PROVE FALSE
      OBVIOUS
    <3>1. c \in g.used /\ g.lev[c] = g.lev[x] /\ Covers(g, c, k)
      BY <1>11, <1>15 DEF Covers
    <3> QED
      BY <3>1, <1>1, <1>15, SameNode
  <2> QED
    BY <2>1, <1>5, <1>7, <1>13
<1>16. \A y \in g.used \ {x} : t2.nodes[y].leaf = t.nodes[y].leaf
                            /\ Len(t2.nodes[y].keys) >= Len(t.nodes[y].keys)
  <2> SUFFICES ASSUME NEW y \in g.used \ {x}
               PROVE  t2.nodes[y].leaf = t.nodes[y].leaf /\ Len(t2.nodes[y].keys) >= Len(t.nodes[y].keys)
    OBVIOUS
  <2>1. CASE y = p
    <3>1. t2.nodes[p].leaf = t.nodes[p].leaf
      BY <1>7
    <3>2. Len(t2.nodes[p].keys) = Len(t.nodes[p].keys) + 1 /\ Len(t.nodes[p].keys) \in Nat
      BY <1>2, <1>7
    <3>3. Len(t2.nodes[p].keys) >= Len(t.nodes[p].keys)
      BY <3>2
    <3> QED
      BY <2>1, <3>1, <3>3
  <2>2. CASE y # p
    <3>1. Len(t.nodes[y].keys) \in Nat
      BY WholeIs
    <3> QED
      BY <3>1, <2>2, <1>8
  <2> QED
    BY <2>1, <2>2
<1>17. Sized(t2, g2)
  BY <1>14 DEF Sized
<1>18. \A c \in g2.used, k \in Nat :
         g2.lev[c] = g.lev[x] /\ Covers(g, x, k) /\ Covers(g2, c, k) =>
           /\ Len(t2.nodes[c].keys) < Full(t2.nodes[c])
           /\ Len(t2.nodes[c].keys) >= Poor(t2.nodes[c])
  BY <1>15
<1>19. \E gg : /\ Whole(t2, gg) /\ Tight(t2, gg, {}) /\ Sized(t2, gg) /\ Kept(g, gg, p)
               /\ \A k : Holds(t2, gg, k) <=> Holds(t, g, k)
               /\ \A c \in gg.used, k \in Nat :
                    gg.lev[c] = g.lev[x] /\ Covers(g, x, k) /\ Covers(gg, c, k) =>
                      /\ Len(t2.nodes[c].keys) < Full(t2.nodes[c])
                      /\ Len(t2.nodes[c].keys) >= Poor(t2.nodes[c])
  BY <1>9, <1>12, <1>17, <1>18
<1> QED
  BY <1>7, <1>16, <1>19 DEF t2

-----------------------------------------------------------------------------
(* A join, with the split that may follow it. *)

LEMMA JoinSizes ==
    ASSUME NoNulls, NEW t, NEW g, Whole(t, g), Tight(t, g, {}), Sized(t, g),
           NEW p \in g.used, NEW i, NEW r, NEW l, IsChild(t, p, i, r), IsChild(t, p, i + 1, l),
           Len(t.nodes[l].keys) < Poor(t.nodes[l]) \/ Len(t.nodes[r].keys) < Poor(t.nodes[r]),
           p # t.root => Len(t.nodes[p].keys) >= Poor(t.nodes[p]),
           NEW t2, JoinUp(t, g, t2, p, l, r, i + 1)
    PROVE  LET g2 == Fuse(g, l, r)
           IN  /\ Whole(t2, g2) /\ Tight(t2, g2, {}) /\ SizedBut(t2, g2, r) /\ Kept(g, g2, p)
               /\ t2.root = t.root /\ p \in g2.used /\ g2.lev[r] = g.lev[r] /\ g2.lev[p] = g.lev[p]
               /\ r \in g2.used /\ \E j : IsChild(t2, p, j, r)
               /\ \A k : Holds(t2, g2, k) <=> Holds(t, g, k)
               /\ \A k \in Nat : Covers(g, l, k) \/ Covers(g, r, k) => Covers(g2, r, k)
               /\ \A y \in g2.used \ {r} : t2.nodes[y].leaf = t.nodes[y].leaf
               /\ t2.nodes[r].leaf = t.nodes[r].leaf
               /\ Len(t2.nodes[p].keys) = Len(t.nodes[p].keys) - 1 /\ Len(t2.nodes[p].keys) < Full(t2.nodes[p])
               /\ Len(t2.nodes[r].keys) >= Poor(t2.nodes[r])
               /\ Len(t2.nodes[r].keys) <= Full(t2.nodes[r]) + Poor(t2.nodes[r])
<1> DEFINE g2 == Fuse(g, l, r)
           q  == t.nodes[l].prev
<1>1. /\ r \in g.used /\ l \in g.used /\ r # l /\ r # p /\ l # p
      /\ g.lev[l] = g.lev[r] /\ t.nodes[l].leaf = t.nodes[r].leaf /\ l # t.root /\ r # t.root
      /\ g.hi[l] = g.lo[r]
      /\ g.lev[p] = g.lev[r] + 1 /\ Covers(g, p, g.hi[r])
  <2>1. /\ r \in g.used /\ l \in g.used /\ r # l /\ r # p /\ l # p
        /\ g.lev[l] = g.lev[r] /\ t.nodes[l].leaf = t.nodes[r].leaf /\ l # t.root /\ r # t.root
        /\ g.hi[l] = g.lo[r]
    BY AroundTwo
  <2>2. g.lev[p] = g.lev[r] + 1 /\ Covers(g, p, g.hi[r])
    BY ChildIs
  <2> QED
    BY <2>1, <2>2
<1>2. /\ Fit(t.nodes[r]) /\ Fit(t.nodes[l]) /\ Fit(t.nodes[p])
      /\ Len(t.nodes[r].keys) \in Nat /\ Len(t.nodes[l].keys) \in Nat /\ Len(t.nodes[p].keys) \in Nat \ {0}
      /\ g.lev[r] \in Nat /\ g.lev[p] \in Nat /\ g.lo[r] \in Nat /\ g.hi[r] \in Nat /\ g.lo[l] \in Nat /\ g.hi[l] \in Nat
      /\ g.lo[r] < g.hi[r] /\ g.lo[l] < g.hi[l]
  BY <1>1, WholeIs
<1>3. /\ Whole(t2, g2) /\ Tight(t2, g2, {})
      /\ \A k : Holds(t2, g2, k) <=> Holds(t, g, k)
  BY JoinWhole
<1>4. /\ g2.used = g.used \ {l} /\ g2.lev = g.lev /\ g2.hi = g.hi /\ g2.lo[r] = g.lo[l]
      /\ \A y \in g.used : y # r => g2.lo[y] = g.lo[y]
  <2>1. g \in Ghosts
    BY DEF Whole
  <2> QED
    BY <2>1, <1>1, FuseIs
<1> HIDE DEF g2
<1>5. /\ t2.root = t.root
      /\ t2.nodes[r].leaf = t.nodes[r].leaf
      /\ Len(t2.nodes[r].keys) = Len(t.nodes[r].keys) + Len(t.nodes[l].keys)
      /\ t2.nodes[p].leaf = t.nodes[p].leaf /\ Len(t2.nodes[p].keys) = Len(t.nodes[p].keys) - 1
      /\ q # NIL_NODE => t2.nodes[q] = [t.nodes[q] EXCEPT !.next = r]
      /\ \A y \in g.used : y \notin {l, r, p, q} => t2.nodes[y] = t.nodes[y]
  BY DEF JoinUp, Shrunk, Alike
<1> HIDE DEF q
<1>6. ASSUME NEW y \in g.used, y \notin {l, r, p}
      PROVE  t2.nodes[y].leaf = t.nodes[y].leaf /\ t2.nodes[y].keys = t.nodes[y].keys
  <2>1. CASE y = q
    <3>1. y # NIL_NODE /\ t.nodes[y] \in Node
      BY WholeIs DEF NIL_NODE
    <3>2. t2.nodes[y] = [t.nodes[y] EXCEPT !.next = r]
      BY <3>1, <1>5, <2>1
    <3> QED
      BY <3>1, <3>2 DEF Node
  <2>2. CASE y # q
    BY <2>2, <1>5, <1>6
  <2> QED
    BY <2>1, <2>2
<1>7. /\ Full(t2.nodes[r]) = Full(t.nodes[r]) /\ Poor(t2.nodes[r]) = Poor(t.nodes[r])
      /\ Full(t.nodes[l]) = Full(t.nodes[r]) /\ Poor(t.nodes[l]) = Poor(t.nodes[r])
      /\ Full(t2.nodes[p]) = Full(t.nodes[p]) /\ Poor(t2.nodes[p]) = Poor(t.nodes[p])
  <2>1. t2.nodes[r].leaf = t.nodes[r].leaf /\ t2.nodes[p].leaf = t.nodes[p].leaf
    BY <1>5
  <2> QED
    BY <2>1, <1>1, SameSizes
<1>8. Kept(g, g2, p)
  <2> SUFFICES ASSUME NEW y \in g.used, g.lev[y] >= g.lev[p]
               PROVE  y \in g2.used /\ g2.lev[y] = g.lev[y] /\ g2.lo[y] = g.lo[y] /\ g2.hi[y] = g.hi[y]
    BY DEF Kept
  <2>1. y # l /\ y # r
    BY <1>1, <1>2
  <2> QED
    BY <2>1, <1>4
<1>9. \E j : IsChild(t2, p, j, r)
  <2>1. /\ p \in g2.used /\ r \in g2.used /\ g2.lev[p] = g2.lev[r] + 1
    BY <1>1, <1>4
  <2>2. Covers(g2, p, g2.hi[r])
    BY <1>1, <1>4 DEF Covers
  <2> QED
    BY <2>1, <2>2, <1>3, HeirOf
<1>10. ASSUME NEW k \in Nat, Covers(g, l, k) \/ Covers(g, r, k) PROVE Covers(g2, r, k)
  <2>1. g.lo[l] < k /\ k <= g.hi[r]
    BY <1>10, <1>1, <1>2 DEF Covers
  <2> QED
    BY <2>1, <1>4, <1>1 DEF Covers
<1> DEFINE F == Full(t.nodes[r])
           P == Poor(t.nodes[r])
           a == Len(t.nodes[r].keys)
           b == Len(t.nodes[l].keys)
<1>11. F \in Nat /\ P \in Nat /\ P >= 2 /\ F >= 2 * P + 1
  BY <1>2, SizesIs
<1>12. a <= F /\ b <= F /\ a >= P - 1 /\ b >= P - 1 /\ (a < P \/ b < P)
  <2>1. a <= Full(t.nodes[r]) /\ b <= Full(t.nodes[l]) /\ a >= Poor(t.nodes[r]) - 1 /\ b >= Poor(t.nodes[l]) - 1
    BY <1>1 DEF Sized
  <2> QED
    BY <2>1, <1>7
<1>13. Len(t2.nodes[r].keys) = a + b /\ a \in Nat /\ b \in Nat
  BY <1>5, <1>2
<1> HIDE DEF F, P, a, b
<1>14. a + b >= P /\ a + b <= F + P
  BY <1>11, <1>12, <1>13
<1>15. Len(t2.nodes[r].keys) >= Poor(t2.nodes[r]) /\ Len(t2.nodes[r].keys) <= Full(t2.nodes[r]) + Poor(t2.nodes[r])
  BY <1>13, <1>14, <1>7 DEF F, P
<1>16. /\ Len(t2.nodes[p].keys) < Full(t2.nodes[p]) /\ Len(t2.nodes[p].keys) <= Full(t2.nodes[p])
       /\ p # t2.root => Len(t2.nodes[p].keys) >= Poor(t2.nodes[p]) - 1
  <2>1. Len(t.nodes[p].keys) <= Full(t.nodes[p]) /\ Full(t.nodes[p]) \in Nat /\ Poor(t.nodes[p]) \in Nat
    BY <1>2, SizesIs DEF Sized
  <2>2. /\ Len(t.nodes[p].keys) - 1 < Full(t.nodes[p]) /\ Len(t.nodes[p].keys) - 1 <= Full(t.nodes[p])
        /\ p # t.root => Len(t.nodes[p].keys) - 1 >= Poor(t.nodes[p]) - 1
    BY <2>1, <1>2
  <2> QED
    BY <2>2, <1>5, <1>7
<1>17. SizedBut(t2, g2, r)
  <2> SUFFICES ASSUME NEW y \in g2.used \ {r}
               PROVE  /\ Len(t2.nodes[y].keys) <= Full(t2.nodes[y])
                      /\ y # t2.root => Len(t2.nodes[y].keys) >= Poor(t2.nodes[y]) - 1
    BY DEF SizedBut
  <2>1. CASE y = p
    BY <2>1, <1>16
  <2>2. CASE y # p
    <3>1. y \in g.used /\ y \notin {l, r, p}
      BY <2>2, <1>4
    <3>2. t2.nodes[y].leaf = t.nodes[y].leaf /\ t2.nodes[y].keys = t.nodes[y].keys
      BY <3>1, <1>6
    <3>3. Full(t2.nodes[y]) = Full(t.nodes[y]) /\ Poor(t2.nodes[y]) = Poor(t.nodes[y])
      BY <3>2, SameSizes
    <3> QED
      BY <3>1, <3>2, <3>3, <1>5 DEF Sized
  <2> QED
    BY <2>1, <2>2
<1>18. \A y \in g2.used \ {r} : t2.nodes[y].leaf = t.nodes[y].leaf
  BY <1>4, <1>5, <1>6
<1>19. t2.root = t.root /\ p \in g2.used /\ g2.lev[r] = g.lev[r] /\ g2.lev[p] = g.lev[p] /\ r \in g2.used
  BY <1>1, <1>4, <1>5
<1>20. Len(t2.nodes[p].keys) = Len(t.nodes[p].keys) - 1 /\ t2.nodes[r].leaf = t.nodes[r].leaf
  BY <1>5
<1>21. \A k \in Nat : Covers(g, l, k) \/ Covers(g, r, k) => Covers(g2, r, k)
  BY <1>10
<1> QED
  BY <1>3, <1>8, <1>9, <1>15, <1>16, <1>17, <1>18, <1>19, <1>20, <1>21 DEF g2

LEMMA KeptTwice ==
    ASSUME NEW g, NEW g1, NEW g2, NEW p \in g.used, g.lev[p] \in Nat, Kept(g, g1, p), Kept(g1, g2, p)
    PROVE  Kept(g, g2, p)
<1>1. g.lev[p] >= g.lev[p]
  OBVIOUS
<1>2. g1.lev[p] = g.lev[p]
  BY <1>1 DEF Kept
<1> SUFFICES ASSUME NEW y \in g.used, g.lev[y] >= g.lev[p]
             PROVE  y \in g2.used /\ g2.lev[y] = g.lev[y] /\ g2.lo[y] = g.lo[y] /\ g2.hi[y] = g.hi[y]
  BY DEF Kept
<1>3. y \in g1.used /\ g1.lev[y] = g.lev[y] /\ g1.lo[y] = g.lo[y] /\ g1.hi[y] = g.hi[y]
  BY DEF Kept
<1>4. g1.lev[y] >= g1.lev[p]
  BY <1>2, <1>3
<1>5. y \in g2.used /\ g2.lev[y] = g1.lev[y] /\ g2.lo[y] = g1.lo[y] /\ g2.hi[y] = g1.hi[y]
  BY <1>3, <1>4 DEF Kept
<1> QED
  BY <1>3, <1>5

\* Which two nodes a join takes: the child and the one right of it, or, when the
\* child has the first key, the one left of it.
LEMMA JoinOf ==
    ASSUME NoNulls, NEW t, NEW g, Whole(t, g), Tight(t, g, {}), NEW p \in g.used,
           Len(t.nodes[p].keys) >= 2, NEW i, NEW c, IsChild(t, p, i, c)
    PROVE  \E j, l, r : /\ IsChild(t, p, j, r) /\ IsChild(t, p, j + 1, l) /\ (c = l \/ c = r)
                        /\ Join(t, p, c) = Split(Joined(t, p, l, r, j + 1), p, r)
<1>1. /\ c \in g.used /\ i \in 1 .. Len(t.nodes[p].keys) /\ g.hi[c] = Num(t.nodes[p].keys[i])
      /\ ~t.nodes[p].leaf /\ c = t.nodes[p].child[i]
  <2>1. c \in g.used /\ i \in 1 .. Len(t.nodes[p].keys) /\ g.hi[c] = Num(t.nodes[p].keys[i])
    BY ChildIs
  <2> QED
    BY <2>1 DEF IsChild
<1>2. /\ Fit(t.nodes[p]) /\ Fit(t.nodes[c]) /\ t.nodes[p] \in Node /\ Len(t.nodes[p].keys) \in Nat
      /\ 1 \in 1 .. Len(t.nodes[c].keys)
  BY SMTT(30), <1>1, WholeIs
<1>3. t.nodes[c].keys[1] \in AllKeys /\ GetKey(t.nodes[c], 1) = t.nodes[c].keys[1] /\ t.nodes[p].keys[i] \in AllKeys
  BY <1>1, <1>2, FitIs
<1>4. Num(t.nodes[c].keys[1]) = Num(t.nodes[p].keys[i])
  BY <1>1 DEF Tight
<1>5. t.nodes[c].keys[1] = t.nodes[p].keys[i]
  BY <1>3, <1>4, CompareIs
<1> DEFINE f == FindBiggerOrEqual(t.nodes[p], GetKey(t.nodes[c], 1))
<1>6. f = i
  <2>1. Descending(t.nodes[p].keys)
    BY <1>2 DEF Fit
  <2>2. Found(t.nodes[p].keys, Num(t.nodes[p].keys[i]), f)
    BY <2>1, <1>2, <1>3, <1>5, SearchIs
  <2> HIDE DEF f
  <2> QED
    BY <2>2, <1>1, <1>2, FoundExact
<1>7. CASE i # 1
  <2> DEFINE r == t.nodes[p].child[i - 1]
  <2>1. i - 1 \in 1 .. Len(t.nodes[p].keys) /\ (i - 1) + 1 = i
    BY <1>1, <1>2, <1>7
  <2>2. IsChild(t, p, i - 1, r) /\ IsChild(t, p, (i - 1) + 1, c)
    BY <2>1, <1>1 DEF IsChild
  <2>3. t.nodes[c].next = r
    <3> DEFINE j == i - 1
    <3>1. IsChild(t, p, j, r) /\ IsChild(t, p, j + 1, c)
      BY <2>2
    <3> HIDE DEF r, j
    <3> QED
      BY <3>1, Siblings
  <2>4. Join(t, p, c) = Split(Joined(t, p, c, r, (i - 1) + 1), p, r)
    BY <1>6, <1>7, <2>1, <2>3 DEF Join, Joined
  <2> QED
    BY <2>2, <2>4
<1>8. CASE i = 1
  <2> DEFINE l == t.nodes[p].child[2]
  <2>1. 2 \in 1 .. Len(t.nodes[p].keys) /\ 1 + 1 = 2
    BY <1>2
  <2>2. IsChild(t, p, 1, c) /\ IsChild(t, p, 1 + 1, l)
    BY <2>1, <1>1, <1>8 DEF IsChild
  <2>3. t.nodes[c].prev = l
    <3> DEFINE j == 1
    <3>1. IsChild(t, p, j, c) /\ IsChild(t, p, j + 1, l)
      BY <2>2
    <3> HIDE DEF l, j
    <3> QED
      BY <3>1, Siblings
  <2>4. Join(t, p, c) = Split(Joined(t, p, l, c, 1 + 1), p, c)
    BY <1>6, <1>8, <2>1, <2>3 DEF Join, Joined
  <2> QED
    BY <2>2, <2>4
<1> QED
  BY <1>7, <1>8

LEMMA JoinStep ==
    ASSUME NoNulls, NEW t, NEW g, Whole(t, g), Tight(t, g, {}), Sized(t, g), NEW p \in g.used,
           Len(t.nodes[p].keys) >= 2, p # t.root => Len(t.nodes[p].keys) >= Poor(t.nodes[p]),
           NEW i, NEW c, IsChild(t, p, i, c), NeedsJoining(t.nodes[c])
    PROVE  LET t2 == Join(t, p, c)
           IN  /\ t2.root = t.root /\ t2.nodes[p].leaf = t.nodes[p].leaf
               /\ \E g2 : /\ Whole(t2, g2) /\ Tight(t2, g2, {}) /\ Sized(t2, g2) /\ Kept(g, g2, p)
                          /\ \A k : Holds(t2, g2, k) <=> Holds(t, g, k)
                          /\ \A d \in g2.used, k \in Nat :
                               g2.lev[d] = g.lev[c] /\ Covers(g, c, k) /\ Covers(g2, d, k) =>
                                 Len(t2.nodes[d].keys) >= Poor(t2.nodes[d])
<1>1. PICK j, l, r : /\ IsChild(t, p, j, r) /\ IsChild(t, p, j + 1, l) /\ (c = l \/ c = r)
                     /\ Join(t, p, c) = Split(Joined(t, p, l, r, j + 1), p, r)
  BY JoinOf
<1> DEFINE t1 == Joined(t, p, l, r, j + 1)
           g1 == Fuse(g, l, r)
<1>2. JoinUp(t, g, t1, p, l, r, j + 1)
  BY <1>1, JoinedIs
<1>3. /\ r \in g.used /\ l \in g.used /\ g.lev[l] = g.lev[r] /\ g.lev[p] = g.lev[r] + 1 /\ g.lev[c] = g.lev[r]
      /\ p # r
  <2>1. r \in g.used /\ l \in g.used /\ g.lev[l] = g.lev[r] /\ p # r
    BY <1>1, AroundTwo
  <2>2. g.lev[p] = g.lev[r] + 1
    BY <1>1, ChildIs
  <2> QED
    BY <2>1, <2>2, <1>1
<1>4. Len(t.nodes[l].keys) < Poor(t.nodes[l]) \/ Len(t.nodes[r].keys) < Poor(t.nodes[r])
  <2>1. Fit(t.nodes[c])
    BY <1>1, <1>3, WholeIs
  <2>2. Len(t.nodes[c].keys) < Poor(t.nodes[c])
    BY <2>1, SizesIs
  <2> QED
    BY <2>2, <1>1
<1> HIDE DEF t1, g1
<1>5. /\ Whole(t1, g1) /\ Tight(t1, g1, {}) /\ SizedBut(t1, g1, r) /\ Kept(g, g1, p)
      /\ t1.root = t.root /\ p \in g1.used /\ g1.lev[r] = g.lev[r] /\ g1.lev[p] = g.lev[p]
      /\ r \in g1.used /\ \E m : IsChild(t1, p, m, r)
      /\ \A k : Holds(t1, g1, k) <=> Holds(t, g, k)
      /\ \A k \in Nat : Covers(g, l, k) \/ Covers(g, r, k) => Covers(g1, r, k)
      /\ \A y \in g1.used \ {r} : t1.nodes[y].leaf = t.nodes[y].leaf
      /\ t1.nodes[r].leaf = t.nodes[r].leaf
      /\ Len(t1.nodes[p].keys) < Full(t1.nodes[p])
      /\ Len(t1.nodes[r].keys) >= Poor(t1.nodes[r])
      /\ Len(t1.nodes[r].keys) <= Full(t1.nodes[r]) + Poor(t1.nodes[r])
  BY <1>1, <1>2, <1>4, JoinSizes DEF g1
<1>6. PICK m : IsChild(t1, p, m, r)
  BY <1>5
<1>7. Fit(t1.nodes[r]) /\ Len(t1.nodes[r].keys) \in Nat /\ g.lev[p] \in Nat
  BY <1>5, WholeIs
<1>8. /\ NeedsSpliting(t1.nodes[r]) <=> Len(t1.nodes[r].keys) >= Full(t1.nodes[r])
      /\ Full(t1.nodes[r]) \in Nat /\ Poor(t1.nodes[r]) \in Nat
  BY <1>7, SizesIs
<1>9. p # NIL_NODE
  BY WholeIs DEF NIL_NODE
<1>10. CASE NeedsSpliting(t1.nodes[r])
  <2> DEFINE t2 == SplitNode(t1, p, r)
  <2>1. Join(t, p, c) = t2
    BY <1>1, <1>9, <1>10 DEF Split, t1
  <2>2. Len(t1.nodes[r].keys) >= Full(t1.nodes[r])
    BY <1>8, <1>10
  <2>3. /\ t2.root = t1.root
        /\ \A y \in g1.used \ {r} : t2.nodes[y].leaf = t1.nodes[y].leaf
        /\ \E g2 : /\ Whole(t2, g2) /\ Tight(t2, g2, {}) /\ Sized(t2, g2) /\ Kept(g1, g2, p)
                   /\ \A k : Holds(t2, g2, k) <=> Holds(t1, g1, k)
                   /\ \A d \in g2.used, k \in Nat :
                        g2.lev[d] = g1.lev[r] /\ Covers(g1, r, k) /\ Covers(g2, d, k) =>
                          /\ Len(t2.nodes[d].keys) < Full(t2.nodes[d])
                          /\ Len(t2.nodes[d].keys) >= Poor(t2.nodes[d])
    BY <1>5, <1>6, <2>2, SplitStep
  <2> HIDE DEF t2
  <2>4. PICK g2 : /\ Whole(t2, g2) /\ Tight(t2, g2, {}) /\ Sized(t2, g2) /\ Kept(g1, g2, p)
                  /\ \A k : Holds(t2, g2, k) <=> Holds(t1, g1, k)
                  /\ \A d \in g2.used, k \in Nat :
                       g2.lev[d] = g1.lev[r] /\ Covers(g1, r, k) /\ Covers(g2, d, k) =>
                         Len(t2.nodes[d].keys) >= Poor(t2.nodes[d])
    BY <2>3
  <2>5. Kept(g, g2, p)
    BY <2>4, <1>5, <1>7, KeptTwice
  <2>6. t2.root = t.root /\ t2.nodes[p].leaf = t.nodes[p].leaf
    BY <2>3, <1>3, <1>5
  <2>7. \A k : Holds(t2, g2, k) <=> Holds(t, g, k)
    BY <2>4, <1>5
  <2>8. \A d \in g2.used, k \in Nat :
          g2.lev[d] = g.lev[c] /\ Covers(g, c, k) /\ Covers(g2, d, k) => Len(t2.nodes[d].keys) >= Poor(t2.nodes[d])
    BY <2>4, <1>1, <1>3, <1>5
  <2> QED
    BY <2>1, <2>4, <2>5, <2>6, <2>7, <2>8
<1>11. CASE ~NeedsSpliting(t1.nodes[r])
  <2>1. Join(t, p, c) = t1
    BY <1>1, <1>11 DEF Split, t1
  <2>2. Sized(t1, g1)
    <3>1. Len(t1.nodes[r].keys) <= Full(t1.nodes[r]) /\ Len(t1.nodes[r].keys) >= Poor(t1.nodes[r]) - 1
      BY <1>5, <1>7, <1>8, <1>11
    <3> QED
      BY <3>1, <1>5 DEF Sized, SizedBut
  <2>3. ASSUME NEW d \in g1.used, NEW k \in Nat, g1.lev[d] = g.lev[c], Covers(g, c, k), Covers(g1, d, k)
        PROVE  Len(t1.nodes[d].keys) >= Poor(t1.nodes[d])
    <3>1. Covers(g1, r, k)
      BY <2>3, <1>1, <1>5
    <3>2. d = r
      BY <3>1, <2>3, <1>3, <1>5, SameNode
    <3> QED
      BY <3>2, <1>5
  <2>4. t1.root = t.root /\ t1.nodes[p].leaf = t.nodes[p].leaf
    BY <1>3, <1>5
  <2> QED
    BY <2>1, <2>2, <2>3, <2>4, <1>5
<1> QED
  BY <1>10, <1>11

-----------------------------------------------------------------------------
(* The other steps of the operations. *)

LEMMA KeyIsNoSentinel ==
    ASSUME NoNulls, NEW key \in Keys
    PROVE  key # SentinelKey /\ key \in AllKeys /\ Num(key) \in Nat \ {0} /\ Num(key) <= Top /\ Num(key) # Top
<1>1. key \in Values \X Rows /\ key \in AllKeys
  BY DEF Keys, NoNulls, AllKeys
<1>2. key[1] \in Values
  BY <1>1
<1>3. Values \subseteq Nat /\ key[1] <= MaxOf(Values) /\ MaxOf(Values) \in Nat
  BY <1>2, MaxOfIs, BTreeAssumption
<1>4. SentinelKey[1] = MaxOf(Values) + 1
  BY DEF SentinelKey
<1>5. key[1] # SentinelKey[1]
  BY <1>2, <1>3, <1>4
<1>6. key # SentinelKey
  BY <1>5
<1>7. SentinelKey \in AllKeys
  BY DEF AllKeys
<1>8. Num(key) # Num(SentinelKey)
  BY <1>1, <1>6, <1>7, CompareIs
<1> QED
  BY <1>1, <1>6, <1>8, NumIs DEF Top

\* t2 is t with the key in leaf x.
PutIn(t, g, t2, x, key) ==
    /\ Whole(t2, g) /\ Tight(t2, g, {}) /\ Sized(t2, g) /\ t2.root = t.root
    /\ t2.nodes[x].leaf /\ \A y \in g.used : y # x => t2.nodes[y] = t.nodes[y]
    /\ \A k : k \in LeafContents(t2) <=> k \in LeafContents(t) \/ k = key

LEMMA InsertStep ==
    ASSUME NoNulls, NEW t, NEW g, Whole(t, g), Tight(t, g, {}), Sized(t, g), NEW x \in g.used,
           t.nodes[x].leaf, ~NeedsSpliting(t.nodes[x]), NEW key \in Keys, key \notin LeafContents(t),
           Covers(g, x, Num(key))
    PROVE  PutIn(t, g, [t EXCEPT !.nodes[x] = InsertKey(t.nodes[x], key, NIL_NODE)], x, key)
<1> DEFINE n == t.nodes[x]
           r == InsertKey(n, key, NIL_NODE)
<1>1. Fit(n) /\ Len(n.keys) \in Nat \ {0} /\ 1 \in 1 .. Len(n.keys) /\ n.leaf /\ g.hi[x] \in Nat
  BY WholeIs
<1>2. key # SentinelKey /\ key \in AllKeys /\ Num(key) \in Nat
  BY KeyIsNoSentinel
<1> HIDE DEF r, n
<1>3. ASSUME NEW i \in 1 .. Len(n.keys) PROVE Num(n.keys[i]) # Num(key)
  <2> SUFFICES ASSUME Num(n.keys[i]) = Num(key) PROVE FALSE
    OBVIOUS
  <2>1. n.keys[i] \in AllKeys
    BY <1>1, FitIs
  <2>2. n.keys[i] = key
    BY <2>1, <1>2, CompareIs
  <2>3. Holds(t, g, key)
    BY <2>2, <1>1 DEF Holds, n
  <2> QED
    BY <2>3, <1>2, ContentsIs
<1>4. Num(key) < Num(n.keys[1])
  <2>1. Num(n.keys[1]) = g.hi[x] /\ Num(key) <= g.hi[x]
    BY DEF Tight, Covers, n
  <2> QED
    BY <2>1, <1>1, <1>2, <1>3
<1>5. NIL_NODE \in Nat
  BY DEF NIL_NODE
<1>6. Grown(n, r, key, NIL_NODE)
  BY <1>1, <1>2, <1>3, <1>4, <1>5, InsertKeyIs DEF r
<1>7. /\ Fit(r) /\ Alike(r, n) /\ Len(r.keys) = Len(n.keys) + 1 /\ r.keys[1] = n.keys[1]
      /\ \A j \in 1 .. Len(r.keys) : r.keys[j] = key \/ \E i \in 1 .. Len(n.keys) : r.keys[j] = n.keys[i]
      /\ \A i \in 1 .. Len(n.keys) : \E j \in 1 .. Len(r.keys) : n.keys[i] = r.keys[j]
      /\ \E j \in 1 .. Len(r.keys) : r.keys[j] = key
  BY <1>6 DEF Grown, Pair
<1>8. ASSUME NEW j \in 1 .. Len(r.keys) PROVE Covers(g, x, Num(r.keys[j]))
  BY <1>7, WholeIs DEF n
<1> DEFINE t2 == [t EXCEPT !.nodes[x] = r]
<1>9. /\ Whole(t2, g) /\ t2.root = t.root /\ t2.nodes[x] = r
      /\ \A y \in g.used : y # x => t2.nodes[y] = t.nodes[y]
  <2>1. Len(r.keys) >= 1
    BY <1>1, <1>7
  <2>2. t.nodes[x].leaf /\ Alike(r, t.nodes[x])
    BY <1>7 DEF n
  <2> QED
    BY <2>1, <2>2, <1>7, <1>8, LeafWritten
<1> HIDE DEF t2
<1>10. Tight(t2, g, {})
  <2> SUFFICES ASSUME NEW y \in g.used PROVE Num(t2.nodes[y].keys[1]) = g.hi[y]
    BY DEF Tight
  <2>1. t2.nodes[y].keys[1] = t.nodes[y].keys[1]
    BY <1>7, <1>9 DEF n
  <2> QED
    BY <2>1 DEF Tight
<1>11. r.leaf
  BY <1>1, <1>7 DEF Alike
<1>12. Sized(t2, g)
  <2> SUFFICES ASSUME NEW y \in g.used
               PROVE  /\ Len(t2.nodes[y].keys) <= Full(t2.nodes[y])
                      /\ y # t2.root => Len(t2.nodes[y].keys) >= Poor(t2.nodes[y]) - 1
    BY DEF Sized
  <2>1. /\ Len(t.nodes[y].keys) <= Full(t.nodes[y])
        /\ y # t.root => Len(t.nodes[y].keys) >= Poor(t.nodes[y]) - 1
    BY DEF Sized
  <2>2. CASE y # x
    BY <2>1, <2>2, <1>9
  <2>3. CASE y = x
    <3>1. Full(r) = Full(n) /\ Poor(r) = Poor(n)
      BY <1>1, <1>11, SameSizes
    <3>2. Len(n.keys) < Full(n) /\ Full(n) \in Nat /\ Poor(n) \in Nat
      <4>1. ~NeedsSpliting(n)
        BY DEF n
      <4>2. Full(n) \in Nat /\ Poor(n) \in Nat /\ (NeedsSpliting(n) <=> Len(n.keys) >= Full(n))
        BY <1>1, SizesIs
      <4> QED
        BY <4>1, <4>2, <1>1
    <3>3. Len(r.keys) <= Full(n)
      BY <3>2, <1>1, <1>7
    <3>4. x # t.root => Len(r.keys) >= Poor(n) - 1
      <4>1. x # t.root => Len(n.keys) >= Poor(n) - 1
        BY <2>1, <2>3 DEF n
      <4> QED
        BY <4>1, <3>2, <1>1, <1>7
    <3> QED
      BY <3>1, <3>3, <3>4, <2>3, <1>9
  <2> QED
    BY <2>2, <2>3
<1>13. ASSUME NEW k PROVE k \in LeafContents(t2) <=> k \in LeafContents(t) \/ k = key
  <2>1. Holds(t2, g, k) => Holds(t, g, k) \/ k = key
    <3> SUFFICES ASSUME Holds(t2, g, k), k # key PROVE Holds(t, g, k)
      OBVIOUS
    <3>1. PICK y \in g.used : t2.nodes[y].leaf /\ \E i \in 1 .. Len(t2.nodes[y].keys) : t2.nodes[y].keys[i] = k
      BY DEF Holds
    <3>2. CASE y # x
      BY <3>1, <3>2, <1>9 DEF Holds
    <3>3. CASE y = x
      <4>1. \E i \in 1 .. Len(r.keys) : r.keys[i] = k
        BY <3>1, <3>3, <1>9
      <4>2. \E i \in 1 .. Len(n.keys) : n.keys[i] = k
        BY <4>1, <1>7
      <4> QED
        BY <4>2, <1>1 DEF Holds, n
    <3> QED
      BY <3>2, <3>3
  <2>2. Holds(t, g, k) => Holds(t2, g, k)
    <3> SUFFICES ASSUME Holds(t, g, k) PROVE Holds(t2, g, k)
      OBVIOUS
    <3>1. PICK y \in g.used : t.nodes[y].leaf /\ \E i \in 1 .. Len(t.nodes[y].keys) : t.nodes[y].keys[i] = k
      BY DEF Holds
    <3>2. CASE y # x
      BY <3>1, <3>2, <1>9 DEF Holds
    <3>3. CASE y = x
      <4>1. \E i \in 1 .. Len(n.keys) : n.keys[i] = k
        BY <3>1, <3>3 DEF n
      <4>2. \E i \in 1 .. Len(r.keys) : r.keys[i] = k
        BY <4>1, <1>7
      <4> QED
        BY <4>2, <1>9, <1>11 DEF Holds
    <3> QED
      BY <3>2, <3>3
  <2>3. Holds(t2, g, key)
    BY <1>7, <1>9, <1>11 DEF Holds
  <2>4. k \in LeafContents(t) <=> k # SentinelKey /\ Holds(t, g, k)
    BY ContentsIs
  <2>5. k \in LeafContents(t2) <=> k # SentinelKey /\ Holds(t2, g, k)
    BY <1>9, ContentsIs
  <2> QED
    BY <2>1, <2>2, <2>3, <2>4, <2>5, <1>2
<1>14. t2.nodes[x].leaf
  BY <1>9, <1>11
<1> QED
  BY <1>9, <1>10, <1>12, <1>13, <1>14 DEF PutIn, t2, r, n

\* t2 is t with key f of leaf x taken out.
TakenFrom(t, g, t2, x, key, f) ==
    /\ Whole(t2, g) /\ Tight(t2, g, IF f = 1 THEN {x} ELSE {}) /\ Sized(t2, g)
    /\ t2.root = t.root
    /\ f = 1 => g.hi[x] = Num(key) /\ x # t.root
    /\ \A k : k \in LeafContents(t2) <=> k \in LeafContents(t) /\ k # key

LEMMA RemoveStep ==
    ASSUME NoNulls, NEW t, NEW g, Whole(t, g), Tight(t, g, {}), Sized(t, g), NEW x \in g.used,
           t.nodes[x].leaf, x # t.root => Len(t.nodes[x].keys) >= Poor(t.nodes[x]),
           NEW key \in LeafContents(t), Covers(g, x, Num(key))
    PROVE  LET f == FindBiggerOrEqual(t.nodes[x], key)
           IN  TakenFrom(t, g, [t EXCEPT !.nodes[x] = RemoveKey(t.nodes[x], f)], x, key, f)
<1> DEFINE n == t.nodes[x]
           f == FindBiggerOrEqual(n, key)
           r == RemoveKey(n, f)
<1>1. Fit(n) /\ Len(n.keys) \in Nat \ {0} /\ 1 \in 1 .. Len(n.keys) /\ n.leaf /\ g.hi[x] \in Nat /\ g.lev[x] = 0
  BY WholeIs
<1>2. key \in Keys /\ Holds(t, g, key)
  BY ContentsIs
<1>3. key # SentinelKey /\ key \in AllKeys /\ Num(key) \in Nat /\ Num(key) # Top
  BY <1>2, KeyIsNoSentinel
<1>4. PICK at \in 1 .. Len(n.keys) : n.keys[at] = key
  <2>1. PICK y \in g.used : t.nodes[y].leaf /\ \E i \in 1 .. Len(t.nodes[y].keys) : t.nodes[y].keys[i] = key
    BY <1>2 DEF Holds
  <2>2. g.lev[y] = 0 /\ Covers(g, y, Num(key))
    BY <2>1, WholeIs
  <2>3. y = x
    BY <2>2, <1>1, <1>3, SameNode
  <2> QED
    BY <2>1, <2>3
<1>5. f = at
  <2>1. Found(n.keys, Num(key), f)
    <3>1. n \in Node /\ Descending(n.keys)
      BY <1>1 DEF Fit
    <3> HIDE DEF n
    <3> QED
      BY <3>1, <1>3, SearchIs
  <2> HIDE DEF f, n
  <2> QED
    BY <2>1, <1>1, <1>4, FoundExact
<1>6. Shrunk(n, r, at)
  <2> HIDE DEF n, f
  <2> QED
    BY <1>1, <1>5, RemoveKeyIs
<1> HIDE DEF r, f, n
<1>7. /\ Fit(r) /\ Alike(r, n) /\ Len(r.keys) = Len(n.keys) - 1
      /\ at # 1 => r.keys[1] = n.keys[1]
      /\ \A j \in 1 .. Len(r.keys) : \E i \in 1 .. Len(n.keys) : i # at /\ r.keys[j] = n.keys[i]
      /\ \A i \in 1 .. Len(n.keys) : i # at => \E j \in 1 .. Len(r.keys) : n.keys[i] = r.keys[j]
  BY <1>6 DEF Shrunk, Pair
<1>8. Num(n.keys[1]) = g.hi[x]
  BY DEF Tight, n
<1>9. x = t.root => g.hi[x] = Top
  BY DEF Whole, Rooted
<1>10. at = 1 => g.hi[x] = Num(key) /\ x # t.root
  BY <1>3, <1>4, <1>8, <1>9
<1>11. Poor(n) \in Nat /\ Full(n) \in Nat /\ Poor(n) >= 2
  BY <1>1, SizesIs
<1>12. Len(n.keys) >= 2 /\ (x # t.root => Len(n.keys) >= Poor(n)) /\ Len(n.keys) <= Full(n)
  <2>1. (x # t.root => Len(n.keys) >= Poor(n)) /\ Len(n.keys) <= Full(n)
    BY DEF n, Sized
  <2>2. CASE x = t.root
    <3>1. at # 1
      BY <2>2, <1>10
    <3> QED
      BY <3>1, <2>1, <2>2, <1>1, <1>4
  <2>3. CASE x # t.root
    BY <2>1, <2>3, <1>1, <1>11
  <2> QED
    BY <2>2, <2>3
<1>13. ASSUME NEW j \in 1 .. Len(r.keys) PROVE Covers(g, x, Num(r.keys[j]))
  <2>1. PICK i \in 1 .. Len(n.keys) : r.keys[j] = n.keys[i]
    BY <1>7
  <2>2. Covers(g, x, Num(n.keys[i]))
    BY WholeIs DEF n
  <2> QED
    BY <2>1, <2>2
<1> DEFINE t2 == [t EXCEPT !.nodes[x] = r]
<1>14. /\ Whole(t2, g) /\ t2.root = t.root /\ t2.nodes[x] = r
       /\ \A y \in g.used : y # x => t2.nodes[y] = t.nodes[y]
  <2>1. Len(r.keys) >= 1
    BY <1>1, <1>7, <1>12
  <2>2. t.nodes[x].leaf /\ Alike(r, t.nodes[x])
    BY <1>7 DEF n
  <2>3. Fit(r)
    BY <1>7
  <2> QED
    BY <2>1, <2>2, <2>3, <1>13, LeafWritten, SMTT(60)
<1> HIDE DEF t2
<1>15. Tight(t2, g, IF at = 1 THEN {x} ELSE {})
  <2> SUFFICES ASSUME NEW y \in g.used, y \notin (IF at = 1 THEN {x} ELSE {})
               PROVE Num(t2.nodes[y].keys[1]) = g.hi[y]
    BY DEF Tight
  <2>1. CASE y # x
    BY <2>1, <1>14 DEF Tight
  <2>2. CASE y = x
    <3>1. at # 1
      BY <2>2
    <3> QED
      BY <3>1, <2>2, <1>7, <1>8, <1>14
  <2> QED
    BY <2>1, <2>2
<1>16. r.leaf
  BY <1>1, <1>7 DEF Alike
<1>17. Sized(t2, g)
  <2> SUFFICES ASSUME NEW y \in g.used
               PROVE  /\ Len(t2.nodes[y].keys) <= Full(t2.nodes[y])
                      /\ y # t2.root => Len(t2.nodes[y].keys) >= Poor(t2.nodes[y]) - 1
    BY DEF Sized
  <2>2. CASE y # x
    BY <2>2, <1>14 DEF Sized
  <2>3. CASE y = x
    <3>1. Full(r) = Full(n) /\ Poor(r) = Poor(n)
      BY <1>1, <1>16, SameSizes
    <3>2. Len(r.keys) <= Full(n)
      BY <1>1, <1>7, <1>11, <1>12
    <3>3. x # t.root => Len(r.keys) >= Poor(n) - 1
      BY <1>1, <1>7, <1>11, <1>12
    <3> QED
      BY <3>1, <3>2, <3>3, <2>3, <1>14
  <2> QED
    BY <2>2, <2>3
<1>18. ASSUME NEW k PROVE k \in LeafContents(t2) <=> k \in LeafContents(t) /\ k # key
  <2>1. ASSUME Holds(t2, g, k) PROVE Holds(t, g, k) /\ k # key
    <3>1. PICK y \in g.used : t2.nodes[y].leaf /\ \E i \in 1 .. Len(t2.nodes[y].keys) : t2.nodes[y].keys[i] = k
      BY <2>1 DEF Holds
    <3>2. CASE y # x
      <4>1. t.nodes[y].leaf /\ \E i \in 1 .. Len(t.nodes[y].keys) : t.nodes[y].keys[i] = k
        BY <3>1, <3>2, <1>14
      <4>2. k # key
        <5> SUFFICES ASSUME k = key PROVE FALSE
          OBVIOUS
        <5>1. g.lev[y] = 0 /\ Covers(g, y, Num(key))
          BY <4>1, WholeIs
        <5>2. y = x
          BY <5>1, <1>1, <1>3, SameNode
        <5> QED
          BY <5>2, <3>2
      <4> QED
        BY <4>1, <4>2 DEF Holds
    <3>3. CASE y = x
      <4>1. PICK j \in 1 .. Len(r.keys) : r.keys[j] = k
        BY <3>1, <3>3, <1>14
      <4>2. PICK i \in 1 .. Len(n.keys) : i # at /\ k = n.keys[i]
        BY <4>1, <1>7
      <4>3. k # key
        BY <4>2, <1>1, <1>4, SameIndex
      <4> QED
        BY <4>2, <4>3, <1>1 DEF Holds, n
    <3> QED
      BY <3>2, <3>3
  <2>2. ASSUME Holds(t, g, k), k # key PROVE Holds(t2, g, k)
    <3>1. PICK y \in g.used : t.nodes[y].leaf /\ \E i \in 1 .. Len(t.nodes[y].keys) : t.nodes[y].keys[i] = k
      BY <2>2 DEF Holds
    <3>2. CASE y # x
      BY <3>1, <3>2, <1>14 DEF Holds
    <3>3. CASE y = x
      <4>1. PICK i \in 1 .. Len(n.keys) : n.keys[i] = k
        BY <3>1, <3>3 DEF n
      <4>2. i # at
        BY <4>1, <2>2, <1>4
      <4>3. \E j \in 1 .. Len(r.keys) : r.keys[j] = k
        BY <4>1, <4>2, <1>7
      <4> QED
        BY <4>3, <1>14, <1>16 DEF Holds
    <3> QED
      BY <3>2, <3>3
  <2>4. k \in LeafContents(t) <=> k # SentinelKey /\ Holds(t, g, k)
    BY ContentsIs
  <2>5. k \in LeafContents(t2) <=> k # SentinelKey /\ Holds(t2, g, k)
    BY <1>14, ContentsIs
  <2> QED
    BY <2>1, <2>2, <2>4, <2>5
<1> QED
  BY <1>5, <1>10, <1>14, <1>15, <1>17, <1>18 DEF TakenFrom, t2, r, n, f

\* t2 is t with the key of the child at i of p lowered, in p too.
KeyLowered(t, g, t2, p, key, i) ==
    /\ t2.root = t.root
    /\ i = 1 => p # t.root
    /\ \E g2 : /\ Whole(t2, g2) /\ Sized(t2, g2) /\ Kept(g, g2, p)
               /\ IF i = 1 THEN Tight(t2, g2, {p}) /\ g2.hi[p] = Num(key) ELSE Tight(t2, g2, {})
               /\ \A k : Holds(t2, g2, k) <=> Holds(t, g, k)

LEMMA AdjustStep ==
    ASSUME NoNulls, NEW t, NEW g, Whole(t, g), NEW c \in g.used, Tight(t, g, {c}), Sized(t, g),
           NEW p \in g.used, g.lev[p] = g.lev[c] + 1, NEW key \in Keys, g.hi[c] = Num(key),
           Covers(g, p, Num(key))
    PROVE  LET i == FindBiggerOrEqual(t.nodes[p], key)
           IN  KeyLowered(t, g, [t EXCEPT !.nodes[p] =
                                    AdjustKeyNode(t.nodes[p], t.nodes[t.nodes[p].child[i]], i)], p, key, i)
<1> DEFINE i == FindBiggerOrEqual(t.nodes[p], key)
<1>1. key \in AllKeys /\ Num(key) \in Nat /\ Num(key) # Top
  BY KeyIsNoSentinel
<1>2. /\ Fit(t.nodes[p]) /\ t.nodes[p] \in Node /\ Descending(t.nodes[p].keys) /\ g.lev[p] \in Nat
      /\ g.lev[c] \in Nat /\ Len(t.nodes[p].keys) \in Nat /\ t.nodes[p].leaf \in BOOLEAN
  BY WholeIs DEF Fit
<1>3. PICK j \in 1 .. Len(t.nodes[p].keys) : IsChild(t, p, j, c)
  BY HeirOf
<1>4. Num(t.nodes[p].keys[j]) = Num(key)
  BY <1>3, ChildIs
<1>5. i = j
  <2>1. Found(t.nodes[p].keys, Num(key), i)
    BY <1>1, <1>2, SearchIs
  <2> HIDE DEF i
  <2> QED
    BY <2>1, <1>2, <1>4, FoundExact
<1> HIDE DEF i
<1>6. c = t.nodes[p].child[i] /\ IsChild(t, p, i, c)
  BY <1>3, <1>5 DEF IsChild
<1> DEFINE t2 == [t EXCEPT !.nodes[p] = AdjustKeyNode(t.nodes[p], t.nodes[c], i)]
           nx == t.nodes[c].next
           m  == Num(t.nodes[c].keys[1])
           g2 == Lower(g, c, nx, m)
<1>7. /\ Whole(t2, g2) /\ Tight(t2, g2, IF i = 1 THEN {p} ELSE {}) /\ t2.root = t.root
      /\ Lowered(t.nodes[p], t2.nodes[p], i, t.nodes[c].keys[1])
      /\ \A y \in g.used : y # p => t2.nodes[y] = t.nodes[y]
      /\ nx \in g.used /\ g.lev[nx] = g.lev[c] /\ m \in Nat
      /\ \A k : Holds(t2, g2, k) <=> Holds(t, g, k)
  <2>1. g.hi[c] # Top
    BY <1>1
  <2>2. IsChild(t, p, i, c)
    BY <1>6
  <2>3. AdjustUp(t, g, [t EXCEPT !.nodes[p] = AdjustKeyNode(t.nodes[p], t.nodes[c], i)],
                 Lower(g, c, t.nodes[c].next, Num(t.nodes[c].keys[1])), p, i, c)
    BY <2>1, <2>2, AdjustWhole
  <2>4. AdjustUp(t, g, t2, g2, p, i, c)
    BY <2>3
  <2> QED
    BY <2>4 DEF AdjustUp, nx, m
<1>8. g \in Ghosts
  BY DEF Whole
<1> HIDE DEF t2, nx, m
<1>9. /\ g2.used = g.used /\ g2.lev = g.lev
      /\ \A y \in g.used : y # c => g2.hi[y] = g.hi[y]
      /\ \A y \in g.used : y # nx => g2.lo[y] = g.lo[y]
  BY <1>7, <1>8, LowerIs
<1> HIDE DEF g2
<1>10. Kept(g, g2, p)
  <2> SUFFICES ASSUME NEW y \in g.used, g.lev[y] >= g.lev[p]
               PROVE  y \in g2.used /\ g2.lev[y] = g.lev[y] /\ g2.lo[y] = g.lo[y] /\ g2.hi[y] = g.hi[y]
    BY DEF Kept
  <2>1. y # c /\ y # nx
    BY <1>2, <1>7
  <2> QED
    BY <2>1, <1>9
<1>11. i = 1 => g2.hi[p] = Num(key) /\ p # t.root
  <2> SUFFICES ASSUME i = 1 PROVE g2.hi[p] = Num(key) /\ p # t.root
    OBVIOUS
  <2>1. p # c
    BY <1>2
  <2>2. Num(t.nodes[p].keys[1]) = g.hi[p]
    BY <2>1 DEF Tight
  <2>3. g.hi[p] = Num(key)
    BY <2>2, <1>4, <1>5
  <2>4. p = t.root => g.hi[p] = Top
    BY DEF Whole, Rooted
  <2> QED
    BY <2>1, <2>3, <2>4, <1>1, <1>9
<1>12. Sized(t2, g2)
  <2> SUFFICES ASSUME NEW y \in g.used
               PROVE  /\ Len(t2.nodes[y].keys) <= Full(t2.nodes[y])
                      /\ y # t2.root => Len(t2.nodes[y].keys) >= Poor(t2.nodes[y]) - 1
    BY <1>9 DEF Sized
  <2>1. Len(t2.nodes[y].keys) = Len(t.nodes[y].keys) /\ t2.nodes[y].leaf = t.nodes[y].leaf
    BY <1>7 DEF Lowered, Alike
  <2>2. Full(t2.nodes[y]) = Full(t.nodes[y]) /\ Poor(t2.nodes[y]) = Poor(t.nodes[y])
    BY <2>1, SameSizes
  <2> QED
    BY <2>1, <2>2, <1>7 DEF Sized
<1>13. IF i = 1 THEN Tight(t2, g2, {p}) /\ g2.hi[p] = Num(key) ELSE Tight(t2, g2, {})
  BY <1>7, <1>11
<1>14. t2.root = t.root /\ (i = 1 => p # t.root) /\ \A k : Holds(t2, g2, k) <=> Holds(t, g, k)
  BY <1>7, <1>11
<1>15. t2 = [t EXCEPT !.nodes[p] = AdjustKeyNode(t.nodes[p], t.nodes[t.nodes[p].child[i]], i)]
  BY <1>6 DEF t2
<1> HIDE DEF t2
<1>16. KeyLowered(t, g, t2, p, key, i)
  BY <1>7, <1>10, <1>12, <1>13, <1>14 DEF KeyLowered
<1> QED
  BY <1>15, <1>16 DEF i

LEMMA RaiseStep ==
    ASSUME NoNulls, NEW t, NEW g, Whole(t, g), Tight(t, g, {}), Sized(t, g), NeedsSpliting(t.nodes[t.root])
    PROVE  LET t2 == Split(t, NIL_NODE, t.root)
           IN  /\ Forked(t2)
               /\ \E g2 : /\ Whole(t2, g2) /\ Tight(t2, g2, {}) /\ Sized(t2, g2)
                          /\ \A k : Holds(t2, g2, k) <=> Holds(t, g, k)
<1> DEFINE x == t.root
           new == AllocatedId(t)
           t1 == NewRoot(t)
           g1 == Raise(g, new, x)
<1>1. /\ Whole(t1, g1) /\ Tight(t1, g1, {}) /\ t1.root = new /\ new \notin g.used
      /\ IsChild(t1, new, 1, x) /\ Len(t1.nodes[new].keys) = 1
      /\ \A y \in g.used : t1.nodes[y] = t.nodes[y]
      /\ \A k : Holds(t1, g1, k) <=> Holds(t, g, k)
  BY RaiseWhole
<1>2. x \in g.used
  BY DEF Whole, Rooted
<1>3. g1.used = g.used \cup {new}
  BY DEF Raise
<1> HIDE DEF t1, g1, new, x
<1>4. new \in g1.used /\ Fit(t1.nodes[new]) /\ ~t1.nodes[new].leaf
  <2>1. new \in g1.used /\ ~t1.nodes[new].leaf
    BY <1>1, <1>3 DEF IsChild
  <2> QED
    BY <2>1, <1>1, WholeIs
<1>5. /\ Fit(t.nodes[x]) /\ Len(t.nodes[x].keys) \in Nat /\ t1.nodes[x] = t.nodes[x]
  BY <1>1, <1>2, WholeIs
<1>6. /\ Full(t.nodes[x]) \in Nat /\ Poor(t.nodes[x]) \in Nat /\ Len(t.nodes[x].keys) >= Full(t.nodes[x])
      /\ Len(t.nodes[x].keys) <= Full(t.nodes[x])
  <2>1. NeedsSpliting(t.nodes[x])
    BY DEF x
  <2>2. Len(t.nodes[x].keys) <= Full(t.nodes[x])
    BY <1>2 DEF Sized
  <2> QED
    BY <2>1, <2>2, <1>5, SizesIs
<1>7. Len(t1.nodes[new].keys) < Full(t1.nodes[new])
  <2>1. /\ Full(t1.nodes[new]) \in Nat /\ Poor(t1.nodes[new]) \in Nat /\ Poor(t1.nodes[new]) >= 2
        /\ Full(t1.nodes[new]) >= 2 * Poor(t1.nodes[new]) + 1
    BY <1>4, SizesIs
  <2> QED
    BY <2>1, <1>1
<1>8. SizedBut(t1, g1, x)
  <2> SUFFICES ASSUME NEW y \in g1.used, y # x
               PROVE  /\ Len(t1.nodes[y].keys) <= Full(t1.nodes[y])
                      /\ y # t1.root => Len(t1.nodes[y].keys) >= Poor(t1.nodes[y]) - 1
    BY DEF SizedBut
  <2>1. CASE y = new
    <3>1. Full(t1.nodes[new]) \in Nat
      BY <1>4, SizesIs
    <3> QED
      BY <3>1, <2>1, <1>1, <1>7
  <2>2. CASE y # new
    <3>1. y \in g.used /\ t1.nodes[y] = t.nodes[y]
      BY <2>2, <1>1, <1>3
    <3>2. y # t.root
      BY DEF x
    <3> QED
      BY <3>1, <3>2 DEF Sized
  <2> QED
    BY <2>1, <2>2
<1> DEFINE t2 == SplitNode(t1, new, x)
<1>9. Split(t, NIL_NODE, t.root) = t2
  <2>1. NewRoot(t).root = new
    BY <1>1 DEF t1
  <2> QED
    BY <2>1 DEF Split, t1, x
<1>10. /\ t2.root = t1.root /\ Len(t2.nodes[new].keys) = Len(t1.nodes[new].keys) + 1
       /\ \E g2 : /\ Whole(t2, g2) /\ Tight(t2, g2, {}) /\ Sized(t2, g2)
                  /\ \A k : Holds(t2, g2, k) <=> Holds(t1, g1, k)
  <2>1. /\ Len(t1.nodes[x].keys) >= Full(t1.nodes[x])
        /\ Len(t1.nodes[x].keys) <= Full(t1.nodes[x]) + Poor(t1.nodes[x])
    BY <1>5, <1>6
  <2>2. Whole(t1, g1) /\ Tight(t1, g1, {}) /\ IsChild(t1, new, 1, x)
    BY <1>1
  <2>3. /\ t2.root = t1.root /\ Len(t2.nodes[new].keys) = Len(t1.nodes[new].keys) + 1
        /\ \E g2 : /\ Whole(t2, g2) /\ Tight(t2, g2, {}) /\ Sized(t2, g2) /\ Kept(g1, g2, new)
                   /\ \A k : Holds(t2, g2, k) <=> Holds(t1, g1, k)
                   /\ \A d \in g2.used, k \in Nat :
                        g2.lev[d] = g1.lev[x] /\ Covers(g1, x, k) /\ Covers(g2, d, k) =>
                          /\ Len(t2.nodes[d].keys) < Full(t2.nodes[d])
                          /\ Len(t2.nodes[d].keys) >= Poor(t2.nodes[d])
    BY <2>1, <2>2, <1>4, <1>7, <1>8, SplitStep
  <2> QED
    BY <2>3
<1> HIDE DEF t2
<1>11. Forked(t2)
  <2>1. Len(t2.nodes[t2.root].keys) = 2
    BY <1>1, <1>10
  <2> QED
    BY <2>1 DEF Forked
<1>12. PICK g2 : /\ Whole(t2, g2) /\ Tight(t2, g2, {}) /\ Sized(t2, g2)
                 /\ \A k : Holds(t2, g2, k) <=> Holds(t1, g1, k)
  BY <1>10
<1>13. \A k : Holds(t2, g2, k) <=> Holds(t, g, k)
  BY <1>1, <1>12
<1> QED
  BY <1>9, <1>11, <1>12, <1>13

LEMMA CollapseStep ==
    ASSUME NoNulls, NEW t, NEW g, Whole(t, g), Tight(t, g, {}), Sized(t, g)
    PROVE  LET root == t.nodes[t.root]
               t2   == IF ~root.leaf /\ root.child[KeysCount(root)] = root.child[1]
                       THEN FreeNode([t EXCEPT !.root = root.child[1]], t.root)
                       ELSE t
           IN  /\ Forked(t2)
               /\ \E g2 : /\ Whole(t2, g2) /\ Tight(t2, g2, {}) /\ Sized(t2, g2)
                          /\ \A k : Holds(t2, g2, k) <=> Holds(t, g, k)
<1> DEFINE root == t.nodes[t.root]
<1>1. /\ t.root \in g.used /\ Fit(root) /\ Len(root.keys) \in Nat \ {0} /\ KeysCount(root) = Len(root.keys)
      /\ root.leaf \in BOOLEAN
  <2>1. t.root \in g.used
    BY DEF Whole, Rooted
  <2>2. Fit(root) /\ Len(root.keys) \in Nat \ {0} /\ root.leaf \in BOOLEAN
    BY <2>1, WholeIs
  <2>3. KeysCount(root) = Len(root.keys)
    BY <2>2, FitIs
  <2> QED
    BY <2>1, <2>2, <2>3
<1>2. CASE ~root.leaf /\ root.child[Len(root.keys)] = root.child[1]
  <2> DEFINE c  == root.child[1]
             t2 == FreeNode([t EXCEPT !.root = c], t.root)
             g2 == [g EXCEPT !.used = g.used \ {t.root}]
  <2>1. /\ Whole(t2, g2) /\ Tight(t2, g2, {}) /\ t2.root = c
        /\ c \in g.used /\ c # t.root
        /\ \A y \in g.used : y # t.root => t2.nodes[y] = t.nodes[y]
        /\ \A k : Holds(t2, g2, k) <=> Holds(t, g, k)
    BY <1>2, CollapseWhole
  <2>2. g2.used = g.used \ {t.root}
    <3>1. g \in Ghosts
      BY DEF Whole
    <3> QED
      BY <3>1 DEF Ghosts
  <2> HIDE DEF t2, g2, c
  <2>3. Sized(t2, g2)
    BY <2>1, <2>2 DEF Sized
  <2>4. Forked(t2)
    <3> SUFFICES ASSUME ~t2.nodes[c].leaf PROVE Len(t2.nodes[c].keys) >= 2
      BY <2>1 DEF Forked
    <3>1. t2.nodes[c] = t.nodes[c] /\ Len(t.nodes[c].keys) >= Poor(t.nodes[c]) - 1
      BY <2>1 DEF Sized
    <3>2. Fit(t.nodes[c]) /\ ~t.nodes[c].leaf /\ Len(t.nodes[c].keys) \in Nat
      BY <2>1, <3>1, WholeIs
    <3>3. Poor(t.nodes[c]) \in Nat /\ Poor(t.nodes[c]) >= 3
      BY <3>2, SizesIs
    <3> QED
      BY <3>1, <3>2, <3>3
  <2>5. \E gg : /\ Whole(t2, gg) /\ Tight(t2, gg, {}) /\ Sized(t2, gg)
                /\ \A k : Holds(t2, gg, k) <=> Holds(t, g, k)
    BY <2>1, <2>3
  <2> QED
    BY <1>1, <1>2, <2>4, <2>5 DEF t2, c
<1>3. CASE ~(~root.leaf /\ root.child[Len(root.keys)] = root.child[1])
  <2>1. Forked(t)
    <3> SUFFICES ASSUME ~root.leaf PROVE Len(root.keys) >= 2
      BY DEF Forked
    <3> HIDE DEF root
    <3>1. Len(root.keys) # 1
      BY <1>3
    <3>2. Len(root.keys) \in Nat \ {0}
      BY <1>1
    <3> DEFINE len == Len(root.keys)
    <3> HIDE DEF len
    <3>3. len \in Nat /\ len # 0 /\ len # 1
      BY <3>1, <3>2 DEF len
    <3>4. len >= 2
      BY <3>3
    <3> QED
      BY <3>4 DEF len
  <2>2. \E gg : /\ Whole(t, gg) /\ Tight(t, gg, {}) /\ Sized(t, gg)
                /\ \A k : Holds(t, gg, k) <=> Holds(t, g, k)
    OBVIOUS
  <2> HIDE DEF root
  <2>3. (IF ~root.leaf /\ root.child[KeysCount(root)] = root.child[1]
         THEN FreeNode([t EXCEPT !.root = root.child[1]], t.root) ELSE t) = t
    BY <1>1, <1>3
  <2> QED
    BY <2>1, <2>2, <2>3 DEF root
<1> QED
  BY <1>2, <1>3

-----------------------------------------------------------------------------
(* The invariant, with t the tree and o the operation under way. *)

LEMMA WayIs ==
    ASSUME NoNulls, NEW t, NEW g, Whole(t, g), NEW o \in Ops, Way(t, g, o)
    PROVE  /\ Len(o.path) \in Nat \ {0} /\ Deepest(o) \in g.used /\ Covers(g, Deepest(o), Num(o.key))
           /\ o.path \in Seq(Nat) /\ o.key \in AllKeys /\ Num(o.key) \in Nat
           /\ g.lev[Deepest(o)] + Len(o.path) = g.lev[t.root] + 1
           /\ Deepest(o) = t.root <=> Len(o.path) = 1
           /\ \A i \in 1 .. Len(o.path) : g.lev[o.path[i]] >= g.lev[Deepest(o)]
<1>1. o.path \in Seq(Nat) /\ o.key \in AllKeys
  BY DEF Ops
<1>2. Len(o.path) \in Nat \ {0} /\ Len(o.path) \in 1 .. Len(o.path) /\ Num(o.key) \in Nat
  <2>1. Len(o.path) \in Nat /\ Len(o.path) >= 1
    BY <1>1, LenProperties DEF Way
  <2>2. Num(o.key) \in Nat
    BY <1>1, NumIs
  <2> QED
    BY <2>1, <2>2
<1>3. /\ Deepest(o) \in g.used /\ Covers(g, Deepest(o), Num(o.key))
      /\ g.lev[Deepest(o)] + Len(o.path) = g.lev[t.root] + 1
  BY <1>2 DEF Way, Deepest
<1>4. t.root \in g.used
  BY DEF Whole, Rooted
<1>5. g.lev[Deepest(o)] \in Nat /\ g.lev[t.root] \in Nat
  BY <1>3, <1>4, WholeIs
<1>6. Deepest(o) = t.root <=> Len(o.path) = 1
  <2>1. Deepest(o) = t.root => Len(o.path) = 1
    <3> SUFFICES ASSUME Deepest(o) = t.root PROVE Len(o.path) = 1
      OBVIOUS
    <3>1. g.lev[t.root] + Len(o.path) = g.lev[t.root] + 1
      BY <1>3
    <3>2. g.lev[t.root] \in Nat /\ Len(o.path) \in Nat
      BY <1>2, <1>5
    <3> DEFINE top == g.lev[t.root]
               len == Len(o.path)
    <3>3. top \in Nat /\ len \in Nat /\ top + len = top + 1
      BY <3>1, <3>2
    <3> HIDE DEF top, len
    <3>4. len = 1
      BY <3>3
    <3> QED
      BY <3>4 DEF len
  <2>2. Len(o.path) = 1 => Deepest(o) = t.root
    BY DEF Way, Deepest
  <2> QED
    BY <2>1, <2>2
<1>7. ASSUME NEW i \in 1 .. Len(o.path) PROVE g.lev[o.path[i]] >= g.lev[Deepest(o)]
  <2>1. g.lev[o.path[i]] \in Nat /\ g.lev[o.path[i]] + i = g.lev[t.root] + 1
    BY WholeIs DEF Way
  <2> QED
    BY <2>1, <1>2, <1>3, <1>5
<1> QED
  BY <1>1, <1>2, <1>3, <1>6, <1>7

\* The way is not touched by what happens below its nodes; it may be cut.
LEMMA WayKept ==
    ASSUME NoNulls, NEW t, NEW g, Whole(t, g), NEW o \in Ops, Way(t, g, o),
           NEW t2, NEW g2, t2.root = t.root, NEW o2, o2.key = o.key,
           NEW p, p \in g.used, \A i \in 1 .. Len(o2.path) : g.lev[o.path[i]] >= g.lev[p],
           Kept(g, g2, p),
           Len(o2.path) \in 1 .. Len(o.path), \A i \in 1 .. Len(o2.path) : o2.path[i] = o.path[i]
    PROVE  Way(t2, g2, o2)
<1>1. Len(o.path) \in Nat \ {0}
  BY WayIs
<1>2. ASSUME NEW i \in 1 .. Len(o2.path)
      PROVE  /\ o2.path[i] \in g2.used /\ g2.lev[o2.path[i]] = g.lev[o.path[i]]
             /\ Covers(g2, o2.path[i], Num(o2.key))
  <2>1. i \in 1 .. Len(o.path) /\ o2.path[i] = o.path[i]
    BY <1>1
  <2>2. o.path[i] \in g.used /\ Covers(g, o.path[i], Num(o.key))
    BY <2>1 DEF Way
  <2>3. /\ o.path[i] \in g2.used /\ g2.lev[o.path[i]] = g.lev[o.path[i]]
        /\ g2.lo[o.path[i]] = g.lo[o.path[i]] /\ g2.hi[o.path[i]] = g.hi[o.path[i]]
    BY <2>2 DEF Kept
  <2> QED
    BY <2>1, <2>2, <2>3 DEF Covers
<1>3. 1 \in 1 .. Len(o2.path) /\ 1 \in 1 .. Len(o.path)
  BY <1>1
<1>4. o.path[1] = t.root /\ o2.path[1] = t2.root /\ g2.lev[t2.root] = g.lev[t.root]
  BY <1>2, <1>3 DEF Way
<1>5. ASSUME NEW i \in 1 .. Len(o2.path) PROVE g2.lev[o2.path[i]] + i = g2.lev[t2.root] + 1
  <2>1. i \in 1 .. Len(o.path)
    BY <1>1
  <2>2. g.lev[o.path[i]] + i = g.lev[t.root] + 1
    BY <2>1 DEF Way
  <2> QED
    BY <2>2, <1>2, <1>4
<1>6. Len(o2.path) >= 1
  BY <1>1
<1> QED
  BY <1>2, <1>4, <1>5, <1>6 DEF Way

StepOn(t, g, o, o2, c) ==
    /\ Way(t, g, o2) /\ Deepest(o2) = c /\ Len(o2.path) = Len(o.path) + 1
    /\ o2.path[Len(o2.path) - 1] = Deepest(o) /\ o2.path \in Seq(Nat)

\* A node of the next level that covers the key is a step further on the way.
LEMMA WayOn ==
    ASSUME NoNulls, NEW t, NEW g, Whole(t, g), NEW o \in Ops, Way(t, g, o),
           NEW c \in g.used, g.lev[Deepest(o)] = g.lev[c] + 1, Covers(g, c, Num(o.key)),
           NEW o2, o2.key = o.key, o2.path = Append(o.path, c)
    PROVE  StepOn(t, g, o, o2, c)
<1>1. /\ Len(o.path) \in Nat \ {0} /\ o.path \in Seq(Nat)
      /\ g.lev[Deepest(o)] + Len(o.path) = g.lev[t.root] + 1
  BY WayIs
<1>2. c \in Nat /\ g.lev[c] \in Nat /\ g.lev[t.root] \in Nat
  <2>1. t.root \in g.used
    BY DEF Whole, Rooted
  <2> QED
    BY <2>1, WholeIs
<1>3. /\ Len(o2.path) = Len(o.path) + 1 /\ o2.path \in Seq(Nat)
      /\ \A i \in 1 .. Len(o.path) : o2.path[i] = o.path[i]
      /\ o2.path[Len(o.path) + 1] = c
  BY <1>1, <1>2
<1>4. ASSUME NEW i \in 1 .. Len(o2.path)
      PROVE  /\ o2.path[i] \in g.used /\ g.lev[o2.path[i]] + i = g.lev[t.root] + 1
             /\ Covers(g, o2.path[i], Num(o2.key))
  <2>1. CASE i \in 1 .. Len(o.path)
    BY <2>1, <1>3 DEF Way
  <2>2. CASE i = Len(o.path) + 1
    <3>1. g.lev[c] + i = g.lev[t.root] + 1
      <4>1. (g.lev[c] + 1) + Len(o.path) = g.lev[t.root] + 1
        BY <1>1
      <4>2. g.lev[c] \in Nat /\ g.lev[t.root] \in Nat /\ Len(o.path) \in Nat
        BY <1>1, <1>2
      <4>3. g.lev[c] + (Len(o.path) + 1) = g.lev[t.root] + 1
        BY <4>1, <4>2
      <4> QED
        BY <2>2, <4>3
    <3> QED
      BY <3>1, <2>2, <1>3
  <2> QED
    BY <2>1, <2>2, <1>1, <1>3
<1>5. 1 \in 1 .. Len(o.path) /\ Len(o2.path) >= 1 /\ Len(o2.path) - 1 = Len(o.path) /\ Len(o.path) \in 1 .. Len(o.path)
  BY <1>1, <1>3
<1>6. o2.path[1] = t.root
  BY <1>3, <1>5 DEF Way
<1>7. o2.path[Len(o2.path) - 1] = Deepest(o) /\ Deepest(o2) = c
  BY <1>3, <1>5 DEF Deepest
<1> QED
  BY <1>3, <1>4, <1>5, <1>6, <1>7 DEF Way, StepOn

-----------------------------------------------------------------------------
(* What each action keeps. *)

LEMMA FrontIs ==
    ASSUME NEW S, NEW s \in Seq(S), Len(s) >= 1
    PROVE  /\ Front(s) \in Seq(S) /\ Len(Front(s)) = Len(s) - 1
           /\ \A i \in 1 .. Len(s) - 1 : Front(s)[i] = s[i]
<1>1. Len(s) \in Nat
  BY LenProperties
<1> DEFINE m == Len(s) - 1
<1>2. 1 \in 1 .. Len(s) + 1 /\ m \in 1 - 1 .. Len(s) /\ m - 1 + 1 = m
  BY <1>1
<1>3. Front(s) = SubSeq(s, 1, m)
  BY DEF Front
<1> HIDE DEF m
<1>4. /\ SubSeq(s, 1, m) \in Seq(S) /\ Len(SubSeq(s, 1, m)) = m - 1 + 1
      /\ \A k \in 1 .. m - 1 + 1 : SubSeq(s, 1, m)[k] = s[1 + k - 1]
  BY <1>2, PartIs
<1>5. ASSUME NEW k \in 1 .. m PROVE SubSeq(s, 1, m)[k] = s[k]
  <2>1. k \in Int /\ 1 + k - 1 = k /\ k \in 1 .. m - 1 + 1
    BY <1>2
  <2> QED
    BY <2>1, <1>4
<1>6. Len(SubSeq(s, 1, m)) = m
  BY <1>2, <1>4
<1> QED
  BY <1>3, <1>4, <1>5, <1>6 DEF m

LEMMA SoundIs ==
    ASSUME NoNulls, NEW t, NEW g, NEW o, Sound(t, g, o)
    PROVE  /\ Whole(t, g) /\ Sized(t, g) /\ o \in Ops
           /\ o = [kind |-> o.kind, key |-> o.key, path |-> o.path]
           /\ t.root \in g.used
           /\ o.kind = "idle" => AtRest(t, g, o)
           /\ o.kind = "insert" => Inserting(t, g, o)
           /\ o.kind = "remove" => Removing(t, g, o)
           /\ o.kind = "adjust" => Adjusting(t, g, o)
           /\ o.kind = "collapse" => Collapsing(t, g, o)
<1>1. Whole(t, g) /\ Sized(t, g) /\ o \in Ops /\ Phase(t, g, o)
  BY DEF Sound
<1>2. /\ AtRest(t, g, o) => o.kind = "idle"
      /\ Inserting(t, g, o) => o.kind = "insert"
      /\ Removing(t, g, o) => o.kind = "remove"
      /\ Adjusting(t, g, o) => o.kind = "adjust"
      /\ Collapsing(t, g, o) => o.kind = "collapse"
  BY DEF AtRest, Idle, Inserting, Removing, Adjusting, Collapsing
<1>3. o = [kind |-> o.kind, key |-> o.key, path |-> o.path]
  BY <1>1 DEF Ops
<1>4. t.root \in g.used
  BY <1>1 DEF Whole, Rooted
<1>5. /\ o.kind = "idle" => AtRest(t, g, o)
      /\ o.kind = "insert" => Inserting(t, g, o)
      /\ o.kind = "remove" => Removing(t, g, o)
      /\ o.kind = "adjust" => Adjusting(t, g, o)
      /\ o.kind = "collapse" => Collapsing(t, g, o)
  BY <1>1, <1>2 DEF Phase
<1> QED
  BY <1>1, <1>3, <1>4, <1>5

LEMMA OnBegin ==
    ASSUME NoNulls, NEW t, NEW g, NEW o, Sound(t, g, o), o.kind = "idle",
           NEW kind \in {"insert", "remove"}, NEW key \in Keys,
           kind = "insert" => key \notin LeafContents(t), kind = "remove" => key \in LeafContents(t),
           NEW o2, o2 = [kind |-> kind, key |-> key, path |-> <<t.root>>]
    PROVE  Sound(t, g, o2)
<1>1. Whole(t, g) /\ Sized(t, g) /\ t.root \in g.used /\ Tight(t, g, {}) /\ Forked(t)
  BY SoundIs DEF AtRest
<1>2. t.root \in Nat /\ g.lev[t.root] \in Nat
  BY <1>1, WholeIs
<1>3. key \in AllKeys /\ Num(key) \in Nat \ {0} /\ Num(key) <= Top
  BY KeyIsNoSentinel
<1>4. <<t.root>> \in Seq(Nat) /\ Len(<<t.root>>) = 1 /\ <<t.root>>[1] = t.root
  BY <1>2
<1>5. o2 \in Ops /\ o2.kind = kind /\ o2.key = key /\ o2.path = <<t.root>>
  BY <1>3, <1>4 DEF Ops
<1>6. Covers(g, t.root, Num(key))
  <2>1. g.lo[t.root] = 0 /\ g.hi[t.root] = Top
    BY <1>1 DEF Whole, Rooted
  <2> QED
    BY <2>1, <1>3 DEF Covers
<1>7. Way(t, g, o2) /\ Deepest(o2) = t.root /\ Len(o2.path) = 1
  <2>1. Len(o2.path) = 1 /\ o2.path[1] = t.root
    BY <1>4, <1>5
  <2>2. \A i \in 1 .. Len(o2.path) : i = 1
    BY <2>1
  <2> QED
    BY <2>1, <2>2, <1>1, <1>5, <1>6 DEF Way, Deepest
<1>8. CASE kind = "insert"
  <2>1. ~(Len(o2.path) > 1)
    BY <1>7
  <2>2. Inserting(t, g, o2)
    BY <2>1, <1>1, <1>5, <1>7, <1>8 DEF Inserting
  <2> QED
    BY <2>2, <1>1, <1>5 DEF Sound, Phase
<1>9. CASE kind = "remove"
  <2>1. Ready(t, Deepest(o2))
    BY <1>1, <1>7 DEF Ready
  <2>2. Removing(t, g, o2)
    BY <2>1, <1>1, <1>5, <1>7, <1>9 DEF Removing
  <2> QED
    BY <2>2, <1>1, <1>5 DEF Sound, Phase
<1> QED
  BY <1>8, <1>9

LEMMA OnInsertSplits ==
    ASSUME NoNulls, NEW t, NEW g, NEW o, Sound(t, g, o), o.kind = "insert",
           NeedsSpliting(t.nodes[Deepest(o)]),
           NEW parent, NEW t2, t2 = Split(t, parent, Deepest(o)), NEW o2,
           Len(o.path) = 1 => parent = NIL_NODE /\ o2 = [o EXCEPT !.path = <<t2.root>>],
           Len(o.path) # 1 =>
             /\ parent = o.path[Len(o.path) - 1]
             /\ o2 = [o EXCEPT !.path =
                         Append(Front(o.path),
                                t2.nodes[parent].child[FindBiggerOrEqual(t2.nodes[parent], o.key)])]
    PROVE  \E g2 : Sound(t2, g2, o2) /\ \A k : Holds(t2, g2, k) <=> Holds(t, g, k)
<1>1. /\ Whole(t, g) /\ Sized(t, g) /\ o \in Ops /\ t.root \in g.used /\ Inserting(t, g, o)
      /\ Tight(t, g, {}) /\ Forked(t) /\ Way(t, g, o) /\ o.key \in Keys /\ o.key \notin LeafContents(t)
      /\ Len(o.path) > 1 => \/ ~NeedsSpliting(t.nodes[o.path[Len(o.path) - 1]])
                            \/ ~NeedsSpliting(t.nodes[Deepest(o)])
  BY SoundIs DEF Inserting
<1>2. /\ Len(o.path) \in Nat \ {0} /\ Deepest(o) \in g.used /\ Covers(g, Deepest(o), Num(o.key))
      /\ o.path \in Seq(Nat) /\ o.key \in AllKeys /\ Num(o.key) \in Nat
      /\ g.lev[Deepest(o)] + Len(o.path) = g.lev[t.root] + 1
      /\ Deepest(o) = t.root <=> Len(o.path) = 1
      /\ \A i \in 1 .. Len(o.path) : g.lev[o.path[i]] >= g.lev[Deepest(o)]
  BY <1>1, WayIs
<1>3. o2.kind = "insert" /\ o2.key = o.key
  BY <1>1 DEF Ops
<1>4. CASE Len(o.path) = 1
  <2>1. t2 = Split(t, NIL_NODE, t.root) /\ NeedsSpliting(t.nodes[t.root])
    BY <1>2, <1>4
  <2>2. Forked(t2) /\ \E g2 : /\ Whole(t2, g2) /\ Tight(t2, g2, {}) /\ Sized(t2, g2)
                              /\ \A k : Holds(t2, g2, k) <=> Holds(t, g, k)
    BY <2>1, <1>1, RaiseStep
  <2>3. PICK g2 : /\ Whole(t2, g2) /\ Tight(t2, g2, {}) /\ Sized(t2, g2)
                  /\ \A k : Holds(t2, g2, k) <=> Holds(t, g, k)
    BY <2>2
  <2>4. /\ t2.root \in g2.used /\ g2.lo[t2.root] = 0 /\ g2.hi[t2.root] = Top
    BY <2>3 DEF Whole, Rooted
  <2>5. t2.root \in Nat /\ g2.lev[t2.root] \in Nat
    BY <2>3, <2>4, WholeIs
  <2>6. o2.path = <<t2.root>>
    BY <1>1, <1>4 DEF Ops
  <2>7. Len(o2.path) = 1 /\ o2.path[1] = t2.root /\ o2.path \in Seq(Nat)
    <3>1. Len(<<t2.root>>) = 1 /\ <<t2.root>>[1] = t2.root /\ <<t2.root>> \in Seq(Nat)
      BY <2>5
    <3> QED
      BY <3>1, <2>6
  <2>8. o2 \in Ops
    <3>1. o2 = [kind |-> "insert", key |-> o.key, path |-> o2.path]
      BY <1>1, <1>3 DEF Ops
    <3> QED
      BY <3>1, <2>7, <1>2 DEF Ops
  <2>9. Covers(g2, t2.root, Num(o2.key))
    <3>1. Num(o.key) \in Nat \ {0} /\ Num(o.key) <= Top
      BY <1>1, KeyIsNoSentinel
    <3> QED
      BY <3>1, <2>4, <1>3 DEF Covers
  <2>10. Way(t2, g2, o2)
    <3>1. ASSUME NEW i \in 1 .. Len(o2.path)
          PROVE  /\ o2.path[i] \in g2.used /\ g2.lev[o2.path[i]] + i = g2.lev[t2.root] + 1
                 /\ Covers(g2, o2.path[i], Num(o2.key))
      <4>1. i \in 1 .. 1
        BY <2>7
      <4>2. i = 1
        BY <4>1
      <4>3. o2.path[i] = t2.root
        BY <4>2, <2>7
      <4> QED
        BY <4>2, <4>3, <2>4, <2>9
    <3>2. Len(o2.path) >= 1
      BY <2>7
    <3> QED
      BY <3>1, <3>2, <2>7 DEF Way
  <2>11. o2.key \notin LeafContents(t2)
    BY <1>1, <1>3, <2>3, ContentsIs
  <2>12. ~(Len(o2.path) > 1)
    BY <2>7
  <2>13. Inserting(t2, g2, o2)
    BY <2>2, <2>3, <2>10, <2>11, <2>12, <1>1, <1>3 DEF Inserting
  <2> QED
    BY <2>3, <2>8, <2>13 DEF Sound, Phase
<1>5. CASE Len(o.path) # 1
  <2> DEFINE x == Deepest(o)
             d == Len(o.path) - 1
             p == o.path[d]
  <2>1. d \in 1 .. Len(o.path) /\ d + 1 = Len(o.path) /\ Len(o.path) > 1 /\ d \in Nat \ {0}
    <3> DEFINE len == Len(o.path)
    <3>1. len \in Nat \ {0} /\ len # 1
      BY <1>2, <1>5
    <3> HIDE DEF len
    <3>2. len - 1 \in 1 .. len /\ (len - 1) + 1 = len /\ len > 1 /\ len - 1 \in Nat \ {0}
      BY <3>1
    <3> QED
      BY <3>2 DEF len
  <2>2. parent = p
    BY <1>5
  <2> HIDE DEF d
  <2>3. p \in g.used /\ g.lev[p] + d = g.lev[t.root] + 1 /\ Covers(g, p, Num(o.key))
    BY <2>1, <1>1 DEF Way
  <2> HIDE DEF p, x
  <2>4. x \in g.used /\ g.lev[x] + (d + 1) = g.lev[t.root] + 1 /\ Covers(g, x, Num(o.key)) /\ NeedsSpliting(t.nodes[x])
    BY <1>2, <2>1 DEF x
  <2>5. g.lev[p] \in Nat /\ g.lev[x] \in Nat /\ g.lev[t.root] \in Nat /\ p # 0 /\ Fit(t.nodes[p]) /\ Fit(t.nodes[x])
        /\ t.nodes[p].leaf \in BOOLEAN /\ (t.nodes[p].leaf <=> g.lev[p] = 0) /\ Len(t.nodes[p].keys) \in Nat
        /\ Len(t.nodes[x].keys) \in Nat
    BY <1>1, <2>3, <2>4, WholeIs
  <2>6. g.lev[p] = g.lev[x] + 1
    <3> DEFINE a == g.lev[p]
               b == g.lev[x]
               top == g.lev[t.root]
    <3>1. a \in Nat /\ b \in Nat /\ top \in Nat /\ d \in Nat /\ a + d = top + 1 /\ b + (d + 1) = top + 1
      BY <2>1, <2>3, <2>4, <2>5
    <3> HIDE DEF a, b, top
    <3>2. a = b + 1
      BY <3>1
    <3> QED
      BY <3>2 DEF a, b
  <2>7. ~t.nodes[p].leaf
    BY <2>5, <2>6
  <2>8. Num(t.nodes[p].keys[1]) = g.hi[p]
    BY <1>1, <2>3 DEF Tight
  <2>9. PICK i : IsChild(t, p, i, x)
    <3>1. LET f == FindBiggerOrEqual(t.nodes[p], o.key)
              c == t.nodes[p].child[f]
          IN  /\ IsChild(t, p, f, c)
              /\ \A y \in g.used : g.lev[p] = g.lev[y] + 1 /\ Covers(g, y, Num(o.key)) => y = c
      BY <1>1, <1>2, <2>3, <2>7, <2>8, Below
    <3> QED
      BY <3>1, <2>4, <2>6
  <2>10. ~NeedsSpliting(t.nodes[p])
    BY <1>1, <2>1, <2>4 DEF d, p, x
  <2>11. t2 = SplitNode(t, p, x)
    BY <2>2, <2>4, <2>5 DEF Split, NIL_NODE, x
  <2>12. /\ SizedBut(t, g, x) /\ Len(t.nodes[x].keys) >= Full(t.nodes[x])
         /\ Len(t.nodes[x].keys) <= Full(t.nodes[x]) + Poor(t.nodes[x])
         /\ Len(t.nodes[p].keys) < Full(t.nodes[p])
    <3>1. /\ Full(t.nodes[x]) \in Nat /\ Poor(t.nodes[x]) \in Nat /\ Full(t.nodes[p]) \in Nat
          /\ NeedsSpliting(t.nodes[x]) <=> Len(t.nodes[x].keys) >= Full(t.nodes[x])
          /\ NeedsSpliting(t.nodes[p]) <=> Len(t.nodes[p].keys) >= Full(t.nodes[p])
      BY <2>5, SizesIs
    <3>2. Len(t.nodes[x].keys) <= Full(t.nodes[x])
      BY <1>1, <2>4 DEF Sized
    <3>3. SizedBut(t, g, x)
      BY <1>1 DEF Sized, SizedBut
    <3>4. Len(t.nodes[x].keys) <= Full(t.nodes[x]) + Poor(t.nodes[x])
      BY <3>1, <3>2, <2>5
    <3>5. Len(t.nodes[p].keys) < Full(t.nodes[p])
      BY <3>1, <2>5, <2>10
    <3> QED
      BY <3>1, <3>3, <3>4, <3>5, <2>4
  <2>13. LET u == SplitNode(t, p, x)
         IN  /\ u.root = t.root
             /\ \A y \in g.used \ {x} : u.nodes[y].leaf = t.nodes[y].leaf
                                     /\ Len(u.nodes[y].keys) >= Len(t.nodes[y].keys)
             /\ \E g2 : /\ Whole(u, g2) /\ Tight(u, g2, {}) /\ Sized(u, g2) /\ Kept(g, g2, p)
                        /\ \A k : Holds(u, g2, k) <=> Holds(t, g, k)
                        /\ \A c \in g2.used, k \in Nat :
                             g2.lev[c] = g.lev[x] /\ Covers(g, x, k) /\ Covers(g2, c, k) =>
                               /\ Len(u.nodes[c].keys) < Full(u.nodes[c])
                               /\ Len(u.nodes[c].keys) >= Poor(u.nodes[c])
    BY <1>1, <2>3, <2>9, <2>12, SplitStep
  <2>14. /\ t2.root = t.root
         /\ \A y \in g.used \ {x} : t2.nodes[y].leaf = t.nodes[y].leaf
                                 /\ Len(t2.nodes[y].keys) >= Len(t.nodes[y].keys)
         /\ \E g2 : /\ Whole(t2, g2) /\ Tight(t2, g2, {}) /\ Sized(t2, g2) /\ Kept(g, g2, p)
                    /\ \A k : Holds(t2, g2, k) <=> Holds(t, g, k)
                    /\ \A c \in g2.used, k \in Nat :
                         g2.lev[c] = g.lev[x] /\ Covers(g, x, k) /\ Covers(g2, c, k) =>
                           /\ Len(t2.nodes[c].keys) < Full(t2.nodes[c])
                           /\ Len(t2.nodes[c].keys) >= Poor(t2.nodes[c])
    BY <2>11, <2>13
  <2>15. PICK g2 : /\ Whole(t2, g2) /\ Tight(t2, g2, {}) /\ Sized(t2, g2) /\ Kept(g, g2, p)
                   /\ \A k : Holds(t2, g2, k) <=> Holds(t, g, k)
                   /\ \A c \in g2.used, k \in Nat :
                        g2.lev[c] = g.lev[x] /\ Covers(g, x, k) /\ Covers(g2, c, k) =>
                          Len(t2.nodes[c].keys) < Full(t2.nodes[c])
    BY <2>14
  <2>16. /\ p \in g2.used /\ g2.lev[p] = g.lev[p] /\ g2.lo[p] = g.lo[p] /\ g2.hi[p] = g.hi[p]
    <3>1. g.lev[p] >= g.lev[p]
      BY <2>5
    <3> QED
      BY <3>1, <2>3, <2>15 DEF Kept
  <2>17. ~t2.nodes[p].leaf /\ p # x
    <3>1. p # x
      BY <2>5, <2>6
    <3> QED
      BY <3>1, <2>3, <2>7, <2>14
  <2>18. Covers(g2, p, Num(o.key)) /\ Num(t2.nodes[p].keys[1]) = g2.hi[p]
    BY <2>3, <2>15, <2>16 DEF Covers, Tight
  <2> DEFINE c == t2.nodes[p].child[FindBiggerOrEqual(t2.nodes[p], o.key)]
  <2>19. c \in g2.used /\ g2.lev[p] = g2.lev[c] + 1 /\ Covers(g2, c, Num(o.key))
    BY SMTT(30), <2>15, <2>16, <2>17, <2>18, <1>2, Below
  <2>20. o2.path = Append(Front(o.path), c)
    BY <1>1, <1>5, <2>2 DEF Ops
  <2> HIDE DEF c
  <2>21. Front(o.path) \in Seq(Nat) /\ Len(Front(o.path)) = d /\ \A i2 \in 1 .. d : Front(o.path)[i2] = o.path[i2]
    <3>1. Len(o.path) >= 1
      BY <1>2
    <3> QED
      BY <3>1, <1>2, <2>1, FrontIs DEF d
  <2> DEFINE o1 == [kind |-> "insert", key |-> o.key, path |-> Front(o.path)]
  <2>22. o1 \in Ops /\ o1.key = o.key /\ o1.path = Front(o.path)
    BY <1>2, <2>21 DEF Ops
  <2> HIDE DEF o1
  <2>23. Way(t2, g2, o1) /\ Deepest(o1) = p
    <3>1. \A i2 \in 1 .. Len(o1.path) : g.lev[o.path[i2]] >= g.lev[p]
      <4> SUFFICES ASSUME NEW i2 \in 1 .. d PROVE g.lev[o.path[i2]] >= g.lev[p]
        BY <2>21, <2>22
      <4>1. i2 \in 1 .. Len(o.path) /\ i2 <= d /\ i2 \in Nat
        BY <2>1
      <4>2. o.path[i2] \in g.used /\ g.lev[o.path[i2]] + i2 = g.lev[t.root] + 1
        BY <4>1, <1>1 DEF Way
      <4>3. g.lev[o.path[i2]] \in Nat
        BY <4>2, <1>1, WholeIs
      <4> DEFINE a == g.lev[o.path[i2]]
                 b == g.lev[p]
                 top == g.lev[t.root]
      <4>4. a \in Nat /\ b \in Nat /\ top \in Nat /\ d \in Nat /\ i2 <= d /\ i2 \in Nat
            /\ a + i2 = top + 1 /\ b + d = top + 1
        BY <4>1, <4>2, <4>3, <2>1, <2>3, <2>5
      <4> HIDE DEF a, b, top
      <4>5. a >= b
        BY <4>4
      <4> QED
        BY <4>5 DEF a, b
    <3>2. Len(o1.path) \in 1 .. Len(o.path) /\ \A i2 \in 1 .. Len(o1.path) : o1.path[i2] = o.path[i2]
      BY <2>1, <2>21, <2>22
    <3>3. Way(t2, g2, o1)
      BY <3>1, <3>2, <1>1, <2>3, <2>14, <2>15, <2>22, WayKept
    <3>4. Deepest(o1) = p
      <4>1. d \in 1 .. d
        BY <2>1
      <4> QED
        BY <4>1, <2>21, <2>22 DEF Deepest, p
    <3> QED
      BY <3>3, <3>4
  <2>24. /\ Way(t2, g2, o2) /\ Deepest(o2) = c
         /\ o2.path \in Seq(Nat)
    <3>1. g2.lev[Deepest(o1)] = g2.lev[c] + 1 /\ Covers(g2, c, Num(o1.key))
      BY <2>19, <2>22, <2>23
    <3>2. o2.key = o1.key /\ o2.path = Append(o1.path, c)
      BY <2>20, <2>22, <1>3
    <3>3. Whole(t2, g2) /\ o1 \in Ops /\ Way(t2, g2, o1) /\ c \in g2.used
      BY <2>15, <2>19, <2>22, <2>23
    <3>4. StepOn(t2, g2, o1, o2, c)
      BY <3>1, <3>2, <3>3, WayOn
    <3> QED
      BY <3>4 DEF StepOn
  <2>25. o2 \in Ops
    <3>1. o2 = [kind |-> "insert", key |-> o.key, path |-> o2.path]
      BY <1>1, <1>3 DEF Ops
    <3> QED
      BY <3>1, <2>24, <1>2 DEF Ops
  <2>26. ~NeedsSpliting(t2.nodes[c])
    <3>1. g2.lev[c] \in Nat /\ Fit(t2.nodes[c]) /\ Len(t2.nodes[c].keys) \in Nat
      BY <2>15, <2>19, WholeIs
    <3>2. g2.lev[c] = g.lev[x]
      BY <3>1, <2>5, <2>6, <2>16, <2>19
    <3>3. Len(t2.nodes[c].keys) < Full(t2.nodes[c])
      BY <3>2, <1>2, <2>4, <2>15, <2>19
    <3>4. Full(t2.nodes[c]) \in Nat /\ (NeedsSpliting(t2.nodes[c]) <=> Len(t2.nodes[c].keys) >= Full(t2.nodes[c]))
      BY <3>1, SizesIs
    <3> QED
      BY <3>1, <3>3, <3>4
  <2>27. Forked(t2)
    <3>1. t.root # x
      BY <1>2, <1>5 DEF x
    <3>2. t2.nodes[t.root].leaf = t.nodes[t.root].leaf /\ Len(t2.nodes[t.root].keys) >= Len(t.nodes[t.root].keys)
      BY <3>1, <1>1, <2>14
    <3>3. Len(t.nodes[t.root].keys) \in Nat /\ Len(t2.nodes[t.root].keys) \in Nat
      <4>1. t.root \in g2.used
        BY <2>14, <2>15 DEF Whole, Rooted
      <4> QED
        BY <4>1, <1>1, <2>15, WholeIs
    <3>4. ~t.nodes[t.root].leaf => Len(t2.nodes[t.root].keys) >= 2
      BY <1>1, <3>2, <3>3 DEF Forked
    <3> QED
      BY <3>2, <3>4, <2>14 DEF Forked
  <2>28. o2.key \notin LeafContents(t2)
    BY <1>1, <1>3, <2>15, ContentsIs
  <2>29. Inserting(t2, g2, o2)
    BY <2>15, <2>24, <2>26, <2>27, <2>28, <1>1, <1>3 DEF Inserting
  <2> QED
    BY <2>15, <2>25, <2>29 DEF Sound, Phase
<1> QED
  BY <1>4, <1>5

\* The child that the search of the deepest node leads to.
Next1(t, o) == t.nodes[Deepest(o)].child[FindBiggerOrEqual(t.nodes[Deepest(o)], o.key)]

LEMMA ChildOnWay ==
    ASSUME NoNulls, NEW t, NEW g, Whole(t, g), NEW o \in Ops, Way(t, g, o), Tight(t, g, {}),
           ~t.nodes[Deepest(o)].leaf
    PROVE  /\ \E i : IsChild(t, Deepest(o), i, Next1(t, o))
           /\ Next1(t, o) \in g.used /\ g.lev[Deepest(o)] = g.lev[Next1(t, o)] + 1
           /\ Covers(g, Next1(t, o), Num(o.key)) /\ Next1(t, o) # t.root
<1> DEFINE p == Deepest(o)
           f == FindBiggerOrEqual(t.nodes[p], o.key)
           c == t.nodes[p].child[f]
<1>1. p \in g.used /\ Covers(g, p, Num(o.key)) /\ o.key \in AllKeys
  BY WayIs
<1>2. Num(t.nodes[p].keys[1]) = g.hi[p] /\ ~t.nodes[p].leaf
  BY <1>1 DEF Tight
<1> HIDE DEF p
<1>3. IsChild(t, p, f, c) /\ c \in g.used /\ g.lev[p] = g.lev[c] + 1 /\ Covers(g, c, Num(o.key))
  BY <1>1, <1>2, Below
<1> HIDE DEF f, c
<1>4. c # t.root
  BY <1>1, <1>3, ChildIs
<1>5. Next1(t, o) = c
  BY DEF Next1, c, f, p
<1> QED
  BY <1>3, <1>4, <1>5 DEF p

LEMMA GoesDown ==
    ASSUME NoNulls, NEW t, NEW g, Whole(t, g), NEW o \in Ops, Way(t, g, o), Tight(t, g, {}),
           ~t.nodes[Deepest(o)].leaf, NEW o2, o2 = [o EXCEPT !.path = Append(o.path, Next1(t, o))]
    PROVE  o2 \in Ops /\ o2.kind = o.kind /\ o2.key = o.key /\ StepOn(t, g, o, o2, Next1(t, o))
<1> DEFINE c == Next1(t, o)
<1>1. c \in g.used /\ g.lev[Deepest(o)] = g.lev[c] + 1 /\ Covers(g, c, Num(o.key))
  BY ChildOnWay
<1>2. c \in Nat
  BY <1>1, WholeIs
<1>3. o2.path = Append(o.path, c) /\ o2.kind = o.kind /\ o2.key = o.key
  BY DEF Ops
<1> HIDE DEF c
<1>4. StepOn(t, g, o, o2, c)
  BY <1>1, <1>3, WayOn
<1>5. o2.path \in Seq(Nat)
  BY <1>4 DEF StepOn
<1>6. o2 = [kind |-> o.kind, key |-> o.key, path |-> o2.path]
  <2>1. o2 = [kind |-> o2.kind, key |-> o2.key, path |-> o2.path]
    BY DEF Ops
  <2> QED
    BY <2>1, <1>3
<1>7. o2 \in Ops
  <2>1. o.kind \in {"idle", "insert", "remove", "adjust", "collapse"} /\ o.key \in AllKeys
    BY DEF Ops
  <2> QED
    BY <2>1, <1>5, <1>6 DEF Ops
<1> QED
  BY <1>3, <1>4, <1>7 DEF c

LEMMA OnInsertDescends ==
    ASSUME NoNulls, NEW t, NEW g, NEW o, Sound(t, g, o), o.kind = "insert",
           ~NeedsSpliting(t.nodes[Deepest(o)]), ~t.nodes[Deepest(o)].leaf,
           NEW o2, o2 = [o EXCEPT !.path = Append(o.path, Next1(t, o))]
    PROVE  Sound(t, g, o2)
<1>1. /\ Whole(t, g) /\ Sized(t, g) /\ o \in Ops /\ Inserting(t, g, o)
      /\ Tight(t, g, {}) /\ Forked(t) /\ Way(t, g, o) /\ o.key \in Keys /\ o.key \notin LeafContents(t)
  BY SoundIs DEF Inserting
<1>2. o2 \in Ops /\ o2.kind = "insert" /\ o2.key = o.key /\ StepOn(t, g, o, o2, Next1(t, o))
  BY <1>1, GoesDown
<1>3. Way(t, g, o2) /\ o2.path[Len(o2.path) - 1] = Deepest(o)
  BY <1>2 DEF StepOn
<1>4. Inserting(t, g, o2)
  BY <1>1, <1>2, <1>3 DEF Inserting
<1> QED
  BY <1>1, <1>2, <1>4 DEF Sound, Phase

LEMMA OnRemoveDescends ==
    ASSUME NoNulls, NEW t, NEW g, NEW o, Sound(t, g, o), o.kind = "remove",
           ~t.nodes[Deepest(o)].leaf, ~NeedsJoining(t.nodes[Next1(t, o)]),
           NEW o2, o2 = [o EXCEPT !.path = Append(o.path, Next1(t, o))]
    PROVE  Sound(t, g, o2)
<1>1. /\ Whole(t, g) /\ Sized(t, g) /\ o \in Ops /\ Removing(t, g, o)
      /\ Tight(t, g, {}) /\ Way(t, g, o) /\ o.key \in LeafContents(t)
  BY SoundIs DEF Removing
<1> DEFINE c == Next1(t, o)
<1>2. o2 \in Ops /\ o2.kind = "remove" /\ o2.key = o.key /\ StepOn(t, g, o, o2, c)
  BY <1>1, GoesDown
<1>3. c \in g.used /\ c # t.root
  BY <1>1, ChildOnWay
<1> HIDE DEF c
<1>4. Way(t, g, o2) /\ Deepest(o2) = c
  BY <1>2 DEF StepOn
<1>5. Ready(t, c)
  <2>1. Fit(t.nodes[c]) /\ Len(t.nodes[c].keys) \in Nat
    BY <1>1, <1>3, WholeIs
  <2>2. Poor(t.nodes[c]) \in Nat /\ ~(Len(t.nodes[c].keys) < Poor(t.nodes[c]))
    BY <2>1, SizesIs DEF c
  <2>3. Len(t.nodes[c].keys) >= Poor(t.nodes[c])
    BY <2>1, <2>2
  <2> QED
    BY <2>3, <1>3 DEF Ready
<1>6. Removing(t, g, o2)
  BY <1>1, <1>2, <1>4, <1>5 DEF Removing
<1> QED
  BY <1>1, <1>2, <1>6 DEF Sound, Phase

LEMMA OnInsertInLeaf ==
    ASSUME NoNulls, NEW t, NEW g, NEW o, Sound(t, g, o), o.kind = "insert",
           ~NeedsSpliting(t.nodes[Deepest(o)]), t.nodes[Deepest(o)].leaf,
           NEW t2, t2 = [t EXCEPT !.nodes[Deepest(o)] = InsertKey(t.nodes[Deepest(o)], o.key, NIL_NODE)]
    PROVE  /\ Sound(t2, g, Idle) /\ o.key \in Keys
           /\ \A k : k \in LeafContents(t2) <=> k \in LeafContents(t) \/ k = o.key
<1>1. /\ Whole(t, g) /\ Sized(t, g) /\ o \in Ops /\ t.root \in g.used
      /\ Tight(t, g, {}) /\ Forked(t) /\ Way(t, g, o) /\ o.key \in Keys /\ o.key \notin LeafContents(t)
  BY SoundIs DEF Inserting
<1> DEFINE x == Deepest(o)
<1>2. x \in g.used /\ Covers(g, x, Num(o.key)) /\ ~NeedsSpliting(t.nodes[x]) /\ t.nodes[x].leaf
      /\ t2 = [t EXCEPT !.nodes[x] = InsertKey(t.nodes[x], o.key, NIL_NODE)]
  BY <1>1, WayIs
<1> HIDE DEF x
<1>3. /\ Whole(t2, g) /\ Tight(t2, g, {}) /\ Sized(t2, g) /\ t2.root = t.root
      /\ t2.nodes[x].leaf /\ \A y \in g.used : y # x => t2.nodes[y] = t.nodes[y]
      /\ \A k : k \in LeafContents(t2) <=> k \in LeafContents(t) \/ k = o.key
  <2>1. PutIn(t, g, t2, x, o.key)
    BY <1>1, <1>2, InsertStep
  <2> QED
    BY <2>1 DEF PutIn
<1>4. Forked(t2)
  <2>1. CASE t.root = x
    BY <2>1, <1>3 DEF Forked
  <2>2. CASE t.root # x
    BY <2>2, <1>1, <1>3 DEF Forked
  <2> QED
    BY <2>1, <2>2
<1>5. Idle \in Ops
  <2>1. SentinelKey \in AllKeys /\ <<>> \in Seq(Nat)
    BY DEF AllKeys
  <2> QED
    BY <2>1 DEF Idle, Ops
<1>6. Sound(t2, g, Idle)
  BY <1>3, <1>4, <1>5 DEF Sound, Phase, AtRest
<1> QED
  BY <1>1, <1>3, <1>6

LEMMA OnRemoveJoins ==
    ASSUME NoNulls, NEW t, NEW g, NEW o, Sound(t, g, o), o.kind = "remove",
           ~t.nodes[Deepest(o)].leaf, NeedsJoining(t.nodes[Next1(t, o)]),
           NEW t2, t2 = Join(t, Deepest(o), Next1(t, o))
    PROVE  \E g2 : Sound(t2, g2, o) /\ \A k : Holds(t2, g2, k) <=> Holds(t, g, k)
<1> DEFINE p == Deepest(o)
           c == Next1(t, o)
<1>1. /\ Whole(t, g) /\ Sized(t, g) /\ o \in Ops /\ Removing(t, g, o)
      /\ Tight(t, g, {}) /\ Way(t, g, o) /\ o.key \in LeafContents(t)
  BY SoundIs DEF Removing
<1>2. Ready(t, p)
  BY <1>1 DEF Removing, Next1
<1>3. /\ p \in g.used /\ Covers(g, p, Num(o.key)) /\ Num(o.key) \in Nat
      /\ Len(o.path) \in Nat \ {0}
      /\ \A i \in 1 .. Len(o.path) : g.lev[o.path[i]] >= g.lev[p]
  BY <1>1, WayIs
<1>4. /\ \E i : IsChild(t, p, i, c)
      /\ c \in g.used /\ g.lev[p] = g.lev[c] + 1 /\ Covers(g, c, Num(o.key))
  BY <1>1, ChildOnWay
<1>5. NeedsJoining(t.nodes[c]) /\ ~t.nodes[p].leaf /\ t2 = Join(t, p, c)
  OBVIOUS
<1> HIDE DEF c
<1>6. Len(t.nodes[p].keys) >= 2 /\ (p # t.root => Len(t.nodes[p].keys) >= Poor(t.nodes[p]))
  <2> HIDE DEF p
  <2>1. CASE p = t.root
    BY <2>1, <1>2, <1>5 DEF Ready, Forked
  <2>2. CASE p # t.root
    <3>1. Fit(t.nodes[p]) /\ Len(t.nodes[p].keys) \in Nat
      BY <1>1, <1>3, WholeIs
    <3>2. Poor(t.nodes[p]) \in Nat /\ Poor(t.nodes[p]) >= 2
      BY <3>1, SizesIs
    <3>3. Len(t.nodes[p].keys) >= Poor(t.nodes[p])
      BY <2>2, <1>2 DEF Ready
    <3> QED
      BY <3>1, <3>2, <3>3
  <2> QED
    BY <2>1, <2>2
<1> HIDE DEF p
<1>7. PICK i : IsChild(t, p, i, c)
  BY <1>4
<1>8. LET u == Join(t, p, c)
      IN  /\ u.root = t.root /\ u.nodes[p].leaf = t.nodes[p].leaf
          /\ \E g2 : /\ Whole(u, g2) /\ Tight(u, g2, {}) /\ Sized(u, g2) /\ Kept(g, g2, p)
                     /\ \A k : Holds(u, g2, k) <=> Holds(t, g, k)
                     /\ \A d \in g2.used, k \in Nat :
                          g2.lev[d] = g.lev[c] /\ Covers(g, c, k) /\ Covers(g2, d, k) =>
                            Len(u.nodes[d].keys) >= Poor(u.nodes[d])
  BY <1>1, <1>3, <1>5, <1>6, <1>7, JoinStep
<1>9. t2.root = t.root /\ t2.nodes[p].leaf = t.nodes[p].leaf
  BY <1>5, <1>8
<1>10. PICK g2 : /\ Whole(t2, g2) /\ Tight(t2, g2, {}) /\ Sized(t2, g2) /\ Kept(g, g2, p)
                 /\ \A k : Holds(t2, g2, k) <=> Holds(t, g, k)
                 /\ \A d \in g2.used, k \in Nat :
                      g2.lev[d] = g.lev[c] /\ Covers(g, c, k) /\ Covers(g2, d, k) =>
                        Len(t2.nodes[d].keys) >= Poor(t2.nodes[d])
  BY <1>5, <1>8
<1>11. Way(t2, g2, o)
  <2>1. Len(o.path) \in 1 .. Len(o.path)
    BY <1>3
  <2> QED
    BY <2>1, <1>1, <1>3, <1>9, <1>10, WayKept
<1>12. g2.lev[p] = g.lev[p]
  <2>1. g.lev[p] \in Nat
    BY <1>1, <1>3, WholeIs
  <2>2. g.lev[p] >= g.lev[p]
    BY <2>1
  <2> QED
    BY <2>2, <1>3, <1>10 DEF Kept
<1> DEFINE d == Next1(t2, o)
<1>13. d \in g2.used /\ g2.lev[p] = g2.lev[d] + 1 /\ Covers(g2, d, Num(o.key)) /\ ~t2.nodes[p].leaf
  <2>1. ~t2.nodes[Deepest(o)].leaf
    BY <1>5, <1>9 DEF p
  <2> QED
    BY <2>1, <1>1, <1>10, <1>11, ChildOnWay DEF p
<1> HIDE DEF d
<1>14. ~NeedsJoining(t2.nodes[d])
  <2>1. g2.lev[d] \in Nat /\ Fit(t2.nodes[d]) /\ Len(t2.nodes[d].keys) \in Nat
    BY <1>10, <1>13, WholeIs
  <2>2. g.lev[c] \in Nat
    BY <1>1, <1>4, WholeIs
  <2>3. g2.lev[d] = g.lev[c]
    BY <2>1, <2>2, <1>4, <1>12, <1>13
  <2>4. Len(t2.nodes[d].keys) >= Poor(t2.nodes[d])
    BY <2>3, <1>3, <1>4, <1>10, <1>13
  <2>5. Poor(t2.nodes[d]) \in Nat /\ (NeedsJoining(t2.nodes[d]) <=> Len(t2.nodes[d].keys) < Poor(t2.nodes[d]))
    BY <2>1, SizesIs
  <2> QED
    BY <2>1, <2>4, <2>5
<1>15. o.key \in LeafContents(t2)
  BY <1>1, <1>10, ContentsIs
<1>16. Removing(t2, g2, o)
  BY <1>10, <1>11, <1>13, <1>14, <1>15 DEF Removing, d, p, Next1
<1> QED
  BY <1>1, <1>10, <1>16 DEF Sound, Phase

\* What a return does to the path.
StepBack(t2, g, g2, o, o2) ==
    /\ Way(t2, g2, o2) /\ o2.path \in Seq(Nat)
    /\ g2.lev[Deepest(o2)] = g2.lev[Deepest(o)] + 1
    /\ Deepest(o) \in g2.used /\ g2.lev[Deepest(o)] = g.lev[Deepest(o)]

LEMMA CutWay ==
    ASSUME NoNulls, NEW t, NEW g, Whole(t, g), NEW o \in Ops, Way(t, g, o), Deepest(o) # t.root,
           NEW t2, NEW g2, t2.root = t.root, Kept(g, g2, Deepest(o)),
           NEW o2, o2.key = o.key, o2.path = Front(o.path)
    PROVE  StepBack(t2, g, g2, o, o2)
<1> DEFINE p == Deepest(o)
           len == Len(o.path)
<1>1. /\ len \in Nat \ {0} /\ p \in g.used /\ len # 1 /\ o.path \in Seq(Nat)
      /\ g.lev[p] + len = g.lev[t.root] + 1
      /\ \A i \in 1 .. Len(o.path) : g.lev[o.path[i]] >= g.lev[p]
  BY WayIs
<1>2. g.lev[p] \in Nat /\ g.lev[t.root] \in Nat
  <2>1. t.root \in g.used
    BY DEF Whole, Rooted
  <2> QED
    BY <2>1, <1>1, WholeIs
<1> HIDE DEF p
<1>3. Front(o.path) \in Seq(Nat) /\ Len(Front(o.path)) = len - 1 /\ \A i \in 1 .. len - 1 : Front(o.path)[i] = o.path[i]
  <2>1. Len(o.path) >= 1
    BY <1>1
  <2> QED
    BY <2>1, <1>1, FrontIs
<1> HIDE DEF len
<1>4. len - 1 \in 1 .. len /\ (\A i \in 1 .. len - 1 : i \in 1 .. len) /\ len - 1 \in 1 .. len - 1
  BY <1>1
<1>5. Way(t2, g2, o2)
  <2>1. \A i \in 1 .. Len(o2.path) : g.lev[o.path[i]] >= g.lev[p]
    BY <1>1, <1>3, <1>4 DEF len
  <2>2. Len(o2.path) \in 1 .. Len(o.path) /\ \A i \in 1 .. Len(o2.path) : o2.path[i] = o.path[i]
    BY <1>3, <1>4 DEF len
  <2>3. Kept(g, g2, p)
    BY DEF p
  <2> QED
    BY <2>1, <2>2, <2>3, <1>1, WayKept
<1>6. p \in g2.used /\ g2.lev[p] = g.lev[p]
  <2>1. g.lev[p] >= g.lev[p]
    BY <1>2
  <2> QED
    BY <2>1, <1>1 DEF Kept, p
<1>7. g2.lev[Deepest(o2)] = g.lev[p] + 1
  <2> DEFINE q == o.path[len - 1]
  <2>1. Deepest(o2) = q
    BY <1>3, <1>4 DEF Deepest
  <2>2. q \in g.used /\ g.lev[q] + (len - 1) = g.lev[t.root] + 1 /\ g.lev[q] >= g.lev[p]
    BY <1>1, <1>4 DEF Way, len
  <2> HIDE DEF q
  <2>3. g2.lev[q] = g.lev[q]
    BY <2>2 DEF Kept, p
  <2>4. g.lev[q] \in Nat
    BY <2>2, WholeIs
  <2> DEFINE a == g.lev[q]
             b == g.lev[p]
             top == g.lev[t.root]
  <2>5. a \in Nat /\ b \in Nat /\ top \in Nat /\ len \in Nat /\ a + (len - 1) = top + 1 /\ b + len = top + 1
    BY <2>2, <2>4, <1>1, <1>2
  <2> HIDE DEF a, b, top
  <2>6. a = b + 1
    BY <2>5
  <2> QED
    BY <2>1, <2>3, <2>6 DEF a, b
<1> QED
  BY <1>3, <1>5, <1>6, <1>7 DEF StepBack, p

\* What a call leaves behind when it returns.
Returned(o, first) ==
    IF first THEN [o EXCEPT !.kind = "adjust", !.path = Front(o.path)]
    ELSE [o EXCEPT !.kind = "collapse", !.path = <<>>]

LEMMA ReturnedIs ==
    ASSUME NEW o \in Ops, NEW first \in BOOLEAN, first => Front(o.path) \in Seq(Nat)
    PROVE  LET o2 == Returned(o, first)
           IN  /\ o2 \in Ops /\ o2.key = o.key
               /\ first => o2.kind = "adjust" /\ o2.path = Front(o.path)
               /\ ~first => o2.kind = "collapse" /\ o2.path = <<>>
<1>1. o = [kind |-> o.kind, key |-> o.key, path |-> o.path] /\ o.key \in AllKeys
  BY DEF Ops
<1>2. CASE first
  <2>1. Returned(o, first) = [kind |-> "adjust", key |-> o.key, path |-> Front(o.path)]
    BY <1>1, <1>2 DEF Returned
  <2> QED
    BY <2>1, <1>1, <1>2 DEF Ops
<1>3. CASE ~first
  <2>1. Returned(o, first) = [kind |-> "collapse", key |-> o.key, path |-> <<>>]
    BY <1>1, <1>3 DEF Returned
  <2>2. <<>> \in Seq(Nat)
    OBVIOUS
  <2> QED
    BY <2>1, <2>2, <1>1, <1>3 DEF Ops
<1> QED
  BY <1>2, <1>3

LEMMA OnRemoveFromLeaf ==
    ASSUME NoNulls, NEW t, NEW g, NEW o, Sound(t, g, o), o.kind = "remove", t.nodes[Deepest(o)].leaf,
           NEW f, f = FindBiggerOrEqual(t.nodes[Deepest(o)], o.key),
           NEW t2, t2 = [t EXCEPT !.nodes[Deepest(o)] = RemoveKey(t.nodes[Deepest(o)], f)]
    PROVE  /\ Sound(t2, g, Returned(o, f = 1)) /\ o.key \in LeafContents(t)
           /\ \A k : k \in LeafContents(t2) <=> k \in LeafContents(t) /\ k # o.key
<1> DEFINE x  == Deepest(o)
           o2 == Returned(o, f = 1)
<1>1. /\ Whole(t, g) /\ Sized(t, g) /\ o \in Ops /\ Removing(t, g, o)
      /\ Tight(t, g, {}) /\ Way(t, g, o) /\ o.key \in LeafContents(t) /\ o.key \in Keys
  <2>1. /\ Whole(t, g) /\ Sized(t, g) /\ o \in Ops /\ Removing(t, g, o)
        /\ Tight(t, g, {}) /\ Way(t, g, o) /\ o.key \in LeafContents(t)
    BY SoundIs DEF Removing
  <2> QED
    BY <2>1, ContentsIs
<1>2. /\ x \in g.used /\ Covers(g, x, Num(o.key)) /\ t.nodes[x].leaf
      /\ f = FindBiggerOrEqual(t.nodes[x], o.key)
      /\ t2 = [t EXCEPT !.nodes[x] = RemoveKey(t.nodes[x], f)]
      /\ o.path \in Seq(Nat) /\ Len(o.path) \in Nat \ {0}
  BY <1>1, WayIs
<1>3. x # t.root => Len(t.nodes[x].keys) >= Poor(t.nodes[x])
  <2>1. Ready(t, x)
    BY <1>1, <1>2 DEF Removing
  <2> QED
    BY <2>1 DEF Ready
<1> HIDE DEF x
<1>4. TakenFrom(t, g, t2, x, o.key, f)
  <2> DEFINE ff == FindBiggerOrEqual(t.nodes[x], o.key)
  <2>1. TakenFrom(t, g, [t EXCEPT !.nodes[x] = RemoveKey(t.nodes[x], ff)], x, o.key, ff)
    BY <1>1, <1>2, <1>3, RemoveStep
  <2> HIDE DEF ff
  <2>2. f = ff
    BY <1>2 DEF ff
  <2> QED
    BY <2>1, <2>2, <1>2
<1>5. /\ Whole(t2, g) /\ Tight(t2, g, IF f = 1 THEN {x} ELSE {}) /\ Sized(t2, g)
      /\ t2.root = t.root
      /\ f = 1 => g.hi[x] = Num(o.key) /\ x # t.root
      /\ \A k : k \in LeafContents(t2) <=> k \in LeafContents(t) /\ k # o.key
  BY <1>4 DEF TakenFrom
<1>6. Front(o.path) \in Seq(Nat)
  <2>1. Len(o.path) >= 1
    BY <1>2
  <2> QED
    BY <2>1, <1>2, FrontIs
<1>7. /\ o2 \in Ops /\ o2.key = o.key
      /\ f = 1 => o2.kind = "adjust" /\ o2.path = Front(o.path)
      /\ f # 1 => o2.kind = "collapse" /\ o2.path = <<>>
  BY <1>1, <1>6, ReturnedIs
<1> HIDE DEF o2
<1>8. CASE f = 1
  <2>1. Kept(g, g, x)
    BY DEF Kept
  <2>2. x # t.root /\ g.hi[x] = Num(o.key) /\ Tight(t2, g, {x})
    BY <1>5, <1>8
  <2>3. /\ Way(t2, g, o2) /\ g.lev[Deepest(o2)] = g.lev[x] + 1
    <3>1. StepBack(t2, g, g, o, o2)
      BY <2>1, <2>2, <1>1, <1>5, <1>7, <1>8, CutWay DEF x
    <3> QED
      BY <3>1 DEF StepBack, x
  <2>4. Adjusting(t2, g, o2)
    BY <2>2, <2>3, <1>1, <1>2, <1>7, <1>8 DEF Adjusting
  <2>5. Sound(t2, g, o2)
    BY <2>4, <1>5, <1>7 DEF Sound, Phase
  <2> QED
    BY <2>5, <1>1, <1>5 DEF o2
<1>9. CASE f # 1
  <2>1. Tight(t2, g, {})
    BY <1>5, <1>9
  <2>2. Collapsing(t2, g, o2)
    BY <2>1, <1>7, <1>9 DEF Collapsing
  <2>3. Sound(t2, g, o2)
    BY <2>2, <1>5, <1>7 DEF Sound, Phase
  <2> QED
    BY <2>3, <1>1, <1>5 DEF o2
<1> QED
  BY <1>8, <1>9

LEMMA OnAdjustParent ==
    ASSUME NoNulls, NEW t, NEW g, NEW o, Sound(t, g, o), o.kind = "adjust",
           NEW f, f = FindBiggerOrEqual(t.nodes[Deepest(o)], o.key),
           NEW t2, t2 = [t EXCEPT !.nodes[Deepest(o)] =
                            AdjustKeyNode(t.nodes[Deepest(o)], t.nodes[t.nodes[Deepest(o)].child[f]], f)]
    PROVE  \E g2 : Sound(t2, g2, Returned(o, f = 1)) /\ \A k : Holds(t2, g2, k) <=> Holds(t, g, k)
<1> DEFINE p  == Deepest(o)
           o2 == Returned(o, f = 1)
<1>1. /\ Whole(t, g) /\ Sized(t, g) /\ o \in Ops /\ Adjusting(t, g, o)
      /\ Way(t, g, o) /\ o.key \in Keys
  <2>1. Whole(t, g) /\ Sized(t, g) /\ o \in Ops /\ Adjusting(t, g, o)
    BY SoundIs
  <2> QED
    BY <2>1 DEF Adjusting
<1>2. PICK c \in g.used : Tight(t, g, {c}) /\ g.hi[c] = Num(o.key) /\ g.lev[p] = g.lev[c] + 1
  BY <1>1 DEF Adjusting
<1>3. /\ p \in g.used /\ Covers(g, p, Num(o.key))
      /\ f = FindBiggerOrEqual(t.nodes[p], o.key)
      /\ t2 = [t EXCEPT !.nodes[p] = AdjustKeyNode(t.nodes[p], t.nodes[t.nodes[p].child[f]], f)]
      /\ o.path \in Seq(Nat) /\ Len(o.path) \in Nat \ {0}
  BY <1>1, WayIs
<1> HIDE DEF p
<1>4. KeyLowered(t, g, t2, p, o.key, f)
  <2> DEFINE i == FindBiggerOrEqual(t.nodes[p], o.key)
  <2>1. KeyLowered(t, g, [t EXCEPT !.nodes[p] =
                             AdjustKeyNode(t.nodes[p], t.nodes[t.nodes[p].child[i]], i)], p, o.key, i)
    BY <1>1, <1>2, <1>3, AdjustStep
  <2> HIDE DEF i
  <2>2. f = i
    BY <1>3 DEF i
  <2> QED
    BY <2>1, <2>2, <1>3
<1>5. t2.root = t.root /\ (f = 1 => p # t.root)
  BY <1>4 DEF KeyLowered
<1>6. PICK g2 : /\ Whole(t2, g2) /\ Sized(t2, g2) /\ Kept(g, g2, p)
                /\ IF f = 1 THEN Tight(t2, g2, {p}) /\ g2.hi[p] = Num(o.key) ELSE Tight(t2, g2, {})
                /\ \A k : Holds(t2, g2, k) <=> Holds(t, g, k)
  BY <1>4 DEF KeyLowered
<1>7. Front(o.path) \in Seq(Nat)
  <2>1. Len(o.path) >= 1
    BY <1>3
  <2> QED
    BY <2>1, <1>3, FrontIs
<1>8. /\ o2 \in Ops /\ o2.key = o.key
      /\ f = 1 => o2.kind = "adjust" /\ o2.path = Front(o.path)
      /\ f # 1 => o2.kind = "collapse" /\ o2.path = <<>>
  BY <1>1, <1>7, ReturnedIs
<1> HIDE DEF o2
<1>9. CASE f = 1
  <2>1. Tight(t2, g2, {p}) /\ g2.hi[p] = Num(o.key) /\ p # t.root
    BY <1>5, <1>6, <1>9
  <2>2. Way(t2, g2, o2) /\ g2.lev[Deepest(o2)] = g2.lev[p] + 1 /\ p \in g2.used
    <3>1. StepBack(t2, g, g2, o, o2)
      BY <2>1, <1>1, <1>5, <1>6, <1>8, <1>9, CutWay DEF p
    <3> QED
      BY <3>1 DEF StepBack, p
  <2>3. Adjusting(t2, g2, o2)
    BY <2>1, <2>2, <1>1, <1>8, <1>9 DEF Adjusting
  <2>4. Sound(t2, g2, o2)
    BY <2>3, <1>6, <1>8 DEF Sound, Phase
  <2> QED
    BY <2>4, <1>6 DEF o2
<1>10. CASE f # 1
  <2>1. Tight(t2, g2, {})
    BY <1>6, <1>10
  <2>2. Collapsing(t2, g2, o2)
    BY <2>1, <1>8, <1>10 DEF Collapsing
  <2>3. Sound(t2, g2, o2)
    BY <2>2, <1>6, <1>8 DEF Sound, Phase
  <2> QED
    BY <2>3, <1>6 DEF o2
<1> QED
  BY <1>9, <1>10

LEMMA OnCollapseRoot ==
    ASSUME NoNulls, NEW t, NEW g, NEW o, Sound(t, g, o), o.kind = "collapse",
           NEW t2, t2 = IF ~t.nodes[t.root].leaf
                           /\ t.nodes[t.root].child[KeysCount(t.nodes[t.root])] = t.nodes[t.root].child[1]
                        THEN FreeNode([t EXCEPT !.root = t.nodes[t.root].child[1]], t.root)
                        ELSE t
    PROVE  \E g2 : Sound(t2, g2, Idle) /\ \A k : Holds(t2, g2, k) <=> Holds(t, g, k)
<1>1. Whole(t, g) /\ Sized(t, g) /\ Tight(t, g, {})
  BY SoundIs DEF Collapsing
<1>2. LET root == t.nodes[t.root]
          u    == IF ~root.leaf /\ root.child[KeysCount(root)] = root.child[1]
                  THEN FreeNode([t EXCEPT !.root = root.child[1]], t.root)
                  ELSE t
      IN  /\ Forked(u)
          /\ \E g2 : /\ Whole(u, g2) /\ Tight(u, g2, {}) /\ Sized(u, g2)
                     /\ \A k : Holds(u, g2, k) <=> Holds(t, g, k)
  BY <1>1, CollapseStep
<1>3. Forked(t2)
  BY <1>2
<1>4. PICK g2 : /\ Whole(t2, g2) /\ Tight(t2, g2, {}) /\ Sized(t2, g2)
                /\ \A k : Holds(t2, g2, k) <=> Holds(t, g, k)
  BY <1>2
<1>5. Idle \in Ops
  <2>1. SentinelKey \in AllKeys /\ <<>> \in Seq(Nat)
    BY DEF AllKeys
  <2> QED
    BY <2>1 DEF Idle, Ops
<1>6. Sound(t2, g2, Idle)
  BY <1>3, <1>4, <1>5 DEF Sound, Phase, AtRest
<1> QED
  BY <1>4, <1>6

LEMMA OnInit ==
    ASSUME NoNulls,
           NEW t, t = [nodes |-> <<[NewNode EXCEPT !.leaf = TRUE, !.keys = <<SentinelKey>>]>>,
                       root |-> 1, free |-> NIL_NODE]
    PROVE  (\E g : Sound(t, g, Idle)) /\ LeafContents(t) = {}
<1> DEFINE n == [NewNode EXCEPT !.leaf = TRUE, !.keys = <<SentinelKey>>]
           g == [used |-> {1}, lev |-> [x \in Nat |-> 0], lo |-> [x \in Nat |-> 0], hi |-> [x \in Nat |-> Top]]
<1>1. SentinelKey \in AllKeys /\ Top \in Nat /\ Top > 0 /\ Num(SentinelKey) = Top
  <2>1. SentinelKey \in AllKeys /\ Num(SentinelKey) = Top
    BY DEF AllKeys, Top
  <2> QED
    BY <2>1, NumIs
<1>2. <<SentinelKey>> \in Seq(AllKeys) /\ Len(<<SentinelKey>>) = 1 /\ <<SentinelKey>>[1] = SentinelKey
  BY <1>1
<1>3. n \in Node /\ n.leaf /\ n.keys = <<SentinelKey>> /\ n.child = <<>> /\ n.prev = 0 /\ n.next = 0
  <2>1. NewNode \in Node /\ NewNode.child = <<>> /\ NewNode.prev = 0 /\ NewNode.next = 0
    BY NewNodeIs
  <2> QED
    BY <2>1, <1>2 DEF Node
<1> HIDE DEF n
<1>4. /\ \A i \in 1 .. Len(n.keys) : i = 1
      /\ Len(n.keys) = 1 /\ n.keys[1] = SentinelKey
  <2>1. Len(n.keys) = 1 /\ n.keys[1] = SentinelKey
    BY <1>2, <1>3
  <2>2. \A i \in 1 .. 1 : i = 1
    OBVIOUS
  <2> QED
    BY <2>1, <2>2
<1>5. Fit(n)
  <2>1. Descending(n.keys)
    BY <1>4 DEF Descending
  <2> QED
    BY <2>1, <1>3 DEF Fit
<1>6. t.nodes = <<n>> /\ t.root = 1 /\ t.free = 0 /\ t = [nodes |-> <<n>>, root |-> 1, free |-> 0]
  BY DEF n, NIL_NODE
<1>7. <<n>> \in Seq(Node) /\ Len(<<n>>) = 1 /\ <<n>>[1] = n
  BY <1>3
<1>8. t \in Trees /\ t.nodes[1] = n /\ DOMAIN t.nodes = {1}
  <2>1. t \in Trees /\ t.nodes[1] = n /\ Len(t.nodes) = 1
    BY <1>6, <1>7 DEF Trees
  <2>2. DOMAIN t.nodes = 1 .. 1
    BY <2>1 DEF Trees
  <2> QED
    BY <2>1, <2>2
<1>9. /\ g \in Ghosts /\ g.used = {1} /\ g.lev[1] = 0 /\ g.lo[1] = 0 /\ g.hi[1] = Top
  BY <1>1 DEF Ghosts
<1> HIDE DEF g
<1>10. Placed(t, g)
  <2> SUFFICES ASSUME NEW x \in g.used
               PROVE  /\ x \in DOMAIN t.nodes /\ Fit(t.nodes[x]) /\ Len(t.nodes[x].keys) >= 1
                      /\ t.nodes[x].leaf <=> g.lev[x] = 0
                      /\ g.lo[x] < g.hi[x] /\ g.hi[x] <= Top
                      /\ \A i \in 1 .. Len(t.nodes[x].keys) :
                           g.lo[x] < Num(t.nodes[x].keys[i]) /\ Num(t.nodes[x].keys[i]) <= g.hi[x]
    BY DEF Placed
  <2>1. x = 1 /\ t.nodes[x] = n
    BY <1>8, <1>9
  <2>2. \A i \in 1 .. Len(n.keys) : Num(n.keys[i]) = Top
    BY <1>1, <1>4
  <2>3. x \in DOMAIN t.nodes /\ Fit(t.nodes[x]) /\ Len(t.nodes[x].keys) >= 1
    BY <2>1, <1>4, <1>5, <1>8
  <2>4. t.nodes[x].leaf <=> g.lev[x] = 0
    BY <2>1, <1>3, <1>9
  <2>5. g.lo[x] < g.hi[x] /\ g.hi[x] <= Top /\ g.lo[x] < Top /\ Top <= g.hi[x]
    BY <2>1, <1>1, <1>9
  <2> QED
    BY <2>1, <2>2, <2>3, <2>4, <2>5
<1>11. Linked(t, g)
  <2> SUFFICES ASSUME NEW x \in g.used
               PROVE  /\ t.nodes[x].prev = NIL_NODE /\ g.lo[x] = 0
                      /\ t.nodes[x].next = NIL_NODE /\ g.hi[x] = Top
    BY DEF Linked
  <2> QED
    BY <1>3, <1>8, <1>9 DEF NIL_NODE
<1>12. Apart(g)
  BY <1>9 DEF Apart
<1>13. Family(t, g)
  BY <1>3, <1>8, <1>9 DEF Family
<1>14. Rooted(t, g)
  BY <1>6, <1>9 DEF Rooted
<1>15. FreeChain(t, g.used)
  <2> DEFINE fl == [i \in Nat |-> 0]
  <2>1. 0 \in Nat /\ fl \in [Nat -> Nat] /\ fl[0] = NIL_NODE /\ fl[0] = t.free /\ \A i \in 1 .. 0 : FALSE
    BY <1>6 DEF NIL_NODE
  <2>2. g.used = DOMAIN t.nodes \ {fl[i] : i \in 1 .. 0}
    BY <2>1, <1>8, <1>9
  <2> HIDE DEF fl
  <2>3. FreeList(t, g.used, 0, fl)
    BY <2>1, <2>2 DEF FreeList
  <2> QED
    BY <2>3 DEF FreeChain
<1>16. Whole(t, g)
  BY <1>8, <1>9, <1>10, <1>11, <1>12, <1>13, <1>14, <1>15 DEF Whole
<1>17. Tight(t, g, {})
  BY <1>1, <1>4, <1>8, <1>9 DEF Tight
<1>18. Sized(t, g)
  <2>1. Full(n) \in Nat /\ Poor(n) \in Nat /\ Poor(n) >= 2 /\ Full(n) >= 2 * Poor(n) + 1
    BY <1>5, SizesIs
  <2>2. Len(n.keys) <= Full(n)
    BY <2>1, <1>4
  <2> QED
    BY <2>2, <1>6, <1>8, <1>9 DEF Sized
<1>19. Forked(t)
  BY <1>3, <1>6, <1>8 DEF Forked
<1>20. Idle \in Ops
  <2>1. <<>> \in Seq(Nat)
    OBVIOUS
  <2> QED
    BY <2>1, <1>1 DEF Idle, Ops
<1>21. Sound(t, g, Idle)
  BY <1>16, <1>17, <1>18, <1>19, <1>20 DEF Sound, Phase, AtRest
<1>22. ASSUME NEW k PROVE k \notin LeafContents(t)
  <2> SUFFICES ASSUME k # SentinelKey, Holds(t, g, k) PROVE FALSE
    BY <1>16, ContentsIs
  <2>1. PICK y \in g.used : \E i \in 1 .. Len(t.nodes[y].keys) : t.nodes[y].keys[i] = k
    BY DEF Holds
  <2>2. t.nodes[y] = n
    BY <1>8, <1>9
  <2> QED
    BY <2>1, <2>2, <1>4
<1>23. LeafContents(t) = {}
  BY <1>22
<1> QED
  BY <1>21, <1>23

LEMMA SameContents ==
    ASSUME NoNulls, NEW t, NEW g, Whole(t, g), NEW t2, NEW g2, Whole(t2, g2),
           \A k : Holds(t2, g2, k) <=> Holds(t, g, k)
    PROVE  LeafContents(t2) = LeafContents(t)
<1>1. ASSUME NEW k PROVE k \in LeafContents(t2) <=> k \in LeafContents(t)
  <2>1. k \in LeafContents(t) <=> k # SentinelKey /\ Holds(t, g, k)
    BY ContentsIs
  <2>2. k \in LeafContents(t2) <=> k # SentinelKey /\ Holds(t2, g2, k)
    BY ContentsIs
  <2> QED
    BY <2>1, <2>2
<1> QED
  BY <1>1

-----------------------------------------------------------------------------
(* The steps, and what they do to the set of keys. *)

Call(o) == IF o.kind \in {"insert", "remove"} THEN <<o.kind, o.key>> ELSE <<>>

\* From the contents s and the operation o to s2 and o2, as KeySet has it.
Effect(s, o, s2, o2) ==
    \/ s2 = s /\ Call(o2) = Call(o)
    \/ s2 = s /\ Call(o) = <<>> /\ \E k \in Keys \ s : Call(o2) = <<"insert", k>>
    \/ s2 = s /\ Call(o) = <<>> /\ \E k \in s : Call(o2) = <<"remove", k>>
    \/ Call(o2) = <<>> /\ \E k \in Keys : Call(o) = <<"insert", k>> /\ s2 = s \cup {k}
    \/ Call(o2) = <<>> /\ \E k \in s : Call(o) = <<"remove", k>> /\ s2 = s \ {k}

Keeps(t, o, t2, o2) == (\E g : Sound(t2, g, o2)) /\ Effect(LeafContents(t), o, LeafContents(t2), o2)

LEMMA EffectIs ==
    ASSUME Effect(LeafContents(tree), op, LeafContents(tree)', op')
    PROVE  [KS!Next]_<<LeafContents(tree), Call(op)>>
<1>1. CASE LeafContents(tree)' = LeafContents(tree) /\ Call(op') = Call(op)
  BY <1>1
<1>2. CASE /\ LeafContents(tree)' = LeafContents(tree) /\ Call(op) = <<>>
           /\ \E k \in Keys \ LeafContents(tree) : Call(op') = <<"insert", k>>
  BY <1>2 DEF KS!Next, KS!CallInsert, KS!NoCall, Call
<1>3. CASE /\ LeafContents(tree)' = LeafContents(tree) /\ Call(op) = <<>>
           /\ \E k \in LeafContents(tree) : Call(op') = <<"remove", k>>
  BY <1>3 DEF KS!Next, KS!CallRemove, KS!NoCall, Call
<1>4. CASE /\ Call(op') = <<>>
           /\ \E k \in Keys : Call(op) = <<"insert", k>> /\ LeafContents(tree)' = LeafContents(tree) \cup {k}
  BY <1>4 DEF KS!Next, KS!Insert, KS!NoCall, Call
<1>5. CASE /\ Call(op') = <<>>
           /\ \E k \in LeafContents(tree) :
                Call(op) = <<"remove", k>> /\ LeafContents(tree)' = LeafContents(tree) \ {k}
  BY <1>5 DEF KS!Next, KS!Remove, KS!NoCall, Call
<1> QED
  BY <1>1, <1>2, <1>3, <1>4, <1>5 DEF Effect

\* A step that moves keys about and leaves the operation as it is.
LEMMA MovesKeys ==
    ASSUME NoNulls, NEW t, NEW g, Whole(t, g), NEW o, NEW t2, NEW o2, Call(o2) = Call(o),
           \E g2 : Sound(t2, g2, o2) /\ \A k : Holds(t2, g2, k) <=> Holds(t, g, k)
    PROVE  Keeps(t, o, t2, o2)
<1>1. PICK g2 : Sound(t2, g2, o2) /\ \A k : Holds(t2, g2, k) <=> Holds(t, g, k)
  OBVIOUS
<1>2. Whole(t2, g2)
  BY <1>1 DEF Sound
<1>3. LeafContents(t2) = LeafContents(t)
  BY <1>1, <1>2, SameContents
<1> QED
  BY <1>1, <1>3 DEF Keeps, Effect

LEMMA CallIs ==
    ASSUME NEW o
    PROVE  /\ o.kind = "insert" => Call(o) = <<"insert", o.key>>
           /\ o.kind = "remove" => Call(o) = <<"remove", o.key>>
           /\ o.kind \notin {"insert", "remove"} => Call(o) = <<>>
  BY DEF Call

LEMMA CallReturned ==
    ASSUME NEW o \in Ops, NEW first \in BOOLEAN
    PROVE  Call(Returned(o, first)) = <<>>
<1>1. Returned(o, first).kind \in {"adjust", "collapse"}
  BY DEF Returned, Ops
<1> QED
  BY <1>1, CallIs

LEMMA BeginKeeps ==
    ASSUME NoNulls, IInv, NEW key \in Keys, NEW kind \in {"insert", "remove"}, Begin(kind, key)
    PROVE  Keeps(tree, op, tree', op')
<1>1. PICK g : Sound(tree, g, op)
  BY DEF IInv
<1>2. /\ op = Idle /\ tree' = tree /\ op' = [kind |-> kind, key |-> key, path |-> <<tree.root>>]
      /\ kind = "insert" => MayInsert(key)
      /\ kind = "remove" => key \in LeafContents(tree)
  BY DEF Begin, MayRemove
<1>3. kind = "insert" => key \notin LeafContents(tree)
  BY <1>2 DEF MayInsert
<1>4. op.kind = "idle"
  BY <1>2 DEF Idle
<1>5. Sound(tree, g, op')
  BY <1>1, <1>2, <1>3, <1>4, OnBegin
<1>6. Call(op) = <<>> /\ Call(op') = <<kind, key>>
  BY <1>2, <1>4 DEF Call
<1>7. Effect(LeafContents(tree), op, LeafContents(tree), op')
  <2>1. CASE kind = "insert"
    <3>1. key \in Keys \ LeafContents(tree) /\ Call(op') = <<"insert", key>>
      BY <1>3, <1>6, <2>1
    <3> QED
      BY <3>1, <1>6 DEF Effect
  <2>2. CASE kind = "remove"
    <3>1. key \in LeafContents(tree) /\ Call(op') = <<"remove", key>>
      BY <1>2, <1>6, <2>2
    <3> QED
      BY <3>1, <1>6 DEF Effect
  <2> QED
    BY <2>1, <2>2
<1> QED
  BY <1>2, <1>5, <1>7 DEF Keeps

LEMMA InsertSplitsKeeps ==
    ASSUME NoNulls, IInv, InsertSplits
    PROVE  Keeps(tree, op, tree', op')
<1>1. PICK g : Sound(tree, g, op)
  BY DEF IInv
<1>0. PICK parent : parent = IF Len(op.path) = 1 THEN NIL_NODE ELSE op.path[Len(op.path) - 1]
  OBVIOUS
<1>2. /\ op.kind = "insert" /\ NeedsSpliting(tree.nodes[Deepest(op)])
      /\ tree' = Split(tree, parent, Deepest(op))
      /\ op' = [op EXCEPT !.path =
                   IF Len(op.path) = 1 THEN <<tree'.root>>
                   ELSE Append(Front(op.path),
                               tree'.nodes[parent].child[FindBiggerOrEqual(tree'.nodes[parent], op.key)])]
  BY <1>0 DEF InsertSplits, Here, Depth, ParentId, Deepest, NodeOfKey, KeyIndex
<1>3. \E g2 : Sound(tree', g2, op') /\ \A k : Holds(tree', g2, k) <=> Holds(tree, g, k)
  <2>1. PICK t2, o2 : t2 = tree' /\ o2 = op'
    OBVIOUS
  <2>2. t2 = Split(tree, parent, Deepest(op))
    BY <1>2, <2>1
  <2>3. Len(op.path) = 1 => parent = NIL_NODE /\ o2 = [op EXCEPT !.path = <<t2.root>>]
    BY <1>0, <1>2, <2>1
  <2>4. Len(op.path) # 1 =>
          /\ parent = op.path[Len(op.path) - 1]
          /\ o2 = [op EXCEPT !.path =
                      Append(Front(op.path),
                             t2.nodes[parent].child[FindBiggerOrEqual(t2.nodes[parent], op.key)])]
    BY <1>0, <1>2, <2>1
  <2>5. op.kind = "insert" /\ NeedsSpliting(tree.nodes[Deepest(op)])
    BY <1>2
  <2>6. \E g2 : Sound(t2, g2, o2) /\ \A k : Holds(t2, g2, k) <=> Holds(tree, g, k)
    BY <1>1, <2>2, <2>3, <2>4, <2>5, OnInsertSplits
  <2> QED
    BY <2>1, <2>6
<1>4. Whole(tree, g) /\ op \in Ops
  BY <1>1 DEF Sound
<1>5. op'.kind = op.kind /\ op'.key = op.key
  BY <1>2, <1>4 DEF Ops
<1>6. Call(op') = Call(op)
  BY <1>5 DEF Call
<1> QED
  BY <1>3, <1>4, <1>6, MovesKeys

LEMMA InsertDescendsKeeps ==
    ASSUME NoNulls, IInv, InsertDescends
    PROVE  Keeps(tree, op, tree', op')
<1>1. PICK g : Sound(tree, g, op)
  BY DEF IInv
<1>2. /\ op.kind = "insert" /\ ~NeedsSpliting(tree.nodes[Deepest(op)]) /\ ~tree.nodes[Deepest(op)].leaf
      /\ tree' = tree /\ op' = [op EXCEPT !.path = Append(op.path, Next1(tree, op))]
  BY DEF InsertDescends, Here, Depth, Deepest, NodeOfKey, KeyIndex, Child, Next1
<1>3. Sound(tree', g, op')
  BY <1>1, <1>2, OnInsertDescends
<1>4. Whole(tree, g) /\ op \in Ops
  BY <1>1 DEF Sound
<1>5. op'.kind = op.kind /\ op'.key = op.key
  BY <1>2, <1>4 DEF Ops
<1>6. Call(op') = Call(op)
  BY <1>5 DEF Call
<1> QED
  BY <1>2, <1>3, <1>4, <1>6, MovesKeys

LEMMA RemoveDescendsKeeps ==
    ASSUME NoNulls, IInv, RemoveDescends
    PROVE  Keeps(tree, op, tree', op')
<1>1. PICK g : Sound(tree, g, op)
  BY DEF IInv
<1>2. /\ op.kind = "remove" /\ ~tree.nodes[Deepest(op)].leaf /\ ~NeedsJoining(tree.nodes[Next1(tree, op)])
      /\ tree' = tree /\ op' = [op EXCEPT !.path = Append(op.path, Next1(tree, op))]
  BY DEF RemoveDescends, Here, Depth, Deepest, NodeOfKey, KeyIndex, Child, Next1
<1>3. Sound(tree', g, op')
  BY <1>1, <1>2, OnRemoveDescends
<1>4. Whole(tree, g) /\ op \in Ops
  BY <1>1 DEF Sound
<1>5. op'.kind = op.kind /\ op'.key = op.key
  BY <1>2, <1>4 DEF Ops
<1>6. Call(op') = Call(op)
  BY <1>5 DEF Call
<1> QED
  BY <1>2, <1>3, <1>4, <1>6, MovesKeys

LEMMA InsertInLeafKeeps ==
    ASSUME NoNulls, IInv, InsertInLeaf
    PROVE  Keeps(tree, op, tree', op')
<1>1. PICK g : Sound(tree, g, op)
  BY DEF IInv
<1>2. /\ op.kind = "insert" /\ ~NeedsSpliting(tree.nodes[Deepest(op)]) /\ tree.nodes[Deepest(op)].leaf
      /\ tree' = [tree EXCEPT !.nodes[Deepest(op)] = InsertKey(tree.nodes[Deepest(op)], op.key, NIL_NODE)]
      /\ op' = Idle
  BY DEF InsertInLeaf, Here, Depth, Deepest
<1>3. /\ Sound(tree', g, Idle) /\ op.key \in Keys
      /\ \A k : k \in LeafContents(tree') <=> k \in LeafContents(tree) \/ k = op.key
  BY <1>1, <1>2, OnInsertInLeaf
<1>4. LeafContents(tree') = LeafContents(tree) \cup {op.key}
  BY <1>3
<1>5. Call(op) = <<"insert", op.key>> /\ Call(op') = <<>>
  BY <1>2, CallIs DEF Idle
<1> QED
  BY <1>2, <1>3, <1>4, <1>5 DEF Keeps, Effect

LEMMA RemoveJoinsKeeps ==
    ASSUME NoNulls, IInv, RemoveJoins
    PROVE  Keeps(tree, op, tree', op')
<1>1. PICK g : Sound(tree, g, op)
  BY DEF IInv
<1>2. /\ op.kind = "remove" /\ ~tree.nodes[Deepest(op)].leaf /\ NeedsJoining(tree.nodes[Next1(tree, op)])
      /\ tree' = Join(tree, Deepest(op), Next1(tree, op)) /\ op' = op
  BY DEF RemoveJoins, Here, Depth, Deepest, NodeOfKey, KeyIndex, Child, Next1
<1>3. \E g2 : Sound(tree', g2, op) /\ \A k : Holds(tree', g2, k) <=> Holds(tree, g, k)
  BY <1>1, <1>2, OnRemoveJoins
<1>4. Whole(tree, g)
  BY <1>1 DEF Sound
<1> QED
  BY <1>2, <1>3, <1>4, MovesKeys

LEMMA RemoveFromLeafKeeps ==
    ASSUME NoNulls, IInv, RemoveFromLeaf
    PROVE  Keeps(tree, op, tree', op')
<1>1. PICK g : Sound(tree, g, op)
  BY DEF IInv
<1> DEFINE f == FindBiggerOrEqual(tree.nodes[Deepest(op)], op.key)
<1>2. /\ op.kind = "remove" /\ tree.nodes[Deepest(op)].leaf
      /\ tree' = [tree EXCEPT !.nodes[Deepest(op)] = RemoveKey(tree.nodes[Deepest(op)], f)]
      /\ op' = Returned(op, f = 1)
  BY DEF RemoveFromLeaf, Here, Depth, Deepest, KeyIndex, Return, Returned
<1> HIDE DEF f
<1>3. /\ Sound(tree', g, Returned(op, f = 1)) /\ op.key \in LeafContents(tree)
      /\ \A k : k \in LeafContents(tree') <=> k \in LeafContents(tree) /\ k # op.key
  BY <1>1, <1>2, OnRemoveFromLeaf DEF f
<1>4. LeafContents(tree') = LeafContents(tree) \ {op.key}
  BY <1>3
<1>5. op \in Ops
  BY <1>1 DEF Sound
<1>6. Call(op) = <<"remove", op.key>> /\ Call(op') = <<>>
  <2>1. (f = 1) \in BOOLEAN
    OBVIOUS
  <2> QED
    BY <1>2, <1>5, <2>1, CallIs, CallReturned
<1> QED
  BY <1>2, <1>3, <1>4, <1>6 DEF Keeps, Effect

LEMMA AdjustParentKeeps ==
    ASSUME NoNulls, IInv, AdjustParent
    PROVE  Keeps(tree, op, tree', op')
<1>1. PICK g : Sound(tree, g, op)
  BY DEF IInv
<1> DEFINE f == FindBiggerOrEqual(tree.nodes[Deepest(op)], op.key)
<1>2. /\ op.kind = "adjust"
      /\ tree' = [tree EXCEPT !.nodes[Deepest(op)] =
                     AdjustKeyNode(tree.nodes[Deepest(op)], tree.nodes[tree.nodes[Deepest(op)].child[f]], f)]
      /\ op' = Returned(op, f = 1)
  BY DEF AdjustParent, Here, Depth, Deepest, KeyIndex, NodeOfKey, Child, Return, Returned
<1> HIDE DEF f
<1>3. \E g2 : Sound(tree', g2, Returned(op, f = 1)) /\ \A k : Holds(tree', g2, k) <=> Holds(tree, g, k)
  BY <1>1, <1>2, OnAdjustParent DEF f
<1>4. Whole(tree, g) /\ op \in Ops
  BY <1>1 DEF Sound
<1>5. Call(op) = <<>> /\ Call(op') = <<>>
  <2>1. (f = 1) \in BOOLEAN
    OBVIOUS
  <2> QED
    BY <1>2, <1>4, <2>1, CallIs, CallReturned
<1> QED
  BY <1>2, <1>3, <1>4, <1>5, MovesKeys

LEMMA CollapseRootKeeps ==
    ASSUME NoNulls, IInv, CollapseRoot
    PROVE  Keeps(tree, op, tree', op')
<1>1. PICK g : Sound(tree, g, op)
  BY DEF IInv
<1>2. /\ op.kind = "collapse" /\ op' = Idle
      /\ tree' = IF ~tree.nodes[tree.root].leaf
                    /\ tree.nodes[tree.root].child[KeysCount(tree.nodes[tree.root])]
                         = tree.nodes[tree.root].child[1]
                 THEN FreeNode([tree EXCEPT !.root = tree.nodes[tree.root].child[1]], tree.root)
                 ELSE tree
  BY DEF CollapseRoot
<1>3. \E g2 : Sound(tree', g2, Idle) /\ \A k : Holds(tree', g2, k) <=> Holds(tree, g, k)
  BY <1>1, <1>2, OnCollapseRoot
<1>4. Whole(tree, g)
  BY <1>1 DEF Sound
<1>5. Call(op) = <<>> /\ Call(op') = <<>>
  BY <1>2, CallIs DEF Idle
<1> QED
  BY <1>2, <1>3, <1>4, <1>5, MovesKeys

\* Every step keeps the invariant and is one of the set of keys, or none.
LEMMA StepKeeps ==
    ASSUME NoNulls, IInv, [Next]_vars
    PROVE  IInv' /\ [KS!Next]_<<LeafContents(tree), Call(op)>>
<1>1. Keeps(tree, op, tree', op')
  <2>1. CASE UNCHANGED vars
    <3>1. tree' = tree /\ op' = op
      BY <2>1 DEF vars
    <3>2. PICK g : Sound(tree, g, op)
      BY DEF IInv
    <3>3. Whole(tree, g)
      BY <3>2 DEF Sound
    <3> QED
      BY <3>1, <3>2, <3>3, MovesKeys
  <2>2. CASE \E key \in Keys, kind \in {"insert", "remove"} : Begin(kind, key)
    BY <2>2, BeginKeeps
  <2>3. CASE InsertSplits
    BY <2>3, InsertSplitsKeeps
  <2>4. CASE InsertDescends
    BY <2>4, InsertDescendsKeeps
  <2>5. CASE InsertInLeaf
    BY <2>5, InsertInLeafKeeps
  <2>6. CASE RemoveJoins
    BY <2>6, RemoveJoinsKeeps
  <2>7. CASE RemoveDescends
    BY <2>7, RemoveDescendsKeeps
  <2>8. CASE RemoveFromLeaf
    BY <2>8, RemoveFromLeafKeeps
  <2>9. CASE AdjustParent
    BY <2>9, AdjustParentKeeps
  <2>10. CASE CollapseRoot
    BY <2>10, CollapseRootKeeps
  <2> QED
    BY <2>1, <2>2, <2>3, <2>4, <2>5, <2>6, <2>7, <2>8, <2>9, <2>10 DEF Next, Continue
<1>2. (\E g : Sound(tree', g, op')) /\ Effect(LeafContents(tree), op, LeafContents(tree'), op')
  BY <1>1 DEF Keeps
<1>3. IInv'
  BY <1>2 DEF IInv
<1>4. Effect(LeafContents(tree), op, LeafContents(tree)', op')
  BY <1>2
<1> QED
  BY <1>3, <1>4, EffectIs

LEMMA InitKeeps ==
    ASSUME NoNulls, Init
    PROVE  IInv /\ LeafContents(tree) = {} /\ Call(op) = <<>>
<1>1. (\E g : Sound(tree, g, Idle)) /\ LeafContents(tree) = {}
  BY OnInit DEF Init
<1>2. op = Idle
  BY DEF Init
<1> QED
  BY <1>1, <1>2 DEF IInv, Call, Idle

\* The inductive invariant: there is a ghost, of intervals and levels, for which
\* the tree is sound whatever the operation has done so far.
THEOREM TreeIsSound == ASSUME NoNulls PROVE Spec => []IInv
<1>1. Init => IInv
  BY InitKeeps
<1>2. IInv /\ [Next]_vars => IInv'
  BY StepKeeps
<1> QED
  BY <1>1, <1>2, PTL DEF Spec

\* Splits, joins and corrections move keys about; only the step of an insertion or
\* a removal that comes to the leaf changes the set of them, by its own key.
THEOREM TreeIsAKeySet == ASSUME NoNulls PROVE Spec => Refinement
<1>1. Init => KS!Init
  BY InitKeeps DEF KS!Init, KS!NoCall, Call
<1>2. IInv /\ [Next]_vars => [KS!Next]_<<LeafContents(tree), Call(op)>>
  BY StepKeeps
<1>3. Spec => []IInv
  BY TreeIsSound
<1> QED
  BY <1>1, <1>2, <1>3, PTL DEF Spec, Refinement, KS!Spec, Call

-----------------------------------------------------------------------------
(* The list of free nodes as FreeNodes walks it. *)

LEMMA FreeShort ==
    ASSUME NEW t \in Trees, NEW used, NEW n, NEW fl, FreeList(t, used, n, fl)
    PROVE  n <= Len(t.nodes) /\ Len(t.nodes) \in Nat
<1>1. Len(t.nodes) \in Nat /\ DOMAIN t.nodes = 1 .. Len(t.nodes) /\ n \in Nat
  BY TreeParts DEF FreeList
<1> DEFINE F == [i \in 1 .. n |-> fl[i]]
           S == 1 .. n
           T == 1 .. Len(t.nodes)
<1>2. \A i \in S : F[i] \in T
  BY <1>1 DEF FreeList
<1>3. \A i, j \in S : F[i] = F[j] => i = j
  BY DEF FreeList
<1>4. F \in Injection(S, T)
  <2>1. F \in [S -> T]
    BY <1>2
  <2> HIDE DEF F, S, T
  <2> QED
    BY <1>3, <2>1 DEF Injection, IsInjective
<1>5. /\ IsFiniteSet(T) /\ Cardinality(T) = Len(t.nodes) /\ Cardinality(S) = n
  <2>1. 1 \in Int /\ n \in Int /\ Len(t.nodes) \in Int
    BY <1>1
  <2>2. /\ IsFiniteSet(T) /\ Cardinality(T) = IF 1 > Len(t.nodes) THEN 0 ELSE Len(t.nodes) - 1 + 1
        /\ Cardinality(S) = IF 1 > n THEN 0 ELSE n - 1 + 1
    BY <2>1, FS_Interval
  <2> QED
    BY <1>1, <2>2
<1>6. Cardinality(S) <= Cardinality(T)
  <2> HIDE DEF F, S, T
  <2> QED
    BY <1>4, <1>5, FS_Injection
<1> QED
  BY <1>1, <1>5, <1>6

\* After m turns the walk has the last m + 1 nodes of the list, or all.
LEMMA WalkIs ==
    ASSUME NEW t \in Trees, NEW used, NEW n, NEW fl, FreeList(t, used, n, fl)
    PROVE  \E w : /\ Len(w) = n + 1 /\ w \in Seq(Nat) /\ FreeNodes(t) = Front(w)
                  /\ \A k \in 1 .. n + 1 : w[k] = fl[n + 1 - k]
<1>1. /\ n \in Nat /\ fl \in [Nat -> Nat] /\ fl[0] = NIL_NODE /\ fl[n] = t.free
      /\ \A i \in 1 .. n :
           fl[i] \in DOMAIN t.nodes /\ t.nodes[fl[i]] = [NewNode EXCEPT !.next = fl[i - 1]]
  BY DEF FreeList
<1>2. n <= Len(t.nodes) /\ Len(t.nodes) \in Nat /\ \A x \in DOMAIN t.nodes : x \in Nat \ {0}
  BY FreeShort, TreeParts
<1>3. PICK L : L = Len(t.nodes)
  OBVIOUS
<1> DEFINE From[m \in 0 .. L] ==
               IF m = 0 THEN <<t.free>>
               ELSE LET before == From[m - 1]
                        last   == before[Len(before)]
                    IN  IF last = NIL_NODE THEN before ELSE Append(before, t.nodes[last].next)
           More(s) == IF s[Len(s)] = NIL_NODE THEN s ELSE Append(s, t.nodes[s[Len(s)]].next)
           Size(m) == IF m <= n THEN m + 1 ELSE n + 1
           Known(m) == [k \in 1 .. Size(m) |-> fl[n + 1 - k]]
<1>4. FreeNodes(t) = Front(From[L])
  BY <1>3 DEF FreeNodes
<1>5. ASSUME NEW m \in Nat
      PROVE  /\ Known(m) \in Seq(Nat) /\ Len(Known(m)) = Size(m) /\ Size(m) \in 1 .. n + 1
             /\ \A k \in 1 .. Size(m) : Known(m)[k] = fl[n + 1 - k]
  <2>1. Size(m) \in 1 .. n + 1
    BY <1>1
  <2> HIDE DEF Size
  <2>2. \A k \in 1 .. Size(m) : fl[n + 1 - k] \in Nat
    <3> SUFFICES ASSUME NEW k \in 1 .. Size(m) PROVE fl[n + 1 - k] \in Nat
      OBVIOUS
    <3>1. n + 1 - k \in Nat
      BY <1>1, <2>1
    <3> QED
      BY <3>1, <1>1
  <2> QED
    BY <2>1, <2>2
<1>6. Known(0) = <<t.free>>
  <2>1. Size(0) = 1
    BY <1>1
  <2> HIDE DEF Size
  <2>2. \A k \in 1 .. 1 : fl[n + 1 - k] = t.free
    <3> SUFFICES ASSUME NEW k \in 1 .. 1 PROVE fl[n + 1 - k] = t.free
      OBVIOUS
    <3>1. n + 1 - k = n
      BY <1>1
    <3> QED
      BY <3>1, <1>1
  <2>3. Known(0) = [k \in 1 .. 1 |-> t.free]
    BY <2>1, <2>2
  <2>4. [k \in 1 .. 1 |-> t.free] = <<t.free>>
    OBVIOUS
  <2> QED
    BY <2>3, <2>4
<1>7. ASSUME NEW m \in Nat PROVE Known(m + 1) = More(Known(m))
  <2> DEFINE s == Known(m)
             last == s[Len(s)]
  <2>1. s \in Seq(Nat) /\ Len(s) = Size(m) /\ Size(m) \in 1 .. n + 1 /\ \A k \in 1 .. Size(m) : s[k] = fl[n + 1 - k]
    BY <1>5
  <2>2. last = fl[n + 1 - Size(m)]
    BY <2>1
  <2>3. CASE m >= n
    <3>1. Size(m) = n + 1 /\ Size(m + 1) = n + 1
      BY <1>1, <2>3
    <3>2. n + 1 - Size(m) = 0
      BY <1>1, <3>1
    <3>3. last = NIL_NODE
      BY <1>1, <2>2, <3>2
    <3>4. Known(m + 1) = s
      BY <3>1
    <3> QED
      BY <3>3, <3>4
  <2>4. CASE m < n
    <3>1. Size(m) = m + 1 /\ Size(m + 1) = m + 2 /\ m + 1 \in Nat
      BY <1>1, <2>4
    <3> DEFINE j == n + 1 - Size(m)
    <3>2. j \in 1 .. n /\ j - 1 = n + 1 - (m + 2)
      BY <1>1, <2>4, <3>1
    <3>3. last = fl[j]
      BY <2>2
    <3> HIDE DEF j
    <3>4. last # NIL_NODE /\ t.nodes[last] = [NewNode EXCEPT !.next = fl[j - 1]]
      BY <1>1, <1>2, <3>2, <3>3 DEF NIL_NODE
    <3>5. t.nodes[last].next = fl[j - 1]
      BY <3>4 DEF NewNode
    <3> HIDE DEF Known, Size, last
    <3>6. /\ Known(m + 1) \in Seq(Nat) /\ Len(Known(m + 1)) = m + 2
          /\ \A k \in 1 .. m + 2 : Known(m + 1)[k] = fl[n + 1 - k]
      BY <1>5, <3>1
    <3>7. fl[j - 1] \in Nat
      <4>1. j - 1 \in Nat
        BY <1>1, <3>2
      <4> QED
        BY <4>1, <1>1
    <3>8. Len(s) = m + 1 /\ \A k \in 1 .. m + 1 : s[k] = fl[n + 1 - k]
      BY <2>1, <3>1
    <3> HIDE DEF s
    <3>9. Known(m + 1) = Append(s, fl[j - 1])
      <4> DEFINE r == Append(s, fl[j - 1])
      <4>1. r \in Seq(Nat) /\ Len(r) = m + 2 /\ (\A k \in 1 .. m + 1 : r[k] = s[k]) /\ r[m + 2] = fl[j - 1]
        BY <2>1, <3>7, <3>8
      <4> HIDE DEF r
      <4>2. ASSUME NEW k \in 1 .. m + 2 PROVE r[k] = Known(m + 1)[k]
        <5>1. CASE k \in 1 .. m + 1
          BY <5>1, <4>1, <3>6, <3>8
        <5>2. CASE k = m + 2
          BY <5>2, <4>1, <3>2, <3>6
        <5> QED
          BY <5>1, <5>2
      <4>3. r = Known(m + 1)
        BY <4>1, <4>2, <3>6
      <4> QED
        BY <4>3 DEF r
    <3> QED
      BY <3>4, <3>5, <3>9 DEF last, s
  <2>5. m >= n \/ m < n
    BY <1>1
  <2> QED
    BY <2>3, <2>4, <2>5
<1> HIDE DEF Known
<1>8. From = [m \in 0 .. L |-> IF m = 0 THEN <<t.free>> ELSE More(From[m - 1])]
  <2> DEFINE K == [m \in 0 .. L |-> Known(m)]
             Step(f, m) == IF m = 0 THEN <<t.free>>
                           ELSE LET before == f[m - 1]
                                    last   == before[Len(before)]
                                IN  IF last = NIL_NODE THEN before ELSE Append(before, t.nodes[last].next)
  <2>1. ASSUME NEW m \in 0 .. L PROVE Known(m) = Step(K, m)
    <3>1. CASE m = 0
      BY <3>1, <1>6
    <3>2. CASE m # 0
      <4>1. m - 1 \in 0 .. L /\ m - 1 \in Nat /\ (m - 1) + 1 = m
        BY <3>2, <1>2, <1>3
      <4> DEFINE k == m - 1
      <4>2. K[k] = Known(k) /\ k \in Nat /\ k + 1 = m
        BY <4>1
      <4> HIDE DEF k, K
      <4>3. Known(k + 1) = More(Known(k))
        BY <4>2, <1>7
      <4>4. Step(K, m) = More(K[k])
        BY <3>2 DEF k
      <4> QED
        BY <4>2, <4>3, <4>4
    <3> QED
      BY <3>1, <3>2
  <2>2. K = [m \in 0 .. L |-> Step(K, m)]
    <3> HIDE DEF Step
    <3> QED
      BY <2>1
  <2>3. \E f : f = [m \in 0 .. L |-> Step(f, m)]
    <3> HIDE DEF K, Step
    <3> QED
      BY <2>2
  <2>4. From = CHOOSE f : f = [m \in 0 .. L |-> Step(f, m)]
    BY DEF From
  <2> HIDE DEF From, Step
  <2>5. From = [m \in 0 .. L |-> Step(From, m)]
    BY <2>3, <2>4
  <2> QED
    BY <2>5 DEF Step
<1> HIDE DEF From
<1> DEFINE S == {m \in Nat : m <= L => From[m] = Known(m)}
<1>9. 0 \in S
  <2>1. 0 \in 0 .. L
    BY <1>2, <1>3
  <2> HIDE DEF More
  <2>2. From[0] = <<t.free>>
    BY <1>8, <2>1
  <2> QED
    BY <2>2, <1>6
<1>10. ASSUME NEW m \in Nat, m \in S PROVE m + 1 \in S
  <2> SUFFICES ASSUME m + 1 <= L PROVE From[m + 1] = Known(m + 1)
    OBVIOUS
  <2>1. m + 1 \in 0 .. L /\ m + 1 # 0 /\ (m + 1) - 1 = m /\ m <= L
    BY <1>2, <1>3
  <2>2. From[m] = Known(m)
    BY <1>10, <2>1
  <2> DEFINE q == m + 1
  <2>3. q \in 0 .. L /\ q # 0 /\ q - 1 = m
    BY <2>1
  <2> HIDE DEF More, q
  <2>4. From[q] = More(From[m])
    BY <1>8, <2>3
  <2>5. From[m + 1] = More(Known(m))
    BY <2>2, <2>4 DEF q
  <2> QED
    BY <2>5, <1>7
<1>11. From[L] = Known(L)
  <2>1. \A m \in Nat : m \in S => m + 1 \in S
    BY <1>10
  <2>2. Nat \subseteq S
    <3> HIDE DEF S
    <3> QED
      BY <1>9, <2>1, ByInduction
  <2> QED
    BY <2>2, <1>2, <1>3
<1>12. Size(L) = n + 1 /\ L \in Nat
  <2>1. L \in Nat /\ n \in Nat /\ n <= L
    BY <1>1, <1>2, <1>3
  <2>2. CASE n = L
    BY <2>2, <2>1
  <2>3. CASE n # L
    <3>1. ~(L <= n)
      BY <2>1, <2>3
    <3> QED
      BY <2>1, <3>1
  <2> QED
    BY <2>1, <2>2, <2>3
<1> HIDE DEF Size
<1>13. /\ Known(L) \in Seq(Nat) /\ Len(Known(L)) = n + 1
       /\ \A k \in 1 .. n + 1 : Known(L)[k] = fl[n + 1 - k]
  BY <1>5, <1>12
<1> QED
  BY <1>4, <1>11, <1>13

LEMMA UsedIs ==
    ASSUME NEW t \in Trees, NEW used, FreeChain(t, used)
    PROVE  UsedNodes(t) = used
<1>1. PICK n, fl : FreeList(t, used, n, fl)
  BY DEF FreeChain
<1>2. PICK w : /\ Len(w) = n + 1 /\ w \in Seq(Nat) /\ FreeNodes(t) = Front(w)
               /\ \A k \in 1 .. n + 1 : w[k] = fl[n + 1 - k]
  BY <1>1, WalkIs
<1>3. n \in Nat /\ used = DOMAIN t.nodes \ {fl[i] : i \in 1 .. n}
  BY <1>1 DEF FreeList
<1>4. Front(w) \in Seq(Nat) /\ Len(Front(w)) = n /\ \A i \in 1 .. n : Front(w)[i] = fl[n + 1 - i]
  <2>1. Len(w) >= 1 /\ Len(w) - 1 = n
    BY <1>2, <1>3
  <2>2. Front(w) \in Seq(Nat) /\ Len(Front(w)) = n /\ \A i \in 1 .. n : Front(w)[i] = w[i]
    BY <1>2, <2>1, FrontIs
  <2>3. \A i \in 1 .. n : i \in 1 .. n + 1
    BY <1>3
  <2> QED
    BY <1>2, <2>2, <2>3
<1>5. DOMAIN Front(w) = 1 .. n
  BY <1>4, LenProperties
<1>6. ToSet(Front(w)) = {fl[i] : i \in 1 .. n}
  <2>1. ASSUME NEW i \in 1 .. n PROVE Front(w)[i] \in {fl[j] : j \in 1 .. n}
    <3>1. n + 1 - i \in 1 .. n
      BY <1>3
    <3> QED
      BY <1>4, <3>1
  <2>2. ASSUME NEW i \in 1 .. n PROVE \E j \in 1 .. n : fl[i] = Front(w)[j]
    <3> DEFINE j == n + 1 - i
    <3>1. j \in 1 .. n /\ n + 1 - j = i
      BY <1>3
    <3> HIDE DEF j
    <3> QED
      BY <1>4, <3>1
  <2> QED
    BY <1>5, <2>1, <2>2 DEF ToSet
<1> QED
  BY <1>2, <1>3, <1>6 DEF UsedNodes

-----------------------------------------------------------------------------
(* From the invariant to the properties of the model. *)

LEMMA Retyped ==
    ASSUME NEW S, NEW T, NEW s \in Seq(S), \A i \in 1 .. Len(s) : s[i] \in T
    PROVE  s \in Seq(T)
<1>1. Len(s) \in Nat /\ s = [i \in 1 .. Len(s) |-> s[i]]
  BY LenProperties
<1>2. [i \in 1 .. Len(s) |-> s[i]] \in [1 .. Len(s) -> T]
  OBVIOUS
<1>3. s \in [1 .. Len(s) -> T]
  BY <1>1, <1>2
<1> DEFINE m == Len(s)
<1>4. m \in Nat /\ s \in [1 .. m -> T]
  BY <1>1, <1>3
<1> HIDE DEF m
<1> QED
  BY <1>4, SeqDef

LEMMA NodeTyped ==
    ASSUME NoNulls, NEW t, NEW g, Whole(t, g), NEW x \in DOMAIN t.nodes
    PROVE  LET n == t.nodes[x]
           IN  /\ n.leaf \in BOOLEAN /\ n.nulls \in Nat
               /\ n.keys \in Seq(Keys \cup {SentinelKey})
               /\ n.child \in Seq(DOMAIN t.nodes)
               /\ {n.prev, n.next} \subseteq DOMAIN t.nodes \cup {NIL_NODE}
               /\ ~n.leaf => Len(n.child) = Len(n.keys)
<1>1. /\ t \in Trees /\ t.nodes[x] \in Node /\ \A y \in g.used : y \in DOMAIN t.nodes
  BY TreeParts, WholeIs DEF Whole
<1> DEFINE n == t.nodes[x]
<1>2. /\ n.leaf \in BOOLEAN /\ n.nulls \in Nat /\ n.keys \in Seq(Keys \cup {SentinelKey})
      /\ n.child \in Seq(Nat) /\ n.prev \in Nat /\ n.next \in Nat
  BY <1>1 DEF Node, AllKeys
<1>3. CASE x \in g.used
  <2>1. Fit(n)
    BY <1>3, WholeIs
  <2>2. {n.prev, n.next} \subseteq DOMAIN t.nodes \cup {NIL_NODE}
    BY <1>1, <1>3 DEF Whole, Linked
  <2>3. CASE n.leaf
    <3>1. n.child = <<>>
      BY <2>1, <2>3 DEF Fit
    <3>2. n.child \in Seq(DOMAIN t.nodes)
      BY <3>1
    <3> QED
      BY <1>2, <2>2, <2>3, <3>2
  <2>4. CASE ~n.leaf
    <3>1. Len(n.child) = Len(n.keys)
      BY <2>1, <2>4 DEF Fit
    <3>2. \A i \in 1 .. Len(n.child) : n.child[i] \in DOMAIN t.nodes
      BY <1>1, <1>3, <2>4, <3>1 DEF Whole, Family
    <3>3. n.child \in Seq(DOMAIN t.nodes)
      BY <1>2, <3>2, Retyped
    <3> QED
      BY <1>2, <2>2, <3>1, <3>3
  <2> QED
    BY <2>3, <2>4
<1>4. CASE x \notin g.used
  <2>1. PICK m, fl : FreeList(t, g.used, m, fl)
    BY DEF Whole, FreeChain
  <2>2. PICK i \in 1 .. m : x = fl[i]
    BY <1>4, <2>1 DEF FreeList
  <2>3. n = [NewNode EXCEPT !.next = fl[i - 1]] /\ m \in Nat
    BY <2>1, <2>2 DEF FreeList
  <2>4. /\ NewNode \in Node /\ ~NewNode.leaf
        /\ NewNode.keys = <<>> /\ NewNode.child = <<>> /\ NewNode.prev = 0
    BY NewNodeIs
  <2>5. n.child = <<>> /\ n.keys = <<>> /\ n.prev = 0 /\ n.next = fl[i - 1]
    BY <2>3, <2>4 DEF Node
  <2>6. fl[i - 1] \in DOMAIN t.nodes \cup {NIL_NODE}
    <3>1. i - 1 = 0 \/ i - 1 \in 1 .. m
      BY <2>2, <2>3
    <3> DEFINE j == i - 1
    <3>2. j = 0 \/ j \in 1 .. m
      BY <3>1
    <3> HIDE DEF j
    <3>3. fl[j] \in DOMAIN t.nodes \cup {NIL_NODE}
      BY <2>1, <3>2 DEF FreeList
    <3> QED
      BY <3>3 DEF j
  <2>7. n.child \in Seq(DOMAIN t.nodes) /\ Len(n.child) = Len(n.keys)
    BY <2>5
  <2> QED
    BY <1>2, <2>5, <2>6, <2>7 DEF NIL_NODE
<1> QED
  BY <1>3, <1>4

LEMMA PathTyped ==
    ASSUME NoNulls, NEW t, NEW g, NEW o, Sound(t, g, o)
    PROVE  o.path \in Seq(DOMAIN t.nodes)
<1>1. Whole(t, g) /\ o \in Ops /\ Phase(t, g, o)
  BY DEF Sound
<1>2. CASE o.path = <<>>
  BY <1>2
<1>3. CASE Way(t, g, o)
  <2>1. o.path \in Seq(Nat)
    BY <1>1 DEF Ops
  <2>2. \A i \in 1 .. Len(o.path) : o.path[i] \in DOMAIN t.nodes
    BY <1>1, <1>3, WholeIs DEF Way
  <2> QED
    BY <2>1, <2>2, Retyped
<1>4. o.path = <<>> \/ Way(t, g, o)
  BY <1>1 DEF Phase, AtRest, Idle, Inserting, Removing, Adjusting, Collapsing
<1> QED
  BY <1>2, <1>3, <1>4

LEMMA TypeFollows ==
    ASSUME NoNulls, IInv
    PROVE  TypeOK
<1>1. PICK g : Sound(tree, g, op)
  BY DEF IInv
<1>2. Whole(tree, g) /\ op \in Ops
  BY <1>1 DEF Sound
<1>3. tree \in Trees
  BY <1>2 DEF Whole
<1>4. DOMAIN tree = {"nodes", "root", "free"}
  BY <1>3 DEF Trees
<1>5. tree.root \in DOMAIN tree.nodes
  BY <1>2, WholeIs DEF Whole, Rooted
<1>6. tree.free \in DOMAIN tree.nodes \cup {NIL_NODE}
  <2>1. PICK m, fl : FreeList(tree, g.used, m, fl)
    BY <1>2 DEF Whole, FreeChain
  <2>2. m = 0 \/ m \in 1 .. m
    BY <2>1 DEF FreeList
  <2> QED
    BY <2>1, <2>2 DEF FreeList
<1>7. /\ op.kind \in {"idle", "insert", "remove", "adjust", "collapse"}
      /\ op.key \in Keys \cup {SentinelKey}
  BY <1>2 DEF Ops, AllKeys
<1>8. op.path \in Seq(DOMAIN tree.nodes)
  BY <1>1, PathTyped
<1>9. \A id \in DOMAIN tree.nodes :
        LET n == tree.nodes[id]
        IN  /\ n.leaf \in BOOLEAN /\ n.nulls \in Nat
            /\ n.keys \in Seq(Keys \cup {SentinelKey})
            /\ n.child \in Seq(DOMAIN tree.nodes)
            /\ {n.prev, n.next} \subseteq DOMAIN tree.nodes \cup {NIL_NODE}
            /\ ~n.leaf => Len(n.child) = Len(n.keys)
  BY <1>2, NodeTyped
<1> QED
  BY <1>4, <1>5, <1>6, <1>7, <1>8, <1>9 DEF TypeOK

\* The children, each by its parent and its place, are the nodes but the root.
LEMMA ChildrenAre ==
    ASSUME NoNulls, NEW t, NEW g, Whole(t, g), Sized(t, g),
           NEW C, C = {c \in {y \in g.used : ~t.nodes[y].leaf} \X (1 .. InnerKeys) :
                          c[2] <= Len(t.nodes[c[1]].child)}
    PROVE  /\ {t.nodes[c[1]].child[c[2]] : c \in C} = g.used \ {t.root}
           /\ Cardinality(C) = Cardinality(g.used) - 1
<1>1. InnerKeys \in Nat
  BY BTreeAssumption
<1> DEFINE F == [c \in C |-> t.nodes[c[1]].child[c[2]]]
<1>2. ASSUME NEW c \in C
      PROVE  /\ c[1] \in g.used /\ c = <<c[1], c[2]>> /\ IsChild(t, c[1], c[2], F[c])
             /\ F[c] \in g.used \ {t.root}
  <2>1. c[1] \in g.used /\ ~t.nodes[c[1]].leaf /\ c[2] \in 1 .. InnerKeys
        /\ c = <<c[1], c[2]>> /\ c[2] <= Len(t.nodes[c[1]].child)
    OBVIOUS
  <2>2. Fit(t.nodes[c[1]])
    BY <2>1, WholeIs
  <2>3. Len(t.nodes[c[1]].child) = Len(t.nodes[c[1]].keys)
    BY <2>1, <2>2 DEF Fit
  <2>4. Len(t.nodes[c[1]].keys) \in Nat
    BY <2>1, WholeIs
  <2>5. c[2] \in 1 .. Len(t.nodes[c[1]].keys)
    BY <2>1, <2>3, <2>4, <1>1
  <2>6. IsChild(t, c[1], c[2], F[c])
    BY <2>1, <2>5 DEF IsChild
  <2> HIDE DEF F
  <2>7. F[c] \in g.used \ {t.root}
    BY <2>1, <2>6, ChildIs
  <2> QED
    BY <2>1, <2>6, <2>7
<1>3. ASSUME NEW x \in g.used \ {t.root} PROVE \E c \in C : F[c] = x
  <2>0. PICK p \in g.used : \E i \in 1 .. Len(t.nodes[p].keys) : IsChild(t, p, i, x)
    BY ParentOf
  <2>1. PICK i \in 1 .. Len(t.nodes[p].keys) : IsChild(t, p, i, x)
    BY <2>0
  <2>2. ~t.nodes[p].leaf /\ t.nodes[p].child[i] = x
    BY <2>1 DEF IsChild
  <2>3. Fit(t.nodes[p]) /\ Len(t.nodes[p].keys) \in Nat
    BY WholeIs
  <2>4. Len(t.nodes[p].child) = Len(t.nodes[p].keys)
    BY <2>2, <2>3 DEF Fit
  <2>5. Len(t.nodes[p].keys) <= Full(t.nodes[p])
    BY DEF Sized
  <2>6. Full(t.nodes[p]) <= InnerKeys
    <3>1. Full(t.nodes[p]) <= KeysPerNode(t.nodes[p]) - 1 /\ Full(t.nodes[p]) \in Nat /\ KeysPerNode(t.nodes[p]) \in Nat
      BY <2>3, SizesIs
    <3>2. KeysPerNode(t.nodes[p]) = InnerKeys
      BY <2>2 DEF KeysPerNode
    <3> QED
      BY <3>1, <3>2
  <2>7. Full(t.nodes[p]) \in Nat
    BY <2>3, SizesIs
  <2>8. i \in 1 .. InnerKeys /\ i <= Len(t.nodes[p].child)
    BY <1>1, <2>3, <2>4, <2>5, <2>6, <2>7
  <2> DEFINE c == <<p, i>>
  <2>9. c[1] = p /\ c[2] = i /\ c \in {y \in g.used : ~t.nodes[y].leaf} \X (1 .. InnerKeys)
    BY <2>2, <2>8
  <2> HIDE DEF c
  <2>10. c \in C
    BY <2>8, <2>9
  <2>11. F[c] = x
    BY <2>2, <2>9, <2>10
  <2> QED
    BY <2>10, <2>11
<1>4. ASSUME NEW c \in C, NEW d \in C, F[c] = F[d] PROVE c = d
  <2> HIDE DEF F
  <2>1. c[1] = d[1] /\ c[2] = d[2]
    BY <1>2, <1>4, OnlyParent
  <2> QED
    BY <2>1, <1>2
<1>5. {t.nodes[c[1]].child[c[2]] : c \in C} = {F[c] : c \in C}
  OBVIOUS
<1>6. F \in [C -> g.used \ {t.root}]
  BY <1>2
<1> HIDE DEF F
<1>7. {F[c] : c \in C} = g.used \ {t.root}
  BY <1>2, <1>3
<1>8. F \in Bijection(C, g.used \ {t.root})
  <2> DEFINE T == g.used \ {t.root}
  <2>1. F \in [C -> T] /\ \A x \in T : \E c \in C : F[c] = x
    BY <1>3, <1>6
  <2>2. \A c, d \in C : F[c] = F[d] => c = d
    BY <1>4
  <2> HIDE DEF T
  <2>3. F \in Injection(C, T) /\ F \in Surjection(C, T)
    BY <2>1, <2>2 DEF Injection, IsInjective, Surjection
  <2> QED
    BY <2>3 DEF Bijection, T
<1>9. IsFiniteSet(g.used)
  <2>1. t \in Trees /\ \A x \in g.used : x \in DOMAIN t.nodes
    BY WholeIs DEF Whole
  <2>2. Len(t.nodes) \in Nat /\ DOMAIN t.nodes = 1 .. Len(t.nodes)
    BY <2>1, TreeParts
  <2>3. IsFiniteSet(1 .. Len(t.nodes))
    BY <2>2, FS_Interval
  <2>4. g.used \in SUBSET (1 .. Len(t.nodes))
    BY <2>1, <2>2
  <2> QED
    BY <2>3, <2>4, FS_Subset
<1>10. /\ IsFiniteSet(g.used \ {t.root}) /\ Cardinality(g.used \ {t.root}) = Cardinality(g.used) - 1
  <2>1. t.root \in g.used
    BY DEF Whole, Rooted
  <2> QED
    BY <1>9, <2>1, FS_RemoveElement
<1>11. Cardinality(C) = Cardinality(g.used \ {t.root})
  <2> DEFINE T == g.used \ {t.root}
  <2>1. IsFiniteSet(T) /\ F \in Bijection(C, T)
    BY <1>8, <1>10
  <2> HIDE DEF T
  <2>2. F \in Injection(C, T) /\ F \in Surjection(C, T)
    BY <2>1 DEF Bijection
  <2>3. IsFiniteSet(C)
    BY <2>1, <2>2, FS_Injection
  <2>4. ExistsBijection(C, T)
    BY <2>1 DEF ExistsBijection
  <2>5. Cardinality(T) = Cardinality(C)
    BY <2>3, <2>4, FS_Bijection
  <2> QED
    BY <2>5 DEF T
<1> QED
  BY <1>5, <1>7, <1>10, <1>11

LEMMA AccountFollows ==
    ASSUME NoNulls, IInv
    PROVE  NodesAccounted
<1>1. PICK g : Sound(tree, g, op)
  BY DEF IInv
<1>2. Whole(tree, g) /\ Sized(tree, g) /\ tree \in Trees /\ FreeChain(tree, g.used) /\ tree.root \in g.used
  BY <1>1 DEF Sound, Whole, Rooted
<1>3. UsedNodes(tree) = g.used
  BY <1>2, UsedIs
<1>4. ASSUME NEW id \in g.used
      PROVE  LET n == tree.nodes[id]
             IN  KeysCount(n) \in 1 .. (KeysPerNode(n) - 1) /\ n.nulls <= KeysCount(n)
  <2> DEFINE n == tree.nodes[id]
  <2>1. Fit(n) /\ Len(n.keys) \in Nat \ {0} /\ Len(n.keys) <= Full(n)
    BY <1>2, WholeIs DEF Sized
  <2> HIDE DEF n
  <2>2. Full(n) \in Nat /\ Full(n) <= KeysPerNode(n) - 1 /\ KeysPerNode(n) \in Nat
    BY <2>1, SizesIs
  <2>3. KeysCount(n) = Len(n.keys) /\ n.nulls = 0
    BY <2>1, FitIs
  <2>4. KeysCount(n) \in 1 .. (KeysPerNode(n) - 1) /\ n.nulls <= KeysCount(n)
    BY <2>1, <2>2, <2>3
  <2> QED
    BY <2>4 DEF n
<1> DEFINE C == {c \in {y \in g.used : ~tree.nodes[y].leaf} \X (1 .. InnerKeys) :
                    c[2] <= Len(tree.nodes[c[1]].child)}
<1>5. /\ {tree.nodes[c[1]].child[c[2]] : c \in C} = g.used \ {tree.root}
      /\ Cardinality(C) = Cardinality(g.used) - 1
  BY <1>2, ChildrenAre
<1> QED
  BY <1>2, <1>3, <1>4, <1>5 DEF NodesAccounted

LEMMA TightAtRest ==
    ASSUME NoNulls, NEW t, NEW g, NEW o, Sound(t, g, o), o.kind # "adjust"
    PROVE  Tight(t, g, {})
<1>1. o \in Ops /\ Phase(t, g, o)
  BY DEF Sound
<1>2. ~Adjusting(t, g, o)
  BY DEF Adjusting
<1> QED
  BY <1>1, <1>2 DEF Phase, AtRest, Inserting, Removing, Collapsing

LEMMA NeighboursFollow ==
    ASSUME NoNulls, IInv
    PROVE  Neighbours
<1>1. PICK g : Sound(tree, g, op)
  BY DEF IInv
<1>2. Whole(tree, g) /\ tree \in Trees /\ FreeChain(tree, g.used) /\ Linked(tree, g) /\ Family(tree, g)
  BY <1>1 DEF Sound, Whole
<1>3. UsedNodes(tree) = g.used
  BY <1>2, UsedIs
<1>4. ASSUME NEW id \in g.used
      PROVE  LET n == tree.nodes[id]
             IN  /\ n.next # NIL_NODE =>
                      /\ tree.nodes[n.next].prev = id
                      /\ tree.nodes[n.next].leaf = n.leaf
                      /\ CompareWith(GetKey(tree.nodes[n.next], KeysCount(tree.nodes[n.next])),
                                     GetKey(n, 1)) > 0
                 /\ n.prev # NIL_NODE => tree.nodes[n.prev].next = id
                 /\ op.kind # "adjust" =>
                      \A i \in DOMAIN n.child : GetKey(n, i) = GetKey(tree.nodes[n.child[i]], 1)
  <2> DEFINE n == tree.nodes[id]
  <2>1. /\ id # NIL_NODE /\ Fit(n) /\ Len(n.keys) \in Nat \ {0} /\ n.leaf \in BOOLEAN /\ (n.leaf <=> g.lev[id] = 0)
        /\ g.lev[id] \in Nat /\ g.hi[id] \in Nat /\ \A i \in 1 .. Len(n.keys) : Covers(g, id, Num(n.keys[i]))
    BY <1>2, WholeIs DEF NIL_NODE
  <2>2. /\ \A i \in 1 .. Len(n.keys) : n.keys[i] \in AllKeys /\ GetKey(n, i) = n.keys[i]
        /\ 1 \in 1 .. Len(n.keys)
    BY <2>1, FitIs
  <2>3. n.prev # NIL_NODE => tree.nodes[n.prev].next = id
    BY <1>2 DEF Linked
  <2>4. ASSUME n.next # NIL_NODE
        PROVE  /\ tree.nodes[n.next].prev = id
               /\ tree.nodes[n.next].leaf = n.leaf
               /\ CompareWith(GetKey(tree.nodes[n.next], KeysCount(tree.nodes[n.next])), GetKey(n, 1)) > 0
    <3> DEFINE y == n.next
               m == tree.nodes[y]
    <3>1. y \in g.used /\ m.prev = id
      BY <1>2, <2>4 DEF Linked
    <3>2. g.lev[id] = g.lev[y] /\ g.hi[id] = g.lo[y]
      BY <1>2, <2>1, <3>1 DEF Linked
    <3> HIDE DEF y
    <3>3. /\ Fit(m) /\ Len(m.keys) \in Nat \ {0} /\ m.leaf \in BOOLEAN /\ (m.leaf <=> g.lev[y] = 0)
          /\ g.lo[y] \in Nat /\ \A i \in 1 .. Len(m.keys) : Covers(g, y, Num(m.keys[i]))
      BY <1>2, <3>1, WholeIs
    <3> DEFINE k == Len(m.keys)
               b == m.keys[k]
               a == n.keys[1]
    <3>4. /\ k \in 1 .. Len(m.keys) /\ KeysCount(m) = k
          /\ \A i \in 1 .. Len(m.keys) : m.keys[i] \in AllKeys /\ GetKey(m, i) = m.keys[i]
      BY <3>3, FitIs
    <3> HIDE DEF m, n, k
    <3>5. b \in AllKeys /\ a \in AllKeys /\ GetKey(m, k) = b /\ GetKey(n, 1) = a
      BY <2>2, <3>4
    <3>6. g.lo[y] < Num(b) /\ Num(a) <= g.hi[id]
      BY <2>1, <2>2, <3>3, <3>4 DEF Covers
    <3>7. Num(a) \in Nat /\ Num(b) \in Nat
      BY <3>5, NumIs
    <3> HIDE DEF a, b
    <3>8. Num(b) > Num(a)
      BY <2>1, <3>2, <3>3, <3>6, <3>7
    <3>9. CompareWith(b, a) > 0
      BY <3>5, <3>8, CompareIs
    <3>10. m.leaf = n.leaf
      BY <2>1, <3>2, <3>3
    <3>11. CompareWith(GetKey(m, KeysCount(m)), GetKey(n, 1)) > 0
      BY <3>4, <3>5, <3>9
    <3> QED
      BY <3>1, <3>10, <3>11 DEF m, y, n
  <2>5. ASSUME op.kind # "adjust", NEW i \in DOMAIN n.child
        PROVE  GetKey(n, i) = GetKey(tree.nodes[n.child[i]], 1)
    <3>1. Tight(tree, g, {})
      BY <1>1, <2>5, TightAtRest
    <3>2. ~n.leaf
      BY <2>1, <2>5 DEF Fit
    <3>3. Len(n.child) = Len(n.keys)
      BY <2>1, <3>2 DEF Fit
    <3>4. DOMAIN n.child = 1 .. Len(n.child)
      BY <2>1, LenProperties DEF Fit, Node
    <3>5. i \in 1 .. Len(n.keys)
      BY <3>3, <3>4
    <3> DEFINE c == n.child[i]
               m == tree.nodes[c]
    <3>6. c \in g.used /\ g.hi[c] = Num(n.keys[i])
      BY <1>2, <3>2, <3>5 DEF Family
    <3>7. Fit(m) /\ Len(m.keys) \in Nat \ {0} /\ Num(m.keys[1]) = g.hi[c]
      BY <1>2, <3>1, <3>6, WholeIs DEF Tight
    <3>8. 1 \in 1 .. Len(m.keys) /\ m.keys[1] \in AllKeys /\ GetKey(m, 1) = m.keys[1]
      <4> HIDE DEF n, c, m
      <4> QED
        BY <3>7, FitIs
    <3>9. n.keys[i] \in AllKeys /\ GetKey(n, i) = n.keys[i]
      BY <2>2, <3>5
    <3> HIDE DEF n, c, m
    <3>10. m.keys[1] = n.keys[i]
      BY <3>6, <3>7, <3>8, <3>9, CompareIs
    <3>11. GetKey(n, i) = GetKey(m, 1)
      BY <3>8, <3>9, <3>10
    <3> QED
      BY <3>11 DEF n, c, m
  <2> HIDE DEF n
  <2>6. /\ n.next # NIL_NODE =>
             /\ tree.nodes[n.next].prev = id
             /\ tree.nodes[n.next].leaf = n.leaf
             /\ CompareWith(GetKey(tree.nodes[n.next], KeysCount(tree.nodes[n.next])), GetKey(n, 1)) > 0
        /\ n.prev # NIL_NODE => tree.nodes[n.prev].next = id
        /\ op.kind # "adjust" =>
             \A i \in DOMAIN n.child : GetKey(n, i) = GetKey(tree.nodes[n.child[i]], 1)
    BY <2>3, <2>4, <2>5
  <2> QED
    BY <2>6 DEF n
<1> QED
  BY <1>3, <1>4 DEF Neighbours

LEMMA SentinelFollows ==
    ASSUME NoNulls, IInv
    PROVE  RootStartsWithSentinel
<1>1. PICK g : Sound(tree, g, op)
  BY DEF IInv
<1>2. Whole(tree, g) /\ tree.root \in g.used /\ g.hi[tree.root] = Top
  BY <1>1 DEF Sound, Whole, Rooted
<1>3. Num(tree.nodes[tree.root].keys[1]) = Top
  <2>1. CASE op.kind = "adjust"
    <3>1. Adjusting(tree, g, op)
      BY <1>1, <2>1, SoundIs
    <3>2. PICK c \in g.used : Tight(tree, g, {c}) /\ g.hi[c] = Num(op.key)
      BY <3>1 DEF Adjusting
    <3>3. op.key \in Keys
      BY <3>1 DEF Adjusting
    <3>4. Num(op.key) # Top
      BY <3>3, KeyIsNoSentinel
    <3>5. c # tree.root
      BY <1>2, <3>2, <3>4
    <3> QED
      BY <1>2, <3>2, <3>5 DEF Tight
  <2>2. CASE op.kind # "adjust"
    <3>1. Tight(tree, g, {})
      BY <1>1, <2>2, TightAtRest
    <3> QED
      BY <1>2, <3>1 DEF Tight
  <2> QED
    BY <2>1, <2>2
<1>4. Fit(tree.nodes[tree.root]) /\ Len(tree.nodes[tree.root].keys) \in Nat \ {0}
  BY <1>2, WholeIs
<1> DEFINE k == tree.nodes[tree.root].keys[1]
<1>5. k \in AllKeys /\ GetKey(tree.nodes[tree.root], 1) = k
  <2>1. 1 \in 1 .. Len(tree.nodes[tree.root].keys)
    BY <1>4
  <2> QED
    BY <1>4, <2>1, FitIs
<1> HIDE DEF k
<1>6. SentinelKey \in AllKeys /\ Num(SentinelKey) = Top /\ Num(k) = Top
  BY <1>3 DEF AllKeys, Top, k
<1>7. k = SentinelKey
  BY <1>5, <1>6, CompareIs
<1> QED
  BY <1>5, <1>7 DEF RootStartsWithSentinel

\* No split or join loses a node, shares one or leaves one too full for a key, the
\* levels stay linked in order both ways, and inner nodes repeat the first keys of
\* their children except on the way up of a removal.
THEOREM TreeStaysWhole == ASSUME NoNulls PROVE Spec => []TreeIsWhole
<1>1. IInv => TreeIsWhole
  BY TypeFollows, AccountFollows, NeighboursFollow DEF TreeIsWhole
<1> QED
  BY <1>1, TreeIsSound, PTL

\* The first key of the root is the sentinel when a root is split and at any time,
\* so that no key an insertion looks for is above all of those in the tree.
THEOREM RootKeepsSentinel == ASSUME NoNulls PROVE Spec => []RootStartsWithSentinel
<1>1. IInv => RootStartsWithSentinel
  BY SentinelFollows
<1> QED
  BY <1>1, TreeIsSound, PTL

-----------------------------------------------------------------------------
(* A scan: the way down to the first leaf. *)

\* The smallest number of a key that a search for a finds.
Reach(a) == IF a = LowKey THEN 1 ELSE Num(a)

LEMMA ReachIs ==
    ASSUME NoNulls, NEW a \in Marks
    PROVE  /\ Reach(a) \in Nat \ {0} /\ Reach(a) <= Top /\ Top \in Nat
           /\ \A b \in AllKeys : CompareWith(a, b) <= 0 <=> Reach(a) <= Num(b)
           /\ \A n : Fit(n) => Found(n.keys, Reach(a), FindBiggerOrEqual(n, a))
<1>0. Top \in Nat \ {0}
  <2>1. SentinelKey \in AllKeys
    BY DEF AllKeys
  <2> QED
    BY <2>1, NumIs DEF Top
<1>1. CASE a = LowKey
  <2>1. MaxOf(Rows) \in Nat
    <3>1. SentinelKey \in AllKeys
      BY DEF AllKeys
    <3> QED
      BY <3>1, KeyParts
  <2>2. Num(LowKey) = 0
    <3>1. Num(LowKey) = 0 * (MaxOf(Rows) + 2) + 0
      BY DEF Num, LowKey, Null
    <3> QED
      BY <3>1, <2>1
  <2>3. Reach(a) = 1 /\ Num(a) = 0
    BY <1>1, <2>2 DEF Reach
  <2>4. ASSUME NEW b \in AllKeys PROVE CompareWith(a, b) <= 0 <=> Reach(a) <= Num(b)
    <3>1. Num(b) \in Nat \ {0} /\ (CompareWith(a, b) <= 0 <=> 0 <= Num(b))
      BY <2>3, NumIs, CompareMark
    <3> QED
      BY <3>1, <2>3
  <2>5. ASSUME NEW n, Fit(n) PROVE Found(n.keys, Reach(a), FindBiggerOrEqual(n, a))
    <3>1. n \in Node /\ Descending(n.keys) /\ \A i \in 1 .. Len(n.keys) : Num(n.keys[i]) \in Nat \ {0}
      BY <2>5, FitIs
    <3>2. PICK f : f = FindBiggerOrEqual(n, a)
      OBVIOUS
    <3>3. Found(n.keys, 0, f)
      BY <2>3, <3>1, <3>2, SearchMark
    <3>4. Len(n.keys) \in Nat
      BY <2>5, FitIs
    <3>5. Found(n.keys, 1, f)
      <4>1. f \in 0 .. Len(n.keys) /\ \A i \in f + 1 .. Len(n.keys) : Num(n.keys[i]) < 0
        BY <3>3 DEF Found
      <4>2. ASSUME NEW i \in 1 .. f PROVE Num(n.keys[i]) >= 1
        <5>1. i \in 1 .. Len(n.keys)
          BY <3>4, <4>1
        <5>2. Num(n.keys[i]) \in Nat \ {0}
          BY <3>1, <5>1
        <5> QED
          BY <5>2
      <4>3. ASSUME NEW i \in f + 1 .. Len(n.keys) PROVE Num(n.keys[i]) < 1
        <5>1. i \in 1 .. Len(n.keys)
          BY <3>4, <4>1
        <5>2. Num(n.keys[i]) \in Nat \ {0} /\ Num(n.keys[i]) < 0
          BY <3>1, <4>1, <5>1
        <5> QED
          BY <5>2
      <4> QED
        BY <4>1, <4>2, <4>3 DEF Found
    <3> QED
      BY <2>3, <3>2, <3>5
  <2> QED
    BY <1>0, <2>3, <2>4, <2>5
<1>2. CASE a # LowKey
  <2>1. a \in AllKeys /\ Reach(a) = Num(a)
    BY <1>2 DEF Marks, Reach
  <2>2. Num(a) \in Nat \ {0} /\ Num(a) <= Top
    BY <2>1, NumIs
  <2>3. \A b \in AllKeys : CompareWith(a, b) <= 0 <=> Num(a) <= Num(b)
    BY <2>1, CompareIs
  <2>4. \A n : Fit(n) => Found(n.keys, Num(a), FindBiggerOrEqual(n, a))
    BY SearchMark DEF Fit
  <2> QED
    BY <1>0, <2>1, <2>2, <2>3, <2>4
<1> QED
  BY <1>1, <1>2

\* There are not as many nodes as there are in the file beside one of them.
LEMMA NodesCount ==
    ASSUME NoNulls, NEW t, NEW g, Whole(t, g)
    PROVE  /\ Len(t.nodes) \in Nat /\ \A S \in SUBSET g.used : Cardinality(S) \in Nat
           /\ \A S, x : x \in g.used /\ S \subseteq g.used /\ x \notin S => Cardinality(S) < Len(t.nodes)
           /\ \A S, T, x : /\ x \in T /\ S \subseteq T /\ x \notin S /\ T \subseteq g.used
                           => Cardinality(S) \in Nat /\ Cardinality(T) \in Nat
                              /\ Cardinality(T) >= Cardinality(S) + 1
<1>1. t \in Trees /\ \A x \in g.used : x \in DOMAIN t.nodes
  BY WholeIs DEF Whole
<1>2. Len(t.nodes) \in Nat /\ DOMAIN t.nodes = 1 .. Len(t.nodes)
  BY <1>1, TreeParts
<1>3. IsFiniteSet(1 .. Len(t.nodes)) /\ Cardinality(1 .. Len(t.nodes)) = Len(t.nodes)
  <2>1. 1 \in Int /\ Len(t.nodes) \in Int
    BY <1>2
  <2>2. /\ IsFiniteSet(1 .. Len(t.nodes))
        /\ Cardinality(1 .. Len(t.nodes)) = IF 1 > Len(t.nodes) THEN 0 ELSE Len(t.nodes) - 1 + 1
    BY <2>1, FS_Interval
  <2> QED
    BY <1>2, <2>2
<1>4. IsFiniteSet(g.used) /\ Cardinality(g.used) <= Len(t.nodes) /\ Cardinality(g.used) \in Nat
  <2>1. g.used \in SUBSET (1 .. Len(t.nodes))
    BY <1>1, <1>2
  <2>2. IsFiniteSet(g.used) /\ Cardinality(g.used) <= Cardinality(1 .. Len(t.nodes))
    BY <1>3, <2>1, FS_Subset
  <2> QED
    BY <1>3, <2>2, FS_CardinalityType
<1>5. ASSUME NEW S, NEW T, NEW x, x \in T, S \subseteq T, x \notin S, T \subseteq g.used
      PROVE  /\ Cardinality(S) \in Nat /\ Cardinality(T) \in Nat
             /\ Cardinality(T) >= Cardinality(S) + 1
  <2>1. IsFiniteSet(T) /\ IsFiniteSet(S)
    <3>1. IsFiniteSet(T)
      BY <1>4, <1>5, FS_Subset
    <3> QED
      BY <3>1, <1>5, FS_Subset
  <2>2. IsFiniteSet(S \cup {x}) /\ Cardinality(S \cup {x}) = Cardinality(S) + 1
    BY <2>1, <1>5, FS_AddElement
  <2>3. Cardinality(S \cup {x}) <= Cardinality(T)
    <3>1. S \cup {x} \in SUBSET T
      BY <1>5
    <3> QED
      BY <2>1, <3>1, FS_Subset
  <2>4. Cardinality(S) \in Nat /\ Cardinality(T) \in Nat
    BY <2>1, FS_CardinalityType
  <2> QED
    BY <2>2, <2>3, <2>4
<1>6. ASSUME NEW S, NEW x, x \in g.used, S \subseteq g.used, x \notin S
      PROVE  Cardinality(S) < Len(t.nodes)
  <2>1. Cardinality(S) \in Nat /\ Cardinality(g.used) >= Cardinality(S) + 1
    BY <1>5, <1>6
  <2> QED
    BY <2>1, <1>2, <1>4
<1>7. \A S \in SUBSET g.used : Cardinality(S) \in Nat
  BY <1>4, FS_Subset, FS_CardinalityType
<1> QED
  BY <1>2, <1>5, <1>6, <1>7

\* One turn of the walk of FindInTree.
Down(t, key, id) == IF t.nodes[id].leaf THEN id ELSE t.nodes[id].child[FindBiggerOrEqual(t.nodes[id], key)]

LEMMA DownSteps ==
    ASSUME NEW t, NEW key, Len(t.nodes) \in Nat
    PROVE  \E w : /\ w[0] = t.root
                  /\ \A d \in 1 .. Len(t.nodes) : w[d] = Down(t, key, w[d - 1])
                  /\ FindInTree(t, key) =
                        <<w[Len(t.nodes)], FindBiggerOrEqual(t.nodes[w[Len(t.nodes)]], key)>>
<1> DEFINE L == Len(t.nodes)
           Walk[depth \in 0 .. Len(t.nodes)] ==
               IF depth = 0 THEN t.root
               ELSE LET id == Walk[depth - 1]
                        n  == t.nodes[id]
                    IN  IF n.leaf THEN id ELSE n.child[FindBiggerOrEqual(n, key)]
           Step(g, d) == IF d = 0 THEN t.root
                         ELSE LET id == g[d - 1]
                                  n  == t.nodes[id]
                              IN  IF n.leaf THEN id ELSE n.child[FindBiggerOrEqual(n, key)]
           Def(g, m) == g = [d \in 0 .. m |-> Step(g, d)]
           S == {m \in Nat : \E g : Def(g, m)}
<1>1. FindInTree(t, key) = <<Walk[L], FindBiggerOrEqual(t.nodes[Walk[L]], key)>>
  BY DEF FindInTree
<1>2. 0 \in S
  <2> DEFINE g == [d \in 0 .. 0 |-> t.root]
  <2>1. Def(g, 0)
    OBVIOUS
  <2> QED
    BY <2>1
<1>3. ASSUME NEW m \in Nat, m \in S PROVE m + 1 \in S
  <2>1. PICK g : Def(g, m)
    BY <1>3
  <2> DEFINE h == [d \in 0 .. m + 1 |-> Step(g, d)]
  <2>2. \A d \in 0 .. m : h[d] = g[d]
    <3>1. ASSUME NEW d \in 0 .. m PROVE h[d] = g[d]
      <4> HIDE DEF Step
      <4>1. d \in 0 .. m + 1
        OBVIOUS
      <4>2. h[d] = Step(g, d)
        BY <4>1
      <4>3. g[d] = Step(g, d)
        BY <2>1
      <4> QED
        BY <4>2, <4>3
    <3> QED
      BY <3>1
  <2>3. ASSUME NEW d \in 0 .. m + 1
        PROVE  Step(g, d) = Step(h, d)
    <3>1. CASE d = 0
      BY <3>1
    <3>2. CASE d # 0
      <4>1. d - 1 \in 0 .. m
        BY <3>2
      <4>2. h[d - 1] = g[d - 1]
        BY <2>2, <4>1
      <4> HIDE DEF h
      <4> QED
        BY <3>2, <4>2
    <3> HIDE DEF Step, h
    <3> QED
      BY <3>1, <3>2
  <2>4. Def(h, m + 1)
    <3> HIDE DEF Step
    <3> QED
      BY <2>3
  <2>5. m + 1 \in Nat
    OBVIOUS
  <2> HIDE DEF h, Def
  <2> QED
    BY <2>4, <2>5
<1>4. L \in S
  <2> HIDE DEF S
  <2>1. \A m \in Nat : m \in S => m + 1 \in S
    BY <1>3
  <2>2. Nat \subseteq S
    BY <1>2, <2>1, ByInduction
  <2> QED
    BY <2>2
<1>5. \E g : Def(g, L)
  BY <1>4
<1>6. Def(Walk, L)
  <2>1. Walk = CHOOSE g : Def(g, L)
    BY DEF Walk
  <2> HIDE DEF Walk, Def
  <2> QED
    BY <1>5, <2>1
<1> HIDE DEF Walk
<1>7. Walk[0] = t.root
  BY <1>6
<1>8. ASSUME NEW d \in 1 .. L PROVE Walk[d] = Down(t, key, Walk[d - 1])
  <2>1. d \in 0 .. L /\ d # 0
    OBVIOUS
  <2>2. Walk[d] = Step(Walk, d)
    <3> HIDE DEF Step
    <3> QED
      BY <1>6, <2>1
  <2> QED
    BY <2>1, <2>2 DEF Down
<1> QED
  BY <1>1, <1>7, <1>8

\* A walk comes to the leaf of the smallest key that is not below the one wanted.
LEMMA LeafFound ==
    ASSUME NoNulls, NEW t, NEW g, Whole(t, g), Tight(t, g, {}), NEW a \in Marks
    PROVE  LET x == FindInTree(t, a)[1]
           IN  /\ x \in g.used /\ t.nodes[x].leaf /\ Covers(g, x, Reach(a))
               /\ FindInTree(t, a)[2] = FindBiggerOrEqual(t.nodes[x], a)
<1>1. Len(t.nodes) \in Nat
  BY NodesCount
<1>2. PICK w : /\ w[0] = t.root
               /\ \A d \in 1 .. Len(t.nodes) : w[d] = Down(t, a, w[d - 1])
               /\ FindInTree(t, a) = <<w[Len(t.nodes)], FindBiggerOrEqual(t.nodes[w[Len(t.nodes)]], a)>>
  BY <1>1, DownSteps
<1>3. Reach(a) \in Nat \ {0} /\ Reach(a) <= Top
  BY ReachIs
<1> DEFINE k == Reach(a)
           Above(x) == {y \in g.used : g.lev[y] > g.lev[x]}
           S == {d \in Nat : d <= Len(t.nodes) =>
                    /\ w[d] \in g.used /\ Covers(g, w[d], k)
                    /\ t.nodes[w[d]].leaf \/ Cardinality(Above(w[d])) >= d}
<1>4. 0 \in S
  <2>1. t.root \in g.used /\ g.lo[t.root] = 0 /\ g.hi[t.root] = Top
    BY DEF Whole, Rooted
  <2>2. Covers(g, t.root, k)
    BY <1>3, <2>1 DEF Covers
  <2>3. Cardinality(Above(t.root)) >= 0
    <3>1. Above(t.root) \in SUBSET g.used
      OBVIOUS
    <3> HIDE DEF Above
    <3>2. Cardinality(Above(t.root)) \in Nat
      BY <3>1, NodesCount
    <3> QED
      BY <3>2
  <2> HIDE DEF Above, k
  <2> QED
    BY <1>2, <2>1, <2>2, <2>3
<1>5. ASSUME NEW d \in Nat, d \in S PROVE d + 1 \in S
  <2> SUFFICES ASSUME d + 1 <= Len(t.nodes)
               PROVE  /\ w[d + 1] \in g.used /\ Covers(g, w[d + 1], k)
                      /\ t.nodes[w[d + 1]].leaf \/ Cardinality(Above(w[d + 1])) >= d + 1
    OBVIOUS
  <2>1. d + 1 \in 1 .. Len(t.nodes) /\ d <= Len(t.nodes) /\ (d + 1) - 1 = d
    BY <1>1
  <2> DEFINE x == w[d]
             y == w[d + 1]
  <2>2. y = Down(t, a, x)
    BY <1>2, <2>1
  <2>3. x \in g.used /\ Covers(g, x, k) /\ (t.nodes[x].leaf \/ Cardinality(Above(x)) >= d)
    BY <1>5, <2>1
  <2> HIDE DEF x, y, k
  <2>4. CASE t.nodes[x].leaf
    <3>1. y = x
      BY <2>2, <2>4 DEF Down
    <3> QED
      BY <2>3, <2>4, <3>1 DEF x, y
  <2>5. CASE ~t.nodes[x].leaf
    <3> DEFINE f == FindBiggerOrEqual(t.nodes[x], a)
    <3>1. y = t.nodes[x].child[f]
      BY <2>2, <2>5 DEF Down
    <3>2. /\ Fit(t.nodes[x]) /\ Len(t.nodes[x].keys) \in Nat \ {0} /\ g.hi[x] \in Nat /\ g.lev[x] \in Nat
      BY <2>3, WholeIs
    <3>3. Found(t.nodes[x].keys, k, f) /\ k \in Nat
      BY <3>2, <1>3, ReachIs DEF k
    <3> HIDE DEF f
    <3>4. f # 0
      <4>1. Num(t.nodes[x].keys[1]) = g.hi[x] /\ k <= g.hi[x]
        BY <2>3 DEF Tight, Covers
      <4>2. f = 0 => Num(t.nodes[x].keys[1]) < k
        <5>1. f = 0 => 1 \in f + 1 .. Len(t.nodes[x].keys)
          BY <3>2
        <5> QED
          BY <5>1, <3>3 DEF Found
      <4> QED
        BY <4>1, <4>2, <3>2, <3>3
    <3>5. IsChild(t, x, f, y) /\ Covers(g, y, k)
      BY <2>3, <2>5, <3>1, <3>3, <3>4, Descend
    <3>6. y \in g.used /\ g.lev[x] = g.lev[y] + 1
      BY <2>3, <3>5, ChildIs
    <3>7. g.lev[y] \in Nat
      BY <3>6, WholeIs
    <3>8. x \in Above(y) /\ x \notin Above(x) /\ Above(x) \subseteq Above(y) /\ Above(y) \subseteq g.used
      <4>1. ASSUME NEW z \in Above(x) PROVE z \in Above(y)
        <5>1. z \in g.used /\ g.lev[z] > g.lev[x]
          OBVIOUS
        <5>2. g.lev[z] \in Nat
          BY <5>1, WholeIs
        <5>3. g.lev[z] > g.lev[y]
          <6> DEFINE lz == g.lev[z]
                     lx == g.lev[x]
                     ly == g.lev[y]
          <6>1. lz \in Nat /\ lx \in Nat /\ ly \in Nat /\ lz > lx /\ lx = ly + 1
            BY <5>1, <5>2, <3>2, <3>6, <3>7
          <6> HIDE DEF lz, lx, ly
          <6>2. lz > ly
            BY <6>1
          <6> QED
            BY <6>2 DEF lz, ly
        <5> QED
          BY <5>1, <5>3
      <4>2. g.lev[x] > g.lev[y] /\ ~(g.lev[x] > g.lev[x])
        BY <3>2, <3>6, <3>7
      <4> QED
        BY <4>1, <4>2, <2>3
    <3> HIDE DEF Above
    <3>9. /\ Cardinality(Above(x)) \in Nat /\ Cardinality(Above(y)) \in Nat
          /\ Cardinality(Above(y)) >= Cardinality(Above(x)) + 1
      BY <3>8, NodesCount
    <3>10. Cardinality(Above(y)) >= d + 1
      BY <3>9, <2>3, <2>5
    <3> QED
      BY <3>5, <3>6, <3>10 DEF y
  <2> QED
    BY <2>4, <2>5
<1>6. Len(t.nodes) \in S
  <2>1. \A d \in Nat : d \in S => d + 1 \in S
    BY <1>5
  <2>2. Nat \subseteq S
    <3> HIDE DEF S
    <3> QED
      BY <1>4, <2>1, ByInduction
  <2> QED
    BY <2>2, <1>1
<1> DEFINE x == w[Len(t.nodes)]
<1>7. x \in g.used /\ Covers(g, x, k) /\ (t.nodes[x].leaf \/ Cardinality(Above(x)) >= Len(t.nodes))
  <2>1. Len(t.nodes) <= Len(t.nodes)
    BY <1>1
  <2> HIDE DEF Above, k
  <2> QED
    BY <1>6, <2>1
<1>8. t.nodes[x].leaf
  <2>1. Above(x) \subseteq g.used
    OBVIOUS
  <2>2. x \notin Above(x)
    <3>1. g.lev[x] \in Nat
      BY <1>7, WholeIs
    <3> QED
      BY <3>1
  <2> HIDE DEF Above, x
  <2>3. Cardinality(Above(x)) < Len(t.nodes)
    BY <1>7, <2>1, <2>2, NodesCount
  <2>4. Cardinality(Above(x)) \in Nat
    BY <2>1, NodesCount
  <2> QED
    BY <1>1, <1>7, <2>3, <2>4
<1>9. FindInTree(t, a)[1] = x /\ FindInTree(t, a)[2] = FindBiggerOrEqual(t.nodes[x], a)
  BY <1>2
<1> HIDE DEF x
<1> QED
  BY <1>7, <1>8, <1>9

-----------------------------------------------------------------------------
(* A scan: the turns. *)

Start(t, firstKey) ==
    [id |-> FindInTree(t, firstKey)[1], from |-> FindInTree(t, firstKey)[2], rows |-> <<>>, done |-> FALSE]

LEMMA ScanSteps ==
    ASSUME NEW t, NEW firstKey, NEW lastKey, Len(t.nodes) \in Nat
    PROVE  \E w : /\ w[0] = Start(t, firstKey)
                  /\ \A d \in 1 .. Len(t.nodes) : w[d] = ScanLeaf(t, lastKey, w[d - 1])
                  /\ MatchRows(t, firstKey, lastKey) =
                        IF GetKey(t.nodes[FindInTree(t, firstKey)[1]], FindInTree(t, firstKey)[2]) = SentinelKey
                        THEN <<>> ELSE w[Len(t.nodes)].rows
<1> DEFINE L == Len(t.nodes)
           Scan[turn \in 0 .. Len(t.nodes)] ==
               IF turn = 0
               THEN [id |-> FindInTree(t, firstKey)[1], from |-> FindInTree(t, firstKey)[2],
                     rows |-> <<>>, done |-> FALSE]
               ELSE ScanLeaf(t, lastKey, Scan[turn - 1])
           Step(g, d) == IF d = 0
                         THEN [id |-> FindInTree(t, firstKey)[1], from |-> FindInTree(t, firstKey)[2],
                               rows |-> <<>>, done |-> FALSE]
                         ELSE ScanLeaf(t, lastKey, g[d - 1])
           Def(g, m) == g = [d \in 0 .. m |-> Step(g, d)]
           S == {m \in Nat : \E g : Def(g, m)}
<1>1. MatchRows(t, firstKey, lastKey) =
        IF GetKey(t.nodes[FindInTree(t, firstKey)[1]], FindInTree(t, firstKey)[2]) = SentinelKey
        THEN <<>> ELSE Scan[L].rows
  BY DEF MatchRows
<1>2. 0 \in S
  <2> DEFINE g == [d \in 0 .. 0 |-> Start(t, firstKey)]
  <2>1. Def(g, 0)
    BY DEF Start
  <2> QED
    BY <2>1
<1>3. ASSUME NEW m \in Nat, m \in S PROVE m + 1 \in S
  <2>1. PICK g : Def(g, m)
    BY <1>3
  <2> DEFINE h == [d \in 0 .. m + 1 |-> Step(g, d)]
  <2>2. \A d \in 0 .. m : h[d] = g[d]
    <3>1. ASSUME NEW d \in 0 .. m PROVE h[d] = g[d]
      <4> HIDE DEF Step
      <4>1. d \in 0 .. m + 1
        OBVIOUS
      <4>2. h[d] = Step(g, d)
        BY <4>1
      <4>3. g[d] = Step(g, d)
        BY <2>1
      <4> QED
        BY <4>2, <4>3
    <3> QED
      BY <3>1
  <2>3. ASSUME NEW d \in 0 .. m + 1
        PROVE  Step(g, d) = Step(h, d)
    <3>1. CASE d = 0
      BY <3>1
    <3>2. CASE d # 0
      <4>1. d - 1 \in 0 .. m
        BY <3>2
      <4>2. h[d - 1] = g[d - 1]
        BY <2>2, <4>1
      <4> HIDE DEF h
      <4> QED
        BY <3>2, <4>2
    <3> HIDE DEF Step, h
    <3> QED
      BY <3>1, <3>2
  <2>4. Def(h, m + 1)
    <3> HIDE DEF Step
    <3> QED
      BY <2>3
  <2>5. m + 1 \in Nat
    OBVIOUS
  <2> HIDE DEF h, Def
  <2> QED
    BY <2>4, <2>5
<1>4. L \in S
  <2> HIDE DEF S
  <2>1. \A m \in Nat : m \in S => m + 1 \in S
    BY <1>3
  <2>2. Nat \subseteq S
    BY <1>2, <2>1, ByInduction
  <2> QED
    BY <2>2
<1>5. \E g : Def(g, L)
  BY <1>4
<1>6. Def(Scan, L)
  <2>1. Scan = CHOOSE g : Def(g, L)
    BY DEF Scan
  <2> HIDE DEF Scan, Def
  <2> QED
    BY <1>5, <2>1
<1> HIDE DEF Scan
<1>7. Scan[0] = Start(t, firstKey)
  BY <1>6 DEF Start
<1>8. ASSUME NEW d \in 1 .. L PROVE Scan[d] = ScanLeaf(t, lastKey, Scan[d - 1])
  <2>1. d \in 0 .. L /\ d # 0
    OBVIOUS
  <2>2. Scan[d] = Step(Scan, d)
    <3> HIDE DEF Step
    <3> QED
      BY <1>6, <2>1
  <2> QED
    BY <2>1, <2>2
<1> QED
  BY <1>1, <1>7, <1>8

-----------------------------------------------------------------------------
(* Sets of keys in order. *)

Ordered(s, S) ==
    /\ s \in Seq(S)
    /\ \A i, j \in 1 .. Len(s) : i < j => Num(s[i]) < Num(s[j])
    /\ \A k \in S : \E i \in 1 .. Len(s) : s[i] = k

LEMMA OrderedIs ==
    ASSUME NoNulls, NEW S, S \subseteq Keys, NEW s, Ordered(s, S)
    PROVE  /\ Len(s) \in Nat /\ s = [i \in 1 .. Len(s) |-> s[i]]
           /\ \A i \in 1 .. Len(s) : s[i] \in S /\ s[i] \in AllKeys /\ Num(s[i]) \in Nat
           /\ \A i, j \in 1 .. Len(s) : /\ i < j <=> Num(s[i]) < Num(s[j])
                                        /\ s[i] = s[j] => i = j
<1>1. s \in Seq(S) /\ Len(s) \in Nat /\ s = [i \in 1 .. Len(s) |-> s[i]]
  BY LenProperties DEF Ordered
<1>2. ASSUME NEW i \in 1 .. Len(s) PROVE s[i] \in S /\ s[i] \in AllKeys /\ Num(s[i]) \in Nat
  <2>1. s[i] \in S /\ s[i] \in Keys
    BY <1>1
  <2> QED
    BY <2>1, KeyIsNoSentinel
<1>3. ASSUME NEW i \in 1 .. Len(s), NEW j \in 1 .. Len(s)
      PROVE  (i < j <=> Num(s[i]) < Num(s[j])) /\ (s[i] = s[j] => i = j)
  <2>1. /\ i < j => Num(s[i]) < Num(s[j])
        /\ j < i => Num(s[j]) < Num(s[i])
    BY DEF Ordered
  <2>2. Num(s[i]) \in Nat /\ Num(s[j]) \in Nat
    BY <1>2
  <2>3. CASE i < j
    BY <2>1, <2>2, <2>3
  <2>4. CASE j < i
    BY <2>1, <2>2, <2>4
  <2>5. CASE i = j
    BY <2>2, <2>5
  <2> QED
    BY <2>3, <2>4, <2>5
<1> QED
  BY <1>1, <1>2, <1>3

\* InOrder lists a set in the order of its keys.
LEMMA InOrderIs ==
    ASSUME NoNulls, NEW S, S \subseteq Keys, NEW s, Ordered(s, S)
    PROVE  InOrder(S) = s
<1> DEFINE n == Len(s)
           Less(k) == {j \in S : CompareWith(j, k) < 0}
<1>1. /\ n \in Nat /\ s = [i \in 1 .. n |-> s[i]]
      /\ \A i \in 1 .. n : s[i] \in S /\ s[i] \in AllKeys /\ Num(s[i]) \in Nat
      /\ \A i, j \in 1 .. n : (i < j <=> Num(s[i]) < Num(s[j])) /\ (s[i] = s[j] => i = j)
  BY OrderedIs
<1>2. \A k \in S : \E i \in 1 .. n : s[i] = k
  BY DEF Ordered
<1>3. ASSUME NEW m \in 0 .. n
      PROVE  Cardinality({s[i] : i \in 1 .. m}) = m
  <2> DEFINE T == {s[i] : i \in 1 .. m}
             F == [i \in 1 .. m |-> s[i]]
  <2>1. m \in Nat /\ \A i \in 1 .. m : i \in 1 .. n
    BY <1>1
  <2>2. F \in [1 .. m -> T] /\ (\A i, j \in 1 .. m : F[i] = F[j] => i = j) /\ \A x \in T : \E i \in 1 .. m : F[i] = x
    BY <1>1, <2>1
  <2> HIDE DEF T, F
  <2>3. F \in Injection(1 .. m, T) /\ F \in Surjection(1 .. m, T)
    BY <2>2 DEF Injection, IsInjective, Surjection
  <2>4. ExistsBijection(1 .. m, T)
    BY <2>3 DEF Bijection, ExistsBijection
  <2>5. Cardinality(T) = m
    BY <2>1, <2>4, FS_CountingElements
  <2> QED
    BY <2>5 DEF T
<1> HIDE DEF n
<1>4. Cardinality(S) = n
  <2>1. S = {s[i] : i \in 1 .. n}
    BY <1>1, <1>2
  <2>2. n \in 0 .. n
    BY <1>1
  <2>3. Cardinality({s[i] : i \in 1 .. n}) = n
    BY <1>3, <2>2
  <2> QED
    BY <2>1, <2>3
<1>5. ASSUME NEW i \in 1 .. n PROVE Cardinality(Less(s[i])) = i - 1
  <2> DEFINE m == i - 1
  <2>1. m \in 0 .. n /\ \A j \in 1 .. n : j \in 1 .. m <=> j < i
    BY <1>1
  <2> HIDE DEF m
  <2>2. ASSUME NEW k \in Less(s[i]) PROVE \E j \in 1 .. m : k = s[j]
    <3>1. k \in S /\ CompareWith(k, s[i]) < 0
      OBVIOUS
    <3>2. PICK j \in 1 .. n : s[j] = k
      BY <1>2, <3>1
    <3>3. Num(s[j]) < Num(s[i])
      BY <1>1, <3>1, <3>2, CompareIs
    <3>4. j < i
      BY <1>1, <3>3
    <3> QED
      BY <2>1, <3>2, <3>4
  <2>3. ASSUME NEW j \in 1 .. m PROVE s[j] \in Less(s[i])
    <3>1. j \in 1 .. n /\ j < i
      BY <1>1, <2>1
    <3>2. Num(s[j]) < Num(s[i])
      BY <1>1, <3>1
    <3>3. CompareWith(s[j], s[i]) < 0
      BY <1>1, <3>1, <3>2, CompareIs
    <3> QED
      BY <1>1, <3>1, <3>3
  <2> HIDE DEF Less
  <2>4. Less(s[i]) = {s[j] : j \in 1 .. m}
    <3>1. Less(s[i]) \subseteq {s[j] : j \in 1 .. m}
      BY <2>2
    <3>2. {s[j] : j \in 1 .. m} \subseteq Less(s[i])
      BY <2>3
    <3> QED
      BY <3>1, <3>2
  <2>5. Cardinality({s[j] : j \in 1 .. m}) = m
    BY <1>3, <2>1
  <2> QED
    BY <2>4, <2>5 DEF m
<1>6. ASSUME NEW i \in 1 .. n
      PROVE  (CHOOSE k \in S : Cardinality(Less(k)) = i - 1) = s[i]
  <2> HIDE DEF Less
  <2>1. s[i] \in S /\ Cardinality(Less(s[i])) = i - 1
    BY <1>1, <1>5
  <2>2. ASSUME NEW k \in S, Cardinality(Less(k)) = i - 1 PROVE k = s[i]
    <3>1. PICK j \in 1 .. n : s[j] = k
      BY <1>2
    <3>2. Cardinality(Less(k)) = j - 1
      BY <1>5, <3>1
    <3>3. j - 1 = i - 1
      BY <2>2, <3>2
    <3>4. j = i
      BY <3>3
    <3> QED
      BY <3>1, <3>4
  <2> QED
    BY <2>1, <2>2
<1>7. InOrder(S) = [i \in 1 .. n |-> CHOOSE k \in S : Cardinality(Less(k)) = i - 1]
  BY <1>4 DEF InOrder
<1> HIDE DEF Less
<1>8. InOrder(S) = [i \in 1 .. n |-> s[i]]
  BY <1>6, <1>7
<1> QED
  BY <1>1, <1>8

LEMMA OrderedJoin ==
    ASSUME NoNulls, NEW S, S \subseteq Keys, NEW s, Ordered(s, S), NEW R, R \subseteq Keys, NEW r, Ordered(r, R),
           \A a \in S, b \in R : Num(a) < Num(b)
    PROVE  /\ Ordered(s \o r, S \cup R) /\ Len(s \o r) = Len(s) + Len(r)
           /\ \A i \in 1 .. Len(s) : (s \o r)[i] = s[i]
           /\ \A i \in 1 .. Len(r) : (s \o r)[Len(s) + i] = r[i]
<1>1. s \in Seq(S) /\ r \in Seq(R) /\ s \in Seq(S \cup R) /\ r \in Seq(S \cup R)
  <2>1. s \in Seq(S) /\ r \in Seq(R)
    BY DEF Ordered
  <2>2. /\ \A i \in 1 .. Len(s) : s[i] \in S \cup R
        /\ \A i \in 1 .. Len(r) : r[i] \in S \cup R
    BY OrderedIs
  <2> QED
    BY <2>1, <2>2, Retyped
<1>2. PICK q : q = s \o r
  OBVIOUS
<1>3. /\ Len(s) \in Nat /\ Len(r) \in Nat
      /\ \A i \in 1 .. Len(s) : s[i] \in S
      /\ \A i \in 1 .. Len(r) : r[i] \in R
  BY OrderedIs
<1>4. /\ q \in Seq(S \cup R) /\ Len(q) = Len(s) + Len(r)
      /\ \A i \in 1 .. Len(s) : q[i] = s[i]
      /\ \A i \in 1 .. Len(r) : q[Len(s) + i] = r[i]
  BY <1>1, <1>2, <1>3
<1>5. ASSUME NEW i \in 1 .. Len(q)
      PROVE  i \in 1 .. Len(s) \/ (i - Len(s) \in 1 .. Len(r) /\ q[i] = r[i - Len(s)])
  <2>1. CASE i <= Len(s)
    BY <2>1, <1>3
  <2>2. CASE ~(i <= Len(s))
    <3> DEFINE j == i - Len(s)
    <3>1. j \in 1 .. Len(r) /\ Len(s) + j = i
      BY <2>2, <1>3, <1>4
    <3> HIDE DEF j
    <3>2. q[i] = r[j]
      BY <3>1, <1>4
    <3> QED
      BY <3>1, <3>2 DEF j
  <2> QED
    BY <2>1, <2>2
<1>6. ASSUME NEW i \in 1 .. Len(q), NEW j \in 1 .. Len(q), i < j PROVE Num(q[i]) < Num(q[j])
  <2>1. CASE i \in 1 .. Len(s) /\ j \in 1 .. Len(s)
    <3>1. Num(s[i]) < Num(s[j])
      BY <2>1, <1>6, OrderedIs
    <3> QED
      BY <3>1, <2>1, <1>4
  <2>2. CASE i \in 1 .. Len(s) /\ j \notin 1 .. Len(s)
    <3>1. q[i] \in S /\ q[j] \in R
      BY <2>2, <1>3, <1>4, <1>5
    <3> QED
      BY <3>1
  <2>3. CASE i \notin 1 .. Len(s)
    <3>1. j \notin 1 .. Len(s)
      BY <2>3, <1>6, <1>3
    <3> DEFINE a == i - Len(s)
               b == j - Len(s)
    <3>2. a \in 1 .. Len(r) /\ b \in 1 .. Len(r) /\ q[i] = r[a] /\ q[j] = r[b]
      BY <2>3, <3>1, <1>5
    <3>3. a < b
      BY <1>3, <1>6
    <3> HIDE DEF a, b
    <3>4. Num(r[a]) < Num(r[b])
      BY <3>2, <3>3, OrderedIs
    <3> QED
      BY <3>2, <3>4
  <2> QED
    BY <2>1, <2>2, <2>3
<1>7. ASSUME NEW k \in S \cup R PROVE \E i \in 1 .. Len(q) : q[i] = k
  <2>1. CASE k \in S
    <3>1. PICK i \in 1 .. Len(s) : s[i] = k
      BY <2>1 DEF Ordered
    <3>2. i \in 1 .. Len(q)
      BY <1>3, <1>4
    <3> QED
      BY <3>1, <3>2, <1>4
  <2>2. CASE k \in R
    <3>1. PICK i \in 1 .. Len(r) : r[i] = k
      BY <2>2 DEF Ordered
    <3> DEFINE j == Len(s) + i
    <3>2. j \in 1 .. Len(q) /\ q[j] = r[i]
      BY <1>3, <1>4
    <3> HIDE DEF j
    <3> QED
      BY <3>1, <3>2
  <2> QED
    BY <2>1, <2>2
<1>8. Ordered(q, S \cup R)
  BY <1>4, <1>6, <1>7 DEF Ordered
<1> QED
  BY <1>2, <1>4, <1>8

\* The keys of a node from one up to another, backwards.
Backwards(n, from, to) == [i \in 1 .. (from - to + 1) |-> n.keys[from + 1 - i]]

LEMMA PartOrdered ==
    ASSUME NoNulls, NEW n, Fit(n), NEW from \in 0 .. Len(n.keys), NEW to \in 1 .. Len(n.keys) + 1,
           NEW R, R = {n.keys[i] : i \in to .. from}
    PROVE  Ordered(Backwards(n, from, to), R) /\ Len(Backwards(n, from, to)) = (IF from >= to THEN from - to + 1 ELSE 0)
<1>1. Len(n.keys) \in Nat /\ Descending(n.keys)
  BY FitIs
<1> DEFINE m == IF from >= to THEN from - to + 1 ELSE 0
           r == Backwards(n, from, to)
<1>2. m \in Nat /\ 1 .. (from - to + 1) = 1 .. m
  <2>1. CASE from >= to
    BY <2>1, <1>1
  <2>2. CASE ~(from >= to)
    <3>1. 1 .. (from - to + 1) = {} /\ 1 .. m = {} /\ m = 0
      BY <2>2, <1>1
    <3> QED
      BY <3>1
  <2> QED
    BY <2>1, <2>2
<1>3. \A i \in 1 .. m : from + 1 - i \in to .. from
  BY <1>1
<1> HIDE DEF m
<1>4. r = [i \in 1 .. m |-> n.keys[from + 1 - i]]
  BY <1>2 DEF Backwards
<1> HIDE DEF r
<1>5. \A i \in 1 .. m : n.keys[from + 1 - i] \in R
  BY <1>3
<1>6. r \in Seq(R) /\ Len(r) = m /\ \A i \in 1 .. m : r[i] = n.keys[from + 1 - i]
  BY <1>2, <1>4, <1>5
<1>7. ASSUME NEW i \in 1 .. m, NEW j \in 1 .. m, i < j PROVE Num(r[i]) < Num(r[j])
  <2> DEFINE a == from + 1 - i
             b == from + 1 - j
  <2>1. a \in to .. from /\ b \in to .. from /\ b < a
    BY <1>2, <1>3, <1>7
  <2>2. a \in 1 .. Len(n.keys) /\ b \in 1 .. Len(n.keys)
    BY <1>1, <2>1
  <2>3. r[i] = n.keys[a] /\ r[j] = n.keys[b]
    BY <1>6
  <2> HIDE DEF a, b
  <2>4. Num(n.keys[b]) > Num(n.keys[a])
    BY <1>1, <2>1, <2>2 DEF Descending
  <2>5. Num(n.keys[b]) \in Nat /\ Num(n.keys[a]) \in Nat
    BY <2>2, FitIs
  <2> QED
    BY <2>3, <2>4, <2>5
<1>8. ASSUME NEW k \in R PROVE \E i \in 1 .. m : r[i] = k
  <2>1. PICK j \in to .. from : k = n.keys[j]
    OBVIOUS
  <2> DEFINE i == from + 1 - j
  <2>2. i \in 1 .. m /\ from + 1 - i = j
    BY <1>1 DEF m
  <2> HIDE DEF i
  <2>3. r[i] = n.keys[j]
    BY <1>6, <2>2
  <2> QED
    BY <2>1, <2>2, <2>3
<1>9. Ordered(r, R)
  BY <1>6, <1>7, <1>8 DEF Ordered
<1> QED
  BY <1>6, <1>9 DEF r, m

-----------------------------------------------------------------------------
(* A scan: the rows of one leaf. *)

\* The rows are those of the keys of a set, in their order.
Listed(rows, S) == \E s : Ordered(s, S) /\ rows = [i \in 1 .. Len(s) |-> s[i][2]]

\* The first key of n that is not above b, or the place after the last.
ToKey(n, b) ==
    LET to == FindBiggerOrEqual(n, b)
    IN  IF to = 0 THEN 1 ELSE IF CompareWith(b, GetKey(n, to)) < 0 THEN to + 1 ELSE to

LEMMA ToKeyIs ==
    ASSUME NoNulls, NEW n, Fit(n), NEW b \in Keys
    PROVE  /\ ToKey(n, b) \in 1 .. Len(n.keys) + 1
           /\ \A i \in 1 .. Len(n.keys) : i >= ToKey(n, b) <=> Num(n.keys[i]) <= Num(b)
           /\ FindBiggerOrEqual(n, b) \in 0 .. Len(n.keys)
           /\ \A i \in 1 .. FindBiggerOrEqual(n, b) : Num(n.keys[i]) >= Num(b)
           /\ \A i \in FindBiggerOrEqual(n, b) + 1 .. Len(n.keys) : Num(n.keys[i]) < Num(b)
<1>1. b \in AllKeys /\ Num(b) \in Nat
  BY KeyIsNoSentinel
<1>2. PICK to : to = FindBiggerOrEqual(n, b)
  OBVIOUS
<1>3. n \in Node /\ Descending(n.keys) /\ Len(n.keys) \in Nat
  BY FitIs
<1>4. Found(n.keys, Num(b), to)
  BY <1>1, <1>2, <1>3, SearchIs
<1>5. /\ to \in 0 .. Len(n.keys)
      /\ \A i \in 1 .. to : Num(n.keys[i]) >= Num(b)
      /\ \A i \in to + 1 .. Len(n.keys) : Num(n.keys[i]) < Num(b)
  BY <1>4 DEF Found
<1>6. \A i \in 1 .. Len(n.keys) : n.keys[i] \in AllKeys /\ Num(n.keys[i]) \in Nat /\ GetKey(n, i) = n.keys[i]
  BY FitIs
<1>7. /\ to = 0 => ToKey(n, b) = 1
      /\ to # 0 /\ CompareWith(b, GetKey(n, to)) < 0 => ToKey(n, b) = to + 1
      /\ to # 0 /\ ~(CompareWith(b, GetKey(n, to)) < 0) => ToKey(n, b) = to
  BY <1>2 DEF ToKey
<1>8. PICK k : k = ToKey(n, b)
  OBVIOUS
<1>9. k \in 1 .. Len(n.keys) + 1 /\ \A i \in 1 .. Len(n.keys) : i >= k <=> Num(n.keys[i]) <= Num(b)
  <2>1. CASE to = 0
    <3>1. k = 1
      BY <2>1, <1>7, <1>8
    <3>2. ASSUME NEW i \in 1 .. Len(n.keys) PROVE i >= k <=> Num(n.keys[i]) <= Num(b)
      <4>1. Num(n.keys[i]) < Num(b) /\ Num(n.keys[i]) \in Nat
        BY <2>1, <1>5, <1>6
      <4> QED
        BY <3>1, <4>1, <1>1
    <3> QED
      BY <3>1, <3>2, <1>3
  <2>2. CASE to # 0
    <3>1. to \in 1 .. Len(n.keys)
      BY <2>2, <1>5
    <3>2. n.keys[to] \in AllKeys /\ Num(n.keys[to]) \in Nat /\ GetKey(n, to) = n.keys[to] /\ Num(n.keys[to]) >= Num(b)
      BY <3>1, <1>5, <1>6
    <3>3. \A i \in 1 .. Len(n.keys) : /\ i < to => Num(n.keys[i]) > Num(b)
                                      /\ i > to => Num(n.keys[i]) < Num(b)
      <4>1. ASSUME NEW i \in 1 .. Len(n.keys), i < to PROVE Num(n.keys[i]) > Num(b)
        <5>1. Num(n.keys[i]) > Num(n.keys[to]) /\ Num(n.keys[i]) \in Nat
          BY <4>1, <3>1, <1>3, <1>6 DEF Descending
        <5> QED
          BY <5>1, <3>2, <1>1
      <4>2. ASSUME NEW i \in 1 .. Len(n.keys), i > to PROVE Num(n.keys[i]) < Num(b)
        BY <4>2, <1>5
      <4> QED
        BY <4>1, <4>2
    <3>4. (k = to + 1 /\ Num(b) < Num(n.keys[to])) \/ (k = to /\ ~(Num(b) < Num(n.keys[to])))
      BY <2>2, <3>2, <1>1, <1>7, <1>8, CompareIs
    <3>5. ASSUME NEW i \in 1 .. Len(n.keys) PROVE i >= k <=> Num(n.keys[i]) <= Num(b)
      <4>1. Num(n.keys[i]) \in Nat
        BY <1>6
      <4>2. CASE i < to
        BY <4>1, <4>2, <3>1, <3>3, <3>4, <1>1
      <4>3. CASE i = to
        BY <4>1, <4>3, <3>1, <3>4, <1>1
      <4>4. CASE i > to
        BY <4>1, <4>4, <3>1, <3>3, <3>4, <1>1
      <4> QED
        BY <4>2, <4>3, <4>4, <3>1
    <3> QED
      BY <3>1, <3>4, <3>5, <1>3
  <2> QED
    BY <2>1, <2>2
<1> QED
  BY <1>2, <1>5, <1>8, <1>9

\* The keys of a leaf up to b, from its key number from on, and their rows.
LeafPart(n, from, b) == {k \in Keys : \E i \in 1 .. from : n.keys[i] = k /\ Num(k) <= Num(b)}

PartRows(n, from, b) == IF from >= ToKey(n, b) THEN GetRows(n, from, ToKey(n, b)) ELSE <<>>

LEMMA LeafRows ==
    ASSUME NoNulls, NEW n, Fit(n), NEW b \in Keys, NEW from \in 0 .. Len(n.keys)
    PROVE  Listed(PartRows(n, from, b), LeafPart(n, from, b))
<1>1. /\ Len(n.keys) \in Nat
      /\ \A i \in 1 .. Len(n.keys) : n.keys[i] \in AllKeys /\ Num(n.keys[i]) \in Nat /\ GetKey(n, i) = n.keys[i]
  BY FitIs
<1>2. PICK to : to = ToKey(n, b)
  OBVIOUS
<1>3. to \in 1 .. Len(n.keys) + 1 /\ \A i \in 1 .. Len(n.keys) : i >= to <=> Num(n.keys[i]) <= Num(b)
  BY <1>2, ToKeyIs
<1>4. \A i \in 1 .. Len(n.keys) : Num(n.keys[i]) <= Num(b) => n.keys[i] \in Keys
  <2>1. ASSUME NEW i \in 1 .. Len(n.keys), Num(n.keys[i]) <= Num(b) PROVE n.keys[i] \in Keys
    <3>1. Num(b) \in Nat /\ Num(b) <= Top /\ Num(b) # Top /\ Top \in Nat
      <4>1. SentinelKey \in AllKeys
        BY DEF AllKeys
      <4>2. Top \in Nat
        BY <4>1, NumIs DEF Top
      <4> QED
        BY <4>2, KeyIsNoSentinel
    <3>2. Num(n.keys[i]) # Top
      BY <2>1, <3>1, <1>1
    <3>3. n.keys[i] # SentinelKey
      BY <3>2 DEF Top
    <3> QED
      BY <3>3, <1>1 DEF AllKeys
  <2> QED
    BY <2>1
<1> DEFINE R == {k \in Keys : \E i \in 1 .. from : n.keys[i] = k /\ Num(k) <= Num(b)}
           Q == {n.keys[i] : i \in to .. from}
           s == Backwards(n, from, to)
<1>5. Q = R
  <2>1. ASSUME NEW k \in Q PROVE k \in R
    <3>1. PICK i \in to .. from : k = n.keys[i]
      OBVIOUS
    <3>2. i \in 1 .. from /\ i \in 1 .. Len(n.keys) /\ i >= to
      BY <1>1, <1>3
    <3>3. Num(k) <= Num(b) /\ k \in Keys
      BY <3>1, <3>2, <1>3, <1>4
    <3> QED
      BY <3>1, <3>2, <3>3
  <2>2. ASSUME NEW k \in R PROVE k \in Q
    <3>1. PICK i \in 1 .. from : n.keys[i] = k /\ Num(k) <= Num(b)
      OBVIOUS
    <3>2. i \in 1 .. Len(n.keys)
      BY <1>1
    <3>3. i >= to
      BY <3>1, <3>2, <1>3
    <3>4. i \in to .. from
      BY <3>3, <1>3
    <3> QED
      BY <3>1, <3>4
  <2> QED
    BY <2>1, <2>2
<1>6. Ordered(s, Q) /\ Len(s) = (IF from >= to THEN from - to + 1 ELSE 0)
  BY <1>3, PartOrdered
<1>7. (IF from >= to THEN GetRows(n, from, to) ELSE <<>>) = [i \in 1 .. Len(s) |-> s[i][2]]
  <2>1. CASE from >= to
    <3>1. Len(s) = from - to + 1 /\ to \in 1 .. Len(n.keys) /\ to >= to
      BY <2>1, <1>1, <1>3, <1>6
    <3>2. GetKey(n, to) = n.keys[to] /\ n.keys[to] \in Keys
      BY <3>1, <1>1, <1>3, <1>4
    <3>3. GetKey(n, to) # SentinelKey
      BY <3>2, KeyIsNoSentinel
    <3>4. GetRows(n, from, to) = [i \in 1 .. (from - to + 1) |-> GetKey(n, from + 1 - i)[2]]
      BY <3>3 DEF GetRows
    <3>5. ASSUME NEW i \in 1 .. (from - to + 1) PROVE GetKey(n, from + 1 - i)[2] = s[i][2]
      <4> DEFINE j == from + 1 - i
      <4>1. j \in 1 .. Len(n.keys)
        BY <2>1, <1>1, <1>3
      <4> HIDE DEF j
      <4>2. GetKey(n, j) = n.keys[j]
        BY <4>1, <1>1
      <4>3. s[i] = n.keys[j]
        BY DEF Backwards, j
      <4> QED
        BY <4>2, <4>3 DEF j
    <3> HIDE DEF s
    <3> QED
      BY <2>1, <3>1, <3>4, <3>5
  <2>2. CASE ~(from >= to)
    <3> HIDE DEF s
    <3>1. Len(s) = 0 /\ 1 .. Len(s) = {}
      BY <2>2, <1>6
    <3> QED
      BY <2>2, <3>1
  <2> QED
    BY <2>1, <2>2
<1> HIDE DEF R, Q, s
<1>8. Listed(IF from >= to THEN GetRows(n, from, to) ELSE <<>>, R)
  BY <1>5, <1>6, <1>7 DEF Listed
<1> QED
  BY <1>2, <1>8 DEF R, LeafPart, PartRows

\* Rows of keys and then those of keys above them.
LEMMA ListedJoin ==
    ASSUME NoNulls, NEW S, S \subseteq Keys, NEW R, R \subseteq Keys, NEW p, Listed(p, S), NEW q, Listed(q, R),
           \A a \in S, b \in R : Num(a) < Num(b)
    PROVE  Listed(p \o q, S \cup R)
<1>1. PICK s : Ordered(s, S) /\ p = [i \in 1 .. Len(s) |-> s[i][2]]
  BY DEF Listed
<1>2. PICK r : Ordered(r, R) /\ q = [i \in 1 .. Len(r) |-> r[i][2]]
  BY DEF Listed
<1>3. PICK z : z = s \o r
  OBVIOUS
<1>4. /\ Ordered(z, S \cup R) /\ Len(z) = Len(s) + Len(r)
      /\ \A i \in 1 .. Len(s) : z[i] = s[i]
      /\ \A i \in 1 .. Len(r) : z[Len(s) + i] = r[i]
  <2>1. Ordered(s, S) /\ Ordered(r, R)
    BY <1>1, <1>2
  <2>2. /\ Ordered(s \o r, S \cup R) /\ Len(s \o r) = Len(s) + Len(r)
        /\ \A i \in 1 .. Len(s) : (s \o r)[i] = s[i]
        /\ \A i \in 1 .. Len(r) : (s \o r)[Len(s) + i] = r[i]
    BY <2>1, OrderedJoin
  <2> QED
    BY <2>2, <1>3
<1>5. Len(s) \in Nat /\ Len(r) \in Nat
  BY <1>1, <1>2, OrderedIs
<1>6. Len(p) = Len(s) /\ Len(q) = Len(r)
  BY <1>1, <1>2, <1>5
<1>7. p \o q = [i \in 1 .. Len(s) + Len(r) |-> IF i <= Len(s) THEN p[i] ELSE q[i - Len(s)]]
  <2> DEFINE U == {p[i] : i \in 1 .. Len(s)} \cup {q[i] : i \in 1 .. Len(r)}
             h == p \o q
  <2>1. p \in [1 .. Len(s) -> U] /\ q \in [1 .. Len(r) -> U]
    BY <1>1, <1>2
  <2> HIDE DEF U
  <2>2. p \in Seq(U) /\ q \in Seq(U)
    BY <2>1, <1>5
  <2>3. /\ h \in Seq(U) /\ Len(h) = Len(s) + Len(r)
        /\ \A i \in 1 .. Len(p) + Len(q) : h[i] = IF i <= Len(p) THEN p[i] ELSE q[i - Len(p)]
    <3>1. /\ h \in Seq(U) /\ Len(h) = Len(p) + Len(q)
          /\ \A i \in 1 .. Len(p) + Len(q) : h[i] = IF i <= Len(p) THEN p[i] ELSE q[i - Len(p)]
      BY <2>2, ConcatProperties
    <3> HIDE DEF h
    <3> QED
      BY <3>1, <1>6
  <2>4. h = [i \in 1 .. Len(h) |-> h[i]]
    BY <2>3, LenProperties
  <2> HIDE DEF h
  <2>5. \A i \in 1 .. Len(s) + Len(r) : h[i] = IF i <= Len(s) THEN p[i] ELSE q[i - Len(s)]
    BY <2>3, <1>6
  <2>6. h = [i \in 1 .. Len(s) + Len(r) |-> h[i]]
    BY <2>3, <2>4
  <2>7. h = [i \in 1 .. Len(s) + Len(r) |-> IF i <= Len(s) THEN p[i] ELSE q[i - Len(s)]]
    BY <2>5, <2>6
  <2> QED
    BY <2>7 DEF h
<1>8. ASSUME NEW i \in 1 .. Len(s) + Len(r)
      PROVE  (IF i <= Len(s) THEN p[i] ELSE q[i - Len(s)]) = z[i][2]
  <2>1. CASE i <= Len(s)
    <3>1. i \in 1 .. Len(s)
      BY <2>1, <1>5
    <3> QED
      BY <2>1, <3>1, <1>1, <1>4
  <2>2. CASE ~(i <= Len(s))
    <3> DEFINE j == i - Len(s)
    <3>1. j \in 1 .. Len(r) /\ Len(s) + j = i
      BY <2>2, <1>5
    <3> HIDE DEF j
    <3>2. z[i] = r[j] /\ q[j] = r[j][2]
      BY <3>1, <1>2, <1>4
    <3> QED
      BY <2>2, <3>2 DEF j
  <2> QED
    BY <2>1, <2>2
<1>9. p \o q = [i \in 1 .. Len(z) |-> z[i][2]]
  BY <1>4, <1>7, <1>8
<1> QED
  BY <1>4, <1>9 DEF Listed

-----------------------------------------------------------------------------
(* A scan: its turns, from the smallest keys to the biggest. *)

\* The keys from one number to another that are at most top.
Wanted(t, k0, k1, top) == {k \in LeafContents(t) : k0 <= Num(k) /\ Num(k) <= k1 /\ Num(k) <= top}

\* The leaves before x.
Before(g, x) == {y \in g.used : g.lo[y] < g.lo[x]}

\* What there is after m turns.
Scanned(t, g, k0, k1, at, m) ==
    /\ at = [id |-> at.id, from |-> at.from, rows |-> at.rows, done |-> at.done] /\ at.done \in BOOLEAN
    /\ at.done => Listed(at.rows, Wanted(t, k0, k1, k1))
    /\ ~at.done =>
         /\ at.id \in g.used /\ t.nodes[at.id].leaf /\ k0 <= g.hi[at.id]
         /\ Found(t.nodes[at.id].keys, k0, at.from)
         /\ Listed(at.rows, Wanted(t, k0, k1, g.lo[at.id]))
         /\ Cardinality(Before(g, at.id)) >= m

\* The keys of the contents in the interval of a leaf are those of the leaf.
LEMMA LeafHas ==
    ASSUME NoNulls, NEW t, NEW g, Whole(t, g), NEW x \in g.used, t.nodes[x].leaf, NEW k
    PROVE  k \in LeafContents(t) /\ Covers(g, x, Num(k))
              <=> k \in Keys /\ \E i \in 1 .. Len(t.nodes[x].keys) : t.nodes[x].keys[i] = k
<1>1. /\ g.lev[x] = 0
      /\ \A i \in 1 .. Len(t.nodes[x].keys) : Covers(g, x, Num(t.nodes[x].keys[i]))
  BY WholeIs
<1>2. ASSUME k \in LeafContents(t), Covers(g, x, Num(k))
      PROVE  k \in Keys /\ \E i \in 1 .. Len(t.nodes[x].keys) : t.nodes[x].keys[i] = k
  <2>1. k \in Keys /\ Holds(t, g, k)
    BY <1>2, ContentsIs
  <2>2. PICK y \in g.used : t.nodes[y].leaf /\ \E i \in 1 .. Len(t.nodes[y].keys) : t.nodes[y].keys[i] = k
    BY <2>1 DEF Holds
  <2>3. PICK i \in 1 .. Len(t.nodes[y].keys) : t.nodes[y].keys[i] = k
    BY <2>2
  <2>4. g.lev[y] = 0 /\ Covers(g, y, Num(k))
    BY <2>2, <2>3, WholeIs
  <2>5. Num(k) \in Nat
    BY <2>1, KeyIsNoSentinel
  <2>6. x = y
    BY <1>1, <1>2, <2>4, <2>5, SameNode
  <2> QED
    BY <2>1, <2>2, <2>6
<1>3. ASSUME k \in Keys, NEW i \in 1 .. Len(t.nodes[x].keys), t.nodes[x].keys[i] = k
      PROVE  k \in LeafContents(t) /\ Covers(g, x, Num(k))
  <2>1. Holds(t, g, k)
    BY <1>3 DEF Holds
  <2>2. k # SentinelKey
    BY <1>3, KeyIsNoSentinel
  <2> QED
    BY <1>1, <1>3, <2>1, <2>2, ContentsIs
<1> QED
  BY <1>2, <1>3

\* A turn takes the keys of its leaf.
LEMMA LeafTaken ==
    ASSUME NoNulls, NEW t, NEW g, Whole(t, g), NEW k0 \in Nat \ {0}, NEW b \in Keys,
           NEW x \in g.used, t.nodes[x].leaf, NEW from, Found(t.nodes[x].keys, k0, from),
           NEW rows, Listed(rows, Wanted(t, k0, Num(b), g.lo[x]))
    PROVE  Listed(rows \o PartRows(t.nodes[x], from, b), Wanted(t, k0, Num(b), g.hi[x]))
<1> DEFINE n == t.nodes[x]
           R == {k \in Keys : \E i \in 1 .. from : n.keys[i] = k /\ Num(k) <= Num(b)}
           S == Wanted(t, k0, Num(b), g.lo[x])
           q == PartRows(n, from, b)
<1>1. /\ Fit(n) /\ Len(n.keys) \in Nat \ {0} /\ g.lo[x] \in Nat /\ g.hi[x] \in Nat /\ g.lo[x] < g.hi[x]
      /\ \A i \in 1 .. Len(n.keys) : Num(n.keys[i]) \in Nat
  BY WholeIs
<1>2. /\ from \in 0 .. Len(n.keys) /\ \A i \in 1 .. from : Num(n.keys[i]) >= k0
      /\ \A i \in from + 1 .. Len(n.keys) : Num(n.keys[i]) < k0
  BY DEF Found
<1>3. Listed(q, R)
  <2>1. Listed(PartRows(n, from, b), LeafPart(n, from, b))
    BY <1>1, <1>2, LeafRows
  <2>2. LeafPart(n, from, b) = R
    BY DEF LeafPart
  <2> QED
    BY <2>1, <2>2
<1>4. R \subseteq Keys /\ S \subseteq Keys
  <2>1. S \subseteq Keys
    BY ContentsIs DEF Wanted
  <2> QED
    BY <2>1
<1>5. \A k \in Keys : Num(k) \in Nat
  BY KeyIsNoSentinel
<1>6. ASSUME NEW k
      PROVE  k \in R <=> /\ k \in LeafContents(t) /\ k0 <= Num(k) /\ Num(k) <= Num(b)
                         /\ g.lo[x] < Num(k) /\ Num(k) <= g.hi[x]
  <2>1. ASSUME k \in R
        PROVE  /\ k \in LeafContents(t) /\ k0 <= Num(k) /\ Num(k) <= Num(b)
               /\ g.lo[x] < Num(k) /\ Num(k) <= g.hi[x]
    <3>1. PICK i \in 1 .. from : n.keys[i] = k /\ Num(k) <= Num(b)
      BY <2>1
    <3>2. i \in 1 .. Len(n.keys) /\ k \in Keys /\ Num(k) \in Nat
      BY <2>1, <1>1, <1>2, <1>5
    <3>3. k \in LeafContents(t) /\ Covers(g, x, Num(k))
      BY <3>1, <3>2, LeafHas
    <3>4. Num(k) >= k0
      BY <3>1, <1>2
    <3>5. k0 <= Num(k)
      BY <3>2, <3>4
    <3> QED
      BY <3>1, <3>3, <3>5 DEF Covers
  <2>2. ASSUME k \in LeafContents(t), k0 <= Num(k), Num(k) <= Num(b), g.lo[x] < Num(k), Num(k) <= g.hi[x]
        PROVE  k \in R
    <3>1. Covers(g, x, Num(k))
      BY <2>2 DEF Covers
    <3>2. k \in Keys /\ \E i \in 1 .. Len(n.keys) : n.keys[i] = k
      BY <2>2, <3>1, LeafHas
    <3>3. PICK i \in 1 .. Len(n.keys) : n.keys[i] = k
      BY <3>2
    <3>4. ~(Num(n.keys[i]) < k0)
      BY <2>2, <3>2, <3>3, <1>5
    <3>5. i \in 1 .. from
      <4>1. i \notin from + 1 .. Len(n.keys)
        BY <3>4, <1>2
      <4> QED
        BY <4>1, <1>1, <1>2
    <3> QED
      BY <2>2, <3>2, <3>3, <3>5
  <2> QED
    BY <2>1, <2>2
<1> HIDE DEF R, q
<1>7. \A a \in S, c \in R : Num(a) < Num(c)
  <2>1. ASSUME NEW a \in S, NEW c \in R PROVE Num(a) < Num(c)
    <3>1. Num(a) <= g.lo[x] /\ Num(a) \in Nat
      BY <1>4, <1>5 DEF Wanted
    <3>2. g.lo[x] < Num(c) /\ Num(c) \in Nat
      BY <1>4, <1>5, <1>6
    <3> QED
      BY <3>1, <3>2, <1>1
  <2> QED
    BY <2>1
<1>8. S \cup R = Wanted(t, k0, Num(b), g.hi[x])
  <2>1. ASSUME NEW k PROVE k \in S \cup R <=> k \in Wanted(t, k0, Num(b), g.hi[x])
    <3>1. k \in S <=> k \in LeafContents(t) /\ k0 <= Num(k) /\ Num(k) <= Num(b) /\ Num(k) <= g.lo[x]
      BY DEF Wanted
    <3>2. k \in Wanted(t, k0, Num(b), g.hi[x])
             <=> k \in LeafContents(t) /\ k0 <= Num(k) /\ Num(k) <= Num(b) /\ Num(k) <= g.hi[x]
      BY DEF Wanted
    <3>3. k \in LeafContents(t) => /\ Num(k) <= g.hi[x] <=> Num(k) <= g.lo[x] \/ (g.lo[x] < Num(k) /\ Num(k) <= g.hi[x])
      <4>1. k \in LeafContents(t) => Num(k) \in Nat
        BY <1>5, ContentsIs
      <4> QED
        BY <4>1, <1>1
    <3> HIDE DEF S
    <3> QED
      BY <3>1, <3>2, <3>3, <1>6
  <2> QED
    BY <2>1
<1> HIDE DEF S, n
<1>9. Listed(rows, S)
  BY DEF S
<1>10. Listed(rows \o q, S \cup R)
  BY <1>3, <1>4, <1>7, <1>9, ListedJoin
<1> QED
  BY <1>8, <1>10 DEF q, n

\* A bound above all that is wanted changes nothing.
LEMMA WantedIs ==
    ASSUME NoNulls, NEW t, NEW g, Whole(t, g), NEW k0, NEW k1 \in Nat, NEW top \in Nat, k1 <= top
    PROVE  Wanted(t, k0, k1, top) = Wanted(t, k0, k1, k1)
<1>1. ASSUME NEW k \in LeafContents(t), Num(k) <= k1 PROVE Num(k) <= top
  <2>1. k \in Keys
    BY ContentsIs
  <2>2. Num(k) \in Nat
    BY <2>1, KeyIsNoSentinel
  <2> QED
    BY <2>2, <1>1
<1> QED
  BY <1>1 DEF Wanted

\* There is nothing to want at the start.
LEMMA ScanStarts ==
    ASSUME NoNulls, NEW t, NEW g, Whole(t, g), Tight(t, g, {}), NEW a \in Marks, NEW b \in Keys
    PROVE  Scanned(t, g, Reach(a), Num(b), Start(t, a), 0)
<1> DEFINE x == FindInTree(t, a)[1]
           at == Start(t, a)
<1>1. /\ x \in g.used /\ t.nodes[x].leaf /\ Covers(g, x, Reach(a))
      /\ FindInTree(t, a)[2] = FindBiggerOrEqual(t.nodes[x], a)
  BY LeafFound
<1>2. /\ at = [id |-> x, from |-> FindBiggerOrEqual(t.nodes[x], a), rows |-> <<>>, done |-> FALSE]
      /\ at.id = x /\ at.from = FindBiggerOrEqual(t.nodes[x], a) /\ at.rows = <<>> /\ at.done = FALSE
  BY <1>1 DEF Start
<1> HIDE DEF x, at
<1>3. Reach(a) \in Nat \ {0} /\ Found(t.nodes[x].keys, Reach(a), at.from)
  BY <1>1, <1>2, WholeIs, ReachIs
<1>4. Wanted(t, Reach(a), Num(b), g.lo[x]) = {}
  <2>1. ASSUME NEW k \in LeafContents(t), Reach(a) <= Num(k), Num(k) <= g.lo[x] PROVE FALSE
    <3>1. Num(k) \in Nat
      BY ContentsIs, KeyIsNoSentinel
    <3>2. g.lo[x] < Reach(a) /\ g.lo[x] \in Nat
      BY <1>1, WholeIs DEF Covers
    <3> QED
      BY <2>1, <3>1, <3>2, <1>3
  <2> QED
    BY <2>1 DEF Wanted
<1>5. Listed(<<>>, {})
  <2>1. Ordered(<<>>, {})
    BY DEF Ordered
  <2>2. <<>> = [i \in 1 .. Len(<<>>) |-> <<>>[i][2]]
    OBVIOUS
  <2> QED
    BY <2>1, <2>2 DEF Listed
<1>6. Cardinality(Before(g, x)) >= 0
  <2>1. Before(g, x) \in SUBSET g.used
    BY DEF Before
  <2>2. Cardinality(Before(g, x)) \in Nat
    BY <2>1, NodesCount
  <2> QED
    BY <2>2
<1>7. Reach(a) <= g.hi[x]
  BY <1>1 DEF Covers
<1>8. Listed(at.rows, Wanted(t, Reach(a), Num(b), g.lo[x]))
  BY <1>2, <1>4, <1>5
<1> QED
  BY <1>1, <1>2, <1>3, <1>6, <1>7, <1>8 DEF Scanned, at

LEMMA ScanTurns ==
    ASSUME NoNulls, NEW t, NEW g, Whole(t, g), NEW k0 \in Nat \ {0}, NEW b \in Keys,
           NEW at, NEW m \in Nat, Scanned(t, g, k0, Num(b), at, m)
    PROVE  Scanned(t, g, k0, Num(b), ScanLeaf(t, b, at), m + 1)
<1> DEFINE k1 == Num(b)
           x  == at.id
           n  == t.nodes[at.id]
           to == FindBiggerOrEqual(t.nodes[at.id], b)
           rs == at.rows \o PartRows(n, at.from, b)
           new == ScanLeaf(t, b, at)
<1>1. k1 \in Nat /\ k1 <= Top /\ Top \in Nat
  <2>1. SentinelKey \in AllKeys
    BY DEF AllKeys
  <2> QED
    BY <2>1, KeyIsNoSentinel, NumIs DEF Top
<1>2. /\ at = [id |-> at.id, from |-> at.from, rows |-> at.rows, done |-> at.done] /\ at.done \in BOOLEAN
  BY DEF Scanned
<1>3. /\ at.done => new = at
      /\ ~at.done /\ (to # 0 \/ n.next = NIL_NODE) => new = [at EXCEPT !.rows = rs, !.done = TRUE]
      /\ ~at.done /\ ~(to # 0 \/ n.next = NIL_NODE)
            => new = [id |-> n.next, from |-> KeysCount(t.nodes[n.next]), rows |-> rs, done |-> FALSE]
  <2>1. new = IF at.done THEN at
              ELSE IF to # 0 \/ n.next = NIL_NODE THEN [at EXCEPT !.rows = rs, !.done = TRUE]
              ELSE [id |-> n.next, from |-> KeysCount(t.nodes[n.next]), rows |-> rs, done |-> FALSE]
    BY DEF ScanLeaf, PartRows, ToKey
  <2> HIDE DEF new, n, to, rs
  <2> QED
    BY <2>1
<1>4. CASE at.done
  BY <1>3, <1>4 DEF Scanned
<1>5. CASE ~at.done
  <2>1. /\ x \in g.used /\ n.leaf /\ k0 <= g.hi[x] /\ Found(n.keys, k0, at.from)
        /\ Listed(at.rows, Wanted(t, k0, k1, g.lo[x])) /\ Cardinality(Before(g, x)) >= m
    BY <1>5 DEF Scanned
  <2>2. Listed(rs, Wanted(t, k0, k1, g.hi[x]))
    BY <2>1, LeafTaken
  <2>3. /\ Fit(n) /\ Len(n.keys) \in Nat \ {0} /\ g.lo[x] \in Nat /\ g.hi[x] \in Nat /\ g.lo[x] < g.hi[x]
        /\ g.lev[x] = 0
        /\ \A i \in 1 .. Len(n.keys) : Num(n.keys[i]) \in Nat /\ Covers(g, x, Num(n.keys[i]))
    BY <2>1, WholeIs
  <2>4. CASE to # 0 \/ n.next = NIL_NODE
    <3>1. new = [at EXCEPT !.rows = rs, !.done = TRUE]
      BY <1>3, <1>5, <2>4
    <3> HIDE DEF rs, new
    <3>2. new = [id |-> at.id, from |-> at.from, rows |-> rs, done |-> TRUE]
      BY <3>1, <1>2
    <3>3. new.rows = rs /\ new.done = TRUE /\ new.id = at.id /\ new.from = at.from
      BY <3>2
    <3>4. k1 <= g.hi[x]
      <4>1. CASE to # 0
        <5>1. to \in 1 .. Len(n.keys) /\ Num(n.keys[to]) >= k1
          <6> HIDE DEF n, k1
          <6>1. to \in 0 .. Len(n.keys) /\ \A i \in 1 .. to : Num(n.keys[i]) >= k1
            BY <2>3, ToKeyIs DEF n, k1
          <6> HIDE DEF to
          <6> QED
            BY <6>1, <4>1, <2>3
        <5>2. Num(n.keys[to]) \in Nat /\ Num(n.keys[to]) <= g.hi[x]
          BY <5>1, <2>3 DEF Covers
        <5> HIDE DEF to, k1, n
        <5> QED
          BY <5>1, <5>2, <1>1, <2>3
      <4>2. CASE n.next = NIL_NODE
        <5>1. g.hi[x] = Top
          BY <4>2, <2>1 DEF Whole, Linked
        <5> QED
          BY <5>1, <1>1
      <4> QED
        BY <4>1, <4>2, <2>4
    <3>5. Wanted(t, k0, k1, g.hi[x]) = Wanted(t, k0, k1, k1)
      BY <3>4, <1>1, <2>3, WantedIs
    <3>6. Listed(new.rows, Wanted(t, k0, k1, k1))
      BY <3>3, <3>5, <2>2
    <3> HIDE DEF k1
    <3> QED
      BY <3>2, <3>3, <3>6 DEF Scanned, new, k1
  <2>5. CASE ~(to # 0 \/ n.next = NIL_NODE)
    <3> DEFINE y == n.next
               l == t.nodes[y]
    <3>1. new = [id |-> y, from |-> KeysCount(l), rows |-> rs, done |-> FALSE]
      BY <1>3, <1>5, <2>5
    <3>2. y # NIL_NODE /\ y \in g.used /\ t.nodes[y].prev = x
      BY <2>1, <2>5 DEF Whole, Linked
    <3> HIDE DEF y
    <3>3. t.nodes[y].prev # NIL_NODE
      BY <3>2, <2>1, WholeIs DEF NIL_NODE
    <3>4. g.lev[x] = g.lev[y] /\ g.hi[x] = g.lo[y]
      BY <3>2, <3>3 DEF Whole, Linked
    <3>5. /\ Fit(l) /\ Len(l.keys) \in Nat \ {0} /\ g.lo[y] \in Nat /\ g.hi[y] \in Nat /\ g.lo[y] < g.hi[y]
          /\ \A i \in 1 .. Len(l.keys) : Num(l.keys[i]) \in Nat /\ Covers(g, y, Num(l.keys[i]))
      BY <3>2, WholeIs
    <3>6. l.leaf /\ k0 <= g.hi[y]
      <4>1. l.leaf
        <5>1. (l.leaf <=> g.lev[y] = 0) /\ g.lev[x] = 0
          BY <2>3, <3>2, WholeIs
        <5> HIDE DEF l, x
        <5> QED
          BY <5>1, <3>4
      <4>2. k0 <= g.hi[y]
        <5> DEFINE hx == g.hi[x]
                   ly == g.lo[y]
                   hy == g.hi[y]
        <5>1. k0 <= hx /\ hx = ly /\ ly < hy /\ hx \in Nat /\ ly \in Nat /\ hy \in Nat
          BY <2>1, <2>3, <3>4, <3>5
        <5> HIDE DEF hx, ly, hy
        <5>2. k0 <= hy
          BY <5>1
        <5> QED
          BY <5>2 DEF hy
      <4> QED
        BY <4>1, <4>2
    <3>7. KeysCount(l) = Len(l.keys) /\ Found(l.keys, k0, KeysCount(l))
      <4>1. KeysCount(l) = Len(l.keys)
        BY <3>5, FitIs
      <4>2. ASSUME NEW i \in 1 .. Len(l.keys) PROVE Num(l.keys[i]) >= k0
        <5> DEFINE hx == g.hi[x]
                   ly == g.lo[y]
                   k  == Num(l.keys[i])
        <5>1. k0 <= hx /\ hx = ly /\ ly < k /\ hx \in Nat /\ ly \in Nat /\ k \in Nat
          BY <2>1, <2>3, <3>4, <3>5 DEF Covers
        <5> HIDE DEF hx, ly, k
        <5>2. k >= k0
          BY <5>1
        <5> QED
          BY <5>2 DEF k
      <4> HIDE DEF l
      <4>3. Found(l.keys, k0, Len(l.keys))
        BY <3>5, <4>2 DEF Found
      <4> QED
        BY <4>1, <4>3
    <3>8. Cardinality(Before(g, y)) >= m + 1
      <4>1. x \in Before(g, y) /\ x \notin Before(g, x) /\ Before(g, x) \subseteq Before(g, y) /\ Before(g, y) \subseteq g.used
        <5>1. g.lo[x] < g.lo[y] /\ ~(g.lo[x] < g.lo[x])
          BY <2>3, <3>4, <3>5
        <5>2. ASSUME NEW z \in g.used, g.lo[z] < g.lo[x] PROVE g.lo[z] < g.lo[y]
          <6>1. g.lo[z] \in Nat
            BY WholeIs
          <6> DEFINE lz == g.lo[z]
                     lx == g.lo[x]
                     ly == g.lo[y]
          <6>2. lz \in Nat /\ lx \in Nat /\ ly \in Nat /\ lz < lx /\ lx < ly
            BY <6>1, <5>1, <5>2, <2>3, <3>5
          <6> HIDE DEF lz, lx, ly
          <6>3. lz < ly
            BY <6>2
          <6> QED
            BY <6>3 DEF lz, ly
        <5> QED
          BY <5>1, <5>2, <2>1 DEF Before
      <4>2. /\ Cardinality(Before(g, x)) \in Nat /\ Cardinality(Before(g, y)) \in Nat
            /\ Cardinality(Before(g, y)) >= Cardinality(Before(g, x)) + 1
        BY <4>1, NodesCount
      <4> DEFINE cx == Cardinality(Before(g, x))
                 cy == Cardinality(Before(g, y))
      <4>3. cx \in Nat /\ cy \in Nat /\ cy >= cx + 1 /\ cx >= m
        BY <4>2, <2>1
      <4> HIDE DEF cx, cy
      <4>4. cy >= m + 1
        BY <4>3
      <4> QED
        BY <4>4 DEF cy
    <3> HIDE DEF rs, new
    <3>9. new.id = y /\ new.from = KeysCount(l) /\ new.rows = rs /\ new.done = FALSE
      BY <3>1
    <3>10. Listed(new.rows, Wanted(t, k0, k1, g.lo[y]))
      BY <3>4, <3>9, <2>2
    <3>11. t.nodes[new.id] = l
      BY <3>9 DEF y
    <3> HIDE DEF l, k1
    <3>12. new = [id |-> new.id, from |-> new.from, rows |-> new.rows, done |-> new.done] /\ new.done \in BOOLEAN
      BY <3>1, <3>9
    <3>13. /\ new.id \in g.used /\ t.nodes[new.id].leaf /\ k0 <= g.hi[new.id]
           /\ Found(t.nodes[new.id].keys, k0, new.from)
           /\ Listed(new.rows, Wanted(t, k0, k1, g.lo[new.id]))
           /\ Cardinality(Before(g, new.id)) >= m + 1
      BY <3>2, <3>6, <3>7, <3>8, <3>9, <3>10, <3>11
    <3> QED
      BY <3>9, <3>12, <3>13 DEF Scanned, new, k1
  <2> QED
    BY <2>4, <2>5
<1> QED
  BY <1>2, <1>4, <1>5

-----------------------------------------------------------------------------
(* A scan is exact. *)

LEMMA ScanIsOver ==
    ASSUME NoNulls, NEW t, NEW g, Whole(t, g), Tight(t, g, {}), NEW a \in Marks, NEW b \in Keys
    PROVE  Listed(MatchRows(t, a, b), Wanted(t, Reach(a), Num(b), Num(b)))
<1> DEFINE k0 == Reach(a)
           k1 == Num(b)
           L  == Len(t.nodes)
<1>1. L \in Nat
  BY NodesCount
<1>2. PICK w : /\ w[0] = Start(t, a)
               /\ \A d \in 1 .. L : w[d] = ScanLeaf(t, b, w[d - 1])
               /\ MatchRows(t, a, b) =
                     IF GetKey(t.nodes[FindInTree(t, a)[1]], FindInTree(t, a)[2]) = SentinelKey
                     THEN <<>> ELSE w[L].rows
  BY <1>1, ScanSteps
<1>3. k0 \in Nat \ {0} /\ k0 <= Top
  BY ReachIs
<1> DEFINE S == {d \in Nat : d <= L => Scanned(t, g, k0, k1, w[d], d)}
<1>4. 0 \in S
  BY <1>2, ScanStarts
<1>5. ASSUME NEW d \in Nat, d \in S PROVE d + 1 \in S
  <2>1. ASSUME d + 1 <= L PROVE Scanned(t, g, k0, k1, w[d + 1], d + 1)
    <3> DEFINE e == d + 1
    <3>1. d <= L /\ e \in 1 .. L /\ e - 1 = d
      BY <2>1, <1>1
    <3> HIDE DEF e
    <3>2. w[e] = ScanLeaf(t, b, w[d])
      BY <3>1, <1>2
    <3>3. Scanned(t, g, k0, k1, w[d], d)
      BY <3>1, <1>5
    <3> HIDE DEF k0
    <3>4. Scanned(t, g, k0, k1, ScanLeaf(t, b, w[d]), d + 1)
      BY <3>3, <1>3, ScanTurns
    <3> QED
      BY <3>2, <3>4 DEF e
  <2>2. d + 1 \in Nat
    OBVIOUS
  <2> QED
    BY <2>1, <2>2
<1>6. L \in S
  <2> HIDE DEF S
  <2>1. \A d \in Nat : d \in S => d + 1 \in S
    BY <1>5
  <2>2. Nat \subseteq S
    BY <1>4, <2>1, ByInduction
  <2> QED
    BY <2>2, <1>1
<1>7. Scanned(t, g, k0, k1, w[L], L)
  <2>1. L <= L
    BY <1>1
  <2> QED
    BY <1>6, <2>1
<1>8. w[L].done
  <2> SUFFICES ASSUME ~w[L].done PROVE FALSE
    OBVIOUS
  <2> DEFINE x == w[L].id
  <2>1. x \in g.used /\ Cardinality(Before(g, x)) >= L
    BY <1>7 DEF Scanned
  <2>2. Before(g, x) \subseteq g.used /\ x \notin Before(g, x)
    <3>1. g.lo[x] \in Nat
      BY <2>1, WholeIs
    <3> QED
      BY <3>1 DEF Before
  <2> HIDE DEF x
  <2>3. Cardinality(Before(g, x)) < L
    BY <2>1, <2>2, NodesCount
  <2>4. Cardinality(Before(g, x)) \in Nat
    BY <2>2, NodesCount
  <2> QED
    BY <2>1, <2>3, <2>4, <1>1
<1>9. Listed(w[L].rows, Wanted(t, k0, k1, k1))
  BY <1>7, <1>8 DEF Scanned
<1>10. CASE GetKey(t.nodes[FindInTree(t, a)[1]], FindInTree(t, a)[2]) = SentinelKey
  <2> DEFINE x == FindInTree(t, a)[1]
             f == FindBiggerOrEqual(t.nodes[x], a)
             n == t.nodes[x]
  <2>1. x \in g.used /\ n.leaf /\ Covers(g, x, k0) /\ FindInTree(t, a)[2] = f
    BY LeafFound
  <2>2. GetKey(n, f) = SentinelKey
    BY <1>10, <2>1
  <2> HIDE DEF x
  <2>3. /\ Fit(n) /\ Len(n.keys) \in Nat \ {0} /\ Found(n.keys, k0, f)
        /\ Num(n.keys[1]) = g.hi[x] /\ g.hi[x] \in Nat
    BY <2>1, WholeIs, ReachIs DEF Tight
  <2> HIDE DEF n, f
  <2>4. f \in 0 .. Len(n.keys) /\ \A i \in f + 1 .. Len(n.keys) : Num(n.keys[i]) < k0
    BY <2>3 DEF Found
  <2>5. f # 0
    <3> SUFFICES ASSUME f = 0 PROVE FALSE
      OBVIOUS
    <3>1. Num(n.keys[1]) < k0
      BY <2>3, <2>4
    <3>2. k0 <= g.hi[x]
      BY <2>1 DEF Covers
    <3> HIDE DEF k0
    <3> QED
      BY <3>1, <3>2, <2>3, <1>3
  <2>6. f \in 1 .. Len(n.keys) /\ n.keys[f] = SentinelKey
    <3>1. f \in 1 .. Len(n.keys)
      BY <2>4, <2>5
    <3>2. GetKey(n, f) = n.keys[f]
      BY <3>1, <2>3, FitIs
    <3> QED
      BY <3>1, <3>2, <2>2
  <2>7. \A i \in 1 .. Len(n.keys) : Num(n.keys[i]) = Top \/ Num(n.keys[i]) < k0
    <3>1. ASSUME NEW i \in 1 .. Len(n.keys) PROVE Num(n.keys[i]) = Top \/ Num(n.keys[i]) < k0
      <4>1. Num(n.keys[i]) \in Nat /\ Num(n.keys[i]) <= Top /\ Descending(n.keys) /\ Num(n.keys[f]) = Top
        BY <2>3, <2>6, FitIs DEF Top
      <4>2. CASE i < f
        <5>1. Num(n.keys[i]) > Num(n.keys[f])
          BY <4>1, <4>2, <2>6 DEF Descending
        <5>2. FALSE
          <6>1. SentinelKey \in AllKeys
            BY DEF AllKeys
          <6>2. Top \in Nat
            BY <6>1, NumIs DEF Top
          <6> QED
            BY <4>1, <5>1, <6>2
        <5> QED
          BY <5>2
      <4>3. CASE i = f
        BY <4>1, <4>3
      <4>4. CASE i > f
        <5>1. i \in f + 1 .. Len(n.keys)
          BY <4>4, <2>4, <2>3
        <5> QED
          BY <5>1, <2>4
      <4> QED
        BY <4>2, <4>3, <4>4, <2>4
    <3> QED
      BY <3>1
  <2>8. g.hi[x] = Top
    <3>1. 1 \in 1 .. Len(n.keys)
      BY <2>3
    <3>2. ~(Num(n.keys[1]) < k0)
      <4>1. k0 <= g.hi[x]
        BY <2>1 DEF Covers
      <4> HIDE DEF k0
      <4> QED
        BY <4>1, <2>3, <1>3
    <3> QED
      BY <3>1, <3>2, <2>3, <2>7
  <2>9. Wanted(t, k0, k1, k1) = {}
    <3>1. ASSUME NEW k \in LeafContents(t), k0 <= Num(k) PROVE FALSE
      <4>1. k \in Keys
        BY ContentsIs
      <4>2. Num(k) \in Nat /\ Num(k) # Top /\ Num(k) <= Top
        BY <4>1, KeyIsNoSentinel
      <4>3. Covers(g, x, Num(k))
        <5>1. g.lo[x] < k0 /\ g.lo[x] \in Nat
          BY <2>1, WholeIs DEF Covers
        <5>2. g.lo[x] < Num(k)
          <6> HIDE DEF k0
          <6> QED
            BY <5>1, <3>1, <4>2, <1>3
        <5> QED
          BY <5>2, <4>2, <2>8 DEF Covers
      <4>4. PICK i \in 1 .. Len(n.keys) : n.keys[i] = k
        BY <4>3, <3>1, <2>1, LeafHas DEF n
      <4>5. Num(k) < k0
        BY <4>2, <4>4, <2>7
      <4> HIDE DEF k0
      <4> QED
        BY <4>5, <3>1, <4>2, <1>3
    <3> QED
      BY <3>1 DEF Wanted
  <2>10. Listed(<<>>, {})
    <3>1. Ordered(<<>>, {})
      BY DEF Ordered
    <3>2. <<>> = [i \in 1 .. Len(<<>>) |-> <<>>[i][2]]
      OBVIOUS
    <3> QED
      BY <3>1, <3>2 DEF Listed
  <2> QED
    BY <2>9, <2>10, <1>2, <1>10
<1>11. CASE GetKey(t.nodes[FindInTree(t, a)[1]], FindInTree(t, a)[2]) # SentinelKey
  <2>1. MatchRows(t, a, b) = w[L].rows
    BY <1>2, <1>11
  <2> QED
    BY <2>1, <1>9
<1> QED
  BY <1>10, <1>11

LEMMA ScanFollows ==
    ASSUME NoNulls, IInv, op = Idle, NEW a \in Marks, NEW b \in Keys
    PROVE  LET keys == InOrder(Between(a, b))
           IN  MatchRows(tree, a, b) = [i \in DOMAIN keys |-> keys[i][2]]
<1>1. PICK g : Sound(tree, g, op)
  BY DEF IInv
<1>2. Whole(tree, g) /\ Tight(tree, g, {})
  <2>1. op.kind # "adjust"
    BY DEF Idle
  <2> QED
    BY <1>1, <2>1, TightAtRest DEF Sound
<1>3. PICK s : /\ Ordered(s, Wanted(tree, Reach(a), Num(b), Num(b)))
               /\ MatchRows(tree, a, b) = [i \in 1 .. Len(s) |-> s[i][2]]
  BY <1>2, ScanIsOver DEF Listed
<1>4. Wanted(tree, Reach(a), Num(b), Num(b)) = Between(a, b)
  <2>1. ASSUME NEW k \in LeafContents(tree)
        PROVE  /\ CompareWith(a, k) <= 0 <=> Reach(a) <= Num(k)
               /\ CompareWith(k, b) <= 0 <=> Num(k) <= Num(b)
    <3>1. k \in Keys
      BY <1>2, ContentsIs
    <3>2. k \in AllKeys /\ b \in AllKeys
      BY <3>1, KeyIsNoSentinel
    <3> QED
      BY <3>2, ReachIs, CompareIs
  <2> QED
    BY <2>1 DEF Wanted, Between
<1>5. Between(a, b) \subseteq Keys
  BY <1>2, ContentsIs DEF Between
<1>6. InOrder(Between(a, b)) = s
  BY <1>3, <1>4, <1>5, InOrderIs
<1>7. DOMAIN s = 1 .. Len(s)
  BY <1>3, <1>4, <1>5, OrderedIs
<1> QED
  BY <1>3, <1>6, <1>7

LEMMA ScansFollow ==
    ASSUME NoNulls, IInv
    PROVE  ScanIsExact
<1> DEFINE first == <<Null, 0>>
           last  == <<MaxOf(Values), MaxOf(Rows)>>
           Exact(a, b) == LET keys == InOrder(Between(a, b))
                          IN  MatchRows(tree, a, b) = [i \in DOMAIN keys |-> keys[i][2]]
<1>1. last \in Keys
  <2>1. MaxOf(Values) \in Values
    BY MaxOfIs, BTreeAssumption
  <2>2. MaxOf(Rows) \in Rows
    BY MaxOfIs, BTreeAssumption
  <2> QED
    BY <2>1, <2>2 DEF Keys
<1>2. first \in Marks
  BY DEF Marks, LowKey
<1>3. \A k \in Keys : k \in Marks
  BY DEF Marks, AllKeys
<1>4. ASSUME op = Idle, NEW k \in Keys PROVE Exact(k, last) /\ Exact(first, k)
  <2> HIDE DEF first, last
  <2>1. Exact(k, last)
    BY <1>1, <1>3, <1>4, ScanFollows
  <2>2. Exact(first, k)
    BY <1>2, <1>4, ScanFollows
  <2> QED
    BY <2>1, <2>2
<1> HIDE DEF Exact
<1>5. op = Idle => \A k \in Keys : Exact(k, last) /\ Exact(first, k)
  BY <1>4
<1> QED
  BY <1>5 DEF ScanIsExact, Exact

\* From any key to the last, and from the first to any key, a scan of a tree at rest
\* goes down to the first leaf, follows the leaves to the last key of the range and
\* leaves out no row, takes none twice and none beyond the range.
THEOREM ScanStaysExact == ASSUME NoNulls PROVE Spec => []ScanIsExact
<1>1. IInv => ScanIsExact
  BY ScansFollow
<1> QED
  BY <1>1, TreeIsSound, PTL
=============================================================================
