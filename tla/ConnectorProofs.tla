--------------------------- MODULE ConnectorProofs ---------------------------
(***************************************************************************)
(* Proofs about Connector, for frames, values, lists and frame numbers of  *)
(* any size.                                                               *)
(*                                                                         *)
(* UpdatesInOrder is about a fold over the frame, and so needs two facts   *)
(* about that fold before any step is looked at: that one more command is  *)
(* done after the others (CmdAppend), and that an update which goes on     *)
(* where the last one ended can be put into it (MergedFrame, which rests   *)
(* on OverwrittenTwice).  Both say it of every stack, which is what makes  *)
(* the invariant Gathered inductive: the frame is compared with the calls  *)
(* on the stack the session has when the frame is sent, and that stack is  *)
(* not known while the frame is filled.                                    *)
(*                                                                         *)
(* AnswersAreCurrent needs to know who speaks next (Conversation): the     *)
(* stack of the session changes only while a call waits, so the value in   *)
(* an answer under way is still the one on top when it arrives (Current),  *)
(* and the index of a list counts the names that were fetched (Listed).    *)
(***************************************************************************)
EXTENDS Connector, SequenceTheorems, WellFoundedInduction, TLAPS

Values  == [type : Types, items : Seq(Items)]
Stacks  == Seq(Values)
Updates == [op : {"update"}, type : Types, off : Nat, items : Seq(Items)]
Cmds    == {Push(t) : t \in Types} \cup {Pop} \cup Updates
Results == [stack : Stacks, status : {"ok", "refused"}]

-----------------------------------------------------------------------------
(* Induction over the naturals, by their smallest element. *)

LEMMA Smallest ==
    ASSUME NEW S \in SUBSET Nat, S # {}
    PROVE  \E m \in S : \A k \in S : m <= k
<1> DEFINE R == OpToRel(<, Nat)
<1>1. IsWellFoundedOn(R, Nat)
  BY NatLessThanWellFounded
<1>2. R = {ss \in Nat \X Nat : ss[1] < ss[2]}
  BY DEF OpToRel
<1> HIDE DEF R
<1>3. PICK m \in S : \A y \in S : ~(<<y, m>> \in R)
  BY <1>1, WFMin
<1>4. ASSUME NEW k \in S PROVE m <= k
  <2>1. k \in Nat /\ m \in Nat
    OBVIOUS
  <2>2. ~(<<k, m>> \in {ss \in Nat \X Nat : ss[1] < ss[2]})
    BY <1>2, <1>3
  <2>3. ~(k < m)
    BY <2>1, <2>2
  <2> QED
    BY <2>1, <2>3
<1> QED
  BY <1>4

LEMMA ByInduction ==
    ASSUME NEW S, 0 \in S, \A n \in Nat : n \in S => n + 1 \in S
    PROVE  Nat \subseteq S
<1> SUFFICES ASSUME NEW n \in Nat, n \notin S PROVE FALSE
  OBVIOUS
<1> DEFINE T == {k \in Nat : k \notin S}
<1>1. T # {} /\ T \in SUBSET Nat
  OBVIOUS
<1>2. PICK m \in T : \A k \in T : m <= k
  BY <1>1, Smallest
<1>3. m # 0
  OBVIOUS
<1>4. m - 1 \in Nat /\ m - 1 \notin T
  BY <1>2, <1>3
<1>5. m - 1 + 1 = m
  OBVIOUS
<1> QED
  BY <1>4, <1>5, <1>3

-----------------------------------------------------------------------------
(* What the commands of a frame do, one after the other. *)

\* r is the result of each beginning of the frame.
Results1(stack, f, r) ==
    r[0] = Done(stack) /\ \A n \in 1 .. Len(f) : r[n] = AppliedNext(r[n - 1], f[n])

LEMMA ResultsExist ==
    ASSUME NEW stack, NEW f, Len(f) \in Nat
    PROVE  \E r : cmd_update_stack(stack, f) = r[Len(f)] /\ Results1(stack, f, r)
<1> DEFINE upTo[n \in 0 .. Len(f)] == IF n = 0 THEN Done(stack) ELSE AppliedNext(upTo[n - 1], f[n])
           Value(g, n) == IF n = 0 THEN Done(stack) ELSE AppliedNext(g[n - 1], f[n])
           Def(g, m) == g = [n \in 0 .. m |-> Value(g, n)]
           S == {m \in Nat : \E g : Def(g, m)}
<1>1. cmd_update_stack(stack, f) = upTo[Len(f)]
  BY DEF cmd_update_stack
<1>2. 0 \in S
  <2> DEFINE g == [n \in 0 .. 0 |-> Done(stack)]
  <2>1. Def(g, 0)
    OBVIOUS
  <2> QED
    BY <2>1
<1>3. ASSUME NEW m \in Nat, m \in S PROVE m + 1 \in S
  <2>1. PICK g : Def(g, m)
    BY <1>3
  <2> DEFINE h == [n \in 0 .. m + 1 |-> Value(g, n)]
  <2>2. ASSUME NEW n \in 0 .. m PROVE h[n] = g[n]
    <3> HIDE DEF Value
    <3>1. n \in 0 .. m + 1
      OBVIOUS
    <3>2. h[n] = Value(g, n)
      BY <3>1
    <3>3. g[n] = Value(g, n)
      BY <2>1
    <3> QED
      BY <3>2, <3>3
  <2>3. ASSUME NEW n \in 0 .. m + 1
        PROVE  Value(g, n) = Value(h, n)
    <3>1. CASE n = 0
      BY <3>1
    <3>2. CASE n # 0
      <4>1. n - 1 \in 0 .. m
        BY <3>2
      <4>2. h[n - 1] = g[n - 1]
        BY <2>2, <4>1
      <4> HIDE DEF h
      <4> QED
        BY <3>2, <4>2
    <3> QED
      BY <3>1, <3>2
  <2>4. Def(h, m + 1)
    <3> HIDE DEF Value
    <3> QED
      BY <2>3
  <2>5. m + 1 \in Nat
    OBVIOUS
  <2> HIDE DEF h, Def
  <2> QED
    BY <2>4, <2>5
<1>4. Len(f) \in S
  <2> HIDE DEF S
  <2>1. \A m \in Nat : m \in S => m + 1 \in S
    BY <1>3
  <2>2. Nat \subseteq S
    BY <1>2, <2>1, ByInduction
  <2> QED
    BY <2>2
<1>5. \E g : Def(g, Len(f))
  BY <1>4
<1>6. Def(upTo, Len(f))
  BY <1>5
<1> HIDE DEF upTo
<1>7. upTo[0] = Done(stack)
  BY <1>6
<1>8. ASSUME NEW n \in 1 .. Len(f)
      PROVE  upTo[n] = AppliedNext(upTo[n - 1], f[n])
  <2>1. n \in 0 .. Len(f) /\ n # 0
    OBVIOUS
  <2>2. upTo[n] = Value(upTo, n)
    <3> HIDE DEF Value
    <3> QED
      BY <1>6, <2>1
  <2> QED
    BY <2>1, <2>2
<1> QED
  BY <1>1, <1>7, <1>8 DEF Results1

\* Frames that begin alike do alike as far as they do.
LEMMA ResultsAgree ==
    ASSUME NEW stack, NEW f, NEW g, NEW r, NEW q, NEW m \in Nat,
           Len(f) \in Nat, Len(g) \in Nat, m <= Len(f), m <= Len(g),
           \A n \in 1 .. m : f[n] = g[n],
           Results1(stack, f, r), Results1(stack, g, q)
    PROVE  r[m] = q[m]
<1> DEFINE S == {n \in Nat : n <= m => r[n] = q[n]}
<1>1. 0 \in S
  BY DEF Results1
<1>2. ASSUME NEW n \in Nat, n \in S PROVE n + 1 \in S
  <2>1. SUFFICES ASSUME n + 1 <= m PROVE r[n + 1] = q[n + 1]
    OBVIOUS
  <2>2. n <= m /\ n + 1 \in 1 .. m /\ n + 1 \in 1 .. Len(f) /\ n + 1 \in 1 .. Len(g) /\ n + 1 - 1 = n
    BY <2>1
  <2>3. r[n] = q[n] /\ f[n + 1] = g[n + 1]
    BY <1>2, <2>2
  <2>4. r[n + 1] = AppliedNext(r[n], f[n + 1])
    BY <2>2 DEF Results1
  <2>5. q[n + 1] = AppliedNext(q[n], g[n + 1])
    BY <2>2 DEF Results1
  <2> QED
    BY <2>3, <2>4, <2>5
<1>3. m \in S
  <2> HIDE DEF S
  <2>1. \A n \in Nat : n \in S => n + 1 \in S
    BY <1>2
  <2>2. Nat \subseteq S
    BY <1>1, <2>1, ByInduction
  <2> QED
    BY <2>2
<1> QED
  BY <1>3

LEMMA CmdEmpty ==
    ASSUME NEW stack
    PROVE  cmd_update_stack(stack, <<>>) = Done(stack)
<1>1. Len(<<>>) = 0
  OBVIOUS
<1>2. PICK r : cmd_update_stack(stack, <<>>) = r[Len(<<>>)] /\ Results1(stack, <<>>, r)
  BY <1>1, ResultsExist
<1> QED
  BY <1>1, <1>2 DEF Results1

LEMMA CmdAppend ==
    ASSUME NEW stack, NEW C, NEW f \in Seq(C), NEW c \in C
    PROVE  cmd_update_stack(stack, Append(f, c)) = AppliedNext(cmd_update_stack(stack, f), c)
<1> DEFINE g == Append(f, c)
<1>1. /\ Len(f) \in Nat /\ Len(g) = Len(f) + 1 /\ g[Len(f) + 1] = c
      /\ \A n \in 1 .. Len(f) : f[n] = g[n]
  BY AppendProperties, LenProperties
<1> HIDE DEF g
<1>2. PICK r : cmd_update_stack(stack, f) = r[Len(f)] /\ Results1(stack, f, r)
  BY <1>1, ResultsExist
<1>3. Len(g) \in Nat
  BY <1>1
<1>4. PICK q : cmd_update_stack(stack, g) = q[Len(g)] /\ Results1(stack, g, q)
  BY <1>3, ResultsExist
<1>5. r[Len(f)] = q[Len(f)]
  BY <1>1, <1>2, <1>3, <1>4, ResultsAgree
<1>6. q[Len(f) + 1] = AppliedNext(q[Len(f)], c)
  <2>1. Len(f) + 1 \in 1 .. Len(g) /\ Len(f) + 1 - 1 = Len(f)
    BY <1>1
  <2> QED
    BY <2>1, <1>1, <1>4 DEF Results1
<1> QED
  BY <1>1, <1>2, <1>4, <1>5, <1>6 DEF g

-----------------------------------------------------------------------------
(* What the commands do to a stack. *)

\* Overwriting, position by position.
LEMMA OverwrittenIs ==
    ASSUME NEW S, NEW v \in Seq(S), NEW off \in Nat, NEW a \in Seq(S), off <= Len(v)
    PROVE  LET w == Overwritten(v, off, a) IN
           /\ w \in Seq(S)
           /\ Len(w) = IF Len(v) < off + Len(a) THEN off + Len(a) ELSE Len(v)
           /\ \A i \in 1 .. Len(w) : w[i] = IF off < i /\ i <= off + Len(a) THEN a[i - off] ELSE v[i]
<1> DEFINE x == SubSeq(v, 1, off)
           z == SubSeq(v, off + Len(a) + 1, Len(v))
           w == x \o a \o z
<1>1. Len(v) \in Nat /\ Len(a) \in Nat /\ \A i \in 1 .. Len(v) : v[i] \in S
  BY LenProperties, ElementOfSeq
<1>2. /\ x \in Seq(S) /\ Len(x) = off
      /\ \A i \in 1 .. off : x[i] = v[i]
  <2>1. \A i \in 1 .. off : v[i] \in S
    BY <1>1
  <2>2. /\ x \in Seq(S) /\ Len(x) = IF 1 <= off THEN off - 1 + 1 ELSE 0
        /\ \A i \in 1 .. off - 1 + 1 : x[i] = v[1 + i - 1]
    BY <2>1, SubSeqProperties
  <2>3. off - 1 + 1 = off /\ \A i \in Int : 1 + i - 1 = i
    OBVIOUS
  <2>4. Len(x) = off
    BY <2>2
  <2>5. ASSUME NEW i \in 1 .. off PROVE x[i] = v[i]
    <3>1. x[i] = v[1 + i - 1] /\ 1 + i - 1 = i
      BY <2>2, <2>3
    <3> QED
      BY <3>1
  <2> QED
    BY <2>2, <2>4, <2>5
<1> DEFINE b == off + Len(a) + 1
           k == IF b <= Len(v) THEN Len(v) - b + 1 ELSE 0
<1>3. /\ z \in Seq(S) /\ Len(z) = k
      /\ \A i \in 1 .. k : z[i] = v[off + Len(a) + i]
  <2>1. b \in Int /\ b >= 1 /\ k \in Nat
    BY <1>1
  <2>2. \A i \in b .. Len(v) : v[i] \in S
    BY <2>1, <1>1
  <2>3. /\ z \in Seq(S) /\ Len(z) = k
        /\ \A i \in 1 .. Len(v) - b + 1 : z[i] = v[b + i - 1]
    BY <2>1, <2>2, <1>1, SubSeqProperties
  <2>4. ASSUME NEW i \in 1 .. k PROVE z[i] = v[off + Len(a) + i]
    <3>1. i \in 1 .. Len(v) - b + 1 /\ b + i - 1 = off + Len(a) + i
      BY <2>1, <1>1
    <3>2. z[i] = v[b + i - 1]
      BY <3>1, <2>3
    <3> QED
      BY <3>1, <3>2
  <2> QED
    BY <2>3, <2>4
<1>4. k \in Nat
  BY <1>1
<1>k. k = IF Len(v) < off + Len(a) THEN 0 ELSE Len(v) - off - Len(a)
  BY <1>1
<1> HIDE DEF x, z, b, k
<1>5. /\ x \o a \in Seq(S) /\ Len(x \o a) = off + Len(a)
      /\ \A i \in 1 .. off + Len(a) : (x \o a)[i] = IF i <= off THEN x[i] ELSE a[i - off]
  BY <1>1, <1>2, ConcatProperties
<1>6. /\ w \in Seq(S) /\ Len(w) = off + Len(a) + k
      /\ \A i \in 1 .. off + Len(a) + k :
            w[i] = IF i <= off + Len(a) THEN (x \o a)[i] ELSE z[i - (off + Len(a))]
  <2> DEFINE y == x \o a
  <2>1. y \in Seq(S) /\ Len(y) = off + Len(a)
    BY <1>5
  <2> HIDE DEF y
  <2>2. /\ y \o z \in Seq(S) /\ Len(y \o z) = Len(y) + Len(z)
        /\ \A i \in 1 .. Len(y) + Len(z) : (y \o z)[i] = IF i <= Len(y) THEN y[i] ELSE z[i - Len(y)]
    BY <2>1, <1>3, ConcatProperties
  <2> QED
    BY <2>1, <2>2, <1>3 DEF y
<1>7. w = Overwritten(v, off, a)
  BY DEF Overwritten, x, z
<1> HIDE DEF w
<1>8. Len(w) = IF Len(v) < off + Len(a) THEN off + Len(a) ELSE Len(v)
  <2>1. CASE Len(v) < off + Len(a)
    <3>1. k = 0
      BY <2>1, <1>k
    <3>2. off + Len(a) + k = off + Len(a)
      BY <3>1, <1>1
    <3> QED
      BY <2>1, <3>2, <1>6
  <2>2. CASE ~(Len(v) < off + Len(a))
    <3>1. k = Len(v) - off - Len(a)
      BY <2>2, <1>k
    <3>2. off + Len(a) + k = Len(v)
      BY <3>1, <1>1
    <3> QED
      BY <2>2, <3>2, <1>6
  <2> QED
    BY <2>1, <2>2
<1>9. ASSUME NEW i \in 1 .. Len(w)
      PROVE  w[i] = IF off < i /\ i <= off + Len(a) THEN a[i - off] ELSE v[i]
  <2>1. i \in 1 .. off + Len(a) + k /\ i \in Nat
    BY <1>6, <1>4, <1>1
  <2>2. CASE i <= off
    <3>1. i \in 1 .. off + Len(a) /\ i \in 1 .. off /\ i <= off + Len(a) /\ ~(off < i)
      BY <2>1, <2>2, <1>1
    <3> QED
      BY <3>1, <2>1, <2>2, <1>6, <1>5, <1>2
  <2>3. CASE off < i /\ i <= off + Len(a)
    <3>1. i \in 1 .. off + Len(a) /\ ~(i <= off)
      BY <2>1, <2>3, <1>1
    <3> QED
      BY <3>1, <2>1, <2>3, <1>6, <1>5
  <2>4. CASE off + Len(a) < i
    <3>1. i - (off + Len(a)) \in 1 .. k /\ off + Len(a) + (i - (off + Len(a))) = i /\ ~(i <= off + Len(a))
      BY <2>1, <2>4, <1>1, <1>4
    <3>2. w[i] = z[i - (off + Len(a))]
      BY <3>1, <2>1, <1>6
    <3> QED
      BY <3>1, <3>2, <1>3
  <2> QED
    BY <2>1, <2>2, <2>3, <2>4, <1>1
<1> QED
  BY <1>6, <1>7, <1>8, <1>9

\* An update that goes on where another ended is one update.
LEMMA OverwrittenTwice ==
    ASSUME NEW S, NEW v \in Seq(S), NEW off \in Nat, NEW a \in Seq(S), NEW b \in Seq(S), off <= Len(v)
    PROVE  /\ off + Len(a) <= Len(Overwritten(v, off, a))
           /\ Overwritten(Overwritten(v, off, a), off + Len(a), b) = Overwritten(v, off, a \o b)
<1> DEFINE w == Overwritten(v, off, a)
           x == Overwritten(w, off + Len(a), b)
           y == Overwritten(v, off, a \o b)
<1>1. Len(v) \in Nat /\ Len(a) \in Nat /\ Len(b) \in Nat /\ off + Len(a) \in Nat
  BY LenProperties
<1>2. /\ w \in Seq(S)
      /\ Len(w) = IF Len(v) < off + Len(a) THEN off + Len(a) ELSE Len(v)
      /\ \A i \in 1 .. Len(w) : w[i] = IF off < i /\ i <= off + Len(a) THEN a[i - off] ELSE v[i]
  BY OverwrittenIs
<1>3. off + Len(a) <= Len(w)
  BY <1>1, <1>2
<1>4. /\ a \o b \in Seq(S) /\ Len(a \o b) = Len(a) + Len(b)
      /\ \A i \in 1 .. Len(a) + Len(b) : (a \o b)[i] = IF i <= Len(a) THEN a[i] ELSE b[i - Len(a)]
  BY ConcatProperties
<1> DEFINE c == a \o b
<1> HIDE DEF w, c
<1>5. /\ x \in Seq(S)
      /\ Len(x) = IF Len(w) < off + Len(a) + Len(b) THEN off + Len(a) + Len(b) ELSE Len(w)
      /\ \A i \in 1 .. Len(x) : x[i] = IF off + Len(a) < i /\ i <= off + Len(a) + Len(b)
                                       THEN b[i - (off + Len(a))] ELSE w[i]
  BY <1>1, <1>2, <1>3, OverwrittenIs
<1>6. /\ y \in Seq(S)
      /\ Len(y) = IF Len(v) < off + Len(c) THEN off + Len(c) ELSE Len(v)
      /\ \A i \in 1 .. Len(y) : y[i] = IF off < i /\ i <= off + Len(c) THEN c[i - off] ELSE v[i]
  <2>1. c \in Seq(S)
    BY <1>4 DEF c
  <2>2. y = Overwritten(v, off, c)
    BY DEF c
  <2> HIDE DEF y
  <2> QED
    BY <2>1, <2>2, OverwrittenIs
<1>7. Len(c) = Len(a) + Len(b) /\ \A i \in 1 .. Len(a) + Len(b) : c[i] = IF i <= Len(a) THEN a[i] ELSE b[i - Len(a)]
  BY <1>4 DEF c
<1> HIDE DEF x, y
<1>8. Len(x) = Len(y)
  <2>1. off + Len(c) = off + Len(a) + Len(b)
    BY <1>1, <1>7
  <2>2. CASE Len(v) < off + Len(a)
    <3>1. Len(w) = off + Len(a)
      BY <2>2, <1>2
    <3>2. Len(x) = off + Len(a) + Len(b)
      BY <3>1, <1>5, <1>1
    <3>3. Len(y) = off + Len(a) + Len(b)
      <4>1. CASE Len(v) < off + Len(c)
        BY <4>1, <2>1, <1>6
      <4>2. CASE ~(Len(v) < off + Len(c))
        BY <4>2, <2>1, <2>2, <1>1
      <4> QED
        BY <4>1, <4>2
    <3> QED
      BY <3>2, <3>3
  <2>3. CASE ~(Len(v) < off + Len(a))
    <3>1. Len(w) = Len(v)
      BY <2>3, <1>2
    <3> QED
      BY <3>1, <2>1, <1>5, <1>6
  <2> QED
    BY <2>2, <2>3
<1>9. ASSUME NEW i \in 1 .. Len(x) PROVE x[i] = y[i]
  <2>1. i \in Nat /\ i >= 1 /\ Len(x) \in Nat /\ i \in 1 .. Len(y)
    BY <1>8, <1>5, LenProperties
  <2>2. CASE off < i /\ i <= off + Len(a)
    <3>1. i \in 1 .. Len(w) /\ ~(off + Len(a) < i) /\ i - off \in 1 .. Len(a) + Len(b) /\ i - off <= Len(a)
      BY <2>1, <2>2, <1>1, <1>2
    <3>2. x[i] = a[i - off]
      BY <3>1, <2>2, <1>5, <1>2
    <3>3. i <= off + Len(c)
      BY <2>2, <2>1, <1>1, <1>7
    <3>4. y[i] = c[i - off]
      BY <3>3, <2>1, <2>2, <1>6
    <3>5. c[i - off] = a[i - off]
      BY <3>1, <1>7
    <3> QED
      BY <3>2, <3>4, <3>5
  <2>3. CASE off + Len(a) < i /\ i <= off + Len(a) + Len(b)
    <3>1. i - off \in 1 .. Len(a) + Len(b) /\ ~(i - off <= Len(a)) /\ off < i
      BY <2>1, <2>3, <1>1
    <3>2. x[i] = b[i - (off + Len(a))]
      BY <2>3, <1>5
    <3>3. i <= off + Len(c)
      BY <2>3, <2>1, <1>1, <1>7
    <3>4. y[i] = c[i - off]
      BY <3>1, <3>3, <2>1, <1>6
    <3>5. c[i - off] = b[i - off - Len(a)] /\ i - off - Len(a) = i - (off + Len(a))
      BY <3>1, <1>7, <2>1, <1>1
    <3> QED
      BY <3>2, <3>4, <3>5
  <2>4. CASE i <= off \/ off + Len(a) + Len(b) < i
    <3>1. i \in 1 .. Len(w)
      BY <2>1, <2>4, <1>1, <1>2, <1>5
    <3>2. ~(off + Len(a) < i /\ i <= off + Len(a) + Len(b)) /\ ~(off < i /\ i <= off + Len(a))
      BY <2>1, <2>4, <1>1
    <3>3. x[i] = w[i] /\ w[i] = v[i]
      BY <3>1, <3>2, <1>5, <1>2
    <3>4. ~(off < i /\ i <= off + Len(c))
      BY <2>1, <2>4, <1>1, <1>7
    <3>5. y[i] = v[i]
      BY <3>4, <2>1, <1>6
    <3> QED
      BY <3>3, <3>5
  <2> QED
    BY <2>1, <2>2, <2>3, <2>4, <1>1
<1>10. x = y
  BY <1>5, <1>6, <1>8, <1>9, SeqEqual
<1> QED
  BY <1>3, <1>10 DEF x, y, w, c
-----------------------------------------------------------------------------
(* One command, and two that are one. *)

LEMMA CmdsAre ==
    ASSUME NEW c \in Cmds
    PROVE  \/ c.op = "push" /\ c.type \in Types /\ c = Push(c.type)
           \/ c.op = "pop" /\ c = Pop
           \/ c.op = "update" /\ c \in Updates
<1>1. CASE c \in {Push(t) : t \in Types}
  BY <1>1 DEF Push
<1>2. CASE c = Pop
  BY <1>2 DEF Pop
<1>3. CASE c \in Updates
  BY <1>3 DEF Updates
<1> QED
  BY <1>1, <1>2, <1>3 DEF Cmds

\* An update that is taken, and the stack it makes.
Takes(stack, c) ==
    stack # <<>> /\ Last(stack).type = c.type /\ c.off <= Len(Last(stack).items)

LEMMA Top ==
    ASSUME NEW stack \in Stacks, stack # <<>>
    PROVE  /\ Len(stack) \in Nat /\ Len(stack) \in 1 .. Len(stack) /\ Last(stack) = stack[Len(stack)]
           /\ Last(stack) \in Values /\ Last(stack).items \in Seq(Items) /\ Last(stack).type \in Types
           /\ \A v \in Values : [stack EXCEPT ![Len(stack)] = v] \in Stacks
<1>1. Len(stack) \in Nat /\ Len(stack) \in 1 .. Len(stack)
  BY EmptySeq, LenProperties DEF Stacks
<1>2. Last(stack) = stack[Len(stack)] /\ Last(stack) \in Values
  BY <1>1, ElementOfSeq DEF Last, Stacks
<1>3. ASSUME NEW v \in Values PROVE [stack EXCEPT ![Len(stack)] = v] \in Stacks
  BY <1>1, ExceptSeq DEF Stacks
<1> QED
  BY <1>1, <1>2, <1>3 DEF Values

LEMMA UpdateIs ==
    ASSUME NEW stack \in Stacks, NEW c \in Updates
    PROVE  /\ ~Takes(stack, c) => Applied(stack, c) = Refused(stack)
           /\ Takes(stack, c) =>
                 LET v == [type  |-> c.type,
                           items |-> Overwritten(Last(stack).items, c.off, c.items)]
                 IN  Applied(stack, c) = Done([stack EXCEPT ![Len(stack)] = v])
<1>1. c.op = "update"
  BY DEF Updates
<1>2. Applied(stack, c) = cmd_update_stack_top(stack, c)
  BY <1>1 DEF Applied
<1>3. ASSUME ~Takes(stack, c) PROVE Applied(stack, c) = Refused(stack)
  <2>1. CASE stack = <<>> \/ Last(stack).type # c.type
    BY <2>1, <1>2 DEF cmd_update_stack_top
  <2>2. CASE stack # <<>> /\ ~(c.off <= Len(Last(stack).items))
    <3>1. c.off \in Nat /\ Len(Last(stack).items) \in Nat
      BY <2>2, Top, LenProperties DEF Updates
    <3>2. c.off > Len(Last(stack).items)
      BY <3>1, <2>2
    <3> QED
      BY <3>2, <1>2 DEF cmd_update_stack_top
  <2> QED
    BY <1>3, <2>1, <2>2 DEF Takes
<1>4. ASSUME Takes(stack, c)
      PROVE  Applied(stack, c) =
                Done([stack EXCEPT ![Len(stack)] =
                        [type |-> c.type, items |-> Overwritten(Last(stack).items, c.off, c.items)]])
  <2>1. stack # <<>> /\ Last(stack).type = c.type /\ c.off <= Len(Last(stack).items)
    BY <1>4 DEF Takes
  <2>2. c.off \in Nat /\ Len(Last(stack).items) \in Nat
    BY <2>1, Top, LenProperties DEF Updates
  <2>3. ~(c.off > Len(Last(stack).items))
    BY <2>1, <2>2
  <2> DEFINE w == Overwritten(Last(stack).items, c.off, c.items)
  <2>4. Applied(stack, c) = Done([stack EXCEPT ![Len(stack)].items = Overwritten(@, c.off, c.items)])
    BY <2>1, <2>3, <1>2 DEF cmd_update_stack_top
  <2>5. stack[Len(stack)].items = Last(stack).items /\ stack[Len(stack)] \in Values
        /\ stack[Len(stack)].type = c.type
    BY <2>1, Top
  <2>6. [stack[Len(stack)] EXCEPT !.items = w] = [type |-> c.type, items |-> w]
    <3> HIDE DEF w
    <3> QED
      BY <2>5 DEF Values
  <2>7. [stack EXCEPT ![Len(stack)].items = Overwritten(@, c.off, c.items)]
          = [stack EXCEPT ![Len(stack)] = [stack[Len(stack)] EXCEPT !.items = w]]
    BY <2>5
  <2> HIDE DEF w
  <2>8. Applied(stack, c) = Done([stack EXCEPT ![Len(stack)] = [type |-> c.type, items |-> w]])
    BY <2>4, <2>6, <2>7
  <2> QED
    BY <2>8 DEF w
<1> QED
  BY <1>3, <1>4

LEMMA NullTyped ==
    ASSUME NEW t \in Types
    PROVE  Null(t) \in Values
<1>1. <<>> \in Seq(Items)
  BY EmptySeq
<1> QED
  BY <1>1 DEF Null, Values

LEMMA AppliedTyped ==
    ASSUME NEW stack \in Stacks, NEW c \in Cmds
    PROVE  Applied(stack, c) \in Results
<1>1. CASE c.op = "push" /\ c.type \in Types /\ c = Push(c.type)
  <2>1. Applied(stack, c) = Done(Append(stack, Null(c.type)))
    BY <1>1 DEF Applied, cmd_push_stack
  <2>2. Null(c.type) \in Values
    BY <1>1, NullTyped
  <2>3. Append(stack, Null(c.type)) \in Stacks
    BY <2>2, AppendProperties DEF Stacks
  <2> QED
    BY <2>1, <2>3 DEF Done, Results
<1>2. CASE c = Pop /\ c.op = "pop"
  <2>1. Applied(stack, c) = Done(IF stack = <<>> THEN stack ELSE Front(stack))
    BY <1>2 DEF Applied, cmd_pop_stack
  <2>2. stack # <<>> => Front(stack) \in Stacks
    <3>1. Len(stack) \in Nat /\ \A i \in 1 .. Len(stack) - 1 : stack[i] \in Values
      BY LenProperties, ElementOfSeq DEF Stacks
    <3> QED
      BY <3>1, SubSeqProperties DEF Front, Stacks
  <2> QED
    BY <2>1, <2>2 DEF Done, Results
<1>3. CASE c \in Updates
  <2>1. CASE ~Takes(stack, c)
    <3>1. Applied(stack, c) = Refused(stack)
      BY <1>3, <2>1, UpdateIs
    <3> QED
      BY <3>1 DEF Refused, Results
  <2>2. CASE Takes(stack, c)
    <3> DEFINE w == Overwritten(Last(stack).items, c.off, c.items)
               v == [type |-> c.type, items |-> w]
    <3>1. stack # <<>> /\ c.off <= Len(Last(stack).items)
      BY <2>2 DEF Takes
    <3>2. c.off \in Nat /\ c.items \in Seq(Items) /\ c.type \in Types
      BY <1>3 DEF Updates
    <3>3. w \in Seq(Items)
      BY <3>1, <3>2, Top, OverwrittenIs
    <3>4. v \in Values
      BY <3>2, <3>3 DEF Values
    <3>5. Applied(stack, c) = Done([stack EXCEPT ![Len(stack)] = v])
      BY <1>3, <2>2, UpdateIs
    <3> HIDE DEF v
    <3>6. [stack EXCEPT ![Len(stack)] = v] \in Stacks
      BY <3>1, <3>4, Top
    <3> QED
      BY <3>5, <3>6 DEF Done, Results
  <2> QED
    BY <2>1, <2>2
<1> QED
  BY <1>1, <1>2, <1>3, CmdsAre

LEMMA NextTyped ==
    ASSUME NEW r \in Results, NEW c \in Cmds
    PROVE  AppliedNext(r, c) \in Results
<1>1. r.stack \in Stacks
  BY DEF Results
<1> QED
  BY <1>1, AppliedTyped DEF AppliedNext

LEMMA CmdTyped ==
    ASSUME NEW stack \in Stacks, NEW f \in Seq(Cmds)
    PROVE  cmd_update_stack(stack, f) \in Results
<1>1. Len(f) \in Nat /\ \A i \in 1 .. Len(f) : f[i] \in Cmds
  BY LenProperties, ElementOfSeq
<1>2. PICK r : cmd_update_stack(stack, f) = r[Len(f)] /\ Results1(stack, f, r)
  BY <1>1, ResultsExist
<1> DEFINE S == {n \in Nat : n <= Len(f) => r[n] \in Results}
<1>3. 0 \in S
  BY <1>2 DEF Results1, Done, Results
<1>4. ASSUME NEW n \in Nat, n \in S PROVE n + 1 \in S
  <2>1. SUFFICES ASSUME n + 1 <= Len(f) PROVE r[n + 1] \in Results
    OBVIOUS
  <2>2. n <= Len(f) /\ n + 1 \in 1 .. Len(f) /\ n + 1 - 1 = n
    BY <2>1, <1>1
  <2>3. r[n] \in Results /\ f[n + 1] \in Cmds
    BY <1>1, <1>4, <2>2
  <2>4. r[n + 1] = AppliedNext(r[n], f[n + 1])
    BY <1>2, <2>2 DEF Results1
  <2> QED
    BY <2>3, <2>4, NextTyped
<1>5. Len(f) \in S
  <2> HIDE DEF S
  <2>1. \A n \in Nat : n \in S => n + 1 \in S
    BY <1>4
  <2>2. Nat \subseteq S
    BY <1>3, <2>1, ByInduction
  <2> QED
    BY <2>2, <1>1
<1>6. r[Len(f)] \in Results
  BY <1>1, <1>5
<1> QED
  BY <1>2, <1>6

LEMMA LongerIs ==
    ASSUME NEW u \in Updates, NEW c \in Updates
    PROVE  /\ Longer(u, c) \in Updates
           /\ Longer(u, c).type = u.type /\ Longer(u, c).off = u.off
           /\ Longer(u, c).items = u.items \o c.items
<1>1. u.items \in Seq(Items) /\ c.items \in Seq(Items)
  BY DEF Updates
<1>2. u.items \o c.items \in Seq(Items)
  BY <1>1, ConcatProperties
<1> QED
  BY <1>2 DEF Longer, Updates

\* An update that goes on where another ended, merged with it.
LEMMA MergedIsSame ==
    ASSUME NEW r \in Results, NEW u \in Updates, NEW c \in Updates, GoesOn(u, c)
    PROVE  AppliedNext(AppliedNext(r, u), c) = AppliedNext(r, Longer(u, c))
<1> DEFINE l == Longer(u, c)
<1>1. l \in Updates /\ l.type = u.type /\ l.off = u.off /\ l.items = u.items \o c.items
  BY LongerIs
<1> HIDE DEF l
<1>2. c.type = u.type /\ c.off = u.off + Len(u.items)
  BY DEF GoesOn
<1>3. /\ u.off \in Nat /\ u.items \in Seq(Items) /\ u.type \in Types
      /\ c.off \in Nat /\ c.items \in Seq(Items)
  BY DEF Updates
<1>4. CASE r.status # "ok"
  BY <1>4 DEF AppliedNext
<1>5. CASE r.status = "ok"
  <2>1. PICK s : s = r.stack /\ s \in Stacks
    BY DEF Results
  <2>2. AppliedNext(r, u) = Applied(s, u) /\ AppliedNext(r, l) = Applied(s, l)
    BY <1>5, <2>1 DEF AppliedNext
  <2>3. Takes(s, l) <=> Takes(s, u)
    BY <1>1 DEF Takes
  <2>4. CASE ~Takes(s, u)
    <3>1. Applied(s, u) = Refused(s) /\ Applied(s, l) = Refused(s)
      BY <2>1, <2>3, <2>4, <1>1, UpdateIs
    <3>2. AppliedNext(Refused(s), c) = Refused(s)
      BY DEF AppliedNext, Refused
    <3> QED
      BY <2>2, <3>1, <3>2 DEF l
  <2>5. CASE Takes(s, u)
    <3>1. s # <<>> /\ Last(s).type = u.type /\ u.off <= Len(Last(s).items)
      BY <2>5 DEF Takes
    <3>2. PICK n : n = Len(s) /\ n \in 1 .. Len(s)
      BY <3>1, <2>1, Top
    <3>3. PICK v : v = Last(s).items /\ v \in Seq(Items)
      BY <3>1, <2>1, Top
    <3>4. PICK w : w = Overwritten(v, u.off, u.items) /\ w \in Seq(Items)
      BY <3>1, <3>3, <1>3, OverwrittenIs
    <3>5. PICK z : z = Overwritten(v, u.off, u.items \o c.items)
      OBVIOUS
    <3>6. c.off <= Len(w) /\ Overwritten(w, c.off, c.items) = z
      <4>1. u.off <= Len(v)
        BY <3>1, <3>3
      <4>2. /\ u.off + Len(u.items) <= Len(w)
            /\ Overwritten(w, u.off + Len(u.items), c.items) = z
        <5>1. PICK off, a, b : off = u.off /\ a = u.items /\ b = c.items
          OBVIOUS
        <5>2. off \in Nat /\ a \in Seq(Items) /\ b \in Seq(Items) /\ v \in Seq(Items) /\ off <= Len(v)
          BY <5>1, <4>1, <3>3, <1>3
        <5>3. /\ off + Len(a) <= Len(Overwritten(v, off, a))
              /\ Overwritten(Overwritten(v, off, a), off + Len(a), b) = Overwritten(v, off, a \o b)
          BY <5>2, OverwrittenTwice
        <5> QED
          BY <5>1, <5>3, <3>4, <3>5
      <4> QED
        BY <4>2, <1>2
    <3>7. PICK s1 : s1 = [s EXCEPT ![n] = [type |-> u.type, items |-> w]]
      OBVIOUS
    <3>8. Applied(s, u) = Done(s1)
      BY <2>1, <2>5, <3>2, <3>3, <3>4, <3>7, UpdateIs
    <3>9. [type |-> u.type, items |-> w] \in Values
      BY <3>4, <1>3 DEF Values
    <3>10. s1 \in Stacks
      BY <3>1, <3>2, <3>7, <3>9, <2>1, Top
    <3>11. Len(s1) = n /\ s1 # <<>> /\ s1[n] = [type |-> u.type, items |-> w]
      <4>1. s \in Seq(Values)
        BY <2>1 DEF Stacks
      <4>2. Len(s1) = Len(s) /\ s1[n] = [type |-> u.type, items |-> w]
        BY <4>1, <3>2, <3>7, <3>9, ExceptSeq
      <4> QED
        BY <4>2, <3>2
    <3>12. Last(s1) = [type |-> u.type, items |-> w]
      BY <3>10, <3>11, Top
    <3>13. Takes(s1, c)
      BY <3>11, <3>12, <3>6, <1>2 DEF Takes
    <3>14. Applied(s1, c) = Done([s1 EXCEPT ![n] = [type |-> u.type, items |-> z]])
      <4>1. c \in Updates
        OBVIOUS
      <4>2. Applied(s1, c) = Done([s1 EXCEPT ![Len(s1)] =
              [type |-> c.type, items |-> Overwritten(Last(s1).items, c.off, c.items)]])
        BY <4>1, <3>10, <3>13, UpdateIs
      <4>3. Last(s1).items = w
        BY <3>12
      <4> QED
        BY <4>2, <4>3, <3>11, <3>6, <1>2
    <3>15. [s1 EXCEPT ![n] = [type |-> u.type, items |-> z]] = [s EXCEPT ![n] = [type |-> u.type, items |-> z]]
      <4>1. s \in Seq(Values)
        BY <2>1 DEF Stacks
      <4> QED
        BY <4>1, <3>2, <3>7
    <3>16. Applied(s, l) = Done([s EXCEPT ![n] = [type |-> u.type, items |-> z]])
      BY ZenonT(60), <2>1, <2>3, <2>5, <3>2, <3>3, <3>5, <1>1, UpdateIs
    <3>17. AppliedNext(Done(s1), c) = Applied(s1, c)
      BY DEF AppliedNext, Done
    <3> QED
      BY <2>2, <3>8, <3>14, <3>15, <3>16, <3>17 DEF l
  <2> QED
    BY <2>4, <2>5
<1> QED
  BY <1>4, <1>5

-----------------------------------------------------------------------------
(* The size of a frame. *)

Sizes(f, r) == r[0] = 0 /\ \A n \in 1 .. Len(f) : r[n] = r[n - 1] + CommandSize(f[n])

LEMMA SizesExist ==
    ASSUME NEW f, Len(f) \in Nat
    PROVE  \E r : FrameSize(f) = r[Len(f)] /\ Sizes(f, r)
<1> DEFINE upTo[n \in 0 .. Len(f)] == IF n = 0 THEN 0 ELSE upTo[n - 1] + CommandSize(f[n])
           Value(g, n) == IF n = 0 THEN 0 ELSE g[n - 1] + CommandSize(f[n])
           Def(g, m) == g = [n \in 0 .. m |-> Value(g, n)]
           S == {m \in Nat : \E g : Def(g, m)}
<1>1. FrameSize(f) = upTo[Len(f)]
  BY DEF FrameSize
<1>2. 0 \in S
  <2> DEFINE g == [n \in 0 .. 0 |-> 0]
  <2>1. Def(g, 0)
    OBVIOUS
  <2> QED
    BY <2>1
<1>3. ASSUME NEW m \in Nat, m \in S PROVE m + 1 \in S
  <2>1. PICK g : Def(g, m)
    BY <1>3
  <2> DEFINE h == [n \in 0 .. m + 1 |-> Value(g, n)]
  <2>2. ASSUME NEW n \in 0 .. m PROVE h[n] = g[n]
    <3> HIDE DEF Value
    <3>1. n \in 0 .. m + 1
      OBVIOUS
    <3>2. h[n] = Value(g, n)
      BY <3>1
    <3>3. g[n] = Value(g, n)
      BY <2>1
    <3> QED
      BY <3>2, <3>3
  <2>3. ASSUME NEW n \in 0 .. m + 1
        PROVE  Value(g, n) = Value(h, n)
    <3>1. CASE n = 0
      BY <3>1
    <3>2. CASE n # 0
      <4>1. n - 1 \in 0 .. m
        BY <3>2
      <4>2. h[n - 1] = g[n - 1]
        BY <2>2, <4>1
      <4> HIDE DEF h
      <4> QED
        BY <3>2, <4>2
    <3> QED
      BY <3>1, <3>2
  <2>4. Def(h, m + 1)
    <3> HIDE DEF Value
    <3> QED
      BY <2>3
  <2>5. m + 1 \in Nat
    OBVIOUS
  <2> HIDE DEF h, Def
  <2> QED
    BY <2>4, <2>5
<1>4. Len(f) \in S
  <2> HIDE DEF S
  <2>1. \A m \in Nat : m \in S => m + 1 \in S
    BY <1>3
  <2>2. Nat \subseteq S
    BY <1>2, <2>1, ByInduction
  <2> QED
    BY <2>2
<1>5. \E g : Def(g, Len(f))
  BY <1>4
<1>6. Def(upTo, Len(f))
  BY <1>5
<1> HIDE DEF upTo
<1>7. upTo[0] = 0
  BY <1>6
<1>8. ASSUME NEW n \in 1 .. Len(f)
      PROVE  upTo[n] = upTo[n - 1] + CommandSize(f[n])
  <2>1. n \in 0 .. Len(f) /\ n # 0
    OBVIOUS
  <2>2. upTo[n] = Value(upTo, n)
    <3> HIDE DEF Value
    <3> QED
      BY <1>6, <2>1
  <2> QED
    BY <2>1, <2>2
<1> QED
  BY <1>1, <1>7, <1>8 DEF Sizes

LEMMA CommandSizeTyped ==
    ASSUME NEW c \in Cmds
    PROVE  CommandSize(c) \in Nat
<1>1. CASE c \in Updates
  <2>1. Len(c.items) \in Nat
    BY <1>1, LenProperties DEF Updates
  <2> QED
    BY <2>1 DEF CommandSize
<1>2. CASE c.op # "update"
  BY <1>2 DEF CommandSize
<1> QED
  BY <1>1, <1>2, CmdsAre

LEMMA FrameSizeTyped ==
    ASSUME NEW f \in Seq(Cmds)
    PROVE  FrameSize(f) \in Nat
<1>1. Len(f) \in Nat /\ \A i \in 1 .. Len(f) : CommandSize(f[i]) \in Nat
  BY LenProperties, ElementOfSeq, CommandSizeTyped
<1>2. PICK r : FrameSize(f) = r[Len(f)] /\ Sizes(f, r)
  BY <1>1, SizesExist
<1> DEFINE S == {n \in Nat : n <= Len(f) => r[n] \in Nat}
<1>3. 0 \in S
  BY <1>2 DEF Sizes
<1>4. ASSUME NEW n \in Nat, n \in S PROVE n + 1 \in S
  <2>1. SUFFICES ASSUME n + 1 <= Len(f) PROVE r[n + 1] \in Nat
    OBVIOUS
  <2>2. n <= Len(f) /\ n + 1 \in 1 .. Len(f) /\ n + 1 - 1 = n
    BY <2>1, <1>1
  <2>3. r[n] \in Nat /\ CommandSize(f[n + 1]) \in Nat
    BY <1>1, <1>4, <2>2
  <2>4. r[n + 1] = r[n] + CommandSize(f[n + 1])
    BY <1>2, <2>2 DEF Sizes
  <2> QED
    BY <2>3, <2>4
<1>5. Len(f) \in S
  <2> HIDE DEF S
  <2>1. \A n \in Nat : n \in S => n + 1 \in S
    BY <1>4
  <2>2. Nat \subseteq S
    BY <1>3, <2>1, ByInduction
  <2> QED
    BY <2>2, <1>1
<1> QED
  BY <1>1, <1>2, <1>5

LEMMA SizeEmpty == FrameSize(<<>>) = 0
<1>1. Len(<<>>) = 0
  OBVIOUS
<1>2. PICK r : FrameSize(<<>>) = r[Len(<<>>)] /\ Sizes(<<>>, r)
  BY <1>1, SizesExist
<1> QED
  BY <1>1, <1>2 DEF Sizes

LEMMA SizeAppend ==
    ASSUME NEW C, NEW f \in Seq(C), NEW c \in C
    PROVE  FrameSize(Append(f, c)) = FrameSize(f) + CommandSize(c)
<1> DEFINE g == Append(f, c)
<1>1. /\ Len(f) \in Nat /\ Len(g) = Len(f) + 1 /\ g[Len(f) + 1] = c
      /\ \A n \in 1 .. Len(f) : f[n] = g[n]
  BY AppendProperties, LenProperties
<1> HIDE DEF g
<1>2. PICK r : FrameSize(f) = r[Len(f)] /\ Sizes(f, r)
  BY <1>1, SizesExist
<1>3. Len(g) \in Nat
  BY <1>1
<1>4. PICK q : FrameSize(g) = q[Len(g)] /\ Sizes(g, q)
  BY <1>3, SizesExist
<1> DEFINE S == {n \in Nat : n <= Len(f) => r[n] = q[n]}
<1>5. 0 \in S
  BY <1>2, <1>4 DEF Sizes
<1>6. ASSUME NEW n \in Nat, n \in S PROVE n + 1 \in S
  <2>1. SUFFICES ASSUME n + 1 <= Len(f) PROVE r[n + 1] = q[n + 1]
    OBVIOUS
  <2>2. n <= Len(f) /\ n + 1 \in 1 .. Len(f) /\ n + 1 \in 1 .. Len(g) /\ n + 1 - 1 = n
    BY <2>1, <1>1
  <2>3. r[n] = q[n] /\ f[n + 1] = g[n + 1]
    BY <1>1, <1>6, <2>2
  <2>4. r[n + 1] = r[n] + CommandSize(f[n + 1])
    BY <1>2, <2>2 DEF Sizes
  <2>5. q[n + 1] = q[n] + CommandSize(g[n + 1])
    BY <1>4, <2>2 DEF Sizes
  <2> QED
    BY <2>3, <2>4, <2>5
<1>7. Len(f) \in S
  <2> HIDE DEF S
  <2>1. \A n \in Nat : n \in S => n + 1 \in S
    BY <1>6
  <2>2. Nat \subseteq S
    BY <1>5, <2>1, ByInduction
  <2> QED
    BY <2>2, <1>1
<1>8. r[Len(f)] = q[Len(f)]
  BY <1>1, <1>7
<1>9. q[Len(f) + 1] = q[Len(f)] + CommandSize(c)
  <2>1. Len(f) + 1 \in 1 .. Len(g) /\ Len(f) + 1 - 1 = Len(f)
    BY <1>1
  <2> QED
    BY <2>1, <1>1, <1>4 DEF Sizes
<1> QED
  BY <1>1, <1>2, <1>4, <1>8, <1>9 DEF g

-----------------------------------------------------------------------------
(* A frame whose last command, an update, takes what goes on behind it. *)

LEMMA MergedFrame ==
    ASSUME NEW f \in Seq(Cmds), f # <<>>, NEW c \in Updates,
           f[Len(f)] \in Updates, GoesOn(f[Len(f)], c)
    PROVE  LET g == [f EXCEPT ![Len(f)] = Longer(f[Len(f)], c)] IN
           /\ g \in Seq(Cmds)
           /\ FrameSize(g) = FrameSize(f) + Len(c.items)
           /\ \A stack \in Stacks :
                 cmd_update_stack(stack, g) = AppliedNext(cmd_update_stack(stack, f), c)
<1> DEFINE g == [f EXCEPT ![Len(f)] = Longer(f[Len(f)], c)]
<1>1. PICK n : n = Len(f) /\ n \in Nat /\ n \in 1 .. Len(f)
  BY EmptySeq, LenProperties
<1>2. PICK u : u = f[n] /\ u \in Updates /\ GoesOn(u, c)
  BY <1>1
<1>3. PICK l : l = Longer(u, c) /\ l \in Updates /\ l.items = u.items \o c.items
  <2>1. /\ Longer(u, c) \in Updates
        /\ Longer(u, c).items = u.items \o c.items
    BY <1>2, LongerIs
  <2> QED
    BY <2>1
<1>4. g = [f EXCEPT ![n] = l]
  BY <1>1, <1>2, <1>3
<1> HIDE DEF g
<1>5. l \in Cmds /\ u \in Cmds
  BY <1>2, <1>3 DEF Cmds
<1>6. g \in Seq(Cmds) /\ Len(g) = n /\ \A i \in 1 .. n : g[i] = IF i = n THEN l ELSE f[i]
  BY <1>1, <1>4, <1>5, ExceptSeq
<1>7. PICK p : /\ p \in Seq(Cmds) /\ Len(p) = n - 1
               /\ \A i \in 1 .. n - 1 : p[i] = f[i]
  <2> DEFINE p == SubSeq(f, 1, n - 1)
  <2>1. n - 1 \in Nat /\ \A i \in 1 .. n - 1 : f[i] \in Cmds
    BY <1>1, ElementOfSeq
  <2>2. /\ p \in Seq(Cmds) /\ Len(p) = IF 1 <= n - 1 THEN n - 1 - 1 + 1 ELSE 0
        /\ \A i \in 1 .. n - 1 - 1 + 1 : p[i] = f[1 + i - 1]
    BY <2>1, SubSeqProperties
  <2>3. Len(p) = n - 1
    BY <2>2, <2>1
  <2>4. ASSUME NEW i \in 1 .. n - 1 PROVE p[i] = f[i]
    <3>1. i \in 1 .. n - 1 - 1 + 1 /\ 1 + i - 1 = i
      BY <1>1
    <3> QED
      BY <3>1, <2>2
  <2> HIDE DEF p
  <2> QED
    BY <2>2, <2>3, <2>4
<1>8. ASSUME NEW h \in Seq(Cmds), NEW d \in Cmds, Len(h) = n, h[n] = d,
             \A i \in 1 .. n - 1 : h[i] = f[i]
      PROVE  h = Append(p, d)
  <2>1. /\ Append(p, d) \in Seq(Cmds) /\ Len(Append(p, d)) = Len(p) + 1
        /\ \A i \in 1 .. Len(p) : Append(p, d)[i] = p[i]
        /\ Append(p, d)[Len(p) + 1] = d
    BY <1>7, AppendProperties
  <2>2. Len(Append(p, d)) = n /\ Len(p) + 1 = n
    BY <2>1, <1>7, <1>1
  <2>3. ASSUME NEW i \in 1 .. Len(h) PROVE h[i] = Append(p, d)[i]
    <3>1. CASE i = n
      BY <3>1, <1>8, <2>1, <2>2
    <3>2. CASE i # n
      <4>1. i \in 1 .. n - 1 /\ i \in 1 .. Len(p)
        BY <3>2, <1>8, <1>7, <1>1
      <4> QED
        BY <4>1, <1>8, <1>7, <2>1
    <3> QED
      BY <3>1, <3>2
  <2> QED
    BY <1>8, <2>1, <2>2, <2>3, SeqEqual
<1>9. f = Append(p, u)
  BY <1>1, <1>2, <1>5, <1>8
<1>10. g = Append(p, l)
  <2>1. \A i \in 1 .. n - 1 : g[i] = f[i]
    BY <1>6, <1>1
  <2>2. g[n] = l
    BY <1>6, <1>1
  <2> QED
    BY <1>5, <1>6, <1>8, <2>1, <2>2
<1>11. FrameSize(g) = FrameSize(f) + Len(c.items)
  <2>1. FrameSize(f) = FrameSize(p) + CommandSize(u) /\ FrameSize(g) = FrameSize(p) + CommandSize(l)
    BY <1>5, <1>7, <1>9, <1>10, SizeAppend
  <2>2. u.op = "update" /\ l.op = "update" /\ u.items \in Seq(Items) /\ c.items \in Seq(Items)
    BY <1>2, <1>3 DEF Updates
  <2>3. CommandSize(u) = 1 + Len(u.items) /\ CommandSize(l) = 1 + Len(l.items)
    BY <2>2 DEF CommandSize
  <2>4. Len(l.items) = Len(u.items) + Len(c.items) /\ Len(u.items) \in Nat /\ Len(c.items) \in Nat
    BY <2>2, <1>3, ConcatProperties, LenProperties
  <2>5. FrameSize(p) \in Nat
    BY <1>7, FrameSizeTyped
  <2>6. CommandSize(l) = CommandSize(u) + Len(c.items) /\ CommandSize(u) \in Nat
    <3>1. \A a, b \in Nat : 1 + (a + b) = (1 + a) + b /\ 1 + a \in Nat
      OBVIOUS
    <3> QED
      BY <2>3, <2>4, <3>1
  <2> QED
    BY <2>1, <2>4, <2>5, <2>6
<1>12. ASSUME NEW stack \in Stacks
       PROVE  cmd_update_stack(stack, g) = AppliedNext(cmd_update_stack(stack, f), c)
  <2>1. PICK r : r = cmd_update_stack(stack, p) /\ r \in Results
    BY <1>7, CmdTyped
  <2>2. cmd_update_stack(stack, g) = AppliedNext(r, l)
    BY <2>1, <1>5, <1>7, <1>10, CmdAppend
  <2>3. cmd_update_stack(stack, f) = AppliedNext(r, u)
    BY <2>1, <1>5, <1>7, <1>9, CmdAppend
  <2>4. AppliedNext(AppliedNext(r, u), c) = AppliedNext(r, l)
    BY <2>1, <1>2, <1>3, MergedIsSame
  <2> QED
    BY <2>2, <2>3, <2>4
<1> QED
  BY <1>6, <1>11, <1>12 DEF g

-----------------------------------------------------------------------------
(* The invariant. *)

Frames   == Seq(Cmds \cup {Garbage})
Lists    == [index : Nat, count : Nat, left : Seq(Nat), valid : BOOLEAN]
Handles  == [open : BOOLEAN, id : Nat, building : BOOLEAN, frame : Frames, last : Nat \ {0},
             lastRsp : {"none", "list", "read"}, data : Seq(Values), list : Lists]
Sessions == [up : BOOLEAN, id : Nat, stack : Stacks]

\* What the next steps of a call depend on: the command WUpdateValue or another
\* has yet to add, or that WFetchGlobal wants a name.
Waits ==
    {NoCall}
    \cup [cmd : {"ping", "execute", "read", "update"}, then : {<<>>}]
    \cup [cmd : {"list"}, then : {<<>>, <<"fetch">>}]
    \cup [cmd : {"update"}, then : {<<c>> : c \in {d \in Cmds : CommandSize(d) <= Room}}]

BodyTyped(m) ==
    /\ m.way \in {"request", "answer"}
    /\ m.way = "request" /\ m.cmd = "update" => m.body \in Frames
    /\ m.way = "request" /\ m.cmd = "list" => m.body \in Nat
    /\ m.way = "answer" /\ m.cmd = "list" => m.body \in Lists
    /\ m.way = "answer" /\ m.cmd = "read" => m.body \in Seq(Values)

Typed ==
    /\ client \in Handles
    /\ server \in Sessions
    /\ waits \in Waits
    /\ asked \in Seq(Cmds)
    /\ garbled \in BOOLEAN
    /\ fetched \in Seq(Nat)
    /\ wire # <<>> => BodyTyped(Head(wire))

\* Who speaks next, and the frame numbers both expect.
Conversation ==
    /\ client.open /\ waits = NoCall => wire = <<>>
    /\ waits # NoCall => client.open /\ ~client.building /\ client.frame = <<>> /\ client.list.left = <<>>
    /\ IsRequest => Head(wire).cmd = IF waits = NoCall THEN "close" ELSE waits.cmd
    /\ IsAnswer => waits # NoCall /\ Head(wire).cmd = waits.cmd /\ Head(wire).id = client.id
    /\ server.up /\ client.open /\ waits = NoCall => client.id = server.id
    /\ server.up /\ client.open /\ waits # NoCall => wire # <<>>
    /\ server.up /\ client.open /\ waits # NoCall /\ IsRequest =>
          Head(wire).id = server.id /\ client.id = Next1(server.id)
    /\ server.up /\ client.open /\ waits # NoCall /\ IsAnswer => client.id = server.id

\* What is in the frame or under way does to every stack what was asked for.
Gathered ==
    server.up /\ ~garbled /\ client.open /\ (IsAnswer => Head(wire).cmd # "update") =>
        /\ Pending \in Seq(Cmds)
        /\ FrameSize(Pending) <= Room
        /\ \A stack \in Stacks : cmd_update_stack(stack, Pending) = cmd_update_stack(stack, asked)

\* The value the client keeps, or is about to get, is the one on top.
Current ==
    /\ server.up /\ client.open /\ waits = NoCall /\ HasValue =>
          server.stack # <<>> /\ client.data = <<Last(server.stack)>>
    /\ server.up /\ IsAnswer /\ Head(wire).cmd = "read" /\ Head(wire).body # Nothing =>
          server.stack # <<>> /\ Head(wire).body = <<Last(server.stack)>>

\* The names of a list are those behind its index, and the index counts the
\* names that were fetched.
From(list) == list.left = [i \in 1 .. Len(list.left) |-> list.index + i]

Listed ==
    /\ fetched = [i \in 1 .. Len(fetched) |-> i]
    /\ /\ client.open /\ waits = NoCall /\ client.lastRsp = "list" /\ client.list.valid
       /\ client.building => client.frame = <<>>
       => /\ From(client.list)
          /\ server.up \/ client.list.left # <<>> => client.list.index = Len(fetched)
    /\ waits # NoCall /\ waits.cmd = "list" =>
          /\ waits.then = <<>> => fetched = <<>>
          /\ server.up /\ IsRequest => Head(wire).body = Len(fetched)
          /\ IsAnswer /\ Head(wire).status = "ok" =>
                From(Head(wire).body) /\ Head(wire).body.index = Len(fetched)

CInv == Typed /\ Conversation /\ Gathered /\ Current /\ Listed

-----------------------------------------------------------------------------
(* A command that is put into the frame. *)

LEMMA Pushes ==
    ASSUME NEW type \in Types
    PROVE  Push(type) \in Cmds
BY DEF Cmds

LEMMA UpdatesAre ==
    ASSUME NEW type \in Types, NEW off \in Nat, NEW it \in Items
    PROVE  Update(type, off, it) \in Cmds
<1>1. <<it>> \in Seq(Items)
  OBVIOUS
<1>2. Update(type, off, it) \in Updates
  BY <1>1 DEF Update, Updates
<1> QED
  BY <1>2 DEF Cmds

LEMMA CmdInFrame ==
    ASSUME NEW c \in Cmds \cup {Garbage}, c.op = "update"
    PROVE  c \in Updates
<1>1. c # Garbage
  BY DEF Garbage
<1> QED
  BY <1>1, CmdsAre

LEMMA AddedTyped ==
    ASSUME NEW h \in Handles, NEW c \in Cmds
    PROVE  LET g == Added(h, c) IN
           /\ g \in Handles
           /\ g.open = h.open /\ g.id = h.id /\ g.lastRsp = h.lastRsp /\ g.data = h.data
           /\ g.building = TRUE /\ g.frame # <<>>
<1> DEFINE g == Added(h, c)
<1> SUFFICES /\ g \in Handles
             /\ g.open = h.open /\ g.id = h.id /\ g.lastRsp = h.lastRsp /\ g.data = h.data
             /\ g.building = TRUE /\ g.frame # <<>>
  OBVIOUS
<1>1. /\ h.frame \in Frames /\ c \in Cmds \cup {Garbage} /\ h.last \in Nat \ {0}
      /\ h.list \in Lists /\ Len(h.frame) \in Nat
  BY LenProperties DEF Handles, Frames
<1>2. Append(h.frame, c) \in Frames /\ Append(h.frame, c) # <<>>
  BY <1>1, AppendProperties DEF Frames
<1>3. NoList \in Lists
  BY EmptySeq DEF NoList, Lists
<1>4. CASE c.op # "update"
  <2>1. g = [h EXCEPT !.frame = Append(@, c), !.last = 1, !.list = NoList, !.building = TRUE]
    BY <1>4 DEF Added
  <2>2. 1 \in Nat \ {0}
    OBVIOUS
  <2> HIDE DEF g
  <2>3. g \in Handles /\ g.frame = Append(h.frame, c) /\ g.building = TRUE
    BY <2>1, <2>2, <1>2, <1>3 DEF Handles
  <2>4. g.open = h.open /\ g.id = h.id /\ g.lastRsp = h.lastRsp /\ g.data = h.data
    BY <2>1 DEF Handles
  <2> QED
    BY <2>3, <2>4, <1>2
<1>5. CASE c.op = "update" /\ (MergesText(h, c) \/ MergesArray(h, c))
  <2>1. \E f : f \in Frames /\ f # <<>> /\ g = [h EXCEPT !.frame = f, !.building = TRUE]
    <3>0. c \in Updates
      BY <1>5, CmdsAre
    <3>1. <<Garbage>> \in Frames /\ <<Garbage>> # <<>>
      BY DEF Frames
    <3>2. CASE MergesText(h, c)
      <4>1. g = [h EXCEPT !.frame = MergedText(h, c), !.building = TRUE]
        BY <1>5, <3>2 DEF Added
      <4>2. h.last <= Len(h.frame) /\ h.frame[1].op = "update"
        BY <3>2 DEF MergesText, IsUpdate, GoesOn
      <4>3. 1 \in 1 .. Len(h.frame)
        BY <4>2, <1>1
      <4>4. h.frame[1] \in Updates
        BY <4>2, <4>3, <1>1, ElementOfSeq, CmdInFrame DEF Frames
      <4>5. Longer(h.frame[1], c) \in Cmds \cup {Garbage}
        BY <4>4, <3>0, LongerIs DEF Cmds
      <4>6. <<Longer(h.frame[1], c)>> \in Frames /\ <<Longer(h.frame[1], c)>> # <<>>
        BY <4>5 DEF Frames
      <4>7. MergedText(h, c) \in Frames /\ MergedText(h, c) # <<>>
        BY <4>6, <3>1 DEF MergedText
      <4> HIDE DEF g
      <4> QED
        BY <4>1, <4>7
    <3>3. CASE ~MergesText(h, c) /\ MergesArray(h, c)
      <4>1. g = [h EXCEPT !.frame = MergedArray(h, c), !.building = TRUE]
        BY <1>5, <3>3 DEF Added
      <4>2. h.last <= Len(h.frame) /\ h.frame[h.last].op = "update"
        BY <3>3 DEF MergesArray, IsUpdate, GoesOn
      <4>3. h.last \in 1 .. Len(h.frame)
        BY <4>2, <1>1
      <4>4. h.frame[h.last] \in Updates
        BY <4>2, <4>3, <1>1, ElementOfSeq, CmdInFrame DEF Frames
      <4>5. PICK l : l = Longer(h.frame[h.last], c) /\ l \in Cmds \cup {Garbage}
        BY <4>4, <3>0, LongerIs DEF Cmds
      <4>6. /\ [h.frame EXCEPT ![h.last] = l] \in Frames
            /\ Len([h.frame EXCEPT ![h.last] = l]) = Len(h.frame)
        BY <4>3, <4>5, <1>1, ExceptSeq DEF Frames
      <4>7. [h.frame EXCEPT ![h.last] = l] # <<>>
        BY <4>6, <4>3, <1>1
      <4>8. [h.frame EXCEPT ![h.last] = Longer(@, c)] = [h.frame EXCEPT ![h.last] = l]
        BY <4>5
      <4>9. MergedArray(h, c) \in Frames /\ MergedArray(h, c) # <<>>
        BY <4>6, <4>7, <4>8, <3>1 DEF MergedArray
      <4> HIDE DEF g
      <4> QED
        BY <4>1, <4>9
    <3> QED
      BY <1>5, <3>2, <3>3
  <2>2. PICK f : f \in Frames /\ f # <<>> /\ g = [h EXCEPT !.frame = f, !.building = TRUE]
    BY <2>1
  <2> HIDE DEF g
  <2>3. g \in Handles /\ g.frame = f /\ g.building = TRUE
    BY <2>2 DEF Handles
  <2>4. g.open = h.open /\ g.id = h.id /\ g.lastRsp = h.lastRsp /\ g.data = h.data
    BY <2>2 DEF Handles
  <2> QED
    BY <2>2, <2>3, <2>4
<1>6. CASE c.op = "update" /\ ~MergesText(h, c) /\ ~MergesArray(h, c)
  <2>1. g = [h EXCEPT !.frame = Append(@, c), !.last = Len(h.frame) + 1, !.building = TRUE]
    BY <1>6 DEF Added
  <2>2. Len(h.frame) + 1 \in Nat \ {0}
    BY <1>1
  <2> HIDE DEF g
  <2>3. g \in Handles /\ g.frame = Append(h.frame, c) /\ g.building = TRUE
    BY <2>1, <2>2, <1>2 DEF Handles
  <2>4. g.open = h.open /\ g.id = h.id /\ g.lastRsp = h.lastRsp /\ g.data = h.data
    BY <2>1 DEF Handles
  <2> QED
    BY <2>3, <2>4, <1>2
<1> QED
  BY <1>4, <1>5, <1>6

\* Unless it is merged where it does not belong, the command is done after
\* those of the frame, and takes no more room than it is counted with.
LEMMA AddedIsDone ==
    ASSUME NEW h \in Handles, NEW c \in Cmds, ~MergesWrong(h, c), h.frame \in Seq(Cmds)
    PROVE  LET f == Added(h, c).frame IN
           /\ f \in Seq(Cmds)
           /\ FrameSize(f) <= FrameSize(h.frame) + CommandSize(c)
           /\ \A stack \in Stacks :
                 cmd_update_stack(stack, f) = AppliedNext(cmd_update_stack(stack, h.frame), c)
<1> DEFINE f == Added(h, c).frame
<1> SUFFICES /\ f \in Seq(Cmds)
             /\ FrameSize(f) <= FrameSize(h.frame) + CommandSize(c)
             /\ \A stack \in Stacks :
                   cmd_update_stack(stack, f) = AppliedNext(cmd_update_stack(stack, h.frame), c)
  OBVIOUS
<1>1. /\ h.last \in Nat \ {0} /\ Len(h.frame) \in Nat
      /\ FrameSize(h.frame) \in Nat /\ CommandSize(c) \in Nat
  BY LenProperties, FrameSizeTyped, CommandSizeTyped DEF Handles
<1>2. CASE c.op = "update" /\ (MergesText(h, c) \/ MergesArray(h, c))
  <2>1. c \in Updates /\ Len(c.items) \in Nat /\ CommandSize(c) = 1 + Len(c.items)
    BY <1>2, CmdsAre, LenProperties DEF Updates, CommandSize
  <2>2. h.last = Len(h.frame) /\ GoesOn(h.frame[h.last], c)
    <3>1. CASE MergesText(h, c)
      <4>1. Len(h.frame) <= 1 /\ h.last <= Len(h.frame) /\ GoesOn(h.frame[1], c)
        BY <1>1, <1>2, <3>1 DEF MergesWrong, MergesText, IsUpdate
      <4>2. \A a, b \in Nat : a # 0 /\ a <= b /\ b <= 1 => a = 1 /\ b = 1
        OBVIOUS
      <4>3. Len(h.frame) = 1 /\ h.last = 1
        BY <4>1, <4>2, <1>1
      <4> QED
        BY <4>1, <4>3
    <3>2. CASE MergesArray(h, c)
      BY <1>2, <3>2 DEF MergesWrong, MergesArray
    <3> QED
      BY <1>2, <3>1, <3>2
  <2>3. h.frame # <<>> /\ h.last \in 1 .. Len(h.frame) /\ h.frame[h.last].op = "update"
    BY <2>2, <1>1 DEF GoesOn
  <2>4. h.frame[h.last] \in Updates
    BY <2>3, ElementOfSeq, CmdsAre
  <2>5. f = [h.frame EXCEPT ![h.last] = Longer(h.frame[h.last], c)]
    <3>1. CASE MergesText(h, c)
      <4>0. ~(Len(h.frame) > 1) /\ h.last = Len(h.frame)
        BY <1>2, <2>2, <3>1 DEF MergesWrong
      <4>a. \A a \in Nat : a # 0 /\ ~(a > 1) => a = 1
        OBVIOUS
      <4>1. Len(h.frame) = 1 /\ h.last = 1
        BY <4>0, <4>a, <1>1
      <4>2. f = <<Longer(h.frame[1], c)>>
        BY <1>2, <3>1, <4>1 DEF Added, MergedText, Handles
      <4>3. h.frame = <<h.frame[1]>>
        BY <4>1
      <4>4. <<Longer(h.frame[1], c)>> = [h.frame EXCEPT ![1] = Longer(h.frame[1], c)]
        BY <4>1, <4>3
      <4> QED
        BY <4>1, <4>2, <4>4
    <3>2. CASE ~MergesText(h, c) /\ MergesArray(h, c)
      <4>1. f = MergedArray(h, c)
        BY <1>2, <3>2 DEF Added, Handles
      <4> QED
        BY <4>1, <2>2 DEF MergedArray
    <3> QED
      BY <1>2, <3>1, <3>2
  <2> HIDE DEF f
  <2>6. /\ f \in Seq(Cmds)
        /\ FrameSize(f) = FrameSize(h.frame) + Len(c.items)
        /\ \A stack \in Stacks :
              cmd_update_stack(stack, f) = AppliedNext(cmd_update_stack(stack, h.frame), c)
    BY <2>1, <2>2, <2>3, <2>4, <2>5, MergedFrame
  <2>7. FrameSize(f) <= FrameSize(h.frame) + CommandSize(c)
    BY <2>1, <2>6, <1>1
  <2> QED
    BY <2>6, <2>7
<1>3. CASE ~(c.op = "update" /\ (MergesText(h, c) \/ MergesArray(h, c)))
  <2>1. f = Append(h.frame, c)
    BY <1>3 DEF Added, Handles
  <2> HIDE DEF f
  <2>2. f \in Seq(Cmds) /\ FrameSize(f) = FrameSize(h.frame) + CommandSize(c)
    BY <2>1, AppendProperties, SizeAppend
  <2>3. FrameSize(f) <= FrameSize(h.frame) + CommandSize(c)
    BY <2>2, <1>1
  <2>4. \A stack \in Stacks :
           cmd_update_stack(stack, f) = AppliedNext(cmd_update_stack(stack, h.frame), c)
    BY <2>1, CmdAppend
  <2> QED
    BY <2>2, <2>3, <2>4
<1> QED
  BY <1>2, <1>3

-----------------------------------------------------------------------------
(* The steps, by what they do to the frame and the call. *)

Adds(c) ==
    /\ Idle /\ CommandSize(c) <= Room /\ (~client.building \/ HasRoom(c))
    /\ Add(Begun(client), c, asked)
    /\ UNCHANGED <<waits, wire, server>>

Sends(cmd, body, then) == Idle /\ Send(cmd, body, then) /\ UNCHANGED asked

SendsFrame(then) ==
    /\ client.building
    /\ then = <<>> \/ \E c \in Cmds : CommandSize(c) <= Room /\ then = <<c>>
    /\ Sends("update", client.frame, then)

SendsCall ==
    ~client.building /\ \E cmd \in {"ping", "execute", "read"} : Sends(cmd, Nothing, <<>>)

StartsList == ~client.building /\ Sends("list", 0, <<>>)

GoesOnList ==
    /\ client.lastRsp = "list" /\ client.list.valid /\ ~client.building /\ client.list.left = <<>>
    /\ Sends("list", client.list.index, <<"fetch">>)

\* WFlush with nothing to send, and WFetchGlobal with other bytes in the frame.
ChangesHandle ==
    /\ Idle /\ client.building
    /\ \/ client.frame = <<>> /\ client' = [client EXCEPT !.building = FALSE]
       \/ client' = [client EXCEPT !.lastRsp = "none"]
    /\ UNCHANGED <<waits, wire, server, asked, garbled, fetched>>

Fetches ==
    /\ Idle /\ client.lastRsp = "list" /\ client.list.valid /\ ~client.building /\ client.list.left # <<>>
    /\ fetched' = Append(fetched, Head(client.list.left))
    /\ client' = [client EXCEPT !.list.index = @ + 1, !.list.left = Tail(@)]
    /\ UNCHANGED <<waits, wire, server, asked, garbled>>

LEMMA StackCallIs ==
    ASSUME NEW c \in Cmds, Typed, StackCall(c)
    PROVE  Adds(c) \/ \E then : SendsFrame(then)
<1>1. CASE ~client.building \/ HasRoom(c)
  BY <1>1 DEF StackCall, Adds
<1>2. CASE ~(~client.building \/ HasRoom(c))
  <2>1. Idle /\ CommandSize(c) <= Room /\ Send("update", client.frame, <<c>>) /\ UNCHANGED asked
    BY <1>2 DEF StackCall
  <2>2. client.building
    BY <1>2
  <2>3. SendsFrame(<<c>>)
    BY <2>1, <2>2 DEF SendsFrame, Sends
  <2> QED
    BY <2>3
<1> QED
  BY <1>1, <1>2

LEMMA NextIs ==
    ASSUME Typed, Next
    PROVE  \/ \E c \in Cmds : Adds(c)
           \/ \E then : SendsFrame(then)
           \/ SendsCall \/ StartsList \/ GoesOnList \/ ChangesHandle \/ Fetches
           \/ WClose \/ WConnect \/ Receive \/ Dropped \/ HandleCommand \/ SessionFails
<1>1. ASSUME NEW type \in Types, WPushValue(type)
      PROVE  (\E c \in Cmds : Adds(c)) \/ \E then : SendsFrame(then)
  BY <1>1, Pushes, StackCallIs DEF WPushValue
<1>2. CASE WPopValues
  <2>1. Pop \in Cmds
    BY DEF Cmds
  <2> QED
    BY <1>2, <2>1, StackCallIs DEF WPopValues
<1>3. ASSUME NEW type \in Types, NEW off \in 0 .. MaxItems - 1, NEW it \in Items,
             WUpdateValue(type, off, it)
      PROVE  (\E c \in Cmds : Adds(c)) \/ \E then : SendsFrame(then)
  <2>1. off \in Nat
    OBVIOUS
  <2> QED
    BY <1>3, <2>1, UpdatesAre, StackCallIs DEF WUpdateValue
<1>4. CASE WFlush
  <2>1. CASE client.frame # <<>> /\ Send("update", client.frame, <<>>) /\ UNCHANGED asked
    <3>1. SendsFrame(<<>>)
      BY <1>4, <2>1 DEF WFlush, SendsFrame, Sends
    <3> QED
      BY <3>1
  <2>2. CASE ~(client.frame # <<>> /\ Send("update", client.frame, <<>>) /\ UNCHANGED asked)
    BY <1>4, <2>2 DEF WFlush, ChangesHandle
  <2> QED
    BY <2>1, <2>2
<1>5. CASE WPingServer
  BY <1>5 DEF WPingServer, Call, SendsCall, Sends
<1>6. CASE WExecuteProcedure
  BY <1>6 DEF WExecuteProcedure, Call, SendsCall, Sends
<1>7. CASE WValueEntry
  BY <1>7 DEF WValueEntry, Call, SendsCall, Sends
<1>8. CASE WStartGlobalsList
  BY <1>8 DEF WStartGlobalsList, Call, StartsList, Sends
<1>9. CASE WFetchGlobal
  <2>1. CASE client.building
    BY <1>9, <2>1 DEF WFetchGlobal, ChangesHandle
  <2>2. CASE ~client.building /\ client.list.left # <<>>
    BY <1>9, <2>2 DEF WFetchGlobal, Fetches
  <2>3. CASE ~client.building /\ client.list.left = <<>>
    BY <1>9, <2>3 DEF WFetchGlobal, GoesOnList, Sends
  <2> QED
    BY <2>1, <2>2, <2>3
<1> QED
  BY <1>1, <1>2, <1>3, <1>4, <1>5, <1>6, <1>7, <1>8, <1>9 DEF Next

LEMMA BegunTyped ==
    ASSUME NEW h \in Handles
    PROVE  /\ Begun(h) \in Handles
           /\ Begun(h).open = h.open /\ Begun(h).id = h.id /\ Begun(h).lastRsp = h.lastRsp
           /\ h.building => Begun(h) = h
           /\ ~h.building => Begun(h).frame = <<>> /\ Begun(h).data = Nothing
<1>1. CASE h.building
  BY <1>1 DEF Begun
<1>2. CASE ~h.building
  <2>1. Begun(h) = [h EXCEPT !.frame = <<>>, !.data = Nothing, !.list.left = <<>>]
    BY <1>2 DEF Begun
  <2>2. <<>> \in Frames /\ <<>> \in Seq(Nat) /\ Nothing \in Seq(Values)
    BY EmptySeq DEF Frames, Nothing
  <2>3. [h.list EXCEPT !.left = <<>>] \in Lists
    BY <2>2 DEF Handles, Lists
  <2> HIDE DEF Begun
  <2>4. Begun(h) \in Handles
    BY <2>1, <2>2, <2>3 DEF Handles
  <2>5. /\ Begun(h).open = h.open /\ Begun(h).id = h.id /\ Begun(h).lastRsp = h.lastRsp
        /\ Begun(h).frame = <<>> /\ Begun(h).data = Nothing
    BY <2>1 DEF Handles
  <2> QED
    BY <1>2, <2>4, <2>5
<1> QED
  BY <1>1, <1>2

\* What is left of the handle by a command that is sent.
LEMMA SendIs ==
    ASSUME Typed, NEW cmd, NEW body, NEW then, Sends(cmd, body, then)
    PROVE  /\ client' \in Handles
           /\ client'.open = TRUE /\ client'.id = Next1(client.id) /\ client'.building = FALSE
           /\ client'.frame = <<>> /\ client'.list.left = <<>>
           /\ waits = NoCall /\ waits' = [cmd |-> cmd, then |-> then]
           /\ wire' # <<>>
           /\ Head(wire') = [way |-> "request", id |-> client.id, cmd |-> cmd, body |-> body]
           /\ server' = server /\ garbled' = garbled /\ asked' = asked
           /\ fetched' = IF cmd = "list" /\ then # <<>> THEN fetched ELSE <<>>
           /\ client.open = TRUE
<1>1. client' = [client EXCEPT !.id = Next1(@), !.building = FALSE, !.frame = <<>>, !.list.left = <<>>]
  BY DEF Sends, Send
<1>2. client \in Handles
  BY DEF Typed
<1>3. <<>> \in Frames /\ <<>> \in Seq(Nat)
  BY EmptySeq DEF Frames
<1>4. Next1(client.id) \in Nat
  BY <1>2, ConnectorAssumption DEF Next1, Handles
<1>5. [client.list EXCEPT !.left = <<>>] \in Lists /\ [client.list EXCEPT !.left = <<>>].left = <<>>
  BY <1>2, <1>3 DEF Handles, Lists
<1>6. client' = [client EXCEPT !.id = Next1(client.id), !.building = FALSE, !.frame = <<>>,
                               !.list = [client.list EXCEPT !.left = <<>>]]
  BY <1>1, <1>2 DEF Handles
<1>7. client' \in Handles
  BY <1>2, <1>3, <1>4, <1>5, <1>6 DEF Handles
<1>8. /\ client'.open = client.open /\ client'.id = Next1(client.id) /\ client'.building = FALSE
      /\ client'.frame = <<>> /\ client'.list = [client.list EXCEPT !.left = <<>>]
  BY <1>2, <1>6 DEF Handles
<1>9. client.open = TRUE
  BY <1>2 DEF Sends, Idle, Handles
<1>10. /\ waits = NoCall /\ waits' = [cmd |-> cmd, then |-> then]
       /\ server' = server /\ garbled' = garbled /\ asked' = asked
       /\ fetched' = IF cmd = "list" /\ then # <<>> THEN fetched ELSE <<>>
  BY DEF Sends, Send, Idle
<1>11. /\ wire' # <<>>
       /\ Head(wire') = [way |-> "request", id |-> client.id, cmd |-> cmd, body |-> body]
  <2>1. wire' = <<[way |-> "request", id |-> client.id, cmd |-> cmd, body |-> body]>>
    BY DEF Sends, Send
  <2> QED
    BY <2>1
<1> QED
  BY <1>5, <1>7, <1>8, <1>9, <1>10, <1>11

LEMMA AddIs ==
    ASSUME Typed, NEW c \in Cmds, NEW h \in Handles, NEW before \in Seq(Cmds), Add(h, c, before)
    PROVE  /\ client' \in Handles
           /\ client' = Added(h, c) /\ client'.open = h.open /\ client'.id = h.id
           /\ client'.lastRsp = h.lastRsp /\ client'.data = h.data
           /\ client'.building = TRUE /\ client'.frame # <<>>
           /\ garbled' \in BOOLEAN
           /\ ~garbled' => ~garbled /\ ~MergesWrong(h, c)
           /\ asked' \in Seq(Cmds) /\ (~garbled' => asked' = Append(before, c))
           /\ fetched' = <<>>
<1>1. client' = Added(h, c)
  BY DEF Add
<1>2. /\ client' \in Handles /\ client'.open = h.open /\ client'.id = h.id
      /\ client'.lastRsp = h.lastRsp /\ client'.data = h.data
      /\ client'.building = TRUE /\ client'.frame # <<>>
  BY <1>1, AddedTyped
<1>3. garbled' \in BOOLEAN /\ (~garbled' => ~garbled /\ ~MergesWrong(h, c))
  BY DEF Add
<1>4. asked' \in Seq(Cmds) /\ (~garbled' => asked' = Append(before, c))
  BY EmptySeq, AppendProperties DEF Add
<1> QED
  BY <1>1, <1>2, <1>3, <1>4 DEF Add

-----------------------------------------------------------------------------
(* The steps of an answer. *)

LEMMA WaitsAre ==
    ASSUME waits \in Waits, waits # NoCall
    PROVE  /\ waits.cmd \in {"ping", "execute", "read", "update", "list"}
           /\ waits.cmd = "update" => waits.then = <<>> \/ \E c \in Cmds : CommandSize(c) <= Room /\ waits.then = <<c>>
           /\ waits.cmd = "list" => waits.then \in {<<>>, <<"fetch">>}
<1>1. CASE waits \in [cmd : {"ping", "execute", "read", "update"}, then : {<<>>}]
  BY <1>1
<1>2. CASE waits \in [cmd : {"list"}, then : {<<>>, <<"fetch">>}]
  BY <1>2
<1>3. CASE waits \in [cmd : {"update"}, then : {<<c>> : c \in {d \in Cmds : CommandSize(d) <= Room}}]
  <2>1. waits.cmd = "update" /\ waits.then \in {<<c>> : c \in {d \in Cmds : CommandSize(d) <= Room}}
    BY <1>3
  <2>2. \E c \in Cmds : CommandSize(c) <= Room /\ waits.then = <<c>>
    BY <2>1
  <2> QED
    BY <2>1, <2>2
<1> QED
  BY <1>1, <1>2, <1>3 DEF Waits

\* The server takes the request of the call.
Answers(status, body, stack) ==
    /\ waits # NoCall /\ Head(wire).cmd = waits.cmd /\ Head(wire).id = server.id
    /\ stack \in Stacks
    /\ server' = [server EXCEPT !.id = Next1(@), !.stack = stack]
    /\ wire' # <<>>
    /\ Head(wire') = [way |-> "answer", id |-> Next1(server.id), cmd |-> waits.cmd, status |-> status, body |-> body]
    /\ waits.cmd = "read" =>
          /\ stack = server.stack
          /\ body = Nothing \/ (stack # <<>> /\ body = <<Last(stack)>>)
    /\ waits.cmd = "list" =>
          body \in Lists /\ (status = "ok" => From(body) /\ body.index = Head(wire).body)

LEMMA NamesAre ==
    ASSUME NEW hint \in Nat, Globals = 0 \/ hint < Globals
    PROVE  Names(hint) \in Lists /\ From(Names(hint)) /\ Names(hint).index = hint
<1> DEFINE n == IF Globals - hint < NamesPerFrame THEN Globals - hint ELSE NamesPerFrame
           m == IF n \in Nat THEN n ELSE 0
           left == [i \in 1 .. m |-> hint + i]
<1>1. Globals \in Nat /\ NamesPerFrame \in Nat \ {0}
  BY ConnectorAssumption
<1>2. n \in Int /\ m \in Nat /\ 1 .. n = 1 .. m
  BY <1>1
<1>3. Names(hint) = [index |-> hint, count |-> Globals, valid |-> TRUE, left |-> [i \in 1 .. n |-> hint + i]]
  BY DEF Names
<1>4. Names(hint) = [index |-> hint, count |-> Globals, valid |-> TRUE, left |-> left]
  BY <1>2, <1>3
<1> HIDE DEF n, m
<1>5. left \in Seq(Nat) /\ Len(left) = m
  <2>1. \A i \in 1 .. m : hint + i \in Nat
    OBVIOUS
  <2>2. m \in Nat
    BY <1>2
  <2> QED
    BY <2>1, <2>2, IsASeq
<1>6. Names(hint) \in Lists
  BY <1>1, <1>4, <1>5 DEF Lists
<1>7. Names(hint).left = left /\ Names(hint).index = hint
  BY <1>4
<1>8. From(Names(hint))
  BY <1>5, <1>7 DEF From
<1> QED
  BY <1>6, <1>7, <1>8

LEMMA ExecutedTyped ==
    ASSUME NEW s \in Stacks
    PROVE  Executed(s) \subseteq Stacks
<1>1. s # <<>> => Front(s) \in Stacks
  <2>1. Len(s) \in Nat /\ \A i \in 1 .. Len(s) - 1 : s[i] \in Values
    BY LenProperties, ElementOfSeq DEF Stacks
  <2> QED
    BY <2>1, SubSeqProperties DEF Front, Stacks
<1>2. ASSUME NEW q \in Stacks, NEW t \in Types
      PROVE  Append(q, Null(t)) \in Stacks
  <2>1. Null(t) \in Values
    BY NullTyped
  <2> QED
    BY <2>1, AppendProperties DEF Stacks
<1>3. ASSUME NEW e \in Executed(s) PROVE e \in Stacks
  <2>1. CASE e = s
    BY <2>1
  <2>2. CASE e # s
    <3>1. PICK q \in {s, IF s = <<>> THEN s ELSE Front(s)}, t \in Types : e = Append(q, Null(t))
      BY <2>2, <1>3 DEF Executed
    <3>2. q \in Stacks
      BY <3>1, <1>1
    <3> QED
      BY <3>1, <3>2, <1>2
  <2> QED
    BY <2>1, <2>2
<1> QED
  BY <1>3

LEMMA HandleIs ==
    ASSUME Typed, Conversation, HandleCommand
    PROVE  /\ server.up /\ IsRequest
           /\ UNCHANGED <<client, waits, asked, garbled, fetched>>
           /\ \/ server' = Session(FALSE) /\ wire' = <<>>
              \/ \E status, body, stack : Answers(status, body, stack)
<1>1. server.up /\ IsRequest /\ UNCHANGED <<client, waits, asked, garbled, fetched>>
  BY DEF HandleCommand
<1>2. Head(wire).cmd # "close" => waits # NoCall /\ Head(wire).cmd = waits.cmd
  BY <1>1 DEF Conversation
<1>3. server.stack \in Stacks /\ BodyTyped(Head(wire)) /\ Head(wire).way = "request"
  BY <1>1 DEF Typed, IsRequest, Sessions
<1>4. ASSUME NEW cmd, NEW status, NEW body, NEW stack \in Stacks,
             Answer(cmd, status, body, stack),
             Head(wire).cmd = cmd, cmd # "close", Head(wire).id = server.id,
             cmd = "read" => stack = server.stack /\ (body = Nothing \/ (stack # <<>> /\ body = <<Last(stack)>>)),
             cmd = "list" => body \in Lists /\ (status = "ok" => From(body) /\ body.index = Head(wire).body)
      PROVE  Answers(status, body, stack)
  <2>1. waits # NoCall /\ waits.cmd = cmd
    BY <1>4, <1>2
  <2>2. server' = [server EXCEPT !.id = Next1(@), !.stack = stack]
    BY <1>4 DEF Answer
  <2>3. wire' = <<[way |-> "answer", id |-> Next1(server.id), cmd |-> cmd, status |-> status, body |-> body]>>
    BY <1>4 DEF Answer
  <2>4. wire' # <<>>
        /\ Head(wire') = [way |-> "answer", id |-> Next1(server.id), cmd |-> cmd, status |-> status, body |-> body]
    BY <2>3
  <2> QED
    BY <2>1, <2>2, <2>4, <1>4 DEF Answers
<1>5. CASE SessionEnds /\ wire' = <<>>
  BY <1>1, <1>5 DEF SessionEnds
<1>6. CASE /\ Head(wire).id = server.id
           /\ Head(wire).cmd = "update" /\ Garbage \notin ToSet(Head(wire).body)
           /\ LET r == cmd_update_stack(server.stack, Head(wire).body)
              IN Answer("update", r.status, Nothing, r.stack)
  <2>1. PICK f : f = Head(wire).body /\ f \in Frames
    BY <1>3, <1>6 DEF BodyTyped
  <2>2. f \in Seq(Cmds)
    <3>1. \A i \in 1 .. Len(f) : f[i] \in Cmds \cup {Garbage} /\ f[i] # Garbage
      BY <2>1, <1>6, ElementOfSeq DEF ToSet, Frames
    <3>2. Len(f) \in Nat /\ f = [i \in 1 .. Len(f) |-> f[i]] /\ \A i \in 1 .. Len(f) : f[i] \in Cmds
      BY <2>1, <3>1, LenProperties DEF Frames
    <3> QED
      BY <3>2, IsASeq
  <2>3. PICK r : r = cmd_update_stack(server.stack, f) /\ r \in Results
    BY <2>2, <1>3, CmdTyped
  <2>4. Answer("update", r.status, Nothing, r.stack) /\ r.stack \in Stacks
    BY <2>1, <2>3, <1>6 DEF Results
  <2>5. Answers(r.status, Nothing, r.stack)
    BY <2>4, <1>4, <1>6
  <2> QED
    BY <1>1, <2>5
<1>7. CASE /\ Head(wire).id = server.id /\ Head(wire).cmd = "execute"
           /\ \E stack \in Executed(server.stack) : Answer("execute", "ok", Nothing, stack)
  <2>1. PICK stack \in Executed(server.stack) : Answer("execute", "ok", Nothing, stack)
    BY <1>7
  <2>2. stack \in Stacks
    BY <1>3, ExecutedTyped
  <2>3. Answers("ok", Nothing, stack)
    BY <2>1, <2>2, <1>4, <1>7
  <2> QED
    BY <1>1, <2>3
<1>8. CASE /\ Head(wire).id = server.id /\ Head(wire).cmd = "read"
           /\ LET has == server.stack # <<>>
              IN Answer("read", IF has THEN "ok" ELSE "refused",
                        IF has THEN <<Last(server.stack)>> ELSE Nothing, server.stack)
  <2>1. CASE server.stack = <<>>
    <3>1. Answer("read", "refused", Nothing, server.stack)
      BY <1>8, <2>1
    <3>2. Answers("refused", Nothing, server.stack)
      BY <3>1, <1>3, <1>4, <1>8
    <3> QED
      BY <1>1, <3>2
  <2>2. CASE server.stack # <<>>
    <3>1. Answer("read", "ok", <<Last(server.stack)>>, server.stack)
      BY <1>8, <2>2
    <3>2. Answers("ok", <<Last(server.stack)>>, server.stack)
      BY <2>2, <3>1, <1>3, <1>4, <1>8
    <3> QED
      BY <1>1, <3>2
  <2> QED
    BY <2>1, <2>2
<1>9. CASE /\ Head(wire).id = server.id /\ Head(wire).cmd = "list"
           /\ IF Globals > 0 /\ Head(wire).body >= Globals
              THEN Answer("list", "refused", NoList, server.stack)
              ELSE Answer("list", "ok", Names(Head(wire).body), server.stack)
  <2>1. Head(wire).body \in Nat /\ Globals \in Nat
    BY <1>3, <1>9, ConnectorAssumption DEF BodyTyped
  <2>2. CASE Globals > 0 /\ Head(wire).body >= Globals
    <3>1. NoList \in Lists
      BY EmptySeq DEF NoList, Lists
    <3>2. Answers("refused", NoList, server.stack)
      BY <2>2, <3>1, <1>3, <1>4, <1>9
    <3> QED
      BY <1>1, <3>2
  <2>3. CASE ~(Globals > 0 /\ Head(wire).body >= Globals)
    <3>1. Globals = 0 \/ Head(wire).body < Globals
      BY <2>1, <2>3
    <3>2. PICK body : body = Names(Head(wire).body) /\ body \in Lists /\ From(body) /\ body.index = Head(wire).body
      BY <2>1, <3>1, NamesAre
    <3>3. Answers("ok", body, server.stack)
      BY <2>3, <3>2, <1>3, <1>4, <1>9
    <3> QED
      BY <1>1, <3>3
  <2> QED
    BY <2>2, <2>3
<1>10. CASE /\ Head(wire).id = server.id /\ Head(wire).cmd = "ping"
            /\ Answer("ping", "ok", Nothing, server.stack)
  <2>1. Answers("ok", Nothing, server.stack)
    BY <1>3, <1>4, <1>10
  <2> QED
    BY <1>1, <2>1
<1> QED
  BY <1>5, <1>6, <1>7, <1>8, <1>9, <1>10 DEF HandleCommand

\* What the handle is after an answer.
Ends(h, cmd) ==
    /\ waits.cmd = cmd
    /\ h.building = FALSE /\ h.frame = <<>>
    /\ UNCHANGED <<asked, garbled>>

AnswerOfUpdate ==
    /\ waits.cmd = "update"
    /\ client'.frame = <<>> /\ client'.lastRsp = "none" /\ client'.data = Nothing
    /\ asked' = <<>> /\ garbled' = FALSE /\ fetched' = fetched

AnswerGoesOn(h, c) ==
    /\ waits.cmd = "update"
    /\ h \in Handles /\ h.frame = <<>> /\ h.open = TRUE /\ h.id = client.id
    /\ h.lastRsp = "none" /\ h.data = Nothing
    /\ c \in Cmds /\ CommandSize(c) <= Room
    /\ client' = Added(h, c)
    /\ asked' = <<c>> /\ garbled' = FALSE /\ fetched' = fetched

AnswerOfList ==
    LET body == Head(wire).body IN
    /\ Ends(client', "list")
    /\ client'.data = Nothing
    /\ \/ client'.lastRsp = "none" /\ fetched' = fetched
       \/ /\ Head(wire).status = "ok"
          /\ client'.list = body /\ fetched' = fetched
       \/ /\ Head(wire).status = "ok" /\ body.left # <<>>
          /\ client'.list = [body EXCEPT !.index = @ + 1, !.left = Tail(@)]
          /\ fetched' = Append(fetched, Head(body.left))

AnswerOfRead ==
    /\ Ends(client', "read")
    /\ client'.lastRsp = "read" /\ client'.data = Head(wire).body
    /\ fetched' = fetched

AnswerOfOther ==
    /\ waits.cmd \in {"ping", "execute"} /\ Ends(client', waits.cmd)
    /\ client'.lastRsp = "none" /\ client'.data = Nothing
    /\ fetched' = fetched


LEMMA ReceiveIs ==
    ASSUME Typed, Conversation, Receive
    PROVE  /\ waits # NoCall /\ IsAnswer /\ wire' = <<>> /\ waits' = NoCall /\ server' = server
           /\ client' \in Handles /\ client'.open = TRUE /\ client'.id = client.id
           /\ \/ AnswerOfUpdate \/ \E h, c : AnswerGoesOn(h, c)
              \/ AnswerOfList \/ AnswerOfRead \/ AnswerOfOther
<1>1. waits # NoCall /\ IsAnswer /\ wire' = <<>> /\ waits' = NoCall /\ server' = server
  BY DEF Receive
<1>2. PICK answer : answer = Head(wire)
  OBVIOUS
<1>3. /\ answer.cmd = waits.cmd /\ answer.id = client.id
      /\ client.open /\ ~client.building /\ client.frame = <<>>
  BY <1>1, <1>2 DEF Conversation
<1>4. client \in Handles /\ client.open = TRUE /\ client.building = FALSE
  BY <1>3 DEF Typed, Handles
<1>5. BodyTyped(answer) /\ answer.way = "answer"
  BY <1>1, <1>2 DEF Typed, IsAnswer
<1>6. /\ waits.cmd \in {"ping", "execute", "read", "update", "list"}
      /\ waits.cmd = "update" => waits.then = <<>> \/ \E c \in Cmds : CommandSize(c) <= Room /\ waits.then = <<c>>
      /\ waits.cmd = "list" => waits.then \in {<<>>, <<"fetch">>}
  BY <1>1, WaitsAre DEF Typed
<1>7. PICK h : h = Answered(client, answer.cmd)
  OBVIOUS
<1>8. /\ h \in Handles /\ h.open = TRUE /\ h.id = client.id /\ h.building = FALSE /\ h.frame = <<>>
      /\ h.lastRsp = (IF answer.cmd \in {"list", "read"} THEN answer.cmd ELSE "none")
      /\ h.data = Nothing /\ h.last = client.last /\ h.list = client.list
  <2>1. PICK rsp : rsp = IF answer.cmd \in {"list", "read"} THEN answer.cmd ELSE "none"
    OBVIOUS
  <2>2. rsp \in {"none", "list", "read"} /\ Nothing \in Seq(Values)
    BY <2>1, EmptySeq DEF Nothing
  <2>3. h = [client EXCEPT !.lastRsp = rsp, !.data = Nothing]
    BY <1>7, <2>1 DEF Answered
  <2>4. /\ h \in Handles /\ h.open = client.open /\ h.id = client.id /\ h.building = client.building
        /\ h.frame = client.frame /\ h.lastRsp = rsp /\ h.data = Nothing
        /\ h.last = client.last /\ h.list = client.list
    BY <1>4, <2>2, <2>3 DEF Handles
  <2> QED
    BY <2>1, <2>4, <1>3, <1>4
<1>9. /\ NoList \in Lists /\ <<>> \in Frames /\ Nothing \in Seq(Values) /\ 1 \in Nat \ {0}
      /\ h.last \in Nat \ {0} /\ h.list \in Lists
  BY <1>8, EmptySeq DEF NoList, Lists, Frames, Nothing, Handles
<1>10. \/ /\ answer.cmd = "update" /\ (answer.status # "ok" \/ waits.then = <<>>)
          /\ client' = [h EXCEPT !.last = 1, !.list = NoList, !.building = BuildsOn(waits.then)]
          /\ asked' = <<>> /\ garbled' = FALSE
          /\ UNCHANGED fetched
       \/ /\ answer.cmd = "update" /\ answer.status = "ok" /\ waits.then # <<>>
          /\ client' = Added([h EXCEPT !.last = 1, !.list = NoList], Head(waits.then))
          /\ asked' = waits.then /\ garbled' = FALSE
          /\ UNCHANGED fetched
       \/ /\ answer.cmd = "list"
          /\ IF answer.status # "ok"
             THEN client' = [h EXCEPT !.lastRsp = "none"] /\ UNCHANGED fetched
             ELSE IF waits.then = <<>> \/ answer.body.left = <<>>
             THEN client' = [h EXCEPT !.list = answer.body] /\ UNCHANGED fetched
             ELSE /\ client' = [h EXCEPT !.list = [answer.body EXCEPT !.index = @ + 1, !.left = Tail(@)]]
                  /\ fetched' = Append(fetched, Head(answer.body.left))
          /\ UNCHANGED <<asked, garbled>>
       \/ /\ answer.cmd = "read"
          /\ client' = [h EXCEPT !.data = answer.body, !.list = NoList]
          /\ UNCHANGED <<asked, garbled, fetched>>
       \/ /\ answer.cmd \in {"ping", "execute"}
          /\ client' = h
          /\ UNCHANGED <<asked, garbled, fetched>>
  BY <1>2, <1>3, <1>7 DEF Receive
<1>11. CASE /\ answer.cmd = "update" /\ (answer.status # "ok" \/ waits.then = <<>>)
            /\ client' = [h EXCEPT !.last = 1, !.list = NoList, !.building = BuildsOn(waits.then)]
            /\ asked' = <<>> /\ garbled' = FALSE
            /\ UNCHANGED fetched
  <2>1. PICK b : b = BuildsOn(waits.then) /\ b \in BOOLEAN
    BY DEF BuildsOn
  <2>2. client' = [h EXCEPT !.last = 1, !.list = NoList, !.building = b]
    BY <1>11, <2>1
  <2>3. /\ client' \in Handles /\ client'.open = h.open /\ client'.id = h.id /\ client'.frame = h.frame
        /\ client'.lastRsp = h.lastRsp /\ client'.data = h.data
    BY <2>1, <2>2, <1>8, <1>9 DEF Handles
  <2>4. AnswerOfUpdate
    BY <2>3, <1>3, <1>8, <1>11 DEF AnswerOfUpdate
  <2> QED
    BY <2>3, <2>4, <1>1, <1>8
<1>12. CASE /\ answer.cmd = "update" /\ answer.status = "ok" /\ waits.then # <<>>
            /\ client' = Added([h EXCEPT !.last = 1, !.list = NoList], Head(waits.then))
            /\ asked' = waits.then /\ garbled' = FALSE
            /\ UNCHANGED fetched
  <2>1. PICK c \in Cmds : CommandSize(c) <= Room /\ waits.then = <<c>>
    BY <1>3, <1>6, <1>12
  <2>2. Head(waits.then) = c
    BY <2>1
  <2>3. PICK g : g = [h EXCEPT !.last = 1, !.list = NoList]
    OBVIOUS
  <2>4. /\ g \in Handles /\ g.open = h.open /\ g.id = h.id /\ g.frame = h.frame
        /\ g.lastRsp = h.lastRsp /\ g.data = h.data
    BY <2>3, <1>8, <1>9 DEF Handles
  <2>5. client' = Added(g, c)
    BY <1>12, <2>2, <2>3
  <2>6. client' \in Handles /\ client'.open = g.open /\ client'.id = g.id
    BY <2>4, <2>5, AddedTyped
  <2>7. AnswerGoesOn(g, c)
    BY <2>1, <2>4, <2>5, <1>3, <1>8, <1>12 DEF AnswerGoesOn
  <2> QED
    BY <2>4, <2>6, <2>7, <1>1, <1>8
<1>13. CASE /\ answer.cmd = "list"
            /\ IF answer.status # "ok"
               THEN client' = [h EXCEPT !.lastRsp = "none"] /\ UNCHANGED fetched
               ELSE IF waits.then = <<>> \/ answer.body.left = <<>>
               THEN client' = [h EXCEPT !.list = answer.body] /\ UNCHANGED fetched
               ELSE /\ client' = [h EXCEPT !.list = [answer.body EXCEPT !.index = @ + 1, !.left = Tail(@)]]
                    /\ fetched' = Append(fetched, Head(answer.body.left))
            /\ UNCHANGED <<asked, garbled>>
  <2>1. PICK body : body = answer.body /\ body \in Lists
    BY <1>5, <1>13 DEF BodyTyped
  <2>2. CASE answer.status # "ok"
    <3>1. client' = [h EXCEPT !.lastRsp = "none"] /\ fetched' = fetched
      BY <1>13, <2>2
    <3>2. /\ client' \in Handles /\ client'.open = h.open /\ client'.id = h.id /\ client'.frame = h.frame
          /\ client'.building = h.building /\ client'.lastRsp = "none" /\ client'.data = h.data
      BY <3>1, <1>8 DEF Handles
    <3>3. AnswerOfList
      BY <3>1, <3>2, <1>3, <1>8, <1>13 DEF AnswerOfList, Ends
    <3> QED
      BY <3>2, <3>3, <1>1, <1>8
  <2>3. CASE answer.status = "ok" /\ (waits.then = <<>> \/ body.left = <<>>)
    <3>1. client' = [h EXCEPT !.list = body] /\ fetched' = fetched
      BY <1>13, <2>1, <2>3
    <3>2. /\ client' \in Handles /\ client'.open = h.open /\ client'.id = h.id /\ client'.frame = h.frame
          /\ client'.building = h.building /\ client'.list = body /\ client'.data = h.data
      BY <3>1, <2>1, <1>8 DEF Handles
    <3>3. AnswerOfList
      BY <3>1, <3>2, <2>1, <2>3, <1>2, <1>3, <1>8, <1>13 DEF AnswerOfList, Ends
    <3> QED
      BY <3>2, <3>3, <1>1, <1>8
  <2>4. CASE answer.status = "ok" /\ waits.then # <<>> /\ body.left # <<>>
    <3>1. PICK list : list = [body EXCEPT !.index = @ + 1, !.left = Tail(@)]
      OBVIOUS
    <3>2. client' = [h EXCEPT !.list = list] /\ fetched' = Append(fetched, Head(body.left))
      BY <1>13, <2>1, <2>4, <3>1
    <3>3. body.index \in Nat /\ body.left \in Seq(Nat) /\ body.index + 1 \in Nat
      BY <2>1 DEF Lists
    <3>4. Tail(body.left) \in Seq(Nat)
      BY <3>3, <2>4, HeadTailProperties
    <3>5. list \in Lists
      BY <2>1, <3>1, <3>3, <3>4 DEF Lists
    <3>6. /\ client' \in Handles /\ client'.open = h.open /\ client'.id = h.id /\ client'.frame = h.frame
          /\ client'.building = h.building /\ client'.list = list /\ client'.data = h.data
      BY <3>2, <3>5, <1>8 DEF Handles
    <3>7. /\ Ends(client', "list") /\ client'.data = Nothing
      BY <3>6, <1>3, <1>8, <1>13 DEF Ends
    <3>8. AnswerOfList
      BY <3>1, <3>2, <3>6, <3>7, <2>1, <2>4, <1>2 DEF AnswerOfList
    <3> QED
      BY <3>6, <3>8, <1>1, <1>8
  <2> QED
    BY <2>1, <2>2, <2>3, <2>4
<1>14. CASE /\ answer.cmd = "read"
            /\ client' = [h EXCEPT !.data = answer.body, !.list = NoList]
            /\ UNCHANGED <<asked, garbled, fetched>>
  <2>1. PICK body : body = answer.body /\ body \in Seq(Values)
    BY <1>5, <1>14 DEF BodyTyped
  <2>2. client' = [h EXCEPT !.data = body, !.list = NoList]
    BY <2>1, <1>14
  <2>3. /\ client' \in Handles /\ client'.open = h.open /\ client'.id = h.id /\ client'.frame = h.frame
        /\ client'.building = h.building /\ client'.lastRsp = h.lastRsp /\ client'.data = body
    BY <2>1, <2>2, <1>8, <1>9 DEF Handles
  <2>4. AnswerOfRead
    BY <2>1, <2>3, <1>2, <1>3, <1>8, <1>14 DEF AnswerOfRead, Ends
  <2> QED
    BY <2>3, <2>4, <1>1, <1>8
<1>15. CASE /\ answer.cmd \in {"ping", "execute"}
            /\ client' = h
            /\ UNCHANGED <<asked, garbled, fetched>>
  <2>1. AnswerOfOther
    BY <1>3, <1>8, <1>15 DEF AnswerOfOther, Ends
  <2> QED
    BY <2>1, <1>1, <1>8, <1>15
<1> QED
  BY <1>10, <1>11, <1>12, <1>13, <1>14, <1>15

LEMMA DroppedIs ==
    ASSUME Typed, Conversation, Dropped
    PROVE  /\ waits # NoCall /\ server.up = FALSE /\ wire' = <<>> /\ waits' = NoCall /\ server' = server
           /\ client' \in Handles /\ client'.open = TRUE /\ client'.id = client.id
           /\ client'.frame = <<>> /\ client'.list = client.list /\ client.list.left = <<>>
           /\ asked' = <<>> /\ garbled' = FALSE /\ fetched' = fetched
<1>1. /\ waits # NoCall /\ wire' = <<>> /\ waits' = NoCall /\ server' = server
      /\ asked' = <<>> /\ garbled' = FALSE /\ fetched' = fetched
  BY DEF Dropped
<1>2. client \in Handles /\ server.up = FALSE
  BY DEF Dropped, Typed, Sessions
<1>3. client.open = TRUE /\ client.frame = <<>> /\ client.list.left = <<>>
  BY <1>1, <1>2 DEF Conversation, Handles
<1>4. /\ client' \in Handles /\ client'.open = client.open /\ client'.id = client.id
      /\ client'.frame = client.frame /\ client'.list = client.list
  <2>1. CASE waits.cmd = "list"
    <3>1. client' = [client EXCEPT !.lastRsp = "none"]
      BY <2>1 DEF Dropped
    <3> QED
      BY <3>1, <1>2 DEF Handles
  <2>2. CASE waits.cmd = "update"
    <3>1. PICK b : b = BuildsOn(waits.then) /\ b \in BOOLEAN
      BY DEF BuildsOn
    <3>2. client' = [client EXCEPT !.building = b]
      BY <2>2, <3>1 DEF Dropped
    <3> QED
      BY <3>1, <3>2, <1>2 DEF Handles
  <2>3. CASE waits.cmd # "list" /\ waits.cmd # "update"
    <3>1. client' = client
      BY <2>3 DEF Dropped
    <3> QED
      BY <3>1, <1>2
  <2> QED
    BY <2>1, <2>2, <2>3
<1> QED
  BY <1>1, <1>2, <1>3, <1>4

-----------------------------------------------------------------------------
(* Typed and Conversation are kept. *)

LEMMA HandleFields ==
    ASSUME client \in Handles
    PROVE  /\ client.open \in BOOLEAN /\ client.id \in Nat /\ client.building \in BOOLEAN
           /\ client.frame \in Frames /\ client.data \in Seq(Values)
           /\ client.list \in Lists /\ client.list.index \in Nat /\ client.list.left \in Seq(Nat)
BY DEF Handles, Lists

LEMMA FetchesIs ==
    ASSUME Typed, Fetches
    PROVE  /\ client.open = TRUE /\ waits = NoCall
           /\ client.lastRsp = "list" /\ client.list.valid /\ client.building = FALSE
           /\ client.list.left # <<>>
           /\ UNCHANGED <<waits, wire, server, asked, garbled>>
           /\ fetched' = Append(fetched, Head(client.list.left))
           /\ client' \in Handles
           /\ client'.open = TRUE /\ client'.id = client.id /\ client'.building = FALSE
           /\ client'.frame = client.frame /\ client'.lastRsp = client.lastRsp /\ client'.data = client.data
           /\ client'.list = [client.list EXCEPT !.index = @ + 1, !.left = Tail(@)]
<1>1. PICK list : list = [client.list EXCEPT !.index = @ + 1, !.left = Tail(@)]
  OBVIOUS
<1>2. client \in Handles /\ client.list \in Lists /\ client.list.left \in Seq(Nat) /\ client.list.index \in Nat
  BY HandleFields DEF Typed
<1>3. client.list.left # <<>> /\ client.open /\ waits = NoCall /\ ~client.building
  BY DEF Fetches, Idle
<1>4. Tail(client.list.left) \in Seq(Nat) /\ client.list.index + 1 \in Nat
  BY <1>2, <1>3, HeadTailProperties
<1>5. list \in Lists
  BY <1>1, <1>2, <1>4 DEF Lists
<1>6. client' = [client EXCEPT !.list = list]
  BY <1>1, <1>2 DEF Fetches, Handles
<1>7. /\ client' \in Handles
      /\ client'.open = client.open /\ client'.id = client.id /\ client'.building = client.building
      /\ client'.frame = client.frame /\ client'.lastRsp = client.lastRsp /\ client'.data = client.data
      /\ client'.list = list
  BY <1>2, <1>5, <1>6 DEF Handles
<1>8. client.open = TRUE /\ client.building = FALSE
  BY <1>2, <1>3, HandleFields
<1> QED
  BY <1>1, <1>3, <1>7, <1>8 DEF Fetches

LEMMA ChangesHandleIs ==
    ASSUME Typed, ChangesHandle
    PROVE  /\ client.open = TRUE /\ waits = NoCall
           /\ client.building = TRUE
           /\ UNCHANGED <<waits, wire, server, asked, garbled, fetched>>
           /\ client' \in Handles
           /\ client'.open = TRUE /\ client'.id = client.id /\ client'.frame = client.frame
           /\ client'.data = client.data /\ client'.list = client.list
           /\ \/ /\ client'.building = FALSE /\ client.frame = <<>> /\ client'.lastRsp = client.lastRsp
              \/ client'.building = TRUE /\ client'.lastRsp = "none"
<1>1. client \in Handles /\ client.open = TRUE /\ client.building = TRUE
  BY HandleFields DEF Typed, ChangesHandle, Idle
<1>2. waits = NoCall /\ UNCHANGED <<waits, wire, server, asked, garbled, fetched>>
  BY DEF ChangesHandle, Idle
<1>3. CASE client.frame = <<>> /\ client' = [client EXCEPT !.building = FALSE]
  <2>1. /\ client' \in Handles /\ client'.open = client.open /\ client'.id = client.id
        /\ client'.frame = client.frame /\ client'.data = client.data /\ client'.list = client.list
        /\ client'.building = FALSE /\ client'.lastRsp = client.lastRsp
    BY <1>1, <1>3 DEF Handles
  <2> QED
    BY <2>1, <1>1, <1>2, <1>3
<1>4. CASE client' = [client EXCEPT !.lastRsp = "none"]
  <2>1. /\ client' \in Handles /\ client'.open = client.open /\ client'.id = client.id
        /\ client'.frame = client.frame /\ client'.data = client.data /\ client'.list = client.list
        /\ client'.building = client.building /\ client'.lastRsp = "none"
    BY <1>1, <1>4 DEF Handles
  <2> QED
    BY <2>1, <1>1, <1>2
<1> QED
  BY <1>3, <1>4 DEF ChangesHandle

LEMMA SessionTyped ==
    ASSUME NEW up \in BOOLEAN
    PROVE  Session(up) \in Sessions /\ Session(up).up = up /\ Session(up).id = 0 /\ Session(up).stack = <<>>
<1>1. <<>> \in Stacks
  BY EmptySeq DEF Stacks
<1> QED
  BY <1>1 DEF Session, Sessions

LEMMA NewHandleTyped ==
    /\ NewHandle \in Handles /\ NewHandle.open = TRUE /\ NewHandle.id = 0 /\ NewHandle.building = FALSE
    /\ NewHandle.frame = <<>> /\ NewHandle.lastRsp = "none" /\ NewHandle.data = <<>>
<1>1. NoList \in Lists
  BY EmptySeq DEF NoList, Lists
<1>2. <<>> \in Frames /\ Nothing \in Seq(Values) /\ 1 \in Nat \ {0}
  BY EmptySeq DEF Frames, Nothing
<1>3. NewHandle \in Handles
  BY <1>1, <1>2 DEF NewHandle, Handles
<1> QED
  BY <1>3 DEF NewHandle, Nothing

LEMMA InitInv == Init => CInv
<1> SUFFICES ASSUME Init PROVE CInv
  OBVIOUS
<1>1. /\ client = NewHandle /\ waits = NoCall /\ wire = <<>> /\ server = Session(TRUE)
      /\ asked = <<>> /\ garbled = FALSE /\ fetched = <<>>
  BY DEF Init
<1>2. /\ server \in Sessions /\ server.up = TRUE /\ server.id = 0 /\ server.stack = <<>>
  BY <1>1, SessionTyped
<1>3. Typed
  BY <1>1, <1>2, NewHandleTyped, EmptySeq DEF Typed, Waits
<1>4. Conversation
  BY <1>1, <1>2, NewHandleTyped DEF Conversation, IsRequest, IsAnswer
<1>5. Gathered
  <2>1. Pending = <<>> /\ asked = <<>>
    BY <1>1, NewHandleTyped DEF Pending, IsRequest
  <2>2. FrameSize(Pending) <= Room /\ Pending \in Seq(Cmds)
    BY <2>1, SizeEmpty, EmptySeq, ConnectorAssumption
  <2> QED
    BY <2>1, <2>2 DEF Gathered
<1>6. Current
  BY <1>1, NewHandleTyped DEF Current, HasValue, IsAnswer
<1>7. Listed
  <2>1. Len(fetched) = 0 /\ fetched = [i \in 1 .. 0 |-> i]
    BY <1>1
  <2> QED
    BY <1>1, <2>1, NewHandleTyped DEF Listed
<1> QED
  BY <1>3, <1>4, <1>5, <1>6, <1>7 DEF CInv

\* The steps that are left: the end of a handle and of a session.
LEMMA CloseIs ==
    ASSUME Typed, WClose
    PROVE  /\ waits = NoCall /\ UNCHANGED <<waits, server, asked, garbled, fetched>>
           /\ client' \in Handles /\ client'.open = FALSE
           /\ wire' # <<>> /\ Head(wire') = [way |-> "request", id |-> client.id, cmd |-> "close", body |-> Nothing]
<1>1. client \in Handles /\ client' = [client EXCEPT !.open = FALSE]
  BY DEF Typed, WClose
<1>2. client' \in Handles /\ client'.open = FALSE
  BY <1>1 DEF Handles
<1>3. wire' = <<[way |-> "request", id |-> client.id, cmd |-> "close", body |-> Nothing]>>
  BY DEF WClose
<1>4. wire' # <<>> /\ Head(wire') = [way |-> "request", id |-> client.id, cmd |-> "close", body |-> Nothing]
  BY <1>3
<1> QED
  BY <1>2, <1>4 DEF WClose, Idle

LEMMA ConnectIs ==
    ASSUME WConnect
    PROVE  /\ waits = NoCall /\ waits' = NoCall /\ client' = NewHandle
           /\ wire' = <<>> /\ asked' = <<>> /\ garbled' = FALSE /\ fetched' = <<>>
           /\ server' \in Sessions /\ server'.id = 0
<1>1. PICK accepted \in BOOLEAN : server' = Session(accepted)
  BY DEF WConnect
<1>2. server' \in Sessions /\ server'.id = 0
  BY <1>1, SessionTyped
<1> QED
  BY <1>2 DEF WConnect

LEMMA FailsIs ==
    ASSUME SessionFails
    PROVE  /\ UNCHANGED <<client, waits, asked, garbled, fetched>>
           /\ server' \in Sessions /\ server'.up = FALSE
           /\ wire' = IF IsRequest THEN <<>> ELSE wire
           /\ ~IsRequest'
<1>1. server' = Session(FALSE)
  BY DEF SessionFails, SessionEnds
<1>2. server' \in Sessions /\ server'.up = FALSE
  BY <1>1, SessionTyped
<1>3. wire' = IF IsRequest THEN <<>> ELSE wire
  BY DEF SessionFails
<1>4. ~IsRequest'
  BY <1>3 DEF IsRequest
<1> QED
  BY <1>2, <1>3, <1>4 DEF SessionFails

LEMMA AddsIs ==
    ASSUME Typed, NEW c \in Cmds, Adds(c)
    PROVE  /\ client.open = TRUE /\ waits = NoCall /\ UNCHANGED <<waits, wire, server>>
           /\ CommandSize(c) <= Room
           /\ client' \in Handles /\ client'.open = TRUE /\ client'.id = client.id
           /\ client'.building = TRUE /\ client'.frame # <<>>
           /\ client'.data = Begun(client).data
           /\ garbled' \in BOOLEAN /\ asked' \in Seq(Cmds) /\ fetched' = <<>>
<1>1. client \in Handles /\ asked \in Seq(Cmds) /\ Add(Begun(client), c, asked)
  BY DEF Typed, Adds
<1>2. Begun(client) \in Handles /\ Begun(client).open = client.open /\ Begun(client).id = client.id
  BY <1>1, BegunTyped
<1>3. /\ client' \in Handles
      /\ client'.open = Begun(client).open /\ client'.id = Begun(client).id
      /\ client'.data = Begun(client).data
      /\ client'.building = TRUE /\ client'.frame # <<>>
      /\ garbled' \in BOOLEAN /\ asked' \in Seq(Cmds) /\ fetched' = <<>>
  BY <1>1, <1>2, AddIs
<1>4. client.open = TRUE
  BY <1>1, HandleFields DEF Adds, Idle
<1> QED
  BY <1>2, <1>3, <1>4 DEF Adds, Idle

LEMMA TypedStep ==
    ASSUME Typed, Conversation, [Next]_vars
    PROVE  Typed'
<1>0. /\ client \in Handles /\ server \in Sessions /\ waits \in Waits /\ asked \in Seq(Cmds)
      /\ garbled \in BOOLEAN /\ fetched \in Seq(Nat) /\ (wire # <<>> => BodyTyped(Head(wire)))
  BY DEF Typed
<1>1. ASSUME NEW c \in Cmds, Adds(c) PROVE Typed'
  <2>1. /\ client' \in Handles /\ UNCHANGED <<waits, wire, server>>
        /\ garbled' \in BOOLEAN /\ asked' \in Seq(Cmds) /\ fetched' = <<>>
    BY <1>1, AddsIs
  <2> QED
    BY <2>1, <1>0, EmptySeq DEF Typed
<1>2. ASSUME NEW cmd, NEW body, NEW then, Sends(cmd, body, then),
             [cmd |-> cmd, then |-> then] \in Waits,
             cmd = "update" => body \in Frames,
             cmd = "list" => body \in Nat
      PROVE  Typed'
  <2>1. /\ client' \in Handles /\ waits' = [cmd |-> cmd, then |-> then] /\ wire' # <<>>
        /\ Head(wire') = [way |-> "request", id |-> client.id, cmd |-> cmd, body |-> body]
        /\ server' = server /\ garbled' = garbled /\ asked' = asked
        /\ fetched' = IF cmd = "list" /\ then # <<>> THEN fetched ELSE <<>>
    BY <1>2, SendIs
  <2>2. fetched' \in Seq(Nat)
    BY <2>1, <1>0, EmptySeq
  <2>3. BodyTyped(Head(wire'))
    BY <2>1, <1>2 DEF BodyTyped
  <2> QED
    BY <2>1, <2>2, <2>3, <1>0, <1>2 DEF Typed
<1>3. ASSUME NEW then, SendsFrame(then) PROVE Typed'
  <2>1. Sends("update", client.frame, then)
    BY <1>3 DEF SendsFrame
  <2>2. CASE then = <<>>
    <3>1. [cmd |-> "update", then |-> then] \in Waits
      BY <2>2 DEF Waits
    <3> QED
      BY <2>1, <3>1, <1>2, <1>0, HandleFields
  <2>3. CASE then # <<>>
    <3>1. PICK c \in Cmds : CommandSize(c) <= Room /\ then = <<c>>
      BY <1>3, <2>3 DEF SendsFrame
    <3>2. then \in {<<d>> : d \in {e \in Cmds : CommandSize(e) <= Room}}
      BY <3>1
    <3>3. [cmd |-> "update", then |-> then] \in Waits
      BY <3>2 DEF Waits
    <3> QED
      BY <2>1, <3>3, <1>2, <1>0, HandleFields
  <2> QED
    BY <2>2, <2>3
<1>4. CASE SendsCall
  <2>1. PICK cmd \in {"ping", "execute", "read"} : Sends(cmd, Nothing, <<>>)
    BY <1>4 DEF SendsCall
  <2>2. [cmd |-> cmd, then |-> <<>>] \in Waits
    BY DEF Waits
  <2> QED
    BY <2>1, <2>2, <1>2
<1>5. CASE StartsList
  <2>1. [cmd |-> "list", then |-> <<>>] \in Waits
    BY DEF Waits
  <2> QED
    BY <1>5, <2>1, <1>2 DEF StartsList
<1>6. CASE GoesOnList
  <2>1. [cmd |-> "list", then |-> <<"fetch">>] \in Waits
    BY DEF Waits
  <2> QED
    BY <1>6, <2>1, <1>0, <1>2, HandleFields DEF GoesOnList
<1>7. CASE ChangesHandle
  BY <1>7, <1>0, ChangesHandleIs DEF Typed
<1>8. CASE Fetches
  <2>1. client.list.left \in Seq(Nat) /\ client.list.left # <<>>
    BY <1>8, <1>0, HandleFields, FetchesIs
  <2>2. Head(client.list.left) \in Nat
    BY <2>1, HeadTailProperties
  <2>3. fetched' \in Seq(Nat)
    BY SMTT(30), <1>8, <1>0, <2>2, FetchesIs, AppendProperties
  <2> QED
    BY <1>8, <1>0, <2>3, FetchesIs DEF Typed
<1>9. CASE WClose
  <2>1. BodyTyped(Head(wire'))
    BY <1>9, CloseIs DEF BodyTyped
  <2> QED
    BY <1>9, <1>0, <2>1, CloseIs DEF Typed
<1>10. CASE WConnect
  <2>1. NoCall \in Waits
    BY DEF Waits
  <2> QED
    BY <1>10, <2>1, ConnectIs, NewHandleTyped, EmptySeq DEF Typed
<1>11. CASE Receive
  <2>1. /\ client' \in Handles /\ server' = server /\ wire' = <<>> /\ waits' = NoCall
        /\ \/ AnswerOfUpdate \/ \E h, c : AnswerGoesOn(h, c)
           \/ AnswerOfList \/ AnswerOfRead \/ AnswerOfOther
    BY <1>11, ReceiveIs
  <2>2. asked' \in Seq(Cmds) /\ garbled' \in BOOLEAN
    <3>1. CASE AnswerOfUpdate
      BY <3>1, EmptySeq DEF AnswerOfUpdate
    <3>2. ASSUME NEW h, NEW c, AnswerGoesOn(h, c) PROVE asked' \in Seq(Cmds) /\ garbled' \in BOOLEAN
      <4>1. c \in Cmds /\ asked' = <<c>> /\ garbled' = FALSE
        BY <3>2 DEF AnswerGoesOn
      <4>2. <<c>> \in Seq(Cmds)
        BY <4>1
      <4> QED
        BY <4>1, <4>2
    <3>3. CASE AnswerOfList \/ AnswerOfRead \/ AnswerOfOther
      BY <3>3, <1>0 DEF AnswerOfList, AnswerOfRead, AnswerOfOther, Ends
    <3> QED
      BY <2>1, <3>1, <3>2, <3>3
  <2>3. fetched' \in Seq(Nat)
    <3>1. CASE AnswerOfList
      <4>1. CASE fetched' = fetched
        BY <4>1, <1>0
      <4>2. CASE fetched' # fetched
        <5>1. /\ fetched' = Append(fetched, Head(Head(wire).body.left)) /\ Head(wire).body.left # <<>>
              /\ waits.cmd = "list"
          BY <3>1, <4>2 DEF AnswerOfList, Ends
        <5>2. IsAnswer /\ wire # <<>> /\ Head(wire).cmd = "list" /\ Head(wire).way = "answer"
          BY <5>1, <1>11, ReceiveIs DEF Conversation, IsAnswer
        <5>3. Head(wire).body \in Lists
          BY <5>2, <1>0 DEF BodyTyped
        <5>4. Head(wire).body.left \in Seq(Nat)
          BY <5>3 DEF Lists
        <5>5. Head(Head(wire).body.left) \in Nat
          BY <5>1, <5>4, HeadTailProperties
        <5> QED
          BY <5>1, <5>5, <1>0, AppendProperties
      <4> QED
        BY <4>1, <4>2
    <3>2. CASE AnswerOfUpdate \/ (\E h, c : AnswerGoesOn(h, c)) \/ AnswerOfRead \/ AnswerOfOther
      BY <3>2, <1>0 DEF AnswerOfUpdate, AnswerGoesOn, AnswerOfRead, AnswerOfOther
    <3> QED
      BY <2>1, <3>1, <3>2
  <2>4. NoCall \in Waits
    BY DEF Waits
  <2> QED
    BY <2>1, <2>2, <2>3, <2>4, <1>0 DEF Typed
<1>12. CASE Dropped
  <2>1. NoCall \in Waits
    BY DEF Waits
  <2> QED
    BY <1>12, <1>0, <2>1, DroppedIs, EmptySeq DEF Typed
<1>13. CASE HandleCommand
  <2>1. CASE server' = Session(FALSE) /\ wire' = <<>>
    BY <1>13, <1>0, <2>1, HandleIs, SessionTyped DEF Typed
  <2>2. ASSUME NEW status, NEW body, NEW stack, Answers(status, body, stack) PROVE Typed'
    <3>1. Next1(server.id) \in Nat /\ stack \in Stacks
      BY <1>0, <2>2, ConnectorAssumption DEF Next1, Sessions, Answers
    <3>2. server' \in Sessions
      BY <1>0, <2>2, <3>1 DEF Answers, Sessions
    <3>3. waits.cmd = "read" => body \in Seq(Values)
      <4>1. Nothing \in Seq(Values)
        BY EmptySeq DEF Nothing
      <4>2. stack # <<>> => <<Last(stack)>> \in Seq(Values)
        <5>1. stack # <<>> => Last(stack) \in Values
          BY <3>1, Top
        <5> QED
          BY <5>1
      <4> QED
        BY <2>2, <4>1, <4>2 DEF Answers
    <3>4. waits.cmd = "list" => body \in Lists
      BY <2>2 DEF Answers
    <3>5. BodyTyped(Head(wire'))
      BY <2>2, <3>3, <3>4 DEF Answers, BodyTyped
    <3> QED
      BY <1>13, <1>0, <3>2, <3>5, HandleIs DEF Typed
  <2> QED
    BY <1>13, <2>1, <2>2, HandleIs
<1>14. CASE SessionFails
  BY <1>14, <1>0, FailsIs DEF Typed
<1>15. CASE UNCHANGED vars
  BY <1>15, <1>0 DEF vars, Typed
<1>16. Next \/ UNCHANGED vars
  OBVIOUS
<1> QED
  BY <1>1, <1>3, <1>4, <1>5, <1>6, <1>7, <1>8, <1>9, <1>10, <1>11, <1>12, <1>13, <1>14, <1>15, <1>16, NextIs

LEMMA ConversationStep ==
    ASSUME Typed, Conversation, [Next]_vars
    PROVE  Conversation'
<1>0. client \in Handles /\ server \in Sessions /\ waits \in Waits
  BY DEF Typed
<1>1. ASSUME NEW c \in Cmds, Adds(c) PROVE Conversation'
  <2>1. /\ client.open = TRUE /\ waits = NoCall /\ UNCHANGED <<waits, wire, server>>
        /\ client'.open = TRUE /\ client'.id = client.id
    BY <1>1, AddsIs
  <2>2. wire = <<>> /\ wire' = <<>> /\ waits' = NoCall
    BY <2>1 DEF Conversation
  <2> QED
    BY <2>1, <2>2 DEF Conversation, IsRequest, IsAnswer
<1>2. ASSUME NEW cmd, NEW body, NEW then, Sends(cmd, body, then), cmd # "none"
      PROVE  Conversation'
  <2>1. /\ client'.open = TRUE /\ client'.id = Next1(client.id) /\ client'.building = FALSE
        /\ client'.frame = <<>> /\ client'.list.left = <<>>
        /\ waits = NoCall /\ waits' = [cmd |-> cmd, then |-> then] /\ wire' # <<>>
        /\ Head(wire') = [way |-> "request", id |-> client.id, cmd |-> cmd, body |-> body]
        /\ server' = server /\ client.open = TRUE
    BY <1>2, SendIs
  <2>2. waits' # NoCall /\ waits'.cmd = cmd
    BY <2>1, <1>2 DEF NoCall
  <2>3. IsRequest' /\ ~IsAnswer'
    BY <2>1 DEF IsRequest, IsAnswer
  <2>4. server.up => client.id = server.id
    BY <2>1 DEF Conversation
  <2> QED
    BY <2>1, <2>2, <2>3, <2>4 DEF Conversation
<1>3. ASSUME NEW then, SendsFrame(then) PROVE Conversation'
  BY <1>2, <1>3 DEF SendsFrame
<1>4. CASE SendsCall
  BY <1>2, <1>4 DEF SendsCall
<1>5. CASE StartsList
  BY <1>2, <1>5 DEF StartsList
<1>6. CASE GoesOnList
  BY <1>2, <1>6 DEF GoesOnList
<1>7. CASE ChangesHandle \/ Fetches
  <2>1. /\ client.open = TRUE /\ waits = NoCall /\ UNCHANGED <<waits, wire, server>>
        /\ client'.open = TRUE /\ client'.id = client.id
    BY <1>7, ChangesHandleIs, FetchesIs
  <2>2. wire = <<>> /\ wire' = <<>> /\ waits' = NoCall
    BY <2>1 DEF Conversation
  <2> QED
    BY <2>1, <2>2 DEF Conversation, IsRequest, IsAnswer
<1>9. CASE WClose
  <2>1. /\ waits' = NoCall /\ client'.open = FALSE /\ wire' # <<>>
        /\ Head(wire') = [way |-> "request", id |-> client.id, cmd |-> "close", body |-> Nothing]
    BY <1>9, CloseIs
  <2>2. IsRequest' /\ ~IsAnswer'
    BY <2>1 DEF IsRequest, IsAnswer
  <2> QED
    BY <2>1, <2>2 DEF Conversation
<1>10. CASE WConnect
  <2>1. waits' = NoCall /\ client' = NewHandle /\ wire' = <<>> /\ server'.id = 0
    BY <1>10, ConnectIs
  <2> QED
    BY <2>1, NewHandleTyped DEF Conversation, IsRequest, IsAnswer
<1>11. CASE Receive
  <2>1. /\ waits # NoCall /\ IsAnswer /\ wire' = <<>> /\ waits' = NoCall /\ server' = server
        /\ client'.open = TRUE /\ client'.id = client.id
    BY <1>11, ReceiveIs
  <2>2. server.up => client.id = server.id
    BY <2>1 DEF Conversation
  <2> QED
    BY <2>1, <2>2 DEF Conversation, IsRequest, IsAnswer
<1>12. CASE Dropped
  <2>1. /\ server'.up = FALSE /\ wire' = <<>> /\ waits' = NoCall
    BY <1>12, DroppedIs
  <2> QED
    BY <2>1 DEF Conversation, IsRequest, IsAnswer
<1>13. CASE HandleCommand
  <2>1. CASE server' = Session(FALSE) /\ wire' = <<>>
    <3>1. client' = client /\ waits' = waits /\ server'.up = FALSE
      BY <1>13, <2>1, HandleIs, SessionTyped
    <3> QED
      BY <2>1, <3>1 DEF Conversation, IsRequest, IsAnswer
  <2>2. ASSUME NEW status, NEW body, NEW stack, Answers(status, body, stack) PROVE Conversation'
    <3>1. /\ waits # NoCall /\ Head(wire).id = server.id /\ wire' # <<>>
          /\ Head(wire') = [way |-> "answer", id |-> Next1(server.id), cmd |-> waits.cmd, status |-> status, body |-> body]
      BY <2>2 DEF Answers
    <3>2. server.up /\ IsRequest /\ client' = client /\ waits' = waits
      BY <1>13, HandleIs
    <3>3. server'.id = Next1(server.id)
      BY <1>0, <2>2 DEF Answers, Sessions
    <3>4. client.open /\ client.id = Next1(server.id)
      BY <3>1, <3>2 DEF Conversation
    <3>5. IsAnswer' /\ ~IsRequest'
      BY <3>1 DEF IsRequest, IsAnswer
    <3> QED
      BY <3>1, <3>2, <3>3, <3>4, <3>5 DEF Conversation
  <2> QED
    BY <1>13, <2>1, <2>2, HandleIs
<1>14. CASE SessionFails
  <2>1. /\ client' = client /\ waits' = waits /\ server'.up = FALSE
        /\ wire' = (IF IsRequest THEN <<>> ELSE wire) /\ ~IsRequest'
    BY <1>14, FailsIs
  <2>2. IsAnswer' => IsAnswer /\ wire' = wire
    BY <2>1 DEF IsAnswer
  <2>3. wire = <<>> => wire' = <<>>
    BY <2>1
  <2> QED
    BY <2>1, <2>2, <2>3 DEF Conversation
<1>15. CASE UNCHANGED vars
  BY <1>15 DEF vars, Conversation, IsRequest, IsAnswer
<1>16. Next \/ UNCHANGED vars
  OBVIOUS
<1> QED
  BY <1>1, <1>3, <1>4, <1>5, <1>6, <1>7, <1>9, <1>10, <1>11, <1>12, <1>13, <1>14, <1>15, <1>16, NextIs

LEMMA CurrentStep ==
    ASSUME Typed, Conversation, Current, [Next]_vars
    PROVE  Current'
<1>0. client \in Handles /\ server \in Sessions /\ waits \in Waits
  BY DEF Typed
<1>1. ASSUME NEW c \in Cmds, Adds(c) PROVE Current'
  <2>1. /\ client.open = TRUE /\ waits = NoCall /\ UNCHANGED <<waits, wire, server>>
        /\ client'.data = Begun(client).data
        /\ client'.lastRsp = client.lastRsp
    <3>1. Add(Begun(client), c, asked) /\ asked \in Seq(Cmds)
      BY <1>1 DEF Adds, Typed
    <3>2. Begun(client) \in Handles /\ Begun(client).lastRsp = client.lastRsp
      BY <1>0, BegunTyped
    <3>3. client'.lastRsp = Begun(client).lastRsp
      BY <3>1, <3>2, AddIs
    <3> QED
      BY <1>1, <3>2, <3>3, AddsIs
  <2>2. client'.data = client.data \/ client'.data = Nothing
    BY <2>1, <1>0, BegunTyped
  <2> QED
    BY <2>1, <2>2 DEF Current, HasValue, IsAnswer
<1>2. ASSUME NEW cmd, NEW body, NEW then, Sends(cmd, body, then), cmd # "none"
      PROVE  Current'
  <2>1. /\ waits' = [cmd |-> cmd, then |-> then] /\ wire' # <<>>
        /\ Head(wire') = [way |-> "request", id |-> client.id, cmd |-> cmd, body |-> body]
    BY <1>2, SendIs
  <2>2. waits' # NoCall /\ ~IsAnswer'
    BY <2>1, <1>2 DEF NoCall, IsAnswer
  <2> QED
    BY <2>2 DEF Current
<1>3. ASSUME NEW then, SendsFrame(then) PROVE Current'
  BY <1>2, <1>3 DEF SendsFrame
<1>4. CASE SendsCall
  BY <1>2, <1>4 DEF SendsCall
<1>5. CASE StartsList
  BY <1>2, <1>5 DEF StartsList
<1>6. CASE GoesOnList
  BY <1>2, <1>6 DEF GoesOnList
<1>7. CASE ChangesHandle
  <2>1. /\ client.open = TRUE /\ UNCHANGED <<waits, wire, server>> /\ client'.data = client.data
        /\ client'.lastRsp = client.lastRsp \/ client'.lastRsp = "none"
    BY <1>7, ChangesHandleIs
  <2> QED
    BY <2>1 DEF Current, HasValue, IsAnswer
<1>8. CASE Fetches
  <2>1. UNCHANGED <<waits, wire, server>> /\ client'.lastRsp = "list"
    BY <1>8, FetchesIs
  <2> QED
    BY <2>1 DEF Current, HasValue, IsAnswer
<1>9. CASE WClose
  <2>1. /\ client'.open = FALSE /\ wire' # <<>>
        /\ Head(wire') = [way |-> "request", id |-> client.id, cmd |-> "close", body |-> Nothing]
    BY <1>9, CloseIs
  <2>2. ~IsAnswer'
    BY <2>1 DEF IsAnswer
  <2> QED
    BY <2>1, <2>2 DEF Current
<1>10. CASE WConnect
  <2>1. client' = NewHandle /\ wire' = <<>>
    BY <1>10, ConnectIs
  <2> QED
    BY <2>1, NewHandleTyped DEF Current, HasValue, IsAnswer
<1>11. CASE Receive
  <2>1. /\ waits # NoCall /\ IsAnswer /\ wire' = <<>> /\ waits' = NoCall /\ server' = server
        /\ \/ AnswerOfUpdate \/ \E h, c : AnswerGoesOn(h, c)
           \/ AnswerOfList \/ AnswerOfRead \/ AnswerOfOther
    BY <1>11, ReceiveIs
  <2>2. ~IsAnswer'
    BY <2>1 DEF IsAnswer
  <2>3. CASE AnswerOfRead
    <3>1. client'.data = Head(wire).body /\ Head(wire).cmd = "read"
      BY <2>1, <2>3 DEF AnswerOfRead, Ends, Conversation
    <3> QED
      BY <2>1, <2>2, <3>1 DEF Current, HasValue
  <2>4. CASE ~AnswerOfRead
    <3>1. client'.data = Nothing
      <4>1. ASSUME NEW h, NEW c, AnswerGoesOn(h, c) PROVE client'.data = Nothing
        BY <4>1, AddedTyped DEF AnswerGoesOn
      <4> QED
        BY <2>1, <2>4, <4>1 DEF AnswerOfUpdate, AnswerOfList, AnswerOfOther
    <3> QED
      BY <2>2, <3>1 DEF Current, HasValue
  <2> QED
    BY <2>3, <2>4
<1>12. CASE Dropped
  <2>1. server'.up = FALSE
    BY <1>12, DroppedIs
  <2> QED
    BY <2>1 DEF Current
<1>13. CASE HandleCommand
  <2>1. CASE server' = Session(FALSE)
    BY <2>1, SessionTyped DEF Current
  <2>2. ASSUME NEW status, NEW body, NEW stack, Answers(status, body, stack) PROVE Current'
    <3>1. /\ waits # NoCall /\ wire' # <<>>
          /\ Head(wire') = [way |-> "answer", id |-> Next1(server.id), cmd |-> waits.cmd, status |-> status, body |-> body]
          /\ waits.cmd = "read" => (body = Nothing \/ (stack # <<>> /\ body = <<Last(stack)>>))
      BY <2>2 DEF Answers
    <3>2. client' = client /\ waits' = waits
      BY <1>13, HandleIs
    <3>3. server'.stack = stack
      BY <1>0, <2>2 DEF Answers, Sessions
    <3> QED
      BY <3>1, <3>2, <3>3 DEF Current
  <2> QED
    BY <1>13, <2>1, <2>2, HandleIs
<1>14. CASE SessionFails
  BY <1>14, FailsIs DEF Current
<1>15. CASE UNCHANGED vars
  BY <1>15 DEF vars, Current, HasValue, IsAnswer
<1>16. Next \/ UNCHANGED vars
  OBVIOUS
<1> QED
  BY <1>1, <1>3, <1>4, <1>5, <1>6, <1>7, <1>8, <1>9, <1>10, <1>11, <1>12, <1>13, <1>14, <1>15, <1>16, NextIs

\* Only one frame is there, on the wire or with the client.

LEMMA GatheredStep ==
    ASSUME Typed, Conversation, Gathered, [Next]_vars
    PROVE  Gathered'
<1>0. client \in Handles /\ server \in Sessions /\ waits \in Waits /\ asked \in Seq(Cmds) /\ Room \in Nat
  BY ConnectorAssumption DEF Typed
<1> DEFINE Good == /\ Pending' \in Seq(Cmds)
                   /\ FrameSize(Pending') <= Room
                   /\ \A stack \in Stacks : cmd_update_stack(stack, Pending') = cmd_update_stack(stack, asked')
<1>s. SUFFICES ASSUME server'.up, ~garbled', client'.open, IsAnswer' => Head(wire').cmd # "update"
               PROVE  Good
  BY DEF Gathered
<1>a. ASSUME NEW h \in Handles, NEW c \in Cmds, NEW before \in Seq(Cmds),
             ~MergesWrong(h, c), h.frame \in Seq(Cmds),
             FrameSize(h.frame) + CommandSize(c) <= Room,
             \A stack \in Stacks : cmd_update_stack(stack, h.frame) = cmd_update_stack(stack, before),
             Pending' = Added(h, c).frame, asked' = Append(before, c)
      PROVE  Good
  <2>1. PICK f : f = Added(h, c).frame
    OBVIOUS
  <2>2. /\ f \in Seq(Cmds)
        /\ FrameSize(f) <= FrameSize(h.frame) + CommandSize(c)
        /\ \A stack \in Stacks :
              cmd_update_stack(stack, f) = AppliedNext(cmd_update_stack(stack, h.frame), c)
    BY <1>a, <2>1, AddedIsDone
  <2>3. FrameSize(f) \in Nat /\ FrameSize(h.frame) + CommandSize(c) \in Nat
    BY <2>2, <1>a, FrameSizeTyped, CommandSizeTyped
  <2>4. FrameSize(f) <= Room
    BY <2>2, <2>3, <1>a, <1>0
  <2>5. ASSUME NEW stack \in Stacks
        PROVE  cmd_update_stack(stack, f) = cmd_update_stack(stack, Append(before, c))
    <3>1. cmd_update_stack(stack, Append(before, c)) = AppliedNext(cmd_update_stack(stack, before), c)
      BY CmdAppend
    <3>2. cmd_update_stack(stack, h.frame) = cmd_update_stack(stack, before)
      BY <1>a
    <3>3. cmd_update_stack(stack, f) = AppliedNext(cmd_update_stack(stack, h.frame), c)
      BY <2>2
    <3> QED
      BY <3>1, <3>2, <3>3
  <2> QED
    BY <2>1, <2>2, <2>4, <2>5, <1>a
<1>b. ASSUME server.up, ~garbled, client.open, IsAnswer => Head(wire).cmd # "update",
             Pending' = Pending, asked' = asked
      PROVE  Good
  BY <1>b DEF Gathered
<1>c. ASSUME Pending' = <<>>, asked' = <<>>
      PROVE  Good
  <2>1. <<>> \in Seq(Cmds) /\ FrameSize(<<>>) <= Room
    BY SizeEmpty, EmptySeq, <1>0
  <2> QED
    BY <2>1, <1>c
<1>1. ASSUME NEW c \in Cmds, Adds(c) PROVE Good
  <2>1. /\ client.open = TRUE /\ waits = NoCall /\ UNCHANGED <<waits, wire, server>>
        /\ client'.building = TRUE /\ CommandSize(c) <= Room
    BY <1>1, AddsIs
  <2>2. wire = <<>> /\ wire' = <<>>
    BY <2>1 DEF Conversation
  <2>3. PICK h : h = Begun(client) /\ h \in Handles
    BY <1>0, BegunTyped
  <2>4. client' = Added(h, c) /\ ~garbled /\ ~MergesWrong(h, c) /\ asked' = Append(asked, c)
    <3>1. Typed /\ Add(h, c, asked)
      BY <1>1, <2>3 DEF Adds
    <3> QED
      BY <3>1, <2>3, <1>0, <1>s, AddIs
  <2>5. Pending' = Added(h, c).frame
    BY <2>1, <2>2, <2>4 DEF Pending, IsRequest
  <2>6. h.frame = Pending
    <3>1. client.building => h = client
      BY <2>3, <1>0, BegunTyped
    <3>2. ~client.building => h.frame = <<>>
      BY <2>3, <1>0, BegunTyped
    <3> QED
      BY <3>1, <3>2, <2>2 DEF Pending, IsRequest
  <2>7. /\ h.frame \in Seq(Cmds)
        /\ FrameSize(h.frame) <= Room
        /\ \A stack \in Stacks : cmd_update_stack(stack, h.frame) = cmd_update_stack(stack, asked)
    BY <2>1, <2>2, <2>4, <2>6, <1>s DEF Gathered, IsAnswer
  <2>8. FrameSize(h.frame) + CommandSize(c) <= Room
    <3>1. FrameSize(h.frame) \in Nat /\ CommandSize(c) \in Nat
      BY <2>7, FrameSizeTyped, CommandSizeTyped
    <3>2. CASE ~client.building
      <4>1. FrameSize(h.frame) = 0
        BY <3>2, <2>3, <1>0, BegunTyped, SizeEmpty
      <4> QED
        BY <4>1, <3>1, <2>1
    <3>3. CASE client.building
      <4>1. h = client /\ HasRoom(c)
        BY <3>3, <2>3, <1>0, <1>1, BegunTyped DEF Adds
      <4> QED
        BY <4>1, <3>1 DEF HasRoom
    <3> QED
      BY <3>2, <3>3
  <2>9. /\ Pending' \in Seq(Cmds)
        /\ FrameSize(Pending') <= Room
        /\ \A stack \in Stacks : cmd_update_stack(stack, Pending') = cmd_update_stack(stack, asked')
    BY <2>3, <2>4, <2>5, <2>7, <2>8, <1>0, <1>a
  <2> QED
    BY <2>9 DEF Gathered
<1>2. ASSUME NEW cmd, NEW body, NEW then, Sends(cmd, body, then),
             IF cmd = "update" THEN client.building /\ body = client.frame ELSE ~client.building
      PROVE  Good
  <2>1. /\ client'.building = FALSE /\ waits = NoCall /\ wire' # <<>>
        /\ Head(wire') = [way |-> "request", id |-> client.id, cmd |-> cmd, body |-> body]
        /\ server' = server /\ garbled' = garbled /\ asked' = asked /\ client.open = TRUE
    BY <1>2, SendIs
  <2>2. wire = <<>>
    BY <2>1 DEF Conversation
  <2>3. Pending' = IF cmd = "update" THEN body ELSE <<>>
    BY <2>1 DEF Pending, IsRequest
  <2>4. Pending = IF client.building THEN client.frame ELSE <<>>
    BY <2>2 DEF Pending, IsRequest
  <2>5. Pending' = Pending
    BY <2>3, <2>4, <1>2
  <2>6. ~IsAnswer
    BY <2>2 DEF IsAnswer
  <2> QED
    BY <2>1, <2>5, <2>6, <1>b, <1>s DEF Gathered
<1>3. ASSUME NEW then, SendsFrame(then) PROVE Good
  BY <1>2, <1>3 DEF SendsFrame
<1>4. CASE SendsCall
  <2>1. PICK cmd \in {"ping", "execute", "read"} : ~client.building /\ Sends(cmd, Nothing, <<>>)
    BY <1>4 DEF SendsCall
  <2>2. cmd # "update"
    OBVIOUS
  <2> QED
    BY <2>1, <2>2, <1>2
<1>5. CASE StartsList
  BY <1>2, <1>5 DEF StartsList
<1>6. CASE GoesOnList
  BY <1>2, <1>6 DEF GoesOnList
<1>7. CASE ChangesHandle
  <2>1. /\ client.open = TRUE /\ waits = NoCall /\ client.building = TRUE
        /\ UNCHANGED <<wire, server, asked, garbled>> /\ client'.frame = client.frame
        /\ (client'.building = FALSE /\ client.frame = <<>>) \/ client'.building = TRUE
    BY <1>7, ChangesHandleIs
  <2>2. wire = <<>> /\ wire' = <<>>
    BY <2>1 DEF Conversation
  <2>3. Pending' = Pending /\ ~IsAnswer
    BY <2>1, <2>2 DEF Pending, IsRequest, IsAnswer
  <2> QED
    BY <2>1, <2>3, <1>b, <1>s DEF Gathered
<1>8. CASE Fetches
  <2>1. /\ client.open = TRUE /\ waits = NoCall /\ client.building = FALSE /\ client'.building = FALSE
        /\ UNCHANGED <<wire, server, asked, garbled>>
    BY <1>8, FetchesIs
  <2>2. wire = <<>> /\ wire' = <<>>
    BY <2>1 DEF Conversation
  <2>3. Pending' = Pending /\ ~IsAnswer
    BY <2>1, <2>2 DEF Pending, IsRequest, IsAnswer
  <2> QED
    BY <2>1, <2>3, <1>b, <1>s DEF Gathered
<1>9. CASE WClose
  BY <1>9, <1>s, CloseIs
<1>10. CASE WConnect
  <2>1. client' = NewHandle /\ wire' = <<>> /\ asked' = <<>>
    BY <1>10, ConnectIs
  <2>2. Pending' = <<>>
    BY <2>1, NewHandleTyped DEF Pending, IsRequest
  <2> QED
    BY <2>1, <2>2, <1>c DEF Gathered
<1>11. CASE Receive
  <2>1. /\ waits # NoCall /\ IsAnswer /\ wire' = <<>> /\ waits' = NoCall /\ server' = server
        /\ \/ AnswerOfUpdate \/ \E h, c : AnswerGoesOn(h, c)
           \/ AnswerOfList \/ AnswerOfRead \/ AnswerOfOther
    BY <1>11, ReceiveIs
  <2>2. Pending' = IF client'.building THEN client'.frame ELSE <<>>
    BY <2>1 DEF Pending, IsRequest
  <2>3. CASE AnswerOfUpdate
    <3>1. client'.frame = <<>> /\ asked' = <<>>
      BY <2>3 DEF AnswerOfUpdate
    <3>2. Pending' = <<>>
      BY <3>1, <2>2
    <3> QED
      BY <3>1, <3>2, <1>c DEF Gathered
  <2>4. ASSUME NEW h, NEW c, AnswerGoesOn(h, c) PROVE Good
    <3>1. /\ h \in Handles /\ h.frame = <<>> /\ c \in Cmds /\ CommandSize(c) <= Room
          /\ client' = Added(h, c) /\ asked' = <<c>>
      BY <2>4 DEF AnswerGoesOn
    <3>2. client'.building = TRUE
      BY <3>1, AddedTyped
    <3>3. Pending' = Added(h, c).frame
      BY <2>2, <3>1, <3>2
    <3>4. ~MergesWrong(h, c)
      <4>1. h.last \in Nat \ {0} /\ Len(h.frame) = 0
        BY <3>1 DEF Handles
      <4>2. ~(h.last <= Len(h.frame))
        BY <4>1
      <4> QED
        BY <4>2 DEF MergesWrong, MergesText, MergesArray, IsUpdate
    <3>5. /\ <<>> \in Seq(Cmds) /\ asked' = Append(<<>>, c)
      BY <3>1, EmptySeq
    <3>6. FrameSize(h.frame) + CommandSize(c) <= Room
      <4>1. CommandSize(c) \in Nat
        BY <3>1, CommandSizeTyped
      <4> QED
        BY <4>1, <3>1, SizeEmpty
    <3>7. /\ Pending' \in Seq(Cmds)
          /\ FrameSize(Pending') <= Room
          /\ \A stack \in Stacks : cmd_update_stack(stack, Pending') = cmd_update_stack(stack, asked')
      BY <3>1, <3>3, <3>4, <3>5, <3>6, <1>a
    <3> QED
      BY <3>7 DEF Gathered
  <2>5. CASE AnswerOfList \/ AnswerOfRead \/ AnswerOfOther
    <3>1. client'.building = FALSE /\ asked' = asked /\ garbled' = garbled /\ waits.cmd # "update"
      BY <2>5 DEF AnswerOfList, AnswerOfRead, AnswerOfOther, Ends
    <3>2. Head(wire).cmd # "update" /\ client.open /\ ~client.building
      BY <2>1, <3>1 DEF Conversation
    <3>3. Pending' = <<>> /\ Pending = <<>>
      BY <2>1, <2>2, <3>1, <3>2 DEF Pending, IsRequest, IsAnswer
    <3> QED
      BY <2>1, <3>1, <3>2, <3>3, <1>b, <1>s DEF Gathered
  <2> QED
    BY <2>1, <2>3, <2>4, <2>5
<1>12. CASE Dropped
  BY <1>12, <1>s, DroppedIs
<1>13. CASE HandleCommand
  <2>1. CASE server' = Session(FALSE)
    BY <2>1, <1>s, SessionTyped
  <2>2. ASSUME NEW status, NEW body, NEW stack, Answers(status, body, stack) PROVE Good
    <3>1. /\ waits # NoCall /\ Head(wire).cmd = waits.cmd /\ wire' # <<>>
          /\ Head(wire') = [way |-> "answer", id |-> Next1(server.id), cmd |-> waits.cmd, status |-> status, body |-> body]
      BY <2>2 DEF Answers
    <3>2. /\ server.up /\ IsRequest /\ client' = client /\ garbled' = garbled /\ asked' = asked
      BY <1>13, HandleIs
    <3>3. IsAnswer' /\ ~IsRequest' /\ ~IsAnswer
      BY <3>1, <3>2 DEF IsRequest, IsAnswer
    <3>4. Head(wire).cmd # "update" /\ client.open /\ ~client.building
      BY <3>1, <3>3, <1>s DEF Conversation
    <3>5. Pending' = <<>> /\ Pending = <<>>
      BY <3>2, <3>3, <3>4 DEF Pending
    <3> QED
      BY <3>2, <3>3, <3>4, <3>5, <1>b, <1>s DEF Gathered
  <2> QED
    BY <1>13, <2>1, <2>2, HandleIs
<1>14. CASE SessionFails
  BY <1>14, <1>s, FailsIs
<1>15. CASE UNCHANGED vars
  <2>1. server' = server /\ garbled' = garbled /\ client' = client /\ wire' = wire /\ asked' = asked
    BY <1>15 DEF vars
  <2>2. Pending' = Pending /\ (IsAnswer' <=> IsAnswer)
    BY <2>1 DEF Pending, IsRequest, IsAnswer
  <2> QED
    BY <2>1, <2>2, <1>b, <1>s
<1>16. Next \/ UNCHANGED vars
  OBVIOUS
<1> HIDE DEF Good
<1> QED
  BY <1>1, <1>3, <1>4, <1>5, <1>6, <1>7, <1>8, <1>9, <1>10, <1>11, <1>12, <1>13, <1>14, <1>15, <1>16, NextIs

\* The first names, and one more.
LEMMA OneMore ==
    ASSUME NEW f, f = [i \in 1 .. Len(f) |-> i], Len(f) \in Nat, NEW n, n = Len(f) + 1
    PROVE  /\ Append(f, n) = [i \in 1 .. Len(Append(f, n)) |-> i]
           /\ Len(Append(f, n)) = Len(f) + 1
<1>1. f \in Seq(Nat) /\ n \in Nat
  BY IsASeq
<1>2. /\ Append(f, n) \in Seq(Nat) /\ Len(Append(f, n)) = Len(f) + 1
      /\ \A i \in 1 .. Len(f) : Append(f, n)[i] = f[i]
      /\ Append(f, n)[Len(f) + 1] = n
  BY <1>1, AppendProperties
<1>3. PICK g : g = Append(f, n)
  OBVIOUS
<1>4. ASSUME NEW i \in 1 .. Len(g) PROVE g[i] = i
  <2>1. CASE i = n
    BY <2>1, <1>2, <1>3
  <2>2. CASE i # n
    <3>1. i \in 1 .. Len(f)
      BY <2>2, <1>2, <1>3
    <3> QED
      BY <3>1, <1>2, <1>3
  <2> QED
    BY <2>1, <2>2
<1>5. g = [i \in 1 .. Len(g) |-> g[i]]
  BY <1>2, <1>3
<1> QED
  BY <1>2, <1>3, <1>4, <1>5

\* The next name of a list, and the list behind it.
LEMMA NextName ==
    ASSUME NEW list \in Lists, From(list), list.left # <<>>, NEW next,
           next = [list EXCEPT !.index = @ + 1, !.left = Tail(@)]
    PROVE  /\ Head(list.left) = list.index + 1
           /\ From(next) /\ next.index = list.index + 1
<1>1. list.index \in Nat /\ list.left \in Seq(Nat)
  BY DEF Lists
<1>2. PICK s : s = list.left /\ s \in Seq(Nat) /\ s # <<>> /\ Len(s) \in Nat /\ Len(s) # 0
  BY <1>1, LenProperties, EmptySeq
<1>3. \A i \in 1 .. Len(s) : s[i] = list.index + i
  BY <1>2 DEF From
<1>4. Head(s) = list.index + 1
  <2>1. Head(s) = s[1] /\ 1 \in 1 .. Len(s)
    BY <1>2, HeadTailProperties
  <2> QED
    BY <2>1, <1>3
<1>5. PICK t : /\ t = Tail(s) /\ t \in Seq(Nat) /\ Len(t) = Len(s) - 1
               /\ \A i \in 1 .. Len(t) : t[i] = s[i + 1]
  BY ZenonT(30), <1>2, HeadTailProperties
<1>6. next.left = t /\ next.index = list.index + 1
  BY <1>2, <1>5 DEF Lists
<1>7. ASSUME NEW i \in 1 .. Len(t) PROVE t[i] = (list.index + 1) + i
  <2>1. i + 1 \in 1 .. Len(s) /\ t[i] = s[i + 1]
    BY <1>2, <1>5
  <2>2. list.index + (i + 1) = (list.index + 1) + i
    BY <1>1
  <2> QED
    BY <2>1, <2>2, <1>3
<1>8. t = [i \in 1 .. Len(t) |-> t[i]]
  <2>1. t \in Seq(Nat)
    BY <1>5
  <2>2. t \in [1 .. Len(t) -> Nat]
    BY <2>1, LenProperties
  <2> QED
    BY <2>2
<1>9. t = [i \in 1 .. Len(t) |-> (list.index + 1) + i]
  BY <1>7, <1>8
<1>10. From(next)
  BY <1>6, <1>9 DEF From
<1> QED
  BY <1>2, <1>4, <1>6, <1>10

LEMMA FromEmpty ==
    ASSUME NEW list, list.left = <<>>
    PROVE  From(list)
<1>1. Len(list.left) = 0 /\ <<>> = [i \in 1 .. 0 |-> list.index + i]
  OBVIOUS
<1> QED
  BY <1>1 DEF From

LEMMA ListedStep ==
    ASSUME Typed, Conversation, Listed, [Next]_vars
    PROVE  Listed'
<1>0. /\ client \in Handles /\ server \in Sessions /\ waits \in Waits /\ fetched \in Seq(Nat)
      /\ Len(fetched) \in Nat /\ fetched = [i \in 1 .. Len(fetched) |-> i]
  BY LenProperties DEF Typed, Listed
<1> DEFINE First == fetched' = [i \in 1 .. Len(fetched') |-> i]
           Held  == /\ client'.open /\ waits' = NoCall /\ client'.lastRsp = "list" /\ client'.list.valid
                    /\ client'.building => client'.frame = <<>>
                    => /\ From(client'.list)
                       /\ server'.up \/ client'.list.left # <<>> => client'.list.index = Len(fetched')
           Asked == waits' # NoCall /\ waits'.cmd = "list" =>
                       /\ waits'.then = <<>> => fetched' = <<>>
                       /\ server'.up /\ IsRequest' => Head(wire').body = Len(fetched')
                       /\ IsAnswer' /\ Head(wire').status = "ok" =>
                             From(Head(wire').body) /\ Head(wire').body.index = Len(fetched')
<1>l. First /\ Held /\ Asked => Listed'
  BY DEF Listed, From
<1>e. fetched' = <<>> => First
  OBVIOUS
<1>f. fetched' = fetched => First
  BY <1>0
<1>h. ASSUME /\ client.open /\ waits = NoCall /\ client.lastRsp = "list" /\ client.list.valid
             /\ client.building => client.frame = <<>>
      PROVE  /\ From(client.list)
             /\ server.up \/ client.list.left # <<>> => client.list.index = Len(fetched)
  BY <1>h DEF Listed
<1>1. ASSUME NEW c \in Cmds, Adds(c) PROVE Listed'
  <2>1. waits = NoCall /\ UNCHANGED waits /\ client'.building = TRUE /\ client'.frame # <<>> /\ fetched' = <<>>
    BY <1>1, AddsIs
  <2> QED
    BY <2>1, <1>e, <1>l
<1>2. ASSUME NEW cmd, NEW body, NEW then, Sends(cmd, body, then), cmd # "none",
             cmd = "list" /\ then = <<>> => body = 0,
             cmd = "list" /\ then # <<>> /\ server.up => body = Len(fetched)
      PROVE  Listed'
  <2>1. /\ waits' = [cmd |-> cmd, then |-> then] /\ wire' # <<>>
        /\ Head(wire') = [way |-> "request", id |-> client.id, cmd |-> cmd, body |-> body]
        /\ server' = server
        /\ fetched' = IF cmd = "list" /\ then # <<>> THEN fetched ELSE <<>>
    BY <1>2, SendIs
  <2>2. waits' # NoCall /\ waits'.cmd = cmd /\ waits'.then = then /\ ~IsAnswer'
    BY <2>1, <1>2 DEF NoCall, IsAnswer
  <2>3. First
    BY <2>1, <1>e, <1>f
  <2>4. Asked
    <3>1. CASE cmd = "list" /\ then = <<>>
      <4>1. fetched' = <<>> /\ Len(fetched') = 0 /\ Head(wire').body = 0
        BY <3>1, <2>1, <1>2
      <4> QED
        BY <4>1, <2>2
    <3>2. CASE cmd = "list" /\ then # <<>>
      <4>1. fetched' = fetched /\ (server'.up => Head(wire').body = Len(fetched))
        BY <3>2, <2>1, <1>2
      <4> QED
        BY <4>1, <2>2, <3>2
    <3>3. CASE cmd # "list"
      BY <3>3, <2>2
    <3> QED
      BY <3>1, <3>2, <3>3
  <2> QED
    BY <2>2, <2>3, <2>4, <1>l
<1>3. ASSUME NEW then, SendsFrame(then) PROVE Listed'
  BY <1>2, <1>3 DEF SendsFrame
<1>4. CASE SendsCall
  <2>1. PICK cmd \in {"ping", "execute", "read"} : Sends(cmd, Nothing, <<>>)
    BY <1>4 DEF SendsCall
  <2>2. cmd # "list" /\ cmd # "none"
    OBVIOUS
  <2> QED
    BY <2>1, <2>2, <1>2
<1>5. CASE StartsList
  BY <1>2, <1>5 DEF StartsList
<1>6. CASE GoesOnList
  <2>1. /\ client.lastRsp = "list" /\ client.list.valid /\ ~client.building /\ client.list.left = <<>>
        /\ Sends("list", client.list.index, <<"fetch">>)
    BY <1>6 DEF GoesOnList
  <2>2. client.open /\ waits = NoCall
    BY <2>1 DEF Sends, Idle
  <2>3. server.up => client.list.index = Len(fetched)
    BY <2>1, <2>2, <1>h
  <2> QED
    BY <2>1, <2>3, <1>2
<1>7. CASE ChangesHandle
  <2>1. /\ client.open = TRUE /\ waits = NoCall /\ client.building = TRUE
        /\ UNCHANGED <<waits, wire, server, fetched>> /\ client'.frame = client.frame
        /\ client'.list = client.list
        /\ \/ client'.building = FALSE /\ client.frame = <<>> /\ client'.lastRsp = client.lastRsp
           \/ client'.lastRsp = "none"
    BY <1>7, ChangesHandleIs
  <2>2. Held
    BY <2>1, <1>h
  <2> QED
    BY <2>1, <2>2, <1>f, <1>l
<1>8. CASE Fetches
  <2>1. /\ client.open = TRUE /\ waits = NoCall /\ client.building = FALSE
        /\ client.lastRsp = "list" /\ client.list.valid /\ client.list.left # <<>>
        /\ UNCHANGED <<waits, wire, server>>
        /\ fetched' = Append(fetched, Head(client.list.left))
        /\ client'.list = [client.list EXCEPT !.index = @ + 1, !.left = Tail(@)]
    BY <1>8, FetchesIs
  <2>2. From(client.list) /\ client.list.index = Len(fetched) /\ client.list \in Lists
    BY <2>1, <1>0, <1>h, HandleFields
  <2>3. /\ Head(client.list.left) = client.list.index + 1
        /\ From(client'.list) /\ client'.list.index = client.list.index + 1
    BY <2>1, <2>2, NextName
  <2>4. fetched' = Append(fetched, Len(fetched) + 1)
    BY <2>1, <2>2, <2>3
  <2>5. First /\ Len(fetched') = Len(fetched) + 1
    BY <2>4, <1>0, OneMore
  <2>6. Held
    BY <2>2, <2>3, <2>5
  <2> QED
    BY <2>1, <2>5, <2>6, <1>l
<1>9. CASE WClose
  <2>1. waits' = NoCall /\ client'.open = FALSE /\ fetched' = fetched
    BY <1>9, CloseIs
  <2> QED
    BY <2>1, <1>f, <1>l
<1>10. CASE WConnect
  <2>1. waits' = NoCall /\ client' = NewHandle /\ fetched' = <<>>
    BY <1>10, ConnectIs
  <2> QED
    BY <2>1, <1>e, <1>l, NewHandleTyped
<1>11. CASE Receive
  <2>1. /\ waits # NoCall /\ IsAnswer /\ wire' = <<>> /\ waits' = NoCall /\ server' = server
        /\ \/ AnswerOfUpdate \/ \E h, c : AnswerGoesOn(h, c)
           \/ AnswerOfList \/ AnswerOfRead \/ AnswerOfOther
    BY <1>11, ReceiveIs
  <2>2. CASE AnswerOfList
    <3>1. PICK body : body = Head(wire).body
      OBVIOUS
    <3>2. waits.cmd = "list" /\ Head(wire).cmd = "list"
      BY <2>1, <2>2 DEF AnswerOfList, Ends, Conversation
    <3>3. body \in Lists
      BY <2>1, <3>1, <3>2 DEF Typed, BodyTyped, IsAnswer
    <3>4. Head(wire).status = "ok" => From(body) /\ body.index = Len(fetched)
      BY <2>1, <3>1, <3>2 DEF Listed
    <3>5. CASE client'.lastRsp = "none" /\ fetched' = fetched
      BY <2>1, <3>5, <1>f, <1>l
    <3>6. CASE Head(wire).status = "ok" /\ client'.list = body /\ fetched' = fetched
      <4>1. Held
        BY <3>4, <3>6
      <4> QED
        BY <2>1, <3>6, <4>1, <1>f, <1>l
    <3>7. CASE /\ Head(wire).status = "ok" /\ body.left # <<>>
               /\ client'.list = [body EXCEPT !.index = @ + 1, !.left = Tail(@)]
               /\ fetched' = Append(fetched, Head(body.left))
      <4>1. /\ Head(body.left) = body.index + 1
            /\ From(client'.list) /\ client'.list.index = body.index + 1
        BY <3>3, <3>4, <3>7, NextName
      <4>2. fetched' = Append(fetched, Len(fetched) + 1)
        BY <4>1, <3>4, <3>7
      <4>3. First /\ Len(fetched') = Len(fetched) + 1
        BY <4>2, <1>0, OneMore
      <4>4. Held
        BY <4>1, <4>3, <3>4, <3>7
      <4> QED
        BY <2>1, <4>3, <4>4, <1>l
    <3> QED
      BY <2>2, <3>1, <3>5, <3>6, <3>7 DEF AnswerOfList
  <2>3. CASE AnswerOfUpdate \/ (\E h, c : AnswerGoesOn(h, c)) \/ AnswerOfRead \/ AnswerOfOther
    <3>1. fetched' = fetched
      BY <2>3 DEF AnswerOfUpdate, AnswerGoesOn, AnswerOfRead, AnswerOfOther
    <3>2. client'.lastRsp # "list"
      <4>1. ASSUME NEW h, NEW c, AnswerGoesOn(h, c) PROVE client'.lastRsp = "none"
        BY <4>1, AddedTyped DEF AnswerGoesOn
      <4> QED
        BY <2>3, <4>1 DEF AnswerOfUpdate, AnswerOfRead, AnswerOfOther
    <3> QED
      BY <2>1, <3>1, <3>2, <1>f, <1>l
  <2> QED
    BY <2>1, <2>2, <2>3
<1>12. CASE Dropped
  <2>1. /\ server'.up = FALSE /\ waits' = NoCall /\ client'.list = client.list /\ client.list.left = <<>>
        /\ fetched' = fetched
    BY <1>12, DroppedIs
  <2>2. From(client'.list)
    BY <2>1, FromEmpty
  <2> QED
    BY <2>1, <2>2, <1>f, <1>l
<1>13. CASE HandleCommand
  <2>1. UNCHANGED <<client, waits, fetched>> /\ server.up /\ IsRequest
    BY <1>13, HandleIs
  <2>2. Held
    BY <2>1, <1>h
  <2>3. CASE server' = Session(FALSE) /\ wire' = <<>>
    <3>1. ~IsAnswer' /\ ~IsRequest'
      BY <2>3 DEF IsAnswer, IsRequest
    <3>2. Asked
      BY <2>1, <3>1 DEF Listed
    <3> QED
      BY <2>1, <2>2, <3>2, <1>f, <1>l
  <2>4. ASSUME NEW status, NEW body, NEW stack, Answers(status, body, stack) PROVE Listed'
    <3>1. /\ waits # NoCall /\ wire' # <<>>
          /\ Head(wire') = [way |-> "answer", id |-> Next1(server.id), cmd |-> waits.cmd, status |-> status, body |-> body]
          /\ waits.cmd = "list" => (status = "ok" => From(body) /\ body.index = Head(wire).body)
      BY <2>4 DEF Answers
    <3>2. ~IsRequest'
      BY <3>1 DEF IsRequest
    <3>3. waits.cmd = "list" => Head(wire).body = Len(fetched) /\ (waits.then = <<>> => fetched = <<>>)
      BY <2>1, <3>1 DEF Listed
    <3>4. Asked
      BY <2>1, <3>1, <3>2, <3>3
    <3> QED
      BY <2>1, <2>2, <3>4, <1>f, <1>l
  <2> QED
    BY <1>13, <2>3, <2>4, HandleIs
<1>14. CASE SessionFails
  <2>1. /\ UNCHANGED <<client, waits, fetched>> /\ server'.up = FALSE
        /\ wire' = (IF IsRequest THEN <<>> ELSE wire) /\ ~IsRequest'
    BY <1>14, FailsIs
  <2>2. IsAnswer' => IsAnswer /\ wire' = wire
    BY <2>1 DEF IsAnswer
  <2>3. Held
    BY <2>1, <1>h
  <2>4. Asked
    BY <2>1, <2>2 DEF Listed
  <2> QED
    BY <2>1, <2>3, <2>4, <1>f, <1>l
<1>15. CASE UNCHANGED vars
  BY <1>15 DEF vars, Listed, From, IsRequest, IsAnswer
<1>16. Next \/ UNCHANGED vars
  OBVIOUS
<1> QED
  BY <1>1, <1>3, <1>4, <1>5, <1>6, <1>7, <1>8, <1>9, <1>10, <1>11, <1>12, <1>13, <1>14, <1>15, <1>16, NextIs

-----------------------------------------------------------------------------

LEMMA InvStep == CInv /\ [Next]_vars => CInv'
BY TypedStep, ConversationStep, GatheredStep, CurrentStep, ListedStep DEF CInv

LEMMA Invariant == Spec => []CInv
BY InitInv, InvStep, PTL DEF Spec

\* Client and server agree at every moment on what is typed, on who speaks
\* next and on the frame numbers: an answer is never refused, and a request
\* goes unanswered only if the session is over.
THEOREM ConversationHolds == Spec => [](Typed /\ Conversation)
<1>1. CInv => Typed /\ Conversation
  BY DEF CInv
<1> QED
  BY <1>1, Invariant, PTL

\* The frame, whatever stack_top_text_update, stack_top_array_basic_update and
\* the flushes of WPushValue, WPopValues and WUpdateValue made of it, does to
\* the stack of the session what the calls asked for, in their order, and it
\* fits max_data_size.
THEOREM UpdatesStayInOrder == Spec => []UpdatesInOrder
<1>1. CInv => UpdatesInOrder
  <2> SUFFICES ASSUME CInv, server.up, ~garbled, client.open, IsAnswer => Head(wire).cmd # "update"
               PROVE  /\ cmd_update_stack(server.stack, Pending) = cmd_update_stack(server.stack, asked)
                      /\ FrameSize(Pending) <= Room
    BY DEF UpdatesInOrder
  <2>1. server.stack \in Stacks
    BY DEF CInv, Typed, Sessions
  <2> QED
    BY <2>1 DEF CInv, Gathered
<1> QED
  BY <1>1, Invariant, PTL

\* What the client kept of an answer is what the server would say now: the
\* value is the one on top of the stack, the names of WFetchGlobal come in
\* order and once, and both sides count the frames alike.
THEOREM AnswersStayCurrent == Spec => []AnswersAreCurrent
<1>1. CInv => AnswersAreCurrent
  BY DEF CInv, Conversation, Current, Listed, AnswersAreCurrent, Idle
<1> QED
  BY <1>1, Invariant, PTL
=============================================================================
