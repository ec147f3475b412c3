----------------------------- MODULE StoreProofs ------------------------------
(***************************************************************************)
(* Proofs about VarStore and, from "Proofs about StoreRepair" on, about    *)
(* the table whose values it keeps, for any number of threads and entries. *)
(*                                                                         *)
(* The invariants about links are inductive only together with what the    *)
(* calls under way know of the entries they stand on (CallsKnow) and with  *)
(* who accounts for a record's reference count (RefsAccounted).            *)
(* That no entry is lost needs to say of each one where its list or chain  *)
(* starts (Placed): from there it is reached, by a descent on a rank that  *)
(* shrinks on the way back; what a chain reaches is computed by recursion, *)
(* and induction is by the smallest natural that contradicts (Least).      *)
(***************************************************************************)
EXTENDS StoreRepair, FiniteSetTheorems, WellFoundedInduction, TLAPS

\* A thread in a loop holds the lock; the entry it stands on is live; past
\* the end of a chain it remembers the last entry; RemoveRecord has cut the
\* entry it will free off from whatever preceded it.
CallKnows(st, c) ==
    /\ c.op # "idle" /\ c.at # Last => Live(st, c.at)
    /\ c.op = "update" /\ c.at = Last => Live(st, c.prev) /\ st.e[c.prev].next = Last
    /\ c.op = "remove" /\ c.at # Last =>
        IF st.e[c.at].first THEN st.e[c.at].prev = 0
        ELSE st.e[c.at].prev \in Ids /\ st.e[st.e[c.at].prev].deleted
    /\ c.op = "idle" => c = Idle
    /\ c.op = "added" => c.rec = c.at /\ c.at # Last
    /\ c.op \in {"get", "remove"} => c.rec = None

CallsKnow ==
    /\ \A t \in Threads : call[t].op \in {"update", "get", "remove"} <=> mSync = t
    /\ \A t \in Threads : CallKnows(s, call[t])

\* Each reference count is accounted for: by the references held, or by the
\* one thread that is adding the record, or by the failure that orphaned it,
\* or it is 0 and the record is being removed.
RefsAccounted ==
    \A r \in Ids :
        /\ owned[r] > 0 => IsFirst(s, r) /\ s.e[r].prev = owned[r]
        /\ \A t \in Threads : call[t].rec = r =>
            /\ IsFirst(s, r) /\ s.e[r].prev = 1 /\ owned[r] = 0 /\ r \notin orphaned
            /\ \A u \in Threads : call[u].rec = r => u = t
        /\ r \in orphaned => IsFirst(s, r) /\ s.e[r].prev = 1 /\ owned[r] = 0
        /\ IsFirst(s, r) /\ owned[r] = 0 /\ r \notin orphaned =>
            \E t \in Threads : call[t].rec = r \/ (call[t].op = "remove" /\ call[t].at = r)

IInv == TypeOK /\ FreeListLinked /\ ChainsLinked /\ CallsKnow /\ RefsAccounted

-----------------------------------------------------------------------------
(* The operators on the store.  Each lemma says which entries an operation *)
(* changes and that the free list it returns is again well linked.         *)

LEMMA StoreParts ==
    ASSUME NEW e \in [Ids -> Entry], NEW f \in 0 .. MaxEntries, NEW c \in 1 .. MaxEntries
    PROVE  [e |-> e, free |-> f, count |-> c] \in Store
BY DEF Store

LEMMA ExtentFacts ==
    ASSUME NEW st \in Store, ListLinked(st), st.free = Last, st.count < MaxEntries
    PROVE  LET r == ExtentFreeList(st) IN
           /\ r \in Store /\ ListLinked(r)
           /\ r.count = st.count + 1 /\ r.free = st.count
           /\ r.e[st.count] = FreeEntry(0, Last)
           /\ \A x \in Ids : x # 0 /\ x # st.count => r.e[x] = st.e[x]
<1> DEFINE r == ExtentFreeList(st)
<1>1. /\ r.count = st.count + 1 /\ r.free = st.count
      /\ r.e = [x \in Ids |-> IF x = st.count THEN FreeEntry(0, Last)
                              ELSE IF x = 0 THEN Relink(st.e[0], st.e[0].prev, st.count)
                              ELSE st.e[x]]
  BY DEF ExtentFreeList
<1>2. st.e \in [Ids -> Entry] /\ st.count \in 1 .. MaxEntries - 1 /\ st.count \in Ids /\ 0 \in Ids
  BY VarStoreAssumption DEF Store, Ids
<1>3. /\ r.e[st.count] = FreeEntry(0, Last)
      /\ r.e[0] = Relink(st.e[0], st.e[0].prev, st.count)
      /\ \A x \in Ids : x # 0 /\ x # st.count => r.e[x] = st.e[x]
  BY <1>1, <1>2
<1>4. r \in Store
  <2>1. r.e \in [Ids -> Entry]
    BY <1>1, <1>2, VarStoreAssumption DEF Entry, FreeEntry, Last, Relink
  <2> QED
    BY <2>1, <1>1, <1>2, VarStoreAssumption DEF Store, ExtentFreeList
<1>5. ListLinked(r)
  <2>1. st.e[0].deleted /\ ~st.e[0].first /\ st.e[0].prev = 0 /\ st.e[0].next = Last
    BY <1>2 DEF ListLinked, ListNode
  <2>2. /\ r.e[0].deleted /\ ~r.e[0].first /\ r.e[0].prev = 0 /\ r.e[0].next = st.count
        /\ r.e[st.count].deleted /\ ~r.e[st.count].first
        /\ r.e[st.count].prev = 0 /\ r.e[st.count].next = Last
    BY <2>1, <1>2, <1>3 DEF FreeEntry, Entry, Relink, Ids
  <2>3. ASSUME NEW x \in 0 .. r.count - 1, r.e[x].deleted
        PROVE  ListNode(r, x)
    <3>1. CASE x = 0 \/ x = st.count
      <4>1. r.count - 1 = st.count /\ st.count \in 1 .. MaxEntries - 1 /\ Last = MaxEntries
        BY <1>1, <1>2 DEF Last
      <4>2. ListNode(r, 0)
        BY <4>1, <2>2, VarStoreAssumption DEF ListNode
      <4>3. ListNode(r, st.count)
        BY <4>1, <2>2, VarStoreAssumption DEF ListNode
      <4> QED
        BY <3>1, <4>2, <4>3
    <3>2. CASE x # 0 /\ x # st.count
      <4>1. x \in 0 .. st.count - 1 /\ x \in Ids /\ r.e[x] = st.e[x]
        BY <3>2, <1>1, <1>2, <1>3, VarStoreAssumption DEF Ids
      <4>2. ListNode(st, x)
        BY <4>1, <2>3 DEF ListLinked
      <4>3. st.e[x].prev # 0
        BY <4>1, <4>2, <3>2, <2>1, VarStoreAssumption DEF ListNode, Last, Ids
      <4>4. ~r.e[x].first
        BY <4>1, <4>2 DEF ListNode
      <4>5. st.e[x].prev \in Ids /\ st.e[x].prev # 0 /\ st.e[x].prev # st.count
        BY <4>2, <4>3, <3>2, <1>2, VarStoreAssumption DEF ListNode, Ids
      <4>6. st.e[x].next # Last =>
              st.e[x].next \in Ids /\ st.e[x].next # 0 /\ st.e[x].next # st.count
        BY <4>2, <1>2, VarStoreAssumption DEF ListNode, Ids
      <4> QED
        BY <4>1, <4>2, <4>4, <4>5, <4>6, <3>2, <1>1, <1>2, <1>3 DEF ListNode
    <3> QED
      BY <3>1, <3>2
  <2> QED
    BY <2>2, <2>3, <1>1 DEF ListLinked
<1> QED
  BY <1>1, <1>3, <1>4, <1>5

LEMMA ExtractFacts ==
    ASSUME NEW st \in Store, ListLinked(st),
           NEW id \in 1 .. st.count - 1, st.e[id].deleted
    PROVE  LET r == ExtractFromFreeList(st, id) IN
           /\ r \in Store /\ ListLinked(r)
           /\ r.count = st.count
           /\ r.e[id] = NoEntry
           /\ \A x \in Ids : x # id => r.e[x].deleted = st.e[x].deleted
           /\ \A x \in Ids : x # id /\ ~st.e[x].deleted /\ x < st.count => r.e[x] = st.e[x]
<1> DEFINE r == ExtractFromFreeList(st, id)
           prev == st.e[id].prev
           next == st.e[id].next
<1>1. /\ r.count = st.count
      /\ r.free = IF st.free = id THEN next ELSE st.free
      /\ r.e = [x \in Ids |->
                IF x = id THEN NoEntry
                ELSE Relink(st.e[x], IF x = next THEN prev ELSE st.e[x].prev,
                                     IF x = prev THEN next ELSE st.e[x].next)]
  BY DEF ExtractFromFreeList, Store
<1>2. /\ st.e \in [Ids -> Entry] /\ st.count \in 1 .. MaxEntries /\ 0 \in Ids
      /\ id \in Ids /\ id # 0 /\ st.free \in 0 .. MaxEntries
      /\ 0 .. st.count - 1 \subseteq Ids
  BY VarStoreAssumption DEF Store, Ids
<1>3. /\ prev \in 0 .. st.count - 1 /\ st.e[prev].deleted /\ st.e[prev].next = id
      /\ next \in 0 .. MaxEntries /\ prev \in Nat
      /\ next # Last => next \in 1 .. st.count - 1 /\ st.e[next].deleted /\ st.e[next].prev = id
  <2>1. st.e[id] \in Entry
    BY <1>2
  <2> QED
    BY <1>2, <2>1, VarStoreAssumption DEF ListLinked, ListNode, Entry
<1>4. /\ r.e[id] = NoEntry
      /\ \A x \in Ids : x # id =>
            /\ r.e[x].deleted = st.e[x].deleted /\ r.e[x].first = st.e[x].first
            /\ r.e[x].next = IF x = prev THEN next ELSE st.e[x].next
            /\ r.e[x].prev = IF x = next THEN prev ELSE st.e[x].prev
  BY <1>1, <1>2 DEF Entry, Relink
<1>5. r \in Store
  <2>1. r.e \in [Ids -> Entry]
    <3> SUFFICES ASSUME NEW x \in Ids PROVE r.e[x] \in Entry
      BY <1>1
    <3>1. st.e[x] \in Entry
      BY <1>2
    <3> QED
      BY <3>1, <1>1, <1>3, VarStoreAssumption DEF Entry, NoEntry, Relink
  <2> QED
    BY <2>1, <1>1, <1>2, <1>3 DEF Store, ExtractFromFreeList
<1>6. \A x \in Ids : x # id /\ ~st.e[x].deleted /\ x < st.count => r.e[x] = st.e[x]
  <2> SUFFICES ASSUME NEW x \in Ids, x # id, ~st.e[x].deleted, x < st.count
               PROVE  r.e[x] = st.e[x]
    OBVIOUS
  <2>1. x # prev /\ x # next
    BY <1>3, VarStoreAssumption DEF Last, Ids
  <2> QED
    BY <2>1, <1>1, <1>2 DEF Entry, Relink
<1>7. ListLinked(r)
  <2>0. r.count = st.count
    BY <1>1
  <2>1. r.e[0].deleted /\ r.e[0].prev = 0 /\ r.e[0].next = r.free
    <3>1. st.e[0].deleted /\ st.e[0].prev = 0 /\ st.e[0].next = st.free
      BY DEF ListLinked
    <3>2. r.e[0].deleted /\ r.e[0].prev = 0
      <4>1. next # 0
        BY <1>3, VarStoreAssumption DEF Last
      <4> QED
        BY <3>1, <4>1, <1>2, <1>4
    <3>3. r.e[0].next = IF prev = 0 THEN next ELSE st.free
      BY <3>1, <1>2, <1>4
    <3>4. st.free = id <=> prev = 0
      <4>1. ASSUME st.free = id PROVE prev = 0
        <5>1. ListNode(st, 0) /\ id # Last
          BY <1>2, <3>1, VarStoreAssumption DEF ListLinked, Last, Ids
        <5> QED
          BY <5>1, <4>1, <3>1 DEF ListNode
      <4> QED
        BY <4>1, <3>1, <1>3
    <3> QED
      BY <3>2, <3>3, <3>4, <1>1
  <2>2. ASSUME NEW x \in 0 .. r.count - 1, r.e[x].deleted
        PROVE  ListNode(r, x)
    <3>1. x # id /\ x \in Ids /\ x \in 0 .. st.count - 1 /\ st.e[x].deleted
      BY <2>2, <1>1, <1>2, <1>4 DEF NoEntry
    <3>2. ListNode(st, x)
      BY <3>1 DEF ListLinked
    <3>3. /\ ~r.e[x].first
          /\ r.e[x].next = IF x = prev THEN next ELSE st.e[x].next
          /\ r.e[x].prev = IF x = next THEN prev ELSE st.e[x].prev
      BY <3>1, <3>2, <1>4 DEF ListNode
    <3>4. ASSUME r.e[x].next # Last
          PROVE  /\ r.e[x].next \in 1 .. r.count - 1
                 /\ r.e[r.e[x].next].deleted
                 /\ r.e[r.e[x].next].prev = x
      <4>1. CASE x = prev
        <5>1. r.e[x].next = next /\ next # id /\ next \in Ids /\ next \in 1 .. st.count - 1
          BY <4>1, <3>1, <3>3, <3>4, <1>2, <1>3
        <5> QED
          BY <5>1, <4>1, <3>4, <2>0, <1>3, <1>4
      <4>2. CASE x # prev
        <5>1. /\ r.e[x].next = st.e[x].next /\ st.e[x].next \in 1 .. st.count - 1
              /\ st.e[st.e[x].next].deleted /\ st.e[st.e[x].next].prev = x
          BY <4>2, <3>2, <3>3, <3>4 DEF ListNode
        <5>2. st.e[x].next # id /\ st.e[x].next # next /\ st.e[x].next \in Ids
          BY <5>1, <4>2, <3>1, <1>2, <1>3, VarStoreAssumption DEF Last
        <5> QED
          BY <5>1, <5>2, <2>0, <1>4
      <4> QED
        BY <4>1, <4>2
    <3>5. ASSUME x # 0
          PROVE  /\ r.e[x].prev \in 0 .. r.count - 1
                 /\ r.e[r.e[x].prev].deleted
                 /\ r.e[r.e[x].prev].next = x
      <4>1. CASE x = next
        <5>1. r.e[x].prev = prev /\ prev # id /\ prev \in Ids
          BY <4>1, <3>1, <3>3, <1>2, <1>3
        <5> QED
          BY ZenonT(30), <5>1, <4>1, <3>1, <3>2, <2>0, <1>3, <1>4 DEF ListNode
      <4>2. CASE x # next
        <5>1. /\ r.e[x].prev = st.e[x].prev /\ st.e[x].prev \in 0 .. st.count - 1
              /\ st.e[st.e[x].prev].deleted /\ st.e[st.e[x].prev].next = x
          BY <4>2, <3>2, <3>3, <3>5 DEF ListNode
        <5>2. st.e[x].prev # id /\ st.e[x].prev # prev /\ st.e[x].prev \in Ids
          BY <5>1, <4>2, <3>1, <1>2, <1>3
        <5> QED
          BY <5>1, <5>2, <2>0, <1>4
      <4> QED
        BY <4>1, <4>2
    <3> QED
      BY <3>3, <3>4, <3>5 DEF ListNode
  <2> QED
    BY <2>1, <2>2 DEF ListLinked
<1> QED
  BY <1>1, <1>4, <1>5, <1>6, <1>7

\* What RemoveRecord's AddToFreeList does to the links, whichever of its three
\* places it chooses: id goes between two neighbours of the list.
LEMMA LinkBetweenFacts ==
    ASSUME NEW st \in Store, ListLinked(st),
           NEW id \in 1 .. st.count - 1, ~st.e[id].deleted,
           NEW prev \in 0 .. st.count - 1, st.e[prev].deleted,
           NEW next \in 0 .. MaxEntries, st.e[prev].next = next,
           NEW free \in 0 .. MaxEntries,
           free = IF prev = 0 THEN id ELSE st.free,
           NEW r, r = [e |-> LinkBetween(st, id, prev, next), free |-> free, count |-> st.count]
    PROVE  /\ r \in Store /\ ListLinked(r)
           /\ r.e[id].deleted
           /\ \A x \in Ids : x # id => r.e[x].deleted = st.e[x].deleted
           /\ \A x \in Ids : x # id /\ ~st.e[x].deleted /\ x < st.count => r.e[x] = st.e[x]
<1>1. /\ r.count = st.count /\ r.free = free
      /\ r.e = [x \in Ids |->
                IF x = id THEN FreeEntry(prev, next)
                ELSE Relink(st.e[x], IF x = next THEN id ELSE st.e[x].prev,
                                     IF x = prev THEN id ELSE st.e[x].next)]
  BY DEF LinkBetween
<1>2. /\ st.e \in [Ids -> Entry] /\ st.count \in 1 .. MaxEntries /\ 0 \in Ids
      /\ id \in Ids /\ id # 0 /\ id \in 0 .. MaxEntries /\ st.free \in 0 .. MaxEntries
      /\ 0 .. st.count - 1 \subseteq Ids /\ prev \in Ids /\ prev \in Nat /\ prev # id
      /\ id \in Nat
  BY VarStoreAssumption DEF Store, Ids
<1>3. next # Last => /\ next \in 1 .. st.count - 1 /\ next \in Ids /\ next # id
                     /\ st.e[next].deleted /\ st.e[next].prev = prev
  BY <1>2 DEF ListLinked, ListNode
<1>4. /\ r.e[id] = FreeEntry(prev, next)
      /\ \A x \in Ids : x # id =>
            /\ r.e[x].deleted = st.e[x].deleted /\ r.e[x].first = st.e[x].first
            /\ r.e[x].next = IF x = prev THEN id ELSE st.e[x].next
            /\ r.e[x].prev = IF x = next THEN id ELSE st.e[x].prev
  BY <1>1, <1>2 DEF Relink
<1>5. r \in Store
  <2>1. r.e \in [Ids -> Entry]
    <3> SUFFICES ASSUME NEW x \in Ids PROVE r.e[x] \in Entry
      BY <1>1
    <3>1. st.e[x] \in Entry
      BY <1>2
    <3>2. CASE x = id
      <4>1. FreeEntry(prev, next) \in Entry
        BY prev \in Nat, next \in 0 .. MaxEntries DEF Entry, FreeEntry
      <4> QED
        BY <3>2, <4>1, <1>4
    <3>3. CASE x # id
      BY <3>1, <3>3, <1>1, <1>2 DEF Entry, Relink
    <3> QED
      BY <3>2, <3>3
  <2> QED
    BY <2>1, <1>1, <1>2 DEF Store
<1>6. \A x \in Ids : x # id /\ ~st.e[x].deleted /\ x < st.count => r.e[x] = st.e[x]
  <2> SUFFICES ASSUME NEW x \in Ids, x # id, ~st.e[x].deleted, x < st.count
               PROVE  r.e[x] = st.e[x]
    OBVIOUS
  <2>1. x # prev /\ x # next
    BY <1>3, VarStoreAssumption DEF Last, Ids
  <2> QED
    BY <2>1, <1>1, <1>2 DEF Entry, Relink
<1>7. ListLinked(r)
  <2>1. r.e[0].deleted /\ r.e[0].prev = 0 /\ r.e[0].next = r.free
    <3>1. st.e[0].deleted /\ st.e[0].prev = 0 /\ st.e[0].next = st.free
      BY DEF ListLinked
    <3>2. next # 0
      BY <1>3, VarStoreAssumption DEF Last
    <3> QED
      BY <3>1, <3>2, <1>1, <1>2, <1>4
  <2>2. ASSUME NEW x \in 0 .. r.count - 1, r.e[x].deleted
        PROVE  ListNode(r, x)
    <3>0. r.count = st.count /\ x \in Ids
      BY <1>1, <1>2
    <3>1. CASE x = id
      <4>1. r.e[x].prev = prev /\ r.e[x].next = next /\ ~r.e[x].first
        BY <3>1, <1>4 DEF FreeEntry
      <4>2. r.e[prev].deleted /\ r.e[prev].next = id
        BY <1>2, <1>4
      <4>3. next # Last => r.e[next].deleted /\ r.e[next].prev = id
        BY <1>3, <1>4
      <4> QED
        BY <3>0, <3>1, <4>1, <4>2, <4>3, <1>3, prev \in 0 .. st.count - 1 DEF ListNode
    <3>2. CASE x # id
      <4>1. ListNode(st, x) /\ st.e[x].deleted
        BY <3>0, <3>2, <2>2, <1>4 DEF ListLinked
      <4>2. /\ ~r.e[x].first
            /\ r.e[x].next = IF x = prev THEN id ELSE st.e[x].next
            /\ r.e[x].prev = IF x = next THEN id ELSE st.e[x].prev
        BY <3>0, <3>2, <4>1, <1>4 DEF ListNode
      <4>3. ASSUME r.e[x].next # Last
            PROVE  /\ r.e[x].next \in 1 .. r.count - 1
                   /\ r.e[r.e[x].next].deleted
                   /\ r.e[r.e[x].next].prev = x
        <5>1. CASE x = prev
          <6>1. r.e[x].next = id /\ r.e[id].deleted /\ r.e[id].prev = prev
            BY <5>1, <4>2, <1>4 DEF FreeEntry
          <6> QED
            BY <6>1, <5>1, <3>0
        <5>2. CASE x # prev
          <6>1. /\ r.e[x].next = st.e[x].next /\ st.e[x].next \in 1 .. st.count - 1
                /\ st.e[st.e[x].next].deleted /\ st.e[st.e[x].next].prev = x
            BY <5>2, <4>1, <4>2, <4>3 DEF ListNode
          <6>2. st.e[x].next # id /\ st.e[x].next # next /\ st.e[x].next \in Ids
            BY <6>1, <5>2, <3>0, <1>2, <1>3, <4>2, <4>3
          <6> QED
            BY <6>1, <6>2, <3>0, <1>4
        <5> QED
          BY <5>1, <5>2
      <4>4. ASSUME x # 0
            PROVE  /\ r.e[x].prev \in 0 .. r.count - 1
                   /\ r.e[r.e[x].prev].deleted
                   /\ r.e[r.e[x].prev].next = x
        <5>1. CASE x = next
          <6>1. r.e[x].prev = id /\ r.e[id].deleted /\ r.e[id].next = next
            BY <5>1, <4>2, <1>4 DEF FreeEntry
          <6> QED
            BY <6>1, <5>1, <3>0
        <5>2. CASE x # next
          <6>1. /\ r.e[x].prev = st.e[x].prev /\ st.e[x].prev \in 0 .. st.count - 1
                /\ st.e[st.e[x].prev].deleted /\ st.e[st.e[x].prev].next = x
            BY <5>2, <4>1, <4>2, <4>4 DEF ListNode
          <6>2. st.e[x].prev # id /\ st.e[x].prev # prev /\ st.e[x].prev \in Ids
            BY <6>1, <5>2, <3>0, <1>2
          <6> QED
            BY <6>1, <6>2, <3>0, <1>4
        <5> QED
          BY <5>1, <5>2
      <4> QED
        BY <4>2, <4>3, <4>4 DEF ListNode
    <3> QED
      BY <3>1, <3>2
  <2> QED
    BY <2>1, <2>2 DEF ListLinked
<1> QED
  BY <1>4, <1>5, <1>6, <1>7 DEF FreeEntry

LEMMA AddToFreeFacts ==
    ASSUME NEW st \in Store, ListLinked(st),
           NEW id \in 1 .. st.count - 1, ~st.e[id].deleted
    PROVE  LET r == AddToFreeList(st, id) IN
           /\ r \in Store /\ ListLinked(r)
           /\ r.count = st.count
           /\ r.e[id].deleted
           /\ \A x \in Ids : x # id => r.e[x].deleted = st.e[x].deleted
           /\ \A x \in Ids : x # id /\ ~st.e[x].deleted /\ x < st.count => r.e[x] = st.e[x]
<1>1. /\ st.count \in 1 .. MaxEntries /\ st.free \in 0 .. MaxEntries
      /\ st.e \in [Ids -> Entry] /\ 0 .. st.count - 1 \subseteq Ids /\ id \in 0 .. MaxEntries
      /\ \A x \in 0 .. st.count - 1 : st.e[x].next \in 0 .. MaxEntries
  <2>1. /\ st.count \in 1 .. MaxEntries /\ st.free \in 0 .. MaxEntries
        /\ st.e \in [Ids -> Entry] /\ 0 .. st.count - 1 \subseteq Ids
    BY VarStoreAssumption DEF Store, Ids
  <2>2. \A x \in Ids : st.e[x] \in Entry
    BY <2>1
  <2> QED
    BY <2>1, <2>2, VarStoreAssumption DEF Entry
<1>2. CASE HasFreeRight(st, id)
  <2> DEFINE prev == st.e[id + 1].prev
             free == IF st.free = id + 1 THEN id ELSE st.free
  <2>1. id + 1 \in 1 .. st.count - 1 /\ st.e[id + 1].deleted
    BY <1>1, <1>2 DEF HasFreeRight
  <2>2. prev \in 0 .. st.count - 1 /\ st.e[prev].deleted /\ st.e[prev].next = id + 1
    BY <2>1, VarStoreAssumption DEF ListLinked, ListNode
  <2>3. st.free = id + 1 <=> prev = 0
    <3>1. 0 \in 0 .. st.count - 1 /\ st.e[0].deleted /\ st.e[0].next = st.free
      BY <1>1 DEF ListLinked
    <3>2. ListNode(st, 0) /\ id + 1 # Last
      BY <3>1, <2>1, <1>1, VarStoreAssumption DEF ListLinked, Last
    <3> QED
      BY <3>1, <3>2, <2>2 DEF ListNode
  <2>4. free = IF prev = 0 THEN id ELSE st.free
    BY <2>3
  <2>5. AddToFreeList(st, id) =
          [e |-> LinkBetween(st, id, prev, id + 1), free |-> free, count |-> st.count]
    BY <1>2 DEF AddToFreeList
  <2>6. free \in 0 .. MaxEntries /\ id + 1 \in 0 .. MaxEntries
    BY <1>1, <2>1, VarStoreAssumption
  <2> HIDE DEF free, prev
  <2> QED
    BY <2>2, <2>4, <2>5, <2>6, LinkBetweenFacts
<1>3. CASE ~HasFreeRight(st, id) /\ HasFreeLeft(st, id)
  <2> DEFINE next == st.e[id - 1].next
  <2>1. id - 1 \in 1 .. st.count - 1 /\ st.e[id - 1].deleted /\ id - 1 # 0
    BY <1>1, <1>3 DEF HasFreeLeft
  <2>2. next \in 0 .. MaxEntries /\ id - 1 \in 0 .. st.count - 1
    BY <2>1, <1>1
  <2>3. AddToFreeList(st, id) =
          [e |-> LinkBetween(st, id, id - 1, next), free |-> st.free, count |-> st.count]
    BY <1>3 DEF AddToFreeList
  <2>4. st.free = IF id - 1 = 0 THEN id ELSE st.free
    BY <2>1
  <2> QED
    BY <2>1, <2>2, <2>3, <2>4, <1>1, LinkBetweenFacts
<1>4. CASE ~HasFreeRight(st, id) /\ ~HasFreeLeft(st, id)
  <2>1. AddToFreeList(st, id) =
          [e |-> LinkBetween(st, id, 0, st.free), free |-> id, count |-> st.count]
    BY <1>4 DEF AddToFreeList
  <2>2. 0 \in 0 .. st.count - 1 /\ st.e[0].deleted /\ st.e[0].next = st.free
    BY <1>1 DEF ListLinked
  <2> QED
    BY <2>1, <2>2, <1>1, LinkBetweenFacts
<1> QED
  BY <1>2, <1>3, <1>4

\* The free list stays linked when only entries of records change.
LEMMA ListIgnoresLive ==
    ASSUME NEW st \in Store, NEW r \in Store, ListLinked(st),
           r.count = st.count, r.free = st.free,
           \A x \in 0 .. st.count - 1 : r.e[x].deleted = st.e[x].deleted,
           \A x \in 0 .. st.count - 1 : st.e[x].deleted => r.e[x] = st.e[x]
    PROVE  ListLinked(r)
<1>1. 0 \in 0 .. st.count - 1
  BY VarStoreAssumption DEF Store
<1>2. r.e[0].deleted /\ r.e[0].prev = 0 /\ r.e[0].next = r.free
  BY <1>1 DEF ListLinked
<1>3. ASSUME NEW x \in 0 .. r.count - 1, r.e[x].deleted
      PROVE  ListNode(r, x)
  <2>1. ListNode(st, x) /\ r.e[x] = st.e[x]
    BY <1>3 DEF ListLinked
  <2>2. st.e[x].next # Last => st.e[x].next \in 0 .. st.count - 1
    BY <2>1 DEF ListNode
  <2> QED
    BY <2>1, <2>2 DEF ListNode
<1> QED
  BY <1>2, <1>3 DEF ListLinked

LEMMA AllocateFacts ==
    ASSUME NEW st \in Store, ListLinked(st),
           NEW p \in 0 .. st.count - 1, p # 0 => ~st.e[p].deleted,
           HasRoom(st, p)
    PROVE  LET r  == AllocateEntry(st, p)
               id == Allocated(st, p)
           IN /\ r \in Store /\ ListLinked(r)
              /\ id \in Ids /\ id # 0 /\ id # p /\ ~Live(st, id) /\ Live(r, id)
              /\ p = 0 => r.e[id].first /\ r.e[id].prev = 1 /\ r.e[id].next = Last
              /\ p # 0 => ~r.e[id].first /\ r.e[id].prev = p /\ r.e[id].next = Last
              /\ \A x \in Ids : x # id => (Live(r, x) <=> Live(st, x))
              /\ \A x \in Ids : Live(st, x) /\ x # p => r.e[x] = st.e[x]
              /\ p # 0 => r.e[p] = Relink(st.e[p], st.e[p].prev, id)
<1> DEFINE id == Allocated(st, p)
           st1 == Extended(st, p)
           st2 == ExtractFromFreeList(st1, id)
           r == AllocateEntry(st, p)
<1>0. /\ st.count \in 1 .. MaxEntries /\ st.free \in 0 .. MaxEntries
      /\ 0 .. st.count - 1 \subseteq Ids
      /\ st.free # Last => st.free \in 1 .. st.count - 1 /\ st.e[st.free].deleted
  <2>1. st.count \in 1 .. MaxEntries /\ st.free \in 0 .. MaxEntries /\ 0 .. st.count - 1 \subseteq Ids
    BY VarStoreAssumption DEF Store, Ids
  <2> QED
    BY <2>1 DEF ListLinked, ListNode
<1>1. /\ st1 \in Store /\ ListLinked(st1)
      /\ id \in 1 .. st1.count - 1 /\ st1.e[id].deleted /\ id # p
      /\ id < st.count => st.e[id].deleted
      /\ st1.count = st.count \/ (st1.count = st.count + 1 /\ id = st.count)
      /\ \A x \in Ids : x # 0 /\ x < st.count => st1.e[x] = st.e[x]
  <2>1. CASE FoundFree(st, p) = Last
    <3>1. st.free = Last /\ st.count < MaxEntries
      BY <2>1, <1>0, VarStoreAssumption DEF HasRoom, FoundFree, Last
    <3>2. st1 = ExtentFreeList(st) /\ id = st.count
      BY <2>1 DEF Extended, Allocated
    <3> QED
      BY <3>1, <3>2, <1>0, ExtentFacts DEF FreeEntry
  <2>2. CASE FoundFree(st, p) # Last
    <3>1. st1 = st /\ id = FoundFree(st, p)
      BY <2>2 DEF Extended, Allocated
    <3>2. id \in 1 .. st.count - 1 /\ st.e[id].deleted
      BY <2>2, <3>1, <1>0, VarStoreAssumption DEF FoundFree
    <3>3. id # p
      BY <3>2
    <3> QED
      BY <3>1, <3>2, <3>3
  <2> QED
    BY <2>1, <2>2
<1>2. /\ st2 \in Store /\ ListLinked(st2)
      /\ st2.count = st1.count
      /\ st2.e[id] = NoEntry
      /\ \A x \in Ids : x # id => st2.e[x].deleted = st1.e[x].deleted
      /\ \A x \in Ids : x # id /\ ~st1.e[x].deleted /\ x < st1.count => st2.e[x] = st1.e[x]
  BY <1>1, ExtractFacts
<1>3. /\ id \in Ids /\ id # 0 /\ p \in Ids /\ id < st2.count /\ st2.count \in 1 .. MaxEntries
      /\ st2.e \in [Ids -> Entry] /\ st2.free \in 0 .. MaxEntries /\ id \in 0 .. MaxEntries
      /\ p \in Nat /\ Last \in 0 .. MaxEntries
      /\ \A x \in Ids : x # id => (x < st2.count <=> x < st.count)
  BY SMTT(30), <1>0, <1>1, <1>2, VarStoreAssumption DEF Store, Ids, Last
<1>4. /\ \A x \in Ids : x # id => (Live(st2, x) <=> Live(st, x))
      /\ \A x \in Ids : Live(st, x) => st2.e[x] = st.e[x] /\ x # id
      /\ ~Live(st, id)
  BY SMTT(30), <1>0, <1>1, <1>2, <1>3 DEF Live, Ids
<1>5. p # 0 => ~st2.e[p].deleted /\ st2.e[p] = st.e[p] /\ p < st2.count
  <2>1. p # 0 => Live(st, p)
    BY <1>0 DEF Live
  <2> QED
    BY <2>1, <1>1, <1>3, <1>4 DEF Live
<1>6. CASE p = 0
  <2>1. r = StartRecord(st2, id)
    BY <1>6 DEF AllocateEntry
  <2>2. /\ r.count = st2.count /\ r.free = st2.free
        /\ r.e[id] = [deleted |-> FALSE, first |-> TRUE, prev |-> 1, next |-> Last]
        /\ \A x \in Ids : x # id => r.e[x] = st2.e[x]
    BY <2>1, <1>3 DEF StartRecord
  <2>3. r \in Store
    <3>1. [deleted |-> FALSE, first |-> TRUE, prev |-> 1, next |-> Last] \in Entry
      BY <1>3 DEF Entry
    <3>2. \A x \in Ids : st2.e[x] \in Entry
      BY <1>3
    <3>3. [x \in Ids |-> IF x = id
              THEN [deleted |-> FALSE, first |-> TRUE, prev |-> 1, next |-> Last]
              ELSE st2.e[x]] \in [Ids -> Entry]
      BY <3>1, <3>2
    <3> QED
      BY <3>3, <2>1, <1>3, StoreParts DEF StartRecord
  <2>4. ListLinked(r)
    <3>1. \A x \in 0 .. st2.count - 1 : x \in Ids
      BY <1>3, VarStoreAssumption DEF Ids
    <3>2. st2.e[id].deleted = FALSE /\ r.e[id].deleted = FALSE
      BY <2>2, <1>2 DEF NoEntry
    <3>3. \A x \in 0 .. st2.count - 1 : r.e[x].deleted = st2.e[x].deleted
      BY <3>1, <3>2, <2>2
    <3>4. \A x \in 0 .. st2.count - 1 : st2.e[x].deleted => r.e[x] = st2.e[x]
      BY <3>1, <3>2, <2>2
    <3> HIDE DEF r, st2
    <3> QED
      BY <3>3, <3>4, <2>2, <2>3, <1>2, ListIgnoresLive
  <2> QED
    BY <1>6, <2>2, <2>3, <2>4, <1>1, <1>3, <1>4 DEF Live
<1>7. CASE p # 0
  <2>1. r = LinkBehind(st2, p, id)
    BY <1>7 DEF AllocateEntry
  <2>2. /\ r.count = st2.count /\ r.free = st2.free
        /\ r.e[id] = Relink(NoEntry, p, Last)
        /\ r.e[p] = Relink(st2.e[p], st2.e[p].prev, id)
        /\ \A x \in Ids : x # id /\ x # p => r.e[x] = st2.e[x]
    BY <2>1, <1>1, <1>3 DEF LinkBehind
  <2>3. r \in Store
    <3>1. Relink(NoEntry, p, Last) \in Entry /\ Relink(st2.e[p], st2.e[p].prev, id) \in Entry
      <4>1. st2.e[p] \in Entry
        BY <1>3
      <4> QED
        BY <4>1, <1>3 DEF Entry, Relink, NoEntry
    <3>2. \A x \in Ids : st2.e[x] \in Entry
      BY <1>3
    <3>3. [x \in Ids |-> IF x = id THEN Relink(NoEntry, p, Last)
                         ELSE IF x = p THEN Relink(st2.e[x], st2.e[x].prev, id)
                         ELSE st2.e[x]] \in [Ids -> Entry]
      BY <3>1, <3>2
    <3> QED
      BY <3>3, <2>1, <1>3, StoreParts DEF LinkBehind
  <2>4. ListLinked(r)
    <3>1. \A x \in 0 .. st2.count - 1 : x \in Ids
      BY <1>3, VarStoreAssumption DEF Ids
    <3>2. /\ st2.e[id].deleted = FALSE /\ r.e[id].deleted = FALSE
          /\ r.e[p].deleted = st2.e[p].deleted /\ ~st2.e[p].deleted
      BY <2>2, <1>2, <1>5, <1>7 DEF Relink, NoEntry
    <3>3. \A x \in 0 .. st2.count - 1 : r.e[x].deleted = st2.e[x].deleted
      BY <3>1, <3>2, <2>2
    <3>4. \A x \in 0 .. st2.count - 1 : st2.e[x].deleted => r.e[x] = st2.e[x]
      BY <3>1, <3>2, <2>2
    <3> HIDE DEF r, st2
    <3> QED
      BY <3>3, <3>4, <2>2, <2>3, <1>2, ListIgnoresLive
  <2> QED
    BY <1>7, <2>2, <2>3, <2>4, <1>1, <1>3, <1>4, <1>5 DEF Live, Relink, NoEntry
<1> QED
  BY <1>6, <1>7

-----------------------------------------------------------------------------
(* What the same operations do to the chains of the records. *)

LEMMA ChainsAllocate ==
    ASSUME NEW st \in Store, ListLinked(st), ChainsOK(st, {}),
           NEW p \in 0 .. st.count - 1, p # 0 => Live(st, p) /\ st.e[p].next = Last,
           HasRoom(st, p)
    PROVE  ChainsOK(AllocateEntry(st, p), {})
<1> DEFINE r == AllocateEntry(st, p)
           id == Allocated(st, p)
<1>1. /\ id \in Ids /\ id # 0 /\ id # p /\ ~Live(st, id) /\ Live(r, id)
      /\ p = 0 => r.e[id].first /\ r.e[id].next = Last
      /\ p # 0 => ~r.e[id].first /\ r.e[id].prev = p /\ r.e[id].next = Last
      /\ \A x \in Ids : x # id => (Live(r, x) <=> Live(st, x))
      /\ \A x \in Ids : Live(st, x) /\ x # p => r.e[x] = st.e[x]
      /\ p # 0 => r.e[p] = Relink(st.e[p], st.e[p].prev, id)
  BY AllocateFacts DEF Live
<1>2. p \in Ids /\ Last \notin Ids
  BY VarStoreAssumption DEF Store, Ids, Last
<1>3. p # 0 => /\ r.e[p].first = st.e[p].first /\ r.e[p].prev = st.e[p].prev
               /\ r.e[p].next = id
  BY <1>1 DEF Relink
<1>4. ASSUME NEW x \in Ids, Live(st, x), x # p
      PROVE  LinkedTo(r, x) /\ (~r.e[x].first => LinkedFrom(r, x))
  <2>1. LinkedTo(st, x) /\ (~st.e[x].first => LinkedFrom(st, x)) /\ r.e[x] = st.e[x] /\ x # id
    BY <1>1, <1>4 DEF ChainsOK
  <2>2. LinkedTo(r, x)
    <3>1. SUFFICES ASSUME st.e[x].next # Last
                   PROVE /\ Live(r, st.e[x].next) /\ ~r.e[st.e[x].next].first
                         /\ r.e[st.e[x].next].prev = x
      BY <2>1 DEF LinkedTo
    <3>2. st.e[x].next \in Ids /\ Live(st, st.e[x].next) /\ st.e[x].next # id
          /\ ~st.e[st.e[x].next].first /\ st.e[st.e[x].next].prev = x
      <4>1. st.e[x] \in Entry
        BY DEF Store
      <4> QED
        BY <4>1, <3>1, <2>1, <1>1, VarStoreAssumption DEF LinkedTo, Entry, Ids, Last
    <3>3. CASE st.e[x].next = p
      BY <3>2, <3>3, <1>1, <1>3 DEF Live
    <3>4. CASE st.e[x].next # p
      BY <3>2, <3>4, <1>1
    <3> QED
      BY <3>3, <3>4
  <2>3. ASSUME ~r.e[x].first PROVE LinkedFrom(r, x)
    <3>1. st.e[x].prev \in Ids /\ Live(st, st.e[x].prev) /\ st.e[st.e[x].prev].next = x
      BY <2>1, <2>3 DEF LinkedFrom
    <3>2. st.e[x].prev # p
      BY <3>1, <1>2 DEF Live
    <3> QED
      BY <3>1, <3>2, <2>1, <1>1 DEF LinkedFrom
  <2> QED
    BY <2>2, <2>3
<1>5. ASSUME p # 0
      PROVE  LinkedTo(r, p) /\ (~r.e[p].first => LinkedFrom(r, p))
  <2>1. LinkedTo(r, p)
    BY <1>1, <1>3, <1>5 DEF LinkedTo
  <2>2. ASSUME ~r.e[p].first PROVE LinkedFrom(r, p)
    <3>1. st.e[p].prev \in Ids /\ Live(st, st.e[p].prev) /\ st.e[st.e[p].prev].next = p
      <4>1. Live(st, p) /\ ~st.e[p].first /\ p \notin {}
        BY <1>3, <1>5, <2>2
      <4> QED
        BY <4>1, <1>2 DEF LinkedFrom, ChainsOK
    <3>2. st.e[p].prev # p /\ st.e[p].prev # id
      BY <3>1, <1>1, <1>2, <1>5
    <3> QED
      BY <3>1, <3>2, <1>1, <1>3, <1>5 DEF LinkedFrom
  <2> QED
    BY <2>1, <2>2
<1>6. LinkedTo(r, id) /\ (~r.e[id].first => LinkedFrom(r, id))
  <2>1. r.e[id].next = Last
    BY <1>1
  <2>2. ~r.e[id].first => LinkedFrom(r, id)
    BY <1>1, <1>2, <1>3 DEF LinkedFrom
  <2> QED
    BY <2>1, <2>2 DEF LinkedTo
<1>7. ASSUME NEW x \in Ids, Live(r, x)
      PROVE  LinkedTo(r, x) /\ (~r.e[x].first => LinkedFrom(r, x))
  <2>1. x # 0
    BY <1>7, VarStoreAssumption DEF Live
  <2> QED
    BY <2>1, <1>1, <1>4, <1>5, <1>6, <1>7
<1> QED
  BY <1>7 DEF ChainsOK

\* Freeing the entry RemoveRecord stands on leaves the next one headless.
LEMMA ChainsFree ==
    ASSUME NEW st \in Store, ListLinked(st),
           NEW id \in Ids, Live(st, id), ChainsOK(st, {id}),
           st.e[id].first \/ (st.e[id].prev \in Ids /\ st.e[st.e[id].prev].deleted)
    PROVE  /\ ChainsOK(AddToFreeList(st, id), {st.e[id].next} \ {Last})
           /\ st.e[id].next # Last =>
                /\ Live(AddToFreeList(st, id), st.e[id].next)
                /\ ~AddToFreeList(st, id).e[st.e[id].next].first
                /\ AddToFreeList(st, id).e[st.e[id].next].prev = id
<1> DEFINE r == AddToFreeList(st, id)
           next == st.e[id].next
<1>1. /\ r.count = st.count /\ r.e[id].deleted
      /\ \A x \in Ids : x # id => r.e[x].deleted = st.e[x].deleted
      /\ \A x \in Ids : x # id /\ ~st.e[x].deleted /\ x < st.count => r.e[x] = st.e[x]
  <2>1. id \in 1 .. st.count - 1 /\ ~st.e[id].deleted
    BY VarStoreAssumption DEF Live, Ids, Store
  <2> QED
    BY <2>1, AddToFreeFacts
<1>2. /\ \A x \in Ids : x # id => (Live(r, x) <=> Live(st, x))
      /\ \A x \in Ids : x # id /\ Live(st, x) => r.e[x] = st.e[x]
      /\ ~Live(r, id)
  BY <1>1 DEF Live
<1>3. next # Last => next \in Ids /\ Live(st, next) /\ next # id
                     /\ ~st.e[next].first /\ st.e[next].prev = id
  <2>1. st.e[id] \in Entry
    BY DEF Store
  <2>2. LinkedTo(st, id)
    BY DEF ChainsOK
  <2>3. next # Last => next \in Ids /\ Live(st, next) /\ ~st.e[next].first /\ st.e[next].prev = id
    BY <2>1, <2>2, VarStoreAssumption DEF LinkedTo, Entry, Ids, Last
  <2>4. next # id
    <3>1. CASE st.e[id].first
      BY <3>1, <2>3, VarStoreAssumption DEF Last, Ids
    <3>2. CASE st.e[st.e[id].prev].deleted
      BY <3>2, <2>3, VarStoreAssumption DEF Last, Ids, Live
    <3> QED
      BY <3>1, <3>2
  <2> QED
    BY <2>3, <2>4
<1>4. ASSUME NEW x \in Ids, Live(r, x)
      PROVE  LinkedTo(r, x) /\ (~r.e[x].first /\ x \notin ({next} \ {Last}) => LinkedFrom(r, x))
  <2>1. x # id /\ Live(st, x) /\ r.e[x] = st.e[x]
    BY <1>2, <1>4
  <2>2. LinkedTo(st, x) /\ (~st.e[x].first => LinkedFrom(st, x))
    BY <2>1 DEF ChainsOK
  <2>3. LinkedTo(r, x)
    <3>1. SUFFICES ASSUME st.e[x].next # Last
                   PROVE /\ Live(r, st.e[x].next) /\ ~r.e[st.e[x].next].first
                         /\ r.e[st.e[x].next].prev = x
      BY <2>1 DEF LinkedTo
    <3>2. /\ st.e[x].next \in Ids /\ Live(st, st.e[x].next)
          /\ ~st.e[st.e[x].next].first /\ st.e[st.e[x].next].prev = x
      <4>1. st.e[x] \in Entry
        BY DEF Store
      <4> QED
        BY <4>1, <3>1, <2>2, VarStoreAssumption DEF LinkedTo, Entry, Ids, Last
    <3>3. st.e[x].next # id
      BY <3>2, <2>1 DEF Live
    <3> QED
      BY <3>2, <3>3, <1>2
  <2>4. ASSUME ~r.e[x].first, x \notin ({next} \ {Last})
        PROVE  LinkedFrom(r, x)
    <3>1. st.e[x].prev \in Ids /\ Live(st, st.e[x].prev) /\ st.e[st.e[x].prev].next = x
      BY <2>1, <2>2, <2>4 DEF LinkedFrom
    <3>2. st.e[x].prev # id
      BY <3>1, <2>4, VarStoreAssumption DEF Last, Ids
    <3> QED
      BY <3>1, <3>2, <2>1, <1>2 DEF LinkedFrom
  <2> QED
    BY <2>3, <2>4
<1>5. ChainsOK(r, {next} \ {Last})
  BY <1>4 DEF ChainsOK
<1> QED
  BY <1>2, <1>3, <1>5

LEMMA SetRefsFacts ==
    ASSUME NEW st \in Store, ListLinked(st), ChainsOK(st, {}),
           NEW id \in Ids, IsFirst(st, id), NEW n \in Nat
    PROVE  LET r == SetRefs(st, id, n) IN
           /\ r \in Store /\ ListLinked(r) /\ ChainsOK(r, {})
           /\ r.e[id].prev = n /\ r.e[id].first
           /\ \A x \in Ids : Live(r, x) <=> Live(st, x)
           /\ \A x \in Ids : x # id => r.e[x] = st.e[x]
           /\ r.e[id].next = st.e[id].next
<1> DEFINE r == SetRefs(st, id, n)
<1>1. /\ r.count = st.count /\ r.free = st.free
      /\ r.e[id] = Relink(st.e[id], n, st.e[id].next)
      /\ \A x \in Ids : x # id => r.e[x] = st.e[x]
  BY DEF SetRefs
<1>2. /\ r.e[id].prev = n /\ r.e[id].first = st.e[id].first
      /\ r.e[id].deleted = st.e[id].deleted /\ r.e[id].next = st.e[id].next
      /\ st.e[id].first /\ ~st.e[id].deleted
  BY <1>1 DEF Relink, IsFirst, Live
<1>3. r \in Store
  <2>1. \A x \in Ids : st.e[x] \in Entry
    BY DEF Store
  <2>2. Relink(st.e[id], n, st.e[id].next) \in Entry
    BY <2>1 DEF Relink, Entry
  <2>3. [x \in Ids |-> IF x = id THEN Relink(st.e[x], n, st.e[x].next) ELSE st.e[x]] \in [Ids -> Entry]
    BY <2>1, <2>2
  <2>4. st.free \in 0 .. MaxEntries /\ st.count \in 1 .. MaxEntries
    BY DEF Store
  <2> QED
    BY <2>3, <2>4, StoreParts DEF SetRefs
<1>4. ListLinked(r)
  <2>1. \A x \in 0 .. st.count - 1 : x \in Ids
    BY VarStoreAssumption DEF Ids, Store
  <2>2. \A x \in 0 .. st.count - 1 : r.e[x].deleted = st.e[x].deleted
    BY <2>1, <1>1, <1>2
  <2>3. \A x \in 0 .. st.count - 1 : st.e[x].deleted => r.e[x] = st.e[x]
    BY <2>1, <1>1, <1>2
  <2> HIDE DEF r
  <2> QED
    BY <2>2, <2>3, <1>1, <1>3, ListIgnoresLive
<1>5. /\ \A x \in Ids : Live(r, x) <=> Live(st, x)
      /\ \A x \in Ids : r.e[x].first = st.e[x].first /\ r.e[x].next = st.e[x].next
  BY <1>1, <1>2 DEF Live
<1>6. ASSUME NEW x \in Ids, Live(r, x)
      PROVE  LinkedTo(r, x) /\ (~r.e[x].first => LinkedFrom(r, x))
  <2>1. LinkedTo(st, x) /\ (~st.e[x].first => LinkedFrom(st, x)) /\ st.e[x] \in Entry
    BY <1>5, <1>6 DEF ChainsOK, Store
  <2>2. LinkedTo(r, x)
    <3>1. SUFFICES ASSUME st.e[x].next # Last
                   PROVE /\ Live(r, st.e[x].next) /\ ~r.e[st.e[x].next].first
                         /\ r.e[st.e[x].next].prev = x
      BY <1>5 DEF LinkedTo
    <3>2. /\ st.e[x].next \in Ids /\ Live(st, st.e[x].next)
          /\ ~st.e[st.e[x].next].first /\ st.e[st.e[x].next].prev = x
      BY <3>1, <2>1, VarStoreAssumption DEF LinkedTo, Entry, Ids, Last
    <3> QED
      BY <3>2, <1>1, <1>2, <1>5
  <2>3. ASSUME ~r.e[x].first PROVE LinkedFrom(r, x)
    <3>1. x # id /\ r.e[x] = st.e[x]
      BY <2>3, <1>1, <1>2
    <3> QED
      BY <3>1, <2>1, <2>3, <1>5 DEF LinkedFrom
  <2> QED
    BY <2>2, <2>3
<1> QED
  BY <1>1, <1>2, <1>3, <1>4, <1>5, <1>6 DEF ChainsOK

-----------------------------------------------------------------------------
(* The inductive invariant. *)

LEMMA InitIInv == Init => IInv
<1> SUFFICES ASSUME Init PROVE IInv
  OBVIOUS
<1>1. /\ s.count = 1 /\ s.free = Last
      /\ s.e = [id \in Ids |-> IF id = 0 THEN FreeEntry(0, Last) ELSE NoEntry]
  BY DEF Init, EmptyStore
<1>2. 0 \in Ids /\ Last \in 0 .. MaxEntries /\ 1 \in 1 .. MaxEntries
  BY VarStoreAssumption DEF Ids, Last
<1>3. s \in Store
  <2>1. FreeEntry(0, Last) \in Entry /\ NoEntry \in Entry
    BY <1>2, VarStoreAssumption DEF FreeEntry, NoEntry, Entry
  <2>2. [id \in Ids |-> IF id = 0 THEN FreeEntry(0, Last) ELSE NoEntry] \in [Ids -> Entry]
    BY <2>1
  <2> QED
    BY <2>2, <1>2, StoreParts DEF Init, EmptyStore
<1>4. TypeOK
  <2>1. Idle \in Calls
    BY <1>2, VarStoreAssumption DEF Idle, Calling, Calls, Ops
  <2> QED
    BY <1>3, <2>1 DEF Init, TypeOK
<1>5. s.e[0] = FreeEntry(0, Last) /\ \A id \in Ids : ~Live(s, id)
  BY <1>1, <1>2 DEF Live, Ids
<1>6. FreeListLinked
  BY <1>1, <1>5 DEF FreeListLinked, ListLinked, ListNode, FreeEntry
<1>7. ChainsLinked
  BY <1>5 DEF ChainsLinked, ChainsOK
<1>8. CallsKnow
  BY VarStoreAssumption DEF Init, CallsKnow, CallKnows, Idle, Calling
<1>9. RefsAccounted
  BY <1>5, VarStoreAssumption DEF Init, RefsAccounted, IsFirst, Idle, Calling, Ids
<1> QED
  BY <1>4, <1>6, <1>7, <1>8, <1>9 DEF IInv

\* What the invariant says while nobody holds the lock.
LEMMA Unlocked ==
    ASSUME IInv, mSync = None
    PROVE  /\ Removing = {} /\ ChainsOK(s, {})
           /\ \A t \in Threads : call[t].op \in {"idle", "added"}
<1>1. \A t \in Threads : call[t].op \in {"idle", "added"}
  <2> SUFFICES ASSUME NEW t \in Threads PROVE call[t].op \in {"idle", "added"}
    OBVIOUS
  <2>1. call[t].op \in Ops /\ mSync # t
    BY VarStoreAssumption DEF IInv, TypeOK, Calls
  <2> QED
    BY <2>1 DEF IInv, CallsKnow, Ops
<1>2. Removing = {}
  BY <1>1 DEF Removing
<1> QED
  BY <1>1, <1>2 DEF IInv, ChainsLinked

\* While a thread holds it, the others are outside the loops.
LEMMA Locked ==
    ASSUME IInv, NEW t \in Threads, call[t].op \in {"update", "get", "remove"}
    PROVE  /\ mSync = t
           /\ \A u \in Threads : u # t => call[u].op \in {"idle", "added"}
           /\ Removing = IF call[t].op = "remove" THEN {call[t].at} \ {Last} ELSE {}
<1>1. mSync = t
  BY DEF IInv, CallsKnow
<1>2. ASSUME NEW u \in Threads, u # t
      PROVE  call[u].op \in {"idle", "added"}
  <2>1. call[u].op \in Ops /\ mSync # u
    BY <1>1, <1>2 DEF IInv, TypeOK, Calls
  <2> QED
    BY <2>1 DEF IInv, CallsKnow, Ops
<1>3. \A u \in Threads : call[u].op = "remove" => u = t
  BY <1>2
<1>4. Removing = IF call[t].op = "remove" THEN {call[t].at} \ {Last} ELSE {}
  BY <1>3 DEF Removing
<1> QED
  BY <1>1, <1>2, <1>4

LEMMA AddRecordIInv ==
    ASSUME IInv, NEW t \in Threads, NEW size \in 0 .. MaxGrow, AddRecord(t, size)
    PROVE  IInv'
<1> DEFINE id == Allocated(s, 0)
<1>1. /\ mSync = None /\ call[t].op = "idle" /\ HasRoom(s, 0)
      /\ s' = AllocateEntry(s, 0) /\ UNCHANGED <<mSync, orphaned>>
      /\ \/ size > 0 /\ call' = [call EXCEPT ![t] = Calling("added", id, id, 0, size)]
            /\ owned' = owned
         \/ size = 0 /\ owned' = [owned EXCEPT ![id] = 1] /\ call' = call
  BY DEF AddRecord, CanStart
<1>2. /\ Removing = {} /\ ChainsOK(s, {})
      /\ \A u \in Threads : call[u].op \in {"idle", "added"}
  BY <1>1, Unlocked
<1>3. /\ s \in Store /\ ListLinked(s) /\ 0 \in 0 .. s.count - 1
      /\ call \in [Threads -> Calls] /\ owned \in [Ids -> Nat] /\ orphaned \subseteq Ids
      /\ Last \notin Ids /\ None \notin Ids /\ 0 \in Ids
  BY VarStoreAssumption DEF IInv, TypeOK, FreeListLinked, Store, Ids, Last
<1>4. /\ s' \in Store /\ ListLinked(s') /\ ChainsOK(s', {})
      /\ id \in Ids /\ ~Live(s, id) /\ Live(s', id)
      /\ s'.e[id].first /\ s'.e[id].prev = 1
      /\ \A x \in Ids : x # id => (Live(s', x) <=> Live(s, x))
      /\ \A x \in Ids : Live(s, x) => s'.e[x] = s.e[x] /\ x # id /\ Live(s', x)
  <2>1. ~Live(s, 0)
    BY DEF Live
  <2> QED
    BY <2>1, <1>1, <1>2, <1>3, AllocateFacts, ChainsAllocate
<1>5. /\ \A x \in Ids : IsFirst(s, x) => IsFirst(s', x) /\ s'.e[x].prev = s.e[x].prev /\ x # id
      /\ \A x \in Ids : x # id /\ IsFirst(s', x) => IsFirst(s, x)
      /\ IsFirst(s', id) /\ ~IsFirst(s, id)
  BY <1>4 DEF IsFirst
<1>6. /\ owned[id] = 0 /\ id \notin orphaned /\ \A u \in Threads : call[u].rec # id
  BY <1>3, <1>4, <1>5 DEF IInv, RefsAccounted
<1>7. TypeOK'
  <2>1. Calling("added", id, id, 0, size) \in Calls
    BY <1>3, <1>4, VarStoreAssumption DEF Calling, Calls, Ops, Ids
  <2> QED
    BY <2>1, <1>1, <1>3, <1>4 DEF IInv, TypeOK
<1>8. FreeListLinked'
  BY <1>4 DEF FreeListLinked
<1>9. \A u \in Threads : call'[u].op \in {"idle", "added"}
  BY <1>1, <1>2, <1>3 DEF Calling
<1>10. ChainsLinked'
  <2>1. Removing' = {}
    BY <1>9 DEF Removing
  <2> QED
    BY <2>1, <1>4 DEF ChainsLinked
<1>11. CallsKnow'
  <2>1. \A u \in Threads : call'[u].op \in {"update", "get", "remove"} <=> mSync' = u
    BY <1>1, <1>9, VarStoreAssumption
  <2>2. ASSUME NEW u \in Threads PROVE CallKnows(s', call'[u])
    <3>1. CallKnows(s, call[u])
      BY DEF IInv, CallsKnow
    <3>2. CASE call'[u] = call[u]
      <4>1. call[u].op # "idle" => call[u].at \in Ids
        BY <3>1, <1>2, <1>3, VarStoreAssumption DEF CallKnows, Calls, Ids, Last
      <4> QED
        BY <3>1, <3>2, <4>1, <1>2, <1>4 DEF CallKnows
    <3>3. CASE call'[u] = Calling("added", id, id, 0, size)
      BY <3>3, <1>3, <1>4 DEF CallKnows, Calling
    <3> QED
      BY <3>2, <3>3, <1>1, <1>3
  <2> QED
    BY <2>1, <2>2 DEF CallsKnow
<1>12. RefsAccounted'
  <2> SUFFICES ASSUME NEW r \in Ids
               PROVE  /\ owned'[r] > 0 => IsFirst(s', r) /\ s'.e[r].prev = owned'[r]
                      /\ \A u \in Threads : call'[u].rec = r =>
                            /\ IsFirst(s', r) /\ s'.e[r].prev = 1 /\ owned'[r] = 0 /\ r \notin orphaned
                            /\ \A v \in Threads : call'[v].rec = r => v = u
                      /\ r \in orphaned => IsFirst(s', r) /\ s'.e[r].prev = 1 /\ owned'[r] = 0
                      /\ IsFirst(s', r) /\ owned'[r] = 0 /\ r \notin orphaned =>
                            \E u \in Threads :
                                call'[u].rec = r \/ (call'[u].op = "remove" /\ call'[u].at = r)
    BY <1>1 DEF RefsAccounted
  <2>1. CASE r = id
    BY <2>1, <1>1, <1>3, <1>4, <1>5, <1>6 DEF Calling
  <2>2. CASE r # id
    <3>1. /\ owned'[r] = owned[r]
          /\ \A u \in Threads : call'[u].rec = r <=> call[u].rec = r
          /\ \A u \in Threads : call'[u].op = "remove" <=> call[u].op = "remove"
      <4>1. call[t] = Idle
        BY <1>1 DEF IInv, CallsKnow, CallKnows
      <4> QED
        BY <4>1, <2>2, <1>1, <1>2, <1>3 DEF Calling, Idle
    <3>2. \A u \in Threads : call[u].op # "remove"
      BY <1>2
    <3> QED
      BY <3>1, <3>2, <2>2, <1>4, <1>5 DEF IInv, RefsAccounted
  <2> QED
    BY <2>1, <2>2
<1> QED
  BY <1>7, <1>8, <1>10, <1>11, <1>12 DEF IInv

\* A step that only moves one thread on: the store and its links stay.
LEMMA SameStore ==
    ASSUME IInv, NEW t \in Threads, NEW c \in Calls,
           s' = s, call' = [call EXCEPT ![t] = c], CallKnows(s, c),
           mSync \in {t, None}, mSync' \in {t, None},
           c.op \in {"update", "get", "remove"} <=> mSync' = t,
           c.op # "remove", call[t].op = "remove" => call[t].at = Last
    PROVE  /\ s' \in Store /\ mSync' \in Threads \cup {None} /\ call' \in [Threads -> Calls]
           /\ FreeListLinked' /\ ChainsLinked' /\ CallsKnow'
<1>1. call \in [Threads -> Calls] /\ s \in Store
  BY DEF IInv, TypeOK
<1>2. call'[t] = c /\ \A u \in Threads : u # t => call'[u] = call[u]
  BY <1>1
<1>3. \A u \in Threads : u # t => call[u].op \in {"idle", "added"}
  <2> SUFFICES ASSUME NEW u \in Threads, u # t PROVE call[u].op \in {"idle", "added"}
    OBVIOUS
  <2>1. call[u].op \in Ops /\ mSync # u
    BY <1>1, VarStoreAssumption DEF Calls
  <2> QED
    BY <2>1 DEF IInv, CallsKnow, Ops
<1>4. Removing = {} /\ Removing' = {}
  BY <1>2, <1>3 DEF Removing
<1>5. ChainsLinked'
  BY <1>4 DEF IInv, ChainsLinked
<1>6. \A u \in Threads : call'[u].op \in {"update", "get", "remove"} <=> mSync' = u
  BY <1>2, <1>3, VarStoreAssumption
<1>7. \A u \in Threads : CallKnows(s', call'[u])
  BY <1>2 DEF IInv, CallsKnow
<1> QED
  BY <1>1, <1>2, <1>5, <1>6, <1>7 DEF IInv, CallsKnow, FreeListLinked

\* A step that neither changes a count nor what a thread owes to a record.
LEMMA SameRefs ==
    ASSUME IInv, NEW t \in Threads, NEW c \in Calls, s' = s, call' = [call EXCEPT ![t] = c],
           owned' = owned, orphaned' = orphaned, c.rec = call[t].rec,
           call[t].op = "remove" => call[t].at = Last
    PROVE  RefsAccounted'
<1>1. call \in [Threads -> Calls] /\ Last \notin Ids
  BY VarStoreAssumption DEF IInv, TypeOK, Last, Ids
<1>2. /\ \A u \in Threads : call'[u].rec = call[u].rec
      /\ \A u \in Threads : u # t => call'[u] = call[u]
  BY <1>1
<1>3. SUFFICES ASSUME NEW r \in Ids
               PROVE  /\ owned[r] > 0 => IsFirst(s, r) /\ s.e[r].prev = owned[r]
                      /\ \A u \in Threads : call[u].rec = r =>
                            /\ IsFirst(s, r) /\ s.e[r].prev = 1 /\ owned[r] = 0 /\ r \notin orphaned
                            /\ \A v \in Threads : call[v].rec = r => v = u
                      /\ r \in orphaned => IsFirst(s, r) /\ s.e[r].prev = 1 /\ owned[r] = 0
                      /\ IsFirst(s, r) /\ owned[r] = 0 /\ r \notin orphaned =>
                            \E u \in Threads :
                                call'[u].rec = r \/ (call'[u].op = "remove" /\ call'[u].at = r)
  BY <1>2 DEF RefsAccounted
<1>4. IsFirst(s, r) /\ owned[r] = 0 /\ r \notin orphaned =>
        \E u \in Threads : call[u].rec = r \/ (call[u].op = "remove" /\ call[u].at = r)
  BY DEF IInv, RefsAccounted
<1>5. \A u \in Threads : call[u].op = "remove" /\ call[u].at = r => call'[u] = call[u]
  BY <1>1, <1>2
<1>6. IsFirst(s, r) /\ owned[r] = 0 /\ r \notin orphaned =>
        \E u \in Threads : call'[u].rec = r \/ (call'[u].op = "remove" /\ call'[u].at = r)
  BY <1>2, <1>4, <1>5
<1> QED
  BY <1>6 DEF IInv, RefsAccounted

\* The calls and steps that leave entries and counts alone.
LEMMA WalkIInv ==
    ASSUME IInv, NEW t \in Threads,
           \/ AddRecordFill(t)
           \/ \E r \in Ids : GetRecord(t, r) \/ \E size \in 1 .. MaxGrow : UpdateRecord(t, r, size)
           \/ \E writes \in BOOLEAN : UpdateStep(t, writes)
           \/ GetStep(t)
    PROVE  IInv'
<1>1. /\ s \in Store /\ call \in [Threads -> Calls] /\ CallKnows(s, call[t])
      /\ owned \in [Ids -> Nat] /\ orphaned \subseteq Ids
      /\ call[t] \in Calls /\ call[t].rec \in Ids \cup {None} /\ call[t].at \in 0 .. MaxEntries
      /\ call[t].left \in 0 .. MaxGrow /\ 0 \in Ids /\ Last \in 0 .. MaxEntries /\ Last \notin Ids
      /\ \A x \in Ids : x \in 0 .. MaxEntries /\ s.e[x].next \in 0 .. MaxEntries
  <2>1. s \in Store /\ call \in [Threads -> Calls] /\ CallKnows(s, call[t])
        /\ owned \in [Ids -> Nat] /\ orphaned \subseteq Ids
    BY DEF IInv, TypeOK, CallsKnow
  <2>2. \A x \in Ids : s.e[x] \in Entry
    BY <2>1 DEF Store
  <2>3. call[t] \in Calls
    BY <2>1
  <2>4. \A x \in Ids : x \in 0 .. MaxEntries /\ s.e[x].next \in 0 .. MaxEntries
    BY <2>2, VarStoreAssumption DEF Entry, Ids
  <2>5. call[t].rec \in Ids \cup {None} /\ call[t].at \in 0 .. MaxEntries /\ call[t].left \in 0 .. MaxGrow
    BY <2>3 DEF Calls
  <2>6. 0 \in Ids /\ Last \in 0 .. MaxEntries /\ Last \notin Ids
    BY VarStoreAssumption DEF Ids, Last
  <2> QED
    BY <2>1, <2>3, <2>4, <2>5, <2>6
<1>2. ASSUME NEW c \in Calls, s' = s, call' = [call EXCEPT ![t] = c], CallKnows(s, c),
             mSync \in {t, None}, mSync' \in {t, None},
             c.op \in {"update", "get", "remove"} <=> mSync' = t,
             c.op # "remove", call[t].op # "remove", c.rec = call[t].rec,
             owned' = owned, orphaned' = orphaned
      PROVE  IInv'
  <2>1. /\ s' \in Store /\ mSync' \in Threads \cup {None} /\ call' \in [Threads -> Calls]
        /\ FreeListLinked' /\ ChainsLinked' /\ CallsKnow'
    BY <1>2, SameStore
  <2>2. RefsAccounted'
    BY <1>2, SameRefs
  <2> QED
    BY <2>1, <2>2, <1>1, <1>2 DEF IInv, TypeOK
<1>3. CASE AddRecordFill(t)
  <2> DEFINE c == Calling("update", call[t].rec, call[t].at, 0, call[t].left)
  <2>1. c \in Calls
    BY <1>1 DEF Calling, Calls, Ops
  <2>2. /\ call[t].op = "added" /\ mSync = None /\ mSync' = t
        /\ call' = [call EXCEPT ![t] = c]
        /\ s' = s /\ owned' = owned /\ orphaned' = orphaned
    BY <1>3 DEF AddRecordFill
  <2>3. CallKnows(s, c)
    BY <2>2, <1>1 DEF CallKnows, Calling
  <2>4. c.op = "update" /\ c.rec = call[t].rec
    BY DEF Calling
  <2> HIDE DEF c
  <2> QED
    BY <2>1, <2>2, <2>3, <2>4, <1>2
<1>4. ASSUME NEW r \in Ids, NEW c, mSync = None, call[t].op = "idle", owned[r] > 0,
             NEW op \in {"get", "update"}, NEW left \in 0 .. MaxGrow,
             c = Calling(op, None, r, 0, left),
             s' = s, owned' = owned, orphaned' = orphaned,
             mSync' = t, call' = [call EXCEPT ![t] = c]
      PROVE  IInv'
  <2>1. c \in Calls /\ c.op = op /\ c.rec = None /\ c.at = r
    BY <1>1, <1>4 DEF Calling, Calls, Ops
  <2>2. Live(s, r)
    BY <1>4, <1>1 DEF IInv, RefsAccounted, IsFirst
  <2>3. call[t].rec = None
    BY <1>4, <1>1 DEF CallKnows, Idle, Calling
  <2>4. CallKnows(s, c)
    BY <2>1, <2>2, <1>1 DEF CallKnows
  <2> QED
    BY <2>1, <2>3, <2>4, <1>2, <1>4
<1>5. CASE \E r \in Ids : GetRecord(t, r)
  <2> PICK r \in Ids : GetRecord(t, r)
    BY <1>5
  <2>1. /\ mSync = None /\ call[t].op = "idle" /\ owned[r] > 0
        /\ mSync' = t /\ call' = [call EXCEPT ![t] = Calling("get", None, r, 0, 0)]
        /\ s' = s /\ owned' = owned /\ orphaned' = orphaned
    BY DEF GetRecord, CanStart
  <2>2. 0 \in 0 .. MaxGrow
    BY VarStoreAssumption
  <2> QED
    BY <2>1, <2>2, <1>4
<1>6. CASE \E r \in Ids : \E size \in 1 .. MaxGrow : UpdateRecord(t, r, size)
  <2> PICK r \in Ids : \E size \in 1 .. MaxGrow : UpdateRecord(t, r, size)
    BY <1>6
  <2> PICK size \in 1 .. MaxGrow : UpdateRecord(t, r, size)
    OBVIOUS
  <2>1. /\ mSync = None /\ call[t].op = "idle" /\ owned[r] > 0
        /\ mSync' = t /\ call' = [call EXCEPT ![t] = Calling("update", None, r, 0, size)]
        /\ s' = s /\ owned' = owned /\ orphaned' = orphaned
    BY DEF UpdateRecord, CanStart
  <2>2. size \in 0 .. MaxGrow
    BY VarStoreAssumption
  <2> QED
    BY <2>1, <2>2, <1>4
<1>7. CASE \E writes \in BOOLEAN : UpdateStep(t, writes)
  <2> PICK writes \in BOOLEAN : UpdateStep(t, writes)
    BY <1>7
  <2> DEFINE left == IF writes THEN call[t].left - 1 ELSE call[t].left
             c == Calling("update", call[t].rec, s.e[call[t].at].next, call[t].at, left)
  <2>1. /\ call[t].op = "update" /\ call[t].left > 0 /\ call[t].at # Last
        /\ call' = [call EXCEPT ![t] = c]
        /\ s' = s /\ mSync' = mSync /\ owned' = owned /\ orphaned' = orphaned
    BY DEF UpdateStep
  <2>2. call[t].at \in Ids /\ Live(s, call[t].at) /\ mSync = t
    BY <2>1, <1>1, VarStoreAssumption, Locked, SMTT(30) DEF CallKnows, Ids, Last
  <2>3. c \in Calls /\ c.op = "update" /\ c.rec = call[t].rec /\ c.at = s.e[call[t].at].next
        /\ c.prev = call[t].at
    <3>1. left \in 0 .. MaxGrow
      BY <2>1, <1>1, VarStoreAssumption
    <3> QED
      BY <3>1, <2>2, <1>1 DEF Calling, Calls, Ops
  <2>4. CallKnows(s, c)
    <3>1. LinkedTo(s, call[t].at)
      BY <2>2 DEF IInv, ChainsLinked, ChainsOK
    <3> QED
      BY <3>1, <2>2, <2>3 DEF CallKnows, LinkedTo
  <2> HIDE DEF c
  <2> QED
    BY <2>1, <2>2, <2>3, <2>4, <1>2
<1>8. CASE GetStep(t)
  <2>1. /\ call[t].op = "get" /\ mSync = t /\ call[t].rec = None
        /\ s' = s /\ owned' = owned /\ orphaned' = orphaned
    BY <1>8, <1>1, Locked DEF GetStep, CallKnows
  <2>2. CASE call[t].at # Last /\ mSync' = mSync
             /\ call' = [call EXCEPT ![t] = Calling("get", None, s.e[call[t].at].next, 0, 0)]
    <3> DEFINE c == Calling("get", None, s.e[call[t].at].next, 0, 0)
    <3>1. call[t].at \in Ids /\ Live(s, call[t].at)
      BY <2>1, <2>2, <1>1, VarStoreAssumption DEF CallKnows, Ids, Last
    <3>2. c \in Calls /\ c.op = "get" /\ c.rec = None /\ c.at = s.e[call[t].at].next
      BY <3>1, <1>1, VarStoreAssumption DEF Calling, Calls, Ops
    <3>3. CallKnows(s, c)
      <4>1. LinkedTo(s, call[t].at)
        BY <3>1 DEF IInv, ChainsLinked, ChainsOK
      <4> QED
        BY <4>1, <3>2 DEF CallKnows, LinkedTo
    <3>4. call' = [call EXCEPT ![t] = c] /\ mSync' = t
      BY <2>1, <2>2
    <3> HIDE DEF c
    <3> QED
      BY <3>2, <3>3, <3>4, <2>1, <1>2
  <2>3. CASE Unlock(t)
    <3>1. Idle \in Calls /\ CallKnows(s, Idle) /\ Idle.op = "idle" /\ Idle.rec = None
      BY <1>1, VarStoreAssumption DEF Idle, Calling, Calls, Ops, CallKnows
    <3> QED
      BY <3>1, <2>1, <2>3, <1>2, VarStoreAssumption DEF Unlock
  <2> QED
    BY <2>2, <2>3, <1>8 DEF GetStep
<1> QED
  BY <1>3, <1>5, <1>6, <1>7, <1>8

LEMMA UpdateFailsIInv ==
    ASSUME IInv, NEW t \in Threads, UpdateFails(t)
    PROVE  IInv'
<1>1. /\ call[t].op = "update" /\ s' = s /\ owned' = owned
      /\ orphaned' = orphaned \cup ({call[t].rec} \ {None})
      /\ mSync' = None /\ call' = [call EXCEPT ![t] = Idle]
  BY DEF UpdateFails, Unlock
<1>2. mSync = t
  BY <1>1, Locked
<1>3. /\ call \in [Threads -> Calls] /\ orphaned \subseteq Ids /\ owned \in [Ids -> Nat]
      /\ call[t].rec \in Ids \cup {None} /\ None \notin Ids
      /\ Idle \in Calls /\ CallKnows(s, Idle) /\ Idle.op = "idle" /\ Idle.rec = None
  <2>1. call \in [Threads -> Calls] /\ orphaned \subseteq Ids /\ owned \in [Ids -> Nat] /\ call[t] \in Calls
    BY DEF IInv, TypeOK
  <2> QED
    BY <2>1, VarStoreAssumption DEF Idle, Calling, Calls, Ops, CallKnows, Ids, Last
<1>4. /\ s' \in Store /\ mSync' \in Threads \cup {None} /\ call' \in [Threads -> Calls]
      /\ FreeListLinked' /\ ChainsLinked' /\ CallsKnow'
  BY <1>1, <1>2, <1>3, SameStore, VarStoreAssumption
<1>5. TypeOK'
  BY <1>1, <1>3, <1>4 DEF TypeOK
<1>6. RefsAccounted'
  <2>1. \A u \in Threads : call'[u] = IF u = t THEN Idle ELSE call[u]
    BY <1>1, <1>3
  <2>2. SUFFICES ASSUME NEW r \in Ids
               PROVE  /\ owned[r] > 0 => IsFirst(s, r) /\ s.e[r].prev = owned[r]
                      /\ \A u \in Threads : call'[u].rec = r =>
                            /\ IsFirst(s, r) /\ s.e[r].prev = 1 /\ owned[r] = 0 /\ r \notin orphaned'
                            /\ \A v \in Threads : call'[v].rec = r => v = u
                      /\ r \in orphaned' => IsFirst(s, r) /\ s.e[r].prev = 1 /\ owned[r] = 0
                      /\ IsFirst(s, r) /\ owned[r] = 0 /\ r \notin orphaned' =>
                            \E u \in Threads :
                                call'[u].rec = r \/ (call'[u].op = "remove" /\ call'[u].at = r)
    BY <1>1 DEF RefsAccounted
  <2>3. /\ owned[r] > 0 => IsFirst(s, r) /\ s.e[r].prev = owned[r]
        /\ \A u \in Threads : call[u].rec = r =>
              /\ IsFirst(s, r) /\ s.e[r].prev = 1 /\ owned[r] = 0 /\ r \notin orphaned
              /\ \A v \in Threads : call[v].rec = r => v = u
        /\ r \in orphaned => IsFirst(s, r) /\ s.e[r].prev = 1 /\ owned[r] = 0
        /\ IsFirst(s, r) /\ owned[r] = 0 /\ r \notin orphaned =>
              \E u \in Threads : call[u].rec = r \/ (call[u].op = "remove" /\ call[u].at = r)
    BY DEF IInv, RefsAccounted
  <2>4. CASE call[t].rec = r
    BY <2>1, <2>3, <2>4, <1>1, <1>3
  <2>5. CASE call[t].rec # r
    BY <2>1, <2>3, <2>5, <1>1, <1>3
  <2> QED
    BY <2>4, <2>5
<1> QED
  BY <1>4, <1>5, <1>6 DEF IInv

LEMMA UpdateDoneIInv ==
    ASSUME IInv, NEW t \in Threads, UpdateDone(t)
    PROVE  IInv'
<1>1. /\ call[t].op = "update" /\ s' = s /\ orphaned' = orphaned
      /\ owned' = IF call[t].rec = None THEN owned ELSE [owned EXCEPT ![call[t].rec] = 1]
      /\ mSync' = None /\ call' = [call EXCEPT ![t] = Idle]
  BY DEF UpdateDone, Unlock
<1>2. mSync = t
  BY <1>1, Locked
<1>3. /\ call \in [Threads -> Calls] /\ orphaned \subseteq Ids /\ owned \in [Ids -> Nat]
      /\ call[t].rec \in Ids \cup {None} /\ None \notin Ids
      /\ Idle \in Calls /\ CallKnows(s, Idle) /\ Idle.op = "idle" /\ Idle.rec = None
  <2>1. call \in [Threads -> Calls] /\ orphaned \subseteq Ids /\ owned \in [Ids -> Nat] /\ call[t] \in Calls
    BY DEF IInv, TypeOK
  <2> QED
    BY <2>1, VarStoreAssumption DEF Idle, Calling, Calls, Ops, CallKnows, Ids, Last
<1>4. /\ s' \in Store /\ mSync' \in Threads \cup {None} /\ call' \in [Threads -> Calls]
      /\ FreeListLinked' /\ ChainsLinked' /\ CallsKnow'
  BY <1>1, <1>2, <1>3, SameStore, VarStoreAssumption
<1>5. TypeOK'
  BY <1>1, <1>3, <1>4 DEF TypeOK
<1>6. RefsAccounted'
  <2>1. /\ \A u \in Threads : call'[u] = IF u = t THEN Idle ELSE call[u]
        /\ \A r \in Ids : owned'[r] = IF r = call[t].rec THEN 1 ELSE owned[r]
    BY <1>1, <1>3
  <2>2. SUFFICES ASSUME NEW r \in Ids
               PROVE  /\ owned'[r] > 0 => IsFirst(s, r) /\ s.e[r].prev = owned'[r]
                      /\ \A u \in Threads : call'[u].rec = r =>
                            /\ IsFirst(s, r) /\ s.e[r].prev = 1 /\ owned'[r] = 0 /\ r \notin orphaned
                            /\ \A v \in Threads : call'[v].rec = r => v = u
                      /\ r \in orphaned => IsFirst(s, r) /\ s.e[r].prev = 1 /\ owned'[r] = 0
                      /\ IsFirst(s, r) /\ owned'[r] = 0 /\ r \notin orphaned =>
                            \E u \in Threads :
                                call'[u].rec = r \/ (call'[u].op = "remove" /\ call'[u].at = r)
    BY <1>1 DEF RefsAccounted
  <2>3. /\ owned[r] > 0 => IsFirst(s, r) /\ s.e[r].prev = owned[r]
        /\ \A u \in Threads : call[u].rec = r =>
              /\ IsFirst(s, r) /\ s.e[r].prev = 1 /\ owned[r] = 0 /\ r \notin orphaned
              /\ \A v \in Threads : call[v].rec = r => v = u
        /\ r \in orphaned => IsFirst(s, r) /\ s.e[r].prev = 1 /\ owned[r] = 0
        /\ IsFirst(s, r) /\ owned[r] = 0 /\ r \notin orphaned =>
              \E u \in Threads : call[u].rec = r \/ (call[u].op = "remove" /\ call[u].at = r)
    BY DEF IInv, RefsAccounted
  <2>4. CASE call[t].rec = r
    BY <2>1, <2>3, <2>4, <1>1, <1>3
  <2>5. CASE call[t].rec # r
    BY <2>1, <2>3, <2>5, <1>1, <1>3
  <2> QED
    BY <2>4, <2>5
<1> QED
  BY <1>4, <1>5, <1>6 DEF IInv

LEMMA ReopenIInv ==
    ASSUME IInv, Reopen
    PROVE  IInv'
<1>1. s' = s
  <2>1. s.e[0].next = s.free /\ s \in Store
    BY DEF IInv, FreeListLinked, ListLinked, TypeOK
  <2> QED
    BY <2>1 DEF Reopen, Store
<1>2. UNCHANGED vars
  BY <1>1 DEF Reopen, vars
<1> QED
  BY <1>2 DEF vars, IInv, TypeOK, FreeListLinked, ChainsLinked, Removing, CallsKnow, RefsAccounted

\* The accounts of record r in the next state.
RefAccountedNext(r) ==
    /\ owned'[r] > 0 => IsFirst(s', r) /\ s'.e[r].prev = owned'[r]
    /\ \A u \in Threads : call'[u].rec = r =>
        /\ IsFirst(s', r) /\ s'.e[r].prev = 1 /\ owned'[r] = 0 /\ r \notin orphaned'
        /\ \A v \in Threads : call'[v].rec = r => v = u
    /\ r \in orphaned' => IsFirst(s', r) /\ s'.e[r].prev = 1 /\ owned'[r] = 0
    /\ IsFirst(s', r) /\ owned'[r] = 0 /\ r \notin orphaned' =>
        \E u \in Threads : call'[u].rec = r \/ (call'[u].op = "remove" /\ call'[u].at = r)

LEMMA RefsNext == (\A r \in Ids : RefAccountedNext(r)) => RefsAccounted'
BY DEF RefsAccounted, RefAccountedNext

LEMMA UpdateGrowIInv ==
    ASSUME IInv, NEW t \in Threads, UpdateGrow(t)
    PROVE  IInv'
<1> DEFINE p == call[t].prev
           id == Allocated(s, p)
           c == Calling("update", call[t].rec, Last, id, call[t].left - 1)
<1>1. /\ call[t].op = "update" /\ call[t].left > 0 /\ call[t].at = Last
      /\ HasRoom(s, p) /\ s' = AllocateEntry(s, p)
      /\ call' = [call EXCEPT ![t] = c]
      /\ mSync' = mSync /\ owned' = owned /\ orphaned' = orphaned
  BY DEF UpdateGrow
<1>2. /\ mSync = t /\ \A u \in Threads : u # t => call[u].op \in {"idle", "added"}
      /\ Removing = {}
  BY <1>1, Locked
<1>3. /\ s \in Store /\ call \in [Threads -> Calls] /\ owned \in [Ids -> Nat] /\ orphaned \subseteq Ids
      /\ call[t] \in Calls /\ CallKnows(s, call[t]) /\ ListLinked(s) /\ ChainsOK(s, {})
  BY <1>2 DEF IInv, TypeOK, CallsKnow, FreeListLinked, ChainsLinked
<1>4. /\ p \in 0 .. s.count - 1 /\ p # 0 /\ p \in Ids /\ Live(s, p) /\ s.e[p].next = Last
      /\ Last \in 0 .. MaxEntries /\ Last \notin Ids
  <2>1. p \in Ids /\ Live(s, p) /\ s.e[p].next = Last
    BY <1>1, <1>3 DEF CallKnows, Calls
  <2> QED
    BY <2>1, <1>3, VarStoreAssumption DEF Live, Ids, Last, Store
<1>5. /\ s' \in Store /\ ListLinked(s') /\ ChainsOK(s', {})
      /\ id \in Ids /\ id # p /\ ~Live(s, id) /\ Live(s', id)
      /\ ~s'.e[id].first /\ s'.e[id].next = Last
      /\ \A x \in Ids : x # id => (Live(s', x) <=> Live(s, x))
      /\ \A x \in Ids : Live(s, x) /\ x # p => s'.e[x] = s.e[x]
      /\ s'.e[p] = Relink(s.e[p], s.e[p].prev, id)
  BY <1>1, <1>3, <1>4, AllocateFacts, ChainsAllocate DEF Live
<1>6. /\ \A x \in Ids : Live(s, x) => s'.e[x].first = s.e[x].first /\ s'.e[x].prev = s.e[x].prev
      /\ \A x \in Ids : IsFirst(s', x) <=> IsFirst(s, x)
  BY <1>4, <1>5 DEF IsFirst, Relink
<1>7. c \in Calls /\ c.op = "update" /\ c.rec = call[t].rec /\ c.at = Last /\ c.prev = id
  <2>1. call[t].left - 1 \in 0 .. MaxGrow
    BY <1>1, <1>3, VarStoreAssumption DEF Calls
  <2> QED
    BY <2>1, <1>3, <1>4, <1>5 DEF Calling, Calls, Ops
<1> HIDE DEF c, id
<1>8. /\ call'[t] = c /\ \A u \in Threads : u # t => call'[u] = call[u]
  BY <1>1, <1>3
<1>9. TypeOK'
  BY <1>1, <1>2, <1>3, <1>5, <1>7 DEF TypeOK
<1>10. FreeListLinked' /\ ChainsLinked'
  <2>1. Removing' = {}
    BY <1>2, <1>7, <1>8 DEF Removing
  <2> QED
    BY <2>1, <1>5 DEF FreeListLinked, ChainsLinked
<1>11. CallsKnow'
  <2>1. \A u \in Threads : call'[u].op \in {"update", "get", "remove"} <=> mSync' = u
    BY <1>1, <1>2, <1>7, <1>8
  <2>2. ASSUME NEW u \in Threads, u # t PROVE CallKnows(s', call[u])
    <3>1. CallKnows(s, call[u]) /\ call[u] \in Calls
      BY <1>3 DEF IInv, CallsKnow
    <3>2. call[u].op # "idle" => call[u].at \in Ids /\ Live(s', call[u].at)
      BY <3>1, <2>2, <1>2, <1>5, VarStoreAssumption DEF CallKnows, Calls, Ids, Last
    <3> QED
      BY <3>1, <3>2, <2>2, <1>2 DEF CallKnows
  <2>3. CallKnows(s', c)
    BY <1>5, <1>7 DEF CallKnows
  <2> QED
    BY <2>1, <2>2, <2>3, <1>8 DEF CallsKnow
<1>12. RefsAccounted'
  <2> SUFFICES ASSUME NEW r \in Ids PROVE RefAccountedNext(r)
    BY RefsNext
  <2>1. \A u \in Threads : call'[u].rec = call[u].rec
    BY <1>7, <1>8
  <2>2. \A u \in Threads : call[u].op # "remove"
    BY <1>1, <1>2
  <2>3. IsFirst(s, r) => s'.e[r].prev = s.e[r].prev
    BY <1>6 DEF IsFirst
  <2> QED
    BY <2>1, <2>2, <2>3, <1>1, <1>6 DEF IInv, RefsAccounted, RefAccountedNext
<1> QED
  BY <1>9, <1>10, <1>11, <1>12 DEF IInv

LEMMA IncrementIInv ==
    ASSUME IInv, NEW t \in Threads, NEW r \in Ids, IncrementRecordRef(t, r)
    PROVE  IInv'
<1>1. /\ mSync = None /\ owned[r] > 0 /\ s' = SetRefs(s, r, s.e[r].prev + 1)
      /\ owned' = [owned EXCEPT ![r] = @ + 1]
      /\ mSync' = mSync /\ call' = call /\ orphaned' = orphaned
  BY DEF IncrementRecordRef, CanStart
<1>2. /\ Removing = {} /\ ChainsOK(s, {})
      /\ \A u \in Threads : call[u].op \in {"idle", "added"}
  BY <1>1, Unlocked
<1>3. /\ s \in Store /\ ListLinked(s) /\ owned \in [Ids -> Nat]
      /\ IsFirst(s, r) /\ s.e[r].prev = owned[r] /\ s.e[r].prev + 1 \in Nat
  BY <1>1 DEF IInv, TypeOK, FreeListLinked, RefsAccounted
<1>4. /\ s' \in Store /\ ListLinked(s') /\ ChainsOK(s', {})
      /\ s'.e[r].prev = s.e[r].prev + 1 /\ s'.e[r].first
      /\ \A x \in Ids : Live(s', x) <=> Live(s, x)
      /\ \A x \in Ids : x # r => s'.e[x] = s.e[x]
  BY <1>1, <1>2, <1>3, SetRefsFacts
<1>5. TypeOK'
  BY <1>1, <1>4 DEF IInv, TypeOK
<1>6. FreeListLinked' /\ ChainsLinked'
  <2>1. Removing' = {}
    BY <1>1, <1>2 DEF Removing
  <2> QED
    BY <2>1, <1>4 DEF FreeListLinked, ChainsLinked
<1>7. CallsKnow'
  <2>1. ASSUME NEW u \in Threads PROVE CallKnows(s', call[u])
    <3>1. CallKnows(s, call[u]) /\ call[u] \in Calls
      BY DEF IInv, CallsKnow, TypeOK
    <3>2. call[u].op # "idle" => call[u].at \in Ids
      BY <3>1, <1>2, VarStoreAssumption DEF CallKnows, Calls, Ids, Last
    <3> QED
      BY <3>1, <3>2, <1>2, <1>4 DEF CallKnows
  <2> QED
    BY <2>1, <1>1 DEF IInv, CallsKnow
<1>8. RefsAccounted'
  <2> SUFFICES ASSUME NEW x \in Ids PROVE RefAccountedNext(x)
    BY RefsNext
  <2>1. IsFirst(s', x) <=> IsFirst(s, x)
    BY <1>3, <1>4 DEF IsFirst
  <2>2. CASE x = r
    BY <2>1, <2>2, <1>1, <1>3, <1>4 DEF IInv, RefsAccounted, RefAccountedNext
  <2>3. CASE x # r
    <3>1. owned'[x] = owned[x] /\ s'.e[x] = s.e[x]
      BY <2>3, <1>1, <1>3, <1>4
    <3> QED
      BY <3>1, <2>1, <1>1 DEF IInv, RefsAccounted, RefAccountedNext
  <2> QED
    BY <2>2, <2>3
<1> QED
  BY <1>5, <1>6, <1>7, <1>8 DEF IInv

LEMMA DecrementIInv ==
    ASSUME IInv, NEW t \in Threads, NEW r \in Ids, DecrementRecordRef(t, r)
    PROVE  IInv'
<1> DEFINE c == Calling("remove", None, r, 0, 0)
<1>1. /\ mSync = None /\ owned[r] > 0 /\ s' = SetRefs(s, r, s.e[r].prev - 1)
      /\ owned' = [owned EXCEPT ![r] = @ - 1] /\ call[t].op = "idle"
      /\ orphaned' = orphaned
      /\ \/ s.e[r].prev = 1 /\ mSync' = t /\ call' = [call EXCEPT ![t] = c]
         \/ s.e[r].prev # 1 /\ mSync' = mSync /\ call' = call
  BY DEF DecrementRecordRef, CanStart
<1>2. /\ Removing = {} /\ ChainsOK(s, {})
      /\ \A u \in Threads : call[u].op \in {"idle", "added"}
  BY <1>1, Unlocked
<1>3. /\ s \in Store /\ ListLinked(s) /\ owned \in [Ids -> Nat] /\ call \in [Threads -> Calls]
      /\ IsFirst(s, r) /\ s.e[r].prev = owned[r] /\ s.e[r].prev - 1 \in Nat /\ s.e[r].prev \in Nat
      /\ CallKnows(s, call[t])
  BY <1>1 DEF IInv, TypeOK, FreeListLinked, RefsAccounted, CallsKnow
<1>4. /\ s' \in Store /\ ListLinked(s') /\ ChainsOK(s', {})
      /\ s'.e[r].prev = s.e[r].prev - 1 /\ s'.e[r].first
      /\ \A x \in Ids : Live(s', x) <=> Live(s, x)
      /\ \A x \in Ids : x # r => s'.e[x] = s.e[x]
  BY <1>1, <1>2, <1>3, SetRefsFacts
<1>5. /\ c \in Calls /\ c.op = "remove" /\ c.at = r /\ c.rec = None /\ r # Last
      /\ call[t].rec = None
  <2>1. r \in 0 .. MaxEntries /\ r # Last /\ 0 \in Ids /\ 0 \in 0 .. MaxGrow
    BY VarStoreAssumption DEF Ids, Last
  <2>2. call[t].rec = None
    BY <1>1, <1>3 DEF CallKnows, Idle, Calling
  <2> QED
    BY <2>1, <2>2 DEF Calling, Calls, Ops
<1> HIDE DEF c
<1>6. TypeOK'
  BY <1>1, <1>3, <1>4, <1>5 DEF IInv, TypeOK
<1>7. /\ \A u \in Threads : u # t => call'[u] = call[u]
      /\ call'[t] = IF s.e[r].prev = 1 THEN c ELSE call[t]
      /\ \A u \in Threads : call'[u].rec = call[u].rec
  BY <1>1, <1>3, <1>5
<1>8. FreeListLinked' /\ ChainsLinked'
  <2>1. ChainsOK(s', Removing')
    BY <1>4 DEF ChainsOK
  <2> QED
    BY <2>1, <1>4 DEF FreeListLinked, ChainsLinked
<1>9. CallsKnow'
  <2>1. ASSUME NEW u \in Threads PROVE CallKnows(s', call[u])
    <3>1. CallKnows(s, call[u]) /\ call[u] \in Calls
      BY DEF IInv, CallsKnow, TypeOK
    <3>2. call[u].op # "idle" => call[u].at \in Ids
      BY <3>1, <1>2, VarStoreAssumption DEF CallKnows, Calls, Ids, Last
    <3> QED
      BY <3>1, <3>2, <1>2, <1>4 DEF CallKnows
  <2>2. s.e[r].prev = 1 => CallKnows(s', c)
    <3>1. s.e[r].prev = 1 => s'.e[r].prev = 0
      BY <1>4
    <3>2. Live(s', r)
      BY <1>3, <1>4 DEF IsFirst
    <3> QED
      BY <3>1, <3>2, <1>4, <1>5 DEF CallKnows
  <2>3. \A u \in Threads : call'[u].op \in {"update", "get", "remove"} <=> mSync' = u
    BY <1>1, <1>2, <1>5, <1>7, VarStoreAssumption
  <2> QED
    BY <2>1, <2>2, <2>3, <1>7 DEF CallsKnow
<1>10. RefsAccounted'
  <2> SUFFICES ASSUME NEW x \in Ids PROVE RefAccountedNext(x)
    BY RefsNext
  <2>1. IsFirst(s', x) <=> IsFirst(s, x)
    BY <1>3, <1>4 DEF IsFirst
  <2>2. CASE x = r
    <3>1. owned'[r] = owned[r] - 1 /\ s'.e[r].prev = owned'[r]
      BY <1>1, <1>3, <1>4
    <3>2. owned'[r] = 0 => call'[t].op = "remove" /\ call'[t].at = r
      BY <3>1, <1>3, <1>5, <1>7
    <3>3. r \notin orphaned' /\ \A u \in Threads : call'[u].rec # r
      BY <1>1, <1>3, <1>7 DEF IInv, RefsAccounted
    <3> QED
      BY <3>1, <3>2, <3>3, <2>1, <2>2, <1>3 DEF RefAccountedNext
  <2>3. CASE x # r
    <3>1. owned'[x] = owned[x] /\ s'.e[x] = s.e[x]
      BY <2>3, <1>1, <1>3, <1>4
    <3>2. \A u \in Threads : call[u].op # "remove"
      BY <1>2
    <3> QED
      BY <3>1, <3>2, <2>1, <1>1, <1>7 DEF IInv, RefsAccounted, RefAccountedNext
  <2> QED
    BY <2>2, <2>3
<1> QED
  BY <1>6, <1>8, <1>9, <1>10 DEF IInv

LEMMA RemoveIInv ==
    ASSUME IInv, NEW t \in Threads, RemoveStep(t)
    PROVE  IInv'
<1> DEFINE id == call[t].at
           next == s.e[id].next
           c == Calling("remove", None, next, 0, 0)
<1>1. call[t].op = "remove" /\ owned' = owned /\ orphaned' = orphaned
  BY DEF RemoveStep
<1>2. /\ mSync = t /\ \A u \in Threads : u # t => call[u].op \in {"idle", "added"}
      /\ Removing = {id} \ {Last}
  BY <1>1, Locked
<1>3. /\ s \in Store /\ call \in [Threads -> Calls] /\ owned \in [Ids -> Nat] /\ orphaned \subseteq Ids
      /\ call[t] \in Calls /\ CallKnows(s, call[t]) /\ ListLinked(s) /\ ChainsOK(s, {id} \ {Last})
      /\ call[t].rec = None
  <2>1. CallKnows(s, call[t])
    BY DEF IInv, CallsKnow
  <2> QED
    BY <2>1, <1>1, <1>2 DEF IInv, TypeOK, FreeListLinked, ChainsLinked, CallKnows
<1>4. CASE id = Last
  <2>1. s' = s /\ mSync' = None /\ call' = [call EXCEPT ![t] = Idle]
    BY <1>4 DEF RemoveStep, Unlock
  <2>2. Idle \in Calls /\ CallKnows(s, Idle) /\ Idle.op = "idle" /\ Idle.rec = None
    BY VarStoreAssumption DEF Idle, Calling, Calls, Ops, CallKnows, Ids, Last
  <2>3. /\ s' \in Store /\ mSync' \in Threads \cup {None} /\ call' \in [Threads -> Calls]
        /\ FreeListLinked' /\ ChainsLinked' /\ CallsKnow'
    BY <2>1, <2>2, <1>2, <1>4, SameStore, VarStoreAssumption
  <2>4. RefsAccounted'
    BY <2>1, <2>2, <1>1, <1>3, <1>4, SameRefs
  <2> QED
    BY <2>3, <2>4, <1>1, <1>3 DEF IInv, TypeOK
<1>5. CASE id # Last
  <2>1. /\ s' = AddToFreeList(s, id) /\ call' = [call EXCEPT ![t] = c] /\ mSync' = mSync
    BY <1>5 DEF RemoveStep
  <2>2. /\ id \in Ids /\ Live(s, id) /\ ChainsOK(s, {id})
        /\ s.e[id].first => s.e[id].prev = 0
        /\ s.e[id].first \/ (s.e[id].prev \in Ids /\ s.e[s.e[id].prev].deleted)
        /\ id \in 1 .. s.count - 1 /\ ~s.e[id].deleted
        /\ next \in 0 .. MaxEntries /\ 0 \in Ids /\ 0 \in 0 .. MaxGrow
    <3>1. id \in Ids
      BY <1>3, <1>5, VarStoreAssumption DEF Calls, Ids, Last
    <3>2. s.e[id] \in Entry
      BY <3>1, <1>3 DEF Store
    <3>3. Live(s, id) /\ ChainsOK(s, {id})
      BY <1>1, <1>3, <1>5 DEF CallKnows
    <3>4. id \in 1 .. s.count - 1 /\ ~s.e[id].deleted
      BY <3>1, <3>3, <1>3, VarStoreAssumption DEF Live, Ids, Store
    <3>5. next \in 0 .. MaxEntries /\ 0 \in Ids /\ 0 \in 0 .. MaxGrow
      BY <3>2, VarStoreAssumption DEF Entry, Ids
    <3>6. IF s.e[id].first THEN s.e[id].prev = 0
          ELSE s.e[id].prev \in Ids /\ s.e[s.e[id].prev].deleted
      BY <1>1, <1>3, <1>5 DEF CallKnows
    <3> QED
      BY <3>1, <3>3, <3>4, <3>5, <3>6
  <2>3. /\ s' \in Store /\ ListLinked(s') /\ ChainsOK(s', {next} \ {Last})
        /\ s'.count = s.count /\ s'.e[id].deleted
        /\ \A x \in Ids : x # id => s'.e[x].deleted = s.e[x].deleted
        /\ \A x \in Ids : x # id /\ ~s.e[x].deleted /\ x < s.count => s'.e[x] = s.e[x]
        /\ next # Last => Live(s', next) /\ ~s'.e[next].first /\ s'.e[next].prev = id
    <3> DEFINE r == AddToFreeList(s, id)
    <3>1. /\ r \in Store /\ ListLinked(r) /\ r.count = s.count /\ r.e[id].deleted
          /\ \A x \in Ids : x # id => r.e[x].deleted = s.e[x].deleted
          /\ \A x \in Ids : x # id /\ ~s.e[x].deleted /\ x < s.count => r.e[x] = s.e[x]
      BY <2>2, <1>3, AddToFreeFacts
    <3>2. /\ ChainsOK(r, {next} \ {Last})
          /\ next # Last => Live(r, next) /\ ~r.e[next].first /\ r.e[next].prev = id
      BY <2>2, <1>3, ChainsFree
    <3>3. s' = r
      BY <2>1
    <3> HIDE DEF r
    <3> QED
      BY <3>1, <3>2, <3>3
  <2>4. /\ \A x \in Ids : x # id => (Live(s', x) <=> Live(s, x)) /\ (IsFirst(s', x) <=> IsFirst(s, x))
        /\ \A x \in Ids : x # id /\ Live(s, x) => s'.e[x] = s.e[x]
        /\ ~IsFirst(s', id)
    BY <2>3 DEF Live, IsFirst
  <2>5. c \in Calls /\ c.op = "remove" /\ c.at = next /\ c.rec = None
    BY <2>2 DEF Calling, Calls, Ops
  <2> HIDE DEF c
  <2>6. /\ call'[t] = c /\ \A u \in Threads : u # t => call'[u] = call[u]
        /\ \A u \in Threads : call'[u].rec = call[u].rec
    BY <2>1, <2>5, <1>3
  <2>7. TypeOK'
    BY <2>1, <2>3, <2>5, <1>1, <1>2, <1>3 DEF TypeOK
  <2>8. FreeListLinked' /\ ChainsLinked'
    <3>1. Removing' = {next} \ {Last}
      <4>1. \A u \in Threads : call'[u].op = "remove" <=> u = t
        BY <2>5, <2>6, <1>2
      <4> QED
        BY <4>1, <2>5, <2>6 DEF Removing
    <3> QED
      BY <3>1, <2>3 DEF FreeListLinked, ChainsLinked
  <2>9. owned[id] = 0 /\ id \notin orphaned /\ \A u \in Threads : call[u].rec # id
    <3>1. IsFirst(s, id) => s.e[id].prev = 0
      BY <2>2 DEF IsFirst
    <3> QED
      BY <3>1, <2>2, <1>3 DEF IInv, RefsAccounted
  <2>10. CallsKnow'
    <3>1. \A u \in Threads : call'[u].op \in {"update", "get", "remove"} <=> mSync' = u
      BY <2>1, <2>5, <2>6, <1>2
    <3>2. ASSUME NEW u \in Threads, u # t PROVE CallKnows(s', call[u])
      <4>1. CallKnows(s, call[u]) /\ call[u] \in Calls
        BY <1>3 DEF IInv, CallsKnow
      <4>2. call[u].op # "idle" => call[u].at \in Ids /\ call[u].at # id
        BY <4>1, <3>2, <2>9, <1>2, VarStoreAssumption DEF CallKnows, Calls, Ids, Last
      <4> QED
        BY <4>1, <4>2, <3>2, <2>4, <1>2 DEF CallKnows
    <3>3. CallKnows(s', c)
      <4>1. next # Last => IF s'.e[next].first THEN s'.e[next].prev = 0
                           ELSE s'.e[next].prev \in Ids /\ s'.e[s'.e[next].prev].deleted
        BY <2>2, <2>3
      <4> QED
        BY <4>1, <2>3, <2>5 DEF CallKnows
    <3> QED
      BY <3>1, <3>2, <3>3, <2>6 DEF CallsKnow
  <2>11. RefsAccounted'
    <3> SUFFICES ASSUME NEW x \in Ids PROVE RefAccountedNext(x)
      BY RefsNext
    <3>1. CASE x = id
      BY <3>1, <2>4, <2>6, <2>9, <1>1, <1>3 DEF RefAccountedNext
    <3>2. CASE x # id
      <4>1. /\ IsFirst(s', x) <=> IsFirst(s, x)
            /\ IsFirst(s, x) => s'.e[x] = s.e[x]
        BY <3>2, <2>4 DEF IsFirst
      <4>2. \A u \in Threads : ~(call[u].op = "remove" /\ call[u].at = x)
        BY <3>2, <1>2
      <4> QED
        BY <4>1, <4>2, <2>6, <1>1 DEF IInv, RefsAccounted, RefAccountedNext
    <3> QED
      BY <3>1, <3>2
  <2> QED
    BY <2>7, <2>8, <2>10, <2>11 DEF IInv
<1> QED
  BY <1>4, <1>5

-----------------------------------------------------------------------------

\* The invariant holds in every reachable state: for any number of threads
\* adding, reading, extending, sharing and dropping records, and any file size.
THEOREM Invariance == Spec => []IInv
<1>1. ASSUME IInv, [Next]_vars
      PROVE  IInv'
  <2>1. CASE UNCHANGED vars
    BY <1>1, <2>1 DEF vars, IInv, TypeOK, FreeListLinked, ChainsLinked, Removing, CallsKnow, RefsAccounted
  <2>2. CASE Reopen
    BY <1>1, <2>2, ReopenIInv
  <2>3. ASSUME NEW t \in Threads,
               \/ \E size \in 0 .. MaxGrow : AddRecord(t, size)
               \/ AddRecordFill(t)
               \/ \E r \in Ids :
                    \/ \E size \in 1 .. MaxGrow : UpdateRecord(t, r, size)
                    \/ GetRecord(t, r)
                    \/ IncrementRecordRef(t, r)
                    \/ DecrementRecordRef(t, r)
               \/ HolderStep(t)
        PROVE  IInv'
    <3>1. CASE \E size \in 0 .. MaxGrow : AddRecord(t, size)
      BY <1>1, <3>1, AddRecordIInv
    <3>2. CASE AddRecordFill(t)
      BY <1>1, <3>2, WalkIInv
    <3>3. CASE \E r \in Ids : GetRecord(t, r) \/ \E size \in 1 .. MaxGrow : UpdateRecord(t, r, size)
      BY <1>1, <3>3, WalkIInv
    <3>4. CASE \E r \in Ids : IncrementRecordRef(t, r)
      BY <1>1, <3>4, IncrementIInv
    <3>5. CASE \E r \in Ids : DecrementRecordRef(t, r)
      BY <1>1, <3>5, DecrementIInv
    <3>6. CASE HolderStep(t)
      <4>1. CASE (\E writes \in BOOLEAN : UpdateStep(t, writes)) \/ GetStep(t)
        BY <1>1, <4>1, WalkIInv
      <4> QED
        BY <1>1, <3>6, <4>1, UpdateGrowIInv, UpdateFailsIInv, UpdateDoneIInv, RemoveIInv DEF HolderStep
    <3> QED
      BY <2>3, <3>1, <3>2, <3>3, <3>4, <3>5, <3>6
  <2> QED
    BY <1>1, <2>1, <2>2, <2>3 DEF Next
<1> QED
  BY <1>1, InitIInv, PTL DEF Spec

\* Every variable keeps its type.
THEOREM TypeCorrect == Spec => []TypeOK
<1>1. IInv => TypeOK
  BY DEF IInv
<1> QED
  BY <1>1, Invariance, PTL

\* Whatever is added and freed in whatever order, the free list stays linked
\* both ways and the head on disk is the head in memory.
THEOREM FreeListSafe == Spec => []FreeListLinked
<1>1. IInv => FreeListLinked
  BY DEF IInv
<1> QED
  BY <1>1, Invariance, PTL

\* No chain of a record runs into the free list or into another record.
THEOREM ChainsSafe == Spec => []ChainsLinked
<1>1. IInv => ChainsLinked
  BY DEF IInv
<1> QED
  BY <1>1, Invariance, PTL

\* No thread inside GetRecord, UpdateRecord or RemoveRecord meets an entry
\* that was freed: the assertions of their loops hold.
THEOREM WalksSafe == Spec => []WalkOnLiveEntries
<1>1. IInv => WalkOnLiveEntries
  BY DEF IInv, CallsKnow, CallKnows, WalkOnLiveEntries
<1> QED
  BY <1>1, Invariance, PTL

\* A record is freed by the drop of its last reference and by nothing else:
\* its count is the number of references to it.
THEOREM RefCountsSafe == Spec => []RefCountExact
<1>1. ASSUME IInv PROVE RefCountExact
  <2> SUFFICES ASSUME NEW r \in Ids
               PROVE  LET adding == {t \in Threads : call[t].rec = r} IN
                      IF IsFirst(s, r)
                      THEN s.e[r].prev = owned[r] + Cardinality(adding) + (IF r \in orphaned THEN 1 ELSE 0)
                      ELSE owned[r] = 0 /\ adding = {} /\ r \notin orphaned
    BY DEF RefCountExact
  <2> DEFINE adding == {t \in Threads : call[t].rec = r}
  <2>1. owned[r] \in Nat /\ s.e[r].prev \in Nat
    BY <1>1 DEF IInv, TypeOK, Store, Entry
  <2>2. CASE ~IsFirst(s, r)
    BY <1>1, <2>1, <2>2 DEF IInv, RefsAccounted
  <2>3. CASE IsFirst(s, r) /\ adding # {}
    <3> PICK t \in Threads : call[t].rec = r
      BY <2>3
    <3>1. adding = {t} /\ s.e[r].prev = 1 /\ owned[r] = 0 /\ r \notin orphaned
      BY <1>1 DEF IInv, RefsAccounted
    <3>2. Cardinality(adding) = 1
      BY <3>1, FS_Singleton
    <3>3. s.e[r].prev = 1 /\ owned[r] = 0 /\ r \notin orphaned
      BY <3>1
    <3> QED
      BY <3>2, <3>3, <2>3
  <2>4. CASE IsFirst(s, r) /\ adding = {}
    <3>1. Cardinality(adding) = 0
      BY <2>4, FS_EmptySet
    <3>2. CASE r \in orphaned
      BY <1>1, <2>1, <2>4, <3>1, <3>2 DEF IInv, RefsAccounted
    <3>3. CASE r \notin orphaned /\ owned[r] > 0
      BY <1>1, <2>1, <2>4, <3>1, <3>3 DEF IInv, RefsAccounted
    <3>4. CASE r \notin orphaned /\ owned[r] = 0
      <4> PICK u \in Threads : call[u].op = "remove" /\ call[u].at = r
        BY <1>1, <2>4, <3>4 DEF IInv, RefsAccounted
      <4>1. s.e[r].prev = 0
        <5>1. CallKnows(s, call[u]) /\ r # Last
          BY <1>1, VarStoreAssumption DEF IInv, CallsKnow, Ids, Last
        <5> QED
          BY <5>1, <2>4 DEF CallKnows, IsFirst
      <4> QED
        BY <4>1, <2>4, <3>1, <3>4
    <3> QED
      BY <2>1, <3>2, <3>3, <3>4
  <2> QED
    BY <2>2, <2>3, <2>4
<1> QED
  BY <1>1, Invariance, PTL

-----------------------------------------------------------------------------
(* Induction over the naturals, by their smallest element. *)

LEMMA Least ==
    ASSUME NEW S \in SUBSET Nat, S # {}
    PROVE  \E m \in S : \A k \in S : m <= k
<1> DEFINE R == OpToRel(<, Nat)
<1>1. IsWellFoundedOn(R, Nat)
  BY NatLessThanWellFounded
<1>2. R = {ss \in Nat \X Nat : ss[1] < ss[2]}
  BY DEF OpToRel
<1> HIDE DEF R
<1>3. PICK m \in S : \A y \in S : ~(<<y, m>> \in R)
  BY <1>1, WFMin
<1>4. ASSUME NEW k \in S PROVE m <= k
  <2>1. k \in Nat /\ m \in Nat
    OBVIOUS
  <2>2. ~(<<k, m>> \in {ss \in Nat \X Nat : ss[1] < ss[2]})
    BY <1>2, <1>3
  <2>3. ~(k < m)
    BY <2>1, <2>2
  <2> QED
    BY <2>1, <2>3
<1> QED
  BY <1>4

LEMMA ByInduction ==
    ASSUME NEW S, 0 \in S, \A n \in Nat : n \in S => n + 1 \in S
    PROVE  Nat \subseteq S
<1> SUFFICES ASSUME NEW n \in Nat, n \notin S PROVE FALSE
  OBVIOUS
<1> DEFINE T == {k \in Nat : k \notin S}
<1>1. T # {} /\ T \in SUBSET Nat
  OBVIOUS
<1>2. PICK m \in T : \A k \in T : m <= k
  BY <1>1, Least
<1>3. m # 0
  OBVIOUS
<1>4. m - 1 \in Nat /\ m - 1 \notin T
  BY <1>2, <1>3
<1>5. m - 1 + 1 = m
  OBVIOUS
<1> QED
  BY <1>4, <1>5, <1>3

-----------------------------------------------------------------------------
(* Where every entry is. *)

\* The first entries of the free list, of the records, and of the rest of one
\* that is being removed.
Starts(st, rest) == {0} \cup Records(st) \cup rest

\* root tells of each entry where the list or chain that it is in starts, and
\* depth gets smaller on the way back to there.
Ranked(st, rest, root, depth) ==
    /\ root \in [Ids -> Nat] /\ depth \in [Ids -> Nat]
    /\ \A id \in 0 .. st.count - 1 :
        /\ st.e[id].deleted <=> root[id] = 0
        /\ id \in Starts(st, rest) => root[id] = id
        /\ id \notin Starts(st, rest) =>
            root[st.e[id].prev] = root[id] /\ depth[st.e[id].prev] < depth[id]

Whole(st, rest) ==
    /\ st \in Store /\ ListLinked(st) /\ ChainsOK(st, rest)
    /\ \A id \in rest :
        /\ id \in Ids /\ Live(st, id)
        /\ st.e[id].first \/ (st.e[id].prev \in Ids /\ st.e[st.e[id].prev].deleted)

Placed == \E root, depth : Ranked(s, Removing, root, depth)

\* The links of an entry, whichever list or chain it is in.
LEMMA Neighbours ==
    ASSUME NEW st, NEW rest, Whole(st, rest), NEW id \in 0 .. st.count - 1
    PROVE  /\ id \in Ids /\ Last \notin Ids /\ 0 \in Ids
           /\ id \notin Starts(st, rest) =>
                /\ st.e[id].prev \in 0 .. st.count - 1
                /\ st.e[st.e[id].prev].next = id
                /\ st.e[st.e[id].prev].deleted = st.e[id].deleted
           /\ st.e[id].next # Last =>
                /\ st.e[id].next \in 0 .. st.count - 1
                /\ st.e[id].next \notin Starts(st, rest)
                /\ st.e[st.e[id].next].prev = id
<1>1. /\ st \in Store /\ ListLinked(st) /\ ChainsOK(st, rest)
      /\ st.e \in [Ids -> Entry] /\ st.count \in 1 .. MaxEntries
      /\ id \in Ids /\ Last \notin Ids /\ 0 \in Ids /\ st.e[id] \in Entry
  BY VarStoreAssumption DEF Whole, Store, Ids, Last
<1>2. CASE st.e[id].deleted
  <2>1. ListNode(st, id)
    BY <1>1, <1>2 DEF ListLinked
  <2>2. id \notin Starts(st, rest) => id # 0
    BY DEF Starts
  <2>3. st.e[id].next # Last =>
          /\ st.e[id].next \in 1 .. st.count - 1 /\ st.e[st.e[id].next].deleted
          /\ st.e[st.e[id].next].prev = id
    BY <2>1 DEF ListNode
  <2>4. st.e[id].next # Last => st.e[id].next \notin Starts(st, rest)
    BY <2>3, <1>1 DEF Starts, Records, IsFirst, Live, Whole
  <2>5. id \notin Starts(st, rest) =>
          /\ st.e[id].prev \in 0 .. st.count - 1
          /\ st.e[st.e[id].prev].next = id
          /\ st.e[st.e[id].prev].deleted
    BY <2>1, <2>2 DEF ListNode
  <2>6. st.e[id].next # Last => st.e[id].next \in 0 .. st.count - 1
    BY <2>3
  <2>7. st.e[st.e[id].prev].deleted /\ id \notin Starts(st, rest) =>
          st.e[st.e[id].prev].deleted = st.e[id].deleted
    <3>1. ASSUME st.e[st.e[id].prev].deleted, id \notin Starts(st, rest)
          PROVE  st.e[st.e[id].prev].deleted = TRUE
      <4>1. st.e[id].prev \in Ids
        BY <2>5, <3>1, <1>1, VarStoreAssumption DEF Ids
      <4>2. st.e[st.e[id].prev].deleted \in BOOLEAN
        BY <4>1, <1>1 DEF Entry
      <4> QED
        BY <4>2, <3>1
    <3>2. st.e[id].deleted = TRUE
      <4>1. st.e[id].deleted \in BOOLEAN
        BY <1>1 DEF Entry
      <4> QED
        BY <4>1, <1>2
    <3> QED
      BY <3>1, <3>2
  <2> QED
    BY <1>1, <2>3, <2>4, <2>5, <2>6, <2>7
<1>3. CASE ~st.e[id].deleted
  <2>1. Live(st, id) /\ id # 0
    BY <1>1, <1>3, VarStoreAssumption DEF Live, ListLinked
  <2>2. LinkedTo(st, id) /\ (~st.e[id].first /\ id \notin rest => LinkedFrom(st, id))
    BY <1>1, <2>1 DEF ChainsOK
  <2>3. id \notin Starts(st, rest) => LinkedFrom(st, id)
    BY <1>1, <2>1, <2>2 DEF Starts, Records, IsFirst
  <2>4. ASSUME st.e[id].next # Last
        PROVE  /\ st.e[id].next \in 0 .. st.count - 1
               /\ st.e[id].next \notin Starts(st, rest)
               /\ st.e[st.e[id].next].prev = id
    <3>1. /\ Live(st, st.e[id].next) /\ ~st.e[st.e[id].next].first
          /\ st.e[st.e[id].next].prev = id /\ st.e[id].next \in 0 .. MaxEntries
      BY <1>1, <2>2, <2>4 DEF LinkedTo, Entry
    <3>2. st.e[id].next \notin rest
      BY <3>1, <1>3 DEF Whole
    <3> QED
      BY <1>1, <3>1, <3>2 DEF Live, Starts, Records, IsFirst
  <2>5. ASSUME id \notin Starts(st, rest)
        PROVE  /\ st.e[id].prev \in 0 .. st.count - 1
               /\ st.e[st.e[id].prev].next = id
               /\ st.e[st.e[id].prev].deleted = st.e[id].deleted
    <3>1. st.e[id].prev \in Ids /\ Live(st, st.e[id].prev) /\ st.e[st.e[id].prev].next = id
      BY <2>3, <2>5 DEF LinkedFrom
    <3>2. st.e[id].prev \in 0 .. st.count - 1
      BY <3>1, <1>1 DEF Live, Ids
    <3>3. st.e[st.e[id].prev].deleted \in BOOLEAN /\ st.e[id].deleted \in BOOLEAN
      BY <3>1, <1>1 DEF Entry
    <3>4. ~st.e[st.e[id].prev].deleted
      BY <3>1 DEF Live
    <3>5. st.e[st.e[id].prev].deleted = st.e[id].deleted
      BY <3>3, <3>4, <1>3, Zenon
    <3> QED
      BY <3>1, <3>2, <3>5
  <2> QED
    BY <1>1, <2>4, <2>5
<1> QED
  BY <1>2, <1>3

LEMMA RootIsStart ==
    ASSUME NEW st, NEW rest, Whole(st, rest), NEW root, NEW depth, Ranked(st, rest, root, depth),
           NEW id \in 0 .. st.count - 1
    PROVE  root[id] \in Starts(st, rest)
<1> DEFINE lost == {x \in 0 .. st.count - 1 : root[x] \notin Starts(st, rest)}
           S == {depth[x] : x \in lost}
<1> SUFFICES ASSUME root[id] \notin Starts(st, rest) PROVE FALSE
  OBVIOUS
<1>1. \A x \in 0 .. st.count - 1 : x \in Ids
  BY Neighbours
<1>2. S \in SUBSET Nat /\ S # {}
  BY <1>1 DEF Ranked
<1>3. PICK m \in S : \A k \in S : m <= k
  BY <1>2, Least
<1>4. PICK x \in lost : depth[x] = m
  BY <1>3
<1>5. x \notin Starts(st, rest)
  BY <1>4 DEF Ranked
<1>6. /\ st.e[x].prev \in 0 .. st.count - 1
      /\ root[st.e[x].prev] = root[x] /\ depth[st.e[x].prev] < depth[x]
  BY <1>4, <1>5, Neighbours DEF Ranked
<1>7. st.e[x].prev \in lost
  BY <1>4, <1>6
<1>8. depth[st.e[x].prev] \in S
  BY <1>7
<1>9. m <= depth[st.e[x].prev]
  BY <1>3, <1>8
<1>10. depth[st.e[x].prev] \in Nat /\ depth[x] \in Nat
  BY <1>1, <1>4, <1>6 DEF Ranked
<1> QED
  BY <1>4, <1>6, <1>9, <1>10

\* Reach is what its recursive definition says.
Wider(st, set) == set \cup ({st.e[id].next : id \in set} \ {Last})

LEMMA ReachSteps ==
    ASSUME NEW st, NEW from
    PROVE  \E u : /\ Reach(st, from) = u[MaxEntries]
                  /\ u[0] = {from} \ {Last}
                  /\ \A n \in 1 .. MaxEntries : u[n] = Wider(st, u[n - 1])
<1> DEFINE upTo[n \in 0 .. MaxEntries] ==
             IF n = 0 THEN {from} \ {Last}
             ELSE upTo[n - 1] \cup ({st.e[id].next : id \in upTo[n - 1]} \ {Last})
           Level(g, n) == IF n = 0 THEN {from} \ {Last}
             ELSE g[n - 1] \cup ({st.e[id].next : id \in g[n - 1]} \ {Last})
           Def(g, m) == g = [n \in 0 .. m |-> Level(g, n)]
           S == {m \in Nat : \E g : Def(g, m)}
<1>1. Reach(st, from) = upTo[MaxEntries]
  BY DEF Reach
<1>2. 0 \in S
  <2> DEFINE g == [n \in 0 .. 0 |-> {from} \ {Last}]
  <2>1. Def(g, 0)
    OBVIOUS
  <2> QED
    BY <2>1
<1>3. ASSUME NEW m \in Nat, m \in S PROVE m + 1 \in S
  <2>1. PICK g : Def(g, m)
    BY <1>3
  <2> DEFINE h == [n \in 0 .. m + 1 |-> Level(g, n)]
  <2>2. \A n \in 0 .. m : h[n] = g[n]
    <3>1. ASSUME NEW n \in 0 .. m PROVE h[n] = g[n]
      <4> HIDE DEF Level
      <4>1. n \in 0 .. m + 1
        OBVIOUS
      <4>2. h[n] = Level(g, n)
        BY <4>1
      <4>3. g[n] = Level(g, n)
        BY <2>1
      <4> QED
        BY <4>2, <4>3
    <3> QED
      BY <3>1
  <2>3. ASSUME NEW n \in 0 .. m + 1
        PROVE  Level(g, n) = Level(h, n)
    <3>1. CASE n = 0
      BY <3>1
    <3>2. CASE n # 0
      <4>1. n - 1 \in 0 .. m
        BY <3>2
      <4>2. h[n - 1] = g[n - 1]
        BY <2>2, <4>1
      <4> HIDE DEF h
      <4> QED
        BY <3>2, <4>2
    <3> QED
      BY <3>1, <3>2
  <2>4. Def(h, m + 1)
    <3> HIDE DEF Level
    <3> QED
      BY <2>3
  <2>5. m + 1 \in Nat
    OBVIOUS
  <2> HIDE DEF h, Def
  <2> QED
    BY <2>4, <2>5
<1>4. MaxEntries \in S
  <2> HIDE DEF S
  <2>1. \A m \in Nat : m \in S => m + 1 \in S
    BY <1>3
  <2>2. Nat \subseteq S
    BY <1>2, <2>1, ByInduction
  <2> QED
    BY <2>2, VarStoreAssumption
<1>5. \E g : Def(g, MaxEntries)
  BY <1>4
<1>6. Def(upTo, MaxEntries)
  BY <1>5
<1> HIDE DEF upTo
<1>7. upTo[0] = {from} \ {Last}
  BY <1>6, VarStoreAssumption
<1>8. ASSUME NEW n \in 1 .. MaxEntries
      PROVE  upTo[n] = Wider(st, upTo[n - 1])
  <2>1. n \in 0 .. MaxEntries /\ n # 0
    BY VarStoreAssumption
  <2>2. upTo[n] = Level(upTo, n)
    <3> HIDE DEF Level
    <3> QED
      BY <1>6, <2>1
  <2> QED
    BY <2>1, <2>2 DEF Wider
<1> QED
  BY <1>1, <1>7, <1>8

\* What a list or chain reaches from its start is what has it as its root.
LEMMA ReachIs ==
    ASSUME NEW st, NEW rest, Whole(st, rest), NEW root, NEW depth, Ranked(st, rest, root, depth),
           NEW r \in Starts(st, rest)
    PROVE  Reach(st, r) = {x \in 0 .. st.count - 1 : root[x] = r}
<1> DEFINE A == {x \in 0 .. st.count - 1 : root[x] = r}
<1>1. /\ st \in Store /\ st.count \in 1 .. MaxEntries /\ MaxEntries \in Nat
      /\ Last \notin Ids /\ 0 .. st.count - 1 \subseteq Ids
  BY VarStoreAssumption DEF Whole, Store, Ids, Last
<1>2. r \in 0 .. st.count - 1
  BY <1>1 DEF Starts, Records, IsFirst, Live, Whole, Ids
<1>3. r \in A /\ r # Last
  BY <1>1, <1>2 DEF Ranked
<1>4. PICK u : /\ Reach(st, r) = u[MaxEntries]
               /\ u[0] = {r} \ {Last}
               /\ \A n \in 1 .. MaxEntries : u[n] = Wider(st, u[n - 1])
  BY SMTT(30), ReachSteps
<1>5. ASSUME NEW C, C \subseteq A PROVE Wider(st, C) \subseteq A
  <2>1. ASSUME NEW x \in C, st.e[x].next # Last PROVE st.e[x].next \in A
    <3>1. x \in 0 .. st.count - 1 /\ root[x] = r
      BY <1>5
    <3>2. /\ st.e[x].next \in 0 .. st.count - 1
          /\ st.e[x].next \notin Starts(st, rest)
          /\ st.e[st.e[x].next].prev = x
      BY <3>1, <2>1, Neighbours
    <3>3. root[st.e[x].next] = root[x]
      BY <3>2 DEF Ranked
    <3> QED
      BY <3>1, <3>2, <3>3
  <2> QED
    BY <2>1, <1>5 DEF Wider
<1>6. IsFiniteSet(A) /\ Cardinality(A) \in Nat /\ Cardinality(A) <= MaxEntries
  <2>1. IsFiniteSet(0 .. st.count - 1) /\ Cardinality(0 .. st.count - 1) = st.count
    BY <1>1, FS_Interval
  <2>2. IsFiniteSet(A) /\ Cardinality(A) <= Cardinality(0 .. st.count - 1)
    BY <2>1, FS_Subset
  <2>3. Cardinality(A) \in Nat
    BY <2>2, FS_CardinalityType
  <2> QED
    BY <2>1, <2>2, <2>3, <1>1
<1> DEFINE Grown(n) == /\ r \in u[n] /\ u[n] \subseteq A
                       /\ Wider(st, u[n]) = u[n] \/ Cardinality(u[n]) >= n + 1
           S == {n \in Nat : n <= MaxEntries => Grown(n)}
<1>7. 0 \in S
  <2>1. u[0] = {r}
    BY <1>3, <1>4
  <2>2. Cardinality(u[0]) = 1
    BY <2>1, FS_Singleton
  <2>3. u[0] \subseteq A
    BY <2>1, <1>3
  <2>4. Cardinality(u[0]) >= 0 + 1
    BY <2>2
  <2>5. Grown(0)
    BY <2>1, <2>3, <2>4
  <2> HIDE DEF Grown
  <2> QED
    BY <2>5
<1>8. ASSUME NEW n \in Nat, n \in S PROVE n + 1 \in S
  <2>1. SUFFICES ASSUME n + 1 <= MaxEntries PROVE Grown(n + 1)
    OBVIOUS
  <2>2. Grown(n)
    BY <2>1, <1>8, <1>1
  <2>3. u[n + 1] = Wider(st, u[n])
    <3>1. n + 1 \in 1 .. MaxEntries /\ (n + 1) - 1 = n
      BY <2>1, <1>1
    <3> QED
      BY <3>1, <1>4
  <2>4. r \in u[n + 1] /\ u[n + 1] \subseteq A /\ u[n] \subseteq u[n + 1]
    BY <2>2, <2>3, <1>5 DEF Wider
  <2>5. CASE Wider(st, u[n]) = u[n]
    BY <2>4, <2>5, <2>3
  <2>6. CASE Wider(st, u[n]) # u[n]
    <3>1. u[n] # u[n + 1]
      BY <2>6, <2>3
    <3>2. IsFiniteSet(u[n + 1]) /\ IsFiniteSet(u[n])
      BY <2>4, <1>6, FS_Subset
    <3>3. Cardinality(u[n]) < Cardinality(u[n + 1])
      BY <3>1, <3>2, <2>4, FS_Subset, FS_CardinalityType
    <3>4. Cardinality(u[n]) \in Nat /\ Cardinality(u[n + 1]) \in Nat
      BY <3>2, FS_CardinalityType
    <3>5. Cardinality(u[n]) >= n + 1
      BY <2>2, <2>6
    <3>6. Cardinality(u[n + 1]) >= n + 1 + 1
      BY <3>3, <3>4, <3>5
    <3> QED
      BY <2>4, <3>6
  <2> QED
    BY <2>5, <2>6
<1>9. Grown(MaxEntries)
  <2>1. MaxEntries \in S
    <3> HIDE DEF S
    <3>1. \A n \in Nat : n \in S => n + 1 \in S
      BY <1>8
    <3>2. Nat \subseteq S
      BY <1>7, <3>1, ByInduction
    <3> QED
      BY <3>2, <1>1
  <2> QED
    BY <2>1, <1>1
<1> DEFINE C == u[MaxEntries]
<1>10. r \in C /\ C \subseteq A /\ Wider(st, C) = C
  <2>1. CASE Cardinality(C) >= MaxEntries + 1
    <3>1. IsFiniteSet(C) /\ Cardinality(C) <= Cardinality(A)
      BY <1>9, <1>6, FS_Subset
    <3>2. Cardinality(C) \in Nat
      BY <3>1, FS_CardinalityType
    <3> QED
      BY <3>1, <3>2, <2>1, <1>6, <1>1
  <2> QED
    BY <2>1, <1>9
<1>11. A \subseteq C
  <2> HIDE DEF C
  <2> DEFINE lost == A \ C
             D == {depth[x] : x \in lost}
  <2>1. SUFFICES ASSUME lost # {} PROVE FALSE
    OBVIOUS
  <2>2. \A x \in A : depth[x] \in Nat
    BY <1>1 DEF Ranked
  <2>3. D # {} /\ D \in SUBSET Nat
    BY <2>1, <2>2
  <2>4. PICK m \in D : \A k \in D : m <= k
    BY <2>3, Least
  <2>5. PICK x \in lost : depth[x] = m
    BY <2>4
  <2>6. x \in 0 .. st.count - 1 /\ root[x] = r /\ x # r
    BY <2>5, <1>10
  <2>7. x \notin Starts(st, rest)
    BY <2>6 DEF Ranked
  <2>8. /\ st.e[x].prev \in 0 .. st.count - 1 /\ st.e[st.e[x].prev].next = x
        /\ root[st.e[x].prev] = root[x] /\ depth[st.e[x].prev] < depth[x]
    BY <2>6, <2>7, Neighbours DEF Ranked
  <2>9. st.e[x].prev \in A
    BY <2>6, <2>8
  <2>10. st.e[x].prev \in C
    <3>1. ASSUME st.e[x].prev \notin C PROVE FALSE
      <4>1. st.e[x].prev \in lost
        BY <3>1, <2>9
      <4>2. depth[st.e[x].prev] \in D
        BY <4>1
      <4>3. m <= depth[st.e[x].prev]
        BY <2>4, <4>2
      <4>4. depth[st.e[x].prev] \in Nat /\ depth[x] \in Nat
        BY <2>2, <2>9, <2>5
      <4> QED
        BY <4>3, <4>4, <2>5, <2>8
    <3> QED
      BY <3>1
  <2>11. x # Last
    BY <2>6, <1>1
  <2>12. x \in Wider(st, C)
    BY <2>8, <2>10, <2>11 DEF Wider
  <2> QED
    BY <2>12, <2>5, <1>10
<1> QED
  BY <1>10, <1>11, <1>4

\* The links back that an allocation writes besides those of the entry it takes.
LEMMA AllocatePrevs ==
    ASSUME NEW st \in Store, ListLinked(st),
           NEW p \in 0 .. st.count - 1, p # 0 => ~st.e[p].deleted,
           HasRoom(st, p)
    PROVE  LET r  == AllocateEntry(st, p)
               id == Allocated(st, p)
           IN /\ id \in 1 .. st.count
              /\ r.count = IF id = st.count THEN st.count + 1 ELSE st.count
              /\ id # st.count => st.e[id].deleted
              /\ \A x \in 0 .. st.count - 1 : x # id =>
                    r.e[x].prev = IF id # st.count /\ x = st.e[id].next
                                  THEN st.e[id].prev ELSE st.e[x].prev
<1> DEFINE id == Allocated(st, p)
           st1 == Extended(st, p)
           st2 == ExtractFromFreeList(st1, id)
           r == AllocateEntry(st, p)
<1> SUFFICES /\ id \in 1 .. st.count
             /\ r.count = IF id = st.count THEN st.count + 1 ELSE st.count
             /\ id # st.count => st.e[id].deleted
             /\ \A x \in 0 .. st.count - 1 : x # id =>
                   r.e[x].prev = IF id # st.count /\ x = st.e[id].next
                                 THEN st.e[id].prev ELSE st.e[x].prev
  OBVIOUS
<1>1. /\ st.e \in [Ids -> Entry] /\ st.count \in 1 .. MaxEntries /\ 0 .. st.count - 1 \subseteq Ids
      /\ MaxEntries \in Nat \ {0} /\ Last = MaxEntries /\ 0 \in Ids /\ st.count \in Nat
  BY VarStoreAssumption DEF Store, Ids, Last
<1>2. /\ st.free = st.e[0].next /\ st.e[0].deleted /\ ListNode(st, 0)
  BY <1>1 DEF ListLinked
<1>3. st.free # Last => st.free \in 1 .. st.count - 1 /\ st.e[st.free].deleted
  BY <1>2 DEF ListNode
<1>4. FoundFree(st, p) # Last =>
        FoundFree(st, p) \in 1 .. st.count - 1 /\ st.e[FoundFree(st, p)].deleted
  <2>1. p + 1 < st.count => p + 1 \in 1 .. st.count - 1
    BY <1>1
  <2>2. p > 1 => p - 1 \in 1 .. st.count - 1
    BY <1>1
  <2> QED
    BY <1>3, <2>1, <2>2 DEF FoundFree
<1>5. r.e = [x \in Ids |-> IF x = id THEN r.e[id]
                           ELSE IF x = p /\ p # 0 THEN Relink(st2.e[x], st2.e[x].prev, id)
                           ELSE st2.e[x]]
      /\ r.count = st2.count
  <2>1. CASE p = 0
    <3>1. r = StartRecord(st2, id)
      BY <2>1 DEF AllocateEntry
    <3>2. id \in Ids
      <4>1. CASE FoundFree(st, p) = Last
        BY <4>1, <1>1 DEF Allocated, HasRoom, Ids
      <4>2. CASE FoundFree(st, p) # Last
        BY <4>2, <1>1, <1>4 DEF Allocated
      <4> QED
        BY <4>1, <4>2
    <3> HIDE DEF st2, id, r
    <3> QED
      BY <2>1, <3>1, <3>2 DEF StartRecord
  <2>2. CASE p # 0
    <3>1. r = LinkBehind(st2, p, id)
      BY <2>2 DEF AllocateEntry
    <3>2. id \in Ids
      <4>1. CASE FoundFree(st, p) = Last
        BY <4>1, <1>1 DEF Allocated, HasRoom, Ids
      <4>2. CASE FoundFree(st, p) # Last
        BY <4>2, <1>1, <1>4 DEF Allocated
      <4> QED
        BY <4>1, <4>2
    <3> HIDE DEF st2, id, r
    <3> QED
      BY <2>2, <3>1, <3>2 DEF LinkBehind
  <2> QED
    BY <2>1, <2>2
<1>6. /\ st2.e = [x \in Ids |->
                    IF x = id THEN NoEntry
                    ELSE Relink(st1.e[x], IF x = st1.e[id].next THEN st1.e[id].prev ELSE st1.e[x].prev,
                                         IF x = st1.e[id].prev THEN st1.e[id].next ELSE st1.e[x].next)]
      /\ st2.count = st1.count
  BY DEF ExtractFromFreeList
<1>7. \A x \in Ids : x # id =>
        r.e[x].prev = IF x = st1.e[id].next THEN st1.e[id].prev ELSE st1.e[x].prev
  <2>1. ASSUME NEW x \in Ids, x # id
        PROVE  r.e[x].prev = IF x = st1.e[id].next THEN st1.e[id].prev ELSE st1.e[x].prev
    <3>1. r.e[x].prev = st2.e[x].prev
      <4> HIDE DEF st2, id, r
      <4> QED
        BY <1>5, <2>1 DEF Relink
    <3>2. st2.e[x].prev = IF x = st1.e[id].next THEN st1.e[id].prev ELSE st1.e[x].prev
      <4> HIDE DEF st1, st2, id
      <4> QED
        BY <1>6, <2>1 DEF Relink
    <3> QED
      BY <3>1, <3>2
  <2> QED
    BY <2>1
<1>8. CASE FoundFree(st, p) = Last
  <2>1. st1 = ExtentFreeList(st) /\ id = st.count /\ st.count < MaxEntries
    BY <1>8 DEF Extended, Allocated, HasRoom
  <2>2. st1.e[id].next = Last /\ st1.count = st.count + 1
    BY <2>1, <1>1 DEF ExtentFreeList, FreeEntry, Ids
  <2>3. \A x \in 0 .. st.count - 1 : st1.e[x].prev = st.e[x].prev
    BY <2>1, <1>1 DEF ExtentFreeList, Relink
  <2>4. \A x \in 0 .. st.count - 1 : x \in Ids /\ x # id /\ x # Last
    BY <2>1, <1>1 DEF Ids
  <2>5. \A x \in 0 .. st.count - 1 : r.e[x].prev = st.e[x].prev
    <3> HIDE DEF st1, r, id
    <3> QED
      BY <1>7, <2>2, <2>3, <2>4
  <2> HIDE DEF st1, st2, r, id
  <2> QED
    <3>1. r.count = st.count + 1
      BY <2>2, <1>5, <1>6
    <3>2. id \in 1 .. st.count
      BY <2>1, <1>1
    <3> QED
      BY <2>1, <2>5, <3>1, <3>2
<1>9. CASE FoundFree(st, p) # Last
  <2>1. st1 = st /\ id = FoundFree(st, p)
    BY <1>9 DEF Extended, Allocated
  <2>2. id \in 1 .. st.count - 1 /\ st.e[id].deleted /\ id # st.count
    BY <2>1, <1>4, <1>9, <1>1
  <2> HIDE DEF st1, st2, r, id
  <2> QED
    <3>1. r.count = st.count
      BY <2>1, <1>5, <1>6
    <3>2. id \in 1 .. st.count
      BY <2>2, <1>1
    <3>3. \A x \in 0 .. st.count - 1 : x # id =>
            r.e[x].prev = IF x = st.e[id].next THEN st.e[id].prev ELSE st.e[x].prev
      BY <2>1, <1>1, <1>7
    <3> QED
      BY <2>2, <3>1, <3>2, <3>3
<1> QED
  BY <1>8, <1>9

\* What is where after an operation: the new entry is behind p, and nothing
\* else has moved.
LEMMA RankedAllocate ==
    ASSUME NEW st \in Store, ListLinked(st), ChainsOK(st, {}),
           NEW p \in 0 .. st.count - 1, p # 0 => Live(st, p) /\ st.e[p].next = Last,
           HasRoom(st, p),
           NEW root, NEW depth, Ranked(st, {}, root, depth)
    PROVE  \E root2, depth2 :
              /\ Ranked(AllocateEntry(st, p), {}, root2, depth2)
              /\ \A x \in 0 .. st.count - 1 : root[x] # 0 => root2[x] = root[x]
              /\ AllocateEntry(st, p).count >= st.count
<1> DEFINE id == Allocated(st, p)
           r == AllocateEntry(st, p)
           top == IF p = 0 THEN id ELSE root[p]
           root2 == [root EXCEPT ![id] = top]
           depth2 == [depth EXCEPT ![id] = depth[p] + 1]
<1>1. /\ st.e \in [Ids -> Entry] /\ st.count \in 1 .. MaxEntries /\ 0 .. st.count - 1 \subseteq Ids
      /\ MaxEntries \in Nat /\ 0 \in Ids /\ 0 \in 0 .. st.count - 1
      /\ root \in [Ids -> Nat] /\ depth \in [Ids -> Nat]
  BY VarStoreAssumption, SMTT(30) DEF Store, Ids, Ranked
<1>2. /\ r \in Store /\ ListLinked(r)
      /\ id \in Ids /\ id # 0 /\ id # p /\ ~Live(st, id) /\ Live(r, id)
      /\ p = 0 => r.e[id].first
      /\ p # 0 => ~r.e[id].first /\ r.e[id].prev = p
      /\ r.e[id].next = Last
      /\ \A x \in Ids : x # id => (Live(r, x) <=> Live(st, x))
      /\ \A x \in Ids : Live(st, x) /\ x # p => r.e[x] = st.e[x]
      /\ p # 0 => r.e[p] = Relink(st.e[p], st.e[p].prev, id)
  BY AllocateFacts DEF Live
<1>3. /\ id \in 1 .. st.count
      /\ r.count = IF id = st.count THEN st.count + 1 ELSE st.count
      /\ id # st.count => st.e[id].deleted
      /\ \A x \in 0 .. st.count - 1 : x # id =>
            r.e[x].prev = IF id # st.count /\ x = st.e[id].next
                          THEN st.e[id].prev ELSE st.e[x].prev
  BY AllocatePrevs DEF Live
<1>4. Whole(st, {})
  BY DEF Whole
<1>5. Whole(r, {})
  BY <1>2, ChainsAllocate DEF Whole
<1> HIDE DEF id, r
<1>6. \A x \in Ids : x # id /\ Live(st, x) => r.e[x].first = st.e[x].first
  BY <1>2, <1>1 DEF Live, Relink
<1>7. Starts(r, {}) = Starts(st, {}) \cup (IF p = 0 THEN {id} ELSE {})
  <2>1. \A x \in Ids : x # id => (IsFirst(r, x) <=> IsFirst(st, x))
    BY <1>2, <1>6 DEF IsFirst
  <2>2. ~IsFirst(st, id) /\ (IsFirst(r, id) <=> p = 0)
    BY <1>2 DEF IsFirst
  <2> QED
    BY <2>1, <2>2, <1>2 DEF Starts, Records
<1>8. id \notin Starts(st, {})
  BY <1>2 DEF Starts, Records, IsFirst
<1>9. /\ root2[id] = top /\ depth2[id] = depth[p] + 1
      /\ \A x \in Ids : x # id => root2[x] = root[x] /\ depth2[x] = depth[x]
  BY <1>1, <1>2
<1>10. p # 0 => root[p] # 0
  BY <1>1 DEF Ranked, Live
<1>11. top \in Nat /\ top # 0
  BY <1>1, <1>2, <1>3, <1>10
<1>12. root2 \in [Ids -> Nat] /\ depth2 \in [Ids -> Nat]
  <2>1. p \in Ids /\ depth[p] + 1 \in Nat
    BY <1>1
  <2> HIDE DEF top
  <2> QED
    BY <2>1, <1>1, <1>11
<1> HIDE DEF root2, depth2
<1>13. ASSUME NEW x \in 0 .. r.count - 1
       PROVE  /\ r.e[x].deleted <=> root2[x] = 0
              /\ x \in Starts(r, {}) => root2[x] = x
              /\ x \notin Starts(r, {}) =>
                    root2[r.e[x].prev] = root2[x] /\ depth2[r.e[x].prev] < depth2[x]
  <2>1. CASE x = id
    <3>1. ~r.e[x].deleted /\ root2[x] = top
      BY <2>1, <1>2, <1>9 DEF Live
    <3>2. x \in Starts(r, {}) => root2[x] = x
      BY <2>1, <1>7, <1>8, <3>1
    <3>3. ASSUME x \notin Starts(r, {})
          PROVE  root2[r.e[x].prev] = root2[x] /\ depth2[r.e[x].prev] < depth2[x]
      <4>1. p # 0 /\ r.e[x].prev = p /\ p \in Ids /\ p # id
        BY <2>1, <3>3, <1>7, <1>2, <1>1
      <4>2. root2[p] = root[p] /\ depth2[p] = depth[p] /\ depth2[id] = depth[p] + 1 /\ depth[p] \in Nat
        BY <4>1, <1>9, <1>1
      <4>3. depth2[p] < depth2[id]
        BY <4>2
      <4> QED
        BY <4>1, <4>2, <4>3, <3>1, <2>1
    <3> QED
      BY <3>1, <3>2, <3>3, <1>11
  <2>2. CASE x # id
    <3>1. x \in 0 .. st.count - 1 /\ x \in Ids
      BY <2>2, <1>3, <1>1
    <3>2. root2[x] = root[x] /\ depth2[x] = depth[x]
      BY <2>2, <3>1, <1>9
    <3>3. r.e[x].deleted <=> st.e[x].deleted
      <4>1. CASE x = 0
        BY <4>1, <1>2 DEF ListLinked
      <4>2. CASE x # 0
        <5>1. Live(r, x) <=> Live(st, x)
          BY <1>2, <2>2, <3>1
        <5>2. x > 0 /\ x < r.count /\ x < st.count
          BY <4>2, <3>1, <1>1, <1>3
        <5> QED
          BY <5>1, <5>2 DEF Live
      <4> QED
        BY <4>1, <4>2
    <3>4. x \in Starts(r, {}) <=> x \in Starts(st, {})
      BY <1>7, <2>2
    <3>5. ASSUME x \notin Starts(st, {})
          PROVE  root2[r.e[x].prev] = root2[x] /\ depth2[r.e[x].prev] < depth2[x]
      <4>1. /\ st.e[x].prev \in 0 .. st.count - 1 /\ st.e[st.e[x].prev].next = x
            /\ root[st.e[x].prev] = root[x] /\ depth[st.e[x].prev] < depth[x]
        BY <3>1, <3>5, <1>4, Neighbours DEF Ranked
      <4>2. CASE id # st.count /\ x = st.e[id].next
        <5>1. id \in 0 .. st.count - 1
          BY <4>2, <1>3, <1>1
        <5>2. x # Last
          BY <3>1, <1>4, Neighbours
        <5>3. st.e[x].prev = id
          BY <5>1, <5>2, <4>2, <1>4, Neighbours
        <5>4. /\ st.e[id].prev \in 0 .. st.count - 1
              /\ root[st.e[id].prev] = root[id] /\ depth[st.e[id].prev] < depth[id]
          BY <5>1, <1>8, <1>4, Neighbours DEF Ranked
        <5>5. st.e[id].prev \in Ids /\ st.e[id].prev # id
          BY <5>4, <1>1
        <5>6. /\ root2[st.e[id].prev] = root[st.e[id].prev]
              /\ depth2[st.e[id].prev] = depth[st.e[id].prev]
          BY <5>5, <1>9
        <5>7. r.e[x].prev = st.e[id].prev
          BY <1>3, <2>2, <3>1, <4>2
        <5>8. depth[st.e[id].prev] < depth[x]
          <6>1. depth[st.e[id].prev] \in Nat /\ depth[id] \in Nat /\ depth[x] \in Nat
            BY <5>5, <1>1, <1>2, <3>1
          <6> QED
            BY <6>1, <5>4, <5>3, <4>1
        <5> QED
          BY <5>3, <5>4, <5>6, <5>7, <5>8, <4>1, <3>2
      <4>3. CASE ~(id # st.count /\ x = st.e[id].next)
        <5>1. r.e[x].prev = st.e[x].prev
          BY <1>3, <2>2, <3>1, <4>3
        <5>2. st.e[x].prev # id
          BY <4>1, <4>3, <1>1
        <5>3. st.e[x].prev \in Ids
          BY <4>1, <1>1
        <5>4. root2[st.e[x].prev] = root[st.e[x].prev] /\ depth2[st.e[x].prev] = depth[st.e[x].prev]
          BY <5>2, <5>3, <1>9
        <5> QED
          BY <5>1, <5>4, <4>1, <3>2
      <4> QED
        BY <4>2, <4>3
    <3> QED
      BY <3>1, <3>2, <3>3, <3>4, <3>5 DEF Ranked
  <2> QED
    BY <2>1, <2>2
<1>14. Ranked(r, {}, root2, depth2)
  BY <1>12, <1>13 DEF Ranked
<1>15. ASSUME NEW x \in 0 .. st.count - 1, root[x] # 0
       PROVE  root2[x] = root[x]
  <2>1. ~st.e[x].deleted /\ x # st.count
    BY <1>15, <1>1 DEF Ranked
  <2>2. x # id
    BY <2>1, <1>3
  <2> QED
    BY <2>2, <1>1, <1>9
<1>16. r.count >= st.count
  BY <1>3, <1>1
<1> QED
  BY <1>14, <1>15, <1>16 DEF r

\* Freeing the first entry of a list of starts moves that entry to the free
\* list and leaves the rest of its chain to start with the next one.
LEMMA RankedFree ==
    ASSUME NEW st, NEW id \in Ids, Whole(st, {id}), Live(st, id),
           NEW root, NEW depth, Ranked(st, {id}, root, depth)
    PROVE  \E root2, depth2 :
              /\ Ranked(AddToFreeList(st, id), {st.e[id].next} \ {Last}, root2, depth2)
              /\ \A x \in 0 .. st.count - 1 : root[x] # id => root2[x] = root[x]
              /\ AddToFreeList(st, id).count = st.count
<1> DEFINE r == AddToFreeList(st, id)
           next == st.e[id].next
           rest == {next} \ {Last}
           before == IF HasFreeRight(st, id) THEN st.e[id + 1].prev
                     ELSE IF HasFreeLeft(st, id) THEN id - 1 ELSE 0
           after == IF HasFreeRight(st, id) THEN id + 1
                    ELSE IF HasFreeLeft(st, id) THEN st.e[id - 1].next ELSE st.free
           root2 == [x \in Ids |-> IF x = id THEN 0 ELSE IF root[x] = id THEN next ELSE root[x]]
           depth2 == [x \in Ids |-> IF x = id THEN 2 * depth[before] + 1 ELSE 2 * depth[x]]
<1>1. /\ st \in Store /\ ListLinked(st) /\ ChainsOK(st, {id})
      /\ st.e \in [Ids -> Entry] /\ st.count \in 1 .. MaxEntries /\ 0 .. st.count - 1 \subseteq Ids
      /\ MaxEntries \in Nat /\ 0 \in Ids /\ 0 \in 0 .. st.count - 1 /\ Last = MaxEntries
      /\ root \in [Ids -> Nat] /\ depth \in [Ids -> Nat] /\ Last \notin Ids
      /\ id \in 1 .. st.count - 1 /\ ~st.e[id].deleted /\ next \in 0 .. MaxEntries
  <2>1. st \in Store /\ ListLinked(st) /\ ChainsOK(st, {id})
    BY DEF Whole
  <2>2. /\ st.e \in [Ids -> Entry] /\ st.count \in 1 .. MaxEntries
        /\ MaxEntries \in Nat \ {0} /\ Last = MaxEntries
    BY <2>1, VarStoreAssumption DEF Store, Last
  <2>3. 0 .. st.count - 1 \subseteq Ids /\ 0 \in Ids /\ 0 \in 0 .. st.count - 1 /\ Last \notin Ids
    BY <2>2 DEF Ids
  <2>4. id \in 1 .. st.count - 1 /\ ~st.e[id].deleted
    BY <2>2 DEF Live, Ids
  <2>5. st.e[id] \in Entry
    BY <2>2
  <2>6. next \in 0 .. MaxEntries
    BY <2>5 DEF Entry
  <2> QED
    BY <2>1, <2>2, <2>3, <2>4, <2>6 DEF Ranked
<1>2. /\ r \in Store /\ ListLinked(r) /\ r.count = st.count /\ r.e[id].deleted
      /\ \A x \in Ids : x # id => r.e[x].deleted = st.e[x].deleted
      /\ \A x \in Ids : x # id /\ ~st.e[x].deleted /\ x < st.count => r.e[x] = st.e[x]
  BY <1>1, AddToFreeFacts
<1>3. r.e = LinkBetween(st, id, before, after)
  BY DEF AddToFreeList
<1>4. /\ before \in 0 .. st.count - 1 /\ st.e[before].deleted /\ st.e[before].next = after
  <2>1. CASE HasFreeRight(st, id)
    <3>1. id + 1 \in 0 .. st.count - 1 /\ st.e[id + 1].deleted /\ id + 1 # 0
      BY <2>1, <1>1 DEF HasFreeRight
    <3>2. ListNode(st, id + 1)
      BY <3>1, <1>1 DEF ListLinked
    <3> QED
      BY <3>1, <3>2, <2>1 DEF ListNode
  <2>2. CASE ~HasFreeRight(st, id) /\ HasFreeLeft(st, id)
    BY <2>2, <1>1 DEF HasFreeLeft
  <2>3. CASE ~HasFreeRight(st, id) /\ ~HasFreeLeft(st, id)
    <3>1. before = 0 /\ after = st.free
      BY <2>3
    <3>2. st.e[0].deleted /\ st.e[0].next = st.free
      BY <1>1 DEF ListLinked
    <3> HIDE DEF before, after
    <3> QED
      BY <3>1, <3>2, <1>1
  <2> QED
    BY <2>1, <2>2, <2>3
<1>5. before \in Ids /\ before # id /\ depth[before] \in Nat
  BY <1>1, <1>4
<1> HIDE DEF before, after, r
<1>6. /\ r.e[id].prev = before
      /\ \A x \in Ids : x # id => r.e[x].prev = IF x = after THEN id ELSE st.e[x].prev
  <2>1. r.e[id] = FreeEntry(before, after)
    BY <1>3 DEF LinkBetween
  <2>2. \A x \in Ids : x # id => r.e[x] = Relink(st.e[x], IF x = after THEN id ELSE st.e[x].prev,
                                                  IF x = before THEN id ELSE st.e[x].next)
    BY <1>3 DEF LinkBetween
  <2>3. r.e[id].prev = before
    BY <2>1 DEF FreeEntry
  <2>4. ASSUME NEW x \in Ids, x # id
        PROVE  r.e[x].prev = IF x = after THEN id ELSE st.e[x].prev
    <3>1. \A e, p, n : Relink(e, p, n).prev = p
      BY DEF Relink
    <3> QED
      BY <2>2, <2>4, <3>1
  <2> QED
    BY <2>3, <2>4
<1>7. Starts(r, rest) = (Starts(st, {id}) \ {id}) \cup rest
  <2>1. \A x \in Ids : x # id => (IsFirst(r, x) <=> IsFirst(st, x))
    <3>1. ASSUME NEW x \in Ids, x # id PROVE IsFirst(r, x) <=> IsFirst(st, x)
      <4>1. r.e[x].deleted = st.e[x].deleted /\ r.count = st.count
        BY <3>1, <1>2
      <4>2. Live(r, x) <=> Live(st, x)
        BY <4>1 DEF Live
      <4>3. Live(st, x) => r.e[x] = st.e[x]
        BY <3>1, <1>2 DEF Live
      <4> QED
        BY <4>2, <4>3 DEF IsFirst
    <3> QED
      BY <3>1
  <2>2. ~IsFirst(r, id)
    BY <1>2 DEF IsFirst, Live
  <2>3. id # 0
    BY <1>1
  <2> HIDE DEF rest
  <2> QED
    BY <2>1, <2>2, <2>3 DEF Starts, Records
<1>8. id \in Starts(st, {id}) /\ root[id] = id /\ root[0] = 0
  BY <1>1 DEF Starts, Ranked
<1>9. next # Last =>
        /\ next \in 0 .. st.count - 1 /\ next \notin Starts(st, {id})
        /\ st.e[next].prev = id /\ root[next] = id /\ next # id
  <2>1. ASSUME next # Last
        PROVE  next \in 0 .. st.count - 1 /\ next \notin Starts(st, {id}) /\ st.e[next].prev = id
    BY <2>1, <1>1, Neighbours
  <2>2. ASSUME next # Last PROVE root[next] = id
    BY <2>1, <2>2, <1>8 DEF Ranked
  <2> QED
    BY <2>1, <2>2, <1>8
<1>10. next \in Nat /\ next # 0
  <2>1. next # Last => next # 0
    BY <1>9 DEF Starts
  <2> QED
    BY <2>1, <1>1
<1>11. \A x \in Ids : /\ root2[x] = IF x = id THEN 0 ELSE IF root[x] = id THEN next ELSE root[x]
                      /\ depth2[x] = IF x = id THEN 2 * depth[before] + 1 ELSE 2 * depth[x]
  OBVIOUS
<1>12. root2 \in [Ids -> Nat] /\ depth2 \in [Ids -> Nat]
  <2>1. \A x \in Ids : depth[x] \in Nat /\ root[x] \in Nat
    BY <1>1
  <2>2. 2 * depth[before] + 1 \in Nat /\ \A x \in Ids : 2 * depth[x] \in Nat
    BY <2>1, <1>5
  <2> HIDE DEF next
  <2> QED
    BY <2>1, <2>2, <1>10
<1> HIDE DEF root2, depth2, next
<1>13. ASSUME NEW x \in 0 .. st.count - 1
       PROVE  /\ r.e[x].deleted <=> root2[x] = 0
              /\ x \in Starts(r, rest) => root2[x] = x
              /\ x \notin Starts(r, rest) =>
                    root2[r.e[x].prev] = root2[x] /\ depth2[r.e[x].prev] < depth2[x]
  <2>1. CASE x = id
    <3>1. root2[x] = 0 /\ depth2[x] = 2 * depth[before] + 1
      BY <2>1, <1>11
    <3>2. x \notin Starts(r, rest)
      BY <2>1, <1>7, <1>9
    <3>3. root[before] = 0
      BY <1>4 DEF Ranked
    <3>4. root2[before] = 0 /\ depth2[before] = 2 * depth[before]
      BY <3>3, <1>5, <1>11, <1>1
    <3>5. depth2[before] < depth2[x]
      BY <3>1, <3>4, <1>5
    <3> QED
      BY <3>1, <3>2, <3>4, <3>5, <2>1, <1>2, <1>6
  <2>2. CASE x # id
    <3>1. /\ x \in Ids /\ depth2[x] = 2 * depth[x] /\ depth[x] \in Nat
          /\ root2[x] = IF root[x] = id THEN next ELSE root[x]
      BY <2>2, <1>1, <1>11
    <3>2. r.e[x].deleted <=> root2[x] = 0
      <4>1. r.e[x].deleted = st.e[x].deleted
        BY <2>2, <3>1, <1>2
      <4>2. st.e[x].deleted <=> root[x] = 0
        BY DEF Ranked
      <4>3. root2[x] = 0 <=> root[x] = 0
        BY <3>1, <1>10, <1>1
      <4> QED
        BY <4>1, <4>2, <4>3
    <3>3. ASSUME x \in Starts(r, rest) PROVE root2[x] = x
      <4>1. CASE x \in rest
        BY <4>1, <3>1, <1>9
      <4>2. CASE x \notin rest
        <5>1. x \in Starts(st, {id})
          BY <4>2, <3>3, <1>7
        <5>2. root[x] = x
          BY <5>1 DEF Ranked
        <5> QED
          BY <5>2, <3>1, <2>2
      <4> QED
        BY <4>1, <4>2
    <3>4. ASSUME x \notin Starts(r, rest)
          PROVE  root2[r.e[x].prev] = root2[x] /\ depth2[r.e[x].prev] < depth2[x]
      <4>1. x \notin Starts(st, {id}) /\ x \notin rest
        BY <3>4, <2>2, <1>7
      <4> DEFINE y == st.e[x].prev
      <4>2. /\ y \in 0 .. st.count - 1 /\ st.e[y].next = x
            /\ root[y] = root[x] /\ depth[y] < depth[x]
        <5>1. y \in 0 .. st.count - 1 /\ st.e[y].next = x
          BY <4>1, Neighbours
        <5>2. root[y] = root[x] /\ depth[y] < depth[x]
          BY <4>1 DEF Ranked
        <5> QED
          BY <5>1, <5>2
      <4>3. y # id
        <5>1. x # Last
          BY <3>1, <1>1
        <5> QED
          BY <4>1, <4>2, <5>1 DEF next
      <4>4. /\ y \in Ids /\ depth[y] \in Nat /\ depth2[y] = 2 * depth[y]
            /\ root2[y] = IF root[y] = id THEN next ELSE root[y]
        BY <4>2, <4>3, <1>1, <1>11
      <4>5. CASE x = after
        <5>1. y = before
          <6>1. after # Last
            BY <4>5, <3>1, <1>1
          <6>2. st.e[after].prev = before
            BY <1>4, <6>1, Neighbours
          <6> QED
            BY <4>5, <6>2
        <5>2. r.e[x].prev = id /\ root2[id] = 0 /\ depth2[id] = 2 * depth[before] + 1
          BY <4>5, <2>2, <3>1, <1>6, <1>11
        <5>3. root[before] = 0
          BY <1>4 DEF Ranked
        <5>4. root2[x] = 0
          BY <5>1, <5>3, <4>2, <3>1, <1>1
        <5>5. depth2[id] < depth2[x]
          BY <5>1, <5>2, <4>2, <3>1, <1>5
        <5> QED
          BY <5>2, <5>4, <5>5
      <4>6. CASE x # after
        <5>1. r.e[x].prev = y
          BY <4>6, <2>2, <3>1, <1>6
        <5>2. depth2[y] < depth2[x]
          BY <4>4, <4>2, <3>1
        <5>3. root2[y] = root2[x]
          BY <4>4, <4>2, <3>1
        <5> QED
          BY <5>1, <5>2, <5>3
      <4> QED
        BY <4>5, <4>6
    <3> QED
      BY <3>2, <3>3, <3>4
  <2> QED
    BY <2>1, <2>2
<1>14. Ranked(r, rest, root2, depth2)
  <2> HIDE DEF rest
  <2> QED
    BY <1>2, <1>12, <1>13 DEF Ranked
<1>15. ASSUME NEW x \in 0 .. st.count - 1, root[x] # id
       PROVE  root2[x] = root[x]
  BY <1>15, <1>8, <1>11, <1>1
<1> QED
  BY <1>14, <1>15, <1>2 DEF r, next

\* What an operation that moves no entry leaves where it is.
LEMMA RankedSame ==
    ASSUME NEW st, NEW st2, NEW rest, NEW rest2, NEW root, NEW depth,
           Ranked(st, rest, root, depth),
           st2.count = st.count, Starts(st2, rest2) = Starts(st, rest),
           \A x \in 0 .. st.count - 1 : st2.e[x].deleted = st.e[x].deleted,
           \A x \in 0 .. st.count - 1 : x \notin Starts(st, rest) => st2.e[x].prev = st.e[x].prev
    PROVE  Ranked(st2, rest2, root, depth)
BY DEF Ranked

LEMMA IsWhole == IInv => Whole(s, Removing)
<1> SUFFICES ASSUME IInv PROVE Whole(s, Removing)
  OBVIOUS
<1>1. s \in Store /\ ListLinked(s) /\ ChainsOK(s, Removing)
  BY DEF IInv, TypeOK, FreeListLinked, ChainsLinked
<1>2. ASSUME NEW id \in Removing
      PROVE  /\ id \in Ids /\ Live(s, id)
             /\ s.e[id].first \/ (s.e[id].prev \in Ids /\ s.e[s.e[id].prev].deleted)
  <2>1. PICK t \in Threads : call[t].op = "remove" /\ call[t].at = id /\ id # Last
    BY DEF Removing
  <2>2. CallKnows(s, call[t]) /\ call[t] \in Calls
    BY DEF IInv, CallsKnow, TypeOK
  <2>3. id \in Ids
    BY <2>1, <2>2, VarStoreAssumption DEF Calls, Ids, Last
  <2> QED
    BY <2>1, <2>2, <2>3 DEF CallKnows
<1> QED
  BY <1>1, <1>2 DEF Whole

\* The entries that are somewhere, other than on the free list or in the part
\* of a chain that starts with a freed entry, are still there after a step.
Kept(root, root2) ==
    /\ s'.count >= s.count
    /\ \A x \in 0 .. s.count - 1 :
          root[x] # 0 /\ ~s'.e[root[x]].deleted => root2[x] = root[x]

LEMMA StepSame ==
    ASSUME IInv, NEW root, NEW depth, Ranked(s, Removing, root, depth),
           s'.e = s.e, s'.count = s.count, Removing' = Removing
    PROVE  \E root2, depth2 : Ranked(s', Removing', root2, depth2) /\ Kept(root, root2)
<1>1. s.count \in Nat
  BY VarStoreAssumption DEF IInv, TypeOK, Store
<1>2. Starts(s', Removing') = Starts(s, Removing)
  BY DEF Starts, Records, IsFirst, Live
<1>3. Ranked(s', Removing', root, depth)
  BY <1>2, RankedSame
<1>4. Kept(root, root)
  BY <1>1 DEF Kept
<1> QED
  BY <1>3, <1>4

\* A record's count changes; what the last reference leaves starts where the
\* record did.
LEMMA StepRefs ==
    ASSUME IInv, NEW root, NEW depth, Ranked(s, Removing, root, depth),
           NEW r \in Ids, IsFirst(s, r), NEW n \in Nat, s' = SetRefs(s, r, n),
           Removing = {}, Removing' \subseteq {r}
    PROVE  \E root2, depth2 : Ranked(s', Removing', root2, depth2) /\ Kept(root, root2)
<1>1. s \in Store /\ s.count \in Nat /\ ListLinked(s) /\ ChainsOK(s, {})
  BY VarStoreAssumption DEF IInv, TypeOK, Store, FreeListLinked, ChainsLinked
<1>2. /\ s'.e[r].first /\ \A x \in Ids : x # r => s'.e[x] = s.e[x]
      /\ \A x \in Ids : Live(s', x) <=> Live(s, x)
  BY <1>1, SetRefsFacts
<1>3. s'.count = s.count /\ s'.e[r] = Relink(s.e[r], n, s.e[r].next)
  BY DEF SetRefs
<1>4. Records(s') = Records(s) /\ r \in Records(s)
  BY <1>2 DEF Records, IsFirst
<1>5. Starts(s', Removing') = Starts(s, Removing)
  BY <1>4 DEF Starts
<1>6. ASSUME NEW x \in 0 .. s.count - 1
      PROVE  /\ s'.e[x].deleted = s.e[x].deleted
             /\ x \notin Starts(s, Removing) => s'.e[x].prev = s.e[x].prev
  <2>1. x \in Ids
    BY <1>1, VarStoreAssumption DEF Store, Ids
  <2>2. CASE x = r
    BY <2>2, <1>3, <1>4 DEF Relink, Starts
  <2>3. CASE x # r
    BY <2>1, <2>3, <1>2
  <2> QED
    BY <2>2, <2>3
<1>7. Ranked(s', Removing', root, depth)
  BY <1>3, <1>5, <1>6, RankedSame
<1>8. Kept(root, root)
  BY <1>1, <1>3 DEF Kept
<1> QED
  BY <1>7, <1>8

LEMMA StepAllocate ==
    ASSUME IInv, NEW root, NEW depth, Ranked(s, Removing, root, depth),
           NEW p \in 0 .. s.count - 1, p # 0 => Live(s, p) /\ s.e[p].next = Last,
           HasRoom(s, p), s' = AllocateEntry(s, p), Removing = {}, Removing' = {}
    PROVE  \E root2, depth2 : Ranked(s', Removing', root2, depth2) /\ Kept(root, root2)
<1>1. s \in Store /\ ListLinked(s) /\ ChainsOK(s, {})
  BY DEF IInv, TypeOK, FreeListLinked, ChainsLinked
<1>2. \E root2, depth2 :
         /\ Ranked(AllocateEntry(s, p), {}, root2, depth2)
         /\ \A x \in 0 .. s.count - 1 : root[x] # 0 => root2[x] = root[x]
         /\ AllocateEntry(s, p).count >= s.count
  BY <1>1, RankedAllocate
<1>3. PICK root2, depth2 :
         /\ Ranked(AllocateEntry(s, p), {}, root2, depth2)
         /\ \A x \in 0 .. s.count - 1 : root[x] # 0 => root2[x] = root[x]
         /\ AllocateEntry(s, p).count >= s.count
  BY <1>2
<1>4. Ranked(s', Removing', root2, depth2)
  BY <1>3
<1>5. Kept(root, root2)
  BY <1>3 DEF Kept
<1> QED
  BY <1>4, <1>5

LEMMA StepFree ==
    ASSUME IInv, NEW root, NEW depth, Ranked(s, Removing, root, depth),
           NEW id \in Ids, Removing = {id}, s' = AddToFreeList(s, id),
           Removing' = {s.e[id].next} \ {Last}
    PROVE  \E root2, depth2 : Ranked(s', Removing', root2, depth2) /\ Kept(root, root2)
<1>1. Whole(s, {id}) /\ Live(s, id) /\ Ranked(s, {id}, root, depth)
  <2>1. Whole(s, {id})
    BY IsWhole
  <2> QED
    BY <2>1 DEF Whole
<1>2. \E root2, depth2 :
         /\ Ranked(AddToFreeList(s, id), {s.e[id].next} \ {Last}, root2, depth2)
         /\ \A x \in 0 .. s.count - 1 : root[x] # id => root2[x] = root[x]
         /\ AddToFreeList(s, id).count = s.count
  BY <1>1, RankedFree
<1>3. PICK root2, depth2 :
         /\ Ranked(AddToFreeList(s, id), {s.e[id].next} \ {Last}, root2, depth2)
         /\ \A x \in 0 .. s.count - 1 : root[x] # id => root2[x] = root[x]
         /\ AddToFreeList(s, id).count = s.count
  BY <1>2
<1>4. Ranked(s', Removing', root2, depth2)
  BY <1>3
<1>5. s'.e[id].deleted /\ s.count \in Nat
  <2>1. s \in Store /\ s.count \in Nat /\ ListLinked(s)
    BY VarStoreAssumption DEF IInv, TypeOK, Store, FreeListLinked
  <2>2. id \in 1 .. s.count - 1 /\ ~s.e[id].deleted
    BY <1>1, <2>1, VarStoreAssumption DEF Live, Ids
  <2> QED
    BY <2>1, <2>2, AddToFreeFacts
<1>6. Kept(root, root2)
  BY <1>3, <1>5 DEF Kept
<1> QED
  BY <1>4, <1>6

\* The entry that will be freed next changes with the calls that remove.
LEMMA RemovingNext ==
    ASSUME IInv, NEW t \in Threads, NEW c \in Calls, call' = [call EXCEPT ![t] = c],
           \A u \in Threads : u # t => call[u].op # "remove"
    PROVE  Removing' = IF c.op = "remove" THEN {c.at} \ {Last} ELSE {}
<1>1. call'[t] = c /\ \A u \in Threads : u # t => call'[u].op # "remove"
  BY DEF IInv, TypeOK
<1> QED
  BY <1>1 DEF Removing

LEMMA InitPlaced == Init => Placed
<1> SUFFICES ASSUME Init PROVE Placed
  OBVIOUS
<1> DEFINE root == [x \in Ids |-> 0]
<1>1. s.count = 1 /\ s.e[0].deleted
  BY VarStoreAssumption DEF Init, EmptyStore, FreeEntry, Ids
<1>2. \A x \in 0 .. s.count - 1 : x = 0 /\ x \in Starts(s, Removing)
  BY <1>1 DEF Starts
<1>3. Ranked(s, Removing, root, root)
  BY <1>1, <1>2, VarStoreAssumption DEF Ranked, Ids
<1> QED
  BY <1>3 DEF Placed

LEMMA PlacedStep ==
    ASSUME IInv, [Next]_vars, NEW root, NEW depth, Ranked(s, Removing, root, depth)
    PROVE  \E root2, depth2 : Ranked(s', Removing', root2, depth2) /\ Kept(root, root2)
<1> DEFINE Goal == \E root2, depth2 : Ranked(s', Removing', root2, depth2) /\ Kept(root, root2)
<1>1. /\ s \in Store /\ call \in [Threads -> Calls] /\ 0 \in 0 .. s.count - 1 /\ 0 .. s.count - 1 \subseteq Ids
      /\ s.count \in Nat /\ owned \in [Ids -> Nat] /\ ListLinked(s)
      /\ \A r \in Ids : owned[r] > 0 => IsFirst(s, r) /\ s.e[r].prev = owned[r]
  <2>1. s \in Store /\ call \in [Threads -> Calls] /\ owned \in [Ids -> Nat] /\ ListLinked(s)
    BY DEF IInv, TypeOK, FreeListLinked
  <2>2. s.count \in 1 .. MaxEntries
    BY <2>1 DEF Store
  <2>3. \A r \in Ids : owned[r] > 0 => IsFirst(s, r) /\ s.e[r].prev = owned[r]
    BY DEF IInv, RefsAccounted
  <2> QED
    BY <2>1, <2>2, <2>3, VarStoreAssumption DEF Ids
<1>2. CASE UNCHANGED vars
  <2>1. Removing' = Removing
    BY <1>2 DEF vars, Removing
  <2> QED
    BY <1>2, <2>1, StepSame DEF vars
<1>3. CASE Reopen
  <2>1. Removing' = Removing /\ s'.e = s.e /\ s'.count = s.count
    BY <1>3 DEF Reopen, vars, Removing
  <2> QED
    BY <2>1, StepSame
\* A step of a thread that neither removes nor allocates.
<1>4. ASSUME NEW t \in Threads, NEW c \in Calls, s' = s, call' = [call EXCEPT ![t] = c],
             c.op # "remove", Removing = {}, \A u \in Threads : u # t => call[u].op # "remove"
      PROVE  Goal
  <2>1. Removing' = {}
    BY <1>4, RemovingNext
  <2> QED
    BY <1>4, <2>1, StepSame
<1>5. ASSUME NEW t \in Threads, NEW size \in 0 .. MaxGrow, AddRecord(t, size)
      PROVE  Goal
  <2>1. mSync = None /\ HasRoom(s, 0) /\ s' = AllocateEntry(s, 0)
    BY <1>5 DEF AddRecord, CanStart
  <2>2. Removing = {} /\ \A u \in Threads : call[u].op \in {"idle", "added"}
    BY <2>1, Unlocked
  <2>3. \A u \in Threads : call'[u].op # "remove"
    BY <1>5, <1>1, <2>2 DEF AddRecord, Calling
  <2>4. Removing' = {}
    BY <2>3 DEF Removing
  <2> QED
    BY <1>1, <2>1, <2>2, <2>4, StepAllocate
<1>6. ASSUME NEW t \in Threads, AddRecordFill(t)
      PROVE  Goal
  <2>1. mSync = None /\ s' = s
    BY <1>6 DEF AddRecordFill
  <2>2. Removing = {} /\ \A u \in Threads : call[u].op \in {"idle", "added"}
    BY <2>1, Unlocked
  <2>3. \A u \in Threads : call'[u].op # "remove"
    BY <1>6, <1>1, <2>2 DEF AddRecordFill, Calling
  <2>4. Removing' = Removing
    BY <2>2, <2>3 DEF Removing
  <2> QED
    BY <2>1, <2>4, StepSame
<1>7. ASSUME NEW t \in Threads, NEW r \in Ids,
             GetRecord(t, r) \/ \E size \in 1 .. MaxGrow : UpdateRecord(t, r, size)
      PROVE  Goal
  <2>1. mSync = None /\ s' = s
    BY <1>7 DEF GetRecord, UpdateRecord, CanStart
  <2>2. Removing = {} /\ \A u \in Threads : call[u].op \in {"idle", "added"}
    BY <2>1, Unlocked
  <2>3. \A u \in Threads : call'[u].op # "remove"
    BY <1>7, <1>1, <2>2 DEF GetRecord, UpdateRecord, Calling
  <2>4. Removing' = Removing
    BY <2>2, <2>3 DEF Removing
  <2> QED
    BY <2>1, <2>4, StepSame
<1>8. ASSUME NEW t \in Threads, NEW r \in Ids, IncrementRecordRef(t, r)
      PROVE  Goal
  <2>1. mSync = None /\ owned[r] > 0 /\ s' = SetRefs(s, r, s.e[r].prev + 1) /\ call' = call
    BY <1>8 DEF IncrementRecordRef, CanStart
  <2>2. Removing = {}
    BY <2>1, Unlocked
  <2>3. Removing' = {}
    BY <2>1, <2>2 DEF Removing
  <2>4. IsFirst(s, r) /\ s.e[r].prev = owned[r] /\ owned[r] \in Nat
    BY <2>1, <1>1
  <2>5. s.e[r].prev + 1 \in Nat
    BY <2>4
  <2> QED
    BY <2>1, <2>2, <2>3, <2>4, <2>5, StepRefs
<1>9. ASSUME NEW t \in Threads, NEW r \in Ids, DecrementRecordRef(t, r)
      PROVE  Goal
  <2>1. /\ mSync = None /\ owned[r] > 0 /\ s' = SetRefs(s, r, s.e[r].prev - 1)
        /\ call' = call \/ call' = [call EXCEPT ![t] = Calling("remove", None, r, 0, 0)]
    BY <1>9 DEF DecrementRecordRef, CanStart
  <2>2. Removing = {} /\ \A u \in Threads : call[u].op \in {"idle", "added"}
    BY <2>1, Unlocked
  <2>3. Removing' \subseteq {r}
    <3>1. \A u \in Threads : call'[u].op = "remove" => call'[u].at = r
      BY <2>1, <2>2, <1>1 DEF Calling
    <3> QED
      BY <3>1 DEF Removing
  <2>4. IsFirst(s, r) /\ s.e[r].prev = owned[r] /\ owned[r] \in Nat
    BY <2>1, <1>1
  <2>5. s.e[r].prev - 1 \in Nat
    BY <2>4, <2>1
  <2> QED
    BY <2>1, <2>2, <2>3, <2>4, <2>5, StepRefs
<1>10. ASSUME NEW t \in Threads, HolderStep(t)
       PROVE  Goal
  <2>1. call[t].op \in {"update", "get", "remove"} /\ call[t] \in Calls /\ CallKnows(s, call[t])
    <3>1. call[t].op \in {"update", "get", "remove"}
      BY <1>10 DEF HolderStep, UpdateStep, UpdateGrow, UpdateFails, UpdateDone, GetStep, RemoveStep
    <3> QED
      BY <3>1, <1>1 DEF IInv, CallsKnow
  <2>2. /\ \A u \in Threads : u # t => call[u].op # "remove"
        /\ Removing = IF call[t].op = "remove" THEN {call[t].at} \ {Last} ELSE {}
    BY <2>1, Locked
  <2>3. CASE UpdateGrow(t)
    <3> DEFINE p == call[t].prev
    <3> DEFINE c == Calling("update", call[t].rec, Last, Allocated(s, p), call[t].left - 1)
    <3>1. /\ HasRoom(s, p) /\ s' = AllocateEntry(s, p) /\ call[t].op = "update" /\ call[t].at = Last
          /\ call' = [call EXCEPT ![t] = c] /\ c.op = "update"
      BY <2>3 DEF UpdateGrow, Calling
    <3> HIDE DEF c
    <3>2. p \in 0 .. s.count - 1 /\ Live(s, p) /\ s.e[p].next = Last
      <4>1. Live(s, p) /\ s.e[p].next = Last /\ p \in Ids
        BY <3>1, <2>1 DEF CallKnows, Calls
      <4> QED
        BY <4>1, <1>1 DEF Live, Ids
    <3>3. \A u \in Threads : call'[u].op # "remove"
      BY <3>1, <2>2, <1>1
    <3>4. Removing = {} /\ Removing' = {}
      BY <3>1, <2>2, <3>3 DEF Removing
    <3> QED
      BY <3>1, <3>2, <3>4, StepAllocate
  <2>4. CASE (\E writes \in BOOLEAN : UpdateStep(t, writes)) \/ UpdateFails(t) \/ UpdateDone(t) \/ GetStep(t)
    <3>1. /\ call[t].op \in {"update", "get"} /\ s' = s
          /\ \E c : call' = [call EXCEPT ![t] = c] /\ c.op # "remove"
      BY <2>4 DEF UpdateStep, UpdateFails, UpdateDone, GetStep, Unlock, Idle, Calling
    <3>2. \A u \in Threads : call'[u].op # "remove"
      BY <3>1, <2>2, <1>1
    <3>3. Removing' = Removing
      BY <3>1, <3>2, <2>2 DEF Removing
    <3> QED
      BY <3>1, <3>3, StepSame
  <2>5. CASE RemoveStep(t)
    <3> DEFINE id == call[t].at
    <3>1. call[t].op = "remove"
      BY <2>5 DEF RemoveStep
    <3>2. CASE id = Last
      <4>1. s' = s /\ call' = [call EXCEPT ![t] = Idle]
        BY <2>5, <3>2 DEF RemoveStep, Unlock
      <4>2. \A u \in Threads : call'[u].op # "remove"
        BY <4>1, <2>2, <1>1 DEF Idle, Calling
      <4>3. Removing' = Removing
        BY <3>1, <3>2, <4>2, <2>2 DEF Removing
      <4> QED
        BY <4>1, <4>3, StepSame
    <3>3. CASE id # Last
      <4> DEFINE c == Calling("remove", None, s.e[id].next, 0, 0)
      <4>1. s' = AddToFreeList(s, id) /\ call' = [call EXCEPT ![t] = c]
        BY <2>5, <3>3 DEF RemoveStep
      <4>2. id \in Ids /\ Removing = {id}
        BY <3>1, <3>3, <2>1, <2>2, VarStoreAssumption DEF Calls, Ids, Last
      <4>3. c \in Calls /\ c.op = "remove" /\ c.at = s.e[id].next
        <5>1. s.e[id] \in Entry
          BY <4>2, <1>1 DEF Store
        <5>2. s.e[id].next \in 0 .. MaxEntries /\ 0 \in Ids /\ 0 \in 0 .. MaxGrow
          BY <5>1, VarStoreAssumption DEF Entry, Ids
        <5> QED
          BY <5>2 DEF Calling, Calls, Ops
      <4> HIDE DEF c
      <4>4. Removing' = {s.e[id].next} \ {Last}
        BY <4>1, <4>3, <2>2, RemovingNext
      <4> QED
        BY <4>1, <4>2, <4>4, StepFree
    <3> QED
      BY <3>2, <3>3
  <2> QED
    BY <1>10, <2>3, <2>4, <2>5 DEF HolderStep
<1> HIDE DEF Goal
<1>11. ASSUME NEW t \in Threads,
              \/ \E size \in 0 .. MaxGrow : AddRecord(t, size)
              \/ AddRecordFill(t)
              \/ \E r \in Ids :
                    \/ \E size \in 1 .. MaxGrow : UpdateRecord(t, r, size)
                    \/ GetRecord(t, r)
                    \/ IncrementRecordRef(t, r)
                    \/ DecrementRecordRef(t, r)
              \/ HolderStep(t)
       PROVE  Goal
  <2>1. CASE \E size \in 0 .. MaxGrow : AddRecord(t, size)
    BY <2>1, <1>5
  <2>2. CASE \E r \in Ids : GetRecord(t, r) \/ \E size \in 1 .. MaxGrow : UpdateRecord(t, r, size)
    BY <2>2, <1>7
  <2>3. CASE \E r \in Ids : IncrementRecordRef(t, r)
    BY <2>3, <1>8
  <2>4. CASE \E r \in Ids : DecrementRecordRef(t, r)
    BY <2>4, <1>9
  <2> QED
    BY <1>11, <2>1, <2>2, <2>3, <2>4, <1>6, <1>10
<1>12. Next \/ UNCHANGED vars
  OBVIOUS
<1>13. Goal
  <2>1. CASE Next /\ ~Reopen
    <3>1. PICK t \in Threads :
              \/ \E size \in 0 .. MaxGrow : AddRecord(t, size)
              \/ AddRecordFill(t)
              \/ \E r \in Ids :
                    \/ \E size \in 1 .. MaxGrow : UpdateRecord(t, r, size)
                    \/ GetRecord(t, r)
                    \/ IncrementRecordRef(t, r)
                    \/ DecrementRecordRef(t, r)
              \/ HolderStep(t)
      BY <2>1 DEF Next
    <3> QED
      BY <3>1, <1>11
  <2> QED
    BY <2>1, <1>2, <1>3, <1>12 DEF Goal
<1> QED
  BY <1>13 DEF Goal

LEMMA PlacedNext == IInv /\ Placed /\ [Next]_vars => Placed'
<1> SUFFICES ASSUME IInv, Placed, [Next]_vars PROVE Placed'
  OBVIOUS
<1>1. PICK root, depth : Ranked(s, Removing, root, depth)
  BY DEF Placed
<1>2. \E root2, depth2 : Ranked(s', Removing', root2, depth2)
  BY <1>1, PlacedStep
<1> QED
  BY <1>2 DEF Placed

\* Of every entry of the file it can be told where it is.
THEOREM EntriesPlaced == Spec => []Placed
<1>1. Init => Placed
  BY InitPlaced
<1>2. IInv /\ Placed /\ [Next]_vars => Placed'
  BY PlacedNext
<1> QED
  BY <1>1, <1>2, Invariance, PTL DEF Spec

\* The store loses no entry: AddToFreeList and AllocateEntry, in whatever
\* order the threads call them, leave each entry in the free list or in one
\* chain, and in that one only.
THEOREM NoEntryIsLost == Spec => []NoEntryLost
<1>1. ASSUME IInv, Placed PROVE NoEntryLost
  <2>1. PICK root, depth : Ranked(s, Removing, root, depth)
    BY <1>1 DEF Placed
  <2>2. Whole(s, Removing)
    BY <1>1, IsWhole
  <2>3. ASSUME NEW id \in 0 .. s.count - 1
        PROVE  Cardinality({r \in Starts(s, Removing) : id \in Reach(s, r)}) = 1
    <3>1. root[id] \in Starts(s, Removing)
      BY <2>1, <2>2, RootIsStart
    <3>2. \A r \in Starts(s, Removing) : id \in Reach(s, r) <=> root[id] = r
      BY <2>1, <2>2, ReachIs
    <3>3. {r \in Starts(s, Removing) : id \in Reach(s, r)} = {root[id]}
      BY <3>1, <3>2
    <3> QED
      BY <3>3, FS_Singleton
  <2> QED
    BY <2>3 DEF NoEntryLost, Starts
<1> QED
  BY <1>1, Invariance, EntriesPlaced, PTL

\* While somebody holds a reference to a record, no call of another thread
\* takes an entry of its chain away.
THEOREM EntriesAreKept == Spec => ReferencedRecordsKeepEntries
<1>1. ASSUME IInv, IInv', Placed, [Next]_vars,
             NEW r \in Ids, owned[r] > 0, owned'[r] > 0
      PROVE  Reach(s, r) \subseteq Reach(s', r)
  <2>1. PICK root, depth : Ranked(s, Removing, root, depth)
    BY <1>1 DEF Placed
  <2>2. PICK root2, depth2 : Ranked(s', Removing', root2, depth2) /\ Kept(root, root2)
    BY <1>1, <2>1, PlacedStep
  <2>3. Whole(s, Removing) /\ IsFirst(s, r)
    BY <1>1, IsWhole DEF IInv, RefsAccounted
  <2>4. Whole(s', Removing')
    <3>1. (IInv => Whole(s, Removing))'
      BY IsWhole, PTL
    <3> QED
      BY <3>1, <1>1
  <2>5. IsFirst(s', r)
    BY <1>1 DEF IInv, RefsAccounted
  <2>6. Reach(s, r) = {x \in 0 .. s.count - 1 : root[x] = r}
    <3>1. r \in Starts(s, Removing)
      BY <2>3 DEF Starts, Records
    <3> QED
      BY <2>1, <2>3, <3>1, ReachIs
  <2>7. Reach(s', r) = {x \in 0 .. s'.count - 1 : root2[x] = r}
    <3>1. r \in Starts(s', Removing')
      BY <2>5 DEF Starts, Records
    <3> QED
      BY <2>2, <2>4, <3>1, ReachIs
  <2>8. ASSUME NEW x \in 0 .. s.count - 1, root[x] = r
        PROVE  x \in 0 .. s'.count - 1 /\ root2[x] = r
    <3>1. r # 0 /\ ~s'.e[r].deleted
      BY <2>5 DEF IsFirst, Live
    <3>2. s'.count \in Nat /\ s.count \in Nat
      BY <1>1, VarStoreAssumption DEF IInv, TypeOK, Store
    <3> QED
      BY <3>1, <3>2, <2>8, <2>2 DEF Kept
  <2> QED
    BY <2>6, <2>7, <2>8
<1>2. ASSUME IInv, IInv', Placed, [Next]_vars
      PROVE  \A r \in Ids : owned[r] > 0 /\ owned'[r] > 0 => Reach(s, r) \subseteq Reach(s', r)
  BY <1>1, <1>2
<1> QED
  BY <1>2, Invariance, EntriesPlaced, PTL DEF Spec, ReferencedRecordsKeepEntries

-----------------------------------------------------------------------------
(***************************************************************************)
(* Proofs about StoreRepair, for any number of fields, threads, entries,   *)
(* calls and crashes.                                                      *)
(*                                                                         *)
(* The repair knows nothing of the process that ended, so what it makes of *)
(* a file rests on Checked alone: the entries it has marked are those of   *)
(* the values it has kept, and no two of these share one.  What survives   *)
(* rests on what the process had done before: a value that is held in      *)
(* memory is a whole record there (HeldWhole), because exactly its holders *)
(* are counted (Counted) and a Set in progress touches its own record only *)
(* (OneCall); so a value that was flushed stays a whole record in the      *)
(* file, no entry of which any other entry of the file leads to (Filed),   *)
(* whatever the caches write after.                                        *)
(***************************************************************************)

\* The entries at, the first n of the record rec, are linked one to the next.
Chain(e, count, rec, n, at) ==
    /\ at \in [1 .. n -> 1 .. count - 1] /\ at[1] = rec
    /\ \A k \in 1 .. n :
        /\ ~e[at[k]].deleted /\ (e[at[k]].first <=> k = 1)
        /\ e[at[k]].next = IF k = n THEN Last ELSE at[k + 1]
        /\ IF k = 1 THEN e[at[k]].prev >= 1 ELSE e[at[k]].prev = at[k - 1]

HasChain(e, count, rec, n) == \E at \in [1 .. n -> 1 .. count - 1] : Chain(e, count, rec, n, at)

\* No entry leads to one of them but the one before.
Alone(e, count, n, at) ==
    \A y \in 0 .. count - 1, k \in 1 .. n : e[y].next = at[k] => k > 1 /\ at[k - 1] = y

-----------------------------------------------------------------------------
(* The table in memory. *)

Working(t) == call[t].op \in {"added", "update"}
Settled    == \A t \in Threads : ~Working(t)

\* An AddRecord under way has written the beginning of the new record.
Grows(t) ==
    LET c == call[t]
        v == new.val
        n == v.size - c.left
    IN /\ new # Nothing /\ c.rec = v.rec
       /\ IF c.at = Last
          THEN /\ n >= 1 /\ c.op = "update"
               /\ \E at \in [1 .. n -> 1 .. s.count - 1] :
                    Chain(s.e, s.count, v.rec, n, at) /\ at[n] = c.prev
          ELSE /\ c.at = v.rec /\ n = 0
               /\ HasChain(s.e, s.count, v.rec, 1)

OneCall ==
    /\ \A t \in Threads : call[t].op # "get"
    /\ \A t, u \in Threads : call[t].op # "idle" /\ call[u].op # "idle" => t = u
    /\ \A t \in Threads : Working(t) => Grows(t)

\* The values that rows and callers hold, a new one once it is made.
Held == {row[f] : f \in Fields} \cup {value.val} \cup (IF Settled THEN {new.val} ELSE {})

HeldWhole == \A v \in Held \ {Null} : HasChain(s.e, s.count, v.rec, v.size)

RowsWith(r) == {f \in Fields : row[f].rec = r}
One(b)      == IF b THEN 1 ELSE 0

Counted ==
    \A r \in Ids : owned[r] = Cardinality(RowsWith(r)) + One(Settled /\ new.val.rec = r) + One(value.val.rec = r)

-----------------------------------------------------------------------------
(* The files. *)

\* A field that is as it was flushed; at are the entries of its value.
FiledAt(f, at) ==
    LET v == file.row[f] IN
    /\ Chain(file.e, file.count, v.rec, v.size, at)
    /\ Alone(file.e, file.count, v.size, at)
    /\ stage = "open" => Chain(s.e, s.count, v.rec, v.size, at)

Filed ==
    \A f \in durable :
        /\ stage = "open" => file.row[f] = row[f]
        /\ file.row[f] # Null => \E at \in [1 .. file.row[f].size -> 1 .. file.count - 1] : FiledAt(f, at)

Taken(f) == EntriesOf(file.e, file.row[f].rec, file.row[f].size)
Marked   == {f \in check.done : file.row[f] # Null}

Verified(f) ==
    /\ ~file.e[Taken(f)[1]].deleted
    /\ is_entry_valid(Taken(f), 1, file.row[f].size)
    /\ f \in Arrays => \A k \in 1 .. file.row[f].size : is_entry_valid(Taken(f), k, file.row[f].size)

Checking == stage \in {"check", "concluded", "repaired"}

Checked ==
    /\ Checking =>
        /\ check.used = {0} \cup UNION {EntriesOfField(f) : f \in Marked}
        /\ check.used \subseteq 0 .. file.count - 1
        /\ \A f \in Marked :
            /\ 0 \notin EntriesOfField(f)
            /\ \A g \in Marked : f # g => EntriesOfField(f) \cap EntriesOfField(g) = {}
            /\ Verified(f)
        /\ \A g \in check.done, h \in Fields : h < g => h \in check.done
    /\ stage \in {"concluded", "repaired"} =>
        /\ check.done = Fields
        /\ file.e = Relinked(check.used, Max(check.used) + 1)
    /\ stage = "repaired" => file.count = Max(check.used) + 1
    /\ stage = "down" => check = Unused

RInv == TableTypeOK /\ IInv /\ OneCall /\ HeldWhole /\ Counted /\ Filed /\ Checked

-----------------------------------------------------------------------------
(* Chains. *)

LEMMA FieldsFinite == IsFiniteSet(Fields) /\ Fields \subseteq Nat /\ None \notin Ids /\ 0 \in Ids /\ Last \notin Ids
BY StoreRepairAssumption, VarStoreAssumption DEF Fields, Ids, Last

\* The entries of a chain are still a chain when a step leaves their links.
LEMMA ChainSame ==
    ASSUME NEW e, NEW count, NEW r, NEW n \in Nat, NEW at, Chain(e, count, r, n, at),
           NEW e2, NEW count2,
           \A k \in 1 .. n :
              /\ at[k] \in 1 .. count2 - 1
              /\ ~e2[at[k]].deleted /\ (e2[at[k]].first <=> e[at[k]].first)
              /\ e2[at[k]].next = e[at[k]].next
              /\ IF k = 1 THEN e2[at[k]].prev >= 1 ELSE e2[at[k]].prev = e[at[k]].prev
    PROVE  Chain(e2, count2, r, n, at)
<1>1. at \in [1 .. n -> 1 .. count2 - 1] /\ at[1] = r
  BY DEF Chain
<1>2. ASSUME NEW k \in 1 .. n
      PROVE  /\ ~e2[at[k]].deleted /\ (e2[at[k]].first <=> k = 1)
             /\ e2[at[k]].next = IF k = n THEN Last ELSE at[k + 1]
             /\ IF k = 1 THEN e2[at[k]].prev >= 1 ELSE e2[at[k]].prev = at[k - 1]
  <2>1. /\ (e[at[k]].first <=> k = 1)
        /\ e[at[k]].next = IF k = n THEN Last ELSE at[k + 1]
        /\ IF k = 1 THEN e[at[k]].prev >= 1 ELSE e[at[k]].prev = at[k - 1]
    BY DEF Chain
  <2>2. CASE k = 1
    BY <2>1, <2>2
  <2>3. CASE k # 1
    BY <2>1, <2>3
  <2> QED
    BY <2>2, <2>3
<1> QED
  BY <1>1, <1>2 DEF Chain

\* Two chains with an entry in common are of the same record.
LEMMA ChainsMeet ==
    ASSUME NEW e, NEW c1, NEW r1, NEW n1 \in Nat, NEW a, Chain(e, c1, r1, n1, a),
           NEW c2, NEW r2, NEW n2 \in Nat, NEW b, Chain(e, c2, r2, n2, b),
           NEW i \in 1 .. n1, NEW j \in 1 .. n2, a[i] = b[j]
    PROVE  r1 = r2
<1> DEFINE S == {x \in 1 .. n1 : \E y \in 1 .. n2 : a[x] = b[y]}
<1>1. S # {} /\ S \in SUBSET Nat
  OBVIOUS
<1>2. PICK m \in S : \A k \in S : m <= k
  BY <1>1, Least
<1>3. PICK y \in 1 .. n2 : a[m] = b[y]
  BY <1>2
<1>4. m \in 1 .. n1
  BY <1>2
<1>5. CASE m = 1
  <2>1. y = 1
    BY <1>3, <1>4, <1>5 DEF Chain
  <2> QED
    BY <2>1, <1>3, <1>5 DEF Chain
<1>6. CASE m # 1
  <2>1. y # 1
    BY <1>3, <1>4, <1>6 DEF Chain
  <2>2. a[m - 1] = b[y - 1]
    <3>1. e[a[m]].prev = a[m - 1]
      BY <1>4, <1>6 DEF Chain
    <3>2. e[b[y]].prev = b[y - 1]
      BY <1>3, <2>1 DEF Chain
    <3> QED
      BY <3>1, <3>2, <1>3
  <2>3. m - 1 \in 1 .. n1 /\ y - 1 \in 1 .. n2
    BY <2>1, <1>3, <1>4, <1>6
  <2>4. m - 1 \in S
    BY <2>2, <2>3
  <2> QED
    BY <1>2, <1>4, <2>4
<1> QED
  BY <1>5, <1>6

\* The entries of a chain in the store are live.
LEMMA ChainLive ==
    ASSUME NEW r, NEW n, NEW at, Chain(s.e, s.count, r, n, at), NEW k \in 1 .. n, TypeOK
    PROVE  /\ at[k] \in Ids /\ at[k] \in 1 .. s.count - 1 /\ Live(s, at[k])
           /\ k = 1 <=> IsFirst(s, at[k])
<1>1. at[k] \in 1 .. s.count - 1 /\ ~s.e[at[k]].deleted /\ (s.e[at[k]].first <=> k = 1)
  BY DEF Chain
<1>2. s.count \in 1 .. MaxEntries
  BY DEF TypeOK, Store
<1>3. at[k] \in Ids /\ at[k] > 0 /\ at[k] < s.count
  BY <1>1, <1>2, VarStoreAssumption DEF Ids
<1> QED
  BY <1>1, <1>3 DEF Live, IsFirst

-----------------------------------------------------------------------------
(* A step of the store leaves the records that stay referenced alone. *)

Stores(t) ==
    \/ vars' = vars
    \/ \E size \in 1 .. MaxGrow : AddRecord(t, size)
    \/ AddRecordFill(t) \/ UpdateStep(t, TRUE) \/ UpdateGrow(t) \/ UpdateDone(t) \/ UpdateFails(t)
    \/ RemoveStep(t)
    \/ \E r \in Ids : IncrementRecordRef(t, r) \/ DecrementRecordRef(t, r)

LEMMA StoresIInv == ASSUME IInv, NEW t \in Threads, Stores(t) PROVE IInv'
<1>1. CASE vars' = vars
  BY <1>1 DEF vars, IInv, TypeOK, FreeListLinked, ChainsLinked, Removing, CallsKnow, RefsAccounted
<1>2. CASE \E size \in 1 .. MaxGrow : AddRecord(t, size)
  <2>1. PICK size \in 1 .. MaxGrow : AddRecord(t, size)
    BY <1>2
  <2>2. size \in 0 .. MaxGrow
    BY VarStoreAssumption
  <2> QED
    BY <2>1, <2>2, AddRecordIInv
<1>3. CASE AddRecordFill(t) \/ UpdateStep(t, TRUE)
  BY <1>3, WalkIInv
<1>4. CASE \E r \in Ids : IncrementRecordRef(t, r) \/ DecrementRecordRef(t, r)
  BY <1>4, IncrementIInv, DecrementIInv
<1> QED
  BY <1>1, <1>2, <1>3, <1>4, UpdateGrowIInv, UpdateDoneIInv, UpdateFailsIInv, RemoveIInv DEF Stores

\* What is known of the store outside the calls.
LEMMA StoreIs ==
    ASSUME IInv
    PROVE  /\ TypeOK /\ s \in Store /\ ListLinked(s) /\ s.e \in [Ids -> Entry]
           /\ s.count \in 1 .. MaxEntries /\ 0 \in 0 .. s.count - 1
           /\ owned \in [Ids -> Nat] /\ call \in [Threads -> Calls]
           /\ mSync = None => ChainsOK(s, {}) /\ \A t \in Threads : call[t].op \in {"idle", "added"}
           /\ \A r \in Ids : owned[r] > 0 => IsFirst(s, r) /\ s.e[r].prev = owned[r]
<1>1. TypeOK /\ s \in Store /\ ListLinked(s) /\ s.e \in [Ids -> Entry] /\ s.count \in 1 .. MaxEntries
      /\ owned \in [Ids -> Nat] /\ call \in [Threads -> Calls]
  BY DEF IInv, TypeOK, Store, FreeListLinked
<1>2. 0 \in 0 .. s.count - 1
  BY <1>1, VarStoreAssumption
<1> QED
  BY <1>1, <1>2, Unlocked DEF IInv, RefsAccounted

\* What of an entry makes it the same part of a chain.
SameLinks(a, b) == /\ ~b.deleted /\ (b.first <=> a.first) /\ b.next = a.next
                   /\ IF a.first THEN b.prev >= 1 ELSE b.prev = a.prev

LEMMA ChainKept ==
    ASSUME IInv, IInv', NEW r, NEW n \in Nat, NEW at, Chain(s.e, s.count, r, n, at),
           \A k \in 1 .. n : Live(s', at[k]) /\ SameLinks(s.e[at[k]], s'.e[at[k]])
    PROVE  Chain(s'.e, s'.count, r, n, at)
<1>1. s'.count \in 1 .. MaxEntries
  BY DEF IInv, TypeOK, Store
<1>2. ASSUME NEW k \in 1 .. n
      PROVE  /\ at[k] \in 1 .. s'.count - 1
             /\ ~s'.e[at[k]].deleted /\ (s'.e[at[k]].first <=> s.e[at[k]].first)
             /\ s'.e[at[k]].next = s.e[at[k]].next
             /\ IF k = 1 THEN s'.e[at[k]].prev >= 1 ELSE s'.e[at[k]].prev = s.e[at[k]].prev
  <2>1. Live(s', at[k]) /\ SameLinks(s.e[at[k]], s'.e[at[k]])
    OBVIOUS
  <2>2. at[k] \in 1 .. s.count - 1 /\ (s.e[at[k]].first <=> k = 1)
    BY DEF Chain
  <2>3. at[k] \in 1 .. s'.count - 1
    BY <1>1, <2>1, <2>2, StoreIs DEF Live
  <2>4. CASE k = 1
    BY <2>1, <2>2, <2>3, <2>4 DEF SameLinks
  <2>5. CASE k # 1
    BY <2>1, <2>2, <2>3, <2>5 DEF SameLinks
  <2> QED
    BY <2>4, <2>5
<1> QED
  BY <1>2, ChainSame

LEMMA ChainStays ==
    ASSUME IInv, OneCall, NEW t \in Threads, Stores(t), TableTypeOK,
           NEW r \in Ids, owned[r] > 0, owned'[r] > 0,
           NEW n \in Nat, NEW at, Chain(s.e, s.count, r, n, at)
    PROVE  Chain(s'.e, s'.count, r, n, at)
<1>1. IInv'
  BY StoresIInv
<1>2. ASSUME NEW k \in 1 .. n
      PROVE  /\ at[k] \in Ids /\ at[k] \in 1 .. s.count - 1 /\ Live(s, at[k])
             /\ (s.e[at[k]].first <=> k = 1)
             /\ (k = 1 => at[k] = r /\ s.e[at[k]].prev >= 1)
             /\ (k # 1 => s.e[at[k]].prev = at[k - 1] /\ at[k - 1] \in 1 .. s.count - 1 /\ ~s.e[at[k - 1]].deleted)
  <2>1. TypeOK
    BY StoreIs
  <2>2. at[k] \in Ids /\ at[k] \in 1 .. s.count - 1 /\ Live(s, at[k])
    BY <2>1, ChainLive
  <2>3. k # 1 => k - 1 \in 1 .. n
    OBVIOUS
  <2>4. (k # 1 => s.e[at[k]].prev = at[k - 1] /\ at[k - 1] \in 1 .. s.count - 1 /\ ~s.e[at[k - 1]].deleted)
    BY <2>3 DEF Chain
  <2>5. (k = 1 => at[k] = r /\ s.e[at[k]].prev >= 1)
    BY DEF Chain
  <2>6. s.e[at[k]].first <=> k = 1
    BY DEF Chain
  <2> QED
    BY <2>2, <2>4, <2>5, <2>6
<1>3. ASSUME NEW x \in Ids, Live(s, x), s'.e[x] = s.e[x], s.e[x].first => s.e[x].prev >= 1
      PROVE  SameLinks(s.e[x], s'.e[x])
  BY <1>3 DEF SameLinks, Live
<1>4. CASE s' = s
  BY <1>4
<1>5. CASE \E size \in 1 .. MaxGrow : AddRecord(t, size)
  <2>1. /\ HasRoom(s, 0) /\ s' = AllocateEntry(s, 0)
    BY <1>5 DEF AddRecord
  <2>2. /\ \A x \in Ids : x # Allocated(s, 0) => (Live(s', x) <=> Live(s, x))
        /\ \A x \in Ids : Live(s, x) /\ x # 0 => s'.e[x] = s.e[x]
        /\ ~Live(s, Allocated(s, 0))
    BY <2>1, StoreIs, AllocateFacts
  <2>3. ASSUME NEW k \in 1 .. n PROVE Live(s', at[k]) /\ SameLinks(s.e[at[k]], s'.e[at[k]])
    <3>1. at[k] # 0 /\ at[k] # Allocated(s, 0)
      BY <1>2, <2>2 DEF Live
    <3> QED
      BY <3>1, <2>2, <1>2, <1>3
  <2> QED
    BY <2>3, <1>1, ChainKept
<1>6. CASE UpdateGrow(t)
  <2> DEFINE p == call[t].prev
             id == Allocated(s, p)
  <2>1. /\ call[t].op = "update" /\ call[t].at = Last
        /\ HasRoom(s, p) /\ s' = AllocateEntry(s, p)
    BY <1>6 DEF UpdateGrow
  <2>2. Grows(t)
    BY <2>1 DEF OneCall, Working
  <2> DEFINE m == new.val.size - call[t].left
  <2>3. PICK b \in [1 .. m -> 1 .. s.count - 1] : Chain(s.e, s.count, new.val.rec, m, b) /\ b[m] = p
    BY <2>1, <2>2 DEF Grows
  <2>4. m \in Nat /\ m >= 1 /\ new.val.rec \in Ids /\ call[t].rec = new.val.rec
    <3>1. new # Nothing /\ call[t].rec = new.val.rec /\ m >= 1
      BY <2>1, <2>2 DEF Grows
    <3>2. new.val \in [rec : Ids, size : 1 .. MaxGrow]
      BY <3>1 DEF TableTypeOK, OfField, Value
    <3>3. call[t].left \in 0 .. MaxGrow
      BY StoreIs DEF Calls
    <3>4. m \in Int
      BY <3>2, <3>3, VarStoreAssumption
    <3> QED
      BY <3>1, <3>2, <3>4
  <2> HIDE DEF m
  <2>5. new.val.rec # r
    BY <2>4 DEF IInv, RefsAccounted
  <2>6. p \in Ids /\ p \in 1 .. s.count - 1 /\ Live(s, p) /\ p \in 0 .. s.count - 1 /\ p # 0 /\ ~s.e[p].deleted
    <3>1. m \in 1 .. m /\ TypeOK
      BY <2>4, StoreIs
    <3>2. p \in Ids /\ p \in 1 .. s.count - 1 /\ Live(s, p)
      BY <3>1, <2>3, ChainLive
    <3> QED
      BY <3>2, StoreIs DEF Live
  <2>7. /\ \A x \in Ids : x # id => (Live(s', x) <=> Live(s, x))
        /\ \A x \in Ids : Live(s, x) /\ x # p => s'.e[x] = s.e[x]
        /\ ~Live(s, id)
    BY <2>1, <2>6, StoreIs, AllocateFacts
  <2>8. ASSUME NEW k \in 1 .. n PROVE Live(s', at[k]) /\ SameLinks(s.e[at[k]], s'.e[at[k]])
    <3>1. at[k] # id
      BY <1>2, <2>7
    <3>2. at[k] # p
      <4>1. ASSUME at[k] = b[m] PROVE FALSE
        <5>1. m \in 1 .. m
          BY <2>4
        <5>2. r = new.val.rec
          BY <4>1, <5>1, <2>3, <2>4, ChainsMeet
        <5> QED
          BY <5>2, <2>5
      <4> QED
        BY <4>1, <2>3
    <3> QED
      BY <3>1, <3>2, <2>7, <1>2, <1>3
  <2> QED
    BY <2>8, <1>1, ChainKept
<1>7. ASSUME NEW r2 \in Ids, NEW m \in Nat, IsFirst(s, r2), ChainsOK(s, {}), s' = SetRefs(s, r2, m),
             r2 = r => m >= 1
      PROVE  Chain(s'.e, s'.count, r, n, at)
  <2>1. /\ s'.e[r2].prev = m /\ s'.e[r2].first
        /\ \A x \in Ids : Live(s', x) <=> Live(s, x)
        /\ \A x \in Ids : x # r2 => s'.e[x] = s.e[x]
        /\ s'.e[r2].next = s.e[r2].next
    BY <1>7, StoreIs, SetRefsFacts
  <2>2. ASSUME NEW k \in 1 .. n PROVE Live(s', at[k]) /\ SameLinks(s.e[at[k]], s'.e[at[k]])
    <3>1. Live(s', at[k])
      BY <2>1, <1>2
    <3>2. CASE at[k] = r2
      <4>1. k = 1
        BY <3>2, <1>2, <1>7 DEF IsFirst
      <4>2. r2 = r /\ s.e[r2].first
        BY <4>1, <3>2, <1>2, <1>7 DEF IsFirst
      <4> QED
        BY <4>2, <3>1, <3>2, <2>1, <1>7 DEF SameLinks, Live
    <3>3. CASE at[k] # r2
      BY <3>1, <3>3, <2>1, <1>2, <1>3
    <3> QED
      BY <3>2, <3>3
  <2> QED
    BY <2>2, <1>1, ChainKept
<1>8. ASSUME NEW r2 \in Ids, IncrementRecordRef(t, r2)
      PROVE  Chain(s'.e, s'.count, r, n, at)
  <2>1. mSync = None /\ owned[r2] > 0 /\ s' = SetRefs(s, r2, s.e[r2].prev + 1)
    BY <1>8 DEF IncrementRecordRef, CanStart
  <2>2. IsFirst(s, r2) /\ s.e[r2].prev = owned[r2] /\ owned[r2] \in Nat /\ ChainsOK(s, {})
    BY <2>1, StoreIs
  <2>3. s.e[r2].prev + 1 \in Nat /\ s.e[r2].prev + 1 >= 1
    BY <2>2
  <2> QED
    BY <2>1, <2>2, <2>3, <1>7
<1>9. ASSUME NEW r2 \in Ids, DecrementRecordRef(t, r2)
      PROVE  Chain(s'.e, s'.count, r, n, at)
  <2>1. mSync = None /\ owned[r2] > 0 /\ s' = SetRefs(s, r2, s.e[r2].prev - 1) /\ owned' = [owned EXCEPT ![r2] = @ - 1]
    BY <1>9 DEF DecrementRecordRef, CanStart
  <2>2. IsFirst(s, r2) /\ s.e[r2].prev = owned[r2] /\ owned[r2] \in Nat /\ ChainsOK(s, {}) /\ owned'[r2] = owned[r2] - 1
    BY <2>1, StoreIs
  <2>3. s.e[r2].prev - 1 \in Nat /\ (r2 = r => s.e[r2].prev - 1 >= 1)
    BY <2>1, <2>2
  <2> QED
    BY <2>1, <2>2, <2>3, <1>7
<1>10. CASE RemoveStep(t)
  <2> DEFINE id == call[t].at
  <2>1. CASE id = Last
    BY <2>1, <1>10, <1>4 DEF RemoveStep
  <2>2. CASE id # Last
    <3>1. call[t].op = "remove" /\ s' = AddToFreeList(s, id)
      BY <2>2, <1>10 DEF RemoveStep
    <3>2. /\ Live(s, id)
          /\ IF s.e[id].first THEN s.e[id].prev = 0
             ELSE s.e[id].prev \in Ids /\ s.e[s.e[id].prev].deleted
      BY <3>1, <2>2 DEF IInv, CallsKnow, CallKnows
    <3>3. id \in 1 .. s.count - 1 /\ ~s.e[id].deleted
      <4>1. id \in 0 .. MaxEntries
        BY StoreIs DEF Calls
      <4> QED
        BY <4>1, <3>2, StoreIs, VarStoreAssumption DEF Live
    <3>4. /\ s'.count = s.count
          /\ \A x \in Ids : x # id => s'.e[x].deleted = s.e[x].deleted
          /\ \A x \in Ids : x # id /\ ~s.e[x].deleted /\ x < s.count => s'.e[x] = s.e[x]
      BY <3>1, <3>3, StoreIs, AddToFreeFacts
    <3>5. ASSUME NEW k \in 1 .. n PROVE Live(s', at[k]) /\ SameLinks(s.e[at[k]], s'.e[at[k]])
      <4>1. at[k] # id
        <5>1. CASE k = 1
          BY <5>1, <1>2, <3>2
        <5>2. CASE k # 1
          BY <5>2, <1>2, <3>2
        <5> QED
          BY <5>1, <5>2
      <4>2. s'.e[at[k]] = s.e[at[k]] /\ Live(s', at[k])
        BY <4>1, <1>2, <3>4 DEF Live
      <4> QED
        BY <4>2, <1>2, <1>3
    <3> QED
      BY <3>5, <1>1, ChainKept
  <2> QED
    BY <2>1, <2>2
<1>11. AddRecordFill(t) \/ UpdateStep(t, TRUE) \/ UpdateDone(t) \/ UpdateFails(t) \/ vars' = vars => s' = s
  BY DEF AddRecordFill, UpdateStep, UpdateDone, UpdateFails, vars
<1> QED
  BY <1>4, <1>5, <1>6, <1>8, <1>9, <1>10, <1>11 DEF Stores

-----------------------------------------------------------------------------
(* Who holds a record. *)

HoldersOwn == \A v \in Held \ {Null} : v \in [rec : Ids, size : 1 .. MaxGrow] /\ owned[v.rec] > 0

LEMMA Ones == \A b : One(b) \in {0, 1}
BY DEF One

LEMMA RowsWithFinite == \A r : IsFiniteSet(RowsWith(r)) /\ Cardinality(RowsWith(r)) \in Nat
<1>1. ASSUME NEW r PROVE IsFiniteSet(RowsWith(r)) /\ Cardinality(RowsWith(r)) \in Nat
  <2>1. RowsWith(r) \in SUBSET Fields
    BY DEF RowsWith
  <2> QED
    BY <2>1, FieldsFinite, FS_Subset, FS_CardinalityType
<1> QED
  BY <1>1

LEMMA HoldersOwnIs == TableTypeOK /\ Counted => HoldersOwn
<1> SUFFICES ASSUME TableTypeOK, Counted, NEW v \in Held \ {Null}
             PROVE  v \in [rec : Ids, size : 1 .. MaxGrow] /\ owned[v.rec] > 0
  BY DEF HoldersOwn
<1>1. Nothing.val = Null
  BY DEF Nothing
<1>2. new.val \in Value /\ value.val \in Value /\ \A f \in Fields : row[f] \in Value
  BY <1>1 DEF TableTypeOK, OfField, Value
<1>3. v \in Value
  BY <1>2 DEF Held
<1>4. v \in [rec : Ids, size : 1 .. MaxGrow] /\ v.rec \in Ids
  BY <1>3 DEF Value
<1> DEFINE a == Cardinality(RowsWith(v.rec))
           b == One(Settled /\ new.val.rec = v.rec)
           c == One(value.val.rec = v.rec)
<1>5. a \in Nat /\ b \in {0, 1} /\ c \in {0, 1}
  BY RowsWithFinite, Ones
<1>6. owned[v.rec] = a + b + c
  BY <1>4 DEF Counted
<1>7. a > 0 \/ b = 1 \/ c = 1
  <2>1. CASE v \in {row[f] : f \in Fields}
    <3>1. PICK f \in Fields : v = row[f]
      BY <2>1
    <3>2. RowsWith(v.rec) # {}
      BY <3>1 DEF RowsWith
    <3>3. a # 0
      BY <3>2, RowsWithFinite, FS_EmptySet
    <3> QED
      BY <3>3, <1>5
  <2>2. CASE v = value.val
    BY <2>2 DEF One
  <2>3. CASE Settled /\ v = new.val
    BY <2>3 DEF One
  <2> QED
    BY <2>1, <2>2, <2>3 DEF Held
<1> HIDE DEF a, b, c
<1> QED
  BY <1>4, <1>5, <1>6, <1>7

\* One row more or less has the record.
LEMMA RowsChange ==
    ASSUME NEW f \in Fields, NEW v, NEW r, row'[f] = v, \A g \in Fields : g # f => row'[g] = row[g]
    PROVE  Cardinality(RowsWith(r)') = Cardinality(RowsWith(r)) - One(row[f].rec = r) + One(v.rec = r)
<1>1. row'[f] = v /\ \A g \in Fields : g # f => row'[g] = row[g]
  OBVIOUS
<1> DEFINE S == RowsWith(r)
           T == RowsWith(r)'
           U == S \ {f}
<1>2. T = {g \in Fields : row'[g].rec = r}
  BY DEF RowsWith
<1>3. S = {g \in Fields : row[g].rec = r}
  BY DEF RowsWith
<1>4. IsFiniteSet(S) /\ Cardinality(S) \in Nat
  BY RowsWithFinite
<1>5. Cardinality(U) = IF f \in S THEN Cardinality(S) - 1 ELSE Cardinality(S)
  BY <1>4, FS_RemoveElement
<1>6. IsFiniteSet(U)
  BY <1>4, FS_RemoveElement
<1>7. Cardinality(U \cup {f}) = Cardinality(U) + 1
  BY <1>6, FS_AddElement
<1>8. f \in S <=> row[f].rec = r
  BY <1>3
<1>9. v.rec = r => T = U \cup {f}
  BY <1>1, <1>2, <1>3
<1>10. v.rec # r => T = U
  BY <1>1, <1>2, <1>3
<1> HIDE DEF S, T, U
<1>11. CASE v.rec = r
  <2>1. Cardinality(T) = Cardinality(U) + 1 /\ One(v.rec = r) = 1
    BY <1>7, <1>9, <1>11 DEF One
  <2>2. CASE row[f].rec = r
    <3>1. One(row[f].rec = r) = 1 /\ Cardinality(U) = Cardinality(S) - 1
      BY <2>2, <1>5, <1>8 DEF One
    <3>2. Cardinality(T) = Cardinality(S) - One(row[f].rec = r) + One(v.rec = r)
      BY <2>1, <3>1, <1>4
    <3> QED
      BY <3>2 DEF S, T
  <2>3. CASE row[f].rec # r
    <3>1. One(row[f].rec = r) = 0 /\ Cardinality(U) = Cardinality(S)
      BY <2>3, <1>5, <1>8 DEF One
    <3>2. Cardinality(T) = Cardinality(S) - One(row[f].rec = r) + One(v.rec = r)
      BY <2>1, <3>1, <1>4
    <3> QED
      BY <3>2 DEF S, T
  <2> QED
    BY <2>2, <2>3
<1>12. CASE v.rec # r
  <2>1. Cardinality(T) = Cardinality(U) /\ One(v.rec = r) = 0
    BY <1>10, <1>12 DEF One
  <2>2. CASE row[f].rec = r
    <3>1. One(row[f].rec = r) = 1 /\ Cardinality(U) = Cardinality(S) - 1
      BY <2>2, <1>5, <1>8 DEF One
    <3>2. Cardinality(T) = Cardinality(S) - One(row[f].rec = r) + One(v.rec = r)
      BY <2>1, <3>1, <1>4
    <3> QED
      BY <3>2 DEF S, T
  <2>3. CASE row[f].rec # r
    <3>1. One(row[f].rec = r) = 0 /\ Cardinality(U) = Cardinality(S)
      BY <2>3, <1>5, <1>8 DEF One
    <3>2. Cardinality(T) = Cardinality(S) - One(row[f].rec = r) + One(v.rec = r)
      BY <2>1, <3>1, <1>4
    <3> QED
      BY <3>2 DEF S, T
  <2> QED
    BY <2>2, <2>3
<1> QED
  BY <1>11, <1>12

\* Between two calls.
LEMMA RestIs ==
    ASSUME IInv, AtRest
    PROVE  /\ Settled /\ mSync = None /\ \A t \in Threads : call[t].op = "idle"
           /\ \A t \in Threads : call[t] = Idle
BY DEF AtRest, Settled, Working, IInv, CallsKnow, CallKnows

\* A call that leaves nobody at work on a new record.
LEMMA RestNext ==
    ASSUME IInv, AtRest, NEW t \in Threads,
           \/ call' = call
           \/ \E r : call' = [call EXCEPT ![t] = Calling("remove", None, r, 0, 0)]
    PROVE  Settled' /\ OneCall'
<1>1. \A u \in Threads : call'[u].op \in {"idle", "remove"} /\ (call'[u].op # "idle" => u = t)
  <2>1. CASE call' = call
    BY <2>1 DEF AtRest
  <2>2. CASE \E r : call' = [call EXCEPT ![t] = Calling("remove", None, r, 0, 0)]
    BY <2>2, StoreIs DEF AtRest, Calling
  <2> QED
    BY <2>1, <2>2
<1> QED
  BY <1>1 DEF Settled, OneCall, Working

-----------------------------------------------------------------------------
(* The steps of the open table. *)

LEMMA HeldStays ==
    ASSUME RInv, NEW t \in Threads, Stores(t), TableTypeOK', Counted',
           \A v \in Held' \ {Null} : v \in Held \/ HasChain(s'.e, s'.count, v.rec, v.size)
    PROVE  HeldWhole'
<1>1. HoldersOwn
  BY HoldersOwnIs DEF RInv
<1>2. HoldersOwn'
  <2>1. (TableTypeOK /\ Counted => HoldersOwn)'
    BY HoldersOwnIs, PTL
  <2> QED
    BY <2>1
<1>3. ASSUME NEW v \in Held' \ {Null}
      PROVE  HasChain(s'.e, s'.count, v.rec, v.size)
  <2>1. CASE v \in Held
    <3>1. v.rec \in Ids /\ v.size \in 1 .. MaxGrow /\ v.size \in Nat /\ owned[v.rec] > 0
      BY <1>1, <2>1, VarStoreAssumption DEF HoldersOwn
    <3>2. owned'[v.rec] > 0
      BY <1>2 DEF HoldersOwn
    <3>3. PICK at \in [1 .. v.size -> 1 .. s.count - 1] : Chain(s.e, s.count, v.rec, v.size, at)
      BY <2>1 DEF RInv, HeldWhole, HasChain
    <3>4. Chain(s'.e, s'.count, v.rec, v.size, at)
      BY <3>1, <3>2, <3>3, ChainStays DEF RInv
    <3>5. at \in [1 .. v.size -> 1 .. s'.count - 1]
      BY <3>4 DEF Chain
    <3> QED
      BY <3>4, <3>5 DEF HasChain
  <2> QED
    BY <2>1
<1> QED
  BY <1>3 DEF HeldWhole

LEMMA FiledStays ==
    ASSUME RInv, NEW t \in Threads, Stores(t), TableTypeOK', Counted', Open,
           durable' \subseteq durable, \A f \in durable' : row'[f] = row[f]
    PROVE  Filed'
<1>1. HoldersOwn
  BY HoldersOwnIs DEF RInv
<1>2. HoldersOwn'
  <2>1. (TableTypeOK /\ Counted => HoldersOwn)'
    BY HoldersOwnIs, PTL
  <2> QED
    BY <2>1
<1>3. file' = file /\ stage' = stage /\ stage = "open"
  BY DEF Open
<1>4. SUFFICES ASSUME NEW f \in durable'
               PROVE  /\ file.row[f] = row'[f]
                      /\ file.row[f] # Null =>
                            \E at \in [1 .. file.row[f].size -> 1 .. file.count - 1] : FiledAt(f, at)'
  BY <1>3 DEF Filed
<1>5. f \in Fields /\ f \in durable /\ file.row[f] = row[f] /\ row[f] = row'[f]
  BY <1>3 DEF RInv, TableTypeOK, Filed
<1>6. ASSUME file.row[f] # Null
      PROVE  \E at \in [1 .. file.row[f].size -> 1 .. file.count - 1] : FiledAt(f, at)'
  <2>1. PICK at \in [1 .. file.row[f].size -> 1 .. file.count - 1] : FiledAt(f, at)
    BY <1>5, <1>6 DEF RInv, Filed
  <2>2. row[f] \in Held \ {Null} /\ row[f] \in Held' \ {Null}
    BY <1>5, <1>6 DEF Held
  <2>3. row[f].rec \in Ids /\ row[f].size \in Nat /\ owned[row[f].rec] > 0 /\ owned'[row[f].rec] > 0
    BY <2>2, <1>1, <1>2, VarStoreAssumption DEF HoldersOwn
  <2>4. Chain(s.e, s.count, row[f].rec, row[f].size, at)
    BY <2>1, <1>3, <1>5 DEF FiledAt
  <2>5. Chain(s'.e, s'.count, row[f].rec, row[f].size, at)
    BY <2>3, <2>4, ChainStays DEF RInv
  <2>6. FiledAt(f, at)'
    BY <2>1, <2>5, <1>3, <1>5 DEF FiledAt
  <2> QED
    BY <2>6
<1> QED
  BY <1>5, <1>6

LEMMA CheckedSame == ASSUME Checked, UNCHANGED <<file, stage, check>> PROVE Checked'
<1>1. file' = file /\ stage' = stage /\ check' = check
  OBVIOUS
<1>2. \A f : Taken(f)' = Taken(f) /\ EntriesOfField(f)' = EntriesOfField(f)
  BY <1>1 DEF Taken, EntriesOfField
<1>3. Marked' = Marked /\ (Checking' <=> Checking)
  BY <1>1 DEF Marked, Checking
<1>4. ASSUME NEW f \in Marked, Verified(f) PROVE Verified(f)'
  BY <1>1, <1>2, <1>4 DEF Verified, is_entry_valid
<1>5. Relinked(check.used, Max(check.used) + 1)' = Relinked(check.used, Max(check.used) + 1)
  BY <1>1 DEF Relinked
<1>6. Checking => \A f \in Marked : Verified(f)
  BY DEF Checked
<1>7. Checking => \A f \in Marked : Verified(f)'
  BY <1>4, <1>6
<1> QED
  BY <1>1, <1>2, <1>3, <1>5, <1>7 DEF Checked

LEMMA OpenTypes ==
    ASSUME RInv, NEW t \in Threads, Stores(t), Open, row' \in [Fields -> Value], new' \in OfField,
           value' \in OfField, durable' \subseteq durable,
           since' = since \/ (since' = [since EXCEPT !.calls = @ + 1] /\ since.calls < MaxCalls)
    PROVE  TableTypeOK'
<1>1. TypeOK'
  BY StoresIInv DEF RInv, IInv
<1>2. /\ file' \in [e : [Ids -> Entry], row : [Fields -> Value], count : 1 .. MaxEntries]
      /\ stage' \in {"open", "down", "check", "concluded", "repaired"}
      /\ check' \in [used : SUBSET Ids, done : SUBSET Fields]
      /\ durable' \subseteq Fields
      /\ since \in [calls : 0 .. MaxCalls, evicted : 0 .. MaxEvictions]
  BY DEF RInv, TableTypeOK, Open
<1>3. since' \in [calls : 0 .. MaxCalls, evicted : 0 .. MaxEvictions]
  <2>1. CASE since' = since
    BY <2>1, <1>2
  <2>2. CASE since' = [since EXCEPT !.calls = @ + 1] /\ since.calls < MaxCalls
    <3>1. since.calls + 1 \in 0 .. MaxCalls
      BY <2>2, <1>2, StoreRepairAssumption
    <3> QED
      BY <2>2, <3>1, <1>2
  <2> QED
    BY <2>1, <2>2
<1> QED
  BY <1>1, <1>2, <1>3 DEF TableTypeOK

LEMMA OpenStep ==
    ASSUME RInv, NEW t \in Threads, Stores(t), Open, TableTypeOK', OneCall', Counted',
           durable' \subseteq durable, \A f \in durable' : row'[f] = row[f],
           \A v \in Held' \ {Null} : v \in Held \/ HasChain(s'.e, s'.count, v.rec, v.size)
    PROVE  RInv'
<1>1. IInv'
  BY StoresIInv DEF RInv
<1>2. HeldWhole' /\ Filed'
  BY HeldStays, FiledStays
<1>3. Checked'
  BY CheckedSame DEF RInv, Open
<1> QED
  BY <1>1, <1>2, <1>3 DEF RInv

\* What is known when a call on the table begins.
LEMMA BeginIs ==
    ASSUME RInv, Begin
    PROVE  /\ Open /\ AtRest /\ Settled /\ mSync = None /\ new = Nothing
           /\ \A t \in Threads : call[t] = Idle
           /\ row \in [Fields -> Value] /\ value \in OfField /\ new \in OfField
           /\ since' = [since EXCEPT !.calls = @ + 1] /\ since.calls < MaxCalls
           /\ Null.rec = None /\ Nothing.val = Null /\ None \notin Ids
BY RestIs, FieldsFinite DEF RInv, Begin, IsIdle, TableTypeOK, Null, Nothing

\* A record that somebody holds: the value of OfField is not Nothing.
LEMMA OfFieldIs ==
    ASSUME NEW x \in OfField, x # Nothing
    PROVE  x.field \in Fields /\ x.val \in Value /\ x.val # Null /\ x.val.rec \in Ids /\ x.val.size \in 1 .. MaxGrow
BY DEF OfField, Value

LEMMA ValueIs ==
    ASSUME NEW v \in Value, v # Null
    PROVE  v \in [rec : Ids, size : 1 .. MaxGrow] /\ v.rec \in Ids /\ v.size \in 1 .. MaxGrow
BY DEF Value

LEMMA SetNewStep ==
    ASSUME RInv, NEW t \in Threads, NEW f \in Fields, NEW size \in 1 .. MaxGrow, SetNew(t, f, size)
    PROVE  RInv'
<1> DEFINE id == Allocated(s, 0)
<1>1. Begin /\ AddRecord(t, size) /\ new' = [field |-> f, val |-> [rec |-> id, size |-> size]]
      /\ UNCHANGED <<row, value, durable>>
  BY DEF SetNew
<1>2. /\ Open /\ AtRest /\ Settled /\ mSync = None /\ new = Nothing
      /\ \A u \in Threads : call[u] = Idle
      /\ row \in [Fields -> Value] /\ value \in OfField /\ new \in OfField
      /\ since' = [since EXCEPT !.calls = @ + 1] /\ since.calls < MaxCalls
      /\ Null.rec = None /\ Nothing.val = Null /\ None \notin Ids
  BY <1>1, BeginIs
<1>3. Stores(t)
  BY <1>1 DEF Stores
<1>4. /\ HasRoom(s, 0) /\ s' = AllocateEntry(s, 0) /\ size > 0 /\ owned' = owned
      /\ call' = [call EXCEPT ![t] = Calling("added", id, id, 0, size)]
  BY <1>1, VarStoreAssumption DEF AddRecord
<1>5. /\ id \in Ids /\ id # 0 /\ Live(s', id)
      /\ s'.e[id].first /\ s'.e[id].prev = 1 /\ s'.e[id].next = Last
  BY <1>4, StoreIs, AllocateFacts DEF RInv
<1>6. IInv'
  BY <1>3, StoresIInv DEF RInv
<1>7. call \in [Threads -> Calls]
  BY StoreIs DEF RInv
<1>8. call'[t] = Calling("added", id, id, 0, size) /\ \A u \in Threads : u # t => call'[u] = Idle
  BY <1>4, <1>7, <1>2
<1> HIDE DEF id
<1>9. [rec |-> id, size |-> size] \in Value /\ [rec |-> id, size |-> size] # Null
  BY <1>5, <1>2 DEF Value, Null
<1>10. new' \in OfField /\ new' # Nothing /\ new'.val = [rec |-> id, size |-> size]
  BY <1>1, <1>9, <1>2 DEF OfField
<1>11. TableTypeOK'
  BY <1>1, <1>2, <1>3, <1>10, OpenTypes
<1>12. HasChain(s'.e, s'.count, id, 1)
  <2> DEFINE at == [k \in 1 .. 1 |-> id]
  <2>1. s'.count \in 1 .. MaxEntries
    BY <1>6 DEF IInv, TypeOK, Store
  <2>2. id \in 1 .. s'.count - 1 /\ ~s'.e[id].deleted
    BY <1>5, <2>1, VarStoreAssumption DEF Live, Ids
  <2>3. at \in [1 .. 1 -> 1 .. s'.count - 1] /\ \A k \in 1 .. 1 : k = 1 /\ at[k] = id
    BY <2>2
  <2> HIDE DEF at
  <2>4. Chain(s'.e, s'.count, id, 1, at)
    BY <2>2, <2>3, <1>5 DEF Chain
  <2> QED
    BY <2>3, <2>4 DEF HasChain
<1>13. OneCall'
  <2>1. \A u \in Threads : u # t => call'[u].op = "idle"
    BY <1>8 DEF Idle, Calling
  <2>2. /\ call'[t].op = "added" /\ call'[t].at = id /\ call'[t].rec = id /\ call'[t].left = size
    BY <1>8 DEF Calling
  <2>3. id # Last /\ new'.val.size - call'[t].left = 0
    BY <1>5, <1>10, <2>2, FieldsFinite
  <2>4. Grows(t)'
    BY <2>2, <2>3, <1>10, <1>12 DEF Grows
  <2> QED
    BY <2>1, <2>2, <2>4 DEF OneCall, Working
<1>14. ~Settled'
  BY <1>8 DEF Settled, Working, Calling
<1>15. Counted'
  <2>1. ASSUME NEW r \in Ids
        PROVE  owned'[r] = Cardinality(RowsWith(r)') + One(FALSE) + One(value'.val.rec = r)
    <3>1. owned[r] = Cardinality(RowsWith(r)) + One(Settled /\ new.val.rec = r) + One(value.val.rec = r)
      BY DEF RInv, Counted
    <3>2. RowsWith(r)' = RowsWith(r)
      BY <1>1 DEF RowsWith
    <3>3. ~(Settled /\ new.val.rec = r)
      BY <1>2
    <3>4. One(Settled /\ new.val.rec = r) = 0 /\ One(FALSE) = 0
      BY <3>3 DEF One
    <3> QED
      BY <3>1, <3>2, <3>4, <1>1, <1>4
  <2>2. \A r \in Ids : One(Settled' /\ new'.val.rec = r) = One(FALSE)
    BY <1>14 DEF One
  <2> QED
    BY <2>1, <2>2 DEF Counted
<1>16. Held' \subseteq Held
  BY <1>1, <1>14 DEF Held
<1> QED
  BY <1>1, <1>2, <1>3, <1>11, <1>13, <1>15, <1>16, OpenStep

LEMMA IncrementIs ==
    ASSUME RInv, AtRest, NEW t \in Threads, NEW r \in Ids, IncrementRecordRef(t, r)
    PROVE  /\ Stores(t) /\ Settled' /\ OneCall'
           /\ \A x \in Ids : owned'[x] = owned[x] + One(r = x)
<1>1. owned' = [owned EXCEPT ![r] = @ + 1] /\ call' = call
  BY DEF IncrementRecordRef
<1>2. owned \in [Ids -> Nat]
  BY StoreIs DEF RInv
<1>3. \A x \in Ids : owned'[x] = owned[x] + One(r = x)
  BY <1>1, <1>2 DEF One
<1>4. Settled' /\ OneCall'
  BY <1>1, RestNext DEF RInv
<1> QED
  BY <1>3, <1>4 DEF Stores

LEMMA DecrementIs ==
    ASSUME RInv, AtRest, NEW t \in Threads, NEW r \in Ids, DecrementRecordRef(t, r)
    PROVE  /\ Stores(t) /\ Settled' /\ OneCall'
           /\ \A x \in Ids : owned'[x] = owned[x] - One(r = x)
<1>1. /\ owned' = [owned EXCEPT ![r] = @ - 1]
      /\ call' = call \/ \E y : call' = [call EXCEPT ![t] = Calling("remove", None, y, 0, 0)]
  BY DEF DecrementRecordRef
<1>2. owned \in [Ids -> Nat]
  BY StoreIs DEF RInv
<1>3. \A x \in Ids : owned'[x] = owned[x] - One(r = x)
  BY <1>1, <1>2 DEF One
<1>4. Settled' /\ OneCall'
  BY <1>1, RestNext DEF RInv
<1> QED
  BY <1>3, <1>4 DEF Stores

\* How many hold a record while nobody works on a new one, and after a step.
LEMMA CountIs ==
    ASSUME RInv, Settled, NEW r \in Ids
    PROVE  /\ owned[r] = Cardinality(RowsWith(r)) + One(new.val.rec = r) + One(value.val.rec = r)
           /\ owned[r] \in Nat /\ Cardinality(RowsWith(r)) \in Nat
           /\ One(new.val.rec = r) \in {0, 1} /\ One(value.val.rec = r) \in {0, 1}
<1>1. One(Settled /\ new.val.rec = r) = One(new.val.rec = r)
  BY DEF One
<1>2. owned[r] \in Nat
  BY StoreIs DEF RInv
<1> QED
  BY <1>1, <1>2, RowsWithFinite, Ones DEF RInv, Counted

LEMMA CountNext ==
    ASSUME Settled',
           \A r \in Ids : owned'[r] = Cardinality(RowsWith(r)') + One(new'.val.rec = r) + One(value'.val.rec = r)
    PROVE  Counted'
<1>1. \A r \in Ids : One(Settled' /\ new'.val.rec = r) = One(new'.val.rec = r)
  BY DEF One
<1> QED
  BY <1>1 DEF Counted

LEMMA SetSharedStep ==
    ASSUME RInv, NEW t \in Threads, NEW f \in Fields, SetShared(t, f)
    PROVE  RInv'
<1>1. /\ Begin /\ value # Nothing /\ IncrementRecordRef(t, value.val.rec)
      /\ new' = [field |-> f, val |-> value.val]
      /\ row' = row /\ value' = value /\ durable' = durable
  BY DEF SetShared
<1>2. /\ Open /\ AtRest /\ Settled /\ new = Nothing
      /\ row \in [Fields -> Value] /\ value \in OfField
      /\ since' = [since EXCEPT !.calls = @ + 1] /\ since.calls < MaxCalls
      /\ Null.rec = None /\ Nothing.val = Null /\ None \notin Ids
  BY <1>1, BeginIs
<1>3. value.val \in Value /\ value.val # Null /\ value.val.rec \in Ids
  BY <1>1, <1>2, OfFieldIs
<1>4. /\ Stores(t) /\ Settled' /\ OneCall'
      /\ \A x \in Ids : owned'[x] = owned[x] + One(value.val.rec = x)
  BY <1>1, <1>2, <1>3, IncrementIs
<1>5. new' \in OfField /\ new'.val = value.val
  BY <1>1, <1>3 DEF OfField
<1>6. TableTypeOK'
  BY <1>1, <1>2, <1>4, <1>5, OpenTypes
<1>7. Counted'
  <2>1. ASSUME NEW r \in Ids
        PROVE  owned'[r] = Cardinality(RowsWith(r)') + One(new'.val.rec = r) + One(value'.val.rec = r)
    <3>1. RowsWith(r)' = RowsWith(r)
      BY <1>1 DEF RowsWith
    <3>2. One(new.val.rec = r) = 0
      BY <1>2 DEF One
    <3>3. One(new'.val.rec = r) = One(value.val.rec = r) /\ One(value'.val.rec = r) = One(value.val.rec = r)
      BY <1>1, <1>5
    <3>4. owned'[r] = owned[r] + One(value.val.rec = r)
      BY <1>4
    <3> QED
      BY <3>1, <3>2, <3>3, <3>4, <1>2, CountIs
  <2> QED
    BY <2>1, <1>4, CountNext
<1>8. \A v \in Held' \ {Null} : v \in Held
  BY <1>1, <1>4, <1>5 DEF Held
<1> QED
  BY <1>1, <1>2, <1>4, <1>6, <1>7, <1>8, OpenStep

LEMMA GetStepHolds ==
    ASSUME RInv, NEW t \in Threads, NEW f \in Fields, Get(t, f)
    PROVE  RInv'
<1>1. /\ Begin /\ value = Nothing /\ row[f] # Null /\ IncrementRecordRef(t, row[f].rec)
      /\ value' = [field |-> f, val |-> row[f]]
      /\ row' = row /\ new' = new /\ durable' = durable
  BY DEF Get
<1>2. /\ Open /\ AtRest /\ Settled /\ new = Nothing /\ new \in OfField
      /\ row \in [Fields -> Value] /\ value \in OfField
      /\ since' = [since EXCEPT !.calls = @ + 1] /\ since.calls < MaxCalls
      /\ Null.rec = None /\ Nothing.val = Null /\ None \notin Ids
  BY <1>1, BeginIs
<1>3. row[f] \in Value /\ row[f] # Null /\ row[f].rec \in Ids
  BY <1>1, <1>2, ValueIs
<1>4. /\ Stores(t) /\ Settled' /\ OneCall'
      /\ \A x \in Ids : owned'[x] = owned[x] + One(row[f].rec = x)
  BY <1>1, <1>2, <1>3, IncrementIs
<1>5. value' \in OfField /\ value'.val = row[f]
  BY <1>1, <1>3 DEF OfField
<1>6. TableTypeOK'
  BY <1>1, <1>2, <1>4, <1>5, OpenTypes
<1>7. Counted'
  <2>1. ASSUME NEW r \in Ids
        PROVE  owned'[r] = Cardinality(RowsWith(r)') + One(new'.val.rec = r) + One(value'.val.rec = r)
    <3>1. RowsWith(r)' = RowsWith(r)
      BY <1>1 DEF RowsWith
    <3>2. One(value.val.rec = r) = 0
      BY <1>1, <1>2 DEF One
    <3>3. One(value'.val.rec = r) = One(row[f].rec = r) /\ One(new'.val.rec = r) = One(new.val.rec = r)
      BY <1>1, <1>5
    <3>4. owned'[r] = owned[r] + One(row[f].rec = r)
      BY <1>4
    <3> QED
      BY <3>1, <3>2, <3>3, <3>4, <1>2, CountIs, Ones
  <2> QED
    BY <2>1, <1>4, CountNext
<1>8. \A v \in Held' \ {Null} : v \in Held
  BY <1>1, <1>4, <1>5, <1>2 DEF Held
<1> QED
  BY <1>1, <1>2, <1>4, <1>6, <1>7, <1>8, OpenStep

LEMMA DropValueStep ==
    ASSUME RInv, NEW t \in Threads, DropValue(t)
    PROVE  RInv'
<1>1. /\ Begin /\ value # Nothing /\ DecrementRecordRef(t, value.val.rec)
      /\ value' = Nothing
      /\ row' = row /\ new' = new /\ durable' = durable
  BY DEF DropValue
<1>2. /\ Open /\ AtRest /\ Settled /\ new = Nothing /\ new \in OfField
      /\ row \in [Fields -> Value] /\ value \in OfField
      /\ since' = [since EXCEPT !.calls = @ + 1] /\ since.calls < MaxCalls
      /\ Null.rec = None /\ Nothing.val = Null /\ None \notin Ids
  BY <1>1, BeginIs
<1>3. value.val \in Value /\ value.val # Null /\ value.val.rec \in Ids
  BY <1>1, <1>2, OfFieldIs
<1>4. /\ Stores(t) /\ Settled' /\ OneCall'
      /\ \A x \in Ids : owned'[x] = owned[x] - One(value.val.rec = x)
  BY <1>1, <1>2, <1>3, DecrementIs
<1>5. value' \in OfField /\ value'.val = Null
  BY <1>1, <1>2 DEF OfField
<1>6. TableTypeOK'
  BY <1>1, <1>2, <1>4, <1>5, OpenTypes
<1>7. Counted'
  <2>1. ASSUME NEW r \in Ids
        PROVE  owned'[r] = Cardinality(RowsWith(r)') + One(new'.val.rec = r) + One(value'.val.rec = r)
    <3>1. RowsWith(r)' = RowsWith(r)
      BY <1>1 DEF RowsWith
    <3>2. One(value'.val.rec = r) = 0
      BY <1>5, <1>2 DEF One
    <3>3. One(new'.val.rec = r) = One(new.val.rec = r)
      BY <1>1
    <3>4. owned'[r] = owned[r] - One(value.val.rec = r)
      BY <1>4
    <3> QED
      BY <3>1, <3>2, <3>3, <3>4, <1>2, CountIs
  <2> QED
    BY <2>1, <1>4, CountNext
<1>8. \A v \in Held' \ {Null} : v \in Held
  BY <1>1, <1>4, <1>5, <1>2 DEF Held
<1> QED
  BY <1>1, <1>2, <1>4, <1>6, <1>7, <1>8, OpenStep

LEMMA StoreRowIs ==
    ASSUME RInv, AtRest, NEW t \in Threads, NEW f \in Fields, NEW v \in Value, StoreRow(t, f, v)
    PROVE  /\ Stores(t) /\ Settled' /\ OneCall' /\ row' \in [Fields -> Value]
           /\ durable' \subseteq durable /\ \A g \in durable' : row'[g] = row[g]
           /\ \A x \in Ids : owned'[x] = owned[x] - One(row[f].rec = x)
           /\ \A x : Cardinality(RowsWith(x)') = Cardinality(RowsWith(x)) - One(row[f].rec = x) + One(v.rec = x)
           /\ \A g \in Fields : row'[g] = v \/ row'[g] = row[g]
<1>1. row' = [row EXCEPT ![f] = v] /\ durable' = durable \ {f} /\ row \in [Fields -> Value] /\ durable \subseteq Fields
  BY DEF StoreRow, RInv, TableTypeOK
<1>2. /\ row' \in [Fields -> Value] /\ durable' \subseteq durable
      /\ \A g \in durable' : row'[g] = row[g]
      /\ \A g \in Fields : row'[g] = v \/ row'[g] = row[g]
  BY <1>1
<1>3. \A x : Cardinality(RowsWith(x)') = Cardinality(RowsWith(x)) - One(row[f].rec = x) + One(v.rec = x)
  <2>1. ASSUME NEW x
        PROVE  Cardinality(RowsWith(x)') = Cardinality(RowsWith(x)) - One(row[f].rec = x) + One(v.rec = x)
    <3>1. row'[f] = v /\ \A g \in Fields : g # f => row'[g] = row[g]
      BY <1>1
    <3> QED
      BY <3>1, RowsChange
  <2> QED
    BY <2>1
<1>4. /\ Stores(t) /\ Settled' /\ OneCall'
      /\ \A x \in Ids : owned'[x] = owned[x] - One(row[f].rec = x)
  <2>1. CASE row[f] = Null
    <3>1. vars' = vars
      BY <2>1 DEF StoreRow
    <3>2. call' = call /\ owned' = owned
      BY <3>1 DEF vars
    <3>3. \A x \in Ids : One(row[f].rec = x) = 0 /\ owned[x] \in Nat
      BY <2>1, FieldsFinite, StoreIs DEF One, Null, RInv
    <3>4. \A x \in Ids : owned'[x] = owned[x] - One(row[f].rec = x)
      BY <3>2, <3>3
    <3>5. Settled' /\ OneCall'
      BY <3>2, RestNext DEF RInv
    <3> QED
      BY <3>1, <3>4, <3>5 DEF Stores
  <2>2. CASE row[f] # Null
    <3>1. DecrementRecordRef(t, row[f].rec)
      BY <2>2 DEF StoreRow
    <3>2. row[f].rec \in Ids
      BY <1>1, <2>2, ValueIs
    <3> QED
      BY <3>1, <3>2, DecrementIs
  <2> QED
    BY <2>1, <2>2
<1> QED
  BY <1>2, <1>3, <1>4

LEMMA SetNullStep ==
    ASSUME RInv, NEW t \in Threads, NEW f \in Fields, SetNull(t, f)
    PROVE  RInv'
<1>1. Begin /\ StoreRow(t, f, Null) /\ new' = new /\ value' = value
  BY DEF SetNull
<1>2. /\ Open /\ AtRest /\ Settled /\ new = Nothing /\ new \in OfField
      /\ row \in [Fields -> Value] /\ value \in OfField
      /\ since' = [since EXCEPT !.calls = @ + 1] /\ since.calls < MaxCalls
      /\ Null.rec = None /\ Nothing.val = Null /\ None \notin Ids /\ Null \in Value
  BY <1>1, BeginIs DEF Value
<1>3. /\ Stores(t) /\ Settled' /\ OneCall' /\ row' \in [Fields -> Value]
      /\ durable' \subseteq durable /\ \A g \in durable' : row'[g] = row[g]
      /\ \A x \in Ids : owned'[x] = owned[x] - One(row[f].rec = x)
      /\ \A x : Cardinality(RowsWith(x)') = Cardinality(RowsWith(x)) - One(row[f].rec = x) + One(Null.rec = x)
      /\ \A g \in Fields : row'[g] = Null \/ row'[g] = row[g]
  BY <1>1, <1>2, StoreRowIs
<1>4. TableTypeOK'
  BY <1>1, <1>2, <1>3, OpenTypes
<1>5. Counted'
  <2>1. ASSUME NEW r \in Ids
        PROVE  owned'[r] = Cardinality(RowsWith(r)') + One(new'.val.rec = r) + One(value'.val.rec = r)
    <3>1. One(Null.rec = r) = 0
      BY <1>2 DEF One
    <3>2. One(new'.val.rec = r) = One(new.val.rec = r) /\ One(value'.val.rec = r) = One(value.val.rec = r)
      BY <1>1
    <3>3. owned'[r] = owned[r] - One(row[f].rec = r)
      BY <1>3
    <3>4. Cardinality(RowsWith(r)') = Cardinality(RowsWith(r)) - One(row[f].rec = r) + One(Null.rec = r)
      BY <1>3
    <3> QED
      BY <3>1, <3>2, <3>3, <3>4, <1>2, CountIs, Ones
  <2> QED
    BY <2>1, <1>3, CountNext
<1>6. \A v \in Held' \ {Null} : v \in Held
  BY <1>1, <1>3, <1>2 DEF Held
<1> QED
  BY <1>2, <1>3, <1>4, <1>5, <1>6, OpenStep

LEMMA SetRowStep ==
    ASSUME RInv, NEW t \in Threads, SetRow(t)
    PROVE  RInv'
<1>1. /\ Open /\ since' = since /\ new # Nothing /\ AtRest
      /\ StoreRow(t, new.field, new.val) /\ new' = Nothing /\ value' = value
  BY DEF SetRow
<1>2. /\ Settled /\ new \in OfField /\ value \in OfField /\ row \in [Fields -> Value]
      /\ Nothing \in OfField /\ Nothing.val = Null /\ Null.rec = None /\ None \notin Ids
  BY <1>1, RestIs, FieldsFinite DEF RInv, TableTypeOK, OfField, Nothing, Null
<1>3. new.field \in Fields /\ new.val \in Value /\ new.val # Null /\ new.val.rec \in Ids
  BY <1>1, <1>2, OfFieldIs
<1>4. /\ Stores(t) /\ Settled' /\ OneCall' /\ row' \in [Fields -> Value]
      /\ durable' \subseteq durable /\ \A g \in durable' : row'[g] = row[g]
      /\ \A x \in Ids : owned'[x] = owned[x] - One(row[new.field].rec = x)
      /\ \A x : Cardinality(RowsWith(x)') = Cardinality(RowsWith(x)) - One(row[new.field].rec = x) + One(new.val.rec = x)
      /\ \A g \in Fields : row'[g] = new.val \/ row'[g] = row[g]
  BY <1>1, <1>3, StoreRowIs
<1>5. TableTypeOK'
  BY <1>1, <1>2, <1>4, OpenTypes
<1>6. Counted'
  <2>1. ASSUME NEW r \in Ids
        PROVE  owned'[r] = Cardinality(RowsWith(r)') + One(new'.val.rec = r) + One(value'.val.rec = r)
    <3>1. One(new'.val.rec = r) = 0
      BY <1>1, <1>2 DEF One
    <3>2. One(value'.val.rec = r) = One(value.val.rec = r)
      BY <1>1
    <3>3. owned'[r] = owned[r] - One(row[new.field].rec = r)
      BY <1>4
    <3>4. Cardinality(RowsWith(r)') = Cardinality(RowsWith(r)) - One(row[new.field].rec = r) + One(new.val.rec = r)
      BY <1>4
    <3> QED
      BY <3>1, <3>2, <3>3, <3>4, <1>2, CountIs, Ones
  <2> QED
    BY <2>1, <1>4, CountNext
<1>7. \A v \in Held' \ {Null} : v \in Held
  BY <1>1, <1>4, <1>2 DEF Held
<1> QED
  BY <1>1, <1>2, <1>4, <1>5, <1>6, <1>7, OpenStep

\* What is known while somebody works on a new record.
LEMMA WorkIs ==
    ASSUME RInv, NEW t \in Threads, Working(t)
    PROVE  /\ new \in OfField /\ new # Nothing /\ ~Settled
           /\ new.val.rec \in Ids /\ new.val.size \in 1 .. MaxGrow /\ new.val # Null
           /\ call[t] \in Calls /\ call[t].rec = new.val.rec /\ owned[new.val.rec] = 0
           /\ call[t].left \in 0 .. MaxGrow
           /\ Grows(t) /\ \A u \in Threads : u # t => call[u].op = "idle"
<1>1. Grows(t) /\ \A u \in Threads : u # t => call[u].op = "idle"
  BY DEF RInv, OneCall, Working
<1>2. new \in OfField /\ new # Nothing /\ ~Settled /\ call[t].rec = new.val.rec
  BY <1>1 DEF RInv, TableTypeOK, Grows, Settled
<1>3. new.val.rec \in Ids /\ new.val.size \in 1 .. MaxGrow /\ new.val # Null
  BY <1>2, OfFieldIs
<1>4. call[t] \in Calls /\ call[t].left \in 0 .. MaxGrow
  BY StoreIs DEF RInv, Calls
<1>5. owned[new.val.rec] = 0
  BY <1>2, <1>3 DEF RInv, IInv, RefsAccounted
<1> QED
  BY <1>1, <1>2, <1>3, <1>4, <1>5

\* A step of the one who works on a new record, who goes on.
LEMMA WorkStep ==
    ASSUME RInv, NEW t \in Threads, Working(t), Stores(t), Open, UNCHANGED <<table, durable, since>>,
           NEW c, call' = [call EXCEPT ![t] = c], c.op = "update", owned' = owned, Grows(t)'
    PROVE  RInv'
<1>1. row' = row /\ new' = new /\ value' = value /\ since' = since /\ durable' = durable
  BY DEF table
<1>2. row \in [Fields -> Value] /\ new \in OfField /\ value \in OfField /\ call \in [Threads -> Calls]
  BY StoreIs DEF RInv, TableTypeOK
<1>3. call'[t] = c /\ \A u \in Threads : u # t => call'[u] = call[u]
  BY <1>2
<1>4. TableTypeOK'
  BY <1>1, <1>2, OpenTypes
<1>5. ~Settled /\ ~Settled'
  BY <1>3 DEF Settled, Working
<1>6. OneCall'
  <2>1. \A u \in Threads : u # t => call'[u].op = "idle"
    BY <1>3, WorkIs
  <2>2. call'[t].op = "update"
    BY <1>3
  <2> QED
    BY <2>1, <2>2 DEF OneCall, Working
<1>7. Counted'
  <2>1. ASSUME NEW r \in Ids
        PROVE  owned'[r] = Cardinality(RowsWith(r)') + One(Settled' /\ new'.val.rec = r) + One(value'.val.rec = r)
    <3>1. RowsWith(r)' = RowsWith(r)
      BY <1>1 DEF RowsWith
    <3>2. One(Settled' /\ new'.val.rec = r) = 0 /\ One(Settled /\ new.val.rec = r) = 0
      BY <1>5 DEF One
    <3>3. owned[r] = Cardinality(RowsWith(r)) + One(Settled /\ new.val.rec = r) + One(value.val.rec = r)
      BY DEF RInv, Counted
    <3>4. One(value'.val.rec = r) = One(value.val.rec = r)
      BY <1>1
    <3> QED
      BY <3>1, <3>2, <3>3, <3>4
  <2> QED
    BY <2>1 DEF Counted
<1>8. \A v \in Held' \ {Null} : v \in Held
  BY <1>1, <1>5 DEF Held
<1> QED
  BY <1>1, <1>4, <1>6, <1>7, <1>8, OpenStep

LEMMA FillStep ==
    ASSUME RInv, NEW t \in Threads, Open, UNCHANGED <<table, durable, since>>, AddRecordFill(t)
    PROVE  RInv'
<1> DEFINE c == Calling("update", call[t].rec, call[t].at, 0, call[t].left)
<1>1. call[t].op = "added" /\ call' = [call EXCEPT ![t] = c] /\ owned' = owned /\ s' = s /\ new' = new
  BY DEF AddRecordFill, table
<1>2. Working(t) /\ Stores(t)
  BY <1>1 DEF Working, Stores
<1>3. call'[t] = c
  BY <1>1, StoreIs DEF RInv
<1>4. c.op = "update" /\ c.rec = call[t].rec /\ c.at = call[t].at /\ c.left = call[t].left
  BY DEF Calling
<1>5. call[t].at # Last
  BY <1>1, <1>2, WorkIs DEF Grows
<1> HIDE DEF c
<1>6. Grows(t)'
  BY <1>1, <1>2, <1>3, <1>4, <1>5, WorkIs DEF Grows
<1> QED
  BY <1>1, <1>2, <1>4, <1>6, WorkStep

LEMMA FirstWriteStep ==
    ASSUME RInv, NEW t \in Threads, Open, UNCHANGED <<table, durable, since>>, UpdateStep(t, TRUE)
    PROVE  RInv'
<1> DEFINE c == Calling("update", call[t].rec, s.e[call[t].at].next, call[t].at, call[t].left - 1)
<1>1. /\ call[t].op = "update" /\ call[t].at # Last /\ call[t].left > 0
      /\ call' = [call EXCEPT ![t] = c] /\ owned' = owned /\ s' = s /\ new' = new
  BY DEF UpdateStep, table
<1>2. Working(t) /\ Stores(t)
  BY DEF Working, Stores, UpdateStep
<1>3. call'[t] = c
  BY <1>1, StoreIs DEF RInv
<1>4. /\ c.op = "update" /\ c.rec = call[t].rec /\ c.at = s.e[call[t].at].next /\ c.prev = call[t].at
      /\ c.left = call[t].left - 1
  BY DEF Calling
<1>5. /\ new # Nothing /\ call[t].rec = new.val.rec /\ call[t].at = new.val.rec
      /\ new.val.size - call[t].left = 0 /\ HasChain(s.e, s.count, new.val.rec, 1)
      /\ new.val.size \in 1 .. MaxGrow /\ call[t].left \in 0 .. MaxGrow
  BY <1>1, <1>2, WorkIs DEF Grows
<1>6. PICK at \in [1 .. 1 -> 1 .. s.count - 1] : Chain(s.e, s.count, new.val.rec, 1, at)
  BY <1>5 DEF HasChain
<1>7. at[1] = new.val.rec /\ s.e[at[1]].next = Last
  BY <1>6 DEF Chain
<1>8. new.val.size - c.left = 1
  BY <1>4, <1>5, VarStoreAssumption
<1>9. c.at = Last /\ c.prev = at[1]
  BY <1>4, <1>5, <1>7
<1> HIDE DEF c
<1>10. Grows(t)'
  <2>1. \E b \in [1 .. 1 -> 1 .. s.count - 1] : Chain(s.e, s.count, new.val.rec, 1, b) /\ b[1] = c.prev
    BY <1>6, <1>9
  <2>2. new'.val.size - call'[t].left = 1 /\ call'[t].at = Last /\ call'[t].op = "update"
    BY <1>1, <1>3, <1>4, <1>8, <1>9
  <2>3. /\ new' # Nothing /\ call'[t].rec = new'.val.rec /\ new'.val = new.val
        /\ s'.e = s.e /\ s'.count = s.count /\ call'[t].prev = c.prev
    BY <1>1, <1>3, <1>4, <1>5
  <2>4. \E b \in [1 .. new'.val.size - call'[t].left -> 1 .. s'.count - 1] :
           /\ Chain(s'.e, s'.count, new'.val.rec, new'.val.size - call'[t].left, b)
           /\ b[new'.val.size - call'[t].left] = call'[t].prev
    BY <2>1, <2>2, <2>3
  <2>5. new'.val.size - call'[t].left >= 1
    BY <2>2
  <2> QED
    BY <2>2, <2>3, <2>4, <2>5 DEF Grows
<1> QED
  BY <1>1, <1>2, <1>4, <1>10, WorkStep

LEMMA GrowStep ==
    ASSUME RInv, NEW t \in Threads, Open, UNCHANGED <<table, durable, since>>, UpdateGrow(t)
    PROVE  RInv'
<1> DEFINE p == call[t].prev
           id == Allocated(s, p)
           c == Calling("update", call[t].rec, Last, id, call[t].left - 1)
           n == new.val.size - call[t].left
<1>1. /\ call[t].op = "update" /\ call[t].at = Last /\ call[t].left > 0
      /\ HasRoom(s, p) /\ s' = AllocateEntry(s, p)
      /\ call' = [call EXCEPT ![t] = c] /\ owned' = owned /\ new' = new
  BY DEF UpdateGrow, table
<1>2. Working(t) /\ Stores(t) /\ IInv /\ TypeOK
  BY StoreIs DEF Working, Stores, UpdateGrow, RInv
<1>3. IInv'
  BY <1>2, StoresIInv
<1>4. call'[t] = c
  BY <1>1, <1>2, StoreIs
<1>5. /\ c.op = "update" /\ c.rec = call[t].rec /\ c.at = Last /\ c.prev = id
      /\ c.left = call[t].left - 1
  BY DEF Calling
<1>6. /\ new # Nothing /\ call[t].rec = new.val.rec /\ n >= 1
      /\ new.val.size \in 1 .. MaxGrow /\ call[t].left \in 0 .. MaxGrow
  BY <1>1, <1>2, WorkIs DEF Grows
<1>7. n \in Nat /\ new.val.size - c.left = n + 1 /\ n + 1 \in Nat
  BY <1>5, <1>6, VarStoreAssumption
<1>8. PICK at \in [1 .. n -> 1 .. s.count - 1] : Chain(s.e, s.count, new.val.rec, n, at) /\ at[n] = p
  BY <1>1, <1>2, WorkIs DEF Grows
<1> HIDE DEF n, c
<1>9. /\ p \in 1 .. s.count - 1 /\ p \in Ids /\ Live(s, p) /\ p \in 0 .. s.count - 1 /\ p # 0
      /\ ~s.e[p].deleted /\ s.e[p].next = Last
  <2>1. n \in 1 .. n
    BY <1>6, <1>7
  <2>2. p \in Ids /\ p \in 1 .. s.count - 1 /\ Live(s, p)
    BY <2>1, <1>2, <1>8, ChainLive
  <2>3. s.e[p].next = Last
    BY <2>1, <1>8 DEF Chain
  <2> QED
    BY <2>2, <2>3, <1>2, StoreIs DEF Live
<1>10. /\ id \in Ids /\ id # 0 /\ id # p /\ ~Live(s, id) /\ Live(s', id)
       /\ ~s'.e[id].first /\ s'.e[id].prev = p /\ s'.e[id].next = Last
       /\ \A x \in Ids : x # id => (Live(s', x) <=> Live(s, x))
       /\ \A x \in Ids : Live(s, x) /\ x # p => s'.e[x] = s.e[x]
       /\ s'.e[p] = Relink(s.e[p], s.e[p].prev, id)
  BY <1>1, <1>2, <1>9, StoreIs, AllocateFacts
<1>11. s'.count \in 1 .. MaxEntries /\ s.count \in 1 .. MaxEntries
  BY <1>2, <1>3, StoreIs DEF IInv, TypeOK, Store
<1> HIDE DEF id
<1> DEFINE b == [k \in 1 .. n + 1 |-> IF k = n + 1 THEN id ELSE at[k]]
<1>12. ASSUME NEW k \in 1 .. n
       PROVE  /\ k \in 1 .. n + 1 /\ b[k] = at[k] /\ at[k] \in Ids /\ Live(s, at[k]) /\ Live(s', at[k])
              /\ (k # n => s'.e[at[k]] = s.e[at[k]]) /\ (k = n => at[k] = p)
  <2>1. k \in 1 .. n + 1 /\ k # n + 1
    BY <1>7
  <2>2. at[k] \in Ids /\ Live(s, at[k])
    BY <1>2, <1>8, ChainLive
  <2>3. k # n => s.e[at[k]].next # Last
    <3>1. k # n => k + 1 \in 1 .. n
      BY <1>7
    <3>2. k # n => s.e[at[k]].next = at[k + 1]
      BY <1>8 DEF Chain
    <3>3. k # n => at[k + 1] \in Ids
      BY <3>1, <1>2, <1>8, ChainLive
    <3> QED
      BY <3>2, <3>3, FieldsFinite
  <2>4. k # n => at[k] # p
    BY <2>3, <1>9
  <2>5. Live(s', at[k])
    BY <2>2, <1>10
  <2> QED
    BY <2>1, <2>2, <2>4, <2>5, <1>8, <1>10
<1>13. n + 1 \in 1 .. n + 1 /\ b[n + 1] = id /\ 1 \in 1 .. n /\ n \in 1 .. n
  BY <1>6, <1>7
<1>14. b \in [1 .. n + 1 -> 1 .. s'.count - 1]
  <2>1. ASSUME NEW x \in Ids, Live(s', x) PROVE x \in 1 .. s'.count - 1
    BY <1>11, <2>1, VarStoreAssumption DEF Live, Ids
  <2>2. ASSUME NEW k \in 1 .. n + 1 PROVE (IF k = n + 1 THEN id ELSE at[k]) \in 1 .. s'.count - 1
    <3>1. CASE k = n + 1
      BY <3>1, <2>1, <1>10
    <3>2. CASE k # n + 1
      <4>1. k \in 1 .. n
        BY <3>2, <1>7
      <4> QED
        BY <4>1, <3>2, <2>1, <1>12
    <3> QED
      BY <3>1, <3>2
  <2> QED
    BY <2>2
<1>15. b[1] = new.val.rec
  BY <1>8, <1>12, <1>13 DEF Chain
<1>16. ASSUME NEW k \in 1 .. n + 1
       PROVE  /\ ~s'.e[b[k]].deleted /\ (s'.e[b[k]].first <=> k = 1)
              /\ s'.e[b[k]].next = IF k = n + 1 THEN Last ELSE b[k + 1]
              /\ IF k = 1 THEN s'.e[b[k]].prev >= 1 ELSE s'.e[b[k]].prev = b[k - 1]
  <2>1. CASE k = n + 1
    <3>1. k # 1 /\ k - 1 = n
      BY <2>1, <1>6, <1>7
    <3>2. b[n] = p
      BY <1>12, <1>13
    <3> QED
      BY <2>1, <3>1, <3>2, <1>10, <1>13 DEF Live
  <2>2. CASE k # n + 1
    <3>1. k \in 1 .. n
      BY <2>2, <1>7
    <3>2. /\ b[k] = at[k] /\ at[k] \in Ids /\ Live(s', at[k])
          /\ (k # n => s'.e[at[k]] = s.e[at[k]]) /\ (k = n => at[k] = p)
      BY <3>1, <1>12
    <3>3. /\ (s.e[at[k]].first <=> k = 1)
          /\ s.e[at[k]].next = IF k = n THEN Last ELSE at[k + 1]
          /\ IF k = 1 THEN s.e[at[k]].prev >= 1 ELSE s.e[at[k]].prev = at[k - 1]
      BY <3>1, <1>8 DEF Chain
    <3>4. k # 1 => b[k - 1] = at[k - 1]
      <4>1. k # 1 => k - 1 \in 1 .. n
        BY <3>1, <1>7
      <4> QED
        BY <4>1, <1>12
    <3>5. /\ (s'.e[at[k]].first <=> s.e[at[k]].first) /\ s'.e[at[k]].prev = s.e[at[k]].prev
          /\ s'.e[at[k]].next = IF k = n THEN id ELSE s.e[at[k]].next
      <4>1. CASE k = n
        BY <4>1, <3>2, <1>10 DEF Relink
      <4>2. CASE k # n
        BY <4>2, <3>2
      <4> QED
        BY <4>1, <4>2
    <3>6. k # n => b[k + 1] = at[k + 1]
      <4>1. k # n => k + 1 \in 1 .. n
        BY <3>1, <1>7
      <4> QED
        BY <4>1, <1>12
    <3>7. s'.e[at[k]].next = b[k + 1]
      <4>1. CASE k = n
        BY <4>1, <3>5, <1>13
      <4>2. CASE k # n
        BY <4>2, <3>5, <3>6, <3>3
      <4> QED
        BY <4>1, <4>2
    <3>8. ~s'.e[at[k]].deleted
      BY <3>2 DEF Live
    <3>9. IF k = 1 THEN s'.e[at[k]].prev >= 1 ELSE s'.e[at[k]].prev = b[k - 1]
      <4>1. CASE k = 1
        BY <4>1, <3>3, <3>5
      <4>2. CASE k # 1
        BY <4>2, <3>3, <3>4, <3>5
      <4> QED
        BY <4>1, <4>2
    <3> HIDE DEF b
    <3> QED
      BY <2>2, <3>2, <3>3, <3>5, <3>7, <3>8, <3>9
  <2> QED
    BY <2>1, <2>2
<1> HIDE DEF b
<1>17. Chain(s'.e, s'.count, new.val.rec, n + 1, b)
  BY <1>14, <1>15, <1>16 DEF Chain
<1>18. Grows(t)'
  <2>1. \E d \in [1 .. n + 1 -> 1 .. s'.count - 1] : Chain(s'.e, s'.count, new.val.rec, n + 1, d) /\ d[n + 1] = c.prev
    BY <1>5, <1>13, <1>14, <1>17
  <2>2. n + 1 >= 1
    BY <1>7
  <2> QED
    BY <2>1, <2>2, <1>1, <1>4, <1>5, <1>6, <1>7 DEF Grows
<1> QED
  BY <1>1, <1>2, <1>5, <1>18, WorkStep

LEMMA DoneStep ==
    ASSUME RInv, NEW t \in Threads, Open, UNCHANGED <<table, durable, since>>, UpdateDone(t)
    PROVE  RInv'
<1>1. row' = row /\ new' = new /\ value' = value /\ since' = since /\ durable' = durable
  BY DEF table
<1>2. /\ call[t].op = "update" /\ call[t].left = 0 /\ call' = [call EXCEPT ![t] = Idle] /\ s' = s
      /\ owned' = IF call[t].rec = None THEN owned ELSE [owned EXCEPT ![call[t].rec] = 1]
  BY DEF UpdateDone, Unlock
<1>3. Working(t) /\ Stores(t)
  BY <1>2 DEF Working, Stores
<1>4. /\ row \in [Fields -> Value] /\ new \in OfField /\ value \in OfField
      /\ call \in [Threads -> Calls] /\ owned \in [Ids -> Nat]
  BY StoreIs DEF RInv, TableTypeOK
<1>5. TableTypeOK'
  BY <1>1, <1>3, <1>4, OpenTypes
<1>6. /\ new.val.rec \in Ids /\ new.val.size \in 1 .. MaxGrow /\ call[t].rec = new.val.rec
      /\ owned[new.val.rec] = 0 /\ ~Settled /\ Grows(t)
      /\ \A u \in Threads : u # t => call[u].op = "idle"
  BY <1>3, WorkIs
<1>7. \A u \in Threads : call'[u].op = "idle"
  BY <1>2, <1>4, <1>6 DEF Idle, Calling
<1>8. Settled' /\ OneCall'
  BY <1>7 DEF Settled, OneCall, Working
<1>9. new.val.size - call[t].left = new.val.size /\ new.val.size # 0
  BY <1>2, <1>6, VarStoreAssumption
<1>10. HasChain(s.e, s.count, new.val.rec, new.val.size)
  <2>1. call[t].at = Last
    BY <1>6, <1>9 DEF Grows
  <2> QED
    BY <2>1, <1>6, <1>9 DEF Grows, HasChain
<1>11. Counted'
  <2>1. ASSUME NEW r \in Ids
        PROVE  owned'[r] = Cardinality(RowsWith(r)') + One(new'.val.rec = r) + One(value'.val.rec = r)
    <3>1. RowsWith(r)' = RowsWith(r)
      BY <1>1 DEF RowsWith
    <3>2. One(Settled /\ new.val.rec = r) = 0
      BY <1>6 DEF One
    <3>3. owned[r] = Cardinality(RowsWith(r)) + One(Settled /\ new.val.rec = r) + One(value.val.rec = r)
      BY DEF RInv, Counted
    <3>4. One(value'.val.rec = r) = One(value.val.rec = r) /\ One(new'.val.rec = r) = One(new.val.rec = r)
      BY <1>1
    <3>5. Cardinality(RowsWith(r)) \in Nat /\ One(value.val.rec = r) \in {0, 1}
      BY RowsWithFinite, Ones
    <3>6. call[t].rec # None
      BY <1>6, FieldsFinite
    <3>7. CASE new.val.rec = r
      <4>1. One(new.val.rec = r) = 1 /\ owned[r] = 0 /\ owned'[r] = 1
        BY <3>6, <3>7, <1>2, <1>4, <1>6 DEF One
      <4> QED
        BY <4>1, <3>1, <3>2, <3>3, <3>4, <3>5
    <3>8. CASE new.val.rec # r
      <4>1. One(new.val.rec = r) = 0 /\ owned'[r] = owned[r]
        BY <3>6, <3>8, <1>2, <1>4, <1>6 DEF One
      <4> QED
        BY <4>1, <3>1, <3>2, <3>3, <3>4, <3>5
    <3> QED
      BY <3>7, <3>8
  <2> QED
    BY <2>1, <1>8, CountNext
<1>12. ASSUME NEW v \in Held' \ {Null} PROVE v \in Held \/ HasChain(s'.e, s'.count, v.rec, v.size)
  <2>1. v \in Held \/ v = new.val
    BY <1>1, <1>8 DEF Held
  <2> QED
    BY <2>1, <1>2, <1>10
<1> QED
  BY <1>1, <1>3, <1>5, <1>8, <1>11, <1>12, OpenStep

LEMMA SetFailsStep ==
    ASSUME RInv, NEW t \in Threads, SetFails(t)
    PROVE  RInv'
<1>1. row' = row /\ new' = Nothing /\ value' = value /\ since' = since /\ durable' = durable /\ Open /\ UpdateFails(t)
  BY DEF SetFails
<1>2. /\ call[t].op = "update" /\ call' = [call EXCEPT ![t] = Idle] /\ s' = s /\ owned' = owned
  BY <1>1 DEF UpdateFails, Unlock
<1>3. Working(t) /\ Stores(t)
  BY <1>1, <1>2 DEF Working, Stores
<1>4. /\ row \in [Fields -> Value] /\ Nothing \in OfField /\ value \in OfField
      /\ call \in [Threads -> Calls] /\ owned \in [Ids -> Nat]
      /\ Nothing.val = Null /\ Null.rec = None /\ None \notin Ids
  BY StoreIs, FieldsFinite DEF RInv, TableTypeOK, OfField, Nothing, Null
<1>5. TableTypeOK'
  BY <1>1, <1>3, <1>4, OpenTypes
<1>6. /\ ~Settled /\ \A u \in Threads : u # t => call[u].op = "idle"
  BY <1>3, WorkIs
<1>7. \A u \in Threads : call'[u].op = "idle"
  BY <1>2, <1>4, <1>6 DEF Idle, Calling
<1>8. Settled' /\ OneCall'
  BY <1>7 DEF Settled, OneCall, Working
<1>9. Counted'
  <2>1. ASSUME NEW r \in Ids
        PROVE  owned'[r] = Cardinality(RowsWith(r)') + One(new'.val.rec = r) + One(value'.val.rec = r)
    <3>1. RowsWith(r)' = RowsWith(r)
      BY <1>1 DEF RowsWith
    <3>2. One(Settled /\ new.val.rec = r) = 0
      BY <1>6 DEF One
    <3>3. owned[r] = Cardinality(RowsWith(r)) + One(Settled /\ new.val.rec = r) + One(value.val.rec = r)
      BY DEF RInv, Counted
    <3>4. One(value'.val.rec = r) = One(value.val.rec = r) /\ owned'[r] = owned[r]
      BY <1>1, <1>2
    <3>5. One(new'.val.rec = r) = 0
      BY <1>1, <1>4 DEF One
    <3> QED
      BY <3>1, <3>2, <3>3, <3>4, <3>5
  <2> QED
    BY <2>1, <1>8, CountNext
<1>10. \A v \in Held' \ {Null} : v \in Held
  BY <1>1, <1>4 DEF Held
<1> QED
  BY <1>1, <1>3, <1>5, <1>8, <1>9, <1>10, OpenStep

LEMMA RemoveStepHolds ==
    ASSUME RInv, NEW t \in Threads, Open, UNCHANGED <<table, durable, since>>, RemoveStep(t)
    PROVE  RInv'
<1>1. row' = row /\ new' = new /\ value' = value /\ since' = since /\ durable' = durable
  BY DEF table
<1>2. /\ call[t].op = "remove" /\ owned' = owned
      /\ \/ \E x : call' = [call EXCEPT ![t] = Calling("remove", None, x, 0, 0)]
         \/ call' = [call EXCEPT ![t] = Idle]
  BY DEF RemoveStep, Unlock
<1>3. Stores(t)
  BY DEF Stores
<1>4. /\ row \in [Fields -> Value] /\ new \in OfField /\ value \in OfField /\ call \in [Threads -> Calls]
  BY StoreIs DEF RInv, TableTypeOK
<1>5. TableTypeOK'
  BY <1>1, <1>3, <1>4, OpenTypes
<1>6. \A u \in Threads : u # t => call[u].op = "idle"
  BY <1>2 DEF RInv, OneCall
<1>7. /\ \A u \in Threads : u # t => call'[u].op = "idle"
      /\ call'[t].op \in {"idle", "remove"}
  BY <1>2, <1>4, <1>6 DEF Idle, Calling
<1>8. Settled /\ Settled' /\ OneCall'
  BY <1>2, <1>6, <1>7 DEF Settled, OneCall, Working
<1>9. Counted'
  <2>1. ASSUME NEW r \in Ids
        PROVE  owned'[r] = Cardinality(RowsWith(r)') + One(new'.val.rec = r) + One(value'.val.rec = r)
    <3>1. RowsWith(r)' = RowsWith(r)
      BY <1>1 DEF RowsWith
    <3>2. One(value'.val.rec = r) = One(value.val.rec = r) /\ One(new'.val.rec = r) = One(new.val.rec = r)
      BY <1>1
    <3> QED
      BY <3>1, <3>2, <1>2, <1>8, CountIs
  <2> QED
    BY <2>1, <1>8, CountNext
<1>10. \A v \in Held' \ {Null} : v \in Held
  BY <1>1, <1>8 DEF Held
<1> QED
  BY <1>1, <1>3, <1>5, <1>8, <1>9, <1>10, OpenStep

LEMMA WorkHolds == ASSUME RInv, NEW t \in Threads, Work(t) PROVE RInv'
<1>1. CASE \E f \in Fields : \E size \in 1 .. MaxGrow : SetNew(t, f, size)
  BY <1>1, SetNewStep
<1>2. CASE \E f \in Fields : SetShared(t, f) \/ SetNull(t, f) \/ Get(t, f)
  BY <1>2, SetSharedStep, SetNullStep, GetStepHolds
<1>3. CASE StoreWorks(t)
  <2>1. Open /\ UNCHANGED <<table, durable, since>>
    BY <1>3 DEF StoreWorks
  <2>2. AddRecordFill(t) \/ UpdateStep(t, TRUE) \/ UpdateGrow(t) \/ UpdateDone(t) \/ RemoveStep(t)
    BY <1>3 DEF StoreWorks
  <2> QED
    BY <2>1, <2>2, FillStep, FirstWriteStep, GrowStep, DoneStep, RemoveStepHolds
<1> QED
  BY <1>1, <1>2, <1>3, SetFailsStep, SetRowStep, DropValueStep DEF Work

-----------------------------------------------------------------------------
(* A process that has just opened the table, or ended. *)

Bare == Init /\ row = [f \in Fields |-> Null] /\ new = Nothing /\ value = Nothing

LEMMA BareIs == Bare => IInv /\ OneCall /\ HeldWhole /\ Counted
<1> SUFFICES ASSUME Bare PROVE IInv /\ OneCall /\ HeldWhole /\ Counted
  OBVIOUS
<1>1. Init /\ row = [f \in Fields |-> Null] /\ new = Nothing /\ value = Nothing
  BY DEF Bare
<1>2. IInv
  BY <1>1, InitIInv
<1>3. \A t \in Threads : call[t].op = "idle"
  BY <1>1 DEF Init, Idle, Calling
<1>4. OneCall
  BY <1>3 DEF OneCall, Working
<1>5. Nothing.val = Null /\ Null.rec = None /\ None \notin Ids
  BY FieldsFinite DEF Nothing, Null
<1>6. Held \subseteq {Null}
  BY <1>1, <1>5 DEF Held
<1>7. HeldWhole
  BY <1>6 DEF HeldWhole
<1>8. ASSUME NEW r \in Ids
      PROVE  owned[r] = Cardinality(RowsWith(r)) + One(Settled /\ new.val.rec = r) + One(value.val.rec = r)
  <2>1. owned[r] = 0
    BY <1>1 DEF Init
  <2>2. RowsWith(r) = {}
    BY <1>1, <1>5 DEF RowsWith
  <2>3. Cardinality(RowsWith(r)) = 0
    BY <2>2, FS_EmptySet
  <2>4. One(Settled /\ new.val.rec = r) = 0 /\ One(value.val.rec = r) = 0
    BY <1>1, <1>5 DEF One
  <2> QED
    BY <2>1, <2>3, <2>4
<1>9. Counted
  BY <1>8 DEF Counted
<1> QED
  BY <1>2, <1>4, <1>7, <1>9

LEMMA BareTypes ==
    ASSUME Bare
    PROVE  row \in [Fields -> Value] /\ new \in OfField /\ value \in OfField
BY DEF Bare, OfField, Value

LEMMA TableInitHolds == TableInit => RInv
<1> SUFFICES ASSUME TableInit PROVE RInv
  OBVIOUS
<1>1. Bare
  BY DEF TableInit, Bare
<1>2. IInv /\ OneCall /\ HeldWhole /\ Counted
  BY <1>1, BareIs
<1>3. TypeOK /\ s = EmptyStore /\ s.e \in [Ids -> Entry]
  BY <1>2, StoreIs DEF TableInit, Init
<1>4. TableTypeOK
  <2>1. [f \in Fields |-> Null] \in [Fields -> Value]
    BY DEF Value
  <2>2. file \in [e : [Ids -> Entry], row : [Fields -> Value], count : 1 .. MaxEntries]
    <3>1. 1 \in 1 .. MaxEntries
      BY VarStoreAssumption
    <3> QED
      BY <1>3, <2>1, <3>1 DEF TableInit
  <2>3. since \in [calls : 0 .. MaxCalls, evicted : 0 .. MaxEvictions]
    BY StoreRepairAssumption DEF TableInit
  <2>4. check \in [used : SUBSET Ids, done : SUBSET Fields]
    BY FieldsFinite DEF TableInit, Unused
  <2>5. stage = "open" /\ durable = Fields
    BY DEF TableInit
  <2> QED
    BY <1>1, <1>3, <2>2, <2>3, <2>4, <2>5, BareTypes DEF TableTypeOK
<1>5. Filed
  BY DEF Filed, TableInit
<1>6. Checked
  BY DEF Checked, Checking, TableInit
<1> QED
  BY <1>2, <1>4, <1>5, <1>6 DEF RInv

\* A repair starts from the entries the header knows, and no field.
LEMMA CrashHolds == RInv /\ Crash => RInv'
<1> SUFFICES ASSUME RInv, Crash PROVE RInv'
  OBVIOUS
<1>1. Bare'
  BY DEF Crash, Bare, Init
<1>2. IInv' /\ OneCall' /\ HeldWhole' /\ Counted'
  <2>1. (Bare => IInv /\ OneCall /\ HeldWhole /\ Counted)'
    BY BareIs, PTL
  <2> QED
    BY <1>1, <2>1
<1>3. row' \in [Fields -> Value] /\ new' \in OfField /\ value' \in OfField
  BY <1>1 DEF Bare, OfField, Value
<1>4. TypeOK'
  BY <1>2 DEF IInv
<1>5. TableTypeOK'
  <2>1. since' \in [calls : 0 .. MaxCalls, evicted : 0 .. MaxEvictions]
    BY StoreRepairAssumption DEF Crash
  <2>2. check' \in [used : SUBSET Ids, done : SUBSET Fields]
    BY FieldsFinite DEF Crash, Unused
  <2>3. stage' = "down" /\ durable' = durable /\ file' = file
    BY DEF Crash
  <2>4. /\ file \in [e : [Ids -> Entry], row : [Fields -> Value], count : 1 .. MaxEntries]
        /\ durable \subseteq Fields
    BY DEF RInv, TableTypeOK
  <2> QED
    BY <1>3, <1>4, <2>1, <2>2, <2>3, <2>4 DEF TableTypeOK
<1>6. file' = file /\ durable' = durable /\ stage' = "down" /\ check' = Unused
  BY DEF Crash
<1>7. Filed'
  <2>1. ASSUME NEW f \in durable, file.row[f] # Null
        PROVE  \E at \in [1 .. file.row[f].size -> 1 .. file.count - 1] : FiledAt(f, at)'
    <3>1. PICK at \in [1 .. file.row[f].size -> 1 .. file.count - 1] : FiledAt(f, at)
      BY <2>1 DEF RInv, Filed
    <3>2. FiledAt(f, at)'
      BY <3>1, <1>6 DEF FiledAt
    <3> QED
      BY <3>2
  <2> QED
    BY <2>1, <1>6 DEF Filed
<1>8. Checked'
  BY <1>6 DEF Checked, Checking
<1> QED
  BY <1>2, <1>5, <1>7, <1>8 DEF RInv

-----------------------------------------------------------------------------
(* What the caches write. *)

\* In memory nothing leads to an entry of a record but the record.
LEMMA HeldAlone ==
    ASSUME IInv, NEW r, NEW n \in Nat, NEW at, Chain(s.e, s.count, r, n, at)
    PROVE  Alone(s.e, s.count, n, at)
<1>1. TypeOK /\ Whole(s, Removing)
  BY StoreIs, IsWhole
<1> SUFFICES ASSUME NEW y \in 0 .. s.count - 1, NEW k \in 1 .. n, s.e[y].next = at[k]
             PROVE  k > 1 /\ at[k - 1] = y
  BY DEF Alone
<1>2. at[k] \in Ids /\ (k = 1 <=> IsFirst(s, at[k]))
  BY <1>1, ChainLive
<1>3. at[k] # Last
  BY <1>2, FieldsFinite
<1>4. at[k] \notin Starts(s, Removing) /\ s.e[at[k]].prev = y
  BY <1>1, <1>3, Neighbours
<1>5. k # 1
  BY <1>2, <1>4 DEF Starts, Records
<1>6. s.e[at[k]].prev = at[k - 1]
  BY <1>5 DEF Chain
<1> QED
  BY <1>4, <1>5, <1>6

\* A block written back is an entry or a row as it is in memory.
LEMMA EntryWritten ==
    ASSUME RInv, stage = "open", NEW id \in 0 .. s.count - 1, NEW f \in durable, NEW at,
           file.row[f] # Null, FiledAt(f, at),
           file' = [file EXCEPT !.e[id] = s.e[id]], stage' = "open", s' = s
    PROVE  FiledAt(f, at)'
<1> DEFINE v == file.row[f]
<1>1. /\ v.size \in Nat
      /\ file.count \in 1 .. MaxEntries /\ file.e \in [Ids -> Entry]
      /\ file \in [e : [Ids -> Entry], row : [Fields -> Value], count : 1 .. MaxEntries]
  <2>1. /\ file \in [e : [Ids -> Entry], row : [Fields -> Value], count : 1 .. MaxEntries]
        /\ f \in Fields
    BY DEF RInv, TableTypeOK
  <2>2. v \in Value /\ v # Null
    BY <2>1
  <2>3. v.size \in 1 .. MaxGrow
    BY <2>2, ValueIs
  <2> QED
    BY <2>1, <2>3, VarStoreAssumption
<1>2. s.count \in 1 .. MaxEntries
  BY StoreIs DEF RInv
<1>3. id \in Ids
  BY <1>2, VarStoreAssumption DEF Ids
<1>4. /\ file'.row = file.row /\ file'.count = file.count
      /\ file'.e[id] = s.e[id] /\ \A y \in Ids : y # id => file'.e[y] = file.e[y]
  BY <1>1, <1>3
<1>5. /\ Chain(file.e, file.count, v.rec, v.size, at) /\ Alone(file.e, file.count, v.size, at)
      /\ Chain(s.e, s.count, v.rec, v.size, at)
  BY DEF FiledAt
<1>6. Alone(s.e, s.count, v.size, at)
  BY <1>1, <1>5, HeldAlone DEF RInv
<1> HIDE DEF v
<1>7. Chain(file'.e, file'.count, v.rec, v.size, at)
  <2>1. ASSUME NEW k \in 1 .. v.size
        PROVE  /\ ~file'.e[at[k]].deleted /\ (file'.e[at[k]].first <=> k = 1)
               /\ file'.e[at[k]].next = IF k = v.size THEN Last ELSE at[k + 1]
               /\ IF k = 1 THEN file'.e[at[k]].prev >= 1 ELSE file'.e[at[k]].prev = at[k - 1]
    <3>1. at[k] \in 1 .. file.count - 1
      BY <1>5 DEF Chain
    <3>2. at[k] \in Ids
      BY <3>1, <1>1, VarStoreAssumption DEF Ids
    <3>3. CASE at[k] = id
      <4>1. file'.e[at[k]] = s.e[at[k]]
        BY <3>3, <1>4
      <4> QED
        BY <4>1, <1>5 DEF Chain
    <3>4. CASE at[k] # id
      <4>1. file'.e[at[k]] = file.e[at[k]]
        BY <3>2, <3>4, <1>4
      <4> QED
        BY <4>1, <1>5 DEF Chain
    <3> QED
      BY <3>3, <3>4
  <2> QED
    BY <2>1, <1>4, <1>5 DEF Chain
<1>8. Alone(file'.e, file'.count, v.size, at)
  <2>1. ASSUME NEW y \in 0 .. file.count - 1, NEW k \in 1 .. v.size, file'.e[y].next = at[k]
        PROVE  k > 1 /\ at[k - 1] = y
    <3>1. y \in Ids
      BY <1>1, VarStoreAssumption DEF Ids
    <3>2. CASE y = id
      BY <2>1, <3>2, <1>4, <1>6 DEF Alone
    <3>3. CASE y # id
      BY <2>1, <3>1, <3>3, <1>4, <1>5 DEF Alone
    <3> QED
      BY <3>2, <3>3
  <2> QED
    BY <2>1, <1>4 DEF Alone
<1>9. file'.row[f] = v
  BY <1>4 DEF v
<1> QED
  BY <1>5, <1>7, <1>8, <1>9 DEF FiledAt

\* Nothing of the table in memory changes.
LEMMA MemorySame ==
    ASSUME RInv, UNCHANGED <<vars, table>>
    PROVE  /\ IInv' /\ OneCall' /\ HeldWhole' /\ Counted'
           /\ s' = s /\ row' = row /\ new' = new /\ value' = value
           /\ TypeOK' /\ row' \in [Fields -> Value] /\ new' \in OfField /\ value' \in OfField
<1>1. s' = s /\ mSync' = mSync /\ call' = call /\ owned' = owned /\ orphaned' = orphaned
      /\ row' = row /\ new' = new /\ value' = value
  BY DEF vars, table
<1>2. IInv'
  BY <1>1 DEF RInv, IInv, TypeOK, FreeListLinked, ChainsLinked, Removing, CallsKnow, RefsAccounted
<1>3. Held' = Held
  BY <1>1 DEF Held, Settled, Working
<1>4. HeldWhole'
  BY <1>1, <1>3 DEF RInv, HeldWhole, HasChain, Chain
<1>5. ASSUME NEW t \in Threads, Grows(t) PROVE Grows(t)'
  BY <1>1, <1>5 DEF Grows, HasChain
<1>6. OneCall'
  <2>1. \A t \in Threads : Working(t) => Grows(t)
    BY DEF RInv, OneCall
  <2>2. \A t \in Threads : Working(t)' => Grows(t)'
    BY <1>1, <1>5, <2>1 DEF Working
  <2> QED
    BY <1>1, <2>2 DEF RInv, OneCall
<1>7. Counted'
  BY <1>1 DEF RInv, Counted, RowsWith, Settled, Working
<1> QED
  BY <1>1, <1>2, <1>4, <1>6, <1>7 DEF RInv, TableTypeOK, IInv

LEMMA WriteBackHolds == RInv /\ WriteBack => RInv'
<1> SUFFICES ASSUME RInv, WriteBack PROVE RInv'
  OBVIOUS
<1>1. /\ stage = "open" /\ stage' = "open" /\ durable' = durable /\ check' = check
      /\ since' = [since EXCEPT !.evicted = @ + 1] /\ since.evicted < MaxEvictions
  BY DEF WriteBack
<1>2. /\ IInv' /\ OneCall' /\ HeldWhole' /\ Counted'
      /\ s' = s /\ row' = row /\ new' = new /\ value' = value
      /\ TypeOK' /\ row' \in [Fields -> Value] /\ new' \in OfField /\ value' \in OfField
  BY MemorySame DEF WriteBack
<1>3. /\ file \in [e : [Ids -> Entry], row : [Fields -> Value], count : 1 .. MaxEntries]
      /\ s.e \in [Ids -> Entry] /\ s.count \in 1 .. MaxEntries /\ durable \subseteq Fields
      /\ check \in [used : SUBSET Ids, done : SUBSET Fields]
      /\ since \in [calls : 0 .. MaxCalls, evicted : 0 .. MaxEvictions]
      /\ row \in [Fields -> Value]
  BY StoreIs DEF RInv, TableTypeOK
<1>4. Checked'
  BY <1>1 DEF Checked, Checking
<1>5. since' \in [calls : 0 .. MaxCalls, evicted : 0 .. MaxEvictions]
  <2>1. since.evicted + 1 \in 0 .. MaxEvictions
    BY <1>1, <1>3, StoreRepairAssumption
  <2> QED
    BY <1>1, <1>3, <2>1
<1>6. SUFFICES /\ file' \in [e : [Ids -> Entry], row : [Fields -> Value], count : 1 .. MaxEntries]
               /\ Filed'
  <2>1. TableTypeOK'
    BY <1>1, <1>2, <1>3, <1>5, <1>6 DEF TableTypeOK
  <2> QED
    BY <2>1, <1>2, <1>4, <1>6 DEF RInv
<1>7. ASSUME NEW id \in 0 .. s.count - 1, file' = [file EXCEPT !.e[id] = s.e[id]]
      PROVE  /\ file' \in [e : [Ids -> Entry], row : [Fields -> Value], count : 1 .. MaxEntries]
             /\ Filed'
  <2>1. id \in Ids /\ s.e[id] \in Entry
    BY <1>3, VarStoreAssumption DEF Ids
  <2>2. file'.row = file.row /\ file'.count = file.count
    BY <1>7, <1>3
  <2>3. ASSUME NEW f \in durable, file.row[f] # Null
        PROVE  \E at \in [1 .. file.row[f].size -> 1 .. file.count - 1] : FiledAt(f, at)'
    <3>1. PICK at \in [1 .. file.row[f].size -> 1 .. file.count - 1] : FiledAt(f, at)
      BY <2>3 DEF RInv, Filed
    <3>2. FiledAt(f, at)'
      BY <3>1, <2>3, <1>1, <1>2, <1>7, EntryWritten
    <3> QED
      BY <3>2
  <2>4. Filed'
    BY <1>1, <1>2, <2>2, <2>3 DEF RInv, Filed
  <2> QED
    BY <2>1, <2>4, <1>3, <1>7
<1>8. ASSUME NEW g \in Fields, file.row[g] # row[g], file' = [file EXCEPT !.row[g] = row[g]]
      PROVE  /\ file' \in [e : [Ids -> Entry], row : [Fields -> Value], count : 1 .. MaxEntries]
             /\ Filed'
  <2>1. row[g] \in Value
    BY <1>3
  <2>2. file'.e = file.e /\ file'.count = file.count /\ \A f \in Fields : f # g => file'.row[f] = file.row[f]
    BY <1>8, <1>3
  <2>3. ASSUME NEW f \in durable
        PROVE  f \in Fields /\ f # g /\ file.row[f] = row[f] /\ file'.row[f] = file.row[f]
    <3>1. f \in Fields /\ file.row[f] = row[f]
      BY <1>1, <1>3 DEF RInv, Filed
    <3> QED
      BY <3>1, <1>8, <2>2
  <2>4. ASSUME NEW f \in durable, file.row[f] # Null
        PROVE  \E at \in [1 .. file.row[f].size -> 1 .. file.count - 1] : FiledAt(f, at)'
    <3>1. PICK at \in [1 .. file.row[f].size -> 1 .. file.count - 1] : FiledAt(f, at)
      BY <2>4 DEF RInv, Filed
    <3>2. FiledAt(f, at)'
      BY <3>1, <2>2, <2>3, <1>1, <1>2 DEF FiledAt
    <3> QED
      BY <3>2
  <2>5. Filed'
    BY <1>1, <1>2, <2>2, <2>3, <2>4 DEF Filed
  <2> QED
    BY <2>1, <2>5, <1>3, <1>8
<1> QED
  BY <1>7, <1>8 DEF WriteBack

LEMMA FlushHolds == RInv /\ FlushInternal => RInv'
<1> SUFFICES ASSUME RInv, FlushInternal PROVE RInv'
  OBVIOUS
<1>1. /\ stage = "open" /\ stage' = "open" /\ durable' = Fields /\ check' = check
      /\ since' = [calls |-> 0, evicted |-> 0] /\ file' = [e |-> s.e, row |-> row, count |-> s.count]
  BY DEF FlushInternal
<1>2. /\ IInv' /\ OneCall' /\ HeldWhole' /\ Counted'
      /\ s' = s /\ row' = row /\ new' = new /\ value' = value
      /\ TypeOK' /\ row' \in [Fields -> Value] /\ new' \in OfField /\ value' \in OfField
  BY MemorySame DEF FlushInternal
<1>3. /\ s.e \in [Ids -> Entry] /\ s.count \in 1 .. MaxEntries
      /\ check \in [used : SUBSET Ids, done : SUBSET Fields]
      /\ row \in [Fields -> Value]
  BY StoreIs DEF RInv, TableTypeOK
<1>4. Checked'
  BY <1>1 DEF Checked, Checking
<1>5. since' \in [calls : 0 .. MaxCalls, evicted : 0 .. MaxEvictions]
  BY <1>1, StoreRepairAssumption
<1>6. file'.e = s.e /\ file'.row = row /\ file'.count = s.count
      /\ file' \in [e : [Ids -> Entry], row : [Fields -> Value], count : 1 .. MaxEntries]
  BY <1>1, <1>3
<1>7. TableTypeOK'
  BY <1>1, <1>2, <1>3, <1>5, <1>6 DEF TableTypeOK
<1>8. ASSUME NEW f \in Fields, row[f] # Null
      PROVE  \E at \in [1 .. row[f].size -> 1 .. s.count - 1] : FiledAt(f, at)'
  <2>1. row[f] \in Held \ {Null}
    BY <1>8 DEF Held
  <2>2. PICK at \in [1 .. row[f].size -> 1 .. s.count - 1] : Chain(s.e, s.count, row[f].rec, row[f].size, at)
    BY <2>1 DEF RInv, HeldWhole, HasChain
  <2>3. row[f].size \in Nat
    BY <1>3, <1>8, ValueIs, VarStoreAssumption
  <2>4. Alone(s.e, s.count, row[f].size, at)
    BY <2>2, <2>3, HeldAlone DEF RInv
  <2>5. FiledAt(f, at)'
    BY <1>1, <1>2, <1>6, <2>2, <2>4 DEF FiledAt
  <2> QED
    BY <2>5
<1>9. Filed'
  BY <1>1, <1>2, <1>6, <1>8 DEF Filed
<1> QED
  BY <1>2, <1>4, <1>7, <1>9 DEF RInv

-----------------------------------------------------------------------------
(* What the repair reads. *)

After(e, x) == IF x \in Ids THEN e[x].next ELSE Last

Follows(e, rec, n, at) ==
    /\ at = [k \in 1 .. n |-> at[k]]
    /\ n >= 1 => at[1] = rec
    /\ \A k \in 2 .. n : at[k] = After(e, at[k - 1])

\* EntriesOf is what its recursive definition says.
LEMMA EntriesAre ==
    ASSUME NEW e, NEW rec, NEW n \in Nat
    PROVE  /\ DOMAIN EntriesOf(e, rec, n) = 1 .. n
           /\ EntriesOf(e, rec, n) = [k \in 1 .. n |-> EntriesOf(e, rec, n)[k]]
           /\ n >= 1 => EntriesOf(e, rec, n)[1] = rec
           /\ \A k \in 2 .. n : EntriesOf(e, rec, n)[k] = After(e, EntriesOf(e, rec, n)[k - 1])
<1> DEFINE at[k \in 1 .. n] ==
             IF k = 1 THEN rec ELSE IF at[k - 1] \in Ids THEN e[at[k - 1]].next ELSE Last
           Next1(g, k) == IF k = 1 THEN rec ELSE IF g[k - 1] \in Ids THEN e[g[k - 1]].next ELSE Last
           Def(g, m) == g = [k \in 1 .. m |-> Next1(g, k)]
           S == {m \in Nat : \E g : Def(g, m)}
<1>1. EntriesOf(e, rec, n) = at
  BY DEF EntriesOf
<1>2. 0 \in S
  <2> DEFINE g == [k \in 1 .. 0 |-> rec]
  <2>1. Def(g, 0)
    OBVIOUS
  <2> QED
    BY <2>1
<1>3. ASSUME NEW m \in Nat, m \in S PROVE m + 1 \in S
  <2>1. PICK g : Def(g, m)
    BY <1>3
  <2> DEFINE h == [k \in 1 .. m + 1 |-> Next1(g, k)]
  <2>2. ASSUME NEW k \in 1 .. m PROVE h[k] = g[k]
    <3> HIDE DEF Next1
    <3>1. k \in 1 .. m + 1
      OBVIOUS
    <3>2. h[k] = Next1(g, k)
      BY <3>1
    <3>3. g[k] = Next1(g, k)
      BY <2>1
    <3> QED
      BY <3>2, <3>3
  <2>3. ASSUME NEW k \in 1 .. m + 1
        PROVE  Next1(g, k) = Next1(h, k)
    <3>1. CASE k = 1
      BY <3>1
    <3>2. CASE k # 1
      <4>1. k - 1 \in 1 .. m
        BY <3>2
      <4>2. h[k - 1] = g[k - 1]
        BY <2>2, <4>1
      <4> HIDE DEF h
      <4> QED
        BY <3>2, <4>2
    <3> QED
      BY <3>1, <3>2
  <2>4. Def(h, m + 1)
    <3> HIDE DEF Next1
    <3> QED
      BY <2>3
  <2>5. m + 1 \in Nat
    OBVIOUS
  <2> HIDE DEF h, Def
  <2> QED
    BY <2>4, <2>5
<1>4. n \in S
  <2> HIDE DEF S
  <2>1. \A m \in Nat : m \in S => m + 1 \in S
    BY <1>3
  <2>2. Nat \subseteq S
    BY <1>2, <2>1, ByInduction
  <2> QED
    BY <2>2
<1>5. \E g : Def(g, n)
  BY <1>4
<1>6. Def(at, n)
  BY <1>5
<1> HIDE DEF at
<1>7. at = [k \in 1 .. n |-> Next1(at, k)]
  BY <1>6
<1>8. ASSUME NEW k \in 1 .. n PROVE at[k] = Next1(at, k)
  <2> HIDE DEF Next1
  <2> QED
    BY <1>7
<1>9. DOMAIN at = 1 .. n /\ at = [k \in 1 .. n |-> at[k]]
  <2> HIDE DEF Next1
  <2> QED
    BY <1>7
<1>10. n >= 1 => at[1] = rec
  <2>1. n >= 1 => at[1] = Next1(at, 1)
    <3> HIDE DEF Next1
    <3> QED
      BY <1>8
  <2> QED
    BY <2>1
<1>11. ASSUME NEW k \in 2 .. n PROVE at[k] = After(e, at[k - 1])
  <2>1. at[k] = Next1(at, k)
    <3> HIDE DEF Next1
    <3> QED
      BY <1>8
  <2> QED
    BY <2>1 DEF After
<1> QED
  BY <1>1, <1>9, <1>10, <1>11

\* There is one such sequence only.
LEMMA EntriesUnique ==
    ASSUME NEW e, NEW rec, NEW n \in Nat, NEW b, Follows(e, rec, n, b)
    PROVE  EntriesOf(e, rec, n) = b
<1> DEFINE at == EntriesOf(e, rec, n)
           S == {k \in 1 .. n : at[k] # b[k]}
<1>1. /\ at = [k \in 1 .. n |-> at[k]]
      /\ n >= 1 => at[1] = rec
      /\ \A k \in 2 .. n : at[k] = After(e, at[k - 1])
  BY EntriesAre
<1>0. /\ b = [k \in 1 .. n |-> b[k]]
      /\ n >= 1 => b[1] = rec
      /\ \A k \in 2 .. n : b[k] = After(e, b[k - 1])
  BY DEF Follows
<1> HIDE DEF at
<1>2. ASSUME S # {} PROVE FALSE
  <2>1. S \in SUBSET Nat
    OBVIOUS
  <2>2. PICK m \in S : \A k \in S : m <= k
    BY <1>2, <2>1, Least
  <2>3. m \in 1 .. n /\ at[m] # b[m]
    BY <2>2
  <2>4. m # 1
    BY <2>3, <1>0, <1>1
  <2>5. m \in 2 .. n /\ m - 1 \in 1 .. n
    BY <2>3, <2>4
  <2>6. m - 1 \notin S
    BY <2>2, <2>5
  <2>7. at[m - 1] = b[m - 1]
    BY <2>5, <2>6
  <2> QED
    BY <2>3, <2>5, <2>7, <1>0, <1>1
<1>3. \A k \in 1 .. n : at[k] = b[k]
  BY <1>2
<1>4. at = b
  BY <1>0, <1>1, <1>3
<1> QED
  BY <1>4 DEF at

LEMMA EntriesTypes ==
    ASSUME NEW e \in [Ids -> Entry], NEW rec \in Ids, NEW n \in Nat
    PROVE  \A k \in 1 .. n : EntriesOf(e, rec, n)[k] \in 0 .. MaxEntries
<1> DEFINE at == EntriesOf(e, rec, n)
<1>1. /\ n >= 1 => at[1] = rec
      /\ \A k \in 2 .. n : at[k] = After(e, at[k - 1])
  BY EntriesAre
<1> HIDE DEF at
<1>2. ASSUME NEW k \in 1 .. n PROVE at[k] \in 0 .. MaxEntries
  <2>1. CASE k = 1
    BY <2>1, <1>1, VarStoreAssumption DEF Ids
  <2>2. CASE k # 1
    <3>1. at[k] = After(e, at[k - 1])
      BY <2>2, <1>1
    <3>2. Last \in 0 .. MaxEntries
      BY VarStoreAssumption DEF Last
    <3> QED
      BY <3>1, <3>2 DEF After, Entry
  <2> QED
    BY <2>1, <2>2
<1> QED
  BY <1>2 DEF at

\* Entries that keep their links are read again.
LEMMA EntriesSame ==
    ASSUME NEW e, NEW e2, NEW rec, NEW n \in Nat,
           \A k \in 1 .. n : EntriesOf(e, rec, n)[k] \in Ids =>
                e2[EntriesOf(e, rec, n)[k]].next = e[EntriesOf(e, rec, n)[k]].next
    PROVE  EntriesOf(e2, rec, n) = EntriesOf(e, rec, n)
<1>0. PICK at : at = EntriesOf(e, rec, n)
  OBVIOUS
<1>1. /\ at = [k \in 1 .. n |-> at[k]]
      /\ n >= 1 => at[1] = rec
      /\ \A k \in 2 .. n : at[k] = After(e, at[k - 1])
  BY <1>0, EntriesAre
<1>2. \A k \in 1 .. n : at[k] \in Ids => e2[at[k]].next = e[at[k]].next
  BY <1>0
<1>3. ASSUME NEW k \in 2 .. n PROVE at[k] = After(e2, at[k - 1])
  <2>1. k - 1 \in 1 .. n
    OBVIOUS
  <2>2. at[k] = After(e, at[k - 1])
    BY <1>1
  <2>3. at[k - 1] \in Ids => e2[at[k - 1]].next = e[at[k - 1]].next
    BY <2>1, <1>2
  <2> QED
    BY <2>2, <2>3 DEF After
<1>4. Follows(e2, rec, n, at)
  BY <1>1, <1>3 DEF Follows
<1>5. EntriesOf(e2, rec, n) = at
  BY <1>4, EntriesUnique
<1> QED
  BY <1>0, <1>5

\* The entries of a chain are those the repair reads.
LEMMA ChainIsRead ==
    ASSUME NEW e, NEW count \in 1 .. MaxEntries, NEW r, NEW n \in Nat, n >= 1, NEW at, Chain(e, count, r, n, at)
    PROVE  EntriesOf(e, r, n) = at
<1>1. at = [k \in 1 .. n |-> at[k]] /\ at[1] = r
  BY DEF Chain
<1>2. ASSUME NEW k \in 2 .. n PROVE at[k] = After(e, at[k - 1])
  <2>1. k - 1 \in 1 .. n /\ k - 1 # n /\ k - 1 + 1 = k
    OBVIOUS
  <2>2. at[k - 1] \in 1 .. count - 1 /\ e[at[k - 1]].next = at[k]
    BY <2>1 DEF Chain
  <2>3. at[k - 1] \in Ids
    BY <2>2, VarStoreAssumption DEF Ids
  <2> QED
    BY <2>2, <2>3 DEF After
<1>3. Follows(e, r, n, at)
  BY <1>1, <1>2 DEF Follows
<1> QED
  BY <1>3, EntriesUnique

LEMMA MinIs == ASSUME NEW S \in SUBSET Nat, S # {} PROVE Min(S) \in S /\ \A y \in S : Min(S) <= y
<1>1. \E m \in S : \A k \in S : m <= k
  BY Least
<1> QED
  BY <1>1 DEF Min

LEMMA MaxIs == ASSUME NEW S \in SUBSET Ids, S # {} PROVE Max(S) \in S /\ \A y \in S : Max(S) >= y
<1>1. \A x \in S : x \in Nat /\ MaxEntries - x \in Nat
  BY VarStoreAssumption DEF Ids
<1> DEFINE T == {MaxEntries - x : x \in S}
<1>2. T # {} /\ T \in SUBSET Nat
  BY <1>1
<1>3. PICK m \in T : \A k \in T : m <= k
  BY <1>2, Least
<1>4. PICK x \in S : m = MaxEntries - x
  BY <1>3
<1>5. ASSUME NEW y \in S PROVE x >= y
  <2>1. m <= MaxEntries - y
    BY <1>3
  <2> QED
    BY <2>1, <1>1, <1>4, VarStoreAssumption
<1> QED
  BY <1>4, <1>5 DEF Max

-----------------------------------------------------------------------------
(* The steps of the repair. *)

LEMMA FileIs ==
    ASSUME RInv
    PROVE  /\ file \in [e : [Ids -> Entry], row : [Fields -> Value], count : 1 .. MaxEntries]
           /\ file.e \in [Ids -> Entry] /\ file.row \in [Fields -> Value] /\ file.count \in 1 .. MaxEntries
           /\ check \in [used : SUBSET Ids, done : SUBSET Fields]
           /\ since \in [calls : 0 .. MaxCalls, evicted : 0 .. MaxEvictions]
           /\ durable \subseteq Fields
           /\ \A x \in 0 .. file.count - 1 : x \in Ids
<1>1. /\ file \in [e : [Ids -> Entry], row : [Fields -> Value], count : 1 .. MaxEntries]
      /\ check \in [used : SUBSET Ids, done : SUBSET Fields]
      /\ since \in [calls : 0 .. MaxCalls, evicted : 0 .. MaxEvictions]
      /\ durable \subseteq Fields
  BY DEF RInv, TableTypeOK
<1>2. \A x \in 0 .. file.count - 1 : x \in Ids
  BY <1>1, VarStoreAssumption DEF Ids
<1> QED
  BY <1>1, <1>2

\* A step of the repair has to keep what is known of the files only.
LEMMA RepairStep ==
    ASSUME RInv, UNCHANGED <<Memory, since, durable>>,
           file' \in [e : [Ids -> Entry], row : [Fields -> Value], count : 1 .. MaxEntries],
           check' \in [used : SUBSET Ids, done : SUBSET Fields],
           stage' \in {"check", "concluded", "repaired"}, Checked',
           \A f \in durable : file'.row[f] # Null =>
              /\ file.row[f] = file'.row[f]
              /\ \A at : Chain(file.e, file.count, file.row[f].rec, file.row[f].size, at)
                         /\ Alone(file.e, file.count, file.row[f].size, at)
                     => /\ Chain(file'.e, file'.count, file.row[f].rec, file.row[f].size, at)
                        /\ Alone(file'.e, file'.count, file.row[f].size, at)
    PROVE  RInv'
<1>1. UNCHANGED <<vars, table>> /\ since' = since /\ durable' = durable
  BY DEF Memory
<1>2. /\ IInv' /\ OneCall' /\ HeldWhole' /\ Counted'
      /\ TypeOK' /\ row' \in [Fields -> Value] /\ new' \in OfField /\ value' \in OfField
  BY <1>1, MemorySame
<1>3. TableTypeOK'
  BY <1>1, <1>2, FileIs DEF TableTypeOK
<1>4. stage' # "open"
  OBVIOUS
<1>5. ASSUME NEW f \in durable, file'.row[f] # Null
      PROVE  \E at \in [1 .. file'.row[f].size -> 1 .. file'.count - 1] : FiledAt(f, at)'
  <2>1. /\ file.row[f] = file'.row[f]
        /\ \A at : Chain(file.e, file.count, file.row[f].rec, file.row[f].size, at)
                   /\ Alone(file.e, file.count, file.row[f].size, at)
               => /\ Chain(file'.e, file'.count, file.row[f].rec, file.row[f].size, at)
                  /\ Alone(file'.e, file'.count, file.row[f].size, at)
    BY <1>5
  <2>2. PICK at \in [1 .. file.row[f].size -> 1 .. file.count - 1] : FiledAt(f, at)
    BY <2>1, <1>5 DEF RInv, Filed
  <2>3. /\ Chain(file'.e, file'.count, file.row[f].rec, file.row[f].size, at)
        /\ Alone(file'.e, file'.count, file.row[f].size, at)
    BY <2>1, <2>2 DEF FiledAt
  <2>4. at \in [1 .. file'.row[f].size -> 1 .. file'.count - 1]
    BY <2>1, <2>3 DEF Chain
  <2>5. FiledAt(f, at)'
    BY <2>1, <2>3, <1>4 DEF FiledAt
  <2> QED
    BY <2>4, <2>5
<1>6. Filed'
  BY <1>1, <1>4, <1>5 DEF Filed
<1> QED
  BY <1>2, <1>3, <1>6 DEF RInv

\* A chain is the same where its entries are the same.
LEMMA ChainAlike ==
    ASSUME NEW e, NEW e2, NEW count, NEW rec, NEW n, NEW at, Chain(e, count, rec, n, at),
           \A k \in 1 .. n : e2[at[k]] = e[at[k]]
    PROVE  Chain(e2, count, rec, n, at)
<1>1. at \in [1 .. n -> 1 .. count - 1] /\ at[1] = rec
  BY DEF Chain
<1>2. ASSUME NEW k \in 1 .. n
      PROVE  /\ ~e2[at[k]].deleted /\ (e2[at[k]].first <=> k = 1)
             /\ e2[at[k]].next = IF k = n THEN Last ELSE at[k + 1]
             /\ IF k = 1 THEN e2[at[k]].prev >= 1 ELSE e2[at[k]].prev = at[k - 1]
  <2>1. /\ ~e[at[k]].deleted /\ (e[at[k]].first <=> k = 1)
        /\ e[at[k]].next = IF k = n THEN Last ELSE at[k + 1]
        /\ IF k = 1 THEN e[at[k]].prev >= 1 ELSE e[at[k]].prev = at[k - 1]
    BY DEF Chain
  <2>2. e2[at[k]] = e[at[k]]
    OBVIOUS
  <2> QED
    BY <2>1, <2>2
<1> QED
  BY <1>1, <1>2 DEF Chain

LEMMA StartRepairHolds == RInv /\ StartRepair => RInv'
<1> SUFFICES ASSUME RInv, StartRepair PROVE RInv'
  OBVIOUS
<1>1. /\ stage = "down" /\ stage' = "check" /\ UNCHANGED <<Memory, since, durable>> /\ check' = check
      /\ file' = [file EXCEPT !.e = [id \in Ids |-> IF id < file.count THEN @[id] ELSE NoEntry]]
  BY DEF StartRepair
<1>2. check = Unused /\ check.used = {0} /\ check.done = {}
  BY <1>1 DEF RInv, Checked, Unused
<1>3. NoEntry \in Entry
  BY VarStoreAssumption DEF NoEntry, Entry
<1>4. /\ file'.row = file.row /\ file'.count = file.count
      /\ file'.e = [id \in Ids |-> IF id < file.count THEN file.e[id] ELSE NoEntry]
      /\ file' \in [e : [Ids -> Entry], row : [Fields -> Value], count : 1 .. MaxEntries]
  BY <1>1, <1>3, FileIs
<1>5. \A x \in 0 .. file.count - 1 : file'.e[x] = file.e[x]
  BY <1>4, FileIs
<1>6. Checked'
  <2>1. Marked' = {} /\ check'.used = {0} /\ check'.done = {}
    BY <1>1, <1>2 DEF Marked
  <2>2. 0 \in 0 .. file'.count - 1
    BY <1>4, FileIs
  <2>3. UNION {EntriesOfField(f)' : f \in {}} = {}
    OBVIOUS
  <2>4. check'.used = {0} \cup UNION {EntriesOfField(f)' : f \in Marked'}
    BY <2>1
  <2> QED
    BY <2>1, <2>2, <2>4, <1>1 DEF Checked
<1>7. ASSUME NEW f \in durable, NEW at,
             Chain(file.e, file.count, file.row[f].rec, file.row[f].size, at),
             Alone(file.e, file.count, file.row[f].size, at)
      PROVE  /\ Chain(file'.e, file'.count, file.row[f].rec, file.row[f].size, at)
             /\ Alone(file'.e, file'.count, file.row[f].size, at)
  <2>1. \A k \in 1 .. file.row[f].size : file'.e[at[k]] = file.e[at[k]]
    <3>1. \A k \in 1 .. file.row[f].size : at[k] \in 0 .. file.count - 1
      BY <1>7, FileIs DEF Chain
    <3> QED
      BY <3>1, <1>5
  <2>2. Chain(file'.e, file'.count, file.row[f].rec, file.row[f].size, at)
    <3> DEFINE e2 == file'.e
               n  == file.row[f].size
    <3>1. Chain(file.e, file.count, file.row[f].rec, n, at) /\ \A k \in 1 .. n : e2[at[k]] = file.e[at[k]]
      BY <2>1, <1>7
    <3> HIDE DEF e2, n
    <3>2. Chain(e2, file.count, file.row[f].rec, n, at)
      BY <3>1, ChainAlike
    <3> QED
      BY <3>2, <1>4 DEF e2, n
  <2>3. Alone(file'.e, file'.count, file.row[f].size, at)
    BY <1>4, <1>5, <1>7 DEF Alone
  <2> QED
    BY <2>2, <2>3
<1> QED
  BY <1>1, <1>4, <1>6, <1>7, FileIs, RepairStep

\* A field is read again while its row and the entries stay.
LEMMA FieldSame ==
    ASSUME NEW f, file'.e = file.e, file'.row[f] = file.row[f]
    PROVE  Taken(f)' = Taken(f) /\ EntriesOfField(f)' = EntriesOfField(f) /\ (Verified(f) => Verified(f)')
<1>1. Taken(f)' = Taken(f) /\ EntriesOfField(f)' = EntriesOfField(f)
  BY DEF Taken, EntriesOfField
<1>2. ASSUME Verified(f) PROVE Verified(f)'
  BY <1>1, <1>2 DEF Verified, is_entry_valid
<1> QED
  BY <1>1, <1>2

\* What the repair reads of a field.
LEMMA TakenIs ==
    ASSUME RInv, NEW f \in Fields, file.row[f] # Null
    PROVE  /\ file.row[f] \in [rec : Ids, size : 1 .. MaxGrow] /\ file.row[f].size \in Nat /\ file.row[f].size >= 1
           /\ DOMAIN Taken(f) = 1 .. file.row[f].size /\ Taken(f)[1] = file.row[f].rec
           /\ EntriesOfField(f) = {Taken(f)[k] : k \in 1 .. file.row[f].size}
           /\ \A k \in 1 .. file.row[f].size : Taken(f)[k] \in 0 .. MaxEntries
           /\ \A k \in 2 .. file.row[f].size : Taken(f)[k] = After(file.e, Taken(f)[k - 1])
<1>1. file.row[f] \in [rec : Ids, size : 1 .. MaxGrow] /\ file.row[f].size \in Nat /\ file.row[f].size >= 1
      /\ file.row[f].rec \in Ids
  <2>1. file.row[f] \in Value
    BY FileIs
  <2> QED
    BY <2>1, ValueIs, VarStoreAssumption
<1>2. DOMAIN Taken(f) = 1 .. file.row[f].size /\ Taken(f)[1] = file.row[f].rec
      /\ \A k \in 2 .. file.row[f].size : Taken(f)[k] = After(file.e, Taken(f)[k - 1])
  BY <1>1, EntriesAre DEF Taken
<1>3. \A k \in 1 .. file.row[f].size : Taken(f)[k] \in 0 .. MaxEntries
  BY <1>1, FileIs, EntriesTypes DEF Taken
<1>4. EntriesOfField(f) = Range(Taken(f))
  BY DEF EntriesOfField, Taken
<1>5. EntriesOfField(f) = {Taken(f)[k] : k \in 1 .. file.row[f].size}
  BY <1>2, <1>4 DEF Range
<1> QED
  BY <1>1, <1>2, <1>3, <1>5

LEMMA CheckFieldHolds ==
    ASSUME RInv, NEW f \in Fields, NEW wellFormed \in BOOLEAN, CheckField(f, wellFormed)
    PROVE  RInv'
<1> DEFINE val == file.row[f]
           at  == Taken(f)
<1>1. /\ stage = "check" /\ stage' = "check" /\ UNCHANGED <<Memory, since, durable>>
      /\ f \notin check.done /\ \A g \in Fields : g < f => g \in check.done
  BY DEF CheckField
<1>2. /\ file \in [e : [Ids -> Entry], row : [Fields -> Value], count : 1 .. MaxEntries]
      /\ check \in [used : SUBSET Ids, done : SUBSET Fields]
      /\ file.count \in 1 .. MaxEntries /\ Fields \subseteq Nat
  BY FileIs, FieldsFinite
<1>3. /\ check.used = {0} \cup UNION {EntriesOfField(g) : g \in Marked}
      /\ check.used \subseteq 0 .. file.count - 1
      /\ \A g \in Marked :
          /\ 0 \notin EntriesOfField(g)
          /\ \A h \in Marked : g # h => EntriesOfField(g) \cap EntriesOfField(h) = {}
          /\ Verified(g)
      /\ \A g \in check.done, h \in Fields : h < g => h \in check.done
  BY <1>1 DEF RInv, Checked, Checking
<1>4. check'.done = check.done \cup {f} => \A g \in check'.done, h \in Fields : h < g => h \in check'.done
  BY <1>1, <1>3
<1>5. f \notin Marked
  BY <1>1 DEF Marked
<1>6. CASE file' = file /\ check' = [check EXCEPT !.done = @ \cup {f}] /\ val = Null
  <2>1. check'.used = check.used /\ check'.done = check.done \cup {f}
        /\ check' \in [used : SUBSET Ids, done : SUBSET Fields]
    BY <1>2, <1>6
  <2>2. Marked' = Marked
    BY <1>6, <2>1 DEF Marked
  <2>3. \A g : EntriesOfField(g)' = EntriesOfField(g) /\ (Verified(g) => Verified(g)')
    BY <1>6, FieldSame
  <2>4. UNION {EntriesOfField(g) : g \in Marked}' = UNION {EntriesOfField(g) : g \in Marked}
    BY <2>2, <2>3
  <2>5. Checked'
    BY <1>1, <1>3, <1>4, <1>6, <2>1, <2>2, <2>3, <2>4 DEF Checked, Checking
  <2> QED
    BY <1>1, <1>2, <1>6, <2>1, <2>5, RepairStep
<1>7. CASE file' = [file EXCEPT !.row[f] = Null] /\ check' = [check EXCEPT !.done = @ \cup {f}]
  <2>1. check'.used = check.used /\ check'.done = check.done \cup {f}
        /\ check' \in [used : SUBSET Ids, done : SUBSET Fields]
    BY <1>2, <1>7
  <2>2. file'.e = file.e /\ file'.count = file.count /\ file'.row[f] = Null
        /\ \A g \in Fields : g # f => file'.row[g] = file.row[g]
    BY <1>2, <1>7
  <2>3. Marked' = Marked
    <3>1. \A g \in check.done : g \in Fields /\ g # f
      BY <1>1, <1>2
    <3> QED
      BY <2>1, <2>2, <3>1 DEF Marked
  <2>4. \A g \in Marked : g \in Fields /\ g # f
    BY <1>2, <1>5 DEF Marked
  <2>5. \A g \in Marked : EntriesOfField(g)' = EntriesOfField(g) /\ (Verified(g) => Verified(g)')
    BY <2>2, <2>4, FieldSame
  <2>6. UNION {EntriesOfField(g) : g \in Marked}' = UNION {EntriesOfField(g) : g \in Marked}
    BY <2>3, <2>5
  <2>7. Checked'
    BY <1>1, <1>3, <1>4, <2>1, <2>2, <2>3, <2>5, <2>6 DEF Checked, Checking
  <2>8. file' \in [e : [Ids -> Entry], row : [Fields -> Value], count : 1 .. MaxEntries]
    <3>1. Null \in Value
      BY DEF Value
    <3> QED
      BY <1>2, <1>7, <3>1
  <2>9. \A g \in durable : file'.row[g] # Null => file'.row[g] = file.row[g]
    BY <2>2, FileIs
  <2> QED
    BY <1>1, <2>1, <2>2, <2>7, <2>8, <2>9, RepairStep
<1>8. CASE /\ file' = file /\ val # Null
           /\ check' = [used |-> check.used \cup Range(at), done |-> check.done \cup {f}]
           /\ IF f \in Arrays THEN CheckArrayEntry(at, val.size) ELSE CheckTextEntry(at, val.size)
  <2>1. check'.used = check.used \cup EntriesOfField(f) /\ check'.done = check.done \cup {f}
    BY <1>8 DEF EntriesOfField, Taken
  <2>2. /\ val.size \in Nat /\ val.size >= 1
        /\ EntriesOfField(f) = {at[k] : k \in 1 .. val.size}
        /\ \A k \in 1 .. val.size : at[k] \in 0 .. MaxEntries
    BY <1>8, TakenIs
  <2>3. Readable(at, val.size) /\ is_entry_valid(at, 1, val.size)
        /\ (f \in Arrays => \A k \in 1 .. val.size : is_entry_valid(at, k, val.size))
    <3>1. CASE f \in Arrays
      <4>1. 1 \in 1 .. val.size
        BY <2>2
      <4> QED
        BY <3>1, <4>1, <1>8 DEF CheckArrayEntry
    <3>2. CASE f \notin Arrays
      BY <3>2, <1>8 DEF CheckTextEntry
    <3> QED
      BY <3>1, <3>2
  <2>4. Verified(f)
    BY <2>3 DEF Verified, Readable
  <2>5. \A k \in 1 .. val.size : at[k] \in 0 .. file.count - 1 /\ at[k] \notin check.used
    BY <2>2, <2>3, <1>2 DEF Readable
  <2>6. /\ EntriesOfField(f) \subseteq 0 .. file.count - 1 /\ EntriesOfField(f) \cap check.used = {}
    BY <2>2, <2>5
  <2>7. 0 \notin EntriesOfField(f) /\ \A g \in Marked : EntriesOfField(g) \cap EntriesOfField(f) = {}
    BY <2>6, <1>3
  <2>8. Marked' = Marked \cup {f}
    BY <1>8, <2>1 DEF Marked
  <2>9. \A g : EntriesOfField(g)' = EntriesOfField(g) /\ (Verified(g) => Verified(g)')
    BY <1>8, FieldSame
  <2>10. check'.used = {0} \cup UNION {EntriesOfField(g) : g \in Marked}'
    <3>1. UNION {EntriesOfField(g) : g \in Marked}' = UNION {EntriesOfField(g) : g \in Marked \cup {f}}
      BY <2>8, <2>9
    <3>2. UNION {EntriesOfField(g) : g \in Marked \cup {f}} = EntriesOfField(f) \cup UNION {EntriesOfField(g) : g \in Marked}
      OBVIOUS
    <3> QED
      BY <3>1, <3>2, <2>1, <1>3
  <2>11. check'.used \subseteq 0 .. file'.count - 1
    BY <2>1, <2>6, <1>3, <1>8
  <2>12. ASSUME NEW g \in Marked'
         PROVE  /\ 0 \notin EntriesOfField(g)'
                /\ \A h \in Marked' : g # h => EntriesOfField(g)' \cap EntriesOfField(h)' = {}
                /\ Verified(g)'
    BY <1>3, <2>4, <2>7, <2>8, <2>9
  <2>13. Checked'
    BY <1>1, <1>4, <2>1, <2>10, <2>11, <2>12 DEF Checked, Checking
  <2>14. check' \in [used : SUBSET Ids, done : SUBSET Fields]
    <3>1. EntriesOfField(f) \subseteq Ids
      BY <2>6, FileIs
    <3> QED
      BY <1>2, <1>8, <3>1, <2>1
  <2> QED
    BY <1>1, <1>2, <1>8, <2>13, <2>14, RepairStep
<1>9. \/ file' = file /\ check' = [check EXCEPT !.done = @ \cup {f}] /\ val = Null
      \/ file' = [file EXCEPT !.row[f] = Null] /\ check' = [check EXCEPT !.done = @ \cup {f}]
      \/ /\ file' = file /\ val # Null
         /\ check' = [used |-> check.used \cup Range(at), done |-> check.done \cup {f}]
         /\ IF f \in Arrays THEN CheckArrayEntry(at, val.size) ELSE CheckTextEntry(at, val.size)
  BY DEF CheckField, Taken
<1> QED
  BY <1>6, <1>7, <1>8, <1>9

-----------------------------------------------------------------------------
(* The new free list. *)

FreeOf(used, n) == {0} \cup ((1 .. n - 1) \ used)

LEMMA RelinkedIs ==
    ASSUME file.e \in [Ids -> Entry], NEW used, NEW n \in 1 .. MaxEntries, NEW r, r = Relinked(used, n),
           NEW free, free = FreeOf(used, n)
    PROVE  /\ r \in [Ids -> Entry] /\ free \subseteq 0 .. n - 1 /\ free \subseteq Ids /\ 0 \in free
           /\ \A id \in Ids : id >= n => r[id] = NoEntry
           /\ \A id \in Ids : id < n /\ id \notin free => r[id] = file.e[id]
           /\ \A id \in free :
                /\ r[id].deleted /\ ~r[id].first
                /\ (\A x \in free : x <= id) => r[id].next = Last
                /\ \A y \in free : y > id => r[id].next \in free /\ r[id].next > id /\ r[id].next <= y
                /\ id = 0 => r[id].prev = 0
                /\ id # 0 => r[id].prev \in free /\ r[id].prev < id /\ \A y \in free : y < id => y <= r[id].prev
<1> DEFINE before(id) == {x \in free : x < id}
           behind(id) == {x \in free : x > id}
           prev(id) == IF before(id) = {} THEN 0 ELSE Max(before(id))
           next(id) == IF behind(id) = {} THEN Last ELSE Min(behind(id))
<1>1. r = [id \in Ids |-> IF id >= n THEN NoEntry
                          ELSE IF id \in free THEN FreeEntry(prev(id), next(id)) ELSE file.e[id]]
  BY DEF Relinked, FreeOf
<1>2. free \subseteq 0 .. n - 1 /\ 0 \in free
  BY DEF FreeOf
<1>3. free \subseteq Ids /\ free \subseteq Nat /\ \A id \in free : id \in Ids /\ id < n
  BY <1>2, VarStoreAssumption DEF Ids
<1>4. ASSUME NEW id \in free
      PROVE  /\ (\A x \in free : x <= id) => next(id) = Last
             /\ \A y \in free : y > id => next(id) \in free /\ next(id) > id /\ next(id) <= y
             /\ id = 0 => prev(id) = 0
             /\ id # 0 => prev(id) \in free /\ prev(id) < id /\ \A y \in free : y < id => y <= prev(id)
             /\ prev(id) \in Nat /\ next(id) \in 0 .. MaxEntries
  <2>1. behind(id) \in SUBSET Nat /\ before(id) \in SUBSET Ids
    BY <1>3
  <2>2. behind(id) # {} => Min(behind(id)) \in behind(id) /\ \A y \in behind(id) : Min(behind(id)) <= y
    BY <2>1, MinIs
  <2>3. before(id) # {} => Max(before(id)) \in before(id) /\ \A y \in before(id) : Max(before(id)) >= y
    BY <2>1, MaxIs
  <2>4. (\A x \in free : x <= id) => next(id) = Last
    <3>1. ASSUME \A x \in free : x <= id PROVE behind(id) = {}
      BY <3>1, <1>3
    <3> HIDE DEF behind
    <3> QED
      BY <3>1
  <2>5. ASSUME NEW y \in free, y > id
        PROVE  next(id) \in free /\ next(id) > id /\ next(id) <= y
    <3>1. y \in behind(id)
      BY <2>5
    <3>2. next(id) = Min(behind(id)) /\ next(id) \in behind(id) /\ next(id) <= y
      <4> HIDE DEF behind
      <4> QED
        BY <3>1, <2>2
    <3> QED
      BY <3>2
  <2>6. id = 0 => prev(id) = 0
    <3>1. ASSUME id = 0 PROVE before(id) = {}
      BY <3>1, <1>3
    <3> HIDE DEF before
    <3> QED
      BY <3>1
  <2>7. ASSUME id # 0
        PROVE  prev(id) \in free /\ prev(id) < id /\ \A y \in free : y < id => y <= prev(id)
    <3>1. 0 \in before(id)
      BY <2>7, <1>2, <1>3
    <3>2. prev(id) = Max(before(id)) /\ prev(id) \in before(id) /\ \A y \in before(id) : prev(id) >= y
      <4> HIDE DEF before
      <4> QED
        BY <3>1, <2>3
    <3>3. prev(id) \in free /\ prev(id) < id
      BY <3>2
    <3>4. ASSUME NEW y \in free, y < id PROVE y <= prev(id)
      <4>1. y \in before(id)
        BY <3>4
      <4>2. prev(id) >= y
        BY <3>2, <4>1
      <4> HIDE DEF prev
      <4> QED
        BY <4>2, <3>3, <1>3
    <3> QED
      BY <3>3, <3>4
  <2>8. prev(id) \in Nat
    <3> HIDE DEF prev
    <3> QED
      BY <2>6, <2>7, <1>3
  <2>9. next(id) \in 0 .. MaxEntries
    <3>1. CASE behind(id) = {}
      <4>1. next(id) = Last
        BY <3>1
      <4> QED
        BY <4>1, VarStoreAssumption DEF Last
    <3>2. CASE behind(id) # {}
      <4>1. next(id) \in behind(id)
        <5> HIDE DEF behind
        <5> QED
          BY <3>2, <2>2
      <4>2. next(id) \in Ids
        BY <4>1, <1>3
      <4> HIDE DEF next
      <4> QED
        BY <4>2, VarStoreAssumption DEF Ids
    <3> QED
      BY <3>1, <3>2
  <2> HIDE DEF prev, next
  <2> QED
    BY <2>4, <2>5, <2>6, <2>7, <2>8, <2>9
<1> HIDE DEF prev, next
<1>5. \A id \in free : r[id] = FreeEntry(prev(id), next(id))
  BY <1>1, <1>3, VarStoreAssumption
<1>6. ASSUME NEW id \in free
      PROVE  r[id].deleted /\ ~r[id].first /\ r[id].prev = prev(id) /\ r[id].next = next(id)
  <2>1. PICK p, q : p = prev(id) /\ q = next(id)
    OBVIOUS
  <2>2. r[id] = FreeEntry(p, q)
    BY <1>5, <2>1
  <2> QED
    BY <2>1, <2>2 DEF FreeEntry
<1>7. r \in [Ids -> Entry]
  <2>1. ASSUME NEW id \in Ids
        PROVE  (IF id >= n THEN NoEntry
                ELSE IF id \in free THEN FreeEntry(prev(id), next(id)) ELSE file.e[id]) \in Entry
    <3>1. NoEntry \in Entry
      BY VarStoreAssumption DEF NoEntry, Entry
    <3>2. id \in free => FreeEntry(prev(id), next(id)) \in Entry
      BY <1>4 DEF FreeEntry, Entry
    <3> QED
      BY <3>1, <3>2
  <2> QED
    BY <2>1, <1>1
<1>8. /\ \A id \in Ids : id >= n => r[id] = NoEntry
      /\ \A id \in Ids : id < n /\ id \notin free => r[id] = file.e[id]
  <2>1. \A id \in Ids : id < n => ~(id >= n)
    BY DEF Ids
  <2> QED
    BY <1>1, <2>1
<1> QED
  BY <1>2, <1>3, <1>4, <1>6, <1>7, <1>8

\* The neighbours of a free entry in the new list name it.
LEMMA RelinkedBoth ==
    ASSUME file.e \in [Ids -> Entry], NEW used, NEW n \in 1 .. MaxEntries, NEW r, r = Relinked(used, n),
           NEW id \in FreeOf(used, n)
    PROVE  /\ id # 0 => r[id].prev \in FreeOf(used, n) /\ r[r[id].prev].next = id
           /\ r[id].next # Last => r[id].next \in FreeOf(used, n) /\ r[id].next # 0 /\ r[r[id].next].prev = id
<1> DEFINE free == FreeOf(used, n)
<1>1. /\ free \subseteq 0 .. n - 1
      /\ \A x \in free :
           /\ (\A y \in free : y <= x) => r[x].next = Last
           /\ \A y \in free : y > x => r[x].next \in free /\ r[x].next > x /\ r[x].next <= y
           /\ x # 0 => r[x].prev \in free /\ r[x].prev < x /\ \A y \in free : y < x => y <= r[x].prev
  BY RelinkedIs
<1>2. id \in free /\ \A x \in free : x \in Nat
  BY <1>1
<1> HIDE DEF free
<1>3. ASSUME id # 0 PROVE r[id].prev \in free /\ r[r[id].prev].next = id
  <2>1. PICK p : p = r[id].prev
    OBVIOUS
  <2>2. p \in free /\ p < id /\ \A y \in free : y < id => y <= p
    BY <1>1, <1>2, <1>3, <2>1
  <2>3. PICK q : q = r[p].next
    OBVIOUS
  <2>4. q \in free /\ q > p /\ q <= id
    BY <1>1, <1>2, <2>2, <2>3
  <2>5. ~(q < id)
    BY <2>2, <2>4, <1>2
  <2>6. q = id
    BY <2>4, <2>5, <1>2
  <2> QED
    BY <2>1, <2>2, <2>3, <2>6
<1>4. ASSUME r[id].next # Last PROVE r[id].next \in free /\ r[id].next # 0 /\ r[r[id].next].prev = id
  <2>1. PICK y \in free : ~(y <= id)
    BY <1>1, <1>2, <1>4
  <2>2. PICK p : p = r[id].next
    OBVIOUS
  <2>3. p \in free /\ p > id
    BY <1>1, <1>2, <2>1, <2>2
  <2>4. p # 0
    BY <2>3, <1>2
  <2>5. PICK q : q = r[p].prev
    OBVIOUS
  <2>6. q \in free /\ q < p /\ \A z \in free : z < p => z <= q
    BY <1>1, <2>3, <2>4, <2>5
  <2>7. id <= q
    BY <2>6, <2>3, <1>2
  <2>8. ~(q > id)
    <3>1. ASSUME q > id PROVE FALSE
      <4>1. p <= q
        BY <3>1, <2>2, <2>6, <1>1, <1>2
      <4> QED
        BY <4>1, <2>6, <2>3, <1>2
    <3> QED
      BY <3>1
  <2>9. q = id
    BY <2>6, <2>7, <2>8, <1>2
  <2> QED
    BY <2>2, <2>3, <2>4, <2>5, <2>9
<1> QED
  BY <1>3, <1>4 DEF free

LEMMA UsedIs ==
    ASSUME RInv, Checking
    PROVE  /\ check.used \subseteq 0 .. file.count - 1 /\ check.used \subseteq Ids /\ 0 \in check.used
           /\ Max(check.used) \in check.used /\ Max(check.used) \in 0 .. file.count - 1
           /\ \A x \in check.used : x \in 0 .. Max(check.used)
           /\ Max(check.used) + 1 \in 1 .. MaxEntries
           /\ \A f \in Marked : /\ f \in Fields /\ file.row[f] # Null /\ Verified(f) /\ EntriesOfField(f) \subseteq check.used \ {0}
                                /\ \A k \in 1 .. file.row[f].size : Taken(f)[k] \in check.used \ {0}
           /\ \A f, g \in Marked : f # g => EntriesOfField(f) \cap EntriesOfField(g) = {}
<1>1. /\ check.used = {0} \cup UNION {EntriesOfField(g) : g \in Marked}
      /\ check.used \subseteq 0 .. file.count - 1
      /\ \A g \in Marked :
          /\ 0 \notin EntriesOfField(g)
          /\ \A h \in Marked : g # h => EntriesOfField(g) \cap EntriesOfField(h) = {}
          /\ Verified(g)
  BY DEF RInv, Checked
<1>2. check.used \in SUBSET Ids /\ check.used # {} /\ 0 \in check.used /\ file.count \in 1 .. MaxEntries
  BY <1>1, FileIs
<1>3. PICK m : m = Max(check.used)
  OBVIOUS
<1>4. m \in check.used /\ \A y \in check.used : m >= y
  BY <1>2, <1>3, MaxIs
<1>5. m \in 0 .. file.count - 1 /\ m + 1 \in 1 .. MaxEntries
  <2>1. m \in 0 .. file.count - 1
    BY <1>1, <1>4
  <2> QED
    BY <2>1, <1>2, VarStoreAssumption
<1>6. \A x \in check.used : x \in 0 .. m
  BY <1>1, <1>4, <1>5
<1>7. ASSUME NEW f \in Marked
      PROVE  /\ f \in Fields /\ file.row[f] # Null /\ Verified(f) /\ EntriesOfField(f) \subseteq check.used \ {0}
             /\ \A k \in 1 .. file.row[f].size : Taken(f)[k] \in check.used \ {0}
  <2>1. f \in Fields /\ file.row[f] # Null
    BY FileIs DEF Marked
  <2>2. EntriesOfField(f) \subseteq check.used \ {0}
    BY <1>1
  <2>3. EntriesOfField(f) = {Taken(f)[k] : k \in 1 .. file.row[f].size}
    BY <2>1, TakenIs
  <2> QED
    BY <1>1, <2>1, <2>2, <2>3
<1>8. \A f, g \in Marked : f # g => EntriesOfField(f) \cap EntriesOfField(g) = {}
  BY <1>1
<1> QED
  BY <1>1, <1>2, <1>3, <1>4, <1>5, <1>6, <1>7, <1>8

\* A value that was flushed is read as it was written, whenever it passes.
LEMMA DurableIsRead ==
    ASSUME RInv, NEW f \in durable, file.row[f] # Null, NEW at,
           Chain(file.e, file.count, file.row[f].rec, file.row[f].size, at)
    PROVE  at = Taken(f)
<1>1. f \in Fields /\ file.count \in 1 .. MaxEntries
  BY FileIs
<1>2. file.row[f].size \in Nat /\ file.row[f].size >= 1
  BY <1>1, TakenIs
<1> QED
  BY <1>1, <1>2, ChainIsRead DEF Taken

LEMMA ConcludeHolds == RInv /\ ConcludeStorageCheck => RInv'
<1> SUFFICES ASSUME RInv, ConcludeStorageCheck PROVE RInv'
  OBVIOUS
<1>1. PICK n : n = Max(check.used) + 1
  OBVIOUS
<1>2. /\ stage = "check" /\ check.done = Fields /\ stage' = "concluded" /\ check' = check
      /\ UNCHANGED <<Memory, since, durable>>
      /\ file' = [file EXCEPT !.e = Relinked(check.used, n)]
  BY <1>1 DEF ConcludeStorageCheck
<1>3. Checking
  BY <1>2 DEF Checking
<1>4. PICK free : free = FreeOf(check.used, n)
  OBVIOUS
<1>5. n \in 1 .. MaxEntries /\ n - 1 \in 0 .. file.count - 1 /\ \A x \in check.used : x \in Ids /\ x < n
  <2>1. PICK m : m = Max(check.used)
    OBVIOUS
  <2>2. m + 1 \in 1 .. MaxEntries /\ m \in 0 .. file.count - 1 /\ \A x \in check.used : x \in Ids /\ x \in 0 .. m
    BY <2>1, <1>3, UsedIs
  <2>3. n = m + 1
    BY <1>1, <2>1
  <2> QED
    BY <2>2, <2>3
<1>6. /\ file'.row = file.row /\ file'.count = file.count /\ file'.e = Relinked(check.used, n)
  BY <1>2, FileIs
<1>7. PICK r : r = Relinked(check.used, n)
  OBVIOUS
<1>8. /\ r \in [Ids -> Entry] /\ free \subseteq 0 .. n - 1 /\ free \subseteq Ids /\ 0 \in free
      /\ \A id \in Ids : id >= n => r[id] = NoEntry
      /\ \A id \in Ids : id < n /\ id \notin free => r[id] = file.e[id]
      /\ \A id \in free :
           /\ (\A x \in free : x <= id) => r[id].next = Last
           /\ \A y \in free : y > id => r[id].next \in free
  BY <1>4, <1>5, <1>7, FileIs, RelinkedIs
<1>9. ASSUME NEW x \in check.used \ {0} PROVE x \in Ids /\ x < n /\ x \notin free /\ r[x] = file.e[x]
  <2>1. x \in Ids /\ x < n
    BY <1>5
  <2>2. x \notin free
    BY <1>4 DEF FreeOf
  <2> QED
    BY <2>1, <2>2, <1>8
<1>10. file'.e = r
  BY <1>6, <1>7
<1>11. ASSUME NEW f \in Marked
       PROVE  Taken(f)' = Taken(f) /\ EntriesOfField(f)' = EntriesOfField(f) /\ Verified(f)'
  <2>1. /\ f \in Fields /\ file.row[f] # Null /\ Verified(f)
        /\ \A k \in 1 .. file.row[f].size : Taken(f)[k] \in check.used \ {0}
    BY <1>3, UsedIs
  <2>2. file.row[f].size \in Nat /\ file.row[f].size >= 1
    BY <2>1, TakenIs
  <2>3. \A k \in 1 .. file.row[f].size : r[Taken(f)[k]] = file.e[Taken(f)[k]]
    BY <2>1, <1>9
  <2>4. EntriesOf(r, file.row[f].rec, file.row[f].size) = EntriesOf(file.e, file.row[f].rec, file.row[f].size)
    BY <2>2, <2>3, EntriesSame DEF Taken
  <2>5. Taken(f)' = Taken(f) /\ EntriesOfField(f)' = EntriesOfField(f)
    BY <2>4, <1>6, <1>10 DEF Taken, EntriesOfField
  <2>6. \A k \in 1 .. file.row[f].size : is_entry_valid(Taken(f), k, file.row[f].size)' <=> is_entry_valid(Taken(f), k, file.row[f].size)
    BY <2>3, <2>5, <1>6, <1>10 DEF is_entry_valid
  <2>7. 1 \in 1 .. file.row[f].size
    BY <2>2
  <2>8. Verified(f)'
    BY <2>1, <2>3, <2>5, <2>6, <2>7, <1>6, <1>10 DEF Verified
  <2> QED
    BY <2>5, <2>8
<1>12. Marked' = Marked
  BY <1>2, <1>6 DEF Marked
<1>13. UNION {EntriesOfField(g) : g \in Marked}' = UNION {EntriesOfField(g) : g \in Marked}
  BY <1>11, <1>12
<1>14. r = Relinked(check.used, n)'
  <2> DEFINE before(id) == {x \in free : x < id}
             behind(id) == {x \in free : x > id}
             entry(id) == FreeEntry(IF before(id) = {} THEN 0 ELSE Max(before(id)),
                                    IF behind(id) = {} THEN Last ELSE Min(behind(id)))
             F(e) == [id \in Ids |-> IF id >= n THEN NoEntry ELSE IF id \in free THEN entry(id) ELSE e[id]]
  <2>1. r = F(file.e)
    BY <1>4, <1>7 DEF Relinked, FreeOf
  <2>2. Relinked(check.used, n)' = F(r)
    BY <1>2, <1>4, <1>10 DEF Relinked, FreeOf
  <2> HIDE DEF entry
  <2>3. r \in [Ids -> Entry]
    BY <1>8
  <2>4. F(r) = F(file.e)
    <3>1. \A id \in Ids : (IF id >= n THEN NoEntry ELSE IF id \in free THEN entry(id) ELSE r[id])
                        = (IF id >= n THEN NoEntry ELSE IF id \in free THEN entry(id) ELSE file.e[id])
      BY <2>1
    <3> QED
      BY <3>1
  <2> HIDE DEF F
  <2> QED
    BY <2>1, <2>2, <2>4
<1>15. Checked'
  <2>1. /\ check.used = {0} \cup UNION {EntriesOfField(g) : g \in Marked}
        /\ check.used \subseteq 0 .. file.count - 1
        /\ \A g \in Marked :
            /\ 0 \notin EntriesOfField(g)
            /\ \A h \in Marked : g # h => EntriesOfField(g) \cap EntriesOfField(h) = {}
        /\ \A g \in check.done, h \in Fields : h < g => h \in check.done
    BY <1>3 DEF RInv, Checked
  <2>2. file'.e = Relinked(check.used, Max(check.used) + 1)'
    BY <1>1, <1>2, <1>10, <1>14
  <2>3. check'.done = Fields /\ stage' = "concluded"
    BY <1>2
  <2>4. Checking'
    BY <1>2 DEF Checking
  <2>5. /\ check'.used = {0} \cup UNION {EntriesOfField(g) : g \in Marked}'
        /\ check'.used \subseteq 0 .. file'.count - 1
        /\ \A g \in check'.done, h \in Fields : h < g => h \in check'.done
    BY <2>1, <1>2, <1>6, <1>13
  <2>6. ASSUME NEW g \in Marked'
        PROVE  /\ 0 \notin EntriesOfField(g)'
               /\ \A h \in Marked' : g # h => EntriesOfField(g)' \cap EntriesOfField(h)' = {}
               /\ Verified(g)'
    BY <2>1, <1>11, <1>12
  <2> QED
    BY <2>2, <2>3, <2>4, <2>5, <2>6 DEF Checked
<1>16. ASSUME NEW f \in durable, file.row[f] # Null, NEW at,
              Chain(file.e, file.count, file.row[f].rec, file.row[f].size, at),
              Alone(file.e, file.count, file.row[f].size, at)
       PROVE  /\ Chain(file'.e, file'.count, file.row[f].rec, file.row[f].size, at)
              /\ Alone(file'.e, file'.count, file.row[f].size, at)
  <2>1. at = Taken(f) /\ f \in Marked
    BY <1>2, <1>16, DurableIsRead, FileIs DEF Marked
  <2>2. \A k \in 1 .. file.row[f].size : at[k] \in check.used \ {0}
    BY <2>1, <1>3, UsedIs
  <2>3. \A k \in 1 .. file.row[f].size : r[at[k]] = file.e[at[k]] /\ at[k] \notin free
    BY <2>2, <1>9
  <2>4. Chain(file'.e, file'.count, file.row[f].rec, file.row[f].size, at)
    BY SMTT(30), <2>3, <1>6, <1>10, <1>16 DEF Chain
  <2>5. ASSUME NEW y \in 0 .. file.count - 1, NEW k \in 1 .. file.row[f].size, r[y].next = at[k]
        PROVE  k > 1 /\ at[k - 1] = y
    <3>1. y \in Ids /\ y \in Nat /\ file.count \in 1 .. MaxEntries
      BY FileIs
    <3>2. at[k] \in 1 .. file.count - 1
      BY <1>16 DEF Chain
    <3>3. ~(y >= n)
      <4>1. ASSUME y >= n PROVE FALSE
        <5>1. r[y] = NoEntry
          BY <4>1, <3>1, <1>8
        <5>2. r[y].next = 0
          BY <5>1 DEF NoEntry
        <5> QED
          BY <5>2, <2>5, <3>2
      <4> QED
        BY <4>1
    <3>4. y \notin free
      <4>1. ASSUME y \in free PROVE FALSE
        <5>1. CASE \A x \in free : x <= y
          <6>1. r[y].next = Last
            BY <4>1, <5>1, <1>8
          <6> QED
            BY <6>1, <2>5, <3>1, <3>2, VarStoreAssumption DEF Last
        <5>2. CASE \E x \in free : ~(x <= y)
          <6>1. PICK x \in free : ~(x <= y)
            BY <5>2
          <6>2. x > y
            BY <6>1, <3>1, <1>8
          <6>3. r[y].next \in free
            BY <4>1, <6>2, <1>8
          <6> QED
            BY <6>3, <2>3, <2>5
        <5> QED
          BY <5>1, <5>2
      <4> QED
        BY <4>1
    <3>5. r[y] = file.e[y]
      BY <3>1, <3>3, <3>4, <1>5, <1>8
    <3> QED
      BY <3>5, <2>5, <1>16 DEF Alone
  <2>6. Alone(file'.e, file'.count, file.row[f].size, at)
    BY <2>5, <1>6, <1>10 DEF Alone
  <2> QED
    BY <2>4, <2>6
<1>17. file' \in [e : [Ids -> Entry], row : [Fields -> Value], count : 1 .. MaxEntries]
  BY <1>2, <1>7, <1>8, FileIs
<1> QED
  BY <1>2, <1>6, <1>15, <1>16, <1>17, FileIs, RepairStep

LEMMA WriteHeaderHolds == RInv /\ WriteHeader => RInv'
<1> SUFFICES ASSUME RInv, WriteHeader PROVE RInv'
  OBVIOUS
<1>1. PICK n : n = Max(check.used) + 1
  OBVIOUS
<1>2. /\ stage = "concluded" /\ stage' = "repaired" /\ check' = check
      /\ UNCHANGED <<Memory, since, durable>>
      /\ file' = [file EXCEPT !.count = n]
  BY <1>1 DEF WriteHeader
<1>3. Checking
  BY <1>2 DEF Checking
<1>4. n \in 1 .. MaxEntries /\ n - 1 \in 0 .. file.count - 1 /\ \A x \in check.used : x \in Ids /\ x \in 0 .. n - 1
  <2>1. PICK m : m = Max(check.used)
    OBVIOUS
  <2>2. m + 1 \in 1 .. MaxEntries /\ m \in 0 .. file.count - 1 /\ \A x \in check.used : x \in Ids /\ x \in 0 .. m
    BY <2>1, <1>3, UsedIs
  <2>3. n = m + 1
    BY <1>1, <2>1
  <2> QED
    BY <2>2, <2>3
<1>5. file'.row = file.row /\ file'.e = file.e /\ file'.count = n
      /\ file' \in [e : [Ids -> Entry], row : [Fields -> Value], count : 1 .. MaxEntries]
  BY <1>2, <1>4, FileIs
<1>6. Marked' = Marked
  BY <1>2, <1>5 DEF Marked
<1>7. \A f : Taken(f)' = Taken(f) /\ EntriesOfField(f)' = EntriesOfField(f) /\ (Verified(f) => Verified(f)')
  BY <1>5, FieldSame
<1>8. UNION {EntriesOfField(g) : g \in Marked}' = UNION {EntriesOfField(g) : g \in Marked}
  BY <1>6, <1>7
<1>9. Checked'
  <2>1. /\ check.used = {0} \cup UNION {EntriesOfField(g) : g \in Marked}
        /\ \A g \in Marked :
            /\ 0 \notin EntriesOfField(g)
            /\ \A h \in Marked : g # h => EntriesOfField(g) \cap EntriesOfField(h) = {}
            /\ Verified(g)
        /\ \A g \in check.done, h \in Fields : h < g => h \in check.done
        /\ check.done = Fields
        /\ file.e = Relinked(check.used, Max(check.used) + 1)
    BY <1>2, <1>3 DEF RInv, Checked
  <2>2. file'.e = Relinked(check.used, Max(check.used) + 1)'
    BY <2>1, <1>2, <1>5 DEF Relinked
  <2>3. check'.used \subseteq 0 .. file'.count - 1
    BY <1>2, <1>4, <1>5
  <2>4. Checking'
    BY <1>2 DEF Checking
  <2>5. file'.count = Max(check'.used) + 1
    BY <1>1, <1>2, <1>5
  <2>6. check'.used = {0} \cup UNION {EntriesOfField(g) : g \in Marked}'
    BY <2>1, <1>2, <1>8
  <2>7. ASSUME NEW g \in Marked'
        PROVE  /\ 0 \notin EntriesOfField(g)'
               /\ \A h \in Marked' : g # h => EntriesOfField(g)' \cap EntriesOfField(h)' = {}
               /\ Verified(g)'
    BY <2>1, <1>6, <1>7
  <2>8. \A g \in check'.done, h \in Fields : h < g => h \in check'.done
    BY <2>1, <1>2
  <2> QED
    BY <2>1, <2>2, <2>3, <2>4, <2>5, <2>6, <2>7, <2>8, <1>2 DEF Checked
<1>10. ASSUME NEW f \in durable, file.row[f] # Null, NEW at,
              Chain(file.e, file.count, file.row[f].rec, file.row[f].size, at),
              Alone(file.e, file.count, file.row[f].size, at)
       PROVE  /\ Chain(file'.e, file'.count, file.row[f].rec, file.row[f].size, at)
              /\ Alone(file'.e, file'.count, file.row[f].size, at)
  <2>1. at = Taken(f) /\ f \in Marked
    <3>1. check.done = Fields
      BY <1>2 DEF RInv, Checked
    <3> QED
      BY <3>1, <1>10, DurableIsRead, FileIs DEF Marked
  <2>2. \A k \in 1 .. file.row[f].size : at[k] \in check.used \ {0}
    BY <2>1, <1>3, UsedIs
  <2>3. \A k \in 1 .. file.row[f].size : at[k] \in 1 .. n - 1
    BY <2>2, <1>4
  <2>4. at \in [1 .. file.row[f].size -> 1 .. n - 1]
    BY <2>3, <1>10 DEF Chain
  <2>5. Chain(file'.e, file'.count, file.row[f].rec, file.row[f].size, at)
    <3> DEFINE e2 == file'.e
               m  == file.row[f].size
    <3>1. /\ Chain(file.e, file.count, file.row[f].rec, m, at) /\ at \in [1 .. m -> 1 .. n - 1]
          /\ \A k \in 1 .. m : e2[at[k]] = file.e[at[k]]
      BY <2>3, <2>4, <1>5, <1>10
    <3> HIDE DEF e2, m
    <3>2. Chain(e2, file.count, file.row[f].rec, m, at)
      BY <3>1, ChainAlike
    <3>3. Chain(e2, n, file.row[f].rec, m, at)
      BY <3>1, <3>2 DEF Chain
    <3> QED
      BY <3>3, <1>5 DEF e2, m
  <2>6. \A y \in 0 .. n - 1 : y \in 0 .. file.count - 1
    BY <1>4, FileIs
  <2>7. Alone(file'.e, file'.count, file.row[f].size, at)
    BY <2>6, <1>5, <1>10 DEF Alone
  <2> QED
    BY <2>5, <2>7
<1> QED
  BY <1>2, <1>5, <1>9, <1>10, FileIs, RepairStep

-----------------------------------------------------------------------------
(* The invariant. *)

LEMMA StutterHolds == RInv /\ UNCHANGED tableVars => RInv'
<1> SUFFICES ASSUME RInv, UNCHANGED tableVars PROVE RInv'
  OBVIOUS
<1>1. UNCHANGED <<vars, table>> /\ file' = file /\ since' = since /\ durable' = durable /\ stage' = stage /\ check' = check
  BY DEF tableVars
<1>2. /\ IInv' /\ OneCall' /\ HeldWhole' /\ Counted'
      /\ s' = s /\ row' = row
      /\ TypeOK' /\ row' \in [Fields -> Value] /\ new' \in OfField /\ value' \in OfField
  BY <1>1, MemorySame
<1>3. TableTypeOK'
  BY <1>1, <1>2 DEF RInv, TableTypeOK
<1>4. Checked'
  BY <1>1, CheckedSame DEF RInv
<1>5. ASSUME NEW f \in durable, file.row[f] # Null
      PROVE  \E at \in [1 .. file.row[f].size -> 1 .. file.count - 1] : FiledAt(f, at)'
  <2>1. PICK at \in [1 .. file.row[f].size -> 1 .. file.count - 1] : FiledAt(f, at)
    BY <1>5 DEF RInv, Filed
  <2>2. FiledAt(f, at)'
    BY <2>1, <1>1, <1>2 DEF FiledAt
  <2> QED
    BY <2>2
<1>6. Filed'
  BY <1>1, <1>2, <1>5 DEF RInv, Filed
<1> QED
  BY <1>2, <1>3, <1>4, <1>6 DEF RInv

LEMMA RNext == RInv /\ [TableNext]_tableVars => RInv'
<1> SUFFICES ASSUME RInv, [TableNext]_tableVars PROVE RInv'
  OBVIOUS
<1>1. CASE \E t \in Threads : Work(t)
  BY <1>1, WorkHolds
<1>2. CASE WriteBack \/ FlushInternal \/ Crash
  BY <1>2, WriteBackHolds, FlushHolds, CrashHolds
<1>3. CASE Repair
  <2>1. CASE \E f \in Fields, wellFormed \in BOOLEAN : CheckField(f, wellFormed)
    BY <2>1, CheckFieldHolds
  <2> QED
    BY <1>3, <2>1, StartRepairHolds, ConcludeHolds, WriteHeaderHolds DEF Repair
<1>4. CASE UNCHANGED tableVars
  BY <1>4, StutterHolds
<1> QED
  BY <1>1, <1>2, <1>3, <1>4 DEF TableNext

THEOREM RepairInvariance == TableSpec => []RInv
<1>1. TableInit => RInv
  BY TableInitHolds
<1>2. RInv /\ [TableNext]_tableVars => RInv'
  BY RNext
<1> QED
  BY <1>1, <1>2, PTL DEF TableSpec

-----------------------------------------------------------------------------
(* Theorems. *)

\* What is reached from an entry: a set its links do not leave, each other
\* member of which follows one of a smaller depth.
Spanned(st, from, A, depth) ==
    /\ from \in A /\ Last \notin A
    /\ \A x \in A : depth[x] \in 0 .. MaxEntries
    /\ \A x \in A : st.e[x].next = Last \/ st.e[x].next \in A
    /\ \A x \in A : x # from => \E y \in A : st.e[y].next = x /\ depth[y] < depth[x]

LEMMA ReachExactly ==
    ASSUME NEW st, NEW from, NEW A, NEW depth, Spanned(st, from, A, depth)
    PROVE  Reach(st, from) = A
<1>0. /\ from \in A /\ Last \notin A
      /\ \A x \in A : depth[x] \in 0 .. MaxEntries
      /\ \A x \in A : st.e[x].next = Last \/ st.e[x].next \in A
      /\ \A x \in A : x # from => \E y \in A : st.e[y].next = x /\ depth[y] < depth[x]
  BY DEF Spanned
<1>1. PICK u : /\ Reach(st, from) = u[MaxEntries]
               /\ u[0] = {from} \ {Last}
               /\ \A n \in 1 .. MaxEntries : u[n] = Wider(st, u[n - 1])
  BY ReachSteps
<1> DEFINE Far(n) == from \in u[n] /\ u[n] \subseteq A /\ \A x \in A : depth[x] <= n => x \in u[n]
           S == {n \in Nat : n <= MaxEntries => Far(n)}
<1>2. 0 \in S
  <2>1. u[0] = {from}
    BY <1>0, <1>1
  <2>2. ASSUME NEW x \in A, depth[x] <= 0, x # from PROVE FALSE
    <3>1. PICK y \in A : depth[y] < depth[x]
      BY <1>0, <2>2
    <3>2. depth[y] \in Nat /\ depth[x] \in Nat
      BY <1>0, VarStoreAssumption
    <3> QED
      BY <3>1, <3>2, <2>2
  <2>3. Far(0)
    BY <2>1, <2>2, <1>0
  <2> HIDE DEF Far
  <2> QED
    BY <2>3
<1>3. ASSUME NEW n \in Nat, n \in S PROVE n + 1 \in S
  <2>1. SUFFICES ASSUME n + 1 <= MaxEntries PROVE Far(n + 1)
    OBVIOUS
  <2>2. Far(n)
    BY <2>1, <1>3, VarStoreAssumption
  <2>3. u[n + 1] = Wider(st, u[n])
    <3>1. n + 1 \in 1 .. MaxEntries /\ (n + 1) - 1 = n
      BY <2>1, VarStoreAssumption
    <3> QED
      BY <3>1, <1>1
  <2>4. from \in u[n + 1]
    BY <2>2, <2>3 DEF Wider
  <2>5. ASSUME NEW x \in u[n + 1] PROVE x \in A
    <3>1. CASE x \in u[n]
      BY <3>1, <2>2
    <3>2. CASE x \notin u[n]
      <4>1. PICK y \in u[n] : x = st.e[y].next /\ x # Last
        BY <3>2, <2>3, <2>5 DEF Wider
      <4> QED
        BY <4>1, <2>2, <1>0
    <3> QED
      BY <3>1, <3>2
  <2>6. ASSUME NEW x \in A, depth[x] <= n + 1 PROVE x \in u[n + 1]
    <3>1. CASE x = from
      BY <3>1, <2>4
    <3>2. CASE x # from
      <4>1. PICK y \in A : st.e[y].next = x /\ depth[y] < depth[x]
        BY <1>0, <3>2
      <4>2. depth[y] \in Nat /\ depth[x] \in Nat
        BY <1>0, VarStoreAssumption
      <4>3. depth[y] <= n
        BY <4>1, <4>2, <2>6
      <4>4. y \in u[n]
        BY <4>3, <2>2
      <4>5. x # Last
        BY <1>0
      <4> QED
        BY <4>1, <4>4, <4>5, <2>3 DEF Wider
    <3> QED
      BY <3>1, <3>2
  <2>7. Far(n + 1)
    BY <2>4, <2>5, <2>6
  <2> HIDE DEF Far
  <2> QED
    BY <2>7
<1>4. Far(MaxEntries)
  <2>1. MaxEntries \in S
    <3> HIDE DEF S
    <3>1. \A n \in Nat : n \in S => n + 1 \in S
      BY <1>3
    <3>2. Nat \subseteq S
      BY <1>2, <3>1, ByInduction
    <3> QED
      BY <3>2, VarStoreAssumption
  <2> HIDE DEF Far
  <2> QED
    BY <2>1, VarStoreAssumption
<1>5. \A x \in A : x \in u[MaxEntries]
  <2>1. \A x \in A : depth[x] <= MaxEntries
    BY <1>0, VarStoreAssumption
  <2> QED
    BY <2>1, <1>4
<1>6. u[MaxEntries] = A
  BY <1>4, <1>5
<1> QED
  BY <1>1, <1>6

\* A repaired store is whole: the list that entry 0 heads is linked in both
\* directions and has exactly the entries that no value the repair has kept
\* has (ConcludeStorageCheck); and no entry is in two values.
THEOREM RepairedIsWhole == TableSpec => []RepairedStoreIsWhole
<1> SUFFICES ASSUME RInv PROVE RepairedStoreIsWhole
  <2>1. RInv => RepairedStoreIsWhole
    OBVIOUS
  <2> QED
    BY <2>1, RepairInvariance, PTL
<1>1. SUFFICES ASSUME stage = "repaired"
      PROVE  /\ Reach(Repaired, 0) = (0 .. file.count - 1) \ UNION {EntriesOfField(f) : f \in KeptFields}
             /\ \A id \in Reach(Repaired, 0) : file.e[id].deleted /\ ListNode(Repaired, id)
             /\ \A f, g \in KeptFields : f # g => EntriesOfField(f) \cap EntriesOfField(g) = {}
  BY DEF RepairedStoreIsWhole, RInv
<1>2. Checking
  BY <1>1 DEF Checking
<1>3. /\ check.used = {0} \cup UNION {EntriesOfField(g) : g \in Marked}
      /\ check.done = Fields
      /\ file.e = Relinked(check.used, file.count) /\ file.count = Max(check.used) + 1
  BY <1>1, <1>2 DEF RInv, Checked
<1>4. KeptFields = Marked
  BY <1>3 DEF KeptFields, Marked
<1>5. \A f, g \in KeptFields : f # g => EntriesOfField(f) \cap EntriesOfField(g) = {}
  BY <1>2, <1>4, UsedIs
<1>6. PICK free : free = FreeOf(check.used, file.count)
  OBVIOUS
<1>7. file.count \in 1 .. MaxEntries /\ file.e \in [Ids -> Entry]
  BY FileIs
<1>8. /\ free \subseteq 0 .. file.count - 1 /\ free \subseteq Ids /\ 0 \in free
      /\ \A id \in free :
           /\ file.e[id].deleted /\ ~file.e[id].first
           /\ id # 0 => file.e[id].prev \in free /\ file.e[id].prev < id
  <2>1. PICK n \in 1 .. MaxEntries : n = file.count
    BY <1>7
  <2>2. free = FreeOf(check.used, n) /\ file.e = Relinked(check.used, n)
    BY <2>1, <1>3, <1>6
  <2>3. /\ free \subseteq 0 .. n - 1 /\ free \subseteq Ids /\ 0 \in free
        /\ \A id \in free :
             /\ file.e[id].deleted /\ ~file.e[id].first
             /\ id # 0 => file.e[id].prev \in free /\ file.e[id].prev < id
    BY <2>2, <1>7, RelinkedIs
  <2> QED
    BY <2>1, <2>3
<1>9. ASSUME NEW id \in free
      PROVE  /\ id # 0 => file.e[id].prev \in free /\ file.e[file.e[id].prev].next = id
             /\ file.e[id].next # Last =>
                  file.e[id].next \in free /\ file.e[id].next # 0 /\ file.e[file.e[id].next].prev = id
  BY <1>3, <1>6, <1>7, RelinkedBoth
<1>10. free = (0 .. file.count - 1) \ UNION {EntriesOfField(f) : f \in KeptFields}
  <2>1. \A f \in Marked : 0 \notin EntriesOfField(f)
    BY <1>2, UsedIs
  <2>2. 0 \notin UNION {EntriesOfField(f) : f \in Marked}
    BY <2>1
  <2>3. PICK U : U = UNION {EntriesOfField(f) : f \in Marked}
    OBVIOUS
  <2>4. check.used = {0} \cup U /\ 0 \notin U
    BY <2>2, <2>3, <1>3
  <2>5. free = (0 .. file.count - 1) \ U
    BY <2>4, <1>6, <1>7 DEF FreeOf
  <2> QED
    BY <2>3, <2>5, <1>4
<1>11. Repaired.e = file.e /\ Repaired.count = file.count
  BY DEF Repaired
<1>12. Reach(Repaired, 0) = free
  <2> DEFINE depth == [x \in free |-> x]
  <2>1. Last \notin free
    BY <1>8, FieldsFinite
  <2>2. \A x \in free : depth[x] \in 0 .. MaxEntries
    BY <1>8, VarStoreAssumption DEF Ids
  <2>3. \A x \in free : Repaired.e[x].next = Last \/ Repaired.e[x].next \in free
    BY <1>9, <1>11
  <2>4. ASSUME NEW x \in free, x # 0 PROVE \E y \in free : Repaired.e[y].next = x /\ depth[y] < depth[x]
    <3>1. file.e[x].prev \in free /\ file.e[x].prev < x /\ file.e[file.e[x].prev].next = x
      BY <2>4, <1>8, <1>9
    <3>2. depth[file.e[x].prev] = file.e[x].prev /\ depth[x] = x
      BY <3>1
    <3> HIDE DEF depth
    <3> QED
      BY <3>1, <3>2, <1>11
  <2> HIDE DEF depth
  <2>5. Spanned(Repaired, 0, free, depth)
    BY <2>1, <2>2, <2>3, <2>4, <1>8 DEF Spanned
  <2> QED
    BY <2>5, ReachExactly
<1>13. ASSUME NEW id \in free PROVE file.e[id].deleted /\ ListNode(Repaired, id)
  <2>1. file.e[id].next # Last =>
          /\ file.e[id].next \in 1 .. file.count - 1
          /\ file.e[file.e[id].next].deleted
          /\ file.e[file.e[id].next].prev = id
    BY <1>8, <1>9
  <2>2. id # 0 =>
          /\ file.e[id].prev \in 0 .. file.count - 1
          /\ file.e[file.e[id].prev].deleted
          /\ file.e[file.e[id].prev].next = id
    BY <1>8, <1>9
  <2> QED
    BY <2>1, <2>2, <1>8, <1>11 DEF ListNode
<1> QED
  BY <1>5, <1>10, <1>12, <1>13

\* The links of a value that is read whole, deleted or not.
Linked(e, count, rec, n, at) ==
    /\ n \in Nat /\ n >= 1 /\ at \in [1 .. n -> 1 .. count - 1] /\ at[1] = rec
    /\ \A k \in 1 .. n :
        /\ (e[at[k]].first <=> k = 1)
        /\ e[at[k]].next = IF k = n THEN Last ELSE at[k + 1]
        /\ k > 1 => e[at[k]].prev = at[k - 1]

LEMMA LinkedDiffer ==
    ASSUME NEW e, NEW count, NEW rec, NEW n, NEW at, Linked(e, count, rec, n, at)
    PROVE  \A i, j \in 1 .. n : at[i] = at[j] => i = j
<1> DEFINE S == {i \in 1 .. n : \E j \in 1 .. n : at[i] = at[j] /\ i # j}
<1>0. n \in Nat /\ \A k \in 1 .. n : /\ (e[at[k]].first <=> k = 1)
                                     /\ k > 1 => e[at[k]].prev = at[k - 1]
  BY DEF Linked
<1>1. SUFFICES ASSUME S # {} PROVE FALSE
  OBVIOUS
<1>2. S \in SUBSET Nat
  OBVIOUS
<1>3. PICK m \in S : \A k \in S : m <= k
  BY <1>1, <1>2, Least
<1>4. PICK j \in 1 .. n : at[m] = at[j] /\ m # j
  BY <1>3
<1>5. m \in 1 .. n
  BY <1>3
<1>6. CASE m = 1
  <2>1. j = 1
    BY <1>0, <1>4, <1>5, <1>6
  <2> QED
    BY <2>1, <1>4, <1>6
<1>7. CASE m # 1
  <2>1. j # 1
    BY <1>0, <1>4, <1>5, <1>7
  <2>2. at[m - 1] = at[j - 1]
    BY <1>0, <1>4, <1>5, <1>7, <2>1
  <2>3. m - 1 \in 1 .. n /\ j - 1 \in 1 .. n /\ m - 1 # j - 1
    BY <2>1, <1>0, <1>4, <1>5, <1>7
  <2>4. m - 1 \in S
    BY <2>2, <2>3
  <2> QED
    BY <2>4, <1>3, <1>5
<1> QED
  BY <1>6, <1>7

LEMMA LinkedReach ==
    ASSUME NEW st, NEW rec, NEW n, NEW at, Linked(st.e, st.count, rec, n, at), n <= MaxEntries,
           st.count \in 1 .. MaxEntries
    PROVE  Reach(st, rec) = {at[k] : k \in 1 .. n}
<1> DEFINE A == {at[k] : k \in 1 .. n}
           depth == [x \in A |-> CHOOSE k \in 1 .. n : at[k] = x]
<1>0. /\ n \in Nat /\ n >= 1 /\ at \in [1 .. n -> 1 .. st.count - 1] /\ at[1] = rec
      /\ \A k \in 1 .. n : st.e[at[k]].next = IF k = n THEN Last ELSE at[k + 1]
  BY DEF Linked
<1>1. \A i, j \in 1 .. n : at[i] = at[j] => i = j
  BY LinkedDiffer
<1>2. ASSUME NEW k \in 1 .. n PROVE at[k] \in A /\ depth[at[k]] = k
  <2>1. at[k] \in A
    OBVIOUS
  <2>2. depth[at[k]] \in 1 .. n /\ at[depth[at[k]]] = at[k]
    BY <2>1
  <2> HIDE DEF depth
  <2> QED
    BY <2>1, <2>2, <1>1
<1> HIDE DEF depth
<1>3. rec \in A
  <2>1. 1 \in 1 .. n
    BY <1>0
  <2> QED
    BY <2>1, <1>0
<1>4. Last \notin A
  BY <1>0, VarStoreAssumption DEF Last
<1>5. ASSUME NEW x \in A
      PROVE  /\ depth[x] \in 0 .. MaxEntries
             /\ st.e[x].next = Last \/ st.e[x].next \in A
             /\ x # rec => \E y \in A : st.e[y].next = x /\ depth[y] < depth[x]
  <2>1. PICK k \in 1 .. n : x = at[k]
    OBVIOUS
  <2>2. depth[x] = k
    BY <2>1, <1>2
  <2>3. depth[x] \in 0 .. MaxEntries
    BY <2>2, <1>0, VarStoreAssumption
  <2>4. st.e[x].next = Last \/ st.e[x].next \in A
    <3>1. CASE k = n
      BY <3>1, <2>1, <1>0
    <3>2. CASE k # n
      <4>1. k + 1 \in 1 .. n /\ st.e[x].next = at[k + 1]
        BY <3>2, <2>1, <1>0
      <4> QED
        BY <4>1
    <3> QED
      BY <3>1, <3>2
  <2>5. ASSUME x # rec PROVE \E y \in A : st.e[y].next = x /\ depth[y] < depth[x]
    <3>1. k # 1
      BY <2>1, <2>5, <1>0
    <3>2. k - 1 \in 1 .. n /\ k - 1 # n /\ (k - 1) + 1 = k
      BY <3>1, <1>0
    <3>3. st.e[at[k - 1]].next = x
      BY <3>2, <2>1, <1>0
    <3>4. at[k - 1] \in A /\ depth[at[k - 1]] = k - 1
      BY <3>2, <1>2
    <3>5. depth[at[k - 1]] < depth[x]
      BY <3>4, <2>2
    <3> HIDE DEF A
    <3> QED
      BY <3>3, <3>4, <3>5
  <2> QED
    BY <2>3, <2>4, <2>5
<1> HIDE DEF A
<1>6. Spanned(st, rec, A, depth)
  BY <1>3, <1>4, <1>5 DEF Spanned
<1>7. Reach(st, rec) = A
  BY <1>6, ReachExactly
<1> QED
  BY <1>7 DEF A

LEMMA LinkedCount ==
    ASSUME NEW e, NEW count \in 1 .. MaxEntries, NEW rec, NEW n, NEW at, Linked(e, count, rec, n, at)
    PROVE  Cardinality({at[k] : k \in 1 .. n}) = n /\ n <= MaxEntries
<1> DEFINE A == {at[k] : k \in 1 .. n}
<1>1. n \in Nat /\ at \in [1 .. n -> 1 .. count - 1]
  BY DEF Linked
<1>2. \A i, j \in 1 .. n : at[i] = at[j] => i = j
  BY LinkedDiffer
<1>3. at \in [1 .. n -> A]
  BY <1>1
<1>4. at \in Injection(1 .. n, A) /\ at \in Surjection(1 .. n, A)
  <2>1. DOMAIN at = 1 .. n
    BY <1>1
  <2> QED
    BY <2>1, <1>2, <1>3 DEF Injection, Surjection, IsInjective
<1>5. IsFiniteSet(1 .. n) /\ Cardinality(1 .. n) = n
  BY <1>1, FS_Interval
<1>6. ExistsBijection(1 .. n, A)
  BY <1>4 DEF ExistsBijection, Bijection
<1>7. Cardinality(A) = n /\ IsFiniteSet(A)
  BY <1>5, <1>6, FS_Bijection
<1>8. IsFiniteSet(1 .. count - 1) /\ Cardinality(1 .. count - 1) = count - 1
  <2>1. count - 1 \in Nat
    BY VarStoreAssumption
  <2> QED
    BY <2>1, FS_Interval
<1>9. A \subseteq 1 .. count - 1
  BY <1>1
<1>10. Cardinality(A) <= count - 1
  BY <1>8, <1>9, FS_Subset
<1> QED
  BY <1>7, <1>10, <1>1, VarStoreAssumption

\* An array that a repair keeps, or what was flushed, is read whole.
LEMMA KeptLinked ==
    ASSUME RInv, stage = "repaired", NEW f \in KeptFields \cap (Arrays \cup durable)
    PROVE  /\ Linked(file.e, file.count, file.row[f].rec, file.row[f].size, Taken(f))
           /\ f \in durable => Chain(file.e, file.count, file.row[f].rec, file.row[f].size, Taken(f))
           /\ EntriesOfField(f) = {Taken(f)[k] : k \in 1 .. file.row[f].size}
<1>1. Checking
  BY DEF Checking
<1>2. f \in Marked /\ f \in Fields /\ file.row[f] # Null
  BY <1>1 DEF RInv, Checked, KeptFields, Marked
<1>3. PICK at, n, rec : at = Taken(f) /\ n = file.row[f].size /\ rec = file.row[f].rec
  OBVIOUS
<1>4. /\ n \in Nat /\ n >= 1 /\ DOMAIN at = 1 .. n /\ at[1] = rec
      /\ EntriesOfField(f) = {at[k] : k \in 1 .. n}
      /\ \A k \in 2 .. n : at[k] = After(file.e, at[k - 1])
      /\ at = [k \in 1 .. n |-> at[k]]
  <2>1. n \in Nat /\ n >= 1 /\ DOMAIN at = 1 .. n /\ at[1] = rec
        /\ EntriesOfField(f) = {at[k] : k \in 1 .. n}
        /\ \A k \in 2 .. n : at[k] = After(file.e, at[k - 1])
    BY <1>2, <1>3, TakenIs
  <2>2. at = [k \in 1 .. n |-> at[k]]
    BY <2>1, <1>3, EntriesAre DEF Taken
  <2> QED
    BY <2>1, <2>2
<1>5. \A k \in 1 .. n : at[k] \in 1 .. file.count - 1
  <2>1. \A k \in 1 .. n : at[k] \in check.used \ {0}
    BY <1>1, <1>2, <1>3, UsedIs
  <2>2. check.used \subseteq 0 .. file.count - 1
    BY <1>1, UsedIs
  <2> QED
    BY <2>1, <2>2
<1>6. at \in [1 .. n -> 1 .. file.count - 1]
  BY <1>4, <1>5
<1>7. CASE f \in durable
  <2>1. PICK b \in [1 .. n -> 1 .. file.count - 1] : FiledAt(f, b)
    BY <1>2, <1>3, <1>7 DEF RInv, Filed
  <2>2. Chain(file.e, file.count, rec, n, b)
    BY <2>1, <1>3 DEF FiledAt
  <2>3. b = at
    BY <2>2, <1>2, <1>3, <1>7, DurableIsRead
  <2>4. Chain(file.e, file.count, rec, n, at)
    BY <2>2, <2>3
  <2>5. Linked(file.e, file.count, rec, n, at)
    <3>1. ASSUME NEW k \in 1 .. n
          PROVE  /\ (file.e[at[k]].first <=> k = 1)
                 /\ file.e[at[k]].next = IF k = n THEN Last ELSE at[k + 1]
                 /\ k > 1 => file.e[at[k]].prev = at[k - 1]
      <4>1. /\ (file.e[at[k]].first <=> k = 1)
            /\ file.e[at[k]].next = IF k = n THEN Last ELSE at[k + 1]
        BY <2>4 DEF Chain
      <4>2. IF k = 1 THEN file.e[at[k]].prev >= 1 ELSE file.e[at[k]].prev = at[k - 1]
        BY <2>4 DEF Chain
      <4>3. k > 1 => file.e[at[k]].prev = at[k - 1]
        BY <4>2
      <4> QED
        BY <4>1, <4>3
    <3> QED
      BY <3>1, <1>4, <1>6 DEF Linked
  <2> QED
    BY <2>4, <2>5, <1>3, <1>4
<1>8. CASE f \in Arrays /\ f \notin durable
  <2>1. \A k \in 1 .. n : is_entry_valid(at, k, n)
    <3>1. Verified(f)
      BY <1>1, <1>2, UsedIs
    <3> QED
      BY <3>1, <1>3, <1>8 DEF Verified
  <2>2. ASSUME NEW k \in 1 .. n
        PROVE  /\ (file.e[at[k]].first <=> k = 1)
               /\ file.e[at[k]].next = IF k = n THEN Last ELSE at[k + 1]
               /\ k > 1 => file.e[at[k]].prev = at[k - 1]
    <3>1. is_entry_valid(at, k, n)
      BY <2>1
    <3>2. (file.e[at[k]].first <=> k = 1) /\ (k > 1 => file.e[at[k]].prev = at[k - 1])
      BY <3>1, <1>4 DEF is_entry_valid
    <3>3. CASE k = n
      BY <3>1, <3>2, <3>3 DEF is_entry_valid
    <3>4. CASE k # n
      <4>1. k + 1 \in 2 .. n /\ (k + 1) - 1 = k
        BY <3>4, <1>4
      <4>2. at[k + 1] = After(file.e, at[k])
        BY <4>1, <1>4
      <4>3. at[k] \in Ids
        BY <1>5, FileIs
      <4> QED
        BY <3>2, <3>4, <4>2, <4>3 DEF After
    <3> QED
      BY <3>3, <3>4
  <2>3. Linked(file.e, file.count, rec, n, at)
    BY <2>2, <1>4, <1>6 DEF Linked
  <2> QED
    BY <2>3, <1>3, <1>4, <1>8
<1> QED
  BY <1>7, <1>8

\* A value the repair keeps is a whole record: every array it has checked,
\* every text that was flushed (CheckArrayEntry, CheckTextEntry).
THEOREM KeptIsWhole == TableSpec => []KeptValuesAreWhole
<1> SUFFICES ASSUME RInv PROVE KeptValuesAreWhole
  <2>1. RInv => KeptValuesAreWhole
    OBVIOUS
  <2> QED
    BY <2>1, RepairInvariance, PTL
<1> SUFFICES ASSUME stage = "repaired", NEW f \in KeptFields \cap (Arrays \cup durable)
             PROVE  /\ Cardinality(EntriesOfField(f)) = file.row[f].size
                    /\ Reach(Repaired, file.row[f].rec) = EntriesOfField(f)
                    /\ \A id \in EntriesOfField(f) : file.e[id].first \/ file.e[file.e[id].prev].next = id
                    /\ f \in durable => \A id \in EntriesOfField(f) : ~file.e[id].deleted
  BY DEF KeptValuesAreWhole
<1>1. PICK at, n, rec : at = Taken(f) /\ n = file.row[f].size /\ rec = file.row[f].rec
  OBVIOUS
<1>2. /\ Linked(file.e, file.count, rec, n, at)
      /\ f \in durable => Chain(file.e, file.count, rec, n, at)
      /\ EntriesOfField(f) = {at[k] : k \in 1 .. n}
  BY <1>1, KeptLinked
<1>3. file.count \in 1 .. MaxEntries
  BY FileIs
<1>4. Cardinality({at[k] : k \in 1 .. n}) = n /\ n <= MaxEntries
  BY <1>2, <1>3, LinkedCount
<1>5. Repaired.e = file.e /\ Repaired.count = file.count
  BY DEF Repaired
<1>6. Reach(Repaired, rec) = {at[k] : k \in 1 .. n}
  <2>1. Linked(Repaired.e, Repaired.count, rec, n, at) /\ Repaired.count \in 1 .. MaxEntries
    BY <1>2, <1>3, <1>5
  <2> QED
    BY <2>1, <1>4, LinkedReach
<1>7. ASSUME NEW k \in 1 .. n
      PROVE  file.e[at[k]].first \/ file.e[file.e[at[k]].prev].next = at[k]
  <2>1. n \in Nat /\ (file.e[at[k]].first <=> k = 1) /\ (k > 1 => file.e[at[k]].prev = at[k - 1])
    BY <1>2 DEF Linked
  <2>2. ASSUME k # 1 PROVE file.e[at[k - 1]].next = at[k]
    <3>1. k - 1 \in 1 .. n /\ k - 1 # n /\ (k - 1) + 1 = k
      BY <2>1, <2>2
    <3> QED
      BY <3>1, <1>2 DEF Linked
  <2> QED
    BY <2>1, <2>2
<1>8. f \in durable => \A k \in 1 .. n : ~file.e[at[k]].deleted
  BY <1>2 DEF Chain
<1> QED
  BY <1>1, <1>2, <1>4, <1>6, <1>7, <1>8

\* A field that fails its check, when the value was flushed and not changed
\* since, shares its record with an earlier one.
LEMMA FailsForEarlier ==
    ASSUME RInv, NEW f \in durable, CheckField(f, TRUE), file.row[f] # Null, file' # file
    PROVE  \E g \in Fields : g < f /\ file.row[g].rec = file.row[f].rec
<1>1. stage = "check" /\ f \notin check.done
  BY DEF CheckField
<1>2. Checking /\ f \in Fields
  BY <1>1, FileIs DEF Checking
<1>3. PICK at, n, rec : at = Taken(f) /\ n = file.row[f].size /\ rec = file.row[f].rec
  OBVIOUS
<1>4. Chain(file.e, file.count, rec, n, at) /\ Alone(file.e, file.count, n, at)
  <2>1. PICK b \in [1 .. n -> 1 .. file.count - 1] : FiledAt(f, b)
    BY <1>3 DEF RInv, Filed
  <2>2. Chain(file.e, file.count, rec, n, b) /\ Alone(file.e, file.count, n, b)
    BY <2>1, <1>3 DEF FiledAt
  <2>3. b = at
    BY <2>2, <1>3, DurableIsRead
  <2> QED
    BY <2>2, <2>3
<1>5. n \in Nat /\ n >= 1 /\ 1 \in 1 .. n
  BY <1>2, <1>3, TakenIs
<1>6. ~(IF f \in Arrays THEN CheckArrayEntry(at, n) ELSE CheckTextEntry(at, n))
  BY <1>3 DEF CheckField, Taken
<1>7. \A k \in 1 .. n : is_entry_valid(at, k, n) /\ at[k] \in 1 .. file.count - 1 /\ ~file.e[at[k]].deleted
  <2>1. ASSUME NEW k \in 1 .. n
        PROVE  /\ (file.e[at[k]].first <=> k = 1)
               /\ k = n => file.e[at[k]].next = Last
               /\ IF k = 1 THEN file.e[at[k]].prev >= 1 ELSE file.e[at[k]].prev = at[k - 1]
               /\ at[k] \in 1 .. file.count - 1 /\ ~file.e[at[k]].deleted
    <3>1. /\ (file.e[at[k]].first <=> k = 1)
          /\ file.e[at[k]].next = IF k = n THEN Last ELSE at[k + 1]
          /\ at[k] \in 1 .. file.count - 1 /\ ~file.e[at[k]].deleted
      BY <1>4 DEF Chain
    <3>2. IF k = 1 THEN file.e[at[k]].prev >= 1 ELSE file.e[at[k]].prev = at[k - 1]
      BY <1>4 DEF Chain
    <3> QED
      BY <3>1, <3>2
  <2> QED
    BY <2>1 DEF is_entry_valid
<1>8. ~Readable(at, n)
  BY <1>5, <1>6, <1>7 DEF CheckArrayEntry, CheckTextEntry
<1>9. PICK k \in 1 .. n : at[k] \in check.used
  BY <1>5, <1>7, <1>8, FileIs DEF Readable
<1>10. PICK g \in Marked : at[k] \in EntriesOfField(g)
  <2>1. check.used = {0} \cup UNION {EntriesOfField(g) : g \in Marked}
    BY <1>2 DEF RInv, Checked
  <2>2. at[k] # 0
    BY <1>7
  <2> QED
    BY <2>1, <2>2, <1>9
<1>11. g \in Fields /\ g \in check.done /\ file.row[g] # Null /\ Verified(g)
  BY <1>2, <1>10, UsedIs DEF Marked
<1>12. g < f
  <2>1. g \in Nat /\ f \in Nat /\ g # f
    BY <1>1, <1>2, <1>11, FieldsFinite
  <2>2. ~(f < g)
    BY <1>1, <1>2, <1>11 DEF RInv, Checked
  <2> QED
    BY <2>1, <2>2
<1>13. PICK b, m : b = Taken(g) /\ m = file.row[g].size
  OBVIOUS
<1>14. /\ m \in Nat /\ m >= 1 /\ b[1] = file.row[g].rec
       /\ EntriesOfField(g) = {b[i] : i \in 1 .. m}
       /\ \A i \in 2 .. m : b[i] = After(file.e, b[i - 1])
  BY <1>11, <1>13, TakenIs
<1>15. \A i \in 1 .. m : b[i] \in 0 .. file.count - 1 /\ b[i] \in Ids
  <2>1. \A i \in 1 .. m : b[i] \in check.used
    BY <1>2, <1>10, <1>13, UsedIs
  <2>2. check.used \subseteq 0 .. file.count - 1 /\ check.used \subseteq Ids
    BY <1>2, UsedIs
  <2> QED
    BY <2>1, <2>2
<1>16. file.row[g].rec = rec
  <2> DEFINE S == {i \in 1 .. m : \E j \in 1 .. n : b[i] = at[j]}
  <2>1. S # {} /\ S \in SUBSET Nat
    BY <1>10, <1>14
  <2>2. PICK i \in S : \A x \in S : i <= x
    BY <2>1, Least
  <2>3. PICK j \in 1 .. n : b[i] = at[j]
    BY <2>2
  <2>4. i \in 1 .. m
    BY <2>2
  <2>5. CASE i = 1
    <3>1. is_entry_valid(b, 1, m)
      BY <1>11, <1>13 DEF Verified
    <3>2. file.e[b[1]].first
      BY <3>1 DEF is_entry_valid
    <3>3. j = 1
      BY <3>2, <2>3, <2>5, <1>4 DEF Chain
    <3>4. at[1] = rec
      BY <1>4 DEF Chain
    <3> QED
      BY <3>3, <3>4, <2>3, <2>5, <1>14
  <2>6. CASE i # 1
    <3>1. i \in 2 .. m /\ i - 1 \in 1 .. m
      BY <2>4, <2>6, <1>14
    <3>2. b[i] = file.e[b[i - 1]].next
      BY <3>1, <1>14, <1>15 DEF After
    <3>3. b[i - 1] \in 0 .. file.count - 1
      BY <3>1, <1>15
    <3>4. j > 1 /\ at[j - 1] = b[i - 1]
      BY ZenonT(30), <3>2, <3>3, <2>3, <1>4 DEF Alone
    <3>5. j - 1 \in 1 .. n
      BY <3>4, <1>5
    <3>6. i - 1 \in S
      BY <3>1, <3>4, <3>5
    <3> QED
      BY <3>6, <2>2, <2>4
  <2> QED
    BY <2>5, <2>6
<1> QED
  BY <1>3, <1>11, <1>12, <1>16

LEMMA SurvivesStep ==
    RInv /\ [TableNext]_tableVars =>
        \A f \in durable :
            /\ stage \in {"down", "check", "concluded"}
            /\ file.row[f] # Null /\ file'.row[f] # file.row[f]
            => \E g \in Fields : g < f /\ file.row[g].rec = file.row[f].rec
<1> SUFFICES ASSUME RInv, [TableNext]_tableVars, NEW f \in durable,
                    stage \in {"down", "check", "concluded"},
                    file.row[f] # Null, file'.row[f] # file.row[f]
             PROVE  \E g \in Fields : g < f /\ file.row[g].rec = file.row[f].rec
  OBVIOUS
<1>1. ~Open /\ stage # "open" /\ file'.row # file.row
  BY DEF Open
<1>2. ASSUME NEW t \in Threads, Work(t) PROVE FALSE
  BY <1>1, <1>2 DEF Work, SetNew, SetShared, SetNull, Get, StoreWorks, SetFails, SetRow, DropValue, Begin
<1>3. ~WriteBack /\ ~FlushInternal /\ ~Crash /\ ~UNCHANGED tableVars
  BY <1>1 DEF WriteBack, FlushInternal, Crash, tableVars
<1>4. ~StartRepair /\ ~ConcludeStorageCheck /\ ~WriteHeader
  <2>1. ASSUME NEW e, file' = [file EXCEPT !.e = e] PROVE FALSE
    BY <2>1, <1>1, FileIs
  <2>2. ASSUME NEW c, file' = [file EXCEPT !.count = c] PROVE FALSE
    BY <2>2, <1>1, FileIs
  <2>3. ~StartRepair
    <3>1. StartRepair => file' = [file EXCEPT !.e = [id \in Ids |-> IF id < file.count THEN file.e[id] ELSE NoEntry]]
      BY FileIs DEF StartRepair
    <3> QED
      BY <3>1, <2>1
  <2>4. ~ConcludeStorageCheck
    BY <2>1 DEF ConcludeStorageCheck
  <2>5. ~WriteHeader
    BY <2>2 DEF WriteHeader
  <2> QED
    BY <2>3, <2>4, <2>5
<1>5. PICK g \in Fields, wellFormed \in BOOLEAN : CheckField(g, wellFormed)
  BY <1>2, <1>3, <1>4 DEF TableNext, Repair
<1>6. g = f
  <2>1. file' = file \/ file' = [file EXCEPT !.row[g] = Null]
    BY <1>5 DEF CheckField
  <2>2. file' = [file EXCEPT !.row[g] = Null]
    BY <1>1, <2>1
  <2>3. f \in Fields
    BY FileIs
  <2> QED
    BY <2>2, <2>3, FileIs
<1>7. wellFormed = TRUE
  BY <1>5, <1>6 DEF CheckField
<1> QED
  BY <1>1, <1>5, <1>6, <1>7, FailsForEarlier

\* What was flushed and not changed since comes through every crash and
\* repair, unless an earlier row has the same record (CheckField).
THEOREM FlushedSurvives == TableSpec => FlushedValuesSurvive
<1>1. RInv /\ [TableNext]_tableVars =>
        [\A f \in durable :
            /\ stage \in {"down", "check", "concluded"}
            /\ file.row[f] # Null /\ file'.row[f] # file.row[f]
            => \E g \in Fields : g < f /\ file.row[g].rec = file.row[f].rec]_tableVars
  BY SurvivesStep
<1> QED
  BY <1>1, RepairInvariance, PTL DEF TableSpec, FlushedValuesSurvive

\* Every variable of the table has its type.
THEOREM TableTypes == TableSpec => []TableTypeOK
<1>1. RInv => TableTypeOK
  BY DEF RInv
<1> QED
  BY <1>1, RepairInvariance, PTL

===============================================================================
