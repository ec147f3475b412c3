--------------------------- MODULE BlockCacheProofs ---------------------------
(* Proofs about BlockCache: the cache never frees a block somebody uses, and *)
(* implements ItemStore for any number of threads, items and block sizes.    *)
EXTENDS BlockCache, FiniteSetTheorems, TLAPS

-----------------------------------------------------------------------------
(* Blocks: where an item is. *)

\* A block holds at least one item.
LEMMA PerBlockPositive == PerBlock \in Nat \ {0}
<1>1. BlockSize \in Nat \ {0} /\ BlockSize % ItemSize = 0
  <2>1. CASE WantedBlockSize < ItemSize
    BY <2>1, BlockCacheAssumption DEF BlockSize
  <2>2. CASE WantedBlockSize >= ItemSize
    <3>1. /\ WantedBlockSize % ItemSize \in 0 .. ItemSize - 1
          /\ WantedBlockSize = ItemSize * (WantedBlockSize \div ItemSize) + (WantedBlockSize % ItemSize)
      BY BlockCacheAssumption
    <3>2. BlockSize = ItemSize * (WantedBlockSize \div ItemSize)
      BY <2>2, <3>1, BlockCacheAssumption DEF BlockSize
    <3> QED
      BY <2>2, <3>1, <3>2, BlockCacheAssumption
  <2> QED
    BY <2>1, <2>2, BlockCacheAssumption
<1>2. BlockSize >= ItemSize
  BY BlockCacheAssumption DEF BlockSize
<1>3. /\ BlockSize % ItemSize \in 0 .. ItemSize - 1
      /\ BlockSize \div ItemSize \in Int
      /\ BlockSize = ItemSize * (BlockSize \div ItemSize) + (BlockSize % ItemSize)
  BY <1>1, BlockCacheAssumption
<1> QED
  BY <1>1, <1>2, <1>3, BlockCacheAssumption DEF PerBlock

LEMMA BaseBounds ==
    ASSUME NEW i \in Int
    PROVE  /\ Base(i) \in Int /\ Base(i) <= i /\ i < Base(i) + PerBlock
           /\ i % PerBlock = i - Base(i) /\ i % PerBlock \in Offsets
           /\ i >= 0 => Base(i) >= 0
  BY PerBlockPositive DEF Base, Offsets


\* Two multiples of n that are less than n apart are the same.
LEMMA CloseMultiples ==
    ASSUME NEW n \in Nat \ {0}, NEW a \in Int, NEW b \in Int,
           a * n < b * n + n, b * n < a * n + n
    PROVE  a = b
<1>1. ASSUME a < b PROVE FALSE
  <2> DEFINE c == b - a - 1
  <2>1. c \in Nat /\ b = a + 1 + c
    BY <1>1
  <2>2. b * n = a * n + n + c * n /\ c * n >= 0
    BY <2>1
  <2> QED
    BY <2>2
<1>2. ASSUME b < a PROVE FALSE
  <2> DEFINE c == a - b - 1
  <2>1. c \in Nat /\ a = b + 1 + c
    BY <1>2
  <2>2. a * n = b * n + n + c * n /\ c * n >= 0
    BY <2>1
  <2> QED
    BY <2>2
<1> QED
  BY <1>1, <1>2

LEMMA BaseOfBase == ASSUME NEW i \in Int PROVE Base(Base(i)) = Base(i)
<1> DEFINE a == i \div PerBlock
           b == Base(i) \div PerBlock
<1>1. /\ PerBlock \in Nat \ {0} /\ Base(i) \in Int /\ Base(Base(i)) \in Int
      /\ Base(Base(i)) <= Base(i) /\ Base(i) < Base(Base(i)) + PerBlock
  BY PerBlockPositive, BaseBounds
<1>2. /\ a \in Int /\ b \in Int /\ Base(i) = a * PerBlock /\ Base(Base(i)) = b * PerBlock
  BY <1>1 DEF Base
<1>3. a = b
  <2> HIDE DEF a, b
  <2> QED
    BY <1>1, <1>2, CloseMultiples
<1> QED
  BY <1>2, <1>3

\* The items of the block that starts with item k are k .. k + PerBlock - 1.
LEMMA SameBlock ==
    ASSUME NEW i \in Int, NEW k \in Int, Base(k) = k, k <= i, i < k + PerBlock
    PROVE  Base(i) = k
<1> DEFINE a == i \div PerBlock
           b == k \div PerBlock
<1>1. /\ PerBlock \in Nat \ {0} /\ Base(i) \in Int
      /\ Base(i) <= i /\ i < Base(i) + PerBlock
  BY PerBlockPositive, BaseBounds
<1>2. /\ a \in Int /\ b \in Int /\ Base(i) = a * PerBlock /\ k = b * PerBlock
  BY <1>1 DEF Base
<1>3. a = b
  <2> HIDE DEF a, b
  <2> QED
    BY <1>1, <1>2, CloseMultiples
<1> QED
  BY <1>2, <1>3

-----------------------------------------------------------------------------
(* The invariant. *)

\* What the file d of n items and the cached blocks c hold: every item has
\* been stored once, and a clean block agrees with the file.
DataOK(d, c, n) ==
    /\ \A i \in 0 .. n - 1 : d[i] \in Values
    /\ \A b \in DOMAIN c : b \in 0 .. n - 1 /\ Base(b) = b /\ c[b] \in Block
    /\ \A i \in 0 .. n - 1 : Base(i) \in DOMAIN c =>
        /\ c[Base(i)].data[i % PerBlock] \in Values
        /\ ~c[Base(i)].dirty => c[Base(i)].data[i % PerBlock] = d[i]

PinsExist ==
    \A t \in Threads, k \in Slots : slot[t][k] # None => slot[t][k] \in 0 .. count - 1

FetchExists ==
    fetch # NoFetch =>
        /\ fetch.item \in 0 .. count - 1 /\ Base(fetch.item) \notin DOMAIN cached
        /\ mSync \in Threads /\ slot[mSync][fetch.to] = None

IInv == TypeOK /\ DataOK(disk, cached, count) /\ PinnedBlocksStay /\ PinsExist /\ FetchExists

\* The value of item i, as View has it.
ItemOf(d, c, i) == IF Base(i) \in DOMAIN c THEN c[Base(i)].data[i % PerBlock] ELSE d[i]

-----------------------------------------------------------------------------
(* The operators on blocks. *)

\* Item o of block b is item b + o, and no other item is.
LEMMA BlockItems ==
    ASSUME NEW b \in Int, Base(b) = b, NEW o \in Offsets
    PROVE  Base(b + o) = b /\ (b + o) % PerBlock = o
<1>1. /\ b + o \in Int /\ b <= b + o /\ b + o < b + PerBlock
  BY PerBlockPositive DEF Offsets
<1>2. Base(b + o) = b
  BY <1>1, SameBlock
<1>3. (b + o) % PerBlock = (b + o) - Base(b + o)
  BY <1>1, BaseBounds
<1>4. o \in Int
  BY PerBlockPositive DEF Offsets
<1> QED
  BY <1>2, <1>3, <1>4

\* A block that is stored changes the items that are in it.
LEMMA StoreItemsFacts ==
    ASSUME NEW d \in [0 .. MaxItems - 1 -> Values \cup {Unread}], NEW n \in 0 .. MaxItems,
           NEW b \in Int, Base(b) = b, NEW block \in Block
    PROVE  /\ StoreItems(b, block.data, d, n) \in [0 .. MaxItems - 1 -> Values \cup {Unread}]
           /\ \A i \in 0 .. n - 1 : StoreItems(b, block.data, d, n)[i] =
                IF Base(i) = b THEN block.data[i % PerBlock] ELSE d[i]
<1> DEFINE r == StoreItems(b, block.data, d, n)
<1>0. MaxItems \in Nat /\ n \in Nat
  BY BlockCacheAssumption
<1>1. block.data \in [Offsets -> Values \cup {Unread}]
  BY DEF Block
<1>2. ASSUME NEW i \in 0 .. MaxItems - 1
      PROVE  r[i] \in Values \cup {Unread}
  <2>1. i >= b /\ i < b + PerBlock => i - b \in Offsets
    BY <1>0, PerBlockPositive DEF Offsets
  <2> QED
    BY <2>1, <1>0, <1>1 DEF StoreItems
<1>3. ASSUME NEW i \in 0 .. n - 1
      PROVE  r[i] = IF Base(i) = b THEN block.data[i % PerBlock] ELSE d[i]
  <2>1. i \in 0 .. MaxItems - 1 /\ i \in Int
    BY <1>0
  <2>2. i >= b /\ i < b + PerBlock <=> Base(i) = b
    BY <2>1, SameBlock, BaseBounds
  <2>3. Base(i) = b => i - b = i % PerBlock
    BY <2>1, BaseBounds
  <2> QED
    BY <2>1, <2>2, <2>3, <1>0 DEF StoreItems
<1>4. DOMAIN r = 0 .. MaxItems - 1 /\ r = [i \in 0 .. MaxItems - 1 |-> r[i]]
  BY DEF StoreItems
<1> HIDE DEF r
<1>5. r \in [0 .. MaxItems - 1 -> Values \cup {Unread}]
  BY <1>2, <1>4
<1> QED
  BY <1>3, <1>5 DEF r

\* One StoredItem more or less.
LEMMA PinsFinite == ASSUME NEW held, NEW b PROVE IsFiniteSet(Pins(held, b))
<1>1. IsFiniteSet(Slots) /\ IsFiniteSet(Threads)
  BY BlockCacheAssumption, FS_Interval DEF Slots
<1>2. IsFiniteSet(Threads \X Slots)
  BY <1>1, FS_Product
<1>3. Pins(held, b) \subseteq Threads \X Slots
  BY DEF Pins
<1> QED
  BY <1>2, <1>3, FS_Subset

LEMMA PinAdded ==
    ASSUME NEW held \in [Threads -> [Slots -> 0 .. MaxItems - 1 \cup {None}]],
           NEW t \in Threads, NEW k \in Slots, held[t][k] = None,
           NEW i \in 0 .. MaxItems - 1, NEW b,
           NEW held2,
           \A u \in Threads, m \in Slots : held2[u][m] = IF u = t /\ m = k THEN i ELSE held[u][m]
    PROVE  Cardinality(Pins(held2, b)) = Cardinality(Pins(held, b)) + (IF b = Base(i) THEN 1 ELSE 0)
<1>1. /\ held2[t][k] = i /\ i # None
      /\ \A u \in Threads, m \in Slots : <<u, m>> # <<t, k>> => held2[u][m] = held[u][m]
  BY BlockCacheAssumption
<1>2. <<t, k>> \notin Pins(held, b)
  BY DEF Pins
<1>3. Pins(held2, b) = IF b = Base(i) THEN Pins(held, b) \cup {<<t, k>>} ELSE Pins(held, b)
  BY <1>1, <1>2 DEF Pins
<1>4. Cardinality(Pins(held, b)) \in Nat
  BY PinsFinite, FS_CardinalityType
<1>5. Cardinality(Pins(held, b) \cup {<<t, k>>}) = Cardinality(Pins(held, b)) + 1
  BY <1>2, PinsFinite, FS_AddElement
<1>6. Cardinality(Pins(held2, b)) = Cardinality(Pins(held, b)) + (IF b = Base(i) THEN 1 ELSE 0)
  BY <1>3, <1>4, <1>5
<1> QED
  BY <1>6

LEMMA PinRemoved ==
    ASSUME NEW held \in [Threads -> [Slots -> 0 .. MaxItems - 1 \cup {None}]],
           NEW t \in Threads, NEW k \in Slots, held[t][k] # None, NEW b,
           NEW held2,
           \A u \in Threads, m \in Slots : held2[u][m] = IF u = t /\ m = k THEN None ELSE held[u][m]
    PROVE  Cardinality(Pins(held2, b)) =
                Cardinality(Pins(held, b)) - (IF b = Base(held[t][k]) THEN 1 ELSE 0)
<1>1. /\ held2[t][k] = None
      /\ \A u \in Threads, m \in Slots : <<u, m>> # <<t, k>> => held2[u][m] = held[u][m]
  OBVIOUS
<1>2. Pins(held2, b) = Pins(held, b) \ {<<t, k>>}
  BY <1>1 DEF Pins
<1>3. <<t, k>> \in Pins(held, b) <=> b = Base(held[t][k])
  BY DEF Pins
<1>4. Cardinality(Pins(held, b)) \in Nat
  BY PinsFinite, FS_CardinalityType
<1>5. Cardinality(Pins(held, b) \ {<<t, k>>}) =
        IF <<t, k>> \in Pins(held, b) THEN Cardinality(Pins(held, b)) - 1 ELSE Cardinality(Pins(held, b))
  BY PinsFinite, FS_RemoveElement
<1>6. Cardinality(Pins(held2, b)) =
        Cardinality(Pins(held, b)) - (IF b = Base(held[t][k]) THEN 1 ELSE 0)
  BY <1>2, <1>3, <1>4, <1>5
<1> QED
  BY <1>6

-----------------------------------------------------------------------------
(* What the operations do to the items. *)

\* Whoever uses a block, its items stay.
LEMMA UsersOnly ==
    ASSUME NEW d, NEW c, NEW n \in Nat, DataOK(d, c, n), NEW c2, DOMAIN c2 = DOMAIN c,
           \A b \in DOMAIN c : c2[b] \in Block /\ c2[b].data = c[b].data /\ c2[b].dirty = c[b].dirty
    PROVE  DataOK(d, c2, n) /\ \A i \in 0 .. n - 1 : ItemOf(d, c2, i) = ItemOf(d, c, i)
  BY DEF DataOK, ItemOf

LEMMA BlockFacts ==
    ASSUME NEW data \in [Offsets -> Values \cup {Unread}], NEW dirty \in BOOLEAN, NEW users \in Nat
    PROVE  /\ BlockEntry(data, dirty, users) \in Block
           /\ BlockEntry(data, dirty, users).data = data
           /\ BlockEntry(data, dirty, users).dirty = dirty
           /\ BlockEntry(data, dirty, users).users = users
  BY DEF BlockEntry, Block

LEMMA BlockFields ==
    ASSUME NEW block \in Block
    PROVE  /\ block.data \in [Offsets -> Values \cup {Unread}]
           /\ block.dirty \in BOOLEAN /\ block.users \in Nat
  BY DEF Block

\* FlushItem writes one block and changes no item.
LEMMA FlushItemFacts ==
    ASSUME IInv, NEW j \in Int
    PROVE  LET d == FlushedDisk(j)
               c == FlushedCache(j)
           IN /\ d \in [0 .. MaxItems - 1 -> Values \cup {Unread}]
              /\ DOMAIN c = DOMAIN cached
              /\ \A b \in DOMAIN c : c[b] \in Block /\ c[b].data = cached[b].data /\ c[b].users = cached[b].users
              /\ Base(j) \in DOMAIN c => ~c[Base(j)].dirty
              /\ DataOK(d, c, count)
              /\ \A i \in 0 .. count - 1 : ItemOf(d, c, i) = ItemOf(disk, cached, i)
<1> DEFINE d == FlushedDisk(j)
           c == FlushedCache(j)
<1>1. /\ disk \in [0 .. MaxItems - 1 -> Values \cup {Unread}] /\ count \in 0 .. MaxItems
      /\ DataOK(disk, cached, count) /\ count \in Nat
  BY BlockCacheAssumption DEF IInv, TypeOK
<1>2. \A b \in DOMAIN cached : cached[b] \in Block /\ b \in Int /\ Base(b) = b
  BY <1>1 DEF DataOK
<1>3. \A b \in DOMAIN cached : MarkClean(cached[b]) \in Block
            /\ MarkClean(cached[b]).data = cached[b].data
            /\ MarkClean(cached[b]).users = cached[b].users /\ MarkClean(cached[b]).dirty = FALSE
  <2> SUFFICES ASSUME NEW b \in DOMAIN cached
               PROVE  /\ MarkClean(cached[b]) \in Block
                      /\ MarkClean(cached[b]).data = cached[b].data
                      /\ MarkClean(cached[b]).users = cached[b].users /\ MarkClean(cached[b]).dirty = FALSE
    OBVIOUS
  <2>1. cached[b].data \in [Offsets -> Values \cup {Unread}] /\ cached[b].users \in Nat
    BY <1>2, BlockFields
  <2> QED
    BY <2>1 DEF MarkClean, BlockEntry, Block
<1>4. /\ DOMAIN c = DOMAIN cached
      /\ \A b \in DOMAIN c : c[b] \in Block /\ c[b].data = cached[b].data /\ c[b].users = cached[b].users
      /\ \A b \in DOMAIN c : c[b].dirty = IF b = Base(j) THEN FALSE ELSE cached[b].dirty
  <2>1. CASE Base(j) \in DOMAIN cached
    <3>1. /\ DOMAIN c = DOMAIN cached /\ c[Base(j)] = MarkClean(cached[Base(j)])
          /\ \A b \in DOMAIN c : b # Base(j) => c[b] = cached[b]
      BY <2>1 DEF FlushedCache
    <3> HIDE DEF c
    <3> QED
      BY <2>1, <3>1, <1>2, <1>3
  <2>2. CASE Base(j) \notin DOMAIN cached
    BY <2>2, <1>2 DEF FlushedCache
  <2> QED
    BY <2>1, <2>2
<1>5. /\ d \in [0 .. MaxItems - 1 -> Values \cup {Unread}]
      /\ \A i \in 0 .. count - 1 :
            d[i] = IF Base(i) = Base(j) /\ Base(j) \in DOMAIN cached /\ cached[Base(j)].dirty
                   THEN cached[Base(i)].data[i % PerBlock] ELSE disk[i]
  <2>1. CASE Base(j) \in DOMAIN cached /\ cached[Base(j)].dirty
    <3>1. /\ d = StoreItems(Base(j), cached[Base(j)].data, disk, count)
          /\ Base(j) \in Int /\ Base(Base(j)) = Base(j) /\ cached[Base(j)] \in Block
      BY <2>1, <1>2 DEF FlushedDisk
    <3>2. /\ StoreItems(Base(j), cached[Base(j)].data, disk, count)
                \in [0 .. MaxItems - 1 -> Values \cup {Unread}]
          /\ \A i \in 0 .. count - 1 : StoreItems(Base(j), cached[Base(j)].data, disk, count)[i] =
                IF Base(i) = Base(j) THEN cached[Base(j)].data[i % PerBlock] ELSE disk[i]
      BY ZenonT(30), <3>1, <1>1, StoreItemsFacts
    <3> HIDE DEF d
    <3> QED
      BY <3>1, <3>2, <2>1
  <2>2. CASE ~(Base(j) \in DOMAIN cached /\ cached[Base(j)].dirty)
    BY <2>2, <1>1 DEF FlushedDisk
  <2> QED
    BY <2>1, <2>2
<1> HIDE DEF c, d
<1>6. DataOK(d, c, count)
  BY <1>1, <1>4, <1>5 DEF DataOK
<1>7. \A i \in 0 .. count - 1 : ItemOf(d, c, i) = ItemOf(disk, cached, i)
  BY <1>1, <1>4, <1>5 DEF DataOK, ItemOf
<1> QED
  BY <1>4, <1>5, <1>6, <1>7 DEF c, d

-----------------------------------------------------------------------------
(* The actions: each preserves the invariant, and most of them the items. *)

Keeps == count' = count /\ \A i \in 0 .. count - 1 : ItemOf(disk', cached', i) = ItemOf(disk, cached, i)

LEMMA Types ==
    ASSUME IInv
    PROVE  /\ count \in 0 .. MaxItems /\ count \in Nat /\ 0 .. count - 1 \subseteq 0 .. MaxItems - 1
           /\ disk \in [0 .. MaxItems - 1 -> Values \cup {Unread}]
           /\ \A b \in DOMAIN cached :
                /\ cached[b] \in Block /\ b \in 0 .. count - 1 /\ b \in Int /\ Base(b) = b
                /\ cached[b].data \in [Offsets -> Values \cup {Unread}]
                /\ cached[b].dirty \in BOOLEAN /\ cached[b].users \in Nat
           /\ slot \in [Threads -> [Slots -> 0 .. MaxItems - 1 \cup {None}]]
<1>1. /\ count \in 0 .. MaxItems /\ count \in Nat /\ 0 .. count - 1 \subseteq 0 .. MaxItems - 1
      /\ disk \in [0 .. MaxItems - 1 -> Values \cup {Unread}]
      /\ slot \in [Threads -> [Slots -> 0 .. MaxItems - 1 \cup {None}]]
  BY BlockCacheAssumption DEF IInv, TypeOK
<1>2. ASSUME NEW b \in DOMAIN cached
      PROVE  /\ cached[b] \in Block /\ b \in 0 .. count - 1 /\ b \in Int /\ Base(b) = b
             /\ cached[b].data \in [Offsets -> Values \cup {Unread}]
             /\ cached[b].dirty \in BOOLEAN /\ cached[b].users \in Nat
  <2>1. cached[b] \in Block /\ b \in 0 .. count - 1 /\ Base(b) = b
    BY DEF IInv, DataOK
  <2> QED
    BY <2>1, <1>1, BlockFields
<1> QED
  BY <1>1, <1>2

\* A file and blocks in order are of their types.
LEMMA TypesNext ==
    ASSUME NEW d \in [0 .. MaxItems - 1 -> Values \cup {Unread}], NEW c,
           NEW n \in 0 .. MaxItems, DataOK(d, c, n)
    PROVE  DOMAIN c \subseteq {Base(i) : i \in 0 .. MaxItems - 1} /\ \A b \in DOMAIN c : c[b] \in Block
<1>1. \A b \in DOMAIN c : b \in 0 .. MaxItems - 1 /\ Base(b) = b /\ c[b] \in Block
  BY BlockCacheAssumption DEF DataOK
<1> QED
  BY <1>1

\* A step that leaves blocks, items and pins alone.
LEMMA NothingMoved ==
    ASSUME IInv, UNCHANGED <<disk, count, cached, slot>>,
           mSync' \in Threads \cup {None},
           fetch' \in [item : 0 .. MaxItems - 1 \cup {None}, to : Slots], FetchExists'
    PROVE  IInv' /\ Keeps
  BY DEF IInv, TypeOK, DataOK, PinnedBlocksStay, PinsExist, Keeps, ItemOf

\* The cached block of item i gets a user more.
LEMMA RegisterUserFacts ==
    ASSUME IInv, NEW i \in 0 .. count - 1, Base(i) \in DOMAIN cached
    PROVE  LET c == RegisterUser(cached, i) IN
           /\ DOMAIN c = DOMAIN cached
           /\ \A b \in DOMAIN c : c[b].users = cached[b].users + (IF b = Base(i) THEN 1 ELSE 0)
           /\ DataOK(disk, c, count)
           /\ \A j \in 0 .. count - 1 : ItemOf(disk, c, j) = ItemOf(disk, cached, j)
<1> DEFINE c == RegisterUser(cached, i)
           x == cached[Base(i)]
<1>1. /\ DOMAIN c = DOMAIN cached
      /\ c[Base(i)] = BlockEntry(x.data, x.dirty, x.users + 1)
      /\ \A b \in DOMAIN c : b # Base(i) => c[b] = cached[b]
  BY DEF RegisterUser
<1>2. x.data \in [Offsets -> Values \cup {Unread}] /\ x.dirty \in BOOLEAN /\ x.users + 1 \in Nat
  BY Types
<1>3. /\ c[Base(i)] \in Block /\ c[Base(i)].data = x.data
      /\ c[Base(i)].dirty = x.dirty /\ c[Base(i)].users = x.users + 1
  <2> HIDE DEF x, c
  <2> QED
    BY <1>1, <1>2, BlockFacts
<1> HIDE DEF c
<1>4. \A b \in DOMAIN c : /\ c[b] \in Block /\ c[b].data = cached[b].data /\ c[b].dirty = cached[b].dirty
                          /\ c[b].users = cached[b].users + (IF b = Base(i) THEN 1 ELSE 0)
  <2>1. \A b \in DOMAIN cached : cached[b] \in Block /\ cached[b].users \in Nat
    BY Types
  <2> QED
    BY <2>1, <1>1, <1>3
<1>5. DataOK(disk, cached, count) /\ count \in Nat
  BY Types DEF IInv
<1>6. DataOK(disk, c, count) /\ \A j \in 0 .. count - 1 : ItemOf(disk, c, j) = ItemOf(disk, cached, j)
  BY <1>1, <1>4, <1>5, UsersOnly
<1> QED
  BY <1>1, <1>4, <1>6 DEF c

\* The cached block of item i has a user less.
LEMMA ReleaseUserFacts ==
    ASSUME IInv, NEW i \in 0 .. count - 1, Base(i) \in DOMAIN cached, cached[Base(i)].users > 0
    PROVE  LET c == ReleaseUser(cached, i) IN
           /\ DOMAIN c = DOMAIN cached
           /\ \A b \in DOMAIN c : c[b].users = cached[b].users - (IF b = Base(i) THEN 1 ELSE 0)
           /\ DataOK(disk, c, count)
           /\ \A j \in 0 .. count - 1 : ItemOf(disk, c, j) = ItemOf(disk, cached, j)
<1> DEFINE c == ReleaseUser(cached, i)
           x == cached[Base(i)]
<1>1. /\ DOMAIN c = DOMAIN cached
      /\ c[Base(i)] = BlockEntry(x.data, x.dirty, x.users - 1)
      /\ \A b \in DOMAIN c : b # Base(i) => c[b] = cached[b]
  BY DEF ReleaseUser
<1>2. x.data \in [Offsets -> Values \cup {Unread}] /\ x.dirty \in BOOLEAN /\ x.users - 1 \in Nat
  BY Types
<1>3. /\ c[Base(i)] \in Block /\ c[Base(i)].data = x.data
      /\ c[Base(i)].dirty = x.dirty /\ c[Base(i)].users = x.users - 1
  <2> HIDE DEF x, c
  <2> QED
    BY <1>1, <1>2, BlockFacts
<1> HIDE DEF c
<1>4. \A b \in DOMAIN c : /\ c[b] \in Block /\ c[b].data = cached[b].data /\ c[b].dirty = cached[b].dirty
                          /\ c[b].users = cached[b].users - (IF b = Base(i) THEN 1 ELSE 0)
  <2>1. \A b \in DOMAIN cached : cached[b] \in Block /\ cached[b].users \in Nat
    BY Types
  <2> QED
    BY <2>1, <1>1, <1>3
<1>5. DataOK(disk, cached, count) /\ count \in Nat
  BY Types DEF IInv
<1>6. DataOK(disk, c, count) /\ \A j \in 0 .. count - 1 : ItemOf(disk, c, j) = ItemOf(disk, cached, j)
  BY <1>1, <1>4, <1>5, UsersOnly
<1> QED
  BY <1>1, <1>4, <1>6 DEF c

LEMMA RetriveIInv ==
    ASSUME IInv, NEW t \in Threads, NEW k \in Slots, NEW i \in 0 .. MaxItems - 1, RetriveItem(t, i, k)
    PROVE  IInv' /\ Keeps
<1>1. /\ mSync = t /\ fetch = NoFetch /\ slot[t][k] = None /\ i \in 0 .. count - 1
      /\ UNCHANGED <<disk, count, mSync>>
  BY Types DEF RetriveItem, Inside
<1>2. CASE Base(i) \in DOMAIN cached
  <2>1. /\ cached' = RegisterUser(cached, i)
        /\ slot' = [slot EXCEPT ![t][k] = i] /\ fetch' = fetch
    BY <1>2 DEF RetriveItem
  <2>2. /\ DOMAIN cached' = DOMAIN cached
        /\ \A b \in DOMAIN cached' : cached'[b].users = cached[b].users + (IF b = Base(i) THEN 1 ELSE 0)
        /\ DataOK(disk, cached', count)
        /\ \A j \in 0 .. count - 1 : ItemOf(disk, cached', j) = ItemOf(disk, cached, j)
    BY <2>1, <1>1, <1>2, RegisterUserFacts
  <2>3. /\ \A u \in Threads, m \in Slots : slot'[u][m] = IF u = t /\ m = k THEN i ELSE slot[u][m]
        /\ slot' \in [Threads -> [Slots -> 0 .. MaxItems - 1 \cup {None}]]
    BY <2>1, Types
  <2>4. TypeOK'
    <3>1. DOMAIN cached' \subseteq {Base(j) : j \in 0 .. MaxItems - 1} /\ \A b \in DOMAIN cached' : cached'[b] \in Block
      BY <2>2, Types, TypesNext
    <3> QED
      BY <3>1, <2>1, <2>3, <1>1 DEF IInv, TypeOK
  <2>5. PinnedBlocksStay'
    <3>1. ASSUME NEW b \in DOMAIN cached PROVE Cardinality(Pins(slot', b)) = cached'[b].users
      <4>1. Cardinality(Pins(slot', b)) = Cardinality(Pins(slot, b)) + (IF b = Base(i) THEN 1 ELSE 0)
        BY <1>1, <2>3, Types, PinAdded
      <4> QED
        BY <4>1, <2>2 DEF IInv, PinnedBlocksStay
    <3>2. \A u \in Threads, m \in Slots : slot'[u][m] # None => Base(slot'[u][m]) \in DOMAIN cached'
      BY <2>2, <2>3, <1>2 DEF IInv, PinnedBlocksStay
    <3> QED
      BY <3>1, <3>2, <2>2 DEF PinnedBlocksStay
  <2>6. PinsExist' /\ FetchExists'
    BY <2>1, <2>3, <1>1 DEF IInv, PinsExist, FetchExists
  <2> QED
    BY <2>2, <2>4, <2>5, <2>6, <1>1 DEF IInv, Keeps
<1>3. CASE Base(i) \notin DOMAIN cached
  <2>1. /\ fetch' = [item |-> i, to |-> k] /\ UNCHANGED <<cached, slot>>
    BY <1>3 DEF RetriveItem
  <2>2. FetchExists'
    BY <2>1, <1>1, <1>3 DEF FetchExists
  <2> QED
    BY <2>1, <2>2, <1>1, NothingMoved
<1> QED
  BY <1>2, <1>3

LEMMA LoadIInv ==
    ASSUME IInv, NEW t \in Threads, LoadBlock(t)
    PROVE  IInv' /\ Keeps
<1> DEFINE i == fetch.item
           k == fetch.to
           data == RetrieveItems(Base(i), [o \in Offsets |-> Unread], disk, count)
           new == BlockEntry(data, FALSE, 1)
<1>1. /\ mSync = t /\ fetch # NoFetch /\ UNCHANGED <<disk, count, mSync>>
      /\ cached' = [b \in DOMAIN cached \cup {Base(i)} |-> IF b = Base(i) THEN new ELSE cached[b]]
      /\ slot' = [slot EXCEPT ![t][k] = i] /\ fetch' = NoFetch
  BY DEF LoadBlock
<1>2. /\ i \in 0 .. count - 1 /\ i \in Int /\ Base(i) \notin DOMAIN cached /\ slot[t][k] = None
      /\ k \in Slots /\ i \in 0 .. MaxItems - 1
  BY <1>1, Types DEF IInv, FetchExists, TypeOK
<1>3. /\ Base(i) \in 0 .. count - 1 /\ Base(Base(i)) = Base(i)
  <2>1. count \in Nat
    BY Types
  <2>2. Base(i) \in Int /\ Base(i) <= i /\ (i >= 0 => Base(i) >= 0) /\ Base(Base(i)) = Base(i)
    BY <1>2, BaseBounds, BaseOfBase
  <2> HIDE DEF i
  <2> QED
    BY <2>1, <2>2, <1>2
<1>4. data \in [Offsets -> Values \cup {Unread}]
  <2>1. \A o \in Offsets : Base(i) + o < count => disk[Base(i) + o] \in Values \cup {Unread}
    <3>1. \A o \in Offsets : Base(i) + o < count => Base(i) + o \in 0 .. MaxItems - 1
      BY <1>3, Types, PerBlockPositive, BlockCacheAssumption DEF Offsets
    <3> QED
      BY <3>1, Types
  <2> QED
    BY <2>1 DEF RetrieveItems
<1>5. \A j \in 0 .. count - 1 : Base(j) = Base(i) => data[j % PerBlock] = disk[j]
  <2> SUFFICES ASSUME NEW j \in 0 .. count - 1, Base(j) = Base(i) PROVE data[j % PerBlock] = disk[j]
    OBVIOUS
  <2>1. j \in Int /\ j % PerBlock = j - Base(i) /\ j % PerBlock \in Offsets
    BY Types, BaseBounds
  <2>2. Base(i) + (j % PerBlock) = j
    BY <2>1, <1>3
  <2>3. j < count
    BY Types
  <2> QED
    BY <2>1, <2>2, <2>3 DEF RetrieveItems
<1>6. new \in Block /\ new.data = data /\ new.dirty = FALSE /\ new.users = 1
  <2> HIDE DEF data
  <2> QED
    BY <1>4 DEF BlockEntry, Block
<1> HIDE DEF new, data
<1>7. /\ DOMAIN cached' = DOMAIN cached \cup {Base(i)} /\ cached'[Base(i)] = new
      /\ \A b \in DOMAIN cached : cached'[b] = cached[b]
  BY <1>1, <1>2
<1>8. DataOK(disk, cached', count) /\ \A j \in 0 .. count - 1 : ItemOf(disk, cached', j) = ItemOf(disk, cached, j)
  <2>1. DataOK(disk, cached, count)
    BY DEF IInv
  <2> QED
    BY <2>1, <1>3, <1>5, <1>6, <1>7 DEF DataOK, ItemOf
<1>9. /\ \A u \in Threads, m \in Slots : slot'[u][m] = IF u = t /\ m = k THEN i ELSE slot[u][m]
      /\ slot' \in [Threads -> [Slots -> 0 .. MaxItems - 1 \cup {None}]]
  <2> HIDE DEF i, k
  <2> QED
    BY <1>1, <1>2, Types
<1>10. TypeOK'
  <2>1. DOMAIN cached' \subseteq {Base(j) : j \in 0 .. MaxItems - 1} /\ \A b \in DOMAIN cached' : cached'[b] \in Block
    BY <1>8, Types, TypesNext
  <2>2. fetch' \in [item : 0 .. MaxItems - 1 \cup {None}, to : Slots]
    BY <1>1, BlockCacheAssumption DEF NoFetch, Slots
  <2> QED
    BY <2>1, <2>2, <1>1, <1>9 DEF IInv, TypeOK
<1>11. PinnedBlocksStay'
  <2>1. ASSUME NEW b \in DOMAIN cached' PROVE Cardinality(Pins(slot', b)) = cached'[b].users
    <3>1. Cardinality(Pins(slot', b)) = Cardinality(Pins(slot, b)) + (IF b = Base(i) THEN 1 ELSE 0)
      <4> HIDE DEF i, k
      <4> QED
        BY <1>2, <1>9, Types, PinAdded
    <3>2. CASE b = Base(i)
      <4>1. Pins(slot, b) = {}
        BY <3>2, <1>2 DEF IInv, PinnedBlocksStay, Pins
      <4>2. Cardinality(Pins(slot, b)) = 0
        BY <4>1, FS_EmptySet
      <4> QED
        BY <3>1, <3>2, <4>2, <1>6, <1>7
    <3>3. CASE b # Base(i)
      <4>1. b \in DOMAIN cached /\ cached'[b] = cached[b] /\ cached[b].users \in Nat
        BY <3>3, <1>7, Types
      <4> QED
        BY <3>1, <3>3, <4>1 DEF IInv, PinnedBlocksStay
    <3> QED
      BY <3>2, <3>3
  <2>2. \A u \in Threads, m \in Slots : slot'[u][m] # None => Base(slot'[u][m]) \in DOMAIN cached'
    BY <1>7, <1>9 DEF IInv, PinnedBlocksStay
  <2> QED
    BY <2>1, <2>2 DEF PinnedBlocksStay
<1>12. PinsExist' /\ FetchExists'
  BY <1>1, <1>2, <1>9 DEF IInv, PinsExist, FetchExists
<1> QED
  BY <1>1, <1>8, <1>10, <1>11, <1>12 DEF IInv, Keeps

LEMMA ReleaseIInv ==
    ASSUME IInv, NEW t \in Threads, NEW k \in Slots, Release(t, k)
    PROVE  IInv' /\ Keeps
<1> DEFINE i == slot[t][k]
<1>1. /\ i # None /\ UNCHANGED <<disk, count, mSync, fetch>>
      /\ cached' = ReleaseUser(cached, i) /\ slot' = [slot EXCEPT ![t][k] = None]
  BY DEF Release
<1>2. /\ i \in 0 .. count - 1 /\ Base(i) \in DOMAIN cached
      /\ cached[Base(i)].users = Cardinality(Pins(slot, Base(i)))
  BY <1>1 DEF IInv, PinsExist, PinnedBlocksStay
<1>3. cached[Base(i)].users > 0
  <2>1. <<t, k>> \in Pins(slot, Base(i))
    BY <1>1 DEF Pins
  <2>2. Cardinality(Pins(slot, Base(i))) # 0
    BY <2>1, PinsFinite, FS_EmptySet
  <2> QED
    BY <2>2, <1>2, Types
<1>4. /\ \A u \in Threads, m \in Slots : slot'[u][m] = IF u = t /\ m = k THEN None ELSE slot[u][m]
      /\ slot' \in [Threads -> [Slots -> 0 .. MaxItems - 1 \cup {None}]]
  BY <1>1, Types
<1>5. /\ DOMAIN cached' = DOMAIN cached
      /\ \A b \in DOMAIN cached' : cached'[b].users = cached[b].users - (IF b = Base(i) THEN 1 ELSE 0)
      /\ DataOK(disk, cached', count)
      /\ \A j \in 0 .. count - 1 : ItemOf(disk, cached', j) = ItemOf(disk, cached, j)
  <2> HIDE DEF i
  <2> QED
    BY <1>1, <1>2, <1>3, ReleaseUserFacts
<1>6. TypeOK'
  <2>1. DOMAIN cached' \subseteq {Base(j) : j \in 0 .. MaxItems - 1} /\ \A b \in DOMAIN cached' : cached'[b] \in Block
    BY <1>5, Types, TypesNext
  <2> QED
    BY <2>1, <1>1, <1>4 DEF IInv, TypeOK
<1>7. PinnedBlocksStay'
  <2>1. ASSUME NEW b \in DOMAIN cached PROVE Cardinality(Pins(slot', b)) = cached'[b].users
    <3>1. Cardinality(Pins(slot', b)) = Cardinality(Pins(slot, b)) - (IF b = Base(i) THEN 1 ELSE 0)
      <4>1. slot \in [Threads -> [Slots -> 0 .. MaxItems - 1 \cup {None}]] /\ slot[t][k] # None
        BY <1>1, Types
      <4>2. \A u \in Threads, m \in Slots : slot'[u][m] = IF u = t /\ m = k THEN None ELSE slot[u][m]
        BY <1>4
      <4> QED
        BY <4>1, <4>2, PinRemoved
    <3> QED
      BY <3>1, <1>5 DEF IInv, PinnedBlocksStay
  <2>2. \A u \in Threads, m \in Slots : slot'[u][m] # None => Base(slot'[u][m]) \in DOMAIN cached'
    BY <1>4, <1>5 DEF IInv, PinnedBlocksStay
  <2> QED
    BY <2>1, <2>2, <1>5 DEF PinnedBlocksStay
<1>8. PinsExist'
  BY <1>1, <1>4 DEF IInv, PinsExist
<1>9. FetchExists'
  BY <1>1, <1>4, <1>5 DEF IInv, FetchExists, TypeOK
<1> QED
  BY <1>1, <1>5, <1>6, <1>7, <1>8, <1>9 DEF IInv, Keeps

LEMMA EvictIInv ==
    ASSUME IInv, NEW t \in Threads, NEW b \in DOMAIN cached, EvictBlock(t, b)
    PROVE  IInv' /\ Keeps
<1>1. /\ UNCHANGED <<count, slot, mSync, fetch>> /\ cached[b].users = 0
      /\ disk' = IF cached[b].dirty THEN StoreItems(b, cached[b].data, disk, count) ELSE disk
      /\ cached' = [c \in DOMAIN cached \ {b} |-> cached[c]]
  BY Types DEF EvictBlock, IsInUse
<1>2. /\ disk' \in [0 .. MaxItems - 1 -> Values \cup {Unread}]
      /\ \A i \in 0 .. count - 1 :
            disk'[i] = IF Base(i) = b /\ cached[b].dirty THEN cached[b].data[i % PerBlock] ELSE disk[i]
  <2>1. CASE cached[b].dirty
    <3>1. /\ StoreItems(b, cached[b].data, disk, count) \in [0 .. MaxItems - 1 -> Values \cup {Unread}]
          /\ \A i \in 0 .. count - 1 : StoreItems(b, cached[b].data, disk, count)[i] =
                IF Base(i) = b THEN cached[b].data[i % PerBlock] ELSE disk[i]
      <4>1. /\ disk \in [0 .. MaxItems - 1 -> Values \cup {Unread}] /\ count \in 0 .. MaxItems
            /\ b \in Int /\ Base(b) = b /\ cached[b] \in Block
        BY Types
      <4> QED
        BY ZenonT(30), <4>1, StoreItemsFacts
    <3> QED
      BY <3>1, <2>1, <1>1
  <2>2. CASE ~cached[b].dirty
    BY <2>2, <1>1, Types
  <2> QED
    BY <2>1, <2>2
<1>3. /\ DOMAIN cached' = DOMAIN cached \ {b}
      /\ \A c \in DOMAIN cached' : cached'[c] = cached[c]
  BY <1>1
<1>4. DataOK(disk, cached, count)
  BY DEF IInv
<1>5. DataOK(disk', cached', count) /\ \A i \in 0 .. count - 1 : ItemOf(disk', cached', i) = ItemOf(disk, cached, i)
  BY <1>2, <1>3, <1>4 DEF DataOK, ItemOf
<1>6. TypeOK'
  <2>1. DOMAIN cached' \subseteq {Base(j) : j \in 0 .. MaxItems - 1} /\ \A c \in DOMAIN cached' : cached'[c] \in Block
    BY <1>2, <1>5, Types, TypesNext
  <2> QED
    BY <2>1, <1>1, <1>2 DEF IInv, TypeOK
<1>7. PinnedBlocksStay'
  <2>1. Pins(slot, b) = {}
    <3>1. Cardinality(Pins(slot, b)) = 0
      BY <1>1 DEF IInv, PinnedBlocksStay
    <3>2. IsFiniteSet(Pins(slot, b))
      BY PinsFinite
    <3> QED
      BY <3>1, <3>2, FS_EmptySet
  <2>2. \A u \in Threads, m \in Slots : slot[u][m] # None => Base(slot[u][m]) # b
    <3> SUFFICES ASSUME NEW u \in Threads, NEW m \in Slots, slot[u][m] # None, Base(slot[u][m]) = b
                 PROVE  FALSE
      OBVIOUS
    <3>1. <<u, m>> \in Pins(slot, b)
      BY DEF Pins
    <3> QED
      BY <2>1, <3>1
  <2>3. \A u \in Threads, m \in Slots : slot'[u][m] # None => Base(slot'[u][m]) \in DOMAIN cached'
    BY <2>2, <1>1, <1>3 DEF IInv, PinnedBlocksStay
  <2>4. \A c \in DOMAIN cached' : cached'[c].users = Cardinality(Pins(slot', c))
    BY <1>1, <1>3 DEF IInv, PinnedBlocksStay
  <2> QED
    BY <2>3, <2>4 DEF PinnedBlocksStay
<1>8. PinsExist' /\ FetchExists'
  BY <1>1, <1>3 DEF IInv, PinsExist, FetchExists
<1> QED
  BY <1>1, <1>5, <1>6, <1>7, <1>8 DEF IInv, Keeps

\* The write through a StoredItem changes the item it points to.
LEMMA UpdateIInv ==
    ASSUME IInv, NEW t \in Threads, NEW k \in Slots, NEW v \in Values, GetDataForUpdate(t, k, v)
    PROVE  /\ IInv' /\ count' = count /\ slot[t][k] \in 0 .. count - 1
           /\ \A j \in 0 .. count - 1 : ItemOf(disk', cached', j) =
                IF j = slot[t][k] THEN v ELSE ItemOf(disk, cached, j)
<1> DEFINE i == slot[t][k]
           x == cached[Base(i)]
           data == [x.data EXCEPT ![i % PerBlock] = v]
<1>1. /\ i # None /\ UNCHANGED <<disk, count, slot, mSync, fetch>>
      /\ cached' = [cached EXCEPT ![Base(i)] = BlockEntry(data, TRUE, x.users)]
  BY DEF GetDataForUpdate
<1>2. /\ i \in 0 .. count - 1 /\ Base(i) \in DOMAIN cached
  BY <1>1 DEF IInv, PinsExist, PinnedBlocksStay
<1>3. x.data \in [Offsets -> Values \cup {Unread}] /\ x.users \in Nat
  BY <1>2, Types
<1>4. i \in Int /\ i % PerBlock \in Offsets /\ i % PerBlock = i - Base(i)
  <2>1. i \in Int
    BY <1>2, Types
  <2> HIDE DEF i
  <2> QED
    BY <2>1, BaseBounds
<1>5. /\ data \in [Offsets -> Values \cup {Unread}]
      /\ \A o \in Offsets : data[o] = IF o = i % PerBlock THEN v ELSE x.data[o]
  <2> HIDE DEF i, x
  <2> QED
    BY <1>3, <1>4
<1>6. BlockEntry(data, TRUE, x.users) \in Block /\ BlockEntry(data, TRUE, x.users).data = data
      /\ BlockEntry(data, TRUE, x.users).dirty = TRUE /\ BlockEntry(data, TRUE, x.users).users = x.users
  <2> HIDE DEF data, x
  <2> QED
    BY <1>3, <1>5 DEF BlockEntry, Block
<1>7. /\ DOMAIN cached' = DOMAIN cached /\ cached'[Base(i)] = BlockEntry(data, TRUE, x.users)
      /\ \A b \in DOMAIN cached : b # Base(i) => cached'[b] = cached[b]
  <2> HIDE DEF data, x, i
  <2> QED
    BY <1>1, <1>2
<1>8. \A j \in 0 .. count - 1 : Base(j) = Base(i) =>
        j % PerBlock \in Offsets /\ (j % PerBlock = i % PerBlock <=> j = i)
  <2> SUFFICES ASSUME NEW j \in 0 .. count - 1, Base(j) = Base(i)
               PROVE  j % PerBlock \in Offsets /\ (j % PerBlock = i % PerBlock <=> j = i)
    OBVIOUS
  <2>1. j \in Int /\ j % PerBlock \in Offsets /\ j % PerBlock = j - Base(j) /\ Base(j) \in Int
    BY Types, BaseBounds
  <2> HIDE DEF i
  <2> QED
    BY <2>1, <1>4
<1>9. DataOK(disk, cached, count)
  BY DEF IInv
<1>10. \A b \in DOMAIN cached' : cached'[b].users = cached[b].users /\ cached'[b] \in Block
  <2> HIDE DEF data, i
  <2> QED
    BY <1>6, <1>7, Types
<1>15. ASSUME NEW j \in 0 .. count - 1, Base(j) = Base(i)
        PROVE  /\ cached'[Base(j)].data[j % PerBlock] = IF j = i THEN v ELSE cached[Base(j)].data[j % PerBlock]
               /\ cached'[Base(j)].dirty = TRUE
  <2>1. cached'[Base(j)].data = data /\ cached'[Base(j)].dirty = TRUE /\ x = cached[Base(j)]
    <3> HIDE DEF data
    <3> QED
      BY <1>6, <1>7, <1>15
  <2> HIDE DEF data, x, i
  <2> QED
    BY <2>1, <1>5, <1>8, <1>15
<1> HIDE DEF data, x, i
<1>11. DataOK(disk, cached', count)
  <2> SUFFICES ASSUME NEW j \in 0 .. count - 1, Base(j) \in DOMAIN cached'
               PROVE  /\ cached'[Base(j)].data[j % PerBlock] \in Values
                      /\ ~cached'[Base(j)].dirty => cached'[Base(j)].data[j % PerBlock] = disk[j]
    BY <1>7, <1>9, <1>10 DEF DataOK
  <2>1. CASE Base(j) = Base(i)
    BY <2>1, <1>15, <1>7, <1>9 DEF DataOK
  <2>2. CASE Base(j) # Base(i)
    BY <2>2, <1>7, <1>9 DEF DataOK
  <2> QED
    BY <2>1, <2>2
<1>12. \A j \in 0 .. count - 1 : ItemOf(disk, cached', j) = IF j = i THEN v ELSE ItemOf(disk, cached, j)
  <2> SUFFICES ASSUME NEW j \in 0 .. count - 1
               PROVE  ItemOf(disk, cached', j) = IF j = i THEN v ELSE ItemOf(disk, cached, j)
    OBVIOUS
  <2>1. CASE Base(j) = Base(i)
    BY <2>1, <1>2, <1>15, <1>7 DEF ItemOf
  <2>2. CASE Base(j) # Base(i)
    BY <2>2, <1>7 DEF ItemOf
  <2> QED
    BY <2>1, <2>2
<1>13. TypeOK'
  <2>1. DOMAIN cached' \subseteq {Base(j) : j \in 0 .. MaxItems - 1}
    BY <1>7 DEF IInv, TypeOK
  <2> QED
    BY <2>1, <1>1, <1>10 DEF IInv, TypeOK
<1>14. PinnedBlocksStay' /\ PinsExist' /\ FetchExists'
  BY <1>1, <1>7, <1>10 DEF IInv, PinnedBlocksStay, PinsExist, FetchExists
<1> QED
  BY <1>1, <1>2, <1>11, <1>12, <1>13, <1>14 DEF IInv, i

\* An append changes no item but the new one.
LEMMA AppendIInv ==
    ASSUME IInv, NEW t \in Threads, NEW v \in Values, AppendItem(t, v)
    PROVE  /\ IInv' /\ count' = count + 1 /\ count < MaxItems
           /\ \A j \in 0 .. count : ItemOf(disk', cached', j) =
                IF j = count THEN v ELSE ItemOf(disk, cached, j)
<1> DEFINE d == FlushedDisk(count - 1)
           c == FlushedCache(count - 1)
           b == Base(count)
           x == c[b]
           data == RetrieveItems(b, x.data, disk', count + 1)
<1>1. /\ count < MaxItems /\ count' = count + 1 /\ fetch = NoFetch
      /\ disk' = [d EXCEPT ![count] = v]
      /\ cached' = Refreshed(c, count, disk', count + 1)
      /\ UNCHANGED <<slot, mSync, fetch>>
  BY DEF AppendItem, Inside
<1>2. /\ count \in Nat /\ count \in 0 .. MaxItems - 1 /\ count - 1 \in Int /\ MaxItems \in Nat
      /\ count + 1 \in 0 .. MaxItems
  BY <1>1, Types, BlockCacheAssumption
<1>3. /\ d \in [0 .. MaxItems - 1 -> Values \cup {Unread}]
      /\ DOMAIN c = DOMAIN cached
      /\ \A y \in DOMAIN c : c[y] \in Block /\ c[y].users = cached[y].users
      /\ Base(count - 1) \in DOMAIN c => ~c[Base(count - 1)].dirty
      /\ DataOK(d, c, count)
      /\ \A i \in 0 .. count - 1 : ItemOf(d, c, i) = ItemOf(disk, cached, i)
  BY <1>2, FlushItemFacts
<1> HIDE DEF c, d
<1>4. /\ disk' \in [0 .. MaxItems - 1 -> Values \cup {Unread}]
      /\ disk'[count] = v /\ \A i \in 0 .. count - 1 : disk'[i] = d[i]
  BY <1>1, <1>2, <1>3
<1>5. b \in Int /\ b <= count /\ count < b + PerBlock /\ Base(b) = b /\ b >= 0
  BY <1>2, BaseBounds, BaseOfBase
\* A cached block that the new item is in has earlier items, and is clean.
<1>6. b \in DOMAIN c => b = Base(count - 1) /\ b \in 0 .. count - 1 /\ ~c[b].dirty
  <2> SUFFICES ASSUME b \in DOMAIN c PROVE b = Base(count - 1) /\ b \in 0 .. count - 1 /\ ~c[b].dirty
    OBVIOUS
  <2>1. b \in 0 .. count - 1
    BY <1>3 DEF DataOK
  <2> HIDE DEF b
  <2>2. Base(count - 1) = b
    <3>1. b <= count - 1 /\ count - 1 < b + PerBlock
      BY <2>1, <1>2, <1>5, PerBlockPositive
    <3> QED
      BY <3>1, <1>2, <1>5, SameBlock
  <2> QED
    BY <2>1, <2>2, <1>3
<1>7. ASSUME b \in DOMAIN c
      PROVE  /\ data \in [Offsets -> Values \cup {Unread}]
             /\ \A j \in 0 .. count : Base(j) = b => data[j % PerBlock] = disk'[j]
  <2>1. x.data \in [Offsets -> Values \cup {Unread}]
    BY <1>3, <1>7, BlockFields
  <2>2. ASSUME NEW o \in Offsets PROVE data[o] \in Values \cup {Unread}
    <3>1. b + o < count + 1 => b + o \in 0 .. MaxItems - 1
      BY <1>2, <1>5, PerBlockPositive DEF Offsets
    <3> HIDE DEF b, x
    <3> QED
      BY <3>1, <2>1, <1>4 DEF RetrieveItems
  <2>3. ASSUME NEW j \in 0 .. count, Base(j) = b PROVE data[j % PerBlock] = disk'[j]
    <3>1. j \in Int /\ j % PerBlock = j - b /\ j % PerBlock \in Offsets /\ j < count + 1
      BY <2>3, <1>2, BaseBounds
    <3>2. b + (j % PerBlock) = j
      BY <3>1, <1>5
    <3> HIDE DEF b, x
    <3> QED
      BY <3>1, <3>2 DEF RetrieveItems
  <2>4. data = [o \in Offsets |-> data[o]]
    BY DEF RetrieveItems
  <2> HIDE DEF data
  <2> QED
    BY <2>2, <2>3, <2>4
<1>8. ASSUME b \in DOMAIN c
      PROVE  /\ cached'[b] \in Block /\ cached'[b].data = data
             /\ cached'[b].dirty = x.dirty /\ cached'[b].users = x.users
             /\ DOMAIN cached' = DOMAIN c /\ \A y \in DOMAIN c : y # b => cached'[y] = c[y]
  <2>1. cached' = [c EXCEPT ![b] = BlockEntry(data, x.dirty, x.users)]
    BY <1>1, <1>8 DEF Refreshed
  <2>2. x.dirty \in BOOLEAN /\ x.users \in Nat
    BY <1>3, <1>8, BlockFields
  <2> HIDE DEF data, x, b
  <2> QED
    BY <2>1, <2>2, <1>7, <1>8, BlockFacts
<1>9. b \notin DOMAIN c => cached' = c
  BY <1>1 DEF Refreshed
<1>10. /\ DOMAIN cached' = DOMAIN cached
       /\ \A y \in DOMAIN cached' : /\ cached'[y] \in Block /\ cached'[y].users = cached[y].users
                                    /\ cached'[y].dirty = c[y].dirty
  <2> HIDE DEF data, b
  <2> QED
    BY <1>3, <1>8, <1>9
<1>11. ASSUME NEW j \in 0 .. count - 1, Base(j) \in DOMAIN c
       PROVE  cached'[Base(j)].data[j % PerBlock] = c[Base(j)].data[j % PerBlock]
  <2>1. CASE Base(j) = b
    <3>1. cached'[b].data[j % PerBlock] = disk'[j]
      BY <2>1, <1>2, <1>7, <1>8, <1>11
    <3>2. c[b].data[j % PerBlock] = d[j]
      BY <2>1, <1>3, <1>6, <1>11 DEF DataOK
    <3> QED
      BY <2>1, <3>1, <3>2, <1>4
  <2>2. CASE Base(j) # b
    BY <2>2, <1>8, <1>9, <1>11
  <2> QED
    BY <2>1, <2>2
<1>12. b \in DOMAIN c => cached'[b].data[count % PerBlock] = v
  BY <1>2, <1>4, <1>7, <1>8
<1> HIDE DEF data, x
<1>13. DataOK(disk', cached', count + 1)
  <2>1. \A i \in 0 .. count : disk'[i] \in Values
    BY <1>2, <1>3, <1>4 DEF DataOK
  <2>2. \A y \in DOMAIN cached' : y \in 0 .. count /\ Base(y) = y /\ cached'[y] \in Block
    BY <1>2, <1>3, <1>10 DEF DataOK
  <2>3. ASSUME NEW i \in 0 .. count, Base(i) \in DOMAIN cached'
        PROVE  /\ cached'[Base(i)].data[i % PerBlock] \in Values
               /\ ~cached'[Base(i)].dirty => cached'[Base(i)].data[i % PerBlock] = disk'[i]
    <3>1. CASE i = count
      BY <3>1, <2>3, <1>3, <1>4, <1>10, <1>12
    <3>2. CASE i \in 0 .. count - 1
      BY <3>2, <2>3, <1>3, <1>4, <1>10, <1>11 DEF DataOK
    <3> QED
      BY <3>1, <3>2, <1>2
  <2>4. (count + 1) - 1 = count
    BY <1>2
  <2> QED
    BY <2>1, <2>2, <2>3, <2>4 DEF DataOK
<1>14. ASSUME NEW j \in 0 .. count
       PROVE  ItemOf(disk', cached', j) = IF j = count THEN v ELSE ItemOf(disk, cached, j)
  <2>1. CASE j = count
    BY <2>1, <1>3, <1>4, <1>10, <1>12 DEF ItemOf
  <2>2. CASE j \in 0 .. count - 1
    <3>1. ItemOf(disk', cached', j) = ItemOf(d, c, j)
      BY <2>2, <1>3, <1>4, <1>10, <1>11 DEF ItemOf
    <3> QED
      BY <2>2, <3>1, <1>2, <1>3
  <2> QED
    BY <2>1, <2>2, <1>2
<1>15. TypeOK'
  <2>1. DOMAIN cached' \subseteq {Base(i) : i \in 0 .. MaxItems - 1}
    BY <1>10 DEF IInv, TypeOK
  <2> QED
    BY <2>1, <1>1, <1>2, <1>4, <1>10 DEF IInv, TypeOK
<1>16. PinnedBlocksStay' /\ PinsExist' /\ FetchExists'
  <2>1. PinnedBlocksStay'
    BY <1>1, <1>10 DEF IInv, PinnedBlocksStay
  <2>2. PinsExist'
    BY <1>1, <1>2 DEF IInv, PinsExist
  <2>3. FetchExists'
    BY <1>1 DEF FetchExists
  <2> QED
    BY <2>1, <2>2, <2>3
<1> QED
  BY <1>1, <1>13, <1>14, <1>15, <1>16 DEF IInv

\* Flush writes every dirty block and changes no item.
LEMMA FlushAllFacts ==
    ASSUME IInv, FlushAll
    PROVE  /\ disk' \in [0 .. MaxItems - 1 -> Values \cup {Unread}]
           /\ \A i \in 0 .. count - 1 : disk'[i] = ItemOf(disk, cached, i)
           /\ \A i \in 0 .. count - 1 : disk'[i] \in Values
<1>1. DataOK(disk, cached, count)
  BY DEF IInv
<1>2. ASSUME NEW i \in 0 .. count - 1
      PROVE  disk'[i] = ItemOf(disk, cached, i) /\ disk'[i] \in Values
  <2>1. /\ i < count /\ i \in DOMAIN disk
    BY Types
  <2> QED
    BY <2>1, <1>1 DEF FlushAll, ItemOf, DataOK
<1>3. ASSUME NEW i \in 0 .. MaxItems - 1, ~(i < count)
      PROVE  disk'[i] = disk[i]
  BY <1>3, Types DEF FlushAll
<1>4. DOMAIN disk' = 0 .. MaxItems - 1 /\ disk' = [i \in 0 .. MaxItems - 1 |-> disk'[i]]
  BY Types DEF FlushAll
<1>5. \A i \in 0 .. MaxItems - 1 : disk'[i] \in Values \cup {Unread}
  BY <1>2, <1>3, Types, BlockCacheAssumption
<1>6. disk' \in [0 .. MaxItems - 1 -> Values \cup {Unread}]
  BY <1>4, <1>5
<1> QED
  BY <1>2, <1>6

LEMMA FlushIInv ==
    ASSUME IInv, NEW t \in Threads, Flush(t)
    PROVE  IInv' /\ Keeps
<1>1. /\ FlushAll /\ cached' = [b \in DOMAIN cached |-> MarkClean(cached[b])]
      /\ UNCHANGED <<count, slot, mSync, fetch>>
  BY DEF Flush
<1>2. \A b \in DOMAIN cached : /\ MarkClean(cached[b]) \in Block /\ MarkClean(cached[b]).data = cached[b].data
                               /\ MarkClean(cached[b]).users = cached[b].users
  <2> SUFFICES ASSUME NEW b \in DOMAIN cached
               PROVE  /\ MarkClean(cached[b]) \in Block /\ MarkClean(cached[b]).data = cached[b].data
                      /\ MarkClean(cached[b]).users = cached[b].users
    OBVIOUS
  <2>1. cached[b].data \in [Offsets -> Values \cup {Unread}] /\ cached[b].users \in Nat
    BY Types
  <2> QED
    BY <2>1 DEF MarkClean, BlockEntry, Block
<1>3. /\ DOMAIN cached' = DOMAIN cached
      /\ \A b \in DOMAIN cached' : /\ cached'[b] \in Block /\ cached'[b].data = cached[b].data
                                   /\ cached'[b].users = cached[b].users
  BY <1>1, <1>2
<1>4. /\ DataOK(disk', cached', count)
      /\ \A i \in 0 .. count - 1 : ItemOf(disk', cached', i) = ItemOf(disk, cached, i)
  <2>1. DataOK(disk, cached, count)
    BY DEF IInv
  <2>2. \A i \in 0 .. count - 1 : disk'[i] = ItemOf(disk, cached, i) /\ disk'[i] \in Values
    BY <1>1, FlushAllFacts
  <2> QED
    BY <2>1, <2>2, <1>3 DEF DataOK, ItemOf
<1>5. TypeOK'
  <2>1. disk' \in [0 .. MaxItems - 1 -> Values \cup {Unread}]
    BY <1>1, FlushAllFacts
  <2> QED
    BY <2>1, <1>1, <1>3 DEF IInv, TypeOK
<1>6. PinnedBlocksStay' /\ PinsExist' /\ FetchExists'
  BY <1>1, <1>3 DEF IInv, PinnedBlocksStay, PinsExist, FetchExists
<1> QED
  BY <1>1, <1>4, <1>5, <1>6 DEF IInv, Keeps

LEMMA ReopenIInv ==
    ASSUME IInv, Reopen
    PROVE  IInv' /\ Keeps
<1>1. /\ FlushAll /\ DOMAIN cached' = {} /\ mSync = None
      /\ \A t \in Threads, k \in Slots : slot[t][k] = None
      /\ UNCHANGED <<count, slot, mSync, fetch>>
  BY DEF Reopen
<1>2. /\ disk' \in [0 .. MaxItems - 1 -> Values \cup {Unread}]
      /\ \A i \in 0 .. count - 1 : disk'[i] = ItemOf(disk, cached, i) /\ disk'[i] \in Values
  BY <1>1, FlushAllFacts
<1>3. /\ DataOK(disk', cached', count)
      /\ \A i \in 0 .. count - 1 : ItemOf(disk', cached', i) = ItemOf(disk, cached, i)
  BY <1>1, <1>2 DEF DataOK, ItemOf
<1>4. TypeOK'
  BY <1>1, <1>2 DEF IInv, TypeOK
<1>5. PinnedBlocksStay' /\ PinsExist' /\ FetchExists'
  BY <1>1 DEF IInv, PinnedBlocksStay, PinsExist, FetchExists
<1> QED
  BY <1>1, <1>3, <1>4, <1>5 DEF IInv, Keeps

LEMMA InitIInv == Init => IInv
<1> SUFFICES ASSUME Init PROVE IInv
  OBVIOUS
<1>1. /\ count \in 0 .. MaxItems /\ DOMAIN cached = {} /\ mSync = None /\ fetch = NoFetch
      /\ disk \in [0 .. MaxItems - 1 -> Values \cup {Unread}]
      /\ \A i \in 0 .. MaxItems - 1 : disk[i] \in Values <=> i < count
      /\ slot = [t \in Threads |-> [k \in Slots |-> None]]
  BY DEF Init
<1>2. TypeOK
  BY <1>1, BlockCacheAssumption DEF TypeOK, NoFetch, Slots
<1>3. DataOK(disk, cached, count)
  BY <1>1, BlockCacheAssumption DEF DataOK
<1>4. PinnedBlocksStay /\ PinsExist /\ FetchExists
  BY <1>1 DEF PinnedBlocksStay, PinsExist, FetchExists
<1> QED
  BY <1>2, <1>3, <1>4 DEF IInv

\* Entering, leaving, waiting for room and a failed eviction move nothing.
LEMMA OtherIInv ==
    ASSUME IInv, NEW t \in Threads,
           \/ Enter(t) \/ Leave(t)
           \/ \E b \in DOMAIN cached : EvictSpins(t, b) \/ EvictFails(t, b)
    PROVE  IInv' /\ Keeps
<1>1. UNCHANGED <<disk, count, cached, slot>>
  BY DEF Enter, Leave, EvictSpins, EvictFails, AtVictim, vars
<1>2. mSync' \in Threads \cup {None} /\ fetch' \in {fetch, NoFetch}
  BY DEF Enter, Leave, EvictSpins, EvictFails, AtVictim, vars, IInv, TypeOK
<1>3. fetch' \in [item : 0 .. MaxItems - 1 \cup {None}, to : Slots]
  BY <1>2, BlockCacheAssumption DEF IInv, TypeOK, NoFetch, Slots
<1>4. FetchExists'
  <2>1. fetch' = NoFetch \/ (fetch' = fetch /\ mSync' = mSync)
    BY BlockCacheAssumption
       DEF Enter, Leave, Inside, EvictSpins, EvictFails, AtVictim, vars, IInv, FetchExists
  <2> QED
    BY <2>1, <1>1 DEF IInv, FetchExists
<1> QED
  BY <1>1, <1>2, <1>3, <1>4, NothingMoved

-----------------------------------------------------------------------------
(* Theorems. *)

\* A step that keeps the items leaves View as it is.
LEMMA ViewKept == ASSUME Keeps PROVE View' = View
<1>1. View = [i \in 0 .. count - 1 |-> ItemOf(disk, cached, i)]
  BY DEF View, ItemOf
<1>2. View' = [i \in 0 .. count' - 1 |-> ItemOf(disk', cached', i)]
  BY DEF View, ItemOf
<1> QED
  BY <1>1, <1>2 DEF Keeps

\* Every step preserves the invariant and is a step of ItemStore or none of
\* its business.
LEMMA StepIInv ==
    ASSUME IInv, [Next]_vars
    PROVE  IInv' /\ [Items!Next]_View
<1>1. CASE UNCHANGED vars
  <2>1. IInv'
    BY <1>1 DEF vars, IInv, TypeOK, DataOK, PinnedBlocksStay, PinsExist, FetchExists
  <2>2. View' = View
    BY <1>1 DEF vars, View
  <2> QED
    BY <2>1, <2>2
<1>2. CASE Reopen
  BY <1>2, ReopenIInv, ViewKept
<1>3. ASSUME NEW t \in Threads, Enter(t) \/ Leave(t) \/ Flush(t) \/ Fetching(t)
      PROVE  IInv' /\ View' = View
  <2>1. CASE Flush(t)
    BY <2>1, FlushIInv, ViewKept
  <2>2. CASE LoadBlock(t)
    BY <2>2, LoadIInv, ViewKept
  <2>3. CASE \E b \in DOMAIN cached : EvictBlock(t, b)
    BY <2>3, EvictIInv, ViewKept
  <2>4. CASE Enter(t) \/ Leave(t) \/ \E b \in DOMAIN cached : EvictSpins(t, b) \/ EvictFails(t, b)
    BY <2>4, OtherIInv, ViewKept
  <2> QED
    BY <1>3, <2>1, <2>2, <2>3, <2>4 DEF Fetching
<1>4. ASSUME NEW t \in Threads, NEW k \in Slots,
             Release(t, k) \/ \E i \in 0 .. MaxItems - 1 : RetriveItem(t, i, k)
      PROVE  IInv' /\ View' = View
  BY <1>4, RetriveIInv, ReleaseIInv, ViewKept
<1>5. ASSUME NEW t \in Threads, NEW k \in Slots, NEW v \in Values, GetDataForUpdate(t, k, v)
      PROVE  IInv' /\ Items!Next
  <2> DEFINE i == slot[t][k]
  <2>1. /\ IInv' /\ count' = count /\ i \in 0 .. count - 1
        /\ \A j \in 0 .. count - 1 : ItemOf(disk', cached', j) = IF j = i THEN v ELSE ItemOf(disk, cached, j)
    BY <1>5, UpdateIInv
  <2>2. /\ View = [j \in 0 .. count - 1 |-> ItemOf(disk, cached, j)]
        /\ View' = [j \in 0 .. count' - 1 |-> ItemOf(disk', cached', j)]
    BY DEF View, ItemOf
  <2> HIDE DEF i
  <2>3. View' = [View EXCEPT ![i] = v] /\ i \in DOMAIN View
    BY <2>1, <2>2
  <2> QED
    BY <2>1, <2>3 DEF Items!Next, Items!StoreOne
<1>6. ASSUME NEW t \in Threads, NEW v \in Values, AppendItem(t, v)
      PROVE  IInv' /\ Items!Next
  <2>1. /\ IInv' /\ count' = count + 1 /\ count \in 0 .. MaxItems - 1
        /\ \A j \in 0 .. count : ItemOf(disk', cached', j) = IF j = count THEN v ELSE ItemOf(disk, cached, j)
    BY <1>6, Types, AppendIInv, BlockCacheAssumption
  <2>2. /\ View = [j \in 0 .. count - 1 |-> ItemOf(disk, cached, j)]
        /\ View' = [j \in 0 .. count' - 1 |-> ItemOf(disk', cached', j)]
    BY DEF View, ItemOf
  <2>3. count' - 1 = count /\ \A j \in 0 .. count : j # count => j \in 0 .. count - 1
    BY <2>1, Types
  <2>4. /\ DOMAIN View = 0 .. count - 1
        /\ View' = [j \in 0 .. count |-> IF j = count THEN v ELSE View[j]]
    BY <2>1, <2>2, <2>3
  <2> QED
    BY <2>1, <2>4 DEF Items!Next, Items!GrowByOne
<1> QED
  BY <1>1, <1>2, <1>3, <1>4, <1>5, <1>6 DEF Next

\* The invariant holds for any number of threads, items and StoredItems.
THEOREM Invariance == Spec => []IInv
<1>1. IInv /\ [Next]_vars => IInv'
  BY StepIInv
<1> QED
  BY <1>1, InitIInv, PTL DEF Spec

\* No block is freed while a StoredItem points into it.
THEOREM PinsSafe == Spec => []PinnedBlocksStay
<1>1. IInv => PinnedBlocksStay
  BY DEF IInv
<1> QED
  BY <1>1, Invariance, PTL

\* What RefreshItem asserts, and what makes dropping a clean block harmless.
THEOREM CleanBlocksSafe == Spec => []CleanBlocksMatchFile
<1>1. ASSUME IInv PROVE CleanBlocksMatchFile
  <2> SUFFICES ASSUME NEW b \in DOMAIN cached, ~cached[b].dirty, NEW o \in Offsets, b + o < count
               PROVE  cached[b].data[o] = disk[b + o]
    BY DEF CleanBlocksMatchFile
  <2>1. b \in Int /\ Base(b) = b /\ b \in 0 .. count - 1
    BY <1>1, Types
  <2>2. Base(b + o) = b /\ (b + o) % PerBlock = o
    BY <2>1, BlockItems
  <2>3. b + o \in 0 .. count - 1
    BY <1>1, <2>1, Types, PerBlockPositive DEF Offsets
  <2> QED
    BY <1>1, <2>2, <2>3 DEF IInv, DataOK
<1> QED
  BY <1>1, Invariance, PTL

\* The cache implements ItemStore: its users cannot tell it from the array
\* of items it caches.
THEOREM Implements == Spec => Refinement
<1>1. Init => Items!Init
  <2> SUFFICES ASSUME Init PROVE Items!Init
    OBVIOUS
  <2>1. IInv
    BY InitIInv
  <2>2. \A i \in 0 .. count - 1 : ItemOf(disk, cached, i) \in Values
    BY <2>1 DEF IInv, DataOK, ItemOf
  <2>3. View = [i \in 0 .. count - 1 |-> ItemOf(disk, cached, i)]
    BY DEF View, ItemOf
  <2>4. View \in [0 .. count - 1 -> Values] /\ count \in 0 .. MaxItems
    BY <2>1, <2>2, <2>3, Types
  <2> QED
    BY <2>4 DEF Items!Init
<1>2. IInv /\ [Next]_vars => [Items!Next]_View
  BY StepIInv
<1> QED
  BY <1>1, <1>2, Invariance, PTL DEF Spec, Refinement, Items!Spec
=============================================================================
