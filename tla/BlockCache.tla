------------------------------ MODULE BlockCache ------------------------------
(***************************************************************************)
(* BlockCache, BlockEntry and StoredItem (dbs/pastra/ps_blockcache.{h,cpp})*)
(* together with the way VariableSizeStore and PrototypeTable use them:    *)
(* items are read and written through StoredItems, which pin the block     *)
(* they point into; items are appended directly to the file, behind the    *)
(* cache's back, between a FlushItem and a RefreshItem.                     *)
(*                                                                         *)
(* All calls of a cache are made under the lock of its owner (mSync of the *)
(* store, mRowsSync of the table); only StoredItems may outlive it.        *)
(***************************************************************************)
EXTENDS Integers, FiniteSets

CONSTANTS
    Threads,
    ItemSize,           \* bytes of an item
    WantedBlockSize,    \* the block size the settings ask for
    MaxCachedBlocks,    \* mMaxCachedBlocks
    MaxPins,            \* bound: StoredItems a thread holds at once
    PinsAcrossUnlock,   \* may a StoredItem outlive the critical section?
    MaxItems,           \* bound: items the file may grow to
    Values,             \* what an item can hold
    Unread,             \* what memory holds before anything is read into it
    None                \* "no thread", "no item"

ASSUME BlockCacheAssumption ==
    /\ ItemSize \in Nat \ {0}
    /\ WantedBlockSize \in Nat \ {0}
    /\ MaxCachedBlocks \in Nat \ {0}
    /\ MaxPins \in Nat \ {0}
    /\ PinsAcrossUnlock \in BOOLEAN
    /\ MaxItems \in Nat
    /\ IsFiniteSet(Threads)
    /\ Unread \notin Values
    /\ None \notin Threads \cup Nat

VARIABLES
    disk,       \* the items in the file
    count,      \* how many there are
    cached,     \* mCachedBlocks: base item -> block
    slot,       \* the StoredItems of each thread: the items they point to
    mSync,      \* the holder of the owner's lock
    fetch       \* the RetriveItem the holder is in, and where its result goes

vars == <<disk, count, cached, slot, mSync, fetch>>

-----------------------------------------------------------------------------

\* Init: a block holds a whole number of items, at least one.
BlockSize ==
    IF WantedBlockSize < ItemSize THEN ItemSize
    ELSE WantedBlockSize - (WantedBlockSize % ItemSize)

PerBlock == BlockSize \div ItemSize

\* baseBlockItem: the first item of the block that item i is in.
Base(i) == (i \div PerBlock) * PerBlock

Slots == 1 .. MaxPins

Offsets == 0 .. PerBlock - 1

\* BlockEntry.
Block == [data : [Offsets -> Values \cup {Unread}], dirty : BOOLEAN, users : Nat]

\* RetrieveItems: the items of block b the file has; the rest is left alone.
RetrieveItems(b, data, d, n) ==
    [o \in Offsets |-> IF b + o < n THEN d[b + o] ELSE data[o]]

\* StoreItems: the items of block b the file has.
StoreItems(b, data, d, n) ==
    [i \in DOMAIN d |-> IF i >= b /\ i < b + PerBlock /\ i < n THEN data[i - b] ELSE d[i]]

BlockEntry(data, dirty, users) == [data |-> data, dirty |-> dirty, users |-> users]

\* The block of item i with one user more, or less.
RegisterUser(c, i) == [c EXCEPT ![Base(i)] = BlockEntry(@.data, @.dirty, @.users + 1)]

ReleaseUser(c, i) == [c EXCEPT ![Base(i)] = BlockEntry(@.data, @.dirty, @.users - 1)]

\* Mutant: eviction does not ask whether a block is in use.
NeverInUse(b) == FALSE

IsInUse(b) == cached[b].users > 0

MarkClean(block) == BlockEntry(block.data, FALSE, block.users)

\* FlushItem: the block of item i, when it is cached and dirty, is written.
FlushedDisk(i) ==
    IF Base(i) \in DOMAIN cached /\ cached[Base(i)].dirty
    THEN StoreItems(Base(i), cached[Base(i)].data, disk, count) ELSE disk

FlushedCache(i) ==
    IF Base(i) \in DOMAIN cached THEN [cached EXCEPT ![Base(i)] = MarkClean(@)] ELSE cached

-----------------------------------------------------------------------------

NoFetch == [item |-> None, to |-> 1]

Init ==
    /\ count \in 0 .. MaxItems
    /\ disk \in {d \in [0 .. MaxItems - 1 -> Values \cup {Unread}] :
                    \A i \in 0 .. MaxItems - 1 : d[i] \in Values <=> i < count}
    /\ cached = [b \in {} |-> 0]
    /\ slot = [t \in Threads |-> [k \in Slots |-> None]]
    /\ mSync = None
    /\ fetch = NoFetch

Enter(t) ==
    /\ mSync = None
    /\ mSync' = t
    /\ UNCHANGED <<disk, count, cached, slot, fetch>>

\* A holder that can call into the cache.
Inside(t) == mSync = t /\ fetch = NoFetch

Leave(t) ==
    /\ Inside(t)
    /\ PinsAcrossUnlock \/ \A k \in Slots : slot[t][k] = None
    /\ mSync' = None
    /\ UNCHANGED <<disk, count, cached, slot, fetch>>

\* RetriveItem, of a cached block: the StoredItem pins it.
RetriveItem(t, i, k) ==
    /\ Inside(t)
    /\ i < count /\ slot[t][k] = None
    /\ IF Base(i) \in DOMAIN cached
       THEN /\ cached' = RegisterUser(cached, i)
            /\ slot' = [slot EXCEPT ![t][k] = i]
            /\ UNCHANGED fetch
       ELSE /\ fetch' = [item |-> i, to |-> k]
            /\ UNCHANGED <<cached, slot>>
    /\ UNCHANGED <<disk, count, mSync>>

HasRoom == Cardinality(DOMAIN cached) < MaxCachedBlocks

\* The loop that makes room looks at block b, the first of the map.
AtVictim(t, b) ==
    /\ mSync = t /\ fetch # NoFetch /\ ~HasRoom
    /\ b \in DOMAIN cached /\ \A c \in DOMAIN cached : b <= c

\* A block in use is not passed over: "continue" looks at it again.
EvictSpins(t, b) == AtVictim(t, b) /\ IsInUse(b) /\ UNCHANGED vars

EvictBlock(t, b) ==
    /\ AtVictim(t, b) /\ ~IsInUse(b)
    /\ disk' = IF cached[b].dirty THEN StoreItems(b, cached[b].data, disk, count) ELSE disk
    /\ cached' = [c \in DOMAIN cached \ {b} |-> cached[c]]
    /\ UNCHANGED <<count, slot, mSync, fetch>>

\* The write of the evicted block fails: RetriveItem throws, the block stays.
EvictFails(t, b) ==
    /\ AtVictim(t, b) /\ ~IsInUse(b) /\ cached[b].dirty
    /\ fetch' = NoFetch
    /\ UNCHANGED <<disk, count, cached, slot, mSync>>

\* There is room: the block is read in and the StoredItem pins it.
LoadBlock(t) ==
    LET i     == fetch.item
        data  == RetrieveItems(Base(i), [o \in Offsets |-> Unread], disk, count)
    IN
    /\ mSync = t /\ fetch # NoFetch /\ HasRoom
    /\ cached' = [b \in DOMAIN cached \cup {Base(i)} |-> IF b = Base(i) THEN BlockEntry(data, FALSE, 1) ELSE cached[b]]
    /\ slot' = [slot EXCEPT ![t][fetch.to] = i]
    /\ fetch' = NoFetch
    /\ UNCHANGED <<disk, count, mSync>>

\* The block is in the map before the manager reads into it: when the read
\* throws, it stays there, clean and with no user.
LoadFails(t) ==
    LET b == Base(fetch.item) IN
    /\ mSync = t /\ fetch # NoFetch /\ HasRoom
    /\ cached' = [c \in DOMAIN cached \cup {b} |->
                    IF c = b THEN BlockEntry([o \in Offsets |-> Unread], FALSE, 0) ELSE cached[c]]
    /\ fetch' = NoFetch
    /\ UNCHANGED <<disk, count, slot, mSync>>

\* GetDataForUpdate and the write through the pointer it returns.
GetDataForUpdate(t, k, v) ==
    LET i == slot[t][k] IN
    /\ Inside(t)
    /\ i # None
    /\ cached' = [cached EXCEPT ![Base(i)] =
                    BlockEntry([@.data EXCEPT ![i % PerBlock] = v], TRUE, @.users)]
    /\ UNCHANGED <<disk, count, slot, mSync, fetch>>

\* A StoredItem goes out of scope; it may do so after its owner let go of
\* the lock, and while another thread is inside.
Release(t, k) ==
    /\ slot[t][k] # None
    /\ Inside(t) \/ (mSync # t /\ PinsAcrossUnlock)
    /\ cached' = ReleaseUser(cached, slot[t][k])
    /\ slot' = [slot EXCEPT ![t][k] = None]
    /\ UNCHANGED <<disk, count, mSync, fetch>>

\* RefreshItem: the block of item i, when it is cached, is read again.
Refreshed(c, i, d, n) ==
    IF Base(i) \in DOMAIN c
    THEN [c EXCEPT ![Base(i)] = BlockEntry(RetrieveItems(Base(i), @.data, d, n), @.dirty, @.users)]
    ELSE c

\* Mutants: the append does not flush first; it does not refresh afterwards.
AppendItemUnflushed(t, v) ==
    /\ Inside(t) /\ count < MaxItems
    /\ count' = count + 1
    /\ disk' = [disk EXCEPT ![count] = v]
    /\ cached' = Refreshed(cached, count, disk', count + 1)
    /\ UNCHANGED <<slot, mSync, fetch>>

AppendItemNotRefreshed(t, v) ==
    /\ Inside(t) /\ count < MaxItems
    /\ count' = count + 1
    /\ disk' = [FlushedDisk(count - 1) EXCEPT ![count] = v]
    /\ cached' = FlushedCache(count - 1)
    /\ UNCHANGED <<slot, mSync, fetch>>

\* A new item is written behind the last one (ExtentFreeList, AddRow): the
\* block of the last item is flushed before, that of the new one read after.
\* Item -1 of an empty file is in no block.
AppendItem(t, v) ==
    /\ Inside(t) /\ count < MaxItems
    /\ count' = count + 1
    /\ disk' = [FlushedDisk(count - 1) EXCEPT ![count] = v]
    /\ cached' = Refreshed(FlushedCache(count - 1), count, disk', count + 1)
    /\ UNCHANGED <<slot, mSync, fetch>>

\* Flush: every dirty block is written and marked clean.
FlushAll ==
    disk' = [i \in DOMAIN disk |->
                IF i < count /\ Base(i) \in DOMAIN cached /\ cached[Base(i)].dirty
                THEN cached[Base(i)].data[i % PerBlock] ELSE disk[i]]

Flush(t) ==
    /\ Inside(t)
    /\ FlushAll
    /\ cached' = [b \in DOMAIN cached |-> MarkClean(cached[b])]
    /\ UNCHANGED <<count, slot, mSync, fetch>>

\* The owner is closed, which flushes first, and opened with an empty cache.
Reopen ==
    /\ mSync = None
    /\ \A t \in Threads, k \in Slots : slot[t][k] = None
    /\ FlushAll
    /\ cached' = [b \in {} |-> 0]
    /\ UNCHANGED <<count, slot, mSync, fetch>>

\* The steps of the thread inside RetriveItem.
Fetching(t) ==
    \/ \E b \in DOMAIN cached : EvictSpins(t, b) \/ EvictBlock(t, b) \/ EvictFails(t, b)
    \/ LoadBlock(t)

Next ==
    \/ \E t \in Threads :
        \/ Enter(t)
        \/ Leave(t)
        \/ \E k \in Slots :
            \/ \E i \in 0 .. MaxItems - 1 : RetriveItem(t, i, k)
            \/ \E v \in Values : GetDataForUpdate(t, k, v)
            \/ Release(t, k)
        \/ \E v \in Values : AppendItem(t, v)
        \/ Flush(t)
        \/ Fetching(t)
    \/ Reopen

Spec == Init /\ [][Next]_vars

\* Reading from the file may fail.
SpecReadFails == Init /\ [][Next \/ \E t \in Threads : LoadFails(t)]_vars

\* The loop of RetriveItem runs whenever its thread is scheduled.
FairSpec == Spec /\ \A t \in Threads : WF_vars(Fetching(t))

-----------------------------------------------------------------------------
(* Properties. *)

\* Every variable has its type.
TypeOK ==
    /\ count \in 0 .. MaxItems
    /\ disk \in [0 .. MaxItems - 1 -> Values \cup {Unread}]
    /\ DOMAIN cached \subseteq {Base(i) : i \in 0 .. MaxItems - 1}
    /\ \A b \in DOMAIN cached : cached[b] \in Block
    /\ slot \in [Threads -> [Slots -> 0 .. MaxItems - 1 \cup {None}]]
    /\ mSync \in Threads \cup {None}
    /\ fetch \in [item : 0 .. MaxItems - 1 \cup {None}, to : Slots]

\* The StoredItems that point into block b.
Pins(held, b) ==
    {p \in Threads \X Slots : held[p[1]][p[2]] # None /\ Base(held[p[1]][p[2]]) = b}

\* The memory a StoredItem points into is the memory of a cached block, and the
\* users a block counts are the StoredItems that point into it: the block is
\* not freed under one of them, and is free for eviction after the last.
PinnedBlocksStay ==
    /\ \A t \in Threads, k \in Slots : slot[t][k] # None => Base(slot[t][k]) \in DOMAIN cached
    /\ \A b \in DOMAIN cached : cached[b].users = Cardinality(Pins(slot, b))

\* A clean block agrees with the file: it can be dropped without a write, and
\* read again (RefreshItem) without losing an update.
CleanBlocksMatchFile ==
    \A b \in DOMAIN cached : ~cached[b].dirty =>
        \A o \in Offsets : b + o < count => cached[b].data[o] = disk[b + o]

\* The items as their users see them: the cached copy, else the file's.
View ==
    [i \in 0 .. count - 1 |->
        IF Base(i) \in DOMAIN cached THEN cached[Base(i)].data[i % PerBlock] ELSE disk[i]]

\* The cache is invisible: an item keeps the value last stored in it through
\* every eviction, write-back, re-read, append and reopening.
Items == INSTANCE ItemStore WITH items <- View

Refinement == Items!Spec

\* RetriveItem returns, once it has made room (the comment at
\* ps_blockcache.cpp:117: "Make sure you have room to cache the new item.").
\* It does not when the first block of a full cache is pinned by the caller.
RetriveItemReturns == fetch # NoFetch ~> fetch = NoFetch
=============================================================================
