------------------------------ MODULE VarStore ------------------------------
(***************************************************************************)
(* VariableSizeStore of the PASTRA engine (dbs/pastra/ps_varstorage.cpp):  *)
(* the file of fixed size entries in which the text and array values of a  *)
(* table live.  A record is a chain of entries; the entries of no record   *)
(* form a doubly linked free list whose head is entry 0.                   *)
(*                                                                         *)
(* The bytes of an entry are abstracted away: data counts in whole         *)
(* entries. What remains is every link, flag and reference count the code  *)
(* writes, and the critical sections of mSync in which it writes them. The *)
(* loops that walk, extend or free a chain are one step per iteration, all *)
(* taken while the thread holds mSync.                                     *)
(***************************************************************************)
EXTENDS Integers, FiniteSets

CONSTANTS
    Threads,        \* threads that share the store
    MaxEntries,     \* bound: entries the container's file may grow to
    MaxRefs,        \* bound: references one record may collect
    MaxGrow,        \* bound: entries' worth of data one call may write
    None            \* "no thread", "no record"

ASSUME VarStoreAssumption ==
    /\ MaxEntries \in Nat \ {0}
    /\ MaxRefs \in Nat \ {0}
    /\ MaxGrow \in Nat
    /\ None \notin Threads
    /\ None \notin Nat

VARIABLES
    s,          \* the entries, mFirstFreeEntry and mEntriesCount
    mSync,      \* the holder of the store's lock
    call,       \* the call each thread is executing, and how far it went
    owned,      \* references to each record held by rows and values
    orphaned    \* records a failed AddRecord left behind

vars == <<s, mSync, call, owned, orphaned>>

-----------------------------------------------------------------------------
(* Entries. *)

\* LAST_DELETED_ENTRY and LAST_CHAINED_ENTRY: one number above every entry.
Last == MaxEntries

Ids == 0 .. MaxEntries - 1

\* StoreEntry: the two flag bits and the two links; the first entry of a
\* record keeps the record's reference count in prev.
Entry == [deleted : BOOLEAN, first : BOOLEAN, prev : Nat, next : 0 .. MaxEntries]

FreeEntry(prev, next) ==
    [deleted |-> TRUE, first |-> FALSE, prev |-> prev, next |-> next]

\* What is not in the file yet.
NoEntry == [deleted |-> FALSE, first |-> FALSE, prev |-> 0, next |-> 0]

Store == [e : [Ids -> Entry], free : 0 .. MaxEntries, count : 1 .. MaxEntries]

Live(st, id)    == id > 0 /\ id < st.count /\ ~st.e[id].deleted
IsFirst(st, id) == Live(st, id) /\ st.e[id].first
Records(st)     == {id \in Ids : IsFirst(st, id)}

-----------------------------------------------------------------------------
(* The operations on the free list, as functions of the store's state. *)

\* FinishInit on an empty container: entry 0 alone, heading an empty list.
EmptyStore ==
    [e     |-> [id \in Ids |-> IF id = 0 THEN FreeEntry(0, Last) ELSE NoEntry],
     free  |-> Last,
     count |-> 1]

\* An entry with the same flags and other links.
Relink(entry, prev, next) ==
    [deleted |-> entry.deleted, first |-> entry.first, prev |-> prev, next |-> next]

\* A new deleted entry at the end of the file, the only one of the list.
ExtentFreeList(st) ==
    [e     |-> [x \in Ids |-> IF x = st.count THEN FreeEntry(0, Last)
                              ELSE IF x = 0 THEN Relink(st.e[0], st.e[0].prev, st.count)
                              ELSE st.e[x]],
     free  |-> st.count,
     count |-> st.count + 1]

\* Unlinks id from its two neighbours in the list.
ExtractFromFreeList(st, id) ==
    LET prev == st.e[id].prev
        next == st.e[id].next
    IN [e     |-> [x \in Ids |->
                    IF x = id THEN NoEntry
                    ELSE Relink(st.e[x], IF x = next THEN prev ELSE st.e[x].prev,
                                         IF x = prev THEN next ELSE st.e[x].next)],
        free  |-> IF st.free = id THEN next ELSE st.free,
        count |-> st.count]

\* The entry AllocateEntry starts from: a deleted neighbour of the chain's
\* end when there is one, else the head of the list (Last: there is none).
FoundFree(st, prevId) ==
    IF prevId + 1 < st.count
    THEN IF st.e[prevId + 1].deleted THEN prevId + 1 ELSE st.free
    ELSE IF prevId > 1 /\ st.e[prevId - 1].deleted THEN prevId - 1 ELSE st.free

\* The list just before AllocateEntry takes its entry, and that entry.
Extended(st, prevId) ==
    IF FoundFree(st, prevId) = Last THEN ExtentFreeList(st) ELSE st

Allocated(st, prevId) ==
    IF FoundFree(st, prevId) = Last THEN st.count ELSE FoundFree(st, prevId)

\* Mutant: the end of the chain is not told of its new successor.
LinkBehindForgotten(st, prevId, id) ==
    [st EXCEPT !.e[id] = Relink(NoEntry, prevId, Last)]

\* The chain that ends with prevId goes on with id.
LinkBehind(st, prevId, id) ==
    [e     |-> [x \in Ids |->
                    IF x = id THEN Relink(NoEntry, prevId, Last)
                    ELSE IF x = prevId THEN Relink(st.e[x], st.e[x].prev, id)
                    ELSE st.e[x]],
     free  |-> st.free,
     count |-> st.count]

\* Mutant: a record starts without the reference AddRecord returns.
StartRecordUncounted(st, id) ==
    [st EXCEPT !.e[id] = [deleted |-> FALSE, first |-> TRUE, prev |-> 0, next |-> Last]]

\* AddRecord makes id the first entry of a record that has one reference.
StartRecord(st, id) ==
    [e     |-> [x \in Ids |->
                    IF x = id THEN [deleted |-> FALSE, first |-> TRUE, prev |-> 1, next |-> Last]
                    ELSE st.e[x]],
     free  |-> st.free,
     count |-> st.count]

\* AllocateEntry takes an entry off the list and links it behind prevId;
\* AddRecord calls it with prevId = 0 and writes the new record's head.
AllocateEntry(st, prevId) ==
    LET id  == Allocated(st, prevId)
        st2 == ExtractFromFreeList(Extended(st, prevId), id)
    IN IF prevId = 0 THEN StartRecord(st2, id) ELSE LinkBehind(st2, prevId, id)

\* The reference count of record r becomes n.
SetRefs(st, r, n) ==
    [e     |-> [x \in Ids |-> IF x = r THEN Relink(st.e[x], n, st.e[x].next) ELSE st.e[x]],
     free  |-> st.free,
     count |-> st.count]

\* id becomes a deleted entry between two neighbours of the list.
LinkBetween(st, id, prev, next) ==
    [x \in Ids |->
        IF x = id THEN FreeEntry(prev, next)
        ELSE Relink(st.e[x], IF x = next THEN id ELSE st.e[x].prev,
                             IF x = prev THEN id ELSE st.e[x].next)]

HasFreeRight(st, id) == id + 1 < st.count /\ st.e[id + 1].deleted
HasFreeLeft(st, id)  == id + 1 >= st.count /\ id > 1 /\ st.e[id - 1].deleted

\* Mutant: the head in memory is not moved when id goes in front of it.
AddToFreeListStaleHead(st, id) ==
    IF HasFreeRight(st, id)
    THEN [st EXCEPT !.e = LinkBetween(st, id, st.e[id + 1].prev, id + 1)]
    ELSE [st EXCEPT !.e = LinkBetween(st, id, 0, st.free), !.free = id]

\* AddToFreeList puts id in front of its right neighbour when that one is
\* deleted; else, when id is the last of the file, behind a deleted left
\* neighbour; else at the front of the list.
AddToFreeList(st, id) ==
    IF HasFreeRight(st, id)
    THEN [e     |-> LinkBetween(st, id, st.e[id + 1].prev, id + 1),
          free  |-> IF st.free = id + 1 THEN id ELSE st.free,
          count |-> st.count]
    ELSE IF HasFreeLeft(st, id)
    THEN [e     |-> LinkBetween(st, id, id - 1, st.e[id - 1].next),
          free  |-> st.free,
          count |-> st.count]
    ELSE [e     |-> LinkBetween(st, id, 0, st.free),
          free  |-> id,
          count |-> st.count]

-----------------------------------------------------------------------------
(* The calls.  call[t].at is the entry the loop of the call stands on,     *)
(* prev the one it came from, left the entries' worth of data to write.    *)

Calling(op, rec, at, prev, left) ==
    [op |-> op, rec |-> rec, at |-> at, prev |-> prev, left |-> left]

Idle == Calling("idle", None, Last, 0, 0)

Ops == {"idle",
        "added",    \* AddRecord between its two critical sections
        "update",   \* the loops of UpdateRecord
        "get",      \* the loops of GetRecord
        "remove"}   \* the loop of RemoveRecord

Calls == [op : Ops, rec : Ids \cup {None}, at : 0 .. MaxEntries,
          prev : Ids, left : 0 .. MaxGrow]

Init ==
    /\ s = EmptyStore
    /\ mSync = None
    /\ call = [t \in Threads |-> Idle]
    /\ owned = [r \in Ids |-> 0]
    /\ orphaned = {}

CanStart(t) == mSync = None /\ call[t].op = "idle"

\* The container can take the entry this allocation may need.
HasRoom(st, prevId) == FoundFree(st, prevId) = Last => st.count < MaxEntries

\* AddRecord, first section: allocate and mark the first entry, unlock.
AddRecord(t, size) ==
    /\ CanStart(t)
    /\ HasRoom(s, 0)
    /\ LET id == Allocated(s, 0) IN
        /\ s' = AllocateEntry(s, 0)
        /\ IF size > 0
           THEN /\ call' = [call EXCEPT ![t] = Calling("added", id, id, 0, size)]
                /\ UNCHANGED owned
           ELSE /\ owned' = [owned EXCEPT ![id] = 1]
                /\ UNCHANGED call
    /\ UNCHANGED <<mSync, orphaned>>

\* AddRecord goes on with UpdateRecord, which locks again.
AddRecordFill(t) ==
    /\ mSync = None
    /\ call[t].op = "added"
    /\ mSync' = t
    /\ call' = [call EXCEPT ![t] = Calling("update", @.rec, @.at, 0, @.left)]
    /\ UNCHANGED <<s, owned, orphaned>>

\* UpdateRecord by the holder of a reference: skip entries, then write size.
UpdateRecord(t, r, size) ==
    /\ CanStart(t)
    /\ owned[r] > 0
    /\ mSync' = t
    /\ call' = [call EXCEPT ![t] = Calling("update", None, r, 0, size)]
    /\ UNCHANGED <<s, owned, orphaned>>

Unlock(t) ==
    /\ mSync' = None
    /\ call' = [call EXCEPT ![t] = Idle]

\* An iteration over an entry the chain has: skipped, or written to.
UpdateStep(t, writes) ==
    LET c == call[t] IN
    /\ c.op = "update" /\ c.left > 0 /\ c.at # Last
    /\ call' = [call EXCEPT ![t] = Calling("update", c.rec, s.e[c.at].next, c.at,
                                          IF writes THEN c.left - 1 ELSE c.left)]
    /\ UNCHANGED <<s, mSync, owned, orphaned>>

\* An iteration past the end of the chain: a new entry, written to.
UpdateGrow(t) ==
    LET c == call[t] IN
    /\ c.op = "update" /\ c.left > 0 /\ c.at = Last
    /\ HasRoom(s, c.prev)
    /\ s' = AllocateEntry(s, c.prev)
    /\ call' = [call EXCEPT ![t] = Calling("update", c.rec, Last, Allocated(s, c.prev), c.left - 1)]
    /\ UNCHANGED <<mSync, owned, orphaned>>

\* The source of the data (another record, a container) ends too early or cannot
\* be read, or the offset lies past the chain: an exception leaves the loop
\* and the record as far as it got; when AddRecord was calling, to nobody.
UpdateFails(t) ==
    LET c == call[t] IN
    /\ c.op = "update" /\ c.left > 0
    /\ orphaned' = orphaned \cup ({c.rec} \ {None})
    /\ Unlock(t)
    /\ UNCHANGED <<s, owned>>

\* All is written; AddRecord returns the new record to its caller.
UpdateDone(t) ==
    LET c == call[t] IN
    /\ c.op = "update" /\ c.left = 0
    /\ owned' = IF c.rec = None THEN owned ELSE [owned EXCEPT ![c.rec] = 1]
    /\ Unlock(t)
    /\ UNCHANGED <<s, orphaned>>

\* GetRecord walks the chain without a write; it throws past the end.
GetRecord(t, r) ==
    /\ CanStart(t)
    /\ owned[r] > 0
    /\ mSync' = t
    /\ call' = [call EXCEPT ![t] = Calling("get", None, r, 0, 0)]
    /\ UNCHANGED <<s, owned, orphaned>>

GetStep(t) ==
    LET c == call[t] IN
    /\ c.op = "get"
    /\ \/ /\ c.at # Last
          /\ call' = [call EXCEPT ![t] = Calling("get", None, s.e[c.at].next, 0, 0)]
          /\ UNCHANGED mSync
       \/ Unlock(t)
    /\ UNCHANGED <<s, owned, orphaned>>

\* Mutant: the new count is not written back.
IncrementRecordRefLost(t, r) ==
    /\ CanStart(t)
    /\ owned[r] > 0
    /\ owned' = [owned EXCEPT ![r] = @ + 1]
    /\ UNCHANGED <<s, mSync, call, orphaned>>

\* A second row or value takes a reference to a record its caller holds.
IncrementRecordRef(t, r) ==
    /\ CanStart(t)
    /\ owned[r] > 0
    /\ s.e[r].prev < MaxRefs
    /\ s' = SetRefs(s, r, s.e[r].prev + 1)
    /\ owned' = [owned EXCEPT ![r] = @ + 1]
    /\ UNCHANGED <<mSync, call, orphaned>>

\* Mutant: the record is freed when one reference is left.
DecrementRecordRefEarly(t, r) ==
    /\ CanStart(t)
    /\ owned[r] > 0
    /\ s' = SetRefs(s, r, s.e[r].prev - 1)
    /\ owned' = [owned EXCEPT ![r] = @ - 1]
    /\ IF s.e[r].prev <= 2
       THEN /\ mSync' = t
            /\ call' = [call EXCEPT ![t] = Calling("remove", None, r, 0, 0)]
       ELSE UNCHANGED <<mSync, call>>
    /\ UNCHANGED orphaned

\* A reference is dropped; the last one starts RemoveRecord under the lock.
DecrementRecordRef(t, r) ==
    /\ CanStart(t)
    /\ owned[r] > 0
    /\ s' = SetRefs(s, r, s.e[r].prev - 1)
    /\ owned' = [owned EXCEPT ![r] = @ - 1]
    /\ IF s.e[r].prev = 1
       THEN /\ mSync' = t
            /\ call' = [call EXCEPT ![t] = Calling("remove", None, r, 0, 0)]
       ELSE UNCHANGED <<mSync, call>>
    /\ UNCHANGED orphaned

\* Mutant: only the first entry of the record is freed.
RemoveStepHeadOnly(t) ==
    /\ call[t].op = "remove"
    /\ s' = AddToFreeList(s, call[t].at)
    /\ Unlock(t)
    /\ UNCHANGED <<owned, orphaned>>

\* Mutant: the link is read after the entry is freed.
RemoveStepLinkReadLate(t) ==
    LET c == call[t] IN
    /\ c.op = "remove"
    /\ IF c.at # Last
       THEN /\ s' = AddToFreeList(s, c.at)
            /\ call' = [call EXCEPT ![t] = Calling("remove", None, s'.e[c.at].next, 0, 0)]
            /\ UNCHANGED mSync
       ELSE Unlock(t) /\ UNCHANGED s
    /\ UNCHANGED <<owned, orphaned>>

\* RemoveRecord reads the link of the entry, then frees the entry.
RemoveStep(t) ==
    LET c == call[t] IN
    /\ c.op = "remove"
    /\ IF c.at # Last
       THEN /\ s' = AddToFreeList(s, c.at)
            /\ call' = [call EXCEPT ![t] = Calling("remove", None, s.e[c.at].next, 0, 0)]
            /\ UNCHANGED mSync
       ELSE Unlock(t) /\ UNCHANGED s
    /\ UNCHANGED <<owned, orphaned>>

\* A step of the thread that holds mSync, towards the end of its call.
HolderStep(t) ==
    \/ \E writes \in BOOLEAN : UpdateStep(t, writes)
    \/ UpdateGrow(t) \/ UpdateFails(t) \/ UpdateDone(t)
    \/ GetStep(t)
    \/ RemoveStep(t)

\* The table is closed and opened again: FinishInit takes the head of the
\* free list from entry 0.
Reopen ==
    /\ \A t \in Threads : call[t].op = "idle"
    /\ s' = [e |-> s.e, free |-> s.e[0].next, count |-> s.count]
    /\ UNCHANGED <<mSync, call, owned, orphaned>>

Next ==
    \/ \E t \in Threads :
        \/ \E size \in 0 .. MaxGrow : AddRecord(t, size)
        \/ AddRecordFill(t)
        \/ \E r \in Ids :
            \/ \E size \in 1 .. MaxGrow : UpdateRecord(t, r, size)
            \/ GetRecord(t, r)
            \/ IncrementRecordRef(t, r)
            \/ DecrementRecordRef(t, r)
        \/ HolderStep(t)
    \/ Reopen

Spec == Init /\ [][Next]_vars

\* A thread that holds the lock is scheduled until it lets go of it.
FairSpec == Spec /\ \A t \in Threads : WF_vars(mSync = t /\ HolderStep(t))

\* The container cannot grow (the disk is full): ExtentFreeList has already
\* moved mFirstFreeEntry when the write throws.
ExtentFails(t) ==
    LET c == call[t] IN
    /\ \/ CanStart(t) /\ FoundFree(s, 0) = Last
       \/ c.op = "update" /\ c.left > 0 /\ c.at = Last /\ FoundFree(s, c.prev) = Last
    /\ s' = [s EXCEPT !.free = s.count]
    /\ orphaned' = orphaned \cup ({c.rec} \ {None})
    /\ Unlock(t)
    /\ UNCHANGED owned

SpecDiskFull == Init /\ [][Next \/ \E t \in Threads : ExtentFails(t)]_vars

-----------------------------------------------------------------------------
(* Properties. *)

\* Every variable has its type; a lock holder is inside a call.
TypeOK ==
    /\ s \in Store
    /\ mSync \in Threads \cup {None}
    /\ call \in [Threads -> Calls]
    /\ owned \in [Ids -> Nat]
    /\ orphaned \subseteq Ids

\* The entries a list or a chain reaches from one of its entries.
Reach(st, from) ==
    LET upTo[n \in 0 .. MaxEntries] ==
            IF n = 0 THEN {from} \ {Last}
            ELSE upTo[n - 1] \cup ({st.e[id].next : id \in upTo[n - 1]} \ {Last})
    IN upTo[MaxEntries]

\* The free list is linked in both directions and its head, kept in memory
\* and in entry 0, names the same entry: what is read back after a restart
\* is what the running store uses.
ListNode(st, id) ==
    /\ ~st.e[id].first
    /\ st.e[id].next # Last =>
        /\ st.e[id].next \in 1 .. st.count - 1
        /\ st.e[st.e[id].next].deleted
        /\ st.e[st.e[id].next].prev = id
    /\ id # 0 =>
        /\ st.e[id].prev \in 0 .. st.count - 1
        /\ st.e[st.e[id].prev].deleted
        /\ st.e[st.e[id].prev].next = id

ListLinked(st) ==
    /\ st.e[0].deleted /\ st.e[0].prev = 0 /\ st.e[0].next = st.free
    /\ \A id \in 0 .. st.count - 1 : st.e[id].deleted => ListNode(st, id)

FreeListLinked == ListLinked(s)

\* The entry a RemoveRecord will free next, if one is under way.
Removing == {call[t].at : t \in {u \in Threads : call[u].op = "remove"}} \ {Last}

\* A record's chain is linked in both directions, never enters the free list
\* nor the head of another record; only the rest of a record that is being
\* removed has lost its head.
LinkedTo(st, id) ==
    st.e[id].next # Last =>
        /\ Live(st, st.e[id].next) /\ ~st.e[st.e[id].next].first
        /\ st.e[st.e[id].next].prev = id

LinkedFrom(st, id) ==
    /\ st.e[id].prev \in Ids /\ Live(st, st.e[id].prev)
    /\ st.e[st.e[id].prev].next = id

ChainsOK(st, rest) ==
    \A id \in Ids : Live(st, id) =>
        /\ LinkedTo(st, id)
        /\ ~st.e[id].first /\ id \notin rest => LinkedFrom(st, id)

ChainsLinked == ChainsOK(s, Removing)

\* No entry of the file is lost: it is on the free list, or in the chain of a
\* record, or in what is left of a record being removed; never in two.
NoEntryLost ==
    LET starts == {0} \cup Records(s) \cup Removing IN
    \A id \in 0 .. s.count - 1 :
        Cardinality({r \in starts : id \in Reach(s, r)}) = 1

\* The count kept in a record's first entry is the number of references that
\* exist: of rows and values, of an AddRecord that has not returned, of a
\* failed AddRecord.  One too few frees a record in use, one too many leaks it.
RefCountExact ==
    \A r \in Ids :
        LET adding == {t \in Threads : call[t].rec = r} IN
        IF IsFirst(s, r)
        THEN s.e[r].prev = owned[r] + Cardinality(adding) + (IF r \in orphaned THEN 1 ELSE 0)
        ELSE owned[r] = 0 /\ adding = {} /\ r \notin orphaned

\* The loops of GetRecord, UpdateRecord and RemoveRecord stand on an entry of
\* a record, never on a freed one (the assertions of those loops).
WalkOnLiveEntries ==
    \A t \in Threads : call[t].op # "idle" /\ call[t].at # Last => Live(s, call[t].at)

\* A record that stays referenced keeps every entry it has: nothing another
\* thread adds, extends or removes takes one away.
ReferencedRecordsKeepEntries ==
    [][\A r \in Ids : owned[r] > 0 /\ owned'[r] > 0 => Reach(s, r) \subseteq Reach(s', r)]_vars

\* Every critical section ends: no loop runs around a cyclic chain.
LockReleased == \A t \in Threads : mSync = t ~> mSync # t

\* What ExtractFromFreeList and AddToFreeList assert of the entry they get
\* through mFirstFreeEntry: it exists and is deleted.
FirstFreeIsDeleted == s.free # Last => s.free < s.count /\ s.e[s.free].deleted
=============================================================================
