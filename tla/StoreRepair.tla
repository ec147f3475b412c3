---------------------------- MODULE StoreRepair ----------------------------
(***************************************************************************)
(* What a crash leaves of a variable size store, and what RepairTable      *)
(* (dbs/pastra/ps_table.cpp) makes of it.  A table whose rows hold array   *)
(* and text values works on the store of VarStore through a cache that     *)
(* writes its entries and rows to the files in any order; the process ends *)
(* between any two writes; the repair then checks the value of every field *)
(* against the entries of the file, makes those that fail null, and turns  *)
(* the entries of no value into the new free list.  The process may end in *)
(* the middle of the repair too.                                           *)
(*                                                                         *)
(* One field is one row's value here; values kept in the row itself, and   *)
(* fields of fixed size, have no part in the store.  A block of the cache  *)
(* holds one entry, the least ConcludeStorageCheck allows.                 *)
(***************************************************************************)
EXTENDS VarStore, FiniteSetsExt, Functions

CONSTANTS
    MaxCalls,       \* bound: calls between two flushes
    MaxEvictions,   \* bound: blocks evicted between two flushes
    Arrays,         \* fields of an array type
    Texts           \* fields of type TEXT; a field is the number of its row

ASSUME StoreRepairAssumption ==
    /\ MaxCalls \in Nat /\ MaxEvictions \in Nat
    /\ Arrays \cup Texts \subseteq Nat /\ Arrays \cap Texts = {}
    /\ IsFiniteSet(Arrays \cup Texts)

Fields == Arrays \cup Texts

VARIABLES
    row,        \* the value of each field, as the row cache has it
    new,        \* the value a Set stores: its field and record
    value,      \* a value read from a field that somebody still holds
    file,       \* the entries, rows and entries' count in the files
    since,      \* calls and evictions since the last flush
    durable,    \* fields unchanged since the last flush
    stage,      \* what is being done to the table
    check       \* the repair: entries and fields it is through with

\* The variables of VarStore are the store while the table is open.
table     == <<row, new, value>>
tableVars == <<vars, table, file, since, durable, stage, check>>

\* The record of a field and its length; a null field has none.
Null    == [rec |-> None, size |-> 0]
Value   == {Null} \cup [rec : Ids, size : 1 .. MaxGrow]
Nothing == [field |-> None, val |-> Null]
OfField == {Nothing} \cup [field : Fields, val : Value \ {Null}]
Unused  == [used |-> {0}, done |-> {}]

-----------------------------------------------------------------------------
(* The open table. *)

TableInit ==
    /\ Init
    /\ row = [f \in Fields |-> Null] /\ new = Nothing /\ value = Nothing
    /\ file = [e |-> EmptyStore.e, row |-> row, count |-> 1]
    /\ since = [calls |-> 0, evicted |-> 0]
    /\ durable = Fields
    /\ stage = "open"
    /\ check = Unused

Open == stage = "open" /\ UNCHANGED <<file, stage, check>>

\* No call of the store is under way; no Set is either.
AtRest == mSync = None /\ \A t \in Threads : call[t].op = "idle"
IsIdle == new = Nothing /\ AtRest

\* A call on the open table begins.
Begin ==
    /\ Open /\ IsIdle
    /\ since.calls < MaxCalls
    /\ since' = [since EXCEPT !.calls = @ + 1]

\* StoreEntry of a value that is not in this store: AddRecord makes a record.
SetNew(t, f, size) ==
    /\ Begin
    /\ AddRecord(t, size)
    /\ new' = [field |-> f, val |-> [rec |-> Allocated(s, 0), size |-> size]]
    /\ UNCHANGED <<row, value, durable>>

\* StoreEntry of a value read from this table: one more row has the record.
SetShared(t, f) ==
    /\ Begin
    /\ value # Nothing /\ (f \in Arrays <=> value.field \in Arrays)
    /\ IncrementRecordRef(t, value.val.rec)
    /\ new' = [field |-> f, val |-> value.val]
    /\ UNCHANGED <<row, value, durable>>

\* AddRecord goes on, or the last reference has gone and RemoveRecord frees.
StoreWorks(t) ==
    /\ Open /\ UNCHANGED since
    /\ \/ AddRecordFill(t) \/ UpdateStep(t, TRUE) \/ UpdateGrow(t) \/ UpdateDone(t)
       \/ RemoveStep(t)
    /\ UNCHANGED <<table, durable>>

\* The source of the data throws: the record is there, the row unchanged.
SetFails(t) ==
    /\ Open /\ UNCHANGED since
    /\ UpdateFails(t)
    /\ new' = Nothing
    /\ UNCHANGED <<row, value, durable>>

\* The row gets its value; the record it had loses a reference.
StoreRow(t, f, val) ==
    /\ row' = [row EXCEPT ![f] = val]
    /\ durable' = durable \ {f}
    /\ IF row[f] = Null THEN UNCHANGED vars ELSE DecrementRecordRef(t, row[f].rec)

SetRow(t) ==
    /\ Open /\ UNCHANGED since
    /\ new # Nothing /\ AtRest
    /\ StoreRow(t, new.field, new.val)
    /\ new' = Nothing
    /\ UNCHANGED value

SetNull(t, f) ==
    /\ Begin
    /\ row[f] # Null
    /\ StoreRow(t, f, Null)
    /\ UNCHANGED <<new, value>>

\* Get: RowFieldArray and RowFieldText hold a reference as long as they live.
Get(t, f) ==
    /\ Begin
    /\ value = Nothing /\ row[f] # Null
    /\ IncrementRecordRef(t, row[f].rec)
    /\ value' = [field |-> f, val |-> row[f]]
    /\ UNCHANGED <<row, new, durable>>

DropValue(t) ==
    /\ Begin
    /\ value # Nothing
    /\ DecrementRecordRef(t, value.val.rec)
    /\ value' = Nothing
    /\ UNCHANGED <<row, new, durable>>

-----------------------------------------------------------------------------
(* The files. *)

\* The cache of the store or of the rows evicts a block that was changed.
WriteBack ==
    /\ stage = "open"
    /\ since.evicted < MaxEvictions
    /\ since' = [since EXCEPT !.evicted = @ + 1]
    /\ \/ \E id \in 0 .. s.count - 1 :
            /\ file.e[id] # s.e[id]
            /\ file' = [file EXCEPT !.e[id] = s.e[id]]
       \/ \E f \in Fields :
            /\ file.row[f] # row[f]
            /\ file' = [file EXCEPT !.row[f] = row[f]]
    /\ UNCHANGED <<vars, table, durable, stage, check>>

\* FlushInternal writes what is left in the caches, then the header.
FlushInternal ==
    /\ stage = "open" /\ IsIdle
    /\ file' = [e |-> s.e, row |-> row, count |-> s.count]
    /\ since' = [calls |-> 0, evicted |-> 0]
    /\ durable' = Fields
    /\ UNCHANGED <<vars, table, stage, check>>

\* The process ends, in the middle of a call, of a repair or of neither.
Crash ==
    /\ stage \in {"open", "check", "concluded"}
    /\ stage' = "down"
    /\ s' = EmptyStore /\ mSync' = None /\ call' = [t \in Threads |-> Idle]
    /\ owned' = [r \in Ids |-> 0] /\ orphaned' = {}
    /\ row' = [f \in Fields |-> Null] /\ new' = Nothing /\ value' = Nothing
    /\ since' = [calls |-> 0, evicted |-> 0]
    /\ check' = Unused
    /\ UNCHANGED <<file, durable>>

-----------------------------------------------------------------------------
(* RepairTable. *)

Memory == <<vars, table>>

\* repair_table_header and PrepareToCheckStorage: the file has as many
\* entries as the header says, what follows was written after the last flush.
StartRepair ==
    /\ stage = "down"
    /\ stage' = "check"
    /\ file' = [file EXCEPT !.e = [id \in Ids |-> IF id < file.count THEN @[id] ELSE NoEntry]]
    /\ UNCHANGED <<Memory, since, durable, check>>

\* The n entries a check reads, following NextEntry from the first.
EntriesOf(e, rec, n) ==
    LET at[k \in 1 .. n] ==
            IF k = 1 THEN rec
            ELSE IF at[k - 1] \in Ids THEN e[at[k - 1]].next ELSE Last
    IN at

\* Mutant: a record with two references is not taken for a first entry.
is_entry_valid_unshared(at, k, n) ==
    LET entry == file.e[at[k]] IN
    /\ entry.first <=> k = 1
    /\ k = n => entry.next = Last
    /\ entry.prev = IF k = 1 THEN 1 ELSE at[k - 1]

\* is_entry_valid, of the k-th of n entries.
is_entry_valid(at, k, n) ==
    LET entry == file.e[at[k]] IN
    /\ entry.first <=> k = 1
    /\ k = n => entry.next = Last
    /\ IF k = 1 THEN entry.prev >= 1 ELSE entry.prev = at[k - 1]

\* Entries of the file that no other field has; the first is not deleted.
Readable(at, n) ==
    /\ \A k \in 1 .. n : at[k] < file.count /\ at[k] \notin check.used
    /\ ~file.e[at[1]].deleted

\* Mutant: an array is checked like a text.
CheckArrayEntryOnce(at, n) == Readable(at, n) /\ is_entry_valid(at, 1, n)

\* Every entry of an array is validated, of a text the first one only:
\* CheckTextEntry does not reset entryValidated.
CheckArrayEntry(at, n) == Readable(at, n) /\ \A k \in 1 .. n : is_entry_valid(at, k, n)
CheckTextEntry(at, n)  == Readable(at, n) /\ is_entry_valid(at, 1, n)

\* The next row: a value that fails the check becomes null.  The bytes of the
\* value may fail it as well, unless they are as they were flushed.
CheckField(f, wellFormed) ==
    LET val == file.row[f]
        at  == EntriesOf(file.e, val.rec, val.size)
    IN /\ stage = "check"
       /\ f \notin check.done /\ \A g \in Fields : g < f => g \in check.done
       /\ ~wellFormed => f \notin durable
       /\ IF val = Null THEN check' = [check EXCEPT !.done = @ \cup {f}] /\ UNCHANGED file
          ELSE IF /\ wellFormed
                  /\ IF f \in Arrays THEN CheckArrayEntry(at, val.size) ELSE CheckTextEntry(at, val.size)
          THEN /\ check' = [used |-> check.used \cup Range(at), done |-> check.done \cup {f}]
               /\ UNCHANGED file
          ELSE /\ file' = [file EXCEPT !.row[f] = Null]
               /\ check' = [check EXCEPT !.done = @ \cup {f}]
       /\ UNCHANGED <<Memory, since, durable, stage>>

\* Mutant: the template entry keeps the link back to entry 0.
RelinkedForward(used, n) ==
    LET free == {0} \cup ((1 .. n - 1) \ used) IN
    [id \in Ids |->
        IF id >= n THEN NoEntry
        ELSE IF id \in free
        THEN LET behind == {x \in free : x > id} IN FreeEntry(0, IF behind = {} THEN Last ELSE Min(behind))
        ELSE file.e[id]]

\* The free list of the entries below n that no field has: each is linked to
\* the next one, behind entry 0.
Relinked(used, n) ==
    LET free == {0} \cup ((1 .. n - 1) \ used) IN
    [id \in Ids |->
        IF id >= n THEN NoEntry
        ELSE IF id \in free
        THEN LET before == {x \in free : x < id}
                 behind == {x \in free : x > id}
             IN FreeEntry(IF before = {} THEN 0 ELSE Max(before),
                             IF behind = {} THEN Last ELSE Min(behind))
        ELSE file.e[id]]

\* ConcludeStorageCheck cuts what follows the last used entry and makes the
\* free list anew.
ConcludeStorageCheck ==
    /\ stage = "check" /\ check.done = Fields
    /\ stage' = "concluded"
    /\ file' = [file EXCEPT !.e = Relinked(check.used, Max(check.used) + 1)]
    /\ UNCHANGED <<Memory, since, durable, check>>

\* The header is written last: the new size of the store, and no flags.
WriteHeader ==
    /\ stage = "concluded"
    /\ stage' = "repaired"
    /\ file' = [file EXCEPT !.count = Max(check.used) + 1]
    /\ UNCHANGED <<Memory, since, durable, check>>

Work(t) ==
    \/ \E f \in Fields :
        \/ \E size \in 1 .. MaxGrow : SetNew(t, f, size)
        \/ SetShared(t, f) \/ SetNull(t, f) \/ Get(t, f)
    \/ StoreWorks(t) \/ SetFails(t) \/ SetRow(t) \/ DropValue(t)

Repair ==
    \/ StartRepair
    \/ \E f \in Fields, wellFormed \in BOOLEAN : CheckField(f, wellFormed)
    \/ ConcludeStorageCheck
    \/ WriteHeader

TableNext == (\E t \in Threads : Work(t)) \/ WriteBack \/ FlushInternal \/ Crash \/ Repair

TableSpec == TableInit /\ [][TableNext]_tableVars

-----------------------------------------------------------------------------
(* Properties. *)

\* Every variable has its type.
TableTypeOK ==
    /\ TypeOK
    /\ row \in [Fields -> Value] /\ new \in OfField /\ value \in OfField
    /\ file \in [e : [Ids -> Entry], row : [Fields -> Value], count : 1 .. MaxEntries]
    /\ since \in [calls : 0 .. MaxCalls, evicted : 0 .. MaxEvictions]
    /\ durable \subseteq Fields
    /\ stage \in {"open", "down", "check", "concluded", "repaired"}
    /\ check \in [used : SUBSET Ids, done : SUBSET Fields]

\* The store the next process opens.
Repaired == [e |-> file.e, free |-> file.e[0].next, count |-> file.count]

EntriesOfField(f) == Range(EntriesOf(file.e, file.row[f].rec, file.row[f].size))
KeptFields == {f \in Fields : file.row[f] # Null}

\* A repaired store is whole: entry 0 heads a list, linked in both
\* directions, of exactly the entries no value has, those a crash or a failed
\* call had orphaned too; and no entry is in two values.
RepairedStoreIsWhole ==
    /\ TableTypeOK
    /\ stage = "repaired" =>
          /\ Reach(Repaired, 0) = (0 .. file.count - 1) \ UNION {EntriesOfField(f) : f \in KeptFields}
          /\ \A id \in Reach(Repaired, 0) : file.e[id].deleted /\ ListNode(Repaired, id)
          /\ \A f, g \in KeptFields : f # g => EntriesOfField(f) \cap EntriesOfField(g) = {}

\* A value a repair keeps is a whole record: its entries are different, linked
\* in both directions, and the last one ends it.  CheckTextEntry ensures it only
\* of texts that were flushed; and only of those does no entry stay deleted.
KeptValuesAreWhole ==
    stage = "repaired" =>
        \A f \in KeptFields \cap (Arrays \cup durable) :
            /\ Cardinality(EntriesOfField(f)) = file.row[f].size
            /\ Reach(Repaired, file.row[f].rec) = EntriesOfField(f)
            /\ \A id \in EntriesOfField(f) : file.e[id].first \/ file.e[file.e[id].prev].next = id
            /\ f \in durable => \A id \in EntriesOfField(f) : ~file.e[id].deleted

\* What was flushed and not changed since comes through every crash and
\* repair, unless an earlier row has the same record.
FlushedValuesSurvive ==
    [][\A f \in durable :
        /\ stage \in {"down", "check", "concluded"}
        /\ file.row[f] # Null /\ file'.row[f] # file.row[f]
        => \E g \in Fields : g < f /\ file.row[g].rec = file.row[f].rec]_tableVars
=============================================================================
