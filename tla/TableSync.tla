------------------------------ MODULE TableSync ------------------------------
(***************************************************************************)
(* How the threads that use the tables of one database share them: the     *)
(* locks of DbsHandler (dbs/pastra/ps_dbsmgr.cpp) and of PrototypeTable    *)
(* (dbs/pastra/ps_templatetable.cpp), the flags on disk that tell whether  *)
(* a database was closed properly, and the steps between them of the calls *)
(* that store rows, keep the index of a field, sort, flush and sync.        *)
(*                                                                         *)
(* A table has one field, which may be indexed.  The row caches and the    *)
(* nodes of the trees are abstracted: a table in memory is its rows and    *)
(* the keys of the index; a flush makes what is on disk equal to it.  The  *)
(* tree of reusable rows changes with the rows, under the same lock, and   *)
(* is not told apart from them.                                            *)
(***************************************************************************)
EXTENDS Integers, FiniteSets

CONSTANTS
    Threads,
    Tables,
    MaxRows,        \* bound: rows a table may grow to
    Values,         \* what a field can hold, Null among it
    Null,
    Absent,         \* the value of a row that is not allocated
    Ops,            \* the operations the threads call
    SharedRows,     \* may two threads store to the same row at once?
    None            \* "no thread", "no table", "no row"

AllOps == {"set", "append", "add", "exchange", "sort", "match",
           "createIndex", "removeIndex", "syncTable", "syncAll"}

ASSUME TableSyncAssumption ==
    /\ IsFiniteSet(Threads)
    /\ MaxRows \in Nat
    /\ Null \in Values
    /\ Absent \notin Values
    /\ Ops \subseteq AllOps
    /\ SharedRows \in BOOLEAN
    /\ None \notin Threads \cup Tables \cup Nat

VARIABLES
    mSync,          \* the holder of DbsHandler's lock
    mNeedsSync,
    notClosed,      \* PS_FLAG_NOT_CLOSED in the database's file
    mRowsSync,      \* the holders of the two locks of each table
    mIndexesSync,
    mRowModified,
    mLockInProgress,
    acquired,       \* who has acquired the indexed field of each table
    mem,            \* the content of each table, in memory
    disk,           \* and in its files, with PS_TABLE_MODIFIED_MASK
    call            \* the call each thread is in

vars == <<mSync, mNeedsSync, notClosed, mRowsSync, mIndexesSync, mRowModified,
          mLockInProgress, acquired, mem, disk, call>>

dbVars   == <<mSync, mNeedsSync, notClosed>>
lockVars == <<mIndexesSync, mLockInProgress>>
contents == <<mem, disk>>

-----------------------------------------------------------------------------

Rows == 0 .. MaxRows - 1

Content == [row : [Rows -> Values \cup {Absent}], indexed : BOOLEAN,
            keys : SUBSET (Values \X Rows)]

Count(tb) == Cardinality({r \in Rows : mem[tb].row[r] # Absent})

\* The keys of a field that is indexed: one for each row.
KeysOf(row) == {<<row[r], r>> : r \in {x \in Rows : row[x] # Absent}}

\* What a thread is doing: pc names its next step.  A call that stores to two
\* rows has the second one in other; todo are the tables left to sync.
Calling(op, pc, tb, row, val, old, other, todo) ==
    [op |-> op, pc |-> pc, tb |-> tb, row |-> row, val |-> val, old |-> old,
     other |-> other, todo |-> todo]

Idle == Calling("idle", "idle", None, None, Null, Null, None, {})

Simple(op, pc, tb) == Calling(op, pc, tb, None, Null, Null, None, {})

Steps == {"idle", "mark", "notified", "remark", "write", "acquire", "remove",
          "insert", "relock", "addLock", "addIndex", "dropIndex",
          "match", "matchAcquire", "matching",
          "lockSet", "lockRows", "lockIndexes", "locked",
          "nextTable", "flushRows", "flushIndexes", "flush"}

Calls == [op : AllOps \cup {"idle"}, pc : Steps, tb : Tables \cup {None},
          row : Rows \cup {None}, val : Values, old : Values,
          other : Rows \cup {None}, todo : SUBSET Tables]

Goto(t, pc) == call' = [call EXCEPT ![t].pc = pc]

Starts(t, op) == call[t].op = "idle" /\ op \in Ops

Init ==
    /\ mSync = None /\ mNeedsSync = FALSE /\ notClosed = FALSE
    /\ mRowsSync = [tb \in Tables |-> None]
    /\ mIndexesSync = [tb \in Tables |-> None]
    /\ mRowModified = [tb \in Tables |-> FALSE]
    /\ mLockInProgress = [tb \in Tables |-> FALSE]
    /\ acquired = [tb \in Tables |-> None]
    /\ \E n \in 0 .. MaxRows, indexed \in BOOLEAN :
        LET row == [r \in Rows |-> IF r < n THEN Null ELSE Absent] IN
        mem = [tb \in Tables |-> [row |-> row, indexed |-> indexed,
                                  keys |-> IF indexed THEN KeysOf(row) ELSE {}]]
    /\ disk = [tb \in Tables |-> [content |-> mem[tb], modified |-> FALSE]]
    /\ call = [t \in Threads |-> Idle]

\* The table's lock is taken, or let go of, by t.
TakeRows(t, tb) == mRowsSync[tb] = None /\ mRowsSync' = [mRowsSync EXCEPT ![tb] = t]
FreeRows(tb)    == mRowsSync' = [mRowsSync EXCEPT ![tb] = None]

-----------------------------------------------------------------------------
(* The calls that change rows begin by taking mRowsSync. *)

\* Nobody else is storing to row r of tb, or the callers do not care.
MayStore(t, tb, r) ==
    SharedRows \/ \A u \in Threads \ {t} :
                    call[u].tb = tb => call[u].row # r /\ call[u].other # r

\* StoreEntry reads the current value; nothing is to be done when it is v.
Set(t, tb, r, v) ==
    /\ Starts(t, "set") /\ TakeRows(t, tb) /\ MayStore(t, tb, r)
    /\ mem[tb].row[r] \notin {Absent, v}
    /\ call' = [call EXCEPT ![t] = Calling("set", "mark", tb, r, v, mem[tb].row[r], None, {})]
    /\ UNCHANGED <<dbVars, lockVars, mRowModified, acquired, contents>>

\* Bound: the table can take one more row than those on their way.
MayGrow(tb) ==
    Count(tb) + Cardinality({u \in Threads : call[u].tb = tb /\ call[u].op \in {"add", "append"}})
        < MaxRows

\* StoreEntry on the row after the last calls AddRow(true).
Append(t, tb, v) ==
    /\ Starts(t, "append") /\ TakeRows(t, tb) /\ MayGrow(tb)
    /\ MayStore(t, tb, Count(tb))
    /\ call' = [call EXCEPT ![t] = Calling("append", "mark", tb, Count(tb), v, Null, None, {})]
    /\ UNCHANGED <<dbVars, lockVars, mRowModified, acquired, contents>>

AddRow(t, tb) ==
    /\ Starts(t, "add") /\ TakeRows(t, tb) /\ MayGrow(tb)
    /\ call' = [call EXCEPT ![t] = Simple("add", "mark", tb)]
    /\ UNCHANGED <<dbVars, lockVars, mRowModified, acquired, contents>>

\* The two values of ExchangeRows, which must differ for anything to happen.
Exchange(t, op, tb, r1, r2) ==
    LET row == mem[tb].row IN
    /\ Absent \notin {row[r1], row[r2]} /\ row[r1] # row[r2]
    /\ call' = [call EXCEPT ![t] = Calling(op, "mark", tb, r1, row[r2], row[r1], r2, {})]

\* ExchangeRows and PrototypeTable::Sort hold mRowsSync and store with no
\* further locking.
ExchangeRows(t, tb, r1, r2) ==
    /\ Starts(t, "exchange") /\ TakeRows(t, tb)
    /\ MayStore(t, tb, r1) /\ MayStore(t, tb, r2)
    /\ Exchange(t, "exchange", tb, r1, r2)
    /\ UNCHANGED <<dbVars, lockVars, mRowModified, acquired, contents>>

\* Calls that pass MarkRowModification their guard, and acquire the field.
ThreadSafe(t) == call[t].op \in {"set", "add"}

\* Mutant: the flag in the file is left as it is.
NotifyUnflagged(t) ==
    /\ call[t].pc = "mark" /\ ~mRowModified[call[t].tb] /\ mSync = None
    /\ mSync' = t /\ mNeedsSync' = TRUE
    /\ Goto(t, "notified")
    /\ UNCHANGED <<notClosed, mRowsSync, lockVars, mRowModified, acquired, contents>>

\* MarkRowModification, NotifyDatabaseUpdate(true) with the lock free: the flag
\* in the file is only written when nothing was to be synced before.
Notify(t) ==
    /\ call[t].pc = "mark" /\ ~mRowModified[call[t].tb] /\ mSync = None
    /\ mSync' = t /\ mNeedsSync' = TRUE
    /\ notClosed' = (mNeedsSync => notClosed)
    /\ Goto(t, "notified")
    /\ UNCHANGED <<mRowsSync, lockVars, mRowModified, acquired, contents>>

\* It returned: the table is modified, in memory and in its header.
Notified(t) ==
    LET tb == call[t].tb IN
    /\ call[t].pc = "notified"
    /\ mSync' = None
    /\ mRowModified' = [mRowModified EXCEPT ![tb] = TRUE]
    /\ disk' = [disk EXCEPT ![tb].modified = TRUE]
    /\ Goto(t, "mark")
    /\ UNCHANGED <<mNeedsSync, notClosed, mRowsSync, lockVars, acquired, mem>>

\* Mutant: the caller's guard is kept while the database's lock is awaited.
MarkYieldHolding(t) ==
    /\ call[t].pc = "mark" /\ ThreadSafe(t)
    /\ ~mRowModified[call[t].tb] /\ mSync # None
    /\ UNCHANGED vars

\* The lock is not free: a caller with a guard lets go of the rows and tries
\* again; one without a guard (AddRow(true), a sort) spins where it is.
MarkYield(t) ==
    /\ call[t].pc = "mark" /\ ThreadSafe(t)
    /\ ~mRowModified[call[t].tb] /\ mSync # None
    /\ FreeRows(call[t].tb)
    /\ Goto(t, "remark")
    /\ UNCHANGED <<dbVars, lockVars, mRowModified, acquired, contents>>

\* The loop goes on to notify; that the table is by then marked, which it does
\* not look at again, is seen here at once: notifying twice changes nothing.
Remark(t) ==
    /\ call[t].pc = "remark"
    /\ TakeRows(t, call[t].tb)
    /\ Goto(t, "mark")
    /\ UNCHANGED <<dbVars, lockVars, mRowModified, acquired, contents>>

Marked(t) ==
    /\ call[t].pc = "mark" /\ mRowModified[call[t].tb]
    /\ Goto(t, IF call[t].op \in {"add", "append"} THEN "addLock" ELSE "write")
    /\ UNCHANGED <<dbVars, mRowsSync, lockVars, mRowModified, acquired, contents>>

-----------------------------------------------------------------------------
(* AddRow: the new row is null; the indexes are updated under mIndexesSync. *)

AddLock(t) ==
    LET tb == call[t].tb IN
    /\ call[t].pc = "addLock" /\ mIndexesSync[tb] = None
    /\ mIndexesSync' = [mIndexesSync EXCEPT ![tb] = t]
    /\ Goto(t, "addIndex")
    /\ UNCHANGED <<dbVars, mRowsSync, mLockInProgress, mRowModified, acquired, contents>>

\* Mutant: the index gets the row after the new one.
AddIndexOffByOne(t) ==
    LET tb == call[t].tb
        n  == Count(tb)
        c  == mem[tb]
    IN
    /\ call[t].pc = "addIndex" /\ (c.indexed => acquired[tb] = None)
    /\ mem' = [mem EXCEPT ![tb] = [row     |-> [c.row EXCEPT ![n] = Null],
                                   indexed |-> c.indexed,
                                   keys    |-> IF c.indexed THEN c.keys \cup {<<Null, n + 1>>} ELSE {}]]
    /\ mIndexesSync' = [mIndexesSync EXCEPT ![tb] = None]
    /\ call' = [call EXCEPT ![t] = Idle]
    /\ FreeRows(tb)
    /\ UNCHANGED <<dbVars, mLockInProgress, mRowModified, acquired, disk>>

\* The row to store to after AddRow(true) has its value already when that is
\* null; else StoreEntry goes on.
AddIndex(t) ==
    LET tb == call[t].tb
        n  == Count(tb)
        c  == mem[tb]
        on == call[t].op = "append" /\ call[t].val # Null
    IN
    /\ call[t].pc = "addIndex" /\ (c.indexed => acquired[tb] = None)
    /\ mem' = [mem EXCEPT ![tb] = [row     |-> [c.row EXCEPT ![n] = Null],
                                   indexed |-> c.indexed,
                                   keys    |-> IF c.indexed THEN c.keys \cup {<<Null, n>>} ELSE {}]]
    /\ mIndexesSync' = [mIndexesSync EXCEPT ![tb] = None]
    /\ IF on THEN /\ call' = [call EXCEPT ![t].op = "set", ![t].pc = "mark"]
                  /\ UNCHANGED mRowsSync
             ELSE /\ call' = [call EXCEPT ![t] = Idle]
                  /\ FreeRows(tb)
    /\ UNCHANGED <<dbVars, mLockInProgress, mRowModified, acquired, disk>>

-----------------------------------------------------------------------------
(* StoreEntry, once the modification is marked. *)

\* A row is stored: ExchangeRows goes on with its second row, a sort with its
\* next exchange; else the lock is let go of.
RowStored(t) ==
    LET c == call[t] IN
    IF c.other # None
    THEN /\ call' = [call EXCEPT ![t] = Calling(c.op, "mark", c.tb, c.other, c.old, c.val, None, {})]
         /\ UNCHANGED mRowsSync
    ELSE IF c.op = "sort"
    THEN call' = [call EXCEPT ![t] = Simple("sort", "locked", c.tb)] /\ UNCHANGED mRowsSync
    ELSE call' = [call EXCEPT ![t] = Idle] /\ FreeRows(c.tb)

\* The row changes; its index, when it has one, is next.
Write(t) ==
    LET c == call[t] IN
    /\ c.pc = "write"
    /\ mem' = [mem EXCEPT ![c.tb].row[c.row] = c.val]
    /\ IF mem[c.tb].indexed
       THEN /\ Goto(t, IF ThreadSafe(t) THEN "acquire" ELSE "remove")
            /\ UNCHANGED mRowsSync
       ELSE RowStored(t)
    /\ UNCHANGED <<dbVars, lockVars, mRowModified, acquired, disk>>

\* The field of table tb can be acquired.
Acquirable(tb) == mIndexesSync[tb] = None /\ acquired[tb] = None

\* Mutant: the field is taken whoever has it.
AcquireFieldIndexAnyway(t) ==
    LET tb == call[t].tb IN
    /\ call[t].pc = "acquire" /\ mIndexesSync[tb] = None
    /\ acquired' = [acquired EXCEPT ![tb] = t]
    /\ FreeRows(tb)
    /\ Goto(t, "remove")
    /\ UNCHANGED <<dbVars, lockVars, mRowModified, contents>>

\* AcquireFieldIndex, then the rows are unlocked while the tree changes.
AcquireFieldIndex(t) ==
    LET tb == call[t].tb IN
    /\ call[t].pc = "acquire" /\ Acquirable(tb)
    /\ acquired' = [acquired EXCEPT ![tb] = t]
    /\ FreeRows(tb)
    /\ Goto(t, "remove")
    /\ UNCHANGED <<dbVars, lockVars, mRowModified, contents>>

\* Mutant: the key of the old value stays in the tree.
RemoveKeyForgotten(t) ==
    /\ call[t].pc = "remove"
    /\ Goto(t, "insert")
    /\ UNCHANGED <<dbVars, mRowsSync, lockVars, mRowModified, acquired, contents>>

RemoveKey(t) ==
    LET c == call[t] IN
    /\ c.pc = "remove"
    /\ mem' = [mem EXCEPT ![c.tb].keys = @ \ {<<c.old, c.row>>}]
    /\ Goto(t, "insert")
    /\ UNCHANGED <<dbVars, mRowsSync, lockVars, mRowModified, acquired, disk>>

\* The new key, which the tree refuses with an exception if it has it; either
\* way the field is released, and the lock taken back only to be let go of.
InsertKey(t) ==
    LET c == call[t] IN
    /\ c.pc = "insert"
    /\ mem' = [mem EXCEPT ![c.tb].keys = @ \cup {<<c.val, c.row>>}]
    /\ IF ThreadSafe(t)
       THEN /\ acquired' = [acquired EXCEPT ![c.tb] = None]
            /\ Goto(t, "relock")
            /\ UNCHANGED mRowsSync
       ELSE UNCHANGED acquired /\ RowStored(t)
    /\ UNCHANGED <<dbVars, lockVars, mRowModified, disk>>

Relock(t) ==
    /\ call[t].pc = "relock" /\ mRowsSync[call[t].tb] = None
    /\ call' = [call EXCEPT ![t] = Idle]
    /\ UNCHANGED <<dbVars, mRowsSync, lockVars, mRowModified, acquired, contents>>

-----------------------------------------------------------------------------
(* Searches by index, and the index itself. *)

\* MatchRows finds the field indexed; MatchRowsWithIndex reads the pointer to
\* the index (asserting it is there), acquires the field and searches.
MatchRows(t, tb) ==
    /\ Starts(t, "match") /\ mem[tb].indexed /\ Count(tb) > 0
    /\ call' = [call EXCEPT ![t] = Simple("match", "match", tb)]
    /\ UNCHANGED <<dbVars, mRowsSync, lockVars, mRowModified, acquired, contents>>

MatchRowsWithIndex(t) ==
    LET tb == call[t].tb IN
    /\ \/ /\ call[t].pc = "match" /\ mem[tb].indexed
          /\ Goto(t, "matchAcquire")
          /\ UNCHANGED acquired
       \/ /\ call[t].pc = "matchAcquire" /\ Acquirable(tb)
          /\ acquired' = [acquired EXCEPT ![tb] = t]
          /\ Goto(t, "matching")
       \/ /\ call[t].pc = "matching"
          /\ acquired' = [acquired EXCEPT ![tb] = None]
          /\ call' = [call EXCEPT ![t] = Idle]
    /\ UNCHANGED <<dbVars, mRowsSync, lockVars, mRowModified, contents>>

\* CreateIndex fills a new tree under mRowsSync and stores the table's header;
\* the tree's nodes are in memory.
CreateIndex(t, tb) ==
    /\ Starts(t, "createIndex") /\ mRowsSync[tb] = None /\ ~mem[tb].indexed
    /\ mem' = [mem EXCEPT ![tb].indexed = TRUE, ![tb].keys = KeysOf(mem[tb].row)]
    /\ disk' = [disk EXCEPT ![tb].content.indexed = TRUE, ![tb].modified = mRowModified[tb]]
    /\ UNCHANGED <<dbVars, mRowsSync, lockVars, mRowModified, acquired, call>>

RemoveIndex(t, tb) ==
    /\ Starts(t, "removeIndex") /\ TakeRows(t, tb) /\ mem[tb].indexed
    /\ call' = [call EXCEPT ![t] = Simple("removeIndex", "dropIndex", tb)]
    /\ UNCHANGED <<dbVars, lockVars, mRowModified, acquired, contents>>

\* Mutant: the index is dropped under a thread that works on it.
DropIndexInUse(t) ==
    LET tb == call[t].tb IN
    /\ call[t].pc = "dropIndex" /\ mIndexesSync[tb] = None
    /\ mem' = [mem EXCEPT ![tb].indexed = FALSE, ![tb].keys = {}]
    /\ disk' = [disk EXCEPT ![tb].content.indexed = FALSE, ![tb].content.keys = {},
                            ![tb].modified = mRowModified[tb]]
    /\ call' = [call EXCEPT ![t] = Idle]
    /\ FreeRows(tb)
    /\ UNCHANGED <<dbVars, lockVars, mRowModified, acquired>>

\* RemoveIndex, once it could acquire the field.
DropIndex(t) ==
    LET tb == call[t].tb IN
    /\ call[t].pc = "dropIndex" /\ Acquirable(tb)
    /\ mem' = [mem EXCEPT ![tb].indexed = FALSE, ![tb].keys = {}]
    /\ disk' = [disk EXCEPT ![tb].content.indexed = FALSE, ![tb].content.keys = {},
                            ![tb].modified = mRowModified[tb]]
    /\ call' = [call EXCEPT ![t] = Idle]
    /\ FreeRows(tb)
    /\ UNCHANGED <<dbVars, lockVars, mRowModified, acquired>>

-----------------------------------------------------------------------------
(* Flushing. *)

\* SyncTableContent takes the database's lock, then flushes the table.
SyncTableContent(t, tb) ==
    /\ Starts(t, "syncTable") /\ mSync = None
    /\ mSync' = t
    /\ call' = [call EXCEPT ![t] = Simple("syncTable", "flushRows", tb)]
    /\ UNCHANGED <<mNeedsSync, notClosed, mRowsSync, lockVars, mRowModified, acquired, contents>>

\* SyncAllTablesContent flushes them all, when something has been modified.
SyncAllTablesContent(t) ==
    /\ Starts(t, "syncAll") /\ mSync = None /\ mNeedsSync
    /\ mSync' = t
    /\ call' = [call EXCEPT ![t] = Calling("syncAll", "nextTable", None, None, Null, Null, None, Tables)]
    /\ UNCHANGED <<mNeedsSync, notClosed, mRowsSync, lockVars, mRowModified, acquired, contents>>

NextTable(t) ==
    /\ call[t].pc = "nextTable"
    /\ \E tb \in call[t].todo :
        call' = [call EXCEPT ![t].tb = tb, ![t].todo = @ \ {tb}, ![t].pc = "flushRows"]
    /\ UNCHANGED <<dbVars, mRowsSync, lockVars, mRowModified, acquired, contents>>

\* All are flushed: the file says the database is closed.
SyncAllDone(t) ==
    /\ call[t].pc = "nextTable" /\ call[t].todo = {}
    /\ mNeedsSync' = FALSE /\ notClosed' = FALSE /\ mSync' = None
    /\ call' = [call EXCEPT ![t] = Idle]
    /\ UNCHANGED <<mRowsSync, lockVars, mRowModified, acquired, contents>>

\* Flush's DoubleLockGuard: the first lock is let go of if the second is held.
FlushLockRows(t) ==
    /\ call[t].pc = "flushRows"
    /\ TakeRows(t, call[t].tb)
    /\ Goto(t, "flushIndexes")
    /\ UNCHANGED <<dbVars, lockVars, mRowModified, acquired, contents>>

FlushLockIndexes(t) ==
    LET tb == call[t].tb IN
    /\ call[t].pc = "flushIndexes"
    /\ IF mIndexesSync[tb] = None
       THEN /\ mIndexesSync' = [mIndexesSync EXCEPT ![tb] = t]
            /\ Goto(t, "flush")
            /\ UNCHANGED mRowsSync
       ELSE /\ FreeRows(tb)
            /\ Goto(t, "flushRows")
            /\ UNCHANGED mIndexesSync
    /\ UNCHANGED <<dbVars, mLockInProgress, mRowModified, acquired, contents>>

\* Mutant: the nodes of an index are flushed while a thread works on it.
FlushInternalEarly(t) ==
    LET tb == call[t].tb IN
    /\ call[t].pc = "flush"
    /\ disk' = [disk EXCEPT ![tb] = [content |-> mem[tb], modified |-> FALSE]]
    /\ mRowModified' = [mRowModified EXCEPT ![tb] = FALSE]
    /\ IF call[t].op = "sort"
       THEN Goto(t, "locked") /\ UNCHANGED <<mSync, mRowsSync, mIndexesSync>>
       ELSE /\ FreeRows(tb)
            /\ mIndexesSync' = [mIndexesSync EXCEPT ![tb] = None]
            /\ IF call[t].op = "syncAll"
               THEN Goto(t, "nextTable") /\ UNCHANGED mSync
               ELSE call' = [call EXCEPT ![t] = Idle] /\ mSync' = None
    /\ UNCHANGED <<mNeedsSync, notClosed, mLockInProgress, acquired, mem>>

\* FlushInternal waits for the field to be released; at its end the header
\* says the table is not modified.  Then a sort has the table locked, a sync
\* goes on without the locks.
FlushInternal(t) ==
    LET tb == call[t].tb IN
    /\ call[t].pc = "flush" /\ (mem[tb].indexed => acquired[tb] = None)
    /\ disk' = [disk EXCEPT ![tb] = [content |-> mem[tb], modified |-> FALSE]]
    /\ mRowModified' = [mRowModified EXCEPT ![tb] = FALSE]
    /\ IF call[t].op = "sort"
       THEN Goto(t, "locked") /\ UNCHANGED <<mSync, mRowsSync, mIndexesSync>>
       ELSE /\ FreeRows(tb)
            /\ mIndexesSync' = [mIndexesSync EXCEPT ![tb] = None]
            /\ IF call[t].op = "syncAll"
               THEN Goto(t, "nextTable") /\ UNCHANGED mSync
               ELSE call' = [call EXCEPT ![t] = Idle] /\ mSync' = None
    /\ UNCHANGED <<mNeedsSync, notClosed, mLockInProgress, acquired, mem>>

-----------------------------------------------------------------------------
(* Sorting (TableSortContainer of stdlib/base): LockTable, exchanges of    *)
(* rows with no locking of their own, UnlockTable.                         *)

\* LockTable throws when it finds mLockInProgress set.
LockTable(t, tb) ==
    /\ Starts(t, "sort") /\ ~mLockInProgress[tb]
    /\ call' = [call EXCEPT ![t] = Simple("sort", "lockSet", tb)]
    /\ UNCHANGED <<dbVars, mRowsSync, lockVars, mRowModified, acquired, contents>>

LockInProgress(t) ==
    /\ call[t].pc = "lockSet"
    /\ mLockInProgress' = [mLockInProgress EXCEPT ![call[t].tb] = TRUE]
    /\ Goto(t, "lockRows")
    /\ UNCHANGED <<dbVars, mRowsSync, mIndexesSync, mRowModified, acquired, contents>>

LockRows(t) ==
    /\ call[t].pc = "lockRows"
    /\ TakeRows(t, call[t].tb)
    /\ Goto(t, "lockIndexes")
    /\ UNCHANGED <<dbVars, lockVars, mRowModified, acquired, contents>>

LockIndexes(t) ==
    LET tb == call[t].tb IN
    /\ call[t].pc = "lockIndexes" /\ mIndexesSync[tb] = None
    /\ mIndexesSync' = [mIndexesSync EXCEPT ![tb] = t]
    /\ Goto(t, "flush")
    /\ UNCHANGED <<dbVars, mRowsSync, mLockInProgress, mRowModified, acquired, contents>>

SortExchange(t, r1, r2) ==
    /\ call[t].pc = "locked"
    /\ Exchange(t, "sort", call[t].tb, r1, r2)
    /\ UNCHANGED <<dbVars, mRowsSync, lockVars, mRowModified, acquired, contents>>

\* UnlockTable throws, and unlocks nothing, when mLockInProgress is not set.
UnlockTable(t) ==
    LET tb == call[t].tb IN
    /\ call[t].pc = "locked"
    /\ call' = [call EXCEPT ![t] = Idle]
    /\ IF mLockInProgress[tb]
       THEN /\ mLockInProgress' = [mLockInProgress EXCEPT ![tb] = FALSE]
            /\ mIndexesSync' = [mIndexesSync EXCEPT ![tb] = None]
            /\ FreeRows(tb)
       ELSE UNCHANGED <<lockVars, mRowsSync>>
    /\ UNCHANGED <<dbVars, mRowModified, acquired, contents>>

-----------------------------------------------------------------------------

Start(t, tb) ==
    \/ \E r \in Rows, v \in Values : Set(t, tb, r, v)
    \/ \E v \in Values : Append(t, tb, v)
    \/ AddRow(t, tb)
    \/ \E r1, r2 \in Rows : ExchangeRows(t, tb, r1, r2)
    \/ MatchRows(t, tb) \/ CreateIndex(t, tb) \/ RemoveIndex(t, tb)
    \/ SyncTableContent(t, tb) \/ LockTable(t, tb)

\* A step of the call t is in; only a sort has a choice of what to do next.
Step(t) ==
    \/ Notify(t) \/ Notified(t) \/ MarkYield(t) \/ Remark(t) \/ Marked(t)
    \/ AddLock(t) \/ AddIndex(t)
    \/ Write(t) \/ AcquireFieldIndex(t) \/ RemoveKey(t) \/ InsertKey(t) \/ Relock(t)
    \/ MatchRowsWithIndex(t) \/ DropIndex(t)
    \/ NextTable(t) \/ SyncAllDone(t)
    \/ FlushLockRows(t) \/ FlushLockIndexes(t) \/ FlushInternal(t)
    \/ LockInProgress(t) \/ LockRows(t) \/ LockIndexes(t) \/ UnlockTable(t)

Next ==
    \E t \in Threads :
        \/ \E tb \in Tables : Start(t, tb)
        \/ SyncAllTablesContent(t)
        \/ \E r1, r2 \in Rows : SortExchange(t, r1, r2)
        \/ Step(t)

Spec == Init /\ [][Next]_vars

\* Every thread runs, and gets a lock that is free again and again.
FairSpec == Spec /\ \A t \in Threads : SF_vars(Step(t))

-----------------------------------------------------------------------------
(* Properties. *)

\* Every variable has its type.
TypeOK ==
    /\ mSync \in Threads \cup {None} /\ mNeedsSync \in BOOLEAN /\ notClosed \in BOOLEAN
    /\ mRowsSync \in [Tables -> Threads \cup {None}]
    /\ mIndexesSync \in [Tables -> Threads \cup {None}]
    /\ mRowModified \in [Tables -> BOOLEAN]
    /\ mLockInProgress \in [Tables -> BOOLEAN]
    /\ acquired \in [Tables -> Threads \cup {None}]
    /\ mem \in [Tables -> Content]
    /\ disk \in [Tables -> [content : Content, modified : BOOLEAN]]
    /\ call \in [Threads -> Calls]

\* A crash is noticed: as long as the file says that the database was closed,
\* and as long as a table's header says that it is not modified, nothing is in
\* memory that the table's files do not have.
CleanMeansFlushed ==
    \A tb \in Tables :
        /\ ~notClosed => ~disk[tb].modified
        /\ ~disk[tb].modified => disk[tb].content = mem[tb]

\* The threads that read or write the tree of the index of tb.
InIndex(tb) ==
    {t \in Threads : call[t].tb = tb /\ call[t].pc \in {"remove", "insert", "matching"}}

\* At most one thread is in the tree of an index, which has no lock of its own.
IndexExclusive == \A tb \in Tables : Cardinality(InIndex(tb)) <= 1

\* Calls that have changed a row and not yet its index.
IndexBehind(tb) ==
    \E t \in Threads : call[t].tb = tb /\ call[t].pc \in {"acquire", "remove", "insert"}

\* Once the calls that changed rows have updated it, an index has a key for
\* each row, with the value of the row: a search by index misses no row,
\* whichever rows the callers store to at once.
IndexMissesNoRow ==
    \A tb \in Tables :
        mem[tb].indexed /\ ~IndexBehind(tb) => KeysOf(mem[tb].row) \subseteq mem[tb].keys

\* It has no other key either, when no two callers store to one row at once:
\* StoreEntry read the value it replaces before it waited.
IndexMatchesRows ==
    \A tb \in Tables :
        mem[tb].indexed /\ ~IndexBehind(tb) => mem[tb].keys = KeysOf(mem[tb].row)

\* A thread that has looked the index up finds it there when it uses it (the
\* assertion on nodeMgr in MatchRowsWithIndex).
IndexThere ==
    \A t \in Threads :
        call[t].pc \in {"match", "matchAcquire", "matching", "remove", "insert"}
            => mem[call[t].tb].indexed

\* The index is there, misses no row and has one user, with callers that store
\* to one row at once, sort, sync, and create and remove the index.
IndexSound == TypeOK /\ IndexExclusive /\ IndexMissesNoRow /\ IndexThere

\* A field that StoreEntry is about to make null is not null (the assertion on
\* the row's null bits in StoreEntry).
NullStoredOnce ==
    \A t \in Threads : call[t].pc = "write" /\ call[t].val = Null
        => mem[call[t].tb].row[call[t].row] # Null

\* The sync of t waits for the rows of a table, and the call that has them for
\* the database's lock, which the sync has: AddRow(true) passes
\* MarkRowModification no guard to let go of.  Neither will ever go on.
Embraced(t) ==
    LET tb == call[t].tb
        u  == mRowsSync[tb]
    IN  /\ mSync = t /\ call[t].pc = "flushRows"
        /\ u \in Threads /\ call[u].pc = "mark" /\ ~ThreadSafe(u) /\ ~mRowModified[tb]

\* A sync that began comes to its end, or stands in the one embrace the code
\* allows: no other order of the locks, and no caller, holds it up for ever.
SyncEnds ==
    \A t \in Threads :
        call[t].op \in {"syncAll", "syncTable"} ~> call[t].op = "idle" \/ Embraced(t)
=============================================================================
