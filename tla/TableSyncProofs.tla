--------------------------- MODULE TableSyncProofs ---------------------------
(* Proofs about TableSync: the types, one thread in a tree, a crash that is *)
(* noticed, and keys that tell what the rows hold, for any number of        *)
(* threads, tables, rows and values.                                        *)
EXTENDS TableSync, FiniteSetTheorems, TLAPS

-----------------------------------------------------------------------------
(* The invariant. *)

Data == [row : [Rows -> Values \cup {Absent}], indexed : BOOLEAN,
         keys : SUBSET (Values \X (Nat \cup {None}))]

Files == [content : Data, modified : BOOLEAN]

\* The types, but for the number of the last row, which is counted.
Shaped ==
    /\ mSync \in Threads \cup {None} /\ mNeedsSync \in BOOLEAN /\ notClosed \in BOOLEAN
    /\ mRowsSync \in [Tables -> Threads \cup {None}]
    /\ mIndexesSync \in [Tables -> Threads \cup {None}]
    /\ mRowModified \in [Tables -> BOOLEAN]
    /\ mLockInProgress \in [Tables -> BOOLEAN]
    /\ acquired \in [Tables -> Threads \cup {None}]
    /\ mem \in [Tables -> Data]
    /\ disk \in [Tables -> Files]
    /\ call \in [Threads -> Calls]

\* Which calls have which steps, and that a step has its table.
Placed(c) ==
    /\ c.pc = "idle" <=> c.op = "idle"
    /\ c.pc \in {"mark", "notified"} => c.op \in {"set", "add", "append", "exchange", "sort"}
    /\ c.pc = "remark" => c.op \in {"set", "add"}
    /\ c.pc \in {"write", "remove", "insert"} => c.op \in {"set", "exchange", "sort"}
    /\ c.pc \in {"acquire", "relock"} => c.op = "set"
    /\ c.pc \in {"addLock", "addIndex"} => c.op \in {"add", "append"}
    /\ c.pc = "dropIndex" => c.op = "removeIndex"
    /\ c.pc \in {"match", "matchAcquire", "matching"} => c.op = "match"
    /\ c.pc \in {"lockSet", "lockRows", "lockIndexes", "locked"} => c.op = "sort"
    /\ c.pc = "nextTable" => c.op = "syncAll"
    /\ c.pc \in {"flushRows", "flushIndexes"} => c.op \in {"syncTable", "syncAll"}
    /\ c.pc = "flush" => c.op \in {"syncTable", "syncAll", "sort"}
    /\ c.pc \notin {"idle", "nextTable"} => c.tb \in Tables
    /\ c.op = "exchange" => "exchange" \in Ops

\* The steps taken with mRowsSync, and with mIndexesSync.
WithRows(c) ==
    \/ c.pc \in {"mark", "notified", "write", "acquire", "addLock", "addIndex", "dropIndex",
                 "flushIndexes", "flush", "lockIndexes", "locked"}
    \/ c.pc \in {"remove", "insert"} /\ c.op # "set"

Sorting(c) == c.op = "sort" /\ c.pc \in {"locked", "mark", "notified", "write", "remove", "insert"}

WithIndexes(c) == c.pc \in {"addIndex", "flush"} \/ Sorting(c)

\* The steps taken with the field acquired.
WithField(c) == c.pc = "matching" \/ (c.pc \in {"remove", "insert"} /\ c.op = "set")

\* The steps taken with the lock of the database.
WithDatabase(c) == c.pc = "notified" \/ c.op \in {"syncTable", "syncAll"}

Locked(t) ==
    /\ WithRows(call[t])     => mRowsSync[call[t].tb] = t
    /\ WithIndexes(call[t])  => mIndexesSync[call[t].tb] = t
    /\ WithField(call[t])    => acquired[call[t].tb] = t
    /\ WithDatabase(call[t]) => mSync = t

\* What a thread that changes a tree, or has the table for a sort, relies on.
Sees(t) ==
    /\ call[t].pc \in {"acquire", "remove", "insert"} => mem[call[t].tb].indexed
    /\ Sorting(call[t]) /\ mem[call[t].tb].indexed => acquired[call[t].tb] = None

IInv == Shaped /\ \A t \in Threads : Placed(call[t]) /\ Locked(t) /\ Sees(t)

-----------------------------------------------------------------------------
(* What a step of t does not do to the others.                             *)

\* The others keep their locks; an index comes when nobody has the rows, and
\* goes when t has them and nobody the field, which nobody acquires while
\* mIndexesSync is held.
Leaves(t) ==
    /\ \A u \in Threads \ {t} : call'[u] = call[u]
    /\ mSync' = mSync \/ mSync \in {None, t}
    /\ \A tb \in Tables :
        /\ mRowsSync'[tb] = mRowsSync[tb] \/ mRowsSync[tb] \in {None, t}
        /\ mIndexesSync'[tb] = mIndexesSync[tb] \/ mIndexesSync[tb] \in {None, t}
        /\ acquired'[tb] = acquired[tb] \/ acquired[tb] \in {None, t}
        /\ \/ mem'[tb].indexed = mem[tb].indexed
           \/ mem'[tb].indexed /\ mRowsSync[tb] = None
           \/ acquired[tb] = None /\ mRowsSync[tb] = t
        /\ acquired'[tb] \in {acquired[tb], None} \/ mIndexesSync[tb] = None

LEMMA OthersGoOn ==
    ASSUME IInv, NEW t \in Threads, Leaves(t), NEW u \in Threads, u # t
    PROVE  Placed(call'[u]) /\ Locked(u)' /\ Sees(u)'
<1> DEFINE c == call[u]
<1>1. /\ call'[u] = c /\ Placed(c) /\ Locked(u) /\ Sees(u) /\ None # u
  BY TableSyncAssumption DEF IInv, Leaves
<1>2. WithRows(c) \/ WithIndexes(c) \/ WithField(c) \/ Sorting(c) \/ c.pc \in {"acquire", "remove", "insert"} => c.tb \in Tables
  BY <1>1 DEF Placed, WithRows, WithIndexes, WithField, Sorting
<1>3. /\ WithRows(c)     => mRowsSync[c.tb] = u /\ mRowsSync'[c.tb] = u
      /\ WithIndexes(c)  => mIndexesSync[c.tb] = u /\ mIndexesSync'[c.tb] = u
      /\ WithField(c)    => acquired[c.tb] = u /\ acquired'[c.tb] = u
      /\ WithDatabase(c) => mSync' = u
  BY <1>1, <1>2 DEF Locked, Leaves
<1>4. Locked(u)'
  BY <1>1, <1>3 DEF Locked
<1>5. c.pc \in {"acquire", "remove", "insert"} => mem'[c.tb].indexed
  <2> SUFFICES ASSUME c.pc \in {"acquire", "remove", "insert"} PROVE mem'[c.tb].indexed
    OBVIOUS
  <2>1. c.tb \in Tables /\ mem[c.tb].indexed /\ (WithRows(c) \/ WithField(c))
    BY <1>1, <1>2 DEF Sees, WithRows, WithField
  <2> QED
    BY <2>1, <1>1, <1>3 DEF Leaves
<1>6. Sorting(c) /\ mem'[c.tb].indexed => acquired'[c.tb] = None
  <2> SUFFICES ASSUME Sorting(c), mem'[c.tb].indexed PROVE acquired'[c.tb] = None
    OBVIOUS
  <2>1. c.tb \in Tables /\ WithRows(c) /\ WithIndexes(c)
    BY <1>2 DEF WithRows, WithIndexes, Sorting
  <2>2. mem[c.tb].indexed
    BY <2>1, <1>1, <1>3 DEF Leaves
  <2>3. acquired[c.tb] = None
    BY <2>2, <1>1 DEF Sees
  <2> QED
    BY <2>1, <2>3, <1>1, <1>3 DEF Leaves
<1> QED
  BY <1>1, <1>4, <1>5, <1>6 DEF Sees

\* It is enough to look at the thread that takes the step.
LEMMA StepOf ==
    ASSUME IInv, NEW t \in Threads, Leaves(t), Shaped', Placed(call'[t]), Locked(t)', Sees(t)'
    PROVE  IInv'
  BY OthersGoOn DEF IInv

-----------------------------------------------------------------------------
(* Contents and calls of the right shape.                                  *)

AnyKeys == SUBSET (Values \X (Nat \cup {None}))

LEMMA RowStoredShape ==
    ASSUME NEW m \in [Tables -> Data], NEW tb \in Tables, NEW r, NEW v \in Values \cup {Absent}
    PROVE  [m EXCEPT ![tb].row[r] = v] \in [Tables -> Data]
<1>1. /\ m[tb].row \in [Rows -> Values \cup {Absent}] /\ m[tb].indexed \in BOOLEAN
      /\ m[tb].keys \in AnyKeys
      /\ m[tb] = [row |-> m[tb].row, indexed |-> m[tb].indexed, keys |-> m[tb].keys]
  BY DEF Data, AnyKeys
<1>2. [m[tb].row EXCEPT ![r] = v] \in [Rows -> Values \cup {Absent}]
  BY <1>1
<1>3. [m[tb] EXCEPT !.row[r] = v] = [row |-> [m[tb].row EXCEPT ![r] = v], indexed |-> m[tb].indexed, keys |-> m[tb].keys]
  BY <1>1
<1>4. [m[tb] EXCEPT !.row[r] = v] \in Data
  BY <1>1, <1>2, <1>3 DEF Data, AnyKeys
<1> QED
  BY <1>4

LEMMA KeysShape ==
    ASSUME NEW m \in [Tables -> Data], NEW tb \in Tables, NEW k \in AnyKeys
    PROVE  [m EXCEPT ![tb].keys = k] \in [Tables -> Data]
<1>1. /\ m[tb].row \in [Rows -> Values \cup {Absent}] /\ m[tb].indexed \in BOOLEAN
      /\ m[tb] = [row |-> m[tb].row, indexed |-> m[tb].indexed, keys |-> m[tb].keys]
  BY DEF Data
<1>2. [m[tb] EXCEPT !.keys = k] = [row |-> m[tb].row, indexed |-> m[tb].indexed, keys |-> k]
  BY <1>1
<1>3. [m[tb] EXCEPT !.keys = k] \in Data
  BY <1>1, <1>2 DEF Data, AnyKeys
<1> QED
  BY <1>3

LEMMA IndexShape ==
    ASSUME NEW m \in [Tables -> Data], NEW tb \in Tables, NEW k \in AnyKeys, NEW b \in BOOLEAN
    PROVE  /\ [m EXCEPT ![tb].indexed = b, ![tb].keys = k] \in [Tables -> Data]
           /\ \A x \in Tables : [m EXCEPT ![tb].indexed = b, ![tb].keys = k][x] =
                IF x = tb THEN [row |-> m[tb].row, indexed |-> b, keys |-> k] ELSE m[x]
<1> DEFINE m2 == [m EXCEPT ![tb].indexed = b, ![tb].keys = k]
           new == [row |-> m[tb].row, indexed |-> b, keys |-> k]
<1>1. /\ m[tb].row \in [Rows -> Values \cup {Absent}] /\ m[tb].keys \in AnyKeys
      /\ m[tb] = [row |-> m[tb].row, indexed |-> m[tb].indexed, keys |-> m[tb].keys]
  BY DEF Data, AnyKeys
<1>2. new \in Data
  BY <1>1 DEF Data, AnyKeys
<1>3. m2[tb] = new /\ \A x \in Tables : x # tb => m2[x] = m[x]
  BY <1>1
<1>4. m2 = [x \in Tables |-> m2[x]]
  OBVIOUS
<1> HIDE DEF new, m2
<1>5. m2 \in [Tables -> Data]
  BY <1>2, <1>3, <1>4
<1> QED
  BY <1>3, <1>5 DEF new, m2

\* The header of a table is written; RemoveIndex takes the index out of the
\* files, CreateIndex puts it there without its keys.
LEMMA HeaderShape ==
    ASSUME NEW d \in [Tables -> Files], NEW tb \in Tables, NEW b \in BOOLEAN, NEW m \in BOOLEAN
    PROVE  LET d2 == [d EXCEPT ![tb].content.indexed = b, ![tb].modified = m] IN
           /\ d2 \in [Tables -> Files]
           /\ \A x \in Tables : x # tb => d2[x] = d[x]
           /\ d2[tb].modified = m
<1> DEFINE d2 == [d EXCEPT ![tb].content.indexed = b, ![tb].modified = m]
           c == d[tb].content
           new == [content |-> [row |-> c.row, indexed |-> b, keys |-> c.keys], modified |-> m]
<1>1. /\ c.row \in [Rows -> Values \cup {Absent}] /\ c.keys \in AnyKeys
      /\ c = [row |-> c.row, indexed |-> c.indexed, keys |-> c.keys]
      /\ d[tb] = [content |-> c, modified |-> d[tb].modified]
  BY DEF Data, AnyKeys, Files
<1>2. new \in Files /\ new.modified = m
  BY <1>1 DEF Data, AnyKeys, Files
<1>3. d2[tb] = new /\ \A x \in Tables : x # tb => d2[x] = d[x]
  BY <1>1
<1>4. d2 = [x \in Tables |-> d2[x]]
  OBVIOUS
<1> HIDE DEF new, d2
<1>5. d2 \in [Tables -> Files]
  BY <1>2, <1>3, <1>4
<1> QED
  BY <1>2, <1>3, <1>5 DEF d2

LEMMA HeaderDropShape ==
    ASSUME disk \in [Tables -> Files], NEW tb \in Tables, mRowModified[tb] \in BOOLEAN,
           disk' = [disk EXCEPT ![tb].content.indexed = FALSE, ![tb].content.keys = {},
                                ![tb].modified = mRowModified[tb]]
    PROVE  /\ disk' \in [Tables -> Files]
           /\ \A x \in Tables : x # tb => disk'[x] = disk[x]
           /\ disk'[tb] = [content |-> [row |-> disk[tb].content.row, indexed |-> FALSE, keys |-> {}],
                           modified |-> mRowModified[tb]]
<1> DEFINE c == disk[tb].content
           new == [content |-> [row |-> c.row, indexed |-> FALSE, keys |-> {}], modified |-> mRowModified[tb]]
<1>1. /\ c.row \in [Rows -> Values \cup {Absent}]
      /\ c = [row |-> c.row, indexed |-> c.indexed, keys |-> c.keys]
      /\ disk[tb] = [content |-> c, modified |-> disk[tb].modified]
  BY DEF Data, Files
<1>2. new \in Files
  BY <1>1 DEF Data, AnyKeys, Files
<1>3. disk'[tb] = new /\ \A x \in Tables : x # tb => disk'[x] = disk[x]
  BY <1>1
<1>4. disk' = [x \in Tables |-> disk'[x]]
  OBVIOUS
<1>5. disk' \in [Tables -> Files]
  <2> HIDE DEF new
  <2> QED
    BY <1>2, <1>3, <1>4
<1> QED
  BY <1>3, <1>5

\* The keys of the rows of a table.
LEMMA KeysOfShape ==
    ASSUME NEW row \in [Rows -> Values \cup {Absent}]
    PROVE  KeysOf(row) \in AnyKeys
<1>1. \A x \in Rows : row[x] # Absent => row[x] \in Values /\ x \in Nat
  BY TableSyncAssumption DEF Rows
<1> QED
  BY <1>1 DEF KeysOf, AnyKeys

LEMMA CountNat == ASSUME NEW tb PROVE Count(tb) \in Nat
<1>1. IsFiniteSet(Rows)
  BY TableSyncAssumption, FS_Interval DEF Rows
<1>2. IsFiniteSet({r \in Rows : mem[tb].row[r] # Absent})
  BY <1>1, FS_Subset
<1> QED
  BY <1>2, FS_CardinalityType DEF Count

\* A thread's call goes on at another step, or is another one.
LEMMA GotoShape ==
    ASSUME call \in [Threads -> Calls], NEW t \in Threads, NEW pc \in Steps, Goto(t, pc)
    PROVE  /\ call' \in [Threads -> Calls]
           /\ call'[t] = [call[t] EXCEPT !.pc = pc]
           /\ call'[t].pc = pc /\ call'[t].op = call[t].op /\ call'[t].tb = call[t].tb
           /\ call'[t].row = call[t].row /\ call'[t].todo = call[t].todo
  BY DEF Goto, Calls

LEMMA IdleShape ==
    ASSUME call \in [Threads -> Calls], NEW t \in Threads, call' = [call EXCEPT ![t] = Idle]
    PROVE  /\ call' \in [Threads -> Calls]
           /\ call'[t].pc = "idle" /\ call'[t].op = "idle"
  BY TableSyncAssumption DEF Calls, Idle, Calling, Steps

LEMMA CallShape ==
    ASSUME NEW op \in AllOps \cup {"idle"}, NEW pc \in Steps, NEW tb \in Tables \cup {None},
           NEW row \in Rows \cup {None}, NEW val \in Values, NEW old \in Values,
           NEW other \in Rows \cup {None}, NEW todo \in SUBSET Tables
    PROVE  Calling(op, pc, tb, row, val, old, other, todo) \in Calls
  BY DEF Calls, Calling

LEMMA RowStoredTyped ==
    ASSUME call \in [Threads -> Calls], NEW t \in Threads, RowStored(t)
    PROVE  call' \in [Threads -> Calls]
<1>1. CASE call' = [call EXCEPT ![t] = Idle]
  BY <1>1, IdleShape
<1>2. /\ call[t].op \in AllOps \cup {"idle"} /\ call[t].tb \in Tables \cup {None}
      /\ call[t].old \in Values /\ call[t].val \in Values /\ call[t].other \in Rows \cup {None}
      /\ "mark" \in Steps /\ "locked" \in Steps /\ "sort" \in AllOps /\ Null \in Values
  BY TableSyncAssumption DEF Calls, Steps, AllOps
<1>3. CASE call[t].other # None
  <2>1. call' = [call EXCEPT ![t] = Calling(call[t].op, "mark", call[t].tb, call[t].other, call[t].old, call[t].val, None, {})]
    BY <1>3 DEF RowStored
  <2>2. Calling(call[t].op, "mark", call[t].tb, call[t].other, call[t].old, call[t].val, None, {}) \in Calls
    BY <1>2, CallShape
  <2> QED
    BY <2>1, <2>2
<1>4. CASE call[t].other = None /\ call[t].op = "sort"
  <2>1. call' = [call EXCEPT ![t] = Calling("sort", "locked", call[t].tb, None, Null, Null, None, {})]
    BY <1>4 DEF RowStored, Simple
  <2>2. Calling("sort", "locked", call[t].tb, None, Null, Null, None, {}) \in Calls
    BY <1>2, CallShape
  <2> QED
    BY <2>1, <2>2
<1>5. CASE call[t].other = None /\ call[t].op # "sort"
  BY <1>1, <1>5 DEF RowStored
<1> QED
  BY <1>3, <1>4, <1>5

LEMMA SetIInv ==
    ASSUME IInv, NEW t \in Threads, NEW tb \in Tables, NEW r \in Rows, NEW v \in Values, Set(t, tb, r, v)
    PROVE  IInv'
<1> DEFINE c == call[t]
<1>1. /\ Shaped /\ c \in Calls /\ None # t
      /\ c.pc \notin {"idle", "nextTable"} => c.tb \in Tables
      /\ WithRows(c)     => mRowsSync[c.tb] = t
      /\ WithIndexes(c)  => mIndexesSync[c.tb] = t
      /\ WithField(c)    => acquired[c.tb] = t
      /\ WithDatabase(c) => mSync = t
  BY TableSyncAssumption DEF IInv, Shaped, Placed, Locked
<1>2. Placed(c) /\ Sees(t)
  BY DEF IInv
<1>3. Shaped'
  BY <1>1, <1>2, TableSyncAssumption DEF Shaped, Placed, Calls, Steps, AllOps, Data, Files, dbVars, lockVars, contents, Simple, Calling, Idle, Set, Starts, TakeRows
<1>4. Leaves(t)
  <2>1. \A u \in Threads \ {t} : call'[u] = call[u]
    BY <1>1 DEF Shaped, dbVars, lockVars, contents, Simple, Calling, Idle, Set, Starts, TakeRows
  <2>2. mSync' = mSync \/ mSync \in {None, t}
    BY <1>1, <1>2 DEF Placed, WithDatabase, dbVars, lockVars, contents, Simple, Calling, Idle, Set, Starts, TakeRows
  <2>3. \A x \in Tables :
          /\ mRowsSync'[x] = mRowsSync[x] \/ mRowsSync[x] \in {None, t}
          /\ mIndexesSync'[x] = mIndexesSync[x] \/ mIndexesSync[x] \in {None, t}
    BY <1>1, <1>2 DEF Shaped, Placed, WithRows, WithIndexes, Sorting, dbVars, lockVars, contents, Simple, Calling, Idle, Set, Starts, TakeRows
  <2>4. \A x \in Tables :
          /\ acquired'[x] = acquired[x] \/ acquired[x] \in {None, t}
          /\ acquired'[x] \in {acquired[x], None} \/ mIndexesSync[x] = None
    BY <1>1, <1>2 DEF Shaped, Placed, WithField, dbVars, lockVars, contents, Simple, Calling, Idle, Set, Starts, TakeRows
  <2>5. \A x \in Tables :
          \/ mem'[x].indexed = mem[x].indexed
          \/ mem'[x].indexed /\ mRowsSync[x] = None
          \/ acquired[x] = None /\ mRowsSync[x] = t
    BY <1>1, <1>2 DEF Shaped, Placed, WithRows, Data, dbVars, lockVars, contents, Simple, Calling, Idle, Set, Starts, TakeRows
  <2> QED
    BY <2>1, <2>2, <2>3, <2>4, <2>5 DEF Leaves
<1>5. Placed(call'[t])
  BY <1>1, <1>2 DEF Shaped, Placed, Calls, dbVars, lockVars, contents, Simple, Calling, Idle, Set, Starts, TakeRows
<1>6. Locked(t)' /\ Sees(t)'
  BY <1>1, <1>2, <1>5 DEF Shaped, Placed, Sees, Locked, Calls, Data, WithRows, WithIndexes, WithField, WithDatabase, Sorting, dbVars, lockVars, contents, Simple, Calling, Idle, Set, Starts, TakeRows
<1> QED
  BY <1>3, <1>4, <1>5, <1>6, StepOf

LEMMA AppendIInv ==
    ASSUME IInv, NEW t \in Threads, NEW tb \in Tables, NEW v \in Values, Append(t, tb, v)
    PROVE  IInv'
<1> DEFINE c == call[t]
<1>1. /\ Shaped /\ c \in Calls /\ None # t
      /\ c.pc \notin {"idle", "nextTable"} => c.tb \in Tables
      /\ WithRows(c)     => mRowsSync[c.tb] = t
      /\ WithIndexes(c)  => mIndexesSync[c.tb] = t
      /\ WithField(c)    => acquired[c.tb] = t
      /\ WithDatabase(c) => mSync = t
  BY TableSyncAssumption DEF IInv, Shaped, Placed, Locked
<1>2. Placed(c) /\ Sees(t)
  BY DEF IInv
<1>3. Shaped'
  <2>1. /\ mSync' \in Threads \cup {None} /\ mNeedsSync' \in BOOLEAN /\ notClosed' \in BOOLEAN
        /\ mRowsSync' \in [Tables -> Threads \cup {None}]
        /\ mIndexesSync' \in [Tables -> Threads \cup {None}]
    BY <1>1 DEF Shaped, dbVars, lockVars, contents, Simple, Calling, Idle, Append, Starts, TakeRows
  <2>2. /\ mRowModified' \in [Tables -> BOOLEAN]
        /\ mLockInProgress' \in [Tables -> BOOLEAN]
        /\ acquired' \in [Tables -> Threads \cup {None}]
    BY <1>1 DEF Shaped, dbVars, lockVars, contents, Simple, Calling, Idle, Append, Starts, TakeRows
  <2>3. mem' \in [Tables -> Data]
    BY <1>1, <1>2 DEF Shaped, Calls, Data, Placed, dbVars, lockVars, contents, Simple, Calling, Idle, Append, Starts, TakeRows
  <2>4. disk' \in [Tables -> Files]
    BY <1>1, <1>2 DEF Shaped, Placed, Files, dbVars, lockVars, contents, Simple, Calling, Idle, Append, Starts, TakeRows
  <2>5. call' \in [Threads -> Calls]
    <3>1. Count(tb) \in Rows
      <4>1. IsFiniteSet({u \in Threads : call[u].tb = tb /\ call[u].op \in {"add", "append"}})
        BY TableSyncAssumption, FS_Subset
      <4>2. Cardinality({u \in Threads : call[u].tb = tb /\ call[u].op \in {"add", "append"}}) \in Nat
        BY <4>1, FS_CardinalityType
      <4>3. MayGrow(tb)
        BY DEF Append
      <4> QED
        BY <4>2, <4>3, CountNat, TableSyncAssumption DEF MayGrow, Rows
    <3> QED
      BY <1>1, <3>1, TableSyncAssumption DEF Shaped, Calls, Steps, AllOps, Calling, Append
  <2> QED
    BY <2>1, <2>2, <2>3, <2>4, <2>5 DEF Shaped
<1>4. Leaves(t)
  <2>1. \A u \in Threads \ {t} : call'[u] = call[u]
    BY <1>1 DEF Shaped, dbVars, lockVars, contents, Simple, Calling, Idle, Append, Starts, TakeRows
  <2>2. mSync' = mSync \/ mSync \in {None, t}
    BY <1>1, <1>2 DEF Placed, WithDatabase, dbVars, lockVars, contents, Simple, Calling, Idle, Append, Starts, TakeRows
  <2>3. \A x \in Tables :
          /\ mRowsSync'[x] = mRowsSync[x] \/ mRowsSync[x] \in {None, t}
          /\ mIndexesSync'[x] = mIndexesSync[x] \/ mIndexesSync[x] \in {None, t}
    BY <1>1, <1>2 DEF Shaped, Placed, WithRows, WithIndexes, Sorting, dbVars, lockVars, contents, Simple, Calling, Idle, Append, Starts, TakeRows
  <2>4. \A x \in Tables :
          /\ acquired'[x] = acquired[x] \/ acquired[x] \in {None, t}
          /\ acquired'[x] \in {acquired[x], None} \/ mIndexesSync[x] = None
    BY <1>1, <1>2 DEF Shaped, Placed, WithField, dbVars, lockVars, contents, Simple, Calling, Idle, Append, Starts, TakeRows
  <2>5. \A x \in Tables :
          \/ mem'[x].indexed = mem[x].indexed
          \/ mem'[x].indexed /\ mRowsSync[x] = None
          \/ acquired[x] = None /\ mRowsSync[x] = t
    BY <1>1, <1>2 DEF Shaped, Placed, WithRows, Data, dbVars, lockVars, contents, Simple, Calling, Idle, Append, Starts, TakeRows
  <2> QED
    BY <2>1, <2>2, <2>3, <2>4, <2>5 DEF Leaves
<1>5. Placed(call'[t])
  BY <1>1, <1>2 DEF Shaped, Placed, Calls, dbVars, lockVars, contents, Simple, Calling, Idle, Append, Starts, TakeRows
<1>6. Locked(t)' /\ Sees(t)'
  BY <1>1, <1>2, <1>5 DEF Shaped, Placed, Sees, Locked, Calls, Data, WithRows, WithIndexes, WithField, WithDatabase, Sorting, dbVars, lockVars, contents, Simple, Calling, Idle, Append, Starts, TakeRows
<1> QED
  BY <1>3, <1>4, <1>5, <1>6, StepOf

LEMMA AddRowIInv ==
    ASSUME IInv, NEW t \in Threads, NEW tb \in Tables, AddRow(t, tb)
    PROVE  IInv'
<1> DEFINE c == call[t]
<1>1. /\ Shaped /\ c \in Calls /\ None # t
      /\ c.pc \notin {"idle", "nextTable"} => c.tb \in Tables
      /\ WithRows(c)     => mRowsSync[c.tb] = t
      /\ WithIndexes(c)  => mIndexesSync[c.tb] = t
      /\ WithField(c)    => acquired[c.tb] = t
      /\ WithDatabase(c) => mSync = t
  BY TableSyncAssumption DEF IInv, Shaped, Placed, Locked
<1>2. Placed(c) /\ Sees(t)
  BY DEF IInv
<1>3. Shaped'
  BY <1>1, <1>2, TableSyncAssumption DEF Shaped, Placed, Calls, Steps, AllOps, Data, Files, dbVars, lockVars, contents, Simple, Calling, Idle, AddRow, Starts, TakeRows
<1>4. Leaves(t)
  <2>1. \A u \in Threads \ {t} : call'[u] = call[u]
    BY <1>1 DEF Shaped, dbVars, lockVars, contents, Simple, Calling, Idle, AddRow, Starts, TakeRows
  <2>2. mSync' = mSync \/ mSync \in {None, t}
    BY <1>1, <1>2 DEF Placed, WithDatabase, dbVars, lockVars, contents, Simple, Calling, Idle, AddRow, Starts, TakeRows
  <2>3. \A x \in Tables :
          /\ mRowsSync'[x] = mRowsSync[x] \/ mRowsSync[x] \in {None, t}
          /\ mIndexesSync'[x] = mIndexesSync[x] \/ mIndexesSync[x] \in {None, t}
    BY <1>1, <1>2 DEF Shaped, Placed, WithRows, WithIndexes, Sorting, dbVars, lockVars, contents, Simple, Calling, Idle, AddRow, Starts, TakeRows
  <2>4. \A x \in Tables :
          /\ acquired'[x] = acquired[x] \/ acquired[x] \in {None, t}
          /\ acquired'[x] \in {acquired[x], None} \/ mIndexesSync[x] = None
    BY <1>1, <1>2 DEF Shaped, Placed, WithField, dbVars, lockVars, contents, Simple, Calling, Idle, AddRow, Starts, TakeRows
  <2>5. \A x \in Tables :
          \/ mem'[x].indexed = mem[x].indexed
          \/ mem'[x].indexed /\ mRowsSync[x] = None
          \/ acquired[x] = None /\ mRowsSync[x] = t
    BY <1>1, <1>2 DEF Shaped, Placed, WithRows, Data, dbVars, lockVars, contents, Simple, Calling, Idle, AddRow, Starts, TakeRows
  <2> QED
    BY <2>1, <2>2, <2>3, <2>4, <2>5 DEF Leaves
<1>5. Placed(call'[t])
  BY <1>1, <1>2 DEF Shaped, Placed, Calls, dbVars, lockVars, contents, Simple, Calling, Idle, AddRow, Starts, TakeRows
<1>6. Locked(t)' /\ Sees(t)'
  BY <1>1, <1>2, <1>5 DEF Shaped, Placed, Sees, Locked, Calls, Data, WithRows, WithIndexes, WithField, WithDatabase, Sorting, dbVars, lockVars, contents, Simple, Calling, Idle, AddRow, Starts, TakeRows
<1> QED
  BY <1>3, <1>4, <1>5, <1>6, StepOf

LEMMA ExchangeRowsIInv ==
    ASSUME IInv, NEW t \in Threads, NEW tb \in Tables, NEW r1 \in Rows, NEW r2 \in Rows, ExchangeRows(t, tb, r1, r2)
    PROVE  IInv'
<1> DEFINE c == call[t]
<1>1. /\ Shaped /\ c \in Calls /\ None # t
      /\ c.pc \notin {"idle", "nextTable"} => c.tb \in Tables
      /\ WithRows(c)     => mRowsSync[c.tb] = t
      /\ WithIndexes(c)  => mIndexesSync[c.tb] = t
      /\ WithField(c)    => acquired[c.tb] = t
      /\ WithDatabase(c) => mSync = t
  BY TableSyncAssumption DEF IInv, Shaped, Placed, Locked
<1>2. Placed(c) /\ Sees(t)
  BY DEF IInv
<1>3. Shaped'
  BY <1>1, <1>2, TableSyncAssumption DEF Shaped, Placed, Calls, Steps, AllOps, Data, Files, dbVars, lockVars, contents, Simple, Calling, Idle, ExchangeRows, Exchange, Starts, TakeRows
<1>4. Leaves(t)
  <2>1. \A u \in Threads \ {t} : call'[u] = call[u]
    BY <1>1 DEF Shaped, dbVars, lockVars, contents, Simple, Calling, Idle, ExchangeRows, Exchange, Starts, TakeRows
  <2>2. mSync' = mSync \/ mSync \in {None, t}
    BY <1>1, <1>2 DEF Placed, WithDatabase, dbVars, lockVars, contents, Simple, Calling, Idle, ExchangeRows, Exchange, Starts, TakeRows
  <2>3. \A x \in Tables :
          /\ mRowsSync'[x] = mRowsSync[x] \/ mRowsSync[x] \in {None, t}
          /\ mIndexesSync'[x] = mIndexesSync[x] \/ mIndexesSync[x] \in {None, t}
    BY <1>1, <1>2 DEF Shaped, Placed, WithRows, WithIndexes, Sorting, dbVars, lockVars, contents, Simple, Calling, Idle, ExchangeRows, Exchange, Starts, TakeRows
  <2>4. \A x \in Tables :
          /\ acquired'[x] = acquired[x] \/ acquired[x] \in {None, t}
          /\ acquired'[x] \in {acquired[x], None} \/ mIndexesSync[x] = None
    BY <1>1, <1>2 DEF Shaped, Placed, WithField, dbVars, lockVars, contents, Simple, Calling, Idle, ExchangeRows, Exchange, Starts, TakeRows
  <2>5. \A x \in Tables :
          \/ mem'[x].indexed = mem[x].indexed
          \/ mem'[x].indexed /\ mRowsSync[x] = None
          \/ acquired[x] = None /\ mRowsSync[x] = t
    BY <1>1, <1>2 DEF Shaped, Placed, WithRows, Data, dbVars, lockVars, contents, Simple, Calling, Idle, ExchangeRows, Exchange, Starts, TakeRows
  <2> QED
    BY <2>1, <2>2, <2>3, <2>4, <2>5 DEF Leaves
<1>5. Placed(call'[t])
  BY <1>1, <1>2 DEF Shaped, Placed, Calls, dbVars, lockVars, contents, Simple, Calling, Idle, ExchangeRows, Exchange, Starts, TakeRows
<1>6. Locked(t)' /\ Sees(t)'
  BY <1>1, <1>2, <1>5 DEF Shaped, Placed, Sees, Locked, Calls, Data, WithRows, WithIndexes, WithField, WithDatabase, Sorting, dbVars, lockVars, contents, Simple, Calling, Idle, ExchangeRows, Exchange, Starts, TakeRows
<1> QED
  BY <1>3, <1>4, <1>5, <1>6, StepOf

LEMMA MatchRowsIInv ==
    ASSUME IInv, NEW t \in Threads, NEW tb \in Tables, MatchRows(t, tb)
    PROVE  IInv'
<1> DEFINE c == call[t]
<1>1. /\ Shaped /\ c \in Calls /\ None # t
      /\ c.pc \notin {"idle", "nextTable"} => c.tb \in Tables
      /\ WithRows(c)     => mRowsSync[c.tb] = t
      /\ WithIndexes(c)  => mIndexesSync[c.tb] = t
      /\ WithField(c)    => acquired[c.tb] = t
      /\ WithDatabase(c) => mSync = t
  BY TableSyncAssumption DEF IInv, Shaped, Placed, Locked
<1>2. Placed(c) /\ Sees(t)
  BY DEF IInv
<1>3. Shaped'
  BY <1>1, <1>2, TableSyncAssumption DEF Shaped, Placed, Calls, Steps, AllOps, Data, Files, dbVars, lockVars, contents, Simple, Calling, Idle, MatchRows, Starts
<1>4. Leaves(t)
  <2>1. \A u \in Threads \ {t} : call'[u] = call[u]
    BY <1>1 DEF Shaped, dbVars, lockVars, contents, Simple, Calling, Idle, MatchRows, Starts
  <2>2. mSync' = mSync \/ mSync \in {None, t}
    BY <1>1, <1>2 DEF Placed, WithDatabase, dbVars, lockVars, contents, Simple, Calling, Idle, MatchRows, Starts
  <2>3. \A x \in Tables :
          /\ mRowsSync'[x] = mRowsSync[x] \/ mRowsSync[x] \in {None, t}
          /\ mIndexesSync'[x] = mIndexesSync[x] \/ mIndexesSync[x] \in {None, t}
    BY <1>1, <1>2 DEF Shaped, Placed, WithRows, WithIndexes, Sorting, dbVars, lockVars, contents, Simple, Calling, Idle, MatchRows, Starts
  <2>4. \A x \in Tables :
          /\ acquired'[x] = acquired[x] \/ acquired[x] \in {None, t}
          /\ acquired'[x] \in {acquired[x], None} \/ mIndexesSync[x] = None
    BY <1>1, <1>2 DEF Shaped, Placed, WithField, dbVars, lockVars, contents, Simple, Calling, Idle, MatchRows, Starts
  <2>5. \A x \in Tables :
          \/ mem'[x].indexed = mem[x].indexed
          \/ mem'[x].indexed /\ mRowsSync[x] = None
          \/ acquired[x] = None /\ mRowsSync[x] = t
    BY <1>1, <1>2 DEF Shaped, Placed, WithRows, Data, dbVars, lockVars, contents, Simple, Calling, Idle, MatchRows, Starts
  <2> QED
    BY <2>1, <2>2, <2>3, <2>4, <2>5 DEF Leaves
<1>5. Placed(call'[t])
  BY <1>1, <1>2 DEF Shaped, Placed, Calls, dbVars, lockVars, contents, Simple, Calling, Idle, MatchRows, Starts
<1>6. Locked(t)' /\ Sees(t)'
  BY <1>1, <1>2, <1>5 DEF Shaped, Placed, Sees, Locked, Calls, Data, WithRows, WithIndexes, WithField, WithDatabase, Sorting, dbVars, lockVars, contents, Simple, Calling, Idle, MatchRows, Starts
<1> QED
  BY <1>3, <1>4, <1>5, <1>6, StepOf

LEMMA CreateIndexIInv ==
    ASSUME IInv, NEW t \in Threads, NEW tb \in Tables, CreateIndex(t, tb)
    PROVE  IInv'
<1> DEFINE c == call[t]
<1>1. /\ Shaped /\ c \in Calls /\ None # t
      /\ c.pc \notin {"idle", "nextTable"} => c.tb \in Tables
      /\ WithRows(c)     => mRowsSync[c.tb] = t
      /\ WithIndexes(c)  => mIndexesSync[c.tb] = t
      /\ WithField(c)    => acquired[c.tb] = t
      /\ WithDatabase(c) => mSync = t
  BY TableSyncAssumption DEF IInv, Shaped, Placed, Locked
<1>2. Placed(c) /\ Sees(t)
  BY DEF IInv
<1>3. Shaped'
  <2>1. /\ mSync' \in Threads \cup {None} /\ mNeedsSync' \in BOOLEAN /\ notClosed' \in BOOLEAN
        /\ mRowsSync' \in [Tables -> Threads \cup {None}]
        /\ mIndexesSync' \in [Tables -> Threads \cup {None}]
    BY <1>1 DEF Shaped, dbVars, lockVars, contents, Simple, Calling, Idle, CreateIndex, Starts
  <2>2. /\ mRowModified' \in [Tables -> BOOLEAN]
        /\ mLockInProgress' \in [Tables -> BOOLEAN]
        /\ acquired' \in [Tables -> Threads \cup {None}]
    BY <1>1 DEF Shaped, dbVars, lockVars, contents, Simple, Calling, Idle, CreateIndex, Starts
  <2>3. mem' \in [Tables -> Data]
    <3>1. KeysOf(mem[tb].row) \in AnyKeys
      BY <1>1, KeysOfShape DEF Shaped, Data
    <3> QED
      BY <1>1, <3>1, IndexShape DEF Shaped, CreateIndex
  <2>4. disk' \in [Tables -> Files]
    <3>1. mRowModified[tb] \in BOOLEAN /\ disk \in [Tables -> Files]
      BY <1>1 DEF Shaped
    <3> QED
      BY <3>1, HeaderShape DEF CreateIndex
  <2>5. call' \in [Threads -> Calls]
    BY <1>1, <1>2, TableSyncAssumption DEF Shaped, Placed, Calls, Steps, AllOps, dbVars, lockVars, contents, Simple, Calling, Idle, CreateIndex, Starts
  <2> QED
    BY <2>1, <2>2, <2>3, <2>4, <2>5 DEF Shaped
<1>4. Leaves(t)
  <2>1. \A u \in Threads \ {t} : call'[u] = call[u]
    BY <1>1 DEF Shaped, dbVars, lockVars, contents, Simple, Calling, Idle, CreateIndex, Starts
  <2>2. mSync' = mSync \/ mSync \in {None, t}
    BY <1>1, <1>2 DEF Placed, WithDatabase, dbVars, lockVars, contents, Simple, Calling, Idle, CreateIndex, Starts
  <2>3. \A x \in Tables :
          /\ mRowsSync'[x] = mRowsSync[x] \/ mRowsSync[x] \in {None, t}
          /\ mIndexesSync'[x] = mIndexesSync[x] \/ mIndexesSync[x] \in {None, t}
    BY <1>1, <1>2 DEF Shaped, Placed, WithRows, WithIndexes, Sorting, dbVars, lockVars, contents, Simple, Calling, Idle, CreateIndex, Starts
  <2>4. \A x \in Tables :
          /\ acquired'[x] = acquired[x] \/ acquired[x] \in {None, t}
          /\ acquired'[x] \in {acquired[x], None} \/ mIndexesSync[x] = None
    BY <1>1, <1>2 DEF Shaped, Placed, WithField, dbVars, lockVars, contents, Simple, Calling, Idle, CreateIndex, Starts
  <2>5. \A x \in Tables :
          \/ mem'[x].indexed = mem[x].indexed
          \/ mem'[x].indexed /\ mRowsSync[x] = None
          \/ acquired[x] = None /\ mRowsSync[x] = t
    <3>1. KeysOf(mem[tb].row) \in AnyKeys
      BY <1>1, KeysOfShape DEF Shaped, Data
    <3>2. \A x \in Tables : IF x = tb THEN mem'[x].indexed ELSE mem'[x] = mem[x]
      BY <1>1, <3>1, IndexShape DEF Shaped, CreateIndex
    <3> QED
      BY <3>2 DEF CreateIndex
  <2> QED
    BY <2>1, <2>2, <2>3, <2>4, <2>5 DEF Leaves
<1>5. Placed(call'[t])
  BY <1>1, <1>2 DEF Shaped, Placed, Calls, dbVars, lockVars, contents, Simple, Calling, Idle, CreateIndex, Starts
<1>6. Locked(t)' /\ Sees(t)'
  BY <1>1, <1>2, <1>5 DEF Shaped, Placed, Sees, Locked, Calls, Data, WithRows, WithIndexes, WithField, WithDatabase, Sorting, dbVars, lockVars, contents, Simple, Calling, Idle, CreateIndex, Starts
<1> QED
  BY <1>3, <1>4, <1>5, <1>6, StepOf

LEMMA RemoveIndexIInv ==
    ASSUME IInv, NEW t \in Threads, NEW tb \in Tables, RemoveIndex(t, tb)
    PROVE  IInv'
<1> DEFINE c == call[t]
<1>1. /\ Shaped /\ c \in Calls /\ None # t
      /\ c.pc \notin {"idle", "nextTable"} => c.tb \in Tables
      /\ WithRows(c)     => mRowsSync[c.tb] = t
      /\ WithIndexes(c)  => mIndexesSync[c.tb] = t
      /\ WithField(c)    => acquired[c.tb] = t
      /\ WithDatabase(c) => mSync = t
  BY TableSyncAssumption DEF IInv, Shaped, Placed, Locked
<1>2. Placed(c) /\ Sees(t)
  BY DEF IInv
<1>3. Shaped'
  BY <1>1, <1>2, TableSyncAssumption DEF Shaped, Placed, Calls, Steps, AllOps, Data, Files, dbVars, lockVars, contents, Simple, Calling, Idle, RemoveIndex, Starts, TakeRows
<1>4. Leaves(t)
  <2>1. \A u \in Threads \ {t} : call'[u] = call[u]
    BY <1>1 DEF Shaped, dbVars, lockVars, contents, Simple, Calling, Idle, RemoveIndex, Starts, TakeRows
  <2>2. mSync' = mSync \/ mSync \in {None, t}
    BY <1>1, <1>2 DEF Placed, WithDatabase, dbVars, lockVars, contents, Simple, Calling, Idle, RemoveIndex, Starts, TakeRows
  <2>3. \A x \in Tables :
          /\ mRowsSync'[x] = mRowsSync[x] \/ mRowsSync[x] \in {None, t}
          /\ mIndexesSync'[x] = mIndexesSync[x] \/ mIndexesSync[x] \in {None, t}
    BY <1>1, <1>2 DEF Shaped, Placed, WithRows, WithIndexes, Sorting, dbVars, lockVars, contents, Simple, Calling, Idle, RemoveIndex, Starts, TakeRows
  <2>4. \A x \in Tables :
          /\ acquired'[x] = acquired[x] \/ acquired[x] \in {None, t}
          /\ acquired'[x] \in {acquired[x], None} \/ mIndexesSync[x] = None
    BY <1>1, <1>2 DEF Shaped, Placed, WithField, dbVars, lockVars, contents, Simple, Calling, Idle, RemoveIndex, Starts, TakeRows
  <2>5. \A x \in Tables :
          \/ mem'[x].indexed = mem[x].indexed
          \/ mem'[x].indexed /\ mRowsSync[x] = None
          \/ acquired[x] = None /\ mRowsSync[x] = t
    BY <1>1, <1>2 DEF Shaped, Placed, WithRows, Data, dbVars, lockVars, contents, Simple, Calling, Idle, RemoveIndex, Starts, TakeRows
  <2> QED
    BY <2>1, <2>2, <2>3, <2>4, <2>5 DEF Leaves
<1>5. Placed(call'[t])
  BY <1>1, <1>2 DEF Shaped, Placed, Calls, dbVars, lockVars, contents, Simple, Calling, Idle, RemoveIndex, Starts, TakeRows
<1>6. Locked(t)' /\ Sees(t)'
  BY <1>1, <1>2, <1>5 DEF Shaped, Placed, Sees, Locked, Calls, Data, WithRows, WithIndexes, WithField, WithDatabase, Sorting, dbVars, lockVars, contents, Simple, Calling, Idle, RemoveIndex, Starts, TakeRows
<1> QED
  BY <1>3, <1>4, <1>5, <1>6, StepOf

LEMMA SyncTableContentIInv ==
    ASSUME IInv, NEW t \in Threads, NEW tb \in Tables, SyncTableContent(t, tb)
    PROVE  IInv'
<1> DEFINE c == call[t]
<1>1. /\ Shaped /\ c \in Calls /\ None # t
      /\ c.pc \notin {"idle", "nextTable"} => c.tb \in Tables
      /\ WithRows(c)     => mRowsSync[c.tb] = t
      /\ WithIndexes(c)  => mIndexesSync[c.tb] = t
      /\ WithField(c)    => acquired[c.tb] = t
      /\ WithDatabase(c) => mSync = t
  BY TableSyncAssumption DEF IInv, Shaped, Placed, Locked
<1>2. Placed(c) /\ Sees(t)
  BY DEF IInv
<1>3. Shaped'
  BY <1>1, <1>2, TableSyncAssumption DEF Shaped, Placed, Calls, Steps, AllOps, Data, Files, dbVars, lockVars, contents, Simple, Calling, Idle, SyncTableContent, Starts
<1>4. Leaves(t)
  <2>1. \A u \in Threads \ {t} : call'[u] = call[u]
    BY <1>1 DEF Shaped, dbVars, lockVars, contents, Simple, Calling, Idle, SyncTableContent, Starts
  <2>2. mSync' = mSync \/ mSync \in {None, t}
    BY <1>1, <1>2 DEF Placed, WithDatabase, dbVars, lockVars, contents, Simple, Calling, Idle, SyncTableContent, Starts
  <2>3. \A x \in Tables :
          /\ mRowsSync'[x] = mRowsSync[x] \/ mRowsSync[x] \in {None, t}
          /\ mIndexesSync'[x] = mIndexesSync[x] \/ mIndexesSync[x] \in {None, t}
    BY <1>1, <1>2 DEF Shaped, Placed, WithRows, WithIndexes, Sorting, dbVars, lockVars, contents, Simple, Calling, Idle, SyncTableContent, Starts
  <2>4. \A x \in Tables :
          /\ acquired'[x] = acquired[x] \/ acquired[x] \in {None, t}
          /\ acquired'[x] \in {acquired[x], None} \/ mIndexesSync[x] = None
    BY <1>1, <1>2 DEF Shaped, Placed, WithField, dbVars, lockVars, contents, Simple, Calling, Idle, SyncTableContent, Starts
  <2>5. \A x \in Tables :
          \/ mem'[x].indexed = mem[x].indexed
          \/ mem'[x].indexed /\ mRowsSync[x] = None
          \/ acquired[x] = None /\ mRowsSync[x] = t
    BY <1>1, <1>2 DEF Shaped, Placed, WithRows, Data, dbVars, lockVars, contents, Simple, Calling, Idle, SyncTableContent, Starts
  <2> QED
    BY <2>1, <2>2, <2>3, <2>4, <2>5 DEF Leaves
<1>5. Placed(call'[t])
  BY <1>1, <1>2 DEF Shaped, Placed, Calls, dbVars, lockVars, contents, Simple, Calling, Idle, SyncTableContent, Starts
<1>6. Locked(t)' /\ Sees(t)'
  BY <1>1, <1>2, <1>5 DEF Shaped, Placed, Sees, Locked, Calls, Data, WithRows, WithIndexes, WithField, WithDatabase, Sorting, dbVars, lockVars, contents, Simple, Calling, Idle, SyncTableContent, Starts
<1> QED
  BY <1>3, <1>4, <1>5, <1>6, StepOf

LEMMA LockTableIInv ==
    ASSUME IInv, NEW t \in Threads, NEW tb \in Tables, LockTable(t, tb)
    PROVE  IInv'
<1> DEFINE c == call[t]
<1>1. /\ Shaped /\ c \in Calls /\ None # t
      /\ c.pc \notin {"idle", "nextTable"} => c.tb \in Tables
      /\ WithRows(c)     => mRowsSync[c.tb] = t
      /\ WithIndexes(c)  => mIndexesSync[c.tb] = t
      /\ WithField(c)    => acquired[c.tb] = t
      /\ WithDatabase(c) => mSync = t
  BY TableSyncAssumption DEF IInv, Shaped, Placed, Locked
<1>2. Placed(c) /\ Sees(t)
  BY DEF IInv
<1>3. Shaped'
  BY <1>1, <1>2, TableSyncAssumption DEF Shaped, Placed, Calls, Steps, AllOps, Data, Files, dbVars, lockVars, contents, Simple, Calling, Idle, LockTable, Starts
<1>4. Leaves(t)
  <2>1. \A u \in Threads \ {t} : call'[u] = call[u]
    BY <1>1 DEF Shaped, dbVars, lockVars, contents, Simple, Calling, Idle, LockTable, Starts
  <2>2. mSync' = mSync \/ mSync \in {None, t}
    BY <1>1, <1>2 DEF Placed, WithDatabase, dbVars, lockVars, contents, Simple, Calling, Idle, LockTable, Starts
  <2>3. \A x \in Tables :
          /\ mRowsSync'[x] = mRowsSync[x] \/ mRowsSync[x] \in {None, t}
          /\ mIndexesSync'[x] = mIndexesSync[x] \/ mIndexesSync[x] \in {None, t}
    BY <1>1, <1>2 DEF Shaped, Placed, WithRows, WithIndexes, Sorting, dbVars, lockVars, contents, Simple, Calling, Idle, LockTable, Starts
  <2>4. \A x \in Tables :
          /\ acquired'[x] = acquired[x] \/ acquired[x] \in {None, t}
          /\ acquired'[x] \in {acquired[x], None} \/ mIndexesSync[x] = None
    BY <1>1, <1>2 DEF Shaped, Placed, WithField, dbVars, lockVars, contents, Simple, Calling, Idle, LockTable, Starts
  <2>5. \A x \in Tables :
          \/ mem'[x].indexed = mem[x].indexed
          \/ mem'[x].indexed /\ mRowsSync[x] = None
          \/ acquired[x] = None /\ mRowsSync[x] = t
    BY <1>1, <1>2 DEF Shaped, Placed, WithRows, Data, dbVars, lockVars, contents, Simple, Calling, Idle, LockTable, Starts
  <2> QED
    BY <2>1, <2>2, <2>3, <2>4, <2>5 DEF Leaves
<1>5. Placed(call'[t])
  BY <1>1, <1>2 DEF Shaped, Placed, Calls, dbVars, lockVars, contents, Simple, Calling, Idle, LockTable, Starts
<1>6. Locked(t)' /\ Sees(t)'
  BY <1>1, <1>2, <1>5 DEF Shaped, Placed, Sees, Locked, Calls, Data, WithRows, WithIndexes, WithField, WithDatabase, Sorting, dbVars, lockVars, contents, Simple, Calling, Idle, LockTable, Starts
<1> QED
  BY <1>3, <1>4, <1>5, <1>6, StepOf

LEMMA SyncAllTablesContentIInv ==
    ASSUME IInv, NEW t \in Threads, SyncAllTablesContent(t)
    PROVE  IInv'
<1> DEFINE c == call[t]
<1>1. /\ Shaped /\ c \in Calls /\ None # t
      /\ c.pc \notin {"idle", "nextTable"} => c.tb \in Tables
      /\ WithRows(c)     => mRowsSync[c.tb] = t
      /\ WithIndexes(c)  => mIndexesSync[c.tb] = t
      /\ WithField(c)    => acquired[c.tb] = t
      /\ WithDatabase(c) => mSync = t
  BY TableSyncAssumption DEF IInv, Shaped, Placed, Locked
<1>2. Placed(c) /\ Sees(t)
  BY DEF IInv
<1>3. Shaped'
  BY <1>1, <1>2, TableSyncAssumption DEF Shaped, Placed, Calls, Steps, AllOps, Data, Files, dbVars, lockVars, contents, Simple, Calling, Idle, SyncAllTablesContent, Starts
<1>4. Leaves(t)
  <2>1. \A u \in Threads \ {t} : call'[u] = call[u]
    BY <1>1 DEF Shaped, dbVars, lockVars, contents, Simple, Calling, Idle, SyncAllTablesContent, Starts
  <2>2. mSync' = mSync \/ mSync \in {None, t}
    BY <1>1, <1>2 DEF Placed, WithDatabase, dbVars, lockVars, contents, Simple, Calling, Idle, SyncAllTablesContent, Starts
  <2>3. \A x \in Tables :
          /\ mRowsSync'[x] = mRowsSync[x] \/ mRowsSync[x] \in {None, t}
          /\ mIndexesSync'[x] = mIndexesSync[x] \/ mIndexesSync[x] \in {None, t}
    BY <1>1, <1>2 DEF Shaped, Placed, WithRows, WithIndexes, Sorting, dbVars, lockVars, contents, Simple, Calling, Idle, SyncAllTablesContent, Starts
  <2>4. \A x \in Tables :
          /\ acquired'[x] = acquired[x] \/ acquired[x] \in {None, t}
          /\ acquired'[x] \in {acquired[x], None} \/ mIndexesSync[x] = None
    BY <1>1, <1>2 DEF Shaped, Placed, WithField, dbVars, lockVars, contents, Simple, Calling, Idle, SyncAllTablesContent, Starts
  <2>5. \A x \in Tables :
          \/ mem'[x].indexed = mem[x].indexed
          \/ mem'[x].indexed /\ mRowsSync[x] = None
          \/ acquired[x] = None /\ mRowsSync[x] = t
    BY <1>1, <1>2 DEF Shaped, Placed, WithRows, Data, dbVars, lockVars, contents, Simple, Calling, Idle, SyncAllTablesContent, Starts
  <2> QED
    BY <2>1, <2>2, <2>3, <2>4, <2>5 DEF Leaves
<1>5. Placed(call'[t])
  BY <1>1, <1>2 DEF Shaped, Placed, Calls, dbVars, lockVars, contents, Simple, Calling, Idle, SyncAllTablesContent, Starts
<1>6. Locked(t)' /\ Sees(t)'
  BY <1>1, <1>2, <1>5 DEF Shaped, Placed, Sees, Locked, Calls, Data, WithRows, WithIndexes, WithField, WithDatabase, Sorting, dbVars, lockVars, contents, Simple, Calling, Idle, SyncAllTablesContent, Starts
<1> QED
  BY <1>3, <1>4, <1>5, <1>6, StepOf

LEMMA SortExchangeIInv ==
    ASSUME IInv, NEW t \in Threads, NEW r1 \in Rows, NEW r2 \in Rows, SortExchange(t, r1, r2)
    PROVE  IInv'
<1> DEFINE c == call[t]
<1>1. /\ Shaped /\ c \in Calls /\ None # t
      /\ c.pc \notin {"idle", "nextTable"} => c.tb \in Tables
      /\ WithRows(c)     => mRowsSync[c.tb] = t
      /\ WithIndexes(c)  => mIndexesSync[c.tb] = t
      /\ WithField(c)    => acquired[c.tb] = t
      /\ WithDatabase(c) => mSync = t
  BY TableSyncAssumption DEF IInv, Shaped, Placed, Locked
<1>2. Placed(c) /\ Sees(t)
  BY DEF IInv
<1>3. Shaped'
  BY <1>1, <1>2, TableSyncAssumption DEF Shaped, Placed, Calls, Steps, AllOps, Data, Files, dbVars, lockVars, contents, Simple, Calling, Idle, SortExchange, Exchange
<1>4. Leaves(t)
  <2>1. \A u \in Threads \ {t} : call'[u] = call[u]
    BY <1>1 DEF Shaped, dbVars, lockVars, contents, Simple, Calling, Idle, SortExchange, Exchange
  <2>2. mSync' = mSync \/ mSync \in {None, t}
    BY <1>1, <1>2 DEF Placed, WithDatabase, dbVars, lockVars, contents, Simple, Calling, Idle, SortExchange, Exchange
  <2>3. \A x \in Tables :
          /\ mRowsSync'[x] = mRowsSync[x] \/ mRowsSync[x] \in {None, t}
          /\ mIndexesSync'[x] = mIndexesSync[x] \/ mIndexesSync[x] \in {None, t}
    BY <1>1, <1>2 DEF Shaped, Placed, WithRows, WithIndexes, Sorting, dbVars, lockVars, contents, Simple, Calling, Idle, SortExchange, Exchange
  <2>4. \A x \in Tables :
          /\ acquired'[x] = acquired[x] \/ acquired[x] \in {None, t}
          /\ acquired'[x] \in {acquired[x], None} \/ mIndexesSync[x] = None
    BY <1>1, <1>2 DEF Shaped, Placed, WithField, dbVars, lockVars, contents, Simple, Calling, Idle, SortExchange, Exchange
  <2>5. \A x \in Tables :
          \/ mem'[x].indexed = mem[x].indexed
          \/ mem'[x].indexed /\ mRowsSync[x] = None
          \/ acquired[x] = None /\ mRowsSync[x] = t
    BY <1>1, <1>2 DEF Shaped, Placed, WithRows, Data, dbVars, lockVars, contents, Simple, Calling, Idle, SortExchange, Exchange
  <2> QED
    BY <2>1, <2>2, <2>3, <2>4, <2>5 DEF Leaves
<1>5. Placed(call'[t])
  BY <1>1, <1>2 DEF Shaped, Placed, Calls, dbVars, lockVars, contents, Simple, Calling, Idle, SortExchange, Exchange
<1>6. Locked(t)' /\ Sees(t)'
  BY <1>1, <1>2, <1>5 DEF Shaped, Placed, Sees, Locked, Calls, Data, WithRows, WithIndexes, WithField, WithDatabase, Sorting, dbVars, lockVars, contents, Simple, Calling, Idle, SortExchange, Exchange
<1> QED
  BY <1>3, <1>4, <1>5, <1>6, StepOf

LEMMA NotifyIInv ==
    ASSUME IInv, NEW t \in Threads, Notify(t)
    PROVE  IInv'
<1> DEFINE c == call[t]
<1>1. /\ Shaped /\ c \in Calls /\ None # t
      /\ c.pc \notin {"idle", "nextTable"} => c.tb \in Tables
      /\ WithRows(c)     => mRowsSync[c.tb] = t
      /\ WithIndexes(c)  => mIndexesSync[c.tb] = t
      /\ WithField(c)    => acquired[c.tb] = t
      /\ WithDatabase(c) => mSync = t
  BY TableSyncAssumption DEF IInv, Shaped, Placed, Locked
<1>2. Placed(c) /\ Sees(t)
  BY DEF IInv
<1>3. Shaped'
  BY <1>1, <1>2, TableSyncAssumption DEF Shaped, Placed, Calls, Steps, AllOps, Data, Files, dbVars, lockVars, contents, Simple, Calling, Idle, Notify, Goto
<1>4. Leaves(t)
  <2>1. \A u \in Threads \ {t} : call'[u] = call[u]
    BY <1>1 DEF Shaped, dbVars, lockVars, contents, Simple, Calling, Idle, Notify, Goto
  <2>2. mSync' = mSync \/ mSync \in {None, t}
    BY <1>1, <1>2 DEF Placed, WithDatabase, dbVars, lockVars, contents, Simple, Calling, Idle, Notify, Goto
  <2>3. \A x \in Tables :
          /\ mRowsSync'[x] = mRowsSync[x] \/ mRowsSync[x] \in {None, t}
          /\ mIndexesSync'[x] = mIndexesSync[x] \/ mIndexesSync[x] \in {None, t}
    BY <1>1, <1>2 DEF Shaped, Placed, WithRows, WithIndexes, Sorting, dbVars, lockVars, contents, Simple, Calling, Idle, Notify, Goto
  <2>4. \A x \in Tables :
          /\ acquired'[x] = acquired[x] \/ acquired[x] \in {None, t}
          /\ acquired'[x] \in {acquired[x], None} \/ mIndexesSync[x] = None
    BY <1>1, <1>2 DEF Shaped, Placed, WithField, dbVars, lockVars, contents, Simple, Calling, Idle, Notify, Goto
  <2>5. \A x \in Tables :
          \/ mem'[x].indexed = mem[x].indexed
          \/ mem'[x].indexed /\ mRowsSync[x] = None
          \/ acquired[x] = None /\ mRowsSync[x] = t
    BY <1>1, <1>2 DEF Shaped, Placed, WithRows, Data, dbVars, lockVars, contents, Simple, Calling, Idle, Notify, Goto
  <2> QED
    BY <2>1, <2>2, <2>3, <2>4, <2>5 DEF Leaves
<1>5. Placed(call'[t])
  BY <1>1, <1>2 DEF Shaped, Placed, Calls, dbVars, lockVars, contents, Simple, Calling, Idle, Notify, Goto
<1>6. Locked(t)' /\ Sees(t)'
  BY <1>1, <1>2, <1>5 DEF Shaped, Placed, Sees, Locked, Calls, Data, WithRows, WithIndexes, WithField, WithDatabase, Sorting, dbVars, lockVars, contents, Simple, Calling, Idle, Notify, Goto
<1> QED
  BY <1>3, <1>4, <1>5, <1>6, StepOf

LEMMA NotifiedIInv ==
    ASSUME IInv, NEW t \in Threads, Notified(t)
    PROVE  IInv'
<1> DEFINE c == call[t]
<1>1. /\ Shaped /\ c \in Calls /\ None # t
      /\ c.pc \notin {"idle", "nextTable"} => c.tb \in Tables
      /\ WithRows(c)     => mRowsSync[c.tb] = t
      /\ WithIndexes(c)  => mIndexesSync[c.tb] = t
      /\ WithField(c)    => acquired[c.tb] = t
      /\ WithDatabase(c) => mSync = t
  BY TableSyncAssumption DEF IInv, Shaped, Placed, Locked
<1>2. Placed(c) /\ Sees(t)
  BY DEF IInv
<1>3. Shaped'
  <2>1. /\ mSync' \in Threads \cup {None} /\ mNeedsSync' \in BOOLEAN /\ notClosed' \in BOOLEAN
        /\ mRowsSync' \in [Tables -> Threads \cup {None}]
        /\ mIndexesSync' \in [Tables -> Threads \cup {None}]
    BY <1>1 DEF Shaped, dbVars, lockVars, contents, Simple, Calling, Idle, Notified, Goto
  <2>2. /\ mRowModified' \in [Tables -> BOOLEAN]
        /\ mLockInProgress' \in [Tables -> BOOLEAN]
        /\ acquired' \in [Tables -> Threads \cup {None}]
    BY <1>1 DEF Shaped, dbVars, lockVars, contents, Simple, Calling, Idle, Notified, Goto
  <2>3. mem' \in [Tables -> Data]
    BY <1>1, <1>2 DEF Shaped, Calls, Data, Placed, dbVars, lockVars, contents, Simple, Calling, Idle, Notified, Goto
  <2>4. disk' \in [Tables -> Files]
    BY <1>1, <1>2 DEF Shaped, Placed, Files, dbVars, lockVars, contents, Simple, Calling, Idle, Notified, Goto
  <2>5. call' \in [Threads -> Calls]
    BY <1>1, <1>2, TableSyncAssumption DEF Shaped, Placed, Calls, Steps, AllOps, dbVars, lockVars, contents, Simple, Calling, Idle, Notified, Goto
  <2> QED
    BY <2>1, <2>2, <2>3, <2>4, <2>5 DEF Shaped
<1>4. Leaves(t)
  <2>1. \A u \in Threads \ {t} : call'[u] = call[u]
    BY <1>1 DEF Shaped, dbVars, lockVars, contents, Simple, Calling, Idle, Notified, Goto
  <2>2. mSync' = mSync \/ mSync \in {None, t}
    BY <1>1, <1>2 DEF Placed, WithDatabase, dbVars, lockVars, contents, Simple, Calling, Idle, Notified, Goto
  <2>3. \A x \in Tables :
          /\ mRowsSync'[x] = mRowsSync[x] \/ mRowsSync[x] \in {None, t}
          /\ mIndexesSync'[x] = mIndexesSync[x] \/ mIndexesSync[x] \in {None, t}
    BY <1>1, <1>2 DEF Shaped, Placed, WithRows, WithIndexes, Sorting, dbVars, lockVars, contents, Simple, Calling, Idle, Notified, Goto
  <2>4. \A x \in Tables :
          /\ acquired'[x] = acquired[x] \/ acquired[x] \in {None, t}
          /\ acquired'[x] \in {acquired[x], None} \/ mIndexesSync[x] = None
    BY <1>1, <1>2 DEF Shaped, Placed, WithField, dbVars, lockVars, contents, Simple, Calling, Idle, Notified, Goto
  <2>5. \A x \in Tables :
          \/ mem'[x].indexed = mem[x].indexed
          \/ mem'[x].indexed /\ mRowsSync[x] = None
          \/ acquired[x] = None /\ mRowsSync[x] = t
    BY <1>1, <1>2 DEF Shaped, Placed, WithRows, Data, dbVars, lockVars, contents, Simple, Calling, Idle, Notified, Goto
  <2> QED
    BY <2>1, <2>2, <2>3, <2>4, <2>5 DEF Leaves
<1>5. Placed(call'[t])
  BY <1>1, <1>2 DEF Shaped, Placed, Calls, dbVars, lockVars, contents, Simple, Calling, Idle, Notified, Goto
<1>6. Locked(t)' /\ Sees(t)'
  BY <1>1, <1>2, <1>5 DEF Shaped, Placed, Sees, Locked, Calls, Data, WithRows, WithIndexes, WithField, WithDatabase, Sorting, dbVars, lockVars, contents, Simple, Calling, Idle, Notified, Goto
<1> QED
  BY <1>3, <1>4, <1>5, <1>6, StepOf

LEMMA MarkYieldIInv ==
    ASSUME IInv, NEW t \in Threads, MarkYield(t)
    PROVE  IInv'
<1> DEFINE c == call[t]
<1>1. /\ Shaped /\ c \in Calls /\ None # t
      /\ c.pc \notin {"idle", "nextTable"} => c.tb \in Tables
      /\ WithRows(c)     => mRowsSync[c.tb] = t
      /\ WithIndexes(c)  => mIndexesSync[c.tb] = t
      /\ WithField(c)    => acquired[c.tb] = t
      /\ WithDatabase(c) => mSync = t
  BY TableSyncAssumption DEF IInv, Shaped, Placed, Locked
<1>2. Placed(c) /\ Sees(t)
  BY DEF IInv
<1>3. Shaped'
  BY <1>1, <1>2, TableSyncAssumption DEF Shaped, Placed, Calls, Steps, AllOps, Data, Files, dbVars, lockVars, contents, Simple, Calling, Idle, MarkYield, Goto, FreeRows, ThreadSafe
<1>4. Leaves(t)
  <2>1. \A u \in Threads \ {t} : call'[u] = call[u]
    BY <1>1 DEF Shaped, dbVars, lockVars, contents, Simple, Calling, Idle, MarkYield, Goto, FreeRows, ThreadSafe
  <2>2. mSync' = mSync \/ mSync \in {None, t}
    BY <1>1, <1>2 DEF Placed, WithDatabase, dbVars, lockVars, contents, Simple, Calling, Idle, MarkYield, Goto, FreeRows, ThreadSafe
  <2>3. \A x \in Tables :
          /\ mRowsSync'[x] = mRowsSync[x] \/ mRowsSync[x] \in {None, t}
          /\ mIndexesSync'[x] = mIndexesSync[x] \/ mIndexesSync[x] \in {None, t}
    BY <1>1, <1>2 DEF Shaped, Placed, WithRows, WithIndexes, Sorting, dbVars, lockVars, contents, Simple, Calling, Idle, MarkYield, Goto, FreeRows, ThreadSafe
  <2>4. \A x \in Tables :
          /\ acquired'[x] = acquired[x] \/ acquired[x] \in {None, t}
          /\ acquired'[x] \in {acquired[x], None} \/ mIndexesSync[x] = None
    BY <1>1, <1>2 DEF Shaped, Placed, WithField, dbVars, lockVars, contents, Simple, Calling, Idle, MarkYield, Goto, FreeRows, ThreadSafe
  <2>5. \A x \in Tables :
          \/ mem'[x].indexed = mem[x].indexed
          \/ mem'[x].indexed /\ mRowsSync[x] = None
          \/ acquired[x] = None /\ mRowsSync[x] = t
    BY <1>1, <1>2 DEF Shaped, Placed, WithRows, Data, dbVars, lockVars, contents, Simple, Calling, Idle, MarkYield, Goto, FreeRows, ThreadSafe
  <2> QED
    BY <2>1, <2>2, <2>3, <2>4, <2>5 DEF Leaves
<1>5. Placed(call'[t])
  BY <1>1, <1>2 DEF Shaped, Placed, Calls, dbVars, lockVars, contents, Simple, Calling, Idle, MarkYield, Goto, FreeRows, ThreadSafe
<1>6. Locked(t)' /\ Sees(t)'
  BY <1>1, <1>2, <1>5 DEF Shaped, Placed, Sees, Locked, Calls, Data, WithRows, WithIndexes, WithField, WithDatabase, Sorting, dbVars, lockVars, contents, Simple, Calling, Idle, MarkYield, Goto, FreeRows, ThreadSafe
<1> QED
  BY <1>3, <1>4, <1>5, <1>6, StepOf

LEMMA RemarkIInv ==
    ASSUME IInv, NEW t \in Threads, Remark(t)
    PROVE  IInv'
<1> DEFINE c == call[t]
<1>1. /\ Shaped /\ c \in Calls /\ None # t
      /\ c.pc \notin {"idle", "nextTable"} => c.tb \in Tables
      /\ WithRows(c)     => mRowsSync[c.tb] = t
      /\ WithIndexes(c)  => mIndexesSync[c.tb] = t
      /\ WithField(c)    => acquired[c.tb] = t
      /\ WithDatabase(c) => mSync = t
  BY TableSyncAssumption DEF IInv, Shaped, Placed, Locked
<1>2. Placed(c) /\ Sees(t)
  BY DEF IInv
<1>3. Shaped'
  BY ZenonT(30), <1>1, <1>2, TableSyncAssumption DEF Shaped, Placed, Calls, Steps, AllOps, Data, Files, dbVars, lockVars, contents, Simple, Calling, Idle, Remark, Goto, TakeRows
<1>4. Leaves(t)
  <2>1. \A u \in Threads \ {t} : call'[u] = call[u]
    BY <1>1 DEF Shaped, dbVars, lockVars, contents, Simple, Calling, Idle, Remark, Goto, TakeRows
  <2>2. mSync' = mSync \/ mSync \in {None, t}
    BY <1>1, <1>2 DEF Placed, WithDatabase, dbVars, lockVars, contents, Simple, Calling, Idle, Remark, Goto, TakeRows
  <2>3. \A x \in Tables :
          /\ mRowsSync'[x] = mRowsSync[x] \/ mRowsSync[x] \in {None, t}
          /\ mIndexesSync'[x] = mIndexesSync[x] \/ mIndexesSync[x] \in {None, t}
    BY <1>1, <1>2 DEF Shaped, Placed, WithRows, WithIndexes, Sorting, dbVars, lockVars, contents, Simple, Calling, Idle, Remark, Goto, TakeRows
  <2>4. \A x \in Tables :
          /\ acquired'[x] = acquired[x] \/ acquired[x] \in {None, t}
          /\ acquired'[x] \in {acquired[x], None} \/ mIndexesSync[x] = None
    BY <1>1, <1>2 DEF Shaped, Placed, WithField, dbVars, lockVars, contents, Simple, Calling, Idle, Remark, Goto, TakeRows
  <2>5. \A x \in Tables :
          \/ mem'[x].indexed = mem[x].indexed
          \/ mem'[x].indexed /\ mRowsSync[x] = None
          \/ acquired[x] = None /\ mRowsSync[x] = t
    BY <1>1, <1>2 DEF Shaped, Placed, WithRows, Data, dbVars, lockVars, contents, Simple, Calling, Idle, Remark, Goto, TakeRows
  <2> QED
    BY <2>1, <2>2, <2>3, <2>4, <2>5 DEF Leaves
<1>5. Placed(call'[t])
  BY <1>1, <1>2 DEF Shaped, Placed, Calls, dbVars, lockVars, contents, Simple, Calling, Idle, Remark, Goto, TakeRows
<1>6. Locked(t)' /\ Sees(t)'
  BY <1>1, <1>2, <1>5 DEF Shaped, Placed, Sees, Locked, Calls, Data, WithRows, WithIndexes, WithField, WithDatabase, Sorting, dbVars, lockVars, contents, Simple, Calling, Idle, Remark, Goto, TakeRows
<1> QED
  BY <1>3, <1>4, <1>5, <1>6, StepOf

LEMMA MarkedIInv ==
    ASSUME IInv, NEW t \in Threads, Marked(t)
    PROVE  IInv'
<1> DEFINE c == call[t]
<1>1. /\ Shaped /\ c \in Calls /\ None # t
      /\ c.pc \notin {"idle", "nextTable"} => c.tb \in Tables
      /\ WithRows(c)     => mRowsSync[c.tb] = t
      /\ WithIndexes(c)  => mIndexesSync[c.tb] = t
      /\ WithField(c)    => acquired[c.tb] = t
      /\ WithDatabase(c) => mSync = t
  BY TableSyncAssumption DEF IInv, Shaped, Placed, Locked
<1>2. Placed(c) /\ Sees(t)
  BY DEF IInv
<1>3. Shaped'
  BY ZenonT(30), <1>1, <1>2, TableSyncAssumption DEF Shaped, Placed, Calls, Steps, AllOps, Data, Files, dbVars, lockVars, contents, Simple, Calling, Idle, Marked, Goto
<1>4. Leaves(t)
  <2>1. \A u \in Threads \ {t} : call'[u] = call[u]
    BY <1>1 DEF Shaped, dbVars, lockVars, contents, Simple, Calling, Idle, Marked, Goto
  <2>2. mSync' = mSync \/ mSync \in {None, t}
    BY <1>1, <1>2 DEF Placed, WithDatabase, dbVars, lockVars, contents, Simple, Calling, Idle, Marked, Goto
  <2>3. \A x \in Tables :
          /\ mRowsSync'[x] = mRowsSync[x] \/ mRowsSync[x] \in {None, t}
          /\ mIndexesSync'[x] = mIndexesSync[x] \/ mIndexesSync[x] \in {None, t}
    BY <1>1, <1>2 DEF Shaped, Placed, WithRows, WithIndexes, Sorting, dbVars, lockVars, contents, Simple, Calling, Idle, Marked, Goto
  <2>4. \A x \in Tables :
          /\ acquired'[x] = acquired[x] \/ acquired[x] \in {None, t}
          /\ acquired'[x] \in {acquired[x], None} \/ mIndexesSync[x] = None
    BY <1>1, <1>2 DEF Shaped, Placed, WithField, dbVars, lockVars, contents, Simple, Calling, Idle, Marked, Goto
  <2>5. \A x \in Tables :
          \/ mem'[x].indexed = mem[x].indexed
          \/ mem'[x].indexed /\ mRowsSync[x] = None
          \/ acquired[x] = None /\ mRowsSync[x] = t
    BY <1>1, <1>2 DEF Shaped, Placed, WithRows, Data, dbVars, lockVars, contents, Simple, Calling, Idle, Marked, Goto
  <2> QED
    BY <2>1, <2>2, <2>3, <2>4, <2>5 DEF Leaves
<1>5. Placed(call'[t])
  BY <1>1, <1>2 DEF Shaped, Placed, Calls, dbVars, lockVars, contents, Simple, Calling, Idle, Marked, Goto
<1>6. Locked(t)' /\ Sees(t)'
  BY <1>1, <1>2, <1>5 DEF Shaped, Placed, Sees, Locked, Calls, Data, WithRows, WithIndexes, WithField, WithDatabase, Sorting, dbVars, lockVars, contents, Simple, Calling, Idle, Marked, Goto
<1> QED
  BY <1>3, <1>4, <1>5, <1>6, StepOf

LEMMA AddLockIInv ==
    ASSUME IInv, NEW t \in Threads, AddLock(t)
    PROVE  IInv'
<1> DEFINE c == call[t]
<1>1. /\ Shaped /\ c \in Calls /\ None # t
      /\ c.pc \notin {"idle", "nextTable"} => c.tb \in Tables
      /\ WithRows(c)     => mRowsSync[c.tb] = t
      /\ WithIndexes(c)  => mIndexesSync[c.tb] = t
      /\ WithField(c)    => acquired[c.tb] = t
      /\ WithDatabase(c) => mSync = t
  BY TableSyncAssumption DEF IInv, Shaped, Placed, Locked
<1>2. Placed(c) /\ Sees(t)
  BY DEF IInv
<1>3. Shaped'
  BY ZenonT(30), <1>1, <1>2, TableSyncAssumption DEF Shaped, Placed, Calls, Steps, AllOps, Data, Files, dbVars, lockVars, contents, Simple, Calling, Idle, AddLock, Goto
<1>4. Leaves(t)
  <2>1. \A u \in Threads \ {t} : call'[u] = call[u]
    BY <1>1 DEF Shaped, dbVars, lockVars, contents, Simple, Calling, Idle, AddLock, Goto
  <2>2. mSync' = mSync \/ mSync \in {None, t}
    BY <1>1, <1>2 DEF Placed, WithDatabase, dbVars, lockVars, contents, Simple, Calling, Idle, AddLock, Goto
  <2>3. \A x \in Tables :
          /\ mRowsSync'[x] = mRowsSync[x] \/ mRowsSync[x] \in {None, t}
          /\ mIndexesSync'[x] = mIndexesSync[x] \/ mIndexesSync[x] \in {None, t}
    BY <1>1, <1>2 DEF Shaped, Placed, WithRows, WithIndexes, Sorting, dbVars, lockVars, contents, Simple, Calling, Idle, AddLock, Goto
  <2>4. \A x \in Tables :
          /\ acquired'[x] = acquired[x] \/ acquired[x] \in {None, t}
          /\ acquired'[x] \in {acquired[x], None} \/ mIndexesSync[x] = None
    BY <1>1, <1>2 DEF Shaped, Placed, WithField, dbVars, lockVars, contents, Simple, Calling, Idle, AddLock, Goto
  <2>5. \A x \in Tables :
          \/ mem'[x].indexed = mem[x].indexed
          \/ mem'[x].indexed /\ mRowsSync[x] = None
          \/ acquired[x] = None /\ mRowsSync[x] = t
    BY <1>1, <1>2 DEF Shaped, Placed, WithRows, Data, dbVars, lockVars, contents, Simple, Calling, Idle, AddLock, Goto
  <2> QED
    BY <2>1, <2>2, <2>3, <2>4, <2>5 DEF Leaves
<1>5. Placed(call'[t])
  BY <1>1, <1>2 DEF Shaped, Placed, Calls, dbVars, lockVars, contents, Simple, Calling, Idle, AddLock, Goto
<1>6. Locked(t)' /\ Sees(t)'
  BY <1>1, <1>2, <1>5 DEF Shaped, Placed, Sees, Locked, Calls, Data, WithRows, WithIndexes, WithField, WithDatabase, Sorting, dbVars, lockVars, contents, Simple, Calling, Idle, AddLock, Goto
<1> QED
  BY <1>3, <1>4, <1>5, <1>6, StepOf

LEMMA AddIndexIInv ==
    ASSUME IInv, NEW t \in Threads, AddIndex(t)
    PROVE  IInv'
<1> DEFINE c == call[t]
<1>1. /\ Shaped /\ c \in Calls /\ None # t
      /\ c.pc \notin {"idle", "nextTable"} => c.tb \in Tables
      /\ WithRows(c)     => mRowsSync[c.tb] = t
      /\ WithIndexes(c)  => mIndexesSync[c.tb] = t
      /\ WithField(c)    => acquired[c.tb] = t
      /\ WithDatabase(c) => mSync = t
  BY TableSyncAssumption DEF IInv, Shaped, Placed, Locked
<1>2. Placed(c) /\ Sees(t)
  BY DEF IInv
<1>3. Shaped'
  <2>1. /\ mSync' \in Threads \cup {None} /\ mNeedsSync' \in BOOLEAN /\ notClosed' \in BOOLEAN
        /\ mRowsSync' \in [Tables -> Threads \cup {None}]
        /\ mIndexesSync' \in [Tables -> Threads \cup {None}]
    BY <1>1 DEF Shaped, dbVars, lockVars, contents, Simple, Calling, Idle, AddIndex, FreeRows
  <2>2. /\ mRowModified' \in [Tables -> BOOLEAN]
        /\ mLockInProgress' \in [Tables -> BOOLEAN]
        /\ acquired' \in [Tables -> Threads \cup {None}]
    BY <1>1 DEF Shaped, dbVars, lockVars, contents, Simple, Calling, Idle, AddIndex, FreeRows
  <2>3. mem' \in [Tables -> Data]
    <3> DEFINE n == Count(c.tb)
               new == [row |-> [mem[c.tb].row EXCEPT ![n] = Null], indexed |-> mem[c.tb].indexed,
                       keys |-> IF mem[c.tb].indexed THEN mem[c.tb].keys \cup {<<Null, n>>} ELSE {}]
    <3>1. c.tb \in Tables /\ mem[c.tb] \in Data /\ n \in Nat /\ Null \in Values
      BY <1>1, CountNat, TableSyncAssumption DEF Shaped, AddIndex
    <3>2. mem' = [mem EXCEPT ![c.tb] = new]
      BY DEF AddIndex
    <3> HIDE DEF n
    <3>3. new \in Data
      <4>1. /\ mem[c.tb].row \in [Rows -> Values \cup {Absent}] /\ mem[c.tb].indexed \in BOOLEAN
            /\ mem[c.tb].keys \in AnyKeys
        BY <3>1 DEF Data, AnyKeys
      <4>2. [mem[c.tb].row EXCEPT ![n] = Null] \in [Rows -> Values \cup {Absent}]
        BY <4>1, <3>1
      <4>3. (IF mem[c.tb].indexed THEN mem[c.tb].keys \cup {<<Null, n>>} ELSE {}) \in AnyKeys
        BY <4>1, <3>1 DEF AnyKeys
      <4> QED
        BY <4>1, <4>2, <4>3 DEF Data, AnyKeys
    <3> HIDE DEF new
    <3> QED
      BY <1>1, <3>1, <3>2, <3>3 DEF Shaped
  <2>4. disk' \in [Tables -> Files]
    BY <1>1, <1>2 DEF Shaped, Placed, Files, dbVars, lockVars, contents, Simple, Calling, Idle, AddIndex, FreeRows
  <2>5. call' \in [Threads -> Calls]
    <3>1. CASE c.op = "append" /\ c.val # Null
      BY <1>1, <3>1 DEF Shaped, Calls, Steps, AllOps, AddIndex
    <3>2. CASE ~(c.op = "append" /\ c.val # Null)
      BY <1>1, <3>2, IdleShape DEF Shaped, AddIndex
    <3> QED
      BY <3>1, <3>2
  <2> QED
    BY <2>1, <2>2, <2>3, <2>4, <2>5 DEF Shaped
<1>4. Leaves(t)
  <2>1. \A u \in Threads \ {t} : call'[u] = call[u]
    BY <1>1 DEF Shaped, dbVars, lockVars, contents, Simple, Calling, Idle, AddIndex, FreeRows
  <2>2. mSync' = mSync \/ mSync \in {None, t}
    BY <1>1, <1>2 DEF Placed, WithDatabase, dbVars, lockVars, contents, Simple, Calling, Idle, AddIndex, FreeRows
  <2>3. \A x \in Tables :
          /\ mRowsSync'[x] = mRowsSync[x] \/ mRowsSync[x] \in {None, t}
          /\ mIndexesSync'[x] = mIndexesSync[x] \/ mIndexesSync[x] \in {None, t}
    BY <1>1, <1>2 DEF Shaped, Placed, WithRows, WithIndexes, Sorting, dbVars, lockVars, contents, Simple, Calling, Idle, AddIndex, FreeRows
  <2>4. \A x \in Tables :
          /\ acquired'[x] = acquired[x] \/ acquired[x] \in {None, t}
          /\ acquired'[x] \in {acquired[x], None} \/ mIndexesSync[x] = None
    BY <1>1, <1>2 DEF Shaped, Placed, WithField, dbVars, lockVars, contents, Simple, Calling, Idle, AddIndex, FreeRows
  <2>5. \A x \in Tables :
          \/ mem'[x].indexed = mem[x].indexed
          \/ mem'[x].indexed /\ mRowsSync[x] = None
          \/ acquired[x] = None /\ mRowsSync[x] = t
    BY <1>1, <1>2 DEF Shaped, Placed, WithRows, Data, dbVars, lockVars, contents, Simple, Calling, Idle, AddIndex, FreeRows
  <2> QED
    BY <2>1, <2>2, <2>3, <2>4, <2>5 DEF Leaves
<1>5. Placed(call'[t])
  BY <1>1, <1>2 DEF Shaped, Placed, Calls, dbVars, lockVars, contents, Simple, Calling, Idle, AddIndex, FreeRows
<1>6. Locked(t)' /\ Sees(t)'
  BY <1>1, <1>2, <1>5 DEF Shaped, Placed, Sees, Locked, Calls, Data, WithRows, WithIndexes, WithField, WithDatabase, Sorting, dbVars, lockVars, contents, Simple, Calling, Idle, AddIndex, FreeRows
<1> QED
  BY <1>3, <1>4, <1>5, <1>6, StepOf

LEMMA WriteIInv ==
    ASSUME IInv, NEW t \in Threads, Write(t)
    PROVE  IInv'
<1> DEFINE c == call[t]
<1>1. /\ Shaped /\ c \in Calls /\ None # t
      /\ c.pc \notin {"idle", "nextTable"} => c.tb \in Tables
      /\ WithRows(c)     => mRowsSync[c.tb] = t
      /\ WithIndexes(c)  => mIndexesSync[c.tb] = t
      /\ WithField(c)    => acquired[c.tb] = t
      /\ WithDatabase(c) => mSync = t
  BY TableSyncAssumption DEF IInv, Shaped, Placed, Locked
<1>2. Placed(c) /\ Sees(t)
  BY DEF IInv
<1>3. Shaped'
  <2>1. /\ mSync' \in Threads \cup {None} /\ mNeedsSync' \in BOOLEAN /\ notClosed' \in BOOLEAN
        /\ mRowsSync' \in [Tables -> Threads \cup {None}]
        /\ mIndexesSync' \in [Tables -> Threads \cup {None}]
    BY <1>1 DEF Shaped, dbVars, lockVars, contents, Simple, Calling, Idle, Write, Goto, RowStored, FreeRows, ThreadSafe
  <2>2. /\ mRowModified' \in [Tables -> BOOLEAN]
        /\ mLockInProgress' \in [Tables -> BOOLEAN]
        /\ acquired' \in [Tables -> Threads \cup {None}]
    BY <1>1 DEF Shaped, dbVars, lockVars, contents, Simple, Calling, Idle, Write, Goto, RowStored, FreeRows, ThreadSafe
  <2>3. mem' \in [Tables -> Data]
    <3>1. c.tb \in Tables /\ c.val \in Values
      BY <1>1 DEF Calls, Write
    <3> QED
      BY <1>1, <3>1, RowStoredShape DEF Shaped, Write
  <2>4. disk' \in [Tables -> Files]
    BY <1>1, <1>2 DEF Shaped, Placed, Files, dbVars, lockVars, contents, Simple, Calling, Idle, Write, Goto, RowStored, FreeRows, ThreadSafe
  <2>5. call' \in [Threads -> Calls]
    <3>1. CASE mem[c.tb].indexed
      <4>1. \E pc \in Steps : Goto(t, pc)
        BY <3>1 DEF Write, Steps
      <4> QED
        BY <4>1, <1>1, GotoShape DEF Shaped
    <3>2. CASE ~mem[c.tb].indexed
      BY <3>2, <1>1, RowStoredTyped DEF Shaped, Write
    <3> QED
      BY <3>1, <3>2
  <2> QED
    BY <2>1, <2>2, <2>3, <2>4, <2>5 DEF Shaped
<1>4. Leaves(t)
  <2>1. \A u \in Threads \ {t} : call'[u] = call[u]
    BY <1>1 DEF Shaped, dbVars, lockVars, contents, Simple, Calling, Idle, Write, Goto, RowStored, FreeRows, ThreadSafe
  <2>2. mSync' = mSync \/ mSync \in {None, t}
    BY <1>1, <1>2 DEF Placed, WithDatabase, dbVars, lockVars, contents, Simple, Calling, Idle, Write, Goto, RowStored, FreeRows, ThreadSafe
  <2>3. \A x \in Tables :
          /\ mRowsSync'[x] = mRowsSync[x] \/ mRowsSync[x] \in {None, t}
          /\ mIndexesSync'[x] = mIndexesSync[x] \/ mIndexesSync[x] \in {None, t}
    BY <1>1, <1>2 DEF Shaped, Placed, WithRows, WithIndexes, Sorting, dbVars, lockVars, contents, Simple, Calling, Idle, Write, Goto, RowStored, FreeRows, ThreadSafe
  <2>4. \A x \in Tables :
          /\ acquired'[x] = acquired[x] \/ acquired[x] \in {None, t}
          /\ acquired'[x] \in {acquired[x], None} \/ mIndexesSync[x] = None
    BY <1>1, <1>2 DEF Shaped, Placed, WithField, dbVars, lockVars, contents, Simple, Calling, Idle, Write, Goto, RowStored, FreeRows, ThreadSafe
  <2>5. \A x \in Tables :
          \/ mem'[x].indexed = mem[x].indexed
          \/ mem'[x].indexed /\ mRowsSync[x] = None
          \/ acquired[x] = None /\ mRowsSync[x] = t
    BY <1>1, <1>2 DEF Shaped, Placed, WithRows, Data, dbVars, lockVars, contents, Simple, Calling, Idle, Write, Goto, RowStored, FreeRows, ThreadSafe
  <2> QED
    BY <2>1, <2>2, <2>3, <2>4, <2>5 DEF Leaves
<1>5. Placed(call'[t])
  BY <1>1, <1>2 DEF Shaped, Placed, Calls, dbVars, lockVars, contents, Simple, Calling, Idle, Write, Goto, RowStored, FreeRows, ThreadSafe
<1>6. Locked(t)' /\ Sees(t)'
  BY <1>1, <1>2, <1>5 DEF Shaped, Placed, Sees, Locked, Calls, Data, WithRows, WithIndexes, WithField, WithDatabase, Sorting, dbVars, lockVars, contents, Simple, Calling, Idle, Write, Goto, RowStored, FreeRows, ThreadSafe
<1> QED
  BY <1>3, <1>4, <1>5, <1>6, StepOf

LEMMA AcquireFieldIndexIInv ==
    ASSUME IInv, NEW t \in Threads, AcquireFieldIndex(t)
    PROVE  IInv'
<1> DEFINE c == call[t]
<1>1. /\ Shaped /\ c \in Calls /\ None # t
      /\ c.pc \notin {"idle", "nextTable"} => c.tb \in Tables
      /\ WithRows(c)     => mRowsSync[c.tb] = t
      /\ WithIndexes(c)  => mIndexesSync[c.tb] = t
      /\ WithField(c)    => acquired[c.tb] = t
      /\ WithDatabase(c) => mSync = t
  BY TableSyncAssumption DEF IInv, Shaped, Placed, Locked
<1>2. Placed(c) /\ Sees(t)
  BY DEF IInv
<1>3. Shaped'
  BY <1>1, <1>2, TableSyncAssumption DEF Shaped, Placed, Calls, Steps, AllOps, Data, Files, dbVars, lockVars, contents, Simple, Calling, Idle, AcquireFieldIndex, Goto, FreeRows, Acquirable
<1>4. Leaves(t)
  <2>1. \A u \in Threads \ {t} : call'[u] = call[u]
    BY <1>1 DEF Shaped, dbVars, lockVars, contents, Simple, Calling, Idle, AcquireFieldIndex, Goto, FreeRows, Acquirable
  <2>2. mSync' = mSync \/ mSync \in {None, t}
    BY <1>1, <1>2 DEF Placed, WithDatabase, dbVars, lockVars, contents, Simple, Calling, Idle, AcquireFieldIndex, Goto, FreeRows, Acquirable
  <2>3. \A x \in Tables :
          /\ mRowsSync'[x] = mRowsSync[x] \/ mRowsSync[x] \in {None, t}
          /\ mIndexesSync'[x] = mIndexesSync[x] \/ mIndexesSync[x] \in {None, t}
    BY <1>1, <1>2 DEF Shaped, Placed, WithRows, WithIndexes, Sorting, dbVars, lockVars, contents, Simple, Calling, Idle, AcquireFieldIndex, Goto, FreeRows, Acquirable
  <2>4. \A x \in Tables :
          /\ acquired'[x] = acquired[x] \/ acquired[x] \in {None, t}
          /\ acquired'[x] \in {acquired[x], None} \/ mIndexesSync[x] = None
    BY <1>1, <1>2 DEF Shaped, Placed, WithField, dbVars, lockVars, contents, Simple, Calling, Idle, AcquireFieldIndex, Goto, FreeRows, Acquirable
  <2>5. \A x \in Tables :
          \/ mem'[x].indexed = mem[x].indexed
          \/ mem'[x].indexed /\ mRowsSync[x] = None
          \/ acquired[x] = None /\ mRowsSync[x] = t
    BY <1>1, <1>2 DEF Shaped, Placed, WithRows, Data, dbVars, lockVars, contents, Simple, Calling, Idle, AcquireFieldIndex, Goto, FreeRows, Acquirable
  <2> QED
    BY <2>1, <2>2, <2>3, <2>4, <2>5 DEF Leaves
<1>5. Placed(call'[t])
  BY <1>1, <1>2 DEF Shaped, Placed, Calls, dbVars, lockVars, contents, Simple, Calling, Idle, AcquireFieldIndex, Goto, FreeRows, Acquirable
<1>6. Locked(t)' /\ Sees(t)'
  BY <1>1, <1>2, <1>5 DEF Shaped, Placed, Sees, Locked, Calls, Data, WithRows, WithIndexes, WithField, WithDatabase, Sorting, dbVars, lockVars, contents, Simple, Calling, Idle, AcquireFieldIndex, Goto, FreeRows, Acquirable
<1> QED
  BY <1>3, <1>4, <1>5, <1>6, StepOf

LEMMA RemoveKeyIInv ==
    ASSUME IInv, NEW t \in Threads, RemoveKey(t)
    PROVE  IInv'
<1> DEFINE c == call[t]
<1>1. /\ Shaped /\ c \in Calls /\ None # t
      /\ c.pc \notin {"idle", "nextTable"} => c.tb \in Tables
      /\ WithRows(c)     => mRowsSync[c.tb] = t
      /\ WithIndexes(c)  => mIndexesSync[c.tb] = t
      /\ WithField(c)    => acquired[c.tb] = t
      /\ WithDatabase(c) => mSync = t
  BY TableSyncAssumption DEF IInv, Shaped, Placed, Locked
<1>2. Placed(c) /\ Sees(t)
  BY DEF IInv
<1>3. Shaped'
  <2>1. /\ mSync' \in Threads \cup {None} /\ mNeedsSync' \in BOOLEAN /\ notClosed' \in BOOLEAN
        /\ mRowsSync' \in [Tables -> Threads \cup {None}]
        /\ mIndexesSync' \in [Tables -> Threads \cup {None}]
    BY <1>1 DEF Shaped, dbVars, lockVars, contents, Simple, Calling, Idle, RemoveKey, Goto
  <2>2. /\ mRowModified' \in [Tables -> BOOLEAN]
        /\ mLockInProgress' \in [Tables -> BOOLEAN]
        /\ acquired' \in [Tables -> Threads \cup {None}]
    BY <1>1 DEF Shaped, dbVars, lockVars, contents, Simple, Calling, Idle, RemoveKey, Goto
  <2>3. mem' \in [Tables -> Data]
    <3>1. c.tb \in Tables /\ mem[c.tb].keys \ {<<c.old, c.row>>} \in AnyKeys
      BY <1>1 DEF RemoveKey, Shaped, Data, AnyKeys
    <3>2. mem' = [mem EXCEPT ![c.tb].keys = mem[c.tb].keys \ {<<c.old, c.row>>}]
      BY DEF RemoveKey
    <3> QED
      BY <1>1, <3>1, <3>2, KeysShape DEF Shaped
  <2>4. disk' \in [Tables -> Files]
    BY <1>1, <1>2 DEF Shaped, Placed, Files, dbVars, lockVars, contents, Simple, Calling, Idle, RemoveKey, Goto
  <2>5. call' \in [Threads -> Calls]
    BY <1>1, <1>2, TableSyncAssumption DEF Shaped, Placed, Calls, Steps, AllOps, dbVars, lockVars, contents, Simple, Calling, Idle, RemoveKey, Goto
  <2> QED
    BY <2>1, <2>2, <2>3, <2>4, <2>5 DEF Shaped
<1>4. Leaves(t)
  <2>1. \A u \in Threads \ {t} : call'[u] = call[u]
    BY <1>1 DEF Shaped, dbVars, lockVars, contents, Simple, Calling, Idle, RemoveKey, Goto
  <2>2. mSync' = mSync \/ mSync \in {None, t}
    BY <1>1, <1>2 DEF Placed, WithDatabase, dbVars, lockVars, contents, Simple, Calling, Idle, RemoveKey, Goto
  <2>3. \A x \in Tables :
          /\ mRowsSync'[x] = mRowsSync[x] \/ mRowsSync[x] \in {None, t}
          /\ mIndexesSync'[x] = mIndexesSync[x] \/ mIndexesSync[x] \in {None, t}
    BY <1>1, <1>2 DEF Shaped, Placed, WithRows, WithIndexes, Sorting, dbVars, lockVars, contents, Simple, Calling, Idle, RemoveKey, Goto
  <2>4. \A x \in Tables :
          /\ acquired'[x] = acquired[x] \/ acquired[x] \in {None, t}
          /\ acquired'[x] \in {acquired[x], None} \/ mIndexesSync[x] = None
    BY <1>1, <1>2 DEF Shaped, Placed, WithField, dbVars, lockVars, contents, Simple, Calling, Idle, RemoveKey, Goto
  <2>5. \A x \in Tables :
          \/ mem'[x].indexed = mem[x].indexed
          \/ mem'[x].indexed /\ mRowsSync[x] = None
          \/ acquired[x] = None /\ mRowsSync[x] = t
    BY <1>1, <1>2 DEF Shaped, Placed, WithRows, Data, dbVars, lockVars, contents, Simple, Calling, Idle, RemoveKey, Goto
  <2> QED
    BY <2>1, <2>2, <2>3, <2>4, <2>5 DEF Leaves
<1>5. Placed(call'[t])
  BY <1>1, <1>2 DEF Shaped, Placed, Calls, dbVars, lockVars, contents, Simple, Calling, Idle, RemoveKey, Goto
<1>6. Locked(t)' /\ Sees(t)'
  BY <1>1, <1>2, <1>5 DEF Shaped, Placed, Sees, Locked, Calls, Data, WithRows, WithIndexes, WithField, WithDatabase, Sorting, dbVars, lockVars, contents, Simple, Calling, Idle, RemoveKey, Goto
<1> QED
  BY <1>3, <1>4, <1>5, <1>6, StepOf

LEMMA InsertKeyIInv ==
    ASSUME IInv, NEW t \in Threads, InsertKey(t)
    PROVE  IInv'
<1> DEFINE c == call[t]
<1>1. /\ Shaped /\ c \in Calls /\ None # t
      /\ c.pc \notin {"idle", "nextTable"} => c.tb \in Tables
      /\ WithRows(c)     => mRowsSync[c.tb] = t
      /\ WithIndexes(c)  => mIndexesSync[c.tb] = t
      /\ WithField(c)    => acquired[c.tb] = t
      /\ WithDatabase(c) => mSync = t
  BY TableSyncAssumption DEF IInv, Shaped, Placed, Locked
<1>2. Placed(c) /\ Sees(t)
  BY DEF IInv
<1>3. Shaped'
  <2>1. /\ mSync' \in Threads \cup {None} /\ mNeedsSync' \in BOOLEAN /\ notClosed' \in BOOLEAN
        /\ mRowsSync' \in [Tables -> Threads \cup {None}]
        /\ mIndexesSync' \in [Tables -> Threads \cup {None}]
    BY <1>1 DEF Shaped, dbVars, lockVars, contents, Simple, Calling, Idle, InsertKey, Goto, RowStored, FreeRows, ThreadSafe
  <2>2. /\ mRowModified' \in [Tables -> BOOLEAN]
        /\ mLockInProgress' \in [Tables -> BOOLEAN]
        /\ acquired' \in [Tables -> Threads \cup {None}]
    BY <1>1 DEF Shaped, dbVars, lockVars, contents, Simple, Calling, Idle, InsertKey, Goto, RowStored, FreeRows, ThreadSafe
  <2>3. mem' \in [Tables -> Data]
    <3>1. c.tb \in Tables /\ mem[c.tb].keys \cup {<<c.val, c.row>>} \in AnyKeys
      <4>1. c.tb \in Tables /\ c.val \in Values /\ c.row \in Nat \cup {None}
        BY <1>1, TableSyncAssumption DEF InsertKey, Calls, Rows
      <4> QED
        BY <4>1, <1>1 DEF Shaped, Data, AnyKeys
    <3>2. mem' = [mem EXCEPT ![c.tb].keys = mem[c.tb].keys \cup {<<c.val, c.row>>}]
      BY DEF InsertKey
    <3> QED
      BY <1>1, <3>1, <3>2, KeysShape DEF Shaped
  <2>4. disk' \in [Tables -> Files]
    BY <1>1, <1>2 DEF Shaped, Placed, Files, dbVars, lockVars, contents, Simple, Calling, Idle, InsertKey, Goto, RowStored, FreeRows, ThreadSafe
  <2>5. call' \in [Threads -> Calls]
    <3>1. CASE ThreadSafe(t)
      <4>1. Goto(t, "relock")
        BY <3>1 DEF InsertKey
      <4> QED
        BY <4>1, <1>1, GotoShape DEF Shaped, Steps
    <3>2. CASE ~ThreadSafe(t)
      BY <3>2, <1>1, RowStoredTyped DEF Shaped, InsertKey
    <3> QED
      BY <3>1, <3>2
  <2> QED
    BY <2>1, <2>2, <2>3, <2>4, <2>5 DEF Shaped
<1>4. Leaves(t)
  <2>1. \A u \in Threads \ {t} : call'[u] = call[u]
    BY <1>1 DEF Shaped, dbVars, lockVars, contents, Simple, Calling, Idle, InsertKey, Goto, RowStored, FreeRows, ThreadSafe
  <2>2. mSync' = mSync \/ mSync \in {None, t}
    BY <1>1, <1>2 DEF Placed, WithDatabase, dbVars, lockVars, contents, Simple, Calling, Idle, InsertKey, Goto, RowStored, FreeRows, ThreadSafe
  <2>3. \A x \in Tables :
          /\ mRowsSync'[x] = mRowsSync[x] \/ mRowsSync[x] \in {None, t}
          /\ mIndexesSync'[x] = mIndexesSync[x] \/ mIndexesSync[x] \in {None, t}
    BY <1>1, <1>2 DEF Shaped, Placed, WithRows, WithIndexes, Sorting, dbVars, lockVars, contents, Simple, Calling, Idle, InsertKey, Goto, RowStored, FreeRows, ThreadSafe
  <2>4. \A x \in Tables :
          /\ acquired'[x] = acquired[x] \/ acquired[x] \in {None, t}
          /\ acquired'[x] \in {acquired[x], None} \/ mIndexesSync[x] = None
    BY <1>1, <1>2 DEF Shaped, Placed, WithField, dbVars, lockVars, contents, Simple, Calling, Idle, InsertKey, Goto, RowStored, FreeRows, ThreadSafe
  <2>5. \A x \in Tables :
          \/ mem'[x].indexed = mem[x].indexed
          \/ mem'[x].indexed /\ mRowsSync[x] = None
          \/ acquired[x] = None /\ mRowsSync[x] = t
    BY <1>1, <1>2 DEF Shaped, Placed, WithRows, Data, dbVars, lockVars, contents, Simple, Calling, Idle, InsertKey, Goto, RowStored, FreeRows, ThreadSafe
  <2> QED
    BY <2>1, <2>2, <2>3, <2>4, <2>5 DEF Leaves
<1>5. Placed(call'[t])
  <2>1. c.pc = "insert" /\ c.op \in {"set", "exchange", "sort"} /\ c.tb \in Tables
    BY <1>2 DEF InsertKey, Placed
  <2>2. CASE ThreadSafe(t)
    <3>1. Goto(t, "relock") /\ c.op = "set"
      BY <2>1, <2>2 DEF InsertKey, ThreadSafe
    <3> QED
      BY <2>1, <3>1, <1>1, <1>2, GotoShape DEF Shaped, Placed, Steps
  <2>3. CASE ~ThreadSafe(t) /\ c.other # None
    <3>1. call' = [call EXCEPT ![t] = Calling(c.op, "mark", c.tb, c.other, c.old, c.val, None, {})]
      BY <2>3 DEF InsertKey, RowStored
    <3>2. call'[t].pc = "mark" /\ call'[t].op = c.op /\ call'[t].tb = c.tb
      BY <3>1, <1>1 DEF Shaped, Calling
    <3> QED
      BY <2>1, <3>2, <1>2 DEF Placed
  <2>4. CASE ~ThreadSafe(t) /\ c.other = None /\ c.op = "sort"
    <3>1. call'[t].pc = "locked" /\ call'[t].op = "sort" /\ call'[t].tb = c.tb
      BY <2>4, <1>1 DEF Shaped, InsertKey, RowStored, Simple, Calling
    <3> QED
      BY <2>1, <3>1 DEF Placed
  <2>5. CASE ~ThreadSafe(t) /\ c.other = None /\ c.op # "sort"
    <3>1. call' = [call EXCEPT ![t] = Idle]
      BY <2>5 DEF InsertKey, RowStored
    <3>2. call'[t].pc = "idle" /\ call'[t].op = "idle"
      BY <3>1, <1>1, IdleShape DEF Shaped
    <3> QED
      BY <3>2 DEF Placed
  <2> QED
    BY <2>2, <2>3, <2>4, <2>5
<1>6. Locked(t)' /\ Sees(t)'
  BY <1>1, <1>2, <1>5 DEF Shaped, Placed, Sees, Locked, Calls, Data, WithRows, WithIndexes, WithField, WithDatabase, Sorting, dbVars, lockVars, contents, Simple, Calling, Idle, InsertKey, Goto, RowStored, FreeRows, ThreadSafe
<1> QED
  BY <1>3, <1>4, <1>5, <1>6, StepOf

LEMMA RelockIInv ==
    ASSUME IInv, NEW t \in Threads, Relock(t)
    PROVE  IInv'
<1> DEFINE c == call[t]
<1>1. /\ Shaped /\ c \in Calls /\ None # t
      /\ c.pc \notin {"idle", "nextTable"} => c.tb \in Tables
      /\ WithRows(c)     => mRowsSync[c.tb] = t
      /\ WithIndexes(c)  => mIndexesSync[c.tb] = t
      /\ WithField(c)    => acquired[c.tb] = t
      /\ WithDatabase(c) => mSync = t
  BY TableSyncAssumption DEF IInv, Shaped, Placed, Locked
<1>2. Placed(c) /\ Sees(t)
  BY DEF IInv
<1>3. Shaped'
  BY <1>1, <1>2, TableSyncAssumption DEF Shaped, Placed, Calls, Steps, AllOps, Data, Files, dbVars, lockVars, contents, Simple, Calling, Idle, Relock
<1>4. Leaves(t)
  <2>1. \A u \in Threads \ {t} : call'[u] = call[u]
    BY <1>1 DEF Shaped, dbVars, lockVars, contents, Simple, Calling, Idle, Relock
  <2>2. mSync' = mSync \/ mSync \in {None, t}
    BY <1>1, <1>2 DEF Placed, WithDatabase, dbVars, lockVars, contents, Simple, Calling, Idle, Relock
  <2>3. \A x \in Tables :
          /\ mRowsSync'[x] = mRowsSync[x] \/ mRowsSync[x] \in {None, t}
          /\ mIndexesSync'[x] = mIndexesSync[x] \/ mIndexesSync[x] \in {None, t}
    BY <1>1, <1>2 DEF Shaped, Placed, WithRows, WithIndexes, Sorting, dbVars, lockVars, contents, Simple, Calling, Idle, Relock
  <2>4. \A x \in Tables :
          /\ acquired'[x] = acquired[x] \/ acquired[x] \in {None, t}
          /\ acquired'[x] \in {acquired[x], None} \/ mIndexesSync[x] = None
    BY <1>1, <1>2 DEF Shaped, Placed, WithField, dbVars, lockVars, contents, Simple, Calling, Idle, Relock
  <2>5. \A x \in Tables :
          \/ mem'[x].indexed = mem[x].indexed
          \/ mem'[x].indexed /\ mRowsSync[x] = None
          \/ acquired[x] = None /\ mRowsSync[x] = t
    BY <1>1, <1>2 DEF Shaped, Placed, WithRows, Data, dbVars, lockVars, contents, Simple, Calling, Idle, Relock
  <2> QED
    BY <2>1, <2>2, <2>3, <2>4, <2>5 DEF Leaves
<1>5. Placed(call'[t])
  BY <1>1, <1>2 DEF Shaped, Placed, Calls, dbVars, lockVars, contents, Simple, Calling, Idle, Relock
<1>6. Locked(t)' /\ Sees(t)'
  BY <1>1, <1>2, <1>5 DEF Shaped, Placed, Sees, Locked, Calls, Data, WithRows, WithIndexes, WithField, WithDatabase, Sorting, dbVars, lockVars, contents, Simple, Calling, Idle, Relock
<1> QED
  BY <1>3, <1>4, <1>5, <1>6, StepOf

LEMMA MatchRowsWithIndexIInv ==
    ASSUME IInv, NEW t \in Threads, MatchRowsWithIndex(t)
    PROVE  IInv'
<1> DEFINE c == call[t]
<1>1. /\ Shaped /\ c \in Calls /\ None # t
      /\ c.pc \notin {"idle", "nextTable"} => c.tb \in Tables
      /\ WithRows(c)     => mRowsSync[c.tb] = t
      /\ WithIndexes(c)  => mIndexesSync[c.tb] = t
      /\ WithField(c)    => acquired[c.tb] = t
      /\ WithDatabase(c) => mSync = t
  BY TableSyncAssumption DEF IInv, Shaped, Placed, Locked
<1>2. Placed(c) /\ Sees(t)
  BY DEF IInv
<1>3. Shaped'
  <2>1. /\ mSync' \in Threads \cup {None} /\ mNeedsSync' \in BOOLEAN /\ notClosed' \in BOOLEAN
        /\ mRowsSync' \in [Tables -> Threads \cup {None}]
        /\ mIndexesSync' \in [Tables -> Threads \cup {None}]
    BY <1>1 DEF Shaped, dbVars, lockVars, contents, Simple, Calling, Idle, MatchRowsWithIndex, Goto, Acquirable
  <2>2. /\ mRowModified' \in [Tables -> BOOLEAN]
        /\ mLockInProgress' \in [Tables -> BOOLEAN]
        /\ acquired' \in [Tables -> Threads \cup {None}]
    BY <1>1 DEF Shaped, dbVars, lockVars, contents, Simple, Calling, Idle, MatchRowsWithIndex, Goto, Acquirable
  <2>3. mem' \in [Tables -> Data]
    BY <1>1, <1>2 DEF Shaped, Calls, Data, Placed, dbVars, lockVars, contents, Simple, Calling, Idle, MatchRowsWithIndex, Goto, Acquirable
  <2>4. disk' \in [Tables -> Files]
    BY <1>1, <1>2 DEF Shaped, Placed, Files, dbVars, lockVars, contents, Simple, Calling, Idle, MatchRowsWithIndex, Goto, Acquirable
  <2>5. call' \in [Threads -> Calls]
    <3>1. \/ \E pc \in Steps : Goto(t, pc)
          \/ call' = [call EXCEPT ![t] = Idle]
      BY DEF MatchRowsWithIndex, Steps
    <3> QED
      BY <3>1, <1>1, GotoShape, IdleShape DEF Shaped
  <2> QED
    BY <2>1, <2>2, <2>3, <2>4, <2>5 DEF Shaped
<1>4. Leaves(t)
  <2>1. \A u \in Threads \ {t} : call'[u] = call[u]
    BY <1>1 DEF Shaped, dbVars, lockVars, contents, Simple, Calling, Idle, MatchRowsWithIndex, Goto, Acquirable
  <2>2. mSync' = mSync \/ mSync \in {None, t}
    BY <1>1, <1>2 DEF Placed, WithDatabase, dbVars, lockVars, contents, Simple, Calling, Idle, MatchRowsWithIndex, Goto, Acquirable
  <2>3. \A x \in Tables :
          /\ mRowsSync'[x] = mRowsSync[x] \/ mRowsSync[x] \in {None, t}
          /\ mIndexesSync'[x] = mIndexesSync[x] \/ mIndexesSync[x] \in {None, t}
    BY <1>1, <1>2 DEF Shaped, Placed, WithRows, WithIndexes, Sorting, dbVars, lockVars, contents, Simple, Calling, Idle, MatchRowsWithIndex, Goto, Acquirable
  <2>4. \A x \in Tables :
          /\ acquired'[x] = acquired[x] \/ acquired[x] \in {None, t}
          /\ acquired'[x] \in {acquired[x], None} \/ mIndexesSync[x] = None
    BY <1>1, <1>2 DEF Shaped, Placed, WithField, dbVars, lockVars, contents, Simple, Calling, Idle, MatchRowsWithIndex, Goto, Acquirable
  <2>5. \A x \in Tables :
          \/ mem'[x].indexed = mem[x].indexed
          \/ mem'[x].indexed /\ mRowsSync[x] = None
          \/ acquired[x] = None /\ mRowsSync[x] = t
    BY <1>1, <1>2 DEF Shaped, Placed, WithRows, Data, dbVars, lockVars, contents, Simple, Calling, Idle, MatchRowsWithIndex, Goto, Acquirable
  <2> QED
    BY <2>1, <2>2, <2>3, <2>4, <2>5 DEF Leaves
<1>5. Placed(call'[t])
  BY <1>1, <1>2 DEF Shaped, Placed, Calls, dbVars, lockVars, contents, Simple, Calling, Idle, MatchRowsWithIndex, Goto, Acquirable
<1>6. Locked(t)' /\ Sees(t)'
  <2>1. c.op = "match" /\ c.tb \in Tables /\ mSync' = mSync
    BY <1>2 DEF MatchRowsWithIndex, Placed, dbVars
  <2>2. CASE c.pc = "match"
    <3>1. call'[t].pc = "matchAcquire" /\ call'[t].op = "match"
      BY <2>1, <2>2, <1>1, GotoShape DEF Shaped, MatchRowsWithIndex, Steps
    <3> QED
      BY <3>1 DEF Locked, Sees, WithRows, WithIndexes, WithField, WithDatabase, Sorting
  <2>3. CASE c.pc = "matchAcquire"
    <3>1. Goto(t, "matching") /\ acquired' = [acquired EXCEPT ![c.tb] = t]
      BY <2>3 DEF MatchRowsWithIndex
    <3>2. call'[t].pc = "matching" /\ call'[t].op = "match" /\ call'[t].tb = c.tb
      BY <2>1, <3>1, <1>1, GotoShape DEF Shaped, Steps
    <3> QED
      BY <2>1, <3>1, <3>2, <1>1 DEF Shaped, Locked, Sees, WithRows, WithIndexes, WithField, WithDatabase, Sorting
  <2>4. CASE c.pc = "matching"
    <3>1. call' = [call EXCEPT ![t] = Idle]
      BY <2>4 DEF MatchRowsWithIndex
    <3>2. call'[t].pc = "idle" /\ call'[t].op = "idle"
      BY <3>1, <1>1, IdleShape DEF Shaped
    <3> QED
      BY <3>2 DEF Locked, Sees, WithRows, WithIndexes, WithField, WithDatabase, Sorting
  <2> QED
    BY <2>2, <2>3, <2>4 DEF MatchRowsWithIndex
<1> QED
  BY <1>3, <1>4, <1>5, <1>6, StepOf

LEMMA DropIndexIInv ==
    ASSUME IInv, NEW t \in Threads, DropIndex(t)
    PROVE  IInv'
<1> DEFINE c == call[t]
<1>1. /\ Shaped /\ c \in Calls /\ None # t
      /\ c.pc \notin {"idle", "nextTable"} => c.tb \in Tables
      /\ WithRows(c)     => mRowsSync[c.tb] = t
      /\ WithIndexes(c)  => mIndexesSync[c.tb] = t
      /\ WithField(c)    => acquired[c.tb] = t
      /\ WithDatabase(c) => mSync = t
  BY TableSyncAssumption DEF IInv, Shaped, Placed, Locked
<1>2. Placed(c) /\ Sees(t)
  BY DEF IInv
<1>3. Shaped'
  <2>1. /\ mSync' \in Threads \cup {None} /\ mNeedsSync' \in BOOLEAN /\ notClosed' \in BOOLEAN
        /\ mRowsSync' \in [Tables -> Threads \cup {None}]
        /\ mIndexesSync' \in [Tables -> Threads \cup {None}]
    BY <1>1 DEF Shaped, dbVars, lockVars, contents, Simple, Calling, Idle, DropIndex, FreeRows, Acquirable
  <2>2. /\ mRowModified' \in [Tables -> BOOLEAN]
        /\ mLockInProgress' \in [Tables -> BOOLEAN]
        /\ acquired' \in [Tables -> Threads \cup {None}]
    BY <1>1 DEF Shaped, dbVars, lockVars, contents, Simple, Calling, Idle, DropIndex, FreeRows, Acquirable
  <2>3. mem' \in [Tables -> Data]
    BY <1>1, IndexShape DEF Shaped, DropIndex, AnyKeys
  <2>4. disk' \in [Tables -> Files]
    BY <1>1, HeaderDropShape DEF Shaped, DropIndex
  <2>5. call' \in [Threads -> Calls]
    BY <1>1, <1>2, TableSyncAssumption DEF Shaped, Placed, Calls, Steps, AllOps, dbVars, lockVars, contents, Simple, Calling, Idle, DropIndex, FreeRows, Acquirable
  <2> QED
    BY <2>1, <2>2, <2>3, <2>4, <2>5 DEF Shaped
<1>4. Leaves(t)
  <2>1. \A u \in Threads \ {t} : call'[u] = call[u]
    BY <1>1 DEF Shaped, dbVars, lockVars, contents, Simple, Calling, Idle, DropIndex, FreeRows, Acquirable
  <2>2. mSync' = mSync \/ mSync \in {None, t}
    BY <1>1, <1>2 DEF Placed, WithDatabase, dbVars, lockVars, contents, Simple, Calling, Idle, DropIndex, FreeRows, Acquirable
  <2>3. \A x \in Tables :
          /\ mRowsSync'[x] = mRowsSync[x] \/ mRowsSync[x] \in {None, t}
          /\ mIndexesSync'[x] = mIndexesSync[x] \/ mIndexesSync[x] \in {None, t}
    BY <1>1, <1>2 DEF Shaped, Placed, WithRows, WithIndexes, Sorting, dbVars, lockVars, contents, Simple, Calling, Idle, DropIndex, FreeRows, Acquirable
  <2>4. \A x \in Tables :
          /\ acquired'[x] = acquired[x] \/ acquired[x] \in {None, t}
          /\ acquired'[x] \in {acquired[x], None} \/ mIndexesSync[x] = None
    BY <1>1, <1>2 DEF Shaped, Placed, WithField, dbVars, lockVars, contents, Simple, Calling, Idle, DropIndex, FreeRows, Acquirable
  <2>5. \A x \in Tables :
          \/ mem'[x].indexed = mem[x].indexed
          \/ mem'[x].indexed /\ mRowsSync[x] = None
          \/ acquired[x] = None /\ mRowsSync[x] = t
    BY <1>1, <1>2 DEF Shaped, Placed, WithRows, Data, dbVars, lockVars, contents, Simple, Calling, Idle, DropIndex, FreeRows, Acquirable
  <2> QED
    BY <2>1, <2>2, <2>3, <2>4, <2>5 DEF Leaves
<1>5. Placed(call'[t])
  BY <1>1, <1>2 DEF Shaped, Placed, Calls, dbVars, lockVars, contents, Simple, Calling, Idle, DropIndex, FreeRows, Acquirable
<1>6. Locked(t)' /\ Sees(t)'
  BY <1>1, <1>2, <1>5 DEF Shaped, Placed, Sees, Locked, Calls, Data, WithRows, WithIndexes, WithField, WithDatabase, Sorting, dbVars, lockVars, contents, Simple, Calling, Idle, DropIndex, FreeRows, Acquirable
<1> QED
  BY <1>3, <1>4, <1>5, <1>6, StepOf

LEMMA NextTableIInv ==
    ASSUME IInv, NEW t \in Threads, NextTable(t)
    PROVE  IInv'
<1> DEFINE c == call[t]
<1>1. /\ Shaped /\ c \in Calls /\ None # t
      /\ c.pc \notin {"idle", "nextTable"} => c.tb \in Tables
      /\ WithRows(c)     => mRowsSync[c.tb] = t
      /\ WithIndexes(c)  => mIndexesSync[c.tb] = t
      /\ WithField(c)    => acquired[c.tb] = t
      /\ WithDatabase(c) => mSync = t
  BY TableSyncAssumption DEF IInv, Shaped, Placed, Locked
<1>2. Placed(c) /\ Sees(t)
  BY DEF IInv
<1>3. Shaped'
  <2>1. /\ mSync' \in Threads \cup {None} /\ mNeedsSync' \in BOOLEAN /\ notClosed' \in BOOLEAN
        /\ mRowsSync' \in [Tables -> Threads \cup {None}]
        /\ mIndexesSync' \in [Tables -> Threads \cup {None}]
    BY <1>1 DEF Shaped, dbVars, lockVars, contents, Simple, Calling, Idle, NextTable
  <2>2. /\ mRowModified' \in [Tables -> BOOLEAN]
        /\ mLockInProgress' \in [Tables -> BOOLEAN]
        /\ acquired' \in [Tables -> Threads \cup {None}]
    BY <1>1 DEF Shaped, dbVars, lockVars, contents, Simple, Calling, Idle, NextTable
  <2>3. mem' \in [Tables -> Data]
    BY <1>1, <1>2 DEF Shaped, Calls, Data, Placed, dbVars, lockVars, contents, Simple, Calling, Idle, NextTable
  <2>4. disk' \in [Tables -> Files]
    BY <1>1, <1>2 DEF Shaped, Placed, Files, dbVars, lockVars, contents, Simple, Calling, Idle, NextTable
  <2>5. call' \in [Threads -> Calls]
    BY <1>1, <1>2, TableSyncAssumption DEF Shaped, Placed, Calls, Steps, AllOps, dbVars, lockVars, contents, Simple, Calling, Idle, NextTable
  <2> QED
    BY <2>1, <2>2, <2>3, <2>4, <2>5 DEF Shaped
<1>4. Leaves(t)
  <2>1. \A u \in Threads \ {t} : call'[u] = call[u]
    BY <1>1 DEF Shaped, dbVars, lockVars, contents, Simple, Calling, Idle, NextTable
  <2>2. mSync' = mSync \/ mSync \in {None, t}
    BY <1>1, <1>2 DEF Placed, WithDatabase, dbVars, lockVars, contents, Simple, Calling, Idle, NextTable
  <2>3. \A x \in Tables :
          /\ mRowsSync'[x] = mRowsSync[x] \/ mRowsSync[x] \in {None, t}
          /\ mIndexesSync'[x] = mIndexesSync[x] \/ mIndexesSync[x] \in {None, t}
    BY <1>1, <1>2 DEF Shaped, Placed, WithRows, WithIndexes, Sorting, dbVars, lockVars, contents, Simple, Calling, Idle, NextTable
  <2>4. \A x \in Tables :
          /\ acquired'[x] = acquired[x] \/ acquired[x] \in {None, t}
          /\ acquired'[x] \in {acquired[x], None} \/ mIndexesSync[x] = None
    BY <1>1, <1>2 DEF Shaped, Placed, WithField, dbVars, lockVars, contents, Simple, Calling, Idle, NextTable
  <2>5. \A x \in Tables :
          \/ mem'[x].indexed = mem[x].indexed
          \/ mem'[x].indexed /\ mRowsSync[x] = None
          \/ acquired[x] = None /\ mRowsSync[x] = t
    BY <1>1, <1>2 DEF Shaped, Placed, WithRows, Data, dbVars, lockVars, contents, Simple, Calling, Idle, NextTable
  <2> QED
    BY <2>1, <2>2, <2>3, <2>4, <2>5 DEF Leaves
<1>5. Placed(call'[t])
  BY <1>1, <1>2 DEF Shaped, Placed, Calls, dbVars, lockVars, contents, Simple, Calling, Idle, NextTable
<1>6. Locked(t)' /\ Sees(t)'
  BY <1>1, <1>2, <1>5 DEF Shaped, Placed, Sees, Locked, Calls, Data, WithRows, WithIndexes, WithField, WithDatabase, Sorting, dbVars, lockVars, contents, Simple, Calling, Idle, NextTable
<1> QED
  BY <1>3, <1>4, <1>5, <1>6, StepOf

LEMMA SyncAllDoneIInv ==
    ASSUME IInv, NEW t \in Threads, SyncAllDone(t)
    PROVE  IInv'
<1> DEFINE c == call[t]
<1>1. /\ Shaped /\ c \in Calls /\ None # t
      /\ c.pc \notin {"idle", "nextTable"} => c.tb \in Tables
      /\ WithRows(c)     => mRowsSync[c.tb] = t
      /\ WithIndexes(c)  => mIndexesSync[c.tb] = t
      /\ WithField(c)    => acquired[c.tb] = t
      /\ WithDatabase(c) => mSync = t
  BY TableSyncAssumption DEF IInv, Shaped, Placed, Locked
<1>2. Placed(c) /\ Sees(t)
  BY DEF IInv
<1>3. Shaped'
  BY <1>1, <1>2, TableSyncAssumption DEF Shaped, Placed, Calls, Steps, AllOps, Data, Files, dbVars, lockVars, contents, Simple, Calling, Idle, SyncAllDone
<1>4. Leaves(t)
  <2>1. \A u \in Threads \ {t} : call'[u] = call[u]
    BY <1>1 DEF Shaped, dbVars, lockVars, contents, Simple, Calling, Idle, SyncAllDone
  <2>2. mSync' = mSync \/ mSync \in {None, t}
    BY <1>1, <1>2 DEF Placed, WithDatabase, dbVars, lockVars, contents, Simple, Calling, Idle, SyncAllDone
  <2>3. \A x \in Tables :
          /\ mRowsSync'[x] = mRowsSync[x] \/ mRowsSync[x] \in {None, t}
          /\ mIndexesSync'[x] = mIndexesSync[x] \/ mIndexesSync[x] \in {None, t}
    BY <1>1, <1>2 DEF Shaped, Placed, WithRows, WithIndexes, Sorting, dbVars, lockVars, contents, Simple, Calling, Idle, SyncAllDone
  <2>4. \A x \in Tables :
          /\ acquired'[x] = acquired[x] \/ acquired[x] \in {None, t}
          /\ acquired'[x] \in {acquired[x], None} \/ mIndexesSync[x] = None
    BY <1>1, <1>2 DEF Shaped, Placed, WithField, dbVars, lockVars, contents, Simple, Calling, Idle, SyncAllDone
  <2>5. \A x \in Tables :
          \/ mem'[x].indexed = mem[x].indexed
          \/ mem'[x].indexed /\ mRowsSync[x] = None
          \/ acquired[x] = None /\ mRowsSync[x] = t
    BY <1>1, <1>2 DEF Shaped, Placed, WithRows, Data, dbVars, lockVars, contents, Simple, Calling, Idle, SyncAllDone
  <2> QED
    BY <2>1, <2>2, <2>3, <2>4, <2>5 DEF Leaves
<1>5. Placed(call'[t])
  BY <1>1, <1>2 DEF Shaped, Placed, Calls, dbVars, lockVars, contents, Simple, Calling, Idle, SyncAllDone
<1>6. Locked(t)' /\ Sees(t)'
  BY <1>1, <1>2, <1>5 DEF Shaped, Placed, Sees, Locked, Calls, Data, WithRows, WithIndexes, WithField, WithDatabase, Sorting, dbVars, lockVars, contents, Simple, Calling, Idle, SyncAllDone
<1> QED
  BY <1>3, <1>4, <1>5, <1>6, StepOf

LEMMA FlushLockRowsIInv ==
    ASSUME IInv, NEW t \in Threads, FlushLockRows(t)
    PROVE  IInv'
<1> DEFINE c == call[t]
<1>1. /\ Shaped /\ c \in Calls /\ None # t
      /\ c.pc \notin {"idle", "nextTable"} => c.tb \in Tables
      /\ WithRows(c)     => mRowsSync[c.tb] = t
      /\ WithIndexes(c)  => mIndexesSync[c.tb] = t
      /\ WithField(c)    => acquired[c.tb] = t
      /\ WithDatabase(c) => mSync = t
  BY TableSyncAssumption DEF IInv, Shaped, Placed, Locked
<1>2. Placed(c) /\ Sees(t)
  BY DEF IInv
<1>3. Shaped'
  BY ZenonT(30), <1>1, <1>2, TableSyncAssumption DEF Shaped, Placed, Calls, Steps, AllOps, Data, Files, dbVars, lockVars, contents, Simple, Calling, Idle, FlushLockRows, Goto, TakeRows
<1>4. Leaves(t)
  <2>1. \A u \in Threads \ {t} : call'[u] = call[u]
    BY <1>1 DEF Shaped, dbVars, lockVars, contents, Simple, Calling, Idle, FlushLockRows, Goto, TakeRows
  <2>2. mSync' = mSync \/ mSync \in {None, t}
    BY <1>1, <1>2 DEF Placed, WithDatabase, dbVars, lockVars, contents, Simple, Calling, Idle, FlushLockRows, Goto, TakeRows
  <2>3. \A x \in Tables :
          /\ mRowsSync'[x] = mRowsSync[x] \/ mRowsSync[x] \in {None, t}
          /\ mIndexesSync'[x] = mIndexesSync[x] \/ mIndexesSync[x] \in {None, t}
    BY <1>1, <1>2 DEF Shaped, Placed, WithRows, WithIndexes, Sorting, dbVars, lockVars, contents, Simple, Calling, Idle, FlushLockRows, Goto, TakeRows
  <2>4. \A x \in Tables :
          /\ acquired'[x] = acquired[x] \/ acquired[x] \in {None, t}
          /\ acquired'[x] \in {acquired[x], None} \/ mIndexesSync[x] = None
    BY <1>1, <1>2 DEF Shaped, Placed, WithField, dbVars, lockVars, contents, Simple, Calling, Idle, FlushLockRows, Goto, TakeRows
  <2>5. \A x \in Tables :
          \/ mem'[x].indexed = mem[x].indexed
          \/ mem'[x].indexed /\ mRowsSync[x] = None
          \/ acquired[x] = None /\ mRowsSync[x] = t
    BY <1>1, <1>2 DEF Shaped, Placed, WithRows, Data, dbVars, lockVars, contents, Simple, Calling, Idle, FlushLockRows, Goto, TakeRows
  <2> QED
    BY <2>1, <2>2, <2>3, <2>4, <2>5 DEF Leaves
<1>5. Placed(call'[t])
  BY <1>1, <1>2 DEF Shaped, Placed, Calls, dbVars, lockVars, contents, Simple, Calling, Idle, FlushLockRows, Goto, TakeRows
<1>6. Locked(t)' /\ Sees(t)'
  BY <1>1, <1>2, <1>5 DEF Shaped, Placed, Sees, Locked, Calls, Data, WithRows, WithIndexes, WithField, WithDatabase, Sorting, dbVars, lockVars, contents, Simple, Calling, Idle, FlushLockRows, Goto, TakeRows
<1> QED
  BY <1>3, <1>4, <1>5, <1>6, StepOf

LEMMA FlushLockIndexesIInv ==
    ASSUME IInv, NEW t \in Threads, FlushLockIndexes(t)
    PROVE  IInv'
<1> DEFINE c == call[t]
<1>1. /\ Shaped /\ c \in Calls /\ None # t
      /\ c.pc \notin {"idle", "nextTable"} => c.tb \in Tables
      /\ WithRows(c)     => mRowsSync[c.tb] = t
      /\ WithIndexes(c)  => mIndexesSync[c.tb] = t
      /\ WithField(c)    => acquired[c.tb] = t
      /\ WithDatabase(c) => mSync = t
  BY TableSyncAssumption DEF IInv, Shaped, Placed, Locked
<1>2. Placed(c) /\ Sees(t)
  BY DEF IInv
<1>3. Shaped'
  <2>1. /\ mSync' \in Threads \cup {None} /\ mNeedsSync' \in BOOLEAN /\ notClosed' \in BOOLEAN
        /\ mRowsSync' \in [Tables -> Threads \cup {None}]
        /\ mIndexesSync' \in [Tables -> Threads \cup {None}]
    BY <1>1 DEF Shaped, dbVars, lockVars, contents, Simple, Calling, Idle, FlushLockIndexes, Goto, FreeRows
  <2>2. /\ mRowModified' \in [Tables -> BOOLEAN]
        /\ mLockInProgress' \in [Tables -> BOOLEAN]
        /\ acquired' \in [Tables -> Threads \cup {None}]
    BY <1>1 DEF Shaped, dbVars, lockVars, contents, Simple, Calling, Idle, FlushLockIndexes, Goto, FreeRows
  <2>3. mem' \in [Tables -> Data]
    BY <1>1, <1>2 DEF Shaped, Calls, Data, Placed, dbVars, lockVars, contents, Simple, Calling, Idle, FlushLockIndexes, Goto, FreeRows
  <2>4. disk' \in [Tables -> Files]
    BY <1>1, <1>2 DEF Shaped, Placed, Files, dbVars, lockVars, contents, Simple, Calling, Idle, FlushLockIndexes, Goto, FreeRows
  <2>5. call' \in [Threads -> Calls]
    <3>1. \E pc \in Steps : Goto(t, pc)
      BY DEF FlushLockIndexes, Steps
    <3> QED
      BY <3>1, <1>1, GotoShape DEF Shaped
  <2> QED
    BY <2>1, <2>2, <2>3, <2>4, <2>5 DEF Shaped
<1>4. Leaves(t)
  <2>1. \A u \in Threads \ {t} : call'[u] = call[u]
    BY <1>1 DEF Shaped, dbVars, lockVars, contents, Simple, Calling, Idle, FlushLockIndexes, Goto, FreeRows
  <2>2. mSync' = mSync \/ mSync \in {None, t}
    BY <1>1, <1>2 DEF Placed, WithDatabase, dbVars, lockVars, contents, Simple, Calling, Idle, FlushLockIndexes, Goto, FreeRows
  <2>3. \A x \in Tables :
          /\ mRowsSync'[x] = mRowsSync[x] \/ mRowsSync[x] \in {None, t}
          /\ mIndexesSync'[x] = mIndexesSync[x] \/ mIndexesSync[x] \in {None, t}
    BY <1>1, <1>2 DEF Shaped, Placed, WithRows, WithIndexes, Sorting, dbVars, lockVars, contents, Simple, Calling, Idle, FlushLockIndexes, Goto, FreeRows
  <2>4. \A x \in Tables :
          /\ acquired'[x] = acquired[x] \/ acquired[x] \in {None, t}
          /\ acquired'[x] \in {acquired[x], None} \/ mIndexesSync[x] = None
    BY <1>1, <1>2 DEF Shaped, Placed, WithField, dbVars, lockVars, contents, Simple, Calling, Idle, FlushLockIndexes, Goto, FreeRows
  <2>5. \A x \in Tables :
          \/ mem'[x].indexed = mem[x].indexed
          \/ mem'[x].indexed /\ mRowsSync[x] = None
          \/ acquired[x] = None /\ mRowsSync[x] = t
    BY <1>1, <1>2 DEF Shaped, Placed, WithRows, Data, dbVars, lockVars, contents, Simple, Calling, Idle, FlushLockIndexes, Goto, FreeRows
  <2> QED
    BY <2>1, <2>2, <2>3, <2>4, <2>5 DEF Leaves
<1>5. Placed(call'[t])
  <2>1. Goto(t, "flush") \/ Goto(t, "flushRows")
    BY DEF FlushLockIndexes
  <2>2. c.pc = "flushIndexes"
    BY DEF FlushLockIndexes
  <2> QED
    BY <2>1, <2>2, <1>1, <1>2, GotoShape DEF Shaped, Placed, Steps
<1>6. Locked(t)' /\ Sees(t)'
  <2>1. CASE mIndexesSync[c.tb] = None
    <3>1. Goto(t, "flush") /\ mIndexesSync' = [mIndexesSync EXCEPT ![c.tb] = t]
      BY <2>1 DEF FlushLockIndexes
    <3>2. UNCHANGED <<mSync, mRowsSync, mem, acquired>> /\ c.pc = "flushIndexes" /\ c.op \in {"syncTable", "syncAll"}
      BY <2>1, <1>2 DEF FlushLockIndexes, dbVars, contents, Placed
    <3>3. call'[t].pc = "flush" /\ call'[t].op = c.op /\ call'[t].tb = c.tb
      BY <3>1, <1>1, GotoShape DEF Shaped, Steps
    <3> QED
      BY <3>1, <3>2, <3>3, <1>1 DEF Shaped, Locked, Sees, WithRows, WithIndexes, WithField, WithDatabase, Sorting
  <2>2. CASE mIndexesSync[c.tb] # None
    <3>1. Goto(t, "flushRows") /\ c.op \in {"syncTable", "syncAll"}
      BY <2>2, <1>2 DEF FlushLockIndexes, Placed
    <3>2. call'[t].pc = "flushRows" /\ call'[t].op = c.op /\ mSync' = mSync
      BY <3>1, <1>1, GotoShape DEF Shaped, Steps, FlushLockIndexes, dbVars
    <3> QED
      BY <3>1, <3>2, <1>1 DEF Locked, Sees, WithRows, WithIndexes, WithField, WithDatabase, Sorting
  <2> QED
    BY <2>1, <2>2
<1> QED
  BY <1>3, <1>4, <1>5, <1>6, StepOf

LEMMA FlushInternalIInv ==
    ASSUME IInv, NEW t \in Threads, FlushInternal(t)
    PROVE  IInv'
<1> DEFINE c == call[t]
<1>1. /\ Shaped /\ c \in Calls /\ None # t
      /\ c.pc \notin {"idle", "nextTable"} => c.tb \in Tables
      /\ WithRows(c)     => mRowsSync[c.tb] = t
      /\ WithIndexes(c)  => mIndexesSync[c.tb] = t
      /\ WithField(c)    => acquired[c.tb] = t
      /\ WithDatabase(c) => mSync = t
  BY TableSyncAssumption DEF IInv, Shaped, Placed, Locked
<1>2. Placed(c) /\ Sees(t)
  BY DEF IInv
<1>3. Shaped'
  <2>1. /\ mSync' \in Threads \cup {None} /\ mNeedsSync' \in BOOLEAN /\ notClosed' \in BOOLEAN
        /\ mRowsSync' \in [Tables -> Threads \cup {None}]
        /\ mIndexesSync' \in [Tables -> Threads \cup {None}]
    BY <1>1 DEF Shaped, dbVars, lockVars, contents, Simple, Calling, Idle, FlushInternal, Goto, FreeRows
  <2>2. /\ mRowModified' \in [Tables -> BOOLEAN]
        /\ mLockInProgress' \in [Tables -> BOOLEAN]
        /\ acquired' \in [Tables -> Threads \cup {None}]
    BY <1>1 DEF Shaped, dbVars, lockVars, contents, Simple, Calling, Idle, FlushInternal, Goto, FreeRows
  <2>3. mem' \in [Tables -> Data]
    BY <1>1, <1>2 DEF Shaped, Calls, Data, Placed, dbVars, lockVars, contents, Simple, Calling, Idle, FlushInternal, Goto, FreeRows
  <2>4. disk' \in [Tables -> Files]
    BY <1>1, <1>2 DEF Shaped, Placed, Files, dbVars, lockVars, contents, Simple, Calling, Idle, FlushInternal, Goto, FreeRows
  <2>5. call' \in [Threads -> Calls]
    <3>1. \/ \E pc \in Steps : Goto(t, pc)
          \/ call' = [call EXCEPT ![t] = Idle]
      BY DEF FlushInternal, Steps
    <3> QED
      BY <3>1, <1>1, GotoShape, IdleShape DEF Shaped
  <2> QED
    BY <2>1, <2>2, <2>3, <2>4, <2>5 DEF Shaped
<1>4. Leaves(t)
  <2>1. \A u \in Threads \ {t} : call'[u] = call[u]
    BY <1>1 DEF Shaped, dbVars, lockVars, contents, Simple, Calling, Idle, FlushInternal, Goto, FreeRows
  <2>2. mSync' = mSync \/ mSync \in {None, t}
    BY <1>1, <1>2 DEF Placed, WithDatabase, dbVars, lockVars, contents, Simple, Calling, Idle, FlushInternal, Goto, FreeRows
  <2>3. \A x \in Tables :
          /\ mRowsSync'[x] = mRowsSync[x] \/ mRowsSync[x] \in {None, t}
          /\ mIndexesSync'[x] = mIndexesSync[x] \/ mIndexesSync[x] \in {None, t}
    BY <1>1, <1>2 DEF Shaped, Placed, WithRows, WithIndexes, Sorting, dbVars, lockVars, contents, Simple, Calling, Idle, FlushInternal, Goto, FreeRows
  <2>4. \A x \in Tables :
          /\ acquired'[x] = acquired[x] \/ acquired[x] \in {None, t}
          /\ acquired'[x] \in {acquired[x], None} \/ mIndexesSync[x] = None
    BY <1>1, <1>2 DEF Shaped, Placed, WithField, dbVars, lockVars, contents, Simple, Calling, Idle, FlushInternal, Goto, FreeRows
  <2>5. \A x \in Tables :
          \/ mem'[x].indexed = mem[x].indexed
          \/ mem'[x].indexed /\ mRowsSync[x] = None
          \/ acquired[x] = None /\ mRowsSync[x] = t
    BY <1>1, <1>2 DEF Shaped, Placed, WithRows, Data, dbVars, lockVars, contents, Simple, Calling, Idle, FlushInternal, Goto, FreeRows
  <2> QED
    BY <2>1, <2>2, <2>3, <2>4, <2>5 DEF Leaves
<1>5. Placed(call'[t])
  <2>1. c.pc = "flush" /\ c.op \in {"sort", "syncAll", "syncTable"} /\ c.tb \in Tables
    BY <1>2 DEF FlushInternal, Placed
  <2>2. \/ c.op = "sort" /\ Goto(t, "locked")
        \/ c.op = "syncAll" /\ Goto(t, "nextTable")
        \/ call' = [call EXCEPT ![t] = Idle]
    BY <2>1 DEF FlushInternal
  <2> QED
    BY <2>1, <2>2, <1>1, <1>2, GotoShape, IdleShape DEF Shaped, Placed, Steps
<1>6. Locked(t)' /\ Sees(t)'
  <2>1. c.pc = "flush" /\ c.op \in {"sort", "syncAll", "syncTable"} /\ c.tb \in Tables
    BY <1>2 DEF FlushInternal, Placed
  <2>2. CASE c.op = "sort"
    <3>1. /\ Goto(t, "locked") /\ UNCHANGED <<mSync, mRowsSync, mIndexesSync, acquired, mem>>
          /\ mem[c.tb].indexed => acquired[c.tb] = None
      BY <2>1, <2>2 DEF FlushInternal
    <3>2. call'[t].pc = "locked" /\ call'[t].op = "sort" /\ call'[t].tb = c.tb
      BY <2>2, <3>1, <1>1, GotoShape DEF Shaped, Steps
    <3> QED
      BY <2>1, <3>1, <3>2, <1>1 DEF Locked, Sees, WithRows, WithIndexes, WithField, WithDatabase, Sorting
  <2>3. CASE c.op = "syncAll"
    <3>1. Goto(t, "nextTable") /\ mSync' = mSync
      BY <2>1, <2>3 DEF FlushInternal
    <3>2. call'[t].pc = "nextTable" /\ call'[t].op = "syncAll"
      BY <2>3, <3>1, <1>1, GotoShape DEF Shaped, Steps
    <3> QED
      BY <2>3, <3>1, <3>2, <1>1 DEF Locked, Sees, WithRows, WithIndexes, WithField, WithDatabase, Sorting
  <2>4. CASE c.op = "syncTable"
    <3>1. call'[t].pc = "idle" /\ call'[t].op = "idle"
      BY <2>1, <2>4, <1>1, IdleShape DEF Shaped, FlushInternal
    <3> QED
      BY <3>1 DEF Locked, Sees, WithRows, WithIndexes, WithField, WithDatabase, Sorting
  <2> QED
    BY <2>1, <2>2, <2>3, <2>4
<1> QED
  BY <1>3, <1>4, <1>5, <1>6, StepOf

LEMMA LockInProgressIInv ==
    ASSUME IInv, NEW t \in Threads, LockInProgress(t)
    PROVE  IInv'
<1> DEFINE c == call[t]
<1>1. /\ Shaped /\ c \in Calls /\ None # t
      /\ c.pc \notin {"idle", "nextTable"} => c.tb \in Tables
      /\ WithRows(c)     => mRowsSync[c.tb] = t
      /\ WithIndexes(c)  => mIndexesSync[c.tb] = t
      /\ WithField(c)    => acquired[c.tb] = t
      /\ WithDatabase(c) => mSync = t
  BY TableSyncAssumption DEF IInv, Shaped, Placed, Locked
<1>2. Placed(c) /\ Sees(t)
  BY DEF IInv
<1>3. Shaped'
  BY <1>1, <1>2, TableSyncAssumption DEF Shaped, Placed, Calls, Steps, AllOps, Data, Files, dbVars, lockVars, contents, Simple, Calling, Idle, LockInProgress, Goto
<1>4. Leaves(t)
  <2>1. \A u \in Threads \ {t} : call'[u] = call[u]
    BY <1>1 DEF Shaped, dbVars, lockVars, contents, Simple, Calling, Idle, LockInProgress, Goto
  <2>2. mSync' = mSync \/ mSync \in {None, t}
    BY <1>1, <1>2 DEF Placed, WithDatabase, dbVars, lockVars, contents, Simple, Calling, Idle, LockInProgress, Goto
  <2>3. \A x \in Tables :
          /\ mRowsSync'[x] = mRowsSync[x] \/ mRowsSync[x] \in {None, t}
          /\ mIndexesSync'[x] = mIndexesSync[x] \/ mIndexesSync[x] \in {None, t}
    BY <1>1, <1>2 DEF Shaped, Placed, WithRows, WithIndexes, Sorting, dbVars, lockVars, contents, Simple, Calling, Idle, LockInProgress, Goto
  <2>4. \A x \in Tables :
          /\ acquired'[x] = acquired[x] \/ acquired[x] \in {None, t}
          /\ acquired'[x] \in {acquired[x], None} \/ mIndexesSync[x] = None
    BY <1>1, <1>2 DEF Shaped, Placed, WithField, dbVars, lockVars, contents, Simple, Calling, Idle, LockInProgress, Goto
  <2>5. \A x \in Tables :
          \/ mem'[x].indexed = mem[x].indexed
          \/ mem'[x].indexed /\ mRowsSync[x] = None
          \/ acquired[x] = None /\ mRowsSync[x] = t
    BY <1>1, <1>2 DEF Shaped, Placed, WithRows, Data, dbVars, lockVars, contents, Simple, Calling, Idle, LockInProgress, Goto
  <2> QED
    BY <2>1, <2>2, <2>3, <2>4, <2>5 DEF Leaves
<1>5. Placed(call'[t])
  BY <1>1, <1>2 DEF Shaped, Placed, Calls, dbVars, lockVars, contents, Simple, Calling, Idle, LockInProgress, Goto
<1>6. Locked(t)' /\ Sees(t)'
  BY <1>1, <1>2, <1>5 DEF Shaped, Placed, Sees, Locked, Calls, Data, WithRows, WithIndexes, WithField, WithDatabase, Sorting, dbVars, lockVars, contents, Simple, Calling, Idle, LockInProgress, Goto
<1> QED
  BY <1>3, <1>4, <1>5, <1>6, StepOf

LEMMA LockRowsIInv ==
    ASSUME IInv, NEW t \in Threads, LockRows(t)
    PROVE  IInv'
<1> DEFINE c == call[t]
<1>1. /\ Shaped /\ c \in Calls /\ None # t
      /\ c.pc \notin {"idle", "nextTable"} => c.tb \in Tables
      /\ WithRows(c)     => mRowsSync[c.tb] = t
      /\ WithIndexes(c)  => mIndexesSync[c.tb] = t
      /\ WithField(c)    => acquired[c.tb] = t
      /\ WithDatabase(c) => mSync = t
  BY TableSyncAssumption DEF IInv, Shaped, Placed, Locked
<1>2. Placed(c) /\ Sees(t)
  BY DEF IInv
<1>3. Shaped'
  BY ZenonT(30), <1>1, <1>2, TableSyncAssumption DEF Shaped, Placed, Calls, Steps, AllOps, Data, Files, dbVars, lockVars, contents, Simple, Calling, Idle, LockRows, Goto, TakeRows
<1>4. Leaves(t)
  <2>1. \A u \in Threads \ {t} : call'[u] = call[u]
    BY <1>1 DEF Shaped, dbVars, lockVars, contents, Simple, Calling, Idle, LockRows, Goto, TakeRows
  <2>2. mSync' = mSync \/ mSync \in {None, t}
    BY <1>1, <1>2 DEF Placed, WithDatabase, dbVars, lockVars, contents, Simple, Calling, Idle, LockRows, Goto, TakeRows
  <2>3. \A x \in Tables :
          /\ mRowsSync'[x] = mRowsSync[x] \/ mRowsSync[x] \in {None, t}
          /\ mIndexesSync'[x] = mIndexesSync[x] \/ mIndexesSync[x] \in {None, t}
    BY <1>1, <1>2 DEF Shaped, Placed, WithRows, WithIndexes, Sorting, dbVars, lockVars, contents, Simple, Calling, Idle, LockRows, Goto, TakeRows
  <2>4. \A x \in Tables :
          /\ acquired'[x] = acquired[x] \/ acquired[x] \in {None, t}
          /\ acquired'[x] \in {acquired[x], None} \/ mIndexesSync[x] = None
    BY <1>1, <1>2 DEF Shaped, Placed, WithField, dbVars, lockVars, contents, Simple, Calling, Idle, LockRows, Goto, TakeRows
  <2>5. \A x \in Tables :
          \/ mem'[x].indexed = mem[x].indexed
          \/ mem'[x].indexed /\ mRowsSync[x] = None
          \/ acquired[x] = None /\ mRowsSync[x] = t
    BY <1>1, <1>2 DEF Shaped, Placed, WithRows, Data, dbVars, lockVars, contents, Simple, Calling, Idle, LockRows, Goto, TakeRows
  <2> QED
    BY <2>1, <2>2, <2>3, <2>4, <2>5 DEF Leaves
<1>5. Placed(call'[t])
  BY <1>1, <1>2 DEF Shaped, Placed, Calls, dbVars, lockVars, contents, Simple, Calling, Idle, LockRows, Goto, TakeRows
<1>6. Locked(t)' /\ Sees(t)'
  BY <1>1, <1>2, <1>5 DEF Shaped, Placed, Sees, Locked, Calls, Data, WithRows, WithIndexes, WithField, WithDatabase, Sorting, dbVars, lockVars, contents, Simple, Calling, Idle, LockRows, Goto, TakeRows
<1> QED
  BY <1>3, <1>4, <1>5, <1>6, StepOf

LEMMA LockIndexesIInv ==
    ASSUME IInv, NEW t \in Threads, LockIndexes(t)
    PROVE  IInv'
<1> DEFINE c == call[t]
<1>1. /\ Shaped /\ c \in Calls /\ None # t
      /\ c.pc \notin {"idle", "nextTable"} => c.tb \in Tables
      /\ WithRows(c)     => mRowsSync[c.tb] = t
      /\ WithIndexes(c)  => mIndexesSync[c.tb] = t
      /\ WithField(c)    => acquired[c.tb] = t
      /\ WithDatabase(c) => mSync = t
  BY TableSyncAssumption DEF IInv, Shaped, Placed, Locked
<1>2. Placed(c) /\ Sees(t)
  BY DEF IInv
<1>3. Shaped'
  BY ZenonT(30), <1>1, <1>2, TableSyncAssumption DEF Shaped, Placed, Calls, Steps, AllOps, Data, Files, dbVars, lockVars, contents, Simple, Calling, Idle, LockIndexes, Goto
<1>4. Leaves(t)
  <2>1. \A u \in Threads \ {t} : call'[u] = call[u]
    BY <1>1 DEF Shaped, dbVars, lockVars, contents, Simple, Calling, Idle, LockIndexes, Goto
  <2>2. mSync' = mSync \/ mSync \in {None, t}
    BY <1>1, <1>2 DEF Placed, WithDatabase, dbVars, lockVars, contents, Simple, Calling, Idle, LockIndexes, Goto
  <2>3. \A x \in Tables :
          /\ mRowsSync'[x] = mRowsSync[x] \/ mRowsSync[x] \in {None, t}
          /\ mIndexesSync'[x] = mIndexesSync[x] \/ mIndexesSync[x] \in {None, t}
    BY <1>1, <1>2 DEF Shaped, Placed, WithRows, WithIndexes, Sorting, dbVars, lockVars, contents, Simple, Calling, Idle, LockIndexes, Goto
  <2>4. \A x \in Tables :
          /\ acquired'[x] = acquired[x] \/ acquired[x] \in {None, t}
          /\ acquired'[x] \in {acquired[x], None} \/ mIndexesSync[x] = None
    BY <1>1, <1>2 DEF Shaped, Placed, WithField, dbVars, lockVars, contents, Simple, Calling, Idle, LockIndexes, Goto
  <2>5. \A x \in Tables :
          \/ mem'[x].indexed = mem[x].indexed
          \/ mem'[x].indexed /\ mRowsSync[x] = None
          \/ acquired[x] = None /\ mRowsSync[x] = t
    BY <1>1, <1>2 DEF Shaped, Placed, WithRows, Data, dbVars, lockVars, contents, Simple, Calling, Idle, LockIndexes, Goto
  <2> QED
    BY <2>1, <2>2, <2>3, <2>4, <2>5 DEF Leaves
<1>5. Placed(call'[t])
  BY <1>1, <1>2 DEF Shaped, Placed, Calls, dbVars, lockVars, contents, Simple, Calling, Idle, LockIndexes, Goto
<1>6. Locked(t)' /\ Sees(t)'
  BY <1>1, <1>2, <1>5 DEF Shaped, Placed, Sees, Locked, Calls, Data, WithRows, WithIndexes, WithField, WithDatabase, Sorting, dbVars, lockVars, contents, Simple, Calling, Idle, LockIndexes, Goto
<1> QED
  BY <1>3, <1>4, <1>5, <1>6, StepOf

LEMMA UnlockTableIInv ==
    ASSUME IInv, NEW t \in Threads, UnlockTable(t)
    PROVE  IInv'
<1> DEFINE c == call[t]
<1>1. /\ Shaped /\ c \in Calls /\ None # t
      /\ c.pc \notin {"idle", "nextTable"} => c.tb \in Tables
      /\ WithRows(c)     => mRowsSync[c.tb] = t
      /\ WithIndexes(c)  => mIndexesSync[c.tb] = t
      /\ WithField(c)    => acquired[c.tb] = t
      /\ WithDatabase(c) => mSync = t
  BY TableSyncAssumption DEF IInv, Shaped, Placed, Locked
<1>2. Placed(c) /\ Sees(t)
  BY DEF IInv
<1>3. Shaped'
  <2>1. /\ mSync' \in Threads \cup {None} /\ mNeedsSync' \in BOOLEAN /\ notClosed' \in BOOLEAN
        /\ mRowsSync' \in [Tables -> Threads \cup {None}]
        /\ mIndexesSync' \in [Tables -> Threads \cup {None}]
    BY <1>1 DEF Shaped, dbVars, lockVars, contents, Simple, Calling, Idle, UnlockTable, FreeRows
  <2>2. /\ mRowModified' \in [Tables -> BOOLEAN]
        /\ mLockInProgress' \in [Tables -> BOOLEAN]
        /\ acquired' \in [Tables -> Threads \cup {None}]
    BY <1>1 DEF Shaped, dbVars, lockVars, contents, Simple, Calling, Idle, UnlockTable, FreeRows
  <2>3. mem' \in [Tables -> Data]
    BY <1>1, <1>2 DEF Shaped, Calls, Data, Placed, dbVars, lockVars, contents, Simple, Calling, Idle, UnlockTable, FreeRows
  <2>4. disk' \in [Tables -> Files]
    BY <1>1, <1>2 DEF Shaped, Placed, Files, dbVars, lockVars, contents, Simple, Calling, Idle, UnlockTable, FreeRows
  <2>5. call' \in [Threads -> Calls]
    BY <1>1, <1>2, TableSyncAssumption DEF Shaped, Placed, Calls, Steps, AllOps, dbVars, lockVars, contents, Simple, Calling, Idle, UnlockTable, FreeRows
  <2> QED
    BY <2>1, <2>2, <2>3, <2>4, <2>5 DEF Shaped
<1>4. Leaves(t)
  <2>1. \A u \in Threads \ {t} : call'[u] = call[u]
    BY <1>1 DEF Shaped, dbVars, lockVars, contents, Simple, Calling, Idle, UnlockTable, FreeRows
  <2>2. mSync' = mSync \/ mSync \in {None, t}
    BY <1>1, <1>2 DEF Placed, WithDatabase, dbVars, lockVars, contents, Simple, Calling, Idle, UnlockTable, FreeRows
  <2>3. \A x \in Tables :
          /\ mRowsSync'[x] = mRowsSync[x] \/ mRowsSync[x] \in {None, t}
          /\ mIndexesSync'[x] = mIndexesSync[x] \/ mIndexesSync[x] \in {None, t}
    BY <1>1, <1>2 DEF Shaped, Placed, WithRows, WithIndexes, Sorting, dbVars, lockVars, contents, Simple, Calling, Idle, UnlockTable, FreeRows
  <2>4. \A x \in Tables :
          /\ acquired'[x] = acquired[x] \/ acquired[x] \in {None, t}
          /\ acquired'[x] \in {acquired[x], None} \/ mIndexesSync[x] = None
    BY <1>1, <1>2 DEF Shaped, Placed, WithField, dbVars, lockVars, contents, Simple, Calling, Idle, UnlockTable, FreeRows
  <2>5. \A x \in Tables :
          \/ mem'[x].indexed = mem[x].indexed
          \/ mem'[x].indexed /\ mRowsSync[x] = None
          \/ acquired[x] = None /\ mRowsSync[x] = t
    BY <1>1, <1>2 DEF Shaped, Placed, WithRows, Data, dbVars, lockVars, contents, Simple, Calling, Idle, UnlockTable, FreeRows
  <2> QED
    BY <2>1, <2>2, <2>3, <2>4, <2>5 DEF Leaves
<1>5. Placed(call'[t])
  BY <1>1, <1>2 DEF Shaped, Placed, Calls, dbVars, lockVars, contents, Simple, Calling, Idle, UnlockTable, FreeRows
<1>6. Locked(t)' /\ Sees(t)'
  BY <1>1, <1>2, <1>5 DEF Shaped, Placed, Sees, Locked, Calls, Data, WithRows, WithIndexes, WithField, WithDatabase, Sorting, dbVars, lockVars, contents, Simple, Calling, Idle, UnlockTable, FreeRows
<1> QED
  BY <1>3, <1>4, <1>5, <1>6, StepOf

-----------------------------------------------------------------------------
(* The invariant holds.                                                     *)

LEMMA InitIInv == Init => IInv
<1> SUFFICES ASSUME Init PROVE IInv
  OBVIOUS
<1>1. PICK n \in 0 .. MaxRows, indexed \in BOOLEAN :
        mem = [tb \in Tables |->
                [row |-> [r \in Rows |-> IF r < n THEN Null ELSE Absent], indexed |-> indexed,
                 keys |-> IF indexed THEN KeysOf([r \in Rows |-> IF r < n THEN Null ELSE Absent]) ELSE {}]]
  BY Zenon DEF Init
<1> DEFINE row == [r \in Rows |-> IF r < n THEN Null ELSE Absent]
           keys == IF indexed THEN KeysOf(row) ELSE {}
<1>2. row \in [Rows -> Values \cup {Absent}]
  BY TableSyncAssumption
<1>3. keys \in AnyKeys
  BY <1>2, KeysOfShape DEF AnyKeys
<1>4. mem = [tb \in Tables |-> [row |-> row, indexed |-> indexed, keys |-> keys]]
  BY <1>1
<1> HIDE DEF row, keys
<1>5. mem \in [Tables -> Data]
  BY <1>2, <1>3, <1>4 DEF Data, AnyKeys
<1>6. disk \in [Tables -> Files]
  BY <1>5 DEF Init, Files
<1>7. call \in [Threads -> Calls] /\ \A t \in Threads : call[t].pc = "idle" /\ call[t].op = "idle"
  BY TableSyncAssumption DEF Init, Idle, Calling, Calls, Steps
<1>8. Shaped
  BY <1>5, <1>6, <1>7 DEF Init, Shaped
<1>9. \A t \in Threads : Placed(call[t]) /\ Locked(t) /\ Sees(t)
  BY <1>7 DEF Placed, Locked, Sees, WithRows, WithIndexes, WithField, WithDatabase, Sorting
<1> QED
  BY <1>8, <1>9 DEF IInv

LEMMA StartIInv ==
    ASSUME IInv, NEW t \in Threads, NEW tb \in Tables, Start(t, tb)
    PROVE  IInv'
  BY SetIInv, AppendIInv, AddRowIInv, ExchangeRowsIInv, MatchRowsIInv, CreateIndexIInv, RemoveIndexIInv, SyncTableContentIInv, LockTableIInv DEF Start

LEMMA StepIInv ==
    ASSUME IInv, NEW t \in Threads, Step(t)
    PROVE  IInv'
  BY NotifyIInv, NotifiedIInv, MarkYieldIInv, RemarkIInv, MarkedIInv, AddLockIInv,
     AddIndexIInv, WriteIInv, AcquireFieldIndexIInv, RemoveKeyIInv, InsertKeyIInv, RelockIInv,
     MatchRowsWithIndexIInv, DropIndexIInv, NextTableIInv, SyncAllDoneIInv, FlushLockRowsIInv, FlushLockIndexesIInv,
     FlushInternalIInv, LockInProgressIInv, LockRowsIInv, LockIndexesIInv, UnlockTableIInv
     DEF Step

LEMMA NextIInv == IInv /\ [Next]_vars => IInv'
<1>1. ASSUME IInv, NEW t \in Threads, NEW tb \in Tables, Start(t, tb) PROVE IInv'
  BY <1>1, StartIInv
<1>2. ASSUME IInv, NEW t \in Threads, SyncAllTablesContent(t) PROVE IInv'
  BY <1>2, SyncAllTablesContentIInv
<1>3. ASSUME IInv, NEW t \in Threads, NEW r1 \in Rows, NEW r2 \in Rows, SortExchange(t, r1, r2) PROVE IInv'
  BY <1>3, SortExchangeIInv
<1>4. ASSUME IInv, NEW t \in Threads, Step(t) PROVE IInv'
  BY <1>4, StepIInv
<1>5. ASSUME IInv, UNCHANGED vars PROVE IInv'
  BY <1>5 DEF vars, IInv, Shaped, Placed, Locked, Sees, WithRows, WithIndexes, WithField,
              WithDatabase, Sorting
<1> QED
  BY <1>1, <1>2, <1>3, <1>4, <1>5 DEF Next

\* The invariant from which the rest follows: who holds which lock at which
\* step, and that the index is there, and for a sort is nobody's, while they
\* rely on it.
THEOREM LocksAreHeld == Spec => []IInv
<1>1. Init => IInv
  BY InitIInv
<1>2. IInv /\ [Next]_vars => IInv'
  BY NextIInv
<1> QED
  BY <1>1, <1>2, PTL DEF Spec

\* Of the threads in the tree of a table, those of StoreEntry and of a search
\* have acquired the field; a sort has both locks, and nobody has the field.
LEMMA OneInIndex ==
    ASSUME IInv, "exchange" \notin Ops
    PROVE  IndexExclusive
<1> SUFFICES ASSUME NEW tb \in Tables PROVE Cardinality(InIndex(tb)) <= 1
  BY DEF IndexExclusive
<1>1. ASSUME NEW t \in InIndex(tb)
      PROVE  /\ t \in Threads /\ call[t].tb = tb
             /\ \/ acquired[tb] = t
                \/ acquired[tb] = None /\ mIndexesSync[tb] = t
  <2>1. t \in Threads /\ call[t].tb = tb /\ call[t].pc \in {"remove", "insert", "matching"}
    BY <1>1 DEF InIndex
  <2>2. Placed(call[t]) /\ Locked(t) /\ Sees(t)
    BY <2>1 DEF IInv
  <2>3. CASE WithField(call[t])
    BY <2>1, <2>2, <2>3 DEF Locked
  <2>4. CASE ~WithField(call[t])
    <3>1. call[t].pc \in {"remove", "insert"} /\ call[t].op = "sort"
      BY <2>1, <2>2, <2>4 DEF WithField, Placed
    <3>2. Sorting(call[t]) /\ WithIndexes(call[t])
      BY <3>1 DEF Sorting, WithIndexes
    <3> QED
      BY <2>1, <2>2, <3>1, <3>2 DEF Locked, Sees
  <2> QED
    BY <2>1, <2>3, <2>4
<1>2. \A t, u \in InIndex(tb) : t = u
  BY <1>1, TableSyncAssumption
<1>3. InIndex(tb) = {} \/ \E t \in InIndex(tb) : InIndex(tb) = {t}
  BY <1>2
<1>4. CASE InIndex(tb) = {}
  BY <1>4, FS_EmptySet
<1>5. ASSUME NEW t \in InIndex(tb), InIndex(tb) = {t} PROVE Cardinality(InIndex(tb)) <= 1
  <2>1. Cardinality({t}) = 1
    BY FS_Singleton
  <2> QED
    BY <1>5, <2>1
<1> QED
  BY <1>3, <1>4, <1>5

\* Two threads never are in the tree of an index at once, unless somebody calls
\* ExchangeRows, which stores to an indexed row without acquiring its field.
THEOREM IndexIsExclusive ==
    ASSUME "exchange" \notin Ops
    PROVE  Spec => []IndexExclusive
<1>1. IInv => IndexExclusive
  BY OneInIndex
<1> QED
  BY <1>1, LocksAreHeld, PTL

-----------------------------------------------------------------------------
(* What is not flushed is marked, in memory and in the files.               *)

\* The flags in memory and those in the files agree, and a table that is not
\* marked as modified is on disk as it is in memory.
Flags ==
    /\ mNeedsSync = notClosed
    /\ \A tb \in Tables :
        /\ disk[tb].modified = mRowModified[tb]
        /\ mRowModified[tb] => mNeedsSync
        /\ ~mRowModified[tb] => disk[tb].content = mem[tb]

\* A thread that is to mark a table has marked the database; one that changes a
\* table has marked it; one that syncs all tables leaves none modified behind.
Tracks(t) ==
    /\ call[t].pc = "notified" => mNeedsSync
    /\ call[t].pc \in {"write", "acquire", "remove", "insert", "addLock", "addIndex"}
            => mRowModified[call[t].tb]
    /\ call[t].op = "syncAll" =>
            \A tb \in Tables \ call[t].todo :
                (call[t].pc = "nextTable" \/ call[t].tb # tb) => ~mRowModified[tb]

Flushed == Flags /\ \A t \in Threads : Tracks(t)

\* A step that leaves the flags and the files alone, and changes only tables
\* that are marked.
LEMMA CalmStep ==
    ASSUME IInv, Flushed, NEW t \in Threads, \A u \in Threads \ {t} : call'[u] = call[u],
           UNCHANGED <<mNeedsSync, notClosed, mRowModified, disk>>,
           \A tb \in Tables : mem'[tb] = mem[tb] \/ mRowModified[tb],
           Tracks(t)'
    PROVE  Flushed'
<1>1. Flags'
  BY DEF Flushed, Flags
<1>2. ASSUME NEW u \in Threads, u # t PROVE Tracks(u)'
  BY <1>2 DEF Flushed, Tracks
<1> QED
  BY <1>1, <1>2 DEF Flushed

LEMMA SetFlushed ==
    ASSUME IInv, Flushed, NEW t \in Threads, NEW tb \in Tables, NEW r \in Rows, NEW v \in Values, Set(t, tb, r, v)
    PROVE  Flushed'
<1>1. /\ call \in [Threads -> Calls] /\ mem \in [Tables -> Data]
      /\ Placed(call[t]) /\ Tracks(t) /\ Flags
  BY DEF IInv, Shaped, Flushed
<1>2. \A u \in Threads \ {t} : call'[u] = call[u]
  BY <1>1 DEF dbVars, lockVars, contents, Simple, Calling, Idle, Set, Starts, TakeRows
<1>3. UNCHANGED <<mNeedsSync, notClosed, mRowModified, disk>>
  BY DEF dbVars, lockVars, contents, Simple, Calling, Idle, Set, Starts, TakeRows
<1>4. \A x \in Tables : mem'[x] = mem[x] \/ mRowModified[x]
  BY <1>1 DEF Placed, Tracks, dbVars, lockVars, contents, Simple, Calling, Idle, Set, Starts, TakeRows
<1>5. Tracks(t)'
  BY <1>1 DEF Placed, Tracks, Flags, Calls, dbVars, lockVars, contents, Simple, Calling, Idle, Set, Starts, TakeRows
<1> QED
  BY <1>2, <1>3, <1>4, <1>5, CalmStep

LEMMA AppendFlushed ==
    ASSUME IInv, Flushed, NEW t \in Threads, NEW tb \in Tables, NEW v \in Values, Append(t, tb, v)
    PROVE  Flushed'
<1>1. /\ call \in [Threads -> Calls] /\ mem \in [Tables -> Data]
      /\ Placed(call[t]) /\ Tracks(t) /\ Flags
  BY DEF IInv, Shaped, Flushed
<1>2. \A u \in Threads \ {t} : call'[u] = call[u]
  BY <1>1 DEF dbVars, lockVars, contents, Simple, Calling, Idle, Append, Starts, TakeRows
<1>3. UNCHANGED <<mNeedsSync, notClosed, mRowModified, disk>>
  BY DEF dbVars, lockVars, contents, Simple, Calling, Idle, Append, Starts, TakeRows
<1>4. \A x \in Tables : mem'[x] = mem[x] \/ mRowModified[x]
  BY <1>1 DEF Placed, Tracks, dbVars, lockVars, contents, Simple, Calling, Idle, Append, Starts, TakeRows
<1>5. Tracks(t)'
  BY <1>1 DEF Placed, Tracks, Flags, Calls, dbVars, lockVars, contents, Simple, Calling, Idle, Append, Starts, TakeRows
<1> QED
  BY <1>2, <1>3, <1>4, <1>5, CalmStep

LEMMA AddRowFlushed ==
    ASSUME IInv, Flushed, NEW t \in Threads, NEW tb \in Tables, AddRow(t, tb)
    PROVE  Flushed'
<1>1. /\ call \in [Threads -> Calls] /\ mem \in [Tables -> Data]
      /\ Placed(call[t]) /\ Tracks(t) /\ Flags
  BY DEF IInv, Shaped, Flushed
<1>2. \A u \in Threads \ {t} : call'[u] = call[u]
  BY <1>1 DEF dbVars, lockVars, contents, Simple, Calling, Idle, AddRow, Starts, TakeRows
<1>3. UNCHANGED <<mNeedsSync, notClosed, mRowModified, disk>>
  BY DEF dbVars, lockVars, contents, Simple, Calling, Idle, AddRow, Starts, TakeRows
<1>4. \A x \in Tables : mem'[x] = mem[x] \/ mRowModified[x]
  BY <1>1 DEF Placed, Tracks, dbVars, lockVars, contents, Simple, Calling, Idle, AddRow, Starts, TakeRows
<1>5. Tracks(t)'
  BY <1>1 DEF Placed, Tracks, Flags, Calls, dbVars, lockVars, contents, Simple, Calling, Idle, AddRow, Starts, TakeRows
<1> QED
  BY <1>2, <1>3, <1>4, <1>5, CalmStep

LEMMA ExchangeRowsFlushed ==
    ASSUME IInv, Flushed, NEW t \in Threads, NEW tb \in Tables, NEW r1 \in Rows, NEW r2 \in Rows, ExchangeRows(t, tb, r1, r2)
    PROVE  Flushed'
<1>1. /\ call \in [Threads -> Calls] /\ mem \in [Tables -> Data]
      /\ Placed(call[t]) /\ Tracks(t) /\ Flags
  BY DEF IInv, Shaped, Flushed
<1>2. \A u \in Threads \ {t} : call'[u] = call[u]
  BY <1>1 DEF dbVars, lockVars, contents, Simple, Calling, Idle, ExchangeRows, Exchange, Starts, TakeRows
<1>3. UNCHANGED <<mNeedsSync, notClosed, mRowModified, disk>>
  BY DEF dbVars, lockVars, contents, Simple, Calling, Idle, ExchangeRows, Exchange, Starts, TakeRows
<1>4. \A x \in Tables : mem'[x] = mem[x] \/ mRowModified[x]
  BY <1>1 DEF Placed, Tracks, dbVars, lockVars, contents, Simple, Calling, Idle, ExchangeRows, Exchange, Starts, TakeRows
<1>5. Tracks(t)'
  BY <1>1 DEF Placed, Tracks, Flags, Calls, dbVars, lockVars, contents, Simple, Calling, Idle, ExchangeRows, Exchange, Starts, TakeRows
<1> QED
  BY <1>2, <1>3, <1>4, <1>5, CalmStep

LEMMA MatchRowsFlushed ==
    ASSUME IInv, Flushed, NEW t \in Threads, NEW tb \in Tables, MatchRows(t, tb)
    PROVE  Flushed'
<1>1. /\ call \in [Threads -> Calls] /\ mem \in [Tables -> Data]
      /\ Placed(call[t]) /\ Tracks(t) /\ Flags
  BY DEF IInv, Shaped, Flushed
<1>2. \A u \in Threads \ {t} : call'[u] = call[u]
  BY <1>1 DEF dbVars, lockVars, contents, Simple, Calling, Idle, MatchRows, Starts
<1>3. UNCHANGED <<mNeedsSync, notClosed, mRowModified, disk>>
  BY DEF dbVars, lockVars, contents, Simple, Calling, Idle, MatchRows, Starts
<1>4. \A x \in Tables : mem'[x] = mem[x] \/ mRowModified[x]
  BY <1>1 DEF Placed, Tracks, dbVars, lockVars, contents, Simple, Calling, Idle, MatchRows, Starts
<1>5. Tracks(t)'
  BY <1>1 DEF Placed, Tracks, Flags, Calls, dbVars, lockVars, contents, Simple, Calling, Idle, MatchRows, Starts
<1> QED
  BY <1>2, <1>3, <1>4, <1>5, CalmStep


LEMMA RemoveIndexFlushed ==
    ASSUME IInv, Flushed, NEW t \in Threads, NEW tb \in Tables, RemoveIndex(t, tb)
    PROVE  Flushed'
<1>1. /\ call \in [Threads -> Calls] /\ mem \in [Tables -> Data]
      /\ Placed(call[t]) /\ Tracks(t) /\ Flags
  BY DEF IInv, Shaped, Flushed
<1>2. \A u \in Threads \ {t} : call'[u] = call[u]
  BY <1>1 DEF dbVars, lockVars, contents, Simple, Calling, Idle, RemoveIndex, Starts, TakeRows
<1>3. UNCHANGED <<mNeedsSync, notClosed, mRowModified, disk>>
  BY DEF dbVars, lockVars, contents, Simple, Calling, Idle, RemoveIndex, Starts, TakeRows
<1>4. \A x \in Tables : mem'[x] = mem[x] \/ mRowModified[x]
  BY <1>1 DEF Placed, Tracks, dbVars, lockVars, contents, Simple, Calling, Idle, RemoveIndex, Starts, TakeRows
<1>5. Tracks(t)'
  BY <1>1 DEF Placed, Tracks, Flags, Calls, dbVars, lockVars, contents, Simple, Calling, Idle, RemoveIndex, Starts, TakeRows
<1> QED
  BY <1>2, <1>3, <1>4, <1>5, CalmStep

LEMMA SyncTableContentFlushed ==
    ASSUME IInv, Flushed, NEW t \in Threads, NEW tb \in Tables, SyncTableContent(t, tb)
    PROVE  Flushed'
<1>1. /\ call \in [Threads -> Calls] /\ mem \in [Tables -> Data]
      /\ Placed(call[t]) /\ Tracks(t) /\ Flags
  BY DEF IInv, Shaped, Flushed
<1>2. \A u \in Threads \ {t} : call'[u] = call[u]
  BY <1>1 DEF dbVars, lockVars, contents, Simple, Calling, Idle, SyncTableContent, Starts
<1>3. UNCHANGED <<mNeedsSync, notClosed, mRowModified, disk>>
  BY DEF dbVars, lockVars, contents, Simple, Calling, Idle, SyncTableContent, Starts
<1>4. \A x \in Tables : mem'[x] = mem[x] \/ mRowModified[x]
  BY <1>1 DEF Placed, Tracks, dbVars, lockVars, contents, Simple, Calling, Idle, SyncTableContent, Starts
<1>5. Tracks(t)'
  BY <1>1 DEF Placed, Tracks, Flags, Calls, dbVars, lockVars, contents, Simple, Calling, Idle, SyncTableContent, Starts
<1> QED
  BY <1>2, <1>3, <1>4, <1>5, CalmStep

LEMMA LockTableFlushed ==
    ASSUME IInv, Flushed, NEW t \in Threads, NEW tb \in Tables, LockTable(t, tb)
    PROVE  Flushed'
<1>1. /\ call \in [Threads -> Calls] /\ mem \in [Tables -> Data]
      /\ Placed(call[t]) /\ Tracks(t) /\ Flags
  BY DEF IInv, Shaped, Flushed
<1>2. \A u \in Threads \ {t} : call'[u] = call[u]
  BY <1>1 DEF dbVars, lockVars, contents, Simple, Calling, Idle, LockTable, Starts
<1>3. UNCHANGED <<mNeedsSync, notClosed, mRowModified, disk>>
  BY DEF dbVars, lockVars, contents, Simple, Calling, Idle, LockTable, Starts
<1>4. \A x \in Tables : mem'[x] = mem[x] \/ mRowModified[x]
  BY <1>1 DEF Placed, Tracks, dbVars, lockVars, contents, Simple, Calling, Idle, LockTable, Starts
<1>5. Tracks(t)'
  BY <1>1 DEF Placed, Tracks, Flags, Calls, dbVars, lockVars, contents, Simple, Calling, Idle, LockTable, Starts
<1> QED
  BY <1>2, <1>3, <1>4, <1>5, CalmStep

LEMMA SyncAllTablesContentFlushed ==
    ASSUME IInv, Flushed, NEW t \in Threads, SyncAllTablesContent(t)
    PROVE  Flushed'
<1>1. /\ call \in [Threads -> Calls] /\ mem \in [Tables -> Data]
      /\ Placed(call[t]) /\ Tracks(t) /\ Flags
  BY DEF IInv, Shaped, Flushed
<1>2. \A u \in Threads \ {t} : call'[u] = call[u]
  BY <1>1 DEF dbVars, lockVars, contents, Simple, Calling, Idle, SyncAllTablesContent, Starts
<1>3. UNCHANGED <<mNeedsSync, notClosed, mRowModified, disk>>
  BY DEF dbVars, lockVars, contents, Simple, Calling, Idle, SyncAllTablesContent, Starts
<1>4. \A x \in Tables : mem'[x] = mem[x] \/ mRowModified[x]
  BY <1>1 DEF Placed, Tracks, dbVars, lockVars, contents, Simple, Calling, Idle, SyncAllTablesContent, Starts
<1>5. Tracks(t)'
  BY <1>1 DEF Placed, Tracks, Flags, Calls, dbVars, lockVars, contents, Simple, Calling, Idle, SyncAllTablesContent, Starts
<1> QED
  BY <1>2, <1>3, <1>4, <1>5, CalmStep

LEMMA SortExchangeFlushed ==
    ASSUME IInv, Flushed, NEW t \in Threads, NEW r1 \in Rows, NEW r2 \in Rows, SortExchange(t, r1, r2)
    PROVE  Flushed'
<1>1. /\ call \in [Threads -> Calls] /\ mem \in [Tables -> Data]
      /\ Placed(call[t]) /\ Tracks(t) /\ Flags
  BY DEF IInv, Shaped, Flushed
<1>2. \A u \in Threads \ {t} : call'[u] = call[u]
  BY <1>1 DEF dbVars, lockVars, contents, Simple, Calling, Idle, SortExchange, Exchange
<1>3. UNCHANGED <<mNeedsSync, notClosed, mRowModified, disk>>
  BY DEF dbVars, lockVars, contents, Simple, Calling, Idle, SortExchange, Exchange
<1>4. \A x \in Tables : mem'[x] = mem[x] \/ mRowModified[x]
  BY <1>1 DEF Placed, Tracks, dbVars, lockVars, contents, Simple, Calling, Idle, SortExchange, Exchange
<1>5. Tracks(t)'
  BY <1>1 DEF Placed, Tracks, Flags, Calls, dbVars, lockVars, contents, Simple, Calling, Idle, SortExchange, Exchange
<1> QED
  BY <1>2, <1>3, <1>4, <1>5, CalmStep

LEMMA NotifyFlushed ==
    ASSUME IInv, Flushed, NEW t \in Threads, Notify(t)
    PROVE  Flushed'
<1>1. /\ call \in [Threads -> Calls] /\ mNeedsSync \in BOOLEAN /\ notClosed \in BOOLEAN
      /\ Placed(call[t]) /\ Tracks(t) /\ Flags
  BY DEF IInv, Shaped, Flushed
<1>2. \A u \in Threads \ {t} : call'[u] = call[u]
  BY <1>1 DEF Notify, Goto
<1>3. mNeedsSync' /\ notClosed' /\ UNCHANGED <<mRowModified, mem, disk>>
  BY <1>1 DEF Notify, Flags, contents
<1>4. call'[t].pc = "notified" /\ call'[t].op = call[t].op /\ call[t].op # "syncAll"
  BY <1>1, GotoShape DEF Notify, Placed, Steps
<1>5. Flags'
  BY <1>1, <1>3 DEF Flags
<1>6. Tracks(t)'
  BY <1>3, <1>4 DEF Tracks
<1>7. ASSUME NEW u \in Threads, u # t PROVE Tracks(u)'
  BY <1>2, <1>3, <1>7 DEF Flushed, Tracks
<1> QED
  BY <1>5, <1>6, <1>7 DEF Flushed

LEMMA NotifiedFlushed ==
    ASSUME IInv, Flushed, NEW t \in Threads, Notified(t)
    PROVE  Flushed'
<1> DEFINE tb == call[t].tb
<1>1. /\ call \in [Threads -> Calls] /\ disk \in [Tables -> Files] /\ mRowModified \in [Tables -> BOOLEAN]
      /\ Placed(call[t]) /\ Locked(t) /\ Tracks(t) /\ Flags /\ call[t].pc = "notified" /\ tb \in Tables
  BY DEF IInv, Shaped, Flushed, Notified, Placed
<1>2. \A u \in Threads \ {t} : call'[u] = call[u]
  BY <1>1 DEF Notified, Goto
<1>3. /\ UNCHANGED <<mNeedsSync, notClosed, mem>> /\ mNeedsSync
      /\ mRowModified'[tb] /\ \A x \in Tables : x # tb => mRowModified'[x] = mRowModified[x]
  BY <1>1 DEF Notified, Tracks
<1>4. /\ disk'[tb].modified = TRUE /\ \A x \in Tables : x # tb => disk'[x] = disk[x]
  BY <1>1 DEF Notified, Files
<1>5. Flags'
  BY <1>1, <1>3, <1>4 DEF Flags
<1>6. call'[t].pc = "mark" /\ call'[t].op = call[t].op /\ call[t].op # "syncAll"
  BY <1>1, GotoShape DEF Notified, Placed, Steps
<1>7. Tracks(t)'
  BY <1>6 DEF Tracks
<1>8. ASSUME NEW u \in Threads, u # t PROVE Tracks(u)'
  <2>1. Tracks(u) /\ Locked(u) /\ call'[u] = call[u]
    BY <1>2, <1>8 DEF Flushed, IInv
  <2>2. call[u].op # "syncAll"
    BY <2>1, <1>1, <1>8 DEF Locked, WithDatabase
  <2>3. call[u].pc \in {"write", "acquire", "remove", "insert", "addLock", "addIndex"} => call[u].tb \in Tables
    BY <1>8 DEF IInv, Placed
  <2> QED
    BY <2>1, <2>2, <2>3, <1>3 DEF Tracks
<1> QED
  BY <1>5, <1>7, <1>8 DEF Flushed

LEMMA MarkYieldFlushed ==
    ASSUME IInv, Flushed, NEW t \in Threads, MarkYield(t)
    PROVE  Flushed'
<1>1. /\ call \in [Threads -> Calls] /\ mem \in [Tables -> Data]
      /\ Placed(call[t]) /\ Tracks(t) /\ Flags
  BY DEF IInv, Shaped, Flushed
<1>2. \A u \in Threads \ {t} : call'[u] = call[u]
  BY <1>1 DEF dbVars, lockVars, contents, Simple, Calling, Idle, MarkYield, Goto, FreeRows, ThreadSafe
<1>3. UNCHANGED <<mNeedsSync, notClosed, mRowModified, disk>>
  BY DEF dbVars, lockVars, contents, Simple, Calling, Idle, MarkYield, Goto, FreeRows, ThreadSafe
<1>4. \A x \in Tables : mem'[x] = mem[x] \/ mRowModified[x]
  BY <1>1 DEF Placed, Tracks, dbVars, lockVars, contents, Simple, Calling, Idle, MarkYield, Goto, FreeRows, ThreadSafe
<1>5. Tracks(t)'
  BY <1>1 DEF Placed, Tracks, Flags, Calls, dbVars, lockVars, contents, Simple, Calling, Idle, MarkYield, Goto, FreeRows, ThreadSafe
<1> QED
  BY <1>2, <1>3, <1>4, <1>5, CalmStep

LEMMA RemarkFlushed ==
    ASSUME IInv, Flushed, NEW t \in Threads, Remark(t)
    PROVE  Flushed'
<1>1. /\ call \in [Threads -> Calls] /\ mem \in [Tables -> Data]
      /\ Placed(call[t]) /\ Tracks(t) /\ Flags
  BY DEF IInv, Shaped, Flushed
<1>2. \A u \in Threads \ {t} : call'[u] = call[u]
  BY <1>1 DEF dbVars, lockVars, contents, Simple, Calling, Idle, Remark, Goto, TakeRows
<1>3. UNCHANGED <<mNeedsSync, notClosed, mRowModified, disk>>
  BY DEF dbVars, lockVars, contents, Simple, Calling, Idle, Remark, Goto, TakeRows
<1>4. \A x \in Tables : mem'[x] = mem[x] \/ mRowModified[x]
  BY <1>1 DEF Placed, Tracks, dbVars, lockVars, contents, Simple, Calling, Idle, Remark, Goto, TakeRows
<1>5. Tracks(t)'
  BY <1>1 DEF Placed, Tracks, Flags, Calls, dbVars, lockVars, contents, Simple, Calling, Idle, Remark, Goto, TakeRows
<1> QED
  BY <1>2, <1>3, <1>4, <1>5, CalmStep

LEMMA MarkedFlushed ==
    ASSUME IInv, Flushed, NEW t \in Threads, Marked(t)
    PROVE  Flushed'
<1>1. /\ call \in [Threads -> Calls] /\ mem \in [Tables -> Data]
      /\ Placed(call[t]) /\ Tracks(t) /\ Flags
  BY DEF IInv, Shaped, Flushed
<1>2. \A u \in Threads \ {t} : call'[u] = call[u]
  BY <1>1 DEF dbVars, lockVars, contents, Simple, Calling, Idle, Marked, Goto
<1>3. UNCHANGED <<mNeedsSync, notClosed, mRowModified, disk>>
  BY DEF dbVars, lockVars, contents, Simple, Calling, Idle, Marked, Goto
<1>4. \A x \in Tables : mem'[x] = mem[x] \/ mRowModified[x]
  BY <1>1 DEF Placed, Tracks, dbVars, lockVars, contents, Simple, Calling, Idle, Marked, Goto
<1>5. Tracks(t)'
  BY <1>1 DEF Placed, Tracks, Flags, Calls, dbVars, lockVars, contents, Simple, Calling, Idle, Marked, Goto
<1> QED
  BY <1>2, <1>3, <1>4, <1>5, CalmStep

LEMMA AddLockFlushed ==
    ASSUME IInv, Flushed, NEW t \in Threads, AddLock(t)
    PROVE  Flushed'
<1>1. /\ call \in [Threads -> Calls] /\ mem \in [Tables -> Data]
      /\ Placed(call[t]) /\ Tracks(t) /\ Flags
  BY DEF IInv, Shaped, Flushed
<1>2. \A u \in Threads \ {t} : call'[u] = call[u]
  BY <1>1 DEF dbVars, lockVars, contents, Simple, Calling, Idle, AddLock, Goto
<1>3. UNCHANGED <<mNeedsSync, notClosed, mRowModified, disk>>
  BY DEF dbVars, lockVars, contents, Simple, Calling, Idle, AddLock, Goto
<1>4. \A x \in Tables : mem'[x] = mem[x] \/ mRowModified[x]
  BY <1>1 DEF Placed, Tracks, dbVars, lockVars, contents, Simple, Calling, Idle, AddLock, Goto
<1>5. Tracks(t)'
  BY <1>1 DEF Placed, Tracks, Flags, Calls, dbVars, lockVars, contents, Simple, Calling, Idle, AddLock, Goto
<1> QED
  BY <1>2, <1>3, <1>4, <1>5, CalmStep

LEMMA AddIndexFlushed ==
    ASSUME IInv, Flushed, NEW t \in Threads, AddIndex(t)
    PROVE  Flushed'
<1>1. /\ call \in [Threads -> Calls] /\ mem \in [Tables -> Data]
      /\ Placed(call[t]) /\ Tracks(t) /\ Flags
  BY DEF IInv, Shaped, Flushed
<1>2. \A u \in Threads \ {t} : call'[u] = call[u]
  BY <1>1 DEF dbVars, lockVars, contents, Simple, Calling, Idle, AddIndex, FreeRows
<1>3. UNCHANGED <<mNeedsSync, notClosed, mRowModified, disk>>
  BY DEF dbVars, lockVars, contents, Simple, Calling, Idle, AddIndex, FreeRows
<1>4. \A x \in Tables : mem'[x] = mem[x] \/ mRowModified[x]
  BY <1>1 DEF Placed, Tracks, dbVars, lockVars, contents, Simple, Calling, Idle, AddIndex, FreeRows
<1>5. Tracks(t)'
  BY <1>1 DEF Placed, Tracks, Flags, Calls, dbVars, lockVars, contents, Simple, Calling, Idle, AddIndex, FreeRows
<1> QED
  BY <1>2, <1>3, <1>4, <1>5, CalmStep

LEMMA WriteFlushed ==
    ASSUME IInv, Flushed, NEW t \in Threads, Write(t)
    PROVE  Flushed'
<1>1. /\ call \in [Threads -> Calls] /\ mem \in [Tables -> Data]
      /\ Placed(call[t]) /\ Tracks(t) /\ Flags
  BY DEF IInv, Shaped, Flushed
<1>2. \A u \in Threads \ {t} : call'[u] = call[u]
  BY <1>1 DEF dbVars, lockVars, contents, Simple, Calling, Idle, Write, Goto, RowStored, FreeRows, ThreadSafe
<1>3. UNCHANGED <<mNeedsSync, notClosed, mRowModified, disk>>
  BY DEF dbVars, lockVars, contents, Simple, Calling, Idle, Write, Goto, RowStored, FreeRows, ThreadSafe
<1>4. \A x \in Tables : mem'[x] = mem[x] \/ mRowModified[x]
  BY <1>1 DEF Placed, Tracks, dbVars, lockVars, contents, Simple, Calling, Idle, Write, Goto, RowStored, FreeRows, ThreadSafe
<1>5. Tracks(t)'
  BY <1>1 DEF Placed, Tracks, Flags, Calls, dbVars, lockVars, contents, Simple, Calling, Idle, Write, Goto, RowStored, FreeRows, ThreadSafe
<1> QED
  BY <1>2, <1>3, <1>4, <1>5, CalmStep

LEMMA AcquireFieldIndexFlushed ==
    ASSUME IInv, Flushed, NEW t \in Threads, AcquireFieldIndex(t)
    PROVE  Flushed'
<1>1. /\ call \in [Threads -> Calls] /\ mem \in [Tables -> Data]
      /\ Placed(call[t]) /\ Tracks(t) /\ Flags
  BY DEF IInv, Shaped, Flushed
<1>2. \A u \in Threads \ {t} : call'[u] = call[u]
  BY <1>1 DEF dbVars, lockVars, contents, Simple, Calling, Idle, AcquireFieldIndex, Goto, FreeRows, Acquirable
<1>3. UNCHANGED <<mNeedsSync, notClosed, mRowModified, disk>>
  BY DEF dbVars, lockVars, contents, Simple, Calling, Idle, AcquireFieldIndex, Goto, FreeRows, Acquirable
<1>4. \A x \in Tables : mem'[x] = mem[x] \/ mRowModified[x]
  BY <1>1 DEF Placed, Tracks, dbVars, lockVars, contents, Simple, Calling, Idle, AcquireFieldIndex, Goto, FreeRows, Acquirable
<1>5. Tracks(t)'
  BY <1>1 DEF Placed, Tracks, Flags, Calls, dbVars, lockVars, contents, Simple, Calling, Idle, AcquireFieldIndex, Goto, FreeRows, Acquirable
<1> QED
  BY <1>2, <1>3, <1>4, <1>5, CalmStep

LEMMA RemoveKeyFlushed ==
    ASSUME IInv, Flushed, NEW t \in Threads, RemoveKey(t)
    PROVE  Flushed'
<1>1. /\ call \in [Threads -> Calls] /\ mem \in [Tables -> Data]
      /\ Placed(call[t]) /\ Tracks(t) /\ Flags
  BY DEF IInv, Shaped, Flushed
<1>2. \A u \in Threads \ {t} : call'[u] = call[u]
  BY <1>1 DEF dbVars, lockVars, contents, Simple, Calling, Idle, RemoveKey, Goto
<1>3. UNCHANGED <<mNeedsSync, notClosed, mRowModified, disk>>
  BY DEF dbVars, lockVars, contents, Simple, Calling, Idle, RemoveKey, Goto
<1>4. \A x \in Tables : mem'[x] = mem[x] \/ mRowModified[x]
  BY <1>1 DEF Placed, Tracks, dbVars, lockVars, contents, Simple, Calling, Idle, RemoveKey, Goto
<1>5. Tracks(t)'
  BY <1>1 DEF Placed, Tracks, Flags, Calls, dbVars, lockVars, contents, Simple, Calling, Idle, RemoveKey, Goto
<1> QED
  BY <1>2, <1>3, <1>4, <1>5, CalmStep

LEMMA InsertKeyFlushed ==
    ASSUME IInv, Flushed, NEW t \in Threads, InsertKey(t)
    PROVE  Flushed'
<1>1. /\ call \in [Threads -> Calls] /\ mem \in [Tables -> Data]
      /\ Placed(call[t]) /\ Tracks(t) /\ Flags
  BY DEF IInv, Shaped, Flushed
<1>2. \A u \in Threads \ {t} : call'[u] = call[u]
  BY <1>1 DEF dbVars, lockVars, contents, Simple, Calling, Idle, InsertKey, Goto, RowStored, FreeRows, ThreadSafe
<1>3. UNCHANGED <<mNeedsSync, notClosed, mRowModified, disk>>
  BY DEF dbVars, lockVars, contents, Simple, Calling, Idle, InsertKey, Goto, RowStored, FreeRows, ThreadSafe
<1>4. \A x \in Tables : mem'[x] = mem[x] \/ mRowModified[x]
  BY <1>1 DEF Placed, Tracks, dbVars, lockVars, contents, Simple, Calling, Idle, InsertKey, Goto, RowStored, FreeRows, ThreadSafe
<1>5. Tracks(t)'
  BY <1>1 DEF Placed, Tracks, Flags, Calls, dbVars, lockVars, contents, Simple, Calling, Idle, InsertKey, Goto, RowStored, FreeRows, ThreadSafe
<1> QED
  BY <1>2, <1>3, <1>4, <1>5, CalmStep

LEMMA RelockFlushed ==
    ASSUME IInv, Flushed, NEW t \in Threads, Relock(t)
    PROVE  Flushed'
<1>1. /\ call \in [Threads -> Calls] /\ mem \in [Tables -> Data]
      /\ Placed(call[t]) /\ Tracks(t) /\ Flags
  BY DEF IInv, Shaped, Flushed
<1>2. \A u \in Threads \ {t} : call'[u] = call[u]
  BY <1>1 DEF dbVars, lockVars, contents, Simple, Calling, Idle, Relock
<1>3. UNCHANGED <<mNeedsSync, notClosed, mRowModified, disk>>
  BY DEF dbVars, lockVars, contents, Simple, Calling, Idle, Relock
<1>4. \A x \in Tables : mem'[x] = mem[x] \/ mRowModified[x]
  BY <1>1 DEF Placed, Tracks, dbVars, lockVars, contents, Simple, Calling, Idle, Relock
<1>5. Tracks(t)'
  BY <1>1 DEF Placed, Tracks, Flags, Calls, dbVars, lockVars, contents, Simple, Calling, Idle, Relock
<1> QED
  BY <1>2, <1>3, <1>4, <1>5, CalmStep

LEMMA MatchRowsWithIndexFlushed ==
    ASSUME IInv, Flushed, NEW t \in Threads, MatchRowsWithIndex(t)
    PROVE  Flushed'
<1>1. /\ call \in [Threads -> Calls] /\ mem \in [Tables -> Data]
      /\ Placed(call[t]) /\ Tracks(t) /\ Flags
  BY DEF IInv, Shaped, Flushed
<1>2. \A u \in Threads \ {t} : call'[u] = call[u]
  BY <1>1 DEF dbVars, lockVars, contents, Simple, Calling, Idle, MatchRowsWithIndex, Goto, Acquirable
<1>3. UNCHANGED <<mNeedsSync, notClosed, mRowModified, disk>>
  BY DEF dbVars, lockVars, contents, Simple, Calling, Idle, MatchRowsWithIndex, Goto, Acquirable
<1>4. \A x \in Tables : mem'[x] = mem[x] \/ mRowModified[x]
  BY <1>1 DEF Placed, Tracks, dbVars, lockVars, contents, Simple, Calling, Idle, MatchRowsWithIndex, Goto, Acquirable
<1>5. Tracks(t)'
  BY <1>1 DEF Placed, Tracks, Flags, Calls, dbVars, lockVars, contents, Simple, Calling, Idle, MatchRowsWithIndex, Goto, Acquirable
<1> QED
  BY <1>2, <1>3, <1>4, <1>5, CalmStep

LEMMA DropIndexFlushed ==
    ASSUME IInv, Flushed, NEW t \in Threads, DropIndex(t)
    PROVE  Flushed'
<1> DEFINE tb == call[t].tb
<1>1. /\ call \in [Threads -> Calls] /\ disk \in [Tables -> Files] /\ mem \in [Tables -> Data]
      /\ mRowModified \in [Tables -> BOOLEAN] /\ Flags /\ tb \in Tables
  BY DEF IInv, Shaped, Flushed, DropIndex, Placed
<1>2. /\ \A u \in Threads \ {t} : call'[u] = call[u]
      /\ call'[t].pc = "idle" /\ call'[t].op = "idle"
  BY <1>1, IdleShape DEF DropIndex
<1>3. UNCHANGED <<mNeedsSync, notClosed, mRowModified>>
  BY DEF DropIndex, dbVars
<1>4. /\ mem' = [mem EXCEPT ![tb].indexed = FALSE, ![tb].keys = {}]
      /\ disk' = [disk EXCEPT ![tb].content.indexed = FALSE, ![tb].content.keys = {},
                              ![tb].modified = mRowModified[tb]]
      /\ {} \in AnyKeys /\ mRowModified[tb] \in BOOLEAN
  BY <1>1 DEF DropIndex, AnyKeys
<1> HIDE DEF tb
<1>5. \A x \in Tables : mem'[x] = IF x = tb THEN [row |-> mem[tb].row, indexed |-> FALSE, keys |-> {}] ELSE mem[x]
  BY ZenonT(30), <1>1, <1>4, IndexShape
<1>6. /\ disk'[tb] = [content |-> [row |-> disk[tb].content.row, indexed |-> FALSE, keys |-> {}], modified |-> mRowModified[tb]]
      /\ \A x \in Tables : x # tb => disk'[x] = disk[x]
  BY <1>1, <1>4, HeaderDropShape
<1>7. Flags'
  <2> SUFFICES ASSUME NEW x \in Tables
               PROVE  /\ disk'[x].modified = mRowModified'[x]
                      /\ mRowModified'[x] => mNeedsSync'
                      /\ ~mRowModified'[x] => disk'[x].content = mem'[x]
    BY <1>1, <1>3 DEF Flags
  <2>1. CASE x = tb
    <3>1. ~mRowModified[tb] => disk[tb].content = mem[tb]
      BY <1>1 DEF Flags
    <3>2. mem'[x] = [row |-> mem[tb].row, indexed |-> FALSE, keys |-> {}]
      BY <2>1, <1>1, <1>5
    <3>3. disk'[x].modified = mRowModified[tb] /\ (mRowModified[tb] => mNeedsSync)
      BY <2>1, <1>1, <1>6 DEF Flags
    <3>4. disk'[x].content = [row |-> disk[tb].content.row, indexed |-> FALSE, keys |-> {}]
      BY <2>1, <1>6
    <3>5. ~mRowModified[tb] => disk'[x].content = mem'[x]
      BY <3>1, <3>2, <3>4
    <3> QED
      BY <2>1, <3>3, <3>5, <1>3
  <2>2. CASE x # tb
    BY <2>2, <1>1, <1>3, <1>5, <1>6 DEF Flags
  <2> QED
    BY <2>1, <2>2
<1>8. ASSUME NEW u \in Threads PROVE Tracks(u)'
  BY <1>2, <1>3 DEF Flushed, Tracks
<1> QED
  BY <1>7, <1>8 DEF Flushed

LEMMA NextTableFlushed ==
    ASSUME IInv, Flushed, NEW t \in Threads, NextTable(t)
    PROVE  Flushed'
<1>1. /\ call \in [Threads -> Calls] /\ mem \in [Tables -> Data]
      /\ Placed(call[t]) /\ Tracks(t) /\ Flags
  BY DEF IInv, Shaped, Flushed
<1>2. \A u \in Threads \ {t} : call'[u] = call[u]
  BY <1>1 DEF dbVars, lockVars, contents, Simple, Calling, Idle, NextTable
<1>3. UNCHANGED <<mNeedsSync, notClosed, mRowModified, disk>>
  BY DEF dbVars, lockVars, contents, Simple, Calling, Idle, NextTable
<1>4. \A x \in Tables : mem'[x] = mem[x] \/ mRowModified[x]
  BY <1>1 DEF Placed, Tracks, dbVars, lockVars, contents, Simple, Calling, Idle, NextTable
<1>5. Tracks(t)'
  BY <1>1 DEF Placed, Tracks, Flags, Calls, dbVars, lockVars, contents, Simple, Calling, Idle, NextTable
<1> QED
  BY <1>2, <1>3, <1>4, <1>5, CalmStep

LEMMA SyncAllDoneFlushed ==
    ASSUME IInv, Flushed, NEW t \in Threads, SyncAllDone(t)
    PROVE  Flushed'
<1>1. /\ call \in [Threads -> Calls] /\ call[t].op = "syncAll" /\ mSync = t /\ Tracks(t) /\ Flags
      /\ call[t].pc = "nextTable" /\ call[t].todo = {}
  BY DEF IInv, Shaped, Flushed, SyncAllDone, Placed, Locked, WithDatabase
<1>2. /\ \A u \in Threads \ {t} : call'[u] = call[u]
      /\ call'[t].pc = "idle" /\ call'[t].op = "idle"
  BY <1>1, IdleShape DEF SyncAllDone
<1>3. ~mNeedsSync' /\ ~notClosed' /\ UNCHANGED <<mRowModified, mem, disk>>
  BY DEF SyncAllDone, contents
<1>4. \A tb \in Tables : ~mRowModified[tb]
  BY <1>1 DEF Tracks
<1>5. Flags'
  BY <1>1, <1>3, <1>4 DEF Flags, SyncAllDone
<1>6. Tracks(t)'
  BY <1>2 DEF Tracks
<1>7. ASSUME NEW u \in Threads, u # t PROVE Tracks(u)'
  <2>1. Tracks(u) /\ Locked(u) /\ call'[u] = call[u]
    BY <1>2, <1>7 DEF Flushed, IInv
  <2>2. call[u].pc # "notified"
    BY <2>1, <1>1, <1>7 DEF Locked, WithDatabase
  <2> QED
    BY <2>1, <2>2, <1>3 DEF Tracks
<1> QED
  BY <1>5, <1>6, <1>7 DEF Flushed

LEMMA FlushLockRowsFlushed ==
    ASSUME IInv, Flushed, NEW t \in Threads, FlushLockRows(t)
    PROVE  Flushed'
<1>1. /\ call \in [Threads -> Calls] /\ mem \in [Tables -> Data]
      /\ Placed(call[t]) /\ Tracks(t) /\ Flags
  BY DEF IInv, Shaped, Flushed
<1>2. \A u \in Threads \ {t} : call'[u] = call[u]
  BY <1>1 DEF dbVars, lockVars, contents, Simple, Calling, Idle, FlushLockRows, Goto, TakeRows
<1>3. UNCHANGED <<mNeedsSync, notClosed, mRowModified, disk>>
  BY DEF dbVars, lockVars, contents, Simple, Calling, Idle, FlushLockRows, Goto, TakeRows
<1>4. \A x \in Tables : mem'[x] = mem[x] \/ mRowModified[x]
  BY <1>1 DEF Placed, Tracks, dbVars, lockVars, contents, Simple, Calling, Idle, FlushLockRows, Goto, TakeRows
<1>5. Tracks(t)'
  BY <1>1 DEF Placed, Tracks, Flags, Calls, dbVars, lockVars, contents, Simple, Calling, Idle, FlushLockRows, Goto, TakeRows
<1> QED
  BY <1>2, <1>3, <1>4, <1>5, CalmStep

LEMMA FlushLockIndexesFlushed ==
    ASSUME IInv, Flushed, NEW t \in Threads, FlushLockIndexes(t)
    PROVE  Flushed'
<1>1. /\ call \in [Threads -> Calls] /\ mem \in [Tables -> Data]
      /\ Placed(call[t]) /\ Tracks(t) /\ Flags
  BY DEF IInv, Shaped, Flushed
<1>2. \A u \in Threads \ {t} : call'[u] = call[u]
  BY <1>1 DEF dbVars, lockVars, contents, Simple, Calling, Idle, FlushLockIndexes, Goto, FreeRows
<1>3. UNCHANGED <<mNeedsSync, notClosed, mRowModified, disk>>
  BY DEF dbVars, lockVars, contents, Simple, Calling, Idle, FlushLockIndexes, Goto, FreeRows
<1>4. \A x \in Tables : mem'[x] = mem[x] \/ mRowModified[x]
  BY <1>1 DEF Placed, Tracks, dbVars, lockVars, contents, Simple, Calling, Idle, FlushLockIndexes, Goto, FreeRows
<1>5. Tracks(t)'
  BY <1>1 DEF Placed, Tracks, Flags, Calls, dbVars, lockVars, contents, Simple, Calling, Idle, FlushLockIndexes, Goto, FreeRows
<1> QED
  BY <1>2, <1>3, <1>4, <1>5, CalmStep

LEMMA FlushInternalFlushed ==
    ASSUME IInv, Flushed, NEW t \in Threads, FlushInternal(t)
    PROVE  Flushed'
<1> DEFINE tb == call[t].tb
<1>1. /\ call \in [Threads -> Calls] /\ disk \in [Tables -> Files] /\ mRowModified \in [Tables -> BOOLEAN]
      /\ Placed(call[t]) /\ Locked(t) /\ Tracks(t) /\ Flags /\ call[t].pc = "flush" /\ tb \in Tables
      /\ mRowsSync[tb] = t /\ mIndexesSync[tb] = t
      /\ mem[tb].indexed => acquired[tb] = None
  BY DEF IInv, Shaped, Flushed, FlushInternal, Placed, Locked, WithRows, WithIndexes
<1>2. \/ call[t].op = "sort" /\ Goto(t, "locked")
      \/ call[t].op = "syncAll" /\ Goto(t, "nextTable")
      \/ call' = [call EXCEPT ![t] = Idle]
  BY DEF FlushInternal
<1>3. /\ \A u \in Threads \ {t} : call'[u] = call[u]
      /\ \/ call'[t].pc = "locked" /\ call'[t].op = "sort"
         \/ call'[t].pc = "idle" /\ call'[t].op = "idle"
         \/ /\ call'[t].pc = "nextTable" /\ call'[t].op = call[t].op
            /\ call'[t].tb = tb /\ call'[t].todo = call[t].todo
  BY <1>1, <1>2, GotoShape, IdleShape DEF Goto, Steps
<1>4. UNCHANGED <<mNeedsSync, notClosed, mem>>
  BY DEF FlushInternal
<1>5. /\ ~mRowModified'[tb] /\ \A x \in Tables : x # tb => mRowModified'[x] = mRowModified[x]
      /\ disk'[tb].modified = FALSE /\ disk'[tb].content = mem[tb]
      /\ \A x \in Tables : x # tb => disk'[x] = disk[x]
  BY <1>1 DEF FlushInternal
<1>6. Flags'
  <2>1. mNeedsSync' = notClosed'
    BY <1>1, <1>4 DEF Flags
  <2>2. ASSUME NEW x \in Tables
        PROVE  /\ disk'[x].modified = mRowModified'[x]
               /\ mRowModified'[x] => mNeedsSync'
               /\ ~mRowModified'[x] => disk'[x].content = mem'[x]
    <3>1. mRowModified'[tb] = FALSE
      BY <1>1 DEF FlushInternal
    <3>2. CASE x = tb
      BY <3>1, <3>2, <1>4, <1>5
    <3>3. CASE x # tb
      BY <3>3, <1>1, <1>4, <1>5 DEF Flags
    <3> QED
      BY <3>2, <3>3
  <2> QED
    BY <2>1, <2>2 DEF Flags
<1>7. Tracks(t)'
  <2>1. CASE call'[t].pc = "nextTable" /\ call'[t].op = "syncAll"
    BY <2>1, <1>1, <1>3, <1>5 DEF Tracks
  <2>2. CASE ~(call'[t].pc = "nextTable" /\ call'[t].op = "syncAll")
    BY <2>2, <1>1, <1>3, <1>5 DEF Tracks, Placed
  <2> QED
    BY <2>1, <2>2
<1>8. ASSUME NEW u \in Threads, u # t PROVE Tracks(u)'
  <2>1. Tracks(u) /\ Locked(u) /\ Sees(u) /\ Placed(call[u]) /\ call'[u] = call[u]
    BY <1>3, <1>8 DEF Flushed, IInv
  <2>2. ASSUME call[u].pc \in {"write", "acquire", "remove", "insert", "addLock", "addIndex"}
        PROVE  call[u].tb \in Tables /\ call[u].tb # tb
    <3>1. call[u].tb \in Tables /\ (WithRows(call[u]) \/ WithField(call[u]))
      BY <2>1, <2>2 DEF Placed, WithRows, WithField
    <3>2. CASE WithRows(call[u])
      BY <3>1, <3>2, <2>1, <1>1, <1>8 DEF Locked
    <3>3. CASE WithField(call[u])
      <4>1. mem[call[u].tb].indexed /\ acquired[call[u].tb] = u /\ u # None
        BY <3>3, <2>1, <2>2, TableSyncAssumption DEF Sees, WithField, Locked
      <4> QED
        BY <4>1, <3>1, <1>1
    <3> QED
      BY <3>1, <3>2, <3>3
  <2>3. call[u].pc \in {"write", "acquire", "remove", "insert", "addLock", "addIndex"} => mRowModified'[call[u].tb]
    BY <2>1, <2>2, <1>5 DEF Tracks
  <2>4. \A x \in Tables : ~mRowModified[x] => ~mRowModified'[x]
    BY <1>5
  <2> QED
    BY <2>1, <2>3, <2>4, <1>4 DEF Tracks
<1> QED
  BY <1>6, <1>7, <1>8 DEF Flushed

LEMMA LockInProgressFlushed ==
    ASSUME IInv, Flushed, NEW t \in Threads, LockInProgress(t)
    PROVE  Flushed'
<1>1. /\ call \in [Threads -> Calls] /\ mem \in [Tables -> Data]
      /\ Placed(call[t]) /\ Tracks(t) /\ Flags
  BY DEF IInv, Shaped, Flushed
<1>2. \A u \in Threads \ {t} : call'[u] = call[u]
  BY <1>1 DEF dbVars, lockVars, contents, Simple, Calling, Idle, LockInProgress, Goto
<1>3. UNCHANGED <<mNeedsSync, notClosed, mRowModified, disk>>
  BY DEF dbVars, lockVars, contents, Simple, Calling, Idle, LockInProgress, Goto
<1>4. \A x \in Tables : mem'[x] = mem[x] \/ mRowModified[x]
  BY <1>1 DEF Placed, Tracks, dbVars, lockVars, contents, Simple, Calling, Idle, LockInProgress, Goto
<1>5. Tracks(t)'
  BY <1>1 DEF Placed, Tracks, Flags, Calls, dbVars, lockVars, contents, Simple, Calling, Idle, LockInProgress, Goto
<1> QED
  BY <1>2, <1>3, <1>4, <1>5, CalmStep

LEMMA LockRowsFlushed ==
    ASSUME IInv, Flushed, NEW t \in Threads, LockRows(t)
    PROVE  Flushed'
<1>1. /\ call \in [Threads -> Calls] /\ mem \in [Tables -> Data]
      /\ Placed(call[t]) /\ Tracks(t) /\ Flags
  BY DEF IInv, Shaped, Flushed
<1>2. \A u \in Threads \ {t} : call'[u] = call[u]
  BY <1>1 DEF dbVars, lockVars, contents, Simple, Calling, Idle, LockRows, Goto, TakeRows
<1>3. UNCHANGED <<mNeedsSync, notClosed, mRowModified, disk>>
  BY DEF dbVars, lockVars, contents, Simple, Calling, Idle, LockRows, Goto, TakeRows
<1>4. \A x \in Tables : mem'[x] = mem[x] \/ mRowModified[x]
  BY <1>1 DEF Placed, Tracks, dbVars, lockVars, contents, Simple, Calling, Idle, LockRows, Goto, TakeRows
<1>5. Tracks(t)'
  BY <1>1 DEF Placed, Tracks, Flags, Calls, dbVars, lockVars, contents, Simple, Calling, Idle, LockRows, Goto, TakeRows
<1> QED
  BY <1>2, <1>3, <1>4, <1>5, CalmStep

LEMMA LockIndexesFlushed ==
    ASSUME IInv, Flushed, NEW t \in Threads, LockIndexes(t)
    PROVE  Flushed'
<1>1. /\ call \in [Threads -> Calls] /\ mem \in [Tables -> Data]
      /\ Placed(call[t]) /\ Tracks(t) /\ Flags
  BY DEF IInv, Shaped, Flushed
<1>2. \A u \in Threads \ {t} : call'[u] = call[u]
  BY <1>1 DEF dbVars, lockVars, contents, Simple, Calling, Idle, LockIndexes, Goto
<1>3. UNCHANGED <<mNeedsSync, notClosed, mRowModified, disk>>
  BY DEF dbVars, lockVars, contents, Simple, Calling, Idle, LockIndexes, Goto
<1>4. \A x \in Tables : mem'[x] = mem[x] \/ mRowModified[x]
  BY <1>1 DEF Placed, Tracks, dbVars, lockVars, contents, Simple, Calling, Idle, LockIndexes, Goto
<1>5. Tracks(t)'
  BY <1>1 DEF Placed, Tracks, Flags, Calls, dbVars, lockVars, contents, Simple, Calling, Idle, LockIndexes, Goto
<1> QED
  BY <1>2, <1>3, <1>4, <1>5, CalmStep

LEMMA UnlockTableFlushed ==
    ASSUME IInv, Flushed, NEW t \in Threads, UnlockTable(t)
    PROVE  Flushed'
<1>1. /\ call \in [Threads -> Calls] /\ mem \in [Tables -> Data]
      /\ Placed(call[t]) /\ Tracks(t) /\ Flags
  BY DEF IInv, Shaped, Flushed
<1>2. \A u \in Threads \ {t} : call'[u] = call[u]
  BY <1>1 DEF dbVars, lockVars, contents, Simple, Calling, Idle, UnlockTable, FreeRows
<1>3. UNCHANGED <<mNeedsSync, notClosed, mRowModified, disk>>
  BY DEF dbVars, lockVars, contents, Simple, Calling, Idle, UnlockTable, FreeRows
<1>4. \A x \in Tables : mem'[x] = mem[x] \/ mRowModified[x]
  BY <1>1 DEF Placed, Tracks, dbVars, lockVars, contents, Simple, Calling, Idle, UnlockTable, FreeRows
<1>5. Tracks(t)'
  BY <1>1 DEF Placed, Tracks, Flags, Calls, dbVars, lockVars, contents, Simple, Calling, Idle, UnlockTable, FreeRows
<1> QED
  BY <1>2, <1>3, <1>4, <1>5, CalmStep

LEMMA InitFlushed == Init => Flushed
<1> SUFFICES ASSUME Init PROVE Flushed
  OBVIOUS
<1>1. \A tb \in Tables : disk[tb].content = mem[tb] /\ disk[tb].modified = FALSE /\ ~mRowModified[tb]
  BY DEF Init
<1>2. \A tb \in Tables : mRowModified[tb] = FALSE
  BY DEF Init
<1>3. Flags
  BY <1>1, <1>2 DEF Init, Flags
<1>4. \A t \in Threads : call[t].pc = "idle" /\ call[t].op = "idle"
  BY DEF Init, Idle, Calling
<1> QED
  BY <1>3, <1>4 DEF Flushed, Tracks

LEMMA StartFlushed ==
    ASSUME IInv, Flushed, "createIndex" \notin Ops, NEW t \in Threads, NEW tb \in Tables, Start(t, tb)
    PROVE  Flushed'
<1>1. ~CreateIndex(t, tb)
  BY DEF CreateIndex, Starts
<1> QED
  BY <1>1, SetFlushed, AppendFlushed, AddRowFlushed, ExchangeRowsFlushed,
     MatchRowsFlushed, RemoveIndexFlushed, SyncTableContentFlushed, LockTableFlushed
     DEF Start

LEMMA StepFlushed ==
    ASSUME IInv, Flushed, NEW t \in Threads, Step(t)
    PROVE  Flushed'
  BY NotifyFlushed, NotifiedFlushed, MarkYieldFlushed, RemarkFlushed, MarkedFlushed,
     AddLockFlushed, AddIndexFlushed, WriteFlushed, AcquireFieldIndexFlushed, RemoveKeyFlushed,
     InsertKeyFlushed, RelockFlushed, MatchRowsWithIndexFlushed, DropIndexFlushed, NextTableFlushed,
     SyncAllDoneFlushed, FlushLockRowsFlushed, FlushLockIndexesFlushed, FlushInternalFlushed, LockInProgressFlushed,
     LockRowsFlushed, LockIndexesFlushed, UnlockTableFlushed
     DEF Step

LEMMA NextFlushed ==
    ASSUME "createIndex" \notin Ops
    PROVE  IInv /\ Flushed /\ [Next]_vars => Flushed'
<1> SUFFICES ASSUME IInv, Flushed, [Next]_vars PROVE Flushed'
  OBVIOUS
<1>1. ASSUME NEW t \in Threads, NEW tb \in Tables, Start(t, tb) PROVE Flushed'
  BY <1>1, StartFlushed
<1>2. ASSUME NEW t \in Threads, SyncAllTablesContent(t) PROVE Flushed'
  BY <1>2, SyncAllTablesContentFlushed
<1>3. ASSUME NEW t \in Threads, NEW r1 \in Rows, NEW r2 \in Rows, SortExchange(t, r1, r2) PROVE Flushed'
  BY <1>3, SortExchangeFlushed
<1>4. ASSUME NEW t \in Threads, Step(t) PROVE Flushed'
  BY <1>4, StepFlushed
<1>5. ASSUME UNCHANGED vars PROVE Flushed'
  BY <1>5 DEF vars, Flushed, Flags, Tracks
<1> QED
  BY <1>1, <1>2, <1>3, <1>4, <1>5 DEF Next

\* A crash is noticed: a database whose file says that it was closed, and a
\* table whose header says that it is not modified, have nothing in memory that
\* is not in their files.  Calls of CreateIndex are left out, which store the
\* header with the index in it before its nodes are written.
THEOREM CrashIsNoticed ==
    ASSUME "createIndex" \notin Ops
    PROVE  Spec => []CleanMeansFlushed
<1>1. Init => IInv /\ Flushed
  BY InitIInv, InitFlushed
<1>2. IInv /\ Flushed /\ [Next]_vars => IInv' /\ Flushed'
  BY NextIInv, NextFlushed
<1>3. Flushed => CleanMeansFlushed
  BY DEF Flushed, Flags, CleanMeansFlushed
<1> QED
  BY <1>1, <1>2, <1>3, PTL DEF Spec

-----------------------------------------------------------------------------
(* Rows are allocated without gaps, and there is room for those under way. *)

\* A call that has its row and its value, before and after the row has it.
Stores(c) == c.op \in {"set", "exchange", "sort"} /\ c.pc \in {"mark", "notified", "remark", "write"}
Behind(c) == c.pc \in {"acquire", "remove", "insert"}

\* The first n rows are allocated.
Extent(row, n) == n \in 0 .. MaxRows /\ \A r \in Rows : row[r] # Absent <=> r < n

Adders(tb) == {u \in Threads : call[u].tb = tb /\ call[u].op \in {"add", "append"}}

HasRoom(tb) ==
    \E n \in Nat : Extent(mem[tb].row, n) /\ n + Cardinality(Adders(tb)) <= MaxRows

\* The rows a call stores to exist, but for the one that is appended.
Standing(t) ==
    /\ Stores(call[t]) \/ Behind(call[t]) =>
        /\ call[t].row \in Rows /\ mem[call[t].tb].row[call[t].row] # Absent
        /\ call[t].other # None =>
            call[t].other \in Rows /\ mem[call[t].tb].row[call[t].other] # Absent
    /\ call[t].op = "append" =>
        /\ call[t].row \in Rows /\ call[t].row = Count(call[t].tb)
        /\ call[t].old = Null /\ call[t].other = None
        /\ call[t].pc \in {"mark", "notified", "addLock", "addIndex"}

Keyed(tb) ==
    mem[tb].keys \subseteq Values \X Rows /\ disk[tb].content.keys \subseteq Values \X Rows

TInv ==
    /\ \A tb \in Tables : Keyed(tb) /\ HasRoom(tb)
    /\ \A t \in Threads : Standing(t)

LEMMA ExtentCount ==
    ASSUME NEW row, NEW n, Extent(row, n)
    PROVE  Cardinality({r \in Rows : row[r] # Absent}) = n
<1>1. MaxRows \in Nat /\ n \in Nat /\ n <= MaxRows
  BY TableSyncAssumption DEF Extent
<1>2. {r \in Rows : row[r] # Absent} = 0 .. n - 1
  BY <1>1 DEF Extent, Rows
<1>3. Cardinality(0 .. n - 1) = n
  BY <1>1, FS_Interval
<1> QED
  BY <1>2, <1>3

LEMMA CountIs ==
    ASSUME NEW tb, NEW n, Extent(mem[tb].row, n)
    PROVE  Count(tb) = n
  BY ExtentCount DEF Count

LEMMA AddersCount ==
    ASSUME NEW tb
    PROVE  IsFiniteSet(Adders(tb)) /\ Cardinality(Adders(tb)) \in Nat
<1>1. IsFiniteSet(Adders(tb))
  BY TableSyncAssumption, FS_Subset DEF Adders
<1> QED
  BY <1>1, FS_CardinalityType

LEMMA GrowsInRows ==
    ASSUME NEW tb, MayGrow(tb)
    PROVE  Count(tb) \in Rows
<1>1. Cardinality(Adders(tb)) \in Nat /\ Count(tb) \in Nat /\ MaxRows \in Nat
  BY AddersCount, CountNat, TableSyncAssumption
<1>2. Count(tb) + Cardinality(Adders(tb)) < MaxRows
  BY DEF MayGrow, Adders
<1> QED
  BY <1>1, <1>2 DEF Rows

\* A step that allocates no row; a call that begins to add one has room for it.
LEMMA CalmPlaced ==
    ASSUME IInv, TInv, NEW t \in Threads, \A u \in Threads \ {t} : call'[u] = call[u],
           \A x \in Tables : Keyed(x)' /\ \A r \in Rows : mem'[x].row[r] # Absent <=> mem[x].row[r] # Absent,
           Standing(t)',
           call'[t].op \in {"add", "append"} =>
             (call[t].op \in {"add", "append"} /\ call'[t].tb = call[t].tb) \/ MayGrow(call'[t].tb)
    PROVE  TInv'
<1>1. ASSUME NEW tb \in Tables PROVE HasRoom(tb)'
  <2>2. PICK n \in Nat : Extent(mem[tb].row, n) /\ n + Cardinality(Adders(tb)) <= MaxRows
    BY <1>1 DEF TInv, HasRoom
  <2>3. Extent(mem'[tb].row, n)
    BY <2>2 DEF Extent
  <2>4. n + Cardinality(Adders(tb)') <= MaxRows
    <3>1. /\ IsFiniteSet(Adders(tb)) /\ Cardinality(Adders(tb)) \in Nat
          /\ IsFiniteSet(Threads) /\ MaxRows \in Nat
      BY AddersCount, TableSyncAssumption
    <3>2. CASE Adders(tb)' \subseteq Adders(tb)
      <4>1. Cardinality(Adders(tb)') <= Cardinality(Adders(tb)) /\ Cardinality(Adders(tb)') \in Nat
        BY <3>1, <3>2, FS_Subset, FS_CardinalityType
      <4> QED
        BY <4>1, <2>2, <3>1
    <3>3. CASE ~(Adders(tb)' \subseteq Adders(tb))
      <4>1. Adders(tb)' \subseteq Adders(tb) \cup {t}
        BY DEF Adders
      <4>2. MayGrow(tb) /\ t \notin Adders(tb) /\ Adders(tb)' = Adders(tb) \cup {t}
        BY <3>3, <4>1 DEF Adders
      <4>3. Cardinality(Adders(tb)') = Cardinality(Adders(tb)) + 1
        BY <3>1, <4>2, FS_AddElement
      <4>4. Count(tb) = n
        BY <2>2, CountIs
      <4>5. n + Cardinality(Adders(tb)) < MaxRows
        BY <4>2, <4>4 DEF MayGrow, Adders
      <4> QED
        BY <4>3, <4>5, <3>1
    <3> QED
      BY <3>2, <3>3
  <2> QED
    BY <2>3, <2>4 DEF HasRoom
<1>2. ASSUME NEW u \in Threads, u # t PROVE Standing(u)'
  <2>1. call'[u] = call[u] /\ Standing(u)
    BY <1>2 DEF TInv
  <2>2. /\ Stores(call[u]) \/ Behind(call[u]) => call[u].tb \in Tables
        /\ call[u].op = "append" => call[u].tb \in Tables
    BY <1>2, <2>1 DEF IInv, Placed, Stores, Behind, Standing
  <2>3. ASSUME NEW x \in Tables PROVE Count(x)' = Count(x)
    <3>1. {r \in Rows : mem'[x].row[r] # Absent} = {r \in Rows : mem[x].row[r] # Absent}
      OBVIOUS
    <3> QED
      BY <3>1 DEF Count
  <2> QED
    BY <2>1, <2>2, <2>3 DEF Standing
<1> QED
  BY <1>1, <1>2 DEF TInv

LEMMA SetPlaced ==
    ASSUME IInv, TInv, NEW t \in Threads, NEW tb \in Tables, NEW r \in Rows, NEW v \in Values, Set(t, tb, r, v)
    PROVE  TInv'
<1>1. /\ call \in [Threads -> Calls] /\ mem \in [Tables -> Data] /\ disk \in [Tables -> Files]
      /\ Placed(call[t]) /\ Standing(t)
  BY DEF IInv, Shaped, TInv
<1>2. \A u \in Threads \ {t} : call'[u] = call[u]
  BY <1>1 DEF dbVars, lockVars, contents, Simple, Calling, Idle, Set, Starts, TakeRows
<1>3. \A x \in Tables : Keyed(x)' /\ \A q \in Rows : mem'[x].row[q] # Absent <=> mem[x].row[q] # Absent
  <2>1. mem' = mem /\ \A x \in Tables : disk'[x].content.keys \in {disk[x].content.keys, mem[x].keys}
    BY <1>1 DEF dbVars, lockVars, contents, Simple, Calling, Idle, Set, Starts, TakeRows
  <2> QED
    BY <2>1 DEF TInv, Keyed
<1>4. Standing(t)'
  BY <1>1, TableSyncAssumption DEF Placed, Standing, Stores, Behind, Count, Calls, Rows, dbVars, lockVars, contents, Simple, Calling, Idle, Set, Starts, TakeRows
<1>5. call'[t].op \in {"add", "append"} =>
        (call[t].op \in {"add", "append"} /\ call'[t].tb = call[t].tb) \/ MayGrow(call'[t].tb)
  BY <1>1 DEF Placed, dbVars, lockVars, contents, Simple, Calling, Idle, Set, Starts, TakeRows
<1> QED
  BY <1>2, <1>3, <1>4, <1>5, CalmPlaced

LEMMA AppendPlaced ==
    ASSUME IInv, TInv, NEW t \in Threads, NEW tb \in Tables, NEW v \in Values, Append(t, tb, v)
    PROVE  TInv'
<1>1. /\ call \in [Threads -> Calls] /\ mem \in [Tables -> Data] /\ disk \in [Tables -> Files]
      /\ Placed(call[t]) /\ Standing(t)
  BY DEF IInv, Shaped, TInv
<1>2. \A u \in Threads \ {t} : call'[u] = call[u]
  BY <1>1 DEF dbVars, lockVars, contents, Simple, Calling, Idle, Append, Starts, TakeRows
<1>3. \A x \in Tables : Keyed(x)' /\ \A r \in Rows : mem'[x].row[r] # Absent <=> mem[x].row[r] # Absent
  <2>1. mem' = mem /\ \A x \in Tables : disk'[x].content.keys \in {disk[x].content.keys, mem[x].keys}
    BY <1>1 DEF dbVars, lockVars, contents, Simple, Calling, Idle, Append, Starts, TakeRows
  <2> QED
    BY <2>1 DEF TInv, Keyed
<1>4. Standing(t)'
  <2>1. Count(tb) \in Rows /\ mem' = mem
    BY GrowsInRows DEF Append, contents
  <2>2. call' = [call EXCEPT ![t] = Calling("append", "mark", tb, Count(tb), v, Null, None, {})]
    BY DEF Append
  <2>3. Count(tb)' = Count(tb)
    BY <2>1 DEF Count
  <2>4. /\ call'[t].op = "append" /\ call'[t].pc = "mark" /\ call'[t].row = Count(tb)
        /\ call'[t].tb = tb /\ call'[t].old = Null /\ call'[t].other = None
    BY <1>1, <2>2 DEF Calling
  <2> QED
    BY <2>1, <2>3, <2>4 DEF Standing, Stores, Behind
<1>5. call'[t].op \in {"add", "append"} =>
        (call[t].op \in {"add", "append"} /\ call'[t].tb = call[t].tb) \/ MayGrow(call'[t].tb)
  BY <1>1 DEF Placed, dbVars, lockVars, contents, Simple, Calling, Idle, Append, Starts, TakeRows
<1> QED
  BY <1>2, <1>3, <1>4, <1>5, CalmPlaced

LEMMA AddRowPlaced ==
    ASSUME IInv, TInv, NEW t \in Threads, NEW tb \in Tables, AddRow(t, tb)
    PROVE  TInv'
<1>1. /\ call \in [Threads -> Calls] /\ mem \in [Tables -> Data] /\ disk \in [Tables -> Files]
      /\ Placed(call[t]) /\ Standing(t)
  BY DEF IInv, Shaped, TInv
<1>2. \A u \in Threads \ {t} : call'[u] = call[u]
  BY <1>1 DEF dbVars, lockVars, contents, Simple, Calling, Idle, AddRow, Starts, TakeRows
<1>3. \A x \in Tables : Keyed(x)' /\ \A r \in Rows : mem'[x].row[r] # Absent <=> mem[x].row[r] # Absent
  <2>1. mem' = mem /\ \A x \in Tables : disk'[x].content.keys \in {disk[x].content.keys, mem[x].keys}
    BY <1>1 DEF dbVars, lockVars, contents, Simple, Calling, Idle, AddRow, Starts, TakeRows
  <2> QED
    BY <2>1 DEF TInv, Keyed
<1>4. Standing(t)'
  BY <1>1, TableSyncAssumption DEF Placed, Standing, Stores, Behind, Count, Calls, Rows, dbVars, lockVars, contents, Simple, Calling, Idle, AddRow, Starts, TakeRows
<1>5. call'[t].op \in {"add", "append"} =>
        (call[t].op \in {"add", "append"} /\ call'[t].tb = call[t].tb) \/ MayGrow(call'[t].tb)
  BY <1>1 DEF Placed, dbVars, lockVars, contents, Simple, Calling, Idle, AddRow, Starts, TakeRows
<1> QED
  BY <1>2, <1>3, <1>4, <1>5, CalmPlaced

LEMMA ExchangeRowsPlaced ==
    ASSUME IInv, TInv, NEW t \in Threads, NEW tb \in Tables, NEW r1 \in Rows, NEW r2 \in Rows, ExchangeRows(t, tb, r1, r2)
    PROVE  TInv'
<1>1. /\ call \in [Threads -> Calls] /\ mem \in [Tables -> Data] /\ disk \in [Tables -> Files]
      /\ Placed(call[t]) /\ Standing(t)
  BY DEF IInv, Shaped, TInv
<1>2. \A u \in Threads \ {t} : call'[u] = call[u]
  BY <1>1 DEF dbVars, lockVars, contents, Simple, Calling, Idle, ExchangeRows, Exchange, Starts, TakeRows
<1>3. \A x \in Tables : Keyed(x)' /\ \A r \in Rows : mem'[x].row[r] # Absent <=> mem[x].row[r] # Absent
  <2>1. mem' = mem /\ \A x \in Tables : disk'[x].content.keys \in {disk[x].content.keys, mem[x].keys}
    BY <1>1 DEF dbVars, lockVars, contents, Simple, Calling, Idle, ExchangeRows, Exchange, Starts, TakeRows
  <2> QED
    BY <2>1 DEF TInv, Keyed
<1>4. Standing(t)'
  BY <1>1, TableSyncAssumption DEF Placed, Standing, Stores, Behind, Count, Calls, Rows, dbVars, lockVars, contents, Simple, Calling, Idle, ExchangeRows, Exchange, Starts, TakeRows
<1>5. call'[t].op \in {"add", "append"} =>
        (call[t].op \in {"add", "append"} /\ call'[t].tb = call[t].tb) \/ MayGrow(call'[t].tb)
  BY <1>1 DEF Placed, dbVars, lockVars, contents, Simple, Calling, Idle, ExchangeRows, Exchange, Starts, TakeRows
<1> QED
  BY <1>2, <1>3, <1>4, <1>5, CalmPlaced

LEMMA MatchRowsPlaced ==
    ASSUME IInv, TInv, NEW t \in Threads, NEW tb \in Tables, MatchRows(t, tb)
    PROVE  TInv'
<1>1. /\ call \in [Threads -> Calls] /\ mem \in [Tables -> Data] /\ disk \in [Tables -> Files]
      /\ Placed(call[t]) /\ Standing(t)
  BY DEF IInv, Shaped, TInv
<1>2. \A u \in Threads \ {t} : call'[u] = call[u]
  BY <1>1 DEF dbVars, lockVars, contents, Simple, Calling, Idle, MatchRows, Starts
<1>3. \A x \in Tables : Keyed(x)' /\ \A r \in Rows : mem'[x].row[r] # Absent <=> mem[x].row[r] # Absent
  <2>1. mem' = mem /\ \A x \in Tables : disk'[x].content.keys \in {disk[x].content.keys, mem[x].keys}
    BY <1>1 DEF dbVars, lockVars, contents, Simple, Calling, Idle, MatchRows, Starts
  <2> QED
    BY <2>1 DEF TInv, Keyed
<1>4. Standing(t)'
  BY <1>1, TableSyncAssumption DEF Placed, Standing, Stores, Behind, Count, Calls, Rows, dbVars, lockVars, contents, Simple, Calling, Idle, MatchRows, Starts
<1>5. call'[t].op \in {"add", "append"} =>
        (call[t].op \in {"add", "append"} /\ call'[t].tb = call[t].tb) \/ MayGrow(call'[t].tb)
  BY <1>1 DEF Placed, dbVars, lockVars, contents, Simple, Calling, Idle, MatchRows, Starts
<1> QED
  BY <1>2, <1>3, <1>4, <1>5, CalmPlaced

LEMMA CreateIndexPlaced ==
    ASSUME IInv, TInv, NEW t \in Threads, NEW tb \in Tables, CreateIndex(t, tb)
    PROVE  TInv'
<1>1. /\ call \in [Threads -> Calls] /\ mem \in [Tables -> Data] /\ disk \in [Tables -> Files]
      /\ Placed(call[t]) /\ Standing(t)
  BY DEF IInv, Shaped, TInv
<1>2. \A u \in Threads \ {t} : call'[u] = call[u]
  BY <1>1 DEF dbVars, lockVars, contents, Simple, Calling, Idle, CreateIndex, Starts
<1>3. \A x \in Tables : Keyed(x)' /\ \A r \in Rows : mem'[x].row[r] # Absent <=> mem[x].row[r] # Absent
  <2>1. KeysOf(mem[tb].row) \in AnyKeys /\ KeysOf(mem[tb].row) \subseteq Values \X Rows
    <3>1. mem[tb].row \in [Rows -> Values \cup {Absent}]
      BY <1>1 DEF Data
    <3> QED
      BY <3>1, KeysOfShape DEF KeysOf
  <2>2. mem' = [mem EXCEPT ![tb].indexed = TRUE, ![tb].keys = KeysOf(mem[tb].row)]
    BY DEF CreateIndex
  <2>3. \A x \in Tables : mem'[x] =
          IF x = tb THEN [row |-> mem[tb].row, indexed |-> TRUE, keys |-> KeysOf(mem[tb].row)] ELSE mem[x]
    <3> DEFINE k == KeysOf(mem[tb].row)
    <3>1. k \in AnyKeys /\ mem' = [mem EXCEPT ![tb].indexed = TRUE, ![tb].keys = k]
      BY <2>1, <2>2
    <3> HIDE DEF k
    <3>2. \A x \in Tables : [mem EXCEPT ![tb].indexed = TRUE, ![tb].keys = k][x] =
            IF x = tb THEN [row |-> mem[tb].row, indexed |-> TRUE, keys |-> k] ELSE mem[x]
      BY ZenonT(60), <1>1, <3>1, IndexShape
    <3> QED
      BY <3>1, <3>2 DEF k
  <2>4. \A x \in Tables : disk'[x].content.keys = disk[x].content.keys
    BY <1>1 DEF CreateIndex, Files, Data
  <2> QED
    BY <2>1, <2>3, <2>4 DEF TInv, Keyed
<1>4. Standing(t)'
  BY <1>1, TableSyncAssumption DEF Placed, Standing, Stores, Behind, Count, Calls, Rows, dbVars, lockVars, contents, Simple, Calling, Idle, CreateIndex, Starts
<1>5. call'[t].op \in {"add", "append"} =>
        (call[t].op \in {"add", "append"} /\ call'[t].tb = call[t].tb) \/ MayGrow(call'[t].tb)
  BY <1>1 DEF Placed, dbVars, lockVars, contents, Simple, Calling, Idle, CreateIndex, Starts
<1> QED
  BY <1>2, <1>3, <1>4, <1>5, CalmPlaced

LEMMA RemoveIndexPlaced ==
    ASSUME IInv, TInv, NEW t \in Threads, NEW tb \in Tables, RemoveIndex(t, tb)
    PROVE  TInv'
<1>1. /\ call \in [Threads -> Calls] /\ mem \in [Tables -> Data] /\ disk \in [Tables -> Files]
      /\ Placed(call[t]) /\ Standing(t)
  BY DEF IInv, Shaped, TInv
<1>2. \A u \in Threads \ {t} : call'[u] = call[u]
  BY <1>1 DEF dbVars, lockVars, contents, Simple, Calling, Idle, RemoveIndex, Starts, TakeRows
<1>3. \A x \in Tables : Keyed(x)' /\ \A r \in Rows : mem'[x].row[r] # Absent <=> mem[x].row[r] # Absent
  <2>1. mem' = mem /\ \A x \in Tables : disk'[x].content.keys \in {disk[x].content.keys, mem[x].keys}
    BY <1>1 DEF dbVars, lockVars, contents, Simple, Calling, Idle, RemoveIndex, Starts, TakeRows
  <2> QED
    BY <2>1 DEF TInv, Keyed
<1>4. Standing(t)'
  BY <1>1, TableSyncAssumption DEF Placed, Standing, Stores, Behind, Count, Calls, Rows, dbVars, lockVars, contents, Simple, Calling, Idle, RemoveIndex, Starts, TakeRows
<1>5. call'[t].op \in {"add", "append"} =>
        (call[t].op \in {"add", "append"} /\ call'[t].tb = call[t].tb) \/ MayGrow(call'[t].tb)
  BY <1>1 DEF Placed, dbVars, lockVars, contents, Simple, Calling, Idle, RemoveIndex, Starts, TakeRows
<1> QED
  BY <1>2, <1>3, <1>4, <1>5, CalmPlaced

LEMMA SyncTableContentPlaced ==
    ASSUME IInv, TInv, NEW t \in Threads, NEW tb \in Tables, SyncTableContent(t, tb)
    PROVE  TInv'
<1>1. /\ call \in [Threads -> Calls] /\ mem \in [Tables -> Data] /\ disk \in [Tables -> Files]
      /\ Placed(call[t]) /\ Standing(t)
  BY DEF IInv, Shaped, TInv
<1>2. \A u \in Threads \ {t} : call'[u] = call[u]
  BY <1>1 DEF dbVars, lockVars, contents, Simple, Calling, Idle, SyncTableContent, Starts
<1>3. \A x \in Tables : Keyed(x)' /\ \A r \in Rows : mem'[x].row[r] # Absent <=> mem[x].row[r] # Absent
  <2>1. mem' = mem /\ \A x \in Tables : disk'[x].content.keys \in {disk[x].content.keys, mem[x].keys}
    BY <1>1 DEF dbVars, lockVars, contents, Simple, Calling, Idle, SyncTableContent, Starts
  <2> QED
    BY <2>1 DEF TInv, Keyed
<1>4. Standing(t)'
  BY <1>1, TableSyncAssumption DEF Placed, Standing, Stores, Behind, Count, Calls, Rows, dbVars, lockVars, contents, Simple, Calling, Idle, SyncTableContent, Starts
<1>5. call'[t].op \in {"add", "append"} =>
        (call[t].op \in {"add", "append"} /\ call'[t].tb = call[t].tb) \/ MayGrow(call'[t].tb)
  BY <1>1 DEF Placed, dbVars, lockVars, contents, Simple, Calling, Idle, SyncTableContent, Starts
<1> QED
  BY <1>2, <1>3, <1>4, <1>5, CalmPlaced

LEMMA LockTablePlaced ==
    ASSUME IInv, TInv, NEW t \in Threads, NEW tb \in Tables, LockTable(t, tb)
    PROVE  TInv'
<1>1. /\ call \in [Threads -> Calls] /\ mem \in [Tables -> Data] /\ disk \in [Tables -> Files]
      /\ Placed(call[t]) /\ Standing(t)
  BY DEF IInv, Shaped, TInv
<1>2. \A u \in Threads \ {t} : call'[u] = call[u]
  BY <1>1 DEF dbVars, lockVars, contents, Simple, Calling, Idle, LockTable, Starts
<1>3. \A x \in Tables : Keyed(x)' /\ \A r \in Rows : mem'[x].row[r] # Absent <=> mem[x].row[r] # Absent
  <2>1. mem' = mem /\ \A x \in Tables : disk'[x].content.keys \in {disk[x].content.keys, mem[x].keys}
    BY <1>1 DEF dbVars, lockVars, contents, Simple, Calling, Idle, LockTable, Starts
  <2> QED
    BY <2>1 DEF TInv, Keyed
<1>4. Standing(t)'
  BY <1>1, TableSyncAssumption DEF Placed, Standing, Stores, Behind, Count, Calls, Rows, dbVars, lockVars, contents, Simple, Calling, Idle, LockTable, Starts
<1>5. call'[t].op \in {"add", "append"} =>
        (call[t].op \in {"add", "append"} /\ call'[t].tb = call[t].tb) \/ MayGrow(call'[t].tb)
  BY <1>1 DEF Placed, dbVars, lockVars, contents, Simple, Calling, Idle, LockTable, Starts
<1> QED
  BY <1>2, <1>3, <1>4, <1>5, CalmPlaced

LEMMA SyncAllTablesContentPlaced ==
    ASSUME IInv, TInv, NEW t \in Threads, SyncAllTablesContent(t)
    PROVE  TInv'
<1>1. /\ call \in [Threads -> Calls] /\ mem \in [Tables -> Data] /\ disk \in [Tables -> Files]
      /\ Placed(call[t]) /\ Standing(t)
  BY DEF IInv, Shaped, TInv
<1>2. \A u \in Threads \ {t} : call'[u] = call[u]
  BY <1>1 DEF dbVars, lockVars, contents, Simple, Calling, Idle, SyncAllTablesContent, Starts
<1>3. \A x \in Tables : Keyed(x)' /\ \A r \in Rows : mem'[x].row[r] # Absent <=> mem[x].row[r] # Absent
  <2>1. mem' = mem /\ \A x \in Tables : disk'[x].content.keys \in {disk[x].content.keys, mem[x].keys}
    BY <1>1 DEF dbVars, lockVars, contents, Simple, Calling, Idle, SyncAllTablesContent, Starts
  <2> QED
    BY <2>1 DEF TInv, Keyed
<1>4. Standing(t)'
  BY <1>1, TableSyncAssumption DEF Placed, Standing, Stores, Behind, Count, Calls, Rows, dbVars, lockVars, contents, Simple, Calling, Idle, SyncAllTablesContent, Starts
<1>5. call'[t].op \in {"add", "append"} =>
        (call[t].op \in {"add", "append"} /\ call'[t].tb = call[t].tb) \/ MayGrow(call'[t].tb)
  BY <1>1 DEF Placed, dbVars, lockVars, contents, Simple, Calling, Idle, SyncAllTablesContent, Starts
<1> QED
  BY <1>2, <1>3, <1>4, <1>5, CalmPlaced

LEMMA SortExchangePlaced ==
    ASSUME IInv, TInv, NEW t \in Threads, NEW r1 \in Rows, NEW r2 \in Rows, SortExchange(t, r1, r2)
    PROVE  TInv'
<1>1. /\ call \in [Threads -> Calls] /\ mem \in [Tables -> Data] /\ disk \in [Tables -> Files]
      /\ Placed(call[t]) /\ Standing(t)
  BY DEF IInv, Shaped, TInv
<1>2. \A u \in Threads \ {t} : call'[u] = call[u]
  BY <1>1 DEF dbVars, lockVars, contents, Simple, Calling, Idle, SortExchange, Exchange
<1>3. \A x \in Tables : Keyed(x)' /\ \A r \in Rows : mem'[x].row[r] # Absent <=> mem[x].row[r] # Absent
  <2>1. mem' = mem /\ \A x \in Tables : disk'[x].content.keys \in {disk[x].content.keys, mem[x].keys}
    BY <1>1 DEF dbVars, lockVars, contents, Simple, Calling, Idle, SortExchange, Exchange
  <2> QED
    BY <2>1 DEF TInv, Keyed
<1>4. Standing(t)'
  BY <1>1, TableSyncAssumption DEF Placed, Standing, Stores, Behind, Count, Calls, Rows, dbVars, lockVars, contents, Simple, Calling, Idle, SortExchange, Exchange
<1>5. call'[t].op \in {"add", "append"} =>
        (call[t].op \in {"add", "append"} /\ call'[t].tb = call[t].tb) \/ MayGrow(call'[t].tb)
  BY <1>1 DEF Placed, dbVars, lockVars, contents, Simple, Calling, Idle, SortExchange, Exchange
<1> QED
  BY <1>2, <1>3, <1>4, <1>5, CalmPlaced

LEMMA NotifyPlaced ==
    ASSUME IInv, TInv, NEW t \in Threads, Notify(t)
    PROVE  TInv'
<1>1. /\ call \in [Threads -> Calls] /\ mem \in [Tables -> Data] /\ disk \in [Tables -> Files]
      /\ Placed(call[t]) /\ Standing(t)
  BY DEF IInv, Shaped, TInv
<1>2. \A u \in Threads \ {t} : call'[u] = call[u]
  BY <1>1 DEF dbVars, lockVars, contents, Simple, Calling, Idle, Notify, Goto
<1>3. \A x \in Tables : Keyed(x)' /\ \A r \in Rows : mem'[x].row[r] # Absent <=> mem[x].row[r] # Absent
  <2>1. mem' = mem /\ \A x \in Tables : disk'[x].content.keys \in {disk[x].content.keys, mem[x].keys}
    BY <1>1 DEF dbVars, lockVars, contents, Simple, Calling, Idle, Notify, Goto
  <2> QED
    BY <2>1 DEF TInv, Keyed
<1>4. Standing(t)'
  BY <1>1, TableSyncAssumption DEF Placed, Standing, Stores, Behind, Count, Calls, Rows, dbVars, lockVars, contents, Simple, Calling, Idle, Notify, Goto
<1>5. call'[t].op \in {"add", "append"} =>
        (call[t].op \in {"add", "append"} /\ call'[t].tb = call[t].tb) \/ MayGrow(call'[t].tb)
  BY <1>1 DEF Placed, dbVars, lockVars, contents, Simple, Calling, Idle, Notify, Goto
<1> QED
  BY <1>2, <1>3, <1>4, <1>5, CalmPlaced

LEMMA NotifiedPlaced ==
    ASSUME IInv, TInv, NEW t \in Threads, Notified(t)
    PROVE  TInv'
<1>1. /\ call \in [Threads -> Calls] /\ mem \in [Tables -> Data] /\ disk \in [Tables -> Files]
      /\ Placed(call[t]) /\ Standing(t)
  BY DEF IInv, Shaped, TInv
<1>2. \A u \in Threads \ {t} : call'[u] = call[u]
  BY <1>1 DEF dbVars, lockVars, contents, Simple, Calling, Idle, Notified, Goto
<1>3. \A x \in Tables : Keyed(x)' /\ \A r \in Rows : mem'[x].row[r] # Absent <=> mem[x].row[r] # Absent
  <2>1. mem' = mem /\ \A x \in Tables : disk'[x].content.keys \in {disk[x].content.keys, mem[x].keys}
    BY <1>1 DEF dbVars, lockVars, contents, Simple, Calling, Idle, Notified, Goto
  <2> QED
    BY <2>1 DEF TInv, Keyed
<1>4. Standing(t)'
  BY <1>1, TableSyncAssumption DEF Placed, Standing, Stores, Behind, Count, Calls, Rows, dbVars, lockVars, contents, Simple, Calling, Idle, Notified, Goto
<1>5. call'[t].op \in {"add", "append"} =>
        (call[t].op \in {"add", "append"} /\ call'[t].tb = call[t].tb) \/ MayGrow(call'[t].tb)
  BY <1>1 DEF Placed, dbVars, lockVars, contents, Simple, Calling, Idle, Notified, Goto
<1> QED
  BY <1>2, <1>3, <1>4, <1>5, CalmPlaced

LEMMA MarkYieldPlaced ==
    ASSUME IInv, TInv, NEW t \in Threads, MarkYield(t)
    PROVE  TInv'
<1>1. /\ call \in [Threads -> Calls] /\ mem \in [Tables -> Data] /\ disk \in [Tables -> Files]
      /\ Placed(call[t]) /\ Standing(t)
  BY DEF IInv, Shaped, TInv
<1>2. \A u \in Threads \ {t} : call'[u] = call[u]
  BY <1>1 DEF dbVars, lockVars, contents, Simple, Calling, Idle, MarkYield, Goto, FreeRows, ThreadSafe
<1>3. \A x \in Tables : Keyed(x)' /\ \A r \in Rows : mem'[x].row[r] # Absent <=> mem[x].row[r] # Absent
  <2>1. mem' = mem /\ \A x \in Tables : disk'[x].content.keys \in {disk[x].content.keys, mem[x].keys}
    BY <1>1 DEF dbVars, lockVars, contents, Simple, Calling, Idle, MarkYield, Goto, FreeRows, ThreadSafe
  <2> QED
    BY <2>1 DEF TInv, Keyed
<1>4. Standing(t)'
  BY <1>1, TableSyncAssumption DEF Placed, Standing, Stores, Behind, Count, Calls, Rows, dbVars, lockVars, contents, Simple, Calling, Idle, MarkYield, Goto, FreeRows, ThreadSafe
<1>5. call'[t].op \in {"add", "append"} =>
        (call[t].op \in {"add", "append"} /\ call'[t].tb = call[t].tb) \/ MayGrow(call'[t].tb)
  BY <1>1 DEF Placed, dbVars, lockVars, contents, Simple, Calling, Idle, MarkYield, Goto, FreeRows, ThreadSafe
<1> QED
  BY <1>2, <1>3, <1>4, <1>5, CalmPlaced

LEMMA RemarkPlaced ==
    ASSUME IInv, TInv, NEW t \in Threads, Remark(t)
    PROVE  TInv'
<1>1. /\ call \in [Threads -> Calls] /\ mem \in [Tables -> Data] /\ disk \in [Tables -> Files]
      /\ Placed(call[t]) /\ Standing(t)
  BY DEF IInv, Shaped, TInv
<1>2. \A u \in Threads \ {t} : call'[u] = call[u]
  BY <1>1 DEF dbVars, lockVars, contents, Simple, Calling, Idle, Remark, Goto, TakeRows
<1>3. \A x \in Tables : Keyed(x)' /\ \A r \in Rows : mem'[x].row[r] # Absent <=> mem[x].row[r] # Absent
  <2>1. mem' = mem /\ \A x \in Tables : disk'[x].content.keys \in {disk[x].content.keys, mem[x].keys}
    BY <1>1 DEF dbVars, lockVars, contents, Simple, Calling, Idle, Remark, Goto, TakeRows
  <2> QED
    BY <2>1 DEF TInv, Keyed
<1>4. Standing(t)'
  BY <1>1, TableSyncAssumption DEF Placed, Standing, Stores, Behind, Count, Calls, Rows, dbVars, lockVars, contents, Simple, Calling, Idle, Remark, Goto, TakeRows
<1>5. call'[t].op \in {"add", "append"} =>
        (call[t].op \in {"add", "append"} /\ call'[t].tb = call[t].tb) \/ MayGrow(call'[t].tb)
  BY <1>1 DEF Placed, dbVars, lockVars, contents, Simple, Calling, Idle, Remark, Goto, TakeRows
<1> QED
  BY <1>2, <1>3, <1>4, <1>5, CalmPlaced

LEMMA MarkedPlaced ==
    ASSUME IInv, TInv, NEW t \in Threads, Marked(t)
    PROVE  TInv'
<1>1. /\ call \in [Threads -> Calls] /\ mem \in [Tables -> Data] /\ disk \in [Tables -> Files]
      /\ Placed(call[t]) /\ Standing(t)
  BY DEF IInv, Shaped, TInv
<1>2. \A u \in Threads \ {t} : call'[u] = call[u]
  BY <1>1 DEF dbVars, lockVars, contents, Simple, Calling, Idle, Marked, Goto
<1>3. \A x \in Tables : Keyed(x)' /\ \A r \in Rows : mem'[x].row[r] # Absent <=> mem[x].row[r] # Absent
  <2>1. mem' = mem /\ \A x \in Tables : disk'[x].content.keys \in {disk[x].content.keys, mem[x].keys}
    BY <1>1 DEF dbVars, lockVars, contents, Simple, Calling, Idle, Marked, Goto
  <2> QED
    BY <2>1 DEF TInv, Keyed
<1>4. Standing(t)'
  BY <1>1, TableSyncAssumption DEF Placed, Standing, Stores, Behind, Count, Calls, Rows, dbVars, lockVars, contents, Simple, Calling, Idle, Marked, Goto
<1>5. call'[t].op \in {"add", "append"} =>
        (call[t].op \in {"add", "append"} /\ call'[t].tb = call[t].tb) \/ MayGrow(call'[t].tb)
  BY <1>1 DEF Placed, dbVars, lockVars, contents, Simple, Calling, Idle, Marked, Goto
<1> QED
  BY <1>2, <1>3, <1>4, <1>5, CalmPlaced

LEMMA AddLockPlaced ==
    ASSUME IInv, TInv, NEW t \in Threads, AddLock(t)
    PROVE  TInv'
<1>1. /\ call \in [Threads -> Calls] /\ mem \in [Tables -> Data] /\ disk \in [Tables -> Files]
      /\ Placed(call[t]) /\ Standing(t)
  BY DEF IInv, Shaped, TInv
<1>2. \A u \in Threads \ {t} : call'[u] = call[u]
  BY <1>1 DEF dbVars, lockVars, contents, Simple, Calling, Idle, AddLock, Goto
<1>3. \A x \in Tables : Keyed(x)' /\ \A r \in Rows : mem'[x].row[r] # Absent <=> mem[x].row[r] # Absent
  <2>1. mem' = mem /\ \A x \in Tables : disk'[x].content.keys \in {disk[x].content.keys, mem[x].keys}
    BY <1>1 DEF dbVars, lockVars, contents, Simple, Calling, Idle, AddLock, Goto
  <2> QED
    BY <2>1 DEF TInv, Keyed
<1>4. Standing(t)'
  BY <1>1, TableSyncAssumption DEF Placed, Standing, Stores, Behind, Count, Calls, Rows, dbVars, lockVars, contents, Simple, Calling, Idle, AddLock, Goto
<1>5. call'[t].op \in {"add", "append"} =>
        (call[t].op \in {"add", "append"} /\ call'[t].tb = call[t].tb) \/ MayGrow(call'[t].tb)
  BY <1>1 DEF Placed, dbVars, lockVars, contents, Simple, Calling, Idle, AddLock, Goto
<1> QED
  BY <1>2, <1>3, <1>4, <1>5, CalmPlaced

LEMMA AddIndexPlaced ==
    ASSUME IInv, TInv, NEW t \in Threads, AddIndex(t)
    PROVE  TInv'
<1> DEFINE on == call[t].op = "append" /\ call[t].val # Null
<1>0. PICK tb : tb = call[t].tb
  OBVIOUS
<1>1. /\ call \in [Threads -> Calls] /\ mem \in [Tables -> Data] /\ tb \in Tables
      /\ call[t].op \in {"add", "append"} /\ Standing(t) /\ call[t].pc = "addIndex"
  BY <1>0 DEF IInv, Shaped, TInv, AddIndex, Placed
<1>2. \A u \in Threads \ {t} : call'[u] = call[u]
  BY <1>1 DEF AddIndex
<1>3. \/ /\ on /\ call'[t].op = "set" /\ call'[t].pc = "mark"
         /\ call'[t].row = call[t].row /\ call'[t].other = call[t].other /\ call'[t].tb = tb
      \/ ~on /\ call'[t].op = "idle" /\ call'[t].pc = "idle"
  BY <1>0, <1>1 DEF AddIndex, Calls, Idle, Calling
<1>4. PICK m \in Nat : Extent(mem[tb].row, m) /\ m + Cardinality(Adders(tb)) <= MaxRows
  BY <1>1 DEF TInv, HasRoom
<1>5. Count(tb) = m
  BY <1>4, CountIs
<1>6. /\ IsFiniteSet(Adders(tb)) /\ Cardinality(Adders(tb)) \in Nat /\ t \in Adders(tb)
      /\ Adders(tb)' = Adders(tb) \ {t} /\ \A x \in Tables : x # tb => Adders(x)' = Adders(x)
  <2>1. IsFiniteSet(Adders(tb)) /\ Cardinality(Adders(tb)) \in Nat
    BY AddersCount
  <2>2. call'[t].op \notin {"add", "append"} /\ t \in Adders(tb)
    BY <1>0, <1>1, <1>3 DEF Adders
  <2>3. \A x \in Tables : Adders(x)' = Adders(x) \ {t}
    BY <1>2, <2>2 DEF Adders
  <2>4. \A x \in Tables : x # tb => t \notin Adders(x)
    BY <1>0 DEF Adders
  <2>5. \A x \in Tables : x # tb => Adders(x) \ {t} = Adders(x)
    BY <2>4
  <2> QED
    BY <2>1, <2>2, <2>3, <2>5, <1>1
<1>7. Cardinality(Adders(tb)') = Cardinality(Adders(tb)) - 1 /\ Cardinality(Adders(tb)') \in Nat
  <2>1. Cardinality(Adders(tb) \ {t}) = Cardinality(Adders(tb)) - 1 /\ IsFiniteSet(Adders(tb) \ {t})
    BY <1>6, FS_RemoveElement
  <2> QED
    BY <2>1, <1>6, FS_CardinalityType
<1>8. MaxRows \in Nat /\ m + 1 \in 0 .. MaxRows /\ m \in Rows
  BY <1>4, <1>6, <1>7, TableSyncAssumption DEF Rows
<1>9. /\ \A x \in Tables : x # tb => mem'[x] = mem[x]
      /\ mem'[tb].row = [mem[tb].row EXCEPT ![m] = Null]
      /\ mem'[tb].keys \subseteq mem[tb].keys \cup {<<Null, m>>}
      /\ disk' = disk
  BY <1>0, <1>1, <1>5 DEF AddIndex
<1>10. mem[tb].row \in [Rows -> Values \cup {Absent}] /\ Null \in Values /\ Null # Absent
  BY <1>1, TableSyncAssumption DEF Data
<1>11. Extent(mem'[tb].row, m + 1)
  <2>1. \A r \in Rows : r < m + 1 <=> r < m \/ r = m
    BY <1>8 DEF Rows
  <2>2. \A r \in Rows : mem'[tb].row[r] = IF r = m THEN Null ELSE mem[tb].row[r]
    BY <1>9, <1>10
  <2> QED
    BY <2>1, <2>2, <1>4, <1>8, <1>10 DEF Extent
<1>12. ASSUME NEW x \in Tables PROVE Keyed(x)' /\ HasRoom(x)'
  <2>1. CASE x = tb
    <3>1. Keyed(tb)'
      <4>1. <<Null, m>> \in Values \X Rows
        BY <1>8, <1>10
      <4>2. mem[tb].keys \subseteq Values \X Rows /\ disk[tb].content.keys \subseteq Values \X Rows
        BY <1>1 DEF TInv, Keyed
      <4>3. mem'[tb].keys \subseteq Values \X Rows
        BY <4>1, <4>2, <1>9
      <4> QED
        BY <4>2, <4>3, <1>9 DEF Keyed
    <3>2. m + 1 + Cardinality(Adders(tb)') <= MaxRows
      BY <1>4, <1>6, <1>7, <1>8
    <3>3. HasRoom(tb)'
      <4>1. Extent(mem[tb].row, m + 1)' /\ m + 1 \in Nat
        BY <1>11, <1>8
      <4>2. \E k \in Nat : Extent(mem[tb].row, k)' /\ k + Cardinality(Adders(tb)') <= MaxRows
        BY <4>1, <3>2
      <4> QED
        BY <4>2 DEF HasRoom
    <3> QED
      BY <2>1, <3>1, <3>3
  <2>2. CASE x # tb
    BY <2>2, <1>6, <1>9 DEF TInv, Keyed, HasRoom
  <2> QED
    BY <2>1, <2>2
<1>13. \A x \in Tables, r \in Rows : mem[x].row[r] # Absent => mem'[x].row[r] # Absent
  BY <1>9, <1>10
<1>14. Standing(t)'
  <2>1. CASE on
    <3>1. /\ call[t].row = m /\ call[t].other = None
      BY <2>1, <1>0, <1>1, <1>5 DEF Standing
    <3>2. mem'[tb].row[m] # Absent
      BY <1>8, <1>9, <1>10
    <3> QED
      BY <2>1, <1>3, <3>1, <3>2, <1>8 DEF Standing
  <2>2. CASE ~on
    BY <2>2, <1>3 DEF Standing, Stores, Behind
  <2> QED
    BY <2>1, <2>2
<1>15. ASSUME NEW u \in Threads, u # t PROVE Standing(u)'
  <2>1. call'[u] = call[u] /\ Standing(u) /\ Locked(u) /\ Locked(t) /\ Placed(call[u])
    BY <1>2, <1>15 DEF IInv, TInv
  <2>2. Stores(call[u]) \/ Behind(call[u]) \/ call[u].op = "append" => call[u].tb \in Tables
    BY <2>1 DEF Placed, Stores, Behind, Standing
  <2>3. call[u].op = "append" => call[u].tb # tb
    BY <1>0, <1>1, <1>15, <2>1 DEF Locked, WithRows, Standing
  <2>4. \A x \in Tables : x # tb => Count(x)' = Count(x)
    BY <1>9 DEF Count
  <2> QED
    BY <2>1, <2>2, <2>3, <2>4, <1>13 DEF Standing
<1> QED
  BY <1>12, <1>14, <1>15 DEF TInv

LEMMA WritePlaced ==
    ASSUME IInv, TInv, NEW t \in Threads, Write(t)
    PROVE  TInv'
<1>1. /\ call \in [Threads -> Calls] /\ mem \in [Tables -> Data] /\ disk \in [Tables -> Files]
      /\ Placed(call[t]) /\ Standing(t)
  BY DEF IInv, Shaped, TInv
<1>2. \A u \in Threads \ {t} : call'[u] = call[u]
  BY <1>1 DEF dbVars, lockVars, contents, Simple, Calling, Idle, Write, Goto, RowStored, FreeRows, ThreadSafe
<1>3. \A x \in Tables : Keyed(x)' /\ \A r \in Rows : mem'[x].row[r] # Absent <=> mem[x].row[r] # Absent
  <2>1. call[t].tb \in Tables /\ disk' = disk /\ call[t].row \in Rows /\ call[t].val \in Values
        /\ mem[call[t].tb].row[call[t].row] # Absent
    BY <1>1 DEF Write, Placed, Standing, Stores, Calls
  <2>2. mem' = [mem EXCEPT ![call[t].tb].row[call[t].row] = call[t].val]
    BY DEF Write
  <2>3. \A x \in Tables : mem'[x].keys = mem[x].keys
    BY <1>1, <2>1, <2>2 DEF Data
  <2>4. \A x \in Tables, r \in Rows : mem'[x].row[r] =
          IF x = call[t].tb /\ r = call[t].row THEN call[t].val ELSE mem[x].row[r]
    BY <1>1, <2>1, <2>2 DEF Data
  <2> QED
    BY <2>1, <2>3, <2>4, TableSyncAssumption DEF TInv, Keyed
<1>4. Standing(t)'
  <2>1. /\ call[t].tb \in Tables /\ call[t].op \in {"set", "exchange", "sort"} /\ call[t].row \in Rows
        /\ mem[call[t].tb].row[call[t].row] # Absent
        /\ call[t].other # None => call[t].other \in Rows /\ mem[call[t].tb].row[call[t].other] # Absent
    BY <1>1 DEF Write, Placed, Standing, Stores, Behind
  <2>2. \A r \in Rows : mem[call[t].tb].row[r] # Absent => mem'[call[t].tb].row[r] # Absent
    BY <1>1, <2>1, TableSyncAssumption DEF Write, Data, Calls
  <2>3. Standing(t)'
    <3>1. CASE mem[call[t].tb].indexed
      <4>1. Goto(t, "acquire") \/ Goto(t, "remove")
        BY <3>1 DEF Write
      <4>2. /\ call'[t].op = call[t].op /\ call'[t].tb = call[t].tb /\ call'[t].row = call[t].row
            /\ call'[t].other = call[t].other
        BY <4>1, <1>1 DEF Goto, Calls
      <4> QED
        BY <4>2, <2>1, <2>2 DEF Standing
    <3>2. CASE ~mem[call[t].tb].indexed /\ call[t].other # None
      <4>1. call' = [call EXCEPT ![t] = Calling(call[t].op, "mark", call[t].tb, call[t].other, call[t].old, call[t].val, None, {})]
        BY <3>2 DEF Write, RowStored
      <4>2. /\ call'[t].op = call[t].op /\ call'[t].pc = "mark" /\ call'[t].tb = call[t].tb
            /\ call'[t].row = call[t].other /\ call'[t].other = None
        BY <4>1, <1>1 DEF Calling
      <4> QED
        BY <3>2, <4>2, <2>1, <2>2 DEF Standing, Stores, Behind
    <3>3. CASE ~mem[call[t].tb].indexed /\ call[t].other = None
      <4>1. \/ call' = [call EXCEPT ![t] = Idle]
            \/ call' = [call EXCEPT ![t] = Calling("sort", "locked", call[t].tb, None, Null, Null, None, {})]
        BY <3>3 DEF Write, RowStored, Simple
      <4>2. /\ call'[t].pc \in {"idle", "locked"} /\ call'[t].op \in {"idle", "sort"}
        BY <4>1, <1>1 DEF Calling, Idle
      <4> QED
        BY <4>2 DEF Standing, Stores, Behind
    <3> QED
      BY <3>1, <3>2, <3>3
  <2> QED
    BY <2>3
<1>5. call'[t].op \in {"add", "append"} =>
        (call[t].op \in {"add", "append"} /\ call'[t].tb = call[t].tb) \/ MayGrow(call'[t].tb)
  <2>1. call[t].op \in {"set", "exchange", "sort"}
    BY <1>1 DEF Write, Placed
  <2>2. \/ \E pc \in Steps : Goto(t, pc)
        \/ RowStored(t)
    BY DEF Write, Steps
  <2>3. CASE RowStored(t)
    BY <2>1, <2>3, <1>1 DEF RowStored, Calls, Calling, Simple, Idle
  <2> QED
    BY <2>1, <2>2, <2>3, <1>1, GotoShape
<1> QED
  BY <1>2, <1>3, <1>4, <1>5, CalmPlaced

LEMMA AcquireFieldIndexPlaced ==
    ASSUME IInv, TInv, NEW t \in Threads, AcquireFieldIndex(t)
    PROVE  TInv'
<1>1. /\ call \in [Threads -> Calls] /\ mem \in [Tables -> Data] /\ disk \in [Tables -> Files]
      /\ Placed(call[t]) /\ Standing(t)
  BY DEF IInv, Shaped, TInv
<1>2. \A u \in Threads \ {t} : call'[u] = call[u]
  BY <1>1 DEF dbVars, lockVars, contents, Simple, Calling, Idle, AcquireFieldIndex, Goto, FreeRows, Acquirable
<1>3. \A x \in Tables : Keyed(x)' /\ \A r \in Rows : mem'[x].row[r] # Absent <=> mem[x].row[r] # Absent
  <2>1. mem' = mem /\ \A x \in Tables : disk'[x].content.keys \in {disk[x].content.keys, mem[x].keys}
    BY <1>1 DEF dbVars, lockVars, contents, Simple, Calling, Idle, AcquireFieldIndex, Goto, FreeRows, Acquirable
  <2> QED
    BY <2>1 DEF TInv, Keyed
<1>4. Standing(t)'
  BY <1>1, TableSyncAssumption DEF Placed, Standing, Stores, Behind, Count, Calls, Rows, dbVars, lockVars, contents, Simple, Calling, Idle, AcquireFieldIndex, Goto, FreeRows, Acquirable
<1>5. call'[t].op \in {"add", "append"} =>
        (call[t].op \in {"add", "append"} /\ call'[t].tb = call[t].tb) \/ MayGrow(call'[t].tb)
  BY <1>1 DEF Placed, dbVars, lockVars, contents, Simple, Calling, Idle, AcquireFieldIndex, Goto, FreeRows, Acquirable
<1> QED
  BY <1>2, <1>3, <1>4, <1>5, CalmPlaced

LEMMA RemoveKeyPlaced ==
    ASSUME IInv, TInv, NEW t \in Threads, RemoveKey(t)
    PROVE  TInv'
<1>1. /\ call \in [Threads -> Calls] /\ mem \in [Tables -> Data] /\ disk \in [Tables -> Files]
      /\ Placed(call[t]) /\ Standing(t)
  BY DEF IInv, Shaped, TInv
<1>2. \A u \in Threads \ {t} : call'[u] = call[u]
  BY <1>1 DEF dbVars, lockVars, contents, Simple, Calling, Idle, RemoveKey, Goto
<1>3. \A x \in Tables : Keyed(x)' /\ \A r \in Rows : mem'[x].row[r] # Absent <=> mem[x].row[r] # Absent
  <2>1. call[t].tb \in Tables /\ disk' = disk
        /\ mem' = [mem EXCEPT ![call[t].tb].keys = mem[call[t].tb].keys \ {<<call[t].old, call[t].row>>}]
    BY <1>1 DEF RemoveKey, Placed
  <2>2. \A x \in Tables : mem'[x].row = mem[x].row /\ mem'[x].keys \subseteq mem[x].keys
    BY <1>1, <2>1 DEF Data
  <2> QED
    BY <2>1, <2>2 DEF TInv, Keyed
<1>4. Standing(t)'
  BY <1>1, TableSyncAssumption DEF Placed, Standing, Stores, Behind, Count, Calls, Rows, dbVars, lockVars, contents, Simple, Calling, Idle, RemoveKey, Goto
<1>5. call'[t].op \in {"add", "append"} =>
        (call[t].op \in {"add", "append"} /\ call'[t].tb = call[t].tb) \/ MayGrow(call'[t].tb)
  BY <1>1 DEF Placed, dbVars, lockVars, contents, Simple, Calling, Idle, RemoveKey, Goto
<1> QED
  BY <1>2, <1>3, <1>4, <1>5, CalmPlaced

LEMMA InsertKeyPlaced ==
    ASSUME IInv, TInv, NEW t \in Threads, InsertKey(t)
    PROVE  TInv'
<1>1. /\ call \in [Threads -> Calls] /\ mem \in [Tables -> Data] /\ disk \in [Tables -> Files]
      /\ Placed(call[t]) /\ Standing(t)
  BY DEF IInv, Shaped, TInv
<1>2. \A u \in Threads \ {t} : call'[u] = call[u]
  BY <1>1 DEF dbVars, lockVars, contents, Simple, Calling, Idle, InsertKey, Goto, RowStored, FreeRows, ThreadSafe
<1>3. \A x \in Tables : Keyed(x)' /\ \A r \in Rows : mem'[x].row[r] # Absent <=> mem[x].row[r] # Absent
  <2> DEFINE new == <<call[t].val, call[t].row>>
  <2>1. call[t].tb \in Tables /\ disk' = disk
        /\ mem' = [mem EXCEPT ![call[t].tb].keys = mem[call[t].tb].keys \cup {new}]
    BY <1>1 DEF InsertKey, Placed
  <2>2. new \in Values \X Rows
    BY <1>1 DEF InsertKey, Standing, Behind, Calls
  <2> HIDE DEF new
  <2>3. \A x \in Tables : mem'[x].row = mem[x].row /\ mem'[x].keys \subseteq mem[x].keys \cup {new}
    BY <1>1, <2>1 DEF Data
  <2> QED
    BY <2>1, <2>2, <2>3 DEF TInv, Keyed
<1>4. Standing(t)'
  <2>1. /\ call[t].tb \in Tables /\ call[t].op \in {"set", "exchange", "sort"} /\ call[t].row \in Rows
        /\ mem[call[t].tb].row[call[t].row] # Absent
        /\ call[t].other # None => call[t].other \in Rows /\ mem[call[t].tb].row[call[t].other] # Absent
    BY <1>1 DEF InsertKey, Placed, Standing, Stores, Behind
  <2>2. \A r \in Rows : mem[call[t].tb].row[r] # Absent => mem'[call[t].tb].row[r] # Absent
    BY <1>1, <2>1 DEF InsertKey, Data
  <2>3. Standing(t)'
    <3>1. CASE ThreadSafe(t)
      <4>1. call'[t].pc = "relock" /\ call'[t].op = call[t].op
        BY <3>1, <1>1, GotoShape DEF InsertKey, Steps
      <4> QED
        BY <4>1, <2>1 DEF Standing, Stores, Behind
    <3>2. CASE ~ThreadSafe(t) /\ call[t].other # None
      <4>1. call' = [call EXCEPT ![t] = Calling(call[t].op, "mark", call[t].tb, call[t].other, call[t].old, call[t].val, None, {})]
        BY <3>2 DEF InsertKey, RowStored
      <4>2. /\ call'[t].op = call[t].op /\ call'[t].pc = "mark" /\ call'[t].tb = call[t].tb
            /\ call'[t].row = call[t].other /\ call'[t].other = None
        BY <4>1, <1>1 DEF Calling
      <4> QED
        BY <3>2, <4>2, <2>1, <2>2 DEF Standing, Stores, Behind
    <3>3. CASE ~ThreadSafe(t) /\ call[t].other = None
      <4>1. \/ call' = [call EXCEPT ![t] = Idle]
            \/ call' = [call EXCEPT ![t] = Calling("sort", "locked", call[t].tb, None, Null, Null, None, {})]
        BY <3>3 DEF InsertKey, RowStored, Simple
      <4>2. /\ call'[t].pc \in {"idle", "locked"} /\ call'[t].op \in {"idle", "sort"}
        BY <4>1, <1>1 DEF Calling, Idle
      <4> QED
        BY <4>2 DEF Standing, Stores, Behind
    <3> QED
      BY <3>1, <3>2, <3>3
  <2> QED
    BY <2>3
<1>5. call'[t].op \in {"add", "append"} =>
        (call[t].op \in {"add", "append"} /\ call'[t].tb = call[t].tb) \/ MayGrow(call'[t].tb)
  <2>1. call[t].op \in {"set", "exchange", "sort"}
    BY <1>1 DEF InsertKey, Placed
  <2>2. \/ \E pc \in Steps : Goto(t, pc)
        \/ RowStored(t)
    BY DEF InsertKey, Steps
  <2>3. CASE RowStored(t)
    BY <2>1, <2>3, <1>1 DEF RowStored, Calls, Calling, Simple, Idle
  <2> QED
    BY <2>1, <2>2, <2>3, <1>1, GotoShape
<1> QED
  BY <1>2, <1>3, <1>4, <1>5, CalmPlaced

LEMMA RelockPlaced ==
    ASSUME IInv, TInv, NEW t \in Threads, Relock(t)
    PROVE  TInv'
<1>1. /\ call \in [Threads -> Calls] /\ mem \in [Tables -> Data] /\ disk \in [Tables -> Files]
      /\ Placed(call[t]) /\ Standing(t)
  BY DEF IInv, Shaped, TInv
<1>2. \A u \in Threads \ {t} : call'[u] = call[u]
  BY <1>1 DEF dbVars, lockVars, contents, Simple, Calling, Idle, Relock
<1>3. \A x \in Tables : Keyed(x)' /\ \A r \in Rows : mem'[x].row[r] # Absent <=> mem[x].row[r] # Absent
  <2>1. mem' = mem /\ \A x \in Tables : disk'[x].content.keys \in {disk[x].content.keys, mem[x].keys}
    BY <1>1 DEF dbVars, lockVars, contents, Simple, Calling, Idle, Relock
  <2> QED
    BY <2>1 DEF TInv, Keyed
<1>4. Standing(t)'
  BY <1>1, TableSyncAssumption DEF Placed, Standing, Stores, Behind, Count, Calls, Rows, dbVars, lockVars, contents, Simple, Calling, Idle, Relock
<1>5. call'[t].op \in {"add", "append"} =>
        (call[t].op \in {"add", "append"} /\ call'[t].tb = call[t].tb) \/ MayGrow(call'[t].tb)
  BY <1>1 DEF Placed, dbVars, lockVars, contents, Simple, Calling, Idle, Relock
<1> QED
  BY <1>2, <1>3, <1>4, <1>5, CalmPlaced

LEMMA MatchRowsWithIndexPlaced ==
    ASSUME IInv, TInv, NEW t \in Threads, MatchRowsWithIndex(t)
    PROVE  TInv'
<1>1. /\ call \in [Threads -> Calls] /\ mem \in [Tables -> Data] /\ disk \in [Tables -> Files]
      /\ Placed(call[t]) /\ Standing(t)
  BY DEF IInv, Shaped, TInv
<1>2. \A u \in Threads \ {t} : call'[u] = call[u]
  BY <1>1 DEF dbVars, lockVars, contents, Simple, Calling, Idle, MatchRowsWithIndex, Goto, Acquirable
<1>3. \A x \in Tables : Keyed(x)' /\ \A r \in Rows : mem'[x].row[r] # Absent <=> mem[x].row[r] # Absent
  <2>1. mem' = mem /\ \A x \in Tables : disk'[x].content.keys \in {disk[x].content.keys, mem[x].keys}
    BY <1>1 DEF dbVars, lockVars, contents, Simple, Calling, Idle, MatchRowsWithIndex, Goto, Acquirable
  <2> QED
    BY <2>1 DEF TInv, Keyed
<1>4. Standing(t)'
  BY <1>1, TableSyncAssumption DEF Placed, Standing, Stores, Behind, Count, Calls, Rows, dbVars, lockVars, contents, Simple, Calling, Idle, MatchRowsWithIndex, Goto, Acquirable
<1>5. call'[t].op \in {"add", "append"} =>
        (call[t].op \in {"add", "append"} /\ call'[t].tb = call[t].tb) \/ MayGrow(call'[t].tb)
  <2>1. CASE \E pc \in Steps : Goto(t, pc)
    <3>1. call'[t].op = call[t].op /\ call'[t].tb = call[t].tb
      BY <2>1, <1>1, GotoShape
    <3> QED
      BY <3>1
  <2>2. CASE call' = [call EXCEPT ![t] = Idle]
    BY <2>2, <1>1, IdleShape
  <2>3. \/ \E pc \in Steps : Goto(t, pc)
        \/ call' = [call EXCEPT ![t] = Idle]
    BY DEF MatchRowsWithIndex, Steps
  <2> QED
    BY <2>1, <2>2, <2>3
<1> QED
  BY <1>2, <1>3, <1>4, <1>5, CalmPlaced

LEMMA DropIndexPlaced ==
    ASSUME IInv, TInv, NEW t \in Threads, DropIndex(t)
    PROVE  TInv'
<1>1. /\ call \in [Threads -> Calls] /\ mem \in [Tables -> Data] /\ disk \in [Tables -> Files]
      /\ Placed(call[t]) /\ Standing(t)
  BY DEF IInv, Shaped, TInv
<1>2. \A u \in Threads \ {t} : call'[u] = call[u]
  BY <1>1 DEF dbVars, lockVars, contents, Simple, Calling, Idle, DropIndex, FreeRows, Acquirable
<1>3. \A x \in Tables : Keyed(x)' /\ \A r \in Rows : mem'[x].row[r] # Absent <=> mem[x].row[r] # Absent
  <2> DEFINE tb == call[t].tb
  <2>1. /\ tb \in Tables /\ mRowModified[tb] \in BOOLEAN /\ {} \in AnyKeys
        /\ mem' = [mem EXCEPT ![tb].indexed = FALSE, ![tb].keys = {}]
        /\ disk' = [disk EXCEPT ![tb].content.indexed = FALSE, ![tb].content.keys = {},
                                ![tb].modified = mRowModified[tb]]
    BY <1>1 DEF DropIndex, Placed, IInv, Shaped, AnyKeys
  <2> HIDE DEF tb
  <2>2. \A x \in Tables : mem'[x] =
          IF x = tb THEN [row |-> mem[tb].row, indexed |-> FALSE, keys |-> {}] ELSE mem[x]
    BY <1>1, <2>1, IndexShape
  <2>3. /\ \A x \in Tables : x # tb => disk'[x] = disk[x]
        /\ disk'[tb] = [content |-> [row |-> disk[tb].content.row, indexed |-> FALSE, keys |-> {}],
                        modified |-> mRowModified[tb]]
    BY <1>1, <2>1, HeaderDropShape
  <2>4. disk'[tb].content.keys = {}
    BY <2>3
  <2> QED
    BY <2>2, <2>3, <2>4 DEF TInv, Keyed
<1>4. Standing(t)'
  BY <1>1, TableSyncAssumption DEF Placed, Standing, Stores, Behind, Count, Calls, Rows, dbVars, lockVars, contents, Simple, Calling, Idle, DropIndex, FreeRows, Acquirable
<1>5. call'[t].op \in {"add", "append"} =>
        (call[t].op \in {"add", "append"} /\ call'[t].tb = call[t].tb) \/ MayGrow(call'[t].tb)
  BY <1>1 DEF Placed, dbVars, lockVars, contents, Simple, Calling, Idle, DropIndex, FreeRows, Acquirable
<1> QED
  BY <1>2, <1>3, <1>4, <1>5, CalmPlaced

LEMMA NextTablePlaced ==
    ASSUME IInv, TInv, NEW t \in Threads, NextTable(t)
    PROVE  TInv'
<1>1. /\ call \in [Threads -> Calls] /\ mem \in [Tables -> Data] /\ disk \in [Tables -> Files]
      /\ Placed(call[t]) /\ Standing(t)
  BY DEF IInv, Shaped, TInv
<1>2. \A u \in Threads \ {t} : call'[u] = call[u]
  BY <1>1 DEF dbVars, lockVars, contents, Simple, Calling, Idle, NextTable
<1>3. \A x \in Tables : Keyed(x)' /\ \A r \in Rows : mem'[x].row[r] # Absent <=> mem[x].row[r] # Absent
  <2>1. mem' = mem /\ \A x \in Tables : disk'[x].content.keys \in {disk[x].content.keys, mem[x].keys}
    BY <1>1 DEF dbVars, lockVars, contents, Simple, Calling, Idle, NextTable
  <2> QED
    BY <2>1 DEF TInv, Keyed
<1>4. Standing(t)'
  BY <1>1, TableSyncAssumption DEF Placed, Standing, Stores, Behind, Count, Calls, Rows, dbVars, lockVars, contents, Simple, Calling, Idle, NextTable
<1>5. call'[t].op \in {"add", "append"} =>
        (call[t].op \in {"add", "append"} /\ call'[t].tb = call[t].tb) \/ MayGrow(call'[t].tb)
  BY <1>1 DEF Placed, dbVars, lockVars, contents, Simple, Calling, Idle, NextTable
<1> QED
  BY <1>2, <1>3, <1>4, <1>5, CalmPlaced

LEMMA SyncAllDonePlaced ==
    ASSUME IInv, TInv, NEW t \in Threads, SyncAllDone(t)
    PROVE  TInv'
<1>1. /\ call \in [Threads -> Calls] /\ mem \in [Tables -> Data] /\ disk \in [Tables -> Files]
      /\ Placed(call[t]) /\ Standing(t)
  BY DEF IInv, Shaped, TInv
<1>2. \A u \in Threads \ {t} : call'[u] = call[u]
  BY <1>1 DEF dbVars, lockVars, contents, Simple, Calling, Idle, SyncAllDone
<1>3. \A x \in Tables : Keyed(x)' /\ \A r \in Rows : mem'[x].row[r] # Absent <=> mem[x].row[r] # Absent
  <2>1. mem' = mem /\ \A x \in Tables : disk'[x].content.keys \in {disk[x].content.keys, mem[x].keys}
    BY <1>1 DEF dbVars, lockVars, contents, Simple, Calling, Idle, SyncAllDone
  <2> QED
    BY <2>1 DEF TInv, Keyed
<1>4. Standing(t)'
  BY <1>1, TableSyncAssumption DEF Placed, Standing, Stores, Behind, Count, Calls, Rows, dbVars, lockVars, contents, Simple, Calling, Idle, SyncAllDone
<1>5. call'[t].op \in {"add", "append"} =>
        (call[t].op \in {"add", "append"} /\ call'[t].tb = call[t].tb) \/ MayGrow(call'[t].tb)
  BY <1>1 DEF Placed, dbVars, lockVars, contents, Simple, Calling, Idle, SyncAllDone
<1> QED
  BY <1>2, <1>3, <1>4, <1>5, CalmPlaced

LEMMA FlushLockRowsPlaced ==
    ASSUME IInv, TInv, NEW t \in Threads, FlushLockRows(t)
    PROVE  TInv'
<1>1. /\ call \in [Threads -> Calls] /\ mem \in [Tables -> Data] /\ disk \in [Tables -> Files]
      /\ Placed(call[t]) /\ Standing(t)
  BY DEF IInv, Shaped, TInv
<1>2. \A u \in Threads \ {t} : call'[u] = call[u]
  BY <1>1 DEF dbVars, lockVars, contents, Simple, Calling, Idle, FlushLockRows, Goto, TakeRows
<1>3. \A x \in Tables : Keyed(x)' /\ \A r \in Rows : mem'[x].row[r] # Absent <=> mem[x].row[r] # Absent
  <2>1. mem' = mem /\ \A x \in Tables : disk'[x].content.keys \in {disk[x].content.keys, mem[x].keys}
    BY <1>1 DEF dbVars, lockVars, contents, Simple, Calling, Idle, FlushLockRows, Goto, TakeRows
  <2> QED
    BY <2>1 DEF TInv, Keyed
<1>4. Standing(t)'
  BY <1>1, TableSyncAssumption DEF Placed, Standing, Stores, Behind, Count, Calls, Rows, dbVars, lockVars, contents, Simple, Calling, Idle, FlushLockRows, Goto, TakeRows
<1>5. call'[t].op \in {"add", "append"} =>
        (call[t].op \in {"add", "append"} /\ call'[t].tb = call[t].tb) \/ MayGrow(call'[t].tb)
  BY <1>1 DEF Placed, dbVars, lockVars, contents, Simple, Calling, Idle, FlushLockRows, Goto, TakeRows
<1> QED
  BY <1>2, <1>3, <1>4, <1>5, CalmPlaced

LEMMA FlushLockIndexesPlaced ==
    ASSUME IInv, TInv, NEW t \in Threads, FlushLockIndexes(t)
    PROVE  TInv'
<1>1. /\ call \in [Threads -> Calls] /\ mem \in [Tables -> Data] /\ disk \in [Tables -> Files]
      /\ Placed(call[t]) /\ Standing(t)
  BY DEF IInv, Shaped, TInv
<1>2. \A u \in Threads \ {t} : call'[u] = call[u]
  BY <1>1 DEF dbVars, lockVars, contents, Simple, Calling, Idle, FlushLockIndexes, Goto, FreeRows
<1>3. \A x \in Tables : Keyed(x)' /\ \A r \in Rows : mem'[x].row[r] # Absent <=> mem[x].row[r] # Absent
  <2>1. mem' = mem /\ \A x \in Tables : disk'[x].content.keys \in {disk[x].content.keys, mem[x].keys}
    BY <1>1 DEF dbVars, lockVars, contents, Simple, Calling, Idle, FlushLockIndexes, Goto, FreeRows
  <2> QED
    BY <2>1 DEF TInv, Keyed
<1>4. Standing(t)'
  BY <1>1, TableSyncAssumption DEF Placed, Standing, Stores, Behind, Count, Calls, Rows, dbVars, lockVars, contents, Simple, Calling, Idle, FlushLockIndexes, Goto, FreeRows
<1>5. call'[t].op \in {"add", "append"} =>
        (call[t].op \in {"add", "append"} /\ call'[t].tb = call[t].tb) \/ MayGrow(call'[t].tb)
  <2>1. CASE \E pc \in Steps : Goto(t, pc)
    <3>1. call'[t].op = call[t].op /\ call'[t].tb = call[t].tb
      BY <2>1, <1>1, GotoShape
    <3> QED
      BY <3>1
  <2>2. CASE call' = [call EXCEPT ![t] = Idle]
    BY <2>2, <1>1, IdleShape
  <2>3. \/ \E pc \in Steps : Goto(t, pc)
        \/ call' = [call EXCEPT ![t] = Idle]
    BY DEF FlushLockIndexes, Steps
  <2> QED
    BY <2>1, <2>2, <2>3
<1> QED
  BY <1>2, <1>3, <1>4, <1>5, CalmPlaced

LEMMA FlushInternalPlaced ==
    ASSUME IInv, TInv, NEW t \in Threads, FlushInternal(t)
    PROVE  TInv'
<1>1. /\ call \in [Threads -> Calls] /\ mem \in [Tables -> Data] /\ disk \in [Tables -> Files]
      /\ Placed(call[t]) /\ Standing(t)
  BY DEF IInv, Shaped, TInv
<1>2. \A u \in Threads \ {t} : call'[u] = call[u]
  BY <1>1 DEF dbVars, lockVars, contents, Simple, Calling, Idle, FlushInternal, Goto, FreeRows
<1>3. \A x \in Tables : Keyed(x)' /\ \A r \in Rows : mem'[x].row[r] # Absent <=> mem[x].row[r] # Absent
  <2>1. mem' = mem /\ \A x \in Tables : disk'[x].content.keys \in {disk[x].content.keys, mem[x].keys}
    BY <1>1 DEF dbVars, lockVars, contents, Simple, Calling, Idle, FlushInternal, Goto, FreeRows
  <2> QED
    BY <2>1 DEF TInv, Keyed
<1>4. Standing(t)'
  BY <1>1, TableSyncAssumption DEF Placed, Standing, Stores, Behind, Count, Calls, Rows, dbVars, lockVars, contents, Simple, Calling, Idle, FlushInternal, Goto, FreeRows
<1>5. call'[t].op \in {"add", "append"} =>
        (call[t].op \in {"add", "append"} /\ call'[t].tb = call[t].tb) \/ MayGrow(call'[t].tb)
  <2>1. CASE \E pc \in Steps : Goto(t, pc)
    <3>1. call'[t].op = call[t].op /\ call'[t].tb = call[t].tb
      BY <2>1, <1>1, GotoShape
    <3> QED
      BY <3>1
  <2>2. CASE call' = [call EXCEPT ![t] = Idle]
    BY <2>2, <1>1, IdleShape
  <2>3. \/ \E pc \in Steps : Goto(t, pc)
        \/ call' = [call EXCEPT ![t] = Idle]
    BY DEF FlushInternal, Steps
  <2> QED
    BY <2>1, <2>2, <2>3
<1> QED
  BY <1>2, <1>3, <1>4, <1>5, CalmPlaced

LEMMA LockInProgressPlaced ==
    ASSUME IInv, TInv, NEW t \in Threads, LockInProgress(t)
    PROVE  TInv'
<1>1. /\ call \in [Threads -> Calls] /\ mem \in [Tables -> Data] /\ disk \in [Tables -> Files]
      /\ Placed(call[t]) /\ Standing(t)
  BY DEF IInv, Shaped, TInv
<1>2. \A u \in Threads \ {t} : call'[u] = call[u]
  BY <1>1 DEF dbVars, lockVars, contents, Simple, Calling, Idle, LockInProgress, Goto
<1>3. \A x \in Tables : Keyed(x)' /\ \A r \in Rows : mem'[x].row[r] # Absent <=> mem[x].row[r] # Absent
  <2>1. mem' = mem /\ \A x \in Tables : disk'[x].content.keys \in {disk[x].content.keys, mem[x].keys}
    BY <1>1 DEF dbVars, lockVars, contents, Simple, Calling, Idle, LockInProgress, Goto
  <2> QED
    BY <2>1 DEF TInv, Keyed
<1>4. Standing(t)'
  BY <1>1, TableSyncAssumption DEF Placed, Standing, Stores, Behind, Count, Calls, Rows, dbVars, lockVars, contents, Simple, Calling, Idle, LockInProgress, Goto
<1>5. call'[t].op \in {"add", "append"} =>
        (call[t].op \in {"add", "append"} /\ call'[t].tb = call[t].tb) \/ MayGrow(call'[t].tb)
  BY <1>1 DEF Placed, dbVars, lockVars, contents, Simple, Calling, Idle, LockInProgress, Goto
<1> QED
  BY <1>2, <1>3, <1>4, <1>5, CalmPlaced

LEMMA LockRowsPlaced ==
    ASSUME IInv, TInv, NEW t \in Threads, LockRows(t)
    PROVE  TInv'
<1>1. /\ call \in [Threads -> Calls] /\ mem \in [Tables -> Data] /\ disk \in [Tables -> Files]
      /\ Placed(call[t]) /\ Standing(t)
  BY DEF IInv, Shaped, TInv
<1>2. \A u \in Threads \ {t} : call'[u] = call[u]
  BY <1>1 DEF dbVars, lockVars, contents, Simple, Calling, Idle, LockRows, Goto, TakeRows
<1>3. \A x \in Tables : Keyed(x)' /\ \A r \in Rows : mem'[x].row[r] # Absent <=> mem[x].row[r] # Absent
  <2>1. mem' = mem /\ \A x \in Tables : disk'[x].content.keys \in {disk[x].content.keys, mem[x].keys}
    BY <1>1 DEF dbVars, lockVars, contents, Simple, Calling, Idle, LockRows, Goto, TakeRows
  <2> QED
    BY <2>1 DEF TInv, Keyed
<1>4. Standing(t)'
  BY <1>1, TableSyncAssumption DEF Placed, Standing, Stores, Behind, Count, Calls, Rows, dbVars, lockVars, contents, Simple, Calling, Idle, LockRows, Goto, TakeRows
<1>5. call'[t].op \in {"add", "append"} =>
        (call[t].op \in {"add", "append"} /\ call'[t].tb = call[t].tb) \/ MayGrow(call'[t].tb)
  BY <1>1 DEF Placed, dbVars, lockVars, contents, Simple, Calling, Idle, LockRows, Goto, TakeRows
<1> QED
  BY <1>2, <1>3, <1>4, <1>5, CalmPlaced

LEMMA LockIndexesPlaced ==
    ASSUME IInv, TInv, NEW t \in Threads, LockIndexes(t)
    PROVE  TInv'
<1>1. /\ call \in [Threads -> Calls] /\ mem \in [Tables -> Data] /\ disk \in [Tables -> Files]
      /\ Placed(call[t]) /\ Standing(t)
  BY DEF IInv, Shaped, TInv
<1>2. \A u \in Threads \ {t} : call'[u] = call[u]
  BY <1>1 DEF dbVars, lockVars, contents, Simple, Calling, Idle, LockIndexes, Goto
<1>3. \A x \in Tables : Keyed(x)' /\ \A r \in Rows : mem'[x].row[r] # Absent <=> mem[x].row[r] # Absent
  <2>1. mem' = mem /\ \A x \in Tables : disk'[x].content.keys \in {disk[x].content.keys, mem[x].keys}
    BY <1>1 DEF dbVars, lockVars, contents, Simple, Calling, Idle, LockIndexes, Goto
  <2> QED
    BY <2>1 DEF TInv, Keyed
<1>4. Standing(t)'
  BY <1>1, TableSyncAssumption DEF Placed, Standing, Stores, Behind, Count, Calls, Rows, dbVars, lockVars, contents, Simple, Calling, Idle, LockIndexes, Goto
<1>5. call'[t].op \in {"add", "append"} =>
        (call[t].op \in {"add", "append"} /\ call'[t].tb = call[t].tb) \/ MayGrow(call'[t].tb)
  BY <1>1 DEF Placed, dbVars, lockVars, contents, Simple, Calling, Idle, LockIndexes, Goto
<1> QED
  BY <1>2, <1>3, <1>4, <1>5, CalmPlaced

LEMMA UnlockTablePlaced ==
    ASSUME IInv, TInv, NEW t \in Threads, UnlockTable(t)
    PROVE  TInv'
<1>1. /\ call \in [Threads -> Calls] /\ mem \in [Tables -> Data] /\ disk \in [Tables -> Files]
      /\ Placed(call[t]) /\ Standing(t)
  BY DEF IInv, Shaped, TInv
<1>2. \A u \in Threads \ {t} : call'[u] = call[u]
  BY <1>1 DEF dbVars, lockVars, contents, Simple, Calling, Idle, UnlockTable, FreeRows
<1>3. \A x \in Tables : Keyed(x)' /\ \A r \in Rows : mem'[x].row[r] # Absent <=> mem[x].row[r] # Absent
  <2>1. mem' = mem /\ \A x \in Tables : disk'[x].content.keys \in {disk[x].content.keys, mem[x].keys}
    BY <1>1 DEF dbVars, lockVars, contents, Simple, Calling, Idle, UnlockTable, FreeRows
  <2> QED
    BY <2>1 DEF TInv, Keyed
<1>4. Standing(t)'
  BY <1>1, TableSyncAssumption DEF Placed, Standing, Stores, Behind, Count, Calls, Rows, dbVars, lockVars, contents, Simple, Calling, Idle, UnlockTable, FreeRows
<1>5. call'[t].op \in {"add", "append"} =>
        (call[t].op \in {"add", "append"} /\ call'[t].tb = call[t].tb) \/ MayGrow(call'[t].tb)
  BY <1>1 DEF Placed, dbVars, lockVars, contents, Simple, Calling, Idle, UnlockTable, FreeRows
<1> QED
  BY <1>2, <1>3, <1>4, <1>5, CalmPlaced

LEMMA InitTInv == Init => TInv
<1> SUFFICES ASSUME Init PROVE TInv
  OBVIOUS
<1>1. PICK n \in 0 .. MaxRows, indexed \in BOOLEAN :
        mem = [tb \in Tables |->
                [row |-> [r \in Rows |-> IF r < n THEN Null ELSE Absent], indexed |-> indexed,
                 keys |-> IF indexed THEN KeysOf([r \in Rows |-> IF r < n THEN Null ELSE Absent]) ELSE {}]]
  BY Zenon DEF Init
<1> DEFINE row == [r \in Rows |-> IF r < n THEN Null ELSE Absent]
           keys == IF indexed THEN KeysOf(row) ELSE {}
<1>2. row \in [Rows -> Values \cup {Absent}] /\ Extent(row, n)
  BY TableSyncAssumption DEF Extent
<1>3. keys \subseteq Values \X Rows
  BY <1>2, KeysOfShape DEF KeysOf
<1>4. mem = [tb \in Tables |-> [row |-> row, indexed |-> indexed, keys |-> keys]]
  BY <1>1
<1> HIDE DEF row, keys
<1>5. \A t \in Threads : call[t].pc = "idle" /\ call[t].op = "idle"
  BY DEF Init, Idle, Calling
<1>6. ASSUME NEW tb \in Tables PROVE Keyed(tb) /\ HasRoom(tb)
  <2>1. mem[tb].row = row /\ mem[tb].keys = keys /\ disk[tb].content = mem[tb]
    BY <1>4 DEF Init
  <2>2. Adders(tb) = {}
    BY <1>5 DEF Adders
  <2>3. Cardinality(Adders(tb)) = 0
    BY <2>2, FS_EmptySet
  <2>4. n \in Nat /\ n + 0 <= MaxRows
    BY TableSyncAssumption
  <2> QED
    BY <1>2, <1>3, <2>1, <2>3, <2>4 DEF Keyed, HasRoom
<1>7. \A t \in Threads : Standing(t)
  BY <1>5 DEF Standing, Stores, Behind
<1> QED
  BY <1>6, <1>7 DEF TInv

LEMMA StartPlaced ==
    ASSUME IInv, TInv, NEW t \in Threads, NEW tb \in Tables, Start(t, tb)
    PROVE  TInv'
  BY SetPlaced, AppendPlaced, AddRowPlaced, ExchangeRowsPlaced, MatchRowsPlaced,
     CreateIndexPlaced, RemoveIndexPlaced, SyncTableContentPlaced, LockTablePlaced
     DEF Start

LEMMA StepPlaced ==
    ASSUME IInv, TInv, NEW t \in Threads, Step(t)
    PROVE  TInv'
  BY NotifyPlaced, NotifiedPlaced, MarkYieldPlaced, RemarkPlaced, MarkedPlaced, AddLockPlaced,
     AddIndexPlaced, WritePlaced, AcquireFieldIndexPlaced, RemoveKeyPlaced, InsertKeyPlaced,
     RelockPlaced, MatchRowsWithIndexPlaced, DropIndexPlaced, NextTablePlaced, SyncAllDonePlaced,
     FlushLockRowsPlaced, FlushLockIndexesPlaced, FlushInternalPlaced, LockInProgressPlaced,
     LockRowsPlaced, LockIndexesPlaced, UnlockTablePlaced
     DEF Step

LEMMA NextPlaced == IInv /\ TInv /\ [Next]_vars => TInv'
<1> SUFFICES ASSUME IInv, TInv, [Next]_vars PROVE TInv'
  OBVIOUS
<1>1. ASSUME NEW t \in Threads, NEW tb \in Tables, Start(t, tb) PROVE TInv'
  BY <1>1, StartPlaced
<1>2. ASSUME NEW t \in Threads, SyncAllTablesContent(t) PROVE TInv'
  BY <1>2, SyncAllTablesContentPlaced
<1>3. ASSUME NEW t \in Threads, NEW r1 \in Rows, NEW r2 \in Rows, SortExchange(t, r1, r2) PROVE TInv'
  BY <1>3, SortExchangePlaced
<1>4. ASSUME NEW t \in Threads, Step(t) PROVE TInv'
  BY <1>4, StepPlaced
<1>5. ASSUME UNCHANGED vars PROVE TInv'
  BY <1>5 DEF vars, TInv, Keyed, HasRoom, Extent, Adders, Standing, Stores, Behind, Count
<1> QED
  BY <1>1, <1>2, <1>3, <1>4, <1>5 DEF Next

LEMMA PlacedTypeOK ==
    ASSUME IInv, TInv
    PROVE  TypeOK
<1>1. ASSUME NEW tb \in Tables PROVE mem[tb] \in Content
  <2>1. mem[tb] \in Data /\ mem[tb].keys \subseteq Values \X Rows
    BY DEF IInv, Shaped, TInv, Keyed
  <2> QED
    BY <2>1 DEF Data, Content
<1>2. ASSUME NEW tb \in Tables PROVE disk[tb] \in [content : Content, modified : BOOLEAN]
  <2>1. disk[tb] \in Files /\ disk[tb].content.keys \subseteq Values \X Rows
    BY DEF IInv, Shaped, TInv, Keyed
  <2>2. disk[tb].content \in Content
    BY <2>1 DEF Data, Content, Files
  <2> QED
    BY <2>1, <2>2 DEF Files
<1>3. mem \in [Tables -> Content] /\ disk \in [Tables -> [content : Content, modified : BOOLEAN]]
  BY <1>1, <1>2 DEF IInv, Shaped
<1> QED
  BY <1>3 DEF TypeOK, IInv, Shaped

\* Rows are allocated without gaps and never beyond the bound, whoever adds them
\* and lets go of the lock in between, and keys are those of rows a table may
\* have, in memory and in the file: the types hold.
THEOREM TypeCorrect == Spec => []TypeOK
<1>1. Init => IInv /\ TInv
  BY InitIInv, InitTInv
<1>2. IInv /\ TInv /\ [Next]_vars => IInv' /\ TInv'
  BY NextIInv, NextPlaced
<1>3. IInv /\ TInv => TypeOK
  BY PlacedTypeOK
<1> QED
  BY <1>1, <1>2, <1>3, PTL DEF Spec

-----------------------------------------------------------------------------
(* The keys of an index.  Two settings are covered: callers that never store *)
(* to one row at once, with no sort, and callers that do, on one table that  *)
(* nobody exchanges rows of or syncs.                                        *)

OwnRows  == ~SharedRows /\ "sort" \notin Ops
OneTable == (\A a, b \in Tables : a = b) /\ {"exchange", "syncTable", "syncAll"} \cap Ops = {}

Has(c, r) == r \in {c.row, c.other}

\* Who is where, whatever the tables contain: with rows of their own no two
\* calls have one; on one table nobody waits for the lock of the database.
Apart ==
    /\ \A t \in Threads : /\ call[t].op \in Ops \cup {"idle", "set"}
                          /\ call[t].op = "syncAll" => call[t].row = None /\ call[t].other = None
    /\ mSync # None => WithDatabase(call[mSync])
    /\ OwnRows => \A t, u \in Threads, r \in Rows :
                    t # u /\ call[t].tb = call[u].tb => ~(Has(call[t], r) /\ Has(call[u], r))
    /\ OneTable => \A t \in Threads : call[t].pc # "remark"

\* A call knows the value of its row, and of the other, until it stores it.
Knows(t) ==
    /\ Stores(call[t]) => mem[call[t].tb].row[call[t].row] = call[t].old
    /\ (Stores(call[t]) \/ Behind(call[t])) /\ call[t].other # None =>
        call[t].other # call[t].row /\ mem[call[t].tb].row[call[t].other] = call[t].val
    /\ call[t].op = "set" => call[t].other = None

\* The key of row r is that of v, and no other.
Only(tb, r, v) == \A w \in Values : <<w, r>> \in mem[tb].keys <=> w = v

BehindOn(tb, r) == {u \in Threads : call[u].tb = tb /\ call[u].row = r /\ Behind(call[u])}
Others(t)       == BehindOn(call[t].tb, call[t].row) \ {t}

\* How far the index is, of calls that have changed a row and not its key: a
\* second one finds the key that the first will have left.
Updates(t) ==
    /\ call[t].pc = "acquire" =>
        /\ mem[call[t].tb].row[call[t].row] = call[t].val
        /\ Others(t) = {} => Only(call[t].tb, call[t].row, call[t].old)
        /\ \A u \in Others(t) : call[u].val = call[t].old
    /\ call[t].pc = "remove" => Only(call[t].tb, call[t].row, call[t].old)
    /\ call[t].pc = "insert" => Only(call[t].tb, call[t].row, Absent)
    /\ call[t].pc \in {"remove", "insert"} /\ Others(t) = {} =>
        mem[call[t].tb].row[call[t].row] = call[t].val

Settled(tb, r) ==
    mem[tb].indexed /\ BehindOn(tb, r) = {} => Only(tb, r, mem[tb].row[r])

Matched ==
    /\ \A t \in Threads : Knows(t) /\ Updates(t)
    /\ \A tb \in Tables, r \in Rows : Settled(tb, r)

\* What a step of t does to the part that tells who is where.
Keeps(t) ==
    /\ \A u \in Threads \ {t} : call'[u] = call[u]
    /\ call'[t].op \in Ops \cup {"idle", "set"}
    /\ call'[t].op = "syncAll" => call'[t].row = None /\ call'[t].other = None
    /\ mSync' \in {mSync, None, t} /\ (mSync' = t => WithDatabase(call'[t]))
    /\ \A r \in Rows : Has(call'[t], r) =>
            \/ call'[t].tb = call[t].tb /\ Has(call[t], r)
            \/ MayStore(t, call'[t].tb, r)
            \/ call'[t].op = "sort"
    /\ call'[t].pc = "remark" => call[t].pc = "mark" /\ mSync # None
    /\ call'[t].op = "match" =>
        \/ call[t].op = "match" /\ call'[t].tb = call[t].tb
        \/ mem[call'[t].tb].indexed

LEMMA KeepsApart ==
    ASSUME IInv, Apart, NEW t \in Threads, Keeps(t)
    PROVE  Apart'
<1>1. \A u \in Threads : /\ call'[u].op \in Ops \cup {"idle", "set"}
                         /\ call'[u].op = "syncAll" => call'[u].row = None /\ call'[u].other = None
  BY DEF Keeps, Apart
<1>2. mSync' # None => WithDatabase(call'[mSync'])
  <2>1. mSync \in Threads \cup {None}
    BY DEF IInv, Shaped
  <2>2. CASE mSync' = t
    BY <2>2 DEF Keeps
  <2>3. CASE mSync' # t /\ mSync' # None
    <3>1. mSync' = mSync /\ mSync \in Threads \ {t} /\ WithDatabase(call[mSync])
      BY <2>1, <2>3 DEF Keeps, Apart
    <3>2. call'[mSync] = call[mSync]
      BY <3>1 DEF Keeps
    <3> QED
      BY <3>1, <3>2
  <2> QED
    BY <2>2, <2>3
<1>3. ASSUME OwnRows, NEW u \in Threads, NEW r \in Rows, u # t, call'[t].tb = call[u].tb,
             Has(call'[t], r), Has(call[u], r)
      PROVE  FALSE
  <2>1. call'[t].op # "sort"
    BY <1>1, <1>3 DEF OwnRows
  <2>2. CASE call'[t].tb = call[t].tb /\ Has(call[t], r)
    BY <1>3, <2>2 DEF Apart
  <2>3. CASE MayStore(t, call'[t].tb, r)
    BY <1>3, <2>3 DEF MayStore, OwnRows, Has
  <2> QED
    BY <1>3, <2>1, <2>2, <2>3 DEF Keeps
<1>4. OwnRows => \A a, b \in Threads, r \in Rows :
        a # b /\ call'[a].tb = call'[b].tb => ~(Has(call'[a], r) /\ Has(call'[b], r))
  <2> SUFFICES ASSUME OwnRows, NEW a \in Threads, NEW b \in Threads, NEW r \in Rows,
                      a # b, call'[a].tb = call'[b].tb, Has(call'[a], r), Has(call'[b], r)
               PROVE  FALSE
    OBVIOUS
  <2>1. CASE a = t
    BY <2>1, <1>3 DEF Keeps
  <2>2. CASE b = t
    BY <2>2, <1>3 DEF Keeps
  <2>3. CASE a # t /\ b # t
    BY <2>3 DEF Keeps, Apart
  <2> QED
    BY <2>1, <2>2, <2>3
<1>5. ASSUME OneTable, call'[t].pc = "remark" PROVE FALSE
  <2> DEFINE h == mSync
  <2>1. call[t].pc = "mark" /\ h \in Threads /\ WithDatabase(call[h])
    BY <1>5 DEF Keeps, Apart, IInv, Shaped
  <2>2. call[h].op \notin {"syncTable", "syncAll"}
    BY <1>5, <2>1 DEF OneTable, Apart
  <2>3. call[h].pc = "notified"
    BY <2>1, <2>2 DEF WithDatabase
  <2>4. call[t].tb \in Tables /\ call[h].tb \in Tables
    BY <2>1, <2>3 DEF IInv, Placed
  <2>5. mRowsSync[call[t].tb] = t /\ mRowsSync[call[h].tb] = h
    BY <2>1, <2>3 DEF IInv, Locked, WithRows
  <2>6. call[t].tb = call[h].tb
    BY <1>5, <2>4 DEF OneTable
  <2> QED
    BY <2>1, <2>3, <2>5, <2>6
<1>6. OneTable => \A u \in Threads : call'[u].pc # "remark"
  BY <1>5 DEF Keeps, Apart
<1> QED
  BY <1>1, <1>2, <1>4, <1>6 DEF Apart

LEMMA GotoKeeps ==
    ASSUME IInv, Apart, NEW t \in Threads, NEW pc \in Steps, Goto(t, pc),
           pc # "remark", call[t].pc # "notified", mSync' \in {mSync, None}
    PROVE  Keeps(t)
<1>1. call \in [Threads -> Calls] /\ (mSync = t => WithDatabase(call[t])) /\ None \notin Threads
  BY TableSyncAssumption DEF IInv, Shaped, Apart
<1>2. /\ \A u \in Threads \ {t} : call'[u] = call[u]
      /\ call'[t].pc = pc /\ call'[t].op = call[t].op /\ call'[t].tb = call[t].tb
      /\ call'[t].row = call[t].row /\ call'[t].other = call[t].other
  BY <1>1 DEF Goto, Calls
<1> QED
  BY <1>1, <1>2 DEF Keeps, Has, WithDatabase, Apart

LEMMA IdleKeeps ==
    ASSUME IInv, Apart, NEW t \in Threads, call' = [call EXCEPT ![t] = Idle],
           mSync' = None \/ (mSync' = mSync /\ ~WithDatabase(call[t]))
    PROVE  Keeps(t)
<1>1. /\ call \in [Threads -> Calls] /\ (mSync = t => WithDatabase(call[t]))
      /\ None \notin Threads \cup Rows
  BY TableSyncAssumption DEF IInv, Shaped, Apart, Rows
<1>2. /\ \A u \in Threads \ {t} : call'[u] = call[u]
      /\ call'[t].op = "idle" /\ call'[t].pc = "idle" /\ call'[t].row = None /\ call'[t].other = None
  BY <1>1 DEF Idle, Calling
<1> QED
  BY <1>1, <1>2 DEF Keeps, Has

LEMMA StoredKeeps ==
    ASSUME IInv, Apart, NEW t \in Threads, RowStored(t), ~WithDatabase(call[t]), mSync' = mSync,
           call[t].op \in {"set", "exchange", "sort"}
    PROVE  Keeps(t)
<1>1. /\ call \in [Threads -> Calls] /\ mSync # t
      /\ None \notin Threads \cup Rows
  BY TableSyncAssumption DEF IInv, Shaped, Apart, Rows
<1>2. CASE call' = [call EXCEPT ![t] = Idle]
  BY <1>2, IdleKeeps
<1>3. CASE call[t].other # None
  <2>1. call' = [call EXCEPT ![t] = Calling(call[t].op, "mark", call[t].tb, call[t].other, call[t].old, call[t].val, None, {})]
    BY <1>3 DEF RowStored
  <2>2. /\ \A u \in Threads \ {t} : call'[u] = call[u]
        /\ call'[t].op = call[t].op /\ call'[t].pc = "mark" /\ call'[t].tb = call[t].tb
        /\ call'[t].row = call[t].other /\ call'[t].other = None
    BY <1>1, <2>1 DEF Calling
  <2> QED
    BY <1>1, <2>2 DEF Keeps, Has, Apart
<1>4. CASE call[t].other = None /\ call[t].op = "sort"
  <2>1. call' = [call EXCEPT ![t] = Calling("sort", "locked", call[t].tb, None, Null, Null, None, {})]
    BY <1>4 DEF RowStored, Simple
  <2>2. /\ \A u \in Threads \ {t} : call'[u] = call[u]
        /\ call'[t].op = call[t].op /\ call'[t].op = "sort" /\ call'[t].pc = "locked"
    BY <1>1, <1>4, <2>1 DEF Calling
  <2> QED
    BY <1>1, <2>2 DEF Keeps, Apart
<1> QED
  BY <1>2, <1>3, <1>4 DEF RowStored

LEMMA StartKeeps ==
    ASSUME IInv, TInv, Apart, NEW t \in Threads, NEW tb \in Tables, Start(t, tb)
    PROVE  Keeps(t)
<1>0. /\ call \in [Threads -> Calls] /\ Placed(call[t]) /\ Standing(t) /\ None \notin Threads \cup Rows
      /\ call[t].op \in Ops \cup {"idle", "set"}
      /\ (call[t].op = "syncAll" => call[t].row = None /\ call[t].other = None)
      /\ (mSync = t => WithDatabase(call[t]))
  BY TableSyncAssumption DEF IInv, Shaped, TInv, Apart, Rows
<1>1. ASSUME NEW r \in Rows, NEW v \in Values, Set(t, tb, r, v) PROVE Keeps(t)
  BY <1>1, <1>0 DEF Keeps, Has, Placed, Standing, WithDatabase, dbVars, lockVars, contents, Simple, Calling, Idle, Set, Starts, TakeRows
<1>2. ASSUME NEW v \in Values, Append(t, tb, v) PROVE Keeps(t)
  BY <1>2, <1>0 DEF Keeps, Has, Placed, Standing, WithDatabase, dbVars, lockVars, contents, Simple, Calling, Idle, Append, Starts, TakeRows
<1>3. ASSUME AddRow(t, tb) PROVE Keeps(t)
  BY <1>3, <1>0 DEF Keeps, Has, Placed, Standing, WithDatabase, dbVars, lockVars, contents, Simple, Calling, Idle, AddRow, Starts, TakeRows
<1>4. ASSUME NEW r1 \in Rows, NEW r2 \in Rows, ExchangeRows(t, tb, r1, r2) PROVE Keeps(t)
  BY <1>4, <1>0 DEF Keeps, Has, Placed, Standing, WithDatabase, dbVars, lockVars, contents, Simple, Calling, Idle, ExchangeRows, Exchange, Starts, TakeRows
<1>5. ASSUME MatchRows(t, tb) PROVE Keeps(t)
  BY <1>5, <1>0 DEF Keeps, Has, Placed, Standing, WithDatabase, dbVars, lockVars, contents, Simple, Calling, Idle, MatchRows, Starts
<1>6. ASSUME CreateIndex(t, tb) PROVE Keeps(t)
  BY <1>6, <1>0 DEF Keeps, Has, Placed, Standing, WithDatabase, dbVars, lockVars, contents, Simple, Calling, Idle, CreateIndex, Starts
<1>7. ASSUME RemoveIndex(t, tb) PROVE Keeps(t)
  BY <1>7, <1>0 DEF Keeps, Has, Placed, Standing, WithDatabase, dbVars, lockVars, contents, Simple, Calling, Idle, RemoveIndex, Starts, TakeRows
<1>8. ASSUME SyncTableContent(t, tb) PROVE Keeps(t)
  BY <1>8, <1>0 DEF Keeps, Has, Placed, Standing, WithDatabase, dbVars, lockVars, contents, Simple, Calling, Idle, SyncTableContent, Starts
<1>9. ASSUME LockTable(t, tb) PROVE Keeps(t)
  BY <1>9, <1>0 DEF Keeps, Has, Placed, Standing, WithDatabase, dbVars, lockVars, contents, Simple, Calling, Idle, LockTable, Starts
<1> QED
  BY <1>1, <1>2, <1>3, <1>4, <1>5, <1>6, <1>7, <1>8, <1>9 DEF Start

LEMMA StepKeeps ==
    ASSUME IInv, TInv, Apart, NEW t \in Threads, Step(t)
    PROVE  Keeps(t)
<1>0. /\ call \in [Threads -> Calls] /\ Placed(call[t]) /\ Standing(t) /\ None \notin Threads \cup Rows
      /\ call[t].op \in Ops \cup {"idle", "set"}
      /\ (call[t].op = "syncAll" => call[t].row = None /\ call[t].other = None)
      /\ (mSync = t => WithDatabase(call[t]))
  BY TableSyncAssumption DEF IInv, Shaped, TInv, Apart, Rows
<1>1. ASSUME Notify(t) PROVE Keeps(t)
  BY <1>1, <1>0 DEF Keeps, Has, Placed, Standing, WithDatabase, dbVars, lockVars, contents, Simple, Calling, Idle, Notify, Goto
<1>2. ASSUME Notified(t) PROVE Keeps(t)
  BY <1>2, <1>0 DEF Keeps, Has, Placed, Standing, WithDatabase, dbVars, lockVars, contents, Simple, Calling, Idle, Notified, Goto
<1>3. ASSUME MarkYield(t) PROVE Keeps(t)
  BY <1>3, <1>0 DEF Keeps, Has, Placed, Standing, WithDatabase, dbVars, lockVars, contents, Simple, Calling, Idle, MarkYield, Goto, FreeRows, ThreadSafe
<1>4. ASSUME Remark(t) PROVE Keeps(t)
  BY <1>4, <1>0 DEF Keeps, Has, Placed, Standing, WithDatabase, dbVars, lockVars, contents, Simple, Calling, Idle, Remark, Goto, TakeRows
<1>5. ASSUME Marked(t) PROVE Keeps(t)
  BY <1>5, <1>0 DEF Keeps, Has, Placed, Standing, WithDatabase, dbVars, lockVars, contents, Simple, Calling, Idle, Marked, Goto
<1>6. ASSUME AddLock(t) PROVE Keeps(t)
  BY <1>6, <1>0 DEF Keeps, Has, Placed, Standing, WithDatabase, dbVars, lockVars, contents, Simple, Calling, Idle, AddLock, Goto
<1>7. ASSUME AddIndex(t) PROVE Keeps(t)
  <2>1. /\ mSync' = mSync /\ call[t].pc = "addIndex" /\ call[t].op \in {"add", "append"}
        /\ \/ call' = [call EXCEPT ![t] = Idle]
           \/ call' = [call EXCEPT ![t].op = "set", ![t].pc = "mark"]
    BY <1>0, <1>7 DEF AddIndex, dbVars, Placed
  <2>2. ~WithDatabase(call[t])
    BY <2>1 DEF WithDatabase
  <2>3. CASE call' = [call EXCEPT ![t].op = "set", ![t].pc = "mark"]
    <3>1. /\ \A u \in Threads \ {t} : call'[u] = call[u]
          /\ call'[t].op = "set" /\ call'[t].pc = "mark" /\ call'[t].tb = call[t].tb
          /\ call'[t].row = call[t].row /\ call'[t].other = call[t].other
      BY <1>0, <2>3 DEF Calls
    <3> QED
      BY <1>0, <2>1, <2>2, <3>1 DEF Keeps, Has
  <2> QED
    BY <2>1, <2>2, <2>3, IdleKeeps
<1>8. ASSUME Write(t) PROVE Keeps(t)
  <2>1. /\ RowStored(t) \/ \E pc \in {"acquire", "remove", "relock"} : Goto(t, pc)
        /\ mSync' = mSync /\ call[t].pc \in {"write", "insert"} /\ call[t].op \in {"set", "exchange", "sort"}
    BY <1>0, <1>8 DEF Write, dbVars, Placed
  <2>2. ~WithDatabase(call[t])
    BY <2>1 DEF WithDatabase
  <2> QED
    BY <2>1, <2>2, GotoKeeps, StoredKeeps DEF Steps
<1>9. ASSUME AcquireFieldIndex(t) PROVE Keeps(t)
  BY <1>9, <1>0 DEF Keeps, Has, Placed, Standing, WithDatabase, dbVars, lockVars, contents, Simple, Calling, Idle, AcquireFieldIndex, Goto, FreeRows, Acquirable
<1>10. ASSUME RemoveKey(t) PROVE Keeps(t)
  BY <1>10, <1>0 DEF Keeps, Has, Placed, Standing, WithDatabase, dbVars, lockVars, contents, Simple, Calling, Idle, RemoveKey, Goto
<1>11. ASSUME InsertKey(t) PROVE Keeps(t)
  <2>1. /\ RowStored(t) \/ \E pc \in {"acquire", "remove", "relock"} : Goto(t, pc)
        /\ mSync' = mSync /\ call[t].pc \in {"write", "insert"} /\ call[t].op \in {"set", "exchange", "sort"}
    BY <1>0, <1>11 DEF InsertKey, dbVars, Placed
  <2>2. ~WithDatabase(call[t])
    BY <2>1 DEF WithDatabase
  <2> QED
    BY <2>1, <2>2, GotoKeeps, StoredKeeps DEF Steps
<1>12. ASSUME Relock(t) PROVE Keeps(t)
  BY <1>12, <1>0 DEF Keeps, Has, Placed, Standing, WithDatabase, dbVars, lockVars, contents, Simple, Calling, Idle, Relock
<1>13. ASSUME MatchRowsWithIndex(t) PROVE Keeps(t)
  <2>1. /\ mSync' = mSync /\ call[t].pc # "notified" /\ call[t].op = "match"
        /\ \/ call' = [call EXCEPT ![t] = Idle]
           \/ \E pc \in {"matchAcquire", "matching"} : Goto(t, pc)
    BY <1>0, <1>13 DEF MatchRowsWithIndex, dbVars, Placed
  <2>2. ~WithDatabase(call[t])
    BY <2>1 DEF WithDatabase
  <2> QED
    BY <2>1, <2>2, IdleKeeps, GotoKeeps DEF Steps
<1>14. ASSUME DropIndex(t) PROVE Keeps(t)
  BY <1>14, <1>0 DEF Keeps, Has, Placed, Standing, WithDatabase, dbVars, lockVars, contents, Simple, Calling, Idle, DropIndex, FreeRows, Acquirable
<1>15. ASSUME NextTable(t) PROVE Keeps(t)
  <2>1. PICK tb \in call[t].todo :
          call' = [call EXCEPT ![t].tb = tb, ![t].todo = @ \ {tb}, ![t].pc = "flushRows"]
    BY <1>15 DEF NextTable
  <2>2. /\ \A u \in Threads \ {t} : call'[u] = call[u]
        /\ call'[t].op = call[t].op /\ call'[t].pc = "flushRows"
        /\ call'[t].row = call[t].row /\ call'[t].other = call[t].other
    BY <1>0, <2>1 DEF Calls
  <2>3. call[t].op = "syncAll" /\ mSync' = mSync
    BY <1>0, <1>15 DEF NextTable, Placed, dbVars
  <2>4. call[t].row = None /\ call[t].other = None
    BY <1>0, <2>3
  <2> QED
    BY <1>0, <2>2, <2>3, <2>4 DEF Keeps, Has, WithDatabase
<1>16. ASSUME SyncAllDone(t) PROVE Keeps(t)
  BY <1>16, <1>0 DEF Keeps, Has, Placed, Standing, WithDatabase, dbVars, lockVars, contents, Simple, Calling, Idle, SyncAllDone
<1>17. ASSUME FlushLockRows(t) PROVE Keeps(t)
  BY <1>17, <1>0 DEF Keeps, Has, Placed, Standing, WithDatabase, dbVars, lockVars, contents, Simple, Calling, Idle, FlushLockRows, Goto, TakeRows
<1>18. ASSUME FlushLockIndexes(t) PROVE Keeps(t)
  <2>1. /\ mSync' = mSync /\ call[t].pc # "notified"
        /\ \E pc \in {"flushRows", "flush"} : Goto(t, pc)
    BY <1>0, <1>18 DEF FlushLockIndexes, dbVars
  <2> QED
    BY <2>1, GotoKeeps DEF Steps
<1>19. ASSUME FlushInternal(t) PROVE Keeps(t)
  <2>1. /\ mSync' \in {mSync, None} /\ call[t].pc # "notified"
        /\ \/ call' = [call EXCEPT ![t] = Idle] /\ mSync' = None
           \/ \E pc \in {"locked", "nextTable"} : Goto(t, pc)
    BY <1>0, <1>19 DEF FlushInternal
  <2> QED
    BY <2>1, IdleKeeps, GotoKeeps DEF Steps
<1>20. ASSUME LockInProgress(t) PROVE Keeps(t)
  BY <1>20, <1>0 DEF Keeps, Has, Placed, Standing, WithDatabase, dbVars, lockVars, contents, Simple, Calling, Idle, LockInProgress, Goto
<1>21. ASSUME LockRows(t) PROVE Keeps(t)
  BY <1>21, <1>0 DEF Keeps, Has, Placed, Standing, WithDatabase, dbVars, lockVars, contents, Simple, Calling, Idle, LockRows, Goto, TakeRows
<1>22. ASSUME LockIndexes(t) PROVE Keeps(t)
  BY <1>22, <1>0 DEF Keeps, Has, Placed, Standing, WithDatabase, dbVars, lockVars, contents, Simple, Calling, Idle, LockIndexes, Goto
<1>23. ASSUME UnlockTable(t) PROVE Keeps(t)
  BY <1>23, <1>0 DEF Keeps, Has, Placed, Standing, WithDatabase, dbVars, lockVars, contents, Simple, Calling, Idle, UnlockTable, FreeRows
<1> QED
  BY <1>1, <1>2, <1>3, <1>4, <1>5, <1>6, <1>7, <1>8, <1>9, <1>10, <1>11, <1>12, <1>13, <1>14, <1>15, <1>16, <1>17, <1>18, <1>19, <1>20, <1>21, <1>22, <1>23 DEF Step

LEMMA NextApart == IInv /\ TInv /\ Apart /\ [Next]_vars => Apart'
<1> SUFFICES ASSUME IInv, TInv, Apart, [Next]_vars PROVE Apart'
  OBVIOUS
<1>1. ASSUME NEW t \in Threads, NEW tb \in Tables, Start(t, tb) PROVE Apart'
  BY <1>1, StartKeeps, KeepsApart
<1>2. ASSUME NEW t \in Threads, Step(t) PROVE Apart'
  BY <1>2, StepKeeps, KeepsApart
<1>3. ASSUME NEW t \in Threads, SyncAllTablesContent(t) PROVE Apart'
  <2>0. /\ call \in [Threads -> Calls] /\ Placed(call[t]) /\ Standing(t) /\ None \notin Threads \cup Rows
        /\ call[t].op \in Ops \cup {"idle", "set"}
        /\ (call[t].op = "syncAll" => call[t].row = None /\ call[t].other = None)
        /\ (mSync = t => WithDatabase(call[t]))
    BY TableSyncAssumption DEF IInv, Shaped, TInv, Apart, Rows
  <2>1. Keeps(t)
    BY <1>3, <2>0 DEF Keeps, Has, Placed, WithDatabase, SyncAllTablesContent, Starts, dbVars, lockVars, contents, Simple, Calling, Idle
  <2> QED
    BY <2>1, KeepsApart
<1>4. ASSUME NEW t \in Threads, NEW r1 \in Rows, NEW r2 \in Rows, SortExchange(t, r1, r2) PROVE Apart'
  <2>0. /\ call \in [Threads -> Calls] /\ Placed(call[t]) /\ Standing(t) /\ None \notin Threads \cup Rows
        /\ call[t].op \in Ops \cup {"idle", "set"}
        /\ (call[t].op = "syncAll" => call[t].row = None /\ call[t].other = None)
        /\ (mSync = t => WithDatabase(call[t]))
    BY TableSyncAssumption DEF IInv, Shaped, TInv, Apart, Rows
  <2>1. Keeps(t)
    BY <1>4, <2>0 DEF Keeps, Has, Placed, WithDatabase, SortExchange, Exchange, dbVars, lockVars, contents, Simple, Calling, Idle
  <2> QED
    BY <2>1, KeepsApart
<1>5. ASSUME UNCHANGED vars PROVE Apart'
  BY <1>5 DEF vars, Apart, Has, WithDatabase
<1> QED
  BY <1>1, <1>2, <1>3, <1>4, <1>5 DEF Next

LEMMA InitApart == Init => Apart
<1> SUFFICES ASSUME Init PROVE Apart
  OBVIOUS
<1>1. \A t \in Threads : /\ call[t].pc = "idle" /\ call[t].op = "idle"
                         /\ call[t].row = None /\ call[t].other = None
  BY DEF Init, Idle, Calling
<1>2. None \notin Rows
  BY TableSyncAssumption DEF Rows
<1> QED
  BY <1>1, <1>2 DEF Init, Apart, Has

-----------------------------------------------------------------------------
(* What the calls know, and what they have done to the index. *)

\* The state in which a step finds the calls.
All == IInv /\ TInv /\ Apart /\ Matched /\ (OwnRows \/ OneTable)

LEMMA AllOf ==
    ASSUME All, NEW t \in Threads
    PROVE  /\ call \in [Threads -> Calls] /\ mem \in [Tables -> Data] /\ call[t] \in Calls
           /\ Placed(call[t]) /\ Locked(t) /\ Sees(t) /\ Standing(t) /\ Knows(t) /\ Updates(t)
           /\ Null \in Values /\ Absent \notin Values /\ None \notin Rows /\ None \notin Threads
  BY TableSyncAssumption DEF All, IInv, Shaped, TInv, Matched, Rows

\* Of two calls behind on one row one waits for the field the other has.
LEMMA Pairs ==
    ASSUME All, NEW t \in Threads, NEW u \in Threads, t # u, Behind(call[t]), Behind(call[u]),
           call[t].tb = call[u].tb, call[t].row = call[u].row
    PROVE  \/ call[t].pc = "acquire" /\ call[u].pc \in {"remove", "insert"} /\ call[u].op = "set"
           \/ call[u].pc = "acquire" /\ call[t].pc \in {"remove", "insert"} /\ call[t].op = "set"
<1>1. /\ Placed(call[t]) /\ Locked(t) /\ Sees(t) /\ Standing(t)
      /\ Placed(call[u]) /\ Locked(u) /\ Sees(u) /\ None \notin Threads
  BY AllOf
<1>2. CASE OwnRows
  <2>1. call[t].row \in Rows /\ Has(call[t], call[t].row) /\ Has(call[u], call[t].row)
    BY <1>1 DEF Standing, Has
  <2> QED
    BY <1>2, <2>1 DEF All, Apart
<1>3. CASE OneTable
  <2>1. call[t].op \in {"set", "sort"} /\ call[u].op \in {"set", "sort"}
    BY <1>1, <1>3 DEF OneTable, Placed, Behind
  <2>2. /\ call[t].tb \in Tables /\ mem[call[t].tb].indexed
        /\ WithRows(call[t]) /\ WithRows(call[u]) => FALSE
        /\ WithField(call[t]) /\ WithField(call[u]) => FALSE
    BY <1>1 DEF Locked, Sees, Behind, Placed
  <2>3. ~(call[t].op = "sort" /\ WithField(call[u]))
    BY <1>1, <2>2 DEF Locked, Sees, Sorting, Behind, Placed
  <2>4. ~(call[u].op = "sort" /\ WithField(call[t]))
    BY <1>1, <2>2 DEF Locked, Sees, Sorting, Behind, Placed
  <2> QED
    BY <2>1, <2>2, <2>3, <2>4, <1>1 DEF WithRows, WithField, Behind, Placed
<1> QED
  BY <1>2, <1>3 DEF All

\* A call that changes a row can find there one that has the field, and none
\* that has yet to change it.
LEMMA WriterFirst ==
    ASSUME All, NEW t \in Threads, NEW u \in Threads, t # u, call[t].pc = "write",
           call[u].tb = call[t].tb, Stores(call[u]) \/ Behind(call[u])
    PROVE  \/ call[t].row # call[u].row /\ call[t].row # call[u].other
           \/ /\ OneTable /\ call[u].pc \in {"remove", "insert"} /\ call[u].op = "set"
              /\ call[u].other = None
<1>1. /\ Placed(call[t]) /\ Locked(t) /\ Standing(t) /\ Knows(t)
      /\ Placed(call[u]) /\ Locked(u) /\ Knows(u) /\ None \notin Rows
  BY AllOf
<1>2. call[t].row \in Rows
  BY <1>1 DEF Standing, Stores, Placed
<1>3. CASE OwnRows
  BY <1>2, <1>3 DEF All, Apart, Has
<1>4. CASE OneTable
  <2>1. call[u].pc # "remark" /\ call[u].op # "exchange"
    BY <1>1, <1>4 DEF OneTable, All, Apart, Placed
  <2>2. ~WithRows(call[u])
    BY <1>1 DEF Locked, WithRows
  <2>3. call[u].pc \in {"remove", "insert"} /\ call[u].op = "set"
    BY <2>1, <2>2 DEF WithRows, Stores, Behind
  <2> QED
    BY <1>1, <1>4, <2>3 DEF Knows
<1> QED
  BY <1>3, <1>4 DEF All

\* Nothing about row r of tb changes: neither its value nor its key nor who is
\* behind on it.
Spared(tb, r) ==
    /\ mem'[tb].indexed = mem[tb].indexed
    /\ mem'[tb].row[r] = mem[tb].row[r]
    /\ mem[tb].indexed =>
        \A w \in Values : <<w, r>> \in mem'[tb].keys <=> <<w, r>> \in mem[tb].keys
    /\ BehindOn(tb, r)' = BehindOn(tb, r)

LEMMA SparedSettled ==
    ASSUME NEW tb, NEW r, Spared(tb, r), Settled(tb, r)
    PROVE  Settled(tb, r)'
  BY DEF Spared, Settled, Only

LEMMA SparedUpdates ==
    ASSUME NEW u \in Threads, call'[u] = call[u], Updates(u),
           Behind(call[u]) =>
             /\ Spared(call[u].tb, call[u].row) /\ mem[call[u].tb].indexed
             /\ \A x \in BehindOn(call[u].tb, call[u].row) : call'[x].val = call[x].val
    PROVE  Updates(u)'
<1>0. PICK c : c = call[u]
  OBVIOUS
<1>1. call'[u] = c
  BY <1>0
<1>2. CASE ~Behind(c)
  BY <1>0, <1>1, <1>2 DEF Updates, Behind
<1>3. CASE Behind(c)
  <2>1. Spared(c.tb, c.row) /\ mem[c.tb].indexed
    BY <1>0, <1>3
  <2>2. Others(u)' = Others(u) /\ Others(u) = BehindOn(c.tb, c.row) \ {u}
    BY <1>0, <1>1, <2>1 DEF Others, Spared
  <2>3. \A x \in Others(u) : call'[x].val = call[x].val
    BY <1>0, <1>3, <2>2
  <2>4. \A w : Only(c.tb, c.row, w)' <=> Only(c.tb, c.row, w)
    BY <2>1 DEF Spared, Only
  <2> QED
    BY <1>0, <1>1, <2>1, <2>2, <2>3, <2>4 DEF Updates, Spared
<1> QED
  BY <1>2, <1>3

\* A step that changes no table, by a call that is not behind.
Calm(t) ==
    /\ mem' = mem /\ \A u \in Threads \ {t} : call'[u] = call[u]
    /\ ~Behind(call[t]) /\ ~Behind(call'[t])
    /\ Knows(t)'

LEMMA CalmMatched ==
    ASSUME All, NEW t \in Threads, Calm(t)
    PROVE  Matched'
<1>1. \A tb, r : Spared(tb, r) /\ \A x \in BehindOn(tb, r) : call'[x].val = call[x].val
  BY DEF Calm, Spared, BehindOn
<1>2. ASSUME NEW u \in Threads, u # t PROVE Knows(u)' /\ Updates(u)'
  <2>0. Knows(u) /\ Updates(u) /\ Sees(u) /\ call'[u] = call[u] /\ mem' = mem
    BY <1>2, AllOf DEF Calm
  <2>1. Updates(u)'
    BY <1>1, <2>0, SparedUpdates DEF Sees, Behind
  <2>2. Knows(u)'
    BY <2>0 DEF Knows
  <2> QED
    BY <2>1, <2>2
<1>3. Knows(t)' /\ Updates(t)'
  BY DEF Calm, Updates, Behind
<1>4. \A tb \in Tables, r \in Rows : Settled(tb, r)'
  BY <1>1, SparedSettled DEF All, Matched
<1> QED
  BY <1>2, <1>3, <1>4 DEF Matched

LEMMA StoredCall ==
    ASSUME call \in [Threads -> Calls], NEW t \in Threads, RowStored(t)
    PROVE  /\ \A u \in Threads \ {t} : call'[u] = call[u]
           /\ ~Behind(call'[t])
           /\ \/ /\ call[t].other # None
                 /\ call'[t].op = call[t].op /\ call'[t].tb = call[t].tb
                 /\ call'[t].row = call[t].other /\ call'[t].other = None
                 /\ call'[t].val = call[t].old /\ call'[t].old = call[t].val
              \/ ~Stores(call'[t]) /\ call'[t].op # "set"
<1>1. CASE call' = [call EXCEPT ![t] = Idle]
  BY <1>1 DEF Idle, Calling, Behind, Stores
<1>2. CASE call[t].other # None
  <2>1. call' = [call EXCEPT ![t] = Calling(call[t].op, "mark", call[t].tb, call[t].other, call[t].old, call[t].val, None, {})]
    BY <1>2 DEF RowStored
  <2> QED
    BY <1>2, <2>1 DEF Calling, Behind
<1>3. CASE call[t].other = None /\ call[t].op = "sort"
  <2>1. call' = [call EXCEPT ![t] = Calling("sort", "locked", call[t].tb, None, Null, Null, None, {})]
    BY <1>3 DEF RowStored, Simple
  <2> QED
    BY <2>1 DEF Calling, Behind, Stores
<1> QED
  BY <1>1, <1>2, <1>3 DEF RowStored

LEMMA GotoCall ==
    ASSUME call \in [Threads -> Calls], NEW t \in Threads, NEW pc \in Steps, Goto(t, pc)
    PROVE  /\ \A u \in Threads \ {t} : call'[u] = call[u]
           /\ call'[t].pc = pc /\ call'[t].op = call[t].op /\ call'[t].tb = call[t].tb
           /\ call'[t].row = call[t].row /\ call'[t].other = call[t].other
           /\ call'[t].val = call[t].val /\ call'[t].old = call[t].old
  BY DEF Goto, Calls

LEMMA RowToAdd ==
    ASSUME IInv, TInv, NEW t \in Threads, NEW tb \in Tables, t \in Adders(tb)
    PROVE  Count(tb) \in Rows /\ mem[tb].row[Count(tb)] = Absent
<1>1. PICK n \in Nat : Extent(mem[tb].row, n) /\ n + Cardinality(Adders(tb)) <= MaxRows
  BY DEF TInv, HasRoom
<1>2. Count(tb) = n
  BY <1>1, CountIs
<1>3. Cardinality(Adders(tb) \ {t}) = Cardinality(Adders(tb)) - 1
  BY AddersCount, FS_RemoveElement
<1>4. Cardinality(Adders(tb) \ {t}) \in Nat /\ Cardinality(Adders(tb)) \in Nat /\ MaxRows \in Nat
  BY AddersCount, FS_RemoveElement, FS_CardinalityType, TableSyncAssumption
<1>5. n \in Rows
  BY <1>1, <1>3, <1>4 DEF Rows
<1> QED
  BY <1>1, <1>2, <1>5 DEF Extent

LEMMA CreateIndexMatched ==
    ASSUME All, NEW t \in Threads, NEW tb \in Tables, CreateIndex(t, tb)
    PROVE  Matched'
<1>1. mem \in [Tables -> Data] /\ ~mem[tb].indexed /\ call' = call /\ Absent \notin Values
  BY AllOf DEF CreateIndex
<1>2. \A x \in Tables : mem'[x] =
        IF x = tb THEN [row |-> mem[tb].row, indexed |-> TRUE, keys |-> KeysOf(mem[tb].row)] ELSE mem[x]
  <2> DEFINE k == KeysOf(mem[tb].row)
  <2>1. k \in AnyKeys /\ mem' = [mem EXCEPT ![tb].indexed = TRUE, ![tb].keys = k]
    <3>1. mem[tb].row \in [Rows -> Values \cup {Absent}]
      BY <1>1 DEF Data
    <3> QED
      BY <3>1, KeysOfShape DEF CreateIndex
  <2> HIDE DEF k
  <2>2. \A x \in Tables : [mem EXCEPT ![tb].indexed = TRUE, ![tb].keys = k][x] =
          IF x = tb THEN [row |-> mem[tb].row, indexed |-> TRUE, keys |-> k] ELSE mem[x]
    BY <1>1, <2>1, IndexShape
  <2> QED
    BY <2>1, <2>2 DEF k
<1>3. \A x \in Tables : \A r : x # tb => Spared(x, r)
  BY <1>1, <1>2 DEF Spared, BehindOn
<1>4. ASSUME NEW u \in Threads PROVE Knows(u)' /\ Updates(u)'
  <2>1. Knows(u) /\ Updates(u) /\ Sees(u) /\ Placed(call[u]) /\ call'[u] = call[u]
    BY <1>1, AllOf
  <2>2. Behind(call[u]) => call[u].tb \in Tables /\ call[u].tb # tb /\ mem[call[u].tb].indexed
    BY <1>1, <2>1 DEF Sees, Behind, Placed
  <2>3. Updates(u)'
    BY <1>1, <1>3, <2>1, <2>2, SparedUpdates
  <2>4. \A x \in Tables : mem'[x].row = mem[x].row
    BY <1>2
  <2>5. Stores(call[u]) \/ Behind(call[u]) => call[u].tb \in Tables
    BY <2>1 DEF Placed, Stores, Behind
  <2> QED
    BY <2>1, <2>3, <2>4, <2>5 DEF Knows
<1>5. ASSUME NEW x \in Tables, NEW r \in Rows PROVE Settled(x, r)'
  <2>1. CASE x # tb
    BY <2>1, <1>3, SparedSettled DEF All, Matched
  <2>2. CASE x = tb
    <3>1. \A w \in Values : <<w, r>> \in KeysOf(mem[tb].row) <=> w = mem[tb].row[r]
      BY <1>1 DEF KeysOf
    <3> QED
      BY <2>2, <3>1, <1>2 DEF Settled, Only
  <2> QED
    BY <2>1, <2>2
<1> QED
  BY <1>4, <1>5 DEF Matched

LEMMA DropIndexMatched ==
    ASSUME All, NEW t \in Threads, DropIndex(t)
    PROVE  Matched'
<1>0. PICK tb : tb = call[t].tb
  OBVIOUS
<1>1. /\ mem \in [Tables -> Data] /\ tb \in Tables /\ call[t].pc = "dropIndex"
      /\ call \in [Threads -> Calls]
  BY <1>0, AllOf DEF DropIndex, Placed
<1>2. \A x \in Tables : mem'[x] =
        IF x = tb THEN [row |-> mem[tb].row, indexed |-> FALSE, keys |-> {}] ELSE mem[x]
  <2>1. mem' = [mem EXCEPT ![tb].indexed = FALSE, ![tb].keys = {}] /\ {} \in AnyKeys
    BY <1>0 DEF DropIndex, AnyKeys
  <2> QED
    BY <1>1, <2>1, IndexShape
<1>3. /\ \A u \in Threads \ {t} : call'[u] = call[u]
      /\ call'[t].pc = "idle" /\ call'[t].op = "idle"
  BY <1>1, IdleShape DEF DropIndex
<1>4. IInv'
  BY DropIndexIInv DEF All
<1>5. \A x \in Tables : \A r : x # tb => Spared(x, r)
  BY <1>0, <1>1, <1>2, <1>3 DEF Spared, BehindOn, Behind
<1>6. ASSUME NEW u \in Threads, u # t PROVE Knows(u)' /\ Updates(u)'
  <2>1. /\ Knows(u) /\ Updates(u) /\ Sees(u) /\ Placed(call[u]) /\ call'[u] = call[u]
        /\ Sees(u)'
    BY <1>3, <1>4, <1>6, AllOf DEF IInv
  <2>2. Behind(call[u]) => call[u].tb \in Tables /\ mem'[call[u].tb].indexed /\ mem[call[u].tb].indexed
    BY <2>1 DEF Sees, Behind, Placed
  <2>3. Behind(call[u]) => call[u].tb # tb
    BY <1>2, <2>2
  <2>4. \A x, r : \A y \in BehindOn(x, r) : call'[y].val = call[y].val
    BY <1>1, <1>3 DEF BehindOn, Behind
  <2>5. Updates(u)'
    BY <1>5, <2>1, <2>2, <2>3, <2>4, SparedUpdates
  <2>6. \A x \in Tables : mem'[x].row = mem[x].row
    BY <1>2
  <2>7. Stores(call[u]) \/ Behind(call[u]) => call[u].tb \in Tables
    BY <2>1 DEF Placed, Stores, Behind
  <2> QED
    BY <2>1, <2>5, <2>6, <2>7 DEF Knows
<1>7. Knows(t)' /\ Updates(t)'
  BY <1>3 DEF Knows, Updates, Stores, Behind
<1>8. ASSUME NEW x \in Tables, NEW r \in Rows PROVE Settled(x, r)'
  <2>1. CASE x # tb
    BY <2>1, <1>5, SparedSettled DEF All, Matched
  <2>2. CASE x = tb
    BY <2>2, <1>2 DEF Settled
  <2> QED
    BY <2>1, <2>2
<1> QED
  BY <1>6, <1>7, <1>8 DEF Matched

LEMMA AddIndexMatched ==
    ASSUME All, NEW t \in Threads, AddIndex(t)
    PROVE  Matched'
<1> DEFINE on == call[t].op = "append" /\ call[t].val # Null
<1>0. PICK tb, n : tb = call[t].tb /\ n = Count(tb)
  OBVIOUS
<1>1. /\ call \in [Threads -> Calls] /\ mem \in [Tables -> Data] /\ tb \in Tables
      /\ call[t].op \in {"add", "append"} /\ Standing(t) /\ call[t].pc = "addIndex"
      /\ Null \in Values /\ Absent \notin Values
  BY <1>0, AllOf DEF AddIndex, Placed
<1>2. n \in Rows /\ mem[tb].row[n] = Absent
  <2>1. t \in Adders(tb)
    BY <1>0, <1>1 DEF Adders
  <2> QED
    BY <1>0, <1>1, <2>1, RowToAdd DEF All
<1>3. /\ \A u \in Threads \ {t} : call'[u] = call[u]
      /\ \/ /\ on /\ call'[t].op = "set" /\ call'[t].pc = "mark"
            /\ call'[t].row = call[t].row /\ call'[t].other = call[t].other /\ call'[t].tb = tb
            /\ call'[t].old = call[t].old
         \/ ~on /\ call'[t].op = "idle" /\ call'[t].pc = "idle"
  BY <1>0, <1>1 DEF AddIndex, Calls, Idle, Calling
<1>4. /\ \A x \in Tables : x # tb => mem'[x] = mem[x]
      /\ mem'[tb].row = [mem[tb].row EXCEPT ![n] = Null]
      /\ mem'[tb].indexed = mem[tb].indexed
      /\ mem[tb].indexed => mem'[tb].keys = mem[tb].keys \cup {<<Null, n>>}
  BY <1>0, <1>1 DEF AddIndex
<1>5. /\ mem'[tb].row[n] = Null
      /\ \A r \in Rows : r # n => mem'[tb].row[r] = mem[tb].row[r]
  BY <1>1, <1>2, <1>4 DEF Data
<1>6. \A x, r : BehindOn(x, r)' = BehindOn(x, r) /\ \A y \in BehindOn(x, r) : call'[y].val = call[y].val
  BY <1>1, <1>3 DEF BehindOn, Behind
<1>7. ASSUME NEW x \in Tables, NEW r \in Rows, x # tb \/ r # n PROVE Spared(x, r)
  <2>1. CASE x # tb
    BY <2>1, <1>4, <1>6 DEF Spared
  <2>2. CASE x = tb /\ r # n
    <3>1. \A w \in Values : mem[tb].indexed => (<<w, r>> \in mem'[tb].keys <=> <<w, r>> \in mem[tb].keys)
      BY <1>4, <2>2
    <3> QED
      BY <2>2, <3>1, <1>4, <1>5, <1>6 DEF Spared
  <2> QED
    BY <1>7, <2>1, <2>2
<1>8. ASSUME NEW u \in Threads, u # t PROVE Knows(u)' /\ Updates(u)'
  <2>1. /\ Knows(u) /\ Updates(u) /\ Sees(u) /\ Standing(u) /\ Placed(call[u])
        /\ call'[u] = call[u]
    BY <1>3, <1>8, AllOf
  <2>2. Stores(call[u]) \/ Behind(call[u]) =>
          /\ call[u].tb \in Tables
          /\ call[u].row \in Rows /\ (call[u].tb = tb => call[u].row # n)
          /\ call[u].other # None => call[u].other \in Rows /\ (call[u].tb = tb => call[u].other # n)
    BY <1>2, <2>1 DEF Standing, Placed, Stores, Behind
  <2>3. Updates(u)'
    BY <1>6, <1>7, <2>1, <2>2, SparedUpdates DEF Sees, Behind
  <2>4. ASSUME NEW x \in Tables, NEW r \in Rows, x = tb => r # n PROVE mem'[x].row[r] = mem[x].row[r]
    BY <1>4, <1>5, <2>4
  <2>5. Stores(call[u]) \/ Behind(call[u]) =>
          /\ mem'[call[u].tb].row[call[u].row] = mem[call[u].tb].row[call[u].row]
          /\ call[u].other # None =>
               mem'[call[u].tb].row[call[u].other] = mem[call[u].tb].row[call[u].other]
    BY <2>2, <2>4
  <2> QED
    BY <2>1, <2>3, <2>5 DEF Knows
<1>9. Knows(t)' /\ Updates(t)'
  <2>1. ~Behind(call'[t])
    BY <1>3 DEF Behind
  <2>2. CASE on
    <3>1. call[t].row = n /\ call[t].old = Null /\ call[t].other = None
      BY <2>2, <1>0, <1>1 DEF Standing
    <3>2. /\ call'[t].tb = tb /\ call'[t].row = n /\ call'[t].old = Null /\ call'[t].other = None
      BY <1>3, <2>2, <3>1
    <3> QED
      BY <2>1, <3>2, <1>5 DEF Knows, Updates, Behind
  <2>3. CASE ~on
    BY <2>1, <2>3, <1>3 DEF Knows, Updates, Behind, Stores
  <2> QED
    BY <2>2, <2>3
<1>10. ASSUME NEW x \in Tables, NEW r \in Rows PROVE Settled(x, r)'
  <2>1. CASE x # tb \/ r # n
    BY <2>1, <1>7, SparedSettled DEF All, Matched
  <2>2. CASE x = tb /\ r = n
    <3>1. BehindOn(tb, n) = {}
      <4>1. ASSUME NEW u \in BehindOn(tb, n) PROVE FALSE
        <5>1. u \in Threads /\ Standing(u) /\ Behind(call[u]) /\ call[u].tb = tb /\ call[u].row = n
          BY AllOf DEF BehindOn
        <5> QED
          BY <5>1, <1>2 DEF Standing
      <4> QED
        BY <4>1
    <3>2. mem[tb].indexed => \A w \in Values : <<w, n>> \in mem[tb].keys <=> w = Absent
      BY <3>1, <1>1, <1>2 DEF All, Matched, Settled, Only
    <3>3. mem[tb].indexed => \A w \in Values : <<w, n>> \in mem'[tb].keys <=> w = Null
      BY <3>2, <1>1, <1>4
    <3> QED
      BY <2>2, <3>3, <1>4, <1>5 DEF Settled, Only
  <2> QED
    BY <2>1, <2>2
<1> QED
  BY <1>8, <1>9, <1>10 DEF Matched

LEMMA WriteMatched ==
    ASSUME All, NEW t \in Threads, Write(t)
    PROVE  Matched'
<1>0. PICK c : c = call[t]
  OBVIOUS
<1>1. /\ call \in [Threads -> Calls] /\ mem \in [Tables -> Data] /\ c.tb \in Tables
      /\ c.op \in {"set", "exchange", "sort"} /\ c.pc = "write"
      /\ c.row \in Rows /\ c.val \in Values /\ c.old \in Values /\ Absent \notin Values
      /\ mem[c.tb].row[c.row] = c.old
      /\ c.other # None => c.other \in Rows /\ c.other # c.row /\ mem[c.tb].row[c.other] = c.val
      /\ c.op = "set" => c.other = None
  <2>1. /\ call \in [Threads -> Calls] /\ mem \in [Tables -> Data] /\ c \in Calls
        /\ Placed(c) /\ Standing(t) /\ Knows(t) /\ Absent \notin Values /\ c.pc = "write"
    BY <1>0, AllOf DEF Write
  <2>2. c.tb \in Tables /\ c.op \in {"set", "exchange", "sort"} /\ Stores(c)
    BY <2>1 DEF Placed, Stores
  <2> QED
    BY <1>0, <2>1, <2>2 DEF Standing, Knows, Calls
<1>2. /\ \A x \in Tables : mem'[x].keys = mem[x].keys /\ mem'[x].indexed = mem[x].indexed
      /\ \A x \in Tables, r \in Rows :
           mem'[x].row[r] = IF x = c.tb /\ r = c.row THEN c.val ELSE mem[x].row[r]
  <2>1. mem' = [mem EXCEPT ![c.tb].row[c.row] = c.val]
    BY <1>0 DEF Write
  <2> QED
    BY <1>1, <2>1 DEF Data
<1>3. /\ \A u \in Threads \ {t} : call'[u] = call[u]
      /\ mem[c.tb].indexed =>
           /\ call'[t].pc = (IF c.op = "set" THEN "acquire" ELSE "remove")
           /\ call'[t].op = c.op /\ call'[t].tb = c.tb /\ call'[t].row = c.row
           /\ call'[t].other = c.other /\ call'[t].val = c.val /\ call'[t].old = c.old
      /\ ~mem[c.tb].indexed => RowStored(t)
  <2>1. CASE mem[c.tb].indexed
    <3>1. Goto(t, IF c.op = "set" THEN "acquire" ELSE "remove")
      BY <1>0, <1>1, <2>1 DEF Write, ThreadSafe
    <3>2. (IF c.op = "set" THEN "acquire" ELSE "remove") \in Steps
      BY DEF Steps
    <3> QED
      BY <1>0, <1>1, <2>1, <3>1, <3>2, GotoCall
  <2>2. CASE ~mem[c.tb].indexed
    <3>1. RowStored(t)
      BY <1>0, <2>2 DEF Write
    <3> QED
      BY <1>1, <2>2, <3>1, StoredCall
  <2> QED
    BY <2>1, <2>2
<1>4. ASSUME NEW u \in Threads, u # t, Stores(call[u]) \/ Behind(call[u]), call[u].tb = c.tb
      PROVE  \/ c.row # call[u].row /\ c.row # call[u].other
             \/ /\ OneTable /\ call[u].pc \in {"remove", "insert"} /\ call[u].op = "set"
                /\ call[u].other = None
  BY <1>0, <1>1, <1>4, WriterFirst
<1>5. ASSUME NEW u \in Threads, u # t PROVE Knows(u)'
  <2>1. Knows(u) /\ Standing(u) /\ Placed(call[u]) /\ call'[u] = call[u]
    BY <1>3, <1>5, AllOf
  <2>2. Stores(call[u]) \/ Behind(call[u]) => call[u].tb \in Tables
    BY <2>1 DEF Placed, Stores, Behind
  <2>3. ~(Stores(call[u]) /\ call[u].pc \in {"remove", "insert"})
    BY DEF Stores
  <2> QED
    BY <1>2, <1>4, <1>5, <2>1, <2>2, <2>3 DEF Knows, Standing
<1>6. Knows(t)'
  <2>1. CASE mem[c.tb].indexed
    <3>1. ~Stores(call'[t])
      BY <2>1, <1>3 DEF Stores
    <3> QED
      BY <2>1, <3>1, <1>1, <1>2, <1>3 DEF Knows
  <2>2. CASE ~mem[c.tb].indexed
    <3>1. /\ ~Behind(call'[t])
          /\ \/ /\ c.other # None
                /\ call'[t].op = c.op /\ call'[t].tb = c.tb
                /\ call'[t].row = c.other /\ call'[t].other = None
                /\ call'[t].old = c.val
             \/ ~Stores(call'[t]) /\ call'[t].op # "set"
      BY <2>2, <1>0, <1>1, <1>3, StoredCall
    <3> QED
      BY <3>1, <1>1, <1>2 DEF Knows
  <2> QED
    BY <2>1, <2>2
<1>7. ASSUME NEW x \in Tables, NEW r \in Rows, x # c.tb \/ r # c.row PROVE Spared(x, r)
  <2>1. CASE mem[c.tb].indexed
    <3>1. BehindOn(x, r)' = BehindOn(x, r)
      BY <2>1, <1>0, <1>1, <1>3, <1>7 DEF BehindOn, Behind
    <3> QED
      BY <3>1, <1>2, <1>7 DEF Spared
  <2>2. CASE ~mem[c.tb].indexed
    <3>1. ~Behind(call'[t])
      BY <2>2, <1>1, <1>3, StoredCall
    <3>2. BehindOn(x, r)' = BehindOn(x, r)
      BY <3>1, <1>0, <1>1, <1>3 DEF BehindOn, Behind
    <3> QED
      BY <3>2, <1>2, <1>7 DEF Spared
  <2> QED
    BY <2>1, <2>2
<1>8. \A x, r : \A y \in BehindOn(x, r) : y # t /\ call'[y] = call[y]
  BY <1>0, <1>1, <1>3 DEF BehindOn, Behind
<1>9. CASE ~mem[c.tb].indexed
  <2>1. ASSUME NEW u \in Threads, u # t PROVE Updates(u)'
    <3>1. Updates(u) /\ Sees(u) /\ Standing(u) /\ Placed(call[u]) /\ call'[u] = call[u]
      BY <1>3, <2>1, AllOf
    <3>2. Behind(call[u]) =>
            call[u].tb \in Tables /\ call[u].tb # c.tb /\ mem[call[u].tb].indexed /\ call[u].row \in Rows
      BY <1>9, <3>1 DEF Sees, Standing, Placed, Behind
    <3> QED
      BY <1>7, <1>8, <3>1, <3>2, SparedUpdates
  <2>2. Updates(t)'
    <3>1. ~Behind(call'[t])
      BY <1>9, <1>1, <1>3, StoredCall
    <3> QED
      BY <3>1 DEF Updates, Behind
  <2>3. ASSUME NEW x \in Tables, NEW r \in Rows PROVE Settled(x, r)'
    <3>1. CASE x = c.tb
      BY <3>1, <1>2, <1>9 DEF Settled
    <3>2. CASE x # c.tb
      BY <3>2, <1>7, SparedSettled DEF All, Matched
    <3> QED
      BY <3>1, <3>2
  <2> QED
    BY <1>5, <1>6, <2>1, <2>2, <2>3 DEF Matched
<1>10. CASE mem[c.tb].indexed
  <2> DEFINE first == BehindOn(c.tb, c.row)
  <2>1. BehindOn(c.tb, c.row)' = first \cup {t} /\ t \notin first
    BY <1>10, <1>0, <1>1, <1>3 DEF BehindOn, Behind
  <2>2. ASSUME NEW u \in first
        PROVE  /\ u \in Threads /\ u # t /\ call[u].tb = c.tb /\ call[u].row = c.row /\ Behind(call[u])
               /\ OneTable /\ call[u].pc \in {"remove", "insert"} /\ call[u].op = "set"
               /\ first = {u}
    <3>1. u \in Threads /\ u # t /\ call[u].tb = c.tb /\ call[u].row = c.row /\ Behind(call[u])
      BY <2>1 DEF BehindOn
    <3>2. OneTable /\ call[u].pc \in {"remove", "insert"} /\ call[u].op = "set"
      BY <3>1, <1>4
    <3>3. ASSUME NEW w \in first, w # u PROVE FALSE
      <4>1. w \in Threads /\ w # t /\ call[w].tb = c.tb /\ call[w].row = c.row /\ Behind(call[w])
        BY <2>1 DEF BehindOn
      <4>2. call[w].pc \in {"remove", "insert"}
        BY <4>1, <1>4
      <4> QED
        BY <3>1, <3>2, <3>3, <4>1, <4>2, Pairs
    <3> QED
      BY <3>1, <3>2, <3>3
  <2>3. \A v : Only(c.tb, c.row, v)' <=> Only(c.tb, c.row, v)
    BY <1>1, <1>2 DEF Only
  <2>4. first = {} => Only(c.tb, c.row, c.old)
    BY <1>1, <1>10 DEF All, Matched, Settled
  <2>5. Updates(t)'
    <3>1. Others(t)' = first
      BY <2>1, <1>3, <1>10 DEF Others
    <3>2. CASE c.op = "set"
      <4>1. ASSUME NEW u \in first PROVE call'[u].val = c.old
        <5>1. u \in Threads /\ u # t /\ call[u].pc \in {"remove", "insert"} /\ Updates(u)
          BY <2>2, AllOf
        <5>2. Others(u) = {} /\ call[u].tb = c.tb /\ call[u].row = c.row
          BY <2>2 DEF Others
        <5> QED
          BY <5>1, <5>2, <1>1, <1>3 DEF Updates
      <4>2. mem'[c.tb].row[c.row] = c.val
        BY <1>1, <1>2
      <4> QED
        BY <1>3, <1>10, <2>3, <2>4, <3>1, <3>2, <4>1, <4>2 DEF Updates
    <3>3. CASE c.op # "set"
      <4>1. first = {}
        <5>1. ASSUME NEW u \in first PROVE FALSE
          <6>1. OneTable /\ Locked(u) /\ WithField(call[u]) /\ call[u].tb = c.tb /\ u \in Threads
            BY <2>2, AllOf DEF WithField
          <6>2. Sees(t) /\ Placed(c) /\ None \notin Threads
            BY <1>0, AllOf
          <6>3. c.op = "sort"
            BY <3>3, <1>1, <6>1, <6>2 DEF OneTable, Placed
          <6>4. acquired[c.tb] = None
            BY <1>0, <1>1, <1>10, <6>2, <6>3 DEF Sees, Sorting
          <6> QED
            BY <6>1, <6>2, <6>4 DEF Locked
        <5> QED
          BY <5>1
      <4>2. Only(c.tb, c.row, c.old)' /\ mem'[c.tb].row[c.row] = c.val
        BY <4>1, <2>3, <2>4, <1>1, <1>2
      <4> QED
        BY <1>3, <1>10, <3>3, <4>2 DEF Updates
    <3> QED
      BY <3>2, <3>3
  <2>6. ASSUME NEW u \in Threads, u # t PROVE Updates(u)'
    <3>1. Updates(u) /\ Sees(u) /\ Standing(u) /\ Placed(call[u]) /\ call'[u] = call[u]
      BY <1>3, <2>6, AllOf
    <3>2. CASE u \notin first
      <4>1. Behind(call[u]) =>
              /\ call[u].tb \in Tables /\ mem[call[u].tb].indexed /\ call[u].row \in Rows
              /\ call[u].tb # c.tb \/ call[u].row # c.row
        BY <3>1, <3>2 DEF Sees, Standing, Placed, Behind, BehindOn
      <4> QED
        BY <1>7, <1>8, <3>1, <4>1, SparedUpdates
    <3>3. CASE u \in first
      <4>1. call[u].pc \in {"remove", "insert"} /\ call[u].tb = c.tb /\ call[u].row = c.row
        BY <3>3, <2>2
      <4>2. t \in Others(u)'
        BY <2>1, <2>6, <3>1, <4>1 DEF Others
      <4> QED
        BY <2>3, <3>1, <4>1, <4>2 DEF Updates
    <3> QED
      BY <3>2, <3>3
  <2>7. ASSUME NEW x \in Tables, NEW r \in Rows PROVE Settled(x, r)'
    <3>1. CASE x = c.tb /\ r = c.row
      BY <3>1, <2>1 DEF Settled
    <3>2. CASE x # c.tb \/ r # c.row
      BY <3>2, <1>7, SparedSettled DEF All, Matched
    <3> QED
      BY <3>1, <3>2
  <2> QED
    BY <1>5, <1>6, <2>5, <2>6, <2>7 DEF Matched
<1> QED
  BY <1>9, <1>10

LEMMA AcquireFieldIndexMatched ==
    ASSUME All, NEW t \in Threads, AcquireFieldIndex(t)
    PROVE  Matched'
<1>0. PICK c : c = call[t]
  OBVIOUS
<1>1. /\ call \in [Threads -> Calls] /\ c.pc = "acquire" /\ acquired[c.tb] = None
      /\ Knows(t) /\ Updates(t) /\ None \notin Threads /\ mem' = mem
  BY <1>0, AllOf DEF AcquireFieldIndex, Acquirable, contents
<1>2. /\ \A u \in Threads \ {t} : call'[u] = call[u]
      /\ call'[t].pc = "remove" /\ call'[t].op = c.op /\ call'[t].tb = c.tb
      /\ call'[t].row = c.row /\ call'[t].other = c.other
      /\ call'[t].val = c.val /\ call'[t].old = c.old
  BY <1>0, <1>1, GotoCall DEF AcquireFieldIndex, Steps
<1>3. \A x, r : Spared(x, r) /\ \A y \in BehindOn(x, r) : call'[y].val = call[y].val
  <2>1. \A x, r : BehindOn(x, r)' = BehindOn(x, r)
    BY <1>0, <1>1, <1>2 DEF BehindOn, Behind
  <2> QED
    BY <1>0, <1>1, <1>2, <2>1 DEF Spared, BehindOn
<1>4. ASSUME NEW u \in Threads, u # t PROVE Knows(u)' /\ Updates(u)'
  <2>1. Knows(u) /\ Updates(u) /\ Sees(u) /\ call'[u] = call[u]
    BY <1>2, <1>4, AllOf
  <2>2. Updates(u)'
    BY <1>3, <2>1, SparedUpdates DEF Sees, Behind
  <2> QED
    BY <1>1, <2>1, <2>2 DEF Knows
<1>5. Others(t) = {}
  <2>1. ASSUME NEW u \in Others(t) PROVE FALSE
    <3>1. u \in Threads /\ u # t /\ call[u].tb = c.tb /\ call[u].row = c.row /\ Behind(call[u]) /\ Locked(u)
      BY <1>0, AllOf DEF Others, BehindOn
    <3>2. WithField(call[u])
      BY <1>0, <1>1, <3>1, Pairs DEF WithField, Behind
    <3> QED
      BY <1>1, <3>1, <3>2 DEF Locked
  <2> QED
    BY <2>1
<1>6. Knows(t)' /\ Updates(t)'
  <2>1. mem[c.tb].row[c.row] = c.val /\ Only(c.tb, c.row, c.old)
    BY <1>0, <1>1, <1>5 DEF Updates
  <2>2. Only(c.tb, c.row, c.old)'
    BY <2>1, <1>1 DEF Only
  <2>3. Updates(t)'
    BY <1>1, <1>2, <2>1, <2>2 DEF Updates
  <2>4. Behind(c) /\ ~Stores(call'[t])
    BY <1>1, <1>2 DEF Behind, Stores
  <2> QED
    BY <1>0, <1>1, <1>2, <2>3, <2>4 DEF Knows
<1>7. \A x \in Tables, r \in Rows : Settled(x, r)'
  BY <1>3, SparedSettled DEF All, Matched
<1> QED
  BY <1>4, <1>6, <1>7 DEF Matched

LEMMA RemoveKeyMatched ==
    ASSUME All, NEW t \in Threads, RemoveKey(t)
    PROVE  Matched'
<1>0. PICK c : c = call[t]
  OBVIOUS
<1>1. /\ call \in [Threads -> Calls] /\ mem \in [Tables -> Data] /\ c.pc = "remove" /\ c.tb \in Tables
      /\ Knows(t) /\ Updates(t) /\ c.old \in Values /\ c.row \in Rows /\ Absent \notin Values
  <2>1. /\ call \in [Threads -> Calls] /\ mem \in [Tables -> Data] /\ c \in Calls
        /\ Placed(c) /\ Standing(t) /\ Knows(t) /\ Updates(t) /\ Absent \notin Values /\ c.pc = "remove"
    BY <1>0, AllOf DEF RemoveKey
  <2> QED
    BY <1>0, <2>1 DEF Standing, Behind, Placed, Calls
<1>2. /\ \A u \in Threads \ {t} : call'[u] = call[u]
      /\ call'[t].pc = "insert" /\ call'[t].op = c.op /\ call'[t].tb = c.tb
      /\ call'[t].row = c.row /\ call'[t].other = c.other
      /\ call'[t].val = c.val /\ call'[t].old = c.old
  BY <1>0, <1>1, GotoCall DEF RemoveKey, Steps
<1>3. /\ \A x \in Tables : mem'[x].row = mem[x].row /\ mem'[x].indexed = mem[x].indexed
      /\ \A x \in Tables : x # c.tb => mem'[x].keys = mem[x].keys
      /\ mem'[c.tb].keys = mem[c.tb].keys \ {<<c.old, c.row>>}
  <2>1. mem' = [mem EXCEPT ![c.tb].keys = mem[c.tb].keys \ {<<c.old, c.row>>}]
    BY <1>0, <1>1 DEF RemoveKey
  <2> QED
    BY <1>1, <2>1 DEF Data
<1>4. \A x, r : BehindOn(x, r)' = BehindOn(x, r) /\ \A y \in BehindOn(x, r) : call'[y].val = call[y].val
  BY <1>0, <1>1, <1>2 DEF BehindOn, Behind
<1>5. ASSUME NEW x \in Tables, NEW r \in Rows, x # c.tb \/ r # c.row PROVE Spared(x, r)
  BY <1>3, <1>4, <1>5 DEF Spared
<1>6. ASSUME NEW u \in Threads, u # t PROVE Knows(u)' /\ Updates(u)'
  <2>1. Knows(u) /\ Updates(u) /\ Sees(u) /\ Standing(u) /\ Placed(call[u]) /\ call'[u] = call[u]
    BY <1>2, <1>6, AllOf
  <2>2. Stores(call[u]) \/ Behind(call[u]) => call[u].tb \in Tables
    BY <2>1 DEF Placed, Stores, Behind
  <2>3. Knows(u)'
    BY <1>3, <2>1, <2>2 DEF Knows
  <2>4. CASE Behind(call[u]) /\ call[u].tb = c.tb /\ call[u].row = c.row
    <3>1. call[u].pc = "acquire"
      BY <1>0, <1>1, <1>6, <2>4, Pairs DEF Behind
    <3>2. t \in Others(u) /\ Others(u)' = Others(u)
      BY <1>0, <1>1, <1>4, <1>6, <2>1, <2>4 DEF Others, BehindOn, Behind
    <3>3. \A y \in Others(u) : call'[y].val = call[y].val
      BY <1>4 DEF Others
    <3> QED
      BY <1>1, <1>3, <2>1, <2>3, <2>4, <3>1, <3>2, <3>3 DEF Updates
  <2>5. CASE ~(Behind(call[u]) /\ call[u].tb = c.tb /\ call[u].row = c.row)
    <3>1. Behind(call[u]) => Spared(call[u].tb, call[u].row) /\ mem[call[u].tb].indexed
      BY <1>5, <2>1, <2>2, <2>5 DEF Standing, Sees, Behind
    <3> QED
      BY <1>4, <2>1, <2>3, <3>1, SparedUpdates
  <2> QED
    BY <2>4, <2>5
<1>7. Knows(t)' /\ Updates(t)'
  <2>1. Only(c.tb, c.row, c.old)
    BY <1>0, <1>1 DEF Updates
  <2>2. Only(c.tb, c.row, Absent)'
    BY <2>1, <1>1, <1>3 DEF Only
  <2>3. Others(t)' = Others(t)
    BY <1>0, <1>2, <1>4 DEF Others
  <2>4. Updates(t)'
    BY <1>0, <1>1, <1>2, <1>3, <2>2, <2>3 DEF Updates
  <2>5. Behind(c) /\ ~Stores(call'[t])
    BY <1>1, <1>2 DEF Behind, Stores
  <2> QED
    BY <1>0, <1>1, <1>2, <1>3, <2>4, <2>5 DEF Knows
<1>8. ASSUME NEW x \in Tables, NEW r \in Rows PROVE Settled(x, r)'
  <2>1. CASE x = c.tb /\ r = c.row
    <3>1. t \in BehindOn(x, r)'
      BY <1>0, <1>1, <1>4, <2>1 DEF BehindOn, Behind
    <3> QED
      BY <3>1 DEF Settled
  <2>2. CASE x # c.tb \/ r # c.row
    BY <2>2, <1>5, SparedSettled DEF All, Matched
  <2> QED
    BY <2>1, <2>2
<1> QED
  BY <1>6, <1>7, <1>8 DEF Matched

LEMMA InsertKeyMatched ==
    ASSUME All, NEW t \in Threads, InsertKey(t)
    PROVE  Matched'
<1>0. PICK c : c = call[t]
  OBVIOUS
<1>1. /\ call \in [Threads -> Calls] /\ mem \in [Tables -> Data] /\ c.pc = "insert" /\ c.tb \in Tables
      /\ Knows(t) /\ Updates(t) /\ c.val \in Values /\ c.row \in Rows /\ Absent \notin Values
      /\ c.op \in {"set", "exchange", "sort"}
      /\ c.other # None => c.other \in Rows /\ c.other # c.row /\ mem[c.tb].row[c.other] = c.val
      /\ c.op = "set" => c.other = None
  <2>1. /\ call \in [Threads -> Calls] /\ mem \in [Tables -> Data] /\ c \in Calls
        /\ Placed(c) /\ Standing(t) /\ Knows(t) /\ Updates(t) /\ Absent \notin Values /\ c.pc = "insert"
    BY <1>0, AllOf DEF InsertKey
  <2> QED
    BY <1>0, <2>1 DEF Standing, Behind, Placed, Calls, Knows
<1>2. /\ \A u \in Threads \ {t} : call'[u] = call[u]
      /\ ~Behind(call'[t])
      /\ \/ /\ c.other # None
            /\ call'[t].op = c.op /\ call'[t].tb = c.tb
            /\ call'[t].row = c.other /\ call'[t].other = None /\ call'[t].old = c.val
         \/ ~Stores(call'[t]) /\ (call'[t].op = "set" => call'[t].other = None)
  <2>1. CASE ThreadSafe(t)
    <3>1. Goto(t, "relock") /\ "relock" \in Steps
      BY <2>1 DEF InsertKey, Steps
    <3>2. /\ \A u \in Threads \ {t} : call'[u] = call[u]
          /\ call'[t].pc = "relock" /\ call'[t].op = c.op /\ call'[t].other = c.other
      BY <1>0, <1>1, <3>1, GotoCall
    <3> QED
      BY <1>1, <3>2 DEF Behind, Stores
  <2>2. CASE ~ThreadSafe(t)
    <3>1. RowStored(t)
      BY <2>2 DEF InsertKey
    <3> QED
      BY <1>0, <1>1, <3>1, StoredCall
  <2> QED
    BY <2>1, <2>2
<1>3. /\ \A x \in Tables : mem'[x].row = mem[x].row /\ mem'[x].indexed = mem[x].indexed
      /\ \A x \in Tables : x # c.tb => mem'[x].keys = mem[x].keys
      /\ mem'[c.tb].keys = mem[c.tb].keys \cup {<<c.val, c.row>>}
  <2>1. mem' = [mem EXCEPT ![c.tb].keys = mem[c.tb].keys \cup {<<c.val, c.row>>}]
    BY <1>0, <1>1 DEF InsertKey
  <2> QED
    BY <1>1, <2>1 DEF Data
<1>4. Only(c.tb, c.row, c.val)'
  <2>1. Only(c.tb, c.row, Absent)
    BY <1>0, <1>1 DEF Updates
  <2> QED
    BY <2>1, <1>1, <1>3 DEF Only
<1>5. ASSUME NEW x, NEW r, x # c.tb \/ r # c.row
      PROVE  BehindOn(x, r)' = BehindOn(x, r) /\ \A y \in BehindOn(x, r) : call'[y].val = call[y].val
  BY <1>0, <1>1, <1>2, <1>5 DEF BehindOn
<1>6. BehindOn(c.tb, c.row)' = BehindOn(c.tb, c.row) \ {t}
  BY <1>0, <1>1, <1>2 DEF BehindOn
<1>7. ASSUME NEW x \in Tables, NEW r \in Rows, x # c.tb \/ r # c.row PROVE Spared(x, r)
  BY <1>3, <1>5, <1>7 DEF Spared
<1>8. ASSUME NEW u \in Threads, u # t PROVE Knows(u)' /\ Updates(u)'
  <2>1. Knows(u) /\ Updates(u) /\ Sees(u) /\ Standing(u) /\ Placed(call[u]) /\ call'[u] = call[u]
    BY <1>2, <1>8, AllOf
  <2>2. Stores(call[u]) \/ Behind(call[u]) => call[u].tb \in Tables
    BY <2>1 DEF Placed, Stores, Behind
  <2>3. Knows(u)'
    BY <1>3, <2>1, <2>2 DEF Knows
  <2>4. CASE Behind(call[u]) /\ call[u].tb = c.tb /\ call[u].row = c.row
    <3>1. call[u].pc = "acquire"
      BY <1>0, <1>1, <1>8, <2>4, Pairs DEF Behind
    <3>2. t \in Others(u)
      BY <1>0, <1>1, <1>8, <2>4 DEF Others, BehindOn, Behind
    <3>3. call[u].old = c.val /\ mem[c.tb].row[c.row] = call[u].val
      BY <1>0, <2>1, <2>4, <3>1, <3>2 DEF Updates
    <3>4. Others(u)' = {}
      <4>1. ASSUME NEW w \in BehindOn(c.tb, c.row), w # t, w # u PROVE FALSE
        <5>1. w \in Threads /\ Behind(call[w]) /\ call[w].tb = c.tb /\ call[w].row = c.row
          BY DEF BehindOn
        <5>2. call[w].pc = "acquire"
          BY <1>0, <1>1, <4>1, <5>1, Pairs DEF Behind
        <5> QED
          BY <2>4, <3>1, <4>1, <5>1, <5>2, Pairs
      <4>2. Others(u)' = (BehindOn(c.tb, c.row) \ {t}) \ {u}
        BY <1>6, <2>1, <2>4 DEF Others
      <4> QED
        BY <4>1, <4>2
    <3>5. mem'[c.tb].row[c.row] = call[u].val /\ Only(c.tb, c.row, call[u].old)'
      BY <1>1, <1>3, <1>4, <2>1, <3>3
    <3> QED
      BY <2>1, <2>3, <2>4, <3>1, <3>4, <3>5 DEF Updates
  <2>5. CASE ~(Behind(call[u]) /\ call[u].tb = c.tb /\ call[u].row = c.row)
    <3>1. Behind(call[u]) =>
            /\ Spared(call[u].tb, call[u].row) /\ mem[call[u].tb].indexed
            /\ \A y \in BehindOn(call[u].tb, call[u].row) : call'[y].val = call[y].val
      BY <1>5, <1>7, <2>1, <2>2, <2>5 DEF Standing, Sees, Behind
    <3> QED
      BY <2>1, <2>3, <3>1, SparedUpdates
  <2> QED
    BY <2>4, <2>5
<1>9. Knows(t)' /\ Updates(t)'
  <2>1. Updates(t)'
    BY <1>2 DEF Updates, Behind
  <2>2. Knows(t)'
    BY <1>1, <1>2, <1>3 DEF Knows
  <2> QED
    BY <2>1, <2>2
<1>10. ASSUME NEW x \in Tables, NEW r \in Rows PROVE Settled(x, r)'
  <2>1. CASE x = c.tb /\ r = c.row
    <3>1. CASE BehindOn(x, r)' = {}
      <4>1. Others(t) = {}
        BY <1>0, <1>6, <2>1, <3>1 DEF Others
      <4>2. mem'[x].row[r] = c.val
        BY <1>0, <1>1, <1>3, <2>1, <4>1 DEF Updates
      <4> QED
        BY <1>4, <2>1, <4>2 DEF Settled
    <3>2. CASE BehindOn(x, r)' # {}
      BY <3>2 DEF Settled
    <3> QED
      BY <3>1, <3>2
  <2>2. CASE x # c.tb \/ r # c.row
    BY <2>2, <1>7, SparedSettled DEF All, Matched
  <2> QED
    BY <2>1, <2>2
<1> QED
  BY <1>8, <1>9, <1>10 DEF Matched

LEMMA StartCalm ==
    ASSUME All, NEW t \in Threads, NEW tb \in Tables, Start(t, tb)
    PROVE  Calm(t) \/ CreateIndex(t, tb)
<1>0. /\ call \in [Threads -> Calls] /\ Placed(call[t]) /\ Knows(t) /\ Standing(t)
      /\ None \notin Rows /\ Null \in Values /\ Absent \notin Values
  BY AllOf
<1>1. ASSUME NEW r \in Rows, NEW v \in Values, Set(t, tb, r, v) PROVE Calm(t)
  BY <1>1, <1>0 DEF Calm, Knows, Stores, Behind, Placed, Standing, dbVars, lockVars, contents, Simple, Calling, Idle, Set, Starts, TakeRows
<1>2. ASSUME NEW v \in Values, Append(t, tb, v) PROVE Calm(t)
  BY <1>2, <1>0 DEF Calm, Knows, Stores, Behind, Placed, Standing, dbVars, lockVars, contents, Simple, Calling, Idle, Append, Starts, TakeRows
<1>3. ASSUME AddRow(t, tb) PROVE Calm(t)
  BY <1>3, <1>0 DEF Calm, Knows, Stores, Behind, Placed, Standing, dbVars, lockVars, contents, Simple, Calling, Idle, AddRow, Starts, TakeRows
<1>4. ASSUME NEW r1 \in Rows, NEW r2 \in Rows, ExchangeRows(t, tb, r1, r2) PROVE Calm(t)
  BY <1>4, <1>0 DEF Calm, Knows, Stores, Behind, Placed, Standing, dbVars, lockVars, contents, Simple, Calling, Idle, ExchangeRows, Exchange, Starts, TakeRows
<1>5. ASSUME MatchRows(t, tb) PROVE Calm(t)
  BY <1>5, <1>0 DEF Calm, Knows, Stores, Behind, Placed, Standing, dbVars, lockVars, contents, Simple, Calling, Idle, MatchRows, Starts
<1>6. ASSUME RemoveIndex(t, tb) PROVE Calm(t)
  BY <1>6, <1>0 DEF Calm, Knows, Stores, Behind, Placed, Standing, dbVars, lockVars, contents, Simple, Calling, Idle, RemoveIndex, Starts, TakeRows
<1>7. ASSUME SyncTableContent(t, tb) PROVE Calm(t)
  BY <1>7, <1>0 DEF Calm, Knows, Stores, Behind, Placed, Standing, dbVars, lockVars, contents, Simple, Calling, Idle, SyncTableContent, Starts
<1>8. ASSUME LockTable(t, tb) PROVE Calm(t)
  BY <1>8, <1>0 DEF Calm, Knows, Stores, Behind, Placed, Standing, dbVars, lockVars, contents, Simple, Calling, Idle, LockTable, Starts
<1> QED
  BY <1>1, <1>2, <1>3, <1>4, <1>5, <1>6, <1>7, <1>8 DEF Start

LEMMA StepCalm ==
    ASSUME All, NEW t \in Threads, Step(t)
    PROVE  \/ Calm(t)
           \/ AddIndex(t) \/ Write(t) \/ AcquireFieldIndex(t)
           \/ RemoveKey(t) \/ InsertKey(t) \/ DropIndex(t)
<1>0. /\ call \in [Threads -> Calls] /\ Placed(call[t]) /\ Knows(t) /\ Standing(t)
      /\ None \notin Rows /\ Null \in Values /\ Absent \notin Values
  BY AllOf
<1>1. ASSUME Notify(t) PROVE Calm(t)
  BY <1>1, <1>0 DEF Calm, Knows, Stores, Behind, Placed, Standing, dbVars, lockVars, contents, Simple, Calling, Idle, Notify, Goto
<1>2. ASSUME Notified(t) PROVE Calm(t)
  BY <1>2, <1>0 DEF Calm, Knows, Stores, Behind, Placed, Standing, dbVars, lockVars, contents, Simple, Calling, Idle, Notified, Goto
<1>3. ASSUME MarkYield(t) PROVE Calm(t)
  BY <1>3, <1>0 DEF Calm, Knows, Stores, Behind, Placed, Standing, dbVars, lockVars, contents, Simple, Calling, Idle, MarkYield, Goto, FreeRows, ThreadSafe
<1>4. ASSUME Remark(t) PROVE Calm(t)
  BY <1>4, <1>0 DEF Calm, Knows, Stores, Behind, Placed, Standing, dbVars, lockVars, contents, Simple, Calling, Idle, Remark, Goto, TakeRows
<1>5. ASSUME Marked(t) PROVE Calm(t)
  BY <1>5, <1>0 DEF Calm, Knows, Stores, Behind, Placed, Standing, dbVars, lockVars, contents, Simple, Calling, Idle, Marked, Goto
<1>6. ASSUME AddLock(t) PROVE Calm(t)
  BY <1>6, <1>0 DEF Calm, Knows, Stores, Behind, Placed, Standing, dbVars, lockVars, contents, Simple, Calling, Idle, AddLock, Goto
<1>7. ASSUME Relock(t) PROVE Calm(t)
  BY <1>7, <1>0 DEF Calm, Knows, Stores, Behind, Placed, Standing, dbVars, lockVars, contents, Simple, Calling, Idle, Relock
<1>8. ASSUME MatchRowsWithIndex(t) PROVE Calm(t)
  <2>1. /\ mem' = mem /\ ~Behind(call[t]) /\ call[t].pc \notin {"mark", "notified", "remark", "write"}
        /\ \/ call' = [call EXCEPT ![t] = Idle]
           \/ \E pc \in {"matchAcquire", "matching"} : Goto(t, pc)
    BY <1>0, <1>8 DEF MatchRowsWithIndex, contents, Behind
  <2>2. CASE call' = [call EXCEPT ![t] = Idle]
    BY <2>1, <2>2, <1>0 DEF Idle, Calling, Calm, Knows, Stores, Behind
  <2>3. CASE \E pc \in {"matchAcquire", "matching"} : Goto(t, pc)
    <3>1. PICK pc \in {"matchAcquire", "matching"} : Goto(t, pc)
      BY <2>3
    <3>2. pc \in Steps
      BY DEF Steps
    <3>3. /\ \A u \in Threads \ {t} : call'[u] = call[u]
          /\ call'[t].pc = pc /\ call'[t].op = call[t].op /\ call'[t].other = call[t].other
      BY <1>0, <3>1, <3>2, GotoCall
    <3> QED
      BY <1>0, <2>1, <3>3 DEF Calm, Knows, Stores, Behind
  <2> QED
    BY <2>1, <2>2, <2>3
<1>9. ASSUME NextTable(t) PROVE Calm(t)
  BY <1>9, <1>0 DEF Calm, Knows, Stores, Behind, Placed, Standing, dbVars, lockVars, contents, Simple, Calling, Idle, NextTable
<1>10. ASSUME SyncAllDone(t) PROVE Calm(t)
  BY <1>10, <1>0 DEF Calm, Knows, Stores, Behind, Placed, Standing, dbVars, lockVars, contents, Simple, Calling, Idle, SyncAllDone
<1>11. ASSUME FlushLockRows(t) PROVE Calm(t)
  BY <1>11, <1>0 DEF Calm, Knows, Stores, Behind, Placed, Standing, dbVars, lockVars, contents, Simple, Calling, Idle, FlushLockRows, Goto, TakeRows
<1>12. ASSUME FlushLockIndexes(t) PROVE Calm(t)
  <2>1. /\ mem' = mem /\ ~Behind(call[t]) /\ call[t].pc \notin {"mark", "notified", "remark", "write"}
        /\ \/ call' = [call EXCEPT ![t] = Idle]
           \/ \E pc \in {"flushRows", "flush"} : Goto(t, pc)
    BY <1>0, <1>12 DEF FlushLockIndexes, contents, Behind
  <2>2. CASE call' = [call EXCEPT ![t] = Idle]
    BY <2>1, <2>2, <1>0 DEF Idle, Calling, Calm, Knows, Stores, Behind
  <2>3. CASE \E pc \in {"flushRows", "flush"} : Goto(t, pc)
    <3>1. PICK pc \in {"flushRows", "flush"} : Goto(t, pc)
      BY <2>3
    <3>2. pc \in Steps
      BY DEF Steps
    <3>3. /\ \A u \in Threads \ {t} : call'[u] = call[u]
          /\ call'[t].pc = pc /\ call'[t].op = call[t].op /\ call'[t].other = call[t].other
      BY <1>0, <3>1, <3>2, GotoCall
    <3> QED
      BY <1>0, <2>1, <3>3 DEF Calm, Knows, Stores, Behind
  <2> QED
    BY <2>1, <2>2, <2>3
<1>13. ASSUME FlushInternal(t) PROVE Calm(t)
  <2>1. /\ mem' = mem /\ ~Behind(call[t]) /\ call[t].pc \notin {"mark", "notified", "remark", "write"}
        /\ \/ call' = [call EXCEPT ![t] = Idle]
           \/ \E pc \in {"locked", "nextTable"} : Goto(t, pc)
    BY <1>0, <1>13 DEF FlushInternal, contents, Behind
  <2>2. CASE call' = [call EXCEPT ![t] = Idle]
    BY <2>1, <2>2, <1>0 DEF Idle, Calling, Calm, Knows, Stores, Behind
  <2>3. CASE \E pc \in {"locked", "nextTable"} : Goto(t, pc)
    <3>1. PICK pc \in {"locked", "nextTable"} : Goto(t, pc)
      BY <2>3
    <3>2. pc \in Steps
      BY DEF Steps
    <3>3. /\ \A u \in Threads \ {t} : call'[u] = call[u]
          /\ call'[t].pc = pc /\ call'[t].op = call[t].op /\ call'[t].other = call[t].other
      BY <1>0, <3>1, <3>2, GotoCall
    <3> QED
      BY <1>0, <2>1, <3>3 DEF Calm, Knows, Stores, Behind
  <2> QED
    BY <2>1, <2>2, <2>3
<1>14. ASSUME LockInProgress(t) PROVE Calm(t)
  BY <1>14, <1>0 DEF Calm, Knows, Stores, Behind, Placed, Standing, dbVars, lockVars, contents, Simple, Calling, Idle, LockInProgress, Goto
<1>15. ASSUME LockRows(t) PROVE Calm(t)
  BY <1>15, <1>0 DEF Calm, Knows, Stores, Behind, Placed, Standing, dbVars, lockVars, contents, Simple, Calling, Idle, LockRows, Goto, TakeRows
<1>16. ASSUME LockIndexes(t) PROVE Calm(t)
  BY <1>16, <1>0 DEF Calm, Knows, Stores, Behind, Placed, Standing, dbVars, lockVars, contents, Simple, Calling, Idle, LockIndexes, Goto
<1>17. ASSUME UnlockTable(t) PROVE Calm(t)
  BY <1>17, <1>0 DEF Calm, Knows, Stores, Behind, Placed, Standing, dbVars, lockVars, contents, Simple, Calling, Idle, UnlockTable, FreeRows
<1> QED
  BY <1>1, <1>2, <1>3, <1>4, <1>5, <1>6, <1>7, <1>8, <1>9, <1>10, <1>11, <1>12, <1>13, <1>14, <1>15, <1>16, <1>17 DEF Step

LEMMA NextMatched ==
    ASSUME OwnRows \/ OneTable
    PROVE  IInv /\ TInv /\ Apart /\ Matched /\ [Next]_vars => Matched'
<1> SUFFICES ASSUME All, [Next]_vars PROVE Matched'
  BY DEF All
<1>1. ASSUME NEW t \in Threads, NEW tb \in Tables, Start(t, tb) PROVE Matched'
  BY <1>1, StartCalm, CalmMatched, CreateIndexMatched
<1>2. ASSUME NEW t \in Threads, Step(t) PROVE Matched'
  BY <1>2, StepCalm, CalmMatched, AddIndexMatched, WriteMatched, AcquireFieldIndexMatched,
     RemoveKeyMatched, InsertKeyMatched, DropIndexMatched
<1>3. ASSUME NEW t \in Threads, SyncAllTablesContent(t) PROVE Matched'
  <2>0. /\ call \in [Threads -> Calls] /\ Placed(call[t]) /\ Knows(t) /\ Standing(t)
        /\ None \notin Rows /\ Null \in Values /\ Absent \notin Values
    BY AllOf
  <2>1. Calm(t)
    BY <1>3, <2>0 DEF Calm, Knows, Stores, Behind, Placed, Standing, SyncAllTablesContent, Starts, dbVars, lockVars, contents, Simple, Calling, Idle
  <2> QED
    BY <2>1, CalmMatched
<1>4. ASSUME NEW t \in Threads, NEW r1 \in Rows, NEW r2 \in Rows, SortExchange(t, r1, r2) PROVE Matched'
  <2>0. /\ call \in [Threads -> Calls] /\ Placed(call[t]) /\ Knows(t) /\ Standing(t)
        /\ None \notin Rows /\ Null \in Values /\ Absent \notin Values
    BY AllOf
  <2>1. Calm(t)
    BY <1>4, <2>0 DEF Calm, Knows, Stores, Behind, Placed, Standing, SortExchange, Exchange, dbVars, lockVars, contents, Simple, Calling, Idle
  <2> QED
    BY <2>1, CalmMatched
<1>5. ASSUME UNCHANGED vars PROVE Matched'
  BY <1>5 DEF vars, All, Matched, Knows, Updates, Settled, Only, Others, BehindOn, Stores, Behind
<1> QED
  BY <1>1, <1>2, <1>3, <1>4, <1>5 DEF Next

LEMMA InitMatched == Init => Matched
<1> SUFFICES ASSUME Init PROVE Matched
  OBVIOUS
<1>1. \A t \in Threads : call[t].pc = "idle" /\ call[t].op = "idle"
  BY DEF Init, Idle, Calling
<1>2. \A t \in Threads : Knows(t) /\ Updates(t)
  BY <1>1 DEF Knows, Updates, Stores, Behind
<1>3. ASSUME NEW tb \in Tables, NEW r \in Rows PROVE Settled(tb, r)
  <2>1. \E n \in 0 .. MaxRows, indexed \in BOOLEAN :
          mem = [x \in Tables |->
                  [row |-> [i \in Rows |-> IF i < n THEN Null ELSE Absent], indexed |-> indexed,
                   keys |-> IF indexed THEN KeysOf([i \in Rows |-> IF i < n THEN Null ELSE Absent]) ELSE {}]]
    BY Zenon DEF Init
  <2>2. mem[tb].indexed => mem[tb].keys = KeysOf(mem[tb].row)
    BY <2>1
  <2>3. mem[tb].indexed => Only(tb, r, mem[tb].row[r])
    BY <2>2, TableSyncAssumption DEF KeysOf, Only
  <2> QED
    BY <2>3 DEF Settled
<1> QED
  BY <1>2, <1>3 DEF Matched

LEMMA MatchedIndex ==
    ASSUME IInv, TInv, Matched
    PROVE  IndexMatchesRows
<1> SUFFICES ASSUME NEW tb \in Tables, mem[tb].indexed, ~IndexBehind(tb)
             PROVE  mem[tb].keys = KeysOf(mem[tb].row)
  BY DEF IndexMatchesRows
<1>1. mem[tb].keys \subseteq Values \X Rows /\ mem[tb].row \in [Rows -> Values \cup {Absent}]
  BY DEF TInv, Keyed, IInv, Shaped, Data
<1>2. ASSUME NEW r \in Rows, NEW w \in Values PROVE <<w, r>> \in mem[tb].keys <=> w = mem[tb].row[r]
  <2>1. BehindOn(tb, r) = {}
    BY DEF IndexBehind, BehindOn, Behind
  <2> QED
    BY <2>1 DEF Matched, Settled, Only
<1>3. KeysOf(mem[tb].row) \subseteq Values \X Rows
  BY <1>1 DEF KeysOf
<1>4. ASSUME NEW r \in Rows, NEW w \in Values PROVE <<w, r>> \in KeysOf(mem[tb].row) <=> w = mem[tb].row[r]
  BY TableSyncAssumption DEF KeysOf
<1>5. \A p \in Values \X Rows : p \in mem[tb].keys <=> p \in KeysOf(mem[tb].row)
  <2>1. ASSUME NEW p \in Values \X Rows PROVE p \in mem[tb].keys <=> p \in KeysOf(mem[tb].row)
    <3>1. PICK w \in Values, r \in Rows : p = <<w, r>>
      OBVIOUS
    <3> QED
      BY <3>1, <1>2, <1>4
  <2> QED
    BY <2>1
<1> QED
  BY <1>1, <1>3, <1>5

\* The index of a field tells what the rows hold: one key for each row, with its
\* value, when no call is between a row and its key.  That is so of callers
\* that store to no row at the same time, however they add rows, exchange them,
\* search, sync, and create and remove the index; and, on one table, of callers
\* that store to one row at once and sort it.
THEOREM IndexTellsTheRows ==
    ASSUME OwnRows \/ OneTable
    PROVE  Spec => []IndexMatchesRows
<1> DEFINE MInv == IInv /\ TInv /\ Apart /\ Matched
<1>1. Init => MInv
  BY InitIInv, InitTInv, InitApart, InitMatched
<1>2. MInv /\ [Next]_vars => MInv'
  BY NextIInv, NextPlaced, NextApart, NextMatched
<1>3. MInv => IndexMatchesRows
  BY MatchedIndex
<1> QED
  BY <1>1, <1>2, <1>3, PTL DEF Spec

-----------------------------------------------------------------------------
(* No row is missed, whichever rows the callers store to at once. *)

\* A call that has changed row r of tb and waits to acquire the field.
Waits(u, tb, r) == u \in BehindOn(tb, r) /\ call[u].pc = "acquire"

\* The value of a call that is behind is that of its row, or another call has
\* changed the row since, and will have the tree after it.
Meant(t) ==
    Behind(call[t]) =>
        \/ mem[call[t].tb].row[call[t].row] = call[t].val
        \/ \E u \in Threads \ {t} : Waits(u, call[t].tb, call[t].row)

\* A row has its key, or a call is behind on it.
Kept(tb, r) ==
    mem[tb].indexed /\ mem[tb].row[r] # Absent =>
        <<mem[tb].row[r], r>> \in mem[tb].keys \/ BehindOn(tb, r) # {}

Reached ==
    /\ \A t \in Threads : Meant(t)
    /\ \A tb \in Tables, r \in Rows : Kept(tb, r)

\* The state in which a step finds the calls, when nobody exchanges rows.
Plain == IInv /\ TInv /\ Apart /\ "exchange" \notin Ops

LEMMA PlainOf ==
    ASSUME Plain, NEW t \in Threads
    PROVE  /\ call \in [Threads -> Calls] /\ mem \in [Tables -> Data] /\ call[t] \in Calls
           /\ Placed(call[t]) /\ Locked(t) /\ Sees(t) /\ Standing(t)
           /\ call[t].op # "exchange"
           /\ Behind(call[t]) => /\ call[t].tb \in Tables /\ call[t].row \in Rows
                                 /\ mem[call[t].tb].indexed
                                 /\ mem[call[t].tb].row[call[t].row] # Absent
           /\ Null \in Values /\ Absent \notin Values /\ None \notin Rows /\ None \notin Threads
<1>1. /\ call \in [Threads -> Calls] /\ mem \in [Tables -> Data] /\ call[t] \in Calls
      /\ Placed(call[t]) /\ Locked(t) /\ Sees(t) /\ Standing(t)
      /\ Null \in Values /\ Absent \notin Values /\ None \notin Rows /\ None \notin Threads
  BY TableSyncAssumption DEF Plain, IInv, Shaped, TInv, Rows
<1>2. call[t].op # "exchange"
  BY <1>1 DEF Plain, Placed
<1> QED
  BY <1>1, <1>2 DEF Standing, Sees, Placed, Behind

\* A call about to change a row, or that waits for the field and gets it, finds
\* no other behind on its table, but for one that has the field.
LEMMA AloneWithRows ==
    ASSUME Plain, NEW t \in Threads, NEW u \in Threads, t # u,
           WithRows(call[t]), Behind(call[u]), call[u].tb = call[t].tb
    PROVE  acquired[call[t].tb] = u /\ ~Sorting(call[t])
<1>1. /\ Placed(call[t]) /\ Locked(t) /\ Sees(t)
      /\ Placed(call[u]) /\ Locked(u) /\ mem[call[u].tb].indexed /\ call[u].op # "exchange"
      /\ None \notin Threads
  BY PlainOf
<1>2. ~WithRows(call[u])
  BY <1>1 DEF Locked
<1>3. WithField(call[u])
  BY <1>1, <1>2 DEF WithRows, WithField, Behind
<1> QED
  BY <1>1, <1>3 DEF Locked, Sees

\* A step that changes no table, by a call that is not behind.
Still(t) ==
    /\ mem' = mem /\ \A u \in Threads \ {t} : call'[u] = call[u]
    /\ ~Behind(call[t]) /\ ~Behind(call'[t])

LEMMA StillReached ==
    ASSUME Reached, NEW t \in Threads, Still(t)
    PROVE  Reached'
<1>1. \A tb, r : BehindOn(tb, r)' = BehindOn(tb, r)
  BY DEF Still, BehindOn
<1>2. ASSUME NEW u \in Threads, Behind(call'[u]) PROVE Meant(u)'
  <2>1. u # t /\ call'[u] = call[u] /\ mem' = mem /\ Meant(u)
    BY <1>2 DEF Still, Reached
  <2>2. \A v, tb, r : Waits(v, tb, r) => Waits(v, tb, r)'
    BY <1>1 DEF Still, Waits, BehindOn
  <2> QED
    BY <2>1, <2>2 DEF Meant
<1>3. \A u \in Threads : Meant(u)'
  BY <1>2 DEF Meant
<1>4. \A tb \in Tables, r \in Rows : Kept(tb, r)'
  BY <1>1 DEF Still, Reached, Kept
<1> QED
  BY <1>3, <1>4 DEF Reached

\* Who is behind on which row stays, and so do the values of their rows.
LEMMA MeantStays ==
    ASSUME NEW u \in Threads, Meant(u), call'[u] = call[u],
           Behind(call[u]) =>
             /\ mem'[call[u].tb].row[call[u].row] = mem[call[u].tb].row[call[u].row]
             /\ \A v \in Threads \ {u} :
                  Waits(v, call[u].tb, call[u].row) => Waits(v, call[u].tb, call[u].row)'
    PROVE  Meant(u)'
<1>0. PICK c : c = call[u]
  OBVIOUS
<1>1. call'[u] = c
  BY <1>0
<1> QED
  BY <1>0, <1>1 DEF Meant

LEMMA CreateIndexReached ==
    ASSUME Plain, Reached, NEW t \in Threads, NEW tb \in Tables, CreateIndex(t, tb)
    PROVE  Reached'
<1>1. mem \in [Tables -> Data] /\ call' = call /\ Absent \notin Values
  BY PlainOf DEF CreateIndex
<1>2. \A x \in Tables : mem'[x] =
        IF x = tb THEN [row |-> mem[tb].row, indexed |-> TRUE, keys |-> KeysOf(mem[tb].row)] ELSE mem[x]
  <2> DEFINE k == KeysOf(mem[tb].row)
  <2>1. k \in AnyKeys /\ mem' = [mem EXCEPT ![tb].indexed = TRUE, ![tb].keys = k]
    <3>1. mem[tb].row \in [Rows -> Values \cup {Absent}]
      BY <1>1 DEF Data
    <3> QED
      BY <3>1, KeysOfShape DEF CreateIndex
  <2> HIDE DEF k
  <2>2. \A x \in Tables : [mem EXCEPT ![tb].indexed = TRUE, ![tb].keys = k][x] =
          IF x = tb THEN [row |-> mem[tb].row, indexed |-> TRUE, keys |-> k] ELSE mem[x]
    BY <1>1, <2>1, IndexShape
  <2> QED
    BY <2>1, <2>2 DEF k
<1>3. ASSUME NEW u \in Threads PROVE Meant(u)'
  <2>1. Meant(u) /\ call'[u] = call[u] /\ (Behind(call[u]) => call[u].tb \in Tables)
    BY <1>1, PlainOf DEF Reached
  <2>2. \A v, x, r : Waits(v, x, r) => Waits(v, x, r)'
    BY <1>1 DEF Waits, BehindOn
  <2>3. \A x \in Tables : mem'[x].row = mem[x].row
    BY <1>2
  <2> QED
    BY <2>1, <2>2, <2>3, MeantStays
<1>4. ASSUME NEW x \in Tables, NEW r \in Rows PROVE Kept(x, r)'
  <2>1. CASE x # tb
    BY <1>1, <1>2, <2>1 DEF Reached, Kept, BehindOn
  <2>2. CASE x = tb
    <3>1. mem[tb].row[r] # Absent => <<mem[tb].row[r], r>> \in KeysOf(mem[tb].row)
      BY DEF KeysOf
    <3> QED
      BY <1>2, <2>2, <3>1 DEF Kept
  <2> QED
    BY <2>1, <2>2
<1> QED
  BY <1>3, <1>4 DEF Reached

LEMMA DropIndexReached ==
    ASSUME Plain, Reached, NEW t \in Threads, DropIndex(t)
    PROVE  Reached'
<1>0. PICK tb : tb = call[t].tb
  OBVIOUS
<1>1. /\ mem \in [Tables -> Data] /\ tb \in Tables /\ call[t].pc = "dropIndex"
      /\ call \in [Threads -> Calls]
  BY <1>0, PlainOf DEF DropIndex, Placed
<1>2. \A x \in Tables : mem'[x] =
        IF x = tb THEN [row |-> mem[tb].row, indexed |-> FALSE, keys |-> {}] ELSE mem[x]
  <2>1. mem' = [mem EXCEPT ![tb].indexed = FALSE, ![tb].keys = {}] /\ {} \in AnyKeys
    BY <1>0 DEF DropIndex, AnyKeys
  <2> QED
    BY <1>1, <2>1, IndexShape
<1>3. /\ \A u \in Threads \ {t} : call'[u] = call[u]
      /\ ~Behind(call[t]) /\ ~Behind(call'[t])
  BY <1>1, IdleShape DEF DropIndex, Behind
<1>4. \A x, r : BehindOn(x, r)' = BehindOn(x, r)
  BY <1>3 DEF BehindOn
<1>5. ASSUME NEW u \in Threads PROVE Meant(u)'
  <2>1. CASE u = t
    BY <1>3, <2>1 DEF Meant
  <2>2. CASE u # t
    <3>1. Meant(u) /\ call'[u] = call[u] /\ (Behind(call[u]) => call[u].tb \in Tables)
      BY <1>3, <2>2, PlainOf DEF Reached
    <3>2. \A v, x, r : Waits(v, x, r) => Waits(v, x, r)'
      BY <1>3, <1>4 DEF Waits, BehindOn
    <3>3. \A x \in Tables : mem'[x].row = mem[x].row
      BY <1>2
    <3> QED
      BY <3>1, <3>2, <3>3, MeantStays
  <2> QED
    BY <2>1, <2>2
<1>6. ASSUME NEW x \in Tables, NEW r \in Rows PROVE Kept(x, r)'
  BY <1>2, <1>4 DEF Reached, Kept
<1> QED
  BY <1>5, <1>6 DEF Reached

LEMMA AddIndexReached ==
    ASSUME Plain, Reached, NEW t \in Threads, AddIndex(t)
    PROVE  Reached'
<1>0. PICK tb, n : tb = call[t].tb /\ n = Count(tb)
  OBVIOUS
<1>1. /\ call \in [Threads -> Calls] /\ mem \in [Tables -> Data] /\ tb \in Tables
      /\ call[t].op \in {"add", "append"} /\ call[t].pc = "addIndex"
      /\ Null \in Values /\ Absent \notin Values
  BY <1>0, PlainOf DEF AddIndex, Placed
<1>2. n \in Rows /\ mem[tb].row[n] = Absent
  <2>1. t \in Adders(tb)
    BY <1>0, <1>1 DEF Adders
  <2> QED
    BY <1>0, <1>1, <2>1, RowToAdd DEF Plain
<1>3. /\ \A u \in Threads \ {t} : call'[u] = call[u]
      /\ ~Behind(call[t]) /\ ~Behind(call'[t])
  BY <1>0, <1>1 DEF AddIndex, Calls, Idle, Calling, Behind
<1>4. /\ \A x \in Tables : x # tb => mem'[x] = mem[x]
      /\ mem'[tb].row = [mem[tb].row EXCEPT ![n] = Null]
      /\ mem'[tb].indexed = mem[tb].indexed
      /\ mem[tb].indexed => mem'[tb].keys = mem[tb].keys \cup {<<Null, n>>}
  BY <1>0, <1>1 DEF AddIndex
<1>5. /\ mem'[tb].row[n] = Null
      /\ \A r \in Rows : r # n => mem'[tb].row[r] = mem[tb].row[r]
  BY <1>1, <1>2, <1>4 DEF Data
<1>6. \A x, r : BehindOn(x, r)' = BehindOn(x, r)
  BY <1>3 DEF BehindOn
<1>7. ASSUME NEW u \in Threads PROVE Meant(u)'
  <2>1. CASE u = t
    BY <1>3, <2>1 DEF Meant
  <2>2. CASE u # t
    <3>1. /\ Meant(u) /\ call'[u] = call[u]
          /\ Behind(call[u]) => /\ call[u].tb \in Tables /\ call[u].row \in Rows
                                /\ mem[call[u].tb].row[call[u].row] # Absent
      BY <1>3, <2>2, PlainOf DEF Reached
    <3>2. \A v, x, r : Waits(v, x, r) => Waits(v, x, r)'
      BY <1>3, <1>6 DEF Waits, BehindOn
    <3>3. Behind(call[u]) => mem'[call[u].tb].row[call[u].row] = mem[call[u].tb].row[call[u].row]
      BY <1>2, <1>4, <1>5, <3>1
    <3> QED
      BY <3>1, <3>2, <3>3, MeantStays
  <2> QED
    BY <2>1, <2>2
<1>8. ASSUME NEW x \in Tables, NEW r \in Rows PROVE Kept(x, r)'
  <2>0. Kept(x, r)
    BY DEF Reached
  <2>1. CASE x # tb
    BY <1>4, <1>6, <2>0, <2>1 DEF Kept
  <2>2. CASE x = tb /\ r # n
    BY <1>4, <1>5, <1>6, <2>0, <2>2 DEF Kept
  <2>3. CASE x = tb /\ r = n
    BY <1>4, <1>5, <2>3 DEF Kept
  <2> QED
    BY <2>1, <2>2, <2>3
<1> QED
  BY <1>7, <1>8 DEF Reached

LEMMA WriteReached ==
    ASSUME Plain, Reached, NEW t \in Threads, Write(t)
    PROVE  Reached'
<1>0. PICK c : c = call[t]
  OBVIOUS
<1>1. /\ call \in [Threads -> Calls] /\ mem \in [Tables -> Data] /\ c.tb \in Tables
      /\ c.op \in {"set", "sort"} /\ c.pc = "write" /\ c.row \in Rows /\ c.val \in Values
      /\ ~Behind(c) /\ WithRows(c) /\ (c.op = "sort" => Sorting(c)) /\ Sees(t) /\ None \notin Threads
  <2>1. /\ call \in [Threads -> Calls] /\ mem \in [Tables -> Data] /\ c \in Calls
        /\ Placed(c) /\ Standing(t) /\ c.op # "exchange" /\ c.pc = "write"
        /\ Sees(t) /\ None \notin Threads
    BY <1>0, PlainOf DEF Write
  <2>2. c.tb \in Tables /\ c.op \in {"set", "sort"} /\ Stores(c)
    BY <2>1 DEF Placed, Stores
  <2> QED
    BY <1>0, <2>1, <2>2 DEF Standing, Calls, Behind, WithRows, Sorting
<1>2. /\ \A x \in Tables : mem'[x].keys = mem[x].keys /\ mem'[x].indexed = mem[x].indexed
      /\ \A x \in Tables, r \in Rows :
           mem'[x].row[r] = IF x = c.tb /\ r = c.row THEN c.val ELSE mem[x].row[r]
  <2>1. mem' = [mem EXCEPT ![c.tb].row[c.row] = c.val]
    BY <1>0 DEF Write
  <2> QED
    BY <1>1, <2>1 DEF Data
<1>3. \A u \in Threads \ {t} : call'[u] = call[u]
  <2>1. CASE mem[c.tb].indexed
    <3>1. PICK pc \in {"acquire", "remove"} : Goto(t, pc)
      BY <1>0, <2>1 DEF Write
    <3> QED
      BY <1>1, <3>1, GotoCall DEF Steps
  <2>2. CASE ~mem[c.tb].indexed
    BY <1>0, <1>1, <2>2, StoredCall DEF Write
  <2> QED
    BY <2>1, <2>2
<1>4. mem[c.tb].indexed =>
        /\ Behind(call'[t]) /\ call'[t].tb = c.tb /\ call'[t].row = c.row /\ call'[t].val = c.val
        /\ c.op = "set" => call'[t].pc = "acquire"
  <2>1. ASSUME mem[c.tb].indexed, c.op = "set"
        PROVE  call'[t].pc = "acquire" /\ call'[t].tb = c.tb /\ call'[t].row = c.row /\ call'[t].val = c.val
    <3>1. Goto(t, "acquire")
      BY <1>0, <2>1 DEF Write, ThreadSafe
    <3> QED
      BY <1>0, <1>1, <3>1, GotoCall DEF Steps
  <2>2. ASSUME mem[c.tb].indexed, c.op = "sort"
        PROVE  call'[t].pc = "remove" /\ call'[t].tb = c.tb /\ call'[t].row = c.row /\ call'[t].val = c.val
    <3>1. Goto(t, "remove")
      BY <1>0, <2>2 DEF Write, ThreadSafe
    <3> QED
      BY <1>0, <1>1, <3>1, GotoCall DEF Steps
  <2> QED
    BY <1>1, <2>1, <2>2 DEF Behind
<1>5. ~mem[c.tb].indexed => ~Behind(call'[t])
  BY <1>0, <1>1, StoredCall DEF Write
<1>6. \A v, x, r : v \in BehindOn(x, r) => v # t /\ v \in BehindOn(x, r)'
  BY <1>0, <1>1, <1>3 DEF BehindOn
<1>7. ASSUME NEW u \in Threads PROVE Meant(u)'
  <2>1. CASE u = t
    BY <1>1, <1>2, <1>4, <1>5, <2>1 DEF Meant
  <2>2. CASE u # t /\ ~Behind(call[u])
    BY <1>3, <2>2 DEF Meant
  <2>3. CASE u # t /\ Behind(call[u]) /\ call[u].tb = c.tb /\ call[u].row = c.row
    <3>1. mem[c.tb].indexed /\ call'[u] = call[u]
      BY <1>3, <2>3, PlainOf
    <3>2. ~Sorting(c)
      BY <1>0, <1>1, <2>3, AloneWithRows
    <3>3. Waits(t, c.tb, c.row)'
      BY <1>1, <1>4, <3>1, <3>2 DEF Waits, BehindOn
    <3> QED
      BY <2>3, <3>1, <3>3 DEF Meant
  <2>4. CASE u # t /\ Behind(call[u]) /\ ~(call[u].tb = c.tb /\ call[u].row = c.row)
    <3>1. /\ Meant(u) /\ call'[u] = call[u] /\ call[u].tb \in Tables /\ call[u].row \in Rows
      BY <1>3, <2>4, PlainOf DEF Reached
    <3>2. \A v, x, r : Waits(v, x, r) => Waits(v, x, r)'
      BY <1>3, <1>6 DEF Waits, BehindOn
    <3>3. mem'[call[u].tb].row[call[u].row] = mem[call[u].tb].row[call[u].row]
      BY <1>2, <2>4, <3>1
    <3> QED
      BY <3>1, <3>2, <3>3, MeantStays
  <2> QED
    BY <2>1, <2>2, <2>3, <2>4
<1>8. ASSUME NEW x \in Tables, NEW r \in Rows PROVE Kept(x, r)'
  <2>0. Kept(x, r) /\ mem'[x].indexed = mem[x].indexed /\ mem'[x].keys = mem[x].keys
    BY <1>2 DEF Reached
  <2>1. CASE x = c.tb /\ r = c.row
    <3>1. mem[x].indexed => t \in BehindOn(x, r)'
      BY <1>4, <2>1 DEF BehindOn
    <3> QED
      BY <2>0, <3>1 DEF Kept
  <2>2. CASE ~(x = c.tb /\ r = c.row)
    <3>1. mem'[x].row[r] = mem[x].row[r]
      BY <1>2, <2>2
    <3>2. BehindOn(x, r) # {} => BehindOn(x, r)' # {}
      BY <1>6 DEF BehindOn
    <3> QED
      BY <2>0, <3>1, <3>2 DEF Kept
  <2> QED
    BY <2>1, <2>2
<1> QED
  BY <1>7, <1>8 DEF Reached

LEMMA AcquireFieldIndexReached ==
    ASSUME Plain, Reached, NEW t \in Threads, AcquireFieldIndex(t)
    PROVE  Reached'
<1>0. PICK c : c = call[t]
  OBVIOUS
<1>1. /\ call \in [Threads -> Calls] /\ c.pc = "acquire" /\ acquired[c.tb] = None
      /\ None \notin Threads /\ mem' = mem
  BY <1>0, PlainOf DEF AcquireFieldIndex, Acquirable, contents
<1>2. /\ \A u \in Threads \ {t} : call'[u] = call[u]
      /\ call'[t].pc = "remove" /\ call'[t].tb = c.tb /\ call'[t].row = c.row /\ call'[t].val = c.val
  BY <1>0, <1>1, GotoCall DEF AcquireFieldIndex, Steps
<1>3. \A u \in Threads \ {t} : ~(Behind(call[u]) /\ call[u].tb = c.tb)
  BY <1>0, <1>1, AloneWithRows DEF WithRows
<1>4. \A x, r : BehindOn(x, r)' = BehindOn(x, r)
  BY <1>0, <1>1, <1>2 DEF BehindOn, Behind
<1>5. ASSUME NEW u \in Threads PROVE Meant(u)'
  <2>0. Meant(u)
    BY DEF Reached
  <2>1. CASE u = t
    <3>1. mem[c.tb].row[c.row] = c.val
      BY <1>0, <1>1, <1>3, <2>0, <2>1 DEF Meant, Waits, BehindOn, Behind
    <3> QED
      BY <1>1, <1>2, <2>1, <3>1 DEF Meant
  <2>2. CASE u # t /\ ~Behind(call[u])
    BY <1>2, <2>2 DEF Meant
  <2>3. CASE u # t /\ Behind(call[u])
    <3>1. call'[u] = call[u] /\ call[u].tb # c.tb
      BY <1>2, <1>3, <2>3
    <3>2. \A v \in Threads : Waits(v, call[u].tb, call[u].row) => Waits(v, call[u].tb, call[u].row)'
      BY <1>0, <1>2, <1>4, <3>1 DEF Waits, BehindOn
    <3> QED
      BY <1>1, <2>0, <3>1, <3>2, MeantStays
  <2> QED
    BY <2>1, <2>2, <2>3
<1>6. ASSUME NEW x \in Tables, NEW r \in Rows PROVE Kept(x, r)'
  BY <1>1, <1>4 DEF Reached, Kept
<1> QED
  BY <1>5, <1>6 DEF Reached

LEMMA RemoveKeyReached ==
    ASSUME Plain, Reached, NEW t \in Threads, RemoveKey(t)
    PROVE  Reached'
<1>0. PICK c : c = call[t]
  OBVIOUS
<1>1. /\ call \in [Threads -> Calls] /\ mem \in [Tables -> Data] /\ c.pc = "remove"
      /\ c.tb \in Tables /\ c.row \in Rows
  BY <1>0, PlainOf DEF RemoveKey, Behind
<1>2. /\ \A u \in Threads \ {t} : call'[u] = call[u]
      /\ call'[t].pc = "insert" /\ call'[t].tb = c.tb /\ call'[t].row = c.row /\ call'[t].val = c.val
  BY <1>0, <1>1, GotoCall DEF RemoveKey, Steps
<1>3. /\ \A x \in Tables : mem'[x].row = mem[x].row /\ mem'[x].indexed = mem[x].indexed
      /\ \A x \in Tables : x # c.tb => mem'[x].keys = mem[x].keys
      /\ mem'[c.tb].keys = mem[c.tb].keys \ {<<c.old, c.row>>}
  <2>1. mem' = [mem EXCEPT ![c.tb].keys = mem[c.tb].keys \ {<<c.old, c.row>>}]
    BY <1>0, <1>1 DEF RemoveKey
  <2> QED
    BY <1>1, <2>1 DEF Data
<1>4. \A x, r : BehindOn(x, r)' = BehindOn(x, r)
  BY <1>0, <1>1, <1>2 DEF BehindOn, Behind
<1>5. \A v, x, r : Waits(v, x, r) => v # t /\ Waits(v, x, r)'
  BY <1>0, <1>1, <1>2, <1>4 DEF Waits, BehindOn
<1>6. ASSUME NEW u \in Threads PROVE Meant(u)'
  <2>0. Meant(u) /\ (Behind(call[u]) => call[u].tb \in Tables)
    BY PlainOf DEF Reached
  <2>1. CASE u = t
    BY <1>0, <1>1, <1>2, <1>3, <1>5, <2>0, <2>1 DEF Meant, Behind
  <2>2. CASE u # t
    BY <1>2, <1>3, <1>5, <2>0, <2>2, MeantStays
  <2> QED
    BY <2>1, <2>2
<1>7. ASSUME NEW x \in Tables, NEW r \in Rows PROVE Kept(x, r)'
  <2>0. Kept(x, r)
    BY DEF Reached
  <2>1. CASE x = c.tb /\ r = c.row
    <3>1. t \in BehindOn(x, r)'
      BY <1>2, <2>1 DEF BehindOn, Behind
    <3> QED
      BY <3>1 DEF Kept
  <2>2. CASE x # c.tb
    BY <1>3, <1>4, <2>0, <2>2 DEF Kept
  <2>3. CASE x = c.tb /\ r # c.row
    <3>1. \A w : <<w, r>> \in mem[x].keys => <<w, r>> \in mem'[x].keys
      BY <1>3, <2>3
    <3> QED
      BY <1>3, <1>4, <2>0, <3>1 DEF Kept
  <2> QED
    BY <2>1, <2>2, <2>3
<1> QED
  BY <1>6, <1>7 DEF Reached

LEMMA InsertKeyReached ==
    ASSUME Plain, Reached, NEW t \in Threads, InsertKey(t)
    PROVE  Reached'
<1>0. PICK c : c = call[t]
  OBVIOUS
<1>1. /\ call \in [Threads -> Calls] /\ mem \in [Tables -> Data] /\ c.pc = "insert"
      /\ c.tb \in Tables /\ c.row \in Rows
  BY <1>0, PlainOf DEF InsertKey, Behind
<1>2. /\ \A u \in Threads \ {t} : call'[u] = call[u]
      /\ ~Behind(call'[t])
  <2>1. CASE ThreadSafe(t)
    <3>1. Goto(t, "relock") /\ "relock" \in Steps
      BY <2>1 DEF InsertKey, Steps
    <3> QED
      BY <1>1, <3>1, GotoCall DEF Behind
  <2>2. CASE ~ThreadSafe(t)
    BY <1>1, <2>2, StoredCall DEF InsertKey
  <2> QED
    BY <2>1, <2>2
<1>3. /\ \A x \in Tables : mem'[x].row = mem[x].row /\ mem'[x].indexed = mem[x].indexed
      /\ \A x \in Tables : x # c.tb => mem'[x].keys = mem[x].keys
      /\ mem'[c.tb].keys = mem[c.tb].keys \cup {<<c.val, c.row>>}
  <2>1. mem' = [mem EXCEPT ![c.tb].keys = mem[c.tb].keys \cup {<<c.val, c.row>>}]
    BY <1>0, <1>1 DEF InsertKey
  <2> QED
    BY <1>1, <2>1 DEF Data
<1>4. \A x, r : \A v \in Threads \ {t} : v \in BehindOn(x, r) => v \in BehindOn(x, r)'
  BY <1>2 DEF BehindOn
<1>5. \A v, x, r : Waits(v, x, r) => v # t /\ Waits(v, x, r)'
  BY <1>0, <1>1, <1>2, <1>4 DEF Waits, BehindOn
<1>6. ASSUME NEW u \in Threads PROVE Meant(u)'
  <2>0. Meant(u) /\ (Behind(call[u]) => call[u].tb \in Tables)
    BY PlainOf DEF Reached
  <2>1. CASE u = t
    BY <1>2, <2>1 DEF Meant
  <2>2. CASE u # t
    BY <1>2, <1>3, <1>5, <2>0, <2>2, MeantStays
  <2> QED
    BY <2>1, <2>2
<1>7. ASSUME NEW x \in Tables, NEW r \in Rows PROVE Kept(x, r)'
  <2>0. Kept(x, r) /\ Meant(t)
    BY DEF Reached
  <2>1. CASE x = c.tb /\ r = c.row
    <3>1. CASE mem[c.tb].row[c.row] = c.val
      BY <1>3, <2>1, <3>1 DEF Kept
    <3>2. CASE mem[c.tb].row[c.row] # c.val
      <4>1. \E u \in Threads : Waits(u, c.tb, c.row)
        BY <1>0, <1>1, <2>0, <3>2 DEF Meant, Behind
      <4>2. BehindOn(x, r)' # {}
        BY <1>5, <2>1, <4>1 DEF Waits
      <4> QED
        BY <4>2 DEF Kept
    <3> QED
      BY <3>1, <3>2
  <2>2. CASE ~(x = c.tb /\ r = c.row)
    <3>1. BehindOn(x, r) # {} => BehindOn(x, r)' # {}
      <4>1. t \notin BehindOn(x, r)
        BY <1>0, <2>2 DEF BehindOn
      <4> QED
        BY <1>4, <4>1 DEF BehindOn
    <3>2. mem[x].keys \subseteq mem'[x].keys
      BY <1>3
    <3> QED
      BY <1>3, <2>0, <3>1, <3>2 DEF Kept
  <2> QED
    BY <2>1, <2>2
<1> QED
  BY <1>6, <1>7 DEF Reached

LEMMA StartStill ==
    ASSUME IInv, NEW t \in Threads, NEW tb \in Tables, Start(t, tb)
    PROVE  Still(t) \/ CreateIndex(t, tb)
<1>0. call \in [Threads -> Calls] /\ Placed(call[t])
  BY DEF IInv, Shaped
<1> USE <1>0 DEF Still, Behind, Placed, contents, Simple, Calling, Starts
<1>1. ASSUME NEW r \in Rows, NEW v \in Values, Set(t, tb, r, v) PROVE Still(t)
  BY <1>1 DEF Set
<1>2. ASSUME NEW v \in Values, Append(t, tb, v) PROVE Still(t)
  BY <1>2 DEF Append
<1>3. ASSUME AddRow(t, tb) PROVE Still(t)
  BY <1>3 DEF AddRow
<1>4. ASSUME NEW r1 \in Rows, NEW r2 \in Rows, ExchangeRows(t, tb, r1, r2) PROVE Still(t)
  BY <1>4 DEF ExchangeRows, Exchange
<1>5. ASSUME MatchRows(t, tb) PROVE Still(t)
  BY <1>5 DEF MatchRows
<1>6. ASSUME RemoveIndex(t, tb) PROVE Still(t)
  BY <1>6 DEF RemoveIndex
<1>7. ASSUME SyncTableContent(t, tb) PROVE Still(t)
  BY <1>7 DEF SyncTableContent
<1>8. ASSUME LockTable(t, tb) PROVE Still(t)
  BY <1>8 DEF LockTable
<1> QED
  BY <1>1, <1>2, <1>3, <1>4, <1>5, <1>6, <1>7, <1>8 DEF Start

LEMMA GotoStill ==
    ASSUME IInv, NEW t \in Threads, mem' = mem, ~Behind(call[t]),
           \/ call' = [call EXCEPT ![t] = Idle]
           \/ \E pc \in Steps \ {"acquire", "remove", "insert"} : Goto(t, pc)
    PROVE  Still(t)
<1>0. call \in [Threads -> Calls]
  BY DEF IInv, Shaped
<1>1. CASE call' = [call EXCEPT ![t] = Idle]
  BY <1>0, <1>1 DEF Still, Behind, Idle, Calling
<1>2. ASSUME NEW pc \in Steps \ {"acquire", "remove", "insert"}, Goto(t, pc) PROVE Still(t)
  BY <1>0, <1>2, GotoCall DEF Still, Behind
<1> QED
  BY <1>1, <1>2

LEMMA StepStill ==
    ASSUME IInv, NEW t \in Threads, Step(t)
    PROVE  \/ Still(t)
           \/ AddIndex(t) \/ Write(t) \/ AcquireFieldIndex(t)
           \/ RemoveKey(t) \/ InsertKey(t) \/ DropIndex(t)
<1>0. call \in [Threads -> Calls] /\ Placed(call[t])
  BY DEF IInv, Shaped
<1> USE DEF Behind, contents, Steps
<1>1. ASSUME Notify(t) PROVE Still(t)
  BY <1>1, GotoStill DEF Notify
<1>2. ASSUME Notified(t) PROVE Still(t)
  BY <1>2, GotoStill DEF Notified
<1>3. ASSUME MarkYield(t) PROVE Still(t)
  BY <1>3, GotoStill DEF MarkYield
<1>4. ASSUME Remark(t) PROVE Still(t)
  BY <1>4, GotoStill DEF Remark
<1>5. ASSUME Marked(t) PROVE Still(t)
  BY <1>5, GotoStill DEF Marked
<1>6. ASSUME AddLock(t) PROVE Still(t)
  BY <1>6, GotoStill DEF AddLock
<1>7. ASSUME Relock(t) PROVE Still(t)
  BY <1>7, GotoStill DEF Relock
<1>8. ASSUME MatchRowsWithIndex(t) PROVE Still(t)
  BY <1>8, GotoStill DEF MatchRowsWithIndex
<1>9. ASSUME NextTable(t) PROVE Still(t)
  BY <1>0, <1>9 DEF NextTable, Still
<1>10. ASSUME SyncAllDone(t) PROVE Still(t)
  BY <1>10, GotoStill DEF SyncAllDone
<1>11. ASSUME FlushLockRows(t) PROVE Still(t)
  BY <1>11, GotoStill DEF FlushLockRows
<1>12. ASSUME FlushLockIndexes(t) PROVE Still(t)
  BY <1>12, GotoStill DEF FlushLockIndexes
<1>13. ASSUME FlushInternal(t) PROVE Still(t)
  BY <1>13, GotoStill DEF FlushInternal
<1>14. ASSUME LockInProgress(t) PROVE Still(t)
  BY <1>14, GotoStill DEF LockInProgress
<1>15. ASSUME LockRows(t) PROVE Still(t)
  BY <1>15, GotoStill DEF LockRows
<1>16. ASSUME LockIndexes(t) PROVE Still(t)
  BY <1>16, GotoStill DEF LockIndexes
<1>17. ASSUME UnlockTable(t) PROVE Still(t)
  BY <1>17, GotoStill DEF UnlockTable
<1> QED
  BY <1>1, <1>2, <1>3, <1>4, <1>5, <1>6, <1>7, <1>8, <1>9, <1>10, <1>11, <1>12, <1>13, <1>14, <1>15, <1>16, <1>17 DEF Step

\* The two steps that are of no table and of no call on its way.
LEMMA OtherStill ==
    ASSUME IInv, NEW t \in Threads,
           \/ SyncAllTablesContent(t)
           \/ \E r1, r2 \in Rows : SortExchange(t, r1, r2)
    PROVE  Still(t) /\ call'[t].op # "match"
<1>0. call \in [Threads -> Calls] /\ Placed(call[t])
  BY DEF IInv, Shaped
<1>1. CASE SyncAllTablesContent(t)
  BY <1>0, <1>1 DEF Still, Behind, Placed, SyncAllTablesContent, Starts, contents, Calling
<1>2. ASSUME NEW r1 \in Rows, NEW r2 \in Rows, SortExchange(t, r1, r2)
      PROVE  Still(t) /\ call'[t].op # "match"
  BY <1>0, <1>2 DEF Still, Behind, SortExchange, Exchange, contents, Calling
<1> QED
  BY <1>1, <1>2

LEMMA NextReached ==
    ASSUME "exchange" \notin Ops
    PROVE  IInv /\ TInv /\ Apart /\ Reached /\ [Next]_vars => Reached'
<1> SUFFICES ASSUME Plain, Reached, [Next]_vars PROVE Reached'
  BY DEF Plain
<1>0. IInv
  BY DEF Plain
<1>1. ASSUME NEW t \in Threads, NEW tb \in Tables, Start(t, tb) PROVE Reached'
  BY <1>0, <1>1, StartStill, StillReached, CreateIndexReached
<1>2. ASSUME NEW t \in Threads, Step(t) PROVE Reached'
  BY <1>0, <1>2, StepStill, StillReached, AddIndexReached, WriteReached, AcquireFieldIndexReached,
     RemoveKeyReached, InsertKeyReached, DropIndexReached
<1>3. ASSUME NEW t \in Threads,
             \/ SyncAllTablesContent(t)
             \/ \E r1, r2 \in Rows : SortExchange(t, r1, r2)
      PROVE  Reached'
  BY <1>0, <1>3, OtherStill, StillReached
<1>4. ASSUME UNCHANGED vars PROVE Reached'
  BY <1>4 DEF vars, Reached, Meant, Kept, Waits, BehindOn
<1> QED
  BY <1>1, <1>2, <1>3, <1>4 DEF Next

LEMMA InitReached == Init => Reached
<1> SUFFICES ASSUME Init PROVE Reached
  OBVIOUS
<1>1. \A t \in Threads : Meant(t)
  BY DEF Init, Idle, Calling, Meant, Behind
<1>2. ASSUME NEW tb \in Tables, NEW r \in Rows PROVE Kept(tb, r)
  <2>1. \E n \in 0 .. MaxRows, indexed \in BOOLEAN :
          mem = [x \in Tables |->
                  [row |-> [i \in Rows |-> IF i < n THEN Null ELSE Absent], indexed |-> indexed,
                   keys |-> IF indexed THEN KeysOf([i \in Rows |-> IF i < n THEN Null ELSE Absent]) ELSE {}]]
    BY Zenon DEF Init
  <2>2. mem[tb].indexed => mem[tb].keys = KeysOf(mem[tb].row)
    BY <2>1
  <2> QED
    BY <2>2 DEF KeysOf, Kept
<1> QED
  BY <1>1, <1>2 DEF Reached

LEMMA ReachedIndex ==
    ASSUME Reached
    PROVE  IndexMissesNoRow
<1> SUFFICES ASSUME NEW tb \in Tables, mem[tb].indexed, ~IndexBehind(tb),
                    NEW r \in Rows, mem[tb].row[r] # Absent
             PROVE  <<mem[tb].row[r], r>> \in mem[tb].keys
  BY DEF IndexMissesNoRow, KeysOf
<1>1. BehindOn(tb, r) = {}
  BY DEF IndexBehind, BehindOn, Behind
<1> QED
  BY <1>1 DEF Reached, Kept

\* A search by index misses no row: every row has a key with its value, when no
\* call is between a row and its key, however many callers store to one row at
\* once, wait for a sync with an old value read, sort, and create and remove the
\* index.  Rows are exchanged, without acquiring the field, only when no other
\* call stores to them and nobody sorts.
THEOREM SearchMissesNoRow ==
    ASSUME "exchange" \in Ops => OwnRows
    PROVE  Spec => []IndexMissesNoRow
<1>1. CASE "exchange" \notin Ops
  <2> DEFINE RInv == IInv /\ TInv /\ Apart /\ Reached
  <2>1. Init => RInv
    BY InitIInv, InitTInv, InitApart, InitReached
  <2>2. RInv /\ [Next]_vars => RInv'
    BY <1>1, NextIInv, NextPlaced, NextApart, NextReached
  <2>3. RInv => IndexMissesNoRow
    BY ReachedIndex
  <2> QED
    BY <2>1, <2>2, <2>3, PTL DEF Spec
<1>2. CASE OwnRows
  <2>1. IndexMatchesRows => IndexMissesNoRow
    BY DEF IndexMatchesRows, IndexMissesNoRow
  <2>2. Spec => []IndexMatchesRows
    BY <1>2, IndexTellsTheRows
  <2> QED
    BY <2>1, <2>2, PTL
<1> QED
  BY <1>1, <1>2

\* An index that a search has found is there until somebody removes it.
Found == "removeIndex" \notin Ops => \A t \in Threads : call[t].op = "match" => mem[call[t].tb].indexed

LEMMA IndexStays ==
    ASSUME Plain, NEW t \in Threads, "removeIndex" \notin Ops, NEW tb \in Tables, mem[tb].indexed,
           \/ Step(t)
           \/ \E x \in Tables : Start(t, x)
    PROVE  mem'[tb].indexed
<1>1. /\ IInv /\ mem \in [Tables -> Data] /\ Placed(call[t])
      /\ call[t].op \in Ops \cup {"idle", "set"}
  BY PlainOf DEF Plain, Apart
<1>2. CASE Still(t)
  BY <1>2 DEF Still
<1>3. CASE AddIndex(t)
  BY <1>1, <1>3 DEF AddIndex
<1>4. CASE Write(t)
  BY <1>1, <1>4 DEF Write, Data
<1>5. CASE RemoveKey(t) \/ InsertKey(t)
  BY <1>1, <1>5 DEF RemoveKey, InsertKey, Data
<1>6. CASE AcquireFieldIndex(t)
  BY <1>6 DEF AcquireFieldIndex, contents
<1>7. ~DropIndex(t)
  BY <1>1 DEF DropIndex, Placed
<1>8. ASSUME NEW x \in Tables, CreateIndex(t, x) PROVE mem'[tb].indexed
  BY <1>1, <1>8 DEF CreateIndex, Data
<1> QED
  BY <1>1, <1>2, <1>3, <1>4, <1>5, <1>6, <1>7, <1>8, StepStill, StartStill

LEMMA NextFound ==
    ASSUME Plain, Found, [Next]_vars
    PROVE  Found'
<1> SUFFICES ASSUME "removeIndex" \notin Ops, NEW u \in Threads, call'[u].op = "match"
             PROVE  mem'[call'[u].tb].indexed
  BY DEF Found
<1>1. ASSUME NEW t \in Threads, Keeps(t), \A tb \in Tables : mem[tb].indexed => mem'[tb].indexed
      PROVE  mem'[call'[u].tb].indexed
  <2>1. mem[call'[u].tb].indexed
    BY <1>1 DEF Keeps, Found
  <2>2. call'[u].tb \in Tables
    <3>1. IInv'
      BY NextIInv DEF Plain
    <3> QED
      BY <3>1 DEF IInv, Placed
  <2> QED
    BY <1>1, <2>1, <2>2
<1>2. ASSUME NEW t \in Threads, NEW tb \in Tables, Start(t, tb) PROVE mem'[call'[u].tb].indexed
  BY <1>1, <1>2, StartKeeps, IndexStays DEF Plain
<1>3. ASSUME NEW t \in Threads, Step(t) PROVE mem'[call'[u].tb].indexed
  BY <1>1, <1>3, StepKeeps, IndexStays DEF Plain
<1>4. ASSUME NEW t \in Threads,
             \/ SyncAllTablesContent(t)
             \/ \E r1, r2 \in Rows : SortExchange(t, r1, r2)
      PROVE  mem'[call'[u].tb].indexed
  <2>1. mem' = mem /\ call'[t].op # "match" /\ \A x \in Threads \ {t} : call'[x] = call[x]
    BY <1>4, OtherStill DEF Still, Plain
  <2> QED
    BY <2>1 DEF Found
<1>5. ASSUME UNCHANGED vars PROVE mem'[call'[u].tb].indexed
  BY <1>5 DEF vars, Found
<1> QED
  BY <1>2, <1>3, <1>4, <1>5 DEF Next

\* The index is there when it is used, has one user, and misses no row, whoever
\* stores to one row at once, sorts, syncs, and creates and removes the index,
\* when nobody exchanges rows, and either nobody searches or nobody removes the
\* index: a search looks the index up before it acquires the field.
THEOREM IndexIsSound ==
    ASSUME "exchange" \notin Ops, "match" \notin Ops \/ "removeIndex" \notin Ops
    PROVE  Spec => []IndexSound
<1> DEFINE RInv == IInv /\ TInv /\ Apart /\ Reached /\ Found
<1>1. Init => RInv
  <2>1. Init => Found
    BY DEF Init, Found, Idle, Calling
  <2> QED
    BY <2>1, InitIInv, InitTInv, InitApart, InitReached
<1>2. RInv /\ [Next]_vars => RInv'
  BY NextIInv, NextPlaced, NextApart, NextReached, NextFound DEF Plain
<1>3. RInv => IndexSound
  <2> SUFFICES ASSUME RInv PROVE IndexSound
    OBVIOUS
  <2>1. TypeOK /\ IndexMissesNoRow /\ IndexExclusive
    BY PlacedTypeOK, ReachedIndex, OneInIndex
  <2>2. IndexThere
    <3> SUFFICES ASSUME NEW t \in Threads,
                        call[t].pc \in {"match", "matchAcquire", "matching", "remove", "insert"}
                 PROVE  mem[call[t].tb].indexed
      BY DEF IndexThere
    <3>1. Placed(call[t]) /\ Sees(t) /\ call[t].op \in Ops \cup {"idle", "set"}
      BY DEF IInv, Apart
    <3>2. CASE call[t].pc \in {"remove", "insert"}
      BY <3>1, <3>2 DEF Sees
    <3>3. CASE call[t].pc \in {"match", "matchAcquire", "matching"}
      <4>1. call[t].op = "match" /\ "match" \in Ops
        BY <3>1, <3>3 DEF Placed
      <4> QED
        BY <4>1 DEF Found
    <3> QED
      BY <3>2, <3>3
  <2> QED
    BY <2>1, <2>2 DEF IndexSound
<1> QED
  BY <1>1, <1>2, <1>3, PTL DEF Spec

=============================================================================
