# whais: verification project

TLA+ models of the WHAIS database server, checked with TLC and, where the
result matters for every size, proved with TLAPS. Paths below are relative to
the repository's source directory; `ps_x.cpp:10` stands for
`dbs/pastra/ps_x.cpp:10`.

Contents: 1 the system, 2 the modules, 3 the runs, 4 fairness, 5 proofs,
6 what disagrees with the code's own words, 7 behaviour seen and not run,
8 what is not modelled, 9 the plan.

## 1. The system

WHAIS is a database server. A *client* sends frames over a socket to the
*server*, whose handlers execute procedures in the *interpreter* (PRIMA), whose
programs the *compiler* translated; programs read and write tables of the
*engine* (PASTRA), which keeps them in files. The engine and the server's
threads carry the state and the concurrency; they are what is modelled first,
then the structures the engine keeps its data in, its recovery, and what a
client and its session make of a sequence of calls.

| Component | State | Operations | Interacts with | Hard behaviour | What makes it correct |
|---|---|---|---|---|---|
| Variable size store (`ps_varstorage`) | entries with links, flags and counts; head of the free list in memory and in entry 0 | AddRecord, UpdateRecord, GetRecord, Increment/DecrementRecordRef, RemoveRecord | its block cache and container; rows and values of all sessions hold references | one lock, but let go of in the middle of AddRecord; failures in loops; records shared by count | links are consistent, chains are disjoint, counts are exact, nothing is lost |
| Block cache (`ps_blockcache`) | map from block to memory, dirty flag, users | RetriveItem, StoredItem life, FlushItem, RefreshItem, Flush | owner's lock (store or table), owner's file, which appends bypass it | eviction at the limit, pins that outlive the lock, stale blocks, failing write-backs | it is invisible: items behave as a plain array |
| Tables (`ps_templatetable`) | rows, indexes, three locks, "acquired" marks, modified flag | AddRow, StoreEntry, ExchangeRows, CreateIndex, RemoveIndex, MatchRows, Flush, LockTable, UnlockTable | database manager (flag, sync), cache, store, trees | lock order against the sync, locks given up in the middle of a call, trees without a lock | indexes match rows, one thread in a tree, a crash is noticed, syncs end |
| Database manager (`ps_dbsmgr`) | open databases with use counts, tables with use counts, flag NOT_CLOSED and the list of tables in a file | create, open, release, remove, validate, repair databases; add, open, release, delete tables; sync | tables, file system, ticks of the server | crash between files and list, counts, global lock against database lock | list and files agree, nothing in use is deleted, a crash is noticed |
| Persistent tables (`ps_table`) | header, main file, files of values and trees | create, open, close, validate, repair | containers, store, node managers | crash while the header is written, marks stored in it | a header read back is one that was written |
| B-trees (`ps_btree_index`) | nodes, list of free nodes | InsertKey, RemoveKey, FindBiggerOrEqual, split, join | node managers of tables, block cache | long sequences of splits and joins | keys ordered, nodes filled, search finds what was inserted |
| Containers (`ps_container`) | a byte sequence over several files; two windows of a temporary one | Read, Write, Colapse, FillCache, MarkForRemoval | file system | limits between files and windows, failing growth | reads return what was written |
| Values (`ps_values`, `ps_arraystrategy`, `ps_textstrategy`) | value in memory, or a reference to a record | read, write, duplicate | store | copy on write of shared records | a value changes only for who wrote it |
| Server pool (`server.cpp`, `wthread.cpp`) | listeners, slots with socket, thread, mEndConnection, timers; stop flags | accept, claim, refuse, session, time out, stop, destroy | sockets, handlers, ticks, engine sync | slots handed on without a lock, stop from several threads, joins | no slot is handed on under a session, the stop ends |
| Connection (`connection.cpp`) | frame, frame numbers, cipher, session stack | ReadCommand, SendCmdResponse, authentication | client connector | both ends in step, sessions that end in a call | an answer belongs to its request |
| Commands, start-up (`commands`, `stack_cmds`, `configuration`, `loader`, `server_main`) | the stack of a session; settings | one request, one answer | interpreter, engine | partial answers | sequential |
| Client connector (`connector.c`) | frame being gathered, answer kept in it, what cmdInternal remembers of both | stack calls, flush, execute, read, lists | the session behind its socket | commands merged and flushed by themselves, cached answers, dropped connections | the stack is what the calls asked for, answers are current |
| wcmd | | | connector, repair | | |
| Compiler, interpreter, stdlib, utilities | programs, units, byte code | | | sequential, large data | out of the reach of a bounded model, see 8 |

## 2. The modules

| Module | Models | Composes |
|---|---|---|
| `VarStore` | the variable size store | |
| `BlockCache` | the block cache with the steps of its owners | `ItemStore` (refinement) |
| `ItemStore` | the abstract promise of the cache: a growing array | |
| `BlockCacheProofs` | proofs about the cache, with the refinement | `BlockCache` |
| `TableSync` | locks, flags, rows and the index of the tables of one database, with the sync and the sort | |
| `TableSyncProofs` | its inductive invariant and proofs | `TableSync` |
| `DbsManager` | a database, its file, its tables' files, its users, crashes and repairs | |
| `DbsManagerProofs` | its inductive invariant and proofs | `DbsManager` |
| `ServerPool` | listener, slots, handlers, ticks, stop | |
| `ServerPoolProofs` | proofs about the slots and the stop | `ServerPool` |
| `BTree` | trees of the indexes: keys, nulls, splits, joins, free nodes, scans | `KeySet` (refinement) |
| `KeySet` | the abstract promise of a tree: a set of keys, and the operation that is to change it | |
| `BTreeInvariant` | the inductive invariant of trees without null keys | `BTree` |
| `BTreeProofs` | proofs about the shape of a tree, its keys and its scans, with the refinement | `BTreeInvariant` |
| `StoreRepair` | rows that refer to records of a store, write-backs, crashes, the repair | `VarStore` |
| `StoreProofs` | the inductive invariants of both stores, and proofs | `VarStore`, `StoreRepair` |
| `FileContainer` | a string of bytes in a series of files | |
| `TempContainer` | two windows in memory over a file container | `FileContainer` |
| `TempContainerProofs` | that both containers are strings | `TempContainer` |
| `Connector` | a client's handle and the session that serves it | |
| `ConnectorProofs` | its inductive invariant and proofs | `Connector` |
| `MC*` | symmetry sets for TLC; bounds on histories (`MCBTree`) | one each |

The `map` of PROJECT.json names the lines of each definition.

**VarStore.** `s` holds the entries (two flags, two links; the first entry of
a record keeps its count in `prev`, as in the code), `mFirstFreeEntry` and
`mEntriesCount`; `mSync` its lock. The operations on the list
(ExtentFreeList, ExtractFromFreeList, AllocateEntry, AddToFreeList) are
functions of the store, because the code runs them whole inside one critical
section; the loops of UpdateRecord, GetRecord and RemoveRecord are one step for
an iteration, taken with the lock held, because their length is the question.
`owned` are the references held by rows and values, `orphaned` the records left
by an AddRecord whose UpdateRecord threw. Bytes are abstracted to "entries'
worth of data": UpdateStep skips an entry or writes to it, UpdateGrow adds one.
Reopen reads the head of the list back from entry 0.

**BlockCache.** `cached` is mCachedBlocks, `slot` the StoredItems of each
thread, `fetch` the RetriveItem under way: making room is one step for each
look at the first block of the map (evict, find it in use and look again, fail
to write it back), loading another. AppendItem is what the owners do around the
cache: FlushItem of the last item, a write to the file, RefreshItem of the new
one. A read that fails (LoadFails) belongs to `SpecReadFails` only, because it
leaves a clean block that is not the file's (section 7).

**TableSync.** Each thread has one call with a place in it (`pc`); a step ends
where the code lets go of or waits for a lock, and where another thread could
see the difference. MarkRowModification is the heart: it asks for the lock of
the database while the rows are locked; a caller that passed its guard lets go
of the rows when the database lock is taken and tries again, a caller that
passed none spins. `mem` and `disk` are a table's content in memory and in its
files; Flush makes them equal when the field is not acquired. A table has one
field that may be indexed. `SharedRows` says whether two threads may store to
one row at once (programs do; some properties are about callers that do not).
`Ops` chooses the calls of a run.

**DbsManager.** One database. `file` is its file: absent, empty, or a header
with the two flags, the count of tables and the names written so far;
`tableFiles` says of each table whether its files are missing, current or
behind the table in memory (TableSync models how they come to differ). `loaded`
and `mRefCount` are the manager's DbsElement; `mTables`, `open`, `uses` (the
pointer and the count of TABLE_DATA), `mNeedsSync` and
`mCreatedTemporalTables` the handler's members. `mSync` and `dbsSync` are the
locks, each with the call that has it: a call that writes more than one thing
is one step for each write, taken with its lock held, so that Crash comes
between any two. Crash is also DBSShoutdown, which writes nothing. `repair` is
a DBSRepairDatabase under way. `dbHandle`, `held` and `temporals` are what the
threads have retrieved. The constructor of DbsHandler reads as many names as
the header counts; past the end of a list that is cut off it finds whatever
follows its buffer, which is any set of names here (`NamesRead`). Three ghosts
say what no variable of the code says: `cut`, a crash cut off AddTable,
DeleteTable or DBSRemoveDatabase; `givenUp`, a repair did not end well; `short`,
a repair was begun on a list that was cut off. A call the code refuses is no
step. DeleteTable does not ask whether its table is held; that only tools call
it, for a table nobody holds (`Unheld`), is the duty of its callers and a guard
of `TableCall`, where they are.

**ServerPool.** One listener with `Slots` slots. Every read or write of a
member without a lock is a step of its own: the claim of a slot
(SearchFreeUser), Thread::Run on it, the start and the end of the handler, the
two steps of ReqTmoCloseTick, the marks and waits of Close, the destructors.
sClosingLock is told by where StartServer is. A session is reading and
executing commands; a client is the value of a socket.

**BTree.** `tree` is the file of nodes with its root and its list of free
nodes; a node keeps its keys (the code stores them backwards), children, links
and the number of null keys, which a freed node keeps too. `op` is the
operation under way: the path of the recursion, one step for each node it looks
at, splits or joins. The table's lock keeps operations apart (TableSync), so
there is one. MatchRows is a function of the tree, looked at between
operations. `KeySet` is refined by the contents of the leaves: one step of an
operation changes them, by the key it was called with, no split and no join
does. The search in a node, the way down and the scan are functions of the
number of turns of the code's loops, whose bodies they repeat until they stay.

**StoreRepair.** The table between VarStore and its files: `row` is a row of
the row cache with the references it holds, `file` what the files have of
entries, rows and the count of entries. WriteBack is an eviction of one block
of the store's or of the row's cache, in any order; FlushInternal writes all;
Crash leaves what `file` has. The module extends `VarStore` and is specified by
`TableSpec`. The calls are the steps of `VarStore` under those of Set, which makes a record or shares that of a value, stores
the row and releases the old record. The repair goes through the rows in the
code's order (CheckArrayEntry, CheckTextEntry and what they mark), then
ConcludeStorageCheck links all that is not marked, then the header is written.
`durable` is a ghost: the fields that have not changed since a flush.

**FileContainer, TempContainer.** The units and windows byte by byte: an
iteration of the code's loops takes as many bytes as fit, an iteration here
takes one, which differs in nothing that can be seen. `bytes` is the ghost the
property compares with.

**Connector.** `client` is INTERNAL_HANDLER: the commands gathered in its
frame, LAST_UPDATE_OFF (`last`: the number of a command), what the answer kept
in the same bytes has (`data`, `list`), lastCmdRespReceived and the number of
the next frame. `wire` is what is under way: the protocol is one request, one
answer. `server` is the session: its frame number and its stack of values, each
a text or an array. Sizes count bytes of commands in proportion: a push or a
pop is two, an update one and its items. WFlush inside a stack call that finds
no room is a request with the call as its continuation (`then`). `asked` is a
ghost with the calls since the last flush, one by one and never merged.

## 3. The runs

| Run | Instance | States | Shows |
|---|---|---|---|
| `VarStore` | 2 threads, 5 entries, 2 references, 2 entries of data a call | 94 thousand | all invariants of the store; critical sections end |
| `BlockCache` | 2 threads, 5 items in blocks of 2, 2 blocks, 2 pins each | 1.08 million up to symmetry | the cache refines `ItemStore`, pins and clean blocks |
| `TableSync` | 3 threads, 1 table of 1 row that all share, set, append, add, match, both syncs | 44.6 thousand | safety; a sync ends, or stands in the embrace with an append (section 6) |
| `TableSyncIndex` | 3 threads, 1 table of 2 rows that all share, with append, sort, create and remove index, SyncTableContent | 264 thousand up to symmetry | index exclusive, no row missed, there |
| `TableSyncTwo` | 2 threads with rows of their own, 2 tables, exchange among the calls | 854 thousand up to symmetry | the flag of the database is shared; the index has the keys of the rows and no others |
| `DbsManager` | 3 threads, 2 tables, counts up to 5 | 1.08 million up to symmetry | lists, flags, files and users |
| `DbsManagerRepair` | 2 threads, 2 tables | violated after 12 states | a repair that succeeds leaves the wrong count of tables (section 6) |
| `ServerPool` | 2 clients, 2 slots, all failures, several stops | 220 thousand | slots, destruction, stop |
| `BTree` | 16 rows, 2 of them null, 9 keys a leaf, 12 an inner node, 3 turns | 91 thousand | levels, contents and scans; refines `KeySet`; operations end |
| `StoreRepair` | 2 arrays and a text, 4 entries, 2 calls and 3 evictions between flushes | 4.6 million | what a repair makes of every crash |
| `TempContainer` | windows of 2, files of 3, up to 7 bytes, calls of up to 3 | 65 thousand up to symmetry | the bytes are those written |
| `Connector` | 1 value on the stack, frames of 6, 3 globals, 2 names an answer | 300 thousand | order of updates, currency of answers, calls return |

*Bounds.* Five entries allow a chain of two, a record being removed, a free
list of two and its three ways to be relinked at once; the special cases of
AddToFreeList (right neighbour free, last of the file, head) all occur. Two
blocks of two items and five items give a full cache, an eviction and a last
block that is not full; WantedBlockSize 5 with items of 2 exercises the
rounding of Init. Three threads in TableSync are one in a tree, one waiting for
it and one that syncs; a fourth adds waiting only. One row is enough for the
run of the syncs: the keys of two rows do not meet, and what callers of one row
do to each other is all there is. Of the two syncs SyncAllTablesContent marks a
table before it flushes it, so that the embrace with an append takes a second
row there and one row with SyncTableContent, which holds the same lock; over
two rows (set, append, match and both syncs, 703 thousand states, not kept as a
run) the same holds. Two tables in DbsManager are
one that is added, deleted or removed and one that is behind meanwhile; three
threads are two that share a table and one that releases or syncs the database,
and counts up to 5 let all three share it. Two slots and two clients
are a slot taken, one handed on, and a refusal when both are claimed. Nine keys
make a leaf that is split when it has five and joined when it has one, as the
code's ratios have it (at two thirds and at one third), and twelve an inner node
that is split when it has seven; sixteen rows make three levels. A run of
insertions goes up or down through what is missing, a run of removals takes
either end of what there is at each step, and there are three runs, so that
nodes split, join, are freed and are used again. These are the smallest sizes:
with an inner node of under twelve keys the root may be left with one child,
which finds nothing to join when it is poor. The proof asked for that bound; the
nodes of the code have hundreds of keys. Four entries
are a value of two beside one of one and an orphan; three evictions write a row
before its entries, and after. Seven bytes are four windows and three
files. A frame of six takes two updates and a pop, or a merged update with a
command behind it; one value is what every command works on (with two, TLC
finds the same in the safety properties over 1.1 million states). Three
globals, two to an answer, make a list that needs a second answer, and that one
is not full. Bounds in
guards: `MaxEntries` (HasRoom), `MaxRefs` (IncrementRecordRef), `MaxGrow`,
`MaxItems` (AppendItem), `MaxPins`, `MaxRows` (MayGrow), `MaxUses`
(RetrievePersistentTable), `MaxTurns` (MCBTree), `MaxCalls`, `MaxEvictions`
(StoreRepair), `MaxSize`, `MaxChunk` (TempContainer), `MaxDepth`, `MaxItems`
(Connector). Every run but
`DbsManagerRepair`, which ends with its violation, visits its whole state space.

*Deadlock* is not an error in the runs of TableSync: a sync and an append stop
each other for good (section 6), as do two sorts that race in LockTable and an
exchange and a sync (section 7). Nor is it in those of ServerPool (the server
ends), of DbsManager (a database whose file was cut off while its list was
written is refused by everything but the removal of its files by hand), and in
`StoreRepair`, where a repaired table is the end. It is checked in the others.

*Symmetry* is used only in runs without liveness properties.

## 4. Fairness

* `VarStore`: weak fairness of a step of the thread that holds the lock. The
  holder waits for nobody, so the scheduler's fairness is enough.
* `BlockCache`: none in its run, whose properties are about what may not happen.
  `FairSpec`, for RetriveItemReturns (section 6, item 9), has weak fairness of
  the loop in RetriveItem, whose thread waits for nobody.
* `TableSync`: strong fairness of each thread's steps, Start excluded: a lock
  (`utils/include/wthread.h`) is taken by compare-and-swap in a loop with a
  yield, which gives no order but succeeds almost surely when the lock is free
  again and again. Weak fairness would let a thread miss the free moments for
  ever; nobody is obliged to start a call.
* `DbsManager`: none; its properties are about what may not happen.
* `ServerPool`: weak fairness of each handler, of the listener and of the steps
  of StartServer; strong fairness of TicksEnd, because the tick looks at the
  flags each round although timeouts may interleave (ticks_routine). Clients,
  Accept on an open socket and whoever stops the server owe nothing.
  Nor do sessions owe an end, which the code does not enforce once the ticks are
  over (section 6, item 4): that they do end is the hypothesis (`SessionsEnd`) of
  `ServerStopsWhenSessionsEnd`, which is about the behaviours in which the rest,
  ticks, handlers and Close, is what could hold the server up. One order of these
  does, and is named in the property: a handler whose command fails asks for the
  stop while Close, with the lock that StopServer needs, waits for that handler
  (`CloseWaitsForStopper`).
* `Connector`: weak fairness of the client's wait (an answer, or the end of the
  connection, is noticed) and of the session that has a request: both are
  threads that block in a read and run when it returns. Callers owe nothing,
  and sessions need not end.
* `BTree`, `StoreRepair`, `TempContainer`: none. OperationEnds bounds the steps
  of an operation instead.

## 5. Proofs

TLAPS proves the following for every value of the constants allowed by the
assumptions of the modules (`VarStoreAssumption`, `BlockCacheAssumption`,
`TableSyncAssumption`, `DbsManagerAssumption`, `ServerPoolAssumption`,
`StoreRepairAssumption`, `TempContainerAssumption`, `ConnectorAssumption`:
positive sizes, finitely many names, fields and threads, `None` not a thread,
and so on; TLC evaluates them). Where an inductive invariant can be evaluated
TLC has checked it on the module's run before its proof; those of VarStore and
Connector that range over all depths and stacks cannot.

A step that takes a prover more than a second or two names it with a longer
limit (`SMTT(30)`, `ZenonT(30)`), so that the proofs hold on a slower or a
loaded machine: all the modules, four at a time, are proved from nothing with
half of tlapm's usual limits (`--stretch 0.5`).

The functions that a loop of the code becomes are recursive functions, and what
one computes is proved by induction over the naturals. The library's theorem for
that takes an operator, which the provers here cannot instantiate; instead, a
set that has 0 and, with a number, the next one has them all, because a number
that it lacked would be in a non-empty set without a smallest element
(`ByInduction`, from WFMin).

* **VarStore** (`StoreProofs`): TypeOK, FreeListLinked, ChainsLinked,
  WalkOnLiveEntries, RefCountExact. The links alone are not inductive: a step
  of a loop needs to know that the entry it stands on is live, or that the
  entry it came from is the end of its chain, and that an entry being removed
  is cut off from what preceded it (`CallsKnow`); the first entry's count needs
  one owner for each reference (`RefsAccounted`: a record without a reference
  is being added, orphaned or being removed by exactly one thread). `IInv` is
  the conjunction. Each function on the store has a lemma of what it changes
  and that the list it returns is linked (`ExtentFacts`, `ExtractFacts`,
  `LinkBetweenFacts`, `AllocateFacts`...); each action has a lemma `...IInv`.
  NoEntryLost and ReferencedRecordsKeepEntries are about what a chain reaches.
  `Placed` says that each entry can be given a root, the start of the list or
  chain that it is in, and a depth that gets smaller on the way back to it
  (`Ranked`): an entry that nothing leads to, or a cycle apart from the others,
  has no such depth. Each function of the store changes roots and depths in a
  way that is written down with it, so that the root of a referenced record's
  entries stays (`Kept`).
* **BlockCache** (`BlockCacheProofs`): PinnedBlocksStay, CleanBlocksMatchFile
  and the refinement of ItemStore, from an invariant that says that clean
  blocks agree with the file, that a block beyond the end of the file does not
  exist, and that StoredItems and the fetch point at existing items. Arithmetic
  of `Base` is proved once (`BaseBounds`, `BlockItems`). Every action keeps
  `View` but GetDataForUpdate and AppendItem, which take an abstract step.
* **TableSync** (`TableSyncProofs`): IndexExclusive and CleanMeansFlushed, each
  for any set of calls but the one that breaks it (`"exchange" \notin Ops`,
  `"createIndex" \notin Ops`; section 7). `IInv` says which call
  has which step (`Placed`), which of the two locks of the table, the acquired
  field and the lock of the database a thread holds at each (`Locked`), and that
  the index it works on is there and, for a sort, acquired by nobody (`Sees`).
  What the others know survives a step that takes only what is free or gives up
  only what is the thread's own (`Leaves`, `OthersGoOn`), so that each action's
  lemma looks at its own thread. Two threads in a tree would have acquired the
  field both, or one has and the other is a sort, for which nobody has.
  CleanMeansFlushed adds `Flushed`: the flags in memory and on disk agree, who
  changes a table has marked it, and a sync of all tables, which keeps the
  database's lock and so every mark out, leaves none marked behind it.
  TypeOK, which has the bound on rows in it, needs the count of those who are
  adding one (`TInv`: a table has room for all of them, and a row is added
  where the rows end).
  SearchMissesNoRow is about IndexMissesNoRow with rows that callers share,
  while they wait with an old value read, sort, sync, create and remove the
  index. A row has its key, with the value it has now, or a call is between that
  row and its key (`Kept`); such a call means to put in the value the row has, or
  another has changed the row since, which still waits for the field and so
  comes to the tree after it (`Meant`; both are `Reached`). The theorem asks that
  ExchangeRows, which acquires no field, is not among the calls, or meets only
  callers with rows of their own and no sort. IndexIsSound adds that the index is
  there when it is used, when searches and RemoveIndex are not both among the
  calls, and nobody exchanges rows. That the index has no other key either
  (IndexMatchesRows) does not hold when two callers store to one row at once
  (section 6, item 2), and is proved of callers with rows of their own and of one table without syncs (`IndexTellsTheRows`):
  `Matched` says what a call between a row and its key has done so far: the key
  in the tree is that of the value it found, or none, and a second call on the
  same row has found the key that the first will have left.
* **DbsManager** (`DbsManagerProofs`): every property of its run. None is
  inductive alone. `CallsInv` says which calls may be under way together (who
  has the handler's lock has the database; a removal or a repair is alone);
  `UsersInv` that the counts are at least the users, so that the last release
  is alone and finds nothing open; `ListInv` what the file holds at each step
  of SyncToFile, and that a list the flags call closed is whole, unless a repair
  was begun on one that is not (`short`); `DataInv` what is known of a table that
  is behind: the flag is set, the list has it, it is open, and a sync or a repair
  under way still has it to do; `FilesInv` that the files are those listed, or
  those left to a removal; `CutInv` that only a crash leaves a list that is cut
  off. Each part has a lemma
  that goes through all actions (`TypeStep`, `CallsStep`, `UsersStep`,
  `ListStep`, `DataStep`, `FilesStep`, `CutStep`), on lemmas that count finite
  sets.
* **ServerPool** (`ServerPoolProofs`): TypeOK, from the fact that the listener
  is counted until it ends; SessionKeepsItsClient, from: while the listener is
  open a slot marked free has a thread that is done, and the slot the listener
  is about to run is claimed and its thread is done; OnePlaceForAClient, which
  is inductive with the types, since sockets only move; ThreadsEndFirst, from:
  when slots are destroyed the listener has ended and the threads of the slots
  already destroyed have too.

* **StoreRepair** (`StoreProofs` too, on the lemmas about VarStore):
  RepairedStoreIsWhole, KeptValuesAreWhole, FlushedValuesSurvive. What a repair
  makes of a file rests on `Checked` alone, which knows nothing of the process
  that ended: the entries marked are those of the values kept, and no two of
  these share one. That a flushed value survives rests on what that process
  did: a value held in memory is a whole chain there (`HeldWhole`), since its
  holders are counted (`Counted`) and a Set under way touches its own record
  only (`OneCall`); so a flushed value is a whole chain in the file too,
  which no entry from outside leads into (`Alone`, part of `Filed`), whatever
  the caches write back later. `RInv` is the conjunction, with VarStore's.
* **TempContainer** (`TempContainerProofs`): HoldsWhatWasWritten, in two steps.
  The units of a file container are a string (`FileIs`), of which Write, Read
  and Colapse write, return and remove the part they are asked for
  (`FileWriteIs`, `FileReadIs`, `FileColapseIs`, from the arithmetic of a byte's
  unit and position). Then windows and file are one (`Holds`): each window has
  all that the string has at its place, and a byte that no changed window has is
  in the file (`Backed`), which may end before the string does. Moving a window
  keeps that because the other one is written as well when the new place is
  beyond the end of the file (`MoveFacts`).
* **Connector** (`ConnectorProofs`): who speaks next and which frame numbers
  both expect (`Conversation`), UpdatesInOrder, AnswersAreCurrent. `Gathered`
  compares the frame with the calls on every stack, not only on the one that
  the session has, as the frame is filled before it is known what it will meet;
  `MergedFrame` shows that an update that goes on where the last one ended may
  be put into it. `Current` and `Listed` say that an answer under way still
  tells what the server has, as the session only moves while a call waits.

* **BTree** (`BTreeProofs`): TreeIsWhole, ScanIsExact and the refinement of
  KeySet, for any values, rows and sizes of nodes, and RootStartsWithSentinel,
  which the code asserts when it splits a root. Each is proved under `NoNulls`
  (`Nullable = {}`): a tree that never has a null key in it. That is less than
  what the code does, which puts a null key in every index when a row is added
  (AddRow, `ps_templatetable.cpp:205-310`), and so they are not among the results
  PROJECT.json lists: they say that splits, joins and scans are right, and
  nothing of the count of nulls. With many null values the code loses that count
  and they do not hold (section 6, item 5); with few they are checked by TLC
  only. None is inductive alone. A node
  does not say which keys may come to be in it, so the invariant (`IInv`, in
  `BTreeInvariant`) gives each used node a level and an interval of keys: the
  keys of a node are in its interval, the intervals of a level are apart and
  follow its links, that of a child ends at the key its parent has for it, and
  that of the root is everything. The first
  key of a node is the upper end of its interval (`Tight`), except that of one
  node whose first key was removed, until its parents are corrected:
  `Adjusting` says which node that is while a removal returns. Splits cut an interval in two, joins
  make one of two, and the rest follows: a key is in one leaf, the search ends
  there (`Descend`), links are mutual. Numbers of keys have their part (`Sized`,
  `Forked`): a node entered by an insertion has room or a parent with room, one
  entered by a removal has a key to spare, which is where the bounds on LeafKeys
  and InnerKeys come from. What each action keeps is a lemma on the tree
  (`SplitWhole`, `JoinWhole`, `AdjustWhole`, `CollapseWhole`...), then on its
  numbers of keys, then on the invariant (`On...`). A scan goes down to the leaf
  that has the first key of the range (`LeafFound`) and at each turn has the
  rows of all keys of the range up to the end of its leaf's interval
  (`ScanTurns`); it is over before it has been in as many leaves as there are
  nodes (`NodesCount`).

Only checked by TLC: OperationEnds, which bounds the steps of an operation by
the number of levels; BTree with null keys; and all liveness (LockReleased,
SyncEnds, ServerStopsWhenSessionsEnd, CallReturns), since liveness under
fairness is out of the prover's reach.

## 6. Where the code does not do what it says

Each of these is settled. Item 12 has a run (`DbsManagerRepair`), in which TLC
finds the violation; for the others the definition named stays in its module,
and a cfg with the constants of the module's run, the specification and the
property named gives the counterexample in seconds.

1. ExtentFreeList names the new entry before it exists
   (`ps_varstorage.cpp:1076`); when the write throws, the next allocation takes
   an entry behind the end of the file, against the assertion at line 1131.
   (`VarStore`, SpecDiskFull: FirstFreeIsDeleted.)
2. StoreEntry compares with a value read before it let go of the rows
   (`ps_templatetable.cpp:965`); the assertion at line 977 fails, and the index
   loses the wrong key. (`TableSync` with `SharedRows`, Spec: NullStoredOnce.)
3. RetrievePersistentTable counts every user but the first twice
   (`ps_dbsmgr.cpp:199`, `221`), so a table that two have used stays open and
   its database is never released; `dbs/test/test_dbs_recovery.cpp:153` expects
   the release, and uses each table once. (`DbsManager`, Spec: NoTableLeftOpen.)
4. A connection accepted just before Close gets a slot that Close has already
   closed; Close waits for the session while the client stays
   (`server.cpp:100`), after the log said "Server asked to shutdown. Waiting for
   the next tick..." (515). (`ServerPool`, FairSpec:
   `sServerStopped ~> main = "done"`.)
5. The root that Split puts over another gets everything but a count of nulls
   (`ps_btree_index.cpp:189`): a node that comes from the free list keeps the
   count it had. Then it has more nulls than keys, against the assertion at
   `ps_btree_fields.h:439`, and its sentinel reads as a null, against the one at
   line 187 when it is split in turn. (`BTree`: RootStartsWithSentinel, with
   LastNull = 6.)
6. A repair keeps a record whose first entry is in use and whose later ones are
   not: the test of an entry (`ps_varstorage.cpp:120`) looks at its links and
   never at the flag that says deleted. The first use of the value after the
   repair meets the assertion at line 663. KeptValuesAreWhole claims the flag of
   values only that had not changed since a flush; without `f \in durable`, TLC
   finds the other case with two evictions.
7. The client merges a text update with the last one when their places agree,
   but takes the place from the first command of the frame
   (`client/src/connector.c:1551`): the test reads CHTOP at LAST_UPDATE_OFF and
   the rest at `data + 1`. When another update stands first the merge goes into
   the wrong command and cuts off those behind it. A push or a pop clears
   LAST_UPDATE_OFF (a memset), with the same end for arrays (1759-1790): the
   element is appended behind the commands that came between, and counted in the
   first. `Connector` merges where UpdatesInOrder holds, when the last
   command is the update; MergesTextAnywhere is the other case.
8. WFlush after a call that built nothing answers WCS_INCOMPLETE_CMD, where the
   comment says "It's nothing here, just ignore this call"
   (`client/src/connector.c:2145`).
9. RetriveItem is to "make sure you have room to cache the new item"
   (`ps_blockcache.cpp:117`), and looks at the first block of a full cache again
   and again while it is in use (123-124), though another could go. One pin on
   that block is enough, and the store does fetch with a pin held: AllocateEntry
   (`ps_varstorage.cpp:1024-1045`), AddToFreeList (1173-1266). (`BlockCache`,
   FairSpec, with `PinsAcrossUnlock = FALSE`, one value, no symmetry:
   RetriveItemReturns.)
10. An append stops a sync, and the sync the append: StoreEntry at the end of a
   table calls AddRow(true) (`ps_templatetable.cpp:956-957`), whose
   MarkRowModification asks for the database's lock in a loop (2516), with the
   rows locked and no guard to let go of them, as its parameter provides; the
   sync has that lock and waits for the rows. (`Embraced`: SyncEnds of run
   `TableSync` says that nothing else holds a sync up, and without
   `\/ Embraced(t)` TLC finds it.)
11. The assertion on the manager of an index in MatchRowsWithIndex
   (`ps_templatetable.cpp:2420`) fails when RemoveIndex comes between the two
   looks. (`TableSync`, Spec, with `match` and `removeIndex`: IndexThere.)
12. DBSRepairDatabase asks whether to correct the count of tables ("It should be
   set to '%u'.", `ps_dbsmgr.cpp:752`), puts the answer in a buffer that it never
   writes (759) and says that it has succeeded (762). The flags are cleared by
   then (747), so that the next process accepts the file, and its constructor
   reads past its buffer (138-143). (`DbsManager`, Spec: RepairedListIsWhole, in
   run `DbsManagerRepair`: AddTable, the header is written, the process ends,
   MarkToRepair, OpenToRepair, AllRepaired, ClearFlags.)

## 7. Behaviour seen and not run

* CreateIndex changes the content of a table and leaves both flags "closed"
  (`ps_templatetable.cpp:612`); with `createIndex` among `Ops`,
  CleanMeansFlushed fails: a crash before the next change is not noticed.
* A sort marks the table modified without a guard, as an append does (section 6,
  item 10), and the server, whose last sync takes the same lock, cannot stop;
  `sort` is not among the `Ops` of run `TableSync`.
* A refusal that cannot be written ends the listener (`server.cpp:390`), and
  with the last listener the server: `ListenerStays` of ServerPool fails. The
  write throws when the client is already gone, and always when SearchFreeUser
  has moved the socket into a slot whose old thread is not quite done.
* A crash inside AddTable, DeleteTable or DBSRemoveDatabase before the list is
  rewritten leaves files that no list names, or a listed table without files,
  and the flag need not be set: the comment "Before we continue set the 'in use'
  flag." (`ps_dbsmgr.cpp:132`) announces a flag that is not written. FilesListed
  excepts it with `cut`.
* A repair that ends badly: an exception releases the database, which clears
  both flags (741); a refusal keeps it retrieved for ever (737); a crash leaves
  PS_FLAG_TO_REPAIR set, with which a plain open is accepted (97). The corrected
  count of tables is not written even by one that ends well (section 6, item 12).
  ModifiedIsNoticed excepts a repair that ends badly (`givenUp`) and one that
  finds a list that is cut off (`short`), with which it fails: the tables that
  such a repair did not get to, or was not told of, stay behind in a database
  whose flags are clear.
* A file accepted with a list that is cut off makes the constructor read past
  its buffer (138-143), and it goes on with what it finds: `NamesRead` is any set
  of names.
* DeleteTable accepts a table that one other user has (360), whose object it
  deletes; its callers are tools that have the database to themselves.
* ExchangeRows and Sort change a tree without acquiring its field
  (`ps_templatetable.cpp:1000`); with `exchange` and `set` on an indexed table
  IndexExclusive fails, and with shared rows IndexMissesNoRow too.
  `dbs/test/test_table_multithreading.cpp` runs the two only apart.
* LockTable tests and sets mLockInProgress in two steps (90-93): two sorts pass
  the test; the first to end clears it, and the second throws in UnlockTable
  (106) with the locks held.
* A read that throws in RetriveItem leaves its block in the map
  (`ps_blockcache.cpp:140-146`): the next RetriveItem serves it as a clean one.
* A handler whose command fails may wait in StopServer for the lock with which
  Close waits for that handler (`server.cpp:513`), when the ticks have ended for
  another reason after its look at line 510: neither goes on.
  ServerStopsWhenSessionsEnd names it (`CloseWaitsForStopper`) and says that it
  is the only such order.
* ReqTmoCloseTick may close the socket of the next client of a slot
  (`server.cpp:126`); the wrapper of a thread releases its lock after mEnded
  tells the destructor to go on (`wthread.cpp:295`).
* A value that outlives its table keeps the store, whose cache is then flushed
  by nobody (assertion at `ps_blockcache.cpp:51`).
* A wide table: CheckRowToDelete and CheckRowToReuse look at the null bits of
  every eighth field only (`ps_templatetable.cpp:863`), so a row that has values
  may be taken for an empty one. GetReusableRow returns a row without reserving
  it (346): two callers get the same.
* A tree that throws in StoreEntry: the field is released even by a caller that
  has not acquired it (1015). mAcquired is part of the descriptor that
  MakeHeaderPersistent writes (`ps_templatetable.h:88`).
* A sort by an array field throws after LockTable
  (`stdlib/base/base_tables.cpp:154`): the table stays locked.
* The check of a text never resets entryValidated (`ps_varstorage.cpp:298`; that
  of an array does, 246), so that only its first entry is validated (modelled); a record that two rows share is kept
  for the first and taken from the second; counts on disk are never corrected,
  so that a record counted too high is never freed.
* The tree of removed rows that a repair builds has one node: AllocateNode gives
  every node the same number (`ps_table.cpp:630`).
* TemporalContainer::Colapse asserts (`ps_container.cpp:622`) that a window with
  no file behind it has changed, which it has not when an earlier Colapse has
  just read it back from the file it then dropped. FileContainer::Colapse leaves an empty last unit
  when the new size is a multiple of a unit's (modelled). RowFieldArray calls
  Colapse with an offset and a count (`ps_arraystrategy.cpp:699`) where
  TemporalArray gives both ends (599).
* recieve_answer on a dropped connection leaves lastCmdRespReceived and the
  bytes of the request: a WValueEntry after it reads them as an answer. A frame
  whose size is not a multiple of the cipher's block disagrees with the
  server's. LAST_UPDATE_OFF shares its byte with what a list and a description
  keep. The frame FRAME_TYPE_TIMEOUT, which the client handles, is never sent.
  cmd_hello_server fills a static buffer from several sessions without a lock.

## 8. What is not modelled

* The compiler, the interpreter and the standard library but for the way it
  sorts a table: sequential translations and executions over data too large to
  enumerate. Utilities: pure functions, and input and output.
* Most commands, configuration and process start-up: one request, one answer.
  `Connector` has those that change the stack or keep something with the client.
* Authentication, ciphers, sums and cookies of a frame; tables and fields on the
  stack of a session, descriptions and the lists of procedures, which are kept
  and fetched as the list of globals is.
* Several listeners: they share nothing but the flags, and ServerPool has one.
* In VarStore the bytes of a record and their offsets, in TableSync the tree of
  reusable rows and the layout of rows, in BlockCache the tables' own files.
* Remark of TableSync asks again whether the row is marked when it tries again;
  the loop of MarkRowModification (2516-2525) does not, and marks what another
  call has marked meanwhile, which changes nothing.
* In StoreRepair the header of the table, with the count of rows (`file.count`),
  is written by FlushInternal only; CreateIndex and RemoveIndex write it too
  (`ps_templatetable.cpp:612`, 653) and are not among the calls of that module.
* In BTree the rows a scan is given: MatchRows with all of them, where GetRows
  drops those outside a range of rows (`ps_btree_fields.h:414`).
* The tree of reusable rows (TableRmNode): the algorithm of `BTree` over plain
  numbers. The cache of nodes (RetrieveNode, SaveNode) is a block cache with one
  node a block, and invisible as that one is.
* FileContainer::Fix, the checks of its constructor, and Flush; the creation,
  opening and descriptors of a table.
* Values: copy on write of shared records, and the strategies of texts and
  arrays; StoreRepair has the references a row takes and drops.
* In DbsManager several databases (they share only the manager's lock), the
  lookups of names and settings and DBSValidateDatabase, which only read, and
  writes of the list that fail without ending the process.

## 9. The plan

Order of the modules, the most important behaviour first: VarStore, BlockCache
(with ItemStore as its abstract specification), TableSync, DbsManager,
ServerPool, BTree (with KeySet), StoreRepair, FileContainer and TempContainer,
Connector: done. Then, each with its MC module and one run of small bounds:

1. `TableRows`: reusable rows, null bits, header and lifecycle of a table.
2. `RecordIO`: offsets to entries, against a plain byte sequence.
3. `Procedures`: how sessions share the code and the sync statements of a
   procedure (`interpreter/prima/pm_processor.cpp:2055`): the bit is given back
   without the lock it is taken with, and a recursion waits for itself.
4. `TableSync` over `BTree`, for trees that throw.

Theorems to come: that an operation of BTree ends in three steps for each level
(OperationEnds), and trees whose nulls are fewer than a node holds. The number
of runs is limited by what a reader can take in: where a question is settled,
section 6 keeps the answer and the run goes.
