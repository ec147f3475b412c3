----------------------------- MODULE DbsManager -----------------------------
(***************************************************************************)
(* The database manager (dbs/pastra/ps_dbsmgr.cpp) with one database: its  *)
(* file, which holds the list of its tables and the flag NOT_CLOSED, the   *)
(* files of the tables, the handler that the threads of one process share, *)
(* the counts of its users, and crashes of that process between any two    *)
(* writes.                                                                 *)
(*                                                                         *)
(* Two locks are held for whole calls: the manager's (dbsSync) and the     *)
(* handler's (mSync).  A call that writes more than one file, or one file  *)
(* in several writes, takes one step for each while it holds its lock; a   *)
(* lock is the record of the call that has it.  A call that the code       *)
(* refuses changes nothing and is not a step.  A table's files are one     *)
(* thing here: missing, up to date, or behind the table in memory; module  *)
(* TableSync models how they come to differ.                               *)
(***************************************************************************)
EXTENDS Naturals, FiniteSets

CONSTANTS
  Threads,   \* the threads that use the database
  Names,     \* the names of tables, in the order of the map mTables
  None,      \* no thread, no table
  MaxUses    \* bound on a table's count of users

ASSUME DbsManagerAssumption ==
  /\ IsFiniteSet(Threads)
  /\ Names \subseteq Nat /\ IsFiniteSet(Names)
  /\ None \notin Threads
  /\ None \notin Names
  /\ MaxUses \in Nat \ {0}

VARIABLES
  file,        \* the file of the database
  tableFiles,  \* the files of each table
  loaded,      \* the database is in the manager's mDatabases
  mRefCount,   \* users of the database, as counted by the manager
  mTables,     \* names of the handler's tables
  open,        \* the tables with an object (the pointer of TABLE_DATA)
  uses,        \* users of a table, as counted by the handler
  mNeedsSync,  \* something was modified since the last sync
  mCreatedTemporalTables,
  mSync,       \* the handler's lock and the call that has it
  dbsSync,     \* the manager's lock and the call that has it
  creating,    \* DBSCreateDatabase has created the file and not written it
  dbHandle,    \* the threads that hold the database
  held,        \* the tables each thread holds
  temporals,   \* the threads that hold a temporal table
  repair,      \* the DBSRepairDatabase under way
  cut,         \* a crash cut off a call that was changing the set of tables
  givenUp,     \* a repair was cut off, or ended without repairing all
  short        \* a repair was begun on a list that was cut off

handles == <<dbHandle, held, temporals>>
handler == <<mTables, open, uses, mNeedsSync, mCreatedTemporalTables>>
manager == <<loaded, mRefCount>>
ghosts == <<cut, givenUp, short>>
vars == <<file, tableFiles, manager, handler, mSync, dbsSync, creating,
          handles, repair, ghosts>>

(***************************************************************************)
(* The file: none, "empty" after it is created or truncated, "header" once *)
(* the header with the count of tables is there.  The names follow one by  *)
(* one.                                                                    *)
(***************************************************************************)
FileIs(form, notClosed, toRepair, count, names) ==
  [form |-> form, notClosed |-> notClosed, toRepair |-> toRepair,
   count |-> count, names |-> names]

NoFile    == FileIs("none", FALSE, FALSE, 0, {})
EmptyFile == FileIs("empty", FALSE, FALSE, 0, {})
NewFile   == FileIs("header", FALSE, FALSE, 0, {})

\* The file with other flags.
Flagged(notClosed, toRepair) ==
  FileIs(file.form, notClosed, toRepair, file.count, file.names)

Files == [form : {"none", "empty", "header"}, notClosed : BOOLEAN,
          toRepair : BOOLEAN, count : Nat, names : SUBSET Names]

\* What DbsHandler's constructor accepts.  The signature of an empty file is
\* wrong.
Accepts(f) == f.form = "header" /\ (f.notClosed => f.toRepair)

Whole(f) == Cardinality(f.names) = f.count

\* A lock, with the call that has it: its thread, where it is, the table it
\* adds, and the tables left to its loop.
Taken(by, step, table, left) ==
  [by |-> by, step |-> step, table |-> table, left |-> left]

Free == Taken(None, "free", None, {})

IsFree(lock) == lock.by = None

Locks(steps) == [by : Threads \cup {None}, step : steps \cup {"free"},
                 table : Names \cup {None}, left : SUBSET Names]

Init ==
  /\ file = NoFile
  /\ tableFiles = [n \in Names |-> "none"]
  /\ loaded = FALSE
  /\ mRefCount = 0
  /\ mTables = {}
  /\ open = {}
  /\ uses = [n \in Names |-> 0]
  /\ mNeedsSync = FALSE
  /\ mCreatedTemporalTables = 0
  /\ mSync = Free
  /\ dbsSync = Free
  /\ creating = FALSE
  /\ dbHandle = {}
  /\ held = [t \in Threads |-> {}]
  /\ temporals = {}
  /\ repair = Free
  /\ cut = FALSE
  /\ givenUp = FALSE
  /\ short = FALSE

\* The tool that repairs has one thread.
Idle(t) == mSync.by # t /\ dbsSync.by # t /\ IsFree(repair)

\* A thread that may call the handler, and finds its lock free.
Enters(t) == Idle(t) /\ t \in dbHandle /\ IsFree(mSync)

\* The map is walked in the order of the names.
IsFirst(n, S) == n \in S /\ \A m \in S : n <= m

(***************************************************************************)
(* The manager: create, retrieve, release, remove.                         *)
(***************************************************************************)
DBSCreateDatabase ==
  /\ file.form = "none"
  /\ file' = EmptyFile
  /\ creating' = TRUE
  /\ UNCHANGED <<tableFiles, manager, handler, mSync, dbsSync, handles,
                 repair, ghosts>>

CreateHeader ==
  /\ creating
  /\ file' = NewFile
  /\ creating' = FALSE
  /\ UNCHANGED <<tableFiles, manager, handler, mSync, dbsSync, handles,
                 repair, ghosts>>

\* The constructor of DbsHandler reads as many names as the header counts.
\* Past the end of a list that was cut off it reads whatever follows its
\* buffer, names it knows already included.
NamesRead ==
  {file.names \cup junk : junk \in {J \in SUBSET Names :
     Cardinality(J) + Cardinality(file.names) <= file.count}}

\* The flags are written before the names are read: a process that ends on
\* such a reading has cleared PS_FLAG_TO_REPAIR (Crash may follow).
LoadHandler ==
  /\ Accepts(file)
  /\ file' = Flagged(file.notClosed, FALSE)
  /\ loaded' = TRUE
  /\ mTables' \in NamesRead
  /\ open' = {}
  /\ uses' = [n \in Names |-> 0]
  /\ mNeedsSync' = FALSE
  /\ mCreatedTemporalTables' = 0

FindOrLoad ==
  \/ loaded /\ UNCHANGED <<loaded, handler, file>>
  \/ ~loaded /\ LoadHandler

DBSRetrieveDatabase(t) ==
  /\ Idle(t) /\ t \notin dbHandle
  /\ IsFree(dbsSync)
  /\ FindOrLoad
  /\ mRefCount' = mRefCount + 1
  /\ dbHandle' = dbHandle \cup {t}
  /\ UNCHANGED <<tableFiles, mSync, dbsSync, creating, held, temporals, repair,
                 ghosts>>

\* Read without the handler's lock.
HasUnreleasedTables == open # {} \/ mCreatedTemporalTables > 0

\* The last release closes the handler; its file is marked closed after that.
DBSReleaseDatabase(t) ==
  /\ Idle(t) /\ t \in dbHandle
  /\ IsFree(dbsSync)
  /\ ~HasUnreleasedTables
  /\ mRefCount' = mRefCount - 1
  /\ dbHandle' = dbHandle \ {t}
  /\ \/ /\ mRefCount # 1
        /\ UNCHANGED <<loaded, mTables, dbsSync>>
     \/ /\ mRefCount = 1
        /\ loaded' = FALSE
        /\ mTables' = {}
        /\ dbsSync' = Taken(t, "clear", None, {})
  /\ UNCHANGED <<file, tableFiles, open, uses, mNeedsSync,
                 mCreatedTemporalTables, mSync, creating, held, temporals,
                 repair, ghosts>>

ClearFlags(t) ==
  /\ dbsSync.by = t /\ dbsSync.step = "clear"
  /\ file' = Flagged(FALSE, FALSE)
  /\ dbsSync' = Free
  /\ UNCHANGED <<tableFiles, manager, handler, mSync, creating, handles,
                 repair, ghosts>>

\* Mutant: the files of the tables are left.
DBSRemoveDatabaseOnly(t) ==
  /\ Idle(t)
  /\ IsFree(dbsSync)
  /\ mRefCount = 0
  /\ FindOrLoad
  /\ dbsSync' = Taken(t, "tables", None, {})
  /\ UNCHANGED <<tableFiles, mRefCount, mSync, creating, handles, repair,
                 ghosts>>

DBSRemoveDatabase(t) ==
  /\ Idle(t)
  /\ IsFree(dbsSync)
  /\ mRefCount = 0
  /\ FindOrLoad
  /\ dbsSync' = Taken(t, "tables", None, mTables')
  /\ UNCHANGED <<tableFiles, mRefCount, mSync, creating, handles, repair,
                 ghosts>>

\* RemoveFromStorage opens each table and removes its files.  A table that
\* cannot be opened ends the call and leaves the handler where it is.
RemoveTable(t, n) ==
  /\ dbsSync.by = t /\ dbsSync.step = "tables" /\ IsFirst(n, dbsSync.left)
  /\ dbsSync' = IF tableFiles[n] = "none"
                THEN Free
                ELSE Taken(t, "tables", None, dbsSync.left \ {n})
  /\ tableFiles' = [tableFiles EXCEPT ![n] = "none"]
  /\ UNCHANGED <<file, manager, handler, mSync, creating, handles, repair,
                 ghosts>>

RemoveFile(t) ==
  /\ dbsSync.by = t /\ dbsSync.step = "tables" /\ dbsSync.left = {}
  /\ loaded' = FALSE
  /\ mTables' = {}
  /\ file' = NoFile
  /\ dbsSync' = Free
  /\ UNCHANGED <<tableFiles, mRefCount, open, uses, mNeedsSync,
                 mCreatedTemporalTables, mSync, creating, handles,
                 repair, ghosts>>

(***************************************************************************)
(* The handler: tables in use.                                             *)
(***************************************************************************)
\* Mutant: only the user that opens a table is counted.
RetrieveUncounted(t, n) ==
  /\ Enters(t) /\ n \in mTables /\ n \notin held[t]
  /\ \/ n \in open /\ UNCHANGED <<open, uses>>
     \/ /\ n \notin open
        /\ tableFiles[n] # "none"
        /\ open' = open \cup {n}
        /\ uses' = [uses EXCEPT ![n] = 1]
  /\ held' = [held EXCEPT ![t] = @ \cup {n}]
  /\ UNCHANGED <<file, tableFiles, manager, mTables, mNeedsSync,
                 mCreatedTemporalTables, mSync, dbsSync, creating, dbHandle,
                 temporals, repair, ghosts>>

\* The second user counts twice (++count += 1).
RetrievePersistentTable(t, n) ==
  /\ Enters(t) /\ n \in mTables /\ n \notin held[t]
  /\ \/ /\ n \notin open
        /\ tableFiles[n] # "none"
        /\ open' = open \cup {n}
        /\ uses' = [uses EXCEPT ![n] = 1]
     \/ /\ n \in open
        /\ uses[n] + 2 <= MaxUses
        /\ uses' = [uses EXCEPT ![n] = @ + 2]
        /\ UNCHANGED open
  /\ held' = [held EXCEPT ![t] = @ \cup {n}]
  /\ UNCHANGED <<file, tableFiles, manager, mTables, mNeedsSync,
                 mCreatedTemporalTables, mSync, dbsSync, creating, dbHandle,
                 temporals, repair, ghosts>>

\* What closing or flushing a table leaves in its files.
Flushed(n) == [tableFiles EXCEPT ![n] = "current"]

ReleaseTable(t, n) ==
  /\ Enters(t) /\ n \in held[t]
  /\ uses' = [uses EXCEPT ![n] = @ - 1]
  /\ \/ uses[n] # 1 /\ UNCHANGED <<open, tableFiles>>
     \/ uses[n] = 1 /\ open' = open \ {n} /\ tableFiles' = Flushed(n)
  /\ held' = [held EXCEPT ![t] = @ \ {n}]
  /\ UNCHANGED <<file, manager, mTables, mNeedsSync, mCreatedTemporalTables,
                 mSync, dbsSync, creating, dbHandle, temporals,
                 repair, ghosts>>

\* CreateTempTable and Spawn.
CreateTempTable(t) ==
  /\ Enters(t) /\ t \notin temporals
  /\ mCreatedTemporalTables' = mCreatedTemporalTables + 1
  /\ temporals' = temporals \cup {t}
  /\ UNCHANGED <<file, tableFiles, manager, mTables, open, uses, mNeedsSync,
                 mSync, dbsSync, creating, dbHandle, held, repair, ghosts>>

ReleaseTemporal(t) ==
  /\ Enters(t) /\ t \in temporals
  /\ mCreatedTemporalTables' = mCreatedTemporalTables - 1
  /\ temporals' = temporals \ {t}
  /\ UNCHANGED <<file, tableFiles, manager, mTables, open, uses, mNeedsSync,
                 mSync, dbsSync, creating, dbHandle, held, repair, ghosts>>

(***************************************************************************)
(* The handler: the set of tables and its list in the file.                *)
(***************************************************************************)
\* The table's files are created; a name whose files exist is refused.
AddTable(t, n) ==
  /\ Enters(t) /\ n \notin mTables /\ tableFiles[n] = "none"
  /\ tableFiles' = Flushed(n)
  /\ mTables' = mTables \cup {n}
  /\ open' = open \cup {n}
  /\ uses' = [uses EXCEPT ![n] = 1]
  /\ mSync' = Taken(t, "truncate", n, {})
  /\ UNCHANGED <<file, manager, mNeedsSync, mCreatedTemporalTables, dbsSync,
                 creating, handles, repair, ghosts>>

\* Mutant: the table's object is not deleted with it.
DeleteTableStaysOpen(t, n) ==
  /\ Enters(t) /\ n \in mTables
  /\ n \in open /\ uses[n] <= 1
  /\ tableFiles' = [tableFiles EXCEPT ![n] = "none"]
  /\ mTables' = mTables \ {n}
  /\ mSync' = Taken(t, "truncate", None, {})
  /\ UNCHANGED <<file, manager, open, uses, mNeedsSync,
                 mCreatedTemporalTables, dbsSync, creating, handles, repair,
                 ghosts>>

\* A table that is closed is opened first.  A count of one is not refused.
DeleteTable(t, n) ==
  /\ Enters(t) /\ n \in mTables
  /\ \/ n \in open /\ uses[n] <= 1
     \/ n \notin open /\ tableFiles[n] # "none"
  /\ tableFiles' = [tableFiles EXCEPT ![n] = "none"]
  /\ mTables' = mTables \ {n}
  /\ open' = open \ {n}
  /\ uses' = [uses EXCEPT ![n] = 0]
  /\ mSync' = Taken(t, "truncate", None, {})
  /\ UNCHANGED <<file, manager, mNeedsSync, mCreatedTemporalTables, dbsSync,
                 creating, handles, repair, ghosts>>

\* SyncToFile, one step for each write.
Truncate(t) ==
  /\ mSync.by = t /\ mSync.step = "truncate"
  /\ mNeedsSync' = TRUE
  /\ file' = EmptyFile
  /\ mSync' = Taken(t, "header", mSync.table, {})
  /\ UNCHANGED <<tableFiles, manager, mTables, open, uses,
                 mCreatedTemporalTables, dbsSync, creating, handles,
                 repair, ghosts>>

\* Mutant: the new header says that the database is closed.
HeaderClosed(names) == FileIs("header", FALSE, FALSE, Cardinality(names), {})

Header(names) == FileIs("header", TRUE, FALSE, Cardinality(names), {})

WriteHeader(t) ==
  /\ mSync.by = t /\ mSync.step = "header"
  /\ file' = Header(mTables)
  /\ mSync' = Taken(t, "names", mSync.table, mTables)
  /\ UNCHANGED <<tableFiles, manager, handler, dbsSync, creating, handles,
                 repair, ghosts>>

WriteName(t, n) ==
  /\ mSync.by = t /\ mSync.step = "names" /\ IsFirst(n, mSync.left)
  /\ file' = FileIs("header", TRUE, FALSE, file.count, file.names \cup {n})
  /\ mSync' = Taken(t, "names", mSync.table, mSync.left \ {n})
  /\ UNCHANGED <<tableFiles, manager, handler, dbsSync, creating, handles,
                 repair, ghosts>>

\* AddTable closes the table it has made.
ListWritten(t) ==
  /\ mSync.by = t /\ mSync.step = "names" /\ mSync.left = {}
  /\ open' = open \ {mSync.table}
  /\ uses' = [n \in Names |-> IF n = mSync.table THEN 0 ELSE uses[n]]
  /\ mSync' = Free
  /\ UNCHANGED <<file, tableFiles, manager, mTables, mNeedsSync,
                 mCreatedTemporalTables, dbsSync, creating, handles,
                 repair, ghosts>>

(***************************************************************************)
(* The handler: modifications and syncs.                                   *)
(***************************************************************************)
\* A table's first modification since its flush tells the handler.
NotifyDatabaseUpdate ==
  /\ mNeedsSync' = TRUE
  /\ file' = IF mNeedsSync THEN file ELSE Flagged(TRUE, file.toRepair)

ModifyTable(t, n) ==
  /\ Enters(t) /\ n \in held[t] /\ tableFiles[n] = "current"
  /\ NotifyDatabaseUpdate
  /\ tableFiles' = [tableFiles EXCEPT ![n] = "behind"]
  /\ UNCHANGED <<manager, mTables, open, uses, mCreatedTemporalTables, mSync,
                 dbsSync, creating, handles, repair, ghosts>>

SyncTableContent(t, n) ==
  /\ Enters(t) /\ n \in mTables \cap open
  /\ tableFiles' = Flushed(n)
  /\ UNCHANGED <<file, manager, handler, mSync, dbsSync, creating, handles,
                 repair, ghosts>>

SyncAllTablesContent(t) ==
  /\ Enters(t) /\ mNeedsSync
  /\ mSync' = Taken(t, "flush", None, mTables \cap open)
  /\ UNCHANGED <<file, tableFiles, manager, handler, dbsSync, creating,
                 handles, repair, ghosts>>

FlushTable(t, n) ==
  /\ mSync.by = t /\ mSync.step = "flush" /\ IsFirst(n, mSync.left)
  /\ tableFiles' = Flushed(n)
  /\ mSync' = Taken(t, "flush", None, mSync.left \ {n})
  /\ UNCHANGED <<file, manager, handler, dbsSync, creating, handles, repair,
                 ghosts>>

\* Mutant: the handler does not forget that it needs a sync.
MarkClosedOnly(t) ==
  /\ mSync.by = t /\ mSync.step = "flush" /\ mSync.left = {}
  /\ file' = Flagged(FALSE, file.toRepair)
  /\ mSync' = Free
  /\ UNCHANGED <<tableFiles, manager, handler, dbsSync, creating, handles,
                 repair, ghosts>>

MarkClosed(t) ==
  /\ mSync.by = t /\ mSync.step = "flush" /\ mSync.left = {}
  /\ mNeedsSync' = FALSE
  /\ file' = Flagged(FALSE, file.toRepair)
  /\ mSync' = Free
  /\ UNCHANGED <<tableFiles, manager, mTables, open, uses,
                 mCreatedTemporalTables, dbsSync, creating, handles,
                 repair, ghosts>>

(***************************************************************************)
(* DBSRepairDatabase.  The tool calls it before it opens the database.     *)
(***************************************************************************)
MarkToRepair(t) ==
  /\ Idle(t) /\ ~loaded /\ IsFree(dbsSync)
  /\ file.form = "header"
  /\ file' = Flagged(file.notClosed, TRUE)
  /\ repair' = Taken(t, "open", None, {})
  /\ short' = (short \/ ~Whole(file))
  /\ UNCHANGED <<tableFiles, manager, handler, mSync, dbsSync, creating,
                 handles, cut, givenUp>>

\* DBSRetrieveDatabase.
OpenToRepair(t) ==
  /\ repair.by = t /\ repair.step = "open"
  /\ LoadHandler
  /\ mRefCount' = 1
  /\ repair' = Taken(t, "tables", None, file.names)
  /\ UNCHANGED <<tableFiles, mSync, dbsSync, creating, handles, ghosts>>

\* DBSReleaseDatabase, its lock taken with the last step of the repair.
ReleaseRepaired(t) ==
  /\ mRefCount' = 0
  /\ loaded' = FALSE
  /\ mTables' = {}
  /\ dbsSync' = Taken(t, "clear", None, {})
  /\ repair' = Free
  /\ UNCHANGED <<file, open, uses, mNeedsSync, mCreatedTemporalTables, mSync,
                 creating, handles, cut, short>>

\* RepairTable puts a table in order; or the user refuses a change, and the
\* repair ends with the database still retrieved; or it throws, as it does
\* when the files are missing, and the database is released all the same.
RepairTable(t, n) ==
  /\ repair.by = t /\ repair.step = "tables" /\ IsFirst(n, repair.left)
  /\ \/ /\ tableFiles[n] # "none"
        /\ tableFiles' = Flushed(n)
        /\ repair' = Taken(t, "tables", None, repair.left \ {n})
        /\ UNCHANGED <<file, manager, handler, mSync, dbsSync, creating,
                       handles, ghosts>>
     \/ /\ tableFiles[n] # "none"
        /\ repair' = Free
        /\ givenUp' = TRUE
        /\ UNCHANGED <<file, tableFiles, manager, handler, mSync, dbsSync,
                       creating, handles, cut, short>>
     \/ /\ ReleaseRepaired(t)
        /\ givenUp' = TRUE
        /\ UNCHANGED tableFiles

\* The release clears both flags, and then the user is asked whether the count
\* of a short list should be what was found.  The count is put in a buffer
\* that is not written: the file is the same after a yes, with which the
\* repair succeeds, and a no, with which it does not.
AllRepaired(t) ==
  /\ repair.by = t /\ repair.step = "tables" /\ repair.left = {}
  /\ ReleaseRepaired(t)
  /\ \/ UNCHANGED givenUp
     \/ ~Whole(file) /\ givenUp' = TRUE
  /\ UNCHANGED tableFiles

(***************************************************************************)
(* The process ends, by a crash or by DBSShoutdown, which drops the        *)
(* manager and writes nothing.  Another may start.                         *)
(***************************************************************************)
Crash ==
  /\ loaded \/ creating \/ ~IsFree(dbsSync) \/ ~IsFree(repair)
  /\ cut' = (cut \/ mSync.step \in {"truncate", "header", "names"}
                 \/ dbsSync.step = "tables")
  /\ givenUp' = (givenUp \/ ~IsFree(repair))
  /\ loaded' = FALSE
  /\ mRefCount' = 0
  /\ mTables' = {}
  /\ open' = {}
  /\ uses' = [n \in Names |-> 0]
  /\ mNeedsSync' = FALSE
  /\ mCreatedTemporalTables' = 0
  /\ mSync' = Free
  /\ dbsSync' = Free
  /\ creating' = FALSE
  /\ repair' = Free
  /\ dbHandle' = {}
  /\ held' = [t \in Threads |-> {}]
  /\ temporals' = {}
  /\ UNCHANGED <<file, tableFiles, short>>

\* DeleteTable does not ask whether its table is held.  That is left to those
\* that call it, tools that delete tables of a database they have for
\* themselves (wcmd_tabcomds.cpp:654, alter_table.cpp).
Unheld(n) == \A t \in Threads : n \notin held[t]

TableCall(t, n) ==
  \/ RetrievePersistentTable(t, n) \/ ReleaseTable(t, n)
  \/ AddTable(t, n) \/ WriteName(t, n)
  \/ Unheld(n) /\ DeleteTable(t, n)
  \/ ModifyTable(t, n) \/ SyncTableContent(t, n) \/ FlushTable(t, n)
  \/ RemoveTable(t, n) \/ RepairTable(t, n)

Call(t) ==
  \/ DBSRetrieveDatabase(t) \/ DBSReleaseDatabase(t) \/ ClearFlags(t)
  \/ DBSRemoveDatabase(t) \/ RemoveFile(t)
  \/ CreateTempTable(t) \/ ReleaseTemporal(t)
  \/ Truncate(t) \/ WriteHeader(t) \/ ListWritten(t)
  \/ SyncAllTablesContent(t) \/ MarkClosed(t)
  \/ MarkToRepair(t) \/ OpenToRepair(t) \/ AllRepaired(t)
  \/ \E n \in Names : TableCall(t, n)

Next ==
  \/ DBSCreateDatabase
  \/ CreateHeader
  \/ Crash
  \/ \E t \in Threads : Call(t)

Spec == Init /\ [][Next]_vars

(***************************************************************************)
(* Properties                                                              *)
(***************************************************************************)
\* The variables have their types.
TypeOK ==
  /\ file \in Files
  /\ tableFiles \in [Names -> {"none", "current", "behind"}]
  /\ loaded \in BOOLEAN
  /\ mRefCount \in Nat
  /\ mTables \subseteq Names
  /\ open \subseteq mTables
  /\ uses \in [Names -> 0..MaxUses]
  /\ mNeedsSync \in BOOLEAN
  /\ mCreatedTemporalTables \in Nat
  /\ mSync \in Locks({"truncate", "header", "names", "flush"})
  /\ dbsSync \in Locks({"clear", "tables"})
  /\ creating \in BOOLEAN
  /\ dbHandle \subseteq Threads
  /\ held \in [Threads -> SUBSET Names]
  /\ temporals \subseteq Threads
  /\ repair \in Locks({"open", "tables"})
  /\ cut \in BOOLEAN
  /\ givenUp \in BOOLEAN
  /\ short \in BOOLEAN

\* A list of tables cut off while it was written is not accepted until a
\* repair is tried on it: a file that DbsHandler's constructor takes has all
\* the names its header counts, and they are the tables of the handler, but
\* for the change whose writing has not begun.  The flags are what tells,
\* after any crash and through repairs of whole lists, failed ones included
\* (SyncToFile, DBSReleaseDatabase, DBSRepairDatabase, the constructor's check
\* of NOT_CLOSED).
CutListRefused ==
  Accepts(file) /\ ~short =>
    /\ Whole(file)
    /\ loaded /\ mSync.step # "truncate" => file.names = mTables

\* A repair that says it has succeeded leaves a list with as many names as its
\* header counts ("The database's tables count is not correct. It should be
\* set to '%u'.", ps_dbsmgr.cpp:752).  A list that was cut off keeps the wrong
\* count, and is accepted from then on.
RepairedListIsWhole ==
  Accepts(file) /\ IsFree(repair) /\ ~givenUp => Whole(file)

\* A table whose files are behind what was stored in it is found out by the
\* next process: its database is not accepted.  The flag is set before the
\* first store and cleared after the last flush, by the sync, by the last
\* release, and by a repair once all its tables are in order
\* (NotifyDatabaseUpdate, SyncAllTablesContent, DBSReleaseDatabase,
\* DBSRepairDatabase).  Not so from a repair on that does not end well, or
\* that finds a list cut off: it clears the flags, and has not put in order
\* the tables it did not get to, or was not told of.
ModifiedIsNoticed ==
  Accepts(file) /\ IsFree(repair) /\ ~givenUp /\ ~short =>
    \A n \in Names : tableFiles[n] # "behind"

Holders(n) == {t \in Threads : n \in held[t]}

\* What a thread holds is there: its database is not closed under it, and the
\* tables it holds stay open, however many threads share them and release
\* them (RetrievePersistentTable, ReleaseTable, DBSReleaseDatabase).
HandlesValid ==
  /\ dbHandle # {} => loaded
  /\ \A n \in Names :
       Holders(n) # {} => n \in open /\ uses[n] >= Cardinality(Holders(n))

Listed == IF loaded THEN mTables ELSE file.names

\* Between calls that change the set of tables, unless a crash cut one off,
\* the tables listed are those whose files exist: each can be opened, and any
\* other name can be added (AddTable, DeleteTable, DBSRemoveDatabase).
FilesListed ==
  ~cut /\ mSync.step \in {"free", "flush"} /\ dbsSync.step # "tables" =>
    \A n \in Names : n \in Listed <=> tableFiles[n] # "none"

\* When everything a process retrieved is released, the database can be
\* released (test_dbs_recovery.cpp releases it then, and treats a refusal as
\* an error).
NoTableLeftOpen ==
  IsFree(mSync) /\ (\A n \in Names : Unheld(n)) /\ temporals = {} =>
    ~HasUnreleasedTables
=============================================================================
