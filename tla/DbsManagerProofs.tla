-------------------------- MODULE DbsManagerProofs --------------------------
(***************************************************************************)
(* Proofs about the database manager: for any number of threads and tables *)
(* and with crashes anywhere, an accepted file is true to its tables, what *)
(* is held stays there, and the list matches the files.                    *)
(***************************************************************************)
EXTENDS DbsManager, FiniteSetTheorems, TLAPS

USE DEF handles, handler, manager, ghosts

-----------------------------------------------------------------------------
(* The inductive invariant, in parts. *)

\* Which call may be under way with which.
CallsInv ==
  /\ mSync.by = None => mSync.step = "free"
  /\ mSync.by # None => mSync.by \in dbHandle /\ mSync.step # "free"
  /\ mSync.table \in mTables \cup {None}
  /\ mSync.step \in {"free", "flush"} => mSync.table = None
  /\ dbsSync.by = None <=> dbsSync.step = "free"
  /\ dbsSync.step = "clear" => ~loaded
  /\ dbsSync.step = "tables" =>
       loaded /\ mRefCount = 0 /\ dbsSync.left \subseteq mTables
  /\ repair.by = None <=> repair.step = "free"
  /\ repair.step # "free" =>
       dbHandle = {} /\ dbsSync.step = "free" /\ file.form = "header"
  /\ repair.step = "open" => ~loaded
  /\ repair.step = "tables" => loaded /\ repair.left \subseteq mTables
  /\ creating => file = EmptyFile /\ ~loaded /\ dbsSync.step = "free"
  /\ file.form = "none" => file = NoFile

\* The users of the database and of the tables are counted, at least.
TableCounted(n) ==
  /\ Holders(n) # {} => n \in open
  /\ n \in open => uses[n] >= 1
  /\ uses[n] >= Cardinality(Holders(n))

UsersInv ==
  /\ dbHandle # {} => loaded
  /\ Cardinality(dbHandle) <= mRefCount
  /\ open # {} => dbHandle # {}
  /\ ~loaded => mTables = {}
  /\ mCreatedTemporalTables = Cardinality(temporals)
  /\ temporals # {} => dbHandle # {}
  /\ \A n \in Names : TableCounted(n)
  /\ mSync.step \in {"truncate", "header", "names"} /\ mSync.table # None =>
       Holders(mSync.table) = {}

\* What the file says of the list while it is written, and when it is not.
ListInv ==
  /\ loaded /\ mSync.step \in {"free", "flush"} =>
       file.form = "header" /\ (~short => Whole(file) /\ file.names = mTables)
  /\ mSync.step = "truncate" =>
       /\ file.form = "header"
       /\ ~short => Whole(file) /\ mTables \ {mSync.table} \subseteq file.names
  /\ mSync.step = "header" => file = EmptyFile
  /\ mSync.step = "names" =>
       /\ file.form = "header" /\ file.notClosed /\ ~file.toRepair
       /\ file.count = Cardinality(mTables)
       /\ mSync.left \subseteq mTables /\ file.names = mTables \ mSync.left
  /\ dbsSync.step = "clear" => file.form = "header" /\ (~short => Whole(file))
  /\ file.form = "header" /\ ~short /\ (~file.notClosed \/ file.toRepair) => Whole(file)
  /\ file.toRepair => givenUp \/ repair.step = "open"
  /\ repair.step = "open" => file.toRepair

\* What the files and the calls under way know of a table that is behind.
Behind(n) == tableFiles[n] = "behind"

Known(n) ==
  /\ file.form # "none" /\ ~creating
  /\ file.form = "header" => file.notClosed
  /\ file.form = "header" /\ Whole(file) => n \in file.names
  /\ loaded /\ repair.step = "free" => n \in open
  /\ mSync.step = "flush" => n \in mSync.left
  /\ repair.step = "tables" => n \in repair.left
  /\ dbsSync.step = "free"

DataInv ==
  /\ mNeedsSync /\ loaded /\ file.form = "header" => file.notClosed
  /\ mSync.step \in {"truncate", "header", "names"} /\ mSync.table # None =>
       tableFiles[mSync.table] = "current"
  /\ ~givenUp /\ ~short => \A n \in Names : Behind(n) => Known(n)

\* The files of the tables are those of the list.
FilesInv ==
  /\ mSync.step = "flush" => mSync.left \subseteq mTables
  /\ ~cut /\ dbsSync.step # "tables" =>
       \A n \in Names : n \in Listed <=> tableFiles[n] # "none"
  /\ ~cut /\ dbsSync.step = "tables" =>
       \A n \in Names : n \in dbsSync.left <=> tableFiles[n] # "none"

\* Only a crash leaves a list that is cut off.
CutInv ==
  ~cut => ~short /\ (file.form = "header" /\ mSync.step # "names" => Whole(file))

IInv == TypeOK /\ CallsInv /\ UsersInv /\ ListInv /\ DataInv /\ FilesInv /\ CutInv

-----------------------------------------------------------------------------
(* Counting. *)

\* A set of names or of threads is finite, and changes its size by one with
\* an element.
LEMMA CountNames ==
  ASSUME NEW S \in SUBSET Names
  PROVE  /\ IsFiniteSet(S) /\ Cardinality(S) \in Nat
         /\ Cardinality(S) = 0 <=> S = {}
         /\ \A R \in SUBSET S : Cardinality(R) = Cardinality(S) => R = S
<1>1. IsFiniteSet(S)
  BY FS_Subset, DbsManagerAssumption
<1> QED
  BY <1>1, FS_CardinalityType, FS_EmptySet, FS_Subset

LEMMA CountThreads ==
  ASSUME NEW S \in SUBSET Threads
  PROVE  /\ Cardinality(S) \in Nat
         /\ Cardinality(S) = 0 <=> S = {}
         /\ \A t \in Threads : t \notin S =>
              Cardinality(S \cup {t}) = Cardinality(S) + 1
         /\ \A t \in S : /\ Cardinality(S \ {t}) = Cardinality(S) - 1
                         /\ Cardinality(S) = 1 => S = {t}
<1>1. IsFiniteSet(S) /\ Cardinality(S) \in Nat /\ (Cardinality(S) = 0 <=> S = {})
  BY FS_Subset, FS_CardinalityType, FS_EmptySet, DbsManagerAssumption
<1>2. \A t : t \notin S => Cardinality(S \cup {t}) = Cardinality(S) + 1
  BY <1>1, FS_AddElement
<1>3. \A t \in S : Cardinality(S \ {t}) = Cardinality(S) - 1
  BY <1>1, FS_RemoveElement
<1>4. ASSUME NEW t \in S, Cardinality(S) = 1 PROVE S = {t}
  <2>1. IsFiniteSet(S \ {t}) /\ Cardinality(S \ {t}) = 0
    BY <1>1, <1>3, <1>4, FS_RemoveElement
  <2> QED
    BY <2>1, FS_EmptySet
<1> QED
  BY <1>1, <1>2, <1>3, <1>4

\* What the counts say of the users: an uncounted database has none, a last
\* one is alone, and so for tables.
UsersFacts ==
  /\ ~loaded \/ mRefCount = 0 => dbHandle = {}
  /\ dbHandle = {} => open = {} /\ temporals = {} /\ mCreatedTemporalTables = 0
  /\ \A t \in dbHandle : mRefCount # 0 /\ (mRefCount = 1 => dbHandle = {t})
  /\ mCreatedTemporalTables = 0 => temporals = {}
  /\ \A t \in temporals : mCreatedTemporalTables # 0
  /\ \A t \in Threads : \A n \in held[t] :
       n \in open /\ uses[n] # 0 /\ (uses[n] = 1 => Holders(n) = {t})

LEMMA UsersCounted == TypeOK /\ UsersInv => UsersFacts
<1> SUFFICES ASSUME TypeOK, UsersInv PROVE UsersFacts
  OBVIOUS
<1>1. ASSUME NEW t \in Threads, NEW n \in held[t]
      PROVE  n \in open /\ uses[n] # 0 /\ (uses[n] = 1 => Holders(n) = {t})
  <2>1. n \in Names /\ Holders(n) \in SUBSET Threads /\ t \in Holders(n)
    BY <1>1 DEF TypeOK, Holders
  <2>2. Cardinality(Holders(n)) \in Nat /\ Cardinality(Holders(n)) # 0
        /\ (Cardinality(Holders(n)) = 1 => Holders(n) = {t})
    BY <2>1, CountThreads
  <2>3. uses[n] \in Nat
    BY <2>1, DbsManagerAssumption DEF TypeOK
  <2> QED
    BY <2>1, <2>2, <2>3 DEF UsersInv, TableCounted
<1>2. /\ Cardinality(dbHandle) \in Nat /\ (Cardinality(dbHandle) = 0 <=> dbHandle = {})
      /\ \A t \in dbHandle : Cardinality(dbHandle) = 1 => dbHandle = {t}
  BY CountThreads DEF TypeOK
<1>3. ASSUME NEW t \in dbHandle
      PROVE  mRefCount # 0 /\ (mRefCount = 1 => dbHandle = {t})
  BY <1>2 DEF UsersInv, TypeOK
<1>4. mRefCount = 0 => dbHandle = {}
  BY <1>2 DEF UsersInv, TypeOK
<1>5. mCreatedTemporalTables = 0 <=> temporals = {}
  BY CountThreads DEF TypeOK, UsersInv
<1> QED
  BY <1>1, <1>3, <1>4, <1>5 DEF UsersInv, UsersFacts

-----------------------------------------------------------------------------
(* Every step keeps the types. *)

LEMMA FileFields ==
  ASSUME file \in Files
  PROVE  /\ file.form \in {"none", "empty", "header"}
         /\ file.notClosed \in BOOLEAN
         /\ file.toRepair \in BOOLEAN
         /\ file.count \in Nat /\ file.names \in SUBSET Names
  BY DEF Files

LEMMA FileTyped ==
  ASSUME NEW form \in {"none", "empty", "header"}, NEW notClosed \in BOOLEAN,
         NEW toRepair \in BOOLEAN, NEW count \in Nat, NEW names \in SUBSET Names
  PROVE  FileIs(form, notClosed, toRepair, count, names) \in Files
  BY DEF Files, FileIs

LEMMA FlaggedTyped ==
  ASSUME file \in Files, NEW notClosed \in BOOLEAN, NEW toRepair \in BOOLEAN
  PROVE  Flagged(notClosed, toRepair) \in Files
  BY FileFields, FileTyped DEF Flagged

LEMMA TakenTyped ==
  ASSUME NEW steps, NEW step \in steps \cup {"free"},
         NEW by \in Threads \cup {None}, NEW table \in Names \cup {None},
         NEW left \in SUBSET Names
  PROVE  Taken(by, step, table, left) \in Locks(steps)
  BY DEF Taken, Locks

LEMMA FreeTyped == ASSUME NEW steps PROVE Free \in Locks(steps)
  BY TakenTyped DEF Free

LEMMA LockFields ==
  ASSUME NEW steps, NEW lock \in Locks(steps)
  PROVE  /\ lock.by \in Threads \cup {None} /\ lock.step \in steps \cup {"free"}
         /\ lock.table \in Names \cup {None} /\ lock.left \in SUBSET Names
  BY DEF Locks

\* The constructor reads all names there are, and no other of a whole list.
LEMMA LoadReads ==
  ASSUME file \in Files, LoadHandler
  PROVE  /\ mTables' \in SUBSET Names /\ file.names \subseteq mTables'
         /\ Whole(file) => mTables' = file.names
<1>1. PICK junk \in SUBSET Names :
        /\ mTables' = file.names \cup junk
        /\ Cardinality(junk) + Cardinality(file.names) <= file.count
  BY DEF LoadHandler, NamesRead
<1>2. /\ Cardinality(junk) \in Nat /\ (Cardinality(junk) = 0 <=> junk = {})
      /\ Cardinality(file.names) \in Nat /\ file.names \in SUBSET Names
  BY FileFields, CountNames
<1>3. Whole(file) => junk = {}
  BY <1>1, <1>2 DEF Whole
<1> QED
  BY <1>1, <1>2, <1>3

LEMMA LoadTyped ==
  ASSUME TypeOK, FindOrLoad
  PROVE  (/\ file \in Files /\ uses \in [Names -> 0..MaxUses]
          /\ mCreatedTemporalTables \in Nat
          /\ mTables \subseteq Names /\ open \subseteq mTables)'
<1>1. CASE UNCHANGED <<loaded, handler, file>>
  BY <1>1 DEF TypeOK
<1>2. CASE LoadHandler
  <2>1. file' \in Files /\ file.names \in SUBSET Names
    BY <1>2, FileFields, FlaggedTyped, Zenon DEF LoadHandler, TypeOK
  <2>2. 0 \in 0..MaxUses
    BY DbsManagerAssumption
  <2>3. uses' \in [Names -> 0..MaxUses]
    BY <1>2, <2>2 DEF LoadHandler
  <2>4. mTables' \subseteq Names /\ open' \subseteq mTables'
    BY <1>2, LoadReads DEF LoadHandler, TypeOK
  <2>5. mCreatedTemporalTables' \in Nat
    BY <1>2 DEF LoadHandler
  <2> QED
    BY <2>1, <2>3, <2>4, <2>5
<1> QED
  BY <1>1, <1>2 DEF FindOrLoad

LEMMA TypeStep == IInv /\ [Next]_vars => TypeOK'
<1> SUFFICES ASSUME IInv, [Next]_vars PROVE TypeOK'
  OBVIOUS
<1>f. UsersFacts
  BY UsersCounted DEF IInv
<1>l. FindOrLoad => (/\ file \in Files /\ uses \in [Names -> 0..MaxUses]
                      /\ mCreatedTemporalTables \in Nat
                      /\ mTables \subseteq Names /\ open \subseteq mTables)'
  BY LoadTyped DEF IInv
<1> USE DbsManagerAssumption DEF IInv, TypeOK
<1>1. CASE DBSCreateDatabase
  <2>1. (loaded \in BOOLEAN /\ mNeedsSync \in BOOLEAN /\ creating \in BOOLEAN
         /\ cut \in BOOLEAN /\ givenUp \in BOOLEAN /\ short \in BOOLEAN)'
    BY <1>1, Zenon DEF DBSCreateDatabase
  <2>2. file' \in Files
    BY <1>1, FileFields, FlaggedTyped, FileTyped, CountNames
       DEF DBSCreateDatabase,
           NoFile, EmptyFile, NewFile
  <2>3. (/\ mSync \in Locks({"truncate", "header", "names", "flush"})
         /\ dbsSync \in Locks({"clear", "tables"})
         /\ repair \in Locks({"open", "tables"}))'
    BY <1>1 DEF DBSCreateDatabase
  <2>4. (/\ tableFiles \in [Names -> {"none", "current", "behind"}]
         /\ uses \in [Names -> 0..MaxUses] /\ held \in [Threads -> SUBSET Names])'
    BY <1>1, <1>f DEF DBSCreateDatabase, UsersFacts
  <2>5. (/\ mRefCount \in Nat /\ mCreatedTemporalTables \in Nat
         /\ mTables \subseteq Names /\ open \subseteq mTables
         /\ dbHandle \subseteq Threads /\ temporals \subseteq Threads)'
    BY <1>1, <1>f, FileFields DEF DBSCreateDatabase, UsersFacts
  <2> QED
    BY <2>1, <2>2, <2>3, <2>4, <2>5
<1>2. CASE CreateHeader
  <2>1. (loaded \in BOOLEAN /\ mNeedsSync \in BOOLEAN /\ creating \in BOOLEAN
         /\ cut \in BOOLEAN /\ givenUp \in BOOLEAN /\ short \in BOOLEAN)'
    BY <1>2, Zenon DEF CreateHeader
  <2>2. file' \in Files
    BY <1>2, FileFields, FlaggedTyped, FileTyped, CountNames
       DEF CreateHeader,
           NoFile, EmptyFile, NewFile
  <2>3. (/\ mSync \in Locks({"truncate", "header", "names", "flush"})
         /\ dbsSync \in Locks({"clear", "tables"})
         /\ repair \in Locks({"open", "tables"}))'
    BY <1>2 DEF CreateHeader
  <2>4. (/\ tableFiles \in [Names -> {"none", "current", "behind"}]
         /\ uses \in [Names -> 0..MaxUses] /\ held \in [Threads -> SUBSET Names])'
    BY <1>2, <1>f DEF CreateHeader, UsersFacts
  <2>5. (/\ mRefCount \in Nat /\ mCreatedTemporalTables \in Nat
         /\ mTables \subseteq Names /\ open \subseteq mTables
         /\ dbHandle \subseteq Threads /\ temporals \subseteq Threads)'
    BY <1>2, <1>f, FileFields DEF CreateHeader, UsersFacts
  <2> QED
    BY <2>1, <2>2, <2>3, <2>4, <2>5
<1>3. CASE Crash
  <2>1. (loaded \in BOOLEAN /\ mNeedsSync \in BOOLEAN /\ creating \in BOOLEAN
         /\ cut \in BOOLEAN /\ givenUp \in BOOLEAN /\ short \in BOOLEAN)'
    BY <1>3, Zenon DEF Crash
  <2>2. file' \in Files
    BY <1>3 DEF Crash
  <2>3. (/\ mSync \in Locks({"truncate", "header", "names", "flush"})
         /\ dbsSync \in Locks({"clear", "tables"})
         /\ repair \in Locks({"open", "tables"}))'
    BY <1>3, FileFields, LockFields, TakenTyped, FreeTyped DEF Crash
  <2>4. (/\ tableFiles \in [Names -> {"none", "current", "behind"}]
         /\ uses \in [Names -> 0..MaxUses] /\ held \in [Threads -> SUBSET Names])'
    BY <1>3, <1>f DEF Crash, UsersFacts
  <2>5. (/\ mRefCount \in Nat /\ mCreatedTemporalTables \in Nat
         /\ mTables \subseteq Names /\ open \subseteq mTables
         /\ dbHandle \subseteq Threads /\ temporals \subseteq Threads)'
    BY <1>3, <1>f, FileFields DEF Crash, UsersFacts
  <2> QED
    BY <2>1, <2>2, <2>3, <2>4, <2>5
<1>4. ASSUME NEW t \in Threads, DBSRetrieveDatabase(t) PROVE TypeOK'
  <2>1. (loaded \in BOOLEAN /\ mNeedsSync \in BOOLEAN /\ creating \in BOOLEAN
         /\ cut \in BOOLEAN /\ givenUp \in BOOLEAN /\ short \in BOOLEAN)'
    BY <1>4, Zenon DEF DBSRetrieveDatabase, Idle, Enters, FindOrLoad, LoadHandler
  <2>2. file' \in Files
    BY <1>4, <1>l DEF DBSRetrieveDatabase, Idle, Enters
  <2>3. (/\ mSync \in Locks({"truncate", "header", "names", "flush"})
         /\ dbsSync \in Locks({"clear", "tables"})
         /\ repair \in Locks({"open", "tables"}))'
    BY <1>4 DEF DBSRetrieveDatabase, Idle, Enters
  <2>4. (/\ tableFiles \in [Names -> {"none", "current", "behind"}]
         /\ uses \in [Names -> 0..MaxUses] /\ held \in [Threads -> SUBSET Names])'
    BY <1>4, <1>l DEF DBSRetrieveDatabase, Idle, Enters
  <2>5. (/\ mRefCount \in Nat /\ mCreatedTemporalTables \in Nat
         /\ mTables \subseteq Names /\ open \subseteq mTables
         /\ dbHandle \subseteq Threads /\ temporals \subseteq Threads)'
    BY <1>4, <1>l DEF DBSRetrieveDatabase, Idle, Enters
  <2> QED
    BY <2>1, <2>2, <2>3, <2>4, <2>5
<1>5. ASSUME NEW t \in Threads, DBSReleaseDatabase(t) PROVE TypeOK'
  <2>1. (loaded \in BOOLEAN /\ mNeedsSync \in BOOLEAN /\ creating \in BOOLEAN
         /\ cut \in BOOLEAN /\ givenUp \in BOOLEAN /\ short \in BOOLEAN)'
    BY <1>5, Zenon DEF DBSReleaseDatabase, Idle, Enters, HasUnreleasedTables
  <2>2. file' \in Files
    BY <1>5 DEF DBSReleaseDatabase, Idle, Enters, HasUnreleasedTables
  <2>3. (/\ mSync \in Locks({"truncate", "header", "names", "flush"})
         /\ dbsSync \in Locks({"clear", "tables"})
         /\ repair \in Locks({"open", "tables"}))'
    <3>1. CASE UNCHANGED dbsSync
      BY <1>5, <3>1 DEF DBSReleaseDatabase, Idle, Enters, HasUnreleasedTables
    <3>2. CASE dbsSync' = Taken(t, "clear", None, {})
      BY <1>5, <3>2, TakenTyped DEF DBSReleaseDatabase, Idle, Enters, HasUnreleasedTables
    <3> QED
      BY <1>5, <3>1, <3>2 DEF DBSReleaseDatabase, Idle, Enters, HasUnreleasedTables
  <2>4. (/\ tableFiles \in [Names -> {"none", "current", "behind"}]
         /\ uses \in [Names -> 0..MaxUses] /\ held \in [Threads -> SUBSET Names])'
    BY <1>5, <1>f DEF DBSReleaseDatabase, Idle, Enters, HasUnreleasedTables, UsersFacts
  <2>5. (/\ mRefCount \in Nat /\ mCreatedTemporalTables \in Nat
         /\ mTables \subseteq Names /\ open \subseteq mTables
         /\ dbHandle \subseteq Threads /\ temporals \subseteq Threads)'
    <3>1. mRefCount' = mRefCount - 1 /\ mRefCount # 0
      BY <1>5, <1>f DEF DBSReleaseDatabase, UsersFacts
    <3>2. mRefCount' \in Nat
      BY <3>1
    <3>3. open' = {} /\ mCreatedTemporalTables' = mCreatedTemporalTables
      BY <1>5 DEF DBSReleaseDatabase, HasUnreleasedTables
    <3>4. mTables' \subseteq Names
      BY <1>5 DEF DBSReleaseDatabase
    <3>5. dbHandle' \subseteq Threads /\ temporals' \subseteq Threads
      BY <1>5 DEF DBSReleaseDatabase
    <3> QED
      BY <3>2, <3>3, <3>4, <3>5
  <2> QED
    BY <2>1, <2>2, <2>3, <2>4, <2>5
<1>6. ASSUME NEW t \in Threads, ClearFlags(t) PROVE TypeOK'
  <2>1. (loaded \in BOOLEAN /\ mNeedsSync \in BOOLEAN /\ creating \in BOOLEAN
         /\ cut \in BOOLEAN /\ givenUp \in BOOLEAN /\ short \in BOOLEAN)'
    BY <1>6, Zenon DEF ClearFlags
  <2>2. file' \in Files
    BY <1>6, FileFields, FlaggedTyped, FileTyped, CountNames
       DEF ClearFlags,
           NoFile, EmptyFile, NewFile
  <2>3. (/\ mSync \in Locks({"truncate", "header", "names", "flush"})
         /\ dbsSync \in Locks({"clear", "tables"})
         /\ repair \in Locks({"open", "tables"}))'
    BY <1>6, FileFields, LockFields, TakenTyped, FreeTyped DEF ClearFlags
  <2>4. (/\ tableFiles \in [Names -> {"none", "current", "behind"}]
         /\ uses \in [Names -> 0..MaxUses] /\ held \in [Threads -> SUBSET Names])'
    BY <1>6, <1>f DEF ClearFlags, UsersFacts
  <2>5. (/\ mRefCount \in Nat /\ mCreatedTemporalTables \in Nat
         /\ mTables \subseteq Names /\ open \subseteq mTables
         /\ dbHandle \subseteq Threads /\ temporals \subseteq Threads)'
    BY <1>6, <1>f, FileFields DEF ClearFlags, UsersFacts
  <2> QED
    BY <2>1, <2>2, <2>3, <2>4, <2>5
<1>7. ASSUME NEW t \in Threads, DBSRemoveDatabase(t) PROVE TypeOK'
  <2>1. (loaded \in BOOLEAN /\ mNeedsSync \in BOOLEAN /\ creating \in BOOLEAN
         /\ cut \in BOOLEAN /\ givenUp \in BOOLEAN /\ short \in BOOLEAN)'
    BY <1>7, Zenon DEF DBSRemoveDatabase, Idle, Enters, FindOrLoad, LoadHandler
  <2>2. file' \in Files
    BY <1>7, <1>l DEF DBSRemoveDatabase, Idle, Enters
  <2>3. (/\ mSync \in Locks({"truncate", "header", "names", "flush"})
         /\ dbsSync \in Locks({"clear", "tables"})
         /\ repair \in Locks({"open", "tables"}))'
    BY <1>7, <1>l, LockFields, TakenTyped, FreeTyped DEF DBSRemoveDatabase, Idle, Enters
  <2>4. (/\ tableFiles \in [Names -> {"none", "current", "behind"}]
         /\ uses \in [Names -> 0..MaxUses] /\ held \in [Threads -> SUBSET Names])'
    BY <1>7, <1>l DEF DBSRemoveDatabase, Idle, Enters
  <2>5. (/\ mRefCount \in Nat /\ mCreatedTemporalTables \in Nat
         /\ mTables \subseteq Names /\ open \subseteq mTables
         /\ dbHandle \subseteq Threads /\ temporals \subseteq Threads)'
    BY <1>7, <1>l DEF DBSRemoveDatabase, Idle, Enters
  <2> QED
    BY <2>1, <2>2, <2>3, <2>4, <2>5
<1>8. ASSUME NEW t \in Threads, RemoveFile(t) PROVE TypeOK'
  <2>1. (loaded \in BOOLEAN /\ mNeedsSync \in BOOLEAN /\ creating \in BOOLEAN
         /\ cut \in BOOLEAN /\ givenUp \in BOOLEAN /\ short \in BOOLEAN)'
    BY <1>8, Zenon DEF RemoveFile
  <2>2. file' \in Files
    BY <1>8, FileFields, FlaggedTyped, FileTyped, CountNames
       DEF RemoveFile,
           NoFile, EmptyFile, NewFile
  <2>3. (/\ mSync \in Locks({"truncate", "header", "names", "flush"})
         /\ dbsSync \in Locks({"clear", "tables"})
         /\ repair \in Locks({"open", "tables"}))'
    BY <1>8, FileFields, LockFields, TakenTyped, FreeTyped DEF RemoveFile
  <2>4. (/\ tableFiles \in [Names -> {"none", "current", "behind"}]
         /\ uses \in [Names -> 0..MaxUses] /\ held \in [Threads -> SUBSET Names])'
    BY <1>8, <1>f DEF RemoveFile, UsersFacts
  <2>5. (/\ mRefCount \in Nat /\ mCreatedTemporalTables \in Nat
         /\ mTables \subseteq Names /\ open \subseteq mTables
         /\ dbHandle \subseteq Threads /\ temporals \subseteq Threads)'
    BY <1>8, <1>f, FileFields DEF RemoveFile, UsersFacts, CallsInv
  <2> QED
    BY <2>1, <2>2, <2>3, <2>4, <2>5
<1>9. ASSUME NEW t \in Threads, CreateTempTable(t) PROVE TypeOK'
  <2>1. (loaded \in BOOLEAN /\ mNeedsSync \in BOOLEAN /\ creating \in BOOLEAN
         /\ cut \in BOOLEAN /\ givenUp \in BOOLEAN /\ short \in BOOLEAN)'
    BY <1>9, Zenon DEF CreateTempTable, Idle, Enters
  <2>2. file' \in Files
    BY <1>9 DEF CreateTempTable, Idle, Enters
  <2>3. (/\ mSync \in Locks({"truncate", "header", "names", "flush"})
         /\ dbsSync \in Locks({"clear", "tables"})
         /\ repair \in Locks({"open", "tables"}))'
    BY <1>9 DEF CreateTempTable, Idle, Enters
  <2>4. (/\ tableFiles \in [Names -> {"none", "current", "behind"}]
         /\ uses \in [Names -> 0..MaxUses] /\ held \in [Threads -> SUBSET Names])'
    BY <1>9, <1>f DEF CreateTempTable, Idle, Enters, UsersFacts
  <2>5. (/\ mRefCount \in Nat /\ mCreatedTemporalTables \in Nat
         /\ mTables \subseteq Names /\ open \subseteq mTables
         /\ dbHandle \subseteq Threads /\ temporals \subseteq Threads)'
    BY <1>9, <1>f, FileFields DEF CreateTempTable, Idle, Enters, UsersFacts
  <2> QED
    BY <2>1, <2>2, <2>3, <2>4, <2>5
<1>10. ASSUME NEW t \in Threads, ReleaseTemporal(t) PROVE TypeOK'
  <2>1. (loaded \in BOOLEAN /\ mNeedsSync \in BOOLEAN /\ creating \in BOOLEAN
         /\ cut \in BOOLEAN /\ givenUp \in BOOLEAN /\ short \in BOOLEAN)'
    BY <1>10, Zenon DEF ReleaseTemporal, Idle, Enters
  <2>2. file' \in Files
    BY <1>10 DEF ReleaseTemporal, Idle, Enters
  <2>3. (/\ mSync \in Locks({"truncate", "header", "names", "flush"})
         /\ dbsSync \in Locks({"clear", "tables"})
         /\ repair \in Locks({"open", "tables"}))'
    BY <1>10 DEF ReleaseTemporal, Idle, Enters
  <2>4. (/\ tableFiles \in [Names -> {"none", "current", "behind"}]
         /\ uses \in [Names -> 0..MaxUses] /\ held \in [Threads -> SUBSET Names])'
    BY <1>10, <1>f DEF ReleaseTemporal, Idle, Enters, UsersFacts
  <2>5. (/\ mRefCount \in Nat /\ mCreatedTemporalTables \in Nat
         /\ mTables \subseteq Names /\ open \subseteq mTables
         /\ dbHandle \subseteq Threads /\ temporals \subseteq Threads)'
    BY <1>10, <1>f, FileFields DEF ReleaseTemporal, Idle, Enters, UsersFacts
  <2> QED
    BY <2>1, <2>2, <2>3, <2>4, <2>5
<1>11. ASSUME NEW t \in Threads, Truncate(t) PROVE TypeOK'
  <2>1. (loaded \in BOOLEAN /\ mNeedsSync \in BOOLEAN /\ creating \in BOOLEAN
         /\ cut \in BOOLEAN /\ givenUp \in BOOLEAN /\ short \in BOOLEAN)'
    BY <1>11, Zenon DEF Truncate
  <2>2. file' \in Files
    BY <1>11, FileFields, FlaggedTyped, FileTyped, CountNames
       DEF Truncate,
           NoFile, EmptyFile, NewFile
  <2>3. (/\ mSync \in Locks({"truncate", "header", "names", "flush"})
         /\ dbsSync \in Locks({"clear", "tables"})
         /\ repair \in Locks({"open", "tables"}))'
    BY <1>11, FileFields, LockFields, TakenTyped, FreeTyped DEF Truncate
  <2>4. (/\ tableFiles \in [Names -> {"none", "current", "behind"}]
         /\ uses \in [Names -> 0..MaxUses] /\ held \in [Threads -> SUBSET Names])'
    BY <1>11, <1>f DEF Truncate, UsersFacts
  <2>5. (/\ mRefCount \in Nat /\ mCreatedTemporalTables \in Nat
         /\ mTables \subseteq Names /\ open \subseteq mTables
         /\ dbHandle \subseteq Threads /\ temporals \subseteq Threads)'
    BY <1>11, <1>f, FileFields DEF Truncate, UsersFacts
  <2> QED
    BY <2>1, <2>2, <2>3, <2>4, <2>5
<1>12. ASSUME NEW t \in Threads, WriteHeader(t) PROVE TypeOK'
  <2>1. (loaded \in BOOLEAN /\ mNeedsSync \in BOOLEAN /\ creating \in BOOLEAN
         /\ cut \in BOOLEAN /\ givenUp \in BOOLEAN /\ short \in BOOLEAN)'
    BY <1>12, Zenon DEF WriteHeader, Header
  <2>2. file' \in Files
    BY <1>12, FileFields, FlaggedTyped, FileTyped, CountNames
       DEF WriteHeader, Header,
           NoFile, EmptyFile, NewFile
  <2>3. (/\ mSync \in Locks({"truncate", "header", "names", "flush"})
         /\ dbsSync \in Locks({"clear", "tables"})
         /\ repair \in Locks({"open", "tables"}))'
    BY <1>12, FileFields, LockFields, TakenTyped, FreeTyped DEF WriteHeader, Header
  <2>4. (/\ tableFiles \in [Names -> {"none", "current", "behind"}]
         /\ uses \in [Names -> 0..MaxUses] /\ held \in [Threads -> SUBSET Names])'
    BY <1>12, <1>f DEF WriteHeader, Header, UsersFacts
  <2>5. (/\ mRefCount \in Nat /\ mCreatedTemporalTables \in Nat
         /\ mTables \subseteq Names /\ open \subseteq mTables
         /\ dbHandle \subseteq Threads /\ temporals \subseteq Threads)'
    BY <1>12, <1>f, FileFields DEF WriteHeader, Header, UsersFacts
  <2> QED
    BY <2>1, <2>2, <2>3, <2>4, <2>5
<1>13. ASSUME NEW t \in Threads, ListWritten(t) PROVE TypeOK'
  <2>1. (loaded \in BOOLEAN /\ mNeedsSync \in BOOLEAN /\ creating \in BOOLEAN
         /\ cut \in BOOLEAN /\ givenUp \in BOOLEAN /\ short \in BOOLEAN)'
    BY <1>13, Zenon DEF ListWritten
  <2>2. file' \in Files
    BY <1>13 DEF ListWritten
  <2>3. (/\ mSync \in Locks({"truncate", "header", "names", "flush"})
         /\ dbsSync \in Locks({"clear", "tables"})
         /\ repair \in Locks({"open", "tables"}))'
    BY <1>13, FileFields, LockFields, TakenTyped, FreeTyped DEF ListWritten
  <2>4. (/\ tableFiles \in [Names -> {"none", "current", "behind"}]
         /\ uses \in [Names -> 0..MaxUses] /\ held \in [Threads -> SUBSET Names])'
    BY <1>13, <1>f DEF ListWritten, UsersFacts
  <2>5. (/\ mRefCount \in Nat /\ mCreatedTemporalTables \in Nat
         /\ mTables \subseteq Names /\ open \subseteq mTables
         /\ dbHandle \subseteq Threads /\ temporals \subseteq Threads)'
    BY <1>13, <1>f, FileFields DEF ListWritten, UsersFacts
  <2> QED
    BY <2>1, <2>2, <2>3, <2>4, <2>5
<1>14. ASSUME NEW t \in Threads, SyncAllTablesContent(t) PROVE TypeOK'
  <2>1. (loaded \in BOOLEAN /\ mNeedsSync \in BOOLEAN /\ creating \in BOOLEAN
         /\ cut \in BOOLEAN /\ givenUp \in BOOLEAN /\ short \in BOOLEAN)'
    BY <1>14, Zenon DEF SyncAllTablesContent, Idle, Enters
  <2>2. file' \in Files
    BY <1>14 DEF SyncAllTablesContent, Idle, Enters
  <2>3. (/\ mSync \in Locks({"truncate", "header", "names", "flush"})
         /\ dbsSync \in Locks({"clear", "tables"})
         /\ repair \in Locks({"open", "tables"}))'
    BY <1>14, FileFields, LockFields, TakenTyped, FreeTyped DEF SyncAllTablesContent, Idle, Enters
  <2>4. (/\ tableFiles \in [Names -> {"none", "current", "behind"}]
         /\ uses \in [Names -> 0..MaxUses] /\ held \in [Threads -> SUBSET Names])'
    BY <1>14, <1>f DEF SyncAllTablesContent, Idle, Enters, UsersFacts
  <2>5. (/\ mRefCount \in Nat /\ mCreatedTemporalTables \in Nat
         /\ mTables \subseteq Names /\ open \subseteq mTables
         /\ dbHandle \subseteq Threads /\ temporals \subseteq Threads)'
    BY <1>14, <1>f, FileFields DEF SyncAllTablesContent, Idle, Enters, UsersFacts
  <2> QED
    BY <2>1, <2>2, <2>3, <2>4, <2>5
<1>15. ASSUME NEW t \in Threads, MarkClosed(t) PROVE TypeOK'
  <2>1. (loaded \in BOOLEAN /\ mNeedsSync \in BOOLEAN /\ creating \in BOOLEAN
         /\ cut \in BOOLEAN /\ givenUp \in BOOLEAN /\ short \in BOOLEAN)'
    BY <1>15, Zenon DEF MarkClosed
  <2>2. file' \in Files
    BY <1>15, FileFields, FlaggedTyped, FileTyped, CountNames
       DEF MarkClosed,
           NoFile, EmptyFile, NewFile
  <2>3. (/\ mSync \in Locks({"truncate", "header", "names", "flush"})
         /\ dbsSync \in Locks({"clear", "tables"})
         /\ repair \in Locks({"open", "tables"}))'
    BY <1>15, FileFields, LockFields, TakenTyped, FreeTyped DEF MarkClosed
  <2>4. (/\ tableFiles \in [Names -> {"none", "current", "behind"}]
         /\ uses \in [Names -> 0..MaxUses] /\ held \in [Threads -> SUBSET Names])'
    BY <1>15, <1>f DEF MarkClosed, UsersFacts
  <2>5. (/\ mRefCount \in Nat /\ mCreatedTemporalTables \in Nat
         /\ mTables \subseteq Names /\ open \subseteq mTables
         /\ dbHandle \subseteq Threads /\ temporals \subseteq Threads)'
    BY <1>15, <1>f, FileFields DEF MarkClosed, UsersFacts
  <2> QED
    BY <2>1, <2>2, <2>3, <2>4, <2>5
<1>16. ASSUME NEW t \in Threads, MarkToRepair(t) PROVE TypeOK'
  <2>1. (loaded \in BOOLEAN /\ mNeedsSync \in BOOLEAN /\ creating \in BOOLEAN
         /\ cut \in BOOLEAN /\ givenUp \in BOOLEAN /\ short \in BOOLEAN)'
    BY <1>16, Zenon DEF MarkToRepair, Idle, Enters
  <2>2. file' \in Files
    BY <1>16, FileFields, FlaggedTyped, FileTyped, CountNames
       DEF MarkToRepair, Idle, Enters,
           NoFile, EmptyFile, NewFile
  <2>3. (/\ mSync \in Locks({"truncate", "header", "names", "flush"})
         /\ dbsSync \in Locks({"clear", "tables"})
         /\ repair \in Locks({"open", "tables"}))'
    BY <1>16, FileFields, LockFields, TakenTyped, FreeTyped DEF MarkToRepair, Idle, Enters
  <2>4. (/\ tableFiles \in [Names -> {"none", "current", "behind"}]
         /\ uses \in [Names -> 0..MaxUses] /\ held \in [Threads -> SUBSET Names])'
    BY <1>16, <1>f DEF MarkToRepair, Idle, Enters, UsersFacts
  <2>5. (/\ mRefCount \in Nat /\ mCreatedTemporalTables \in Nat
         /\ mTables \subseteq Names /\ open \subseteq mTables
         /\ dbHandle \subseteq Threads /\ temporals \subseteq Threads)'
    BY <1>16, <1>f, FileFields DEF MarkToRepair, Idle, Enters, UsersFacts
  <2> QED
    BY <2>1, <2>2, <2>3, <2>4, <2>5
<1>17. ASSUME NEW t \in Threads, OpenToRepair(t) PROVE TypeOK'
  <2>1. (loaded \in BOOLEAN /\ mNeedsSync \in BOOLEAN /\ creating \in BOOLEAN
         /\ cut \in BOOLEAN /\ givenUp \in BOOLEAN /\ short \in BOOLEAN)'
    BY <1>17, Zenon DEF OpenToRepair, LoadHandler
  <2>2. file' \in Files
    BY <1>17, FileFields, FlaggedTyped, FileTyped, CountNames
       DEF OpenToRepair, LoadHandler,
           NoFile, EmptyFile, NewFile
  <2>3. (/\ mSync \in Locks({"truncate", "header", "names", "flush"})
         /\ dbsSync \in Locks({"clear", "tables"})
         /\ repair \in Locks({"open", "tables"}))'
    BY <1>17, FileFields, LockFields, TakenTyped, FreeTyped DEF OpenToRepair, LoadHandler
  <2>4. (/\ tableFiles \in [Names -> {"none", "current", "behind"}]
         /\ uses \in [Names -> 0..MaxUses] /\ held \in [Threads -> SUBSET Names])'
    BY <1>17, <1>f DEF OpenToRepair, LoadHandler, UsersFacts
  <2>5. (/\ mRefCount \in Nat /\ mCreatedTemporalTables \in Nat
         /\ mTables \subseteq Names /\ open \subseteq mTables
         /\ dbHandle \subseteq Threads /\ temporals \subseteq Threads)'
    BY <1>17, <1>f, LoadReads DEF OpenToRepair, LoadHandler, UsersFacts
  <2> QED
    BY <2>1, <2>2, <2>3, <2>4, <2>5
<1>18. ASSUME NEW t \in Threads, AllRepaired(t) PROVE TypeOK'
  <2>1. (loaded \in BOOLEAN /\ mNeedsSync \in BOOLEAN /\ creating \in BOOLEAN
         /\ cut \in BOOLEAN /\ givenUp \in BOOLEAN /\ short \in BOOLEAN)'
    BY <1>18, Zenon DEF AllRepaired, ReleaseRepaired
  <2>2. file' \in Files
    BY <1>18 DEF AllRepaired, ReleaseRepaired
  <2>3. (/\ mSync \in Locks({"truncate", "header", "names", "flush"})
         /\ dbsSync \in Locks({"clear", "tables"})
         /\ repair \in Locks({"open", "tables"}))'
    BY <1>18, FileFields, LockFields, TakenTyped, FreeTyped DEF AllRepaired, ReleaseRepaired
  <2>4. (/\ tableFiles \in [Names -> {"none", "current", "behind"}]
         /\ uses \in [Names -> 0..MaxUses] /\ held \in [Threads -> SUBSET Names])'
    BY <1>18, <1>f DEF AllRepaired, ReleaseRepaired, UsersFacts
  <2>5. (/\ mRefCount \in Nat /\ mCreatedTemporalTables \in Nat
         /\ mTables \subseteq Names /\ open \subseteq mTables
         /\ dbHandle \subseteq Threads /\ temporals \subseteq Threads)'
    BY <1>18, <1>f, FileFields DEF AllRepaired, ReleaseRepaired, UsersFacts, CallsInv
  <2> QED
    BY <2>1, <2>2, <2>3, <2>4, <2>5
<1>19. ASSUME NEW t \in Threads, NEW n \in Names, RetrievePersistentTable(t, n) PROVE TypeOK'
  <2>1. (loaded \in BOOLEAN /\ mNeedsSync \in BOOLEAN /\ creating \in BOOLEAN
         /\ cut \in BOOLEAN /\ givenUp \in BOOLEAN /\ short \in BOOLEAN)'
    BY <1>19, Zenon DEF RetrievePersistentTable, Idle, Enters
  <2>2. file' \in Files
    BY <1>19 DEF RetrievePersistentTable, Idle, Enters
  <2>3. (/\ mSync \in Locks({"truncate", "header", "names", "flush"})
         /\ dbsSync \in Locks({"clear", "tables"})
         /\ repair \in Locks({"open", "tables"}))'
    BY <1>19 DEF RetrievePersistentTable, Idle, Enters
  <2>4. (/\ tableFiles \in [Names -> {"none", "current", "behind"}]
         /\ uses \in [Names -> 0..MaxUses] /\ held \in [Threads -> SUBSET Names])'
    BY <1>19, <1>f DEF RetrievePersistentTable, Idle, Enters, UsersFacts
  <2>5. (/\ mRefCount \in Nat /\ mCreatedTemporalTables \in Nat
         /\ mTables \subseteq Names /\ open \subseteq mTables
         /\ dbHandle \subseteq Threads /\ temporals \subseteq Threads)'
    BY <1>19, <1>f, FileFields DEF RetrievePersistentTable, Idle, Enters, UsersFacts
  <2> QED
    BY <2>1, <2>2, <2>3, <2>4, <2>5
<1>20. ASSUME NEW t \in Threads, NEW n \in Names, ReleaseTable(t, n) PROVE TypeOK'
  <2>1. (loaded \in BOOLEAN /\ mNeedsSync \in BOOLEAN /\ creating \in BOOLEAN
         /\ cut \in BOOLEAN /\ givenUp \in BOOLEAN /\ short \in BOOLEAN)'
    BY <1>20, Zenon DEF ReleaseTable, Idle, Enters, Flushed
  <2>2. file' \in Files
    BY <1>20 DEF ReleaseTable, Idle, Enters, Flushed
  <2>3. (/\ mSync \in Locks({"truncate", "header", "names", "flush"})
         /\ dbsSync \in Locks({"clear", "tables"})
         /\ repair \in Locks({"open", "tables"}))'
    BY <1>20 DEF ReleaseTable, Idle, Enters, Flushed
  <2>4. (/\ tableFiles \in [Names -> {"none", "current", "behind"}]
         /\ uses \in [Names -> 0..MaxUses] /\ held \in [Threads -> SUBSET Names])'
    BY <1>20, <1>f DEF ReleaseTable, Idle, Enters, Flushed, UsersFacts
  <2>5. (/\ mRefCount \in Nat /\ mCreatedTemporalTables \in Nat
         /\ mTables \subseteq Names /\ open \subseteq mTables
         /\ dbHandle \subseteq Threads /\ temporals \subseteq Threads)'
    BY <1>20, <1>f, FileFields DEF ReleaseTable, Idle, Enters, Flushed, UsersFacts
  <2> QED
    BY <2>1, <2>2, <2>3, <2>4, <2>5
<1>21. ASSUME NEW t \in Threads, NEW n \in Names, AddTable(t, n) PROVE TypeOK'
  <2>1. (loaded \in BOOLEAN /\ mNeedsSync \in BOOLEAN /\ creating \in BOOLEAN
         /\ cut \in BOOLEAN /\ givenUp \in BOOLEAN /\ short \in BOOLEAN)'
    BY <1>21, Zenon DEF AddTable, Idle, Enters, Flushed
  <2>2. file' \in Files
    BY <1>21 DEF AddTable, Idle, Enters, Flushed
  <2>3. (/\ mSync \in Locks({"truncate", "header", "names", "flush"})
         /\ dbsSync \in Locks({"clear", "tables"})
         /\ repair \in Locks({"open", "tables"}))'
    BY <1>21, FileFields, LockFields, TakenTyped, FreeTyped DEF AddTable, Idle, Enters, Flushed
  <2>4. (/\ tableFiles \in [Names -> {"none", "current", "behind"}]
         /\ uses \in [Names -> 0..MaxUses] /\ held \in [Threads -> SUBSET Names])'
    BY <1>21, <1>f DEF AddTable, Idle, Enters, Flushed, UsersFacts
  <2>5. (/\ mRefCount \in Nat /\ mCreatedTemporalTables \in Nat
         /\ mTables \subseteq Names /\ open \subseteq mTables
         /\ dbHandle \subseteq Threads /\ temporals \subseteq Threads)'
    BY <1>21, <1>f, FileFields DEF AddTable, Idle, Enters, Flushed, UsersFacts
  <2> QED
    BY <2>1, <2>2, <2>3, <2>4, <2>5
<1>22. ASSUME NEW t \in Threads, NEW n \in Names, Unheld(n), DeleteTable(t, n) PROVE TypeOK'
  <2>1. (loaded \in BOOLEAN /\ mNeedsSync \in BOOLEAN /\ creating \in BOOLEAN
         /\ cut \in BOOLEAN /\ givenUp \in BOOLEAN /\ short \in BOOLEAN)'
    BY <1>22, Zenon DEF DeleteTable, Idle, Enters
  <2>2. file' \in Files
    BY <1>22 DEF DeleteTable, Idle, Enters
  <2>3. (/\ mSync \in Locks({"truncate", "header", "names", "flush"})
         /\ dbsSync \in Locks({"clear", "tables"})
         /\ repair \in Locks({"open", "tables"}))'
    BY <1>22, FileFields, LockFields, TakenTyped, FreeTyped DEF DeleteTable, Idle, Enters
  <2>4. (/\ tableFiles \in [Names -> {"none", "current", "behind"}]
         /\ uses \in [Names -> 0..MaxUses] /\ held \in [Threads -> SUBSET Names])'
    BY <1>22, <1>f DEF DeleteTable, Idle, Enters, UsersFacts
  <2>5. (/\ mRefCount \in Nat /\ mCreatedTemporalTables \in Nat
         /\ mTables \subseteq Names /\ open \subseteq mTables
         /\ dbHandle \subseteq Threads /\ temporals \subseteq Threads)'
    BY <1>22, <1>f, FileFields DEF DeleteTable, Idle, Enters, UsersFacts
  <2> QED
    BY <2>1, <2>2, <2>3, <2>4, <2>5
<1>23. ASSUME NEW t \in Threads, NEW n \in Names, WriteName(t, n) PROVE TypeOK'
  <2>1. (loaded \in BOOLEAN /\ mNeedsSync \in BOOLEAN /\ creating \in BOOLEAN
         /\ cut \in BOOLEAN /\ givenUp \in BOOLEAN /\ short \in BOOLEAN)'
    BY <1>23, Zenon DEF WriteName, IsFirst
  <2>2. file' \in Files
    <3>1. file.names \cup {n} \in SUBSET Names /\ file.count \in Nat
      BY FileFields
    <3> QED
      BY <1>23, <3>1, FileTyped, Zenon DEF WriteName, IsFirst
  <2>3. (/\ mSync \in Locks({"truncate", "header", "names", "flush"})
         /\ dbsSync \in Locks({"clear", "tables"})
         /\ repair \in Locks({"open", "tables"}))'
    BY <1>23, FileFields, LockFields, TakenTyped, FreeTyped DEF WriteName, IsFirst
  <2>4. (/\ tableFiles \in [Names -> {"none", "current", "behind"}]
         /\ uses \in [Names -> 0..MaxUses] /\ held \in [Threads -> SUBSET Names])'
    BY <1>23, <1>f DEF WriteName, IsFirst, UsersFacts
  <2>5. (/\ mRefCount \in Nat /\ mCreatedTemporalTables \in Nat
         /\ mTables \subseteq Names /\ open \subseteq mTables
         /\ dbHandle \subseteq Threads /\ temporals \subseteq Threads)'
    BY <1>23, <1>f, FileFields DEF WriteName, IsFirst, UsersFacts
  <2> QED
    BY <2>1, <2>2, <2>3, <2>4, <2>5
<1>24. ASSUME NEW t \in Threads, NEW n \in Names, ModifyTable(t, n) PROVE TypeOK'
  <2>1. (loaded \in BOOLEAN /\ mNeedsSync \in BOOLEAN /\ creating \in BOOLEAN
         /\ cut \in BOOLEAN /\ givenUp \in BOOLEAN /\ short \in BOOLEAN)'
    BY <1>24, Zenon DEF ModifyTable, Idle, Enters, NotifyDatabaseUpdate
  <2>2. file' \in Files
    BY <1>24, FileFields, FlaggedTyped, FileTyped, CountNames
       DEF ModifyTable, Idle, Enters, NotifyDatabaseUpdate,
           NoFile, EmptyFile, NewFile
  <2>3. (/\ mSync \in Locks({"truncate", "header", "names", "flush"})
         /\ dbsSync \in Locks({"clear", "tables"})
         /\ repair \in Locks({"open", "tables"}))'
    BY <1>24 DEF ModifyTable, Idle, Enters, NotifyDatabaseUpdate
  <2>4. (/\ tableFiles \in [Names -> {"none", "current", "behind"}]
         /\ uses \in [Names -> 0..MaxUses] /\ held \in [Threads -> SUBSET Names])'
    BY <1>24, <1>f DEF ModifyTable, Idle, Enters, NotifyDatabaseUpdate, UsersFacts
  <2>5. (/\ mRefCount \in Nat /\ mCreatedTemporalTables \in Nat
         /\ mTables \subseteq Names /\ open \subseteq mTables
         /\ dbHandle \subseteq Threads /\ temporals \subseteq Threads)'
    BY <1>24, <1>f, FileFields DEF ModifyTable, Idle, Enters, NotifyDatabaseUpdate, UsersFacts
  <2> QED
    BY <2>1, <2>2, <2>3, <2>4, <2>5
<1>25. ASSUME NEW t \in Threads, NEW n \in Names, SyncTableContent(t, n) PROVE TypeOK'
  <2>1. (loaded \in BOOLEAN /\ mNeedsSync \in BOOLEAN /\ creating \in BOOLEAN
         /\ cut \in BOOLEAN /\ givenUp \in BOOLEAN /\ short \in BOOLEAN)'
    BY <1>25, Zenon DEF SyncTableContent, Idle, Enters, Flushed
  <2>2. file' \in Files
    BY <1>25 DEF SyncTableContent, Idle, Enters, Flushed
  <2>3. (/\ mSync \in Locks({"truncate", "header", "names", "flush"})
         /\ dbsSync \in Locks({"clear", "tables"})
         /\ repair \in Locks({"open", "tables"}))'
    BY <1>25 DEF SyncTableContent, Idle, Enters, Flushed
  <2>4. (/\ tableFiles \in [Names -> {"none", "current", "behind"}]
         /\ uses \in [Names -> 0..MaxUses] /\ held \in [Threads -> SUBSET Names])'
    BY <1>25, <1>f DEF SyncTableContent, Idle, Enters, Flushed, UsersFacts
  <2>5. (/\ mRefCount \in Nat /\ mCreatedTemporalTables \in Nat
         /\ mTables \subseteq Names /\ open \subseteq mTables
         /\ dbHandle \subseteq Threads /\ temporals \subseteq Threads)'
    BY <1>25, <1>f, FileFields DEF SyncTableContent, Idle, Enters, Flushed, UsersFacts
  <2> QED
    BY <2>1, <2>2, <2>3, <2>4, <2>5
<1>26. ASSUME NEW t \in Threads, NEW n \in Names, FlushTable(t, n) PROVE TypeOK'
  <2>1. (loaded \in BOOLEAN /\ mNeedsSync \in BOOLEAN /\ creating \in BOOLEAN
         /\ cut \in BOOLEAN /\ givenUp \in BOOLEAN /\ short \in BOOLEAN)'
    BY <1>26, Zenon DEF FlushTable, IsFirst, Flushed
  <2>2. file' \in Files
    BY <1>26 DEF FlushTable, IsFirst, Flushed
  <2>3. (/\ mSync \in Locks({"truncate", "header", "names", "flush"})
         /\ dbsSync \in Locks({"clear", "tables"})
         /\ repair \in Locks({"open", "tables"}))'
    BY <1>26, FileFields, LockFields, TakenTyped, FreeTyped DEF FlushTable, IsFirst, Flushed
  <2>4. (/\ tableFiles \in [Names -> {"none", "current", "behind"}]
         /\ uses \in [Names -> 0..MaxUses] /\ held \in [Threads -> SUBSET Names])'
    BY <1>26, <1>f DEF FlushTable, IsFirst, Flushed, UsersFacts
  <2>5. (/\ mRefCount \in Nat /\ mCreatedTemporalTables \in Nat
         /\ mTables \subseteq Names /\ open \subseteq mTables
         /\ dbHandle \subseteq Threads /\ temporals \subseteq Threads)'
    BY <1>26, <1>f, FileFields DEF FlushTable, IsFirst, Flushed, UsersFacts
  <2> QED
    BY <2>1, <2>2, <2>3, <2>4, <2>5
<1>27. ASSUME NEW t \in Threads, NEW n \in Names, RemoveTable(t, n) PROVE TypeOK'
  <2>1. (loaded \in BOOLEAN /\ mNeedsSync \in BOOLEAN /\ creating \in BOOLEAN
         /\ cut \in BOOLEAN /\ givenUp \in BOOLEAN /\ short \in BOOLEAN)'
    BY <1>27, Zenon DEF RemoveTable, IsFirst
  <2>2. file' \in Files
    BY <1>27 DEF RemoveTable, IsFirst
  <2>3. (/\ mSync \in Locks({"truncate", "header", "names", "flush"})
         /\ dbsSync \in Locks({"clear", "tables"})
         /\ repair \in Locks({"open", "tables"}))'
    BY <1>27, FileFields, LockFields, TakenTyped, FreeTyped DEF RemoveTable, IsFirst
  <2>4. (/\ tableFiles \in [Names -> {"none", "current", "behind"}]
         /\ uses \in [Names -> 0..MaxUses] /\ held \in [Threads -> SUBSET Names])'
    BY <1>27, <1>f DEF RemoveTable, IsFirst, UsersFacts
  <2>5. (/\ mRefCount \in Nat /\ mCreatedTemporalTables \in Nat
         /\ mTables \subseteq Names /\ open \subseteq mTables
         /\ dbHandle \subseteq Threads /\ temporals \subseteq Threads)'
    BY <1>27, <1>f, FileFields DEF RemoveTable, IsFirst, UsersFacts
  <2> QED
    BY <2>1, <2>2, <2>3, <2>4, <2>5
<1>28. ASSUME NEW t \in Threads, NEW n \in Names, RepairTable(t, n) PROVE TypeOK'
  <2>1. (loaded \in BOOLEAN /\ mNeedsSync \in BOOLEAN /\ creating \in BOOLEAN
         /\ cut \in BOOLEAN /\ givenUp \in BOOLEAN /\ short \in BOOLEAN)'
    BY <1>28, Zenon DEF RepairTable, ReleaseRepaired, Flushed, IsFirst
  <2>2. file' \in Files
    BY <1>28 DEF RepairTable, ReleaseRepaired, Flushed, IsFirst
  <2>3. (/\ mSync \in Locks({"truncate", "header", "names", "flush"})
         /\ dbsSync \in Locks({"clear", "tables"})
         /\ repair \in Locks({"open", "tables"}))'
    <3>1. CASE repair' = Taken(t, "tables", None, repair.left \ {n}) /\ UNCHANGED <<mSync, dbsSync>>
      BY <3>1, TakenTyped, LockFields
    <3>2. CASE repair' = Free /\ UNCHANGED <<mSync, dbsSync>>
      BY <3>2, FreeTyped
    <3>3. CASE ReleaseRepaired(t)
      BY <3>3, FreeTyped, TakenTyped DEF ReleaseRepaired
    <3> QED
      BY <1>28, <3>1, <3>2, <3>3 DEF RepairTable
  <2>4. (/\ tableFiles \in [Names -> {"none", "current", "behind"}]
         /\ uses \in [Names -> 0..MaxUses] /\ held \in [Threads -> SUBSET Names])'
    BY <1>28, <1>f DEF RepairTable, ReleaseRepaired, Flushed, IsFirst, UsersFacts
  <2>5. (/\ mRefCount \in Nat /\ mCreatedTemporalTables \in Nat
         /\ mTables \subseteq Names /\ open \subseteq mTables
         /\ dbHandle \subseteq Threads /\ temporals \subseteq Threads)'
    BY <1>28, <1>f, FileFields DEF RepairTable, ReleaseRepaired, Flushed, IsFirst, UsersFacts, CallsInv
  <2> QED
    BY <2>1, <2>2, <2>3, <2>4, <2>5
<1>29. CASE UNCHANGED vars
  BY <1>29 DEF vars
<1> QED
  BY <1>1, <1>2, <1>3, <1>4, <1>5, <1>6, <1>7, <1>8, <1>9, <1>10, <1>11, <1>12, <1>13, <1>14, <1>15, <1>16, <1>17, <1>18, <1>19, <1>20, <1>21, <1>22, <1>23, <1>24, <1>25, <1>26, <1>27, <1>28, <1>29 DEF Next, Call, TableCall


LEMMA CallsStep == IInv /\ [Next]_vars => CallsInv'
<1> SUFFICES ASSUME IInv, [Next]_vars PROVE CallsInv'
  OBVIOUS
<1>f. UsersFacts
  BY UsersCounted DEF IInv
<1>l. /\ file.form \in {"none", "empty", "header"}
      /\ mSync.step \in {"free", "truncate", "header", "names", "flush"}
      /\ dbsSync.step \in {"free", "clear", "tables"}
      /\ repair.step \in {"free", "open", "tables"}
      /\ mSync.by \in Threads \cup {None} /\ dbsSync.by \in Threads \cup {None}
      /\ repair.by \in Threads \cup {None}
  BY FileFields, LockFields DEF IInv, TypeOK
<1> USE DbsManagerAssumption DEF IInv, CallsInv, UsersInv, TypeOK, Free, IsFree, Taken, FileIs, Flagged, NoFile, EmptyFile, NewFile
<1>1. CASE DBSCreateDatabase
  <2>1. ~loaded /\ dbsSync.step = "free"
    BY <1>1, <1>l DEF DBSCreateDatabase, ListInv
  <2> QED
    BY <1>1, <2>1, <1>l DEF DBSCreateDatabase
<1>2. CASE CreateHeader
  BY <1>2 DEF CreateHeader
<1>3. CASE Crash
  BY <1>3 DEF Crash
<1>4. ASSUME NEW t \in Threads, DBSRetrieveDatabase(t) PROVE CallsInv'
  <2>1. repair.step = "free" /\ dbsSync.step = "free" /\ ~(dbHandle' = {})
    BY <1>4, <1>l DEF DBSRetrieveDatabase, Idle
  <2>2. CASE loaded /\ UNCHANGED <<loaded, handler, file>>
    BY <1>4, <1>l, <2>1, <2>2 DEF DBSRetrieveDatabase
  <2>3. CASE ~loaded /\ LoadHandler
    <3>1. mSync.step = "free" /\ mSync.by = None /\ mSync.table = None
      BY <1>l, <2>3
    <3> QED
      BY <1>4, <1>l, <2>1, <2>3, <3>1 DEF DBSRetrieveDatabase, LoadHandler, Accepts
  <2> QED
    BY <1>4, <2>2, <2>3 DEF DBSRetrieveDatabase, FindOrLoad
<1>5. ASSUME NEW t \in Threads, DBSReleaseDatabase(t) PROVE CallsInv'
  <2>1. repair.step = "free" /\ dbsSync.step = "free" /\ loaded /\ mSync.by # t
    BY <1>5, <1>l DEF DBSReleaseDatabase, Idle
  <2>2. CASE mRefCount # 1
    <3>1. mSync.by # None => mSync.by \in dbHandle'
      BY <1>5, <2>1 DEF DBSReleaseDatabase
    <3> QED
      BY <1>5, <2>1, <2>2, <3>1 DEF DBSReleaseDatabase
  <2>3. CASE mRefCount = 1
    <3>1. dbHandle = {t} /\ mSync.by = None
      BY <1>5, <1>f, <2>1, <2>3 DEF DBSReleaseDatabase, UsersFacts
    <3> QED
      BY <1>5, <1>l, <2>1, <2>3, <3>1 DEF DBSReleaseDatabase
  <2> QED
    BY <2>2, <2>3
<1>6. ASSUME NEW t \in Threads, ClearFlags(t) PROVE CallsInv'
  <2>1. ~creating /\ ~loaded /\ repair.step = "free" /\ mSync.step = "free"
    BY <1>6, <1>l DEF ClearFlags
  <2>2. file'.form = file.form /\ file.form = "header"
    BY <1>6 DEF ClearFlags, ListInv
  <2> QED
    BY <1>6, <1>l, <2>1, <2>2 DEF ClearFlags
<1>7. ASSUME NEW t \in Threads, DBSRemoveDatabase(t) PROVE CallsInv'
  <2>1. repair.step = "free" /\ dbsSync.step = "free" /\ dbHandle = {}
    BY <1>7, <1>f, <1>l DEF DBSRemoveDatabase, Idle, UsersFacts
  <2>2. mSync.step = "free" /\ mSync.by = None /\ mSync.table = None
    BY <1>l, <2>1
  <2>3. CASE loaded /\ UNCHANGED <<loaded, handler, file>>
    BY <1>7, <1>l, <2>1, <2>2, <2>3 DEF DBSRemoveDatabase
  <2>4. CASE ~loaded /\ LoadHandler
    BY <1>7, <1>l, <2>1, <2>2, <2>4 DEF DBSRemoveDatabase, LoadHandler, Accepts
  <2> QED
    BY <1>7, <2>3, <2>4 DEF DBSRemoveDatabase, FindOrLoad
<1>8. ASSUME NEW t \in Threads, RemoveFile(t) PROVE CallsInv'
  <2>1. ~creating /\ mRefCount = 0 /\ dbHandle = {} /\ repair.step = "free"
    BY <1>8, <1>f, <1>l DEF RemoveFile, UsersFacts
  <2>2. mSync.step = "free" /\ mSync.by = None /\ mSync.table = None
    BY <1>l, <2>1
  <2> QED
    BY <1>8, <1>l, <2>1, <2>2 DEF RemoveFile
<1>9. ASSUME NEW t \in Threads, CreateTempTable(t) PROVE CallsInv'
  BY <1>9 DEF CreateTempTable, Idle, Enters
<1>10. ASSUME NEW t \in Threads, ReleaseTemporal(t) PROVE CallsInv'
  BY <1>10 DEF ReleaseTemporal, Idle, Enters
<1>11. ASSUME NEW t \in Threads, Truncate(t) PROVE CallsInv'
  BY <1>11 DEF Truncate
<1>12. ASSUME NEW t \in Threads, WriteHeader(t) PROVE CallsInv'
  BY <1>12 DEF WriteHeader, Header
<1>13. ASSUME NEW t \in Threads, ListWritten(t) PROVE CallsInv'
  BY <1>13 DEF ListWritten
<1>14. ASSUME NEW t \in Threads, SyncAllTablesContent(t) PROVE CallsInv'
  BY <1>14 DEF SyncAllTablesContent, Idle, Enters
<1>15. ASSUME NEW t \in Threads, MarkClosed(t) PROVE CallsInv'
  <2>1. loaded /\ repair.step = "free" /\ dbHandle # {} /\ ~creating
    BY <1>15, <1>l DEF MarkClosed
  <2>2. file'.form = file.form /\ file.form = "header"
    BY <1>15, <2>1 DEF MarkClosed, ListInv
  <2> QED
    BY <1>15, <1>l, <2>1, <2>2 DEF MarkClosed
<1>16. ASSUME NEW t \in Threads, MarkToRepair(t) PROVE CallsInv'
  BY <1>16 DEF MarkToRepair, Idle, Enters
<1>17. ASSUME NEW t \in Threads, OpenToRepair(t) PROVE CallsInv'
  <2>1. file.names \subseteq mTables'
    BY <1>17, LoadReads DEF OpenToRepair, TypeOK
  <2> QED
    BY <1>17, <2>1 DEF OpenToRepair, LoadHandler
<1>18. ASSUME NEW t \in Threads, AllRepaired(t) PROVE CallsInv'
  BY <1>18 DEF AllRepaired, ReleaseRepaired
<1>19. ASSUME NEW t \in Threads, NEW n \in Names, RetrievePersistentTable(t, n) PROVE CallsInv'
  BY <1>19 DEF RetrievePersistentTable, Idle, Enters
<1>20. ASSUME NEW t \in Threads, NEW n \in Names, ReleaseTable(t, n) PROVE CallsInv'
  BY <1>20 DEF ReleaseTable, Idle, Enters, Flushed
<1>21. ASSUME NEW t \in Threads, NEW n \in Names, AddTable(t, n) PROVE CallsInv'
  BY <1>21 DEF AddTable, Idle, Enters, Flushed
<1>22. ASSUME NEW t \in Threads, NEW n \in Names, Unheld(n), DeleteTable(t, n) PROVE CallsInv'
  <2>1. loaded /\ repair.step = "free" /\ mRefCount # 0
    BY <1>22, <1>l, <1>f DEF DeleteTable, Enters, Idle, UsersFacts
  <2> QED
    BY <1>22, <1>l, <2>1 DEF DeleteTable, Enters, Idle
<1>23. ASSUME NEW t \in Threads, NEW n \in Names, WriteName(t, n) PROVE CallsInv'
  BY <1>23 DEF WriteName, IsFirst
<1>24. ASSUME NEW t \in Threads, NEW n \in Names, ModifyTable(t, n) PROVE CallsInv'
  <2>1. loaded /\ repair.step = "free" /\ mSync.step = "free" /\ ~creating
    BY <1>24, <1>l DEF ModifyTable, Enters, Idle
  <2>2. file'.form = file.form /\ file.form = "header"
    BY <1>24, <2>1 DEF ModifyTable, NotifyDatabaseUpdate, ListInv
  <2> QED
    BY <1>24, <1>l, <2>1, <2>2 DEF ModifyTable
<1>25. ASSUME NEW t \in Threads, NEW n \in Names, SyncTableContent(t, n) PROVE CallsInv'
  BY <1>25 DEF SyncTableContent, Idle, Enters, Flushed
<1>26. ASSUME NEW t \in Threads, NEW n \in Names, FlushTable(t, n) PROVE CallsInv'
  BY <1>26 DEF FlushTable, IsFirst, Flushed
<1>27. ASSUME NEW t \in Threads, NEW n \in Names, RemoveTable(t, n) PROVE CallsInv'
  BY <1>27 DEF RemoveTable, IsFirst
<1>28. ASSUME NEW t \in Threads, NEW n \in Names, RepairTable(t, n) PROVE CallsInv'
  <2>1. dbHandle = {} /\ dbsSync.step = "free" /\ file.form = "header"
        /\ loaded /\ mSync.step = "free" /\ mSync.by = None /\ mSync.table = None
    BY <1>28, <1>l DEF RepairTable
  <2>2. CASE repair' = Taken(t, "tables", None, repair.left \ {n})
             /\ UNCHANGED <<file, manager, handler, mSync, dbsSync, creating, handles>>
    BY <1>28, <1>l, <2>1, <2>2 DEF RepairTable
  <2>3. CASE repair' = Free
             /\ UNCHANGED <<file, manager, handler, mSync, dbsSync, creating, handles>>
    BY <1>28, <1>l, <2>1, <2>3 DEF RepairTable
  <2>4. CASE ReleaseRepaired(t)
    BY <1>28, <1>l, <2>1, <2>4 DEF ReleaseRepaired
  <2> QED
    BY <1>28, <2>2, <2>3, <2>4 DEF RepairTable
<1>29. CASE UNCHANGED vars
  BY <1>29 DEF vars
<1> QED
  BY <1>1, <1>2, <1>3, <1>4, <1>5, <1>6, <1>7, <1>8, <1>9, <1>10, <1>11, <1>12, <1>13, <1>14, <1>15, <1>16, <1>17, <1>18, <1>19, <1>20, <1>21, <1>22, <1>23, <1>24, <1>25, <1>26, <1>27, <1>28, <1>29 DEF Next, Call, TableCall

LEMMA UsersStep == IInv /\ [Next]_vars => UsersInv'
<1> SUFFICES ASSUME IInv, [Next]_vars PROVE UsersInv'
  OBVIOUS
<1>f. UsersFacts
  BY UsersCounted DEF IInv
<1>l. /\ mSync.step \in {"free", "truncate", "header", "names", "flush"}
      /\ dbsSync.step \in {"free", "clear", "tables"}
      /\ repair.step \in {"free", "open", "tables"}
      /\ mSync.table \in Names \cup {None}
  BY LockFields DEF IInv, TypeOK
<1>h. UNCHANGED held => \A n : Holders(n)' = Holders(n)
  BY DEF Holders
<1>c. \A n \in Names : Cardinality(Holders(n)) \in Nat /\ uses[n] \in Nat
                       /\ Holders(n) \in SUBSET Threads
  BY CountThreads DEF Holders, IInv, TypeOK
<1>d. Cardinality(dbHandle) \in Nat /\ Cardinality({}) = 0
  BY CountThreads, FS_EmptySet DEF IInv, TypeOK
<1>k. ASSUME NEW m \in Names, UNCHANGED held, uses'[m] = uses[m],
             m \in open' <=> m \in open
      PROVE  TableCounted(m)'
  BY <1>k, <1>h DEF TableCounted, IInv, UsersInv
<1>z. ASSUME NEW m \in Names, Holders(m)' = {}, uses'[m] \in Nat,
             m \in open' => uses'[m] >= 1
      PROVE  TableCounted(m)'
  BY <1>z, <1>d DEF TableCounted
<1>e. dbHandle = {} => \A m \in Names : Holders(m) = {}
  BY <1>f DEF IInv, UsersInv, UsersFacts, TableCounted
<1>u. ASSUME UNCHANGED <<loaded, mRefCount, dbHandle, mTables, open, uses,
                         mCreatedTemporalTables, held, temporals>>,
             mSync'.step \in {"truncate", "header", "names"} /\ mSync'.table # None
               => Holders(mSync'.table) = {}
      PROVE  UsersInv'
  <2>1. \A m \in Names : TableCounted(m)'
    BY <1>k, <1>u
  <2> QED
    BY <1>u, <1>h, <2>1 DEF IInv, UsersInv
<1> USE DbsManagerAssumption DEF IInv, UsersInv, TypeOK, Free, IsFree, Taken, FileIs, Flagged, NoFile, EmptyFile, NewFile
<1>1. CASE DBSCreateDatabase
  BY <1>1, <1>u, <1>l DEF DBSCreateDatabase
<1>2. CASE CreateHeader
  BY <1>2, <1>u, <1>l DEF CreateHeader
<1>3. CASE Crash
  <2>1. ASSUME NEW m \in Names PROVE TableCounted(m)'
    <3>1. Holders(m)' = {} /\ uses'[m] = 0 /\ m \notin open'
      BY <1>3 DEF Crash, Holders
    <3> QED
      BY <1>z, <3>1
  <2> QED
    BY <1>3, <1>d, <2>1 DEF Crash
<1>4. ASSUME NEW t \in Threads, DBSRetrieveDatabase(t) PROVE UsersInv'
  <2>1. Cardinality(dbHandle') \in Nat /\ Cardinality(dbHandle') <= mRefCount'
    BY <1>4, <1>d, CountThreads, SMTT(30) DEF DBSRetrieveDatabase
  <2>2. t \in dbHandle' /\ dbHandle' # {} /\ UNCHANGED <<mSync, held, temporals>>
    BY <1>4 DEF DBSRetrieveDatabase
  <2>3. CASE loaded /\ UNCHANGED <<loaded, handler, file>>
    <3>1. \A m \in Names : TableCounted(m)'
      BY <1>k, <2>2, <2>3
    <3> QED
      BY <1>h, <2>1, <2>2, <2>3, <3>1

  <2>4. CASE ~loaded /\ LoadHandler
    <3>1. dbHandle = {} /\ open = {} /\ temporals = {} /\ Cardinality(temporals) = 0
      BY <1>f, <1>d, <2>4 DEF UsersFacts
    <3>2. ASSUME NEW m \in Names PROVE TableCounted(m)'
      <4>1. Holders(m)' = {} /\ uses'[m] = 0 /\ m \notin open'
        BY <1>4, <1>h, <1>e, <2>4, <3>1 DEF LoadHandler, DBSRetrieveDatabase
      <4> QED
        BY <1>z, <4>1
    <3>3. mSync.step = "free"
      BY <3>1, <1>l DEF CallsInv
    <3> QED
      BY <1>h, <2>1, <2>2, <2>4, <3>1, <3>2, <3>3 DEF LoadHandler
  <2> QED
    BY <1>4, <2>3, <2>4 DEF DBSRetrieveDatabase, FindOrLoad
<1>5. ASSUME NEW t \in Threads, DBSReleaseDatabase(t) PROVE UsersInv'
  <2>1. Cardinality(dbHandle') \in Nat /\ Cardinality(dbHandle') <= mRefCount'
        /\ mRefCount # 0
    BY <1>5, <1>d, <1>f, CountThreads DEF DBSReleaseDatabase, UsersFacts
  <2>2. open = {} /\ mCreatedTemporalTables = 0 /\ temporals = {} /\ loaded
        /\ UNCHANGED <<open, uses, mCreatedTemporalTables, temporals, held, mSync>>
    BY <1>5, <1>f DEF DBSReleaseDatabase, HasUnreleasedTables, UsersFacts
  <2>3. \A m \in Names : TableCounted(m)'
    BY <1>k, <2>2
  <2>4. CASE mRefCount # 1
    BY <1>5, <1>h, <2>1, <2>2, <2>3, <2>4 DEF DBSReleaseDatabase
  <2>5. CASE mRefCount = 1
    <3>1. dbHandle' = {}
      BY <1>5, <1>f, <2>5 DEF DBSReleaseDatabase, UsersFacts
    <3> QED
      BY <1>5, <1>h, <2>1, <2>2, <2>3, <2>5, <3>1 DEF DBSReleaseDatabase
  <2> QED
    BY <2>4, <2>5
<1>6. ASSUME NEW t \in Threads, ClearFlags(t) PROVE UsersInv'
  BY <1>6, <1>u, <1>l DEF ClearFlags
<1>7. ASSUME NEW t \in Threads, DBSRemoveDatabase(t) PROVE UsersInv'
  <2>1. dbHandle = {} /\ UNCHANGED <<mSync, dbHandle, mRefCount, held, temporals>>
    BY <1>7, <1>f DEF DBSRemoveDatabase, UsersFacts
  <2>2. CASE loaded /\ UNCHANGED <<loaded, handler, file>>
    <3>1. \A m \in Names : TableCounted(m)'
      BY <1>k, <2>1, <2>2
    <3> QED
      BY <1>h, <2>1, <2>2, <3>1

  <2>3. CASE ~loaded /\ LoadHandler
    <3>1. dbHandle = {} /\ open = {} /\ temporals = {} /\ Cardinality(temporals) = 0
      BY <1>f, <1>d, <2>3 DEF UsersFacts
    <3>2. ASSUME NEW m \in Names PROVE TableCounted(m)'
      <4>1. Holders(m)' = {} /\ uses'[m] = 0 /\ m \notin open'
        BY <1>7, <1>h, <1>e, <2>3, <3>1 DEF LoadHandler, DBSRemoveDatabase
      <4> QED
        BY <1>z, <4>1
    <3>3. mSync.step = "free"
      BY <3>1, <1>l DEF CallsInv
    <3> QED
      BY <1>h, <2>1, <2>3, <3>1, <3>2, <3>3 DEF LoadHandler
  <2> QED
    BY <1>7, <2>2, <2>3 DEF DBSRemoveDatabase, FindOrLoad
<1>8. ASSUME NEW t \in Threads, RemoveFile(t) PROVE UsersInv'
  <2>1. dbHandle = {} /\ open = {} /\ mSync.step = "free"
    BY <1>8, <1>f, <1>l DEF RemoveFile, CallsInv, UsersFacts
  <2>2. \A m \in Names : TableCounted(m)'
    BY <1>8, <1>k DEF RemoveFile
  <2> QED
    BY <1>8, <1>h, <2>1, <2>2 DEF RemoveFile
<1>9. ASSUME NEW t \in Threads, CreateTempTable(t) PROVE UsersInv'
  <2>1. mCreatedTemporalTables' = Cardinality(temporals')
    BY <1>9, CountThreads DEF CreateTempTable
  <2>2. \A m \in Names : TableCounted(m)'
    BY <1>9, <1>k DEF CreateTempTable
  <2> QED
    BY <1>9, <1>h, <2>1, <2>2 DEF CreateTempTable, Enters
<1>10. ASSUME NEW t \in Threads, ReleaseTemporal(t) PROVE UsersInv'
  <2>1. mCreatedTemporalTables' = Cardinality(temporals')
    BY <1>10, CountThreads DEF ReleaseTemporal
  <2>2. \A m \in Names : TableCounted(m)'
    BY <1>10, <1>k DEF ReleaseTemporal
  <2> QED
    BY <1>10, <1>h, <2>1, <2>2 DEF ReleaseTemporal, Enters
<1>11. ASSUME NEW t \in Threads, Truncate(t) PROVE UsersInv'
  BY <1>11, <1>u, <1>l DEF Truncate
<1>12. ASSUME NEW t \in Threads, WriteHeader(t) PROVE UsersInv'
  BY <1>12, <1>u, <1>l DEF WriteHeader
<1>13. ASSUME NEW t \in Threads, ListWritten(t) PROVE UsersInv'
  <2>1. ASSUME NEW m \in Names PROVE TableCounted(m)'
    <3>1. CASE m = mSync.table
      <4>1. Holders(m)' = {} /\ uses'[m] = 0 /\ m \notin open'
        BY <1>13, <1>h, <3>1, DbsManagerAssumption DEF ListWritten
      <4> QED
        BY <1>z, <4>1
    <3>2. CASE m # mSync.table
      <4>1. UNCHANGED held /\ uses'[m] = uses[m] /\ (m \in open' <=> m \in open)
        BY <1>13, <3>2 DEF ListWritten
      <4> QED
        BY <1>k, <4>1
    <3> QED
      BY <3>1, <3>2
  <2> QED
    BY <1>13, <2>1 DEF ListWritten
<1>14. ASSUME NEW t \in Threads, SyncAllTablesContent(t) PROVE UsersInv'
  BY <1>14, <1>u, <1>l DEF SyncAllTablesContent
<1>15. ASSUME NEW t \in Threads, MarkClosed(t) PROVE UsersInv'
  BY <1>15, <1>u, <1>l DEF MarkClosed
<1>16. ASSUME NEW t \in Threads, MarkToRepair(t) PROVE UsersInv'
  BY <1>16, <1>u, <1>l DEF MarkToRepair
<1>17. ASSUME NEW t \in Threads, OpenToRepair(t) PROVE UsersInv'
  <2>1. dbHandle = {} /\ open = {} /\ temporals = {} /\ mSync.step = "free"
        /\ Cardinality(dbHandle) = 0 /\ Cardinality(temporals) = 0
    BY <1>17, <1>f, <1>l, <1>d DEF OpenToRepair, CallsInv, UsersFacts
  <2>2. ASSUME NEW m \in Names PROVE TableCounted(m)'
    <3>1. Holders(m)' = {} /\ uses'[m] = 0 /\ m \notin open'
      BY <1>17, <1>h, <1>e, <2>1 DEF LoadHandler, OpenToRepair
    <3> QED
      BY <1>z, <3>1
  <2> QED
    BY <1>17, <2>1, <2>2 DEF OpenToRepair, LoadHandler
<1>18. ASSUME NEW t \in Threads, AllRepaired(t) PROVE UsersInv'
  <2>1. dbHandle = {} /\ open = {} /\ temporals = {} /\ mSync.step = "free"
        /\ Cardinality(dbHandle) = 0
    BY <1>18, <1>f, <1>l, <1>d DEF AllRepaired, CallsInv, UsersFacts
  <2>2. \A m \in Names : TableCounted(m)'
    BY <1>18, <1>k DEF AllRepaired, ReleaseRepaired
  <2> QED
    BY <1>18, <2>1, <2>2 DEF AllRepaired, ReleaseRepaired
<1>19. ASSUME NEW t \in Threads, NEW n \in Names, RetrievePersistentTable(t, n) PROVE UsersInv'
  <2>1. Holders(n)' = Holders(n) \cup {t} /\ t \notin Holders(n)
        /\ \A m : m # n => Holders(m)' = Holders(m)
    BY <1>19 DEF RetrievePersistentTable, Holders
  <2>2. Cardinality(Holders(n)') = Cardinality(Holders(n)) + 1
        /\ Cardinality(Holders(n)) \in Nat
    BY <1>c, <2>1, CountThreads
  <2>3. ASSUME NEW m \in Names PROVE TableCounted(m)'
    <3>1. CASE m # n
      BY <1>19, <2>1, <3>1 DEF RetrievePersistentTable, TableCounted
    <3>2. CASE m = n /\ n \notin open
      <4>1. Holders(n) = {} /\ Cardinality(Holders(n)) = 0
        BY <1>d, <3>2 DEF TableCounted
      <4>2. uses'[n] = 1 /\ n \in open'
        BY <1>19, <3>2 DEF RetrievePersistentTable
      <4>3. TableCounted(n)'
        BY <2>1, <2>2, <3>2, <4>1, <4>2 DEF TableCounted
      <4> QED
        BY <4>3, <3>2
    <3>3. CASE m = n /\ n \in open
      <4>1. uses'[n] = uses[n] + 2 /\ n \in open' /\ uses[n] \in Nat
            /\ uses[n] >= Cardinality(Holders(n))
        BY <1>19, <1>c, <3>3 DEF RetrievePersistentTable, TableCounted
      <4>2. TableCounted(n)'
        BY <2>1, <2>2, <3>3, <4>1 DEF TableCounted
      <4> QED
        BY <4>2, <3>3
    <3> QED
      BY <3>1, <3>2, <3>3
  <2>4. mSync.step = "free"
    BY <1>19, <1>l DEF RetrievePersistentTable, Enters, CallsInv
  <2> QED
    BY <1>19, <2>3, <2>4 DEF RetrievePersistentTable, Enters
<1>20. ASSUME NEW t \in Threads, NEW n \in Names, ReleaseTable(t, n) PROVE UsersInv'
  <2>1. Holders(n)' = Holders(n) \ {t} /\ t \in Holders(n)
        /\ \A m : m # n => Holders(m)' = Holders(m)
    BY <1>20 DEF ReleaseTable, Holders
  <2>2. Cardinality(Holders(n)') = Cardinality(Holders(n)) - 1
        /\ Cardinality(Holders(n)) \in Nat
    BY <1>c, <2>1, CountThreads
  <2>3. uses'[n] = uses[n] - 1 /\ uses[n] \in Nat /\ uses[n] # 0
        /\ uses[n] >= Cardinality(Holders(n)) /\ n \in open
        /\ (uses[n] = 1 => Holders(n) = {t})
    BY <1>20, <1>c, <1>f DEF ReleaseTable, TableCounted, UsersFacts
  <2>4. ASSUME NEW m \in Names PROVE TableCounted(m)'
    <3>1. CASE m # n
      BY <1>20, <2>1, <3>1 DEF ReleaseTable, TableCounted
    <3>2. CASE m = n /\ uses[n] # 1
      <4>1. n \in open'
        BY <1>20, <2>3, <3>2 DEF ReleaseTable
      <4>2. TableCounted(n)'
        BY <2>1, <2>2, <2>3, <3>2, <4>1 DEF TableCounted
      <4> QED
        BY <4>2, <3>2
    <3>3. CASE m = n /\ uses[n] = 1
      <4>1. Holders(n)' = {} /\ n \notin open'
        BY <1>20, <2>1, <2>3, <3>3 DEF ReleaseTable
      <4>2. TableCounted(n)'
        BY <2>1, <2>2, <2>3, <3>3, <4>1 DEF TableCounted
      <4> QED
        BY <4>2, <3>3
    <3> QED
      BY <3>1, <3>2, <3>3
  <2>5. mSync.step = "free"
    BY <1>20, <1>l DEF ReleaseTable, Enters, CallsInv
  <2> QED
    BY <1>20, <2>4, <2>5 DEF ReleaseTable, Enters
<1>21. ASSUME NEW t \in Threads, NEW n \in Names, AddTable(t, n) PROVE UsersInv'
  <2>1. loaded /\ mSync.step = "free" /\ repair.step = "free"
    BY <1>21, <1>l DEF AddTable, Enters, Idle, CallsInv
  <2>2. Holders(n) = {} /\ Holders(n)' = {}
    BY <1>21, <1>h DEF AddTable, TableCounted, TypeOK
  <2>3. ASSUME NEW m \in Names PROVE TableCounted(m)'
    <3>1. CASE m # n
      BY <1>21, <1>k, <3>1 DEF AddTable
    <3>2. CASE m = n
      <4>1. uses'[n] = 1
        BY <1>21 DEF AddTable
      <4> QED
        BY <1>z, <2>2, <3>2, <4>1
    <3> QED
      BY <3>1, <3>2
  <2> QED
    BY <1>21, <2>1, <2>2, <2>3 DEF AddTable, Enters
<1>22. ASSUME NEW t \in Threads, NEW n \in Names, Unheld(n), DeleteTable(t, n) PROVE UsersInv'
  <2>1. loaded /\ mSync.step = "free"
    BY <1>22, <1>l DEF DeleteTable, Enters, Idle, CallsInv
  <2>2. Holders(n) = {} /\ Holders(n)' = {}
    BY <1>22, <1>h DEF DeleteTable, Unheld, Holders
  <2>3. ASSUME NEW m \in Names PROVE TableCounted(m)'
    <3>1. CASE m # n
      BY <1>22, <1>k, <3>1 DEF DeleteTable
    <3>2. CASE m = n
      <4>1. uses'[n] = 0 /\ n \notin open'
        BY <1>22 DEF DeleteTable
      <4> QED
        BY <1>z, <2>2, <3>2, <4>1
    <3> QED
      BY <3>1, <3>2
  <2> QED
    BY <1>22, <2>1, <2>2, <2>3 DEF DeleteTable, Enters
<1>23. ASSUME NEW t \in Threads, NEW n \in Names, WriteName(t, n) PROVE UsersInv'
  BY <1>23, <1>u, <1>l DEF WriteName
<1>24. ASSUME NEW t \in Threads, NEW n \in Names, ModifyTable(t, n) PROVE UsersInv'
  BY <1>24, <1>u, <1>l DEF ModifyTable, NotifyDatabaseUpdate
<1>25. ASSUME NEW t \in Threads, NEW n \in Names, SyncTableContent(t, n) PROVE UsersInv'
  BY <1>25, <1>u, <1>l DEF SyncTableContent
<1>26. ASSUME NEW t \in Threads, NEW n \in Names, FlushTable(t, n) PROVE UsersInv'
  BY <1>26, <1>u, <1>l DEF FlushTable
<1>27. ASSUME NEW t \in Threads, NEW n \in Names, RemoveTable(t, n) PROVE UsersInv'
  BY <1>27, <1>u, <1>l DEF RemoveTable
<1>28. ASSUME NEW t \in Threads, NEW n \in Names, RepairTable(t, n) PROVE UsersInv'
  <2>1. dbHandle = {} /\ open = {} /\ temporals = {} /\ mSync.step = "free"
        /\ Cardinality(dbHandle) = 0
    BY <1>28, <1>f, <1>l, <1>d DEF RepairTable, CallsInv, UsersFacts
  <2>2. UNCHANGED <<held, uses, open, mSync, dbHandle, temporals, mCreatedTemporalTables>>
    BY <1>28 DEF RepairTable, ReleaseRepaired
  <2>3. \A m \in Names : TableCounted(m)'
    BY <1>k, <2>2
  <2>4. CASE UNCHANGED <<manager, mTables>>
    BY <1>u, <2>1, <2>2, <2>4
  <2>5. CASE ReleaseRepaired(t)
    BY <2>1, <2>3, <1>28, <2>5 DEF RepairTable, ReleaseRepaired
  <2> QED
    BY <1>28, <2>4, <2>5 DEF RepairTable
<1>29. CASE UNCHANGED vars
  <2>1. \A m \in Names : TableCounted(m)'
    BY <1>29, <1>k DEF vars
  <2> QED
    BY <1>29, <1>h, <2>1 DEF vars
<1> QED
  BY <1>1, <1>2, <1>3, <1>4, <1>5, <1>6, <1>7, <1>8, <1>9, <1>10, <1>11, <1>12, <1>13, <1>14, <1>15, <1>16, <1>17, <1>18, <1>19, <1>20, <1>21, <1>22, <1>23, <1>24, <1>25, <1>26, <1>27, <1>28, <1>29 DEF Next, Call, TableCall

LEMMA ListStep == IInv /\ [Next]_vars => ListInv'
<1> SUFFICES ASSUME IInv, [Next]_vars PROVE ListInv'
  OBVIOUS
<1>f. UsersFacts
  BY UsersCounted DEF IInv
<1>l. /\ file.form \in {"none", "empty", "header"}
      /\ file.count \in Nat /\ file.names \in SUBSET Names
      /\ file.notClosed \in BOOLEAN /\ file.toRepair \in BOOLEAN
      /\ mSync.step \in {"free", "truncate", "header", "names", "flush"}
      /\ dbsSync.step \in {"free", "clear", "tables"}
      /\ repair.step \in {"free", "open", "tables"}
      /\ mSync.table \in Names \cup {None} /\ mTables \in SUBSET Names
  BY FileFields, LockFields DEF IInv, TypeOK
<1>c. Cardinality({}) = 0
  BY FS_EmptySet
<1>m. mSync.step # "free" => loaded /\ dbsSync.step # "clear"
                             /\ repair.step = "free" /\ dbHandle # {}
  BY <1>l DEF IInv, CallsInv, UsersInv
<1>n. LoadHandler /\ Whole(file) => mTables' = file.names
  BY LoadReads DEF IInv, TypeOK
<1> USE DbsManagerAssumption DEF IInv, ListInv, CallsInv, Whole, Accepts, Free, IsFree, Taken, FileIs, Flagged, NoFile, EmptyFile, NewFile
<1>1. CASE DBSCreateDatabase
  BY <1>1, <1>l, <1>f, <1>c DEF DBSCreateDatabase
<1>2. CASE CreateHeader
  <2>1. ~loaded /\ dbsSync.step = "free" /\ mSync.step = "free"
    BY <1>2, <1>m DEF CreateHeader
  <2> QED
    BY <1>2, <1>c, <2>1 DEF CreateHeader
<1>3. CASE Crash
  BY <1>3, <1>l, <1>f, <1>c DEF Crash
<1>4. ASSUME NEW t \in Threads, DBSRetrieveDatabase(t) PROVE ListInv'
  <2>1. repair.step = "free" /\ dbsSync.step = "free"
    BY <1>4, <1>l DEF DBSRetrieveDatabase, Idle
  <2>2. CASE loaded /\ UNCHANGED <<loaded, handler, file>>
    BY <1>4, <1>l, <1>m, <2>1, <2>2 DEF DBSRetrieveDatabase
  <2>3. CASE ~loaded /\ LoadHandler
    <3>1. mSync.step = "free" /\ file.form = "header" /\ file'.form = "header"
          /\ file'.names = file.names /\ file'.count = file.count
          /\ file'.toRepair = FALSE
      BY <1>m, <2>3 DEF LoadHandler
    <3>2. ~short => Cardinality(file.names) = file.count /\ mTables' = file.names
      BY <1>n, <2>3 DEF LoadHandler
    <3>3. UNCHANGED <<mSync, repair, short>> /\ dbsSync'.step # "clear"
      BY <1>4, <2>1 DEF DBSRetrieveDatabase
    <3> QED
      BY <2>1, <3>1, <3>2, <3>3
  <2> QED
    BY <1>4, <2>2, <2>3 DEF DBSRetrieveDatabase, FindOrLoad
<1>5. ASSUME NEW t \in Threads, DBSReleaseDatabase(t) PROVE ListInv'
  <2>1. loaded /\ repair.step = "free" /\ dbsSync.step = "free" /\ mSync.by # t
    BY <1>5, <1>l DEF DBSReleaseDatabase, Idle, UsersInv
  <2>2. CASE mRefCount # 1
    BY <1>5, <2>1, <2>2 DEF DBSReleaseDatabase
  <2>3. CASE mRefCount = 1
    <3>1. mSync.step = "free"
      BY <1>5, <1>f, <2>1, <2>3 DEF UsersFacts, DBSReleaseDatabase
    <3> QED
      BY <1>5, <2>1, <2>3, <3>1 DEF DBSReleaseDatabase
  <2> QED
    BY <2>2, <2>3
<1>6. ASSUME NEW t \in Threads, ClearFlags(t) PROVE ListInv'
  <2>1. ~loaded /\ mSync.step = "free" /\ file.form = "header"
        /\ (~short => Cardinality(file.names) = file.count)
    BY <1>6, <1>m DEF ClearFlags
  <2>2. file'.form = file.form /\ file'.names = file.names
        /\ file'.count = file.count /\ file'.toRepair = FALSE
    BY <1>6 DEF ClearFlags
  <2> QED
    BY <1>6, <2>1, <2>2 DEF ClearFlags
<1>7. ASSUME NEW t \in Threads, DBSRemoveDatabase(t) PROVE ListInv'
  <2>1. repair.step = "free" /\ dbsSync.step = "free"
    BY <1>7, <1>l DEF DBSRemoveDatabase, Idle
  <2>2. CASE loaded /\ UNCHANGED <<loaded, handler, file>>
    BY <1>7, <1>l, <1>m, <2>1, <2>2 DEF DBSRemoveDatabase
  <2>3. CASE ~loaded /\ LoadHandler
    <3>1. mSync.step = "free" /\ file.form = "header" /\ file'.form = "header"
          /\ file'.names = file.names /\ file'.count = file.count
          /\ file'.toRepair = FALSE
      BY <1>m, <2>3 DEF LoadHandler
    <3>2. ~short => Cardinality(file.names) = file.count /\ mTables' = file.names
      BY <1>n, <2>3 DEF LoadHandler
    <3>3. UNCHANGED <<mSync, repair, short>> /\ dbsSync'.step # "clear"
      BY <1>7, <2>1 DEF DBSRemoveDatabase
    <3> QED
      BY <2>1, <3>1, <3>2, <3>3
  <2> QED
    BY <1>7, <2>2, <2>3 DEF DBSRemoveDatabase, FindOrLoad
<1>8. ASSUME NEW t \in Threads, RemoveFile(t) PROVE ListInv'
  <2>1. mSync.step = "free" /\ repair.step = "free"
    BY <1>8, <1>f, <1>l, <1>m DEF RemoveFile, UsersFacts
  <2> QED
    BY <1>8, <2>1 DEF RemoveFile
<1>9. ASSUME NEW t \in Threads, CreateTempTable(t) PROVE ListInv'
  BY <1>9, <1>l, <1>f, <1>c DEF CreateTempTable, Idle, Enters
<1>10. ASSUME NEW t \in Threads, ReleaseTemporal(t) PROVE ListInv'
  BY <1>10, <1>l, <1>f, <1>c DEF ReleaseTemporal, Idle, Enters
<1>11. ASSUME NEW t \in Threads, Truncate(t) PROVE ListInv'
  <2>1. dbsSync.step # "clear"
    BY <1>11, <1>m DEF Truncate
  <2> QED
    BY <1>11, <2>1 DEF Truncate
<1>12. ASSUME NEW t \in Threads, WriteHeader(t) PROVE ListInv'
  BY <1>12, <1>l, <1>f, <1>c DEF WriteHeader, Header
<1>13. ASSUME NEW t \in Threads, ListWritten(t) PROVE ListInv'
  BY <1>13, <1>l, <1>f, <1>c DEF ListWritten
<1>14. ASSUME NEW t \in Threads, SyncAllTablesContent(t) PROVE ListInv'
  BY <1>14, <1>l, <1>f, <1>c DEF SyncAllTablesContent, Idle, Enters
<1>15. ASSUME NEW t \in Threads, MarkClosed(t) PROVE ListInv'
  <2>1. loaded /\ dbsSync.step # "clear" /\ repair.step = "free"
        /\ file.form = "header"
        /\ (~short => Cardinality(file.names) = file.count /\ file.names = mTables)
    BY <1>15, <1>m DEF MarkClosed
  <2>2. file'.form = file.form /\ file'.names = file.names
        /\ file'.count = file.count /\ file'.toRepair = file.toRepair
    BY <1>15 DEF MarkClosed
  <2> QED
    BY <1>15, <2>1, <2>2 DEF MarkClosed
<1>16. ASSUME NEW t \in Threads, MarkToRepair(t) PROVE ListInv'
  <2>1. ~loaded /\ dbsSync.step = "free" /\ mSync.step = "free"
    BY <1>16, <1>m DEF MarkToRepair
  <2>2. /\ file'.form = file.form /\ file'.names = file.names
        /\ file'.count = file.count /\ file'.toRepair = TRUE
        /\ repair'.step = "open" /\ UNCHANGED <<loaded, mSync, dbsSync>>
    BY <1>16 DEF MarkToRepair
  <2>3. ~short' => Cardinality(file.names) = file.count
    BY <1>16 DEF MarkToRepair
  <2> QED
    BY <2>1, <2>2, <2>3
<1>17. ASSUME NEW t \in Threads, OpenToRepair(t) PROVE ListInv'
  <2>1. mSync.step = "free" /\ dbsSync.step = "free" /\ file.form = "header"
        /\ file.toRepair
    BY <1>17, <1>m DEF OpenToRepair
  <2>2. /\ file'.form = file.form /\ file'.names = file.names
        /\ file'.count = file.count /\ file'.toRepair = FALSE
        /\ repair'.step = "tables" /\ UNCHANGED <<mSync, dbsSync, short>>
    BY <1>17 DEF OpenToRepair, LoadHandler
  <2>3. ~short => Cardinality(file.names) = file.count /\ mTables' = file.names
    BY <1>17, <1>n, <2>1 DEF OpenToRepair
  <2> QED
    BY <2>1, <2>2, <2>3
<1>18. ASSUME NEW t \in Threads, AllRepaired(t) PROVE ListInv'
  BY <1>18, <1>l, <1>f, <1>c DEF AllRepaired, ReleaseRepaired
<1>19. ASSUME NEW t \in Threads, NEW n \in Names, RetrievePersistentTable(t, n) PROVE ListInv'
  BY <1>19, <1>l, <1>f, <1>c DEF RetrievePersistentTable, Idle, Enters
<1>20. ASSUME NEW t \in Threads, NEW n \in Names, ReleaseTable(t, n) PROVE ListInv'
  BY <1>20, <1>l, <1>f, <1>c DEF ReleaseTable, Idle, Enters, Flushed
<1>21. ASSUME NEW t \in Threads, NEW n \in Names, AddTable(t, n) PROVE ListInv'
  <2>1. loaded /\ mSync.step = "free" /\ dbsSync.step # "clear"
    BY <1>21, <1>l DEF AddTable, Enters, UsersInv
  <2>2. mSync'.step = "truncate" /\ mTables' \ {mSync'.table} \subseteq mTables
    BY <1>21 DEF AddTable
  <2> QED
    BY <1>21, <2>1, <2>2 DEF AddTable
<1>22. ASSUME NEW t \in Threads, NEW n \in Names, Unheld(n), DeleteTable(t, n) PROVE ListInv'
  <2>1. loaded /\ mSync.step = "free" /\ dbsSync.step # "clear"
    BY <1>22, <1>l DEF DeleteTable, Enters, UsersInv
  <2>2. mSync'.step = "truncate" /\ mTables' \ {mSync'.table} \subseteq mTables
    BY <1>22 DEF DeleteTable
  <2> QED
    BY <1>22, <2>1, <2>2 DEF DeleteTable
<1>23. ASSUME NEW t \in Threads, NEW n \in Names, WriteName(t, n) PROVE ListInv'
  <2>1. dbsSync.step # "clear" /\ mSync.left \subseteq mTables /\ n \in mSync.left
        /\ file.names = mTables \ mSync.left /\ file.count = Cardinality(mTables)
    BY <1>23, <1>m DEF WriteName, IsFirst
  <2>2. file'.names = file.names \cup {n} /\ mSync'.left = mSync.left \ {n}
        /\ mSync'.step = "names" /\ file'.count = file.count
        /\ file'.form = "header" /\ file'.notClosed = TRUE
        /\ file'.toRepair = FALSE /\ UNCHANGED mTables
    BY <1>23 DEF WriteName
  <2>3. file'.names = mTables \ mSync'.left /\ mSync'.left \subseteq mTables
    BY <2>1, <2>2
  <2> QED
    BY <1>23, <2>1, <2>2, <2>3 DEF WriteName
<1>24. ASSUME NEW t \in Threads, NEW n \in Names, ModifyTable(t, n) PROVE ListInv'
  BY <1>24, <1>l, <1>f, <1>c DEF ModifyTable, Idle, Enters, NotifyDatabaseUpdate
<1>25. ASSUME NEW t \in Threads, NEW n \in Names, SyncTableContent(t, n) PROVE ListInv'
  BY <1>25, <1>l, <1>f, <1>c DEF SyncTableContent, Idle, Enters, Flushed
<1>26. ASSUME NEW t \in Threads, NEW n \in Names, FlushTable(t, n) PROVE ListInv'
  BY <1>26, <1>l, <1>f, <1>c DEF FlushTable, IsFirst, Flushed
<1>27. ASSUME NEW t \in Threads, NEW n \in Names, RemoveTable(t, n) PROVE ListInv'
  BY <1>27, <1>l, <1>f, <1>c DEF RemoveTable, IsFirst
<1>28. ASSUME NEW t \in Threads, NEW n \in Names, RepairTable(t, n) PROVE ListInv'
  <2>1. loaded /\ mSync.step = "free" /\ dbsSync.step = "free"
    BY <1>28, <1>m DEF RepairTable
  <2>6. UNCHANGED <<file, mSync>>
    BY <1>28 DEF RepairTable, ReleaseRepaired
  <2>7. repair' = Free \/ repair' = Taken(t, "tables", None, repair.left \ {n})
    BY <1>28 DEF RepairTable, ReleaseRepaired
  <2>2. UNCHANGED <<file, mSync>> /\ repair'.step # "open"
    BY <2>6, <2>7
  <2>5. givenUp => givenUp'
    BY <1>28, Zenon DEF RepairTable, ReleaseRepaired
  <2>8. short' = short
    BY <1>28 DEF RepairTable, ReleaseRepaired
  <2>3. CASE UNCHANGED <<manager, handler, dbsSync>>
    BY <2>1, <2>2, <2>3, <2>5, <2>8
  <2>4. CASE ReleaseRepaired(t)
    <3>1. loaded' = FALSE /\ dbsSync'.step = "clear"
      BY <2>4 DEF ReleaseRepaired
    <3> QED
      BY <2>1, <2>2, <2>5, <2>8, <3>1
  <2> QED
    BY <1>28, <2>3, <2>4 DEF RepairTable
<1>29. CASE UNCHANGED vars
  BY <1>29 DEF vars
<1> QED
  BY <1>1, <1>2, <1>3, <1>4, <1>5, <1>6, <1>7, <1>8, <1>9, <1>10, <1>11, <1>12, <1>13, <1>14, <1>15, <1>16, <1>17, <1>18, <1>19, <1>20, <1>21, <1>22, <1>23, <1>24, <1>25, <1>26, <1>27, <1>28, <1>29 DEF Next, Call, TableCall

LEMMA DataStep == IInv /\ [Next]_vars => DataInv'
<1> SUFFICES ASSUME IInv, [Next]_vars PROVE DataInv'
  OBVIOUS
<1>f. UsersFacts
  BY UsersCounted DEF IInv
<1>l. /\ file.form \in {"none", "empty", "header"}
      /\ file.count \in Nat /\ file.names \in SUBSET Names
      /\ file.notClosed \in BOOLEAN /\ file.toRepair \in BOOLEAN
      /\ mSync.step \in {"free", "truncate", "header", "names", "flush"}
      /\ dbsSync.step \in {"free", "clear", "tables"}
      /\ repair.step \in {"free", "open", "tables"}
      /\ mSync.table \in Names \cup {None} /\ mTables \in SUBSET Names
      /\ open \subseteq mTables
      /\ tableFiles \in [Names -> {"none", "current", "behind"}]
  BY FileFields, LockFields DEF IInv, TypeOK
<1>c. /\ IsFree(repair) <=> repair.step = "free"
      /\ IsFree(dbsSync) <=> dbsSync.step = "free"
      /\ IsFree(mSync) <=> mSync.step = "free"
  BY DEF IInv, CallsInv, IsFree
<1>m. mSync.step # "free" => loaded /\ dbsSync.step = "free"
                             /\ repair.step = "free" /\ dbHandle # {}
  BY <1>l, <1>f DEF IInv, CallsInv, UsersInv, UsersFacts
<1>g. repair.step # "free" => mSync.step = "free" /\ dbsSync.step = "free"
  BY <1>m DEF IInv, CallsInv
<1>d. /\ mNeedsSync /\ loaded /\ file.form = "header" => file.notClosed
      /\ mSync.step \in {"truncate", "header", "names"} /\ mSync.table # None =>
           tableFiles[mSync.table] = "current"
  BY DEF IInv, DataInv
<1>b. ~givenUp /\ ~short => \A n \in Names : Behind(n) => Known(n)
  BY DEF IInv, DataInv
<1>r. ~loaded /\ Accepts(file) /\ repair.step = "free" /\ ~givenUp /\ ~short =>
        \A n \in Names : ~Behind(n)
  <2>1. repair.step = "free" /\ ~givenUp => ~file.toRepair
    BY DEF IInv, ListInv
  <2> QED
    BY <1>l, <1>b, <2>1 DEF Accepts, Known
<1>o. open = {} /\ loaded /\ repair.step = "free" /\ ~givenUp /\ ~short =>
        \A n \in Names : ~Behind(n)
  BY <1>b DEF Known
<1> USE DbsManagerAssumption DEF Behind, Known, Whole, Accepts, Free, IsFree, Taken, FileIs, Flagged, NoFile, EmptyFile, NewFile
<1>1. CASE DBSCreateDatabase
  BY <1>1, <1>l, <1>f, <1>c, <1>m, <1>g, <1>d, <1>b DEF DataInv, DBSCreateDatabase
<1>2. CASE CreateHeader
  <2>1. ~loaded /\ mSync.step = "free"
    BY <1>2, <1>m DEF CreateHeader, IInv, CallsInv
  <2>2. ~givenUp /\ ~short => \A m \in Names : ~Behind(m)
    BY <1>2, <1>b DEF CreateHeader, Known
  <2> QED
    BY <1>2, <2>1, <2>2 DEF CreateHeader, DataInv
<1>3. CASE Crash
  BY <1>3, <1>l, <1>f, <1>c, <1>m, <1>g, <1>d, <1>b DEF DataInv, Crash
<1>4. ASSUME NEW t \in Threads, DBSRetrieveDatabase(t) PROVE DataInv'
  <2>1. repair.step = "free" /\ dbsSync.step = "free"
    BY <1>4, <1>c DEF DBSRetrieveDatabase, Idle
  <2>2. CASE loaded /\ UNCHANGED <<loaded, handler, file>>
    BY <1>4, <1>d, <1>b, <2>2 DEF DBSRetrieveDatabase, DataInv
  <2>3. CASE ~loaded /\ LoadHandler
    <3>1. mSync.step = "free" /\ mNeedsSync' = FALSE
      BY <1>m, <2>3 DEF LoadHandler
    <3>2. ~givenUp /\ ~short => \A m \in Names : ~Behind(m)
      BY <1>r, <2>1, <2>3 DEF LoadHandler
    <3> QED
      BY <1>4, <3>1, <3>2 DEF DBSRetrieveDatabase, DataInv
  <2> QED
    BY <1>4, <2>2, <2>3 DEF DBSRetrieveDatabase, FindOrLoad
<1>5. ASSUME NEW t \in Threads, DBSReleaseDatabase(t) PROVE DataInv'
  <2>1. repair.step = "free" /\ loaded
    BY <1>5, <1>c DEF DBSReleaseDatabase, Idle, IInv, UsersInv
  <2>2. ~givenUp /\ ~short => \A m \in Names : ~Behind(m)
    BY <1>5, <1>o, <2>1 DEF DBSReleaseDatabase, HasUnreleasedTables
  <2> QED
    BY <1>5, <1>d, <2>1, <2>2 DEF DBSReleaseDatabase, DataInv
<1>6. ASSUME NEW t \in Threads, ClearFlags(t) PROVE DataInv'
  <2>1. ~loaded /\ mSync.step = "free"
    BY <1>6, <1>m DEF ClearFlags, IInv, CallsInv
  <2>2. ~givenUp /\ ~short => \A m \in Names : ~Behind(m)
    BY <1>6, <1>b DEF ClearFlags, Known
  <2> QED
    BY <1>6, <2>1, <2>2 DEF ClearFlags, DataInv
<1>7. ASSUME NEW t \in Threads, DBSRemoveDatabase(t) PROVE DataInv'
  <2>1. repair.step = "free" /\ dbsSync.step = "free"
    BY <1>7, <1>c DEF DBSRemoveDatabase, Idle
  <2>2. CASE loaded /\ UNCHANGED <<loaded, handler, file>>
    <3>1. ~givenUp /\ ~short => \A m \in Names : ~Behind(m)
      BY <1>7, <1>f, <1>o, <2>1, <2>2 DEF DBSRemoveDatabase, UsersFacts
    <3> QED
      BY <1>7, <1>d, <2>2, <3>1 DEF DBSRemoveDatabase, DataInv
  <2>3. CASE ~loaded /\ LoadHandler
    <3>1. mSync.step = "free" /\ mNeedsSync' = FALSE
      BY <1>m, <2>3 DEF LoadHandler
    <3>2. ~givenUp /\ ~short => \A m \in Names : ~Behind(m)
      BY <1>r, <2>1, <2>3 DEF LoadHandler
    <3> QED
      BY <1>7, <3>1, <3>2 DEF DBSRemoveDatabase, DataInv
  <2> QED
    BY <1>7, <2>2, <2>3 DEF DBSRemoveDatabase, FindOrLoad
<1>8. ASSUME NEW t \in Threads, RemoveFile(t) PROVE DataInv'
  BY <1>8, <1>l, <1>f, <1>c, <1>m, <1>g, <1>d, <1>b DEF DataInv, RemoveFile
<1>9. ASSUME NEW t \in Threads, CreateTempTable(t) PROVE DataInv'
  BY <1>9, <1>l, <1>f, <1>c, <1>m, <1>g, <1>d, <1>b DEF DataInv, CreateTempTable, Idle, Enters
<1>10. ASSUME NEW t \in Threads, ReleaseTemporal(t) PROVE DataInv'
  BY <1>10, <1>l, <1>f, <1>c, <1>m, <1>g, <1>d, <1>b DEF DataInv, ReleaseTemporal, Idle, Enters
<1>11. ASSUME NEW t \in Threads, Truncate(t) PROVE DataInv'
  BY <1>11, <1>l, <1>f, <1>c, <1>m, <1>g, <1>d, <1>b DEF DataInv, Truncate
<1>12. ASSUME NEW t \in Threads, WriteHeader(t) PROVE DataInv'
  <2>1. ASSUME NEW m \in Names, ~givenUp, ~short, Behind(m) PROVE Known(m)'
    <3>1. Known(m) /\ m \in mTables /\ loaded /\ repair.step = "free"
      BY <1>12, <1>b, <1>l, <1>m, <2>1 DEF WriteHeader, Known
    <3>2. Cardinality({}) = 0 /\ Cardinality(mTables) # 0
      BY <1>l, <3>1, CountNames, FS_EmptySet
    <3>3. file'.form = "header" /\ file'.notClosed = TRUE /\ ~Whole(file')
      BY <1>12, <3>2 DEF WriteHeader, Header
    <3> QED
      BY <1>12, <3>1, <3>3 DEF WriteHeader, Known
  <2>2. UNCHANGED <<tableFiles, givenUp, short>> /\ file'.notClosed = TRUE
        /\ mSync'.table = mSync.table
    BY <1>12 DEF WriteHeader, Header
  <2> QED
    BY <1>12, <1>d, <2>1, <2>2 DEF WriteHeader, DataInv
<1>13. ASSUME NEW t \in Threads, ListWritten(t) PROVE DataInv'
  BY <1>13, <1>l, <1>f, <1>c, <1>m, <1>g, <1>d, <1>b DEF DataInv, ListWritten
<1>14. ASSUME NEW t \in Threads, SyncAllTablesContent(t) PROVE DataInv'
  <2>1. repair.step = "free" /\ loaded
    BY <1>14, <1>c DEF SyncAllTablesContent, Enters, Idle, IInv, UsersInv
  <2>2. ASSUME NEW m \in Names, ~givenUp, ~short, Behind(m) PROVE Known(m)'
    <3>1. Known(m) /\ m \in mTables \cap open
      BY <1>b, <1>l, <2>1, <2>2 DEF Known
    <3> QED
      BY <1>14, <3>1 DEF SyncAllTablesContent, Known
  <2> QED
    BY <1>14, <1>d, <2>2 DEF SyncAllTablesContent, DataInv
<1>15. ASSUME NEW t \in Threads, MarkClosed(t) PROVE DataInv'
  BY <1>15, <1>l, <1>f, <1>c, <1>m, <1>g, <1>d, <1>b DEF DataInv, MarkClosed
<1>16. ASSUME NEW t \in Threads, MarkToRepair(t) PROVE DataInv'
  BY <1>16, <1>l, <1>f, <1>c, <1>m, <1>g, <1>d, <1>b DEF DataInv, MarkToRepair, Idle, Enters
<1>17. ASSUME NEW t \in Threads, OpenToRepair(t) PROVE DataInv'
  <2>1. mSync.step = "free" /\ file.form = "header" /\ file.toRepair
    BY <1>17, <1>g DEF OpenToRepair, IInv, CallsInv, ListInv
  <2>2. ~short => Whole(file)
    BY <2>1 DEF IInv, ListInv
  <2>3. /\ file'.form = file.form /\ file'.notClosed = file.notClosed
        /\ file'.names = file.names /\ mNeedsSync' = FALSE
        /\ repair'.step = "tables" /\ repair'.left = file.names
        /\ UNCHANGED <<tableFiles, mSync, dbsSync, creating, givenUp, short>>
    BY <1>17 DEF OpenToRepair, LoadHandler
  <2>4. ASSUME NEW m \in Names, ~givenUp, ~short, Behind(m) PROVE Known(m)'
    <3>1. Known(m) /\ m \in file.names
      BY <1>b, <2>1, <2>2, <2>4 DEF Known
    <3> QED
      BY <2>1, <2>3, <3>1 DEF Known
  <2> QED
    BY <2>1, <2>3, <2>4 DEF DataInv
<1>18. ASSUME NEW t \in Threads, AllRepaired(t) PROVE DataInv'
  <2>1. /\ mSync.step = "free" /\ loaded' = FALSE
        /\ UNCHANGED <<tableFiles, mSync, short>> /\ (givenUp => givenUp')
    BY <1>18, <1>g DEF AllRepaired, ReleaseRepaired
  <2>2. ~givenUp /\ ~short => \A m \in Names : ~Behind(m)
    BY <1>18, <1>b DEF AllRepaired
  <2> QED
    BY <2>1, <2>2 DEF DataInv
<1>19. ASSUME NEW t \in Threads, NEW n \in Names, RetrievePersistentTable(t, n) PROVE DataInv'
  BY <1>19, <1>l, <1>f, <1>c, <1>m, <1>g, <1>d, <1>b DEF DataInv, RetrievePersistentTable, Idle, Enters
<1>20. ASSUME NEW t \in Threads, NEW n \in Names, ReleaseTable(t, n) PROVE DataInv'
  BY <1>20, <1>l, <1>f, <1>c, <1>m, <1>g, <1>d, <1>b DEF DataInv, ReleaseTable, Idle, Enters, Flushed
<1>21. ASSUME NEW t \in Threads, NEW n \in Names, AddTable(t, n) PROVE DataInv'
  BY <1>21, <1>l, <1>f, <1>c, <1>m, <1>g, <1>d, <1>b DEF DataInv, AddTable, Idle, Enters, Flushed
<1>22. ASSUME NEW t \in Threads, NEW n \in Names, Unheld(n), DeleteTable(t, n) PROVE DataInv'
  BY <1>22, <1>l, <1>f, <1>c, <1>m, <1>g, <1>d, <1>b DEF DataInv, DeleteTable, Idle, Enters
<1>23. ASSUME NEW t \in Threads, NEW n \in Names, WriteName(t, n) PROVE DataInv'
  <2>1. /\ file'.form = "header" /\ file'.notClosed = TRUE
        /\ file'.names = file.names \cup {n} /\ file'.count = file.count
        /\ mSync'.step = "names" /\ mSync'.table = mSync.table
        /\ file.count = Cardinality(mTables)
        /\ file'.names \subseteq mTables
        /\ UNCHANGED <<loaded, mTables, open, tableFiles, creating, givenUp, short, repair, dbsSync>>
    BY <1>23 DEF WriteName, IsFirst, IInv, ListInv
  <2>2. Whole(file') => file'.names = mTables
    BY <1>l, <2>1, CountNames
  <2>3. ASSUME NEW m \in Names, ~givenUp, ~short, Behind(m) PROVE Known(m)'
    <3>1. Known(m) /\ m \in mTables /\ loaded /\ repair.step = "free"
      BY <1>23, <1>b, <1>l, <1>m, <2>3 DEF WriteName, Known
    <3> QED
      BY <2>1, <2>2, <3>1 DEF Known
  <2> QED
    BY <1>23, <1>d, <2>1, <2>3 DEF WriteName, DataInv
<1>24. ASSUME NEW t \in Threads, NEW n \in Names, ModifyTable(t, n) PROVE DataInv'
  <2>1. /\ repair.step = "free" /\ dbsSync.step = "free" /\ mSync.step = "free"
        /\ loaded /\ ~creating /\ n \in open
    BY <1>24, <1>c, <1>f, <1>l DEF ModifyTable, Enters, Idle, IInv, CallsInv,
       UsersInv, UsersFacts
  <2>2. file.form = "header" /\ (~short => file.names = mTables /\ Whole(file))
    BY <2>1 DEF IInv, ListInv
  <2>3. /\ file'.form = "header" /\ file'.notClosed = TRUE
        /\ file'.names = file.names
    BY <1>24, <1>d, <1>l, <2>1, <2>2 DEF ModifyTable, NotifyDatabaseUpdate
  <2>4. UNCHANGED <<loaded, mTables, open, mSync, dbsSync, creating, repair, givenUp, short>>
        /\ tableFiles' = [tableFiles EXCEPT ![n] = "behind"]
    BY <1>24 DEF ModifyTable
  <2>5. ASSUME NEW m \in Names, ~givenUp, ~short, Behind(m)' PROVE Known(m)'
    <3>1. m \in open
      BY <1>b, <1>l, <2>1, <2>4, <2>5 DEF Known
    <3>2. m \in file'.names
      BY <1>l, <2>2, <2>3, <2>5, <3>1
    <3> QED
      BY <2>1, <2>3, <2>4, <3>1, <3>2 DEF Known
  <2> QED
    BY <2>1, <2>3, <2>4, <2>5 DEF DataInv
<1>25. ASSUME NEW t \in Threads, NEW n \in Names, SyncTableContent(t, n) PROVE DataInv'
  BY <1>25, <1>l, <1>f, <1>c, <1>m, <1>g, <1>d, <1>b DEF DataInv, SyncTableContent, Idle, Enters, Flushed
<1>26. ASSUME NEW t \in Threads, NEW n \in Names, FlushTable(t, n) PROVE DataInv'
  BY <1>26, <1>l, <1>f, <1>c, <1>m, <1>g, <1>d, <1>b DEF DataInv, FlushTable, IsFirst, Flushed
<1>27. ASSUME NEW t \in Threads, NEW n \in Names, RemoveTable(t, n) PROVE DataInv'
  BY <1>27, <1>l, <1>f, <1>c, <1>m, <1>g, <1>d, <1>b DEF DataInv, RemoveTable, IsFirst
<1>28. ASSUME NEW t \in Threads, NEW n \in Names, RepairTable(t, n) PROVE DataInv'
  BY <1>28, <1>l, <1>f, <1>c, <1>m, <1>g, <1>d, <1>b DEF DataInv, RepairTable, ReleaseRepaired, Flushed, IsFirst
<1>29. CASE UNCHANGED vars
  BY <1>29, <1>d, <1>b DEF DataInv, vars
<1> QED
  BY <1>1, <1>2, <1>3, <1>4, <1>5, <1>6, <1>7, <1>8, <1>9, <1>10, <1>11, <1>12, <1>13, <1>14, <1>15, <1>16, <1>17, <1>18, <1>19, <1>20, <1>21, <1>22, <1>23, <1>24, <1>25, <1>26, <1>27, <1>28, <1>29 DEF Next, Call, TableCall

LEMMA FilesStep == IInv /\ [Next]_vars => FilesInv'
<1> SUFFICES ASSUME IInv, [Next]_vars PROVE FilesInv'
  OBVIOUS
<1>f. UsersFacts
  BY UsersCounted DEF IInv
<1>l. /\ mSync.step \in {"free", "truncate", "header", "names", "flush"}
      /\ dbsSync.step \in {"free", "clear", "tables"}
      /\ repair.step \in {"free", "open", "tables"}
      /\ tableFiles \in [Names -> {"none", "current", "behind"}]
      /\ mTables \in SUBSET Names
  BY LockFields DEF IInv, TypeOK
<1>c. /\ IsFree(repair) <=> repair.step = "free"
      /\ IsFree(dbsSync) <=> dbsSync.step = "free"
      /\ IsFree(mSync) <=> mSync.step = "free"
  BY DEF IInv, CallsInv, IsFree
<1>m. mSync.step # "free" => loaded /\ dbsSync.step = "free"
                             /\ repair.step = "free" /\ dbHandle # {}
  BY <1>l, <1>f DEF IInv, CallsInv, UsersInv, UsersFacts
<1>g. repair.step # "free" => mSync.step = "free" /\ dbsSync.step = "free"
  BY <1>m DEF IInv, CallsInv
<1>i. /\ ~cut /\ loaded /\ mSync.step \in {"free", "flush"} => file.names = mTables
      /\ dbsSync.step = "tables" => loaded /\ dbsSync.left \subseteq mTables
      /\ dbsSync.step = "clear" => ~loaded
      /\ creating => ~loaded /\ dbsSync.step = "free" /\ file = EmptyFile
      /\ repair.step = "tables" => loaded
      /\ repair.step = "open" => ~loaded
      /\ file.form = "none" => file = NoFile
  BY <1>l DEF IInv, CallsInv, ListInv, CutInv
<1>n. ~cut /\ LoadHandler /\ mSync.step = "free" => mTables' = file.names
  BY LoadReads DEF IInv, TypeOK, CutInv, LoadHandler, Accepts
<1>t. dbHandle # {} => loaded /\ dbsSync.step = "free"
  BY <1>l, <1>f, <1>i DEF IInv, CallsInv, UsersInv, UsersFacts
<1>b. FilesInv
  BY DEF IInv
<1> USE DbsManagerAssumption DEF FilesInv, Listed, Free, IsFree, Taken, FileIs, Flagged, NoFile, EmptyFile, NewFile
<1>1. CASE DBSCreateDatabase
  BY <1>1, <1>l, <1>f, <1>c, <1>m, <1>g, <1>i, <1>b DEF DBSCreateDatabase
<1>2. CASE CreateHeader
  BY <1>2, <1>l, <1>f, <1>c, <1>m, <1>g, <1>i, <1>b DEF CreateHeader
<1>3. CASE Crash
  BY <1>3, <1>l, <1>f, <1>c, <1>m, <1>g, <1>i, <1>b DEF Crash
<1>4. ASSUME NEW t \in Threads, DBSRetrieveDatabase(t) PROVE FilesInv'
  BY <1>4, <1>l, <1>f, <1>c, <1>m, <1>g, <1>i, <1>b, <1>n DEF DBSRetrieveDatabase, Idle, Enters, FindOrLoad, LoadHandler, Accepts
<1>5. ASSUME NEW t \in Threads, DBSReleaseDatabase(t) PROVE FilesInv'
  <2>1. dbsSync.step = "free" /\ loaded /\ UNCHANGED <<file, tableFiles, cut>>
        /\ dbsSync'.step # "tables"
    BY <1>5, <1>c, <1>t DEF DBSReleaseDatabase
  <2>2. CASE mRefCount # 1
    <3>1. UNCHANGED <<loaded, mTables, dbsSync, mSync>>
      BY <1>5, <2>2 DEF DBSReleaseDatabase
    <3> QED
      BY <1>b, <2>1, <3>1
  <2>3. CASE mRefCount = 1
    <3>1. mSync.step = "free"
      BY <1>5, <1>f, <2>3 DEF DBSReleaseDatabase, Idle, IInv, CallsInv, UsersFacts
    <3>2. loaded' = FALSE /\ (~cut => Listed' = mTables) /\ mSync' = mSync
      BY <1>5, <1>i, <2>1, <2>3, <3>1 DEF DBSReleaseDatabase
    <3> QED
      BY <1>b, <2>1, <3>1, <3>2
  <2> QED
    BY <2>2, <2>3
<1>6. ASSUME NEW t \in Threads, ClearFlags(t) PROVE FilesInv'
  BY <1>6, <1>l, <1>f, <1>c, <1>m, <1>g, <1>i, <1>b DEF ClearFlags
<1>7. ASSUME NEW t \in Threads, DBSRemoveDatabase(t) PROVE FilesInv'
  BY <1>7, <1>l, <1>f, <1>c, <1>m, <1>g, <1>i, <1>b, <1>n DEF DBSRemoveDatabase, Idle, Enters, FindOrLoad, LoadHandler, Accepts
<1>8. ASSUME NEW t \in Threads, RemoveFile(t) PROVE FilesInv'
  BY <1>8, <1>l, <1>f, <1>c, <1>m, <1>g, <1>i, <1>b DEF RemoveFile
<1>9. ASSUME NEW t \in Threads, CreateTempTable(t) PROVE FilesInv'
  BY <1>9, <1>l, <1>f, <1>c, <1>m, <1>g, <1>i, <1>b DEF CreateTempTable, Idle, Enters
<1>10. ASSUME NEW t \in Threads, ReleaseTemporal(t) PROVE FilesInv'
  BY <1>10, <1>l, <1>f, <1>c, <1>m, <1>g, <1>i, <1>b DEF ReleaseTemporal, Idle, Enters
<1>11. ASSUME NEW t \in Threads, Truncate(t) PROVE FilesInv'
  BY <1>11, <1>l, <1>f, <1>c, <1>m, <1>g, <1>i, <1>b DEF Truncate
<1>12. ASSUME NEW t \in Threads, WriteHeader(t) PROVE FilesInv'
  BY <1>12, <1>l, <1>f, <1>c, <1>m, <1>g, <1>i, <1>b DEF WriteHeader, Header
<1>13. ASSUME NEW t \in Threads, ListWritten(t) PROVE FilesInv'
  BY <1>13, <1>l, <1>f, <1>c, <1>m, <1>g, <1>i, <1>b DEF ListWritten
<1>14. ASSUME NEW t \in Threads, SyncAllTablesContent(t) PROVE FilesInv'
  BY <1>14, <1>l, <1>f, <1>c, <1>m, <1>g, <1>i, <1>b DEF SyncAllTablesContent, Idle, Enters
<1>15. ASSUME NEW t \in Threads, MarkClosed(t) PROVE FilesInv'
  BY <1>15, <1>l, <1>f, <1>c, <1>m, <1>g, <1>i, <1>b DEF MarkClosed
<1>16. ASSUME NEW t \in Threads, MarkToRepair(t) PROVE FilesInv'
  BY <1>16, <1>l, <1>f, <1>c, <1>m, <1>g, <1>i, <1>b DEF MarkToRepair, Idle, Enters
<1>17. ASSUME NEW t \in Threads, OpenToRepair(t) PROVE FilesInv'
  BY <1>17, <1>l, <1>f, <1>c, <1>m, <1>g, <1>i, <1>b, <1>n DEF OpenToRepair, LoadHandler
<1>18. ASSUME NEW t \in Threads, AllRepaired(t) PROVE FilesInv'
  BY <1>18, <1>l, <1>f, <1>c, <1>m, <1>g, <1>i, <1>b DEF AllRepaired, ReleaseRepaired
<1>19. ASSUME NEW t \in Threads, NEW n \in Names, RetrievePersistentTable(t, n) PROVE FilesInv'
  BY <1>19, <1>l, <1>f, <1>c, <1>m, <1>g, <1>i, <1>b DEF RetrievePersistentTable, Idle, Enters
<1>20. ASSUME NEW t \in Threads, NEW n \in Names, ReleaseTable(t, n) PROVE FilesInv'
  <2>1. n \in mTables /\ loaded /\ dbsSync.step = "free"
    BY <1>20, <1>f, <1>t DEF ReleaseTable, Enters, UsersFacts, IInv, TypeOK
  <2>2. ~cut => tableFiles[n] # "none"
    BY <1>b, <2>1
  <2> QED
    BY <1>20, <1>l, <1>b, <2>1, <2>2 DEF ReleaseTable, Flushed
<1>21. ASSUME NEW t \in Threads, NEW n \in Names, AddTable(t, n) PROVE FilesInv'
  <2>1. loaded /\ dbsSync.step = "free" /\ mSync'.step = "truncate"
    BY <1>21, <1>t DEF AddTable, Enters
  <2> QED
    BY <1>21, <1>l, <1>b, <2>1 DEF AddTable, Flushed
<1>22. ASSUME NEW t \in Threads, NEW n \in Names, Unheld(n), DeleteTable(t, n) PROVE FilesInv'
  <2>1. loaded /\ dbsSync.step = "free" /\ mSync'.step = "truncate"
    BY <1>22, <1>t DEF DeleteTable, Enters
  <2> QED
    BY <1>22, <1>l, <1>b, <2>1 DEF DeleteTable
<1>23. ASSUME NEW t \in Threads, NEW n \in Names, WriteName(t, n) PROVE FilesInv'
  BY <1>23, <1>l, <1>f, <1>c, <1>m, <1>g, <1>i, <1>b DEF WriteName, IsFirst
<1>24. ASSUME NEW t \in Threads, NEW n \in Names, ModifyTable(t, n) PROVE FilesInv'
  BY <1>24, <1>l, <1>f, <1>c, <1>m, <1>g, <1>i, <1>b DEF ModifyTable, Idle, Enters, NotifyDatabaseUpdate
<1>25. ASSUME NEW t \in Threads, NEW n \in Names, SyncTableContent(t, n) PROVE FilesInv'
  <2>1. n \in mTables /\ loaded /\ dbsSync.step = "free"
    BY <1>25, <1>t DEF SyncTableContent, Enters
  <2>2. ~cut => tableFiles[n] # "none"
    BY <1>b, <2>1
  <2> QED
    BY <1>25, <1>l, <1>b, <2>1, <2>2 DEF SyncTableContent, Flushed
<1>26. ASSUME NEW t \in Threads, NEW n \in Names, FlushTable(t, n) PROVE FilesInv'
  <2>1. n \in mTables /\ loaded /\ dbsSync.step = "free"
    BY <1>26, <1>m, <1>b DEF FlushTable, IsFirst
  <2>2. ~cut => tableFiles[n] # "none"
    BY <1>b, <2>1
  <2> QED
    BY <1>26, <1>l, <1>b, <2>1, <2>2 DEF FlushTable, Flushed
<1>27. ASSUME NEW t \in Threads, NEW n \in Names, RemoveTable(t, n) PROVE FilesInv'
  BY <1>27, <1>l, <1>f, <1>c, <1>m, <1>g, <1>i, <1>b DEF RemoveTable, IsFirst
<1>28. ASSUME NEW t \in Threads, NEW n \in Names, RepairTable(t, n) PROVE FilesInv'
  <2>1. loaded /\ mSync.step = "free" /\ dbsSync.step = "free" /\ n \in Names
        /\ (~cut => file.names = mTables) /\ UNCHANGED <<file, mSync, cut>>
    BY <1>28, <1>g, <1>i DEF RepairTable, ReleaseRepaired
  <2>2. ASSUME NEW m \in Names
        PROVE  tableFiles'[m] # "none" <=> tableFiles[m] # "none"
    BY <1>28, <1>l DEF RepairTable, Flushed
  <2>3. CASE UNCHANGED <<manager, handler, dbsSync>>
    BY <1>b, <2>1, <2>2, <2>3
  <2>4. CASE ReleaseRepaired(t)
    <3>1. dbsSync'.step = "clear" /\ (~cut => Listed' = mTables)
      BY <2>1, <2>4 DEF ReleaseRepaired
    <3> QED
      BY <1>b, <2>1, <2>2, <3>1
  <2> QED
    BY <1>28, <2>3, <2>4 DEF RepairTable
<1>29. CASE UNCHANGED vars
  BY <1>29, <1>b DEF vars
<1> QED
  BY <1>1, <1>2, <1>3, <1>4, <1>5, <1>6, <1>7, <1>8, <1>9, <1>10, <1>11, <1>12, <1>13, <1>14, <1>15, <1>16, <1>17, <1>18, <1>19, <1>20, <1>21, <1>22, <1>23, <1>24, <1>25, <1>26, <1>27, <1>28, <1>29 DEF Next, Call, TableCall

\* Who leaves the file, or its names and their number, and the ghosts alone.
LEMMA CutStep == IInv /\ [Next]_vars => CutInv'
<1> SUFFICES ASSUME IInv, [Next]_vars PROVE CutInv'
  OBVIOUS
<1>l. mSync.step \in {"free", "truncate", "header", "names", "flush"}
  BY LockFields DEF IInv, TypeOK
<1>m. mSync.step # "free" => loaded /\ mSync.by # None /\ dbHandle # {}
  BY <1>l DEF IInv, CallsInv, UsersInv
<1>b. CutInv
  BY DEF IInv
<1>k. ASSUME /\ (cut => cut') /\ short' = short
             /\ mSync'.step # "names" => mSync.step # "names"
             /\ file'.form = "header" => /\ file.form = "header"
                                        /\ file'.count = file.count
                                        /\ file'.names = file.names
      PROVE  CutInv'
  <2>1. CASE cut
    BY <1>k, <2>1, Zenon DEF CutInv
  <2>2. CASE ~cut
    <3>1. ~short /\ (file.form = "header" /\ mSync.step # "names" => Whole(file))
      BY <1>b, <2>2, Zenon DEF CutInv
    <3>2. CASE cut'
      BY <3>2, Zenon DEF CutInv
    <3>3. CASE ~cut'
      <4>1. short' = short
        BY <1>k
      <4>2. file'.form = "header" /\ mSync'.step # "names" => Whole(file')
        BY <1>k, <3>1 DEF Whole
      <4> QED
        BY <3>1, <4>1, <4>2, Zenon DEF CutInv
    <3> QED
      BY <3>2, <3>3, Zenon
  <2> QED
    BY <2>1, <2>2
<1> USE DEF FileIs, Flagged, Free, Taken, IsFree
<1>1. CASE DBSCreateDatabase
  BY <1>1, <1>k DEF DBSCreateDatabase, EmptyFile
<1>2. CASE CreateHeader
  <2>1. file'.count = 0 /\ file'.names = {} /\ UNCHANGED <<cut, short>>
    BY <1>2 DEF CreateHeader, NewFile
  <2> QED
    BY <1>b, <2>1, FS_EmptySet DEF CutInv, Whole
<1>3. CASE Crash
  <2>1. ~cut' => ~cut /\ mSync.step # "names"
    BY <1>3 DEF Crash
  <2>2. UNCHANGED <<file, short>>
    BY <1>3 DEF Crash
  <2> QED
    BY <1>b, <2>1, <2>2 DEF CutInv
<1>4. ASSUME NEW t \in Threads, DBSRetrieveDatabase(t) PROVE CutInv'
  BY <1>4, <1>k DEF DBSRetrieveDatabase, FindOrLoad, LoadHandler
<1>5. ASSUME NEW t \in Threads, DBSReleaseDatabase(t) PROVE CutInv'
  BY <1>5, <1>k DEF DBSReleaseDatabase
<1>6. ASSUME NEW t \in Threads, ClearFlags(t) PROVE CutInv'
  BY <1>6, <1>k DEF ClearFlags
<1>7. ASSUME NEW t \in Threads, DBSRemoveDatabase(t) PROVE CutInv'
  BY <1>7, <1>k DEF DBSRemoveDatabase, FindOrLoad, LoadHandler
<1>8. ASSUME NEW t \in Threads, RemoveFile(t) PROVE CutInv'
  BY <1>8, <1>k DEF RemoveFile, NoFile
<1>9. ASSUME NEW t \in Threads, CreateTempTable(t) \/ ReleaseTemporal(t) PROVE CutInv'
  BY <1>9, <1>k DEF CreateTempTable, ReleaseTemporal
<1>11. ASSUME NEW t \in Threads, Truncate(t) PROVE CutInv'
  BY <1>11, <1>k DEF Truncate, EmptyFile
<1>12. ASSUME NEW t \in Threads, WriteHeader(t) PROVE CutInv'
  <2>1. mSync'.step = "names" /\ UNCHANGED <<cut, short>>
    BY <1>12 DEF WriteHeader
  <2> QED
    BY <1>b, <2>1 DEF CutInv
<1>13. ASSUME NEW t \in Threads, ListWritten(t) PROVE CutInv'
  <2>1. Whole(file) /\ UNCHANGED <<file, cut, short>>
    BY <1>13 DEF ListWritten, IInv, ListInv, Whole
  <2> QED
    BY <1>b, <2>1 DEF CutInv
<1>14. ASSUME NEW t \in Threads, SyncAllTablesContent(t) PROVE CutInv'
  BY <1>14, <1>k DEF SyncAllTablesContent, Enters, IInv, CallsInv
<1>15. ASSUME NEW t \in Threads, MarkClosed(t) PROVE CutInv'
  BY <1>15, <1>k DEF MarkClosed
<1>16. ASSUME NEW t \in Threads, MarkToRepair(t) PROVE CutInv'
  <2>1. mSync.step # "names" /\ file.form = "header"
    BY <1>16, <1>m DEF MarkToRepair
  <2>2. /\ short' = (short \/ ~Whole(file)) /\ file'.count = file.count
        /\ file'.names = file.names /\ cut' = cut
    BY <1>16 DEF MarkToRepair
  <2> QED
    BY <1>b, <2>1, <2>2 DEF CutInv, Whole
<1>17. ASSUME NEW t \in Threads, OpenToRepair(t) PROVE CutInv'
  BY <1>17, <1>k DEF OpenToRepair, LoadHandler
<1>18. ASSUME NEW t \in Threads, AllRepaired(t) PROVE CutInv'
  BY <1>18, <1>k DEF AllRepaired, ReleaseRepaired
<1>19. ASSUME NEW t \in Threads, NEW n \in Names,
              RetrievePersistentTable(t, n) \/ ReleaseTable(t, n)
              \/ SyncTableContent(t, n) \/ RemoveTable(t, n)
       PROVE CutInv'
  BY <1>19, <1>k DEF RetrievePersistentTable, ReleaseTable, SyncTableContent, RemoveTable
<1>21. ASSUME NEW t \in Threads, NEW n \in Names, AddTable(t, n) \/ DeleteTable(t, n)
       PROVE CutInv'
  <2>1. mSync.step # "names" /\ UNCHANGED <<file, cut, short>>
    BY <1>21 DEF AddTable, DeleteTable, Enters, IInv, CallsInv
  <2> QED
    BY <1>k, <2>1
<1>23. ASSUME NEW t \in Threads, NEW n \in Names, WriteName(t, n) PROVE CutInv'
  <2>1. mSync'.step = "names" /\ UNCHANGED <<cut, short>>
    BY <1>23 DEF WriteName
  <2> QED
    BY <1>b, <2>1 DEF CutInv
<1>24. ASSUME NEW t \in Threads, NEW n \in Names, ModifyTable(t, n) PROVE CutInv'
  BY <1>24, <1>k DEF ModifyTable, NotifyDatabaseUpdate
<1>26. ASSUME NEW t \in Threads, NEW n \in Names, FlushTable(t, n) PROVE CutInv'
  BY <1>26, <1>k DEF FlushTable
<1>28. ASSUME NEW t \in Threads, NEW n \in Names, RepairTable(t, n) PROVE CutInv'
  BY <1>28, <1>k DEF RepairTable, ReleaseRepaired
<1>29. CASE UNCHANGED vars
  BY <1>29, <1>k DEF vars
<1> QED
  BY <1>1, <1>2, <1>3, <1>4, <1>5, <1>6, <1>7, <1>8, <1>9, <1>11, <1>12, <1>13, <1>14, <1>15, <1>16, <1>17, <1>18, <1>19, <1>21, <1>23, <1>24, <1>26, <1>28, <1>29 DEF Next, Call, TableCall

-----------------------------------------------------------------------------
(* The inductive invariant, and the properties of the runs. *)

LEMMA InitIInv == Init => IInv
<1> SUFFICES ASSUME Init PROVE IInv
  OBVIOUS
<1> USE DbsManagerAssumption DEF Init
<1>c. Cardinality({}) = 0
  BY FS_EmptySet
<1>h. \A n \in Names : Holders(n) = {}
  BY DEF Holders
<1>1. TypeOK
  <2>1. file \in Files
    BY FileTyped DEF NoFile
  <2>2. /\ mSync \in Locks({"truncate", "header", "names", "flush"})
        /\ dbsSync \in Locks({"clear", "tables"})
        /\ repair \in Locks({"open", "tables"})
    BY FreeTyped
  <2>3. uses \in [Names -> 0..MaxUses]
    <3>1. 0 \in 0..MaxUses
      OBVIOUS
    <3> QED
      BY <3>1
  <2>4. /\ tableFiles \in [Names -> {"none", "current", "behind"}]
        /\ held \in [Threads -> SUBSET Names]
    OBVIOUS
  <2> QED
    BY <2>1, <2>2, <2>3, <2>4 DEF TypeOK
<1>2. CallsInv
  BY DEF CallsInv, Free, Taken, NoFile, FileIs, EmptyFile
<1>3. UsersInv
  <2>1. \A n \in Names : TableCounted(n)
    BY <1>c, <1>h DEF TableCounted
  <2> QED
    BY <1>c, <2>1 DEF UsersInv, Free, Taken
<1>4. ListInv
  BY DEF ListInv, Free, Taken, NoFile, FileIs
<1>5. DataInv
  BY DEF DataInv, Behind, Free, Taken, NoFile, FileIs
<1>6. FilesInv
  BY DEF FilesInv, Listed, Free, Taken, NoFile, FileIs
<1>7. CutInv
  BY DEF CutInv, NoFile, FileIs
<1> QED
  BY <1>1, <1>2, <1>3, <1>4, <1>5, <1>6, <1>7 DEF IInv

\* The invariant holds in every reachable state.
THEOREM Invariant == Spec => []IInv
<1>1. IInv /\ [Next]_vars => IInv'
  BY TypeStep, CallsStep, UsersStep, ListStep, DataStep, FilesStep, CutStep DEF IInv
<1> QED
  BY InitIInv, <1>1, PTL DEF Spec

\* The variables keep their types, for any threads, tables and bound.
THEOREM TypeCorrect == Spec => []TypeOK
<1>1. IInv => TypeOK
  BY DEF IInv
<1> QED
  BY <1>1, Invariant, PTL

\* A list that was cut off is not accepted until a repair is tried on it
\* (SyncToFile, DBSReleaseDatabase, DBSRepairDatabase, the constructor of
\* DbsHandler).
THEOREM CutListsRefused == Spec => []CutListRefused
<1>1. IInv => CutListRefused
  <2> SUFFICES ASSUME IInv, Accepts(file), ~short
               PROVE  Whole(file) /\
                      (loaded /\ mSync.step # "truncate" => file.names = mTables)
    BY DEF CutListRefused
  <2>1. Whole(file) /\ file.form = "header"
    BY DEF Accepts, IInv, ListInv
  <2>2. mSync.step \in {"free", "truncate", "flush"}
    BY <2>1, LockFields DEF Accepts, IInv, TypeOK, ListInv, EmptyFile, FileIs
  <2> QED
    BY <2>1, <2>2 DEF IInv, ListInv
<1> QED
  BY <1>1, Invariant, PTL

\* A table that is behind is found out by the next process, up to a repair
\* that fails or that is tried on a list cut off (NotifyDatabaseUpdate,
\* SyncAllTablesContent, DBSReleaseDatabase, DBSRepairDatabase).
THEOREM ModificationsNoticed == Spec => []ModifiedIsNoticed
<1>1. IInv => ModifiedIsNoticed
  <2> SUFFICES ASSUME IInv, Accepts(file), IsFree(repair), ~givenUp, ~short,
                      NEW n \in Names
               PROVE  ~Behind(n)
    BY DEF ModifiedIsNoticed, Behind
  <2>1. repair.step = "free" /\ file.form = "header" /\ ~file.toRepair
    BY FileFields DEF Accepts, IsFree, IInv, TypeOK, CallsInv, ListInv
  <2>2. ~file.notClosed
    BY <2>1 DEF Accepts
  <2> QED
    BY <2>1, <2>2 DEF IInv, DataInv, Known
<1> QED
  BY <1>1, Invariant, PTL

\* What a thread holds is there, however many threads share and release it
\* (RetrievePersistentTable, ReleaseTable, DBSReleaseDatabase).
THEOREM HandlesAreValid == Spec => []HandlesValid
<1>1. IInv => HandlesValid
  BY DEF IInv, UsersInv, TableCounted, HandlesValid
<1> QED
  BY <1>1, Invariant, PTL

\* The tables listed are those whose files exist (AddTable, DeleteTable,
\* DBSRemoveDatabase).
THEOREM FilesAreListed == Spec => []FilesListed
<1>1. IInv => FilesListed
  BY DEF IInv, FilesInv, FilesListed
<1> QED
  BY <1>1, Invariant, PTL
=============================================================================
