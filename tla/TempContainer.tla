--------------------------- MODULE TempContainer ---------------------------
(***************************************************************************)
(* TemporalContainer (dbs/pastra/ps_container.cpp): the bytes of temporary *)
(* tables and of values that are being edited.  The first two windows of   *)
(* mCacheSize bytes are in memory; what goes beyond is put into a          *)
(* FileContainer, over which the two windows are then moved.  A container  *)
(* has one user at a time.                                                 *)
(***************************************************************************)
EXTENDS Naturals, Sequences, FiniteSetsExt

CONSTANTS
    mCacheSize,         \* bytes of a window
    MaxFileUnitSize,    \* bytes of a unit of the file
    Failed,             \* an exception of the file's operations
    Values,             \* bytes
    MaxSize,            \* bound: size of the container
    MaxChunk            \* bound: bytes one call writes or reads

ASSUME TempContainerAssumption ==
    /\ {mCacheSize, MaxFileUnitSize} \subseteq Nat \ {0}
    /\ MaxChunk \in Nat
    /\ Failed \notin Seq(Seq(Values))

File == INSTANCE FileContainer

VARIABLES
    w1, w2,             \* the windows: mCache_1, mCache_2 and their positions
    file,               \* the units of mFileContainer
    mCache1LastUsed,    \* FillCache moved the first window last
    bytes               \* history: what the calls should have left

vars == <<w1, w2, file, mCache1LastUsed, bytes>>

-----------------------------------------------------------------------------
(* The container, as a record of the four variables.                       *)

\* A window has the bytes from its start to its end.
Window(start, content, dirty) == [start |-> start, bytes |-> content, dirty |-> dirty]

End(w)        == w.start + Len(w.bytes)
Takes(w, at)  == w.start <= at /\ at < w.start + mCacheSize
Has(w, at)    == w.start <= at /\ at < End(w)

\* No second window; no file.
NoWindow == [start |-> 0, bytes |-> <<>>, dirty |-> FALSE, none |-> TRUE]
NoFile   == <<>>

Container == [w1 |-> w1, w2 |-> w2, file |-> file, first |-> mCache1LastUsed]

Size(c) ==
    Max({End(c.w1), End(c.w2)} \cup (IF c.file = NoFile THEN {} ELSE {File!Size(c.file)}))

Put(w, at, byte) ==
    [w EXCEPT !.bytes = IF at = End(w) THEN Append(@, byte) ELSE [@ EXCEPT ![at - w.start + 1] = byte],
              !.dirty = TRUE]

\* The windows' bytes go to the file when they were changed.
Written(f, w) == IF w.dirty THEN File!Write(f, w.start, w.bytes) ELSE f
Cleaned(w)    == [w EXCEPT !.dirty = FALSE]

\* The window of the file that begins at start.
Loaded(f, start) ==
    LET size == IF start <= File!Size(f) THEN Min({mCacheSize, File!Size(f) - start}) ELSE mCacheSize
    IN Window(start, File!Read(f, start, size), FALSE)

\* FillCache, once there is a file: the window that was not moved last is
\* moved; the other one is written as well when the new place is the file's end.
Moved(c, start) ==
    LET victim  == IF c.first THEN c.w2 ELSE c.w1
        other   == IF c.first THEN c.w1 ELSE c.w2
        once    == Written(c.file, victim)
        atEnd   == start >= File!Size(once)
        written == IF atEnd THEN Written(once, other) ELSE once
        stays   == IF atEnd THEN Cleaned(other) ELSE other
        loaded  == Loaded(written, start)
    IN [w1 |-> IF c.first THEN stays ELSE loaded,
        w2 |-> IF c.first THEN loaded ELSE stays,
        file |-> written, first |-> ~c.first]

\* FillCache: a window over the given place.
FillCache(c, at) ==
    LET start == at - (at % mCacheSize) IN
    IF c.w1.start = start \/ (c.w2 # NoWindow /\ c.w2.start = start) THEN c
    ELSE IF c.w2 = NoWindow /\ start = mCacheSize
    THEN [c EXCEPT !.w2 = Window(start, <<>>, FALSE), !.first = FALSE]
    ELSE IF c.file = NoFile
    THEN [w1 |-> Window(start, <<>>, FALSE), w2 |-> Cleaned(c.w2),
          file |-> File!Write(File!Write(<<>>, 0, c.w1.bytes), mCacheSize, c.w2.bytes),
          first |-> TRUE]
    ELSE Moved(c, start)

\* An iteration of Write: a window that may take the byte, or one is moved.
WriteByte(c, at, byte) ==
    LET filled == IF Takes(c.w1, at) \/ (c.w2 # NoWindow /\ Takes(c.w2, at)) THEN c ELSE FillCache(c, at)
    IN IF Takes(filled.w1, at)
       THEN [filled EXCEPT !.w1 = Put(@, at, byte)]
       ELSE [filled EXCEPT !.w2 = Put(@, at, byte)]

WriteAll(c, to, chunk) ==
    LET upTo[i \in 0 .. Len(chunk)] ==
            IF i = 0 THEN c ELSE WriteByte(upTo[i - 1], to + i - 1, chunk[i])
    IN upTo[Len(chunk)]

\* The bytes that are read, and the windows as the reading leaves them.
ReadByte(r, at) ==
    LET c == IF Has(r.c.w1, at) \/ Has(r.c.w2, at) THEN r.c ELSE FillCache(r.c, at)
        byte == IF Has(c.w1, at) THEN c.w1.bytes[at - c.w1.start + 1]
                ELSE IF Has(c.w2, at) THEN c.w2.bytes[at - c.w2.start + 1]
                ELSE Failed
    IN [c |-> c, bytes |-> Append(r.bytes, byte)]

ReadAll(c, from, size) ==
    LET upTo[i \in 0 .. size] ==
            IF i = 0 THEN [c |-> c, bytes |-> <<>>] ELSE ReadByte(upTo[i - 1], from + i - 1)
    IN upTo[size]

\* Colapse without a file: what follows moves, by Read and Write, and the
\* second window goes when the first one can hold the rest.
ColapseWindows(c, from, to) ==
    LET moved == WriteAll(c, from, ReadAll(c, to, Size(c) - to).bytes)
        size  == Size(c) - (to - from)
    IN IF size <= mCacheSize
       THEN [w1 |-> [moved.w1 EXCEPT !.bytes = SubSeq(@, 1, size)], w2 |-> NoWindow, file |-> NoFile, first |-> TRUE]
       ELSE [moved EXCEPT !.w2.bytes = SubSeq(@, 1, size - mCacheSize)]

ColapseWindow(c, from, to) ==
    [c EXCEPT !.w1.bytes = SubSeq(@, 1, from) \o SubSeq(@, to + 1, Len(@))]

\* Mutant: the windows of a long container are not read anew.
ColapseFileStale(c, from, to) ==
    LET f == File!Colapse(Written(Written(c.file, c.w1), c.w2), from, to)
    IN [w1 |-> Cleaned(c.w1), w2 |-> Cleaned(c.w2), file |-> f, first |-> c.first]

\* Colapse with a file: both windows are written, the file collapses, and the
\* windows are read anew; when they can hold the rest the file is dropped.
ColapseFile(c, from, to) ==
    LET f    == File!Colapse(Written(Written(c.file, c.w1), c.w2), from, to)
        size == File!Size(f)
        next == IF from < mCacheSize THEN mCacheSize ELSE from - (from % mCacheSize)
    IN IF size <= mCacheSize
       THEN [w1 |-> Loaded(f, 0), w2 |-> NoWindow, file |-> NoFile, first |-> TRUE]
       ELSE IF size <= 2 * mCacheSize
       THEN [w1 |-> Loaded(f, 0), w2 |-> Loaded(f, mCacheSize), file |-> NoFile, first |-> c.first]
       ELSE [w1 |-> Loaded(f, 0), w2 |-> Loaded(f, next), file |-> f, first |-> FALSE]

-----------------------------------------------------------------------------
(* The calls. *)

Init ==
    /\ w1 = Window(0, <<>>, FALSE) /\ w2 = NoWindow
    /\ file = NoFile
    /\ mCache1LastUsed = TRUE
    /\ bytes = <<>>

Become(c) == w1' = c.w1 /\ w2' = c.w2 /\ file' = c.file /\ mCache1LastUsed' = c.first

Chunks == UNION {[1 .. n -> Values] : n \in 1 .. MaxChunk}

Write(to, chunk) ==
    /\ to <= Size(Container) /\ to + Len(chunk) <= MaxSize
    /\ Become(WriteAll(Container, to, chunk))
    /\ bytes' = SubSeq(bytes, 1, to) \o chunk \o SubSeq(bytes, to + Len(chunk) + 1, Len(bytes))

\* Read may move the windows.
Read(from, size) ==
    /\ from + size <= Size(Container)
    /\ Become(ReadAll(Container, from, size).c)
    /\ UNCHANGED bytes

Colapse(from, to) ==
    /\ from <= to /\ to <= Size(Container)
    /\ Become(IF file # NoFile THEN ColapseFile(Container, from, to)
               ELSE IF w2 # NoWindow THEN ColapseWindows(Container, from, to)
               ELSE ColapseWindow(Container, from, to))
    /\ bytes' = SubSeq(bytes, 1, from) \o SubSeq(bytes, to + 1, Len(bytes))

Next ==
    \/ \E to \in 0 .. MaxSize, chunk \in Chunks : Write(to, chunk)
    \/ \E from \in 0 .. MaxSize, size \in 1 .. MaxChunk : Read(from, size)
    \/ \E from, to \in 0 .. MaxSize : Colapse(from, to)

Spec == Init /\ [][Next]_vars

-----------------------------------------------------------------------------
(* Properties. *)

\* Whatever writes, reads and removals have moved the windows over the file,
\* into it and out of it, the container has the size and the bytes that the
\* calls should have left, and Read of any part returns its bytes.
HoldsWhatWasWritten ==
    /\ Size(Container) = Len(bytes)
    /\ \A from \in 0 .. Len(bytes) : \A to \in from .. Len(bytes) :
          ReadAll(Container, from, to - from).bytes = SubSeq(bytes, from + 1, to)
=============================================================================
