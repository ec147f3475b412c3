--------------------------- MODULE FileContainer ---------------------------
(***************************************************************************)
(* FileContainer (dbs/pastra/ps_container.cpp): a string of bytes kept in  *)
(* a series of files, the units, of which all but the last are full.  The  *)
(* operations are functions of the units; each goes on in the next unit    *)
(* where it meets the end of one, so they are given here byte by byte.     *)
(***************************************************************************)
EXTENDS Naturals, Sequences, SequencesExt

CONSTANTS
    MaxFileUnitSize,    \* bytes of a unit, at least one
    Failed              \* WFileContainerException: no sequence of units

Size(units) ==
    IF units = <<>> THEN 0 ELSE (Len(units) - 1) * MaxFileUnitSize + Len(Last(units))

\* One byte of Write: a unit is added when the position is at its start.
WriteByte(units, to, byte) ==
    LET index    == to \div MaxFileUnitSize + 1
        position == to % MaxFileUnitSize
        extended == IF index = Len(units) + 1 /\ position = 0 THEN Append(units, <<>>) ELSE units
    IN IF units = Failed THEN Failed
       ELSE IF index > Len(extended) THEN Failed
       ELSE IF Len(extended[index]) < position THEN Failed
       ELSE IF Len(extended[index]) = position
       THEN [extended EXCEPT ![index] = Append(@, byte)]
       ELSE [extended EXCEPT ![index][position + 1] = byte]

Write(units, to, chunk) ==
    LET upTo[i \in 0 .. Len(chunk)] ==
            IF i = 0 THEN units ELSE WriteByte(upTo[i - 1], to + i - 1, chunk[i])
    IN upTo[Len(chunk)]

Read(units, from, size) ==
    IF from + size > Size(units) THEN Failed
    ELSE [i \in 1 .. size |->
            LET at == from + i - 1 IN units[at \div MaxFileUnitSize + 1][(at % MaxFileUnitSize) + 1]]

\* What is behind the new end goes; a unit whose start is the new end is
\* emptied and stays, unless it is the first.
Truncate(units, size) ==
    LET lastUnit == size \div MaxFileUnitSize + 1 IN
    IF size = 0 THEN <<>>
    ELSE [SubSeq(units, 1, lastUnit) EXCEPT ![lastUnit] = SubSeq(@, 1, size % MaxFileUnitSize)]

\* What follows the interval moves to its start, then the end is cut off.
Colapse(units, from, to) ==
    LET size  == Size(units)
        moved == Read(units, to, size - to)
    IN IF to < from \/ size < to THEN Failed
       ELSE IF to = from THEN units
       ELSE Truncate(IF moved = <<>> THEN units ELSE Write(units, from, moved), size - (to - from))
=============================================================================
