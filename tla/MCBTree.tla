------------------------------- MODULE MCBTree ------------------------------
(***************************************************************************)
(* Instances of BTree.  A tree of every shape over enough rows for three   *)
(* levels has too many histories, so they are bounded: a run of insertions *)
(* goes up from the lowest missing row or down from the highest, a run of  *)
(* removals takes either end of the present ones at each step, and there   *)
(* are MaxTurns runs (grow, shrink, grow, ...).                            *)
(***************************************************************************)
EXTENDS BTree

CONSTANTS
    LastRow,    \* bound: the rows are 1..LastRow
    LastNull,   \* the rows up to this one are null
    MaxTurns    \* bound: runs of insertions or of removals

VARIABLES
    upward,     \* a run of insertions goes up or down
    turns,      \* runs so far
    direction,  \* "insert" or "remove"
    steps       \* steps of the operation under way

MCRows     == 1..LastRow
MCNullable == 1..LastNull

KeyOf(row) == <<IF row \in Nullable THEN Null ELSE 1, row>>

Lowest(S)  == {r \in S : \A q \in S : r <= q}
Highest(S) == {r \in S : \A q \in S : q <= r}

MCBegin ==
    \E present \in {{k[2] : k \in LeafContents(tree)}}, kind \in {"insert", "remove"} :
        /\ direction' = kind
        /\ turns' = IF kind = direction THEN turns ELSE turns + 1
        /\ turns' <= MaxTurns
        /\ steps' = 0
        /\ upward' \in IF kind = direction THEN {upward}
                      ELSE IF kind = "remove" THEN {TRUE} ELSE BOOLEAN
        /\ \E row \in IF kind = "remove" THEN Lowest(present) \cup Highest(present)
                      ELSE IF upward' THEN Lowest(MCRows \ present)
                                      ELSE Highest(MCRows \ present) :
              Begin(kind, KeyOf(row))

MCContinue ==
    /\ Continue
    /\ steps' = steps + 1
    /\ UNCHANGED <<turns, direction, upward>>

\* The owner of the tree may leave it at rest, but not in an operation.
MCRest == op = Idle /\ UNCHANGED <<vars, turns, direction, upward, steps>>

MCInit == Init /\ turns = 1 /\ direction = "insert" /\ upward \in BOOLEAN /\ steps = 0

MCNext == MCBegin \/ MCContinue \/ MCRest

MCSpec == MCInit /\ [][MCNext]_<<vars, turns, direction, upward, steps>>

Levels ==
    LET Below[n \in 1..Len(tree.nodes), id \in DOMAIN tree.nodes] ==
            IF tree.nodes[id].leaf THEN n ELSE Below[n + 1, tree.nodes[id].child[1]]
    IN  Below[1, tree.root]

\* Looking again after a split or a join does not go on: an operation splits or
\* joins once on each level at most, and ends in three steps for each level.
OperationEnds == op # Idle => steps < 3 * Levels
=============================================================================
