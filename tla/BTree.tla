-------------------------------- MODULE BTree -------------------------------
(***************************************************************************)
(* The B-tree of a field index: dbs/pastra/ps_btree_index.cpp (the         *)
(* algorithms), ps_btree_fields.h (the nodes) and ps_btree_fields.cpp (the *)
(* node manager).  Keys are pairs of a value and a row, biggest first; an  *)
(* inner node repeats the first key of each child.  Null values are the    *)
(* smallest, are not stored, and are known by their number: the last       *)
(* NullKeysCount keys of a node are the null ones.                         *)
(*                                                                         *)
(* The recursions of InsertKey and RemoveKey are a path from the root with *)
(* one step for each call or return.  Nobody else sees a tree meanwhile:   *)
(* the table has its field acquired (TableSync).  Indexes count from 1 and *)
(* 0 stands for "not found".                                               *)
(***************************************************************************)
EXTENDS Integers, Sequences, FiniteSets, SequencesExt

CONSTANTS
    Values,      \* the values of the field, positive numbers
    Rows,        \* the rows of the table, numbers
    Nullable,    \* the rows whose field may be null
    LeafKeys,    \* KeysPerNode of a leaf
    InnerKeys    \* KeysPerNode of an inner node

\* With under 9 keys a joined node may be as poor as the two it is made of, and
\* with under 12 an inner root may be left with one child, which has nothing to
\* join when it is poor.  A real node has hundreds.
ASSUME BTreeAssumption ==
    /\ Values \subseteq Nat \ {0} /\ IsFiniteSet(Values) /\ Values # {}
    /\ Rows \subseteq Nat /\ IsFiniteSet(Rows) /\ Rows # {}
    /\ Nullable \subseteq Rows
    /\ LeafKeys \in Nat /\ InnerKeys \in Nat
    /\ LeafKeys >= 9 /\ InnerKeys >= 12

NIL_NODE == 0                       \* ~0 in the code, where node 0 is the header
Null     == 0                       \* sorts before every value

Keys == (Values \X Rows) \cup ({Null} \X Nullable)

MaxOf(S) == CHOOSE m \in S : \A x \in S : x <= m

SentinelKey == <<MaxOf(Values) + 1, MaxOf(Rows) + 1>>   \* above every key

VARIABLES
    tree,   \* the node manager: the nodes by NodeId, RootNodeId and the head
            \* of the list of free nodes (linked by next)
    op      \* the operation under way: its key, and the calls that are open
            \* as a path of nodes with the key each has followed

vars == <<tree, op>>

Idle == [kind |-> "idle", key |-> SentinelKey, path |-> <<>>]

-----------------------------------------------------------------------------
(* Nodes.                                                                  *)

CompareWith(a, b) ==
    IF a = b THEN 0
    ELSE IF a[1] < b[1] \/ (a[1] = b[1] /\ a[2] < b[2]) THEN -1 ELSE 1

NewNode == [leaf |-> FALSE, keys |-> <<>>, child |-> <<>>, nulls |-> 0,
            prev |-> NIL_NODE, next |-> NIL_NODE]

KeysCount(n) == Len(n.keys)

KeysPerNode(n) == IF n.leaf THEN LeafKeys ELSE InnerKeys

\* A mutant with which what a join has to split again is poor again.
NeedsJoiningEagerly(n) == KeysCount(n) < KeysPerNode(n) \div 2

NeedsJoining(n) == KeysCount(n) < KeysPerNode(n) \div 3 - 1

NeedsSpliting(n) == KeysCount(n) >= (2 * KeysPerNode(n)) \div 3 - 1

\* KeysCount() - NullKeysCount(): the difference is unsigned, hence beyond
\* every index when there are fewer keys than nulls.
NotNull(n) == IF n.nulls <= KeysCount(n) THEN KeysCount(n) - n.nulls ELSE KeysCount(n)

GetKey(n, i) == IF i > NotNull(n) THEN <<Null, n.keys[i][2]>> ELSE n.keys[i]

GetKeys(n) == [i \in DOMAIN n.keys |-> GetKey(n, i)]

Children(n, i, j) == IF n.leaf THEN <<>> ELSE SubSeq(n.child, i, j)

\* The row is always stored, the value only before the null ones.
SetKey(n, i, key) ==
    [n EXCEPT !.keys[i] = IF i > NotNull(n) THEN <<Null, key[2]>> ELSE key]

\* A mutant of the search that steps over the key it wants.
FindBigger(n, key) ==
    LET above == {i \in DOMAIN n.keys : CompareWith(key, GetKey(n, i)) < 0}
    IN  IF above = {} THEN 0 ELSE MaxOf(above)

\* One turn of the binary search for a key, between two keys of a node.
Halve(n, key, at) ==
    LET median == (at.top + at.bottom) \div 2
    IN  IF at.bottom <= at.top + 1 THEN at
        ELSE IF CompareWith(key, GetKey(n, median)) < 0 THEN [at EXCEPT !.top = median]
                                                        ELSE [at EXCEPT !.bottom = median]

\* The last key that is not below the one wanted; the search needs fewer turns
\* than there are keys.
FindBiggerOrEqual(n, key) ==
    LET Search[turn \in 0..KeysCount(n)] ==
            IF turn = 0 THEN [top |-> 1, bottom |-> KeysCount(n)]
            ELSE Halve(n, key, Search[turn - 1])
        found == Search[KeysCount(n)]
    IN  IF KeysCount(n) = 0 \/ CompareWith(key, GetKey(n, 1)) > 0 THEN 0
        ELSE IF CompareWith(key, GetKey(n, found.bottom)) > 0 THEN found.top ELSE found.bottom

\* A first key leaves the number of nulls as it finds it, unless it is null.
InsertKey(n, key, child) ==
    LET at    == IF KeysCount(n) = 0 THEN 1 ELSE FindBiggerOrEqual(n, key) + 1
        nulls == IF key[1] # Null THEN n.nulls
                 ELSE IF KeysCount(n) = 0 THEN 1 ELSE n.nulls + 1
    IN  SetKey([n EXCEPT !.keys  = InsertAt(@, at, key),
                         !.child = IF n.leaf THEN @ ELSE InsertAt(@, at, child),
                         !.nulls = nulls], at, key)

RemoveKey(n, i) ==
    [n EXCEPT !.keys  = RemoveAt(@, i),
              !.child = IF n.leaf THEN @ ELSE RemoveAt(@, i),
              !.nulls = IF i > NotNull(n) THEN @ - 1 ELSE @]

AdjustKeyNode(n, childNode, i) ==
    LET zeroKey == GetKey(childNode, 1)
        wasNull == GetKey(n, i)[1] = Null
        isNull  == zeroKey[1] = Null
        nulls   == IF isNull /\ ~wasNull THEN n.nulls + 1
                   ELSE IF ~isNull /\ wasNull THEN n.nulls - 1 ELSE n.nulls
    IN  SetKey([n EXCEPT !.nulls = nulls], i, zeroKey)

-----------------------------------------------------------------------------
(* The node manager: every operator takes the tree and returns it.         *)

AllocatedId(t) == IF t.free # NIL_NODE THEN t.free ELSE Len(t.nodes) + 1

AllocateNode(t) ==
    IF t.free # NIL_NODE THEN [t EXCEPT !.free = t.nodes[t.free].next]
    ELSE [t EXCEPT !.nodes = Append(@, NewNode)]

\* A mutant that does not link the nodes that were free before.
FreeNodeUnlinked(t, id) ==
    [t EXCEPT !.nodes[id] = [NewNode EXCEPT !.nulls = t.nodes[id].nulls],
              !.free = id]

\* The keys of a free node stay in the file but nothing reads them; their
\* number of nulls does matter.
FreeNode(t, id) ==
    [t EXCEPT !.nodes[id] = [NewNode EXCEPT !.nulls = t.nodes[id].nulls,
                                            !.next  = t.free],
              !.free = id]

SetNext(t, id, next) ==
    IF id = NIL_NODE THEN t ELSE [t EXCEPT !.nodes[id].next = next]

\* The tail of the keys goes to a new node, linked before this one.
SplitNode(t, parent, id) ==
    LET node      == t.nodes[id]
        count     == KeysCount(node)
        split     == count \div 2
        new       == AllocatedId(t)
        nulls     == IF NotNull(node) < split THEN count - split ELSE node.nulls
        allocated == [leaf  |-> node.leaf,
                      keys  |-> SubSeq(GetKeys(node), split + 1, count),
                      child |-> Children(node, split + 1, count),
                      nulls |-> nulls, prev |-> node.prev, next |-> id]
        kept      == [node EXCEPT !.keys  = SubSeq(@, 1, split),
                                  !.child = Children(node, 1, split),
                                  !.nulls = @ - nulls,
                                  !.prev  = new]
        grown     == [AllocateNode(t) EXCEPT
                        !.nodes[new]    = allocated,
                        !.nodes[id]     = kept,
                        !.nodes[parent] = InsertKey(@, GetKey(node, split + 1), new)]
    IN  SetNext(grown, node.prev, new)

\* Over a root a new root is put first: an allocated node that is set to be an
\* empty inner one, and whose number of nulls is left alone.
NewRoot(t) ==
    LET new   == AllocatedId(t)
        grown == AllocateNode(t)
        blank == [NewNode EXCEPT !.nulls = grown.nodes[new].nulls]
    IN  [grown EXCEPT !.nodes[new] = InsertKey(blank, SentinelKey, t.root),
                      !.root = new]

Split(t, parent, id) ==
    IF ~NeedsSpliting(t.nodes[id]) THEN t
    ELSE IF parent # NIL_NODE THEN SplitNode(t, parent, id)
    ELSE LET raised == NewRoot(t) IN SplitNode(raised, raised.root, id)

\* A mutant that loses a key on the way.
JoinNodesOffByOne(t, left, right) ==
    LET from == t.nodes[left]
        into == t.nodes[right]
    IN  SetNext([t EXCEPT !.nodes[right] =
                    [into EXCEPT !.keys  = GetKeys(into) \o Tail(GetKeys(from)),
                                 !.child = @ \o from.child,
                                 !.nulls = @ + from.nulls,
                                 !.prev  = from.prev]],
                from.prev, right)

\* The keys of a node go behind those of the next one.
JoinNodes(t, left, right) ==
    LET from == t.nodes[left]
        into == t.nodes[right]
    IN  SetNext([t EXCEPT !.nodes[right] =
                    [into EXCEPT !.keys  = GetKeys(into) \o GetKeys(from),
                                 !.child = @ \o from.child,
                                 !.nulls = @ + from.nulls,
                                 !.prev  = from.prev]],
                from.prev, right)

\* A child joins its right neighbour, or its left one when it has the first
\* key; the left one of the two is freed, and the other split again if it must.
Join(t, parent, id) ==
    LET node     == t.nodes[id]
        keyIndex == FindBiggerOrEqual(t.nodes[parent], GetKey(node, 1))
        left     == IF keyIndex # 1 THEN id ELSE node.prev
        right    == IF keyIndex # 1 THEN node.next ELSE id
        goes     == IF keyIndex # 1 THEN keyIndex ELSE 2
        joined   == JoinNodes([t EXCEPT !.nodes[parent] = RemoveKey(@, goes)], left, right)
    IN  Split(FreeNode(joined, left), parent, right)

-----------------------------------------------------------------------------
(* What the nodes hold.                                                    *)

\* The free nodes, in the order of their list; NIL_NODE ends it.
FreeNodes(t) ==
    LET From[n \in 0..Len(t.nodes)] ==
            IF n = 0 THEN <<t.free>>
            ELSE LET before == From[n - 1]
                     last   == before[Len(before)]
                 IN  IF last = NIL_NODE THEN before ELSE Append(before, t.nodes[last].next)
    IN  Front(From[Len(t.nodes)])

UsedNodes(t) == DOMAIN t.nodes \ ToSet(FreeNodes(t))

\* The keys that were inserted and not removed.  (A free node is not a leaf.)
LeafContents(t) ==
    (UNION {ToSet(GetKeys(n)) : n \in {m \in ToSet(t.nodes) : m.leaf}}) \ {SentinelKey}

-----------------------------------------------------------------------------
(* The recursions: op.path holds the nodes of the calls that are open.     *)

Depth    == Len(op.path)
Here     == op.path[Depth]
ParentId == IF Depth = 1 THEN NIL_NODE ELSE op.path[Depth - 1]

\* keyIndex: the key of a node that leads to, or is, the key of the operation.
KeyIndex(n)  == FindBiggerOrEqual(n, op.key)
NodeOfKey(n) == n.child[KeyIndex(n)]

Child == NodeOfKey(tree.nodes[Here])

\* The first use of a manager makes a root with the sentinel.
Init ==
    /\ tree = [nodes |-> <<[NewNode EXCEPT !.leaf = TRUE, !.keys = <<SentinelKey>>]>>,
               root  |-> 1,
               free  |-> NIL_NODE]
    /\ op = Idle

\* A row has one key, that of its value.
MayInsert(key) == \A k \in LeafContents(tree) : k[2] # key[2]
MayRemove(key) == key \in LeafContents(tree)

Begin(kind, key) ==
    /\ op = Idle
    /\ IF kind = "insert" THEN MayInsert(key) ELSE MayRemove(key)
    /\ op' = [kind |-> kind, key |-> key, path |-> <<tree.root>>]
    /\ UNCHANGED tree

\* A node that is full is split before it is entered, then its parent, whatever
\* it holds by now, looks for the key again; over a root the insertion starts
\* again.
InsertSplits ==
    /\ op.kind = "insert"
    /\ NeedsSpliting(tree.nodes[Here])
    /\ tree' = Split(tree, ParentId, Here)
    /\ op' = [op EXCEPT !.path =
                IF Depth = 1 THEN <<tree'.root>>
                ELSE Append(Front(@), NodeOfKey(tree'.nodes[ParentId]))]

InsertDescends ==
    /\ op.kind = "insert"
    /\ ~NeedsSpliting(tree.nodes[Here])
    /\ ~tree.nodes[Here].leaf
    /\ op' = [op EXCEPT !.path = Append(@, Child)]
    /\ UNCHANGED tree

InsertInLeaf ==
    /\ op.kind = "insert"
    /\ ~NeedsSpliting(tree.nodes[Here])
    /\ tree.nodes[Here].leaf
    /\ tree' = [tree EXCEPT !.nodes[Here] = InsertKey(@, op.key, NIL_NODE)]
    /\ op' = Idle

\* A child that is poor is joined, then the node looks for the key again.
RemoveJoins ==
    /\ op.kind = "remove"
    /\ ~tree.nodes[Here].leaf
    /\ NeedsJoining(tree.nodes[Child])
    /\ tree' = Join(tree, Here, Child)
    /\ UNCHANGED op

RemoveDescends ==
    /\ op.kind = "remove"
    /\ ~tree.nodes[Here].leaf
    /\ ~NeedsJoining(tree.nodes[Child])
    /\ op' = [op EXCEPT !.path = Append(@, Child)]
    /\ UNCHANGED tree

\* A caller has something to do only when the first key of its child changed.
Return(firstKey) ==
    op' = IF firstKey THEN [op EXCEPT !.kind = "adjust", !.path = Front(@)]
          ELSE [op EXCEPT !.kind = "collapse", !.path = <<>>]

RemoveFromLeaf ==
    /\ op.kind = "remove"
    /\ tree.nodes[Here].leaf
    /\ LET keyIndex == KeyIndex(tree.nodes[Here])
       IN  /\ tree' = [tree EXCEPT !.nodes[Here] = RemoveKey(@, keyIndex)]
           /\ Return(keyIndex = 1)

AdjustParent ==
    /\ op.kind = "adjust"
    /\ LET keyIndex == KeyIndex(tree.nodes[Here])
       IN  /\ tree' = [tree EXCEPT !.nodes[Here] =
                          AdjustKeyNode(@, tree.nodes[Child], keyIndex)]
           /\ Return(keyIndex = 1)

\* An inner root with one child gives its place to the child.
CollapseRoot ==
    LET root == tree.nodes[tree.root]
    IN  /\ op.kind = "collapse"
        /\ tree' = IF ~root.leaf /\ root.child[KeysCount(root)] = root.child[1]
                   THEN FreeNode([tree EXCEPT !.root = root.child[1]], tree.root)
                   ELSE tree
        /\ op' = Idle

Continue ==
    \/ InsertSplits \/ InsertDescends \/ InsertInLeaf
    \/ RemoveJoins \/ RemoveDescends \/ RemoveFromLeaf
    \/ AdjustParent \/ CollapseRoot

Next ==
    \/ \E key \in Keys, kind \in {"insert", "remove"} : Begin(kind, key)
    \/ Continue

Spec == Init /\ [][Next]_vars

-----------------------------------------------------------------------------
(* The range scan of MatchRowsWithIndex: from the first leaf that may hold *)
(* a key of the range, the leaves by next.                                 *)

\* BTree::FindBiggerOrEqual: the leaf, and the key of it.  There are fewer
\* levels than nodes, and the walk stays at its leaf.
FindInTree(t, key) ==
    LET Walk[depth \in 0..Len(t.nodes)] ==
            IF depth = 0 THEN t.root
            ELSE LET id == Walk[depth - 1]
                     n  == t.nodes[id]
                 IN  IF n.leaf THEN id ELSE n.child[FindBiggerOrEqual(n, key)]
        leaf == Walk[Len(t.nodes)]
    IN  <<leaf, FindBiggerOrEqual(t.nodes[leaf], key)>>

\* The rows of one leaf from one key up to another, the sentinel left out; the
\* caller's bounds on the rows themselves, which filter this list, are open.
GetRows(n, fromPos, toPos) ==
    LET first == IF GetKey(n, toPos) = SentinelKey THEN toPos + 1 ELSE toPos
    IN  [i \in 1..(fromPos - first + 1) |-> GetKey(n, fromPos + 1 - i)[2]]

\* One turn of the scan: the leaf at hand, from its key number at.from on.
ScanLeaf(t, lastKey, at) ==
    LET node  == t.nodes[at.id]
        to    == FindBiggerOrEqual(node, lastKey)
        toKey == IF to = 0 THEN 1
                 ELSE IF CompareWith(lastKey, GetKey(node, to)) < 0 THEN to + 1 ELSE to
        rows  == at.rows \o (IF at.from >= toKey THEN GetRows(node, at.from, toKey) ELSE <<>>)
    IN  IF at.done THEN at
        ELSE IF to # 0 \/ node.next = NIL_NODE THEN [at EXCEPT !.rows = rows, !.done = TRUE]
        ELSE [id |-> node.next, from |-> KeysCount(t.nodes[node.next]), rows |-> rows,
              done |-> FALSE]

MatchRows(t, firstKey, lastKey) ==
    LET found == FindInTree(t, firstKey)
        Scan[turn \in 0..Len(t.nodes)] ==
            IF turn = 0 THEN [id |-> found[1], from |-> found[2], rows |-> <<>>, done |-> FALSE]
            ELSE ScanLeaf(t, lastKey, Scan[turn - 1])
    IN  IF GetKey(t.nodes[found[1]], found[2]) = SentinelKey THEN <<>>
        ELSE Scan[Len(t.nodes)].rows

-----------------------------------------------------------------------------
(* Properties.                                                             *)

TypeOK ==
    /\ DOMAIN tree = {"nodes", "root", "free"}
    /\ tree.root \in DOMAIN tree.nodes
    /\ tree.free \in DOMAIN tree.nodes \cup {NIL_NODE}
    /\ \A id \in DOMAIN tree.nodes :
         LET n == tree.nodes[id]
         IN  /\ n.leaf \in BOOLEAN /\ n.nulls \in Nat
             /\ n.keys \in Seq(Keys \cup {SentinelKey})
             /\ n.child \in Seq(DOMAIN tree.nodes)
             /\ {n.prev, n.next} \subseteq DOMAIN tree.nodes \cup {NIL_NODE}
             /\ ~n.leaf => Len(n.child) = Len(n.keys)
    /\ op.kind \in {"idle", "insert", "remove", "adjust", "collapse"}
    /\ op.key \in Keys \cup {SentinelKey}
    /\ op.path \in Seq(DOMAIN tree.nodes)

\* Whatever was split and joined, a used node is never empty and always has
\* room for one more key (the assertions before every insertion), its nulls are
\* at most its keys, and it is either reachable by one path from the root or
\* in the list of free nodes: no node is lost and none is shared.
NodesAccounted ==
    LET used     == UsedNodes(tree)
        inner    == {id \in used : ~tree.nodes[id].leaf}
        children == {c \in inner \X (1..InnerKeys) : c[2] <= Len(tree.nodes[c[1]].child)}
    IN  /\ \A id \in used : LET n == tree.nodes[id]
                            IN  KeysCount(n) \in 1..(KeysPerNode(n) - 1) /\ n.nulls <= KeysCount(n)
        /\ tree.root \in used
        /\ {tree.nodes[c[1]].child[c[2]] : c \in children} = used \ {tree.root}
        /\ Cardinality(children) = Cardinality(used) - 1

\* The keys of the contents from one key to another, in order.
Between(firstKey, lastKey) ==
    {k \in LeafContents(tree) : CompareWith(firstKey, k) <= 0 /\ CompareWith(k, lastKey) <= 0}

InOrder(S) ==
    [i \in 1..Cardinality(S) |->
        CHOOSE k \in S : Cardinality({j \in S : CompareWith(j, k) < 0}) = i - 1]

\* Between two operations a scan returns the rows of its range, each once and
\* in order: from any key to the last, and from the first to any key.
ScanIsExact ==
    op = Idle =>
        LET first == <<Null, 0>>
            last  == <<MaxOf(Values), MaxOf(Rows)>>
            Exact(a, b) == LET keys == InOrder(Between(a, b))
                           IN  MatchRows(tree, a, b) = [i \in DOMAIN keys |-> keys[i][2]]
        IN  \A k \in Keys : Exact(k, last) /\ Exact(first, k)

\* The nodes of a level are linked both ways in the order of their keys, and a
\* key of an inner node is the first one of its child, except along the path of
\* a removal that is on its way up.
Neighbours ==
    \A id \in UsedNodes(tree) :
        LET n == tree.nodes[id]
        IN  /\ n.next # NIL_NODE =>
                 /\ tree.nodes[n.next].prev = id
                 /\ tree.nodes[n.next].leaf = n.leaf
                 /\ CompareWith(GetKey(tree.nodes[n.next], KeysCount(tree.nodes[n.next])),
                                GetKey(n, 1)) > 0
            /\ n.prev # NIL_NODE => tree.nodes[n.prev].next = id
            /\ op.kind # "adjust" =>
                 \A i \in DOMAIN n.child : GetKey(n, i) = GetKey(tree.nodes[n.child[i]], 1)

\* Nodes, links and keys, together.
TreeIsWhole == TypeOK /\ NodesAccounted /\ Neighbours

\* The tree is a set of keys: an operation changes it once, by its own key and
\* before it returns, and splits, joins and corrections never do.
KS == INSTANCE KeySet WITH
          keys <- LeafContents(tree),
          call <- IF op.kind \in {"insert", "remove"} THEN <<op.kind, op.key>> ELSE <<>>
Refinement == KS!Spec

\* The first key of the root is the sentinel (asserted when a root is split), so
\* that there is no key an insertion could find above all the others.
RootStartsWithSentinel == GetKey(tree.nodes[tree.root], 1) = SentinelKey
=============================================================================
