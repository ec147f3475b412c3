---------------------------- MODULE BTreeInvariant ---------------------------
(***************************************************************************)
(* The inductive invariant of BTree, for a field that no row leaves null.  *)
(*                                                                         *)
(* The nodes do not say which keys may come to be in them.  The invariant  *)
(* gives each used node a level and an interval of keys: these do not      *)
(* change when keys are inserted and removed, a split cuts an interval in  *)
(* two, a join makes one of two, and everything else follows from them,    *)
(* the links, the parents, that a key is in one leaf only and that the     *)
(* search leads there.  g holds them; it is no state of the program.       *)
(***************************************************************************)
EXTENDS BTree

-----------------------------------------------------------------------------
(* Keys and nodes when no value is null.                                   *)

AllKeys == Keys \cup {SentinelKey}

\* Keys are ordered as these numbers are.
Num(key) == key[1] * (MaxOf(Rows) + 2) + key[2]

Top == Num(SentinelKey)

\* With many null values the code loses count of them (README, section 6).
NoNulls == Nullable = {}

Node == [leaf : BOOLEAN, keys : Seq(AllKeys), child : Seq(Nat), nulls : {0},
         prev : Nat, next : Nat]

Descending(ks) == \A i, j \in 1 .. Len(ks) : i < j => Num(ks[i]) > Num(ks[j])

Fit(n) ==
    /\ n \in Node /\ Descending(n.keys)
    /\ n.leaf => n.child = <<>>
    /\ ~n.leaf => Len(n.child) = Len(n.keys)

-----------------------------------------------------------------------------
(* The tree.  Every used node has a level and an interval of keys, open    *)
(* below and closed above; the intervals of a level are those of a line.   *)

Trees == [nodes : Seq(Node), root : Nat, free : Nat]

Ghosts == [used : SUBSET (Nat \ {0}), lev : [Nat -> Nat], lo : [Nat -> Nat], hi : [Nat -> Nat]]

\* The keys of a node are in its interval, and leaves are on level 0.
Placed(t, g) ==
    \A x \in g.used :
        /\ x \in DOMAIN t.nodes /\ Fit(t.nodes[x]) /\ Len(t.nodes[x].keys) >= 1
        /\ t.nodes[x].leaf <=> g.lev[x] = 0
        /\ g.lo[x] < g.hi[x] /\ g.hi[x] <= Top
        /\ \A i \in 1 .. Len(t.nodes[x].keys) :
             g.lo[x] < Num(t.nodes[x].keys[i]) /\ Num(t.nodes[x].keys[i]) <= g.hi[x]

\* The links of a level follow the order of its intervals.
Linked(t, g) ==
    \A x \in g.used :
        /\ t.nodes[x].prev = NIL_NODE => g.lo[x] = 0
        /\ t.nodes[x].prev # NIL_NODE =>
             /\ t.nodes[x].prev \in g.used
             /\ g.lev[t.nodes[x].prev] = g.lev[x] /\ g.hi[t.nodes[x].prev] = g.lo[x]
             /\ t.nodes[t.nodes[x].prev].next = x
        /\ t.nodes[x].next = NIL_NODE => g.hi[x] = Top
        /\ t.nodes[x].next # NIL_NODE =>
             t.nodes[x].next \in g.used /\ t.nodes[t.nodes[x].next].prev = x

Apart(g) ==
    \A x, y \in g.used : x # y /\ g.lev[x] = g.lev[y] => g.hi[x] <= g.lo[y] \/ g.hi[y] <= g.lo[x]

\* x is child i of p.
IsChild(t, p, i, x) ==
    i \in 1 .. Len(t.nodes[p].keys) /\ ~t.nodes[p].leaf /\ t.nodes[p].child[i] = x

\* The key of a child is the upper end of its interval.
Family(t, g) ==
    \A p \in g.used : ~t.nodes[p].leaf =>
        \A i \in 1 .. Len(t.nodes[p].keys) :
            /\ t.nodes[p].child[i] \in g.used
            /\ g.lev[t.nodes[p].child[i]] + 1 = g.lev[p]
            /\ g.hi[t.nodes[p].child[i]] = Num(t.nodes[p].keys[i])

\* Every other node is the child of some node.
Rooted(t, g) ==
    /\ t.root \in g.used /\ g.lo[t.root] = 0 /\ g.hi[t.root] = Top
    /\ \A x \in g.used : g.lev[x] <= g.lev[t.root]
    /\ \A x \in g.used : x # t.root =>
         \E p \in g.used : \E i \in 1 .. Len(t.nodes[p].keys) : IsChild(t, p, i, x)

\* The list of free nodes, its head last.
FreeList(t, used, n, fl) ==
    /\ n \in Nat /\ fl \in [Nat -> Nat] /\ fl[0] = NIL_NODE /\ fl[n] = t.free
    /\ \A i \in 1 .. n :
         fl[i] \in DOMAIN t.nodes /\ t.nodes[fl[i]] = [NewNode EXCEPT !.next = fl[i - 1]]
    /\ \A i, j \in 1 .. n : fl[i] = fl[j] => i = j
    /\ used = DOMAIN t.nodes \ {fl[i] : i \in 1 .. n}

FreeChain(t, used) == \E n, fl : FreeList(t, used, n, fl)

Whole(t, g) ==
    /\ t \in Trees /\ g \in Ghosts
    /\ Placed(t, g) /\ Linked(t, g) /\ Apart(g) /\ Family(t, g) /\ Rooted(t, g)
    /\ FreeChain(t, g.used)

\* The first key of a node is the upper end of its interval.
Tight(t, g, X) == \A x \in g.used \ X : Num(t.nodes[x].keys[1]) = g.hi[x]

Covers(g, x, k) == g.lo[x] < k /\ k <= g.hi[x]

\* A node with this many keys is split before it is entered.
Full(n) == (2 * KeysPerNode(n)) \div 3 - 1

\* A node with fewer keys than this is joined before it is entered.
Poor(n) == KeysPerNode(n) \div 3 - 1

\* Every node has room for a key; all but the root have enough of them.
Sized(t, g) ==
    \A x \in g.used :
        /\ Len(t.nodes[x].keys) <= Full(t.nodes[x])
        /\ x # t.root => Len(t.nodes[x].keys) >= Poor(t.nodes[x]) - 1

\* An inner root has at least two children, but for the time of a removal.
Forked(t) == ~t.nodes[t.root].leaf => Len(t.nodes[t.root].keys) >= 2

-----------------------------------------------------------------------------
(* The invariant: t is the tree and o the operation under way.             *)

Ops == [kind : {"idle", "insert", "remove", "adjust", "collapse"}, key : AllKeys, path : Seq(Nat)]

Deepest(o) == o.path[Len(o.path)]

\* The open calls lead from the root to the key, one level each.
Way(t, g, o) ==
    /\ Len(o.path) >= 1 /\ o.path[1] = t.root
    /\ \A i \in 1 .. Len(o.path) :
         /\ o.path[i] \in g.used /\ g.lev[o.path[i]] + i = g.lev[t.root] + 1
         /\ Covers(g, o.path[i], Num(o.key))

AtRest(t, g, o) == o = Idle /\ Tight(t, g, {}) /\ Forked(t)

\* A full node has a parent with room for one more key.
Inserting(t, g, o) ==
    /\ o.kind = "insert" /\ o.key \in Keys /\ o.key \notin LeafContents(t)
    /\ Tight(t, g, {}) /\ Forked(t) /\ Way(t, g, o)
    /\ Len(o.path) > 1 => \/ ~NeedsSpliting(t.nodes[o.path[Len(o.path) - 1]])
                          \/ ~NeedsSpliting(t.nodes[Deepest(o)])

\* It has a key to spare, so that a join below it leaves it with enough.
Ready(t, x) == IF x = t.root THEN Forked(t) ELSE Len(t.nodes[x].keys) >= Poor(t.nodes[x])

\* A node gives a key away only when it has one to spare.
Removing(t, g, o) ==
    /\ o.kind = "remove" /\ o.key \in LeafContents(t)
    /\ Tight(t, g, {}) /\ Way(t, g, o)
    /\ LET x == Deepest(o)
       IN  \/ Ready(t, x)
           \/ /\ ~t.nodes[x].leaf
              /\ ~NeedsJoining(t.nodes[t.nodes[x].child[FindBiggerOrEqual(t.nodes[x], o.key)]])

\* One node, below the one at hand, begins with less than its parent says.
Adjusting(t, g, o) ==
    /\ o.kind = "adjust" /\ o.key \in Keys /\ Way(t, g, o)
    /\ \E c \in g.used : /\ Tight(t, g, {c}) /\ g.hi[c] = Num(o.key)
                         /\ g.lev[Deepest(o)] = g.lev[c] + 1

Collapsing(t, g, o) == o.kind = "collapse" /\ o.path = <<>> /\ Tight(t, g, {})

Phase(t, g, o) ==
    AtRest(t, g, o) \/ Inserting(t, g, o) \/ Removing(t, g, o) \/ Adjusting(t, g, o) \/ Collapsing(t, g, o)

Sound(t, g, o) == Whole(t, g) /\ Sized(t, g) /\ o \in Ops /\ Phase(t, g, o)

IInv == \E g : Sound(tree, g, op)
=============================================================================
