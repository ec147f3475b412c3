------------------------------ MODULE ItemStore ------------------------------
(***************************************************************************)
(* What the users of a block cache rely on: a growing array of fixed size  *)
(* items in which an item keeps the value last stored until it is stored   *)
(* again, whatever the cache keeps, drops or writes back in the meantime.  *)
(***************************************************************************)
EXTENDS Integers

CONSTANTS MaxItems, Values

VARIABLE items      \* the values of the items 0 .. count - 1

IsItems(f) == \E n \in 0 .. MaxItems : f \in [0 .. n - 1 -> Values]

Init == \E n \in 0 .. MaxItems : items \in [0 .. n - 1 -> Values]

\* One item gets a value; the others keep theirs.
StoreOne ==
    \E i \in DOMAIN items, v \in Values : items' = [items EXCEPT ![i] = v]

\* The array grows by one item at its end.
GrowByOne ==
    \E n \in 0 .. MaxItems - 1, v \in Values :
        /\ DOMAIN items = 0 .. n - 1
        /\ items' = [i \in 0 .. n |-> IF i = n THEN v ELSE items[i]]

Next == StoreOne \/ GrowByOne

Spec == Init /\ [][Next]_items
=============================================================================
