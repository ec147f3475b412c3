------------------------------- MODULE KeySet -------------------------------
(***************************************************************************)
(* What a B-tree promises to the table that owns it: a set of keys, into   *)
(* which an operation puts its key, or takes it out of it, once and in one *)
(* step between its call and its return.                                   *)
(***************************************************************************)
CONSTANT Keys

VARIABLES
    keys,   \* the keys that were inserted and not removed
    call    \* the operation that has not had its effect: its kind and key

NoCall == <<>>

Init == keys = {} /\ call = NoCall

CallInsert ==
    /\ call = NoCall
    /\ \E k \in Keys \ keys : call' = <<"insert", k>>
    /\ UNCHANGED keys

CallRemove ==
    /\ call = NoCall
    /\ \E k \in keys : call' = <<"remove", k>>
    /\ UNCHANGED keys

Insert ==
    /\ \E k \in Keys : call = <<"insert", k>> /\ keys' = keys \cup {k}
    /\ call' = NoCall

Remove ==
    /\ \E k \in keys : call = <<"remove", k>> /\ keys' = keys \ {k}
    /\ call' = NoCall

Next == CallInsert \/ CallRemove \/ Insert \/ Remove

Spec == Init /\ [][Next]_<<keys, call>>
=============================================================================
