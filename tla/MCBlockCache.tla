---------------------------- MODULE MCBlockCache ----------------------------
(* Model checking of BlockCache: threads and values are interchangeable.   *)
EXTENDS BlockCache, TLC

Symmetry == Permutations(Threads) \cup Permutations(Values)
=============================================================================
