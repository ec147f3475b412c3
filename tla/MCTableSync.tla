---------------------------- MODULE MCTableSync ----------------------------
(* Model checking of TableSync: threads and tables are interchangeable.    *)
EXTENDS TableSync, TLC

Symmetry == Permutations(Threads) \cup Permutations(Tables)
=============================================================================
