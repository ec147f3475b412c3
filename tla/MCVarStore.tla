----------------------------- MODULE MCVarStore -----------------------------
(* Model checking of VarStore: threads are interchangeable.                *)
EXTENDS VarStore, TLC

Symmetry == Permutations(Threads)
=============================================================================
