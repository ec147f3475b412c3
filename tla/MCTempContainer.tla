-------------------------- MODULE MCTempContainer --------------------------
(* Model checking of TempContainer: bytes are interchangeable.             *)
EXTENDS TempContainer, TLC

Symmetry == Permutations(Values)
=============================================================================
