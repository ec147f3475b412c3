---------------------------- MODULE MCServerPool ----------------------------
(* Model checking of ServerPool: clients are interchangeable.              *)
EXTENDS ServerPool, TLC

Symmetry == Permutations(Clients)
=============================================================================
