---------------------------- MODULE MCDbsManager ----------------------------
(* Small instances of DbsManager for TLC. *)
EXTENDS DbsManagerProofs, TLC

Symmetry == Permutations(Threads)
=============================================================================
