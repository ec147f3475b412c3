--------------------------- MODULE MCStoreRepair ---------------------------
(* Model checking of StoreRepair: fields 1 and 3 are arrays, 2 is a text. *)
EXTENDS StoreRepair, TLC
=============================================================================
