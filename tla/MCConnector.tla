---------------------------- MODULE MCConnector ----------------------------
(* Model checking of Connector. *)
EXTENDS Connector, TLC
=============================================================================
