------------------------------ MODULE MCAdapter ------------------------------
(* Model checking instance of Adapter: the constants are in the .cfg.      *)
EXTENDS Adapter
=============================================================================
