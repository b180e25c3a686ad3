----------------------------- MODULE MCGattLink -----------------------------
(* Model checking instance of GattLink: the constants are in the .cfg.     *)
EXTENDS GattLink
=============================================================================
