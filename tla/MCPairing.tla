----------------------------- MODULE MCPairing -----------------------------
\* Model checking Pairing.
EXTENDS Pairing
=============================================================================
