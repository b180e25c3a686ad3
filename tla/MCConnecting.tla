----------------------------- MODULE MCConnecting -----------------------------
\* Model checking Connecting: a known headset and a new one.
EXTENDS Connecting
=============================================================================
