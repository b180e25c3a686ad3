--------------------------- MODULE MCMediaControl ---------------------------
\* Model checking MediaControl: one opcode, supported or not at the moment, and a
\* queue of notifications short enough to fill.
EXTENDS MediaControl
=============================================================================
