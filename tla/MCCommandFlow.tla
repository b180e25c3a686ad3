--------------------------- MODULE MCCommandFlow ---------------------------
\* Model checking CommandFlow.
EXTENDS CommandFlow
============================================================================
