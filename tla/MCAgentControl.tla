--------------------------- MODULE MCAgentControl ---------------------------
\* Model checking AgentControl.
EXTENDS AgentControl
=============================================================================
