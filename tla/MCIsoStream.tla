--------------------------- MODULE MCIsoStream ---------------------------
\* Model checking IsoStream.
EXTENDS IsoStream
==========================================================================
