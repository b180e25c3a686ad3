----------------------------- MODULE MCEndpoints -----------------------------
\* Model checking Endpoints: a stereo pair, and one ear with the microphone.
EXTENDS Endpoints

StereoAndHeadset == {<<"sink", "sink">>, <<"sink", "source">>}
=============================================================================
