---------------------------- MODULE MCContainers ----------------------------
EXTENDS Containers

CONSTANTS awg, xray

\* Two known names are enough for a loop over them.
MCKnown == <<awg, xray>>
=============================================================================
