-------------------------- MODULE ServiceContainer --------------------------
(***************************************************************************)
(* The container of the service that an operation names, as Docker         *)
(* describes it.  It belongs to Docker: others start, stop, remove and     *)
(* replace it, and its health changes, at any time.                        *)
(***************************************************************************)
EXTENDS Operation

VARIABLE ctr

\* A container that has a health check may be running and not healthy.
ContainerStates == {"absent", "stopped", "unhealthy", "up"}
Running         == ctr \in {"unhealthy", "up"}
=============================================================================
