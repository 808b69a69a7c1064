------------------------------ MODULE Handlers ------------------------------
(***************************************************************************)
(* The handlers for tunnels, components, status, logs and health that      *)
(* main.go registers, one operation after the other as the poll loop runs  *)
(* them.  Meanwhile the container of the service, its ports, the image and *)
(* the context change by themselves.                                       *)
(***************************************************************************)
EXTENDS Tunnel, Installer, Inspection

vars == <<frame, ctr, tunnel, installer, inspection>>

Ops == TunnelOps \cup InstallOps \cup StatusOps \cup HealthOps

Steps == {"tunnel", "exec_create", "exec_start", "exec_read", "exec_inspect",
          "pull", "inspect_image", "status", "logs", "health", "probe"}

TypeOK ==
  /\ FrameTypeOK(Steps, Ops)
  /\ ctr \in ContainerStates
  /\ TunnelTypeOK /\ InstallerTypeOK /\ InspectionTypeOK

Init ==
  /\ FrameInit
  /\ ctr = "absent" /\ helper = "none" /\ doubt = FALSE
  /\ local = None /\ present = {}
  /\ open = {} /\ probed = 0 /\ healthy = FALSE /\ was = {}
-----------------------------------------------------------------------------
\* The handler registered for a type of operation.
FirstStep(kind) ==
  CASE kind \in {"create_tunnel", "remove_tunnel"} -> "tunnel"
    [] kind = "install"                            -> "pull"
    [] kind = "collect_status"                     -> "status"
    [] kind = "collect_logs"                       -> "logs"
    [] kind = "health_check"                       -> "health"

\* The histories are kept at every step.
Record == Observe /\ Witness

Dispatch(o) ==
  /\ Begin(o, FirstStep(o.kind))
  /\ UNCHANGED <<ctr, tunnel, local, open, probed, healthy>>
  /\ Record

\* A step of one handler leaves alone what the others work on.
Handle ==
  /\ \/ TunnelStep /\ UNCHANGED <<local, open, probed, healthy>>
     \/ InstallerStep /\ UNCHANGED <<tunnel, open, probed, healthy>>
     \/ InspectionStep /\ UNCHANGED <<tunnel, local>>
  /\ UNCHANGED ctr
  /\ Record

Report ==
  /\ Complete
  /\ helper' = "none" /\ doubt' = FALSE /\ probed' = 0 /\ healthy' = FALSE
  /\ UNCHANGED <<ctr, local, open>>
  /\ Record

Deadline == Expire /\ UNCHANGED <<ctr, tunnel, local, open, probed, healthy>> /\ Record

Surroundings ==
  /\ \/ ContainerChanges /\ UNCHANGED <<local, open, probed, healthy>>
     \/ HelperEnds /\ UNCHANGED <<local, open, probed, healthy>>
     \/ ImageChanges /\ UNCHANGED <<ctr, tunnel, open, probed, healthy>>
     \/ PortChanges /\ UNCHANGED <<tunnel, local>>
     \/ TunnelFault /\ UNCHANGED <<ctr, local, open, probed, healthy>>
  /\ Record

Next ==
  (\E o \in Ops : Dispatch(o)) \/ Handle \/ Report \/ Deadline \/ Surroundings

Spec == Init /\ [][Next]_vars

\* Every call is answered, refused or lost, except that a script may run for ever;
\* but the context ends.
FairSpec ==
  /\ Spec
  /\ WF_vars(Handle) /\ WF_vars(Report) /\ WF_vars(Deadline)
=============================================================================
