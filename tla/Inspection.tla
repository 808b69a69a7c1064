----------------------------- MODULE Inspection -----------------------------
(***************************************************************************)
(* The handlers that only look: CollectStatus and CollectLogs of the       *)
(* service manager (internal/service/manager.go) and Check of the health   *)
(* manager (internal/health/manager.go).                                   *)
(*                                                                         *)
(* A health check looks at the container first and then at one port after  *)
(* the other, while both change.  A port is open if it accepts connections *)
(* within the timeout of a probe.                                          *)
(***************************************************************************)
EXTENDS ServiceContainer

CONSTANTS
  Ports,         \* the host ports that may be probed
  MaxProbes      \* bound on the ports of one request

ASSUME InspectionAssumption == MaxProbes \in Nat

VARIABLES
  open,          \* the ports that are open
  probed,        \* how many ports have been probed
  healthy,       \* report.Healthy
  was            \* what has been so at some time since the health check began

inspection == <<open, probed, healthy, was>>

StatusOps == [kind : {"collect_status", "collect_logs"}, form : Forms]
HealthOps == [kind : {"health_check"}, form : Forms, ports : BoundedSeq(Ports, MaxProbes)]

\* What can be said of the container and the ports at one moment.
Facts ==
  {<<"container", IF ctr = "up" THEN "up" ELSE "down">>}
    \cup {<<p, IF p \in open THEN "open" ELSE "shut">> : p \in Ports}

AllFacts == ({"container"} \X {"up", "down"}) \cup (Ports \X {"open", "shut"})

InspectionTypeOK ==
  /\ open \subseteq Ports
  /\ probed \in 0 .. MaxProbes
  /\ healthy \in BOOLEAN
  /\ was \subseteq AllFacts

Observe == was' = IF op' \in HealthOps THEN was \cup Facts' ELSE {}

\* A payload that does not decode or has no service_id.
RefuseInspection ==
  /\ pc \in {"status", "logs", "health"} /\ op.form # "good"
  /\ Error
  /\ UNCHANGED <<open, probed, healthy>>

CollectStatus ==
  /\ pc = "status" /\ op.form = "good" /\ ~expired /\ ctr # "absent"
  /\ Succeed("none", "status")
  /\ UNCHANGED <<open, probed, healthy>>

CollectLogs ==
  /\ pc = "logs" /\ op.form = "good" /\ ~expired /\ ctr # "absent"
  /\ Succeed("logs", "none")
  /\ UNCHANGED <<open, probed, healthy>>

InspectionFails ==
  /\ pc \in {"status", "logs", "health"} /\ op.form = "good"
  /\ Fail
  /\ UNCHANGED <<open, probed, healthy>>

\* Mutant: the report is made without Healthy, which has its zero value.
HealthyNotSet ==
  /\ pc = "health" /\ op.form = "good" /\ ~expired /\ ctr # "absent"
  /\ healthy' = FALSE
  /\ Goto("probe")
  /\ UNCHANGED <<open, probed>>

\* Check: the container must be running and, if it has a health check, healthy.
CheckContainer ==
  /\ pc = "health" /\ op.form = "good" /\ ~expired /\ ctr # "absent"
  /\ healthy' = (ctr = "up")
  /\ Goto("probe")
  /\ UNCHANGED <<open, probed>>

MorePorts == probed < Len(op.ports)

\* Mutant: the last port decides.
LastPortDecides ==
  /\ pc = "probe" /\ MorePorts
  /\ healthy' = (~expired /\ op.ports[probed + 1] \in open)
  /\ probed' = probed + 1
  /\ UNCHANGED <<frame, open>>

\* Mutant: a port that is shut is probed again until it opens.
ProbeAgain ==
  /\ pc = "probe" /\ MorePorts /\ op.ports[probed + 1] \in open
  /\ probed' = probed + 1
  /\ UNCHANGED <<frame, open, healthy>>

\* probePort: under a context that has ended, the answer is that the port is shut.
ProbePort ==
  /\ pc = "probe" /\ MorePorts
  /\ healthy' = (healthy /\ ~expired /\ op.ports[probed + 1] \in open)
  /\ probed' = probed + 1
  /\ UNCHANGED <<frame, open>>

\* The report is returned whatever it says, and its verdict is the status.
ReportHealth ==
  /\ pc = "probe" /\ ~MorePorts
  /\ Return(IF healthy THEN "success" ELSE "degraded", "none", "health_report")
  /\ UNCHANGED <<open, probed, healthy>>

InspectionStep ==
  \/ RefuseInspection \/ CollectStatus \/ CollectLogs \/ InspectionFails
  \/ CheckContainer \/ ProbePort \/ ReportHealth

\* A port opens or shuts.
PortChanges ==
  /\ \E p \in Ports : open' = IF p \in open THEN open \ {p} ELSE open \cup {p}
  /\ UNCHANGED <<frame, ctr, probed, healthy>>
-----------------------------------------------------------------------------
\* A verdict of "healthy" is founded: in the course of the check the container was up
\* and each port that was asked for was open, if not all at the same time.
HealthyIsFounded ==
  op \in HealthOps /\ result.status = "success" =>
    <<"container", "up">> \in was /\ \A p \in Range(op.ports) : <<p, "open">> \in was

\* So is "degraded": the container was not up, or one of the ports was shut, or the
\* context of the check had ended.
DegradedIsFounded ==
  op \in HealthOps /\ result.status = "degraded" =>
    \/ expired \/ <<"container", "down">> \in was
    \/ \E p \in Range(op.ports) : <<p, "shut">> \in was
=============================================================================
