------------------------------- MODULE Tunnel -------------------------------
(***************************************************************************)
(* Create and Remove of the tunnel manager (internal/tunnel/tunnel.go),    *)
(* which run a helper script in the service's container through the four   *)
(* calls of Inspect and Exec (internal/docker/client.go).  Docker and the  *)
(* script are not part of the repository.                                  *)
(***************************************************************************)
EXTENDS ServiceContainer

VARIABLES
  helper,        \* the exec instance of this operation and how it ended
  doubt          \* whether an answer that nobody checks was not a good one

tunnel == <<helper, doubt>>

TunnelOps == [kind : {"create_tunnel", "remove_tunnel"}, form : Forms]

TunnelTypeOK ==
  /\ helper \in {"none", "created", "running", "exit_0", "exit_1"}
  /\ doubt \in BOOLEAN

\* The handler decodes the request, and Validate looks at it.
RefuseTunnel ==
  /\ pc = "tunnel"
  /\ \/ op.form = "garbled" /\ Error
     \/ op.form = "invalid" /\ Fail
  /\ UNCHANGED tunnel

\* Inspect finds a container that is not running too.
FindServiceContainer ==
  /\ pc = "tunnel" /\ op.form = "good" /\ ~expired /\ ctr # "absent"
  /\ Goto("exec_create")
  /\ UNCHANGED tunnel

ExecCreate ==
  /\ pc = "exec_create" /\ ~expired /\ Running
  /\ helper' = "created"
  /\ Goto("exec_start")
  /\ UNCHANGED doubt

ExecStart ==
  /\ pc = "exec_start" /\ ~expired /\ Running /\ helper = "created"
  /\ helper' = "running"
  /\ Goto("exec_read")
  /\ UNCHANGED doubt

\* The status of the start call is not looked at: the text of the error is read as
\* the script's output.
ExecStartRefused ==
  /\ pc = "exec_start" /\ ~expired
  /\ doubt' = TRUE
  /\ Goto("exec_read")
  /\ UNCHANGED helper

\* The script is started, but the answer is lost.
ExecStartLost ==
  /\ pc = "exec_start" /\ ~expired /\ Running /\ helper = "created"
  /\ helper' = "running"
  /\ Fail
  /\ UNCHANGED doubt

\* The output ends when the script does, or with the text of the error.
ExecRead ==
  /\ pc = "exec_read" /\ ~expired /\ helper # "running"
  /\ Goto("exec_inspect")
  /\ UNCHANGED tunnel

\* Nothing marks the end of the output: a connection that is closed looks like it.
ExecReadCut ==
  /\ pc = "exec_read" /\ ~expired
  /\ doubt' = TRUE
  /\ Goto("exec_inspect")
  /\ UNCHANGED helper

\* Mutant: what the script exited with is not looked at.
IgnoreExitCode ==
  /\ pc = "exec_inspect" /\ ~expired
  /\ Succeed("outcome", "none")
  /\ UNCHANGED tunnel

\* The exit code, which is 0 as long as there is none.
ExecInspect ==
  /\ pc = "exec_inspect" /\ ~expired
  /\ IF helper = "exit_1" THEN Fail ELSE Succeed("outcome", "none")
  /\ UNCHANGED tunnel

\* An error or a text that is no JSON leaves the exit code at 0.
ExecInspectUnreadable ==
  /\ pc = "exec_inspect" /\ ~expired
  /\ doubt' = TRUE
  /\ Succeed("outcome", "none")
  /\ UNCHANGED helper

\* A call whose result counts fails.
TunnelCallFails ==
  /\ \/ pc = "tunnel" /\ op.form = "good"
     \/ pc \in {"exec_create", "exec_start", "exec_inspect"}
     \/ pc = "exec_read" /\ expired
  /\ Fail
  /\ UNCHANGED tunnel

\* Reading the output fails while the script may go on: the connection breaks, or the
\* client's timeout of 120 s passes.
ExecReadFails ==
  /\ pc = "exec_read" /\ ~expired
  /\ Fail
  /\ UNCHANGED tunnel

TunnelStep ==
  \/ RefuseTunnel \/ FindServiceContainer \/ ExecCreate \/ ExecStart \/ ExecStartRefused
  \/ ExecRead \/ ExecInspect \/ TunnelCallFails

\* Losses on the way from Docker that nothing makes happen.
TunnelFault == ExecStartLost \/ ExecReadCut \/ ExecReadFails \/ ExecInspectUnreadable
-----------------------------------------------------------------------------
\* The script ends by itself.
HelperEnds ==
  /\ helper = "running"
  /\ helper' \in {"exit_0", "exit_1"}
  /\ UNCHANGED <<frame, ctr, doubt>>

\* What becomes of it when its container stops.
KilledHelper ==
  CASE helper = "created" -> "none"
    [] helper = "running" -> "exit_1"
    [] OTHER              -> helper

\* The state of the container changes, or it is replaced by another one that runs.
ContainerChanges ==
  /\ \/ /\ ctr' \in ContainerStates \ {ctr}
        /\ helper' = IF Running' THEN helper ELSE KilledHelper
     \/ /\ ctr' \in ContainerStates /\ Running'
        /\ helper' = KilledHelper
  /\ UNCHANGED <<frame, doubt>>
-----------------------------------------------------------------------------
\* A tunnel is reported as created or removed only after the helper script has
\* exited with 0, whatever becomes of the container between the calls; unless
\* Docker's answer to one of the two calls of Exec that are not checked was an
\* error, or the output was cut.
TunnelSuccessEarned ==
  op \in TunnelOps /\ result.status = "success" => helper = "exit_0" \/ doubt

\* What comments promise: Exec "runs a command inside a running container" and asks
\* Docker for its exit code, so that success of a tunnel operation means that the script
\* has run to its end and exited with 0, without any exception.
TunnelSuccessIsReal ==
  op \in TunnelOps /\ result.status = "success" => helper = "exit_0"
=============================================================================
