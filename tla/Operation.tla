----------------------------- MODULE Operation ------------------------------
(***************************************************************************)
(* What the handlers of internal/executor/handlers.go have in common: one  *)
(* operation at a time, run under a context that may end, as a sequence of *)
(* external calls, with a Result at its end that the poll loop             *)
(* (internal/agent/agent.go) reports.  A call made under a context that    *)
(* has ended fails.  What a lost report leads to is the subject of Agent.  *)
(*                                                                         *)
(* Texts are classes of what they are about.                               *)
(***************************************************************************)
EXTENDS Naturals, Sequences, SequencesExt

CONSTANT None

VARIABLES
  pc,            \* the next step: "idle" between operations, "report" after the handler
  op,            \* the operation
  result,        \* what its handler returned
  expired,       \* whether its context has ended: the timeout, or a shutdown
  told           \* the last report to the controller

frame == <<pc, op, result, expired, told>>

Statuses == {"success", "degraded", "failed", "error"}
Messages == {"none", "error", "outcome", "logs"}
Payloads == {"none", "status", "health_report", "certificate_report"}
NoResult == [status |-> "none", message |-> "none", data |-> "none"]

\* A payload is not the expected JSON, fails validation, or passes it.
Forms == {"garbled", "invalid", "good"}

FrameTypeOK(Steps, Ops) ==
  /\ pc \in Steps \cup {"idle", "report"}
  /\ op \in Ops \cup {None}
  /\ result \in [status : Statuses, message : Messages, data : Payloads] \cup {NoResult}
  /\ expired \in BOOLEAN
  /\ told \in [status : Statuses \ {"error"}, text : Messages] \cup {None}

FrameInit == pc = "idle" /\ op = None /\ result = NoResult /\ expired = FALSE /\ told = None

\* The executor calls the handler of the operation.
Begin(o, step) ==
  /\ pc = "idle"
  /\ pc' = step /\ op' = o /\ expired' = FALSE /\ told' = None
  /\ UNCHANGED result

Goto(step) == pc' = step /\ UNCHANGED <<op, result, expired, told>>

Return(status, message, data) ==
  /\ pc' = "report"
  /\ result' = [status |-> status, message |-> message, data |-> data]
  /\ UNCHANGED <<op, expired, told>>

Succeed(message, data) == Return("success", message, data)
Fail                   == Return("failed", "error", "none")
Error                  == Return("error", "error", "none")

\* The handler's timeout of five minutes, or a signal.
Expire ==
  /\ pc \notin {"idle", "report"} /\ ~expired
  /\ expired' = TRUE
  /\ UNCHANGED <<pc, op, result, told>>

\* Mutant: an error of the handler is reported under its own name.
RawStatus == result.status

\* An error is reported as a failure.
ReportedStatus == IF result.status = "error" THEN "failed" ELSE result.status

\* The report has the status and the message of a result, and not its data.
Complete ==
  /\ pc = "report"
  /\ told' = [status |-> ReportedStatus, text |-> result.message]
  /\ pc' = "idle" /\ op' = None /\ result' = NoResult /\ expired' = FALSE
-----------------------------------------------------------------------------
\* Every operation comes to an end and is reported, even if a helper script hangs or
\* a port never answers.
OperationEnds == pc # "idle" ~> pc = "idle"
=============================================================================
