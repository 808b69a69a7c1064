-------------------------------- MODULE Agent --------------------------------
(***************************************************************************)
(* The agent process (internal/agent/agent.go) with its executor, the      *)
(* controller it polls and the network in between.                         *)
(*                                                                         *)
(* Run starts two goroutines: heartbeatLoop and operationPollLoop.  The    *)
(* poll loop claims one operation at a time, runs it through the executor  *)
(* (module Executor, with the loop as its only caller) and reports the     *)
(* outcome.  A signal cancels the context both goroutines and all of their *)
(* calls use; Run then waits for them, but not for ever.  The process may  *)
(* also die at any moment, and is started again with an empty executor.    *)
(*                                                                         *)
(* The controller is not part of the repository.  What the agent relies on *)
(* is that it may hand out an operation, again if need be, for as long as  *)
(* it has no report of it.                                                 *)
(***************************************************************************)
EXTENDS Integers, FiniteSets

CONSTANTS
  Ops, NoOp, Handled, Timeout, Window, Lag, MaxTime,   \* see Executor
  Poller,        \* the goroutine of operationPollLoop
  Lossy,         \* TRUE when calls to the controller may fail
  MaxRestarts,   \* bound on the number of times the process is restarted
  MaxLate        \* bound on the reports that are late at the same time

VARIABLES
  proc,          \* "up", "draining" (the context is cancelled) or "down"
  heart,         \* heartbeatLoop: "wait", "send" or "gone"
  loop,          \* operationPollLoop: see LoopPhases
  status,        \* what the loop is about to report
  net,           \* reports sent whose sender gave up waiting for the answer
  reports,       \* the statuses the controller has received, per operation
  restarts,      \* how often the process has been restarted
  runs,          \* history: how often the handler of an operation was started
  ended,         \* history: the outcomes of those runs that came to an end
  now, seen, pc, cur, since, answer, mark      \* the executor's

exVars == <<now, seen, pc, cur, since, answer, mark>>
vars   == <<proc, heart, loop, status, net, reports, restarts, runs, ended, exVars>>

Ex == INSTANCE Executor WITH Callers <- {Poller}

ASSUME AgentAssumption ==
  /\ Lossy \in BOOLEAN /\ MaxRestarts \in Nat /\ MaxLate \in Nat
  /\ Window \in Nat

Statuses   == {"success", "degraded", "failed"}
LoopPhases == {"top", "claim", "backoff", "exec", "report", "gone"}

TypeOK ==
  /\ Ex!TypeOK
  /\ proc \in {"up", "draining", "down"}
  /\ heart \in {"wait", "send", "gone"}
  /\ loop \in LoopPhases
  /\ status \in Statuses
  /\ net \subseteq Ops \X Statuses
  /\ reports \in [Ops -> SUBSET Statuses]
  /\ restarts \in 0 .. MaxRestarts
  /\ runs \in [Ops -> Nat]
  /\ ended \in [Ops -> SUBSET Ex!Outcomes]

Init ==
  /\ Ex!Init
  /\ proc = "up" /\ heart = "send" /\ loop = "top"
  /\ status = "success"
  /\ net = {}
  /\ reports = [op \in Ops |-> {}]
  /\ restarts = 0
  /\ runs = [op \in Ops |-> 0]
  /\ ended = [op \in Ops |-> {}]

\* Mutant: the loops are given a context the signal does not cancel.
NeverCancelled == FALSE

\* ctx.Done() is closed.
Cancelled == proc = "draining"

\* The local steps of a goroutine leave the controller and the histories alone.
Local == UNCHANGED <<net, reports, restarts, runs, ended>>
-----------------------------------------------------------------------------
\* heartbeatLoop: wait for the ticker or for the end.
HeartbeatWait ==
  /\ heart = "wait" /\ proc # "down"
  /\ heart' \in IF Cancelled THEN {"gone", "send"} ELSE {"send"}
  /\ UNCHANGED <<proc, loop, status, exVars>> /\ Local

\* Mutant: a failed heartbeat ends the loop.
HeartbeatGivesUp ==
  /\ heart = "send"
  /\ heart' \in {"wait"} \cup (IF Lossy THEN {"gone"} ELSE {})
  /\ UNCHANGED <<proc, loop, status, exVars>> /\ Local

\* sendHeartbeat returns; a failure is only logged.
SendHeartbeat ==
  /\ heart = "send"
  /\ heart' = "wait"
  /\ UNCHANGED <<proc, loop, status, exVars>> /\ Local

\* The poll loop looks at its context before it claims.
PollTop ==
  /\ loop = "top"
  /\ loop' = IF Cancelled THEN "gone" ELSE "claim"
  /\ UNCHANGED <<proc, heart, status, exVars>> /\ Local

\* ClaimOperation fails, as it must once the context is cancelled.
ClaimError ==
  /\ loop = "claim" /\ (Lossy \/ Cancelled)
  /\ loop' = "backoff"
  /\ UNCHANGED <<proc, heart, status, exVars>> /\ Local

\* The controller has nothing for this node.
ClaimNothing ==
  /\ loop = "claim" /\ ~Cancelled
  /\ loop' = "top"
  /\ UNCHANGED <<proc, heart, status, exVars>> /\ Local

\* The controller hands out an operation and the loop calls Execute.
ClaimOperation(op) ==
  /\ loop = "claim" /\ ~Cancelled /\ reports[op] = {}
  /\ loop' = "exec"
  /\ Ex!Execute(Poller, op) \/ Ex!ExecuteUnknown(Poller, op)
  /\ UNCHANGED <<proc, heart, status>> /\ Local

\* Five seconds, or the end of the context.
Backoff ==
  /\ loop = "backoff"
  /\ loop' = IF Cancelled THEN "gone" ELSE "top"
  /\ UNCHANGED <<proc, heart, status, exVars>> /\ Local
-----------------------------------------------------------------------------
\* The steps of Execute outside the handler.
ExecuteStep ==
  /\ loop = "exec"
  /\ Ex!SkipDuplicate(Poller) \/ Ex!MarkSeen(Poller)
  /\ UNCHANGED <<proc, heart, loop, status>> /\ Local

RunHandler ==
  /\ loop = "exec"
  /\ Ex!StartHandler(Poller)
  /\ runs' = [runs EXCEPT ![cur[Poller]] = @ + 1]
  /\ UNCHANGED <<proc, heart, loop, status, net, reports, restarts, ended>>

HandlerReturns(out) ==
  /\ loop = "exec"
  /\ Ex!EndHandler(Poller, out)
  /\ ended' = [ended EXCEPT ![cur[Poller]] = @ \cup {out}]
  /\ UNCHANGED <<proc, heart, loop, status, net, reports, restarts, runs>>

\* Mutant: what Execute returned is reported as it is.
RawStatus(a) == a

\* Mutant: the error that Execute returns is not looked at.
IgnoreError(a) == IF a = "error" THEN "success" ELSE a

\* The status reported for what Execute returned.
StatusOf(a) == IF a = "error" THEN "failed" ELSE a

ExecuteReturns ==
  /\ loop = "exec" /\ pc[Poller] = "idle"
  /\ loop' = "report"
  /\ status' = StatusOf(answer[Poller])
  /\ UNCHANGED <<proc, heart, exVars>> /\ Local

\* Whatever becomes of the report, the loop goes on; its locals start anew.
NextIteration == loop' = "top" /\ status' = "success"

\* CompleteOperation succeeds: the controller has the report.
ReportDelivered ==
  /\ loop = "report" /\ ~Cancelled
  /\ reports' = [reports EXCEPT ![cur[Poller]] = @ \cup {status}]
  /\ NextIteration
  /\ UNCHANGED <<proc, heart, net, restarts, runs, ended, exVars>>

\* Mutant: the loop ends when a report fails.
ReportFailsForGood ==
  /\ loop = "report" /\ ~Cancelled /\ Lossy
  /\ loop' = "gone"
  /\ UNCHANGED <<proc, heart, status, exVars>> /\ Local

\* CompleteOperation fails, with or without a request on its way: the error is
\* only logged.
ReportFails ==
  /\ loop = "report" /\ ~Cancelled /\ Lossy
  /\ NextIteration
  /\ \/ UNCHANGED net
     \/ Cardinality(net) < MaxLate /\ net' = net \cup {<<cur[Poller], status>>}
  /\ UNCHANGED <<proc, heart, reports, restarts, runs, ended, exVars>>

\* The context of the report derives from the cancelled one: nothing is sent.
ReportCancelled ==
  /\ loop = "report" /\ Cancelled
  /\ NextIteration
  /\ UNCHANGED <<proc, heart, exVars>> /\ Local

\* A late report reaches the controller.
Deliver(m) ==
  /\ m \in net
  /\ net' = net \ {m}
  /\ reports' = [reports EXCEPT ![m[1]] = @ \cup {m[2]}]
  /\ UNCHANGED <<proc, heart, loop, status, restarts, runs, ended, exVars>>
-----------------------------------------------------------------------------
\* SIGTERM or SIGINT.
Signal ==
  /\ proc = "up" /\ restarts < MaxRestarts
  /\ proc' = "draining"
  /\ UNCHANGED <<heart, loop, status, exVars>> /\ Local

\* The process is gone, and so is everything it had in memory.
Exit ==
  /\ proc' = "down" /\ heart' = "gone" /\ loop' = "gone"
  /\ status' = "success"
  /\ Ex!NewExecutor
  /\ Local

\* Both goroutines have returned and Run returns.
GracefulExit == proc = "draining" /\ loop = "gone" /\ heart = "gone" /\ Exit

\* Thirty seconds have passed since the signal and a goroutine is still there.
ForcedExit == proc = "draining" /\ ~(loop = "gone" /\ heart = "gone") /\ Exit

Crash == proc = "up" /\ restarts < MaxRestarts /\ Exit

\* The service manager starts the agent again.
Start ==
  /\ proc = "down" /\ restarts < MaxRestarts
  /\ proc' = "up" /\ heart' = "send" /\ loop' = "top"
  /\ restarts' = restarts + 1
  /\ UNCHANGED <<status, net, reports, runs, ended, exVars>>

\* The executor's evictLoop and the clock.
Background ==
  /\ (proc # "down" /\ Ex!Evict) \/ Ex!Tick
  /\ UNCHANGED <<proc, heart, loop, status>> /\ Local

Heartbeat == HeartbeatWait \/ SendHeartbeat

Execution ==
  \/ ExecuteStep \/ RunHandler \/ ExecuteReturns
  \/ \E out \in Ex!Outcomes : HandlerReturns(out)

Poll ==
  \/ PollTop \/ ClaimError \/ ClaimNothing \/ Backoff \/ Execution
  \/ \E op \in Ops : ClaimOperation(op)
  \/ ReportDelivered \/ ReportFails \/ ReportCancelled

Process == Signal \/ GracefulExit \/ ForcedExit \/ Crash \/ Start

Next ==
  \/ Heartbeat \/ Poll \/ Process \/ Background
  \/ \E m \in Ops \X Statuses : Deliver(m)

Spec == Init /\ [][Next]_vars

(***************************************************************************)
(* The goroutines keep running and every handler returns when its context  *)
(* expires.  A process that is down is started again.  The ticker of the   *)
(* heartbeat does not always win the select against a closed Done channel. *)
(* ForcedExit has no fairness: a shutdown must not depend on it.           *)
(***************************************************************************)
Fairness ==
  /\ WF_vars(SendHeartbeat) /\ WF_vars(HeartbeatWait)
  /\ SF_vars(HeartbeatWait /\ heart' = "gone")
  /\ WF_vars(Poll) /\ WF_vars(GracefulExit) /\ WF_vars(Start)

\* The controller keeps offering what it has no report of, and a call that is
\* made again and again succeeds at some point.
Connectivity ==
  /\ \A op \in Ops : SF_vars(ClaimOperation(op))
  /\ \A op \in Ops : SF_vars(ReportDelivered /\ cur[Poller] = op)

FairSpec == Spec /\ Fairness /\ Connectivity
-----------------------------------------------------------------------------
\* What the controller is told happened: it hears "failed" or "degraded" only
\* if a run ended that way (or nobody handles the operation), and "success"
\* only if a run of the operation has ended, here or in an earlier process.
ReportsEarned ==
  \A op \in Ops :
    /\ "success" \in reports[op] => ended[op] # {}
    /\ "degraded" \in reports[op] => "degraded" \in ended[op]
    /\ "failed" \in reports[op] =>
         op \notin Handled \/ ended[op] \cap {"failed", "error"} # {}

\* As long as no entry is old enough to be evicted, the handler of an operation is
\* started no more often than there have been processes, however often the controller
\* hands the operation out.
OneRunPerProcess ==
  \A op \in Ops : now <= Window => runs[op] <= restarts + 1

\* A lost report or a restart does not lose an operation: what the controller
\* offers is reported in the end.
EveryOperationCompletes == \A op \in Ops : <>(reports[op] # {})

\* After a signal the process comes to its end without the 30 s deadline.
ShutdownCompletes == proc = "draining" ~> proc = "down"

\* As long as the process is not told to stop, heartbeats are sent.
HeartbeatsContinue == []<>(heart = "send" \/ proc # "up")

\* What a comment promises: "On success, the operation ID is recorded to prevent
\* replays", so that a duplicate is answered with success only if a run has
\* succeeded.
SuccessReportsAreEarned ==
  \A op \in Ops : "success" \in reports[op] => "success" \in ended[op]

\* What a comment promises: the loop "reports completion".  With a network that
\* loses nothing, a run that has ended is reported by the time the process has
\* shut down gracefully.
CompletionReported ==
  [][GracefulExit => \A op \in Ops : ended[op] # {} => reports[op] # {}]_vars
=============================================================================
