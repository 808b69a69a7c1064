---------------------------- MODULE AgentProofs ----------------------------
(***************************************************************************)
(* Proofs about the agent process: what the controller hears, and how      *)
(* often a handler runs, for any set of operations and any bounds.         *)
(*                                                                         *)
(* The report of a duplicate is the hard case: "success" is the answer to  *)
(* an ID that merely has an entry in `seen`.  It is earned because the     *)
(* poll loop is the only caller of the executor, so that an entry belongs  *)
(* to a run that has ended or to the one the loop is busy with             *)
(* (`SeenMeansRun`).                                                       *)
(***************************************************************************)
EXTENDS Agent, TLAPS

\* The report of `st` for `op` would be justified by what has happened.
Earned(op, st) ==
  /\ st = "success" => ended[op] # {}
  /\ st = "degraded" => "degraded" \in ended[op]
  /\ st = "failed" => op \notin Handled \/ ended[op] \cap {"failed", "error"} # {}

\* The poll loop is inside Execute exactly when it says so, and a process that is
\* down has no loop.
LoopState ==
  /\ proc = "down" => loop = "gone"
  /\ pc[Poller] # "idle" => loop = "exec" /\ cur[Poller] \in Ops
  /\ loop \in {"exec", "report"} => cur[Poller] \in Ops
  /\ loop = "exec" /\ pc[Poller] = "idle" => answer[Poller] # "none"

Executing(op) == pc[Poller] \in {"marked", "running"} /\ cur[Poller] = op

SeenMeansRun ==
  \A op \in Ops : seen[op] # Ex!Never => ended[op] # {} \/ Executing(op)

\* Every report, wherever it is, is earned.
AllEarned ==
  /\ \A op \in Ops : \A st \in reports[op] : Earned(op, st)
  /\ \A m \in net : Earned(m[1], m[2])
  /\ loop = "report" => Earned(cur[Poller], status)
  /\ loop = "exec" /\ pc[Poller] = "idle"
       => Earned(cur[Poller], StatusOf(answer[Poller]))

IInv == TypeOK /\ LoopState /\ SeenMeansRun /\ AllEarned
-----------------------------------------------------------------------------
LEMMA InitInductive == Init => IInv
BY AgentAssumption
   DEF Init, IInv, TypeOK, LoopState, SeenMeansRun, AllEarned, Earned,
       Executing, Statuses, LoopPhases, Ex!Init, Ex!TypeOK, Ex!Outcomes,
       Ex!Phases, Ex!Never

\* A run that has ended stays ended, so what was earned stays earned.
LEMMA EarnedStays ==
  ASSUME NEW op, NEW st, Earned(op, st), ended[op] \subseteq ended'[op]
  PROVE  Earned(op, st)'
BY DEF Earned


\* Every step of the system preserves the invariant.
LEMMA NextInductive == IInv /\ [Next]_vars => IInv'
<1> SUFFICES ASSUME IInv, [Next]_vars PROVE IInv'
  OBVIOUS
<1> USE AgentAssumption DEF Statuses, LoopPhases, Ex!Outcomes, Ex!Phases, Ex!Never
<1>1. CASE Heartbeat
  BY <1>1 DEF IInv, TypeOK, LoopState, SeenMeansRun, AllEarned, Earned, Executing, Ex!TypeOK,
     Heartbeat, HeartbeatWait, SendHeartbeat, Local, exVars
<1>2. CASE PollTop \/ ClaimError \/ ClaimNothing \/ Backoff
  BY <1>2 DEF IInv, TypeOK, LoopState, SeenMeansRun, AllEarned, Earned, Executing, Ex!TypeOK,
     PollTop, ClaimError, ClaimNothing, Backoff, Local, exVars
<1>3. ASSUME NEW op \in Ops, ClaimOperation(op) PROVE IInv'
  BY <1>3 DEF IInv, TypeOK, LoopState, SeenMeansRun, AllEarned, Earned, Executing, Ex!TypeOK,
     ClaimOperation, Local, StatusOf, Ex!Execute, Ex!ExecuteUnknown
<1>4. CASE ExecuteStep
  BY <1>4 DEF IInv, TypeOK, LoopState, SeenMeansRun, AllEarned, Earned, Executing, Ex!TypeOK,
     ExecuteStep, Local, StatusOf, Ex!SkipDuplicate, Ex!MarkSeen
<1>5. CASE RunHandler
  BY <1>5 DEF IInv, TypeOK, LoopState, SeenMeansRun, AllEarned, Earned, Executing, Ex!TypeOK,
     RunHandler, Ex!StartHandler
<1>6. ASSUME NEW out \in Ex!Outcomes, HandlerReturns(out) PROVE IInv'
  <2> DEFINE op == cur[Poller]
  <2>1. /\ op \in Ops /\ loop = "exec" /\ loop' = "exec" /\ pc'[Poller] = "idle"
        /\ answer'[Poller] = out /\ cur' = cur /\ out \in ended'[op]
    BY <1>6 DEF IInv, TypeOK, LoopState, HandlerReturns, Ex!EndHandler, Ex!TypeOK
  <2>2. \A o \in Ops : ended[o] \subseteq ended'[o]
    BY <1>6, <2>1 DEF IInv, TypeOK, HandlerReturns
  <2>3. TypeOK' /\ LoopState'
    BY <1>6, <2>1 DEF IInv, TypeOK, LoopState, HandlerReturns, Ex!EndHandler, Ex!TypeOK
  <2>4. SeenMeansRun'
    BY <1>6, <2>1, <2>2 DEF IInv, TypeOK, SeenMeansRun, Executing, HandlerReturns,
       Ex!EndHandler
  <2>5. Earned(op, StatusOf(out))'
    BY <1>6, <2>1 DEF Earned, StatusOf
  <2>6. /\ \A o \in Ops : \A st \in reports[o] : Earned(o, st)'
        /\ \A m \in net : Earned(m[1], m[2])'
    BY <2>2, EarnedStays DEF IInv, TypeOK, AllEarned
  <2>7. AllEarned'
    BY <1>6, <2>1, <2>5, <2>6 DEF AllEarned, HandlerReturns
  <2> QED
    BY <2>3, <2>4, <2>7 DEF IInv
<1>7. CASE ExecuteReturns
  BY <1>7 DEF IInv, TypeOK, LoopState, SeenMeansRun, AllEarned, Earned, Executing, Ex!TypeOK,
     ExecuteReturns, Local, StatusOf, exVars
<1>8. CASE ReportDelivered
  BY <1>8 DEF IInv, TypeOK, LoopState, SeenMeansRun, AllEarned, Earned, Executing, Ex!TypeOK,
     ReportDelivered, NextIteration, exVars
<1>9. CASE ReportFails \/ ReportCancelled
  BY <1>9 DEF IInv, TypeOK, LoopState, SeenMeansRun, AllEarned, Earned, Executing, Ex!TypeOK,
     ReportFails, ReportCancelled, NextIteration, Local, exVars
<1>10. ASSUME NEW m \in Ops \X Statuses, Deliver(m) PROVE IInv'
  BY <1>10 DEF IInv, TypeOK, LoopState, SeenMeansRun, AllEarned, Earned, Executing, Ex!TypeOK,
     Deliver, exVars
<1>11. CASE Signal \/ Start
  <2>1. TypeOK'
    BY <1>11 DEF IInv, TypeOK, Signal, Start, Local, exVars, Ex!TypeOK
  <2>2. LoopState' /\ SeenMeansRun'
    BY <1>11 DEF IInv, LoopState, SeenMeansRun, Executing, Signal, Start, Local, exVars
  <2>3. AllEarned'
    BY <1>11 DEF IInv, LoopState, AllEarned, Earned, Signal, Start, Local, exVars
  <2> QED
    BY <2>1, <2>2, <2>3 DEF IInv
<1>12. CASE Exit
  BY <1>12 DEF IInv, TypeOK, LoopState, SeenMeansRun, AllEarned, Earned, Executing, Ex!TypeOK,
     Exit, Local, Ex!NewExecutor
<1>13. CASE Background
  BY <1>13 DEF IInv, TypeOK, LoopState, SeenMeansRun, AllEarned, Earned, Executing, Ex!TypeOK,
     Background, Local, Ex!Evict, Ex!Stale, Ex!Tick
<1>14. CASE UNCHANGED vars
  BY <1>14 DEF IInv, TypeOK, LoopState, SeenMeansRun, AllEarned, Earned, Executing, Ex!TypeOK,
     vars, exVars
<1> QED
  BY <1>1, <1>2, <1>3, <1>4, <1>5, <1>6, <1>7, <1>8, <1>9, <1>10, <1>11, <1>12, <1>13, <1>14
     DEF Next, Poll, Execution, Process, GracefulExit, ForcedExit, Crash

LEMMA Inductive == Spec => []IInv
<1>1. Init => IInv
  BY InitInductive
<1>2. IInv /\ [Next]_vars => IInv'
  BY NextInductive
<1> QED
  BY <1>1, <1>2, PTL DEF Spec
-----------------------------------------------------------------------------
\* The agent's variables keep their types: among others, only the statuses of
\* the contract are ever reported.
THEOREM TypeCorrect == Spec => []TypeOK
<1>1. IInv => TypeOK
  BY DEF IInv
<1> QED
  BY <1>1, Inductive, PTL

\* The controller hears of a failure only if there was one, and of a success only
\* after a run has ended, with any losses, delays, duplicates and restarts.
THEOREM ReportsAreEarned == Spec => []ReportsEarned
<1>1. IInv => ReportsEarned
  BY DEF IInv, AllEarned, Earned, ReportsEarned
<1> QED
  BY <1>1, Inductive, PTL
-----------------------------------------------------------------------------
\* How often the handler of an operation may have run by now: an entry in `seen`
\* stands for one run of this process, unless that run is still to start.
Limit(op) ==
  IF proc = "down" \/ (seen[op] # Ex!Never /\ ~(pc[Poller] = "marked" /\ cur[Poller] = op))
  THEN restarts + 1 ELSE restarts

\* Until the first entry can be stale, the limit is kept.
RunBound ==
  now <= Window => /\ \A op \in Ops : runs[op] <= Limit(op)
                   /\ \A op \in Ops : Executing(op) => seen[op] # Ex!Never

\* Every step of the system keeps the limit.
LEMMA RunBoundKept == IInv /\ RunBound /\ [Next]_vars => RunBound'
<1> SUFFICES ASSUME IInv, RunBound, [Next]_vars, (now <= Window)' PROVE RunBound'
  BY DEF RunBound
<1> USE AgentAssumption DEF Ex!Never
<1>0. /\ now \in Nat /\ now' \in Nat /\ restarts \in Nat /\ restarts' \in Nat
      /\ runs \in [Ops -> Nat] /\ seen \in [Ops -> Nat \cup {Ex!Never}]
      /\ pc \in [{Poller} -> Ex!Phases]
  BY NextInductive DEF IInv, TypeOK, Ex!TypeOK
<1>1. CASE /\ UNCHANGED <<proc, runs, restarts>>
           /\ UNCHANGED exVars
  BY <1>0, <1>1 DEF RunBound, Limit, Executing, exVars
<1>2. ASSUME NEW op \in Ops, ClaimOperation(op) PROVE RunBound'
  BY <1>0, <1>2 DEF RunBound, Limit, Executing, ClaimOperation, Local,
     Ex!Execute, Ex!ExecuteUnknown
<1>3. CASE ExecuteStep
  BY <1>0, <1>3 DEF IInv, LoopState, RunBound, Limit, Executing, ExecuteStep, Local,
     Ex!SkipDuplicate, Ex!MarkSeen
<1>4. CASE RunHandler
  BY <1>0, <1>4 DEF IInv, LoopState, RunBound, Limit, Executing, RunHandler,
     Ex!StartHandler
<1>5. ASSUME NEW out \in Ex!Outcomes, HandlerReturns(out) PROVE RunBound'
  BY <1>0, <1>5 DEF RunBound, Limit, Executing, HandlerReturns, Ex!EndHandler
<1>6. CASE Exit
  BY <1>0, <1>6 DEF RunBound, Limit, Executing, Exit, Local, Ex!NewExecutor
<1>7. CASE Signal \/ Start
  BY <1>0, <1>7 DEF RunBound, Limit, Executing, Signal, Start, Local, exVars
<1>8. CASE Background
  <2>1. CASE Ex!Evict
    <3>1. \A op \in Ops : ~Ex!Stale(op)
      BY <1>0, <1>8, <2>1 DEF Ex!Stale, Ex!Evict
    <3> QED
      BY <2>1, <3>1 DEF Ex!Evict
  <2>2. CASE Ex!Tick
    BY <1>0, <1>8, <2>2 DEF RunBound, Limit, Executing, Background, Local, Ex!Tick
  <2> QED
    BY <1>8, <2>1, <2>2 DEF Background
<1>9. CASE \/ Heartbeat \/ PollTop \/ ClaimError \/ ClaimNothing \/ Backoff
           \/ ExecuteReturns \/ ReportDelivered \/ ReportFails \/ ReportCancelled
           \/ \E m \in Ops \X Statuses : Deliver(m)
  BY <1>1, <1>9 DEF Heartbeat, HeartbeatWait, SendHeartbeat, PollTop, ClaimError,
     ClaimNothing, Backoff, ExecuteReturns, ReportDelivered, ReportFails,
     ReportCancelled, NextIteration, Deliver, Local
<1>10. CASE UNCHANGED vars
  BY <1>1, <1>10 DEF vars
<1> QED
  BY <1>2, <1>3, <1>4, <1>5, <1>6, <1>7, <1>8, <1>9, <1>10
     DEF Next, Poll, Execution, Process, GracefulExit, ForcedExit, Crash

\* While nothing can have been evicted, the handler of an operation is started no more
\* often than there have been processes.
THEOREM RunsAreBounded == Spec => []OneRunPerProcess
<1>1. Init => RunBound
  BY AgentAssumption DEF Init, RunBound, Limit, Executing, Ex!Init
<1>2. IInv /\ RunBound /\ [Next]_vars => RunBound'
  BY RunBoundKept
<1>3. IInv /\ RunBound => OneRunPerProcess
  BY DEF IInv, TypeOK, RunBound, Limit, OneRunPerProcess
<1> QED
  BY <1>1, <1>2, <1>3, Inductive, PTL DEF Spec
-----------------------------------------------------------------------------
\* Every behaviour of the agent is one of the executor with the poll loop as its only
\* caller: no step of the process, of the network or of the controller reaches into it.
THEOREM Refinement == Spec => Ex!Spec
<1>1. Init => Ex!Init
  BY DEF Init
<1>2. [Next]_vars => [Ex!Next]_(Ex!vars)
  <2> SUFFICES ASSUME [Next]_vars PROVE Ex!Next \/ UNCHANGED exVars
    BY DEF Ex!vars, exVars
  <2>1. CASE Heartbeat \/ Signal \/ Start \/ \E m \in Ops \X Statuses : Deliver(m)
    BY <2>1 DEF Heartbeat, HeartbeatWait, SendHeartbeat, Signal, Start, Deliver
  <2>2. CASE PollTop \/ ClaimError \/ ClaimNothing \/ Backoff \/ ExecuteReturns
             \/ ReportDelivered \/ ReportFails \/ ReportCancelled
    BY <2>2 DEF PollTop, ClaimError, ClaimNothing, Backoff, ExecuteReturns, ReportDelivered,
       ReportFails, ReportCancelled
  <2>3. CASE (\E op \in Ops : ClaimOperation(op)) \/ ExecuteStep \/ RunHandler
             \/ \E out \in Ex!Outcomes : HandlerReturns(out)
    BY <2>3 DEF ClaimOperation, ExecuteStep, RunHandler, HandlerReturns, Ex!Next, Ex!Step
  <2>4. CASE Exit \/ Background
    BY <2>4 DEF Exit, Background, Ex!Next
  <2>5. CASE UNCHANGED vars
    BY <2>5 DEF vars
  <2> QED
    BY <2>1, <2>2, <2>3, <2>4, <2>5
       DEF Next, Poll, Execution, Process, GracefulExit, ForcedExit, Crash
<1> QED
  BY <1>1, <1>2, PTL DEF Spec, Ex!Spec

\* The executor of the agent, with what has been proved about executors.
ExP == INSTANCE ExecutorProofs WITH Callers <- {Poller}

\* IdempotencyWindow of the agent's executor: whatever the controller hands out again and
\* however the process is interrupted, a process marks an ID again only when its earlier
\* mark is more than Window old.
THEOREM AgentWindow ==
  ASSUME ExP!ExecutorAssumption
  PROVE  Spec => Ex!IdempotencyWindow
<1>1. Ex!Init => ExP!Init
  BY DEF Ex!Init, ExP!Init, Ex!Never, ExP!Never
<1>2. [Ex!Next]_(Ex!vars) => [ExP!Next]_(ExP!vars)
  BY DEF Ex!Next, ExP!Next, Ex!vars, ExP!vars, Ex!Step, ExP!Step, Ex!Outcomes, ExP!Outcomes,
     Ex!ExecuteUnknown, ExP!ExecuteUnknown, Ex!Execute, ExP!Execute, Ex!SkipDuplicate,
     ExP!SkipDuplicate, Ex!MarkSeen, ExP!MarkSeen, Ex!StartHandler, ExP!StartHandler, Ex!EndHandler,
     ExP!EndHandler, Ex!Evict, ExP!Evict, Ex!Stale, ExP!Stale, Ex!NewExecutor, ExP!NewExecutor,
     Ex!Tick, ExP!Tick, Ex!Never, ExP!Never
<1>3. Ex!Spec => ExP!Spec
  BY <1>1, <1>2, PTL DEF Ex!Spec, ExP!Spec
<1>4. ExP!Spec => ExP!IdempotencyWindow
  BY ExP!WindowKept
<1>5. ExP!IdempotencyWindow => Ex!IdempotencyWindow
  BY PTL DEF Ex!IdempotencyWindow, ExP!IdempotencyWindow, Ex!vars, ExP!vars, Ex!Never, ExP!Never
<1> QED
  BY <1>3, <1>4, <1>5, Refinement
=============================================================================
