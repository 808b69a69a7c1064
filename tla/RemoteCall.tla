----------------------------- MODULE RemoteCall -----------------------------
(***************************************************************************)
(* What the callers of the API client can rely on: a call has any number   *)
(* of effects at the controller, at least one of them if it succeeds, and  *)
(* some of them possibly after it has failed.                              *)
(***************************************************************************)
EXTENDS Naturals

CONSTANT MaxEffects      \* the number of requests one call sends at most

VARIABLES
  outcome,               \* "none" while the call lasts, then "ok" or "error"
  inflight,              \* requests the controller may still process
  applied                \* requests the controller has processed

vars == <<outcome, inflight, applied>>

Init == outcome = "none" /\ inflight = 0 /\ applied = 0

\* A request is sent; the controller may have processed it by the time the
\* caller knows what has become of it, later, or never.
Send ==
  /\ outcome = "none" /\ inflight + applied < MaxEffects
  /\ \/ applied' = applied + 1 /\ UNCHANGED inflight
     \/ inflight' = inflight + 1 /\ UNCHANGED applied
  /\ outcome' \in {"none", "ok", "error"}
  /\ outcome' = "ok" => applied' > applied

\* The call is given up, or goes on, without another effect.
Fail == outcome = "none" /\ outcome' = "error" /\ UNCHANGED <<inflight, applied>>

\* The controller processes a request nobody waits for.
Apply ==
  /\ inflight > 0
  /\ inflight' = inflight - 1 /\ applied' = applied + 1
  /\ UNCHANGED outcome

Next == Send \/ Fail \/ Apply

Spec == Init /\ [][Next]_vars
=============================================================================
