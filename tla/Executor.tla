------------------------------ MODULE Executor ------------------------------
(***************************************************************************)
(* The operation executor (internal/executor/executor.go): dispatch of     *)
(* operations to handlers behind an in-memory table of recently seen       *)
(* operation IDs.                                                          *)
(*                                                                         *)
(* A call of Execute takes three steps that other goroutines may separate: *)
(* the handler lookup under the read lock, the check-and-mark of `seen`    *)
(* under the write lock, and the handler itself outside any lock.  Besides *)
(* the callers there is evictLoop, which deletes old entries under the     *)
(* write lock.  A new process starts with a new, empty executor.           *)
(*                                                                         *)
(* Time is an integer clock.  A goroutine that has marked an operation     *)
(* starts its handler at most Lag later, and a handler returns at most Lag *)
(* after its context has expired: `Tick` waits for both.                   *)
(***************************************************************************)
EXTENDS Integers

CONSTANTS
  Ops,       \* operation IDs
  NoOp,      \* "no operation": a caller that has not called yet
  Handled,   \* the operations whose type has a registered handler
  Callers,   \* goroutines that call Execute
  Timeout,   \* defaultTimeout, the deadline of a handler's context
  Window,    \* age beyond which evictLoop forgets an operation ID
  Lag,       \* scheduling and cancellation delay
  MaxTime    \* bound on the clock

ASSUME ExecutorAssumption ==
  /\ NoOp \notin Ops
  /\ Handled \subseteq Ops
  /\ Timeout \in Nat /\ Window \in Nat /\ Lag \in Nat /\ MaxTime \in Nat
  /\ Timeout + 2 * Lag <= Window

VARIABLES
  now,       \* the clock
  seen,      \* Executor.seen: the stamp of an ID, Never when it has no entry
  pc,        \* where a caller is inside Execute
  cur,       \* the operation a caller is executing or executed last
  since,     \* when an active caller entered its current phase, else 0
  answer,    \* what the caller's last Execute returned
  mark       \* history: when this process last marked an ID, Never if it has not

vars == <<now, seen, pc, cur, since, answer, mark>>

Never == -1

\* A handler returns a Result with a status, or an error.
Outcomes == {"success", "degraded", "failed", "error"}
Phases   == {"idle", "check", "marked", "running"}

TypeOK ==
  /\ now \in Nat
  /\ seen \in [Ops -> Nat \cup {Never}]
  /\ mark \in [Ops -> Nat \cup {Never}]
  /\ pc \in [Callers -> Phases]
  /\ cur \in [Callers -> Ops \cup {NoOp}]
  /\ since \in [Callers -> Nat]
  /\ answer \in [Callers -> Outcomes \cup {"none"}]

Init ==
  /\ now = 0
  /\ seen = [op \in Ops |-> Never]
  /\ mark = [op \in Ops |-> Never]
  /\ pc = [c \in Callers |-> "idle"]
  /\ cur = [c \in Callers |-> NoOp]
  /\ since = [c \in Callers |-> 0]
  /\ answer = [c \in Callers |-> "none"]

Active(c) == pc[c] \in {"marked", "running"}
-----------------------------------------------------------------------------
\* Execute is called for an operation of a type nobody registered.
ExecuteUnknown(c, op) ==
  /\ pc[c] = "idle" /\ op \notin Handled
  /\ cur' = [cur EXCEPT ![c] = op]
  /\ answer' = [answer EXCEPT ![c] = "error"]
  /\ UNCHANGED <<now, seen, pc, since, mark>>

\* Execute is called and finds the handler.
Execute(c, op) ==
  /\ pc[c] = "idle" /\ op \in Handled
  /\ pc' = [pc EXCEPT ![c] = "check"]
  /\ cur' = [cur EXCEPT ![c] = op]
  /\ answer' = [answer EXCEPT ![c] = "none"]
  /\ UNCHANGED <<now, seen, since, mark>>

\* Mutant: a duplicate is answered with a status of its own.
AnswerDuplicate(c) ==
  /\ pc[c] = "check" /\ seen[cur[c]] # Never
  /\ pc' = [pc EXCEPT ![c] = "idle"]
  /\ answer' = [answer EXCEPT ![c] = "duplicate"]
  /\ UNCHANGED <<now, seen, cur, since, mark>>

\* The ID has an entry: "already processed" is a Result with status success.
SkipDuplicate(c) ==
  /\ pc[c] = "check" /\ seen[cur[c]] # Never
  /\ pc' = [pc EXCEPT ![c] = "idle"]
  /\ answer' = [answer EXCEPT ![c] = "success"]
  /\ UNCHANGED <<now, seen, cur, since, mark>>

\* Mutant: the handler is started without an entry.
MarkLater(c) ==
  /\ pc[c] = "check" /\ seen[cur[c]] = Never
  /\ pc' = [pc EXCEPT ![c] = "marked"]
  /\ since' = [since EXCEPT ![c] = now]
  /\ UNCHANGED <<now, seen, cur, answer, mark>>

\* The ID has no entry: it is marked under the same lock, before the handler.
MarkSeen(c) ==
  /\ pc[c] = "check" /\ seen[cur[c]] = Never
  /\ pc' = [pc EXCEPT ![c] = "marked"]
  /\ seen' = [seen EXCEPT ![cur[c]] = now]
  /\ mark' = [mark EXCEPT ![cur[c]] = now]
  /\ since' = [since EXCEPT ![c] = now]
  /\ UNCHANGED <<now, cur, answer>>

\* The handler is invoked with a context that expires Timeout from now.
StartHandler(c) ==
  /\ pc[c] = "marked"
  /\ pc' = [pc EXCEPT ![c] = "running"]
  /\ since' = [since EXCEPT ![c] = now]
  /\ UNCHANGED <<now, seen, cur, answer, mark>>

\* The handler returns a result or an error, never neither (which would end the process);
\* the entry in `seen` stays whatever the outcome.
EndHandler(c, out) ==
  /\ pc[c] = "running"
  /\ pc' = [pc EXCEPT ![c] = "idle"]
  /\ answer' = [answer EXCEPT ![c] = out]
  /\ since' = [since EXCEPT ![c] = 0]
  /\ UNCHANGED <<now, seen, cur, mark>>

\* An entry is stale when its stamp is strictly before the cutoff.
Stale(op) == seen[op] # Never /\ seen[op] < now - Window

\* Mutant: evicts an entry as soon as it is Window old.
EvictAtCutoff ==
  /\ seen' = [op \in Ops |-> IF seen[op] # Never /\ seen[op] <= now - Window
                             THEN Never ELSE seen[op]]
  /\ UNCHANGED <<now, pc, cur, since, answer, mark>>

\* Mutant: the comparison is turned round, and the old entries are kept.
EvictFresh ==
  /\ seen' = [op \in Ops |-> IF seen[op] > now - Window THEN Never ELSE seen[op]]
  /\ UNCHANGED <<now, pc, cur, since, answer, mark>>

\* One round of evictLoop.
Evict ==
  /\ \E op \in Ops : Stale(op)
  /\ seen' = [op \in Ops |-> IF Stale(op) THEN Never ELSE seen[op]]
  /\ UNCHANGED <<now, pc, cur, since, answer, mark>>

\* The process dies, with whatever its goroutines were doing, and a new one
\* creates its executor.
NewExecutor ==
  /\ seen' = [op \in Ops |-> Never]
  /\ mark' = [op \in Ops |-> Never]
  /\ pc' = [c \in Callers |-> "idle"]
  /\ cur' = [c \in Callers |-> NoOp]
  /\ since' = [c \in Callers |-> 0]
  /\ answer' = [c \in Callers |-> "none"]
  /\ UNCHANGED now

\* The clock advances, unless a goroutine is due.
Tick ==
  /\ now < MaxTime
  /\ \A c \in Callers : /\ pc[c] = "marked"  => now < since[c] + Lag
                        /\ pc[c] = "running" => now < since[c] + Timeout + Lag
  /\ now' = now + 1
  /\ UNCHANGED <<seen, pc, cur, since, answer, mark>>

Step(c) ==
  \/ \E op \in Ops : ExecuteUnknown(c, op) \/ Execute(c, op)
  \/ SkipDuplicate(c) \/ MarkSeen(c) \/ StartHandler(c)
  \/ \E out \in Outcomes : EndHandler(c, out)

Next == (\E c \in Callers : Step(c)) \/ Evict \/ NewExecutor \/ Tick

Spec == Init /\ [][Next]_vars

\* evictLoop's ticker fires for as long as the process lives.
FairSpec == Spec /\ WF_vars(Evict)
-----------------------------------------------------------------------------
\* "Mark seen before execution to prevent concurrent replays": no two
\* goroutines are ever inside the handler of the same operation, although the
\* eviction of old entries runs concurrently with the handlers.
NoConcurrentReplay ==
  \A c, d \in Callers : c # d /\ Active(c) /\ Active(d) => cur[c] # cur[d]

\* The idempotency window: within one process, an ID that has been marked is
\* marked again only when the earlier mark is more than Window old.
IdempotencyWindow ==
  [][\A op \in Ops : seen[op] = Never /\ seen'[op] # Never /\ mark[op] # Never
                       => now - mark[op] > Window]_vars

\* The table does not keep an expired ID for ever: what is stale is evicted.
StaleEntriesEvicted ==
  \A op \in Ops : Stale(op) ~> seen[op] = Never
=============================================================================
