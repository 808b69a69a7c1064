--------------------------- MODULE ExecutorProofs ---------------------------
(***************************************************************************)
(* Proofs about the executor, for any operations, callers and clock        *)
(* bounds.                                                                 *)
(*                                                                         *)
(* Why no two goroutines run the same operation: the first one's mark      *)
(* keeps the second out until evictLoop deletes it, and evictLoop deletes  *)
(* only what is older than Window, which is more than a handler can last   *)
(* (Timeout + 2 * Lag <= Window).  `Covered` is the fact that makes the    *)
(* argument inductive: an operation being executed has an entry that is    *)
(* not stale.                                                              *)
(***************************************************************************)
EXTENDS Executor, TLAPS

\* A caller inside Execute has an operation.
Busy ==
  \A c \in Callers : pc[c] # "idle" => cur[c] \in Ops

\* An operation being executed has an entry, and how old it can be.
Covered ==
  \A c \in Callers :
    /\ pc[c] = "marked"  => /\ seen[cur[c]] = since[c]
                            /\ now <= since[c] + Lag
    /\ pc[c] = "running" => /\ seen[cur[c]] # Never
                            /\ since[c] <= seen[cur[c]] + Lag
                            /\ now <= since[c] + Timeout + Lag

\* `seen` against its history: an entry is the latest mark, and a mark that has
\* no entry any more is older than Window.
Tracked ==
  \A op \in Ops :
    /\ seen[op] # Never => seen[op] = mark[op]
    /\ seen[op] = Never /\ mark[op] # Never => now - mark[op] > Window

IInv == TypeOK /\ Busy /\ Covered /\ Tracked /\ NoConcurrentReplay
-----------------------------------------------------------------------------
\* What a handler's age bound buys: the entry of an active caller is not stale.
LEMMA ActiveNotStale ==
  ASSUME IInv, NEW c \in Callers, Active(c)
  PROVE  cur[c] \in Ops /\ seen[cur[c]] # Never /\ ~Stale(cur[c])
<1>1. cur[c] \in Ops
  BY DEF IInv, Busy, Active
<1>2. /\ since[c] \in Nat /\ now \in Nat /\ seen[cur[c]] \in Nat \cup {Never}
      /\ Timeout \in Nat /\ Window \in Nat /\ Lag \in Nat
      /\ Timeout + 2 * Lag <= Window
  BY <1>1, ExecutorAssumption DEF IInv, TypeOK
<1>3. CASE pc[c] = "marked"
  BY <1>1, <1>2, <1>3 DEF IInv, Covered, Stale, Never
<1>4. CASE pc[c] = "running"
  BY <1>1, <1>2, <1>4 DEF IInv, Covered, Stale, Never
<1> QED
  BY <1>3, <1>4 DEF Active

LEMMA InitInductive == Init => IInv
BY ExecutorAssumption
   DEF Init, IInv, TypeOK, Busy, Covered, Tracked, NoConcurrentReplay, Active,
       Outcomes, Phases, Never

\* Every step of the executor preserves the invariant.
LEMMA NextInductive == IInv /\ [Next]_vars => IInv'
<1> SUFFICES ASSUME IInv, [Next]_vars PROVE IInv'
  OBVIOUS
<1> USE ExecutorAssumption
<1>1. ASSUME NEW c \in Callers, NEW op \in Ops, ExecuteUnknown(c, op)
      PROVE  IInv'
  BY <1>1 DEF IInv, TypeOK, Busy, Covered, Tracked, NoConcurrentReplay, Active,
     ExecuteUnknown, Outcomes, Phases, Never
<1>2. ASSUME NEW c \in Callers, NEW op \in Ops, Execute(c, op)
      PROVE  IInv'
  BY <1>2 DEF IInv, TypeOK, Busy, Covered, Tracked, NoConcurrentReplay, Active,
     Execute, Outcomes, Phases, Never
<1>3. ASSUME NEW c \in Callers, SkipDuplicate(c)
      PROVE  IInv'
  BY <1>3 DEF IInv, TypeOK, Busy, Covered, Tracked, NoConcurrentReplay, Active,
     SkipDuplicate, Outcomes, Phases, Never
<1>4. ASSUME NEW c \in Callers, MarkSeen(c)
      PROVE  IInv'
  <2>1. cur[c] \in Ops /\ seen[cur[c]] = Never
    BY <1>4 DEF IInv, Busy, MarkSeen
  <2>2. TypeOK' /\ Busy'
    BY <1>4, <2>1 DEF IInv, TypeOK, Busy, MarkSeen, Phases, Never
  <2>3. \A d \in Callers : d # c /\ Active(d) => cur[d] # cur[c]
    BY <2>1, ActiveNotStale
  <2>4. Covered'
    BY <1>4, <2>1, <2>3 DEF IInv, TypeOK, Busy, Covered, Active, MarkSeen, Never
  <2>5. Tracked'
    BY <1>4, <2>1 DEF IInv, TypeOK, Tracked, MarkSeen, Never
  <2>6. NoConcurrentReplay'
    BY <1>4, <2>3 DEF IInv, TypeOK, NoConcurrentReplay, Active, MarkSeen
  <2> QED
    BY <2>2, <2>4, <2>5, <2>6 DEF IInv
<1>5. ASSUME NEW c \in Callers, StartHandler(c)
      PROVE  IInv'
  BY <1>5 DEF IInv, TypeOK, Busy, Covered, Tracked, NoConcurrentReplay, Active,
     StartHandler, Outcomes, Phases, Never
<1>6. ASSUME NEW c \in Callers, NEW out \in Outcomes, EndHandler(c, out)
      PROVE  IInv'
  BY <1>6 DEF IInv, TypeOK, Busy, Covered, Tracked, NoConcurrentReplay, Active,
     EndHandler, Phases, Never
<1>7. ASSUME Evict PROVE IInv'
  <2>1. TypeOK' /\ Busy' /\ NoConcurrentReplay'
    BY <1>7 DEF IInv, TypeOK, Busy, NoConcurrentReplay, Active, Evict, Never
  <2>2. \A c \in Callers : Active(c) => /\ cur[c] \in Ops
                                        /\ seen'[cur[c]] = seen[cur[c]]
    BY <1>7, ActiveNotStale DEF Evict
  <2>3. Covered'
    BY <1>7, <2>2 DEF IInv, TypeOK, Covered, Active, Evict
  <2>4. Tracked'
    BY <1>7 DEF IInv, TypeOK, Tracked, Evict, Stale, Never
  <2> QED
    BY <2>1, <2>3, <2>4 DEF IInv
<1>8. ASSUME NewExecutor PROVE IInv'
  BY <1>8 DEF IInv, TypeOK, Busy, Covered, Tracked, NoConcurrentReplay, Active,
     NewExecutor, Outcomes, Phases, Never
<1>9. ASSUME Tick PROVE IInv'
  BY <1>9 DEF IInv, TypeOK, Busy, Covered, Tracked, NoConcurrentReplay, Active,
     Tick, Outcomes, Phases, Never
<1>10. CASE UNCHANGED vars
  BY <1>10 DEF vars, IInv, TypeOK, Busy, Covered, Tracked, NoConcurrentReplay,
     Active, Outcomes, Phases, Never
<1> QED
  BY <1>1, <1>2, <1>3, <1>4, <1>5, <1>6, <1>7, <1>8, <1>9, <1>10
     DEF Next, Step

LEMMA Inductive == Spec => []IInv
<1>1. Init => IInv
  BY InitInductive
<1>2. IInv /\ [Next]_vars => IInv'
  BY NextInductive
<1> QED
  BY <1>1, <1>2, PTL DEF Spec
-----------------------------------------------------------------------------
\* The executor's variables keep their types.
THEOREM TypeCorrect == Spec => []TypeOK
<1>1. IInv => TypeOK
  BY DEF IInv
<1> QED
  BY <1>1, Inductive, PTL

\* Execute never runs the handler of one operation in two goroutines at a time,
\* however evictLoop interleaves with them.
THEOREM NoReplay == Spec => []NoConcurrentReplay
<1>1. IInv => NoConcurrentReplay
  BY DEF IInv
<1> QED
  BY <1>1, Inductive, PTL

\* Within one process an operation ID is marked again only when its earlier
\* mark is more than Window old.
THEOREM WindowKept == Spec => IdempotencyWindow
<1> DEFINE Fresh(op) == seen[op] = Never /\ seen'[op] # Never /\ mark[op] # Never
                          => now - mark[op] > Window
<1>1. IInv => \A op \in Ops : Fresh(op)
  BY DEF IInv, Tracked
<1>2. IInv /\ [Next]_vars => [\A op \in Ops : Fresh(op)]_vars
  BY <1>1
<1> QED
  BY <1>2, Inductive, PTL DEF Spec, IdempotencyWindow
=============================================================================
