-------------------------- MODULE ApiClientProofs --------------------------
(***************************************************************************)
(* Proofs about a call of the controller, for any retry configuration,     *)
(* timeout and deadline: it implements RemoteCall, makes every attempt it  *)
(* has, ends with its context, and waits twice as long every time.         *)
(***************************************************************************)
EXTENDS ApiClient, Induction

\* A call has an outcome once it is over.
Over == outcome = "none" <=> phase # "done"

\* Every attempt sends at most one request, and the attempts are limited.
Counted ==
  /\ attempt <= MaxRetries
  /\ inflight + applied <= attempt + 1
  /\ phase # "done" => inflight + applied <= attempt

\* An attempt has been made after all the delays before it; a delay that is going on
\* ends after them.
Waited ==
  /\ phase = "try" => BaseDelay * (Shift[attempt] - 1) <= now
  /\ phase = "delay" => BaseDelay * (Shift[attempt] - 1) <= due

IInv == TypeOK /\ Over /\ Counted /\ ContextRespected /\ Waited /\ RetriesAreUsed
-----------------------------------------------------------------------------
\* The recursion that defines Shift.
LEMMA ShiftEquation == Shift = [n \in Nat |-> IF n = 0 THEN 1 ELSE 2 * Shift[n - 1]]
<1> DEFINE Def(f) == [n \in Nat |-> IF n = 0 THEN 1 ELSE 2 * f[n - 1]]
           step   == [n \in Nat |-> [v \in Nat |-> 2 * v]]
<1>1. step \in [Nat -> [Nat -> Nat]]
  OBVIOUS
<1>2. PICK f : IsRecursive(f, Nat, 1, step)
  BY <1>1, Recursion
<1>3. f = Def(f)
  <2>1. f = [n \in Nat |-> f[n]] /\ f[0] = 1
    BY <1>2 DEF IsRecursive
  <2>2. ASSUME NEW n \in Nat, n # 0 PROVE f[n] = 2 * f[n - 1]
    <3>1. n - 1 \in Nat /\ (n - 1) + 1 = n
      BY <2>2
    <3>2. f[n - 1] \in Nat /\ f[n] = step[n - 1][f[n - 1]]
      BY <1>2, <3>1 DEF IsRecursive
    <3> QED
      BY <3>1, <3>2
  <2> QED
    BY <2>1, <2>2
<1>4. Shift = CHOOSE g : g = Def(g)
  BY DEF Shift
<1> HIDE DEF Def
<1>5. Shift = Def(Shift)
  BY <1>3, <1>4
<1> QED
  BY <1>5 DEF Def

LEMMA ShiftStep == Shift[0] = 1 /\ \A n \in Nat : Shift[n + 1] = 2 * Shift[n]
<1> DEFINE D == [n \in Nat |-> IF n = 0 THEN 1 ELSE 2 * Shift[n - 1]]
<1>1. D[0] = 1
  OBVIOUS
<1>2. \A n \in Nat : D[n + 1] = 2 * Shift[n]
  OBVIOUS
<1>3. Shift = D
  BY ShiftEquation, Zenon
<1> HIDE DEF D
<1> QED
  BY <1>1, <1>2, <1>3

LEMMA ShiftType == \A n \in Nat : Shift[n] \in Nat \ {0}
<1> DEFINE T == {n \in Nat : Shift[n] \in Nat \ {0}}
<1>1. 0 \in T
  BY ShiftStep
<1>2. ASSUME NEW n \in Nat, n \in T PROVE n + 1 \in T
  BY <1>2, ShiftStep
<1> HIDE DEF T
<1>3. Nat \subseteq T
  BY <1>1, <1>2, NatSetInduction
<1> QED
  BY <1>3 DEF T

\* A delay has a length, and the delays up to one add up to the next one but a base
\* delay.
LEMMA DelaysAddUp ==
  ASSUME NEW n \in Nat
  PROVE  /\ Delay(n) \in Nat
         /\ BaseDelay * (Shift[n + 1] - 1) = BaseDelay * (Shift[n] - 1) + Delay(n)
<1>1. PICK s \in Nat : s = Shift[n] /\ Shift[n + 1] = 2 * s
  BY ShiftStep, ShiftType
<1>2. BaseDelay \in Nat
  BY ApiClientAssumption
<1>3. BaseDelay * s \in Nat
  BY <1>1, <1>2
<1>4. BaseDelay * (2 * s - 1) = BaseDelay * (s - 1) + BaseDelay * s
  BY <1>1, <1>2
<1> QED
  BY <1>1, <1>3, <1>4 DEF Delay
-----------------------------------------------------------------------------
LEMMA InitInductive == Init => IInv
<1> SUFFICES ASSUME Init PROVE IInv
  OBVIOUS
<1>1. BaseDelay * (Shift[attempt] - 1) = 0
  BY ShiftStep, ApiClientAssumption DEF Init
<1> QED
  BY <1>1, ApiClientAssumption
     DEF Init, IInv, TypeOK, Over, Counted, ContextRespected, Waited, RetriesAreUsed

\* An attempt sends at most one request.
AtMostOne ==
  \/ inflight' = inflight /\ applied' = applied
  \/ inflight' = inflight + 1 /\ applied' = applied
  \/ inflight' = inflight /\ applied' = applied + 1

\* How the loop goes on after an attempt: a failure that may pass is followed by another
\* attempt as long as there is one, and every other outcome is returned.
GoesOn(c) ==
  \/ c \in Passing /\ attempt < MaxRetries /\ Continue(c)
  \/ ~(c \in Passing /\ attempt < MaxRetries) /\ Return(c)

\* The bounds in the three places that retry agree.
LEMMA ResponseGoesOn ==
  ASSUME NEW r \in Responses, Response(r)
  PROVE  GoesOn(r)
<1>1. (RetriesRead(r) \/ RetriesStatus(r)) <=> (r \in Passing /\ attempt < MaxRetries)
  BY DEF RetriesRead, RetriesStatus, isRetryableStatus, Passing, Responses
<1> QED
  BY <1>1 DEF Response, GoesOn

LEMMA ErrorGoesOn ==
  ASSUME NEW e \in Errors, TransportError(e)
  PROVE  GoesOn(e)
<1>1. RetriesError(e) <=> (e \in Passing /\ attempt < MaxRetries)
  BY DEF RetriesError, isRetryableError, Passing, Errors
<1> QED
  BY <1>1 DEF TransportError, GoesOn

\* What an attempt that has sent at most one request leads to.
LEMMA AttemptCounted ==
  ASSUME IInv, NEW c \in Responses \cup Errors \cup {"no_request"}, phase = "try", GoesOn(c),
         UNCHANGED <<now, end>>, AtMostOne
  PROVE  IInv'
<1> USE ApiClientAssumption DEF IInv
<1>1. attempt \in Nat /\ Delay(attempt) \in Nat
  BY DelaysAddUp DEF TypeOK
<1>2. c # "exhausted"
  BY DEF Responses, Errors
<1>3. CASE c \in Passing /\ attempt < MaxRetries /\ Continue(c)
  <2>1. /\ attempt' = attempt + 1 /\ cause' = c /\ due' = now + Delay(attempt)
        /\ phase' = "delay" /\ outcome' = outcome
    BY <1>1, <1>3 DEF Continue
  <2>2. TypeOK' /\ ContextRespected'
    BY <1>1, <2>1 DEF TypeOK, OwnErrors, ContextRespected, AtMostOne
  <2>3. Over' /\ RetriesAreUsed'
    BY <1>3, <2>1 DEF Over, RetriesAreUsed
  <2>4. Counted'
    BY <1>3, <2>1 DEF TypeOK, Counted, AtMostOne
  <2>5. BaseDelay * (Shift[attempt] - 1) <= now /\ BaseDelay * (Shift[attempt] - 1) \in Int
    BY <1>1, ShiftType DEF Waited
  <2>6. BaseDelay * (Shift[attempt'] - 1) = BaseDelay * (Shift[attempt] - 1) + Delay(attempt)
    BY <1>1, <2>1, DelaysAddUp
  <2>7. BaseDelay * (Shift[attempt'] - 1) <= due'
    BY <1>1, <2>1, <2>5, <2>6 DEF TypeOK
  <2>8. Waited'
    BY <2>1, <2>7 DEF Waited
  <2> QED
    BY <2>2, <2>3, <2>4, <2>8
<1>4. CASE ~(c \in Passing /\ attempt < MaxRetries) /\ Return(c)
  <2>1. TypeOK' /\ ContextRespected'
    BY <1>4 DEF TypeOK, OwnErrors, ContextRespected, AtMostOne, Return
  <2>2. Over' /\ Waited'
    BY <1>4 DEF Over, Waited, Return
  <2>3. Counted'
    BY <1>4 DEF TypeOK, Counted, AtMostOne, Return
  <2>4. c \in Passing => attempt = MaxRetries
    BY <1>4 DEF TypeOK, Counted
  <2>5. RetriesAreUsed'
    BY <1>2, <1>4, <2>4 DEF RetriesAreUsed, Return
  <2> QED
    BY <2>1, <2>2, <2>3, <2>5
<1> QED
  BY <1>3, <1>4 DEF GoesOn

\* Every step of a call preserves the invariant.
LEMMA NextInductive == IInv /\ [Next]_vars => IInv'
<1> SUFFICES ASSUME IInv, [Next]_vars PROVE IInv'
  OBVIOUS
<1> USE ApiClientAssumption DEF IInv
<1>1. ASSUME NEW r \in Responses, Response(r) PROVE IInv'
  <2>1. Effects(r) \subseteq {0, 1}
    BY DEF Effects
  <2>2. AtMostOne
    BY <1>1, <2>1 DEF Response, AtMostOne, TypeOK
  <2> QED
    BY <1>1, <2>2, ResponseGoesOn, AttemptCounted DEF Response
<1>2. ASSUME NEW e \in Errors, TransportError(e) PROVE IInv'
  BY <1>2, ErrorGoesOn, AttemptCounted DEF TransportError, AtMostOne
<1>3. CASE DelayCancelled
  BY <1>3 DEF DelayCancelled, DelayInterrupted, TypeOK, Errors, Passing, Over, Counted,
     ContextRespected, Waited, RetriesAreUsed
<1>4. CASE DelayOver
  <2>1. BaseDelay * (Shift[attempt] - 1) \in Int
    BY ShiftType DEF TypeOK
  <2> QED
    BY <1>4, <2>1 DEF DelayOver, TypeOK, Over, Counted, ContextRespected, Waited, RetriesAreUsed
<1>5. CASE Cancel
  BY <1>5 DEF Cancel, TypeOK, Over, Counted, ContextRespected, Waited, RetriesAreUsed
<1>6. CASE LateEffect
  BY <1>6 DEF LateEffect, TypeOK, Over, Counted, ContextRespected, Waited, RetriesAreUsed
<1>7. CASE Tick
  <2>1. BaseDelay * (Shift[attempt] - 1) \in Int
    BY ShiftType DEF TypeOK
  <2> QED
    BY <1>7, <2>1 DEF Tick, DelayInterrupted, TypeOK, Over, Counted,
       ContextRespected, Waited, RetriesAreUsed
<1>8. CASE UNCHANGED vars
  BY <1>8 DEF vars, TypeOK, Over, Counted, ContextRespected, Waited, RetriesAreUsed
<1>9. CASE NoRequest
  <2>1. GoesOn("no_request") /\ AtMostOne
    BY <1>9 DEF NoRequest, GoesOn, Passing, AtMostOne
  <2> QED
    BY <1>9, <2>1, AttemptCounted DEF NoRequest
<1> QED
  BY <1>1, <1>2, <1>3, <1>4, <1>5, <1>6, <1>7, <1>8, <1>9 DEF Next

LEMMA Inductive == Spec => []IInv
<1>1. Init => IInv
  BY InitInductive
<1>2. IInv /\ [Next]_vars => IInv'
  BY NextInductive
<1> QED
  BY <1>1, <1>2, PTL DEF Spec
-----------------------------------------------------------------------------
\* The variables keep their types.
THEOREM TypeCorrect == Spec => []TypeOK
<1>1. IInv => TypeOK
  BY DEF IInv
<1> QED
  BY <1>1, Inductive, PTL

\* Attempt n starts only after 2^n - 1 base delays.
THEOREM BacksOff == Spec => []BackoffDoubles
<1>1. IInv => BackoffDoubles
  BY DEF IInv, Waited, BackoffDoubles
<1> QED
  BY <1>1, Inductive, PTL

\* Retries never outlast the context of the call.
THEOREM EndsWithContext == Spec => []ContextRespected
<1>1. IInv => ContextRespected
  BY DEF IInv
<1> QED
  BY <1>1, Inductive, PTL

\* A call that meets only failures that may pass makes exactly the attempts it is
\* configured for, whichever of the three places of doWithRetry they come to.
THEOREM AttemptsAreUsed == Spec => []RetriesAreUsed
<1>1. IInv => RetriesAreUsed
  BY DEF IInv
<1> QED
  BY <1>1, Inductive, PTL

\* Every step of a call is one of RemoteCall, or changes nothing there.
LEMMA StepRefines == IInv /\ [Next]_vars => [Call!Next]_(Call!vars)
<1> SUFFICES ASSUME IInv, Next PROVE Call!Next \/ UNCHANGED Call!vars
  BY DEF vars, Call!vars
<1> USE ApiClientAssumption DEF IInv, TypeOK, Over, Counted, Call!vars
<1>1. ASSUME NEW r \in Responses, Response(r)
      PROVE  Call!Next \/ UNCHANGED Call!vars
  <2>1. outcome' \in {"none", "ok", "error"}
    BY <1>1, ResponseGoesOn DEF GoesOn, Continue, Return
  <2>2. CASE applied' = applied + 1
    BY <1>1, <2>1, <2>2 DEF Response, Call!Next, Call!Send
  <2>3. CASE applied' = applied
    <3>1. PICK n \in Effects(r) : applied' = applied + n
      BY <1>1 DEF Response
    <3>2. r \in {"ok", "garbled"} => Effects(r) = {1}
      BY DEF Effects
    <3>3. n \in {1} => applied' # applied
      BY <3>1
    <3>4. r \notin {"ok", "garbled"}
      BY <2>3, <3>2, <3>3
    <3> QED
      BY <1>1, <2>3, <3>4, ResponseGoesOn
         DEF Response, GoesOn, Continue, Return, Succeeds, Call!Next, Call!Fail
  <2>4. Effects(r) \subseteq {0, 1}
    BY DEF Effects
  <2> QED
    BY <1>1, <2>2, <2>3, <2>4 DEF Response
<1>2. ASSUME NEW e \in Errors, TransportError(e)
      PROVE  Call!Next \/ UNCHANGED Call!vars
  <2>1. e \notin {"ok", "garbled"}
    BY DEF Errors
  <2>2. CASE inflight' = inflight
    BY <1>2, <2>1, <2>2, ErrorGoesOn
       DEF TransportError, GoesOn, Continue, Return, Succeeds, Call!Next, Call!Fail
  <2>3. CASE inflight' = inflight + 1
    BY <1>2, <2>1, <2>3, ErrorGoesOn
       DEF TransportError, GoesOn, Continue, Return, Succeeds, Call!Next, Call!Send
  <2> QED
    BY <1>2, <2>2, <2>3 DEF TransportError
<1>3. CASE DelayCancelled
  BY <1>3 DEF DelayCancelled, DelayInterrupted, Call!Next, Call!Fail
<1>4. CASE LateEffect
  BY <1>4 DEF LateEffect, Call!Next, Call!Apply
<1>5. CASE DelayOver \/ Cancel \/ Tick
  BY <1>5 DEF DelayOver, Cancel, Tick
<1>6. CASE NoRequest
  BY <1>6 DEF NoRequest, Return, Succeeds, Call!Next, Call!Fail
<1> QED
  BY <1>1, <1>2, <1>3, <1>4, <1>5, <1>6 DEF Next

\* A call does what its callers rely on: at most one effect per attempt, and at
\* least one when it succeeds.
THEOREM Refinement == Spec => ImplementsRemoteCall
<1>1. Init => Call!Init
  BY DEF Init, Call!Init
<1>2. IInv /\ [Next]_vars => [Call!Next]_(Call!vars)
  BY StepRefines
<1> QED
  BY <1>1, <1>2, Inductive, PTL DEF Spec, ImplementsRemoteCall, Call!Spec
=============================================================================
