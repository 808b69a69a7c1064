------------------------------ MODULE ApiClient ------------------------------
(***************************************************************************)
(* One call of the controller through the API client: doWithRetry          *)
(* (internal/api/client.go), which Enroll, Heartbeat, ClaimOperation and   *)
(* CompleteOperation all use.                                              *)
(*                                                                         *)
(* An attempt ends with a response of some status class, with a response   *)
(* whose body cannot be read, or with an error of the transport.  Time is  *)
(* an integer clock; the caller's context expires at Deadline and the HTTP *)
(* client gives up on an attempt after RequestTimeout.                     *)
(***************************************************************************)
EXTENDS Integers

CONSTANTS
  MaxRetries, BaseDelay,   \* RetryConfig
  RequestTimeout,          \* of the HTTP client
  Deadline,                \* of the caller's context
  Decodes                  \* whether the caller wants the body of the response

ASSUME ApiClientAssumption ==
  /\ MaxRetries \in Nat /\ BaseDelay \in Nat
  /\ RequestTimeout \in Nat /\ Deadline \in Nat
  /\ Decodes \in BOOLEAN

VARIABLES
  now,        \* the clock, from the start of the call
  end,        \* when the caller's context ends
  phase,      \* "try", "delay" or "done"
  attempt,    \* the loop variable
  due,        \* when the attempt times out or the delay is over
  outcome,    \* "none", "ok" or "error"
  cause,      \* what the last attempt came to, or the error of doWithRetry itself
  inflight,   \* requests sent that the controller may still process
  applied     \* requests the controller has processed

vars == <<now, end, phase, attempt, due, outcome, cause, inflight, applied>>

\* Classes of responses: 408 and 429 are "throttled"; "garbled" is a body that is
\* no JSON; "cut" is one that cannot be read to its end.
Responses == {"ok", "garbled", "cut", "refusal", "throttled", "server_error"}

\* Classes of errors of http.Client.Do; "expired" stands for the client's own
\* timeout and for the end of the caller's context.
Errors == {"dns", "refused", "reset", "os_timeout", "expired"}

\* Errors of doWithRetry itself: there is no request to send, or the loop is over.
OwnErrors == {"no_request", "exhausted"}

TypeOK ==
  /\ now \in Nat
  /\ end \in 0 .. Deadline
  /\ phase \in {"try", "delay", "done"}
  /\ attempt \in Nat
  /\ due \in Nat
  /\ outcome \in {"none", "ok", "error"}
  /\ cause \in Responses \cup Errors \cup OwnErrors \cup {"none"}
  /\ inflight \in Nat /\ applied \in Nat

Init ==
  /\ now = 0 /\ end = Deadline
  /\ phase = "try" /\ attempt = 0 /\ due = RequestTimeout
  /\ outcome = "none" /\ cause = "none"
  /\ inflight = 0 /\ applied = 0

\* isRetryableStatus.
isRetryableStatus(r) == r \in {"throttled", "server_error"}

\* isRetryableError: every error of http.Client.Do is a net.Error (url.Error), so
\* only its Timeout() counts; what is a context's deadline has been sorted out.
isRetryableError(e) == e = "os_timeout"

\* Errors after which the request may be at the controller all the same.
MayBeSent == {"reset", "os_timeout", "expired"}
-----------------------------------------------------------------------------
\* The three places from which the loop goes on, each with a bound of its own: after an
\* error of Do, ...
RetriesError(e) == isRetryableError(e) /\ attempt < MaxRetries

\* Mutant: the last attempt is followed by another round of the loop.
RetryReadOnceMore(r) == r = "cut"

\* ... after a body that cannot be read, ...
RetriesRead(r) == r = "cut" /\ attempt < MaxRetries

\* ... and after a status.
RetriesStatus(r) == isRetryableStatus(r) /\ attempt < MaxRetries

\* Mutant: after the last attempt a retryable status passes for a success.
LastStatusIgnored(c) == c = "ok" \/ isRetryableStatus(c)

\* A response below 400, with a body that can be decoded if anybody wants it.
Succeeds(c) == c = "ok" \/ (c = "garbled" /\ ~Decodes)

\* Mutant: the delays grow linearly.
LinearDelay(n) == BaseDelay * (n + 1)

\* 1 << n.
Shift[n \in Nat] == IF n = 0 THEN 1 ELSE 2 * Shift[n - 1]

\* The delay before attempt n + 1.
Delay(n) == BaseDelay * Shift[n]

\* Mutant: the cause of the last failure is forgotten, as in an empty error.
NoCause(c) ==
  /\ cause' = "unknown"
  /\ outcome' = "error" /\ phase' = "done"
  /\ UNCHANGED <<attempt, due>>

\* `return`.
Return(c) ==
  /\ cause' = c
  /\ outcome' = IF Succeeds(c) THEN "ok" ELSE "error"
  /\ phase' = "done" /\ UNCHANGED <<attempt, due>>

\* `continue`: the loop goes into its next round, unless that was the last one.
Continue(c) ==
  /\ attempt' = attempt + 1
  /\ IF attempt' <= MaxRetries
     THEN /\ cause' = c /\ due' = now + Delay(attempt)
          /\ phase' = "delay" /\ UNCHANGED outcome
     ELSE /\ cause' = "exhausted" /\ outcome' = "error"
          /\ phase' = "done" /\ UNCHANGED due

\* The body cannot be marshalled or the URL is none, before anything is sent.
NoRequest ==
  /\ phase = "try" /\ attempt = 0 /\ now = 0
  /\ Return("no_request")
  /\ UNCHANGED <<now, end, inflight, applied>>

\* How many effects a request with this response has had: a server error may come
\* before the effect or after it, and nobody knows what has been cut off.
Effects(r) ==
  CASE r \in {"ok", "garbled"}       -> {1}
    [] r \in {"cut", "server_error"} -> {0, 1}
    [] OTHER                         -> {0}

\* The controller answers.
Response(r) ==
  /\ phase = "try"
  /\ \E n \in Effects(r) : applied' = applied + n
  /\ IF RetriesRead(r) \/ RetriesStatus(r) THEN Continue(r) ELSE Return(r)
  /\ UNCHANGED <<now, end, inflight>>

\* The transport fails, after the request has been sent or before.
TransportError(e) ==
  /\ phase = "try"
  /\ e = "expired" => now >= due \/ now >= end
  /\ \/ UNCHANGED inflight
     \/ e \in MayBeSent /\ inflight' = inflight + 1
  /\ IF RetriesError(e) THEN Continue(e) ELSE Return(e)
  /\ UNCHANGED <<now, end, applied>>

\* Mutant: the delay is a plain sleep.
Sleeps == FALSE

\* The context ends during the delay.
DelayInterrupted == phase = "delay" /\ now >= end

DelayCancelled ==
  /\ DelayInterrupted
  /\ phase' = "done" /\ outcome' = "error" /\ cause' = "expired"
  /\ UNCHANGED <<now, end, attempt, due, inflight, applied>>

\* The delay is over and the next attempt starts; when the context ends at the same
\* time, select takes either case.
DelayOver ==
  /\ phase = "delay" /\ now >= due
  /\ phase' = "try" /\ due' = now + RequestTimeout
  /\ UNCHANGED <<now, end, attempt, outcome, cause, inflight, applied>>

\* The caller's context is cancelled before its deadline.
Cancel ==
  /\ phase # "done" /\ now < end
  /\ end' = now
  /\ UNCHANGED <<now, phase, attempt, due, outcome, cause, inflight, applied>>

\* A request that was given up reaches the controller after all.
LateEffect ==
  /\ inflight > 0
  /\ inflight' = inflight - 1 /\ applied' = applied + 1
  /\ UNCHANGED <<now, end, phase, attempt, due, outcome, cause>>

\* Time passes; a pending attempt and a pending delay end when they must.
Tick ==
  /\ phase = "try" => now < due /\ now < end
  /\ phase = "delay" => now < due /\ ~DelayInterrupted
  /\ phase # "done"
  /\ now' = now + 1
  /\ UNCHANGED <<end, phase, attempt, due, outcome, cause, inflight, applied>>

Next ==
  \/ \E r \in Responses : Response(r)
  \/ \E e \in Errors : TransportError(e)
  \/ NoRequest \/ DelayCancelled \/ DelayOver \/ Cancel \/ LateEffect \/ Tick

Spec == Init /\ [][Next]_vars
-----------------------------------------------------------------------------
\* The call implements what its callers rely on: success means that the
\* controller has processed the request, failure means nothing, and there are no
\* more effects than attempts.
Call == INSTANCE RemoteCall WITH MaxEffects <- MaxRetries + 1

ImplementsRemoteCall == Call!Spec

\* The call is over as soon as its context is: retries never outlast it.
ContextRespected == now <= end

\* Failures that may pass, as far as doWithRetry takes them for such.
Passing == {"cut", "throttled", "server_error", "os_timeout"}

\* Of the three places that retry none gives up too early or too late: a call waits only
\* after a failure that may pass; it fails with such a failure only when every configured
\* attempt has been made, and then says so, and not that its retries are exhausted.
RetriesAreUsed ==
  /\ phase = "delay" => cause \in Passing
  /\ outcome = "error" => cause # "exhausted" /\ (cause \in Passing => attempt = MaxRetries)

\* The delays double: attempt n (from 0) starts only after 2^n - 1 base delays.
\* With the agent's base delay of one second the sixth attempt needs 31 s, and a
\* completion report has 30: retries are configured that are never made.
BackoffDoubles == phase = "try" => BaseDelay * (Shift[attempt] - 1) <= now

\* What a comment promises: "It retries on 5xx, connection errors, and timeouts."
\* A connection error ends the call only when it has no attempt left.
ConnectionErrorsRetried ==
  phase = "done" /\ cause \in {"dns", "refused", "reset"} => attempt = MaxRetries
=============================================================================
