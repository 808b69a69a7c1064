# A TLA+ verification of routestack-agent

routestack-agent runs on a node. It enrolls the node with a controller, then polls the
controller for operations, runs them against Docker, iptables and certbot, and reports how
they ended. This directory holds TLA+ modules that model the agent, configurations that
check them with TLC, and proofs that TLAPS checks. All paths are relative to the
repository.

## 1. Inventory

| component | state | operations | interacts with |
|---|---|---|---|
| Executor (`internal/executor/executor.go`) | `seen`: operation ID → time it was marked; the registered handlers | `Execute`; `evictLoop` every ten minutes | called by the poll loop; calls the handlers |
| Agent process (`internal/agent/agent.go`, `cmd/routestack-agent/main.go`) | two goroutines, one context | `heartbeatLoop`, `operationPollLoop`, shutdown in `Run` | executor, API client, signals |
| API client (`internal/api/client.go`) | none between calls; per call: attempt, delay, deadline | `doWithRetry` behind enroll, heartbeat, claim and complete | controller, over HTTPS |
| Enrollment and state (`internal/api/enroll.go`, `internal/state/state.go`, `main.go`) | three files: key, certificate, state | `cmdEnroll`, `Enroll`, `Save`; `LoadState`, `IsEnrolled`, `NewClient` | file system, controller |
| Container handlers (`internal/executor/handlers.go`, `internal/docker/client.go`) | none of their own: Docker's containers | start, stop, restart with `FindContainer` and `Adopt` | Docker; the app that deploys the adoptable containers |
| Service manager (`internal/service`) | Docker's containers | `ApplyRevision`, `CollectStatus`, `CollectLogs` | Docker |
| Firewall manager (`internal/firewall`) | the iptables chains | `ApplyRevision`, `ensureChain` | iptables, Docker (DOCKER-USER) |
| Tunnel manager (`internal/tunnel`) | peers inside a container, kept by helper scripts | `Create`, `Remove` through `docker.Exec` | Docker, the scripts |
| Component installer (`internal/installer`, `internal/components`) | Docker's images | `Install`: pull, inspect, compare digests | Docker, registry |
| Certificate manager (`internal/certs`) | certbot's | `Manage`: validates and builds a command | certbot |
| Health checks (`internal/health`) | none | `Check` | Docker, TCP ports |
| Redaction, configuration, host metrics | none | string processing, YAML, `/proc` | logs, files |

The hard behaviours, and what makes the components correct in spite of them:

* **Interleavings.** `Execute` gives up its locks between the lookup, the mark and the
  handler, and `evictLoop` runs beside it. Correct means: no operation twice at a time,
  none again within the idempotency window.
* **Losses and repetitions.** A call may fail after the controller has processed it, and
  the controller hands an operation out until it hears of it. Correct means: what the
  controller hears is what happened, and it hears something in the end.
* **Crashes, restarts and shutdowns** between the run of an operation and its report,
  between two files of an enrollment, between two iptables commands. Correct means: a
  success that was reported is true whatever came before it.
* **Time.** Deadlines of calls, of reports, of handlers and of the shutdown; delays that
  double; a window beyond which an ID is forgotten.
* **Partial failure.** Each handler is a sequence of external commands, any of which may
  fail, with or without its effect, and some answers are not checked. Correct means: a
  verdict that is reported has a ground.
* **A world that changes.** Containers, images and ports change between the call that
  looks and the call that acts or decides.

`PROJECT.json` lists each hazard with its line and the properties that cover it.

## 2. Modules

| module | models | role |
|---|---|---|
| `Executor` | `executor.go` | component |
| `Agent` | `agent.go`, with the controller and the network | composes `Executor` (`Ex == INSTANCE Executor WITH Callers <- {Poller}`) |
| `RemoteCall` | what callers of the API client rely on | abstract specification |
| `ApiClient` | `doWithRetry` | implements `RemoteCall` |
| `Enrollment` | `cmdEnroll`, `Enroll`, state file, start of `run` | component |
| `Containers` | start, stop, restart, `ApplyRevision` of a service | component |
| `Firewall` | `ApplyRevision`, `ensureChain` | component |
| `Operation` | the context, result and report of one operation | base of the next ones |
| `ServiceContainer` | the container of a service as the handlers see it | shared state |
| `Tunnel`, `Installer`, `Inspection` | the handlers for tunnels; for components; for status, logs and health | components |
| `Handlers` | these handlers as `main.go` registers them, and what changes around them | composes the three |
| `Certs` | the certificate manager, with its domain normalisation | component |
| `MCContainers`, `MCFirewall`, `MCCerts` | a list of known names; the rules of revisions; texts and requests | instances for TLC |
| `ExecutorProofs`, `AgentProofs`, `ApiClientProofs`, `EnrollmentProofs`, `FirewallProofs`, `ContainersProofs`, `HandlersProofs` | | theorems |
| `Induction` | | lemmas: induction over the natural numbers, functions defined by recursion |

Operators whose comment begins with `Mutant:` are not part of any specification. Each is a
plausible mistake in the definition it names; `PROJECT.json` says which property finds it.

### Executor

`seen[op]` is the stamp of the map entry or `Never`. `pc[c]` is where a goroutine is
inside `Execute`: `check` between the two locks, `marked` between the write lock and the
handler, `running` in the handler. `ExecuteUnknown` is the early return for a type without
a handler, `SkipDuplicate` the early return "already processed", which is a `success`,
`MarkSeen` the rest of the critical section. `EndHandler` has four outcomes: the three
statuses of a result, and an error; no handler returns neither, which `Execute` would not
survive. `NewExecutor` is the restart of the process. `mark` is
a history variable: it remembers marks that have been evicted.

Time is an integer. `Tick` does not pass the moment by which a marked goroutine must have
started its handler (`Lag`) and a handler must have returned (`Timeout + Lag`): handlers
are given a context with that timeout, and their calls end when it expires.
`ExecutorAssumption` demands `Timeout + 2 * Lag <= Window`; the code has five minutes and
one hour.

### Agent

`heart` and `loop` are the positions of the two goroutines, `proc` is the process: `up`,
`draining` once a signal has cancelled the context, `down`. `Cancelled` is `ctx.Done()`.
The controller is `reports`, what it has been told, and it may hand out an operation as
long as that is empty. A report that fails may still be in `net` and arrive at any time
later, after other processes and reports too. `ReportCancelled` is the report with a
context that derives from the cancelled one. `ForcedExit` is the 30 s deadline of `Run`;
`Crash` and `ForcedExit` abandon what the goroutines were doing. The histories `runs` and
`ended` belong to the operation, not to the process.

### ApiClient and RemoteCall

One call, from its first attempt to its return. A response is a status class; `cut` is a
body that cannot be read, `garbled` one that is no JSON, which matters only when the
caller decodes it (`Decodes`). Errors of the transport are classified as the code does:
`http.Client.Do` wraps every error in a `*url.Error`, which is a `net.Error`, so that
`Timeout()` alone decides; the client's own timeout and the end of the context both are
`context.DeadlineExceeded`. Three places of the loop decide that it goes on, each with a
bound of its own: `RetriesError`, `RetriesRead`, `RetriesStatus`. `Continue` is Go's
`continue` with the loop's condition, and with the return behind the loop (`exhausted`),
which would be reached if one of these bounds and the loop's did not agree; `Return` is
any other return, and `NoRequest` the ones before anything is sent. When a delay and the
context end together, `DelayOver` and `DelayCancelled` are both possible, as in `select`.
`inflight` counts requests given up that may still be processed. `RemoteCall` promises: at most one effect per attempt, and at least one when
the call succeeds.

### Enrollment

Key, certificate and state file are identified by the enrollment that wrote them.
`writeFileAtomic` and `Save` rename, so each file changes in one step. `Fail` is an error
or a kill between any two steps. The agent reads the state (`LoadState`), looks whether
the files are there (`IsEnrolled`), and reads the certificate and the key (`ReadCert`,
`ReadKey`), each a step of its own while enrollments may be going on. One enroll command
runs at a time, which is the operator's and not the code's doing, and enrollments are
numbered in the order in which they begin.

### Containers

One action per call of Docker. `Refuse` is a payload that cannot be decoded, names nothing
or has an invalid spec: no call is made. A call fails without effect (`ExactFails`, `CallFails`,
...) or has its effect and fails all the same (the `Return("failed")` beside an effect in
`Stop`, `Start`, `RemoveOld`, `Create`). Errors the code ignores (`Adopt`, `StopOld`) are
ignored here. The history `blind` remembers that the inspect of the named container failed
although the container was there. IDs are a name and the number of a creation, so a stale ID is told from a
new container of the same name. The app that owns the known containers deploys and removes
them at any time (`AppDeploys`, `AppRemoves`), and processes exit (`Exits`).

### Firewall

One action per iptables command, with the same two ways to fail. `links` counts the jumps
from DOCKER-USER, and the history `blind` remembers that listing them failed although
DOCKER-USER was there. A reboot empties the tables; Docker creates DOCKER-USER when it
starts.

### Operation and Handlers

`Operation` has what all of these handlers share. `pc` is the next call, `op` the decoded
operation, whose payload is `garbled`, `invalid` or `good`; `expired` is the end of the
handler's context (five minutes, or a shutdown), after which no call succeeds; `result`
has the status, the class of the message and the class of the data; `Complete` is the part
of `operationPollLoop` that turns it into the report `told`. An error of a handler and a
result with status `failed` are told apart until then.

`Handlers` puts `Tunnel`, `Installer` and `Inspection` together by `EXTENDS`: they share
the variables of `Operation` and the container `ctr`. `Dispatch` is the call of the
registered handler, `Handle` a step of one of them. `Surroundings` is what nobody asks
for: the container starts, stops, becomes unhealthy or is replaced, the script ends, the
image is retagged, ports open and shut, connections break. One operation runs at a time,
because one goroutine runs them all.

* **Tunnel.** `helper` is the exec instance: created, running, ended with 0 or not. Only
  errors of the transport count in `Exec`. The status of the start call is not looked at
  (`ExecStartRefused`), the end of the output is the end of the connection
  (`ExecReadCut`), and whatever answer the last call gets, the exit code is 0 unless it
  has another one (`ExecInspect`, `ExecInspectUnreadable`). `doubt` remembers that one of
  these answers was not a good one. `PeerConfig` is not used by the code.
* **Installer.** `local` are the RepoDigests of the image the reference stands for, or
  `None`; the empty set is an image that was loaded and not pulled. `Pull` reads the
  progress to its end and does not ask how it came about (`PullCut`). `present` is the
  history of the digests during the operation.
* **Inspection.** A health check is one inspection and one probe per port. `open` are the
  ports that accept a connection in time. `was` is the history of what has been so since
  the check began.

### Certs

A character is one of six classes, which are all that `normalizeDomain` tells apart;
`TrimSpace`, `TrimSuffix`, `ToLower`, `Split` and the checks are composed in the order of
the code. `Split` and the loop of `normalizeDomains` are recursive functions (`Labels`,
`Collected` with `AddDomain` as its body) that give the value after each round. The limits
253 and 63 are the constants `MaxDomain` and `MaxLabel`. The reference, `IsNormal` and `NamedBy`, does not split or trim: it looks at neighbouring
characters, and at what is left of and right of a domain inside a text.
`buildCertbotCommand` yields a command or refuses. certbot is external: it keeps `live`,
does for the name it is given what its command says or nothing, and may have done its work
when it is killed. `CertificateIsThere` is about the command that the code makes of a
request, given such a certbot.

## 3. Runs

| run | instance | shows |
|---|---|---|
| `executor` | 2 goroutines, 3 IDs of which one has no handler, window 3, clock to 6 | `NoConcurrentReplay`, `IdempotencyWindow`, `StaleEntriesEvicted` |
| `agent` | a handled and an unknown operation, a restart, an eviction, one late report at a time | `ReportsEarned`, `OneRunPerProcess`, `EveryOperationCompletes`, `ShutdownCompletes`, `HeartbeatsContinue` |
| `api_client` | 4 attempts, deadline 10, attempts of up to 3 | `ContextRespected`, `RetriesAreUsed`, `BackoffDoubles`, `ImplementsRemoteCall` |
| `enrollment` | 3 enrollments | `CompletedMeansUsable`, `NeverOutdated` |
| `containers` | a service with 2 revisions, 2 known names, 3 creations | `SuccessIsTrue`, `OnlyItsOwn`, `OperationEnds` |
| `firewall` | 3 rulesets, one with an empty rule, 3 jumps | `SuccessMeansInstalled`, `NoMixedRevisions`, `OneJump` |
| `handlers` | one service, 2 ports, 2 digests | `TunnelSuccessEarned`, `InstallVerified`, `HealthyIsFounded`, `DegradedIsFounded`, `OperationEnds` |
| `certs` | texts of up to 6 characters and of 7 letters and dots, lists of up to 3, domains of up to 6, labels of up to 3 | `NormalizationIsCorrect`, `DomainsAreDistinct`, `CertificateIsThere` |

Why these bounds are enough:

* Two goroutines are all a race on one ID needs; the clock goes to twice the window, so
  that an entry is marked, evicted and marked again. The proofs remove these bounds.
* One restart gives two processes: one that ran an operation, and one that runs it again
  and meets the late report of the first. Removed by the proofs for `ReportsEarned` and
  `OneRunPerProcess`, which hold for any number of restarts and late reports.
* `api_client`: the delays 1, 2 and 4 end before the deadline only if the attempts are
  quick, so both ends of every delay and attempt are met.
* Three enrollments: one that completes, one that is interrupted, one that repairs; the
  agent may read the state of one and the certificate of the next.
* Three creations: a container of the service, one that replaces it, and one of the app;
  or three of one name, which stale IDs need.
* Three jumps: the first, a superfluous one, and one more to see that their number does
  not matter to `SuccessMeansInstalled`.
* Two ports: the verdict on a first one must survive the second, and a check may probe one
  port twice. Two digests: the one asked for and another; images with both exist.
* Six characters hold white space on both sides and a dot at the end of the shortest
  domain, and hyphens at every place. A domain of six with a label of four is refused for
  its label alone, one of seven with labels of three for its length alone.

`BackoffDoubles` says that attempt n (from 0) starts at least 2^n - 1 base delays after
the call. With the agent's one second and five retries that is 31 s for the last attempt,
one more than `operationPollLoop` gives a report: that attempt is never made.

`RetriesAreUsed` says that the three bounds agree: a failure that may pass ends a call
only after the last attempt, and is then what the caller is told; one bound that is off by
one loses an attempt, or falls out of the loop and loses the cause.

`OneRunPerProcess` bounds the number of runs by the number of processes: a redelivery to
a process that has run the operation adds no run. `SuccessMeansInstalled` ends at
DOCKER-USER: when the agent has created that chain itself, no traffic passes it before
Docker starts. `NeverOutdated` says what an agent has read in the middle of an enrollment:
a node ID whose enrollment is complete, and a certificate of that enrollment or of a later
one. The latter is why the order key, certificate, state is the right one.

What these properties say in spite of a world that changes: `TunnelSuccessEarned`, that
a tunnel is only ever reported wrongly because of one of the two unchecked answers or a
cut connection, never because of what happens to the container between the calls;
`InstallVerified`, that a pull which ends without an error and without an image is found
out (this is also how a pull of more than 120 s, the timeout of the Docker client, ends);
`DegradedIsFounded`, that a healthy service is called degraded only if the context of the
check has ended.

`api_client` and `enrollment` may stop: the call is over, or all enrollments have been
made. Everywhere else deadlock is checked.

### Fairness

* `Executor!FairSpec`: `evictLoop`'s ticker fires as long as the process lives.
* `Agent!Fairness`: goroutines keep running, and handlers return, since their context
  expires. A process that is down is started again: `docker-compose.yaml` has `restart:
  unless-stopped`, and one that was told to stop is started by whoever stopped it (an
  upgrade, a reboot). The heartbeat's `select` picks among ready cases at random, so a
  closed `Done` channel wins at some time (SF). `ForcedExit`, `Crash` and `Signal` have no
  fairness.
* `Agent!Connectivity`: the controller hands out what it has no report of, and a call made
  again and again succeeds at some time (SF). Without it no report can be promised.
* `Containers!FairSpec`: Docker answers, or the context expires.
* `Handlers!FairSpec`: every call is answered, refused or lost, and the context ends at
  some time (`Execute` gives it five minutes). A helper script need not end and a broken
  connection need not happen: `OperationEnds` rests on the deadline there.

## 4. What the code does not do

Four runs check what a comment says and find it violated. `PROJECT.json`
quotes the lines.

| run | the counterexample |
|---|---|
| `agent_duplicate` | A handler fails, its report is lost, the operation is handed out again: the ID is marked, the answer is `success`, and that is reported. |
| `agent_drain` | No call is ever lost. A signal comes while a handler runs: its result is reported with a cancelled context, so not at all. |
| `api_client_errors` | A failed name lookup is not retried, nor is a refused or reset connection. |
| `handlers_tunnel` | Docker refuses to start the helper script; the text of the error is read as its output, there is no exit code, and that counts as 0: the tunnel is reported as created. |

The models show more of this kind, without a run of their own:

* a process that dies between a run and its report is followed by one that runs the
  operation again (`OneRunPerProcess` counts it);
* the firewall chain is empty or partial between the flush and the last rule, and stays so
  after a failure, while `firewall/manager.go:63` says "atomically" (`Flush`,
  `AppendRule`);
* a listing that fails although the jump is there leads to a second jump (`ListFails`,
  `InsertLink`; `OneJump` says that there is no other way to get one);
* any error of the first inspect counts as a missing container, so that an operation on a
  service may label, stop or start a known container of another app (`ExactFails`,
  `FindKnown`), while the comment of `FindContainer` promises the first match in the order
  of names; `OnlyItsOwn` says that there is no other way (`blind`);
* the report has the status and the message of a result, while the status of a container
  and the reports on health and certificates are in its `Data`, so that the controller
  never sees them (`Complete`);
* an old revision of a service that is delivered late replaces a newer one (`RemoveOld`
  does not look at `rev`);
* a tunnel is also reported as created while the script is still running or after it has
  failed, when the output is cut or the last answer cannot be read (`ExecReadCut`,
  `ExecInspectUnreadable`); `TunnelSuccessEarned` says that there is no other way;
* a component in the form that `contracts/operations.json` describes is always refused:
  `components.Component` has no JSON tags, so that `component_name` and `expected_digest`
  are not decoded (`RefuseInstall`, form `invalid`);
* a second enrollment that is interrupted leaves files of two enrollments that
  `IsEnrolled` accepts: with the new key and the old certificate `ReadKey` refuses, with
  the new pair and the old node ID the agent works (`NeverOutdated` allows it), and the
  controller has to refuse.

## 5. Proofs

Each theorem holds for every value of the constants that satisfies the named assumptions,
so the bounds of the runs do not limit it. Each inductive invariant was checked with TLC
before it was proved.

* **`ExecutorProofs`** (from `ExecutorAssumption`): `TypeCorrect`, `NoReplay`,
  `WindowKept`. `NoConcurrentReplay` is not inductive: nothing in it keeps `Evict` from
  deleting the mark of a running handler. The strengthening says that an active operation
  has a mark (`Covered`) that is not older than its phase allows, and that the history
  `mark` is the entry or more than `Window` old (`Tracked`). With `Timeout + 2 * Lag <=
  Window` such an entry is not stale. This is the one place where the two numbers 5 min
  and 1 h meet.
* **`AgentProofs`** (from `AgentAssumption`): `TypeCorrect`,
  `ReportsAreEarned`, `RunsAreBounded`. Reports in `reports` are justified because those
  in `net` and the one about to be sent are: `AllEarned`. A duplicate's `success` is
  justified because a mark means that a run in this process has been started and, unless
  it is the one going on, ended: `SeenMeansRun`. `LoopState` ties the loop to the position
  in the executor. The bound on runs counts the run to come of a marked operation, and
  that an unmarked one has run at most once per earlier process. `Refinement`: every
  behaviour of the agent is one of the executor (`Ex!Spec`), so that what
  `ExecutorProofs` says of executors holds inside the agent; `AgentWindow` draws that
  conclusion for the idempotency window, from `ExecutorAssumption` for the poll loop as
  the only caller.
* **`ApiClientProofs`** (from `ApiClientAssumption`): `TypeCorrect`, `EndsWithContext`,
  `AttemptsAreUsed`, `BacksOff`, and `Refinement`, that every step of `doWithRetry` is a
  step of `RemoteCall` or a stutter. `ResponseGoesOn` and `ErrorGoesOn` show that the three
  guards of the code come to one rule, `GoesOn`: retry what may pass as long as there is an
  attempt left. `AttemptsAreUsed` follows with `Counted`, which also bounds the effects,
  past and to come, by the attempts. `Waited` is `BackoffDoubles` with its counterpart for a delay that is
  going on: it will be over only after 2^n - 1 base delays.
* **`EnrollmentProofs`** (from `EnrollmentAssumption`): `TypeCorrect`,
  `CompletedIsUsable`, `CommitFirst`. `OneOpen`: one enrollment at a time; `Owned`: the
  files an open enrollment has passed are its own; `InOrder`: the open one is the latest;
  `Traces`: the state file stems from a completed enrollment, and the certificate is not
  older than any of those; `Reading` carries that over to what the agent has read.
* **`FirewallProofs`** (from `FirewallAssumption`: there is a revision, and each has a
  sequence of rules): `TypeCorrect`, `SuccessIsInstalled`, `NeverMixed`, `JumpsOnce`.
  `Filling` is the loop invariant of `ApplyRevision`: the chain is what `Kept` says of the
  rules gone through, and at any other time what it says of some revision up to some rule.
  Together with the fact that `Kept` only ever appends (`KeptGrows`) this is
  `NoMixedRevisions`. `Linked` is why a jump that was seen or inserted before the flush is
  still there at the end: only a reboot removes it, and that ends the call.
  `Inserting` is the strengthening for `OneJump`: whoever is about to insert a jump has
  seen that there is none, or was blind.
* **`ContainersProofs`** (from `ContainersAssumption`; `NoneAssumption`: the absence of a
  container is not a container; `PrefixAssumption`: no service has a known name): `TypeCorrect`, `SuccessHolds`, `TouchesItsOwn`. Between
  the call that finds a container and the call that acts on it the app may have replaced
  it. `Numbered` says that no container to come has the ID that is held, so a stale ID
  fails and is not taken for its successor; `Holding`, that the ID belongs to a name the
  operation may touch; `Applying`, that the container made by an apply has its revision
  for as long as it lives. `Sought`, on top of these, is for the part of `OnlyItsOwn` about
  services: past the lookup, an operation whose service has its container holds that one,
  or was blind.
* **`HandlersProofs`** (from `InspectionAssumption`): `TypeCorrect`, `TunnelsAreEarned`,
  `InstallsAreVerified`, `HealthyVerdicts`, `DegradedVerdicts`. `Matching` ties the step
  to the kind of operation, so that the handlers cannot return each other's results
  (`Returned`). `TunnelTrail` follows the script: it is running or has ended when its
  output is read and has ended when its exit code is asked for, or an answer was in doubt.
  `Verdict` is the loop invariant of the health check: `healthy` is founded for the ports
  probed so far, and so is its negation.
  The second half, from `CertsAssumption`, is about certificates: `CertsTypeCorrect`,
  `NormalizationCorrect`, `DomainsDistinct`, `CertificatesAreThere`. The code splits,
  trims and collects; the reference does neither, so the theorems need what the loops
  compute for inputs of every length. `SplitInvariant` is the loop invariant of `Split`:
  the last label is what follows the last dot, and the labels before it are good if and
  only if the characters before that dot have good neighbours (`Proper`); with it the
  checks are `IsNormal` (`ChecksAreNormal`). `CoreIsNamed`: a normal domain begins and
  ends with a letter or digit, so only one part of a text can be the domain it names, and
  trimming cuts out that part. `ListedInvariant` is the loop invariant of
  `normalizeDomains`. `CommandOf` carries these facts to the command for certbot.
* **`Induction`**: the lemmas behind `Kept`, `Shift`, `Labels` and `Collected`. A theorem with an operator as its
  parameter cannot be used by the provers, so induction is stated for sets of numbers
  (`NatSetInduction`, from the library's well-foundedness of the natural numbers), and the
  existence of a function defined by recursion for a base and a function of steps
  (`Recursion`, `LoopRecursion`). With them a recursive function of a model satisfies its
  defining equation (`KeptEquation`, `ShiftEquation`, `LabelsEquation`,
  `CollectedEquation`), which is not for free: the definition is a CHOOSE.

Only model-checked:

* every liveness property (`StaleEntriesEvicted`, `EveryOperationCompletes`,
  `ShutdownCompletes`, `HeartbeatsContinue`, and `OperationEnds` of `Containers` and of
  `Handlers`): fairness is out of the prover's reach;
* the four disagreements of section 4, which are refuted and not proved.

How the models are written for the proofs: no `SelectSeq` and no `^`, which the provers
cannot expand (`Kept` and `Shift` are recursive functions instead, and so are `Labels` and
`Collected` instead of folds); and no blanks or punctuation in strings, which the SMT
backend of tlapm cannot translate: characters have names (`hyphen`, `dot`). The
definitions of `Certs` that every module has (`CertsNext`, `CertsSpec`) bear its name, so
that `HandlersProofs` can extend both it and `Handlers`.

## 6. Plan

Done, in this order: `Executor`, `Agent`, `ApiClient` over `RemoteCall`, `Firewall`,
`Containers`, `Enrollment`, the first proofs, then `Operation` with `Tunnel`, `Installer`,
`Inspection`, composed in `Handlers`, and `Certs`; then the proofs for `Firewall`,
`Containers`, `Handlers` and `Certs`, the doubling of delays, and the agent as a
refinement of the executor. Every safety property of a passing run is stated by a
theorem.

Left:

1. A finer bound on runs beyond the window: between two runs of an operation in one
   process there is more than `Window`.

### Not modelled

* Redaction: regular expressions over text. Messages are classes here, so nothing can be
  said of secrets in them.
* Configuration and paths: YAML and defaults, data without behaviour. The numbers that
  matter are constants of the models.
* Host metrics: reading `/proc`; nothing is decided by them. The unsigned subtraction in
  `cpuPercent` is listed as a hazard.
* The TLS set-up, and the fields of a container's specification.
