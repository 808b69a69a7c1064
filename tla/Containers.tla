----------------------------- MODULE Containers -----------------------------
(***************************************************************************)
(* The operations on containers: the start, stop and restart handlers      *)
(* (internal/executor/handlers.go) with FindContainer and Adopt            *)
(* (internal/docker/client.go), and ApplyRevision of the service manager   *)
(* (internal/service/manager.go).                                          *)
(*                                                                         *)
(* Each is a sequence of calls of the Docker API; one operation runs at a  *)
(* time.  A call may fail without an effect, and one that changes          *)
(* something may have its effect and fail all the same, when the context   *)
(* expires before the response.  Docker itself, the containers' processes  *)
(* and the app that deploys the adoptable containers are not part of the   *)
(* repository.                                                             *)
(***************************************************************************)
EXTENDS Integers, Sequences, SequencesExt

CONSTANTS
  Services,      \* container names of services, "routestack-<id>"
  Known,         \* KnownContainerNames, a sequence of names
  None,          \* no container
  MaxRev,        \* the revisions are 1 .. MaxRev; 0 is what somebody else deploys
  MaxGen         \* bound on the number of containers created

ASSUME ContainersAssumption == Known \in Seq(Range(Known)) /\ MaxRev \in Nat /\ MaxGen \in Nat

VARIABLES
  box,           \* the container of a name, or None
  gen,           \* the number of containers created so far
  pc,            \* the next call of the running operation
  op,            \* the running or last operation
  held,          \* the container ID the operation works on
  k,             \* the position in KnownContainerNames
  result,        \* what the last operation returned
  blind          \* history: the inspect of the container it names failed although it was there

vars == <<box, gen, pc, op, held, k, result, blind>>

KnownSet == Range(Known)
Names    == Services \cup KnownSet

\* An ID names a container for good: a name and the number of its creation.
IDs   == [name : Names, gen : 1 .. MaxGen]
Boxes == [gen : 1 .. MaxGen, rev : 0 .. MaxRev, run : BOOLEAN, managed : BOOLEAN]

ASSUME NoneAssumption == None \notin Boxes \cup IDs

\* A service's container has a prefix that no known name has.
ASSUME PrefixAssumption == Services \cap KnownSet = {}

Lifecycle == [kind : {"start", "stop", "restart"}, name : Names, rev : {0}]
Applies   == [kind : {"apply"}, name : Services, rev : 1 .. MaxRev]

Calls == {"find", "known", "list", "adopt", "stop", "start",
          "inspect", "stop_old", "remove", "create"}

TypeOK ==
  /\ box \in [Names -> Boxes \cup {None}]
  /\ gen \in 0 .. MaxGen
  /\ pc \in Calls \cup {"idle"}
  /\ op \in Lifecycle \cup Applies \cup {None}
  /\ held \in IDs \cup {None}
  /\ k \in 1 .. Len(Known) + 1
  /\ result \in {"none", "success", "failed", "error"}
  /\ blind \in BOOLEAN

Init ==
  /\ box = [n \in Names |-> None] /\ gen = 0
  /\ pc = "idle" /\ op = None /\ held = None /\ k = 1 /\ result = "none"
  /\ blind = FALSE

Alive(id) == box[id.name] # None /\ box[id.name].gen = id.gen
IdOf(n)   == [name |-> n, gen |-> box[n].gen]

Goto(call)  == pc' = call /\ UNCHANGED <<op, held, k, result, blind>>
Return(res) == pc' = "idle" /\ result' = res /\ UNCHANGED <<op, held, k, blind>>
Found(n)    == pc' = "adopt" /\ held' = IdOf(n) /\ UNCHANGED <<op, k, result, blind>>
Reads       == UNCHANGED <<box, gen>>
-----------------------------------------------------------------------------
\* An operation arrives whose payload cannot be decoded or names nothing ("error"), or
\* has a spec that is not valid ("failed"): no call is made.
Refuse ==
  /\ pc = "idle"
  /\ op' = None /\ held' = None /\ k' = 1 /\ result' \in {"error", "failed"}
  /\ blind' = FALSE /\ UNCHANGED pc /\ Reads

\* Mutant: the known names are tried first.
KnownFirst(o) ==
  /\ pc = "idle"
  /\ pc' = IF o.kind = "apply" THEN "inspect" ELSE "known"
  /\ op' = o /\ held' = None /\ k' = 1 /\ result' = "none"
  /\ blind' = FALSE /\ Reads

\* An operation arrives; its payload has been decoded and validated.
Begin(o) ==
  /\ pc = "idle"
  /\ pc' = IF o.kind = "apply" THEN "inspect" ELSE "find"
  /\ op' = o /\ held' = None /\ k' = 1 /\ result' = "none"
  /\ blind' = FALSE /\ Reads

\* FindContainer, by the exact name first.
FindExact ==
  /\ pc = "find" /\ box[op.name] # None
  /\ Found(op.name)
  /\ Reads

\* No such container, or any other error.
ExactFails ==
  /\ pc = "find"
  /\ pc' = "known" /\ blind' = (box[op.name] # None)
  /\ UNCHANGED <<op, held, k, result>> /\ Reads

\* Mutant: a candidate that is the name itself is looked at again, for ever.
StuckCandidate ==
  /\ pc = "known" /\ k <= Len(Known)
  /\ k' = IF Known[k] = op.name THEN k ELSE k + 1
  /\ UNCHANGED <<pc, op, held, result, blind>> /\ Reads

\* The next candidate: this one is the name itself, is missing, or the call fails.
NextCandidate ==
  /\ pc = "known" /\ k <= Len(Known)
  /\ k' = k + 1
  /\ UNCHANGED <<pc, op, held, result, blind>> /\ Reads

FindKnown ==
  /\ pc = "known" /\ k <= Len(Known) /\ Known[k] # op.name /\ box[Known[k]] # None
  /\ Found(Known[k])
  /\ Reads

NoCandidate ==
  /\ pc = "known" /\ k > Len(Known)
  /\ Goto("list")
  /\ Reads

\* The labelled containers of the name or of a known name, in Docker's order.
Listed ==
  {n \in KnownSet \cup {op.name} : box[n] # None /\ box[n].managed}

FindListed ==
  /\ pc = "list"
  /\ \E n \in Listed : Found(n)
  /\ Reads

\* Mutant: a missing container has a status of its own.
MissingStatus ==
  /\ pc = "list"
  /\ Listed = {} /\ Return("missing")
  /\ Reads

NotFound ==
  /\ pc = "list"
  /\ \/ Listed = {} /\ Return("failed")      \* "container not found"
     \/ Return("error")                      \* the listing fails
  /\ Reads

\* Adopt: the label may or may not be set, nobody looks.
Adopt ==
  /\ pc = "adopt"
  /\ \/ /\ Alive(held) /\ box' = [box EXCEPT ![held.name].managed = TRUE]
     \/ UNCHANGED box
  /\ Goto(IF op.kind = "start" THEN "start" ELSE "stop")
  /\ UNCHANGED gen
-----------------------------------------------------------------------------
SetRunning(id, r) == box' = [box EXCEPT ![id.name].run = r] /\ UNCHANGED gen

Stop ==
  /\ pc = "stop" /\ Alive(held)
  /\ SetRunning(held, FALSE)
  /\ \/ op.kind = "restart" /\ Goto("start")
     \/ op.kind = "stop" /\ Return("success")
     \/ Return("failed")

Start ==
  /\ pc = "start" /\ Alive(held)
  /\ SetRunning(held, TRUE)
  /\ Return("success") \/ Return("failed")

\* ApplyRevision looks for the service's container.
InspectService ==
  /\ pc = "inspect" /\ box[op.name] # None
  /\ pc' = "stop_old" /\ held' = IdOf(op.name)
  /\ UNCHANGED <<op, k, result, blind>> /\ Reads

\* There is none, or any other error.
InspectFails ==
  /\ pc = "inspect"
  /\ Goto("create")
  /\ Reads

\* The result of stopping it is ignored.
StopOld ==
  /\ pc = "stop_old"
  /\ \/ Alive(held) /\ SetRunning(held, FALSE)
     \/ Reads
  /\ Goto("remove")

RemoveOld ==
  /\ pc = "remove" /\ Alive(held)
  /\ box' = [box EXCEPT ![held.name] = None]
  /\ Goto("create") \/ Return("failed")
  /\ UNCHANGED gen

NewBox(rev, managed) == [gen |-> gen + 1, rev |-> rev, run |-> FALSE, managed |-> managed]

\* Mutant: a container that is there already is as good as a new one.
CreateOrKeep ==
  /\ pc = "create"
  /\ IF box[op.name] = None
     THEN gen < MaxGen /\ box' = [box EXCEPT ![op.name] = NewBox(op.rev, TRUE)]
                       /\ gen' = gen + 1
     ELSE Reads
  /\ pc' = "start" /\ held' = [name |-> op.name, gen |-> box'[op.name].gen]
  /\ UNCHANGED <<op, k, result, blind>>

\* Docker refuses a name that is taken.
Create ==
  /\ pc = "create" /\ box[op.name] = None /\ gen < MaxGen
  /\ box' = [box EXCEPT ![op.name] = NewBox(op.rev, TRUE)] /\ gen' = gen + 1
  /\ \/ /\ pc' = "start" /\ held' = [name |-> op.name, gen |-> gen']
        /\ UNCHANGED <<op, k, result, blind>>
     \/ Return("failed")

\* A call whose result counts fails without an effect.
CallFails ==
  /\ pc \in {"stop", "start", "remove", "create"}
  /\ Return("failed")
  /\ Reads

AgentStep ==
  \/ FindExact \/ ExactFails \/ NextCandidate \/ FindKnown \/ NoCandidate
  \/ FindListed \/ NotFound \/ Adopt \/ Stop \/ Start
  \/ InspectService \/ InspectFails \/ StopOld \/ RemoveOld \/ Create \/ CallFails
-----------------------------------------------------------------------------
\* The agent dies in the middle of an operation.
Crash ==
  /\ pc # "idle"
  /\ Return("none")
  /\ Reads

\* The app deploys or removes one of its containers.
AppDeploys(n) ==
  /\ box[n] = None /\ gen < MaxGen
  /\ box' = [box EXCEPT ![n] = [NewBox(0, FALSE) EXCEPT !.run = TRUE]] /\ gen' = gen + 1
  /\ UNCHANGED <<pc, op, held, k, result, blind>>

AppRemoves(n) ==
  /\ box[n] # None
  /\ box' = [box EXCEPT ![n] = None]
  /\ UNCHANGED <<gen, pc, op, held, k, result, blind>>

\* The process in a container exits.
Exits(n) ==
  /\ box[n] # None /\ box[n].run
  /\ SetRunning(IdOf(n), FALSE)
  /\ UNCHANGED <<pc, op, held, k, result, blind>>

Environment ==
  \/ Crash
  \/ \E n \in KnownSet : AppDeploys(n) \/ AppRemoves(n)
  \/ \E n \in Names : Exits(n)

Next == Refuse \/ (\E o \in Lifecycle \cup Applies : Begin(o)) \/ AgentStep \/ Environment

Spec == Init /\ [][Next]_vars

\* Docker answers every call, or its context expires.
FairSpec == Spec /\ WF_vars(AgentStep)
-----------------------------------------------------------------------------
\* What a success says is so at the moment it is decided: the container the
\* operation found is running, or is not for "stop"; and after an apply it is the
\* service's own and has the revision asked for.
SuccessIsTrue ==
  [][pc # "idle" /\ result' = "success" =>
       /\ Alive(held)' /\ box'[held.name].run = (op.kind # "stop")
       /\ op.kind = "apply" => held.name = op.name /\ box'[op.name].rev = op.rev]_vars

\* The agent changes nothing but the container the operation names and, when that one is
\* not to be found, a known one, which it never removes.  While the container of the
\* service that it names is there, it touches no other, unless the inspect of that one
\* failed, which FindContainer takes for a container that is missing.
OnlyItsOwn ==
  [][AgentStep => \A n \in Names :
       /\ box'[n] # box[n] => n = op.name \/ (n \in KnownSet /\ op.kind # "apply")
       /\ box[n] # None /\ box'[n] = None => op.kind = "apply" /\ n = op.name
       /\ op.name \in Services /\ box[op.name] # None /\ box'[n] # box[n] =>
            n = op.name \/ blind]_vars

\* Every operation comes to an end, however Docker fails.
OperationEnds == pc # "idle" ~> pc = "idle"
=============================================================================
