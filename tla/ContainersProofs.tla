-------------------------- MODULE ContainersProofs --------------------------
(***************************************************************************)
(* Proofs about the operations on containers.  What a success says is true *)
(* because an operation never works on a container other than the one it   *)
(* found or made: IDs are not used twice (Numbered), the ID it holds       *)
(* belongs to a name it may touch (Holding), and the container an apply    *)
(* has made has its revision for as long as it is there (Applying).        *)
(***************************************************************************)
EXTENDS Containers, TLAPS

FindCalls  == {"find", "known", "list"}
ApplyCalls == {"inspect", "stop_old", "remove", "create"}

\* The calls of an operation are those of its handler, which has no result yet.
Serving ==
  /\ pc # "idle" => op \in Lifecycle \cup Applies /\ result = "none"
  /\ pc \in FindCalls \cup {"adopt", "stop"} => op.kind # "apply"
  /\ pc \in ApplyCalls => op.kind = "apply"
  /\ pc = "stop" => op.kind # "start"
  /\ pc = "start" => op.kind # "stop"

\* The container an operation holds is the one it names or, unless it applies a
\* revision, a known one.
Holding ==
  pc \in {"adopt", "stop", "start", "stop_old", "remove"} =>
    /\ held \in IDs
    /\ held.name = op.name \/ (held.name \in KnownSet /\ op.kind # "apply")

\* Containers are numbered in the order of their creation.
Numbered ==
  /\ \A n \in Names : box[n] # None => box[n].gen <= gen
  /\ held # None => held.gen <= gen

\* The container that an apply is about to start has the revision asked for.
Applying ==
  pc = "start" /\ op.kind = "apply" /\ Alive(held) => box[held.name].rev = op.rev

IInv == TypeOK /\ Serving /\ Holding /\ Numbered /\ Applying

\* On top of it: an operation that names a service whose container is there looks for that
\* one or holds it, unless it was blind.
Sought ==
  pc # "idle" /\ op.kind # "apply" /\ op.name \in Services /\ box[op.name] # None /\ ~blind =>
    /\ pc \notin {"known", "list"}
    /\ pc # "find" => held.name = op.name
-----------------------------------------------------------------------------
LEMMA KnownNames ==
  ASSUME NEW i \in 1 .. Len(Known)
  PROVE  Known[i] \in KnownSet /\ Known[i] \in Names
BY ContainersAssumption DEF KnownSet, Names, Range

LEMMA OpNames == \A o \in Lifecycle \cup Applies : o.name \in Names
BY DEF Lifecycle, Applies, Names

\* The ID of a container that is there.
LEMMA IdType ==
  ASSUME TypeOK, Numbered, NEW n \in Names, box[n] # None
  PROVE  IdOf(n) \in IDs /\ IdOf(n).gen <= gen /\ IdOf(n).name = n /\ IdOf(n) # None
<1>1. box[n] \in Boxes
  BY DEF TypeOK
<1> QED
  BY <1>1, NoneAssumption DEF IdOf, IDs, Boxes, Numbered

\* How starting, stopping and labelling a container change it.
LEMMA FieldUpdate ==
  ASSUME TypeOK, NEW n \in Names, box[n] # None, NEW r \in BOOLEAN,
         \/ box' = [box EXCEPT ![n].run = r]
         \/ box' = [box EXCEPT ![n].managed = r]
  PROVE  /\ box' \in [Names -> Boxes \cup {None}] /\ box'[n] # None
         /\ box'[n].gen = box[n].gen /\ box'[n].rev = box[n].rev
         /\ box' = [box EXCEPT ![n].run = r] => box'[n].run = r
         /\ \A m \in Names \ {n} : box'[m] = box[m]
<1>1. box[n] \in Boxes
  BY DEF TypeOK
<1>2. /\ [box[n] EXCEPT !.run = r] \in Boxes
      /\ [box[n] EXCEPT !.managed = r] \in Boxes
  BY <1>1 DEF Boxes
<1>3. box' = [box EXCEPT ![n] = box'[n]]
  BY DEF TypeOK
<1>4. box'[n] \in {[box[n] EXCEPT !.run = r], [box[n] EXCEPT !.managed = r]}
  BY DEF TypeOK
<1>5. box'[n] \in Boxes /\ box'[n].gen = box[n].gen /\ box'[n].rev = box[n].rev
  BY <1>1, <1>2, <1>4 DEF Boxes
<1>6. box' = [box EXCEPT ![n].run = r] => box'[n].run = r
  BY <1>1 DEF TypeOK, Boxes
<1> QED
  BY <1>3, <1>5, <1>6, NoneAssumption DEF TypeOK

LEMMA InitIInv == Init => IInv
<1> SUFFICES ASSUME Init PROVE IInv
  OBVIOUS
<1>1. gen \in 0 .. MaxGen /\ k \in 1 .. Len(Known) + 1
  BY ContainersAssumption DEF Init
<1> QED
  BY <1>1 DEF Init, IInv, TypeOK, Serving, Holding, Numbered, Applying, FindCalls, ApplyCalls

\* A box that is changed in one field, and an operation that holds on to its container.
LEMMA UpdateKeeps ==
  ASSUME IInv, NEW n \in Names, box[n] # None, NEW r \in BOOLEAN,
         \/ box' = [box EXCEPT ![n].run = r]
         \/ box' = [box EXCEPT ![n].managed = r],
         UNCHANGED <<gen, op, held>>, pc' = "start" /\ op.kind = "apply" => pc = "start"
  PROVE  box' \in [Names -> Boxes \cup {None}] /\ Numbered' /\ Applying'
<1>1. /\ box' \in [Names -> Boxes \cup {None}] /\ box'[n] # None
      /\ box'[n].gen = box[n].gen /\ box'[n].rev = box[n].rev
      /\ \A m \in Names \ {n} : box'[m] = box[m]
  BY FieldUpdate DEF IInv
<1>2. Numbered'
  BY <1>1 DEF IInv, Numbered
<1>3. Applying'
  <2> SUFFICES ASSUME pc' = "start", op.kind = "apply", Alive(held)' PROVE box'[held.name].rev = op.rev
    BY DEF Applying
  <2>1. pc = "start" /\ held.name \in Names
    BY DEF IInv, Holding, IDs
  <2>2. Alive(held) /\ box'[held.name].rev = box[held.name].rev
    BY <1>1, <2>1 DEF Alive
  <2> QED
    BY <2>1, <2>2 DEF IInv, Applying
<1> QED
  BY <1>1, <1>2, <1>3

\* A container that is removed.
LEMMA RemovalKeeps ==
  ASSUME IInv, NEW n \in Names, box' = [box EXCEPT ![n] = None],
         UNCHANGED <<gen, op, held>>, pc' = "start" => pc = "start"
  PROVE  box' \in [Names -> Boxes \cup {None}] /\ Numbered' /\ Applying'
<1>1. box' \in [Names -> Boxes \cup {None}]
  BY DEF IInv, TypeOK
<1>2. Numbered'
  BY DEF IInv, TypeOK, Numbered
<1>3. Applying'
  <2>1. pc = "start" => held.name \in Names
    BY DEF IInv, Holding, IDs
  <2> QED
    BY <2>1 DEF IInv, TypeOK, Applying, Alive
<1> QED
  BY <1>1, <1>2, <1>3

\* A container that is created has an ID that nobody holds.
LEMMA CreationKeeps ==
  ASSUME IInv, NEW n \in Names, NEW b \in Boxes, b.gen = gen + 1, box[n] = None,
         box' = [box EXCEPT ![n] = b], gen' = gen + 1
  PROVE  /\ box' \in [Names -> Boxes \cup {None}]
         /\ \A m \in Names : box'[m] # None => box'[m].gen <= gen'
         /\ held # None => held.gen <= gen'
         /\ \A id \in IDs : id.gen <= gen => /\ Alive(id)' => Alive(id)
                                             /\ Alive(id)' => box'[id.name] = box[id.name]
<1> USE DEF IInv, TypeOK
<1>1. box' \in [Names -> Boxes \cup {None}]
  OBVIOUS
<1>2. \A m \in Names : box'[m] # None => box'[m].gen <= gen'
  BY DEF Numbered, Boxes
<1>3. held # None => held.gen <= gen'
  BY DEF Numbered, IDs
<1>4. ASSUME NEW id \in IDs, id.gen <= gen, Alive(id)'
      PROVE  Alive(id) /\ box'[id.name] = box[id.name]
  <2>1. id.name \in Names /\ id.gen \in Int /\ gen \in Int
    BY DEF IDs
  <2>2. id.name # n
    BY <1>4, <2>1 DEF Alive
  <2> QED
    BY <1>4, <2>1, <2>2 DEF Alive
<1> QED
  BY <1>1, <1>2, <1>3, <1>4

LEMMA NewBoxType ==
  ASSUME TypeOK, gen < MaxGen, NEW rev \in 0 .. MaxRev, NEW managed \in BOOLEAN
  PROVE  /\ NewBox(rev, managed) \in Boxes /\ NewBox(rev, managed).gen = gen + 1
         /\ NewBox(rev, managed).rev = rev
BY ContainersAssumption DEF TypeOK, NewBox, Boxes
-----------------------------------------------------------------------------
\* What the handlers of start, stop and restart do before they change anything.
LEMMA FindKeeps ==
  ASSUME IInv, FindExact \/ ExactFails \/ NextCandidate \/ FindKnown \/ NoCandidate \/ FindListed
               \/ NotFound
  PROVE  IInv' /\ UNCHANGED <<box, gen>> /\ result' # "success"
<1> USE DEF Reads, Goto, Return, FindCalls, ApplyCalls, Calls
<1>1. ASSUME NEW n \in KnownSet \cup {op.name}, box[n] # None, Found(n), pc \in FindCalls, Reads
      PROVE  IInv' /\ UNCHANGED <<box, gen>> /\ result' # "success"
  <2>1. n \in Names /\ op \in Lifecycle \cup Applies /\ op.kind # "apply" /\ result = "none"
    BY <1>1, OpNames DEF IInv, Serving, Names
  <2>2. held' \in IDs /\ held'.gen <= gen /\ held'.name = n
    BY <1>1, <2>1, IdType DEF IInv, Found
  <2>3. TypeOK' /\ Serving'
    BY <1>1, <2>1, <2>2 DEF IInv, TypeOK, Serving, Found
  <2>4. Holding' /\ Numbered' /\ Applying'
    BY <1>1, <2>1, <2>2 DEF IInv, Holding, Numbered, Applying, Found
  <2> QED
    BY <1>1, <2>1, <2>3, <2>4 DEF IInv, Found
<1>2. CASE FindExact
  BY <1>1, <1>2 DEF FindExact
<1>3. CASE FindKnown
  <2>1. Known[k] \in KnownSet
    BY <1>3, KnownNames, ContainersAssumption DEF FindKnown, IInv, TypeOK
  <2> QED
    BY <1>1, <1>3, <2>1 DEF FindKnown
<1>4. CASE FindListed
  BY <1>1, <1>4 DEF FindListed, Listed
<1>5. CASE ExactFails \/ NoCandidate \/ NotFound
  <2>1. TypeOK' /\ Serving' /\ UNCHANGED <<box, gen>> /\ result' # "success"
    BY <1>5 DEF ExactFails, NoCandidate, NotFound, IInv, TypeOK, Serving
  <2> QED
    BY <1>5, <2>1 DEF ExactFails, NoCandidate, NotFound, IInv, Holding, Numbered, Applying
<1>6. CASE NextCandidate
  <2>1. k' \in 1 .. Len(Known) + 1
    BY <1>6, ContainersAssumption DEF NextCandidate, IInv, TypeOK
  <2>2. TypeOK' /\ Serving' /\ UNCHANGED <<box, gen>> /\ result' # "success"
    BY <1>6, <2>1 DEF NextCandidate, IInv, TypeOK, Serving
  <2> QED
    BY <1>6, <2>2 DEF NextCandidate, IInv, Holding, Numbered, Applying
<1> QED
  BY <1>2, <1>3, <1>4, <1>5, <1>6

\* What does not touch a container: an operation is refused or begins, is broken off by a
\* crash, looks for the service's container, or a call fails.
LEMMA OtherReadsKeep ==
  ASSUME IInv, \/ Refuse \/ \E o \in Lifecycle \cup Applies : Begin(o)
               \/ Crash \/ InspectService \/ InspectFails \/ CallFails
  PROVE  IInv' /\ UNCHANGED <<box, gen>> /\ result' # "success"
<1> USE DEF Reads, Goto, Return, FindCalls, ApplyCalls, Calls
<1>1. ASSUME NEW o \in Lifecycle \cup Applies, Begin(o)
      PROVE  IInv' /\ UNCHANGED <<box, gen>> /\ result' # "success"
  <2>1. blind' \in BOOLEAN
    BY <1>1 DEF Begin
  <2>2. TypeOK'
    BY <1>1, <2>1, ContainersAssumption DEF Begin, IInv, TypeOK
  <2>3. Serving'
    BY <1>1 DEF Begin, IInv, Serving
  <2> QED
    BY <1>1, <2>2, <2>3 DEF Begin, IInv, Holding, Numbered, Applying
<1>2. CASE Crash \/ InspectFails \/ CallFails
  <2>1. TypeOK' /\ Serving' /\ UNCHANGED <<box, gen>> /\ result' # "success"
    BY <1>2 DEF Crash, InspectFails, CallFails, IInv, TypeOK, Serving
  <2> QED
    BY <1>2, <2>1 DEF Crash, InspectFails, CallFails, IInv, Holding, Numbered, Applying
<1>3. CASE InspectService
  <2>1. op \in Lifecycle \cup Applies /\ op.kind = "apply" /\ result = "none" /\ op.name \in Names
    BY <1>3, OpNames DEF InspectService, IInv, Serving
  <2>2. held' \in IDs /\ held'.gen <= gen /\ held'.name = op.name
    BY <1>3, <2>1, IdType DEF InspectService, IInv
  <2>3. TypeOK' /\ Serving'
    BY <1>3, <2>1, <2>2 DEF InspectService, IInv, TypeOK, Serving
  <2> QED
    BY <1>3, <2>1, <2>2, <2>3 DEF InspectService, IInv, Holding, Numbered, Applying
<1>4. CASE Refuse
  <2>1. blind' \in BOOLEAN
    BY <1>4 DEF Refuse
  <2>2. TypeOK'
    BY <1>4, <2>1, ContainersAssumption DEF Refuse, IInv, TypeOK
  <2>3. Serving'
    BY <1>4 DEF Refuse, IInv, Serving
  <2> QED
    BY <1>4, <2>2, <2>3 DEF Refuse, IInv, Holding, Numbered, Applying
<1> QED
  BY <1>1, <1>2, <1>3, <1>4

\* The calls that label, stop or start the container that is held.
LEMMA UpdatesKeep ==
  ASSUME IInv, Adopt \/ Stop \/ Start \/ StopOld
  PROVE  /\ IInv'
         /\ \A n \in Names : /\ box'[n] # box[n] => n = held.name
                             /\ box[n] # None => box'[n] # None
<1> USE DEF Goto, Return, Reads, FindCalls, ApplyCalls, Calls
<1>1. op \in Lifecycle \cup Applies /\ held \in IDs /\ held.name \in Names
  BY DEF Adopt, Stop, Start, StopOld, IInv, Serving, Holding, IDs
<1>2. /\ UNCHANGED <<gen, op, held, k, blind>>
      /\ pc' \in {"idle", "start", "stop", "remove"}
      /\ result' \in {"none", "success", "failed"}
      /\ pc' = "start" /\ op.kind = "apply" => pc = "start"
  BY DEF Adopt, Stop, Start, StopOld, SetRunning, IInv, Serving
<1>3. Serving' /\ Holding'
  <2>1. Serving'
    BY <1>1 DEF Adopt, Stop, Start, StopOld, IInv, Serving, Lifecycle, Applies
  <2>2. Holding'
    BY <1>1 DEF Adopt, Stop, Start, StopOld, IInv, Holding
  <2> QED
    BY <2>1, <2>2
<1>4. CASE UNCHANGED box
  <2>1. TypeOK'
    BY <1>2, <1>4 DEF IInv, TypeOK
  <2>2. Numbered' /\ Applying'
    BY <1>2, <1>4 DEF IInv, Numbered, Applying, Alive
  <2> QED
    BY <1>3, <1>4, <2>1, <2>2 DEF IInv
<1>5. ASSUME Alive(held), NEW r \in BOOLEAN,
             \/ box' = [box EXCEPT ![held.name].run = r]
             \/ box' = [box EXCEPT ![held.name].managed = r]
      PROVE  /\ IInv'
             /\ \A n \in Names : /\ box'[n] # box[n] => n = held.name
                                 /\ box[n] # None => box'[n] # None
  <2>1. box[held.name] # None
    BY <1>5 DEF Alive
  <2>2. box' \in [Names -> Boxes \cup {None}] /\ Numbered' /\ Applying'
    BY <1>1, <1>2, <1>5, <2>1, UpdateKeeps
  <2>3. TypeOK'
    BY <1>1, <1>2, <2>2 DEF IInv, TypeOK
  <2>4. box'[held.name] # None /\ \A m \in Names \ {held.name} : box'[m] = box[m]
    BY <1>1, <1>5, <2>1, FieldUpdate DEF IInv
  <2> QED
    BY <1>3, <2>2, <2>3, <2>4 DEF IInv
<1>6. \/ UNCHANGED box
      \/ Alive(held) /\ \E r \in BOOLEAN : \/ box' = [box EXCEPT ![held.name].run = r]
                                           \/ box' = [box EXCEPT ![held.name].managed = r]
  BY DEF Adopt, Stop, Start, StopOld, SetRunning
<1> QED
  BY <1>4, <1>5, <1>6

LEMMA RemoveKeeps ==
  ASSUME IInv, RemoveOld
  PROVE  IInv' /\ op.kind = "apply" /\ \A n \in Names : box'[n] # box[n] => n = op.name
<1> USE DEF Goto, Return, FindCalls, ApplyCalls, Calls
<1>1. op \in Lifecycle \cup Applies /\ held.name = op.name /\ op.name \in Names /\ op.kind = "apply"
  BY OpNames DEF RemoveOld, IInv, Serving, Holding
<1>2. box' \in [Names -> Boxes \cup {None}] /\ Numbered' /\ Applying'
  BY <1>1, RemovalKeeps DEF RemoveOld
<1>3. TypeOK' /\ Serving' /\ Holding'
  BY <1>1, <1>2 DEF RemoveOld, IInv, TypeOK, Serving, Holding
<1> QED
  BY <1>1, <1>2, <1>3 DEF IInv, TypeOK, RemoveOld

LEMMA CreateKeeps ==
  ASSUME IInv, Create
  PROVE  /\ IInv' /\ op.kind = "apply" /\ result' # "success"
         /\ \A n \in Names : /\ box'[n] # box[n] => n = op.name
                             /\ box[n] # None => box'[n] # None
<1> USE DEF Goto, Return, FindCalls, ApplyCalls, Calls
<1>1. op \in Applies /\ op.kind = "apply" /\ op.name \in Names /\ result = "none"
  BY OpNames DEF Create, IInv, Serving, Lifecycle, Applies
<1>2. op.rev \in 0 .. MaxRev
  BY <1>1, ContainersAssumption DEF Applies
<1> DEFINE b == NewBox(op.rev, TRUE)
<1>3. b \in Boxes /\ b.gen = gen + 1 /\ b.rev = op.rev
  BY <1>2, NewBoxType DEF Create, IInv
<1>4. box[op.name] = None /\ box' = [box EXCEPT ![op.name] = b] /\ gen' = gen + 1 /\ gen < MaxGen
  BY DEF Create
<1> HIDE DEF b
<1>5. /\ box' \in [Names -> Boxes \cup {None}]
      /\ \A m \in Names : box'[m] # None => box'[m].gen <= gen'
      /\ held # None => held.gen <= gen'
  BY <1>1, <1>3, <1>4, CreationKeeps
<1>6. gen' \in 1 .. MaxGen /\ gen' \in 0 .. MaxGen
  BY <1>4, ContainersAssumption DEF IInv, TypeOK
<1>7. box'[op.name] = b
  BY <1>1, <1>4 DEF IInv, TypeOK
<1>8. CASE pc' = "start" /\ held' = [name |-> op.name, gen |-> gen']
      /\ UNCHANGED <<op, k, result, blind>>
  <2>1. held' \in IDs /\ held'.name = op.name /\ held'.gen = gen'
    BY <1>1, <1>6, <1>8 DEF IDs
  <2>2. TypeOK' /\ Serving' /\ Holding'
    BY <1>1, <1>5, <1>6, <1>8, <2>1 DEF IInv, TypeOK, Serving, Holding
  <2>3. Numbered' /\ Applying'
    BY <1>1, <1>3, <1>5, <1>6, <1>7, <1>8, <2>1 DEF Numbered, Applying
  <2> QED
    BY <1>1, <1>4, <1>7, <1>3, <1>8, <2>2, <2>3, NoneAssumption DEF IInv, TypeOK
<1>9. CASE Return("failed")
  <2>1. TypeOK' /\ Serving' /\ Holding'
    BY <1>1, <1>5, <1>6, <1>9 DEF IInv, TypeOK, Serving, Holding
  <2>2. Numbered' /\ Applying'
    BY <1>5, <1>9 DEF Numbered, Applying
  <2> QED
    BY <1>1, <1>4, <1>7, <1>3, <1>9, <2>1, <2>2, NoneAssumption DEF IInv, TypeOK
<1> QED
  BY <1>8, <1>9 DEF Create

\* What the app and the containers' processes do, while the operation stays where it is.
LEMMA SurroundingsKeep ==
  ASSUME IInv, \/ \E n \in KnownSet : AppDeploys(n) \/ AppRemoves(n)
               \/ \E n \in Names : Exits(n)
  PROVE  IInv' /\ UNCHANGED <<pc, op, held, k, result, blind>>
<1>1. UNCHANGED <<pc, op, held, k, result, blind>>
  BY DEF AppDeploys, AppRemoves, Exits
<1>2. Serving' /\ Holding'
  BY <1>1 DEF IInv, Serving, Holding
<1>3. KnownSet \subseteq Names
  BY DEF Names
<1>4. ASSUME NEW n \in KnownSet, AppDeploys(n) PROVE TypeOK' /\ Numbered' /\ Applying'
  <2> DEFINE b == [NewBox(0, FALSE) EXCEPT !.run = TRUE]
  <2>0. 0 \in 0 .. MaxRev /\ gen < MaxGen
    BY <1>4, ContainersAssumption DEF AppDeploys
  <2>1. NewBox(0, FALSE) \in Boxes /\ NewBox(0, FALSE).gen = gen + 1
    BY <2>0, NewBoxType DEF IInv
  <2>2. b \in Boxes /\ b.gen = gen + 1
    BY <2>1 DEF Boxes
  <2>3. box[n] = None /\ box' = [box EXCEPT ![n] = b] /\ gen' = gen + 1 /\ gen < MaxGen
    BY <1>4 DEF AppDeploys
  <2> HIDE DEF b
  <2>4. /\ box' \in [Names -> Boxes \cup {None}]
        /\ \A m \in Names : box'[m] # None => box'[m].gen <= gen'
        /\ held # None => held.gen <= gen'
        /\ \A id \in IDs : id.gen <= gen => /\ Alive(id)' => Alive(id)
                                            /\ Alive(id)' => box'[id.name] = box[id.name]
    BY <1>3, <2>2, <2>3, CreationKeeps
  <2>5. gen' \in 0 .. MaxGen
    BY <2>3, ContainersAssumption DEF IInv, TypeOK
  <2>6. TypeOK' /\ Numbered'
    BY <1>1, <2>4, <2>5 DEF IInv, TypeOK, Numbered
  <2>7. Applying'
    <3> SUFFICES ASSUME pc = "start", op.kind = "apply", Alive(held)'
                 PROVE  box'[held.name].rev = op.rev
      BY <1>1 DEF Applying, Alive
    <3>1. held \in IDs /\ held.gen <= gen
      BY NoneAssumption DEF IInv, Holding, Numbered
    <3> QED
      BY <1>1, <2>4, <3>1 DEF IInv, Applying, Alive
  <2> QED
    BY <2>6, <2>7
<1>5. ASSUME NEW n \in KnownSet, AppRemoves(n) PROVE TypeOK' /\ Numbered' /\ Applying'
  <2>1. box' \in [Names -> Boxes \cup {None}] /\ Numbered' /\ Applying'
    BY <1>1, <1>3, <1>5, RemovalKeeps DEF AppRemoves
  <2> QED
    BY <1>1, <1>5, <2>1 DEF AppRemoves, IInv, TypeOK
<1>6. ASSUME NEW n \in Names, Exits(n) PROVE TypeOK' /\ Numbered' /\ Applying'
  <2>1. box' = [box EXCEPT ![n].run = FALSE] /\ gen' = gen /\ box[n] # None
    BY <1>6 DEF Exits, SetRunning, IdOf
  <2>2. box' \in [Names -> Boxes \cup {None}] /\ Numbered' /\ Applying'
    BY <1>1, <2>1, UpdateKeeps
  <2> QED
    BY <1>1, <2>1, <2>2 DEF IInv, TypeOK
<1> QED
  BY <1>1, <1>2, <1>4, <1>5, <1>6 DEF IInv

LEMMA NextIInv == IInv /\ [Next]_vars => IInv'
<1> SUFFICES ASSUME IInv, [Next]_vars PROVE IInv'
  OBVIOUS
<1>1. CASE AgentStep
  BY <1>1, FindKeeps, OtherReadsKeep, UpdatesKeep, RemoveKeeps, CreateKeeps DEF AgentStep
<1>2. CASE Environment
  BY <1>2, OtherReadsKeep, SurroundingsKeep DEF Environment
<1>3. CASE Refuse \/ \E o \in Lifecycle \cup Applies : Begin(o)
  BY <1>3, OtherReadsKeep
<1>4. CASE UNCHANGED vars
  <2>1. TypeOK'
    BY <1>4 DEF vars, IInv, TypeOK
  <2>2. Serving' /\ Holding' /\ Numbered' /\ Applying'
    BY <1>4 DEF vars, IInv, Serving, Holding, Numbered, Applying, Alive
  <2> QED
    BY <2>1, <2>2 DEF IInv
<1> QED
  BY <1>1, <1>2, <1>3, <1>4 DEF Next

THEOREM Invariance == Spec => []IInv
BY InitIInv, NextIInv, PTL DEF Spec

\* TypeOK: the containers, the call that comes next, the operation and the container it
\* holds have their types, whatever Docker answers and the app deploys or removes.
THEOREM TypeCorrect == Spec => []TypeOK
<1>1. IInv => TypeOK
  BY DEF IInv
<1> QED
  BY <1>1, Invariance, PTL
-----------------------------------------------------------------------------
LEMMA SuccessStep ==
  ASSUME IInv, [Next]_vars, pc # "idle", result' = "success"
  PROVE  /\ Alive(held)' /\ box'[held.name].run = (op.kind # "stop")
         /\ op.kind = "apply" => held.name = op.name /\ box'[op.name].rev = op.rev
<1>1. result = "none"
  BY DEF IInv, Serving
<1>2. (Start /\ Return("success")) \/ (Stop /\ op.kind = "stop")
  <2>1. ~(UNCHANGED vars) /\ ~Environment /\ ~Refuse /\ ~\E o \in Lifecycle \cup Applies : Begin(o)
    BY <1>1, OtherReadsKeep, SurroundingsKeep DEF vars, Environment
  <2>2. AgentStep
    BY <2>1 DEF Next
  <2>3. Adopt \/ Stop \/ Start \/ StopOld \/ RemoveOld
    BY <2>2, FindKeeps, OtherReadsKeep, CreateKeeps DEF AgentStep
  <2>4. ~Adopt /\ ~StopOld /\ ~RemoveOld
    BY <1>1 DEF Adopt, StopOld, RemoveOld, Goto, Return
  <2>5. Stop => op.kind = "stop"
    BY <1>1 DEF Stop, Goto, Return
  <2>6. Start => Return("success")
    BY DEF Start, Return
  <2> QED
    BY <2>3, <2>4, <2>5, <2>6
<1> DEFINE r == op.kind # "stop"
<1>3. Alive(held) /\ box' = [box EXCEPT ![held.name].run = r] /\ UNCHANGED <<op, held>>
  <2>1. CASE Start
    <3>1. r = TRUE
      BY <2>1 DEF Start, IInv, Serving
    <3> QED
      BY <2>1, <3>1 DEF Start, SetRunning, Return
  <2>2. CASE Stop /\ op.kind = "stop"
    <3>1. r = FALSE
      BY <2>2
    <3> QED
      BY <2>2, <3>1 DEF Stop, SetRunning, Return, Goto
  <2> QED
    BY <1>2, <2>1, <2>2
<1>4. held \in IDs /\ held.name \in Names
  BY <1>2 DEF Start, Stop, IInv, Holding, IDs
<1>5. /\ box'[held.name] # None /\ box'[held.name].gen = box[held.name].gen
      /\ box'[held.name].rev = box[held.name].rev /\ box'[held.name].run = r
  <2>1. box[held.name] # None /\ r \in BOOLEAN
    BY <1>3 DEF Alive
  <2> HIDE DEF r
  <2> QED
    BY <1>3, <1>4, <2>1, FieldUpdate DEF IInv
<1>6. ASSUME op.kind = "apply" PROVE held.name = op.name /\ box'[op.name].rev = op.rev
  <2>1. pc = "start"
    BY <1>2, <1>6 DEF Start
  <2> QED
    BY <1>3, <1>5, <1>6, <2>1 DEF IInv, Holding, Applying
<1> QED
  BY <1>3, <1>5, <1>6 DEF Alive

\* SuccessIsTrue: at the moment a handler decides on "success" the container is as it
\* says, even if the app has removed or deployed containers since it was found.
THEOREM SuccessHolds == Spec => SuccessIsTrue
<1>1. IInv /\ [Next]_vars =>
        [pc # "idle" /\ result' = "success" =>
           /\ Alive(held)' /\ box'[held.name].run = (op.kind # "stop")
           /\ op.kind = "apply" => held.name = op.name /\ box'[op.name].rev = op.rev]_vars
  BY SuccessStep
<1> QED
  BY <1>1, Invariance, PTL DEF Spec, SuccessIsTrue

\* An operation on a service does not come to hold another container while its own is
\* there, unless it was blind: nobody else creates or removes containers of services.
LEMMA SoughtKept == IInv /\ Sought /\ [Next]_vars => Sought'
<1> SUFFICES ASSUME IInv, Sought, [Next]_vars, pc' # "idle", op'.kind # "apply",
                    op'.name \in Services, box'[op'.name] # None, ~blind'
             PROVE  pc' \notin {"known", "list"} /\ (pc' # "find" => held'.name = op'.name)
  BY DEF Sought
<1> USE DEF Goto, Return, Reads
<1>1. CASE FindExact
  BY <1>1 DEF FindExact, Found, IdOf
<1>2. CASE ExactFails
  BY <1>2 DEF ExactFails
<1>3. CASE NextCandidate \/ FindKnown \/ NoCandidate \/ FindListed \/ NotFound
  BY <1>3 DEF NextCandidate, FindKnown, NoCandidate, FindListed, NotFound, Found, Sought
<1>4. CASE Adopt \/ Stop \/ Start \/ StopOld
  <2>1. /\ UNCHANGED <<op, held, blind>> /\ pc \notin {"idle", "find"}
        /\ pc' \in {"start", "stop", "remove"}
    BY <1>4 DEF Adopt, Stop, Start, StopOld, SetRunning
  <2>2. op.name \in Names
    BY <2>1 DEF Names
  <2>3. box[op.name] = None => op.name = held.name
    BY <1>4, <2>1, <2>2, UpdatesKeep
  <2> QED
    BY <2>1, <2>3 DEF Sought
<1>5. CASE InspectService \/ InspectFails \/ RemoveOld \/ Create
  <2>1. op.kind = "apply" /\ op' = op
    BY <1>5 DEF InspectService, InspectFails, RemoveOld, Create, IInv, Serving, ApplyCalls
  <2> QED
    BY <2>1
<1>6. CASE CallFails \/ Crash \/ Refuse
  BY <1>6 DEF CallFails, Crash, Refuse
<1>7. ASSUME NEW o \in Lifecycle \cup Applies, Begin(o)
      PROVE  pc' = "find"
  BY <1>7 DEF Begin
<1>8. ASSUME NEW n \in KnownSet, AppDeploys(n) \/ AppRemoves(n)
      PROVE  pc' \notin {"known", "list"} /\ (pc' # "find" => held'.name = op'.name)
  <2>1. UNCHANGED <<pc, op, held, blind>>
    BY <1>8 DEF AppDeploys, AppRemoves
  <2>2. op.name # n /\ op.name \in Names
    BY <2>1, PrefixAssumption DEF Names
  <2>3. box'[op.name] = box[op.name]
    BY <1>8, <2>2 DEF AppDeploys, AppRemoves, IInv, TypeOK
  <2> QED
    BY <2>1, <2>3 DEF Sought
<1>9. ASSUME NEW n \in Names, Exits(n)
      PROVE  pc' \notin {"known", "list"} /\ (pc' # "find" => held'.name = op'.name)
  <2>1. UNCHANGED <<pc, op, held, blind>> /\ box[n] # None /\ box' = [box EXCEPT ![n].run = FALSE]
    BY <1>9 DEF Exits, SetRunning, IdOf
  <2>2. op.name \in Names
    BY <2>1 DEF Names
  <2>3. box[op.name] # None
    BY <2>1, <2>2, FieldUpdate DEF IInv
  <2> QED
    BY <2>1, <2>3 DEF Sought
<1>10. CASE UNCHANGED vars
  BY <1>10 DEF vars, Sought
<1> QED
  BY <1>1, <1>2, <1>3, <1>4, <1>5, <1>6, <1>7, <1>8, <1>9, <1>10 DEF Next, AgentStep, Environment

LEMMA AgentStepTouches ==
  ASSUME IInv, Sought, AgentStep, NEW n \in Names
  PROVE  /\ box'[n] # box[n] => n = op.name \/ (n \in KnownSet /\ op.kind # "apply")
         /\ box[n] # None /\ box'[n] = None => op.kind = "apply" /\ n = op.name
         /\ op.name \in Services /\ box[op.name] # None /\ box'[n] # box[n] =>
              n = op.name \/ blind
<1>1. CASE FindExact \/ ExactFails \/ NextCandidate \/ FindKnown \/ NoCandidate \/ FindListed
           \/ NotFound \/ InspectService \/ InspectFails \/ CallFails
  BY <1>1, FindKeeps, OtherReadsKeep
<1>2. CASE Adopt \/ Stop \/ Start \/ StopOld
  <2>1. held.name = op.name \/ (held.name \in KnownSet /\ op.kind # "apply")
    BY <1>2 DEF Adopt, Stop, Start, StopOld, IInv, Holding
  <2>2. op.name \in Services /\ box[op.name] # None => held.name = op.name \/ blind
    BY <1>2, <2>1 DEF Adopt, Stop, Start, StopOld, Sought
  <2> QED
    BY <1>2, <2>1, <2>2, UpdatesKeep
<1>3. CASE RemoveOld
  BY <1>3, RemoveKeeps
<1>4. CASE Create
  BY <1>4, CreateKeeps
<1> QED
  BY <1>1, <1>2, <1>3, <1>4 DEF AgentStep

\* OnlyItsOwn: the agent changes the container of the operation's name or a known one,
\* removes only the one it is about to replace, and leaves every other alone while the
\* service it names has a container whose inspect does not fail.
THEOREM TouchesItsOwn == Spec => OnlyItsOwn
<1>1. IInv /\ Sought /\ [Next]_vars =>
        [AgentStep => \A n \in Names :
           /\ box'[n] # box[n] => n = op.name \/ (n \in KnownSet /\ op.kind # "apply")
           /\ box[n] # None /\ box'[n] = None => op.kind = "apply" /\ n = op.name
           /\ op.name \in Services /\ box[op.name] # None /\ box'[n] # box[n] =>
                n = op.name \/ blind]_vars
  BY AgentStepTouches
<1>2. Init => Sought
  BY DEF Init, Sought
<1>3. IInv /\ Sought /\ [Next]_vars => Sought'
  BY SoughtKept
<1> QED
  BY <1>1, <1>2, <1>3, Invariance, PTL DEF Spec, OnlyItsOwn
=============================================================================
