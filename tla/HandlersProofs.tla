--------------------------- MODULE HandlersProofs ---------------------------
(***************************************************************************)
(* Proofs about the handlers for tunnels, components, status, logs and     *)
(* health, for any digests, ports and number of probes, and, in the second *)
(* half, about the handler for certificates, for any texts and limits.     *)
(*                                                                         *)
(* `Shape` ties the step to the kind of the operation, so that a result is *)
(* the work of its own handler.  On top of it stand one invariant for the  *)
(* tunnel (what is known of the script at each call) and one for the       *)
(* health check (the verdict so far is founded on what has been so).       *)
(*                                                                         *)
(* For certificates, three inductions over texts: what Split returns is    *)
(* told from the neighbours of characters (SplitInvariant), what trimming  *)
(* leaves is what a text names (CoreIsNamed), and the list of domains has  *)
(* every one once (ListedInvariant).  The theorems follow from CertsInv.   *)
(***************************************************************************)
EXTENDS Handlers, Certs, Induction, FiniteSetTheorems

TunnelSteps  == {"tunnel", "exec_create", "exec_start", "exec_read", "exec_inspect"}
InstallSteps == {"pull", "inspect_image"}
StatusSteps  == {"status", "logs"}
HealthSteps  == {"health", "probe"}

\* A step belongs to an operation of its kind, and there is a result only when there is
\* one to report.
Matching ==
  /\ pc \in TunnelSteps => op \in TunnelOps
  /\ pc \in InstallSteps => op \in InstallOps
  /\ pc \in StatusSteps => op \in StatusOps
  /\ pc \in HealthSteps => op \in HealthOps
  /\ pc = "report" => op \in Ops /\ result.status \in Statuses
  /\ pc # "report" => result = NoResult
  /\ pc = "idle" => op = None

Shape == TypeOK /\ Matching

\* The ports of a health check are a sequence.
LEMMA PortsType ==
  ASSUME NEW o \in HealthOps
  PROVE  /\ Len(o.ports) \in 0 .. MaxProbes
         /\ DOMAIN o.ports = 1 .. Len(o.ports)
         /\ \A k \in 1 .. Len(o.ports) : o.ports[k] \in Ports
<1>1. o.ports \in BoundedSeq(Ports, MaxProbes)
  BY DEF HealthOps
<1>2. PICK m \in 0 .. MaxProbes : o.ports \in [1 .. m -> Ports]
  BY <1>1 DEF BoundedSeq, SeqOf
<1>3. m \in Nat
  BY InspectionAssumption
<1>4. o.ports \in Seq(Ports) /\ Len(o.ports) = m
  BY <1>2, <1>3
<1> QED
  BY <1>2, <1>4
-----------------------------------------------------------------------------
\* What a step of a handler does to the frame: it leaves it alone, goes on to another
\* of its steps, or returns.
Moves(group) ==
  \/ UNCHANGED frame
  \/ \E step \in group : Goto(step)
  \/ \E st \in Statuses, m \in Messages, d \in Payloads : Return(st, m, d)

\* Every step of a handler is such a move, among the steps of that handler.
LEMMA TunnelMoves == TunnelStep \/ TunnelFault => pc \in TunnelSteps /\ Moves(TunnelSteps)
<1> USE DEF TunnelSteps, Moves, Statuses, Messages, Payloads
<1>1. RefuseTunnel => pc \in TunnelSteps /\ Moves(TunnelSteps)
  BY DEF RefuseTunnel, Error, Fail
<1>2. FindServiceContainer \/ ExecCreate \/ ExecStart \/ ExecStartRefused \/ ExecRead \/ ExecReadCut
        => pc \in TunnelSteps /\ Moves(TunnelSteps)
  BY DEF FindServiceContainer, ExecCreate, ExecStart, ExecStartRefused, ExecRead, ExecReadCut
<1>3. ExecStartLost \/ TunnelCallFails \/ ExecReadFails
        => pc \in TunnelSteps /\ Moves(TunnelSteps)
  BY DEF ExecStartLost, TunnelCallFails, ExecReadFails, Fail
<1>4. ExecInspect \/ ExecInspectUnreadable => pc \in TunnelSteps /\ Moves(TunnelSteps)
  BY DEF ExecInspect, ExecInspectUnreadable, Fail, Succeed
<1> QED
  BY <1>1, <1>2, <1>3, <1>4 DEF TunnelStep, TunnelFault

LEMMA InstallerMoves == InstallerStep => pc \in InstallSteps /\ Moves(InstallSteps)
BY DEF InstallerStep, InstallSteps, Moves, Statuses, Messages, Payloads, RefuseInstall, PullImage,
   PullCut, PullFails, VerifyImage, InspectImageFails, Error, Fail, Succeed

LEMMA InspectionMoves ==
  InspectionStep => \/ pc \in StatusSteps /\ Moves(StatusSteps)
                    \/ pc \in HealthSteps /\ Moves(HealthSteps)
<1> USE DEF StatusSteps, HealthSteps, Moves, Statuses, Messages, Payloads
<1> DEFINE Goal == \/ pc \in StatusSteps /\ Moves(StatusSteps)
                   \/ pc \in HealthSteps /\ Moves(HealthSteps)
<1>1. RefuseInspection \/ InspectionFails => Goal
  BY DEF RefuseInspection, InspectionFails, Error, Fail
<1>2. CollectStatus \/ CollectLogs => Goal
  BY DEF CollectStatus, CollectLogs, Succeed
<1>3. CheckContainer \/ ProbePort \/ ReportHealth => Goal
  BY DEF CheckContainer, ProbePort, ReportHealth
<1> QED
  BY <1>1, <1>2, <1>3 DEF InspectionStep

\* A move keeps the frame well formed.
LEMMA MovesKeepFrame ==
  ASSUME FrameTypeOK(Steps, Ops), Matching,
         NEW group \in {TunnelSteps, InstallSteps, StatusSteps, HealthSteps},
         pc \in group, Moves(group)
  PROVE  FrameTypeOK(Steps, Ops)' /\ Matching' /\ op' = op
<1> USE DEF Steps, TunnelSteps, InstallSteps, StatusSteps, HealthSteps
<1>1. op \in Ops /\ pc \notin {"idle", "report"}
  BY DEF Matching, Ops
<1>2. CASE UNCHANGED frame
  BY <1>2 DEF frame, FrameTypeOK, Matching
<1>3. ASSUME NEW step \in group, Goto(step)
      PROVE  FrameTypeOK(Steps, Ops)' /\ Matching' /\ op' = op
  BY <1>1, <1>3 DEF Goto, FrameTypeOK, Matching
<1>4. ASSUME NEW st \in Statuses, NEW m \in Messages, NEW d \in Payloads, Return(st, m, d)
      PROVE  FrameTypeOK(Steps, Ops)' /\ Matching' /\ op' = op
  BY <1>1, <1>4 DEF Return, FrameTypeOK, Matching
<1> QED
  BY <1>2, <1>3, <1>4 DEF Moves

\* What changes without the agent.
Around ==
  \/ ContainerChanges /\ UNCHANGED <<local, open, probed, healthy>>
  \/ HelperEnds /\ UNCHANGED <<local, open, probed, healthy>>
  \/ ImageChanges /\ UNCHANGED <<ctr, tunnel, open, probed, healthy>>
  \/ PortChanges /\ UNCHANGED <<tunnel, local>>

\* The histories keep their types.
LEMMA RecordKeepsTypes ==
  ASSUME TypeOK, Record, local' \in Images, open' \subseteq Ports
  PROVE  present' \subseteq Digests /\ was' \subseteq AllFacts
<1>0. DigestsOf(local)' \subseteq Digests
  BY DEF DigestsOf, Images
<1>1. present' \subseteq Digests
  BY <1>0 DEF TypeOK, InstallerTypeOK, Record, Witness
<1>2. Facts' \subseteq AllFacts
  BY DEF Facts, AllFacts
<1> QED
  BY <1>1, <1>2 DEF TypeOK, InspectionTypeOK, Record, Observe

\* Shape is an inductive invariant.
LEMMA ShapeInit == Init => Shape
<1> SUFFICES ASSUME Init PROVE Shape
  OBVIOUS
<1>1. FrameTypeOK(Steps, Ops) /\ Matching
  BY DEF Init, FrameInit, FrameTypeOK, Matching, TunnelSteps, InstallSteps, StatusSteps, HealthSteps
<1>2. TunnelTypeOK /\ InstallerTypeOK /\ ctr \in ContainerStates
  BY DEF Init, ContainerStates, TunnelTypeOK, InstallerTypeOK, Images
<1>3. probed \in 0 .. MaxProbes
  BY InspectionAssumption DEF Init
<1>4. InspectionTypeOK
  BY <1>3 DEF Init, InspectionTypeOK
<1> QED
  BY <1>1, <1>2, <1>4 DEF Shape, TypeOK

LEMMA ShapeNext == Shape /\ [Next]_vars => Shape'
<1> SUFFICES ASSUME Shape, [Next]_vars PROVE Shape'
  OBVIOUS
<1> USE DEF Shape
<1>1. ASSUME NEW o \in Ops, Dispatch(o) PROVE Shape'
  <2>1. FrameTypeOK(Steps, Ops)' /\ Matching'
    <3>1. /\ o \in TunnelOps => FirstStep(o.kind) = "tunnel"
          /\ o \in InstallOps => FirstStep(o.kind) = "pull"
          /\ o \in StatusOps => FirstStep(o.kind) \in StatusSteps
          /\ o \in HealthOps => FirstStep(o.kind) = "health"
      BY DEF FirstStep, TunnelOps, InstallOps, StatusOps, HealthOps, StatusSteps
    <3> QED
      BY <1>1, <3>1 DEF Dispatch, Begin, TypeOK, FrameTypeOK, Matching, Ops, Steps, TunnelSteps,
         InstallSteps, StatusSteps, HealthSteps
  <2>2. present' \subseteq Digests /\ was' \subseteq AllFacts
    BY <1>1, RecordKeepsTypes DEF Dispatch, TypeOK, InstallerTypeOK, InspectionTypeOK
  <2> QED
    BY <1>1, <2>1, <2>2 DEF Dispatch, tunnel, TypeOK, TunnelTypeOK, InstallerTypeOK,
       InspectionTypeOK
<1>2. ASSUME TunnelStep \/ TunnelFault, UNCHANGED <<ctr, local, open, probed, healthy>>, Record
      PROVE  Shape'
  <2>1. FrameTypeOK(Steps, Ops)' /\ Matching'
    BY <1>2, TunnelMoves, MovesKeepFrame DEF TypeOK
  <2>2. TunnelTypeOK'
    BY <1>2 DEF TypeOK, TunnelTypeOK, TunnelStep, TunnelFault, tunnel, RefuseTunnel,
       FindServiceContainer, ExecCreate, ExecStart, ExecStartRefused, ExecStartLost, ExecRead,
       ExecReadCut, ExecInspect, ExecInspectUnreadable, TunnelCallFails, ExecReadFails
  <2>3. present' \subseteq Digests /\ was' \subseteq AllFacts
    BY <1>2, RecordKeepsTypes DEF TypeOK, InstallerTypeOK, InspectionTypeOK
  <2> QED
    BY <1>2, <2>1, <2>2, <2>3 DEF TypeOK, InstallerTypeOK, InspectionTypeOK
<1>3. ASSUME InstallerStep, UNCHANGED <<ctr, tunnel, open, probed, healthy>>, Record
      PROVE  Shape'
  <2>1. FrameTypeOK(Steps, Ops)' /\ Matching'
    BY <1>3, InstallerMoves, MovesKeepFrame DEF TypeOK
  <2>2. local' \in Images
    <3>1. Pulled => local' \in Images
      BY DEF TypeOK, InstallerTypeOK, Pulled, DigestsOf, Images
    <3> QED
      BY <1>3, <3>1 DEF TypeOK, InstallerTypeOK, InstallerStep, RefuseInstall, PullImage, PullCut,
         PullFails, VerifyImage, InspectImageFails
  <2>3. present' \subseteq Digests /\ was' \subseteq AllFacts
    BY <1>3, <2>2, RecordKeepsTypes DEF TypeOK, InspectionTypeOK
  <2> QED
    BY <1>3, <2>1, <2>2, <2>3 DEF TypeOK, tunnel, TunnelTypeOK, InstallerTypeOK, InspectionTypeOK
<1>4. ASSUME InspectionStep, UNCHANGED <<ctr, tunnel, local>>, Record
      PROVE  Shape'
  <2>1. FrameTypeOK(Steps, Ops)' /\ Matching'
    BY <1>4, InspectionMoves, MovesKeepFrame DEF TypeOK
  <2>2. open' = open /\ probed' \in 0 .. MaxProbes /\ healthy' \in BOOLEAN
    <3>1. CASE ProbePort
      <4>1. op \in HealthOps
        BY <3>1 DEF ProbePort, Matching, HealthSteps
      <4> QED
        BY <3>1, <4>1, PortsType, InspectionAssumption
           DEF ProbePort, MorePorts, TypeOK, InspectionTypeOK
    <3>2. CASE ~ProbePort
      BY <1>4, <3>2 DEF InspectionStep, RefuseInspection, CollectStatus, CollectLogs,
         InspectionFails, CheckContainer, ReportHealth, TypeOK, InspectionTypeOK
    <3> QED
      BY <3>1, <3>2
  <2>3. present' \subseteq Digests /\ was' \subseteq AllFacts
    BY <1>4, <2>2, RecordKeepsTypes DEF TypeOK, InstallerTypeOK, InspectionTypeOK
  <2> QED
    BY <1>4, <2>1, <2>2, <2>3 DEF TypeOK, tunnel, TunnelTypeOK, InstallerTypeOK, InspectionTypeOK
<1>5. CASE Report
  <2>1. FrameTypeOK(Steps, Ops)' /\ Matching'
    <3>1. ReportedStatus \in Statuses \ {"error"} /\ result.message \in Messages
      BY <1>5 DEF Report, Complete, ReportedStatus, TypeOK, FrameTypeOK, Matching, Statuses, NoResult
    <3> QED
      BY <1>5, <3>1 DEF Report, Complete, TypeOK, FrameTypeOK, Matching, TunnelSteps, InstallSteps,
         StatusSteps, HealthSteps
  <2>2. present' \subseteq Digests /\ was' \subseteq AllFacts
    BY <1>5, RecordKeepsTypes DEF Report, TypeOK, InstallerTypeOK, InspectionTypeOK
  <2>3. probed' \in 0 .. MaxProbes
    BY <1>5, InspectionAssumption DEF Report
  <2> QED
    BY <1>5, <2>1, <2>2, <2>3 DEF Report, TypeOK, TunnelTypeOK, InstallerTypeOK, InspectionTypeOK
<1>6. CASE Deadline
  <2>1. FrameTypeOK(Steps, Ops)' /\ Matching'
    BY <1>6 DEF Deadline, Expire, TypeOK, FrameTypeOK, Matching
  <2>2. present' \subseteq Digests /\ was' \subseteq AllFacts
    BY <1>6, RecordKeepsTypes DEF Deadline, TypeOK, InstallerTypeOK, InspectionTypeOK
  <2> QED
    BY <1>6, <2>1, <2>2 DEF Deadline, tunnel, TypeOK, TunnelTypeOK, InstallerTypeOK,
       InspectionTypeOK
<1>7. ASSUME Around, Record PROVE Shape'
  <2>1. FrameTypeOK(Steps, Ops)' /\ Matching'
    BY <1>7 DEF Around, ContainerChanges, HelperEnds, ImageChanges, PortChanges, frame, TypeOK,
       FrameTypeOK, Matching
  <2>2. ctr' \in ContainerStates /\ TunnelTypeOK'
    BY <1>7 DEF Around, ContainerChanges, HelperEnds, ImageChanges, PortChanges, KilledHelper, tunnel,
       TypeOK, TunnelTypeOK
  <2>3. local' \in Images /\ open' \subseteq Ports /\ UNCHANGED <<probed, healthy>>
    BY <1>7 DEF Around, ImageChanges, PortChanges, TypeOK, InstallerTypeOK, InspectionTypeOK
  <2>4. present' \subseteq Digests /\ was' \subseteq AllFacts
    BY <1>7, <2>3, RecordKeepsTypes
  <2> QED
    BY <2>1, <2>2, <2>3, <2>4 DEF TypeOK, InstallerTypeOK, InspectionTypeOK
<1>8. CASE UNCHANGED vars
  BY <1>8 DEF vars, frame, tunnel, installer, inspection, TypeOK, FrameTypeOK, Matching,
     TunnelTypeOK, InstallerTypeOK, InspectionTypeOK
<1> QED
  BY <1>1, <1>2, <1>3, <1>4, <1>5, <1>6, <1>7, <1>8 DEF Next, Handle, Surroundings, Around

\* TypeOK: the step, the operation, its result and the surroundings have their types in
\* every reachable state, whichever handler runs and whatever happens around it.
THEOREM TypeCorrect == Spec => []TypeOK
<1>1. Spec => []Shape
  BY ShapeInit, ShapeNext, PTL DEF Spec
<1>2. Shape => TypeOK
  BY DEF Shape
<1> QED
  BY <1>1, <1>2, PTL

\* The next-state relation by what a step is about.
LEMMA StepCases ==
  ASSUME [Next]_vars
  PROVE  \/ \E o \in Ops : Dispatch(o)
         \/ /\ TunnelStep \/ TunnelFault
            /\ UNCHANGED <<ctr, local, open, probed, healthy>> /\ Record
         \/ InstallerStep /\ UNCHANGED <<ctr, tunnel, open, probed, healthy>> /\ Record
         \/ InspectionStep /\ UNCHANGED <<ctr, tunnel, local>> /\ Record
         \/ Report \/ Deadline \/ (Around /\ Record) \/ UNCHANGED vars
<1>1. Surroundings => \/ TunnelFault /\ UNCHANGED <<ctr, local, open, probed, healthy>> /\ Record
                      \/ Around /\ Record
  BY DEF Surroundings, Around
<1>2. Handle =>
        \/ TunnelStep /\ UNCHANGED <<ctr, local, open, probed, healthy>> /\ Record
        \/ InstallerStep /\ UNCHANGED <<ctr, tunnel, open, probed, healthy>> /\ Record
        \/ InspectionStep /\ UNCHANGED <<ctr, tunnel, local>> /\ Record
  BY DEF Handle
<1> QED
  BY <1>1, <1>2 DEF Next

\* An operation is of one kind.
LEMMA KindsDiffer ==
  /\ TunnelOps \cap InstallOps = {} /\ TunnelOps \cap StatusOps = {}
  /\ TunnelOps \cap HealthOps = {} /\ InstallOps \cap StatusOps = {}
  /\ InstallOps \cap HealthOps = {} /\ StatusOps \cap HealthOps = {}
BY DEF TunnelOps, InstallOps, StatusOps, HealthOps

\* The handler returns once, and the frame keeps the operation until it is reported.
LEMMA Returned ==
  ASSUME Shape, [Next]_vars, result'.status # "none"
  PROVE  op' = op /\ pc' = "report" /\ (result' = result \/ result = NoResult)
<1> USE DEF Shape, NoResult
<1>1. ASSUME NEW o \in Ops, Dispatch(o) PROVE FALSE
  BY <1>1 DEF Dispatch, Begin, Matching
<1>2. ASSUME NEW group \in {TunnelSteps, InstallSteps, StatusSteps, HealthSteps},
             pc \in group, Moves(group)
      PROVE  op' = op /\ pc' = "report" /\ result = NoResult
  BY <1>2, MovesKeepFrame DEF TypeOK, Matching, TunnelSteps, InstallSteps, StatusSteps, HealthSteps
<1>3. CASE Report
  BY <1>3 DEF Report, Complete
<1>4. ASSUME Deadline \/ Around \/ UNCHANGED vars
      PROVE  op' = op /\ pc' = "report" /\ result' = result
  <2>1. UNCHANGED <<pc, op, result>>
    BY <1>4 DEF Deadline, Expire, Around, ContainerChanges, HelperEnds, ImageChanges, PortChanges,
       vars, frame
  <2> QED
    BY <2>1 DEF Matching
<1> QED
  BY <1>1, <1>2, <1>3, <1>4, StepCases, TunnelMoves, InstallerMoves, InspectionMoves
-----------------------------------------------------------------------------
\* Once the script has been started, it runs or has ended, as long as every answer that
\* is not checked was a good one; when the whole output has been read, it has ended.
TunnelTrail ==
  /\ pc = "exec_read" => helper \in {"running", "exit_0", "exit_1"} \/ doubt
  /\ pc = "exec_inspect" => helper \in {"exit_0", "exit_1"} \/ doubt

TunnelInv == TunnelTrail /\ TunnelSuccessEarned

LEMMA TunnelInvNext == Shape /\ TunnelInv /\ [Next]_vars => TunnelInv'
<1> SUFFICES ASSUME Shape, TunnelInv, [Next]_vars PROVE TunnelInv'
  OBVIOUS
<1> USE DEF TunnelInv, TunnelTrail, TunnelSuccessEarned
<1>1. ASSUME NEW o \in Ops, Dispatch(o) PROVE TunnelInv'
  BY <1>1 DEF Dispatch, Begin, FirstStep, Ops, TunnelOps, InstallOps, StatusOps, HealthOps, Shape,
     Matching, NoResult
<1>2. ASSUME TunnelStep \/ TunnelFault PROVE TunnelInv'
  <2>1. CASE FindServiceContainer \/ ExecCreate \/ ExecStart \/ ExecStartRefused \/ ExecRead
             \/ ExecReadCut
    BY <2>1 DEF FindServiceContainer, ExecCreate, ExecStart, ExecStartRefused, ExecRead, ExecReadCut,
       Goto, Shape, Matching, NoResult, tunnel
  <2>2. CASE ExecInspect \/ ExecInspectUnreadable
    BY <2>2 DEF ExecInspect, ExecInspectUnreadable, Succeed, Fail, Return, tunnel
  <2>3. CASE RefuseTunnel \/ ExecStartLost \/ TunnelCallFails \/ ExecReadFails
    BY <2>3 DEF RefuseTunnel, ExecStartLost, TunnelCallFails, ExecReadFails, Fail, Error, Return
  <2> QED
    BY <1>2, <2>1, <2>2, <2>3 DEF TunnelStep, TunnelFault
<1>3. ASSUME InstallerStep, UNCHANGED tunnel PROVE TunnelInv'
  <2>1. Matching' /\ op' = op
    BY <1>3, InstallerMoves, MovesKeepFrame DEF Shape, TypeOK
  <2>2. op' \in InstallOps
    BY <1>3, <2>1, InstallerMoves DEF Shape, Matching
  <2> QED
    BY <2>1, <2>2, KindsDiffer DEF Matching, TunnelSteps
<1>4. ASSUME InspectionStep, UNCHANGED tunnel PROVE TunnelInv'
  <2>1. Matching' /\ op' = op
    BY <1>4, InspectionMoves, MovesKeepFrame DEF Shape, TypeOK
  <2>2. op' \in StatusOps \cup HealthOps
    BY <1>4, <2>1, InspectionMoves DEF Shape, Matching
  <2> QED
    BY <2>1, <2>2, KindsDiffer DEF Matching, TunnelSteps
<1>5. CASE Report
  BY <1>5 DEF Report, Complete, NoResult
<1>6. CASE Deadline
  BY <1>6 DEF Deadline, Expire, tunnel
<1>7. CASE Around
  BY <1>7 DEF Around, ContainerChanges, HelperEnds, ImageChanges, PortChanges, KilledHelper, frame,
     tunnel
<1>8. CASE UNCHANGED vars
  BY <1>8 DEF vars, frame, tunnel
<1> QED
  BY <1>1, <1>2, <1>3, <1>4, <1>5, <1>6, <1>7, <1>8, StepCases

\* TunnelSuccessEarned: success of a tunnel operation means that the script exited with
\* 0, or that an answer which Exec does not check was not a good one.
THEOREM TunnelsAreEarned == Spec => []TunnelSuccessEarned
<1>1. Init => TunnelInv
  BY DEF Init, FrameInit, NoResult, TunnelInv, TunnelTrail, TunnelSuccessEarned
<1>2. TunnelInv => TunnelSuccessEarned
  BY DEF TunnelInv
<1> QED
  BY <1>1, <1>2, ShapeInit, ShapeNext, TunnelInvNext, PTL DEF Spec
-----------------------------------------------------------------------------
LEMMA InstallNext == Shape /\ InstallVerified /\ [Next]_vars => InstallVerified'
<1> SUFFICES ASSUME Shape, InstallVerified, [Next]_vars,
                    op' \in InstallOps, result'.status = "success"
             PROVE  op'.digest \in present'
  BY DEF InstallVerified
<1>1. op' = op /\ pc' = "report" /\ (result' = result \/ result = NoResult)
  BY Returned
<1>2. CASE UNCHANGED vars
  BY <1>2 DEF vars, frame, installer, InstallVerified
<1>3. Record \/ UNCHANGED vars
  BY StepCases DEF Dispatch, Report, Deadline
<1>4. CASE Record /\ result' = result
  BY <1>1, <1>4 DEF Record, Witness, InstallVerified
<1>5. CASE Record /\ result = NoResult
  <2>1. VerifyImage
    <3>1. result' # result
      BY <1>5 DEF NoResult
    <3>2. ~(Deadline \/ Around \/ UNCHANGED vars \/ Report) /\ ~\E o \in Ops : Dispatch(o)
      BY <3>1 DEF Deadline, Expire, Around, ContainerChanges, HelperEnds, ImageChanges, PortChanges,
         vars, frame, Report, Complete, Dispatch, Begin, NoResult
    <3>3. ~(TunnelStep \/ TunnelFault) /\ ~InspectionStep
      BY <1>1, TunnelMoves, InspectionMoves, KindsDiffer DEF Shape, Matching
    <3>4. InstallerStep
      BY <3>2, <3>3, StepCases
    <3> QED
      BY <3>1, <3>4 DEF InstallerStep, RefuseInstall, PullImage, PullCut, PullFails,
         InspectImageFails, Goto, Error, Fail, Return
  <2>2. op.digest \in local /\ local' = local /\ local # None
    BY <2>1 DEF VerifyImage, MatchDigest, Fail, Return
  <2> QED
    BY <1>1, <1>5, <2>2 DEF Record, Witness, DigestsOf
<1> QED
  BY <1>1, <1>2, <1>3, <1>4, <1>5

\* InstallVerified: a component is reported as installed only if its reference had the
\* expected digest while the operation ran, whatever the registry and others do.
THEOREM InstallsAreVerified == Spec => []InstallVerified
<1>1. Init => InstallVerified
  BY DEF Init, FrameInit, NoResult, InstallVerified
<1> QED
  BY <1>1, ShapeInit, ShapeNext, InstallNext, PTL DEF Spec
-----------------------------------------------------------------------------
\* What the check knows after the first n ports of a request.
AllOpen(n)  == \A k \in 1 .. n : <<op.ports[k], "open">> \in was
SomeShut(n) == \E k \in 1 .. n : <<op.ports[k], "shut">> \in was

\* No port is probed before the container has been looked at, and from then on the
\* verdict so far is founded on what has been so.
Verdict ==
  /\ pc \notin {"probe", "report"} => probed = 0
  /\ pc = "probe" =>
       /\ probed <= Len(op.ports)
       /\ healthy => <<"container", "up">> \in was /\ AllOpen(probed)
       /\ ~healthy => expired \/ <<"container", "down">> \in was \/ SomeShut(probed)

HealthInv == Verdict /\ HealthyIsFounded /\ DegradedIsFounded

\* The history of a health check only grows.
LEMMA Remembered ==
  ASSUME Record, op' = op, op \in HealthOps
  PROVE  was \subseteq was' /\ Facts' \subseteq was'
BY DEF Record, Observe

\* Where the check stays and remembers, what it has concluded stays founded.
LEMMA FoundedStays ==
  ASSUME HealthInv, UNCHANGED <<pc, op, result, probed, healthy>>, expired => expired',
         op \in HealthOps => was \subseteq was',
         pc = "probe" => op \in HealthOps
  PROVE  HealthInv'
<1>1. Verdict'
  BY DEF HealthInv, Verdict, AllOpen, SomeShut
<1>2. HealthyIsFounded' /\ DegradedIsFounded'
  BY DEF HealthInv, HealthyIsFounded, DegradedIsFounded
<1> QED
  BY <1>1, <1>2 DEF HealthInv

LEMMA HealthNext == Shape /\ HealthInv /\ [Next]_vars => HealthInv'
<1> SUFFICES ASSUME Shape, HealthInv, [Next]_vars PROVE HealthInv'
  OBVIOUS
<1>1. ASSUME NEW o \in Ops, Dispatch(o) PROVE HealthInv'
  <2>1. pc = "idle" /\ pc' = FirstStep(o.kind) /\ probed' = probed /\ result' = NoResult
    BY <1>1 DEF Dispatch, Begin, Shape, Matching
  <2>2. FirstStep(o.kind) \notin {"probe", "report"}
    BY DEF FirstStep, Ops, TunnelOps, InstallOps, StatusOps, HealthOps
  <2> QED
    BY <2>1, <2>2 DEF HealthInv, Verdict, HealthyIsFounded, DegradedIsFounded, NoResult
<1>2. ASSUME \/ TunnelStep \/ TunnelFault \/ InstallerStep, probed' = probed
      PROVE  HealthInv'
  <2>1. /\ pc \in TunnelSteps \cup InstallSteps /\ op \in TunnelOps \cup InstallOps
        /\ Matching' /\ op' = op
    BY <1>2, TunnelMoves, InstallerMoves, MovesKeepFrame DEF Shape, TypeOK, Matching
  <2>2. op' \notin HealthOps /\ pc' # "probe"
    BY <2>1, KindsDiffer DEF Matching, HealthSteps
  <2>3. probed' = 0
    BY <1>2, <2>1 DEF HealthInv, Verdict, TunnelSteps, InstallSteps
  <2> QED
    BY <2>2, <2>3 DEF HealthInv, Verdict, HealthyIsFounded, DegradedIsFounded
<1>3. ASSUME InspectionStep, UNCHANGED ctr, Record PROVE HealthInv'
  <2>1. CASE RefuseInspection \/ InspectionFails \/ CollectStatus \/ CollectLogs
    <3>1. pc' = "report" /\ op' = op
      BY <2>1 DEF RefuseInspection, InspectionFails, CollectStatus, CollectLogs, Succeed, Fail,
         Error, Return
    <3>2. op \in HealthOps => result'.status \in {"error", "failed"}
      BY <2>1, KindsDiffer DEF RefuseInspection, InspectionFails, CollectStatus, CollectLogs, Fail,
         Error, Return, Shape, Matching, StatusSteps
    <3> QED
      BY <3>1, <3>2 DEF HealthInv, Verdict, HealthyIsFounded, DegradedIsFounded
  <2>2. CASE CheckContainer
    <3>1. /\ pc = "health" /\ pc' = "probe" /\ op' = op /\ op \in HealthOps /\ probed' = 0
          /\ healthy' = (ctr' = "up") /\ result' = NoResult
      BY <1>3, <2>2 DEF CheckContainer, Goto, HealthInv, Verdict, Shape, Matching, HealthSteps
    <3>2. <<"container", IF ctr' = "up" THEN "up" ELSE "down">> \in was'
      BY <1>3, <3>1, Remembered DEF Facts
    <3>3. 0 <= Len(op.ports) /\ AllOpen(0)'
      BY <3>1, PortsType DEF AllOpen
    <3> QED
      BY <3>1, <3>2, <3>3 DEF HealthInv, Verdict, AllOpen, HealthyIsFounded, DegradedIsFounded,
         NoResult
  <2>3. CASE ProbePort
    <3>1. /\ op' = op /\ op \in HealthOps /\ pc = "probe" /\ pc' = pc /\ result' = NoResult
          /\ open' = open /\ expired' = expired
          /\ probed \in Nat /\ probed' = probed + 1 /\ probed < Len(op.ports) /\ Len(op.ports) \in Nat
      BY <2>3, PortsType, InspectionAssumption DEF ProbePort, MorePorts, frame, Shape, Matching,
         HealthSteps, TypeOK, InspectionTypeOK
    <3> DEFINE p == op.ports[probed + 1]
    <3>2. p \in Ports
      BY <3>1, PortsType
    <3>3. was \subseteq was' /\ <<p, IF p \in open THEN "open" ELSE "shut">> \in was'
      BY <1>3, <3>1, <3>2, Remembered DEF Facts
    <3>4. healthy' = (healthy /\ ~expired /\ p \in open)
      BY <2>3 DEF ProbePort
    <3>5. healthy' => <<"container", "up">> \in was' /\ AllOpen(probed)'
      <4> SUFFICES ASSUME healthy' PROVE <<"container", "up">> \in was' /\ AllOpen(probed)'
        OBVIOUS
      <4>1. <<"container", "up">> \in was /\ AllOpen(probed)
        BY <3>1, <3>4 DEF HealthInv, Verdict
      <4>2. <<p, "open">> \in was'
        BY <3>3, <3>4
      <4> QED
        BY <3>1, <3>3, <4>1, <4>2 DEF AllOpen
    <3>6. ~healthy' => expired' \/ <<"container", "down">> \in was' \/ SomeShut(probed)'
      <4> SUFFICES ASSUME ~healthy', ~expired, <<"container", "down">> \notin was'
                   PROVE  SomeShut(probed)'
        BY <3>1
      <4>1. CASE ~healthy
        <5>1. SomeShut(probed)
          BY <3>1, <3>3, <4>1 DEF HealthInv, Verdict
        <5> QED
          BY <3>1, <3>3, <5>1 DEF SomeShut
      <4>2. CASE healthy
        <5>1. <<p, "shut">> \in was'
          BY <3>3, <3>4, <4>2
        <5> QED
          BY <3>1, <5>1 DEF SomeShut
      <4> QED
        BY <4>1, <4>2
    <3> HIDE DEF p
    <3> QED
      BY <3>1, <3>5, <3>6 DEF HealthInv, Verdict, HealthyIsFounded, DegradedIsFounded, NoResult
  <2>4. CASE ReportHealth
    <3>1. /\ op' = op /\ op \in HealthOps /\ pc = "probe" /\ pc' = "report"
          /\ expired' = expired /\ probed = Len(op.ports)
          /\ result'.status = IF healthy THEN "success" ELSE "degraded"
      BY <2>4, PortsType, InspectionAssumption DEF ReportHealth, MorePorts, Return, Shape, Matching,
         HealthSteps, TypeOK, InspectionTypeOK, HealthInv, Verdict
    <3>2. was \subseteq was'
      BY <1>3, <3>1, Remembered
    <3>3. Range(op.ports) = {op.ports[k] : k \in 1 .. probed}
      BY <3>1, PortsType DEF Range
    <3>4. HealthyIsFounded'
      BY <3>1, <3>2, <3>3 DEF HealthInv, Verdict, AllOpen, HealthyIsFounded
    <3>5. DegradedIsFounded'
      BY <3>1, <3>2, <3>3 DEF HealthInv, Verdict, SomeShut, DegradedIsFounded
    <3> QED
      BY <3>1, <3>4, <3>5 DEF HealthInv, Verdict
  <2> QED
    BY <1>3, <2>1, <2>2, <2>3, <2>4 DEF InspectionStep
<1>4. CASE Report
  BY <1>4 DEF Report, Complete, HealthInv, Verdict, HealthyIsFounded, DegradedIsFounded, NoResult
<1>5. ASSUME Deadline \/ Around, Record PROVE HealthInv'
  <2>1. UNCHANGED <<pc, op, result, probed, healthy>> /\ (expired => expired')
    BY <1>5 DEF Deadline, Expire, Around, ContainerChanges, HelperEnds, ImageChanges, PortChanges,
       frame
  <2>2. pc = "probe" => op \in HealthOps
    BY DEF Shape, Matching, HealthSteps
  <2> QED
    BY <1>5, <2>1, <2>2, Remembered, FoundedStays
<1>6. CASE UNCHANGED vars
  <2>1. pc = "probe" => op \in HealthOps
    BY DEF Shape, Matching, HealthSteps
  <2> QED
    BY <1>6, <2>1, FoundedStays DEF vars, frame, inspection
<1> QED
  BY <1>1, <1>2, <1>3, <1>4, <1>5, <1>6, StepCases DEF Deadline

LEMMA HealthInit == Init => HealthInv
BY DEF Init, FrameInit, NoResult, HealthInv, Verdict, HealthyIsFounded, DegradedIsFounded

\* HealthyIsFounded: a check that ends in "success" has seen the container up and every
\* port of the request open, however container, ports and context change meanwhile.
THEOREM HealthyVerdicts == Spec => []HealthyIsFounded
<1>1. HealthInv => HealthyIsFounded
  BY DEF HealthInv
<1> QED
  BY <1>1, ShapeInit, ShapeNext, HealthInit, HealthNext, PTL DEF Spec

\* DegradedIsFounded: a check that ends in "degraded" has a reason, which is a container
\* that was not up, a port of the request that was shut or a context that ended.
THEOREM DegradedVerdicts == Spec => []DegradedIsFounded
<1>1. HealthInv => DegradedIsFounded
  BY DEF HealthInv
<1> QED
  BY <1>1, ShapeInit, ShapeNext, HealthInit, HealthNext, PTL DEF Spec
-----------------------------------------------------------------------------
Texts == Seq(Chars)

\* Lists of labels with at least one label.
LabelLists == {v \in Seq(Texts) : Len(v) >= 1}

\* How Split goes on with one more character.
NextLabels(v, c) ==
  IF c = "dot" THEN Append(v, <<>>) ELSE [v EXCEPT ![Len(v)] = Append(@, c)]

\* One more character leaves a list of labels.
LEMMA NextLabelsType ==
  ASSUME NEW v \in LabelLists, NEW c \in Chars
  PROVE  NextLabels(v, c) \in LabelLists
<1>1. <<>> \in Texts /\ \A t \in Texts : Append(t, c) \in Texts
  BY DEF Texts
<1> HIDE DEF Texts
<1>2. CASE c = "dot"
  BY <1>1, <1>2 DEF NextLabels, LabelLists
<1>3. CASE c # "dot"
  <2>1. v \in Seq(Texts) /\ Len(v) \in Nat /\ Len(v) >= 1 /\ v[Len(v)] \in Texts
    BY DEF LabelLists
  <2>2. Append(v[Len(v)], c) \in Texts
    BY <1>1, <2>1
  <2> QED
    BY <1>3, <2>1, <2>2 DEF NextLabels, LabelLists
<1> QED
  BY <1>2, <1>3

\* The recursive function in Labels exists: it satisfies its definition.
LEMMA LabelsEquation ==
  ASSUME NEW s \in Texts
  PROVE  Labels(s) = [n \in 0 .. Len(s) |->
                        IF n = 0 THEN << <<>> >> ELSE NextLabels(Labels(s)[n - 1], s[n])]
<1> DEFINE last == Len(s)
           V    == LabelLists
           step == [n \in 1 .. last |-> [v \in V |-> NextLabels(v, s[n])]]
           Def(f) == [n \in 0 .. last |->
                        IF n = 0 THEN << <<>> >> ELSE NextLabels(f[n - 1], s[n])]
<1>1. last \in Nat /\ \A n \in 1 .. last : s[n] \in Chars
  BY DEF Texts
<1>2. step \in [1 .. last -> [V -> V]]
  BY <1>1, NextLabelsType
<1>3. PICK f : IsLoop(f, V, << <<>> >>, last, step)
  <2>1. << <<>> >> \in V
    BY DEF LabelLists, Texts
  <2> HIDE DEF step, last, V
  <2> QED
    BY <1>1, <1>2, <2>1, LoopRecursion
<1>4. f = Def(f)
  <2>1. f = [n \in 0 .. last |-> f[n]]
    BY <1>3 DEF IsLoop
  <2>2. ASSUME NEW n \in 0 .. last, n # 0
        PROVE  f[n] = NextLabels(f[n - 1], s[n])
    <3>1. n \in 1 .. last /\ n - 1 \in 0 .. last
      BY <1>1, <2>2
    <3>2. f[n - 1] \in V /\ f[n] = step[n][f[n - 1]]
      BY <1>3, <3>1 DEF IsLoop
    <3> QED
      BY <3>1, <3>2
  <2> QED
    BY <1>3, <2>1, <2>2 DEF IsLoop
<1>5. Labels(s) = CHOOSE g : g = Def(g)
  BY DEF Labels, NextLabels
<1> HIDE DEF Def
<1>6. Labels(s) = Def(Labels(s))
  BY <1>4, <1>5
<1> QED
  BY <1>6 DEF Def

\* The same, step by step.
LEMMA LabelsStep ==
  ASSUME NEW s \in Texts
  PROVE  /\ Len(s) \in Nat
         /\ Labels(s)[0] = << <<>> >>
         /\ \A n \in 0 .. Len(s) - 1 : Labels(s)[n + 1] = NextLabels(Labels(s)[n], s[n + 1])
<1> DEFINE D == [n \in 0 .. Len(s) |->
                   IF n = 0 THEN << <<>> >> ELSE NextLabels(Labels(s)[n - 1], s[n])]
<1>1. Len(s) \in Nat
  BY DEF Texts
<1>2. D[0] = << <<>> >>
  BY <1>1
<1>3. ASSUME NEW n \in 0 .. Len(s) - 1 PROVE D[n + 1] = NextLabels(Labels(s)[n], s[n + 1])
  <2>1. n + 1 \in 0 .. Len(s) /\ n + 1 # 0 /\ (n + 1) - 1 = n
    BY <1>1
  <2> QED
    BY <2>1
<1>4. Labels(s) = D
  BY LabelsEquation, Zenon
<1> HIDE DEF D
<1> QED
  BY <1>1, <1>2, <1>3, <1>4
-----------------------------------------------------------------------------
\* The first n characters of s are good labels, told from neighbours as IsNormal does.
Proper(s, n) ==
  /\ n >= 1 /\ s[1] = "a" /\ s[n] = "a"
  /\ \A k \in 1 .. n : s[k] \in {"a", "hyphen", "dot"}
  /\ \A k \in 1 .. n - 1 : s[k] = "dot" => s[k + 1] = "a"
  /\ \A k \in 1 .. n - 1 : s[k + 1] = "dot" => s[k] = "a"
  /\ \A k \in 1 .. n - MaxLabel : \E j \in k .. k + MaxLabel : s[j] = "dot"

\* p is where the last dot among the first n characters is, 0 if there is none.
LastDot(s, p, n) ==
  /\ p \in 0 .. n
  /\ p = 0 \/ s[p] = "dot"
  /\ \A k \in p + 1 .. n : s[k] # "dot"

\* l is what comes after p.
Piece(l, s, p, n) ==
  /\ l \in Texts /\ Len(l) = n - p
  /\ \A k \in 1 .. n - p : l[k] = s[p + k]

\* What is before the last dot and the label after it are good if and only if the whole
\* is.
LEMMA ProperPieces ==
  ASSUME NEW s \in Texts, NEW n \in 0 .. Len(s), NEW p, LastDot(s, p, n),
         NEW l, Piece(l, s, p, n)
  PROVE  (p = 0 \/ Proper(s, p - 1)) /\ ~BadLabel(l) <=> Proper(s, n)
<1>0. /\ n \in Nat /\ p \in Nat /\ p <= n /\ MaxLabel \in Nat
      /\ Len(l) = n - p /\ l \in Texts
      /\ p = 0 \/ s[p] = "dot"
      /\ \A k \in p + 1 .. n : s[k] # "dot" /\ l[k - p] = s[k]
  <2>1. n \in Nat /\ p \in Nat /\ p <= n /\ MaxLabel \in Nat
    BY CertsAssumption DEF LastDot, Texts
  <2>2. ASSUME NEW k \in p + 1 .. n PROVE l[k - p] = s[k]
    <3>1. k - p \in 1 .. n - p /\ p + (k - p) = k
      BY <2>1
    <3> QED
      BY <3>1 DEF Piece
  <2> QED
    BY <2>1, <2>2 DEF LastDot, Piece
<1>1. ASSUME p = 0 \/ Proper(s, p - 1), ~BadLabel(l) PROVE Proper(s, n)
  <2>1. /\ n - p >= 1 /\ n - p <= MaxLabel /\ l[1] # "hyphen" /\ l[n - p] # "hyphen"
        /\ \A k \in 1 .. n - p : l[k] \in {"a", "hyphen"}
    BY <1>0, <1>1 DEF BadLabel, Last, Texts
  <2>2. s[p + 1] = "a" /\ s[n] = "a" /\ \A k \in p + 1 .. n : s[k] \in {"a", "hyphen"}
    <3>1. l[1] = "a" /\ l[n - p] = "a"
      BY <1>0, <2>1
    <3>2. s[p + 1] = l[1] /\ s[n] = l[n - p]
      BY <1>0, <2>1
    <3>3. ASSUME NEW k \in p + 1 .. n PROVE s[k] \in {"a", "hyphen"}
      <4>1. k - p \in 1 .. n - p /\ l[k - p] = s[k]
        BY <1>0
      <4> QED
        BY <2>1, <4>1
    <3> QED
      BY <3>1, <3>2, <3>3
  <2>3. p # 0 => p >= 2 /\ s[p - 1] = "a" /\ s[1] = "a"
    BY <1>0, <1>1 DEF Proper
  <2>4. s[1] = "a" /\ \A k \in 1 .. n : s[k] \in {"a", "hyphen", "dot"}
    BY <1>0, <1>1, <2>2, <2>3 DEF Proper
  <2>5. ASSUME NEW k \in 1 .. n - 1, s[k] = "dot" PROVE s[k + 1] = "a"
    BY <1>0, <1>1, <2>2, <2>3, <2>5 DEF Proper
  <2>6. ASSUME NEW k \in 1 .. n - 1, s[k + 1] = "dot" PROVE s[k] = "a"
    BY <1>0, <1>1, <2>2, <2>3, <2>6 DEF Proper
  <2>7. ASSUME NEW k \in 1 .. n - MaxLabel PROVE \E j \in k .. k + MaxLabel : s[j] = "dot"
    <3>1. k <= p
      BY <1>0, <2>1
    <3>2. CASE k + MaxLabel <= p - 1
      <4>1. p # 0 /\ k \in 1 .. (p - 1) - MaxLabel
        BY <1>0, <3>1, <3>2
      <4> QED
        BY <1>1, <4>1 DEF Proper
    <3>3. CASE k + MaxLabel >= p
      BY <1>0, <3>1, <3>3
    <3> QED
      BY <1>0, <3>2, <3>3
  <2> QED
    BY <1>0, <2>1, <2>2, <2>4, <2>5, <2>6, <2>7 DEF Proper
<1>2. ASSUME Proper(s, n) PROVE (p = 0 \/ Proper(s, p - 1)) /\ ~BadLabel(l)
  <2>1. p < n
    BY <1>0, <1>2 DEF Proper
  <2>2. p # 0 => p >= 2 /\ s[p - 1] = "a" /\ s[p + 1] = "a"
    <3> SUFFICES ASSUME p # 0 PROVE p >= 2 /\ s[p - 1] = "a" /\ s[p + 1] = "a"
      OBVIOUS
    <3>1. s[p] = "dot" /\ p # 1
      BY <1>0, <1>2 DEF Proper
    <3>2. p \in 1 .. n - 1 /\ p - 1 \in 1 .. n - 1 /\ (p - 1) + 1 = p
      BY <1>0, <2>1, <3>1
    <3> QED
      BY <1>2, <3>1, <3>2 DEF Proper
  <2>3. p # 0 => Proper(s, p - 1)
    <3> SUFFICES ASSUME p # 0 PROVE Proper(s, p - 1)
      OBVIOUS
    <3>1. p - 1 >= 1 /\ s[1] = "a" /\ s[p - 1] = "a"
      BY <1>0, <1>2, <2>2 DEF Proper
    <3>2. \A k \in 1 .. p - 1 : k \in 1 .. n
      BY <1>0
    <3>3. \A k \in 1 .. (p - 1) - 1 : k \in 1 .. n - 1
      BY <1>0
    <3>4. \A k \in 1 .. (p - 1) - MaxLabel : k \in 1 .. n - MaxLabel
      BY <1>0
    <3> QED
      BY <1>2, <3>1, <3>2, <3>3, <3>4 DEF Proper
  <2>4. n - p <= MaxLabel
    <3> SUFFICES ASSUME n - p > MaxLabel PROVE FALSE
      BY <1>0
    <3>1. p + 1 \in 1 .. n - MaxLabel
      BY <1>0
    <3>2. PICK j \in p + 1 .. p + 1 + MaxLabel : s[j] = "dot"
      BY <1>2, <3>1 DEF Proper
    <3> QED
      BY <1>0, <3>2
  <2>5. \A k \in 1 .. n - p : l[k] \in {"a", "hyphen"}
    <3> SUFFICES ASSUME NEW k \in 1 .. n - p PROVE l[k] \in {"a", "hyphen"}
      OBVIOUS
    <3>1. p + k \in p + 1 .. n /\ p + k \in 1 .. n /\ l[k] = s[p + k]
      BY <1>0 DEF Piece
    <3> QED
      BY <1>0, <1>2, <3>1 DEF Proper
  <2>6. l[1] = "a" /\ l[n - p] = "a"
    <3>1. l[1] = s[p + 1] /\ l[n - p] = s[n]
      BY <1>0, <2>1
    <3>2. s[p + 1] = "a"
      BY <1>0, <1>2, <2>2 DEF Proper
    <3> QED
      BY <1>2, <3>1, <3>2 DEF Proper
  <2>7. ~BadLabel(l)
    BY <1>0, <2>1, <2>4, <2>5, <2>6 DEF BadLabel, Last, Texts
  <2> QED
    BY <2>3, <2>7
<1> QED
  BY <1>1, <1>2

\* What Split has made of the first n characters: the label after the last dot, and
\* labels before it that are good if and only if the characters are.
SplitUpTo(s, n, p) ==
  LET v == Labels(s)[n]
  IN  /\ v \in LabelLists /\ LastDot(s, p, n)
      /\ Piece(v[Len(v)], s, p, n)
      /\ Len(v) >= 2 <=> p > 0
      /\ (\A m \in 1 .. Len(v) - 1 : ~BadLabel(v[m])) <=> (p = 0 \/ Proper(s, p - 1))

LEMMA SplitInvariant ==
  ASSUME NEW s \in Texts
  PROVE  \A n \in 0 .. Len(s) : \E p \in 0 .. n : SplitUpTo(s, n, p)
<1> DEFINE T == {n \in Nat : n <= Len(s) => \E p \in 0 .. n : SplitUpTo(s, n, p)}
<1>0. Len(s) \in Nat /\ \A k \in 1 .. Len(s) : s[k] \in Chars
  BY DEF Texts
<1>1. 0 \in T
  <2>1. Labels(s)[0] = << <<>> >>
    BY LabelsStep
  <2>2. << <<>> >> \in LabelLists /\ Len(<< <<>> >>) = 1 /\ << <<>> >>[1] = <<>>
    BY DEF LabelLists, Texts
  <2>3. LastDot(s, 0, 0) /\ Piece(<<>>, s, 0, 0)
    BY DEF LastDot, Piece, Texts
  <2>4. SplitUpTo(s, 0, 0)
    BY <2>1, <2>2, <2>3 DEF SplitUpTo
  <2> QED
    BY <2>4
<1>2. ASSUME NEW n \in Nat, n \in T PROVE n + 1 \in T
  <2> SUFFICES ASSUME n + 1 <= Len(s) PROVE \E p \in 0 .. n + 1 : SplitUpTo(s, n + 1, p)
    OBVIOUS
  <2>1. PICK p \in 0 .. n : SplitUpTo(s, n, p)
    BY <1>0, <1>2
  <2> DEFINE v == Labels(s)[n]
             w == Labels(s)[n + 1]
             c == s[n + 1]
             l == v[Len(v)]
  <2>2. /\ v \in LabelLists /\ LastDot(s, p, n) /\ Piece(l, s, p, n)
        /\ Len(v) >= 2 <=> p > 0
        /\ (\A m \in 1 .. Len(v) - 1 : ~BadLabel(v[m])) <=> (p = 0 \/ Proper(s, p - 1))
    BY <2>1 DEF SplitUpTo
  <2>3. c \in Chars /\ w = NextLabels(v, c) /\ n \in 0 .. Len(s)
    BY <1>0, LabelsStep
  <2>4. w \in LabelLists
    BY <2>2, <2>3, NextLabelsType
  <2>5. v \in Seq(Texts) /\ Len(v) \in Nat /\ Len(v) >= 1
    BY <2>2 DEF LabelLists
  <2> HIDE DEF v, w, c
  <2>6. CASE c = "dot"
    <3>1. w = Append(v, <<>>)
      BY <2>3, <2>6 DEF NextLabels
    <3>2. Len(w) = Len(v) + 1 /\ w[Len(w)] = <<>> /\ \A m \in 1 .. Len(v) : w[m] = v[m]
      BY <2>5, <3>1
    <3>3. LastDot(s, n + 1, n + 1) /\ Piece(<<>>, s, n + 1, n + 1)
      BY <2>6 DEF LastDot, Piece, Texts, c
    <3>4. (\A m \in 1 .. Len(w) - 1 : ~BadLabel(w[m]))
            <=> (\A m \in 1 .. Len(v) - 1 : ~BadLabel(v[m])) /\ ~BadLabel(l)
      BY <2>5, <3>2
    <3>5. (p = 0 \/ Proper(s, p - 1)) /\ ~BadLabel(l) <=> Proper(s, n)
      BY <2>2, <2>3, ProperPieces
    <3>6. (n + 1) - 1 = n /\ n + 1 # 0
      OBVIOUS
    <3>7. SplitUpTo(s, n + 1, n + 1)
      BY <2>2, <2>4, <2>5, <3>2, <3>3, <3>4, <3>5, <3>6 DEF SplitUpTo, w
    <3> QED
      BY <3>7
  <2>7. CASE c # "dot"
    <3>1. w = [v EXCEPT ![Len(v)] = Append(l, c)]
      BY <2>3, <2>7 DEF NextLabels
    <3>2. Len(w) = Len(v) /\ w[Len(w)] = Append(l, c) /\ \A m \in 1 .. Len(v) - 1 : w[m] = v[m]
      BY <2>5, <3>1
    <3>3. LastDot(s, p, n + 1)
      BY <2>2, <2>7 DEF LastDot, c
    <3>4. Piece(Append(l, c), s, p, n + 1)
      <4>1. l \in Texts /\ Len(l) = n - p /\ \A k \in 1 .. n - p : l[k] = s[p + k]
        BY <2>2 DEF Piece
      <4> HIDE DEF l
      <4>2. Append(l, c) \in Texts /\ Len(Append(l, c)) = (n + 1) - p
        BY <2>3, <4>1 DEF Texts
      <4>3. ASSUME NEW k \in 1 .. (n + 1) - p PROVE Append(l, c)[k] = s[p + k]
        BY <4>1 DEF Texts, c
      <4> QED
        BY <4>2, <4>3 DEF Piece
    <3>5. (\A m \in 1 .. Len(w) - 1 : ~BadLabel(w[m]))
            <=> (\A m \in 1 .. Len(v) - 1 : ~BadLabel(v[m]))
      BY <3>2
    <3>6. SplitUpTo(s, n + 1, p)
      BY <2>2, <2>4, <3>2, <3>3, <3>4, <3>5 DEF SplitUpTo, w
    <3> QED
      BY <3>6
  <2> QED
    BY <2>6, <2>7
<1> HIDE DEF T
<1>3. Nat \subseteq T
  BY <1>1, <1>2, NatSetInduction
<1> QED
  BY <1>0, <1>3 DEF T

\* The checks of normalizeDomain.
Refused(d) ==
  \/ d = <<>> \/ Len(d) > MaxDomain \/ Len(Split(d)) < 2
  \/ \E m \in DOMAIN Split(d) : BadLabel(Split(d)[m])

\* They refuse what is not normal, as IsNormal tells it, and nothing else.
LEMMA ChecksAreNormal == ASSUME NEW d \in Texts PROVE ~Refused(d) <=> IsNormal(d)
<1> DEFINE n == Len(d)
           v == Split(d)
           l == v[Len(v)]
<1>0. n \in Nat /\ MaxLabel \in Nat /\ MaxDomain \in Nat
  BY CertsAssumption DEF Texts
<1>1. PICK p \in 0 .. n : SplitUpTo(d, n, p)
  BY <1>0, SplitInvariant
<1>2. /\ v \in LabelLists /\ LastDot(d, p, n) /\ Piece(l, d, p, n)
      /\ Len(v) >= 2 <=> p > 0
      /\ (\A m \in 1 .. Len(v) - 1 : ~BadLabel(v[m])) <=> (p = 0 \/ Proper(d, p - 1))
  BY <1>1 DEF SplitUpTo, Split
<1>3. DOMAIN v = 1 .. Len(v) /\ Len(v) \in Nat /\ Len(v) >= 1
  BY <1>2 DEF LabelLists
<1> HIDE DEF v, n
<1>4. (\A m \in DOMAIN v : ~BadLabel(v[m])) <=> Proper(d, n)
  <2>1. (\A m \in DOMAIN v : ~BadLabel(v[m]))
          <=> (\A m \in 1 .. Len(v) - 1 : ~BadLabel(v[m])) /\ ~BadLabel(l)
    BY <1>3
  <2>2. n \in 0 .. Len(d)
    BY <1>0 DEF n
  <2> QED
    BY <1>2, <2>1, <2>2, ProperPieces
<1>5. p > 0 <=> "dot" \in Range(d)
  <2>1. Range(d) = {d[k] : k \in 1 .. n}
    BY DEF Range, Texts, n
  <2> QED
    BY <1>0, <1>2, <2>1 DEF LastDot
<1>6. IsNormal(d) <=> Proper(d, n) /\ n <= MaxDomain /\ "dot" \in Range(d)
  <2>1. Range(d) \subseteq {"a", "hyphen", "dot"} <=> \A k \in 1 .. n : d[k] \in {"a", "hyphen", "dot"}
    BY DEF Range, Texts, n
  <2>2. d # <<>> <=> n >= 1
    BY <1>0 DEF Texts, n
  <2> QED
    BY <2>1, <2>2 DEF IsNormal, Proper, Last, n
<1>7. ~Refused(d) <=> /\ d # <<>> /\ n <= MaxDomain /\ Len(v) >= 2
                      /\ \A m \in DOMAIN v : ~BadLabel(v[m])
  BY <1>0, <1>3 DEF Refused, v, n
<1>8. Proper(d, n) => d # <<>>
  BY DEF Proper, n
<1> QED
  BY <1>2, <1>4, <1>5, <1>6, <1>7, <1>8
-----------------------------------------------------------------------------
\* Min and Max of a set of positions are in it and bound it.
LEMMA GreatestOf ==
  ASSUME NEW N \in Nat, NEW S, S \subseteq 1 .. N, S # {}
  PROVE  /\ Min(S) \in S /\ \A x \in S : Min(S) <= x
         /\ Max(S) \in S /\ \A x \in S : Max(S) >= x
<1>0. S \subseteq Nat
  OBVIOUS
<1>1. \E x \in S : \A y \in S : x <= y
  BY <1>0, LeastNatural
<1>2. \E x \in S : \A y \in S : x >= y
  <2> DEFINE R == {N - x : x \in S}
  <2>1. R \subseteq Nat /\ R # {}
    <3>1. \A x \in S : N - x \in Nat
      OBVIOUS
    <3>2. PICK x \in S : TRUE
      OBVIOUS
    <3> QED
      BY <3>1, <3>2
  <2>2. PICK m \in R : \A r \in R : m <= r
    BY <2>1, LeastNatural
  <2>3. PICK x \in S : m = N - x
    BY <2>2
  <2>4. ASSUME NEW y \in S PROVE x >= y
    <3>1. N - x <= N - y
      BY <2>2, <2>3
    <3>2. x \in Int /\ y \in Int /\ N \in Int
      OBVIOUS
    <3> QED
      BY <3>1, <3>2
  <2> QED
    BY <2>3, <2>4
<1>3. Min(S) \in S /\ \A x \in S : Min(S) <= x
  BY <1>1 DEF Min
<1>4. Max(S) \in S /\ \A x \in S : Max(S) >= x
  BY <1>2 DEF Max
<1> QED
  BY <1>3, <1>4

\* ToLower changes the capitals.
LEMMA LowerText ==
  ASSUME NEW s \in Texts
  PROVE  /\ ToLower(s) \in Texts /\ Len(ToLower(s)) = Len(s)
         /\ \A k \in 1 .. Len(s) : ToLower(s)[k] = IF s[k] = "A" THEN "a" ELSE s[k]
<1>1. Len(s) \in Nat /\ DOMAIN s = 1 .. Len(s) /\ \A k \in 1 .. Len(s) : s[k] \in Chars
  BY DEF Texts
<1>2. ToLower(s) \in [1 .. Len(s) -> Chars]
  BY <1>1 DEF ToLower, Chars
<1> QED
  BY <1>1, <1>2 DEF Texts, ToLower

\* The text between i and j has nothing but white space around it.
Trimmed(raw, i, j) ==
  /\ i \in 1 .. Len(raw) /\ j \in i .. Len(raw)
  /\ raw[i] # "space" /\ raw[j] # "space"
  /\ \A k \in 1 .. i - 1 : raw[k] = "space"
  /\ \A k \in j + 1 .. Len(raw) : raw[k] = "space"

LEMMA TrimSpaceTrims ==
  ASSUME NEW raw \in Texts
  PROVE  \/ TrimSpace(raw) = <<>> /\ \A k \in 1 .. Len(raw) : raw[k] = "space"
         \/ \E i, j \in 1 .. Len(raw) : Trimmed(raw, i, j) /\ TrimSpace(raw) = SubSeq(raw, i, j)
<1> DEFINE solid == {k \in DOMAIN raw : raw[k] # "space"}
<1>1. Len(raw) \in Nat /\ DOMAIN raw = 1 .. Len(raw)
  BY DEF Texts
<1>2. CASE solid = {}
  BY <1>1, <1>2 DEF TrimSpace
<1>3. CASE solid # {}
  <2> DEFINE i == Min(solid)
             j == Max(solid)
  <2>1. TrimSpace(raw) = SubSeq(raw, i, j)
    BY <1>3 DEF TrimSpace
  <2>2. /\ i \in solid /\ \A k \in solid : i <= k
        /\ j \in solid /\ \A k \in solid : j >= k
    <3> HIDE DEF i, j
    <3>1. solid \subseteq 1 .. Len(raw)
      BY <1>1
    <3> HIDE DEF solid
    <3> QED
      BY <1>1, <1>3, <3>1, GreatestOf DEF i, j
  <2> HIDE DEF i, j
  <2>3. Trimmed(raw, i, j)
    BY <1>1, <2>2 DEF Trimmed
  <2> QED
    BY <1>1, <2>1, <2>2, <2>3
<1> QED
  BY <1>2, <1>3

\* Texts that are equal character by character are equal.
LEMMA SameText ==
  ASSUME NEW s \in Texts, NEW t \in Texts, Len(s) = Len(t), \A k \in 1 .. Len(s) : s[k] = t[k]
  PROVE  s = t
BY DEF Texts

\* A part of a text.
LEMMA PartOf ==
  ASSUME NEW s \in Texts, NEW i \in 1 .. Len(s), NEW j \in i - 1 .. Len(s)
  PROVE  /\ SubSeq(s, i, j) \in Texts /\ Len(SubSeq(s, i, j)) = j - i + 1
         /\ \A k \in 1 .. j - i + 1 : SubSeq(s, i, j)[k] = s[i + k - 1]
BY DEF Texts

\* A text without the dot at its end.
LEMMA TrimSuffixPart ==
  ASSUME NEW s \in Texts, NEW i \in 1 .. Len(s), NEW j \in i .. Len(s)
  PROVE  TrimSuffix(SubSeq(s, i, j)) = SubSeq(s, i, IF s[j] = "dot" THEN j - 1 ELSE j)
<1> DEFINE t == SubSeq(s, i, j)
<1>1. t \in Texts /\ Len(t) = j - i + 1 /\ \A k \in 1 .. j - i + 1 : t[k] = s[i + k - 1]
  BY PartOf
<1>2. /\ Len(s) \in Nat /\ i \in Nat /\ j \in Nat /\ i >= 1 /\ j >= i /\ j <= Len(s)
      /\ j - i + 1 \in 1 .. j - i + 1 /\ i + (j - i + 1) - 1 = j
  BY DEF Texts
<1>3. t # <<>> /\ Last(t) = s[j]
  BY <1>1, <1>2 DEF Last, Texts
<1>4. CASE s[j] # "dot"
  BY <1>3, <1>4 DEF TrimSuffix
<1>5. CASE s[j] = "dot"
  <2>1. TrimSuffix(t) = SubSeq(t, 1, (j - i + 1) - 1)
    BY <1>1, <1>3, <1>5 DEF TrimSuffix, Front
  <2> DEFINE u == SubSeq(s, i, j - 1)
             w == SubSeq(t, 1, (j - i + 1) - 1)
  <2>2. u \in Texts /\ Len(u) = j - i /\ \A k \in 1 .. j - i : u[k] = s[i + k - 1]
    BY <1>2 DEF Texts
  <2>3. w \in Texts /\ Len(w) = j - i /\ \A k \in 1 .. j - i : w[k] = t[k]
    BY <1>1, <1>2 DEF Texts
  <2> HIDE DEF t, u, w
  <2>4. \A k \in 1 .. j - i : w[k] = u[k]
    BY <1>1, <1>2, <2>2, <2>3
  <2>5. w = u
    BY <2>2, <2>3, <2>4, SameText
  <2> QED
    BY <1>5, <2>1, <2>5 DEF t, u, w
<1> QED
  BY <1>4, <1>5
-----------------------------------------------------------------------------
\* The name that the checks of normalizeDomain are about.
Core(raw) == ToLower(TrimSuffix(TrimSpace(raw)))

\* normalizeDomain in these terms.
LEMMA NormalizeIs == \A raw : normalizeDomain(raw) = IF Refused(Core(raw)) THEN None ELSE Core(raw)
BY DEF normalizeDomain, Refused, Core

\* j ends the domain that i begins: before i is white space, after j too, but for a dot.
Surrounded(raw, i, j) ==
  /\ i \in 1 .. Len(raw) /\ j \in 1 .. Len(raw)
  /\ \A k \in 1 .. i - 1 : raw[k] = "space"
  /\ \A k \in j + 1 .. Len(raw) : raw[k] = "space" \/ (k = j + 1 /\ raw[k] = "dot")

\* A text names d if and only if it has d in it, with nothing else around it.
LEMMA NamedByIs ==
  ASSUME NEW raw, NEW d
  PROVE  d \in NamedBy(raw) <=>
           IsNormal(d) /\ \E i, j \in 1 .. Len(raw) : Surrounded(raw, i, j) /\ d = ToLower(SubSeq(raw, i, j))
BY DEF NamedBy, Surrounded

\* The ends of a normal domain are letters in the text that names it.
LEMMA NormalEnds ==
  ASSUME NEW raw \in Texts, NEW i \in 1 .. Len(raw), NEW j \in 1 .. Len(raw),
         IsNormal(ToLower(SubSeq(raw, i, j)))
  PROVE  i <= j /\ raw[i] \in {"a", "A"} /\ raw[j] \in {"a", "A"}
<1> DEFINE t == SubSeq(raw, i, j)
           d == ToLower(t)
<1>0. i \in Nat /\ j \in Nat /\ Len(raw) \in Nat
  BY DEF Texts
<1>1. i <= j
  <2> SUFFICES ASSUME j < i PROVE FALSE
    BY <1>0
  <2>1. t = <<>>
    BY <1>0 DEF Texts
  <2>2. d = <<>>
    BY <2>1 DEF ToLower
  <2> QED
    BY <2>2 DEF IsNormal
<1>2. t \in Texts /\ Len(t) = j - i + 1 /\ \A k \in 1 .. j - i + 1 : t[k] = raw[i + k - 1]
  BY <1>0, <1>1, PartOf
<1>3. t[1] = raw[i] /\ t[Len(t)] = raw[j] /\ Len(t) \in 1 .. Len(t) /\ 1 \in 1 .. Len(t)
  <2>1. /\ 1 \in 1 .. j - i + 1 /\ j - i + 1 \in 1 .. j - i + 1
        /\ i + 1 - 1 = i /\ i + (j - i + 1) - 1 = j
    BY <1>0, <1>1
  <2> QED
    BY <1>2, <2>1
<1> HIDE DEF t
<1>4. /\ Len(d) = Len(t)
      /\ \A k \in 1 .. Len(t) : d[k] = IF t[k] = "A" THEN "a" ELSE t[k]
  BY <1>2, LowerText
<1>5. d[1] = "a" /\ d[Len(d)] = "a"
  BY DEF IsNormal, Last, t
<1> HIDE DEF d
<1> QED
  BY <1>1, <1>3, <1>4, <1>5

\* What normalizeDomain cuts out is what a text names, if it names anything.
LEMMA CoreIsNamed ==
  ASSUME NEW raw \in Texts
  PROVE  /\ Core(raw) \in Texts
         /\ NamedBy(raw) = IF IsNormal(Core(raw)) THEN {Core(raw)} ELSE {}
<1>0. Len(raw) \in Nat /\ \A k \in 1 .. Len(raw) : raw[k] \in Chars
  BY DEF Texts
<1>1. CASE TrimSpace(raw) = <<>> /\ \A k \in 1 .. Len(raw) : raw[k] = "space"
  <2>1. Core(raw) = <<>>
    BY <1>1 DEF Core, TrimSuffix, ToLower
  <2>2. ASSUME NEW d \in NamedBy(raw) PROVE FALSE
    <3>1. PICK i, j \in 1 .. Len(raw) : IsNormal(d) /\ d = ToLower(SubSeq(raw, i, j))
      BY <2>2, NamedByIs
    <3>2. raw[i] \in {"a", "A"}
      BY <3>1, NormalEnds
    <3> QED
      BY <1>1, <3>2
  <2> QED
    BY <2>1, <2>2 DEF IsNormal, Texts
<1>2. ASSUME NEW i0 \in 1 .. Len(raw), NEW j0 \in 1 .. Len(raw), Trimmed(raw, i0, j0),
             TrimSpace(raw) = SubSeq(raw, i0, j0)
      PROVE  /\ Core(raw) \in Texts
             /\ NamedBy(raw) = IF IsNormal(Core(raw)) THEN {Core(raw)} ELSE {}
  <2> DEFINE e == IF raw[j0] = "dot" THEN j0 - 1 ELSE j0
  <2>1. /\ i0 \in Nat /\ j0 \in Nat /\ i0 >= 1 /\ i0 <= j0 /\ j0 <= Len(raw)
        /\ raw[i0] # "space" /\ raw[j0] # "space"
        /\ \A k \in 1 .. i0 - 1 : raw[k] = "space"
        /\ \A k \in j0 + 1 .. Len(raw) : raw[k] = "space"
    BY <1>0, <1>2 DEF Trimmed
  <2>2. Core(raw) = ToLower(SubSeq(raw, i0, e))
    <3>1. j0 \in i0 .. Len(raw)
      BY <1>0, <2>1
    <3> QED
      BY <1>2, <3>1, TrimSuffixPart DEF Core
  <2>3. e \in i0 - 1 .. Len(raw)
    BY <1>0, <2>1
  <2>4. Core(raw) \in Texts
    BY <2>2, <2>3, PartOf, LowerText
  <2>5. ASSUME IsNormal(Core(raw)) PROVE Core(raw) \in NamedBy(raw)
    <3>1. e >= i0
      <4> SUFFICES ASSUME e < i0 PROVE FALSE
        BY <1>0, <2>1, <2>3
      <4>1. Len(SubSeq(raw, i0, e)) = 0 /\ SubSeq(raw, i0, e) \in Texts
        BY <1>0, <2>1, <2>3, PartOf
      <4>2. Len(Core(raw)) = 0
        BY <2>2, <4>1, LowerText
      <4>3. Core(raw) = <<>>
        BY <2>4, <4>2 DEF Texts
      <4> QED
        BY <2>5, <4>3 DEF IsNormal
    <3>2. e \in 1 .. Len(raw)
      BY <1>0, <2>1, <2>3, <3>1
    <3>3. Surrounded(raw, i0, e)
      <4>1. ASSUME NEW k \in e + 1 .. Len(raw)
            PROVE  raw[k] = "space" \/ (k = e + 1 /\ raw[k] = "dot")
        BY <1>0, <2>1
      <4> QED
        BY <2>1, <3>2, <4>1 DEF Surrounded
    <3> QED
      BY <2>2, <2>5, <3>2, <3>3, NamedByIs
  <2>6. ASSUME NEW d \in NamedBy(raw) PROVE d = Core(raw) /\ IsNormal(d)
    <3>1. PICK i, j \in 1 .. Len(raw) :
            IsNormal(d) /\ Surrounded(raw, i, j) /\ d = ToLower(SubSeq(raw, i, j))
      BY <2>6, NamedByIs
    <3>2. i <= j /\ raw[i] \in {"a", "A"} /\ raw[j] \in {"a", "A"}
      BY <3>1, NormalEnds
    <3>3. /\ \A k \in 1 .. i - 1 : raw[k] = "space"
          /\ \A k \in j + 1 .. Len(raw) : raw[k] = "space" \/ (k = j + 1 /\ raw[k] = "dot")
      BY <3>1 DEF Surrounded
    <3>4. i = i0
      <4>1. ~(i < i0)
        BY <1>0, <2>1, <3>2
      <4>2. ~(i0 < i)
        BY <1>0, <2>1, <3>3
      <4> QED
        BY <1>0, <4>1, <4>2
    <3>5. j = e
      <4>1. ~(j > j0)
        BY <1>0, <2>1, <3>2
      <4>2. j0 > j => j0 = j + 1 /\ raw[j0] = "dot"
        BY <1>0, <2>1, <3>3
      <4>3. j = j0 => raw[j0] # "dot"
        BY <3>2
      <4> QED
        BY <1>0, <4>1, <4>2, <4>3
    <3> QED
      BY <2>2, <3>1, <3>4, <3>5
  <2> QED
    BY <2>4, <2>5, <2>6
<1> QED
  BY <1>1, <1>2, TrimSpaceTrims

\* normalizeDomain returns the domain that a text names, or an error if it names none.
LEMMA NormalizeNames ==
  ASSUME NEW raw \in Texts
  PROVE  /\ normalizeDomain(raw) \in Texts \cup {None}
         /\ NamedBy(raw) = IF normalizeDomain(raw) = None THEN {} ELSE {normalizeDomain(raw)}
         /\ normalizeDomain(raw) # None => IsNormal(normalizeDomain(raw))
<1>1. None \notin Texts
  BY CertsAssumption DEF Texts
<1> QED
  BY <1>1, CoreIsNamed, ChecksAreNormal, NormalizeIs

\* A normal domain is left as it is.
LEMMA NormalNamesItself ==
  ASSUME NEW d \in Texts, IsNormal(d)
  PROVE  normalizeDomain(d) = d
<1> DEFINE n == Len(d)
<1>0. n \in Nat /\ n >= 1
  BY DEF IsNormal, Texts
<1>1. \A k \in 1 .. n : d[k] \in {"a", "hyphen", "dot"}
  <2>1. DOMAIN d = 1 .. n
    BY DEF Texts
  <2>2. Range(d) \subseteq {"a", "hyphen", "dot"}
    BY DEF IsNormal
  <2> QED
    BY <2>1, <2>2 DEF Range
<1>2. SubSeq(d, 1, n) = d
  BY <1>0 DEF Texts
<1>3. ToLower(d) = d
  <2>1. ToLower(d) \in Texts /\ Len(ToLower(d)) = n /\ \A k \in 1 .. n : ToLower(d)[k] = d[k]
    BY <1>1, LowerText
  <2> QED
    BY <2>1, SameText
<1>4. Surrounded(d, 1, n)
  BY <1>0 DEF Surrounded
<1>5. d \in NamedBy(d)
  <2>1. 1 \in 1 .. n /\ n \in 1 .. n
    BY <1>0
  <2>2. d = ToLower(SubSeq(d, 1, n))
    BY <1>2, <1>3, Zenon
  <2> QED
    BY <1>4, <2>1, <2>2, NamedByIs
<1> QED
  BY <1>5, NormalizeNames
-----------------------------------------------------------------------------
\* What normalizeDomains has so far.
Lists == Seq(Texts) \cup {None}

\* One more domain leaves a list, or an error.
LEMMA AddDomainType ==
  ASSUME NEW v \in Lists, NEW d \in Texts \cup {None}
  PROVE  AddDomain(v, d) \in Lists
<1>1. CASE v = None \/ d = None
  BY <1>1 DEF AddDomain, Lists
<1>2. CASE v # None /\ d # None
  <2>1. v \in Seq(Texts) /\ d \in Texts
    BY <1>2 DEF Lists
  <2>2. AddDomain(v, d) = v \/ AddDomain(v, d) = Append(v, d)
    BY <1>2 DEF AddDomain
  <2> HIDE DEF Texts
  <2>3. Append(v, d) \in Seq(Texts)
    BY <2>1
  <2> QED
    BY <2>1, <2>2, <2>3 DEF Lists
<1> QED
  BY <1>1, <1>2

\* The recursive function in Collected exists: it satisfies its definition.
LEMMA CollectedEquation ==
  ASSUME NEW primary \in Texts, NEW extra \in Seq(Texts)
  PROVE  Collected(primary, extra) =
           [n \in 0 .. Len(extra) |->
              IF n = 0 THEN <<primary>>
              ELSE AddDomain(Collected(primary, extra)[n - 1], normalizeDomain(extra[n]))]
<1> HIDE DEF Texts
<1> DEFINE last == Len(extra)
           step == [n \in 1 .. last |-> [v \in Lists |-> AddDomain(v, normalizeDomain(extra[n]))]]
           Def(f) == [n \in 0 .. last |->
                        IF n = 0 THEN <<primary>>
                        ELSE AddDomain(f[n - 1], normalizeDomain(extra[n]))]
<1>1. last \in Nat /\ \A n \in 1 .. last : extra[n] \in Texts
  OBVIOUS
<1>2. step \in [1 .. last -> [Lists -> Lists]]
  BY <1>1, AddDomainType, NormalizeNames
<1>3. PICK f : IsLoop(f, Lists, <<primary>>, last, step)
  <2>1. <<primary>> \in Lists
    BY DEF Lists
  <2> HIDE DEF step, last
  <2> QED
    BY <1>1, <1>2, <2>1, LoopRecursion
<1>4. f = Def(f)
  <2>1. f = [n \in 0 .. last |-> f[n]]
    BY <1>3 DEF IsLoop
  <2>2. ASSUME NEW n \in 0 .. last, n # 0
        PROVE  f[n] = AddDomain(f[n - 1], normalizeDomain(extra[n]))
    <3>1. n \in 1 .. last /\ n - 1 \in 0 .. last
      BY <1>1, <2>2
    <3>2. f[n - 1] \in Lists /\ f[n] = step[n][f[n - 1]]
      BY <1>3, <3>1 DEF IsLoop
    <3> QED
      BY <3>1, <3>2
  <2> QED
    BY <1>3, <2>1, <2>2 DEF IsLoop
<1>5. Collected(primary, extra) = CHOOSE g : g = Def(g)
  BY DEF Collected
<1> HIDE DEF Def
<1>6. Collected(primary, extra) = Def(Collected(primary, extra))
  BY <1>4, <1>5
<1> QED
  BY <1>6 DEF Def

\* The list after the first n texts.
Listed(v, primary, extra, n) ==
  IF \E m \in 1 .. n : NamedBy(extra[m]) = {}
  THEN v = None
  ELSE /\ v \in Seq(Texts) /\ Len(v) >= 1 /\ v[1] = primary
       /\ Range(v) = {primary} \cup UNION {NamedBy(extra[m]) : m \in 1 .. n}
       /\ \A a, b \in 1 .. Len(v) : v[a] = v[b] => a = b

\* Every prefix of the texts is listed as it should be.
LEMMA ListedInvariant ==
  ASSUME NEW primary \in Texts, NEW extra \in Seq(Texts)
  PROVE  \A n \in 0 .. Len(extra) : Listed(Collected(primary, extra)[n], primary, extra, n)
<1> DEFINE T == {n \in Nat : n <= Len(extra) =>
                               Listed(Collected(primary, extra)[n], primary, extra, n)}
           D == [n \in 0 .. Len(extra) |->
                   IF n = 0 THEN <<primary>>
                   ELSE AddDomain(Collected(primary, extra)[n - 1], normalizeDomain(extra[n]))]
<1>0. Len(extra) \in Nat
  OBVIOUS
<1>1. Collected(primary, extra) = D
  BY CollectedEquation, Zenon
<1>2. 0 \in T
  <2>1. D[0] = <<primary>>
    BY <1>0
  <2>2. /\ <<primary>> \in Seq(Texts) /\ Len(<<primary>>) = 1 /\ <<primary>>[1] = primary
        /\ Range(<<primary>>) = {primary}
    BY DEF Range
  <2>3. Listed(<<primary>>, primary, extra, 0)
    BY <2>2 DEF Listed
  <2> QED
    BY <1>1, <2>1, <2>3
<1>3. ASSUME NEW n \in Nat, n \in T PROVE n + 1 \in T
  <2> SUFFICES ASSUME n + 1 <= Len(extra)
               PROVE  Listed(Collected(primary, extra)[n + 1], primary, extra, n + 1)
    OBVIOUS
  <2> DEFINE v == Collected(primary, extra)[n]
             w == Collected(primary, extra)[n + 1]
             t == extra[n + 1]
             d == normalizeDomain(t)
  <2>1. Listed(v, primary, extra, n)
    BY <1>0, <1>3
  <2>2. w = AddDomain(v, d)
    <3>1. n + 1 \in 0 .. Len(extra) /\ n + 1 # 0 /\ (n + 1) - 1 = n
      BY <1>0
    <3>2. D[n + 1] = AddDomain(v, d)
      BY <3>1
    <3> QED
      BY <1>1, <3>2
  <2>3. t \in Texts
    BY <1>0
  <2>4. /\ d \in Texts \cup {None}
        /\ NamedBy(t) = IF d = None THEN {} ELSE {d}
    BY <2>3, NormalizeNames
  <2>5. (\E m \in 1 .. n + 1 : NamedBy(extra[m]) = {})
          <=> (\E m \in 1 .. n : NamedBy(extra[m]) = {}) \/ NamedBy(t) = {}
    OBVIOUS
  <2> DEFINE U == UNION {NamedBy(extra[m]) : m \in 1 .. n}
             W == UNION {NamedBy(extra[m]) : m \in 1 .. n + 1}
  <2>6. W = U \cup NamedBy(t)
    <3>1. \A x : x \in U <=> \E m \in 1 .. n : x \in NamedBy(extra[m])
      OBVIOUS
    <3>2. \A x : x \in W <=> \E m \in 1 .. n + 1 : x \in NamedBy(extra[m])
      OBVIOUS
    <3> HIDE DEF U, W
    <3>3. \A x : x \in W <=> x \in U \/ x \in NamedBy(t)
      BY <3>1, <3>2
    <3> QED
      BY <3>3
  <2>7. None \notin Texts /\ None \notin Seq(Texts)
    BY CertsAssumption DEF Texts
  <2> HIDE DEF T, D, v, w, t, d, U, W, Texts
  <2>8. CASE \E m \in 1 .. n : NamedBy(extra[m]) = {}
    BY <2>1, <2>2, <2>5, <2>8 DEF Listed, AddDomain, w
  <2>9. CASE d = None
    <3>1. NamedBy(t) = {}
      BY <2>4, <2>9
    <3>2. w = None
      BY <2>2, <2>9 DEF AddDomain
    <3> QED
      BY <2>5, <3>1, <3>2 DEF Listed, w
  <2>10. CASE ~(\E m \in 1 .. n : NamedBy(extra[m]) = {}) /\ d # None
    <3> DEFINE R == {primary} \cup U
    <3>1. /\ v \in Seq(Texts) /\ Len(v) >= 1 /\ v[1] = primary /\ Range(v) = R
          /\ \A a, b \in 1 .. Len(v) : v[a] = v[b] => a = b
      BY <2>1, <2>10 DEF Listed, U
    <3>2. d \in Texts /\ NamedBy(t) = {d}
      BY <2>4, <2>10
    <3>3. R \cup {d} = {primary} \cup W
      BY <2>6, <3>2
    <3>4. ~(\E m \in 1 .. n + 1 : NamedBy(extra[m]) = {})
      BY <2>5, <2>10, <3>2
    <3> HIDE DEF R
    <3>5. Len(v) \in Nat /\ DOMAIN v = 1 .. Len(v)
      BY <3>1
    <3>6. Range(v) = {v[k] : k \in 1 .. Len(v)}
      BY <3>5 DEF Range
    <3>7. CASE Contains(v, d)
      <4>1. w = v
        BY <2>2, <2>7, <2>10, <3>1, <3>7 DEF AddDomain
      <4>2. d \in R
        BY <3>1, <3>6, <3>7 DEF Contains
      <4>3. R \cup {d} = R
        BY <4>2
      <4> QED
        BY <3>1, <3>3, <3>4, <4>1, <4>3 DEF Listed, w, W
    <3>8. CASE ~Contains(v, d)
      <4>1. w = Append(v, d)
        BY <2>2, <2>7, <2>10, <3>1, <3>8 DEF AddDomain
      <4>2. /\ w \in Seq(Texts) /\ Len(w) = Len(v) + 1 /\ w[Len(v) + 1] = d
            /\ \A k \in 1 .. Len(v) : w[k] = v[k]
        BY <3>1, <3>2, <4>1
      <4>3. \A k \in 1 .. Len(v) : v[k] # d
        BY <3>8 DEF Contains
      <4>4. Range(w) = R \cup {d}
        <5>1. DOMAIN w = 1 .. Len(v) \cup {Len(v) + 1}
          BY <3>5, <4>2
        <5> QED
          BY <3>1, <3>6, <4>2, <5>1 DEF Range
      <4>5. \A a, b \in 1 .. Len(w) : w[a] = w[b] => a = b
        BY <3>1, <3>5, <4>2, <4>3
      <4>6. Len(w) >= 1 /\ w[1] = primary
        BY <3>1, <3>5, <4>2
      <4> QED
        BY <3>3, <3>4, <4>2, <4>4, <4>5, <4>6 DEF Listed, w, W
    <3> QED
      BY <3>7, <3>8
  <2> QED
    BY <2>8, <2>9, <2>10
<1> HIDE DEF T
<1>4. Nat \subseteq T
  BY <1>2, <1>3, NatSetInduction
<1> QED
  BY <1>0, <1>4 DEF T

\* normalizeDomains, as DomainsAreDistinct states it.
LEMMA DomainsOf ==
  ASSUME NEW primary \in Texts, NEW extra \in Seq(Texts)
  PROVE  LET domains == normalizeDomains(primary, extra)
         IN  IF \E t \in Range(extra) : NamedBy(t) = {}
             THEN domains = None
             ELSE /\ domains \in Seq(Texts) /\ domains[1] = primary
                  /\ Range(domains) = {primary} \cup UNION {NamedBy(t) : t \in Range(extra)}
                  /\ Len(domains) = Cardinality(Range(domains))
<1> DEFINE v == normalizeDomains(primary, extra)
           n == Len(extra)
<1>0. n \in Nat /\ DOMAIN extra = 1 .. n
  OBVIOUS
<1>1. Listed(v, primary, extra, n)
  <2>1. n \in 0 .. n
    BY <1>0
  <2> QED
    BY <2>1, ListedInvariant DEF normalizeDomains
<1>2. Range(extra) = {extra[m] : m \in 1 .. n}
  BY <1>0 DEF Range
<1> HIDE DEF v, n, Texts
<1>3. (\E t \in Range(extra) : NamedBy(t) = {}) <=> \E m \in 1 .. n : NamedBy(extra[m]) = {}
  BY <1>2
<1>4. UNION {NamedBy(t) : t \in Range(extra)} = UNION {NamedBy(extra[m]) : m \in 1 .. n}
  <2> HIDE DEF NamedBy
  <2> QED
    BY <1>2
<1>5. ASSUME v \in Seq(Texts), \A a, b \in 1 .. Len(v) : v[a] = v[b] => a = b
      PROVE  Len(v) = Cardinality(Range(v))
  <2>1. Len(v) \in Nat /\ v \in [1 .. Len(v) -> Texts] /\ DOMAIN v = 1 .. Len(v)
    BY <1>5
  <2>2. v \in [1 .. Len(v) -> Range(v)]
    BY <2>1 DEF Range
  <2>3. v \in Injection(1 .. Len(v), Range(v))
    BY <1>5, <2>2 DEF Injection, IsInjective
  <2>4. v \in Surjection(1 .. Len(v), Range(v))
    BY <2>1, <2>2 DEF Surjection, Range
  <2>5. ExistsBijection(1 .. Len(v), Range(v))
    BY <2>3, <2>4 DEF ExistsBijection, Bijection
  <2> QED
    BY <2>1, <2>5, FS_CountingElements
<1>6. CASE \E t \in Range(extra) : NamedBy(t) = {}
  BY <1>1, <1>3, <1>6 DEF Listed, v
<1>7. CASE ~ \E t \in Range(extra) : NamedBy(t) = {}
  BY <1>1, <1>3, <1>4, <1>5, <1>7 DEF Listed, v
<1> QED
  BY <1>6, <1>7
-----------------------------------------------------------------------------
\* A command that is not refused carries out the request: its name is the domain that
\* the request names, and the domains of a certificate to issue are all that it names.
LEMMA CommandOf ==
  ASSUME NEW r \in CertOps, buildCertbotCommand(r) # None
  PROVE  LET cmd == buildCertbotCommand(r)
         IN  /\ cmd.action = r.action
             /\ cmd.name \in Texts /\ NamedBy(r.domain) = {cmd.name}
             /\ Range(cmd.domains) \subseteq Texts
             /\ r.action = "issue" =>
                  \A raw \in {r.domain} \cup Range(r.domains) :
                    NamedBy(raw) # {} /\ NamedBy(raw) \subseteq Range(cmd.domains)
<1> DEFINE cmd     == buildCertbotCommand(r)
           domain  == normalizeDomain(r.domain)
           domains == normalizeDomains(domain, r.domains)
<1>1. r.domain \in Texts /\ r.domains \in Seq(Texts)
  BY DEF CertOps, Texts
<1>2. /\ domain # None /\ domains # None
      /\ cmd = [action |-> r.action, name |-> domain,
                domains |-> IF r.action = "issue" THEN domains ELSE <<>>]
  BY DEF buildCertbotCommand
<1>3. domain \in Texts /\ NamedBy(r.domain) = {domain}
  BY <1>1, <1>2, NormalizeNames
<1>4. /\ \A t \in Range(r.domains) : NamedBy(t) # {}
      /\ domains \in Seq(Texts)
      /\ Range(domains) = {domain} \cup UNION {NamedBy(t) : t \in Range(r.domains)}
  <2> HIDE DEF domain, Texts
  <2> QED
    BY <1>1, <1>2, <1>3, DomainsOf
<1> HIDE DEF cmd, domain, domains, Texts
<1>5. Range(domains) \subseteq Texts /\ Range(<<>>) \subseteq Texts
  <2>1. \A k \in DOMAIN domains : domains[k] \in Texts
    BY <1>4
  <2>2. DOMAIN <<>> = {}
    OBVIOUS
  <2> QED
    BY <2>1, <2>2 DEF Range
<1>6. Range(cmd.domains) \subseteq Texts
  BY <1>2, <1>5
<1>7. ASSUME NEW raw \in {r.domain} \cup Range(r.domains), r.action = "issue"
      PROVE  NamedBy(raw) # {} /\ NamedBy(raw) \subseteq Range(cmd.domains)
  <2>1. cmd.domains = domains
    BY <1>2, <1>7
  <2>2. CASE raw = r.domain
    BY <1>3, <1>4, <2>1, <2>2
  <2>3. CASE raw \in Range(r.domains)
    BY <1>4, <2>1, <2>3
  <2> QED
    BY <2>2, <2>3
<1> QED
  BY <1>2, <1>3, <1>6, <1>7 DEF cmd

\* While certbot works there is no result yet; a report has one.
Stage ==
  /\ pc = "certificate" => op \in CertOps
  /\ pc = "report" => result.status \in Statuses
  /\ pc # "report" => result = NoResult

CertsInv == CertsTypeOK /\ Stage

\* Certificates that certbot leaves have names and domains.
LEMMA EffectType ==
  ASSUME CertsTypeOK, op \in CertOps, buildCertbotCommand(op) # None,
         Effect(buildCertbotCommand(op))
  PROVE  live' \subseteq [name : Texts, domains : SUBSET Texts]
<1> DEFINE cmd == buildCertbotCommand(op)
<1>1. cmd.name \in Texts /\ Range(cmd.domains) \subseteq Texts
  BY CommandOf
<1>2. live \subseteq [name : Texts, domains : SUBSET Texts]
  BY DEF CertsTypeOK, Texts
<1> HIDE DEF cmd, Texts
<1>3. [name |-> cmd.name, domains |-> Range(cmd.domains)] \in [name : Texts, domains : SUBSET Texts]
  BY <1>1
<1>4. Others(cmd.name) \subseteq live
  BY DEF Others
<1>5. Effect(cmd)
  BY DEF cmd
<1> QED
  BY <1>2, <1>3, <1>4, <1>5 DEF Effect

\* CertsInv is an inductive invariant.
LEMMA CertsInvInit == CertsInit => CertsInv
BY DEF CertsInit, FrameInit, CertsInv, CertsTypeOK, FrameTypeOK, Stage, NoResult, Statuses

LEMMA CertsInvNext == CertsInv /\ [CertsNext]_certVars => CertsInv'
<1> SUFFICES ASSUME CertsInv, [CertsNext]_certVars PROVE CertsInv'
  OBVIOUS
<1> DEFINE Frame == FrameTypeOK({"certificate"}, CertOps) /\ Stage
           Lives == live \subseteq [name : Seq(Chars), domains : SUBSET Seq(Chars)]
<1>0. Frame /\ Lives /\ (Frame' /\ Lives' => CertsInv')
  BY DEF CertsInv, CertsTypeOK
<1>1. ASSUME pc = "certificate", NEW st \in Statuses, NEW m \in Messages, NEW d \in Payloads,
             Return(st, m, d)
      PROVE  Frame'
  BY <1>0, <1>1 DEF Return, FrameTypeOK, Stage
<1>2. (Error => Return("error", "error", "none")) /\ (Fail => Return("failed", "error", "none"))
  BY DEF Error, Fail
<1>3. {"error", "failed", "success"} \subseteq Statuses /\ {"error", "outcome"} \subseteq Messages
      /\ {"none", "certificate_report"} \subseteq Payloads
  BY DEF Statuses, Messages, Payloads
<1>4. CASE pc = "idle" /\ (\E r \in Requests : Begin(r, "certificate")) /\ UNCHANGED live
  <2>1. Frame'
    BY <1>0, <1>4, CertsAssumption DEF Begin, FrameTypeOK, Stage
  <2> QED
    BY <1>0, <1>4, <2>1
<1>5. CASE RefuseCertificate
  <2>1. Frame'
    BY <1>1, <1>2, <1>3, <1>5 DEF RefuseCertificate
  <2> QED
    BY <1>0, <1>5, <2>1 DEF RefuseCertificate
<1>6. CASE Certbot
  <2>1. Frame'
    BY <1>1, <1>3, <1>6 DEF Certbot, Succeed
  <2>2. Lives'
    BY <1>0, <1>6, EffectType DEF Certbot, Stage, CertsInv, Texts
  <2> QED
    BY <1>0, <2>1, <2>2
<1>7. CASE CertbotFails
  <2>1. Frame'
    BY <1>1, <1>2, <1>3, <1>7 DEF CertbotFails
  <2>2. Lives'
    BY <1>0, <1>7, EffectType DEF CertbotFails, Stage, CertsInv, Texts
  <2> QED
    BY <1>0, <2>1, <2>2
<1>8. CASE Expire /\ UNCHANGED live
  <2>1. Frame'
    BY <1>0, <1>8 DEF Expire, FrameTypeOK, Stage
  <2> QED
    BY <1>0, <1>8, <2>1
<1>9. CASE Complete /\ UNCHANGED live
  <2>1. told' \in [status : Statuses \ {"error"}, text : Messages]
    <3>1. pc = "report" /\ told' = [status |-> ReportedStatus, text |-> result.message]
      BY <1>9 DEF Complete
    <3>2. result.status \in Statuses /\ result \in [status : Statuses, message : Messages, data : Payloads]
      BY <1>0, <3>1 DEF FrameTypeOK, Stage, NoResult, Statuses
    <3>3. ReportedStatus \in Statuses \ {"error"}
      BY <3>2 DEF ReportedStatus, Statuses
    <3> QED
      BY <3>1, <3>2, <3>3
  <2>2. Frame'
    BY <1>0, <1>9, <2>1 DEF Complete, FrameTypeOK, Stage
  <2> QED
    BY <1>0, <1>9, <2>2
<1>10. CASE CertificateRemoved
  <2>1. Frame'
    BY <1>0, <1>10 DEF CertificateRemoved, frame, FrameTypeOK, Stage
  <2>2. live' \subseteq live
    BY <1>10 DEF CertificateRemoved
  <2> QED
    BY <1>0, <2>1, <2>2
<1>11. CASE UNCHANGED certVars
  <2>1. Frame' /\ Lives'
    BY <1>0, <1>11 DEF certVars, frame, FrameTypeOK, Stage
  <2> QED
    BY <1>0, <2>1
<1> QED
  BY <1>4, <1>5, <1>6, <1>7, <1>8, <1>9, <1>10, <1>11 DEF CertsNext, Manage

\* The certificate handler keeps its state well formed, whatever the requests.
THEOREM CertsTypeCorrect == CertsSpec => []CertsTypeOK
<1>1. CertsInv => CertsTypeOK
  BY DEF CertsInv
<1> QED
  BY <1>1, CertsInvInit, CertsInvNext, PTL DEF CertsSpec

\* The operation at hand has texts.
LEMMA TextsOfOp ==
  CertsTypeOK /\ op # None => op.domain \in Texts /\ op.domains \in Seq(Texts)
BY DEF CertsTypeOK, FrameTypeOK, CertOps, Texts

\* For texts of every length and for every limit, normalizeDomain accepts a text if and
\* only if it names a domain, returns the one it names, and leaves that as it is.
THEOREM NormalizationCorrect == CertsSpec => []NormalizationIsCorrect
<1>1. CertsTypeOK => NormalizationIsCorrect
  BY TextsOfOp, NormalizeNames, NormalNamesItself DEF NormalizationIsCorrect
<1> QED
  BY <1>1, CertsTypeCorrect, PTL

\* For lists of every length, normalizeDomains refuses a list with a text that names no
\* domain, and keeps every domain of another once, the primary one first.
THEOREM DomainsDistinct == CertsSpec => []DomainsAreDistinct
<1>1. CertsTypeOK => DomainsAreDistinct
  <2> SUFFICES ASSUME CertsTypeOK, op # None, NamedBy(op.domain) # {} PROVE DomainsAreDistinct
    BY DEF DomainsAreDistinct
  <2> DEFINE primary == CHOOSE d \in NamedBy(op.domain) : TRUE
  <2>1. op.domain \in Texts /\ op.domains \in Seq(Texts)
    BY TextsOfOp
  <2>2. primary \in Texts
    <3>1. primary \in NamedBy(op.domain)
      OBVIOUS
    <3> QED
      BY <2>1, <3>1, NormalizeNames
  <2> HIDE DEF primary
  <2> QED
    BY <2>1, <2>2, DomainsOf DEF DomainsAreDistinct, primary
<1> QED
  BY <1>1, CertsTypeCorrect, PTL

\* What certbot does when it is asked: the certificate under the name is what was asked
\* for, and no other one has changed.
LEMMA EffectGrants ==
  ASSUME op \in CertOps, buildCertbotCommand(op) # None, Effect(buildCertbotCommand(op))
  PROVE  \E name \in NamedBy(op.domain) :
           /\ Others(name)' = Others(name)
           /\ Has(name)' = (op.action # "revoke")
           /\ op.action = "issue" =>
                \E c \in live' : c.name = name /\
                  \A raw \in {op.domain} \cup Range(op.domains) :
                    NamedBy(raw) # {} /\ NamedBy(raw) \subseteq c.domains
<1> DEFINE cmd == buildCertbotCommand(op)
<1>1. PICK name :
        /\ cmd.action = op.action /\ cmd.name = name /\ NamedBy(op.domain) = {name}
        /\ op.action = "issue" =>
             \A raw \in {op.domain} \cup Range(op.domains) :
               NamedBy(raw) # {} /\ NamedBy(raw) \subseteq Range(cmd.domains)
  BY CommandOf
<1>2. Effect(cmd)
  OBVIOUS
<1> HIDE DEF cmd
<1>3. CASE op.action = "issue"
  <2> DEFINE c == [name |-> name, domains |-> Range(cmd.domains)]
  <2>1. c.name = name /\ c.domains = Range(cmd.domains) /\ live' = Others(name) \cup {c}
    BY <1>1, <1>2, <1>3 DEF Effect
  <2> HIDE DEF c
  <2>2. Has(name)' /\ Others(name)' = Others(name)
    BY <2>1 DEF Has, Others
  <2> QED
    BY <1>1, <1>3, <2>1, <2>2
<1>4. CASE op.action = "renew"
  <2>1. Has(name)' /\ Others(name)' = Others(name)
    BY <1>1, <1>2, <1>4 DEF Effect, Has, Others
  <2> QED
    BY <1>1, <1>4, <2>1
<1>5. CASE op.action = "revoke"
  <2>1. Has(name)' = FALSE /\ Others(name)' = Others(name)
    BY <1>1, <1>2, <1>5 DEF Effect, Has, Others
  <2>2. (op.action # "revoke") = FALSE /\ op.action # "issue"
    BY <1>5
  <2> QED
    BY <1>1, <2>1, <2>2
<1> QED
  BY <1>1, <1>2, <1>3, <1>4, <1>5 DEF Effect

\* An operation on a certificate does what was asked for or nothing, also when certbot
\* fails or is killed; certificates of other names it leaves alone.
THEOREM CertificatesAreThere == CertsSpec => CertificateIsThere
<1> DEFINE Granted == \E name \in NamedBy(op.domain) :
                        /\ Others(name)' = Others(name)
                        /\ Has(name)' = (op.action # "revoke")
                        /\ op.action = "issue" =>
                             \E c \in live' : c.name = name /\
                               \A raw \in {op.domain} \cup Range(op.domains) :
                                 NamedBy(raw) # {} /\ NamedBy(raw) \subseteq c.domains
           A == Manage => \/ result'.status # "success" /\ UNCHANGED live
                          \/ Granted
<1>1. CertsInv /\ [CertsNext]_certVars => [A]_certVars
  <2> SUFFICES ASSUME CertsInv, Manage
               PROVE  (result'.status # "success" /\ UNCHANGED live) \/ Granted
    OBVIOUS
  <2>1. op \in CertOps
    BY DEF Manage, RefuseCertificate, Certbot, CertbotFails, CertsInv, Stage
  <2>2. Effect(buildCertbotCommand(op)) /\ buildCertbotCommand(op) # None => Granted
    BY <2>1, EffectGrants
  <2> HIDE DEF Granted
  <2>3. CASE RefuseCertificate
    BY <2>3 DEF RefuseCertificate, Error, Fail, Return
  <2>4. CASE Certbot
    BY <2>2, <2>4 DEF Certbot
  <2>5. CASE CertbotFails
    BY <2>2, <2>5 DEF CertbotFails, Fail, Return
  <2> QED
    BY <2>3, <2>4, <2>5 DEF Manage
<1>2. CertsSpec => [][A]_certVars
  BY <1>1, CertsInvInit, CertsInvNext, PTL DEF CertsSpec
<1> QED
  BY <1>2 DEF CertificateIsThere
=============================================================================
