-------------------------- MODULE EnrollmentProofs --------------------------
(***************************************************************************)
(* Proofs that a completed enrollment leaves files that belong together,   *)
(* and that the agent never works with a certificate from before its node  *)
(* ID, for any number of enrollments.                                      *)
(*                                                                         *)
(* What carries the argument from file to file is that only one enrollment *)
(* is open at a time, the latest one, that an open one owns the files it   *)
(* has written, and that the certificate on disk is not older than any     *)
(* enrollment that has completed.                                          *)
(***************************************************************************)
EXTENDS Enrollment, TLAPS

\* One enrollment at a time.
OneOpen ==
  \A d, e \in Enrollments : Open(d) /\ Open(e) => d = e

\* The files an open enrollment has written are still its own.
Owned ==
  \A e \in Enrollments :
    /\ step[e] \in {"cert", "load", "save"} => key = e
    /\ step[e] \in {"load", "save"} => cert = e

\* Enrollments are begun one after the other: those before one that has begun are over.
InOrder ==
  \A d, e \in Enrollments : d < e /\ step[e] # "new" => step[d] # "new" /\ ~Open(d)

\* The last enrollment to touch a file is no longer new, the state file is that of one
\* that has completed, and the certificate is not older than any of those.
Traces ==
  /\ last # None => step[last] # "new"
  /\ st # None => step[st] = "done"
  /\ \A d \in Enrollments : step[d] = "done" => cert # None /\ d <= cert

\* What the agent has read.
Reading ==
  /\ node # None => step[node] = "done"
  /\ agent \notin {"off", "loaded"} => node # None
  /\ agent \in {"cert_read", "on"} => pair # None /\ node <= pair

IInv == TypeOK /\ OneOpen /\ Owned /\ InOrder /\ Traces /\ Reading /\ CompletedMeansUsable
-----------------------------------------------------------------------------
LEMMA InitInductive == Init => IInv
BY EnrollmentAssumption
   DEF Init, IInv, TypeOK, OneOpen, Owned, InOrder, Traces, Reading, CompletedMeansUsable,
       Open, Files, Steps

\* Every step of an enrollment and of the agent preserves the invariant.
LEMMA NextInductive == IInv /\ [Next]_vars => IInv'
<1> SUFFICES ASSUME IInv, [Next]_vars PROVE IInv'
  OBVIOUS
<1> USE EnrollmentAssumption
        DEF IInv, TypeOK, OneOpen, Owned, InOrder, Traces, Reading, CompletedMeansUsable,
            Open, Files, Steps, files, run
<1>1. ASSUME NEW e \in Enrollments, Begin(e) PROVE IInv'
  BY <1>1 DEF Begin
<1>2. ASSUME NEW e \in Enrollments, Post(e) PROVE IInv'
  BY <1>2 DEF Post
<1>3. ASSUME NEW e \in Enrollments, WriteKey(e) PROVE IInv'
  BY <1>3 DEF WriteKey
<1>4. ASSUME NEW e \in Enrollments, WriteCert(e) PROVE IInv'
  BY <1>4 DEF WriteCert
<1>5. ASSUME NEW e \in Enrollments, Load(e) PROVE IInv'
  BY <1>5 DEF Load
<1>6. ASSUME NEW e \in Enrollments, Save(e) PROVE IInv'
  BY <1>6 DEF Save
<1>7. ASSUME NEW e \in Enrollments, Fail(e) PROVE IInv'
  BY <1>7 DEF Fail
<1>8. CASE LoadState \/ IsEnrolled \/ ReadCert \/ ReadKey \/ Stop
  BY <1>8 DEF LoadState, IsEnrolled, ReadCert, ReadKey, Stop
<1>9. CASE UNCHANGED vars
  BY <1>9 DEF vars
<1> QED
  BY <1>1, <1>2, <1>3, <1>4, <1>5, <1>6, <1>7, <1>8, <1>9 DEF Next, Enroll

LEMMA Inductive == Spec => []IInv
<1>1. Init => IInv
  BY InitInductive
<1>2. IInv /\ [Next]_vars => IInv'
  BY NextInductive
<1> QED
  BY <1>1, <1>2, PTL DEF Spec
-----------------------------------------------------------------------------
\* No file is ever half written, and the variables keep their types.
THEOREM TypeCorrect == Spec => []TypeOK
<1>1. IInv => TypeOK
  BY DEF IInv
<1> QED
  BY <1>1, Inductive, PTL

\* A completed enrollment repairs whatever failed ones have left behind: its key,
\* certificate and node ID are the ones on disk.
THEOREM CompletedIsUsable == Spec => []CompletedMeansUsable
<1>1. IInv => CompletedMeansUsable
  BY DEF IInv
<1> QED
  BY <1>1, Inductive, PTL

\* The agent works as a node whose enrollment has completed, with a certificate from that
\* enrollment or a later one, at whatever moment of an enrollment it reads the files.
THEOREM CommitFirst == Spec => []NeverOutdated
<1>1. IInv => NeverOutdated
  BY DEF IInv, Reading, NeverOutdated
<1> QED
  BY <1>1, Inductive, PTL
=============================================================================
