----------------------------- MODULE Enrollment -----------------------------
(***************************************************************************)
(* Enrollment and its files: `routestack-agent enroll` (cmdEnroll,         *)
(* api.Enroll, writeFileAtomic, state.Save) and what `routestack-agent     *)
(* run` makes of the files (LoadState, IsEnrolled, NewClient).             *)
(*                                                                         *)
(* An enrollment generates a key, has the controller sign it, and renames  *)
(* three files into place one after the other: the key, the certificate,   *)
(* the state with the node ID.  It can fail or be killed between any two   *)
(* steps; the files stay.  All three are identified by the enrollment that *)
(* wrote them: a key and a certificate fit if and only if they come from   *)
(* the same one.  The operator runs one enroll command at a time, but the  *)
(* agent may be started at any moment.                                     *)
(***************************************************************************)
EXTENDS Naturals

CONSTANTS
  Enrollments,   \* runs of the enroll command, numbered in their order
  None           \* a file that does not exist

ASSUME EnrollmentAssumption == Enrollments \subseteq Nat /\ None \notin Enrollments

VARIABLES
  step,          \* the next step of an enrollment
  key, cert, st, \* which enrollment wrote the file
  agent,         \* `run`: the files it has read, "off" or "on"
  node, pair,    \* the node ID and the certificate the agent process has read
  last           \* history: the enrollment that touched a file last

vars == <<step, key, cert, st, agent, node, pair, last>>

Files == Enrollments \cup {None}
Steps == {"new", "post", "key", "cert", "load", "save", "done", "failed"}

TypeOK ==
  /\ step \in [Enrollments -> Steps]
  /\ key \in Files /\ cert \in Files /\ st \in Files
  /\ agent \in {"off", "loaded", "enrolled", "cert_read", "on"}
  /\ node \in Files /\ pair \in Files /\ last \in Files

Init ==
  /\ step = [e \in Enrollments |-> "new"]
  /\ key = None /\ cert = None /\ st = None
  /\ agent = "off" /\ node = None /\ pair = None /\ last = None

Open(e) == step[e] \notin {"new", "done", "failed"}

files == <<key, cert, st>>
run   == <<agent, node, pair>>
-----------------------------------------------------------------------------
\* cmdEnroll: arguments, configuration and CA certificate are fine, a key is made.
Begin(e) ==
  /\ step[e] = "new"
  /\ \A d \in Enrollments : ~Open(d) /\ (d < e => step[d] # "new")
  /\ step' = [step EXCEPT ![e] = "post"]
  /\ UNCHANGED <<files, run, last>>

\* Mutant: the state is saved as soon as the node ID is known.
SaveAtOnce(e) ==
  /\ step[e] = "post"
  /\ st' = e
  /\ step' = [step EXCEPT ![e] = "key"]
  /\ UNCHANGED <<key, cert, run, last>>

\* The controller returns a certificate and a node ID.
Post(e) ==
  /\ step[e] = "post"
  /\ step' = [step EXCEPT ![e] = "key"]
  /\ UNCHANGED <<files, run, last>>

\* Mutant: the file is written in place, and may be left half written.
WriteInPlace(e) ==
  /\ step[e] = "key"
  /\ \/ key' = e /\ step' = [step EXCEPT ![e] = "cert"]
     \/ key' = 0 /\ step' = [step EXCEPT ![e] = "failed"]     \* nobody's key
  /\ last' = e
  /\ UNCHANGED <<cert, st, run>>

\* The key is renamed into place ...
WriteKey(e) ==
  /\ step[e] = "key"
  /\ key' = e /\ last' = e
  /\ step' = [step EXCEPT ![e] = "cert"]
  /\ UNCHANGED <<cert, st, run>>

\* Mutant: a certificate that is there already is kept.
KeepCert(e) ==
  /\ step[e] = "cert"
  /\ cert' = IF cert = None THEN e ELSE cert
  /\ last' = e
  /\ step' = [step EXCEPT ![e] = "load"]
  /\ UNCHANGED <<key, st, run>>

\* ... then the certificate ...
WriteCert(e) ==
  /\ step[e] = "cert"
  /\ cert' = e /\ last' = e
  /\ step' = [step EXCEPT ![e] = "load"]
  /\ UNCHANGED <<key, st, run>>

\* The old state is loaded, only for what the enrollment does not overwrite.
Load(e) ==
  /\ step[e] = "load"
  /\ step' = [step EXCEPT ![e] = "save"]
  /\ UNCHANGED <<files, run, last>>

\* ... and at last the state.
Save(e) ==
  /\ step[e] = "save"
  /\ st' = e /\ last' = e
  /\ step' = [step EXCEPT ![e] = "done"]
  /\ UNCHANGED <<key, cert, run>>

\* A step fails or the command is killed: no file is undone.
Fail(e) ==
  /\ Open(e)
  /\ step' = [step EXCEPT ![e] = "failed"]
  /\ UNCHANGED <<files, run, last>>

\* cmdRun reads the state, which is empty when there is no file, ...
LoadState ==
  /\ agent = "off"
  /\ agent' = "loaded" /\ node' = st
  /\ UNCHANGED <<step, files, pair, last>>

\* ... and goes on when it has a node ID and both files are there.
IsEnrolled ==
  /\ agent = "loaded" /\ node # None /\ cert # None /\ key # None
  /\ agent' = "enrolled"
  /\ UNCHANGED <<step, files, node, pair, last>>

\* tls.LoadX509KeyPair reads the certificate, then the key ...
ReadCert ==
  /\ agent = "enrolled"
  /\ agent' = "cert_read" /\ pair' = cert
  /\ UNCHANGED <<step, files, node, last>>

\* ... which has to fit.
ReadKey ==
  /\ agent = "cert_read" /\ pair = key
  /\ agent' = "on"
  /\ UNCHANGED <<step, files, node, pair, last>>

\* The agent gives up at any of these files, or ends.
Stop ==
  /\ agent # "off"
  /\ agent' = "off"
  /\ UNCHANGED <<step, files, node, pair, last>>

Enroll(e) ==
  Begin(e) \/ Post(e) \/ WriteKey(e) \/ WriteCert(e) \/ Load(e) \/ Save(e) \/ Fail(e)

Next == (\E e \in Enrollments : Enroll(e)) \/ LoadState \/ IsEnrolled \/ ReadCert \/ ReadKey \/ Stop

Spec == Init /\ [][Next]_vars
-----------------------------------------------------------------------------
\* An enrollment that completes leaves a key, a certificate and a node ID that
\* belong together, whatever enrollments that failed have left behind before.
CompletedMeansUsable ==
  last # None /\ step[last] = "done" => key = last /\ cert = last /\ st = last

\* However an agent that starts meets an enrollment, and whatever failed ones have left:
\* it works as a node whose enrollment has completed, and never with a certificate from
\* before that enrollment.  (It may have one from after it: a later enrollment replaces
\* the certificate first and the node ID last.)
NeverOutdated ==
  agent = "on" => node # None /\ step[node] = "done" /\ node <= pair
=============================================================================
