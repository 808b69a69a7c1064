----------------------------- MODULE Installer ------------------------------
(***************************************************************************)
(* Install of the component installer (internal/installer/installer.go)    *)
(* with components.Component and the image calls of the Docker client.     *)
(* The registry may move the tag at any time and Docker's images are       *)
(* changed by others too; neither is part of the repository.               *)
(***************************************************************************)
EXTENDS Operation

CONSTANT Digests     \* digests of images, lowercase hex with the prefix sha256:

VARIABLES
  local,             \* the RepoDigests of the image of the reference, None without one
  present            \* the digests it has had since the operation began

installer == <<local, present>>

InstallOps == [kind : {"install"}, form : Forms, digest : Digests]

Images == (SUBSET Digests) \cup {None}

InstallerTypeOK ==
  /\ local \in Images
  /\ present \subseteq Digests

DigestsOf(image) == IF image = None THEN {} ELSE image

\* The digests seen in the course of an operation.
Witness ==
  present' = IF op' \in InstallOps THEN present \cup DigestsOf(local') ELSE {}

\* A payload that does not decode, or a Component that Validate refuses: a name,
\* version or image is missing, the image has no tag, the digest is malformed.
RefuseInstall ==
  /\ pc = "pull"
  /\ \/ op.form = "garbled" /\ Error
     \/ op.form = "invalid" /\ Fail
  /\ UNCHANGED local

\* The image that the tag now stands for; one that was there under another digest
\* keeps that one too.
Pulled == \E d \in Digests : local' \in {{d}, DigestsOf(local) \cup {d}}

PullImage ==
  /\ pc = "pull" /\ op.form = "good" /\ ~expired
  /\ Pulled
  /\ Goto("inspect_image")

\* The progress stream breaks off, the client's timeout of 120 s passes or the context
\* ends: to the loop over the lines that is their end.
PullCut ==
  /\ pc = "pull" /\ op.form = "good"
  /\ Pulled \/ UNCHANGED local
  /\ Goto("inspect_image")

\* The request is refused, or a line of the stream tells of an error.
PullFails ==
  /\ pc = "pull" /\ op.form = "good"
  /\ Fail
  /\ UNCHANGED local

\* Mutant: an image without digests matches.
MatchEmpty(expected, digests) == digests = {} \/ expected \in digests

\* A RepoDigest ends in the digest, which follows the name of the repository.
MatchDigest(expected, digests) == expected \in digests

\* The digests are compared even if the pull has told of no error.
VerifyImage ==
  /\ pc = "inspect_image" /\ ~expired /\ local # None
  /\ IF MatchDigest(op.digest, local) THEN Succeed("outcome", "none") ELSE Fail
  /\ UNCHANGED local

InspectImageFails ==
  /\ pc = "inspect_image"
  /\ Fail
  /\ UNCHANGED local

InstallerStep ==
  RefuseInstall \/ PullImage \/ PullCut \/ PullFails \/ VerifyImage \/ InspectImageFails

\* Others pull, load, tag or remove the image.
ImageChanges ==
  /\ local' \in Images \ {local}
  /\ UNCHANGED frame
-----------------------------------------------------------------------------
\* A component is reported as installed only if its reference had the expected
\* digest at some time during the operation, even if the pull broke off without an
\* error, the tag was moved, or somebody else changed the image in between.
InstallVerified ==
  op \in InstallOps /\ result.status = "success" => op.digest \in present
=============================================================================
