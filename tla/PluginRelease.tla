--------------------------- MODULE PluginRelease ---------------------------
(***************************************************************************)
(* A directory a plugin is released from, while it is built once more.     *)
(* The build script removes what is in it, puts an artifact there after    *)
(* the other and has relayward-contract-release read them and write the    *)
(* manifest that describes them; it may stop at any step, and be started   *)
(* again.  Meanwhile relayward-conformance verifies the directory, and     *)
(* reads it file by file: the manifest, and then, in its order, the size   *)
(* and the bytes of each artifact.  The script makes its artifacts         *)
(* reproducibly, so that two builds may have any of them in common: the    *)
(* archive of the user interface, for one, has no version in it.           *)
(***************************************************************************)
EXTENDS Naturals

CONSTANTS
  Count,      \* how many artifacts the release has
  MaxBuilds,  \* how often it is built
  BytesOf,    \* of each artifact, its bytes in each build
  SizeOf      \* how many bytes these are

ASSUME ReleaseAssumption == Count \in Nat /\ MaxBuilds \in Nat \ {0}

VARIABLES
  built,      \* the build the script is at
  clearing,   \* the script is still removing the last one
  artifact,   \* of each artifact, the build the file in the directory is of
  described,  \* how many artifacts describeArtifact has read
  manifest,   \* the build the manifest describes
  listed,     \* the build the verifier's manifest describes
  missing,    \* the artifacts that were not there when it was loaded
  sized,      \* how many artifacts' sizes the verifier has compared
  hashed,     \* how many artifacts' digests it has compared
  verdict     \* of the verifier: "none", "refused" or "accepted"

builder  == <<built, clearing, artifact, described, manifest>>
verifier == <<listed, missing, sized, hashed, verdict>>
release  == <<built, clearing, artifact, described, manifest,
              listed, missing, sized, hashed, verdict>>

Artifacts == 1 .. Count

\* Instead of a build: a file that is not there, or that is not complete.
None == 0

\* Fault: what is read is not compared, only its size.
SizeAlone(i) ==
  artifact[i] # None /\ SizeOf[BytesOf[i][artifact[i]]] = SizeOf[BytesOf[i][listed]]

SameSize(i) ==
  artifact[i] # None /\ SizeOf[BytesOf[i][artifact[i]]] = SizeOf[BytesOf[i][listed]]

SameDigest(i) == artifact[i] # None /\ BytesOf[i][artifact[i]] = BytesOf[i][listed]

ReleaseInit ==
  /\ built = 1 /\ clearing = FALSE
  /\ artifact = [i \in Artifacts |-> 1] /\ described = Count /\ manifest = 1
  /\ listed = None /\ missing = {}
  /\ sized = 0 /\ hashed = 0 /\ verdict = "none"

\* The script is started, whatever the last time it was has left behind.
Build ==
  /\ built < MaxBuilds
  /\ built' = built + 1
  /\ clearing' = TRUE
  /\ described' = 0
  /\ UNCHANGED <<artifact, manifest, verifier>>

\* rm -rf, in the order the directory lists its files.
Remove(i) ==
  /\ clearing /\ artifact[i] # None
  /\ artifact' = [artifact EXCEPT ![i] = None]
  /\ UNCHANGED <<built, clearing, described, manifest, verifier>>

RemoveManifest ==
  /\ clearing /\ manifest # None
  /\ manifest' = None
  /\ UNCHANGED <<built, clearing, artifact, described, verifier>>

Cleared ==
  /\ clearing /\ manifest = None /\ \A i \in Artifacts : artifact[i] = None
  /\ clearing' = FALSE
  /\ UNCHANGED <<built, artifact, described, manifest, verifier>>

\* An artifact is complete, after those before it.
Place(i) ==
  /\ ~clearing /\ artifact[i] = None
  /\ \A j \in 1 .. i - 1 : artifact[j] # None
  /\ artifact' = [artifact EXCEPT ![i] = built]
  /\ UNCHANGED <<built, clearing, described, manifest, verifier>>

DescribeArtifact ==
  /\ ~clearing /\ \A i \in Artifacts : artifact[i] # None
  /\ described < Count
  /\ described' = described + 1
  /\ UNCHANGED <<built, clearing, artifact, manifest, verifier>>

WriteManifest ==
  /\ ~clearing /\ \A i \in Artifacts : artifact[i] # None
  /\ described = Count /\ manifest = None
  /\ manifest' = built
  /\ UNCHANGED <<built, clearing, artifact, described, verifier>>

RefuseRelease == verdict' = "refused" /\ UNCHANGED <<listed, missing, sized, hashed>>

ReadManifest ==
  /\ verdict = "none" /\ listed = None
  /\ \/ manifest = None /\ RefuseRelease
     \/ /\ manifest # None
        /\ listed' = manifest
        /\ missing' = {i \in Artifacts : artifact[i] # manifest}
        /\ UNCHANGED <<sized, hashed, verdict>>
  /\ UNCHANGED builder

SizeArtifact ==
  /\ verdict = "none" /\ listed # None /\ sized = hashed /\ sized < Count
  /\ \/ ~SameSize(sized + 1) /\ RefuseRelease
     \/ /\ SameSize(sized + 1)
        /\ sized' = sized + 1
        /\ UNCHANGED <<listed, missing, hashed, verdict>>
  /\ UNCHANGED builder

HashArtifact ==
  /\ verdict = "none" /\ hashed < sized
  /\ \/ ~SameDigest(sized) /\ RefuseRelease
     \/ /\ SameDigest(sized)
        /\ hashed' = sized
        /\ UNCHANGED <<listed, missing, sized, verdict>>
  /\ UNCHANGED builder

Accept ==
  /\ verdict = "none" /\ listed # None /\ hashed = Count
  /\ verdict' = "accepted"
  /\ UNCHANGED <<builder, listed, missing, sized, hashed>>

ReleaseNext ==
  \/ Build \/ RemoveManifest \/ Cleared \/ DescribeArtifact \/ WriteManifest
  \/ \E i \in Artifacts : Remove(i) \/ Place(i)
  \/ ReadManifest \/ SizeArtifact \/ HashArtifact \/ Accept

ReleaseSpec == ReleaseInit /\ [][ReleaseNext]_release

-----------------------------------------------------------------------------
\* A later build has made the artifact of the verifier's manifest once more.
MadeAgain(i) == \E b \in listed + 1 .. built : BytesOf[i][b] = BytesOf[i][listed]

\* A directory that is accepted had every artifact when its manifest was loaded,
\* but for those of which a later build has made the very same bytes: however
\* the script's writes come between the verifier's reads, and wherever it has
\* stopped before, no two builds are taken for one in which they differ.
AcceptedIsOneBuild == verdict = "accepted" => \A i \in missing : MadeAgain(i)

=============================================================================
