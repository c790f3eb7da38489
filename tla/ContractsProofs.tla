--------------------------- MODULE ContractsProofs ---------------------------
(***************************************************************************)
(* Theorems about what goes to and fro by itself.  The small machines of   *)
(* the contracts come first: the release and its verifier (PluginRelease)  *)
(* and the node configuration calls of several handlers (NodeSettings).    *)
(* Then the documents on their way through their validators (Documents),   *)
(* of any size, and last the calendar of resets (PeriodRoll).  They share  *)
(* no state; each has its specification, its inductive invariant and its   *)
(* theorems.                                                               *)
(***************************************************************************)
EXTENDS PluginRelease, NodeSettings, ConfigurationPath,
        SubscriptionRender, NodePath, PluginPath, Conformance, PeriodRoll,
        WellFoundedInduction, TLAPS

(***************************************************************************)
(* PluginRelease.  What is accepted is of one build but for bytes that two *)
(* builds share, for any number of artifacts and of builds and whatever    *)
(* they share.  AcceptedIsOneBuild is not inductive by itself: what makes  *)
(* it so is that a directory in which an artifact is missing when its      *)
(* manifest is read is being cleared for a later build, so that whatever   *)
(* the verifier finds in the place of this artifact is of such a build.    *)
(***************************************************************************)
ReleaseTypeOK ==
  /\ built \in Nat \ {0} /\ clearing \in BOOLEAN
  /\ artifact \in [Artifacts -> Nat] /\ manifest \in Nat
  /\ listed \in Nat /\ missing \subseteq Artifacts
  /\ sized \in 0 .. Count /\ hashed \in 0 .. Count
  /\ verdict \in {"none", "refused", "accepted"}

\* While the script clears the directory, what is in it is of earlier builds;
\* afterwards it is of this one.
Ages ==
  /\ clearing  => manifest < built /\ \A i \in Artifacts : artifact[i] < built
  /\ ~clearing => \A i \in Artifacts : artifact[i] \in {None, built}

\* A manifest outside of the clearing describes all there is.
ManifestDescribes ==
  manifest # None /\ ~clearing =>
    manifest = built /\ \A i \in Artifacts : artifact[i] = built

\* The verifier goes through the artifacts one by one.
Progress ==
  /\ listed = None => sized = 0 /\ hashed = 0
  /\ hashed <= sized /\ sized <= hashed + 1

\* Before the clearing ends nothing of another build is beside a manifest.
OfManifest == manifest # None => \A i \in Artifacts : artifact[i] \in {None, manifest}

\* What was missing is of a later build, if it is there, and what of it has been
\* compared was made again.
MissingIsLater ==
  \A i \in missing :
    /\ listed < built
    /\ artifact[i] = None \/ artifact[i] \in listed + 1 .. built
    /\ i <= hashed => MadeAgain(i)

\* Nothing is accepted before all has been compared.
AcceptedIsCompared == verdict = "accepted" => hashed = Count

ReleaseInv ==
  /\ ReleaseTypeOK /\ Ages /\ ManifestDescribes /\ OfManifest /\ Progress
  /\ MissingIsLater /\ AcceptedIsCompared

-----------------------------------------------------------------------------
\* The invariant holds of the release that has just been made.
LEMMA InitReleaseInv == ReleaseInit => ReleaseInv
<1> SUFFICES ASSUME ReleaseInit PROVE ReleaseInv
  OBVIOUS
<1>1. Count \in Nat
  BY ReleaseAssumption
<1>2. ReleaseTypeOK
  <2>1. artifact \in [Artifacts -> Nat]
    BY DEF ReleaseInit
  <2>2. clearing \in BOOLEAN /\ missing = {}
    BY DEF ReleaseInit
  <2>3. QED
    BY <1>1, <2>1, <2>2 DEF ReleaseInit, ReleaseTypeOK, None
<1>3. Ages /\ ManifestDescribes /\ OfManifest /\ Progress
  BY <1>1 DEF ReleaseInit, Ages, ManifestDescribes, OfManifest, Progress, None
<1>4. MissingIsLater /\ AcceptedIsCompared
  BY DEF ReleaseInit, MissingIsLater, AcceptedIsCompared
<1>5. QED
  BY <1>2, <1>3, <1>4 DEF ReleaseInv

\* Starting the script makes everything there of an earlier build.
LEMMA BuildStep == ReleaseInv /\ Build => ReleaseInv'
<1> SUFFICES ASSUME ReleaseInv, Build PROVE ReleaseInv'
  OBVIOUS
<1>1. Count \in Nat /\ built' = built + 1 /\ clearing' = TRUE
  BY ReleaseAssumption DEF Build
<1>2. UNCHANGED <<artifact, manifest, listed, missing, sized, hashed, verdict>>
  BY DEF Build, verifier
<1>3. ReleaseTypeOK'
  BY <1>1, <1>2 DEF ReleaseInv, ReleaseTypeOK, Artifacts
<1>4. Ages'
  <2>1. manifest <= built
    BY DEF ReleaseInv, Ages, ManifestDescribes, ReleaseTypeOK, None
  <2>2. ASSUME NEW i \in Artifacts PROVE artifact[i] <= built
    BY DEF ReleaseInv, Ages, ReleaseTypeOK, None
  <2>3. QED
    BY <1>1, <1>2, <2>1, <2>2 DEF ReleaseInv, ReleaseTypeOK, Ages, Artifacts
<1>5. ManifestDescribes' /\ OfManifest' /\ Progress' /\ AcceptedIsCompared'
  BY <1>1, <1>2 DEF ReleaseInv, ManifestDescribes, OfManifest, Progress, AcceptedIsCompared,
     Artifacts
<1>6. MissingIsLater'
  <2>1. listed + 1 .. built \subseteq listed + 1 .. built'
    BY <1>1 DEF ReleaseInv, ReleaseTypeOK
  <2>2. listed < built => listed < built'
    BY <1>1 DEF ReleaseInv, ReleaseTypeOK
  <2>3. QED
    BY <1>2, <2>1, <2>2 DEF ReleaseInv, MissingIsLater, MadeAgain
<1>7. QED
  BY <1>3, <1>4, <1>5, <1>6 DEF ReleaseInv

\* A file that is put there is of the build the script is at.
LEMMA ArtifactStep ==
  ASSUME ReleaseInv, NEW i \in Artifacts, Remove(i) \/ Place(i) PROVE ReleaseInv'
<1>1. PICK b \in {None, built} :
        /\ artifact' = [artifact EXCEPT ![i] = b]
        /\ clearing => b = None
        /\ ~clearing => artifact[i] = None
  BY DEF Remove, Place
<1>2. UNCHANGED <<built, clearing, manifest, listed, missing, sized, hashed, verdict>>
  BY DEF Remove, Place, verifier
<1>3. /\ artifact' \in [Artifacts -> Nat] /\ artifact'[i] = b
      /\ \A j \in Artifacts : j # i => artifact'[j] = artifact[j]
  BY <1>1 DEF ReleaseInv, ReleaseTypeOK, None
<1>4. ReleaseTypeOK'
  BY <1>2, <1>3 DEF ReleaseInv, ReleaseTypeOK, Artifacts
<1>5. Ages'
  BY <1>1, <1>2, <1>3 DEF ReleaseInv, ReleaseTypeOK, Ages, None, Artifacts
<1>6. ManifestDescribes' /\ OfManifest'
  <2>1. manifest # None => clearing
    BY <1>1 DEF ReleaseInv, ReleaseTypeOK, ManifestDescribes, None
  <2>2. QED
    BY <1>1, <1>2, <1>3, <2>1 DEF ReleaseInv, ManifestDescribes, OfManifest, Artifacts
<1>7. Progress' /\ AcceptedIsCompared'
  BY <1>2 DEF ReleaseInv, Progress, AcceptedIsCompared
<1>8. MissingIsLater'
  <2>1. ASSUME NEW j \in missing
        PROVE  artifact'[j] = None \/ artifact'[j] \in listed + 1 .. built
    <3>1. /\ listed < built /\ listed \in Nat /\ built \in Nat /\ j \in Artifacts
          /\ artifact[j] = None \/ artifact[j] \in listed + 1 .. built
      BY DEF ReleaseInv, ReleaseTypeOK, MissingIsLater
    <3>2. QED
      BY <1>1, <1>3, <3>1
  <2>2. QED
    BY <1>2, <2>1 DEF ReleaseInv, MissingIsLater, MadeAgain
<1>9. QED
  BY <1>4, <1>5, <1>6, <1>7, <1>8 DEF ReleaseInv

\* Neither the removal of the manifest nor the end of the clearing changes an
\* artifact, and a manifest is written when all artifacts are of this build.
LEMMA ManifestStep ==
  ReleaseInv /\ (RemoveManifest \/ Cleared \/ DescribeArtifact \/ WriteManifest) => ReleaseInv'
<1> SUFFICES ASSUME ReleaseInv, RemoveManifest \/ Cleared \/ DescribeArtifact \/ WriteManifest
             PROVE ReleaseInv'
  OBVIOUS
<1>1. UNCHANGED <<built, artifact, listed, missing, sized, hashed, verdict>>
  BY DEF RemoveManifest, Cleared, DescribeArtifact, WriteManifest, verifier
<1>2. ReleaseTypeOK'
  <2>1. clearing' \in BOOLEAN
    BY DEF ReleaseInv, ReleaseTypeOK, RemoveManifest, Cleared, DescribeArtifact, WriteManifest
  <2>2. manifest' \in Nat
    BY DEF ReleaseInv, ReleaseTypeOK, RemoveManifest, Cleared, DescribeArtifact,
         WriteManifest, None
  <2>3. QED
    BY <1>1, <2>1, <2>2 DEF ReleaseInv, ReleaseTypeOK, Artifacts
<1>3. Ages' /\ ManifestDescribes' /\ OfManifest'
  <2>1. CASE RemoveManifest
    BY <1>1, <2>1 DEF ReleaseInv, RemoveManifest, Ages, ManifestDescribes, OfManifest,
         ReleaseTypeOK, None, Artifacts
  <2>2. CASE Cleared
    BY <1>1, <2>2 DEF ReleaseInv, Cleared, Ages, ManifestDescribes, OfManifest, ReleaseTypeOK,
         None, Artifacts
  <2>3. CASE DescribeArtifact
    BY <1>1, <2>3 DEF ReleaseInv, DescribeArtifact, Ages, ManifestDescribes, OfManifest,
         Artifacts
  <2>4. CASE WriteManifest
    BY <1>1, <2>4 DEF ReleaseInv, WriteManifest, Ages, ManifestDescribes, OfManifest,
         ReleaseTypeOK, None, Artifacts
  <2>5. QED
    BY <2>1, <2>2, <2>3, <2>4
<1>4. Progress' /\ MissingIsLater' /\ AcceptedIsCompared'
  BY <1>1 DEF ReleaseInv, Progress, MissingIsLater, MadeAgain, AcceptedIsCompared
<1>5. QED
  BY <1>2, <1>3, <1>4 DEF ReleaseInv

\* Where an artifact is missing beside a manifest, the script is clearing the
\* directory for a later build.
LEMMA ReadStep == ReleaseInv /\ ReadManifest => ReleaseInv'
<1> SUFFICES ASSUME ReleaseInv, ReadManifest PROVE ReleaseInv'
  OBVIOUS
<1>1. UNCHANGED <<built, clearing, artifact, described, manifest, sized, hashed>>
  BY DEF ReadManifest, RefuseRelease, builder
<1>2. Ages' /\ ManifestDescribes' /\ OfManifest'
  BY <1>1 DEF ReleaseInv, Ages, ManifestDescribes, OfManifest, Artifacts
<1>3. CASE RefuseRelease
  <2>1. UNCHANGED <<listed, missing>> /\ verdict' = "refused"
    BY <1>3 DEF RefuseRelease
  <2>2. ReleaseTypeOK' /\ Progress' /\ MissingIsLater' /\ AcceptedIsCompared'
    BY <1>1, <2>1 DEF ReleaseInv, ReleaseTypeOK, Progress, MissingIsLater, MadeAgain,
       AcceptedIsCompared, Artifacts
  <2>3. QED
    BY <1>2, <2>2 DEF ReleaseInv
<1>4. CASE ~RefuseRelease
  <2>1. /\ listed = None /\ manifest # None /\ verdict = "none"
        /\ listed' = manifest /\ verdict' = verdict
        /\ missing' = {i \in Artifacts : artifact[i] # manifest}
    BY <1>4 DEF ReadManifest
  <2>2. ReleaseTypeOK'
    BY <1>1, <2>1 DEF ReleaseInv, ReleaseTypeOK, Artifacts
  <2>3. Progress' /\ AcceptedIsCompared'
    BY <1>1, <2>1 DEF ReleaseInv, Progress, AcceptedIsCompared
  <2>4. ASSUME NEW i \in missing'
        PROVE  i \in Artifacts /\ manifest < built /\ artifact[i] = None /\ ~(i <= hashed)
    <3>1. i \in Artifacts /\ artifact[i] # manifest
      BY <2>1
    <3>2. clearing /\ artifact[i] = None
      BY <2>1, <3>1 DEF ReleaseInv, ReleaseTypeOK, ManifestDescribes, OfManifest
    <3>3. manifest < built /\ hashed = 0
      BY <2>1, <3>2 DEF ReleaseInv, Ages, Progress
    <3>4. ~(i <= 0)
      BY <3>1, ReleaseAssumption DEF Artifacts
    <3>5. QED
      BY <3>1, <3>2, <3>3, <3>4
  <2>5. MissingIsLater'
    BY <1>1, <2>1, <2>4 DEF MissingIsLater
  <2>6. QED
    BY <1>2, <2>2, <2>3, <2>5 DEF ReleaseInv
<1>5. QED
  BY <1>3, <1>4

\* A missing artifact that is compared is of a later build, and the same.
LEMMA CompareStep == ReleaseInv /\ (SizeArtifact \/ HashArtifact \/ Accept) => ReleaseInv'
<1> SUFFICES ASSUME ReleaseInv, SizeArtifact \/ HashArtifact \/ Accept PROVE ReleaseInv'
  OBVIOUS
<1>1. UNCHANGED <<built, clearing, artifact, described, manifest, listed, missing>>
  BY DEF SizeArtifact, HashArtifact, Accept, RefuseRelease, builder
<1>2. Ages' /\ ManifestDescribes' /\ OfManifest'
  BY <1>1 DEF ReleaseInv, Ages, ManifestDescribes, OfManifest, Artifacts
<1>3. ASSUME hashed' = hashed PROVE MissingIsLater'
  BY <1>1, <1>3 DEF ReleaseInv, MissingIsLater, MadeAgain
<1>4. CASE SizeArtifact
  <2>1. hashed' = hashed /\ sized' \in {sized, sized + 1} /\ sized = hashed
        /\ sized < Count /\ listed # None /\ verdict' \in {"none", "refused"}
    BY <1>4 DEF SizeArtifact, RefuseRelease
  <2>2. ReleaseTypeOK' /\ Progress' /\ AcceptedIsCompared'
    BY <1>1, <2>1, ReleaseAssumption
       DEF ReleaseInv, ReleaseTypeOK, Progress, AcceptedIsCompared, Artifacts
  <2>3. QED
    BY <1>2, <1>3, <2>1, <2>2 DEF ReleaseInv
<1>5. CASE HashArtifact
  <2>1. /\ hashed < sized /\ sized' = sized /\ verdict' \in {"none", "refused"}
        /\ \/ hashed' = hashed
           \/ hashed' = sized /\ SameDigest(sized)
    BY <1>5 DEF HashArtifact, RefuseRelease
  <2>2. ReleaseTypeOK' /\ Progress' /\ AcceptedIsCompared'
    BY <1>1, <2>1, ReleaseAssumption
       DEF ReleaseInv, ReleaseTypeOK, Progress, AcceptedIsCompared, Artifacts
  <2>3. MissingIsLater'
    <3>1. CASE hashed' = hashed
      BY <1>3, <3>1
    <3>2. CASE hashed' = sized /\ SameDigest(sized)
      <4>1. hashed \in Nat /\ sized \in Nat /\ sized <= hashed + 1
        BY ReleaseAssumption DEF ReleaseInv, ReleaseTypeOK, Progress
      <4>2. ASSUME NEW i \in missing, i <= sized PROVE MadeAgain(i)
        <5>1. i \in Nat /\ (i <= hashed \/ i = sized)
          BY <4>1, <4>2, ReleaseAssumption DEF ReleaseInv, ReleaseTypeOK, Artifacts
        <5>2. CASE i <= hashed
          BY <5>2 DEF ReleaseInv, MissingIsLater
        <5>3. CASE i = sized
          BY <3>2, <5>3 DEF ReleaseInv, MissingIsLater, SameDigest, MadeAgain
        <5>4. QED
          BY <5>1, <5>2, <5>3
      <4>3. QED
        BY <1>1, <3>2, <4>2 DEF ReleaseInv, MissingIsLater, MadeAgain
    <3>3. QED
      BY <2>1, <3>1, <3>2
  <2>4. QED
    BY <1>2, <2>2, <2>3 DEF ReleaseInv
<1>6. CASE Accept
  <2>1. /\ sized' = sized /\ hashed' = hashed /\ hashed = Count /\ listed # None
        /\ verdict' = "accepted"
    BY <1>6 DEF Accept
  <2>2. ReleaseTypeOK' /\ Progress' /\ AcceptedIsCompared'
    BY <1>1, <2>1 DEF ReleaseInv, ReleaseTypeOK, Progress, AcceptedIsCompared, Artifacts
  <2>3. QED
    BY <1>2, <1>3, <2>1, <2>2 DEF ReleaseInv
<1>7. QED
  BY <1>4, <1>5, <1>6

\* Nothing changes in a stuttering step.
LEMMA StutterStep == ReleaseInv /\ UNCHANGED release => ReleaseInv'
BY DEF ReleaseInv, ReleaseTypeOK, Ages, ManifestDescribes, OfManifest, Progress,
     MissingIsLater, MadeAgain, AcceptedIsCompared, Artifacts, release

\* The invariant is inductive.
LEMMA NextReleaseInv == ReleaseInv /\ [ReleaseNext]_release => ReleaseInv'
<1> SUFFICES ASSUME ReleaseInv, [ReleaseNext]_release PROVE ReleaseInv'
  OBVIOUS
<1>1. CASE Build
  BY <1>1, BuildStep
<1>2. CASE \E i \in Artifacts : Remove(i) \/ Place(i)
  BY <1>2, ArtifactStep
<1>3. CASE RemoveManifest \/ Cleared \/ DescribeArtifact \/ WriteManifest
  BY <1>3, ManifestStep
<1>4. CASE ReadManifest
  BY <1>4, ReadStep
<1>5. CASE SizeArtifact \/ HashArtifact \/ Accept
  BY <1>5, CompareStep
<1>6. CASE UNCHANGED release
  BY <1>6, StutterStep
<1>7. QED
  BY <1>1, <1>2, <1>3, <1>4, <1>5, <1>6 DEF ReleaseNext

\* The inductive invariant holds throughout.
LEMMA ReleaseInvariance == ReleaseSpec => []ReleaseInv
BY InitReleaseInv, NextReleaseInv, PTL DEF ReleaseSpec

\* A verified release is of one build but for bytes that builds share: each of
\* its artifacts was there when its manifest was read, or was made again by a
\* later build, for any number of artifacts, whatever builds have in common and
\* however often the script is started and stopped meanwhile.
THEOREM VerifiedIsOneBuild == ReleaseSpec => []AcceptedIsOneBuild
<1>1. ReleaseInv => AcceptedIsOneBuild
  <2> SUFFICES ASSUME ReleaseInv, verdict = "accepted", NEW i \in missing PROVE MadeAgain(i)
    BY DEF AcceptedIsOneBuild
  <2>1. hashed = Count /\ i <= Count
    BY ReleaseAssumption DEF ReleaseInv, AcceptedIsCompared, ReleaseTypeOK, Artifacts
  <2>2. QED
    BY <2>1 DEF ReleaseInv, MissingIsLater
<1>2. QED
  BY <1>1, ReleaseInvariance, PTL

-----------------------------------------------------------------------------
(***************************************************************************)
(* NodeSettings.  expected_generation keeps every acknowledged edit, for   *)
(* any number of handlers and of tries.  The invariant says of every       *)
(* request what it was made from, which it keeps however late it comes:    *)
(* the configuration of the generation it expects, and its handler's edit. *)
(***************************************************************************)
CallStates ==
  {"none", "sent", "late", "configured", "conflict", "lost", "acknowledged", "refused"}

Call == [state : CallStates, expected : Nat, content : SUBSET Edits]

SettingsTypeOK ==
  /\ configured \in Seq(SUBSET Edits)
  /\ tries \in [Edits -> 0 .. MaxTries]
  /\ call \in [Calls -> Call]

\* The configuration a request was made from.
Before(c) == Content(call[c].expected)

\* A request has in it what there was, and its edit.
MadeFromExpected ==
  \A c \in Calls :
    call[c].state # "none" =>
      /\ call[c].expected <= Generation
      /\ Before(c) \cup {c[1]} \subseteq call[c].content

\* What has been configured is there.
ConfiguredHolds ==
  \A c \in Calls :
    call[c].state \in {"configured", "acknowledged"} => c[1] \in Content(Generation)

SettingsInv == SettingsTypeOK /\ MadeFromExpected /\ ConfiguredHolds

-----------------------------------------------------------------------------
\* Without a configuration there is nothing to lose.
LEMMA InitSettingsInv == SettingsInit => SettingsInv
<1> SUFFICES ASSUME SettingsInit PROVE SettingsInv
  OBVIOUS
<1>1. SettingsTypeOK
  <2>1. NoCall \in Call
    BY DEF NoCall, Call, CallStates
  <2>2. QED
    BY <2>1, TriesAssumption DEF SettingsInit, SettingsTypeOK
<1>2. MadeFromExpected /\ ConfiguredHolds
  BY DEF SettingsInit, MadeFromExpected, ConfiguredHolds, NoCall
<1>3. QED
  BY <1>1, <1>2 DEF SettingsInv

\* A request in another state, of the same content, where the configuration is
\* as it was: the edit must be there already if the host has configured it.
LEMMA StateStep ==
  ASSUME SettingsInv, NEW c \in Calls, NEW s \in CallStates \ {"none"},
         call[c].state # "none",
         s \in {"configured", "acknowledged"} => call[c].state = "configured",
         call' = [call EXCEPT ![c].state = s],
         UNCHANGED <<configured, tries>>
  PROVE  SettingsInv'
<1>1. /\ call' \in [Calls -> Call]
      /\ \A d \in Calls : /\ call'[d].expected = call[d].expected
                          /\ call'[d].content = call[d].content
                          /\ call'[d].state = IF d = c THEN s ELSE call[d].state
  BY DEF SettingsInv, SettingsTypeOK, Call
<1>2. SettingsTypeOK'
  BY <1>1 DEF SettingsInv, SettingsTypeOK, Calls
<1>3. Generation' = Generation /\ \A g \in Nat : Content(g)' = Content(g)
  BY DEF Generation, Content
<1>4. MadeFromExpected'
  BY <1>1, <1>3 DEF SettingsInv, SettingsTypeOK, Call, MadeFromExpected, Before, Generation,
     Content, Calls
<1>5. ConfiguredHolds'
  BY <1>1, <1>3 DEF SettingsInv, ConfiguredHolds, Generation, Content, Calls
<1>6. QED
  BY <1>2, <1>4, <1>5 DEF SettingsInv

\* A handler reads the configuration and sends its edit of it.
LEMMA EditStep == ASSUME SettingsInv, NEW edit \in Edits, Edit(edit) PROVE SettingsInv'
<1> DEFINE n == tries[edit] + 1
           c == <<edit, n>>
           r == [state |-> "sent", expected |-> Generation,
                 content |-> Content(Generation) \cup {edit}]
<1>1. n \in 1 .. MaxTries /\ c \in Calls
  BY TriesAssumption DEF SettingsInv, SettingsTypeOK, Edit, Calls
<1>2. tries' = [tries EXCEPT ![edit] = n] /\ tries'[edit] = n /\ UNCHANGED configured
  BY DEF SettingsInv, SettingsTypeOK, Edit
<1>3. call' = [call EXCEPT ![c] = r]
  BY <1>2 DEF Edit
<1>4. Generation \in Nat /\ Content(Generation) \subseteq Edits
  BY DEF SettingsInv, SettingsTypeOK, Generation, Content
<1>5. r \in Call
  BY <1>4 DEF Call, CallStates
<1>6. SettingsTypeOK'
  BY <1>1, <1>2, <1>3, <1>5 DEF SettingsInv, SettingsTypeOK, Calls
<1>7. Generation' = Generation /\ \A g \in Nat : Content(g)' = Content(g)
  BY <1>2 DEF Generation, Content
<1>8. MadeFromExpected'
  <2> SUFFICES ASSUME NEW d \in Calls, call'[d].state # "none"
               PROVE  /\ call'[d].expected <= Generation'
                      /\ Before(d)' \cup {d[1]} \subseteq call'[d].content
    BY DEF MadeFromExpected, Calls
  <2>1. CASE d = c
    BY <1>2, <1>3, <1>4, <1>7, <2>1 DEF SettingsInv, SettingsTypeOK, Before, Content
  <2>2. CASE d # c
    BY <1>2, <1>3, <1>7, <2>2 DEF SettingsInv, SettingsTypeOK, MadeFromExpected, Before, Content
  <2>3. QED
    BY <2>1, <2>2
<1>9. ConfiguredHolds'
  <2> SUFFICES ASSUME NEW d \in Calls, call'[d].state \in {"configured", "acknowledged"}
               PROVE  d[1] \in Content(Generation)'
    BY DEF ConfiguredHolds, Calls
  <2>1. d # c /\ call'[d] = call[d]
    BY <1>3 DEF SettingsInv, SettingsTypeOK
  <2>2. QED
    BY <1>2, <2>1 DEF SettingsInv, ConfiguredHolds, Content, Generation
<1>10. QED
  BY <1>6, <1>8, <1>9 DEF SettingsInv

\* The host takes a configuration made from the one it has, so that all there
\* was is in it.
LEMMA ConfigureStep == ASSUME SettingsInv, NEW c \in Calls, Configure(c) PROVE SettingsInv'
<1> DEFINE r == [call[c] EXCEPT !.state = Answer(call[c].state, "configured")]
<1>1. /\ call[c] \in Call /\ call[c].state \in {"sent", "late"}
      /\ call[c].expected = Len(configured)
      /\ configured' = Append(configured, call[c].content)
      /\ call' = [call EXCEPT ![c] = r] /\ UNCHANGED tries
  BY DEF SettingsInv, SettingsTypeOK, Configure, Expected, Generation
<1>2. /\ r \in Call /\ r.expected = call[c].expected /\ r.content = call[c].content
      /\ r.state # "none"
  BY <1>1 DEF Call, CallStates, Answer
<1>3. /\ configured \in Seq(SUBSET Edits) /\ Len(configured) \in Nat
      /\ call[c].content \in SUBSET Edits
  BY <1>1 DEF SettingsInv, SettingsTypeOK, Call
<1>4. /\ configured' \in Seq(SUBSET Edits) /\ Len(configured') = Len(configured) + 1
      /\ \A g \in 1 .. Len(configured) : configured'[g] = configured[g]
      /\ configured'[Len(configured) + 1] = call[c].content
  BY <1>1, <1>3
<1>5. SettingsTypeOK'
  BY <1>1, <1>2, <1>4 DEF SettingsInv, SettingsTypeOK, Calls
<1>6. \A g \in 0 .. Len(configured) : Content(g)' = Content(g)
  BY <1>3, <1>4 DEF Content
<1>7. Content(Generation)' = call[c].content
  BY <1>3, <1>4 DEF Content, Generation
<1>8. Content(Generation) \cup {c[1]} \subseteq call[c].content
  BY <1>1 DEF SettingsInv, MadeFromExpected, Before, Generation
<1>9. MadeFromExpected'
  <2> SUFFICES ASSUME NEW d \in Calls, call'[d].state # "none"
               PROVE  /\ call'[d].expected <= Generation'
                      /\ Before(d)' \cup {d[1]} \subseteq call'[d].content
    BY DEF MadeFromExpected, Calls
  <2>1. /\ call[d].state # "none" /\ call[d] \in Call
        /\ call'[d].expected = call[d].expected /\ call'[d].content = call[d].content
    BY <1>1, <1>2 DEF SettingsInv, SettingsTypeOK
  <2>2. call[d].expected \in 0 .. Len(configured)
    BY <1>3, <2>1 DEF SettingsInv, MadeFromExpected, Generation, Call
  <2>3. Before(d)' = Before(d)
    BY <1>3, <1>4, <2>1, <2>2 DEF Before, Content
  <2>4. QED
    BY <1>3, <1>4, <2>1, <2>2, <2>3 DEF SettingsInv, MadeFromExpected, Generation
<1>10. ConfiguredHolds'
  <2> SUFFICES ASSUME NEW d \in Calls, call'[d].state \in {"configured", "acknowledged"}
               PROVE  d[1] \in call[c].content
    BY <1>7 DEF ConfiguredHolds, Calls
  <2>1. CASE d = c
    BY <1>8, <2>1
  <2>2. CASE d # c
    <3>1. call'[d] = call[d]
      BY <1>1, <2>2 DEF SettingsInv, SettingsTypeOK
    <3>2. QED
      BY <1>8, <3>1 DEF SettingsInv, ConfiguredHolds
  <2>3. QED
    BY <2>1, <2>2
<1>11. QED
  BY <1>5, <1>9, <1>10 DEF SettingsInv

\* Any other step of a request leaves the configuration alone.
LEMMA AnswerStep ==
  ASSUME SettingsInv, NEW c \in Calls, Conflict(c) \/ NodePluginConfigured(c) \/ AbandonCall(c)
  PROVE  SettingsInv'
<1>1. CASE Conflict(c)
  <2> DEFINE s == Answer(call[c].state, "conflict")
  <2>1. s \in CallStates \ {"none", "configured", "acknowledged"}
    BY <1>1 DEF Answer, CallStates
  <2>2. /\ call[c].state # "none" /\ UNCHANGED <<configured, tries>>
        /\ call' = [call EXCEPT ![c].state = s]
    BY <1>1 DEF Conflict
  <2> HIDE DEF s
  <2>3. QED
    BY <2>1, <2>2, StateStep
<1>2. CASE NodePluginConfigured(c)
  <2> DEFINE s == IF call[c].state = "configured" THEN "acknowledged" ELSE "refused"
  <2>1. /\ s \in CallStates \ {"none"}
        /\ s \in {"configured", "acknowledged"} => call[c].state = "configured"
    BY DEF CallStates
  <2>2. /\ call[c].state # "none" /\ UNCHANGED <<configured, tries>>
        /\ call' = [call EXCEPT ![c].state = s]
    BY <1>2 DEF NodePluginConfigured
  <2> HIDE DEF s
  <2>3. QED
    BY <2>1, <2>2, StateStep
<1>3. CASE AbandonCall(c)
  <2> DEFINE s == IF call[c].state = "sent" THEN "late" ELSE "lost"
  <2>1. s \in CallStates \ {"none", "configured", "acknowledged"}
    BY DEF CallStates
  <2>2. /\ call[c].state # "none" /\ UNCHANGED <<configured, tries>>
        /\ call' = [call EXCEPT ![c].state = s]
    BY <1>3 DEF AbandonCall
  <2> HIDE DEF s
  <2>3. QED
    BY <2>1, <2>2, StateStep
<1>4. QED
  BY <1>1, <1>2, <1>3

\* The invariant is inductive.
LEMMA NextSettingsInv == SettingsInv /\ [SettingsNext]_settings => SettingsInv'
<1> SUFFICES ASSUME SettingsInv, [SettingsNext]_settings PROVE SettingsInv'
  OBVIOUS
<1>1. CASE \E edit \in Edits : Edit(edit)
  BY <1>1, EditStep
<1>2. ASSUME NEW c \in Calls,
             Configure(c) \/ Conflict(c) \/ NodePluginConfigured(c) \/ AbandonCall(c)
      PROVE  SettingsInv'
  BY <1>2, ConfigureStep, AnswerStep
<1>3. CASE UNCHANGED settings
  BY <1>3 DEF settings, SettingsInv, SettingsTypeOK, MadeFromExpected, Before, ConfiguredHolds,
     Generation, Content, Calls
<1>4. QED
  BY <1>1, <1>2, <1>3 DEF SettingsNext

\* The inductive invariant holds throughout.
LEMMA SettingsInvariance == SettingsSpec => []SettingsInv
BY InitSettingsInv, NextSettingsInv, PTL DEF SettingsSpec

\* No acknowledged edit is lost, for any number of handlers, tries and late
\* requests.
THEOREM EditsAreKept == SettingsSpec => []NoLostUpdate
<1>1. SettingsInv => NoLostUpdate
  <2> SUFFICES ASSUME SettingsInv, NEW edit \in Edits, Acknowledged(edit)
               PROVE  edit \in Content(Generation)
    BY DEF NoLostUpdate
  <2>1. PICK n \in 1 .. MaxTries : call[<<edit, n>>].state = "acknowledged"
    BY DEF Acknowledged
  <2>2. <<edit, n>> \in Calls /\ <<edit, n>>[1] = edit
    BY DEF Calls
  <2>3. QED
    BY <2>1, <2>2 DEF SettingsInv, ConfiguredHolds
<1>2. QED
  BY <1>1, SettingsInvariance, PTL

-----------------------------------------------------------------------------
(***************************************************************************)
(* Documents.  What the invariant says of each is what it is at the hop it *)
(* has come to, if it has not been refused: how long it has become, and    *)
(* which of the validators it is past.                                     *)
(***************************************************************************)

\* A configuration is accepted as it is written; from its command on it has
\* neither space nor a character to escape left, and encoding it again does not change it.
ConfigurationIs ==
  CASE stage = "written"   -> document = written
    [] stage = "accepted"  -> document = written /\ ValidatePluginConfiguration(written)
    [] stage \in {"commanded", "delivered", "applied"} ->
         /\ document = Marshal(written) /\ ValidateCommand(Marshal(written))
         /\ stage # "commanded" => ValidatePluginConfiguration(Marshal(written))
    [] OTHER -> FALSE

ConfigurationInv ==
  /\ written \in Configurations /\ document.path = "configuration" /\ refused \in BOOLEAN
  /\ ~refused => ConfigurationIs
  /\ OnlyEscapesStop

Texts ==
  [path : {"configuration"}, plain : Nat, markup : Nat, separators : Nat,
   space : Nat, other : Nat]

\* Encoding a text again changes nothing of it, and its length after that is told
\* by what it has to escape.
LEMMA MarshalOnce ==
  ASSUME NEW text \in Texts
  PROVE  /\ Marshal(Marshal(text)) = Marshal(text)
         /\ Marshal(text).path = "configuration"
         /\ Length(Marshal(text)) = text.plain + 6 * Escaped(text)
         /\ Marshal(text).other = text.other
<1> DEFINE Text(plain, markup, separators, space, other) ==
             [path |-> "configuration", plain |-> plain, markup |-> markup,
              separators |-> separators, space |-> space, other |-> other]
           m == Text(text.plain + 6 * Escaped(text), 0, 0, 0, text.other)
<1>1. ASSUME NEW t \in Texts
      PROVE  Marshal(t) = Text(t.plain + 6 * Escaped(t), 0, 0, 0, t.other)
  <2> DEFINE one   == [t EXCEPT !.plain = @ + 6 * Escaped(t)]
             two   == [one EXCEPT !.markup = 0]
             three == [two EXCEPT !.separators = 0]
  <2>1. one = Text(t.plain + 6 * Escaped(t), t.markup, t.separators, t.space, t.other)
    BY DEF Texts
  <2>2. Marshal(t) = [three EXCEPT !.space = 0]
    BY DEF Marshal
  <2> HIDE DEF one
  <2>3. two = Text(t.plain + 6 * Escaped(t), 0, t.separators, t.space, t.other)
    BY <2>1
  <2> HIDE DEF two
  <2>4. three = Text(t.plain + 6 * Escaped(t), 0, 0, t.space, t.other)
    BY <2>3
  <2> HIDE DEF three
  <2>5. QED
    BY <2>2, <2>4
<1>2. Marshal(text) = m
  BY <1>1
<1>3. m \in Texts
  BY DEF Texts, Escaped
<1>4. Escaped(m) = 0 /\ m.plain + 6 * 0 = m.plain
  BY <1>3 DEF Escaped, Texts
<1>5. Marshal(m) = m
  BY <1>1, <1>3, <1>4
<1>6. Length(m) = text.plain + 6 * Escaped(text)
  BY <1>3 DEF Length, Texts
<1>7. QED
  BY <1>2, <1>5, <1>6

LEMMA ConfigurationInvariance == ConfigurationSpec => []ConfigurationInv
<1>1. Written(Configurations) => ConfigurationInv
  BY DEF Written, Configurations, ConfigurationInv, ConfigurationIs, OnlyEscapesStop
<1>2. ConfigurationInv /\ [ConfigurationNext]_paper => ConfigurationInv'
  <2> SUFFICES ASSUME ConfigurationInv, [ConfigurationNext]_paper PROVE ConfigurationInv'
    OBVIOUS
  <2> DEFINE m == Marshal(written)
  <2>1. /\ written \in Texts
        /\ written.other <= MaximumOtherBytes
    <3>1. /\ PlainBytes \subseteq Nat /\ MarkupBytes \subseteq Nat
          /\ Separators \subseteq Nat /\ SpaceBytes \subseteq Nat
      BY BytesAssumption
    <3>2. \A n \in OtherBytes : n \in Nat /\ n <= MaximumOtherBytes
      <4>1. OtherBytes \subseteq 0 .. MaximumOtherBytes
        BY BytesAssumption
      <4>2. MaximumOtherBytes \in Nat
        BY DEF MaximumOtherBytes
      <4> TAKE n \in OtherBytes
      <4>3. n \in 0 .. MaximumOtherBytes
        BY <4>1
      <4> QED
        BY <4>2, <4>3
    <3>3. \A n \in OtherBytes : n \in Nat
      BY <3>2
    <3>4. written \in [path : {"configuration"}, plain : PlainBytes, markup : MarkupBytes,
                       separators : Separators, space : SpaceBytes, other : OtherBytes]
      BY DEF ConfigurationInv, Configurations
    <3>5. written.other <= MaximumOtherBytes
      BY <3>2, <3>4
    <3>6. written \in Texts
      BY <3>1, <3>3, <3>4 DEF Texts
    <3> QED
      BY <3>5, <3>6
  <2>2. /\ Marshal(m) = m /\ m.path = "configuration" /\ m.other = written.other
        /\ Length(m) = written.plain + 6 * Escaped(written)
    BY <2>1, MarshalOnce
  <2>3. /\ Length(m) \in Nat /\ written.other \in Nat /\ written.path = "configuration"
    BY <2>1, <2>2 DEF Texts, Escaped
  <2> HIDE DEF m
  <2>4. CASE ConfigureNodePlugin
    BY <2>3, <2>4 DEF ConfigureNodePlugin, ConfigurationHop, Hop, ConfigurationInv,
       ConfigurationIs, OnlyEscapesStop, IsConfiguration
  <2>5. CASE NewPluginReconcileCommand
    <3>1. /\ document = written /\ ValidatePluginConfiguration(written)
          /\ stage = "accepted" /\ stage' = "commanded" /\ written' = written
          /\ refused' = ~ValidateCommand(m) /\ document' = IF refused' THEN document ELSE m
      BY <2>5 DEF NewPluginReconcileCommand, ConfigurationHop, Hop, ConfigurationInv,
         ConfigurationIs, m
    <3>2. ~ValidateCommand(m) => Length(m) > MaximumPluginConfigurationBytes
      <4>1. /\ written.other \in Nat /\ written.other <= 30000 /\ Length(m) \in Nat
            /\ ValidateCommand(m) <=> Length(m) + written.other <= MaximumCommandPayloadBytes
        BY <2>1, <2>2, <2>3 DEF ValidateCommand, MaximumOtherBytes
      <4>2. QED
        BY <4>1 DEF MaximumCommandPayloadBytes, MaximumPluginConfigurationBytes
    <3>3. refused' => written.plain + 6 * Escaped(written) > MaximumPluginConfigurationBytes
      BY <2>2, <3>1, <3>2
    <3>4. refused' \in BOOLEAN
      BY <3>1
    <3>5. ConfigurationIs' \/ refused'
      BY <3>1 DEF ConfigurationIs, m
    <3>6. document'.path = "configuration" /\ written' \in Configurations
      BY <2>2, <2>3, <3>1 DEF ConfigurationInv
    <3>7. QED
      BY <3>1, <3>3, <3>4, <3>5, <3>6 DEF ConfigurationInv, OnlyEscapesStop
  <2>6. CASE DecodePluginReconcileCommand \/ ApplyConfiguration
    <3>1. /\ document = m /\ ValidateCommand(m) /\ document' = m /\ written' = written
          /\ stage' \in {"delivered", "applied"} /\ refused' = ~ValidatePluginConfiguration(m)
      BY <2>2, <2>6 DEF DecodePluginReconcileCommand, ApplyConfiguration, ConfigurationHop, Hop,
         ConfigurationInv, ConfigurationIs, m
    <3>2. refused' => written.plain + 6 * Escaped(written) > MaximumPluginConfigurationBytes
      <4>1. ~(Length(m) <= MaximumPluginConfigurationBytes)
              => Length(m) > MaximumPluginConfigurationBytes
        BY <2>3 DEF MaximumPluginConfigurationBytes
      <4> QED
        BY <2>2, <3>1, <4>1 DEF ValidatePluginConfiguration
    <3>3. refused' \in BOOLEAN
      BY <3>1
    <3>4. ConfigurationIs' \/ refused'
      BY <3>1 DEF ConfigurationIs, m
    <3>5. document'.path = "configuration" /\ written' \in Configurations
      BY <2>2, <3>1 DEF ConfigurationInv
    <3>6. QED
      BY <3>1, <3>2, <3>3, <3>4, <3>5 DEF ConfigurationInv, OnlyEscapesStop
  <2>7. CASE UNCHANGED paper
    BY <2>7 DEF paper, ConfigurationInv, ConfigurationIs, OnlyEscapesStop, IsConfiguration
  <2>8. QED
    BY <2>4, <2>5, <2>6, <2>7 DEF ConfigurationNext
<1>3. QED
  BY <1>1, <1>2, PTL DEF ConfigurationSpec

\* Of whatever characters and whatever length a configuration is that the
\* center accepts, only the escapes it needs stop it on its way.
THEOREM AcceptedArrivesUnlessEscaped == ConfigurationSpec => []OnlyEscapesStop
<1>1. ConfigurationInv => OnlyEscapesStop
  BY DEF ConfigurationInv
<1>2. QED
  BY <1>1, ConfigurationInvariance, PTL

-----------------------------------------------------------------------------
\* What is rendered has been requested, and what is requested is catalogued.
SubscriptionInv ==
  /\ written \in Requests /\ document = written /\ refused \in BOOLEAN
  /\ stage \in {"requested", "rendered"} => ValidateReplaceServicesRequest(written)
  /\ stage = "catalogued" /\ ~refused => ValidateReplaceServicesRequest(written)
  /\ CataloguedServicesRender

\* The largest contribution that is still to fit, as often as it may come.
LEMMA ProductBound ==
  ASSUME NEW a \in Nat, NEW b \in Nat, a <= 64, b <= 2719
  PROVE  a * b <= MaximumSubscriptionBytes
<1>1. a * b \in Nat /\ a * b <= 64 * 2719
  OBVIOUS
<1>2. QED
  BY <1>1 DEF MaximumSubscriptionBytes

\* A quarter of the services of a catalog, with room in their names, render.
LEMMA RoomEnough ==
  ASSUME NEW r \in Requests, ValidateReplaceServicesRequest(r),
         r.name <= MaximumNameLength - Suffix, r.services <= MaximumServices \div 4
  PROVE  ValidateRenderSubscriptionResponse(r)
<1>1. /\ r.services \in Nat /\ r.id \in Nat /\ r.name \in Nat /\ r.kind \in Characters
      /\ r.services <= 64 /\ r.id <= 64 /\ r.name <= 89
  BY RequestsAssumption DEF Requests, ValidateReplaceServicesRequest, MaximumNameLength, Suffix,
     MaximumServices
<1>2. \E u, j \in 1 .. 12 : InURI[r.kind] = u /\ InJSON[r.kind] = j /\ j <= 6
  BY <1>1 DEF Characters, InURI, InJSON
<1>3. PICK u \in 1 .. 12, j \in 1 .. 6 : InURI[r.kind] = u /\ InJSON[r.kind] = j
  BY <1>2
<1>4. \A n \in 0 .. 89 : n * 12 <= 1068
  OBVIOUS
<1>5. r.name * u \in 0 .. 1068 /\ r.name * j \in 0 .. 534
  BY <1>1
<1> DEFINE total == URI(r) + Mihomo(r) + SingBox(r)
<1>6. /\ URI(r) = 75 + r.id + r.name * u + 11 + 4
       /\ Mihomo(r) = 140 + r.id + r.name * j + 11
       /\ SingBox(r) = 139 + r.id + r.name * j + 11
  BY <1>3 DEF URI, Mihomo, SingBox, Suffix
<1>7. /\ URI(r) \in Nat /\ Mihomo(r) \in Nat /\ SingBox(r) \in Nat
      /\ URI(r) <= 1222 /\ Mihomo(r) <= 749 /\ SingBox(r) <= 748
  <2> DEFINE a == r.name * u
             b == r.name * j
             d == r.id
  <2>1. a \in 0 .. 1068 /\ b \in 0 .. 534 /\ d \in 0 .. 64
    BY <1>1, <1>5
  <2>2. URI(r) = 75 + d + a + 11 + 4 /\ Mihomo(r) = 140 + d + b + 11 /\ SingBox(r) = 139 + d + b + 11
    BY <1>6
  <2> HIDE DEF a, b, d
  <2>3. QED
    BY <2>1, <2>2
<1>8. total \in Nat /\ total <= 2719
  BY <1>7
<1> HIDE DEF total
<1>9. r.services * total <= MaximumSubscriptionBytes
  BY <1>1, <1>8, ProductBound
<1>10. ValidName(r.name + Suffix, r.kind)
  BY <1>1 DEF ValidName, Suffix, MaximumNameLength
<1>11. /\ URI(r) <= 8192
       /\ Mihomo(r) <= MaximumFragmentBytes /\ SingBox(r) <= MaximumFragmentBytes
  BY <1>7 DEF MaximumFragmentBytes
<1>12. QED
  BY <1>9, <1>10, <1>11 DEF ValidateRenderSubscriptionResponse, total

LEMMA SubscriptionInvariance == SubscriptionSpec => []SubscriptionInv
<1>1. Written(Requests) => SubscriptionInv
  BY DEF Written, SubscriptionInv, CataloguedServicesRender
<1>2. SubscriptionInv /\ [SubscriptionNext]_paper => SubscriptionInv'
  <2> SUFFICES ASSUME SubscriptionInv, [SubscriptionNext]_paper PROVE SubscriptionInv'
    OBVIOUS
  <2>1. CASE ReplaceServices
    BY <2>1 DEF ReplaceServices, Hop, SubscriptionInv, CataloguedServicesRender
  <2>2. CASE TakeRequest
    <3>1. /\ ValidateReplaceServicesRequest(written) /\ stage' = "requested"
          /\ document' = document /\ written' = written
          /\ refused' = ~ValidateRenderSubscriptionRequest(written)
      BY <2>2 DEF TakeRequest, Hop, SubscriptionInv
    <3>2. ValidateRenderSubscriptionRequest(written)
      BY <3>1 DEF ValidateReplaceServicesRequest, ValidateRenderSubscriptionRequest
    <3>3. QED
      BY <3>1, <3>2 DEF SubscriptionInv, CataloguedServicesRender
  <2>3. CASE RenderSubscription
    <3>1. /\ ValidateReplaceServicesRequest(written) /\ stage' = "rendered"
          /\ document' = document /\ written' = written /\ written \in Requests
          /\ refused' = ~ValidateRenderSubscriptionResponse(written)
      BY <2>3 DEF RenderSubscription, Hop, SubscriptionInv
    <3>2. /\ written.name \in Nat /\ written.services \in Nat
          /\ MaximumNameLength - Suffix \in Nat /\ MaximumServices \div 4 \in Nat
      BY <3>1, RequestsAssumption DEF Requests, MaximumNameLength, Suffix, MaximumServices
    <3>3. \/ written.name > MaximumNameLength - Suffix
          \/ written.services > MaximumServices \div 4
          \/ ValidateRenderSubscriptionResponse(written)
      BY <3>1, <3>2, RoomEnough
    <3>4. QED
      BY <3>1, <3>3 DEF SubscriptionInv, CataloguedServicesRender
  <2>4. CASE UNCHANGED paper
    BY <2>4 DEF paper, SubscriptionInv, CataloguedServicesRender
  <2>5. QED
    BY <2>1, <2>2, <2>3, <2>4 DEF SubscriptionNext
<1>3. QED
  BY <1>1, <1>2, PTL DEF SubscriptionSpec

\* Whatever numbers and lengths a catalog has that the center accepts, it can
\* be asked for, and a quarter of it, with room in its names, is rendered.
THEOREM CatalogRenders == SubscriptionSpec => []CataloguedServicesRender
<1>1. SubscriptionInv => CataloguedServicesRender
  BY DEF SubscriptionInv
<1>2. QED
  BY <1>1, SubscriptionInvariance, PTL

-----------------------------------------------------------------------------
\* Until its command is decoded a node is what its author wrote; then it has the
\* version of the command.  Past its registration it was fit to register, and
\* past its command the version it is to run is one.
NodeIs ==
  /\ stage = "written" => document = written
  /\ stage \in {"registered", "named", "listed", "greeted", "beating", "commanded"} =>
       document = written /\ ValidateRegisterRequest(written)
  /\ stage \in {"switched", "confirmed", "reported"} =>
       /\ document = [written EXCEPT !.version = written.update]
       /\ ValidateRegisterRequest(written)
  /\ stage \in {"commanded", "switched", "confirmed", "reported"} =>
       ValidateSemanticVersion(written.update)
  /\ stage = "named" => written.name \in 1 .. 100

NodeInv ==
  /\ written \in Identities /\ refused \in BOOLEAN
  /\ ~refused => NodeIs
  /\ RegisteredNodeServes

\* What a step of the node's path has to show: what the node then is, or why it
\* is refused there.
LEMMA NodeHopKeepsInv ==
  ASSUME NodeInv, written' = written, refused' \in BOOLEAN, ~refused' => NodeIs',
         refused' => \/ stage' \in {"registered", "named"}
                     \/ stage' = "listed" /\ written.name * written.wide > 80
                     \/ stage' = "commanded" /\ written.update \notin 5 .. 128
                     \/ stage' = "confirmed" /\ written.update \in 65 .. 128
  PROVE  NodeInv'
BY DEF NodeInv, RegisteredNodeServes

\* A name that is not empty has bytes.
LEMMA NonZeroProduct ==
  ASSUME NEW a \in 1 .. 100, NEW b \in 1 .. 4
  PROVE  a * b \in Nat \ {0}
OBVIOUS

LEMMA NodeInvariance == NodeSpec => []NodeInv
<1>1. Written(Identities) => NodeInv
  BY DEF Written, NodeInv, NodeIs, RegisteredNodeServes
<1>2. NodeInv /\ [NodeNext]_paper => NodeInv'
  <2> SUFFICES ASSUME NodeInv, [NodeNext]_paper PROVE NodeInv'
    OBVIOUS
  <2>1. /\ written.version \in Nat /\ written.hostname \in Nat /\ written.update \in Nat
        /\ written.capabilities \in Nat /\ written.name \in Nat /\ written.wide \in 1 .. 4
        /\ [written EXCEPT !.version = written.update].version = written.update
        /\ [written EXCEPT !.version = written.update].capabilities = written.capabilities
    BY IdentityAssumption DEF NodeInv, Identities
  <2>2. CASE Register
    BY <2>2, NodeHopKeepsInv DEF Register, NodeHop, Hop, NodeInv, NodeIs
  <2>3. CASE RegisterResponse
    BY <2>3, NodeHopKeepsInv DEF RegisterResponse, NodeHop, Hop, NodeInv, NodeIs
  <2>4. CASE ListNodes
    <3>1. stage = "named" /\ document = written /\ ValidateRegisterRequest(written)
      BY <2>4 DEF ListNodes, NodeHop, Hop, NodeInv, NodeIs
    <3>2. /\ stage' = "listed" /\ written' = written /\ refused' = ~ValidateListedNode(written)
          /\ document' = document
      BY <2>4, <3>1 DEF ListNodes, NodeHop, Hop
    <3>3. ~ValidateListedNode(written) => written.name * written.wide > 80
      <4>1. written.name \in 1 .. 100
        BY <2>4 DEF ListNodes, NodeHop, Hop, NodeInv, NodeIs
      <4>2. written.name * written.wide \in Nat \ {0}
        BY <2>1, <4>1, NonZeroProduct
      <4>3. QED
        BY <4>2 DEF ValidateListedNode
    <3>4. QED
      BY <3>1, <3>2, <3>3, NodeHopKeepsInv DEF NodeIs
  <2>5. CASE Hello \/ Beat
    <3>1. /\ document = written /\ ValidateRegisterRequest(written)
          /\ stage' \in {"greeted", "beating"} /\ written' = written /\ document' = written
          /\ refused' \in BOOLEAN
          /\ refused' => ~ValidateAgentHello(written) \/ ~ValidateAgentVersion(written.version)
      BY <2>5 DEF Hello, Beat, NodeHop, Hop, NodeInv, NodeIs
    <3>2. ~refused'
      BY <3>1 DEF ValidateRegisterRequest, ValidateAgentHello
    <3>3. QED
      BY <3>1, <3>2, NodeHopKeepsInv DEF NodeIs
  <2>6. CASE NewAgentUpdateCommand
    <3>1. /\ document = written /\ ValidateRegisterRequest(written)
          /\ stage' = "commanded" /\ written' = written /\ document' = written
          /\ refused' = ~ValidateSemanticVersion(written.update)
      BY <2>6 DEF NewAgentUpdateCommand, NodeHop, Hop, NodeInv, NodeIs
    <3>2. QED
      BY <3>1, NodeHopKeepsInv DEF NodeIs, ValidateSemanticVersion
  <2>7. CASE DecodeAgentUpdateCommand
    <3>1. /\ document = written /\ ValidateRegisterRequest(written)
          /\ ValidateSemanticVersion(written.update)
      BY <2>7 DEF DecodeAgentUpdateCommand, NodeHop, Hop, NodeInv, NodeIs
    <3>2. /\ stage' = "switched" /\ written' = written /\ refused' = FALSE
          /\ document' = [written EXCEPT !.version = written.update]
      BY <2>7, <3>1 DEF DecodeAgentUpdateCommand, NodeHop, Hop
    <3>3. NodeIs'
      BY <3>1, <3>2 DEF NodeIs
    <3>4. QED
      BY <3>2, <3>3, NodeHopKeepsInv
  <2>8. CASE ConfirmUpdate
    <3>1. /\ document = [written EXCEPT !.version = written.update]
          /\ ValidateRegisterRequest(written) /\ ValidateSemanticVersion(written.update)
          /\ stage' = "confirmed" /\ written' = written /\ document' = document
          /\ refused' = ~ValidateAgentHello(document)
      BY <2>8 DEF ConfirmUpdate, NodeHop, Hop, NodeInv, NodeIs
    <3>2. ValidateAgentHello(document) <=> ValidateAgentVersion(written.update)
      BY <2>1, <3>1 DEF ValidateRegisterRequest, ValidateAgentHello
    <3>3. ValidateAgentVersion(written.update) \/ written.update \in 65 .. 128
      BY <2>1, <3>1 DEF ValidateSemanticVersion, ValidateAgentVersion
    <3>4. QED
      BY <3>1, <3>2, <3>3, NodeHopKeepsInv DEF NodeIs
  <2>9. CASE ReportUpdate
    <3>1. /\ document = [written EXCEPT !.version = written.update]
          /\ ValidateRegisterRequest(written) /\ ValidateSemanticVersion(written.update)
          /\ stage' = "reported" /\ written' = written /\ document' = document
          /\ refused' = ~ValidateSemanticVersion(document.version)
      BY <2>9 DEF ReportUpdate, NodeHop, Hop, NodeInv, NodeIs
    <3>2. QED
      BY <2>1, <3>1, NodeHopKeepsInv DEF NodeIs
  <2>10. CASE UNCHANGED paper
    BY <2>10 DEF paper, NodeInv, NodeIs, RegisteredNodeServes
  <2>11. QED
    BY <2>2, <2>3, <2>4, <2>5, <2>6, <2>7, <2>8, <2>9, <2>10 DEF NodeNext
<1>3. QED
  BY <1>1, <1>2, PTL DEF NodeSpec

\* Whatever a node is called and whatever it runs: once it is registered and
\* named, only its name's bytes and the version it is told to run can stop it.
THEOREM RegisteredServes == NodeSpec => []RegisteredNodeServes
<1>1. NodeInv => RegisteredNodeServes
  BY DEF NodeInv
<1>2. QED
  BY <1>1, NodeInvariance, PTL

-----------------------------------------------------------------------------
\* A plugin is at every stage what its manifest says, and past its loading that
\* is a manifest that was validated.
PluginInv ==
  /\ written \in Manifests /\ document = written /\ refused \in BOOLEAN
  /\ stage \notin {"written", "loaded"} \/ (stage = "loaded" /\ ~refused) =>
       ValidateManifest(written)
  /\ stage = "published" /\ ~refused => ValidKind(KindLength(written))
  /\ stage = "deployed" /\ ~refused => ValidatePluginReconcileCommand(written)
  /\ InstalledPluginRuns

\* What a later step of the plugin's path has to show: why the plugin may be
\* refused there.
LEMMA PluginHopKeepsInv ==
  ASSUME PluginInv, ValidateManifest(written), written' = written, document' = document,
         refused' \in BOOLEAN, stage' = "published" /\ ~refused' => ValidKind(KindLength(written)),
         stage' = "deployed" => ValidatePluginReconcileCommand(written),
         refused' => \/ stage' \in {"loaded", "installed"}
                     \/ stage' = "active" /\ ~(written.permissions \subseteq CenterPermissions)
                     \/ stage' = "published" /\ written.id + written.suffix > 120
                     \/ stage' = "notified" /\ written.subject \notin 1 .. 120
                     \/ stage' = "reported" /\ written.capabilities > 64
  PROVE  PluginInv'
BY DEF PluginInv, InstalledPluginRuns

LEMMA PluginInvariance == PluginSpec => []PluginInv
<1>1. Written(Manifests) => PluginInv
  BY DEF Written, PluginInv, InstalledPluginRuns
<1>2. PluginInv /\ [PluginNext]_paper => PluginInv'
  <2> SUFFICES ASSUME PluginInv, [PluginNext]_paper PROVE PluginInv'
    OBVIOUS
  <2>1. /\ document = written /\ written.id \in Nat /\ written.suffix \in Nat
        /\ written.capabilities \in Nat
    BY ManifestAssumption DEF PluginInv
  <2>2. ValidateManifest(written) =>
          /\ ValidatePluginID(written.id) /\ ValidateSemanticVersion(written.version)
          /\ Has(written, "node") => written.roles["node"] \in 1 .. 256
    BY DEF ValidateManifest, ValidateArtifacts, MaximumArtifact, Has
  <2>3. ~ValidKind(KindLength(written)) => written.id + written.suffix > 120
    BY <2>1 DEF ValidKind, KindLength
  <2>4. CASE LoadManifest
    BY <2>1, <2>4 DEF LoadManifest, PluginHop, Hop, PluginInv, InstalledPluginRuns
  <2>5. CASE Install
    BY <2>1, <2>5, PluginHopKeepsInv DEF Install, PluginHop, Hop, PluginInv
  <2>6. CASE Identify
    BY <2>1, <2>2, <2>6, PluginHopKeepsInv DEF Identify, PluginHop, Hop, PluginInv
  <2>7. CASE Activate
    BY <2>1, <2>7, PluginHopKeepsInv DEF Activate, PluginHop, Hop, PluginInv, ValidatePermissions
  <2>8. CASE Publish
    BY <2>1, <2>3, <2>8, PluginHopKeepsInv DEF Publish, PluginHop, Hop, PluginInv
  <2>9. CASE Consume
    BY <2>1, <2>9, PluginHopKeepsInv DEF Consume, PluginHop, Hop, PluginInv
  <2>10. CASE Notify
    BY <2>1, <2>10, PluginHopKeepsInv DEF Notify, PluginHop, Hop, PluginInv
  <2>11. CASE Deploy
    <3>1. ValidateManifest(written) /\ Has(written, "node")
      BY <2>1, <2>11 DEF Deploy, PluginHop, Hop, PluginInv
    <3>2. ValidatePluginReconcileCommand(written)
      BY <2>2, <3>1 DEF ValidatePluginReconcileCommand, ValidatePluginIdentity,
         MaximumPluginArtifact
    <3>3. QED
      BY <2>1, <2>11, <3>1, <3>2, PluginHopKeepsInv DEF Deploy, PluginHop, Hop, PluginInv
  <2>12. CASE Deliver
    BY <2>1, <2>12, PluginHopKeepsInv DEF Deliver, PluginHop, Hop, PluginInv
  <2>13. CASE Start
    BY <2>1, <2>2, <2>13, PluginHopKeepsInv DEF Start, PluginHop, Hop, PluginInv
  <2>14. CASE Report
    BY <2>1, <2>2, <2>14, PluginHopKeepsInv DEF Report, PluginHop, Hop, PluginInv,
       ValidatePluginIdentity
  <2>15. CASE UNCHANGED paper
    BY <2>15 DEF paper, PluginInv, InstalledPluginRuns
  <2>16. QED
    BY <2>4, <2>5, <2>6, <2>7, <2>8, <2>9, <2>10, <2>11, <2>12, <2>13, <2>14, <2>15
       DEF PluginNext
<1>3. QED
  BY <1>1, <1>2, PTL DEF PluginSpec

\* Whatever a manifest promises, what it was loaded and installed with stops it
\* nowhere later.
THEOREM InstalledRuns == PluginSpec => []InstalledPluginRuns
<1>1. PluginInv => InstalledPluginRuns
  BY DEF PluginInv
<1>2. QED
  BY <1>1, PluginInvariance, PTL

-----------------------------------------------------------------------------
\* Numbers of items and of bytes in each, and what they come to in base64.
LEMMA SmallProduct ==
  ASSUME NEW n \in Nat, NEW b \in Nat, n <= 64, b <= 64
  PROVE  n * b <= 4096
OBVIOUS

LEMMA Base64OfOne ==
  ASSUME NEW n \in Nat, NEW b \in Nat, n <= 1, b <= 524288
  PROVE  n * (4 * ((b + 2) \div 3)) <= 1048576
<1>1. 4 * ((b + 2) \div 3) \in Nat /\ 4 * ((b + 2) \div 3) <= 1048576
  OBVIOUS
<1>2. n = 0 \/ n = 1
  OBVIOUS
<1> DEFINE e == 4 * ((b + 2) \div 3)
<1> HIDE DEF e
<1>3. QED
  BY <1>1, <1>2 DEF e

LEMMA Base64OfMany ==
  ASSUME NEW n \in Nat, NEW b \in Nat, n <= 256, n * b <= 524288
  PROVE  n * (4 * ((b + 2) \div 3)) <= 1048576
<1> DEFINE e == (b + 2) \div 3
<1>1. e \in Nat /\ 3 * e <= b + 2
  OBVIOUS
<1> HIDE DEF e
<1>2. n * (3 * e) <= n * (b + 2)
  BY <1>1
<1>3. n * (b + 2) = n * b + 2 * n /\ n * (3 * e) = 3 * (n * e) /\ n * (4 * e) = 4 * (n * e)
  BY <1>1
<1>4. n * b \in Nat /\ n * e \in Nat
  BY <1>1
<1> DEFINE p == n * b
           q == n * e
<1>5. /\ p \in Nat /\ q \in Nat /\ p <= 524288 /\ 3 * q <= p + 2 * n
      /\ n * (4 * e) = 4 * q
  BY <1>2, <1>3, <1>4
<1> HIDE DEF p, q
<1>6. 4 * q <= 1048576
  BY <1>5
<1>7. QED
  BY <1>5, <1>6 DEF e

\* Documents whose validator limits their bytes in all, or so few items of so
\* few bytes, fit into a file.
LargeKinds ==
  {"agent-event-batch", "node-plugin-info", "center-plugin-nodes", "center-plugin-services",
   "center-plugin-events", "center-plugin-published-events"}

LEMMA FilesHoldTheRest ==
  ASSUME NEW d, d.kind \in FixtureKinds \ LargeKinds, d.items \in Nat, d.bytes \in Nat,
         WithinLimits(d)
  PROVE  FileBytes(d) <= maxContractFileSize
<1>1. maxContractFileSize = 1048576 /\ KiB = 1024 /\ Unlimited = 4194304
  BY DEF maxContractFileSize, KiB, Unlimited
<1>2. CASE d.kind \in {"manifest", "envelope", "agent-envelope"}
  <2>1. Caps[d.kind].all = maxContractFileSize
    BY <1>2 DEF Caps, Cap, LongestBody, maxContractFileSize, FixtureKinds, JSONKinds, ProtoKinds, PairKinds
  <2>2. FileBytes(d) = d.items * d.bytes
    BY <1>2 DEF FileBytes, InBase64, PairKinds
  <2>3. QED
    BY <2>1, <2>2 DEF WithinLimits
<1>3. CASE d.kind \in {"agent-plugin-reconcile", "agent-policy-reconcile", "center-plugin-status"}
  <2>1. Caps[d.kind].all \in {512 * 1024, 512}
    BY <1>1, <1>3 DEF Caps, Cap, FixtureKinds, JSONKinds, ProtoKinds, PairKinds
  <2>2. FileBytes(d) = d.items * d.bytes
    BY <1>3 DEF FileBytes, InBase64, PairKinds
  <2>3. d.items * d.bytes <= 512 * 1024 \/ d.items * d.bytes <= 512
    BY <2>1 DEF WithinLimits
  <2>4. d.items * d.bytes \in Nat
    OBVIOUS
  <2>5. QED
    BY <1>1, <2>2, <2>3, <2>4
<1>4. CASE d.kind \in {"agent-register", "agent-plugin-status", "center-plugin-activation"}
  <2>1. Caps[d.kind] \in {Cap(64, 64, Unlimited), Cap(5, 27, Unlimited)}
    BY <1>4 DEF Caps, FixtureKinds, JSONKinds, ProtoKinds, PairKinds
  <2>2. d.items <= 64 /\ d.bytes <= 64
    <3>1. \/ d.items <= 64 /\ d.bytes <= 64
          \/ d.items <= 5 /\ d.bytes <= 27
      BY <2>1 DEF Cap, WithinLimits
    <3>2. QED
      BY <3>1
  <2>3. FileBytes(d) = d.items * d.bytes
    BY <1>4 DEF FileBytes, InBase64, PairKinds
  <2>4. d.items * d.bytes <= 4096 /\ d.items * d.bytes \in Nat
    BY <2>2, SmallProduct
  <2>5. QED
    BY <1>1, <2>3, <2>4
<1>5. CASE d.kind = "center-plugin-ui"
  <2>1. Caps[d.kind] = Cap(1, 524288, 524288)
    BY <1>1, <1>5 DEF Caps, FixtureKinds, JSONKinds, ProtoKinds, PairKinds
  <2>2. d.items <= 1 /\ d.bytes <= 524288
    BY <2>1 DEF Cap, WithinLimits
  <2>3. FileBytes(d) = d.items * (4 * ((d.bytes + 2) \div 3))
    BY <1>5 DEF FileBytes, InBase64
  <2>4. QED
    BY <1>1, <2>2, <2>3, Base64OfOne
<1>6. CASE d.kind = "center-plugin-subscription"
  <2>1. Caps[d.kind] = Cap(256, 524288, 524288)
    BY <1>1, <1>6 DEF Caps, FixtureKinds, JSONKinds, ProtoKinds, PairKinds
  <2>2. d.items <= 256 /\ d.items * d.bytes <= 524288
    BY <2>1 DEF Cap, WithinLimits
  <2>3. FileBytes(d) = d.items * (4 * ((d.bytes + 2) \div 3))
    BY <1>6 DEF FileBytes, InBase64, PairKinds
  <2>4. QED
    BY <1>1, <2>2, <2>3, Base64OfMany
<1>7. CASE d.kind \in {"agent-event-ack", "agent-traffic-snapshot", "agent-access-event",
                      "center-plugin-info"}
  <2>1. Caps[d.kind] = Cap(0, 0, 0)
    BY <1>7 DEF Caps, FixtureKinds, JSONKinds, ProtoKinds, PairKinds
  <2>2. d.items * d.bytes <= 0
    BY <2>1 DEF Cap, WithinLimits
  <2>3. FileBytes(d) = d.items * d.bytes
    BY <1>7 DEF FileBytes, InBase64, PairKinds
  <2>4. d.items * d.bytes \in Nat
    OBVIOUS
  <2>5. QED
    BY <1>1, <2>2, <2>3, <2>4
<1>8. QED
  BY <1>2, <1>3, <1>4, <1>5, <1>6, <1>7
     DEF FixtureKinds, JSONKinds, ProtoKinds, PairKinds, LargeKinds

\* A document is the file's at every stage, and what it has passed it deserves
\* to have passed; what it is refused for is not what the host would take, or
\* is its file's.
FixtureInv ==
  /\ written \in Fixtures /\ document = written /\ refused \in BOOLEAN
  /\ stage \in {"written", "opened", "decoded", "valid"}
  /\ stage \in {"opened", "decoded", "valid"} /\ ~refused => written.defect # "irregular"
  /\ stage \in {"decoded", "valid"} /\ ~refused => written.defect # "shape"
  /\ stage = "valid" /\ ~refused =>
       ValidContent(written) /\ (written.kind \in PairKinds => written.defect # "pair")
  /\ refused => \/ ~HostAccepts(written)
                \/ written.defect = "irregular"
                \/ ~(FileBytes(written) <= maxContractFileSize)

LEMMA FixtureInvariance == FixtureSpec => []FixtureInv
<1>1. Written(Fixtures) => FixtureInv
  BY DEF Written, FixtureInv
<1>2. FixtureInv /\ [FixtureNext]_paper => FixtureInv'
  <2> SUFFICES ASSUME FixtureInv, [FixtureNext]_paper PROVE FixtureInv'
    OBVIOUS
  <2>1. CASE OpenContractFile
    BY <2>1 DEF OpenContractFile, FixtureHop, Hop, FixtureInv
  <2>2. CASE DecodeContractJSON \/ LoadProtoJSON
    BY <2>2 DEF DecodeContractJSON, LoadProtoJSON, FixtureHop, Hop, FixtureInv, HostAccepts
  <2>3. CASE LoadJSON \/ LoadProto
    <3>1. /\ written.kind \notin PairKinds /\ stage = "decoded" /\ stage' = "valid"
          /\ written' = written /\ document' = written /\ written.defect # "shape"
          /\ written.defect # "irregular" /\ written \in Fixtures
          /\ refused' = ~ValidContent(written)
      BY <2>3 DEF LoadJSON, LoadProto, FixtureHop, Hop, FixtureInv, JSONKinds, ProtoKinds,
         PairKinds
    <3>2. QED
      BY <3>1 DEF FixtureInv, ValidContent, HostAccepts
  <2>4. CASE LoadPair
    <3>1. /\ written.kind \in PairKinds /\ stage = "decoded" /\ stage' = "valid"
          /\ written' = written /\ document' = written /\ written.defect # "shape"
          /\ written.defect # "irregular" /\ written \in Fixtures
          /\ refused' = ~(ValidContent(written) /\ written.defect # "pair")
      BY <2>4 DEF LoadPair, FixtureHop, Hop, FixtureInv
    <3>2. QED
      BY <3>1 DEF FixtureInv, ValidContent, HostAccepts
  <2>5. CASE UNCHANGED paper
    BY <2>5 DEF paper, FixtureInv
  <2>6. QED
    BY <2>1, <2>2, <2>3, <2>4, <2>5 DEF FixtureNext
<1>3. QED
  BY <1>1, <1>2, PTL DEF FixtureSpec

\* Of any document the command says what its host would, but for its context,
\* for what is no regular file, and for the lists that may be too long for one.
THEOREM ToolSpeaksForHost == FixtureSpec => []ToolAgreesWithHost
<1>1. FixtureInv => ToolAgreesWithHost
  <2> SUFFICES ASSUME FixtureInv PROVE ToolAgreesWithHost
    OBVIOUS
  <2>1. /\ written.kind \in FixtureKinds /\ written.defect \in Defects
        /\ written.items \in Nat /\ written.bytes \in Nat
    BY FixtureAssumption DEF FixtureInv, Fixtures, Shaped
  <2>2. ASSUME Exits(0) PROVE HostAccepts(written) \/ written.defect = "context"
    <3>1. stage = "valid" /\ ~refused
      BY <2>2 DEF Exits, FixtureInv
    <3>2. QED
      BY <2>1, <3>1 DEF FixtureInv, Defects, ValidContent, HostAccepts
  <2>3. ASSUME Exits(1), HostAccepts(written), written.defect # "irregular"
        PROVE  FileBytes(written) > maxContractFileSize /\ written.kind \in LargeKinds
    <3>1. refused
      BY <2>3 DEF Exits, FixtureInv
    <3>2. ~(FileBytes(written) <= maxContractFileSize)
      BY <2>3, <3>1 DEF FixtureInv
    <3>3. written.kind \in LargeKinds
      BY <2>1, <2>3, <3>2, FilesHoldTheRest DEF HostAccepts
    <3>4. FileBytes(written) \in Nat /\ maxContractFileSize \in Nat
      BY <2>1 DEF FileBytes, maxContractFileSize, KiB
    <3>5. QED
      BY <3>2, <3>3, <3>4
  <2>4. QED
    BY <2>2, <2>3 DEF ToolAgreesWithHost, LargeKinds
<1>2. QED
  BY <1>1, FixtureInvariance, PTL

(***************************************************************************)
(* PeriodRoll.  The periods of an authorization follow one on another, for *)
(* any rules and any zones, whatever instants the center, the Agent and    *)
(* its validator compute them from.  The argument is about wall-clock      *)
(* times.  time.Date finds the instant of one that exists once (DateIs),   *)
(* though it corrects its guess only once, and that instant is what        *)
(* divides the earlier wall-clock times from the later (DateDivides).      *)
(* Each rule has a boundary for every number, increasing with it and, for  *)
(* a regular policy, existing once (DailyIs, WeeklyIs, MonthlyIs,          *)
(* IntervalIs); so an instant's period is the numbered one its wall-clock  *)
(* time lies in, and in one alone (WithinIsIn, WithinOne).                 *)
(***************************************************************************)

\* A set of natural numbers has a least one, and with 0 and every successor it
\* has them all.
LEMMA Least ==
  ASSUME NEW S \in SUBSET Nat, S # {}
  PROVE  \E x \in S : \A y \in S : x <= y
<1>1. IsWellFoundedOn(OpToRel(<, Nat), Nat)
  BY NatLessThanWellFounded
<1>2. PICK x \in S : \A y \in S : <<y, x>> \notin OpToRel(<, Nat)
  BY <1>1, WFMin
<1>3. \A y \in S : ~(y < x)
  BY <1>2 DEF OpToRel
<1>4. QED
  BY <1>3

LEMMA AllNumbers ==
  ASSUME NEW S \in SUBSET Nat, 0 \in S, \A n \in S : n + 1 \in S
  PROVE  S = Nat
<1>1. SUFFICES ASSUME Nat \ S # {} PROVE FALSE
  OBVIOUS
<1>2. PICK x \in Nat \ S : \A y \in Nat \ S : x <= y
  BY <1>1, Least
<1>3. x # 0 /\ x \in Nat /\ x \notin S
  BY <1>2
<1>4. x - 1 \in Nat /\ ~(x <= x - 1) /\ (x - 1) + 1 = x
  BY <1>3
<1>5. x - 1 \in S
  BY <1>2, <1>4
<1>6. QED
  BY <1>3, <1>4, <1>5

\* At any time an offset is in force: the first one, or that of the latest
\* transition.
LEMMA OffsetIs ==
  ASSUME NEW zone, IsZone(zone), NEW t \in Int
  PROVE  /\ Offset(zone, t) \in Offsets
         /\ \A tr \in Segment(zone, t) :
              (\A other \in Segment(zone, t) : other.at <= tr.at) => Offset(zone, t) = tr.offset
<1> DEFINE Latest(tr) == \A other \in Segment(zone, t) : other.at <= tr.at
<1>1. \A tr \in Segment(zone, t) : tr \in zone.transitions /\ tr.at \in Int /\ tr.at <= t
                                     /\ tr.offset \in Offsets
  BY DEF Segment, IsZone
<1>2. CASE Segment(zone, t) = {}
  BY <1>2 DEF Offset, IsZone
<1>3. CASE Segment(zone, t) # {}
  <2>1. \E tr \in Segment(zone, t) : Latest(tr)
    <3> DEFINE S == {t - tr.at : tr \in Segment(zone, t)}
    <3>1. S \in SUBSET Nat /\ S # {}
      BY <1>1, <1>3
    <3>2. PICK x \in S : \A y \in S : x <= y
      <4> HIDE DEF S
      <4>1. QED
        BY <3>1, Least
    <3>3. PICK tr \in Segment(zone, t) : x = t - tr.at
      BY <3>2
    <3>4. ASSUME NEW other \in Segment(zone, t) PROVE other.at <= tr.at
      <4>1. t - other.at \in S
        OBVIOUS
      <4>2. t - tr.at <= t - other.at
        BY <3>2, <3>3, <4>1
      <4>3. other.at \in Int /\ tr.at \in Int
        BY <1>1
      <4>4. QED
        BY <4>2, <4>3
    <3>5. QED
      BY <3>4
  <2>2. \A first, second \in Segment(zone, t) :
          Latest(first) /\ Latest(second) => first = second
    <3>1. SUFFICES ASSUME NEW first \in Segment(zone, t), NEW second \in Segment(zone, t),
                          Latest(first), Latest(second)
                   PROVE  first = second
      OBVIOUS
    <3>2. first.at <= second.at /\ second.at <= first.at
      BY <3>1
    <3>3. QED
      BY <1>1, <3>2 DEF IsZone, WidestOffset
  <2>3. Offset(zone, t) = (CHOOSE tr \in Segment(zone, t) : Latest(tr)).offset
    BY <1>3 DEF Offset
  <2>4. PICK tr \in Segment(zone, t) : Latest(tr) /\ Offset(zone, t) = tr.offset
    <3> HIDE DEF Latest
    <3>1. QED
      BY <2>1, <2>3
  <2>5. QED
    BY <1>1, <2>2, <2>4
<1>4. QED
  BY <1>2, <1>3

LEMMA OfOneSegment ==
  ASSUME NEW zone, NEW t, NEW u, Segment(zone, t) = Segment(zone, u)
  PROVE  Offset(zone, t) = Offset(zone, u)
BY DEF Offset

\* Without a transition between them, two instants have one offset.
LEMMA SameOffset ==
  ASSUME NEW zone, IsZone(zone), NEW t \in Int, NEW u \in Int, t <= u,
         \A tr \in zone.transitions : ~(t < tr.at /\ tr.at <= u)
  PROVE  Segment(zone, t) = Segment(zone, u) /\ Offset(zone, t) = Offset(zone, u)
<1>1. \A tr \in zone.transitions : tr.at \in Int
  BY DEF IsZone
<1>2. \A tr \in zone.transitions : tr.at <= t <=> tr.at <= u
  BY <1>1
<1>3. Segment(zone, t) = Segment(zone, u)
  BY <1>2 DEF Segment
<1>4. QED
  BY <1>3, OfOneSegment

\* Two instants that are not far apart have one transition between them at
\* most, the one before it the offset until then and the other its offset.
LEMMA AcrossTransition ==
  ASSUME NEW zone, IsZone(zone), NEW t \in Int, NEW u \in Int,
         NEW tr \in zone.transitions, t < tr.at, tr.at <= u, u - t <= 2 * WidestOffset
  PROVE  /\ Segment(zone, t) # Segment(zone, u)
         /\ Offset(zone, t) = Offset(zone, tr.at - 1)
         /\ Offset(zone, u) = tr.offset
<1>1. /\ \A other \in zone.transitions : other.at \in Int
      /\ tr.at \in Int /\ tr.at - 1 \in Int
  BY DEF IsZone
<1>2. \A other \in zone.transitions : t < other.at /\ other.at <= u => other = tr
  BY <1>1 DEF IsZone, WidestOffset
<1>3. Offset(zone, t) = Offset(zone, tr.at - 1)
  <2>1. \A other \in zone.transitions : ~(t < other.at /\ other.at <= tr.at - 1)
    BY <1>1, <1>2
  <2>2. t <= tr.at - 1
    BY <1>1
  <2>3. QED
    BY <1>1, <2>1, <2>2, SameOffset
<1>4. tr \in Segment(zone, u) /\ tr \notin Segment(zone, t)
  BY <1>1 DEF Segment
<1>5. \A other \in Segment(zone, u) : other.at <= tr.at
  BY <1>1, <1>2 DEF Segment
<1>6. QED
  BY <1>3, <1>4, <1>5, OffsetIs

\* time.Date finds the instant of a wall-clock time that exists once.
LEMMA DateIs ==
  ASSUME NEW zone, IsZone(zone), NEW wall \in Int, wall \notin Skewed(zone)
  PROVE  Date(zone, wall) \in Int /\ In(zone, Date(zone, wall)) = wall
<1> DEFINE offset == Offset(zone, wall)
           utc    == wall - offset
           other  == Offset(zone, utc)
<1>1. /\ offset \in Int /\ -16 <= offset /\ offset <= 16
      /\ utc \in Int
  BY OffsetIs DEF Offsets, WidestOffset
<1>2. other \in Int /\ -16 <= other /\ other <= 16
  BY <1>1, OffsetIs DEF Offsets, WidestOffset
<1>3. CASE Segment(zone, utc) = Segment(zone, wall)
  <2>1. other = offset
    BY <1>3, OfOneSegment
  <2>2. Date(zone, wall) = utc
    BY <1>3 DEF Date
  <2>3. QED
    BY <1>1, <2>1, <2>2 DEF In
<1>4. CASE Segment(zone, utc) # Segment(zone, wall)
  <2>1. offset # 0
    BY <1>1, <1>4
  <2>2. Date(zone, wall) = wall - other
    BY <1>4, <2>1 DEF Date
  <2>3. SUFFICES Offset(zone, wall - other) = other
    BY <1>2, <2>2 DEF In
  <2>4. CASE utc < wall
    <3>1. PICK tr \in zone.transitions : utc < tr.at /\ tr.at <= wall
      BY <1>1, <1>4, <2>4, SameOffset
    <3>2. wall - utc <= 2 * WidestOffset
      BY <1>1 DEF WidestOffset
    <3>3. other = Offset(zone, tr.at - 1) /\ offset = tr.offset
      <4>1. utc \in Int
        BY <1>1
      <4> HIDE DEF utc
      <4>2. Offset(zone, utc) = Offset(zone, tr.at - 1)
        BY <3>1, <3>2, <4>1, AcrossTransition
      <4>3. Offset(zone, wall) = tr.offset
        BY <3>1, <3>2, <4>1, AcrossTransition
      <4>4. QED
        BY <4>2, <4>3
    <3>4. tr.at \in Int
      BY DEF IsZone
    <3>5. wall < tr.at + other
      <4>1. wall \notin tr.at + other .. tr.at + offset - 1
        BY <3>3 DEF Skewed
      <4>2. QED
        BY <1>1, <1>2, <3>1, <3>4, <4>1
    <3>6. wall - other < tr.at /\ tr.at <= wall - other + 2 * WidestOffset
      BY <1>1, <1>2, <3>1, <3>4, <3>5 DEF WidestOffset
    <3>7. wall - other \in Int /\ wall - other + 2 * WidestOffset \in Int
          /\ (wall - other + 2 * WidestOffset) - (wall - other) <= 2 * WidestOffset
      BY <1>2 DEF WidestOffset
    <3>8. Offset(zone, wall - other) = Offset(zone, tr.at - 1)
      BY <3>6, <3>7, AcrossTransition
    <3>9. QED
      BY <3>3, <3>8
  <2>5. CASE wall < utc
    <3>1. PICK tr \in zone.transitions : wall < tr.at /\ tr.at <= utc
      BY <1>1, <1>4, <2>5, SameOffset
    <3>2. utc - wall <= 2 * WidestOffset
      BY <1>1 DEF WidestOffset
    <3>3. offset = Offset(zone, tr.at - 1) /\ other = tr.offset
      BY <1>1, <3>1, <3>2, AcrossTransition
    <3>4. tr.at \in Int
      BY DEF IsZone
    <3>5. tr.at + other <= wall
      <4>1. wall \notin tr.at + offset .. tr.at + other - 1
        BY <3>3 DEF Skewed
      <4>2. QED
        BY <1>1, <1>2, <3>1, <3>4, <4>1
    <3>6. tr.at <= wall - other /\ wall - other - 2 * WidestOffset < tr.at
      BY <1>1, <1>2, <3>1, <3>4, <3>5 DEF WidestOffset
    <3>7. wall - other \in Int /\ wall - other - 2 * WidestOffset \in Int
          /\ (wall - other) - (wall - other - 2 * WidestOffset) <= 2 * WidestOffset
      BY <1>2 DEF WidestOffset
    <3>8. Offset(zone, wall - other) = tr.offset
      BY <3>6, <3>7, AcrossTransition
    <3>9. QED
      BY <3>3, <3>8
  <2>6. QED
    BY <1>1, <2>1, <2>4, <2>5
<1>5. QED
  BY <1>3, <1>4

\* Such a time is later than the wall-clock times of all instants before it, and
\* not later than any after.
LEMMA DateDivides ==
  ASSUME NEW zone, IsZone(zone), NEW wall \in Int, wall \notin Skewed(zone), NEW t \in Int
  PROVE  t < Date(zone, wall) <=> In(zone, t) < wall
<1> DEFINE date == Date(zone, wall)
           there == Offset(zone, date)
           here == Offset(zone, t)
<1>1. date \in Int /\ date + there = wall
  BY DateIs DEF In
<1>2. /\ there \in Int /\ -16 <= there /\ there <= 16
      /\ here \in Int /\ -16 <= here /\ here <= 16
  BY <1>1, OffsetIs DEF Offsets, WidestOffset
<1>3. SUFFICES t < date <=> t + here < wall
  BY DEF In
<1> HIDE DEF date, there, here
<1>4. CASE t < date
  <2>1. CASE date - t > 2 * WidestOffset
    BY <1>1, <1>2, <1>4, <2>1 DEF WidestOffset
  <2>2. CASE date - t <= 2 * WidestOffset
    <3>1. CASE \A tr \in zone.transitions : ~(t < tr.at /\ tr.at <= date)
      <4>1. date \in Int
        BY <1>1
      <4>2. Offset(zone, t) = Offset(zone, date)
        BY <1>4, <3>1, <4>1, SameOffset
      <4>3. here = there
        BY <4>2 DEF here, there
      <4>4. QED
        BY <1>1, <1>2, <1>4, <4>3
    <3>2. ASSUME NEW tr \in zone.transitions, t < tr.at, tr.at <= date
          PROVE  t + here < wall
      <4>1. here = Offset(zone, tr.at - 1) /\ there = tr.offset
        <5>1. date \in Int
          BY <1>1
        <5>2. Offset(zone, t) = Offset(zone, tr.at - 1)
          BY <2>2, <3>2, <5>1, AcrossTransition, ZenonT(30)
        <5>3. Offset(zone, date) = tr.offset
          BY <2>2, <3>2, <5>1, AcrossTransition
        <5>4. QED
          BY <5>2, <5>3 DEF here, there
      <4>2. wall \notin tr.at + there .. tr.at + here - 1
        BY <4>1 DEF Skewed
      <4>3. tr.at \in Int
        BY DEF IsZone
      <4>4. QED
        BY <1>1, <1>2, <3>2, <4>2, <4>3
    <3>3. QED
      BY <1>4, <3>1, <3>2
  <2>3. QED
    BY <1>1, <2>1, <2>2 DEF WidestOffset
<1>5. CASE date <= t
  <2>1. CASE t - date > 2 * WidestOffset
    BY <1>1, <1>2, <1>5, <2>1 DEF WidestOffset
  <2>2. CASE t - date <= 2 * WidestOffset
    <3>1. CASE \A tr \in zone.transitions : ~(date < tr.at /\ tr.at <= t)
      <4>1. date \in Int
        BY <1>1
      <4>2. Offset(zone, t) = Offset(zone, date)
        BY <1>5, <3>1, <4>1, SameOffset
      <4>3. here = there
        BY <4>2 DEF here, there
      <4>4. QED
        BY <1>1, <1>2, <1>5, <4>3
    <3>2. ASSUME NEW tr \in zone.transitions, date < tr.at, tr.at <= t
          PROVE  wall <= t + here
      <4>1. there = Offset(zone, tr.at - 1) /\ here = tr.offset
        <5>1. date \in Int
          BY <1>1
        <5>2. Offset(zone, date) = Offset(zone, tr.at - 1)
          BY <2>2, <3>2, <5>1, AcrossTransition
        <5>3. Offset(zone, t) = tr.offset
          BY <2>2, <3>2, <5>1, AcrossTransition
        <5>4. QED
          BY <5>2, <5>3 DEF here, there
      <4>2. wall \notin tr.at + here .. tr.at + there - 1
        BY <4>1 DEF Skewed
      <4>3. tr.at \in Int
        BY DEF IsZone
      <4>4. QED
        BY <1>1, <1>2, <3>2, <4>2, <4>3
    <3>3. QED
      BY <1>1, <1>2, <1>5, <3>1, <3>2
  <2>3. QED
    BY <1>1, <2>1, <2>2 DEF WidestOffset
<1>6. QED
  BY <1>1, <1>4, <1>5

-----------------------------------------------------------------------------
\* The boundaries of a rule's periods, by their numbers: wall-clock times that
\* exist once, each later than the one before.
Boundaries(zone, wall) ==
  /\ wall \in [Int -> Int]
  /\ \A j, k \in Int : j < k => wall[j] < wall[k]
  /\ \A k \in Int : wall[k] \notin Skewed(zone)

\* The k-th period, which the wall-clock times from the k-th boundary to the
\* next lie in.
Numbered(zone, wall, k) == [start |-> Date(zone, wall[k]), end |-> Date(zone, wall[k + 1])]
Within(zone, wall, k, t) == wall[k] <= In(zone, t) /\ In(zone, t) < wall[k + 1]

\* An instant is in the period its wall-clock time lies in, and in no other.
LEMMA WithinIsIn ==
  ASSUME NEW zone, IsZone(zone), NEW wall, Boundaries(zone, wall), NEW k \in Int
  PROVE  LET p == Numbered(zone, wall, k)
         IN  /\ p.start \in Int /\ p.end \in Int
             /\ \A t \in Int : Within(zone, wall, k, t) <=> p.start <= t /\ t < p.end
             /\ Within(zone, wall, k + 1, p.end)
<1> DEFINE p == Numbered(zone, wall, k)
<1>1. k + 1 \in Int /\ k + 1 < k + 2 /\ k + 2 \in Int /\ (k + 1) + 1 = k + 2
  OBVIOUS
<1>2. /\ wall[k] \in Int /\ wall[k] \notin Skewed(zone)
      /\ wall[k + 1] \in Int /\ wall[k + 1] \notin Skewed(zone)
      /\ wall[k + 2] \in Int /\ wall[k + 1] < wall[k + 2]
  BY <1>1 DEF Boundaries
<1>3. p.start = Date(zone, wall[k]) /\ p.end = Date(zone, wall[k + 1])
  BY DEF Numbered
<1>4. p.start \in Int /\ p.end \in Int /\ In(zone, p.end) = wall[k + 1]
  BY <1>2, <1>3, DateIs
<1>5. ASSUME NEW t \in Int PROVE Within(zone, wall, k, t) <=> p.start <= t /\ t < p.end
  <2>1. (t < p.start <=> In(zone, t) < wall[k]) /\ (t < p.end <=> In(zone, t) < wall[k + 1])
    BY <1>2, <1>3, DateDivides
  <2>2. In(zone, t) \in Int
    BY OffsetIs DEF In, Offsets, WidestOffset
  <2>3. QED
    BY <1>2, <1>4, <2>1, <2>2 DEF Within
<1>6. Within(zone, wall, k + 1, p.end)
  BY <1>1, <1>2, <1>4 DEF Within
<1>7. QED
  BY <1>4, <1>5, <1>6

LEMMA WithinOne ==
  ASSUME NEW zone, IsZone(zone), NEW wall, Boundaries(zone, wall), NEW t \in Int,
         NEW j \in Int, NEW k \in Int, Within(zone, wall, j, t), Within(zone, wall, k, t)
  PROVE  j = k
<1>1. In(zone, t) \in Int
  BY OffsetIs DEF In, Offsets, WidestOffset
<1>2. \A i \in Int : wall[i] \in Int
  BY DEF Boundaries
<1>3. ASSUME NEW a \in Int, NEW b \in Int, Within(zone, wall, a, t), Within(zone, wall, b, t),
             a < b
      PROVE  FALSE
  <2>1. a + 1 \in Int /\ (a + 1 = b \/ a + 1 < b)
    BY <1>3
  <2>2. wall[a + 1] <= wall[b]
    BY <1>2, <2>1 DEF Boundaries
  <2>3. QED
    BY <1>1, <1>2, <1>3, <2>1, <2>2 DEF Within
<1>4. QED
  BY <1>3

-----------------------------------------------------------------------------
\* A period of n days from a boundary that exists once ends at the boundary n
\* days later.
LEMMA AddDaysIs ==
  ASSUME NEW zone, IsZone(zone), NEW wall \in Int, wall \notin Skewed(zone), NEW n \in Int
  PROVE  AddDays(zone, Date(zone, wall), n) = Date(zone, wall + n * Day)
BY DateIs DEF AddDays

LEMMA WallIs ==
  ASSUME NEW zone, IsZone(zone), NEW t \in Int
  PROVE  /\ In(zone, t) \in Int /\ t - 16 <= In(zone, t)
         /\ CivilDay(In(zone, t)) \in Int
         /\ CivilDay(In(zone, t)) * 24 <= In(zone, t)
         /\ In(zone, t) < CivilDay(In(zone, t)) * 24 + 24
<1>1. In(zone, t) \in Int /\ t - 16 <= In(zone, t)
  BY OffsetIs DEF In, Offsets, WidestOffset
<1>2. QED
  BY <1>1 DEF CivilDay, Day

\* Every midnight exists once.
Midnights(zone) == \A d \in Int : d * Day \notin Skewed(zone)

\* Which boundaries the rules have.
DailyWalls == [k \in Int |-> k * Day]
WeeklyWalls(value) == [k \in Int |-> (7 * k + value - 4) * Day]

LEMMA DailyIs ==
  ASSUME NEW zone, IsZone(zone), Midnights(zone), NEW at \in Int
  PROVE  /\ Boundaries(zone, DailyWalls)
         /\ \E k \in Int : /\ Within(zone, DailyWalls, k, at)
                           /\ DailyPeriod(zone, at) = Numbered(zone, DailyWalls, k)
<1> DEFINE day == CivilDay(In(zone, at))
<1>1. Boundaries(zone, DailyWalls)
  BY DEF Boundaries, DailyWalls, Midnights, Day
<1>2. day \in Int /\ day + 1 \in Int
  BY WallIs
<1>3. DailyWalls[day] = day * Day /\ DailyWalls[day + 1] = (day + 1) * Day
  BY <1>2 DEF DailyWalls
<1>4. Within(zone, DailyWalls, day, at)
  BY <1>2, <1>3, WallIs DEF Within, Day
<1>5. DailyPeriod(zone, at) = Numbered(zone, DailyWalls, day)
  <2>1. day * Day \in Int /\ day * Day \notin Skewed(zone) /\ day * Day + 1 * Day = (day + 1) * Day
    BY <1>2 DEF Midnights, Day
  <2>2. AddDays(zone, Date(zone, day * Day), 1) = Date(zone, (day + 1) * Day)
    BY <2>1, AddDaysIs
  <2>3. QED
    BY <1>3, <2>2 DEF DailyPeriod, Midnight, Numbered
<1>6. QED
  BY <1>1, <1>2, <1>4, <1>5

LEMMA WeekArithmetic ==
  ASSUME NEW today \in Int, NEW value \in 1 .. 7
  PROVE  LET back == (IsoWeekday(today) - value + 7) % 7
         IN  /\ back \in 0 .. 6
             /\ \E k \in Int : today - back = 7 * k + value - 4
<1> DEFINE back == (IsoWeekday(today) - value + 7) % 7
           k == (today + 4 - value) \div 7
<1>1. back \in 0 .. 6
  BY DEF IsoWeekday
<1>2. k \in Int /\ today - back = 7 * k + value - 4
  BY DEF IsoWeekday
<1>3. QED
  BY <1>1, <1>2

LEMMA WeeklyIs ==
  ASSUME NEW zone, IsZone(zone), Midnights(zone), NEW value \in 1 .. 7, NEW at \in Int
  PROVE  /\ Boundaries(zone, WeeklyWalls(value))
         /\ \E k \in Int : /\ Within(zone, WeeklyWalls(value), k, at)
                           /\ WeeklyPeriod(zone, value, at)
                                = Numbered(zone, WeeklyWalls(value), k)
<1> DEFINE walls == WeeklyWalls(value)
           today == CivilDay(In(zone, at))
           back  == (IsoWeekday(today) - value + 7) % 7
<1>1. Boundaries(zone, walls)
  <2>1. \A k \in Int : 7 * k + value - 4 \in Int /\ walls[k] = (7 * k + value - 4) * Day
    BY DEF WeeklyWalls
  <2>2. walls \in [Int -> Int]
    BY DEF WeeklyWalls, Day
  <2>3. \A k \in Int : walls[k] \notin Skewed(zone)
    BY <2>1 DEF Midnights
  <2>4. \A j, k \in Int : j < k => walls[j] < walls[k]
    BY <2>1 DEF Day
  <2>5. QED
    BY <2>2, <2>3, <2>4 DEF Boundaries
<1>2. today \in Int /\ today * 24 <= In(zone, at) /\ In(zone, at) < today * 24 + 24
      /\ In(zone, at) \in Int
  BY WallIs
<1>3. back \in 0 .. 6 /\ \E k \in Int : today - back = 7 * k + value - 4
  <2> HIDE DEF today
  <2>1. QED
    BY <1>2, WeekArithmetic
<1>4. PICK k \in Int : today - back = 7 * k + value - 4
  BY <1>3
<1> HIDE DEF today, back
<1>5. walls[k] = (today - back) * Day /\ walls[k + 1] = (today - back + 7) * Day
  <2>1. k + 1 \in Int /\ 7 * (k + 1) + value - 4 = today - back + 7
    BY <1>2, <1>3, <1>4
  <2>2. QED
    BY <1>4, <2>1 DEF WeeklyWalls
<1>6. Within(zone, walls, k, at)
  BY <1>2, <1>3, <1>5 DEF Within, Day
<1>7. WeeklyPeriod(zone, value, at) = Numbered(zone, walls, k)
  <2>1. /\ today * Day \in Int /\ today * Day \notin Skewed(zone)
        /\ (today - back) * Day \in Int /\ (today - back) * Day \notin Skewed(zone)
        /\ today * Day + (-back) * Day = (today - back) * Day
        /\ (today - back) * Day + 7 * Day = (today - back + 7) * Day
        /\ -back \in Int
    BY <1>2, <1>3 DEF Midnights, Day
  <2>2. AddDays(zone, Date(zone, today * Day), -back) = Date(zone, (today - back) * Day)
    BY <2>1, AddDaysIs
  <2>3. AddDays(zone, Date(zone, (today - back) * Day), 7)
          = Date(zone, (today - back + 7) * Day)
    BY <2>1, AddDaysIs
  <2>4. WeeklyPeriod(zone, value, at)
          = [start |-> AddDays(zone, Date(zone, today * Day), -back),
             end |-> AddDays(zone, AddDays(zone, Date(zone, today * Day), -back), 7)]
    BY DEF WeeklyPeriod, Midnight, today, back
  <2>5. QED
    BY <1>5, <2>2, <2>3, <2>4 DEF Numbered
<1>8. QED
  BY <1>1, <1>6, <1>7

-----------------------------------------------------------------------------
\* Months.  MonthLength is what SMT makes of the sums of FirstOfMonth.
LEMMA MonthLength ==
  ASSUME NEW month \in Int
  PROVE  /\ FirstOfMonth(month) \in Int
         /\ FirstOfMonth(month + 1) - FirstOfMonth(month) \in 28 .. 31
BY SMTT(30) DEF FirstOfMonth

LEMMA FirstMonth == FirstOfMonth(0) = 0
<1>1. ASSUME NEW month \in Int, -1 < month, month < 1 PROVE FirstOfMonth(month) = 0
  BY <1>1, SMT DEF FirstOfMonth
<1>2. QED
  BY <1>1

\* How many days n months are.
LEMMA MonthsLength ==
  ASSUME NEW month \in Int, NEW n \in Nat
  PROVE  /\ 28 * n <= FirstOfMonth(month + n) - FirstOfMonth(month)
         /\ FirstOfMonth(month + n) - FirstOfMonth(month) <= 31 * n
<1> DEFINE days(k) == FirstOfMonth(month + k) - FirstOfMonth(month)
           S == {k \in Nat : 28 * k <= days(k) /\ days(k) <= 31 * k}
<1>1. 0 \in S
  <2>1. month + 0 = month /\ FirstOfMonth(month) \in Int
    BY MonthLength
  <2>2. days(0) = 0
    BY <2>1
  <2>3. QED
    BY <2>2
<1>2. ASSUME NEW k \in S PROVE k + 1 \in S
  <2>1. k \in Nat /\ 28 * k <= days(k) /\ days(k) <= 31 * k
    OBVIOUS
  <2>2. month + k \in Int /\ month + (k + 1) = (month + k) + 1
    BY <2>1
  <2>3. /\ FirstOfMonth(month) \in Int /\ FirstOfMonth(month + k) \in Int
        /\ FirstOfMonth(month + (k + 1)) - FirstOfMonth(month + k) \in 28 .. 31
        /\ FirstOfMonth(month + (k + 1)) \in Int
    BY <2>2, MonthLength
  <2>4. QED
    BY <2>1, <2>3
<1>3. S = Nat
  <2> HIDE DEF S
  <2>1. S \in SUBSET Nat
    BY DEF S
  <2>2. QED
    BY <1>1, <1>2, <2>1, AllNumbers
<1>4. QED
  BY <1>3

\* MonthOf finds the month of a day (the clocks may be in the year before the
\* first of all instants).
LEMMA MonthIs ==
  ASSUME NEW day \in Int, -1 <= day
  PROVE  /\ MonthOf(day) \in Int
         /\ FirstOfMonth(MonthOf(day)) <= day /\ day < FirstOfMonth(MonthOf(day) + 1)
<1> DEFINE Includes(month) == FirstOfMonth(month) <= day /\ day < FirstOfMonth(month + 1)
           months == day \div 31 .. day \div 28
<1>1. months \subseteq Int
  OBVIOUS
<1>2. \E month \in months : Includes(month)
  <2>1. CASE day = -1
    <3>1. -1 \in months
      <4>1. day < 0 /\ -2 < day
        BY <2>1
      <4>2. day \div 31 <= -1 /\ -1 <= day \div 28
        BY <4>1
      <4>3. QED
        BY <4>2
    <3>2. FirstOfMonth(-1) <= -1 /\ FirstOfMonth(-1 + 1) = 0
      <4>1. FirstOfMonth(-1 + 1) = 0 /\ -1 \in Int
        BY FirstMonth
      <4>2. QED
        BY <4>1, MonthLength
    <3>3. QED
      BY <2>1, <3>1, <3>2
  <2>2. CASE day \in Nat
    <3> DEFINE S == {n \in Nat : day < FirstOfMonth(n + 1)}
    <3>1. \A n \in Nat : 28 * n <= FirstOfMonth(n) /\ FirstOfMonth(n) <= 31 * n
                           /\ FirstOfMonth(n) \in Int
      <4>1. ASSUME NEW n \in Nat PROVE 28 * n <= FirstOfMonth(n) /\ FirstOfMonth(n) <= 31 * n
                                         /\ FirstOfMonth(n) \in Int
        <5>1. 0 + n = n /\ n \in Int /\ 0 \in Int
          OBVIOUS
        <5>2. 28 * n <= FirstOfMonth(n) - 0 /\ FirstOfMonth(n) - 0 <= 31 * n
          BY <5>1, FirstMonth, MonthsLength
        <5>3. FirstOfMonth(n) \in Int
          BY <5>1, MonthLength
        <5>4. QED
          BY <5>2, <5>3
      <4>2. QED
        BY <4>1
    <3>2. day \in S
      BY <2>2, <3>1
    <3>3. PICK month \in S : \A n \in S : month <= n
      <4>1. S \in SUBSET Nat /\ S # {}
        BY <3>2
      <4> HIDE DEF S
      <4>2. QED
        BY <4>1, Least
    <3>4. month \in Nat /\ day < FirstOfMonth(month + 1)
      BY <3>3
    <3>5. FirstOfMonth(month) <= day
      <4>1. CASE month = 0
        BY <2>2, <4>1, FirstMonth
      <4>2. CASE month # 0
        <5>1. month - 1 \in Nat /\ (month - 1) + 1 = month /\ ~(month <= month - 1)
          BY <3>4, <4>2
        <5>2. month - 1 \notin S
          BY <3>3, <5>1
        <5>3. QED
          BY <2>2, <3>1, <3>4, <5>1, <5>2
      <4>3. QED
        BY <4>1, <4>2
    <3>6. month \in months
      <4>1. 28 * month <= day /\ day < 31 * (month + 1)
        BY <2>2, <3>1, <3>4, <3>5
      <4>2. QED
        BY <2>2, <3>4, <4>1
    <3>7. QED
      BY <3>4, <3>5, <3>6
  <2>3. QED
    BY <2>1, <2>2
<1>3. MonthOf(day) = CHOOSE month \in months : Includes(month)
  BY DEF MonthOf
<1>4. MonthOf(day) \in months /\ Includes(MonthOf(day))
  <2> HIDE DEF months, Includes
  <2>1. QED
    BY <1>2, <1>3
<1>5. QED
  BY <1>1, <1>4

\* The day of a month that a monthly period begins on.
MonthDay(month, value) ==
  LET last == FirstOfMonth(month + 1) - FirstOfMonth(month)
  IN  FirstOfMonth(month) + (IF value > last THEN last ELSE value) - 1

MonthlyWalls(value) == [month \in Int |-> MonthDay(month, value) * Day]

LEMMA MonthDayIs ==
  ASSUME NEW month \in Int, NEW value \in 1 .. 31
  PROVE  /\ MonthDay(month, value) \in Int
         /\ FirstOfMonth(month) <= MonthDay(month, value)
         /\ MonthDay(month, value) < FirstOfMonth(month + 1)
<1>1. /\ FirstOfMonth(month) \in Int
      /\ FirstOfMonth(month + 1) \in Int
      /\ FirstOfMonth(month + 1) - FirstOfMonth(month) \in 28 .. 31
  BY MonthLength
<1>2. QED
  BY <1>1 DEF MonthDay

\* Where every day has its midnight the code finds the month's last day.
LEMMA LastDayIs ==
  ASSUME NEW zone, IsZone(zone), Midnights(zone), NEW month \in Int
  PROVE  LastDay(zone, month) = FirstOfMonth(month + 1) - FirstOfMonth(month)
<1> DEFINE first == FirstOfMonth(month)
           last  == FirstOfMonth(month + 1) - 1
<1>1. first \in Int /\ FirstOfMonth(month + 1) \in Int
  BY MonthLength
<1> HIDE DEF first
<1>2. last \in Int /\ FirstOfMonth(month + 1) = last + 1
  BY <1>1
<1> HIDE DEF last
<1>3. last * Day \in Int /\ last * Day \notin Skewed(zone)
  BY <1>2 DEF Midnights, Day
<1>4. In(zone, Date(zone, last * Day)) = last * Day
  BY <1>3, DateIs
<1>5. CivilDay(last * Day) = last
  BY <1>2 DEF CivilDay, Day
<1>6. LastDay(zone, month) = last - first + 1
  BY <1>4, <1>5 DEF LastDay, Midnight, first, last
<1>7. QED
  BY <1>1, <1>2, <1>6 DEF first

LEMMA MonthlyBoundaries ==
  ASSUME NEW zone, Midnights(zone), NEW value \in 1 .. 31
  PROVE  Boundaries(zone, MonthlyWalls(value))
<1>1. \A month \in Int : /\ MonthDay(month, value) \in Int
                         /\ MonthlyWalls(value)[month] = MonthDay(month, value) * Day
  BY MonthDayIs DEF MonthlyWalls
<1>2. MonthlyWalls(value) \in [Int -> Int]
  BY <1>1 DEF MonthlyWalls, Day
<1>3. ASSUME NEW j \in Int, NEW k \in Int, j < k
      PROVE  MonthlyWalls(value)[j] < MonthlyWalls(value)[k]
  <2> DEFINE n == k - (j + 1)
  <2>1. j + 1 \in Int /\ n \in Nat /\ (j + 1) + n = k
    BY <1>3
  <2>2. FirstOfMonth(j + 1) \in Int /\ FirstOfMonth(k) \in Int
    BY <2>1, MonthLength
  <2>3. 28 * n <= FirstOfMonth(k) - FirstOfMonth(j + 1)
    <3> HIDE DEF n
    <3>1. 28 * n <= FirstOfMonth((j + 1) + n) - FirstOfMonth(j + 1)
      BY <2>1, MonthsLength
    <3>2. QED
      BY <2>1, <3>1
  <2>4. FirstOfMonth(j + 1) <= FirstOfMonth(k)
    BY <2>1, <2>2, <2>3
  <2>5. MonthDay(j, value) < FirstOfMonth(j + 1) /\ FirstOfMonth(k) <= MonthDay(k, value)
    BY MonthDayIs
  <2>6. QED
    BY <1>1, <2>2, <2>4, <2>5 DEF Day
<1>4. \A month \in Int : MonthlyWalls(value)[month] \notin Skewed(zone)
  BY <1>1 DEF Midnights
<1>5. QED
  BY <1>2, <1>3, <1>4 DEF Boundaries

LEMMA MonthlyIs ==
  ASSUME NEW zone, IsZone(zone), Midnights(zone), NEW value \in 1 .. 31, NEW at \in Nat
  PROVE  /\ Boundaries(zone, MonthlyWalls(value))
         /\ \E k \in Int : /\ Within(zone, MonthlyWalls(value), k, at)
                           /\ MonthlyPeriod(zone, value, at)
                                = Numbered(zone, MonthlyWalls(value), k)
<1> DEFINE walls == MonthlyWalls(value)
           day == CivilDay(In(zone, at))
           this == MonthOf(day)
           later == MonthlyBoundary(zone, this, value) > at
           month == IF later THEN this - 1 ELSE this
<1>1. Boundaries(zone, walls)
  BY MonthlyBoundaries
<1>2. /\ In(zone, at) \in Int
      /\ day \in Int /\ day * 24 <= In(zone, at) /\ In(zone, at) < day * 24 + 24
      /\ -1 <= day
  <2>1. /\ In(zone, at) \in Int /\ at - 16 <= In(zone, at)
        /\ day \in Int /\ day * 24 <= In(zone, at) /\ In(zone, at) < day * 24 + 24
    BY WallIs
  <2>2. QED
    BY <2>1
<1>3. this \in Int /\ FirstOfMonth(this) <= day /\ day < FirstOfMonth(this + 1)
  <2> HIDE DEF day
  <2>1. QED
    BY <1>2, MonthIs
<1> HIDE DEF day, this
<1>4. /\ this - 1 \in Int /\ this + 1 \in Int /\ (this - 1) + 1 = this
      /\ FirstOfMonth(this) \in Int /\ FirstOfMonth(this + 1) \in Int
  BY <1>3, MonthLength
<1>5. \A m \in Int : /\ MonthDay(m, value) \in Int
                     /\ walls[m] = MonthDay(m, value) * 24
                     /\ MonthlyBoundary(zone, m, value) = Date(zone, walls[m])
  BY MonthDayIs, LastDayIs DEF MonthlyWalls, MonthlyBoundary, MonthDay, Midnight, Day
<1>6. /\ MonthDay(this - 1, value) < FirstOfMonth(this)
      /\ MonthDay(this, value) < FirstOfMonth(this + 1)
      /\ FirstOfMonth(this + 1) <= MonthDay(this + 1, value)
  BY <1>3, <1>4, MonthDayIs
<1>7. later <=> In(zone, at) < walls[this]
  <2>1. walls[this] \in Int /\ walls[this] \notin Skewed(zone)
    BY <1>1, <1>3 DEF Boundaries
  <2>2. Date(zone, walls[this]) \in Int
    BY <2>1, DateIs
  <2>3. at < Date(zone, walls[this]) <=> In(zone, at) < walls[this]
    BY <2>1, DateDivides
  <2>4. QED
    BY <1>3, <1>5, <2>2, <2>3
<1>8. month \in Int /\ Within(zone, walls, month, at)
  <2> HIDE DEF later, walls
  <2>1. CASE later
    BY <1>2, <1>3, <1>4, <1>5, <1>6, <1>7, <2>1 DEF Within
  <2>2. CASE ~later
    BY <1>2, <1>3, <1>4, <1>5, <1>6, <1>7, <2>2 DEF Within
  <2>3. QED
    BY <2>1, <2>2
<1>9. MonthlyPeriod(zone, value, at) = Numbered(zone, walls, month)
  <2>1. MonthlyPeriod(zone, value, at)
          = [start |-> MonthlyBoundary(zone, month, value),
             end   |-> MonthlyBoundary(zone, month + 1, value)]
    BY DEF MonthlyPeriod, this, day
  <2>2. month + 1 \in Int
    BY <1>8
  <2> HIDE DEF month, walls
  <2>3. QED
    BY <1>5, <1>8, <2>1, <2>2 DEF Numbered
<1>10. QED
  BY <1>1, <1>8, <1>9

-----------------------------------------------------------------------------
\* Intervals.
LEMMA ProductsOrdered ==
  ASSUME NEW j \in Int, NEW k \in Int, NEW value \in Nat
  PROVE  /\ k * value \in Int
         /\ j <= k => j * value <= k * value
         /\ (k + 1) * value = k * value + value
         /\ (k - 1) * value = k * value - value
OBVIOUS

LEMMA QuotientIs ==
  ASSUME NEW n \in Int, NEW value \in Nat \ {0}
  PROVE  /\ n \div value \in Int
         /\ (n \div value) * value <= n
         /\ n < (n \div value) * value + value
OBVIOUS

\* The boundaries, counted from the anchor's.
IntervalWalls(zone, value, anchor) == [k \in Int |-> In(zone, anchor) + k * value * Day]

\* The anchor's hour exists once on each day.
Hours(zone, anchor) == \A d \in Int : In(zone, anchor) + d * Day \notin Skewed(zone)

LEMMA IntervalBoundaries ==
  ASSUME NEW zone, IsZone(zone), NEW value \in Nat \ {0}, NEW anchor \in Int,
         Hours(zone, anchor)
  PROVE  Boundaries(zone, IntervalWalls(zone, value, anchor))
<1> DEFINE walls == IntervalWalls(zone, value, anchor)
           first == In(zone, anchor)
<1>1. first \in Int
  BY WallIs
<1>2. \A k \in Int : k * value \in Int /\ walls[k] = first + k * value * Day
  BY ProductsOrdered DEF IntervalWalls
<1>3. walls \in [Int -> Int]
  <2>1. \A k \in Int : first + k * value * Day \in Int
    BY <1>1, <1>2 DEF Day
  <2>2. walls = [k \in Int |-> walls[k]] /\ \A k \in Int : walls[k] \in Int
    BY <1>2, <2>1 DEF IntervalWalls
  <2> HIDE DEF walls
  <2>3. QED
    BY <2>2
<1>4. ASSUME NEW j \in Int, NEW k \in Int, j < k PROVE walls[j] < walls[k]
  <2>1. j + 1 \in Int /\ j + 1 <= k /\ value \in Nat /\ 0 < value
    BY <1>4
  <2>2. (j + 1) * value <= k * value /\ (j + 1) * value = j * value + value
    BY <2>1, ProductsOrdered
  <2>3. j * value < k * value
    BY <1>2, <2>1, <2>2
  <2> DEFINE a == j * value
             b == k * value
  <2>4. a \in Int /\ b \in Int /\ a < b /\ walls[j] = first + a * Day
        /\ walls[k] = first + b * Day
    BY <1>2, <2>3
  <2> HIDE DEF walls, first, a, b
  <2>5. QED
    BY <1>1, <2>4 DEF Day
<1>5. \A k \in Int : walls[k] \notin Skewed(zone)
  <2> HIDE DEF walls
  <2>1. QED
    BY <1>2 DEF Hours
<1>6. QED
  BY <1>3, <1>4, <1>5 DEF Boundaries

\* The loop goes back once, from a time later on the day than the instant, or not
\* at all.
LEMMA StepsBack ==
  ASSUME NEW first, NEW zone, NEW value, NEW at
  PROVE  /\ Back(zone, value, first)[0] = first
         /\ Back(zone, value, first)[1] = AddDays(zone, first, -value)
<1> DEFINE next(g) == [k \in 0 .. 2 |-> IF k = 0 THEN first
                                         ELSE AddDays(zone, g[k - 1], -value)]
           one == AddDays(zone, first, -value)
           two == AddDays(zone, one, -value)
           g == [k \in 0 .. 2 |-> IF k = 0 THEN first ELSE IF k = 1 THEN one ELSE two]
           back == CHOOSE h : h = next(h)
<1>1. g = next(g)
  <2>1. ASSUME NEW k \in 0 .. 2
        PROVE  g[k] = IF k = 0 THEN first ELSE AddDays(zone, g[k - 1], -value)
    <3>1. g[0] = first /\ g[1] = one /\ g[2] = two
      OBVIOUS
    <3> HIDE DEF g
    <3>2. k = 0 \/ k = 1 \/ k = 2
      OBVIOUS
    <3>3. QED
      BY <3>1, <3>2
  <2>2. g = [k \in 0 .. 2 |-> g[k]]
    OBVIOUS
  <2> HIDE DEF g
  <2>3. QED
    BY <2>1, <2>2
<1>2. back = next(back)
  <2> HIDE DEF next, g
  <2>1. QED
    BY <1>1
<1>3. back[0] = first /\ back[1] = AddDays(zone, back[0], -value)
  <2> HIDE DEF back
  <2>1. 0 \in 0 .. 2 /\ 1 \in 0 .. 2 /\ 1 # 0 /\ 1 - 1 = 0
    OBVIOUS
  <2>2. QED
    BY <1>2, <2>1
<1>4. Back(zone, value, first) = back
  BY DEF Back
<1>5. QED
  <2> HIDE DEF back
  <2>1. QED
    BY <1>3, <1>4

LEMMA IntervalIs ==
  ASSUME NEW zone, IsZone(zone), NEW value \in Nat \ {0}, NEW anchor \in Int,
         Hours(zone, anchor), NEW at \in Int
  PROVE  /\ Boundaries(zone, IntervalWalls(zone, value, anchor))
         /\ \E k \in Int : /\ Within(zone, IntervalWalls(zone, value, anchor), k, at)
                           /\ IntervalPeriod(zone, value, anchor, at)
                                = Numbered(zone, IntervalWalls(zone, value, anchor), k)
<1> DEFINE walls == IntervalWalls(zone, value, anchor)
           today == CivilDay(In(zone, at))
           first == CivilDay(In(zone, anchor))
           n     == (today - first) \div value
           start == AddDays(zone, anchor, n * value)
           back  == Back(zone, value, start)
           steps == CHOOSE k \in 0 .. 2 :
                      back[k] <= at /\ \A j \in 0 .. k - 1 : back[j] > at
<1>1. Boundaries(zone, walls)
  BY IntervalBoundaries
<1>2. /\ In(zone, at) \in Int /\ In(zone, anchor) \in Int
      /\ today \in Int /\ today * 24 <= In(zone, at) /\ In(zone, at) < today * 24 + 24
      /\ first \in Int /\ first * 24 <= In(zone, anchor)
      /\ In(zone, anchor) < first * 24 + 24
  BY WallIs
<1>3. IntervalPeriod(zone, value, anchor, at)
        = [start |-> back[steps], end |-> AddDays(zone, back[steps], value)]
  BY DEF IntervalPeriod
<1> HIDE DEF today, first
<1>4. /\ n \in Int /\ n * value \in Int
      /\ n * value <= today - first /\ today - first < n * value + value
  <2> DEFINE days == today - first
  <2>1. days \in Int
    BY <1>2
  <2> HIDE DEF days
  <2>2. /\ days \div value \in Int /\ (days \div value) * value \in Int
        /\ (days \div value) * value <= days
        /\ days < (days \div value) * value + value
    BY <2>1, QuotientIs, ProductsOrdered
  <2>3. QED
    BY <2>2 DEF days
<1> HIDE DEF n
<1>5. /\ n - 1 \in Int /\ n + 1 \in Int /\ (n - 1) + 1 = n
      /\ walls[n - 1] = In(zone, anchor) + (n * value - value) * Day
      /\ walls[n] = In(zone, anchor) + (n * value) * Day
      /\ walls[n + 1] = In(zone, anchor) + (n * value + value) * Day
  <2>1. n - 1 \in Int /\ n + 1 \in Int /\ (n - 1) + 1 = n /\ value \in Nat
    BY <1>4
  <2>2. (n - 1) * value = n * value - value /\ (n + 1) * value = n * value + value
    BY <1>4, <2>1, ProductsOrdered
  <2>3. QED
    BY <1>4, <2>1, <2>2 DEF IntervalWalls
<1>6. \A k \in Int : walls[k] \in Int /\ walls[k] \notin Skewed(zone)
  BY <1>1 DEF Boundaries
<1> HIDE DEF walls
<1>7. start = Date(zone, walls[n])
  BY <1>5 DEF AddDays
<1>8. back[0] = Date(zone, walls[n]) /\ back[1] = Date(zone, walls[n - 1])
  <2>1. back[0] = start /\ back[1] = AddDays(zone, start, -value)
    BY StepsBack
  <2>2. -value \in Int /\ walls[n] + (-value) * Day = walls[n - 1]
    <3> DEFINE p == n * value
    <3>1. p \in Int /\ walls[n] = In(zone, anchor) + p * Day
          /\ walls[n - 1] = In(zone, anchor) + (p - value) * Day
      BY <1>4, <1>5
    <3> HIDE DEF p
    <3>2. QED
      BY <1>2, <3>1 DEF Day
  <2>3. AddDays(zone, Date(zone, walls[n]), -value) = Date(zone, walls[n - 1])
    BY <1>4, <1>6, <2>2, AddDaysIs
  <2> HIDE DEF back, start
  <2>4. QED
    BY <1>7, <2>1, <2>3
<1> HIDE DEF back, start
<1>9. /\ back[0] \in Int /\ (back[0] > at <=> In(zone, at) < walls[n])
      /\ back[1] \in Int /\ (back[1] > at <=> In(zone, at) < walls[n - 1])
  <2>1. \A k \in Int : Date(zone, walls[k]) \in Int
                       /\ (at < Date(zone, walls[k]) <=> In(zone, at) < walls[k])
    BY <1>6, DateIs, DateDivides
  <2>2. QED
    BY <1>4, <1>5, <1>8, <2>1
<1>10. /\ walls[n - 1] <= In(zone, at) /\ In(zone, at) < walls[n + 1]
  <2> DEFINE p == n * value
  <2>1. /\ p \in Int /\ p <= today - first /\ today - first < p + value
        /\ walls[n - 1] = In(zone, anchor) + (p - value) * 24
        /\ walls[n + 1] = In(zone, anchor) + (p + value) * 24
    BY <1>4, <1>5 DEF Day
  <2> HIDE DEF p
  <2>2. QED
    BY <1>2, <2>1
<1>11. ASSUME NEW k \in Int, back[steps] = Date(zone, walls[k]),
              walls[k] + value * Day = walls[k + 1]
       PROVE  IntervalPeriod(zone, value, anchor, at) = Numbered(zone, walls, k)
  <2> HIDE DEF steps
  <2>1. AddDays(zone, Date(zone, walls[k]), value) = Date(zone, walls[k + 1])
    <3>1. walls[k] \in Int /\ walls[k] \notin Skewed(zone) /\ value \in Int
      BY <1>6
    <3>2. AddDays(zone, Date(zone, walls[k]), value) = Date(zone, walls[k] + value * Day)
      BY <3>1, AddDaysIs
    <3>3. QED
      BY <1>11, <3>2
  <2>2. QED
    BY <1>3, <1>11, <2>1 DEF Numbered
<1>12. CASE walls[n] <= In(zone, at)
  <2>1. Within(zone, walls, n, at)
    BY <1>10, <1>12 DEF Within
  <2>2. steps = 0
    <3>1. 0 \in 0 .. 2 /\ back[0] <= at /\ \A j \in 0 .. 0 - 1 : back[j] > at
      BY <1>6, <1>4, <1>2, <1>9, <1>12
    <3>2. \A k \in 0 .. 2 : (\A j \in 0 .. k - 1 : back[j] > at) => k = 0
      <4>1. \A k \in 0 .. 2 : k # 0 => 0 \in 0 .. k - 1
        OBVIOUS
      <4>2. ~(back[0] > at)
        BY <1>6, <1>4, <1>2, <1>9, <1>12
      <4>3. QED
        BY <4>1, <4>2
    <3>3. QED
      BY <3>1, <3>2
  <2> HIDE DEF steps
  <2>3. IntervalPeriod(zone, value, anchor, at) = Numbered(zone, walls, n)
    <3>1. back[steps] = Date(zone, walls[n])
      BY <1>8, <2>2
    <3>2. walls[n] + value * Day = walls[n + 1]
      <4> DEFINE p == n * value
      <4>1. /\ p \in Int /\ value \in Int
            /\ walls[n] = In(zone, anchor) + p * 24
            /\ walls[n + 1] = In(zone, anchor) + (p + value) * 24
        BY <1>4, <1>5 DEF Day
      <4> HIDE DEF p
      <4>2. QED
        BY <1>2, <4>1 DEF Day
    <3>3. QED
      BY <1>4, <1>11, <3>1, <3>2
  <2>4. QED
    BY <1>1, <1>4, <2>1, <2>3 DEF walls
<1>13. CASE In(zone, at) < walls[n]
  <2>1. Within(zone, walls, n - 1, at)
    BY <1>5, <1>10, <1>13 DEF Within
  <2>2. steps = 1
    <3>1. back[0] > at /\ back[1] <= at /\ ~(back[1] > at) /\ ~(back[0] <= at)
      BY <1>2, <1>4, <1>5, <1>6, <1>9, <1>10, <1>13
    <3>2. 1 \in 0 .. 2 /\ back[1] <= at /\ \A j \in 0 .. 1 - 1 : back[j] > at
      <4>1. \A j \in 0 .. 1 - 1 : j = 0
        OBVIOUS
      <4>2. QED
        BY <3>1, <4>1
    <3>3. \A k \in 0 .. 2 :
            back[k] <= at /\ (\A j \in 0 .. k - 1 : back[j] > at) => k = 1
      <4>1. \A k \in 0 .. 2 : k = 0 \/ k = 1 \/ (k = 2 /\ 1 \in 0 .. k - 1)
        OBVIOUS
      <4>2. QED
        BY <3>1, <4>1
    <3>4. QED
      BY <3>2, <3>3
  <2> HIDE DEF steps
  <2>3. IntervalPeriod(zone, value, anchor, at) = Numbered(zone, walls, n - 1)
    <3>1. back[steps] = Date(zone, walls[n - 1])
      BY <1>8, <2>2
    <3>2. walls[n - 1] + value * Day = walls[(n - 1) + 1]
      <4> DEFINE p == n * value
      <4>1. /\ p \in Int /\ value \in Int
            /\ walls[n - 1] = In(zone, anchor) + (p - value) * 24
            /\ walls[(n - 1) + 1] = In(zone, anchor) + p * 24
        BY <1>4, <1>5 DEF Day
      <4> HIDE DEF p
      <4>2. QED
        BY <1>2, <4>1 DEF Day
    <3>3. QED
      BY <1>5, <1>11, <3>1, <3>2
  <2>4. QED
    BY <1>1, <1>5, <2>1, <2>3 DEF walls
<1>14. QED
  <2>1. walls[n] \in Int
    BY <1>4, <1>6
  <2>2. QED
    BY <1>2, <1>12, <1>13, <2>1

-----------------------------------------------------------------------------
LEMMA HoursOfDay ==
  ASSUME NEW wall \in Int, NEW d \in Int
  PROVE  wall + d * 24 \in Int /\ (wall + d * 24) % 24 = wall % 24
OBVIOUS

LEMMA RegularMidnights ==
  ASSUME NEW p, Regular(p), p.rule.kind \notin {"never", "interval_days"}
  PROVE  Midnights(p.zone)
<1>1. \A wall \in Skewed(p.zone) : wall % 24 # 0
  BY DEF Regular, BoundaryHour, Day
<1>2. ASSUME NEW d \in Int PROVE (d * 24) % 24 = 0
  BY <1>2
<1>3. QED
  BY <1>1, <1>2 DEF Midnights, Day

LEMMA RegularHours ==
  ASSUME NEW p, Regular(p), p.rule.kind = "interval_days", IsZone(p.zone),
         p.rule.anchor \in Int
  PROVE  Hours(p.zone, p.rule.anchor)
<1>1. \A wall \in Skewed(p.zone) : wall % 24 # In(p.zone, p.rule.anchor) % 24
  BY DEF Regular, BoundaryHour, Day
<1>2. In(p.zone, p.rule.anchor) \in Int
  BY WallIs
<1>3. QED
  BY <1>1, <1>2, HoursOfDay DEF Hours, Day

LEMMA IntervalValue ==
  ASSUME NEW rule, ValidateResetRule(rule), rule.kind = "interval_days"
  PROVE  rule.value \in Nat \ {0}
<1>1. PICK value \in 1 .. 3650 : value = rule.value
  BY SMT DEF ValidateResetRule
<1>2. value \in Nat \ {0}
  BY SMT
<1>3. QED
  BY <1>1, <1>2

\* Whatever the rule, unless its one period never ends, the period of an
\* instant is a numbered one that its wall-clock time lies in.
RuleOf(p, at) == RulePeriod(p.rule, p.zone, p.startedAt, at)

LEMMA RuleIs ==
  ASSUME NEW p \in Policies, Regular(p), p.rule.kind # "never"
  PROVE  \E wall : /\ Boundaries(p.zone, wall)
                   /\ \A at \in Nat : \E k \in Int :
                        /\ Within(p.zone, wall, k, at)
                        /\ RuleOf(p, at) = Numbered(p.zone, wall, k)
<1> DEFINE zone == p.zone
           rule == p.rule
           Is(wall) == /\ Boundaries(zone, wall)
                       /\ \A at \in Nat : \E k \in Int :
                            /\ Within(zone, wall, k, at)
                            /\ RuleOf(p, at) = Numbered(zone, wall, k)
<1>1. IsZone(zone) /\ ValidateResetRule(rule)
      /\ (rule.kind = "interval_days" => rule.anchor \in Int)
  BY PolicyAssumption
<1>2. \/ rule.kind = "daily"
      \/ rule.kind = "weekly" /\ rule.value \in 1 .. 7
      \/ rule.kind = "monthly" /\ rule.value \in 1 .. 31
      \/ rule.kind = "interval_days" /\ rule.value \in Nat \ {0}
  <2> HIDE DEF rule
  <2>1. rule.kind \in {"daily", "weekly", "monthly", "interval_days"}
    BY <1>1 DEF ValidateResetRule, rule
  <2>2. CASE rule.kind = "weekly"
    BY <1>1, <2>2 DEF ValidateResetRule
  <2>3. CASE rule.kind = "monthly"
    BY <1>1, <2>3 DEF ValidateResetRule
  <2>4. CASE rule.kind = "interval_days"
    BY <1>1, <2>4, IntervalValue
  <2>5. QED
    BY <2>1, <2>2, <2>3, <2>4
<1>3. CASE rule.kind = "daily"
  <2>1. \A at : RuleOf(p, at) = DailyPeriod(zone, at)
    BY <1>3 DEF RuleOf, RulePeriod
  <2>2. Midnights(zone)
    BY <1>3, RegularMidnights
  <2>3. Is(DailyWalls)
    <3>1. Boundaries(zone, DailyWalls)
      BY <1>1, <2>2, DailyIs, 0 \in Int
    <3>2. \A at \in Nat : \E k \in Int : /\ Within(zone, DailyWalls, k, at)
                                         /\ DailyPeriod(zone, at) = Numbered(zone, DailyWalls, k)
      BY <1>1, <2>2, DailyIs
    <3>3. QED
      BY <2>1, <3>1, <3>2
  <2>4. QED
    BY <2>3
<1>4. CASE rule.kind = "weekly" /\ rule.value \in 1 .. 7
  <2>1. \A at : RuleOf(p, at) = WeeklyPeriod(zone, rule.value, at)
    BY <1>4 DEF RuleOf, RulePeriod
  <2>2. Midnights(zone)
    BY <1>4, RegularMidnights
  <2> DEFINE walls == WeeklyWalls(rule.value)
  <2>3. Is(walls)
    <3>1. Boundaries(zone, walls)
      BY <1>1, <1>4, <2>2, WeeklyIs, 0 \in Int
    <3>2. \A at \in Nat : \E k \in Int :
            /\ Within(zone, walls, k, at)
            /\ WeeklyPeriod(zone, rule.value, at) = Numbered(zone, walls, k)
      <4> TAKE at \in Nat
      <4> HIDE DEF zone, rule
      <4>1. at \in Int
        OBVIOUS
      <4>2. QED
        BY <1>1, <1>4, <2>2, <4>1, WeeklyIs
    <3>3. QED
      BY <2>1, <3>1, <3>2
  <2>4. QED
    BY <2>3
<1>5. CASE rule.kind = "monthly" /\ rule.value \in 1 .. 31
  <2>1. \A at : RuleOf(p, at) = MonthlyPeriod(zone, rule.value, at)
    BY <1>5 DEF RuleOf, RulePeriod
  <2>2. Midnights(zone)
    BY <1>5, RegularMidnights
  <2> DEFINE walls == MonthlyWalls(rule.value)
  <2>3. Is(walls)
    <3>1. Boundaries(zone, walls)
      BY <1>5, <2>2, MonthlyBoundaries
    <3>2. \A at \in Nat : \E k \in Int :
            /\ Within(zone, walls, k, at)
            /\ MonthlyPeriod(zone, rule.value, at) = Numbered(zone, walls, k)
      BY <1>1, <1>5, <2>2, MonthlyIs
    <3>3. QED
      BY <2>1, <3>1, <3>2
  <2>4. QED
    BY <2>3
<1>6. CASE rule.kind = "interval_days" /\ rule.value \in Nat \ {0}
  <2>1. \A at : RuleOf(p, at) = IntervalPeriod(zone, rule.value, rule.anchor, at)
    BY <1>6 DEF RuleOf, RulePeriod
  <2>2. rule.anchor \in Int /\ Hours(zone, rule.anchor)
    BY <1>1, <1>6, RegularHours
  <2> DEFINE walls == IntervalWalls(zone, rule.value, rule.anchor)
  <2>3. Is(walls)
    <3>1. Boundaries(zone, walls)
      BY <1>1, <1>6, <2>2, IntervalBoundaries
    <3>2. \A at \in Nat : \E k \in Int :
            /\ Within(zone, walls, k, at)
            /\ IntervalPeriod(zone, rule.value, rule.anchor, at) = Numbered(zone, walls, k)
      BY <1>1, <1>6, <2>2, IntervalIs
    <3>3. QED
      BY <2>1, <3>1, <3>2
  <2>4. QED
    BY <2>3
<1>7. QED
  BY <1>2, <1>3, <1>4, <1>5, <1>6

LEMMA HorizonIs == Horizon \in Int /\ NoEnd \in Int /\ Horizon < NoEnd
<1>1. NoEnd \in Int
  BY SMT DEF NoEnd
<1>2. QED
  BY <1>1, BoundAssumption

\* Periods follow one on another, and each is the same from all its instants.
LEMMA RuleTiles ==
  ASSUME NEW p \in Policies, Regular(p), p.rule.kind # "never", NEW at \in Nat
  PROVE  LET c == RuleOf(p, at)
         IN  /\ c = [start |-> c.start, end |-> c.end]
             /\ c.start \in Int /\ c.end \in Int
             /\ c.start <= at /\ at < c.end
             /\ \A t \in Nat : c.start <= t /\ t < c.end => RuleOf(p, t) = c
             /\ RuleOf(p, c.end).start = c.end
<1> DEFINE zone == p.zone
           c == RuleOf(p, at)
<1>1. IsZone(zone)
  BY PolicyAssumption
<1>2. PICK wall : /\ Boundaries(zone, wall)
                  /\ \A t \in Nat : \E k \in Int :
                       Within(zone, wall, k, t) /\ RuleOf(p, t) = Numbered(zone, wall, k)
  BY RuleIs
<1>3. PICK k \in Int : Within(zone, wall, k, at) /\ c = Numbered(zone, wall, k)
  BY <1>2
<1> HIDE DEF c, zone
<1>4. /\ c.start \in Int /\ c.end \in Int
      /\ \A t \in Int : Within(zone, wall, k, t) <=> c.start <= t /\ t < c.end
      /\ Within(zone, wall, k + 1, c.end)
  BY <1>1, <1>2, <1>3, WithinIsIn
<1>5. c = [start |-> c.start, end |-> c.end]
  BY <1>3 DEF Numbered
<1>6. c.start <= at /\ at < c.end /\ c.end \in Nat
  BY <1>3, <1>4
<1>7. ASSUME NEW t \in Nat, c.start <= t, t < c.end PROVE RuleOf(p, t) = c
  <2>1. PICK j \in Int : Within(zone, wall, j, t) /\ RuleOf(p, t) = Numbered(zone, wall, j)
    BY <1>2
  <2>2. Within(zone, wall, k, t) /\ t \in Int
    BY <1>4, <1>7
  <2>3. j = k
    BY <1>1, <1>2, <2>1, <2>2, WithinOne
  <2>4. QED
    BY <1>3, <2>1, <2>3
<1>8. RuleOf(p, c.end).start = c.end
  <2>1. PICK j \in Int : /\ Within(zone, wall, j, c.end)
                         /\ RuleOf(p, c.end) = Numbered(zone, wall, j)
    BY <1>2, <1>6
  <2>2. k + 1 \in Int
    OBVIOUS
  <2>3. j = k + 1
    BY <1>1, <1>2, <1>4, <2>1, <2>2, WithinOne
  <2>4. QED
    BY <1>3, <2>1, <2>3 DEF Numbered
<1>9. QED
  BY <1>4, <1>5, <1>6, <1>7, <1>8 DEF c

\* The same of the periods an authorization really has: none of them begins
\* before it does.
PeriodOf(p, at) == CurrentPeriod(p.rule, p.zone, p.startedAt, at)

LEMMA PeriodTiles ==
  ASSUME NEW p \in Policies, Regular(p), NEW at \in p.startedAt .. Horizon
  PROVE  LET c == PeriodOf(p, at)
         IN  /\ c.start \in Nat /\ c.end \in Int
             /\ p.startedAt <= c.start /\ c.start <= at /\ at < c.end
             /\ \A t \in Nat : c.start <= t /\ t < c.end => PeriodOf(p, t) = c
             /\ c.end # NoEnd => PeriodOf(p, c.end).start = c.end
<1> DEFINE c == PeriodOf(p, at)
           r(t) == RuleOf(p, t)
           s == p.startedAt
<1>1. s \in Nat /\ at \in Nat /\ s <= at
  BY PolicyAssumption, BoundAssumption
<1>2. CASE p.rule.kind = "never"
  <2>1. \A t : r(t) = [start |-> s, end |-> NoEnd]
    BY <1>2 DEF RuleOf, RulePeriod
  <2>2. \A t : PeriodOf(p, t) = [start |-> s, end |-> NoEnd]
    BY <1>1, <2>1 DEF PeriodOf, CurrentPeriod, RuleOf
  <2>3. at < NoEnd /\ NoEnd \in Int
    <3>1. Horizon \in Int /\ Horizon < NoEnd /\ NoEnd \in Int
      BY HorizonIs
    <3>2. QED
      BY <1>1, <3>1
  <2>4. QED
    BY <1>1, <2>2, <2>3
<1>3. CASE p.rule.kind # "never"
  <2>1. \A t : PeriodOf(p, t) = IF r(t).start < s THEN [r(t) EXCEPT !.start = s] ELSE r(t)
    BY DEF PeriodOf, CurrentPeriod, RuleOf
  <2>2. /\ r(at) = [start |-> r(at).start, end |-> r(at).end]
        /\ r(at).start \in Int /\ r(at).end \in Int
        /\ r(at).start <= at /\ at < r(at).end
        /\ \A t \in Nat : r(at).start <= t /\ t < r(at).end => r(t) = r(at)
        /\ r(r(at).end).start = r(at).end
    BY <1>1, <1>3, RuleTiles
  <2> HIDE DEF r
  <2>3. /\ c.end = r(at).end
        /\ c.start = IF r(at).start < s THEN s ELSE r(at).start
    BY <2>1, <2>2
  <2>4. /\ c.start \in Nat /\ c.end \in Int
        /\ s <= c.start /\ c.start <= at /\ at < c.end
    <3> HIDE DEF s, c
    <3>1. QED
      BY <1>1, <2>2, <2>3
  <2>5. ASSUME NEW t \in Nat, c.start <= t, t < c.end PROVE PeriodOf(p, t) = c
    <3>1. r(at).start <= t /\ t < r(at).end
      <4> HIDE DEF s, c
      <4>1. QED
        BY <1>1, <2>2, <2>3, <2>5
    <3>2. r(t) = r(at)
      BY <2>2, <3>1
    <3>3. QED
      BY <2>1, <3>2
  <2>6. PeriodOf(p, c.end).start = c.end
    <3>1. r(c.end).start = c.end
      BY <2>2, <2>3
    <3>2. ~(c.end < s)
      <4> HIDE DEF s, c
      <4>1. QED
        BY <1>1, <2>4
    <3>3. PeriodOf(p, c.end) = r(c.end)
      BY <2>1, <3>1, <3>2
    <3>4. QED
      BY <3>1, <3>3
  <2>7. QED
    BY <2>4, <2>5, <2>6
<1>4. QED
  BY <1>2, <1>3

-----------------------------------------------------------------------------
\* What the Agent accounts to is the period of some instant up to now.
CalendarInv ==
  /\ policy \in Policies /\ now \in policy.startedAt .. Horizon
  /\ period = NoPeriod \/ \E t \in policy.startedAt .. now : period = PeriodOf(policy, t)

LEMMA CalendarInvariance == Spec => []CalendarInv
<1>1. Init => CalendarInv
  <2> SUFFICES ASSUME Init PROVE CalendarInv
    OBVIOUS
  <2>1. policy \in Policies /\ now = policy.startedAt /\ period = NoPeriod
    BY DEF Init
  <2>2. policy.startedAt \in 0 .. Horizon
    BY <2>1, PolicyAssumption
  <2>3. Horizon \in Int
    BY HorizonIs
  <2>4. QED
    BY <2>1, <2>2, <2>3 DEF CalendarInv
<1>2. CalendarInv /\ [Next]_vars => CalendarInv'
  <2> SUFFICES ASSUME CalendarInv, [Next]_vars PROVE CalendarInv'
    OBVIOUS
  <2>1. /\ policy \in Policies /\ policy.startedAt \in Nat /\ now \in Int
        /\ policy.startedAt <= now /\ now <= Horizon /\ Horizon \in Int
    <3>1. policy \in Policies /\ now \in policy.startedAt .. Horizon
      BY DEF CalendarInv
    <3>2. policy.startedAt \in 0 .. Horizon
      BY <3>1, PolicyAssumption
    <3>3. Horizon \in Int
      BY HorizonIs
    <3>4. QED
      BY <3>1, <3>2, <3>3
  <2>2. CASE Tick
    BY <2>1, <2>2 DEF CalendarInv, Tick, PeriodOf
  <2>3. ASSUME period' = PeriodNow, UNCHANGED <<policy, now>> PROVE CalendarInv'
    <3>1. now \in policy.startedAt .. now /\ PeriodNow = PeriodOf(policy, now)
      BY <2>1 DEF PeriodNow, PeriodOf
    <3>2. QED
      BY <2>3, <3>1 DEF CalendarInv, PeriodOf
  <2>4. CASE Reconcile
    BY <2>3, <2>4 DEF Reconcile
  <2>5. CASE Roll
    BY <2>3, <2>5 DEF Roll
  <2>6. CASE UNCHANGED vars
    BY <2>6 DEF CalendarInv, vars, PeriodOf
  <2>7. QED
    BY <2>2, <2>4, <2>5, <2>6 DEF Next
<1>3. QED
  BY <1>1, <1>2, PTL DEF Spec

\* The periods of the model are those that PeriodTiles is about.
LEMMA NowTiles ==
  ASSUME CalendarInv, Regular(policy)
  PROVE  /\ PeriodNow.start \in Nat /\ PeriodNow.end \in Int /\ now \in Nat
         /\ policy.startedAt <= PeriodNow.start
         /\ PeriodNow.start <= now /\ now < PeriodNow.end
         /\ PeriodOf(policy, PeriodNow.start) = PeriodNow
         /\ PeriodNow.end # NoEnd => PeriodOf(policy, PeriodNow.end).start = PeriodNow.end
<1>1. policy \in Policies /\ now \in policy.startedAt .. Horizon
  BY DEF CalendarInv
<1>2. PeriodNow = PeriodOf(policy, now)
  BY DEF PeriodNow, PeriodOf
<1>3. policy.startedAt \in Nat
  BY <1>1, PolicyAssumption
<1>4. now \in Nat
  BY <1>1, <1>3
<1>5. LET c == PeriodOf(policy, now)
      IN  /\ c.start \in Nat /\ c.end \in Int
          /\ policy.startedAt <= c.start /\ c.start <= now /\ now < c.end
          /\ \A t \in Nat : c.start <= t /\ t < c.end => PeriodOf(policy, t) = c
          /\ c.end # NoEnd => PeriodOf(policy, c.end).start = c.end
  BY <1>1, PeriodTiles
<1>6. PeriodOf(policy, PeriodNow.start) = PeriodNow
  BY <1>2, <1>4, <1>5
<1>7. QED
  BY <1>2, <1>4, <1>5, <1>6

\* Whatever time it is, the current period is the one the clock is in, and the
\* next begins where it ends: no hour is counted twice and none is left out
\* (CurrentPeriod), for any rules and zones, if no change of the clocks skips or
\* repeats the hour at which the periods begin.
THEOREM PeriodsFollow == Spec => [](Regular(policy) => PeriodsTile)
<1>1. CalendarInv => (Regular(policy) => PeriodsTile)
  BY NowTiles DEF PeriodsTile, ContainsNow, NextAbuts, PeriodOf
<1>2. QED
  BY <1>1, CalendarInvariance, PTL

\* The Agent, which took its period from the center once or has rolled it
\* forward by itself, holds the period the center computes at any instant of it
\* (CurrentPeriod "returns the same period on the center and Agent").
THEOREM OneCalendar == Spec => [](Regular(policy) => CenterAgrees)
<1>1. ASSUME CalendarInv, Regular(policy), now < period.end PROVE PeriodNow = period
  <2>1. policy \in Policies /\ now \in policy.startedAt .. Horizon
    BY <1>1 DEF CalendarInv
  <2>2. policy.startedAt \in Nat
    BY <2>1, PolicyAssumption
  <2>3. now \in Nat /\ policy.startedAt <= now /\ now <= Horizon
    BY <2>1, <2>2
  <2>4. period # NoPeriod
    BY <1>1, <2>3 DEF NoPeriod
  <2>5. PICK t \in policy.startedAt .. now : period = PeriodOf(policy, t)
    BY <1>1, <2>4 DEF CalendarInv
  <2>6. t \in policy.startedAt .. Horizon /\ t <= now
    <3>1. Horizon \in Int
      BY HorizonIs
    <3>2. QED
      BY <2>2, <2>3, <3>1
  <2>7. /\ period.start \in Nat /\ period.start <= t
        /\ \A u \in Nat : period.start <= u /\ u < period.end => PeriodOf(policy, u) = period
    BY <1>1, <2>1, <2>5, <2>6, PeriodTiles
  <2>8. PeriodOf(policy, now) = period
    BY <1>1, <2>2, <2>3, <2>6, <2>7
  <2>9. QED
    BY <2>8 DEF PeriodNow, PeriodOf
<1>2. CalendarInv => (Regular(policy) => CenterAgrees)
  BY <1>1 DEF CenterAgrees
<1>3. QED
  BY <1>2, CalendarInvariance, PTL

\* The Agent's validator, which computes the period once more from its own
\* start, accepts every period the center can compute
\* (ValidateAuthorizationPolicy).
THEOREM PeriodsAreAccepted == Spec => [](Regular(policy) => AgentAccepts)
<1>1. ASSUME CalendarInv, Regular(policy) PROVE AgentAccepts
  <2>1. ValidateResetRule(policy.rule)
    BY <1>1, PolicyAssumption DEF CalendarInv
  <2>2. /\ PeriodNow.start \in Nat /\ PeriodNow.end \in Int
        /\ policy.startedAt <= PeriodNow.start /\ PeriodNow.start < PeriodNow.end
        /\ CurrentPeriod(policy.rule, policy.zone, policy.startedAt, PeriodNow.start) = PeriodNow
    BY <1>1, NowTiles DEF PeriodOf
  <2>3. policy.startedAt \in Nat
    BY <1>1, PolicyAssumption DEF CalendarInv
  <2>4. QED
    BY <2>1, <2>2, <2>3 DEF AgentAccepts, Valid, ValidateCurrentPeriod, ValidatePeriod
<1>2. QED
  BY <1>1, CalendarInvariance, PTL

\* Clock and period stay what they are said to be, though Roll validates
\* nothing.
THEOREM CalendarTypeCorrect == Spec => [](Regular(policy) => TypeOK)
<1>1. ASSUME CalendarInv, Regular(policy) PROVE TypeOK
  <2>1. policy \in Policies /\ now \in policy.startedAt .. Horizon
    BY <1>1 DEF CalendarInv
  <2>2. ASSUME NEW t \in policy.startedAt .. now, period = PeriodOf(policy, t)
        PROVE  period.start \in Nat /\ period.end > period.start
    <3>1. policy.startedAt \in Nat /\ Horizon \in Int
      <4>1. policy.startedAt \in Nat
        BY <2>1, PolicyAssumption
      <4>2. Horizon \in Int
        BY HorizonIs
      <4>3. QED
        BY <4>1, <4>2
    <3>2. t \in policy.startedAt .. Horizon
      BY <2>1, <3>1
    <3>3. /\ period.start \in Nat /\ period.end \in Int /\ period.start <= t /\ t < period.end
      BY <1>1, <2>1, <2>2, <3>2, PeriodTiles
    <3>4. QED
      BY <3>1, <3>2, <3>3
  <2>3. QED
    BY <1>1, <2>1, <2>2 DEF CalendarInv, TypeOK
<1>2. QED
  BY <1>1, CalendarInvariance, PTL

=============================================================================
