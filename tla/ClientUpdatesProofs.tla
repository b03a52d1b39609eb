------------------------- MODULE ClientUpdatesProofs -------------------------
(***************************************************************************)
(* Theorems about ClientUpdates for any Setups, publishers and helpers.    *)
(***************************************************************************)
EXTENDS ClientUpdates, TLAPS

\* The two halves of the type invariant.
HqTyped ==
  /\ staging \in [Versions -> Setups \union {NoSetup}]
  /\ package \in [Versions -> Setups \union {NoSetup}]
  /\ manifest \in Manifests
  /\ publisher \in [Publishers -> [at : {"idle", "copying", "placing", "recording"},
       version : Versions \union {0}, temp : Setups \union {NoSetup},
       hash : Setups \union {NoSetup}]]
  /\ published \subseteq Setups
  /\ interrupted \subseteq Versions

DeviceTyped ==
  /\ command \in {"none", "queued", "running"}
  /\ reported \in Versions
  /\ connector \in {"down", "telemetry", "poll", "polled"}
  /\ stage \in [at : {"idle", "asking", "requesting", "receiving", "verifying",
       "launching", "reporting"}, manifest : Manifests]
  /\ file \in [Versions -> Setups \union {NoSetup}]
  /\ status \in [state : {"idle", "downloading", "staged", "installing",
       "completed", "failed"}, target : Versions \union {0}]
  /\ helper \in [Helpers -> [at : {"idle", "sleeping", "starting", "authorising",
       "copying", "finishing"}, expected : Manifests, runs : Setups \union {NoSetup}]]
  /\ installed \in Setups /\ everInstalled \subseteq Setups
  /\ connector = "down" => stage = NoStage

\* What a publication in progress knows: its copy is what it hashed, its
\* content is there once placed, and it is alone, unless it was disturbed.
Whole ==
  /\ \A p \in Publishers :
       /\ publisher[p].at # "idle" => publisher[p].version \in Versions
       /\ publisher[p].at = "copying" => staging[publisher[p].version] # NoSetup
       /\ publisher[p].at \in {"placing", "recording"} =>
            publisher[p].temp # NoSetup /\ publisher[p].temp = publisher[p].hash
       /\ publisher[p].at = "recording" =>
            \/ publisher[p].version \in interrupted
            \/ package[publisher[p].version] = publisher[p].temp
  /\ PublicationIsWhole

\* Every manifest a process holds was published, and every file it may start
\* is of such a manifest.
Known == published \union {NoSetup}
Traced ==
  /\ manifest.hash \in Known /\ stage.manifest.hash \in Known
  /\ stage.at \in {"requesting", "receiving", "verifying", "launching"} =>
       stage.manifest # NoManifest
  /\ \A v \in Versions : file[v] \in Known
  /\ \A h \in Helpers :
       /\ helper[h].at # "idle" => helper[h].expected # NoManifest
       /\ helper[h].runs \in Known
       /\ helper[h].at \in {"authorising", "copying"} => helper[h].runs # NoSetup
  /\ InstalledWasPublished

\* What is installed is in the history.
Remembered == installed \in everInstalled /\ CompletedWasInstalled

IInv == HqTyped /\ DeviceTyped /\ Whole /\ Traced /\ Remembered

-----------------------------------------------------------------------------

LEMMA TypeSplit == HqTyped /\ DeviceTyped <=> UpTypeOK
BY DEF HqTyped, DeviceTyped, UpTypeOK

LEMMA VersionFacts ==
  /\ \A s \in Setups : Product[s] \in Versions
  /\ \A v \in Versions : v \in Nat /\ v # 0
BY UpdatesAssumption DEF Versions

LEMMA InitInvariant == Init => IInv
<1> SUFFICES ASSUME Init PROVE IInv
  OBVIOUS
<1> USE UpdatesAssumption
<1>1. First \in Setups /\ Product[First] \in Versions
  BY VersionFacts
<1>2. HqTyped
  BY DEF Init, HqTyped, Manifests, Idle
<1>3. DeviceTyped
  BY <1>1 DEF Init, DeviceTyped, Manifests, NoStage, NoHelper, NoManifest
<1>4. Whole
  BY DEF Init, Whole, Idle, PublicationIsWhole
<1>5. Traced
  BY DEF Init, Traced, Known, NoManifest, NoStage, NoHelper, InstalledWasPublished
<1>6. Remembered
  BY DEF Init, Remembered, CompletedWasInstalled
<1> QED  BY <1>2, <1>3, <1>4, <1>5, <1>6 DEF IInv

-----------------------------------------------------------------------------
(* HQ's steps touch the device only through the command.                   *)
HqActions ==
  \/ \E v \in Versions \ {Product[First]}, s \in Setups : StageSetup(v, s)
  \/ \E p \in Publishers : PublishRequest(p) \/ Copy(p) \/ Place(p) \/ Record(p)
                           \/ PublicationFails(p)
  \/ HqExit

LEMMA PublicationStep ==
  ASSUME IInv, HqActions
  PROVE  HqTyped' /\ Whole' /\ published \subseteq published' /\ manifest'.hash \in Known'
<1> USE UpdatesAssumption DEF IInv, HqTyped
<1>1. ASSUME NEW v \in Versions, NEW s \in Setups, StageSetup(v, s)
      PROVE  HqTyped' /\ Whole' /\ UNCHANGED <<published, manifest>>
  <2>1. HqTyped'
    BY <1>1 DEF StageSetup
  <2>2. Whole'
    BY <1>1 DEF StageSetup, Whole, PublicationIsWhole, Recording
  <2> QED  BY <1>1, <2>1, <2>2 DEF StageSetup
<1>2. ASSUME NEW p \in Publishers, PublishRequest(p)
      PROVE  HqTyped' /\ Whole' /\ UNCHANGED <<published, manifest>>
  <2>1. HqTyped'
    BY <1>2 DEF PublishRequest
  <2>2. Whole'
    BY <1>2 DEF PublishRequest, Newest, Idle, Whole, PublicationIsWhole, Recording
  <2> QED  BY <1>2, <2>1, <2>2 DEF PublishRequest
<1>3. ASSUME NEW p \in Publishers, Copy(p)
      PROVE  HqTyped' /\ Whole' /\ UNCHANGED <<published, manifest>>
  <2>1. publisher[p].version \in Versions /\ staging[publisher[p].version] \in Setups
    BY <1>3 DEF Copy, Whole
  <2>3. publisher' = [publisher EXCEPT ![p] = [@ EXCEPT !.at = "placing",
          !.temp = staging[publisher[p].version], !.hash = staging[publisher[p].version]]]
    BY <1>3 DEF Copy
  <2>2. HqTyped'
    <3> DEFINE Copied == [publisher[p] EXCEPT !.at = "placing",
          !.temp = staging[publisher[p].version], !.hash = staging[publisher[p].version]]
    <3>1. Copied \in [at : {"idle", "copying", "placing", "recording"},
            version : Versions \union {0}, temp : Setups \union {NoSetup},
            hash : Setups \union {NoSetup}]
      BY <2>1
    <3>2. publisher' = [publisher EXCEPT ![p] = Copied]
      BY <2>3
    <3>3. UNCHANGED <<staging, package, manifest, published, interrupted>>
      BY <1>3 DEF Copy
    <3> HIDE DEF Copied
    <3> QED  BY <3>1, <3>2, <3>3
  <2>4. Whole'
    BY <1>3, <2>1, <2>3 DEF Copy, Whole, PublicationIsWhole, Recording
  <2> QED  BY <1>3, <2>2, <2>4 DEF Copy
<1>4. ASSUME NEW p \in Publishers, Place(p)
      PROVE  HqTyped' /\ Whole' /\ UNCHANGED <<published, manifest>>
  <2>1. publisher[p].version \in Versions
    BY <1>4 DEF Place, Whole
  <2>2. HqTyped'
    BY <1>4, <2>1 DEF Place
  <2>3. \A q \in Publishers : publisher[q].at = "recording" /\ publisher[q].version = publisher[p].version
          => publisher[p].version \in interrupted'
    BY <1>4 DEF Place, Recording
  <2>4. \A q \in Publishers : publisher[q].at = "recording" => publisher'[q] = publisher[q]
    BY <1>4 DEF Place
  <2>5. publisher'[p].at = "recording" /\ publisher'[p].version = publisher[p].version
    BY <1>4 DEF Place
  <2>6. interrupted \subseteq interrupted' /\ UNCHANGED <<manifest, published, staging>>
    BY <1>4 DEF Place
  <2>7. PublicationIsWhole'
    <3>1. CASE manifest = NoManifest
      BY <3>1, <2>6 DEF PublicationIsWhole
    <3>2. CASE manifest.version = publisher[p].version
      BY <3>2, <2>5, <2>6 DEF PublicationIsWhole, Recording
    <3>3. CASE manifest # NoManifest /\ manifest.version # publisher[p].version
      <4>1. manifest.version \in Versions
        BY <3>3 DEF Manifests
      <4>2. package'[manifest.version] = package[manifest.version]
        BY <1>4, <3>3, <4>1 DEF Place
      <4> QED  BY <3>3, <4>2, <2>4, <2>6 DEF PublicationIsWhole, Whole, Recording
    <3> QED  BY <3>1, <3>2, <3>3
  <2>8. Whole'
    BY <1>4, <2>1, <2>3, <2>6, <2>7 DEF Place, Whole
  <2> QED  BY <2>2, <2>6, <2>8
<1>5. ASSUME NEW p \in Publishers, Record(p)
      PROVE  /\ HqTyped' /\ Whole' /\ published \subseteq published'
             /\ manifest'.hash \in Known'
  <2>1. publisher[p].version \in Versions /\ publisher[p].hash \in Setups
    BY <1>5 DEF Record, Whole
  <2>2. HqTyped' /\ manifest'.hash \in published' /\ published \subseteq published'
    BY <1>5, <2>1 DEF Record, Manifests, Idle
  <2>3. PublicationIsWhole'
    BY <1>5, <2>1 DEF Record, Whole, PublicationIsWhole
  <2>4. Whole'
    BY <1>5, <2>1, <2>3 DEF Record, Whole, Idle
  <2> QED  BY <2>2, <2>4 DEF Known
<1>6. ASSUME HqExit
      PROVE  HqTyped' /\ Whole' /\ UNCHANGED <<published, manifest>>
  <2>1. HqTyped'
    BY <1>6 DEF HqExit, Idle
  <2>2. PublicationIsWhole'
    BY <1>6 DEF HqExit, Whole, PublicationIsWhole, Manifests
  <2>3. Whole'
    BY <1>6, <2>2 DEF HqExit, Whole, Idle
  <2> QED  BY <1>6, <2>1, <2>3 DEF HqExit
<1>7. ASSUME NEW p \in Publishers, PublicationFails(p)
      PROVE  HqTyped' /\ Whole' /\ UNCHANGED <<published, manifest>>
  <2>1. publisher[p].at # "idle" => publisher[p].version \in Versions
    BY DEF Whole
  <2>2. HqTyped'
    BY <1>7, <2>1 DEF PublicationFails, Idle
  <2>3. PublicationIsWhole'
    <3>1. Recording(manifest.version)' = Recording(manifest.version) \ {p}
      BY <1>7 DEF PublicationFails, Recording, Idle
    <3>2. p \in Recording(manifest.version) => manifest.version \in interrupted'
      BY <1>7 DEF PublicationFails, Recording
    <3> QED  BY <1>7, <3>1, <3>2 DEF PublicationFails, Whole, PublicationIsWhole
  <2>4. Whole'
    BY <1>7, <2>3 DEF PublicationFails, Whole, Idle
  <2> QED  BY <1>7, <2>2, <2>4 DEF PublicationFails
<1> QED  BY <1>1, <1>2, <1>3, <1>4, <1>5, <1>6, <1>7 DEF HqActions, Known, Traced

\* The rest of the state: HQ's steps leave the device as it is.
LEMMA HqKeepsDevice ==
  ASSUME IInv, HqActions \/ Deploy
  PROVE  DeviceTyped' /\ Traced' /\ Remembered'
<1>1. UNCHANGED <<deviceVars, reported, connector>>
  BY DEF HqActions, StageSetup, PublishRequest, Copy, Place, Record, HqExit, Deploy,
         PublicationFails
<1>2. command' \in {"none", "queued", "running"}
  BY DEF HqActions, StageSetup, PublishRequest, Copy, Place, Record, HqExit, Deploy, Ensure,
         PublicationFails, IInv, DeviceTyped
<1>3. published \subseteq published' /\ manifest'.hash \in Known'
  <2>1. CASE HqActions
    BY <2>1, PublicationStep
  <2>2. CASE Deploy
    BY <2>2 DEF Deploy, hqVars, IInv, Traced, Known
  <2> QED  BY <2>1, <2>2
<1>4. DeviceTyped'
  BY <1>1, <1>2 DEF IInv, DeviceTyped, deviceVars
<1>5. Traced'
  BY <1>1, <1>3 DEF IInv, Traced, Known, deviceVars, InstalledWasPublished
<1>6. Remembered'
  BY <1>1 DEF IInv, Remembered, deviceVars, CompletedWasInstalled
<1> QED  BY <1>4, <1>5, <1>6

LEMMA HqUnchanged ==
  ASSUME IInv, UNCHANGED hqVars
  PROVE  HqTyped' /\ Whole'
BY DEF IInv, hqVars, HqTyped, Whole, PublicationIsWhole, Recording

-----------------------------------------------------------------------------
(* The device: connector, staging and helpers.                             *)
ConnectorActions ==
  TelemetryDue \/ Telemetry \/ Poll \/ AgentExit \/ AgentStart
StageActions == AgentStep \/ RequestLost \/ ResultLost
HelperActions == \E h \in Helpers : HelperStep(h) \/ SetupFails(h)

Kept == DeviceTyped' /\ Traced' /\ Remembered' /\ UNCHANGED hqVars

LEMMA ConnectorStep ==
  ASSUME IInv, ConnectorActions
  PROVE  Kept
<1> USE UpdatesAssumption DEF IInv
<1>1. NoStage \in [at : {"idle"}, manifest : Manifests] /\ NoStage.at = "idle"
      /\ NoStage.manifest = NoManifest /\ NoManifest.hash = NoSetup
  BY DEF NoStage, Manifests, NoManifest
<1>2. /\ UNCHANGED <<hqVars, file, status, helper, installed, everInstalled>>
      /\ reported' \in Versions /\ command' \in {"none", "queued", "running"}
      /\ connector' \in {"down", "telemetry", "poll", "polled"}
  BY VersionFacts DEF ConnectorActions, TelemetryDue, Telemetry, Poll, AgentExit, AgentStart, Stopped,
         Ensure, DeviceTyped, hqVars, deviceVars, Installed
<1>3. \/ UNCHANGED stage /\ connector' # "down"
      \/ stage' = NoStage
      \/ stage' = [at |-> "asking", manifest |-> NoManifest] /\ connector' # "down"
  BY DEF ConnectorActions, TelemetryDue, Telemetry, Poll, AgentExit, AgentStart, Stopped,
         deviceVars
<1>4. /\ stage' \in [at : {"idle", "asking", "requesting", "receiving", "verifying",
                           "launching", "reporting"}, manifest : Manifests]
      /\ connector' = "down" => stage' = NoStage
  BY <1>1, <1>3 DEF DeviceTyped, Manifests
<1>5. /\ stage'.manifest.hash \in Known
      /\ stage'.at \in {"requesting", "receiving", "verifying", "launching"} =>
           stage'.manifest # NoManifest
  BY <1>1, <1>3 DEF Traced, Known
<1>6. DeviceTyped'
  BY <1>2, <1>4 DEF DeviceTyped
<1>7. Traced'
  BY <1>2, <1>5 DEF Traced, Known, hqVars, InstalledWasPublished
<1>8. Remembered'
  BY <1>2 DEF Remembered, CompletedWasInstalled
<1> QED  BY <1>2, <1>6, <1>7, <1>8 DEF Kept

\* A stage that fails keeps its manifest and reports.
LEMMA StageFailsStep ==
  ASSUME IInv, StageFails, stage.at # "idle"
  PROVE  Kept
<1> USE UpdatesAssumption DEF IInv
<1>1. stage.manifest.version \in Versions \union {0}
  BY DEF DeviceTyped, Manifests, NoManifest
<1>2. connector # "down"
  BY DEF DeviceTyped, NoStage
<1>3. DeviceTyped'
  BY <1>1, <1>2 DEF StageFails, Report, Status, StageVars, DeviceTyped
<1>4. Traced'
  BY DEF StageFails, Report, StageVars, Traced, Known, hqVars, InstalledWasPublished, DeviceTyped
<1>5. Remembered'
  BY DEF StageFails, Status, StageVars, Remembered, CompletedWasInstalled
<1> QED  BY <1>3, <1>4, <1>5 DEF Kept, StageFails, StageVars

LEMMA StageStep ==
  ASSUME IInv, StageActions
  PROVE  Kept
<1> USE UpdatesAssumption DEF IInv
<1>1. /\ stage.manifest \in Manifests /\ manifest \in Manifests
      /\ \A m \in Manifests : m.version \in Versions \union {0}
      /\ stage.at # "idle" => connector # "down"
      /\ Installed \in Nat
  BY VersionFacts DEF DeviceTyped, HqTyped, Manifests, NoManifest, NoStage, Installed
<1>2. CASE Ask
  <2>1. /\ stage'.at \in {"requesting", "reporting"}
        /\ stage' \in [at : {"requesting", "reporting"}, manifest : {manifest, stage.manifest}]
        /\ stage'.at = "requesting" => stage'.manifest # NoManifest
        /\ UNCHANGED <<file, StageVars>> /\ connector # "down"
        /\ \/ UNCHANGED status
           \/ status' = [state |-> "downloading", target |-> manifest.version]
    BY <1>1, <1>2 DEF Ask, Report, Status, DeviceTyped, NoManifest
  <2>2. DeviceTyped'
    BY <1>1, <2>1 DEF DeviceTyped, StageVars
  <2>3. Traced'
    BY <2>1 DEF Traced, Known, StageVars, hqVars, InstalledWasPublished
  <2>4. Remembered'
    BY <2>1 DEF Remembered, CompletedWasInstalled, StageVars
  <2> QED  BY <2>1, <2>2, <2>3, <2>4 DEF Kept, StageVars
<1>3. CASE RequestPackage \/ Receive \/ Verify \/ RequestLost
  <2>1. CASE StageFails
    BY <1>3, <2>1, StageFailsStep DEF RequestPackage, Receive, Verify, RequestLost
  <2>2. CASE RequestPackage /\ ~StageFails
    <3>1. /\ stage' = [stage EXCEPT !.at = "receiving"] /\ stage.at = "requesting"
          /\ UNCHANGED <<status, file, StageVars>>
      BY <2>2 DEF RequestPackage
    <3>2. DeviceTyped'
      BY <1>1, <3>1 DEF DeviceTyped, StageVars
    <3>3. Traced' /\ Remembered'
      BY <3>1 DEF Traced, Known, StageVars, hqVars, InstalledWasPublished, DeviceTyped,
                  Remembered, CompletedWasInstalled
    <3> QED  BY <3>1, <3>2, <3>3 DEF Kept, StageVars
  <2>3. CASE Receive /\ ~StageFails
    <3>1. /\ stage' = [stage EXCEPT !.at = "verifying"] /\ stage.at = "receiving"
          /\ file' = [file EXCEPT ![stage.manifest.version] = Streamed]
          /\ Streamed = stage.manifest.hash
          /\ UNCHANGED <<status, StageVars>>
      BY <2>3 DEF Receive
    <3>2. Streamed \in Known /\ Known \subseteq Setups \union {NoSetup}
      BY <3>1 DEF Traced, Known, HqTyped
    <3>3. DeviceTyped'
      BY <1>1, <3>1, <3>2 DEF DeviceTyped, StageVars
    <3>4. \A v \in Versions : file'[v] \in Known
      BY <3>1, <3>2 DEF Traced, DeviceTyped
    <3>5. Traced' /\ Remembered'
      BY <3>1, <3>4 DEF Traced, Known, StageVars, hqVars, InstalledWasPublished, DeviceTyped,
                        Remembered, CompletedWasInstalled
    <3> QED  BY <3>1, <3>3, <3>5 DEF Kept, StageVars
  <2>4. CASE Verify /\ ~StageFails
    <3>1. /\ stage' = [stage EXCEPT !.at = "launching"] /\ stage.at = "verifying"
          /\ status' = [state |-> "staged", target |-> stage.manifest.version]
          /\ UNCHANGED <<file, StageVars>>
      BY <2>4 DEF Verify, Status
    <3>2. DeviceTyped'
      BY <1>1, <3>1 DEF DeviceTyped, StageVars
    <3>3. Traced' /\ Remembered'
      BY <3>1 DEF Traced, Known, StageVars, hqVars, InstalledWasPublished, DeviceTyped,
                  Remembered, CompletedWasInstalled
    <3> QED  BY <3>1, <3>2, <3>3 DEF Kept, StageVars
  <2>5. CASE RequestLost /\ ~StageFails
    <3>1. /\ stage' = [stage EXCEPT !.at = "reporting"] /\ stage.at = "asking"
          /\ UNCHANGED <<status, file, StageVars>>
      BY <2>5 DEF RequestLost, Report
    <3>2. DeviceTyped'
      BY <1>1, <3>1 DEF DeviceTyped, StageVars
    <3>3. Traced' /\ Remembered'
      BY <3>1 DEF Traced, Known, StageVars, hqVars, InstalledWasPublished, DeviceTyped,
                  Remembered, CompletedWasInstalled
    <3> QED  BY <3>1, <3>2, <3>3 DEF Kept, StageVars
  <2> QED  BY <1>3, <2>1, <2>2, <2>3, <2>4, <2>5
<1>4. CASE Launch
  <2>1. PICK h \in Helpers :
          helper' = [helper EXCEPT ![h] =
            [at |-> "sleeping", expected |-> stage.manifest, runs |-> NoSetup]]
    BY <1>4 DEF Launch
  <2>2. /\ stage.at = "launching" /\ stage' = [stage EXCEPT !.at = "reporting"]
        /\ UNCHANGED <<hqVars, file, status, installed, everInstalled, command, reported,
                       connector>>
    BY <1>4 DEF Launch, Report
  <2>3. DeviceTyped'
    BY <1>1, <2>1, <2>2 DEF DeviceTyped
  <2>4. Traced'
    BY <2>1, <2>2 DEF Traced, Known, hqVars, InstalledWasPublished, DeviceTyped
  <2>5. Remembered'
    BY <2>2 DEF Remembered, CompletedWasInstalled
  <2> QED  BY <2>2, <2>3, <2>4, <2>5 DEF Kept
<1>5. CASE Finish \/ ResultLost
  <2>1. /\ stage' = NoStage /\ command' \in {"none", command} /\ stage.at = "reporting"
        /\ UNCHANGED <<hqVars, file, status, helper, installed, everInstalled, reported,
                       connector>>
    BY <1>5 DEF Finish, ResultLost
  <2>2. /\ NoStage \in [at : {"idle"}, manifest : Manifests] /\ NoStage.at = "idle"
        /\ NoStage.manifest.hash = NoSetup
    BY DEF NoStage, Manifests, NoManifest
  <2>3. DeviceTyped'
    BY <1>1, <2>1, <2>2 DEF DeviceTyped
  <2>4. Traced' /\ Remembered'
    BY <2>1, <2>2 DEF Traced, Known, hqVars, InstalledWasPublished, Remembered,
                      CompletedWasInstalled
  <2> QED  BY <2>1, <2>3, <2>4 DEF Kept
<1> QED  BY <1>2, <1>3, <1>4, <1>5 DEF StageActions, AgentStep

\* A helper that fails ends and leaves files and agent alone.
LEMMA HelperFailsStep ==
  ASSUME IInv, NEW h \in Helpers, HelperFails(h)
  PROVE  Kept
<1> USE UpdatesAssumption DEF IInv
<1>1. /\ helper[h].expected.version \in Versions \union {0}
      /\ NoHelper \in [at : {"idle"}, expected : Manifests, runs : {NoSetup}]
      /\ NoHelper.at = "idle" /\ NoHelper.runs = NoSetup
  BY DEF DeviceTyped, Manifests, NoManifest, NoHelper
<1>2. /\ helper' = [helper EXCEPT ![h] = NoHelper]
      /\ status' \in {status, [state |-> "failed", target |-> helper[h].expected.version]}
      /\ UNCHANGED <<HelperVars, connector, stage, file, installed, everInstalled>>
  BY DEF HelperFails, HelperEnds, Status, Expected
<1>3. DeviceTyped'
  BY <1>1, <1>2 DEF DeviceTyped, HelperVars
<1>4. Traced'
  BY <1>1, <1>2 DEF Traced, Known, HelperVars, hqVars, InstalledWasPublished, DeviceTyped
<1>5. Remembered'
  BY <1>2 DEF Remembered, CompletedWasInstalled
<1> QED  BY <1>2, <1>3, <1>4, <1>5 DEF Kept, HelperVars

LEMMA HelperProgress ==
  ASSUME IInv, HelperActions
  PROVE  Kept
<1> USE UpdatesAssumption DEF IInv
<1>1. PICK h \in Helpers : HelperStep(h) \/ SetupFails(h)
  BY DEF HelperActions
<1>2. /\ helper[h].expected \in Manifests
      /\ helper[h].expected.version \in Versions \union {0}
      /\ helper[h].at # "idle" => helper[h].expected.version \in Versions
  BY DEF DeviceTyped, Manifests, NoManifest, Traced
<1>3. CASE HelperFails(h)
  BY <1>3, HelperFailsStep
<1>4. CASE Check(h) /\ ~HelperFails(h)
  <2>1. /\ helper' = [helper EXCEPT ![h].at = "starting"] /\ helper[h].at = "sleeping"
        /\ status' = [state |-> "installing", target |-> helper[h].expected.version]
        /\ UNCHANGED <<HelperVars, connector, stage, file, installed, everInstalled>>
    BY <1>4 DEF Check, Status, Expected
  <2>2. DeviceTyped'
    BY <1>2, <2>1 DEF DeviceTyped, HelperVars
  <2>3. Traced' /\ Remembered'
    BY <2>1 DEF Traced, Known, HelperVars, hqVars, InstalledWasPublished, DeviceTyped,
                Remembered, CompletedWasInstalled
  <2> QED  BY <2>1, <2>2, <2>3 DEF Kept, HelperVars
<1>5. CASE StartSetup(h) /\ ~HelperFails(h)
  <2>1. /\ helper' = [helper EXCEPT ![h].at = "authorising",
                                    ![h].runs = file[helper[h].expected.version]]
        /\ helper[h].at = "starting" /\ file[helper[h].expected.version] # NoSetup
        /\ UNCHANGED <<HelperVars, connector, stage, file, status, installed, everInstalled>>
    BY <1>5 DEF StartSetup, Downloaded, Expected
  <2>2. /\ file[helper[h].expected.version] \in Known
        /\ file[helper[h].expected.version] \in Setups
    BY <1>2, <2>1 DEF Traced, DeviceTyped
  <2>3. helper' = [helper EXCEPT ![h] = [@ EXCEPT !.at = "authorising",
                                               !.runs = file[helper[h].expected.version]]]
    BY <2>1
  <2>4. DeviceTyped'
    BY <1>2, <2>1, <2>2, <2>3 DEF DeviceTyped, HelperVars
  <2>5. Traced' /\ Remembered'
    BY <2>1, <2>2, <2>3 DEF Traced, Known, HelperVars, hqVars, InstalledWasPublished,
                DeviceTyped, Remembered, CompletedWasInstalled
  <2> QED  BY <2>1, <2>4, <2>5 DEF Kept, HelperVars
<1>6. CASE SetupStops(h)
  <2>1. /\ helper' = [helper EXCEPT ![h].at = "copying"] /\ helper[h].at = "authorising"
        /\ connector' = "down" /\ stage' = NoStage
        /\ UNCHANGED <<HelperVars, file, status, installed, everInstalled>>
    BY <1>6 DEF SetupStops, Stopped
  <2>2. /\ NoStage \in [at : {"idle"}, manifest : Manifests] /\ NoStage.at = "idle"
        /\ NoStage.manifest.hash = NoSetup
    BY DEF NoStage, Manifests, NoManifest
  <2>3. DeviceTyped'
    BY <2>1, <2>2 DEF DeviceTyped, HelperVars
  <2>4. Traced' /\ Remembered'
    BY <2>1, <2>2 DEF Traced, Known, HelperVars, hqVars, InstalledWasPublished,
                DeviceTyped, Remembered, CompletedWasInstalled
  <2> QED  BY <2>1, <2>3, <2>4 DEF Kept, HelperVars
<1>7. CASE SetupInstalls(h)
  <2>1. /\ helper' = [helper EXCEPT ![h].at = "finishing"] /\ helper[h].at = "copying"
        /\ installed' = helper[h].runs
        /\ everInstalled' = everInstalled \union {helper[h].runs}
        /\ UNCHANGED <<HelperVars, connector, stage, file, status>>
    BY <1>7 DEF SetupInstalls
  <2>2. helper[h].runs \in Setups /\ helper[h].runs \in published
    BY <2>1 DEF Traced, Known, DeviceTyped
  <2>3. DeviceTyped'
    BY <2>1, <2>2 DEF DeviceTyped, HelperVars
  <2>4. Traced'
    BY <2>1, <2>2 DEF Traced, Known, HelperVars, hqVars, InstalledWasPublished, DeviceTyped
  <2>5. Remembered'
    BY <2>1 DEF Remembered, CompletedWasInstalled
  <2> QED  BY <2>1, <2>3, <2>4, <2>5 DEF Kept, HelperVars
<1>8. CASE Complete(h) /\ ~HelperFails(h)
  <2>1. /\ helper' = [helper EXCEPT ![h] = NoHelper] /\ helper[h].at = "finishing"
        /\ status' = [state |-> "completed", target |-> helper[h].expected.version]
        /\ Product[installed] = helper[h].expected.version
        /\ file' = [file EXCEPT ![helper[h].expected.version] = NoSetup]
        /\ UNCHANGED <<HelperVars, connector, stage, installed, everInstalled>>
    BY <1>8 DEF Complete, HelperEnds, Status, Expected, Arrived, Installed
  <2>2. /\ NoHelper \in [at : {"idle"}, expected : Manifests, runs : {NoSetup}]
        /\ NoHelper.at = "idle" /\ NoHelper.runs = NoSetup
    BY DEF NoHelper, Manifests
  <2>3. DeviceTyped'
    BY <1>2, <2>1, <2>2 DEF DeviceTyped, HelperVars
  <2>4. Traced'
    BY <2>1, <2>2 DEF Traced, Known, HelperVars, hqVars, InstalledWasPublished, DeviceTyped
  <2>5. Remembered'
    BY <2>1 DEF Remembered, CompletedWasInstalled
  <2> QED  BY <2>1, <2>3, <2>4, <2>5 DEF Kept, HelperVars
<1> QED
  BY <1>1, <1>3, <1>4, <1>5, <1>6, <1>7, <1>8 DEF HelperStep, SetupFails

-----------------------------------------------------------------------------
LEMMA NextInvariant == IInv /\ [Next]_vars => IInv'
<1> SUFFICES ASSUME IInv, [Next]_vars PROVE IInv'
  OBVIOUS
<1>1. CASE HqActions
  BY <1>1, PublicationStep, HqKeepsDevice DEF IInv
<1>2. CASE Deploy
  <2>1. UNCHANGED hqVars
    BY <1>2 DEF Deploy
  <2> QED  BY <1>2, <2>1, HqUnchanged, HqKeepsDevice DEF IInv
<1>3. CASE ConnectorActions \/ StageActions \/ HelperActions
  BY <1>3, ConnectorStep, StageStep, HelperProgress, HqUnchanged DEF Kept, IInv
<1>4. CASE UNCHANGED vars
  BY <1>4, HqUnchanged DEF vars, deviceVars, hqVars, IInv, DeviceTyped, Traced, Known,
     InstalledWasPublished, Remembered, CompletedWasInstalled
<1> QED
  BY <1>1, <1>2, <1>3, <1>4
     DEF Next, HqActions, HqStep, ConnectorActions, StageActions, HelperActions

LEMMA Invariant == Spec => []IInv
BY InitInvariant, NextInvariant, PTL DEF Spec

\* Every variable of the update system stays within its type, and an agent
\* that is down has no stage, for any Setups, publishers and helpers.
THEOREM UpTypeCorrect == Spec => []UpTypeOK
<1>1. IInv => UpTypeOK
  BY TypeSplit DEF IInv
<1> QED  BY <1>1, Invariant, PTL

\* The published package is the one of the manifest unless a publication of
\* that version is being recorded, was cut, failed in between or overlapped
\* (publishLatest), for any number of publications at once.
THEOREM PublicationsAreWhole == Spec => []PublicationIsWhole
<1>1. IInv => PublicationIsWhole
  BY DEF IInv, Whole
<1> QED  BY <1>1, Invariant, PTL

\* Only contents that a manifest named are installed (downloadHqPackage,
\* stageClientUpdate, Update-Endpointward.ps1), for any number of helpers
\* that overlap.
THEOREM OnlyPublishedIsInstalled == Spec => []InstalledWasPublished
<1>1. IInv => InstalledWasPublished
  BY DEF IInv, Traced
<1> QED  BY <1>1, Invariant, PTL

\* A completion names a version that was installed (Update-Endpointward.ps1).
THEOREM CompletionsAreTrue == Spec => []CompletedWasInstalled
<1>1. IInv => CompletedWasInstalled
  BY DEF IInv, Remembered
<1> QED  BY <1>1, Invariant, PTL
=============================================================================
