---------------------------- MODULE ClientUpdates ----------------------------
(***************************************************************************)
(* Signed client updates: HQ publishes the newest Setup of its staging     *)
(* folder as a package and a manifest, offers it to devices that report an *)
(* older version, and a device downloads, verifies and hands it to helper  *)
(* processes that run Setup, which stops and replaces the device's agent.  *)
(*                                                                         *)
(* A Setup is a model value that stands for the bytes of the file, hence   *)
(* also for its SHA-256; Product and Size give its product version and its *)
(* length.  All Setups carry the publisher's signature, so signatures are  *)
(* not compared.  Versions are numbers; 0 is no file.  One device, always  *)
(* enrolled and elevated, has at most one client.update command that is    *)
(* not ended (ensureCommand); its payload is not read by the device.       *)
(*                                                                         *)
(* The agent's signature check reads field names that its own PowerShell   *)
(* script does not write, so that it refuses every download; only the      *)
(* tests give it another script.  What happens behind the check is         *)
(* modelled for an agent whose check reads the fields (ReadsSignature).    *)
(***************************************************************************)
EXTENDS Naturals

CONSTANTS
  Setups,       \* contents of Setup files
  Product,      \* Product[s]: product version
  Size,         \* Size[s]: length
  NoSetup,      \* no file
  First,        \* the Setup the device starts with
  Publishers,   \* requests of administrators that can run at once
  Helpers,      \* update helper processes that can run at once
  AutoDeploy,   \* the setting updates.autoDeploy
  ReadsSignature,  \* the signature check reads what its script writes: not in this code
  PowerShell7,  \* the device has pwsh.exe, else helpers run in Windows PowerShell 5.1
  MaxStagings,  \* bound: files put into the staging folder
  MaxFaults     \* bound: exits, failing publications, lost requests, failing Setups

ASSUME UpdatesAssumption ==
  /\ First \in Setups /\ NoSetup \notin Setups
  /\ Product \in [Setups -> Nat \ {0}] /\ Size \in [Setups -> Nat]
  /\ AutoDeploy \in BOOLEAN /\ ReadsSignature \in BOOLEAN /\ PowerShell7 \in BOOLEAN
  /\ MaxStagings \in Nat /\ MaxFaults \in Nat

VARIABLES
  staging,    \* staging[v]: the file named for version v in the folder
  package,    \* package[v]: the published package file
  manifest,   \* latest.json
  publisher,  \* publisher[p]: progress of publishLatest
  command,    \* the client.update command at HQ: "none", "queued", "running"
  reported,   \* app version of the last telemetry HQ recorded
  connector,  \* of the agent: "down", "telemetry", "poll", "polled"
  stage,      \* progress of stageClientUpdate
  file,       \* file[v]: the downloaded Setup on the device
  status,     \* the device's client update status file
  helper,     \* helper[h]: progress of Update-Endpointward.ps1
  installed,  \* the Setup whose files are installed
  published,  \* history: contents a manifest has named
  everInstalled, \* history: contents that were installed
  interrupted,   \* history: versions whose publication was cut, failed or overlapped
  abandoned,  \* history: an agent that ran a command could not report it
  stagings, faults

hqVars == <<staging, package, manifest, publisher, published, interrupted>>
deviceVars == <<stage, file, status, helper, installed, everInstalled>>
vars == <<hqVars, deviceVars, command, reported, connector, abandoned, stagings, faults>>

Versions == {Product[s] : s \in Setups}
NoManifest == [version |-> 0, hash |-> NoSetup]
Manifests == [version : Versions, hash : Setups] \union {NoManifest}
Idle == [at |-> "idle", version |-> 0, temp |-> NoSetup, hash |-> NoSetup]
NoStage == [at |-> "idle", manifest |-> NoManifest]
NoHelper == [at |-> "idle", expected |-> NoManifest, runs |-> NoSetup]
Installed == Product[installed]

UpTypeOK ==
  /\ staging \in [Versions -> Setups \union {NoSetup}]
  /\ package \in [Versions -> Setups \union {NoSetup}]
  /\ manifest \in Manifests
  /\ publisher \in [Publishers -> [at : {"idle", "copying", "placing", "recording"},
       version : Versions \union {0}, temp : Setups \union {NoSetup},
       hash : Setups \union {NoSetup}]]
  /\ command \in {"none", "queued", "running"}
  /\ reported \in Versions
  /\ connector \in {"down", "telemetry", "poll", "polled"}
  /\ stage \in [at : {"idle", "asking", "requesting", "receiving", "verifying",
       "launching", "reporting"}, manifest : Manifests]
  /\ file \in [Versions -> Setups \union {NoSetup}]
  /\ status \in [state : {"idle", "downloading", "staged", "installing",
       "completed", "failed"}, target : Versions \union {0}]
  /\ helper \in [Helpers -> [at : {"idle", "sleeping", "starting", "authorising",
       "copying", "finishing"}, expected : Manifests, runs : Setups \union {NoSetup}]]
  /\ {installed} \union published \union everInstalled \subseteq Setups
  /\ interrupted \subseteq Versions
  \* An agent that is down runs no command: a stage is of the agent that is up.
  /\ connector = "down" => stage = NoStage

Init ==
  /\ staging = [v \in Versions |-> NoSetup]
  /\ package = staging
  /\ manifest = NoManifest
  /\ publisher = [p \in Publishers |-> Idle]
  /\ command = "none" /\ reported = Product[First]
  /\ connector = "telemetry" /\ stage = NoStage
  /\ file = [v \in Versions |-> NoSetup]
  /\ status = [state |-> "idle", target |-> 0]
  /\ helper = [h \in Helpers |-> NoHelper]
  /\ installed = First
  /\ published = {} /\ everInstalled = {First}
  /\ interrupted = {} /\ abandoned = FALSE
  /\ stagings = 0 /\ faults = 0

Fault == faults < MaxFaults /\ faults' = faults + 1

-----------------------------------------------------------------------------
(* HQ.  A build puts a Setup into the staging folder under the name of a   *)
(* version: a new file, or another one in place of an old one.             *)
StageSetup(v, s) ==
  /\ stagings < MaxStagings
  /\ staging' = [staging EXCEPT ![v] = s]
  /\ stagings' = stagings + 1
  /\ UNCHANGED <<package, manifest, publisher, published, interrupted, deviceVars,
                 command, reported, connector, abandoned, faults>>

\* What UpdateService.latest answers: NoManifest before the first
\* publication; it throws (not LatestReadable) when the size disagrees.
LatestReadable ==
  \/ manifest = NoManifest
  \/ /\ package[manifest.version] # NoSetup
     /\ Size[package[manifest.version]] = Size[manifest.hash]

\* ensureCommand: a command that has not ended is kept, otherwise one is queued.
Ensure(update, version) ==
  command' = IF update.version > version /\ command = "none" THEN "queued" ELSE command

\* The newest name in the folder; its file is inspected, its product version
\* must be the one of its name.
Newest(v) == staging[v] # NoSetup /\ \A w \in Versions : staging[w] # NoSetup => w <= v

PublishRequest(p) ==
  /\ publisher[p] = Idle
  /\ \E v \in Versions :
       /\ Newest(v)
       /\ Product[staging[v]] = v
       /\ publisher' = [publisher EXCEPT ![p] =
            [at |-> "copying", version |-> v, temp |-> NoSetup, hash |-> NoSetup]]
  /\ UNCHANGED <<staging, package, manifest, published, interrupted, deviceVars,
                 command, reported, connector, abandoned, stagings, faults>>

\* Mutant: the staged file is hashed, which may be another one than was copied.
CopyUnhashed(p) ==
  /\ publisher[p].at = "copying"
  /\ \E content \in Setups :
       publisher' = [publisher EXCEPT ![p].at = "placing", ![p].temp = content,
                                      ![p].hash = staging[publisher[p].version]]
  /\ UNCHANGED <<staging, package, manifest, published, interrupted, deviceVars,
                 command, reported, connector, abandoned, stagings, faults>>

\* The file is copied (it may have been replaced since) and the copy hashed.
Copy(p) ==
  LET content == staging[publisher[p].version] IN
  /\ publisher[p].at = "copying"
  /\ publisher' = [publisher EXCEPT ![p].at = "placing", ![p].temp = content, ![p].hash = content]
  /\ UNCHANGED <<staging, package, manifest, published, interrupted, deviceVars,
                 command, reported, connector, abandoned, stagings, faults>>

Recording(v) == {p \in Publishers : publisher[p].at = "recording" /\ publisher[p].version = v}

\* The copy is renamed to the package of its version, which devices may be
\* downloading and which the present manifest may name.
Place(p) ==
  LET v == publisher[p].version IN
  /\ publisher[p].at = "placing"
  /\ package' = [package EXCEPT ![v] = publisher[p].temp]
  /\ publisher' = [publisher EXCEPT ![p].at = "recording"]
  /\ interrupted' = IF Recording(v) = {} THEN interrupted ELSE interrupted \union {v}
  /\ UNCHANGED <<staging, manifest, published, deviceVars, command, reported, connector,
                 abandoned, stagings, faults>>

\* The manifest is renamed into place and devices with older versions get a command.
Record(p) ==
  LET new == [version |-> publisher[p].version, hash |-> publisher[p].hash] IN
  /\ publisher[p].at = "recording"
  /\ manifest' = new
  /\ published' = published \union {new.hash}
  /\ publisher' = [publisher EXCEPT ![p] = Idle]
  /\ Ensure(new, reported)
  /\ UNCHANGED <<staging, package, interrupted, deviceVars, reported, connector,
                 abandoned, stagings, faults>>

\* An administrator deploys the published update again.
Deploy ==
  /\ manifest # NoManifest /\ LatestReadable
  /\ Ensure(manifest, reported)
  /\ UNCHANGED <<hqVars, deviceVars, reported, connector, abandoned, stagings, faults>>

\* A file operation of a publication fails (disk full, a file in use); its
\* temporary files are removed.  A package that was renamed already stays.
PublicationFails(p) ==
  /\ publisher[p] # Idle /\ Fault
  /\ publisher' = [publisher EXCEPT ![p] = Idle]
  /\ interrupted' = interrupted \union
       (IF publisher[p].at = "recording" THEN {publisher[p].version} ELSE {})
  /\ UNCHANGED <<staging, package, manifest, published, deviceVars, command, reported,
                 connector, abandoned, stagings>>

\* HQ exits and starts again: publications in progress are gone, files stay.
HqExit ==
  /\ Fault
  /\ publisher' = [p \in Publishers |-> Idle]
  /\ interrupted' = interrupted \union {v \in Versions : Recording(v) # {}}
  /\ UNCHANGED <<staging, package, manifest, published, deviceVars, command, reported,
                 connector, abandoned, stagings>>

-----------------------------------------------------------------------------
(* The device's connector: a pulse posts telemetry when it is due and then *)
(* polls for commands; a pulse whose telemetry failed does not poll.       *)
TelemetryDue ==
  /\ connector = "polled"
  /\ connector' = "telemetry"
  /\ UNCHANGED <<hqVars, deviceVars, command, reported, abandoned, stagings, faults>>

\* HQ records the telemetry first; with automatic deployment it then reads
\* the published update, and fails the request when that cannot be read.
Telemetry ==
  /\ connector = "telemetry"
  /\ reported' = Installed
  /\ IF AutoDeploy
       THEN /\ IF LatestReadable THEN Ensure(manifest, Installed) ELSE UNCHANGED command
            /\ connector' = IF LatestReadable THEN "poll" ELSE "telemetry"
       ELSE UNCHANGED command /\ connector' = "poll"
  /\ UNCHANGED <<hqVars, deviceVars, abandoned, stagings, faults>>

\* Commands are delivered and a runner begins; it first posts "running".
Poll ==
  /\ connector \in {"poll", "polled"}
  /\ connector' = "polled"
  /\ IF command = "queued" /\ stage = NoStage
       THEN command' = "running" /\ stage' = [at |-> "asking", manifest |-> NoManifest]
       ELSE UNCHANGED <<command, stage>>
  /\ UNCHANGED <<hqVars, file, status, helper, installed, everInstalled, reported,
                 abandoned, stagings, faults>>

\* The agent's process ends; what it ran is not reported.
Stopped ==
  /\ connector' = "down" /\ stage' = NoStage
  /\ abandoned' = (abandoned \/ stage # NoStage)

AgentExit ==
  /\ connector # "down" /\ Fault
  /\ Stopped
  /\ UNCHANGED <<hqVars, file, status, helper, installed, everInstalled, command, reported,
                 stagings>>

\* The scheduled task starts the agent; Setup keeps it stopped while it copies.
AgentStart ==
  /\ connector = "down" /\ \A h \in Helpers : helper[h].at # "copying"
  /\ connector' = "telemetry"
  /\ UNCHANGED <<hqVars, deviceVars, command, reported, abandoned, stagings, faults>>

-----------------------------------------------------------------------------
(* stageClientUpdate, a step per request, file operation or process start. *)
StageVars == <<hqVars, helper, installed, everInstalled, command, reported, connector,
               abandoned, stagings>>
Status(state, target) == status' = [state |-> state, target |-> target]
Report == stage' = [stage EXCEPT !.at = "reporting"]

\* A failure after the manifest was accepted is written to the status file.
StageFails ==
  /\ Report
  /\ Status("failed", stage.manifest.version)
  /\ UNCHANGED <<file, StageVars>>

\* The manifest is asked for; the running version is the installed one.
Ask ==
  /\ stage.at = "asking"
  /\ IF LatestReadable /\ manifest.version > Installed
       THEN /\ stage' = [at |-> "requesting", manifest |-> manifest]
            /\ Status("downloading", manifest.version)
       ELSE Report /\ UNCHANGED status
  /\ UNCHANGED <<file, StageVars, faults>>

\* HQ answers the download with the headers of the update published now.
RequestPackage ==
  /\ stage.at = "requesting"
  /\ IF LatestReadable /\ manifest = stage.manifest
       THEN stage' = [stage EXCEPT !.at = "receiving"]
            /\ UNCHANGED <<status, file, StageVars, faults>>
       ELSE StageFails /\ UNCHANGED faults

\* A Setup that runs cannot be removed from disk.
InUse(v) == \E h \in Helpers :
  helper[h].at \in {"authorising", "copying"} /\ helper[h].expected.version = v

\* The stream is of the package file as it is when it is opened.
Streamed == package[stage.manifest.version]

\* Mutant: the received bytes are not hashed.
ReceiveUnhashed ==
  LET v == stage.manifest.version IN
  /\ stage.at = "receiving"
  /\ IF ~InUse(v)
       THEN /\ file' = [file EXCEPT ![v] = Streamed]
            /\ stage' = [stage EXCEPT !.at = "verifying"]
            /\ UNCHANGED <<status, StageVars, faults>>
       ELSE StageFails /\ UNCHANGED faults

\* The received bytes must have the hash of the manifest; they then replace
\* an earlier download of the same name (removal and rename back to back).
Receive ==
  LET v == stage.manifest.version IN
  /\ stage.at = "receiving"
  /\ IF Streamed = stage.manifest.hash /\ ~InUse(v)
       THEN /\ file' = [file EXCEPT ![v] = Streamed]
            /\ stage' = [stage EXCEPT !.at = "verifying"]
            /\ UNCHANGED <<status, StageVars, faults>>
       ELSE StageFails /\ UNCHANGED faults

\* Status, publisher and product version of the file are compared; a file
\* that fails the check stays where it is.
Verify ==
  LET v == stage.manifest.version IN
  /\ stage.at = "verifying"
  /\ IF ReadsSignature /\ file[v] # NoSetup /\ Product[file[v]] = v
       THEN /\ stage' = [stage EXCEPT !.at = "launching"]
            /\ Status("staged", v)
            /\ UNCHANGED <<file, StageVars, faults>>
       ELSE StageFails /\ UNCHANGED faults

Launch ==
  /\ stage.at = "launching"
  /\ \E h \in Helpers :
       /\ helper[h].at = "idle"
       /\ helper' = [helper EXCEPT ![h] =
            [at |-> "sleeping", expected |-> stage.manifest, runs |-> NoSetup]]
  /\ Report
  /\ UNCHANGED <<hqVars, file, status, installed, everInstalled, command, reported,
                 connector, abandoned, stagings, faults>>

\* A request of the stage is lost: the download fails or nothing was begun.
RequestLost ==
  /\ stage.at \in {"asking", "requesting", "receiving"} /\ Fault
  /\ IF stage.at = "asking" THEN Report /\ UNCHANGED <<status, file, StageVars>>
                            ELSE StageFails

\* Mutant: the end of a failed command is not posted.
FinishQuietly ==
  /\ stage.at = "reporting"
  /\ stage' = NoStage
  /\ command' = IF status.state = "failed" THEN command ELSE "none"
  /\ UNCHANGED <<hqVars, file, status, helper, installed, everInstalled, reported,
                 connector, abandoned, stagings, faults>>

\* The runner posts the end of the command, completed or failed.
Finish ==
  /\ stage.at = "reporting"
  /\ stage' = NoStage
  /\ command' = "none"
  /\ UNCHANGED <<hqVars, file, status, helper, installed, everInstalled, reported,
                 connector, abandoned, stagings, faults>>

\* Neither the result nor the failure of the command reaches HQ.
ResultLost ==
  /\ stage.at = "reporting" /\ Fault
  /\ stage' = NoStage /\ abandoned' = TRUE
  /\ UNCHANGED <<hqVars, file, status, helper, installed, everInstalled, command, reported,
                 connector, stagings>>

-----------------------------------------------------------------------------
(* Update-Endpointward.ps1 in its own process, and the Setup it runs.      *)
HelperVars == <<hqVars, command, reported, stagings>>
HelperEnds(h) == helper' = [helper EXCEPT ![h] = NoHelper]
Expected(h) == helper[h].expected
Downloaded(h) == file[Expected(h).version]

\* A helper writes its status with an encoding that 5.1 does not know.
HelperFails(h) ==
  /\ HelperEnds(h)
  /\ IF PowerShell7 THEN Status("failed", Expected(h).version) ELSE UNCHANGED status
  /\ UNCHANGED <<HelperVars, connector, stage, abandoned, file, installed, everInstalled>>

\* After its sleep the helper checks hash and product version again, and writes
\* its status.
Check(h) ==
  /\ helper[h].at = "sleeping"
  /\ IF /\ Downloaded(h) = Expected(h).hash
        /\ Product[Downloaded(h)] = Expected(h).version
        /\ PowerShell7
       THEN /\ helper' = [helper EXCEPT ![h].at = "starting"]
            /\ Status("installing", Expected(h).version)
            /\ UNCHANGED <<HelperVars, connector, stage, abandoned, file, installed,
                           everInstalled>>
       ELSE HelperFails(h)
  /\ UNCHANGED faults

\* The file that is on disk now is started; it asks for authorisation.
StartSetup(h) ==
  /\ helper[h].at = "starting"
  /\ IF Downloaded(h) = NoSetup THEN HelperFails(h)
     ELSE /\ helper' = [helper EXCEPT ![h].at = "authorising", ![h].runs = Downloaded(h)]
          /\ UNCHANGED <<HelperVars, connector, stage, abandoned, file, status, installed,
                         everInstalled>>
  /\ UNCHANGED faults

\* Setup ends with an error: not authorised, or while it copies.
SetupFails(h) ==
  /\ helper[h].at \in {"authorising", "copying"} /\ Fault
  /\ HelperFails(h)

\* Setup stops the agent, whatever it is doing.
SetupStops(h) ==
  /\ helper[h].at = "authorising"
  /\ helper' = [helper EXCEPT ![h].at = "copying"]
  /\ Stopped
  /\ UNCHANGED <<HelperVars, file, status, installed, everInstalled, faults>>

SetupInstalls(h) ==
  /\ helper[h].at = "copying"
  /\ installed' = helper[h].runs
  /\ everInstalled' = everInstalled \union {helper[h].runs}
  /\ helper' = [helper EXCEPT ![h].at = "finishing"]
  /\ UNCHANGED <<HelperVars, connector, stage, abandoned, file, status, faults>>

ArrivedUnchecked(h) == TRUE  \* Mutant: Setup's exit code is trusted.

\* The helper compares the installed version with the expected one.
Arrived(h) == Installed = Expected(h).version

Complete(h) ==
  /\ helper[h].at = "finishing"
  /\ IF Arrived(h)
       THEN /\ Status("completed", Expected(h).version)
            /\ file' = [file EXCEPT ![Expected(h).version] = NoSetup]
            /\ HelperEnds(h)
            /\ UNCHANGED <<HelperVars, connector, stage, abandoned, installed, everInstalled>>
       ELSE HelperFails(h)
  /\ UNCHANGED faults

-----------------------------------------------------------------------------
HqStep == \E p \in Publishers : Copy(p) \/ Place(p) \/ Record(p)
AgentStep == Ask \/ RequestPackage \/ Receive \/ Verify \/ Launch \/ Finish
HelperStep(h) == Check(h) \/ StartSetup(h) \/ SetupStops(h) \/ SetupInstalls(h) \/ Complete(h)

Next ==
  \/ \E v \in Versions \ {Product[First]}, s \in Setups : StageSetup(v, s)
  \/ \E p \in Publishers : PublishRequest(p) \/ PublicationFails(p)
  \/ HqStep \/ Deploy \/ HqExit
  \/ TelemetryDue \/ Telemetry \/ Poll \/ AgentExit \/ AgentStart
  \/ AgentStep \/ RequestLost \/ ResultLost
  \/ \E h \in Helpers : HelperStep(h) \/ SetupFails(h)

\* Processes take their next step, the connector's timer and the scheduled
\* task fire; nobody has to stage or publish, and nothing has to fail.
UpdatesFairness ==
  /\ \A p \in Publishers : WF_vars(Copy(p) \/ Place(p) \/ Record(p))
  /\ WF_vars(TelemetryDue) /\ WF_vars(Telemetry) /\ WF_vars(Poll) /\ WF_vars(AgentStart)
  /\ WF_vars(AgentStep)
  /\ \A h \in Helpers : WF_vars(HelperStep(h))

Spec == Init /\ [][Next]_vars
FairSpec == Spec /\ UpdatesFairness

-----------------------------------------------------------------------------
\* The package on disk is the one the manifest describes, unless a
\* publication of that very version is between its two renames, was cut
\* there by an exit of HQ or by a failing write of the manifest, or overlapped
\* another one.  In particular a replaced staging file or the publication of
\* another version never separates the two (publishLatest).
PublicationIsWhole ==
  \/ manifest = NoManifest
  \/ package[manifest.version] = manifest.hash
  \/ manifest.version \in interrupted
  \/ Recording(manifest.version) # {}

\* Nothing is installed that no manifest ever named: torn publications,
\* packages replaced under a download and helpers that overlap included.
InstalledWasPublished == installed \in published \union {First}

\* The device never reports the completion of an update to a version that
\* was never installed, even when the Setup was replaced after its checks.
CompletedWasInstalled ==
  status.state = "completed" => \E s \in everInstalled : Product[s] = status.target

\* What devices are offered cannot be installed: the package is not the one
\* of the manifest, or its product version is not the manifest's.
Unusable ==
  /\ manifest # NoManifest
  /\ \/ package[manifest.version] # manifest.hash
     \/ Product[manifest.hash] # manifest.version

\* The device reaches the published version again and again, but for two dead
\* ends: the publication stays unusable, or an agent could not report a
\* command, which HQ then keeps as running and never queues again.
Converges ==
  \/ []<>(Installed >= manifest.version)
  \/ <>[]Unusable
  \/ <>[](abandoned /\ command = "running")

\* With automatic deployment, PowerShell 7 and a signature check that can
\* succeed, which the code's own cannot, a device converges, whatever failed
\* before and however helpers overlapped: what is queued, retried and reported
\* around that check leaves no other dead end (queueClientUpdate, telemetry,
\* stageClientUpdate, Update-Endpointward.ps1).
DeviceConverges == AutoDeploy /\ PowerShell7 /\ ReadsSignature => Converges

\* What server/README.md promises: releases are queued automatically and
\* installed without visiting the endpoint.
ReleasesAreInstalled == AutoDeploy => Converges
=============================================================================
