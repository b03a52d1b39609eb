# TLA+ specifications of Endpointward

Endpointward is an endpoint protection client (`src/src`, Node.js) with an
on-premises fleet server, Endpointward HQ (`src/server`). These modules model the
parts of it where order, concurrency, exits and lost messages decide whether it
is right: remote commands, enrolment and management, the connector lease,
maintenance passwords, the quarantine, the audit log and their writer lock,
realtime protection, scan jobs, configuration and DNS filtering, threat
intelligence with HQ's gateway, and signed client updates.

`PROJECT.json` ties every definition to the lines it translates, lists every
component (also those that are not modelled), the hazards with their lines, the
runs and the theorems.

## The system

| Component | State | Operations | Interacts with |
|---|---|---|---|
| HQ store (`server/src/store.js`) | SQLite: devices, commands, enrolment requests, maintenance requests and passwords | synchronous methods, each one transaction | called by the HQ server between its awaits |
| HQ server (`server/src/server.js`) | sessions, rate limiters, settings in memory | device API (polls, results, maintenance), administrator API | endpoints over pinned HTTPS, browsers |
| HQ connector (`src/lib/hq-client.js`) | credential, timers, active commands, back-off | heartbeat, command poll, background runners, address recovery | HQ; engine callbacks |
| Engine (`src/lib/engine.js`) | connector, enrolment poller, lease release, timers | startManagement, stopManagement, requestHqEnrollment, disconnectHq, command execution | files shared with the other processes of the endpoint |
| Connector lease (`hq-client.js`) | one lock file | acquire, release | agent, dashboard, desktop shell |
| Maintenance authorisation | requests, passwords with use budgets | request, review, authorise | administrator, endpoints, HQ store |
| Quarantine (`src/lib/quarantine.js`) | containers, index, last-known-good copy, lock | quarantine, restore, delete, list, recover | every process of the endpoint |
| Audit log (`src/lib/audit-log.js`) | chained records, evidence files, lock | append, verify, recover | everything that records an event |
| Realtime protection (`protection.js`) | pending files, two queues, active scans, fingerprints | watch events, pump, inspect, stop | scanner, quarantine; the engine starts and stops it |
| Scan jobs (`engine.js`, `scanner.js`, `clamav-engine.js`) | active job, shared listing, child process | admit, cancel, scan, verify, contain, summarise | dashboard, HQ commands, quarantine, audit log |
| Threat updates (`threat-updater.js`, `threat-feeds.js`, `threat-index.js`) | SQLite index, per-source rows, artifacts, one worker per process | update, fetch, parse, import | providers, HQ's gateway, the other processes |
| Threat gateway (`server/src/threat-gateway.js`) | stored key, cache, requests in flight | fetch, change key | endpoints, abuse.ch |
| Client updates (`update-service.js`, `client-update.js`, helper, Setup) | staging folder, package, manifest; download, status file, helpers | stage, publish, offer, download, verify, install | commands, telemetry |
| Configuration, DNS filtering, history, keys | JSON files, adapters, DNS backup, master key | read, merge, replace, apply, restore | every process of the endpoint |
| Android client | enrolment state, background service | poll, execute, acknowledge | HQ |

What is hard about it:

* **Interleaving.** Every async function of the engine and of the server can be
  suspended at an await while others run; an endpoint has up to three processes
  that share files without a common coordinator.
* **Stale reads.** HQ authenticates a call before it awaits its body; pollers
  outlive the decision to stop them; lock files are judged before they are removed.
* **Loss.** Calls time out and still arrive, answers are lost, processes exit at
  any point and are restarted by a scheduler.
* **Budgets and windows.** Uses of a password, twenty-second reviews, attempts.

## What makes each part correct

* *Commands*: what HQ records is what happened; a command that ran is not handed
  out again; offboarding ends the enrolment at both ends; devices are never mixed.
* *Management*: only a credential approved with the endpoint's own code is used;
  one telemetry stream; an approved request that is polled leads to a credential.
* *Lease and writer lock*: one holder; whatever an exit leaves behind is taken over.
* *Maintenance*: a password is spent within its budget, its audience and its time;
  a review that fails leaves nothing usable behind.
* *Quarantine*: a quarantined file is never lost, and listed as long as it is there;
  every operation ends.
* *Audit log*: no false alarm, no lost record, evidence that the log names.
* *Realtime protection*: an object keeps its limits whenever it is started, stopped or
  left over; the last content that was reported gets scanned or is still to be.
* *Scan jobs*: one at a time, each ends, and its report says what happened.
* *Configuration*: a save changes what it names; every change of the dashboard is
  authorised; the original DNS settings stay restorable.
* *Threat intelligence*: a scan never reads half a feed; only usable indicators get in;
  the gateway answers everyone, with data of the current key; every update ends.
* *Client updates*: what is offered is whole, only that is installed, a reported
  completion is true, and a device reaches the published version.

## Modules

### FleetCommands

Remote commands between HQ and endpoints: `createCommand`, `ensureCommand`,
`pendingCommands`, `recordCommandResult`, revocation, re-enrolment and pruning of
the store; authentication, poll and result routes of the server; `HqConnector`'s
polls and background runners; the 250 ms offboarding timer. `runner[k][c]` is the
phase of `beginCommand(c)`: posting *running*, executing, posting the outcome, or
posting a failure, with a "!" once HQ authenticated the call and awaits its body.
`late[d]` holds requests their client gave up on. Commands are numbered in the
order of `created_at`. Telemetry rows are left out.

### Management

One endpoint, its processes and one or more HQs: files (pending request,
credential, `management.enabled`, lease), and per process the steps of
`startManagement`, `requestHqEnrollment`, the enrolment poller, the connectors and
`disconnectHq`, split at their awaits. Abstractions: taking the lease is one step
(exact when acquisitions do not overlap; ConnectorLease has the detail); a poll
that timed out does not arrive later; connectors of one process with one
credential count once; a process runs one submission, one poll and one
`startManagement` at a time, and at most two starts wait; the lease of a process
that exited counts as free; the last credential of the bound is not lost.

### ConnectorLease

`acquireHqConnectorLease` and its release function, one file operation per step:
exclusive creation, owner record, reading and removing another's file, two
attempts, release after reading one's own record. Process numbers may be handed
out again (`Recycled`), to processes of the endpoint or to other programs.
A process runs one acquisition at a time; errors of file operations other than
EEXIST are left out.

### Maintenance and MaintenanceBudget

Passwords, requests, reviews and authorisation calls with the awaits between
limiter, body and consumption, the compensation of a review that fails, expiry and
revocation. Time is the set of deadlines that passed. The limiter of failed calls
is left out. MaintenanceBudget is the promise: a password is issued once, for an
audience and a number of uses, and each use is spent before it is closed.
`RefinesBudget` is the refinement, with `Left` (a revoked or expired row authorises
nothing) and `Audience` as the mapping.

### WriterLock

`withIndexLock` and `withAuditLock` are one algorithm: exclusive creation, nonce,
retries, removal of a file older than a minute, release. A client is one call in
any process. `MaxAttempts` stands for the 200 attempts. Timing is assumed where the
code relies on it: a client that runs takes less than the minute, so only files
whose creator is gone get old (`Age`).

### Quarantine

Every exported operation of `quarantine.js`, interrupted between any two file
operations: `seal` (container renamed into place), index update (read, copy, index;
or recovery after releasing the lock, then a second update), removal of the source
or discard; for restores the unlocked read, the look at the destination, the
exclusive temporary file, its last byte and the rename; for deletions the erasure
and the update. `Damage` deletes or corrupts index or copy at any time; `Abandon`
ends an operation at any step; `WriteFails` is an error of `writeIndex`, which a
recovery survives. The lock excludes here; WriterLock says when it does.
The contents of containers, a destination other than the original path and a source
that is replaced between its encryption and its removal are left out.

### AuditLog

Extends WriterLock: appends, verification and recovery run inside the real lock,
with its exits and its races. A record is its number, standing for its
authentication code; `Checks` is `inspectAudit`. A write that fails leaves nothing
or a malformed line; a torn line that lacks its line end alone is left out.

### RealtimeProtection

`RealtimeProtection` and the engine's `stopProtection` and `startProtection`: write
events, the debounce timer and the capacity of pending files, the two queues, `pump`,
and inspections split at their awaits: the stability wait, the fingerprint taken
before a deep scan and remembered after it, a rescan asked for meanwhile, the handling
of a detection. `StopAndStart` is the call that stops the current object, `Create` its test
whether an object runs; `Attach` and `Started` are the steps of `start`, at whose end
only the object runs (`protection.js:113`). So a call that comes while an object starts
makes another one, and an object that is stopped while it starts runs in the end.
One object is observed in detail, of the others there is their life: they meet it in the
files only. Exclusions, symbolic links and the program's own directory are left out;
directories are watched as their files.

### ScanJobs, Configuration and Dashboard

ScanJobs is `runScan` with what it calls: targets one after the other, workers sharing
an index over one listing, `scanFile`'s test of the signal, the ClamAV child with its
timer, error and close events, `mergeClamAvDetections`, quarantine, history and audit.

Configuration is `saveConfig` (read, merge, replace, with awaits between) for the
requests of two processes, each with the copy `engine.config` it started from or last
saved; `PATCH /api/config`, which always asks for the authorisation, since the objects
it compares (`server.js:409-411`) never have the same keys; and the DNS steps: list the
adapters, keep or take the backup, apply through the helper (which verifies and puts
the backup back, or is killed in between), restore, remove the backup. `disturbed`
records the situations in which the code makes no promise.

Dashboard adds the two: they share one event loop but no variable. A behaviour uses one
of the parts (`part`), so that the states are added and not multiplied.

### FeedEntries, FeedArchive, ThreatGateway, ThreatUpdates and ThreatIntel

FeedEntries says, per provider, which items of an answer become entries of which table.
FeedArchive is the two streaming TAR readers, with a stream cut into chunks anywhere and
ended anywhere; a unit stands for a byte. A character outside ASCII is two of them, which
`Decode` turns into replacement characters when only one is there: `parseClamCvd` decodes
the part of a file in each chunk, `extractTarTextFiles` the whole file. The two also
differ in what they check of a header (`Readable`). A text is split into the lines it
completes and the one it leaves open, as `consumeText` keeps it in `textRemainder`; of two
members of one name the later is the file, as in `found.set`. ThreatGateway is
`fetchSource` of HQ with its cache, its shared requests and `clearCache`. ThreatUpdates
extends FeedEntries and ThreatGateway: `ThreatUpdateManager` and its worker in two
processes of one device, every source with its download, interval check and transaction,
where `txn` is the write lock of SQLite with what its owner changed so far. An update goes
through all enabled sources. ThreatIntel adds the archive readers, as Dashboard does.
Abstractions: an item has a kind, a value and whether it is well formed; publication 0 is
an answer that is not a feed, which some parsers may take for an empty one
(`AcceptsAnything`); a MISP `domain|ip` is two items; a quarter of an hour, an update
interval and 180 days are steps of their own.

### ClientUpdates

`publishLatest` (scan of the staging folder, inspection, copy, hash, rename of package,
then of manifest), telemetry with `autoDeploy`, the command, `stageClientUpdate` with
`downloadHqPackage`, `Update-Endpointward.ps1` with its checks and waits, and the
steps of Setup that stop the agent and replace its files. A Setup is a model value that
stands for its bytes and their hash. Helpers overlap as the code lets them. All Setups
are signed by the publisher; the device stays enrolled and elevated. Two constants say
what the environment of the agent's checks is: `ReadsSignature` is FALSE for the code as
it is (see the finding below) and TRUE for the script that only the tests give it;
`PowerShell7` whether helpers run in `pwsh.exe`.

## Runs

Every run has `CHECK_DEADLOCK FALSE`: commands, requests, passwords, exits, writes,
damages and records are bounded, and administrators, users and processes may stop,
so behaviours may end.

| Run | Instance | Shows |
|---|---|---|
| `fleet_commands` | 1 endpoint, 2 connector objects (symmetric), 1 scan command, 2 credentials, 1 late request | `ExecutedNotPending`, `CompletedWasExecuted`, `RevokedDeviceOnlyFinishesCalls` |
| `fleet_live` | 1 endpoint, 2 offboarding commands, fair | `OffboardRevokesAfterAcceptance`, `OnePendingPerEnsuredType`, `QueuedIsAnswered` |
| `management` | agent and dashboard, 2 requests, 1 credential | `CredentialIsVerified`, types |
| `management_live` | dashboard, 1 request, 2 credentials, 1 exit, fair | `ApprovedIsEnrolled` |
| `endpoint` | lease: 2 processes, 3 process numbers, recycled, 2 exits; realtime: 1 object, a download and a document, 2 writes; fair | `ExclusiveUnlessMet`, `DelegatedTakesOver`; `PendingIsScanned` |
| `maintenance` | 2 endpoints, 1 password of up to 2 uses, 2 requests, 2 calls | `RefinesBudget`, `OneTimePasswordHasApproval`, `ReviewedOnceInTime` |
| `quarantine` | 1 path, 2 containers, 2 operations at once, 1 damage, 1 exit or failed write | `AcknowledgedSurvives`, `NothingLost`, `NoWaitForOwnLock` |
| `protection` | realtime: 2 objects, a download and a document, 2 writes, 1 pending file, 2 inspections; audit log: 3 calls, 2 attempts, 3 records, 1 exit, 2 failed writes | `WithinLimits`, `NothingForgotten`; of the lock: `ExclusiveUnlessRaced`; of the log: `LogIsTraceable`, `AcknowledgedKept` |
| `dashboard` | 2 scan requests, 2 targets with 3 files, 2 workers; 2 processes, 3 operations, 2 at once, 1 restart; fair scans | `ActiveIsTheRunningJob`, `ReportIsTrue`, `ScanEnds`; `OriginalDnsRestorable`, `SavesAreNarrow`, types |
| `threat_intel` | 2 processes, 7 configurations with every provider, up to 2 publications, 2 updates, 1 death, 1 key change; 5 archives of up to 4 members in any chunks; fair workers | `ReadersSeeWholeFeeds`, `OnlyUsableIndicators`, `CacheIsOfCurrentKey`, `WaitersAreAnswered`, `UpdateEnds`; `ParsedIsTheArchive`, types |
| `client_updates` | 3 Setups of 2 versions, 1 publisher, 2 helpers, 2 stagings, 1 fault, a check that can succeed, fair | `PublicationIsWhole`, `InstalledWasPublished`, `CompletedWasInstalled`, `DeviceConverges` |
| `updates_as_shipped` | 2 Setups, 1 publisher, 1 helper, no fault, the check of the code, fair | violation of `ReleasesAreInstalled` |

`endpoint`, `protection`, `dashboard` and `threat_intel` check two parts that share no
variable; a behaviour uses one of them (`part`), so that states are added.

Types are proved for every module, and checked in the runs that list them.

**Why the bounds are enough.** Each instance contains the actors of the hazard it is for
and the events that meet in it: a revoked endpoint that enrols again while runners of its
old connector are still calling, and a request its client gave up on arrives later; two
commands of one type, one accepted or lost while the other is queued; two processes that
submit, poll and disconnect against each other, the second request replacing the first
while it is polled; a process that finds a dead owner, whose number may be in use again,
and one that comes in between; two calls for the last use of a password while another
request is reviewed; two quarantines of one path, a restore and a deletion at once; three
clients of the writer lock, as one dead owner and two waiters that judge its file are
needed to meet; a call that restarts protection while an object is still starting; a file
written again while its scan runs, with another file taking the one place; a second scan
asked for while the first is cancelled in its second target; a save of another process
while one waits for HQ, or between the load and the rename of another; two workers on one
index, one of which dies in its transaction; a stream cut in a header, in a line, in a
character, in the padding; a manifest that cannot be written; two builds of one version,
the second published while a device downloads or installs the first. Several endpoints,
more processes at the lease, several passwords and several publishers at once are covered
by the theorems, which hold for any number. `ApprovedIsEnrolled` ends with the replacement
of a request, so that one request is the case to check; with a second one the bound on
credentials would cut off answers. Two HQs at once are not checked, nor is re-enrolment
after a revocation within the bounds of `fleet_live`; the theorems cover it. Every
property has a mutant of the code, listed in `PROJECT.json`, that the same instance
catches. Symmetry is used for safety only.

**Fairness.** Event loops run, so steps of a process that only it can take are
weakly fair. A call that is retried for ever gets through in the end: strong
fairness of its success. The task scheduler restarts the agent of an endpoint that
is still enrolled, and after Setup stopped it. Timers fire: the debounce of a file, the
limits of ClamAV, of a download and of a helper. A terminated child closes. No exit,
loss, damage, write, administrator or user action is fair.

## Where the code promises less than one might expect

One run is expected to fail. `updates_as_shipped` checks what `server/README.md:51-53`
says: releases are installed without visiting the endpoint. No device installs one.
`verifyAuthenticode` prints `Status`, `Thumbprint`, `Subject` and `Version`
(`client-update.js:76`), `stageClientUpdate` reads the lowercase names (136-140), and the
command gives it no other check (`engine.js:958`), so every download fails; the test
(`aegis.test.js:1770`) brings a check of its own. Where Windows PowerShell 5.1 runs the
helper, it fails as well: it has no `utf8NoBOM` (`Update-Endpointward.ps1:36`).
`client_updates` therefore takes a check that can succeed, and what `DeviceConverges`
says is about everything around it; the safety properties of that run hold more cheaply
in the code as it is, where no helper is ever started.

The other properties name the conditions under which they hold, and these are what a
maintainer should know:

* *Offboarding*: the 250 ms timer clears the credentials whether or not HQ recorded the
  completion; if the acknowledgement is lost the device stays in HQ's list.
* *Management*: a poll that outlives its stopped poller starts a connector without the
  lease, next to that of the lease holder. `ApprovedIsEnrolled` is about a request that is
  polled, which it is not while a connector or poller of an older one runs, or while a
  process keeps the lease although its release function was overwritten.
* *Locks*: `ExclusiveUnlessMet` and `ExclusiveUnlessRaced` except overlapping acquisitions
  and two waiters that find one old file, as both locks remove whatever file is in place
  by then; `DelegatedTakesOver` excepts a recycled process number.
* *Quarantine*: a restore replaces a file written while it decrypts, and three overlapping
  restores can move an unfinished file into place: the second finds the first one's
  temporary file and, failing, removes it, the third makes it anew under the first one's
  rename. No property is stated about the destination for that reason, and the run has two
  operations at a time.
* *Realtime protection* (`WithinLimits`): the limits are those of one object. Two calls of
  `startProtection` that overlap, or one while an object starts, leave two live objects
  (`engine.js:175` asks for a flag that `protection.js:113` sets at the end), each with
  the full concurrency and each scanning the same download, one of them out of the
  engine's reach; an object that is stopped while it starts runs afterwards.
* *Scans* (`ReportIsTrue`): if the ClamAV executable disappears, its ENOENT is taken for a
  missing target and what was found there is not reported. Without ClamAV a job cancelled
  in its last files ends as completed.
* *Configuration* (`SavesAreNarrow`, `OriginalDnsRestorable`): a settings change fills in
  from `engine.config` the critical settings it does not name, and reverts them where the
  file is ahead of that copy, also by a save that came while it waited for HQ; saves merge
  without a lock. The authorisation it has is for what the request named. An exit between
  applying a DNS profile and recording it lets the next profile overwrite the backup.
* *Threat intelligence*: a manager whose start failed stays `running`. A Spamhaus or Linux
  Malware Detect answer without a usable line empties that feed; MISP deletes nothing.
  HQ's answer with an old key enters the cache that the change of the key had cleared
  (`threat-gateway.js:98`). A character outside ASCII that a chunk of a ClamAV archive
  cuts becomes replacement characters; hashes and sizes are ASCII.
* *Client updates* (`PublicationIsWhole`): an exit of HQ between the two renames of a
  republication, or a manifest that cannot be written after the package was renamed
  (`update-service.js:239-245`; HQ goes on), leaves a package that does not match its
  manifest. If its size differs, every telemetry call fails under `autoDeploy`, so that
  devices no longer poll; otherwise every download fails, until the next publication
  (`Unusable` in `DeviceConverges`). A package that is replaced after the helper's checks
  is run by Setup without them, and the helper then reports a failure. When Setup stops
  the agent, or the result is lost, the command stays `running` at HQ and no further one
  is queued (`abandoned`); that needs no fault, only a newer version published at the
  wrong moment.

## Proofs

The theorems hold for every value of the constants that meets the named assumptions:
bounds are naturals and marker values such as `"none"` are not members of the sets they
mark. Beyond that, files, workers and processes are finite (`ScanAssumption`,
`QuarantineAssumption`), publications of feeds are numbered, HQ answers one of them or
damage, and ThreatFox lists no address ranges (`FeedsAssumption`; an empty selection
means all sources, so there is one), HQ fetches the feeds that need a key
(`GatewayAssumption`), an archive is a sequence of members (`ArchivesAssumption`), a block
has a unit (`BlockAssumption`), a line end is no part of another character
(`DecodingAssumption`), and a place for a pending file and an inspection exist
(`RealtimeAssumption`). Each proof module extends the modules it is about:
`ManagementProofs` also ConnectorLease, `AuditLogProofs` also WriterLock,
`ProtectionProofs` Quarantine and RealtimeProtection.

| Theorem | Property | Argument |
|---|---|---|
| `FleetCommandsProofs!NeverRedelivered` | `ExecutedNotPending` | strengthened by what a runner that executes, or a result that travels, implies for the row: it left the pending states, to which only creation leads |
| `…!CompletionIsReal` | `CompletedWasExecuted` | the same invariant: a call that reports a completion, on its way or late, is about a command that ran |
| `…!OffboardAccepted` | `OffboardRevokesAfterAcceptance` | from the completion invariant at the step that revokes |
| `…!NeverTwoPending` | `OnePendingPerEnsuredType` | the store looks for an open row in the transaction that inserts, and nothing turns a settled or running row back into a waiting one |
| `…!RevocationIsFinal` | `RevokedDeviceOnlyFinishesCalls` | action property: only calls that HQ had authenticated before, and retention, change the rows of a revoked endpoint |
| `ManagementProofs!OnlyVerified` | `CredentialIsVerified` | `MInv`: every place a credential travels through (an answer with the right proof, the file, a starting engine, connectors) holds verified ones only |
| `…!LeaseIsExclusive` | `ExclusiveUnlessMet` | `Alone`: while no two acquisitions overlap, a process that created a file or found a dead owner does so with no holder |
| `MaintenanceProofs!ImplementsBudget` | `RefinesBudget` | every action maps to `Issue`, `Spend`, `Close` or a stutter; needs that a usable row has a use left and that an admitted call's row is read again when it is consumed |
| `…!ApprovalBacksPassword` | `OneTimePasswordHasApproval` | inductive with `RowsConsistent` |
| `…!NeverReviewedLate` | `ReviewedOnceInTime` | action property from the invariant |
| `AuditLogProofs!Exclusive`, `…!AppendsExclude` | `ExclusiveUnlessRaced` | `Alone`: until two waiters find one file old, an owner's file is in place, only a dead creator's file gets old, and who is about to remove a file removes that one; carried over to the log by `LogRefinesLock`, as every step of the log is one of the lock or a stutter |
| `…!Kept` | `AcknowledgedKept` | appends keep the lines of the log, rotations move them to evidence; holds whatever the lock does |
| `…!Traceable` | `LogIsTraceable` | `TraceInv`: the chain of the log and of its evidence is whole, only a last line is torn, and who is inside the lock remembers the log as it is, as long as the lock excluded |
| `ProtectionProofs!QuarantineSurvives` | `AcknowledgedSurvives` | `IInv`: who writes the index holds the lock, a container belongs to one operation, a listed entry is in the index or its copy, and the copy is written first |
| `…!NoFileLost` | `NothingLost` | the same invariant: a file that left its place has a sealed container, kept until a deletion asks for it |
| `…!NoSelfWait` | `NoWaitForOwnLock` | the same invariant, from `Locked` |
| `…!LimitsHold` | `WithinLimits` | `RealtimeInv` of an object that was not stopped: `active` counts its inspections, a pump starts as many as fit, in slots ranked one by one, and deep scans have their files to themselves; `EngineInv`: while no calls overlap, a call finds no live object, and the current object is the only one that lives |
| `…!NoFileForgotten` | `NothingForgotten` | the same invariant: a remembered fingerprint that matches was scanned, contents only get newer, and the end of an inspection hands its file on unless it settled it |
| `DashboardProofs!OneScanRuns`, `…!ReportsAreTrue` | `ActiveIsTheRunningJob`, `ReportIsTrue` | `ScanInv`: every listed file was taken once, by one worker, and counts when that worker is done with it; what was flagged is in the report or still to be contained |
| `…!DnsRestorable`, `…!NarrowSaves` | `OriginalDnsRestorable`, `SavesAreNarrow` | `CfgInv`: `SettingsInv`: a request's copy, or what it loaded, differs from the file only if it is marked as stale or raced, and who is past the authorisation has it; `DnsInv`: while a profile is in force the backup holds the original |
| `ThreatIntelProofs!CacheOfCurrentKey` | `CacheIsOfCurrentKey` | `RequestIsOfCurrentKey`: a request in flight that no change of the key overtook carries the current key; every step of an update is a step of the gateway or none |
| `…!NobodyIsLeftWaiting` | `WaitersAreAnswered` | inductive with the types of the gateway |
| `…!WholeFeedsOnly`, `…!IndicatorsAreUsable` | `ReadersSeeWholeFeeds`, `OnlyUsableIndicators` | `UpdateInv`: what a worker holds is a publication of its source, the write lock is that of the worker in its transaction, and what it will commit holds the whole publication and nothing unusable |
| `…!ArchiveIsParsed` | `ParsedIsTheArchive` | `ReaderInv`: buffer and rest are the stream from a position to the cut, that position lies in the header, the content or the padding of one member, and what was given is what the members before it and the part of it that was read give (`SplitPlain`, `SplitInParts`: cutting a text anywhere does not change its lines, decoding changes no line end) |
| `…!IntelTypes` | `IntelTypeOK` | `UpdateInv`, `GatewayInv` and `ReaderInv` together |
| `ClientUpdatesProofs!PublicationsAreWhole` | `PublicationIsWhole` | `Whole`: a publisher that is past its copy holds a file of the recorded hash, or another one of that version marked it as overlapped; what an exit or a failing write of the manifest separates is marked as well |
| `…!OnlyPublishedIsInstalled` | `InstalledWasPublished` | `Traced`: from manifest to stage, download, helper and installation, every content was once named by a manifest |
| `…!CompletionsAreTrue` | `CompletedWasInstalled` | `Remembered`: the installed Setup is in the history from which a completion is judged |

Types are theorems as well: `TypeCorrect` of FleetCommands, WriterLock and Maintenance,
`UpTypeCorrect`, `ManagementTypes`, `LeaseTypes`, `DashboardTypes`, `IntelTypes`; those of
Quarantine and RealtimeProtection are conjuncts of the inductive invariants. Types alone
are never enough for the safety theorems: the strengthenings above state what a call in
flight, or a process in the middle of the protocol, may assume. TLC checked every
strengthening on small instances before it was proved.

The archive readers need induction over data: the stream and the lines are defined by
recursive functions. A theorem with an operator as a parameter is not available to the
provers, so `ThreatIntelProofs` states induction about members of a set: a set of numbers
that holds 0 and with each number the next holds all (`Counting`, from a least
counterexample), and the same for texts (`OverTexts`). From these follow what `FlattenSeq`
and `SplitLines` compute, one element at a time (`Joined`, `SplitSteps`), and where each
member lies in the stream (`Layout`).

Every safety property a run checks is a theorem. Only model-checked are the liveness
properties `QueuedIsAnswered` (a queued command leaves the queue: it is accepted, or
fails without having run), `ApprovedIsEnrolled`, `DelegatedTakesOver`,
`PendingIsScanned`, `ScanEnds`, `UpdateEnds` and `DeviceConverges`, as fairness and ENABLED
are out of the prover's reach. No module here declares a RECURSIVE operator.

## Not modelled

Matching of file contents, telemetry collection, browser pages, packaging and calls of
single operating-system tools are data or pure I/O, without a protocol of their own. The
encryption of files, the atomic replacement of a JSON file, SQLite transactions and
the signature of a Setup are taken as what they promise. Further:

* HQ's rate limiters and enrolment codes: attempts are counted in the memory of one
  process around an await, and nothing states how many concurrent ones may pass; codes are
  consumed in one transaction.
* The master key's creation by two processes at once: the window is the first start of a
  fresh installation.
* Back-off, notifications and address recovery of the connector: they change when a call
  is made, which the commands model leaves open anyway.
* The Android client: one thread that polls, executes and posts in turn, a restricted
  form of the client of FleetCommands; Wake-on-LAN: one datagram.

## Plan

Done: `FleetCommands`, `Management`, `ConnectorLease`, `Maintenance` with its abstract
specification, `WriterLock`, `Quarantine`, `AuditLog`, `RealtimeProtection`, `Dashboard`
with `ScanJobs` and `Configuration`, `ThreatIntel` with its parts, `ClientUpdates`; and
the proofs above. Left, in order of value:

1. An abstract index of threat feeds (whole publications replaced at once) that
   ThreatUpdates implements.
2. `ConnectorHealth`: back-off, notices and address recovery, composed with
   FleetCommands; `relocateHq` of the engine.
3. Enrolment codes and attempts as budgets, as for maintenance passwords.
