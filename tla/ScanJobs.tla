------------------------------- MODULE ScanJobs -------------------------------
(***************************************************************************)
(* On-demand scans of one engine: admission (dashboard, HQ command,        *)
(* removable drive), the targets of a job one after the other, the workers *)
(* that share the list of a target, the ClamAV child process that verifies *)
(* a target afterwards, automatic quarantine, cancellation, and the        *)
(* summary and audit entry at the end.                                     *)
(*                                                                         *)
(* A file that is too large is "clean" here: it has a result and no        *)
(* finding.  quarantineFile is one step (detailed in Quarantine); so is    *)
(* the audit entry (AuditLog).                                             *)
(***************************************************************************)
EXTENDS Naturals, Sequences, SequencesExt, FiniteSets

CONSTANTS
  Requests,        \* requests for a scan
  Files, NoFile,   \* files of the endpoint
  Trees,           \* the files below each target
  Workers,         \* config.scanner.concurrency workers
  AutoQuarantine   \* the verdicts that are quarantined: protection.autoQuarantine*

ASSUME ScanAssumption ==
  /\ NoFile \notin Files /\ "none" \notin Requests
  /\ Trees \in Seq(SUBSET Files) /\ IsFiniteSet(Files) /\ IsFiniteSet(Workers)
  /\ AutoQuarantine \subseteq {"suspicious", "confirmed"}

Detected == {"suspicious", "confirmed"}
Verdicts == {"none", "clean", "error"} \union Detected
Finished == {"completed", "cancelled", "failed", "refused"}
Working == {"discovering", "opening", "listing", "scanning", "spawning", "verifying",
            "containing", "saving", "auditing", "cancelling", "failing"}

VARIABLES
  active,   \* engine.activeScan
  job,      \* job[r]: the scan job of request r
  history   \* jobs in the scan history

scanVars == <<active, job, history>>

Job == [phase    : {"idle"} \union Working \union Finished,
        targets  : 0..Len(Trees),            \* how many targets were found
        target   : 0..Len(Trees),            \* the one being scanned
        files    : Seq(Files),               \* its listing
        cursor   : Nat,                      \* the shared index into it
        worker   : [Workers -> Files \union {NoFile}],
        verdict  : [Files -> Verdicts],      \* results and per-file errors of the target
        virtual  : SUBSET Files,             \* detections that are no regular file
        entries  : Nat,                      \* length of results and errors
        expected : Nat,                      \* files listed and errors of the listing
        aborted  : BOOLEAN,                  \* signal.aborted
        listening: BOOLEAN,                  \* ClamAV's abort listener is attached
        killed   : BOOLEAN,                  \* the child was terminated
        todo     : SUBSET Files,             \* results still to be quarantined
        report   : SUBSET Files,             \* detections in the reports so far
        flagged  : SUBSET Files,             \* history: detections of either engine
        stopped  : BOOLEAN,                  \* history: cancelled before the last verification ended
        lost     : BOOLEAN,                  \* history: the child could not be started
        gap      : BOOLEAN]                  \* history: a target without ClamAV verdict

Blank(phase) ==
  [phase |-> phase, targets |-> 0, target |-> 0, files |-> <<>>, cursor |-> 0,
   worker |-> [w \in Workers |-> NoFile], verdict |-> [f \in Files |-> "none"],
   virtual |-> {}, entries |-> 0, expected |-> 0, aborted |-> FALSE, listening |-> FALSE,
   killed |-> FALSE, todo |-> {}, report |-> {}, flagged |-> {}, stopped |-> FALSE,
   lost |-> FALSE, gap |-> FALSE]

SjInit ==
  /\ active = "none" /\ history = {}
  /\ job = [r \in Requests |-> Blank("idle")]

-----------------------------------------------------------------------------
(* runScan: admission, cancellation, the end of a job.                     *)

Becomes(r, j) == job' = [job EXCEPT ![r] = j]
Goes(r, phase) == Becomes(r, [job[r] EXCEPT !.phase = phase])

\* Mutant: the test of activeScan is left to the callers' earlier one.
AdmitAny(r) ==
  /\ job[r].phase = "idle"
  /\ active' = r /\ Goes(r, "discovering") /\ UNCHANGED history

\* runScan up to its first await; its callers test activeScan as well.
Admit(r) ==
  /\ job[r].phase = "idle" /\ active = "none"
  /\ active' = r /\ Goes(r, "discovering") /\ UNCHANGED history

\* "A scan is already running", a deferred removable drive.
Refuse(r) ==
  /\ job[r].phase = "idle" /\ active # "none"
  /\ Becomes(r, Blank("refused")) /\ UNCHANGED <<active, history>>

\* The catch of runScan: the status is taken from the signal, then audited.
Catch(j) == [j EXCEPT !.phase = IF j.aborted THEN "cancelling" ELSE "failing"]

\* Mutant: one target too many.
AfterReportOneMore(j) ==
  IF j.target <= j.targets
  THEN [j EXCEPT !.phase = "opening", !.target = @ + 1]
  ELSE [j EXCEPT !.phase = "saving"]

\* After a report: the next target, or the summary.
AfterReport(j) ==
  IF j.target < j.targets
  THEN [j EXCEPT !.phase = "opening", !.target = @ + 1]
  ELSE [j EXCEPT !.phase = "saving"]

\* scanTargetsForType: any number of the targets exists.
Discover(r) ==
  /\ job[r].phase = "discovering"
  /\ \/ \E n \in 0..Len(Trees) : Becomes(r, AfterReport([job[r] EXCEPT !.targets = n]))
     \/ Becomes(r, Catch(job[r]))
  /\ UNCHANGED <<active, history>>

\* cancelScan: the signal's listeners run synchronously.
Cancel(r) ==
  /\ active = r /\ ~job[r].aborted
  /\ Becomes(r, [job[r] EXCEPT
       !.aborted = TRUE,
       !.killed = @ \/ job[r].listening,
       !.stopped = job[r].phase \in {"discovering", "opening", "listing", "scanning",
                                     "spawning", "verifying"}])
  /\ UNCHANGED <<active, history>>

\* saveScanJobSummary and appendAudit; either may fail.
Summarise(r) ==
  /\ job[r].phase = "saving"
  /\ \/ Goes(r, "auditing") /\ history' = history \union {r}
     \/ Becomes(r, Catch(job[r])) /\ UNCHANGED history
  /\ UNCHANGED active

Audit(r) ==
  /\ job[r].phase = "auditing"
  /\ \/ Becomes(r, Blank("completed")) /\ active' = "none"
     \/ Becomes(r, Catch(job[r])) /\ UNCHANGED active
  /\ UNCHANGED history

\* The audit entry of the catch, written or not, and the finally.
End(r) ==
  /\ \/ job[r].phase = "cancelling" /\ Becomes(r, Blank("cancelled"))
     \/ job[r].phase = "failing" /\ Becomes(r, Blank("failed"))
  /\ active' = "none" /\ UNCHANGED history

-----------------------------------------------------------------------------
(* scanPath: listing, workers.                                             *)

\* Signatures and index are opened; enumerate tests the signal at once.
Open(r) ==
  /\ job[r].phase = "opening"
  /\ \/ Becomes(r, Catch(job[r]))
     \/ ~job[r].aborted /\ Goes(r, "listing")
  /\ UNCHANGED <<active, history>>

\* enumerate: each path once, what cannot be read as an error; a cancellation
\* counts if the listing was not finished.
List(r) ==
  /\ job[r].phase = "listing"
  /\ \/ job[r].aborted /\ Becomes(r, Catch(job[r]))
     \/ \E unread \in SUBSET Trees[job[r].target] :
          Becomes(r, [job[r] EXCEPT
            !.phase = "scanning", !.cursor = 0,
            !.files = SetToSeq(Trees[job[r].target] \ unread),
            !.verdict = [f \in Files |-> "none"], !.virtual = {},
            !.entries = Cardinality(unread), !.expected = Cardinality(Trees[job[r].target])])
  /\ UNCHANGED <<active, history>>

\* A worker takes the next file; scanFile tests the signal before anything else.
TakeFile(r, w) ==
  LET j == job[r]  f == j.files[j.cursor + 1] IN
  /\ j.phase = "scanning" /\ j.worker[w] = NoFile /\ j.cursor < Len(j.files)
  /\ Becomes(r, IF j.aborted
                THEN [j EXCEPT !.cursor = @ + 1, !.entries = @ + 1, !.verdict[f] = "error"]
                ELSE [j EXCEPT !.cursor = @ + 1, !.worker[w] = f])
  /\ UNCHANGED <<active, history>>

\* scanFile returns a result, or throws and the worker records an error.
FinishFile(r, w) ==
  LET j == job[r]  f == j.worker[w] IN
  /\ j.phase = "scanning" /\ f # NoFile
  /\ \E v \in Verdicts \ {"none"} :
       Becomes(r, [j EXCEPT !.worker[w] = NoFile, !.entries = @ + 1, !.verdict[f] = v,
                            !.flagged = IF v \in Detected THEN @ \union {f} ELSE @])
  /\ UNCHANGED <<active, history>>

\* Promise.all of the workers.
WorkersDone(r) ==
  LET j == job[r] IN
  /\ j.phase = "scanning" /\ j.cursor >= Len(j.files)
  /\ \A w \in Workers : j.worker[w] = NoFile
  /\ Goes(r, "spawning") /\ UNCHANGED <<active, history>>

-----------------------------------------------------------------------------
(* scanWithClamAv and mergeClamAvDetections.                               *)

\* A detected result is quarantined if the configuration says so and it is a
\* regular file.
ToContain(j) ==
  {f \in Files : j.verdict[f] \in AutoQuarantine /\ f \notin j.virtual}

\* Mutant: detections are only added to results that exist.
MergedIntoResults(j, found, virtual) ==
  [j EXCEPT !.verdict = [f \in Files |-> IF f \in found /\ @[f] # "error"
                                         THEN "confirmed" ELSE @[f]],
            !.virtual = virtual, !.flagged = @ \union found]

\* mergeClamAvDetections: a result is added for a file that has none.
Merged(j, found, virtual) ==
  [j EXCEPT !.verdict = [f \in Files |-> IF f \in found THEN "confirmed" ELSE @[f]],
            !.virtual = virtual, !.flagged = @ \union found]

Contain(j) == [j EXCEPT !.phase = "containing", !.todo = ToContain(j)]

\* ClamAV is not installed, has no databases or is switched off.
ClamUnavailable(r) ==
  /\ job[r].phase = "spawning"
  /\ Becomes(r, Contain([job[r] EXCEPT !.gap = TRUE]))
  /\ UNCHANGED <<active, history>>

\* A listener that is added to an aborted signal is never called.
Spawn(r) ==
  /\ job[r].phase = "spawning"
  /\ Becomes(r, [job[r] EXCEPT !.phase = "verifying", !.listening = ~job[r].aborted,
                               !.killed = FALSE])
  /\ UNCHANGED <<active, history>>

Settled(j) == [j EXCEPT !.listening = FALSE, !.killed = FALSE]

\* "error": ENOENT counts as a missing target and the report has no results.
SpawnFails(r) ==
  LET j == Settled(job[r]) IN
  /\ job[r].phase = "verifying" /\ ~job[r].killed
  /\ \/ Becomes(r, Catch(j))
     \/ Becomes(r, AfterReport([j EXCEPT !.gap = TRUE, !.lost = TRUE]))
  /\ UNCHANGED <<active, history>>

\* Mutant: the timer reports the time-out but leaves the child running.
TimesOutOnly(r) ==
  /\ job[r].phase = "verifying" /\ ~job[r].killed
  /\ UNCHANGED scanVars

\* The timer terminates the child.
TimesOut(r) ==
  /\ job[r].phase = "verifying" /\ ~job[r].killed
  /\ Becomes(r, [job[r] EXCEPT !.killed = TRUE])
  /\ UNCHANGED <<active, history>>

\* "close": what was printed so far counts, also of a terminated child.
Close(r) ==
  LET j == job[r]
      below == Trees[j.target]
      known == {f \in Files : j.verdict[f] \notin {"none", "error"}} IN
  /\ j.phase = "verifying"
  /\ IF j.aborted THEN Becomes(r, Catch(Settled(j)))
     ELSE \E found \in SUBSET below : \E virtual \in SUBSET (found \ known) :
            Becomes(r, Contain(Merged(Settled(j), found, virtual)))
  /\ UNCHANGED <<active, history>>

-----------------------------------------------------------------------------
(* Automatic quarantine of the detected results.                           *)

\* quarantineFile, or its error kept in the result.
ContainFile(r) ==
  /\ job[r].phase = "containing"
  /\ \E f \in job[r].todo : Becomes(r, [job[r] EXCEPT !.todo = @ \ {f}])
  /\ UNCHANGED <<active, history>>

Report(r) ==
  LET j == job[r] IN
  /\ j.phase = "containing" /\ j.todo = {}
  /\ Becomes(r, AfterReport([j EXCEPT
       !.report = @ \union {f \in Files : j.verdict[f] \in Detected}]))
  /\ UNCHANGED <<active, history>>

JobStep(r) ==
  \/ Discover(r) \/ Open(r) \/ List(r) \/ WorkersDone(r)
  \/ \E w \in Workers : TakeFile(r, w) \/ FinishFile(r, w)
  \/ ClamUnavailable(r) \/ Spawn(r) \/ TimesOut(r)
  \/ ContainFile(r) \/ Report(r) \/ Summarise(r) \/ Audit(r) \/ End(r)

SjNext == \E r \in Requests :
  Admit(r) \/ Refuse(r) \/ Cancel(r) \/ JobStep(r) \/ SpawnFails(r) \/ Close(r)
SjSpec == SjInit /\ [][SjNext]_scanVars

\* The event loop runs and a terminated child closes; a child may hang for
\* ever, its timer does not.
SjFairness == \A r \in Requests :
  WF_scanVars(JobStep(r)) /\ WF_scanVars(job[r].killed /\ Close(r))
SjFairSpec == SjSpec /\ SjFairness

-----------------------------------------------------------------------------
(* Properties.                                                             *)

ScanTypeOK ==
  /\ active \in Requests \union {"none"}
  /\ job \in [Requests -> Job] /\ history \subseteq Requests

\* activeScan names the job that runs, so that a second job can neither start
\* beside it nor be taken for it by a cancellation (AntivirusEngine.runScan).
ActiveIsTheRunningJob ==
  \A r \in Requests : job[r].phase \in Working => active = r

\* A job reports what happened.  When the workers of a target are done, every
\* file of its listing has a result or an error, once, although they share one
\* index (scanPath).  What either engine detected, in any target, is in the
\* reports before they are saved, unless ClamAV's executable was gone: its
\* ENOENT makes the job report the target as missing (mergeClamAvDetections).
\* And a job cancelled before its last verification ended is not saved as
\* completed, if there was a target and ClamAV verified each (runScan).
ReportIsTrue ==
  \A r \in Requests : LET j == job[r] IN
    /\ j.phase \in {"spawning", "verifying", "containing"} =>
         /\ j.entries = j.expected
         /\ \A i \in DOMAIN j.files : j.verdict[j.files[i]] # "none"
    /\ j.phase \in {"saving", "auditing"} =>
         /\ j.lost \/ j.flagged \subseteq j.report
         /\ j.stopped => j.gap \/ j.targets = 0

\* Every admitted scan ends and frees the engine for the next one, whatever
\* hangs, fails or is cancelled.
ScanEnds == \A r \in Requests : active = r ~> active # r /\ job[r].phase \in Finished
=============================================================================
