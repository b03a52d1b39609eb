---------------------------- MODULE ThreatUpdates ----------------------------
(***************************************************************************)
(* The threat-intelligence update of a device: in each process (dashboard, *)
(* CLI) ThreatUpdateManager starts one worker thread, which downloads the  *)
(* sources one after the other and imports each in a transaction of the    *)
(* SQLite index that every process of the device reads.  Sources that need *)
(* an abuse.ch key come through HQ (ThreatGateway) on a managed device.    *)
(***************************************************************************)
EXTENDS FeedEntries, ThreatGateway, Integers, Sequences, SequencesExt

CONSTANTS
  Published,      \* feed file or source -> sequence of publications (item sets)
  Configurations, \* what a device may be: [sources (enabled), managed, localKey]
  MaxUpdates, MaxDeaths  \* bounds on updates and on worker or process deaths

\* HQ fetches the feeds that need a key; the marker is no request or answer.
ASSUME GatewayAssumption ==
  /\ GatewaySources = RequiresAuth
  /\ NoPayload \notin UpstreamRequests

Procs == Clients
Files == {"main", "daily", "lmd"}   \* threatArtifacts: what freshclam and lmd keep
Sources == UNION {ToSet(c.sources) : c \in Configurations}
Damaged == 0                        \* an answer or a file that is not a feed
NoFile == -1
Publications(s) == {Damaged} \cup DOMAIN Published[s]
Items(s, n) == IF n = Damaged THEN {} ELSE Published[s][n]

\* No selection means every source, so that an update has at least one; what
\* a feed answers through HQ is a publication of it or damaged; ThreatFox
\* lists no address ranges.
ASSUME FeedsAssumption ==
  /\ "none" \notin Clients
  /\ \A c \in Configurations :
       c.sources \in Seq(FeedSources) /\ c.sources # <<>> /\ {c.managed, c.localKey} \subseteq BOOLEAN
  /\ \A s \in Sources \cup GatewaySources \cup Files : DOMAIN Published[s] \subseteq Nat
  /\ \A s \in GatewaySources : Payloads[s] \subseteq Publications(s)
  /\ \A n \in DOMAIN Published["threatfox"] :
       \A i \in Published["threatfox"][n] : i.kind # "cidr"

VARIABLES
  enabled,            \* threatIntel.sources that are on, in their order
  managed, localKey,  \* management.enabled; an abuse.ch key kept on the device
  artifacts,          \* Files -> publication or NoFile
  manager,            \* process -> [running, call]
  worker,             \* process -> [pc, todo, forced, hq, key, payload]
  index,              \* source -> entries committed
  status,             \* source -> its row of feed_status
  txn,                \* the open write transaction, of process "none" if none
  expired,            \* source -> entries written more than 180 days ago
  updates, deaths

indexVars == <<index, status, txn, expired>>
updateVars == <<gatewayVars, enabled, managed, localKey, artifacts, manager, worker,
                indexVars, updates, deaths>>

NoTxn == [owner |-> "none"]
NoWorker == [pc |-> "none"]
Never == [state |-> "never", count |-> 0, version |-> <<>>, recent |-> FALSE]

TuInit ==
  /\ GwInit
  /\ \E c \in Configurations :
       enabled = c.sources /\ managed = c.managed /\ localKey = c.localKey
  /\ ~managed => hqKey = NoKey   \* no HQ
  /\ artifacts = [f \in Files |-> NoFile]
  /\ manager = [p \in Procs |-> [running |-> FALSE, call |-> "idle"]]
  /\ worker = [p \in Procs |-> NoWorker]
  /\ index = [s \in Sources |-> {}] /\ status = [s \in Sources |-> Never]
  /\ txn = NoTxn /\ expired = [s \in Sources |-> {}]
  /\ updates = 0 /\ deaths = 0
-----------------------------------------------------------------------------
(* ThreatUpdateManager.update                                              *)

Calls(p, c, r) == manager' = [manager EXCEPT ![p] = [running |-> r, call |-> c]]

\* The worker will get the enabled sources.
StartUpdate(p) ==
  /\ updates < MaxUpdates /\ updates' = updates + 1
  /\ ~manager[p].running /\ Calls(p, "credentials", TRUE)
  /\ \E forced \in BOOLEAN :
       worker' = [worker EXCEPT ![p] = [pc |-> "none", todo |-> enabled, forced |-> forced]]
  /\ UNCHANGED <<gatewayVars, enabled, managed, localKey, artifacts, indexVars, deaths>>

\* The credentials as they are now; those of HQ may be unreadable.
LoadCredentials(p) ==
  /\ manager[p].call = "credentials" /\ Calls(p, "worker", TRUE)
  /\ \E hq \in {FALSE, managed} :
       worker' = [worker EXCEPT ![p] =
         [pc |-> "check", todo |-> @.todo, forced |-> @.forced,
          hq |-> hq, key |-> localKey, payload |-> Damaged]]
  /\ UNCHANGED <<gatewayVars, enabled, managed, localKey, artifacts, indexVars, updates, deaths>>

\* The device's own credentials or the audit log cannot be used: the call
\* ends, and running is not reset.
StartFails(p) ==
  /\ deaths < MaxDeaths /\ deaths' = deaths + 1
  /\ manager[p].call = "credentials" /\ Calls(p, "idle", TRUE)
  /\ worker' = [worker EXCEPT ![p] = NoWorker]
  /\ UNCHANGED <<gatewayVars, enabled, managed, localKey, artifacts, indexVars, updates>>

\* A mutant of Finish: the exit and the error of the thread are not handled.
FinishOnMessage(p) ==
  /\ manager[p].call = "worker" /\ worker[p].pc \in {"complete", "fatal"}
  /\ Calls(p, "idle", FALSE) /\ worker' = [worker EXCEPT ![p] = NoWorker]
  /\ UNCHANGED <<gatewayVars, enabled, managed, localKey, artifacts, indexVars, updates, deaths>>

\* finish: a message of the worker, its error, or its exit.
Finish(p) ==
  /\ manager[p].call = "worker" /\ worker[p].pc \in {"complete", "fatal", "dead"}
  /\ Calls(p, "idle", FALSE) /\ worker' = [worker EXCEPT ![p] = NoWorker]
  /\ UNCHANGED <<gatewayVars, enabled, managed, localKey, artifacts, indexVars, updates, deaths>>

\* The key of the device, in the dashboard of a device that is not managed.
SaveThreatCredentials ==
  /\ ~managed /\ ~localKey /\ localKey' = TRUE
  /\ UNCHANGED <<gatewayVars, enabled, managed, artifacts, manager, worker, indexVars, updates, deaths>>
-----------------------------------------------------------------------------
(* The worker: updateThreatFeeds                                           *)

Working(p) == manager[p].call = "worker"
Source(p) == Head(worker[p].todo)
Unlocked == txn.owner = "none"
Goes(p, pc) == worker' = [worker EXCEPT ![p].pc = pc]
Advances(p) ==   \* to the next source, or the message "complete"
  worker' = [worker EXCEPT ![p].todo = Tail(@), ![p].payload = Damaged,
             ![p].pc = IF Len(worker[p].todo) = 1 THEN "complete" ELSE "check"]
outside == <<gatewayVars, enabled, managed, localKey, artifacts, manager, updates, deaths>>
WithinWorker == UNCHANGED <<enabled, managed, localKey, manager, updates, deaths>>

NeedsKey(p) == Source(p) \in RequiresAuth /\ ~worker[p].key /\ ~worker[p].hq
TooSoon(p) == ~worker[p].forced /\ status[Source(p)].recent

KeyMissing(p) ==
  /\ Working(p) /\ worker[p].pc = "check" /\ NeedsKey(p)
  /\ Goes(p, "failing") /\ UNCHANGED <<outside, indexVars>>

SkipsRecent(p) ==
  /\ Working(p) /\ worker[p].pc = "check" /\ ~NeedsKey(p) /\ TooSoon(p)
  /\ Advances(p) /\ UNCHANGED <<outside, indexVars>>

StartsSource(p) ==
  /\ Working(p) /\ worker[p].pc = "check" /\ ~NeedsKey(p) /\ ~TooSoon(p) /\ Unlocked
  /\ status' = [status EXCEPT ![Source(p)].state = "updating"]
  /\ Goes(p, "fetch") /\ UNCHANGED <<outside, index, txn, expired>>

\* A write waits ten seconds for the other process's transaction; then the
\* source fails, and when its error cannot be written either, the update.
Busy(p) ==
  /\ Working(p) /\ ~Unlocked /\ txn.owner # p
  /\ \/ worker[p].pc = "check" /\ ~NeedsKey(p) /\ ~TooSoon(p) /\ Goes(p, "failing")
     \/ worker[p].pc = "begin" /\ Goes(p, "failing")
     \/ worker[p].pc = "failing" /\ Goes(p, "fatal")
  /\ UNCHANGED <<outside, indexVars>>

\* The catch of the loop: the row keeps what the last import wrote.
RecordsError(p) ==
  /\ Working(p) /\ worker[p].pc = "failing" /\ Unlocked
  /\ status' = [status EXCEPT ![Source(p)].state = "error"]
  /\ Advances(p) /\ UNCHANGED <<outside, index, txn, expired>>
-----------------------------------------------------------------------------
(* The downloads                                                           *)

Unanswered(p) == reply' = Answer({p}, [got |-> "none"])
restOfGateway == <<hqKey, cache, overtaken, keyChanges>>
Fetching(p) == Working(p) /\ worker[p].pc = "fetch"
Got(p, n) ==
  \E parsed \in BOOLEAN :
    /\ parsed => n # Damaged \/ Source(p) \in AcceptsAnything
    /\ ~parsed => n = Damaged
    /\ worker' = [worker EXCEPT ![p].payload = n,
                  ![p].pc = IF parsed THEN "begin" ELSE "failing"]

\* Network error, untrusted redirect, HTTP status, size limit or timeout.
FetchFails(p) ==
  /\ Fetching(p) /\ Source(p) # "clamav" /\ Goes(p, "failing")
  /\ UNCHANGED <<outside, indexVars>>

\* One request, with the device's own key where the provider wants one.
FetchDirect(p) ==
  /\ Fetching(p)
  /\ \/ Source(p) = "feodotracker"
     \/ Source(p) \in RequiresAuth /\ ~worker[p].hq
  /\ \E n \in Publications(Source(p)) : Got(p, n)
  /\ UNCHANGED <<outside, indexVars>>

\* The lists of IPv4 and of IPv6 ranges, both or nothing.
FetchSpamhausDrop(p) ==
  /\ Fetching(p) /\ Source(p) = "spamhaus-drop"
  /\ \E n \in Publications("spamhaus-drop") : Got(p, n)
  /\ UNCHANGED <<outside, indexVars>>

\* The manifest, then its newest events: all of them or nothing.
FetchMispOsint(p) ==
  /\ Fetching(p) /\ Source(p) \in MispSources
  /\ \E n \in Publications(Source(p)) : Got(p, n)
  /\ UNCHANGED <<outside, indexVars>>

FetchThroughHq(p) ==
  /\ Fetching(p) /\ Source(p) \in RequiresAuth /\ worker[p].hq
  /\ FeedRequest(p, Source(p)) /\ Goes(p, "waiting")
  /\ WithinWorker /\ UNCHANGED <<artifacts, indexVars>>

TakesReply(p) ==
  /\ Working(p) /\ worker[p].pc = "waiting" /\ reply[p].got \in {"payload", "failed"}
  /\ IF reply[p].got = "failed" THEN Goes(p, "failing") ELSE Got(p, reply[p].payload)
  /\ Unanswered(p) /\ WithinWorker
  /\ UNCHANGED <<hqKey, cache, inflight, overtaken, keyChanges, artifacts, indexVars>>

TimesOut(p) ==
  /\ Working(p) /\ worker[p].pc = "waiting" /\ reply[p].got = "waiting"
  /\ Unanswered(p) /\ Leaves(p) /\ Goes(p, "failing")
  /\ WithinWorker /\ UNCHANGED <<restOfGateway, artifacts, indexVars>>

\* freshclam replaces each database in the directory of the artifacts.
Freshclam(p) ==
  /\ Fetching(p) /\ Source(p) = "clamav"
  /\ \E m \in Publications("main"), d \in Publications("daily") :
       artifacts' = [artifacts EXCEPT !["main"] = m, !["daily"] = d]
  /\ Goes(p, "begin") /\ WithinWorker /\ UNCHANGED <<gatewayVars, indexVars>>

\* It is missing, exits with an error, or is killed at its timeout, perhaps
\* between the two.
FreshclamFails(p) ==
  /\ Fetching(p) /\ Source(p) = "clamav"
  /\ \E m \in {artifacts["main"]} \cup Publications("main") :
       artifacts' = [artifacts EXCEPT !["main"] = m]
  /\ Goes(p, "failing") /\ WithinWorker /\ UNCHANGED <<gatewayVars, indexVars>>

\* downloadFeedFile removes the old file, then renames the new one.
DownloadLmd(p) ==
  /\ Fetching(p) /\ Source(p) = "lmd"
  /\ \E n \in Publications("lmd") : worker' = [worker EXCEPT ![p].payload = n, ![p].pc = "rename"]
  /\ artifacts' = [artifacts EXCEPT !["lmd"] = NoFile]
  /\ WithinWorker /\ UNCHANGED <<gatewayVars, indexVars>>
PlaceLmd(p) ==
  /\ Working(p) /\ worker[p].pc = "rename"
  /\ artifacts' = [artifacts EXCEPT !["lmd"] = worker[p].payload] /\ Goes(p, "extract")
  /\ WithinWorker /\ UNCHANGED <<gatewayVars, indexVars>>

\* The file is read again by its name: another process may have removed or
\* replaced it.
ExtractLmd(p) ==
  /\ Working(p) /\ worker[p].pc = "extract"
  /\ IF artifacts["lmd"] = NoFile THEN Goes(p, "failing") ELSE Got(p, artifacts["lmd"])
  /\ UNCHANGED <<outside, indexVars>>
-----------------------------------------------------------------------------
(* The import: one transaction per source                                  *)

PayloadEntries(p) == Entries(Source(p), Items(Source(p), worker[p].payload))

\* What the transaction holds after its deletions and insertions.
Rewritten(s, entries) ==
  IF s \in Replaced THEN entries
  ELSE IF s \in Expiring THEN (index[s] \ expired[s]) \cup entries
  ELSE index[s] \cup entries

BeginImport(p) ==
  /\ Working(p) /\ worker[p].pc = "begin" /\ Unlocked /\ Source(p) # "clamav"
  /\ txn' = [owner |-> p, index |-> Rewritten(Source(p), PayloadEntries(p)),
             fresh |-> PayloadEntries(p), version |-> <<worker[p].payload>>]
  /\ Goes(p, "commit") /\ UNCHANGED <<outside, index, status, expired>>

\* A mutant of BeginClamAv: the old entries are deleted before BEGIN.
DeletesFirst(p) ==
  /\ Working(p) /\ worker[p].pc = "begin" /\ Unlocked /\ Source(p) = "clamav"
  /\ index' = [index EXCEPT !["clamav"] = {}]
  /\ txn' = [owner |-> p, index |-> {}, fresh |-> {}, version |-> <<>>]
  /\ Goes(p, "index") /\ UNCHANGED <<outside, status, expired>>

BeginClamAv(p) ==
  /\ Working(p) /\ worker[p].pc = "begin" /\ Unlocked /\ Source(p) = "clamav"
  /\ txn' = [owner |-> p, index |-> {}, fresh |-> {}, version |-> <<>>]
  /\ Goes(p, "index") /\ UNCHANGED <<outside, index, status, expired>>

\* One database after the other, each as it is on the disk then, across
\* awaits and within the transaction.
IndexDatabase(p) ==
  /\ Working(p) /\ worker[p].pc = "index"
  /\ LET n == Len(txn.version)
         file == <<"main", "daily">>[n + 1]
         new == ClamHashes(Items(file, artifacts[file]))
     IN /\ artifacts[file] \notin {Damaged, NoFile}
        /\ txn' = [txn EXCEPT !.index = @ \cup new, !.fresh = @ \cup new,
                              !.version = Append(@, artifacts[file])]
        /\ Goes(p, IF n = 1 THEN "commit" ELSE "index")
  /\ UNCHANGED <<outside, index, status, expired>>

ReadyRow(t) ==
  [state |-> "ready", count |-> Cardinality(t.index), version |-> t.version,
   recent |-> TRUE]

Commit(p) ==
  /\ Working(p) /\ worker[p].pc = "commit"
  /\ LET s == Source(p) IN
       /\ index' = [index EXCEPT ![s] = txn.index]
       /\ expired' = [expired EXCEPT ![s] = (@ \ txn.fresh) \cap txn.index]
       /\ status' = [status EXCEPT ![s] = ReadyRow(txn)]
  /\ txn' = NoTxn /\ Advances(p) /\ UNCHANGED outside

\* A checksum, a cut archive, a constraint, a full disk: ROLLBACK.
RollBack(p) ==
  /\ Working(p) /\ worker[p].pc \in {"index", "commit"}
  /\ txn' = NoTxn /\ Goes(p, "failing")
  /\ UNCHANGED <<outside, index, status, expired>>
-----------------------------------------------------------------------------
(* Deaths and time                                                         *)

KeepsLock(p) == txn' = txn          \* mutant of Released: the connection leaks
Released(p) == txn' = IF txn.owner = p THEN NoTxn ELSE txn

\* An uncaught error or a lack of memory ends the thread: the connection is
\* closed and its transaction rolled back.
WorkerDies(p) ==
  /\ deaths < MaxDeaths /\ deaths' = deaths + 1
  /\ Working(p) /\ worker[p].pc \notin {"complete", "fatal", "dead"}
  /\ Goes(p, "dead") /\ Released(p) /\ Unanswered(p) /\ Leaves(p)
  /\ UNCHANGED <<restOfGateway, enabled, managed, localKey, artifacts, manager, index, status,
                 expired, updates>>

ProcessRestarts(p) ==
  /\ deaths < MaxDeaths /\ deaths' = deaths + 1
  /\ manager[p].running /\ Calls(p, "idle", FALSE)
  /\ worker' = [worker EXCEPT ![p] = NoWorker] /\ Released(p) /\ Unanswered(p) /\ Leaves(p)
  /\ UNCHANGED <<restOfGateway, enabled, managed, localKey, artifacts, index, status, expired,
                 updates>>

IntervalPasses ==
  /\ \E s \in Sources : status[s].recent
  /\ status' = [s \in Sources |-> [status[s] EXCEPT !.recent = FALSE]]
  /\ UNCHANGED <<outside, worker, index, txn, expired>>

HalfYearPasses ==
  /\ Unlocked /\ \A p \in Procs : ~Working(p)
  /\ \E s \in Sources \cap Expiring : expired[s] # index[s]
  /\ status' = [s \in Sources |-> [status[s] EXCEPT !.recent = FALSE]]
  /\ expired' = [s \in Sources |-> IF s \in Expiring THEN index[s] ELSE {}]
  /\ UNCHANGED <<outside, worker, index, txn>>

WorkerStep(p) ==
  \/ KeyMissing(p) \/ SkipsRecent(p) \/ StartsSource(p) \/ Busy(p) \/ RecordsError(p)
  \/ FetchFails(p) \/ FetchDirect(p) \/ FetchSpamhausDrop(p) \/ FetchMispOsint(p)
  \/ FetchThroughHq(p) \/ TakesReply(p) \/ TimesOut(p) \/ Freshclam(p) \/ FreshclamFails(p)
  \/ DownloadLmd(p) \/ PlaceLmd(p) \/ ExtractLmd(p)
  \/ BeginImport(p) \/ BeginClamAv(p) \/ IndexDatabase(p) \/ Commit(p) \/ RollBack(p)

TuNext ==
  \/ \E p \in Procs :
       \/ StartUpdate(p) \/ LoadCredentials(p) \/ StartFails(p) \/ Finish(p)
       \/ WorkerStep(p) \/ WorkerDies(p) \/ ProcessRestarts(p)
  \/ SaveThreatCredentials \/ IntervalPasses \/ HalfYearPasses
  \/ managed /\ GwNext /\ UNCHANGED <<enabled, managed, localKey, artifacts, manager, worker, indexVars,
                           updates, deaths>>

\* Threads are scheduled, every request has a timeout, and the loop over the
\* sources is finite.
TuFairness == \A p \in Procs : WF_worker(Working(p) /\ (WorkerStep(p) \/ Finish(p)))
-----------------------------------------------------------------------------
Content(s, v) ==
  IF v = <<>> THEN {}
  ELSE IF s = "clamav"
       THEN ClamHashes(Items("main", v[1])) \cup ClamHashes(Items("daily", v[2]))
  ELSE Entries(s, Items(s, v[1]))

(* The types of an update and of the gateway. *)
ThreatTypeOK ==
  /\ \A p \in Procs :
       /\ manager[p].running \in BOOLEAN
       /\ manager[p].call \in {"idle", "credentials", "worker"}
       /\ manager[p].call # "idle" => manager[p].running
       /\ worker[p] = NoWorker <=> manager[p].call = "idle"
  /\ \A f \in Files : artifacts[f] \in Publications(f) \cup {NoFile}
  /\ txn.owner \in Procs \cup {"none"}
  /\ txn.owner \in Procs =>
       Working(txn.owner) /\ worker[txn.owner].pc \in {"index", "commit"}
  /\ \A s \in Sources : expired[s] \subseteq index[s]
  /\ hqKey \in Keys \cup {NoKey} /\ overtaken \subseteq GatewaySources

(* Whatever an update is doing in either process, and wherever it fails or *)
(* dies, a scan reads for each source the whole of the publication its row *)
(* names: nothing else for a source whose import replaces it, at least     *)
(* that for the others (BEGIN IMMEDIATE ... COMMIT or ROLLBACK); and the    *)
(* number of entries in the row is the number in the tables, after         *)
(* expiries, failed imports and imports by the other process too.          *)
ReadersSeeWholeFeeds ==
  \A s \in Sources :
    LET content == Content(s, status[s].version)
    IN /\ IF s \in Replaced THEN index[s] = content ELSE content \subseteq index[s]
       /\ status[s].count = Cardinality(index[s])

(* Only what can be matched gets into the index: hashes and addresses of   *)
(* the right form, MISP attributes marked for detection; and a hash that   *)
(* URLhaus merely observed never counts as confirmed, which is what        *)
(* automatic quarantine goes by.                                           *)
OnlyUsableIndicators ==
  \A s \in Sources : \A e \in index[s] :
    /\ e.table = "hash" \/ e.type \in {"ip", "cidr", "ip:port", "url"} => e.well
    /\ s \in MispSources => e.marked
    /\ e.confirmed => s # "urlhaus"

(* An update that got its worker ends, and the manager takes the next:     *)
(* whatever the feeds, HQ, the lock of the index or the thread do (finish, *)
(* the timeouts of every request).                                         *)
UpdateEnds ==
  \A p \in Procs : (manager[p].call = "worker") ~> (manager[p].call = "idle")
=============================================================================
