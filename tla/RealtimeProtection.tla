-------------------------- MODULE RealtimeProtection --------------------------
(***************************************************************************)
(* Realtime file protection of an endpoint: the engine that stops one      *)
(* protection object and starts another, and one of these objects with its *)
(* watchers, the debounced pending files with their capacity, the two scan *)
(* queues and the inspections that run at once.                            *)
(*                                                                         *)
(* The module observes one object.  Of the others it has their life; they  *)
(* meet the observed one in the files only (Removed).  Each watched file   *)
(* lies in a target of its own.  A file's content is the number of its     *)
(* last write; 0 is no file.  Files in Downloads get the deep scan, which  *)
(* waits until the file is stable and remembers what it scanned by size    *)
(* and modification time.  Exclusions, symbolic links and the data         *)
(* directory are left out: no such file is Watched; the configuration      *)
(* does not change.                                                        *)
(***************************************************************************)
EXTENDS Integers, SequencesExt

CONSTANTS
  Objects,      \* protection objects the engine creates; bounds the calls
  Observed,     \* the one observed here
  Watched,      \* watched files
  Downloads,    \* those in the Downloads directory
  Malicious,    \* contents that a scan detects
  Capacity,     \* scanner.maxPendingRealtimeFiles
  Concurrency,  \* scanner.realtimeConcurrency
  MaxWrites     \* bound: writes to files

ASSUME RealtimeAssumption ==
  /\ Observed \in Objects /\ "none" \notin Objects
  /\ Downloads \subseteq Watched /\ Malicious \subseteq Nat
  /\ Capacity \in Nat \ {0} /\ Concurrency \in Nat \ {0} /\ MaxWrites \in Nat

VARIABLES
  content,    \* content[f]: number of the write that f holds
  events,     \* events[f]: notifications of the watchers still to come
  life,       \* life[o]: "none" (not created), "starting", "on" (running), "off"
  protection, \* the engine's current object, or "none"
  calls,      \* calls of startProtection that have not looked for it yet
  toWatch,    \* files whose target is not attached yet
  watching,   \* files whose target has a watcher
  downloadWatcher, \* Downloads has one
  pending,    \* files whose timer runs, in the order of the map
  priorityQueue, scanQueue,
  inspection, \* inspection[s]: an inspection of the observed object
  active,     \* activeScans
  recent,     \* recentDeepScans: fingerprint, or 0
  deepActive, \* activeDeepFiles
  rescan,     \* deepRescanRequested
  noticed,    \* history: noticed[f], content of f at the last notification
  scanned,    \* history: scanned[f], last content a scan read whole
  failed,     \* history: failed[f], last content that could not be scanned
  dropped,    \* history: files dropped at capacity since they were reported
  overlapped, \* history: a call began while another one, or a start, was under way
  writes

queues == <<priorityQueue, scanQueue>>
deepVars == <<recent, deepActive, rescan>>
history == <<noticed, scanned, failed>>
watchers == <<toWatch, watching, downloadWatcher>>
engineVars == <<life, protection, calls, overlapped>>
\* Everything the observed object holds but its watchers and their notifications.
scanState == <<pending, queues, inspection, active, deepVars, history, dropped>>
realtimeVars == <<content, events, engineVars, watchers, scanState, writes>>

Slots == 1..Concurrency
NoInspection == [step |-> "idle", file |-> "none", begun |-> 0, seen |-> 0]
InUse(s) == inspection[s].step # "idle"
Queued == ToSet(priorityQueue) \union ToSet(scanQueue)
phase == life[Observed]

\* At first the engine may be about to start protection (realtimeEnabled).
RealtimeInit ==
  /\ content = [f \in Watched |-> 0] /\ events = [f \in Watched |-> 0]
  /\ life = [o \in Objects |-> "none"] /\ protection = "none"
  /\ calls \in 0..1 /\ overlapped = FALSE
  /\ toWatch = Watched /\ watching = {} /\ downloadWatcher = FALSE
  /\ pending = <<>> /\ priorityQueue = <<>> /\ scanQueue = <<>>
  /\ inspection = [s \in Slots |-> NoInspection] /\ active = 0
  /\ recent = [f \in Watched |-> 0] /\ deepActive = {} /\ rescan = {}
  /\ noticed = [f \in Watched |-> 0] /\ scanned = [f \in Watched |-> 0]
  /\ failed = [f \in Watched |-> 0] /\ dropped = {}
  /\ writes = 0

-----------------------------------------------------------------------------
(* The files.                                                              *)

\* Every watcher of the observed object that covers f reports a change.
Changed(f) ==
  events' = [events EXCEPT ![f] = (IF f \in watching THEN 1 ELSE 0)
                                + (IF f \in Downloads /\ downloadWatcher THEN 1 ELSE 0)]

Change(f) ==
  /\ writes < MaxWrites /\ writes' = writes + 1
  /\ content' = [content EXCEPT ![f] = writes + 1] /\ Changed(f)
  /\ UNCHANGED <<engineVars, watchers, scanState>>

\* A user deletes f, or another protection object moves it to the quarantine.
Removed(f) ==
  /\ content[f] # 0 /\ content' = [content EXCEPT ![f] = 0] /\ Changed(f)
  /\ UNCHANGED <<engineVars, watchers, scanState, writes>>

-----------------------------------------------------------------------------
(* queue and pump.                                                         *)

AtCapacity(f) == f \notin ToSet(pending) /\ Len(pending) >= Capacity

\* queue: a file that is pending keeps its place; at capacity the oldest one
\* is dropped.
Enqueue(f) ==
  /\ pending' = IF f \in ToSet(pending) THEN pending
                ELSE Append(IF AtCapacity(f) THEN Tail(pending) ELSE pending, f)
  /\ dropped' = (dropped \ {f}) \union (IF AtCapacity(f) THEN {Head(pending)} ELSE {})

\* pump: inspections are started while there is work, deep scans first.
Pump(deep, plain, current, running) ==
  LET work == deep \o plain
      n == IF phase # "on" \/ running >= Concurrency THEN 0
           ELSE IF Len(work) < Concurrency - running THEN Len(work) ELSE Concurrency - running
      free == {s \in Slots : current[s].step = "idle"}
      rank(s) == Cardinality({t \in free : t <= s})
  IN /\ priorityQueue' = SubSeq(deep, n + 1, Len(deep))
     /\ scanQueue' = SubSeq(plain, IF n > Len(deep) THEN n - Len(deep) + 1 ELSE 1, Len(plain))
     /\ active' = running + n
     /\ inspection' = [s \in Slots |->
          IF s \in free /\ rank(s) <= n
          THEN [NoInspection EXCEPT !.step = "stat", !.file = work[rank(s)],
                                    !.begun = content[work[rank(s)]]]
          ELSE current[s]]

\* A watcher reports a change of f.
Notice(f) ==
  /\ events[f] > 0 /\ events' = [events EXCEPT ![f] = @ - 1]
  /\ noticed' = [noticed EXCEPT ![f] = content[f]]
  /\ Enqueue(f)
  /\ UNCHANGED <<content, engineVars, watchers, queues, inspection, active, deepVars, scanned,
                 failed, writes>>

\* The timer of a pending file.
Debounced(f) ==
  /\ \E i \in 1..Len(pending) : pending[i] = f /\ pending' = RemoveAt(pending, i)
  /\ IF f \in Downloads THEN Pump(Append(priorityQueue, f), scanQueue, inspection, active)
     ELSE Pump(priorityQueue, Append(scanQueue, f), inspection, active)
  /\ UNCHANGED <<content, events, engineVars, watchers, deepVars, history, dropped, writes>>

-----------------------------------------------------------------------------
(* inspect.                                                                *)

\* Mutant: pump is not called when an inspection ends.
EndQuietly(s) ==
  /\ inspection' = [inspection EXCEPT ![s] = NoInspection]
  /\ active' = active - 1
  /\ UNCHANGED queues

\* An inspection ends, also one that a stopped object left, and pumps.
End(s) == Pump(priorityQueue, scanQueue, [inspection EXCEPT ![s] = NoInspection], active - 1)

\* The finally of a deep scan: the file is free again, and queued if it was
\* asked for in the meantime.
Release(s) ==
  LET f == inspection[s].file IN
  IF f \notin Downloads
  THEN UNCHANGED <<pending, dropped, deepActive, rescan>>
  ELSE /\ deepActive' = deepActive \ {f} /\ rescan' = rescan \ {f}
       /\ IF f \in rescan /\ phase = "on" THEN Enqueue(f) ELSE UNCHANGED <<pending, dropped>>

GoTo(s, step) ==
  /\ inspection' = [inspection EXCEPT ![s].step = step, ![s].seen = content[inspection[s].file]]
  /\ UNCHANGED <<queues, active>>

\* lstat of a plain file.
Lstat(s) ==
  /\ inspection[s].step = "stat" /\ inspection[s].file \notin Downloads
  /\ IF content[inspection[s].file] = 0 THEN End(s) ELSE GoTo(s, "scan")
  /\ UNCHANGED <<content, events, engineVars, watchers, pending, deepVars, history, dropped,
                 writes>>

\* waitForStableFile of a deep scan, then the checks before it.
Stabilize(s) ==
  LET f == inspection[s].file IN
  /\ inspection[s].step = "stat" /\ f \in Downloads
  /\ \/ /\ content[f] = 0
        /\ End(s) /\ UNCHANGED <<deepActive, rescan>>
     \/ /\ content[f] # 0 /\ f \in deepActive
        /\ rescan' = rescan \union {f} /\ End(s) /\ UNCHANGED deepActive
     \/ /\ content[f] # 0 /\ f \notin deepActive /\ recent[f] = content[f]
        /\ End(s) /\ UNCHANGED <<deepActive, rescan>>
     \/ /\ content[f] # 0 /\ f \notin deepActive /\ recent[f] # content[f]
        /\ deepActive' = deepActive \union {f}
        /\ GoTo(s, "scan") /\ UNCHANGED rescan
  /\ UNCHANGED <<content, events, engineVars, watchers, pending, recent, history, dropped, writes>>

\* The file kept changing until the timeout: EBUSY, without an event.
NeverStable(s) ==
  LET f == inspection[s].file IN
  /\ inspection[s].step = "stat" /\ f \in Downloads /\ content[f] \notin {0, inspection[s].begun}
  /\ End(s)
  /\ UNCHANGED <<content, events, engineVars, watchers, pending, deepVars, history, dropped,
                 writes>>

\* Mutant: the fingerprint is taken when the scan ends.
RememberLate(s) ==
  recent' = [recent EXCEPT ![inspection[s].file] = content[inspection[s].file]]

\* The fingerprint of a deep scan is the one from before the scan.
Remember(s) ==
  recent' = IF inspection[s].file \notin Downloads THEN recent
            ELSE [recent EXCEPT ![inspection[s].file] = inspection[s].seen]

\* The scan ends; a content that changed under it was not read whole.
ScanEnds(s) ==
  LET f == inspection[s].file
      whole == content[f] = inspection[s].seen
  IN
  /\ inspection[s].step = "scan" /\ content[f] # 0
  /\ Remember(s)
  /\ scanned' = IF whole THEN [scanned EXCEPT ![f] = content[f]] ELSE scanned
  /\ IF whole /\ content[f] \in Malicious
     THEN /\ inspection' = [inspection EXCEPT ![s].step = "handle"]
          /\ UNCHANGED <<queues, active, pending, dropped, deepActive, rescan>>
     ELSE Release(s) /\ End(s)
  /\ UNCHANGED <<content, events, engineVars, watchers, noticed, failed, writes>>

\* The file is gone or cannot be read, or the index of a stopped object is
\* closed.  A deep scan that reports the error counts as a scan.
ScanFails(s) ==
  LET f == inspection[s].file IN
  /\ inspection[s].step = "scan"
  /\ \/ Remember(s) \/ UNCHANGED recent
  /\ failed' = IF inspection[s].seen < failed[f] THEN failed
               ELSE [failed EXCEPT ![f] = inspection[s].seen]
  /\ Release(s) /\ End(s)
  /\ UNCHANGED <<content, events, engineVars, watchers, noticed, scanned, writes>>

\* handleDetection: the file goes to the quarantine, whatever it holds by now,
\* or stays with an event.
Handle(s) ==
  LET f == inspection[s].file IN
  /\ inspection[s].step = "handle"
  /\ \/ content[f] # 0 /\ content' = [content EXCEPT ![f] = 0] /\ Changed(f)
     \/ UNCHANGED <<content, events>>
  /\ Release(s) /\ End(s)
  /\ UNCHANGED <<engineVars, watchers, recent, history, writes>>

-----------------------------------------------------------------------------
(* The engine.                                                             *)

Live(o) == life[o] \in {"starting", "on"}
Unborn == {o \in Objects : life[o] = "none"}

\* stop of the observed object: everything is cleared and no watcher is left,
\* but inspections go on, and so does a start that is under way.
Stop ==
  /\ events' = [f \in Watched |-> 0] /\ watching' = {} /\ downloadWatcher' = FALSE
  /\ pending' = <<>> /\ priorityQueue' = <<>> /\ scanQueue' = <<>> /\ active' = 0
  /\ recent' = [f \in Watched |-> 0] /\ deepActive' = {} /\ rescan' = {}
  /\ noticed' = [f \in Watched |-> 0] /\ dropped' = {}
  /\ scanned' = [f \in Watched |-> 0] /\ failed' = [f \in Watched |-> 0]
  /\ UNCHANGED <<toWatch, inspection>>

\* stopProtection and then startProtection (fix-all, the command of HQ): the
\* current object is stopped before the call waits for anything.
StopAndStart ==
  /\ calls < Cardinality(Unborn) /\ calls' = calls + 1
  /\ overlapped' = (overlapped \/ calls > 0 \/ \E o \in Objects : life[o] = "starting")
  /\ life' = [o \in Objects |-> IF o = protection /\ life[o] = "on" THEN "off" ELSE life[o]]
  /\ IF protection = Observed THEN Stop ELSE UNCHANGED <<events, watchers, scanState>>
  /\ UNCHANGED <<content, protection, writes>>

\* Mutant: a stopped object is started again.
CreateReusing ==
  /\ calls > 0 /\ calls' = calls - 1
  /\ IF protection # "none" /\ life[protection] = "on"
     THEN UNCHANGED <<life, protection, toWatch>>
     ELSE \E o \in IF protection = "none" THEN Unborn ELSE {protection} :
            /\ life' = [life EXCEPT ![o] = "starting"] /\ protection' = o
            /\ toWatch' = IF o = Observed THEN Watched ELSE toWatch
  /\ UNCHANGED <<content, events, watching, downloadWatcher, scanState, overlapped, writes>>

\* startProtection finds no object that runs and makes one.  One that is still
\* starting does not run yet.
Create ==
  /\ calls > 0 /\ calls' = calls - 1
  /\ IF protection # "none" /\ life[protection] = "on"
     THEN UNCHANGED <<life, protection>>
     ELSE \E o \in Unborn : life' = [life EXCEPT ![o] = "starting"] /\ protection' = o
  /\ UNCHANGED <<content, events, watchers, scanState, overlapped, writes>>

\* start: the watcher of the next target, unless the target cannot be watched.
Attach(f) ==
  /\ phase = "starting" /\ f \in toWatch /\ toWatch' = toWatch \ {f}
  /\ watching' \in {watching, watching \union {f}}
  /\ UNCHANGED <<content, events, engineVars, downloadWatcher, scanState, writes>>

\* The watcher of Downloads, or none, and the object runs if anything is
\* watched, also when it was stopped meanwhile.  Files that became due before
\* do not start by themselves.
Started ==
  /\ phase = "starting" /\ toWatch = {} /\ downloadWatcher' \in BOOLEAN
  /\ life' = [life EXCEPT ![Observed] = IF watching # {} \/ downloadWatcher' THEN "on" ELSE "off"]
  /\ UNCHANGED <<content, events, protection, calls, overlapped, toWatch, watching, scanState,
                 writes>>

\* The signatures or the threat index cannot be opened: start throws.
StartFails ==
  /\ phase = "starting" /\ toWatch = Watched /\ life' = [life EXCEPT ![Observed] = "off"]
  /\ UNCHANGED <<content, events, protection, calls, overlapped, watchers, scanState, writes>>

\* The start of another object ends.
OtherStarted(o) ==
  /\ o # Observed /\ life[o] = "starting"
  /\ \E end \in {"on", "off"} : life' = [life EXCEPT ![o] = end]
  /\ UNCHANGED <<content, events, protection, calls, overlapped, watchers, scanState, writes>>

Inspect(s) ==
  Lstat(s) \/ Stabilize(s) \/ NeverStable(s) \/ ScanEnds(s) \/ ScanFails(s) \/ Handle(s)

RealtimeNext ==
  \/ \E f \in Watched : Change(f) \/ Removed(f) \/ Notice(f) \/ Debounced(f) \/ Attach(f)
  \/ \E s \in Slots : Inspect(s)
  \/ StopAndStart \/ Create \/ Started \/ StartFails
  \/ \E o \in Objects : OtherStarted(o)

RealtimeSpec == RealtimeInit /\ [][RealtimeNext]_realtimeVars

\* Timers fire and scans end.
RealtimeFairness ==
  /\ \A f \in Watched : WF_realtimeVars(Debounced(f))
  /\ \A s \in Slots : WF_realtimeVars(Inspect(s))

-----------------------------------------------------------------------------
(* Properties.                                                             *)

\* A protection object keeps its limits while it is starting or running: active
\* counts its inspections, which never exceed realtimeConcurrency; no file is
\* pending twice, nor more files than fit; and it deep-scans a file once at a
\* time (queue, pump, inspect of protection.js; a stop leaves inspections that
\* go on, and startProtection makes a new object).  The limits are those of one
\* object: an object that the engine does not refer to any more is starting or
\* running only after two calls of startProtection overlapped, or one came while
\* an object was still starting (engine.js:175 asks whether the object runs,
\* which it does only at the end of its start).
WithinLimits ==
  /\ Live(Observed) =>
       LET busy == {s \in Slots : InUse(s)}
           deep == {s \in busy : inspection[s].step = "scan" /\ inspection[s].file \in Downloads}
       IN /\ active = Cardinality(busy) /\ active <= Concurrency
          /\ IsInjective(pending) /\ Len(pending) <= Capacity
          /\ Cardinality({inspection[s].file : s \in deep}) = Cardinality(deep)
  /\ ~overlapped => \A o \in Objects : Live(o) => o = protection

\* The last content of a file that was reported to the object was scanned, or an
\* inspection of it is still to come, unless the file was dropped at capacity or
\* this content was unreadable: whatever changes while a scan runs, a timeout of a
\* file that does not become stable, a fingerprint seen before, a stop while the
\* object starts (queue, inspect, start).
NothingForgotten ==
  \A f \in Watched :
    Live(Observed) /\ content[f] # 0 /\ noticed[f] = content[f] =>
      \/ content[f] \in {scanned[f], failed[f]} \/ f \in dropped
      \/ f \in ToSet(pending) \union Queued \union rescan
      \/ \E s \in Slots : /\ inspection[s].file = f
                          /\ inspection[s].step = "stat" \/ inspection[s].seen = content[f]

\* A file that is pending while its protection object runs is scanned in the end,
\* unless it changes, is dropped or the object is stopped.
PendingIsScanned ==
  \A f \in Watched, n \in 1..MaxWrites :
    phase = "on" /\ content[f] = n /\ noticed[f] = n /\ f \in ToSet(pending)
      ~> content[f] # n \/ n \in {scanned[f], failed[f]} \/ f \in dropped \/ phase # "on"
=============================================================================
