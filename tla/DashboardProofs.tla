---------------------------- MODULE DashboardProofs ----------------------------
(***************************************************************************)
(* Proofs about what the dashboard's server dispatches: for any number of  *)
(* requests, files, targets and workers, and of processes, operations and  *)
(* restarts.  The scans and the settings share no variable, so that each   *)
(* has an inductive invariant of its own.                                  *)
(***************************************************************************)
EXTENDS Dashboard, FiniteSetTheorems, TLAPS

-----------------------------------------------------------------------------
(* The inductive invariants.                                               *)

\* What an update may say of a setting.
Values(s) == IF s = "dns" THEN {"none", "filtered"} ELSE Switch

\* An operation: its steps, and the settings it saves.
OpOK(x) ==
  /\ x.kind = "none" <=> x.step = "idle"
  /\ x.kind # "none" => x.proc \in Procs
  /\ x.step = "authorise" => x.kind \in {"patch"} \union DnsKinds
  /\ x.step \in {"adapters", "backup", "apply"} => x.kind = "dns.apply"
  /\ x.step \in {"restore", "remove"} => x.kind = "dns.restore"
  /\ \A s \in DOMAIN x.update : x.update[s] \in Values(s)
  /\ IF x.kind = "patch" THEN DOMAIN x.update = Critical /\ x.named \subseteq Critical
     ELSE DOMAIN x.update = x.named
  /\ x.kind \in DnsKinds <=> x.named = {"dns"}
  /\ x.kind \in DnsKinds <=> "dns" \in x.named

\* What an operation knows of the file c, if no other save came in between.
Current(x, c) ==
  /\ x.step = "replace" /\ ~x.raced => x.read = c
  /\ x.kind = "patch" =>
       /\ x.stale \/ \A s \in Critical \ x.named : x.update[s] = c[s]
       /\ x.step = "authorise" \/ x.authorised

SettingsInv ==
  /\ CfgTypeOK
  /\ \A o \in Ops : OpOK(op[o]) /\ Current(op[o], config)

\* A DNS operation in each of its steps, with the adapters a and the backup b.
DnsOpOK(x, a, b) ==
  /\ x.kind = "dns.apply" =>
       /\ x.update["dns"] = "filtered"
       /\ x.step \in {"adapters", "backup"} /\ a = "filtered" => x.preserve
       /\ x.step = "backup" => x.seen = a
       /\ x.step \in {"apply", "load", "replace"} => b = "original"
  /\ x.kind = "dns.restore" /\ x.step \in {"remove", "load", "replace"} => a = "original"
Applying(x) == x.kind = "dns.apply" /\ x.step \in {"apply", "load", "replace"}

\* While nothing disturbed them: one DNS operation at a time, a backup only of
\* the settings before the first profile, and filtered adapters with that
\* backup and, unless a profile is being applied, with their entry in the file.
DnsInv ==
  disturbed \/
    /\ \A o, q \in Ops : op[o].kind \in DnsKinds /\ op[q].kind \in DnsKinds => o = q
    /\ backup # "filtered"
    /\ adapters = "filtered" =>
         /\ backup = "original"
         /\ config.dns = "filtered" \/ \E o \in Ops : Applying(op[o])
    /\ \A o \in Ops : DnsOpOK(op[o], adapters, backup)

CfgInv == SettingsInv /\ DnsInv

\* The workers of a job that hold a file, and the files that have a result or
\* an error in the current target.
Busy(j) == {w \in Workers : j.worker[w] # NoFile}
Taken(j) == {j.files[i] : i \in 1..j.cursor}
Held(j) == {j.worker[w] : w \in Busy(j)}
DetectedIn(j) == {f \in Files : j.verdict[f] \in Detected}

\* While the workers share the list: each file was taken at most once, by one
\* worker, and counts when that worker is done with it.
ListShared(j) ==
  /\ j.cursor <= Len(j.files)
  /\ \A a, b \in DOMAIN j.files : j.files[a] = j.files[b] => a = b
  /\ j.entries + Cardinality(Busy(j)) + (Len(j.files) - j.cursor) = j.expected
  /\ \A v, w \in Busy(j) : j.worker[v] = j.worker[w] => v = w
  /\ Held(j) \subseteq Taken(j)
  /\ \A f \in Files : j.verdict[f] # "none" <=> f \in Taken(j) \ Held(j)

TargetPhases == {"opening", "listing", "scanning", "spawning", "verifying", "containing"}
JobOK(j) ==
  /\ j.phase \in TargetPhases => j.target \in 1..j.targets
  /\ j.phase \in {"idle", "discovering"} => j.target = 0 /\ j.flagged = {}
  /\ j.phase = "scanning" => ListShared(j)
  /\ j.phase # "scanning" => Busy(j) = {}
  /\ j.phase \in {"spawning", "verifying", "containing"} =>
       /\ j.entries = j.expected
       /\ \A i \in DOMAIN j.files : j.verdict[j.files[i]] # "none"
  /\ j.phase \in {"opening", "listing", "saving", "auditing"} => j.lost \/ j.flagged \subseteq j.report
  /\ j.phase \in {"scanning", "spawning", "verifying", "containing"} =>
       j.lost \/ j.flagged \subseteq j.report \union DetectedIn(j)
  /\ j.stopped => j.aborted
  /\ j.stopped /\ j.phase \in {"containing", "saving", "auditing"} => j.gap \/ j.targets = 0

ScanInv ==
  /\ ScanTypeOK /\ ActiveIsTheRunningJob
  /\ \A r \in Requests : JobOK(job[r])

-----------------------------------------------------------------------------
(* Operations and the settings they save.                                  *)

CfgFrame == <<config, memory, adapters, backup, disturbed>>

LEMMA SettingsAreRecords ==
  ASSUME NEW c \in Settings
  PROVE  /\ DOMAIN c = {"protection", "monitoring", "managed", "dns"}
         /\ \A s \in DOMAIN c : c[s] \in Values(s)
  BY DEF Settings, Values, Switch

LEMMA SettingsFrom ==
  ASSUME NEW f, DOMAIN f = {"protection", "monitoring", "managed", "dns"},
         f = [s \in DOMAIN f |-> f[s]], \A s \in DOMAIN f : f[s] \in Values(s)
  PROVE  f \in Settings
  BY DEF Settings, Values, Switch

LEMMA IdleOK ==
  /\ Idle(Factory) \in Op /\ OpOK(Idle(Factory))
  /\ Idle(Factory).kind = "none" /\ Idle(Factory).step = "idle"
  /\ \A c : Current(Idle(Factory), c)
<1>1. NoUpdate \in Updates /\ DOMAIN NoUpdate = {}
  <2>1. NoUpdate \in [{} -> Switch \union {"none", "filtered"}]
    BY DEF NoUpdate
  <2> QED BY <2>1 DEF Updates
<1>2. Factory \in Settings
  BY DEF Factory, Settings, Switch
<1>3. Idle(Factory) \in Op
  BY <1>1, <1>2 DEF Idle, Op, Kinds, Steps, Critical, Switch
<1>4. OpOK(Idle(Factory))
  BY <1>1 DEF Idle, OpOK, DnsKinds
<1> QED BY <1>3, <1>4 DEF Idle, Current

LEMMA InitSettings == CfgInit => CfgInv
<1> SUFFICES ASSUME CfgInit PROVE CfgInv
  OBVIOUS
<1>1. config \in Settings
  BY DEF CfgInit, Factory, Settings, Switch
<1>2. CfgTypeOK
  <2>1. op \in [Ops -> Op] /\ memory \in [Procs -> Settings]
    BY <1>1, IdleOK DEF CfgInit
  <2>2. disturbed \in BOOLEAN
    BY DEF CfgInit
  <2>3. starts \in 0..MaxStarts /\ restarts \in 0..MaxRestarts
    BY ConfigurationAssumption DEF CfgInit
  <2> QED BY <1>1, <2>1, <2>2, <2>3 DEF CfgInit, CfgTypeOK
<1>3. \A o \in Ops : OpOK(op[o]) /\ Current(op[o], config)
  BY IdleOK DEF CfgInit
<1>4. DnsInv
  BY IdleOK DEF CfgInit, DnsInv, DnsOpOK, DnsKinds
<1> QED BY <1>2, <1>3, <1>4 DEF CfgInv, SettingsInv

\* One operation changes, and not the file.
LEMMA OneOpMoves ==
  ASSUME SettingsInv, NEW o \in Ops, NEW y \in Op, OpOK(y), Current(y, config),
         op' = [op EXCEPT ![o] = y], UNCHANGED config,
         memory' \in [Procs -> Settings],
         adapters' \in {"original", "filtered"}, backup' \in {"absent", "original", "filtered"},
         starts' \in 0..MaxStarts, restarts' \in 0..MaxRestarts, disturbed' \in BOOLEAN
  PROVE  SettingsInv'
<1>1. CfgTypeOK'
  BY DEF SettingsInv, CfgTypeOK
<1>2. ASSUME NEW q \in Ops
      PROVE  OpOK(op'[q]) /\ Current(op'[q], config)
  <2>1. op'[q] = IF q = o THEN y ELSE op[q]
    BY DEF SettingsInv, CfgTypeOK
  <2> QED BY <2>1 DEF SettingsInv
<1>3. \A q \in Ops : OpOK(op[q])' /\ Current(op[q], config)'
  BY <1>2 DEF OpOK, Current, CriticalOf
<1> QED BY <1>1, <1>3 DEF SettingsInv

\* An operation ends, or its process does.
LEMMA OpEnds ==
  ASSUME SettingsInv, NEW o \in Ops, Ends(o), UNCHANGED <<config, memory, backup, starts, restarts>>,
         adapters' \in {"original", "filtered"}, disturbed' \in BOOLEAN
  PROVE  SettingsInv'
<1>1. op' = [op EXCEPT ![o] = Idle(Factory)]
  BY DEF Ends
<1> QED BY <1>1, IdleOK, OneOpMoves DEF SettingsInv, CfgTypeOK

-----------------------------------------------------------------------------
(* The settings: one lemma per action.                                     *)

LEMMA PatchSettings ==
  ASSUME SettingsInv, NEW o \in Ops, NEW p \in Procs, Patch(o, p)
  PROVE  SettingsInv'
<1>1. PICK c \in Critical, v \in Switch :
        Start(o, p, [Idle(Factory) EXCEPT
          !.kind = "patch", !.named = {c}, !.step = "authorise",
          !.update = [CriticalOf(memory[p]) EXCEPT ![c] = v],
          !.stale = CriticalOf(memory[p]) # CriticalOf(config)])
  BY DEF Patch
<1> DEFINE allowed == [CriticalOf(memory[p]) EXCEPT ![c] = v]
           y == [[Idle(Factory) EXCEPT
                   !.kind = "patch", !.named = {c}, !.step = "authorise",
                   !.update = allowed,
                   !.stale = CriticalOf(memory[p]) # CriticalOf(config)] EXCEPT !.proc = p]
<1>2. op' = [op EXCEPT ![o] = y] /\ starts < MaxStarts /\ starts' = starts + 1
      /\ UNCHANGED <<config, memory, adapters, backup, restarts, disturbed>>
  BY <1>1 DEF Start, Patch
<1>3. memory[p] \in Settings /\ Idle(Factory) \in Op
  BY IdleOK DEF SettingsInv, CfgTypeOK
<1>4. /\ allowed \in [Critical -> Switch] /\ DOMAIN allowed = Critical
      /\ \A s \in Critical \ {c} : allowed[s] = CriticalOf(memory[p])[s]
  BY <1>3 DEF CriticalOf, Critical, Settings, Switch
<1>5. allowed \in Updates
  <2>1. allowed \in [Critical -> Switch \union {"none", "filtered"}]
    BY <1>4
  <2> QED BY <2>1 DEF Updates
<1> HIDE DEF allowed
<1>6. y \in Op
  BY <1>3, <1>5 DEF Op, Kinds, Steps, Critical
<1>7. /\ y.kind = "patch" /\ y.named = {c} /\ y.update = allowed /\ y.proc = p
      /\ y.step = "authorise" /\ y.stale = (CriticalOf(memory[p]) # CriticalOf(config))
  BY <1>3 DEF Op
<1> HIDE DEF y
<1>8. OpOK(y)
  BY <1>4, <1>7 DEF OpOK, DnsKinds, Critical, Values
<1>9. ASSUME ~y.stale
      PROVE  \A s \in Critical \ y.named : y.update[s] = config[s]
  <2>1. CriticalOf(memory[p]) = CriticalOf(config)
    BY <1>7, <1>9
  <2>2. \A s \in Critical : CriticalOf(config)[s] = config[s]
    BY DEF CriticalOf
  <2> QED BY <1>4, <1>7, <2>1, <2>2
<1>10. Current(y, config)
  BY <1>7, <1>9 DEF Current
<1> QED BY <1>2, <1>6, <1>8, <1>10, OneOpMoves, ConfigurationAssumption DEF SettingsInv, CfgTypeOK

\* An operation begins that saves what it names.
LEMMA SaverStarts ==
  ASSUME SettingsInv, NEW o \in Ops, NEW p \in Procs, NEW k \in {"fix-all", "manage"} \union DnsKinds,
         NEW n \in {Critical, {"managed"}, {"dns"}}, NEW u \in [n -> Switch \union {"none", "filtered"}],
         NEW first \in {"load", "authorise"},
         Start(o, p, [Idle(Factory) EXCEPT !.kind = k, !.named = n, !.step = first, !.update = u]),
         k \in DnsKinds <=> n = {"dns"}, first = "authorise" => k \in DnsKinds,
         \A s \in n : u[s] \in Values(s), disturbed' \in BOOLEAN
  PROVE  SettingsInv'
<1> DEFINE y == [[Idle(Factory) EXCEPT !.kind = k, !.named = n, !.step = first, !.update = u]
                   EXCEPT !.proc = p]
<1>1. op' = [op EXCEPT ![o] = y] /\ starts < MaxStarts /\ starts' = starts + 1
      /\ UNCHANGED <<config, memory, adapters, backup, restarts>>
  BY DEF Start
<1>2. y \in Op
  <2>1. u \in Updates
    BY DEF Updates
  <2>2. n \in SUBSET {"protection", "monitoring", "managed", "dns"}
    BY DEF Critical
  <2> QED BY <2>1, <2>2, IdleOK DEF Op, Kinds, Steps, DnsKinds
<1>3. y.kind = k /\ y.named = n /\ y.update = u /\ y.proc = p /\ y.step = first
  BY IdleOK DEF Op
<1> HIDE DEF y
<1>4. OpOK(y) /\ Current(y, config)
  BY <1>3 DEF OpOK, Current, DnsKinds, Critical
<1> QED BY <1>1, <1>2, <1>4, OneOpMoves, ConfigurationAssumption DEF SettingsInv, CfgTypeOK

LEMMA StartSettings ==
  ASSUME SettingsInv, NEW o \in Ops, NEW p \in Procs, FixAll(o, p) \/ Manage(o, p) \/ ChangeDns(o, p)
  PROVE  SettingsInv'
<1>1. CASE FixAll(o, p)
  <2> DEFINE u == [c \in Critical |-> "on"]
  <2>1. u \in [Critical -> Switch \union {"none", "filtered"}] /\ \A s \in Critical : u[s] \in Values(s)
    BY DEF Switch, Values, Critical
  <2>2. Start(o, p, [Idle(Factory) EXCEPT !.kind = "fix-all", !.named = Critical, !.step = "load",
                                          !.update = u]) /\ disturbed' \in BOOLEAN
    BY <1>1 DEF FixAll, SettingsInv, CfgTypeOK
  <2>3. Critical # {"dns"}
    BY DEF Critical
  <2> HIDE DEF u
  <2> QED BY <2>1, <2>2, <2>3, SaverStarts DEF DnsKinds
<1>2. CASE Manage(o, p)
  <2>1. PICK v \in Switch :
          Start(o, p, [Idle(Factory) EXCEPT !.kind = "manage", !.named = {"managed"}, !.step = "load",
                                            !.update = [s \in {"managed"} |-> v]])
    BY <1>2 DEF Manage
  <2>2. disturbed' \in BOOLEAN
    BY <1>2 DEF Manage, SettingsInv, CfgTypeOK
  <2> DEFINE u == [s \in {"managed"} |-> v]
  <2>3. u \in [{"managed"} -> Switch \union {"none", "filtered"}]
        /\ \A s \in {"managed"} : u[s] \in Values(s)
    BY DEF Switch, Values
  <2> HIDE DEF u
  <2> QED BY <2>1, <2>2, <2>3, SaverStarts DEF DnsKinds, u
<1>3. CASE ChangeDns(o, p)
  <2>1. PICK k \in DnsKinds :
          Start(o, p, [Idle(Factory) EXCEPT !.kind = k, !.named = {"dns"}, !.step = "authorise",
            !.update = [s \in {"dns"} |-> IF k = "dns.apply" THEN "filtered" ELSE "none"]])
    BY <1>3 DEF ChangeDns
  <2>2. disturbed' \in BOOLEAN
    BY <1>3 DEF ChangeDns, SettingsInv, CfgTypeOK
  <2> DEFINE u == [s \in {"dns"} |-> IF k = "dns.apply" THEN "filtered" ELSE "none"]
  <2>3. u \in [{"dns"} -> Switch \union {"none", "filtered"}] /\ \A s \in {"dns"} : u[s] \in Values(s)
    BY DEF Switch, Values
  <2> HIDE DEF u
  <2> QED BY <2>1, <2>2, <2>3, SaverStarts DEF u
<1> QED BY <1>1, <1>2, <1>3

\* An operation under way takes a step that leaves the file alone.
LEMMA OpGoesOn ==
  ASSUME SettingsInv, NEW o \in Ops, NEW y \in Op, op' = [op EXCEPT ![o] = y],
         op[o].kind # "none", y.step \notin {"idle", "authorise"},
         y.kind = op[o].kind, y.proc = op[o].proc, y.update = op[o].update,
         y.named = op[o].named, y.stale = op[o].stale, y.raced = op[o].raced,
         y.step \in {"adapters", "backup", "apply"} => y.kind = "dns.apply",
         y.step \in {"restore", "remove"} => y.kind = "dns.restore",
         y.step = "replace" => y.read = config,
         y.authorised \/ (op[o].step # "authorise" /\ y.authorised = op[o].authorised),
         UNCHANGED <<config, memory, starts, restarts>>,
         adapters' \in {"original", "filtered"}, backup' \in {"absent", "original", "filtered"},
         disturbed' \in BOOLEAN
  PROVE  SettingsInv'
<1>1. OpOK(op[o]) /\ Current(op[o], config) /\ op[o] \in Op
  BY DEF SettingsInv, CfgTypeOK
<1>2. OpOK(y)
  BY <1>1 DEF OpOK
<1>3. Current(y, config)
  BY <1>1 DEF Current
<1> QED BY <1>2, <1>3, OneOpMoves DEF SettingsInv, CfgTypeOK

LEMMA AuthoriseSettings ==
  ASSUME SettingsInv, NEW o \in Ops, Authorise(o)
  PROVE  SettingsInv'
<1>1. op[o] \in Op /\ OpOK(op[o]) /\ op[o].step = "authorise" /\ disturbed \in BOOLEAN
  BY DEF Authorise, SettingsInv, CfgTypeOK
<1>2. op[o].kind \in {"patch", "dns.apply", "dns.restore"} /\ op[o].proc \in Procs
  BY <1>1 DEF OpOK, DnsKinds
<1>3. CASE Ends(o) /\ UNCHANGED disturbed
  BY <1>1, <1>3, OpEnds DEF Authorise, dnsVars, SettingsInv, CfgTypeOK
<1>4. CASE ~(Ends(o) /\ UNCHANGED disturbed)
  <2> DEFINE y == [op[o] EXCEPT !.step = FirstStep[op[o].kind],
                                !.preserve = memory[op[o].proc].dns # "none", !.authorised = TRUE]
  <2>1. /\ op' = [op EXCEPT ![o] = y] /\ UNCHANGED <<config, memory, adapters, backup, starts, restarts>>
        /\ disturbed' = (disturbed \/ (op[o].kind = "dns.apply" /\ memory[op[o].proc].dns # config.dns))
    BY <1>4 DEF Authorise, dnsVars
  <2>2. FirstStep[op[o].kind] = CASE op[o].kind = "patch" -> "load"
                                  [] op[o].kind = "dns.apply" -> "adapters" [] OTHER -> "restore"
    BY <1>2 DEF FirstStep
  <2>3. FirstStep[op[o].kind] \in Steps
    BY <2>2 DEF Steps
  <2>4. y \in Op
    BY <1>1, <2>3 DEF Op
  <2>5. /\ y.kind = op[o].kind /\ y.proc = op[o].proc /\ y.update = op[o].update
        /\ y.named = op[o].named /\ y.stale = op[o].stale /\ y.raced = op[o].raced
        /\ y.authorised = TRUE /\ y.step = FirstStep[op[o].kind]
    BY <1>1 DEF Op
  <2>6. disturbed' \in BOOLEAN
    BY <2>1
  <2> HIDE DEF y
  <2>7. /\ y.step \in {"adapters", "backup", "apply"} => y.kind = "dns.apply"
        /\ y.step \in {"restore", "remove"} => y.kind = "dns.restore"
        /\ y.step \notin {"idle", "authorise", "replace"} /\ y.authorised /\ op[o].kind # "none"
    BY <1>2, <2>2, <2>5
  <2> QED BY <2>1, <2>4, <2>5, <2>6, <2>7, OpGoesOn DEF SettingsInv, CfgTypeOK
<1> QED BY <1>3, <1>4

LEMMA LoadSettings ==
  ASSUME SettingsInv, NEW o \in Ops, Load(o)
  PROVE  SettingsInv'
<1> DEFINE y == [op[o] EXCEPT !.step = "replace", !.read = config]
<1>1. op[o] \in Op /\ OpOK(op[o]) /\ op[o].step = "load" /\ config \in Settings
  BY DEF Load, SettingsInv, CfgTypeOK
<1>2. op' = [op EXCEPT ![o] = y] /\ UNCHANGED <<config, memory, adapters, backup, starts, restarts, disturbed>>
  BY DEF Load, dnsVars
<1>3. y \in Op
  BY <1>1 DEF Op, Steps
<1>4. /\ y.kind = op[o].kind /\ y.proc = op[o].proc /\ y.update = op[o].update
      /\ y.named = op[o].named /\ y.stale = op[o].stale /\ y.raced = op[o].raced
      /\ y.authorised = op[o].authorised /\ y.step = "replace" /\ y.read = config
  BY <1>1 DEF Op
<1>5. op[o].kind # "none"
  BY <1>1 DEF OpOK
<1> HIDE DEF y
<1> QED BY <1>1, <1>2, <1>3, <1>4, <1>5, OpGoesOn DEF SettingsInv, CfgTypeOK

\* What a save writes.
LEMMA MergeOK ==
  ASSUME SettingsInv, NEW o \in Ops, op[o].step = "replace"
  PROVE  /\ Merge(o) \in Settings
         /\ \A s \in DOMAIN op[o].read :
              Merge(o)[s] = IF s \in DOMAIN op[o].update THEN op[o].update[s] ELSE op[o].read[s]
<1>1. op[o] \in Op /\ op[o].read \in Settings /\ OpOK(op[o])
  BY DEF SettingsInv, CfgTypeOK, Op
<1>2. DOMAIN op[o].read = {"protection", "monitoring", "managed", "dns"}
      /\ \A s \in DOMAIN op[o].read : op[o].read[s] \in Values(s)
  BY <1>1, SettingsAreRecords
<1>3. \A s \in DOMAIN op[o].update : op[o].update[s] \in Values(s)
  BY <1>1 DEF OpOK
<1>4. /\ DOMAIN Merge(o) = DOMAIN op[o].read
      /\ \A s \in DOMAIN op[o].read :
           Merge(o)[s] = IF s \in DOMAIN op[o].update THEN op[o].update[s] ELSE op[o].read[s]
      /\ Merge(o) = [s \in DOMAIN Merge(o) |-> Merge(o)[s]]
  BY DEF Merge
<1>5. Merge(o) \in Settings
  BY <1>2, <1>3, <1>4, SettingsFrom
<1> QED BY <1>4, <1>5

LEMMA ReplaceSettings ==
  ASSUME SettingsInv, NEW o \in Ops, Replace(o)
  PROVE  SettingsInv'
<1>1. op[o] \in Op /\ OpOK(op[o]) /\ op[o].step = "replace" /\ disturbed \in BOOLEAN
      /\ op[o].proc \in Procs /\ memory \in [Procs -> Settings]
  BY DEF Replace, SettingsInv, CfgTypeOK, OpOK
<1>2. CASE Ends(o) /\ UNCHANGED <<config, memory>>
  <2>1. disturbed' \in BOOLEAN
    BY <1>1 DEF Replace
  <2> QED BY <1>2, <2>1, OpEnds DEF Replace, dnsVars, SettingsInv, CfgTypeOK
<1>3. CASE ~(Ends(o) /\ UNCHANGED <<config, memory>>)
  <2>1. /\ config' = Merge(o) /\ memory' = [memory EXCEPT ![op[o].proc] = Merge(o)]
        /\ op' = [q \in Ops |-> IF q = o THEN Idle(Factory) ELSE Overtaken(q)]
        /\ disturbed' = (disturbed \/ ("dns" \notin op[o].named /\ Merge(o).dns # config.dns))
        /\ UNCHANGED <<adapters, backup, starts, restarts>>
    BY <1>3 DEF Replace, dnsVars
  <2>2. config' \in Settings /\ memory' \in [Procs -> Settings]
    BY <1>1, <2>1, MergeOK
  <2>3. disturbed' \in BOOLEAN
    BY <1>1, <2>1
  <2>4. ASSUME NEW q \in Ops, q # o
        PROVE  op'[q] \in Op /\ OpOK(op'[q]) /\ \A c : Current(op'[q], c)
    <3> DEFINE y == Overtaken(q)
    <3>1. op[q] \in Op /\ OpOK(op[q]) /\ op'[q] = y
      BY <2>1, <2>4 DEF SettingsInv, CfgTypeOK
    <3>2. (op[q].stale \/ op[q].kind = "patch") \in BOOLEAN
          /\ (op[q].raced \/ op[q].step = "replace") \in BOOLEAN
      BY <3>1 DEF Op
    <3>3. y \in Op
      BY <3>1, <3>2 DEF Op, Overtaken
    <3>4. /\ y.kind = op[q].kind /\ y.proc = op[q].proc /\ y.update = op[q].update
          /\ y.named = op[q].named /\ y.step = op[q].step /\ y.authorised = op[q].authorised
          /\ y.stale = (op[q].stale \/ op[q].kind = "patch")
          /\ y.raced = (op[q].raced \/ op[q].step = "replace")
      BY <3>1 DEF Op, Overtaken
    <3>9. op[q].kind = "patch" => op[q].step = "authorise" \/ op[q].authorised
      BY DEF SettingsInv, Current
    <3> HIDE DEF y
    <3>5. OpOK(y)
      BY <3>1, <3>4 DEF OpOK
    <3>6. /\ y.kind = "patch" => y.stale /\ (y.step = "authorise" \/ y.authorised)
          /\ y.step = "replace" => y.raced
      BY <3>4, <3>9
    <3>7. ASSUME NEW c PROVE Current(y, c)
      BY <3>6 DEF Current
    <3> QED BY <3>1, <3>3, <3>5, <3>7
  <2>5. \A q \in Ops : op'[q] \in Op /\ OpOK(op'[q]) /\ \A c : Current(op'[q], c)
    BY <2>1, <2>4, IdleOK
  <2>6. op' \in [Ops -> Op]
    BY <2>1, <2>5
  <2>7. CfgTypeOK'
    BY <2>1, <2>2, <2>3, <2>6 DEF SettingsInv, CfgTypeOK
  <2>8. \A q \in Ops : OpOK(op[q])' /\ Current(op[q], config)'
    BY <2>5 DEF OpOK, Current, CriticalOf
  <2> QED BY <2>7, <2>8 DEF SettingsInv
<1> QED BY <1>2, <1>3

LEMMA DnsStepsSettings ==
  ASSUME SettingsInv, NEW o \in Ops,
         ListAdapters(o) \/ SaveBackup(o) \/ ApplyHelper(o) \/ RestoreHelper(o) \/ RemoveBackup(o)
  PROVE  SettingsInv'
<1>1. /\ op[o] \in Op /\ OpOK(op[o]) /\ disturbed \in BOOLEAN
      /\ adapters \in {"original", "filtered"} /\ backup \in {"absent", "original", "filtered"}
  BY DEF SettingsInv, CfgTypeOK
<1>2. /\ op[o].step \in {"adapters", "backup", "apply", "restore", "remove"} /\ op[o].kind # "none"
      /\ op[o].step \in {"adapters", "backup", "apply"} => op[o].kind = "dns.apply"
      /\ op[o].step \in {"restore", "remove"} => op[o].kind = "dns.restore"
  BY <1>1 DEF ListAdapters, SaveBackup, ApplyHelper, RestoreHelper, RemoveBackup, OpOK
<1>3. /\ UNCHANGED <<config, memory, starts, restarts>> /\ disturbed' \in BOOLEAN
      /\ adapters' \in {"original", "filtered"} /\ backup' \in {"absent", "original", "filtered"}
  <2>1. UNCHANGED <<config, memory, starts, restarts>>
    BY DEF ListAdapters, SaveBackup, ApplyHelper, RestoreHelper, RemoveBackup
  <2>2. disturbed' \in BOOLEAN
    BY <1>1 DEF ListAdapters, SaveBackup, ApplyHelper, RestoreHelper, RemoveBackup
  <2>3. adapters' \in {"original", "filtered"}
    BY <1>1 DEF ListAdapters, SaveBackup, ApplyHelper, RestoreHelper, RemoveBackup, dnsVars
  <2>4. backup' \in {"absent", "original", "filtered"}
    <3>1. op[o].seen \in {"original", "filtered"}
      BY <1>1 DEF Op
    <3> QED BY <1>1, <3>1 DEF ListAdapters, SaveBackup, ApplyHelper, RestoreHelper, RemoveBackup, dnsVars
  <2> QED BY <2>1, <2>2, <2>3, <2>4
<1>4. CASE Ends(o) /\ UNCHANGED backup
  BY <1>3, <1>4, OpEnds
<1>5. ASSUME NEW t \in {"backup", "apply", "load", "remove"}, NEW a \in {"original", "filtered"},
             op' = [op EXCEPT ![o] = [op[o] EXCEPT !.step = t, !.seen = a]],
             t \in {"backup", "apply"} => op[o].kind = "dns.apply",
             t = "remove" => op[o].kind = "dns.restore"
      PROVE  SettingsInv'
  <2> DEFINE y == [op[o] EXCEPT !.step = t, !.seen = a]
  <2>1. y \in Op
    BY <1>1 DEF Op, Steps
  <2>2. /\ y.kind = op[o].kind /\ y.proc = op[o].proc /\ y.update = op[o].update
        /\ y.named = op[o].named /\ y.stale = op[o].stale /\ y.raced = op[o].raced
        /\ y.authorised = op[o].authorised /\ y.step = t
    BY <1>1 DEF Op
  <2> HIDE DEF y
  <2>3. op' = [op EXCEPT ![o] = y]
    BY <1>5 DEF y
  <2>4. /\ y.step \notin {"idle", "authorise", "replace"}
        /\ y.step \in {"adapters", "backup", "apply"} => y.kind = "dns.apply"
        /\ y.step \in {"restore", "remove"} => y.kind = "dns.restore"
        /\ op[o].step # "authorise"
    BY <1>2, <1>5, <2>2
  <2> QED BY <1>2, <1>3, <2>1, <2>2, <2>3, <2>4, OpGoesOn
<1>6. ASSUME NEW t, op' = [op EXCEPT ![o].step = t]
      PROVE  op' = [op EXCEPT ![o] = [op[o] EXCEPT !.step = t, !.seen = op[o].seen]]
             /\ op[o].seen \in {"original", "filtered"}
  BY <1>1, <1>6 DEF Op, SettingsInv, CfgTypeOK
<1>7. CASE ListAdapters(o)
  <2>1. CASE ~Ends(o)
    <3>1. op' = [op EXCEPT ![o] = [op[o] EXCEPT !.step = "backup", !.seen = adapters]]
      BY <1>7, <2>1 DEF ListAdapters
    <3>2. op[o].kind = "dns.apply"
      BY <1>2, <1>7 DEF ListAdapters
    <3> QED BY <1>1, <1>5, <3>1, <3>2
  <2> QED BY <1>4, <1>7, <2>1 DEF ListAdapters, dnsVars
<1>8. CASE SaveBackup(o)
  <2>1. op' = [op EXCEPT ![o].step = "apply"] /\ op[o].kind = "dns.apply"
    BY <1>2, <1>8 DEF SaveBackup
  <2> QED BY <1>5, <1>6, <2>1
<1>9. CASE ApplyHelper(o)
  <2>1. CASE ~Ends(o)
    <3>1. op' = [op EXCEPT ![o].step = "load"]
      BY <1>9, <2>1 DEF ApplyHelper
    <3>2. /\ op' = [op EXCEPT ![o] = [op[o] EXCEPT !.step = "load", !.seen = op[o].seen]]
          /\ op[o].seen \in {"original", "filtered"}
      BY <1>6, <3>1
    <3> QED BY <1>5, <3>2
  <2> QED BY <1>4, <1>9, <2>1 DEF ApplyHelper
<1>10. CASE RestoreHelper(o)
  <2>1. CASE ~Ends(o)
    <3>1. op' = [op EXCEPT ![o].step = "remove"] /\ op[o].kind = "dns.restore"
      BY <1>2, <1>10, <2>1 DEF RestoreHelper
    <3> QED BY <1>5, <1>6, <3>1
  <2> QED BY <1>4, <1>10, <2>1 DEF RestoreHelper
<1>11. CASE RemoveBackup(o)
  <2>1. op' = [op EXCEPT ![o].step = "load"]
    BY <1>11 DEF RemoveBackup
  <2> QED BY <1>5, <1>6, <2>1
<1> QED BY <1>7, <1>8, <1>9, <1>10, <1>11

LEMMA RestartSettings ==
  ASSUME SettingsInv, NEW p \in Procs, Restart(p)
  PROVE  SettingsInv'
<1>1. /\ restarts < MaxRestarts /\ restarts' = restarts + 1
      /\ memory' = [memory EXCEPT ![p] = config]
      /\ op' = [o \in Ops |-> IF op[o].proc = p THEN Idle(Factory) ELSE op[o]]
      /\ UNCHANGED <<config, adapters, backup, starts>>
  BY DEF Restart, dnsVars
<1>2. disturbed' \in BOOLEAN
  BY DEF Restart
<1>3. \A o \in Ops : op'[o] = Idle(Factory) \/ op'[o] = op[o]
  BY <1>1
<1>4. op' \in [Ops -> Op]
  BY <1>1, IdleOK DEF SettingsInv, CfgTypeOK
<1>5. CfgTypeOK'
  BY <1>1, <1>2, <1>4, ConfigurationAssumption DEF SettingsInv, CfgTypeOK
<1>6. \A o \in Ops : OpOK(op'[o]) /\ Current(op'[o], config)
  BY <1>3, IdleOK DEF SettingsInv
<1>7. \A o \in Ops : OpOK(op[o])' /\ Current(op[o], config)'
  BY <1>1, <1>6 DEF OpOK, Current, CriticalOf
<1> QED BY <1>5, <1>7 DEF SettingsInv

LEMMA SettingsStep ==
  ASSUME SettingsInv, CfgNext
  PROVE  SettingsInv'
<1>1. ASSUME NEW o \in Ops, OpStep(o)
      PROVE  SettingsInv'
  BY <1>1, AuthoriseSettings, LoadSettings, ReplaceSettings, DnsStepsSettings DEF OpStep
<1> QED BY <1>1, PatchSettings, StartSettings, RestartSettings DEF CfgNext

-----------------------------------------------------------------------------
(* DNS filtering.                                                          *)

\* As far as DNS filtering is concerned, the operations x and y are the same.
SameDns(x, y) ==
  /\ x.kind = y.kind /\ x.step = y.step /\ x.preserve = y.preserve
  /\ x.seen = y.seen /\ x.update = y.update

\* No DNS operation moves, though one that changed nothing may end.
LEMMA DnsStays ==
  ASSUME DnsInv, ~disturbed, config'.dns = config.dns, UNCHANGED <<adapters, backup>>,
         \A q \in Ops : \/ SameDns(op'[q], op[q])
                        \/ op'[q].kind \notin DnsKinds /\ ~Applying(op[q])
  PROVE  DnsInv'
<1>1. \A q \in Ops : /\ op'[q].kind \in DnsKinds => op[q].kind \in DnsKinds
                     /\ Applying(op[q]) => Applying(op'[q])
                     /\ DnsOpOK(op'[q], adapters, backup)
  BY DEF DnsInv, SameDns, DnsKinds, Applying, DnsOpOK
<1>2. \A q \in Ops : Applying(op'[q]) <=> Applying(op[q])'
  BY DEF Applying
<1>3. \A q \in Ops : DnsOpOK(op'[q], adapters', backup') <=> DnsOpOK(op[q], adapters, backup)'
  BY DEF DnsOpOK
<1> QED BY <1>1, <1>2, <1>3 DEF DnsInv, DnsKinds

\* The only DNS operation moves.
LEMMA DnsMoves ==
  ASSUME SettingsInv, NEW o \in Ops, DnsOpOK(op'[o], adapters', backup'),
         \A q \in Ops \ {o} : op[q].kind \notin DnsKinds /\ op'[q].kind = op[q].kind,
         backup' # "filtered",
         adapters' = "filtered" =>
           backup' = "original" /\ (config'.dns = "filtered" \/ Applying(op'[o]))
  PROVE  DnsInv'
<1>1. \A q \in Ops \ {o} : op'[q].kind \notin DnsKinds /\ DnsOpOK(op'[q], adapters', backup')
  BY DEF DnsOpOK, DnsKinds
<1>2. \A q \in Ops : Applying(op'[q]) <=> Applying(op[q])'
  BY DEF Applying
<1>3. \A q \in Ops : DnsOpOK(op'[q], adapters', backup') <=> DnsOpOK(op[q], adapters, backup)'
  BY DEF DnsOpOK
<1> QED BY <1>1, <1>2, <1>3 DEF DnsInv, DnsKinds

LEMMA StartDns ==
  ASSUME SettingsInv, DnsInv, ~disturbed', NEW o \in Ops, NEW p \in Procs,
         Patch(o, p) \/ FixAll(o, p) \/ Manage(o, p) \/ ChangeDns(o, p)
  PROVE  DnsInv'
<1>1. /\ op \in [Ops -> Op] /\ op[o] \in Op /\ op[o].step = "idle" /\ op[o].kind = "none"
      /\ \A q \in Ops \ {o} : op'[q] = op[q]
      /\ UNCHANGED <<config, adapters, backup>>
  BY DEF Patch, FixAll, Manage, ChangeDns, Start, SettingsInv, CfgTypeOK, OpOK
<1>2. ASSUME UNCHANGED disturbed, op'[o].kind \in {"patch", "fix-all", "manage"}
      PROVE  DnsInv'
  <2>1. \A q \in Ops : \/ SameDns(op'[q], op[q])
                       \/ op'[q].kind \notin DnsKinds /\ ~Applying(op[q])
    BY <1>1, <1>2 DEF SameDns, DnsKinds, Applying
  <2> QED BY <1>1, <1>2, <2>1, DnsStays
<1>3. CASE Patch(o, p)
  <2>1. PICK c \in Critical, v \in Switch :
          op' = [op EXCEPT ![o] = [[Idle(Factory) EXCEPT
            !.kind = "patch", !.named = {c}, !.step = "authorise",
            !.update = [CriticalOf(memory[p]) EXCEPT ![c] = v],
            !.stale = CriticalOf(memory[p]) # CriticalOf(config)] EXCEPT !.proc = p]]
    BY <1>3 DEF Patch, Start
  <2>2. op'[o].kind = "patch"
    BY <1>1, <2>1 DEF Idle
  <2> QED BY <1>2, <1>3, <2>2 DEF Patch
<1>4. CASE FixAll(o, p)
  <2>1. op'[o].kind = "fix-all"
    BY <1>1, <1>4 DEF FixAll, Start, Idle
  <2> QED BY <1>2, <1>4, <2>1 DEF FixAll
<1>5. CASE Manage(o, p)
  <2>1. op'[o].kind = "manage"
    BY <1>1, <1>5 DEF Manage, Start, Idle
  <2> QED BY <1>2, <1>5, <2>1 DEF Manage
<1>6. CASE ChangeDns(o, p)
  <2>1. PICK k \in DnsKinds :
          op' = [op EXCEPT ![o] =
            [[Idle(Factory) EXCEPT !.kind = k, !.named = {"dns"}, !.step = "authorise",
               !.update = [s \in {"dns"} |-> IF k = "dns.apply" THEN "filtered" ELSE "none"]]
             EXCEPT !.proc = p]]
    BY <1>6 DEF ChangeDns, Start
  <2>2. /\ op'[o].kind = k /\ op'[o].step = "authorise"
        /\ op'[o].update["dns"] = IF k = "dns.apply" THEN "filtered" ELSE "none"
    BY <1>1, <2>1 DEF Idle
  <2>3. ~disturbed /\ \A q \in Ops : op[q].kind \notin DnsKinds
    BY <1>6 DEF ChangeDns
  <2>4. DnsOpOK(op'[o], adapters', backup')
    BY <2>2 DEF DnsOpOK
  <2>5. \A q \in Ops : ~Applying(op[q])
    BY <2>3 DEF Applying, DnsKinds
  <2> QED BY <1>1, <2>3, <2>4, <2>5, DnsMoves DEF DnsInv
<1> QED BY <1>3, <1>4, <1>5, <1>6

LEMMA AuthoriseDns ==
  ASSUME SettingsInv, DnsInv, ~disturbed', NEW o \in Ops, Authorise(o)
  PROVE  DnsInv'
<1>1. /\ op \in [Ops -> Op] /\ op[o] \in Op /\ OpOK(op[o]) /\ op[o].step = "authorise"
      /\ ~disturbed /\ UNCHANGED <<config, adapters, backup>>
      /\ \A q \in Ops \ {o} : op'[q] = op[q]
  BY DEF Authorise, SettingsInv, CfgTypeOK, dnsVars, Ends
<1>2. ~Applying(op[o]) /\ op[o].kind \in {"patch", "dns.apply", "dns.restore"}
  BY <1>1 DEF Applying, OpOK, DnsKinds
<1>3. ASSUME op'[o].kind \notin DnsKinds
      PROVE  DnsInv'
  <2>1. \A q \in Ops : \/ SameDns(op'[q], op[q])
                       \/ op'[q].kind \notin DnsKinds /\ ~Applying(op[q])
    BY <1>1, <1>2, <1>3 DEF SameDns
  <2> QED BY <1>1, <2>1, DnsStays
<1>4. CASE Ends(o)
  <2>1. op'[o].kind = "none"
    BY <1>1, <1>4, IdleOK DEF Ends
  <2> QED BY <1>3, <2>1 DEF DnsKinds
<1>5. CASE ~Ends(o)
  <2>1. /\ op'[o] = [op[o] EXCEPT !.step = FirstStep[op[o].kind],
                                  !.preserve = memory[op[o].proc].dns # "none",
                                  !.authorised = TRUE]
        /\ op[o].kind = "dns.apply" => memory[op[o].proc].dns = config.dns
    BY <1>1, <1>5 DEF Authorise
  <2>2. FirstStep[op[o].kind] = CASE op[o].kind = "patch" -> "load"
                                  [] op[o].kind = "dns.apply" -> "adapters" [] OTHER -> "restore"
    BY <1>2 DEF FirstStep
  <2>3. /\ op'[o].kind = op[o].kind /\ op'[o].update = op[o].update
        /\ op'[o].step = FirstStep[op[o].kind]
        /\ op'[o].preserve = (memory[op[o].proc].dns # "none")
    BY <1>1, <2>1 DEF Op
  <2>4. CASE op[o].kind = "patch"
    BY <1>3, <2>3, <2>4 DEF DnsKinds
  <2>5. CASE op[o].kind \in DnsKinds
    <3>1. \A q \in Ops \ {o} : op[q].kind \notin DnsKinds
      BY <1>1, <2>5 DEF DnsInv
    <3>2. adapters = "filtered" => backup = "original" /\ config.dns = "filtered"
      BY <1>1, <1>2, <3>1 DEF DnsInv, Applying, DnsKinds
    <3>3. DnsOpOK(op[o], adapters, backup)
      BY <1>1 DEF DnsInv
    <3>4. op[o].kind = "dns.apply" /\ adapters = "filtered" => op'[o].preserve
      BY <2>1, <2>3, <3>2
    <3>5. DnsOpOK(op'[o], adapters', backup')
      BY <1>1, <2>2, <2>3, <2>5, <3>3, <3>4 DEF DnsOpOK, DnsKinds
    <3>6. backup # "filtered"
      BY <1>1 DEF DnsInv
    <3> QED BY <1>1, <3>1, <3>2, <3>5, <3>6, DnsMoves
  <2> QED BY <1>2, <2>4, <2>5 DEF DnsKinds
<1> QED BY <1>4, <1>5

LEMMA LoadDns ==
  ASSUME SettingsInv, DnsInv, ~disturbed', NEW o \in Ops, Load(o)
  PROVE  DnsInv'
<1>1. /\ op \in [Ops -> Op] /\ op[o] \in Op /\ op[o].step = "load"
      /\ ~disturbed /\ UNCHANGED <<config, adapters, backup>>
      /\ \A q \in Ops \ {o} : op'[q] = op[q]
      /\ op'[o] = [op[o] EXCEPT !.step = "replace", !.read = config]
  BY DEF Load, SettingsInv, CfgTypeOK, dnsVars
<1>2. /\ op'[o].kind = op[o].kind /\ op'[o].update = op[o].update /\ op'[o].step = "replace"
  BY <1>1 DEF Op
<1>3. CASE op[o].kind \notin DnsKinds
  <2>1. \A q \in Ops : \/ SameDns(op'[q], op[q])
                       \/ op'[q].kind \notin DnsKinds /\ ~Applying(op[q])
    BY <1>1, <1>2, <1>3 DEF SameDns, Applying, DnsKinds
  <2> QED BY <1>1, <2>1, DnsStays
<1>4. CASE op[o].kind \in DnsKinds
  <2>1. \A q \in Ops \ {o} : op[q].kind \notin DnsKinds
    BY <1>1, <1>4 DEF DnsInv
  <2>2. DnsOpOK(op[o], adapters, backup) /\ backup # "filtered"
    BY <1>1 DEF DnsInv
  <2>3. DnsOpOK(op'[o], adapters', backup')
    BY <1>1, <1>2, <1>4, <2>2 DEF DnsOpOK, DnsKinds
  <2>4. adapters = "filtered" => backup = "original" /\ (config.dns = "filtered" \/ Applying(op[o]))
    BY <1>1, <2>1 DEF DnsInv, Applying, DnsKinds
  <2>5. Applying(op[o]) => Applying(op'[o])
    BY <1>2 DEF Applying
  <2> QED BY <1>1, <2>1, <2>2, <2>3, <2>4, <2>5, DnsMoves
<1> QED BY <1>3, <1>4

LEMMA ReplaceDns ==
  ASSUME SettingsInv, DnsInv, ~disturbed', NEW o \in Ops, Replace(o)
  PROVE  DnsInv'
<1>1. /\ op \in [Ops -> Op] /\ op[o] \in Op /\ OpOK(op[o]) /\ op[o].step = "replace"
      /\ ~disturbed /\ UNCHANGED <<adapters, backup>>
  BY DEF Replace, SettingsInv, CfgTypeOK, dnsVars
<1>2. op'[o].kind = "none" /\ \A q \in Ops \ {o} : SameDns(op'[q], op[q])
  <2>1. CASE Ends(o)
    BY <1>1, <2>1, IdleOK DEF Ends, SameDns
  <2>2. CASE ~Ends(o)
    <3>1. op' = [q \in Ops |-> IF q = o THEN Idle(Factory) ELSE Overtaken(q)]
      BY <2>2 DEF Replace
    <3>2. op'[o].kind = "none"
      BY <3>1, IdleOK
    <3>3. ASSUME NEW q \in Ops \ {o}
          PROVE  SameDns(op'[q], op[q])
      <4>1. op'[q] = Overtaken(q) /\ op[q] \in Op
        BY <1>1, <3>1
      <4> QED BY <4>1 DEF SameDns, Op, Overtaken
    <3> QED BY <3>2, <3>3
  <2> QED BY <2>1, <2>2
<1>3. CASE op[o].kind \notin DnsKinds
  <2>1. config'.dns = config.dns
    <3>1. CASE UNCHANGED config
      BY <3>1
    <3>2. CASE ~UNCHANGED config
      <4>1. "dns" \notin op[o].named
        BY <1>1, <1>3 DEF OpOK
      <4> QED BY <3>2, <4>1 DEF Replace
    <3> QED BY <3>1, <3>2
  <2>2. ~Applying(op[o]) /\ op'[o].kind \notin DnsKinds
    BY <1>2, <1>3 DEF Applying, DnsKinds
  <2>3. \A q \in Ops : \/ SameDns(op'[q], op[q])
                       \/ op'[q].kind \notin DnsKinds /\ ~Applying(op[q])
    BY <1>2, <2>2
  <2> QED BY <1>1, <2>1, <2>3, DnsStays
<1>4. CASE op[o].kind \in DnsKinds
  <2>1. \A q \in Ops \ {o} : op[q].kind \notin DnsKinds /\ op'[q].kind = op[q].kind
    BY <1>1, <1>2, <1>4 DEF DnsInv, SameDns
  <2>2. /\ DnsOpOK(op[o], adapters, backup) /\ backup # "filtered"
        /\ adapters = "filtered" => backup = "original"
    BY <1>1 DEF DnsInv
  <2>3. DnsOpOK(op'[o], adapters', backup')
    BY <1>2 DEF DnsOpOK
  <2>4. CASE op[o].kind = "dns.restore"
    <3>1. adapters = "original"
      BY <1>1, <2>2, <2>4 DEF DnsOpOK
    <3> QED BY <1>1, <2>1, <2>2, <2>3, <3>1, DnsMoves
  <2>5. CASE op[o].kind = "dns.apply"
    <3>1. config' = Merge(o)
      BY <1>1, <2>5 DEF Replace
    <3>2. "dns" \in DOMAIN op[o].update /\ op[o].update["dns"] = "filtered"
      BY <1>1, <2>2, <2>5 DEF OpOK, DnsOpOK, DnsKinds
    <3>3. "dns" \in DOMAIN op[o].read
      BY <1>1 DEF Op, Settings
    <3>4. config'["dns"] = "filtered"
      BY <1>1, <3>1, <3>2, <3>3, MergeOK
    <3> QED BY <1>1, <2>1, <2>2, <2>3, <3>4, DnsMoves
  <2> QED BY <1>4, <2>4, <2>5 DEF DnsKinds
<1> QED BY <1>3, <1>4

LEMMA HelpersDns ==
  ASSUME SettingsInv, DnsInv, ~disturbed', NEW o \in Ops,
         ListAdapters(o) \/ SaveBackup(o) \/ ApplyHelper(o) \/ RestoreHelper(o) \/ RemoveBackup(o)
  PROVE  DnsInv'
<1>1. /\ op \in [Ops -> Op] /\ op[o] \in Op /\ OpOK(op[o]) /\ ~disturbed /\ UNCHANGED config
      /\ adapters \in {"original", "filtered"} /\ backup \in {"absent", "original", "filtered"}
      /\ \A q \in Ops \ {o} : op'[q] = op[q]
  BY DEF ListAdapters, SaveBackup, ApplyHelper, RestoreHelper, RemoveBackup, SettingsInv,
         CfgTypeOK, Ends
<1>2. /\ op[o].step \in {"adapters", "backup", "apply", "restore", "remove"}
      /\ op[o].step \in {"adapters", "backup", "apply"} => op[o].kind = "dns.apply"
      /\ op[o].step \in {"restore", "remove"} => op[o].kind = "dns.restore"
  BY <1>1 DEF ListAdapters, SaveBackup, ApplyHelper, RestoreHelper, RemoveBackup, OpOK
<1>3. \A q \in Ops \ {o} : op[q].kind \notin DnsKinds
  BY <1>1, <1>2 DEF DnsInv, DnsKinds
<1>4. /\ DnsOpOK(op[o], adapters, backup) /\ backup # "filtered"
      /\ adapters = "filtered" => backup = "original" /\ (config.dns = "filtered" \/ Applying(op[o]))
  BY <1>1, <1>3 DEF DnsInv, Applying, DnsKinds
<1>5. CASE Ends(o)
  <2>1. op'[o].kind = "none" /\ DnsOpOK(op'[o], adapters', backup')
    BY <1>1, <1>5, IdleOK DEF Ends, DnsOpOK
  <2>2. /\ UNCHANGED backup /\ adapters' \in {adapters, backup} \ {"absent"}
        /\ op[o].step = "apply" => adapters' = "original"
    <3>1. op'[o] = Idle(Factory) /\ op'[o].step = "idle"
      BY <1>1, <1>5, IdleOK DEF Ends
    <3>2. CASE ListAdapters(o)
      BY <1>1, <3>2 DEF ListAdapters, dnsVars
    <3>3. ~SaveBackup(o) /\ ~RemoveBackup(o)
      <4>1. \A t : op' = [op EXCEPT ![o].step = t] => op'[o].step = t
        BY <1>1 DEF Op
      <4> QED BY <3>1, <4>1 DEF SaveBackup, RemoveBackup
    <3>4. CASE ApplyHelper(o)
      <4>1. backup = "original"
        BY <1>2, <1>4, <3>4 DEF ApplyHelper, DnsOpOK
      <4>2. op' # [op EXCEPT ![o].step = "load"]
        BY <1>1, <3>1 DEF Op
      <4>3. adapters' = backup /\ UNCHANGED backup
        BY <3>4, <4>1, <4>2 DEF ApplyHelper
      <4> QED BY <4>1, <4>3
    <3>5. CASE RestoreHelper(o)
      BY <1>1, <3>5 DEF RestoreHelper
    <3> QED BY <3>2, <3>3, <3>4, <3>5
  <2>3. adapters' = "filtered" => adapters = "filtered" /\ ~Applying(op[o])
    BY <1>2, <1>4, <2>2 DEF Applying
  <2> QED BY <1>1, <1>3, <1>4, <2>1, <2>2, <2>3, DnsMoves
<1>6. CASE ~Ends(o)
  <2>1. CASE ListAdapters(o)
    <3>1. op'[o] = [op[o] EXCEPT !.step = "backup", !.seen = adapters] /\ UNCHANGED <<adapters, backup>>
          /\ op[o].step = "adapters"
      BY <1>1, <1>6, <2>1 DEF ListAdapters, dnsVars
    <3>2. /\ op'[o].kind = op[o].kind /\ op'[o].step = "backup" /\ op'[o].seen = adapters
          /\ op'[o].preserve = op[o].preserve /\ op'[o].update = op[o].update
      BY <1>1, <3>1 DEF Op
    <3>3. DnsOpOK(op'[o], adapters', backup') /\ ~Applying(op[o])
      BY <1>2, <1>4, <3>1, <3>2 DEF DnsOpOK, Applying
    <3> QED BY <1>1, <1>3, <1>4, <3>1, <3>3, DnsMoves
  <2>2. CASE SaveBackup(o)
    <3>1. /\ op'[o] = [op[o] EXCEPT !.step = "apply"] /\ UNCHANGED adapters /\ op[o].step = "backup"
          /\ backup' = IF op[o].preserve /\ backup # "absent" THEN backup ELSE op[o].seen
      BY <1>1, <2>2 DEF SaveBackup, KeepsBackup
    <3>2. op'[o].kind = op[o].kind /\ op'[o].step = "apply" /\ op'[o].update = op[o].update
      BY <1>1, <3>1 DEF Op
    <3>3. op[o].kind = "dns.apply"
      BY <1>2, <3>1
    <3>4. backup' = "original"
      BY <1>1, <1>4, <3>1, <3>3 DEF DnsOpOK
    <3>5. DnsOpOK(op'[o], adapters', backup') /\ Applying(op'[o])
      BY <1>4, <3>2, <3>3, <3>4 DEF DnsOpOK, Applying
    <3> QED BY <1>1, <1>3, <3>4, <3>5, DnsMoves
  <2>3. CASE ApplyHelper(o)
    <3>1. /\ op'[o] = [op[o] EXCEPT !.step = "load"] /\ UNCHANGED backup /\ op[o].step = "apply"
      BY <1>1, <1>6, <2>3 DEF ApplyHelper
    <3>2. op'[o].kind = op[o].kind /\ op'[o].step = "load" /\ op'[o].update = op[o].update
      BY <1>1, <3>1 DEF Op
    <3>3. op[o].kind = "dns.apply" /\ backup = "original"
      BY <1>2, <1>4, <3>1 DEF DnsOpOK
    <3>4. DnsOpOK(op'[o], adapters', backup') /\ Applying(op'[o])
      BY <1>4, <3>1, <3>2, <3>3 DEF DnsOpOK, Applying
    <3> QED BY <1>1, <1>3, <3>1, <3>3, <3>4, DnsMoves
  <2>4. CASE RestoreHelper(o)
    <3>1. /\ op'[o] = [op[o] EXCEPT !.step = "remove"] /\ UNCHANGED backup /\ op[o].step = "restore"
          /\ adapters' = backup /\ backup # "absent"
      BY <1>1, <1>6, <2>4 DEF RestoreHelper
    <3>2. op'[o].kind = op[o].kind /\ op'[o].step = "remove"
      BY <1>1, <3>1 DEF Op
    <3>3. op[o].kind = "dns.restore" /\ adapters' = "original"
      BY <1>1, <1>2, <1>4, <3>1
    <3>4. DnsOpOK(op'[o], adapters', backup')
      BY <3>2, <3>3 DEF DnsOpOK
    <3> QED BY <1>1, <1>3, <1>4, <3>1, <3>3, <3>4, DnsMoves
  <2>5. CASE RemoveBackup(o)
    <3>1. /\ op'[o] = [op[o] EXCEPT !.step = "load"] /\ UNCHANGED adapters /\ op[o].step = "remove"
          /\ backup' = "absent"
      BY <1>1, <2>5 DEF RemoveBackup
    <3>2. op'[o].kind = op[o].kind /\ op'[o].step = "load"
      BY <1>1, <3>1 DEF Op
    <3>3. op[o].kind = "dns.restore" /\ adapters = "original"
      BY <1>2, <1>4, <3>1 DEF DnsOpOK
    <3>4. DnsOpOK(op'[o], adapters', backup')
      BY <3>1, <3>2, <3>3 DEF DnsOpOK
    <3> QED BY <1>1, <1>3, <3>1, <3>3, <3>4, DnsMoves
  <2> QED BY <2>1, <2>2, <2>3, <2>4, <2>5
<1> QED BY <1>5, <1>6

LEMMA RestartDns ==
  ASSUME SettingsInv, DnsInv, ~disturbed', NEW p \in Procs, Restart(p)
  PROVE  DnsInv'
<1>1. ~disturbed /\ UNCHANGED <<config, adapters, backup>>
  BY DEF Restart, dnsVars
<1>2. ASSUME NEW q \in Ops
      PROVE  SameDns(op'[q], op[q]) \/ (op'[q].kind \notin DnsKinds /\ ~Applying(op[q]))
  <2>1. CASE op[q].proc = p
    <3>1. op'[q] = Idle(Factory)
      BY <2>1 DEF Restart
    <3>2. ~Applying(op[q])
      BY <2>1 DEF Restart, Applying
    <3> QED BY <3>1, <3>2, IdleOK DEF DnsKinds
  <2>2. CASE op[q].proc # p
    <3>1. op'[q] = op[q]
      BY <2>2 DEF Restart
    <3> QED BY <3>1 DEF SameDns
  <2> QED BY <2>1, <2>2
<1> QED BY <1>1, <1>2, DnsStays

LEMMA CfgStep ==
  ASSUME CfgInv, CfgNext
  PROVE  CfgInv'
<1>1. SettingsInv /\ DnsInv
  BY DEF CfgInv
<1>2. DnsInv'
  <2>1. CASE disturbed'
    BY <2>1 DEF DnsInv
  <2>2. CASE ~disturbed'
    <3>1. ASSUME NEW o \in Ops, OpStep(o)
          PROVE  DnsInv'
      BY <1>1, <2>2, <3>1, AuthoriseDns, LoadDns, ReplaceDns, HelpersDns DEF OpStep
    <3> QED BY <1>1, <2>2, <3>1, StartDns, RestartDns DEF CfgNext
  <2> QED BY <2>1, <2>2
<1> QED BY <1>1, <1>2, SettingsStep DEF CfgInv

\* What one save does, whatever else is in flight.
NarrowSave(o) ==
  op[o].step = "replace" /\ op'[o].step = "idle" =>
    /\ \A s \in DOMAIN config : config'[s] # config[s] =>
         \/ s \in op[o].named \/ op[o].raced
         \/ op[o].kind = "patch" /\ op[o].stale /\ s \in Critical
    /\ op[o].kind = "patch" => op[o].authorised

LEMMA SavesNarrowly ==
  ASSUME CfgInv, CfgNext, NEW o \in Ops
  PROVE  NarrowSave(o)
<1> USE DEF NarrowSave
<1>1. /\ op \in [Ops -> Op] /\ op[o] \in Op /\ OpOK(op[o]) /\ Current(op[o], config)
      /\ config \in Settings /\ SettingsInv
  BY DEF CfgInv, SettingsInv, CfgTypeOK
<1>2. op[o].step = "replace" /\ op[o].kind = "patch" => op[o].authorised
  BY <1>1 DEF Current
<1>3. CASE UNCHANGED config \/ op[o].step # "replace" \/ op[o].raced
  BY <1>2, <1>3
<1>4. CASE ~UNCHANGED config /\ op[o].step = "replace" /\ ~op[o].raced
  <2>1. PICK q \in Ops : Replace(q) /\ config' = Merge(q)
    BY <1>4 DEF CfgNext, OpStep, Patch, FixAll, Manage, ChangeDns, Start, Restart, Authorise, Load,
                Replace, ListAdapters, SaveBackup, ApplyHelper, RestoreHelper, RemoveBackup
  <2>2. CASE q # o
    <3>1. op'[o] = Overtaken(o)
      BY <1>1, <1>4, <2>1, <2>2 DEF Replace
    <3>2. op'[o].step = "replace"
      BY <1>1, <1>4, <3>1 DEF Overtaken, Op
    <3> QED BY <3>2
  <2>3. CASE q = o
    <3>1. op[o].read = config
      BY <1>1, <1>4 DEF Current
    <3>2. \A s \in DOMAIN config :
            config'[s] = IF s \in DOMAIN op[o].update THEN op[o].update[s] ELSE config[s]
      BY <1>1, <1>4, <2>1, <2>3, <3>1, MergeOK
    <3>3. CASE op[o].kind # "patch"
      BY <1>1, <3>2, <3>3 DEF OpOK
    <3>4. CASE op[o].kind = "patch"
      <4>1. /\ DOMAIN op[o].update = Critical
            /\ op[o].stale \/ \A s \in Critical \ op[o].named : op[o].update[s] = config[s]
        BY <1>1, <3>4 DEF OpOK, Current
      <4> QED BY <1>2, <1>4, <3>2, <3>4, <4>1
    <3> QED BY <3>3, <3>4
  <2> QED BY <2>2, <2>3
<1> QED BY <1>3, <1>4

-----------------------------------------------------------------------------
(* The scan jobs: types.                                                   *)

LEMMA BlankOK ==
  ASSUME NEW phase \in {"idle", "refused", "completed", "cancelled", "failed"}
  PROVE  /\ Blank(phase) \in Job /\ JobOK(Blank(phase)) /\ Blank(phase).phase = phase
         /\ phase \notin Working
<1>1. Len(Trees) \in Nat
  BY ScanAssumption
<1>2. Blank(phase) \in Job
  BY <1>1 DEF Blank, Job, Working, Finished, Verdicts
<1>3. Busy(Blank(phase)) = {}
  BY DEF Blank, Busy
<1>4. JobOK(Blank(phase))
  BY <1>3 DEF Blank, JobOK, TargetPhases
<1> QED BY <1>2, <1>4 DEF Blank, Working

LEMMA InitScan == SjInit => ScanInv
<1> SUFFICES ASSUME SjInit PROVE ScanInv
  OBVIOUS
<1>1. ScanTypeOK
  BY BlankOK DEF SjInit, ScanTypeOK
<1>2. ActiveIsTheRunningJob
  BY BlankOK DEF SjInit, ActiveIsTheRunningJob
<1>3. \A r \in Requests : JobOK(job[r])
  BY BlankOK DEF SjInit
<1> QED BY <1>1, <1>2, <1>3 DEF ScanInv

\* A job goes on.
LEMMA JobMoves ==
  ASSUME ScanInv, NEW r \in Requests, NEW j \in Job, Becomes(r, j), JobOK(j),
         active' \in Requests \union {"none"}, history' \subseteq Requests,
         j.phase \in Working => active' = r,
         active' = active \/ active \in {r, "none"}
  PROVE  ScanInv'
<1>1. /\ job' = [job EXCEPT ![r] = j] /\ job \in [Requests -> Job]
      /\ \A q \in Requests : job'[q] = IF q = r THEN j ELSE job[q]
  BY DEF Becomes, ScanInv, ScanTypeOK
<1>2. ScanTypeOK'
  BY <1>1 DEF ScanTypeOK
<1>3. ActiveIsTheRunningJob'
  BY <1>1, ScanAssumption DEF ScanInv, ActiveIsTheRunningJob
<1>4. \A q \in Requests : JobOK(job'[q])
  BY <1>1 DEF ScanInv
<1>5. \A q \in Requests : JobOK(job[q])'
  BY <1>4 DEF JobOK, ListShared, DetectedIn, Busy, Taken, Held
<1> QED BY <1>2, <1>3, <1>5 DEF ScanInv

\* A job ends.
LEMMA JobEnds ==
  ASSUME ScanInv, NEW r \in Requests, active = r \/ UNCHANGED active,
         NEW phase \in {"refused", "completed", "cancelled", "failed"}, Becomes(r, Blank(phase)),
         active' \in {"none", active}, history' \subseteq Requests
  PROVE  ScanInv'
<1>1. active \in Requests \union {"none"}
  BY DEF ScanInv, ScanTypeOK
<1> QED BY <1>1, BlankOK, JobMoves

\* A job that runs is the active one.
LEMMA JobRuns ==
  ASSUME ScanInv, NEW r \in Requests
  PROVE  /\ job[r] \in Job /\ JobOK(job[r])
         /\ job[r].phase \in Working => active = r
         /\ active \in Requests \union {"none"} /\ history \subseteq Requests
  BY DEF ScanInv, ScanTypeOK, ActiveIsTheRunningJob

\* An error, and where a report leads.
LEMMA CatchOK ==
  ASSUME NEW j \in Job, Busy(j) = {}, j.stopped => j.aborted
  PROVE  Catch(j) \in Job /\ JobOK(Catch(j)) /\ Catch(j).phase \in Working
<1>1. Catch(j) \in Job
  BY DEF Catch, Job, Working
<1>2. /\ Catch(j).phase \in {"cancelling", "failing"} /\ Catch(j).worker = j.worker
      /\ Catch(j).stopped = j.stopped /\ Catch(j).aborted = j.aborted
  BY DEF Catch, Job
<1>3. Busy(Catch(j)) = {}
  BY <1>2 DEF Busy
<1>4. JobOK(Catch(j))
  BY <1>2, <1>3 DEF JobOK, TargetPhases
<1> QED BY <1>1, <1>2, <1>4 DEF Working

LEMMA AfterReportOK ==
  ASSUME NEW j \in Job, Busy(j) = {}, j.stopped => j.aborted, j.target <= j.targets,
         j.lost \/ j.flagged \subseteq j.report,
         j.stopped => j.gap \/ j.targets = 0 \/ j.target < j.targets
  PROVE  AfterReport(j) \in Job /\ JobOK(AfterReport(j)) /\ AfterReport(j).phase \in Working
<1>1. j.target \in 0..Len(Trees) /\ j.targets \in 0..Len(Trees) /\ Len(Trees) \in Nat
  BY ScanAssumption DEF Job
<1>2. CASE j.target < j.targets
  <2> DEFINE y == [j EXCEPT !.phase = "opening", !.target = j.target + 1]
  <2>1. AfterReport(j) = y
    BY <1>2 DEF AfterReport
  <2>2. j.target + 1 \in 0..Len(Trees)
    BY <1>1, <1>2
  <2>6. y \in Job
    BY <2>2 DEF Job, Working
  <2>3. /\ y.phase = "opening" /\ y.target = j.target + 1 /\ y.targets = j.targets
        /\ y.worker = j.worker /\ y.stopped = j.stopped /\ y.aborted = j.aborted
        /\ y.lost = j.lost /\ y.flagged = j.flagged /\ y.report = j.report
    BY DEF Job
  <2> HIDE DEF y
  <2>4. Busy(y) = {}
    BY <2>3 DEF Busy
  <2>5. JobOK(y)
    BY <1>1, <1>2, <2>3, <2>4 DEF JobOK, TargetPhases
  <2> QED BY <2>1, <2>3, <2>5, <2>6 DEF Working
<1>3. CASE ~(j.target < j.targets)
  <2> DEFINE y == [j EXCEPT !.phase = "saving"]
  <2>1. AfterReport(j) = y
    BY <1>3 DEF AfterReport
  <2>2. y \in Job
    BY DEF Job, Working
  <2>3. /\ y.phase = "saving" /\ y.targets = j.targets /\ y.gap = j.gap
        /\ y.worker = j.worker /\ y.stopped = j.stopped /\ y.aborted = j.aborted
        /\ y.lost = j.lost /\ y.flagged = j.flagged /\ y.report = j.report
    BY DEF Job
  <2> HIDE DEF y
  <2>4. Busy(y) = {}
    BY <2>3 DEF Busy
  <2>5. JobOK(y)
    BY <1>1, <1>3, <2>3, <2>4 DEF JobOK, TargetPhases
  <2> QED BY <2>1, <2>2, <2>3, <2>5 DEF Working
<1> QED BY <1>2, <1>3

-----------------------------------------------------------------------------
(* The scan jobs: admission, cancellation, the end.                        *)

\* The phase alone changes, between phases that ask for no more.
LEMMA PhaseOK ==
  ASSUME NEW j \in Job, JobOK(j),
         NEW phase \in {"discovering", "listing", "spawning", "auditing"},
         phase = "discovering" => j.phase = "idle",
         phase = "listing" => j.phase = "opening",
         phase = "spawning" =>
           /\ j.phase = "scanning" /\ j.cursor >= Len(j.files)
           /\ \A w \in Workers : j.worker[w] = NoFile,
         phase = "auditing" => j.phase = "saving"
  PROVE  /\ [j EXCEPT !.phase = phase] \in Job /\ JobOK([j EXCEPT !.phase = phase])
         /\ [j EXCEPT !.phase = phase].phase = phase /\ phase \in Working
<1> DEFINE y == [j EXCEPT !.phase = phase]
<1>1. y \in Job /\ phase \in Working
  BY DEF Job, Working
<1>2. /\ y.phase = phase /\ y.target = j.target /\ y.targets = j.targets /\ y.files = j.files
      /\ y.cursor = j.cursor /\ y.worker = j.worker /\ y.verdict = j.verdict
      /\ y.entries = j.entries /\ y.expected = j.expected
      /\ y.stopped = j.stopped /\ y.aborted = j.aborted /\ y.lost = j.lost /\ y.gap = j.gap
      /\ y.flagged = j.flagged /\ y.report = j.report
  BY DEF Job
<1> HIDE DEF y
<1>3. Busy(y) = {} /\ Busy(y) = Busy(j) /\ DetectedIn(y) = DetectedIn(j)
  BY <1>2 DEF JobOK, Busy, DetectedIn
<1>4. ASSUME phase # "spawning" PROVE JobOK(y)
  BY <1>2, <1>3, <1>4 DEF JobOK, TargetPhases
<1>5. ASSUME phase = "spawning" PROVE JobOK(y)
  <2>1. ListShared(j) /\ j.cursor \in Nat /\ j.files \in Seq(Files) /\ j.entries \in Nat
        /\ j.expected \in Nat /\ j.verdict \in [Files -> Verdicts]
    BY <1>5 DEF JobOK, Job
  <2>2. j.cursor = Len(j.files) /\ Held(j) = {} /\ Cardinality(Busy(j)) = 0
    <3>1. j.cursor = Len(j.files)
      BY <1>5, <2>1 DEF ListShared
    <3>2. Busy(j) = {}
      BY <1>3
    <3>3. Held(j) = {}
      BY <3>2 DEF Held
    <3> QED BY <3>1, <3>2, <3>3, FS_EmptySet
  <2>3. j.entries = j.expected
    BY <2>1, <2>2 DEF ListShared
  <2>4. \A i \in DOMAIN j.files : j.verdict[j.files[i]] # "none"
    BY <2>1, <2>2 DEF ListShared, Taken
  <2> QED BY <1>2, <1>3, <1>5, <2>3, <2>4 DEF JobOK, TargetPhases
<1>6. y \in Job /\ JobOK(y) /\ y.phase = phase /\ phase \in Working
  BY <1>1, <1>2, <1>4, <1>5
<1> QED BY <1>6 DEF y

LEMMA AdmissionStep ==
  ASSUME ScanInv, NEW r \in Requests, Admit(r) \/ Refuse(r)
  PROVE  ScanInv'
<1>1. CASE Admit(r)
  <2> DEFINE y == [job[r] EXCEPT !.phase = "discovering"]
  <2>1. job[r] \in Job /\ JobOK(job[r]) /\ job[r].phase = "idle"
    BY <1>1, JobRuns DEF Admit
  <2>2. y \in Job /\ JobOK(y) /\ y.phase = "discovering"
    BY <2>1, PhaseOK
  <2>3. Becomes(r, y) /\ active = "none" /\ active' = r /\ UNCHANGED history
    BY <1>1 DEF Admit, Goes
  <2> HIDE DEF y
  <2> QED BY <2>2, <2>3, JobMoves, JobRuns
<1>2. CASE Refuse(r)
  BY <1>2, JobEnds, JobRuns DEF Refuse
<1> QED BY <1>1, <1>2

\* An error in a job that runs.
LEMMA CatchStep ==
  ASSUME ScanInv, NEW r \in Requests, NEW j \in Job, Busy(j) = {}, j.stopped => j.aborted,
         job[r].phase \in Working, Becomes(r, Catch(j)), UNCHANGED <<active, history>>
  PROVE  ScanInv'
<1>1. Catch(j) \in Job /\ JobOK(Catch(j)) /\ active = r
  BY CatchOK, JobRuns
<1>2. active' \in Requests \union {"none"} /\ history' \subseteq Requests /\ active' = r
  BY <1>1, JobRuns
<1>3. ASSUME NEW c \in Job, c = Catch(j) PROVE ScanInv'
  BY <1>1, <1>2, <1>3, JobMoves DEF Becomes
<1> QED BY <1>1, <1>3

LEMMA EndStep ==
  ASSUME ScanInv, NEW r \in Requests, Summarise(r) \/ Audit(r) \/ End(r)
  PROVE  ScanInv'
<1>1. /\ job[r] \in Job /\ JobOK(job[r]) /\ history \subseteq Requests
      /\ job[r].phase \in Working /\ active = r
      /\ Busy(job[r]) = {}
      /\ job[r].stopped => job[r].aborted
  BY JobRuns DEF Summarise, Audit, End, Working, JobOK
<1>2. CASE Becomes(r, Catch(job[r])) /\ UNCHANGED <<active, history>>
  BY <1>1, <1>2, CatchStep
<1>3. CASE Goes(r, "auditing") /\ Summarise(r)
  <2> DEFINE y == [job[r] EXCEPT !.phase = "auditing"]
  <2>1. y \in Job /\ JobOK(y) /\ Becomes(r, y)
    BY <1>1, <1>3, PhaseOK DEF Summarise, Goes
  <2>2. history' \subseteq Requests /\ UNCHANGED active
    BY <1>1, <1>3 DEF Summarise
  <2> HIDE DEF y
  <2> QED BY <1>1, <2>1, <2>2, JobMoves
<1>4. CASE \E phase \in {"completed", "cancelled", "failed"} :
             Becomes(r, Blank(phase)) /\ active' = "none" /\ UNCHANGED history
  BY <1>1, <1>4, JobEnds
<1> QED BY <1>2, <1>3, <1>4 DEF Summarise, Audit, End

LEMMA CancelStep ==
  ASSUME ScanInv, NEW r \in Requests, Cancel(r)
  PROVE  ScanInv'
<1>1. /\ job[r] \in Job /\ JobOK(job[r]) /\ history \subseteq Requests
      /\ active = r /\ ~job[r].aborted /\ UNCHANGED <<active, history>>
  BY JobRuns DEF Cancel
<1> DEFINE j == job[r]
           k == j.killed \/ j.listening
           s == j.phase \in {"discovering", "opening", "listing", "scanning", "spawning", "verifying"}
           y == [j EXCEPT !.aborted = TRUE, !.killed = k, !.stopped = s]
<1>2. Becomes(r, y)
  BY DEF Cancel
<1>3. k \in BOOLEAN /\ s \in BOOLEAN
  BY <1>1 DEF Job
<1>4. y \in Job
  BY <1>1, <1>3 DEF Job
<1>5. /\ y.phase = j.phase /\ y.target = j.target /\ y.targets = j.targets /\ y.files = j.files
      /\ y.cursor = j.cursor /\ y.worker = j.worker /\ y.verdict = j.verdict
      /\ y.entries = j.entries /\ y.expected = j.expected
      /\ y.lost = j.lost /\ y.gap = j.gap
      /\ y.flagged = j.flagged /\ y.report = j.report
  BY <1>1 DEF Job
<1>6. y.aborted = TRUE /\ y.stopped = s
  BY <1>1 DEF Job
<1>7. y.aborted /\ (y.stopped => j.phase \notin {"containing", "saving", "auditing"})
  BY <1>6
<1> HIDE DEF y, j
<1>8. /\ Busy(y) = Busy(j) /\ DetectedIn(y) = DetectedIn(j)
      /\ Held(y) = Held(j) /\ Taken(y) = Taken(j)
  BY <1>5 DEF Busy, DetectedIn, Held, Taken
<1>9. ListShared(j) => ListShared(y)
  BY <1>5, <1>8 DEF ListShared
<1>10. JobOK(j)
  BY <1>1 DEF j
<1>11. JobOK(y)
  BY <1>5, <1>7, <1>8, <1>9, <1>10 DEF JobOK
<1> QED BY <1>1, <1>2, <1>4, <1>11, JobMoves

-----------------------------------------------------------------------------
(* The scan jobs: targets and their files.                                 *)

LEMMA TreesOK ==
  ASSUME NEW t \in 1..Len(Trees)
  PROVE  Trees[t] \subseteq Files /\ IsFiniteSet(Trees[t]) /\ Cardinality(Trees[t]) \in Nat
<1>1. Trees[t] \subseteq Files
  BY ScanAssumption
<1>2. IsFiniteSet(Trees[t])
  BY <1>1, FS_Subset, ScanAssumption
<1> QED BY <1>1, <1>2, FS_CardinalityType

\* The listing of a finite set has each member once.
LEMMA ListingOK ==
  ASSUME NEW S, IsFiniteSet(S)
  PROVE  /\ SetToSeq(S) \in [1..Cardinality(S) -> S]
         /\ \A a, b \in 1..Cardinality(S) : SetToSeq(S)[a] = SetToSeq(S)[b] => a = b
<1>1. \E f \in [1..Cardinality(S) -> S] : IsInjective(f)
  <2>1. ExistsBijection(1..Cardinality(S), S)
    BY FS_CardinalityType
  <2> QED BY <2>1 DEF ExistsBijection, Bijection, Injection
<1>2. SetToSeq(S) \in [1..Cardinality(S) -> S] /\ IsInjective(SetToSeq(S))
  BY <1>1 DEF SetToSeq
<1> QED BY <1>2 DEF IsInjective

LEMMA DiscoverStep ==
  ASSUME ScanInv, NEW r \in Requests, Discover(r)
  PROVE  ScanInv'
<1>1. /\ job[r] \in Job /\ JobOK(job[r]) /\ history \subseteq Requests
      /\ job[r].phase = "discovering" /\ active = r /\ UNCHANGED <<active, history>>
      /\ Busy(job[r]) = {}
      /\ job[r].stopped => job[r].aborted
  BY JobRuns DEF Discover, Working, JobOK
<1>2. CASE Becomes(r, Catch(job[r]))
  BY <1>1, <1>2, CatchStep DEF Working
<1>3. ASSUME NEW n \in 0..Len(Trees), Becomes(r, AfterReport([job[r] EXCEPT !.targets = n]))
      PROVE  ScanInv'
  <2> DEFINE y == [job[r] EXCEPT !.targets = n]
  <2>1. y \in Job
    BY <1>1 DEF Job
  <2>2. /\ y.targets = n /\ y.target = 0 /\ y.flagged = {} /\ y.worker = job[r].worker
        /\ y.stopped = job[r].stopped /\ y.aborted = job[r].aborted
    BY <1>1 DEF Job, JobOK
  <2>3. Becomes(r, AfterReport(y))
    BY <1>3
  <2> HIDE DEF y
  <2>4. Busy(y) = {} /\ n \in Nat
    BY <1>1, <2>2, ScanAssumption DEF Busy
  <2>5. AfterReport(y) \in Job /\ JobOK(AfterReport(y))
    BY <1>1, <2>1, <2>2, <2>4, AfterReportOK
  <2> QED BY <1>1, <2>3, <2>5, JobMoves DEF Becomes
<1> QED BY <1>2, <1>3 DEF Discover

LEMMA OpenStep ==
  ASSUME ScanInv, NEW r \in Requests, Open(r)
  PROVE  ScanInv'
<1>1. /\ job[r] \in Job /\ JobOK(job[r]) /\ history \subseteq Requests
      /\ job[r].phase = "opening" /\ active = r /\ UNCHANGED <<active, history>>
      /\ Busy(job[r]) = {}
      /\ job[r].stopped => job[r].aborted
  BY JobRuns DEF Open, Working, JobOK
<1>2. CASE Becomes(r, Catch(job[r]))
  BY <1>1, <1>2, CatchStep DEF Working
<1>3. CASE Goes(r, "listing")
  <2> DEFINE y == [job[r] EXCEPT !.phase = "listing"]
  <2>1. y \in Job /\ JobOK(y) /\ Becomes(r, y)
    BY <1>1, <1>3, PhaseOK DEF Goes
  <2> HIDE DEF y
  <2> QED BY <1>1, <2>1, JobMoves
<1> QED BY <1>2, <1>3 DEF Open

LEMMA ListStep ==
  ASSUME ScanInv, NEW r \in Requests, List(r)
  PROVE  ScanInv'
<1>1. /\ job[r] \in Job /\ JobOK(job[r]) /\ history \subseteq Requests
      /\ job[r].phase = "listing" /\ active = r /\ UNCHANGED <<active, history>>
      /\ Busy(job[r]) = {}
      /\ job[r].stopped => job[r].aborted
  BY JobRuns DEF List, Working, JobOK
<1>2. CASE Becomes(r, Catch(job[r]))
  BY <1>1, <1>2, CatchStep DEF Working
<1>3. ASSUME NEW unread \in SUBSET Trees[job[r].target],
             Becomes(r, [job[r] EXCEPT
               !.phase = "scanning", !.cursor = 0,
               !.files = SetToSeq(Trees[job[r].target] \ unread),
               !.verdict = [f \in Files |-> "none"], !.virtual = {},
               !.entries = Cardinality(unread), !.expected = Cardinality(Trees[job[r].target])])
      PROVE  ScanInv'
  <2> DEFINE T == Trees[job[r].target]
             S == T \ unread
             listing == SetToSeq(S)
             y == [job[r] EXCEPT !.phase = "scanning", !.cursor = 0, !.files = listing,
                     !.verdict = [f \in Files |-> "none"], !.virtual = {},
                     !.entries = Cardinality(unread), !.expected = Cardinality(T)]
  <2>1. job[r].target \in 1..job[r].targets /\ job[r].targets \in 0..Len(Trees)
    BY <1>1 DEF JobOK, TargetPhases, Job
  <2>2. T \subseteq Files /\ IsFiniteSet(T) /\ Cardinality(T) \in Nat
    BY <2>1, TreesOK, ScanAssumption
  <2>3. /\ IsFiniteSet(S) /\ IsFiniteSet(unread)
        /\ Cardinality(S) \in Nat /\ Cardinality(unread) \in Nat
    BY <2>2, FS_Subset, FS_CardinalityType
  <2>4. Cardinality(unread) + Cardinality(S) = Cardinality(T)
    <3>1. unread \union S = T /\ unread \cap S = {}
      OBVIOUS
    <3>2. Cardinality(unread \union S) =
            Cardinality(unread) + Cardinality(S) - Cardinality(unread \cap S)
      BY <2>3, FS_Union
    <3>3. Cardinality(unread \cap S) = 0
      BY <3>1, FS_EmptySet
    <3>4. Cardinality(unread \union S) = Cardinality(T)
      BY <3>1
    <3> HIDE DEF S, T
    <3> QED BY <2>3, <3>2, <3>3, <3>4
  <2> HIDE DEF T
  <2>5. /\ listing \in [1..Cardinality(S) -> S]
        /\ \A a, b \in 1..Cardinality(S) : listing[a] = listing[b] => a = b
    BY <2>3, ListingOK
  <2> HIDE DEF listing, S
  <2>6. S \subseteq Files
    BY <2>2 DEF S
  <2>7. listing \in Seq(Files) /\ Len(listing) = Cardinality(S) /\ DOMAIN listing = 1..Cardinality(S)
    <3>1. listing \in [1..Cardinality(S) -> Files] /\ DOMAIN listing = 1..Cardinality(S)
      BY <2>5, <2>6
    <3> QED BY <2>3, <3>1
  <2>8. y \in Job
    BY <1>1, <2>2, <2>3, <2>7 DEF Job, Working, Verdicts
  <2>9. /\ y.phase = "scanning" /\ y.cursor = 0 /\ y.files = listing /\ y.worker = job[r].worker
        /\ y.verdict = [f \in Files |-> "none"] /\ y.entries = Cardinality(unread)
        /\ y.expected = Cardinality(T) /\ y.target = job[r].target /\ y.targets = job[r].targets
        /\ y.stopped = job[r].stopped /\ y.aborted = job[r].aborted /\ y.lost = job[r].lost
        /\ y.flagged = job[r].flagged /\ y.report = job[r].report
    BY <1>1 DEF Job
  <2>10. Becomes(r, y)
    BY <1>3 DEF T, S, listing
  <2> HIDE DEF y
  <2>11. Busy(y) = {} /\ Held(y) = {} /\ Taken(y) = {} /\ Cardinality(Busy(y)) = 0
    <3>1. Busy(y) = {}
      BY <1>1, <2>9 DEF Busy
    <3>2. Held(y) = {} /\ Taken(y) = {}
      BY <2>9, <3>1 DEF Held, Taken
    <3> QED BY <3>1, <3>2, FS_EmptySet
  <2>12. ListShared(y)
    BY <2>3, <2>4, <2>5, <2>7, <2>9, <2>11 DEF ListShared
  <2>13. JobOK(y)
    BY <1>1, <2>1, <2>9, <2>12 DEF JobOK, TargetPhases
  <2> QED BY <1>1, <2>8, <2>10, <2>13, JobMoves
<1> QED BY <1>2, <1>3 DEF List

\* The workers of a job that scans.
LEMMA ScanningFacts ==
  ASSUME NEW j \in Job, JobOK(j), j.phase = "scanning"
  PROVE  /\ ListShared(j) /\ j.files \in Seq(Files) /\ Len(j.files) \in Nat /\ j.cursor \in Nat
         /\ DOMAIN j.files = 1..Len(j.files)
         /\ j.entries \in Nat /\ j.expected \in Nat /\ j.verdict \in [Files -> Verdicts]
         /\ j.worker \in [Workers -> Files \union {NoFile}]
         /\ IsFiniteSet(Busy(j)) /\ Cardinality(Busy(j)) \in Nat
<1>1. /\ ListShared(j) /\ j.files \in Seq(Files) /\ Len(j.files) \in Nat /\ j.cursor \in Nat
      /\ DOMAIN j.files = 1..Len(j.files)
      /\ j.entries \in Nat /\ j.expected \in Nat /\ j.verdict \in [Files -> Verdicts]
      /\ j.worker \in [Workers -> Files \union {NoFile}]
  BY DEF Job, JobOK
<1>2. IsFiniteSet(Busy(j))
  <2>1. Busy(j) \in SUBSET Workers
    BY DEF Busy
  <2> QED BY <2>1, FS_Subset, ScanAssumption
<1> QED BY <1>1, <1>2, FS_CardinalityType

\* A step of a worker leaves the rest of a job alone.
LEMMA WorkerMoves ==
  ASSUME ScanInv, NEW r \in Requests, job[r].phase = "scanning", NEW y \in Job, Becomes(r, y),
         UNCHANGED <<active, history>>, ListShared(y), y.phase = "scanning",
         y.target = job[r].target, y.targets = job[r].targets, y.stopped = job[r].stopped,
         y.aborted = job[r].aborted, y.lost = job[r].lost, y.report = job[r].report,
         job[r].lost \/ y.flagged \subseteq y.report \union DetectedIn(y)
  PROVE  ScanInv'
<1>1. /\ job[r] \in Job /\ JobOK(job[r]) /\ history \subseteq Requests /\ active = r
  BY JobRuns DEF Working
<1>2. JobOK(y)
  BY <1>1 DEF JobOK, TargetPhases
<1> QED BY <1>1, <1>2, JobMoves

LEMMA TakeFileStep ==
  ASSUME ScanInv, NEW r \in Requests, NEW w \in Workers, TakeFile(r, w)
  PROVE  ScanInv'
<1>0. PICK j, n, f : j = job[r] /\ n = j.cursor + 1 /\ f = j.files[n]
  OBVIOUS
<1>1. /\ j \in Job /\ JobOK(j) /\ j.phase = "scanning" /\ j.worker[w] = NoFile
      /\ j.cursor < Len(j.files) /\ UNCHANGED <<active, history>>
  BY <1>0, JobRuns DEF TakeFile
<1>2. /\ ListShared(j) /\ j.files \in Seq(Files) /\ Len(j.files) \in Nat /\ j.cursor \in Nat
      /\ DOMAIN j.files = 1..Len(j.files)
      /\ j.entries \in Nat /\ j.expected \in Nat /\ j.verdict \in [Files -> Verdicts]
      /\ j.worker \in [Workers -> Files \union {NoFile}]
      /\ IsFiniteSet(Busy(j)) /\ Cardinality(Busy(j)) \in Nat
  BY <1>1, ScanningFacts
<1>3. /\ n \in DOMAIN j.files /\ f \in Files /\ f # NoFile /\ n \in Nat
      /\ n = j.cursor + 1 /\ f = j.files[n]
  BY <1>0, <1>1, <1>2, ScanAssumption
<1>4. f \notin Taken(j) /\ f \notin Held(j) /\ j.verdict[f] = "none"
  <2>1. f \notin Taken(j)
    <3>1. \A i \in 1..j.cursor : i \in DOMAIN j.files /\ i # n
      BY <1>1, <1>2, <1>3
    <3>2. \A i \in 1..j.cursor : j.files[i] # j.files[n]
      BY <1>2, <1>3, <3>1 DEF ListShared
    <3> QED BY <1>3, <3>2 DEF Taken
  <2> QED BY <1>2, <1>3, <2>1 DEF ListShared
<1>5. j.lost \/ j.flagged \subseteq j.report \union DetectedIn(j)
  BY <1>1 DEF JobOK
<1>6. CASE j.aborted
  <2> DEFINE y == [j EXCEPT !.cursor = n, !.entries = j.entries + 1,
                            !.verdict = [j.verdict EXCEPT ![f] = "error"]]
  <2>1. Becomes(r, y)
    BY <1>0, <1>6 DEF TakeFile, Becomes
  <2>2. [j.verdict EXCEPT ![f] = "error"] \in [Files -> Verdicts]
    BY <1>2, <1>3 DEF Verdicts
  <2>11. j.entries + 1 \in Nat
    BY <1>2
  <2>3. /\ y \in Job /\ y.cursor = n /\ y.entries = j.entries + 1
        /\ y.verdict = [j.verdict EXCEPT ![f] = "error"]
    BY <1>1, <1>3, <2>2, <2>11 DEF Job
  <2>4. /\ y.phase = j.phase /\ y.files = j.files /\ y.worker = j.worker /\ y.expected = j.expected
        /\ y.target = j.target /\ y.targets = j.targets /\ y.stopped = j.stopped
        /\ y.aborted = j.aborted /\ y.lost = j.lost /\ y.report = j.report
        /\ y.flagged = j.flagged
    BY <1>1 DEF Job
  <2> HIDE DEF y
  <2>5. Busy(y) = Busy(j) /\ Held(y) = Held(j)
    BY <2>4 DEF Busy, Held
  <2>6. Taken(y) = Taken(j) \union {f}
    BY <1>2, <1>3, <2>3, <2>4 DEF Taken
  <2>7. \A g \in Files : y.verdict[g] = IF g = f THEN "error" ELSE j.verdict[g]
    BY <1>2, <2>3
  <2>8. ListShared(y)
    <3>1. \A g \in Files : y.verdict[g] # "none" <=> g \in Taken(y) \ Held(y)
      BY <1>2, <1>4, <2>5, <2>6, <2>7 DEF ListShared
    <3>2. y.entries + Cardinality(Busy(y)) + (Len(y.files) - y.cursor) = y.expected
      <4>1. PICK L \in Nat : L = Len(j.files)
        BY <1>2
      <4>2. j.entries + Cardinality(Busy(j)) + (L - j.cursor) = j.expected
        BY <1>2, <4>1 DEF ListShared
      <4>3. y.entries + Cardinality(Busy(y)) + (L - y.cursor) = y.expected
        BY <1>2, <1>3, <2>3, <2>4, <2>5, <4>2
      <4>4. Len(y.files) = L
        BY <2>4, <4>1
      <4> QED BY <4>3, <4>4
    <3>3. \A u, v \in Busy(y) : y.worker[u] = y.worker[v] => u = v
      BY <1>2, <2>4, <2>5 DEF ListShared
    <3>4. y.cursor <= Len(y.files)
      BY <1>1, <1>2, <1>3, <2>3, <2>4
    <3>5. \A a, b \in DOMAIN y.files : y.files[a] = y.files[b] => a = b
      BY <1>2, <2>4 DEF ListShared
    <3>6. Held(y) \subseteq Taken(y)
      BY <1>2, <2>5, <2>6 DEF ListShared
    <3> QED BY <3>1, <3>2, <3>3, <3>4, <3>5, <3>6 DEF ListShared
  <2>9. DetectedIn(j) \subseteq DetectedIn(y)
    BY <1>4, <2>7 DEF DetectedIn, Detected
  <2>10. j.lost \/ y.flagged \subseteq y.report \union DetectedIn(y)
    BY <1>5, <2>4, <2>9
  <2> QED BY <1>0, <1>1, <2>1, <2>3, <2>4, <2>8, <2>10, WorkerMoves
<1>7. CASE ~j.aborted
  <2> DEFINE y == [j EXCEPT !.cursor = n, !.worker = [j.worker EXCEPT ![w] = f]]
  <2>1. Becomes(r, y)
    BY <1>0, <1>7 DEF TakeFile, Becomes
  <2>2. [j.worker EXCEPT ![w] = f] \in [Workers -> Files \union {NoFile}]
    BY <1>2, <1>3
  <2>3. y \in Job /\ y.cursor = n /\ y.worker = [j.worker EXCEPT ![w] = f]
    BY <1>1, <1>2, <1>3, <2>2 DEF Job
  <2>4. /\ y.phase = j.phase /\ y.files = j.files /\ y.verdict = j.verdict
        /\ y.expected = j.expected /\ y.entries = j.entries
        /\ y.target = j.target /\ y.targets = j.targets /\ y.stopped = j.stopped
        /\ y.aborted = j.aborted /\ y.lost = j.lost /\ y.report = j.report
        /\ y.flagged = j.flagged
    BY <1>1 DEF Job
  <2> HIDE DEF y
  <2>5. Busy(y) = Busy(j) \union {w} /\ w \notin Busy(j)
    BY <1>1, <1>2, <1>3, <2>3 DEF Busy
  <2>6. \A v \in Workers : y.worker[v] = IF v = w THEN f ELSE j.worker[v]
    BY <1>2, <2>3
  <2>7. Held(y) = Held(j) \union {f}
    BY <2>5, <2>6 DEF Held, Busy
  <2>8. Taken(y) = Taken(j) \union {f}
    BY <1>2, <1>3, <2>3, <2>4 DEF Taken
  <2>9. Cardinality(Busy(y)) = Cardinality(Busy(j)) + 1
    BY <1>2, <2>5, FS_AddElement
  <2>10. ListShared(y)
    <3>1. \A g \in Files : y.verdict[g] # "none" <=> g \in Taken(y) \ Held(y)
      BY <1>2, <1>4, <2>4, <2>7, <2>8 DEF ListShared
    <3>2. y.entries + Cardinality(Busy(y)) + (Len(y.files) - y.cursor) = y.expected
      <4>1. PICK L \in Nat : L = Len(j.files)
        BY <1>2
      <4>2. j.entries + Cardinality(Busy(j)) + (L - j.cursor) = j.expected
        BY <1>2, <4>1 DEF ListShared
      <4>5. /\ j.entries \in Nat /\ j.cursor \in Nat /\ j.expected \in Nat
            /\ Cardinality(Busy(j)) \in Nat
        BY <1>2
      <4>6. /\ y.entries = j.entries /\ y.expected = j.expected /\ y.cursor = j.cursor + 1
            /\ Cardinality(Busy(y)) = Cardinality(Busy(j)) + 1
        BY <1>3, <2>3, <2>4, <2>9
      <4>3. y.entries + Cardinality(Busy(y)) + (L - y.cursor) = y.expected
        BY <4>2, <4>5, <4>6
      <4>4. Len(y.files) = L
        BY <2>4, <4>1
      <4> QED BY <4>3, <4>4
    <3>3. \A u, v \in Busy(y) : y.worker[u] = y.worker[v] => u = v
      <4>1. \A v \in Busy(j) : v \in Workers /\ v # w /\ j.worker[v] # f
        BY <1>4, <2>5 DEF Held, Busy
      <4> QED BY <1>2, <2>5, <2>6, <4>1 DEF ListShared
    <3>4. y.cursor <= Len(y.files)
      BY <1>1, <1>2, <1>3, <2>3, <2>4
    <3>5. \A a, b \in DOMAIN y.files : y.files[a] = y.files[b] => a = b
      BY <1>2, <2>4 DEF ListShared
    <3>6. Held(y) \subseteq Taken(y)
      BY <1>2, <2>7, <2>8 DEF ListShared
    <3> QED BY <3>1, <3>2, <3>3, <3>4, <3>5, <3>6 DEF ListShared
  <2>11. j.lost \/ y.flagged \subseteq y.report \union DetectedIn(y)
    BY <1>5, <2>4 DEF DetectedIn
  <2> QED BY <1>0, <1>1, <2>1, <2>3, <2>4, <2>10, <2>11, WorkerMoves
<1> QED BY <1>6, <1>7

LEMMA FinishFileStep ==
  ASSUME ScanInv, NEW r \in Requests, NEW w \in Workers, FinishFile(r, w)
  PROVE  ScanInv'
<1>0. PICK j, f : j = job[r] /\ f = j.worker[w]
  OBVIOUS
<1>1. /\ j \in Job /\ JobOK(j) /\ j.phase = "scanning" /\ f # NoFile
      /\ UNCHANGED <<active, history>>
  BY <1>0, JobRuns DEF FinishFile
<1>2. /\ ListShared(j) /\ j.files \in Seq(Files) /\ Len(j.files) \in Nat /\ j.cursor \in Nat
      /\ DOMAIN j.files = 1..Len(j.files)
      /\ j.entries \in Nat /\ j.expected \in Nat /\ j.verdict \in [Files -> Verdicts]
      /\ j.worker \in [Workers -> Files \union {NoFile}]
      /\ IsFiniteSet(Busy(j)) /\ Cardinality(Busy(j)) \in Nat
  BY <1>1, ScanningFacts
<1>3. f \in Files /\ w \in Busy(j) /\ f \in Held(j) /\ f \in Taken(j) /\ j.verdict[f] = "none"
  <2>1. f \in Files /\ w \in Busy(j) /\ f \in Held(j)
    BY <1>0, <1>1, <1>2 DEF Busy, Held
  <2> QED BY <1>2, <2>1 DEF ListShared
<1>4. PICK v \in Verdicts \ {"none"} :
        Becomes(r, [j EXCEPT !.worker[w] = NoFile, !.entries = @ + 1, !.verdict[f] = v,
                             !.flagged = IF v \in Detected THEN @ \union {f} ELSE @])
  BY <1>0 DEF FinishFile
<1> DEFINE y == [j EXCEPT !.worker = [j.worker EXCEPT ![w] = NoFile], !.entries = j.entries + 1,
                          !.verdict = [j.verdict EXCEPT ![f] = v],
                          !.flagged = IF v \in Detected THEN j.flagged \union {f} ELSE j.flagged]
<1>5. Becomes(r, y)
  BY <1>4 DEF Becomes
<1>6. /\ [j.worker EXCEPT ![w] = NoFile] \in [Workers -> Files \union {NoFile}]
      /\ [j.verdict EXCEPT ![f] = v] \in [Files -> Verdicts]
      /\ j.entries + 1 \in Nat
      /\ (IF v \in Detected THEN j.flagged \union {f} ELSE j.flagged) \in SUBSET Files
  <2>1. j.flagged \in SUBSET Files
    BY <1>1 DEF Job
  <2> QED BY <1>2, <1>3, <2>1
<1>7. y \in Job
  BY <1>1, <1>6 DEF Job
<1>8. /\ y.worker = [j.worker EXCEPT ![w] = NoFile] /\ y.entries = j.entries + 1
      /\ y.verdict = [j.verdict EXCEPT ![f] = v]
      /\ y.flagged = IF v \in Detected THEN j.flagged \union {f} ELSE j.flagged
  BY <1>1 DEF Job
<1>9. /\ y.phase = j.phase /\ y.files = j.files /\ y.cursor = j.cursor /\ y.expected = j.expected
      /\ y.target = j.target /\ y.targets = j.targets /\ y.stopped = j.stopped
      /\ y.aborted = j.aborted /\ y.lost = j.lost /\ y.report = j.report
  BY <1>1 DEF Job
<1> HIDE DEF y
<1>10. \A u \in Workers : y.worker[u] = IF u = w THEN NoFile ELSE j.worker[u]
  BY <1>2, <1>8
<1>11. Busy(y) = Busy(j) \ {w}
  BY <1>10 DEF Busy
<1>12. \A u \in Busy(j) \ {w} : j.worker[u] # f
  BY <1>0, <1>2, <1>3 DEF ListShared
<1>13. Held(y) = Held(j) \ {f}
  <2>1. \A u \in Busy(y) : y.worker[u] = j.worker[u] /\ u \in Busy(j) /\ j.worker[u] # f
    BY <1>10, <1>11, <1>12 DEF Busy
  <2>2. \A u \in Busy(j) : j.worker[u] # f => u \in Busy(y)
    BY <1>0, <1>11
  <2> QED BY <2>1, <2>2 DEF Held
<1>14. Taken(y) = Taken(j)
  BY <1>9 DEF Taken
<1>15. \A g \in Files : y.verdict[g] = IF g = f THEN v ELSE j.verdict[g]
  BY <1>2, <1>8
<1>16. ListShared(y)
  <2>1. \A g \in Files : y.verdict[g] # "none" <=> g \in Taken(y) \ Held(y)
    BY <1>2, <1>3, <1>13, <1>14, <1>15 DEF ListShared
  <2>2. y.entries + Cardinality(Busy(y)) + (Len(y.files) - y.cursor) = y.expected
    <3>1. PICK L \in Nat : L = Len(j.files)
      BY <1>2
    <3>2. j.entries + Cardinality(Busy(j)) + (L - j.cursor) = j.expected
      BY <1>2, <3>1 DEF ListShared
    <3>3. /\ j.entries \in Nat /\ j.cursor \in Nat /\ j.expected \in Nat
          /\ Cardinality(Busy(j)) \in Nat
      BY <1>2
    <3>4. Cardinality(Busy(y)) = Cardinality(Busy(j)) - 1
      BY <1>2, <1>3, <1>11, FS_RemoveElement
    <3>5. y.entries = j.entries + 1 /\ y.expected = j.expected /\ y.cursor = j.cursor
      BY <1>8, <1>9
    <3>6. y.entries + Cardinality(Busy(y)) + (L - y.cursor) = y.expected
      BY <3>2, <3>3, <3>4, <3>5
    <3>7. Len(y.files) = L
      BY <1>9, <3>1
    <3> QED BY <3>6, <3>7
  <2>3. \A a, b \in Busy(y) : y.worker[a] = y.worker[b] => a = b
    <3>1. \A u \in Busy(y) : y.worker[u] = j.worker[u] /\ u \in Busy(j)
      BY <1>10, <1>11 DEF Busy
    <3> QED BY <1>2, <3>1 DEF ListShared
  <2>4. y.cursor <= Len(y.files)
    BY <1>2, <1>9 DEF ListShared
  <2>5. \A a, b \in DOMAIN y.files : y.files[a] = y.files[b] => a = b
    BY <1>2, <1>9 DEF ListShared
  <2>6. Held(y) \subseteq Taken(y)
    BY <1>2, <1>13, <1>14 DEF ListShared
  <2> QED BY <2>1, <2>2, <2>3, <2>4, <2>5, <2>6 DEF ListShared
<1>17. j.lost \/ y.flagged \subseteq y.report \union DetectedIn(y)
  <2>1. DetectedIn(j) \subseteq DetectedIn(y)
    BY <1>3, <1>15 DEF DetectedIn, Detected
  <2>2. v \in Detected => f \in DetectedIn(y)
    BY <1>3, <1>15 DEF DetectedIn
  <2>3. j.lost \/ j.flagged \subseteq j.report \union DetectedIn(j)
    BY <1>1 DEF JobOK
  <2> QED BY <1>8, <1>9, <2>1, <2>2, <2>3
<1> QED BY <1>0, <1>1, <1>5, <1>7, <1>9, <1>16, <1>17, WorkerMoves

LEMMA WorkersDoneStep ==
  ASSUME ScanInv, NEW r \in Requests, WorkersDone(r)
  PROVE  ScanInv'
<1> DEFINE y == [job[r] EXCEPT !.phase = "spawning"]
<1>1. /\ job[r] \in Job /\ JobOK(job[r]) /\ history \subseteq Requests
      /\ job[r].phase = "scanning" /\ active = r /\ UNCHANGED <<active, history>>
  BY JobRuns DEF WorkersDone, Working
<1>2. y \in Job /\ JobOK(y) /\ Becomes(r, y)
  BY <1>1, PhaseOK DEF WorkersDone, Goes
<1> HIDE DEF y
<1> QED BY <1>1, <1>2, JobMoves

-----------------------------------------------------------------------------
(* The scan jobs: ClamAV and automatic quarantine.                         *)

Verified == {"spawning", "verifying", "containing"}

\* A job in which every listed file has its result goes on with them.
LEMMA VerifiedMoves ==
  ASSUME ScanInv, NEW r \in Requests, job[r].phase \in Verified, NEW y \in Job, Becomes(r, y),
         UNCHANGED <<active, history>>, y.phase \in Verified,
         y.target = job[r].target, y.targets = job[r].targets, y.worker = job[r].worker,
         y.files = job[r].files, y.entries = job[r].entries, y.expected = job[r].expected,
         y.stopped = job[r].stopped, y.aborted = job[r].aborted, y.lost = job[r].lost,
         y.report = job[r].report,
         \A f \in Files : job[r].verdict[f] # "none" => y.verdict[f] # "none",
         job[r].lost \/ y.flagged \subseteq y.report \union DetectedIn(y),
         y.stopped /\ y.phase = "containing" => y.gap \/ job[r].phase = "containing",
         job[r].gap => y.gap
  PROVE  ScanInv'
<1>1. /\ job[r] \in Job /\ JobOK(job[r]) /\ history \subseteq Requests /\ active = r
  BY JobRuns DEF Working, Verified
<1>2. Busy(y) = {}
  BY <1>1 DEF JobOK, Busy, Verified
<1>3. \A i \in DOMAIN y.files : y.verdict[y.files[i]] # "none"
  <2>1. \A i \in DOMAIN y.files : y.files[i] \in Files
    BY DEF Job
  <2> QED BY <1>1, <2>1 DEF JobOK, Verified
<1>4. JobOK(y)
  BY <1>1, <1>2, <1>3 DEF JobOK, TargetPhases, Verified
<1> QED BY <1>1, <1>4, JobMoves DEF Verified, Working

LEMMA MinorClamStep ==
  ASSUME ScanInv, NEW r \in Requests,
         ClamUnavailable(r) \/ Spawn(r) \/ TimesOut(r) \/ ContainFile(r)
  PROVE  ScanInv'
<1>0. PICK j : j = job[r]
  OBVIOUS
<1>1. j \in Job /\ JobOK(j) /\ UNCHANGED <<active, history>> /\ j.phase \in Verified
  BY <1>0, JobRuns DEF ClamUnavailable, Spawn, TimesOut, ContainFile, Verified
<1>2. ASSUME NEW phase \in Verified, NEW g \in BOOLEAN, NEW l \in BOOLEAN, NEW k \in BOOLEAN,
             NEW todo \in SUBSET Files,
             Becomes(r, [j EXCEPT !.phase = phase, !.gap = g, !.listening = l, !.killed = k,
                                  !.todo = todo]),
             phase = "containing" => g \/ j.phase = "containing", j.gap => g
      PROVE  ScanInv'
  <2> DEFINE y == [j EXCEPT !.phase = phase, !.gap = g, !.listening = l, !.killed = k, !.todo = todo]
  <2>1. y \in Job
    BY <1>1 DEF Job, Working, Verified
  <2>2. /\ y.phase = phase /\ y.gap = g
        /\ y.target = j.target /\ y.targets = j.targets /\ y.worker = j.worker
        /\ y.files = j.files /\ y.entries = j.entries /\ y.expected = j.expected
        /\ y.stopped = j.stopped /\ y.aborted = j.aborted /\ y.lost = j.lost
        /\ y.report = j.report /\ y.verdict = j.verdict /\ y.flagged = j.flagged
    BY <1>1 DEF Job
  <2>3. Becomes(r, y)
    BY <1>2
  <2> HIDE DEF y
  <2>4. j.lost \/ y.flagged \subseteq y.report \union DetectedIn(y)
    BY <1>1, <2>2 DEF JobOK, DetectedIn, Verified
  <2> QED BY <1>0, <1>1, <1>2, <2>1, <2>2, <2>3, <2>4, VerifiedMoves
<1>3. j.gap \in BOOLEAN /\ j.listening \in BOOLEAN /\ j.killed \in BOOLEAN /\ j.todo \in SUBSET Files
      /\ (~j.aborted) \in BOOLEAN
  BY <1>1 DEF Job
<1>4. CASE ClamUnavailable(r)
  <2> DEFINE z == [j EXCEPT !.gap = TRUE]
             todo == ToContain(z)
  <2>1. todo \in SUBSET Files
    BY DEF ToContain
  <2>2. Becomes(r, [j EXCEPT !.phase = "containing", !.gap = TRUE, !.listening = j.listening,
                             !.killed = j.killed, !.todo = todo])
    BY <1>0, <1>1, <1>4 DEF ClamUnavailable, Contain, Becomes, Job
  <2> HIDE DEF todo
  <2> QED BY <1>2, <1>3, <2>1, <2>2 DEF Verified
<1>5. CASE Spawn(r)
  <2>1. Becomes(r, [j EXCEPT !.phase = "verifying", !.gap = j.gap, !.listening = ~j.aborted,
                             !.killed = FALSE, !.todo = j.todo])
    BY <1>0, <1>1, <1>5 DEF Spawn, Becomes, Job
  <2> QED BY <1>2, <1>3, <2>1 DEF Verified
<1>6. CASE TimesOut(r)
  <2>1. j.phase = "verifying"
    BY <1>0, <1>6 DEF TimesOut
  <2>2. Becomes(r, [j EXCEPT !.phase = "verifying", !.gap = j.gap, !.listening = j.listening,
                             !.killed = TRUE, !.todo = j.todo])
    BY <1>0, <1>1, <1>6, <2>1 DEF TimesOut, Becomes, Job
  <2> QED BY <1>2, <1>3, <2>2 DEF Verified
<1>7. CASE ContainFile(r)
  <2>1. PICK f \in j.todo : Becomes(r, [j EXCEPT !.todo = @ \ {f}])
    BY <1>0, <1>7 DEF ContainFile
  <2>2. j.phase = "containing" /\ j.todo \ {f} \in SUBSET Files
    BY <1>0, <1>3, <1>7 DEF ContainFile
  <2>3. Becomes(r, [j EXCEPT !.phase = "containing", !.gap = j.gap, !.listening = j.listening,
                             !.killed = j.killed, !.todo = j.todo \ {f}])
    BY <1>1, <2>1, <2>2 DEF Becomes, Job
  <2> QED BY <1>2, <1>3, <2>2, <2>3 DEF Verified
<1> QED BY <1>4, <1>5, <1>6, <1>7

LEMMA SpawnFailsStep ==
  ASSUME ScanInv, NEW r \in Requests, SpawnFails(r)
  PROVE  ScanInv'
<1>0. PICK j : j = Settled(job[r])
  OBVIOUS
<1>1. /\ job[r] \in Job /\ JobOK(job[r]) /\ history \subseteq Requests
      /\ job[r].phase = "verifying" /\ active = r /\ UNCHANGED <<active, history>>
  BY JobRuns DEF SpawnFails, Working
<1>2. /\ j \in Job /\ j.worker = job[r].worker /\ j.target = job[r].target
      /\ j.targets = job[r].targets /\ j.stopped = job[r].stopped /\ j.aborted = job[r].aborted
  BY <1>0, <1>1 DEF Settled, Job
<1>3. Busy(j) = {} /\ (j.stopped => j.aborted) /\ j.target \in 1..j.targets
  <2>1. Busy(j) = Busy(job[r])
    BY <1>2 DEF Busy
  <2> QED BY <1>1, <1>2, <2>1 DEF JobOK, TargetPhases
<1>4. CASE Becomes(r, Catch(j))
  BY <1>1, <1>2, <1>3, <1>4, CatchStep DEF Working
<1>5. CASE Becomes(r, AfterReport([j EXCEPT !.gap = TRUE, !.lost = TRUE]))
  <2> DEFINE y == [j EXCEPT !.gap = TRUE, !.lost = TRUE]
  <2>1. /\ y \in Job /\ y.worker = j.worker /\ y.target = j.target /\ y.targets = j.targets
        /\ y.stopped = j.stopped /\ y.aborted = j.aborted /\ y.gap = TRUE /\ y.lost = TRUE
    BY <1>2 DEF Job
  <2>2. Becomes(r, AfterReport(y))
    BY <1>5
  <2> HIDE DEF y
  <2>3. Busy(y) = {}
    BY <1>3, <2>1 DEF Busy
  <2>4. y.target <= y.targets
    BY <1>2, <1>3, <2>1 DEF Job
  <2>5. AfterReport(y) \in Job /\ JobOK(AfterReport(y))
    BY <1>3, <2>1, <2>3, <2>4, AfterReportOK
  <2> QED BY <1>1, <2>2, <2>5, JobMoves DEF Becomes
<1> QED BY <1>0, <1>4, <1>5 DEF SpawnFails

LEMMA CloseStep ==
  ASSUME ScanInv, NEW r \in Requests, Close(r)
  PROVE  ScanInv'
<1>0. PICK j : j = job[r]
  OBVIOUS
<1>1. /\ j \in Job /\ JobOK(j) /\ j.phase = "verifying" /\ active = r
      /\ UNCHANGED <<active, history>>
  BY <1>0, JobRuns DEF Close, Working
<1>2. CASE j.aborted
  <2>1. PICK s : s = Settled(j)
    OBVIOUS
  <2>2. /\ s \in Job /\ s.worker = j.worker /\ s.stopped = j.stopped /\ s.aborted = j.aborted
    BY <1>1, <2>1 DEF Settled, Job
  <2>3. Busy(s) = {} /\ (s.stopped => s.aborted)
    <3>1. Busy(s) = Busy(j)
      BY <2>2 DEF Busy
    <3> QED BY <1>1, <2>2, <3>1 DEF JobOK
  <2>4. Becomes(r, Catch(s))
    BY <1>0, <1>2, <2>1 DEF Close
  <2> QED BY <1>0, <1>1, <2>2, <2>3, <2>4, CatchStep DEF Working
<1>3. CASE ~j.aborted
  <2>1. PICK found, virtual :
          /\ found \subseteq Trees[j.target] /\ virtual \subseteq found
          /\ Becomes(r, Contain(Merged(Settled(j), found, virtual)))
    BY <1>0, <1>3 DEF Close
  <2>2. found \subseteq Files /\ virtual \subseteq Files
    <3>1. j.target \in 1..Len(Trees)
      BY <1>1 DEF JobOK, TargetPhases, Job
    <3> QED BY <2>1, <3>1, TreesOK
  <2> DEFINE verdict == [f \in Files |-> IF f \in found THEN "confirmed" ELSE j.verdict[f]]
             m == Merged(Settled(j), found, virtual)
             y == Contain(m)
  <2>3. verdict \in [Files -> Verdicts]
    BY <1>1 DEF Job, Verdicts, Detected
  <2>4. /\ m \in Job /\ m.verdict = verdict /\ m.flagged = j.flagged \union found
        /\ m.target = j.target /\ m.targets = j.targets /\ m.worker = j.worker
        /\ m.files = j.files /\ m.entries = j.entries /\ m.expected = j.expected
        /\ m.stopped = j.stopped /\ m.aborted = j.aborted /\ m.lost = j.lost
        /\ m.report = j.report /\ m.gap = j.gap
    <3>1. PICK s : s = Settled(j)
      OBVIOUS
    <3>2. /\ s \in Job /\ s.verdict = j.verdict /\ s.flagged = j.flagged
          /\ s.target = j.target /\ s.targets = j.targets /\ s.worker = j.worker
          /\ s.files = j.files /\ s.entries = j.entries /\ s.expected = j.expected
          /\ s.stopped = j.stopped /\ s.aborted = j.aborted /\ s.lost = j.lost
          /\ s.report = j.report /\ s.gap = j.gap
      BY <1>1, <3>1 DEF Settled, Job
    <3>3. m = [s EXCEPT !.verdict = verdict, !.virtual = virtual, !.flagged = j.flagged \union found]
      BY <3>1, <3>2 DEF Merged
    <3>4. j.flagged \union found \in SUBSET Files
      BY <1>1, <2>2 DEF Job
    <3> HIDE DEF m, verdict
    <3> QED BY <2>2, <2>3, <3>2, <3>3, <3>4 DEF Job
  <2> HIDE DEF m
  <2>5. /\ y \in Job /\ y.phase = "containing" /\ y.verdict = m.verdict /\ y.flagged = m.flagged
        /\ y.target = m.target /\ y.targets = m.targets /\ y.worker = m.worker
        /\ y.files = m.files /\ y.entries = m.entries /\ y.expected = m.expected
        /\ y.stopped = m.stopped /\ y.aborted = m.aborted /\ y.lost = m.lost
        /\ y.report = m.report /\ y.gap = m.gap
    BY <2>4 DEF Contain, ToContain, Job, Working
  <2>6. Becomes(r, y)
    BY <2>1 DEF m
  <2> HIDE DEF y
  <2>7. \A f \in Files : y.verdict[f] = IF f \in found THEN "confirmed" ELSE j.verdict[f]
    BY <2>4, <2>5
  <2> HIDE DEF verdict
  <2>8. \A f \in Files : j.verdict[f] # "none" => y.verdict[f] # "none"
    BY <2>7
  <2>9. DetectedIn(j) \union found \subseteq DetectedIn(y)
    BY <2>2, <2>7 DEF DetectedIn, Detected
  <2>10. j.lost \/ j.flagged \subseteq j.report \union DetectedIn(j)
    BY <1>1 DEF JobOK
  <2>11. j.lost \/ y.flagged \subseteq y.report \union DetectedIn(y)
    BY <2>4, <2>5, <2>9, <2>10
  <2>12. ~y.stopped
    BY <1>1, <1>3, <2>4, <2>5 DEF JobOK
  <2>13. j.phase \in Verified /\ y.phase \in Verified
    BY <1>1, <2>5 DEF Verified
  <2> QED BY <1>0, <1>1, <2>4, <2>5, <2>6, <2>8, <2>11, <2>12, <2>13, VerifiedMoves
<1> QED BY <1>2, <1>3

LEMMA ReportStep ==
  ASSUME ScanInv, NEW r \in Requests, Report(r)
  PROVE  ScanInv'
<1>0. PICK j : j = job[r]
  OBVIOUS
<1>1. /\ j \in Job /\ JobOK(j) /\ j.phase = "containing" /\ active = r
      /\ history \subseteq Requests /\ UNCHANGED <<active, history>>
      /\ Becomes(r, AfterReport([j EXCEPT !.report = j.report \union DetectedIn(j)]))
  BY <1>0, JobRuns DEF Report, Working, DetectedIn
<1> DEFINE y == [j EXCEPT !.report = j.report \union DetectedIn(j)]
<1>2. j.report \union DetectedIn(j) \in SUBSET Files
  BY <1>1 DEF Job, DetectedIn
<1>3. /\ y \in Job /\ y.worker = j.worker /\ y.target = j.target /\ y.targets = j.targets
      /\ y.stopped = j.stopped /\ y.aborted = j.aborted /\ y.gap = j.gap /\ y.lost = j.lost
      /\ y.flagged = j.flagged /\ y.report = j.report \union DetectedIn(j)
  BY <1>1, <1>2 DEF Job
<1>4. Becomes(r, AfterReport(y))
  BY <1>1
<1> HIDE DEF y
<1>5. Busy(y) = {}
  <2>1. Busy(y) = Busy(j)
    BY <1>3 DEF Busy
  <2> QED BY <1>1, <2>1 DEF JobOK
<1>6. y.target <= y.targets
  BY <1>1, <1>3 DEF JobOK, TargetPhases, Job
<1>7. y.lost \/ y.flagged \subseteq y.report
  BY <1>1, <1>3 DEF JobOK
<1>8. (y.stopped => y.aborted) /\ (y.stopped => y.gap \/ y.targets = 0)
  BY <1>1, <1>3 DEF JobOK
<1>9. AfterReport(y) \in Job /\ JobOK(AfterReport(y))
  BY <1>3, <1>5, <1>6, <1>7, <1>8, AfterReportOK
<1> QED BY <1>0, <1>1, <1>4, <1>9, JobMoves DEF Becomes

LEMMA ScanStep ==
  ASSUME ScanInv, SjNext
  PROVE  ScanInv'
<1>1. ASSUME NEW r \in Requests, JobStep(r)
      PROVE  ScanInv'
  BY <1>1, DiscoverStep, OpenStep, ListStep, TakeFileStep, FinishFileStep, WorkersDoneStep,
     MinorClamStep, ReportStep, EndStep DEF JobStep
<1> QED BY <1>1, AdmissionStep, CancelStep, SpawnFailsStep, CloseStep DEF SjNext

-----------------------------------------------------------------------------
(* The dashboard.                                                          *)

\* Both invariants hold of what the two parts share and of what they do not.
LEMMA DashboardInvariance == DashboardSpec => [](ScanInv /\ CfgInv)
<1>1. DashboardInit => ScanInv /\ CfgInv
  BY InitScan, InitSettings DEF DashboardInit
<1>2. ScanInv /\ CfgInv /\ [DashboardNext]_dashboardVars => (ScanInv /\ CfgInv)'
  <2> SUFFICES ASSUME ScanInv, CfgInv, [DashboardNext]_dashboardVars
               PROVE  ScanInv' /\ CfgInv'
    OBVIOUS
  <2>1. ASSUME UNCHANGED scanVars PROVE ScanInv'
    <3>1. UNCHANGED <<active, job, history>>
      BY <2>1 DEF scanVars
    <3>2. ScanTypeOK' /\ ActiveIsTheRunningJob'
      BY <3>1 DEF ScanInv, ScanTypeOK, ActiveIsTheRunningJob
    <3>3. \A r \in Requests : JobOK(job'[r])
      BY <3>1 DEF ScanInv
    <3>4. \A r \in Requests : JobOK(job[r])'
      BY <3>3 DEF JobOK, ListShared, DetectedIn, Busy, Taken, Held
    <3> QED BY <3>2, <3>4 DEF ScanInv
  <2>2. ASSUME UNCHANGED cfgVars PROVE CfgInv'
    BY <2>2 DEF cfgVars, CfgInv, SettingsInv, CfgTypeOK, OpOK, Current, CriticalOf, Values,
                DnsInv, DnsOpOK, Applying
  <2>3. \/ SjNext \/ UNCHANGED scanVars
    BY DEF DashboardNext, dashboardVars
  <2>4. \/ CfgNext \/ UNCHANGED cfgVars
    BY DEF DashboardNext, dashboardVars
  <2> QED BY <2>1, <2>2, <2>3, <2>4, ScanStep, CfgStep
<1> QED BY <1>1, <1>2, PTL DEF DashboardSpec

\* The jobs and the settings keep their types, for any number of each.
THEOREM DashboardTypes == DashboardSpec => []DashboardTypeOK
<1>1. ScanInv /\ CfgInv => DashboardTypeOK
  BY DEF ScanInv, CfgInv, SettingsInv, DashboardTypeOK
<1> QED BY <1>1, DashboardInvariance, PTL

\* One scan runs at a time, and activeScan names it: whoever asks for a scan,
\* and whoever cancels one, is told about the job that runs (runScan).
THEOREM OneScanRuns == DashboardSpec => []ActiveIsTheRunningJob
<1>1. ScanInv /\ CfgInv => ActiveIsTheRunningJob
  BY DEF ScanInv
<1> QED BY <1>1, DashboardInvariance, PTL

\* However many workers share the list of a target, each of its files has one
\* result or error when they are done; what was detected is reported, and a
\* cancelled job is not saved as completed, but for the two cases
\* ReportIsTrue excepts (scanPath, mergeClamAvDetections, runScan).
THEOREM ReportsAreTrue == DashboardSpec => []ReportIsTrue
<1>1. ScanInv /\ CfgInv => ReportIsTrue
  BY DEF ScanInv, ReportIsTrue, JobOK
<1> QED BY <1>1, DashboardInvariance, PTL

\* The DNS settings of the user survive any number of profiles, failures and
\* restores that do not overlap (applyDnsProfile, restoreDnsConfiguration).
THEOREM DnsRestorable == DashboardSpec => []OriginalDnsRestorable
<1>1. ScanInv /\ CfgInv => OriginalDnsRestorable
  BY DEF CfgInv, SettingsInv, CfgTypeOK, DnsInv, OriginalDnsRestorable, Applying, DnsKinds
<1> QED BY <1>1, DashboardInvariance, PTL

\* No save changes a setting it does not name, and none of the dashboard's
\* changes a critical setting without HQ, unless another save overtook it,
\* however many are in flight (saveConfig, PATCH /api/config).
THEOREM NarrowSaves == DashboardSpec => SavesAreNarrow
<1>1. ScanInv /\ CfgInv /\ [DashboardNext]_dashboardVars
        => [\A o \in Ops : NarrowSave(o)]_cfgVars
  BY SavesNarrowly DEF DashboardNext, dashboardVars
<1>2. DashboardSpec => [][\A o \in Ops : NarrowSave(o)]_cfgVars
  BY <1>1, DashboardInvariance, PTL DEF DashboardSpec
<1> QED BY <1>2 DEF SavesAreNarrow, NarrowSave

=====
