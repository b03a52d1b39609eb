---------------------------- MODULE Configuration ----------------------------
(***************************************************************************)
(* The configuration file, the copy of it that every process keeps in      *)
(* engine.config, and DNS filtering, whose state is spread over the        *)
(* network adapters, a backup file and the configuration.                  *)
(*                                                                         *)
(* saveConfig reads the file, merges and replaces it, with awaits between; *)
(* the requests of one dashboard and the other processes of the endpoint   *)
(* interleave there.  A settings change of the dashboard is built from     *)
(* engine.config before it is authorised; it always asks for the           *)
(* authorisation, since the objects it compares to see whether anything    *)
(* critical changes never have the same keys.                              *)
(*                                                                         *)
(* One setting stands for each critical section (protection, monitoring);  *)
(* one DNS profile; the authorisation is one step (detailed in             *)
(* Maintenance); a file is replaced as a whole (rename).                   *)
(***************************************************************************)
EXTENDS Naturals, FiniteSets

CONSTANTS
  Procs,         \* processes with an engine: the dashboard, the agent, a command line
  Ops,           \* operations in flight at a time
  MaxStarts,     \* bound: operations started
  MaxRestarts    \* bound: processes that exit and start again

ASSUME ConfigurationAssumption ==
  "none" \notin Procs /\ MaxStarts \in Nat /\ MaxRestarts \in Nat

Critical == {"protection", "monitoring"}
Switch == {"on", "off"}
Settings == [protection : Switch, monitoring : Switch, managed : Switch,
             dns : {"none", "filtered"}]
Kinds == {"patch", "fix-all", "manage", "dns.apply", "dns.restore"}
Steps == {"idle", "authorise", "adapters", "backup", "apply", "restore", "remove",
          "load", "replace"}

VARIABLES
  config,      \* the configuration file
  memory,      \* memory[p]: engine.config of p
  op,          \* op[o]: the operation in slot o
  adapters,    \* DNS settings of the network adapters
  backup,      \* the DNS backup file
  starts, restarts,
  disturbed    \* history: a DNS operation was cut short, overlapped or worked on stale settings

cfgVars == <<config, memory, op, adapters, backup, starts, restarts, disturbed>>
dnsVars == <<adapters, backup>>

Updates == UNION {[S -> Switch \union {"none", "filtered"}] :
                    S \in {{}, Critical, {"managed"}, {"dns"}}}
Op == [kind : Kinds \union {"none"}, proc : Procs \union {"none"}, step : Steps,
       update : Updates,
       named : SUBSET {"protection", "monitoring", "managed", "dns"},
       read : Settings,                          \* what saveConfig loaded
       seen : {"original", "filtered"},          \* adapters as listed
       preserve : BOOLEAN,                       \* options.preserveBackup
       authorised : BOOLEAN,                     \* history
       stale : BOOLEAN,    \* history: a patch whose copy of the settings the file is ahead of
       raced : BOOLEAN]    \* history: another save between its load and its rename

NoUpdate == [s \in {} |-> "off"]
Idle(s) == [kind |-> "none", proc |-> "none", step |-> "idle", update |-> NoUpdate, named |-> {},
            read |-> s, seen |-> "original", preserve |-> FALSE,
            authorised |-> FALSE, stale |-> FALSE, raced |-> FALSE]
Factory == [protection |-> "on", monitoring |-> "on", managed |-> "on", dns |-> "none"]

CfgInit ==
  /\ config \in {[Factory EXCEPT !.managed = m] : m \in Switch}
  /\ memory = [p \in Procs |-> config]
  /\ op = [o \in Ops |-> Idle(Factory)]
  /\ adapters = "original" /\ backup = "absent"
  /\ starts = 0 /\ restarts = 0 /\ disturbed = FALSE

DnsKinds == {"dns.apply", "dns.restore"}
Ends(o) == op' = [op EXCEPT ![o] = Idle(Factory)]
CriticalOf(s) == [c \in Critical |-> s[c]]

-----------------------------------------------------------------------------
(* The operations begin.                                                   *)

Start(o, p, new) ==
  /\ op[o].step = "idle" /\ starts < MaxStarts /\ starts' = starts + 1
  /\ op' = [op EXCEPT ![o] = [new EXCEPT !.proc = p]]
  /\ UNCHANGED <<config, memory, adapters, backup, restarts>>

\* PATCH /api/config: the settings the body does not name are filled in from
\* engine.config.
Patch(o, p) ==
  /\ \E c \in Critical, v \in Switch :
       Start(o, p, [Idle(Factory) EXCEPT
         !.kind = "patch", !.named = {c}, !.step = "authorise",
         !.update = [CriticalOf(memory[p]) EXCEPT ![c] = v],
         !.stale = CriticalOf(memory[p]) # CriticalOf(config)])
  /\ UNCHANGED disturbed

\* applyRecommendedProtection, from the action center or an HQ command.
FixAll(o, p) ==
  /\ Start(o, p, [Idle(Factory) EXCEPT !.kind = "fix-all", !.named = Critical, !.step = "load",
                                  !.update = [c \in Critical |-> "on"]])
  /\ UNCHANGED disturbed

\* The other savers: management.enabled.
Manage(o, p) ==
  /\ \E v \in Switch :
       Start(o, p, [Idle(Factory) EXCEPT !.kind = "manage", !.named = {"managed"}, !.step = "load",
                                    !.update = [s \in {"managed"} |-> v]])
  /\ UNCHANGED disturbed

ChangeDns(o, p) ==
  /\ \E k \in DnsKinds :
       Start(o, p, [Idle(Factory) EXCEPT !.kind = k, !.named = {"dns"}, !.step = "authorise",
         !.update = [s \in {"dns"} |-> IF k = "dns.apply" THEN "filtered" ELSE "none"]])
  /\ disturbed' = (disturbed \/ \E q \in Ops : op[q].kind \in DnsKinds)

FirstStep == [k \in {"patch", "dns.apply", "dns.restore"} |->
  CASE k = "patch" -> "load" [] k = "dns.apply" -> "adapters" [] OTHER -> "restore"]

\* authorizeMaintenance; then the operation proper begins.
Authorise(o) ==
  LET p == op[o].proc IN
  /\ op[o].step = "authorise"
  /\ \/ /\ op' = [op EXCEPT
             ![o].step = FirstStep[op[o].kind],
             ![o].preserve = memory[p].dns # "none",
             ![o].authorised = TRUE]
        /\ disturbed' = (disturbed \/ (op[o].kind = "dns.apply" /\ memory[p].dns # config.dns))
     \/ memory[p].managed = "on" /\ Ends(o) /\ UNCHANGED disturbed
  /\ UNCHANGED <<config, memory, dnsVars, starts, restarts>>

-----------------------------------------------------------------------------
(* saveConfig.                                                             *)

\* Mutant: the update is merged into engine.config.
LoadMemory(o) ==
  /\ op[o].step = "load"
  /\ op' = [op EXCEPT ![o].step = "replace", ![o].read = memory[op[o].proc]]
  /\ UNCHANGED <<config, memory, dnsVars, starts, restarts, disturbed>>

Load(o) ==
  /\ op[o].step = "load"
  /\ op' = [op EXCEPT ![o].step = "replace", ![o].read = config]
  /\ UNCHANGED <<config, memory, dnsVars, starts, restarts, disturbed>>

Merge(o) == [s \in DOMAIN op[o].read |->
               IF s \in DOMAIN op[o].update THEN op[o].update[s] ELSE op[o].read[s]]

\* An operation in flight while another one's save replaces the file.
Overtaken(q) == [op[q] EXCEPT !.stale = @ \/ op[q].kind = "patch",
                              !.raced = @ \/ op[q].step = "replace"]

\* The file is renamed into place and engine.config assigned, or this fails.
Replace(o) ==
  /\ op[o].step = "replace"
  /\ \/ /\ config' = Merge(o) /\ memory' = [memory EXCEPT ![op[o].proc] = Merge(o)]
        /\ op' = [q \in Ops |-> IF q = o THEN Idle(Factory) ELSE Overtaken(q)]
        /\ disturbed' = (disturbed \/ ("dns" \notin op[o].named /\ Merge(o).dns # config.dns))
     \/ /\ Ends(o) /\ UNCHANGED <<config, memory>>
        /\ disturbed' = (disturbed \/ op[o].kind = "dns.apply")
  /\ UNCHANGED <<dnsVars, starts, restarts>>

-----------------------------------------------------------------------------
(* applyDnsProfile and restoreDnsConfiguration.                            *)

\* listDnsAdapters, or none is found.
ListAdapters(o) ==
  /\ op[o].step = "adapters"
  /\ \/ op' = [op EXCEPT ![o].step = "backup", ![o].seen = adapters]
     \/ Ends(o)
  /\ UNCHANGED <<config, memory, dnsVars, starts, restarts, disturbed>>

\* Mutant: every profile takes its own backup.
KeepsNoBackup(o) == FALSE

\* The backup of an earlier profile is kept.
KeepsBackup(o) == op[o].preserve /\ backup # "absent"

SaveBackup(o) ==
  /\ op[o].step = "backup"
  /\ backup' = IF KeepsBackup(o) THEN backup ELSE op[o].seen
  /\ op' = [op EXCEPT ![o].step = "apply"]
  /\ UNCHANGED <<config, memory, adapters, starts, restarts, disturbed>>

\* Set-EndpointwardDns.ps1 -Action Apply verifies the profile and otherwise puts
\* the backup back; it may also be killed by the time limit in between.
ApplyHelper(o) ==
  /\ op[o].step = "apply"
  /\ \/ /\ backup # "absent" /\ adapters' = "filtered" /\ UNCHANGED disturbed
        /\ op' = [op EXCEPT ![o].step = "load"]
     \/ /\ adapters' = IF backup = "absent" THEN adapters ELSE backup
        /\ Ends(o) /\ UNCHANGED disturbed
     \/ backup # "absent" /\ adapters' = "filtered" /\ Ends(o) /\ disturbed' = TRUE
  /\ UNCHANGED <<config, memory, backup, starts, restarts>>

\* -Action Restore, if there is a backup.
RestoreHelper(o) ==
  /\ op[o].step = "restore"
  /\ \/ /\ backup # "absent" /\ adapters' = backup
        /\ op' = [op EXCEPT ![o].step = "remove"]
     \/ Ends(o) /\ adapters' \in {adapters} \union ({backup} \ {"absent"})
  /\ UNCHANGED <<config, memory, backup, starts, restarts, disturbed>>

RemoveBackup(o) ==
  /\ op[o].step = "remove"
  /\ backup' = "absent" /\ op' = [op EXCEPT ![o].step = "load"]
  /\ UNCHANGED <<config, memory, adapters, starts, restarts, disturbed>>

-----------------------------------------------------------------------------

\* A process exits; its next start loads the file (loadConfig).
Restart(p) ==
  LET mine == {o \in Ops : op[o].proc = p} IN
  /\ restarts < MaxRestarts /\ restarts' = restarts + 1
  /\ memory' = [memory EXCEPT ![p] = config]
  /\ op' = [o \in Ops |-> IF o \in mine THEN Idle(Factory) ELSE op[o]]
  /\ disturbed' = (disturbed \/ \E o \in mine :
                     /\ op[o].kind = "dns.apply"
                     /\ op[o].step \in {"apply", "load", "replace"})
  /\ UNCHANGED <<config, dnsVars, starts>>

OpStep(o) ==
  \/ Authorise(o) \/ Load(o) \/ Replace(o)
  \/ ListAdapters(o) \/ SaveBackup(o) \/ ApplyHelper(o) \/ RestoreHelper(o) \/ RemoveBackup(o)

CfgNext ==
  \/ \E o \in Ops : OpStep(o)
  \/ \E o \in Ops, p \in Procs : Patch(o, p) \/ FixAll(o, p) \/ Manage(o, p) \/ ChangeDns(o, p)
  \/ \E p \in Procs : Restart(p)

CfgSpec == CfgInit /\ [][CfgNext]_cfgVars

-----------------------------------------------------------------------------
(* Properties.                                                             *)

CfgTypeOK ==
  /\ config \in Settings /\ memory \in [Procs -> Settings]
  /\ op \in [Ops -> Op]
  /\ adapters \in {"original", "filtered"} /\ backup \in {"absent", "original", "filtered"}
  /\ starts \in 0..MaxStarts /\ restarts \in 0..MaxRestarts /\ disturbed \in BOOLEAN

\* The DNS settings the adapters had before the first profile are either
\* active or in the backup, and filtered adapters are recorded in the
\* configuration when no DNS operation is under way, so that a restore is
\* offered, however often profiles are applied, fail or are restored; unless an
\* operation was cut short after it changed the adapters, overlapped another or
\* started from a stale engine.config (applyDnsProfile, applyDnsFiltering).
OriginalDnsRestorable ==
  disturbed \/
    /\ "original" \in {adapters, backup}
    /\ (\A o \in Ops : op[o].kind \notin DnsKinds) /\ adapters = "filtered"
         => config.dns = "filtered" /\ backup = "original"

\* A save changes a setting it does not name only if another save replaced the
\* file between its load and its rename, or if it is a settings change of the
\* dashboard built from an engine.config that the file is ahead of: that one
\* reverts critical settings, and nothing else.  Every change of the dashboard
\* that reaches the file was authorised, at least for the setting it names
\* (saveConfig, PATCH /api/config).
SavesAreNarrow ==
  [][\A o \in Ops : op[o].step = "replace" /\ op'[o].step = "idle" =>
       /\ \A s \in DOMAIN config : config'[s] # config[s] =>
            \/ s \in op[o].named \/ op[o].raced
            \/ op[o].kind = "patch" /\ op[o].stale /\ s \in Critical
       /\ op[o].kind = "patch" => op[o].authorised]_cfgVars
=============================================================================
