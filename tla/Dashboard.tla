------------------------------ MODULE Dashboard ------------------------------
(***************************************************************************)
(* What the dashboard's server dispatches to one engine: scans (ScanJobs)  *)
(* and settings (Configuration).  Both run on one event loop but share no  *)
(* variable, so that a behaviour here exercises one of them: the states of *)
(* the two are added, not multiplied.                                      *)
(***************************************************************************)
EXTENDS ScanJobs, Configuration

VARIABLE part   \* the part of the dashboard this behaviour uses

dashboardVars == <<part, scanVars, cfgVars>>

DashboardInit == SjInit /\ CfgInit /\ part \in {"scans", "settings"}
DashboardNext ==
  /\ UNCHANGED part
  /\ \/ part = "scans" /\ SjNext /\ UNCHANGED cfgVars
     \/ part = "settings" /\ CfgNext /\ UNCHANGED scanVars
DashboardSpec == DashboardInit /\ [][DashboardNext]_dashboardVars /\ SjFairness

\* The types of the scan jobs and of the settings.
DashboardTypeOK == ScanTypeOK /\ CfgTypeOK
=============================================================================
