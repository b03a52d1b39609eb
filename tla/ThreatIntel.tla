----------------------------- MODULE ThreatIntel -----------------------------
(***************************************************************************)
(* The threat-intelligence subsystem: updates through HQ's gateway         *)
(* (ThreatUpdates), and the archive readers an update calls (FeedArchive). *)
(* An archive is read by one worker from a file of its own, so that a      *)
(* behaviour here exercises one of the two: their states are added, not    *)
(* multiplied.                                                             *)
(***************************************************************************)
EXTENDS ThreatUpdates, FeedArchive

VARIABLE part   \* what this behaviour exercises

threatVars == <<part, updateVars, archiveVars>>

ThreatInit ==
  /\ part \in {"updates", "archive"} /\ TuInit /\ FaInit
  /\ part = "updates" => format = "cvd" /\ cut = 0 /\ archive = CHOOSE a \in Archives : TRUE
  /\ part = "archive" =>
       LET c == CHOOSE c \in Configurations : ~c.managed
       IN enabled = c.sources /\ ~managed /\ localKey = c.localKey
ThreatNext ==
  /\ UNCHANGED part
  /\ \/ part = "updates" /\ TuNext /\ UNCHANGED archiveVars
     \/ part = "archive" /\ FaNext /\ UNCHANGED updateVars
ThreatSpec == ThreatInit /\ [][ThreatNext]_threatVars /\ TuFairness

\* The types of an update, of HQ's gateway and of a reader's locals.
IntelTypeOK == ThreatTypeOK /\ ArchiveTypeOK
=============================================================================
