----------------------------- MODULE MCProtection -----------------------------
(* Realtime protection and the audit log it writes to, for TLC: a download *)
(* and a document watched by one of two protection objects; three calls    *)
(* that append to the log.  The two share no variable: a behaviour here    *)
(* exercises one of them, so that their states are added.                  *)
EXTENDS AuditLog, RealtimeProtection

CONSTANTS c1, c2, c3, download, document, p1, p2

VARIABLE part

ProtectionInit ==
  /\ AuditInit /\ RealtimeInit /\ part \in {"audit", "realtime"}
  /\ part = "audit" => calls = 0
ProtectionNext ==
  /\ UNCHANGED part
  /\ \/ part = "audit" /\ AuditNext /\ UNCHANGED realtimeVars
     \/ part = "realtime" /\ RealtimeNext /\ UNCHANGED allVars
ProtectionSpec == ProtectionInit /\ [][ProtectionNext]_<<part, allVars, realtimeVars>>

Symmetry == Permutations(Clients)
=============================================================================
