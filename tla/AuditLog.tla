------------------------------- MODULE AuditLog -------------------------------
(***************************************************************************)
(* The audit log: a chain of records, each with its sequence number and    *)
(* the authentication code of the one before.  An append checks the whole  *)
(* chain under the writer lock; a chain that does not check is moved away  *)
(* as evidence and a new one starts with a record of the recovery.         *)
(*                                                                         *)
(* Composed with WriterLock: the lock is the real one, with its exits and  *)
(* races.  A record is named by a number, which stands for its code; a     *)
(* file that does not exist and an empty one are both the empty sequence.  *)
(***************************************************************************)
EXTENDS WriterLock, Sequences

CONSTANTS
  MaxRecords,  \* bound on records made
  MaxFailures  \* bound on writes that fail

ASSUME AuditAssumption == MaxRecords \in Nat /\ MaxFailures \in Nat

VARIABLES
  log,       \* lines of audit.jsonl
  evidence,  \* evidence[k]: lines of the k-th audit-evidence file
  mem,       \* mem[c]: step of client c inside the lock and what it remembers
  made,      \* records made so far
  acked,     \* history: records whose appendAudit returned
  cut,       \* history: evidence files whose recovery record was not written
  failures   \* writes that failed so far

auditVars == <<log, evidence, mem, made, acked, cut, failures>>
allVars == <<vars, auditVars>>

\* A line: its record (0: malformed), its sequence number, the record it
\* follows (0: none), the evidence file it names (0: none).
Lines == [id : Nat, seq : Nat, prev : Nat, ev : Nat]
Torn == [id |-> 0, seq |-> 0, prev |-> 0, ev |-> 0]
Fresh == [step |-> "read", id |-> 0, seq |-> 0, ev |-> 0]

\* inspectAudit: every line parses, counts up from one and names the one before.
Checks(text) == \A k \in DOMAIN text :
  /\ text[k].id # 0 /\ text[k].seq = k
  /\ text[k].prev = IF k = 1 THEN 0 ELSE text[k - 1].id

AuditInit ==
  /\ Init /\ log = <<>> /\ evidence = <<>> /\ made = 0 /\ acked = {} /\ cut = {} /\ failures = 0
  /\ mem = [c \in Clients |-> Fresh]

Now(c, step) == pc[c] = "inside" /\ mem[c].step = step /\ UNCHANGED vars
Then(c, step) == mem' = [mem EXCEPT ![c].step = step]
NewLine(c) == [id |-> made + 1, seq |-> mem[c].seq + 1, prev |-> mem[c].id, ev |-> mem[c].ev]

-----------------------------------------------------------------------------
(* appendAuditRecord inside the lock.                                      *)

\* Mutant: the last line is remembered, whether or not the chain checks.
ReadLast(c) ==
  /\ Now(c, "read")
  /\ mem' = [mem EXCEPT ![c].step = "append",
              ![c].id = IF log = <<>> THEN 0 ELSE log[Len(log)].id,
              ![c].seq = IF log = <<>> THEN 0 ELSE log[Len(log)].seq]
  /\ UNCHANGED <<log, evidence, made, acked, cut, failures>>

\* The last record of a chain that checks is remembered.
Read(c) ==
  /\ Now(c, "read")
  /\ \/ log = <<>> /\ Then(c, "append")
     \/ /\ log # <<>> /\ Checks(log)
        /\ mem' = [mem EXCEPT ![c] = [step |-> "append", id |-> log[Len(log)].id,
                                      seq |-> log[Len(log)].seq, ev |-> 0]]
     \/ ~Checks(log) /\ Then(c, "rotate")
  /\ UNCHANGED <<log, evidence, made, acked, cut, failures>>

\* Mutant: a damaged log is deleted.
Drop(c) ==
  /\ Now(c, "rotate") /\ log' = <<>> /\ Then(c, "append")
  /\ UNCHANGED <<evidence, made, acked, cut, failures>>

\* The damaged log is renamed; the call throws when it is gone already.
Rotate(c) ==
  /\ Now(c, "rotate")
  /\ \/ /\ log # <<>> /\ log' = <<>> /\ evidence' = Append(evidence, log)
        /\ mem' = [mem EXCEPT ![c].step = "restart", ![c].ev = Len(evidence')]
     \/ log = <<>> /\ Then(c, "done") /\ UNCHANGED <<log, evidence>>
  /\ UNCHANGED <<made, acked, cut, failures>>

\* The recovery record, in a file that must not exist.
Restart(c) ==
  /\ Now(c, "restart")
  /\ \/ /\ log = <<>> /\ made < MaxRecords /\ made' = made + 1 /\ log' = <<NewLine(c)>>
        /\ mem' = [mem EXCEPT ![c] = [step |-> "append", id |-> made', seq |-> 1, ev |-> 0]]
     \/ log # <<>> /\ Then(c, "done") /\ UNCHANGED <<log, made>>
  /\ UNCHANGED <<evidence, acked, cut, failures>>

\* The record is appended to whatever file has the name.
AppendRecord(c) ==
  /\ Now(c, "append") /\ made < MaxRecords /\ made' = made + 1
  /\ log' = Append(log, NewLine(c)) /\ acked' = acked \union {made'} /\ Then(c, "done")
  /\ UNCHANGED <<evidence, cut, failures>>

\* A write fails, for a full disk or a power failure, with or without a part of
\* the line in the file.
WriteFails(c) ==
  /\ (Now(c, "restart") /\ log = <<>>) \/ Now(c, "append")
  /\ failures < MaxFailures /\ failures' = failures + 1 /\ Then(c, "done")
  /\ log' \in {log, Append(log, Torn)}
  /\ cut' = cut \union {e \in {mem[c].ev} : mem[c].step = "restart"}
  /\ UNCHANGED <<evidence, made, acked>>

\* verifyAuditLog and readRecentAudit.
Look(c) ==
  /\ Now(c, "read") /\ Then(c, "done")
  /\ UNCHANGED <<log, evidence, made, acked, cut, failures>>

-----------------------------------------------------------------------------

InsideStep(c) ==
  Read(c) \/ Rotate(c) \/ Restart(c) \/ AppendRecord(c) \/ WriteFails(c) \/ Look(c)

\* Steps of the lock leave the log alone; the last one inside forgets.
LockStep(c) ==
  \/ /\ Begin(c) \/ Open(c) \/ Fill(c) \/ Stat(c) \/ RemoveStale(c)
        \/ ReadNonce(c) \/ RemoveOwn(c) \/ Crash(c)
     /\ UNCHANGED auditVars
  \/ /\ mem[c].step = "done" /\ Leave(c) /\ mem' = [mem EXCEPT ![c] = Fresh]
     /\ UNCHANGED <<log, evidence, made, acked, cut, failures>>

AuditNext ==
  \/ \E c \in Clients : LockStep(c) \/ InsideStep(c)
  \/ Age /\ UNCHANGED auditVars
AuditSpec == AuditInit /\ [][AuditNext]_allVars

-----------------------------------------------------------------------------

\* Some line of the log, or of an evidence file, names evidence file e.
Named(e) ==
  \/ \E k \in DOMAIN log : log[k].ev = e
  \/ \E f \in DOMAIN evidence : \E k \in DOMAIN evidence[f] : evidence[f][k].ev = e

\* "tamper-evident audit records" (README): the chain of a log nobody touched
\* checks, so that verifyAuditLog raises no false alarm; a torn append can only
\* be its last line.  Every evidence file is named by the recovery record of the
\* chain that followed it, unless the process exits or the write fails just
\* before that record, and while it is written (recoverAuditChain).  As long as
\* no two waiters broke one lock.
LogIsTraceable ==
  ~raced =>
    /\ \/ Checks(log)
       \/ failures > 0 /\ log # <<>> /\ log[Len(log)] = Torn /\ Checks(SubSeq(log, 1, Len(log) - 1))
    /\ \A e \in DOMAIN evidence : Named(e) \/ e \in cut \/
         \E c \in Clients : pc[c] \in {"inside", "dead"} /\ mem[c].step = "restart" /\ mem[c].ev = e

\* "damaged-chain evidence preservation" (README): a record whose append
\* returned stays in the log or in an evidence file, whatever exits, torn
\* appends and two writers at once.
AcknowledgedKept ==
  \A r \in acked : \/ \E k \in DOMAIN log : log[k].id = r
                   \/ \E e \in DOMAIN evidence : \E k \in DOMAIN evidence[e] : evidence[e][k].id = r

=============================================================================
