---------------------------- MODULE AuditLogProofs ----------------------------
(***************************************************************************)
(* The writer lock and the audit log below it: for any number of clients,  *)
(* attempts, records, exits, failed writes and races for the lock.         *)
(*                                                                         *)
(* First the lock (WriterLock), then what no race can take from the log,   *)
(* then, through the lock, its chain and its evidence.                     *)
(***************************************************************************)
EXTENDS AuditLog, SequenceTheorems, TLAPS

-----------------------------------------------------------------------------
(* The lock.                                                                *)

\* While no two waiters found one file old: an owner's file is in place, a
\* file in place has an owner or a dead creator, and only the latter gets old
\* and is about to be removed.
Alone ==
  /\ ~Raced
  /\ \A c \in Owners : lock = c
  /\ lock # "none" => pc[lock] \in {"opened", "inside", "leaving", "remove", "dead"}
  /\ old => lock # "none" /\ pc[lock] = "dead"
  /\ \A c \in Clients : pc[c] = "stale" => lock # "none" /\ pc[lock] = "dead"

IInv == TypeOK /\ (~raced => Alone)

-----------------------------------------------------------------------------

\* Everything in the type invariant but the two truth values.
Typed ==
  /\ pc \in [Clients -> Steps] /\ attempt \in [Clients -> 0 .. (MaxAttempts - 1)]
  /\ lock \in Clients \union {"none"} /\ filled \subseteq Clients /\ crashes \in 0..MaxCrashes

LEMMA TypedParts == TypeOK <=> Typed /\ old \in BOOLEAN /\ raced \in BOOLEAN
BY Zenon DEF TypeOK, Typed

\* What a step has to show.
LEMMA Preserved ==
  ASSUME Typed', old' \in BOOLEAN, raced' \in BOOLEAN, ~raced' => Alone'
  PROVE  IInv'
BY Zenon DEF IInv, TypeOK, Typed

\* A step of client c leaves the others where they are, and remembers a race.
LEMMA GotoStep ==
  ASSUME Typed, NEW c \in Clients, NEW s \in Steps, Goto(c, s)
  PROVE  /\ pc' \in [Clients -> Steps] /\ pc'[c] = s
         /\ \A d \in Clients \ {c} : pc'[d] = pc[d]
         /\ raced' \in BOOLEAN /\ (~raced' => ~raced /\ ~Raced')
<1>1. raced' \in BOOLEAN /\ (~raced' => ~raced /\ ~Raced')
  BY Zenon DEF Goto
<1> QED  BY <1>1 DEF Goto, Typed

\* The pause before the next attempt.
LEMMA NextAttemptStep ==
  ASSUME Typed, NEW c \in Clients, NextAttempt(c)
  PROVE  /\ \E s \in {"open", "idle"} : Goto(c, s)
         /\ attempt' \in [Clients -> 0 .. (MaxAttempts - 1)]
BY WriterLockAssumption DEF NextAttempt, Typed

LEMMA InitInvariant == Init => IInv
<1> SUFFICES ASSUME Init PROVE IInv
  OBVIOUS
<1>1. Typed
  BY WriterLockAssumption DEF Init, Typed, Steps
<1>2. old \in BOOLEAN /\ raced \in BOOLEAN
  BY Zenon DEF Init
<1>3. Alone
  BY DEF Init, Alone, Raced, Owners
<1> QED  BY <1>1, <1>2, <1>3, TypedParts DEF IInv

\* A step that leaves the file alone and makes nobody an owner or a remover.
LEMMA QuietStep ==
  ASSUME IInv, NEW c \in Clients, NEW s \in {"idle", "open", "exists", "dead"}, Goto(c, s),
         UNCHANGED <<lock, old>>, c \in Owners => s = "dead",
         pc[c] # "dead", Typed'
  PROVE  IInv'
<1>1. Typed /\ old' \in BOOLEAN
  BY Zenon, TypedParts DEF IInv
<1>2. /\ pc'[c] = s /\ \A d \in Clients \ {c} : pc'[d] = pc[d]
      /\ raced' \in BOOLEAN /\ (~raced' => ~raced /\ ~Raced')
  BY <1>1, GotoStep DEF Steps
<1>3. ASSUME ~raced' PROVE Alone'
  <2>1. Alone /\ ~Raced'
    BY <1>2, <1>3 DEF IInv
  <2> QED  BY <1>1, <1>2, <2>1 DEF Alone, Owners, Typed
<1> QED  BY <1>1, <1>2, <1>3, Preserved, Zenon

LEMMA OpenStep ==
  ASSUME IInv, NEW c \in Clients, Open(c)
  PROVE  IInv'
<1>0. Typed /\ old \in BOOLEAN
  BY Zenon, TypedParts DEF IInv
<1>1. CASE /\ lock = "none" /\ lock' = c /\ filled' = filled \ {c} /\ old' = FALSE
           /\ Goto(c, "opened")
  <2>1. /\ pc' \in [Clients -> Steps] /\ pc'[c] = "opened"
        /\ \A d \in Clients \ {c} : pc'[d] = pc[d]
        /\ raced' \in BOOLEAN /\ (~raced' => ~raced /\ ~Raced')
    BY <1>0, <1>1, GotoStep DEF Steps
  <2>2. ASSUME ~raced' PROVE Alone'
    <3>1. Alone /\ ~Raced'
      BY <2>1, <2>2 DEF IInv
    <3>2. Owners = {} /\ \A d \in Clients : pc[d] # "stale"
      BY <1>0, <1>1, <3>1, WriterLockAssumption DEF Alone, Owners
    <3> QED  BY <1>1, <2>1, <3>1, <3>2, WriterLockAssumption DEF Alone, Owners
  <2>3. Typed'
    BY <1>0, <1>1, <2>1 DEF Typed, Open
  <2>4. old' \in BOOLEAN
    BY <1>1, Zenon
  <2> QED  BY <2>1, <2>2, <2>3, <2>4, Preserved, Zenon
<1>2. CASE lock # "none" /\ Goto(c, "exists") /\ UNCHANGED <<lock, filled, old>>
  <2>1. Typed'
    BY <1>0, <1>2, GotoStep DEF Typed, Open, Steps
  <2> QED  BY <1>2, <2>1, QuietStep DEF Open, Owners
<1> QED  BY <1>1, <1>2 DEF Open

\* An owner goes on: it fills its file, leaves, reads its nonce.
LEMMA OwnerStep ==
  ASSUME IInv, NEW c \in Clients, Fill(c) \/ Leave(c) \/ ReadNonce(c)
  PROVE  IInv'
<1>0. Typed /\ old' \in BOOLEAN /\ UNCHANGED <<lock, old>>
  BY Zenon, TypedParts DEF IInv, Fill, Leave, ReadNonce
<1> DEFINE s == IF Fill(c) THEN "inside" ELSE IF Leave(c) THEN "leaving"
                ELSE IF lock \in filled \ {c} THEN "idle" ELSE "remove"
<1>1. s \in Steps /\ Goto(c, s) /\ c \in Owners
  BY DEF Fill, Leave, ReadNonce, Steps, Owners
<1>2. /\ pc' \in [Clients -> Steps] /\ pc'[c] = s /\ \A d \in Clients \ {c} : pc'[d] = pc[d]
      /\ raced' \in BOOLEAN /\ (~raced' => ~raced /\ ~Raced')
  BY <1>0, <1>1, GotoStep
<1>3. ASSUME ~raced' PROVE Alone'
  <2>1. Alone /\ ~Raced' /\ lock = c
    BY <1>1, <1>2, <1>3 DEF IInv, Alone
  <2>2. s \in {"inside", "leaving", "remove"}
    BY <2>1
  <2>3. pc[c] # "dead" /\ c # "none"
    BY <1>1, WriterLockAssumption DEF Owners
  <2> QED  BY <1>0, <1>2, <2>1, <2>2, <2>3 DEF Alone, Owners
<1>4. Typed'
  BY <1>0, <1>2, WriterLockAssumption DEF Typed, Fill, Leave, ReadNonce
<1> QED  BY <1>0, <1>2, <1>3, <1>4, Preserved, Zenon

LEMMA StatStep ==
  ASSUME IInv, NEW c \in Clients, Stat(c)
  PROVE  IInv'
<1>0. Typed /\ old' \in BOOLEAN /\ UNCHANGED <<lock, old>>
  BY Zenon, TypedParts DEF IInv, Stat
<1>1. CASE IsOld /\ Goto(c, "stale") /\ UNCHANGED attempt
  <2>1. /\ pc' \in [Clients -> Steps] /\ pc'[c] = "stale"
        /\ \A d \in Clients \ {c} : pc'[d] = pc[d]
        /\ raced' \in BOOLEAN /\ (~raced' => ~raced /\ ~Raced')
    BY <1>0, <1>1, GotoStep DEF Steps
  <2>2. ASSUME ~raced' PROVE Alone'
    <3>1. Alone /\ ~Raced' /\ pc[lock] = "dead"
      BY <1>1, <2>1, <2>2 DEF IInv, Alone, IsOld
    <3>2. lock # c
      BY <3>1 DEF Stat
    <3> QED  BY <1>0, <1>1, <2>1, <3>1, <3>2 DEF Alone, Owners, Typed, IsOld
  <2>3. Typed'
    BY <1>0, <1>1, <2>1 DEF Typed, Stat
  <2> QED  BY <1>0, <2>1, <2>2, <2>3, Preserved, Zenon
<1>2. CASE NextAttempt(c)
  <2>1. PICK s \in {"open", "idle"} : Goto(c, s)
    BY <1>0, <1>2, NextAttemptStep
  <2>2. Typed'
    BY <1>0, <1>2, <2>1, GotoStep, NextAttemptStep DEF Typed, Stat, Steps
  <2> QED  BY <1>0, <2>1, <2>2, QuietStep DEF Stat, Owners
<1> QED  BY <1>1, <1>2 DEF Stat

\* A file is removed: by its owner, or as the old one that it is.
LEMMA RemoveStep ==
  ASSUME IInv, NEW c \in Clients, RemoveStale(c) \/ RemoveOwn(c)
  PROVE  IInv'
<1>0. Typed /\ lock' = "none" /\ old' = FALSE
  BY Zenon, TypedParts DEF IInv, RemoveStale, RemoveOwn
<1>1. PICK s \in {"open", "idle"} : Goto(c, s)
  BY <1>0, NextAttemptStep DEF RemoveStale, RemoveOwn
<1>2. /\ pc' \in [Clients -> Steps] /\ pc'[c] = s /\ \A d \in Clients \ {c} : pc'[d] = pc[d]
      /\ raced' \in BOOLEAN /\ (~raced' => ~raced /\ ~Raced')
  BY <1>0, <1>1, GotoStep DEF Steps
<1>3. ASSUME ~raced' PROVE Alone'
  <2>1. Alone /\ ~Raced'
    BY <1>2, <1>3 DEF IInv
  <2>2. \A d \in Clients \ {c} : pc[d] # "stale" /\ d \notin Owners
    <3>1. CASE RemoveStale(c)
      <4>1. pc[c] = "stale" /\ lock # "none" /\ pc[lock] = "dead"
        BY <2>1, <3>1 DEF Alone, RemoveStale
      <4> QED  BY <2>1, <4>1 DEF Alone, Raced, Owners
    <3>2. CASE RemoveOwn(c)
      <4>1. lock = c /\ pc[lock] = "remove"
        BY <2>1, <3>2 DEF Alone, RemoveOwn, Owners
      <4> QED  BY <2>1, <4>1 DEF Alone, Owners
    <3> QED  BY <3>1, <3>2
  <2> QED  BY <1>0, <1>2, <2>1, <2>2 DEF Alone, Owners
<1>4. Typed'
  BY <1>0, <1>2, NextAttemptStep DEF Typed, RemoveStale, RemoveOwn
<1>5. old' \in BOOLEAN
  BY <1>0, Zenon
<1> QED  BY <1>2, <1>3, <1>4, <1>5, Preserved, Zenon

LEMMA SurroundingStep ==
  ASSUME IInv, NEW c \in Clients, Begin(c) \/ Crash(c)
  PROVE  IInv'
<1>0. Typed /\ UNCHANGED <<lock, old>>
  BY Zenon, TypedParts DEF IInv, Begin, Crash
<1>1. PICK s \in {"open", "dead"} : Goto(c, s) /\ (s = "open" => pc[c] = "idle")
  BY DEF Begin, Crash
<1>2. Typed'
  BY <1>0, <1>1, GotoStep, WriterLockAssumption DEF Typed, Begin, Crash, Steps
<1>3. pc[c] # "dead" /\ (c \in Owners => s = "dead") /\ s \in {"idle", "open", "exists", "dead"}
  BY <1>1 DEF Begin, Crash, Owners
<1> QED  BY <1>0, <1>1, <1>2, <1>3, QuietStep

LEMMA AgeStep == IInv /\ Age => IInv'
<1> SUFFICES ASSUME IInv, Age PROVE IInv'
  OBVIOUS
<1>1. old' \in BOOLEAN /\ raced' \in BOOLEAN /\ raced' = raced
  BY Zenon, TypedParts DEF IInv, Age
<1>2. Typed'
  BY TypedParts DEF IInv, Age, Typed
<1>3. ~raced => Alone'
  BY TypedParts DEF IInv, Age, Alone, Owners, Raced, Typed
<1>4. ~raced' => Alone'
  BY <1>1, <1>3, Zenon
<1> QED  BY <1>1, <1>2, <1>4, Preserved, Zenon

LEMMA StepInvariant == IInv /\ [Next]_vars => IInv'
<1> SUFFICES ASSUME IInv, [Next]_vars PROVE IInv'
  OBVIOUS
<1>1. CASE UNCHANGED vars
  BY <1>1, Zenon DEF vars, IInv, TypeOK, Alone, Raced, Owners
<1> QED
  BY <1>1, AgeStep, OpenStep, OwnerStep, StatStep, RemoveStep, SurroundingStep DEF Next, Step

\* The lock protocol keeps its invariant.
THEOREM Invariance == Spec => []IInv
BY InitInvariant, StepInvariant, PTL DEF Spec

\* The types of every reachable state.
THEOREM TypeCorrect == Spec => []TypeOK
<1>1. IInv => TypeOK
  BY DEF IInv
<1> QED  BY <1>1, Invariance, PTL

\* For any number of clients, attempts and exits, writers exclude each other
\* until two waiters find the same file old.
THEOREM Exclusive == Spec => []ExclusiveUnlessRaced
<1>1. IInv => ExclusiveUnlessRaced
  BY DEF IInv, ExclusiveUnlessRaced, Alone, Owners, Inside
<1> QED  BY <1>1, Invariance, PTL

-----------------------------------------------------------------------------
(* Records whose append returned.                                           *)

Memory == [step : {"read", "rotate", "restart", "append", "done"}, id : Nat, seq : Nat, ev : Nat]

\* The files hold lines, and clients remember numbers.
Files ==
  /\ log \in Seq(Lines) /\ evidence \in Seq(Seq(Lines)) /\ made \in Nat
  /\ mem \in [Clients -> Memory]

KeptInv == Files /\ AcknowledgedKept

-----------------------------------------------------------------------------

\* A line that is appended leaves those of the log where they are.
LEMMA AppendKeeps ==
  ASSUME KeptInv, NEW line \in Lines, log' = Append(log, line), UNCHANGED evidence,
         acked' \in {acked, acked \union {line.id}}
  PROVE  AcknowledgedKept'
<1> SUFFICES ASSUME NEW r \in acked'
             PROVE  \/ \E k \in DOMAIN log' : log'[k].id = r
                    \/ \E e \in DOMAIN evidence : \E k \in DOMAIN evidence[e] : evidence[e][k].id = r
  BY DEF AcknowledgedKept
<1>1. /\ Len(log') = Len(log) + 1 /\ log'[Len(log) + 1] = line
      /\ \A k \in 1..Len(log) : log'[k] = log[k]
      /\ DOMAIN log' = 1..(Len(log) + 1) /\ DOMAIN log = 1..Len(log) /\ Len(log) \in Nat
  BY DEF KeptInv, Files, Memory
<1>2. CASE r \in acked
  BY <1>1, <1>2 DEF KeptInv, AcknowledgedKept
<1>3. CASE r = line.id
  BY <1>1, <1>3
<1> QED  BY <1>2, <1>3

\* A log that is moved away keeps its lines, under another name.
LEMMA RotateKeeps ==
  ASSUME KeptInv, log' = <<>>, evidence' = Append(evidence, log), UNCHANGED acked
  PROVE  AcknowledgedKept'
<1> SUFFICES ASSUME NEW r \in acked
             PROVE  \E e \in DOMAIN evidence' : \E k \in DOMAIN evidence'[e] : evidence'[e][k].id = r
  BY DEF AcknowledgedKept
<1>1. /\ evidence'[Len(evidence) + 1] = log
      /\ \A e \in 1..Len(evidence) : evidence'[e] = evidence[e]
      /\ DOMAIN evidence' = 1..(Len(evidence) + 1) /\ DOMAIN evidence = 1..Len(evidence)
      /\ Len(evidence) \in Nat
  BY DEF KeptInv, Files, Memory
<1> QED  BY <1>1 DEF KeptInv, AcknowledgedKept

LEMMA NewLineIsLine ==
  ASSUME Files, NEW c \in Clients
  PROVE  NewLine(c) \in Lines /\ NewLine(c).id = made + 1 /\ Torn \in Lines
BY DEF Files, NewLine, Lines, Torn, Memory

LEMMA InitKept == AuditInit => KeptInv
BY DEF AuditInit, KeptInv, Files, AcknowledgedKept, Fresh, Memory

\* Steps of the lock, and looks at the log, change no file.
LEMMA KeepsFiles ==
  ASSUME KeptInv, UNCHANGED <<log, evidence, made, acked>>,
         mem' \in [Clients -> Memory]
  PROVE  KeptInv'
BY DEF KeptInv, Files, AcknowledgedKept, Memory

LEMMA LockStepKept ==
  ASSUME KeptInv, NEW c \in Clients, LockStep(c)
  PROVE  KeptInv'
<1>1. UNCHANGED <<log, evidence, made, acked>>
  BY DEF LockStep, auditVars
<1>2. mem' \in [Clients -> Memory]
  <2>1. mem' \in {mem, [mem EXCEPT ![c] = Fresh]}
    BY DEF LockStep, auditVars
  <2>2. mem \in [Clients -> Memory] /\ Fresh \in Memory
    BY DEF KeptInv, Files, Fresh, Memory
  <2> QED  BY <2>1, <2>2
<1> QED  BY <1>1, <1>2, KeepsFiles

LEMMA InsideStepKept ==
  ASSUME KeptInv, NEW c \in Clients, InsideStep(c)
  PROVE  KeptInv'
<1>0. Files
  BY DEF KeptInv
<1>1. CASE Read(c)
  <2>1. log # <<>> => log[Len(log)] \in Lines
    BY <1>0 DEF Files, Memory
  <2>2. mem' \in [Clients -> Memory]
    <3>1. \/ mem' = [mem EXCEPT ![c].step = "append"]
          \/ mem' = [mem EXCEPT ![c].step = "rotate"]
          \/ log # <<>> /\ mem' = [mem EXCEPT ![c] = [step |-> "append", id |-> log[Len(log)].id,
                                                    seq |-> log[Len(log)].seq, ev |-> 0]]
      BY <1>1 DEF Read, Then
    <3>2. mem \in [Clients -> Memory]
      BY <1>0 DEF Files
    <3>3. log # <<>> => log[Len(log)].id \in Nat /\ log[Len(log)].seq \in Nat
      BY <2>1 DEF Lines
    <3>4. CASE \E s \in {"append", "rotate"} : mem' = [mem EXCEPT ![c].step = s]
      BY <3>2, <3>4 DEF Memory
    <3>5. CASE log # <<>> /\ mem' = [mem EXCEPT ![c] = [step |-> "append", id |-> log[Len(log)].id,
                                                      seq |-> log[Len(log)].seq, ev |-> 0]]
      <4>1. [step |-> "append", id |-> log[Len(log)].id, seq |-> log[Len(log)].seq, ev |-> 0] \in Memory
        BY <3>3, <3>5 DEF Memory
      <4> QED  BY <3>2, <3>5, <4>1
    <3> QED  BY <3>1, <3>4, <3>5
  <2> QED  BY <1>1, <2>2, KeepsFiles DEF Read
<1>2. CASE Rotate(c)
  <2>1. CASE log = <<>> /\ Then(c, "done") /\ UNCHANGED <<log, evidence>>
    <3>1. mem' \in [Clients -> Memory]
      BY <1>0, <2>1 DEF Then, Files, Memory
    <3> QED  BY <1>2, <2>1, <3>1, KeepsFiles DEF Rotate
  <2>2. CASE /\ log # <<>> /\ log' = <<>> /\ evidence' = Append(evidence, log)
             /\ mem' = [mem EXCEPT ![c].step = "restart", ![c].ev = Len(evidence')]
    <3>1. evidence' \in Seq(Seq(Lines)) /\ Len(evidence') \in Nat /\ log' \in Seq(Lines)
      BY <1>0, <2>2 DEF Files, Memory
    <3>2. Files'
      BY <1>0, <1>2, <2>2, <3>1 DEF Files, Rotate, Memory
    <3> QED  BY <1>2, <2>2, <3>2, RotateKeeps DEF KeptInv, Rotate
  <2> QED  BY <1>2, <2>1, <2>2 DEF Rotate
<1>3. CASE Restart(c)
  <2>1. CASE log # <<>> /\ Then(c, "done") /\ UNCHANGED <<log, made>>
    <3>1. mem' \in [Clients -> Memory]
      BY <1>0, <2>1 DEF Then, Files, Memory
    <3> QED  BY <1>3, <2>1, <3>1, KeepsFiles DEF Restart
  <2>2. CASE /\ log = <<>> /\ made < MaxRecords /\ made' = made + 1 /\ log' = <<NewLine(c)>>
             /\ mem' = [mem EXCEPT ![c] = [step |-> "append", id |-> made', seq |-> 1, ev |-> 0]]
    <3>1. NewLine(c) \in Lines /\ log' = Append(log, NewLine(c))
      BY <1>0, <2>2, NewLineIsLine
    <3>2. Files'
      BY <1>0, <1>3, <2>2, <3>1 DEF Files, Restart, Memory
    <3> QED  BY <1>3, <3>1, <3>2, AppendKeeps DEF KeptInv, Restart
  <2> QED  BY <1>3, <2>1, <2>2 DEF Restart
<1>4. CASE AppendRecord(c)
  <2>1. NewLine(c) \in Lines /\ NewLine(c).id = made + 1
    BY <1>0, NewLineIsLine
  <2>2. Files'
    <3>1. mem' \in [Clients -> Memory]
      BY <1>0, <1>4 DEF Files, AppendRecord, Then, Memory
    <3>2. log' \in Seq(Lines) /\ made' \in Nat /\ UNCHANGED evidence
      BY <1>0, <1>4, <2>1 DEF Files, AppendRecord
    <3> QED  BY <1>0, <3>1, <3>2 DEF Files
  <2> QED  BY <1>4, <2>1, <2>2, AppendKeeps DEF KeptInv, AppendRecord
<1>5. CASE WriteFails(c)
  <2>1. Torn \in Lines
    BY <1>0, NewLineIsLine
  <2>2. Files'
    <3>1. mem' \in [Clients -> Memory]
      BY <1>0, <1>5 DEF Files, WriteFails, Then, Memory
    <3>2. log' \in Seq(Lines) /\ UNCHANGED <<made, evidence>>
      BY <1>0, <1>5, <2>1 DEF Files, WriteFails
    <3> QED  BY <1>0, <3>1, <3>2 DEF Files
  <2>3. CASE log' = log
    BY <1>5, <2>2, <2>3 DEF KeptInv, AcknowledgedKept, WriteFails
  <2>4. CASE log' = Append(log, Torn)
    BY <1>5, <2>1, <2>2, <2>4, AppendKeeps DEF KeptInv, WriteFails
  <2> QED  BY <1>5, <2>3, <2>4 DEF WriteFails
<1>6. CASE Look(c)
  <2>1. mem' \in [Clients -> Memory]
    BY <1>0, <1>6 DEF Look, Then, Files, Memory
  <2> QED  BY <1>6, <2>1, KeepsFiles DEF Look
<1> QED  BY <1>1, <1>2, <1>3, <1>4, <1>5, <1>6 DEF InsideStep

LEMMA StepKept == KeptInv /\ [AuditNext]_allVars => KeptInv'
<1> SUFFICES ASSUME KeptInv, [AuditNext]_allVars PROVE KeptInv'
  OBVIOUS
<1>1. CASE UNCHANGED auditVars
  BY <1>1 DEF auditVars, KeptInv, Files, AcknowledgedKept, Memory
<1> QED  BY <1>1, LockStepKept, InsideStepKept DEF AuditNext, allVars

\* No record whose append returned is lost, whatever exits, failed writes and
\* races for the lock, for any number of clients and records.
THEOREM Kept == AuditSpec => []AcknowledgedKept
<1>1. KeptInv => AcknowledgedKept
  BY DEF KeptInv
<1> QED  BY <1>1, InitKept, StepKept, PTL DEF AuditSpec

-----------------------------------------------------------------------------
(* The log runs the lock protocol, so what is proved of the lock holds.     *)

LEMMA LockSteps == [AuditNext]_allVars => [Next]_vars
<1> SUFFICES ASSUME [AuditNext]_allVars PROVE [Next]_vars
  OBVIOUS
<1>1. CASE UNCHANGED allVars
  BY <1>1 DEF allVars
<1>2. ASSUME NEW c \in Clients, LockStep(c)
      PROVE  Next
  BY <1>2 DEF LockStep, Next, Step
<1>3. ASSUME NEW c \in Clients, InsideStep(c)
      PROVE  UNCHANGED vars
  BY <1>3 DEF InsideStep, Read, Rotate, Restart, AppendRecord, WriteFails, Look, Now
<1>4. CASE Age
  BY <1>4 DEF Next
<1> QED  BY <1>1, <1>2, <1>3, <1>4 DEF AuditNext

\* The audit log implements the lock protocol: hidden files and memory, every
\* step is one of the lock or leaves the lock alone.
THEOREM LogRefinesLock == AuditSpec => Spec
<1>1. AuditInit => Init
  BY DEF AuditInit
<1> QED  BY <1>1, LockSteps, PTL DEF AuditSpec, Spec

\* Appends exclude each other until two waiters break one lock, for any number
\* of processes, records, failed writes and exits.
THEOREM AppendsExclude == AuditSpec => []ExclusiveUnlessRaced
BY LogRefinesLock, Exclusive, PTL

-----------------------------------------------------------------------------
(* The chain: what the client inside remembers of it.                       *)

\* The record at the end of a chain, 0 if there is none.
LastId == IF log = <<>> THEN 0 ELSE log[Len(log)].id

\* What the client inside the lock remembers: before it has read, nothing; then
\* the end of a chain that checks, or, once it moved a damaged one away, the
\* name of the evidence.
Remembers(c) ==
  /\ mem[c].step \in {"read", "rotate", "restart"} => mem[c].id = 0 /\ mem[c].seq = 0
  /\ mem[c].step = "restart" => log = <<>>
  /\ mem[c].step = "append" => Checks(log) /\ mem[c].id = LastId /\ mem[c].seq = Len(log)

TornAtEnd ==
  failures > 0 /\ log # <<>> /\ log[Len(log)] = Torn /\ Checks(SubSeq(log, 1, Len(log) - 1))

\* The client between a rotation and its recovery record.
Restarting(e) ==
  \E c \in Clients : pc[c] \in {"inside", "dead"} /\ mem[c].step = "restart" /\ mem[c].ev = e

ChainKept == Checks(log) \/ TornAtEnd
EvidenceNamed == \A e \in DOMAIN evidence : Named(e) \/ e \in cut \/ Restarting(e)
OutsideFresh == \A c \in Clients : pc[c] \notin {"inside", "dead"} => mem[c] = Fresh
InsideRemembers == \A c \in Inside : Remembers(c)

TraceInv ==
  /\ Files /\ failures \in Nat /\ OutsideFresh
  /\ ~raced => ChainKept /\ EvidenceNamed /\ InsideRemembers

LEMMA AppendFacts ==
  ASSUME Files, NEW line \in Lines, log' = Append(log, line)
  PROVE  /\ Len(log') = Len(log) + 1 /\ log' # <<>> /\ log'[Len(log) + 1] = line
         /\ \A k \in 1..Len(log) : log'[k] = log[k]
         /\ DOMAIN log' = 1..(Len(log) + 1) /\ DOMAIN log = 1..Len(log) /\ Len(log) \in Nat
BY AppendProperties DEF Files

LEMMA EmptyChecks == Checks(<<>>)
BY DEF Checks

\* The client that has read the chain makes it longer, and it still checks.
LEMMA ChainGrows ==
  ASSUME Files, NEW line \in Lines, log' = Append(log, line), Checks(log),
         line.id # 0, line.seq = Len(log) + 1, line.prev = LastId
  PROVE  Checks(log')
<1>1. Len(log) \in Nat /\ (log = <<>> <=> Len(log) = 0)
  BY EmptySeq DEF Files
<1> QED
  BY <1>1, AppendFacts DEF Checks, LastId

\* A part of a line at the end of a chain that checks.
LEMMA ChainTears ==
  ASSUME Files, log' = Append(log, Torn), Checks(log), failures \in Nat, failures' = failures + 1
  PROVE  TornAtEnd'
<1>1. Torn \in Lines
  BY DEF Torn, Lines
<1>2. /\ Len(log') = Len(log) + 1 /\ log' # <<>> /\ log'[Len(log')] = Torn
      /\ \A k \in 1..Len(log) : log'[k] = log[k]
      /\ Len(log) \in Nat
  BY <1>1, AppendFacts
<1>3. SubSeq(log', 1, Len(log') - 1) = log
  <2>1. log' \in Seq(Lines) /\ log \in Seq(Lines)
    BY <1>1, AppendProperties DEF Files
  <2>2. \A i \in 1..Len(log) : log'[i] \in Lines
    BY <1>2, <2>1, ElementOfSeq
  <2>3. /\ SubSeq(log', 1, Len(log)) \in Seq(Lines)
        /\ Len(SubSeq(log', 1, Len(log))) = Len(log)
        /\ \A i \in 1..Len(log) : SubSeq(log', 1, Len(log))[i] = log'[i]
    BY <1>2, <2>2, SubSeqProperties
  <2>4. Len(log') - 1 = Len(log)
    BY <1>2
  <2> QED  BY <1>2, <2>1, <2>3, <2>4, SeqEqual
<1>4. Checks(SubSeq(log', 1, Len(log') - 1))
  BY <1>3
<1>5. failures' > 0
  OBVIOUS
<1> QED  BY <1>2, <1>4, <1>5 DEF TornAtEnd, Checks

\* Names of evidence are never lost: by a log that grows, or moves away.
LEMMA NamesGrow ==
  ASSUME Files, NEW line \in Lines, log' = Append(log, line), UNCHANGED evidence
  PROVE  \A e : Named(e) \/ e = line.ev => Named(e)'
<1>1. /\ Len(log') = Len(log) + 1 /\ log'[Len(log) + 1] = line
      /\ \A k \in 1..Len(log) : log'[k] = log[k]
      /\ DOMAIN log' = 1..(Len(log) + 1) /\ DOMAIN log = 1..Len(log) /\ Len(log) \in Nat
  BY AppendFacts
<1> QED  BY <1>1 DEF Named

LEMMA NamesMove ==
  ASSUME Files, log' = <<>>, evidence' = Append(evidence, log)
  PROVE  /\ \A e : Named(e) => Named(e)'
         /\ DOMAIN evidence' = DOMAIN evidence \union {Len(evidence')}
<1>1. /\ evidence'[Len(evidence) + 1] = log /\ Len(evidence') = Len(evidence) + 1
      /\ \A e \in 1..Len(evidence) : evidence'[e] = evidence[e]
      /\ DOMAIN evidence' = 1..(Len(evidence) + 1) /\ DOMAIN evidence = 1..Len(evidence)
      /\ Len(evidence) \in Nat
  BY AppendProperties DEF Files
<1>2. \A e : Named(e) => Named(e)'
  <2> SUFFICES ASSUME NEW e, Named(e) PROVE Named(e)'
    OBVIOUS
  <2>1. CASE \E k \in DOMAIN log : log[k].ev = e
    BY <1>1, <2>1 DEF Named
  <2>2. CASE \E f \in DOMAIN evidence : \E k \in DOMAIN evidence[f] : evidence[f][k].ev = e
    BY <1>1, <2>2 DEF Named
  <2> QED  BY <2>1, <2>2 DEF Named
<1> QED  BY <1>1, <1>2

-----------------------------------------------------------------------------
(* Steps of the client inside.                                              *)

\* No step forgets a race.
LEMMA RaceRemembered ==
  ASSUME IInv, [Next]_vars, ~raced'
  PROVE  ~raced
<1>1. CASE UNCHANGED vars
  BY <1>1, Zenon DEF vars
<1>2. ASSUME NEW c \in Clients, NEW s, Goto(c, s)
      PROVE  ~raced
  BY <1>2, Zenon DEF Goto
<1>3. ASSUME NEW c \in Clients, NextAttempt(c)
      PROVE  ~raced
  BY <1>2, <1>3, Zenon DEF NextAttempt
<1>4. CASE Age
  BY <1>4, Zenon DEF Age
<1> QED
  BY <1>1, <1>2, <1>3, <1>4, Zenon
  DEF Next, Step, Begin, Open, Fill, Stat, RemoveStale, Leave, ReadNonce, RemoveOwn, Crash

\* The parts of the invariant a step of the client inside has to keep; nobody
\* else is inside, so nobody else has anything to remember.
LEMMA InsideKeeps ==
  ASSUME TraceInv, KeptInv', ExclusiveUnlessRaced, NEW c \in Clients, pc[c] = "inside",
         UNCHANGED vars, failures' \in Nat,
         \A d \in Clients \ {c} : mem'[d] = mem[d],
         ~raced => ChainKept' /\ EvidenceNamed' /\ Remembers(c)'
  PROVE  TraceInv'
<1>1. pc' = pc /\ (raced' <=> raced) /\ Inside' = Inside
  BY Zenon DEF vars, Inside
<1>2. OutsideFresh'
  BY <1>1 DEF TraceInv, OutsideFresh
<1>3. ASSUME ~raced, NEW d \in Inside PROVE d = c
  BY <1>3 DEF ExclusiveUnlessRaced, Inside
<1>4. ~raced => InsideRemembers'
  BY <1>1, <1>3 DEF InsideRemembers
<1> QED  BY <1>1, <1>2, <1>4, Zenon DEF TraceInv, KeptInv

\* The restart is over, or goes on: what names the evidence.
LEMMA NamesKept ==
  ASSUME EvidenceNamed, NEW c \in Clients, pc' = pc, mem[c].step # "restart",
         \A d \in Clients \ {c} : mem'[d] = mem[d],
         \A e : Named(e) => Named(e)', cut \subseteq cut',
         \A e \in DOMAIN evidence' : e \in DOMAIN evidence \/ Restarting(e)'
  PROVE  EvidenceNamed'
BY DEF EvidenceNamed, Restarting

LEMMA ThenFacts ==
  ASSUME Files, NEW c \in Clients, NEW s, Then(c, s)
  PROVE  /\ mem'[c].step = s
         /\ mem'[c].id = mem[c].id /\ mem'[c].seq = mem[c].seq /\ mem'[c].ev = mem[c].ev
         /\ \A d \in Clients \ {c} : mem'[d] = mem[d]
BY DEF Files, Then, Memory

LEMMA ReadTrace ==
  ASSUME TraceInv, KeptInv', ExclusiveUnlessRaced, NEW c \in Clients, Read(c)
  PROVE  TraceInv'
<1>1. /\ pc[c] = "inside" /\ mem[c].step = "read" /\ UNCHANGED vars /\ pc' = pc
      /\ UNCHANGED <<log, evidence, cut, failures>> /\ Files /\ failures \in Nat
  BY DEF Read, Now, vars, TraceInv
<1>2. \A d \in Clients \ {c} : mem'[d] = mem[d]
  <2>1. mem \in [Clients -> Memory]
    BY <1>1 DEF Files
  <2> QED  BY <2>1 DEF Read, Then
<1>3. ASSUME ~raced PROVE ChainKept' /\ EvidenceNamed'
  <2>1. ChainKept /\ EvidenceNamed
    BY <1>3 DEF TraceInv
  <2>2. ChainKept'
    BY <1>1, <2>1 DEF ChainKept, TornAtEnd, Checks
  <2>3. EvidenceNamed'
    BY <1>1, <1>2, <2>1, NamesKept DEF Named
  <2> QED  BY <2>2, <2>3
<1>4. ASSUME ~raced PROVE Remembers(c)'
  <2>1. mem[c].id = 0 /\ mem[c].seq = 0
    BY <1>1, <1>4 DEF TraceInv, InsideRemembers, Inside, Remembers
  <2>2. CASE log = <<>> /\ Then(c, "append")
    <3>1. mem'[c].step = "append" /\ mem'[c].id = 0 /\ mem'[c].seq = 0 /\ log' = <<>>
      BY <1>1, <2>1, <2>2, ThenFacts
    <3> QED  BY <3>1, EmptyChecks DEF Remembers, LastId, Checks
  <2>3. CASE /\ log # <<>> /\ Checks(log)
             /\ mem' = [mem EXCEPT ![c] = [step |-> "append", id |-> log[Len(log)].id,
                                           seq |-> log[Len(log)].seq, ev |-> 0]]
    <3>1. /\ mem'[c].step = "append" /\ mem'[c].id = log[Len(log)].id
          /\ mem'[c].seq = log[Len(log)].seq
      BY <1>1, <2>3 DEF Files
    <3>2. Len(log) \in DOMAIN log /\ log[Len(log)].seq = Len(log)
      BY <1>1, <2>3, EmptySeq, LenProperties DEF Files, Checks
    <3> QED  BY <1>1, <2>3, <3>1, <3>2 DEF Remembers, LastId, Checks
  <2>4. CASE Then(c, "rotate")
    <3>1. mem'[c].step = "rotate" /\ mem'[c].id = 0 /\ mem'[c].seq = 0
      BY <1>1, <2>1, <2>4, ThenFacts
    <3> QED  BY <3>1 DEF Remembers
  <2> QED  BY <2>2, <2>3, <2>4 DEF Read
<1> QED  BY <1>1, <1>2, <1>3, <1>4, InsideKeeps

LEMMA RotateTrace ==
  ASSUME TraceInv, KeptInv', ExclusiveUnlessRaced, NEW c \in Clients, Rotate(c)
  PROVE  TraceInv'
<1>1. /\ pc[c] = "inside" /\ mem[c].step = "rotate" /\ UNCHANGED vars /\ pc' = pc
      /\ UNCHANGED <<cut, failures>> /\ Files /\ failures \in Nat
  BY DEF Rotate, Now, vars, TraceInv
<1>2. CASE /\ log # <<>> /\ log' = <<>> /\ evidence' = Append(evidence, log)
           /\ mem' = [mem EXCEPT ![c].step = "restart", ![c].ev = Len(evidence')]
  <2>1. /\ mem'[c].step = "restart" /\ mem'[c].id = mem[c].id /\ mem'[c].seq = mem[c].seq
        /\ mem'[c].ev = Len(evidence') /\ \A d \in Clients \ {c} : mem'[d] = mem[d]
    BY <1>1, <1>2 DEF Files, Memory
  <2>2. ASSUME ~raced PROVE ChainKept'
    BY <1>2, EmptyChecks DEF ChainKept, Checks
  <2>3. ASSUME ~raced PROVE EvidenceNamed'
    <3>1. \A e : e = Len(evidence') => Restarting(e)'
      BY <1>1, <2>1 DEF Restarting
    <3>2. EvidenceNamed
      BY <2>3 DEF TraceInv
    <3> QED  BY <1>1, <1>2, <2>1, <3>1, <3>2, NamesMove, NamesKept
  <2>4. ASSUME ~raced PROVE Remembers(c)'
    <3>1. mem[c].id = 0 /\ mem[c].seq = 0
      BY <1>1, <2>4 DEF TraceInv, InsideRemembers, Inside, Remembers
    <3> QED  BY <1>2, <2>1, <3>1 DEF Remembers
  <2> QED  BY <1>1, <2>1, <2>2, <2>3, <2>4, InsideKeeps
<1>3. CASE log = <<>> /\ Then(c, "done") /\ UNCHANGED <<log, evidence>>
  <2>1. mem'[c].step = "done" /\ \A d \in Clients \ {c} : mem'[d] = mem[d]
    BY <1>1, <1>3, ThenFacts
  <2>2. ASSUME ~raced PROVE ChainKept'
    BY <1>3, EmptyChecks DEF ChainKept, Checks
  <2>3. ASSUME ~raced PROVE EvidenceNamed'
    <3>1. EvidenceNamed
      BY <2>3 DEF TraceInv
    <3> QED  BY <1>1, <1>3, <2>1, <3>1, NamesKept DEF Named
  <2>4. Remembers(c)'
    BY <2>1 DEF Remembers
  <2> QED  BY <1>1, <2>1, <2>2, <2>3, <2>4, InsideKeeps
<1> QED  BY <1>2, <1>3 DEF Rotate

LEMMA RestartTrace ==
  ASSUME TraceInv, KeptInv', ExclusiveUnlessRaced, NEW c \in Clients, Restart(c)
  PROVE  TraceInv'
<1>1. /\ pc[c] = "inside" /\ mem[c].step = "restart" /\ UNCHANGED vars /\ pc' = pc
      /\ UNCHANGED <<cut, failures, evidence>> /\ Files /\ failures \in Nat
  BY DEF Restart, Now, vars, TraceInv
<1>2. ASSUME ~raced PROVE log = <<>> /\ mem[c].id = 0 /\ mem[c].seq = 0
  BY <1>1, <1>2 DEF TraceInv, InsideRemembers, Inside, Remembers
<1>3. CASE /\ log = <<>> /\ made < MaxRecords /\ made' = made + 1 /\ log' = <<NewLine(c)>>
           /\ mem' = [mem EXCEPT ![c] = [step |-> "append", id |-> made', seq |-> 1, ev |-> 0]]
  <2>1. /\ mem'[c].step = "append" /\ mem'[c].id = made + 1 /\ mem'[c].seq = 1
        /\ \A d \in Clients \ {c} : mem'[d] = mem[d]
    BY <1>1, <1>3 DEF Files
  <2>2. /\ log' = Append(log, NewLine(c)) /\ NewLine(c) \in Lines /\ NewLine(c).id = made + 1
        /\ NewLine(c).seq = mem[c].seq + 1 /\ NewLine(c).prev = mem[c].id
        /\ NewLine(c).ev = mem[c].ev /\ made \in Nat
    <3>1. log' = Append(log, NewLine(c))
      BY <1>3
    <3> QED  BY <1>1, <3>1, NewLineIsLine DEF NewLine, Files
  <2>3. ASSUME ~raced PROVE Checks(log')
    <3>1. Len(log) = 0 /\ LastId = 0
      BY <1>2, <2>3 DEF LastId
    <3>2. Checks(log)
      BY <1>2, <2>3, EmptyChecks
    <3>3. NewLine(c).id # 0 /\ NewLine(c).seq = Len(log) + 1 /\ NewLine(c).prev = LastId
      BY <1>2, <2>2, <2>3, <3>1
    <3> QED  BY <1>1, <2>2, <3>2, <3>3, ChainGrows
  <2>4. ASSUME ~raced PROVE EvidenceNamed'
    <3>1. EvidenceNamed
      BY <2>4 DEF TraceInv
    <3>2. \A e : Named(e) \/ e = mem[c].ev => Named(e)'
      BY <1>1, <2>2, NamesGrow
    <3>3. ASSUME NEW e, Restarting(e) PROVE Named(e)' \/ Restarting(e)'
      BY <1>1, <2>1, <3>2, <3>3 DEF Restarting
    <3> QED  BY <1>1, <3>1, <3>2, <3>3 DEF EvidenceNamed
  <2>5. ASSUME ~raced PROVE Remembers(c)'
    <3>1. log' # <<>> /\ Len(log') = 1 /\ log'[1].id = made + 1
      BY <1>3, <2>2
    <3>2. LastId' = made + 1 /\ Checks(log')
      BY <2>3, <2>5, <3>1 DEF LastId
    <3> QED  BY <2>1, <3>1, <3>2 DEF Remembers, Checks
  <2>6. ASSUME ~raced PROVE ChainKept'
    BY <2>3, <2>6 DEF ChainKept, Checks
  <2> QED  BY <1>1, <2>1, <2>4, <2>5, <2>6, InsideKeeps
<1>4. CASE log # <<>> /\ Then(c, "done") /\ UNCHANGED <<log, made>>
  <2>1. \A d \in Clients \ {c} : mem'[d] = mem[d]
    BY <1>1, <1>4, ThenFacts
  <2> QED  BY <1>1, <1>2, <1>4, <2>1, InsideKeeps
<1> QED  BY <1>3, <1>4 DEF Restart

LEMMA AppendTrace ==
  ASSUME TraceInv, KeptInv', ExclusiveUnlessRaced, NEW c \in Clients, AppendRecord(c)
  PROVE  TraceInv'
<1>1. /\ pc[c] = "inside" /\ mem[c].step = "append" /\ UNCHANGED vars /\ pc' = pc
      /\ UNCHANGED <<cut, failures, evidence>> /\ Files /\ failures \in Nat
      /\ log' = Append(log, NewLine(c)) /\ Then(c, "done")
  BY DEF AppendRecord, Now, vars, TraceInv
<1>2. mem'[c].step = "done" /\ \A d \in Clients \ {c} : mem'[d] = mem[d]
  BY <1>1, ThenFacts
<1>3. /\ NewLine(c) \in Lines /\ NewLine(c).id = made + 1 /\ made \in Nat
      /\ NewLine(c).seq = mem[c].seq + 1 /\ NewLine(c).prev = mem[c].id
  BY <1>1, NewLineIsLine DEF NewLine, Files
<1>4. ASSUME ~raced PROVE ChainKept'
  <2>1. Checks(log) /\ mem[c].id = LastId /\ mem[c].seq = Len(log)
    BY <1>1, <1>4 DEF TraceInv, InsideRemembers, Inside, Remembers
  <2>2. NewLine(c).id # 0
    BY <1>3
  <2>3. Checks(log')
    BY <1>1, <1>3, <2>1, <2>2, ChainGrows
  <2> QED  BY <2>3 DEF ChainKept, Checks
<1>5. ASSUME ~raced PROVE EvidenceNamed'
  <2>1. EvidenceNamed
    BY <1>5 DEF TraceInv
  <2>2. \A e : Named(e) => Named(e)'
    BY <1>1, <1>3, NamesGrow
  <2> QED  BY <1>1, <1>2, <2>1, <2>2, NamesKept
<1>6. Remembers(c)'
  BY <1>2 DEF Remembers
<1> QED  BY <1>1, <1>2, <1>4, <1>5, <1>6, InsideKeeps

LEMMA FailTrace ==
  ASSUME TraceInv, KeptInv', ExclusiveUnlessRaced, NEW c \in Clients, WriteFails(c)
  PROVE  TraceInv'
<1>1. /\ pc[c] = "inside" /\ UNCHANGED vars /\ pc' = pc
      /\ (mem[c].step = "restart" /\ log = <<>>) \/ mem[c].step = "append"
      /\ Then(c, "done") /\ UNCHANGED evidence /\ log' \in {log, Append(log, Torn)}
      /\ cut' = cut \union {e \in {mem[c].ev} : mem[c].step = "restart"}
      /\ Files /\ failures \in Nat /\ failures' = failures + 1 /\ failures' \in Nat
  BY DEF WriteFails, Now, vars, TraceInv
<1>2. mem'[c].step = "done" /\ \A d \in Clients \ {c} : mem'[d] = mem[d]
  BY <1>1, ThenFacts
<1>3. ASSUME ~raced PROVE ChainKept'
  <2>1. Checks(log)
    <3>1. CASE log = <<>>
      BY <3>1, EmptyChecks
    <3>2. CASE mem[c].step = "append"
      BY <1>1, <1>3, <3>2 DEF TraceInv, InsideRemembers, Inside, Remembers
    <3> QED  BY <1>1, <3>1, <3>2
  <2>2. CASE log' = log
    BY <2>1, <2>2 DEF ChainKept, Checks
  <2>3. CASE log' = Append(log, Torn)
    BY <1>1, <2>1, <2>3, ChainTears DEF ChainKept
  <2> QED  BY <1>1, <2>2, <2>3
<1>4. ASSUME ~raced PROVE EvidenceNamed'
  <2>1. EvidenceNamed
    BY <1>4 DEF TraceInv
  <2>2. \A e : Named(e) => Named(e)'
    <3>1. CASE log' = log
      BY <1>1, <3>1 DEF Named
    <3>2. CASE log' = Append(log, Torn)
      BY <1>1, <3>2, NewLineIsLine, NamesGrow
    <3> QED  BY <1>1, <3>1, <3>2
  <2>3. ASSUME NEW e, Restarting(e) PROVE e \in cut' \/ Restarting(e)'
    BY <1>1, <1>2, <2>3 DEF Restarting
  <2> QED  BY <1>1, <2>1, <2>2, <2>3 DEF EvidenceNamed
<1>5. Remembers(c)'
  BY <1>2 DEF Remembers
<1> QED  BY <1>1, <1>2, <1>3, <1>4, <1>5, InsideKeeps

LEMMA LookTrace ==
  ASSUME TraceInv, KeptInv', ExclusiveUnlessRaced, NEW c \in Clients, Look(c)
  PROVE  TraceInv'
<1>1. /\ pc[c] = "inside" /\ mem[c].step = "read" /\ UNCHANGED vars /\ pc' = pc /\ Then(c, "done")
      /\ UNCHANGED <<log, evidence, cut, failures>> /\ Files /\ failures \in Nat
  BY DEF Look, Now, vars, TraceInv
<1>2. mem'[c].step = "done" /\ \A d \in Clients \ {c} : mem'[d] = mem[d]
  BY <1>1, ThenFacts
<1>3. ASSUME ~raced PROVE ChainKept' /\ EvidenceNamed'
  <2>1. ChainKept /\ EvidenceNamed
    BY <1>3 DEF TraceInv
  <2>2. ChainKept'
    BY <1>1, <2>1 DEF ChainKept, TornAtEnd, Checks
  <2>3. EvidenceNamed'
    BY <1>1, <1>2, <2>1, NamesKept DEF Named
  <2> QED  BY <2>2, <2>3
<1>4. Remembers(c)'
  BY <1>2 DEF Remembers
<1> QED  BY <1>1, <1>2, <1>3, <1>4, InsideKeeps

-----------------------------------------------------------------------------
(* Steps of the lock: who enters has nothing to remember yet, and nobody    *)
(* leaves between a rotation and its recovery record.                       *)

\* A step of the lock moves one client, into the lock only from "opened".
LEMMA MovesOne ==
  ASSUME TypeOK, NEW c \in Clients, LockStep(c)
  PROVE  /\ \A d \in Clients \ {c} : pc'[d] = pc[d]
         /\ pc[c] = "inside" => pc'[c] \in {"leaving", "dead"}
         /\ pc'[c] = "inside" => pc[c] = "opened"
         /\ pc[c] # "dead" \/ pc'[c] = "dead"
         /\ pc'[c] = "leaving" => mem[c].step = "done" /\ mem' = [mem EXCEPT ![c] = Fresh]
         /\ pc'[c] # "leaving" => mem' = mem
<1>1. pc \in [Clients -> Steps]
  BY DEF TypeOK
<1>2. ASSUME NEW s, Goto(c, s)
      PROVE  pc'[c] = s /\ \A d \in Clients \ {c} : pc'[d] = pc[d]
  BY <1>1, <1>2 DEF Goto
<1>3. CASE (Stat(c) \/ RemoveStale(c)) /\ mem' = mem
  <2>1. \E s \in {"stale", "open", "idle"} : Goto(c, s)
    BY <1>3 DEF Stat, RemoveStale, NextAttempt
  <2>2. pc[c] \in {"exists", "stale"}
    BY <1>3 DEF Stat, RemoveStale
  <2> QED  BY <1>2, <1>3, <2>1, <2>2
<1>4. CASE (Begin(c) \/ Open(c) \/ Fill(c) \/ ReadNonce(c) \/ RemoveOwn(c) \/ Crash(c)) /\ mem' = mem
  BY <1>2, <1>4 DEF Begin, Open, Fill, ReadNonce, RemoveOwn, Crash
<1>5. CASE mem[c].step = "done" /\ Leave(c) /\ mem' = [mem EXCEPT ![c] = Fresh]
  BY <1>2, <1>5 DEF Leave
<1> QED  BY <1>3, <1>4, <1>5 DEF LockStep, auditVars

LEMMA LockTrace ==
  ASSUME IInv, TraceInv, KeptInv', ~raced' => ~raced, NEW c \in Clients, LockStep(c)
  PROVE  TraceInv'
<1>1. /\ \A d \in Clients \ {c} : pc'[d] = pc[d]
      /\ pc[c] = "inside" => pc'[c] \in {"leaving", "dead"}
      /\ pc'[c] = "inside" => pc[c] = "opened"
      /\ pc[c] # "dead" \/ pc'[c] = "dead"
      /\ pc'[c] = "leaving" => mem[c].step = "done" /\ mem' = [mem EXCEPT ![c] = Fresh]
      /\ pc'[c] # "leaving" => mem' = mem
  BY MovesOne DEF IInv
<1>2. UNCHANGED <<log, evidence, cut, failures>> /\ mem \in [Clients -> Memory]
  BY DEF LockStep, auditVars, TraceInv, Files
<1>3. /\ \A d \in Clients \ {c} : mem'[d] = mem[d]
      /\ pc'[c] = "leaving" => mem[c].step = "done" /\ mem'[c] = Fresh
      /\ pc'[c] # "leaving" => mem'[c] = mem[c]
  BY <1>1, <1>2
<1>4. OutsideFresh'
  BY <1>1, <1>3 DEF TraceInv, OutsideFresh
<1>5. ASSUME ~raced' PROVE ChainKept' /\ EvidenceNamed' /\ InsideRemembers'
  <2>1. ChainKept /\ EvidenceNamed /\ InsideRemembers
    BY <1>5 DEF TraceInv
  <2>2. ChainKept'
    BY <1>2, <2>1 DEF ChainKept, TornAtEnd, Checks
  <2>3. EvidenceNamed'
    <3>1. \A e : Named(e) => Named(e)'
      BY <1>2 DEF Named
    <3>2. ASSUME NEW e, Restarting(e) PROVE Restarting(e)'
      BY <1>1, <1>3, <3>2 DEF Restarting
    <3> QED  BY <1>2, <2>1, <3>1, <3>2 DEF EvidenceNamed
  <2>4. ASSUME NEW d \in Inside' PROVE Remembers(d)'
    <3>1. CASE d = c
      <4>1. pc[c] = "opened" /\ mem'[c] = Fresh
        BY <1>1, <1>3, <2>4, <3>1 DEF Inside, TraceInv, OutsideFresh
      <4> QED  BY <3>1, <4>1 DEF Remembers, Fresh
    <3>2. CASE d # c
      <4>1. Remembers(d) /\ mem'[d] = mem[d]
        BY <1>1, <1>3, <2>1, <2>4, <3>2 DEF Inside, InsideRemembers
      <4> QED  BY <1>2, <4>1 DEF Remembers, LastId, Checks
    <3> QED  BY <3>1, <3>2
  <2> QED  BY <2>2, <2>3, <2>4 DEF InsideRemembers
<1> QED  BY <1>2, <1>4, <1>5, Zenon DEF TraceInv, KeptInv

LEMMA SameTrace ==
  ASSUME TraceInv, UNCHANGED auditVars, pc' = pc, raced' = raced
  PROVE  TraceInv'
<1>1. UNCHANGED <<log, evidence, mem, made, cut, failures>>
  BY DEF auditVars
<1>2. Files' /\ OutsideFresh' /\ failures' \in Nat
  BY <1>1 DEF TraceInv, Files, OutsideFresh
<1>3. ChainKept => ChainKept'
  BY <1>1 DEF ChainKept, TornAtEnd, Checks
<1>4. EvidenceNamed => EvidenceNamed'
  BY <1>1 DEF EvidenceNamed, Named, Restarting
<1>5. InsideRemembers => InsideRemembers'
  BY <1>1 DEF InsideRemembers, Inside, Remembers, LastId, Checks
<1> QED  BY <1>2, <1>3, <1>4, <1>5, Zenon DEF TraceInv

LEMMA InitTrace == AuditInit => TraceInv
<1> SUFFICES ASSUME AuditInit PROVE TraceInv
  OBVIOUS
<1>1. Files
  BY InitKept DEF KeptInv
<1>2. OutsideFresh /\ InsideRemembers /\ failures \in Nat
  BY DEF AuditInit, Init, OutsideFresh, InsideRemembers, Inside
<1>3. ChainKept /\ EvidenceNamed
  BY EmptyChecks DEF AuditInit, ChainKept, EvidenceNamed
<1> QED  BY <1>1, <1>2, <1>3 DEF TraceInv

LEMMA StepTrace == IInv /\ KeptInv /\ TraceInv /\ [AuditNext]_allVars => TraceInv'
<1> SUFFICES ASSUME IInv, KeptInv, TraceInv, [AuditNext]_allVars PROVE TraceInv'
  OBVIOUS
<1>1. KeptInv' /\ ExclusiveUnlessRaced /\ (~raced' => ~raced)
  BY StepKept, RaceRemembered, LockSteps
  DEF IInv, ExclusiveUnlessRaced, Alone, Owners, Inside
<1>2. CASE UNCHANGED allVars
  <2>1. UNCHANGED auditVars /\ pc' = pc /\ raced' = raced
    BY <1>2, Zenon DEF allVars, vars
  <2> QED  BY <2>1, SameTrace
<1>3. CASE Age /\ UNCHANGED auditVars
  <2>1. pc' = pc /\ raced' = raced
    BY <1>3, Zenon DEF Age
  <2> QED  BY <1>3, <2>1, SameTrace
<1>4. ASSUME NEW c \in Clients, LockStep(c)
      PROVE  TraceInv'
  BY <1>1, <1>4, LockTrace
<1>5. ASSUME NEW c \in Clients, InsideStep(c)
      PROVE  TraceInv'
  BY <1>1, <1>5, ReadTrace, RotateTrace, RestartTrace, AppendTrace, FailTrace, LookTrace
  DEF InsideStep
<1> QED  BY <1>2, <1>3, <1>4, <1>5 DEF AuditNext

THEOREM TraceInvariance == AuditSpec => []TraceInv
<1>1. AuditSpec => []KeptInv
  BY InitKept, StepKept, PTL DEF AuditSpec
<1>2. AuditSpec => []IInv
  BY LogRefinesLock, Invariance, PTL
<1> QED  BY <1>1, <1>2, InitTrace, StepTrace, PTL DEF AuditSpec

\* For any number of clients, records, failed writes and exits: while no two
\* waiters broke one lock, the chain checks up to a torn last line, and every
\* damaged chain that was moved away is named by a recovery record, unless its
\* write failed or its process exited.
THEOREM Traceable == AuditSpec => []LogIsTraceable
<1>1. TraceInv => LogIsTraceable
  BY DEF TraceInv, ChainKept, TornAtEnd, EvidenceNamed, Restarting, LogIsTraceable
<1> QED  BY <1>1, TraceInvariance, PTL
=============================================================================
