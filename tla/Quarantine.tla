------------------------------ MODULE Quarantine ------------------------------
(***************************************************************************)
(* The quarantine of an endpoint: encrypted containers, the index of their *)
(* records with its last-known-good copy, and the operations that several  *)
(* processes (agent, dashboard, command line) run on them at once.         *)
(*                                                                         *)
(* An operation can be interrupted between any two calls on the file       *)
(* system.  WriterLock models the lock of the index in detail; here it     *)
(* excludes, and ends with the process that holds it.  A path holds the    *)
(* file that was detected, something a user wrote later, or nothing.       *)
(***************************************************************************)
EXTENDS Naturals

CONSTANTS
  Files,       \* paths of detected files
  Ids,         \* identifiers of containers
  Ops,         \* operations in progress at once, in any process
  Kinds,       \* kinds of operation that are begun
  Gone,        \* an index file that does not exist
  Corrupt,     \* one that is not a valid index
  MaxDamage,   \* bound on damages to the index or its copy
  MaxFailures  \* bound on exits of a process and failed writes

AllKinds == {"quarantine", "restore", "delete", "list"}

VARIABLES
  file,     \* file[f]: what the path holds; an operation that still writes it
  cont,     \* cont[i]: the file that container i holds
  temp,     \* temp[i]: temporary file of a restore of i
  index,    \* index.json
  backup,   \* index.last-good.json
  writer,   \* the operation that holds the writer lock
  op,       \* op[o]: operation o
  source,   \* source[i]: original path of container i
  acked,    \* history: containers whose quarantineFile returned
  asked,    \* history: asked[i], restores and deletions asked of container i
  damage, failures

vars == <<file, cont, temp, index, backup, writer, op, source, acked, asked, damage, failures>>
counts == <<damage, failures>>

States == {"absent", "quarantined", "restored", "deleted", "missing", "orphaned"}
Records == [Ids -> States]
Empty == [i \in Ids |-> "absent"]
Lost == {Gone, Corrupt}

ASSUME QuarantineAssumption ==
  /\ Kinds \subseteq AllKinds /\ MaxDamage \in Nat /\ MaxFailures \in Nat
  /\ {"none", "item", "new", "full", "torn"} \intersect Ops = {}
  /\ Gone # Corrupt /\ Lost \intersect Records = {} /\ "none" \notin Files \union Ids

Idle == [pc |-> "idle", next |-> "idle", kind |-> "list", id |-> "none", as |-> "absent", base |-> Empty]

Init ==
  /\ file = [f \in Files |-> "item"] /\ cont = [i \in Ids |-> "none"]
  /\ temp = [i \in Ids |-> "none"]
  /\ index = Gone /\ backup = Gone /\ writer = "none"
  /\ op = [o \in Ops |-> Idle] /\ source = [i \in Ids |-> "none"]
  /\ acked = {} /\ asked = [i \in Ids |-> {}] /\ damage = 0 /\ failures = 0

Valid(ix) == ix \notin Lost
Goto(o, pc) ==
  op' = [op EXCEPT ![o] = IF pc = "idle" THEN Idle ELSE [@ EXCEPT !.pc = pc, !.base = Empty, !.next = "idle"]]
Finish(o) == op' = [op EXCEPT ![o] = Idle]
Record(o, as) == op' = [op EXCEPT ![o].pc = "update", ![o].as = as]

\* Neither an index nor anything it could be rebuilt from.
Unused == index = Gone /\ backup = Gone /\ \A i \in Ids : cont[i] = "none"

-----------------------------------------------------------------------------
(* The index: updateIndex, readIndex, recoverIndex, writeIndex.            *)

\* What the transforms of the operations do to the record of i.
Recorded(ix, i, as) ==
  IF as \in {"restored", "deleted"} /\ ix[i] = "absent" THEN ix ELSE [ix EXCEPT ![i] = as]

\* Where an operation that found the index ix goes on.
AfterRead(o, ix) ==
  IF op[o].kind = "restore" /\ ix[op[o].id] = "quarantined" THEN "check"
  ELSE IF op[o].kind = "delete" /\ ix[op[o].id] # "absent" THEN "erase" ELSE "idle"

\* Where one goes on after an update.
AfterUpdate(o) == IF op[o].as = "quarantined" THEN "remove" ELSE "idle"

Write(o, ix, next) ==
  /\ writer' = o
  /\ op' = [op EXCEPT ![o].pc = "backup", ![o].base = ix, ![o].next = next]

Update(o, ix) == Write(o, Recorded(ix, op[o].id, op[o].as), AfterUpdate(o))

\* Mutant: the lost index is recovered without releasing the lock.
RecoverInside(o) ==
  /\ op[o].pc = "update" /\ writer = "none"
  /\ \/ Valid(index) /\ Update(o, index)
     \/ Unused /\ Update(o, Empty)
     \/ ~Valid(index) /\ ~Unused /\ Goto(o, "recover") /\ writer' = o
  /\ UNCHANGED <<file, cont, temp, index, backup, source, acked, asked, counts>>

\* The first read under the lock; an index that is lost is recovered after
\* the lock was released.
UpdateIndex(o) ==
  /\ op[o].pc = "update" /\ writer = "none"
  /\ \/ Valid(index) /\ Update(o, index)
     \/ Unused /\ Update(o, Empty)
     \/ ~Valid(index) /\ ~Unused /\ Goto(o, "recover") /\ UNCHANGED writer
  /\ UNCHANGED <<file, cont, temp, index, backup, source, acked, asked, counts>>

\* The second one, after the recovery.
RetryUpdate(o) ==
  /\ op[o].pc = "retry" /\ writer = "none"
  /\ \/ Valid(index) /\ Update(o, index)
     \/ ~Valid(index) /\ Finish(o) /\ UNCHANGED writer
  /\ UNCHANGED <<file, cont, temp, index, backup, source, acked, asked, counts>>

\* reconcileIndex against the containers found.
Reconcile(ix) == [i \in Ids |->
  IF ix[i] = "quarantined" /\ cont[i] = "none" THEN "missing"
  ELSE IF ix[i] = "absent" /\ cont[i] # "none" THEN "orphaned" ELSE ix[i]]

\* recoverIndex up to the write: the lost index is moved away as evidence.
RecoverIndex(o) ==
  /\ op[o].pc = "recover" /\ writer = "none"
  /\ \/ /\ Valid(index)
        /\ Goto(o, IF op[o].next = "read" THEN AfterRead(o, index) ELSE "retry")
        /\ UNCHANGED <<writer, index>>
     \/ /\ ~Valid(index)
        /\ LET base == Reconcile(IF Valid(backup) THEN backup ELSE Empty)
           IN Write(o, base, IF op[o].next = "read" THEN AfterRead(o, base) ELSE "retry")
        /\ index' = Gone
  /\ UNCHANGED <<file, cont, temp, backup, source, acked, asked, counts>>

\* readIndex, without the lock.
ReadIndex(o) ==
  /\ op[o].pc = "read"
  /\ \/ Valid(index) /\ Goto(o, AfterRead(o, index))
     \/ Unused /\ Goto(o, "idle")
     \/ /\ ~Valid(index) /\ ~Unused
        /\ op' = [op EXCEPT ![o].pc = "recover", ![o].next = "read"]
  /\ UNCHANGED <<file, cont, temp, index, backup, writer, source, acked, asked, counts>>

\* Mutant: the copy is not written.
SkipBackup(o) ==
  /\ op[o].pc = "backup" /\ op' = [op EXCEPT ![o].pc = "index"]
  /\ UNCHANGED <<file, cont, temp, index, backup, writer, source, acked, asked, counts>>

\* writeIndex: the copy first, then the index; the lock is released at the end.
WriteBackup(o) ==
  /\ op[o].pc = "backup" /\ backup' = op[o].base /\ op' = [op EXCEPT ![o].pc = "index"]
  /\ UNCHANGED <<file, cont, temp, index, writer, source, acked, asked, counts>>

WriteIndex(o) ==
  /\ op[o].pc = "index" /\ index' = op[o].base /\ writer' = "none" /\ Goto(o, op[o].next)
  /\ UNCHANGED <<file, cont, temp, backup, source, acked, asked, counts>>

\* A write that fails ends an update; a recovery goes on with what it found.
WriteFails(o) ==
  /\ op[o].pc \in {"backup", "index"} /\ failures < MaxFailures
  /\ writer' = "none" /\ failures' = failures + 1
  /\ IF op[o].next \in {"retry", "check", "erase"} THEN Goto(o, op[o].next) ELSE Finish(o)
  /\ UNCHANGED <<file, cont, temp, index, backup, source, acked, asked, damage>>

-----------------------------------------------------------------------------
(* quarantineFile.                                                         *)

BeginQuarantine(o, i, f) ==
  /\ "quarantine" \in Kinds /\ op[o].pc = "idle" /\ source[i] = "none" /\ file[f] = "item"
  /\ op' = [op EXCEPT ![o] = [Idle EXCEPT !.pc = "seal", !.kind = "quarantine", !.id = i]]
  /\ source' = [source EXCEPT ![i] = f]
  /\ UNCHANGED <<file, cont, temp, index, backup, writer, acked, asked, counts>>

\* The finished container gets its name; the copy of the file is complete.
Seal(o) ==
  /\ op[o].pc = "seal" /\ Record(o, "quarantined")
  /\ cont' = [cont EXCEPT ![op[o].id] = source[op[o].id]]
  /\ UNCHANGED <<file, temp, index, backup, writer, source, acked, asked, counts>>

\* The source is removed, or it cannot be.
RemoveSource(o) ==
  LET i == op[o].id
      f == source[i]
  IN /\ op[o].pc = "remove"
     /\ \/ /\ file[f] # "none" /\ file' = [file EXCEPT ![f] = "none"]
           /\ acked' = acked \union {i} /\ Finish(o)
        \/ Goto(o, "discard") /\ UNCHANGED <<file, acked>>
  /\ UNCHANGED <<cont, temp, index, backup, writer, source, asked, counts>>

\* The copy of a source that could not be removed goes away, with its record.
Discard(o) ==
  /\ op[o].pc = "discard" /\ Record(o, "absent")
  /\ cont' = [cont EXCEPT ![op[o].id] = "none"]
  /\ UNCHANGED <<file, temp, index, backup, writer, source, acked, asked, counts>>

-----------------------------------------------------------------------------
(* listQuarantine, restoreQuarantine, deleteQuarantine.                    *)

BeginRead(o, kind, i) ==
  /\ kind \in Kinds \ {"quarantine"} /\ op[o].pc = "idle" /\ source[i] # "none"
  /\ op' = [op EXCEPT ![o] = [Idle EXCEPT !.pc = "read", !.kind = kind, !.id = i]]
  /\ asked' = [asked EXCEPT ![i] = @ \union ({kind} \ {"list"})]
  /\ UNCHANGED <<file, cont, temp, index, backup, writer, source, acked, counts>>

\* The destination is free, or the restore is refused.
CheckDestination(o) ==
  /\ op[o].pc = "check"
  /\ IF file[source[op[o].id]] = "none" THEN Goto(o, "decrypt") ELSE Finish(o)
  /\ UNCHANGED <<file, cont, temp, index, backup, writer, source, acked, asked, counts>>

\* Mutant: the container is removed as soon as its restore begins.
OpenAndErase(o) ==
  LET i == op[o].id
  IN /\ op[o].pc = "decrypt"
     /\ IF cont[i] # "none" /\ temp[i] = "none"
        THEN temp' = [temp EXCEPT ![i] = o] /\ Goto(o, "writing")
        ELSE temp' = [temp EXCEPT ![i] = "none"] /\ Finish(o)
     /\ cont' = [cont EXCEPT ![i] = "none"]
  /\ UNCHANGED <<file, index, backup, writer, source, acked, asked, counts>>

\* The temporary file is created exclusively; a failure removes it, whoever
\* created it.
OpenTemporary(o) ==
  LET i == op[o].id
  IN /\ op[o].pc = "decrypt"
     /\ IF cont[i] # "none" /\ temp[i] = "none"
        THEN temp' = [temp EXCEPT ![i] = o] /\ Goto(o, "writing")
        ELSE temp' = [temp EXCEPT ![i] = "none"] /\ Finish(o)
  /\ UNCHANGED <<file, cont, index, backup, writer, source, acked, asked, counts>>

\* The last byte is written to the file that was opened, wherever it is now.
FinishTemporary(o) ==
  /\ op[o].pc = "writing" /\ Goto(o, "rename")
  /\ temp' = [i \in Ids |-> IF temp[i] = o THEN "full" ELSE temp[i]]
  /\ file' = [f \in Files |-> IF file[f] = o THEN "item" ELSE file[f]]
  /\ UNCHANGED <<cont, index, backup, writer, source, acked, asked, counts>>

\* Whatever has the temporary name moves to the destination.
MoveTemporary(o) ==
  LET i == op[o].id
  IN /\ op[o].pc = "rename"
     /\ \/ temp[i] = "none" /\ Finish(o) /\ UNCHANGED <<file, temp>>
        \/ /\ temp[i] # "none" /\ temp' = [temp EXCEPT ![i] = "none"]
           /\ file' = [file EXCEPT ![source[i]] = IF temp[i] = "full" THEN "item" ELSE temp[i]]
           /\ Record(o, "restored")
  /\ UNCHANGED <<cont, index, backup, writer, source, acked, asked, counts>>

Erase(o) ==
  /\ op[o].pc = "erase" /\ cont' = [cont EXCEPT ![op[o].id] = "none"] /\ Record(o, "deleted")
  /\ UNCHANGED <<file, temp, index, backup, writer, source, acked, asked, counts>>

-----------------------------------------------------------------------------
(* The surroundings.                                                       *)

\* The process of an operation exits, or a call of it fails for good.
Abandon(o) ==
  /\ op[o].pc # "idle" /\ failures < MaxFailures /\ failures' = failures + 1 /\ Finish(o)
  /\ writer' = IF writer = o THEN "none" ELSE writer
  /\ temp' = [i \in Ids |-> IF temp[i] = o THEN "torn" ELSE temp[i]]
  /\ file' = [f \in Files |-> IF file[f] = o THEN "torn" ELSE file[f]]
  /\ UNCHANGED <<cont, index, backup, source, acked, asked, damage>>

\* Something else is written where a file was quarantined.
UserWrites(f) ==
  /\ file[f] = "none" /\ file' = [file EXCEPT ![f] = "new"]
  /\ UNCHANGED <<cont, temp, index, backup, writer, op, source, acked, asked, counts>>

\* The index or its copy is deleted or cannot be parsed any more.
Damage(how) ==
  /\ damage < MaxDamage /\ damage' = damage + 1
  /\ \/ index # Gone /\ index' = how /\ UNCHANGED backup
     \/ backup # Gone /\ backup' = how /\ UNCHANGED index
  /\ UNCHANGED <<file, cont, temp, writer, op, source, acked, asked, failures>>

OpStep(o) ==
  \/ UpdateIndex(o) \/ RetryUpdate(o) \/ RecoverIndex(o) \/ ReadIndex(o)
  \/ WriteBackup(o) \/ WriteIndex(o) \/ Seal(o) \/ RemoveSource(o) \/ Discard(o)
  \/ CheckDestination(o) \/ OpenTemporary(o) \/ FinishTemporary(o) \/ MoveTemporary(o) \/ Erase(o)

Next ==
  \/ \E o \in Ops : OpStep(o) \/ WriteFails(o) \/ Abandon(o)
  \/ \E o \in Ops, i \in Ids, f \in Files : BeginQuarantine(o, i, f)
  \/ \E o \in Ops, i \in Ids, kind \in AllKinds : BeginRead(o, kind, i)
  \/ \E f \in Files : UserWrites(f)
  \/ \E how \in Lost : Damage(how)

Spec == Init /\ [][Next]_vars

-----------------------------------------------------------------------------
(* Properties.                                                             *)

\* A file whose quarantineFile returned, and that nobody restored or deleted,
\* keeps its container, and every readable index still lists it: as
\* quarantined, so that it can be restored, unless index and copy were both
\* lost (updateIndex, recoverIndex and reconcileIndex of quarantine.js under
\* exits, concurrent operations and damage).
AcknowledgedSurvives ==
  \A i \in acked : asked[i] = {} =>
    /\ cont[i] = source[i]
    /\ Valid(index) => index[i] = "quarantined" \/ (damage > 1 /\ index[i] = "orphaned")

\* A detected file is at its path or in a container until a deletion of a
\* container of it was asked for, whatever two quarantines of one path, a
\* restore and an exit do in between.
NothingLost ==
  \A f \in Files : file[f] = "item" \/
    \E i \in Ids : source[i] = f /\ (cont[i] = f \/ "delete" \in asked[i])

\* An operation that waits for the writer lock is not the one that holds it:
\* an update that finds the index lost releases the lock before the recovery
\* takes it (updateIndex and recoverIndex of quarantine.js).
NoWaitForOwnLock ==
  \A o \in Ops : writer = o => op[o].pc \in {"backup", "index"}
=============================================================================
