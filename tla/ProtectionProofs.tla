--------------------------- MODULE ProtectionProofs ---------------------------
(***************************************************************************)
(* What was quarantined stays: for any number of paths, containers,        *)
(* operations, exits, failed writes and damages to the index.  And no file *)
(* that realtime protection was told of is forgotten: for any number of    *)
(* files, writes, stops and inspections at once.                           *)
(***************************************************************************)
EXTENDS Quarantine, RealtimeProtection, FiniteSetTheorems, SequenceTheorems, TLAPS

-----------------------------------------------------------------------------
(* Quarantine: the inductive invariant.                                    *)

Updating == {"update", "recover", "retry", "backup", "index"}
Writing  == {"backup", "index"}
Restoring == {"decrypt", "writing", "rename"}
Steps == {"idle", "seal", "remove", "discard", "read", "check", "erase"} \union Restoring \union Updating
Operations == [pc : Steps, next : Steps, kind : AllKinds, id : Ids \union {"none"},
               as : States, base : Records]

TypeOK ==
  /\ file \in [Files -> {"item", "new", "torn", "none"} \union Ops]
  /\ cont \in [Ids -> Files \union {"none"}] /\ source \in [Ids -> Files \union {"none"}]
  /\ temp \in [Ids -> {"none", "full", "torn"} \union Ops]
  /\ index \in Records \union Lost /\ backup \in Records \union Lost
  /\ writer \in Ops \union {"none"} /\ op \in [Ops -> Operations]
  /\ acked \subseteq Ids /\ asked \in [Ids -> SUBSET AllKinds]
  /\ damage \in Nat /\ failures \in Nat

\* The operation that writes the index is the one that holds the lock.
Locked == \A o \in Ops : op[o].pc \in Writing <=> writer = o

Quarantines(o) == op[o].kind = "quarantine"

\* A quarantine, until it returns: its container is its own, and once sealed
\* holds the file unless a deletion was asked for.
QuarantineOK(o) ==
  /\ op[o].id \in Ids /\ source[op[o].id] \in Files /\ op[o].id \notin acked
  /\ op[o].pc \in {"seal", "remove", "discard"} \union Updating
  /\ op[o].as \in {"absent", "quarantined"} /\ op[o].next \in {"idle", "remove", "retry"}
  /\ op[o].as = "quarantined" =>
       cont[op[o].id] = source[op[o].id] \/ "delete" \in asked[op[o].id]
  /\ op[o].pc = "remove" => op[o].as = "quarantined"
  /\ op[o].pc \in Writing /\ op[o].next = "remove" =>
       op[o].as = "quarantined" /\ op[o].base[op[o].id] = "quarantined"

\* A restore, deletion or list: what it records was asked for, and it restores
\* only where a quarantine had returned.
OtherOK(o) ==
  /\ op[o].pc \in {"idle", "read", "check", "erase"} \union Restoring \union Updating
  /\ op[o].next \in {"idle", "read", "retry", "check", "erase"}
  /\ op[o].pc # "idle" =>
       op[o].id \in Ids /\ source[op[o].id] \in Files
       /\ (op[o].kind # "list" => op[o].kind \in asked[op[o].id])
  /\ op[o].pc = "erase" \/ op[o].next = "erase" => op[o].kind = "delete"
  /\ op[o].pc \in {"check"} \union Restoring \/ op[o].next = "check" => op[o].kind = "restore"
  /\ op[o].pc \in {"update", "retry"} \/ op[o].next = "retry"
       \/ (op[o].pc = "recover" /\ op[o].next # "read") => op[o].kind \in {"restore", "delete"}
  /\ op[o].as # "quarantined"
  /\ op[o].pc \in Restoring => \E j \in acked : source[j] = source[op[o].id]

Control == \A o \in Ops : IF Quarantines(o) THEN QuarantineOK(o) ELSE OtherOK(o)

OwnContainer == \A o, p \in Ops :
  Quarantines(o) /\ Quarantines(p) /\ op[o].id = op[p].id => o = p

\* A quarantine that returned keeps its container until a deletion is asked for.
AckedKept == \A i \in acked :
  source[i] \in Files /\ (cont[i] = source[i] \/ "delete" \in asked[i])

\* The file of a path is in place, or a quarantine of it returned.
KeptSomewhere == \A f \in Files : file[f] = "item" \/ \E i \in acked : source[i] = f

\* Containers that were recorded, and that nobody asked to touch.
Listed(i) == asked[i] = {} /\
  (i \in acked \/ \E o \in Ops : Quarantines(o) /\ op[o].pc = "remove" /\ op[o].id = i)
Lists(ix, i) == ix[i] = "quarantined" \/ (damage > 1 /\ ix[i] = "orphaned")

\* An index and its copy that can be read list them, and so does what is about
\* to be written; one damage leaves one of the two.
StaysListed == \A i \in Ids : Listed(i) =>
  /\ cont[i] = source[i]
  /\ Valid(index) => Lists(index, i)
  /\ Valid(backup) => Lists(backup, i)
  /\ \A o \in Ops : op[o].pc \in Writing => Lists(op[o].base, i)
  /\ damage = 0 => Valid(index) /\ Valid(backup)
  /\ damage = 1 => Valid(index) \/ Valid(backup)

\* Between the two writes the copy holds what the index is about to hold.
CopyFirst == \A o \in Ops : op[o].pc = "index" =>
  /\ Valid(backup) => backup = op[o].base
  /\ damage = 0 => Valid(backup)

IInv ==
  /\ TypeOK /\ Locked /\ Control /\ OwnContainer /\ AckedKept /\ KeptSomewhere
  /\ StaysListed /\ CopyFirst

-----------------------------------------------------------------------------
(* What the steps of one operation leave alone.                            *)

\* Operation o moves, the others stay where they are.
Moves(o) == op' \in [Ops -> Operations] /\ \A p \in Ops \ {o} : op'[p] = op[p]

\* Sources, wishes and acknowledgements are never taken back; only a
\* quarantine that has removed its source is acknowledged.
Grows(o) ==
  /\ \A i \in Ids : source[i] \in Files => source'[i] = source[i]
  /\ \A i \in Ids : asked[i] \subseteq asked'[i]
  /\ acked' = acked \/
       (Quarantines(o) /\ op[o].pc = "remove" /\ acked' = acked \union {op[o].id})

\* A container changes by a deletion, or by its own quarantine before it
\* removes the source or after it could not.
ContainersStay(o) ==
  \A i \in Ids : \/ cont'[i] = cont[i]
                 \/ "delete" \in asked'[i]
                 \/ Quarantines(o) /\ op[o].pc # "remove" /\ op[o].id = i

FilesStay ==
  \A f \in Files : file[f] = "item" => file'[f] = "item" \/ \E i \in acked' : source'[i] = f

\* What o does next is allowed; it stays the quarantine it was, or ends.
Turns(o) ==
  /\ IF Quarantines(o)' THEN QuarantineOK(o)' ELSE OtherOK(o)'
  /\ Quarantines(o)' => Quarantines(o) /\ op'[o].id = op[o].id

\* The lock is kept, taken or given back, together with the writing steps.
LockMoves(o) ==
  \/ writer' = writer /\ (op'[o].pc \in Writing <=> op[o].pc \in Writing)
  \/ writer = "none" /\ writer' = o /\ op'[o].pc \in Writing
  \/ writer' = (IF writer = o THEN "none" ELSE writer) /\ op'[o].pc \notin Writing

\* What is on disk and about to be written lists what it listed.
IndexStays(o) ==
  /\ damage' = damage
  /\ index' = index \/ (~Valid(index) /\ ~Valid(index'))
  /\ backup' = backup \/ (op[o].pc \in Writing /\ op'[o].pc \in Writing /\ backup' = op[o].base)
  /\ op'[o].pc \in Writing =>
       \/ op[o].pc \in Writing /\ op'[o].base = op[o].base
       \/ \A i \in Ids : Listed(i) => Lists(op'[o].base, i)
  /\ Quarantines(o)' /\ op'[o].pc = "remove" => op[o].pc = "remove"
  /\ op'[o].pc = "index" =>
       \/ op[o].pc = "index" /\ backup' = backup /\ op'[o].base = op[o].base
       \/ Valid(backup') /\ backup' = op'[o].base

LEMMA LockedStep ==
  ASSUME IInv, NEW o \in Ops, Moves(o), LockMoves(o)
  PROVE  Locked'
<1>1. \A p \in Ops : op[p].pc \in Writing <=> writer = p
  BY DEF IInv, Locked
<1>2. \A p \in Ops \ {o} : op'[p] = op[p]
  BY DEF Moves
<1>3. o # "none" /\ "none" \notin Ops
  BY QuarantineAssumption DEF QuarantineAssumption
<1>4. CASE writer' = writer /\ (op'[o].pc \in Writing <=> op[o].pc \in Writing)
  BY <1>1, <1>2, <1>4 DEF Locked
<1>5. CASE writer = "none" /\ writer' = o /\ op'[o].pc \in Writing
  BY <1>1, <1>2, <1>3, <1>5 DEF Locked
<1>6. CASE writer' = (IF writer = o THEN "none" ELSE writer) /\ op'[o].pc \notin Writing
  BY <1>1, <1>2, <1>3, <1>6 DEF Locked
<1> QED  BY <1>4, <1>5, <1>6 DEF LockMoves

LEMMA ControlStep ==
  ASSUME IInv, NEW o \in Ops, Moves(o), Grows(o), ContainersStay(o), Turns(o)
  PROVE  Control' /\ OwnContainer' /\ AckedKept'
<1>1. \A p \in Ops \ {o} : op'[p] = op[p]
  BY DEF Moves
<1>2. AckedKept'
  <2> SUFFICES ASSUME NEW i \in acked'
               PROVE  source'[i] \in Files /\ (cont'[i] = source'[i] \/ "delete" \in asked'[i])
    BY DEF AckedKept
  <2>1. i \in Ids /\ source[i] \in Files /\ (cont[i] = source[i] \/ "delete" \in asked[i])
    BY DEF IInv, TypeOK, AckedKept, Grows, Control, QuarantineOK
  <2>2. ~(Quarantines(o) /\ op[o].pc # "remove" /\ op[o].id = i)
    BY DEF IInv, Grows, Control, QuarantineOK
  <2> QED  BY <2>1, <2>2 DEF Grows, ContainersStay
<1>3. OwnContainer'
  BY <1>1 DEF IInv, OwnContainer, Turns, Quarantines
<1>4. ASSUME NEW p \in Ops, p # o, Quarantines(p)
      PROVE  QuarantineOK(p)'
  <2>1. QuarantineOK(p) /\ op'[p] = op[p]
    BY <1>1, <1>4 DEF IInv, Control
  <2>2. op[p].id \notin acked' /\ source'[op[p].id] = source[op[p].id]
    BY <1>4, <2>1 DEF QuarantineOK, Grows, IInv, OwnContainer
  <2>3. cont'[op[p].id] = cont[op[p].id] \/ "delete" \in asked'[op[p].id]
    BY <1>4, <2>1 DEF QuarantineOK, ContainersStay, IInv, OwnContainer
  <2>4. asked[op[p].id] \subseteq asked'[op[p].id]
    BY <2>1 DEF QuarantineOK, Grows
  <2> QED  BY <2>1, <2>2, <2>3, <2>4 DEF QuarantineOK
<1>5. ASSUME NEW p \in Ops, p # o, ~Quarantines(p)
      PROVE  OtherOK(p)'
  <2>1. OtherOK(p) /\ op'[p] = op[p]
    BY <1>1, <1>5 DEF IInv, Control
  <2>2. op[p].pc # "idle" =>
          op[p].id \in Ids /\ source'[op[p].id] = source[op[p].id] /\ source[op[p].id] \in Files
          /\ asked[op[p].id] \subseteq asked'[op[p].id]
    BY <2>1 DEF OtherOK, Grows
  <2>3. \A j \in acked : j \in acked' /\ source'[j] = source[j]
    BY DEF IInv, AckedKept, TypeOK, Grows
  <2>4. op[p].pc \in Restoring => op[p].pc # "idle"
    BY DEF Restoring
  <2> QED  BY <2>1, <2>2, <2>3, <2>4 DEF OtherOK
<1>6. Control'
  <2>1. ASSUME NEW p \in Ops
        PROVE  (IF Quarantines(p) THEN QuarantineOK(p) ELSE OtherOK(p))'
    <3>1. CASE p = o
      BY <3>1 DEF Turns
    <3>2. CASE p # o
      <4>1. Quarantines(p)' <=> Quarantines(p)
        BY <1>1, <3>2 DEF Quarantines
      <4> QED  BY <1>4, <1>5, <3>2, <4>1
    <3> QED  BY <3>1, <3>2
  <2> QED  BY <2>1 DEF Control
<1> QED  BY <1>2, <1>3, <1>6

LEMMA KeptStep ==
  ASSUME IInv, NEW o \in Ops, Grows(o), FilesStay
  PROVE  KeptSomewhere'
<1> SUFFICES ASSUME NEW f \in Files
             PROVE  file'[f] = "item" \/ \E i \in acked' : source'[i] = f
  BY DEF KeptSomewhere
<1>1. CASE file[f] = "item"
  BY <1>1 DEF FilesStay
<1>2. CASE file[f] # "item"
  <2>1. PICK i \in acked : source[i] = f
    BY <1>2 DEF IInv, KeptSomewhere
  <2>2. i \in Ids /\ i \in acked' /\ source'[i] = f
    BY <2>1 DEF Grows, IInv, TypeOK
  <2> QED  BY <2>2
<1> QED  BY <1>1, <1>2

\* Nothing becomes listed by a step but the write of the index.
LEMMA ListedBefore ==
  ASSUME IInv, NEW o \in Ops, Moves(o), Grows(o), Turns(o),
         Quarantines(o)' /\ op'[o].pc = "remove" => op[o].pc = "remove",
         NEW i \in Ids, Listed(i)'
  PROVE  Listed(i) /\ asked'[i] = {}
<1>1. asked[i] = {} /\ asked'[i] = {}
  BY DEF Listed, Grows
<1>2. CASE i \in acked'
  BY <1>1, <1>2 DEF Listed, Grows
<1>3. CASE \E p \in Ops : Quarantines(p)' /\ op'[p].pc = "remove" /\ op'[p].id = i
  <2>1. PICK p \in Ops : Quarantines(p)' /\ op'[p].pc = "remove" /\ op'[p].id = i
    BY <1>3
  <2>2. CASE p = o
    BY <1>1, <2>1, <2>2 DEF Turns, Listed
  <2>3. CASE p # o
    BY <1>1, <2>1, <2>3 DEF Moves, Listed, Quarantines
  <2> QED  BY <2>2, <2>3
<1> QED  BY <1>1, <1>2, <1>3 DEF Listed

LEMMA ListedContainer ==
  ASSUME IInv, NEW o \in Ops, Grows(o), ContainersStay(o), NEW i \in Ids, Listed(i), asked'[i] = {}
  PROVE  cont'[i] = source'[i]
<1>1. cont[i] = source[i]
  BY DEF IInv, StaysListed
<1>2. source'[i] = source[i]
  BY DEF Listed, Grows, IInv, AckedKept, Control, QuarantineOK
<1>3. ~(Quarantines(o) /\ op[o].pc # "remove" /\ op[o].id = i)
  BY DEF Listed, IInv, OwnContainer, Control, QuarantineOK
<1> QED  BY <1>1, <1>2, <1>3 DEF ContainersStay

LEMMA ListedStep ==
  ASSUME IInv, NEW o \in Ops, Moves(o), Grows(o), Turns(o), ContainersStay(o), IndexStays(o)
  PROVE  StaysListed'
<1> SUFFICES ASSUME NEW i \in Ids, Listed(i)'
             PROVE  /\ cont'[i] = source'[i]
                    /\ Valid(index') => Lists(index, i)'
                    /\ Valid(backup') => Lists(backup, i)'
                    /\ \A p \in Ops : op'[p].pc \in Writing => Lists(op[p].base, i)'
                    /\ damage' = 0 => Valid(index') /\ Valid(backup')
                    /\ damage' = 1 => Valid(index') \/ Valid(backup')
  BY DEF StaysListed, Valid
<1>1. Listed(i) /\ asked'[i] = {}
  BY ListedBefore DEF IndexStays
<1>2. cont'[i] = source'[i]
  BY <1>1, ListedContainer
<1>3. /\ Valid(index) => Lists(index, i)
      /\ Valid(backup) => Lists(backup, i)
      /\ \A p \in Ops : op[p].pc \in Writing => Lists(op[p].base, i)
      /\ damage = 0 => Valid(index) /\ Valid(backup)
      /\ damage = 1 => Valid(index) \/ Valid(backup)
  BY <1>1 DEF IInv, StaysListed
<1>4. Valid(index') => Lists(index, i)'
  BY <1>3 DEF IndexStays, Lists, Valid
<1>5. Valid(backup') => Lists(backup, i)'
  BY <1>3 DEF IndexStays, Lists, Valid
<1>6. ASSUME NEW p \in Ops, op'[p].pc \in Writing
      PROVE  Lists(op[p].base, i)'
  <2>1. CASE p = o
    BY <1>1, <1>3, <1>6, <2>1 DEF IndexStays, Lists
  <2>2. CASE p # o
    BY <1>3, <1>6, <2>2 DEF IndexStays, Moves, Lists
  <2> QED  BY <2>1, <2>2
<1>7. op[o].pc \in Writing => Valid(op[o].base)
  BY QuarantineAssumption DEF QuarantineAssumption, IInv, TypeOK, Operations, Valid
<1>8. /\ damage' = 0 => Valid(index') /\ Valid(backup')
      /\ damage' = 1 => Valid(index') \/ Valid(backup')
  BY <1>3, <1>7 DEF IndexStays, Valid
<1> QED  BY <1>2, <1>4, <1>5, <1>6, <1>8

LEMMA CopyStep ==
  ASSUME IInv, NEW o \in Ops, Moves(o), LockMoves(o), IndexStays(o)
  PROVE  CopyFirst'
<1> SUFFICES ASSUME NEW p \in Ops, op'[p].pc = "index"
             PROVE  /\ Valid(backup') => backup' = op'[p].base
                    /\ damage' = 0 => Valid(backup')
  BY DEF CopyFirst, Valid
<1>1. CASE p = o
  BY <1>1 DEF IInv, CopyFirst, IndexStays, Valid
<1>2. CASE p # o
  <2>1. op'[p] = op[p] /\ op[p].pc \in Writing /\ op[o].pc \notin Writing
    BY <1>2 DEF Moves, Writing, IInv, Locked
  <2>2. backup' = backup /\ damage' = damage
    BY <2>1 DEF IndexStays
  <2> QED  BY <2>1, <2>2 DEF IInv, CopyFirst, Valid
<1> QED  BY <1>1, <1>2

\* All that a step has to show, but the writes of the index and its damages.
LEMMA CarefulStep ==
  ASSUME IInv, TypeOK', NEW o \in Ops, Moves(o), Grows(o), Turns(o), ContainersStay(o),
         FilesStay, LockMoves(o), IndexStays(o)
  PROVE  IInv'
BY LockedStep, ControlStep, KeptStep, ListedStep, CopyStep DEF IInv

-----------------------------------------------------------------------------
(* How an operation moves on.                                              *)

LEMMA IdleTyped == Idle \in Operations /\ Empty \in Records
BY DEF Idle, Operations, Empty, Records, States, AllKinds, Steps

LEMMA FinishStep ==
  ASSUME TypeOK, NEW o \in Ops, Finish(o)
  PROVE  Moves(o) /\ op'[o] = Idle
BY IdleTyped DEF TypeOK, Finish, Moves

LEMMA GotoStep ==
  ASSUME TypeOK, NEW o \in Ops, NEW s \in Steps \ {"idle"}, Goto(o, s)
  PROVE  /\ Moves(o)
         /\ op'[o].pc = s /\ op'[o].next = "idle" /\ op'[o].kind = op[o].kind
         /\ op'[o].id = op[o].id /\ op'[o].as = op[o].as
<1>1. op' = [op EXCEPT ![o] = [op[o] EXCEPT !.pc = s, !.base = Empty, !.next = "idle"]]
  BY DEF Goto
<1>2. op[o] \in Operations /\ "idle" \in Steps
  BY DEF TypeOK, Steps
<1>3. [op[o] EXCEPT !.pc = s, !.base = Empty, !.next = "idle"] \in Operations
  BY <1>2, IdleTyped DEF Operations
<1> QED  BY <1>1, <1>2, <1>3 DEF Moves, TypeOK, Operations

LEMMA RecordStep ==
  ASSUME TypeOK, NEW o \in Ops, NEW as \in States, Record(o, as)
  PROVE  /\ Moves(o)
         /\ op'[o].pc = "update" /\ op'[o].next = op[o].next /\ op'[o].kind = op[o].kind
         /\ op'[o].id = op[o].id /\ op'[o].as = as
<1>1. op' = [op EXCEPT ![o] = [op[o] EXCEPT !.pc = "update", !.as = as]]
  BY DEF Record, TypeOK
<1>2. op[o] \in Operations /\ "update" \in Steps
  BY DEF TypeOK, Steps, Updating
<1>3. [op[o] EXCEPT !.pc = "update", !.as = as] \in Operations
  BY <1>2 DEF Operations
<1> QED  BY <1>1, <1>2, <1>3 DEF Moves, TypeOK, Operations

LEMMA WriteStep ==
  ASSUME TypeOK, NEW o \in Ops, NEW ix \in Records, NEW next \in Steps, Write(o, ix, next)
  PROVE  /\ Moves(o) /\ writer' = o
         /\ op'[o].pc = "backup" /\ op'[o].next = next /\ op'[o].kind = op[o].kind
         /\ op'[o].id = op[o].id /\ op'[o].as = op[o].as /\ op'[o].base = ix
<1>1. op' = [op EXCEPT ![o] = [op[o] EXCEPT !.pc = "backup", !.base = ix, !.next = next]]
  BY DEF Write, TypeOK
<1>2. op[o] \in Operations /\ "backup" \in Steps
  BY DEF TypeOK, Steps, Updating
<1>3. [op[o] EXCEPT !.pc = "backup", !.base = ix, !.next = next] \in Operations
  BY <1>2 DEF Operations
<1> QED  BY <1>1, <1>2, <1>3 DEF Moves, TypeOK, Operations, Write

LEMMA RecordTyped ==
  ASSUME NEW ix \in Records, NEW i \in Ids, NEW as \in States
  PROVE  Recorded(ix, i, as) \in Records
BY DEF Recorded, Records

LEMMA ReconcileTyped ==
  ASSUME NEW ix \in Records
  PROVE  Reconcile(ix) \in Records
BY DEF Reconcile, Records, States

LEMMA ReadTyped ==
  ASSUME NEW o \in Ops, NEW ix
  PROVE  AfterRead(o, ix) \in {"idle", "check", "erase"} /\ AfterRead(o, ix) \in Steps
BY DEF AfterRead, Steps

\* A step that only moves o, outside the writing steps.
LEMMA QuietStep ==
  ASSUME IInv, NEW o \in Ops, Moves(o), Turns(o),
         UNCHANGED <<file, cont, index, backup, writer, source, acked, asked, counts>>,
         temp' \in [Ids -> {"none", "full", "torn"} \union Ops],
         op[o].pc \notin Writing, op'[o].pc \notin Writing,
         Quarantines(o)' => op'[o].pc # "remove"
  PROVE  IInv'
<1>1. TypeOK'
  BY DEF IInv, TypeOK, counts, Moves
<1>2. Grows(o) /\ ContainersStay(o) /\ LockMoves(o)
  BY DEF Grows, ContainersStay, LockMoves
<1>3. FilesStay
  BY DEF FilesStay
<1>4. IndexStays(o)
  BY DEF IndexStays, counts, Writing
<1> QED  BY <1>1, <1>2, <1>3, <1>4, CarefulStep

\* The end of an operation.
LEMMA IdleTurns ==
  ASSUME IInv, NEW o \in Ops, op'[o] = Idle
  PROVE  Turns(o) /\ op'[o].pc = "idle" /\ ~Quarantines(o)'
<1>1. op'[o].pc = "idle" /\ op'[o].next = "idle" /\ op'[o].kind = "list" /\ op'[o].as = "absent"
  BY DEF Idle
<1>2. ~Quarantines(o)'
  BY <1>1 DEF Quarantines
<1>3. OtherOK(o)'
  BY <1>1 DEF OtherOK, Restoring
<1> QED  BY <1>1, <1>2, <1>3 DEF Turns

\* An operation that moves on keeps its kind, container and record, so what it
\* owed before it owes still.
Continues(o) ==
  /\ op'[o].kind = op[o].kind /\ op'[o].id = op[o].id /\ op'[o].as = op[o].as
  /\ op[o].pc # "idle" /\ UNCHANGED <<source, asked>>

LEMMA QuarantineTurns ==
  ASSUME IInv, NEW o \in Ops, Quarantines(o), Continues(o), acked' = acked, cont' = cont,
         op'[o].pc \in {"seal", "remove", "discard"} \union Updating,
         op'[o].next \in {"idle", "remove", "retry"},
         op'[o].pc = "remove" => op[o].as = "quarantined",
         op'[o].pc \in Writing /\ op'[o].next = "remove" =>
            op[o].as = "quarantined" /\ op'[o].base[op[o].id] = "quarantined"
  PROVE  Turns(o) /\ Quarantines(o)'
<1>1. QuarantineOK(o)
  BY DEF IInv, Control
<1>2. Quarantines(o)'
  BY DEF Continues, Quarantines
<1>3. QuarantineOK(o)'
  BY <1>1 DEF Continues, QuarantineOK
<1> QED  BY <1>2, <1>3 DEF Turns, Continues

LEMMA OtherTurns ==
  ASSUME IInv, NEW o \in Ops, ~Quarantines(o), Continues(o), acked \subseteq acked',
         op'[o].pc \in {"read", "check", "erase"} \union Restoring \union Updating,
         op'[o].next \in {"idle", "read", "retry", "check", "erase"},
         op'[o].pc = "erase" \/ op'[o].next = "erase" => op[o].kind = "delete",
         op'[o].pc \in {"check"} \union Restoring \/ op'[o].next = "check" => op[o].kind = "restore",
         op'[o].pc \in {"update", "retry"} \/ op'[o].next = "retry"
           \/ (op'[o].pc = "recover" /\ op'[o].next # "read") => op[o].kind \in {"restore", "delete"},
         op'[o].pc \in Restoring => \E j \in acked : source[j] = source[op[o].id]
  PROVE  Turns(o) /\ ~Quarantines(o)'
<1>1. OtherOK(o)
  BY DEF IInv, Control
<1>2. ~Quarantines(o)'
  BY DEF Continues, Quarantines
<1>3. OtherOK(o)'
  BY <1>1 DEF Continues, OtherOK
<1> QED  BY <1>2, <1>3 DEF Turns

-----------------------------------------------------------------------------
(* The index: what is written lists what was listed.                       *)

LEMMA WriteKeeps ==
  ASSUME IInv, NEW o \in Ops, NEW ix \in Records, NEW next \in Steps, Write(o, ix, next),
         op[o].pc \notin Writing, writer = "none", Turns(o),
         UNCHANGED <<file, cont, temp, backup, source, acked, asked, counts>>,
         index' = index \/ (~Valid(index) /\ index' = Gone),
         \A i \in Ids : Listed(i) => Lists(ix, i)
  PROVE  IInv'
<1>1. /\ Moves(o) /\ writer' = o /\ op'[o].pc = "backup" /\ op'[o].base = ix
  BY WriteStep DEF IInv
<1>2. TypeOK'
  BY <1>1 DEF IInv, TypeOK, counts, Moves, Lost
<1>3. Grows(o) /\ ContainersStay(o)
  BY DEF Grows, ContainersStay
<1>4. FilesStay
  BY DEF FilesStay
<1>5. LockMoves(o)
  BY <1>1 DEF LockMoves, Writing
<1>6. IndexStays(o)
  <2>1. index' = index \/ (~Valid(index) /\ ~Valid(index'))
    BY DEF Valid, Lost
  <2> QED  BY <1>1, <2>1 DEF IndexStays, counts
<1> QED  BY <1>1, <1>2, <1>3, <1>4, <1>5, <1>6, CarefulStep

LEMMA UpdateLists ==
  ASSUME IInv, NEW o \in Ops, op[o].pc \in {"update", "retry"},
         NEW ix \in Records, ix = index \/ Unused, NEW i \in Ids, Listed(i)
  PROVE  Lists(Recorded(ix, op[o].id, op[o].as), i)
<1>1. op[o].id # i
  <2>1. CASE Quarantines(o)
    BY <2>1 DEF IInv, Control, QuarantineOK, OwnContainer, Listed
  <2>2. CASE ~Quarantines(o)
    BY <2>2 DEF IInv, Control, OtherOK, Listed
  <2> QED  BY <2>1, <2>2
<1>2. cont[i] # "none"
  BY QuarantineAssumption
  DEF QuarantineAssumption, IInv, StaysListed, Listed, AckedKept, Control, QuarantineOK
<1>3. ix = index /\ Valid(index)
  BY <1>2, QuarantineAssumption DEF Unused, QuarantineAssumption, Valid
<1>4. Lists(ix, i)
  BY <1>3 DEF IInv, StaysListed
<1> QED  BY <1>1, <1>4 DEF Lists, Recorded, Records

LEMMA UpdateStep ==
  ASSUME IInv, NEW o \in Ops, op[o].pc \in {"update", "retry"}, writer = "none",
         NEW ix \in Records, ix = index \/ Unused, Update(o, ix),
         UNCHANGED <<file, cont, temp, index, backup, source, acked, asked, counts>>
  PROVE  IInv'
<1> DEFINE new == Recorded(ix, op[o].id, op[o].as)
<1>1. op[o].id \in Ids /\ op[o].as \in States
  BY DEF IInv, TypeOK, Operations, Control, QuarantineOK, OtherOK
<1>2. new \in Records /\ AfterUpdate(o) \in Steps /\ AfterUpdate(o) \in {"remove", "idle"}
  BY <1>1, RecordTyped DEF AfterUpdate, Steps
<1>3. Write(o, new, AfterUpdate(o))
  BY DEF Update
<1> HIDE DEF new
<1>4. /\ op'[o].pc = "backup" /\ op'[o].next = AfterUpdate(o) /\ op'[o].kind = op[o].kind
      /\ op'[o].id = op[o].id /\ op'[o].as = op[o].as /\ op'[o].base = new
  BY <1>2, <1>3, WriteStep DEF IInv
<1>5. Continues(o)
  BY <1>4 DEF Continues
<1>6. Turns(o)
  <2>1. CASE Quarantines(o)
    <3>1. AfterUpdate(o) = "remove" => op[o].as = "quarantined" /\ new[op[o].id] = "quarantined"
      BY <1>1 DEF AfterUpdate, new, Recorded, Records
    <3> QED  BY <1>2, <1>4, <1>5, <2>1, <3>1, QuarantineTurns DEF Updating
  <2>2. CASE ~Quarantines(o)
    <3>1. AfterUpdate(o) = "idle"
      BY <2>2 DEF AfterUpdate, IInv, Control, OtherOK
    <3> QED  BY <1>4, <1>5, <2>2, <3>1, OtherTurns DEF Updating, Restoring
  <2> QED  BY <2>1, <2>2
<1>7. \A i \in Ids : Listed(i) => Lists(new, i)
  BY UpdateLists DEF new
<1> QED  BY <1>2, <1>3, <1>6, <1>7, WriteKeeps DEF Writing

LEMMA ValidTyped ==
  ASSUME TypeOK
  PROVE  (Valid(index) <=> index \in Records) /\ (Valid(backup) <=> backup \in Records)
BY QuarantineAssumption DEF QuarantineAssumption, TypeOK, Valid

LEMMA UpdateIndexStep ==
  ASSUME IInv, NEW o \in Ops, UpdateIndex(o) \/ RetryUpdate(o)
  PROVE  IInv'
<1>1. /\ op[o].pc \in {"update", "retry"} /\ writer = "none"
      /\ UNCHANGED <<file, cont, temp, index, backup, source, acked, asked, counts>>
  BY DEF UpdateIndex, RetryUpdate
<1>2. CASE Valid(index) /\ Update(o, index)
  BY <1>1, <1>2, ValidTyped, UpdateStep DEF IInv
<1>3. CASE Unused /\ Update(o, Empty)
  BY <1>1, <1>3, IdleTyped, UpdateStep
<1>4. CASE op[o].pc = "update" /\ Goto(o, "recover") /\ UNCHANGED writer
  <2>1. /\ Moves(o)
        /\ op'[o].pc = "recover" /\ op'[o].next = "idle" /\ op'[o].kind = op[o].kind
        /\ op'[o].id = op[o].id /\ op'[o].as = op[o].as
    BY <1>4, GotoStep DEF IInv, Steps, Updating
  <2>2. Continues(o)
    BY <1>1, <2>1 DEF Continues
  <2>3. Turns(o)
    <3>1. CASE Quarantines(o)
      BY <1>1, <2>1, <2>2, <3>1, QuarantineTurns DEF Updating, Writing
    <3>2. CASE ~Quarantines(o)
      <4>1. op[o].kind \in {"restore", "delete"}
        BY <1>4, <3>2 DEF IInv, Control, OtherOK
      <4> QED  BY <1>1, <2>1, <2>2, <3>2, <4>1, OtherTurns DEF Updating, Restoring
    <3> QED  BY <3>1, <3>2
  <2> QED  BY <1>1, <1>4, <2>1, <2>3, QuietStep DEF Writing, IInv, TypeOK
<1>5. CASE Finish(o) /\ UNCHANGED writer
  <2>1. Moves(o) /\ op'[o] = Idle
    BY <1>5, FinishStep DEF IInv
  <2> QED  BY <1>1, <1>5, <2>1, IdleTurns, QuietStep DEF Writing, IInv, TypeOK
<1> QED  BY <1>2, <1>3, <1>4, <1>5 DEF UpdateIndex, RetryUpdate

\* A recovery lists what was listed: the copy does, or both were damaged and
\* the containers do.
LEMMA RecoverLists ==
  ASSUME IInv, ~Valid(index), NEW i \in Ids, Listed(i)
  PROVE  Lists(Reconcile(IF Valid(backup) THEN backup ELSE Empty), i)
<1>1. cont[i] # "none"
  BY QuarantineAssumption
  DEF QuarantineAssumption, IInv, StaysListed, Listed, AckedKept, Control, QuarantineOK
<1>2. /\ Valid(backup) => Lists(backup, i)
      /\ damage # 0 /\ (damage = 1 => Valid(backup)) /\ damage \in Nat
  BY DEF IInv, StaysListed, TypeOK
<1>3. CASE Valid(backup)
  BY <1>1, <1>2, <1>3 DEF Lists, Reconcile
<1>4. CASE ~Valid(backup)
  <2>1. damage > 1
    BY <1>2, <1>4
  <2>2. Reconcile(Empty)[i] = "orphaned"
    BY <1>1 DEF Reconcile, Empty
  <2> QED  BY <1>4, <2>1, <2>2 DEF Lists
<1> QED  BY <1>3, <1>4

\* Where an operation goes that has found an index, or rebuilt one.
LEMMA ReadTurns ==
  ASSUME IInv, NEW o \in Ops, NEW ix, op[o].pc \in {"read", "recover"}, ~Quarantines(o)
  PROVE  /\ AfterRead(o, ix) \in {"idle", "check", "erase"}
         /\ AfterRead(o, ix) = "check" => op[o].kind = "restore"
         /\ AfterRead(o, ix) = "erase" => op[o].kind = "delete"
BY DEF AfterRead

LEMMA RecoverStep ==
  ASSUME IInv, NEW o \in Ops, RecoverIndex(o)
  PROVE  IInv'
<1>1. /\ op[o].pc = "recover" /\ writer = "none"
      /\ UNCHANGED <<file, cont, temp, backup, source, acked, asked, counts>>
  BY DEF RecoverIndex
<1> DEFINE then(ix) == IF op[o].next = "read" THEN AfterRead(o, ix) ELSE "retry"
<1>2. ASSUME NEW ix
      PROVE  /\ then(ix) \in {"idle", "check", "erase", "retry"} /\ then(ix) \in Steps
             /\ Quarantines(o) => then(ix) = "retry"
             /\ ~Quarantines(o) =>
                  /\ then(ix) = "check" => op[o].kind = "restore"
                  /\ then(ix) = "erase" => op[o].kind = "delete"
                  /\ then(ix) = "retry" => op[o].kind \in {"restore", "delete"}
  <2>1. AfterRead(o, ix) \in {"idle", "check", "erase"}
    BY ReadTyped
  <2>2. Quarantines(o) => op[o].next # "read"
    BY DEF IInv, Control, QuarantineOK
  <2>3. ~Quarantines(o) /\ op[o].next # "read" => op[o].kind \in {"restore", "delete"}
    BY <1>1 DEF IInv, Control, OtherOK
  <2> QED  BY <1>1, <2>1, <2>2, <2>3, ReadTurns DEF Steps, Updating
<1> HIDE DEF then
<1>3. CASE Valid(index) /\ Goto(o, then(index)) /\ UNCHANGED <<writer, index>>
  <2>1. CASE then(index) = "idle"
    <3>1. Moves(o) /\ op'[o] = Idle
      BY <1>3, <2>1, FinishStep DEF IInv, Goto, Finish
    <3> QED  BY <1>1, <1>3, <3>1, IdleTurns, QuietStep DEF Writing, IInv, TypeOK
  <2>2. CASE then(index) # "idle"
    <3>1. /\ Moves(o)
          /\ op'[o].pc = then(index) /\ op'[o].next = "idle" /\ op'[o].kind = op[o].kind
          /\ op'[o].id = op[o].id /\ op'[o].as = op[o].as
      BY <1>2, <1>3, <2>2, GotoStep DEF IInv
    <3>2. Continues(o)
      BY <1>1, <3>1 DEF Continues
    <3>3. Turns(o)
      <4>1. CASE Quarantines(o)
        BY <1>1, <1>2, <3>1, <3>2, <4>1, QuarantineTurns DEF Updating, Writing
      <4>2. CASE ~Quarantines(o)
        BY <1>1, <1>2, <2>2, <3>1, <3>2, <4>2, OtherTurns DEF Updating, Restoring
      <4> QED  BY <4>1, <4>2
    <3> QED  BY <1>1, <1>2, <1>3, <3>1, <3>3, QuietStep DEF Writing, IInv, TypeOK
  <2> QED  BY <2>1, <2>2
<1>4. ASSUME ~Valid(index), NEW ix, ix = Reconcile(IF Valid(backup) THEN backup ELSE Empty),
             Write(o, ix, then(ix)), index' = Gone
      PROVE  IInv'
  <2>1. ix \in Records
    BY <1>4, ValidTyped, IdleTyped, ReconcileTyped DEF IInv
  <2>2. /\ op'[o].pc = "backup" /\ op'[o].next = then(ix) /\ op'[o].kind = op[o].kind
        /\ op'[o].id = op[o].id /\ op'[o].as = op[o].as
    BY <1>2, <1>4, <2>1, WriteStep DEF IInv
  <2>3. Continues(o)
    BY <1>1, <2>2 DEF Continues
  <2>4. Turns(o)
    <3>1. CASE Quarantines(o)
      BY <1>1, <1>2, <2>2, <2>3, <3>1, QuarantineTurns DEF Updating, Writing
    <3>2. CASE ~Quarantines(o)
      BY <1>1, <1>2, <2>2, <2>3, <3>2, OtherTurns DEF Updating, Restoring
    <3> QED  BY <3>1, <3>2
  <2>5. \A i \in Ids : Listed(i) => Lists(ix, i)
    BY <1>4, RecoverLists
  <2> QED  BY <1>1, <1>2, <1>4, <2>1, <2>4, <2>5, WriteKeeps DEF Writing
<1> QED  BY <1>3, <1>4 DEF RecoverIndex, then

LEMMA ReadStep ==
  ASSUME IInv, NEW o \in Ops, ReadIndex(o)
  PROVE  IInv'
<1>1. /\ op[o].pc = "read"
      /\ UNCHANGED <<file, cont, temp, index, backup, writer, source, acked, asked, counts>>
  BY DEF ReadIndex
<1>2. ~Quarantines(o)
  BY <1>1 DEF IInv, Control, QuarantineOK, Updating
<1>3. CASE \E s \in {"idle", "check", "erase"} :
             /\ Goto(o, s)
             /\ s = "check" => op[o].kind = "restore"
             /\ s = "erase" => op[o].kind = "delete"
  <2>1. PICK s \in {"idle", "check", "erase"} :
             /\ Goto(o, s)
             /\ s = "check" => op[o].kind = "restore"
             /\ s = "erase" => op[o].kind = "delete"
    BY <1>3
  <2>2. CASE s = "idle"
    <3>1. Moves(o) /\ op'[o] = Idle
      BY <2>1, <2>2, FinishStep DEF IInv, Goto, Finish
    <3> QED  BY <1>1, <3>1, IdleTurns, QuietStep DEF Writing, IInv, TypeOK
  <2>3. CASE s # "idle"
    <3>1. /\ Moves(o)
          /\ op'[o].pc = s /\ op'[o].next = "idle" /\ op'[o].kind = op[o].kind
          /\ op'[o].id = op[o].id /\ op'[o].as = op[o].as
      BY <2>1, <2>3, GotoStep DEF IInv, Steps
    <3>2. Continues(o)
      BY <1>1, <3>1 DEF Continues
    <3>3. Turns(o)
      BY <1>1, <1>2, <2>1, <2>3, <3>1, <3>2, OtherTurns DEF Updating, Restoring
    <3> QED  BY <1>1, <2>1, <2>3, <3>1, <3>3, QuietStep DEF Writing, IInv, TypeOK
  <2> QED  BY <2>2, <2>3
<1>4. CASE op' = [op EXCEPT ![o].pc = "recover", ![o].next = "read"]
  <2>1. /\ Moves(o)
        /\ op'[o].pc = "recover" /\ op'[o].next = "read" /\ op'[o].kind = op[o].kind
        /\ op'[o].id = op[o].id /\ op'[o].as = op[o].as
    <3>1. op' = [op EXCEPT ![o] = [op[o] EXCEPT !.pc = "recover", !.next = "read"]]
      BY <1>4 DEF IInv, TypeOK
    <3>2. op[o] \in Operations /\ {"recover", "read"} \subseteq Steps
      BY DEF IInv, TypeOK, Steps, Updating
    <3>3. [op[o] EXCEPT !.pc = "recover", !.next = "read"] \in Operations
      BY <3>2 DEF Operations
    <3> QED  BY <3>1, <3>2, <3>3 DEF Moves, IInv, TypeOK, Operations
  <2>2. Continues(o)
    BY <1>1, <2>1 DEF Continues
  <2>3. Turns(o)
    BY <1>1, <1>2, <2>1, <2>2, OtherTurns DEF Updating, Restoring
  <2> QED  BY <1>1, <2>1, <2>3, QuietStep DEF Writing, IInv, TypeOK
<1>5. \/ \E s \in {"idle", "check", "erase"} :
             /\ Goto(o, s)
             /\ s = "check" => op[o].kind = "restore"
             /\ s = "erase" => op[o].kind = "delete"
      \/ op' = [op EXCEPT ![o].pc = "recover", ![o].next = "read"]
  BY <1>1, <1>2, ReadTurns DEF ReadIndex
<1> QED  BY <1>3, <1>4, <1>5

\* Where a write leads once it is over, or has failed.
LEMMA NextTurns ==
  ASSUME IInv, NEW o \in Ops, op[o].pc \in Writing, Goto(o, op[o].next), op[o].next # "idle",
         UNCHANGED <<cont, source, acked, asked>>
  PROVE  /\ Moves(o) /\ Turns(o)
         /\ op'[o].pc = op[o].next /\ op'[o].pc \notin Writing
         /\ op'[o].id = op[o].id /\ op'[o].as = op[o].as
<1>1. op[o].next \in Steps \ {"idle"}
  BY DEF IInv, TypeOK, Operations
<1>2. /\ Moves(o)
      /\ op'[o].pc = op[o].next /\ op'[o].next = "idle" /\ op'[o].kind = op[o].kind
      /\ op'[o].id = op[o].id /\ op'[o].as = op[o].as
  BY <1>1, GotoStep DEF IInv
<1>3. Continues(o)
  BY <1>2 DEF Continues, Writing
<1>4. CASE Quarantines(o)
  <2>1. QuarantineOK(o)
    BY <1>4 DEF IInv, Control
  <2> QED  BY <1>2, <1>3, <1>4, <2>1, QuarantineTurns DEF QuarantineOK, Updating, Writing
<1>5. CASE ~Quarantines(o)
  <2>1. OtherOK(o)
    BY <1>5 DEF IInv, Control
  <2> QED  BY <1>2, <1>3, <1>5, <2>1, OtherTurns DEF OtherOK, Updating, Restoring, Writing
<1> QED  BY <1>4, <1>5

LEMMA WriteBackupStep ==
  ASSUME IInv, NEW o \in Ops, WriteBackup(o)
  PROVE  IInv'
<1>1. /\ op[o].pc = "backup" /\ backup' = op[o].base
      /\ UNCHANGED <<file, cont, temp, index, writer, source, acked, asked, counts>>
  BY DEF WriteBackup
<1>2. /\ Moves(o)
      /\ op'[o].pc = "index" /\ op'[o].next = op[o].next /\ op'[o].kind = op[o].kind
      /\ op'[o].id = op[o].id /\ op'[o].as = op[o].as /\ op'[o].base = op[o].base
  <2>1. op' = [op EXCEPT ![o] = [op[o] EXCEPT !.pc = "index"]]
    BY DEF WriteBackup, IInv, TypeOK
  <2>2. op[o] \in Operations /\ "index" \in Steps
    BY DEF IInv, TypeOK, Steps, Updating
  <2>3. [op[o] EXCEPT !.pc = "index"] \in Operations
    BY <2>2 DEF Operations
  <2> QED  BY <2>1, <2>2, <2>3 DEF Moves, IInv, TypeOK, Operations
<1>3. Continues(o)
  BY <1>1, <1>2 DEF Continues
<1>4. Turns(o)
  <2>1. CASE Quarantines(o)
    <3>1. QuarantineOK(o)
      BY <2>1 DEF IInv, Control
    <3> QED  BY <1>1, <1>2, <1>3, <2>1, <3>1, QuarantineTurns DEF QuarantineOK, Updating, Writing
  <2>2. CASE ~Quarantines(o)
    <3>1. OtherOK(o)
      BY <2>2 DEF IInv, Control
    <3> QED  BY <1>1, <1>2, <1>3, <2>2, <3>1, OtherTurns DEF OtherOK, Updating, Restoring
  <2> QED  BY <2>1, <2>2
<1>5. op[o].base \in Records
  BY DEF IInv, TypeOK, Operations
<1>6. TypeOK'
  BY <1>1, <1>2, <1>5 DEF IInv, TypeOK, counts, Moves
<1>7. Grows(o) /\ ContainersStay(o) /\ FilesStay /\ LockMoves(o)
  BY <1>1, <1>2 DEF Grows, ContainersStay, FilesStay, LockMoves, Writing
<1>8. IndexStays(o)
  <2>1. backup' \notin Lost
    BY <1>1, <1>5, QuarantineAssumption DEF QuarantineAssumption
  <2> QED  BY <1>1, <1>2, <2>1 DEF IndexStays, counts, Writing, Valid
<1> QED  BY <1>2, <1>4, <1>6, <1>7, <1>8, CarefulStep

\* Once the index is written, the quarantine that wrote it is listed too.
LEMMA WriteIndexStep ==
  ASSUME IInv, NEW o \in Ops, WriteIndex(o)
  PROVE  IInv'
<1>1. /\ op[o].pc = "index" /\ index' = op[o].base /\ writer' = "none" /\ Goto(o, op[o].next)
      /\ UNCHANGED <<file, cont, temp, backup, source, acked, asked, damage, failures>>
  BY DEF WriteIndex, counts
<1>2. /\ Moves(o) /\ Turns(o) /\ op'[o].pc \notin Writing
      /\ op'[o].pc = op[o].next /\ (op[o].next # "idle" => op'[o].id = op[o].id)
  <2>1. CASE op[o].next = "idle"
    <3>1. Moves(o) /\ op'[o] = Idle
      BY <1>1, <2>1, FinishStep DEF IInv, Goto, Finish
    <3> QED  BY <2>1, <3>1, IdleTurns DEF Writing
  <2>2. CASE op[o].next # "idle"
    BY <1>1, <2>2, NextTurns DEF Writing
  <2> QED  BY <2>1, <2>2
<1>3. op[o].base \in Records /\ Valid(op[o].base)
  BY QuarantineAssumption DEF QuarantineAssumption, IInv, TypeOK, Operations, Valid
<1>4. TypeOK'
  BY <1>1, <1>2, <1>3 DEF IInv, TypeOK, Moves
<1>5. Grows(o) /\ ContainersStay(o) /\ FilesStay
  BY <1>1 DEF Grows, ContainersStay, FilesStay
<1>6. LockMoves(o) /\ \A p \in Ops : op'[p].pc \notin Writing
  <2>1. writer = o
    BY <1>1 DEF IInv, Locked, Writing
  <2>2. \A p \in Ops \ {o} : op[p].pc \notin Writing
    BY <2>1 DEF IInv, Locked
  <2> QED  BY <1>1, <1>2, <2>1, <2>2 DEF LockMoves, Moves
<1>7. /\ Valid(backup) => backup = op[o].base
      /\ damage = 0 => Valid(backup)
  BY <1>1 DEF IInv, CopyFirst
<1>8. ASSUME NEW i \in Ids, Listed(i)'
      PROVE  cont'[i] = source'[i] /\ Lists(op[o].base, i)
  <2>1. CASE Listed(i)
    <3>1. cont[i] = source[i] /\ Lists(op[o].base, i)
      BY <1>1, <2>1 DEF IInv, StaysListed, Writing
    <3> QED  BY <1>1, <3>1
  <2>2. CASE ~Listed(i)
    <3>1. Quarantines(o)' /\ op'[o].pc = "remove" /\ op'[o].id = i /\ asked[i] = {}
      BY <1>1, <1>2, <1>8, <2>2 DEF Listed, Moves, Quarantines
    <3>2. Quarantines(o) /\ op[o].id = i /\ op[o].next = "remove"
      BY <1>2, <3>1 DEF Turns
    <3>3. op[o].as = "quarantined" /\ op[o].base[i] = "quarantined" /\ cont[i] = source[i]
      BY <1>1, <3>1, <3>2 DEF IInv, Control, QuarantineOK, Writing
    <3> QED  BY <1>1, <3>3 DEF Lists
  <2> QED  BY <2>1, <2>2
<1>9. StaysListed'
  <2> SUFFICES ASSUME NEW i \in Ids, Listed(i)'
               PROVE  /\ cont'[i] = source'[i]
                      /\ Valid(index') => Lists(index, i)'
                      /\ Valid(backup') => Lists(backup, i)'
                      /\ \A p \in Ops : op'[p].pc \in Writing => Lists(op[p].base, i)'
                      /\ damage' = 0 => Valid(index') /\ Valid(backup')
                      /\ damage' = 1 => Valid(index') \/ Valid(backup')
    BY DEF StaysListed, Valid
  <2>1. cont'[i] = source'[i] /\ Lists(op[o].base, i)
    BY <1>8
  <2>2. Lists(index, i)' /\ (Valid(backup') => Lists(backup, i)')
    BY <1>1, <1>7, <2>1 DEF Lists, Valid
  <2>3. Valid(index') /\ (damage' = 0 => Valid(backup'))
    BY <1>1, <1>3, <1>7 DEF Valid
  <2> QED  BY <1>6, <2>1, <2>2, <2>3
<1>10. CopyFirst'
  BY <1>6 DEF CopyFirst, Writing
<1> QED
  BY <1>2, <1>4, <1>5, <1>6, <1>9, <1>10, LockedStep, ControlStep, KeptStep DEF IInv

LEMMA WriteFailsStep ==
  ASSUME IInv, NEW o \in Ops, WriteFails(o)
  PROVE  IInv'
<1>1. /\ op[o].pc \in Writing /\ writer' = "none" /\ failures' = failures + 1
      /\ UNCHANGED <<file, cont, temp, index, backup, source, acked, asked, damage>>
  BY DEF WriteFails, Writing
<1>2. /\ Moves(o) /\ Turns(o) /\ op'[o].pc \notin Writing
      /\ ~(Quarantines(o)' /\ op'[o].pc = "remove")
  <2>1. CASE op[o].next \in {"retry", "check", "erase"} /\ Goto(o, op[o].next)
    BY <1>1, <2>1, NextTurns
  <2>2. CASE Finish(o)
    <3>1. Moves(o) /\ op'[o] = Idle
      BY <2>2, FinishStep DEF IInv
    <3> QED  BY <3>1, IdleTurns DEF Writing
  <2> QED  BY <2>1, <2>2 DEF WriteFails
<1>3. TypeOK'
  BY <1>1, <1>2 DEF IInv, TypeOK, Moves
<1>4. Grows(o) /\ ContainersStay(o) /\ FilesStay
  BY <1>1 DEF Grows, ContainersStay, FilesStay
<1>5. LockMoves(o)
  BY <1>1, <1>2 DEF LockMoves, IInv, Locked
<1>6. IndexStays(o)
  BY <1>1, <1>2 DEF IndexStays, Writing
<1> QED  BY <1>2, <1>3, <1>4, <1>5, <1>6, CarefulStep

-----------------------------------------------------------------------------
(* Containers and files.                                                   *)

\* A step of o that leaves the index and its lock alone.
LEMMA BesidesIndex ==
  ASSUME IInv, TypeOK', NEW o \in Ops, Moves(o), Turns(o), Grows(o), ContainersStay(o), FilesStay,
         UNCHANGED <<index, backup, damage>>, op'[o].pc \notin Writing,
         (op[o].pc \notin Writing /\ writer' = writer)
           \/ writer' = (IF writer = o THEN "none" ELSE writer),
         Quarantines(o)' => op'[o].pc # "remove"
  PROVE  IInv'
<1>1. LockMoves(o)
  BY DEF LockMoves
<1>2. IndexStays(o)
  BY DEF IndexStays, Writing
<1> QED  BY <1>1, <1>2, CarefulStep

LEMMA SealStep ==
  ASSUME IInv, NEW o \in Ops, Seal(o)
  PROVE  IInv'
<1>1. /\ op[o].pc = "seal" /\ Record(o, "quarantined")
      /\ cont' = [cont EXCEPT ![op[o].id] = source[op[o].id]]
      /\ UNCHANGED <<file, temp, index, backup, writer, source, acked, asked, damage, failures>>
  BY DEF Seal, counts
<1>2. Quarantines(o) /\ QuarantineOK(o)
  BY <1>1 DEF IInv, Control, OtherOK, Updating, Restoring
<1>3. /\ Moves(o)
      /\ op'[o].pc = "update" /\ op'[o].next = op[o].next /\ op'[o].kind = op[o].kind
      /\ op'[o].id = op[o].id /\ op'[o].as = "quarantined"
  BY <1>1, RecordStep DEF IInv, States
<1>4. TypeOK' /\ cont'[op[o].id] = source[op[o].id]
  BY <1>1, <1>2, <1>3 DEF IInv, TypeOK, Moves, QuarantineOK
<1>5. Turns(o)
  <2>1. Quarantines(o)'
    BY <1>2, <1>3 DEF Quarantines
  <2>2. QuarantineOK(o)'
    BY <1>1, <1>2, <1>3, <1>4 DEF QuarantineOK, Updating, Writing
  <2> QED  BY <1>2, <1>3, <2>1, <2>2 DEF Turns
<1>6. Grows(o) /\ FilesStay /\ ContainersStay(o)
  BY <1>1, <1>2 DEF Grows, FilesStay, ContainersStay, IInv, TypeOK
<1> QED  BY <1>1, <1>3, <1>4, <1>5, <1>6, BesidesIndex DEF Writing

LEMMA DiscardStep ==
  ASSUME IInv, NEW o \in Ops, Discard(o)
  PROVE  IInv'
<1>1. /\ op[o].pc = "discard" /\ Record(o, "absent")
      /\ cont' = [cont EXCEPT ![op[o].id] = "none"]
      /\ UNCHANGED <<file, temp, index, backup, writer, source, acked, asked, damage, failures>>
  BY DEF Discard, counts
<1>2. Quarantines(o) /\ QuarantineOK(o)
  BY <1>1 DEF IInv, Control, OtherOK, Updating, Restoring
<1>3. /\ Moves(o)
      /\ op'[o].pc = "update" /\ op'[o].next = op[o].next /\ op'[o].kind = op[o].kind
      /\ op'[o].id = op[o].id /\ op'[o].as = "absent"
  BY <1>1, RecordStep DEF IInv, States
<1>4. TypeOK'
  BY <1>1, <1>2, <1>3 DEF IInv, TypeOK, Moves, QuarantineOK
<1>5. Turns(o)
  <2>1. Quarantines(o)'
    BY <1>2, <1>3 DEF Quarantines
  <2>2. QuarantineOK(o)'
    BY <1>1, <1>2, <1>3 DEF QuarantineOK, Updating, Writing
  <2> QED  BY <1>2, <1>3, <2>1, <2>2 DEF Turns
<1>6. Grows(o) /\ FilesStay /\ ContainersStay(o)
  BY <1>1, <1>2 DEF Grows, FilesStay, ContainersStay, IInv, TypeOK
<1> QED  BY <1>1, <1>3, <1>4, <1>5, <1>6, BesidesIndex DEF Writing

LEMMA EraseStep ==
  ASSUME IInv, NEW o \in Ops, Erase(o)
  PROVE  IInv'
<1>1. /\ op[o].pc = "erase" /\ Record(o, "deleted")
      /\ cont' = [cont EXCEPT ![op[o].id] = "none"]
      /\ UNCHANGED <<file, temp, index, backup, writer, source, acked, asked, damage, failures>>
  BY DEF Erase, counts
<1>2. ~Quarantines(o) /\ OtherOK(o)
  BY <1>1 DEF IInv, Control, QuarantineOK, Updating
<1>3. /\ Moves(o)
      /\ op'[o].pc = "update" /\ op'[o].next = op[o].next /\ op'[o].kind = op[o].kind
      /\ op'[o].id = op[o].id /\ op'[o].as = "deleted"
  BY <1>1, RecordStep DEF IInv, States
<1>4. op[o].kind = "delete" /\ op[o].id \in Ids /\ "delete" \in asked[op[o].id]
  BY <1>1, <1>2 DEF OtherOK
<1>5. TypeOK'
  BY <1>1, <1>3, <1>4 DEF IInv, TypeOK, Moves
<1>6. Turns(o)
  <2>1. ~Quarantines(o)'
    BY <1>2, <1>3 DEF Quarantines
  <2>2. OtherOK(o)'
    BY <1>1, <1>2, <1>3, <1>4 DEF OtherOK, Updating, Restoring
  <2> QED  BY <2>1, <2>2 DEF Turns
<1>7. Grows(o) /\ FilesStay /\ ContainersStay(o)
  BY <1>1, <1>4 DEF Grows, FilesStay, ContainersStay, IInv, TypeOK
<1> QED  BY <1>1, <1>3, <1>5, <1>6, <1>7, BesidesIndex DEF Writing, Quarantines

LEMMA RemoveSourceStep ==
  ASSUME IInv, NEW o \in Ops, RemoveSource(o)
  PROVE  IInv'
<1> DEFINE i == op[o].id
<1>1. /\ op[o].pc = "remove"
      /\ UNCHANGED <<cont, temp, index, backup, writer, source, asked, damage, failures>>
  BY DEF RemoveSource, counts
<1>2. Quarantines(o) /\ QuarantineOK(o) /\ i \in Ids /\ source[i] \in Files
  BY <1>1 DEF IInv, Control, OtherOK, Updating, Restoring, QuarantineOK
<1>3. CASE /\ file[source[i]] # "none" /\ file' = [file EXCEPT ![source[i]] = "none"]
           /\ acked' = acked \union {i} /\ Finish(o)
  <2>1. Moves(o) /\ op'[o] = Idle
    BY <1>3, FinishStep DEF IInv
  <2>2. Turns(o) /\ op'[o].pc = "idle" /\ ~Quarantines(o)'
    BY <2>1, IdleTurns
  <2>3. TypeOK'
    BY <1>1, <1>2, <1>3, <2>1 DEF IInv, TypeOK, Moves
  <2>4. Grows(o) /\ ContainersStay(o)
    BY <1>1, <1>2, <1>3 DEF Grows, ContainersStay
  <2>5. FilesStay
    BY <1>1, <1>2, <1>3 DEF FilesStay, IInv, TypeOK
  <2> QED  BY <1>1, <2>1, <2>2, <2>3, <2>4, <2>5, BesidesIndex DEF Writing
<1>4. CASE Goto(o, "discard") /\ UNCHANGED <<file, acked>>
  <2>1. /\ Moves(o)
        /\ op'[o].pc = "discard" /\ op'[o].next = "idle" /\ op'[o].kind = op[o].kind
        /\ op'[o].id = op[o].id /\ op'[o].as = op[o].as
    BY <1>4, GotoStep DEF IInv, Steps
  <2>2. Continues(o)
    BY <1>1, <2>1 DEF Continues
  <2>3. Turns(o)
    BY <1>1, <1>2, <1>4, <2>1, <2>2, QuarantineTurns DEF Writing
  <2> QED
    BY <1>1, <1>4, <2>1, <2>3, QuietStep DEF Writing, counts, IInv, TypeOK
<1> QED  BY <1>3, <1>4 DEF RemoveSource

\* A restore goes on only where the file is gone, so a quarantine of it returned.
LEMMA CheckStep ==
  ASSUME IInv, NEW o \in Ops, CheckDestination(o)
  PROVE  IInv'
<1>1. /\ op[o].pc = "check"
      /\ UNCHANGED <<file, cont, temp, index, backup, writer, source, acked, asked, counts>>
  BY DEF CheckDestination
<1>2. ~Quarantines(o) /\ OtherOK(o)
  BY <1>1 DEF IInv, Control, QuarantineOK, Updating
<1>3. CASE file[source[op[o].id]] = "none" /\ Goto(o, "decrypt")
  <2>1. /\ Moves(o)
        /\ op'[o].pc = "decrypt" /\ op'[o].next = "idle" /\ op'[o].kind = op[o].kind
        /\ op'[o].id = op[o].id /\ op'[o].as = op[o].as
    BY <1>3, GotoStep DEF IInv, Steps, Restoring
  <2>2. Continues(o)
    BY <1>1, <2>1 DEF Continues
  <2>3. \E j \in acked : source[j] = source[op[o].id]
    BY <1>1, <1>2, <1>3 DEF OtherOK, IInv, KeptSomewhere
  <2>4. Turns(o)
    BY <1>1, <1>2, <2>1, <2>2, <2>3, OtherTurns DEF OtherOK, Restoring
  <2> QED  BY <1>1, <2>1, <2>4, QuietStep DEF Writing, IInv, TypeOK
<1>4. CASE Finish(o)
  <2>1. Moves(o) /\ op'[o] = Idle
    BY <1>4, FinishStep DEF IInv
  <2> QED  BY <1>1, <2>1, IdleTurns, QuietStep DEF Writing, IInv, TypeOK
<1> QED  BY <1>3, <1>4 DEF CheckDestination

LEMMA OpenStep ==
  ASSUME IInv, NEW o \in Ops, OpenTemporary(o)
  PROVE  IInv'
<1>1. /\ op[o].pc = "decrypt"
      /\ UNCHANGED <<file, cont, index, backup, writer, source, acked, asked, counts>>
  BY DEF OpenTemporary
<1>2. ~Quarantines(o) /\ OtherOK(o)
  BY <1>1 DEF IInv, Control, QuarantineOK, Updating
<1>3. CASE temp' = [temp EXCEPT ![op[o].id] = o] /\ Goto(o, "writing")
  <2>1. /\ Moves(o)
        /\ op'[o].pc = "writing" /\ op'[o].next = "idle" /\ op'[o].kind = op[o].kind
        /\ op'[o].id = op[o].id /\ op'[o].as = op[o].as
    BY <1>3, GotoStep DEF IInv, Steps, Restoring
  <2>2. Continues(o)
    BY <1>1, <2>1 DEF Continues
  <2>3. Turns(o)
    BY <1>1, <1>2, <2>1, <2>2, OtherTurns DEF OtherOK, Restoring
  <2>4. temp' \in [Ids -> {"none", "full", "torn"} \union Ops]
    BY <1>3 DEF IInv, TypeOK
  <2> QED  BY <1>1, <2>1, <2>3, <2>4, QuietStep DEF Writing
<1>4. CASE temp' = [temp EXCEPT ![op[o].id] = "none"] /\ Finish(o)
  <2>1. Moves(o) /\ op'[o] = Idle
    BY <1>4, FinishStep DEF IInv
  <2>2. temp' \in [Ids -> {"none", "full", "torn"} \union Ops]
    BY <1>4 DEF IInv, TypeOK
  <2> QED  BY <1>1, <2>1, <2>2, IdleTurns, QuietStep DEF Writing
<1> QED  BY <1>3, <1>4 DEF OpenTemporary

LEMMA FinishTemporaryStep ==
  ASSUME IInv, NEW o \in Ops, FinishTemporary(o)
  PROVE  IInv'
<1>1. /\ op[o].pc = "writing" /\ Goto(o, "rename")
      /\ temp' = [i \in Ids |-> IF temp[i] = o THEN "full" ELSE temp[i]]
      /\ file' = [f \in Files |-> IF file[f] = o THEN "item" ELSE file[f]]
      /\ UNCHANGED <<cont, index, backup, writer, source, acked, asked, damage, failures>>
  BY DEF FinishTemporary, counts
<1>2. ~Quarantines(o) /\ OtherOK(o)
  BY <1>1 DEF IInv, Control, QuarantineOK, Updating
<1>3. /\ Moves(o)
      /\ op'[o].pc = "rename" /\ op'[o].next = "idle" /\ op'[o].kind = op[o].kind
      /\ op'[o].id = op[o].id /\ op'[o].as = op[o].as
  BY <1>1, GotoStep DEF IInv, Steps, Restoring
<1>4. Continues(o)
  BY <1>1, <1>3 DEF Continues
<1>5. Turns(o)
  BY <1>1, <1>2, <1>3, <1>4, OtherTurns DEF OtherOK, Restoring
<1>6. TypeOK'
  BY <1>1, <1>3 DEF IInv, TypeOK, Moves
<1>7. Grows(o) /\ ContainersStay(o) /\ FilesStay
  BY <1>1 DEF Grows, ContainersStay, FilesStay
<1> QED  BY <1>1, <1>3, <1>5, <1>6, <1>7, BesidesIndex DEF Writing

LEMMA MoveStep ==
  ASSUME IInv, NEW o \in Ops, MoveTemporary(o)
  PROVE  IInv'
<1> DEFINE i == op[o].id
<1>1. /\ op[o].pc = "rename"
      /\ UNCHANGED <<cont, index, backup, writer, source, acked, asked, damage, failures>>
  BY DEF MoveTemporary, counts
<1>2. ~Quarantines(o) /\ OtherOK(o) /\ i \in Ids /\ source[i] \in Files
  BY <1>1 DEF IInv, Control, QuarantineOK, Updating, OtherOK
<1>3. CASE Finish(o) /\ UNCHANGED <<file, temp>>
  <2>1. Moves(o) /\ op'[o] = Idle
    BY <1>3, FinishStep DEF IInv
  <2> QED  BY <1>1, <1>3, <2>1, IdleTurns, QuietStep DEF Writing, counts, IInv, TypeOK
<1>4. CASE /\ temp[i] # "none" /\ temp' = [temp EXCEPT ![i] = "none"]
           /\ file' = [file EXCEPT ![source[i]] = IF temp[i] = "full" THEN "item" ELSE temp[i]]
           /\ Record(o, "restored")
  <2>1. /\ Moves(o)
        /\ op'[o].pc = "update" /\ op'[o].next = op[o].next /\ op'[o].kind = op[o].kind
        /\ op'[o].id = op[o].id /\ op'[o].as = "restored"
    BY <1>4, RecordStep DEF IInv, States
  <2>2. op[o].kind = "restore" /\ \E j \in acked : source[j] = source[i]
    BY <1>1, <1>2 DEF OtherOK, Restoring
  <2>3. Turns(o)
    <3>1. ~Quarantines(o)'
      BY <1>2, <2>1 DEF Quarantines
    <3>2. OtherOK(o)'
      BY <1>1, <1>2, <2>1, <2>2 DEF OtherOK, Updating, Restoring
    <3> QED  BY <3>1, <3>2 DEF Turns
  <2>4. temp[i] \in {"full", "torn"} \union Ops
    BY <1>2, <1>4 DEF IInv, TypeOK
  <2>5. TypeOK'
    <3>1. file' \in [Files -> {"item", "new", "torn", "none"} \union Ops]
      BY <1>4, <2>4 DEF IInv, TypeOK
    <3> QED  BY <1>1, <1>4, <2>1, <3>1 DEF IInv, TypeOK, Moves
  <2>6. Grows(o) /\ ContainersStay(o)
    BY <1>1 DEF Grows, ContainersStay
  <2>7. FilesStay
    BY <1>1, <1>4, <2>2 DEF FilesStay, IInv, TypeOK
  <2> QED  BY <1>1, <1>2, <2>1, <2>3, <2>5, <2>6, <2>7, BesidesIndex DEF Writing, Quarantines
<1> QED  BY <1>3, <1>4 DEF MoveTemporary

LEMMA AbandonStep ==
  ASSUME IInv, NEW o \in Ops, Abandon(o)
  PROVE  IInv'
<1>1. /\ failures' = failures + 1 /\ Finish(o)
      /\ writer' = (IF writer = o THEN "none" ELSE writer)
      /\ temp' = [i \in Ids |-> IF temp[i] = o THEN "torn" ELSE temp[i]]
      /\ file' = [f \in Files |-> IF file[f] = o THEN "torn" ELSE file[f]]
      /\ UNCHANGED <<cont, index, backup, source, acked, asked, damage>>
  BY DEF Abandon
<1>2. Moves(o) /\ op'[o] = Idle
  BY <1>1, FinishStep DEF IInv
<1>3. Turns(o) /\ op'[o].pc = "idle" /\ ~Quarantines(o)'
  BY <1>2, IdleTurns
<1>4. TypeOK'
  BY <1>1, <1>2 DEF IInv, TypeOK, Moves
<1>5. Grows(o) /\ ContainersStay(o)
  BY <1>1 DEF Grows, ContainersStay
<1>6. FilesStay
  BY <1>1, QuarantineAssumption DEF QuarantineAssumption, FilesStay
<1> QED  BY <1>1, <1>2, <1>3, <1>4, <1>5, <1>6, BesidesIndex DEF Writing

-----------------------------------------------------------------------------
(* Operations that begin, users and damages.                               *)

LEMMA BeginQuarantineStep ==
  ASSUME IInv, NEW o \in Ops, NEW i \in Ids, NEW f \in Files, BeginQuarantine(o, i, f)
  PROVE  IInv'
<1>1. /\ op[o].pc = "idle" /\ source[i] = "none" /\ source' = [source EXCEPT ![i] = f]
      /\ op' = [op EXCEPT ![o] = [Idle EXCEPT !.pc = "seal", !.kind = "quarantine", !.id = i]]
      /\ UNCHANGED <<file, cont, temp, index, backup, writer, acked, asked, damage, failures>>
  BY DEF BeginQuarantine, counts
<1>2. /\ Moves(o)
      /\ op'[o].pc = "seal" /\ op'[o].kind = "quarantine" /\ op'[o].id = i
      /\ op'[o].as = "absent" /\ op'[o].next = "idle"
  <2>1. [Idle EXCEPT !.pc = "seal", !.kind = "quarantine", !.id = i] \in Operations
    BY IdleTyped DEF Operations, Steps, AllKinds
  <2> QED  BY <1>1, <2>1 DEF Moves, IInv, TypeOK, Idle
<1>3. ~Quarantines(o)
  BY <1>1 DEF IInv, Control, QuarantineOK, Updating
<1>4. "none" \notin Files
  BY QuarantineAssumption DEF QuarantineAssumption
<1>5. Grows(o) /\ ContainersStay(o) /\ FilesStay
  BY <1>1, <1>4 DEF Grows, ContainersStay, FilesStay, IInv, TypeOK
<1>6. TypeOK'
  BY <1>1, <1>2 DEF IInv, TypeOK, Moves
<1>7. i \notin acked /\ \A p \in Ops : Quarantines(p) => op[p].id # i
  BY <1>1, <1>4 DEF IInv, AckedKept, Control, QuarantineOK
<1>8. QuarantineOK(o)' /\ Quarantines(o)'
  BY <1>1, <1>2, <1>7 DEF QuarantineOK, Quarantines, Writing, IInv, TypeOK
<1>9. OwnContainer'
  BY <1>2, <1>7 DEF IInv, OwnContainer, Quarantines, Moves
<1>10. Control'
  <2>1. ASSUME NEW p \in Ops, p # o
        PROVE  (IF Quarantines(p) THEN QuarantineOK(p) ELSE OtherOK(p))'
    <3>1. op'[p] = op[p] /\ (Quarantines(p)' <=> Quarantines(p))
      BY <1>2, <2>1 DEF Moves, Quarantines
    <3>2. CASE Quarantines(p)
      <4>1. QuarantineOK(p) /\ source'[op[p].id] = source[op[p].id]
        BY <1>5, <3>2 DEF IInv, Control, QuarantineOK, Grows
      <4>2. UNCHANGED <<cont, acked, asked>>
        BY <1>1
      <4>3. QuarantineOK(p)'
        BY <3>1, <4>1, <4>2 DEF QuarantineOK
      <4> QED  BY <3>1, <3>2, <4>3
    <3>3. CASE ~Quarantines(p)
      <4>1. OtherOK(p) /\ (op[p].pc # "idle" => source'[op[p].id] = source[op[p].id])
        BY <1>5, <3>3 DEF IInv, Control, OtherOK, Grows
      <4>2. \A j \in acked : source'[j] = source[j]
        BY <1>5 DEF IInv, AckedKept, TypeOK, Grows
      <4>3. op[p].pc \in Restoring => op[p].pc # "idle"
        BY DEF Restoring
      <4> QED  BY <1>1, <3>1, <3>3, <4>1, <4>2, <4>3 DEF OtherOK
    <3> QED  BY <3>2, <3>3
  <2> QED  BY <1>8, <2>1 DEF Control
<1>11. AckedKept'
  BY <1>1, <1>5 DEF IInv, AckedKept, TypeOK, Grows
<1>12. Locked' /\ KeptSomewhere'
  <2>1. LockMoves(o)
    BY <1>1, <1>2 DEF LockMoves, Writing
  <2> QED  BY <1>2, <1>5, <2>1, LockedStep, KeptStep
<1>13. CopyFirst'
  BY <1>1, <1>2 DEF IInv, CopyFirst, Moves, Valid
<1>14. StaysListed'
  <2>1. ASSUME NEW j \in Ids, Listed(j)'
        PROVE  Listed(j) /\ source'[j] = source[j]
    <3>1. Listed(j)
      BY <1>1, <1>2, <2>1 DEF Listed, Moves, Quarantines
    <3> QED  BY <1>5, <3>1 DEF Listed, IInv, AckedKept, Control, QuarantineOK, Grows
  <2> QED
    BY <1>1, <1>2, <2>1 DEF IInv, StaysListed, Lists, Valid, Moves, Writing
<1> QED
  BY <1>6, <1>9, <1>10, <1>11, <1>12, <1>13, <1>14 DEF IInv

LEMMA BeginReadStep ==
  ASSUME IInv, NEW o \in Ops, NEW i \in Ids, NEW kind \in AllKinds, BeginRead(o, kind, i)
  PROVE  IInv'
<1>1. /\ op[o].pc = "idle" /\ source[i] # "none" /\ kind # "quarantine"
      /\ op' = [op EXCEPT ![o] = [Idle EXCEPT !.pc = "read", !.kind = kind, !.id = i]]
      /\ asked' = [asked EXCEPT ![i] = asked[i] \union ({kind} \ {"list"})]
      /\ UNCHANGED <<file, cont, temp, index, backup, writer, source, acked, damage, failures>>
  BY DEF BeginRead, counts, IInv, TypeOK
<1>2. /\ Moves(o)
      /\ op'[o].pc = "read" /\ op'[o].kind = kind /\ op'[o].id = i
      /\ op'[o].as = "absent" /\ op'[o].next = "idle"
  <2>1. [Idle EXCEPT !.pc = "read", !.kind = kind, !.id = i] \in Operations
    BY IdleTyped DEF Operations, Steps
  <2> QED  BY <1>1, <2>1 DEF Moves, IInv, TypeOK, Idle
<1>3. ~Quarantines(o)'
  BY <1>1, <1>2 DEF Quarantines
<1>4. Turns(o)
  <2>1. OtherOK(o)'
    BY <1>1, <1>2 DEF OtherOK, Updating, Restoring, IInv, TypeOK
  <2> QED  BY <1>3, <2>1 DEF Turns
<1>5. TypeOK'
  BY <1>1, <1>2 DEF IInv, TypeOK, Moves
<1>6. Grows(o) /\ ContainersStay(o) /\ FilesStay
  BY <1>1 DEF Grows, ContainersStay, FilesStay, IInv, TypeOK
<1> QED  BY <1>1, <1>2, <1>3, <1>4, <1>5, <1>6, BesidesIndex DEF Writing

\* Steps of nobody's operation.
LEMMA OutsideStep ==
  ASSUME IInv, TypeOK', FilesStay,
         UNCHANGED <<cont, writer, op, source, acked, asked>>
  PROVE  /\ Locked' /\ Control' /\ OwnContainer' /\ AckedKept' /\ KeptSomewhere'
         /\ \A i \in Ids : Listed(i)' <=> Listed(i)
<1>1. Locked' /\ OwnContainer' /\ AckedKept'
  BY DEF IInv, Locked, OwnContainer, AckedKept, Quarantines
<1>2. Control'
  BY DEF IInv, Control, Quarantines, QuarantineOK, OtherOK
<1>3. KeptSomewhere'
  BY DEF IInv, KeptSomewhere, FilesStay
<1>4. \A i \in Ids : Listed(i)' <=> Listed(i)
  BY DEF Listed, Quarantines
<1> QED  BY <1>1, <1>2, <1>3, <1>4

LEMMA UserStep ==
  ASSUME IInv, NEW f \in Files, UserWrites(f)
  PROVE  IInv'
<1>1. /\ file[f] = "none" /\ file' = [file EXCEPT ![f] = "new"]
      /\ UNCHANGED <<cont, temp, index, backup, writer, op, source, acked, asked, damage, failures>>
  BY DEF UserWrites, counts
<1>2. TypeOK' /\ FilesStay
  BY <1>1 DEF IInv, TypeOK, FilesStay
<1>3. StaysListed' /\ CopyFirst'
  BY <1>1, <1>2, OutsideStep DEF IInv, StaysListed, CopyFirst, Lists, Valid
<1> QED  BY <1>1, <1>2, <1>3, OutsideStep DEF IInv

\* One damage leaves the index or its copy.
LEMMA DamageStep ==
  ASSUME IInv, NEW how \in Lost, Damage(how)
  PROVE  IInv'
<1>1. /\ damage' = damage + 1 /\ damage \in Nat
      /\ \/ index' = how /\ UNCHANGED backup
         \/ backup' = how /\ UNCHANGED index
      /\ UNCHANGED <<file, cont, temp, writer, op, source, acked, asked, failures>>
  BY DEF Damage, IInv, TypeOK
<1>2. TypeOK' /\ FilesStay
  BY <1>1 DEF IInv, TypeOK, FilesStay
<1>3. /\ Valid(index') => Valid(index) /\ index' = index
      /\ Valid(backup') => Valid(backup) /\ backup' = backup
      /\ Valid(index) /\ Valid(backup) => Valid(index') \/ Valid(backup')
      /\ damage' # 0 /\ (damage' = 1 => damage = 0) /\ (damage > 1 => damage' > 1)
  BY <1>1 DEF Valid
<1>4. StaysListed'
  <2> SUFFICES ASSUME NEW i \in Ids, Listed(i)'
               PROVE  /\ cont'[i] = source'[i]
                      /\ Valid(index') => Lists(index, i)'
                      /\ Valid(backup') => Lists(backup, i)'
                      /\ \A p \in Ops : op'[p].pc \in Writing => Lists(op[p].base, i)'
                      /\ damage' = 0 => Valid(index') /\ Valid(backup')
                      /\ damage' = 1 => Valid(index') \/ Valid(backup')
    BY DEF StaysListed, Valid
  <2>1. Listed(i)
    BY <1>1, <1>2, OutsideStep
  <2>2. /\ cont[i] = source[i]
        /\ Valid(index) => Lists(index, i)
        /\ Valid(backup) => Lists(backup, i)
        /\ \A p \in Ops : op[p].pc \in Writing => Lists(op[p].base, i)
        /\ damage = 0 => Valid(index) /\ Valid(backup)
    BY <2>1 DEF IInv, StaysListed
  <2> QED  BY <1>1, <1>3, <2>2 DEF Lists
<1>5. CopyFirst'
  BY <1>1, <1>3 DEF IInv, CopyFirst, Valid
<1> QED  BY <1>1, <1>2, <1>4, <1>5, OutsideStep DEF IInv

-----------------------------------------------------------------------------
(* The theorems of the quarantine.                                         *)

LEMMA InitIInv == Init => IInv
<1> SUFFICES ASSUME Init PROVE IInv
  OBVIOUS
<1>1. \A o \in Ops : /\ op[o] = Idle /\ op[o].pc = "idle" /\ op[o].kind = "list" /\ op[o].next = "idle"
                     /\ op[o].as = "absent"
  BY DEF Init, Idle
<1>2. TypeOK
  BY IdleTyped DEF Init, TypeOK, Lost
<1>3. Locked /\ OwnContainer /\ AckedKept /\ KeptSomewhere /\ CopyFirst
  BY <1>1, QuarantineAssumption
  DEF QuarantineAssumption, Init, Locked, Writing, OwnContainer, Quarantines, AckedKept,
      KeptSomewhere, CopyFirst
<1>4. Control
  BY <1>1 DEF Control, Quarantines, OtherOK, Restoring
<1>5. StaysListed
  BY <1>1 DEF StaysListed, Listed, Quarantines, Init
<1> QED  BY <1>2, <1>3, <1>4, <1>5 DEF IInv

LEMMA StepIInv == IInv /\ [Next]_vars => IInv'
<1> SUFFICES ASSUME IInv, [Next]_vars PROVE IInv'
  OBVIOUS
<1>1. ASSUME NEW o \in Ops, OpStep(o) \/ WriteFails(o) \/ Abandon(o)
      PROVE  IInv'
  BY <1>1, UpdateIndexStep, RecoverStep, ReadStep, WriteBackupStep, WriteIndexStep, SealStep,
     RemoveSourceStep, DiscardStep, CheckStep, OpenStep, FinishTemporaryStep, MoveStep, EraseStep,
     WriteFailsStep, AbandonStep
  DEF OpStep
<1>2. CASE UNCHANGED vars
  <2>1. TypeOK' /\ FilesStay
    BY <1>2 DEF vars, IInv, TypeOK, FilesStay
  <2>2. StaysListed' /\ CopyFirst'
    BY <1>2, <2>1, OutsideStep DEF vars, IInv, StaysListed, CopyFirst, Lists, Valid
  <2> QED  BY <1>2, <2>1, <2>2, OutsideStep DEF IInv, vars
<1> QED
  BY <1>1, <1>2, BeginQuarantineStep, BeginReadStep, UserStep, DamageStep DEF Next

THEOREM Invariance == Spec => []IInv
BY InitIInv, StepIInv, PTL DEF Spec

\* For any number of operations and processes, exits, failed writes and
\* damages: what was quarantined and not asked for keeps its container, and
\* every index that can be read lists it.
THEOREM QuarantineSurvives == Spec => []AcknowledgedSurvives
<1>1. IInv => AcknowledgedSurvives
  <2> SUFFICES ASSUME IInv, NEW i \in acked, asked[i] = {}
               PROVE  /\ cont[i] = source[i]
                      /\ Valid(index) => index[i] = "quarantined" \/ (damage > 1 /\ index[i] = "orphaned")
    BY DEF AcknowledgedSurvives
  <2>1. i \in Ids /\ Listed(i)
    BY DEF IInv, TypeOK, Listed
  <2> QED  BY <2>1 DEF IInv, StaysListed, Lists
<1> QED  BY <1>1, Invariance, PTL

\* No detected file disappears, for any number of quarantines, restores and
\* deletions of one path at once.
THEOREM NoFileLost == Spec => []NothingLost
<1>1. IInv => NothingLost
  <2> SUFFICES ASSUME IInv, NEW f \in Files, file[f] # "item"
               PROVE  \E i \in Ids : source[i] = f /\ (cont[i] = f \/ "delete" \in asked[i])
    BY DEF NothingLost
  <2>1. PICK i \in acked : source[i] = f
    BY DEF IInv, KeptSomewhere
  <2> QED  BY <2>1 DEF IInv, TypeOK, AckedKept
<1> QED  BY <1>1, Invariance, PTL

\* No operation waits for the lock it holds.
THEOREM NoSelfWait == Spec => []NoWaitForOwnLock
<1>1. IInv => NoWaitForOwnLock
  BY DEF IInv, Locked, NoWaitForOwnLock, Writing
<1> QED  BY <1>1, Invariance, PTL

-----------------------------------------------------------------------------
(* Realtime protection: the inductive invariant.                           *)

Inspections == [step : {"idle", "stat", "scan", "handle"}, file : Watched \union {"none"},
                begun : Nat, seen : Nat]
RunningIn(slots) == {s \in Slots : slots[s].step # "idle"}
Running == RunningIn(inspection)
Deep == {s \in Running : /\ inspection[s].step \in {"scan", "handle"}
                        /\ inspection[s].file \in Downloads}
Settles(f) == content[f] \in {scanned[f], failed[f]}

RealtimeTyped ==
  /\ content \in [Watched -> Nat] /\ events \in [Watched -> Nat]
  /\ pending \in Seq(Watched) /\ priorityQueue \in Seq(Watched) /\ scanQueue \in Seq(Watched)
  /\ recent \in [Watched -> Nat] /\ deepActive \subseteq Downloads /\ rescan \subseteq Downloads
  /\ noticed \in [Watched -> Nat] /\ scanned \in [Watched -> Nat] /\ failed \in [Watched -> Nat]
  /\ dropped \subseteq Watched /\ writes \in Nat

\* A slot is free or inspects a file.
SlotsOK(slots) ==
  /\ slots \in [Slots -> Inspections]
  /\ \A s \in Slots : IF slots[s].step = "idle" THEN slots[s] = NoInspection
                      ELSE slots[s].file \in Watched
InspectionsOK == SlotsOK(inspection)

\* active counts the inspections; an object that has not started inspects nothing.
CountedAs(slots, running) ==
  /\ running = Cardinality(RunningIn(slots)) /\ running <= Concurrency
  /\ phase # "on" => RunningIn(slots) = {}
Counted == CountedAs(inspection, active)

PendingOK == IsInjective(pending) /\ Len(pending) <= Capacity

\* Every deep scan has its file to itself.
DeepOK ==
  /\ \A s \in Deep : inspection[s].file \in deepActive
  /\ \A s, t \in Deep : s # t => inspection[s].file # inspection[t].file

\* What was seen of a file is no newer than the file; a fingerprint that matches was settled.
PastOK ==
  \A f \in Watched :
    /\ content[f] <= writes /\ noticed[f] <= writes /\ recent[f] <= writes /\ failed[f] <= writes
    /\ content[f] # 0 => failed[f] <= content[f]
    /\ content[f] # 0 /\ recent[f] = content[f] => Settles(f)

\* A scan read no newer content than the file's; one that handles a detection settled its own.
SeenOK ==
  \A s \in Slots, f \in Watched :
    InUse(s) /\ inspection[s].file = f =>
      /\ inspection[s].seen <= writes
      /\ content[f] # 0 => inspection[s].seen <= content[f]
      /\ /\ inspection[s].step = "handle" 
         /\ content[f] # 0 /\ inspection[s].seen = content[f]
         => Settles(f)

\* The inspection s still has the present content of f before it.
Ahead(s, f) ==
  /\ s \in Running /\ inspection[s].file = f
  /\ IF inspection[s].step = "stat" THEN inspection[s].begun = content[f]
     ELSE inspection[s].seen = content[f]

Accounted(f) ==
  content[f] # 0 /\ noticed[f] = content[f] =>
    \/ Settles(f) \/ f \in dropped
    \/ f \in ToSet(pending) \/ f \in Queued \/ f \in rescan
    \/ \E s \in Slots : Ahead(s, f)

\* The invariant of an object that has not been stopped.
RealtimeInv ==
  /\ RealtimeTyped /\ InspectionsOK /\ Counted /\ PendingOK /\ DeepOK /\ PastOK /\ SeenOK
  /\ \A f \in Watched : Accounted(f)

\* What is left of it once the object was stopped while it ran: inspections go on that active
\* does not count any more.
StoppedInv == RealtimeTyped /\ InspectionsOK /\ PendingOK

EngineTyped ==
  /\ life \in [Objects -> {"none", "starting", "on", "off"}]
  /\ protection \in Objects \union {"none"} /\ calls \in Nat /\ overlapped \in BOOLEAN

\* While no calls overlap, a call finds no live object, and the current object is the only one
\* that may live.
EngineOK ==
  ~overlapped =>
    /\ calls <= 1 /\ \A o \in Objects : Live(o) => o = protection
    /\ calls > 0 => \A o \in Objects : ~Live(o)

EngineInv == EngineTyped /\ EngineOK

\* The inductive invariant.
ProtectionInv == EngineInv /\ StoppedInv /\ (phase # "off" => RealtimeInv)

-----------------------------------------------------------------------------
(* Counting.                                                               *)

\* The place of s among the free slots.
Below(free, s) == {t \in free : t <= s}
Rank(free, s) == Cardinality(Below(free, s))

\* The free slots are ranked one by one; as many as there are places up to n
\* have a rank up to n.
LEMMA Ranks ==
  ASSUME NEW N \in Nat, NEW free \in SUBSET (1..N), NEW n \in Nat, n <= Cardinality(free)
  PROVE  /\ \A s \in free : Rank(free, s) \in 1..Cardinality(free)
         /\ \A i \in 1..n : \E s \in free : Rank(free, s) = i
         /\ Cardinality({s \in free : Rank(free, s) <= n}) = n
  <1> DEFINE k == Cardinality(free)
             rank == [s \in free |-> Rank(free, s)]
  <1>1. IsFiniteSet(free) /\ k \in Nat
    <2>1. IsFiniteSet(1..N)
      BY FS_Interval
    <2>2. IsFiniteSet(free)
      BY <2>1, FS_Subset
    <2> QED BY <2>2, FS_CardinalityType
  <1>0. free \subseteq Nat
    OBVIOUS
  <1>2. \A s \in free : IsFiniteSet(Below(free, s)) /\ Rank(free, s) \in 1..k
    <2> SUFFICES ASSUME NEW s \in free PROVE IsFiniteSet(Below(free, s)) /\ Rank(free, s) \in 1..k
      OBVIOUS
    <2>0. Below(free, s) \in SUBSET free
      BY DEF Below
    <2>1. IsFiniteSet(Below(free, s)) /\ Cardinality(Below(free, s)) <= k
      BY <1>1, <2>0, FS_Subset
    <2>2. Cardinality(Below(free, s)) \in Nat
      BY <2>1, FS_CardinalityType
    <2>3. s \in Below(free, s)
      BY <1>0 DEF Below
    <2>4. Cardinality(Below(free, s)) # 0
      BY <2>1, <2>3, FS_EmptySet
    <2> QED BY <2>1, <2>2, <2>4, <1>1 DEF Rank
  <1>3. \A s, t \in free : s < t => Rank(free, s) < Rank(free, t)
    <2> SUFFICES ASSUME NEW s \in free, NEW t \in free, s < t
                 PROVE  Rank(free, s) < Rank(free, t)
      OBVIOUS
    <2>0. s \in Nat /\ t \in Nat
      BY <1>0
    <2>1. Below(free, s) \subseteq Below(free, t)
      <3> SUFFICES ASSUME NEW x \in Below(free, s) PROVE x \in Below(free, t)
        OBVIOUS
      <3>1. x \in free /\ x \in Nat /\ x <= s
        BY <1>0 DEF Below
      <3> QED BY <2>0, <3>1 DEF Below
    <2>3. t \in Below(free, t) /\ t \notin Below(free, s)
      BY <2>0 DEF Below
    <2>2. /\ Cardinality(Below(free, s)) <= Cardinality(Below(free, t))
          /\ Cardinality(Below(free, s)) # Cardinality(Below(free, t))
      BY <1>2, <2>1, <2>3, FS_Subset
    <2> QED BY <1>2, <2>2 DEF Rank
  <1>4. \A s, t \in free : Rank(free, s) = Rank(free, t) => s = t
    <2> SUFFICES ASSUME NEW s \in free, NEW t \in free, Rank(free, s) = Rank(free, t), s # t
                 PROVE  FALSE
      OBVIOUS
    <2>1. s < t \/ t < s
      BY <1>0
    <2>2. Rank(free, s) \in Nat /\ Rank(free, t) \in Nat
      BY <1>1, <1>2
    <2> QED BY <1>3, <2>1, <2>2
  <1>5. rank \in Injection(free, 1..k)
    BY <1>2, <1>4 DEF Injection, IsInjective
  <1>6. IsFiniteSet(1..k) /\ Cardinality(1..k) = k
    BY <1>1, FS_Interval
  <1>7. rank \in Surjection(free, 1..k)
    BY <1>5, <1>6, FS_Injection
  <1>8. \A i \in 1..n : \E s \in free : Rank(free, s) = i
    <2> SUFFICES ASSUME NEW i \in 1..n PROVE \E s \in free : Rank(free, s) = i
      OBVIOUS
    <2>1. i \in 1..k
      BY <1>1
    <2>2. \E s \in free : rank[s] = i
      BY <1>7, <2>1 DEF Surjection
    <2> QED BY <2>2
  <1>9. Cardinality({s \in free : Rank(free, s) <= n}) = n
    <2> DEFINE S == {s \in free : Rank(free, s) <= n}
               f == [s \in S |-> Rank(free, s)]
    <2>0. \A s \in S : Rank(free, s) \in 1..n
      BY <1>2
    <2>1. f \in Injection(S, 1..n)
      BY <1>4, <2>0 DEF Injection, IsInjective
    <2>2. f \in Surjection(S, 1..n)
      BY <1>8, <2>1 DEF Surjection, Injection
    <2>3. IsFiniteSet(1..n) /\ Cardinality(1..n) = n
      BY FS_Interval
    <2> QED BY <2>1, <2>2, <2>3, FS_Injection
  <1> QED BY <1>2, <1>8, <1>9

LEMMA SlotsFinite ==
  /\ Concurrency \in Nat /\ IsFiniteSet(Slots) /\ Cardinality(Slots) = Concurrency
  /\ \A S \in SUBSET Slots : IsFiniteSet(S) /\ Cardinality(S) \in Nat
  <1>1. Concurrency \in Nat
    BY RealtimeAssumption
  <1>2. IsFiniteSet(Slots) /\ Cardinality(Slots) = Concurrency
    BY <1>1, FS_Interval DEF Slots
  <1> QED BY <1>1, <1>2, FS_Subset, FS_CardinalityType

\* Free slots are enough for what may be started.
LEMMA EnoughSlots ==
  ASSUME NEW slots, NEW running, CountedAs(slots, running)
  PROVE  LET free == {s \in Slots : slots[s].step = "idle"}
         IN  /\ running \in Nat /\ Concurrency - running <= Cardinality(free)
             /\ free \cap RunningIn(slots) = {}
  <1> DEFINE free == {s \in Slots : slots[s].step = "idle"}
             run == RunningIn(slots)
  <1>1. run \in SUBSET Slots /\ free = Slots \ run /\ free \cap run = {} /\ Slots \cap run = run
    BY DEF RunningIn
  <1>2. running = Cardinality(run)
    BY DEF CountedAs
  <1> HIDE DEF free, run
  <1>3. IsFiniteSet(Slots) /\ Cardinality(run) \in Nat
    BY <1>1, SlotsFinite
  <1>4. Cardinality(Slots \ run) = Cardinality(Slots) - Cardinality(Slots \cap run)
    BY <1>3, FS_Difference
  <1>5. Concurrency - running <= Cardinality(free)
    BY <1>1, <1>2, <1>3, <1>4, SlotsFinite
  <1> QED BY <1>1, <1>2, <1>3, <1>5 DEF free, run

\* How many inspections a pump starts.
Startable(work, running) ==
  IF phase # "on" \/ running >= Concurrency THEN 0
  ELSE IF Len(work) < Concurrency - running THEN Len(work) ELSE Concurrency - running

Fresh(f) == [NoInspection EXCEPT !.step = "stat", !.file = f, !.begun = content[f]]

LEMMA FreshFields ==
  ASSUME NEW f \in Watched, content[f] \in Nat
  PROVE  /\ Fresh(f) \in Inspections /\ Fresh(f).step = "stat" /\ Fresh(f).file = f
         /\ Fresh(f).begun = content[f] /\ Fresh(f).seen = 0
  <1>1. NoInspection \in Inspections /\ NoInspection.seen = 0
    BY DEF NoInspection, Inspections
  <1>2. PICK a \in Inspections : a = [NoInspection EXCEPT !.step = "stat"]
    BY <1>1 DEF Inspections
  <1>3. a.step = "stat" /\ a.seen = 0
    BY <1>1, <1>2 DEF Inspections
  <1>4. PICK b \in Inspections : b = [a EXCEPT !.file = f]
    BY DEF Inspections
  <1>5. b.step = "stat" /\ b.file = f /\ b.seen = 0
    BY <1>3, <1>4 DEF Inspections
  <1>6. PICK c \in Inspections : c = [b EXCEPT !.begun = content[f]]
    BY DEF Inspections
  <1>7. c.step = "stat" /\ c.file = f /\ c.begun = content[f] /\ c.seen = 0
    BY <1>5, <1>6 DEF Inspections
  <1>8. Fresh(f) = c
    BY <1>2, <1>4, <1>6 DEF Fresh
  <1> QED BY <1>7, <1>8

\* What a pump does to the slots: it starts as many inspections as Startable says, on the
\* first files of the work, in free slots.
LEMMA PumpSlots ==
  ASSUME NEW deep \in Seq(Watched), NEW plain \in Seq(Watched), NEW slots, NEW running,
         SlotsOK(slots), CountedAs(slots, running), RealtimeTyped, UNCHANGED phase,
         Pump(deep, plain, slots, running)
  PROVE  LET work == deep \o plain
             n == Startable(work, running)
         IN
         /\ n \in 0..Len(work) /\ work \in Seq(Watched)
         /\ SlotsOK(inspection') /\ CountedAs(inspection, active)'
         /\ \A s \in Slots : \/ inspection'[s] = slots[s]
                             \/ /\ slots[s] = NoInspection
                                /\ \E f \in Watched : inspection'[s] = Fresh(f)
         /\ \A i \in 1..n : \E s \in Slots : inspection'[s] = Fresh(work[i])
  <1>a. PICK work : work = deep \o plain
    OBVIOUS
  <1>b. PICK n : n = Startable(work, running)
    OBVIOUS
  <1> DEFINE free == {s \in Slots : slots[s].step = "idle"}
             started == {s \in free : Rank(free, s) <= n}
             N == Concurrency
  <1>1. work \in Seq(Watched) /\ Len(work) \in Nat
    BY <1>a, ConcatProperties
  <1>2. /\ running \in Nat /\ running <= Concurrency
        /\ Concurrency - running <= Cardinality(free) /\ free \cap RunningIn(slots) = {}
    BY EnoughSlots DEF CountedAs, RealtimeTyped
  <1>3. /\ n \in Nat /\ n <= Len(work) /\ n <= Concurrency - running /\ n <= Cardinality(free)
        /\ n # 0 => phase = "on"
    <2>1. n \in Nat /\ n <= Len(work) /\ n <= Concurrency - running /\ (n # 0 => phase = "on")
      BY <1>b, <1>1, <1>2, RealtimeAssumption DEF Startable
    <2>2. Cardinality(free) \in Nat
      BY SlotsFinite
    <2> QED BY <1>2, <2>1, <2>2, RealtimeAssumption
  <1>4. /\ N \in Nat /\ free \in SUBSET (1..N)
    BY SlotsFinite DEF Slots
  <1>5. /\ \A s \in free : Rank(free, s) \in 1..Cardinality(free)
        /\ \A i \in 1..n : \E s \in free : Rank(free, s) = i
        /\ Cardinality(started) = n
    <2> HIDE DEF N, free
    <2> QED BY <1>3, <1>4, Ranks
  <1>6. /\ inspection' = [s \in Slots |-> IF s \in started THEN Fresh(work[Rank(free, s)])
                                         ELSE slots[s]]
        /\ active' = running + n
    BY <1>a, <1>b DEF Pump, Startable, Fresh, Rank, Below
  <1>7. \A s \in started : Rank(free, s) \in 1..n /\ work[Rank(free, s)] \in Watched
    <2> SUFFICES ASSUME NEW s \in started
                 PROVE  Rank(free, s) \in 1..n /\ work[Rank(free, s)] \in Watched
      OBVIOUS
    <2>1. Rank(free, s) \in 1..n
      BY <1>3, <1>5
    <2>2. Rank(free, s) \in 1..Len(work)
      BY <1>1, <1>3, <2>1
    <2> QED BY <1>1, <2>1, <2>2, ElementOfSeq
  <1>8. started \subseteq free /\ free \subseteq Slots
    OBVIOUS
  <1>9. \A s \in free : slots[s] = NoInspection
    BY DEF SlotsOK
  <1> HIDE DEF free, started
  <1>10. SlotsOK(inspection')
    <2> SUFFICES ASSUME NEW s \in Slots
                 PROVE  /\ inspection'[s] \in Inspections
                        /\ IF inspection'[s].step = "idle" THEN inspection'[s] = NoInspection
                           ELSE inspection'[s].file \in Watched
      BY <1>6 DEF SlotsOK
    <2>1. CASE s \in started
      <3>1. PICK f \in Watched : inspection'[s] = Fresh(f)
        BY <1>6, <1>7, <2>1
      <3>2. content[f] \in Nat
        BY DEF RealtimeTyped
      <3> QED BY <3>1, <3>2, FreshFields
    <2>2. CASE s \notin started
      BY <1>6, <2>2 DEF SlotsOK
    <2> QED BY <2>1, <2>2
  <1>11. \A s \in Slots : \/ inspection'[s] = slots[s]
                          \/ /\ slots[s] = NoInspection
                             /\ \E f \in Watched : inspection'[s] = Fresh(f)
    BY <1>6, <1>7, <1>8, <1>9
  <1>12. \A i \in 1..n : \E s \in Slots : inspection'[s] = Fresh(work[i])
    <2> SUFFICES ASSUME NEW i \in 1..n PROVE \E s \in Slots : inspection'[s] = Fresh(work[i])
      OBVIOUS
    <2>1. PICK s \in free : Rank(free, s) = i
      BY <1>5
    <2>2. s \in started
      BY <1>3, <2>1 DEF started
    <2> QED BY <1>6, <1>8, <2>1, <2>2
  <1>13. CountedAs(inspection, active)'
    <2>1. \A s \in started : /\ inspection'[s].step = "stat"
                             /\ s \notin RunningIn(slots)
      <3> SUFFICES ASSUME NEW s \in started
                   PROVE  /\ inspection'[s].step = "stat"
                          /\ s \notin RunningIn(slots)
        OBVIOUS
      <3>1. PICK f \in Watched : inspection'[s] = Fresh(f)
        BY <1>6, <1>7, <1>8
      <3>2. content[f] \in Nat
        BY DEF RealtimeTyped
      <3>3. slots[s].step = "idle"
        BY <1>8 DEF free
      <3> QED BY <3>1, <3>2, <3>3, FreshFields DEF RunningIn
    <2>2. \A s \in Slots \ started : inspection'[s] = slots[s]
      BY <1>6
    <2>3. RunningIn(inspection') = RunningIn(slots) \union started
      BY <1>8, <2>1, <2>2 DEF RunningIn
    <2>5. RunningIn(slots) \cap started = {}
      BY <2>1
    <2>6. Cardinality(RunningIn(inspection')) = running + n
      <3>1. IsFiniteSet(RunningIn(slots)) /\ IsFiniteSet(started)
        <4>1. RunningIn(slots) \in SUBSET Slots /\ started \in SUBSET Slots
          BY <1>8 DEF RunningIn
        <4> QED BY <4>1, SlotsFinite
      <3>2. Cardinality(RunningIn(slots) \union started)
              = Cardinality(RunningIn(slots)) + Cardinality(started)
                - Cardinality(RunningIn(slots) \cap started)
        BY <3>1, FS_Union
      <3>3. Cardinality(RunningIn(slots) \cap started) = 0
        BY <2>5, FS_EmptySet
      <3>4. Cardinality(RunningIn(slots)) = running
        BY DEF CountedAs
      <3> QED BY <1>2, <1>3, <1>5, <2>3, <3>2, <3>3, <3>4
    <2>7. running + n <= Concurrency
      BY <1>2, <1>3, RealtimeAssumption
    <2>8. phase # "on" => RunningIn(inspection') = {}
      <3> SUFFICES ASSUME phase # "on" PROVE RunningIn(inspection') = {}
        OBVIOUS
      <3>1. RunningIn(slots) = {} /\ n = 0
        BY <1>3 DEF CountedAs
      <3>2. started = {}
        BY <1>7, <3>1
      <3> QED BY <2>3, <3>1, <3>2
    <2> QED BY <1>6, <2>6, <2>7, <2>8 DEF CountedAs, RunningIn
  <1>14. n \in 0..Len(work)
    BY <1>1, <1>3
  <1> QED BY <1>a, <1>b, <1>1, <1>10, <1>11, <1>12, <1>13, <1>14, Zenon

\* The work that is not started stays in its queue.
LEMMA PumpQueues ==
  ASSUME NEW deep \in Seq(Watched), NEW plain \in Seq(Watched), NEW slots, NEW running,
         Startable(deep \o plain, running) \in 0..Len(deep \o plain),
         Pump(deep, plain, slots, running)
  PROVE  LET work == deep \o plain
             n == Startable(work, running)
         IN
         /\ priorityQueue' \in Seq(Watched) /\ scanQueue' \in Seq(Watched)
         /\ \A f \in ToSet(deep) \union ToSet(plain) : f \in Queued' \/ \E i \in 1..n : work[i] = f
  <1>a. PICK work : work = deep \o plain
    OBVIOUS
  <1>b. PICK n \in 0..Len(work) : n = Startable(work, running)
    BY <1>a
  <1> DEFINE first == IF n > Len(deep) THEN n - Len(deep) + 1 ELSE 1
  <1>1. /\ Len(deep) \in Nat /\ Len(plain) \in Nat /\ Len(work) = Len(deep) + Len(plain)
        /\ \A i \in 1..Len(work) :
              work[i] = IF i <= Len(deep) THEN deep[i] ELSE plain[i - Len(deep)]
    BY <1>a, ConcatProperties
  <1>2. /\ priorityQueue' = SubSeq(deep, n + 1, Len(deep))
        /\ scanQueue' = SubSeq(plain, first, Len(plain))
    BY <1>a, <1>b DEF Pump, Startable
  <1>3. n + 1 \in Int /\ first \in Int /\ first >= 1
    BY <1>1
  <1>4. /\ priorityQueue' \in Seq(Watched)
        /\ Len(priorityQueue') = IF n + 1 <= Len(deep) THEN Len(deep) - n ELSE 0
        /\ \A i \in 1..(Len(deep) - n) : priorityQueue'[i] = deep[n + i]
    <2>1. \A i \in (n + 1)..Len(deep) : deep[i] \in Watched
      BY <1>1, ElementOfSeq
    <2>2. /\ SubSeq(deep, n + 1, Len(deep)) \in Seq(Watched)
          /\ Len(SubSeq(deep, n + 1, Len(deep)))
               = IF n + 1 <= Len(deep) THEN Len(deep) - (n + 1) + 1 ELSE 0
          /\ \A i \in 1..(Len(deep) - (n + 1) + 1) :
                SubSeq(deep, n + 1, Len(deep))[i] = deep[(n + 1) + i - 1]
      BY <1>1, <1>3, <2>1, SubSeqProperties
    <2>3. \A i \in 1..(Len(deep) - n) : priorityQueue'[i] = deep[n + i]
      <3> SUFFICES ASSUME NEW i \in 1..(Len(deep) - n) PROVE priorityQueue'[i] = deep[n + i]
        OBVIOUS
      <3>1. i \in 1..(Len(deep) - (n + 1) + 1) /\ (n + 1) + i - 1 = n + i
        BY <1>1
      <3> QED BY <1>2, <2>2, <3>1
    <2>4. Len(deep) - (n + 1) + 1 = Len(deep) - n
      BY <1>1
    <2> QED BY <1>2, <2>2, <2>3, <2>4
  <1>5. /\ scanQueue' \in Seq(Watched)
        /\ Len(scanQueue') = IF first <= Len(plain) THEN Len(plain) - first + 1 ELSE 0
        /\ \A i \in 1..(Len(plain) - first + 1) : scanQueue'[i] = plain[first + i - 1]
    <2> HIDE DEF first
    <2>1. \A i \in first..Len(plain) : plain[i] \in Watched
      BY <1>1, <1>3, ElementOfSeq
    <2> QED BY <1>1, <1>2, <1>3, <2>1, SubSeqProperties
  <1>6. \A f \in ToSet(deep) : f \in Queued' \/ \E i \in 1..n : work[i] = f
    <2> SUFFICES ASSUME NEW f \in ToSet(deep), \A i \in 1..n : work[i] # f PROVE f \in Queued'
      OBVIOUS
    <2>1. PICK i \in 1..Len(deep) : deep[i] = f
      BY DEF ToSet
    <2>2. i > n
      BY <1>1, <2>1
    <2>3. /\ i - n \in 1..(Len(deep) - n) /\ n + (i - n) = i /\ n + 1 <= Len(deep)
          /\ i - n \in 1..Len(priorityQueue')
      BY <1>1, <1>4, <2>1, <2>2
    <2>4. priorityQueue'[i - n] = f
      BY <1>4, <2>1, <2>3
    <2> QED BY <1>4, <2>3, <2>4 DEF Queued, ToSet
  <1>7. \A f \in ToSet(plain) : f \in Queued' \/ \E i \in 1..n : work[i] = f
    <2> SUFFICES ASSUME NEW f \in ToSet(plain), \A i \in 1..n : work[i] # f PROVE f \in Queued'
      OBVIOUS
    <2>1. PICK j \in 1..Len(plain) : plain[j] = f
      BY DEF ToSet
    <2>2. /\ Len(deep) + j \in 1..Len(work) /\ Len(deep) + j > Len(deep)
          /\ (Len(deep) + j) - Len(deep) = j
      BY <1>1, <2>1
    <2>3. work[Len(deep) + j] = f
      BY <1>1, <2>1, <2>2
    <2>4. Len(deep) + j > n
      <3> SUFFICES ASSUME Len(deep) + j <= n PROVE FALSE
        BY <1>1, <2>1
      <3>1. Len(deep) + j \in 1..n
        BY <2>2
      <3> QED BY <2>3, <3>1
    <2>5. j >= first
      BY <1>1, <2>4
    <2>6. /\ j - first + 1 \in 1..(Len(plain) - first + 1) /\ first + (j - first + 1) - 1 = j
          /\ first <= Len(plain) /\ j - first + 1 \in 1..Len(scanQueue')
      <3> HIDE DEF first
      <3> QED BY <1>1, <1>3, <1>5, <2>1, <2>5
    <2>7. scanQueue'[j - first + 1] = f
      <3> HIDE DEF first
      <3> QED BY <1>5, <2>1, <2>6
    <2>8. \E i \in 1..Len(scanQueue') : scanQueue'[i] = f
      <3> HIDE DEF first
      <3> QED BY <2>6, <2>7
    <2>9. DOMAIN scanQueue' = 1..Len(scanQueue')
      BY <1>5, LenProperties
    <2> QED BY <2>8, <2>9 DEF Queued, ToSet
  <1> QED BY <1>a, <1>b, <1>4, <1>5, <1>6, <1>7

\* What a pump means for everybody else.
LEMMA PumpKeeps ==
  ASSUME NEW deep \in Seq(Watched), NEW plain \in Seq(Watched), NEW slots, NEW running,
         SlotsOK(slots), CountedAs(slots, running), RealtimeTyped, UNCHANGED phase,
         Pump(deep, plain, slots, running)
  PROVE  /\ priorityQueue' \in Seq(Watched) /\ scanQueue' \in Seq(Watched)
         /\ InspectionsOK' /\ Counted'
         /\ \A s \in Slots : \/ inspection'[s] = slots[s]
                             \/ /\ slots[s] = NoInspection
                                /\ \E f \in Watched : inspection'[s] = Fresh(f)
         /\ \A f \in ToSet(deep) \union ToSet(plain) :
              f \in Queued' \/ \E s \in Slots : inspection'[s] = Fresh(f)
  <1> DEFINE work == deep \o plain
             n == Startable(work, running)
  <1>3. /\ n \in 0..Len(work) /\ work \in Seq(Watched)
        /\ SlotsOK(inspection') /\ CountedAs(inspection, active)'
        /\ \A s \in Slots : \/ inspection'[s] = slots[s]
                            \/ /\ slots[s] = NoInspection
                               /\ \E f \in Watched : inspection'[s] = Fresh(f)
        /\ \A i \in 1..n : \E s \in Slots : inspection'[s] = Fresh(work[i])
    BY PumpSlots
  <1>4. /\ priorityQueue' \in Seq(Watched) /\ scanQueue' \in Seq(Watched)
        /\ \A f \in ToSet(deep) \union ToSet(plain) : f \in Queued' \/ \E i \in 1..n : work[i] = f
    BY <1>3, PumpQueues
  <1>5. InspectionsOK' /\ Counted'
    BY <1>3 DEF InspectionsOK, Counted, SlotsOK
  <1>6. \A f \in ToSet(deep) \union ToSet(plain) :
              f \in Queued' \/ \E s \in Slots : inspection'[s] = Fresh(f)
    BY <1>3, <1>4
  <1> QED BY <1>3, <1>4, <1>5, <1>6

-----------------------------------------------------------------------------
(* The pending files.                                                      *)

\* A file that is queued is pending; one that was pending or dropped stays so or becomes the
\* other.
LEMMA EnqueueKeeps ==
  ASSUME NEW f \in Watched, RealtimeTyped, PendingOK, Enqueue(f)
  PROVE  /\ pending' \in Seq(Watched) /\ dropped' \subseteq Watched /\ PendingOK'
         /\ f \in ToSet(pending')
         /\ \A g \in ToSet(pending) \union dropped : g \in ToSet(pending') \union dropped'
  <1>1. /\ pending \in Seq(Watched) /\ Len(pending) \in Nat /\ Len(pending) <= Capacity
        /\ dropped \subseteq Watched /\ DOMAIN pending = 1..Len(pending)
        /\ \A i \in 1..Len(pending) : pending[i] \in Watched
        /\ \A i, j \in 1..Len(pending) : pending[i] = pending[j] => i = j
    BY LenProperties, ElementOfSeq DEF RealtimeTyped, PendingOK, IsInjective
  <1>2. CASE f \in ToSet(pending)
    <2>1. pending' = pending /\ dropped' = dropped \ {f}
      BY <1>2 DEF Enqueue, AtCapacity
    <2> QED BY <1>1, <1>2, <2>1 DEF PendingOK, RealtimeTyped
  <1>3. CASE f \notin ToSet(pending) /\ Len(pending) >= Capacity
    <2>1. pending # <<>> /\ Len(pending) >= 1
      BY <1>1, <1>3, RealtimeAssumption
    <2>2. PICK rest : rest = Tail(pending)
      OBVIOUS
    <2>3. /\ rest \in Seq(Watched) /\ Len(rest) = Len(pending) - 1
          /\ \A i \in 1..Len(rest) : rest[i] = pending[i + 1]
      BY <1>1, <2>1, <2>2, HeadTailProperties
    <2>4. pending' = Append(rest, f) /\ dropped' = (dropped \ {f}) \union {pending[1]}
      BY <1>3, <2>1, <2>2 DEF Enqueue, AtCapacity
    <2>5. /\ pending' \in Seq(Watched) /\ Len(pending') = Len(pending)
          /\ \A i \in 1..Len(rest) : pending'[i] = pending[i + 1]
          /\ pending'[Len(pending)] = f
      <3>1. /\ Append(rest, f) \in Seq(Watched) /\ Len(Append(rest, f)) = Len(rest) + 1
            /\ \A i \in 1..Len(rest) : Append(rest, f)[i] = rest[i]
            /\ Append(rest, f)[Len(rest) + 1] = f
        BY <2>3, AppendProperties
      <3> QED BY <1>1, <2>3, <2>4, <3>1
    <2>6. DOMAIN pending' = 1..Len(pending')
      BY <2>5, LenProperties
    <2>7. \A i \in 1..Len(pending) : pending[i] # f
      BY <1>1, <1>3 DEF ToSet
    <2>a. \A i \in 1..Len(pending') :
            i # Len(pending) => i \in 1..Len(rest) /\ i + 1 \in 1..Len(pending)
      <3>1. Len(pending) \in Nat /\ Len(rest) = Len(pending) - 1 /\ Len(pending') = Len(pending)
        BY <1>1, <2>3, <2>5
      <3> QED BY <3>1
    <2>8. \A i, j \in 1..Len(pending') : pending'[i] = pending'[j] => i = j
      <3> SUFFICES ASSUME NEW i \in 1..Len(pending'), NEW j \in 1..Len(pending'),
                          pending'[i] = pending'[j]
                   PROVE  i = j
        OBVIOUS
      <3>1. CASE i = Len(pending) /\ j # Len(pending)
        <4>1. j \in 1..Len(rest) /\ j + 1 \in 1..Len(pending)
          BY <2>a, <3>1
        <4> QED BY <2>5, <2>7, <3>1, <4>1
      <3>2. CASE i # Len(pending) /\ j = Len(pending)
        <4>1. i \in 1..Len(rest) /\ i + 1 \in 1..Len(pending)
          BY <2>a, <3>2
        <4> QED BY <2>5, <2>7, <3>2, <4>1
      <3>3. CASE i # Len(pending) /\ j # Len(pending)
        <4>1. /\ i \in 1..Len(rest) /\ i + 1 \in 1..Len(pending)
              /\ j \in 1..Len(rest) /\ j + 1 \in 1..Len(pending)
          BY <2>a, <3>3
        <4>2. pending[i + 1] = pending[j + 1]
          BY <2>5, <4>1
        <4>3. i + 1 = j + 1
          BY <1>1, <4>1, <4>2
        <4> QED BY <4>1, <4>3
      <3> QED BY <3>1, <3>2, <3>3
    <2>9. PendingOK'
      BY <1>1, <2>5, <2>6, <2>8 DEF PendingOK, IsInjective
    <2>10. f \in ToSet(pending')
      BY <1>1, <2>1, <2>5, <2>6 DEF ToSet
    <2>11. \A g \in ToSet(pending) : g \in ToSet(pending') \union dropped'
      <3> SUFFICES ASSUME NEW g \in ToSet(pending), g # pending[1] PROVE g \in ToSet(pending')
        BY <2>4
      <3>1. PICK i \in 1..Len(pending) : pending[i] = g
        BY <1>1 DEF ToSet
      <3>2. i - 1 \in 1..Len(rest) /\ (i - 1) + 1 = i /\ i - 1 \in 1..Len(pending')
        BY <1>1, <2>3, <2>5, <3>1
      <3>3. pending'[i - 1] = g
        BY <2>5, <3>1, <3>2
      <3> QED BY <2>6, <3>2, <3>3 DEF ToSet
    <2>12. dropped' \subseteq Watched
      BY <1>1, <2>1, <2>4
    <2> QED BY <2>4, <2>5, <2>9, <2>10, <2>11, <2>12
  <1>4. CASE f \notin ToSet(pending) /\ ~(Len(pending) >= Capacity)
    <2>1. pending' = Append(pending, f) /\ dropped' = dropped \ {f}
      BY <1>4 DEF Enqueue, AtCapacity
    <2>2. /\ pending' \in Seq(Watched) /\ Len(pending') = Len(pending) + 1
          /\ \A i \in 1..Len(pending) : pending'[i] = pending[i]
          /\ pending'[Len(pending) + 1] = f
      <3>1. /\ Append(pending, f) \in Seq(Watched) /\ Len(Append(pending, f)) = Len(pending) + 1
            /\ \A i \in 1..Len(pending) : Append(pending, f)[i] = pending[i]
            /\ Append(pending, f)[Len(pending) + 1] = f
        BY <1>1, AppendProperties
      <3> QED BY <2>1, <3>1
    <2>3. DOMAIN pending' = 1..Len(pending')
      BY <2>2, LenProperties
    <2>4. \A i \in 1..Len(pending) : pending[i] # f
      BY <1>1, <1>4 DEF ToSet
    <2>5. \A i, j \in 1..Len(pending') : pending'[i] = pending'[j] => i = j
      BY <1>1, <2>2, <2>4
    <2>6. PendingOK'
      <3>1. Len(pending') <= Capacity
        BY <1>1, <1>4, <2>2, RealtimeAssumption
      <3> QED BY <2>3, <2>5, <3>1 DEF PendingOK, IsInjective
    <2>7. f \in ToSet(pending')
      BY <1>1, <2>2, <2>3 DEF ToSet
    <2>8. \A g \in ToSet(pending) : g \in ToSet(pending')
      <3> SUFFICES ASSUME NEW g \in ToSet(pending) PROVE g \in ToSet(pending')
        OBVIOUS
      <3>1. PICK i \in 1..Len(pending) : pending[i] = g
        BY <1>1 DEF ToSet
      <3>2. i \in 1..Len(pending') /\ pending'[i] = g
        BY <1>1, <2>2, <3>1
      <3> QED BY <2>3, <3>2 DEF ToSet
    <2> QED BY <1>1, <2>1, <2>2, <2>6, <2>7, <2>8
  <1> QED BY <1>2, <1>3, <1>4

\* Without its i-th file the map of pending files holds the others.
LEMMA RemoveKeeps ==
  ASSUME NEW s \in Seq(Watched), IsInjective(s), NEW i \in 1..Len(s)
  PROVE  /\ RemoveAt(s, i) \in Seq(Watched) /\ IsInjective(RemoveAt(s, i))
         /\ Len(RemoveAt(s, i)) = Len(s) - 1
         /\ \A g \in ToSet(s) : g # s[i] => g \in ToSet(RemoveAt(s, i))
  <1>1. /\ Len(s) \in Nat /\ DOMAIN s = 1..Len(s) /\ \A j \in 1..Len(s) : s[j] \in Watched
        /\ \A j, k \in 1..Len(s) : s[j] = s[k] => j = k
    BY LenProperties, ElementOfSeq DEF IsInjective
  <1>2. PICK a : a = SubSeq(s, 1, i - 1)
    OBVIOUS
  <1>3. PICK b : b = SubSeq(s, i + 1, Len(s))
    OBVIOUS
  <1>4. /\ a \in Seq(Watched) /\ Len(a) = i - 1 /\ \A j \in 1..(i - 1) : a[j] = s[j]
    <2>1. 1 \in Int /\ i - 1 \in Int /\ \A j \in 1..(i - 1) : s[j] \in Watched
      BY <1>1
    <2>2. /\ SubSeq(s, 1, i - 1) \in Seq(Watched)
          /\ Len(SubSeq(s, 1, i - 1)) = IF 1 <= i - 1 THEN (i - 1) - 1 + 1 ELSE 0
          /\ \A j \in 1..((i - 1) - 1 + 1) : SubSeq(s, 1, i - 1)[j] = s[1 + j - 1]
      BY <2>1, SubSeqProperties
    <2>3. \A j \in 1..(i - 1) : a[j] = s[j]
      <3> SUFFICES ASSUME NEW j \in 1..(i - 1) PROVE a[j] = s[j]
        OBVIOUS
      <3>1. j \in 1..((i - 1) - 1 + 1) /\ 1 + j - 1 = j
        BY <1>1
      <3> QED BY <1>2, <2>2, <3>1
    <2> QED BY <1>1, <1>2, <2>2, <2>3
  <1>5. /\ b \in Seq(Watched) /\ Len(b) = Len(s) - i /\ \A j \in 1..(Len(s) - i) : b[j] = s[i + j]
    <2>1. i + 1 \in Int /\ Len(s) \in Int /\ \A j \in (i + 1)..Len(s) : s[j] \in Watched
      BY <1>1
    <2>2. /\ SubSeq(s, i + 1, Len(s)) \in Seq(Watched)
          /\ Len(SubSeq(s, i + 1, Len(s))) = IF i + 1 <= Len(s) THEN Len(s) - (i + 1) + 1 ELSE 0
          /\ \A j \in 1..(Len(s) - (i + 1) + 1) :
                SubSeq(s, i + 1, Len(s))[j] = s[(i + 1) + j - 1]
      BY <2>1, SubSeqProperties
    <2>3. \A j \in 1..(Len(s) - i) : b[j] = s[i + j]
      <3> SUFFICES ASSUME NEW j \in 1..(Len(s) - i) PROVE b[j] = s[i + j]
        OBVIOUS
      <3>1. j \in 1..(Len(s) - (i + 1) + 1) /\ (i + 1) + j - 1 = i + j
        BY <1>1
      <3> QED BY <1>3, <2>2, <3>1
    <2>4. Len(s) - i = IF i + 1 <= Len(s) THEN Len(s) - (i + 1) + 1 ELSE 0
      <3>1. Len(s) \in Nat
        BY <1>1
      <3>2. CASE i + 1 <= Len(s)
        BY <3>1, <3>2
      <3>3. CASE ~(i + 1 <= Len(s))
        BY <3>1, <3>3
      <3> QED BY <3>2, <3>3
    <2> QED BY <1>3, <2>2, <2>3, <2>4
  <1>6. PICK r : r = a \o b
    OBVIOUS
  <1>7. RemoveAt(s, i) = r
    BY <1>2, <1>3, <1>6 DEF RemoveAt
  <1>8. /\ r \in Seq(Watched) /\ Len(r) = Len(s) - 1
        /\ \A j \in 1..Len(r) : r[j] = IF j < i THEN s[j] ELSE s[j + 1]
    <2>1. /\ r \in Seq(Watched) /\ Len(r) = Len(a) + Len(b)
          /\ \A j \in 1..Len(r) : r[j] = IF j <= Len(a) THEN a[j] ELSE b[j - Len(a)]
      <3>1. Len(a) \in Nat /\ Len(b) \in Nat /\ a \in Seq(Watched) /\ b \in Seq(Watched)
        BY <1>4, <1>5, LenProperties
      <3> QED BY <1>6, <3>1, ConcatProperties
    <2>2. Len(r) = Len(s) - 1
      BY <1>1, <1>4, <1>5, <2>1
    <2>3. ASSUME NEW j \in 1..Len(r) PROVE r[j] = IF j < i THEN s[j] ELSE s[j + 1]
      <3>1. CASE j < i
        <4>1. j <= Len(a) /\ j \in 1..(i - 1)
          BY <1>1, <1>4, <2>2, <3>1
        <4> QED BY <1>4, <2>1, <3>1, <4>1
      <3>2. CASE ~(j < i)
        <4>1. /\ ~(j <= Len(a)) /\ j - Len(a) \in 1..(Len(s) - i) /\ i + (j - Len(a)) = j + 1
          BY <1>1, <1>4, <2>2, <3>2
        <4> QED BY <1>5, <2>1, <3>2, <4>1
      <3> QED BY <3>1, <3>2
    <2> QED BY <2>1, <2>2, <2>3
  <1>9. DOMAIN r = 1..Len(r)
    BY <1>8, LenProperties
  <1>10. IsInjective(r)
    <2> SUFFICES ASSUME NEW j \in 1..Len(r), NEW k \in 1..Len(r), r[j] = r[k] PROVE j = k
      BY <1>9 DEF IsInjective
    <2> DEFINE at(n) == IF n < i THEN n ELSE n + 1
    <2>1. at(j) \in 1..Len(s) /\ at(k) \in 1..Len(s) /\ (at(j) = at(k) => j = k)
      BY <1>1, <1>8
    <2>2. s[at(j)] = s[at(k)]
      BY <1>8
    <2> HIDE DEF at
    <2> QED BY <1>1, <2>1, <2>2
  <1>11. \A g \in ToSet(s) : g # s[i] => g \in ToSet(r)
    <2> SUFFICES ASSUME NEW g \in ToSet(s), g # s[i] PROVE g \in ToSet(r)
      OBVIOUS
    <2>1. PICK j \in 1..Len(s) : s[j] = g
      BY <1>1 DEF ToSet
    <2>2. CASE j < i
      <3>1. j \in 1..Len(r)
        BY <1>1, <1>8, <2>2
      <3> QED BY <1>8, <1>9, <2>1, <2>2, <3>1 DEF ToSet
    <2>3. CASE ~(j < i)
      <3>1. j # i
        BY <2>1
      <3>2. j - 1 \in 1..Len(r) /\ ~(j - 1 < i) /\ (j - 1) + 1 = j
        BY <1>1, <1>8, <2>3, <3>1
      <3>3. r[j - 1] = g
        BY <1>8, <2>1, <3>2
      <3> QED BY <1>9, <3>2, <3>3 DEF ToSet
    <2> QED BY <2>2, <2>3
  <1> QED BY <1>7, <1>8, <1>10, <1>11

\* The timer of a pending file takes it off the map.
LEMMA PendingShrinks ==
  ASSUME NEW f \in Watched, RealtimeTyped, PendingOK,
         \E i \in 1..Len(pending) : pending[i] = f /\ pending' = RemoveAt(pending, i)
  PROVE  /\ pending' \in Seq(Watched) /\ PendingOK'
         /\ \A g \in ToSet(pending) : g # f => g \in ToSet(pending')
  <1>1. /\ pending \in Seq(Watched) /\ IsInjective(pending) /\ Len(pending) <= Capacity
        /\ Len(pending) \in Nat
    BY LenProperties DEF RealtimeTyped, PendingOK
  <1>2. PICK i \in 1..Len(pending) : pending[i] = f /\ pending' = RemoveAt(pending, i)
    OBVIOUS
  <1>3. /\ pending' \in Seq(Watched) /\ IsInjective(pending') /\ Len(pending') = Len(pending) - 1
        /\ \A g \in ToSet(pending) : g # f => g \in ToSet(pending')
    BY <1>1, <1>2, RemoveKeeps
  <1>4. Len(pending') <= Capacity
    BY <1>1, <1>3, RealtimeAssumption
  <1> QED BY <1>3, <1>4 DEF PendingOK

-----------------------------------------------------------------------------
(* The end of an inspection.                                               *)

\* Without s the slots hold one inspection less.
LEMMA FreedSlot ==
  ASSUME NEW s \in Slots, InspectionsOK, InUse(s)
  PROVE  LET slots == [inspection EXCEPT ![s] = NoInspection]
         IN  SlotsOK(slots) /\ (Counted => CountedAs(slots, active - 1))
  <1>0. PICK slots : slots = [inspection EXCEPT ![s] = NoInspection]
    OBVIOUS
  <1>1. inspection \in [Slots -> Inspections]
    BY DEF InspectionsOK, SlotsOK
  <1>2. slots[s] = NoInspection /\ \A t \in Slots \ {s} : slots[t] = inspection[t]
    BY <1>0, <1>1
  <1>3. NoInspection \in Inspections /\ NoInspection.step = "idle"
    BY DEF NoInspection, Inspections
  <1>4. SlotsOK(slots)
    <2>1. slots \in [Slots -> Inspections]
      BY <1>0, <1>1, <1>3
    <2> QED BY <1>2, <1>3, <2>1 DEF InspectionsOK, SlotsOK
  <1>5. ASSUME Counted PROVE CountedAs(slots, active - 1)
    <2>1. RunningIn(slots) = RunningIn(inspection) \ {s} /\ s \in RunningIn(inspection)
      BY <1>2, <1>3 DEF RunningIn, InUse
    <2>2. RunningIn(inspection) \in SUBSET Slots
      BY DEF RunningIn
    <2>3. IsFiniteSet(RunningIn(inspection)) /\ Cardinality(RunningIn(inspection)) \in Nat
      BY <2>2, SlotsFinite
    <2>4. Cardinality(RunningIn(slots)) = Cardinality(RunningIn(inspection)) - 1
      BY <2>1, <2>3, FS_RemoveElement
    <2>5. /\ active = Cardinality(RunningIn(inspection)) /\ active <= Concurrency
          /\ phase # "on" => RunningIn(inspection) = {}
      BY <1>5 DEF Counted, CountedAs
    <2>6. Cardinality(RunningIn(slots)) = active - 1 /\ active - 1 <= Concurrency
      BY <2>3, <2>4, <2>5, SlotsFinite
    <2> QED BY <2>1, <2>5, <2>6 DEF CountedAs
  <1> QED BY <1>0, <1>4, <1>5

\* What the end of an inspection means for the slots and the queues.
LEMMA EndKeeps ==
  ASSUME NEW s \in Slots, InspectionsOK, Counted, RealtimeTyped, InUse(s),
         UNCHANGED phase, End(s)
  PROVE  /\ priorityQueue' \in Seq(Watched) /\ scanQueue' \in Seq(Watched)
         /\ InspectionsOK' /\ Counted'
         /\ \A t \in Slots : \/ t # s /\ inspection'[t] = inspection[t]
                             \/ t = s /\ inspection'[t] = NoInspection
                             \/ /\ t = s \/ inspection[t] = NoInspection
                                /\ \E f \in Watched : inspection'[t] = Fresh(f)
         /\ \A f \in Queued : f \in Queued' \/ \E t \in Slots : inspection'[t] = Fresh(f)
  <1>1. PICK slots : slots = [inspection EXCEPT ![s] = NoInspection]
    OBVIOUS
  <1>2. SlotsOK(slots) /\ CountedAs(slots, active - 1)
    BY <1>1, FreedSlot
  <1>3. slots[s] = NoInspection /\ \A t \in Slots \ {s} : slots[t] = inspection[t]
    BY <1>1 DEF InspectionsOK, SlotsOK
  <1>4. priorityQueue \in Seq(Watched) /\ scanQueue \in Seq(Watched)
    BY DEF RealtimeTyped
  <1>5. PICK running : running = active - 1
    OBVIOUS
  <1>6. PICK deep, plain : deep = priorityQueue /\ plain = scanQueue
    OBVIOUS
  <1>7. /\ deep \in Seq(Watched) /\ plain \in Seq(Watched) /\ Pump(deep, plain, slots, running)
    BY <1>1, <1>4, <1>5, <1>6 DEF End
  <1>8. /\ priorityQueue' \in Seq(Watched) /\ scanQueue' \in Seq(Watched)
        /\ InspectionsOK' /\ Counted'
        /\ \A t \in Slots : \/ inspection'[t] = slots[t]
                            \/ /\ slots[t] = NoInspection
                               /\ \E f \in Watched : inspection'[t] = Fresh(f)
        /\ \A f \in ToSet(deep) \union ToSet(plain) :
             f \in Queued' \/ \E t \in Slots : inspection'[t] = Fresh(f)
    BY <1>2, <1>5, <1>7, PumpKeeps
  <1>9. \A t \in Slots : \/ t # s /\ inspection'[t] = inspection[t]
                         \/ t = s /\ inspection'[t] = NoInspection
                         \/ /\ t = s \/ inspection[t] = NoInspection
                            /\ \E f \in Watched : inspection'[t] = Fresh(f)
    BY <1>3, <1>8
  <1>10. \A f \in Queued : f \in Queued' \/ \E t \in Slots : inspection'[t] = Fresh(f)
    BY <1>6, <1>8 DEF Queued
  <1> QED BY <1>8, <1>9, <1>10

\* What an action must say of the files, besides the end of the inspection s, for the rest of
\* the invariant.
LEMMA EndPreserves ==
  ASSUME NEW s \in Slots, RealtimeInv, InUse(s), End(s), UNCHANGED <<phase, writes, noticed>>,
         \A g \in Watched : content'[g] \in {0, content[g]},
         \A g \in Watched : content'[g] # 0 /\ content'[g] = content[g] /\ Settles(g)
            => Settles(g)',
         \A g \in deepActive : g \in deepActive' \/ (s \in Deep /\ g = inspection[s].file),
         \A g \in ToSet(pending) \union dropped \union rescan :
            g \in ToSet(pending') \union dropped' \union rescan',
         \A g \in Watched : g = inspection[s].file /\ content'[g] # 0 /\ Ahead(s, g) =>
            Settles(g)' \/ g \in ToSet(pending') \union dropped' \union rescan'
  PROVE  /\ priorityQueue' \in Seq(Watched) /\ scanQueue' \in Seq(Watched)
         /\ InspectionsOK' /\ Counted' /\ DeepOK' /\ SeenOK' /\ \A f \in Watched : Accounted(f)'
  <1>1. /\ priorityQueue' \in Seq(Watched) /\ scanQueue' \in Seq(Watched)
        /\ InspectionsOK' /\ Counted'
        /\ \A t \in Slots : \/ t # s /\ inspection'[t] = inspection[t]
                            \/ t = s /\ inspection'[t] = NoInspection
                            \/ /\ t = s \/ inspection[t] = NoInspection
                               /\ \E f \in Watched : inspection'[t] = Fresh(f)
        /\ \A f \in Queued : f \in Queued' \/ \E t \in Slots : inspection'[t] = Fresh(f)
    BY EndKeeps DEF RealtimeInv
  <1>2. /\ content \in [Watched -> Nat] /\ writes \in Nat
        /\ NoInspection.step = "idle"
        /\ \A f \in Watched : /\ Fresh(f).step = "stat" /\ Fresh(f).file = f /\ Fresh(f).seen = 0
                              /\ Fresh(f).begun = content[f]
    BY FreshFields DEF RealtimeInv, RealtimeTyped, NoInspection
  <1>3. \A t \in Slots : inspection[t].step = "idle" => inspection[t] = NoInspection
    BY DEF RealtimeInv, InspectionsOK, SlotsOK
  <1>4. DeepOK'
    <2>1. \A t \in Deep' : t # s /\ t \in Deep /\ inspection'[t] = inspection[t]
      <3> SUFFICES ASSUME NEW t \in Deep'
                   PROVE  t # s /\ t \in Deep /\ inspection'[t] = inspection[t]
        OBVIOUS
      <3>1. /\ t \in Slots /\ inspection'[t].step \in {"scan", "handle"}
            /\ inspection'[t].file \in Downloads
        BY DEF Deep, Running, RunningIn
      <3>2. t # s /\ inspection'[t] = inspection[t]
        BY <1>1, <1>2, <3>1
      <3> QED BY <3>1, <3>2 DEF Deep, Running, RunningIn
    <2>2. \A t, u \in Deep : t # u => inspection[t].file # inspection[u].file
      BY DEF RealtimeInv, DeepOK
    <2>3. \A t \in Deep : inspection[t].file \in deepActive
      BY DEF RealtimeInv, DeepOK
    <2>4. \A t \in Deep' : inspection'[t].file \in deepActive'
      BY <2>1, <2>2, <2>3
    <2> QED BY <2>1, <2>2, <2>4 DEF DeepOK
  <1>5. SeenOK'
    <2> SUFFICES ASSUME NEW t \in Slots, NEW f \in Watched, inspection'[t].step # "idle",
                        inspection'[t].file = f
                 PROVE  /\ inspection'[t].seen <= writes'
                        /\ content'[f] # 0 => inspection'[t].seen <= content'[f]
                        /\ /\ inspection'[t].step = "handle" /\ content'[f] # 0
                           /\ inspection'[t].seen = content'[f]
                           => Settles(f)'
      BY DEF SeenOK, InUse
    <2>1. CASE \E g \in Watched : inspection'[t] = Fresh(g)
      <3>2. content'[f] \in Nat
        BY <1>2
      <3>3. inspection'[t].seen = 0 /\ inspection'[t].step = "stat"
        BY <1>2, <2>1
      <3> QED BY <1>2, <3>2, <3>3
    <2>2. CASE t # s /\ inspection'[t] = inspection[t]
      <3>3. /\ inspection[t].seen <= writes
            /\ content[f] # 0 => inspection[t].seen <= content[f]
            /\ /\ inspection[t].step = "handle" /\ content[f] # 0
               /\ inspection[t].seen = content[f]
               => Settles(f)
        BY <2>2 DEF RealtimeInv, SeenOK, InUse
      <3>4. content'[f] # 0 => content'[f] = content[f]
        OBVIOUS
      <3>5. content'[f] # 0 /\ Settles(f) => Settles(f)'
        BY <3>4
      <3> QED BY <2>2, <3>3, <3>4, <3>5
    <2> QED BY <1>1, <1>2, <2>1, <2>2
  <1>6. ASSUME NEW f \in Watched PROVE Accounted(f)'
    <2> SUFFICES ASSUME content'[f] # 0, noticed'[f] = content'[f]
                 PROVE  \/ Settles(f)' \/ f \in dropped'
                        \/ f \in ToSet(pending') \/ f \in Queued' \/ f \in rescan'
                        \/ \E t \in Slots : Ahead(t, f)'
      BY DEF Accounted
    <2>1. content'[f] = content[f] /\ content[f] # 0 /\ noticed[f] = content[f]
      OBVIOUS
    <2>2. \/ Settles(f) \/ f \in dropped
          \/ f \in ToSet(pending) \/ f \in Queued \/ f \in rescan
          \/ \E t \in Slots : Ahead(t, f)
      BY <2>1 DEF RealtimeInv, Accounted
    <2>3. \A t \in Slots : inspection'[t] = Fresh(f) => Ahead(t, f)'
      BY <1>2, <2>1 DEF Ahead, Running, RunningIn
    <2>4. CASE Settles(f)
      BY <2>1, <2>4
    <2>5. CASE f \in ToSet(pending) \union dropped \union rescan
      BY <2>5
    <2>6. CASE f \in Queued
      BY <1>1, <2>3, <2>6
    <2>7. ASSUME NEW t \in Slots, Ahead(t, f)
          PROVE  \/ Settles(f)' \/ f \in dropped' \/ f \in ToSet(pending') \/ f \in rescan'
                 \/ Ahead(t, f)'
      <3>1. t \in Running /\ inspection[t].file = f
        BY <2>7 DEF Ahead
      <3>2. CASE t = s
        BY <2>1, <2>7, <3>1, <3>2
      <3>3. CASE t # s
        <4>1. inspection[t].step # "idle"
          BY <3>1 DEF Running, RunningIn
        <4>2. inspection[t] # NoInspection
          BY <1>2, <4>1
        <4>3. inspection'[t] = inspection[t]
          BY <1>1, <3>3, <4>2
        <4> QED BY <2>1, <2>7, <4>3 DEF Ahead, Running, RunningIn
      <3> QED BY <3>2, <3>3
    <2> QED BY <2>2, <2>4, <2>5, <2>6, <2>7
  <1> QED BY <1>1, <1>4, <1>5, <1>6

-----------------------------------------------------------------------------
(* An inspection that goes on.                                             *)

\* The inspection s goes on with the same file.
Moved(s) ==
  /\ inspection' \in [Slots -> Inspections]
  /\ inspection'[s].step \in {"scan", "handle"} /\ inspection'[s].file = inspection[s].file
  /\ \A t \in Slots \ {s} : inspection'[t] = inspection[t]

LEMMA MoveKeeps ==
  ASSUME NEW s \in Slots, InspectionsOK, InUse(s), Moved(s)
  PROVE  InspectionsOK' /\ (Counted /\ UNCHANGED <<active, phase>> => Counted')
  <1>1. /\ inspection[s].step # "idle" /\ inspection'[s].step # "idle"
        /\ inspection[s].file \in Watched
    BY DEF Moved, InUse, InspectionsOK, SlotsOK
  <1>2. InspectionsOK'
    BY <1>1 DEF Moved, InspectionsOK, SlotsOK
  <1>3. RunningIn(inspection') = RunningIn(inspection)
    BY <1>1 DEF Moved, RunningIn
  <1>4. ASSUME Counted, UNCHANGED <<active, phase>> PROVE Counted'
    <2>1. /\ active' = Cardinality(RunningIn(inspection')) /\ active' <= Concurrency
          /\ phase' # "on" => RunningIn(inspection') = {}
      BY <1>3, <1>4 DEF Counted, CountedAs
    <2> QED BY <2>1 DEF Counted, CountedAs, RunningIn
  <1> QED BY <1>2, <1>4

LEMMA GoToMoves ==
  ASSUME NEW s \in Slots, NEW step \in {"scan", "handle"}, RealtimeTyped, InspectionsOK, InUse(s),
         GoTo(s, step)
  PROVE  Moved(s) /\ inspection'[s].step = step /\ inspection'[s].seen = content[inspection[s].file]
  <1>1. /\ inspection \in [Slots -> Inspections] /\ content[inspection[s].file] \in Nat
    BY DEF InspectionsOK, SlotsOK, InUse, RealtimeTyped
  <1>2. PICK n \in Nat : n = content[inspection[s].file]
    BY <1>1
  <1>3. PICK a \in Inspections : a = [inspection[s] EXCEPT !.step = step]
    BY <1>1 DEF Inspections
  <1>4. a.step = step /\ a.file = inspection[s].file
    BY <1>1, <1>3 DEF Inspections
  <1>5. PICK b \in Inspections : b = [a EXCEPT !.seen = n]
    BY <1>3 DEF Inspections
  <1>6. b.step = step /\ b.file = inspection[s].file /\ b.seen = n
    BY <1>4, <1>5 DEF Inspections
  <1>7. inspection' = [inspection EXCEPT ![s] = b]
    <2>1. inspection' = [[inspection EXCEPT ![s] = [@ EXCEPT !.step = step]]
                            EXCEPT ![s] = [@ EXCEPT !.seen = n]]
      BY <1>2 DEF GoTo
    <2>2. PICK i : i = [inspection EXCEPT ![s] = a]
      OBVIOUS
    <2>3. i \in [Slots -> Inspections] /\ i[s] = a
      BY <1>1, <2>2
    <2>4. inspection' = [i EXCEPT ![s] = [@ EXCEPT !.seen = n]]
      BY <1>3, <2>1, <2>2
    <2>5. inspection' = [i EXCEPT ![s] = b]
      BY <1>5, <2>3, <2>4
    <2> QED BY <1>1, <2>2, <2>3, <2>5
  <1> QED BY <1>1, <1>2, <1>6, <1>7 DEF Moved

\* A scan starts: a deep one of a file of which none was active.
LEMMA ScanStarts ==
  ASSUME NEW s \in Slots, RealtimeInv, inspection[s].step = "stat", GoTo(s, "scan"),
         UNCHANGED <<content, events, phase, pending, recent, rescan, history, dropped, writes>>,
         \/ /\ inspection[s].file \in Downloads /\ inspection[s].file \notin deepActive
            /\ deepActive' = deepActive \union {inspection[s].file}
         \/ inspection[s].file \notin Downloads /\ UNCHANGED deepActive
  PROVE  RealtimeInv'
  <1>1. InUse(s)
    BY DEF InUse
  <1>2. /\ Moved(s) /\ inspection'[s].step = "scan"
        /\ inspection'[s].seen = content[inspection[s].file]
    BY <1>1, GoToMoves DEF RealtimeInv
  <1>3. UNCHANGED <<active, priorityQueue, scanQueue, noticed, scanned, failed>>
    BY DEF GoTo, queues, history
  <1>4. InspectionsOK' /\ Counted'
    BY <1>1, <1>2, <1>3, MoveKeeps DEF RealtimeInv
  <1>5. RealtimeTyped'
    BY <1>3 DEF RealtimeInv, RealtimeTyped
  <1>6. PendingOK'
    BY DEF RealtimeInv, PendingOK
  <1>7. \A f \in Watched : Settles(f)' <=> Settles(f)
    BY <1>3 DEF Settles
  <1>8. PastOK'
    BY <1>3, <1>7 DEF RealtimeInv, PastOK
  <1>9. DeepOK'
    <2>1. \A t \in Deep' : t # s => t \in Deep /\ inspection'[t] = inspection[t]
      BY <1>2 DEF Deep, Running, RunningIn, Moved
    <2>2. s \in Deep' => inspection[s].file \in Downloads
      BY <1>2 DEF Deep, Running, RunningIn, Moved
    <2>3. inspection'[s].file = inspection[s].file
      BY <1>2 DEF Moved
    <2>4. \A t \in Deep : inspection[t].file \in deepActive
      BY DEF RealtimeInv, DeepOK
    <2>5. \A t, u \in Deep : t # u => inspection[t].file # inspection[u].file
      BY DEF RealtimeInv, DeepOK
    <2>6. \A t \in Deep' : inspection'[t].file \in deepActive'
      BY <2>1, <2>2, <2>3, <2>4
    <2>7. \A t, u \in Deep' : t # u => inspection'[t].file # inspection'[u].file
      <3> SUFFICES ASSUME NEW t \in Deep', NEW u \in Deep', t # u
                   PROVE  inspection'[t].file # inspection'[u].file
        OBVIOUS
      <3>1. CASE t # s /\ u # s
        BY <2>1, <2>5, <3>1
      <3>2. CASE t = s
        BY <2>1, <2>2, <2>3, <2>4, <3>2
      <3>3. CASE u = s
        BY <2>1, <2>2, <2>3, <2>4, <3>3
      <3> QED BY <3>1, <3>2, <3>3
    <2> QED BY <2>6, <2>7 DEF DeepOK
  <1>10. SeenOK'
    <2> SUFFICES ASSUME NEW t \in Slots, NEW f \in Watched, inspection'[t].step # "idle",
                        inspection'[t].file = f
                 PROVE  /\ inspection'[t].seen <= writes
                        /\ content[f] # 0 => inspection'[t].seen <= content[f]
                        /\ /\ inspection'[t].step = "handle" /\ content[f] # 0
                           /\ inspection'[t].seen = content[f]
                           => Settles(f)'
      BY DEF SeenOK, InUse
    <2>1. CASE t = s
      <3>1. inspection'[t].seen = content[f] /\ inspection'[t].step = "scan"
        BY <1>2, <2>1 DEF Moved
      <3>2. content[f] \in Nat /\ content[f] <= writes
        BY DEF RealtimeInv, RealtimeTyped, PastOK
      <3> QED BY <3>1, <3>2
    <2>2. CASE t # s
      <3>1. inspection'[t] = inspection[t]
        BY <1>2, <2>2 DEF Moved
      <3> QED BY <1>7, <3>1 DEF RealtimeInv, SeenOK, InUse
    <2> QED BY <2>1, <2>2
  <1>11. ASSUME NEW f \in Watched PROVE Accounted(f)'
    <2>1. \A t \in Slots : Ahead(t, f) => Ahead(t, f)'
      <3> SUFFICES ASSUME NEW t \in Slots, Ahead(t, f) PROVE Ahead(t, f)'
        OBVIOUS
      <3>1. t \in Running /\ inspection[t].file = f
        BY DEF Ahead
      <3>2. CASE t = s
        <4>1. t \in Running' /\ inspection'[t].file = f /\ inspection'[t].seen = content[f]
          BY <1>2, <3>1, <3>2 DEF Running, RunningIn, Moved
        <4> QED BY <1>2, <3>2, <4>1 DEF Ahead
      <3>3. CASE t # s
        <4>1. inspection'[t] = inspection[t]
          BY <1>2, <3>3 DEF Moved
        <4> QED BY <4>1 DEF Ahead, Running, RunningIn
      <3> QED BY <3>2, <3>3
    <2>2. Queued' = Queued
      BY <1>3 DEF Queued
    <2> QED BY <1>3, <1>7, <2>1, <2>2 DEF RealtimeInv, Accounted
  <1> QED BY <1>4, <1>5, <1>6, <1>8, <1>9, <1>10, <1>11 DEF RealtimeInv

-----------------------------------------------------------------------------
(* The steps of an inspection.                                             *)

\* An inspection that ends without a scan.
LEMMA EndsUnscanned ==
  ASSUME NEW s \in Slots, RealtimeInv, InUse(s), End(s),
         UNCHANGED <<content, events, phase, pending, recent, deepActive, history, dropped,
                     writes>>,
         rescan' \subseteq Downloads, rescan \subseteq rescan',
         \A g \in Watched : g = inspection[s].file /\ content[g] # 0 /\ Ahead(s, g) =>
            Settles(g) \/ g \in rescan'
  PROVE  RealtimeInv'
  <1>1. UNCHANGED <<noticed, scanned, failed>>
    BY DEF history
  <1>2. \A g \in Watched : Settles(g)' <=> Settles(g)
    BY <1>1 DEF Settles
  <1>3. \A g \in Watched : content'[g] \in {0, content[g]}
    OBVIOUS
  <1>4. \A g \in Watched : g = inspection[s].file /\ content'[g] # 0 /\ Ahead(s, g) =>
            Settles(g)' \/ g \in ToSet(pending') \union dropped' \union rescan'
    BY <1>2
  <1>5. /\ \A g \in deepActive : g \in deepActive' \/ (s \in Deep /\ g = inspection[s].file)
        /\ \A g \in ToSet(pending) \union dropped \union rescan :
              g \in ToSet(pending') \union dropped' \union rescan'
        /\ \A g \in Watched : content'[g] # 0 /\ content'[g] = content[g] /\ Settles(g)
            => Settles(g)'
    BY <1>2
  <1>6. UNCHANGED <<phase, writes, noticed>>
    BY <1>1
  <1>7. /\ priorityQueue' \in Seq(Watched) /\ scanQueue' \in Seq(Watched)
        /\ InspectionsOK' /\ Counted' /\ DeepOK' /\ SeenOK' /\ \A f \in Watched : Accounted(f)'
    BY <1>3, <1>4, <1>5, <1>6, EndPreserves
  <1>8. RealtimeTyped'
    BY <1>1, <1>7 DEF RealtimeInv, RealtimeTyped
  <1>9. PendingOK' /\ PastOK'
    BY <1>1, <1>2 DEF RealtimeInv, PendingOK, PastOK
  <1> QED BY <1>7, <1>8, <1>9 DEF RealtimeInv

LEMMA StatKeeps ==
  ASSUME NEW s \in Slots, RealtimeInv, Lstat(s)
  PROVE  RealtimeInv'
  <1>1. InUse(s) /\ inspection[s].step = "stat" /\ inspection[s].file \notin Downloads
    BY DEF Lstat, InUse
  <1>2. /\ UNCHANGED <<content, events, phase, pending, recent, rescan, history, dropped, writes>>
        /\ UNCHANGED deepActive
    BY DEF Lstat, deepVars, engineVars, phase
  <1>3. CASE content[inspection[s].file] = 0
    <2>1. End(s)
      BY <1>3 DEF Lstat
    <2>2. rescan' \subseteq Downloads /\ rescan \subseteq rescan'
      BY <1>2 DEF RealtimeInv, RealtimeTyped
    <2> QED BY <1>1, <1>2, <1>3, <2>1, <2>2, EndsUnscanned
  <1>4. CASE content[inspection[s].file] # 0
    <2>1. GoTo(s, "scan")
      BY <1>4 DEF Lstat
    <2> QED BY <1>1, <1>2, <2>1, ScanStarts
  <1> QED BY <1>3, <1>4

LEMMA StabilizeKeeps ==
  ASSUME NEW s \in Slots, RealtimeInv, Stabilize(s)
  PROVE  RealtimeInv'
  <1>1. /\ InUse(s) /\ inspection[s].step = "stat" /\ inspection[s].file \in Downloads
    BY DEF Stabilize, InUse
  <1>2. UNCHANGED <<content, events, phase, pending, recent, history, dropped, writes>>
    BY DEF Stabilize, engineVars, phase
  <1>3. rescan \subseteq Downloads
    BY DEF RealtimeInv, RealtimeTyped
  <1> DEFINE f == inspection[s].file
  <1>4. CASE content[f] = 0 /\ End(s) /\ UNCHANGED <<deepActive, rescan>>
    BY <1>1, <1>2, <1>3, <1>4, EndsUnscanned
  <1>5. CASE content[f] # 0 /\ rescan' = rescan \union {f} /\ End(s) /\ UNCHANGED deepActive
    <2>1. /\ rescan' \subseteq Downloads /\ rescan \subseteq rescan'
          /\ \A g \in Watched : g = inspection[s].file => g \in rescan'
      BY <1>1, <1>3, <1>5
    <2> QED BY <1>1, <1>2, <1>5, <2>1, EndsUnscanned
  <1>6. CASE content[f] # 0 /\ recent[f] = content[f] /\ End(s) /\ UNCHANGED <<deepActive, rescan>>
    <2>1. \A g \in Watched : g = inspection[s].file => Settles(g)
      BY <1>6 DEF RealtimeInv, PastOK
    <2> QED BY <1>1, <1>2, <1>3, <1>6, <2>1, EndsUnscanned
  <1>7. CASE /\ content[f] # 0 /\ f \notin deepActive
             /\ deepActive' = deepActive \union {f}
             /\ GoTo(s, "scan") /\ UNCHANGED rescan
    BY <1>1, <1>2, <1>7, ScanStarts
  <1> QED BY <1>4, <1>5, <1>6, <1>7 DEF Stabilize

LEMMA NeverStableKeeps ==
  ASSUME NEW s \in Slots, RealtimeInv, NeverStable(s)
  PROVE  RealtimeInv'
  <1>1. /\ InUse(s) /\ inspection[s].step = "stat" /\ End(s)
        /\ content[inspection[s].file] \notin {0, inspection[s].begun}
    BY DEF NeverStable, InUse
  <1>2. UNCHANGED <<content, events, phase, pending, recent, deepActive, rescan, history, dropped,
                    writes>>
    BY DEF NeverStable, deepVars, engineVars, phase
  <1>3. rescan' \subseteq Downloads /\ rescan \subseteq rescan'
    BY <1>2 DEF RealtimeInv, RealtimeTyped
  <1>4. \A g \in Watched : g = inspection[s].file => ~Ahead(s, g)
    BY <1>1 DEF Ahead
  <1> QED BY <1>1, <1>2, <1>3, <1>4, EndsUnscanned

\* The finally of a deep scan frees no other file and forgets none.
LEMMA ReleaseKeeps ==
  ASSUME NEW s \in Slots, RealtimeInv, inspection[s].step \in {"scan", "handle"}, Release(s)
  PROVE  /\ pending' \in Seq(Watched) /\ dropped' \subseteq Watched /\ PendingOK'
         /\ deepActive' \subseteq Downloads /\ rescan' \subseteq Downloads
         /\ \A g \in deepActive : g \in deepActive' \/ (s \in Deep /\ g = inspection[s].file)
         /\ \A g \in ToSet(pending) \union dropped \union rescan :
              g \in ToSet(pending') \union dropped' \union rescan'
  <1>1. /\ pending \in Seq(Watched) /\ dropped \subseteq Watched /\ PendingOK /\ RealtimeTyped
        /\ deepActive \subseteq Downloads /\ rescan \subseteq Downloads
        /\ inspection[s].file \in Watched
    BY DEF RealtimeInv, RealtimeTyped, InspectionsOK, SlotsOK, Inspections
  <1>2. CASE inspection[s].file \notin Downloads
    <2>1. UNCHANGED <<pending, dropped, deepActive, rescan>>
      BY <1>2 DEF Release
    <2> QED BY <1>1, <2>1 DEF PendingOK
  <1>3. CASE inspection[s].file \in Downloads
    <2>0. PICK f \in Watched : f = inspection[s].file
      BY <1>1
    <2>1. /\ deepActive' = deepActive \ {f} /\ rescan' = rescan \ {f}
          /\ IF f \in rescan /\ phase = "on" THEN Enqueue(f) ELSE UNCHANGED <<pending, dropped>>
      BY <1>3, <2>0 DEF Release
    <2>2. s \in Running /\ s \in Deep
      BY <1>3 DEF Deep, Running, RunningIn
    <2>3. phase = "on"
      BY <2>2 DEF RealtimeInv, Counted, CountedAs, Running
    <2>4. CASE f \in rescan
      <3>1. Enqueue(f)
        BY <2>1, <2>3, <2>4
      <3>2. /\ pending' \in Seq(Watched) /\ dropped' \subseteq Watched /\ PendingOK'
            /\ f \in ToSet(pending')
            /\ \A g \in ToSet(pending) \union dropped : g \in ToSet(pending') \union dropped'
        BY <1>1, <3>1, EnqueueKeeps
      <3> QED BY <1>1, <2>0, <2>1, <2>2, <3>2
    <2>5. CASE f \notin rescan
      <3>1. UNCHANGED <<pending, dropped>>
        BY <2>1, <2>5
      <3>2. PendingOK'
        BY <1>1, <3>1 DEF PendingOK
      <3> QED BY <1>1, <2>0, <2>1, <2>2, <2>5, <3>1, <3>2
    <2> QED BY <2>4, <2>5
  <1> QED BY <1>1, <1>2, <1>3

\* A scan or the handling of a detection ends.
LEMMA EndsScanned ==
  ASSUME NEW s \in Slots, RealtimeInv, inspection[s].step \in {"scan", "handle"}, Release(s),
         End(s), UNCHANGED <<phase, writes, noticed>>,
         content' \in [Watched -> Nat], events' \in [Watched -> Nat],
         recent' \in [Watched -> Nat], scanned' \in [Watched -> Nat], failed' \in [Watched -> Nat],
         PastOK', \A g \in Watched : content'[g] \in {0, content[g]},
         \A g \in Watched : content'[g] # 0 /\ content'[g] = content[g] /\ Settles(g)
            => Settles(g)',
         \A g \in Watched : g = inspection[s].file /\ content'[g] # 0 /\ Ahead(s, g) => Settles(g)'
  PROVE  RealtimeInv'
  <1>1. InUse(s)
    BY DEF InUse
  <1>2. /\ pending' \in Seq(Watched) /\ dropped' \subseteq Watched /\ PendingOK'
        /\ deepActive' \subseteq Downloads /\ rescan' \subseteq Downloads
        /\ \A g \in deepActive : g \in deepActive' \/ (s \in Deep /\ g = inspection[s].file)
        /\ \A g \in ToSet(pending) \union dropped \union rescan :
              g \in ToSet(pending') \union dropped' \union rescan'
    BY ReleaseKeeps
  <1>3. \A g \in Watched : g = inspection[s].file /\ content'[g] # 0 /\ Ahead(s, g) =>
            Settles(g)' \/ g \in ToSet(pending') \union dropped' \union rescan'
    OBVIOUS
  <1>4. /\ priorityQueue' \in Seq(Watched) /\ scanQueue' \in Seq(Watched)
        /\ InspectionsOK' /\ Counted' /\ DeepOK' /\ SeenOK' /\ \A f \in Watched : Accounted(f)'
    BY <1>1, <1>2, <1>3, EndPreserves
  <1>5. RealtimeTyped'
    BY <1>2, <1>4 DEF RealtimeInv, RealtimeTyped
  <1> QED BY <1>2, <1>4, <1>5 DEF RealtimeInv

\* What the state says of the file of a scan.
LEMMA FileOf ==
  ASSUME NEW s \in Slots, RealtimeInv, inspection[s].step \in {"scan", "handle"}
  PROVE  /\ inspection[s].file \in Watched /\ inspection[s].seen \in Nat
         /\ inspection[s].seen <= writes
         /\ content[inspection[s].file] # 0 => inspection[s].seen <= content[inspection[s].file]
  <1>1. /\ inspection[s].file \in Watched /\ inspection[s].seen \in Nat
    BY DEF RealtimeInv, InspectionsOK, SlotsOK, Inspections
  <1> QED BY <1>1 DEF RealtimeInv, SeenOK, InUse

\* The files are as the scan of s leaves them: it remembers a fingerprint only of a content
\* that it settled.
LEMMA Remembers ==
  ASSUME NEW s \in Slots, RealtimeInv, inspection[s].step \in {"scan", "handle"},
         Remember(s) \/ UNCHANGED recent, UNCHANGED <<content, noticed, writes>>,
         scanned' \in [Watched -> Nat], failed' \in [Watched -> Nat],
         \A g \in Watched : failed'[g] <= writes /\ (content[g] # 0 => failed'[g] <= content[g]),
         \A g \in Watched : content[g] # 0 /\ Settles(g) => Settles(g)',
         \A g \in Watched : g = inspection[s].file /\ content[g] # 0
            /\ inspection[s].seen = content[g] => Settles(g)'
  PROVE  PastOK' /\ recent' \in [Watched -> Nat]
  <1>1. PICK f \in Watched : f = inspection[s].file
    BY FileOf
  <1>2. inspection[s].seen \in Nat /\ inspection[s].seen <= writes
    BY FileOf
  <1>3. /\ recent \in [Watched -> Nat]
        /\ \/ recent' = recent
           \/ recent' = [recent EXCEPT ![f] = inspection[s].seen]
    BY <1>1, FileOf DEF Remember, RealtimeInv, RealtimeTyped
  <1>4. recent' \in [Watched -> Nat]
    BY <1>2, <1>3
  <1>5. ASSUME NEW g \in Watched
        PROVE  recent'[g] <= writes /\ (content[g] # 0 /\ recent'[g] = content[g] => Settles(g)')
    <2>1. recent[g] <= writes /\ (content[g] # 0 /\ recent[g] = content[g] => Settles(g))
      BY DEF RealtimeInv, PastOK
    <2>2. CASE recent'[g] = recent[g]
      BY <2>1, <2>2
    <2>3. CASE recent'[g] # recent[g]
      <3>1. g = f /\ recent'[g] = inspection[s].seen
        BY <1>3, <2>3
      <3> QED BY <1>1, <1>2, <3>1
    <2> QED BY <2>2, <2>3
  <1>6. PastOK'
    BY <1>5 DEF RealtimeInv, PastOK
  <1> QED BY <1>4, <1>6

LEMMA ScanEndsKeeps ==
  ASSUME NEW s \in Slots, RealtimeInv, ScanEnds(s)
  PROVE  RealtimeInv'
  <1>1. PICK f \in Watched : f = inspection[s].file
    BY FileOf DEF ScanEnds
  <1>2. /\ inspection[s].step = "scan" /\ content[f] # 0 /\ Remember(s)
        /\ UNCHANGED <<content, events, phase, noticed, failed, writes>>
        /\ scanned' = IF content[f] = inspection[s].seen
                      THEN [scanned EXCEPT ![f] = content[f]] ELSE scanned
        /\ IF content[f] = inspection[s].seen /\ content[f] \in Malicious
           THEN /\ inspection' = [inspection EXCEPT ![s].step = "handle"]
                /\ UNCHANGED <<queues, active, pending, dropped, deepActive, rescan>>
           ELSE Release(s) /\ End(s)
    BY <1>1 DEF ScanEnds, engineVars, phase
  <1>3. /\ inspection[s].step \in {"scan", "handle"} /\ InUse(s)
        /\ inspection[s].seen \in Nat
    BY <1>2, FileOf DEF InUse
  <1>4. /\ content \in [Watched -> Nat] /\ scanned \in [Watched -> Nat]
        /\ failed \in [Watched -> Nat] /\ events \in [Watched -> Nat]
    BY DEF RealtimeInv, RealtimeTyped
  <1>5. scanned' \in [Watched -> Nat] /\ failed' \in [Watched -> Nat]
    BY <1>2, <1>4
  <1>6. \A g \in Watched : content[g] # 0 /\ Settles(g) => Settles(g)'
    <2> SUFFICES ASSUME NEW g \in Watched, content[g] \in {scanned[g], failed[g]}
                 PROVE  content'[g] \in {scanned'[g], failed'[g]}
      BY DEF Settles
    <2>1. scanned'[g] = scanned[g] \/ scanned'[g] = content[g]
      BY <1>2, <1>4
    <2> QED BY <1>2, <2>1
  <1>7. \A g \in Watched : g = inspection[s].file 
           /\ inspection[s].seen = content[g] => Settles(g)'
    <2> SUFFICES ASSUME inspection[s].seen = content[f]
                 PROVE  content'[f] \in {scanned'[f], failed'[f]}
      BY <1>1 DEF Settles
    <2>1. scanned'[f] = content[f]
      BY <1>2, <1>4
    <2> QED BY <1>2, <2>1
  <1>8. PastOK' /\ recent' \in [Watched -> Nat]
    <2>1. \A g \in Watched : failed'[g] <= writes /\ (content[g] # 0 => failed'[g] <= content[g])
      BY <1>2 DEF RealtimeInv, PastOK
    <2>2. UNCHANGED <<content, noticed, writes>>
      BY <1>2
    <2> QED BY <1>2, <1>3, <1>5, <1>6, <1>7, <2>1, <2>2, Remembers
  <1>9. CASE ~(content[f] = inspection[s].seen /\ content[f] \in Malicious)
    <2>1. Release(s) /\ End(s) /\ UNCHANGED <<phase, writes, noticed>>
      BY <1>2, <1>9
    <2>2. /\ content' \in [Watched -> Nat] /\ events' \in [Watched -> Nat]
          /\ \A g \in Watched : content'[g] \in {0, content[g]}
      BY <1>2, <1>4
    <2>3. \A g \in Watched : content'[g] # 0 /\ content'[g] = content[g] /\ Settles(g)
            => Settles(g)'
      BY <1>2, <1>6
    <2>4. \A g \in Watched : g = inspection[s].file /\ content'[g] # 0 /\ Ahead(s, g)
             => Settles(g)'
      <3>1. \A g \in Watched :
              Ahead(s, g) => inspection[s].seen = content[g]
        BY <1>2 DEF Ahead, Running, RunningIn
      <3> QED BY <1>7, <3>1
    <2> QED BY <1>3, <1>5, <1>8, <2>1, <2>2, <2>3, <2>4, EndsScanned
  <1>10. CASE content[f] = inspection[s].seen /\ content[f] \in Malicious
    <2>1. /\ inspection' = [inspection EXCEPT ![s].step = "handle"]
          /\ UNCHANGED <<priorityQueue, scanQueue, active, pending, dropped, deepActive, rescan>>
      BY <1>2, <1>10 DEF queues
    <2>2. inspection \in [Slots -> Inspections]
      BY DEF RealtimeInv, InspectionsOK, SlotsOK
    <2>3. PICK a \in Inspections : a = [inspection[s] EXCEPT !.step = "handle"]
      BY <2>2 DEF Inspections
    <2>4. /\ a.step = "handle" /\ a.file = f
          /\ a.seen = inspection[s].seen
      BY <1>1, <2>2, <2>3 DEF Inspections
    <2>5. /\ inspection' = [inspection EXCEPT ![s] = a] /\ inspection'[s] = a
          /\ \A t \in Slots \ {s} : inspection'[t] = inspection[t]
      BY <2>1, <2>2, <2>3
    <2>6. Moved(s)
      BY <1>1, <2>2, <2>3, <2>4, <2>5 DEF Moved
    <2>7. InspectionsOK' /\ Counted'
      <3>1. UNCHANGED <<active, phase>>
        BY <1>2, <2>1
      <3> QED BY <1>3, <2>6, <3>1, MoveKeeps DEF RealtimeInv
    <2>8. RealtimeTyped'
      BY <1>2, <1>5, <1>8, <2>1 DEF RealtimeInv, RealtimeTyped
    <2>9. PendingOK'
      BY <2>1 DEF RealtimeInv, PendingOK
    <2>10. Running' = Running
      BY <1>2, <2>4, <2>5 DEF Running, RunningIn
    <2>11. DeepOK'
      <3>1. Deep' = Deep
        BY <1>1, <1>3, <2>4, <2>5, <2>10 DEF Deep, Running, RunningIn
      <3>2. \A t \in Slots : inspection'[t].file = inspection[t].file
        BY <1>1, <2>4, <2>5
      <3>3. Deep \subseteq Slots
        BY DEF Deep, Running, RunningIn
      <3> QED BY <2>1, <3>1, <3>2, <3>3 DEF RealtimeInv, DeepOK
    <2>12. SeenOK'
      <3> SUFFICES ASSUME NEW t \in Slots, NEW g \in Watched, inspection'[t].step # "idle",
                          inspection'[t].file = g
                   PROVE  /\ inspection'[t].seen <= writes
                          /\ content[g] # 0 => inspection'[t].seen <= content[g]
                          /\ /\ inspection'[t].step = "handle" /\ content[g] # 0
                             /\ inspection'[t].seen = content[g]
                             => Settles(g)'
        BY <1>2 DEF SeenOK, InUse
      <3>1. CASE t = s
        <4>1. g = f
          BY <2>4, <2>5, <3>1
        <4>2. inspection[s].seen <= writes /\ (content[g] # 0 => inspection[s].seen <= content[g])
          BY <1>1, <1>3, <4>1, FileOf
        <4> QED BY <1>1, <1>7, <2>4, <2>5, <3>1, <4>1, <4>2
      <3>2. CASE t # s
        <4>1. inspection'[t] = inspection[t]
          BY <2>5, <3>2
        <4> QED BY <1>6, <4>1 DEF RealtimeInv, SeenOK, InUse
      <3> QED BY <3>1, <3>2
    <2>13. ASSUME NEW g \in Watched PROVE Accounted(g)'
      <3>1. \A t \in Slots : Ahead(t, g) => Ahead(t, g)'
        <4> SUFFICES ASSUME NEW t \in Slots, Ahead(t, g) PROVE Ahead(t, g)'
          OBVIOUS
        <4>1. t \in Running' /\ inspection[t].file = g
          BY <2>10 DEF Ahead
        <4>2. CASE t = s
          <5>1. inspection[s].seen = content[g]
            BY <1>2, <4>2 DEF Ahead
          <5>2. /\ inspection'[s].step = "handle" /\ inspection'[s].seen = content'[g]
                /\ inspection'[s].file = g
            BY <1>1, <1>2, <2>4, <2>5, <4>1, <4>2, <5>1
          <5> QED BY <4>1, <4>2, <5>2 DEF Ahead
        <4>3. CASE t # s
          <5>1. inspection'[t] = inspection[t]
            BY <2>5, <4>3
          <5> QED BY <1>2, <4>1, <5>1 DEF Ahead
        <4> QED BY <4>2, <4>3
      <3>2. Queued' = Queued
        BY <2>1 DEF Queued
      <3> QED BY <1>2, <1>6, <2>1, <3>1, <3>2 DEF RealtimeInv, Accounted
    <2> QED BY <1>8, <2>7, <2>8, <2>9, <2>11, <2>12, <2>13 DEF RealtimeInv
  <1> QED BY <1>9, <1>10

LEMMA ScanFailsKeeps ==
  ASSUME NEW s \in Slots, RealtimeInv, ScanFails(s)
  PROVE  RealtimeInv'
  <1>1. PICK f \in Watched : f = inspection[s].file
    BY FileOf DEF ScanFails
  <1>2. /\ inspection[s].step = "scan" /\ (Remember(s) \/ UNCHANGED recent)
        /\ UNCHANGED <<content, events, phase, noticed, scanned, writes>>
        /\ failed' = IF inspection[s].seen < failed[f] THEN failed
                     ELSE [failed EXCEPT ![f] = inspection[s].seen]
        /\ Release(s) /\ End(s)
    BY <1>1 DEF ScanFails, engineVars, phase
  <1>3. /\ inspection[s].step \in {"scan", "handle"}
        /\ inspection[s].seen \in Nat /\ inspection[s].seen <= writes
        /\ content[f] # 0 => inspection[s].seen <= content[f]
    BY <1>1, <1>2, FileOf
  <1>4. /\ content \in [Watched -> Nat] /\ scanned \in [Watched -> Nat]
        /\ failed \in [Watched -> Nat] /\ events \in [Watched -> Nat]
    BY DEF RealtimeInv, RealtimeTyped
  <1>5. scanned' \in [Watched -> Nat] /\ failed' \in [Watched -> Nat]
    BY <1>2, <1>3, <1>4
  <1>6. \A g \in Watched : failed[g] <= writes /\ (content[g] # 0 => failed[g] <= content[g])
    BY DEF RealtimeInv, PastOK
  <1>7. \A g \in Watched : failed'[g] <= writes /\ (content[g] # 0 => failed'[g] <= content[g])
    <2> SUFFICES ASSUME NEW g \in Watched
                 PROVE  failed'[g] <= writes /\ (content[g] # 0 => failed'[g] <= content[g])
      OBVIOUS
    <2>1. failed'[g] = failed[g] \/ (g = f /\ failed'[g] = inspection[s].seen)
      BY <1>2, <1>4
    <2> QED BY <1>3, <1>6, <2>1
  <1>8. \A g \in Watched : content[g] # 0 /\ Settles(g) => Settles(g)'
    <2> SUFFICES ASSUME NEW g \in Watched, content[g] # 0, content[g] \in {scanned[g], failed[g]}
                 PROVE  content[g] \in {scanned[g], failed'[g]}
      BY <1>2 DEF Settles
    <2>1. failed'[g] = failed[g]
          \/ (g = f /\ failed'[g] = inspection[s].seen /\ ~(inspection[s].seen < failed[f]))
      BY <1>2, <1>4
    <2> QED BY <1>3, <1>4, <2>1
  <1>9. \A g \in Watched : g = inspection[s].file /\ content[g] # 0
           /\ inspection[s].seen = content[g] => Settles(g)'
    <2> SUFFICES ASSUME content[f] # 0, inspection[s].seen = content[f]
                 PROVE  content[f] \in {scanned[f], failed'[f]}
      BY <1>1, <1>2 DEF Settles
    <2>1. failed[f] <= content[f]
      BY <1>6
    <2>2. inspection[s].seen < failed[f] \/ failed'[f] = inspection[s].seen
      BY <1>2, <1>4
    <2> QED BY <1>3, <1>4, <2>1, <2>2
  <1>10. PastOK' /\ recent' \in [Watched -> Nat]
    <2>1. UNCHANGED <<content, noticed, writes>>
      BY <1>2
    <2> QED BY <1>2, <1>3, <1>5, <1>7, <1>8, <1>9, <2>1, Remembers
  <1>11. /\ content' \in [Watched -> Nat] /\ events' \in [Watched -> Nat]
         /\ \A g \in Watched : content'[g] \in {0, content[g]}
         /\ UNCHANGED <<phase, writes, noticed>>
    BY <1>2, <1>4
  <1>12. \A g \in Watched : content'[g] # 0 /\ content'[g] = content[g] /\ Settles(g)
            => Settles(g)'
    BY <1>8
  <1>13. \A g \in Watched : g = inspection[s].file /\ content'[g] # 0 /\ Ahead(s, g) => Settles(g)'
    <2>1. \A g \in Watched : Ahead(s, g) => inspection[s].seen = content[g]
      BY <1>2 DEF Ahead, Running, RunningIn
    <2> QED BY <1>2, <1>9, <2>1
  <1> QED BY <1>2, <1>3, <1>5, <1>10, <1>11, <1>12, <1>13, EndsScanned

LEMMA HandleKeeps ==
  ASSUME NEW s \in Slots, RealtimeInv, Handle(s)
  PROVE  RealtimeInv'
  <1>1. PICK f \in Watched : f = inspection[s].file
    BY FileOf DEF Handle
  <1>2. /\ inspection[s].step = "handle" /\ Release(s) /\ End(s)
        /\ \/ content' = [content EXCEPT ![f] = 0] /\ Changed(f)
           \/ UNCHANGED <<content, events>>
        /\ UNCHANGED <<phase, recent, noticed, scanned, failed, writes>>
    BY <1>1 DEF Handle, history, engineVars, phase
  <1>3. /\ content \in [Watched -> Nat] /\ events \in [Watched -> Nat]
        /\ recent \in [Watched -> Nat] /\ scanned \in [Watched -> Nat]
        /\ failed \in [Watched -> Nat] /\ writes \in Nat
    BY DEF RealtimeInv, RealtimeTyped
  <1>4. content' \in [Watched -> Nat] /\ events' \in [Watched -> Nat]
    BY <1>2, <1>3 DEF Changed
  <1>5. \A g \in Watched : content'[g] \in {0, content[g]}
    BY <1>2, <1>3
  <1>6. \A g \in Watched : content'[g] # 0 /\ Settles(g) => Settles(g)'
    <2> SUFFICES ASSUME NEW g \in Watched, content'[g] # 0, content[g] \in {scanned[g], failed[g]}
                 PROVE  content'[g] \in {scanned'[g], failed'[g]}
      BY DEF Settles
    <2> QED BY <1>2, <1>5
  <1>7. PastOK'
    <2>1. \A g \in Watched : content'[g] <= writes
      BY <1>3, <1>5 DEF RealtimeInv, PastOK
    <2> QED BY <1>2, <1>5, <1>6, <2>1 DEF RealtimeInv, PastOK
  <1>8. \A g \in Watched : g = inspection[s].file /\ content'[g] # 0 /\ Ahead(s, g) => Settles(g)'
    <2> SUFFICES ASSUME content'[f] # 0, Ahead(s, f) PROVE Settles(f)'
      BY <1>1
    <2>1. inspection[s].seen = content[f] /\ content[f] # 0
      BY <1>2, <1>5 DEF Ahead, Running, RunningIn
    <2>2. Settles(f)
      BY <1>1, <1>2, <2>1 DEF RealtimeInv, SeenOK, InUse
    <2> QED BY <1>6, <2>2
  <1> QED BY <1>2, <1>3, <1>4, <1>5, <1>6, <1>7, <1>8, EndsScanned

-----------------------------------------------------------------------------
(* The files, their watchers and the engine.                               *)

\* The slots, the queues and what is remembered stay; used by the actions of the files.
LEMMA SlotsStay ==
  ASSUME RealtimeInv, UNCHANGED <<inspection, active, phase, deepActive>>
  PROVE  InspectionsOK' /\ Counted' /\ DeepOK' /\ Running' = Running
  <1>1. InspectionsOK'
    BY DEF RealtimeInv, InspectionsOK, SlotsOK
  <1>2. Counted'
    BY DEF RealtimeInv, Counted, CountedAs, RunningIn
  <1>3. Running' = Running
    BY DEF Running, RunningIn
  <1>4. DeepOK'
    BY DEF RealtimeInv, DeepOK, Deep, Running, RunningIn
  <1> QED BY <1>1, <1>2, <1>3, <1>4

LEMMA ChangeKeeps ==
  ASSUME NEW f \in Watched, RealtimeInv, Change(f)
  PROVE  RealtimeInv'
  <1>1. /\ writes' = writes + 1 /\ content' = [content EXCEPT ![f] = writes + 1] /\ Changed(f)
        /\ UNCHANGED <<phase, pending, priorityQueue, scanQueue, inspection, active, recent,
                       deepActive, rescan, noticed, scanned, failed, dropped>>
    BY DEF Change, scanState, queues, deepVars, history, engineVars, phase
  <1>2. /\ content \in [Watched -> Nat] /\ events \in [Watched -> Nat] /\ writes \in Nat
        /\ noticed \in [Watched -> Nat] /\ scanned \in [Watched -> Nat]
        /\ failed \in [Watched -> Nat] /\ recent \in [Watched -> Nat]
    BY DEF RealtimeInv, RealtimeTyped
  <1>3. /\ content' \in [Watched -> Nat] /\ content'[f] = writes + 1
        /\ \A g \in Watched \ {f} : content'[g] = content[g]
        /\ events' \in [Watched -> Nat]
    BY <1>1, <1>2 DEF Changed
  <1>4. InspectionsOK' /\ Counted' /\ DeepOK' /\ Running' = Running
    BY <1>1, SlotsStay
  <1>5. RealtimeTyped'
    BY <1>1, <1>2, <1>3 DEF RealtimeInv, RealtimeTyped
  <1>6. PendingOK'
    BY <1>1 DEF RealtimeInv, PendingOK
  <1>7. \A g \in Watched \ {f} : Settles(g) => Settles(g)'
    BY <1>1, <1>3 DEF Settles
  <1>8. PastOK'
    <2>1. ASSUME NEW g \in Watched
          PROVE  /\ content'[g] <= writes' /\ noticed'[g] <= writes' /\ recent'[g] <= writes'
                 /\ failed'[g] <= writes' /\ (content'[g] # 0 => failed'[g] <= content'[g])
                 /\ content'[g] # 0 /\ recent'[g] = content'[g] => Settles(g)'
      <3>1. /\ content[g] <= writes /\ noticed[g] <= writes /\ recent[g] <= writes
            /\ failed[g] <= writes /\ (content[g] # 0 => failed[g] <= content[g])
            /\ content[g] # 0 /\ recent[g] = content[g] => Settles(g)
        BY DEF RealtimeInv, PastOK
      <3>2. CASE g = f
        BY <1>1, <1>2, <1>3, <3>1, <3>2
      <3>3. CASE g # f
        BY <1>1, <1>2, <1>3, <1>7, <3>1, <3>3
      <3> QED BY <3>2, <3>3
    <2> QED BY <2>1 DEF PastOK
  <1>9. SeenOK'
    <2> SUFFICES ASSUME NEW t \in Slots, NEW g \in Watched, inspection[t].step # "idle",
                        inspection[t].file = g
                 PROVE  /\ inspection[t].seen <= writes'
                        /\ content'[g] # 0 => inspection[t].seen <= content'[g]
                        /\ /\ inspection[t].step = "handle" /\ content'[g] # 0
                           /\ inspection[t].seen = content'[g]
                           => Settles(g)'
      BY <1>1 DEF SeenOK, InUse
    <2>1. /\ inspection[t].seen <= writes
          /\ content[g] # 0 => inspection[t].seen <= content[g]
          /\ /\ inspection[t].step = "handle" /\ content[g] # 0
             /\ inspection[t].seen = content[g]
             => Settles(g)
      BY DEF RealtimeInv, SeenOK, InUse
    <2>2. inspection[t].seen \in Nat
      BY DEF RealtimeInv, InspectionsOK, SlotsOK, Inspections
    <2>3. CASE g = f
      BY <1>1, <1>2, <1>3, <2>1, <2>2, <2>3
    <2>4. CASE g # f
      BY <1>1, <1>2, <1>3, <1>7, <2>1, <2>2, <2>4
    <2> QED BY <2>3, <2>4
  <1>10. ASSUME NEW g \in Watched PROVE Accounted(g)'
    <2>1. CASE g = f
      <3>1. noticed[g] <= writes
        BY DEF RealtimeInv, PastOK
      <3>2. noticed'[g] # content'[g]
        BY <1>1, <1>2, <1>3, <2>1, <3>1
      <3> QED BY <3>2 DEF Accounted
    <2>2. CASE g # f
      <3>1. content'[g] = content[g]
        BY <1>3, <2>2
      <3>2. \A t \in Slots : Ahead(t, g) => Ahead(t, g)'
        BY <1>1, <1>4, <3>1 DEF Ahead
      <3>3. Queued' = Queued
        BY <1>1 DEF Queued
      <3> QED BY <1>1, <1>7, <2>2, <3>1, <3>2, <3>3 DEF RealtimeInv, Accounted
    <2> QED BY <2>1, <2>2
  <1> QED BY <1>4, <1>5, <1>6, <1>8, <1>9, <1>10 DEF RealtimeInv

LEMMA RemovedKeeps ==
  ASSUME NEW f \in Watched, RealtimeInv, Removed(f)
  PROVE  RealtimeInv'
  <1>1. /\ content' = [content EXCEPT ![f] = 0] /\ Changed(f)
        /\ UNCHANGED <<phase, pending, priorityQueue, scanQueue, inspection, active, recent,
                       deepActive, rescan, noticed, scanned, failed, dropped, writes>>
    BY DEF Removed, scanState, queues, deepVars, history, engineVars, phase
  <1>2. content \in [Watched -> Nat] /\ events \in [Watched -> Nat] /\ writes \in Nat
    BY DEF RealtimeInv, RealtimeTyped
  <1>3. /\ content' \in [Watched -> Nat] /\ events' \in [Watched -> Nat]
        /\ \A g \in Watched : content'[g] = content[g] \/ content'[g] = 0
    BY <1>1, <1>2 DEF Changed
  <1>4. InspectionsOK' /\ Counted' /\ DeepOK' /\ Running' = Running
    BY <1>1, SlotsStay
  <1>5. RealtimeTyped'
    BY <1>1, <1>3 DEF RealtimeInv, RealtimeTyped
  <1>6. PendingOK'
    BY <1>1 DEF RealtimeInv, PendingOK
  <1>7. \A g \in Watched : content'[g] # 0 /\ Settles(g) => Settles(g)'
    BY <1>1, <1>3 DEF Settles
  <1>8. PastOK'
    <2>1. \A g \in Watched : content'[g] <= writes
      BY <1>2, <1>3 DEF RealtimeInv, PastOK
    <2> QED BY <1>1, <1>3, <1>7, <2>1 DEF RealtimeInv, PastOK
  <1>9. SeenOK'
    BY <1>1, <1>3, <1>7 DEF RealtimeInv, SeenOK, InUse
  <1>10. ASSUME NEW g \in Watched PROVE Accounted(g)'
    <2> SUFFICES ASSUME content'[g] # 0, noticed'[g] = content'[g]
                 PROVE  \/ Settles(g)' \/ g \in dropped'
                        \/ g \in ToSet(pending') \/ g \in Queued' \/ g \in rescan'
                        \/ \E t \in Slots : Ahead(t, g)'
      BY DEF Accounted
    <2>1. content'[g] = content[g]
      BY <1>3
    <2>2. \A t \in Slots : Ahead(t, g) => Ahead(t, g)'
      BY <1>1, <1>4, <2>1 DEF Ahead
    <2>3. Queued' = Queued
      BY <1>1 DEF Queued
    <2> QED BY <1>1, <1>7, <2>1, <2>2, <2>3 DEF RealtimeInv, Accounted
  <1> QED BY <1>4, <1>5, <1>6, <1>8, <1>9, <1>10 DEF RealtimeInv

LEMMA NoticeKeeps ==
  ASSUME NEW f \in Watched, RealtimeInv, Notice(f)
  PROVE  RealtimeInv'
  <1>1. /\ events[f] > 0 /\ events' = [events EXCEPT ![f] = @ - 1]
        /\ noticed' = [noticed EXCEPT ![f] = content[f]] /\ Enqueue(f)
        /\ UNCHANGED <<content, phase, priorityQueue, scanQueue, inspection, active, recent,
                       deepActive, rescan, scanned, failed, writes>>
    BY DEF Notice, queues, deepVars, engineVars, phase
  <1>2. /\ content \in [Watched -> Nat] /\ events \in [Watched -> Nat]
        /\ noticed \in [Watched -> Nat]
    BY DEF RealtimeInv, RealtimeTyped
  <1>3. events' \in [Watched -> Nat] /\ noticed' \in [Watched -> Nat]
    <2>1. events[f] - 1 \in Nat
      BY <1>1, <1>2
    <2> QED BY <1>1, <1>2, <2>1
  <1>4. /\ pending' \in Seq(Watched) /\ dropped' \subseteq Watched /\ PendingOK'
        /\ f \in ToSet(pending')
        /\ \A g \in ToSet(pending) \union dropped : g \in ToSet(pending') \union dropped'
    BY <1>1, EnqueueKeeps DEF RealtimeInv
  <1>5. InspectionsOK' /\ Counted' /\ DeepOK' /\ Running' = Running
    BY <1>1, SlotsStay
  <1>6. RealtimeTyped'
    BY <1>1, <1>3, <1>4 DEF RealtimeInv, RealtimeTyped
  <1>7. \A g \in Watched : Settles(g)' <=> Settles(g)
    BY <1>1 DEF Settles
  <1>8. PastOK'
    <2>1. \A g \in Watched : noticed'[g] <= writes
      BY <1>1, <1>2 DEF RealtimeInv, PastOK
    <2> QED BY <1>1, <1>7, <2>1 DEF RealtimeInv, PastOK
  <1>9. SeenOK'
    BY <1>1, <1>7 DEF RealtimeInv, SeenOK, InUse
  <1>10. ASSUME NEW g \in Watched PROVE Accounted(g)'
    <2>1. CASE g = f
      BY <1>4, <2>1 DEF Accounted
    <2>2. CASE g # f
      <3>1. noticed'[g] = noticed[g]
        BY <1>1, <1>2, <2>2
      <3>2. \A t \in Slots : Ahead(t, g) => Ahead(t, g)'
        BY <1>1, <1>5 DEF Ahead
      <3>3. Queued' = Queued
        BY <1>1 DEF Queued
      <3> QED BY <1>1, <1>4, <1>7, <3>1, <3>2, <3>3 DEF RealtimeInv, Accounted
    <2> QED BY <2>1, <2>2
  <1> QED BY <1>4, <1>5, <1>6, <1>8, <1>9, <1>10 DEF RealtimeInv

\* Only the phase changes: the object starts, or its start ends.
LEMMA OthersStay ==
  ASSUME RealtimeInv,
         UNCHANGED <<content, events, pending, priorityQueue, scanQueue, inspection, active, recent,
                     deepActive, rescan, noticed, scanned, failed, dropped, writes>>,
         phase' # "on" => phase # "on"
  PROVE  RealtimeInv'
  <1>1. RealtimeTyped'
    BY DEF RealtimeInv, RealtimeTyped
  <1>2. InspectionsOK' /\ PendingOK'
    BY DEF RealtimeInv, InspectionsOK, SlotsOK, PendingOK
  <1>3. Counted'
    BY DEF RealtimeInv, Counted, CountedAs, RunningIn
  <1>4. Running' = Running
    BY DEF Running, RunningIn
  <1>5. DeepOK'
    BY DEF RealtimeInv, DeepOK, Deep, Running, RunningIn
  <1>6. \A f \in Watched : Settles(f)' <=> Settles(f)
    BY DEF Settles
  <1>7. PastOK' /\ SeenOK'
    BY <1>6 DEF RealtimeInv, PastOK, SeenOK, InUse
  <1>8. ASSUME NEW f \in Watched PROVE Accounted(f)'
    <2>1. \A t \in Slots : Ahead(t, f) => Ahead(t, f)'
      BY <1>4 DEF Ahead
    <2>2. Queued' = Queued
      BY DEF Queued
    <2> QED BY <1>6, <2>1, <2>2 DEF RealtimeInv, Accounted
  <1> QED BY <1>1, <1>2, <1>3, <1>5, <1>7, <1>8 DEF RealtimeInv

LEMMA DebouncedKeeps ==
  ASSUME NEW f \in Watched, RealtimeInv, Debounced(f)
  PROVE  RealtimeInv'
  <1>1. /\ \E i \in 1..Len(pending) : pending[i] = f /\ pending' = RemoveAt(pending, i)
        /\ \/ Pump(Append(priorityQueue, f), scanQueue, inspection, active)
           \/ Pump(priorityQueue, Append(scanQueue, f), inspection, active)
        /\ UNCHANGED <<content, events, phase, recent, deepActive, rescan, noticed, scanned, failed,
                       dropped, writes>>
    BY DEF Debounced, deepVars, history, engineVars, phase
  <1>2. /\ pending \in Seq(Watched) /\ IsInjective(pending) /\ Len(pending) <= Capacity
        /\ priorityQueue \in Seq(Watched) /\ scanQueue \in Seq(Watched) /\ Len(pending) \in Nat
    BY LenProperties DEF RealtimeInv, RealtimeTyped, PendingOK
  <1>3. /\ pending' \in Seq(Watched) /\ PendingOK'
        /\ \A g \in ToSet(pending) : g # f => g \in ToSet(pending')
    BY <1>1, PendingShrinks DEF RealtimeInv
  <1>4. PICK deep \in Seq(Watched), plain \in Seq(Watched) :
          /\ Pump(deep, plain, inspection, active)
          /\ f \in ToSet(deep) \union ToSet(plain)
          /\ Queued \subseteq ToSet(deep) \union ToSet(plain)
    <2>1. ASSUME NEW q \in Seq(Watched)
          PROVE  Append(q, f) \in Seq(Watched) /\ ToSet(Append(q, f)) = ToSet(q) \union {f}
      <3>1. /\ Append(q, f) \in Seq(Watched) /\ Len(q) \in Nat /\ Len(Append(q, f)) = Len(q) + 1
            /\ \A i \in 1..Len(q) : Append(q, f)[i] = q[i]
            /\ Append(q, f)[Len(q) + 1] = f /\ DOMAIN q = 1..Len(q)
        BY AppendProperties, LenProperties
      <3>2. DOMAIN Append(q, f) = 1..(Len(q) + 1)
        BY <3>1, LenProperties
      <3>3. 1..(Len(q) + 1) = 1..Len(q) \union {Len(q) + 1}
        BY <3>1
      <3> QED BY <3>1, <3>2, <3>3 DEF ToSet
    <2>2. CASE Pump(Append(priorityQueue, f), scanQueue, inspection, active)
      <3>1. /\ Append(priorityQueue, f) \in Seq(Watched)
            /\ f \in ToSet(Append(priorityQueue, f)) \union ToSet(scanQueue)
            /\ Queued \subseteq ToSet(Append(priorityQueue, f)) \union ToSet(scanQueue)
        BY <1>2, <2>1 DEF Queued
      <3> QED BY <1>2, <2>2, <3>1
    <2>3. CASE Pump(priorityQueue, Append(scanQueue, f), inspection, active)
      <3>1. /\ Append(scanQueue, f) \in Seq(Watched)
            /\ f \in ToSet(priorityQueue) \union ToSet(Append(scanQueue, f))
            /\ Queued \subseteq ToSet(priorityQueue) \union ToSet(Append(scanQueue, f))
        BY <1>2, <2>1 DEF Queued
      <3> QED BY <1>2, <2>3, <3>1
    <2> QED BY <1>1, <2>2, <2>3
  <1>5. /\ priorityQueue' \in Seq(Watched) /\ scanQueue' \in Seq(Watched)
        /\ InspectionsOK' /\ Counted'
        /\ \A t \in Slots : \/ inspection'[t] = inspection[t]
                            \/ /\ inspection[t] = NoInspection
                               /\ \E g \in Watched : inspection'[t] = Fresh(g)
        /\ \A g \in ToSet(deep) \union ToSet(plain) :
             g \in Queued' \/ \E t \in Slots : inspection'[t] = Fresh(g)
    <2>1. PICK slots, running : slots = inspection /\ running = active
      OBVIOUS
    <2>2. SlotsOK(slots) /\ CountedAs(slots, running) /\ RealtimeTyped
      BY <2>1 DEF RealtimeInv, InspectionsOK, Counted
    <2>3. Pump(deep, plain, slots, running) /\ UNCHANGED phase
      BY <1>1, <1>4, <2>1
    <2>4. /\ priorityQueue' \in Seq(Watched) /\ scanQueue' \in Seq(Watched)
          /\ InspectionsOK' /\ Counted'
          /\ \A t \in Slots : \/ inspection'[t] = slots[t]
                              \/ /\ slots[t] = NoInspection
                                 /\ \E g \in Watched : inspection'[t] = Fresh(g)
          /\ \A g \in ToSet(deep) \union ToSet(plain) :
               g \in Queued' \/ \E t \in Slots : inspection'[t] = Fresh(g)
      BY <2>2, <2>3, PumpKeeps
    <2> QED BY <2>1, <2>4
  <1>6. RealtimeTyped'
    BY <1>1, <1>3, <1>5 DEF RealtimeInv, RealtimeTyped
  <1>7. \A g \in Watched : Settles(g)' <=> Settles(g)
    BY <1>1 DEF Settles
  <1>8. PastOK'
    BY <1>1, <1>7 DEF RealtimeInv, PastOK
  <1>9. /\ NoInspection.step = "idle" /\ content \in [Watched -> Nat] /\ writes \in Nat
        /\ \A g \in Watched : /\ Fresh(g).step = "stat" /\ Fresh(g).file = g /\ Fresh(g).seen = 0
                              /\ Fresh(g).begun = content[g]
    BY FreshFields DEF RealtimeInv, RealtimeTyped, NoInspection
  <1>10. DeepOK'
    <2>1. \A t \in Deep' : t \in Deep /\ inspection'[t] = inspection[t]
      <3> SUFFICES ASSUME NEW t \in Slots, inspection'[t].step \in {"scan", "handle"},
                          inspection'[t].file \in Downloads
                   PROVE  t \in Deep /\ inspection'[t] = inspection[t]
        BY DEF Deep, Running, RunningIn
      <3>1. inspection'[t] = inspection[t]
        BY <1>5, <1>9
      <3> QED BY <3>1 DEF Deep, Running, RunningIn
    <2> QED BY <1>1, <2>1 DEF RealtimeInv, DeepOK
  <1>11. SeenOK'
    <2> SUFFICES ASSUME NEW t \in Slots, NEW g \in Watched, inspection'[t].step # "idle",
                        inspection'[t].file = g
                 PROVE  /\ inspection'[t].seen <= writes
                        /\ content[g] # 0 => inspection'[t].seen <= content[g]
                        /\ /\ inspection'[t].step = "handle" /\ content[g] # 0
                           /\ inspection'[t].seen = content[g]
                           => Settles(g)'
      BY <1>1 DEF SeenOK, InUse
    <2>1. CASE inspection'[t] = inspection[t]
      BY <1>7, <2>1 DEF RealtimeInv, SeenOK, InUse
    <2>2. CASE \E h \in Watched : inspection'[t] = Fresh(h)
      <3>1. inspection'[t].seen = 0 /\ inspection'[t].step = "stat" /\ content[g] \in Nat
        BY <1>9, <2>2
      <3> QED BY <1>9, <3>1
    <2> QED BY <1>5, <2>1, <2>2
  <1>12. ASSUME NEW g \in Watched PROVE Accounted(g)'
    <2> SUFFICES ASSUME content[g] # 0, noticed[g] = content[g]
                 PROVE  \/ Settles(g)' \/ g \in dropped'
                        \/ g \in ToSet(pending') \/ g \in Queued' \/ g \in rescan'
                        \/ \E t \in Slots : Ahead(t, g)'
      BY <1>1 DEF Accounted
    <2>1. \/ Settles(g) \/ g \in dropped
          \/ g \in ToSet(pending) \/ g \in Queued \/ g \in rescan
          \/ \E t \in Slots : Ahead(t, g)
      BY DEF RealtimeInv, Accounted
    <2>2. \A t \in Slots : inspection'[t] = Fresh(g) => Ahead(t, g)'
      BY <1>1, <1>9 DEF Ahead, Running, RunningIn
    <2>3. CASE g \in ToSet(deep) \union ToSet(plain)
      BY <1>5, <2>2, <2>3
    <2>4. CASE g \in ToSet(pending)
      BY <1>3, <1>4, <2>3, <2>4
    <2>5. CASE g \in Queued
      BY <1>4, <2>3, <2>5
    <2>6. CASE Settles(g) \/ g \in dropped \/ g \in rescan
      BY <1>1, <1>7, <2>6
    <2>7. ASSUME NEW t \in Slots, Ahead(t, g) PROVE Ahead(t, g)'
      <3>1. inspection[t].step # "idle"
        BY <2>7 DEF Ahead, Running, RunningIn
      <3>2. inspection'[t] = inspection[t]
        BY <1>5, <1>9, <3>1
      <3> QED BY <1>1, <2>7, <3>2 DEF Ahead, Running, RunningIn
    <2> QED BY <2>1, <2>4, <2>5, <2>6, <2>7
  <1> QED BY <1>3, <1>5, <1>6, <1>8, <1>10, <1>11, <1>12 DEF RealtimeInv

\* A stop clears everything but the inspections; of an object that does not run yet there are none.
LEMMA StopKeeps ==
  ASSUME StoppedInv, Stop, UNCHANGED <<content, writes>>
  PROVE  StoppedInv' /\ (RealtimeInv /\ phase # "on" /\ phase' # "on" => RealtimeInv')
  <1>1. /\ pending' = <<>> /\ priorityQueue' = <<>> /\ scanQueue' = <<>> /\ active' = 0
        /\ events' = [f \in Watched |-> 0] /\ recent' = [f \in Watched |-> 0]
        /\ deepActive' = {} /\ rescan' = {} /\ noticed' = [f \in Watched |-> 0] /\ dropped' = {}
        /\ scanned' = [f \in Watched |-> 0] /\ failed' = [f \in Watched |-> 0]
        /\ UNCHANGED <<content, writes, inspection>>
    BY DEF Stop
  <1>2. content \in [Watched -> Nat] /\ writes \in Nat
    BY DEF StoppedInv, RealtimeTyped
  <1>3. RealtimeTyped'
    BY <1>1, <1>2, EmptySeq DEF RealtimeTyped
  <1>4. InspectionsOK'
    BY <1>1 DEF StoppedInv, InspectionsOK, SlotsOK
  <1>5. PendingOK'
    <2>1. DOMAIN pending' = {} /\ Len(pending') = 0
      BY <1>1
    <2> QED BY <2>1, RealtimeAssumption DEF PendingOK, IsInjective
  <1>6. ASSUME RealtimeInv, phase # "on", phase' # "on" PROVE RealtimeInv'
    <2>1. RunningIn(inspection) = {}
      BY <1>6 DEF RealtimeInv, Counted, CountedAs
    <2>2. RunningIn(inspection') = {} /\ Running' = {} /\ Deep' = {}
      BY <1>1, <2>1 DEF Deep, Running, RunningIn
    <2>3. Counted'
      <3>1. Cardinality(RunningIn(inspection')) = 0
        BY <2>2, FS_EmptySet
      <3> QED BY <1>1, <2>2, <3>1, SlotsFinite DEF Counted, CountedAs, RunningIn
    <2>4. DeepOK'
      BY <2>2 DEF DeepOK
    <2>5. PastOK'
      BY <1>1, <1>2, <1>6 DEF RealtimeInv, PastOK
    <2>6. SeenOK'
      <3>1. \A s \in Slots : inspection'[s].step = "idle"
        BY <2>2 DEF RunningIn
      <3> QED BY <3>1 DEF SeenOK, InUse
    <2>7. \A f \in Watched : Accounted(f)'
      BY <1>1 DEF Accounted
    <2> QED BY <1>3, <1>4, <1>5, <2>3, <2>4, <2>5, <2>6, <2>7 DEF RealtimeInv
  <1> QED BY <1>3, <1>4, <1>5, <1>6 DEF StoppedInv

LEMMA RealtimeStarts ==
  ASSUME RealtimeInit
  PROVE  RealtimeInv
  <1>1. NoInspection \in Inspections /\ NoInspection.step = "idle"
    BY DEF NoInspection, Inspections
  <1>2. \A s \in Slots : inspection[s] = NoInspection
    BY DEF RealtimeInit
  <1>3. RealtimeTyped
    BY EmptySeq DEF RealtimeInit, RealtimeTyped
  <1>4. InspectionsOK
    BY <1>1, <1>2 DEF RealtimeInit, InspectionsOK, SlotsOK
  <1>5. RunningIn(inspection) = {}
    BY <1>1, <1>2 DEF RunningIn
  <1>6. Counted
    <2>1. Cardinality(RunningIn(inspection)) = 0
      BY <1>5, FS_EmptySet
    <2> QED BY <1>5, <2>1, SlotsFinite DEF RealtimeInit, Counted, CountedAs
  <1>7. PendingOK
    <2>1. DOMAIN pending = {} /\ Len(pending) = 0
      BY DEF RealtimeInit
    <2> QED BY <2>1, RealtimeAssumption DEF PendingOK, IsInjective
  <1>8. DeepOK
    BY <1>5 DEF DeepOK, Deep, Running
  <1>9. PastOK /\ SeenOK
    BY <1>1, <1>2 DEF RealtimeInit, PastOK, SeenOK, InUse
  <1>10. \A f \in Watched : Accounted(f)
    BY DEF RealtimeInit, Accounted
  <1> QED BY <1>3, <1>4, <1>6, <1>7, <1>8, <1>9, <1>10 DEF RealtimeInv

-----------------------------------------------------------------------------
(* What inspections of a stopped object do.                                *)

\* The pump of an object that does not run starts nothing.
LEMMA PumpStopped ==
  ASSUME NEW deep \in Seq(Watched), NEW plain \in Seq(Watched), NEW slots, NEW running,
         SlotsOK(slots), phase # "on", Pump(deep, plain, slots, running)
  PROVE  priorityQueue' \in Seq(Watched) /\ scanQueue' \in Seq(Watched) /\ InspectionsOK'
  <1>a. PICK work : work = deep \o plain
    OBVIOUS
  <1>1. work \in Seq(Watched) /\ Len(work) \in Nat
    BY <1>a, ConcatProperties
  <1>2. Startable(work, running) = 0
    BY DEF Startable
  <1>3. Startable(deep \o plain, running) \in 0..Len(deep \o plain)
    BY <1>a, <1>1, <1>2
  <1>4. priorityQueue' \in Seq(Watched) /\ scanQueue' \in Seq(Watched)
    BY <1>3, PumpQueues
  <1> DEFINE free == {s \in Slots : slots[s].step = "idle"}
  <1>5. /\ Concurrency \in Nat /\ free \in SUBSET (1..Concurrency) /\ 0 \in Nat
        /\ 0 <= Cardinality(free)
    BY SlotsFinite DEF Slots
  <1>6. \A s \in free : ~(Rank(free, s) <= 0)
    <2> HIDE DEF free
    <2>1. \A s \in free : Rank(free, s) \in 1..Cardinality(free)
      BY <1>5, Ranks
    <2>2. Cardinality(free) \in Nat
      BY <1>5, SlotsFinite DEF Slots
    <2> QED BY <2>1, <2>2
  <1>7. inspection' = [s \in Slots |-> IF s \in free /\ Rank(free, s) <= 0
                                       THEN Fresh(work[Rank(free, s)]) ELSE slots[s]]
    BY <1>a, <1>2 DEF Pump, Startable, Fresh, Rank, Below
  <1>8. inspection' = slots
    BY <1>6, <1>7 DEF SlotsOK
  <1> QED BY <1>4, <1>8 DEF InspectionsOK, SlotsOK

LEMMA EndStopped ==
  ASSUME NEW s \in Slots, StoppedInv, InUse(s), phase # "on", End(s)
  PROVE  priorityQueue' \in Seq(Watched) /\ scanQueue' \in Seq(Watched) /\ InspectionsOK'
  <1>1. PICK slots : slots = [inspection EXCEPT ![s] = NoInspection]
    OBVIOUS
  <1>2. SlotsOK(slots)
    BY <1>1, FreedSlot DEF StoppedInv
  <1>3. priorityQueue \in Seq(Watched) /\ scanQueue \in Seq(Watched)
    BY DEF StoppedInv, RealtimeTyped
  <1>4. PICK running : running = active - 1
    OBVIOUS
  <1>5. Pump(priorityQueue, scanQueue, slots, running)
    BY <1>1, <1>4 DEF End
  <1>6. PICK deep, plain : deep = priorityQueue /\ plain = scanQueue
    OBVIOUS
  <1>7. deep \in Seq(Watched) /\ plain \in Seq(Watched) /\ Pump(deep, plain, slots, running)
    BY <1>3, <1>5, <1>6
  <1> QED BY <1>2, <1>7, PumpStopped

\* An inspection of a stopped object goes on or ends; nothing is pending again.
LEMMA InspectStopped ==
  ASSUME NEW s \in Slots, StoppedInv, phase # "on", Inspect(s)
  PROVE  StoppedInv'
  <1>1. /\ InUse(s) /\ inspection \in [Slots -> Inspections]
        /\ inspection[s].file \in Watched /\ inspection[s].seen \in Nat
    <2>1. InUse(s)
      BY DEF Inspect, Lstat, Stabilize, NeverStable, ScanEnds, ScanFails, Handle, InUse
    <2> QED BY <2>1 DEF InUse, StoppedInv, InspectionsOK, SlotsOK, Inspections
  <1>2. PICK f \in Watched : f = inspection[s].file
    BY <1>1
  <1>3. /\ content \in [Watched -> Nat] /\ events \in [Watched -> Nat]
        /\ recent \in [Watched -> Nat] /\ scanned \in [Watched -> Nat]
        /\ failed \in [Watched -> Nat] /\ noticed \in [Watched -> Nat]
        /\ pending \in Seq(Watched) /\ deepActive \subseteq Downloads /\ rescan \subseteq Downloads
        /\ priorityQueue \in Seq(Watched) /\ scanQueue \in Seq(Watched)
        /\ dropped \subseteq Watched /\ writes \in Nat
    BY DEF StoppedInv, RealtimeTyped
  <1>4. ASSUME Release(s)
        PROVE  UNCHANGED <<pending, dropped>> /\ deepActive' \subseteq Downloads
               /\ rescan' \subseteq Downloads
    BY <1>3, <1>4 DEF Release
  <1>5. ASSUME Remember(s) PROVE recent' \in [Watched -> Nat]
    BY <1>1, <1>2, <1>3, <1>5 DEF Remember
  <1>6. ASSUME NEW step \in {"scan", "handle"}, GoTo(s, step)
        PROVE  InspectionsOK' /\ UNCHANGED <<priorityQueue, scanQueue>>
    <2>1. Moved(s)
      BY <1>1, <1>6, GoToMoves DEF StoppedInv
    <2>2. InspectionsOK'
      BY <1>1, <2>1, MoveKeeps DEF StoppedInv
    <2> QED BY <1>6, <2>2 DEF GoTo, queues
  <1>7. ASSUME End(s)
        PROVE  priorityQueue' \in Seq(Watched) /\ scanQueue' \in Seq(Watched) /\ InspectionsOK'
    BY <1>1, <1>7, EndStopped
  <1>8. ASSUME UNCHANGED <<pending, dropped, events, content, writes, noticed, scanned, failed,
                           recent>>,
               deepActive' \subseteq Downloads, rescan' \subseteq Downloads,
               End(s) \/ GoTo(s, "scan")
        PROVE  StoppedInv'
    <2>1. /\ priorityQueue' \in Seq(Watched) /\ scanQueue' \in Seq(Watched) /\ InspectionsOK'
      BY <1>3, <1>6, <1>7, <1>8
    <2>2. RealtimeTyped'
      BY <1>3, <1>8, <2>1 DEF RealtimeTyped
    <2>3. PendingOK'
      BY <1>8 DEF StoppedInv, PendingOK
    <2> QED BY <2>1, <2>2, <2>3 DEF StoppedInv
  <1>9. CASE Lstat(s)
    <2>1. UNCHANGED <<pending, dropped, events, content, writes, noticed, scanned, failed, recent,
                      deepActive, rescan>>
      BY <1>9 DEF Lstat, deepVars, history
    <2>2. End(s) \/ GoTo(s, "scan")
      BY <1>9 DEF Lstat
    <2> QED BY <1>3, <1>8, <2>1, <2>2
  <1>10. CASE Stabilize(s)
    <2>1. UNCHANGED <<pending, dropped, events, content, writes, noticed, scanned, failed, recent>>
      BY <1>10 DEF Stabilize, history
    <2>2. /\ End(s) \/ GoTo(s, "scan")
          /\ deepActive' \subseteq Downloads /\ rescan' \subseteq Downloads
      BY <1>3, <1>10 DEF Stabilize
    <2> QED BY <1>8, <2>1, <2>2
  <1>11. CASE NeverStable(s)
    <2>1. UNCHANGED <<pending, dropped, events, content, writes, noticed, scanned, failed, recent,
                      deepActive, rescan>>
      BY <1>11 DEF NeverStable, deepVars, history
    <2>2. End(s)
      BY <1>11 DEF NeverStable
    <2> QED BY <1>3, <1>8, <2>1, <2>2
  <1>12. CASE ScanEnds(s)
    <2>1. /\ Remember(s) /\ UNCHANGED <<content, events, noticed, failed, writes>>
          /\ scanned' = IF content[f] = inspection[s].seen
                        THEN [scanned EXCEPT ![f] = content[f]] ELSE scanned
          /\ \/ /\ inspection' = [inspection EXCEPT ![s].step = "handle"]
                /\ UNCHANGED <<priorityQueue, scanQueue, pending, dropped, deepActive, rescan>>
             \/ Release(s) /\ End(s)
      BY <1>2, <1>12 DEF ScanEnds, queues
    <2>2. scanned' \in [Watched -> Nat] /\ recent' \in [Watched -> Nat]
      BY <1>3, <1>5, <2>1
    <2>3. /\ priorityQueue' \in Seq(Watched) /\ scanQueue' \in Seq(Watched) /\ InspectionsOK'
          /\ UNCHANGED <<pending, dropped>> /\ deepActive' \subseteq Downloads
          /\ rescan' \subseteq Downloads
      <3>1. CASE Release(s) /\ End(s)
        BY <1>4, <1>7, <3>1
      <3>2. CASE /\ inspection' = [inspection EXCEPT ![s].step = "handle"]
                 /\ UNCHANGED <<priorityQueue, scanQueue, pending, dropped, deepActive, rescan>>
        <4>1. PICK a \in Inspections : a = [inspection[s] EXCEPT !.step = "handle"]
          BY <1>1 DEF Inspections
        <4>2. a.step = "handle" /\ a.file = f
          BY <1>1, <1>2, <4>1 DEF Inspections
        <4>3. inspection' = [inspection EXCEPT ![s] = a]
          BY <1>1, <3>2, <4>1
        <4>4. Moved(s)
          BY <1>1, <1>2, <4>2, <4>3 DEF Moved
        <4>5. InspectionsOK'
          BY <1>1, <4>4, MoveKeeps DEF StoppedInv
        <4> QED BY <1>3, <3>2, <4>5
      <3> QED BY <2>1, <3>1, <3>2
    <2>4. RealtimeTyped'
      BY <1>3, <2>1, <2>2, <2>3 DEF RealtimeTyped
    <2>5. PendingOK'
      BY <2>3 DEF StoppedInv, PendingOK
    <2> QED BY <2>3, <2>4, <2>5 DEF StoppedInv
  <1>13. CASE ScanFails(s)
    <2>1. /\ Remember(s) \/ UNCHANGED recent
          /\ UNCHANGED <<content, events, noticed, scanned, writes>>
          /\ failed' \in {failed, [failed EXCEPT ![f] = inspection[s].seen]}
          /\ Release(s) /\ End(s)
      BY <1>2, <1>13 DEF ScanFails
    <2>2. failed' \in [Watched -> Nat] /\ recent' \in [Watched -> Nat]
      BY <1>1, <1>3, <1>5, <2>1
    <2>3. /\ priorityQueue' \in Seq(Watched) /\ scanQueue' \in Seq(Watched) /\ InspectionsOK'
          /\ UNCHANGED <<pending, dropped>> /\ deepActive' \subseteq Downloads
          /\ rescan' \subseteq Downloads
      BY <1>4, <1>7, <2>1
    <2>4. RealtimeTyped'
      BY <1>3, <2>1, <2>2, <2>3 DEF RealtimeTyped
    <2>5. PendingOK'
      BY <2>3 DEF StoppedInv, PendingOK
    <2> QED BY <2>3, <2>4, <2>5 DEF StoppedInv
  <1>14. CASE Handle(s)
    <2>1. /\ \/ content' = [content EXCEPT ![f] = 0] /\ Changed(f)
             \/ UNCHANGED <<content, events>>
          /\ UNCHANGED <<recent, noticed, scanned, failed, writes>>
          /\ Release(s) /\ End(s)
      BY <1>2, <1>14 DEF Handle, history
    <2>2. content' \in [Watched -> Nat] /\ events' \in [Watched -> Nat]
      <3>1. ASSUME Changed(f) PROVE events' \in [Watched -> Nat]
        BY <1>3, <3>1 DEF Changed
      <3>2. ASSUME content' = [content EXCEPT ![f] = 0] PROVE content' \in [Watched -> Nat]
        BY <1>3, <3>2
      <3> QED BY <1>3, <2>1, <3>1, <3>2
    <2>3. /\ priorityQueue' \in Seq(Watched) /\ scanQueue' \in Seq(Watched) /\ InspectionsOK'
          /\ UNCHANGED <<pending, dropped>> /\ deepActive' \subseteq Downloads
          /\ rescan' \subseteq Downloads
      BY <1>4, <1>7, <2>1
    <2>4. RealtimeTyped'
      BY <1>3, <2>1, <2>2, <2>3 DEF RealtimeTyped
    <2>5. PendingOK'
      BY <2>3 DEF StoppedInv, PendingOK
    <2> QED BY <2>3, <2>4, <2>5 DEF StoppedInv
  <1> QED BY <1>9, <1>10, <1>11, <1>12, <1>13, <1>14 DEF Inspect

\* The files and the timers of a stopped object.
LEMMA FilesStopped ==
  ASSUME NEW f \in Watched, StoppedInv, phase # "on",
         Change(f) \/ Removed(f) \/ Notice(f) \/ Debounced(f)
  PROVE  StoppedInv'
  <1>1. /\ content \in [Watched -> Nat] /\ events \in [Watched -> Nat]
        /\ noticed \in [Watched -> Nat] /\ writes \in Nat /\ pending \in Seq(Watched)
        /\ priorityQueue \in Seq(Watched) /\ scanQueue \in Seq(Watched)
    BY DEF StoppedInv, RealtimeTyped
  <1>2. CASE Change(f) \/ Removed(f)
    <2>1. /\ content' \in [Watched -> Nat] /\ events' \in [Watched -> Nat] /\ writes' \in Nat
      <3>1. /\ Changed(f)
            /\ \/ writes' = writes + 1 /\ content' = [content EXCEPT ![f] = writes + 1]
               \/ writes' = writes /\ content' = [content EXCEPT ![f] = 0]
        BY <1>2 DEF Change, Removed
      <3>2. events' \in [Watched -> Nat]
        BY <1>1, <3>1 DEF Changed
      <3>3. ASSUME NEW n \in Nat, content' = [content EXCEPT ![f] = n]
            PROVE  content' \in [Watched -> Nat]
        BY <1>1, <3>3
      <3>4. writes + 1 \in Nat /\ 0 \in Nat
        BY <1>1
      <3>5. content' \in [Watched -> Nat]
        BY <3>1, <3>3, <3>4
      <3>6. writes' \in Nat
        BY <1>1, <3>1
      <3> QED BY <3>2, <3>5, <3>6
    <2>2. UNCHANGED <<pending, priorityQueue, scanQueue, inspection, recent, deepActive, rescan,
                      noticed, scanned, failed, dropped>>
      BY <1>2 DEF Change, Removed, scanState, queues, deepVars, history
    <2>3. RealtimeTyped'
      BY <2>1, <2>2 DEF StoppedInv, RealtimeTyped
    <2>4. InspectionsOK' /\ PendingOK'
      BY <2>2 DEF StoppedInv, InspectionsOK, SlotsOK, PendingOK
    <2> QED BY <2>3, <2>4 DEF StoppedInv
  <1>3. CASE Notice(f)
    <2>1. /\ events[f] > 0 /\ events' = [events EXCEPT ![f] = @ - 1]
          /\ noticed' = [noticed EXCEPT ![f] = content[f]] /\ Enqueue(f)
          /\ UNCHANGED <<content, priorityQueue, scanQueue, inspection, recent, deepActive, rescan,
                         scanned, failed, writes>>
      BY <1>3 DEF Notice, queues, deepVars
    <2>2. events' \in [Watched -> Nat] /\ noticed' \in [Watched -> Nat]
      <3>1. events[f] - 1 \in Nat
        BY <1>1, <2>1
      <3> QED BY <1>1, <2>1, <3>1
    <2>3. pending' \in Seq(Watched) /\ dropped' \subseteq Watched /\ PendingOK'
      BY <2>1, EnqueueKeeps DEF StoppedInv
    <2>4. RealtimeTyped'
      BY <2>1, <2>2, <2>3 DEF StoppedInv, RealtimeTyped
    <2>5. InspectionsOK'
      BY <2>1 DEF StoppedInv, InspectionsOK, SlotsOK
    <2> QED BY <2>3, <2>4, <2>5 DEF StoppedInv
  <1>4. CASE Debounced(f)
    <2>1. /\ \E i \in 1..Len(pending) : pending[i] = f /\ pending' = RemoveAt(pending, i)
          /\ \/ Pump(Append(priorityQueue, f), scanQueue, inspection, active)
             \/ Pump(priorityQueue, Append(scanQueue, f), inspection, active)
          /\ UNCHANGED <<content, events, recent, deepActive, rescan, noticed, scanned, failed,
                         dropped, writes>>
      BY <1>4 DEF Debounced, deepVars, history
    <2>2. pending' \in Seq(Watched) /\ PendingOK'
      BY <2>1, PendingShrinks DEF StoppedInv
    <2>3. /\ Append(priorityQueue, f) \in Seq(Watched) /\ Append(scanQueue, f) \in Seq(Watched)
      BY <1>1, AppendProperties
    <2>4. PICK deep \in Seq(Watched), plain \in Seq(Watched) : Pump(deep, plain, inspection, active)
      BY <1>1, <2>1, <2>3
    <2>5. PICK slots, running : slots = inspection /\ running = active
      OBVIOUS
    <2>6. SlotsOK(slots) /\ Pump(deep, plain, slots, running)
      BY <2>4, <2>5 DEF StoppedInv, InspectionsOK
    <2>7. priorityQueue' \in Seq(Watched) /\ scanQueue' \in Seq(Watched) /\ InspectionsOK'
      BY <2>6, PumpStopped
    <2>8. RealtimeTyped'
      BY <2>1, <2>2, <2>7 DEF StoppedInv, RealtimeTyped
    <2> QED BY <2>2, <2>7, <2>8 DEF StoppedInv
  <1> QED BY <1>2, <1>3, <1>4

-----------------------------------------------------------------------------
(* The engine.                                                             *)

\* The calls of startProtection and the objects they make.
LEMMA EngineKeeps ==
  ASSUME EngineInv, [RealtimeNext]_realtimeVars
  PROVE  EngineInv'
  <1>1. EngineTyped /\ EngineOK
    BY DEF EngineInv
  <1>2. CASE UNCHANGED engineVars
    BY <1>1, <1>2 DEF EngineInv, EngineTyped, EngineOK, engineVars, Live
  <1>3. CASE StopAndStart
    <2>1. /\ calls' = calls + 1 /\ UNCHANGED protection
          /\ overlapped' = (overlapped \/ calls > 0 \/ \E o \in Objects : life[o] = "starting")
          /\ life' = [o \in Objects |-> IF o = protection /\ life[o] = "on" THEN "off" ELSE life[o]]
      BY <1>3 DEF StopAndStart
    <2>2. EngineTyped'
      BY <1>1, <2>1 DEF EngineTyped
    <2>3. ASSUME ~overlapped' PROVE calls' <= 1 /\ \A o \in Objects : ~Live(o)'
      <3>1. ~overlapped /\ calls = 0 /\ \A o \in Objects : life[o] # "starting"
        <4>1. ~overlapped /\ ~(calls > 0) /\ \A o \in Objects : life[o] # "starting"
          BY <2>1, <2>3, Zenon
        <4>2. calls = 0
          BY <1>1, <4>1 DEF EngineTyped
        <4> QED BY <4>1, <4>2
      <3>2. \A o \in Objects : life[o] = "on" => o = protection
        BY <1>1, <3>1 DEF EngineOK, Live
      <3>3. \A o \in Objects : life'[o] \notin {"starting", "on"}
        BY <2>1, <3>1, <3>2
      <3> QED BY <2>1, <3>1, <3>3 DEF Live
    <2>4. EngineOK'
      BY <2>3 DEF EngineOK
    <2> QED BY <2>2, <2>4 DEF EngineInv
  <1>4. CASE Create
    <2>1. /\ calls > 0 /\ calls' = calls - 1 /\ UNCHANGED overlapped
          /\ \/ life[protection] = "on" /\ protection # "none" /\ UNCHANGED <<life, protection>>
             \/ \E o \in Unborn : life' = [life EXCEPT ![o] = "starting"] /\ protection' = o
      BY <1>4 DEF Create
    <2>2. EngineTyped'
      BY <1>1, <2>1 DEF EngineTyped, Unborn
    <2>3. ASSUME ~overlapped' PROVE calls' = 0 /\ \A o \in Objects : Live(o)' => o = protection'
      <3>1. calls = 1 /\ (\A o \in Objects : ~Live(o)) /\ protection \in Objects \union {"none"}
        BY <1>1, <2>1, <2>3 DEF EngineOK, EngineTyped
      <3>2. PICK o \in Unborn : life' = [life EXCEPT ![o] = "starting"] /\ protection' = o
        BY <2>1, <3>1 DEF Live
      <3>3. \A p \in Objects \ {o} : life'[p] = life[p]
        BY <1>1, <3>2 DEF EngineTyped
      <3> QED BY <2>1, <3>1, <3>2, <3>3 DEF Live
    <2>4. EngineOK'
      BY <2>3 DEF EngineOK
    <2> QED BY <2>2, <2>4 DEF EngineInv
  <1>5. CASE Started \/ StartFails \/ \E o \in Objects : OtherStarted(o)
    <2>1. /\ UNCHANGED <<protection, calls, overlapped>>
          /\ \E o \in Objects, end \in {"on", "off"} :
               life[o] = "starting" /\ life' = [life EXCEPT ![o] = end]
      BY <1>5, RealtimeAssumption DEF Started, StartFails, OtherStarted, phase
    <2>2. EngineTyped'
      BY <1>1, <2>1 DEF EngineTyped
    <2>3. \A o \in Objects : Live(o)' => Live(o)
      BY <1>1, <2>1 DEF EngineTyped, Live
    <2>4. EngineOK'
      BY <1>1, <2>1, <2>3 DEF EngineOK
    <2> QED BY <2>2, <2>4 DEF EngineInv
  <1>6. ASSUME NEW f \in Watched,
               Change(f) \/ Removed(f) \/ Notice(f) \/ Debounced(f) \/ Attach(f)
        PROVE  UNCHANGED engineVars
    BY <1>6 DEF Change, Removed, Notice, Debounced, Attach
  <1>7. ASSUME NEW s \in Slots, Inspect(s)
        PROVE  UNCHANGED engineVars
    BY <1>7 DEF Inspect, Lstat, Stabilize, NeverStable, ScanEnds, ScanFails, Handle
  <1>8. CASE UNCHANGED realtimeVars
    BY <1>2, <1>8 DEF realtimeVars
  <1> QED BY <1>2, <1>3, <1>4, <1>5, <1>6, <1>7, <1>8 DEF RealtimeNext

-----------------------------------------------------------------------------
(* The theorems of realtime protection.                                    *)

\* The steps of the files, the timers and the inspections.
LEMMA ScanSteps ==
  ASSUME ProtectionInv,
         \/ \E f \in Watched : Change(f) \/ Removed(f) \/ Notice(f) \/ Debounced(f)
         \/ \E s \in Slots : Inspect(s)
  PROVE  StoppedInv' /\ (phase' # "off" => RealtimeInv')
  <1>1. UNCHANGED phase
    BY DEF Change, Removed, Notice, Debounced, Inspect, Lstat, Stabilize, NeverStable, ScanEnds,
           ScanFails, Handle, engineVars, phase
  <1>2. CASE phase = "off"
    <2>1. StoppedInv'
      BY <1>2, InspectStopped, FilesStopped DEF ProtectionInv
    <2> QED BY <1>1, <1>2, <2>1
  <1>3. CASE phase # "off"
    <2>1. RealtimeInv
      BY <1>3 DEF ProtectionInv
    <2>2. ASSUME NEW f \in Watched, Change(f) \/ Removed(f) \/ Notice(f) \/ Debounced(f)
          PROVE  RealtimeInv'
      BY <2>1, <2>2, ChangeKeeps, RemovedKeeps, NoticeKeeps, DebouncedKeeps
    <2>3. ASSUME NEW s \in Slots, Inspect(s)
          PROVE  RealtimeInv'
      BY <2>1, <2>3, StatKeeps, StabilizeKeeps, NeverStableKeeps, ScanEndsKeeps, ScanFailsKeeps,
         HandleKeeps DEF Inspect
    <2>4. RealtimeInv'
      BY <2>2, <2>3
    <2> QED BY <2>4 DEF StoppedInv, RealtimeInv
  <1> QED BY <1>2, <1>3

LEMMA RealtimeSteps ==
  ASSUME ProtectionInv, [RealtimeNext]_realtimeVars
  PROVE  ProtectionInv'
  <1>1. EngineInv'
    BY EngineKeeps DEF ProtectionInv
  <1>2. EngineTyped /\ StoppedInv /\ (phase # "off" => RealtimeInv)
    BY DEF ProtectionInv, EngineInv
  <1>3. CASE \/ \E f \in Watched : Change(f) \/ Removed(f) \/ Notice(f) \/ Debounced(f)
             \/ \E s \in Slots : Inspect(s)
    BY <1>1, <1>3, ScanSteps DEF ProtectionInv
  <1>4. ASSUME UNCHANGED <<content, events, pending, priorityQueue, scanQueue, inspection, active,
                           recent, deepActive, rescan, noticed, scanned, failed, dropped, writes>>,
               phase = "off" => phase' = "off", phase = "on" => phase' = "on"
        PROVE  ProtectionInv'
    <2>1. RealtimeTyped'
      BY <1>2, <1>4 DEF StoppedInv, RealtimeTyped
    <2>2. StoppedInv'
      BY <1>2, <1>4, <2>1 DEF StoppedInv, InspectionsOK, SlotsOK, PendingOK
    <2>3. phase # "off" => RealtimeInv'
      BY <1>2, <1>4, OthersStay
    <2> QED BY <1>1, <1>4, <2>2, <2>3 DEF ProtectionInv
  <1>5. CASE StopAndStart /\ protection = Observed
    <2>1. Stop /\ UNCHANGED <<content, writes>>
      BY <1>5 DEF StopAndStart
    <2>2. phase' = IF phase = "on" THEN "off" ELSE phase
      BY <1>5, RealtimeAssumption DEF StopAndStart, phase
    <2>3. StoppedInv' /\ (phase' # "off" => RealtimeInv')
      BY <1>2, <2>1, <2>2, StopKeeps
    <2> QED BY <1>1, <2>3 DEF ProtectionInv
  <1>6. CASE StopAndStart /\ protection # Observed
    <2>1. UNCHANGED <<content, events, pending, priorityQueue, scanQueue, inspection, active,
                      recent, deepActive, rescan, noticed, scanned, failed, dropped, writes>>
      BY <1>6 DEF StopAndStart, scanState, queues, deepVars, history
    <2>2. phase' = phase
      BY <1>6, RealtimeAssumption DEF StopAndStart, phase
    <2> QED BY <1>4, <2>1, <2>2
  <1>7. CASE Create
    <2>1. UNCHANGED <<content, events, pending, priorityQueue, scanQueue, inspection, active,
                      recent, deepActive, rescan, noticed, scanned, failed, dropped, writes>>
      BY <1>7 DEF Create, scanState, queues, deepVars, history
    <2>2. phase' = phase \/ (phase = "none" /\ phase' = "starting")
      BY <1>2, <1>7, RealtimeAssumption DEF Create, Unborn, EngineTyped, phase
    <2> QED BY <1>4, <2>1, <2>2
  <1>8. CASE Started \/ StartFails
    <2>1. UNCHANGED <<content, events, pending, priorityQueue, scanQueue, inspection, active,
                      recent, deepActive, rescan, noticed, scanned, failed, dropped, writes>>
      BY <1>8 DEF Started, StartFails, scanState, queues, deepVars, history
    <2>2. phase = "starting"
      BY <1>8 DEF Started, StartFails
    <2> QED BY <1>4, <2>1, <2>2
  <1>9. CASE \E o \in Objects : OtherStarted(o)
    <2>1. UNCHANGED <<content, events, pending, priorityQueue, scanQueue, inspection, active,
                      recent, deepActive, rescan, noticed, scanned, failed, dropped, writes>>
      BY <1>9 DEF OtherStarted, scanState, queues, deepVars, history
    <2>2. phase' = phase
      BY <1>2, <1>9, RealtimeAssumption DEF OtherStarted, EngineTyped, phase
    <2> QED BY <1>4, <2>1, <2>2
  <1>10. CASE UNCHANGED realtimeVars \/ \E f \in Watched : Attach(f)
    <2>1. /\ UNCHANGED <<content, events, pending, priorityQueue, scanQueue, inspection, active,
                         recent, deepActive, rescan, noticed, scanned, failed, dropped, writes>>
          /\ UNCHANGED phase
      BY <1>10 DEF realtimeVars, Attach, scanState, queues, deepVars, history, engineVars, phase
    <2> QED BY <1>4, <2>1
  <1> QED BY <1>3, <1>5, <1>6, <1>7, <1>8, <1>9, <1>10 DEF RealtimeNext

LEMMA RealtimeInvariance == RealtimeSpec => []ProtectionInv
  <1>1. RealtimeInit => ProtectionInv
    <2> SUFFICES ASSUME RealtimeInit PROVE ProtectionInv
      OBVIOUS
    <2>1. RealtimeInv /\ StoppedInv
      BY RealtimeStarts DEF RealtimeInv, StoppedInv
    <2>2. calls \in Nat /\ calls <= 1
      BY DEF RealtimeInit
    <2>3. \A o \in Objects : life[o] = "none"
      BY DEF RealtimeInit
    <2>4. EngineTyped
      BY <2>2 DEF RealtimeInit, EngineTyped
    <2>5. EngineOK
      BY <2>2, <2>3 DEF EngineOK, Live
    <2>6. EngineInv
      BY <2>4, <2>5 DEF EngineInv
    <2> QED BY <2>1, <2>6 DEF ProtectionInv
  <1>2. ProtectionInv /\ [RealtimeNext]_realtimeVars => ProtectionInv'
    BY RealtimeSteps
  <1> QED BY <1>1, <1>2, PTL DEF RealtimeSpec

\* Whatever the number of objects, files, writes, restarts and scans at once, the limits of an
\* object that is starting or running hold: active counts exactly its inspections, no file is
\* pending twice, and a file is deep-scanned once at a time.  And unless calls of
\* startProtection overlapped, no object but the current one is starting or running.
THEOREM LimitsHold == RealtimeSpec => []WithinLimits
  <1>1. ProtectionInv => WithinLimits
    <2> SUFFICES ASSUME ProtectionInv PROVE WithinLimits
      OBVIOUS
    <2> DEFINE busy == {s \in Slots : InUse(s)}
               deep == {s \in busy : /\ inspection[s].step = "scan"
                                     /\ inspection[s].file \in Downloads}
               fileOf == [s \in deep |-> inspection[s].file]
               scannedFiles == {inspection[s].file : s \in deep}
    <2>0. ~overlapped => \A o \in Objects : Live(o) => o = protection
      BY DEF ProtectionInv, EngineInv, EngineOK
    <2> SUFFICES ASSUME Live(Observed)
                 PROVE  /\ active = Cardinality(busy) /\ active <= Concurrency
                        /\ IsInjective(pending) /\ Len(pending) <= Capacity
                        /\ Cardinality(scannedFiles) = Cardinality(deep)
      BY <2>0 DEF WithinLimits
    <2>a. RealtimeInv
      BY DEF ProtectionInv, Live, phase
    <2>1. busy = Running
      BY DEF Running, RunningIn, InUse
    <2>2. active = Cardinality(busy) /\ active <= Concurrency
      BY <2>a, <2>1 DEF RealtimeInv, Counted, CountedAs, Running
    <2>3. IsInjective(pending) /\ Len(pending) <= Capacity
      BY <2>a DEF RealtimeInv, PendingOK
    <2>4. IsFiniteSet(deep)
      <3>1. deep \in SUBSET Slots
        OBVIOUS
      <3> QED BY <3>1, SlotsFinite
    <2>5. deep \subseteq Deep
      BY <2>1 DEF Deep
    <2>6. \A s, t \in deep : s # t => inspection[s].file # inspection[t].file
      BY <2>a, <2>5 DEF RealtimeInv, DeepOK
    <2>7. fileOf \in Bijection(deep, scannedFiles)
      <3> HIDE DEF deep
      <3> QED BY <2>6 DEF Bijection, Injection, Surjection, IsInjective
    <2>8. Cardinality(scannedFiles) = Cardinality(deep)
      <3> HIDE DEF deep, scannedFiles, fileOf
      <3>1. ExistsBijection(deep, scannedFiles)
        BY <2>7 DEF ExistsBijection
      <3> QED BY <2>4, <3>1, FS_Bijection
    <2> QED BY <2>2, <2>3, <2>8
  <1> QED BY <1>1, RealtimeInvariance, PTL

\* Whatever the interleaving of writes, events, timers, scans, detections and restarts, the last
\* reported content of a file was scanned or will be inspected, unless the file was dropped
\* at capacity or the content was unreadable.
THEOREM NoFileForgotten == RealtimeSpec => []NothingForgotten
  <1>1. ProtectionInv => NothingForgotten
    <2> SUFFICES ASSUME ProtectionInv, NEW f \in Watched, Live(Observed), content[f] # 0,
                        noticed[f] = content[f]
                 PROVE  \/ content[f] \in {scanned[f], failed[f]} \/ f \in dropped
                        \/ f \in ToSet(pending) \union Queued \union rescan
                        \/ \E s \in Slots :
                             /\ inspection[s].file = f
                             /\ inspection[s].step = "stat" \/ inspection[s].seen = content[f]
      BY DEF NothingForgotten
    <2>a. RealtimeInv
      BY DEF ProtectionInv, Live, phase
    <2>1. \/ Settles(f) \/ f \in dropped
          \/ f \in ToSet(pending) \/ f \in Queued \/ f \in rescan
          \/ \E s \in Slots : Ahead(s, f)
      BY <2>a DEF RealtimeInv, Accounted
    <2>2. ASSUME NEW s \in Slots, Ahead(s, f)
          PROVE  /\ inspection[s].file = f
                 /\ inspection[s].step = "stat" \/ inspection[s].seen = content[f]
      BY <2>2 DEF Ahead, Running, RunningIn
    <2> QED BY <2>1, <2>2 DEF Settles
  <1> QED BY <1>1, RealtimeInvariance, PTL
=============================================================================
