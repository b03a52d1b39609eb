------------------------------ MODULE WriterLock ------------------------------
(***************************************************************************)
(* The lock file around every change of the quarantine index               *)
(* (withIndexLock) and of the audit log (withAuditLock): created           *)
(* exclusively and filled afterwards, removed by its owner, and removed by *)
(* a waiter once it is a minute old.  Both functions are one algorithm.    *)
(*                                                                         *)
(* A client is one call of the function, in any process.  A file is named  *)
(* by the client that created it.  Timing: the calls of a client that runs *)
(* follow each other within the minute that makes a file old.              *)
(***************************************************************************)
EXTENDS Naturals

CONSTANTS
  Clients,      \* calls of withIndexLock or withAuditLock
  MaxAttempts,  \* attempts before the timeout (200 in the code)
  MaxCrashes    \* bound on exits inside a call

ASSUME WriterLockAssumption ==
  "none" \notin Clients /\ MaxAttempts \in Nat \ {0} /\ MaxCrashes \in Nat

VARIABLES
  pc,       \* pc[c]: step of client c
  attempt,  \* attempt[c]: attempts that failed so far
  lock,     \* creator of the file in place, or "none"
  filled,   \* clients whose file holds their nonce
  old,      \* the file in place is more than a minute old
  crashes,  \* exits so far
  raced     \* history: two waiters found the same file old

vars == <<pc, attempt, lock, filled, old, crashes, raced>>

Steps == {"idle", "open", "opened", "exists", "stale", "inside", "leaving", "remove", "dead"}

\* Clients that created a file and did not remove it yet.
Owners == {c \in Clients : pc[c] \in {"opened", "inside", "leaving", "remove"}}
Inside == {c \in Clients : pc[c] = "inside"}
Raced == \E c, d \in Clients : c # d /\ pc[c] = "stale" /\ pc[d] = "stale"

\* Every variable stays within its type.
TypeOK ==
  /\ pc \in [Clients -> Steps] /\ attempt \in [Clients -> 0 .. (MaxAttempts - 1)]
  /\ lock \in Clients \union {"none"} /\ filled \subseteq Clients
  /\ old \in BOOLEAN /\ crashes \in 0..MaxCrashes /\ raced \in BOOLEAN

Init ==
  /\ pc = [c \in Clients |-> "idle"] /\ attempt = [c \in Clients |-> 0]
  /\ lock = "none" /\ filled = {} /\ old = FALSE /\ crashes = 0 /\ raced = FALSE

Goto(c, step) == pc' = [pc EXCEPT ![c] = step] /\ raced' = (raced \/ Raced')

\* After a pause the next attempt, or the timeout.
NextAttempt(c) ==
  IF attempt[c] + 1 < MaxAttempts
  THEN Goto(c, "open") /\ attempt' = [attempt EXCEPT ![c] = @ + 1]
  ELSE Goto(c, "idle") /\ attempt' = [attempt EXCEPT ![c] = 0]

-----------------------------------------------------------------------------

Begin(c) ==
  /\ pc[c] = "idle" /\ Goto(c, "open")
  /\ UNCHANGED <<attempt, lock, filled, old, crashes>>

\* open with the flag wx.
Open(c) ==
  /\ pc[c] = "open"
  /\ \/ /\ lock = "none" /\ lock' = c /\ filled' = filled \ {c} /\ old' = FALSE
        /\ Goto(c, "opened")
     \/ lock # "none" /\ Goto(c, "exists") /\ UNCHANGED <<lock, filled, old>>
  /\ UNCHANGED <<attempt, crashes>>

\* The nonce goes into the file that was opened, in place or not.
Fill(c) ==
  /\ pc[c] = "opened" /\ Goto(c, "inside") /\ filled' = filled \union {c}
  /\ attempt' = [attempt EXCEPT ![c] = 0]
  /\ UNCHANGED <<lock, old, crashes>>

\* Mutant: the age of the file is not looked at.
AnyFile == lock # "none"

\* stat of a file that is there and older than a minute.
IsOld == lock # "none" /\ old

Stat(c) ==
  /\ pc[c] = "exists"
  /\ \/ IsOld /\ Goto(c, "stale") /\ UNCHANGED attempt
     \/ ~IsOld /\ NextAttempt(c)
  /\ UNCHANGED <<lock, filled, old, crashes>>

\* Removes whatever file is in place by now.
RemoveStale(c) ==
  /\ pc[c] = "stale" /\ lock' = "none" /\ old' = FALSE /\ NextAttempt(c)
  /\ UNCHANGED <<filled, crashes>>

\* The operation returns or throws.
Leave(c) ==
  /\ pc[c] = "inside" /\ Goto(c, "leaving")
  /\ UNCHANGED <<attempt, lock, filled, old, crashes>>

\* A file that is missing, unreadable or one's own is removed, another one stays.
ReadNonce(c) ==
  /\ pc[c] = "leaving"
  /\ Goto(c, IF lock \in filled \ {c} THEN "idle" ELSE "remove")
  /\ UNCHANGED <<attempt, lock, filled, old, crashes>>

RemoveOwn(c) ==
  /\ pc[c] = "remove" /\ lock' = "none" /\ old' = FALSE /\ Goto(c, "idle")
  /\ UNCHANGED <<attempt, filled, crashes>>

Crash(c) ==
  /\ pc[c] \notin {"idle", "dead"} /\ crashes < MaxCrashes /\ crashes' = crashes + 1
  /\ Goto(c, "dead")
  /\ UNCHANGED <<attempt, lock, filled, old>>

\* A minute passes; clients that run do not take that long.
Age ==
  /\ lock # "none" /\ ~old /\ lock \notin Owners /\ old' = TRUE
  /\ UNCHANGED <<pc, attempt, lock, filled, crashes, raced>>

Step(c) == Open(c) \/ Fill(c) \/ Stat(c) \/ RemoveStale(c) \/ Leave(c) \/ ReadNonce(c) \/ RemoveOwn(c)

Next == Age \/ \E c \in Clients : Begin(c) \/ Step(c) \/ Crash(c)
Spec == Init /\ [][Next]_vars

-----------------------------------------------------------------------------

\* One writer at a time, and the file of the writer is in place, unless two
\* waiters found the same file old; whatever exits happen at any step of the
\* lock (withIndexLock, withAuditLock).
ExclusiveUnlessRaced ==
  ~raced => (\A c, d \in Inside : c = d) /\ (\A c \in Inside : lock = c)

=============================================================================
