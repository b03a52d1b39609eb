--------------------------- MODULE ConnectorLease ---------------------------
(***************************************************************************)
(* The lock file that decides which process of an endpoint runs the HQ     *)
(* connector: created exclusively, filled afterwards, read by contenders,  *)
(* removed by them when its owner looks dead, and removed by its owner.    *)
(*                                                                         *)
(* A file is named by the process that created it: only the newest one of  *)
(* a process can be in place.  Its text is empty or complete, as the owner *)
(* record is one small write.  Files are read and removed without errors.  *)
(***************************************************************************)
EXTENDS Naturals

CONSTANTS
  Contenders, \* processes of the endpoint: agent, dashboard, desktop shell
  Pids,       \* process numbers of the system
  Recycled,   \* the system may hand out a number again after its process
  MaxExits    \* bound on exits without a release

NoPid == "none"

ASSUME LeaseAssumption ==
  /\ NoPid \notin Pids /\ "none" \notin Contenders
  /\ Recycled \in BOOLEAN /\ MaxExits \in Nat

VARIABLES
  pid,      \* pid[a]: number of process a, NoPid when it does not run
  pc,       \* pc[a]: step of a in acquireHqConnectorLease or release
  attempt,  \* attempt[a]: 0 or 1, the attempt of the current acquisition
  lock,     \* creator of the file in place, or "none"
  text,     \* text[a]: pid in the file a created last, NoPid while it is empty
  used,     \* numbers handed out so far
  others,   \* numbers of unrelated programs
  exits,    \* exits so far
  met       \* history: two processes met in the protocol and it did not settle since

leaseVars == <<pid, pc, attempt, lock, text, used, others, exits, met>>

Steps == {"off", "waiting", "open", "opened", "exists", "stale", "holds", "release", "owned"}
Alive(n) == n \in others \/ \E a \in Contenders : pid[a] = n

Holders == {a \in Contenders : pc[a] \in {"holds", "release", "owned"}}
OneHolder == \A a, b \in Holders : a = b

\* Between the first step of an acquisition or release and its last one.
Busy(a) == pc[a] \notin {"off", "waiting", "holds"}
Overlap == \E a, b \in Contenders : a # b /\ Busy(a) /\ Busy(b)
Settled == (\A a \in Contenders : ~Busy(a)) /\ OneHolder /\ \A a \in Holders : lock = a
Meet == met' = (~Settled' /\ (met \/ Overlap'))

LeaseTypeOK ==
  /\ pid \in [Contenders -> Pids \union {NoPid}] /\ pc \in [Contenders -> Steps]
  /\ attempt \in [Contenders -> 0..1]
  /\ lock \in Contenders \union {"none"} /\ text \in [Contenders -> Pids \union {NoPid}]
  /\ used \subseteq Pids /\ others \subseteq used
  /\ exits \in 0..MaxExits /\ met \in BOOLEAN

LeaseInit ==
  /\ pid = [a \in Contenders |-> NoPid] /\ pc = [a \in Contenders |-> "off"]
  /\ attempt = [a \in Contenders |-> 0]
  /\ lock = "none" /\ text = [a \in Contenders |-> NoPid]
  /\ used = {} /\ others = {} /\ exits = 0 /\ met = FALSE

Goto(a, step) == pc' = [pc EXCEPT ![a] = step]

-----------------------------------------------------------------------------
(* Processes.                                                              *)

Free(n) == ~Alive(n) /\ (Recycled \/ n \notin used)

ProcessStarts(a, n) ==
  /\ pid[a] = NoPid /\ Free(n)
  /\ pid' = [pid EXCEPT ![a] = n] /\ used' = used \union {n}
  /\ UNCHANGED <<pc, attempt, lock, text, others, exits>> /\ Meet

\* An unrelated program gets the number of a process that exited.
OtherBoots(n) ==
  /\ Recycled /\ Free(n) /\ n \in used
  /\ others' = others \union {n}
  /\ UNCHANGED <<pid, pc, attempt, lock, text, used, exits>> /\ Meet

OtherExits(n) ==
  /\ n \in others
  /\ others' = others \ {n}
  /\ UNCHANGED <<pid, pc, attempt, lock, text, used, exits>> /\ Meet

ProcessExits(a) ==
  /\ pid[a] # NoPid /\ exits < MaxExits
  /\ pid' = [pid EXCEPT ![a] = NoPid] /\ Goto(a, "off")
  /\ exits' = exits + 1
  /\ UNCHANGED <<attempt, lock, text, used, others>> /\ Meet

-----------------------------------------------------------------------------
(* acquireHqConnectorLease.                                                *)

\* startManagement; the retry timer of a delegated process.
Begin(a) ==
  /\ Goto(a, "open") /\ attempt' = [attempt EXCEPT ![a] = 0]
  /\ UNCHANGED <<pid, lock, text, used, others, exits>> /\ Meet
Start(a) == pid[a] # NoPid /\ pc[a] = "off" /\ Begin(a)
Retry(a) == pc[a] = "waiting" /\ Begin(a)

\* open with the flag wx: exclusive creation of an empty file.
Open(a) ==
  /\ pc[a] = "open"
  /\ \/ /\ lock = "none" /\ lock' = a /\ text' = [text EXCEPT ![a] = NoPid]
        /\ Goto(a, "opened")
     \/ lock # "none" /\ Goto(a, "exists") /\ UNCHANGED <<lock, text>>
  /\ UNCHANGED <<pid, attempt, used, others, exits>> /\ Meet

\* The owner record goes into the created file, in place or not.
WriteOwner(a) ==
  /\ pc[a] = "opened"
  /\ text' = [text EXCEPT ![a] = pid[a]] /\ Goto(a, "holds")
  /\ UNCHANGED <<pid, attempt, lock, used, others, exits>> /\ Meet

\* Mutant: an owner is never taken for alive.
NobodyOwns == FALSE

\* A readable owner record that names a live process.
OwnerLives == lock # "none" /\ text[lock] # NoPid /\ Alive(text[lock])

ReadOwner(a) ==
  /\ pc[a] = "exists"
  /\ Goto(a, IF OwnerLives THEN "waiting" ELSE "stale")
  /\ UNCHANGED <<pid, attempt, lock, text, used, others, exits>> /\ Meet

\* Mutant: a file whose owner is dead is left for somebody else to remove.
KeepStale(a) ==
  /\ pc[a] = "stale"
  /\ attempt' = [attempt EXCEPT ![a] = 1]
  /\ Goto(a, IF attempt[a] = 0 THEN "open" ELSE "waiting")
  /\ UNCHANGED <<pid, lock, text, used, others, exits>> /\ Meet

\* Removes whatever file is in place by now; two attempts are all.
RemoveStale(a) ==
  /\ pc[a] = "stale"
  /\ lock' = "none" /\ attempt' = [attempt EXCEPT ![a] = 1]
  /\ Goto(a, IF attempt[a] = 0 THEN "open" ELSE "waiting")
  /\ UNCHANGED <<pid, text, used, others, exits>> /\ Meet

-----------------------------------------------------------------------------
(* The release function.                                                   *)

StopManagement(a) ==
  /\ pc[a] = "holds" /\ Goto(a, "release")
  /\ UNCHANGED <<pid, attempt, lock, text, used, others, exits>> /\ Meet

ReadOwn(a) ==
  /\ pc[a] = "release"
  /\ Goto(a, IF lock = a THEN "owned" ELSE "off")
  /\ UNCHANGED <<pid, attempt, lock, text, used, others, exits>> /\ Meet

RemoveOwn(a) ==
  /\ pc[a] = "owned"
  /\ lock' = "none" /\ Goto(a, "off")
  /\ UNCHANGED <<pid, attempt, text, used, others, exits>> /\ Meet

-----------------------------------------------------------------------------

Step(a) == Open(a) \/ WriteOwner(a) \/ ReadOwner(a) \/ RemoveStale(a) \/ ReadOwn(a) \/ RemoveOwn(a)

LeaseNext ==
  \/ \E a \in Contenders : Step(a) \/ Start(a) \/ Retry(a) \/ StopManagement(a) \/ ProcessExits(a)
  \/ \E a \in Contenders, n \in Pids : ProcessStarts(a, n)
  \/ \E n \in Pids : OtherBoots(n) \/ OtherExits(n)
LeaseSpec == LeaseInit /\ [][LeaseNext]_leaseVars

\* Calls return and the five-second timer of a delegated process fires; no
\* process has to start, stop or exit.
LeaseFairness == \A a \in Contenders : WF_leaseVars(Step(a)) /\ WF_leaseVars(Retry(a))
LeaseFairSpec == LeaseSpec /\ LeaseFairness
-----------------------------------------------------------------------------

\* The file names an exited owner whose number another program has by now.
MistakenOwner == Recycled /\ OwnerLives /\ lock \notin Holders

\* "A local connector lease prevents duplicate HQ telemetry streams"
\* (ARCHITECTURE): as long as no two acquisitions or releases overlap, at most
\* one process holds the lease, its file is in place, and whatever an exit
\* left behind is taken over by one process.  An overlap that ends with one
\* holder and its file in place is forgiven.
ExclusiveUnlessMet ==
  ~met => OneHolder /\ \A a \in Holders : lock = a /\ text[a] = pid[a]

\* "retries lease acquisition if the owner exits" (CONNECTION-RESILIENCE): a
\* delegated process does not wait for ever for a lease nobody holds, unless the number
\* of the exited owner was handed out again (processIsAlive cannot tell).
DelegatedTakesOver ==
  (\E a \in Contenders : pc[a] = "waiting") ~>
    (Holders # {} \/ MistakenOwner \/ \A a \in Contenders : pc[a] = "off")
=============================================================================
