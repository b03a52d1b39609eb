---------------------------- MODULE FleetCommands ----------------------------
(***************************************************************************)
(* Remote commands between Endpointward HQ and its endpoints.              *)
(*                                                                         *)
(* HQ keeps the commands in SQLite (HqStore); every store method is one    *)
(* synchronous transaction, so it is one atomic step.  An endpoint runs at *)
(* most one HqConnector: it polls HQ for commands and runs each of them in *)
(* the background: POST "running", wait for the answer, execute, POST      *)
(* "completed", or POST "failed" after any error.                          *)
(*                                                                         *)
(* Requests may be lost, answers may be lost or late, a request its client *)
(* gave up on (15 s timeout) may still reach HQ, endpoints crash, and HQ   *)
(* authenticates a call before it awaits the body and records the result.  *)
(***************************************************************************)
EXTENDS Naturals, FiniteSets

CONSTANTS
  Devices,       \* enrolled endpoints (rows of the devices table)
  Connectors,    \* HqConnector objects
  DeviceOf,      \* the endpoint whose process owns a connector
  MaxCommands,   \* bound: commands HQ ever creates
  MaxToken,      \* bound: credentials HQ ever issues to one device
  MaxLate,       \* bound: abandoned requests still travelling, per device
  BatchLimit,    \* LIMIT of the pending-command query (20 in the code)
  DirectTypes,   \* command types administrators queue through createCommand
  EnsuredTypes   \* command types queued through ensureCommand

ASSUME FleetAssumption ==
  /\ "none" \notin Devices /\ DeviceOf \in [Connectors -> Devices]
  /\ MaxCommands \in Nat /\ MaxToken \in Nat \ {0} /\ MaxLate \in Nat
  /\ BatchLimit \in Nat \ {0}

Disconnect == "management.disconnect"
Types == DirectTypes \union EnsuredTypes

\* Commands are numbered in creation order: "ORDER BY created_at" is "<".
Commands == 1..MaxCommands

VARIABLES
  \* HQ's database
  token,      \* token[d]: generation of the accepted credential, 0 if none
  issued,     \* issued[d]: generations handed out so far
  revoked,    \* revoked[d]: "no", or who set revoked_at: "admin", "offboard"
  created,    \* number of commands created
  owner, type, status,   \* columns of the commands table
  \* the endpoints
  creds,      \* creds[d]: the credential saved on the endpoint, 0 if none
  leaving,    \* leaving[d]: the 250 ms offboarding timer is armed
  conn,       \* conn[k]: state of the connector object and its credential
  poll,       \* poll[k]: the GET /device/commands call in flight
  runner,     \* runner[k][c]: phase of beginCommand(c), "none" if not active
  \* the network
  late,       \* late[d]: abandoned requests that may still reach HQ
  \* history
  executed    \* executed[c]: times the executor ran c (2 stands for more)

hqVars == <<token, issued, revoked, created, owner, type, status>>
vars == <<token, issued, revoked, created, owner, type, status,
          creds, leaving, conn, poll, runner, late, executed>>

Pending == {"queued", "delivered"}
Open    == Pending \union {"running"}
Settled == {"completed", "failed", "rejected"}
\* What endpoints post; completeCommand would also take "rejected".
Reported == {"running", "completed", "failed"}
Statuses == {"absent", "pruned"} \union Open \union Settled

\* A runner's phase: which result it is posting, and whether HQ has already
\* authenticated that call (it then awaits the request body).
Sending    == {"accepting", "reporting", "failing"}
Authorized == {"accepting!", "reporting!", "failing!"}
Phases     == {"none", "executing"} \union Sending \union Authorized
Active(p)  == p # "none"

\* Mutant: an error is reported as a completion.
PostsErrorsAsCompleted(p) ==
  IF p \in {"accepting", "accepting!"} THEN "running" ELSE "completed"

\* The status a call of that phase carries.
Posts(p) == CASE p \in {"accepting", "accepting!"} -> "running"
              [] p \in {"reporting", "reporting!"} -> "completed"
              [] OTHER -> "failed"
AuthorizedPhase(p) == CASE p = "accepting" -> "accepting!"
                        [] p = "reporting" -> "reporting!"
                        [] OTHER -> "failing!"

NoBatch == [state |-> "idle", batch |-> {}]
Requests == [kind : {"poll"}, token : 0..MaxToken]
            \union [kind : {"result"}, token : 0..MaxToken, command : Commands,
                    status : Reported, authorized : BOOLEAN]

TypeOK ==
  /\ token \in [Devices -> 0..MaxToken]
  /\ issued \in [Devices -> 1..MaxToken]
  /\ revoked \in [Devices -> {"no", "admin", "offboard"}]
  /\ created \in 0..MaxCommands
  /\ owner \in [Commands -> Devices \union {"none"}]
  /\ type \in [Commands -> Types \union {"none"}]
  /\ status \in [Commands -> Statuses]
  /\ creds \in [Devices -> 0..MaxToken]
  /\ leaving \in [Devices -> BOOLEAN]
  /\ conn \in [Connectors -> [state : {"stopped", "running"}, token : 0..MaxToken]]
  /\ poll \in [Connectors -> [state : {"idle", "sent", "answered"}, batch : SUBSET Commands]]
  /\ runner \in [Connectors -> [Commands -> Phases]]
  /\ late \in [Devices -> SUBSET Requests]
  /\ executed \in [Commands -> 0..2]

\* Every endpoint is enrolled; nothing was queued yet.
Init ==
  /\ token = [d \in Devices |-> 1] /\ issued = [d \in Devices |-> 1]
  /\ revoked = [d \in Devices |-> "no"]
  /\ created = 0
  /\ owner = [c \in Commands |-> "none"] /\ type = [c \in Commands |-> "none"]
  /\ status = [c \in Commands |-> "absent"]
  /\ creds = [d \in Devices |-> 1] /\ leaving = [d \in Devices |-> FALSE]
  /\ conn = [k \in Connectors |-> [state |-> "stopped", token |-> 0]]
  /\ poll = [k \in Connectors |-> NoBatch]
  /\ runner = [k \in Connectors |-> [c \in Commands |-> "none"]]
  /\ late = [d \in Devices |-> {}]
  /\ executed = [c \in Commands |-> 0]

-----------------------------------------------------------------------------
(* HQ: what administrators and the update service do.                      *)

InsertCommand(d, t) ==
  /\ created < MaxCommands
  /\ created' = created + 1
  /\ owner' = [owner EXCEPT ![created + 1] = d]
  /\ type' = [type EXCEPT ![created + 1] = t]
  /\ status' = [status EXCEPT ![created + 1] = "queued"]
  /\ UNCHANGED <<token, issued, revoked, creds, leaving, conn, poll, runner,
                 late, executed>>

\* POST /api/admin/devices/:id/commands.
CreateCommand(d, t) == revoked[d] = "no" /\ InsertCommand(d, t)

\* Mutant: delivered and running commands are not looked at.
EnsureIgnoresDelivered(d, t) ==
  /\ \A c \in Commands : ~(owner[c] = d /\ type[c] = t /\ status[c] = "queued")
  /\ CreateCommand(d, t)

\* Deploy, autoDeploy and offboard go through ensureCommand, which returns an
\* open command of the type instead of queueing a second one.
EnsureCommand(d, t) ==
  /\ \A c \in Commands : ~(owner[c] = d /\ type[c] = t /\ status[c] \in Open)
  /\ CreateCommand(d, t)

\* Revocation overwrites token_hash with the digest of a discarded UUID.
RevokeDevice(d) ==
  /\ token' = [token EXCEPT ![d] = 0]
  /\ revoked' = [revoked EXCEPT ![d] = IF @ = "no" THEN "admin" ELSE @]
  /\ UNCHANGED <<issued, created, owner, type, status, creds, leaving, conn,
                 poll, runner, late, executed>>

\* Retention deletes settled commands once they are old.
PruneCommand(c) ==
  /\ status[c] \in Settled
  /\ status' = [status EXCEPT ![c] = "pruned"]
  /\ UNCHANGED <<token, issued, revoked, created, owner, type, creds, leaving,
                 conn, poll, runner, late, executed>>

-----------------------------------------------------------------------------
(* HQ: the device API.                                                     *)

\* Mutant: any non-empty credential of a known device is accepted.
AcceptsAnyCredential(d, t) == t # 0

Accepts(d, t) == revoked[d] = "no" /\ t # 0 /\ token[d] = t

\* Mutant: the query forgets redelivery.
QueuedOnlyOf(d) == {c \in Commands : owner[c] = d /\ status[c] = "queued"}

PendingOf(d) == {c \in Commands : owner[c] = d /\ status[c] \in Pending}

\* The oldest BatchLimit pending commands of the device.
Batch(d) == {c \in PendingOf(d) : Cardinality({b \in PendingOf(d) : b < c}) < BatchLimit}

MarkDelivered(d) ==
  status' = [c \in Commands |->
               IF c \in Batch(d) /\ status[c] = "queued" THEN "delivered" ELSE status[c]]

\* Mutant: accepting the disconnect already revokes.
RevokesOnAnyResult(d, c, s) ==
  /\ status' = [status EXCEPT ![c] = s]
  /\ IF type[c] = Disconnect
     THEN /\ revoked' = [revoked EXCEPT ![d] = "offboard"]
          /\ token' = [token EXCEPT ![d] = 0]
     ELSE UNCHANGED <<revoked, token>>

\* completeCommand on a row of the device: any status may follow any other;
\* a completed disconnect also revokes the device.
RecordResult(d, c, s) ==
  /\ status' = [status EXCEPT ![c] = s]
  /\ IF s = "completed" /\ type[c] = Disconnect
     THEN /\ revoked' = [revoked EXCEPT ![d] = "offboard"]
          /\ token' = [token EXCEPT ![d] = 0]
     ELSE UNCHANGED <<revoked, token>>

\* UPDATE ... WHERE id = ? AND device_id = ? finds a row.
HasRow(d, c) == owner[c] = d /\ status[c] # "pruned"

\* A denied poll (401) stops the connector; the engine then re-enrols.
HqPoll(k) ==
  /\ poll[k].state = "sent"
  /\ IF Accepts(DeviceOf[k], conn[k].token)
     THEN /\ poll' = [poll EXCEPT ![k] = [state |-> "answered", batch |-> Batch(DeviceOf[k])]]
          /\ MarkDelivered(DeviceOf[k])
          /\ UNCHANGED conn
     ELSE /\ poll' = [poll EXCEPT ![k] = NoBatch]
          /\ conn' = [conn EXCEPT ![k].state = "stopped"]
          /\ UNCHANGED status
  /\ UNCHANGED <<token, issued, revoked, created, owner, type, creds, leaving,
                 runner, late, executed>>

\* What beginCommand does when its call fails: post "failed", then give up.
AfterError(p) == IF p \in {"failing", "failing!"} THEN "none" ELSE "failing"
AfterAnswer(p) == IF p = "accepting!" THEN "executing" ELSE "none"

MoveRunner(k, c, p) == runner' = [runner EXCEPT ![k][c] = p]

\* clientSession: the credential is checked before the body is awaited.
HqAuthenticate(k, c) ==
  /\ runner[k][c] \in Sending
  /\ MoveRunner(k, c, IF Accepts(DeviceOf[k], conn[k].token)
                      THEN AuthorizedPhase(runner[k][c])
                      ELSE AfterError(runner[k][c]))
  /\ UNCHANGED <<hqVars, creds, leaving, conn, poll, late, executed>>

\* The body arrived: the result is recorded and the answer reaches the
\* endpoint, or is lost; an unknown command is answered 404.
HqRecord(k, c) ==
  /\ runner[k][c] \in Authorized
  /\ \/ /\ HasRow(DeviceOf[k], c)
        /\ RecordResult(DeviceOf[k], c, Posts(runner[k][c]))
        /\ \E p \in {AfterAnswer(runner[k][c]), AfterError(runner[k][c])} : MoveRunner(k, c, p)
     \/ /\ ~HasRow(DeviceOf[k], c)
        /\ MoveRunner(k, c, AfterError(runner[k][c]))
        /\ UNCHANGED <<status, revoked, token>>
  /\ UNCHANGED <<issued, created, owner, type, creds, leaving, conn, poll, late,
                 executed>>

\* An abandoned request still arrives; nobody waits for the answer.
HqLateRequest(d, m) ==
  /\ m \in late[d]
  /\ \/ /\ m.kind = "poll"
        /\ IF Accepts(d, m.token) THEN MarkDelivered(d) ELSE UNCHANGED status
        /\ late' = [late EXCEPT ![d] = @ \ {m}]
        /\ UNCHANGED <<revoked, token>>
     \/ /\ m.kind = "result" /\ ~m.authorized
        /\ late' = [late EXCEPT ![d] = (@ \ {m}) \union
                      (IF Accepts(d, m.token) THEN {[m EXCEPT !.authorized = TRUE]} ELSE {})]
        /\ UNCHANGED <<status, revoked, token>>
     \/ /\ m.kind = "result" /\ m.authorized
        /\ IF HasRow(d, m.command) THEN RecordResult(d, m.command, m.status)
                                   ELSE UNCHANGED <<status, revoked, token>>
        /\ late' = [late EXCEPT ![d] = @ \ {m}]
  /\ UNCHANGED <<issued, created, owner, type, creds, leaving, conn, poll,
                 runner, executed>>

-----------------------------------------------------------------------------
(* The endpoint.                                                           *)

PollRequest(k) == [kind |-> "poll", token |-> conn[k].token]
ResultRequest(k, c) ==
  [kind |-> "result", token |-> conn[k].token, command |-> c,
   status |-> Posts(runner[k][c]), authorized |-> runner[k][c] \in Authorized]

\* Abandoned requests either vanish or stay on their way to HQ.
Abandon(d, requests) ==
  \E kept \in SUBSET requests :
    /\ Cardinality(late[d] \union kept) <= MaxLate
    /\ late' = [late EXCEPT ![d] = @ \union kept]

\* HqConnector.pulse asks for commands.
SendPoll(k) ==
  /\ conn[k].state = "running" /\ poll[k].state = "idle"
  /\ poll' = [poll EXCEPT ![k].state = "sent"]
  /\ UNCHANGED <<hqVars, creds, leaving, conn, runner, late, executed>>

\* Mutant: execute without waiting for HQ to record "running".
TakeBatchUnacknowledged(k) ==
  /\ poll[k].state = "answered"
  /\ runner' = [runner EXCEPT ![k] =
                  [c \in Commands |-> IF c \in poll[k].batch /\ ~Active(@[c])
                                      THEN "executing" ELSE @[c]]]
  /\ poll' = [poll EXCEPT ![k] = NoBatch]
  /\ UNCHANGED <<hqVars, creds, leaving, conn, late, executed>>

\* The answer is used even if the connector was stopped meanwhile; a command
\* in activeCommands is skipped.
TakeBatch(k) ==
  /\ poll[k].state = "answered"
  /\ runner' = [runner EXCEPT ![k] =
                  [c \in Commands |-> IF c \in poll[k].batch /\ ~Active(@[c])
                                      THEN "accepting" ELSE @[c]]]
  /\ poll' = [poll EXCEPT ![k] = NoBatch]
  /\ UNCHANGED <<hqVars, creds, leaving, conn, late, executed>>

\* The poll times out or its answer is lost.
PollFails(k) ==
  /\ poll[k].state # "idle"
  /\ Abandon(DeviceOf[k], IF poll[k].state = "sent" THEN {PollRequest(k)} ELSE {})
  /\ poll' = [poll EXCEPT ![k] = NoBatch]
  /\ UNCHANGED <<hqVars, creds, leaving, conn, runner, executed>>

\* A result call times out.
ResultFails(k, c) ==
  /\ runner[k][c] \in Sending \union Authorized
  /\ Abandon(DeviceOf[k], {ResultRequest(k, c)})
  /\ MoveRunner(k, c, AfterError(runner[k][c]))
  /\ UNCHANGED <<hqVars, creds, leaving, conn, poll, executed>>

\* commandExecutor: management.disconnect only arms a timer and cannot fail.
Execute(k, c) ==
  /\ runner[k][c] = "executing"
  /\ executed' = [executed EXCEPT ![c] = IF @ = 2 THEN 2 ELSE @ + 1]
  /\ IF type[c] = Disconnect
     THEN /\ leaving' = [leaving EXCEPT ![DeviceOf[k]] = TRUE]
          /\ MoveRunner(k, c, "reporting")
     ELSE /\ UNCHANGED leaving
          /\ \E p \in {"reporting", "failing"} : MoveRunner(k, c, p)
  /\ UNCHANGED <<hqVars, creds, conn, poll, late>>

Owned(d) == {k \in Connectors : DeviceOf[k] = d}
StopAll(d) == conn' = [k \in Connectors |->
                IF k \in Owned(d) THEN [conn[k] EXCEPT !.state = "stopped"] ELSE conn[k]]

\* disconnectHq, 250 ms later: stop the connector, clear the credentials.
OffboardTimer(d) ==
  /\ leaving[d]
  /\ leaving' = [leaving EXCEPT ![d] = FALSE]
  /\ creds' = [creds EXCEPT ![d] = 0]
  /\ StopAll(d)
  /\ UNCHANGED <<hqVars, poll, runner, late, executed>>

\* stopManagement: running commands carry on.
StopManagement(k) ==
  /\ conn[k].state = "running"
  /\ conn' = [conn EXCEPT ![k].state = "stopped"]
  /\ UNCHANGED <<hqVars, creds, leaving, poll, runner, late, executed>>

\* A connector object nobody refers to any more stands for a new one.
Fresh(k) == /\ conn[k].state = "stopped" /\ poll[k].state = "idle"
            /\ \A c \in Commands : ~Active(runner[k][c])
NoneRunning(d) == \A k \in Owned(d) : conn[k].state = "stopped"
Activate(k, t) == conn' = [conn EXCEPT ![k] = [state |-> "running", token |-> t]]

\* startManagement with saved credentials.
StartManagement(d, k) ==
  /\ k \in Owned(d) /\ Fresh(k) /\ NoneRunning(d) /\ creds[d] # 0
  /\ Activate(k, creds[d])
  /\ UNCHANGED <<hqVars, creds, leaving, poll, runner, late, executed>>

\* A new enrolment of the installation: enrollDevice keeps the device id,
\* issues a new credential and clears revoked_at.
Enroll(d, k) ==
  /\ k \in Owned(d) /\ Fresh(k) /\ NoneRunning(d) /\ issued[d] < MaxToken
  /\ issued' = [issued EXCEPT ![d] = @ + 1]
  /\ token' = [token EXCEPT ![d] = issued[d] + 1]
  /\ revoked' = [revoked EXCEPT ![d] = "no"]
  /\ creds' = [creds EXCEPT ![d] = issued[d] + 1]
  /\ Activate(k, issued[d] + 1)
  /\ UNCHANGED <<created, owner, type, status, leaving, poll, runner, late, executed>>

\* The endpoint's process exits; only its files and sent requests survive.
InFlight(d) ==
  {PollRequest(k) : k \in {k \in Owned(d) : poll[k].state = "sent"}} \union
  UNION {{ResultRequest(k, c) : c \in {c \in Commands : runner[k][c] \in Sending \union Authorized}}
           : k \in Owned(d)}

Crash(d) ==
  /\ Abandon(d, InFlight(d))
  /\ StopAll(d)
  /\ poll' = [k \in Connectors |-> IF k \in Owned(d) THEN NoBatch ELSE poll[k]]
  /\ runner' = [k \in Connectors |->
                  IF k \in Owned(d) THEN [c \in Commands |-> "none"] ELSE runner[k]]
  /\ leaving' = [leaving EXCEPT ![d] = FALSE]
  /\ UNCHANGED <<hqVars, creds, executed>>

-----------------------------------------------------------------------------

AdminNext == \E d \in Devices :
  \/ \E t \in DirectTypes : CreateCommand(d, t)
  \/ \E t \in EnsuredTypes : EnsureCommand(d, t)
  \/ RevokeDevice(d)

HqNext ==
  \/ \E c \in Commands : PruneCommand(c)
  \/ \E k \in Connectors : HqPoll(k) \/ \E c \in Commands : HqAuthenticate(k, c) \/ HqRecord(k, c)
  \/ \E d \in Devices : \E m \in late[d] : HqLateRequest(d, m)

EndpointNext ==
  \/ \E k \in Connectors :
       \/ SendPoll(k) \/ TakeBatch(k) \/ PollFails(k) \/ StopManagement(k)
       \/ \E c \in Commands : Execute(k, c) \/ ResultFails(k, c)
  \/ \E d \in Devices : OffboardTimer(d) \/ Crash(d)
  \/ \E d \in Devices, k \in Connectors : StartManagement(d, k) \/ Enroll(d, k)

Next == AdminNext \/ HqNext \/ EndpointNext

Spec == Init /\ [][Next]_vars
-----------------------------------------------------------------------------
(* Safety.                                                                 *)

\* A command that an endpoint has started to execute is never handed out by a
\* later poll: HQ had recorded "running" before the executor ran, and no
\* result, late or not, takes it back to queued or delivered
\* (completeCommand, pendingCommands and the await in beginCommand).
ExecutedNotPending ==
  \A c \in Commands : executed[c] > 0 => status[c] \notin Pending

\* HQ shows "completed" only for a command its endpoint really executed, even
\* when calls are abandoned, duplicated by a rerun, or answered late.
CompletedWasExecuted ==
  \A c \in Commands : status[c] = "completed" => executed[c] > 0

\* An offboarding revokes a device only after that device accepted a
\* disconnect command (CHANGELOG 0.16.12).
OffboardRevokesAfterAcceptance ==
  \A d \in Devices : revoked[d] = "offboard" =>
    \E c \in Commands : owner[c] = d /\ type[c] = Disconnect /\ executed[c] > 0

\* A type that is only queued through ensureCommand (the console queues
\* management.disconnect only through /offboard) never has two commands waiting
\* for delivery on one device.
OnePendingPerEnsuredType ==
  \A b, c \in Commands :
    /\ status[b] \in Pending /\ status[c] \in Pending
    /\ owner[b] = owner[c] /\ type[b] = type[c] /\ type[b] \notin DirectTypes
    => b = c

\* A call on c that HQ authenticated and whose body it still awaits.
AuthorizedCall(c) ==
  \/ \E k \in Connectors : runner[k][c] \in Authorized
  \/ \E d \in Devices : \E m \in late[d] :
       m.kind = "result" /\ m.command = c /\ m.authorized

\* While a device is revoked its commands only change through calls that HQ
\* had authenticated before, or by retention (clientSession runs before the
\* awaited readJson, revokeDevice may come in between).
RevokedDeviceOnlyFinishesCalls ==
  [][\A c \in Commands :
       /\ owner[c] \in Devices /\ revoked[owner[c]] # "no"
       /\ status'[c] # status[c] /\ status'[c] # "pruned"
       => AuthorizedCall(c)]_vars

-----------------------------------------------------------------------------
(* Liveness.                                                               *)

\* The event loops run; calls that are retried for ever eventually succeed;
\* the task scheduler restarts an enrolled endpoint's agent.
Fairness ==
  /\ \A k \in Connectors :
       /\ SF_vars(SendPoll(k)) /\ SF_vars(HqPoll(k)) /\ SF_vars(TakeBatch(k))
       /\ \A c \in Commands :
            /\ SF_vars(HqAuthenticate(k, c)) /\ SF_vars(HqRecord(k, c))
            /\ SF_vars(HqRecord(k, c) /\ runner'[k][c] = AfterAnswer(runner[k][c]))
            /\ WF_vars(Execute(k, c))
  /\ \A d \in Devices : WF_vars(\E k \in Connectors : StartManagement(d, k))

FairSpec == Spec /\ Fairness

\* No queued command waits for ever, whatever is lost on the way, unless its
\* device is revoked or offboarded: its endpoint accepts it ("running"), or,
\* when it could not tell whether HQ recorded that, reports it "failed" and
\* does not run it (pulse, beginCommand, pendingCommands).
QueuedIsAnswered ==
  \A c \in Commands, d \in Devices :
    status[c] = "queued" /\ owner[c] = d
      ~> status[c] \notin Pending \/ creds[d] = 0 \/ token[d] # creds[d]
=============================================================================
