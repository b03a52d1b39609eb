------------------------- MODULE FleetCommandsProofs -------------------------
(* Invariants of FleetCommands for any fleet and any bounds.               *)
EXTENDS FleetCommands, TLAPS

-----------------------------------------------------------------------------
(* Types.                                                                  *)

LEMMA PhaseFacts ==
  ASSUME NEW p \in Phases
  PROVE  /\ Posts(p) \in Reported
         /\ AfterError(p) \in Phases
         /\ AfterAnswer(p) \in Phases
         /\ AuthorizedPhase(p) \in Phases
BY DEF Phases, Sending, Authorized, Posts, Reported, AfterError, AfterAnswer, AuthorizedPhase

LEMMA ZeroToken == 0 \in 0..MaxToken
BY FleetAssumption DEF FleetAssumption

LEMMA ResultTypes ==
  ASSUME TypeOK, NEW d \in Devices, NEW c \in Commands, NEW s \in Reported,
         RecordResult(d, c, s)
  PROVE  /\ status' \in [Commands -> Statuses]
         /\ revoked' \in [Devices -> {"no", "admin", "offboard"}]
         /\ token' \in [Devices -> 0..MaxToken]
<1>1. s \in Statuses
  BY DEF Reported, Statuses, Open, Settled
<1>2. status' = [status EXCEPT ![c] = s]
  BY DEF RecordResult
<1>3. status' \in [Commands -> Statuses]
  BY <1>1, <1>2 DEF TypeOK
<1>4. CASE s = "completed" /\ type[c] = Disconnect
  <2>1. revoked' = [revoked EXCEPT ![d] = "offboard"] /\ token' = [token EXCEPT ![d] = 0]
    BY <1>4 DEF RecordResult
  <2> QED
    BY <1>3, <2>1, ZeroToken DEF TypeOK
<1>5. CASE ~(s = "completed" /\ type[c] = Disconnect)
  <2>1. revoked' = revoked /\ token' = token
    BY <1>5 DEF RecordResult
  <2> QED
    BY <1>3, <2>1 DEF TypeOK
<1> QED
  BY <1>4, <1>5

LEMMA DeliveryTypes ==
  ASSUME TypeOK, NEW d \in Devices, MarkDelivered(d)
  PROVE  status' \in [Commands -> Statuses]
BY DEF TypeOK, MarkDelivered, Statuses, Open, Pending

LEMMA RequestTypes ==
  ASSUME TypeOK, NEW k \in Connectors, NEW c \in Commands
  PROVE  ResultRequest(k, c) \in Requests
<1>1. conn[k].token \in 0..MaxToken /\ runner[k][c] \in Phases
  BY DEF TypeOK
<1>2. Posts(runner[k][c]) \in Reported
  BY <1>1, PhaseFacts
<1> QED
  BY <1>1, <1>2 DEF ResultRequest, Requests

LEMMA PollTypes ==
  ASSUME TypeOK, NEW k \in Connectors
  PROVE  PollRequest(k) \in Requests
BY DEF TypeOK, PollRequest, Requests

LEMMA InFlightTypes ==
  ASSUME TypeOK, NEW d \in Devices
  PROVE  InFlight(d) \subseteq Requests
BY RequestTypes, PollTypes DEF InFlight, Owned

LEMMA AbandonTypes ==
  ASSUME TypeOK, NEW d \in Devices, NEW R \in SUBSET Requests, Abandon(d, R)
  PROVE  late' \in [Devices -> SUBSET Requests]
BY DEF TypeOK, Abandon

LEMMA RunnerTypes ==
  ASSUME TypeOK, NEW k \in Connectors, NEW c \in Commands, NEW p \in Phases,
         MoveRunner(k, c, p)
  PROVE  runner' \in [Connectors -> [Commands -> Phases]]
BY DEF TypeOK, MoveRunner

LEMMA OwnerOfConnector ==
  ASSUME NEW k \in Connectors
  PROVE  DeviceOf[k] \in Devices
BY FleetAssumption DEF FleetAssumption

LEMMA AdminTypes ==
  ASSUME TypeOK, AdminNext
  PROVE  TypeOK'
<1>1. ASSUME NEW d \in Devices, NEW t \in Types, CreateCommand(d, t)
      PROVE  TypeOK'
  <2>1. created + 1 \in Commands
    BY <1>1, FleetAssumption DEF FleetAssumption, TypeOK, CreateCommand, InsertCommand, Commands
  <2> QED
    BY <1>1, <2>1 DEF TypeOK, CreateCommand, InsertCommand, Statuses, Open, Pending, Commands
<1>2. ASSUME NEW d \in Devices, RevokeDevice(d)
      PROVE  TypeOK'
  BY <1>2, ZeroToken DEF TypeOK, RevokeDevice
<1> QED
  BY <1>1, <1>2 DEF AdminNext, EnsureCommand, Types

LEMMA HqTypes ==
  ASSUME TypeOK, HqNext
  PROVE  TypeOK'
<1>1. ASSUME NEW c \in Commands, PruneCommand(c)
      PROVE  TypeOK'
  BY <1>1 DEF TypeOK, PruneCommand, Statuses
<1>2. ASSUME NEW k \in Connectors, HqPoll(k)
      PROVE  TypeOK'
  <2>1. Batch(DeviceOf[k]) \in SUBSET Commands
    BY DEF Batch, PendingOf
  <2>2. status' \in [Commands -> Statuses]
    BY <1>2, DeliveryTypes, OwnerOfConnector DEF HqPoll, TypeOK
  <2>3. /\ poll' \in [Connectors -> [state : {"idle", "sent", "answered"}, batch : SUBSET Commands]]
        /\ conn' \in [Connectors -> [state : {"stopped", "running"}, token : 0..MaxToken]]
    <3>1. NoBatch \in [state : {"idle", "sent", "answered"}, batch : SUBSET Commands]
      BY DEF NoBatch
    <3>2. \E b \in [state : {"idle", "sent", "answered"}, batch : SUBSET Commands] :
            poll' = [poll EXCEPT ![k] = b]
      BY <1>2, <2>1, <3>1 DEF HqPoll
    <3>3. conn' = conn \/ conn' = [conn EXCEPT ![k].state = "stopped"]
      BY <1>2 DEF HqPoll
    <3>4. conn' \in [Connectors -> [state : {"stopped", "running"}, token : 0..MaxToken]]
      <4>1. conn \in [Connectors -> [state : {"stopped", "running"}, token : 0..MaxToken]]
        BY DEF TypeOK
      <4>2. CASE conn' = [conn EXCEPT ![k].state = "stopped"]
        BY <4>1, <4>2
      <4> QED
        BY <3>3, <4>1, <4>2
    <3>5. poll' \in [Connectors -> [state : {"idle", "sent", "answered"}, batch : SUBSET Commands]]
      BY <3>2 DEF TypeOK
    <3> QED
      BY <3>4, <3>5
  <2> QED
    BY <1>2, <2>2, <2>3 DEF HqPoll, TypeOK
<1>3. ASSUME NEW k \in Connectors, NEW c \in Commands, HqAuthenticate(k, c)
      PROVE  TypeOK'
  <2>1. runner' \in [Connectors -> [Commands -> Phases]]
    BY <1>3, PhaseFacts, RunnerTypes DEF HqAuthenticate, TypeOK
  <2> QED
    BY <1>3, <2>1 DEF HqAuthenticate, TypeOK, hqVars
<1>4. ASSUME NEW k \in Connectors, NEW c \in Commands, HqRecord(k, c)
      PROVE  TypeOK'
  <2>1. runner[k][c] \in Phases
    BY DEF TypeOK
  <2>2. runner' \in [Connectors -> [Commands -> Phases]]
    BY <1>4, <2>1, PhaseFacts, RunnerTypes DEF HqRecord
  <2>3. /\ status' \in [Commands -> Statuses]
        /\ revoked' \in [Devices -> {"no", "admin", "offboard"}]
        /\ token' \in [Devices -> 0..MaxToken]
    <3>1. CASE RecordResult(DeviceOf[k], c, Posts(runner[k][c]))
      BY <3>1, <2>1, PhaseFacts, ResultTypes, OwnerOfConnector
    <3>2. CASE UNCHANGED <<status, revoked, token>>
      BY <3>2 DEF TypeOK
    <3> QED
      BY <1>4, <3>1, <3>2 DEF HqRecord
  <2> QED
    BY <1>4, <2>2, <2>3 DEF HqRecord, TypeOK
<1>5. ASSUME NEW d \in Devices, NEW m \in late[d], HqLateRequest(d, m)
      PROVE  TypeOK'
  <2>1. m \in Requests /\ late[d] \subseteq Requests
    BY DEF TypeOK
  <2>2. ASSUME m.kind = "result"
        PROVE  /\ m.command \in Commands /\ m.status \in Reported
               /\ [m EXCEPT !.authorized = TRUE] \in Requests
    BY <2>1, <2>2 DEF Requests
  <2>3. late' \in [Devices -> SUBSET Requests]
    <3>1. ASSUME NEW R \in SUBSET Requests, late' = [late EXCEPT ![d] = R]
          PROVE  late' \in [Devices -> SUBSET Requests]
      BY <3>1 DEF TypeOK
    <3>2. CASE late' = [late EXCEPT ![d] = late[d] \ {m}]
      BY <3>1, <3>2, <2>1
    <3>3. CASE /\ m.kind = "result"
               /\ late' = [late EXCEPT ![d] = (late[d] \ {m}) \union
                      (IF Accepts(d, m.token) THEN {[m EXCEPT !.authorized = TRUE]} ELSE {})]
      <4>1. (late[d] \ {m}) \union
              (IF Accepts(d, m.token) THEN {[m EXCEPT !.authorized = TRUE]} ELSE {})
              \in SUBSET Requests
        BY <2>1, <2>2, <3>3
      <4> QED
        BY <3>1, <3>3, <4>1
    <3> QED
      BY <1>5, <3>2, <3>3 DEF HqLateRequest
  <2>4. /\ status' \in [Commands -> Statuses]
        /\ revoked' \in [Devices -> {"no", "admin", "offboard"}]
        /\ token' \in [Devices -> 0..MaxToken]
    <3>1. CASE m.kind = "result" /\ RecordResult(d, m.command, m.status)
      BY <3>1, <2>2, ResultTypes
    <3>2. CASE MarkDelivered(d) /\ UNCHANGED <<revoked, token>>
      BY <3>2, DeliveryTypes DEF TypeOK
    <3>3. CASE UNCHANGED <<status, revoked, token>>
      BY <3>3 DEF TypeOK
    <3> QED
      BY <1>5, <3>1, <3>2, <3>3 DEF HqLateRequest
  <2> QED
    BY <1>5, <2>3, <2>4 DEF HqLateRequest, TypeOK
<1> QED
  BY <1>1, <1>2, <1>3, <1>4, <1>5 DEF HqNext

LEMMA EndpointTypes ==
  ASSUME TypeOK, EndpointNext
  PROVE  TypeOK'
<1>1. ASSUME NEW k \in Connectors, SendPoll(k)
      PROVE  TypeOK'
  BY <1>1 DEF SendPoll, TypeOK, hqVars
<1>2. ASSUME NEW k \in Connectors, TakeBatch(k)
      PROVE  TypeOK'
  BY <1>2 DEF TakeBatch, TypeOK, hqVars, NoBatch, Phases, Sending
<1>3. ASSUME NEW k \in Connectors, PollFails(k)
      PROVE  TypeOK'
  <2>1. late' \in [Devices -> SUBSET Requests]
    BY <1>3, AbandonTypes, PollTypes, OwnerOfConnector DEF PollFails
  <2> QED
    BY <1>3, <2>1 DEF PollFails, TypeOK, hqVars, NoBatch
<1>4. ASSUME NEW k \in Connectors, StopManagement(k)
      PROVE  TypeOK'
  BY <1>4 DEF StopManagement, TypeOK, hqVars
<1>5. ASSUME NEW k \in Connectors, NEW c \in Commands, Execute(k, c)
      PROVE  TypeOK'
  <2>1. runner' \in [Connectors -> [Commands -> Phases]]
    BY <1>5, RunnerTypes DEF Execute, Phases, Sending
  <2>2. executed' \in [Commands -> 0..2]
    BY <1>5 DEF Execute, TypeOK
  <2> QED
    BY <1>5, <2>1, <2>2, OwnerOfConnector DEF Execute, TypeOK, hqVars
<1>6. ASSUME NEW k \in Connectors, NEW c \in Commands, ResultFails(k, c)
      PROVE  TypeOK'
  <2>1. runner' \in [Connectors -> [Commands -> Phases]]
    BY <1>6, PhaseFacts, RunnerTypes DEF ResultFails, TypeOK
  <2>2. late' \in [Devices -> SUBSET Requests]
    BY <1>6, AbandonTypes, RequestTypes, OwnerOfConnector DEF ResultFails
  <2> QED
    BY <1>6, <2>1, <2>2 DEF ResultFails, TypeOK, hqVars
<1>7. ASSUME NEW d \in Devices, OffboardTimer(d)
      PROVE  TypeOK'
  BY <1>7, ZeroToken DEF OffboardTimer, TypeOK, hqVars, StopAll
<1>8. ASSUME NEW d \in Devices, Crash(d)
      PROVE  TypeOK'
  <2>1. late' \in [Devices -> SUBSET Requests]
    BY <1>8, AbandonTypes, InFlightTypes DEF Crash
  <2>2. /\ conn' \in [Connectors -> [state : {"stopped", "running"}, token : 0..MaxToken]]
        /\ poll' \in [Connectors -> [state : {"idle", "sent", "answered"}, batch : SUBSET Commands]]
        /\ runner' \in [Connectors -> [Commands -> Phases]]
    BY <1>8 DEF Crash, StopAll, NoBatch, Phases, TypeOK
  <2> QED
    BY <1>8, <2>1, <2>2 DEF Crash, TypeOK, hqVars
<1>9. ASSUME NEW d \in Devices, NEW k \in Connectors, StartManagement(d, k)
      PROVE  TypeOK'
  BY <1>9 DEF StartManagement, Activate, TypeOK, hqVars
<1>10. ASSUME NEW d \in Devices, NEW k \in Connectors, Enroll(d, k)
       PROVE  TypeOK'
  <2>1. issued[d] + 1 \in 1..MaxToken /\ issued[d] + 1 \in 0..MaxToken
    BY <1>10, FleetAssumption DEF FleetAssumption, Enroll, TypeOK
  <2> QED
    BY <1>10, <2>1 DEF Enroll, Activate, TypeOK
<1> QED
  BY <1>1, <1>2, <1>3, <1>4, <1>5, <1>6, <1>7, <1>8, <1>9, <1>10 DEF EndpointNext

\* The state of the fleet stays well typed whatever is lost, late or crashed.
THEOREM TypeCorrect == Spec => []TypeOK
<1>1. Init => TypeOK
  BY FleetAssumption DEF FleetAssumption, Init, TypeOK, Statuses, Phases, NoBatch
<1>2. TypeOK /\ [Next]_vars => TypeOK'
  <2>1. TypeOK /\ Next => TypeOK'
    BY AdminTypes, HqTypes, EndpointTypes DEF Next
  <2>2. TypeOK /\ UNCHANGED vars => TypeOK'
    BY DEF TypeOK, vars
  <2> QED
    BY <2>1, <2>2
<1> QED
  BY <1>1, <1>2, PTL DEF Spec
-----------------------------------------------------------------------------
(* What HQ recorded and what endpoints did.                                *)

\* Statuses that no poll hands out and no new row has.
Recorded == Statuses \ (Pending \union {"absent"})

Executing(p) == p = "executing"
Reporting(p) == p \in {"reporting", "reporting!"}
ReportsCompleted(m) == m.kind = "result" /\ m.status = "completed"

NoRowYet == \A c \in Commands : c > created => status[c] = "absent" /\ owner[c] = "none"
ExecutedRecorded == \A c \in Commands : executed[c] > 0 => status[c] \in Recorded
RunnersWaited == \A k \in Connectors, c \in Commands :
  /\ Executing(runner[k][c]) => status[c] \in Recorded
  /\ Reporting(runner[k][c]) => executed[c] > 0
LateResultsExecuted == \A d \in Devices : \A m \in late[d] :
  ReportsCompleted(m) => executed[m.command] > 0

\* An executed command is recorded; a runner that executes or reports waited
\* for HQ's record first; only executed commands are reported as completed.
IInv ==
  /\ TypeOK /\ NoRowYet /\ ExecutedRecorded /\ RunnersWaited /\ LateResultsExecuted
  /\ CompletedWasExecuted
  /\ OffboardRevokesAfterAcceptance

\* What every step leaves intact of the columns of recorded commands, and the
\* only ways a step may start, report, complete or offboard.
RowsKept ==
  \A c \in Commands :
    /\ status[c] \in Recorded =>
         status'[c] \in Recorded /\ owner'[c] = owner[c] /\ type'[c] = type[c]
    /\ status'[c] = "completed" => status[c] = "completed" \/ executed[c] > 0
RunsKept ==
  /\ \A c \in Commands :
       /\ executed[c] > 0 => executed'[c] > 0
       /\ executed'[c] > 0 => executed[c] > 0 \/ status[c] \in Recorded
  /\ \A k \in Connectors, c \in Commands :
       /\ Executing(runner'[k][c]) => Executing(runner[k][c]) \/ status'[c] \in Recorded
       /\ Reporting(runner'[k][c]) => Reporting(runner[k][c]) \/ executed'[c] > 0
LateKept ==
  \A d \in Devices : \A m \in late'[d] :
    ReportsCompleted(m) => executed[m.command] > 0 /\ m.command \in Commands
OffboardsKept ==
  \A d \in Devices : revoked'[d] = "offboard" =>
    \/ revoked[d] = "offboard"
    \/ \E c \in Commands : owner[c] = d /\ type[c] = Disconnect /\ executed[c] > 0
Careful == NoRowYet' /\ RowsKept /\ RunsKept /\ LateKept /\ OffboardsKept

LEMMA CarefulStep ==
  ASSUME IInv, TypeOK', Careful
  PROVE  IInv'
<1>1. ExecutedRecorded'
  BY DEF IInv, Careful, RowsKept, RunsKept, ExecutedRecorded
<1>2. RunnersWaited'
  BY DEF IInv, Careful, RowsKept, RunsKept, RunnersWaited
<1>3. LateResultsExecuted'
  BY DEF Careful, LateKept, RunsKept, LateResultsExecuted
<1>4. CompletedWasExecuted'
  BY DEF IInv, Careful, RowsKept, RunsKept, CompletedWasExecuted
<1>5. OffboardRevokesAfterAcceptance'
  <2> SUFFICES ASSUME NEW d \in Devices, revoked'[d] = "offboard"
               PROVE  \E c \in Commands : owner'[c] = d /\ type'[c] = Disconnect /\ executed'[c] > 0
    BY DEF OffboardRevokesAfterAcceptance
  <2>1. PICK c \in Commands : owner[c] = d /\ type[c] = Disconnect /\ executed[c] > 0
    BY DEF IInv, Careful, OffboardsKept, OffboardRevokesAfterAcceptance
  <2>2. owner'[c] = owner[c] /\ type'[c] = type[c] /\ executed'[c] > 0
    BY <2>1 DEF IInv, Careful, ExecutedRecorded, RowsKept, RunsKept
  <2> QED
    BY <2>1, <2>2
<1> QED
  BY <1>1, <1>2, <1>3, <1>4, <1>5 DEF IInv, Careful

LEMMA LateUnchanged ==
  ASSUME IInv, late' = late
  PROVE  LateKept
BY DEF IInv, TypeOK, Requests, LateResultsExecuted, LateKept, ReportsCompleted

LEMMA LateShrinks ==
  ASSUME IInv, NEW d \in Devices, NEW R \in SUBSET late[d], late' = [late EXCEPT ![d] = R]
  PROVE  LateKept
BY DEF IInv, TypeOK, Requests, LateResultsExecuted, LateKept, ReportsCompleted

\* Only a runner that reports sends "completed", and it has executed.
LEMMA CompletedRequest ==
  ASSUME IInv, NEW k \in Connectors, NEW c \in Commands,
         Posts(runner[k][c]) = "completed"
  PROVE  executed[c] > 0
<1>1. Reporting(runner[k][c])
  BY DEF Posts, Reporting
<1> QED
  BY <1>1 DEF IInv, RunnersWaited

LEMMA AbandonedResult ==
  ASSUME IInv, NEW k \in Connectors, NEW c \in Commands,
         ReportsCompleted(ResultRequest(k, c))
  PROVE  executed[ResultRequest(k, c).command] > 0 /\ ResultRequest(k, c).command \in Commands
BY CompletedRequest DEF ResultRequest, ReportsCompleted

LEMMA AbandonedPoll ==
  ASSUME NEW k \in Connectors
  PROVE  ~ReportsCompleted(PollRequest(k))
BY DEF PollRequest, ReportsCompleted

LEMMA LateGrows ==
  ASSUME IInv, NEW d \in Devices, NEW R, Abandon(d, R),
         \A m \in R : ReportsCompleted(m) => executed[m.command] > 0 /\ m.command \in Commands
  PROVE  LateKept
<1>1. PICK kept \in SUBSET R : late' = [late EXCEPT ![d] = late[d] \union kept]
  BY DEF Abandon
<1> QED
  BY <1>1 DEF IInv, TypeOK, Requests, LateResultsExecuted, LateKept, ReportsCompleted

\* Recording a result: "completed" is only ever recorded for executed commands.
LEMMA CarefulResult ==
  ASSUME IInv, NEW d \in Devices, NEW c \in Commands, NEW s \in Reported,
         HasRow(d, c), RecordResult(d, c, s), s = "completed" => executed[c] > 0,
         UNCHANGED <<created, owner, type, executed>>
  PROVE  NoRowYet' /\ RowsKept /\ OffboardsKept
<1>1. status' = [status EXCEPT ![c] = s] /\ status \in [Commands -> Statuses]
  BY DEF RecordResult, IInv, TypeOK
<1>2. s \in Recorded
  BY DEF Reported, Recorded, Statuses, Pending, Open, Settled
<1>3. NoRowYet'
  BY <1>1, FleetAssumption DEF FleetAssumption, IInv, NoRowYet, HasRow
<1>4. RowsKept
  BY <1>1, <1>2 DEF RowsKept
<1>5. OffboardsKept
  <2>1. CASE s = "completed" /\ type[c] = Disconnect
    BY <2>1 DEF RecordResult, HasRow, OffboardsKept, IInv, TypeOK
  <2>2. CASE ~(s = "completed" /\ type[c] = Disconnect)
    BY <2>2 DEF RecordResult, OffboardsKept
  <2> QED
    BY <2>1, <2>2
<1> QED
  BY <1>3, <1>4, <1>5

\* Handing out commands changes no recorded command.
LEMMA CarefulDelivery ==
  ASSUME IInv, NEW d \in Devices, MarkDelivered(d),
         UNCHANGED <<created, owner, type, revoked>>
  PROVE  NoRowYet' /\ RowsKept /\ OffboardsKept
BY DEF MarkDelivered, IInv, TypeOK, NoRowYet, RowsKept, OffboardsKept, Recorded, Pending

LEMMA CarefulNothing ==
  ASSUME IInv, UNCHANGED <<created, owner, type, status, revoked>>
  PROVE  NoRowYet' /\ RowsKept /\ OffboardsKept
BY DEF IInv, NoRowYet, RowsKept, OffboardsKept

LEMMA RunsUnchanged ==
  ASSUME UNCHANGED <<runner, executed>>
  PROVE  RunsKept
BY DEF RunsKept

LEMMA RunnerMoved ==
  ASSUME IInv, NEW k \in Connectors, NEW c \in Commands, NEW p \in Phases, MoveRunner(k, c, p),
         executed' = executed,
         Executing(p) => status'[c] \in Recorded,
         Reporting(p) => Reporting(runner[k][c])
  PROVE  RunsKept
BY DEF RunsKept, MoveRunner, IInv, TypeOK

LEMMA CarefulAdmin ==
  ASSUME IInv, AdminNext
  PROVE  Careful
<1>1. ASSUME NEW d \in Devices, NEW t \in Types, CreateCommand(d, t)
      PROVE  Careful
  <2>1. /\ created' = created + 1 /\ created + 1 \in Commands /\ created \in Nat
        /\ status' = [status EXCEPT ![created + 1] = "queued"]
        /\ owner' = [owner EXCEPT ![created + 1] = d]
        /\ type' = [type EXCEPT ![created + 1] = t]
        /\ UNCHANGED <<revoked, runner, late, executed>>
    BY <1>1, FleetAssumption
    DEF FleetAssumption, IInv, TypeOK, CreateCommand, InsertCommand, Commands
  <2>2. status[created + 1] = "absent"
    BY <2>1 DEF IInv, NoRowYet
  <2>3. status[created + 1] \notin Recorded /\ status'[created + 1] = "queued"
    BY <2>1, <2>2 DEF Recorded, IInv, TypeOK
  <2>4. NoRowYet'
    BY <2>1 DEF NoRowYet, IInv, TypeOK, Commands
  <2>5. RowsKept
    BY <2>1, <2>3 DEF RowsKept, IInv, TypeOK
  <2>6. RunsKept /\ OffboardsKept /\ LateKept
    BY <2>1, LateUnchanged DEF RunsKept, OffboardsKept
  <2> QED
    BY <2>4, <2>5, <2>6 DEF Careful
<1>2. ASSUME NEW d \in Devices, RevokeDevice(d)
      PROVE  Careful
  <2>1. UNCHANGED <<created, owner, type, status, runner, late, executed>>
    BY <1>2 DEF RevokeDevice
  <2>2. OffboardsKept
    BY <1>2 DEF RevokeDevice, OffboardsKept, IInv, TypeOK
  <2> QED
    BY <2>1, <2>2, LateUnchanged, RunsUnchanged
    DEF Careful, NoRowYet, RowsKept, IInv
<1> QED
  BY <1>1, <1>2 DEF AdminNext, EnsureCommand, Types

LEMMA CarefulHq ==
  ASSUME IInv, HqNext
  PROVE  Careful
<1>1. ASSUME NEW c \in Commands, PruneCommand(c)
      PROVE  Careful
  <2>1. /\ status' = [status EXCEPT ![c] = "pruned"] /\ status[c] \in Settled
        /\ UNCHANGED <<created, owner, type, revoked, runner, late, executed>>
    BY <1>1 DEF PruneCommand
  <2>2. NoRowYet' /\ RowsKept /\ OffboardsKept
    BY <2>1 DEF IInv, TypeOK, NoRowYet, RowsKept, OffboardsKept, Recorded, Statuses, Settled, Pending
  <2> QED
    BY <2>1, <2>2, LateUnchanged, RunsUnchanged DEF Careful
<1>2. ASSUME NEW k \in Connectors, HqPoll(k)
      PROVE  Careful
  <2>1. UNCHANGED <<created, owner, type, revoked, runner, late, executed>>
    BY <1>2 DEF HqPoll
  <2>2. MarkDelivered(DeviceOf[k]) \/ status' = status
    BY <1>2 DEF HqPoll
  <2> QED
    BY <2>1, <2>2, CarefulDelivery, CarefulNothing, OwnerOfConnector, LateUnchanged, RunsUnchanged
    DEF Careful
<1>3. ASSUME NEW k \in Connectors, NEW c \in Commands, HqAuthenticate(k, c)
      PROVE  Careful
  <2> DEFINE p == IF Accepts(DeviceOf[k], conn[k].token)
                  THEN AuthorizedPhase(runner[k][c]) ELSE AfterError(runner[k][c])
  <2>1. /\ UNCHANGED <<created, owner, type, status, revoked, late, executed>>
        /\ MoveRunner(k, c, p) /\ runner[k][c] \in Sending /\ runner[k][c] \in Phases
    BY <1>3 DEF HqAuthenticate, hqVars, Phases
  <2>2. p \in Phases /\ ~Executing(p) /\ (Reporting(p) => Reporting(runner[k][c]))
    BY <2>1 DEF AuthorizedPhase, AfterError, Executing, Reporting, Phases, Sending, Authorized
  <2> QED
    BY <2>1, <2>2, CarefulNothing, LateUnchanged, RunnerMoved DEF Careful
<1>4. ASSUME NEW k \in Connectors, NEW c \in Commands, HqRecord(k, c)
      PROVE  Careful
  <2>1. /\ runner[k][c] \in Authorized /\ runner[k][c] \in Phases
        /\ UNCHANGED <<created, owner, type, late, executed>>
    BY <1>4 DEF HqRecord, Phases
  <2>2. /\ ~Executing(AfterError(runner[k][c])) /\ ~Reporting(AfterError(runner[k][c]))
        /\ ~Reporting(AfterAnswer(runner[k][c]))
    BY DEF AfterError, AfterAnswer, Executing, Reporting
  <2>3. CASE HasRow(DeviceOf[k], c) /\ RecordResult(DeviceOf[k], c, Posts(runner[k][c]))
    <3>1. Posts(runner[k][c]) \in Reported
      BY <2>1, PhaseFacts
    <3>2. NoRowYet' /\ RowsKept /\ OffboardsKept
      BY <2>1, <2>3, <3>1, CarefulResult, CompletedRequest, OwnerOfConnector
    <3>3. status'[c] \in Recorded
      BY <2>3, <3>1 DEF RecordResult, IInv, TypeOK, Reported, Recorded, Statuses, Pending, Open, Settled
    <3>4. PICK p \in {AfterAnswer(runner[k][c]), AfterError(runner[k][c])} : MoveRunner(k, c, p)
      BY <1>4 DEF HqRecord
    <3>5. RunsKept
      BY <2>1, <2>2, <3>3, <3>4, RunnerMoved, PhaseFacts
    <3> QED
      BY <2>1, <3>2, <3>5, LateUnchanged DEF Careful
  <2>4. CASE MoveRunner(k, c, AfterError(runner[k][c])) /\ UNCHANGED <<status, revoked, token>>
    <3>1. RunsKept
      BY <2>1, <2>2, <2>4, RunnerMoved, PhaseFacts
    <3> QED
      BY <2>1, <2>4, <3>1, CarefulNothing, LateUnchanged DEF Careful
  <2> QED
    BY <1>4, <2>3, <2>4 DEF HqRecord
<1>5. ASSUME NEW d \in Devices, NEW m \in late[d], HqLateRequest(d, m)
      PROVE  Careful
  <2>1. UNCHANGED <<created, owner, type, runner, executed>>
    BY <1>5 DEF HqLateRequest
  <2>2. m \in Requests /\ late[d] \subseteq Requests
    BY DEF IInv, TypeOK
  <2>3. CASE m.kind = "poll"
    <3>1. late' = [late EXCEPT ![d] = late[d] \ {m}] /\ revoked' = revoked
      BY <1>5, <2>3 DEF HqLateRequest
    <3>2. MarkDelivered(d) \/ status' = status
      BY <1>5, <2>3 DEF HqLateRequest
    <3> QED
      BY <2>1, <3>1, <3>2, CarefulDelivery, CarefulNothing, LateShrinks, RunsUnchanged DEF Careful
  <2>4. CASE m.kind = "result" /\ ~m.authorized
    <3> DEFINE n == [m EXCEPT !.authorized = TRUE]
    <3>1. UNCHANGED <<status, revoked>>
      BY <1>5, <2>4 DEF HqLateRequest
    <3>2. late' = [late EXCEPT ![d] = (late[d] \ {m}) \union
                                      (IF Accepts(d, m.token) THEN {n} ELSE {})]
      BY <1>5, <2>4 DEF HqLateRequest
    <3>3. /\ ReportsCompleted(n) => ReportsCompleted(m)
          /\ n.command = m.command /\ m.command \in Commands
      BY <2>2, <2>4 DEF Requests, ReportsCompleted
    <3>4. ReportsCompleted(n) => executed[n.command] > 0 /\ n.command \in Commands
      BY <3>3 DEF IInv, LateResultsExecuted
    <3>5. ASSUME NEW e \in Devices, NEW x \in late'[e]
          PROVE  x \in late[e] \/ x = n
      BY <3>2, <3>5 DEF IInv, TypeOK
    <3>6. LateKept
      BY <3>4, <3>5 DEF LateKept, IInv, TypeOK, LateResultsExecuted, ReportsCompleted, Requests
    <3> QED
      BY <2>1, <3>1, <3>6, CarefulNothing, RunsUnchanged DEF Careful
  <2>5. CASE m.kind = "result" /\ m.authorized
    <3>1. late' = [late EXCEPT ![d] = late[d] \ {m}]
      BY <1>5, <2>5 DEF HqLateRequest
    <3>2. m.command \in Commands /\ m.status \in Reported
      BY <2>2, <2>5 DEF Requests
    <3>3. m.status = "completed" => executed[m.command] > 0
      BY <2>5 DEF IInv, LateResultsExecuted, ReportsCompleted
    <3>4. \/ HasRow(d, m.command) /\ RecordResult(d, m.command, m.status)
          \/ UNCHANGED <<status, revoked>>
      BY <1>5, <2>5 DEF HqLateRequest
    <3>5. NoRowYet' /\ RowsKept /\ OffboardsKept
      BY <2>1, <3>2, <3>3, <3>4, CarefulResult, CarefulNothing
    <3> QED
      BY <2>1, <3>1, <3>5, LateShrinks, RunsUnchanged DEF Careful
  <2> QED
    BY <2>2, <2>3, <2>4, <2>5 DEF Requests
<1> QED
  BY <1>1, <1>2, <1>3, <1>4, <1>5 DEF HqNext

\* Steps of the endpoint that touch neither HQ's rows nor the late requests.
LEMMA CarefulQuiet ==
  ASSUME IInv, hqVars' = hqVars, late' = late, RunsKept
  PROVE  Careful
BY CarefulNothing, LateUnchanged DEF Careful, hqVars

LEMMA CarefulEndpoint ==
  ASSUME IInv, EndpointNext
  PROVE  Careful
<1>1. ASSUME NEW k \in Connectors, SendPoll(k) \/ StopManagement(k)
      PROVE  Careful
  BY <1>1, CarefulQuiet, RunsUnchanged DEF SendPoll, StopManagement
<1>2. ASSUME NEW k \in Connectors, TakeBatch(k)
      PROVE  Careful
  <2>1. /\ hqVars' = hqVars /\ late' = late /\ executed' = executed
        /\ runner' = [runner EXCEPT ![k] =
                        [c \in Commands |-> IF c \in poll[k].batch /\ ~Active(runner[k][c])
                                            THEN "accepting" ELSE runner[k][c]]]
    BY <1>2 DEF TakeBatch
  <2>2. RunsKept
    BY <2>1 DEF RunsKept, Executing, Reporting, IInv, TypeOK
  <2> QED
    BY <2>1, <2>2, CarefulQuiet
<1>3. ASSUME NEW k \in Connectors, PollFails(k)
      PROVE  Careful
  <2>1. LateKept
    BY <1>3, LateGrows, AbandonedPoll, OwnerOfConnector DEF PollFails
  <2> QED
    BY <1>3, <2>1, CarefulNothing, RunsUnchanged DEF PollFails, Careful, hqVars
<1>4. ASSUME NEW k \in Connectors, NEW c \in Commands, Execute(k, c)
      PROVE  Careful
  <2>1. /\ hqVars' = hqVars /\ late' = late /\ Executing(runner[k][c])
        /\ executed' = [executed EXCEPT ![c] = IF executed[c] = 2 THEN 2 ELSE executed[c] + 1]
    BY <1>4 DEF Execute, Executing
  <2>2. PICK p \in {"reporting", "failing"} : MoveRunner(k, c, p)
    BY <1>4 DEF Execute
  <2>3. \A b \in Commands : /\ executed[b] > 0 => executed'[b] > 0
                            /\ b # c => executed'[b] = executed[b]
                            /\ executed'[c] > 0
    <3>1. executed \in [Commands -> 0..2]
      BY DEF IInv, TypeOK
    <3>2. executed'[c] > 0 /\ \A b \in Commands : b # c => executed'[b] = executed[b]
      BY <2>1, <3>1
    <3> QED
      BY <3>2
  <2>4. status[c] \in Recorded
    BY <2>1 DEF IInv, RunnersWaited
  <2>5. RunsKept
    BY <2>2, <2>3, <2>4 DEF RunsKept, MoveRunner, Executing, Reporting, IInv, TypeOK
  <2> QED
    BY <2>1, <2>5, CarefulQuiet
<1>5. ASSUME NEW k \in Connectors, NEW c \in Commands, ResultFails(k, c)
      PROVE  Careful
  <2>1. runner[k][c] \in Phases
    BY DEF IInv, TypeOK
  <2>2. LateKept
    BY <1>5, LateGrows, AbandonedResult, OwnerOfConnector DEF ResultFails
  <2>3. RunsKept
    BY <1>5, <2>1, RunnerMoved, PhaseFacts DEF ResultFails, AfterError, Executing, Reporting
  <2> QED
    BY <1>5, <2>2, <2>3, CarefulNothing DEF ResultFails, Careful, hqVars
<1>6. ASSUME NEW d \in Devices, OffboardTimer(d)
      PROVE  Careful
  BY <1>6, CarefulQuiet, RunsUnchanged DEF OffboardTimer
<1>7. ASSUME NEW d \in Devices, Crash(d)
      PROVE  Careful
  <2>1. ASSUME NEW m \in InFlight(d), ReportsCompleted(m)
        PROVE  executed[m.command] > 0 /\ m.command \in Commands
    BY <2>1, AbandonedResult, AbandonedPoll DEF InFlight, Owned
  <2>2. LateKept
    BY <1>7, <2>1, LateGrows DEF Crash
  <2>3. RunsKept
    BY <1>7 DEF Crash, RunsKept, Executing, Reporting
  <2> QED
    BY <1>7, <2>2, <2>3, CarefulNothing DEF Crash, Careful, hqVars
<1>8. ASSUME NEW d \in Devices, NEW k \in Connectors, StartManagement(d, k)
      PROVE  Careful
  BY <1>8, CarefulQuiet, RunsUnchanged DEF StartManagement
<1>9. ASSUME NEW d \in Devices, NEW k \in Connectors, Enroll(d, k)
      PROVE  Careful
  <2>1. UNCHANGED <<created, owner, type, status, runner, late, executed>>
    BY <1>9 DEF Enroll
  <2>2. OffboardsKept
    BY <1>9 DEF Enroll, OffboardsKept, IInv, TypeOK
  <2> QED
    BY <2>1, <2>2, LateUnchanged, RunsUnchanged DEF Careful, NoRowYet, RowsKept, IInv
<1> QED
  BY <1>1, <1>2, <1>3, <1>4, <1>5, <1>6, <1>7, <1>8, <1>9 DEF EndpointNext

LEMMA InitIInv == Init => IInv
<1> SUFFICES ASSUME Init PROVE IInv
  OBVIOUS
<1>1. TypeOK
  BY FleetAssumption DEF FleetAssumption, Init, TypeOK, Statuses, Phases, NoBatch
<1>2. NoRowYet /\ ExecutedRecorded /\ RunnersWaited
  BY DEF Init, NoRowYet, ExecutedRecorded, RunnersWaited, Executing, Reporting
<1>3. LateResultsExecuted /\ CompletedWasExecuted /\ OffboardRevokesAfterAcceptance
  BY DEF Init, LateResultsExecuted, CompletedWasExecuted, OffboardRevokesAfterAcceptance
<1> QED
  BY <1>1, <1>2, <1>3 DEF IInv

LEMMA StepIInv == IInv /\ [Next]_vars => IInv'
<1>1. ASSUME IInv, Next
      PROVE  IInv'
  <2>1. TypeOK'
    BY <1>1, AdminTypes, HqTypes, EndpointTypes DEF Next, IInv
  <2>2. Careful
    BY <1>1, CarefulAdmin, CarefulHq, CarefulEndpoint DEF Next
  <2> QED
    BY <1>1, <2>1, <2>2, CarefulStep
<1>2. ASSUME IInv, UNCHANGED vars
      PROVE  IInv'
  BY <1>2 DEF vars, IInv, TypeOK, NoRowYet, ExecutedRecorded, RunnersWaited,
              LateResultsExecuted, CompletedWasExecuted, OffboardRevokesAfterAcceptance
<1> QED
  BY <1>1, <1>2

THEOREM Invariance == Spec => []IInv
BY InitIInv, StepIInv, PTL DEF Spec

\* A started command is never handed out again, for any fleet.
THEOREM NeverRedelivered == Spec => []ExecutedNotPending
<1>1. IInv => ExecutedNotPending
  BY DEF IInv, ExecutedRecorded, ExecutedNotPending, Recorded
<1> QED
  BY <1>1, Invariance, PTL

\* HQ never shows a completion of a command that did not run, for any fleet.
THEOREM CompletionIsReal == Spec => []CompletedWasExecuted
<1>1. IInv => CompletedWasExecuted
  BY DEF IInv
<1> QED
  BY <1>1, Invariance, PTL

\* An offboarding revokes only devices that accepted it, for any fleet.
THEOREM OffboardAccepted == Spec => []OffboardRevokesAfterAcceptance
<1>1. IInv => OffboardRevokesAfterAcceptance
  BY DEF IInv
<1> QED
  BY <1>1, Invariance, PTL

-----------------------------------------------------------------------------
(* Duplicates and revocation: which steps change which rows.               *)

\* No step makes an existing command pending: results and retention settle
\* it, and a poll only hands out what already was pending.
PendingKept ==
  /\ UNCHANGED <<owner, type>>
  /\ \A c \in Commands : status'[c] \in Pending => status[c] \in Pending

\* The condition RevokedDeviceOnlyFinishesCalls puts on one step.
RevokedRowsKept ==
  \A c \in Commands :
    /\ owner[c] \in Devices /\ revoked[owner[c]] # "no"
    /\ status'[c] # status[c] /\ status'[c] # "pruned"
    => AuthorizedCall(c)

LEMMA ResultKeepsRows ==
  ASSUME IInv, NEW d \in Devices, NEW c \in Commands, NEW s \in Reported,
         RecordResult(d, c, s), AuthorizedCall(c), UNCHANGED <<owner, type>>
  PROVE  PendingKept /\ RevokedRowsKept
<1>1. status' = [status EXCEPT ![c] = s] /\ status \in [Commands -> Statuses]
  BY DEF RecordResult, IInv, TypeOK
<1>2. s \notin Pending
  BY DEF Reported, Pending
<1> QED
  BY <1>1, <1>2 DEF PendingKept, RevokedRowsKept

LEMMA DeliveryKeepsRows ==
  ASSUME IInv, NEW d \in Devices, MarkDelivered(d), revoked[d] = "no",
         UNCHANGED <<owner, type>>
  PROVE  PendingKept /\ RevokedRowsKept
BY DEF PendingKept, RevokedRowsKept, MarkDelivered, Batch, PendingOf, Pending

LEMMA SameStatusKeepsRows ==
  ASSUME UNCHANGED <<owner, type, status>>
  PROVE  PendingKept /\ RevokedRowsKept
BY DEF PendingKept, RevokedRowsKept

LEMMA HqKeepsRows ==
  ASSUME IInv, HqNext
  PROVE  PendingKept /\ RevokedRowsKept
<1>1. ASSUME NEW c \in Commands, PruneCommand(c)
      PROVE  PendingKept /\ RevokedRowsKept
  BY <1>1 DEF PruneCommand, PendingKept, RevokedRowsKept, Pending, IInv, TypeOK
<1>2. ASSUME NEW k \in Connectors, HqPoll(k)
      PROVE  PendingKept /\ RevokedRowsKept
  <2>1. \/ MarkDelivered(DeviceOf[k]) /\ revoked[DeviceOf[k]] = "no"
        \/ UNCHANGED status
    BY <1>2 DEF HqPoll, Accepts
  <2> QED
    BY <1>2, <2>1, OwnerOfConnector, DeliveryKeepsRows, SameStatusKeepsRows DEF HqPoll
<1>3. ASSUME NEW k \in Connectors, NEW c \in Commands, HqAuthenticate(k, c)
      PROVE  PendingKept /\ RevokedRowsKept
  BY <1>3, SameStatusKeepsRows DEF HqAuthenticate, hqVars
<1>4. ASSUME NEW k \in Connectors, NEW c \in Commands, HqRecord(k, c)
      PROVE  PendingKept /\ RevokedRowsKept
  <2>1. AuthorizedCall(c) /\ UNCHANGED <<owner, type>>
    BY <1>4 DEF HqRecord, AuthorizedCall
  <2>2. runner[k][c] \in Phases
    BY DEF IInv, TypeOK
  <2>3. \/ RecordResult(DeviceOf[k], c, Posts(runner[k][c]))
        \/ UNCHANGED status
    BY <1>4 DEF HqRecord
  <2> QED
    BY <2>1, <2>2, <2>3, PhaseFacts, OwnerOfConnector, ResultKeepsRows, SameStatusKeepsRows
<1>5. ASSUME NEW d \in Devices, NEW m \in late[d], HqLateRequest(d, m)
      PROVE  PendingKept /\ RevokedRowsKept
  <2>1. UNCHANGED <<owner, type>>
    BY <1>5 DEF HqLateRequest
  <2>2. m \in Requests
    BY DEF IInv, TypeOK
  <2>3. CASE m.kind = "poll"
    <3>1. \/ MarkDelivered(d) /\ revoked[d] = "no"
          \/ UNCHANGED status
      BY <1>5, <2>3 DEF HqLateRequest, Accepts
    <3> QED
      BY <2>1, <3>1, DeliveryKeepsRows, SameStatusKeepsRows
  <2>4. CASE m.kind = "result" /\ ~m.authorized
    BY <1>5, <2>1, <2>4, SameStatusKeepsRows DEF HqLateRequest
  <2>5. CASE m.kind = "result" /\ m.authorized
    <3>1. m.command \in Commands /\ m.status \in Reported
      BY <2>2, <2>5 DEF Requests
    <3>2. AuthorizedCall(m.command)
      BY <2>5 DEF AuthorizedCall
    <3>3. RecordResult(d, m.command, m.status) \/ UNCHANGED status
      BY <1>5, <2>5 DEF HqLateRequest
    <3> QED
      BY <2>1, <3>1, <3>2, <3>3, ResultKeepsRows, SameStatusKeepsRows
  <2> QED
    BY <2>2, <2>3, <2>4, <2>5 DEF Requests
<1> QED
  BY <1>1, <1>2, <1>3, <1>4, <1>5 DEF HqNext

LEMMA EndpointKeepsRows ==
  ASSUME EndpointNext
  PROVE  PendingKept /\ RevokedRowsKept
<1>1. UNCHANGED <<owner, type, status>>
  BY DEF EndpointNext, SendPoll, TakeBatch, PollFails, StopManagement, Execute, ResultFails,
         OffboardTimer, Crash, StartManagement, Enroll, hqVars
<1> QED
  BY <1>1, SameStatusKeepsRows

\* A new command is the only step that adds a pending row, and its number had
\* no row before.
LEMMA InsertFacts ==
  ASSUME IInv, NEW d \in Devices, NEW t, InsertCommand(d, t)
  PROVE  /\ created + 1 \in Commands /\ owner[created + 1] = "none"
         /\ status' = [status EXCEPT ![created + 1] = "queued"]
         /\ owner' = [owner EXCEPT ![created + 1] = d]
         /\ type' = [type EXCEPT ![created + 1] = t]
BY FleetAssumption DEF FleetAssumption, IInv, TypeOK, NoRowYet, InsertCommand, Commands

LEMMA AdminKeepsRevoked ==
  ASSUME IInv, AdminNext
  PROVE  RevokedRowsKept
<1>1. ASSUME NEW d \in Devices, NEW t, InsertCommand(d, t)
      PROVE  RevokedRowsKept
  BY <1>1, InsertFacts, FleetAssumption
  DEF FleetAssumption, RevokedRowsKept, IInv, TypeOK
<1>2. ASSUME NEW d \in Devices, RevokeDevice(d)
      PROVE  RevokedRowsKept
  BY <1>2 DEF RevokeDevice, RevokedRowsKept
<1> QED
  BY <1>1, <1>2 DEF AdminNext, CreateCommand, EnsureCommand

LEMMA AdminKeepsOnePending ==
  ASSUME IInv, OnePendingPerEnsuredType, AdminNext
  PROVE  OnePendingPerEnsuredType'
<1>1. ASSUME NEW d \in Devices, NEW t, InsertCommand(d, t),
             \/ t \in DirectTypes
             \/ \A c \in Commands : ~(owner[c] = d /\ type[c] = t /\ status[c] \in Open)
      PROVE  OnePendingPerEnsuredType'
  <2> DEFINE n == created + 1
  <2>1. /\ n \in Commands
        /\ status' = [status EXCEPT ![n] = "queued"]
        /\ owner' = [owner EXCEPT ![n] = d]
        /\ type' = [type EXCEPT ![n] = t]
        /\ status \in [Commands -> Statuses]
        /\ owner \in [Commands -> Devices \union {"none"}]
        /\ type \in [Commands -> Types \union {"none"}]
    BY <1>1, InsertFacts DEF IInv, TypeOK
  <2> HIDE DEF n
  <2>2. /\ owner'[n] = d /\ type'[n] = t
        /\ \A c \in Commands : c # n =>
             status'[c] = status[c] /\ owner'[c] = owner[c] /\ type'[c] = type[c]
    BY <2>1
  <2>3. ASSUME NEW c \in Commands, c # n, status'[c] \in Pending,
               owner'[c] = d, type'[c] = t, t \notin DirectTypes
        PROVE  FALSE
    BY <1>1, <2>2, <2>3 DEF Open
  <2>4. ASSUME NEW b \in Commands, NEW c \in Commands,
               status'[b] \in Pending, status'[c] \in Pending,
               owner'[b] = owner'[c], type'[b] = type'[c], type'[b] \notin DirectTypes
        PROVE  b = c
    <3>1. CASE b # n /\ c # n
      BY <2>2, <2>4, <3>1 DEF OnePendingPerEnsuredType
    <3>2. CASE b = n \/ c = n
      BY <2>2, <2>3, <2>4, <3>2
    <3> QED
      BY <3>1, <3>2
  <2> QED
    BY <2>4 DEF OnePendingPerEnsuredType
<1>2. ASSUME NEW d \in Devices, RevokeDevice(d)
      PROVE  OnePendingPerEnsuredType'
  BY <1>2 DEF RevokeDevice, OnePendingPerEnsuredType
<1> QED
  BY <1>1, <1>2 DEF AdminNext, CreateCommand, EnsureCommand

\* An ensured command never waits twice on one device, for any fleet: the
\* store looks for an open one in the transaction that inserts, and nothing
\* turns a settled or running command back into a waiting one.
THEOREM NeverTwoPending == Spec => []OnePendingPerEnsuredType
<1>1. Init => OnePendingPerEnsuredType
  BY DEF Init, OnePendingPerEnsuredType, Pending
<1>2. IInv /\ OnePendingPerEnsuredType /\ [Next]_vars => OnePendingPerEnsuredType'
  <2>1. ASSUME IInv, OnePendingPerEnsuredType, Next
        PROVE  OnePendingPerEnsuredType'
    <3>1. CASE AdminNext
      BY <2>1, <3>1, AdminKeepsOnePending
    <3>2. CASE HqNext \/ EndpointNext
      <4>1. PendingKept
        BY <2>1, <3>2, HqKeepsRows, EndpointKeepsRows
      <4> QED
        BY <2>1, <4>1 DEF PendingKept, OnePendingPerEnsuredType
    <3> QED
      BY <2>1, <3>1, <3>2 DEF Next
  <2>2. ASSUME OnePendingPerEnsuredType, UNCHANGED vars
        PROVE  OnePendingPerEnsuredType'
    BY <2>2 DEF vars, OnePendingPerEnsuredType
  <2> QED
    BY <2>1, <2>2
<1> QED
  BY <1>1, <1>2, Invariance, PTL DEF Spec

\* Once a device is revoked, its commands only change through calls that HQ
\* had already authenticated, or by retention, for any fleet and any number of
\* connectors and abandoned requests.
THEOREM RevocationIsFinal == Spec => RevokedDeviceOnlyFinishesCalls
<1>1. IInv /\ [Next]_vars => [RevokedRowsKept]_vars
  BY AdminKeepsRevoked, HqKeepsRows, EndpointKeepsRows DEF Next
<1>2. [RevokedRowsKept]_vars =>
        [\A c \in Commands :
           /\ owner[c] \in Devices /\ revoked[owner[c]] # "no"
           /\ status'[c] # status[c] /\ status'[c] # "pruned"
           => AuthorizedCall(c)]_vars
  BY DEF RevokedRowsKept
<1> QED
  BY <1>1, <1>2, Invariance, PTL DEF Spec, RevokedDeviceOnlyFinishesCalls
=============================================================================
