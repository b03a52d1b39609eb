------------------------------ MODULE Management ------------------------------
(***************************************************************************)
(* The management lifecycle of one endpoint: verified enrolment with an    *)
(* HQ, the connector, re-enrolment and disconnection, run by several       *)
(* processes (the resident agent, the dashboard) that share the encrypted  *)
(* credential files, the configuration and the connector lease.            *)
(*                                                                         *)
(* Each process has an AntivirusEngine whose async procedures interleave   *)
(* at their awaits: startManagement loads the files, then takes the lease; *)
(* requestHqEnrollment posts, saves the pending request, then clears the   *)
(* old credential; a poll in flight outlives the poller that sent it.      *)
(*                                                                         *)
(* The lease is one atomic step here (detailed in ConnectorLease); a poll  *)
(* that timed out does not reach HQ later; connectors of one process with  *)
(* one credential count once; a process runs one submission and one poll   *)
(* at a time.                                                              *)
(***************************************************************************)
EXTENDS Naturals, FiniteSets

CONSTANTS
  Hqs,          \* HQ servers
  Procs,        \* processes of the endpoint
  Dashboards,   \* the processes with a user interface
  MaxRequests,  \* bound: enrolment requests per HQ
  MaxTokens,    \* bound: credentials per HQ
  MaxCrashes    \* bound: process exits

ASSUME ManagementAssumption ==
  /\ "none" \notin Hqs /\ "free" \notin Procs /\ Dashboards \subseteq Procs
  /\ MaxRequests \in Nat /\ MaxTokens \in Nat /\ MaxCrashes \in Nat

NoCred == [hq |-> "none", token |-> 0]
NoReq == [hq |-> "none", id |-> 0]
NoPending == [hq |-> "none", id |-> 0, status |-> "none"]

VARIABLES
  \* every HQ: the endpoint's enrolment request, accepted and issued credential
  row, token, issued,
  \* files: pending request, credential, management.enabled, lease owner
  pending, cred, managed, lease,
  \* processes
  up,         \* up[p]: "down", "up", or "serving" users
  enabled,    \* enabled[p]: config.management.enabled as p loaded it
  wants,      \* wants[p]: calls of startManagement p is about to make
  retry,      \* retry[p]: the five-second retry timer is armed
  starting,   \* starting[p]: files read by startManagement before the lease
  release,    \* release[p]: p still has the function that frees its lease
  conns,      \* conns[p]: credentials of running connectors
  main,       \* main[p]: credential of engine.hqConnector
  pollers,    \* pollers[p]: requests with a running poller
  current,    \* current[p]: request of engine.hqEnrollmentPoller
  poll,       \* poll[p]: the poll in flight, and whether its poller was stopped
  submit,     \* submit[p]: progress of a submission
  \* history and bound
  vouched,    \* credentials issued for the right verification code
  crashes

hqVars == <<row, token, issued>>
files == <<pending, cred, managed>>
vars == <<row, token, issued, pending, cred, managed, lease, up, enabled, wants, retry,
          starting, release, conns, main, pollers, current, poll, submit, vouched, crashes>>

Creds == [hq : Hqs, token : 1..MaxTokens]
Reqs == [hq : Hqs, id : 1..MaxRequests]
PendingStatuses == {"pending", "rejected", "verification-failed"}
Terminal(status) == status \in {"rejected", "verification-failed"}
NoStart == [cred |-> NoCred, pending |-> NoPending]
NoPoll == [state |-> "idle", req |-> NoReq, token |-> 0, proof |-> "none", stale |-> FALSE]
NoSubmit == [step |-> "idle", hq |-> "none", id |-> 0, by |-> "none"]
Pendings == [hq : Hqs, id : 1..MaxRequests, status : PendingStatuses] \union {NoPending}
Proofs == {"none", "right", "wrong"}

TypeOK ==
  /\ row \in [Hqs -> [id : 0..MaxRequests, proof : Proofs,
                      status : {"none", "pending", "approved", "rejected", "provisioned"}]]
  /\ token \in [Hqs -> 0..MaxTokens] /\ issued \in [Hqs -> 0..MaxTokens]
  /\ pending \in Pendings /\ cred \in Creds \union {NoCred} /\ managed \in BOOLEAN
  /\ lease \in Procs \union {"free"}
  /\ up \in [Procs -> {"down", "up", "serving"}] /\ enabled \in [Procs -> BOOLEAN]
  /\ wants \in [Procs -> 0..2] /\ retry \in [Procs -> BOOLEAN]
  /\ starting \in [Procs -> [cred : Creds \union {NoCred}, pending : Pendings]]
  /\ release \in [Procs -> BOOLEAN]
  /\ conns \in [Procs -> SUBSET Creds] /\ main \in [Procs -> Creds \union {NoCred}]
  /\ pollers \in [Procs -> SUBSET Reqs] /\ current \in [Procs -> Reqs \union {NoReq}]
  /\ poll \in [Procs -> [state : {"idle", "sent", "approved", "rejected", "saved"},
                         req : Reqs \union {NoReq}, token : 0..MaxTokens, proof : Proofs,
                         stale : BOOLEAN]]
  /\ submit \in [Procs -> [step : {"idle", "post", "save", "clear"}, hq : Hqs \union {"none"},
                           id : 0..MaxRequests, by : {"none", "user", "engine"}]]
  /\ vouched \subseteq Creds /\ crashes \in 0..MaxCrashes

Init ==
  /\ row = [h \in Hqs |-> [id |-> 0, status |-> "none", proof |-> "none"]]
  /\ token = [h \in Hqs |-> 0] /\ issued = [h \in Hqs |-> 0]
  /\ pending = NoPending /\ cred = NoCred /\ managed = FALSE /\ lease = "free"
  /\ up = [p \in Procs |-> "down"] /\ enabled = [p \in Procs |-> FALSE]
  /\ wants = [p \in Procs |-> 0] /\ retry = [p \in Procs |-> FALSE]
  /\ starting = [p \in Procs |-> NoStart] /\ release = [p \in Procs |-> FALSE]
  /\ conns = [p \in Procs |-> {}] /\ main = [p \in Procs |-> NoCred]
  /\ pollers = [p \in Procs |-> {}] /\ current = [p \in Procs |-> NoReq]
  /\ poll = [p \in Procs |-> NoPoll] /\ submit = [p \in Procs |-> NoSubmit]
  /\ vouched = {} /\ crashes = 0

-----------------------------------------------------------------------------
(* HQ.                                                                     *)

\* reviewEnrollmentRequest: only a pending request; a six-digit code, right
\* or wrong, goes into the proof the endpoint checks.
Review(h, status, proof) ==
  /\ row[h].status = "pending"
  /\ row' = [row EXCEPT ![h].status = status, ![h].proof = proof]
  /\ UNCHANGED <<token, issued, files, lease, up, enabled, wants, retry, starting, release,
                 conns, main, pollers, current, poll, submit, vouched, crashes>>

Revoke(h) ==
  /\ token[h] # 0
  /\ token' = [token EXCEPT ![h] = 0]
  /\ UNCHANGED <<row, issued, files, lease, up, enabled, wants, retry, starting, release,
                 conns, main, pollers, current, poll, submit, vouched, crashes>>

\* Mutant: the request counts as provisioned once its answer was sent.
AnswersApprovalOnce(p) ==
  LET r == poll[p].req  h == r.hq IN
  /\ poll[p].state = "sent"
  /\ IF row[h].id = r.id /\ row[h].status = "approved"
     THEN /\ issued[h] < MaxTokens
          /\ issued' = [issued EXCEPT ![h] = @ + 1]
          /\ token' = [token EXCEPT ![h] = issued[h] + 1]
          /\ row' = [row EXCEPT ![h].status = "provisioned"]
          /\ poll' = [poll EXCEPT ![p].state = "approved", ![p].token = issued[h] + 1,
                                  ![p].proof = row[h].proof]
     ELSE poll' = [poll EXCEPT ![p] = NoPoll] /\ UNCHANGED <<issued, token, row>>
  /\ UNCHANGED <<files, lease, up, enabled, wants, retry, starting, release, conns, main,
                 pollers, current, submit, vouched, crashes>>

\* GET /enrollment-requests/:id: an approved request is provisioned on every
\* poll, which rotates the credential; 401 after the request was replaced.
HqAnswersPoll(p) ==
  LET r == poll[p].req  h == r.hq IN
  /\ poll[p].state = "sent"
  /\ IF row[h].id = r.id /\ row[h].status = "approved"
     THEN /\ issued[h] < MaxTokens
          /\ issued' = [issued EXCEPT ![h] = @ + 1]
          /\ token' = [token EXCEPT ![h] = issued[h] + 1]
          /\ poll' = [poll EXCEPT ![p].state = "approved", ![p].token = issued[h] + 1,
                                  ![p].proof = row[h].proof]
          /\ vouched' = IF row[h].proof = "right"
                        THEN vouched \union {[hq |-> h, token |-> issued[h] + 1]} ELSE vouched
     ELSE /\ poll' = [poll EXCEPT ![p] = IF row[h].id = r.id /\ row[h].status = "rejected"
                                         THEN [@ EXCEPT !.state = "rejected"] ELSE NoPoll]
          /\ UNCHANGED <<issued, token, vouched>>
  /\ UNCHANGED <<row, files, lease, up, enabled, wants, retry, starting, release, conns,
                 main, pollers, current, submit, crashes>>

-----------------------------------------------------------------------------
(* Starting and stopping an engine.                                        *)

\* stopManagement, also dropping connectors that stopped themselves.
StopWith(p, dropped) ==
  /\ conns' = [conns EXCEPT ![p] = @ \ ({main[p]} \union dropped)]
  /\ main' = [main EXCEPT ![p] = NoCred]
  /\ pollers' = [pollers EXCEPT ![p] = @ \ {current[p]}]
  /\ current' = [current EXCEPT ![p] = NoReq]
  /\ lease' = IF release[p] THEN "free" ELSE lease
  /\ release' = [release EXCEPT ![p] = FALSE]
  /\ retry' = [retry EXCEPT ![p] = FALSE]

\* A poll in flight goes on without its poller.
Orphan(p) == poll' = [poll EXCEPT ![p].stale = poll[p].state # "idle"]

\* The command line starts protection, which starts management, and then
\* starts management once more.
Boot(p) ==
  /\ up[p] = "down"
  /\ up' = [up EXCEPT ![p] = "up"]
  /\ enabled' = [enabled EXCEPT ![p] = managed]
  /\ wants' = [wants EXCEPT ![p] = 2]
  /\ UNCHANGED <<hqVars, files, lease, retry, starting, release, conns, main, pollers,
                 current, poll, submit, vouched, crashes>>

\* The dashboard listens after both calls.
Serve(p) ==
  /\ p \in Dashboards /\ up[p] = "up" /\ wants[p] = 0 /\ starting[p] = NoStart
  /\ up' = [up EXCEPT ![p] = "serving"]
  /\ UNCHANGED <<hqVars, files, lease, enabled, wants, retry, starting, release, conns, main,
                 pollers, current, poll, submit, vouched, crashes>>

Crash(p) ==
  /\ up[p] # "down" /\ crashes < MaxCrashes
  /\ poll[p].state = "approved" => issued[poll[p].req.hq] < MaxTokens
  /\ crashes' = crashes + 1
  /\ up' = [up EXCEPT ![p] = "down"] /\ enabled' = [enabled EXCEPT ![p] = FALSE]
  /\ wants' = [wants EXCEPT ![p] = 0] /\ retry' = [retry EXCEPT ![p] = FALSE]
  /\ starting' = [starting EXCEPT ![p] = NoStart]
  /\ release' = [release EXCEPT ![p] = FALSE]
  /\ conns' = [conns EXCEPT ![p] = {}] /\ main' = [main EXCEPT ![p] = NoCred]
  /\ pollers' = [pollers EXCEPT ![p] = {}] /\ current' = [current EXCEPT ![p] = NoReq]
  /\ poll' = [poll EXCEPT ![p] = NoPoll] /\ submit' = [submit EXCEPT ![p] = NoSubmit]
  /\ lease' = IF lease = p THEN "free" ELSE lease
  /\ UNCHANGED <<hqVars, files, vouched>>

Managing(p) == main[p] \in conns[p] \/ current[p] \in pollers[p]

\* startManagement up to the lease; the retry timer fires once per arming.
StartLoad(p) ==
  /\ up[p] # "down" /\ starting[p] = NoStart
  /\ \/ /\ wants[p] > 0
        /\ wants' = [wants EXCEPT ![p] = @ - 1]
        /\ UNCHANGED retry
     \/ /\ wants[p] = 0 /\ retry[p]
        /\ retry' = [retry EXCEPT ![p] = FALSE]
        /\ UNCHANGED wants
  /\ starting' = IF enabled[p] /\ ~Managing(p)
                 THEN [starting EXCEPT ![p] =
                        [cred |-> cred, pending |-> IF cred = NoCred THEN pending ELSE NoPending]]
                 ELSE starting
  /\ UNCHANGED <<hqVars, files, lease, up, enabled, release, conns, main, pollers, current,
                 poll, submit, vouched, crashes>>

Activate(p, c) ==
  /\ conns' = [conns EXCEPT ![p] = @ \union {c}]
  /\ main' = [main EXCEPT ![p] = c]

ReqOf(q) == [hq |-> q.hq, id |-> q.id]

\* The lease: the process's own lock also counts as taken, and the release
\* function is overwritten.  A poller of a settled request never runs.
StartLease(p) ==
  LET s == starting[p] IN
  /\ s # NoStart
  /\ starting' = [starting EXCEPT ![p] = NoStart]
  /\ \/ /\ lease # "free"
        /\ release' = [release EXCEPT ![p] = FALSE]
        /\ retry' = [retry EXCEPT ![p] = enabled[p]]
        /\ UNCHANGED <<lease, conns, main, pollers, current>>
     \/ /\ lease = "free"
        /\ lease' = p
        /\ release' = [release EXCEPT ![p] = TRUE]
        /\ retry' = [retry EXCEPT ![p] = FALSE]
        /\ \/ /\ s.cred # NoCred /\ Activate(p, s.cred)
              /\ UNCHANGED <<pollers, current>>
           \/ /\ s.cred = NoCred
              /\ current' = [current EXCEPT ![p] = ReqOf(s.pending)]
              /\ pollers' = IF Terminal(s.pending.status) THEN pollers
                            ELSE [pollers EXCEPT ![p] = @ \union {ReqOf(s.pending)}]
              /\ UNCHANGED <<conns, main>>
  /\ UNCHANGED <<hqVars, files, up, enabled, wants, poll, submit, vouched, crashes>>

-----------------------------------------------------------------------------
(* Enrolment polls.                                                        *)

SendPoll(p, r) ==
  /\ r \in pollers[p] /\ poll[p].state = "idle"
  /\ poll' = [poll EXCEPT ![p] = [NoPoll EXCEPT !.state = "sent", !.req = r,
                                                !.stale = r # current[p]]]
  /\ UNCHANGED <<hqVars, files, lease, up, enabled, wants, retry, starting, release, conns,
                 main, pollers, current, submit, vouched, crashes>>

\* The answer is lost or late; bound: the last credential is not lost.
PollFails(p) ==
  /\ \/ poll[p].state \in {"sent", "rejected"}
     \/ poll[p].state = "approved" /\ issued[poll[p].req.hq] < MaxTokens
  /\ poll' = [poll EXCEPT ![p] = NoPoll]
  /\ UNCHANGED <<hqVars, files, lease, up, enabled, wants, retry, starting, release, conns,
                 main, pollers, current, submit, vouched, crashes>>

PollerDone(p) ==
  pollers[p] \ (IF poll[p].stale /\ poll[p].req = current[p] THEN {} ELSE {poll[p].req})

\* Mutant: the verification proof is not compared.
AcceptsAnyProof(p) == poll[p].proof # "none"

\* verificationProofMatches.
ProofMatches(p) == poll[p].proof = "right"

\* Mutant: the request is saved with the status HQ answered.
KeepsHqStatus(p) ==
  /\ poll[p].state \in {"rejected", "approved"} /\ ~ProofMatches(p)
  /\ pending' = [hq |-> poll[p].req.hq, id |-> poll[p].req.id, status |-> poll[p].state]
  /\ poll' = [poll EXCEPT ![p] = NoPoll]
  /\ StopWith(p, {})
  /\ UNCHANGED <<hqVars, cred, managed, up, enabled, wants, starting, submit, vouched, crashes>>

\* A rejection, or an approval with the wrong code: the settled request is
\* saved; only the engine's own poller stops management.
PollEnds(p) ==
  /\ \/ poll[p].state = "rejected"
     \/ poll[p].state = "approved" /\ ~ProofMatches(p)
  /\ pending' = [hq |-> poll[p].req.hq, id |-> poll[p].req.id,
                 status |-> IF poll[p].state = "rejected" THEN "rejected" ELSE "verification-failed"]
  /\ poll' = [poll EXCEPT ![p] = NoPoll]
  /\ IF poll[p].stale
     THEN /\ pollers' = [pollers EXCEPT ![p] = PollerDone(p)]
          /\ UNCHANGED <<lease, retry, release, conns, main, current>>
     ELSE StopWith(p, {})
  /\ UNCHANGED <<hqVars, cred, managed, up, enabled, wants, starting, submit, vouched, crashes>>

PollSaves(p) ==
  /\ poll[p].state = "approved" /\ ProofMatches(p)
  /\ cred' = [hq |-> poll[p].req.hq, token |-> poll[p].token]
  /\ poll' = [poll EXCEPT ![p].state = "saved"]
  /\ UNCHANGED <<hqVars, pending, managed, lease, up, enabled, wants, retry, starting,
                 release, conns, main, pollers, current, submit, vouched, crashes>>

\* clearPendingHqEnrollment, then onApproved, also after stopManagement.
PollFinishes(p) ==
  /\ poll[p].state = "saved"
  /\ pending' = NoPending
  /\ pollers' = [pollers EXCEPT ![p] = PollerDone(p)]
  /\ current' = [current EXCEPT ![p] = NoReq]
  /\ Activate(p, [hq |-> poll[p].req.hq, token |-> poll[p].token])
  /\ poll' = [poll EXCEPT ![p] = NoPoll]
  /\ UNCHANGED <<hqVars, cred, managed, lease, up, enabled, wants, retry, starting, release,
                 submit, vouched, crashes>>

-----------------------------------------------------------------------------
(* The connector.                                                          *)

Accepted(c) == token[c.hq] = c.token

\* Telemetry settles the approved request.
Heartbeat(p, c) ==
  /\ c \in conns[p] /\ Accepted(c)
  /\ row[c.hq].status = "approved"
  /\ row' = [row EXCEPT ![c.hq].status = "provisioned"]
  /\ UNCHANGED <<token, issued, files, lease, up, enabled, wants, retry, starting, release,
                 conns, main, pollers, current, poll, submit, vouched, crashes>>

\* 401: the connector stops itself and the engine enrols again with its HQ.
Denied(p, c) ==
  /\ c \in conns[p] /\ ~Accepted(c)
  /\ submit[p] = NoSubmit
  /\ StopWith(p, {c}) /\ Orphan(p)
  /\ submit' = [submit EXCEPT ![p] = [step |-> "post", hq |-> c.hq, id |-> 0, by |-> "engine"]]
  /\ UNCHANGED <<hqVars, files, up, enabled, wants, starting, vouched, crashes>>

-----------------------------------------------------------------------------
(* Submissions and disconnection.                                          *)

Submit(p, h) ==
  /\ up[p] = "serving" /\ submit[p] = NoSubmit
  /\ StopWith(p, {}) /\ Orphan(p)
  /\ submit' = [submit EXCEPT ![p] = [step |-> "post", hq |-> h, id |-> 0, by |-> "user"]]
  /\ UNCHANGED <<hqVars, files, up, enabled, wants, starting, vouched, crashes>>

WantStart(p) == wants' = [wants EXCEPT ![p] = IF @ = 2 THEN 2 ELSE @ + 1]

\* A failed submission of the user restarts management; the engine's own
\* re-enrolment only reports the error.
SubmitError(p) ==
  /\ submit' = [submit EXCEPT ![p] = NoSubmit]
  /\ IF submit[p].by = "user" THEN WantStart(p) ELSE UNCHANGED wants

\* HQ is not reached.
SubmitFails(p) ==
  /\ submit[p].step = "post"
  /\ SubmitError(p)
  /\ UNCHANGED <<hqVars, files, lease, up, enabled, retry, starting, release, conns, main,
                 pollers, current, poll, vouched, crashes>>

\* POST /enrollment-requests replaces the installation's row; the answer may
\* be lost.
HqCreatesRequest(p) ==
  LET h == submit[p].hq IN
  /\ submit[p].step = "post" /\ row[h].id < MaxRequests
  /\ row' = [row EXCEPT ![h] = [id |-> @.id + 1, status |-> "pending", proof |-> "none"]]
  /\ \/ /\ submit' = [submit EXCEPT ![p].step = "save", ![p].id = row[h].id + 1]
        /\ UNCHANGED wants
     \/ SubmitError(p)
  /\ UNCHANGED <<token, issued, files, lease, up, enabled, retry, starting, release, conns,
                 main, pollers, current, poll, vouched, crashes>>

SaveRequest(p) ==
  /\ submit[p].step = "save"
  /\ pending' = [hq |-> submit[p].hq, id |-> submit[p].id, status |-> "pending"]
  /\ submit' = [submit EXCEPT ![p].step = "clear"]
  /\ UNCHANGED <<hqVars, cred, managed, lease, up, enabled, wants, retry, starting, release,
                 conns, main, pollers, current, poll, vouched, crashes>>

\* The old credential goes; the user's submission also enables management.
ClearOldCredential(p) ==
  /\ submit[p].step = "clear"
  /\ cred' = NoCred
  /\ managed' = (managed \/ submit[p].by = "user")
  /\ enabled' = [enabled EXCEPT ![p] = @ \/ submit[p].by = "user"]
  /\ submit' = [submit EXCEPT ![p] = NoSubmit]
  /\ WantStart(p)
  /\ UNCHANGED <<hqVars, pending, lease, up, retry, starting, release, conns, main, pollers,
                 current, poll, vouched, crashes>>

\* disconnectHq, by a user or by HQ's offboarding command.
Disconnect(p) ==
  /\ submit[p] = NoSubmit
  /\ up[p] = "serving" \/ conns[p] # {}
  /\ StopWith(p, {}) /\ Orphan(p)
  /\ cred' = NoCred /\ pending' = NoPending /\ managed' = FALSE
  /\ enabled' = [enabled EXCEPT ![p] = FALSE]
  /\ UNCHANGED <<hqVars, up, wants, starting, submit, vouched, crashes>>

-----------------------------------------------------------------------------

HqNext ==
  \/ \E h \in Hqs : Revoke(h) \/ Review(h, "rejected", "none")
                    \/ \E proof \in {"right", "wrong"} : Review(h, "approved", proof)
  \/ \E p \in Procs : HqAnswersPoll(p) \/ HqCreatesRequest(p)

EndpointNext == \E p \in Procs :
  \/ Boot(p) \/ Serve(p) \/ Crash(p) \/ StartLoad(p) \/ StartLease(p) \/ Disconnect(p)
  \/ \E r \in pollers[p] : SendPoll(p, r)
  \/ PollFails(p) \/ PollEnds(p) \/ PollSaves(p) \/ PollFinishes(p)
  \/ \E c \in conns[p] : Heartbeat(p, c) \/ Denied(p, c)
  \/ \E h \in Hqs : Submit(p, h)
  \/ SubmitFails(p) \/ SaveRequest(p) \/ ClearOldCredential(p)

Next == HqNext \/ EndpointNext
Spec == Init /\ [][Next]_vars

\* Processes run and are restarted; retried requests eventually succeed.
Fairness == \A p \in Procs :
  /\ WF_vars(Boot(p)) /\ WF_vars(StartLoad(p)) /\ WF_vars(StartLease(p))
  /\ \A r \in Reqs : SF_vars(SendPoll(p, r))
  /\ SF_vars(HqAnswersPoll(p)) /\ SF_vars(PollSaves(p)) /\ WF_vars(PollFinishes(p))
  /\ WF_vars(PollEnds(p)) /\ WF_vars(SubmitFails(p) \/ HqCreatesRequest(p))
  /\ WF_vars(SaveRequest(p)) /\ WF_vars(ClearOldCredential(p))
FairSpec == Spec /\ Fairness
-----------------------------------------------------------------------------

\* Whatever processes, submissions and reviews interleave, only a credential
\* issued for an approval with the endpoint's own verification code is saved
\* or used by a connector.
CredentialIsVerified ==
  /\ cred \in vouched \union {NoCred}
  /\ \A p \in Procs : conns[p] \subseteq vouched

\* An approved request that the endpoint polls brings it a credential in the
\* end, although polls, answers and processes get lost on the way, unless it
\* is replaced or management is disabled.
ApprovedIsEnrolled ==
  \A h \in Hqs, i \in 1..MaxRequests :
    LET q == [hq |-> h, id |-> i, status |-> "pending"] IN
    /\ row[h] = [id |-> i, status |-> "approved", proof |-> "right"]
    /\ pending = q /\ managed /\ \E p \in Procs : ReqOf(q) \in pollers[p]
    ~> cred.hq = h \/ pending # q \/ row[h].id # i \/ ~managed
=============================================================================
