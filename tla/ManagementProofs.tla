-------------------------- MODULE ManagementProofs --------------------------
(***************************************************************************)
(* Theorems about Management for any number of HQs and processes, and      *)
(* about ConnectorLease, the lease its processes share, for any number of  *)
(* contenders and exits.                                                   *)
(***************************************************************************)
EXTENDS Management, ConnectorLease, TLAPS

-----------------------------------------------------------------------------
(* Management.                                                             *)

\* The record sets of TypeOK, by name.
Rows == [id : 0..MaxRequests, proof : Proofs,
         status : {"none", "pending", "approved", "rejected", "provisioned"}]
Polls == [state : {"idle", "sent", "approved", "rejected", "saved"},
          req : Reqs \union {NoReq}, token : 0..MaxTokens, proof : Proofs, stale : BOOLEAN]
Submits == [step : {"idle", "post", "save", "clear"}, hq : Hqs \union {"none"},
            id : 0..MaxRequests, by : {"none", "user", "engine"}]
Starts == [cred : Creds \union {NoCred}, pending : Pendings]

\* What a file or a connector may hold: a credential issued for the right code, or none.
Verified == vouched \union {NoCred}

\* A poll in flight asks for a request; an answer carries a credential, and one with the
\* right proof a verified one; only with that proof is the credential saved.
PollHonest(r) ==
  /\ r.state # "idle" => r.req \in Reqs
  /\ r.state \in {"approved", "saved"} => r.token \in 1..MaxTokens
  /\ r.state = "saved" => r.proof = "right"
  /\ r.state \in {"approved", "saved"} /\ r.proof = "right"
       => [hq |-> r.req.hq, token |-> r.token] \in vouched
SubmitTyped(s) ==
  /\ s.step # "idle" => s.hq \in Hqs
  /\ s.step \in {"save", "clear"} => s.id \in 1..MaxRequests

HqTyped ==
  /\ row \in [Hqs -> Rows] /\ token \in [Hqs -> 0..MaxTokens] /\ issued \in [Hqs -> 0..MaxTokens]
  /\ vouched \subseteq Creds
FilesTyped ==
  /\ pending \in Pendings /\ cred \in Verified /\ managed \in BOOLEAN
  /\ lease \in Procs \union {"free"}
EngineTyped ==
  /\ up \in [Procs -> {"down", "up", "serving"}] /\ enabled \in [Procs -> BOOLEAN]
  /\ wants \in [Procs -> 0..2] /\ retry \in [Procs -> BOOLEAN]
  /\ release \in [Procs -> BOOLEAN] /\ crashes \in 0..MaxCrashes
StartsOK ==
  /\ starting \in [Procs -> Starts]
  /\ \A p \in Procs : starting[p].cred \in Verified
ConnsOK ==
  /\ conns \in [Procs -> SUBSET Creds] /\ main \in [Procs -> Creds \union {NoCred}]
  /\ \A p \in Procs : conns[p] \subseteq vouched
PollersOK == pollers \in [Procs -> SUBSET Reqs] /\ current \in [Procs -> Reqs \union {NoReq}]
PollsOK == poll \in [Procs -> Polls] /\ \A p \in Procs : PollHonest(poll[p])
SubmitsOK == submit \in [Procs -> Submits] /\ \A p \in Procs : SubmitTyped(submit[p])

\* Credentials travel from an answer to the file, from the file to a starting engine, from
\* there to its connectors: each place holds verified ones only.
MInv == /\ HqTyped /\ FilesTyped /\ EngineTyped /\ StartsOK /\ ConnsOK /\ PollersOK
        /\ PollsOK /\ SubmitsOK

USE DEF Verified

(* The frame of an action: the parts it leaves alone.                      *)
LEMMA Frame ==
  /\ HqTyped /\ UNCHANGED <<row, token, issued, vouched>> => HqTyped'
  /\ FilesTyped /\ UNCHANGED <<pending, cred, managed, lease, vouched>> => FilesTyped'
  /\ EngineTyped /\ UNCHANGED <<up, enabled, wants, retry, release, crashes>> => EngineTyped'
  /\ StartsOK /\ UNCHANGED <<starting, vouched>> => StartsOK'
  /\ ConnsOK /\ UNCHANGED <<conns, main, vouched>> => ConnsOK'
  /\ PollersOK /\ UNCHANGED <<pollers, current>> => PollersOK'
  /\ PollsOK /\ UNCHANGED <<poll, vouched>> => PollsOK'
  /\ SubmitsOK /\ UNCHANGED submit => SubmitsOK'
  BY DEF HqTyped, FilesTyped, EngineTyped, StartsOK, ConnsOK, PollersOK, PollsOK, PollHonest,
         SubmitsOK

\* The values that mark nothing: they are typed, and not members of the sets they mark.
LEMMA Nothing ==
  /\ NoCred \notin Creds /\ NoReq \notin Reqs
  /\ NoPending \in Pendings /\ NoStart \in Starts /\ NoStart.cred = NoCred
  /\ NoPoll \in Polls /\ PollHonest(NoPoll) /\ NoSubmit \in Submits /\ SubmitTyped(NoSubmit)
  <1>1. NoCred \notin Creds /\ NoReq \notin Reqs
    BY ManagementAssumption DEF NoCred, Creds, NoReq, Reqs
  <1>2. NoPending \in Pendings
    BY DEF Pendings
  <1>3. NoStart \in Starts /\ NoStart.cred = NoCred
    BY <1>2 DEF NoStart, Starts
  <1>4. NoPoll \in Polls /\ PollHonest(NoPoll)
    BY ManagementAssumption DEF NoPoll, Polls, PollHonest, Proofs
  <1>5. NoSubmit \in Submits /\ SubmitTyped(NoSubmit)
    BY ManagementAssumption DEF NoSubmit, Submits, SubmitTyped
  <1> QED BY <1>1, <1>2, <1>3, <1>4, <1>5

\* An endpoint that never enrolled holds no credential.
LEMMA InitMInv == Init => MInv
  <1> SUFFICES ASSUME Init PROVE MInv
    OBVIOUS
  <1> USE ManagementAssumption, Nothing
  <1>1. HqTyped
    BY DEF Init, HqTyped, Rows, Proofs
  <1>2. FilesTyped
    BY DEF Init, FilesTyped
  <1>6. EngineTyped
    BY DEF Init, EngineTyped
  <1>3. StartsOK
    BY DEF Init, StartsOK
  <1>4. ConnsOK /\ PollersOK
    BY DEF Init, ConnsOK, PollersOK
  <1>5. PollsOK /\ SubmitsOK
    BY DEF Init, PollsOK, SubmitsOK
  <1> QED BY <1>1, <1>2, <1>3, <1>4, <1>5, <1>6 DEF MInv

(* HQ.                                                                     *)

\* A review changes the request of HQ only.
LEMMA ReviewKeeps ==
  ASSUME MInv, NEW h \in Hqs, NEW status \in {"approved", "rejected"}, NEW proof \in Proofs,
         Review(h, status, proof)
  PROVE  MInv'
  <1>1. HqTyped'
    <2>1. PICK with \in Rows : with = [row[h] EXCEPT !.status = status]
      BY DEF MInv, HqTyped, Rows
    <2>2. PICK to \in Rows : to = [with EXCEPT !.proof = proof]
      BY DEF Rows
    <2>3. row' = [row EXCEPT ![h] = to]
      BY <2>1, <2>2 DEF Review
    <2> QED BY <2>3 DEF MInv, HqTyped, Review
  <1> QED BY <1>1, Frame DEF MInv, Review, files

\* A revocation takes the accepted credential away, not what it was issued for.
LEMMA RevokeKeeps ==
  ASSUME MInv, NEW h \in Hqs, Revoke(h)
  PROVE  MInv'
  <1>1. HqTyped'
    BY ManagementAssumption DEF MInv, HqTyped, Revoke
  <1> QED BY <1>1, Frame DEF MInv, Revoke, files

\* The answer to a poll: the credential it carries is verified if the proof is right.
LEMMA AnswerKeeps ==
  ASSUME MInv, NEW p \in Procs, HqAnswersPoll(p)
  PROVE  MInv'
  <1> DEFINE r == poll[p].req
             h == r.hq
             t == issued[h] + 1
             c == [hq |-> h, token |-> t]
  <1>0. poll[p] \in Polls /\ PollHonest(poll[p]) /\ poll[p].state = "sent"
    BY DEF MInv, PollsOK, HqAnswersPoll
  <1>1. r \in Reqs /\ h \in Hqs
    BY <1>0 DEF PollHonest, Reqs
  <1>2. row[h] \in Rows /\ row[h].proof \in Proofs
    BY <1>1 DEF MInv, HqTyped, Rows
  <1>3. vouched \subseteq vouched' /\ vouched' \subseteq Creds
    <2>1. CASE row[h].id = r.id /\ row[h].status = "approved"
      <3>1. t \in 1..MaxTokens
        BY <1>1, <2>1, ManagementAssumption DEF MInv, HqTyped, HqAnswersPoll
      <3>2. c \in Creds
        BY <1>1, <3>1 DEF Creds
      <3> QED BY <2>1, <3>2 DEF MInv, HqTyped, HqAnswersPoll
    <2>2. CASE ~(row[h].id = r.id /\ row[h].status = "approved")
      BY <2>2 DEF MInv, HqTyped, HqAnswersPoll
    <2> QED BY <2>1, <2>2
  <1>4. HqTyped'
    <2>1. CASE row[h].id = r.id /\ row[h].status = "approved"
      <3>1. t \in 0..MaxTokens
        BY <1>1, <2>1, ManagementAssumption DEF MInv, HqTyped, HqAnswersPoll
      <3>2. /\ issued' = [issued EXCEPT ![h] = t] /\ token' = [token EXCEPT ![h] = t]
            /\ row' = row
        BY <1>1, <2>1 DEF MInv, HqTyped, HqAnswersPoll
      <3> HIDE DEF t
      <3> QED BY <1>3, <3>1, <3>2 DEF MInv, HqTyped
    <2>2. CASE ~(row[h].id = r.id /\ row[h].status = "approved")
      BY <1>3, <2>2 DEF MInv, HqTyped, HqAnswersPoll
    <2> QED BY <2>1, <2>2
  <1>5. PollsOK'
    <2>1. CASE row[h].id = r.id /\ row[h].status = "approved"
      <3>1. t \in 1..MaxTokens /\ t \in 0..MaxTokens
        BY <1>1, <2>1, ManagementAssumption DEF MInv, HqTyped, HqAnswersPoll
      <3>2. PICK with \in Polls : with = [poll[p] EXCEPT !.state = "approved"]
        BY <1>0 DEF Polls
      <3>3. with.req = r
        BY <1>0, <3>2 DEF Polls
      <3>4. PICK carries \in Polls : carries = [with EXCEPT !.token = t]
        <4> HIDE DEF t
        <4> QED BY <3>1 DEF Polls
      <3>5. /\ carries.req = r /\ carries.state = "approved" /\ carries.token = t
        BY <1>0, <3>2, <3>3, <3>4 DEF Polls
      <3>6. PICK to \in Polls : to = [carries EXCEPT !.proof = row[h].proof]
        BY <1>2 DEF Polls
      <3>7. /\ to.req = r /\ to.state = "approved" /\ to.token = t /\ to.proof = row[h].proof
        BY <3>5, <3>6 DEF Polls
      <3>8. poll' = [poll EXCEPT ![p] = to]
        BY <2>1, <3>2, <3>4, <3>6 DEF HqAnswersPoll
      <3>9. row[h].proof = "right" => c \in vouched'
        BY <2>1 DEF HqAnswersPoll
      <3>10. PollHonest(to)'
        BY <1>1, <3>1, <3>7, <3>9 DEF PollHonest
      <3>11. \A q \in Procs : poll'[q] \in Polls /\ PollHonest(poll[q])'
        <4> SUFFICES ASSUME NEW q \in Procs PROVE poll'[q] \in Polls /\ PollHonest(poll[q])'
          OBVIOUS
        <4>1. CASE q = p
          BY <3>8, <3>10, <4>1 DEF MInv, PollsOK, PollHonest
        <4>2. CASE q # p
          BY <1>3, <3>8, <4>2 DEF MInv, PollsOK, PollHonest
        <4> QED BY <4>1, <4>2
      <3> QED BY <3>8, <3>11 DEF MInv, PollsOK
    <2>2. CASE ~(row[h].id = r.id /\ row[h].status = "approved")
      <3>1. PICK to \in Polls : to = [poll[p] EXCEPT !.state = "rejected"]
        BY <1>0 DEF Polls
      <3>2. to.req = r /\ to.state = "rejected"
        BY <1>0, <3>1 DEF Polls
      <3>3. PollHonest(to)' /\ PollHonest(NoPoll)'
        BY <1>1, <3>2, Nothing DEF PollHonest, NoPoll
      <3>4. poll' = [poll EXCEPT ![p] = to] \/ poll' = [poll EXCEPT ![p] = NoPoll]
        BY <2>2, <3>1 DEF HqAnswersPoll
      <3>5. PICK new \in {to, NoPoll} : poll' = [poll EXCEPT ![p] = new]
        BY <3>4
      <3>6. new \in Polls /\ PollHonest(new)'
        BY <3>3, Nothing
      <3> QED BY <1>3, <3>5, <3>6 DEF MInv, PollsOK, PollHonest
    <2> QED BY <2>1, <2>2
  <1>6. FilesTyped' /\ StartsOK' /\ ConnsOK'
    BY <1>3 DEF MInv, FilesTyped, StartsOK, ConnsOK, HqAnswersPoll, files
  <1> QED BY <1>4, <1>5, <1>6, Frame DEF MInv, HqAnswersPoll, files

(* Starting and stopping an engine.                                        *)

\* What stopManagement does to the types.
LEMMA StopKeeps ==
  ASSUME MInv, NEW p \in Procs, NEW dropped, StopWith(p, dropped), UNCHANGED vouched
  PROVE  /\ ConnsOK' /\ PollersOK' /\ lease' \in Procs \union {"free"}
         /\ retry' \in [Procs -> BOOLEAN] /\ release' \in [Procs -> BOOLEAN]
  <1>1. ConnsOK'
    BY DEF MInv, ConnsOK, StopWith
  <1>2. PollersOK'
    BY DEF MInv, PollersOK, StopWith
  <1>3. lease' \in Procs \union {"free"}
    BY DEF MInv, FilesTyped, StopWith
  <1>4. retry' \in [Procs -> BOOLEAN] /\ release' \in [Procs -> BOOLEAN]
    BY DEF MInv, EngineTyped, StopWith
  <1> QED BY <1>1, <1>2, <1>3, <1>4

\* A poll in flight that lost its poller carries what it carried.
LEMMA OrphanKeeps ==
  ASSUME MInv, NEW p \in Procs, Orphan(p), UNCHANGED vouched
  PROVE  PollsOK'
  <1>1. poll[p] \in Polls /\ PollHonest(poll[p])
    BY DEF MInv, PollsOK
  <1>2. PICK to \in Polls : to = [poll[p] EXCEPT !.stale = poll[p].state # "idle"]
    BY <1>1 DEF Polls
  <1>3. /\ to.req = poll[p].req /\ to.state = poll[p].state /\ to.token = poll[p].token
        /\ to.proof = poll[p].proof
    BY <1>1, <1>2 DEF Polls
  <1>4. PollHonest(to)
    BY <1>1, <1>3 DEF PollHonest
  <1>5. poll' = [poll EXCEPT ![p] = to]
    BY <1>2 DEF Orphan
  <1> QED BY <1>4, <1>5 DEF MInv, PollsOK, PollHonest

\* A connector may start with a verified credential.
LEMMA ActivateKeeps ==
  ASSUME MInv, NEW p \in Procs, NEW c \in vouched, Activate(p, c), UNCHANGED vouched
  PROVE  ConnsOK'
  BY DEF MInv, ConnsOK, Activate, HqTyped

\* A poll that ends leaves none.
LEMMA NoPollKeeps ==
  ASSUME MInv, NEW p \in Procs, poll' = [poll EXCEPT ![p] = NoPoll], UNCHANGED vouched
  PROVE  PollsOK'
  BY Nothing DEF MInv, PollsOK, PollHonest

\* A submission that ends leaves none.
LEMMA NoSubmitKeeps ==
  ASSUME MInv, NEW p \in Procs, submit' = [submit EXCEPT ![p] = NoSubmit]
  PROVE  SubmitsOK'
  BY Nothing DEF MInv, SubmitsOK, SubmitTyped

\* A process starts with no credential.
LEMMA BootKeeps ==
  ASSUME MInv, NEW p \in Procs, Boot(p)
  PROVE  MInv'
  <1>1. EngineTyped'
    BY DEF MInv, EngineTyped, FilesTyped, Boot
  <1> QED BY <1>1, Frame DEF MInv, Boot, files, hqVars

\* A process that serves its users changes its phase only.
LEMMA ServeKeeps ==
  ASSUME MInv, NEW p \in Procs, Serve(p)
  PROVE  MInv'
  <1>1. EngineTyped'
    BY DEF MInv, EngineTyped, Serve
  <1> QED BY <1>1, Frame DEF MInv, Serve, files, hqVars

\* An exit takes what the process held; the files stay.
LEMMA CrashKeeps ==
  ASSUME MInv, NEW p \in Procs, Crash(p)
  PROVE  MInv'
  <1>1. EngineTyped'
    BY ManagementAssumption DEF MInv, EngineTyped, Crash
  <1>2. FilesTyped'
    BY DEF MInv, FilesTyped, Crash, files
  <1>3. StartsOK'
    BY Nothing DEF MInv, StartsOK, Crash
  <1>4. ConnsOK'
    BY DEF MInv, ConnsOK, Crash
  <1>5. PollersOK'
    BY DEF MInv, PollersOK, Crash
  <1>6. PollsOK' /\ SubmitsOK'
    BY NoPollKeeps, NoSubmitKeeps DEF Crash
  <1> QED BY <1>1, <1>2, <1>3, <1>4, <1>5, <1>6, Frame DEF MInv, Crash, files, hqVars

\* startManagement reads the files: their credential is verified.
LEMMA StartLoadKeeps ==
  ASSUME MInv, NEW p \in Procs, StartLoad(p)
  PROVE  MInv'
  <1>1. EngineTyped'
    <2>1. wants' \in [Procs -> 0..2]
      BY DEF MInv, EngineTyped, StartLoad
    <2>2. retry' \in [Procs -> BOOLEAN]
      BY DEF MInv, EngineTyped, StartLoad
    <2> QED BY <2>1, <2>2 DEF MInv, EngineTyped, StartLoad
  <1>2. StartsOK'
    <2> DEFINE s == [cred |-> cred, pending |-> IF cred = NoCred THEN pending ELSE NoPending]
    <2>1. s \in Starts /\ s.cred \in Verified
      BY Nothing DEF MInv, FilesTyped, HqTyped, Starts
    <2>2. starting' = [starting EXCEPT ![p] = s] \/ starting' = starting
      BY DEF StartLoad
    <2> HIDE DEF s
    <2> QED BY <2>1, <2>2 DEF MInv, StartsOK, StartLoad
  <1> QED BY <1>1, <1>2, Frame DEF MInv, StartLoad, files, hqVars

\* The connector starts with the credential that was read, the poller with the request.
LEMMA StartLeaseKeeps ==
  ASSUME MInv, NEW p \in Procs, StartLease(p)
  PROVE  MInv'
  <1> DEFINE s == starting[p]
  <1>0. s \in Starts /\ s # NoStart /\ s.cred \in Verified /\ s.pending \in Pendings
    BY DEF MInv, StartsOK, StartLease, Starts
  <1>1. EngineTyped'
    BY DEF MInv, EngineTyped, StartLease
  <1>2. FilesTyped'
    BY DEF MInv, FilesTyped, StartLease, files
  <1>3. StartsOK'
    BY Nothing DEF MInv, StartsOK, StartLease
  <1>4. ConnsOK'
    <2>1. CASE s.cred # NoCred /\ Activate(p, s.cred)
      <3>1. s.cred \in vouched
        BY <1>0, <2>1
      <3> QED BY <2>1, <3>1, ActivateKeeps DEF StartLease
    <2>2. CASE UNCHANGED <<conns, main>>
      BY <2>2, Frame DEF MInv, StartLease
    <2> QED BY <2>1, <2>2 DEF StartLease
  <1>5. PollersOK'
    <2>1. CASE s.cred = NoCred
      <3>1. s.pending # NoPending
        BY <1>0, <2>1 DEF NoStart, Starts
      <3>2. ReqOf(s.pending) \in Reqs
        BY <1>0, <3>1 DEF Pendings, ReqOf, Reqs
      <3> QED BY <2>1, <3>2 DEF MInv, PollersOK, StartLease
    <2>2. CASE UNCHANGED <<pollers, current>>
      BY <2>2, Frame DEF MInv
    <2> QED BY <2>1, <2>2 DEF StartLease
  <1> QED BY <1>1, <1>2, <1>3, <1>4, <1>5, Frame DEF MInv, StartLease, files, hqVars

(* Enrolment polls.                                                        *)

\* A poll is about a request of its poller.
LEMMA SendPollKeeps ==
  ASSUME MInv, NEW p \in Procs, NEW r \in pollers[p], SendPoll(p, r)
  PROVE  MInv'
  <1>1. r \in Reqs
    BY DEF MInv, PollersOK
  <1>2. PICK state \in Polls : state = [NoPoll EXCEPT !.state = "sent"]
    BY Nothing DEF Polls
  <1>3. PICK to \in Polls : to = [state EXCEPT !.req = r]
    BY <1>1 DEF Polls
  <1>4. PICK with \in Polls : with = [to EXCEPT !.stale = r # current[p]]
    BY DEF Polls
  <1>5. with.req = r /\ with.state = "sent"
    BY <1>2, <1>3, <1>4, Nothing DEF Polls
  <1>6. PollHonest(with)
    BY <1>1, <1>5 DEF PollHonest
  <1>7. poll' = [poll EXCEPT ![p] = with]
    BY <1>2, <1>3, <1>4 DEF SendPoll
  <1>8. PollsOK'
    BY <1>6, <1>7 DEF MInv, PollsOK, PollHonest, SendPoll
  <1> QED BY <1>8, Frame DEF MInv, SendPoll, files, hqVars

\* A lost answer is no answer.
LEMMA PollFailsKeeps ==
  ASSUME MInv, NEW p \in Procs, PollFails(p)
  PROVE  MInv'
  <1>1. PollsOK'
    BY NoPollKeeps DEF PollFails
  <1> QED BY <1>1, Frame DEF MInv, PollFails, files, hqVars

\* What is left of the pollers.
LEMMA PollerDoneIn ==
  ASSUME MInv, NEW p \in Procs
  PROVE  PollerDone(p) \in SUBSET Reqs
  BY DEF MInv, PollersOK, PollerDone

\* A settled request is saved, no credential.
LEMMA PollEndsKeeps ==
  ASSUME MInv, NEW p \in Procs, PollEnds(p)
  PROVE  MInv'
  <1> DEFINE status == IF poll[p].state = "rejected" THEN "rejected" ELSE "verification-failed"
             q == [hq |-> poll[p].req.hq, id |-> poll[p].req.id, status |-> status]
  <1>1. poll[p].req \in Reqs
    BY DEF MInv, PollsOK, PollHonest, PollEnds
  <1>2. q \in Pendings
    BY <1>1 DEF Reqs, Pendings, PendingStatuses
  <1>3. PollsOK'
    BY NoPollKeeps DEF PollEnds
  <1>4. /\ ConnsOK' /\ PollersOK' /\ lease' \in Procs \union {"free"}
        /\ retry' \in [Procs -> BOOLEAN] /\ release' \in [Procs -> BOOLEAN]
    <2>1. CASE poll[p].stale
      <3>1. UNCHANGED <<lease, retry, release, conns, main, current, vouched>>
        BY <2>1 DEF PollEnds
      <3>2. PollersOK'
        BY <2>1, <3>1, PollerDoneIn DEF MInv, PollersOK, PollEnds
      <3> QED BY <3>1, <3>2, Frame DEF MInv, FilesTyped, EngineTyped
    <2>2. CASE ~poll[p].stale
      <3>1. StopWith(p, {}) /\ UNCHANGED vouched
        BY <2>2 DEF PollEnds
      <3> QED BY <3>1, StopKeeps
    <2> QED BY <2>1, <2>2
  <1>5. FilesTyped'
    BY <1>2, <1>4 DEF MInv, FilesTyped, PollEnds
  <1>6. EngineTyped'
    BY <1>4 DEF MInv, EngineTyped, PollEnds
  <1> QED BY <1>3, <1>4, <1>5, <1>6, Frame DEF MInv, PollEnds, hqVars

\* The verified credential is saved; PollHonest says it is one.
LEMMA PollSavesKeeps ==
  ASSUME MInv, NEW p \in Procs, PollSaves(p)
  PROVE  MInv'
  <1>1. poll[p] \in Polls /\ PollHonest(poll[p]) /\ poll[p].state = "approved"
    BY DEF MInv, PollsOK, PollSaves
  <1>2. poll[p].proof = "right"
    BY DEF PollSaves, ProofMatches
  <1>3. [hq |-> poll[p].req.hq, token |-> poll[p].token] \in vouched
    BY <1>1, <1>2 DEF PollHonest
  <1>4. FilesTyped'
    BY <1>3 DEF MInv, FilesTyped, PollSaves
  <1>5. PICK to \in Polls : to = [poll[p] EXCEPT !.state = "saved"]
    BY <1>1 DEF Polls
  <1>6. /\ to.req = poll[p].req /\ to.state = "saved" /\ to.token = poll[p].token
        /\ to.proof = "right"
    BY <1>1, <1>2, <1>5 DEF Polls
  <1>7. PollHonest(to)
    BY <1>1, <1>3, <1>6 DEF PollHonest
  <1>8. poll' = [poll EXCEPT ![p] = to]
    BY <1>5 DEF PollSaves
  <1>9. PollsOK'
    BY <1>7, <1>8 DEF MInv, PollsOK, PollHonest, PollSaves
  <1> QED BY <1>4, <1>9, Frame DEF MInv, PollSaves, hqVars

\* onApproved starts a connector with the credential that was saved.
LEMMA PollFinishesKeeps ==
  ASSUME MInv, NEW p \in Procs, PollFinishes(p)
  PROVE  MInv'
  <1> DEFINE c == [hq |-> poll[p].req.hq, token |-> poll[p].token]
  <1>1. c \in vouched
    BY DEF MInv, PollsOK, PollHonest, PollFinishes
  <1>2. ConnsOK'
    BY <1>1, ActivateKeeps DEF PollFinishes
  <1>3. PollsOK'
    BY NoPollKeeps DEF PollFinishes
  <1>4. PollersOK'
    BY PollerDoneIn DEF MInv, PollersOK, PollFinishes
  <1>5. FilesTyped'
    BY Nothing DEF MInv, FilesTyped, PollFinishes
  <1> QED BY <1>2, <1>3, <1>4, <1>5, Frame DEF MInv, PollFinishes, hqVars

(* The connector.                                                          *)

\* A heartbeat settles the request of its HQ.
LEMMA HeartbeatKeeps ==
  ASSUME MInv, NEW p \in Procs, NEW c \in conns[p], Heartbeat(p, c)
  PROVE  MInv'
  <1>1. c.hq \in Hqs
    BY DEF MInv, ConnsOK, Creds
  <1>2. PICK to \in Rows : to = [row[c.hq] EXCEPT !.status = "provisioned"]
    BY <1>1 DEF MInv, HqTyped, Rows
  <1>3. row' = [row EXCEPT ![c.hq] = to]
    BY <1>2 DEF Heartbeat
  <1>4. HqTyped'
    BY <1>3 DEF MInv, HqTyped, Heartbeat
  <1> QED BY <1>4, Frame DEF MInv, Heartbeat, files

\* A submission names its HQ.
LEMMA NewSubmitKeeps ==
  ASSUME MInv, NEW p \in Procs, NEW h \in Hqs, NEW by \in {"user", "engine"},
         submit' = [submit EXCEPT ![p] = [step |-> "post", hq |-> h, id |-> 0, by |-> by]]
  PROVE  SubmitsOK'
  <1> DEFINE new == [step |-> "post", hq |-> h, id |-> 0, by |-> by]
  <1>1. new \in Submits /\ SubmitTyped(new)
    BY ManagementAssumption DEF Submits, SubmitTyped
  <1>2. submit' = [submit EXCEPT ![p] = new]
    OBVIOUS
  <1> HIDE DEF new
  <1> QED BY <1>1, <1>2 DEF MInv, SubmitsOK, SubmitTyped

\* A connector that HQ denies stops, and the engine submits again.
LEMMA DeniedKeeps ==
  ASSUME MInv, NEW p \in Procs, NEW c \in conns[p], Denied(p, c)
  PROVE  MInv'
  <1>1. c.hq \in Hqs
    BY DEF MInv, ConnsOK, Creds
  <1>2. UNCHANGED vouched /\ StopWith(p, {c}) /\ Orphan(p)
    BY DEF Denied
  <1>3. SubmitsOK'
    BY <1>1, NewSubmitKeeps DEF Denied
  <1>4. PollsOK'
    BY <1>2, OrphanKeeps
  <1>5. /\ ConnsOK' /\ PollersOK' /\ lease' \in Procs \union {"free"}
        /\ retry' \in [Procs -> BOOLEAN] /\ release' \in [Procs -> BOOLEAN]
    BY <1>2, StopKeeps
  <1>6. FilesTyped' /\ EngineTyped'
    BY <1>5 DEF MInv, FilesTyped, EngineTyped, Denied, files
  <1> QED BY <1>3, <1>4, <1>5, <1>6, Frame DEF MInv, Denied, hqVars

(* Submissions and disconnection.                                          *)

\* A user submits: management stops first.
LEMMA SubmitKeeps ==
  ASSUME MInv, NEW p \in Procs, NEW h \in Hqs, Submit(p, h)
  PROVE  MInv'
  <1>1. UNCHANGED vouched /\ StopWith(p, {}) /\ Orphan(p)
    BY DEF Submit
  <1>2. SubmitsOK'
    BY NewSubmitKeeps DEF Submit
  <1>3. PollsOK'
    BY <1>1, OrphanKeeps
  <1>4. /\ ConnsOK' /\ PollersOK' /\ lease' \in Procs \union {"free"}
        /\ retry' \in [Procs -> BOOLEAN] /\ release' \in [Procs -> BOOLEAN]
    BY <1>1, StopKeeps
  <1>5. FilesTyped' /\ EngineTyped'
    BY <1>4 DEF MInv, FilesTyped, EngineTyped, Submit, files
  <1> QED BY <1>2, <1>3, <1>4, <1>5, Frame DEF MInv, Submit, hqVars

\* At most two calls of startManagement are due.
LEMMA WantStartKeeps ==
  ASSUME MInv, NEW p \in Procs, WantStart(p) \/ UNCHANGED wants
  PROVE  wants' \in [Procs -> 0..2]
  BY DEF MInv, EngineTyped, WantStart

\* A submission that failed.
LEMMA SubmitErrorKeeps ==
  ASSUME MInv, NEW p \in Procs, SubmitError(p)
  PROVE  SubmitsOK' /\ wants' \in [Procs -> 0..2]
  <1>1. SubmitsOK'
    BY NoSubmitKeeps DEF SubmitError
  <1>2. wants' \in [Procs -> 0..2]
    BY WantStartKeeps DEF SubmitError
  <1> QED BY <1>1, <1>2

\* HQ was not reached.
LEMMA SubmitFailsKeeps ==
  ASSUME MInv, NEW p \in Procs, SubmitFails(p)
  PROVE  MInv'
  <1>1. SubmitsOK' /\ wants' \in [Procs -> 0..2]
    BY SubmitErrorKeeps DEF SubmitFails
  <1>2. EngineTyped'
    BY <1>1 DEF MInv, EngineTyped, SubmitFails
  <1> QED BY <1>1, <1>2, Frame DEF MInv, SubmitFails, files, hqVars

\* HQ numbers the request; the answer may carry it to the endpoint.
LEMMA HqCreatesRequestKeeps ==
  ASSUME MInv, NEW p \in Procs, HqCreatesRequest(p)
  PROVE  MInv'
  <1> DEFINE h == submit[p].hq
             i == row[h].id + 1
  <1>1. h \in Hqs
    BY DEF MInv, SubmitsOK, SubmitTyped, HqCreatesRequest
  <1>2. row[h] \in Rows /\ row[h].id \in 0..MaxRequests /\ row[h].id < MaxRequests
    BY <1>1 DEF MInv, HqTyped, Rows, HqCreatesRequest
  <1>3. i \in 1..MaxRequests /\ i \in 0..MaxRequests
    BY <1>2, ManagementAssumption
  <1>4. HqTyped'
    <2> DEFINE new == [id |-> i, status |-> "pending", proof |-> "none"]
    <2>1. new \in Rows
      BY <1>3 DEF Rows, Proofs
    <2>2. row' = [row EXCEPT ![h] = new]
      BY <1>1 DEF MInv, HqTyped, HqCreatesRequest
    <2> HIDE DEF new
    <2> QED BY <2>1, <2>2 DEF MInv, HqTyped, HqCreatesRequest
  <1>5. SubmitsOK' /\ wants' \in [Procs -> 0..2]
    <2>1. CASE /\ submit' = [submit EXCEPT ![p].step = "save", ![p].id = i]
               /\ UNCHANGED wants
      <3>0. submit[p] \in Submits
        BY DEF MInv, SubmitsOK
      <3>1. PICK saved \in Submits : saved = [submit[p] EXCEPT !.step = "save"]
        BY <3>0 DEF Submits
      <3>2. saved.hq = h /\ saved.step = "save"
        BY <3>0, <3>1 DEF Submits
      <3>3. PICK to \in Submits : to = [saved EXCEPT !.id = i]
        <4> HIDE DEF i
        <4> QED BY <1>3 DEF Submits
      <3>4. to.hq = h /\ to.id = i
        BY <3>2, <3>3 DEF Submits
      <3>5. SubmitTyped(to)
        BY <1>1, <1>3, <3>4 DEF SubmitTyped
      <3>6. submit' = [submit EXCEPT ![p] = to]
        BY <2>1, <3>1, <3>3
      <3>7. SubmitsOK'
        BY <3>5, <3>6 DEF MInv, SubmitsOK, SubmitTyped
      <3> QED BY <2>1, <3>7, WantStartKeeps
    <2>2. CASE SubmitError(p)
      BY <2>2, SubmitErrorKeeps
    <2> QED BY <2>1, <2>2 DEF HqCreatesRequest
  <1>6. EngineTyped'
    BY <1>5 DEF MInv, EngineTyped, HqCreatesRequest
  <1> QED BY <1>4, <1>5, <1>6, Frame DEF MInv, HqCreatesRequest, files

\* The file gets the request that was answered.
LEMMA SaveRequestKeeps ==
  ASSUME MInv, NEW p \in Procs, SaveRequest(p)
  PROVE  MInv'
  <1> DEFINE q == [hq |-> submit[p].hq, id |-> submit[p].id, status |-> "pending"]
  <1>1. /\ submit[p] \in Submits /\ SubmitTyped(submit[p])
        /\ submit[p].hq \in Hqs /\ submit[p].id \in 1..MaxRequests
    BY DEF MInv, SubmitsOK, SubmitTyped, SaveRequest
  <1>2. q \in Pendings
    BY <1>1 DEF Pendings, PendingStatuses
  <1>3. FilesTyped'
    BY <1>2 DEF MInv, FilesTyped, SaveRequest
  <1>4. PICK to \in Submits : to = [submit[p] EXCEPT !.step = "clear"]
    BY <1>1 DEF Submits
  <1>5. to.hq = submit[p].hq /\ to.id = submit[p].id
    BY <1>1, <1>4 DEF Submits
  <1>6. SubmitTyped(to)
    BY <1>1, <1>5 DEF SubmitTyped
  <1>7. submit' = [submit EXCEPT ![p] = to]
    BY <1>4 DEF SaveRequest
  <1>8. SubmitsOK'
    BY <1>6, <1>7 DEF MInv, SubmitsOK, SubmitTyped
  <1> QED BY <1>3, <1>8, Frame DEF MInv, SaveRequest, hqVars

\* The credential file is cleared: no credential is verified.
LEMMA ClearOldCredentialKeeps ==
  ASSUME MInv, NEW p \in Procs, ClearOldCredential(p)
  PROVE  MInv'
  <1>1. SubmitsOK' /\ wants' \in [Procs -> 0..2]
    BY NoSubmitKeeps, WantStartKeeps DEF ClearOldCredential
  <1>2. FilesTyped'
    BY DEF MInv, FilesTyped, ClearOldCredential
  <1>3. EngineTyped'
    BY <1>1 DEF MInv, EngineTyped, ClearOldCredential
  <1> QED BY <1>1, <1>2, <1>3, Frame DEF MInv, ClearOldCredential, hqVars

\* A disconnection clears the files.
LEMMA DisconnectKeeps ==
  ASSUME MInv, NEW p \in Procs, Disconnect(p)
  PROVE  MInv'
  <1>1. UNCHANGED vouched /\ StopWith(p, {}) /\ Orphan(p)
    BY DEF Disconnect
  <1>2. PollsOK'
    BY <1>1, OrphanKeeps
  <1>3. /\ ConnsOK' /\ PollersOK' /\ lease' \in Procs \union {"free"}
        /\ retry' \in [Procs -> BOOLEAN] /\ release' \in [Procs -> BOOLEAN]
    BY <1>1, StopKeeps
  <1>4. FilesTyped' /\ EngineTyped'
    BY <1>3, Nothing DEF MInv, FilesTyped, EngineTyped, Disconnect
  <1> QED BY <1>2, <1>3, <1>4, Frame DEF MInv, Disconnect, hqVars

-----------------------------------------------------------------------------

\* The steps of HQ.
LEMMA HqStepKeeps == MInv /\ HqNext => MInv'
  <1> SUFFICES ASSUME MInv, HqNext PROVE MInv'
    OBVIOUS
  <1>1. CASE \E h \in Hqs : Revoke(h)
    BY <1>1, RevokeKeeps
  <1>2. CASE \E h \in Hqs : Review(h, "rejected", "none")
    BY <1>2, ReviewKeeps DEF Proofs
  <1>3. CASE \E h \in Hqs, proof \in {"right", "wrong"} : Review(h, "approved", proof)
    BY <1>3, ReviewKeeps DEF Proofs
  <1>4. CASE \E p \in Procs : HqAnswersPoll(p)
    BY <1>4, AnswerKeeps
  <1>5. CASE \E p \in Procs : HqCreatesRequest(p)
    BY <1>5, HqCreatesRequestKeeps
  <1> QED BY <1>1, <1>2, <1>3, <1>4, <1>5 DEF HqNext

\* The steps of the endpoint.
LEMMA EndpointStepKeeps == MInv /\ EndpointNext => MInv'
  <1> SUFFICES ASSUME MInv, NEW p \in Procs,
                 \/ Boot(p) \/ Serve(p) \/ Crash(p) \/ StartLoad(p) \/ StartLease(p)
                 \/ Disconnect(p)
                 \/ \E r \in pollers[p] : SendPoll(p, r)
                 \/ PollFails(p) \/ PollEnds(p) \/ PollSaves(p) \/ PollFinishes(p)
                 \/ \E c \in conns[p] : Heartbeat(p, c) \/ Denied(p, c)
                 \/ \E h \in Hqs : Submit(p, h)
                 \/ SubmitFails(p) \/ SaveRequest(p) \/ ClearOldCredential(p)
               PROVE  MInv'
    BY DEF EndpointNext
  <1>1. CASE Boot(p) \/ Serve(p) \/ Crash(p)
    BY <1>1, BootKeeps, ServeKeeps, CrashKeeps
  <1>2. CASE StartLoad(p) \/ StartLease(p) \/ Disconnect(p)
    BY <1>2, StartLoadKeeps, StartLeaseKeeps, DisconnectKeeps
  <1>3. CASE \E r \in pollers[p] : SendPoll(p, r)
    BY <1>3, SendPollKeeps
  <1>4. CASE PollFails(p) \/ PollEnds(p) \/ PollSaves(p) \/ PollFinishes(p)
    BY <1>4, PollFailsKeeps, PollEndsKeeps, PollSavesKeeps, PollFinishesKeeps
  <1>5. CASE \E c \in conns[p] : Heartbeat(p, c) \/ Denied(p, c)
    BY <1>5, HeartbeatKeeps, DeniedKeeps
  <1>6. CASE \E h \in Hqs : Submit(p, h)
    BY <1>6, SubmitKeeps
  <1>7. CASE SubmitFails(p) \/ SaveRequest(p) \/ ClearOldCredential(p)
    BY <1>7, SubmitFailsKeeps, SaveRequestKeeps, ClearOldCredentialKeeps
  <1> QED BY <1>1, <1>2, <1>3, <1>4, <1>5, <1>6, <1>7

\* Every step, and every stutter.
LEMMA MInvInductive == MInv /\ [Next]_vars => MInv'
  <1>1. MInv /\ UNCHANGED vars => MInv'
    BY Frame DEF MInv, vars
  <1> QED BY <1>1, HqStepKeeps, EndpointStepKeeps DEF Next

\* However processes, submissions, reviews and polls interleave, every place a credential
\* travels through holds verified ones only.
THEOREM ManagementInvariance == Spec => []MInv
  BY InitMInv, MInvInductive, PTL DEF Spec

\* The strengthening is one of the types.
LEMMA MInvTypes == MInv => TypeOK
  <1> SUFFICES ASSUME MInv PROVE TypeOK
    OBVIOUS
  <1>1. row \in [Hqs -> Rows] /\ starting \in [Procs -> Starts]
    BY DEF MInv, HqTyped, StartsOK
  <1>2. poll \in [Procs -> Polls] /\ submit \in [Procs -> Submits]
    BY DEF MInv, PollsOK, SubmitsOK
  <1>3. cred \in Creds \union {NoCred} /\ vouched \subseteq Creds
    BY DEF MInv, HqTyped, FilesTyped
  <1> QED BY <1>1, <1>2, <1>3 DEF MInv, HqTyped, FilesTyped, EngineTyped, ConnsOK, PollersOK,
             TypeOK, Rows, Starts, Polls, Submits

\* The types of every reachable state of the endpoint and its HQs.
THEOREM ManagementTypes == Spec => []TypeOK
  BY ManagementInvariance, MInvTypes, PTL

\* For any number of HQs, processes and requests, only a credential issued for an approval
\* with the endpoint's own verification code is saved or used by a connector.
THEOREM OnlyVerified == Spec => []CredentialIsVerified
  <1>1. MInv => CredentialIsVerified
    BY DEF MInv, FilesTyped, ConnsOK, CredentialIsVerified
  <1> QED BY <1>1, ManagementInvariance, PTL

-----------------------------------------------------------------------------
(* ConnectorLease.                                                         *)

\* Only a running process is somewhere in the protocol, and the owner record
\* of a holder carries its number.
RunningOwners ==
  \A a \in Contenders :
    /\ pc[a] # "off" => pid[a] # NoPid
    /\ a \in Holders => text[a] = pid[a]

\* While the processes have not met, one at a time is busy; it finds no file
\* only when nobody holds the lease, and takes an owner for dead likewise.
Alone ==
  /\ ~Overlap /\ OneHolder
  /\ \A a \in Holders : lock = a
  /\ \A a \in Contenders : pc[a] = "opened" => lock = a
  /\ \A a \in Contenders : pc[a] \in {"opened", "stale"} => Holders = {}

LeaseInv == LeaseTypeOK /\ RunningOwners /\ (~met => Alone)

-----------------------------------------------------------------------------

\* Everything in the type invariant but the history.
LeaseTyped ==
  /\ pid \in [Contenders -> Pids \union {NoPid}] /\ pc \in [Contenders -> Steps]
  /\ attempt \in [Contenders -> 0..1]
  /\ lock \in Contenders \union {"none"} /\ text \in [Contenders -> Pids \union {NoPid}]
  /\ used \subseteq Pids /\ others \subseteq used
  /\ exits \in 0..MaxExits

LEMMA TypedHistory == LeaseTypeOK <=> LeaseTyped /\ met \in BOOLEAN
BY Zenon DEF LeaseTypeOK, LeaseTyped

\* The history stays a truth value.
LEMMA MeetTyped == Meet /\ LeaseTyped' => LeaseTypeOK'
<1> SUFFICES ASSUME Meet, LeaseTyped' PROVE LeaseTypeOK'
  OBVIOUS
<1>1. met' \in BOOLEAN
  BY Zenon DEF Meet
<1> QED  BY <1>1, Zenon DEF LeaseTypeOK, LeaseTyped

LEMMA LeaseInitInv == LeaseInit => LeaseInv
<1> SUFFICES ASSUME LeaseInit PROVE LeaseInv
  OBVIOUS
<1>1. LeaseTyped
  BY LeaseAssumption DEF LeaseInit, LeaseTyped, Steps
<1>2. met \in BOOLEAN
  BY Zenon DEF LeaseInit
<1>3. RunningOwners /\ Alone
  BY DEF LeaseInit, RunningOwners, Alone, Overlap, OneHolder, Holders, Busy
<1> QED  BY <1>1, <1>2, <1>3, TypedHistory DEF LeaseInv

\* Processes that settled are alone.
LEMMA SettledAlone == Settled => Alone
BY DEF Settled, Alone, Overlap, Busy

\* What a step has to show: met stays or becomes false only when the
\* processes settled, or were not met and do not overlap.
LEMMA MeetCases ==
  ASSUME LeaseInv, LeaseTypeOK', RunningOwners', Meet,
         ~met /\ Alone /\ ~Overlap' => Alone'
  PROVE  LeaseInv'
<1>1. CASE Settled'
  BY <1>1, SettledAlone, PTL DEF LeaseInv
<1>2. CASE ~Settled'
  BY <1>2 DEF Meet, LeaseInv
<1> QED  BY <1>1, <1>2

\* Processes come and go.
LEMMA ProcessStep ==
  ASSUME LeaseInv,
         \/ \E a \in Contenders, n \in Pids : ProcessStarts(a, n)
         \/ \E n \in Pids : OtherBoots(n) \/ OtherExits(n)
         \/ \E a \in Contenders : ProcessExits(a)
  PROVE  LeaseInv'
<1> USE LeaseAssumption
<1>1. ASSUME NEW a \in Contenders, NEW n \in Pids, ProcessStarts(a, n)
      PROVE  LeaseInv'
  <2>1. LeaseTypeOK' /\ Meet
    <3>1. LeaseTyped' /\ Meet
      BY <1>1 DEF ProcessStarts, LeaseInv, LeaseTypeOK, LeaseTyped
    <3> QED  BY <3>1, MeetTyped
  <2>2. RunningOwners'
    BY <1>1 DEF ProcessStarts, LeaseInv, LeaseTypeOK, RunningOwners, Holders
  <2>3. Alone /\ ~Overlap' => Alone'
    BY <1>1 DEF ProcessStarts, Alone, OneHolder, Holders
  <2> QED  BY <2>1, <2>2, <2>3, MeetCases
<1>2. ASSUME NEW n \in Pids, OtherBoots(n) \/ OtherExits(n)
      PROVE  LeaseInv'
  <2>1. LeaseTypeOK' /\ Meet
    <3>1. LeaseTyped' /\ Meet
      BY <1>2 DEF OtherBoots, OtherExits, LeaseInv, LeaseTypeOK, LeaseTyped
    <3> QED  BY <3>1, MeetTyped
  <2>2. RunningOwners'
    BY <1>2 DEF OtherBoots, OtherExits, LeaseInv, RunningOwners, Holders
  <2>3. Alone /\ ~Overlap' => Alone'
    BY <1>2 DEF OtherBoots, OtherExits, Alone, OneHolder, Holders
  <2> QED  BY <2>1, <2>2, <2>3, MeetCases
<1>3. ASSUME NEW a \in Contenders, ProcessExits(a)
      PROVE  LeaseInv'
  <2>0. /\ pc'[a] = "off" /\ \A b \in Contenders \ {a} : pc'[b] = pc[b] /\ pid'[b] = pid[b]
        /\ UNCHANGED <<lock, text>>
    BY <1>3 DEF ProcessExits, Goto, LeaseInv, LeaseTypeOK
  <2>1. LeaseTypeOK' /\ Meet
    <3>1. LeaseTyped' /\ Meet
      BY <1>3 DEF ProcessExits, Goto, LeaseInv, LeaseTypeOK, LeaseTyped, Steps
    <3> QED  BY <3>1, MeetTyped
  <2>2. RunningOwners'
    BY <2>0 DEF LeaseInv, RunningOwners, Holders
  <2>3. Alone /\ ~Overlap' => Alone'
    BY <2>0 DEF Alone, OneHolder, Holders
  <2> QED  BY <2>1, <2>2, <2>3, MeetCases
<1> QED  BY <1>1, <1>2, <1>3

\* A step of process a in the protocol leaves the others where they are.
LEMMA ProtocolStep ==
  ASSUME LeaseInv, NEW a \in Contenders, NEW s \in Steps,
         Goto(a, s), pc[a] # "off" \/ pid[a] # NoPid,
         attempt' \in [Contenders -> 0..1],
         \/ UNCHANGED text
         \/ text' = [text EXCEPT ![a] = NoPid] /\ s \notin {"holds", "release", "owned"}
         \/ text' = [text EXCEPT ![a] = pid[a]],
         s \in {"holds", "release", "owned"} => text'[a] = pid[a],
         lock' \in Contenders \union {"none"},
         UNCHANGED <<pid, used, others, exits>>, Meet,
         ~met /\ Alone /\ ~Overlap' => Alone'
  PROVE  LeaseInv'
<1>0. pc'[a] = s /\ \A b \in Contenders \ {a} : pc'[b] = pc[b]
  BY DEF Goto, LeaseInv, LeaseTypeOK
<1>1. LeaseTypeOK'
  <2>1. LeaseTyped'
    BY LeaseAssumption DEF Goto, LeaseInv, LeaseTypeOK, LeaseTyped
  <2> QED  BY <2>1, MeetTyped
<1>2. \A b \in Contenders \ {a} : text'[b] = text[b]
  BY DEF LeaseInv, LeaseTypeOK
<1>3. pid[a] # NoPid
  BY DEF LeaseInv, RunningOwners
<1>4. RunningOwners'
  BY <1>0, <1>2, <1>3 DEF LeaseInv, RunningOwners, Holders
<1> QED  BY <1>1, <1>4, MeetCases

\* A busy process that is alone is the only one; whoever holds is not busy.
LEMMA OnlyBusy ==
  ASSUME Alone, NEW a \in Contenders, Busy(a)
  PROVE  \A b \in Contenders \ {a} : pc[b] \in {"off", "waiting", "holds"}
BY DEF Alone, Overlap, Busy

LEMMA BeginStep ==
  ASSUME LeaseInv, NEW a \in Contenders, Start(a) \/ Retry(a)
  PROVE  LeaseInv'
<1>0. /\ Begin(a) /\ pc[a] \in {"off", "waiting"} /\ (pc[a] # "off" \/ pid[a] # NoPid)
      /\ pc'[a] = "open" /\ \A b \in Contenders \ {a} : pc'[b] = pc[b]
  BY DEF Start, Retry, Begin, Goto, LeaseInv, LeaseTypeOK
<1>1. Alone /\ ~Overlap' => Alone'
  BY <1>0 DEF Begin, Alone, OneHolder, Holders
<1>2. attempt' \in [Contenders -> 0..1] /\ lock' \in Contenders \union {"none"}
  BY <1>0 DEF Begin, LeaseInv, LeaseTypeOK
<1> QED  BY <1>0, <1>1, <1>2, ProtocolStep DEF Begin, Steps

LEMMA OpenStep ==
  ASSUME LeaseInv, NEW a \in Contenders, Open(a)
  PROVE  LeaseInv'
<1> USE LeaseAssumption
<1>1. CASE lock = "none" /\ lock' = a /\ text' = [text EXCEPT ![a] = NoPid] /\ Goto(a, "opened")
  <2>0. pc'[a] = "opened" /\ \A b \in Contenders \ {a} : pc'[b] = pc[b]
    BY <1>1 DEF Goto, LeaseInv, LeaseTypeOK
  <2>1. Alone /\ ~Overlap' => Alone'
    <3> SUFFICES ASSUME Alone, ~Overlap' PROVE Alone'
      OBVIOUS
    <3>1. Holders = {}
      BY <1>1 DEF Alone, Holders
    <3>2. Holders' = {}
      BY <2>0, <3>1 DEF Holders
    <3>3. \A b \in Contenders \ {a} : pc[b] \notin {"opened", "stale"}
      BY OnlyBusy DEF Open, Busy
    <3> QED  BY <1>1, <2>0, <3>2, <3>3 DEF Alone, OneHolder
  <2> QED  BY <1>1, <2>1, ProtocolStep DEF Open, Steps, LeaseInv, LeaseTypeOK
<1>2. CASE lock # "none" /\ Goto(a, "exists") /\ UNCHANGED <<lock, text>>
  <2>0. pc'[a] = "exists" /\ \A b \in Contenders \ {a} : pc'[b] = pc[b]
    BY <1>2 DEF Goto, LeaseInv, LeaseTypeOK
  <2>1. Alone /\ ~Overlap' => Alone'
    BY <1>2, <2>0 DEF Open, Alone, OneHolder, Holders
  <2> QED  BY <1>2, <2>1, ProtocolStep DEF Open, Steps, LeaseInv, LeaseTypeOK
<1> QED  BY <1>1, <1>2 DEF Open

LEMMA WriteStep ==
  ASSUME LeaseInv, NEW a \in Contenders, WriteOwner(a)
  PROVE  LeaseInv'
<1>0. /\ pc[a] = "opened" /\ pc'[a] = "holds" /\ \A b \in Contenders \ {a} : pc'[b] = pc[b]
      /\ text'[a] = pid[a] /\ UNCHANGED lock
  BY DEF WriteOwner, Goto, LeaseInv, LeaseTypeOK
<1>1. Alone /\ ~Overlap' => Alone'
  <2> SUFFICES ASSUME Alone, ~Overlap' PROVE Alone'
    OBVIOUS
  <2>1. Holders = {} /\ lock = a
    BY <1>0 DEF Alone
  <2>2. Holders' = {a}
    BY <1>0, <2>1 DEF Holders
  <2>3. \A b \in Contenders : pc'[b] \notin {"opened", "stale"}
    BY <1>0, OnlyBusy DEF Busy
  <2> QED  BY <1>0, <2>1, <2>2, <2>3 DEF Alone, OneHolder
<1> QED  BY <1>0, <1>1, ProtocolStep DEF WriteOwner, Steps, LeaseInv, LeaseTypeOK

LEMMA ReadStep ==
  ASSUME LeaseInv, NEW a \in Contenders, ReadOwner(a)
  PROVE  LeaseInv'
<1> DEFINE s == IF OwnerLives THEN "waiting" ELSE "stale"
<1>0. pc[a] = "exists" /\ pc'[a] = s /\ \A b \in Contenders \ {a} : pc'[b] = pc[b]
  BY DEF ReadOwner, Goto, LeaseInv, LeaseTypeOK
<1>1. ~met /\ Alone /\ ~Overlap' => Alone'
  <2> SUFFICES ASSUME ~met, Alone, ~Overlap' PROVE Alone'
    OBVIOUS
  <2>1. s = "stale" => Holders = {}
    <3> SUFFICES ASSUME ~OwnerLives, NEW h \in Holders PROVE FALSE
      BY DEF Holders
    <3>1. lock = h /\ h \in Contenders /\ text[h] = pid[h] /\ pid[h] # NoPid
      BY DEF Alone, LeaseInv, RunningOwners, Holders
    <3> QED  BY <3>1, LeaseAssumption DEF OwnerLives, Alive
  <2>2. Holders' = Holders
    BY <1>0 DEF Holders
  <2>3. UNCHANGED lock
    BY DEF ReadOwner
  <2> QED  BY <1>0, <2>1, <2>2, <2>3 DEF Alone, OneHolder
<1>2. s \in Steps \ {"holds", "release", "owned", "off"}
  BY DEF Steps
<1> QED  BY <1>0, <1>1, <1>2, ProtocolStep DEF ReadOwner, LeaseInv, LeaseTypeOK

LEMMA RemoveStep ==
  ASSUME LeaseInv, NEW a \in Contenders, RemoveStale(a)
  PROVE  LeaseInv'
<1> DEFINE s == IF attempt[a] = 0 THEN "open" ELSE "waiting"
<1>0. pc[a] = "stale" /\ pc'[a] = s /\ \A b \in Contenders \ {a} : pc'[b] = pc[b]
  BY DEF RemoveStale, Goto, LeaseInv, LeaseTypeOK
<1>1. Alone /\ ~Overlap' => Alone'
  <2> SUFFICES ASSUME Alone, ~Overlap' PROVE Alone'
    OBVIOUS
  <2>1. Holders = {} /\ \A b \in Contenders \ {a} : pc[b] \notin {"opened", "stale"}
    BY <1>0, OnlyBusy DEF Alone, Busy
  <2>2. Holders' = {}
    BY <1>0, <2>1 DEF Holders
  <2> QED  BY <1>0, <2>1, <2>2 DEF Alone, OneHolder
<1>2. s \in Steps \ {"holds", "release", "owned", "off"}
  BY DEF Steps
<1>3. attempt' \in [Contenders -> 0..1]
  BY DEF RemoveStale, LeaseInv, LeaseTypeOK
<1> QED  BY <1>0, <1>1, <1>2, <1>3, ProtocolStep DEF RemoveStale, LeaseInv, LeaseTypeOK

LEMMA ReleaseStep ==
  ASSUME LeaseInv, NEW a \in Contenders, StopManagement(a) \/ ReadOwn(a) \/ RemoveOwn(a)
  PROVE  LeaseInv'
<1>1. CASE StopManagement(a)
  <2>0. pc[a] = "holds" /\ pc'[a] = "release" /\ \A b \in Contenders \ {a} : pc'[b] = pc[b]
    BY <1>1 DEF StopManagement, Goto, LeaseInv, LeaseTypeOK
  <2>1. Alone /\ ~Overlap' => Alone'
    BY <1>1, <2>0 DEF StopManagement, Alone, OneHolder, Holders
  <2>2. text[a] = pid[a]
    BY <2>0 DEF LeaseInv, RunningOwners, Holders
  <2> QED  BY <1>1, <2>0, <2>1, <2>2, ProtocolStep DEF StopManagement, Steps, LeaseInv, LeaseTypeOK
<1>2. CASE ReadOwn(a)
  <2> DEFINE s == IF lock = a THEN "owned" ELSE "off"
  <2>0. pc[a] = "release" /\ pc'[a] = s /\ \A b \in Contenders \ {a} : pc'[b] = pc[b]
    BY <1>2 DEF ReadOwn, Goto, LeaseInv, LeaseTypeOK
  <2>1. Alone /\ ~Overlap' => Alone'
    BY <1>2, <2>0 DEF ReadOwn, Alone, OneHolder, Holders
  <2>2. text[a] = pid[a] /\ s \in Steps
    BY <2>0 DEF LeaseInv, RunningOwners, Holders, Steps
  <2> QED  BY <1>2, <2>0, <2>1, <2>2, ProtocolStep DEF ReadOwn, LeaseInv, LeaseTypeOK
<1>3. CASE RemoveOwn(a)
  <2>0. pc[a] = "owned" /\ pc'[a] = "off" /\ \A b \in Contenders \ {a} : pc'[b] = pc[b]
    BY <1>3 DEF RemoveOwn, Goto, LeaseInv, LeaseTypeOK
  <2>1. Alone /\ ~Overlap' => Alone'
    <3> SUFFICES ASSUME Alone, ~Overlap' PROVE Alone'
      OBVIOUS
    <3>1. Holders' = {}
      BY <2>0 DEF Alone, OneHolder, Holders
    <3>2. \A b \in Contenders : pc'[b] \notin {"opened", "stale"}
      BY <2>0, OnlyBusy DEF Busy
    <3> QED  BY <3>1, <3>2 DEF Alone, OneHolder
  <2> QED  BY <1>3, <2>0, <2>1, ProtocolStep DEF RemoveOwn, Steps, LeaseInv, LeaseTypeOK
<1> QED  BY <1>1, <1>2, <1>3

LEMMA LeaseStepInv == LeaseInv /\ [LeaseNext]_leaseVars => LeaseInv'
<1> SUFFICES ASSUME LeaseInv, [LeaseNext]_leaseVars PROVE LeaseInv'
  OBVIOUS
<1>1. CASE UNCHANGED leaseVars
  BY <1>1 DEF leaseVars, LeaseInv, LeaseTypeOK, RunningOwners, Alone, Overlap, OneHolder,
              Holders, Busy
<1> QED
  BY <1>1, ProcessStep, BeginStep, OpenStep, WriteStep, ReadStep, RemoveStep, ReleaseStep
     DEF LeaseNext, Step

\* However processes start, exit, wait and release, the protocol state is
\* consistent.
THEOREM LeaseInvariance == LeaseSpec => []LeaseInv
BY LeaseInitInv, LeaseStepInv, PTL DEF LeaseSpec

\* The types of every reachable state.
THEOREM LeaseTypes == LeaseSpec => []LeaseTypeOK
<1>1. LeaseInv => LeaseTypeOK
  BY DEF LeaseInv
<1> QED  BY <1>1, LeaseInvariance, PTL

\* Acquisitions and releases that do not overlap leave at most one holder,
\* with its own file in place, for any number of processes and exits.
THEOREM LeaseIsExclusive == LeaseSpec => []ExclusiveUnlessMet
<1>1. LeaseInv => ExclusiveUnlessMet
  BY DEF LeaseInv, ExclusiveUnlessMet, Alone, RunningOwners, Holders
<1> QED  BY <1>1, LeaseInvariance, PTL
=============================================================================
