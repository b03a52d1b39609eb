-------------------------- MODULE MaintenanceProofs --------------------------
(***************************************************************************)
(* Theorems about Maintenance for any endpoints, passwords, requests,      *)
(* concurrent calls and number of uses.                                    *)
(***************************************************************************)
EXTENDS Maintenance, TLAPS

\* A password expires or is known to a request only after it was issued, and
\* has a use left while its row is not revoked; a call was admitted for a
\* device and a password; only an approved request has a password.
RowsConsistent ==
  /\ \A p \in Passwords : password[p].state = "unused" => p \notin elapsed
  /\ \A p \in Passwords : password[p].state = "issued" => password[p].uses >= 1
  /\ \A c \in Calls : call[c].step = "admitted" =>
       call[c].password \in Passwords /\ call[c].device \in Devices
  /\ \A r \in Requests : request[r].status # "approved" => request[r].password = NoPassword
  /\ \A r \in Requests : request[r].status # "none" => request[r].device \in Devices
  /\ \A r \in Requests, p \in Passwords :
       request[r].password = p => password[p].state # "unused"

IInv == TypeOK /\ RowsConsistent /\ OneTimePasswordHasApproval

-----------------------------------------------------------------------------

\* A row stays a row when one of its fields changes.
LEMMA ExpiredRow ==
  ASSUME NEW row \in RequestRows, NEW s \in {"approved", "rejected", "expired"},
         NEW q \in Passwords \union {NoPassword}
  PROVE  /\ [row EXCEPT !.status = s] \in RequestRows
         /\ [row EXCEPT !.status = s].status = s
         /\ [row EXCEPT !.status = s].device = row.device
         /\ [row EXCEPT !.status = s].password = row.password
         /\ [row EXCEPT !.status = s, !.password = q] \in RequestRows
BY DEF RequestRows

LEMMA ChangedPassword ==
  ASSUME NEW row \in PasswordRows, NEW s \in {"unused", "issued", "revoked"},
         NEW n \in 0..MaxUses
  PROVE  /\ [row EXCEPT !.state = s] \in PasswordRows
         /\ [row EXCEPT !.state = s].state = s
         /\ [row EXCEPT !.state = s].device = row.device
         /\ [row EXCEPT !.state = s].uses = row.uses
         /\ [row EXCEPT !.uses = n] \in PasswordRows
         /\ [row EXCEPT !.uses = n].uses = n
         /\ [row EXCEPT !.uses = n].state = row.state
         /\ [row EXCEPT !.uses = n].device = row.device
BY DEF PasswordRows

\* Looking at requests changes the status of pending ones only, to expired.
LEMMA LapseOnlyExpires ==
  ASSUME NEW looked, TypeOK
  PROVE  /\ Lapse(looked) \in [Requests -> RequestRows]
         /\ \A r \in Requests :
              /\ Lapse(looked)[r].device = request[r].device
              /\ Lapse(looked)[r].password = request[r].password
              /\ Lapse(looked)[r].status = request[r].status
                 \/ (request[r].status = "pending" /\ Lapse(looked)[r].status = "expired")
<1>1. ASSUME NEW r \in Requests
      PROVE  Lapse(looked)[r] = IF r \in looked \intersect closed /\ request[r].status = "pending"
                                THEN [request[r] EXCEPT !.status = "expired"] ELSE request[r]
  BY <1>1 DEF Lapse
<1>2. \A r \in Requests :
         /\ request[r] \in RequestRows
         /\ [request[r] EXCEPT !.status = "expired"] \in RequestRows
         /\ [request[r] EXCEPT !.status = "expired"].status = "expired"
         /\ [request[r] EXCEPT !.status = "expired"].device = request[r].device
         /\ [request[r] EXCEPT !.status = "expired"].password = request[r].password
  BY ExpiredRow DEF TypeOK
<1>3. Lapse(looked) = [r \in Requests |-> Lapse(looked)[r]]
  BY DEF Lapse
<1>4. \A r \in Requests :
         /\ Lapse(looked)[r] \in RequestRows
         /\ Lapse(looked)[r].device = request[r].device
         /\ Lapse(looked)[r].password = request[r].password
         /\ Lapse(looked)[r].status = request[r].status
            \/ (request[r].status = "pending" /\ Lapse(looked)[r].status = "expired")
  <2> SUFFICES ASSUME NEW r \in Requests
               PROVE  /\ Lapse(looked)[r] \in RequestRows
                      /\ Lapse(looked)[r].device = request[r].device
                      /\ Lapse(looked)[r].password = request[r].password
                      /\ Lapse(looked)[r].status = request[r].status
                         \/ (request[r].status = "pending" /\ Lapse(looked)[r].status = "expired")
    OBVIOUS
  <2>1. CASE r \in looked \intersect closed /\ request[r].status = "pending"
    <3>1. Lapse(looked)[r] = [request[r] EXCEPT !.status = "expired"]
      BY <1>1, <2>1
    <3> QED  BY <3>1, <2>1, <1>2
  <2>2. CASE ~(r \in looked \intersect closed /\ request[r].status = "pending")
    <3>1. Lapse(looked)[r] = request[r]
      BY <1>1, <2>2
    <3> QED  BY <3>1, <1>2
  <2> QED  BY <2>1, <2>2
<1> QED  BY <1>3, <1>4

\* A request that can be reviewed is pending in its row.
LEMMA ReviewableIsPending ==
  ASSUME NEW r \in Requests, TypeOK, Reviewable(r)
  PROVE  request[r].status = "pending"
BY LapseOnlyExpires DEF Reviewable

LEMMA InitInvariant == Init => IInv
<1> SUFFICES ASSUME Init PROVE IInv
  OBVIOUS
<1> USE MaintenanceAssumption
<1>1. TypeOK
  BY DEF Init, TypeOK, NotIssued, NoRequest, NoCall, PasswordRows, RequestRows
<1>2. RowsConsistent
  BY DEF Init, RowsConsistent, NotIssued, NoRequest, NoCall, NoPassword
<1>3. OneTimePasswordHasApproval
  BY DEF Init, OneTimePasswordHasApproval, NotIssued
<1> QED  BY <1>1, <1>2, <1>3 DEF IInv

\* Issuing a password writes one row.
LEMMA IssuedRows ==
  ASSUME TypeOK, NEW p \in Passwords, NEW n \in 1..MaxUses, NEW d \in Devices \union {"all"}
  PROVE  /\ Issued(p, n, d) \in [Passwords -> PasswordRows]
         /\ Issued(p, n, d)[p] = [state |-> "issued", device |-> d, uses |-> n, total |-> n]
         /\ \A q \in Passwords \ {p} : Issued(p, n, d)[q] = password[q]
<1>1. n \in 0..MaxUses
  BY MaintenanceAssumption
<1>2. [state |-> "issued", device |-> d, uses |-> n, total |-> n] \in PasswordRows
  BY <1>1 DEF PasswordRows
<1> QED  BY <1>2 DEF Issued, TypeOK

-----------------------------------------------------------------------------
(* Every action keeps the invariant.                                       *)

LEMMA PasswordStep == IInv /\ PasswordNext => IInv'
<1> SUFFICES ASSUME IInv, NEW p \in Passwords,
                    AdminRevokesPassword(p) \/ PasswordExpires(p)
                      \/ \E n \in 1..MaxUses : AdminCreatesPassword(p, n)
             PROVE  IInv'
  BY DEF PasswordNext
<1> USE MaintenanceAssumption DEF IInv
<1>1. CASE AdminRevokesPassword(p)
  <2>1. TypeOK'
    <3>1. [password[p] EXCEPT !.state = "revoked"] \in PasswordRows
      BY ChangedPassword, 0 \in 0..MaxUses DEF TypeOK
    <3> QED  BY <1>1, <3>1 DEF AdminRevokesPassword, TypeOK
  <2>2. RowsConsistent'
    BY <1>1 DEF AdminRevokesPassword, TypeOK, RowsConsistent
  <2>3. OneTimePasswordHasApproval'
    BY <1>1 DEF AdminRevokesPassword, TypeOK, OneTimePasswordHasApproval
  <2> QED  BY <2>1, <2>2, <2>3
<1>2. CASE PasswordExpires(p)
  <2>1. TypeOK'
    BY <1>2 DEF PasswordExpires, TypeOK
  <2>2. RowsConsistent'
    BY <1>2 DEF PasswordExpires, TypeOK, RowsConsistent
  <2>3. OneTimePasswordHasApproval'
    BY <1>2 DEF PasswordExpires, OneTimePasswordHasApproval
  <2> QED  BY <2>1, <2>2, <2>3
<1>3. ASSUME NEW n \in 1..MaxUses, AdminCreatesPassword(p, n)
      PROVE  IInv'
  <2>1. TypeOK'
    BY <1>3, IssuedRows DEF AdminCreatesPassword, TypeOK
  <2>2. RowsConsistent'
    BY <1>3 DEF AdminCreatesPassword, Issued, TypeOK, RowsConsistent
  <2>3. OneTimePasswordHasApproval'
    BY <1>3 DEF AdminCreatesPassword, Issued, TypeOK, OneTimePasswordHasApproval
  <2> QED  BY <2>1, <2>2, <2>3
<1> QED  BY <1>1, <1>2, <1>3

\* An action that only looks at requests.
LEMMA LookStep ==
  ASSUME NEW looked, IInv, request' = Lapse(looked),
         waiting' \in [Requests -> {"no", "polling", "delivered", "failed"}],
         UNCHANGED <<enrolled, password, elapsed, closed, call, unreached, granted>>
  PROVE  IInv'
<1> USE MaintenanceAssumption DEF IInv
<1>0. \A r \in Requests :
        /\ request'[r].device = request[r].device
        /\ request'[r].password = request[r].password
        /\ request'[r].status = request[r].status
           \/ (request[r].status = "pending" /\ request'[r].status = "expired")
  BY LapseOnlyExpires
<1>1. TypeOK'
  BY LapseOnlyExpires DEF TypeOK
<1>2. RowsConsistent'
  BY <1>0 DEF RowsConsistent
<1>3. OneTimePasswordHasApproval'
  BY <1>0 DEF OneTimePasswordHasApproval
<1> QED  BY <1>1, <1>2, <1>3

LEMMA RequestStep == IInv /\ RequestNext => IInv'
<1> SUFFICES ASSUME IInv, NEW r \in Requests,
                    WindowCloses(r) \/ EndpointPolls(r) \/ EndpointGivesUp(r)
                      \/ \E d \in Devices : EndpointRequests(d, r)
             PROVE  IInv'
  BY DEF RequestNext
<1> USE MaintenanceAssumption DEF IInv
<1>1. CASE WindowCloses(r)
  BY <1>1 DEF WindowCloses, TypeOK, RowsConsistent, OneTimePasswordHasApproval
<1>2. CASE EndpointPolls(r)
  <2>1. waiting' \in [Requests -> {"no", "polling", "delivered", "failed"}]
    BY <1>2 DEF EndpointPolls, TypeOK
  <2> QED  BY <1>2, <2>1, LookStep DEF EndpointPolls
<1>3. CASE EndpointGivesUp(r)
  BY <1>3 DEF EndpointGivesUp, TypeOK, RowsConsistent, OneTimePasswordHasApproval
<1>4. ASSUME NEW d \in Devices, EndpointRequests(d, r)
      PROVE  IInv'
  <2>1. request'[r] = [status |-> "pending", device |-> d, password |-> NoPassword]
    BY <1>4, LapseOnlyExpires DEF EndpointRequests
  <2>2. \A s \in Requests \ {r} :
          /\ request'[s].device = request[s].device
          /\ request'[s].password = request[s].password
          /\ request'[s].status = request[s].status
             \/ (request[s].status = "pending" /\ request'[s].status = "expired")
    BY <1>4, LapseOnlyExpires DEF EndpointRequests
  <2>3. request[r].status = "none" /\ UNCHANGED <<password, elapsed, call, unreached>>
    BY <1>4 DEF EndpointRequests
  <2>4. TypeOK'
    <3>1. [status |-> "pending", device |-> d, password |-> NoPassword] \in RequestRows
      BY DEF RequestRows
    <3>2. Lapse(Requests) \in [Requests -> RequestRows]
      BY LapseOnlyExpires
    <3>3. request' \in [Requests -> RequestRows]
      BY <1>4, <3>1, <3>2 DEF EndpointRequests
    <3>4. waiting' \in [Requests -> {"no", "polling", "delivered", "failed"}]
      BY <1>4 DEF EndpointRequests, TypeOK
    <3>5. UNCHANGED <<enrolled, password, elapsed, closed, call, unreached, granted>>
      BY <1>4 DEF EndpointRequests
    <3> QED  BY <3>3, <3>4, <3>5 DEF TypeOK
  <2>5. RowsConsistent'
    BY <2>1, <2>2, <2>3 DEF RowsConsistent, NoPassword
  <2>6. OneTimePasswordHasApproval'
    BY <2>1, <2>2, <2>3 DEF OneTimePasswordHasApproval, NoPassword
  <2> QED  BY <2>4, <2>5, <2>6
<1> QED  BY <1>1, <1>2, <1>3, <1>4

LEMMA ReviewStep == IInv /\ ReviewNext => IInv'
<1> SUFFICES ASSUME IInv, NEW r \in Requests,
                    AdminRejects(r) \/ \E p \in Passwords :
                      AdminApproves(r, p) \/ ReviewFails(r, p) \/ HqExitsInReview(r, p)
             PROVE  IInv'
  BY DEF ReviewNext
<1> USE MaintenanceAssumption DEF IInv
<1>0. request[r].status = "pending"
  BY ReviewableIsPending DEF AdminRejects, AdminApproves, ReviewFails, HqExitsInReview
<1>d. request[r].device \in Devices /\ request[r].password = NoPassword
  BY <1>0 DEF RowsConsistent
<1>1. CASE AdminRejects(r)
  <2>1. TypeOK'
    <3>1. [request[r] EXCEPT !.status = "rejected"] \in RequestRows
      BY ExpiredRow DEF TypeOK
    <3> QED  BY <1>1, <3>1 DEF AdminRejects, TypeOK
  <2>2. RowsConsistent'
    BY <1>0, <1>1, <1>d DEF AdminRejects, TypeOK, RowsConsistent
  <2>3. OneTimePasswordHasApproval'
    BY <1>0, <1>1 DEF AdminRejects, TypeOK, OneTimePasswordHasApproval
  <2> QED  BY <2>1, <2>2, <2>3
<1>2. ASSUME NEW p \in Passwords, AdminApproves(r, p)
      PROVE  IInv'
  <2> DEFINE d == request[r].device
  <2>1. /\ password[p].state = "unused"
        /\ password' \in [Passwords -> PasswordRows]
        /\ password'[p] = [state |-> "issued", device |-> d, uses |-> 1, total |-> 1]
        /\ \A q \in Passwords \ {p} : password'[q] = password[q]
        /\ UNCHANGED <<enrolled, elapsed, closed, waiting, call, unreached, granted>>
    BY <1>2, <1>d, IssuedRows DEF AdminApproves
  <2>2. [request[r] EXCEPT !.status = "approved", !.password = p] \in RequestRows
    BY ExpiredRow DEF TypeOK
  <2>3. /\ request' \in [Requests -> RequestRows]
        /\ request'[r].status = "approved" /\ request'[r].password = p
        /\ request'[r].device = d
        /\ \A s \in Requests \ {r} : request'[s] = request[s]
    BY <1>2, <2>2 DEF AdminApproves, TypeOK, RequestRows
  <2>4. TypeOK'
    BY <2>1, <2>3 DEF TypeOK
  <2>5. RowsConsistent'
    BY <2>1, <2>3, <1>d DEF RowsConsistent
  <2>6. OneTimePasswordHasApproval'
    <3> SUFFICES ASSUME NEW q \in Passwords \ unreached', password'[q].state = "issued",
                        password'[q].device # "all"
                 PROVE  \E s \in Requests :
                          /\ request'[s].status = "approved" /\ request'[s].password = q
                          /\ request'[s].device = password'[q].device
                          /\ \A t \in Requests \ {s} : request'[t].password # q
      BY DEF OneTimePasswordHasApproval
    <3>1. CASE q = p
      <4>1. \A t \in Requests : request[t].password # p
        BY <2>1 DEF RowsConsistent
      <4>2. \A t \in Requests \ {r} : request'[t].password # p
        BY <2>3, <4>1
      <4> QED  BY <3>1, <2>1, <2>3, <4>2
    <3>2. CASE q # p
      <4>1. q \in Passwords \ unreached /\ password'[q] = password[q]
        BY <2>1, <3>2
      <4>2. PICK s \in Requests :
               /\ request[s].status = "approved" /\ request[s].password = q
               /\ request[s].device = password[q].device
               /\ \A t \in Requests \ {s} : request[t].password # q
        BY <4>1 DEF OneTimePasswordHasApproval
      <4>3. s # r
        BY <1>0, <4>2
      <4> QED  BY <3>2, <4>1, <4>2, <4>3, <2>3
    <3> QED  BY <3>1, <3>2
  <2> QED  BY <2>4, <2>5, <2>6
<1>3. ASSUME NEW p \in Passwords, ReviewFails(r, p)
      PROVE  IInv'
  <2> DEFINE row == [state |-> "revoked", device |-> request[r].device, uses |-> 1, total |-> 1]
  <2>0. row \in PasswordRows
    BY <1>d DEF PasswordRows
  <2>1. /\ password' = [password EXCEPT ![p] = row]
        /\ password' \in [Passwords -> PasswordRows]
        /\ password'[p] = row
        /\ \A q \in Passwords \ {p} : password'[q] = password[q]
    BY <1>3, <2>0 DEF ReviewFails, Issued, TypeOK
  <2>r. [request[r] EXCEPT !.status = "expired"] \in RequestRows
    BY ExpiredRow DEF TypeOK
  <2>2. /\ request' \in [Requests -> RequestRows]
        /\ \A s \in Requests :
            /\ request'[s].device = request[s].device
            /\ request'[s].password = request[s].password
            /\ request'[s].status = request[s].status
               \/ (request[s].status = "pending" /\ request'[s].status = "expired")
    <3>0. request' \in [Requests -> RequestRows] /\ request \in [Requests -> RequestRows]
      BY <1>3, <2>r DEF ReviewFails, TypeOK
    <3>1. CASE UNCHANGED request
      BY <3>0, <3>1
    <3>2. CASE request' = [request EXCEPT ![r].status = "expired"]
      <4>1. request' = [request EXCEPT ![r] = [request[r] EXCEPT !.status = "expired"]]
        BY <3>2
      <4>2. [request[r] EXCEPT !.status = "expired"].status = "expired"
            /\ [request[r] EXCEPT !.status = "expired"].device = request[r].device
            /\ [request[r] EXCEPT !.status = "expired"].password = request[r].password
        BY ExpiredRow DEF TypeOK
      <4> QED  BY <3>0, <4>1, <4>2, <1>0
    <3> QED  BY <1>3, <3>1, <3>2 DEF ReviewFails
  <2>3. /\ closed' \subseteq Requests
        /\ UNCHANGED <<enrolled, elapsed, waiting, call, unreached, granted>>
    BY <1>3 DEF ReviewFails, TypeOK
  <2>4. TypeOK'
    BY <2>1, <2>2, <2>3, <1>d DEF TypeOK
  <2>5. RowsConsistent'
    BY <2>1, <2>2, <2>3 DEF RowsConsistent
  <2>6. OneTimePasswordHasApproval'
    BY <2>1, <2>2, <2>3 DEF OneTimePasswordHasApproval
  <2> QED  BY <2>4, <2>5, <2>6
<1>4. ASSUME NEW p \in Passwords, HqExitsInReview(r, p)
      PROVE  IInv'
  <2>1. TypeOK'
    <3>1. password' \in [Passwords -> PasswordRows]
      <4>1. password' = Issued(p, 1, request[r].device) /\ 1 \in 1..MaxUses
        BY <1>4 DEF HqExitsInReview
      <4> QED  BY <4>1, <1>d, IssuedRows
    <3>2. UNCHANGED <<enrolled, elapsed, request, closed, waiting, granted>>
          /\ unreached' \subseteq Passwords
      BY <1>4 DEF HqExitsInReview, TypeOK
    <3>3. call' \in [Calls -> [step : {"idle", "admitted"}, device : Devices \union {"all"},
                               password : Passwords \union {NoPassword}]]
      BY <1>4 DEF HqExitsInReview, NoCall
    <3> QED  BY <3>1, <3>2, <3>3 DEF TypeOK
  <2>2. RowsConsistent'
    BY <1>4 DEF HqExitsInReview, Issued, TypeOK, RowsConsistent, NoCall
  <2>3. OneTimePasswordHasApproval'
    BY <1>4 DEF HqExitsInReview, Issued, TypeOK, OneTimePasswordHasApproval
  <2> QED  BY <2>1, <2>2, <2>3
<1> QED  BY <1>1, <1>2, <1>3, <1>4

\* Using a usable password leaves a typed row that still has a use or is
\* revoked.
LEMMA UseKeepsRows ==
  ASSUME TypeOK, NEW p \in Passwords, password[p].state = "issued", password[p].uses >= 1
  PROVE  /\ Use(p) \in [Passwords -> PasswordRows]
         /\ \A q \in Passwords \ {p} : Use(p)[q] = password[q]
         /\ Use(p)[p].device = password[p].device
         /\ \/ password[p].uses = 1 /\ Use(p)[p].state = "revoked"
            \/ /\ Use(p)[p].state = "issued"
               /\ Use(p)[p].uses = password[p].uses - 1 /\ Use(p)[p].uses >= 1
<1> USE MaintenanceAssumption
<1>1. password[p].uses \in 0..MaxUses
  BY DEF TypeOK, PasswordRows
<1>2. CASE password[p].uses <= 1
  <2>1. Use(p) = [password EXCEPT ![p] = [password[p] EXCEPT !.state = "revoked"]]
    BY <1>2 DEF Use
  <2>2. /\ [password[p] EXCEPT !.state = "revoked"] \in PasswordRows
        /\ [password[p] EXCEPT !.state = "revoked"].state = "revoked"
        /\ [password[p] EXCEPT !.state = "revoked"].device = password[p].device
    BY <1>1, ChangedPassword DEF TypeOK
  <2>3. password[p].uses = 1
    BY <1>1, <1>2
  <2> QED  BY <2>1, <2>2, <2>3 DEF TypeOK
<1>3. CASE ~(password[p].uses <= 1)
  <2>1. password[p].uses - 1 \in 0..MaxUses /\ password[p].uses - 1 >= 1
    BY <1>1, <1>3
  <2>2. Use(p) = [password EXCEPT ![p] = [password[p] EXCEPT !.uses = password[p].uses - 1]]
    BY <1>3 DEF Use
  <2> DEFINE row == [password[p] EXCEPT !.uses = password[p].uses - 1]
  <2>3. /\ row \in PasswordRows /\ row.state = "issued"
        /\ row.uses = password[p].uses - 1 /\ row.device = password[p].device
    <3>1. password[p] \in PasswordRows
      BY DEF TypeOK
    <3> QED  BY <2>1, <3>1, ChangedPassword
  <2> HIDE DEF row
  <2>4. Use(p) = [password EXCEPT ![p] = row]
    BY <2>2 DEF row
  <2> QED  BY <2>1, <2>3, <2>4 DEF TypeOK
<1> QED  BY <1>2, <1>3

LEMMA CallStep == IInv /\ CallNext => IInv'
<1> SUFFICES ASSUME IInv, NEW c \in Calls,
                    Consume(c) \/ \E d \in Devices, p \in Passwords : StartCall(c, d, p)
             PROVE  IInv'
  BY DEF CallNext
<1> USE MaintenanceAssumption DEF IInv
<1>1. CASE Consume(c)
  <2> DEFINE d == call[c].device
             p == call[c].password
  <2>1. p \in Passwords /\ d \in Devices
    BY <1>1 DEF Consume, RowsConsistent
  <2>2. /\ call' = [call EXCEPT ![c] = NoCall]
        /\ UNCHANGED <<enrolled, elapsed, request, closed, waiting, unreached>>
    BY <1>1 DEF Consume
  <2>3. CASE /\ Usable(p, d) /\ password' = Use(p)
             /\ granted' = [granted EXCEPT ![p][d] = @ + 1]
    <3>1. password[p].state = "issued" /\ password[p].uses >= 1
      BY <2>1, <2>3 DEF Usable, RowsConsistent
    <3>c. /\ call'[c].step = "idle"
          /\ \A b \in Calls \ {c} : call'[b] = call[b]
      BY <2>2 DEF TypeOK, NoCall
    <3>2. TypeOK'
      BY <2>1, <2>2, <2>3, <3>1, UseKeepsRows DEF TypeOK, NoCall
    <3>3. RowsConsistent'
      BY <2>1, <2>2, <2>3, <3>1, UseKeepsRows, <3>c DEF RowsConsistent
    <3>4. OneTimePasswordHasApproval'
      BY <2>1, <2>2, <2>3, <3>1, UseKeepsRows DEF OneTimePasswordHasApproval
    <3> QED  BY <3>2, <3>3, <3>4
  <2>4. CASE UNCHANGED <<password, granted>>
    BY <2>2, <2>4 DEF TypeOK, NoCall, RowsConsistent, OneTimePasswordHasApproval
  <2> QED  BY <1>1, <2>3, <2>4 DEF Consume
<1>2. ASSUME NEW d \in Devices, NEW p \in Passwords, StartCall(c, d, p)
      PROVE  IInv'
  <2>1. TypeOK'
    BY <1>2 DEF StartCall, TypeOK
  <2>2. RowsConsistent'
    BY <1>2 DEF StartCall, TypeOK, RowsConsistent
  <2>3. OneTimePasswordHasApproval'
    BY <1>2 DEF StartCall, OneTimePasswordHasApproval
  <2> QED  BY <2>1, <2>2, <2>3
<1> QED  BY <1>1, <1>2

LEMMA StepInvariant == IInv /\ [Next]_vars => IInv'
<1> SUFFICES ASSUME IInv, [Next]_vars PROVE IInv'
  OBVIOUS
<1>1. CASE AdminLooks(Requests) \/ \E r \in Requests : AdminLooks({r})
  BY <1>1, LookStep DEF AdminLooks, IInv, TypeOK
<1>2. CASE \E d \in Devices : RevokeDevice(d)
  BY <1>2 DEF RevokeDevice, IInv, TypeOK, RowsConsistent, OneTimePasswordHasApproval
<1>3. CASE UNCHANGED vars
  BY <1>3 DEF vars, IInv, TypeOK, RowsConsistent, OneTimePasswordHasApproval
<1> QED
  BY <1>1, <1>2, <1>3, PasswordStep, RequestStep, ReviewStep, CallStep DEF Next

\* Whatever endpoints, administrators, calls and deadlines interleave, the
\* rows of the store stay consistent.
THEOREM Invariance == Spec => []IInv
BY InitInvariant, StepInvariant, PTL DEF Spec

\* The types of every reachable state.
THEOREM TypeCorrect == Spec => []TypeOK
<1>1. IInv => TypeOK
  BY DEF IInv
<1> QED  BY <1>1, Invariance, PTL

\* No failed review leaves a usable password: each usable one-time password
\* belongs to one approved request of its device.
THEOREM ApprovalBacksPassword == Spec => []OneTimePasswordHasApproval
<1>1. IInv => OneTimePasswordHasApproval
  BY DEF IInv
<1> QED  BY <1>1, Invariance, PTL

-----------------------------------------------------------------------------
(* The budget.                                                             *)

\* A review finds the row pending and its window open.
LEMMA ReviewableIsOpen ==
  ASSUME NEW r \in Requests, TypeOK, Reviewable(r)
  PROVE  request[r].status = "pending" /\ r \notin closed
<1>1. request[r].status = "pending"
  BY ReviewableIsPending
<1>2. ASSUME r \in closed PROVE FALSE
  <2>1. Lapse({r})[r] = [request[r] EXCEPT !.status = "expired"]
    BY <1>1, <1>2 DEF Lapse
  <2>2. [request[r] EXCEPT !.status = "expired"].status = "expired"
    BY ExpiredRow DEF TypeOK
  <2> QED  BY <2>1, <2>2 DEF Reviewable
<1> QED  BY <1>1, <1>2

LEMMA BudgetInit == Init => Budget!Init
<1> SUFFICES ASSUME Init PROVE Budget!Init
  OBVIOUS
<1>1. \A p \in Passwords : password[p].state = "unused" /\ Left(p) = 0 /\ Audience(p) = {}
  BY DEF Init, NotIssued, Left, Audience
<1> QED  BY <1>1 DEF Init, Budget!Init

\* Issuing the row of an unused password is issuing it in the budget, with
\* the uses it authorises at once.
LEMMA IssueInBudget ==
  ASSUME IInv, NEW p \in Passwords, NEW n \in 1..MaxUses, NEW d \in Devices \union {"all"},
         NEW s \in {"issued", "revoked"}, password[p].state = "unused",
         password' = [password EXCEPT
                        ![p] = [state |-> s, device |-> d, uses |-> n, total |-> n]],
         UNCHANGED <<elapsed, granted>>
  PROVE  Budget!Next
<1> DEFINE m == IF s = "issued" THEN n ELSE 0
           ds == IF d = "all" THEN Devices ELSE {d}
<1>1. m \in 0..MaxUses /\ ds \in SUBSET Devices
  BY MaintenanceAssumption
<1>2. p \notin elapsed /\ password \in [Passwords -> PasswordRows]
  BY DEF IInv, RowsConsistent, TypeOK
<1>3. /\ password'[p] = [state |-> s, device |-> d, uses |-> n, total |-> n]
      /\ \A q \in Passwords \ {p} : password'[q] = password[q]
  BY <1>2
<1>4. /\ Left(p)' = m /\ Audience(p)' = ds
      /\ \A q \in Passwords \ {p} : Left(q)' = Left(q) /\ Audience(q)' = Audience(q)
  BY <1>2, <1>3 DEF Left, Audience
<1>5. {q \in Passwords : password'[q].state = "unused"}
        = {q \in Passwords : password[q].state = "unused"} \ {p}
  BY <1>3
<1> HIDE DEF m, ds
<1>6. Budget!Issue(p, m, ds)
  BY <1>4, <1>5 DEF Budget!Issue
<1> QED  BY <1>1, <1>6 DEF Budget!Next

\* A password that is not unused and is revoked or expires is closed.
LEMMA CloseInBudget ==
  ASSUME IInv, NEW p \in Passwords, password[p].state = "issued",
         \/ password' = [password EXCEPT ![p].state = "revoked"] /\ UNCHANGED elapsed
         \/ elapsed' = elapsed \union {p} /\ UNCHANGED password,
         UNCHANGED granted
  PROVE  Budget!Next
<1>1. password \in [Passwords -> PasswordRows]
  BY DEF IInv, TypeOK
<1>2. /\ password'[p].device = password[p].device /\ password'[p].state # "unused"
      /\ password'[p].state # "issued" \/ p \in elapsed'
      /\ \A q \in Passwords \ {p} :
           password'[q] = password[q] /\ (q \in elapsed' <=> q \in elapsed)
  BY <1>1 DEF PasswordRows
<1>3. Left(p)' = 0 /\ \A q \in Passwords \ {p} : Left(q)' = Left(q)
  BY <1>2 DEF Left
<1>4. \A q \in Passwords : Audience(q)' = Audience(q)
  BY <1>2 DEF Audience
<1>5. {q \in Passwords : password'[q].state = "unused"}
        = {q \in Passwords : password[q].state = "unused"}
  BY <1>2
<1>6. Budget!Close(p)
  BY <1>3, <1>4, <1>5 DEF Budget!Close
<1> QED  BY <1>6 DEF Budget!Next

\* A call that finds a usable row spends one use of its device.
LEMMA SpendInBudget ==
  ASSUME IInv, NEW p \in Passwords, NEW d \in Devices, Usable(p, d),
         password' = Use(p), granted' = [granted EXCEPT ![p][d] = @ + 1],
         UNCHANGED elapsed
  PROVE  Budget!Next
<1>1. /\ password[p].state = "issued" /\ p \notin elapsed /\ password[p].uses >= 1
      /\ password[p].uses \in Nat /\ password[p].device \in {"all", d}
  BY DEF IInv, RowsConsistent, Usable, TypeOK, PasswordRows
<1>2. /\ \A q \in Passwords \ {p} : password'[q] = password[q]
      /\ password'[p].device = password[p].device
      /\ \/ password[p].uses = 1 /\ password'[p].state = "revoked"
         \/ password'[p].state = "issued" /\ password'[p].uses = password[p].uses - 1
  BY <1>1, UseKeepsRows DEF IInv
<1>3. /\ Left(p) = password[p].uses /\ Left(p)' = Left(p) - 1 /\ Left(p) > 0
      /\ \A q \in Passwords \ {p} : Left(q)' = Left(q)
  BY <1>1, <1>2 DEF Left
<1>4. d \in Audience(p) /\ \A q \in Passwords : Audience(q)' = Audience(q)
  BY <1>1, <1>2 DEF Audience
<1>5. {q \in Passwords : password'[q].state = "unused"}
        = {q \in Passwords : password[q].state = "unused"}
  BY <1>1, <1>2
<1>6. Budget!Spend(p, d)
  BY <1>3, <1>4, <1>5 DEF Budget!Spend
<1> QED  BY <1>6 DEF Budget!Next

\* A step that leaves the passwords alone is a stutter of the budget.
LEMMA StutterInBudget ==
  ASSUME UNCHANGED <<password, elapsed, granted>>
  PROVE  UNCHANGED Budget!budgetVars
BY DEF Budget!budgetVars, Left, Audience

LEMMA BudgetStep == IInv /\ [Next]_vars => [Budget!Next]_(Budget!budgetVars)
<1> SUFFICES ASSUME IInv, [Next]_vars
             PROVE  Budget!Next \/ UNCHANGED Budget!budgetVars
  OBVIOUS
<1> USE MaintenanceAssumption
<1>1. ASSUME NEW p \in Passwords, AdminRevokesPassword(p) \/ PasswordExpires(p)
      PROVE  Budget!Next
  BY <1>1, CloseInBudget DEF AdminRevokesPassword, PasswordExpires
<1>2. ASSUME NEW p \in Passwords, NEW n \in 1..MaxUses, AdminCreatesPassword(p, n)
      PROVE  Budget!Next
  BY <1>2, IssueInBudget DEF AdminCreatesPassword, Issued
<1>3. CASE RequestNext \/ AdminLooks(Requests) \/ (\E r \in Requests : AdminLooks({r}))
            \/ (\E d \in Devices : RevokeDevice(d)) \/ UNCHANGED vars
  BY <1>3, StutterInBudget DEF RequestNext, WindowCloses, EndpointPolls, EndpointGivesUp,
     EndpointRequests, AdminLooks, RevokeDevice, vars
<1>4. ASSUME NEW r \in Requests, AdminRejects(r)
      PROVE  UNCHANGED Budget!budgetVars
  BY <1>4, StutterInBudget DEF AdminRejects
<1>5. ASSUME NEW r \in Requests, NEW p \in Passwords,
             AdminApproves(r, p) \/ ReviewFails(r, p) \/ HqExitsInReview(r, p)
      PROVE  Budget!Next
  <2>1. request[r].device \in Devices
    BY <1>5, ReviewableIsPending
       DEF IInv, RowsConsistent, AdminApproves, ReviewFails, HqExitsInReview
  <2>2. /\ password[p].state = "unused" /\ UNCHANGED <<elapsed, granted>>
        /\ \E s \in {"issued", "revoked"} : password' = [password EXCEPT
             ![p] = [state |-> s, device |-> request[r].device, uses |-> 1, total |-> 1]]
    BY <1>5 DEF AdminApproves, ReviewFails, HqExitsInReview, Issued, IInv, TypeOK
  <2>3. 1 \in 1..MaxUses
    BY MaintenanceAssumption
  <2> QED  BY <2>1, <2>2, <2>3, IssueInBudget
<1>6. ASSUME NEW c \in Calls, Consume(c)
      PROVE  Budget!Next \/ UNCHANGED Budget!budgetVars
  <2>1. call[c].password \in Passwords /\ call[c].device \in Devices
    BY <1>6 DEF Consume, IInv, RowsConsistent
  <2>2. UNCHANGED elapsed
    BY <1>6 DEF Consume
  <2> QED  BY <1>6, <2>1, <2>2, SpendInBudget, StutterInBudget DEF Consume
<1>7. ASSUME NEW c \in Calls, NEW d \in Devices, NEW p \in Passwords, StartCall(c, d, p)
      PROVE  UNCHANGED Budget!budgetVars
  BY <1>7, StutterInBudget DEF StartCall
<1> QED
  BY <1>1, <1>2, <1>3, <1>4, <1>5, <1>6, <1>7 DEF Next, PasswordNext, ReviewNext, CallNext

\* However calls, reviews, expiries and exits of HQ interleave, no password
\* authorises more often than it was issued for, another device, or anything
\* after it was revoked, used up or expired.
THEOREM ImplementsBudget == Spec => RefinesBudget
BY BudgetInit, BudgetStep, Invariance, PTL DEF Spec, RefinesBudget, Budget!Spec

\* The promise of the approval window for one request and one step.
InTime(r) ==
  /\ request[r].status \in {"approved", "rejected", "expired"} => request'[r] = request[r]
  /\ request'[r].status \in {"approved", "rejected"} /\ request[r].status = "pending"
       => r \notin closed

\* Looking at a request that is pending can only expire it, and leaves the
\* others as they are.
LEMMA LookInTime ==
  ASSUME IInv, NEW looked, NEW r \in Requests, request'[r] = Lapse(looked)[r]
  PROVE  InTime(r)
<1>1. request[r].status # "pending" => Lapse(looked)[r] = request[r]
  BY DEF Lapse
<1>2. Lapse(looked)[r].status = request[r].status
      \/ (request[r].status = "pending" /\ Lapse(looked)[r].status = "expired")
  BY LapseOnlyExpires DEF IInv
<1> QED  BY <1>1, <1>2 DEF InTime

LEMMA StepInTime ==
  ASSUME IInv, [Next]_vars, NEW r \in Requests
  PROVE  InTime(r)
<1>1. CASE UNCHANGED request
  BY <1>1 DEF InTime
<1>2. ASSUME NEW looked, request' = Lapse(looked)
      PROVE  InTime(r)
  BY <1>2, LookInTime
<1>3. ASSUME NEW s \in Requests, NEW d \in Devices, EndpointRequests(d, s)
      PROVE  InTime(r)
  <2>1. CASE r = s
    BY <1>3, <2>1 DEF EndpointRequests, InTime
  <2>2. CASE r # s
    <3>1. request'[r] = Lapse(Requests)[r]
      BY <1>3, <2>2, LapseOnlyExpires DEF EndpointRequests, IInv
    <3> QED  BY <3>1, LookInTime
  <2> QED  BY <2>1, <2>2
<1>4. ASSUME NEW s \in Requests,
             AdminRejects(s) \/ \E p \in Passwords : AdminApproves(s, p) \/ ReviewFails(s, p)
      PROVE  InTime(r)
  <2>1. request[s].status = "pending" /\ s \notin closed
    BY <1>4, ReviewableIsOpen DEF IInv, AdminRejects, AdminApproves, ReviewFails
  <2>2. r # s => request'[r] = request[r]
    BY <1>4 DEF AdminRejects, AdminApproves, ReviewFails, IInv, TypeOK
  <2> QED  BY <2>1, <2>2 DEF InTime
<1> QED
  BY <1>1, <1>2, <1>3, <1>4 DEF Next, PasswordNext, RequestNext, ReviewNext, CallNext, vars,
     AdminCreatesPassword, AdminRevokesPassword, PasswordExpires, WindowCloses, EndpointPolls,
     EndpointGivesUp, HqExitsInReview, Consume, StartCall, RevokeDevice, AdminLooks

\* A request is reviewed within its window and never again.
THEOREM NeverReviewedLate == Spec => ReviewedOnceInTime
<1>1. IInv /\ [Next]_vars =>
        [\A r \in Requests :
           /\ request[r].status \in {"approved", "rejected", "expired"} => request'[r] = request[r]
           /\ request'[r].status \in {"approved", "rejected"} /\ request[r].status = "pending"
                => r \notin closed]_vars
  BY StepInTime DEF InTime
<1> QED  BY <1>1, Invariance, PTL DEF Spec, ReviewedOnceInTime
=============================================================================
