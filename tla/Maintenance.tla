----------------------------- MODULE Maintenance -----------------------------
(***************************************************************************)
(* Maintenance authorisation: passwords an administrator generates or a    *)
(* request of an endpoint obtains, and the calls that consume them.        *)
(*                                                                         *)
(* HQ runs every store method and every review to its end before the next  *)
(* handler; an authorisation call is authenticated, then awaits its body,  *)
(* then consumes.  Time is the set of deadlines that have passed: a window *)
(* of 20 seconds or a lifetime may end between any two steps.  The limiter *)
(* of failed calls only refuses calls and is left out.                     *)
(***************************************************************************)
EXTENDS Naturals, FiniteSets

CONSTANTS
  Devices,    \* endpoints
  Passwords,  \* rows of maintenance_passwords
  Requests,   \* rows of maintenance_requests
  Calls,      \* authorisation calls in flight at once
  MaxUses     \* greatest number of uses of a password

ASSUME MaintenanceAssumption ==
  MaxUses \in Nat \ {0} /\ "all" \notin Devices /\ "none" \notin Passwords

VARIABLES
  enrolled,   \* devices whose credential HQ accepts
  password,   \* password[p]: row of p; "all" is a NULL device_id
  elapsed,    \* passwords past expires_at
  request,    \* request[r]: row of r
  closed,     \* requests past expires_at
  waiting,    \* waiting[r]: requestHqMaintenancePassword of the endpoint
  call,       \* call[c]: authorisation call
  unreached,  \* passwords whose approval HQ did not finish
  granted     \* history, granted[p][d]: authorisations of d with p

vars == <<enrolled, password, elapsed, request, closed, waiting, call, unreached, granted>>

NoPassword == "none"
NotIssued == [state |-> "unused", device |-> "all", uses |-> 0, total |-> 0]
NoRequest == [status |-> "none", device |-> "all", password |-> NoPassword]
NoCall == [step |-> "idle", device |-> "all", password |-> NoPassword]

PasswordRows == [state : {"unused", "issued", "revoked"}, device : Devices \union {"all"},
                 uses : 0..MaxUses, total : 0..MaxUses]
RequestRows == [status : {"none", "pending", "approved", "rejected", "expired"},
                device : Devices \union {"all"}, password : Passwords \union {NoPassword}]

TypeOK ==
  /\ enrolled \subseteq Devices
  /\ password \in [Passwords -> PasswordRows]
  /\ elapsed \subseteq Passwords /\ closed \subseteq Requests /\ unreached \subseteq Passwords
  /\ request \in [Requests -> RequestRows]
  /\ waiting \in [Requests -> {"no", "polling", "delivered", "failed"}]
  /\ call \in [Calls -> [step : {"idle", "admitted"}, device : Devices \union {"all"},
                         password : Passwords \union {NoPassword}]]
  /\ granted \in [Passwords -> [Devices -> Nat]]

Init ==
  /\ enrolled = Devices
  /\ password = [p \in Passwords |-> NotIssued] /\ elapsed = {}
  /\ request = [r \in Requests |-> NoRequest] /\ closed = {}
  /\ waiting = [r \in Requests |-> "no"]
  /\ call = [c \in Calls |-> NoCall] /\ unreached = {}
  /\ granted = [p \in Passwords |-> [d \in Devices |-> 0]]

-----------------------------------------------------------------------------
(* Passwords.                                                              *)

\* createMaintenancePassword: one row, hash only.
Issued(p, uses, device) ==
  [password EXCEPT ![p] = [state |-> "issued", device |-> device, uses |-> uses, total |-> uses]]

AdminCreatesPassword(p, uses) ==
  /\ password[p].state = "unused"
  /\ password' = Issued(p, uses, "all")
  /\ UNCHANGED <<enrolled, elapsed, request, closed, waiting, call, unreached, granted>>

AdminRevokesPassword(p) ==
  /\ password[p].state = "issued"
  /\ password' = [password EXCEPT ![p].state = "revoked"]
  /\ UNCHANGED <<enrolled, elapsed, request, closed, waiting, call, unreached, granted>>

PasswordExpires(p) ==
  /\ password[p].state = "issued" /\ p \notin elapsed
  /\ elapsed' = elapsed \union {p}
  /\ UNCHANGED <<enrolled, password, request, closed, waiting, call, unreached, granted>>

-----------------------------------------------------------------------------
(* Requests of endpoints.                                                  *)

\* Pending rows whose window is over become expired when somebody looks.
Lapse(looked) == [r \in Requests |->
  IF r \in looked \intersect closed /\ request[r].status = "pending"
  THEN [request[r] EXCEPT !.status = "expired"] ELSE request[r]]

\* POST maintenance-requests; the answer, and with it the procedure of the
\* endpoint, may be lost.
EndpointRequests(d, r) ==
  /\ d \in enrolled /\ request[r].status = "none"
  /\ request' = [Lapse(Requests) EXCEPT
                  ![r] = [status |-> "pending", device |-> d, password |-> NoPassword]]
  /\ \E answer \in {"polling", "failed"} : waiting' = [waiting EXCEPT ![r] = answer]
  /\ UNCHANGED <<enrolled, password, elapsed, closed, call, unreached, granted>>

WindowCloses(r) ==
  /\ request[r].status # "none" /\ r \notin closed
  /\ closed' = closed \union {r}
  /\ UNCHANGED <<enrolled, password, elapsed, request, waiting, call, unreached, granted>>

\* GET maintenance-requests/:id, answered; approval delivers the password
\* encrypted to the endpoint's key.
EndpointPolls(r) ==
  /\ waiting[r] = "polling" /\ request[r].device \in enrolled
  /\ request' = Lapse({r})
  /\ waiting' = [waiting EXCEPT ![r] = CASE request'[r].status = "approved" -> "delivered"
                                         [] request'[r].status = "pending" -> "polling"
                                         [] OTHER -> "failed"]
  /\ UNCHANGED <<enrolled, password, elapsed, closed, call, unreached, granted>>

\* The deadline of the endpoint's clock, or one failed call, ends the wait.
EndpointGivesUp(r) ==
  /\ waiting[r] = "polling"
  /\ waiting' = [waiting EXCEPT ![r] = "failed"]
  /\ UNCHANGED <<enrolled, password, elapsed, request, closed, call, unreached, granted>>

-----------------------------------------------------------------------------
(* Reviews.                                                                *)

\* The console lists all requests, or a review finds one lapsed.
AdminLooks(looked) ==
  /\ request' = Lapse(looked)
  /\ UNCHANGED <<enrolled, password, elapsed, closed, waiting, call, unreached, granted>>

\* Mutant: a request row that was not expired yet can still be reviewed.
PendingInRow(r) == request[r].status = "pending"

\* getMaintenanceRequest expires the row before it is judged.
Reviewable(r) == Lapse({r})[r].status = "pending"

AdminRejects(r) ==
  /\ Reviewable(r)
  /\ request' = [request EXCEPT ![r].status = "rejected"]
  /\ UNCHANGED <<enrolled, password, elapsed, closed, waiting, call, unreached, granted>>

\* A one-time password for the requesting device, then the review.
AdminApproves(r, p) ==
  /\ Reviewable(r) /\ password[p].state = "unused"
  /\ password' = Issued(p, 1, request[r].device)
  /\ request' = [request EXCEPT ![r].status = "approved", ![r].password = p]
  /\ UNCHANGED <<enrolled, elapsed, closed, waiting, call, unreached, granted>>

\* Mutant: the password of a failed review stays valid.
ReviewFailsWithPassword(r, p) ==
  /\ Reviewable(r) /\ password[p].state = "unused"
  /\ password' = Issued(p, 1, request[r].device)
  /\ closed' = closed \union {r}
  /\ request' = [request EXCEPT ![r].status = "expired"]
  /\ UNCHANGED <<enrolled, elapsed, waiting, call, unreached, granted>>

\* Encryption fails, or the window closes while HQ handles the review: the
\* password it created is revoked.
ReviewFails(r, p) ==
  /\ Reviewable(r) /\ password[p].state = "unused"
  /\ password' = [Issued(p, 1, request[r].device) EXCEPT ![p].state = "revoked"]
  /\ \/ UNCHANGED <<request, closed>>
     \/ /\ closed' = closed \union {r}
        /\ request' = [request EXCEPT ![r].status = "expired"]
  /\ UNCHANGED <<enrolled, elapsed, waiting, call, unreached, granted>>

\* HQ exits between the password and the review; its calls end with it.
HqExitsInReview(r, p) ==
  /\ Reviewable(r) /\ password[p].state = "unused"
  /\ password' = Issued(p, 1, request[r].device)
  /\ unreached' = unreached \union {p}
  /\ call' = [c \in Calls |-> NoCall]
  /\ UNCHANGED <<enrolled, elapsed, request, closed, waiting, granted>>

-----------------------------------------------------------------------------
(* Authorisation.                                                          *)

\* Passwords that left HQ: shown to the administrator, or delivered.
Known(p) ==
  \/ password[p].state # "unused" /\ password[p].device = "all"
  \/ \E r \in Requests : waiting[r] = "delivered" /\ request[r].password = p

\* POST maintenance/authorize up to its body.
StartCall(c, d, p) ==
  /\ call[c] = NoCall /\ d \in enrolled /\ Known(p)
  /\ call' = [call EXCEPT ![c] = [step |-> "admitted", device |-> d, password |-> p]]
  /\ UNCHANGED <<enrolled, password, elapsed, request, closed, waiting, unreached, granted>>

\* Mutant: the row of any device is selected.
UsableByAnyDevice(p, d) == password[p].state = "issued" /\ p \notin elapsed

\* The rows consumeMaintenancePassword selects.
Usable(p, d) ==
  /\ password[p].state = "issued" /\ p \notin elapsed
  /\ password[p].device \in {"all", d}

\* The last use revokes the row and leaves its counter at one.
Use(p) == IF password[p].uses <= 1 THEN [password EXCEPT ![p].state = "revoked"]
                                   ELSE [password EXCEPT ![p].uses = @ - 1]

Consume(c) ==
  LET d == call[c].device  p == call[c].password IN
  /\ call[c].step = "admitted"
  /\ call' = [call EXCEPT ![c] = NoCall]
  /\ \/ /\ Usable(p, d)
        /\ password' = Use(p)
        /\ granted' = [granted EXCEPT ![p][d] = @ + 1]
     \/ ~Usable(p, d) /\ UNCHANGED <<password, granted>>
  /\ UNCHANGED <<enrolled, elapsed, request, closed, waiting, unreached>>

RevokeDevice(d) ==
  /\ d \in enrolled
  /\ enrolled' = enrolled \ {d}
  /\ UNCHANGED <<password, elapsed, request, closed, waiting, call, unreached, granted>>

-----------------------------------------------------------------------------

PasswordNext == \E p \in Passwords :
  AdminRevokesPassword(p) \/ PasswordExpires(p) \/ \E n \in 1..MaxUses : AdminCreatesPassword(p, n)
RequestNext == \E r \in Requests :
  \/ WindowCloses(r) \/ EndpointPolls(r) \/ EndpointGivesUp(r)
  \/ \E d \in Devices : EndpointRequests(d, r)
ReviewNext == \E r \in Requests :
  AdminRejects(r) \/ \E p \in Passwords : AdminApproves(r, p) \/ ReviewFails(r, p) \/ HqExitsInReview(r, p)
CallNext == \E c \in Calls :
  Consume(c) \/ \E d \in Devices, p \in Passwords : StartCall(c, d, p)

Next == PasswordNext \/ RequestNext \/ ReviewNext \/ CallNext \/ AdminLooks(Requests)
        \/ \E r \in Requests : AdminLooks({r})
        \/ \E d \in Devices : RevokeDevice(d)
Spec == Init /\ [][Next]_vars
-----------------------------------------------------------------------------

\* The uses that a row still authorises, and the devices it authorises.
Left(p) == IF password[p].state = "issued" /\ p \notin elapsed THEN password[p].uses ELSE 0
Audience(p) == IF password[p].state = "unused" THEN {}
               ELSE IF password[p].device = "all" THEN Devices ELSE {password[p].device}

\* "expire after 5-60 minutes, have bounded use counts, and can be revoked
\* immediately" (CHANGELOG): what any interleaving of calls, reviews,
\* expiries and exits does to a password is what the budget allows, with the
\* revoked last use read as no use left.
Budget == INSTANCE MaintenanceBudget WITH
  fresh <- {p \in Passwords : password[p].state = "unused"},
  left <- [p \in Passwords |-> Left(p)],
  audience <- [p \in Passwords |-> Audience(p)],
  spent <- granted
RefinesBudget == Budget!Spec

\* A review that fails, at whichever step, leaves no password that an
\* endpoint could use: every usable one-time password belongs to exactly one
\* approved request of its device, unless HQ exited before the review.
OneTimePasswordHasApproval ==
  \A p \in Passwords \ unreached :
    password[p].state = "issued" /\ password[p].device # "all" =>
      \E r \in Requests :
        /\ request[r].status = "approved" /\ request[r].password = p
        /\ request[r].device = password[p].device
        /\ \A s \in Requests \ {r} : request[s].password # p

\* "strict 20-second approval window" (README): a request is reviewed while
\* its window is open, and reviewed or expired it stays as it is, whoever
\* polls, lists or reviews concurrently.
ReviewedOnceInTime ==
  [][\A r \in Requests :
       /\ request[r].status \in {"approved", "rejected", "expired"} => request'[r] = request[r]
       /\ request'[r].status \in {"approved", "rejected"} /\ request[r].status = "pending"
            => r \notin closed]_vars
=============================================================================
