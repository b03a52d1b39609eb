------------------------------ MODULE MCEndpoint ------------------------------
(* What an endpoint's engine runs in the background, for TLC: two          *)
(* processes that contend for the connector lease with three process       *)
(* numbers; a protection object that watches a download and a document.    *)
(* The two share no variable: their states are added.                      *)
EXTENDS ConnectorLease, RealtimeProtection

CONSTANTS agent, dashboard, n1, n2, n3, download, document, p1

VARIABLE part

EndpointInit ==
  /\ LeaseInit /\ RealtimeInit /\ part \in {"lease", "realtime"}
  /\ part = "lease" => calls = 0
EndpointNext ==
  /\ UNCHANGED part
  /\ \/ part = "lease" /\ LeaseNext /\ UNCHANGED realtimeVars
     \/ part = "realtime" /\ RealtimeNext /\ UNCHANGED leaseVars
EndpointSpec ==
  /\ EndpointInit /\ [][EndpointNext]_<<part, leaseVars, realtimeVars>>
  /\ LeaseFairness /\ RealtimeFairness
=============================================================================
