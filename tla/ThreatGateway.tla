---------------------------- MODULE ThreatGateway ----------------------------
(***************************************************************************)
(* HQ's gateway to abuse.ch (server/src/threat-gateway.js) and the key it  *)
(* uses (server/src/secret-store.js): one upstream request at a time for   *)
(* each source, shared by every device that asks meanwhile; answers are    *)
(* kept for a quarter of an hour and dropped when an administrator changes *)
(* the key.  Publications come from the module that uses this one.         *)
(***************************************************************************)
EXTENDS Naturals, FiniteSets

CONSTANTS
  Clients,        \* processes of managed devices that ask for feeds
  Keys, NoKey,    \* abuse.ch keys an administrator can store
  GatewaySources, \* the feeds the gateway is allowed to fetch
  Payloads,       \* what abuse.ch can answer
  NoPayload,
  MaxKeyChanges   \* bound on the administrator's changes

VARIABLES
  hqKey,          \* the stored key
  cache,          \* source -> NoPayload or [payload, key]
  inflight,       \* source -> NoPayload or [key, waiters]
  reply,          \* client -> "none", "waiting", "failed" or a payload
  overtaken,      \* sources whose request in flight predates a key change
  keyChanges

\* Requests to abuse.ch in flight.
UpstreamRequests == [key : Keys \cup {NoKey}, waiters : SUBSET Clients]
gatewayVars == <<hqKey, cache, inflight, reply, overtaken, keyChanges>>

GwInit ==
  /\ hqKey \in Keys \cup {NoKey}
  /\ cache = [s \in GatewaySources |-> NoPayload]
  /\ inflight = [s \in GatewaySources |-> NoPayload]
  /\ reply = [c \in Clients |-> [got |-> "none"]]
  /\ overtaken = {} /\ keyChanges = 0

Answer(clients, a) == [c \in Clients |-> IF c \in clients THEN a ELSE reply[c]]
Failed == [got |-> "failed"]

\* GET /api/v1/device/threat-intelligence/<source>.
ServedFromCache(c, s) ==
  /\ cache[s] # NoPayload
  /\ reply' = Answer({c}, [got |-> "payload", payload |-> cache[s].payload])
  /\ UNCHANGED <<hqKey, cache, inflight, overtaken, keyChanges>>

JoinsRequest(c, s) ==
  /\ cache[s] = NoPayload /\ inflight[s] # NoPayload
  /\ inflight' = [inflight EXCEPT ![s].waiters = @ \cup {c}]
  /\ reply' = Answer({c}, [got |-> "waiting"])
  /\ UNCHANGED <<hqKey, cache, overtaken, keyChanges>>

\* The record of the key is read at once; decrypting it takes a process.
StartsRequest(c, s) ==
  /\ cache[s] = NoPayload /\ inflight[s] = NoPayload
  /\ inflight' = [inflight EXCEPT ![s] = [key |-> hqKey, waiters |-> {c}]]
  /\ reply' = Answer({c}, [got |-> "waiting"])
  /\ overtaken' = overtaken \ {s}
  /\ UNCHANGED <<hqKey, cache, keyChanges>>

FeedRequest(c, s) == ServedFromCache(c, s) \/ JoinsRequest(c, s) \/ StartsRequest(c, s)

\* A client that gave up is not answered; HQ's request goes on for the others.
Leaves(c) ==
  inflight' = [s \in GatewaySources |->
    IF inflight[s] = NoPayload THEN NoPayload
    ELSE [inflight[s] EXCEPT !.waiters = @ \ {c}]]

\* abuse.ch answers in time and within the size limit; whether the answer is
\* a usable feed is not looked at.
UpstreamAnswers(s, payload) ==
  /\ inflight[s] # NoPayload /\ inflight[s].key # NoKey
  /\ cache' = [cache EXCEPT ![s] = [payload |-> payload, key |-> inflight[s].key]]
  /\ reply' = Answer(inflight[s].waiters, [got |-> "payload", payload |-> payload])
  /\ inflight' = [inflight EXCEPT ![s] = NoPayload]
  /\ UNCHANGED <<hqKey, overtaken, keyChanges>>

\* A mutant of UpstreamFails: the error is not passed on.
FailsSilently(s) ==
  /\ inflight[s] # NoPayload
  /\ inflight' = [inflight EXCEPT ![s] = NoPayload]
  /\ UNCHANGED <<hqKey, cache, reply, overtaken, keyChanges>>

\* No key, a key that cannot be decrypted, an HTTP error, the size limit or
\* the timeout: everyone who waits gets the error.
UpstreamFails(s) ==
  /\ inflight[s] # NoPayload
  /\ reply' = Answer(inflight[s].waiters, Failed)
  /\ inflight' = [inflight EXCEPT ![s] = NoPayload]
  /\ UNCHANGED <<hqKey, cache, overtaken, keyChanges>>

\* The quarter of an hour is over.
CacheExpires(s) ==
  /\ cache[s] # NoPayload
  /\ cache' = [cache EXCEPT ![s] = NoPayload]
  /\ UNCHANGED <<hqKey, inflight, reply, overtaken, keyChanges>>

\* A mutant of ChangeKey: the cache is not cleared.
ChangeKeyOnly(k) ==
  /\ keyChanges < MaxKeyChanges /\ keyChanges' = keyChanges + 1
  /\ hqKey' = k
  /\ overtaken' = {s \in GatewaySources : inflight[s] # NoPayload}
  /\ UNCHANGED <<cache, inflight, reply>>

\* PUT and DELETE /api/admin/threat-credentials: the store first, then the
\* cache; a request in flight goes on.
ChangeKey(k) ==
  /\ keyChanges < MaxKeyChanges /\ keyChanges' = keyChanges + 1
  /\ hqKey' = k
  /\ cache' = [s \in GatewaySources |-> NoPayload]
  /\ overtaken' = {s \in GatewaySources : inflight[s] # NoPayload}
  /\ UNCHANGED <<inflight, reply>>

\* HQ restarts: the key stays in its file, the rest is memory.
HqRestarts ==
  /\ \E s \in GatewaySources : cache[s] # NoPayload \/ inflight[s] # NoPayload
  /\ cache' = [s \in GatewaySources |-> NoPayload]
  /\ inflight' = [s \in GatewaySources |-> NoPayload]
  /\ reply' = [c \in Clients |-> IF reply[c].got = "waiting" THEN Failed ELSE reply[c]]
  /\ overtaken' = {}
  /\ UNCHANGED <<hqKey, keyChanges>>

GwNext ==
  \/ \E s \in GatewaySources :
       \/ \E payload \in Payloads[s] : UpstreamAnswers(s, payload)
       \/ UpstreamFails(s) \/ CacheExpires(s)
  \/ \E k \in Keys \cup {NoKey} : ChangeKey(k)
  \/ HqRestarts
-----------------------------------------------------------------------------
(* What HQ serves from its cache was fetched with the key it has now; only *)
(* a request that was in flight when the key was changed can bring the     *)
(* answer of an older one (clearCache, fetchFresh).                        *)
CacheIsOfCurrentKey ==
  \A s \in GatewaySources :
    cache[s] # NoPayload => cache[s].key = hqKey \/ s \in overtaken

(* A client that waits is among those the request in flight will answer:   *)
(* no interleaving of requests, key changes, expiries and restarts leaves  *)
(* a device without an answer (fetchSource).                               *)
WaitersAreAnswered ==
  \A c \in Clients : reply[c].got = "waiting" =>
    \E s \in GatewaySources : inflight[s] # NoPayload /\ c \in inflight[s].waiters
=============================================================================
