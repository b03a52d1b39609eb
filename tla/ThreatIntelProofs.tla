-------------------------- MODULE ThreatIntelProofs --------------------------
(***************************************************************************)
(* Proofs about HQ's threat gateway as the updates of any number of        *)
(* device processes use it, and about those updates.  The gateway only     *)
(* sees the requests of its clients and that they give up: every step of   *)
(* an update is one of those or leaves the gateway alone.  The updates     *)
(* keep an invariant on each thread, on the answers of HQ, on the one open *)
(* transaction and on what the index holds for each source.  At the end,   *)
(* the archive readers: induction over what they read.                     *)
(***************************************************************************)
EXTENDS ThreatIntel, FiniteSetTheorems, SequenceTheorems, WellFoundedInduction, TLAPS

AnyPayload == UNION {Payloads[s] : s \in GatewaySources}
GatewayTyped ==
  /\ hqKey \in Keys \cup {NoKey}
  /\ cache \in [GatewaySources -> [payload : AnyPayload, key : Keys \cup {NoKey}]
                                    \cup {NoPayload}]
  /\ inflight \in [GatewaySources -> UpstreamRequests \cup {NoPayload}]
  /\ reply \in [Clients -> [got : {"none", "waiting", "failed"}]
                             \cup [got : {"payload"}, payload : AnyPayload]]

\* A request that no key change overtook uses the current key.
RequestIsOfCurrentKey ==
  \A s \in GatewaySources :
    inflight[s] # NoPayload => inflight[s].key = hqKey \/ s \in overtaken

KeyInv == GatewayTyped /\ RequestIsOfCurrentKey /\ CacheIsOfCurrentKey
GatewayInv == KeyInv /\ WaitersAreAnswered

\* What a client does: it asks for a feed, takes its answer, or gives up.
TakesAnswer(c) == Unanswered(c) /\ UNCHANGED <<restOfGateway, inflight>>
GivesUp(c) == Unanswered(c) /\ Leaves(c) /\ UNCHANGED restOfGateway
ClientStep ==
  \E c \in Clients : (\E s \in GatewaySources : FeedRequest(c, s)) \/ TakesAnswer(c) \/ GivesUp(c)
GatewayStep == ClientStep \/ GwNext

LEMMA InitGateway == ThreatInit => GatewayInv
  BY DEF ThreatInit, TuInit, GwInit, GatewayInv, KeyInv, GatewayTyped, RequestIsOfCurrentKey,
         CacheIsOfCurrentKey, WaitersAreAnswered

\* Every step of the system is a step of the gateway or none.
LEMMA StepOfGateway ==
  ASSUME [ThreatNext]_threatVars
  PROVE  GatewayStep \/ UNCHANGED gatewayVars
<1>1. CASE UNCHANGED threatVars
  BY <1>1 DEF threatVars, updateVars
<1>2. CASE ThreatNext
  <2>1. CASE UNCHANGED updateVars
    BY <2>1 DEF updateVars
  <2>2. CASE TuNext
    <3>1. ASSUME NEW p \in Clients,
                 StartUpdate(p) \/ LoadCredentials(p) \/ StartFails(p) \/ Finish(p)
          PROVE  UNCHANGED gatewayVars
      BY <3>1 DEF StartUpdate, LoadCredentials, StartFails, Finish
    <3>2. ASSUME NEW p \in Clients, WorkerStep(p)
          PROVE  GatewayStep \/ UNCHANGED gatewayVars
      <4>1. CASE FetchThroughHq(p)
        <5>1. Source(p) \in GatewaySources /\ FeedRequest(p, Source(p))
          BY <4>1, GatewayAssumption DEF FetchThroughHq
        <5> QED BY <5>1 DEF GatewayStep, ClientStep
      <4>2. CASE TakesReply(p)
        <5>1. TakesAnswer(p)
          BY <4>2 DEF TakesReply, TakesAnswer, restOfGateway
        <5> QED BY <5>1 DEF GatewayStep, ClientStep
      <4>3. CASE TimesOut(p)
        <5>1. GivesUp(p)
          BY <4>3 DEF TimesOut, GivesUp
        <5> QED BY <5>1 DEF GatewayStep, ClientStep
      <4>4. CASE KeyMissing(p) \/ SkipsRecent(p) \/ StartsSource(p) \/ Busy(p) \/ RecordsError(p)
        BY <4>4 DEF KeyMissing, SkipsRecent, StartsSource, Busy, RecordsError, outside
      <4>5. CASE FetchFails(p) \/ FetchDirect(p) \/ FetchSpamhausDrop(p) \/ FetchMispOsint(p)
        BY <4>5 DEF FetchFails, FetchDirect, FetchSpamhausDrop, FetchMispOsint, outside
      <4>6. CASE \/ Freshclam(p) \/ FreshclamFails(p) \/ DownloadLmd(p) \/ PlaceLmd(p)
                 \/ ExtractLmd(p)
        BY <4>6 DEF Freshclam, FreshclamFails, DownloadLmd, PlaceLmd, ExtractLmd, outside
      <4>7. CASE \/ BeginImport(p) \/ BeginClamAv(p) \/ IndexDatabase(p) \/ Commit(p)
                 \/ RollBack(p)
        BY <4>7 DEF BeginImport, BeginClamAv, IndexDatabase, Commit, RollBack, outside
      <4> QED BY <3>2, <4>1, <4>2, <4>3, <4>4, <4>5, <4>6, <4>7 DEF WorkerStep
    <3>3. ASSUME NEW p \in Clients, WorkerDies(p) \/ ProcessRestarts(p)
          PROVE  GatewayStep
      <4>1. GivesUp(p)
        BY <3>3 DEF WorkerDies, ProcessRestarts, GivesUp
      <4> QED BY <4>1 DEF GatewayStep, ClientStep
    <3>4. ASSUME SaveThreatCredentials \/ IntervalPasses \/ HalfYearPasses
          PROVE  UNCHANGED gatewayVars
      BY <3>4 DEF SaveThreatCredentials, IntervalPasses, HalfYearPasses, outside
    <3> QED BY <2>2, <3>1, <3>2, <3>3, <3>4 DEF TuNext, Procs, GatewayStep
  <2> QED BY <1>2, <2>1, <2>2 DEF ThreatNext
<1> QED BY <1>1, <1>2

-----------------------------------------------------------------------------
(* The steps of the clients                                                *)

LEMMA FeedRequestStep ==
  ASSUME GatewayInv, NEW c \in Clients, NEW s \in GatewaySources, FeedRequest(c, s)
  PROVE  GatewayInv'
<1> USE GatewayAssumption DEF GatewayInv
<1>1. CASE ServedFromCache(c, s)
  <2>1. cache[s].payload \in AnyPayload
    BY <1>1 DEF ServedFromCache, KeyInv, GatewayTyped
  <2>2. GatewayTyped'
    BY <1>1, <2>1 DEF ServedFromCache, KeyInv, GatewayTyped, Answer
  <2>3. WaitersAreAnswered'
    BY <1>1 DEF ServedFromCache, WaitersAreAnswered, Answer
  <2> QED BY <1>1, <2>2, <2>3
          DEF ServedFromCache, KeyInv, RequestIsOfCurrentKey, CacheIsOfCurrentKey
<1>2. CASE JoinsRequest(c, s)
  <2>1. inflight[s] \in UpstreamRequests
    BY <1>2 DEF JoinsRequest, KeyInv, GatewayTyped
  <2>2. GatewayTyped'
    BY <1>2, <2>1 DEF JoinsRequest, KeyInv, GatewayTyped, Answer, UpstreamRequests
  <2>3. RequestIsOfCurrentKey' /\ CacheIsOfCurrentKey'
    BY <1>2, <2>1 DEF JoinsRequest, KeyInv, GatewayTyped, RequestIsOfCurrentKey,
                      CacheIsOfCurrentKey, UpstreamRequests
  <2>4. WaitersAreAnswered'
    BY <1>2, <2>1, <2>2 DEF JoinsRequest, KeyInv, GatewayTyped, WaitersAreAnswered, Answer,
                            UpstreamRequests
  <2> QED BY <2>2, <2>3, <2>4 DEF KeyInv
<1>3. CASE StartsRequest(c, s)
  <2> DEFINE request == [key |-> hqKey, waiters |-> {c}]
  <2>1. request \in UpstreamRequests /\ request # NoPayload
    BY DEF KeyInv, GatewayTyped, UpstreamRequests
  <2>2. GatewayTyped'
    BY <1>3, <2>1 DEF StartsRequest, KeyInv, GatewayTyped, Answer
  <2>3. RequestIsOfCurrentKey' /\ CacheIsOfCurrentKey'
    BY <1>3, <2>1 DEF StartsRequest, KeyInv, GatewayTyped, RequestIsOfCurrentKey,
                      CacheIsOfCurrentKey
  <2>4. WaitersAreAnswered'
    BY <1>3, <2>1 DEF StartsRequest, KeyInv, GatewayTyped, WaitersAreAnswered, Answer
  <2> QED BY <2>2, <2>3, <2>4 DEF KeyInv
<1> QED BY <1>1, <1>2, <1>3 DEF FeedRequest

LEMMA UnansweredStep ==
  ASSUME GatewayInv, NEW c \in Clients, TakesAnswer(c) \/ GivesUp(c)
  PROVE  GatewayInv'
<1> USE GatewayAssumption DEF GatewayInv, Unanswered, restOfGateway
<1>1. CASE TakesAnswer(c)
  BY <1>1 DEF TakesAnswer, KeyInv, GatewayTyped, Answer, RequestIsOfCurrentKey,
              CacheIsOfCurrentKey, WaitersAreAnswered
<1>2. CASE GivesUp(c)
  <2>1. ASSUME NEW s \in GatewaySources
        PROVE  /\ inflight[s] = NoPayload => inflight'[s] = NoPayload
               /\ inflight[s] # NoPayload =>
                    /\ inflight'[s] \in UpstreamRequests
                    /\ inflight'[s].key = inflight[s].key
                    /\ inflight'[s].waiters = inflight[s].waiters \ {c}
    BY <1>2, <2>1 DEF GivesUp, Leaves, KeyInv, GatewayTyped, UpstreamRequests
  <2>2. GatewayTyped'
    <3>1. inflight' \in [GatewaySources -> UpstreamRequests \cup {NoPayload}]
      BY <1>2, <2>1 DEF GivesUp, Leaves
    <3> QED BY <1>2, <3>1 DEF GivesUp, KeyInv, GatewayTyped, Answer
  <2>3. RequestIsOfCurrentKey' /\ CacheIsOfCurrentKey'
    BY <1>2, <2>1 DEF GivesUp, KeyInv, RequestIsOfCurrentKey, CacheIsOfCurrentKey
  <2>4. WaitersAreAnswered'
    BY <1>2, <2>1 DEF GivesUp, WaitersAreAnswered, Answer
  <2> QED BY <2>2, <2>3, <2>4 DEF KeyInv
<1> QED BY <1>1, <1>2
-----------------------------------------------------------------------------
(* The steps of HQ and of abuse.ch                                         *)

LEMMA UpstreamStep ==
  ASSUME GatewayInv, NEW s \in GatewaySources,
         (\E payload \in Payloads[s] : UpstreamAnswers(s, payload)) \/ UpstreamFails(s)
  PROVE  GatewayInv'
<1> USE GatewayAssumption DEF GatewayInv
<1>1. ASSUME NEW payload \in Payloads[s], UpstreamAnswers(s, payload)
      PROVE  GatewayInv'
  <2>1. payload \in AnyPayload /\ inflight[s].key \in Keys \cup {NoKey}
    BY <1>1 DEF UpstreamAnswers, AnyPayload, KeyInv, GatewayTyped, UpstreamRequests
  <2>2. GatewayTyped'
    BY <1>1, <2>1 DEF UpstreamAnswers, KeyInv, GatewayTyped, Answer
  <2>3. RequestIsOfCurrentKey' /\ CacheIsOfCurrentKey'
    BY <1>1 DEF UpstreamAnswers, KeyInv, GatewayTyped, RequestIsOfCurrentKey,
                CacheIsOfCurrentKey
  <2>4. WaitersAreAnswered'
    BY <1>1 DEF UpstreamAnswers, KeyInv, GatewayTyped, WaitersAreAnswered, Answer
  <2> QED BY <2>2, <2>3, <2>4 DEF KeyInv
<1>2. CASE UpstreamFails(s)
  <2>1. GatewayTyped'
    BY <1>2 DEF UpstreamFails, KeyInv, GatewayTyped, Answer, Failed
  <2>2. RequestIsOfCurrentKey' /\ CacheIsOfCurrentKey'
    BY <1>2 DEF UpstreamFails, KeyInv, GatewayTyped, RequestIsOfCurrentKey,
                CacheIsOfCurrentKey
  <2>3. WaitersAreAnswered'
    BY <1>2 DEF UpstreamFails, KeyInv, GatewayTyped, WaitersAreAnswered, Answer, Failed
  <2> QED BY <2>1, <2>2, <2>3 DEF KeyInv
<1> QED BY <1>1, <1>2

LEMMA HqStep ==
  ASSUME GatewayInv,
         \/ \E s \in GatewaySources : CacheExpires(s)
         \/ \E k \in Keys \cup {NoKey} : ChangeKey(k)
         \/ HqRestarts
  PROVE  GatewayInv'
<1> USE GatewayAssumption DEF GatewayInv
<1>1. ASSUME NEW s \in GatewaySources, CacheExpires(s)
      PROVE  GatewayInv'
  BY <1>1 DEF CacheExpires, KeyInv, GatewayTyped, RequestIsOfCurrentKey, CacheIsOfCurrentKey,
              WaitersAreAnswered
<1>2. ASSUME NEW k \in Keys \cup {NoKey}, ChangeKey(k)
      PROVE  GatewayInv'
  BY <1>2 DEF ChangeKey, KeyInv, GatewayTyped, RequestIsOfCurrentKey, CacheIsOfCurrentKey,
              WaitersAreAnswered
<1>3. CASE HqRestarts
  <2>1. GatewayTyped'
    BY <1>3 DEF HqRestarts, KeyInv, GatewayTyped, Failed
  <2>2. \A c \in Clients : reply'[c].got # "waiting"
    BY <1>3 DEF HqRestarts, Failed
  <2> QED BY <1>3, <2>1, <2>2 DEF HqRestarts, KeyInv, RequestIsOfCurrentKey,
                                  CacheIsOfCurrentKey, WaitersAreAnswered
<1> QED BY <1>1, <1>2, <1>3

LEMMA Invariance == ThreatSpec => []GatewayInv
<1>1. ASSUME GatewayInv, [ThreatNext]_threatVars
      PROVE  GatewayInv'
  <2>1. CASE UNCHANGED gatewayVars
    BY <1>1, <2>1 DEF gatewayVars, GatewayInv, KeyInv, GatewayTyped, RequestIsOfCurrentKey,
                      CacheIsOfCurrentKey, WaitersAreAnswered
  <2>2. CASE ClientStep
    BY <1>1, <2>2, FeedRequestStep, UnansweredStep DEF ClientStep
  <2>3. CASE GwNext
    BY <1>1, <2>3, UpstreamStep, HqStep DEF GwNext
  <2> QED BY <1>1, <2>1, <2>2, <2>3, StepOfGateway DEF GatewayStep
<1> QED BY <1>1, InitGateway, PTL DEF ThreatSpec

(* In every fleet, HQ serves from its cache only what it fetched with the  *)
(* key it has now, but for the answer of a request that the change of the  *)
(* key overtook (fetchFresh, clearCache).                                  *)
THEOREM CacheOfCurrentKey == ThreatSpec => []CacheIsOfCurrentKey
<1>1. GatewayInv => CacheIsOfCurrentKey
  BY DEF GatewayInv, KeyInv
<1> QED BY <1>1, Invariance, PTL

(* However many devices ask for however many feeds, one that waits is      *)
(* always among those the request in flight will answer (fetchSource).     *)
THEOREM NobodyIsLeftWaiting == ThreatSpec => []WaitersAreAnswered
<1>1. GatewayInv => WaitersAreAnswered
  BY DEF GatewayInv
<1> QED BY <1>1, Invariance, PTL

-----------------------------------------------------------------------------
(* The updates: the inductive invariant.                                   *)

PCs == {"check", "failing", "fetch", "begin", "waiting", "rename", "extract", "index", "commit",
        "complete", "fatal", "dead"}
Chosen == [pc : {"none"}, todo : Seq(Sources), forced : BOOLEAN]
Thread == [pc : PCs, todo : Seq(Sources), forced : BOOLEAN, hq : BOOLEAN, key : BOOLEAN,
           payload : Nat]
Manager == [running : BOOLEAN, call : {"idle", "credentials", "worker"}]
UpdateTyped ==
  /\ enabled \in Seq(Sources) /\ enabled # <<>> /\ managed \in BOOLEAN /\ localKey \in BOOLEAN
  /\ manager \in [Procs -> Manager]
  /\ DOMAIN worker = Procs
  /\ \A p \in Procs :
       /\ manager[p].call # "idle" => manager[p].running
       /\ manager[p].call = "idle" => worker[p] = NoWorker
       /\ manager[p].call = "credentials" => worker[p] \in Chosen
       /\ manager[p].call = "worker" => worker[p] \in Thread
  /\ artifacts \in [Files -> Nat \cup {NoFile}]
  /\ \A f \in Files : artifacts[f] \in Publications(f) \cup {NoFile}

\* A thread: it has a source as long as it has something to do, what it holds
\* is a publication of that source, and it waits for HQ only with a feed that
\* comes from there.
ThreadOK(x) ==
  /\ x.todo = <<>> => x.pc \in {"complete", "fatal", "dead"}
  /\ x.todo # <<>> => x.payload \in Publications(Head(x.todo))
  /\ x.pc = "waiting" => Head(x.todo) \in GatewaySources
  /\ x.pc \in {"rename", "extract"} => Head(x.todo) = "lmd"
ThreadsOK ==
  \A p \in Procs :
    /\ manager[p].call = "credentials" => worker[p].todo # <<>>
    /\ manager[p].call = "worker" => ThreadOK(worker[p])

\* What HQ answers belongs to the source that was asked for.
Waits(p, s) == Working(p) /\ worker[p].pc = "waiting" /\ Head(worker[p].todo) = s
AnswersFit ==
  /\ \A s \in GatewaySources :
       /\ cache[s] # NoPayload => cache[s].payload \in Payloads[s]
       /\ inflight[s] # NoPayload =>
            /\ inflight[s].waiters \subseteq Procs
            /\ \A p \in inflight[s].waiters : reply[p].got = "waiting" /\ Waits(p, s)
  /\ \A p \in Procs : reply[p].got = "payload" =>
       \E s \in GatewaySources : Waits(p, s) /\ reply[p].payload \in Payloads[s]

\* Entries that can be matched.
Usable(s, entries) ==
  \A e \in entries :
    /\ e.table = "hash" \/ e.type \in {"ip", "cidr", "ip:port", "url"} => e.well
    /\ s \in MispSources => e.marked
    /\ e.confirmed => s # "urlhaus"
Holds(s, entries, version) ==
  /\ IF s \in Replaced THEN entries = Content(s, version) ELSE Content(s, version) \subseteq entries
  /\ Usable(s, entries)

\* The databases of ClamAV that were indexed so far.
Indexed(version) ==
  IF version = <<>> THEN {} ELSE ClamHashes(Items("main", version[1]))

\* The open transaction: its owner's, and what it will commit.
TxnOK(t) ==
  LET p == t.owner IN
  /\ p \in Procs /\ Working(p) /\ worker[p].pc \in {"index", "commit"}
  /\ t = [owner |-> p, index |-> t.index, fresh |-> t.fresh, version |-> t.version]
  /\ t.version \in Seq(Nat)
  /\ worker[p].pc = "index" =>
       /\ Head(worker[p].todo) = "clamav" /\ Len(t.version) \in {0, 1}
       /\ t.index = Indexed(t.version)
  /\ worker[p].pc = "commit" => Holds(Head(worker[p].todo), t.index, t.version)
TxnInv ==
  /\ txn = NoTxn \/ TxnOK(txn)
  /\ \A p \in Procs : Working(p) /\ worker[p].pc \in {"index", "commit"} => txn.owner = p

\* The row of a source with these entries.
Row(entries) ==
  [state : {"never", "updating", "error", "ready"}, count : {Cardinality(entries)},
   version : Seq(Nat), recent : BOOLEAN]
IndexInv ==
  /\ DOMAIN index = Sources /\ DOMAIN status = Sources /\ DOMAIN expired = Sources
  /\ \A s \in Sources : /\ status[s] \in Row(index[s])
                        /\ Holds(s, index[s], status[s].version)
                        /\ expired[s] \subseteq index[s]

UpdateInv == UpdateTyped /\ ThreadsOK /\ AnswersFit /\ TxnInv /\ IndexInv

LEMMA SourcesKnown ==
  /\ Sources \subseteq FeedSources
  /\ \A c \in Configurations : c.sources \in Seq(Sources)
<1>1. ASSUME NEW c \in Configurations
      PROVE  ToSet(c.sources) \subseteq FeedSources /\ c.sources \in Seq(ToSet(c.sources))
  BY FeedsAssumption DEF ToSet
<1>2. \A c \in Configurations : ToSet(c.sources) \subseteq Sources
  BY DEF Sources
<1>3. Sources \subseteq FeedSources
  BY <1>1 DEF Sources
<1>4. ASSUME NEW c \in Configurations
      PROVE  c.sources \in Seq(Sources)
  <2>1. c.sources \in Seq(ToSet(c.sources)) /\ ToSet(c.sources) \subseteq Sources
    BY <1>1, <1>2
  <2> QED BY <2>1, SeqMonotonic
<1> QED BY <1>3, <1>4

\* Whatever its source publishes, an entry can be matched.
LEMMA EntriesUsable ==
  ASSUME NEW s \in FeedSources, NEW items,
         s = "threatfox" => \A i \in items : i.kind # "cidr"
  PROVE  Usable(s, Entries(s, items))
<1> USE DEF Usable, MispSources
<1>1. CASE s \in {"clamav", "lmd", "malwarebazaar"}
  <2>1. \A e \in Entries(s, items) : \E i \in items : i.well /\ e = HashEntry(i, TRUE)
    BY <1>1 DEF Entries, ClamHashes, LinuxMalwareDetectEntries, MalwareBazaarEntries
  <2> QED BY <1>1, <2>1 DEF HashEntry
<1>2. CASE s = "urlhaus"
  <2>1. \A e \in Entries(s, items) : \E i \in items : i.well /\ e = HashEntry(i, FALSE)
    BY <1>2 DEF Entries, UrlhausEntries
  <2> QED BY <1>2, <2>1 DEF HashEntry
<1>3. CASE s \in {"feodotracker", "spamhaus-drop"}
  <2>1. \A e \in Entries(s, items) : \E i \in items, t \in {"ip", "cidr"} : i.well /\ e = IocEntry(i, t)
    BY <1>3 DEF Entries, FeodoTrackerEntries, SpamhausDropEntries
  <2> QED BY <1>3, <2>1 DEF IocEntry
<1>4. CASE s = "threatfox"
  <2>1. \A e \in Entries(s, items) : \E i \in items :
          \/ i.well /\ e = HashEntry(i, TRUE)
          \/ (i.kind \in {"ip", "ip:port", "url"} => i.well) /\ e = IocEntry(i, i.kind)
    BY <1>4 DEF Entries, ThreatFoxEntries
  <2> QED BY <1>4, <2>1 DEF HashEntry, IocEntry
<1>5. CASE s \in MispSources
  <2>1. Entries(s, items) = MispEntries(items)
    BY <1>5 DEF Entries
  <2> DEFINE usable == {i \in items : i.marked /\ i.well}
             hashes == {HashEntry(i, TRUE) : i \in {j \in usable : j.kind \in HashKinds}}
             single == {IocEntry(i, i.kind) : i \in
                         {j \in usable : j.kind \in {"ip", "cidr", "domain", "url", "ip:port"}}}
  <2>2. MispEntries(items) = hashes \cup single
    BY DEF MispEntries
  <2>3. Usable(s, hashes) /\ Usable(s, single)
    BY <1>5 DEF HashEntry, IocEntry
  <2> HIDE DEF hashes, single
  <2> QED BY <2>1, <2>2, <2>3
<1> QED BY <1>1, <1>2, <1>3, <1>4, <1>5 DEF FeedSources

LEMMA InitUpdates == ThreatInit => UpdateInv
<1> SUFFICES ASSUME TuInit, GwInit PROVE UpdateInv
  BY DEF ThreatInit, TuInit
<1> USE DEF TuInit, GwInit
<1>1. UpdateTyped
  BY SourcesKnown, FeedsAssumption DEF UpdateTyped, Manager, NoWorker
<1>2. ThreadsOK /\ AnswersFit /\ TxnInv
  <2>1. \A p \in Procs : manager[p].call = "idle" /\ reply[p].got = "none"
    BY DEF Procs
  <2> QED BY <2>1 DEF ThreadsOK, AnswersFit, TxnInv, Working
<1>3. IndexInv
  <2>1. \A s \in Sources : status[s] \in Row(index[s])
    <3>1. Never \in Row({})
      BY FS_EmptySet DEF Row, Never
    <3> QED BY <3>1
  <2>2. \A s \in Sources : Holds(s, index[s], status[s].version)
    BY DEF Never, Holds, Content, Usable
  <2> QED BY <2>1, <2>2 DEF IndexInv
<1> QED BY <1>1, <1>2, <1>3 DEF UpdateInv

-----------------------------------------------------------------------------
(* What a thread does to itself                                            *)

LEMMA ThreadWorks ==
  ASSUME UpdateInv, NEW p \in Procs, Working(p)
  PROVE  /\ worker[p] \in Thread /\ ThreadOK(worker[p])
         /\ worker[p].pc \notin {"complete", "fatal", "dead"} =>
              worker[p].todo # <<>> /\ Source(p) \in Sources /\ Source(p) \in FeedSources
<1>1. worker[p] \in Thread /\ ThreadOK(worker[p])
  BY DEF UpdateInv, UpdateTyped, ThreadsOK, Working
<1>2. worker[p].pc \notin {"complete", "fatal", "dead"} => worker[p].todo # <<>>
  BY <1>1 DEF ThreadOK
<1>3. worker[p].todo # <<>> => Head(worker[p].todo) \in Sources
  BY <1>1, HeadTailProperties DEF Thread
<1> QED BY <1>1, <1>2, <1>3, SourcesKnown DEF Source

\* Another program counter.
LEMMA PcOK ==
  ASSUME NEW x \in Thread, ThreadOK(x), NEW pc \in PCs,
         pc \notin {"complete", "fatal", "dead"} => x.todo # <<>>,
         pc = "waiting" => Head(x.todo) \in GatewaySources,
         pc \in {"rename", "extract"} => Head(x.todo) = "lmd"
  PROVE  /\ [x EXCEPT !.pc = pc] \in Thread /\ ThreadOK([x EXCEPT !.pc = pc])
         /\ [x EXCEPT !.pc = pc].pc = pc /\ [x EXCEPT !.pc = pc].todo = x.todo
<1> DEFINE y == [x EXCEPT !.pc = pc]
<1>1. y \in Thread /\ y.pc = pc /\ y.todo = x.todo /\ y.payload = x.payload
  BY DEF Thread
<1> HIDE DEF y
<1>2. ThreadOK(y)
  BY <1>1 DEF ThreadOK
<1>3. y \in Thread /\ ThreadOK(y) /\ y.pc = pc /\ y.todo = x.todo
  BY <1>1, <1>2
<1> QED BY <1>3 DEF y

\* The next source.
Advanced(x) ==
  [x EXCEPT !.todo = Tail(x.todo), !.payload = Damaged,
            !.pc = IF Len(x.todo) = 1 THEN "complete" ELSE "check"]
LEMMA AdvancedOK ==
  ASSUME NEW x \in Thread, x.todo # <<>>
  PROVE  /\ Advanced(x) \in Thread /\ ThreadOK(Advanced(x))
         /\ Advanced(x).pc \in {"complete", "check"}
<1>1. /\ x.todo \in Seq(Sources) /\ Tail(x.todo) \in Seq(Sources)
      /\ Len(Tail(x.todo)) = Len(x.todo) - 1 /\ Len(x.todo) \in Nat
  BY HeadTailProperties DEF Thread
<1>2. Tail(x.todo) = <<>> => Len(x.todo) = 1
  <2>1. Tail(x.todo) = <<>> <=> Len(Tail(x.todo)) = 0
    BY <1>1, EmptySeq
  <2> QED BY <1>1, <2>1
<1> DEFINE pc == IF Len(x.todo) = 1 THEN "complete" ELSE "check"
           y == [x EXCEPT !.todo = Tail(x.todo), !.payload = Damaged, !.pc = pc]
<1>3. pc \in {"complete", "check"}
  OBVIOUS
<1> HIDE DEF pc
<1>4. y \in Thread /\ y.pc = pc /\ y.todo = Tail(x.todo) /\ y.payload = Damaged
  BY <1>1, <1>3 DEF Thread, PCs, Damaged
<1> HIDE DEF y
<1>5. ThreadOK(y)
  BY <1>2, <1>3, <1>4 DEF ThreadOK, Publications, pc
<1>6. y \in Thread /\ ThreadOK(y) /\ y.pc \in {"complete", "check"}
  BY <1>3, <1>4, <1>5
<1> QED BY <1>6 DEF y, pc, Advanced

\* What was downloaded, if the parser accepts it.
LEMMA GotOK ==
  ASSUME NEW x \in Thread, x.todo # <<>>, NEW n \in Nat, n \in Publications(Head(x.todo)),
         NEW pc \in {"failing", "begin", "rename"}, pc = "rename" => Head(x.todo) = "lmd"
  PROVE  /\ [x EXCEPT !.payload = n, !.pc = pc] \in Thread
         /\ ThreadOK([x EXCEPT !.payload = n, !.pc = pc])
         /\ [x EXCEPT !.payload = n, !.pc = pc].pc = pc
<1> DEFINE y == [x EXCEPT !.payload = n, !.pc = pc]
<1>1. y \in Thread /\ y.pc = pc /\ y.todo = x.todo /\ y.payload = n
  BY DEF Thread, PCs
<1> HIDE DEF y
<1>2. ThreadOK(y)
  BY <1>1 DEF ThreadOK
<1>3. y \in Thread /\ ThreadOK(y) /\ y.pc = pc
  BY <1>1, <1>2
<1> QED BY <1>3 DEF y

LEMMA PublicationsAreNumbers ==
  ASSUME NEW s \in Sources \cup GatewaySources \cup Files
  PROVE  Publications(s) \subseteq Nat
BY FeedsAssumption DEF Publications, Damaged

-----------------------------------------------------------------------------
(* What the steps of one process leave of the invariant                    *)

LEMMA ThreadMoves ==
  ASSUME UpdateInv, NEW p \in Procs, Working(p), NEW y \in Thread, ThreadOK(y),
         worker' = [worker EXCEPT ![p] = y], UNCHANGED <<enabled, managed, localKey, manager>>,
         artifacts' \in [Files -> Nat \cup {NoFile}],
         \A f \in Files : artifacts'[f] \in Publications(f) \cup {NoFile}
  PROVE  UpdateTyped' /\ ThreadsOK'
<1>1. /\ DOMAIN worker = Procs /\ DOMAIN worker' = Procs
      /\ \A q \in Procs : worker'[q] = IF q = p THEN y ELSE worker[q]
  BY DEF UpdateInv, UpdateTyped
<1>2. UpdateTyped'
  BY <1>1 DEF UpdateInv, UpdateTyped, Working
<1>3. ThreadsOK'
  <2>1. \A q \in Procs : /\ manager'[q].call = "credentials" => worker'[q].todo # <<>>
                         /\ manager'[q].call = "worker" => ThreadOK(worker'[q])
    BY <1>1 DEF UpdateInv, ThreadsOK, Working
  <2>2. \A q \in Procs : ThreadOK(worker[q])' <=> ThreadOK(worker'[q])
    BY DEF ThreadOK
  <2> QED BY <2>1, <2>2 DEF ThreadsOK
<1> QED BY <1>2, <1>3

\* The gateway and who waits for it stay.
LEMMA AnswersStay ==
  ASSUME UpdateInv, NEW p \in Procs, UNCHANGED gatewayVars,
         \A s \in GatewaySources : ~Waits(p, s),
         \A q \in Procs \ {p} : worker'[q] = worker[q] /\ manager'[q] = manager[q]
  PROVE  AnswersFit'
<1>1. \A q \in Procs, s \in GatewaySources : Waits(q, s) => Waits(q, s)'
  BY DEF Waits, Working
<1>2. /\ UNCHANGED <<cache, inflight, reply>> /\ AnswersFit
      /\ \A q \in Procs, s \in GatewaySources : Waits(q, s) => q # p
  BY DEF UpdateInv, gatewayVars
<1> QED BY <1>1, <1>2 DEF AnswersFit

\* The transaction stays, and is another process's.
LEMMA TxnStays ==
  ASSUME UpdateInv, NEW p \in Procs, UNCHANGED <<txn, index, expired>>,
         Working(p) => worker[p].pc \notin {"index", "commit"},
         Working(p)' => worker'[p].pc \notin {"index", "commit"},
         \A q \in Procs \ {p} : worker'[q] = worker[q] /\ manager'[q] = manager[q]
  PROVE  TxnInv'
<1>1. txn.owner # p
  BY FeedsAssumption DEF UpdateInv, TxnInv, TxnOK, NoTxn, Procs
<1>2. txn = NoTxn \/ TxnOK(txn)
  BY DEF UpdateInv, TxnInv
<1>3. TxnOK(txn) => TxnOK(txn)'
  BY <1>1 DEF TxnOK, Working
<1>4. \A q \in Procs : Working(q)' /\ worker'[q].pc \in {"index", "commit"} => txn.owner = q
  BY DEF UpdateInv, TxnInv, Working
<1> QED BY <1>2, <1>3, <1>4 DEF TxnInv, NoTxn

LEMMA RowsStay ==
  ASSUME UpdateInv, UNCHANGED <<index, status, expired>>
  PROVE  IndexInv'
BY DEF UpdateInv, IndexInv, Row, Holds, Content, Usable

\* A row gets another state.
LEMMA StateRow ==
  ASSUME UpdateInv, NEW s \in Sources, NEW state \in {"updating", "error"},
         status' = [status EXCEPT ![s].state = state], UNCHANGED <<index, expired>>
  PROVE  IndexInv'
<1>1. \A r \in Sources : status[r] \in Row(index[r])
  BY DEF UpdateInv, IndexInv
<1>2. /\ DOMAIN status' = Sources
      /\ \A r \in Sources : status'[r] = IF r = s THEN [status[s] EXCEPT !.state = state]
                                         ELSE status[r]
  BY DEF UpdateInv, IndexInv
<1>3. /\ [status[s] EXCEPT !.state = state] \in Row(index[s])
      /\ [status[s] EXCEPT !.state = state].version = status[s].version
  BY <1>1 DEF Row
<1>4. \A r \in Sources : /\ status'[r] \in Row(index[r])
                         /\ Holds(r, index[r], status'[r].version)
                         /\ expired[r] \subseteq index[r]
  BY <1>1, <1>2, <1>3 DEF UpdateInv, IndexInv
<1> QED BY <1>2, <1>4 DEF UpdateInv, IndexInv, Row, Holds, Content, Usable

\* A thread moves on, away from HQ and from the transaction.
LEMMA QuietMove ==
  ASSUME UpdateInv, NEW p \in Procs, Working(p), NEW y \in Thread, ThreadOK(y),
         worker' = [worker EXCEPT ![p] = y], UNCHANGED <<enabled, managed, localKey, manager>>,
         artifacts' \in [Files -> Nat \cup {NoFile}],
         \A f \in Files : artifacts'[f] \in Publications(f) \cup {NoFile},
         UNCHANGED <<gatewayVars, txn, index, expired>>, IndexInv',
         worker[p].pc \notin {"waiting", "index", "commit"},
         y.pc \notin {"waiting", "index", "commit"}
  PROVE  UpdateInv'
<1>1. DOMAIN worker = Procs
  BY DEF UpdateInv, UpdateTyped
<1>2. worker'[p] = y /\ \A q \in Procs \ {p} : worker'[q] = worker[q] /\ manager'[q] = manager[q]
  BY <1>1
<1>3. UpdateTyped' /\ ThreadsOK'
  BY ThreadMoves
<1>4. AnswersFit'
  BY <1>2, AnswersStay DEF Waits
<1>5. TxnInv'
  BY <1>2, TxnStays
<1> QED BY <1>3, <1>4, <1>5 DEF UpdateInv

-----------------------------------------------------------------------------
(* The worker before its transaction                                       *)

\* Its own steps: none of them touches HQ, the index or the lock.
LEMMA CheckStep ==
  ASSUME UpdateInv, NEW p \in Procs,
         KeyMissing(p) \/ SkipsRecent(p) \/ StartsSource(p) \/ Busy(p) \/ RecordsError(p)
  PROVE  UpdateInv'
<1>1. /\ Working(p) /\ worker[p].pc \in {"check", "begin", "failing"}
      /\ UNCHANGED <<outside, index, txn, expired>>
  BY DEF KeyMissing, SkipsRecent, StartsSource, Busy, RecordsError, indexVars
<1>2. PICK x : x = worker[p]
  OBVIOUS
<1>3. /\ x \in Thread /\ ThreadOK(x) /\ x.todo # <<>> /\ Source(p) \in Sources
      /\ artifacts \in [Files -> Nat \cup {NoFile}]
      /\ \A f \in Files : artifacts[f] \in Publications(f) \cup {NoFile}
  BY <1>1, <1>2, ThreadWorks DEF UpdateInv, UpdateTyped
<1>4. IndexInv'
  <2>1. CASE UNCHANGED status
    BY <1>1, <2>1, RowsStay
  <2>2. CASE \E state \in {"updating", "error"} : status' = [status EXCEPT ![Source(p)].state = state]
    BY <1>1, <1>3, <2>2, StateRow
  <2> QED BY <2>1, <2>2
          DEF KeyMissing, SkipsRecent, StartsSource, Busy, RecordsError, indexVars
<1>5. PICK y : /\ y \in Thread /\ ThreadOK(y) /\ y.pc \notin {"waiting", "index", "commit"}
               /\ worker' = [worker EXCEPT ![p] = y]
  <2>1. CASE \E pc \in {"failing", "fetch", "fatal"} : Goes(p, pc)
    <3>1. PICK pc \in {"failing", "fetch", "fatal"} : Goes(p, pc)
      BY <2>1
    <3>2. worker' = [worker EXCEPT ![p] = [x EXCEPT !.pc = pc]]
      BY <1>2, <3>1 DEF Goes
    <3> QED BY <1>3, <3>2, PcOK DEF PCs
  <2>2. CASE Advances(p)
    <3>1. worker' = [worker EXCEPT ![p] = Advanced(x)]
      BY <1>2, <2>2 DEF Advances, Advanced
    <3> QED BY <1>3, <3>1, AdvancedOK
  <2> QED BY <2>1, <2>2 DEF KeyMissing, SkipsRecent, StartsSource, Busy, RecordsError
<1> QED BY <1>1, <1>2, <1>3, <1>4, <1>5, QuietMove DEF outside

\* A download that does not go through HQ.
LEMMA FetchStep ==
  ASSUME UpdateInv, NEW p \in Procs,
         \/ FetchFails(p) \/ FetchDirect(p) \/ FetchSpamhausDrop(p) \/ FetchMispOsint(p)
         \/ Freshclam(p) \/ FreshclamFails(p) \/ DownloadLmd(p) \/ PlaceLmd(p) \/ ExtractLmd(p)
  PROVE  UpdateInv'
<1> USE DEF FetchFails, FetchDirect, FetchSpamhausDrop, FetchMispOsint, Freshclam,
            FreshclamFails, DownloadLmd, PlaceLmd, ExtractLmd
<1>1. /\ Working(p) /\ worker[p].pc \in {"fetch", "rename", "extract"}
      /\ UNCHANGED <<gatewayVars, enabled, managed, localKey, manager, index, status, txn, expired>>
  BY DEF Fetching, WithinWorker, outside, indexVars
<1>2. PICK x : x = worker[p]
  OBVIOUS
<1>3. /\ x \in Thread /\ ThreadOK(x) /\ x.todo # <<>>
      /\ Source(p) = Head(x.todo) /\ Source(p) \in Sources
      /\ artifacts \in [Files -> Nat \cup {NoFile}]
      /\ \A f \in Files : artifacts[f] \in Publications(f) \cup {NoFile}
  BY <1>1, <1>2, ThreadWorks DEF UpdateInv, UpdateTyped, Source
<1>4. IndexInv'
  BY <1>1, RowsStay
<1>5. /\ artifacts' \in [Files -> Nat \cup {NoFile}]
      /\ \A f \in Files : artifacts'[f] \in Publications(f) \cup {NoFile}
  <2>1. \A f \in Files : Publications(f) \subseteq Nat
    BY PublicationsAreNumbers
  <2>2. CASE UNCHANGED artifacts
    BY <1>3, <2>2
  <2>3. CASE Freshclam(p) \/ FreshclamFails(p) \/ DownloadLmd(p)
    BY <1>3, <2>1, <2>3 DEF Files
  <2>4. CASE PlaceLmd(p)
    <3>1. x.payload \in Publications("lmd") /\ x.payload \in Nat
      BY <1>2, <1>3, <2>4 DEF ThreadOK, Thread
    <3> QED BY <1>2, <1>3, <2>4, <3>1 DEF Files
  <2> QED BY <2>2, <2>3, <2>4 DEF outside
<1>6. PICK y : /\ y \in Thread /\ ThreadOK(y) /\ y.pc \notin {"waiting", "index", "commit"}
               /\ worker' = [worker EXCEPT ![p] = y]
  <2>1. CASE \E pc \in {"failing", "begin"} : Goes(p, pc)
    <3>1. PICK pc \in {"failing", "begin"} : Goes(p, pc)
      BY <2>1
    <3>2. worker' = [worker EXCEPT ![p] = [x EXCEPT !.pc = pc]]
      BY <1>2, <3>1 DEF Goes
    <3> QED BY <1>3, <3>2, PcOK DEF PCs
  <2>2. CASE PlaceLmd(p)
    <3>1. worker' = [worker EXCEPT ![p] = [x EXCEPT !.pc = "extract"]]
      BY <1>2, <2>2 DEF Goes
    <3>2. Head(x.todo) = "lmd"
      BY <1>2, <1>3, <2>2 DEF ThreadOK
    <3> QED BY <1>3, <3>1, <3>2, PcOK DEF PCs
  <2>3. CASE \E n \in Publications(Source(p)) : Got(p, n)
    <3>1. PICK n \in Publications(Source(p)) : Got(p, n)
      BY <2>3
    <3>2. PICK pc \in {"failing", "begin"} :
            worker' = [worker EXCEPT ![p] = [x EXCEPT !.payload = n, !.pc = pc]]
      BY <1>2, <3>1 DEF Got
    <3>3. n \in Nat
      BY <1>3, PublicationsAreNumbers
    <3> QED BY <1>3, <3>2, <3>3, GotOK
  <2>4. CASE DownloadLmd(p)
    <3>1. PICK n \in Publications("lmd") :
            worker' = [worker EXCEPT ![p] = [x EXCEPT !.payload = n, !.pc = "rename"]]
      BY <1>2, <2>4
    <3>2. n \in Nat /\ Head(x.todo) = "lmd"
      BY <1>3, <2>4, PublicationsAreNumbers DEF Files
    <3> QED BY <1>3, <3>1, <3>2, GotOK
  <2>5. CASE ExtractLmd(p) /\ artifacts["lmd"] # NoFile
    <3>1. artifacts["lmd"] \in Publications(Source(p)) /\ Got(p, artifacts["lmd"])
      BY <1>2, <1>3, <2>5 DEF ThreadOK, Files
    <3> QED BY <2>3, <3>1
  <2> QED BY <2>1, <2>2, <2>3, <2>4, <2>5
<1> QED BY <1>1, <1>2, <1>3, <1>4, <1>5, <1>6, QuietMove

-----------------------------------------------------------------------------
(* The import                                                              *)

\* A thread of its own moves on with a transaction.
LEMMA ImportMove ==
  ASSUME UpdateInv, NEW p \in Procs, Working(p), NEW y \in Thread, ThreadOK(y),
         worker' = [worker EXCEPT ![p] = y], UNCHANGED outside,
         worker[p].pc # "waiting",
         txn.owner \in {p, "none"}, IndexInv',
         \/ txn' = NoTxn /\ y.pc \notin {"index", "commit"}
         \/ txn'.owner = p /\ y.pc \in {"index", "commit"} /\ TxnOK(txn)'
  PROVE  UpdateInv'
<1>1. DOMAIN worker = Procs /\ UNCHANGED manager
  BY DEF UpdateInv, UpdateTyped, outside
<1>2. worker'[p] = y /\ \A q \in Procs \ {p} : worker'[q] = worker[q] /\ manager'[q] = manager[q]
  BY <1>1
<1>3. UpdateTyped' /\ ThreadsOK'
  BY ThreadMoves DEF outside, UpdateInv, UpdateTyped
<1>4. AnswersFit'
  BY <1>2, AnswersStay DEF Waits, outside
<1>5. TxnInv'
  <2>1. \A q \in Procs \ {p} : Working(q)' => worker'[q].pc \notin {"index", "commit"}
    <3>1. \A q \in Procs \ {p} : txn.owner # q
      BY FeedsAssumption DEF Procs
    <3>2. \A q \in Procs : Working(q) /\ worker[q].pc \in {"index", "commit"} => txn.owner = q
      BY DEF UpdateInv, TxnInv
    <3> QED BY <1>2, <3>1, <3>2 DEF Working
  <2> QED BY <1>2, <2>1 DEF TxnInv
<1> QED BY <1>3, <1>4, <1>5 DEF UpdateInv

\* What the old entries, those not expired and the new ones make together.
LEMMA RewrittenHolds ==
  ASSUME UpdateInv, NEW s \in Sources, s # "clamav", NEW n \in Publications(s)
  PROVE  Holds(s, Rewritten(s, Entries(s, Items(s, n))), <<n>>)
<1> DEFINE new == Entries(s, Items(s, n))
<1>1. Content(s, <<n>>) = new
  <2>1. <<n>> # <<>> /\ <<n>>[1] = n
    OBVIOUS
  <2> QED BY <2>1 DEF Content
<1>2. Usable(s, new)
  <2>1. s = "threatfox" => \A i \in Items(s, n) : i.kind # "cidr"
    BY FeedsAssumption DEF Items, Publications
  <2> QED BY <2>1, SourcesKnown, EntriesUsable
<1>3. Usable(s, index[s])
  BY DEF UpdateInv, IndexInv, Holds
<1> HIDE DEF new
<1>4. /\ s \in Replaced => Rewritten(s, new) = new
      /\ new \subseteq Rewritten(s, new) /\ Rewritten(s, new) \subseteq index[s] \cup new
  BY DEF Rewritten
<1>5. Usable(s, Rewritten(s, new))
  BY <1>2, <1>3, <1>4 DEF Usable
<1>6. Holds(s, Rewritten(s, new), <<n>>)
  BY <1>1, <1>4, <1>5 DEF Holds
<1> QED BY <1>6 DEF new

LEMMA BeginStep ==
  ASSUME UpdateInv, NEW p \in Procs, BeginImport(p) \/ BeginClamAv(p)
  PROVE  UpdateInv'
<1>1. /\ Working(p) /\ worker[p].pc = "begin" /\ UNCHANGED <<outside, index, status, expired>>
      /\ txn.owner = "none"
  BY DEF BeginImport, BeginClamAv, Unlocked
<1>2. PICK x, s : x = worker[p] /\ s = Source(p)
  OBVIOUS
<1>3. x \in Thread /\ ThreadOK(x) /\ x.todo # <<>> /\ s = Head(x.todo) /\ s \in Sources
  BY <1>1, <1>2, ThreadWorks DEF Source
<1>4. IndexInv'
  BY <1>1, RowsStay
<1>5. CASE BeginImport(p)
  <2>1. PICK n \in Publications(s) : n = x.payload /\ n \in Nat
    BY <1>3 DEF ThreadOK, Thread
  <2> PICK entries, y, t :
           /\ entries = Rewritten(s, Entries(s, Items(s, n)))
           /\ y = [x EXCEPT !.pc = "commit"]
           /\ t = [owner |-> p, index |-> entries, fresh |-> Entries(s, Items(s, n)),
                   version |-> <<n>>]
    OBVIOUS
  <2>2. txn' = t /\ worker' = [worker EXCEPT ![p] = y]
    BY <1>2, <1>5, <2>1 DEF BeginImport, PayloadEntries, Goes
  <2>3. y \in Thread /\ ThreadOK(y) /\ y.pc = "commit" /\ y.todo = x.todo
    BY <1>3, PcOK DEF PCs
  <2>4. Holds(s, entries, <<n>>) /\ <<n>> \in Seq(Nat)
    BY <1>2, <1>3, <1>5, <2>1, RewrittenHolds DEF BeginImport
  <2>5. /\ t = [owner |-> p, index |-> t.index, fresh |-> t.fresh, version |-> t.version]
        /\ t.owner = p /\ t.index = entries /\ t.version = <<n>>
    OBVIOUS
  <2>6. worker'[p] = y /\ Working(p)'
    BY <1>1, <2>2 DEF UpdateInv, UpdateTyped, Working, outside
  <2>7. TxnOK(txn)'
    <3>1. Holds(s, t.index, t.version)
      BY <2>4, <2>5
    <3> QED BY <1>3, <2>2, <2>3, <2>4, <2>5, <2>6, <3>1 DEF TxnOK
  <2> QED BY <1>1, <1>4, <2>2, <2>3, <2>5, <2>7, ImportMove
<1>6. CASE BeginClamAv(p)
  <2> PICK y, t : /\ y = [x EXCEPT !.pc = "index"]
                  /\ t = [owner |-> p, index |-> {}, fresh |-> {}, version |-> <<>>]
    OBVIOUS
  <2>2. txn' = t /\ worker' = [worker EXCEPT ![p] = y] /\ s = "clamav"
    BY <1>2, <1>6 DEF BeginClamAv, Goes
  <2>3. y \in Thread /\ ThreadOK(y) /\ y.pc = "index" /\ y.todo = x.todo
    BY <1>3, PcOK DEF PCs
  <2>5. /\ t = [owner |-> p, index |-> t.index, fresh |-> t.fresh, version |-> t.version]
        /\ t.owner = p /\ t.index = {} /\ t.version = <<>> /\ t.version \in Seq(Nat)
        /\ Len(t.version) = 0
    OBVIOUS
  <2>6. worker'[p] = y /\ Working(p)'
    BY <1>1, <2>2 DEF UpdateInv, UpdateTyped, Working, outside
  <2>7. TxnOK(txn)'
    BY <1>3, <2>2, <2>3, <2>5, <2>6 DEF TxnOK, Indexed
  <2> QED BY <1>1, <1>4, <2>2, <2>3, <2>5, <2>7, ImportMove
<1> QED BY <1>5, <1>6

\* The owner of the transaction.
LEMMA OwnsTxn ==
  ASSUME UpdateInv, NEW p \in Procs, Working(p), worker[p].pc \in {"index", "commit"}
  PROVE  txn.owner = p /\ TxnOK(txn)
<1>1. txn.owner = p
  BY DEF UpdateInv, TxnInv
<1>2. txn # NoTxn
  BY <1>1, FeedsAssumption DEF NoTxn, Procs
<1> QED BY <1>1, <1>2 DEF UpdateInv, TxnInv

LEMMA IndexStep ==
  ASSUME UpdateInv, NEW p \in Procs, IndexDatabase(p)
  PROVE  UpdateInv'
<1>1. /\ Working(p) /\ worker[p].pc = "index" /\ UNCHANGED <<outside, index, status, expired>>
  BY DEF IndexDatabase
<1>2. PICK x, v, n : x = worker[p] /\ v = txn.version /\ n = Len(v)
  OBVIOUS
<1>3. PICK file, a, new : /\ file = <<"main", "daily">>[n + 1] /\ a = artifacts[file]
                          /\ new = ClamHashes(Items(file, a))
  OBVIOUS
<1>4. x \in Thread /\ ThreadOK(x) /\ x.todo # <<>>
  BY <1>1, <1>2, ThreadWorks
<1>5. /\ txn.owner = p /\ v \in Seq(Nat) /\ Head(x.todo) = "clamav" /\ n \in {0, 1}
      /\ txn = [owner |-> p, index |-> Indexed(v), fresh |-> txn.fresh, version |-> v]
  BY <1>1, <1>2, OwnsTxn DEF TxnOK
<1>6. /\ n = 0 => file = "main" /\ v = <<>>
      /\ n = 1 => file = "daily" /\ v # <<>>
  <2>1. v \in Seq(Nat) /\ (v = <<>> <=> Len(v) = 0)
    BY <1>5, EmptySeq
  <2>2. v = <<>> <=> n = 0
    BY <1>2, <2>1
  <2>3. n = 0 => file = "main"
    <3>1. n = 0 => n + 1 = 1
      OBVIOUS
    <3>2. <<"main", "daily">>[1] = "main"
      OBVIOUS
    <3> QED BY <1>3, <3>1, <3>2
  <2>4. n = 1 => file = "daily"
    <3>1. n = 1 => n + 1 = 2
      OBVIOUS
    <3>2. <<"main", "daily">>[2] = "daily"
      OBVIOUS
    <3> QED BY <1>3, <3>1, <3>2
  <2> QED BY <2>2, <2>3, <2>4
<1>7. a \in Nat
  <2>1. file \in Files /\ a # NoFile
    BY <1>2, <1>3, <1>5, <1>6 DEF Files, IndexDatabase
  <2> QED BY <1>3, <2>1 DEF UpdateInv, UpdateTyped
<1>8. IndexInv'
  BY <1>1, RowsStay
<1>9. PICK pc, y, t, u :
        /\ pc = IF n = 1 THEN "commit" ELSE "index"
        /\ y = [x EXCEPT !.pc = pc] /\ u = Append(v, a)
        /\ t = [owner |-> p, index |-> Indexed(v) \cup new, fresh |-> txn.fresh \cup new,
                version |-> u]
  OBVIOUS
<1>10. txn' = t /\ worker' = [worker EXCEPT ![p] = y]
  <2>1. txn' = [txn EXCEPT !.index = @ \cup new, !.fresh = @ \cup new, !.version = Append(@, a)]
    BY <1>2, <1>3 DEF IndexDatabase
  <2>2. txn.index = Indexed(v) /\ txn.version = v
    BY <1>5
  <2>3. [txn EXCEPT !.index = @ \cup new, !.fresh = @ \cup new, !.version = Append(@, a)] = t
    <3>0. PICK r, i, f, j, g, w :
            /\ r = txn /\ i = Indexed(v) /\ f = txn.fresh
            /\ j = txn.index \cup new /\ g = txn.fresh \cup new /\ w = Append(txn.version, a)
      OBVIOUS
    <3>1. r = [owner |-> p, index |-> i, fresh |-> f, version |-> v]
      <4>1. txn = [owner |-> p, index |-> i, fresh |-> f, version |-> v]
        BY <1>5, <3>0
      <4> QED BY <3>0, <4>1
    <3>2. j = i \cup new /\ g = f \cup new /\ w = Append(v, a)
      <4>1. txn.index = i /\ txn.fresh = f /\ txn.version = v
        BY <2>2, <3>0
      <4> QED BY <3>0, <4>1
    <3>3. PICK t1 : t1 = [r EXCEPT !.index = j]
      OBVIOUS
    <3>4. PICK t2 : t2 = [t1 EXCEPT !.fresh = g]
      OBVIOUS
    <3>5. t1 = [owner |-> p, index |-> j, fresh |-> f, version |-> v]
      BY <3>1, <3>3
    <3>6. t2 = [owner |-> p, index |-> j, fresh |-> g, version |-> v]
      BY <3>4, <3>5
    <3>7. [t2 EXCEPT !.version = w] = [owner |-> p, index |-> j, fresh |-> g, version |-> w]
      BY <3>6
    <3>8. [txn EXCEPT !.index = @ \cup new, !.fresh = @ \cup new, !.version = Append(@, a)]
            = [t2 EXCEPT !.version = w]
      BY <3>0, <3>3, <3>4
    <3> QED BY <1>9, <3>0, <3>2, <3>7, <3>8
  <2>4. worker' = [worker EXCEPT ![p] = y]
    BY <1>2, <1>3, <1>9 DEF IndexDatabase, Goes
  <2> QED BY <2>1, <2>3, <2>4
<1>11. pc \in PCs /\ pc \in {"index", "commit"}
  BY <1>9 DEF PCs
<1>12. y \in Thread /\ ThreadOK(y) /\ y.pc = pc /\ y.todo = x.todo
  BY <1>4, <1>9, <1>11, PcOK
<1>13. /\ t = [owner |-> p, index |-> t.index, fresh |-> t.fresh, version |-> t.version]
       /\ t.owner = p /\ t.index = Indexed(v) \cup new /\ t.version = u
  BY <1>9
<1>14. u \in Seq(Nat) /\ u[n + 1] = a /\ Len(u) = n + 1 /\ u # <<>> /\ (n = 1 => u[1] = v[1])
  <2>1. /\ u \in Seq(Nat) /\ Len(u) = n + 1 /\ u[n + 1] = a
        /\ \A i \in 1..n : u[i] = v[i]
    BY <1>2, <1>5, <1>7, <1>9, AppendProperties
  <2>2. u # <<>>
    BY <1>5, <2>1, EmptySeq
  <2> QED BY <1>5, <2>1, <2>2
<1>15. worker'[p] = y /\ Working(p)'
  BY <1>1, <1>10 DEF UpdateInv, UpdateTyped, Working, outside
<1>16. TxnOK(t)'
  <2>1. CASE n = 0
    <3>1. t.index = Indexed(t.version) /\ Len(t.version) = 1
      BY <1>3, <1>6, <1>13, <1>14, <2>1 DEF Indexed
    <3>2. y.pc = "index"
      BY <1>9, <1>12, <2>1
    <3> QED BY <1>5, <1>12, <1>13, <1>14, <1>15, <3>1, <3>2 DEF TxnOK
  <2>2. CASE n = 1
    <3>1. Content("clamav", u) = ClamHashes(Items("main", v[1])) \cup new
      BY <1>3, <1>6, <1>14, <2>2 DEF Content
    <3>2. Indexed(v) = ClamHashes(Items("main", v[1]))
      BY <1>6, <2>2 DEF Indexed
    <3>3. t.index = Content("clamav", t.version)
      BY <1>13, <3>1, <3>2
    <3>4. Usable("clamav", t.index)
      <4>1. \A e \in t.index : \E i : i.well /\ e = HashEntry(i, TRUE)
        BY <1>3, <1>13, <3>2 DEF ClamHashes
      <4> QED BY <4>1 DEF HashEntry, Usable, MispSources
    <3>5. Holds("clamav", t.index, t.version)
      BY <3>3, <3>4 DEF Holds, Replaced
    <3>6. y.pc = "commit"
      BY <1>9, <1>12, <2>2
    <3> QED BY <1>5, <1>12, <1>13, <1>14, <1>15, <3>5, <3>6 DEF TxnOK
  <2> QED BY <1>5, <2>1, <2>2
<1>17. TxnOK(txn)'
  BY <1>10, <1>16 DEF TxnOK
<1> QED BY <1>1, <1>5, <1>8, <1>10, <1>11, <1>12, <1>13, <1>17, ImportMove

\* The entries and the row of the source become visible together.
LEMMA CommitStep ==
  ASSUME UpdateInv, NEW p \in Procs, Commit(p)
  PROVE  UpdateInv'
<1>1. Working(p) /\ worker[p].pc = "commit" /\ UNCHANGED outside /\ txn' = NoTxn /\ Advances(p)
  BY DEF Commit
<1>2. PICK x, s, t : x = worker[p] /\ s = Source(p) /\ t = txn
  OBVIOUS
<1>3. x \in Thread /\ ThreadOK(x) /\ x.todo # <<>> /\ s = Head(x.todo) /\ s \in Sources
  BY <1>1, <1>2, ThreadWorks DEF Source
<1>4. txn.owner = p /\ t.version \in Seq(Nat) /\ Holds(s, t.index, t.version)
  <2>1. txn.owner = p /\ TxnOK(txn)
    BY <1>1, OwnsTxn
  <2> QED BY <1>1, <1>2, <1>3, <2>1 DEF TxnOK
<1>5. PICK row : row = ReadyRow(t)
  OBVIOUS
<1>6. row \in Row(t.index) /\ row.version = t.version
  BY <1>4, <1>5 DEF Row, ReadyRow
<1>7. /\ DOMAIN index' = Sources /\ DOMAIN status' = Sources /\ DOMAIN expired' = Sources
      /\ index'[s] = t.index /\ status'[s] = row /\ expired'[s] \subseteq t.index
      /\ \A r \in Sources \ {s} : /\ index'[r] = index[r] /\ status'[r] = status[r]
                                  /\ expired'[r] = expired[r]
  <2>1. DOMAIN index = Sources /\ DOMAIN status = Sources /\ DOMAIN expired = Sources
    BY DEF UpdateInv, IndexInv
  <2>2. index' = [index EXCEPT ![s] = t.index] /\ status' = [status EXCEPT ![s] = row]
    BY <1>2, <1>5 DEF Commit, ReadyRow
  <2>3. expired' = [expired EXCEPT ![s] = (expired[s] \ t.fresh) \cap t.index]
    BY <1>2 DEF Commit
  <2> QED BY <1>3, <2>1, <2>2, <2>3
<1>8. IndexInv'
  <2>1. \A r \in Sources : /\ status'[r] \in Row(index'[r])
                           /\ Holds(r, index'[r], status'[r].version)
                           /\ expired'[r] \subseteq index'[r]
    <3>1. ASSUME NEW r \in Sources, r # s
          PROVE  /\ status'[r] \in Row(index'[r])
                 /\ Holds(r, index'[r], status'[r].version)
                 /\ expired'[r] \subseteq index'[r]
      <4>1. /\ status[r] \in Row(index[r]) /\ Holds(r, index[r], status[r].version)
            /\ expired[r] \subseteq index[r]
        BY DEF UpdateInv, IndexInv
      <4> QED BY <1>7, <3>1, <4>1
    <3>2. /\ status'[s] \in Row(index'[s]) /\ Holds(s, index'[s], status'[s].version)
          /\ expired'[s] \subseteq index'[s]
      BY <1>4, <1>6, <1>7
    <3> QED BY <3>1, <3>2
  <2> QED BY <1>7, <2>1 DEF IndexInv, Row, Holds, Content, Usable
<1>9. PICK y : /\ y \in Thread /\ ThreadOK(y) /\ y.pc \in {"complete", "check"}
               /\ worker' = [worker EXCEPT ![p] = y]
  <2>1. worker' = [worker EXCEPT ![p] = Advanced(x)]
    BY <1>1, <1>2 DEF Advances, Advanced
  <2> QED BY <1>3, <2>1, AdvancedOK
<1> QED BY <1>1, <1>4, <1>8, <1>9, ImportMove

LEMMA RollBackStep ==
  ASSUME UpdateInv, NEW p \in Procs, RollBack(p)
  PROVE  UpdateInv'
<1>1. /\ Working(p) /\ worker[p].pc \in {"index", "commit"}
      /\ UNCHANGED <<outside, index, status, expired>> /\ txn' = NoTxn
  BY DEF RollBack
<1>2. PICK x, y : x = worker[p] /\ y = [x EXCEPT !.pc = "failing"]
  OBVIOUS
<1>3. x \in Thread /\ ThreadOK(x) /\ x.todo # <<>>
  BY <1>1, <1>2, ThreadWorks
<1>4. worker' = [worker EXCEPT ![p] = y]
  BY <1>2 DEF RollBack, Goes
<1>5. y \in Thread /\ ThreadOK(y) /\ y.pc = "failing"
  BY <1>2, <1>3, PcOK DEF PCs
<1>6. txn.owner = p /\ IndexInv'
  BY <1>1, OwnsTxn, RowsStay
<1> QED BY <1>1, <1>4, <1>5, <1>6, ImportMove

-----------------------------------------------------------------------------
(* The downloads through HQ, and what ends them                            *)

\* Nobody waits for two feeds, and who waits has no answer.
LEMMA WaitsForOne ==
  ASSUME UpdateInv
  PROVE  /\ \A q \in Procs, r, s \in GatewaySources : Waits(q, r) /\ Waits(q, s) => r = s
         /\ \A s \in GatewaySources : inflight[s] # NoPayload =>
              \A q \in inflight[s].waiters : reply[q].got = "waiting" /\ Waits(q, s)
BY DEF UpdateInv, AnswersFit, Waits

\* A process that takes its answer or gives up is answered no more.
LEMMA GaveUp ==
  ASSUME UpdateInv, GatewayInv, NEW p \in Procs, Unanswered(p), UNCHANGED cache,
         \/ Leaves(p)
         \/ UNCHANGED inflight /\ reply[p].got # "waiting",
         \A q \in Procs \ {p} : worker'[q] = worker[q] /\ manager'[q] = manager[q]
  PROVE  AnswersFit'
<1>1. \A q \in Procs : reply'[q] = IF q = p THEN [got |-> "none"] ELSE reply[q]
  BY DEF Unanswered, Answer, Procs
<1>2. \A q \in Procs \ {p}, s \in GatewaySources : Waits(q, s) => Waits(q, s)'
  BY DEF Waits, Working
<1>3. \A s \in GatewaySources : inflight'[s] # NoPayload =>
        inflight[s] # NoPayload /\ inflight'[s].waiters \subseteq inflight[s].waiters \ {p}
  <2>1. CASE Leaves(p)
    <3>1. \A s \in GatewaySources : inflight[s] # NoPayload => inflight[s] \in UpstreamRequests
      BY DEF GatewayInv, KeyInv, GatewayTyped
    <3> QED BY <2>1, <3>1 DEF Leaves, UpstreamRequests
  <2>2. CASE UNCHANGED inflight /\ reply[p].got # "waiting"
    BY <2>2, WaitsForOne
  <2> QED BY <2>1, <2>2
<1>4. ASSUME NEW s \in GatewaySources
      PROVE  /\ cache'[s] # NoPayload => cache'[s].payload \in Payloads[s]
             /\ inflight'[s] # NoPayload =>
                  /\ inflight'[s].waiters \subseteq Procs
                  /\ \A q \in inflight'[s].waiters : reply'[q].got = "waiting" /\ Waits(q, s)'
  <2>1. inflight[s] # NoPayload => inflight[s].waiters \subseteq Procs
    BY DEF UpdateInv, AnswersFit
  <2>2. inflight'[s] # NoPayload =>
          /\ inflight'[s].waiters \subseteq Procs
          /\ \A q \in inflight'[s].waiters : reply'[q].got = "waiting" /\ Waits(q, s)'
    BY <1>1, <1>2, <1>3, <2>1, WaitsForOne
  <2> QED BY <2>2 DEF UpdateInv, AnswersFit
<1>5. ASSUME NEW q \in Procs, reply'[q].got = "payload"
      PROVE  \E s \in GatewaySources : Waits(q, s)' /\ reply'[q].payload \in Payloads[s]
  <2>1. q # p /\ reply'[q] = reply[q]
    BY <1>1, <1>5
  <2> QED BY <1>2, <1>5, <2>1 DEF UpdateInv, AnswersFit
<1> QED BY <1>4, <1>5 DEF AnswersFit

\* A request to HQ: answered at once, joined, or sent on.
LEMMA RequestFits ==
  ASSUME UpdateInv, GatewayInv, NEW p \in Procs, NEW r \in GatewaySources, FeedRequest(p, r),
         Waits(p, r)', \A s \in GatewaySources : ~Waits(p, s),
         \A q \in Procs \ {p} : worker'[q] = worker[q] /\ manager'[q] = manager[q]
  PROVE  AnswersFit'
<1>1. \A q \in Procs \ {p}, s \in GatewaySources : Waits(q, s) => Waits(q, s)'
  BY DEF Waits, Working
<1>2. \A s \in GatewaySources :
        /\ cache[s] # NoPayload => cache[s].payload \in Payloads[s]
        /\ inflight[s] # NoPayload =>
             /\ inflight[s].waiters \subseteq Procs \ {p}
             /\ \A q \in inflight[s].waiters : reply[q].got = "waiting" /\ Waits(q, s)
  BY DEF UpdateInv, AnswersFit
<1>3. /\ UNCHANGED cache
      /\ \A q \in Procs \ {p} : reply'[q] = reply[q]
      /\ \/ UNCHANGED inflight /\ reply'[p].got = "payload" /\ reply'[p].payload \in Payloads[r]
         \/ /\ reply'[p].got = "waiting"
            /\ \A s \in GatewaySources \ {r} : inflight'[s] = inflight[s]
            /\ inflight'[r] # NoPayload =>
                 \/ inflight'[r].waiters = {p}
                 \/ inflight[r] # NoPayload /\ inflight'[r].waiters = inflight[r].waiters \cup {p}
  <2>1. CASE ServedFromCache(p, r)
    BY <1>2, <2>1 DEF ServedFromCache, Answer, Procs
  <2>2. CASE JoinsRequest(p, r)
    <3>1. inflight \in [GatewaySources -> UpstreamRequests \cup {NoPayload}]
      BY DEF GatewayInv, KeyInv, GatewayTyped
    <3>2. inflight[r] \in UpstreamRequests
      BY <2>2, <3>1 DEF JoinsRequest
    <3>3. /\ inflight'[r].waiters = inflight[r].waiters \cup {p}
          /\ \A s \in GatewaySources \ {r} : inflight'[s] = inflight[s]
      BY <2>2, <3>1, <3>2 DEF JoinsRequest, UpstreamRequests
    <3> QED BY <2>2, <3>3 DEF JoinsRequest, Answer, Procs
  <2>3. CASE StartsRequest(p, r)
    <3>1. inflight \in [GatewaySources -> UpstreamRequests \cup {NoPayload}]
      BY DEF GatewayInv, KeyInv, GatewayTyped
    <3> QED BY <2>3, <3>1 DEF StartsRequest, Answer, Procs
  <2> QED BY <2>1, <2>2, <2>3 DEF FeedRequest
<1>4. ASSUME NEW s \in GatewaySources
      PROVE  /\ cache'[s] # NoPayload => cache'[s].payload \in Payloads[s]
             /\ inflight'[s] # NoPayload =>
                  /\ inflight'[s].waiters \subseteq Procs
                  /\ \A q \in inflight'[s].waiters : reply'[q].got = "waiting" /\ Waits(q, s)'
  <2>1. CASE inflight'[s] = inflight[s]
    BY <1>1, <1>2, <1>3, <2>1
  <2>2. CASE inflight'[s] # inflight[s]
    <3>1. s = r /\ reply'[p].got = "waiting"
      BY <1>3, <2>2
    <3> QED BY <1>1, <1>2, <1>3, <2>2, <3>1
  <2> QED BY <2>1, <2>2
<1>5. ASSUME NEW q \in Procs, reply'[q].got = "payload"
      PROVE  \E s \in GatewaySources : Waits(q, s)' /\ reply'[q].payload \in Payloads[s]
  <2>1. CASE q = p
    BY <1>3, <1>5, <2>1
  <2>2. CASE q # p
    BY <1>1, <1>3, <1>5, <2>2 DEF UpdateInv, AnswersFit
  <2> QED BY <2>1, <2>2
<1> QED BY <1>4, <1>5 DEF AnswersFit

LEMMA ThroughHqStep ==
  ASSUME UpdateInv, GatewayInv, NEW p \in Procs, FetchThroughHq(p)
  PROVE  UpdateInv'
<1>1. /\ Working(p) /\ worker[p].pc = "fetch" /\ WithinWorker /\ UNCHANGED <<artifacts, indexVars>>
      /\ FeedRequest(p, Source(p)) /\ Source(p) \in GatewaySources
  BY GatewayAssumption DEF FetchThroughHq, Fetching
<1>2. PICK x, y : x = worker[p] /\ y = [x EXCEPT !.pc = "waiting"]
  OBVIOUS
<1>3. x \in Thread /\ ThreadOK(x) /\ x.todo # <<>> /\ Source(p) = Head(x.todo)
  BY <1>1, <1>2, ThreadWorks DEF Source
<1>4. y \in Thread /\ ThreadOK(y) /\ y.pc = "waiting" /\ y.todo = x.todo
  <2>1. "waiting" \in PCs /\ Head(x.todo) \in GatewaySources
    BY <1>1, <1>3 DEF PCs
  <2> QED BY <1>2, <1>3, <2>1, PcOK
<1>5. /\ worker' = [worker EXCEPT ![p] = y] /\ worker'[p] = y /\ UNCHANGED manager
      /\ \A q \in Procs \ {p} : worker'[q] = worker[q] /\ manager'[q] = manager[q]
  BY <1>1, <1>2 DEF FetchThroughHq, Goes, WithinWorker, UpdateInv, UpdateTyped
<1>6. UpdateTyped' /\ ThreadsOK'
  BY <1>1, <1>4, <1>5, ThreadMoves DEF WithinWorker, UpdateInv, UpdateTyped
<1>7. TxnInv' /\ IndexInv'
  BY <1>1, <1>4, <1>5, TxnStays, RowsStay DEF indexVars
<1>8. AnswersFit'
  <2>1. PICK r \in GatewaySources : r = Source(p)
    BY <1>1
  <2>2. Waits(p, r)' /\ \A s \in GatewaySources : ~Waits(p, s)
    BY <1>1, <1>3, <1>4, <1>5, <2>1 DEF Waits, Working
  <2> QED BY <1>1, <1>5, <2>1, <2>2, RequestFits
<1> QED BY <1>6, <1>7, <1>8 DEF UpdateInv

\* A thread that got its download.
LEMMA GotThread ==
  ASSUME UpdateInv, NEW p \in Procs, Working(p), worker[p].todo # <<>>, Source(p) \in Sources,
         NEW n \in Publications(Source(p)), Got(p, n)
  PROVE  \E y : /\ y \in Thread /\ ThreadOK(y) /\ y.pc \in {"failing", "begin"}
               /\ worker' = [worker EXCEPT ![p] = y]
<1>1. PICK x : x = worker[p]
  OBVIOUS
<1>2. x \in Thread /\ ThreadOK(x) /\ x.todo # <<>> /\ Source(p) = Head(x.todo)
  BY <1>1, ThreadWorks DEF Source
<1>3. PICK pc \in {"failing", "begin"} :
        worker' = [worker EXCEPT ![p] = [x EXCEPT !.payload = n, !.pc = pc]]
  BY <1>1 DEF Got
<1>4. n \in Nat
  BY PublicationsAreNumbers
<1>5. PICK y : y = [x EXCEPT !.payload = n, !.pc = pc]
  OBVIOUS
<1>6. y \in Thread /\ y.pc = pc /\ y.todo = x.todo /\ y.payload = n
  BY <1>2, <1>4, <1>5 DEF Thread, PCs
<1>7. ThreadOK(y)
  BY <1>2, <1>6 DEF ThreadOK
<1> QED BY <1>3, <1>5, <1>6, <1>7

\* The answer of HQ, or none in time.
LEMMA AnswerStep ==
  ASSUME UpdateInv, GatewayInv, NEW p \in Procs, TakesReply(p) \/ TimesOut(p)
  PROVE  UpdateInv'
<1>1. /\ Working(p) /\ worker[p].pc = "waiting" /\ WithinWorker
      /\ UNCHANGED <<artifacts, indexVars>>
      /\ Unanswered(p) /\ UNCHANGED cache
      /\ \/ Leaves(p)
         \/ UNCHANGED inflight /\ reply[p].got # "waiting"
  BY DEF TakesReply, TimesOut, restOfGateway
<1>2. PICK x : x = worker[p]
  OBVIOUS
<1>3. x \in Thread /\ ThreadOK(x) /\ x.todo # <<>> /\ Source(p) = Head(x.todo) /\ Source(p) \in Sources
  BY <1>1, <1>2, ThreadWorks DEF Source
<1>4. PICK y : /\ y \in Thread /\ ThreadOK(y) /\ y.pc \in {"failing", "begin"}
               /\ worker' = [worker EXCEPT ![p] = y]
  <2>1. CASE Goes(p, "failing")
    <3>1. worker' = [worker EXCEPT ![p] = [x EXCEPT !.pc = "failing"]]
      BY <1>2, <2>1 DEF Goes
    <3> QED BY <1>3, <3>1, PcOK DEF PCs
  <2>2. CASE TakesReply(p) /\ reply[p].got = "payload" /\ Got(p, reply[p].payload)
    <3>1. PICK n : n = reply[p].payload
      OBVIOUS
    <3>2. PICK s \in GatewaySources : Waits(p, s) /\ n \in Payloads[s]
      BY <2>2, <3>1 DEF UpdateInv, AnswersFit
    <3>3. s = Head(x.todo) /\ n \in Publications(Head(x.todo)) /\ n \in Nat
      BY <1>2, <3>2, FeedsAssumption, PublicationsAreNumbers DEF Waits
    <3>4. n \in Publications(Source(p)) /\ Got(p, n)
      BY <1>3, <2>2, <3>1, <3>3
    <3> QED BY <1>1, <1>2, <1>3, <3>4, GotThread
  <2> QED BY <2>1, <2>2 DEF TakesReply, TimesOut
<1>5. /\ worker'[p] = y /\ UNCHANGED manager
      /\ \A q \in Procs \ {p} : worker'[q] = worker[q] /\ manager'[q] = manager[q]
  BY <1>1, <1>4 DEF WithinWorker, UpdateInv, UpdateTyped
<1>6. UpdateTyped' /\ ThreadsOK'
  BY <1>1, <1>4, ThreadMoves DEF WithinWorker, UpdateInv, UpdateTyped
<1>7. TxnInv' /\ IndexInv'
  BY <1>1, <1>4, <1>5, TxnStays, RowsStay DEF indexVars
<1>8. AnswersFit'
  BY <1>1, <1>5, GaveUp
<1> QED BY <1>6, <1>7, <1>8 DEF UpdateInv

-----------------------------------------------------------------------------
(* The manager, deaths and restarts                                        *)

\* What a process is doing becomes something else.
LEMMA ProcessMoves ==
  ASSUME UpdateInv, NEW p \in Procs, NEW m \in Manager, NEW y,
         m.call # "idle" => m.running,
         m.call = "idle" => y = NoWorker,
         m.call = "credentials" => y \in Chosen /\ y.todo # <<>>,
         m.call = "worker" => y \in Thread /\ ThreadOK(y),
         manager' = [manager EXCEPT ![p] = m], worker' = [worker EXCEPT ![p] = y],
         UNCHANGED <<enabled, managed, localKey, artifacts>>
  PROVE  /\ UpdateTyped' /\ ThreadsOK' /\ manager'[p] = m /\ worker'[p] = y
         /\ \A q \in Procs \ {p} : worker'[q] = worker[q] /\ manager'[q] = manager[q]
<1>1. /\ DOMAIN worker = Procs /\ DOMAIN worker' = Procs
      /\ \A q \in Procs : worker'[q] = IF q = p THEN y ELSE worker[q]
  BY DEF UpdateInv, UpdateTyped
<1>2. /\ manager' \in [Procs -> Manager]
      /\ \A q \in Procs : manager'[q] = IF q = p THEN m ELSE manager[q]
  BY DEF UpdateInv, UpdateTyped
<1>3. UpdateTyped'
  BY <1>1, <1>2 DEF UpdateInv, UpdateTyped
<1>4. ThreadsOK'
  <2>1. \A q \in Procs : /\ manager'[q].call = "credentials" => worker'[q].todo # <<>>
                         /\ manager'[q].call = "worker" => ThreadOK(worker'[q])
    BY <1>1, <1>2 DEF UpdateInv, ThreadsOK
  <2>2. \A q \in Procs : ThreadOK(worker[q])' <=> ThreadOK(worker'[q])
    BY DEF ThreadOK
  <2> QED BY <2>1, <2>2 DEF ThreadsOK
<1> QED BY <1>1, <1>2, <1>3, <1>4

\* The connection of the process is closed.
LEMMA TxnReleased ==
  ASSUME UpdateInv, NEW p \in Procs, Released(p), UNCHANGED <<index, expired>>,
         Working(p)' => worker'[p].pc \notin {"index", "commit"},
         \A q \in Procs \ {p} : worker'[q] = worker[q] /\ manager'[q] = manager[q]
  PROVE  TxnInv'
<1>1. CASE txn.owner = p
  <2>1. txn' = NoTxn
    BY <1>1 DEF Released
  <2>2. \A q \in Procs : Working(q)' => worker'[q].pc \notin {"index", "commit"}
    BY <1>1 DEF UpdateInv, TxnInv, Working
  <2> QED BY <2>1, <2>2 DEF TxnInv
<1>2. CASE txn.owner # p
  <2>1. UNCHANGED txn
    BY <1>2 DEF Released
  <2>2. Working(p) => worker[p].pc \notin {"index", "commit"}
    BY <1>2 DEF UpdateInv, TxnInv
  <2> QED BY <2>1, <2>2, TxnStays
<1> QED BY <1>1, <1>2

LEMMA ManagerStep ==
  ASSUME UpdateInv, NEW p \in Procs,
         StartUpdate(p) \/ LoadCredentials(p) \/ StartFails(p) \/ Finish(p)
  PROVE  UpdateInv'
<1>1. /\ UNCHANGED <<gatewayVars, enabled, managed, localKey, artifacts>>
      /\ UNCHANGED <<index, status, txn, expired>>
      /\ Working(p) => worker[p].pc \notin {"waiting", "index", "commit"}
  <2>1. CASE StartUpdate(p)
    BY <2>1 DEF StartUpdate, indexVars, Working, UpdateInv, UpdateTyped, Manager
  <2>2. CASE LoadCredentials(p) \/ StartFails(p) \/ Finish(p)
    BY <2>2 DEF LoadCredentials, StartFails, Finish, indexVars, Working
  <2> QED BY <2>1, <2>2
<1>2. PICK m, y :
        /\ m \in Manager /\ manager' = [manager EXCEPT ![p] = m]
        /\ worker' = [worker EXCEPT ![p] = y]
        /\ m.call # "idle" => m.running
        /\ m.call = "idle" => y = NoWorker
        /\ m.call = "credentials" => y \in Chosen /\ y.todo # <<>>
        /\ m.call = "worker" => y \in Thread /\ ThreadOK(y)
        /\ m.call = "worker" => y.pc = "check"
  <2>1. CASE StartUpdate(p)
    <3>1. PICK forced \in BOOLEAN :
            worker' = [worker EXCEPT ![p] = [pc |-> "none", todo |-> enabled, forced |-> forced]]
      BY <2>1 DEF StartUpdate
    <3> PICK m, y : /\ m = [running |-> TRUE, call |-> "credentials"]
                    /\ y = [pc |-> "none", todo |-> enabled, forced |-> forced]
      OBVIOUS
    <3>2. y \in Chosen /\ y.todo # <<>> /\ m \in Manager /\ m.running /\ m.call = "credentials"
      BY DEF Chosen, Manager, UpdateInv, UpdateTyped
    <3>3. manager' = [manager EXCEPT ![p] = m] /\ worker' = [worker EXCEPT ![p] = y]
      BY <2>1, <3>1 DEF StartUpdate, Calls
    <3> QED BY <3>2, <3>3
  <2>2. CASE LoadCredentials(p)
    <3>1. PICK x : x = worker[p]
      OBVIOUS
    <3>2. x \in Chosen /\ x.todo # <<>>
      BY <2>2, <3>1 DEF LoadCredentials, UpdateInv, UpdateTyped, ThreadsOK
    <3>3. PICK hq \in {FALSE, managed} :
            worker' = [worker EXCEPT ![p] =
              [pc |-> "check", todo |-> x.todo, forced |-> x.forced,
               hq |-> hq, key |-> localKey, payload |-> Damaged]]
      BY <2>2, <3>1 DEF LoadCredentials
    <3> PICK m, y : /\ m = [running |-> TRUE, call |-> "worker"]
                    /\ y = [pc |-> "check", todo |-> x.todo, forced |-> x.forced,
                            hq |-> hq, key |-> localKey, payload |-> Damaged]
      OBVIOUS
    <3>4. m \in Manager /\ m.running /\ m.call = "worker"
      BY DEF Manager
    <3>5. hq \in BOOLEAN /\ localKey \in BOOLEAN
      BY DEF UpdateInv, UpdateTyped
    <3>6. y \in Thread /\ y.todo # <<>> /\ y.pc = "check" /\ y.payload = Damaged
      BY <3>2, <3>5 DEF Thread, Chosen, PCs, Damaged
    <3>7. ThreadOK(y)
      BY <3>6 DEF ThreadOK, Publications
    <3>8. manager' = [manager EXCEPT ![p] = m] /\ worker' = [worker EXCEPT ![p] = y]
      BY <2>2, <3>3 DEF LoadCredentials, Calls
    <3> QED BY <3>4, <3>6, <3>7, <3>8
  <2>3. CASE StartFails(p) \/ Finish(p)
    <3>1. PICK r \in BOOLEAN : manager' = [manager EXCEPT ![p] = [running |-> r, call |-> "idle"]]
      BY <2>3 DEF StartFails, Finish, Calls
    <3> PICK m : m = [running |-> r, call |-> "idle"]
      OBVIOUS
    <3>2. m \in Manager /\ m.call = "idle"
      BY DEF Manager
    <3> QED BY <2>3, <3>1, <3>2 DEF StartFails, Finish
  <2> QED BY <2>1, <2>2, <2>3
<1>3. /\ UpdateTyped' /\ ThreadsOK' /\ manager'[p] = m /\ worker'[p] = y
      /\ \A q \in Procs \ {p} : worker'[q] = worker[q] /\ manager'[q] = manager[q]
  BY <1>1, <1>2, ProcessMoves
<1>4. AnswersFit'
  BY <1>1, <1>3, AnswersStay DEF Waits
<1>5. TxnInv'
  <2>1. Working(p)' => worker'[p].pc \notin {"index", "commit"}
    BY <1>2, <1>3 DEF Working
  <2> QED BY <1>1, <1>3, <2>1, TxnStays
<1>6. IndexInv'
  BY <1>1, RowsStay
<1> QED BY <1>3, <1>4, <1>5, <1>6 DEF UpdateInv

LEMMA DeathStep ==
  ASSUME UpdateInv, GatewayInv, NEW p \in Procs, WorkerDies(p) \/ ProcessRestarts(p)
  PROVE  UpdateInv'
<1>1. /\ UNCHANGED <<cache, enabled, managed, localKey, artifacts, index, status, expired>>
      /\ Released(p) /\ Unanswered(p) /\ Leaves(p)
  BY DEF WorkerDies, ProcessRestarts, restOfGateway
<1>2. /\ UpdateTyped' /\ ThreadsOK'
      /\ Working(p)' => worker'[p].pc \notin {"index", "commit"}
      /\ \A q \in Procs \ {p} : worker'[q] = worker[q] /\ manager'[q] = manager[q]
  <2>1. CASE WorkerDies(p)
    <3>1. Working(p) /\ UNCHANGED manager
      BY <2>1 DEF WorkerDies
    <3>2. PICK x, y : x = worker[p] /\ y = [x EXCEPT !.pc = "dead"]
      OBVIOUS
    <3>3. x \in Thread /\ ThreadOK(x)
      BY <3>1, <3>2, ThreadWorks
    <3>4. "dead" \in PCs
      BY DEF PCs
    <3>5. y \in Thread /\ ThreadOK(y) /\ y.pc = "dead"
      BY <3>2, <3>3, <3>4, PcOK
    <3>6. worker' = [worker EXCEPT ![p] = y]
      BY <2>1, <3>2 DEF WorkerDies, Goes
    <3>7. UpdateTyped' /\ ThreadsOK'
      BY <1>1, <3>1, <3>5, <3>6, ThreadMoves DEF UpdateInv, UpdateTyped
    <3> QED BY <3>1, <3>5, <3>6, <3>7 DEF UpdateInv, UpdateTyped
  <2>2. CASE ProcessRestarts(p)
    <3> PICK m : m = [running |-> FALSE, call |-> "idle"]
      OBVIOUS
    <3>1. m \in Manager /\ m.call = "idle"
      BY DEF Manager
    <3>2. manager' = [manager EXCEPT ![p] = m] /\ worker' = [worker EXCEPT ![p] = NoWorker]
      BY <2>2 DEF ProcessRestarts, Calls
    <3>3. /\ UpdateTyped' /\ ThreadsOK' /\ manager'[p] = m
          /\ \A q \in Procs \ {p} : worker'[q] = worker[q] /\ manager'[q] = manager[q]
      BY <1>1, <3>1, <3>2, ProcessMoves
    <3> QED BY <3>1, <3>3 DEF Working
  <2> QED BY <2>1, <2>2
<1>3. AnswersFit' /\ TxnInv' /\ IndexInv'
  BY <1>1, <1>2, GaveUp, TxnReleased, RowsStay
<1> QED BY <1>2, <1>3 DEF UpdateInv
-----------------------------------------------------------------------------
(* HQ and time                                                             *)

\* Nothing but the gateway moves.
LEMMA ProcessesStay ==
  ASSUME UpdateInv, UNCHANGED <<enabled, managed, artifacts, manager, worker, txn, index>>,
         localKey' \in BOOLEAN
  PROVE  UpdateTyped' /\ ThreadsOK' /\ TxnInv' /\ \A p \in Procs, s \in Sources \cup GatewaySources :
           Waits(p, s)' <=> Waits(p, s)
<1>1. UpdateTyped'
  BY DEF UpdateInv, UpdateTyped
<1>2. ThreadsOK'
  <2>1. \A q \in Procs : ThreadOK(worker[q])' <=> ThreadOK(worker[q])
    BY DEF ThreadOK
  <2> QED BY <2>1 DEF UpdateInv, ThreadsOK
<1>3. TxnInv'
  <2>1. TxnOK(txn)' <=> TxnOK(txn)
    BY DEF TxnOK, Working
  <2> QED BY <2>1 DEF UpdateInv, TxnInv, Working
<1>4. \A p \in Procs, s \in Sources \cup GatewaySources : Waits(p, s)' <=> Waits(p, s)
  BY DEF Waits, Working
<1> QED BY <1>1, <1>2, <1>3, <1>4

\* What HQ's own steps do to its answers.
AnswersMove ==
  /\ \A s \in GatewaySources : cache'[s] # NoPayload => cache'[s].payload \in Payloads[s]
  /\ \A s \in GatewaySources : inflight'[s] # NoPayload =>
       /\ inflight'[s] = inflight[s] /\ inflight[s] # NoPayload
       /\ \A q \in inflight[s].waiters : reply'[q] = reply[q]
  /\ \A q \in Procs : reply'[q].got = "payload" =>
       \/ reply'[q] = reply[q]
       \/ \E s \in GatewaySources : Waits(q, s) /\ reply'[q].payload \in Payloads[s]

LEMMA GatewayAnswers ==
  ASSUME UpdateInv, GatewayInv, GwNext
  PROVE  AnswersMove
<1> USE DEF AnswersMove
<1>1. /\ cache \in [GatewaySources -> [payload : AnyPayload, key : Keys \cup {NoKey}] \cup {NoPayload}]
      /\ inflight \in [GatewaySources -> UpstreamRequests \cup {NoPayload}]
  BY DEF GatewayInv, KeyInv, GatewayTyped
<1>2. /\ \A s \in GatewaySources : cache[s] # NoPayload => cache[s].payload \in Payloads[s]
      /\ \A r, s \in GatewaySources : inflight[r] # NoPayload /\ inflight[s] # NoPayload /\ r # s =>
           inflight[s].waiters \cap inflight[r].waiters = {}
      /\ \A s \in GatewaySources : inflight[s] # NoPayload => inflight[s].waiters \subseteq Procs
  BY WaitsForOne DEF UpdateInv, AnswersFit
<1>3. ASSUME NEW r \in GatewaySources, NEW payload \in Payloads[r], UpstreamAnswers(r, payload)
      PROVE  AnswersMove
  <2>1. /\ cache'[r].payload = payload /\ inflight'[r] = NoPayload
        /\ \A s \in GatewaySources \ {r} : cache'[s] = cache[s] /\ inflight'[s] = inflight[s]
        /\ \A q \in Procs : reply'[q] = IF q \in inflight[r].waiters
                                        THEN [got |-> "payload", payload |-> payload]
                                        ELSE reply[q]
        /\ inflight[r] # NoPayload
    BY <1>1, <1>3 DEF UpstreamAnswers, Answer, Procs
  <2>2. \A q \in Procs : reply'[q].got = "payload" =>
          \/ reply'[q] = reply[q]
          \/ \E s \in GatewaySources : Waits(q, s) /\ reply'[q].payload \in Payloads[s]
    BY <2>1, WaitsForOne
  <2> QED BY <1>2, <2>1, <2>2
<1>4. ASSUME NEW r \in GatewaySources, UpstreamFails(r)
      PROVE  AnswersMove
  <2>1. /\ inflight'[r] = NoPayload /\ UNCHANGED cache
        /\ \A s \in GatewaySources \ {r} : inflight'[s] = inflight[s]
        /\ \A q \in Procs : reply'[q] = IF q \in inflight[r].waiters THEN Failed ELSE reply[q]
        /\ inflight[r] # NoPayload
    BY <1>1, <1>4 DEF UpstreamFails, Answer, Procs
  <2> QED BY <1>2, <2>1 DEF Failed
<1>5. ASSUME (\E r \in GatewaySources : CacheExpires(r)) \/ \E k \in Keys \cup {NoKey} : ChangeKey(k)
      PROVE  AnswersMove
  <2>1. UNCHANGED <<inflight, reply>>
    BY <1>5 DEF CacheExpires, ChangeKey
  <2>2. \A s \in GatewaySources : cache'[s] \in {cache[s], NoPayload}
    BY <1>1, <1>5 DEF CacheExpires, ChangeKey
  <2> QED BY <1>2, <2>1, <2>2
<1>6. CASE HqRestarts
  <2>1. \A s \in GatewaySources : cache'[s] = NoPayload /\ inflight'[s] = NoPayload
    BY <1>6 DEF HqRestarts
  <2>2. \A q \in Procs : reply'[q] \in {Failed, reply[q]}
    BY <1>6 DEF HqRestarts, Procs
  <2> QED BY <2>1, <2>2 DEF Failed
<1> QED BY <1>3, <1>4, <1>5, <1>6 DEF GwNext

LEMMA GatewayMoves ==
  ASSUME UpdateInv, GatewayInv, GwNext,
         UNCHANGED <<enabled, managed, localKey, artifacts, manager, worker, indexVars>>
  PROVE  UpdateInv'
<1>1. /\ UpdateTyped' /\ ThreadsOK' /\ TxnInv'
      /\ \A p \in Procs, s \in GatewaySources : Waits(p, s)' <=> Waits(p, s)
  BY ProcessesStay DEF indexVars, UpdateInv, UpdateTyped
<1>2. IndexInv'
  BY RowsStay DEF indexVars
<1>3. AnswersMove
  BY GatewayAnswers
<1>4. AnswersFit'
  <2>1. ASSUME NEW s \in GatewaySources
        PROVE  /\ cache'[s] # NoPayload => cache'[s].payload \in Payloads[s]
               /\ inflight'[s] # NoPayload =>
                    /\ inflight'[s].waiters \subseteq Procs
                    /\ \A q \in inflight'[s].waiters : reply'[q].got = "waiting" /\ Waits(q, s)'
    BY <1>1, <1>3 DEF AnswersMove, UpdateInv, AnswersFit
  <2>2. ASSUME NEW q \in Procs, reply'[q].got = "payload"
        PROVE  \E s \in GatewaySources : Waits(q, s)' /\ reply'[q].payload \in Payloads[s]
    BY <1>1, <1>3, <2>2 DEF AnswersMove, UpdateInv, AnswersFit
  <2> QED BY <2>1, <2>2 DEF AnswersFit
<1> QED BY <1>1, <1>2, <1>4 DEF UpdateInv

\* The interval or half a year is over: the rows are no longer recent.
LEMMA TimeStep ==
  ASSUME UpdateInv, IntervalPasses \/ HalfYearPasses
  PROVE  UpdateInv'
<1>1. /\ UNCHANGED <<outside, worker, index, txn>>
      /\ status' = [s \in Sources |-> [status[s] EXCEPT !.recent = FALSE]]
  BY DEF IntervalPasses, HalfYearPasses
<1>2. /\ UpdateTyped' /\ ThreadsOK' /\ TxnInv'
      /\ \A p \in Procs, s \in GatewaySources : Waits(p, s)' <=> Waits(p, s)
  BY <1>1, ProcessesStay DEF outside, UpdateInv, UpdateTyped
<1>3. AnswersFit'
  <2>1. UNCHANGED <<cache, inflight, reply>>
    BY <1>1 DEF outside, gatewayVars
  <2> QED BY <1>2, <2>1 DEF UpdateInv, AnswersFit
<1>4. ASSUME NEW s \in Sources
      PROVE  status'[s] \in Row(index[s]) /\ status'[s].version = status[s].version
  <2>1. status[s] \in Row(index[s])
    BY DEF UpdateInv, IndexInv
  <2> QED BY <1>1, <2>1 DEF Row
<1>5. \A s \in Sources : expired'[s] \subseteq index[s]
  BY DEF IntervalPasses, HalfYearPasses, UpdateInv, IndexInv
<1>6. DOMAIN index' = Sources /\ DOMAIN status' = Sources /\ DOMAIN expired' = Sources
  BY <1>1 DEF IntervalPasses, HalfYearPasses, UpdateInv, IndexInv
<1>7. IndexInv'
  <2>1. \A s \in Sources : /\ status'[s] \in Row(index'[s])
                           /\ Holds(s, index'[s], status'[s].version)
                           /\ expired'[s] \subseteq index'[s]
    BY <1>1, <1>4, <1>5 DEF UpdateInv, IndexInv
  <2> QED BY <1>6, <2>1 DEF IndexInv, Row, Holds, Content, Usable
<1> QED BY <1>2, <1>3, <1>7 DEF UpdateInv

LEMMA UpdateInvariance == ThreatSpec => []UpdateInv
<1>1. ASSUME UpdateInv, GatewayInv, [ThreatNext]_threatVars
      PROVE  UpdateInv'
  <2>1. CASE UNCHANGED updateVars
    <3>1. /\ UNCHANGED <<enabled, managed, localKey, artifacts, manager, worker>>
          /\ UNCHANGED <<index, status, txn, expired>> /\ UNCHANGED <<cache, inflight, reply>>
      BY <2>1 DEF updateVars, indexVars, gatewayVars
    <3>2. /\ UpdateTyped' /\ ThreadsOK' /\ TxnInv'
          /\ \A p \in Procs, s \in GatewaySources : Waits(p, s)' <=> Waits(p, s)
      BY <1>1, <3>1, ProcessesStay DEF UpdateInv, UpdateTyped
    <3>3. AnswersFit'
      BY <1>1, <3>1, <3>2 DEF UpdateInv, AnswersFit
    <3>4. IndexInv'
      BY <1>1, <3>1, RowsStay
    <3> QED BY <3>2, <3>3, <3>4 DEF UpdateInv
  <2>2. CASE TuNext
    <3>1. ASSUME NEW p \in Procs, WorkerStep(p)
          PROVE  UpdateInv'
      BY <1>1, <3>1, CheckStep, FetchStep, ThroughHqStep, AnswerStep, BeginStep, IndexStep,
         CommitStep, RollBackStep DEF WorkerStep
    <3>2. CASE SaveThreatCredentials
      <4>1. /\ UNCHANGED <<enabled, managed, artifacts, manager, worker, index, status, txn, expired>>
            /\ UNCHANGED <<cache, inflight, reply>> /\ localKey' \in BOOLEAN
        BY <3>2 DEF SaveThreatCredentials, gatewayVars, indexVars
      <4>2. /\ UpdateTyped' /\ ThreadsOK' /\ TxnInv'
            /\ \A p \in Procs, s \in GatewaySources : Waits(p, s)' <=> Waits(p, s)
        BY <1>1, <4>1, ProcessesStay
      <4>3. AnswersFit' /\ IndexInv'
        BY <1>1, <4>1, <4>2, RowsStay DEF UpdateInv, AnswersFit
      <4> QED BY <4>2, <4>3 DEF UpdateInv
    <3> QED BY <1>1, <2>2, <3>1, <3>2, ManagerStep, DeathStep, GatewayMoves, TimeStep DEF TuNext
  <2> QED BY <1>1, <2>1, <2>2 DEF ThreatNext, threatVars
<1> QED BY <1>1, InitUpdates, Invariance, PTL DEF ThreatSpec

OvertakenTyped == overtaken \subseteq GatewaySources
LEMMA OvertakenKnown == ThreatSpec => []OvertakenTyped
<1> USE DEF OvertakenTyped
<1>1. ThreatInit => OvertakenTyped
  BY DEF ThreatInit, TuInit, GwInit
<1>2. ASSUME OvertakenTyped, [ThreatNext]_threatVars
      PROVE  OvertakenTyped'
  <2>1. CASE UNCHANGED gatewayVars
    BY <1>2, <2>1 DEF gatewayVars
  <2>2. CASE ClientStep
    BY <1>2, <2>2 DEF ClientStep, FeedRequest, ServedFromCache, JoinsRequest, StartsRequest,
                      TakesAnswer, GivesUp, restOfGateway
  <2>3. CASE GwNext
    BY <1>2, <2>3 DEF GwNext, UpstreamAnswers, UpstreamFails, CacheExpires, ChangeKey, HqRestarts
  <2> QED BY <1>2, <2>1, <2>2, <2>3, StepOfGateway DEF GatewayStep
<1> HIDE DEF OvertakenTyped
<1> QED BY <1>1, <1>2, PTL DEF ThreatSpec

(* The types of an update and of the gateway, for any number of processes, *)
(* feeds and publications.                                                 *)
THEOREM UpdateTypes == ThreatSpec => []ThreatTypeOK
<1>1. UpdateInv /\ GatewayInv /\ OvertakenTyped => ThreatTypeOK
  <2> SUFFICES ASSUME UpdateInv, GatewayInv, OvertakenTyped PROVE ThreatTypeOK
    OBVIOUS
  <2>1. ASSUME NEW p \in Procs
        PROVE  /\ manager[p].running \in BOOLEAN
               /\ manager[p].call \in {"idle", "credentials", "worker"}
               /\ manager[p].call # "idle" => manager[p].running
               /\ worker[p] = NoWorker <=> manager[p].call = "idle"
    <3>1. manager[p] \in Manager
      BY DEF UpdateInv, UpdateTyped
    <3>2. manager[p].call = "credentials" => worker[p] # NoWorker
      <4>1. \A y \in Chosen : y # NoWorker
        BY DEF Chosen, NoWorker
      <4> QED BY <4>1 DEF UpdateInv, UpdateTyped
    <3>3. manager[p].call = "worker" => worker[p] # NoWorker
      <4>1. \A y \in Thread : y # NoWorker
        BY DEF Thread, PCs, NoWorker
      <4> QED BY <4>1 DEF UpdateInv, UpdateTyped
    <3> QED BY <3>1, <3>2, <3>3 DEF Manager, UpdateInv, UpdateTyped
  <2>2. /\ txn.owner \in Procs \cup {"none"}
        /\ txn.owner \in Procs => Working(txn.owner) /\ worker[txn.owner].pc \in {"index", "commit"}
    BY FeedsAssumption DEF UpdateInv, TxnInv, TxnOK, NoTxn, Procs
  <2> QED BY <2>1, <2>2 DEF OvertakenTyped, ThreatTypeOK, UpdateInv, UpdateTyped, IndexInv, GatewayInv,
                                  KeyInv, GatewayTyped
<1> QED BY <1>1, UpdateInvariance, Invariance, OvertakenKnown, PTL

(* Whatever is downloaded, by however many processes, and wherever an      *)
(* update fails, is killed or overtakes another, a scan reads for each     *)
(* source the whole of the publication its row names, and as many entries  *)
(* as the row counts (BEGIN IMMEDIATE ... COMMIT or ROLLBACK).             *)
THEOREM WholeFeedsOnly == ThreatSpec => []ReadersSeeWholeFeeds
<1>1. UpdateInv => ReadersSeeWholeFeeds
  BY DEF UpdateInv, IndexInv, ReadersSeeWholeFeeds, Holds, Row
<1> QED BY <1>1, UpdateInvariance, PTL

(* For every list of items a feed can publish, only what can be matched    *)
(* gets into the index, only MISP attributes marked for detection, and no  *)
(* hash that URLhaus merely observed counts as confirmed.                  *)
THEOREM IndicatorsAreUsable == ThreatSpec => []OnlyUsableIndicators
<1>1. UpdateInv => OnlyUsableIndicators
  BY DEF UpdateInv, IndexInv, OnlyUsableIndicators, Holds, Usable
<1> QED BY <1>1, UpdateInvariance, PTL
-----------------------------------------------------------------------------
(* The archive readers.  Induction over data is stated here for the members *)
(* of a set, with the least counterexample: no operator is a parameter.    *)

(* A set of naturals has a least member.                                   *)
LEMMA Least ==
  ASSUME NEW T \in SUBSET Nat, T # {}
  PROVE  \E x \in T : \A y \in T : x <= y
  <1> DEFINE R == OpToRel(<, Nat)
  <1>1. IsWellFoundedOn(R, Nat)
    BY NatLessThanWellFounded
  <1>2. \A x, y \in Nat : x < y => <<x, y>> \in R
    BY DEF OpToRel
  <1> HIDE DEF R
  <1>3. PICK x \in T : \A y \in T : <<y, x>> \notin R
    BY <1>1, WFMin
  <1>4. \A y \in T : ~(y < x)
    BY <1>2, <1>3
  <1>5. \A y \in T : x <= y
    BY <1>4
  <1> QED BY <1>5

(* Induction over the numbers up to a bound, for the members of a set.     *)
LEMMA Counting ==
  ASSUME NEW N \in Nat, NEW T, 0 \in T,
         \A n \in 0..(N - 1) : n \in T => n + 1 \in T
  PROVE  0..N \subseteq T
  <1> DEFINE Missing == {n \in 0..N : n \notin T}
  <1> SUFFICES ASSUME Missing # {} PROVE FALSE
    OBVIOUS
  <1>1. Missing \in SUBSET Nat
    OBVIOUS
  <1>2. PICK n \in Missing : \A m \in Missing : n <= m
    <2> HIDE DEF Missing
    <2> QED BY <1>1, Least
  <1>3. n \in 0..N /\ n \notin T /\ n # 0
    OBVIOUS
  <1>4. n - 1 \in 0..(N - 1) /\ n - 1 \in 0..N /\ ~(n <= n - 1) /\ (n - 1) + 1 = n
    BY <1>3
  <1>5. n - 1 \notin Missing
    BY <1>2, <1>4
  <1>6. n - 1 \in T
    BY <1>4, <1>5
  <1>7. (n - 1) + 1 \in T
    BY <1>4, <1>6
  <1> QED BY <1>3, <1>4, <1>7

(* A step taken n times from a base.                                       *)
StepsIn(D, N, step) == step \in [1..N -> [D -> D]]
IteratesOf(f, D, N, base, step) ==
  f \in [0..N -> D] /\ f[0] = base /\ \A n \in 1..N : f[n] = step[n][f[n - 1]]
(* Such steps can be taken, whatever they compute.                         *)
LEMMA Iterates ==
  ASSUME NEW N \in Nat, NEW D, NEW base \in D, NEW step, StepsIn(D, N, step)
  PROVE  \E f : IteratesOf(f, D, N, base, step)
  <1> USE DEF StepsIn, IteratesOf
  <1> DEFINE Upto(n, f) == /\ f \in [0..n -> D] /\ f[0] = base
                           /\ \A k \in 1..n : f[k] = step[k][f[k - 1]]
             T == {n \in 0..N : \E f : Upto(n, f)}
  <1>1. 0 \in T
    <2>1. Upto(0, [k \in 0..0 |-> base])
      OBVIOUS
    <2> HIDE DEF Upto
    <2> QED BY <2>1
  <1>2. ASSUME NEW n \in 0..(N - 1), NEW f, Upto(n, f)
        PROVE  \E g : Upto(n + 1, g)
    <2> DEFINE g == [k \in 0..(n + 1) |-> IF k = n + 1 THEN step[n + 1][f[n]] ELSE f[k]]
    <2>1. f[n] \in D /\ n + 1 \in 1..N
      BY <1>2
    <2>2. step[n + 1][f[n]] \in D
      BY <2>1
    <2>3. \A k \in 0..n : k # n + 1 /\ k \in 0..(n + 1) /\ f[k] \in D
      BY <1>2
    <2>4. g \in [0..(n + 1) -> D]
      BY <2>2, <2>3
    <2>5. g[0] = base
      BY <1>2
    <2>6. ASSUME NEW k \in 1..(n + 1) PROVE g[k] = step[k][g[k - 1]]
      <3>1. k - 1 \in 0..n /\ k - 1 # n + 1 /\ k - 1 \in 0..(n + 1)
        OBVIOUS
      <3>2. g[k - 1] = f[k - 1]
        BY <3>1
      <3>3. CASE k = n + 1
        <4>1. g[k] = step[n + 1][f[n]] /\ k - 1 = n
          BY <3>3
        <4> QED BY <3>2, <3>3, <4>1
      <3>4. CASE k \in 1..n
        BY <3>2, <3>4, <1>2
      <3> QED BY <3>3, <3>4
    <2>7. Upto(n + 1, g)
      <3> HIDE DEF g
      <3> QED BY <2>4, <2>5, <2>6
    <2> QED BY <2>7
  <1>3. \A n \in 0..(N - 1) : n \in T => n + 1 \in T
    <2> HIDE DEF Upto
    <2>1. \A n \in 0..(N - 1) : n + 1 \in 0..N
      OBVIOUS
    <2> QED BY <1>2, <2>1
  <1>4. N \in T
    <2> HIDE DEF T
    <2>1. 0..N \subseteq T
      BY <1>1, <1>3, Counting
    <2> QED BY <2>1
  <1>5. PICK f : Upto(N, f)
    <2> HIDE DEF Upto
    <2> QED BY <1>4
  <1> QED BY <1>5

(* What FlattenSeq computes is what joining one by one gives.              *)
LEMMA FlattenIs ==
  ASSUME NEW S, NEW s \in Seq(Seq(S)), NEW g \in [0..Len(s) -> Seq(S)], g[0] = <<>>,
         \A n \in 1..Len(s) : g[n] = g[n - 1] \o s[n]
  PROVE  FlattenSeq(s) = g[Len(s)]
  <1>1. CASE Len(s) = 0
    <2>1. s = <<>>
      BY <1>1, EmptySeq
    <2> QED BY <1>1, <2>1 DEF FlattenSeq
  <1>2. CASE Len(s) # 0
    <2> DEFINE Flat(f) == f = [i \in 1..Len(s) |-> IF i = 1 THEN s[i] ELSE f[i - 1] \o s[i]]
               flatten == CHOOSE f : Flat(f)
    <2>1. \E f : Flat(f)
      <3> DEFINE h == [i \in 1..Len(s) |-> g[i]]
      <3>1. ASSUME NEW i \in 1..Len(s) PROVE g[i] = IF i = 1 THEN s[i] ELSE h[i - 1] \o s[i]
        <4>1. CASE i = 1
          <5>1. s[i] \in Seq(S)
            OBVIOUS
          <5>2. g[1] = <<>> \o s[1]
            <6>1. g[i] = g[i - 1] \o s[i]
              OBVIOUS
            <6>2. i - 1 = 0
              BY <4>1
            <6> QED BY <4>1, <6>1, <6>2
          <5> QED BY <4>1, <5>1, <5>2, ConcatEmptySeq
        <4>2. CASE i # 1
          <5>1. i - 1 \in 1..Len(s)
            BY <4>2
          <5> QED BY <4>2, <5>1
        <4> QED BY <4>1, <4>2
      <3>2. h = [i \in 1..Len(s) |-> IF i = 1 THEN s[i] ELSE h[i - 1] \o s[i]]
        BY <3>1
      <3> QED BY <3>2
    <2>2. Flat(flatten)
      <3> HIDE DEF Flat
      <3> QED BY <2>1
    <2>3. FlattenSeq(s) = flatten[Len(s)]
      <3> HIDE DEF flatten
      <3> QED BY <1>2 DEF FlattenSeq, flatten
    <2> HIDE DEF flatten
    <2> DEFINE T == {n \in 0..Len(s) : n = 0 \/ flatten[n] = g[n]}
    <2>4. ASSUME NEW n \in 0..(Len(s) - 1), n \in T PROVE n + 1 \in T
      <3>1. n + 1 \in 1..Len(s) /\ (n + 1) - 1 = n
        OBVIOUS
      <3>2. g[n + 1] = g[n] \o s[n + 1]
        BY <3>1
      <3>3. flatten[n + 1] = IF n + 1 = 1 THEN s[n + 1] ELSE flatten[n] \o s[n + 1]
        BY <2>2, <3>1
      <3>4. s[n + 1] \in Seq(S)
        BY <3>1
      <3>5. CASE n = 0
        <4>1. flatten[n + 1] = s[n + 1]
          BY <3>3, <3>5
        <4>2. g[n + 1] = s[n + 1]
          BY <3>2, <3>4, <3>5, ConcatEmptySeq
        <4> QED BY <3>1, <4>1, <4>2
      <3>6. CASE n # 0
        <4>1. flatten[n] = g[n] /\ n + 1 # 1
          BY <3>6, <2>4
        <4>2. flatten[n + 1] = g[n + 1]
          BY <3>2, <3>3, <4>1
        <4> QED BY <3>1, <4>2
      <3> QED BY <3>5, <3>6
    <2>5. 0..Len(s) \subseteq T
      <3>1. 0 \in T
        OBVIOUS
      <3>2. Len(s) \in Nat
        OBVIOUS
      <3> HIDE DEF T
      <3> QED BY <3>1, <3>2, <2>4, Counting
    <2> QED BY <1>2, <2>3, <2>5
  <1> QED BY <1>1, <1>2

(* Two sequences joined.                                                   *)
LEMMA JoinTwo ==
  ASSUME NEW S, NEW s \in Seq(S), NEW t \in Seq(S)
  PROVE  /\ s \o t \in Seq(S) /\ Len(s \o t) = Len(s) + Len(t)
         /\ \A k \in 1..Len(s) : (s \o t)[k] = s[k]
         /\ \A k \in 1..Len(t) : (s \o t)[Len(s) + k] = t[k]
  <1>1. Len(s) \in Nat /\ Len(t) \in Nat
    OBVIOUS
  <1> QED BY <1>1, ConcatProperties

(* A function on the first numbers is a sequence.                          *)
LEMMA FirstNumbers ==
  ASSUME NEW S, NEW n \in Nat, NEW f \in [1..n -> S]
  PROVE  f \in Seq(S) /\ Len(f) = n
  OBVIOUS

(* N sequences, and what joining the first n of them gives.                *)
SequencesOf(S, N, s) == \A k \in 1..N : s[k] \in Seq(S)
JoinsOf(S, N, s, g) == /\ \A n \in 0..N : g[n] \in Seq(S)
                       /\ g[0] = <<>> /\ \A n \in 1..N : g[n] = g[n - 1] \o s[n]
FlattensTo(N, s, g) == \A m \in 0..N : FlattenSeq([k \in 1..m |-> s[k]]) = g[m]

(* Joining N sequences one by one is what FlattenSeq does.                 *)
LEMMA Joined ==
  ASSUME NEW S, NEW N \in Nat, NEW s, SequencesOf(S, N, s)
  PROVE  \E g : JoinsOf(S, N, s, g) /\ FlattensTo(N, s, g)
  <1> DEFINE step == [n \in 1..N |-> [joined \in Seq(S) |-> joined \o s[n]]]
  <1>0. \A k \in 1..N : s[k] \in Seq(S)
    BY DEF SequencesOf
  <1>1. StepsIn(Seq(S), N, step)
    BY <1>0 DEF StepsIn
  <1>2. <<>> \in Seq(S)
    OBVIOUS
  <1>3. PICK g \in [0..N -> Seq(S)] :
          g[0] = <<>> /\ \A n \in 1..N : g[n] = step[n][g[n - 1]]
    <2> HIDE DEF step
    <2>1. \E g : IteratesOf(g, Seq(S), N, <<>>, step)
      BY <1>1, <1>2, Iterates
    <2> QED BY <2>1 DEF IteratesOf
  <1>4. ASSUME NEW n \in 1..N PROVE g[n] = g[n - 1] \o s[n]
    <2>1. n - 1 \in 0..N
      OBVIOUS
    <2> QED BY <1>3, <2>1
  <1>5. JoinsOf(S, N, s, g)
    BY <1>3, <1>4 DEF JoinsOf
  <1>6. ASSUME NEW m \in 0..N PROVE FlattenSeq([k \in 1..m |-> s[k]]) = g[m]
    <2> DEFINE first == [k \in 1..m |-> s[k]]
               h == [n \in 0..m |-> g[n]]
    <2>1. first \in Seq(Seq(S)) /\ Len(first) = m
      BY <1>0
    <2>2. h \in [0..m -> Seq(S)] /\ h[0] = <<>> /\ h[m] = g[m]
      BY <1>3
    <2>3. ASSUME NEW n \in 1..m PROVE h[n] = h[n - 1] \o first[n]
      <3>1. n - 1 \in 0..m /\ n \in 1..N /\ n \in 0..m
        OBVIOUS
      <3> QED BY <1>4, <3>1
    <2> HIDE DEF first, h
    <2>4. FlattenSeq(first) = h[Len(first)]
      BY <2>1, <2>2, <2>3, FlattenIs
    <2>5. FlattenSeq(first) = g[m]
      BY <2>1, <2>2, <2>4
    <2> QED BY <2>5 DEF first
  <1>7. FlattensTo(N, s, g)
    BY <1>6 DEF FlattensTo
  <1> QED BY <1>5, <1>7
-----------------------------------------------------------------------------
(* Lines of a text.                                                        *)
Splits == [complete : Seq(Seq(Symbols)), open : Seq(Symbols)]

(* A line is at most one line.                                             *)
LEMMA LineTyped ==
  ASSUME NEW l \in Seq(Symbols)
  PROVE  Line(l) \in Seq(Seq(Symbols))
  BY DEF Line

(* Joining lists of lines is associative.                                  *)
LEMMA JoinLines ==
  ASSUME NEW s \in Seq(Seq(Symbols)), NEW t \in Seq(Seq(Symbols)), NEW u \in Seq(Seq(Symbols))
  PROVE  (s \o t) \o u = s \o (t \o u)
  OBVIOUS

(* One symbol more leaves lines and an open line.                          *)
LEMMA ConsumedSplits ==
  ASSUME NEW s \in Splits, NEW u \in Symbols
  PROVE  Consumed(s, u) \in Splits
  <1>1. s.complete \in Seq(Seq(Symbols)) /\ s.open \in Seq(Symbols)
    BY DEF Splits
  <1>2. Line(s.open) \in Seq(Seq(Symbols))
    BY <1>1 DEF Line
  <1>3. s.complete \o Line(s.open) \in Seq(Seq(Symbols))
    BY <1>1, <1>2, ConcatProperties
  <1>4. Append(s.open, u) \in Seq(Symbols) /\ <<>> \in Seq(Symbols)
    BY <1>1
  <1> QED BY <1>1, <1>3, <1>4 DEF Consumed, Splits

(* What SplitLines computes is what consuming one symbol after the other   *)
(* gives.                                                                  *)
LEMMA SplitIs ==
  ASSUME NEW t \in Seq(Symbols), NEW g, g[0] = NoText,
         \A n \in 1..Len(t) : g[n] = Consumed(g[n - 1], t[n])
  PROVE  SplitLines(t) = g[Len(t)]
  <1> DEFINE Upto(f) == f = [n \in 0..Len(t) |-> IF n = 0 THEN NoText
                                                 ELSE Consumed(f[n - 1], t[n])]
             upTo == CHOOSE f : Upto(f)
  <1>0. Len(t) \in Nat
    OBVIOUS
  <1>1. \E f : Upto(f)
    <2> DEFINE h == [n \in 0..Len(t) |-> g[n]]
    <2>1. ASSUME NEW n \in 0..Len(t)
          PROVE  g[n] = IF n = 0 THEN NoText ELSE Consumed(h[n - 1], t[n])
      <3>1. CASE n = 0
        BY <3>1
      <3>2. CASE n # 0
        <4>1. n \in 1..Len(t) /\ n - 1 \in 0..Len(t)
          BY <3>2, <1>0
        <4>2. h[n - 1] = g[n - 1]
          BY <4>1
        <4> HIDE DEF h
        <4> QED BY <3>2, <4>1, <4>2
      <3> QED BY <3>1, <3>2
    <2>2. h = [n \in 0..Len(t) |-> IF n = 0 THEN NoText ELSE Consumed(h[n - 1], t[n])]
      BY <2>1
    <2> QED BY <2>2
  <1>2. Upto(upTo)
    <2> HIDE DEF Upto
    <2> QED BY <1>1
  <1>3. SplitLines(t) = upTo[Len(t)]
    BY DEF SplitLines
  <1> HIDE DEF upTo
  <1> DEFINE T == {n \in 0..Len(t) : upTo[n] = g[n]}
  <1>4. upTo[0] = NoText
    BY <1>0, <1>2
  <1>5. ASSUME NEW n \in 0..(Len(t) - 1), n \in T PROVE n + 1 \in T
    <2>1. n + 1 \in 1..Len(t) /\ (n + 1) - 1 = n /\ n + 1 # 0 /\ n + 1 \in 0..Len(t)
      BY <1>0
    <2>2. upTo[n + 1] = Consumed(upTo[(n + 1) - 1], t[n + 1])
      BY <1>2, <2>1
    <2>3. g[n + 1] = Consumed(g[(n + 1) - 1], t[n + 1])
      BY <2>1
    <2>4. upTo[n + 1] = g[n + 1]
      BY <2>1, <2>2, <2>3, <1>5
    <2> QED BY <2>1, <2>4
  <1>6. 0 \in T
    BY <1>0, <1>4
  <1>7. 0..Len(t) \subseteq T
    <2> HIDE DEF T
    <2> QED BY <1>0, <1>5, <1>6, Counting
  <1>8. Len(t) \in T
    BY <1>0, <1>7
  <1> QED BY <1>3, <1>8

(* SplitLines consumes a text symbol by symbol.                            *)
LEMMA SplitSteps ==
  /\ SplitLines(<<>>) = NoText
  /\ \A t \in Seq(Symbols) : SplitLines(t) \in Splits
  /\ \A t \in Seq(Symbols), u \in Symbols :
       SplitLines(Append(t, u)) = Consumed(SplitLines(t), u)
  <1>1. NoText \in Splits
    BY DEF NoText, Splits
  <1>2. ASSUME NEW t \in Seq(Symbols)
        PROVE  \E g \in [0..Len(t) -> Splits] :
                 g[0] = NoText /\ \A n \in 1..Len(t) : g[n] = Consumed(g[n - 1], t[n])
    <2> DEFINE step == [n \in 1..Len(t) |-> [s \in Splits |-> Consumed(s, t[n])]]
    <2>1. \A n \in 1..Len(t) : t[n] \in Symbols
      OBVIOUS
    <2>2. \A n \in 1..Len(t) : \A s \in Splits : Consumed(s, t[n]) \in Splits
      BY <2>1, ConsumedSplits
    <2>3. StepsIn(Splits, Len(t), step)
      BY <2>2 DEF StepsIn
    <2>4. PICK g : IteratesOf(g, Splits, Len(t), NoText, step)
      <3> HIDE DEF step
      <3>1. Len(t) \in Nat
        OBVIOUS
      <3> QED BY <1>1, <2>3, <3>1, Iterates
    <2>5. g \in [0..Len(t) -> Splits] /\ g[0] = NoText
      BY <2>4 DEF IteratesOf
    <2>6. ASSUME NEW n \in 1..Len(t) PROVE g[n] = Consumed(g[n - 1], t[n])
      <3>1. g[n] = step[n][g[n - 1]]
        BY <2>4 DEF IteratesOf
      <3>2. n - 1 \in 0..Len(t)
        OBVIOUS
      <3>3. g[n - 1] \in Splits
        BY <2>5, <3>2
      <3>4. step[n][g[n - 1]] = Consumed(g[n - 1], t[n])
        BY <3>3
      <3> QED BY <3>1, <3>4
    <2> QED BY <2>5, <2>6
  <1>3. SplitLines(<<>>) = NoText
    <2>1. <<>> \in Seq(Symbols) /\ Len(<<>>) = 0
      OBVIOUS
    <2>2. [n \in {0} |-> NoText][0] = NoText
      OBVIOUS
    <2>3. \A n \in 1..Len(<<>>) : FALSE
      BY <2>1
    <2> QED BY <2>1, <2>2, <2>3, SplitIs
  <1>4. ASSUME NEW t \in Seq(Symbols) PROVE SplitLines(t) \in Splits
    <2>1. PICK g \in [0..Len(t) -> Splits] :
             g[0] = NoText /\ \A n \in 1..Len(t) : g[n] = Consumed(g[n - 1], t[n])
      BY <1>2
    <2>2. SplitLines(t) = g[Len(t)]
      BY <2>1, SplitIs
    <2>3. Len(t) \in 0..Len(t)
      OBVIOUS
    <2> QED BY <2>2, <2>3
  <1>5. ASSUME NEW t \in Seq(Symbols), NEW u \in Symbols
        PROVE  SplitLines(Append(t, u)) = Consumed(SplitLines(t), u)
    <2>1. PICK w : w = Append(t, u)
      OBVIOUS
    <2>2. /\ w \in Seq(Symbols) /\ Len(w) = Len(t) + 1 /\ w[Len(w)] = u
          /\ \A n \in 1..Len(t) : w[n] = t[n]
      BY <2>1, AppendProperties
    <2>3. PICK g \in [0..Len(w) -> Splits] :
             g[0] = NoText /\ \A n \in 1..Len(w) : g[n] = Consumed(g[n - 1], w[n])
      BY <1>2, <2>2
    <2>4. Len(t) \in Nat
      OBVIOUS
    <2>5. \A n \in 1..Len(t) : n \in 1..Len(w)
      BY <2>2, <2>4
    <2>6. \A n \in 1..Len(t) : g[n] = Consumed(g[n - 1], t[n])
      BY <2>2, <2>3, <2>5
    <2>7. SplitLines(t) = g[Len(t)]
      BY <2>3, <2>6, SplitIs
    <2>8. SplitLines(w) = g[Len(w)]
      BY <2>2, <2>3, SplitIs
    <2>9. Len(w) \in 1..Len(w) /\ Len(w) - 1 = Len(t)
      BY <2>2, <2>4
    <2>10. g[Len(w)] = Consumed(g[Len(w) - 1], w[Len(w)])
      BY <2>3, <2>9
    <2> QED BY <2>1, <2>2, <2>7, <2>8, <2>9, <2>10
  <1> QED BY <1>3, <1>4, <1>5

(* Induction over the texts, for a set of them.                            *)
LEMMA OverTexts ==
  ASSUME NEW S, NEW T, <<>> \in T,
         \A t \in Seq(S), u \in S : t \in T => Append(t, u) \in T
  PROVE  Seq(S) \subseteq T
  <1> SUFFICES ASSUME NEW w \in Seq(S) PROVE w \in T
    OBVIOUS
  <1> DEFINE U == {n \in 0..Len(w) : \A t \in Seq(S) : Len(t) = n => t \in T}
  <1>1. Len(w) \in Nat
    OBVIOUS
  <1>2. 0 \in U
    <2>1. \A t \in Seq(S) : Len(t) = 0 => t \in T
      BY EmptySeq
    <2> QED BY <1>1, <2>1
  <1>3. ASSUME NEW n \in 0..(Len(w) - 1), n \in U PROVE n + 1 \in U
    <2>1. n + 1 \in 0..Len(w) /\ n \in Nat
      BY <1>1
    <2>2. ASSUME NEW t \in Seq(S), Len(t) = n + 1 PROVE t \in T
      <3>1. t # <<>>
        BY <2>1, <2>2
      <3>2. PICK s \in Seq(S), u \in S : t = Append(s, u)
        BY <3>1, SequenceEmptyOrAppend
      <3>3. Len(s) + 1 = Len(t) /\ Len(s) \in Nat
        BY <3>2, AppendProperties
      <3>4. Len(s) = n
        BY <2>1, <2>2, <3>3
      <3>5. s \in T
        BY <1>3, <3>4
      <3> QED BY <3>2, <3>5
    <2> QED BY <2>1, <2>2
  <1>4. 0..Len(w) \subseteq U
    <2> HIDE DEF U
    <2> QED BY <1>1, <1>2, <1>3, Counting
  <1>5. Len(w) \in U
    BY <1>1, <1>4
  <1> QED BY <1>5

(* The line a text leaves open completes nothing.                          *)
LEMMA OpenLine ==
  ASSUME NEW t \in Seq(Symbols)
  PROVE  SplitLines(SplitLines(t).open) = [complete |-> <<>>, open |-> SplitLines(t).open]
  <1> DEFINE T == {w \in Seq(Symbols) :
                     SplitLines(SplitLines(w).open)
                       = [complete |-> <<>>, open |-> SplitLines(w).open]}
  <1>1. <<>> \in T
    BY SplitSteps DEF NoText
  <1>2. ASSUME NEW w \in Seq(Symbols), NEW u \in Symbols, w \in T PROVE Append(w, u) \in T
    <2>1. PICK s \in Splits : s = SplitLines(w)
      BY SplitSteps
    <2>2. s.open \in Seq(Symbols)
      BY DEF Splits
    <2>3. SplitLines(Append(w, u)) = Consumed(s, u)
      BY <2>1, SplitSteps
    <2>4. CASE u = "nl"
      <3>1. Consumed(s, u).open = <<>>
        BY <2>4 DEF Consumed
      <3>2. SplitLines(<<>>) = [complete |-> <<>>, open |-> <<>>]
        BY SplitSteps DEF NoText
      <3> QED BY <2>3, <3>1, <3>2
    <2>5. CASE u # "nl"
      <3>1. Consumed(s, u).open = Append(s.open, u)
        BY <2>5 DEF Consumed
      <3>2. SplitLines(Append(s.open, u)) = Consumed(SplitLines(s.open), u)
        BY <2>2, SplitSteps
      <3>3. SplitLines(s.open) = [complete |-> <<>>, open |-> s.open]
        BY <1>2, <2>1
      <3>4. SplitLines(Append(s.open, u)) = [complete |-> <<>>, open |-> Append(s.open, u)]
        BY <2>5, <3>2, <3>3 DEF Consumed
      <3>5. Append(w, u) \in Seq(Symbols)
        OBVIOUS
      <3>6. SplitLines(Append(w, u)).open = Append(s.open, u)
        BY <2>3, <3>1
      <3>7. SplitLines(SplitLines(Append(w, u)).open)
              = [complete |-> <<>>, open |-> SplitLines(Append(w, u)).open]
        BY <3>4, <3>6
      <3> QED BY <3>5, <3>7
    <2> QED BY <2>4, <2>5
  <1>3. Seq(Symbols) \subseteq T
    <2> HIDE DEF T
    <2> QED BY <1>1, <1>2, OverTexts
  <1> QED BY <1>3

(* Reading a text in two parts gives what reading it at once does.         *)
Parts(t, more) ==
  LET first == SplitLines(t)
      second == SplitLines(first.open \o more)
  IN SplitLines(t \o more) = [complete |-> first.complete \o second.complete,
                              open |-> second.open]
(* Cutting a text anywhere does not change its lines.                      *)
LEMMA SplitInParts ==
  ASSUME NEW t \in Seq(Symbols), NEW more \in Seq(Symbols)
  PROVE  Parts(t, more)
  <1> DEFINE T == {w \in Seq(Symbols) : Parts(t, w)}
  <1>1. PICK c \in Seq(Seq(Symbols)), o \in Seq(Symbols) :
          SplitLines(t) = [complete |-> c, open |-> o]
    <2>1. SplitLines(t) \in Splits
      BY SplitSteps
    <2> QED BY <2>1 DEF Splits
  <1>2. \A w : Parts(t, w) <=>
          SplitLines(t \o w) = [complete |-> c \o SplitLines(o \o w).complete,
                                open |-> SplitLines(o \o w).open]
    BY <1>1 DEF Parts
  <1>3. Parts(t, <<>>)
    <2>1. t \o <<>> = t /\ o \o <<>> = o /\ c \o <<>> = c
      BY ConcatEmptySeq
    <2>2. SplitLines(t).open = o
      BY <1>1
    <2>3. SplitLines(o) = [complete |-> <<>>, open |-> o]
      BY <2>2, OpenLine
    <2>4. SplitLines(o \o <<>>).complete = <<>> /\ SplitLines(o \o <<>>).open = o
      BY <2>1, <2>3
    <2>5. SplitLines(t \o <<>>) = [complete |-> c, open |-> o]
      BY <1>1, <2>1
    <2> QED BY <1>2, <2>1, <2>4, <2>5
  <1>4. ASSUME NEW w \in Seq(Symbols), NEW u \in Symbols, Parts(t, w)
        PROVE  Parts(t, Append(w, u))
    <2>1. t \o w \in Seq(Symbols) /\ o \o w \in Seq(Symbols)
      BY ConcatProperties
    <2>2. t \o Append(w, u) = Append(t \o w, u) /\ o \o Append(w, u) = Append(o \o w, u)
      OBVIOUS
    <2>3. PICK d \in Seq(Seq(Symbols)), p \in Seq(Symbols) :
            SplitLines(o \o w) = [complete |-> d, open |-> p]
      <3>1. SplitLines(o \o w) \in Splits
        BY <2>1, SplitSteps
      <3> QED BY <3>1 DEF Splits
    <2>4. SplitLines(t \o w) = [complete |-> c \o d, open |-> p]
      <3>1. SplitLines(o \o w).complete = d /\ SplitLines(o \o w).open = p
        BY <2>3
      <3> QED BY <1>2, <1>4, <3>1
    <2>5. /\ SplitLines(t \o Append(w, u)) = Consumed([complete |-> c \o d, open |-> p], u)
          /\ SplitLines(o \o Append(w, u)) = Consumed([complete |-> d, open |-> p], u)
      BY <2>1, <2>2, <2>3, <2>4, SplitSteps
    <2>6. PICK l \in Seq(Seq(Symbols)) : l = Line(p)
      BY LineTyped
    <2>7. (c \o d) \o l = c \o (d \o l)
      BY JoinLines, SMTT(60)
    <2>8. CASE u = "nl"
      <3>1. SplitLines(o \o Append(w, u)) = [complete |-> d \o l, open |-> <<>>]
        BY <2>5, <2>6, <2>8 DEF Consumed
      <3>2. SplitLines(t \o Append(w, u)) = [complete |-> (c \o d) \o l, open |-> <<>>]
        BY <2>5, <2>6, <2>8 DEF Consumed
      <3>3. PICK s : s = SplitLines(o \o Append(w, u))
        OBVIOUS
      <3>4. s.complete = d \o l /\ s.open = <<>>
        BY <3>1, <3>3
      <3>5. SplitLines(t \o Append(w, u)) = [complete |-> c \o s.complete, open |-> s.open]
        BY <2>7, <3>2, <3>4
      <3> QED BY <1>2, <3>3, <3>5
    <2>9. CASE u # "nl"
      <3>1. SplitLines(o \o Append(w, u)) = [complete |-> d, open |-> Append(p, u)]
        BY <2>5, <2>9 DEF Consumed
      <3>2. SplitLines(t \o Append(w, u)) = [complete |-> c \o d, open |-> Append(p, u)]
        BY <2>5, <2>9 DEF Consumed
      <3>3. PICK s : s = SplitLines(o \o Append(w, u))
        OBVIOUS
      <3>4. s.complete = d /\ s.open = Append(p, u)
        BY <3>1, <3>3
      <3>5. SplitLines(t \o Append(w, u)) = [complete |-> c \o s.complete, open |-> s.open]
        BY <3>2, <3>4
      <3> QED BY <1>2, <3>3, <3>5
    <2> QED BY <2>8, <2>9
  <1>5. Seq(Symbols) \subseteq T
    <2>1. <<>> \in T
      BY <1>3
    <2>2. \A w \in Seq(Symbols), u \in Symbols : w \in T => Append(w, u) \in T
      <3> HIDE DEF Parts
      <3> QED BY <1>4
    <2> HIDE DEF T
    <2> QED BY <2>1, <2>2, OverTexts
  <1> QED BY <1>5
-----------------------------------------------------------------------------
(* Texts whose characters outside ASCII are replaced.                      *)
\* A function applied to each element of a sequence.
Mapped(F, s) == [k \in 1..Len(s) |-> F[s[k]]]
KeepsIn(F, S) == \A x \in S : F[x] \in S
MapsJoined(F, S, s, t) ==
  Mapped(F, s) \in Seq(S) /\ Mapped(F, s \o t) = Mapped(F, s) \o Mapped(F, t)
(* It keeps the length, and maps joined sequences one by one.              *)
LEMMA MappedJoined ==
  ASSUME NEW S, NEW F, KeepsIn(F, S), NEW s \in Seq(S), NEW t \in Seq(S)
  PROVE  MapsJoined(F, S, s, t)
  <1>1. ASSUME NEW w \in Seq(S)
        PROVE  /\ Mapped(F, w) \in Seq(S) /\ Len(Mapped(F, w)) = Len(w)
               /\ \A k \in 1..Len(w) : Mapped(F, w)[k] = F[w[k]]
    <2>1. Len(w) \in Nat /\ \A k \in 1..Len(w) : w[k] \in S
      OBVIOUS
    <2>2. Mapped(F, w) \in [1..Len(w) -> S]
      BY <2>1 DEF Mapped, KeepsIn
    <2>3. \A k \in 1..Len(w) : Mapped(F, w)[k] = F[w[k]]
      BY DEF Mapped
    <2> QED BY <2>1, <2>2, <2>3, FirstNumbers
  <1>2. PICK a \in Seq(S), b \in Seq(S) : a = Mapped(F, s) /\ b = Mapped(F, t)
    BY <1>1
  <1>3. PICK j \in Seq(S), m \in Seq(S) : j = s \o t /\ m = Mapped(F, s \o t)
    BY <1>1, ConcatProperties
  <1>4. PICK ls \in Nat, lt \in Nat : ls = Len(s) /\ lt = Len(t)
    OBVIOUS
  <1>5. /\ Len(j) = ls + lt /\ \A k \in 1..ls : j[k] = s[k]
        /\ \A k \in 1..lt : j[ls + k] = t[k]
    BY <1>3, <1>4, JoinTwo
  <1>6. /\ Len(a) = ls /\ \A k \in 1..ls : a[k] = F[s[k]]
        /\ Len(b) = lt /\ \A k \in 1..lt : b[k] = F[t[k]]
    BY <1>1, <1>2, <1>4
  <1>7. Len(m) = ls + lt /\ \A k \in 1..(ls + lt) : m[k] = F[j[k]]
    BY <1>1, <1>3, <1>5
  <1>8. PICK ab \in Seq(S) : ab = a \o b
    BY ConcatProperties
  <1>9. /\ Len(ab) = ls + lt /\ \A k \in 1..ls : ab[k] = a[k]
        /\ \A k \in 1..lt : ab[ls + k] = b[k]
    <2>1. /\ Len(a \o b) = Len(a) + Len(b)
          /\ \A k \in 1..Len(a) : (a \o b)[k] = a[k]
          /\ \A k \in 1..Len(b) : (a \o b)[Len(a) + k] = b[k]
      BY JoinTwo
    <2> QED BY <1>6, <1>8, <2>1
  <1>10. ASSUME NEW k \in 1..(ls + lt) PROVE m[k] = ab[k]
    <2>1. CASE k \in 1..ls
      <3>1. m[k] = F[j[k]]
        BY <1>7
      <3>2. j[k] = s[k] /\ ab[k] = a[k] /\ a[k] = F[s[k]]
        BY <1>5, <1>6, <1>9, <2>1
      <3> QED BY <3>1, <3>2
    <2>2. CASE ~(k \in 1..ls)
      <3>1. PICK i \in 1..lt : k = ls + i
        <4>1. k - ls \in 1..lt /\ k = ls + (k - ls)
          BY <2>2
        <4> QED BY <4>1
      <3>2. m[k] = F[j[k]]
        BY <1>7
      <3>3. j[k] = t[i] /\ ab[k] = b[i] /\ b[i] = F[t[i]]
        BY <1>5, <1>6, <1>9, <3>1
      <3> QED BY <3>2, <3>3
    <2> QED BY <2>1, <2>2
  <1>11. m = ab
    BY <1>7, <1>9, <1>10, SeqEqual
  <1> QED BY <1>2, <1>3, <1>8, <1>11 DEF MapsJoined

\* Replacing, as functions.
PlainOf == [u \in Symbols |-> Plain(u)]
PlainTextOf == [t \in Seq(Symbols) |-> PlainText(t)]
(* A text is replaced symbol by symbol.                                    *)
LEMMA PlainJoined ==
  ASSUME NEW s \in Seq(Symbols), NEW t \in Seq(Symbols)
  PROVE  PlainText(s) \in Seq(Symbols) /\ PlainText(s \o t) = PlainText(s) \o PlainText(t)
  <1>1. KeepsIn(PlainOf, Symbols)
    BY DecodingAssumption DEF PlainOf, Plain, KeepsIn
  <1>2. ASSUME NEW w \in Seq(Symbols) PROVE PlainText(w) = Mapped(PlainOf, w)
    <2>1. \A k \in 1..Len(w) : w[k] \in Symbols
      OBVIOUS
    <2> QED BY <2>1 DEF PlainText, Mapped, PlainOf
  <1>3. s \o t \in Seq(Symbols)
    BY ConcatProperties
  <1>4. /\ Mapped(PlainOf, s) \in Seq(Symbols)
        /\ Mapped(PlainOf, s \o t) = Mapped(PlainOf, s) \o Mapped(PlainOf, t)
    <2>1. PICK F : F = PlainOf
      OBVIOUS
    <2>2. KeepsIn(F, Symbols)
      BY <1>1, <2>1
    <2>3. MapsJoined(F, Symbols, s, t)
      BY <2>2, MappedJoined
    <2> QED BY <2>1, <2>3 DEF MapsJoined
  <1> QED BY <1>2, <1>3, <1>4

(* And lists of lines, line by line.                                       *)
LEMMA PlainLinesJoined ==
  ASSUME NEW s \in Seq(Seq(Symbols)), NEW t \in Seq(Seq(Symbols))
  PROVE  /\ PlainLines(s) \in Seq(Seq(Symbols))
         /\ PlainLines(s \o t) = PlainLines(s) \o PlainLines(t)
  <1>1. KeepsIn(PlainTextOf, Seq(Symbols))
    BY PlainJoined DEF PlainTextOf, KeepsIn
  <1>2. ASSUME NEW w \in Seq(Seq(Symbols)) PROVE PlainLines(w) = Mapped(PlainTextOf, w)
    <2>1. \A k \in 1..Len(w) : w[k] \in Seq(Symbols)
      OBVIOUS
    <2> QED BY <2>1 DEF PlainLines, Mapped, PlainTextOf
  <1>3. s \o t \in Seq(Seq(Symbols))
    BY ConcatProperties
  <1>4. /\ Mapped(PlainTextOf, s) \in Seq(Seq(Symbols))
        /\ Mapped(PlainTextOf, s \o t) = Mapped(PlainTextOf, s) \o Mapped(PlainTextOf, t)
    <2>1. PICK F : F = PlainTextOf
      OBVIOUS
    <2>2. KeepsIn(F, Seq(Symbols))
      BY <1>1, <2>1
    <2>3. MapsJoined(F, Seq(Symbols), s, t)
      BY <2>2, MappedJoined
    <2> QED BY <2>1, <2>3 DEF MapsJoined
  <1> QED BY <1>2, <1>3, <1>4

(* Nothing, and one line.                                                  *)
LEMMA PlainLine ==
  /\ PlainText(<<>>) = <<>> /\ PlainLines(<<>>) = <<>>
  /\ \A l \in Seq(Symbols) : PlainLines(Line(l)) = Line(PlainText(l))
  <1>1. PlainText(<<>>) = <<>> /\ PlainLines(<<>>) = <<>>
    <2>1. \A s : Len(s) = 0 => PlainText(s) = <<>> /\ PlainLines(s) = <<>>
      BY DEF PlainText, PlainLines
    <2> QED BY <2>1
  <1>2. ASSUME NEW l \in Seq(Symbols) PROVE PlainLines(Line(l)) = Line(PlainText(l))
    <2>1. CASE l = <<>>
      BY <1>1, <2>1 DEF Line
    <2>2. CASE l # <<>>
      <3>1. PICK p \in Seq(Symbols) : p = PlainText(l)
        BY PlainJoined
      <3>2. Len(l) \in Nat /\ Len(l) # 0
        BY <2>2, EmptySeq
      <3>3. p # <<>>
        <4>1. 1 \in DOMAIN p
          BY <3>1, <3>2 DEF PlainText
        <4> QED BY <4>1
      <3>4. Line(l) = <<l>> /\ Line(p) = <<p>>
        BY <2>2, <3>3 DEF Line
      <3>5. PlainLines(<<l>>) = <<p>>
        <4>1. Len(<<l>>) = 1 /\ <<l>>[1] = l
          OBVIOUS
        <4>2. PlainLines(<<l>>) = [k \in 1..1 |-> p]
          BY <3>1, <4>1 DEF PlainLines
        <4>3. [k \in 1..1 |-> p] = <<p>>
          OBVIOUS
        <4> QED BY <4>2, <4>3
      <3> QED BY <3>1, <3>4, <3>5
    <2> QED BY <2>1, <2>2
  <1> QED BY <1>1, <1>2

(* One symbol more.                                                        *)
LEMMA PlainAppended ==
  ASSUME NEW t \in Seq(Symbols), NEW u \in Symbols
  PROVE  PlainText(Append(t, u)) = Append(PlainText(t), Plain(u))
  <1>1. PICK one \in Seq(Symbols) : one = <<u>>
    <2>1. <<u>> \in Seq(Symbols)
      OBVIOUS
    <2> QED BY <2>1
  <1>2. PlainText(t) \in Seq(Symbols) /\ PlainText(t \o one) = PlainText(t) \o PlainText(one)
    BY PlainJoined
  <1>3. PlainText(one) = <<Plain(u)>>
    <2>1. Len(one) = 1 /\ one[1] = u
      BY <1>1
    <2>2. PlainText(one) = [k \in 1..1 |-> Plain(u)]
      BY <2>1 DEF PlainText
    <2>3. PICK v : v = Plain(u)
      OBVIOUS
    <2>4. [k \in 1..1 |-> v] = <<v>>
      OBVIOUS
    <2> QED BY <2>2, <2>3, <2>4
  <1>4. t \o one = Append(t, u)
    BY <1>1
  <1>5. PICK p \in Seq(Symbols), v \in Symbols : p = PlainText(t) /\ v = Plain(u)
    <2>1. Plain(u) \in Symbols
      BY DecodingAssumption DEF Plain
    <2> QED BY <1>2, <2>1
  <1>6. p \o <<v>> = Append(p, v)
    OBVIOUS
  <1> QED BY <1>2, <1>3, <1>4, <1>5, <1>6

(* Decoding replaces only what is replaced anyhow.                         *)
LEMMA PlainDecoded ==
  ASSUME NEW t \in Seq(Symbols)
  PROVE  Decode(t) \in Seq(Symbols) /\ PlainText(Decode(t)) = PlainText(t)
  <1>1. PICK l \in Nat : l = Len(t) /\ \A k \in 1..l : t[k] \in Symbols
    OBVIOUS
  <1>2. PICK d : d = Decode(t)
    OBVIOUS
  <1>3. d \in [1..l -> Symbols] /\ \A k \in 1..l : d[k] = IF Cut(t, k) THEN "bad" ELSE t[k]
    BY <1>1, <1>2, DecodingAssumption DEF Decode
  <1>4. d \in Seq(Symbols) /\ Len(d) = l
    BY <1>3, FirstNumbers
  <1>5. ASSUME NEW k \in 1..l PROVE Plain(d[k]) = Plain(t[k])
    <2>1. Cut(t, k) => t[k] \in Leads \cup Trails
      BY DEF Cut
    <2> QED BY <1>3, <2>1 DEF Plain
  <1>6. PlainText(d) = PlainText(t)
    BY <1>1, <1>4, <1>5 DEF PlainText
  <1> QED BY <1>2, <1>4, <1>6

PlainSplit(s) == [complete |-> PlainLines(s.complete), open |-> PlainText(s.open)]
(* Whether the text or its lines are replaced, the lines are the same.     *)
LEMMA SplitPlain ==
  ASSUME NEW t \in Seq(Symbols)
  PROVE  SplitLines(PlainText(t)) = PlainSplit(SplitLines(t))
  <1> DEFINE T == {w \in Seq(Symbols) : SplitLines(PlainText(w)) = PlainSplit(SplitLines(w))}
  <1>1. <<>> \in T
    <2>1. PlainSplit(NoText) = NoText
      BY PlainLine DEF PlainSplit, NoText
    <2> QED BY <2>1, SplitSteps, PlainLine
  <1>2. ASSUME NEW w \in Seq(Symbols), NEW u \in Symbols, w \in T PROVE Append(w, u) \in T
    <2>1. PICK c \in Seq(Seq(Symbols)), o \in Seq(Symbols) :
            SplitLines(w) = [complete |-> c, open |-> o]
      BY SplitSteps DEF Splits
    <2>2. PICK p \in Seq(Symbols), v \in Symbols : p = PlainText(w) /\ v = Plain(u)
      <3>1. Plain(u) \in Symbols
        BY DecodingAssumption DEF Plain
      <3> QED BY <3>1, PlainJoined
    <2>3. PlainText(Append(w, u)) = Append(p, v)
      BY <2>2, PlainAppended
    <2>4. SplitLines(Append(p, v)) = Consumed(SplitLines(p), v)
      BY SplitSteps
    <2>5. PICK pc \in Seq(Seq(Symbols)), po \in Seq(Symbols) :
            pc = PlainLines(c) /\ po = PlainText(o)
      BY PlainJoined, PlainLinesJoined
    <2>6. SplitLines(p) = [complete |-> pc, open |-> po]
      BY <1>2, <2>1, <2>2, <2>5 DEF PlainSplit
    <2>7. SplitLines(Append(w, u)) = Consumed([complete |-> c, open |-> o], u)
      BY <2>1, SplitSteps
    <2>8. Append(w, u) \in Seq(Symbols)
      OBVIOUS
    <2>9. u = "nl" <=> v = "nl"
      BY <2>2, DecodingAssumption DEF Plain
    <2>10. CASE u = "nl"
      <3>1. PICK l \in Seq(Seq(Symbols)) : l = Line(o)
        BY LineTyped
      <3>2. SplitLines(Append(w, u)) = [complete |-> c \o l, open |-> <<>>]
        BY <2>7, <2>10, <3>1 DEF Consumed
      <3>3. PlainLines(c \o l) = pc \o PlainLines(l)
        BY <2>5, PlainLinesJoined
      <3>4. PlainLines(l) = Line(po)
        BY <2>5, <3>1, PlainLine
      <3>5. PlainSplit(SplitLines(Append(w, u))) = [complete |-> pc \o Line(po), open |-> <<>>]
        <4>1. PICK whole : whole = SplitLines(Append(w, u))
          OBVIOUS
        <4>2. whole.complete = c \o l /\ whole.open = <<>>
          BY <3>2, <4>1
        <4> QED BY <3>3, <3>4, <4>1, <4>2, PlainLine DEF PlainSplit
      <3>6. SplitLines(Append(p, v)) = [complete |-> pc \o Line(po), open |-> <<>>]
        BY <2>4, <2>6, <2>9, <2>10 DEF Consumed
      <3> QED BY <2>3, <2>8, <3>5, <3>6
    <2>11. CASE u # "nl"
      <3>1. SplitLines(Append(w, u)) = [complete |-> c, open |-> Append(o, u)]
        BY <2>7, <2>11 DEF Consumed
      <3>2. PlainText(Append(o, u)) = Append(po, v)
        BY <2>2, <2>5, PlainAppended
      <3>3. PlainSplit(SplitLines(Append(w, u))) = [complete |-> pc, open |-> Append(po, v)]
        <4>1. PICK whole : whole = SplitLines(Append(w, u))
          OBVIOUS
        <4>2. whole.complete = c /\ whole.open = Append(o, u)
          BY <3>1, <4>1
        <4> QED BY <2>5, <3>2, <4>1, <4>2 DEF PlainSplit
      <3>4. SplitLines(Append(p, v)) = [complete |-> pc, open |-> Append(po, v)]
        BY <2>4, <2>6, <2>9, <2>11 DEF Consumed
      <3> QED BY <2>3, <2>8, <3>3, <3>4
    <2> QED BY <2>10, <2>11
  <1>3. Seq(Symbols) \subseteq T
    <2> HIDE DEF T
    <2> QED BY <1>1, <1>2, OverTexts
  <1> QED BY <1>3

(* So are they when the open line is closed.                               *)
LEMMA ClosedPlain ==
  ASSUME NEW s \in Splits
  PROVE  PlainLines(Closed(s)) = Closed(PlainSplit(s)) /\ Closed(s) \in Seq(Seq(Symbols))
  <1>1. PICK c \in Seq(Seq(Symbols)), o \in Seq(Symbols) : c = s.complete /\ o = s.open
    BY DEF Splits
  <1>2. PICK l \in Seq(Seq(Symbols)) : l = Line(o)
    BY LineTyped
  <1>3. PlainLines(c \o l) = PlainLines(c) \o PlainLines(l)
    BY PlainLinesJoined
  <1>4. PlainLines(l) = Line(PlainText(o))
    BY <1>2, PlainLine
  <1>5. Closed(s) = c \o l /\ c \o l \in Seq(Seq(Symbols))
    BY <1>1, <1>2, ConcatProperties DEF Closed
  <1>6. Closed(PlainSplit(s)) = PlainLines(c) \o Line(PlainText(o))
    BY <1>1 DEF Closed, PlainSplit
  <1> QED BY <1>3, <1>4, <1>5, <1>6

-----------------------------------------------------------------------------
(* The stream of an archive.                                               *)
Unit == [unit : {"header"}, member : Members, at : Nat]
          \cup [unit : Symbols \cup {"pad", "zero"}]

(* The padding is less than a block.                                       *)
LEMMA PaddingFits ==
  ASSUME NEW n \in Nat
  PROVE  Padding(n) \in 0..(Block - 1)
  <1>1. Block \in Nat /\ Block > 0
    BY BlockAssumption
  <1>2. \A k \in Int : k % Block \in 0..(Block - 1)
    BY <1>1
  <1>3. Block - (n % Block) \in Int
    BY <1>1, <1>2
  <1> QED BY <1>2, <1>3 DEF Padding

(* A member is a header, its content and the padding.                      *)
LEMMA EncodedIs ==
  ASSUME NEW m \in Members
  PROVE  /\ Encoded(m) \in Seq(Unit)
         /\ Len(Encoded(m)) = Block + Len(m.content) + Padding(Len(m.content))
         /\ \A k \in 1..Block : Encoded(m)[k] =
              [unit |-> "header", member |-> m, at |-> k]
         /\ \A k \in 1..Len(m.content) : Encoded(m)[Block + k] = [unit |-> m.content[k]]
  <1> DEFINE head == [k \in 1..Block |->
                        [unit |-> "header", member |-> m, at |-> k]]
             body == [k \in 1..Len(m.content) |-> [unit |-> m.content[k]]]
             tail == [k \in 1..Padding(Len(m.content)) |-> [unit |-> "pad"]]
  <1>1. m.content \in Seq(Symbols) /\ Block \in Nat
    BY BlockAssumption DEF Members
  <1>2. Len(m.content) \in Nat
    BY <1>1
  <1>3. Padding(Len(m.content)) \in Nat
    BY <1>1, <1>2, PaddingFits
  <1>4. head \in Seq(Unit) /\ Len(head) = Block
    BY <1>1 DEF Unit
  <1>5. body \in Seq(Unit) /\ Len(body) = Len(m.content)
    <2>1. \A k \in 1..Len(m.content) : m.content[k] \in Symbols
      BY <1>1
    <2>2. \A k \in 1..Len(m.content) : [unit |-> m.content[k]] \in Unit
      BY <2>1 DEF Unit
    <2>3. body \in [1..Len(m.content) -> Unit]
      BY <2>2
    <2> HIDE DEF body
    <2> QED BY <1>2, <2>3, FirstNumbers
  <1>6. tail \in Seq(Unit) /\ Len(tail) = Padding(Len(m.content))
    BY <1>3 DEF Unit
  <1>7. Encoded(m) = (head \o body) \o tail
    BY DEF Encoded, Units
  <1>8. /\ head \o body \in Seq(Unit)
        /\ Len(head \o body) = Block + Len(m.content)
        /\ \A k \in 1..Block : (head \o body)[k] = head[k]
        /\ \A k \in 1..Len(m.content) : (head \o body)[Block + k] = body[k]
    <2>1. PICK p \in Seq(Unit), q \in Seq(Unit) : p = head /\ q = body
      <3> HIDE DEF head, body, tail
      <3> QED BY <1>4, <1>5
    <2>2. /\ p \o q \in Seq(Unit) /\ Len(p \o q) = Len(p) + Len(q)
          /\ \A k \in 1..Len(p) : (p \o q)[k] = p[k]
          /\ \A k \in 1..Len(q) : (p \o q)[Len(p) + k] = q[k]
      BY JoinTwo
    <2> HIDE DEF head, body, tail
    <2> QED BY <1>4, <1>5, <2>1, <2>2
  <1>9. /\ Encoded(m) \in Seq(Unit)
        /\ Len(Encoded(m)) = Block + Len(m.content) + Padding(Len(m.content))
        /\ \A k \in 1..(Block + Len(m.content)) : Encoded(m)[k] = (head \o body)[k]
    <2>1. PICK s \in Seq(Unit) : s = head \o body
      <3> HIDE DEF head, body, tail
      <3> QED BY <1>8
    <2>2. Len(s) = Block + Len(m.content)
      <3> HIDE DEF head, body, tail
      <3> QED BY <1>8, <2>1
    <2> HIDE DEF head, body, tail
    <2>3. /\ s \o tail \in Seq(Unit) /\ Len(s \o tail) = Len(s) + Len(tail)
          /\ \A k \in 1..Len(s) : (s \o tail)[k] = s[k]
      BY <1>6, JoinTwo
    <2> QED BY <1>6, <1>7, <2>1, <2>2, <2>3
  <1>10. ASSUME NEW k \in 1..Block
         PROVE Encoded(m)[k] =
              [unit |-> "header", member |-> m, at |-> k]
    <2>1. k \in 1..(Block + Len(m.content))
      BY <1>1, <1>2
    <2>2. Encoded(m)[k] = head[k]
      <3> HIDE DEF head, body, tail
      <3> QED BY <1>8, <1>9, <2>1
    <2> QED BY <2>2
  <1>11. ASSUME NEW k \in 1..Len(m.content) PROVE Encoded(m)[Block + k] = [unit |-> m.content[k]]
    <2>1. Block + k \in 1..(Block + Len(m.content))
      BY <1>1, <1>2
    <2>2. Encoded(m)[Block + k] = body[k]
      <3> HIDE DEF head, body, tail
      <3> QED BY <1>8, <1>9, <2>1
    <2> QED BY <2>2
  <1> QED BY <1>9, <1>10, <1>11

\* Where in the stream of an archive its m-th member has ended.
Bound(a, m) == Len(FlattenSeq([k \in 1..m |-> Encoded(a[k])]))

(* Where the joined sequences lie.                                         *)
LieAt(N, s, g) ==
  /\ \A n \in 0..N : Len(g[n]) \in Nat
  /\ \A m, n \in 0..N : m <= n => Len(g[m]) <= Len(g[n])
  /\ \A m \in 1..N : /\ Len(g[m]) = Len(g[m - 1]) + Len(s[m])
                     /\ \A j \in 1..Len(s[m]) : g[N][Len(g[m - 1]) + j] = s[m][j]
(* Each of N joined sequences lies where those before it end.              *)
LEMMA Positions ==
  ASSUME NEW S, NEW N \in Nat, NEW s, SequencesOf(S, N, s), NEW g, JoinsOf(S, N, s, g)
  PROVE  LieAt(N, s, g)
  <1> DEFINE Within(m, n) == /\ Len(g[m]) <= Len(g[n])
                             /\ \A j \in 1..Len(g[m]) : g[n][j] = g[m][j]
             T == {n \in 0..N : \A m \in 0..n : Within(m, n)}
  <1>1. /\ \A n \in 0..N : Len(g[n]) \in Nat
        /\ \A n \in 1..N : Len(s[n]) \in Nat
    BY DEF JoinsOf, SequencesOf
  <1>2. ASSUME NEW m \in 1..N
        PROVE  /\ Len(g[m]) = Len(g[m - 1]) + Len(s[m])
               /\ \A j \in 1..Len(g[m - 1]) : g[m][j] = g[m - 1][j]
               /\ \A j \in 1..Len(s[m]) : g[m][Len(g[m - 1]) + j] = s[m][j]
    <2>1. m - 1 \in 0..N
      OBVIOUS
    <2>2. PICK p \in Seq(S) : p = g[m - 1]
      BY <2>1 DEF JoinsOf
    <2>3. PICK q \in Seq(S) : q = s[m]
      BY DEF SequencesOf
    <2>4. g[m] = p \o q
      BY <2>2, <2>3 DEF JoinsOf
    <2>5. /\ Len(p \o q) = Len(p) + Len(q)
          /\ \A j \in 1..Len(p) : (p \o q)[j] = p[j]
          /\ \A j \in 1..Len(q) : (p \o q)[Len(p) + j] = q[j]
      BY JoinTwo
    <2> QED BY <2>2, <2>3, <2>4, <2>5
  <1>3. ASSUME NEW n \in 0..(N - 1), n \in T PROVE n + 1 \in T
    <2>1. PICK k \in 1..N : k = n + 1 /\ k - 1 = n
      OBVIOUS
    <2>2. /\ Len(g[k]) = Len(g[n]) + Len(s[k])
          /\ \A j \in 1..Len(g[n]) : g[k][j] = g[n][j]
      <3>1. /\ Len(g[k]) = Len(g[k - 1]) + Len(s[k])
            /\ \A j \in 1..Len(g[k - 1]) : g[k][j] = g[k - 1][j]
        BY <1>2
      <3> QED BY <2>1, <3>1
    <2>3. Len(s[k]) \in Nat /\ Len(g[n]) \in Nat /\ Len(g[k]) \in Nat
      BY <1>1
    <2>4. ASSUME NEW m \in 0..n PROVE Within(m, k)
      <3>1. m \in 0..N
        OBVIOUS
      <3>2. Len(g[m]) \in Nat
        BY <1>1, <3>1
      <3>3. Len(g[m]) <= Len(g[n]) /\ \A j \in 1..Len(g[m]) : g[n][j] = g[m][j]
        BY <1>3
      <3>4. Len(g[m]) <= Len(g[k])
        <4>1. PICK x \in Nat, y \in Nat : x = Len(g[m]) /\ y = Len(g[n]) /\ x <= y
          BY <2>3, <3>2, <3>3
        <4>2. PICK z \in Nat : Len(g[k]) = y + z
          BY <2>2, <2>3, <4>1
        <4>3. x <= y + z
          BY <4>1
        <4> QED BY <4>1, <4>2, <4>3
      <3>5. ASSUME NEW j \in 1..Len(g[m]) PROVE g[k][j] = g[m][j]
        <4>1. j \in 1..Len(g[n])
          BY <2>3, <3>2, <3>3
        <4> QED BY <2>2, <3>3, <4>1
      <3> QED BY <3>4, <3>5
    <2>5. Within(k, k)
      BY <2>3
    <2>6. \A m \in 0..k : m \in 0..n \/ m = k
      BY <2>1
    <2>7. k \in 0..N
      OBVIOUS
    <2> HIDE DEF Within
    <2> QED BY <2>1, <2>4, <2>5, <2>6, <2>7
  <1>4. 0 \in T
    <2>1. \A m \in 0..0 : m = 0
      OBVIOUS
    <2>2. Within(0, 0) /\ 0 \in 0..N
      BY <1>1
    <2> HIDE DEF Within
    <2> QED BY <2>1, <2>2
  <1>5. 0..N \subseteq T
    <2> HIDE DEF T
    <2> QED BY <1>3, <1>4, Counting
  <1>6. ASSUME NEW m \in 0..N, NEW n \in 0..N, m <= n PROVE Within(m, n)
    <2>1. m \in 0..n /\ n \in T
      BY <1>5, <1>6
    <2> HIDE DEF Within
    <2> QED BY <2>1
  <1>7. ASSUME NEW m \in 1..N, NEW j \in 1..Len(s[m])
        PROVE  g[N][Len(g[m - 1]) + j] = s[m][j]
    <2>1. m - 1 \in 0..N /\ m \in 0..N /\ N \in 0..N /\ m <= N
      OBVIOUS
    <2>2. Len(g[m - 1]) \in Nat /\ Len(s[m]) \in Nat
      BY <1>1, <2>1
    <2>3. Len(g[m - 1]) + j \in 1..Len(g[m])
      <3>1. PICK x \in Nat, y \in Nat : x = Len(g[m - 1]) /\ y = Len(s[m])
        BY <2>2
      <3>2. Len(g[m]) = x + y
        BY <1>2, <3>1
      <3>3. j \in Nat /\ 1 <= j /\ j <= y
        BY <3>1
      <3>4. x + j \in Nat /\ 1 <= x + j /\ x + j <= x + y
        BY <3>3
      <3>5. x + j \in 1..(x + y)
        <4> HIDE DEF Within, T
        <4>1. PICK p, q : p = x + j /\ q = x + y
          OBVIOUS
        <4>2. p \in Nat /\ q \in Nat /\ 1 <= p /\ p <= q
          BY <3>4, <4>1
        <4>3. p \in 1..q
          BY <4>2
        <4> QED BY <4>1, <4>3
      <3> QED BY <3>1, <3>2, <3>5
    <2>4. Within(m, N)
      BY <1>6, <2>1
    <2>5. g[m][Len(g[m - 1]) + j] = s[m][j]
      BY <1>2
    <2> QED BY <2>3, <2>4, <2>5
  <1> HIDE DEF T
  <1> QED BY <1>1, <1>2, <1>6, <1>7 DEF LieAt

(* The stream of an archive: its members one after the other, then two     *)
(* blocks of zeros.                                                        *)
LEMMA Layout ==
  ASSUME NEW a \in Archives
  PROVE  /\ Stream(a) \in Seq(Unit) /\ Len(a) \in Nat
         /\ Len(Stream(a)) = Bound(a, Len(a)) + 2 * Block
         /\ Bound(a, 0) = 0 /\ \A m \in 0..Len(a) : Bound(a, m) \in Nat
         /\ \A m \in 1..Len(a) : Bound(a, m) = Bound(a, m - 1) + Len(Encoded(a[m]))
         /\ \A m, n \in 0..Len(a) : m <= n => Bound(a, m) <= Bound(a, n)
         /\ \A m \in 1..Len(a) : \A j \in 1..Len(Encoded(a[m])) :
              Stream(a)[Bound(a, m - 1) + j] = Encoded(a[m])[j]
         /\ \A j \in 1..(2 * Block) :
              Stream(a)[Bound(a, Len(a)) + j] = [unit |-> "zero"]
  <1>1. PICK N \in Nat : N = Len(a) /\ \A k \in 1..N : a[k] \in Members
    BY ArchivesAssumption
  <1>2. PICK s : s = [k \in 1..N |-> Encoded(a[k])]
    OBVIOUS
  <1>3. \A k \in 1..N : s[k] = Encoded(a[k]) /\ s[k] \in Seq(Unit)
    BY <1>1, <1>2, EncodedIs
  <1>4. PICK g : JoinsOf(Unit, N, s, g) /\ FlattensTo(N, s, g)
    <2>1. SequencesOf(Unit, N, s)
      BY <1>3 DEF SequencesOf
    <2> QED BY <2>1, Joined
  <1>5. ASSUME NEW m \in 0..N PROVE FlattenSeq([k \in 1..m |-> Encoded(a[k])]) = g[m]
    <2>1. \A k \in 1..m : k \in 1..N
      OBVIOUS
    <2>2. [k \in 1..m |-> s[k]] = [k \in 1..m |-> Encoded(a[k])]
      BY <1>3, <2>1
    <2> QED BY <1>4, <2>2 DEF FlattensTo
  <1>6. \A m \in 0..N : Bound(a, m) = Len(g[m])
    BY <1>5 DEF Bound
  <1>7. Block \in Nat
    BY BlockAssumption
  <1>8. PICK z : z = [k \in 1..(2 * Block) |-> [unit |-> "zero"]]
    OBVIOUS
  <1>9. /\ z \in Seq(Unit) /\ Len(z) = 2 * Block
        /\ \A j \in 1..(2 * Block) : z[j] = [unit |-> "zero"]
    BY <1>7, <1>8 DEF Unit
  <1>10. N \in 0..N /\ 0 \in 0..N
    OBVIOUS
  <1>11. PICK all \in Seq(Unit) : all = g[N]
    BY <1>4, <1>10 DEF JoinsOf
  <1>12. Stream(a) = all \o z
    BY <1>1, <1>5, <1>8, <1>10, <1>11 DEF Stream, Units
  <1>13. PICK zeros \in Seq(Unit) : zeros = z
    BY <1>9
  <1>14. /\ Len(all \o zeros) = Len(all) + Len(zeros) /\ all \o zeros \in Seq(Unit)
         /\ \A j \in 1..Len(all) : (all \o zeros)[j] = all[j]
         /\ \A j \in 1..Len(zeros) : (all \o zeros)[Len(all) + j] = zeros[j]
    BY JoinTwo
  <1>17. /\ \A n \in 0..N : Len(g[n]) \in Nat
         /\ \A m, n \in 0..N : m <= n => Len(g[m]) <= Len(g[n])
         /\ \A m \in 1..N : /\ Len(g[m]) = Len(g[m - 1]) + Len(s[m])
                            /\ \A j \in 1..Len(s[m]) : g[N][Len(g[m - 1]) + j] = s[m][j]
    <2>1. SequencesOf(Unit, N, s)
      BY <1>3 DEF SequencesOf
    <2>2. LieAt(N, s, g)
      BY <1>4, <2>1, Positions
    <2> QED BY <2>2 DEF LieAt
  <1>18. \A m \in 1..N : m \in 0..N /\ m - 1 \in 0..N
    OBVIOUS
  <1>19. ASSUME NEW m \in 1..N, NEW j \in 1..Len(Encoded(a[m]))
         PROVE  Stream(a)[Bound(a, m - 1) + j] = Encoded(a[m])[j]
    <2>1. PICK e \in Seq(Unit) : e = s[m] /\ e = Encoded(a[m])
      BY <1>3
    <2>2. PICK before \in Nat : before = Len(g[m - 1]) /\ before = Bound(a, m - 1)
      BY <1>6, <1>17, <1>18
    <2>3. Len(g[m]) = before + Len(e) /\ all[before + j] = e[j]
      BY <1>11, <1>17, <2>1, <2>2
    <2>4. Len(g[m]) <= Len(all)
      <3>1. m <= N
        OBVIOUS
      <3> QED BY <1>10, <1>11, <1>17, <1>18, <3>1
    <2>5. j \in 1..Len(e) /\ Len(e) \in Nat /\ Len(all) \in Nat
      BY <2>1
    <2>6. before + j \in 1..Len(all)
      BY <2>3, <2>4, <2>5
    <2>7. (all \o zeros)[before + j] = e[j]
      BY <1>14, <2>3, <2>6
    <2> QED BY <1>12, <1>13, <2>1, <2>2, <2>7
  <1>20. ASSUME NEW j \in 1..(2 * Block)
         PROVE  Stream(a)[Bound(a, N) + j] = [unit |-> "zero"]
    <2>1. Bound(a, N) = Len(all)
      BY <1>6, <1>10, <1>11
    <2>2. (all \o zeros)[Len(all) + j] = zeros[j]
      BY <1>9, <1>13, <1>14
    <2> QED BY <1>9, <1>12, <1>13, <2>1, <2>2
  <1>21. Stream(a) \in Seq(Unit) /\ Len(Stream(a)) = Bound(a, N) + 2 * Block
    <2>1. Bound(a, N) = Len(all)
      BY <1>6, <1>10, <1>11
    <2> QED BY <1>9, <1>12, <1>13, <1>14, <2>1
  <1>22. Bound(a, 0) = 0
    BY <1>4, <1>6, <1>10 DEF JoinsOf
  <1>23. \A m \in 0..N : Bound(a, m) \in Nat
    BY <1>6, <1>17
  <1>24. \A m \in 1..N : Bound(a, m) = Bound(a, m - 1) + Len(Encoded(a[m]))
    BY <1>3, <1>6, <1>17, <1>18
  <1>25. \A m, n \in 0..N : m <= n => Bound(a, m) <= Bound(a, n)
    BY <1>6, <1>17
  <1>26. N = Len(a)
    BY <1>1
  <1> QED BY <1>19, <1>20, <1>21, <1>22, <1>23, <1>24, <1>25, <1>26
-----------------------------------------------------------------------------
(* The invariant of a reader: where in the stream it is, and that it has   *)
(* given what lies before.                                                 *)
(* What the members of an archive give: their lines, characters outside    *)
(* ASCII replaced, and the files that no later member replaces.            *)
MemberLines(m) ==
  IF Requested(m.name) THEN Closed(SplitLines(PlainText(m.content))) ELSE <<>>
LinesOfFirst(a, d) == FlattenSeq([k \in 1..d |-> MemberLines(a[k])])
LastOfName(a, d, m) == \A later \in 1..d : later > m => a[later].name # a[m].name
FilesOfFirst(a, d) ==
  {<<a[m].name, Decode(a[m].content)>> :
     m \in {k \in 1..d : Requested(a[k].name) /\ LastOfName(a, d, k)}}

(* What the buffer and the rest hold: the stream from a position to the    *)
(* cut.                                                                    *)
Ahead(s, pos, b, r, end) ==
  /\ pos \in Nat /\ pos + Len(b) + Len(r) = end
  /\ \A k \in 1..Len(b) : b[k] = s[pos + k]
  /\ \A k \in 1..Len(r) : r[k] = s[pos + Len(b) + k]
AllZero(b) == \A k \in 1..Len(b) : b[k] = [unit |-> "zero"]

(* What the reader has delivered when it is done with m members, and while *)
(* it reads the content of the m-th.                                       *)
Delivered(m) ==
  IF format = "cvd" THEN PlainLines(lines) = LinesOfFirst(archive, m)
  ELSE found = FilesOfFirst(archive, m)
PartlyDelivered(m, read) ==
  LET wanted == Requested(archive[m].name)
  IN IF format = "cvd"
     THEN IF wanted
          THEN /\ PlainLines(lines) = LinesOfFirst(archive, m - 1)
                                        \o SplitLines(PlainText(read)).complete
               /\ PlainText(text) = SplitLines(PlainText(read)).open
          ELSE PlainLines(lines) = LinesOfFirst(archive, m - 1)
     ELSE found = FilesOfFirst(archive, m - 1) /\ (wanted => text = read)

(* Where the reader is: m members begun.                                   *)
AtHeader(m) ==
  /\ mode = "header" /\ Delivered(m)
  /\ Ahead(Stream(archive), Bound(archive, m), buffer, rest, cut)
PastTheEnd(m) ==
  /\ mode = "header" /\ Delivered(m) /\ m = Len(archive) /\ Bound(archive, m) <= cut
  /\ AllZero(buffer) /\ AllZero(rest)
InPadding(m) ==
  /\ mode = "padding" /\ Delivered(m) /\ m # 0
  /\ padding > 0 /\ padding <= Padding(Len(archive[m].content))
  /\ Ahead(Stream(archive), Bound(archive, m) - padding, buffer, rest, cut)
InFile(m) ==
  /\ mode = "file" /\ m # 0 /\ member = archive[m]
  /\ padding = Padding(Len(member.content))
  /\ \E p \in 0..(Len(member.content) - 1) :
       /\ remaining = Len(member.content) - p
       /\ Ahead(Stream(archive), Bound(archive, m - 1) + Block + p, buffer, rest, cut)
       /\ PartlyDelivered(m, SubSeq(member.content, 1, p))
Placed(m) == AtHeader(m) \/ PastTheEnd(m) \/ InPadding(m) \/ InFile(m)

ReaderTyped ==
  /\ format \in {"cvd", "tgz"} /\ archive \in Archives /\ cut \in 0..Len(Stream(archive))
  /\ rest \in Seq(Unit) /\ buffer \in Seq(Unit) /\ text \in Seq(Symbols)
  /\ lines \in Seq(Seq(Symbols))
  /\ outcome \in {"reading", "parsing", "done", "failed"}
  /\ remaining \in Nat /\ padding \in 0..(Block - 1)
ReaderPlaced == \E m \in 0..Len(archive) : Placed(m)
BetweenChunks ==
  /\ outcome \in {"reading", "done"} =>
       Len(buffer) < Block /\ (mode # "header" => buffer = <<>>)
  /\ outcome = "done" =>
       /\ rest = <<>> /\ mode # "file"
       /\ format = "tgz" => {f[1] : f \in found} = RequestedFiles
ReaderInv == ReaderTyped /\ ReaderPlaced /\ BetweenChunks
-----------------------------------------------------------------------------
(* The lines and the files of one member more.                             *)
LEMMA MemberLinesTyped ==
  ASSUME NEW m \in Members
  PROVE  MemberLines(m) \in Seq(Seq(Symbols))
  <1>1. PICK t \in Seq(Symbols) : t = PlainText(m.content)
    BY PlainJoined DEF Members
  <1>2. PICK c \in Seq(Seq(Symbols)), o \in Seq(Symbols) :
          SplitLines(t) = [complete |-> c, open |-> o]
    <2>1. SplitLines(t) \in Splits
      BY SplitSteps
    <2> QED BY <2>1 DEF Splits
  <1>3. Line(o) \in Seq(Seq(Symbols))
    BY LineTyped
  <1>4. PICK l \in Seq(Seq(Symbols)) : l = Line(o)
    BY <1>3
  <1>5. Closed(SplitLines(PlainText(m.content))) = c \o l
    BY <1>1, <1>2, <1>4 DEF Closed
  <1>6. c \o l \in Seq(Seq(Symbols))
    BY ConcatProperties
  <1>7. <<>> \in Seq(Seq(Symbols))
    OBVIOUS
  <1> QED BY <1>5, <1>6, <1>7 DEF MemberLines

(* The lines of d members are those of d - 1 and of the d-th.              *)
LEMMA LinesOfMore ==
  ASSUME NEW a \in Archives
  PROVE  /\ LinesOfFirst(a, 0) = <<>>
         /\ \A d \in 0..Len(a) : LinesOfFirst(a, d) \in Seq(Seq(Symbols))
         /\ \A d \in 1..Len(a) :
              LinesOfFirst(a, d) = LinesOfFirst(a, d - 1) \o MemberLines(a[d])
  <1>1. PICK N \in Nat : N = Len(a) /\ \A k \in 1..N : a[k] \in Members
    BY ArchivesAssumption
  <1>2. PICK s : s = [k \in 1..N |-> MemberLines(a[k])]
    OBVIOUS
  <1>3. \A k \in 1..N : s[k] = MemberLines(a[k]) /\ s[k] \in Seq(Seq(Symbols))
    BY <1>1, <1>2, MemberLinesTyped
  <1>4. PICK g : JoinsOf(Seq(Symbols), N, s, g) /\ FlattensTo(N, s, g)
    <2>1. SequencesOf(Seq(Symbols), N, s)
      BY <1>3 DEF SequencesOf
    <2> QED BY <2>1, Joined
  <1>5. ASSUME NEW d \in 0..N PROVE LinesOfFirst(a, d) = g[d]
    <2>1. \A k \in 1..d : k \in 1..N
      OBVIOUS
    <2>2. [k \in 1..d |-> s[k]] = [k \in 1..d |-> MemberLines(a[k])]
      BY <1>3, <2>1
    <2> QED BY <1>4, <2>2 DEF FlattensTo, LinesOfFirst
  <1>6. \A d \in 1..N : d \in 0..N /\ d - 1 \in 0..N
    OBVIOUS
  <1>7. 0 \in 0..N
    OBVIOUS
  <1>8. g[0] = <<>> /\ (\A d \in 0..N : g[d] \in Seq(Seq(Symbols)))
    BY <1>4 DEF JoinsOf
  <1>9. \A d \in 1..N : g[d] = g[d - 1] \o s[d]
    BY <1>4 DEF JoinsOf
  <1>10. \A d \in 1..N : LinesOfFirst(a, d) = LinesOfFirst(a, d - 1) \o MemberLines(a[d])
    BY <1>3, <1>5, <1>6, <1>9
  <1>11. \A d \in 0..N : LinesOfFirst(a, d) \in Seq(Seq(Symbols))
    BY <1>5, <1>8
  <1>12. LinesOfFirst(a, 0) = <<>>
    BY <1>5, <1>7, <1>8
  <1> QED BY <1>1, <1>10, <1>11, <1>12

(* The d-th file replaces an earlier one of its name.                      *)
LEMMA FilesOfMore ==
  ASSUME NEW a, NEW d \in Nat \ {0}
  PROVE  /\ FilesOfFirst(a, 0) = {}
         /\ FilesOfFirst(a, d) =
              IF Requested(a[d].name)
              THEN {f \in FilesOfFirst(a, d - 1) : f[1] # a[d].name}
                     \cup {<<a[d].name, Decode(a[d].content)>>}
              ELSE FilesOfFirst(a, d - 1)
  <1>1. FilesOfFirst(a, 0) = {}
    BY DEF FilesOfFirst
  <1>2. \A k : k \in 1..d <=> k = d \/ k \in 1..(d - 1)
    OBVIOUS
  <1>3. LastOfName(a, d, d)
    BY DEF LastOfName
  <1>4. \A k \in 1..(d - 1) :
          LastOfName(a, d, k) <=> LastOfName(a, d - 1, k) /\ a[d].name # a[k].name
    <2>1. \A k \in 1..(d - 1) : d > k
      OBVIOUS
    <2> QED BY <1>2, <2>1 DEF LastOfName
  <1> DEFINE file(k) == <<a[k].name, Decode(a[k].content)>>
             Kept(n, k) == k \in 1..n /\ Requested(a[k].name) /\ LastOfName(a, n, k)
  <1>5. \A f, n : f \in FilesOfFirst(a, n) <=> \E k : Kept(n, k) /\ f = file(k)
    BY DEF FilesOfFirst
  <1>6. \A k : Kept(d, k) <=> (\/ (k = d /\ Requested(a[d].name))
                              \/ (Kept(d - 1, k) /\ a[d].name # a[k].name))
    BY <1>2, <1>3, <1>4
  <1>7. \A k : Kept(d - 1, k) => Requested(a[k].name)
    OBVIOUS
  <1> HIDE DEF Kept
  <1>8. CASE Requested(a[d].name)
    <2>1. \A f : f \in FilesOfFirst(a, d) <=>
                   \/ (f = file(d))
                   \/ \E k : Kept(d - 1, k) /\ a[d].name # a[k].name /\ f = file(k)
      BY <1>5, <1>6, <1>8
    <2>2. \A k : file(k)[1] = a[k].name
      OBVIOUS
    <2>3. \A f : (\E k : Kept(d - 1, k) /\ a[d].name # a[k].name /\ f = file(k))
                   <=> f \in FilesOfFirst(a, d - 1) /\ f[1] # a[d].name
      BY <1>5, <2>2
    <2> HIDE DEF file
    <2>4. FilesOfFirst(a, d) =
            {f \in FilesOfFirst(a, d - 1) : f[1] # a[d].name} \cup {file(d)}
      BY <2>1, <2>3
    <2> QED BY <1>1, <1>8, <2>4 DEF file
  <1>9. CASE ~Requested(a[d].name)
    <2>1. \A k : Kept(d - 1, k) => a[d].name # a[k].name
      BY <1>7, <1>9
    <2>2. \A k : Kept(d, k) <=> Kept(d - 1, k)
      BY <1>6, <1>9, <2>1
    <2>3. \A f : f \in FilesOfFirst(a, d) <=> f \in FilesOfFirst(a, d - 1)
      BY <1>5, <2>2
    <2> QED BY <1>1, <1>9, <2>3
  <1> QED BY <1>8, <1>9
-----------------------------------------------------------------------------
(* A chunk arrives; the reader skips what it has read.                     *)
LEMMA SequenceRest ==
  ASSUME NEW b \in Seq(Unit), NEW n \in 0..Len(b)
  PROVE  /\ SubSeq(b, n + 1, Len(b)) \in Seq(Unit)
         /\ Len(SubSeq(b, n + 1, Len(b))) = Len(b) - n
         /\ \A k \in 1..(Len(b) - n) : SubSeq(b, n + 1, Len(b))[k] = b[n + k]
         /\ SubSeq(b, 1, n) \in Seq(Unit) /\ Len(SubSeq(b, 1, n)) = n
         /\ \A k \in 1..n : SubSeq(b, 1, n)[k] = b[k]
  <1>1. Len(b) \in Nat /\ \A k \in 1..Len(b) : b[k] \in Unit
    OBVIOUS
  <1> QED BY <1>1, SubSeqProperties

ChunkTaken(s, pos, end, b, r, more, later) ==
  /\ b \o more \in Seq(Unit) /\ later \in Seq(Unit)
  /\ Ahead(s, pos, b, r, end) => Ahead(s, pos, b \o more, later, end)
  /\ AllZero(b) /\ AllZero(r) => AllZero(b \o more) /\ AllZero(later)
(* A chunk moves from the rest to the buffer, nothing else changes.        *)
LEMMA AheadChunk ==
  ASSUME NEW s, NEW pos, NEW end, NEW b \in Seq(Unit), NEW r \in Seq(Unit), NEW n \in 1..Len(r)
  PROVE  ChunkTaken(s, pos, end, b, r, SubSeq(r, 1, n), SubSeq(r, n + 1, Len(r)))
  <1>0. PICK more, later : more = SubSeq(r, 1, n) /\ later = SubSeq(r, n + 1, Len(r))
    OBVIOUS
  <1>1. Len(r) \in Nat /\ n \in Nat /\ n \in 0..Len(r) /\ Len(b) \in Nat
    OBVIOUS
  <1>2. /\ later \in Seq(Unit) /\ Len(later) = Len(r) - n
        /\ \A k \in 1..(Len(r) - n) : later[k] = r[n + k]
        /\ more \in Seq(Unit) /\ Len(more) = n
        /\ \A k \in 1..n : more[k] = r[k]
    BY <1>0, <1>1, SequenceRest
  <1>3. PICK j \in Seq(Unit) : j = b \o more
    BY <1>2, ConcatProperties
  <1>4. /\ Len(j) = Len(b) + n
        /\ \A k \in 1..Len(b) : j[k] = b[k]
        /\ \A k \in 1..n : j[Len(b) + k] = r[k]
    <2>1. PICK q \in Seq(Unit) : q = more
      BY <1>2
    <2>2. /\ Len(b \o q) = Len(b) + Len(q)
          /\ \A k \in 1..Len(b) : (b \o q)[k] = b[k]
          /\ \A k \in 1..Len(q) : (b \o q)[Len(b) + k] = q[k]
      BY JoinTwo
    <2>3. Len(q) = n /\ j = b \o q /\ \A k \in 1..n : q[k] = r[k]
      BY <1>2, <1>3, <2>1
    <2> QED BY <2>2, <2>3
  <1>5. PICK lb \in Nat, lr \in Nat : lb = Len(b) /\ lr = Len(r)
    BY <1>1
  <1>6. \A k \in 1..(lb + n) : k \in 1..lb \/ \E i \in 1..n : k = lb + i
    <2> TAKE k \in 1..(lb + n)
    <2>1. CASE k <= lb
      BY <2>1
    <2>2. CASE ~(k <= lb)
      <3>1. k - lb \in 1..n /\ k = lb + (k - lb)
        BY <1>1, <2>2
      <3> QED BY <3>1
    <2> QED BY <2>1, <2>2
  <1>7. \A i \in 1..n : i \in 1..lr
    BY <1>5
  <1>8. \A k \in 1..(lr - n) : n + k \in 1..lr
    BY <1>1, <1>5
  <1>9. ASSUME Ahead(s, pos, b, r, end) PROVE Ahead(s, pos, j, later, end)
    <2>1. pos \in Nat /\ pos + lb + lr = end
      BY <1>5, <1>9 DEF Ahead
    <2>2. pos + Len(j) + Len(later) = end
      <3>1. Len(j) = lb + n /\ Len(later) = lr - n
        BY <1>2, <1>4, <1>5
      <3>2. pos + (lb + n) + (lr - n) = end
        BY <1>1, <2>1
      <3> QED BY <3>1, <3>2
    <2>3. \A k \in 1..lb : b[k] = s[pos + k]
      BY <1>5, <1>9 DEF Ahead
    <2>4. \A k \in 1..lr : r[k] = s[pos + lb + k]
      BY <1>5, <1>9 DEF Ahead
    <2>5. ASSUME NEW k \in 1..(lb + n) PROVE j[k] = s[pos + k]
      <3>1. CASE k \in 1..lb
        BY <1>4, <1>5, <2>3, <3>1
      <3>2. CASE \E i \in 1..n : k = lb + i
        <4>1. PICK i \in 1..n : k = lb + i
          BY <3>2
        <4>2. j[k] = r[i] /\ r[i] = s[pos + lb + i]
          BY <1>4, <1>5, <1>7, <2>4, <4>1
        <4>3. pos + lb + i = pos + k
          BY <1>1, <2>1, <4>1
        <4> QED BY <4>2, <4>3
      <3> QED BY <1>6, <3>1, <3>2
    <2>6. ASSUME NEW k \in 1..(lr - n) PROVE later[k] = s[pos + (lb + n) + k]
      <3>1. later[k] = r[n + k] /\ r[n + k] = s[pos + lb + (n + k)]
        BY <1>2, <1>5, <1>8, <2>4
      <3>2. pos + lb + (n + k) = pos + (lb + n) + k
        BY <1>1, <2>1
      <3> QED BY <3>1, <3>2
    <2> QED BY <1>2, <1>4, <1>5, <2>1, <2>2, <2>5, <2>6 DEF Ahead
  <1>10. ASSUME AllZero(b), AllZero(r) PROVE AllZero(j) /\ AllZero(later)
    <2>1. \A k \in 1..lr : r[k] = [unit |-> "zero"]
      BY <1>5, <1>10 DEF AllZero
    <2>2. \A k \in 1..lb : b[k] = [unit |-> "zero"]
      BY <1>5, <1>10 DEF AllZero
    <2>3. \A k \in 1..(lb + n) : j[k] = [unit |-> "zero"]
      BY <1>4, <1>5, <1>6, <1>7, <2>1, <2>2
    <2>4. \A k \in 1..(lr - n) : later[k] = [unit |-> "zero"]
      BY <1>2, <1>5, <1>8, <2>1
    <2> QED BY <1>2, <1>4, <1>5, <2>3, <2>4 DEF AllZero
  <1> QED BY <1>0, <1>2, <1>3, <1>9, <1>10 DEF ChunkTaken

(* What is skipped is what comes next in the stream.                       *)
LEMMA AheadSkip ==
  ASSUME NEW s, NEW pos, NEW end, NEW b \in Seq(Unit), NEW r \in Seq(Unit), NEW n \in 0..Len(b),
         Ahead(s, pos, b, r, end)
  PROVE  Ahead(s, pos + n, SubSeq(b, n + 1, Len(b)), r, end)
  <1>1. PICK lb \in Nat, lr \in Nat : lb = Len(b) /\ lr = Len(r)
    OBVIOUS
  <1>2. PICK later \in Seq(Unit) : later = SubSeq(b, n + 1, Len(b))
    BY SequenceRest
  <1>3. Len(later) = lb - n /\ \A k \in 1..(lb - n) : later[k] = b[n + k]
    BY <1>1, <1>2, SequenceRest
  <1>4. /\ pos \in Nat /\ pos + lb + lr = end
        /\ \A k \in 1..lb : b[k] = s[pos + k]
        /\ \A k \in 1..lr : r[k] = s[pos + lb + k]
    BY <1>1 DEF Ahead
  <1>5. n \in Nat /\ n <= lb
    BY <1>1
  <1>6. (pos + n) + (lb - n) + lr = end /\ pos + n \in Nat
    BY <1>4, <1>5
  <1>7. ASSUME NEW k \in 1..(lb - n) PROVE later[k] = s[(pos + n) + k]
    <2>1. n + k \in 1..lb /\ pos + (n + k) = (pos + n) + k
      BY <1>4, <1>5
    <2> QED BY <1>3, <1>4, <2>1
  <1>8. ASSUME NEW k \in 1..lr PROVE r[k] = s[(pos + n) + (lb - n) + k]
    <2>1. pos + lb + k = (pos + n) + (lb - n) + k
      BY <1>4, <1>5
    <2> QED BY <1>4, <2>1
  <1> QED BY <1>1, <1>2, <1>3, <1>6, <1>7, <1>8 DEF Ahead
-----------------------------------------------------------------------------
(* Every step keeps the invariant.                                         *)
(* What lies ahead of a header, of content, and of the end.                *)
LEMMA Bounds ==
  ASSUME NEW a \in Archives, NEW m \in 1..Len(a)
  PROVE  /\ a[m] \in Members /\ a[m].content \in Seq(Symbols) /\ Len(a[m].content) \in Nat
         /\ Bound(a, m - 1) \in Nat /\ Bound(a, m) \in Nat
         /\ Bound(a, m) = Bound(a, m - 1) + Block + Len(a[m].content)
                            + Padding(Len(a[m].content))
         /\ Padding(Len(a[m].content)) \in 0..(Block - 1)
  <1>1. a[m] \in Members /\ Len(a) \in Nat
    BY ArchivesAssumption
  <1>2. a[m].content \in Seq(Symbols)
    BY <1>1 DEF Members
  <1>3. PICK l \in Nat : l = Len(a[m].content)
    BY <1>2
  <1>4. Padding(l) \in 0..(Block - 1) /\ Block \in Nat
    BY PaddingFits, BlockAssumption
  <1>5. Len(Encoded(a[m])) = Block + l + Padding(l)
    BY <1>1, <1>3, EncodedIs
  <1>6. m \in 0..Len(a) /\ m - 1 \in 0..Len(a)
    BY <1>1
  <1>7. Bound(a, m - 1) \in Nat /\ Bound(a, m) \in Nat
    BY <1>6, Layout
  <1>8. Bound(a, m) = Bound(a, m - 1) + Len(Encoded(a[m]))
    BY Layout
  <1>9. Bound(a, m) = Bound(a, m - 1) + Block + l + Padding(l)
    <2>1. PICK q \in Nat : q = Padding(l)
      BY <1>4
    <2>2. PICK before \in Nat : before = Bound(a, m - 1)
      BY <1>7
    <2>3. Bound(a, m) = before + (Block + l + q)
      BY <1>5, <1>8, <2>1, <2>2
    <2>4. before + (Block + l + q) = before + Block + l + q
      BY <1>4
    <2> QED BY <2>1, <2>2, <2>3, <2>4
  <1> QED BY <1>1, <1>2, <1>3, <1>4, <1>7, <1>9

HeaderUnit(m, k) ==
  [unit |-> "header", member |-> m, at |-> k]

(* Where a member begins the buffer holds its header.                      *)
LEMMA HeaderAhead ==
  ASSUME NEW a \in Archives, NEW m \in 1..Len(a), NEW b, NEW r, NEW end,
         Ahead(Stream(a), Bound(a, m - 1), b, r, end)
  PROVE  \A k \in 1..Block : k \in 1..Len(b) => b[k] = HeaderUnit(a[m], k)
  <1> SUFFICES ASSUME NEW k \in 1..Block, k \in 1..Len(b) PROVE b[k] = HeaderUnit(a[m], k)
    OBVIOUS
  <1>1. a[m] \in Members /\ Len(a[m].content) \in Nat /\ Padding(Len(a[m].content)) \in Nat
    BY Bounds, BlockAssumption
  <1>2. Len(Encoded(a[m])) = Block + Len(a[m].content) + Padding(Len(a[m].content))
    BY <1>1, EncodedIs
  <1>3. k \in 1..Len(Encoded(a[m]))
    <2>1. PICK l \in Nat, q \in Nat : Len(Encoded(a[m])) = Block + l + q
      BY <1>1, <1>2
    <2> QED BY <2>1, BlockAssumption
  <1>4. Encoded(a[m])[k] = HeaderUnit(a[m], k)
    BY <1>1, EncodedIs DEF HeaderUnit
  <1>5. Stream(a)[Bound(a, m - 1) + k] = Encoded(a[m])[k]
    BY <1>3, Layout
  <1>6. b[k] = Stream(a)[Bound(a, m - 1) + k]
    BY DEF Ahead
  <1> QED BY <1>4, <1>5, <1>6

(* Behind p units of content the buffer holds the next ones.               *)
LEMMA ContentAhead ==
  ASSUME NEW a \in Archives, NEW m \in 1..Len(a), NEW b, NEW r, NEW end, NEW p \in Nat,
         Ahead(Stream(a), Bound(a, m - 1) + Block + p, b, r, end)
  PROVE  \A k \in 1..Len(b) :
           p + k <= Len(a[m].content) => b[k] = [unit |-> a[m].content[p + k]]
  <1> SUFFICES ASSUME NEW k \in 1..Len(b), p + k <= Len(a[m].content)
               PROVE  b[k] = [unit |-> a[m].content[p + k]]
    OBVIOUS
  <1>1. a[m] \in Members /\ Block \in Nat
    BY Bounds, BlockAssumption
  <1>2. PICK l \in Nat, q \in Nat, before \in Nat :
          /\ l = Len(a[m].content) /\ q = Padding(Len(a[m].content))
          /\ before = Bound(a, m - 1)
    <2>1. Padding(Len(a[m].content)) \in Nat
      BY <1>1, Bounds
    <2> QED BY <2>1, Bounds
  <1>3. Len(Encoded(a[m])) = Block + l + q
    BY <1>1, <1>2, EncodedIs
  <1>4. k \in Nat /\ 1 <= k
    OBVIOUS
  <1>5. p + k \in 1..l
    BY <1>2, <1>4
  <1>6. Block + (p + k) \in 1..Len(Encoded(a[m]))
    BY <1>1, <1>3, <1>5
  <1>7. Encoded(a[m])[Block + (p + k)] = [unit |-> a[m].content[p + k]]
    BY <1>1, <1>2, <1>5, EncodedIs
  <1>8. Stream(a)[before + (Block + (p + k))] = Encoded(a[m])[Block + (p + k)]
    BY <1>2, <1>6, Layout
  <1>9. b[k] = Stream(a)[before + Block + p + k]
    BY <1>2 DEF Ahead
  <1>10. before + (Block + (p + k)) = before + Block + p + k
    BY <1>1, <1>4
  <1> QED BY <1>7, <1>8, <1>9, <1>10

(* Behind the last member there are only zeros.                            *)
LEMMA ZerosAhead ==
  ASSUME NEW a \in Archives, NEW b \in Seq(Unit), NEW r \in Seq(Unit),
         NEW end \in 0..Len(Stream(a)), Ahead(Stream(a), Bound(a, Len(a)), b, r, end)
  PROVE  AllZero(b) /\ AllZero(r)
  <1>1. PICK start \in Nat : start = Bound(a, Len(a))
    BY DEF Ahead
  <1>2. PICK lb \in Nat, lr \in Nat : lb = Len(b) /\ lr = Len(r)
    OBVIOUS
  <1>3. end \in Int /\ end <= start + 2 * Block /\ Block \in Nat
    <2>1. Len(Stream(a)) = start + 2 * Block /\ Len(Stream(a)) \in Nat
      BY <1>1, Layout
    <2> QED BY <2>1, BlockAssumption
  <1>4. lb + lr <= 2 * Block
    BY <1>1, <1>2, <1>3 DEF Ahead
  <1>5. ASSUME NEW k \in 1..lb PROVE b[k] = [unit |-> "zero"]
    <2>1. k \in 1..(2 * Block)
      BY <1>3, <1>4
    <2>2. b[k] = Stream(a)[start + k]
      BY <1>1, <1>2 DEF Ahead
    <2> QED BY <1>1, <2>1, <2>2, Layout
  <1>6. ASSUME NEW k \in 1..lr PROVE r[k] = [unit |-> "zero"]
    <2>1. lb + k \in 1..(2 * Block)
      BY <1>3, <1>4
    <2>2. r[k] = Stream(a)[start + lb + k]
      BY <1>1, <1>2 DEF Ahead
    <2>3. start + lb + k = start + (lb + k)
      BY <1>1
    <2>4. Stream(a)[start + (lb + k)] = [unit |-> "zero"]
      BY <1>1, <2>1, Layout
    <2> QED BY <2>2, <2>3, <2>4
  <1> QED BY <1>2, <1>5, <1>6 DEF AllZero
-----------------------------------------------------------------------------
(* Before the first chunk the reader is where the stream begins.           *)
LEMMA ReaderBegins == FaInit => ReaderInv
  <1> SUFFICES ASSUME FaInit PROVE ReaderInv
    OBVIOUS
  <1>1. archive \in Archives /\ Len(archive) \in Nat /\ cut \in 0..Len(Stream(archive))
    BY ArchivesAssumption DEF FaInit
  <1>2. PICK s \in Seq(Unit) : s = Stream(archive)
    BY <1>1, Layout
  <1>3. /\ rest \in Seq(Unit) /\ Len(rest) = cut
        /\ \A k \in 1..cut : rest[k] = s[k]
    BY <1>1, <1>2, SequenceRest DEF FaInit
  <1>4. Ahead(Stream(archive), Bound(archive, 0), buffer, rest, cut)
    <2>1. Bound(archive, 0) = 0
      BY <1>1, Layout
    <2>2. Len(s) \in Nat /\ cut \in Nat
      BY <1>1, <1>2
    <2>3. buffer = <<>> /\ Len(<<>>) = 0
      BY DEF FaInit
    <2>4. \A k \in 1..cut : 0 + 0 + k = k
      BY <2>2
    <2> QED BY <1>2, <1>3, <2>1, <2>2, <2>3, <2>4 DEF Ahead
  <1>5. Delivered(0)
    <2>1. PlainLines(<<>>) = <<>>
      BY PlainLine
    <2>2. LinesOfFirst(archive, 0) = <<>> /\ FilesOfFirst(archive, 0) = {}
      BY <1>1, LinesOfMore, FilesOfMore
    <2> QED BY <2>1, <2>2 DEF Delivered, FaInit
  <1>6. Placed(0)
    BY <1>4, <1>5 DEF Placed, AtHeader, FaInit
  <1>7. 0 \in 0..Len(archive) /\ 0 \in 0..(Block - 1)
    BY <1>1, BlockAssumption
  <1>8. ReaderTyped
    BY <1>1, <1>3, <1>7 DEF ReaderTyped, FaInit
  <1>9. BetweenChunks
    BY BlockAssumption DEF BetweenChunks, FaInit
  <1> QED BY <1>6, <1>7, <1>8, <1>9 DEF ReaderInv, ReaderPlaced

(* A chunk of any length leaves the reader where it is.                    *)
LEMMA ChunkStep == ReaderInv /\ Chunk => ReaderInv'
  <1> SUFFICES ASSUME ReaderInv, Chunk PROVE ReaderInv'
    OBVIOUS
  <1>1. PICK m \in 0..Len(archive) : Placed(m)
    BY DEF ReaderInv, ReaderPlaced
  <1>2. rest \in Seq(Unit) /\ buffer \in Seq(Unit) /\ archive \in Archives
    BY DEF ReaderInv, ReaderTyped
  <1>3. PICK n \in 1..Len(rest) : /\ buffer' = buffer \o SubSeq(rest, 1, n)
                                  /\ rest' = SubSeq(rest, n + 1, Len(rest))
    BY DEF Chunk
  <1>4. UNCHANGED <<format, archive, cut, mode, member, remaining, padding, text, lines, found>>
    BY DEF Chunk
  <1>5. /\ buffer' \in Seq(Unit) /\ rest' \in Seq(Unit)
        /\ \A s, pos, end : Ahead(s, pos, buffer, rest, end) =>
                              Ahead(s, pos, buffer', rest', end)
        /\ AllZero(buffer) /\ AllZero(rest) => AllZero(buffer') /\ AllZero(rest')
    <2>1. PICK b \in Seq(Unit), r \in Seq(Unit) : b = buffer /\ r = rest
      BY <1>2
    <2>2. n \in 1..Len(r)
      BY <2>1
    <2>3. \A s, pos, end :
            ChunkTaken(s, pos, end, b, r, SubSeq(r, 1, n), SubSeq(r, n + 1, Len(r)))
      BY <2>2, AheadChunk
    <2>4. buffer' = b \o SubSeq(r, 1, n) /\ rest' = SubSeq(r, n + 1, Len(r))
      BY <1>3, <2>1
    <2>5. \A s, pos, end : ChunkTaken(s, pos, end, b, r, SubSeq(r, 1, n), rest')
      BY <2>3, <2>4
    <2> QED BY <2>1, <2>4, <2>5 DEF ChunkTaken
  <1>6. Placed(m)'
    <2>1. Delivered(m) => Delivered(m)'
      BY <1>4 DEF Delivered
    <2>2. CASE AtHeader(m)
      BY <1>4, <1>5, <2>1, <2>2 DEF Placed, AtHeader
    <2>3. CASE PastTheEnd(m)
      BY <1>4, <1>5, <2>1, <2>3 DEF Placed, PastTheEnd
    <2>4. CASE InPadding(m)
      BY <1>4, <1>5, <2>1, <2>4 DEF Placed, InPadding
    <2>5. CASE InFile(m)
      <3>1. \A read : PartlyDelivered(m, read) => PartlyDelivered(m, read)'
        BY <1>4 DEF PartlyDelivered
      <3> QED BY <1>4, <1>5, <2>5, <3>1 DEF Placed, InFile, PartlyDelivered
    <2> QED BY <1>1, <2>2, <2>3, <2>4, <2>5 DEF Placed
  <1>7. ReaderTyped'
    BY <1>4, <1>5 DEF ReaderInv, ReaderTyped, Chunk
  <1>8. BetweenChunks'
    BY DEF BetweenChunks, Chunk
  <1> QED BY <1>1, <1>4, <1>6, <1>7, <1>8 DEF ReaderInv, ReaderPlaced

(* The reader stands still.                                                *)
LEMMA Stands ==
  ASSUME ReaderInv, UNCHANGED <<format, archive, cut, rest, reader>>
  PROVE  ReaderPlaced' /\ (outcome' \in {"reading", "parsing", "done", "failed"} => ReaderTyped')
  <1>1. UNCHANGED <<format, archive, cut, rest, buffer, mode, member, remaining, padding, text,
                    lines, found>>
    BY DEF reader
  <1>2. PICK m \in 0..Len(archive) : Placed(m)
    BY DEF ReaderInv, ReaderPlaced
  <1>3. Placed(m)'
    BY <1>1, <1>2 DEF Placed, AtHeader, PastTheEnd, InPadding, InFile, Delivered,
                      PartlyDelivered
  <1> QED BY <1>1, <1>2, <1>3 DEF ReaderPlaced, ReaderInv, ReaderTyped

(* Between chunks less than a header is kept.                              *)
LEMMA LoopEndsStep == ReaderInv /\ LoopEnds => ReaderInv'
  <1> SUFFICES ASSUME ReaderInv, LoopEnds PROVE ReaderInv'
    OBVIOUS
  <1>1. ReaderPlaced' /\ ReaderTyped'
    BY Stands DEF LoopEnds
  <1>2. BetweenChunks'
    <2>1. buffer' = buffer /\ mode' = mode /\ outcome' = "reading"
      BY DEF LoopEnds, reader
    <2>2. buffer = <<>> => Len(buffer) < Block
      BY BlockAssumption
    <2> QED BY <2>1, <2>2 DEF LoopEnds, ShortHeader, BetweenChunks
  <1> QED BY <1>1, <1>2 DEF ReaderInv

(* A header that does not parse ends the reading.                          *)
LEMMA BadHeaderStep == ReaderInv /\ BadHeader => ReaderInv'
  <1> SUFFICES ASSUME ReaderInv, BadHeader PROVE ReaderInv'
    OBVIOUS
  <1>1. ReaderPlaced' /\ ReaderTyped'
    BY Stands DEF BadHeader
  <1>2. BetweenChunks'
    BY DEF BadHeader, BetweenChunks
  <1> QED BY <1>1, <1>2 DEF ReaderInv

(* A file is left when all of it is read.                                   *)
LEMMA FileLeft ==
  ASSUME ReaderInv
  PROVE  mode = "file" => remaining > 0
  <1>1. PICK m \in 0..Len(archive) : Placed(m)
    BY DEF ReaderInv, ReaderPlaced
  <1>2. mode = "file" => InFile(m)
    BY <1>1 DEF Placed, AtHeader, PastTheEnd, InPadding
  <1>3. ASSUME InFile(m) PROVE remaining > 0
    <2>1. m \in 1..Len(archive) /\ archive \in Archives
      BY <1>3, ArchivesAssumption DEF InFile, ReaderInv, ReaderTyped
    <2>2. Len(member.content) \in Nat
      BY <1>3, <2>1, Bounds DEF InFile
    <2> QED BY <1>3, <2>2 DEF InFile
  <1> QED BY <1>2, <1>3

(* The stream ends: accepted only outside a file, and complete.            *)
LEMMA StreamEndsStep == ReaderInv /\ StreamEnds => ReaderInv'
  <1> SUFFICES ASSUME ReaderInv, StreamEnds PROVE ReaderInv'
    OBVIOUS
  <1>1. UNCHANGED <<format, archive, cut, rest, reader>> /\ outcome' \in {"done", "failed"}
    BY DEF StreamEnds
  <1>2. ReaderPlaced' /\ ReaderTyped'
    BY <1>1, Stands
  <1>3. outcome' = "done" =>
          mode # "file" /\ (format = "tgz" => {f[1] : f \in found} = RequestedFiles)
    BY FileLeft DEF StreamEnds
  <1>4. BetweenChunks'
    BY <1>1, <1>3 DEF StreamEnds, BetweenChunks, ReaderInv, reader
  <1> QED BY <1>2, <1>4 DEF ReaderInv

(* A block of zeros is met behind the last member only.                    *)
LEMMA EndBlockStep == ReaderInv /\ EndBlock => ReaderInv'
  <1> SUFFICES ASSUME ReaderInv, EndBlock PROVE ReaderInv'
    OBVIOUS
  <1>1. PICK m \in 0..Len(archive) : Placed(m)
    BY DEF ReaderInv, ReaderPlaced
  <1>2. /\ rest \in Seq(Unit) /\ buffer \in Seq(Unit) /\ archive \in Archives
        /\ cut \in 0..Len(Stream(archive)) /\ Len(archive) \in Nat
    BY ArchivesAssumption DEF ReaderInv, ReaderTyped
  <1>3. /\ buffer' = <<>> /\ mode = "header" /\ outcome = "parsing"
        /\ UNCHANGED <<format, archive, cut, rest, mode, member, remaining, padding, text,
                       lines, found, outcome>>
    BY DEF EndBlock
  <1>4. buffer[1].unit = "zero" /\ 1 \in 1..Block /\ 1 \in 1..Len(buffer)
    BY <1>2, BlockAssumption DEF EndBlock, IsZero
  <1>5. AtHeader(m) \/ PastTheEnd(m)
    BY <1>1, <1>3 DEF Placed, InPadding, InFile
  <1>6. m = Len(archive) /\ Bound(archive, m) <= cut /\ AllZero(rest)
    <2>1. CASE PastTheEnd(m)
      BY <2>1 DEF PastTheEnd
    <2>2. CASE AtHeader(m)
      <3>1. Ahead(Stream(archive), Bound(archive, m), buffer, rest, cut)
        BY <2>2 DEF AtHeader
      <3>2. ASSUME m # Len(archive) PROVE FALSE
        <4>1. PICK n \in 1..Len(archive) : n = m + 1 /\ n - 1 = m
          BY <1>2, <3>2
        <4>2. Ahead(Stream(archive), Bound(archive, n - 1), buffer, rest, cut)
          BY <3>1, <4>1
        <4>3. buffer[1] = HeaderUnit(archive[n], 1)
          BY <1>2, <1>4, <4>2, HeaderAhead
        <4> QED BY <1>4, <4>3 DEF HeaderUnit
      <3>3. AllZero(rest)
        BY <1>2, <3>1, <3>2, ZerosAhead
      <3>4. Bound(archive, m) <= cut
        <4>1. Len(buffer) \in Nat /\ Len(rest) \in Nat
          BY <1>2
        <4> QED BY <3>1, <4>1 DEF Ahead
      <3> QED BY <3>2, <3>3, <3>4
    <2> QED BY <1>5, <2>1, <2>2
  <1>7. Delivered(m)
    BY <1>5 DEF AtHeader, PastTheEnd
  <1>8. PastTheEnd(m)'
    <2>1. AllZero(<<>>)
      BY DEF AllZero
    <2> QED BY <1>3, <1>6, <1>7, <2>1 DEF PastTheEnd, Delivered
  <1>9. ReaderTyped'
    BY <1>2, <1>3 DEF ReaderInv, ReaderTyped
  <1>10. BetweenChunks'
    BY <1>3 DEF BetweenChunks
  <1> QED BY <1>1, <1>3, <1>8, <1>9, <1>10 DEF ReaderInv, ReaderPlaced, Placed

(* An empty text has no line.                                              *)
LEMMA NothingToClose == Closed(SplitLines(<<>>)) = <<>>
  <1>1. SplitLines(<<>>) = NoText
    BY SplitSteps
  <1>2. <<>> \o <<>> = <<>>
    OBVIOUS
  <1> QED BY <1>1, <1>2 DEF Closed, NoText, Line

(* and decodes to nothing.                                                 *)
LEMMA NothingDecoded == Decode(<<>>) = <<>>
  <1>1. \A s : Len(s) = 0 => Decode(s) = <<>>
    BY DEF Decode
  <1> QED BY <1>1

(* An empty file needs no padding.                                         *)
LEMMA NoPadding == Padding(0) = 0
  <1>1. Block \in Nat /\ Block > 0
    BY BlockAssumption
  <1>2. 0 % Block = 0 /\ Block % Block = 0
    BY <1>1
  <1> QED BY <1>1, <1>2 DEF Padding

(* A header begins the next member; an empty file is delivered.            *)
LEMMA HeaderStep == ReaderInv /\ Header => ReaderInv'
  <1> SUFFICES ASSUME ReaderInv, Header PROVE ReaderInv'
    OBVIOUS
  <1>1. PICK before \in 0..Len(archive) : Placed(before)
    BY DEF ReaderInv, ReaderPlaced
  <1>2. /\ rest \in Seq(Unit) /\ buffer \in Seq(Unit) /\ archive \in Archives
        /\ cut \in 0..Len(Stream(archive)) /\ Len(archive) \in Nat
        /\ Block \in Nat /\ Block > 0
    BY ArchivesAssumption, BlockAssumption DEF ReaderInv, ReaderTyped
  <1>3. /\ buffer' = SubSeq(buffer, Block + 1, Len(buffer)) /\ text' = <<>>
        /\ mode = "header" /\ outcome = "parsing"
        /\ UNCHANGED <<format, archive, cut, rest, lines, outcome>>
    BY DEF Header, Skip
  <1>4. buffer[1].unit = "header" /\ 1 \in 1..Block /\ 1 \in 1..Len(buffer)
        /\ Block \in 0..Len(buffer)
    BY <1>2 DEF Header, IsHeader
  <1>5. ~AllZero(buffer)
    BY <1>4 DEF AllZero
  <1>6. AtHeader(before)
    BY <1>1, <1>3, <1>5 DEF Placed, InPadding, InFile, PastTheEnd
  <1>7. Ahead(Stream(archive), Bound(archive, before), buffer, rest, cut) /\ Delivered(before)
    BY <1>6 DEF AtHeader
  <1>8. before # Len(archive)
    BY <1>2, <1>5, <1>7, ZerosAhead
  <1>9. PICK m \in 1..Len(archive) : m = before + 1 /\ m - 1 = before
    BY <1>2, <1>8
  <1>10. buffer[1] = HeaderUnit(archive[m], 1)
    BY <1>2, <1>4, <1>7, <1>9, HeaderAhead
  <1>11. buffer[1].member = archive[m]
    BY <1>10 DEF HeaderUnit
  <1>12. PICK c \in Seq(Symbols) : c = archive[m].content
    BY <1>2, Bounds
  <1>13. PICK size \in Nat : size = Len(c)
    OBVIOUS
  <1>14. /\ member' = archive[m] /\ remaining' = size /\ padding' = Padding(size)
         /\ mode' = IF size = 0 THEN AfterContent(Padding(size)) ELSE "file"
         /\ found' = IF format = "tgz" /\ size = 0 /\ Requested(archive[m].name)
                     THEN Put(archive[m].name, <<>>) ELSE found
    BY <1>11, <1>12, <1>13 DEF Header
  <1>15. /\ Bound(archive, before) \in Nat /\ Padding(size) \in 0..(Block - 1)
         /\ Bound(archive, m) = Bound(archive, before) + Block + size + Padding(size)
    BY <1>2, <1>9, <1>12, <1>13, Bounds
  <1>16. Ahead(Stream(archive), Bound(archive, before) + Block, buffer', rest, cut)
    BY <1>2, <1>3, <1>4, <1>7, AheadSkip
  <1>17. Placed(m)'
    <2>1. CASE size = 0
      <3>1. Padding(size) = 0 /\ mode' = "header" /\ c = <<>>
        BY <1>13, <1>14, <2>1, NoPadding, EmptySeq DEF AfterContent
      <3>2. Bound(archive, m) = Bound(archive, before) + Block
        BY <1>2, <1>15, <2>1, <3>1
      <3>3. Ahead(Stream(archive), Bound(archive, m), buffer', rest, cut)
        BY <1>16, <3>2
      <3>4. Delivered(m)'
        <4>1. CASE format = "cvd"
          <5>1. PlainLines(lines) = LinesOfFirst(archive, before)
            BY <1>7, <4>1 DEF Delivered
          <5>2. MemberLines(archive[m]) = <<>>
            BY <1>12, <3>1, NothingToClose, PlainLine DEF MemberLines
          <5>3. LinesOfFirst(archive, m) = LinesOfFirst(archive, before) \o <<>>
            BY <1>2, <1>9, <5>2, LinesOfMore
          <5>4. LinesOfFirst(archive, before) \in Seq(Seq(Symbols))
            BY <1>2, LinesOfMore
          <5>5. LinesOfFirst(archive, before) \o <<>> = LinesOfFirst(archive, before)
            BY <5>4, ConcatEmptySeq
          <5> QED BY <1>3, <4>1, <5>1, <5>3, <5>5 DEF Delivered
        <4>2. CASE format # "cvd"
          <5>1. found = FilesOfFirst(archive, before) /\ format = "tgz"
            BY <1>7, <4>2 DEF Delivered, ReaderInv, ReaderTyped
          <5>2. m \in Nat \ {0}
            OBVIOUS
          <5>3. FilesOfFirst(archive, m) =
                  IF Requested(archive[m].name)
                  THEN {f \in FilesOfFirst(archive, m - 1) : f[1] # archive[m].name}
                         \cup {<<archive[m].name, Decode(archive[m].content)>>}
                  ELSE FilesOfFirst(archive, m - 1)
            BY <5>2, FilesOfMore
          <5>4. found' = FilesOfFirst(archive, m)
            <6>1. Decode(<<>>) = <<>>
              BY NothingDecoded
            <6> QED BY <1>9, <1>12, <1>14, <2>1, <3>1, <5>1, <5>3, <6>1 DEF Put
          <5> QED BY <1>3, <4>2, <5>4 DEF Delivered
        <4> QED BY <4>1, <4>2
      <3> QED BY <1>3, <3>1, <3>3, <3>4 DEF Placed, AtHeader
    <2>2. CASE size # 0
      <3>1. mode' = "file" /\ found' = found /\ m # 0
        BY <1>14, <2>2
      <3>2. 0 \in 0..(size - 1) /\ size = size - 0
        BY <2>2
      <3>3. SubSeq(c, 1, 0) = <<>>
        BY SubSeqEmpty
      <3>4. Ahead(Stream(archive), Bound(archive, before) + Block + 0, buffer', rest, cut)
        BY <1>2, <1>15, <1>16
      <3>5. PartlyDelivered(m, <<>>)'
        <4>1. /\ PlainText(<<>>) = <<>>
              /\ SplitLines(<<>>).complete = <<>> /\ SplitLines(<<>>).open = <<>>
          BY SplitSteps, PlainLine DEF NoText
        <4>2. CASE format = "cvd"
          <5>1. PlainLines(lines) = LinesOfFirst(archive, before)
            BY <1>7, <4>2 DEF Delivered
          <5>2. LinesOfFirst(archive, before) \in Seq(Seq(Symbols))
            BY <1>2, LinesOfMore
          <5>3. LinesOfFirst(archive, before) \o <<>> = LinesOfFirst(archive, before)
            BY <5>2, ConcatEmptySeq
          <5> QED BY <1>3, <1>9, <4>1, <4>2, <5>1, <5>3 DEF PartlyDelivered
        <4>3. CASE format # "cvd"
          BY <1>3, <1>7, <1>9, <3>1, <4>3 DEF PartlyDelivered, Delivered
        <4> QED BY <4>2, <4>3
      <3>6. /\ member' = archive'[m] /\ Len(member'.content) = size
            /\ padding' = Padding(Len(member'.content)) /\ remaining' = size
            /\ SubSeq(member'.content, 1, 0) = <<>>
        BY <1>3, <1>12, <1>13, <1>14, <3>3
      <3>7. InFile(m)'
        BY <1>3, <1>9, <3>1, <3>2, <3>4, <3>5, <3>6 DEF InFile
      <3> QED BY <3>7 DEF Placed
    <2> QED BY <2>1, <2>2
  <1>18. ReaderTyped'
    <2>1. buffer' \in Seq(Unit)
      BY <1>2, <1>3, <1>4, SequenceRest
    <2> QED BY <1>2, <1>3, <1>14, <1>15, <2>1 DEF ReaderInv, ReaderTyped
  <1>19. BetweenChunks'
    BY <1>3 DEF BetweenChunks
  <1>20. m \in 0..Len(archive')
    BY <1>3
  <1> QED BY <1>17, <1>18, <1>19, <1>20 DEF ReaderInv, ReaderPlaced
-----------------------------------------------------------------------------
(* The padding is skipped up to the next header.                           *)
LEMMA SkipPaddingStep == ReaderInv /\ SkipPadding => ReaderInv'
  <1> SUFFICES ASSUME ReaderInv, SkipPadding PROVE ReaderInv'
    OBVIOUS
  <1>1. PICK m \in 0..Len(archive) : Placed(m)
    BY DEF ReaderInv, ReaderPlaced
  <1>2. /\ rest \in Seq(Unit) /\ buffer \in Seq(Unit) /\ archive \in Archives
        /\ padding \in 0..(Block - 1) /\ Block \in Nat /\ Len(archive) \in Nat
    BY ArchivesAssumption, BlockAssumption DEF ReaderInv, ReaderTyped
  <1>3. InPadding(m)
    BY <1>1 DEF SkipPadding, Placed, InFile, AtHeader, PastTheEnd
  <1>4. PICK take : /\ take = IF padding < Len(buffer) THEN padding ELSE Len(buffer)
                    /\ padding' = padding - take
                    /\ buffer' = SubSeq(buffer, take + 1, Len(buffer))
                    /\ mode' = IF padding = take THEN "header" ELSE "padding"
    BY DEF SkipPadding, Skip
  <1>5. /\ outcome = "parsing"
        /\ UNCHANGED <<format, archive, cut, rest, member, remaining, text, lines, found,
                       outcome>>
    BY DEF SkipPadding
  <1>6. take \in 0..Len(buffer) /\ take \in Nat /\ take <= padding
    BY <1>2, <1>4
  <1>7. PICK bound \in Nat : bound = Bound(archive, m)
    BY <1>2, Layout
  <1>8. Ahead(Stream(archive), (bound - padding) + take, buffer', rest, cut)
    BY <1>2, <1>3, <1>4, <1>6, <1>7, AheadSkip DEF InPadding
  <1>9. Delivered(m)'
    BY <1>3, <1>5 DEF InPadding, Delivered
  <1>10. Placed(m)'
    <2>1. CASE padding = take
      <3>1. (bound - padding) + take = bound
        BY <1>2, <2>1
      <3> QED BY <1>4, <1>5, <1>7, <1>8, <1>9, <2>1, <3>1 DEF Placed, AtHeader
    <2>2. CASE padding # take
      <3>1. (bound - padding) + take = bound - padding' /\ padding' > 0
        BY <1>2, <1>4, <1>6, <2>2
      <3>2. m # 0 /\ mode' = "padding"
        BY <1>3, <1>4, <2>2 DEF InPadding
      <3>3. padding' <= Padding(Len(archive'[m].content))
        <4>1. m \in 1..Len(archive)
          BY <1>2, <3>2
        <4>2. PICK pad \in Nat : pad = Padding(Len(archive[m].content))
          <5>1. \A k \in 0..(Block - 1) : k \in Nat
            BY <1>2
          <5> QED BY <1>2, <4>1, <5>1, Bounds
        <4>3. padding <= pad
          BY <1>3, <4>2 DEF InPadding
        <4>4. padding - take <= pad
          BY <1>2, <1>6, <4>3
        <4> QED BY <1>4, <1>5, <4>2, <4>4
      <3> QED BY <1>5, <1>7, <1>8, <1>9, <3>1, <3>2, <3>3 DEF Placed, InPadding
    <2> QED BY <2>1, <2>2
  <1>11. ReaderTyped'
    <2>1. buffer' \in Seq(Unit)
      BY <1>2, <1>4, <1>6, SequenceRest
    <2>2. padding' \in 0..(Block - 1)
      BY <1>2, <1>4, <1>6
    <2> QED BY <1>2, <1>5, <2>1, <2>2 DEF ReaderInv, ReaderTyped
  <1>12. BetweenChunks'
    BY <1>5 DEF BetweenChunks
  <1> QED BY <1>1, <1>5, <1>10, <1>11, <1>12 DEF ReaderInv, ReaderPlaced

(* The first n symbols of a content.                                       *)
LEMMA Prefix ==
  ASSUME NEW c \in Seq(Symbols), NEW n \in 0..Len(c)
  PROVE  /\ SubSeq(c, 1, n) \in Seq(Symbols) /\ Len(SubSeq(c, 1, n)) = n
         /\ \A k \in 1..n : SubSeq(c, 1, n)[k] = c[k]
  <1>1. Len(c) \in Nat /\ \A k \in 1..Len(c) : c[k] \in Symbols
    OBVIOUS
  <1> QED BY <1>1, SubSeqProperties

(* Content read so far and the next portion of it.                         *)
ReadsOn(c, p, take) ==
  LET portion == [k \in 1..take |-> c[p + k]]
  IN /\ portion \in Seq(Symbols) /\ SubSeq(c, 1, p) \in Seq(Symbols)
     /\ SubSeq(c, 1, p) \o portion = SubSeq(c, 1, p + take)
(* What was read and the next portion are a prefix of the content.         *)
LEMMA ReadOn ==
  ASSUME NEW c \in Seq(Symbols), NEW p \in Nat, NEW take \in Nat, p + take <= Len(c)
  PROVE  ReadsOn(c, p, take)
  <1>1. PICK l \in Nat : l = Len(c) /\ \A k \in 1..l : c[k] \in Symbols
    OBVIOUS
  <1>2. PICK portion : portion = [k \in 1..take |-> c[p + k]]
    OBVIOUS
  <1>3. \A k \in 1..take : p + k \in 1..l
    BY <1>1
  <1>4. portion \in Seq(Symbols) /\ Len(portion) = take
    <2>1. portion \in [1..take -> Symbols]
      BY <1>1, <1>2, <1>3
    <2> QED BY <2>1, FirstNumbers
  <1>5. p \in 0..Len(c) /\ p + take \in 0..Len(c)
    BY <1>1
  <1>6. PICK s \in Seq(Symbols) : s = SubSeq(c, 1, p)
    BY <1>5, Prefix
  <1>7. Len(s) = p /\ \A k \in 1..p : s[k] = c[k]
    BY <1>5, <1>6, Prefix
  <1>8. PICK t \in Seq(Symbols) : t = SubSeq(c, 1, p + take)
    BY <1>5, Prefix
  <1>9. Len(t) = p + take /\ \A k \in 1..(p + take) : t[k] = c[k]
    <2>1. PICK n \in 0..Len(c) : n = p + take
      BY <1>5
    <2> QED BY <1>8, <2>1, Prefix
  <1>10. PICK j \in Seq(Symbols) : j = s \o portion
    BY <1>4, ConcatProperties
  <1>11. /\ Len(j) = p + take
         /\ \A k \in 1..p : j[k] = s[k]
         /\ \A k \in 1..take : j[p + k] = portion[k]
    <2>1. PICK q \in Seq(Symbols) : q = portion /\ Len(q) = take
      BY <1>4
    <2>2. j = s \o q
      BY <1>10, <2>1
    <2>3. /\ Len(s \o q) = Len(s) + Len(q)
          /\ \A k \in 1..Len(s) : (s \o q)[k] = s[k]
          /\ \A k \in 1..Len(q) : (s \o q)[Len(s) + k] = q[k]
      BY JoinTwo
    <2>4. Len(s) = p /\ Len(q) = take /\ q = portion
      BY <1>7, <2>1
    <2> QED BY <2>2, <2>3, <2>4
  <1>12. ASSUME NEW k \in 1..(p + take) PROVE j[k] = t[k]
    <2>1. CASE k <= p
      <3>1. k \in 1..p
        BY <2>1
      <3> QED BY <1>7, <1>9, <1>11, <3>1
    <2>2. CASE ~(k <= p)
      <3>1. PICK i \in 1..take : k = p + i
        <4>1. k - p \in 1..take /\ k = p + (k - p)
          BY <2>2
        <4> QED BY <4>1
      <3>2. j[k] = portion[i] /\ portion[i] = c[p + i]
        BY <1>2, <1>11, <3>1
      <3> QED BY <1>9, <3>1, <3>2
    <2> QED BY <2>1, <2>2
  <1>13. j = t
    BY <1>9, <1>11, <1>12, SeqEqual
  <1> QED BY <1>2, <1>4, <1>6, <1>8, <1>10, <1>13 DEF ReadsOn

(* Reading on, the lines add up to those of the whole text.                *)
LinesAddUp(given, t, more) ==
  LET first == SplitLines(t)
      second == SplitLines(first.open \o more)
      whole == SplitLines(t \o more)
  IN /\ second \in Splits /\ second.open = whole.open
     /\ (given \o first.complete) \o second.complete = given \o whole.complete
     /\ (given \o first.complete) \o Closed(second) = given \o Closed(whole)
(* The lines given and those of the portion are those of both.             *)
LEMMA LinesReadOn ==
  ASSUME NEW given \in Seq(Seq(Symbols)), NEW t \in Seq(Symbols), NEW more \in Seq(Symbols)
  PROVE  LinesAddUp(given, t, more)
  <1>1. PICK c \in Seq(Seq(Symbols)), o \in Seq(Symbols) :
          SplitLines(t) = [complete |-> c, open |-> o]
    BY SplitSteps DEF Splits
  <1>2. o \o more \in Seq(Symbols)
    BY ConcatProperties
  <1>3. PICK d \in Seq(Seq(Symbols)), q \in Seq(Symbols) :
          SplitLines(o \o more) = [complete |-> d, open |-> q]
    BY <1>2, SplitSteps DEF Splits
  <1>4. Parts(t, more)
    BY SplitInParts
  <1>5. SplitLines(t \o more) = [complete |-> c \o d, open |-> q]
    <2>1. SplitLines(t).complete = c /\ SplitLines(t).open = o
      BY <1>1
    <2>2. SplitLines(o \o more).complete = d /\ SplitLines(o \o more).open = q
      BY <1>3
    <2> QED BY <1>4, <2>1, <2>2 DEF Parts
  <1>6. PICK l \in Seq(Seq(Symbols)) : l = Line(q)
    BY LineTyped
  <1>7. PICK cd \in Seq(Seq(Symbols)), dl \in Seq(Seq(Symbols)) : cd = c \o d /\ dl = d \o l
    BY ConcatProperties
  <1>8. (given \o c) \o d = given \o cd
    BY <1>7, JoinLines, SMTT(60)
  <1>9. (given \o c) \o dl = given \o (cd \o l)
    <2>1. (given \o c) \o dl = given \o (c \o dl)
      BY JoinLines, SMTT(60)
    <2>2. cd \o l = c \o dl
      BY <1>7, JoinLines, SMTT(60)
    <2> QED BY <2>1, <2>2
  <1>10. PICK first, second, whole :
           /\ first = SplitLines(t) /\ second = SplitLines(first.open \o more)
           /\ whole = SplitLines(t \o more)
    OBVIOUS
  <1>11. first.complete = c /\ first.open = o
    BY <1>1, <1>10
  <1>12. second = [complete |-> d, open |-> q]
    BY <1>3, <1>10, <1>11
  <1>13. second.complete = d /\ second.open = q /\ second \in Splits
    BY <1>12 DEF Splits
  <1>14. whole.complete = cd /\ whole.open = q
    BY <1>5, <1>7, <1>10
  <1>15. Closed(second) = dl /\ Closed(whole) = cd \o l
    BY <1>6, <1>7, <1>13, <1>14 DEF Closed
  <1>16. (given \o first.complete) \o second.complete = given \o whole.complete
    BY <1>8, <1>11, <1>13, <1>14
  <1>17. (given \o first.complete) \o Closed(second) = given \o Closed(whole)
    BY <1>9, <1>11, <1>15
  <1> QED BY <1>10, <1>13, <1>14, <1>16, <1>17 DEF LinesAddUp

\* The same when each portion is decoded on its own, but for the characters
\* outside ASCII.
PlainAddUp(given, ls, t, read, portion) ==
  LET split == SplitLines(t \o Decode(portion))
      whole == SplitLines(PlainText(read \o portion))
  IN /\ split \in Splits /\ PlainText(split.open) = whole.open
     /\ PlainLines(ls \o split.complete) = given \o whole.complete
     /\ PlainLines(ls \o Closed(split)) = given \o Closed(whole)
     /\ ls \o split.complete \in Seq(Seq(Symbols)) /\ ls \o Closed(split) \in Seq(Seq(Symbols))
(* Where the text was cut shows in no line but in those characters.        *)
LEMMA PlainReadOn ==
  ASSUME NEW given \in Seq(Seq(Symbols)), NEW ls \in Seq(Seq(Symbols)), NEW t \in Seq(Symbols),
         NEW read \in Seq(Symbols), NEW portion \in Seq(Symbols),
         PlainLines(ls) = given \o SplitLines(PlainText(read)).complete,
         PlainText(t) = SplitLines(PlainText(read)).open
  PROVE  PlainAddUp(given, ls, t, read, portion)
  <1>1. PICK d \in Seq(Symbols) : d = Decode(portion) /\ PlainText(d) = PlainText(portion)
    BY PlainDecoded
  <1>2. PICK td \in Seq(Symbols) : td = t \o d
    BY ConcatProperties
  <1>3. PICK pr \in Seq(Symbols), pp \in Seq(Symbols), pt \in Seq(Symbols) :
          pr = PlainText(read) /\ pp = PlainText(portion) /\ pt = PlainText(t)
    BY PlainJoined
  <1>4. PICK split \in Splits : split = SplitLines(td)
    BY SplitSteps
  <1>5. SplitLines(pt \o pp) = PlainSplit(split)
    <2>1. PlainText(td) = pt \o pp
      <3>1. PlainText(t \o d) = PlainText(t) \o PlainText(d)
        BY PlainJoined
      <3> QED BY <1>1, <1>2, <1>3, <3>1
    <2>2. SplitLines(PlainText(td)) = PlainSplit(split)
      BY <1>4, SplitPlain
    <2> QED BY <2>1, <2>2
  <1>6. PICK first, second, whole :
          /\ first = SplitLines(pr) /\ second = SplitLines(first.open \o pp)
          /\ whole = SplitLines(pr \o pp)
    OBVIOUS
  <1>7. /\ second.open = whole.open
        /\ (given \o first.complete) \o second.complete = given \o whole.complete
        /\ (given \o first.complete) \o Closed(second) = given \o Closed(whole)
    <2>1. LinesAddUp(given, pr, pp)
      BY LinesReadOn
    <2> QED BY <1>6, <2>1 DEF LinesAddUp
  <1>8. first.open = pt /\ given \o first.complete = PlainLines(ls)
    BY <1>3, <1>6
  <1>9. second = PlainSplit(split)
    BY <1>5, <1>6, <1>8
  <1>10. second.open = PlainText(split.open) /\ second.complete = PlainLines(split.complete)
    BY <1>9 DEF PlainSplit
  <1>11. Closed(second) = PlainLines(Closed(split)) /\ Closed(split) \in Seq(Seq(Symbols))
    BY <1>9, ClosedPlain
  <1>12. PICK c \in Seq(Seq(Symbols)), l \in Seq(Seq(Symbols)) :
           c = split.complete /\ l = Closed(split)
    BY <1>11 DEF Splits
  <1>13. /\ PlainLines(ls \o c) = PlainLines(ls) \o PlainLines(c)
         /\ PlainLines(ls \o l) = PlainLines(ls) \o PlainLines(l)
    BY PlainLinesJoined
  <1>14. ls \o c \in Seq(Seq(Symbols)) /\ ls \o l \in Seq(Seq(Symbols))
    BY ConcatProperties
  <1>15. whole = SplitLines(PlainText(read \o portion))
    BY <1>3, <1>6, PlainJoined
  <1>16. split = SplitLines(t \o Decode(portion))
    BY <1>1, <1>2, <1>4
  <1>17. PlainText(split.open) = whole.open
    BY <1>7, <1>10
  <1>18. PlainLines(ls \o c) = given \o whole.complete
    BY <1>7, <1>8, <1>10, <1>12, <1>13
  <1>19. PlainLines(ls \o l) = given \o Closed(whole)
    BY <1>7, <1>8, <1>11, <1>12, <1>13
  <1> QED BY <1>12, <1>14, <1>15, <1>16, <1>17, <1>18, <1>19 DEF PlainAddUp

(* A portion gives its lines; a file that ends is delivered.               *)
LEMMA FileContentStep == ReaderInv /\ FileContent => ReaderInv'
  <1> SUFFICES ASSUME ReaderInv, FileContent PROVE ReaderInv'
    OBVIOUS
  <1>1. PICK before \in 0..Len(archive) : Placed(before)
    BY DEF ReaderInv, ReaderPlaced
  <1>2. /\ rest \in Seq(Unit) /\ buffer \in Seq(Unit) /\ archive \in Archives
        /\ text \in Seq(Symbols) /\ format \in {"cvd", "tgz"} /\ lines \in Seq(Seq(Symbols))
        /\ Block \in Nat /\ Len(archive) \in Nat
    BY ArchivesAssumption, BlockAssumption DEF ReaderInv, ReaderTyped
  <1>3. InFile(before) /\ before # 0
    BY <1>1 DEF FileContent, Placed, InPadding, AtHeader, PastTheEnd, InFile
  <1>4. PICK m \in 1..Len(archive) : m = before
    BY <1>2, <1>3
  <1>5. PICK c \in Seq(Symbols) : c = archive[m].content
    BY <1>2, Bounds
  <1>6. PICK size \in Nat : size = Len(c)
    OBVIOUS
  <1>7. member = archive[m] /\ padding = Padding(size)
    BY <1>3, <1>4, <1>5, <1>6 DEF InFile
  <1>8. PICK p \in 0..(size - 1) :
          /\ remaining = size - p
          /\ Ahead(Stream(archive), Bound(archive, m - 1) + Block + p, buffer, rest, cut)
          /\ PartlyDelivered(m, SubSeq(c, 1, p))
    BY <1>3, <1>4, <1>5, <1>6, <1>7 DEF InFile
  <1>9. PICK take : take = IF remaining < Len(buffer) THEN remaining ELSE Len(buffer)
    OBVIOUS
  <1>10. take \in 0..Len(buffer) /\ take \in Nat /\ p \in Nat /\ p + take <= size
    BY <1>2, <1>6, <1>8, <1>9
  <1>11. PICK portion : portion = [k \in 1..take |-> c[p + k]]
    OBVIOUS
  <1>12. portion = [k \in 1..take |-> buffer[k].unit]
    <2>1. ASSUME NEW k \in 1..take PROVE c[p + k] = buffer[k].unit
      <3>1. k \in 1..Len(buffer) /\ p + k <= Len(c)
        BY <1>2, <1>6, <1>10
      <3>2. \A j \in 1..Len(buffer) :
              p + j <= Len(archive[m].content) => buffer[j] = [unit |-> archive[m].content[p + j]]
        <4>1. Ahead(Stream(archive), Bound(archive, m - 1) + Block + p, buffer, rest, cut)
          BY <1>8
        <4>2. archive \in Archives /\ p \in Nat
          BY <1>2, <1>10
        <4> QED BY <4>1, <4>2, ContentAhead
      <3>3. c[p + k] = archive[m].content[p + k]
        BY <1>5
      <3>5. p + k <= Len(archive[m].content) /\ k \in 1..Len(buffer)
        BY <1>5, <3>1
      <3>6. buffer[k] = [unit |-> archive[m].content[p + k]]
        BY <3>2, <3>5
      <3>4. archive[m].content[p + k] = buffer[k].unit
        BY <3>6
      <3> QED BY <3>3, <3>4
    <2> QED BY <1>11, <2>1
  <1>14. PICK split : split = SplitLines(text \o Decode(portion))
    OBVIOUS
  <1>15. /\ remaining' = remaining - take
         /\ buffer' = SubSeq(buffer, take + 1, Len(buffer))
         /\ mode' = IF remaining = take THEN AfterContent(padding) ELSE "file"
         /\ text' = IF ~Requested(archive[m].name) THEN text
                    ELSE IF format = "tgz" THEN text \o portion
                    ELSE IF remaining = take THEN <<>> ELSE split.open
         /\ lines' = IF format = "tgz" \/ ~Requested(archive[m].name) THEN lines
                     ELSE lines \o (IF remaining = take THEN Closed(split) ELSE split.complete)
         /\ found' = IF format = "tgz" /\ Requested(archive[m].name) /\ remaining = take
                     THEN Put(archive[m].name, Decode(text \o portion)) ELSE found
    BY <1>7, <1>9, <1>12, <1>14 DEF FileContent, Skip
  <1>16. /\ outcome = "parsing"
         /\ UNCHANGED <<format, archive, cut, rest, member, padding, outcome>>
    BY DEF FileContent
  <1>17. PICK read \in Seq(Symbols), now \in Seq(Symbols) :
           /\ read = SubSeq(c, 1, p) /\ now = SubSeq(c, 1, p + take)
           /\ read \o portion = now /\ portion \in Seq(Symbols)
    <2>1. ReadsOn(c, p, take)
      BY <1>6, <1>10, ReadOn
    <2>2. SubSeq(c, 1, p) \o portion \in Seq(Symbols)
      BY <1>11, <2>1, ConcatProperties DEF ReadsOn
    <2> QED BY <1>11, <2>1, <2>2 DEF ReadsOn
  <1>18. PICK given \in Seq(Seq(Symbols)) : given = LinesOfFirst(archive, m - 1)
    <2>1. m - 1 \in 0..Len(archive)
      BY <1>2
    <2> QED BY <1>2, <2>1, LinesOfMore
  <1>19. ASSUME format = "cvd", Requested(archive[m].name)
         PROVE  /\ split \in Splits /\ PlainText(split.open) = SplitLines(PlainText(now)).open
                /\ PlainLines(lines \o split.complete)
                     = given \o SplitLines(PlainText(now)).complete
                /\ PlainLines(lines \o Closed(split))
                     = given \o Closed(SplitLines(PlainText(now)))
                /\ lines \o split.complete \in Seq(Seq(Symbols))
                /\ lines \o Closed(split) \in Seq(Seq(Symbols))
    <2>1. /\ PlainLines(lines) = given \o SplitLines(PlainText(read)).complete
          /\ PlainText(text) = SplitLines(PlainText(read)).open
      BY <1>8, <1>17, <1>18, <1>19 DEF PartlyDelivered
    <2>2. PICK ls \in Seq(Seq(Symbols)), t \in Seq(Symbols) : ls = lines /\ t = text
      BY <1>2
    <2>3. PlainAddUp(given, ls, t, read, portion)
      BY <1>17, <2>1, <2>2, PlainReadOn
    <2> QED BY <1>14, <1>17, <2>2, <2>3 DEF PlainAddUp
  <1>20. ASSUME format = "cvd", ~Requested(archive[m].name) PROVE PlainLines(lines) = given
    BY <1>8, <1>18, <1>20 DEF PartlyDelivered
  <1>21. ASSUME format = "tgz"
         PROVE  /\ found = FilesOfFirst(archive, m - 1)
                /\ Requested(archive[m].name) => text \o portion = now
    BY <1>8, <1>17, <1>21 DEF PartlyDelivered
  <1>22. PICK before2 \in Nat, pad \in Nat :
           /\ before2 = Bound(archive, m - 1) /\ pad = Padding(size)
           /\ Bound(archive, m) = before2 + Block + size + pad
    <2>1. Padding(size) \in Nat
      BY <1>2, <1>5, <1>6, Bounds
    <2> QED BY <1>2, <1>5, <1>6, <2>1, Bounds
  <1>23. Ahead(Stream(archive), before2 + Block + (p + take), buffer', rest, cut)
    <2>1. Ahead(Stream(archive), (before2 + Block + p) + take, buffer', rest, cut)
      BY <1>2, <1>8, <1>10, <1>15, <1>22, AheadSkip
    <2>2. (before2 + Block + p) + take = before2 + Block + (p + take)
      BY <1>2, <1>10
    <2> QED BY <2>1, <2>2
  <1>24. remaining' = size - (p + take)
    <2>1. remaining = size - p /\ remaining' = remaining - take
      BY <1>8, <1>15
    <2> QED BY <1>6, <1>10, <2>1
  <1>25. remaining = take <=> p + take = size
    <2>1. remaining = size - p
      BY <1>8
    <2> QED BY <1>6, <1>10, <2>1
  <1>26. Placed(m)'
    <2>1. CASE remaining # take
      <3>1. PICK q \in 0..(size - 1) : q = p + take /\ remaining' = size - q
        <4>1. p + take \in 0..(size - 1)
          BY <1>10, <1>25, <2>1
        <4> QED BY <1>24, <4>1
      <3>2. mode' = "file" /\ found' = found
        BY <1>15, <2>1
      <3>3. PartlyDelivered(m, now)'
        <4>1. CASE format = "cvd" /\ Requested(archive[m].name)
          <5>1. lines' = lines \o split.complete /\ text' = split.open
            BY <1>15, <2>1, <4>1
          <5>2. /\ PlainLines(lines') = given \o SplitLines(PlainText(now)).complete
                /\ PlainText(text') = SplitLines(PlainText(now)).open
            BY <1>19, <4>1, <5>1
          <5> QED BY <1>16, <1>18, <4>1, <5>2 DEF PartlyDelivered
        <4>2. CASE format = "cvd" /\ ~Requested(archive[m].name)
          <5>1. PlainLines(lines') = given
            BY <1>15, <1>20, <4>2
          <5> QED BY <1>16, <1>18, <4>2, <5>1 DEF PartlyDelivered
        <4>3. CASE format = "tgz"
          <5>1. found' = FilesOfFirst(archive, m - 1)
            BY <1>21, <3>2, <4>3
          <5>2. Requested(archive[m].name) => text' = now
            BY <1>15, <1>21, <4>3
          <5> QED BY <1>16, <4>3, <5>1, <5>2 DEF PartlyDelivered
        <4> QED BY <1>2, <4>1, <4>2, <4>3
      <3>4. member' = archive'[m] /\ member'.content = c /\ padding' = Padding(Len(member'.content))
        BY <1>5, <1>6, <1>7, <1>16
      <3>5. InFile(m)'
        <4>1. SubSeq(member'.content, 1, q) = now /\ Len(member'.content) = size
          BY <1>6, <1>17, <3>1, <3>4
        <4>2. Ahead(Stream(archive'), Bound(archive', m - 1) + Block + q, buffer', rest', cut')
          BY <1>16, <1>22, <1>23, <3>1
        <4>3. PartlyDelivered(m, SubSeq(member.content, 1, q))'
          BY <3>3, <4>1 DEF PartlyDelivered
        <4>4. /\ q \in 0..(Len(member'.content) - 1) /\ m # 0
              /\ remaining' = Len(member'.content) - q
          BY <3>1, <4>1
        <4> QED BY <3>2, <3>4, <4>2, <4>3, <4>4 DEF InFile
      <3> QED BY <3>5 DEF Placed
    <2>2. CASE remaining = take
      <3>1. p + take = size /\ now = c
        <4>1. p + take = size
          BY <1>25, <2>2
        <4>2. SubSeq(c, 1, Len(c)) = c
          BY SubSeqFull
        <4> QED BY <1>6, <1>17, <4>1, <4>2
      <3>2. mode' = IF pad = 0 THEN "header" ELSE "padding"
        BY <1>7, <1>15, <1>22, <2>2 DEF AfterContent
      <3>3. Delivered(m)'
        <4>1. LinesOfFirst(archive, m) = given \o MemberLines(archive[m])
          BY <1>2, <1>18, LinesOfMore
        <4>2. CASE format = "cvd" /\ Requested(archive[m].name)
          <5>1. lines' = lines \o Closed(split)
            BY <1>15, <2>2, <4>2
          <5>2. PlainLines(lines') = given \o Closed(SplitLines(PlainText(c)))
            BY <1>19, <3>1, <4>2, <5>1
          <5>3. MemberLines(archive[m]) = Closed(SplitLines(PlainText(c)))
            BY <1>5, <4>2 DEF MemberLines
          <5> QED BY <1>16, <4>1, <4>2, <5>2, <5>3 DEF Delivered
        <4>3. CASE format = "cvd" /\ ~Requested(archive[m].name)
          <5>1. PlainLines(lines') = given
            BY <1>15, <1>20, <4>3
          <5>2. MemberLines(archive[m]) = <<>>
            BY <4>3 DEF MemberLines
          <5>3. given \o <<>> = given
            BY ConcatEmptySeq
          <5> QED BY <1>16, <4>1, <4>3, <5>1, <5>2, <5>3 DEF Delivered
        <4>4. CASE format = "tgz"
          <5>1. m \in Nat \ {0}
            OBVIOUS
          <5>2. FilesOfFirst(archive, m) =
                  IF Requested(archive[m].name)
                  THEN {f \in FilesOfFirst(archive, m - 1) : f[1] # archive[m].name}
                         \cup {<<archive[m].name, Decode(archive[m].content)>>}
                  ELSE FilesOfFirst(archive, m - 1)
            BY <5>1, FilesOfMore
          <5>3. found' = FilesOfFirst(archive, m)
            BY <1>5, <1>15, <1>21, <2>2, <3>1, <4>4, <5>2 DEF Put
          <5> QED BY <1>16, <4>4, <5>3 DEF Delivered
        <4> QED BY <1>2, <4>2, <4>3, <4>4
      <3>4. CASE pad = 0
        <4>1. before2 + Block + (p + take) = Bound(archive, m)
          BY <1>2, <1>22, <3>1, <3>4
        <4>2. Ahead(Stream(archive'), Bound(archive', m), buffer', rest', cut')
          BY <1>16, <1>23, <4>1
        <4> QED BY <3>2, <3>3, <3>4, <4>2 DEF Placed, AtHeader
      <3>5. CASE pad # 0
        <4>1. before2 + Block + (p + take) = Bound(archive, m) - pad
          <5>1. Bound(archive, m) = before2 + Block + size + pad
            BY <1>22
          <5>2. before2 + Block + size = (before2 + Block + size + pad) - pad
            BY <1>2
          <5> QED BY <3>1, <5>1, <5>2
        <4>2. Ahead(Stream(archive'), Bound(archive', m) - padding', buffer', rest', cut')
          BY <1>7, <1>16, <1>22, <1>23, <4>1
        <4>3. padding' > 0 /\ mode' = "padding" /\ m # 0
          BY <1>7, <1>16, <1>22, <3>2, <3>5
        <4>4. padding' <= Padding(Len(archive'[m].content))
          <5>1. padding' = pad /\ Padding(Len(archive'[m].content)) = pad
            BY <1>5, <1>6, <1>7, <1>16, <1>22
          <5> QED BY <5>1
        <4> QED BY <3>3, <4>2, <4>3, <4>4 DEF Placed, InPadding
      <3> QED BY <3>4, <3>5
    <2> QED BY <2>1, <2>2
  <1>27. ReaderTyped'
    <2>1. buffer' \in Seq(Unit)
      BY <1>2, <1>10, <1>15, SequenceRest
    <2>2. text' \in Seq(Symbols)
      <3>1. text \o portion \in Seq(Symbols) /\ <<>> \in Seq(Symbols)
        BY <1>2, <1>17, ConcatProperties
      <3>2. format = "cvd" /\ Requested(archive[m].name) => split.open \in Seq(Symbols)
        BY <1>19 DEF Splits
      <3> QED BY <1>2, <1>15, <3>1, <3>2
    <2>3. remaining' \in Nat
      BY <1>10, <1>24
    <2>4. lines' \in Seq(Seq(Symbols))
      BY <1>2, <1>15, <1>19
    <2> QED BY <1>2, <1>16, <2>1, <2>2, <2>3, <2>4 DEF ReaderInv, ReaderTyped
  <1>28. BetweenChunks'
    BY <1>16 DEF BetweenChunks
  <1>29. m \in 0..Len(archive')
    BY <1>16
  <1> QED BY <1>26, <1>27, <1>28, <1>29 DEF ReaderInv, ReaderPlaced
-----------------------------------------------------------------------------
(* What the invariant says.                                                *)
(* No step of the reader leaves its invariant.                             *)
LEMMA ReaderStep == ReaderInv /\ FaNext => ReaderInv'
  BY ChunkStep, LoopEndsStep, EndBlockStep, HeaderStep, BadHeaderStep, FileContentStep,
     SkipPaddingStep, StreamEndsStep DEF FaNext

(* The reader keeps its invariant in the whole subsystem.                  *)
LEMMA ReaderInvariance == ThreatSpec => []ReaderInv
  <1>1. ThreatInit => ReaderInv
    BY ReaderBegins DEF ThreatInit
  <1>2. ReaderInv /\ [ThreatNext]_threatVars => ReaderInv'
    <2> SUFFICES ASSUME ReaderInv, [ThreatNext]_threatVars PROVE ReaderInv'
      OBVIOUS
    <2>1. CASE FaNext
      BY <2>1, ReaderStep
    <2>2. CASE UNCHANGED archiveVars
      <3>1. UNCHANGED <<format, archive, cut, rest, reader>> /\ outcome' = outcome
        BY <2>2 DEF archiveVars
      <3>2. ReaderPlaced' /\ ReaderTyped'
        BY <3>1, Stands DEF ReaderInv, ReaderTyped
      <3>3. BetweenChunks'
        BY <3>1 DEF reader, ReaderInv, BetweenChunks
      <3> QED BY <3>2, <3>3 DEF ReaderInv
    <2> QED BY <2>1, <2>2 DEF ThreatNext, threatVars
  <1> HIDE DEF ReaderInv
  <1> QED BY <1>1, <1>2, PTL DEF ThreatSpec

(* The invariant gives the types of the locals.                            *)
LEMMA ReaderTypes == ReaderInv => ArchiveTypeOK
  <1> SUFFICES ASSUME ReaderInv PROVE ArchiveTypeOK
    OBVIOUS
  <1>1. PICK m \in 0..Len(archive) : Placed(m)
    BY DEF ReaderInv, ReaderPlaced
  <1>2. mode \in {"header", "file", "padding"} /\ (mode = "padding" => padding > 0)
    BY <1>1 DEF Placed, AtHeader, PastTheEnd, InPadding, InFile
  <1>3. outcome = "reading" => Len(buffer) < Block
    BY DEF ReaderInv, BetweenChunks
  <1> QED BY <1>2, <1>3, FileLeft DEF ReaderInv, ReaderTyped, ArchiveTypeOK

(* The members that arrived are the first ones.                            *)
LEMMA EndIsBound ==
  ASSUME archive \in Archives, NEW m \in 1..Len(archive)
  PROVE  EndOf(m) = Bound(archive, m) - Padding(Len(archive[m].content))
  BY DEF EndOf, Bound

(* A member before one that ends before the cut does so too.               *)
LEMMA EndsBefore ==
  ASSUME NEW bm \in Nat, NEW pm \in Nat, NEW b \in Nat, NEW bl \in Nat, NEW size \in Nat,
         NEW pad \in Nat, NEW end \in Nat, bm <= b, (b + bl + size + pad) - pad <= end
  PROVE  bm - pm <= end
  OBVIOUS

(* A later member ends after the cut.                                      *)
LEMMA EndsAfter ==
  ASSUME NEW bd \in Nat, NEW b \in Nat, NEW bl \in Nat, NEW size \in Nat,
         NEW pad \in Nat, NEW end \in Nat, bd <= b, end < bd + bl
  PROVE  ~((b + bl + size + pad) - pad <= end)
  OBVIOUS

(* A reader that is done with d members has those that arrived.            *)
LEMMA FirstArrived ==
  ASSUME archive \in Archives, NEW d \in 0..Len(archive), cut \in Nat,
         d # 0 => Bound(archive, d) - Padding(Len(archive[d].content)) <= cut,
         d # Len(archive) => cut < Bound(archive, d) + Block
  PROVE  Arrived = 1..d
  <1>1. PICK a \in Archives, N \in Nat, end \in Nat, bl \in Nat :
          a = archive /\ N = Len(a) /\ end = cut /\ bl = Block
    BY ArchivesAssumption, BlockAssumption
  <1>2. DOMAIN a = 1..N
    BY <1>1, ArchivesAssumption
  <1>3. d \in 0..N
    BY <1>1
  <1>4. \A m \in 1..N :
          /\ Padding(Len(a[m].content)) \in Nat /\ Len(a[m].content) \in Nat
          /\ Bound(a, m - 1) \in Nat /\ Bound(a, m) \in Nat
          /\ Bound(a, m) = Bound(a, m - 1) + bl + Len(a[m].content) + Padding(Len(a[m].content))
          /\ EndOf(m) = Bound(a, m) - Padding(Len(a[m].content))
    <2>1. \A k \in 0..(Block - 1) : k \in Nat
      BY BlockAssumption
    <2> QED BY <1>1, <2>1, Bounds, EndIsBound
  <1>5. \A m, n \in 0..N : m <= n => Bound(a, m) <= Bound(a, n)
    BY <1>1, Layout
  <1>6. /\ d # 0 => Bound(a, d) - Padding(Len(a[d].content)) <= end
        /\ d # N => end < Bound(a, d) + bl
    BY <1>1
  <1>7. ASSUME NEW m \in 1..d PROVE m \in 1..N /\ EndOf(m) <= end
    <2>1. m \in 1..N /\ m \in 0..N /\ d \in 1..N /\ d # 0 /\ d - 1 \in 0..N /\ m <= d
      BY <1>3
    <2>2. CASE m = d
      BY <1>4, <1>6, <2>1, <2>2
    <2>3. CASE m # d
      <3>1. m <= d - 1
        BY <2>1, <2>3
      <3>2. Bound(a, m) <= Bound(a, d - 1)
        BY <1>5, <2>1, <3>1
      <3>3. PICK bm \in Nat, pm \in Nat, b \in Nat, size \in Nat, pad \in Nat :
              /\ bm = Bound(a, m) /\ pm = Padding(Len(a[m].content))
              /\ b = Bound(a, d - 1) /\ size = Len(a[d].content)
              /\ pad = Padding(Len(a[d].content)) /\ Bound(a, d) = b + bl + size + pad
        <4>1. Bound(a, m) \in Nat /\ Padding(Len(a[m].content)) \in Nat
          BY <1>4, <2>1
        <4>2. /\ Bound(a, d - 1) \in Nat /\ Len(a[d].content) \in Nat
              /\ Padding(Len(a[d].content)) \in Nat
              /\ Bound(a, d) = Bound(a, d - 1) + bl + Len(a[d].content)
                                + Padding(Len(a[d].content))
          BY <1>4, <2>1
        <4> QED BY <4>1, <4>2
      <3>4. bm - pm <= end
        <4>1. bm <= b
          BY <3>2, <3>3
        <4>2. (b + bl + size + pad) - pad <= end
          BY <1>6, <2>1, <3>3
        <4> QED BY <4>1, <4>2, EndsBefore
      <3> QED BY <1>4, <2>1, <3>3, <3>4
    <2> QED BY <2>2, <2>3
  <1>8. ASSUME NEW m \in 1..N, ~(m \in 1..d) PROVE ~(EndOf(m) <= end)
    <2>1. d # N /\ m - 1 \in 0..N /\ d <= m - 1 /\ d \in 0..N
      BY <1>3, <1>8
    <2>2. Bound(a, d) <= Bound(a, m - 1)
      BY <1>5, <2>1
    <2>3. PICK bd \in Nat, b \in Nat, size \in Nat, pad \in Nat :
            /\ bd = Bound(a, d) /\ b = Bound(a, m - 1) /\ size = Len(a[m].content)
            /\ pad = Padding(Len(a[m].content)) /\ Bound(a, m) = b + bl + size + pad
      <3>1. Bound(a, d) \in Nat
        BY <1>1, <2>1, Layout
      <3> QED BY <1>4, <3>1
    <2>4. ~((b + bl + size + pad) - pad <= end)
      BY <1>6, <2>1, <2>2, <2>3, EndsAfter
    <2> QED BY <1>4, <2>3, <2>4
  <1>9. Arrived = {m \in 1..N : EndOf(m) <= end}
    BY <1>1, <1>2 DEF Arrived
  <1> QED BY <1>7, <1>8, <1>9

(* So their lines are all lines,                                           *)
LEMMA LinesAreAll ==
  ASSUME NEW d \in Nat, Arrived = 1..d
  PROVE  AllLines = LinesOfFirst(archive, d)
  <1>1. Cardinality(1..d) = d
    <2>1. 1 \in Int /\ d \in Int
      OBVIOUS
    <2>2. Cardinality(1..d) = IF 1 > d THEN 0 ELSE d - 1 + 1
      BY <2>1, FS_Interval
    <2> QED BY <2>2
  <1>2. \A k \in 1..d : LinesOf(k) = MemberLines(archive[k])
    BY DEF LinesOf, MemberLines
  <1>3. [k \in 1..d |-> LinesOf(k)] = [k \in 1..d |-> MemberLines(archive[k])]
    BY <1>2
  <1>4. Cardinality(Arrived) = d
    BY <1>1
  <1> QED BY <1>3, <1>4 DEF AllLines, LinesOfFirst

(* and their files are all files.                                          *)
LEMMA FilesAreAll ==
  ASSUME NEW d \in Nat, Arrived = 1..d
  PROVE  ArrivedFiles = FilesOfFirst(archive, d)
  <1>1. \A k : ~Superseded(k) <=> LastOfName(archive, d, k)
    BY DEF Superseded, LastOfName
  <1>2. {k \in Arrived : Requested(archive[k].name) /\ ~Superseded(k)}
          = {k \in 1..d : Requested(archive[k].name) /\ LastOfName(archive, d, k)}
    BY <1>1
  <1> QED BY <1>2 DEF ArrivedFiles, FilesOfFirst

(* What an accepted stream has given.                                      *)
LEMMA ReaderReads == ReaderInv => ParsedIsTheArchive
  <1> SUFFICES ASSUME ReaderInv, outcome = "done"
               PROVE  IF format = "cvd" THEN PlainLines(lines) = AllLines
                      ELSE found = ArrivedFiles /\ {f[1] : f \in found} = RequestedFiles
    BY DEF ParsedIsTheArchive
  <1>1. PICK m \in 0..Len(archive) : Placed(m)
    BY DEF ReaderInv, ReaderPlaced
  <1>2. /\ archive \in Archives /\ buffer \in Seq(Unit) /\ cut \in 0..Len(Stream(archive))
        /\ format \in {"cvd", "tgz"} /\ padding \in 0..(Block - 1)
        /\ Block \in Nat /\ Len(archive) \in Nat
    BY ArchivesAssumption, BlockAssumption DEF ReaderInv, ReaderTyped
  <1>3. /\ Len(buffer) < Block /\ (mode # "header" => buffer = <<>>)
        /\ rest = <<>> /\ mode # "file"
        /\ format = "tgz" => {f[1] : f \in found} = RequestedFiles
    BY DEF ReaderInv, BetweenChunks
  <1>4. PICK bl \in Nat, end \in Nat, lb \in Nat, N \in Nat, bm \in Nat, q \in Nat :
          /\ bl = Block /\ end = cut /\ lb = Len(buffer) /\ N = Len(archive)
          /\ bm = Bound(archive, m) /\ q = padding
    <2>1. Len(Stream(archive)) \in Nat
      BY <1>2, Layout
    <2>2. cut \in Nat /\ padding \in Nat /\ Len(buffer) \in Nat
      BY <1>2, <2>1
    <2>3. Bound(archive, m) \in Nat
      BY <1>2, Layout
    <2> QED BY <1>2, <2>2, <2>3
  <1>5. Len(rest) = 0
    BY <1>3
  <1>6. ASSUME m # 0
        PROVE  \E pad \in Nat : pad = Padding(Len(archive[m].content))
    <2>1. m \in 1..Len(archive)
      BY <1>2, <1>6
    <2>2. \A k \in 0..(Block - 1) : k \in Nat
      BY <1>2
    <2> QED BY <1>2, <2>1, <2>2, Bounds
  <1>7. /\ Delivered(m)
        /\ m # 0 => bm - Padding(Len(archive[m].content)) <= end
        /\ m # N => end < bm + bl
    <2>1. CASE AtHeader(m)
      <3>1. bm + lb + 0 = end
        BY <1>4, <1>5, <2>1 DEF AtHeader, Ahead
      <3>2. m # 0 => bm - Padding(Len(archive[m].content)) <= end
        BY <1>6, <3>1
      <3>3. end < bm + bl
        <4>1. lb < bl
          BY <1>3, <1>4
        <4> QED BY <3>1, <4>1
      <3> QED BY <2>1, <3>2, <3>3 DEF AtHeader
    <2>2. CASE PastTheEnd(m)
      <3>1. m = N /\ bm <= end
        BY <1>4, <2>2 DEF PastTheEnd
      <3>2. m # 0 => bm - Padding(Len(archive[m].content)) <= end
        BY <1>6, <3>1
      <3> QED BY <2>2, <3>1, <3>2 DEF PastTheEnd
    <2>3. CASE InPadding(m)
      <3>1. lb = 0
        BY <1>3, <1>4, <2>3 DEF InPadding
      <3>2. (bm - q) + lb + 0 = end
        BY <1>4, <1>5, <2>3 DEF InPadding, Ahead
      <3>3. m # 0 /\ q > 0 /\ q <= Padding(Len(archive[m].content))
        BY <1>4, <2>3 DEF InPadding
      <3>4. PICK pad \in Nat : pad = Padding(Len(archive[m].content))
        BY <1>6, <3>3
      <3>5. bm - pad <= end
        BY <3>1, <3>2, <3>3, <3>4
      <3>6. end < bm + bl
        BY <3>1, <3>2, <3>3
      <3> QED BY <2>3, <3>4, <3>5, <3>6 DEF InPadding
    <2> QED BY <1>1, <1>3, <2>1, <2>2, <2>3 DEF Placed, InFile
  <1>8. Arrived = 1..m
    <2>1. cut \in Nat
      BY <1>4
    <2>2. /\ m # 0 => Bound(archive, m) - Padding(Len(archive[m].content)) <= cut
          /\ m # Len(archive) => cut < Bound(archive, m) + Block
      BY <1>4, <1>7
    <2> QED BY <1>2, <2>1, <2>2, FirstArrived
  <1>9. m \in Nat
    BY <1>2
  <1>10. AllLines = LinesOfFirst(archive, m) /\ ArrivedFiles = FilesOfFirst(archive, m)
    BY <1>8, <1>9, LinesAreAll, FilesAreAll
  <1> QED BY <1>2, <1>3, <1>7, <1>10 DEF Delivered

(* The types of an update, of the gateway and of a reader, for every       *)
(* archive and every way to cut its stream into chunks: between two chunks *)
(* a reader holds less than one header (consumeBuffer's remainder in       *)
(* parseClamCvd and extractTarTextFiles).                                  *)
THEOREM IntelTypes == ThreatSpec => []IntelTypeOK
  BY UpdateTypes, ReaderInvariance, ReaderTypes, PTL DEF IntelTypeOK

(* For every archive, wherever its stream ends and however it is cut into  *)
(* chunks, a stream that is accepted gave the lines of the signature files *)
(* that arrived, each once and in order, untouched but for characters      *)
(* outside ASCII, which a chunk that ends inside them replaces             *)
(* (parseClamCvd), or every requested file, whole and decoded as a whole   *)
(* (extractTarTextFiles).                                                  *)
THEOREM ArchiveIsParsed == ThreatSpec => []ParsedIsTheArchive
  BY ReaderInvariance, ReaderReads, PTL
=============================================================================
