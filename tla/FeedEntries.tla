----------------------------- MODULE FeedEntries -----------------------------
(***************************************************************************)
(* What the client makes of a downloaded feed (src/lib/threat-feeds.js):   *)
(* each provider's parser keeps the items it can use as entries of the     *)
(* hash table or of the network table, drops the others, and refuses some  *)
(* answers as a whole.  An item is known by its kind, its value, whether   *)
(* the value has the format of its kind, and whether MISP marks it for     *)
(* detection.                                                              *)
(***************************************************************************)
EXTENDS FiniteSets, Naturals

HashKinds == {"md5", "sha1", "sha256"}
MispSources == {"misp-circl", "misp-botvrij"}
FeedSources == {"clamav", "lmd", "malwarebazaar", "urlhaus", "feodotracker", "threatfox",
                "spamhaus-drop"} \cup MispSources
RequiresAuth == {"malwarebazaar", "urlhaus", "threatfox"}
Replaced == {"clamav", "feodotracker", "spamhaus-drop", "lmd"}
Expiring == {"threatfox"} \cup MispSources

HashEntry(i, confirmed) ==
  [table |-> "hash", type |-> i.kind, value |-> i.value, well |-> i.well,
   marked |-> i.marked, confirmed |-> confirmed]
IocEntry(i, type) ==
  [table |-> "ioc", type |-> type, value |-> i.value, well |-> i.well,
   marked |-> i.marked, confirmed |-> FALSE]

\* ClamAV's .hdb/.hsb lines, the SHA-256 lines of Linux Malware Detect.
ClamHashes(items) ==
  {HashEntry(i, TRUE) : i \in {j \in items : j.kind \in HashKinds /\ j.well}}
LinuxMalwareDetectEntries(items) ==
  {HashEntry(i, TRUE) : i \in {j \in items : j.kind = "sha256" /\ j.well}}

\* MalwareBazaar confirms; URLhaus only reports, without SHA-1.
MalwareBazaarEntries(items) ==
  {HashEntry(i, TRUE) : i \in {j \in items : j.kind \in HashKinds /\ j.well}}
UrlhausEntries(items) ==
  {HashEntry(i, FALSE) :
     i \in {j \in items : j.kind \in {"sha256", "md5"} /\ j.well}}

FeodoTrackerEntries(items) ==
  {IocEntry(i, "ip") : i \in {j \in items : j.kind = "ip" /\ j.well}}
SpamhausDropEntries(items) ==
  {IocEntry(i, "cidr") : i \in {j \in items : j.kind = "cidr" /\ j.well}}

\* A value without the length of a hash stays an indicator of its own type;
\* domains are taken as they are.
ThreatFoxEntries(items) ==
  LET Hash(i) == i.kind \in HashKinds /\ i.well
      Refused(i) == i.kind \in {"ip", "ip:port", "url"} /\ ~i.well
  IN {HashEntry(i, TRUE) : i \in {j \in items : Hash(j)}}
       \cup {IocEntry(i, i.kind) : i \in {j \in items : ~Hash(j) /\ ~Refused(j)}}

\* A mutant of MispEntries: to_ids and deleted are not looked at.
MispAnyAttribute(items) ==
  {HashEntry(i, TRUE) : i \in {j \in items : j.well /\ j.kind \in HashKinds}}
    \cup {IocEntry(i, i.kind) : i \in {j \in items : j.well /\ j.kind \notin HashKinds}}

\* Only attributes marked for detection and not deleted.  A "domain|ip"
\* attribute stands here as two items: each half is parsed on its own.
MispEntries(items) ==
  LET usable == {i \in items : i.marked /\ i.well}
      network == {"ip", "cidr", "domain", "url", "ip:port"}
  IN {HashEntry(i, TRUE) : i \in {j \in usable : j.kind \in HashKinds}}
       \cup {IocEntry(i, i.kind) : i \in {j \in usable : j.kind \in network}}

Entries(source, items) ==
  CASE source = "clamav" -> ClamHashes(items)
    [] source = "lmd" -> LinuxMalwareDetectEntries(items)
    [] source = "malwarebazaar" -> MalwareBazaarEntries(items)
    [] source = "urlhaus" -> UrlhausEntries(items)
    [] source = "feodotracker" -> FeodoTrackerEntries(items)
    [] source = "threatfox" -> ThreatFoxEntries(items)
    [] source = "spamhaus-drop" -> SpamhausDropEntries(items)
    [] source \in MispSources -> MispEntries(items)

\* An answer that is not the provider's format is refused by every parser
\* but these, which may find nothing in it that they can use and return no
\* entry: Spamhaus and Linux Malware Detect skip the lines they do not know,
\* MISP what has no attributes.
AcceptsAnything == {"spamhaus-drop", "lmd"} \cup MispSources
=============================================================================
