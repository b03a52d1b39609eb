---------------------------- MODULE MCThreatIntel ----------------------------
(* Two processes of one device, one source or two enabled at a time, up to *)
(* two publications of each; archives of at most four members, blocks of   *)
(* three units, for TLC.                                                   *)
EXTENDS ThreatIntel

CONSTANTS p1, p2, k1

Item(kind, value, well, marked) ==
  [kind |-> kind, value |-> value, well |-> well, marked |-> marked]
Hash1 == Item("sha256", 1, TRUE, TRUE)
Hash2 == Item("sha256", 2, TRUE, FALSE)
BadHash == Item("md5", 3, FALSE, TRUE)
Net1 == Item("cidr", 4, TRUE, TRUE)
BadNet == Item("cidr", 5, FALSE, TRUE)
Ip1 == Item("ip", 6, TRUE, TRUE)
BadIp == Item("ip:port", 7, FALSE, TRUE)
Pair == {Item("domain", 8, TRUE, TRUE), Item("ip", 9, FALSE, TRUE)}

TwoPublications ==
  [s \in {"main", "daily", "lmd", "clamav", "malwarebazaar", "urlhaus", "feodotracker",
          "threatfox", "spamhaus-drop", "misp-circl"} |->
     CASE s = "main" -> <<{Hash1}>>
       [] s = "daily" -> <<{Hash1, BadHash}, {Hash2}>>
       [] s = "threatfox" -> <<{Hash1, BadIp}, {Ip1, BadHash}>>
       [] s \in {"lmd", "malwarebazaar", "urlhaus"} -> <<{Hash1, BadHash}>>
       [] s = "spamhaus-drop" -> <<{Net1, BadNet}>>
       [] s = "feodotracker" -> <<{Ip1, BadIp}, {}>>
       [] OTHER -> <<{Hash2, Net1}, Pair \cup {BadHash}>>]

Device(sources, hq, key) == [sources |-> sources, managed |-> hq, localKey |-> key]
DeviceConfigurations ==
  {Device(<<s>>, FALSE, FALSE) : s \in {"clamav", "lmd", "feodotracker", "misp-circl"}}
    \cup {Device(<<"urlhaus", "spamhaus-drop">>, FALSE, FALSE),
          Device(<<"malwarebazaar">>, TRUE, FALSE), Device(<<"threatfox">>, FALSE, TRUE)}
ThroughHq == {"threatfox", "malwarebazaar", "urlhaus"}
HqPayloads == [s \in ThroughHq |-> {0} \cup DOMAIN TwoPublications[s]]

M(name, content, header) == [name |-> name, content |-> content, header |-> header]
FiveArchives ==
  {<<M("a.hdb", <<"x", "nl", "y">>, "sound"), M("info", <<"z">>, "sound"),
     M("copying", <<>>, "sound"), M("b.hdb", <<"lead", "trail", "nl", "w">>, "sound")>>,
   <<M("b.hdb", <<>>, "sound"), M("a.hdb", <<"x", "nl">>, "sound"), M("a.hdb", <<"y">>, "sound")>>,
   <<M("a.hdb", <<"x", "nl">>, "checksum")>>,
   <<M("a.hdb", <<"x">>, "sound"), M("b.hdb", <<"y">>, "size")>>,
   <<M("b.hdb", <<"trail">>, "sound"), M("a.hdb", <<"x", "lead", "trail", "nl", "y">>, "sound")>>}
=============================================================================
