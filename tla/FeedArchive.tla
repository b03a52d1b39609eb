----------------------------- MODULE FeedArchive -----------------------------
(***************************************************************************)
(* The two streaming TAR readers of src/lib/threat-feeds.js: parseClamCvd  *)
(* ("cvd": the lines of the signature files) and extractTarTextFiles       *)
(* ("tgz": the requested files).  The decompressed stream arrives in       *)
(* chunks of any length and may end early.  parseClamCvd decodes the part  *)
(* of a file in each chunk on its own, extractTarTextFiles a whole file at *)
(* once, so that a chunk that ends inside a character changes what the     *)
(* first one reads, and nothing else may.  A unit stands for a byte, a     *)
(* block has Block units, a header fills one block.                        *)
(***************************************************************************)
EXTENDS Integers, Sequences, SequencesExt, FiniteSets

CONSTANTS
  Block,      \* units in a block (512 bytes)
  Names, Symbols,
  Leads, Trails,  \* the bytes that begin and that end a character outside ASCII
  MaximumBytes,   \* what a requested file may have (extractTarTextFiles)
  Archives,   \* sequences of members
  RequestedFiles \* the names the reader wants

\* A member of an archive: "nl" in its content ends a line, "bad" is the
\* replacement character.  What is wrong with a header that is not sound: its
\* checksum, or its size.
Members == [name : Names, content : Seq(Symbols), header : {"sound", "checksum", "size"}]

ASSUME BlockAssumption == Block \in Nat \ {0}
ASSUME DecodingAssumption == "nl" \notin Leads \cup Trails /\ "bad" \in Symbols
ASSUME ArchivesAssumption == \A a \in Archives : a \in Seq(Members)

Requested(name) == name \in RequestedFiles

Padding(size) == (Block - (size % Block)) % Block
Units(u, n) == [k \in 1..n |-> u]
Encoded(member) ==
  [k \in 1..Block |-> [unit |-> "header", member |-> member, at |-> k]]
    \o [k \in 1..Len(member.content) |-> [unit |-> member.content[k]]]
    \o Units([unit |-> "pad"], Padding(Len(member.content)))
Stream(archive) ==
  FlattenSeq([m \in 1..Len(archive) |-> Encoded(archive[m])])
    \o Units([unit |-> "zero"], 2 * Block)

VARIABLES
  format,     \* "cvd" or "tgz"
  archive,    \* what was packed
  cut,        \* units of the stream there will be
  rest,       \* units of the stream that have not arrived
  buffer, mode, member, remaining, padding,   \* the reader's locals
  text,       \* textRemainder ("cvd") or the joined chunks ("tgz")
  lines,      \* signature lines delivered, in order ("cvd")
  found,      \* requested files delivered ("tgz"): <<name, content>>
  outcome     \* "reading", "parsing", "done", "failed"

reader == <<buffer, mode, member, remaining, padding, text, lines, found>>
archiveVars == <<format, archive, cut, rest, reader, outcome>>

NoMember == [name |-> "none", content |-> <<>>, header |-> "size"]

FaInit ==
  /\ format \in {"cvd", "tgz"} /\ archive \in Archives
  /\ cut \in 0..Len(Stream(archive)) /\ rest = SubSeq(Stream(archive), 1, cut)
  /\ buffer = <<>> /\ mode = "header" /\ member = NoMember
  /\ remaining = 0 /\ padding = 0
  /\ text = <<>> /\ lines = <<>> /\ found = {} /\ outcome = "reading"

\* The next chunk is joined to what the loop left.
Chunk ==
  /\ outcome = "reading" /\ rest # <<>>
  /\ \E n \in 1..Len(rest) :
       /\ buffer' = buffer \o SubSeq(rest, 1, n)
       /\ rest' = SubSeq(rest, n + 1, Len(rest))
  /\ outcome' = "parsing"
  /\ UNCHANGED <<format, archive, cut, mode, member, remaining, padding, text, lines, found>>

ShortHeader == mode = "header" /\ Len(buffer) < Block

\* The loop leaves a header that is not complete for the next chunk.
LoopEnds ==
  /\ outcome = "parsing" /\ (buffer = <<>> \/ ShortHeader)
  /\ outcome' = "reading"
  /\ UNCHANGED <<format, archive, cut, rest, reader>>

Skip(n) == SubSeq(buffer, n + 1, Len(buffer))
IsZero(u) == u.unit = "zero"
Put(name, content) == {f \in found : f[1] # name} \cup {<<name, content>>}
AfterContent(pad) == IF pad = 0 THEN "header" ELSE "padding"

\* A block of zeros ends the archive: the rest of the chunk is dropped.
EndBlock ==
  /\ outcome = "parsing" /\ mode = "header" /\ Len(buffer) >= Block
  /\ \A k \in 1..Block : IsZero(buffer[k])
  /\ buffer' = <<>>
  /\ UNCHANGED <<format, archive, cut, rest, mode, member, remaining, padding, text,
                 lines, found, outcome>>

\* parseClamCvd does not look at the checksum and has no limit.
IsHeader == \A k \in 1..Block : buffer[k].unit = "header" /\ buffer[k].at = k
Readable(m) ==
  IF format = "cvd" THEN m.header # "size"
  ELSE m.header = "sound" /\ (Requested(m.name) => Len(m.content) <= MaximumBytes)

Header ==
  /\ outcome = "parsing" /\ mode = "header" /\ Len(buffer) >= Block
  /\ IsHeader /\ Readable(buffer[1].member)
  /\ LET m == buffer[1].member
         size == Len(m.content)
     IN /\ member' = m /\ remaining' = size /\ padding' = Padding(size)
        /\ mode' = IF size = 0 THEN AfterContent(Padding(size)) ELSE "file"
        /\ found' = IF format = "tgz" /\ size = 0 /\ Requested(m.name)
                    THEN Put(m.name, <<>>) ELSE found
  /\ buffer' = Skip(Block) /\ text' = <<>>
  /\ UNCHANGED <<format, archive, cut, rest, lines, outcome>>

\* Anything else where a header is expected, a size or a checksum that does
\* not parse, a requested file that is too large.
BadHeader ==
  /\ outcome = "parsing" /\ mode = "header" /\ Len(buffer) >= Block
  /\ ~ \A k \in 1..Block : IsZero(buffer[k])
  /\ ~(IsHeader /\ Readable(buffer[1].member))
  /\ outcome' = "failed"
  /\ UNCHANGED <<format, archive, cut, rest, reader>>

\* Bytes decoded: a character outside ASCII has two, and one that is not
\* followed, or not preceded, by the other becomes a replacement character.
Cut(t, k) ==
  \/ t[k] \in Leads /\ ~(k < Len(t) /\ t[k + 1] \in Trails)
  \/ t[k] \in Trails /\ ~(k > 1 /\ t[k - 1] \in Leads)
Decode(t) == [k \in 1..Len(t) |-> IF Cut(t, k) THEN "bad" ELSE t[k]]

\* What a text, read to its end, has given: its complete lines, and the one
\* it leaves open.  An empty line is no signature.
Line(l) == IF l = <<>> THEN <<>> ELSE <<l>>
NoText == [complete |-> <<>>, open |-> <<>>]
Consumed(before, u) ==
  IF u = "nl" THEN [complete |-> before.complete \o Line(before.open), open |-> <<>>]
  ELSE [complete |-> before.complete, open |-> Append(before.open, u)]
SplitLines(t) ==
  LET upTo[n \in 0..Len(t)] == IF n = 0 THEN NoText ELSE Consumed(upTo[n - 1], t[n])
  IN upTo[Len(t)]
Closed(split) == split.complete \o Line(split.open)

\* A mutant of FileContent: a line ends where the chunk ends.
LinesPerChunk ==
  /\ outcome = "parsing" /\ mode = "file" /\ buffer # <<>>
  /\ LET take == IF remaining < Len(buffer) THEN remaining ELSE Len(buffer)
         portion == [k \in 1..take |-> buffer[k].unit]
         ends == remaining = take
         wanted == Requested(member.name)
     IN /\ remaining' = remaining - take /\ buffer' = Skip(take)
        /\ mode' = IF ends THEN AfterContent(padding) ELSE "file"
        /\ text' = IF wanted /\ format = "tgz" THEN text \o portion ELSE text
        /\ lines' = IF format = "tgz" \/ ~wanted THEN lines
                    ELSE lines \o Closed(SplitLines(Decode(portion)))
        /\ found' = IF format = "tgz" /\ wanted /\ ends
                    THEN Put(member.name, Decode(text \o portion)) ELSE found
  /\ UNCHANGED <<format, archive, cut, rest, member, padding, outcome>>

\* consumeText joins the decoded portion to the remainder of the text.
FileContent ==
  /\ outcome = "parsing" /\ mode = "file" /\ buffer # <<>>
  /\ LET take == IF remaining < Len(buffer) THEN remaining ELSE Len(buffer)
         portion == [k \in 1..take |-> buffer[k].unit]
         split == SplitLines(text \o Decode(portion))
         ends == remaining = take
         wanted == Requested(member.name)
     IN /\ remaining' = remaining - take /\ buffer' = Skip(take)
        /\ mode' = IF ends THEN AfterContent(padding) ELSE "file"
        /\ text' = IF ~wanted THEN text
                   ELSE IF format = "tgz" THEN text \o portion
                   ELSE IF ends THEN <<>> ELSE split.open
        /\ lines' = IF format = "tgz" \/ ~wanted THEN lines
                    ELSE lines \o (IF ends THEN Closed(split) ELSE split.complete)
        /\ found' = IF format = "tgz" /\ wanted /\ ends
                    THEN Put(member.name, Decode(text \o portion)) ELSE found
  /\ UNCHANGED <<format, archive, cut, rest, member, padding, outcome>>

SkipPadding ==
  /\ outcome = "parsing" /\ mode = "padding" /\ buffer # <<>>
  /\ LET take == IF padding < Len(buffer) THEN padding ELSE Len(buffer)
     IN /\ padding' = padding - take /\ buffer' = Skip(take)
        /\ mode' = IF padding = take THEN "header" ELSE "padding"
  /\ UNCHANGED <<format, archive, cut, rest, member, remaining, text, lines, found, outcome>>

\* End of the stream: a file cut short is refused, and with "tgz" a
\* requested file that did not come.
StreamEnds ==
  /\ outcome = "reading" /\ rest = <<>>
  /\ outcome' = IF \/ mode = "file" /\ remaining > 0
                   \/ format = "tgz" /\ {f[1] : f \in found} # RequestedFiles
                THEN "failed" ELSE "done"
  /\ UNCHANGED <<format, archive, cut, rest, reader>>

FaNext == \/ Chunk \/ LoopEnds \/ EndBlock \/ Header \/ BadHeader
          \/ FileContent \/ SkipPadding \/ StreamEnds
-----------------------------------------------------------------------------
(* The reader's locals; between two chunks it holds less than a header, so  *)
(* that the memory it needs does not grow with the archive.                *)
ArchiveTypeOK ==
  /\ format \in {"cvd", "tgz"} /\ archive \in Archives
  /\ mode \in {"header", "file", "padding"}
  /\ outcome \in {"reading", "parsing", "done", "failed"}
  /\ remaining >= 0 /\ padding \in 0..(Block - 1)
  /\ mode = "file" => remaining > 0
  /\ mode = "padding" => padding > 0
  /\ outcome = "reading" => Len(buffer) < Block

(* The members whose content lies wholly in the part of the stream that    *)
(* arrived; the lines of a member that was asked for, whatever characters  *)
(* outside ASCII stand for.  Of two members of one name the later one is   *)
(* the file.                                                               *)
EndOf(m) ==
  Len(FlattenSeq([k \in 1..m |-> Encoded(archive[k])])) - Padding(Len(archive[m].content))
Arrived == {m \in DOMAIN archive : EndOf(m) <= cut}
Plain(u) == IF u \in Leads \cup Trails THEN "bad" ELSE u
PlainText(t) == [k \in 1..Len(t) |-> Plain(t[k])]
PlainLines(ls) == [k \in 1..Len(ls) |-> PlainText(ls[k])]
LinesOf(m) ==
  IF Requested(archive[m].name) THEN Closed(SplitLines(PlainText(archive[m].content)))
  ELSE <<>>
AllLines == FlattenSeq([m \in 1..Cardinality(Arrived) |-> LinesOf(m)])
Superseded(m) == \E later \in Arrived : later > m /\ archive[later].name = archive[m].name
ArrivedFiles ==
  {<<archive[m].name, Decode(archive[m].content)>> :
     m \in {k \in Arrived : Requested(archive[k].name) /\ ~Superseded(k)}}

(* Wherever the chunks are cut, a stream that is accepted gave the lines   *)
(* of the signature files that arrived, each once and in order             *)
(* (parseClamCvd: characters outside ASCII may have become replacement     *)
(* characters, the rest of a line, its hash and its size, is untouched),   *)
(* or the requested files, every one of them and whole                     *)
(* (extractTarTextFiles): a file cut short, or a line split over two       *)
(* chunks, never shows.                                                    *)
ParsedIsTheArchive ==
  outcome = "done" =>
    IF format = "cvd" THEN PlainLines(lines) = AllLines
    ELSE found = ArrivedFiles /\ {f[1] : f \in found} = RequestedFiles
=============================================================================
