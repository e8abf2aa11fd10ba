----------------------------- MODULE WireNumbers -----------------------------
(***************************************************************************)
(* Two numbers that are written in a varying number of bytes or groups of  *)
(* bits and read back by other code: the chunk stream id in the basic      *)
(* header of a chunk (protocol/rtmp/chunk.go) and the length of an MPEG-4  *)
(* descriptor (container/mp4/tag.go).  Each number is written into a       *)
(* stream that goes on behind it, and read from that stream.               *)
(***************************************************************************)
EXTENDS Integers, Sequences, Bitwise

CONSTANTS
    ChunkStreamIds,   \* the chunk stream ids written
    TagLengths        \* the descriptor lengths written

VARIABLES
    kind,             \* "chunk" or "tag"
    format,           \* the format bits of the basic header
    number,           \* the number that is written
    stream,           \* the bytes that are there to be read
    got               \* the format and the number that were read, none before that

vars == <<kind, format, number, stream, got>>

\* What follows in the stream, a byte of no meaning here.
Behind == <<170>>

Init ==
    /\ \/ kind = "chunk" /\ format \in 0 .. 3 /\ number \in ChunkStreamIds
       \/ kind = "tag" /\ format = 0 /\ number \in TagLengths
    /\ stream = <<>>
    /\ got = <<>>

byte(n) == n % 256

-----------------------------------------------------------------------------
serializerChunkBasicHeader(fmt, csid) ==
    LET h == byte(fmt * 64)
        low == csid - 63
    IN  CASE csid < 64 -> <<h | csid>>
          [] csid \in 64 .. 319 -> <<h, byte(csid - 63)>>
          [] OTHER -> <<byte(h + 1), byte(low - 63), byte(low), byte(low \div 256)>>

\* The header read from s: [format, csid, size], size the bytes it took.
getChunkBasicHeader(s) ==
    LET low == s[1] & 63
        rest == CASE low = 0 -> [csid |-> s[2] + 64, size |-> 2]
                  [] low = 1 -> [csid |-> s[2] * 256 + s[3] + 64, size |-> 3]
                  [] OTHER -> [csid |-> low, size |-> 1]
    IN  [format |-> shiftR(s[1], 6), number |-> rest.csid, size |-> rest.size]

\* The length of a descriptor: 28 bits in four groups of seven, all but the last one marked.
BaseDescriptorLength(size) ==
    [i \in 1 .. 4 |-> ((size \div 128 ^ (4 - i)) % 128) + IF i < 4 THEN 128 ELSE 0]

getTagLength(s) ==
    LET part(i) == (s[i] & 127) * IF (s[i] & 128) > 0 THEN 128 ELSE 1
    IN  part(1) | part(2) | part(3) | part(4)

Write ==
    /\ stream = <<>>
    /\ stream' = (IF kind = "chunk" THEN serializerChunkBasicHeader(format, number)
                  ELSE BaseDescriptorLength(number)) \o Behind
    /\ UNCHANGED <<kind, format, number, got>>

ReadChunk ==
    /\ kind = "chunk" /\ stream # <<>> /\ got = <<>>
    /\ LET h == getChunkBasicHeader(stream)
       IN  /\ got' = <<h.format, h.number>>
           /\ stream' = SubSeq(stream, h.size + 1, Len(stream))
    /\ UNCHANGED <<kind, format, number>>
ReadTag ==
    /\ kind = "tag" /\ stream # <<>> /\ got = <<>>
    /\ got' = <<0, getTagLength(stream)>>
    /\ stream' = SubSeq(stream, 5, Len(stream))
    /\ UNCHANGED <<kind, format, number>>

Finished == got # <<>> /\ UNCHANGED vars

Next == Write \/ ReadChunk \/ ReadTag \/ Finished
Spec == Init /\ [][Next]_vars

-----------------------------------------------------------------------------
(***************************************************************************)
(* What was written is read back (getChunkBasicHeader, getTagLength), and  *)
(* the reader is left where the writer stopped: at the bytes behind it.    *)
(***************************************************************************)
ReadsBack == got # <<>> => got = <<format, number>> /\ stream = Behind
=============================================================================
