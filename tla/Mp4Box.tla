------------------------------- MODULE Mp4Box -------------------------------
(***************************************************************************)
(* The MP4 box tree of container/mp4: what Serialize writes and what Parse *)
(* reads of every box, in bytes.                                           *)
(*                                                                         *)
(* A tree is the sequence of its boxes in the order they lie in the file   *)
(* (a box before the boxes in it), each one a record                       *)
(*   type   the four-character type, or the name of a descriptor tag;      *)
(*   head   the bytes of its header: 8 of a Box, 5 of a BaseDescriptor;    *)
(*   size   what the header says of the whole box, header included;        *)
(*   bytes  what Serialize writes of the box itself, header included and   *)
(*          the boxes in it left out;                                      *)
(*   told   what Parse returns as read before it comes to the boxes in it  *)
(*          (of a leaf: all it returns), the header left out;              *)
(*   loop   how Parse looks for the boxes in it;                           *)
(*   n      the entry count it goes by, where it does;                     *)
(*   refusal  why Parse gives up on it: "no", "layout" or "depth";         *)
(*   depth  how deep the box lies in the tree.                             *)
(* Field values are left out: every field is as wide as the code makes it. *)
(***************************************************************************)
EXTENDS Integers, Sequences, SequencesExt

BOX_SIZE == 8
FULL_BOX_SIZE == 12
TAG_SIZE == 5

Total(s) == MapThenSumSet(LAMBDA i : s[i], DOMAIN s)

(***************************************************************************)
(* Trees.  Leaf and Node give a box the size it has on disk; Sized         *)
(* replaces it by what a builder of fmp4.go wrote into its Size.           *)
(***************************************************************************)
SizeOf(kids) == Total([i \in DOMAIN kids |-> IF kids[i].depth = 0 THEN kids[i].size ELSE 0])
BytesOf(tree) == Total([i \in DOMAIN tree |-> tree[i].bytes])
Nest(kids) == [i \in DOMAIN kids |-> [kids[i] EXCEPT !.depth = @ + 1]]

Node(type, head, own, loop, n, kids) ==
    <<[type |-> type, head |-> head, size |-> head + own + SizeOf(kids), bytes |-> head + own,
       told |-> own, loop |-> loop, n |-> n, refusal |-> "no", depth |-> 0]>> \o Nest(kids)
Leaf(type, body) == Node(type, BOX_SIZE, body, "leaf", 0, <<>>)
FullLeaf(type, body) == Leaf(type, 4 + body)
Tag(type, body) == Node(type, TAG_SIZE, body, "leaf", 0, <<>>)
Sized(tree, size) == [tree EXCEPT ![1].size = size]

\* A box that only holds boxes, and one that starts with version, flags and a count.
SimpleBoxContainer(type, kids) == Node(type, BOX_SIZE, 0, "fill", 0, kids)
CountedContainer(type, loop, n, kids) == Node(type, BOX_SIZE, 8, loop, n, kids)

(***************************************************************************)
(* moov and what lies in it.  ver is the version of a FullBox: 64-bit      *)
(* times from version 1 on.                                                *)
(***************************************************************************)
MvhdBox(ver) == FullLeaf("mvhd", IF ver = 1 THEN 28 + 80 ELSE 16 + 80)
TkhdBox(ver) == FullLeaf("tkhd", IF ver = 1 THEN 32 + 60 ELSE 20 + 60)
ElstBox(ver, entries) == FullLeaf("elst", 4 + entries * (IF ver = 0 THEN 12 ELSE 20))
MdhdBox(ver) == FullLeaf("mdhd", IF ver = 0 THEN 20 ELSE 32)
HdlrBox(name) == FullLeaf("hdlr", 20 + name)
VmhdBox == FullLeaf("vmhd", 8)
SmhdBox == FullLeaf("smhd", 4)
DrefBox(kids, n) == CountedContainer("dref", "count", n, kids)

\* Mutant: the version and flags are forgotten of every url box.
ForgetfulUrlBox(flags, location) == [FullLeaf("url ", location) EXCEPT ![1].told = location]
\* Parse of a url box that is not self-contained forgets the version and flags it has read.
UrlBox(flags, location) ==
    LET url == FullLeaf("url ", location)
    IN  IF flags = 1 THEN url ELSE [url EXCEPT ![1].told = location]
\* Serialize of a urn box leaves version and flags out.
UrnBox(flags, name, location) ==
    [FullLeaf("urn ", name + location) EXCEPT ![1].bytes = BOX_SIZE + name + location,
                                              ![1].told = IF flags = 1 THEN 4 ELSE @]

StsdBox(kids, n) == CountedContainer("stsd", "rounds", n, kids)
SttsBox(entries) == FullLeaf("stts", 4 + entries * 8)
StscBox(entries) == FullLeaf("stsc", 4 + entries * 12)
StszBox(sampleSize, samples) == FullLeaf("stsz", 8 + IF sampleSize = 0 THEN samples * 4 ELSE 0)
StcoBox(entries) == FullLeaf("stco", 4 + entries * 4)
TrexBox == FullLeaf("trex", 20)
PaspBox == Leaf("pasp", 8)
UnsupporttedBox(type, raw) == Leaf(type, raw)
MetaBox(kids) == Node("meta", BOX_SIZE, 4, "fill", 0, kids)

\* The fixed part of a sample entry: SampleEntry, then the visual or the audio fields.
SampleEntry == 8
VisualSampleEntry == SampleEntry + 70
AudioSampleEntry == SampleEntry + 20
Avc1Box(kids) == Node("avc1", BOX_SIZE, VisualSampleEntry, "first", 0, kids)
Hev1Box(kids) == Node("hev1", BOX_SIZE, VisualSampleEntry, "first", 0, kids)
Mp4aBox(kids) == Node("mp4a", BOX_SIZE, AudioSampleEntry, "fill", 0, kids)

(***************************************************************************)
(* Decoder configuration records: parameter sets by their lengths.  c is   *)
(* [version, reserved, sps, pps, level, luma, chroma, ext]: reserved says  *)
(* whether the reserved fields of six and of three bits are all ones, luma *)
(* and chroma are the bit depths less 8, three bits each; they and ext,    *)
(* the extension sets, are there at four of the levels.  AVCParsed is what *)
(* Parse reads of a record, AVCSerialized what Serialize makes of it       *)
(* again: it goes through the picture parameter sets by the number of      *)
(* sequence parameter sets.  An hvcC record has the version and the        *)
(* reserved bits that its Parse asks for.                                  *)
(***************************************************************************)
Nalus(lens) == Total([i \in DOMAIN lens |-> 2 + lens[i]])
HighLevels == {100, 110, 122, 144}
AVCExtension(c) == IF c.level \in HighLevels THEN 4 + Nalus(c.ext) ELSE 0
AVCParsed(c) == 6 + Nalus(c.sps) + 1 + Nalus(c.pps) + AVCExtension(c)
AVCSerialized(c) == 6 + Nalus(c.sps) + 1 + Nalus(SubSeq(c.pps, 1, Len(c.sps))) + AVCExtension(c)
\* The byte of a bit depth is five ones and the depth; Parse looks for the ones in its low bits.
DepthByte(d) == 248 + d
AVCRefusal(c) ==
    CASE c.version # 1 \/ ~c.reserved -> "layout"
      [] /\ c.version = 1 /\ c.reserved
         /\ c.level \in HighLevels
         /\ \E d \in {c.luma, c.chroma} : DepthByte(d) % 32 # 31 -> "depth"
      [] OTHER -> "no"
AVCPanics(c) == Len(c.sps) > Len(c.pps)
AVCCBox(c) == [Leaf("avcC", AVCParsed(c)) EXCEPT ![1].bytes = BOX_SIZE + AVCSerialized(c),
                                                 ![1].refusal = AVCRefusal(c)]
HevcArrayItem(nalus) == 3 + Nalus(nalus)
HVCCBox(items) == Leaf("hvcC", 23 + Total([i \in DOMAIN items |-> HevcArrayItem(items[i])]))

(***************************************************************************)
(* The descriptors of esds: a tag and four bytes of length, then the body. *)
(***************************************************************************)
DecoderSpecificInfo(raw) == Tag("DecSpecificInfo", raw)
ProfileLevelIndicationIndex == Tag("ProfileLevel", 1)
LanguageDescriptor == Tag("Language", 3)
IPI_DescrPointer == Tag("IPI", 2)
RegistrationDescriptor(info) == Tag("Registration", 4 + info)
\* predefined = 0 spells the configuration out; tsLen is there unless time stamps are used.
SLConfigDescriptor(predefined, duration, tsLen) ==
    Tag("SLConfig", 1 + IF predefined = 0 THEN 15 + (IF duration THEN 8 ELSE 0) + 2 * tsLen ELSE 0)
DecoderConfigDescriptor(kids) == Node("DecoderConfig", TAG_SIZE, 13, "fill", 0, kids)
ES_Descriptor(kids) == Node("ES", TAG_SIZE, 3, "fill", 0, kids)
EsdsBox(es) == Node("esds", BOX_SIZE, 4, "count", 1, es)

(***************************************************************************)
(* Fragments, indexes and media data.  flags of tfhd and trun are the set  *)
(* of the optional fields that are present.                                *)
(***************************************************************************)
FtypBox(brands) == Leaf("ftyp", 8 + 4 * brands)
SidxBox(ver, refs) == FullLeaf("sidx", (IF ver = 0 THEN 16 ELSE 24) + 4 + 12 * refs)
MfhdBox == FullLeaf("mfhd", 4)
TfhdField(f) == IF f = "base_data_offset" THEN 8 ELSE 4
TfhdBox(flags) == FullLeaf("tfhd", 4 + MapThenSumSet(TfhdField, flags))
TfdtBox(ver) == FullLeaf("tfdt", IF ver = 0 THEN 4 ELSE 8)
\* perSample are the fields every sample has, 4 bytes each.
TrunBox(flags, perSample, samples) ==
    FullLeaf("trun", 4 + 4 * Cardinality(flags) + samples * 4 * Cardinality(perSample))
MfroBox == FullLeaf("mfro", 4)
MdatBox(data) == Leaf("mdat", data)

\* traf, trun and sample are the widths less one that the box gives for an entry's numbers:
\* on disk all three count, Parse and Serialize take the first one twice.
TfraEntry(ver, a, b, c) == (IF ver = 1 THEN 16 ELSE 8) + a + b + c + 3
TfraBox(ver, traf, trun, sample, entries) ==
    LET tfra == FullLeaf("tfra", 12 + entries * TfraEntry(ver, traf, trun, sample))
        own == 4 + 12 + entries * TfraEntry(ver, traf, traf, sample)
    IN  [tfra EXCEPT ![1].told = own, ![1].bytes = BOX_SIZE + own]
=============================================================================
