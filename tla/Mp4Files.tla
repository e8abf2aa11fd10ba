------------------------------ MODULE Mp4Files ------------------------------
(***************************************************************************)
(* The sequence header of fmp4_test.go, and the files that are parsed:     *)
(* those of box_test.go and close relatives of them, with either version   *)
(* of a box, no, one or two entries in a table, the extra box of a sample  *)
(* entry there or not, decoder configuration records that Parse takes or   *)
(* refuses.                                                                *)
(***************************************************************************)
EXTENDS Mp4Box

Stbl(entry, k) ==
    SimpleBoxContainer("stbl", StsdBox(entry, 1) \o SttsBox(k) \o StscBox(k) \o StszBox(k, k) \o StcoBox(k))
Dinf == SimpleBoxContainer("dinf", DrefBox(UrlBox(1, 0), 1))
Trak(ver, mhd, stbl, k) ==
    SimpleBoxContainer("trak", TkhdBox(ver) \o SimpleBoxContainer("edts", ElstBox(ver, k))
        \o SimpleBoxContainer("mdia", MdhdBox(ver) \o HdlrBox(13)
              \o SimpleBoxContainer("minf", mhd \o Dinf \o stbl)))
Udta == SimpleBoxContainer("udta", MetaBox(HdlrBox(1) \o UnsupporttedBox("ilst", 37)))
Moov(ver, trak) ==
    SimpleBoxContainer("moov", MvhdBox(ver) \o trak \o SimpleBoxContainer("mvex", TrexBox) \o Udta)

testConfig == [version |-> 1, reserved |-> TRUE, sps |-> <<28>>, pps |-> <<5>>, level |-> 21,
                luma |-> 0, chroma |-> 0, ext |-> <<>>]
\* At a level with an extension, 8 bits deep, and 15 bits deep, which no decoder has.
highConfig == [testConfig EXCEPT !.sps = <<28, 20>>, !.pps = <<5, 6>>, !.ext = <<4>>, !.level = 100]
deepConfig == [highConfig EXCEPT !.luma = 7, !.chroma = 7]
oddConfig == [testConfig EXCEPT !.reserved = FALSE]
AvcConfigs == {testConfig, highConfig, deepConfig, oddConfig}
AvcEntry(c, extra) == Avc1Box(AVCCBox(c) \o extra)
HevcEntry(extra) == Hev1Box(HVCCBox(<<<<24>>, <<42>>, <<6, 9>>>>) \o extra)
EsdsOf(es) == Mp4aBox(EsdsBox(ES_Descriptor(es)))
AacEntries ==
    {EsdsOf(DecoderConfigDescriptor(DecoderSpecificInfo(2)) \o SLConfigDescriptor(2, FALSE, 0)),
     EsdsOf(DecoderConfigDescriptor(DecoderSpecificInfo(5) \o ProfileLevelIndicationIndex)
            \o SLConfigDescriptor(0, TRUE, 4) \o IPI_DescrPointer \o LanguageDescriptor
            \o RegistrationDescriptor(3))}

Fragment(ver, k) ==
    SimpleBoxContainer("moof", MfhdBox \o SimpleBoxContainer("traf",
        TfhdBox({"base_data_offset", "default_sample_size"}) \o TfdtBox(ver)
        \o TrunBox({"data_offset"}, {"sample_size", "sample_composition_time_offset"}, k)))
    \o MdatBox(10 * k)
Index(ver) == SidxBox(ver, 1) \o SimpleBoxContainer("mfra", TfraBox(ver, 0, 0, 0, 2) \o MfroBox)

Versions == {0, 1}
Entries == 0 .. 2
VideoFiles ==
    {FtypBox(k) \o Moov(v, Trak(v, VmhdBox, Stbl(AvcEntry(c, x), k), k)) \o Fragment(v, k) \o Index(v) :
        v \in Versions, k \in Entries, c \in AvcConfigs, x \in {<<>>, PaspBox}}
HevcFiles ==
    {Moov(v, Trak(v, VmhdBox, Stbl(HevcEntry(x), 1), k)) : v \in Versions, k \in Entries, x \in {<<>>, PaspBox}}
AudioFiles ==
    {Moov(v, Trak(v, SmhdBox, Stbl(a, k), k)) \o Fragment(v, 2) \o x :
        v \in Versions, k \in Entries, a \in AacEntries, x \in {<<>>, UnsupporttedBox("free", 12)}}
ParsedFiles == VideoFiles \cup HevcFiles \cup AudioFiles
=============================================================================
