------------------------------ MODULE Fmp4Boxes ------------------------------
(***************************************************************************)
(* The boxes fmp4.go puts together.  Every box is given its Size by hand,  *)
(* one += after another; here as there the size of a box is that sum,      *)
(* whatever Serialize will write.                                          *)
(***************************************************************************)
EXTENDS Mp4Box

\* The constants of define.go the builders add.
MvhdBoxBodyLenVer0 == 96
TkhdBoxBodyLenVer0 == 80
SmhdBoxBodyLen == 4
VmhdBoxBodyLen == 8
MdhdBoxBodyLenVer0 == 20
PaspBoxBodyLen == 8
SampleEntryLen == 8
VisualSampleEntryLen == 70
AudioSampleEntryLen == 20
TrexBoxBodyLen == 20
MfhdBoxBodyLen == 4
TfdtBoxBodyLenVer1 == 8

\* A box that holds boxes, with the Sizes of these added to its own.
Holding(type, kids) == Sized(SimpleBoxContainer(type, kids), BOX_SIZE + SizeOf(kids))

newFmp4DinfBox ==
    LET url == Sized(UrlBox(0, 0), FULL_BOX_SIZE)
        dref == Sized(DrefBox(url, 1), FULL_BOX_SIZE + 4 + SizeOf(url))
    IN  Holding("dinf", dref)

newFmp4MinfBox(mhd, stbl) == Holding("minf", mhd \o newFmp4DinfBox \o stbl)
newFmp4VideoMinfBox(stbl) == newFmp4MinfBox(Sized(VmhdBox, FULL_BOX_SIZE + VmhdBoxBodyLen), stbl)
newFmp4AudioMinfBox(stbl) == newFmp4MinfBox(Sized(SmhdBox, FULL_BOX_SIZE + SmhdBoxBodyLen), stbl)

\* Mutant: without the zero.
HdlrWithoutZero == Sized(HdlrBox(13), FULL_BOX_SIZE + 32)
\* "VideoHandler" and "SoundHandler" with the zero that ends them.
newFmp4HdlrBox == Sized(HdlrBox(13), FULL_BOX_SIZE + 33)
newFmp4MdhdBox == Sized(MdhdBox(0), FULL_BOX_SIZE + MdhdBoxBodyLenVer0)

newVideoStblBox(entry) ==
    Holding("stbl", Sized(StsdBox(entry, 1), FULL_BOX_SIZE + SizeOf(entry) + 4)
                    \o Sized(SttsBox(0), FULL_BOX_SIZE + 4)
                    \o Sized(StscBox(0), FULL_BOX_SIZE + 4)
                    \o Sized(StszBox(0, 0), FULL_BOX_SIZE + 8)
                    \o Sized(StcoBox(0), FULL_BOX_SIZE + 4))

newTkhdBox == Sized(TkhdBox(0), FULL_BOX_SIZE + TkhdBoxBodyLenVer0)
TrakBox(minf) == Holding("trak", newTkhdBox \o Holding("mdia", newFmp4MdhdBox \o newFmp4HdlrBox \o minf))

\* The trak AddVideoH264Track builds from the sequence header: avcC takes the header's length.
VideoTrak(avc) ==
    LET pasp == Sized(PaspBox, BOX_SIZE + PaspBoxBodyLen)
        avcc == Sized(AVCCBox(avc), BOX_SIZE + AVCParsed(avc))
        avc1 == Sized(Avc1Box(avcc \o pasp),
                      BOX_SIZE + VisualSampleEntryLen + SampleEntryLen + SizeOf(pasp) + SizeOf(avcc))
    IN  TrakBox(newFmp4VideoMinfBox(newVideoStblBox(avc1)))

\* The trak AddAudioTrack builds: descriptor sizes are sums over the sequence header's length.
AudioTrak(aac) ==
    LET dc == Sized(DecoderConfigDescriptor(DecoderSpecificInfo(aac)), TAG_SIZE + 18 + aac)
        es == Sized(ES_Descriptor(dc \o SLConfigDescriptor(2, FALSE, 0)), TAG_SIZE + 32 + aac)
        esds == Sized(EsdsBox(es), FULL_BOX_SIZE + (32 + aac) + 5)
        mp4a == Sized(Mp4aBox(esds), BOX_SIZE + AudioSampleEntryLen + SampleEntryLen + SizeOf(esds))
    IN  TrakBox(newFmp4AudioMinfBox(newVideoStblBox(mp4a)))

newMvhdBox == Sized(MvhdBox(0), FULL_BOX_SIZE + MvhdBoxBodyLenVer0)
newTrexBox == Sized(TrexBox, FULL_BOX_SIZE + TrexBoxBodyLen)
newMfhdBox == Sized(MfhdBox, FULL_BOX_SIZE + MfhdBoxBodyLen)

\* generateVideoMoofMdat and generateAudioMoofMdat: the traf of a run of samples.
SampleRun(flags, samples) ==
    Sized(TrunBox(flags, {"sample_size"}, samples),
          FULL_BOX_SIZE + 4 + 4 * samples + 4 * Cardinality(flags))
newTrafBox(flags, samples) ==
    LET tfhd == Sized(TfhdBox({"base_data_offset", "default_sample_duration", "default_sample_size",
                               "default_sample_flags"}), FULL_BOX_SIZE + 24)
        tfdt == Sized(TfdtBox(1), FULL_BOX_SIZE + TfdtBoxBodyLenVer1)
    IN  Holding("traf", tfhd \o tfdt \o SampleRun(flags, samples))
VideoTraf(samples) == newTrafBox({"data_offset", "first_sample_flags"}, samples)
AudioTraf(samples) == newTrafBox({"data_offset"}, samples)
=============================================================================
