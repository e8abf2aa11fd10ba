-------------------------------- MODULE Fmp4 --------------------------------
(***************************************************************************)
(* The fragmented MP4 muxer of container/mp4/fmp4.go: tracks are added,    *)
(* frames are collected per track, and every key frame closes a fragment,  *)
(* a moof that says where the samples lie and a mdat that holds them.      *)
(*                                                                         *)
(* A byte of a frame is the number of the frame, a byte of a length field  *)
(* is 0.  The application adds its tracks before its first frame, as       *)
(* fmp4_test.go does; its clock ticks once for every frame it hands over.  *)
(***************************************************************************)
EXTENDS Fmp4Boxes

CONSTANTS
    Tracks,       \* the tracks the application adds, out of {"video", "audio"}
    FrameLengths, \* the lengths of its frames
    Brands,       \* the compatible brands it may append
    SegDuration,  \* NewFmp4's argument, in ticks
    AvcConfig,    \* the AVC sequence header, as in Mp4Box
    AacConfig,    \* the length of the AAC one, whose sample rate is in aacArIdxMap
    MaxFrames     \* bound on the frames handed over

VARIABLES
    brands,       \* Ftyp.CompatibleBrands
    moov,         \* the boxes in Moov, mvex left out
    mvex,         \* the boxes in mvexInMoov
    trackId,      \* videoTrackId and audioTrackId, 0 before the track is added
    nextTrackID,  \* mvhdBox.NextTrackID
    header,       \* headerBox: ftyp and moov once serialised
    base,         \* fmp4BaseDataOffset
    trackOffset,  \* curTrackOffset
    seqNum,       \* moofMdatSeqNum
    moof,         \* the SequenceNumber of the moofBox being filled, or NoMoof
    mdatBuf,      \* the buffer of the mdat being filled
    arrays,       \* the memory behind mdatBuf, past and present
    cache,        \* vCache and aCache
    frags,        \* MoofMdat
    panicked,     \* whether the process has ended in a panic
    sent          \* the frames handed over, in order

muxer == <<brands, moov, mvex, trackId, nextTrackID, header, base, trackOffset, seqNum, moof, mdatBuf,
           arrays, cache, frags>>
vars == <<brands, moov, mvex, trackId, nextTrackID, header, base, trackOffset, seqNum, moof, mdatBuf,
          arrays, cache, frags, panicked, sent>>

\* moofBox is nil before the first key frame: no fragment has the number 0.
NoMoof == 0

\* What a zero MdatCache holds, and what reset leaves in one.  A trunBox is made with its first
\* sample: no sample is no trunBox.
reset(baseDataOffset, ts) ==
    [run |-> <<>>, buf |-> <<>>, firstTs |-> 0, lastTs |-> 0, accOffset |-> 0,
     baseDataOffset |-> baseDataOffset, baseDecodeTime |-> ts]

Init ==
    /\ brands = {}
    /\ moov = newMvhdBox
    /\ mvex = <<>>
    /\ trackId = [t \in {"video", "audio"} |-> 0]
    /\ nextTrackID = 1
    /\ header = <<>>
    /\ base = 0
    /\ trackOffset = 0
    /\ seqNum = 1
    /\ moof = NoMoof
    /\ mdatBuf = [array |-> 0, len |-> 0, cap |-> 0]
    /\ arrays = <<>>
    /\ cache = [t \in {"video", "audio"} |-> reset(0, 0)]
    /\ frags = <<>>
    /\ panicked = FALSE
    /\ sent = <<>>

-----------------------------------------------------------------------------
(***************************************************************************)
(* The header.                                                             *)
(***************************************************************************)
AppendCompatibleBrand(b) ==
    /\ ~panicked
    /\ b \notin brands
    /\ brands' = brands \cup {b}
    /\ UNCHANGED <<moov, mvex, trackId, nextTrackID, header, base, trackOffset, seqNum, moof, mdatBuf,
                   arrays, cache, frags, panicked, sent>>

\* AddVideoH264Track and AddAudioTrack: refused when the track is there, or when the sequence
\* header is; a call that is refused leaves everything as it was.
AddTrack(t) ==
    /\ ~panicked
    /\ trackId[t] = 0
    /\ t = "video" => AVCRefusal(AvcConfig) = "no"
    /\ moov' = moov \o (IF t = "video" THEN VideoTrak(AvcConfig) ELSE AudioTrak(AacConfig))
    /\ mvex' = mvex \o newTrexBox
    /\ trackId' = [trackId EXCEPT ![t] = nextTrackID]
    /\ nextTrackID' = nextTrackID + 1
    /\ UNCHANGED <<brands, header, base, trackOffset, seqNum, moof, mdatBuf, arrays, cache, frags,
                   panicked, sent>>

newFtypBox == Sized(FtypBox(Cardinality(brands)), BOX_SIZE + 8 + 4 * Cardinality(brands))
generateHeaderBox == newFtypBox \o Holding("moov", moov \o Holding("mvex", mvex))

-----------------------------------------------------------------------------
(***************************************************************************)
(* Collecting a frame.  prefixed is AddAudioFrameWithoutLen's way to have  *)
(* a length written before the frame; the sample it notes is the frame's.  *)
(***************************************************************************)
Bytes(frame, n) == [i \in 1 .. n |-> frame]
addFrame(c, frame, len, ts, prefixed) ==
    LET bytes == (IF prefixed THEN Bytes(0, 4) ELSE <<>>) \o Bytes(frame, len)
        new == c.run = <<>>
    IN  [c EXCEPT !.run = Append(@, [frame |-> frame, size |-> len]),
                  !.buf = (IF new THEN <<>> ELSE @) \o bytes,
                  !.firstTs = IF new THEN ts ELSE @,
                  !.lastTs = ts,
                  !.accOffset = @ + Len(bytes)]

\* The clock, when the application has a frame to hand over, and what it keeps of it.
Now == Len(sent) + 1
HandsOver ==
    /\ Now <= MaxFrames
    /\ \A t \in Tracks : trackId[t] > 0
Handed(t, key) == sent' = Append(sent, [track |-> t, key |-> key])

\* "no key frame" is noted and overwritten: the frame is taken whether there is one or not.
AddAudioFrameWithoutLen(len) ==
    /\ ~panicked
    /\ HandsOver
    /\ trackId["audio"] > 0
    /\ cache' = [cache EXCEPT !["audio"] = addFrame(@, Now, len, Now, TRUE)]
    /\ Handed("audio", FALSE)
    /\ UNCHANGED <<brands, moov, mvex, trackId, nextTrackID, header, base, trackOffset, seqNum, moof,
                   mdatBuf, arrays, frags, panicked>>

-----------------------------------------------------------------------------
(***************************************************************************)
(* bytes.Buffer: Write goes on in the array that is there while it fits,   *)
(* and moves to a larger one when it does not; Reset keeps the array.      *)
(***************************************************************************)
Overwrite(a, from, bytes) ==
    [i \in 1 .. (IF Len(a) > from + Len(bytes) THEN Len(a) ELSE from + Len(bytes)) |->
        IF i \in from + 1 .. from + Len(bytes) THEN bytes[i - from] ELSE a[i]]
BufferWrite(m, bytes) ==
    LET b == m.mdatBuf
        len == b.len + Len(bytes)
        old == IF b.array = 0 THEN <<>> ELSE SubSeq(m.arrays[b.array], 1, b.len)
    IN  IF len <= b.cap
        THEN [m EXCEPT !.mdatBuf.len = len, !.arrays[b.array] = Overwrite(@, b.len, bytes)]
        ELSE [m EXCEPT !.arrays = Append(@, old \o bytes),
                       !.mdatBuf = [array |-> Len(m.arrays) + 1, len |-> len,
                                    cap |-> IF b.array = 0 /\ len <= 64 THEN 64
                                            ELSE 2 * b.cap + Len(bytes)]]

\* generateVideoMoofMdat and generateAudioMoofMdat, and the write after them.
generateMoofMdat(m, t, c) ==
    LET boxes == IF t = "video" THEN VideoTraf(Len(c.run)) ELSE AudioTraf(Len(c.run))
        traf == [track |-> t, base |-> c.baseDataOffset, offset |-> BOX_SIZE + m.trackOffset,
                 samples |-> c.run, decode |-> c.baseDecodeTime, bytes |-> c.buf]
    IN  BufferWrite([m EXCEPT !.boxes = @ \o boxes, !.trafs = Append(@, traf),
                              !.trackOffset = @ + c.accOffset], c.buf)

\* The tracks of a fragment, in the order of their ids: none at all when the first has no id.
PairsInOrder ==
    LET pairs == IF trackId["audio"] <= trackId["video"] THEN <<"audio", "video">> ELSE <<"video", "audio">>
    IN  IF trackId[pairs[1]] = 0 THEN <<>> ELSE SelectSeq(pairs, LAMBDA t : trackId[t] > 0)

\* A nil trun or a nil moof is met on the way.
FragPanics == moof = NoMoof \/ (trackId["audio"] > 0 /\ cache["audio"].run = <<>>)

\* Mutant: the size of the moof is left out.
ClosedWithoutMoof(m) ==
    [moof |-> Holding("moof", m.boxes), seq |-> m.seq, mdat |-> m.mdatBuf, trafs |-> m.trafs,
     bytes |-> BytesOf(Holding("moof", m.boxes)) + BOX_SIZE + m.mdatBuf.len, grow |-> BOX_SIZE + m.mdatBuf.len]

\* The end of generateOneFrag: moof and mdat as they are kept, offsets counted from the moof.
closeFrag(m) ==
    LET box == Holding("moof", m.boxes)
    IN  [moof |-> box, seq |-> m.seq, mdat |-> m.mdatBuf,
         trafs |-> [k \in DOMAIN m.trafs |-> [m.trafs[k] EXCEPT !.offset = @ + box[1].size]],
         bytes |-> BytesOf(box) + BOX_SIZE + m.mdatBuf.len,
         grow |-> box[1].size + BOX_SIZE + m.mdatBuf.len]

generateOneFrag(c) ==
    LET start == [boxes |-> newMfhdBox, trafs |-> <<>>, seq |-> moof, mdatBuf |-> mdatBuf,
                  arrays |-> arrays, trackOffset |-> trackOffset]
    IN  FoldLeft(LAMBDA m, t : generateMoofMdat(m, t, c[t]), start, PairsInOrder)

\* Mutant: the audio of a fragment stays for the next one.
resetVideoOnly(offset, ts) == [cache EXCEPT !["video"] = reset(offset, ts)]
\* resetFrag(true, ts): the caches of the tracks that are there, a new moof, an empty buffer.
resetFrag(offset, ts) ==
    [t \in {"video", "audio"} |-> IF trackId[t] > 0 THEN reset(offset, ts) ELSE cache[t]]

\* mdatBuf.Reset
emptiedBuf(b) == [b EXCEPT !.len = 0]

-----------------------------------------------------------------------------
(***************************************************************************)
(* AddVideoFrameWithLen, one action for each way through it.               *)
(***************************************************************************)
VideoCall(key) ==
    /\ ~panicked
    /\ HandsOver
    /\ trackId["video"] > 0
    /\ Handed("video", key)
CollectVideo(c, len) == cache' = [c EXCEPT !["video"] = addFrame(@, Now, len, Now, FALSE)]

AddVideoFrame(len) ==
    /\ VideoCall(FALSE)
    /\ CollectVideo(cache, len)
    /\ UNCHANGED <<brands, moov, mvex, trackId, nextTrackID, header, base, trackOffset, seqNum, moof,
                   mdatBuf, arrays, frags, panicked>>

AddFirstKeyFrame(len) ==
    /\ VideoCall(TRUE)
    /\ cache["video"].accOffset = 0
    /\ CollectVideo(resetFrag(base, Now), len)
    /\ moof' = seqNum
    /\ mdatBuf' = emptiedBuf(mdatBuf)
    /\ UNCHANGED <<brands, moov, mvex, trackId, nextTrackID, header, base, trackOffset, seqNum, arrays,
                   frags, panicked>>

\* The header is made with the first fragment; it gives caches that have none their base.
HeaderPanics == header = <<>> /\ AVCPanics(AvcConfig)
HeaderNow == IF header = <<>> THEN generateHeaderBox ELSE header
BaseNow == IF header = <<>> THEN BytesOf(HeaderNow) ELSE base
CachesNow ==
    [t \in {"video", "audio"} |->
        IF header = <<>> /\ cache[t].baseDataOffset < 1
        THEN [cache[t] EXCEPT !.baseDataOffset = BaseNow] ELSE cache[t]]
SegmentOver == cache["video"].lastTs - cache["video"].firstTs > SegDuration

AddKeyFrame(len) ==
    /\ VideoCall(TRUE)
    /\ cache["video"].accOffset > 0
    /\ ~FragPanics
    /\ ~HeaderPanics
    /\ LET m == generateOneFrag(CachesNow)
           frag == closeFrag(m)
       IN  /\ frags' = Append(frags, frag)
           /\ base' = BaseNow + frag.grow
           /\ arrays' = m.arrays
           /\ mdatBuf' = emptiedBuf(m.mdatBuf)
           /\ trackOffset' = IF SegmentOver THEN 0 ELSE m.trackOffset
    /\ header' = HeaderNow
    /\ seqNum' = IF SegmentOver THEN 1 ELSE seqNum
    /\ CollectVideo(resetFrag(base', Now), len)
    /\ moof' = seqNum'
    /\ UNCHANGED <<brands, moov, mvex, trackId, nextTrackID, panicked>>

KeyFramePanics ==
    /\ VideoCall(TRUE)
    /\ cache["video"].accOffset > 0
    /\ FragPanics \/ HeaderPanics
    /\ panicked' = TRUE
    /\ UNCHANGED muxer

Next ==
    \/ \E b \in Brands : AppendCompatibleBrand(b)
    \/ \E t \in Tracks : AddTrack(t)
    \/ \E len \in FrameLengths :
          \/ AddAudioFrameWithoutLen(len)
          \/ AddVideoFrame(len)
          \/ AddFirstKeyFrame(len)
          \/ AddKeyFrame(len)
    \/ KeyFramePanics

Spec == Init /\ [][Next]_vars

-----------------------------------------------------------------------------
\* Every box of a tree says the size that Serialize writes of it and of what lies in it, the boxes
\* up to the next one that is as high.
Faithful(tree) ==
    \A i \in DOMAIN tree :
        LET next == {j \in i + 1 .. Len(tree) : tree[j].depth <= tree[i].depth} \cup {Len(tree) + 1}
        IN  tree[i].size = BytesOf(SubSeq(tree, i, Min(next) - 1))

(***************************************************************************)
(* What serialize writes can be walked by its sizes: the sums the builders *)
(* of fmp4.go do by hand are what Serialize writes, in the header and in   *)
(* the last fragment.                                                      *)
(***************************************************************************)
SizesAreWritten == frags # <<>> => Faithful(header) /\ Faithful(Last(frags).moof)

\* Where fragment k starts in the file that serialize writes.
Position(k) == BytesOf(header) + Total([j \in 1 .. k - 1 |-> frags[j].bytes])

(***************************************************************************)
(* base_data_offset is where the moof of the fragment starts in the file   *)
(* (fmp4.go:15), of every track and every fragment.                        *)
(***************************************************************************)
BaseIsThePosition ==
    \A k \in DOMAIN frags : \A i \in DOMAIN frags[k].trafs : frags[k].trafs[i].base = Position(k)

\* Fragment k is the first of a segment: the video of the one before it is over SegDuration long.
VideoOf(f) == SelectSeq(f.trafs, LAMBDA t : t.track = "video")[1].samples
BeginsSegment(k) ==
    k = 1 \/ Last(VideoOf(frags[k - 1])).frame - VideoOf(frags[k - 1])[1].frame > SegDuration

\* The data_offset of the first track leads over the moof and the header of the mdat (fmp4.go:16).
LeadsToData(f) == f.trafs[1].offset = f.moof[1].size + BOX_SIZE

(***************************************************************************)
(* The data of the first track of a fragment starts where its moof says,   *)
(* and the data of the second one where that ends (fmp4.go:16-17).         *)
(* curTrackOffset is reset with the segment only: the offsets of the       *)
(* later fragments of a segment, OffsetsLeadToData below, are excepted.    *)
(***************************************************************************)
TracksFollow ==
    \A k \in DOMAIN frags :
        LET t == frags[k].trafs
        IN  /\ BeginsSegment(k) => LeadsToData(frags[k])
            /\ \A i \in 2 .. Len(t) : t[i].offset = t[i - 1].offset + Len(t[i - 1].bytes)

\* The sizes of the samples before it lead to each frame, whose bytes are its number.
Located(f) ==
    \A s \in DOMAIN f.samples :
        LET from == Total([j \in 1 .. s - 1 |-> f.samples[j].size])
        IN  \A b \in from + 1 .. from + f.samples[s].size : f.bytes[b] = f.samples[s].frame

\* The mdat of fragment k holds the bytes of its moof.
HoldsItsData(f) ==
    SubSeq(arrays[f.mdat.array], 1, f.mdat.len) =
        FlattenSeq([i \in DOMAIN f.trafs |-> f.trafs[i].bytes])

\* The next fragment was, or may still be, written over fragment k: its first write fits.
WrittenOver(k) ==
    k < Len(frags) /\ Len(frags[k + 1].trafs[1].bytes) <= frags[k].mdat.cap

(***************************************************************************)
(* A frame of video is found in the data of its track by the sizes of the  *)
(* samples before it (fmp4.go:18-19).  Audio is excepted: addFrame counts  *)
(* its length field into the data and not into the size of the sample.     *)
(***************************************************************************)
VideoLocated ==
    \A k \in DOMAIN frags : \A i \in DOMAIN frags[k].trafs :
        frags[k].trafs[i].track = "video" => Located(frags[k].trafs[i])

(***************************************************************************)
(* The mdat of a fragment holds the data of its own moof (fmp4.go:16), of  *)
(* the latest fragment and of every earlier one that the next one did not  *)
(* fit over.                                                               *)
(***************************************************************************)
DataKept == \A k \in DOMAIN frags : ~WrittenOver(k) => HoldsItsData(frags[k])

\* The frames of track t from the first key frame on, and the ones the muxer holds.
Started == {i \in DOMAIN sent : sent[i].key}
SentFrom(t, first) ==
    SelectSeq([i \in DOMAIN sent |-> i], LAMBDA i : i >= first /\ sent[i].track = t)
RunOf(run) == [i \in DOMAIN run |-> run[i].frame]
HeldBy(t) ==
    LET runs == [k \in DOMAIN frags |->
                    LET own == SelectSeq(frags[k].trafs, LAMBDA f : f.track = t)
                    IN  IF own = <<>> THEN <<>> ELSE RunOf(own[1].samples)]
    IN  FlattenSeq(runs) \o RunOf(cache[t].run)

(***************************************************************************)
(* From the first key frame on no frame is lost, repeated or put out of    *)
(* order: the fragments, one after the other, and what is collected for    *)
(* the next one are what the application handed over.                      *)
(***************************************************************************)
FramesConserved ==
    Started # {} /\ ~panicked =>
        \A t \in {u \in Tracks : trackId[u] > 0} : HeldBy(t) = SentFrom(t, Min(Started))

(***************************************************************************)
(* A fragment can be decoded on its own: its video starts with a key       *)
(* frame, has no other, and its decode time is the time of that frame.     *)
(***************************************************************************)
StartsWithKeyFrame ==
    \A k \in DOMAIN frags : \A i \in DOMAIN frags[k].trafs :
        LET f == frags[k].trafs[i]
        IN  f.track = "video" =>
                /\ f.decode = f.samples[1].frame
                /\ \A s \in DOMAIN f.samples : sent[f.samples[s].frame].key <=> s = 1

\* A fragment points at its data: where it says, in the order of its tracks and
\* samples, and with the bytes of its own frames.
DataFound == BaseIsThePosition /\ TracksFollow /\ VideoLocated /\ DataKept

\* The fragments together hold what was handed over, and each can be decoded.
FragmentsComplete == FramesConserved /\ StartsWithKeyFrame

\* The first track's data_offset is moof.Size + BOX_SIZE, in every fragment (fmp4.go:16).
OffsetsLeadToData == \A k \in DOMAIN frags : LeadsToData(frags[k])
=============================================================================
