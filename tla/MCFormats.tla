----------------------------- MODULE MCFormats ------------------------------
(***************************************************************************)
(* What turns values into bytes and back: the bit reader (BitReader), the  *)
(* numbers of varying length (WireNumbers), the values of command messages *)
(* (Amf0), the muxer of MP4 files (Fmp4) and their parser (Mp4Parse).  A   *)
(* behaviour is about one of the five; the state of the others rests.      *)
(***************************************************************************)
EXTENDS BitReader

CONSTANTS
    Parts,                                                 \* the parts that are looked at
    Tracks, FrameLengths, SegDuration, AacConfig, MaxFrames   \* of Fmp4

ASSUME MuxerAssumption ==
    /\ Tracks \subseteq {"video", "audio"}
    /\ FrameLengths \subseteq Nat \ {0}
    /\ SegDuration \in Nat /\ AacConfig \in Nat \ {0} /\ MaxFrames \in Nat

VARIABLES
    part,
    kind, format, number, stream, got,
    form, values, wire, whole, phase, args,
    brands, moov, mvex, trackId, nextTrackID, header, base, trackOffset, seqNum, moof, mdatBuf,
    arrays, cache, frags, panicked, sent,
    file, pos, stack, boxes, status

\* The ids and lengths the program itself uses lie in these; the ids 0 and 1 mark
\* the longer forms.
Numbers == INSTANCE WireNumbers WITH ChunkStreamIds <- 2 .. 63, TagLengths <- 0 .. 16383
\* Strings of up to one character more than the short form holds.
Values == INSTANCE Amf0 WITH MaxShort <- 2, MaxValues <- 2

Input == INSTANCE Mp4Files
Mux == INSTANCE Fmp4 WITH Brands <- {"isom"}, AvcConfig <- Input!testConfig
Parse == INSTANCE Mp4Parse WITH Files <- Input!ParsedFiles, got <- boxes

numberVars == <<kind, format, number, stream, got>>
valueVars == <<form, values, wire, whole, phase, args>>
muxVars == <<brands, moov, mvex, trackId, nextTrackID, header, base, trackOffset, seqNum, moof,
             mdatBuf, arrays, cache, frags, panicked, sent>>
parseVars == <<file, pos, stack, boxes, status>>
all == <<part, vars, numberVars, valueVars, muxVars, parseVars>>

NothingToParse == file = <<>> /\ pos = 1 /\ stack = <<>> /\ boxes = <<>> /\ status = "done"

\* A part that rests has one initial state.
PartInit ==
    /\ part \in Parts
    /\ IF part = "parse" THEN Parse!Init ELSE NothingToParse
    /\ Values!Init /\ (part # "values" => form = "array")
    /\ Numbers!Init /\ (part # "numbers" => kind = "tag" /\ number = 0)
    /\ Init /\ Mux!Init

Reading(A) == part = "bits" /\ A /\ UNCHANGED <<part, numberVars, valueVars, muxVars, parseVars>>
Converting ==
    part = "numbers" /\ Numbers!Next /\ UNCHANGED <<part, vars, valueVars, muxVars, parseVars>>
Passing ==
    part = "values" /\ Values!Next /\ UNCHANGED <<part, vars, numberVars, muxVars, parseVars>>
Muxing == part = "mux" /\ Mux!Next /\ UNCHANGED <<part, vars, numberVars, valueVars, parseVars>>
Parsing == part = "parse" /\ Parse!Next /\ UNCHANGED <<part, vars, numberVars, valueVars, muxVars>>

\* The application may hand over no more frames.
NoMoreFrames == part = "mux" /\ UNCHANGED all

PartNext == Reading(Next) \/ Converting \/ Passing \/ Muxing \/ Parsing \/ NoMoreFrames

PartSpec == PartInit /\ [][PartNext]_all /\ WF_all(Reading(Step))

(***************************************************************************)
(* The properties of the other parts; those of BitReader are its own.      *)
(***************************************************************************)
\* What was written is read back and the reader is left where the writer stopped:
\* a number of varying length (WireNumbers), and the values of a message, of which
\* a payload that ends early yields no other value (Amf0).
ReadBack == Numbers!ReadsBack /\ Values!ArgumentsReadBack /\ Values!NothingMadeUp

\* The fragments of the muxer together hold what was handed over, and each can be
\* decoded.
FragmentsComplete == Mux!FragmentsComplete

\* A fragment points at its data: where it says, in the order of its tracks and
\* samples, and with the bytes of its own frames, the exceptions in Fmp4 left out.
DataFound == Mux!DataFound

\* The data_offset of the first track of every fragment is moof.Size + BOX_SIZE, as
\* the comment at fmp4.go:16 says.
OffsetsLeadToData == Mux!OffsetsLeadToData

\* A file is read to its last box, every box as a part of the box it lies in, by
\* lengths that add up to the byte.
FileReadBack == part = "parse" => Parse!FileReadBack

\* Serialize writes of every box as many bytes as its Size says: of the boxes the
\* muxer builds and of the ones that were read, but for a sample entry that lost
\* the box behind its configuration record.
SizesAreTrue ==
    /\ part = "mux" => Mux!SizesAreWritten
    /\ part = "parse" => Parse!WrittenAsRead
=============================================================================
