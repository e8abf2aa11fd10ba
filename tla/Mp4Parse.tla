------------------------------ MODULE Mp4Parse ------------------------------
(***************************************************************************)
(* Reading an MP4 file back: Box.Parse at the top, parseChildBox and the   *)
(* loops of the boxes that hold boxes below it.                            *)
(*                                                                         *)
(* The reader is a stream, so nothing ties a box to the bytes its Size     *)
(* gives it: a box that holds boxes goes on while the lengths its children *)
(* returned leave something of its own Size, and a length that is wrong by *)
(* a few bytes makes it take the next box of the file for a child.  The    *)
(* state is that bookkeeping: one frame for every Parse that is under way. *)
(* A leaf reads its body whole, so the reader is always at the start of a  *)
(* box when a header is read; what a leaf returns may be something else.   *)
(*                                                                         *)
(* Files are complete and their counts agree with their sizes, which fit   *)
(* into 32 bits: of the errors that contents can make, the model has the   *)
(* ones of a decoder configuration record and of a box nobody knows.       *)
(***************************************************************************)
EXTENDS Mp4Box

CONSTANT Files

VARIABLES
    file,     \* the file, a forest in the sense of Mp4Box; a stsd that holds a box counts one
    pos,      \* the box whose header is read next
    stack,    \* the Parse calls under way, the outermost first
    got,      \* for each box that was read: the box it was made a child of, 0 at the top
    status    \* "parsing", "done" or "error"

vars == <<file, pos, stack, got, status>>

Init ==
    /\ file \in Files
    /\ pos = 1
    /\ stack = <<>>
    /\ got = <<>>
    /\ status = "parsing"

Top == stack[Len(stack)]
\* The boxes a Box.Parse at the top of a file knows, and the ones parseTable has.
TopLevel == {"ftyp", "styp", "sidx", "moof", "mdat", "moov", "mfra"}
parseTable ==
    {"ftyp", "styp", "sidx", "moof", "mfhd", "traf", "tfhd", "tfdt", "trun", "mvhd", "trak", "tkhd",
     "edts", "mdia", "mdhd", "hdlr", "minf", "vmhd", "dinf", "dref", "mvex", "udta", "stbl", "stsd",
     "stts", "stsc", "stsz", "stco", "elst", "trex", "meta", "url ", "urn ", "avc1", "mp4a", "hev1",
     "pasp", "esds", "smhd", "mfra", "tfra", "mfro"}

\* The boxes the Parse of a box knows; it reads any other one as so many raw bytes.
Known(box) ==
    CASE box.type = "avc1" -> {"avcC"}
      [] box.type = "hev1" -> {"hvcC"}
      [] box.type = "meta" -> {"hdlr"}
      [] box.head = TAG_SIZE \/ box.type = "esds" -> {b.type : b \in Range(file)}
      [] OTHER -> parseTable

\* The frame of a Parse that has read what comes before the boxes in it.
Enter(i) ==
    LET b == file[i]
    IN  [box |-> i, remain |-> b.size - b.head - b.told, total |-> b.told,
         left |-> CASE b.loop = "count" -> b.n [] b.loop = "first" -> 1 [] OTHER -> 0]

\* Whether the loop of the frame asks for another box.
Wants(f) ==
    CASE file[f.box].loop = "fill" -> f.remain > 0
      [] file[f.box].loop = "rounds" -> f.left > 0 \/ f.remain > 0
      [] OTHER -> f.left > 0

\* The loop takes note of a child of which len bytes were read.
Credit(f, len) ==
    [f EXCEPT !.remain = @ - len, !.total = @ + len,
              !.left = (IF @ = 0 /\ file[f.box].loop = "rounds" THEN file[f.box].n ELSE @) - 1]
CreditTop(s, len) == IF s = <<>> THEN s ELSE [s EXCEPT ![Len(s)] = Credit(@, len)]

\* The first box after i that does not lie in i.
After(i) ==
    CHOOSE j \in i + 1 .. Len(file) + 1 :
        /\ j > Len(file) \/ file[j].depth <= file[i].depth
        /\ \A k \in i + 1 .. j - 1 : file[k].depth > file[i].depth

ReadHeader == status = "parsing" /\ (IF stack = <<>> THEN TRUE ELSE Wants(Top))
Parent == IF stack = <<>> THEN 0 ELSE Top.box
Supported == file[pos].type \in (IF stack = <<>> THEN TopLevel ELSE Known(file[Top.box]))

\* A box that is not known where it was met: its Size less the header is read as it comes.
ReadRaw ==
    /\ ReadHeader
    /\ stack # <<>>
    /\ pos <= Len(file)
    /\ file[pos].type \notin Known(file[Top.box])
    /\ got' = Append(got, [box |-> pos, parent |-> Parent])
    /\ stack' = CreditTop(stack, file[pos].size)
    /\ pos' = After(pos)
    /\ UNCHANGED <<file, status>>

ReadLeaf ==
    /\ ReadHeader
    /\ pos <= Len(file)
    /\ Supported
    /\ file[pos].loop = "leaf" /\ file[pos].refusal = "no"
    /\ got' = Append(got, [box |-> pos, parent |-> Parent])
    /\ stack' = CreditTop(stack, file[pos].head + file[pos].told)
    /\ pos' = pos + 1
    /\ UNCHANGED <<file, status>>

EnterBox ==
    /\ ReadHeader
    /\ pos <= Len(file)
    /\ Supported
    /\ file[pos].loop # "leaf"
    /\ got' = Append(got, [box |-> pos, parent |-> Parent])
    /\ stack' = Append(stack, Enter(pos))
    /\ pos' = pos + 1
    /\ UNCHANGED <<file, status>>

\* The loop is over: the length goes to the Parse that called this one.
LeaveBox ==
    /\ status = "parsing"
    /\ stack # <<>>
    /\ ~Wants(Top)
    /\ stack' = CreditTop(Front(stack), file[Top.box].head + Top.total)
    /\ UNCHANGED <<file, pos, got, status>>

\* The end of the file: the end of the whole when nothing is under way, an error otherwise.
EndOfFile ==
    /\ ReadHeader
    /\ pos > Len(file)
    /\ status' = IF stack = <<>> THEN "done" ELSE "error"
    /\ UNCHANGED <<file, pos, stack, got>>

\* Box.Parse of a box that a file does not start with.
NoSuchBox ==
    /\ ReadHeader
    /\ pos <= Len(file)
    /\ stack = <<>>
    /\ file[pos].type \notin TopLevel
    /\ status' = "error"
    /\ UNCHANGED <<file, pos, stack, got>>

\* The Parse of a decoder configuration record fails, and every Parse above it.
RefuseRecord ==
    /\ ReadHeader
    /\ pos <= Len(file)
    /\ Supported
    /\ file[pos].refusal # "no"
    /\ status' = "error"
    /\ UNCHANGED <<file, pos, stack, got>>

Finished == status # "parsing" /\ UNCHANGED vars

Next == ReadRaw \/ ReadLeaf \/ EnterBox \/ LeaveBox \/ EndOfFile \/ NoSuchBox \/ RefuseRecord
        \/ Finished
Spec == Init /\ [][Next]_vars

-----------------------------------------------------------------------------
\* The box that box i of the file lies in, 0 if it lies in none.
Within(i) ==
    IF file[i].depth = 0 THEN 0
    ELSE CHOOSE j \in 1 .. i - 1 :
            /\ file[j].depth = file[i].depth - 1
            /\ \A k \in j + 1 .. i - 1 : file[k].depth >= file[i].depth

SampleEntries == {"avc1", "hev1"}

(***************************************************************************)
(* Every box ends up in the box it lies in on disk.  The one exception is  *)
(* what Avc1Box.Parse and Hev1Box.Parse do: they read one box and leave    *)
(* what follows the configuration record to the loop of stsd, which takes  *)
(* it for a sample entry of its own.                                       *)
(***************************************************************************)
NestedAsWritten ==
    \A k \in DOMAIN got :
        LET in == Within(got[k].box)
        IN  \/ got[k].parent = in
            \/ in # 0 /\ file[in].type \in SampleEntries /\ got[k].parent = Within(in)

(***************************************************************************)
(* A loop that stops has counted the Size of its box to the byte: the      *)
(* lengths every Parse below it returned add up to what the header said.   *)
(* (A sample entry stops after its first box, and is left out.)            *)
(***************************************************************************)
EndsExactly ==
    stack # <<>> /\ ~Wants(Top) =>
        \/ Top.remain = 0
        \/ file[Top.box].loop = "first"

(***************************************************************************)
(* A file the parser is through with was read to the last box, and the     *)
(* only errors are a box at the top that no parser is meant for and a      *)
(* decoder configuration record that is refused.                           *)
(***************************************************************************)
ReadsTheFile ==
    /\ status = "error" =>
           pos \in DOMAIN file /\ (file[pos].type = "free" \/ file[pos].refusal # "no")
    /\ status = "done" => \A i \in DOMAIN file : \E k \in DOMAIN got :
                              got[k].box = i \/ (got[k].box < i /\ i < After(got[k].box))

\* What Serialize writes of a box that was read, the boxes made its children left out; a box
\* that was read raw is written raw.
Own(g) ==
    LET b == file[g.box]
    IN  IF g.parent # 0 /\ b.type \notin Known(file[g.parent]) THEN b.size ELSE b.bytes

\* What it writes of the children of each box, those of 0 being the boxes at the top.
Children ==
    FoldRight(LAMBDA g, w : [w EXCEPT ![g.parent] = @ + Own(g) + w[g.box]],
              got, [i \in 0 .. Len(file) |-> 0])

\* The bytes of the boxes that lie in box i and were made children of another one.
MovedOut(i) ==
    MapThenSumSet(LAMBDA k : file[got[k].box].size,
                  {k \in DOMAIN got : Within(got[k].box) = i /\ got[k].parent # i})

(***************************************************************************)
(* What was read can be written again: Serialize of a box that was read,   *)
(* with the boxes the parser made its children, writes as many bytes as    *)
(* the Size it was read with, and of the whole file as many as the file    *)
(* had.  The one exception is a sample entry that lost the box behind its  *)
(* configuration record to stsd: it writes less, by that box, and keeps    *)
(* its Size.                                                               *)
(***************************************************************************)
WrittenAsRead ==
    status = "done" =>
        LET inside == Children
        IN  /\ inside[0] = SizeOf(file)
            /\ \A k \in DOMAIN got :
                   LET i == got[k].box
                   IN  Own(got[k]) + inside[i] =
                         file[i].size - (IF file[i].type \in SampleEntries THEN MovedOut(i) ELSE 0)

\* The parser has the file as it was written: every box in its place and none left out.
FileReadBack == NestedAsWritten /\ EndsExactly /\ ReadsTheFile
=============================================================================
