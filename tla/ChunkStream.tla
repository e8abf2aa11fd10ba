---------------------------- MODULE ChunkStream ----------------------------
(***************************************************************************)
(* RTMP chunking (protocol/rtmp/chunk.go, pack.go and the collector of     *)
(* message.go): one direction of a connection, from the ChunkPacker of the *)
(* sending side to the ChunkUnpacker and MessageCollector of the other.    *)
(*                                                                         *)
(* The packer belongs to a connection and is used without a lock by every  *)
(* goroutine that writes to it: the handler, which answers commands, and   *)
(* Sink.work, which writes media.  A goroutine serialises a message chunk  *)
(* by chunk into a buffer of its own and then writes the buffer with one   *)
(* Write, so the two can interleave between any two chunks.                *)
(*                                                                         *)
(* A payload of n bytes is the sequence of its n units <<id, k>>, where id *)
(* is the position of the message in `sent'.  The wire is a sequence of    *)
(* chunks with the header fields that are really written.  Byte lengths,   *)
(* the 24-bit limit 0xffffff and the 32-bit wrap of timestamps are scaled  *)
(* by constants.                                                           *)
(***************************************************************************)
EXTENDS Integers, Sequences, FiniteSets

CONSTANTS
    Writers,     \* goroutines that write to a connection
    Sides,       \* the sending sides looked at: sets of writers of one connection
    Foreign,     \* those that stand for another RTMP implementation
    Offers,      \* Offers[w]: the messages goroutine w may send
    Batch,       \* Batch[w]: messages serialised before one Write
    MaxMsgs,     \* bound: messages sent
    DefaultSize, \* chunk size both sides start with (128 in the code)
    Limit24,     \* largest value of the timestamp field (0xffffff)
    Wrap32       \* timestamps are computed modulo this (2^32)

TypeIDs == {1, 4, 5, 6, 8, 9, 18, 20}
Messages == [type : TypeIDs, ts : Nat, sid : Nat, len : Nat, size : Nat]

ASSUME WriterAssumption ==
    /\ Foreign \subseteq Writers /\ Sides \subseteq SUBSET Writers
    /\ Offers \in [Writers -> SUBSET Messages]
    /\ Batch \in [Writers -> Nat \ {0}]
ASSUME SizeAssumption ==
    /\ MaxMsgs \in Nat /\ DefaultSize \in Nat \ {0}
    /\ Limit24 \in Nat \ {0} /\ Wrap32 \in Nat
    /\ Wrap32 % (Limit24 + 1) = 0 /\ Wrap32 > Limit24
    /\ \A w \in Writers : \A m \in Offers[w] : m.ts < Wrap32

VARIABLES
    side,        \* the goroutines of this connection
    \* ChunkPacker
    sendChunkSize, sendStreams,
    \* the goroutines: the message being serialised and the buffer to write
    job, buf,
    wire,
    \* ChunkUnpacker and MessageCollector
    chunkSize, streams, collector, chunk, reader,
    \* history: messages begun, messages delivered, and for every chunk stream
    \* the timestamp of the last message sent with a complete header
    sent, got, base

packVars == <<sendChunkSize, sendStreams, job, base>>
readVars == <<chunkSize, streams, collector, chunk, reader, got>>
vars == <<side, packVars, buf, wire, readVars, sent>>

Csids == {2, 3, 4, 6}
Sids == {0} \cup UNION {{m.sid : m \in Offers[w]} : w \in Writers}

Header(ts, len, type, sid) ==
    [timestamp |-> ts, messageLength |-> len, messageTypeID |-> type,
     timeDelta |-> 0, messageStreamID |-> sid]
\* A ChunkStream whose fields are all zero, and a csid not in the map.
FreshStream == [hdr |-> Header(0, 0, 0, 0), remain |-> 0, known |-> TRUE]
NoStream == [FreshStream EXCEPT !.known = FALSE]
NoExt == -1
NoJob == [id |-> 0, hdr |-> Header(0, 0, 0, 0), csid |-> 0, todo |-> <<>>]
FreshCollector == [known |-> FALSE, collecting |-> FALSE, remain |-> 0,
                   hdr |-> Header(0, 0, 0, 0), data |-> <<>>]

\* What a reader of this repository makes of a message: the chunk stream, its
\* header fields, and the units of its payload.
NoChunk == [format |-> 0, csid |-> 0, hdr |-> Header(0, 0, 0, 0), data |-> <<>>]

Init ==
    /\ side \in Sides
    /\ sendChunkSize = DefaultSize
    /\ sendStreams = [c \in Csids |-> NoStream]
    /\ job = [w \in Writers |-> NoJob]
    /\ buf = [w \in Writers |-> <<>>]
    /\ wire = <<>>
    /\ chunkSize = DefaultSize
    /\ streams = [c \in Csids |-> NoStream]
    /\ collector = [s \in Sids |-> FreshCollector]
    /\ chunk = NoChunk
    /\ reader = "ok"
    /\ sent = <<>>
    /\ got = <<>>
    /\ base = [c \in Csids |-> 0]

(***************************************************************************)
(* The sending side.                                                       *)
(***************************************************************************)
\* MessageToChunk: the chunk stream of a message type.
CsidOf(type) ==
    CASE type \in 1 .. 6 -> 2
      [] type = 20       -> 3
      [] type \in {8, 18} -> 4
      [] type = 9        -> 6

Payload(id, len) == [k \in 1 .. len |-> <<id, k>>]

\* ToType0Chunk: the payload cut into pieces of at most size units; all the
\* chunks of a message share one header.  An empty payload has no chunk.
Pieces(payload, size) ==
    LET n == Len(payload) IN
    [i \in 1 .. (n + size - 1) \div size |->
        SubSeq(payload, (i - 1) * size + 1, IF i * size < n THEN i * size ELSE n)]

\* Protocol control messages carry message stream id 0, or MessageToChunk
\* returns an error and nothing is sent.
Accepted(m) == m.type \in 1 .. 6 => m.sid = 0

\* A chunk size is announced while the connection is set up, before another
\* goroutine writes to it; another implementation announces one between
\* messages.
Announcing(v) ==
    \/ job[v].hdr.messageTypeID = 1
    \/ \E i \in DOMAIN buf[v] : buf[v][i].type = 1
Settled(w, m) ==
    \A v \in Writers \ {w} :
        ~Announcing(v) /\ (m.type = 1 => job[v] = NoJob /\ buf[v] = <<>>)

\* The timestamps given to a chunk stream never decrease.
InOrder(m) ==
    \A i \in DOMAIN sent : CsidOf(sent[i].type) = CsidOf(m.type) => sent[i].ts <= m.ts

\* A goroutine begins a message.  Announcing a chunk size sets the packer's
\* own size first, as the connect handlers of both sides do.
BeginMessage(w, m) ==
    LET size == IF m.type = 1 THEN m.size ELSE sendChunkSize
        id == Len(sent) + 1 IN
    /\ job[w] = NoJob /\ Len(sent) < MaxMsgs /\ m \in Offers[w]
    /\ Accepted(m) /\ m.len > 0
    /\ Settled(w, m) /\ InOrder(m)
    /\ Cardinality({c.id : c \in {buf[w][i] : i \in DOMAIN buf[w]}}) < Batch[w]
    /\ sent' = Append(sent, m)
    /\ job' = [job EXCEPT ![w] =
                 [id |-> id, hdr |-> Header(m.ts, m.len, m.type, m.sid),
                  csid |-> CsidOf(m.type), todo |-> Pieces(Payload(id, m.len), size)]]
    /\ sendChunkSize' = size
    /\ UNCHANGED <<side, sendStreams, base, buf, wire, readVars>>

Wire(j, fmt, ts24, ext) ==
    [id |-> j.id, fmt |-> fmt, csid |-> j.csid, ts24 |-> ts24, ext |-> ext,
     len |-> j.hdr.messageLength, type |-> j.hdr.messageTypeID,
     sid |-> j.hdr.messageStreamID, data |-> Head(j.todo)]

\* The header forms.  Types 0 and 1 write the low 24 bits of timeDelta, which
\* is 0 in the header of a fresh message, and an extended field whenever the
\* timestamp exceeds the limit; type 2 writes the delta, extended when needed.
SerializerType0(j) ==
    Wire(j, 0, j.hdr.timeDelta % (Limit24 + 1),
         IF j.hdr.timestamp > Limit24 THEN j.hdr.timestamp ELSE NoExt)
SerializerType1(j) ==
    Wire(j, 1, j.hdr.timeDelta % (Limit24 + 1),
         IF j.hdr.timestamp > Limit24 THEN j.hdr.timeDelta ELSE NoExt)
SerializerType2(j, delta) ==
    IF delta < Limit24 THEN Wire(j, 2, delta, NoExt) ELSE Wire(j, 2, Limit24, delta)
SerializerType3(j) == Wire(j, 3, 0, NoExt)

IsProtoCtrlMsg(j) ==
    /\ j.csid = 2 /\ j.hdr.messageStreamID = 0
    /\ j.hdr.messageTypeID # 4 /\ j.hdr.messageTypeID < 7

\* The distance to the previous timestamp of the chunk stream, in 32 bits.
TimeDelta(j, cs) == (j.hdr.timestamp - cs.hdr.timestamp) % Wrap32
SameShape(h, g) ==
    h.messageLength = g.messageLength /\ h.messageTypeID = g.messageTypeID

NeedsType0(j, cs) ==
    \/ IsProtoCtrlMsg(j)
    \/ cs.hdr.messageStreamID # j.hdr.messageStreamID
    \/ ~cs.known

\* The previous header's length and type may be reused.
MayOmit(j, cs) == SameShape(j.hdr, cs.hdr)

\* Mutant: the stream's timestamp is not brought up to date.
MutRemember(cs, j, delta) ==
    [cs EXCEPT !.hdr = [j.hdr EXCEPT !.timeDelta = delta, !.timestamp = cs.hdr.timestamp]]

\* What a chunk of type 1 or 2 leaves in the ChunkStream.
Remember(cs, j, delta) == [cs EXCEPT !.hdr = [j.hdr EXCEPT !.timeDelta = delta]]

\* One turn of the loop of SerializerChunk, for the first piece of job j on
\* chunk stream cs: the new ChunkStream, the header (shared by the remaining
\* pieces) and the chunk that is written.
SerializeOne(j, cs) ==
    LET delta == TimeDelta(j, cs)
        h == [j EXCEPT !.hdr.timeDelta = delta] IN
    IF NeedsType0(j, cs)
    THEN [cs |-> [cs EXCEPT !.hdr = j.hdr, !.known = TRUE], job |-> j,
          out |-> SerializerType0(j)]
    ELSE IF MayOmit(j, cs)
    THEN IF cs.hdr.timestamp = j.hdr.timestamp \/ cs.hdr.timeDelta = delta
         THEN [cs |-> cs, job |-> j, out |-> SerializerType3(j)]
         ELSE [cs |-> Remember(cs, j, delta), job |-> h, out |-> SerializerType2(h, delta)]
    ELSE [cs |-> Remember(cs, j, delta), job |-> h, out |-> SerializerType1(h)]

\* Another implementation: a complete header on the first chunk of a message,
\* type 3 on the others, timestamps encoded as the reader expects them.
ForeignOne(j, first) ==
    IF ~first THEN SerializerType3(j)
    ELSE IF j.hdr.timestamp < Limit24 THEN Wire(j, 0, j.hdr.timestamp, NoExt)
    ELSE Wire(j, 0, Limit24, j.hdr.timestamp)

\* Mutant: only the first chunk of a message is serialised.
MutNextJob(j) == NoJob

\* The rest of a message after one of its chunks.
NextJob(j) == IF Len(j.todo) = 1 THEN NoJob ELSE [j EXCEPT !.todo = Tail(@)]

SerializerChunk(w) ==
    LET j == job[w]
        r == SerializeOne(j, sendStreams[j.csid]) IN
    /\ j # NoJob /\ w \notin Foreign
    /\ sendStreams' = [sendStreams EXCEPT ![j.csid] = r.cs]
    /\ job' = [job EXCEPT ![w] = NextJob(r.job)]
    /\ buf' = [buf EXCEPT ![w] = Append(@, r.out)]
    /\ base' = IF r.out.fmt = 0 THEN [base EXCEPT ![j.csid] = j.hdr.timestamp] ELSE base
    /\ UNCHANGED <<side, sendChunkSize, wire, readVars, sent>>

\* WriteMessage and the handlers end with one Write of the whole buffer.
Write(w) ==
    /\ job[w] = NoJob /\ buf[w] # <<>>
    /\ wire' = wire \o buf[w]
    /\ buf' = [buf EXCEPT ![w] = <<>>]
    /\ UNCHANGED <<side, packVars, readVars, sent>>

\* Another implementation may write each chunk on its own.
ForeignWrite(w) ==
    LET j == job[w] IN
    /\ w \in Foreign /\ j # NoJob
    /\ wire' = Append(wire, ForeignOne(j, Head(j.todo)[1][2] = 1))
    /\ job' = [job EXCEPT ![w] = NextJob(j)]
    /\ UNCHANGED <<side, sendChunkSize, sendStreams, base, buf, readVars, sent>>

(***************************************************************************)
(* The receiving side.                                                     *)
(***************************************************************************)
\* Mutant: the full field does not announce an extended one.
MutExpectsExt(c) == c.fmt # 3 /\ c.ts24 > Limit24

\* readChunkMessageHeader: the extended field is read exactly when the 24-bit
\* field is full, whatever the sender wrote.
ExpectsExt(c) == c.fmt # 3 /\ c.ts24 = Limit24
Framed(c) == ExpectsExt(c) = (c.ext # NoExt)
Stamp(c) == IF ExpectsExt(c) THEN c.ext ELSE c.ts24

\* The header a chunk is read with, before ReadChunk completes it.
ReadHeader(c) ==
    CASE c.fmt = 0 -> Header(Stamp(c), c.len, c.type, c.sid)
      [] c.fmt = 1 -> Header(Stamp(c), c.len, c.type, 0)
      [] c.fmt = 2 -> Header(Stamp(c), 0, 0, 0)
      [] c.fmt = 3 -> Header(0, 0, 0, 0)

\* The header of the message that starts with chunk c on stream cs.
StartHeader(c, cs) ==
    LET ts == (cs.hdr.timestamp + Stamp(c)) % Wrap32 IN
    CASE c.fmt = 0 -> ReadHeader(c)
      [] c.fmt = 1 -> Header(ts, c.len, c.type, cs.hdr.messageStreamID)
      [] c.fmt = 2 -> [cs.hdr EXCEPT !.timestamp = ts]
      [] c.fmt = 3 -> cs.hdr

\* ReadChunk: a chunk in the middle of a message keeps the header it was read
\* with, apart from the message stream id.
ReadChunk(c, cs0) ==
    LET start == cs0.remain = 0
        hdr == IF start THEN StartHeader(c, cs0)
               ELSE IF c.fmt = 0 THEN ReadHeader(c)
               ELSE [ReadHeader(c) EXCEPT !.messageStreamID = cs0.hdr.messageStreamID]
        cs == IF start THEN [cs0 EXCEPT !.hdr = hdr, !.remain = hdr.messageLength]
              ELSE cs0
        readLen == IF cs.remain > chunkSize THEN chunkSize ELSE cs.remain IN
    [framed |-> Framed(c) /\ readLen = Len(c.data),
     cs     |-> [cs EXCEPT !.remain = @ - readLen, !.known = TRUE],
     chunk  |-> [format |-> c.fmt, csid |-> c.csid, hdr |-> hdr, data |-> c.data]]

\* Mutant: one collector for all message streams.
MutCollectorKey(k) == 0

\* The collector's stream of a chunk.
CollectorKey(k) == k.hdr.messageStreamID

\* HandleReceiveChunk: chunks are collected per message stream.
NoMessage == [done |-> FALSE, hdr |-> Header(0, 0, 0, 0), data |-> <<>>]
HandleReceiveChunk(k, ms) ==
    LET data == ms.data \o k.data
        h == IF ms.collecting THEN ms.hdr ELSE k.hdr
        remain == IF ms.collecting THEN ms.remain - Len(k.data)
                  ELSE k.hdr.messageLength - Len(data)
        full == IF ms.collecting THEN remain = 0
                ELSE k.hdr.messageLength = Len(k.data) IN
    [panics |-> ~ms.known /\ k.format # 0,
     ms     |-> [known |-> TRUE, hdr |-> h, collecting |-> ~full, remain |-> remain,
                 data |-> IF full THEN <<>> ELSE data],
     msg    |-> IF full
                THEN [done |-> TRUE, hdr |-> h,
                      data |-> IF ms.collecting THEN data ELSE k.data]
                ELSE NoMessage]

\* getRtmpMessage refuses a control message outside chunk stream 2 or message
\* stream 0.
BadControl(msg, csid) ==
    /\ msg.done /\ msg.hdr.messageTypeID \in 1 .. 6
    /\ csid # 2 \/ msg.hdr.messageStreamID # 0

\* handleProtocolControlMessaage takes the announced chunk size.
Announced(msg) == sent[msg.data[1][1]].size

\* One turn of the loop of getRtmpMessage and, when it completes a message,
\* its handling.  Once the framing is lost the bytes are misread; the model
\* stops reading there.
Receive ==
    LET c == Head(wire)
        r == ReadChunk(c, streams[c.csid])
        k == r.chunk
        h == HandleReceiveChunk(k, collector[CollectorKey(k)]) IN
    /\ reader = "ok" /\ wire # <<>>
    /\ wire' = Tail(wire)
    /\ IF ~r.framed
       THEN reader' = "lost" /\ UNCHANGED <<streams, chunk, collector, got, chunkSize>>
       ELSE /\ streams' = [streams EXCEPT ![c.csid] = r.cs]
            /\ chunk' = k
            /\ IF h.panics
               THEN reader' = "panic" /\ UNCHANGED <<collector, got, chunkSize>>
               ELSE /\ collector' = [collector EXCEPT ![CollectorKey(k)] = h.ms]
                    /\ reader' = IF BadControl(h.msg, c.csid) THEN "refused" ELSE "ok"
                    /\ got' = IF h.msg.done /\ ~BadControl(h.msg, c.csid)
                              THEN Append(got, h.msg) ELSE got
                    /\ chunkSize' = IF h.msg.done /\ h.msg.hdr.messageTypeID = 1
                                    THEN Announced(h.msg) ELSE chunkSize
    /\ UNCHANGED <<side, packVars, buf, sent>>

Next ==
    \/ \E w \in side : \E m \in Offers[w] : BeginMessage(w, m)
    \/ \E w \in side : SerializerChunk(w) \/ Write(w) \/ ForeignWrite(w)
    \/ Receive

Spec == Init /\ [][Next]_vars

\* The unpacker never loses the place where a chunk begins, never refuses a
\* message and never panics, whatever headers SerializerChunk chose to omit
\* and whenever the announced chunk size took effect.
Framing == reader = "ok"

\* A delivered message is one that was sent: its payload is that message's,
\* whole, in order and with nothing of another message in it, and its type and
\* message stream are that message's; no message is delivered twice.
IsMessage(g, id) ==
    /\ g.data = Payload(id, sent[id].len)
    /\ g.hdr.messageTypeID = sent[id].type
    /\ g.hdr.messageStreamID = sent[id].sid
    /\ g.hdr.messageLength = sent[id].len
MessagesIntact ==
    /\ \A i \in DOMAIN got : \E id \in DOMAIN sent : IsMessage(got[i], id)
    /\ \A i, j \in DOMAIN got : i # j => got[i].data # got[j].data

\* When nothing is under way the two ends of a chunk stream agree on the
\* previous header, on which the next compressed header depends; the
\* receiver's clock of the stream is behind the sender's by the timestamp of
\* the stream's last complete header (which SerializerChunk writes as 0).
Quiet == wire = <<>> /\ \A w \in Writers : job[w] = NoJob /\ buf[w] = <<>>
EndsAgree ==
    Quiet /\ reader = "ok" =>
        \A c \in Csids : sendStreams[c].known =>
            /\ streams[c].known /\ streams[c].remain = 0
            /\ SameShape(streams[c].hdr, sendStreams[c].hdr)
            /\ streams[c].hdr.messageStreamID = sendStreams[c].hdr.messageStreamID
            /\ (streams[c].hdr.timestamp + base[c]) % Wrap32 = sendStreams[c].hdr.timestamp

\* Nothing is lost: when nothing is under way every message that was begun has
\* been delivered.
NothingLost ==
    Quiet => \A id \in DOMAIN sent : \E i \in DOMAIN got : IsMessage(got[i], id)

\* The circumstances in which the repository's own packer is right.  Timestamps
\* fit into the 24-bit field, a message that announces a chunk size fits into
\* every chunk, and goroutines that share a packer write on different chunk
\* streams, as the handler (2 and 3) and Sink.work (4 and 6) do with answers
\* and media.  Metadata is not among them: Sink.work sends it as a command, on
\* the chunk stream of the answers.
CsidsOf(w) == {CsidOf(m.type) : m \in Offers[w]}
Announcements == {m \in UNION {Offers[w] : w \in Writers \ Foreign} : m.type = 1}
Tame ==
    /\ \A w \in Writers \ Foreign : \A m \in Offers[w] : m.ts < Limit24
    /\ \A m \in Announcements :
         m.len <= DefaultSize /\ \A n \in Announcements : m.len <= n.size
    /\ \A S \in Sides : \A v, w \in S : v # w => CsidsOf(v) \cap CsidsOf(w) = {}

\* The sending side is this repository's.
OwnSide == side \cap Foreign = {}

=============================================================================
