------------------------- MODULE RtmpSessionProofs -------------------------
(***************************************************************************)
(* The invariants of RtmpSession.                                          *)
(*                                                                         *)
(* Between the repository's own ends every message has a place in one of   *)
(* two fixed conversations, the client's and the server's.  The invariant  *)
(* says that p messages of the first and q of the second have been read    *)
(* and that the queues are what follows; the state of each end is then a   *)
(* matter of what it has read, and what it has sent is what the other has  *)
(* read and the queue between them.  Another server follows no script:     *)
(* there the invariant is about which answers can be on the way.           *)
(***************************************************************************)
EXTENDS RtmpSession, SequenceTheorems, TLAPS

\* The messages the ends write.
Names ==
    {"WindowAck", "PeerBandwidth", "SetChunkSize", "StreamBegin",
     "StreamIsRecorded", "SetBufferLength", "_result", "_error", "onStatus",
     "connect", "releaseStream", "FCPublish", "createStream", "publish",
     "getStreamLength", "play", "audio", "video", "@setDataFrame"}

Codes ==
    {"none", "app", "number", "undefined", "NetConnection.Connect.Success",
     "NetConnection.Connect.Rejected", "NetStream.Publish.Start",
     "NetStream.Publish.BadName", "NetStream.Play.Reset", "NetStream.Play.Start",
     "NetStream.Play.StreamNotFound", "NetStream.Data.Start",
     "NetStream.Play.PublishNotify"}

Msgs ==
    [type : {"control", "user", "audio", "video", "data", "command"},
     name : Names, trans : Int, sid : Int, code : Codes, num : Int,
     chunk : Int]

ServerPhases == {"handshake", "loop", "publish", "play", "closed", "panic"}

ServerStatuses ==
    {"zero", "hand_success", "connect_success", "connect_fail",
     "crtstrm_success", "publish_success", "play_start", "stop"}

Handlers ==
    [phase : ServerPhases, status : ServerStatuses, app : BOOLEAN,
     role : Roles \cup {"none"}, putMsg : BOOLEAN, videoCodecID : Int,
     audioCodecID : Int, streamId : Int, send : Int, recv : Int]

ClientPhases ==
    {"start", "connect", "report", "transmit", "reportFalse", "onError", "done",
     "panic"}

ClientStatuses ==
    {"init", "connect_send", "connect_success", "crtstm_send",
     "crtstrm_success", "publish_send", "publish_success", "play_send",
     "stream_is_record", "stream_begin", "play_reset", "play_start",
     "send_fail"}

Clients ==
    [role : {"publish", "play"}, phase : ClientPhases, status : ClientStatuses,
     transactionId : Int, streamId : Int, send : Int, recv : Int, err : BOOLEAN]

TypeOK ==
    /\ toServer \in Seq(Msgs) /\ toClient \in Seq(Msgs)
    /\ srv \in Handlers /\ cli \in Clients
    /\ registered \subseteq Roles
    /\ peer \in {"golive", "any"}
    /\ verdict \in {"none", "granted", "rejected", "unheard"}

(***************************************************************************)
(* The conversation of the repository's two ends.                          *)
(***************************************************************************)
\* m is the k-th message of a client.
FromClient(role, k, m) ==
    /\ k = 1 => /\ m.type = "command" /\ m.name = "connect" /\ m.code = "app"
                /\ m.chunk = DefaultChunkSize
    /\ k = 2 => /\ m.type = "control" /\ m.name = "SetChunkSize"
                /\ m.num = LargeChunkSize
    /\ k > 2 => m.chunk = LargeChunkSize
    /\ k # 2 => m.name # "SetChunkSize"
    /\ role = "publish" =>
         /\ k \in {3, 4} => m.type = "command" /\ m.name \in {"releaseStream", "FCPublish"}
         /\ k = 5 => m.type = "command" /\ m.name = "createStream"
         /\ k = 6 => m.type = "command" /\ m.name = "publish"
         /\ k > 6 => m.type \in {"audio", "video"}
    /\ role = "play" =>
         /\ k = 3 => m.type = "control"
         /\ k = 4 => m.type = "command" /\ m.name = "createStream"
         /\ k = 5 => m.type = "command" /\ m.name = "getStreamLength"
         /\ k = 6 => m.type = "command" /\ m.name = "play"
         /\ k = 7 => m.type = "user"
         /\ k < 8

\* m is the k-th message of the server to that client.
FromServer(role, k, m) ==
    /\ k < 4 => m.type = "control"
    /\ k = 3 => m.name = "SetChunkSize" /\ m.num = LargeChunkSize
    /\ k # 3 => m.name # "SetChunkSize"
    /\ k > 3 => m.chunk = LargeChunkSize
    /\ k = 4 => /\ m.type = "command" /\ m.name = "_result" /\ m.trans = 1
                /\ m.code = "NetConnection.Connect.Success"
    /\ k = 5 => m.type = "command" /\ m.name = "_result" /\ m.code = "number"
    /\ role = "publish" =>
         /\ k = 6 => m.type = "command"
         /\ k < 7
    /\ role = "play" =>
         /\ k = 6 => m.type = "user" /\ m.name = "StreamIsRecorded"
         /\ k = 7 => m.type = "user" /\ m.name = "StreamBegin"
         /\ k \in {8, 9} => m.type = "command" /\ m.name = "onStatus" /\ m.trans = 0
         /\ k = 8 => m.code # "NetStream.Play.Start"
         /\ k = 9 => m.code = "NetStream.Play.Start"
         /\ k \in {10, 11} => m.type = "command"
         /\ k > 11 => m.type \in {"audio", "video", "command"}
    /\ k < 12 => m.name # "@setDataFrame"

\* The status of a client that has read q messages, and how many it has sent.
StatusAt(role, q) ==
    IF q < 4 THEN "connect_send"
    ELSE IF q = 4 THEN "crtstm_send"
    ELSE IF role = "publish"
    THEN IF q = 5 THEN "publish_send" ELSE "publish_success"
    ELSE IF q = 5 THEN "play_send"
    ELSE IF q = 6 THEN "stream_is_record"
    ELSE IF q = 7 THEN "stream_begin"
    ELSE IF q = 8 THEN "play_reset" ELSE "play_start"

SentAt(role, q) ==
    IF q < 4 THEN 1
    ELSE IF q = 4 THEN IF role = "publish" THEN 5 ELSE 4
    ELSE IF role = "publish" THEN 6 ELSE 7

\* The client c that has read q messages and sent b.
ClientAt(c, q, b) ==
    /\ c.phase # "panic"
    /\ c.recv = IF q < 3 THEN DefaultChunkSize ELSE LargeChunkSize
    /\ q < 4 => b < 2
    /\ c.role = "play" /\ q > 8 => c.status = "play_start"
    /\ c.status = "publish_success" => c.role = "publish" /\ q = 6
    /\ c.phase = "start" =>
         q = 0 /\ b = 0 /\ c.status = "init" /\ c.send = DefaultChunkSize
    /\ c.phase = "connect" =>
         /\ c.status = StatusAt(c.role, q) /\ b = SentAt(c.role, q)
         /\ c.send = IF q < 4 THEN DefaultChunkSize ELSE LargeChunkSize
         /\ c.role = "publish" => q < 6
    /\ c.phase \in {"report", "transmit"} =>
         /\ c.role = "publish" /\ b > 5 /\ c.status = "publish_success"
         /\ c.send = LargeChunkSize

\* The place of createStream in what the client sends.
CreateAt(role) == IF role = "publish" THEN 5 ELSE 4

\* The server h, known to the exchanger as reg, that has read p messages of a
\* client of that role and written d.
ServerAt(role, h, reg, p, d) ==
    /\ h.phase # "panic"
    /\ h.recv = IF p < 2 THEN DefaultChunkSize ELSE LargeChunkSize
    /\ h.phase = "handshake" => p = 0
    /\ h.phase \in {"publish", "play"} => h.phase = role /\ p = 6
    /\ h.phase \in {"handshake", "loop"} /\ p = 0 =>
         d = 0 /\ h.send = DefaultChunkSize
    /\ h.phase = "loop" =>
         /\ p = 0 => h.status = "hand_success"
         /\ p \in 1..(CreateAt(role) - 1) =>
              \/ h.status = "connect_success" /\ d = 4
              \/ h.status = "connect_fail" /\ d = 0
         /\ p \in CreateAt(role)..5 => d = 5
         /\ p > 0 /\ p < 6 => h.app
         /\ p > 5 /\ role = "publish" => h.putMsg /\ "source" \in reg
    /\ p > 0 /\ d > 0 /\ h.phase \in {"loop", "play", "publish"} => h.send = LargeChunkSize
    /\ h.phase \in {"publish", "loop"} /\ p > 5 /\ role = "publish" => d = 6
    /\ h.phase \in {"play", "loop"} /\ p > 5 /\ role = "play" => d > 10
    /\ "sink" \in reg => role = "play" /\ p > 5

InStep(p, q) ==
    /\ \A i \in 1..Len(toServer) : FromClient(cli.role, p + i, toServer[i])
    /\ \A i \in 1..Len(toClient) : FromServer(cli.role, q + i, toClient[i])
    /\ ClientAt(cli, q, p + Len(toServer))
    /\ ServerAt(cli.role, srv, registered, p, q + Len(toClient))

(***************************************************************************)
(* Another server.                                                         *)
(***************************************************************************)
\* What the client may be sent once the server's verdict is v.
Possible(m, v) ==
    /\ m.type \in {"control", "user", "command"} /\ m.name # "@setDataFrame"
    /\ m.code = "number" => m.num = AssignedId
    /\ m.code = "NetStream.Publish.Start" => v = "granted"
    /\ m.code = "NetConnection.Connect.Rejected" <=> v = "rejected"

Answered ==
    /\ \A i \in 1..Len(toClient) : Possible(toClient[i], verdict)
    /\ cli.phase = "panic" => verdict = "rejected"
    /\ verdict = "rejected" => toServer = <<>> /\ cli.status = "connect_send"
    /\ cli.phase = "start" => toServer = <<>> /\ toClient = <<>> /\ cli.status = "init"
    /\ cli.phase = "start" => verdict = "none"
    /\ \A i \in 1..Len(toServer) : toServer[i].name = "connect" =>
         /\ Len(toServer) = 1 /\ toClient = <<>> /\ verdict = "none"
         /\ cli.status = "connect_send"
    /\ cli.status \in {"publish_send", "publish_success"} => cli.streamId = AssignedId
    /\ cli.status = "publish_success" => verdict = "granted"
    /\ cli.phase \in {"report", "transmit"} => cli.status = "publish_success"
    /\ app = "streaming" => verdict = "granted"
    /\ srv.phase = "handshake"

SessionInv ==
    /\ TypeOK
    /\ peer = "golive" => \E p, q \in Nat : InStep(p, q)
    /\ peer = "any" => Answered

(***************************************************************************)
(* Queues.                                                                 *)
(***************************************************************************)
\* What reading the first message of a queue leaves.
LEMMA ReadOne ==
    ASSUME NEW s \in Seq(Msgs), s # <<>>
    PROVE  /\ Tail(s) \in Seq(Msgs) /\ Len(Tail(s)) = Len(s) - 1
           /\ Head(s) = s[1] /\ Head(s) \in Msgs
           /\ Len(s) \in Nat \ {0}
           /\ \A i \in 1..(Len(s) - 1) : Tail(s)[i] = s[i + 1]
OBVIOUS

\* What writing a series of messages makes of a queue.
LEMMA WriteAll ==
    ASSUME NEW s \in Seq(Msgs), NEW t \in Seq(Msgs)
    PROVE  /\ s \o t \in Seq(Msgs) /\ Len(s \o t) = Len(s) + Len(t)
           /\ Len(s) \in Nat /\ Len(t) \in Nat
           /\ \A i \in 1..Len(s) : (s \o t)[i] = s[i]
           /\ \A i \in 1..Len(t) : (s \o t)[Len(s) + i] = t[i]
OBVIOUS

\* c is message m, cut with that chunk size.
CutFrom(c, m, size) ==
    /\ c \in Msgs /\ c.chunk = size
    /\ c.type = m.type /\ c.name = m.name /\ c.trans = m.trans
    /\ c.code = m.code /\ c.num = m.num

LEMMA CutMessage ==
    ASSUME NEW m \in Msgs, NEW size \in Int
    PROVE  CutFrom([m EXCEPT !.chunk = size], m, size)
BY DEF Msgs, CutFrom

\* Appending a message is writing a series of one.
LEMMA AppendIsWrite ==
    ASSUME NEW s \in Seq(Msgs), NEW t \in Seq(Msgs), Len(t) = 1
    PROVE  Append(s, t[1]) = s \o t
<1>1. t[1] \in Msgs
  OBVIOUS
<1>2. t = <<t[1]>>
  OBVIOUS
<1> QED BY <1>1, <1>2, AppendIsConcat

\* Cutting messages changes nothing but the chunk size they remember.
LEMMA CutIsWellFormed ==
    ASSUME NEW msgs \in Seq(Msgs), NEW size \in Int
    PROVE  /\ Cut(msgs, size) \in Seq(Msgs) /\ Len(Cut(msgs, size)) = Len(msgs)
           /\ \A i \in 1..Len(msgs) : CutFrom(Cut(msgs, size)[i], msgs[i], size)
<1>1. PICK n \in Nat : n = Len(msgs) /\ DOMAIN msgs = 1..n
  OBVIOUS
<1>2. \A i \in 1..n : msgs[i] \in Msgs
  BY <1>1
<1>3. Cut(msgs, size) = [i \in 1..n |-> [msgs[i] EXCEPT !.chunk = size]]
  BY <1>1, Zenon DEF Cut
<1>4. PICK c : c = Cut(msgs, size)
  OBVIOUS
<1>5. \A i \in 1..n : c[i] = [msgs[i] EXCEPT !.chunk = size]
  BY <1>3, <1>4, Zenon
<1>6. \A i \in 1..n : CutFrom(c[i], msgs[i], size)
  BY <1>2, <1>5, CutMessage, Zenon
<1>7. \A i \in 1..n : c[i] \in Msgs
  BY <1>6 DEF CutFrom
<1>8. c = [i \in 1..n |-> c[i]]
  BY <1>3, <1>4, Zenon
<1>9. c \in [1..n -> Msgs]
  BY <1>7, <1>8
<1>10. c \in Seq(Msgs) /\ Len(c) = n
  BY <1>9
<1> QED BY <1>1, <1>4, <1>6, <1>10

\* The first messages of a series.
LEMMA PrefixIsWellFormed ==
    ASSUME NEW msgs \in Seq(Msgs), NEW n \in 0..Len(msgs)
    PROVE  /\ SubSeq(msgs, 1, n) \in Seq(Msgs) /\ Len(SubSeq(msgs, 1, n)) = n
           /\ \A i \in 1..n : SubSeq(msgs, 1, n)[i] = msgs[i]
OBVIOUS

\* The client's conversation goes on where the queue ends.
LEMMA ClientWrites ==
    ASSUME NEW s \in Seq(Msgs), NEW t \in Seq(Msgs), NEW p \in Nat, NEW role,
           \A i \in 1..Len(s) : FromClient(role, p + i, s[i]),
           \A i \in 1..Len(t) : FromClient(role, p + Len(s) + i, t[i])
    PROVE  \A i \in 1..Len(s \o t) : FromClient(role, p + i, (s \o t)[i])
<1>0. Len(s) \in Nat /\ Len(t) \in Nat /\ s \o t \in Seq(Msgs)
  BY WriteAll
<1>1. PICK n \in Nat, k \in Nat, u \in Seq(Msgs) : n = Len(s) /\ k = Len(t) /\ u = s \o t
  BY <1>0
<1>2. /\ Len(u) = n + k /\ \A i \in 1..n : u[i] = s[i]
      /\ \A i \in 1..k : u[n + i] = t[i]
  BY <1>1, WriteAll
<1> SUFFICES ASSUME NEW i \in 1..(n + k) PROVE FromClient(role, p + i, u[i])
  BY <1>1, <1>2
<1>3. CASE i \in 1..n
  BY <1>1, <1>2, <1>3
<1>4. CASE i \notin 1..n
  <2>1. PICK j \in 1..k : i = n + j
    <3>1. i - n \in 1..k /\ i = n + (i - n)
      BY <1>4
    <3> QED BY <3>1
  <2>2. p + n + j = p + i
    BY <2>1
  <2>3. u[i] = t[j]
    BY <1>2, <2>1
  <2> QED BY <1>1, <2>1, <2>2, <2>3
<1> QED BY <1>3, <1>4

LEMMA ServerWrites ==
    ASSUME NEW s \in Seq(Msgs), NEW t \in Seq(Msgs), NEW q \in Nat, NEW role,
           \A i \in 1..Len(s) : FromServer(role, q + i, s[i]),
           \A i \in 1..Len(t) : FromServer(role, q + Len(s) + i, t[i])
    PROVE  \A i \in 1..Len(s \o t) : FromServer(role, q + i, (s \o t)[i])
<1>0. Len(s) \in Nat /\ Len(t) \in Nat /\ s \o t \in Seq(Msgs)
  BY WriteAll
<1>1. PICK n \in Nat, k \in Nat, u \in Seq(Msgs) : n = Len(s) /\ k = Len(t) /\ u = s \o t
  BY <1>0
<1>2. /\ Len(u) = n + k /\ \A i \in 1..n : u[i] = s[i]
      /\ \A i \in 1..k : u[n + i] = t[i]
  BY <1>1, WriteAll
<1> SUFFICES ASSUME NEW i \in 1..(n + k) PROVE FromServer(role, q + i, u[i])
  BY <1>1, <1>2
<1>3. CASE i \in 1..n
  BY <1>1, <1>2, <1>3
<1>4. CASE i \notin 1..n
  <2>1. PICK j \in 1..k : i = n + j
    <3>1. i - n \in 1..k /\ i = n + (i - n)
      BY <1>4
    <3> QED BY <3>1
  <2>2. q + n + j = q + i
    BY <2>1
  <2>3. u[i] = t[j]
    BY <1>2, <2>1
  <2> QED BY <1>1, <2>1, <2>2, <2>3
<1> QED BY <1>3, <1>4

\* The rest of a queue continues the conversation after its first message.
LEMMA ClientRead ==
    ASSUME NEW s \in Seq(Msgs), s # <<>>, NEW p \in Nat, NEW role,
           \A i \in 1..Len(s) : FromClient(role, p + i, s[i])
    PROVE  /\ FromClient(role, p + 1, Head(s))
           /\ \A i \in 1..Len(Tail(s)) : FromClient(role, p + 1 + i, Tail(s)[i])
<1>1. FromClient(role, p + 1, Head(s))
  BY ReadOne
<1>2. ASSUME NEW i \in 1..Len(Tail(s))
      PROVE  FromClient(role, p + 1 + i, Tail(s)[i])
  <2>1. i \in 1..(Len(s) - 1) /\ i + 1 \in 1..Len(s) /\ p + 1 + i = p + (i + 1)
    BY ReadOne
  <2>2. Tail(s)[i] = s[i + 1]
    BY ReadOne, <2>1
  <2> QED BY <2>1, <2>2
<1> QED BY <1>1, <1>2

LEMMA ServerRead ==
    ASSUME NEW s \in Seq(Msgs), s # <<>>, NEW q \in Nat, NEW role,
           \A i \in 1..Len(s) : FromServer(role, q + i, s[i])
    PROVE  /\ FromServer(role, q + 1, Head(s))
           /\ \A i \in 1..Len(Tail(s)) : FromServer(role, q + 1 + i, Tail(s)[i])
<1>1. FromServer(role, q + 1, Head(s))
  BY ReadOne
<1>2. ASSUME NEW i \in 1..Len(Tail(s))
      PROVE  FromServer(role, q + 1 + i, Tail(s)[i])
  <2>1. i \in 1..(Len(s) - 1) /\ i + 1 \in 1..Len(s) /\ q + 1 + i = q + (i + 1)
    BY ReadOne
  <2>2. Tail(s)[i] = s[i + 1]
    BY ReadOne, <2>1
  <2> QED BY <2>1, <2>2
<1> QED BY <1>1, <1>2

(***************************************************************************)
(* What the server writes.                                                 *)
(***************************************************************************)
LEMMA ControlType ==
    ASSUME NEW name \in Names, NEW num \in Int, NEW m, m = Control(name, num)
    PROVE  m \in Msgs /\ m.type = "control" /\ m.name = name /\ m.num = num
BY DEF Control, Message, Msgs, Codes, DefaultChunkSize

LEMMA UserType ==
    ASSUME NEW name \in Names, NEW num \in Int, NEW m, m = UserControl(name, num)
    PROVE  m \in Msgs /\ m.type = "user" /\ m.name = name
BY DEF UserControl, Message, Msgs, Codes, DefaultChunkSize

LEMMA CommandType ==
    ASSUME NEW name \in Names, NEW trans \in Int, NEW sid \in Int,
           NEW code \in Codes, NEW num \in Int,
           NEW m, m = Command(name, trans, sid, code, num)
    PROVE  /\ m \in Msgs /\ m.type = "command" /\ m.name = name
           /\ m.trans = trans /\ m.code = code /\ m.num = num
BY DEF Command, Message, Msgs, DefaultChunkSize

LEMMA MediaType ==
    ASSUME NEW type \in {"audio", "video"}, NEW sid \in Int, NEW codec \in Int,
           NEW m, m = Media(type, sid, codec)
    PROVE  m \in Msgs /\ m.type = type /\ m.name = type /\ m.code = "none"
BY DEF Media, Message, Msgs, Codes, Names, DefaultChunkSize

\* The two messages whose content nobody reads.
LEMMA AckType ==
    /\ NewAckMessage \in Msgs /\ NewSetPeerBandwidthMessage \in Msgs
    /\ NewAckMessage.type = "control" /\ NewAckMessage.name = "WindowAck"
    /\ NewSetPeerBandwidthMessage.type = "control"
    /\ NewSetPeerBandwidthMessage.name = "PeerBandwidth"
<1>1. "WindowAck" \in Names /\ "PeerBandwidth" \in Names
  BY DEF Names
<1> QED BY <1>1, ControlType, SMT DEF NewAckMessage, NewSetPeerBandwidthMessage

LEMMA ChunkSizes == LargeChunkSize \in Int /\ DefaultChunkSize \in Int
BY DEF LargeChunkSize, DefaultChunkSize

LEMMA SetChunkSizeType ==
    ASSUME NEW m, m = NewSetChunkSizeMessage(LargeChunkSize)
    PROVE  /\ m \in Msgs /\ m.type = "control" /\ m.name = "SetChunkSize"
           /\ m.num = LargeChunkSize
<1>1. "SetChunkSize" \in Names
  BY DEF Names
<1> QED BY <1>1, ControlType, ChunkSizes, SMT DEF NewSetChunkSizeMessage

\* The answers to connect, createStream and publish.
LEMMA ResultType ==
    ASSUME NEW trans \in Int
    PROVE  /\ LET m == NewConnectSuccessMessage
               IN  /\ m \in Msgs /\ m.type = "command" /\ m.name = "_result"
                   /\ m.trans = 1 /\ m.code = "NetConnection.Connect.Success"
           /\ LET m == NewCreateStreamSuccessMessage(trans)
               IN  /\ m \in Msgs /\ m.type = "command" /\ m.name = "_result"
                   /\ m.code = "number" /\ m.num = 1
           /\ LET m == NewPublishSuccessMessage
               IN  /\ m \in Msgs /\ m.type = "command" /\ m.name = "onStatus"
                   /\ m.code = "NetStream.Publish.Start"
<1>1. {"_result", "onStatus"} \subseteq Names
  BY DEF Names
<1>2. {"NetConnection.Connect.Success", "number", "NetStream.Publish.Start"} \subseteq Codes
  BY DEF Codes
<1> QED BY <1>1, <1>2, CommandType
        DEF NewConnectSuccessMessage, NewCreateStreamSuccessMessage, NewPublishSuccessMessage

LEMMA StatusType ==
    ASSUME NEW sid \in Int, NEW code \in Codes, NEW m, m = NewOnStatusMessage(sid, code)
    PROVE  /\ m \in Msgs /\ m.type = "command" /\ m.name = "onStatus"
           /\ m.trans = 0 /\ m.code = code
<1>1. "onStatus" \in Names
  BY DEF Names
<1> QED BY <1>1, CommandType DEF NewOnStatusMessage

\* The four messages that answer connect.
LEMMA ConnectAnswerScript ==
    ASSUME srv.send \in Int, NEW role \in {"publish", "play"}
    PROVE  /\ ConnectAnswer \in Seq(Msgs) /\ Len(ConnectAnswer) = 4
           /\ \A i \in 1..4 : FromServer(role, i, ConnectAnswer[i])
<1>1. PICK ack \in Msgs : /\ ack = NewAckMessage
                          /\ ack.type = "control" /\ ack.name = "WindowAck"
  BY AckType
<1>2. PICK bw \in Msgs : /\ bw = NewSetPeerBandwidthMessage
                         /\ bw.type = "control" /\ bw.name = "PeerBandwidth"
  BY AckType
<1>3. PICK sz \in Msgs : /\ sz = NewSetChunkSizeMessage(LargeChunkSize)
                         /\ sz.type = "control" /\ sz.name = "SetChunkSize"
                         /\ sz.num = LargeChunkSize
  BY SetChunkSizeType
<1>4. PICK ok \in Msgs : /\ ok = NewConnectSuccessMessage
                         /\ ok.type = "command" /\ ok.name = "_result" /\ ok.trans = 1
                         /\ ok.code = "NetConnection.Connect.Success"
  BY ResultType
<1>5. PICK s : s = <<ack, bw>>
  OBVIOUS
<1>6. PICK t : t = <<sz, ok>>
  OBVIOUS
<1>7. /\ s \in Seq(Msgs) /\ Len(s) = 2 /\ s[1] = ack /\ s[2] = bw
      /\ t \in Seq(Msgs) /\ Len(t) = 2 /\ t[1] = sz /\ t[2] = ok
  BY <1>1, <1>2, <1>3, <1>4, <1>5, <1>6
<1>9. PICK cs : cs = Cut(s, srv.send)
  OBVIOUS
<1>10. PICK ct : ct = Cut(t, LargeChunkSize)
  OBVIOUS
<1>11. /\ cs \in Seq(Msgs) /\ Len(cs) = 2
       /\ CutFrom(cs[1], ack, srv.send) /\ CutFrom(cs[2], bw, srv.send)
  BY <1>7, <1>9, CutIsWellFormed
<1>12. /\ ct \in Seq(Msgs) /\ Len(ct) = 2
       /\ CutFrom(ct[1], sz, LargeChunkSize) /\ CutFrom(ct[2], ok, LargeChunkSize)
  BY <1>7, ChunkSizes, <1>10, CutIsWellFormed
<1>13. PICK a : a = ConnectAnswer
  OBVIOUS
<1>14. a = cs \o ct
  BY <1>1, <1>2, <1>3, <1>4, <1>5, <1>6, <1>9, <1>10, <1>13 DEF ConnectAnswer
<1>15. /\ a \in Seq(Msgs) /\ Len(a) = 4 /\ a[1] = cs[1] /\ a[2] = cs[2]
       /\ a[3] = ct[1] /\ a[4] = ct[2]
  <2>1. /\ a \in Seq(Msgs) /\ Len(a) = 4 /\ \A i \in 1..2 : a[i] = cs[i]
        /\ \A i \in 1..2 : a[2 + i] = ct[i]
    <3>1. /\ a \in Seq(Msgs) /\ Len(a) = Len(cs) + Len(ct)
          /\ \A i \in 1..Len(cs) : a[i] = cs[i]
          /\ \A i \in 1..Len(ct) : a[Len(cs) + i] = ct[i]
      <4>1. cs \in Seq(Msgs) /\ ct \in Seq(Msgs)
        BY <1>11, <1>12
      <4> QED BY <4>1, <1>14, WriteAll
    <3>2. Len(cs) = 2 /\ Len(ct) = 2
      BY <1>11, <1>12
    <3> QED BY <3>1, <3>2
  <2>2. a[2 + 1] = ct[1] /\ a[2 + 2] = ct[2]
    BY <2>1
  <2> QED BY <2>1, <2>2
<1>16. FromServer(role, 1, a[1]) /\ FromServer(role, 2, a[2])
  <2>1. a[1].type = "control" /\ a[1].name = "WindowAck"
    BY <1>1, <1>11, <1>15 DEF CutFrom
  <2>2. a[2].type = "control" /\ a[2].name = "PeerBandwidth"
    BY <1>2, <1>11, <1>15 DEF CutFrom
  <2> QED BY <2>1, <2>2 DEF FromServer
<1>17. FromServer(role, 3, a[3]) /\ FromServer(role, 4, a[4])
  <2>1. a[3].type = "control" /\ a[3].name = "SetChunkSize" /\ a[3].num = LargeChunkSize
    BY <1>3, <1>12, <1>15 DEF CutFrom
  <2>2. /\ a[4].type = "command" /\ a[4].name = "_result" /\ a[4].trans = 1
        /\ a[4].code = "NetConnection.Connect.Success" /\ a[4].chunk = LargeChunkSize
    BY <1>4, <1>12, <1>15 DEF CutFrom
  <2> QED BY <2>1, <2>2 DEF FromServer
<1>18. \A i \in 1..4 : FromServer(role, i, a[i])
  <2> SUFFICES ASSUME NEW i \in 1..4 PROVE FromServer(role, i, a[i])
    OBVIOUS
  <2>1. i = 1 \/ i = 2 \/ i = 3 \/ i = 4
    OBVIOUS
  <2> QED BY <2>1, <1>16, <1>17
<1> QED BY <1>13, <1>15, <1>18

\* The answers to createStream and to publish are one message each.
LEMMA OneAnswer ==
    ASSUME NEW m \in Msgs, NEW size \in Int
    PROVE  /\ Cut(<<m>>, size) \in Seq(Msgs) /\ Len(Cut(<<m>>, size)) = 1
           /\ CutFrom(Cut(<<m>>, size)[1], m, size)
<1>1. PICK s : s = <<m>>
  OBVIOUS
<1>2. s \in Seq(Msgs) /\ Len(s) = 1 /\ s[1] = m
  BY <1>1
<1> QED BY <1>1, <1>2, CutIsWellFormed

LEMMA CreateAnswerScript ==
    ASSUME NEW trans \in Int, NEW role \in {"publish", "play"}
    PROVE  LET a == Cut(<<NewCreateStreamSuccessMessage(trans)>>, LargeChunkSize)
           IN  a \in Seq(Msgs) /\ Len(a) = 1 /\ FromServer(role, 5, a[1])
<1>1. PICK m \in Msgs : /\ m = NewCreateStreamSuccessMessage(trans)
                        /\ m.type = "command" /\ m.name = "_result" /\ m.code = "number"
  BY ResultType
<1>2. PICK a : a = Cut(<<m>>, LargeChunkSize)
  OBVIOUS
<1>3. a \in Seq(Msgs) /\ Len(a) = 1 /\ CutFrom(a[1], m, LargeChunkSize)
  BY ChunkSizes, <1>2, OneAnswer
<1>4. /\ a[1].type = "command" /\ a[1].name = "_result" /\ a[1].code = "number"
      /\ a[1].chunk = LargeChunkSize
  BY <1>1, <1>3 DEF CutFrom
<1>5. FromServer(role, 5, a[1])
  BY <1>4 DEF FromServer
<1> QED BY <1>1, <1>2, <1>3, <1>5

LEMMA PublishAnswerScript ==
    LET a == Cut(<<NewPublishSuccessMessage>>, LargeChunkSize)
    IN  a \in Seq(Msgs) /\ Len(a) = 1 /\ FromServer("publish", 6, a[1])
<1>1. PICK m \in Msgs : /\ m = NewPublishSuccessMessage
                        /\ m.type = "command" /\ m.name = "onStatus"
  BY ResultType, 1 \in Int
<1>2. PICK a : a = Cut(<<m>>, LargeChunkSize)
  OBVIOUS
<1>3. a \in Seq(Msgs) /\ Len(a) = 1 /\ CutFrom(a[1], m, LargeChunkSize)
  BY ChunkSizes, <1>2, OneAnswer
<1>4. a[1].type = "command" /\ a[1].name = "onStatus" /\ a[1].chunk = LargeChunkSize
  BY <1>1, <1>3 DEF CutFrom
<1>5. FromServer("publish", 6, a[1])
  BY <1>4 DEF FromServer
<1> QED BY <1>1, <1>2, <1>3, <1>5

LEMMA PlayAnswerType ==
    ASSUME NEW sid \in Int
    PROVE  LET w == PlayAnswer(sid)
           IN  /\ w \in Seq(Msgs) /\ Len(w) = 6
               /\ w[1].type = "user" /\ w[1].name = "StreamIsRecorded"
               /\ w[2].type = "user" /\ w[2].name = "StreamBegin"
               /\ \A i \in 3..6 :
                    w[i].type = "command" /\ w[i].name = "onStatus" /\ w[i].trans = 0
               /\ w[3].code # "NetStream.Play.Start"
               /\ w[4].code = "NetStream.Play.Start"
<1>0. /\ {"StreamIsRecorded", "StreamBegin"} \subseteq Names
      /\ {"NetStream.Play.Reset", "NetStream.Play.Start", "NetStream.Data.Start",
          "NetStream.Play.PublishNotify"} \subseteq Codes
  BY DEF Names, Codes
<1>1. PICK m1 \in Msgs : /\ m1 = NewStreamIsRecorded(sid)
                         /\ m1.type = "user" /\ m1.name = "StreamIsRecorded"
  BY <1>0, UserType DEF NewStreamIsRecorded
<1>2. PICK m2 \in Msgs : /\ m2 = NewStreamBegin(sid)
                         /\ m2.type = "user" /\ m2.name = "StreamBegin"
  BY <1>0, UserType DEF NewStreamBegin
<1>3. PICK m3 \in Msgs : /\ m3 = NewPlayResetMessage(sid)
                         /\ m3.type = "command" /\ m3.name = "onStatus" /\ m3.trans = 0
                         /\ m3.code = "NetStream.Play.Reset"
  BY <1>0, StatusType DEF NewPlayResetMessage
<1>4. PICK m4 \in Msgs : /\ m4 = NewPlayStartMessage(sid)
                         /\ m4.type = "command" /\ m4.name = "onStatus" /\ m4.trans = 0
                         /\ m4.code = "NetStream.Play.Start"
  BY <1>0, StatusType DEF NewPlayStartMessage
<1>5. PICK m5 \in Msgs : /\ m5 = NewDataStartMessage(sid)
                         /\ m5.type = "command" /\ m5.name = "onStatus" /\ m5.trans = 0
  BY <1>0, StatusType DEF NewDataStartMessage
<1>6. PICK m6 \in Msgs : /\ m6 = NewPlayPublishNotifyMessage(sid)
                         /\ m6.type = "command" /\ m6.name = "onStatus" /\ m6.trans = 0
  BY <1>0, StatusType DEF NewPlayPublishNotifyMessage
<1>7. PICK w : w = <<m1, m2, m3, m4, m5, m6>>
  OBVIOUS
<1>8. /\ w \in Seq(Msgs) /\ Len(w) = 6 /\ w[1] = m1 /\ w[2] = m2 /\ w[3] = m3
      /\ w[4] = m4 /\ w[5] = m5 /\ w[6] = m6
  BY <1>1, <1>2, <1>3, <1>4, <1>5, <1>6, <1>7
<1>9. w = PlayAnswer(sid)
  BY <1>1, <1>2, <1>3, <1>4, <1>5, <1>6, <1>7 DEF PlayAnswer
<1>10. ASSUME NEW i \in 3..6
       PROVE  w[i].type = "command" /\ w[i].name = "onStatus" /\ w[i].trans = 0
  <2>1. i = 3 \/ i = 4 \/ i = 5 \/ i = 6
    OBVIOUS
  <2> QED BY <2>1, <1>3, <1>4, <1>5, <1>6, <1>8
<1> QED BY <1>1, <1>2, <1>3, <1>4, <1>8, <1>9, <1>10

\* Not cut short, they are all six.
LEMMA WholePlayAnswer ==
    ASSUME NEW sid \in Int
    PROVE  SubSeq(PlayAnswer(sid), 1, 6) = PlayAnswer(sid)
<1>1. PICK w : w = PlayAnswer(sid)
  OBVIOUS
<1>2. w \in Seq(Msgs) /\ Len(w) = 6
  BY <1>1, PlayAnswerType
<1>3. SubSeq(w, 1, Len(w)) = w
  BY <1>2, SubSeqFull
<1> QED BY <1>1, <1>2, <1>3

\* The answers to play, of which a failed Write leaves a prefix.
LEMMA PlayAnswerScript ==
    ASSUME NEW sid \in Int, NEW n \in 0..6
    PROVE  LET a == Cut(SubSeq(PlayAnswer(sid), 1, n), LargeChunkSize)
           IN  /\ a \in Seq(Msgs) /\ Len(a) = n
               /\ \A i \in 1..n : FromServer("play", 5 + i, a[i])
<1>1. PICK w \in Seq(Msgs) :
        /\ w = PlayAnswer(sid) /\ Len(w) = 6
        /\ w[1].type = "user" /\ w[1].name = "StreamIsRecorded"
        /\ w[2].type = "user" /\ w[2].name = "StreamBegin"
        /\ \A i \in 3..6 : w[i].type = "command" /\ w[i].name = "onStatus" /\ w[i].trans = 0
        /\ w[3].code # "NetStream.Play.Start"
        /\ w[4].code = "NetStream.Play.Start"
  BY PlayAnswerType
<1>2. PICK s : s = SubSeq(w, 1, n)
  OBVIOUS
<1>3. s \in Seq(Msgs) /\ Len(s) = n /\ \A i \in 1..n : s[i] = w[i]
  BY <1>1, <1>2, PrefixIsWellFormed
<1>4. PICK a : a = Cut(s, LargeChunkSize)
  OBVIOUS
<1>5. /\ a \in Seq(Msgs) /\ Len(a) = n
      /\ \A i \in 1..n : CutFrom(a[i], s[i], LargeChunkSize)
  BY ChunkSizes, <1>3, <1>4, CutIsWellFormed
<1>6. ASSUME NEW i \in 1..n
      PROVE  FromServer("play", 5 + i, a[i])
  <2>1. /\ a[i].chunk = LargeChunkSize /\ a[i].type = w[i].type /\ a[i].name = w[i].name
        /\ a[i].trans = w[i].trans /\ a[i].code = w[i].code
    BY <1>3, <1>5 DEF CutFrom
  <2>2. i = 1 \/ i = 2 \/ i = 3 \/ i = 4 \/ i \in {5, 6}
    OBVIOUS
  <2>3. CASE i = 1 \/ i = 2
    BY <2>1, <2>3, <1>1 DEF FromServer
  <2>4. CASE i = 3 \/ i = 4
    BY <2>1, <2>4, <1>1 DEF FromServer
  <2>5. CASE i \in {5, 6}
    BY <2>1, <2>5, <1>1 DEF FromServer
  <2> QED BY <2>2, <2>3, <2>4, <2>5
<1> QED BY <1>1, <1>2, <1>4, <1>5, <1>6

\* What the sink's goroutine writes.
LEMMA SinkScript ==
    ASSUME NEW m \in SinkMessages, NEW k \in Nat, k > 11
    PROVE  LET a == Cut(<<m>>, LargeChunkSize)
           IN  a \in Seq(Msgs) /\ Len(a) = 1 /\ FromServer("play", k, a[1])
<1>1. /\ m \in Msgs /\ m.type \in {"audio", "video", "command"}
      /\ m.name \in {"audio", "video", "@setDataFrame"}
  <2>1. "@setDataFrame" \in Names /\ "none" \in Codes
    BY DEF Names, Codes
  <2> QED BY <2>1, MediaType, CommandType DEF SinkMessages, AAC, H264
<1>2. PICK a : a = Cut(<<m>>, LargeChunkSize)
  OBVIOUS
<1>3. a \in Seq(Msgs) /\ Len(a) = 1 /\ CutFrom(a[1], m, LargeChunkSize)
  BY ChunkSizes, <1>1, <1>2, OneAnswer
<1>4. /\ a[1].type \in {"audio", "video", "command"} /\ a[1].chunk = LargeChunkSize
      /\ a[1].name \in {"audio", "video", "@setDataFrame"}
  BY <1>1, <1>3 DEF CutFrom
<1>5. FromServer("play", k, a[1])
  BY <1>4 DEF FromServer
<1> QED BY <1>2, <1>3, <1>5

(***************************************************************************)
(* What the client writes.                                                 *)
(***************************************************************************)
LEMMA RequestType ==
    ASSUME NEW trans \in Int,
           NEW name \in {"releaseStream", "FCPublish", "createStream", "publish",
                         "getStreamLength"},
           NEW m, m = Command(name, trans, 0, "none", 0)
    PROVE  m \in Msgs /\ m.type = "command" /\ m.name = name
<1>1. name \in Names /\ "none" \in Codes
  BY DEF Names, Codes
<1> QED BY <1>1, CommandType

LEMMA ConnectScript ==
    ASSUME NEW role \in {"publish", "play"}, NEW c,
           CutFrom(c, NewConnectMessage, DefaultChunkSize)
    PROVE  NewConnectMessage \in Msgs /\ FromClient(role, 1, c)
<1>1. "connect" \in Names /\ "app" \in Codes
  BY DEF Names, Codes
<1>2. PICK m : m = NewConnectMessage
  OBVIOUS
<1>3. m \in Msgs /\ m.type = "command" /\ m.name = "connect" /\ m.code = "app"
  BY <1>1, <1>2, CommandType DEF NewConnectMessage
<1> QED BY <1>2, <1>3 DEF CutFrom, FromClient

\* After the answer to connect: the chunk size, then up to createStream.
LEMMA SetupScript ==
    ASSUME cli.role \in {"publish", "play"}, NEW trans \in Int
    PROVE  LET s == SetupMessages(trans)
           IN  /\ s \in Seq(Msgs) /\ Len(s) = SentAt(cli.role, 4) - 1
               /\ \A i \in 1..Len(s) : s[i].name # "connect"
               /\ \A i \in 1..Len(s) : \A c \in Msgs :
                    CutFrom(c, s[i], LargeChunkSize) => FromClient(cli.role, 1 + i, c)
<1>1. PICK sz \in Msgs : /\ sz = NewSetChunkSizeMessage(LargeChunkSize)
                         /\ sz.type = "control" /\ sz.name = "SetChunkSize"
                         /\ sz.num = LargeChunkSize
  BY SetChunkSizeType
<1>2. CASE cli.role = "play"
  <2>1. PICK ack \in Msgs : /\ ack = NewAckMessage
                            /\ ack.type = "control" /\ ack.name = "WindowAck"
    BY AckType
  <2>2. PICK cr \in Msgs : /\ cr = NewCreateStreamMessage(trans)
                           /\ cr.type = "command" /\ cr.name = "createStream"
    BY RequestType DEF NewCreateStreamMessage
  <2>3. PICK s : s = <<sz, ack, cr>>
    OBVIOUS
  <2>4. SetupMessages(trans) = <<sz>> \o <<ack, cr>>
    BY <1>1, <1>2, <2>1, <2>2, Zenon DEF SetupMessages
  <2>5. s = SetupMessages(trans)
    BY <2>3, <2>4
  <2>6. s \in Seq(Msgs) /\ Len(s) = 3 /\ s[1] = sz /\ s[2] = ack /\ s[3] = cr
    BY <1>1, <2>1, <2>2, <2>3
  <2>7. ASSUME NEW i \in 1..3
        PROVE  /\ s[i].name # "connect"
               /\ \A c \in Msgs :
                    CutFrom(c, s[i], LargeChunkSize) => FromClient("play", 1 + i, c)
    <3>1. i = 1 \/ i = 2 \/ i = 3
      OBVIOUS
    <3>2. CASE i = 1
      BY <3>2, <2>6, <1>1 DEF CutFrom, FromClient
    <3>3. CASE i = 2
      BY <3>3, <2>6, <2>1 DEF CutFrom, FromClient
    <3>4. CASE i = 3
      BY <3>4, <2>6, <2>2 DEF CutFrom, FromClient
    <3> QED BY <3>1, <3>2, <3>3, <3>4
  <2>8. SentAt("play", 4) - 1 = 3
    BY DEF SentAt
  <2> QED BY <1>2, <2>5, <2>6, <2>7, <2>8
<1>3. CASE cli.role = "publish"
  <2>1. PICK rs \in Msgs : /\ rs = NewReleaseStreamMessage(trans)
                           /\ rs.type = "command" /\ rs.name = "releaseStream"
    BY RequestType DEF NewReleaseStreamMessage
  <2>2. PICK fc \in Msgs : /\ fc = NewFCPublishMessage(trans + 1)
                           /\ fc.type = "command" /\ fc.name = "FCPublish"
    BY RequestType DEF NewFCPublishMessage
  <2>3. PICK cr \in Msgs : /\ cr = NewCreateStreamMessage(trans + 2)
                           /\ cr.type = "command" /\ cr.name = "createStream"
    BY RequestType DEF NewCreateStreamMessage
  <2>4. PICK s : s = <<sz, rs, fc, cr>>
    OBVIOUS
  <2>5. SetupMessages(trans) = <<sz>> \o <<rs, fc, cr>>
    BY <1>1, <1>3, <2>1, <2>2, <2>3 DEF SetupMessages
  <2>6. s = SetupMessages(trans)
    BY <2>4, <2>5
  <2>7. /\ s \in Seq(Msgs) /\ Len(s) = 4 /\ s[1] = sz /\ s[2] = rs /\ s[3] = fc
        /\ s[4] = cr
    BY <1>1, <2>1, <2>2, <2>3, <2>4
  <2>8. ASSUME NEW i \in 1..4
        PROVE  /\ s[i].name # "connect"
               /\ \A c \in Msgs :
                    CutFrom(c, s[i], LargeChunkSize) => FromClient("publish", 1 + i, c)
    <3>1. i = 1 \/ i = 2 \/ i = 3 \/ i = 4
      OBVIOUS
    <3>2. CASE i = 1
      BY <3>2, <2>7, <1>1 DEF CutFrom, FromClient
    <3>3. CASE i = 2
      BY <3>3, <2>7, <2>1 DEF CutFrom, FromClient
    <3>4. CASE i = 3
      BY <3>4, <2>7, <2>2 DEF CutFrom, FromClient
    <3>5. CASE i = 4
      BY <3>5, <2>7, <2>3 DEF CutFrom, FromClient
    <3> QED BY <3>1, <3>2, <3>3, <3>4, <3>5
  <2>9. SentAt("publish", 4) - 1 = 4
    BY DEF SentAt
  <2> QED BY <1>3, <2>6, <2>7, <2>8, <2>9
<1> QED BY <1>2, <1>3

\* After the answer to createStream.
LEMMA StreamScript ==
    ASSUME cli.role \in {"publish", "play"}, NEW trans \in Int
    PROVE  LET s == StreamMessages(trans)
           IN  /\ s \in Seq(Msgs) /\ Len(s) = SentAt(cli.role, 5) - SentAt(cli.role, 4)
               /\ \A i \in 1..Len(s) : s[i].name # "connect"
               /\ \A i \in 1..Len(s) : \A c \in Msgs :
                    CutFrom(c, s[i], LargeChunkSize) =>
                      FromClient(cli.role, SentAt(cli.role, 4) + i, c)
<1>1. CASE cli.role = "play"
  <2>1. PICK gl \in Msgs : /\ gl = NewGetStreamLengthMessage(trans)
                           /\ gl.type = "command" /\ gl.name = "getStreamLength"
    BY RequestType DEF NewGetStreamLengthMessage
  <2>2. PICK pl \in Msgs : /\ pl = NewPlayMessage(trans + 1)
                           /\ pl.type = "command" /\ pl.name = "play"
    <3>1. "play" \in Names /\ "none" \in Codes /\ -2000 \in Int
      BY SMT DEF Names, Codes
    <3> QED BY <3>1, CommandType, SMT DEF NewPlayMessage
  <2>3. PICK bl \in Msgs : /\ bl = NewSetBufferLengthMessage(trans + 2)
                           /\ bl.type = "user" /\ bl.name = "SetBufferLength"
    <3>1. "SetBufferLength" \in Names
      BY DEF Names
    <3> QED BY <3>1, UserType DEF NewSetBufferLengthMessage
  <2>4. PICK s : s = <<gl, pl, bl>>
    OBVIOUS
  <2>5. s = StreamMessages(trans)
    BY <1>1, <2>1, <2>2, <2>3, <2>4, Zenon DEF StreamMessages
  <2>6. s \in Seq(Msgs) /\ Len(s) = 3 /\ s[1] = gl /\ s[2] = pl /\ s[3] = bl
    BY <2>1, <2>2, <2>3, <2>4
  <2>7. ASSUME NEW i \in 1..3
        PROVE  /\ s[i].name # "connect"
               /\ \A c \in Msgs :
                    CutFrom(c, s[i], LargeChunkSize) => FromClient("play", 4 + i, c)
    <3>1. i = 1 \/ i = 2 \/ i = 3
      OBVIOUS
    <3>2. CASE i = 1
      BY <3>2, <2>6, <2>1 DEF CutFrom, FromClient
    <3>3. CASE i = 2
      BY <3>3, <2>6, <2>2 DEF CutFrom, FromClient
    <3>4. CASE i = 3
      BY <3>4, <2>6, <2>3 DEF CutFrom, FromClient
    <3> QED BY <3>1, <3>2, <3>3, <3>4
  <2>8. SentAt("play", 4) = 4 /\ SentAt("play", 5) = 7
    BY DEF SentAt
  <2> QED BY <1>1, <2>5, <2>6, <2>7, <2>8
<1>2. CASE cli.role = "publish"
  <2>1. PICK pb \in Msgs : /\ pb = NewPublishMessage(trans)
                           /\ pb.type = "command" /\ pb.name = "publish"
    BY RequestType DEF NewPublishMessage
  <2>2. PICK s : s = <<pb>>
    OBVIOUS
  <2>3. s = StreamMessages(trans)
    BY <1>2, <2>1, <2>2, Zenon DEF StreamMessages
  <2>4. s \in Seq(Msgs) /\ Len(s) = 1 /\ s[1] = pb
    BY <2>1, <2>2
  <2>5. ASSUME NEW i \in 1..1
        PROVE  /\ s[i].name # "connect"
               /\ \A c \in Msgs :
                    CutFrom(c, s[i], LargeChunkSize) => FromClient("publish", 5 + i, c)
    <3>1. i = 1
      OBVIOUS
    <3> QED BY <3>1, <2>4, <2>1 DEF CutFrom, FromClient
  <2>6. SentAt("publish", 4) = 5 /\ SentAt("publish", 5) = 6
    BY DEF SentAt
  <2> QED BY <1>2, <2>3, <2>4, <2>5, <2>6
<1> QED BY <1>1, <1>2

\* What the senders hand to the handler.
LEMMA FrameScript ==
    ASSUME NEW s \in Senders, cli.streamId \in Int, NEW k \in Nat, k > 6
    PROVE  /\ Frame(s) \in Msgs /\ Frame(s).name # "connect"
           /\ \A c \in Msgs : CutFrom(c, Frame(s), LargeChunkSize) => FromClient("publish", k, c)
<1>1. PICK m : m = Frame(s)
  OBVIOUS
<1>2. m \in Msgs /\ m.type = s /\ m.name = s /\ s \in {"audio", "video"}
  BY <1>1, MediaType DEF Frame, Senders, H264, AAC
<1> QED BY <1>1, <1>2 DEF CutFrom, FromClient

\* One Write for each message: all of them go out, or a part and Start returns.
LEMMA SendsWrites ==
    ASSUME NEW msgs \in Seq(Msgs), NEW c, NEW d, c.send \in Int, Sends(msgs, c, d)
    PROVE  \E t \in Seq(Msgs) :
             /\ toServer' = toServer \o t /\ Len(t) <= Len(msgs)
             /\ \A i \in 1..Len(t) : CutFrom(t[i], msgs[i], c.send)
             /\ \/ cli' = d /\ Len(t) = Len(msgs)
                \/ cli' = Return(c, TRUE) /\ Len(t) < Len(msgs)
<1>1. CASE cli' = d /\ toServer' = toServer \o Cut(msgs, c.send)
  <2>1. PICK t : t = Cut(msgs, c.send)
    OBVIOUS
  <2>2. /\ t \in Seq(Msgs) /\ Len(t) = Len(msgs)
        /\ \A i \in 1..Len(msgs) : CutFrom(t[i], msgs[i], c.send)
    BY <2>1, CutIsWellFormed
  <2>3. toServer' = toServer \o t /\ cli' = d /\ Len(t) <= Len(msgs)
    BY <1>1, <2>1, <2>2
  <2> QED BY <2>2, <2>3
<1>2. CASE \E n \in 1..Len(msgs) :
             /\ cli' = Return(c, TRUE)
             /\ toServer' = toServer \o Cut(SubSeq(msgs, 1, n - 1), c.send)
  <2>1. PICK n \in 1..Len(msgs) :
             /\ cli' = Return(c, TRUE)
             /\ toServer' = toServer \o Cut(SubSeq(msgs, 1, n - 1), c.send)
    BY <1>2
  <2>2. PICK k \in 0..Len(msgs) : k = n - 1 /\ k < n
    OBVIOUS
  <2>3. PICK s : s = SubSeq(msgs, 1, k)
    OBVIOUS
  <2>4. s \in Seq(Msgs) /\ Len(s) = k /\ \A i \in 1..k : s[i] = msgs[i]
    BY <2>2, <2>3, PrefixIsWellFormed
  <2>5. PICK t : t = Cut(s, c.send)
    OBVIOUS
  <2>6. t \in Seq(Msgs) /\ Len(t) = k /\ \A i \in 1..k : CutFrom(t[i], s[i], c.send)
    BY <2>4, <2>5, CutIsWellFormed
  <2>7. \A i \in 1..k : CutFrom(t[i], msgs[i], c.send)
    BY <2>4, <2>6
  <2>8. /\ toServer' = toServer \o t /\ cli' = Return(c, TRUE)
        /\ Len(t) < Len(msgs) /\ Len(t) <= Len(msgs)
    BY <2>1, <2>2, <2>3, <2>5, <2>6
  <2> QED BY <2>6, <2>7, <2>8
<1> QED BY <1>1, <1>2, Zenon DEF Sends

\* Start's return changes the phase and the error.
LEMMA ReturnType ==
    ASSUME NEW c \in Clients, NEW d, d = Return(c, TRUE), cli.role \in {"publish", "play"}
    PROVE  /\ d \in Clients /\ d.phase \in {"reportFalse", "onError", "done"}
           /\ d.role = c.role /\ d.status = c.status /\ d.recv = c.recv
           /\ d.streamId = c.streamId
<1>1. PICK ph \in {"reportFalse", "onError", "done"} :
        ph = IF c.status # "publish_success" THEN "reportFalse" ELSE AfterResult(TRUE)
  BY DEF AfterResult
<1>2. d = [c EXCEPT !.err = TRUE, !.phase = ph]
  BY <1>1, Zenon DEF Return
<1> QED BY <1>1, <1>2 DEF Clients, ClientPhases

(***************************************************************************)
(* The repository's client, in step with the server.                       *)
(***************************************************************************)
LEMMA ClientMoves ==
    ASSUME TypeOK, NEW p \in Nat, NEW q \in Nat, InStep(p, q), NEW r \in Nat,
           NEW t \in Seq(Msgs), toServer' = toServer \o t,
           \A i \in 1..Len(t) : FromClient(cli.role, p + Len(toServer) + i, t[i]),
           cli' \in Clients, cli'.role = cli.role,
           UNCHANGED <<srv, registered, peer, verdict>>,
           \/ toClient' = toClient /\ r = q
           \/ toClient # <<>> /\ toClient' = Tail(toClient) /\ r = q + 1,
           ClientAt(cli', r, p + Len(toServer) + Len(t))
    PROVE  TypeOK' /\ InStep(p, r)'
<1>1. toServer \in Seq(Msgs) /\ toClient \in Seq(Msgs)
  BY DEF TypeOK
<1>2. toServer' \in Seq(Msgs) /\ Len(toServer') = Len(toServer) + Len(t)
  BY <1>1, WriteAll
<1>3. \A i \in 1..Len(toServer') : FromClient(cli.role, p + i, toServer'[i])
  BY <1>1, ClientWrites DEF InStep
<1>4. /\ toClient' \in Seq(Msgs) /\ r + Len(toClient') = q + Len(toClient)
      /\ \A i \in 1..Len(toClient') : FromServer(cli.role, r + i, toClient'[i])
  <2>1. CASE toClient' = toClient /\ r = q
    BY <1>1, <2>1 DEF InStep
  <2>2. CASE toClient # <<>> /\ toClient' = Tail(toClient) /\ r = q + 1
    <3>1. /\ Len(toClient') = Len(toClient) - 1 /\ Len(toClient) \in Nat
          /\ toClient' \in Seq(Msgs)
      BY <1>1, <2>2, ReadOne
    <3>2. \A i \in 1..Len(toClient') : FromServer(cli.role, q + 1 + i, toClient'[i])
      BY <1>1, <2>2, ServerRead DEF InStep
    <3>3. r + Len(toClient') = q + Len(toClient)
      <4>1. PICK n \in Nat : n = Len(toClient)
        BY <3>1
      <4>2. Len(toClient') = n - 1 /\ r = q + 1
        BY <2>2, <3>1, <4>1
      <4>3. r + (n - 1) = q + n
        BY <4>2
      <4> QED BY <4>1, <4>2, <4>3, Zenon
    <3> QED BY <2>2, <3>1, <3>2, <3>3
  <2> QED BY <2>1, <2>2
<1>5. p + Len(toServer') = p + Len(toServer) + Len(t)
  BY <1>1, <1>2
<1>6. TypeOK'
  BY <1>2, <1>4 DEF TypeOK
<1>7. InStep(p, r)'
  BY <1>3, <1>4, <1>5 DEF InStep
<1> QED BY <1>6, <1>7

\* A client that writes nothing.
LEMMA ClientQuiet ==
    ASSUME TypeOK, NEW p \in Nat, NEW q \in Nat, InStep(p, q), NEW r \in Nat,
           toServer' = toServer, cli' \in Clients, cli'.role = cli.role,
           UNCHANGED <<srv, registered, peer, verdict>>,
           \/ toClient' = toClient /\ r = q
           \/ toClient # <<>> /\ toClient' = Tail(toClient) /\ r = q + 1,
           ClientAt(cli', r, p + Len(toServer))
    PROVE  TypeOK' /\ InStep(p, r)'
<1>1. PICK t : t = <<>> /\ t \in Seq(Msgs) /\ Len(t) = 0
  <2>1. <<>> \in Seq(Msgs) /\ Len(<<>>) = 0
    OBVIOUS
  <2> QED BY <2>1
<1>2. toServer \in Seq(Msgs)
  BY DEF TypeOK
<1>3. toServer' = toServer \o t
  BY <1>1, <1>2
<1>4. p + Len(toServer) + Len(t) = p + Len(toServer)
  BY <1>1, <1>2
<1>5. \A i \in 1..Len(t) : FromClient(cli.role, p + Len(toServer) + i, t[i])
  BY <1>1
<1>6. ClientAt(cli', r, p + Len(toServer) + Len(t))
  BY <1>4
<1> QED BY <1>1, <1>3, <1>5, <1>6, ClientMoves

\* A client that gives up keeps what it has read and sent.
LEMMA EndedAt ==
    ASSUME NEW c \in Clients, NEW d, d = Return(c, TRUE), cli.role \in {"publish", "play"},
           NEW r \in Nat, NEW b \in Nat,
           c.recv = IF r < 3 THEN DefaultChunkSize ELSE LargeChunkSize,
           r < 4 => b < 2,
           c.role = "play" /\ r > 8 => c.status = "play_start",
           c.status = "publish_success" => c.role = "publish" /\ r = 6
    PROVE  ClientAt(d, r, b)
<1>1. /\ d.phase \in {"reportFalse", "onError", "done"} /\ d.role = c.role
      /\ d.status = c.status /\ d.recv = c.recv
  BY ReturnType
<1> QED BY <1>1 DEF ClientAt

LEMMA HandshakeInStep ==
    ASSUME TypeOK, NEW p \in Nat, NEW q \in Nat, InStep(p, q), NEW ok \in BOOLEAN,
           ClientHandshake(ok), UNCHANGED <<serverVars, verdict, peer>>
    PROVE  TypeOK' /\ InStep(p, q)'
<1>1. /\ cli \in Clients /\ toServer \in Seq(Msgs) /\ cli.phase = "start"
      /\ UNCHANGED <<srv, registered, peer, verdict, toClient>>
  BY DEF TypeOK, ClientHandshake, serverVars
<1>2. cli.role \in {"publish", "play"}
  BY <1>1 DEF Clients
<1>3. /\ q = 0 /\ p + Len(toServer) = 0 /\ cli.status = "init"
      /\ cli.send = DefaultChunkSize /\ cli.recv = DefaultChunkSize
  BY <1>1 DEF InStep, ClientAt
<1>4. CASE ok
  <2>1. PICK d : d = [cli EXCEPT !.phase = "connect", !.status = "connect_send"]
    OBVIOUS
  <2>2. /\ d \in Clients /\ d.role = cli.role /\ d.phase = "connect"
        /\ d.status = "connect_send" /\ d.send = cli.send /\ d.recv = cli.recv
    BY <1>1, <2>1 DEF Clients, ClientPhases, ClientStatuses
  <2>3. PICK s : s = <<NewConnectMessage>>
    OBVIOUS
  <2>4. NewConnectMessage \in Msgs
    <3>1. "connect" \in Names /\ "app" \in Codes
      BY DEF Names, Codes
    <3> QED BY <3>1, CommandType DEF NewConnectMessage
  <2>5. s \in Seq(Msgs) /\ Len(s) = 1 /\ s[1] = NewConnectMessage
    BY <2>3, <2>4
  <2>6. Sends(s, cli, d)
    BY <1>4, <2>1, <2>3 DEF ClientHandshake
  <2>7. cli.send \in Int
    BY <1>3, ChunkSizes
  <2>8. PICK t \in Seq(Msgs) :
             /\ toServer' = toServer \o t /\ Len(t) <= Len(s)
             /\ \A i \in 1..Len(t) : CutFrom(t[i], s[i], cli.send)
             /\ (cli' = d /\ Len(t) = Len(s)) \/ cli' = Return(cli, TRUE)
    BY <2>5, <2>6, <2>7, SendsWrites
  <2>9. Len(t) \in Nat /\ Len(t) <= 1
    BY <2>5, <2>8
  <2>10. ASSUME NEW i \in 1..Len(t)
         PROVE  FromClient(cli.role, p + Len(toServer) + i, t[i])
    <3>1. i = 1 /\ p + Len(toServer) + i = 1
      BY <1>3, <2>9
    <3>2. CutFrom(t[1], NewConnectMessage, DefaultChunkSize)
      BY <1>3, <2>5, <2>8, <3>1
    <3> QED BY <1>2, <3>1, <3>2, ConnectScript
  <2>11. p + Len(toServer) + Len(t) = Len(t)
    BY <1>3, <2>9
  <2>12. CASE cli' = d /\ Len(t) = Len(s)
    <3>1. ClientAt(d, 0, 1)
      BY <1>3, <2>2 DEF ClientAt, StatusAt, SentAt
    <3>2. ClientAt(cli', q, p + Len(toServer) + Len(t))
      BY <1>3, <2>5, <2>11, <2>12, <3>1
    <3> QED BY <1>1, <2>2, <2>8, <2>10, <2>12, <3>2, ClientMoves
  <2>13. CASE cli' = Return(cli, TRUE)
    <3>1. ClientAt(cli', 0, Len(t))
      <4>1. PICK n \in Nat, z \in Nat : n = Len(t) /\ z = 0 /\ n < 2
        BY <2>9
      <4>2. /\ cli.recv = IF z < 3 THEN DefaultChunkSize ELSE LargeChunkSize
            /\ z < 4 => n < 2
            /\ cli.role = "play" /\ z > 8 => cli.status = "play_start"
            /\ cli.status = "publish_success" => cli.role = "publish" /\ z = 6
        BY <1>3, <4>1
      <4>3. ClientAt(cli', z, n)
        BY <1>1, <1>2, <2>13, <4>2, EndedAt
      <4> QED BY <4>1, <4>3
    <3>2. ClientAt(cli', q, p + Len(toServer) + Len(t))
      BY <1>3, <2>11, <3>1
    <3>3. cli' \in Clients /\ cli'.role = cli.role
      BY <1>1, <1>2, <2>13, ReturnType
    <3> QED BY <1>1, <2>8, <2>10, <3>2, <3>3, ClientMoves
  <2> QED BY <2>8, <2>12, <2>13
<1>5. CASE ~ok
  <2>1. cli' = Return(cli, TRUE) /\ toServer' = toServer
    BY <1>5 DEF ClientHandshake, Fails
  <2>2. cli' \in Clients /\ cli'.role = cli.role
    BY <1>1, <1>2, <2>1, ReturnType
  <2>3. ClientAt(cli', 0, 0)
    <3>1. PICK z \in Nat : z = 0
      OBVIOUS
    <3>2. /\ cli.recv = IF z < 3 THEN DefaultChunkSize ELSE LargeChunkSize
          /\ z < 4 => z < 2
          /\ cli.role = "play" /\ z > 8 => cli.status = "play_start"
          /\ cli.status = "publish_success" => cli.role = "publish" /\ z = 6
      BY <1>3, <3>1
    <3>3. ClientAt(cli', z, z)
      BY <1>1, <1>2, <2>1, <3>2, EndedAt
    <3> QED BY <3>1, <3>3
  <2>4. ClientAt(cli', q, p + Len(toServer))
    BY <1>3, <2>3
  <2> QED BY <1>1, <2>1, <2>2, <2>4, ClientQuiet
<1> QED BY <1>4, <1>5

\* A client that fails in the state it is in.
LEMMA FailsInStep ==
    ASSUME TypeOK, NEW p \in Nat, NEW q \in Nat, InStep(p, q), cli.phase = "connect",
           Fails(cli), UNCHANGED <<serverVars, verdict, peer, toClient>>
    PROVE  TypeOK' /\ InStep(p, q)'
<1>1. /\ cli \in Clients /\ toServer \in Seq(Msgs)
      /\ UNCHANGED <<srv, registered, peer, verdict, toClient, toServer>>
      /\ cli' = Return(cli, TRUE)
  BY DEF TypeOK, serverVars, Fails
<1>2. cli.role \in {"publish", "play"}
  BY <1>1 DEF Clients
<1>3. cli' \in Clients /\ cli'.role = cli.role
  BY <1>1, <1>2, ReturnType
<1>4. PICK b \in Nat : b = p + Len(toServer)
  BY <1>1
<1>5. ClientAt(cli, q, b)
  BY <1>4 DEF InStep
<1>6. ClientAt(cli', q, b)
  BY <1>1, <1>2, <1>5, EndedAt DEF ClientAt
<1> QED BY <1>1, <1>3, <1>4, <1>6, ClientQuiet

LEMMA ApplicationInStep ==
    ASSUME TypeOK, NEW p \in Nat, NEW q \in Nat, InStep(p, q),
           ResultTrue \/ ResultFalse \/ OnError \/ (\E s \in Senders : CheckStatus(s)),
           UNCHANGED <<serverVars, verdict, peer>>
    PROVE  TypeOK' /\ InStep(p, q)'
<1>1. /\ cli \in Clients /\ toServer \in Seq(Msgs)
      /\ UNCHANGED <<srv, registered, peer, verdict, toClient, toServer>>
  BY DEF TypeOK, serverVars, ResultTrue, ResultFalse, OnError, CheckStatus, wireVars
<1>2. \/ cli' = cli
      \/ cli.phase = "report" /\ cli' = [cli EXCEPT !.phase = "transmit"]
      \/ cli' = [cli EXCEPT !.phase = "onError"] \/ cli' = [cli EXCEPT !.phase = "done"]
  BY DEF ResultTrue, ResultFalse, OnError, CheckStatus, Transmitting, AfterResult
<1>3. /\ cli' \in Clients /\ cli'.role = cli.role /\ cli'.status = cli.status
      /\ cli'.recv = cli.recv /\ cli'.send = cli.send
      /\ \/ cli'.phase = cli.phase
         \/ cli.phase = "report" /\ cli'.phase = "transmit"
         \/ cli'.phase \in {"onError", "done"}
  BY <1>1, <1>2 DEF Clients, ClientPhases
<1>4. PICK b \in Nat : b = p + Len(toServer)
  BY <1>1
<1>5. ClientAt(cli, q, b)
  BY <1>4 DEF InStep
<1>6. ClientAt(cli', q, b)
  BY <1>3, <1>5 DEF ClientAt
<1> QED BY <1>1, <1>3, <1>4, <1>6, ClientQuiet

LEMMA TransmitInStep ==
    ASSUME TypeOK, NEW p \in Nat, NEW q \in Nat, InStep(p, q), NEW s \in Senders,
           Transmit(s), UNCHANGED <<serverVars, verdict, peer>>
    PROVE  TypeOK' /\ InStep(p, q)'
<1>1. /\ cli \in Clients /\ toServer \in Seq(Msgs) /\ cli.phase = "transmit"
      /\ UNCHANGED <<srv, registered, peer, verdict, toClient>>
  BY DEF TypeOK, Transmit, serverVars
<1>2. cli.role \in {"publish", "play"} /\ cli.streamId \in Int
  BY <1>1 DEF Clients
<1>3. PICK b \in Nat : b = p + Len(toServer)
  BY <1>1
<1>4. ClientAt(cli, q, b)
  BY <1>3 DEF InStep
<1>5. cli.role = "publish" /\ b > 5 /\ cli.send = LargeChunkSize
  BY <1>1, <1>4 DEF ClientAt
<1>6. CASE toServer' = toServer \o Cut(<<Frame(s)>>, cli.send) /\ cli' = cli
  <2>1. PICK m : m = Frame(s)
    OBVIOUS
  <2>2. PICK t : t = Cut(<<m>>, cli.send)
    OBVIOUS
  <2>3. /\ m \in Msgs
        /\ \A c \in Msgs : CutFrom(c, m, LargeChunkSize) => FromClient("publish", b + 1, c)
    BY <1>2, <1>5, <2>1, FrameScript
  <2>4. t \in Seq(Msgs) /\ Len(t) = 1 /\ CutFrom(t[1], m, LargeChunkSize)
    BY <1>5, <2>2, <2>3, ChunkSizes, OneAnswer
  <2>5. FromClient("publish", b + 1, t[1])
    BY <2>3, <2>4 DEF CutFrom
  <2>6. \A i \in 1..Len(t) : FromClient(cli.role, p + Len(toServer) + i, t[i])
    BY <1>3, <1>5, <2>4, <2>5
  <2>7. ClientAt(cli, q, b + 1)
    BY <1>1, <1>4, <1>5 DEF ClientAt
  <2>8. p + Len(toServer) + Len(t) = b + 1
    BY <1>3, <2>4
  <2>9. toServer' = toServer \o t
    BY <1>6, <2>1, <2>2
  <2> QED BY <1>1, <1>6, <2>4, <2>6, <2>7, <2>8, <2>9, ClientMoves
<1>7. CASE toServer' = toServer /\ cli' = Return([cli EXCEPT !.status = "send_fail"], TRUE)
  <2>1. PICK c : c = [cli EXCEPT !.status = "send_fail"]
    OBVIOUS
  <2>2. /\ c \in Clients /\ c.role = cli.role /\ c.recv = cli.recv
        /\ c.status = "send_fail"
    BY <1>1, <2>1 DEF Clients, ClientStatuses
  <2>3. cli' \in Clients /\ cli'.role = cli.role
    BY <1>2, <1>7, <2>1, <2>2, ReturnType
  <2>4. ClientAt(cli', q, b)
    <3>1. /\ c.recv = IF q < 3 THEN DefaultChunkSize ELSE LargeChunkSize
          /\ q < 4 => b < 2
          /\ c.role = "play" /\ q > 8 => c.status = "play_start"
          /\ c.status = "publish_success" => c.role = "publish" /\ q = 6
      BY <1>4, <1>5, <2>2 DEF ClientAt
    <3> QED BY <1>2, <1>7, <2>1, <2>2, <3>1, EndedAt
  <2> QED BY <1>1, <1>3, <1>7, <2>3, <2>4, ClientQuiet
<1> QED BY <1>6, <1>7 DEF Transmit

\* The client answers an answer with its next messages.
LEMMA SendsInStep ==
    ASSUME TypeOK, NEW p \in Nat, NEW q \in {3, 4}, InStep(p, q),
           toClient # <<>>, toClient' = Tail(toClient),
           UNCHANGED <<serverVars, verdict, peer>>,
           NEW msgs \in Seq(Msgs), NEW c \in Clients, NEW d \in Clients,
           c.role = cli.role, d.role = cli.role, c.send = LargeChunkSize,
           c.recv = LargeChunkSize, c.status # "publish_success",
           Sends(msgs, c, d),
           \A i \in 1..Len(msgs) : \A x \in Msgs :
               CutFrom(x, msgs[i], LargeChunkSize) =>
                 FromClient(cli.role, p + Len(toServer) + i, x),
           ClientAt(d, q + 1, p + Len(toServer) + Len(msgs))
    PROVE  TypeOK' /\ InStep(p, q + 1)'
<1>1. /\ cli \in Clients /\ toServer \in Seq(Msgs)
      /\ UNCHANGED <<srv, registered, peer, verdict>>
  BY DEF TypeOK, serverVars
<1>2. cli.role \in {"publish", "play"}
  BY <1>1 DEF Clients
<1>3. PICK t \in Seq(Msgs) :
             /\ toServer' = toServer \o t /\ Len(t) <= Len(msgs)
             /\ \A i \in 1..Len(t) : CutFrom(t[i], msgs[i], c.send)
             /\ \/ cli' = d /\ Len(t) = Len(msgs)
                \/ cli' = Return(c, TRUE) /\ Len(t) < Len(msgs)
  <2>1. c.send \in Int
    BY ChunkSizes
  <2> QED BY <2>1, SendsWrites
<1>4. \A i \in 1..Len(t) : FromClient(cli.role, p + Len(toServer) + i, t[i])
  <2> SUFFICES ASSUME NEW i \in 1..Len(t)
               PROVE  FromClient(cli.role, p + Len(toServer) + i, t[i])
    OBVIOUS
  <2>1. i \in 1..Len(msgs)
    BY <1>3
  <2>2. CutFrom(t[i], msgs[i], LargeChunkSize) /\ t[i] \in Msgs
    BY <1>3 DEF CutFrom
  <2> QED BY <2>1, <2>2
<1>5. PICK r \in Nat : r = q + 1
  OBVIOUS
<1>6. CASE cli' = d /\ Len(t) = Len(msgs)
  <2>1. ClientAt(cli', r, p + Len(toServer) + Len(t))
    BY <1>5, <1>6
  <2> QED BY <1>1, <1>3, <1>4, <1>5, <1>6, <2>1, ClientMoves
<1>7. CASE cli' = Return(c, TRUE)
  <2>1. cli' \in Clients /\ cli'.role = cli.role
    BY <1>2, <1>7, ReturnType
  <2>2. PICK b \in Nat : b = p + Len(toServer) + Len(t)
    BY <1>1, <1>3
  <2>3. /\ c.recv = IF r < 3 THEN DefaultChunkSize ELSE LargeChunkSize
        /\ r < 4 => b < 2
        /\ c.role = "play" /\ r > 8 => c.status = "play_start"
        /\ c.status = "publish_success" => c.role = "publish" /\ r = 6
    BY <1>5
  <2>4. ClientAt(cli', r, b)
    BY <1>2, <1>7, <2>3, EndedAt
  <2> QED BY <1>1, <1>3, <1>4, <1>5, <2>1, <2>2, <2>4, ClientMoves
<1> QED BY <1>3, <1>6, <1>7

\* The client reads the next message of the server's conversation.
LEMMA ReceiveInStep ==
    ASSUME TypeOK, NEW p \in Nat, NEW q \in Nat, InStep(p, q), ClientReceive,
           UNCHANGED <<serverVars, verdict, peer>>
    PROVE  TypeOK' /\ InStep(p, q + 1)'
<1>1. /\ cli \in Clients /\ toServer \in Seq(Msgs) /\ toClient \in Seq(Msgs)
      /\ cli.phase = "connect" /\ toClient # <<>> /\ toClient' = Tail(toClient)
      /\ UNCHANGED <<srv, registered, peer, verdict>>
  BY DEF TypeOK, ClientReceive, serverVars
<1>2. /\ cli.role \in {"publish", "play"} /\ cli.transactionId \in Int
      /\ cli.recv \in Int /\ cli.send \in Int
  BY <1>1 DEF Clients
<1>3. PICK m \in Msgs : m = Head(toClient) /\ FromServer(cli.role, q + 1, m)
  BY <1>1, ReadOne, ServerRead DEF InStep
<1>4. PICK b \in Nat : b = p + Len(toServer)
  BY <1>1
<1>5. ClientAt(cli, q, b)
  BY <1>4 DEF InStep
<1>6. /\ cli.status = StatusAt(cli.role, q) /\ b = SentAt(cli.role, q)
      /\ cli.send = IF q < 4 THEN DefaultChunkSize ELSE LargeChunkSize
      /\ cli.recv = IF q < 3 THEN DefaultChunkSize ELSE LargeChunkSize
      /\ cli.role = "publish" => q < 6
  BY <1>1, <1>5 DEF ClientAt
<1>7. PICK r \in Nat : r = q + 1
  OBVIOUS
<1>8. ASSUME NEW c \in Clients, c.role = cli.role, cli' = c, toServer' = toServer,
             ClientAt(c, r, b)
      PROVE  TypeOK' /\ InStep(p, r)'
  <2>1. ClientAt(cli', r, p + Len(toServer))
    BY <1>4, <1>8
  <2> QED BY <1>1, <1>7, <1>8, <2>1, ClientQuiet
<1> SUFFICES TypeOK' /\ InStep(p, r)'
  BY <1>7
<1>10. CASE q < 3
  <2>1. m.type = "control" /\ (q = 2 => m.name = "SetChunkSize" /\ m.num = LargeChunkSize)
        /\ (q # 2 => m.name # "SetChunkSize")
    BY <1>3, <1>10 DEF FromServer
  <2>2. ClientControl(m)
    BY <1>3, <2>1 DEF ClientReceive, MediaTypes
  <2>3. CASE q = 2
    <3>1. PICK c : c = [cli EXCEPT !.recv = LargeChunkSize]
      OBVIOUS
    <3>2. /\ c \in Clients /\ c.role = cli.role /\ c.phase = "connect"
          /\ c.status = cli.status /\ c.send = cli.send /\ c.recv = LargeChunkSize
      BY <1>1, <3>1, ChunkSizes DEF Clients
    <3>3. cli' = c /\ toServer' = toServer
      BY <2>1, <2>2, <2>3, <3>1 DEF ClientControl, Goes
    <3>4. ClientAt(c, r, b)
      BY <1>6, <1>7, <2>3, <3>2 DEF ClientAt, StatusAt, SentAt
    <3> QED BY <1>8, <3>2, <3>3, <3>4
  <2>4. CASE q # 2
    <3>1. cli' = cli /\ toServer' = toServer
      BY <2>1, <2>2, <2>4 DEF ClientControl, Goes
    <3>2. ClientAt(cli, r, b)
      BY <1>1, <1>6, <1>7, <1>10, <2>4 DEF ClientAt, StatusAt, SentAt
    <3> QED BY <1>1, <1>8, <3>1, <3>2
  <2> QED BY <2>3, <2>4
<1>11. CASE q = 3
  <2>1. /\ m.type = "command" /\ m.name = "_result" /\ m.trans = 1
        /\ m.code = "NetConnection.Connect.Success" /\ cli.status = "connect_send"
    BY <1>3, <1>6, <1>11 DEF FromServer, StatusAt
  <2>2. HandleConnectResponse(m)
    <3>1. ClientCommand(m)
      BY <1>3, <2>1 DEF ClientReceive, MediaTypes
    <3> QED BY <2>1, <3>1 DEF ClientCommand
  <2>3. PICK c : c = [cli EXCEPT !.status = "connect_success", !.send = LargeChunkSize]
    OBVIOUS
  <2>4. PICK tr \in Int : tr = cli.transactionId + SetupTransactions
    BY <1>2 DEF SetupTransactions
  <2>5. PICK d : d = [c EXCEPT !.status = "crtstm_send", !.transactionId = tr]
    OBVIOUS
  <2>6. /\ c \in Clients /\ c.role = cli.role /\ c.phase = "connect"
        /\ c.status = "connect_success" /\ c.send = LargeChunkSize
        /\ c.recv = cli.recv /\ c.transactionId = cli.transactionId
    BY <1>1, <2>3, ChunkSizes DEF Clients, ClientStatuses
  <2>7. /\ d \in Clients /\ d.role = cli.role /\ d.phase = "connect"
        /\ d.status = "crtstm_send" /\ d.send = LargeChunkSize
        /\ d.recv = cli.recv
    BY <2>4, <2>5, <2>6 DEF Clients, ClientStatuses
  <2>8. PICK s \in Seq(Msgs) :
          /\ s = SetupMessages(cli.transactionId) /\ Len(s) = SentAt(cli.role, 4) - 1
          /\ \A i \in 1..Len(s) : \A x \in Msgs :
               CutFrom(x, s[i], LargeChunkSize) => FromClient(cli.role, 1 + i, x)
    BY <1>2, SetupScript
  <2>9. Sends(s, c, d)
    <3>1. ~ConnectPanics(m) /\ ConnectSucceeds(m)
      BY <2>1 DEF ConnectPanics, ConnectSucceeds
    <3>2. Sends(SetupMessages(cli.transactionId), c,
                [c EXCEPT !.status = "crtstm_send",
                          !.transactionId = @ + SetupTransactions])
      BY <2>2, <2>3, <3>1, Zenon DEF HandleConnectResponse
    <3>3. [c EXCEPT !.status = "crtstm_send", !.transactionId = @ + SetupTransactions] = d
      BY <2>4, <2>5, <2>6
    <3> QED BY <2>8, <3>2, <3>3
  <2>10. b = 1 /\ SentAt(cli.role, 4) \in Nat /\ p + Len(toServer) + Len(s) = SentAt(cli.role, 4)
    <3>1. b = 1 /\ SentAt(cli.role, 4) \in Nat
      BY <1>6, <1>11 DEF SentAt
    <3> QED BY <3>1, <1>4, <2>8
  <2>11. ClientAt(d, 4, SentAt(cli.role, 4))
    BY <1>6, <1>11, <2>7 DEF ClientAt, StatusAt, SentAt
  <2>12. \A i \in 1..Len(s) : \A x \in Msgs :
           CutFrom(x, s[i], LargeChunkSize) => FromClient(cli.role, p + Len(toServer) + i, x)
    BY <1>4, <2>8, <2>10
  <2>13. c.recv = LargeChunkSize /\ ClientAt(d, q + 1, p + Len(toServer) + Len(s))
    BY <1>6, <1>11, <2>6, <2>10, <2>11
  <2> QED BY <1>1, <1>7, <1>11, <2>6, <2>7, <2>9, <2>12, <2>13, SendsInStep
<1>12. CASE q = 4
  <2>1. /\ m.type = "command" /\ m.name = "_result" /\ m.code = "number"
        /\ cli.status = "crtstm_send"
    BY <1>3, <1>6, <1>12 DEF FromServer, StatusAt
  <2>2. HandleCreateStreamResponse(m)
    <3>1. ClientCommand(m)
      BY <1>3, <2>1 DEF ClientReceive, MediaTypes
    <3> QED BY <2>1, <3>1 DEF ClientCommand
  <2>3. PICK c : c = [cli EXCEPT !.status = "crtstrm_success", !.streamId = m.num]
    OBVIOUS
  <2>4. PICK tr \in Int : tr = cli.transactionId + StreamTransactions
    BY <1>2 DEF StreamTransactions
  <2>5. PICK st \in {"play_send", "publish_send"} :
          st = IF cli.role = "play" THEN "play_send" ELSE "publish_send"
    OBVIOUS
  <2>6. PICK d : d = [c EXCEPT !.status = st, !.transactionId = tr]
    OBVIOUS
  <2>7. /\ c \in Clients /\ c.role = cli.role /\ c.phase = "connect"
        /\ c.status = "crtstrm_success" /\ c.send = cli.send
        /\ c.recv = cli.recv /\ c.transactionId = cli.transactionId
    <3>1. m.num \in Int
      BY <1>3 DEF Msgs
    <3> QED BY <1>1, <2>3, <3>1 DEF Clients, ClientStatuses
  <2>8. /\ d \in Clients /\ d.role = cli.role /\ d.phase = "connect"
        /\ d.status = st /\ d.send = cli.send /\ d.recv = cli.recv
    BY <2>4, <2>5, <2>6, <2>7 DEF Clients, ClientStatuses
  <2>9. PICK s \in Seq(Msgs) :
          /\ s = StreamMessages(cli.transactionId)
          /\ Len(s) = SentAt(cli.role, 5) - SentAt(cli.role, 4)
          /\ \A i \in 1..Len(s) : \A x \in Msgs :
               CutFrom(x, s[i], LargeChunkSize) =>
                 FromClient(cli.role, SentAt(cli.role, 4) + i, x)
    BY <1>2, StreamScript
  <2>10. Sends(s, c, d)
    <3>1. ~CreateStreamUndefined(m) /\ CreateStreamSucceeds(m)
      BY <2>1 DEF CreateStreamUndefined, CreateStreamSucceeds
    <3>2. Sends(StreamMessages(cli.transactionId), c,
                [c EXCEPT !.status = IF cli.role = "play" THEN "play_send"
                                     ELSE "publish_send",
                          !.transactionId = @ + StreamTransactions])
      BY <2>2, <2>3, <3>1, Zenon DEF HandleCreateStreamResponse
    <3>3. [c EXCEPT !.status = st, !.transactionId = @ + StreamTransactions] = d
      BY <2>4, <2>6, <2>7
    <3> QED BY <2>5, <2>9, <3>2, <3>3
  <2>11. /\ b = SentAt(cli.role, 4) /\ SentAt(cli.role, 4) \in Nat
         /\ p + Len(toServer) + Len(s) = SentAt(cli.role, 5)
    <3>1. /\ b = SentAt(cli.role, 4) /\ SentAt(cli.role, 4) \in Nat
          /\ SentAt(cli.role, 5) \in Nat
      BY <1>6, <1>12 DEF SentAt
    <3> QED BY <3>1, <1>4, <2>9
  <2>12. ClientAt(d, 5, SentAt(cli.role, 5))
    BY <1>2, <1>6, <1>12, <2>5, <2>8 DEF ClientAt, StatusAt, SentAt
  <2>13. \A i \in 1..Len(s) : \A x \in Msgs :
           CutFrom(x, s[i], LargeChunkSize) => FromClient(cli.role, p + Len(toServer) + i, x)
    BY <1>4, <2>9, <2>11
  <2>14. /\ c.send = LargeChunkSize /\ c.recv = LargeChunkSize
         /\ ClientAt(d, q + 1, p + Len(toServer) + Len(s))
    BY <1>6, <1>12, <2>7, <2>11, <2>12
  <2> QED BY <1>1, <1>7, <1>12, <2>7, <2>8, <2>10, <2>13, <2>14, SendsInStep
<1>13. CASE q > 4 /\ cli.role = "publish"
  <2>1. q = 5 /\ m.type = "command" /\ cli.status = "publish_send" /\ b = 6
    BY <1>3, <1>6, <1>13 DEF FromServer, StatusAt, SentAt
  <2>2. HandlePublishResponse(m)
    <3>1. ClientCommand(m)
      BY <1>3, <2>1 DEF ClientReceive, MediaTypes
    <3> QED BY <2>1, <3>1 DEF ClientCommand
  <2>3. CASE PublishSucceeds(m)
    <3>1. PICK c : c = [cli EXCEPT !.status = "publish_success", !.phase = "report"]
      OBVIOUS
    <3>2. /\ c \in Clients /\ c.role = cli.role /\ c.phase = "report"
          /\ c.status = "publish_success" /\ c.send = cli.send /\ c.recv = cli.recv
      BY <1>1, <3>1 DEF Clients, ClientStatuses, ClientPhases
    <3>3. cli' = c /\ toServer' = toServer
      BY <2>2, <2>3, <3>1 DEF HandlePublishResponse, Goes
    <3>4. ClientAt(c, r, b)
      BY <1>6, <1>7, <1>13, <2>1, <3>2 DEF ClientAt
    <3> QED BY <1>8, <3>2, <3>3, <3>4
  <2>4. CASE ~PublishSucceeds(m)
    <3>1. cli' = Return(cli, TRUE) /\ toServer' = toServer
      BY <2>2, <2>4 DEF HandlePublishResponse, Fails
    <3>2. cli' \in Clients /\ cli'.role = cli.role
      BY <1>1, <1>2, <3>1, ReturnType
    <3>3. /\ cli.recv = IF r < 3 THEN DefaultChunkSize ELSE LargeChunkSize
          /\ r < 4 => b < 2
          /\ cli.role = "play" /\ r > 8 => cli.status = "play_start"
          /\ cli.status = "publish_success" => cli.role = "publish" /\ r = 6
      BY <1>6, <1>7, <1>13, <2>1
    <3>4. ClientAt(cli', r, b)
      BY <1>1, <1>2, <3>1, <3>3, EndedAt
    <3> QED BY <1>8, <3>1, <3>2, <3>4
  <2> QED BY <2>3, <2>4
<1>14. CASE q \in {5, 6} /\ cli.role = "play"
  <2>1. /\ m.type = "user" /\ b = 7
        /\ m.name = IF q = 5 THEN "StreamIsRecorded" ELSE "StreamBegin"
        /\ cli.status = IF q = 5 THEN "play_send" ELSE "stream_is_record"
    BY <1>3, <1>6, <1>14 DEF FromServer, StatusAt, SentAt
  <2>2. ClientUserControl(m)
    BY <1>3, <2>1 DEF ClientReceive, MediaTypes
  <2>3. PICK st \in {"stream_is_record", "stream_begin"} :
          st = IF q = 5 THEN "stream_is_record" ELSE "stream_begin"
    OBVIOUS
  <2>4. PICK c : c = [cli EXCEPT !.status = st]
    OBVIOUS
  <2>5. /\ c \in Clients /\ c.role = cli.role /\ c.phase = "connect"
        /\ c.status = st /\ c.send = cli.send /\ c.recv = cli.recv
    BY <1>1, <2>3, <2>4 DEF Clients, ClientStatuses
  <2>6. cli' = c /\ toServer' = toServer
    <3>1. CASE q = 5
      BY <2>1, <2>2, <2>3, <2>4, <3>1 DEF ClientUserControl, Goes
    <3>2. CASE q = 6
      BY <2>1, <2>2, <2>3, <2>4, <3>2 DEF ClientUserControl, Goes
    <3> QED BY <1>14, <3>1, <3>2
  <2>7. ClientAt(c, r, b)
    BY <1>6, <1>7, <1>14, <2>1, <2>3, <2>5 DEF ClientAt, StatusAt, SentAt
  <2> QED BY <1>8, <2>5, <2>6, <2>7
<1>15. CASE q \in {7, 8} /\ cli.role = "play"
  <2>1. /\ m.type = "command" /\ b = 7 /\ m.name = "onStatus" /\ m.trans = 0
        /\ m.code = "NetStream.Play.Start" <=> q = 8
        /\ cli.status = IF q = 7 THEN "stream_begin" ELSE "play_reset"
    BY <1>3, <1>6, <1>15 DEF FromServer, StatusAt, SentAt
  <2>2. HandlePlayResponse(m) /\ IsOnStatus(m)
    <3>1. ClientCommand(m)
      BY <1>3, <2>1 DEF ClientReceive, MediaTypes
    <3> QED BY <2>1, <3>1 DEF ClientCommand, IsOnStatus
  <2>3. PICK e : e = [cli EXCEPT !.status = "play_reset"]
    OBVIOUS
  <2>4. /\ e \in Clients /\ e.role = cli.role /\ e.phase = "connect"
        /\ e.status = "play_reset" /\ e.send = cli.send /\ e.recv = cli.recv
    BY <1>1, <2>3 DEF Clients, ClientStatuses
  <2>5. CASE q = 7
    <3>1. cli' = e /\ toServer' = toServer
      BY <2>1, <2>2, <2>3, <2>5 DEF HandlePlayResponse, Goes
    <3>2. ClientAt(e, r, b)
      BY <1>6, <1>7, <1>15, <2>1, <2>4, <2>5 DEF ClientAt, StatusAt, SentAt
    <3> QED BY <1>8, <2>4, <3>1, <3>2
  <2>6. CASE q = 8
    <3>1. PICK c : c = [e EXCEPT !.status = "play_start"]
      OBVIOUS
    <3>2. /\ c \in Clients /\ c.role = cli.role /\ c.phase = "connect"
          /\ c.status = "play_start" /\ c.send = cli.send /\ c.recv = cli.recv
      BY <2>4, <3>1 DEF Clients, ClientStatuses
    <3>3. Goes(c)
      BY <2>1, <2>2, <2>3, <2>6, <3>1, Zenon DEF HandlePlayResponse
    <3>4. cli' = c /\ toServer' = toServer
      BY <3>3 DEF Goes
    <3>5. ClientAt(c, r, b)
      BY <1>6, <1>7, <1>15, <2>1, <2>6, <3>2 DEF ClientAt, StatusAt, SentAt
    <3> QED BY <1>8, <3>2, <3>4, <3>5
  <2> QED BY <1>15, <2>5, <2>6
<1>16. CASE q > 8 /\ cli.role = "play"
  <2>1. /\ m.type \in {"audio", "video", "command"} /\ b = 7
        /\ cli.status = "play_start"
    BY <1>3, <1>6, <1>16 DEF FromServer, StatusAt, SentAt
  <2>2. ClientCommand(m) \/ ClientMedia(m)
    BY <1>3, <2>1 DEF ClientReceive, MediaTypes
  <2>3. cli' = cli /\ toServer' = toServer
    BY <1>16, <2>1, <2>2 DEF ClientCommand, ClientMedia, Goes
  <2>4. ClientAt(cli, r, b)
    BY <1>1, <1>6, <1>7, <1>16, <2>1 DEF ClientAt, StatusAt, SentAt
  <2> QED BY <1>1, <1>8, <2>3, <2>4
<1> QED BY <1>2, <1>10, <1>11, <1>12, <1>13, <1>14, <1>15, <1>16

(***************************************************************************)
(* The server, in step with its client.                                    *)
(***************************************************************************)
LEMMA ServerMoves ==
    ASSUME TypeOK, NEW p \in Nat, NEW q \in Nat, InStep(p, q), NEW r \in Nat,
           NEW t \in Seq(Msgs), toClient' = toClient \o t,
           \A i \in 1..Len(t) : FromServer(cli.role, q + Len(toClient) + i, t[i]),
           srv' \in Handlers, registered' \subseteq Roles,
           UNCHANGED <<cli, peer, verdict>>,
           \/ toServer' = toServer /\ r = p
           \/ toServer # <<>> /\ toServer' = Tail(toServer) /\ r = p + 1,
           ServerAt(cli.role, srv', registered', r, q + Len(toClient) + Len(t))
    PROVE  TypeOK' /\ InStep(r, q)'
<1>1. toServer \in Seq(Msgs) /\ toClient \in Seq(Msgs)
  BY DEF TypeOK
<1>2. toClient' \in Seq(Msgs) /\ Len(toClient') = Len(toClient) + Len(t)
  BY <1>1, WriteAll
<1>3. \A i \in 1..Len(toClient') : FromServer(cli.role, q + i, toClient'[i])
  BY <1>1, ServerWrites DEF InStep
<1>4. /\ toServer' \in Seq(Msgs) /\ r + Len(toServer') = p + Len(toServer)
      /\ \A i \in 1..Len(toServer') : FromClient(cli.role, r + i, toServer'[i])
  <2>1. CASE toServer' = toServer /\ r = p
    BY <1>1, <2>1 DEF InStep
  <2>2. CASE toServer # <<>> /\ toServer' = Tail(toServer) /\ r = p + 1
    <3>1. /\ Len(toServer') = Len(toServer) - 1 /\ Len(toServer) \in Nat
          /\ toServer' \in Seq(Msgs)
      BY <1>1, <2>2, ReadOne
    <3>2. \A i \in 1..Len(toServer') : FromClient(cli.role, p + 1 + i, toServer'[i])
      BY <1>1, <2>2, ClientRead DEF InStep
    <3>3. r + Len(toServer') = p + Len(toServer)
      <4>1. PICK n \in Nat : n = Len(toServer)
        BY <3>1
      <4>2. Len(toServer') = n - 1 /\ r = p + 1
        BY <2>2, <3>1, <4>1
      <4>3. r + (n - 1) = p + n
        BY <4>2
      <4> QED BY <4>1, <4>2, <4>3, Zenon
    <3> QED BY <2>2, <3>1, <3>2, <3>3
  <2> QED BY <2>1, <2>2
<1>5. q + Len(toClient') = q + Len(toClient) + Len(t)
  BY <1>1, <1>2
<1>6. TypeOK'
  BY <1>2, <1>4 DEF TypeOK
<1>7. InStep(r, q)'
  BY <1>3, <1>4, <1>5 DEF InStep
<1> QED BY <1>6, <1>7

\* A server that writes nothing.
LEMMA ServerQuiet ==
    ASSUME TypeOK, NEW p \in Nat, NEW q \in Nat, InStep(p, q), NEW r \in Nat,
           toClient' = toClient, srv' \in Handlers, registered' \subseteq Roles,
           UNCHANGED <<cli, peer, verdict>>,
           \/ toServer' = toServer /\ r = p
           \/ toServer # <<>> /\ toServer' = Tail(toServer) /\ r = p + 1,
           ServerAt(cli.role, srv', registered', r, q + Len(toClient))
    PROVE  TypeOK' /\ InStep(r, q)'
<1>1. PICK t : t = <<>> /\ t \in Seq(Msgs) /\ Len(t) = 0
  <2>1. <<>> \in Seq(Msgs) /\ Len(<<>>) = 0
    OBVIOUS
  <2> QED BY <2>1
<1>2. toClient \in Seq(Msgs)
  BY DEF TypeOK
<1>3. toClient' = toClient \o t
  BY <1>1, <1>2
<1>4. q + Len(toClient) + Len(t) = q + Len(toClient)
  BY <1>1, <1>2
<1>5. \A i \in 1..Len(t) : FromServer(cli.role, q + Len(toClient) + i, t[i])
  BY <1>1
<1>6. ServerAt(cli.role, srv', registered', r, q + Len(toClient) + Len(t))
  BY <1>4
<1> QED BY <1>1, <1>3, <1>5, <1>6, ServerMoves

\* A server that has ended.
LEMMA ClosedAt ==
    ASSUME NEW role, NEW h, NEW h2, NEW reg, NEW reg2, NEW p \in Nat, NEW d \in Nat,
           NEW r \in Nat, NEW e \in Nat, ServerAt(role, h, reg, p, d),
           h2.phase = "closed", h2.recv = h.recv, reg2 \subseteq reg,
           r = p \/ (r = p + 1 /\ p # 1)
    PROVE  ServerAt(role, h2, reg2, r, e)
BY DEF ServerAt

LEMMA StopType ==
    ASSUME srv \in Handlers, registered \subseteq Roles, Stop
    PROVE  /\ srv' \in Handlers /\ srv'.phase = "closed" /\ srv'.recv = srv.recv
           /\ registered' \subseteq registered /\ registered' \subseteq Roles
           /\ toClient' = toClient
BY DEF Stop, Handlers, ServerPhases, ServerStatuses, Destroyed

LEMMA ReadFailsInStep ==
    ASSUME TypeOK, NEW p \in Nat, NEW q \in Nat, InStep(p, q), ServerReadFails,
           UNCHANGED <<cli, verdict, peer>>
    PROVE  TypeOK' /\ InStep(p, q)'
<1>1. /\ srv \in Handlers /\ registered \subseteq Roles /\ toClient \in Seq(Msgs)
      /\ Stop /\ UNCHANGED toServer
  BY DEF TypeOK, ServerReadFails
<1>2. PICK d \in Nat : d = q + Len(toClient)
  BY <1>1
<1>3. ServerAt(cli.role, srv, registered, p, d)
  BY <1>2 DEF InStep
<1>4. ServerAt(cli.role, srv', registered', p, d)
  BY <1>1, <1>3, StopType, ClosedAt
<1> QED BY <1>1, <1>2, <1>4, StopType, ServerQuiet

LEMMA ServerHandshakeInStep ==
    ASSUME TypeOK, NEW p \in Nat, NEW q \in Nat, InStep(p, q), NEW ok \in BOOLEAN,
           ServerHandshake(ok), UNCHANGED <<cli, verdict, peer>>
    PROVE  TypeOK' /\ InStep(p, q)'
<1>1. /\ srv \in Handlers /\ registered \subseteq Roles /\ toClient \in Seq(Msgs)
      /\ srv.phase = "handshake" /\ UNCHANGED <<toServer, toClient, registered>>
  BY DEF TypeOK, ServerHandshake
<1>2. PICK d \in Nat : d = q + Len(toClient)
  BY <1>1
<1>3. ServerAt(cli.role, srv, registered, p, d)
  BY <1>2 DEF InStep
<1>4. /\ srv' \in Handlers /\ srv'.recv = srv.recv /\ srv'.send = srv.send
      /\ \/ srv'.phase = "loop" /\ srv'.status = "hand_success"
         \/ srv'.phase = "closed"
  BY <1>1 DEF ServerHandshake, Handlers, ServerPhases, ServerStatuses
<1>5. ServerAt(cli.role, srv', registered', p, d)
  BY <1>1, <1>3, <1>4 DEF ServerAt, CreateAt
<1> QED BY <1>1, <1>2, <1>4, <1>5, ServerQuiet

LEMMA RegisterInStep ==
    ASSUME TypeOK, NEW p \in Nat, NEW q \in Nat, InStep(p, q), NEW ok \in BOOLEAN,
           ServerRegister(ok), UNCHANGED <<cli, verdict, peer>>
    PROVE  TypeOK' /\ InStep(p, q)'
<1>1. /\ srv \in Handlers /\ registered \subseteq Roles /\ toClient \in Seq(Msgs)
      /\ srv.phase \in {"publish", "play"} /\ UNCHANGED <<toServer, toClient>>
  BY DEF TypeOK, ServerRegister
<1>2. PICK d \in Nat : d = q + Len(toClient)
  BY <1>1
<1>3. ServerAt(cli.role, srv, registered, p, d)
  BY <1>2 DEF InStep
<1>4. PICK g \in Roles : /\ g = RegisterRole
                         /\ g = IF srv.phase = "publish" THEN "source" ELSE "sink"
  BY DEF RegisterRole, Roles
<1>5. registered' \subseteq Roles
  BY <1>1, <1>4 DEF ServerRegister
<1>6. CASE ok
  <2>1. PICK b \in BOOLEAN : b = IF g = "source" THEN TRUE ELSE srv.putMsg
    BY <1>1 DEF Handlers
  <2>2. PICK st \in ServerStatuses : st = IF srv.phase = "publish" THEN "publish_success"
                                                               ELSE "play_start"
    BY DEF ServerStatuses
  <2>3. srv' = [srv EXCEPT !.phase = "loop", !.role = g, !.status = st, !.putMsg = b]
    BY <1>4, <1>6, <2>1, <2>2, Zenon DEF ServerRegister, Registered
  <2>4. PICK h : h = [srv EXCEPT !.phase = "loop", !.role = g, !.status = st]
    OBVIOUS
  <2>5. h \in Handlers /\ h.recv = srv.recv /\ h.send = srv.send /\ h.phase = "loop"
    BY <1>1, <2>4 DEF Handlers, ServerPhases
  <2>6. srv' = [h EXCEPT !.putMsg = b]
    BY <2>3, <2>4
  <2>7. /\ srv' \in Handlers /\ srv'.recv = srv.recv /\ srv'.send = srv.send
        /\ srv'.phase = "loop" /\ srv'.putMsg = b
    BY <2>5, <2>6 DEF Handlers
  <2>8. registered' = registered \cup {g}
    BY <1>4, <1>6 DEF ServerRegister
  <2>9. ServerAt(cli.role, srv', registered', p, d)
    <3>1. srv.phase = cli.role /\ p = 6
      BY <1>1, <1>3 DEF ServerAt
    <3>2. cli.role = "publish" => srv'.putMsg /\ g = "source"
      BY <1>4, <2>1, <2>7, <3>1
    <3>3. cli.role = "play" => g = "sink"
      BY <1>4, <3>1
    <3>4. \/ cli.role = "publish" /\ d = 6 /\ srv.send = LargeChunkSize
          \/ cli.role = "play" /\ d > 10 /\ srv.send = LargeChunkSize
      BY <1>1, <1>3, <3>1 DEF ServerAt
    <3>5. srv.recv = IF p < 2 THEN DefaultChunkSize ELSE LargeChunkSize
      BY <1>3 DEF ServerAt
    <3>6. "sink" \in registered => cli.role = "play"
      BY <1>3 DEF ServerAt
    <3>7. CreateAt(cli.role) \in {4, 5}
      BY DEF CreateAt
    <3> QED BY <2>7, <2>8, <3>1, <3>2, <3>3, <3>4, <3>5, <3>6, <3>7 DEF ServerAt
  <2> QED BY <1>1, <1>2, <1>5, <2>7, <2>9, ServerQuiet
<1>7. CASE ~ok
  <2>1. /\ srv' = [srv EXCEPT !.phase = "closed", !.status = "stop", !.role = g]
        /\ registered' \subseteq registered
    BY <1>4, <1>7 DEF ServerRegister
  <2>2. srv' \in Handlers /\ srv'.phase = "closed" /\ srv'.recv = srv.recv
    BY <1>1, <1>4, <2>1 DEF Handlers, ServerPhases, ServerStatuses
  <2>3. ServerAt(cli.role, srv', registered', p, d)
    BY <1>3, <2>1, <2>2, ClosedAt
  <2> QED BY <1>1, <1>2, <1>5, <2>2, <2>3, ServerQuiet
<1> QED BY <1>6, <1>7

LEMMA SinkInStep ==
    ASSUME TypeOK, NEW p \in Nat, NEW q \in Nat, InStep(p, q), SinkWrites,
           UNCHANGED <<cli, verdict, peer>>
    PROVE  TypeOK' /\ InStep(p, q)'
<1>1. /\ srv \in Handlers /\ registered \subseteq Roles /\ toClient \in Seq(Msgs)
      /\ srv.phase = "loop" /\ "sink" \in registered
      /\ UNCHANGED <<toServer, srv, registered>>
  BY DEF TypeOK, SinkWrites
<1>2. PICK d \in Nat : d = q + Len(toClient)
  BY <1>1
<1>3. ServerAt(cli.role, srv, registered, p, d)
  BY <1>2 DEF InStep
<1>4. cli.role = "play" /\ p > 5 /\ d > 10 /\ srv.send = LargeChunkSize
  BY <1>1, <1>3 DEF ServerAt
<1>5. CASE toClient' = toClient
  BY <1>1, <1>2, <1>3, <1>5, ServerQuiet
<1>6. CASE \E m \in SinkMessages : toClient' = Append(toClient, Cut(<<m>>, srv.send)[1])
  <2>1. PICK m \in SinkMessages : toClient' = Append(toClient, Cut(<<m>>, LargeChunkSize)[1])
    BY <1>4, <1>6
  <2>2. PICK t : t = Cut(<<m>>, LargeChunkSize)
    OBVIOUS
  <2>3. PICK k \in Nat : k = d + 1 /\ k > 11
    BY <1>4
  <2>4. t \in Seq(Msgs) /\ Len(t) = 1 /\ FromServer("play", k, t[1])
    BY <2>2, <2>3, SinkScript
  <2>5. toClient' = toClient \o t
    BY <1>1, <2>1, <2>2, <2>4, AppendIsWrite
  <2>6. \A i \in 1..Len(t) : FromServer(cli.role, q + Len(toClient) + i, t[i])
    BY <1>2, <1>4, <2>3, <2>4
  <2>7. ServerAt("play", srv, registered, p, d + 1)
    BY <1>1, <1>3, <1>4 DEF ServerAt, CreateAt
  <2>8. ServerAt(cli.role, srv', registered', p, q + Len(toClient) + Len(t))
    BY <1>1, <1>2, <1>4, <2>4, <2>7
  <2> QED BY <1>1, <2>4, <2>5, <2>6, <2>8, ServerMoves
<1> QED BY <1>5, <1>6 DEF SinkWrites

\* The server reads connect.
LEMMA ConnectInStep ==
    ASSUME TypeOK, NEW q \in Nat, InStep(0, q), srv.phase = "loop", toServer # <<>>,
           toServer' = Tail(toServer), NEW m \in Msgs, m.code = "app", HandleConnect(m),
           UNCHANGED <<cli, verdict, peer>>
    PROVE  TypeOK' /\ InStep(1, q)'
<1>1. /\ srv \in Handlers /\ registered \subseteq Roles /\ toClient \in Seq(Msgs)
      /\ cli \in Clients
  BY DEF TypeOK
<1>2. PICK d \in Nat, z \in Nat : d = q + Len(toClient) /\ z = 0
  BY <1>1
<1>3. ServerAt(cli.role, srv, registered, z, d)
  BY <1>2 DEF InStep
<1>4. /\ d = 0 /\ srv.status = "hand_success" /\ srv.recv = DefaultChunkSize
      /\ "sink" \notin registered /\ srv.send \in Int
  BY <1>1, <1>2, <1>3 DEF ServerAt, Handlers
<1>5. PICK s : s = [srv EXCEPT !.app = TRUE]
  OBVIOUS
<1>6. s \in Handlers /\ s.recv = srv.recv /\ s.phase = "loop" /\ s.app
  BY <1>1, <1>5 DEF Handlers
<1>7. \/ /\ srv' = [s EXCEPT !.status = "connect_success", !.send = LargeChunkSize]
         /\ toClient' = toClient \o ConnectAnswer
         /\ registered' = registered
      \/ /\ srv' = [s EXCEPT !.status = "connect_fail"]
         /\ toClient' = toClient /\ registered' = registered
  BY <1>4, <1>5, Zenon DEF HandleConnect, ConnectFailed, Continue
<1>8. cli.role \in {"publish", "play"}
  BY <1>1 DEF Clients
<1>9. CASE /\ srv' = [s EXCEPT !.status = "connect_success", !.send = LargeChunkSize]
           /\ toClient' = toClient \o ConnectAnswer
           /\ registered' = registered
  <2>1. PICK t : t = ConnectAnswer
    OBVIOUS
  <2>2. t \in Seq(Msgs) /\ Len(t) = 4 /\ \A i \in 1..4 : FromServer(cli.role, i, t[i])
    BY <1>4, <1>8, <2>1, ConnectAnswerScript
  <2>3. \A i \in 1..Len(t) : FromServer(cli.role, q + Len(toClient) + i, t[i])
    BY <1>2, <1>4, <2>2
  <2>4. /\ srv' \in Handlers /\ srv'.recv = DefaultChunkSize /\ srv'.phase = "loop"
        /\ srv'.app /\ srv'.status = "connect_success" /\ srv'.send = LargeChunkSize
    BY <1>4, <1>6, <1>9, ChunkSizes DEF Handlers, ServerStatuses
  <2>5. ServerAt(cli.role, srv', registered', 1, 4)
    BY <1>4, <1>9, <2>4 DEF ServerAt, CreateAt
  <2>6. PICK r \in Nat : r = 1 /\ r = z + 1
    BY <1>2
  <2>7. ServerAt(cli.role, srv', registered', r, q + Len(toClient) + Len(t))
    BY <1>2, <1>4, <2>2, <2>5, <2>6
  <2>8. InStep(z, q)
    BY <1>2
  <2>9. toClient' = toClient \o t /\ registered' \subseteq Roles
    BY <1>1, <1>9, <2>1
  <2>10. TypeOK' /\ InStep(r, q)'
    BY <2>2, <2>3, <2>4, <2>6, <2>7, <2>8, <2>9, ServerMoves
  <2> QED BY <2>6, <2>10
<1>10. CASE /\ srv' = [s EXCEPT !.status = "connect_fail"]
            /\ toClient' = toClient /\ registered' = registered
  <2>1. /\ srv' \in Handlers /\ srv'.recv = DefaultChunkSize /\ srv'.phase = "loop"
        /\ srv'.app /\ srv'.status = "connect_fail"
    BY <1>4, <1>6, <1>10 DEF Handlers, ServerStatuses
  <2>2. ServerAt(cli.role, srv', registered', 1, 0)
    BY <1>4, <1>10, <2>1 DEF ServerAt, CreateAt
  <2>3. PICK r \in Nat : r = 1 /\ r = z + 1
    BY <1>2
  <2>4. ServerAt(cli.role, srv', registered', r, q + Len(toClient)) /\ InStep(z, q)
    BY <1>2, <1>4, <2>2, <2>3
  <2>5. TypeOK' /\ InStep(r, q)'
    BY <1>1, <1>10, <2>1, <2>3, <2>4, ServerQuiet
  <2> QED BY <2>3, <2>5
<1> QED BY <1>7, <1>9, <1>10

\* The server answers createStream or publish, or ends.
LEMMA AnswerInStep ==
    ASSUME TypeOK, NEW p \in Nat, NEW q \in Nat, InStep(p, q), p # 1,
           toServer # <<>>, toServer' = Tail(toServer),
           UNCHANGED <<cli, verdict, peer>>,
           NEW m \in Msgs, NEW s \in Handlers, s.send = LargeChunkSize,
           Answer(<<m>>, s) \/ Stop,
           \A c \in Msgs : CutFrom(c, m, LargeChunkSize) =>
             FromServer(cli.role, q + Len(toClient) + 1, c),
           ServerAt(cli.role, s, registered, p + 1, q + Len(toClient) + 1)
    PROVE  TypeOK' /\ InStep(p + 1, q)'
<1>1. srv \in Handlers /\ registered \subseteq Roles /\ toClient \in Seq(Msgs)
  BY DEF TypeOK
<1>2. PICK r \in Nat : r = p + 1
  OBVIOUS
<1>3. CASE Answer(<<m>>, s)
  <2>1. PICK t : t = Cut(<<m>>, LargeChunkSize)
    OBVIOUS
  <2>2. t \in Seq(Msgs) /\ Len(t) = 1 /\ CutFrom(t[1], m, LargeChunkSize)
    BY <2>1, ChunkSizes, OneAnswer
  <2>3. srv' = s /\ registered' = registered /\ toClient' = toClient \o t
    BY <1>3, <2>1 DEF Answer
  <2>4. FromServer(cli.role, q + Len(toClient) + 1, t[1])
    BY <2>2 DEF CutFrom
  <2>5. \A i \in 1..Len(t) : FromServer(cli.role, q + Len(toClient) + i, t[i])
    BY <2>2, <2>4
  <2>6. ServerAt(cli.role, srv', registered', r, q + Len(toClient) + Len(t))
    BY <1>2, <2>2, <2>3
  <2> QED BY <1>1, <1>2, <2>2, <2>3, <2>5, <2>6, ServerMoves
<1>4. CASE Stop
  <2>1. PICK d \in Nat : d = q + Len(toClient)
    BY <1>1
  <2>2. ServerAt(cli.role, srv, registered, p, d)
    BY <2>1 DEF InStep
  <2>3. ServerAt(cli.role, srv', registered', r, d)
    BY <1>1, <1>2, <1>4, <2>2, StopType, ClosedAt
  <2> QED BY <1>1, <1>2, <1>4, <2>1, <2>3, StopType, ServerQuiet
<1> QED BY <1>3, <1>4

\* The server answers play, or ends after some of the four Writes.
LEMMA PlayInStep ==
    ASSUME TypeOK, NEW q \in Nat, InStep(5, q), srv.phase = "loop", cli.role = "play",
           toServer # <<>>, toServer' = Tail(toServer), NEW m \in Msgs, HandlePlay(m),
           UNCHANGED <<cli, verdict, peer>>
    PROVE  TypeOK' /\ InStep(6, q)'
<1>1. /\ srv \in Handlers /\ registered \subseteq Roles /\ toClient \in Seq(Msgs)
      /\ m.sid \in Int
  BY DEF TypeOK, Msgs
<1>2. PICK d \in Nat, p \in Nat, r \in Nat : d = q + Len(toClient) /\ p = 5 /\ r = 6
  BY <1>1
<1>3. ServerAt(cli.role, srv, registered, p, d) /\ InStep(p, q)
  BY <1>2 DEF InStep
<1>4. d = 5 /\ srv.app /\ srv.send = LargeChunkSize /\ srv.recv = LargeChunkSize
  BY <1>2, <1>3 DEF ServerAt, CreateAt
<1>5. PICK s : s = [srv EXCEPT !.streamId = m.sid]
  OBVIOUS
<1>6. s \in Handlers /\ s.recv = srv.recv /\ s.send = srv.send
  BY <1>1, <1>5 DEF Handlers
<1>7. \/ Answer(PlayAnswer(m.sid), [s EXCEPT !.phase = "play"])
      \/ \E n \in BeforeWrite :
           /\ srv' = [s EXCEPT !.phase = "closed", !.status = "stop"]
           /\ toClient' = toClient \o Cut(SubSeq(PlayAnswer(m.sid), 1, n), srv.send)
           /\ registered' = Destroyed
  BY <1>4, <1>5, Zenon DEF HandlePlay
<1> SUFFICES TypeOK' /\ InStep(r, q)'
  BY <1>2
<1>8. ASSUME NEW n \in 0..6, srv' \in Handlers, registered' \subseteq Roles,
             toClient' = toClient \o Cut(SubSeq(PlayAnswer(m.sid), 1, n), LargeChunkSize),
             ServerAt("play", srv', registered', r, 5 + n)
      PROVE  TypeOK' /\ InStep(r, q)'
  <2>1. PICK t : t = Cut(SubSeq(PlayAnswer(m.sid), 1, n), LargeChunkSize)
    OBVIOUS
  <2>2. /\ t \in Seq(Msgs) /\ Len(t) = n
        /\ \A i \in 1..n : FromServer("play", 5 + i, t[i])
    BY <1>1, <2>1, PlayAnswerScript
  <2>3. \A i \in 1..Len(t) : FromServer(cli.role, q + Len(toClient) + i, t[i])
    BY <1>2, <1>4, <2>2
  <2>4. ServerAt(cli.role, srv', registered', r, q + Len(toClient) + Len(t))
    BY <1>2, <1>4, <1>8, <2>2
  <2>5. r = p + 1
    BY <1>2
  <2> QED BY <1>3, <1>8, <2>1, <2>2, <2>3, <2>4, <2>5, ServerMoves
<1>9. CASE Answer(PlayAnswer(m.sid), [s EXCEPT !.phase = "play"])
  <2>1. PICK h : h = [s EXCEPT !.phase = "play"]
    OBVIOUS
  <2>2. /\ h \in Handlers /\ h.phase = "play" /\ h.recv = LargeChunkSize
        /\ h.send = LargeChunkSize
    BY <1>4, <1>6, <2>1 DEF Handlers, ServerPhases
  <2>3. /\ srv' = h /\ registered' = registered
        /\ toClient' = toClient \o Cut(PlayAnswer(m.sid), LargeChunkSize)
    BY <1>9, <2>1, <2>2 DEF Answer
  <2>4. toClient' = toClient \o Cut(SubSeq(PlayAnswer(m.sid), 1, 6), LargeChunkSize)
    BY <1>1, <2>3, WholePlayAnswer
  <2>5. "sink" \notin registered
    BY <1>2, <1>3 DEF ServerAt
  <2>6. ServerAt("play", h, registered, 6, 11)
    BY <2>2, <2>5 DEF ServerAt
  <2>7. ServerAt("play", srv', registered', r, 5 + 6)
    BY <1>2, <2>3, <2>6
  <2> QED BY <1>1, <1>8, <2>2, <2>3, <2>4, <2>7
<1>10. ASSUME NEW n \in BeforeWrite,
              srv' = [s EXCEPT !.phase = "closed", !.status = "stop"],
              toClient' = toClient \o Cut(SubSeq(PlayAnswer(m.sid), 1, n), srv.send),
              registered' = Destroyed
       PROVE  TypeOK' /\ InStep(r, q)'
  <2>1. n \in 0..6
    BY DEF BeforeWrite
  <2>2. srv' \in Handlers /\ srv'.phase = "closed" /\ srv'.recv = srv.recv
    BY <1>6, <1>10 DEF Handlers, ServerPhases, ServerStatuses
  <2>3. registered' \subseteq registered
    BY <1>10 DEF Destroyed
  <2>4. PICK e \in Nat : e = 5 + n
    BY <2>1
  <2>5. r = p + 1 /\ p # 1
    BY <1>2
  <2>6. ServerAt(cli.role, srv', registered', r, e)
    BY <1>3, <2>2, <2>3, <2>5, ClosedAt
  <2> QED BY <1>1, <1>4, <1>8, <1>10, <2>1, <2>2, <2>3, <2>4, <2>6
<1> QED BY <1>7, <1>9, <1>10

\* The server reads a message that calls for no answer.
LEMMA SilentInStep ==
    ASSUME TypeOK, NEW p \in Nat, NEW q \in Nat, InStep(p, q),
           toServer # <<>>, toServer' = Tail(toServer),
           UNCHANGED <<cli, verdict, peer>>, NEW s \in Handlers,
           Continue(s), ServerAt(cli.role, s, registered, p + 1, q + Len(toClient))
    PROVE  TypeOK' /\ InStep(p + 1, q)'
<1>1. registered \subseteq Roles
  BY DEF TypeOK
<1>2. PICK r \in Nat : r = p + 1
  OBVIOUS
<1>3. srv' = s /\ registered' = registered /\ toClient' = toClient
  BY DEF Continue
<1>4. ServerAt(cli.role, srv', registered', r, q + Len(toClient))
  BY <1>2, <1>3
<1> QED BY <1>1, <1>2, <1>3, <1>4, ServerQuiet

\* The server reads a message and ends.
LEMMA StopsInStep ==
    ASSUME TypeOK, NEW p \in Nat, NEW q \in Nat, InStep(p, q), p # 1,
           toServer # <<>>, toServer' = Tail(toServer),
           UNCHANGED <<cli, verdict, peer>>, Stop
    PROVE  TypeOK' /\ InStep(p + 1, q)'
<1>1. srv \in Handlers /\ registered \subseteq Roles /\ toClient \in Seq(Msgs)
  BY DEF TypeOK
<1>2. PICK r \in Nat : r = p + 1
  OBVIOUS
<1>3. PICK d \in Nat : d = q + Len(toClient)
  BY <1>1
<1>4. ServerAt(cli.role, srv, registered, p, d)
  BY <1>3 DEF InStep
<1>5. ServerAt(cli.role, srv', registered', r, d)
  BY <1>1, <1>2, <1>4, StopType, ClosedAt
<1> QED BY <1>1, <1>2, <1>3, <1>5, StopType, ServerQuiet

\* The server reads the next message of the client's conversation.
LEMMA ServerReceiveInStep ==
    ASSUME TypeOK, NEW p \in Nat, NEW q \in Nat, InStep(p, q), ServerReceive,
           UNCHANGED <<cli, verdict, peer>>
    PROVE  TypeOK' /\ InStep(p + 1, q)'
<1>1. /\ srv \in Handlers /\ registered \subseteq Roles /\ cli \in Clients
      /\ toServer \in Seq(Msgs) /\ toClient \in Seq(Msgs)
      /\ srv.phase = "loop" /\ toServer # <<>> /\ toServer' = Tail(toServer)
  BY DEF TypeOK, ServerReceive
<1>2. cli.role \in {"publish", "play"}
  BY <1>1 DEF Clients
<1>3. PICK m \in Msgs : m = Head(toServer) /\ FromClient(cli.role, p + 1, m)
  BY <1>1, ReadOne, ClientRead DEF InStep
<1>4. PICK d \in Nat, b \in Nat, l \in Nat :
        d = q + Len(toClient) /\ b = p + l /\ l = Len(toServer) /\ l > 0 /\ q <= d
  <2>1. Len(toServer) \in Nat \ {0}
    BY <1>1, ReadOne
  <2>2. PICK l \in Nat, k \in Nat : l = Len(toServer) /\ k = Len(toClient) /\ l > 0
    BY <1>1, <2>1
  <2>3. q + k \in Nat /\ p + l \in Nat /\ q <= q + k
    OBVIOUS
  <2> QED BY <2>2, <2>3
<1>5. ServerAt(cli.role, srv, registered, p, d) /\ ClientAt(cli, q, b)
  BY <1>4 DEF InStep
<1>6. ASSUME NEW s \in Handlers, Continue(s),
             ServerAt(cli.role, s, registered, p + 1, d)
      PROVE  TypeOK' /\ InStep(p + 1, q)'
  BY <1>1, <1>4, <1>6, SilentInStep
<1>7. CASE p = 0
  <2>1. m.type = "command" /\ m.name = "connect" /\ m.code = "app"
    BY <1>3, <1>7 DEF FromClient
  <2>2. HandleConnect(m)
    <3>1. HandleCommand(m)
      BY <1>3, <2>1 DEF ServerReceive
    <3> QED BY <2>1, <3>1 DEF HandleCommand
  <2>3. InStep(0, q)
    BY <1>7
  <2>4. TypeOK' /\ InStep(1, q)'
    BY <1>1, <2>1, <2>2, <2>3, ConnectInStep
  <2>5. p + 1 = 1
    BY <1>7
  <2> QED BY <2>4, <2>5
<1>8. CASE p = 1
  <2>1. m.type = "control" /\ m.name = "SetChunkSize" /\ m.num = LargeChunkSize
    BY <1>3, <1>8 DEF FromClient
  <2>2. PICK s : s = [srv EXCEPT !.recv = LargeChunkSize]
    OBVIOUS
  <2>3. /\ s \in Handlers /\ s.phase = srv.phase /\ s.status = srv.status
        /\ s.app = srv.app /\ s.send = srv.send /\ s.recv = LargeChunkSize
        /\ s.putMsg = srv.putMsg
    BY <1>1, <2>2, ChunkSizes DEF Handlers
  <2>4. Continue(s)
    <3>1. HandleControl(m)
      BY <1>3, <2>1 DEF ServerReceive
    <3> QED BY <2>1, <2>2, <3>1 DEF HandleControl
  <2>5. ServerAt(cli.role, s, registered, 2, d)
    BY <1>1, <1>2, <1>5, <1>8, <2>3 DEF ServerAt, CreateAt
  <2> QED BY <1>6, <1>8, <2>3, <2>4, <2>5
<1>9. CASE \/ p \in {2, 3} /\ cli.role = "publish"
           \/ p \in {2, 4, 6} /\ cli.role = "play"
  <2>1. \/ m.type = "control" /\ m.name # "SetChunkSize"
        \/ m.type = "command" /\ m.name \in {"releaseStream", "FCPublish", "getStreamLength"}
        \/ m.type = "user"
    BY <1>3, <1>9 DEF FromClient
  <2>2. Continue(srv)
    <3>1. CASE m.type = "control" /\ m.name # "SetChunkSize"
      BY <1>3, <3>1 DEF ServerReceive, HandleControl
    <3>2. CASE m.type = "command" /\ m.name \in {"releaseStream", "FCPublish", "getStreamLength"}
      <4>1. HandleCommand(m)
        BY <1>3, <3>2 DEF ServerReceive
      <4> QED BY <3>2, <4>1 DEF HandleCommand
    <3>3. CASE m.type = "user"
      BY <1>3, <3>3 DEF ServerReceive
    <3> QED BY <2>1, <3>1, <3>2, <3>3
  <2>3. ServerAt(cli.role, srv, registered, p + 1, d)
    BY <1>1, <1>5, <1>9 DEF ServerAt, CreateAt
  <2> QED BY <1>1, <1>6, <2>2, <2>3
<1>10. CASE p = CreateAt(cli.role) - 1
  <2>1. p \in {3, 4} /\ p + 1 = CreateAt(cli.role)
    BY <1>10 DEF CreateAt
  <2>2. m.type = "command" /\ m.name = "createStream" /\ m.trans \in Int
    BY <1>2, <1>3, <1>10 DEF FromClient, CreateAt, Msgs
  <2>3. srv.status = "connect_success" /\ d = 4
    <3>1. \/ srv.status = "connect_success" /\ d = 4
          \/ srv.status = "connect_fail" /\ d = 0
      BY <1>1, <1>5, <2>1 DEF ServerAt
    <3>2. b > 1
      BY <1>4, <2>1
    <3>3. ~(q < 4)
      BY <1>5, <3>2 DEF ClientAt
    <3> QED BY <1>4, <3>1, <3>3
  <2>4. PICK a \in Msgs : /\ a = NewCreateStreamSuccessMessage(m.trans)
                          /\ a.type = "command" /\ a.name = "_result" /\ a.code = "number"
    BY <2>2, ResultType
  <2>5. PICK s : s = [srv EXCEPT !.status = "crtstrm_success"]
    OBVIOUS
  <2>6. /\ s \in Handlers /\ s.phase = "loop" /\ s.app = srv.app /\ s.send = srv.send
        /\ s.recv = srv.recv /\ s.putMsg = srv.putMsg
    BY <1>1, <2>5 DEF Handlers, ServerStatuses
  <2>7. Answer(<<a>>, s) \/ Stop
    <3>1. HandleCommand(m)
      BY <1>3, <2>2 DEF ServerReceive
    <3>2. HandleCreateStream(m)
      BY <2>2, <3>1 DEF HandleCommand
    <3> QED BY <2>3, <2>4, <2>5, <3>2, Zenon DEF HandleCreateStream
  <2>8. srv.send = LargeChunkSize
    BY <1>1, <1>5, <2>1, <2>3 DEF ServerAt
  <2>9. q + Len(toClient) + 1 = 5
    BY <1>4, <2>3
  <2>10. \A c \in Msgs : CutFrom(c, a, LargeChunkSize) =>
             FromServer(cli.role, q + Len(toClient) + 1, c)
    <3>1. \A c \in Msgs : CutFrom(c, a, LargeChunkSize) => FromServer(cli.role, 5, c)
      BY <2>4 DEF CutFrom, FromServer
    <3> QED BY <2>9, <3>1
  <2>11. ServerAt(cli.role, s, registered, p + 1, 5)
    BY <1>1, <1>2, <1>5, <1>10, <2>1, <2>3, <2>6, <2>8 DEF ServerAt, CreateAt
  <2>12. ServerAt(cli.role, s, registered, p + 1, q + Len(toClient) + 1)
    BY <2>9, <2>11
  <2>13. p # 1
    BY <2>1
  <2> QED BY <1>1, <2>4, <2>6, <2>7, <2>8, <2>10, <2>12, <2>13, AnswerInStep
<1>11. CASE p = 5 /\ cli.role = "publish"
  <2>1. m.type = "command" /\ m.name = "publish"
    BY <1>3, <1>11 DEF FromClient
  <2>2. d = 5 /\ srv.app /\ srv.send = LargeChunkSize
    BY <1>1, <1>5, <1>11 DEF ServerAt, CreateAt
  <2>3. PICK a \in Msgs : /\ a = NewPublishSuccessMessage
                          /\ a.type = "command" /\ a.name = "onStatus"
    BY ResultType, 1 \in Int
  <2>4. PICK s : s = [srv EXCEPT !.phase = "publish"]
    OBVIOUS
  <2>5. /\ s \in Handlers /\ s.phase = "publish" /\ s.send = srv.send
        /\ s.recv = srv.recv
    BY <1>1, <2>4 DEF Handlers, ServerPhases
  <2>6. Answer(<<a>>, s) \/ Stop
    <3>1. HandleCommand(m)
      BY <1>3, <2>1 DEF ServerReceive
    <3>2. HandlePublish(m)
      BY <2>1, <3>1 DEF HandleCommand
    <3> QED BY <2>2, <2>3, <2>4, <3>2, Zenon DEF HandlePublish
  <2>7. q + Len(toClient) + 1 = 6 /\ p + 1 = 6 /\ p # 1
    BY <1>4, <1>11, <2>2
  <2>8. \A c \in Msgs : CutFrom(c, a, LargeChunkSize) =>
             FromServer(cli.role, q + Len(toClient) + 1, c)
    <3>1. \A c \in Msgs : CutFrom(c, a, LargeChunkSize) => FromServer("publish", 6, c)
      BY <2>3 DEF CutFrom, FromServer
    <3> QED BY <1>11, <2>7, <3>1
  <2>9. ServerAt("publish", s, registered, 6, 6)
    BY <1>5, <1>11, <2>2, <2>5 DEF ServerAt, CreateAt
  <2>10. ServerAt(cli.role, s, registered, p + 1, q + Len(toClient) + 1)
    BY <1>11, <2>7, <2>9
  <2>11. s.send = LargeChunkSize
    BY <2>2, <2>5
  <2> QED BY <1>1, <2>3, <2>5, <2>6, <2>7, <2>8, <2>10, <2>11, AnswerInStep
<1>12. CASE p = 5 /\ cli.role = "play"
  <2>1. m.type = "command" /\ m.name = "play"
    BY <1>3, <1>12 DEF FromClient
  <2>2. HandlePlay(m)
    <3>1. HandleCommand(m)
      BY <1>3, <2>1 DEF ServerReceive
    <3> QED BY <2>1, <3>1 DEF HandleCommand
  <2>3. InStep(5, q) /\ p + 1 = 6
    BY <1>12
  <2>4. TypeOK' /\ InStep(6, q)'
    BY <1>1, <1>12, <2>2, <2>3, PlayInStep
  <2> QED BY <2>3, <2>4
<1>13. CASE p > 5 /\ cli.role = "publish"
  <2>1. m.type \in {"audio", "video"}
    BY <1>3, <1>13 DEF FromClient
  <2>2. HandleAudio(m) \/ HandleVideo(m)
    BY <1>3, <2>1 DEF ServerReceive
  <2>3. srv.putMsg
    BY <1>1, <1>5, <1>13 DEF ServerAt
  <2>4. Continue(srv) \/ Stop
    BY <2>2, <2>3, Zenon DEF HandleAudio, HandleVideo, PutMsg
  <2>5. ServerAt(cli.role, srv, registered, p + 1, d)
    BY <1>1, <1>5, <1>13 DEF ServerAt, CreateAt
  <2>6. p # 1
    BY <1>13
  <2> QED BY <1>1, <1>6, <2>4, <2>5, <2>6, StopsInStep
<1>14. cli.role = "play" => p < 7
  BY <1>3 DEF FromClient
<1>15. CASE cli.role = "play"
  BY <1>7, <1>8, <1>9, <1>10, <1>12, <1>14, <1>15 DEF CreateAt
<1>16. CASE cli.role = "publish"
  BY <1>7, <1>8, <1>9, <1>10, <1>11, <1>13, <1>16 DEF CreateAt
<1> QED BY <1>2, <1>15, <1>16

(***************************************************************************)
(* The client against another server.                                      *)
(***************************************************************************)
\* A step of the client after its handshake.
LEMMA AnyMoves ==
    ASSUME TypeOK, Answered, NEW t \in Seq(Msgs), toServer' = toServer \o t,
           \/ toClient' = toClient
           \/ toClient # <<>> /\ toClient' = Tail(toClient),
           UNCHANGED <<srv, registered, peer, verdict>>,
           cli' \in Clients, cli'.phase # "start",
           \A i \in 1..Len(t) : t[i].name # "connect",
           \/ t = <<>> /\ cli'.status = cli.status
           \/ \A i \in 1..Len(toServer) : toServer[i].name # "connect",
           cli'.phase = "panic" => verdict = "rejected",
           verdict = "rejected" => t = <<>> /\ cli'.status = "connect_send",
           cli'.status \in {"publish_send", "publish_success"} => cli'.streamId = AssignedId,
           cli'.status = "publish_success" => verdict = "granted",
           cli'.phase \in {"report", "transmit"} => cli'.status = "publish_success",
           app' = "streaming" => verdict = "granted"
    PROVE  TypeOK' /\ Answered'
<1>1. toServer \in Seq(Msgs) /\ toClient \in Seq(Msgs)
  BY DEF TypeOK
<1>2. /\ toServer' \in Seq(Msgs) /\ Len(toServer') = Len(toServer) + Len(t)
      /\ Len(toServer) \in Nat /\ Len(t) \in Nat
      /\ \A i \in 1..Len(toServer) : toServer'[i] = toServer[i]
      /\ \A i \in 1..Len(t) : toServer'[Len(toServer) + i] = t[i]
  BY <1>1, WriteAll
<1>3. /\ toClient' \in Seq(Msgs)
      /\ \A i \in 1..Len(toClient') : Possible(toClient'[i], verdict)
      /\ toClient = <<>> => toClient' = <<>>
  <2>1. CASE toClient' = toClient
    BY <1>1, <2>1 DEF Answered
  <2>2. CASE toClient # <<>> /\ toClient' = Tail(toClient)
    <3>1. /\ toClient' \in Seq(Msgs) /\ Len(toClient') = Len(toClient) - 1
          /\ \A i \in 1..(Len(toClient) - 1) : toClient'[i] = toClient[i + 1]
          /\ Len(toClient) \in Nat
      BY <1>1, <2>2, ReadOne
    <3>2. ASSUME NEW i \in 1..Len(toClient')
          PROVE  Possible(toClient'[i], verdict)
      <4>1. i \in 1..(Len(toClient) - 1) /\ i + 1 \in 1..Len(toClient)
        BY <3>1
      <4> QED BY <3>1, <4>1 DEF Answered
    <3> QED BY <2>2, <3>1, <3>2
  <2> QED BY <2>1, <2>2
<1>4. TypeOK'
  BY <1>2, <1>3 DEF TypeOK
<1>5. ASSUME NEW i \in 1..Len(toServer'), toServer'[i].name = "connect"
      PROVE  /\ Len(toServer') = 1 /\ toClient' = <<>> /\ verdict = "none"
             /\ cli'.status = "connect_send"
  <2>1. PICK n \in Nat, k \in Nat : n = Len(toServer) /\ k = Len(t)
    BY <1>2
  <2>2. i \in 1..n
    <3>1. CASE i \notin 1..n
      <4>1. i - n \in 1..k /\ i = n + (i - n)
        BY <1>2, <2>1, <3>1
      <4>2. toServer'[i] = t[i - n]
        BY <1>2, <2>1, <4>1
      <4> QED BY <1>5, <2>1, <4>1, <4>2
    <3> QED BY <3>1
  <2>3. toServer[i].name = "connect" /\ i \in 1..Len(toServer)
    BY <1>2, <1>5, <2>1, <2>2
  <2>4. t = <<>> /\ cli'.status = cli.status
    BY <2>3
  <2>5. /\ Len(toServer) = 1 /\ toClient = <<>> /\ verdict = "none"
        /\ cli.status = "connect_send"
    BY <2>3 DEF Answered
  <2>6. toServer' = toServer
    BY <1>1, <2>4
  <2> QED BY <1>3, <2>4, <2>5, <2>6
<1>6. verdict = "rejected" => toServer' = <<>>
  BY <1>1 DEF Answered
<1>7. srv.phase = "handshake"
  BY DEF Answered
<1>8. Answered'
  BY <1>3, <1>5, <1>6, <1>7 DEF Answered
<1> QED BY <1>4, <1>8

\* A step of the client in which it writes nothing and goes on or gives up.
LEMMA AnyQuiet ==
    ASSUME TypeOK, Answered, toServer' = toServer,
           \/ toClient' = toClient
           \/ toClient # <<>> /\ toClient' = Tail(toClient),
           UNCHANGED <<srv, registered, peer, verdict>>,
           cli' \in Clients, cli'.phase # "start",
           \/ cli'.status = cli.status
           \/ toClient # <<>>,
           cli'.phase = "panic" => verdict = "rejected",
           verdict = "rejected" => cli'.status = "connect_send",
           cli'.status \in {"publish_send", "publish_success"} => cli'.streamId = AssignedId,
           cli'.status = "publish_success" => verdict = "granted",
           cli'.phase \in {"report", "transmit"} => cli'.status = "publish_success",
           app' = "streaming" => verdict = "granted"
    PROVE  TypeOK' /\ Answered'
<1>1. PICK t : t = <<>> /\ t \in Seq(Msgs) /\ Len(t) = 0
  <2>1. <<>> \in Seq(Msgs) /\ Len(<<>>) = 0
    OBVIOUS
  <2> QED BY <2>1
<1>2. toServer' = toServer \o t
  <2>1. toServer \in Seq(Msgs)
    BY DEF TypeOK
  <2> QED BY <1>1, <2>1
<1>3. toClient # <<>> => \A i \in 1..Len(toServer) : toServer[i].name # "connect"
  BY DEF Answered
<1>4. \A i \in 1..Len(t) : t[i].name # "connect"
  BY <1>1
<1> QED BY <1>1, <1>2, <1>3, <1>4, AnyMoves

LEMMA AnyHandshake ==
    ASSUME TypeOK, Answered, NEW ok \in BOOLEAN, ClientHandshake(ok),
           UNCHANGED <<serverVars, verdict, peer>>
    PROVE  TypeOK' /\ Answered'
<1>1. /\ cli \in Clients /\ toServer \in Seq(Msgs) /\ cli.phase = "start"
      /\ UNCHANGED <<srv, registered, peer, verdict, toClient>>
  BY DEF TypeOK, ClientHandshake, serverVars
<1>2. cli.role \in {"publish", "play"} /\ cli.send \in Int
  BY <1>1 DEF Clients
<1>3. /\ toServer = <<>> /\ toClient = <<>> /\ cli.status = "init" /\ verdict = "none"
      /\ srv.phase = "handshake" /\ app # "streaming"
  BY <1>1 DEF Answered
<1>4. app' = app
  BY DEF ClientHandshake, Sends, Fails
<1>5. CASE toServer' = toServer /\ cli' = Return(cli, TRUE)
  <2>1. /\ cli' \in Clients /\ cli'.phase \in {"reportFalse", "onError", "done"}
        /\ cli'.status = "init"
    BY <1>1, <1>2, <1>3, <1>5, ReturnType
  <2> QED BY <1>1, <1>3, <1>4, <1>5, <2>1, AnyQuiet
<1>6. CASE ok
  <2>1. PICK d : d = [cli EXCEPT !.phase = "connect", !.status = "connect_send"]
    OBVIOUS
  <2>2. /\ d \in Clients /\ d.phase = "connect" /\ d.status = "connect_send"
    BY <1>1, <2>1 DEF Clients, ClientPhases, ClientStatuses
  <2>3. PICK s : s = <<NewConnectMessage>>
    OBVIOUS
  <2>4. NewConnectMessage \in Msgs
    <3>1. "connect" \in Names /\ "app" \in Codes
      BY DEF Names, Codes
    <3> QED BY <3>1, CommandType DEF NewConnectMessage
  <2>5. s \in Seq(Msgs) /\ Len(s) = 1
    BY <2>3, <2>4
  <2>6. Sends(s, cli, d)
    BY <1>6, <2>1, <2>3 DEF ClientHandshake
  <2>7. PICK t \in Seq(Msgs) :
             /\ toServer' = toServer \o t /\ Len(t) <= Len(s)
             /\ \/ cli' = d /\ Len(t) = Len(s)
                \/ cli' = Return(cli, TRUE) /\ Len(t) < Len(s)
    BY <1>2, <2>5, <2>6, SendsWrites
  <2>8. toServer' = t
    BY <1>3, <2>7
  <2>9. CASE cli' = d /\ Len(t) = Len(s)
    <3>1. Len(toServer') = 1 /\ toServer' \in Seq(Msgs)
      BY <2>5, <2>8, <2>9
    <3>2. TypeOK'
      BY <1>1, <2>2, <2>9, <3>1 DEF TypeOK
    <3>3. Answered'
      BY <1>1, <1>3, <1>4, <2>2, <2>9, <3>1 DEF Answered
    <3> QED BY <3>2, <3>3
  <2>10. CASE cli' = Return(cli, TRUE) /\ Len(t) < Len(s)
    <3>1. Len(t) \in Nat /\ Len(t) < 1
      BY <2>5, <2>10
    <3>2. t = <<>>
      BY <3>1
    <3> QED BY <1>3, <1>5, <2>8, <2>10, <3>2
  <2> QED BY <2>7, <2>9, <2>10
<1>7. CASE ~ok
  <2>1. cli' = Return(cli, TRUE) /\ toServer' = toServer
    BY <1>7 DEF ClientHandshake, Fails
  <2> QED BY <1>5, <2>1
<1> QED BY <1>6, <1>7

LEMMA AnyApplication ==
    ASSUME TypeOK, Answered,
           ResultTrue \/ ResultFalse \/ OnError \/ (\E s \in Senders : CheckStatus(s)),
           UNCHANGED <<serverVars, verdict, peer>>
    PROVE  TypeOK' /\ Answered'
<1>1. /\ cli \in Clients /\ toServer \in Seq(Msgs)
      /\ UNCHANGED <<srv, registered, peer, verdict, toClient, toServer>>
  BY DEF TypeOK, serverVars, ResultTrue, ResultFalse, OnError, CheckStatus, wireVars
<1>2. CASE ResultTrue
  <2>1. cli.phase = "report" /\ cli' = [cli EXCEPT !.phase = "transmit"]
    BY <1>2 DEF ResultTrue, Transmitting
  <2>2. /\ cli' \in Clients /\ cli'.status = cli.status /\ cli'.streamId = cli.streamId
        /\ cli'.phase = "transmit"
    BY <1>1, <2>1 DEF Clients, ClientPhases
  <2>3. cli.status = "publish_success" /\ verdict = "granted" /\ cli.streamId = AssignedId
    BY <2>1 DEF Answered
  <2> QED BY <1>1, <2>2, <2>3, AnyQuiet
<1>3. CASE ResultFalse \/ OnError
  <2>1. \/ cli' = [cli EXCEPT !.phase = "onError"] \/ cli' = [cli EXCEPT !.phase = "done"]
    BY <1>3 DEF ResultFalse, OnError, AfterResult
  <2>2. /\ cli' \in Clients /\ cli'.status = cli.status /\ cli'.streamId = cli.streamId
        /\ cli'.phase \in {"onError", "done"}
    BY <1>1, <2>1 DEF Clients, ClientPhases
  <2>3. app' # "streaming"
    BY <1>3 DEF ResultFalse, OnError
  <2>4. /\ verdict = "rejected" => cli.status = "connect_send"
        /\ cli.status \in {"publish_send", "publish_success"} => cli.streamId = AssignedId
        /\ cli.status = "publish_success" => verdict = "granted"
    BY DEF Answered
  <2> QED BY <1>1, <2>2, <2>3, <2>4, AnyQuiet
<1>4. CASE \E s \in Senders : CheckStatus(s)
  <2>1. UNCHANGED <<cli, app>>
    BY <1>4 DEF CheckStatus
  <2>2. TypeOK'
    BY <1>1, <2>1 DEF TypeOK
  <2>3. Answered'
    BY <1>1, <2>1 DEF Answered
  <2> QED BY <2>2, <2>3
<1> QED BY <1>2, <1>3, <1>4

LEMMA AnyTransmit ==
    ASSUME TypeOK, Answered, NEW s \in Senders, Transmit(s),
           UNCHANGED <<serverVars, verdict, peer>>
    PROVE  TypeOK' /\ Answered'
<1>1. /\ cli \in Clients /\ toServer \in Seq(Msgs) /\ cli.phase = "transmit"
      /\ UNCHANGED <<srv, registered, peer, verdict, toClient, app>>
  BY DEF TypeOK, Transmit, serverVars
<1>2. cli.role \in {"publish", "play"} /\ cli.send \in Int /\ cli.streamId \in Int
  BY <1>1 DEF Clients
<1>3. /\ cli.status = "publish_success" /\ verdict = "granted"
      /\ cli.streamId = AssignedId
      /\ \A i \in 1..Len(toServer) : toServer[i].name # "connect"
  BY <1>1 DEF Answered
<1>4. CASE toServer' = toServer \o Cut(<<Frame(s)>>, cli.send) /\ cli' = cli
  <2>1. PICK m : m = Frame(s)
    OBVIOUS
  <2>2. m \in Msgs /\ m.name # "connect"
    BY <1>2, <2>1, FrameScript, 7 \in Nat
  <2>3. PICK t : t = Cut(<<m>>, cli.send)
    OBVIOUS
  <2>4. t \in Seq(Msgs) /\ Len(t) = 1 /\ CutFrom(t[1], m, cli.send)
    BY <1>2, <2>2, <2>3, OneAnswer
  <2>5. \A i \in 1..Len(t) : t[i].name # "connect"
    BY <2>2, <2>4 DEF CutFrom
  <2>6. toServer' = toServer \o t
    BY <1>4, <2>1, <2>3
  <2> QED BY <1>1, <1>3, <1>4, <2>4, <2>5, <2>6, AnyMoves
<1>5. CASE /\ cli' = Return([cli EXCEPT !.status = "send_fail"], TRUE)
           /\ toServer' = toServer
  <2>1. PICK c : c = [cli EXCEPT !.status = "send_fail"]
    OBVIOUS
  <2>2. c \in Clients /\ c.status = "send_fail"
    BY <1>1, <2>1 DEF Clients, ClientStatuses
  <2>3. /\ cli' \in Clients /\ cli'.status = "send_fail"
        /\ cli'.phase \in {"reportFalse", "onError", "done"}
    BY <1>2, <1>5, <2>1, <2>2, ReturnType
  <2>4. PICK t : t = <<>> /\ t \in Seq(Msgs) /\ Len(t) = 0
    <3>1. <<>> \in Seq(Msgs) /\ Len(<<>>) = 0
      OBVIOUS
    <3> QED BY <3>1
  <2>5. toServer' = toServer \o t /\ \A i \in 1..Len(t) : t[i].name # "connect"
    BY <1>1, <1>5, <2>4
  <2> QED BY <1>1, <1>3, <2>3, <2>4, <2>5, AnyMoves
<1> QED BY <1>4, <1>5 DEF Transmit

\* The client answers an answer with its next messages.
LEMMA AnySends ==
    ASSUME TypeOK, Answered, toClient # <<>>, toClient' = Tail(toClient),
           UNCHANGED <<serverVars, verdict, peer>>, verdict # "rejected",
           NEW msgs \in Seq(Msgs), NEW c \in Clients, NEW d \in Clients,
           Sends(msgs, c, d), \A i \in 1..Len(msgs) : msgs[i].name # "connect",
           c.status \notin {"publish_send", "publish_success"},
           d.status # "publish_success", d.phase = "connect",
           d.status = "publish_send" => d.streamId = AssignedId
    PROVE  TypeOK' /\ Answered'
<1>1. /\ cli \in Clients /\ UNCHANGED <<srv, registered, peer, verdict>>
      /\ app' = app
  BY DEF TypeOK, serverVars, Sends
<1>2. cli.role \in {"publish", "play"} /\ c.send \in Int
  BY <1>1 DEF Clients
<1>3. PICK t \in Seq(Msgs) :
             /\ toServer' = toServer \o t /\ Len(t) <= Len(msgs)
             /\ \A i \in 1..Len(t) : CutFrom(t[i], msgs[i], c.send)
             /\ \/ cli' = d /\ Len(t) = Len(msgs)
                \/ cli' = Return(c, TRUE) /\ Len(t) < Len(msgs)
  BY <1>2, SendsWrites
<1>4. \A i \in 1..Len(t) : t[i].name # "connect"
  <2> SUFFICES ASSUME NEW i \in 1..Len(t) PROVE t[i].name # "connect"
    OBVIOUS
  <2>1. i \in 1..Len(msgs)
    BY <1>3
  <2> QED BY <1>3, <2>1 DEF CutFrom
<1>5. /\ \A i \in 1..Len(toServer) : toServer[i].name # "connect"
      /\ app = "streaming" => verdict = "granted"
  BY DEF Answered
<1>6. CASE cli' = d
  BY <1>1, <1>3, <1>4, <1>5, <1>6, AnyMoves
<1>7. CASE cli' = Return(c, TRUE)
  <2>1. /\ cli' \in Clients /\ cli'.status = c.status
        /\ cli'.phase \in {"reportFalse", "onError", "done"}
    BY <1>2, <1>7, ReturnType
  <2> QED BY <1>1, <1>3, <1>4, <1>5, <2>1, AnyMoves
<1> QED BY <1>3, <1>6, <1>7

\* The client reads an answer: the handshake is done, and no answer to another
\* command can be taken for the one that is due.
LEMMA AnyReceive ==
    ASSUME TypeOK, Answered, ClientReceive, UNCHANGED <<serverVars, verdict, peer>>
    PROVE  TypeOK' /\ Answered'
<1>1. /\ cli \in Clients /\ toServer \in Seq(Msgs) /\ toClient \in Seq(Msgs)
      /\ cli.phase = "connect" /\ toClient # <<>> /\ toClient' = Tail(toClient)
      /\ UNCHANGED <<srv, registered, peer, verdict>>
  BY DEF TypeOK, ClientReceive, serverVars
<1>2. /\ cli.role \in {"publish", "play"} /\ cli.transactionId \in Int
  BY <1>1 DEF Clients
<1>3. PICK m \in Msgs : m = Head(toClient) /\ Possible(m, verdict)
  <2>1. Head(toClient) \in Msgs /\ Head(toClient) = toClient[1] /\ 1 \in 1..Len(toClient)
    BY <1>1, ReadOne
  <2> QED BY <2>1 DEF Answered
<1>4. /\ verdict = "rejected" => cli.status = "connect_send"
      /\ cli.status \in {"publish_send", "publish_success"} => cli.streamId = AssignedId
      /\ cli.status = "publish_success" => verdict = "granted"
      /\ app = "streaming" => verdict = "granted"
  BY DEF Answered
<1>5. ASSUME NEW c \in Clients, cli' = c, toServer' = toServer, app' = app,
             c.phase # "start", c.phase = "panic" => verdict = "rejected",
             verdict = "rejected" => c.status = "connect_send",
             c.status \in {"publish_send", "publish_success"} => c.streamId = AssignedId,
             c.status = "publish_success" => verdict = "granted",
             c.phase \in {"report", "transmit"} => c.status = "publish_success"
      PROVE  TypeOK' /\ Answered'
  BY <1>1, <1>4, <1>5, AnyQuiet
<1>6. ASSUME Goes(cli) \/ Fails(cli)
      PROVE  TypeOK' /\ Answered'
  <2>1. PICK c : c = IF Goes(cli) THEN cli ELSE Return(cli, TRUE)
    OBVIOUS
  <2>2. cli' = c /\ toServer' = toServer /\ app' = app
    BY <1>6, <2>1 DEF Goes, Fails
  <2>3. /\ c \in Clients /\ c.status = cli.status /\ c.streamId = cli.streamId
        /\ c.phase \in {"connect", "reportFalse", "onError", "done"}
    BY <1>1, <1>2, <2>1, ReturnType
  <2> QED BY <1>4, <1>5, <2>2, <2>3
<1>7. CASE m.type = "control"
  <2>1. ClientControl(m)
    BY <1>3, <1>7 DEF ClientReceive, MediaTypes
  <2>2. PICK c : c = IF m.name = "SetChunkSize" THEN [cli EXCEPT !.recv = m.num] ELSE cli
    OBVIOUS
  <2>3. m.num \in Int
    BY <1>3 DEF Msgs
  <2>4. /\ c \in Clients /\ c.status = cli.status /\ c.streamId = cli.streamId
        /\ c.phase = "connect"
    BY <1>1, <2>2, <2>3 DEF Clients
  <2>5. cli' = c /\ toServer' = toServer /\ app' = app
    BY <2>1, <2>2 DEF ClientControl, Goes
  <2> QED BY <1>4, <1>5, <2>4, <2>5
<1>8. ASSUME NEW st \in {"stream_begin", "stream_is_record", "play_reset", "play_start"},
             NEW c, c = [cli EXCEPT !.status = st],
             cli.status # "connect_send", Goes(c) \/ Fails(c)
      PROVE  TypeOK' /\ Answered'
  <2>1. c \in Clients /\ c.status = st /\ c.phase = "connect"
    BY <1>1, <1>8 DEF Clients, ClientStatuses
  <2>2. PICK e : e = IF Goes(c) THEN c ELSE Return(c, TRUE)
    OBVIOUS
  <2>3. cli' = e /\ toServer' = toServer /\ app' = app
    BY <1>8, <2>2 DEF Goes, Fails
  <2>4. /\ e \in Clients /\ e.status = st
        /\ e.phase \in {"connect", "reportFalse", "onError", "done"}
    BY <1>2, <2>1, <2>2, ReturnType
  <2>5. verdict # "rejected"
    BY <1>4, <1>8
  <2> QED BY <1>5, <2>3, <2>4, <2>5
<1>9. CASE m.type = "user"
  <2>1. ClientUserControl(m)
    BY <1>3, <1>9 DEF ClientReceive, MediaTypes
  <2>2. \/ Goes(cli) \/ Fails(cli)
        \/ /\ cli.status \in {"stream_is_record", "play_send"}
           /\ \/ Goes([cli EXCEPT !.status = "stream_begin"])
              \/ Goes([cli EXCEPT !.status = "stream_is_record"])
    <3>1. CASE m.name = "StreamBegin"
      BY <2>1, <3>1, Zenon DEF ClientUserControl
    <3>2. CASE m.name = "StreamIsRecorded"
      BY <2>1, <3>2, Zenon DEF ClientUserControl
    <3>3. CASE m.name \notin {"StreamBegin", "StreamIsRecorded"}
      BY <2>1, <3>3 DEF ClientUserControl
    <3> QED BY <3>1, <3>2, <3>3
  <2>3. CASE /\ cli.status \in {"stream_is_record", "play_send"}
             /\ \/ Goes([cli EXCEPT !.status = "stream_begin"])
                \/ Goes([cli EXCEPT !.status = "stream_is_record"])
    <3>1. PICK st \in {"stream_begin", "stream_is_record"} : Goes([cli EXCEPT !.status = st])
      BY <2>3
    <3>2. PICK c : c = [cli EXCEPT !.status = st] /\ Goes(c)
      BY <3>1
    <3> QED BY <1>8, <2>3, <3>2
  <2> QED BY <1>6, <2>2, <2>3
<1>10. CASE m.type = "command"
  <2>1. ClientCommand(m)
    BY <1>3, <1>10 DEF ClientReceive, MediaTypes
  <2>2. CASE cli.status = "connect_send"
    <3>1. HandleConnectResponse(m)
      BY <2>1, <2>2 DEF ClientCommand
    <3>2. CASE ConnectPanics(m)
      <4>1. verdict = "rejected"
        BY <1>3, <3>2 DEF ConnectPanics, Possible
      <4>2. PICK c : c = [cli EXCEPT !.phase = "panic"]
        OBVIOUS
      <4>3. c \in Clients /\ c.status = cli.status /\ c.phase = "panic"
        BY <1>1, <4>2 DEF Clients, ClientPhases
      <4>4. cli' = c /\ toServer' = toServer /\ app' = app
        BY <3>1, <3>2, <4>2 DEF HandleConnectResponse, ClientPanic
      <4> QED BY <1>5, <2>2, <4>1, <4>3, <4>4
    <3>3. CASE ~ConnectPanics(m) /\ ~ConnectSucceeds(m)
      BY <1>6, <3>1, <3>3, Zenon DEF HandleConnectResponse
    <3>4. CASE ~ConnectPanics(m) /\ ConnectSucceeds(m)
      <4>1. verdict # "rejected"
        BY <1>3, <3>4 DEF ConnectSucceeds, Possible
      <4>2. PICK c : c = [cli EXCEPT !.status = "connect_success", !.send = LargeChunkSize]
        OBVIOUS
      <4>3. PICK tr \in Int : tr = cli.transactionId + SetupTransactions
        BY <1>2 DEF SetupTransactions
      <4>4. PICK d : d = [c EXCEPT !.status = "crtstm_send", !.transactionId = tr]
        OBVIOUS
      <4>5. /\ c \in Clients /\ c.status = "connect_success" /\ c.phase = "connect"
            /\ c.transactionId = cli.transactionId
        BY <1>1, <4>2, ChunkSizes DEF Clients, ClientStatuses
      <4>6. d \in Clients /\ d.status = "crtstm_send" /\ d.phase = "connect"
        BY <4>3, <4>4, <4>5 DEF Clients, ClientStatuses
      <4>7. PICK s \in Seq(Msgs) : /\ s = SetupMessages(cli.transactionId)
                                   /\ \A i \in 1..Len(s) : s[i].name # "connect"
        BY <1>2, SetupScript
      <4>8. Sends(s, c, d)
        <5>1. Sends(SetupMessages(cli.transactionId), c,
                    [c EXCEPT !.status = "crtstm_send",
                              !.transactionId = @ + SetupTransactions])
          BY <3>1, <3>4, <4>2, Zenon DEF HandleConnectResponse
        <5>2. [c EXCEPT !.status = "crtstm_send",
                        !.transactionId = @ + SetupTransactions] = d
          BY <4>3, <4>4, <4>5
        <5> QED BY <4>7, <5>1, <5>2
      <4> QED BY <1>1, <4>1, <4>5, <4>6, <4>7, <4>8, AnySends
    <3> QED BY <3>2, <3>3, <3>4
  <2>3. CASE cli.status = "crtstm_send"
    <3>1. HandleCreateStreamResponse(m) /\ verdict # "rejected"
      BY <1>4, <2>1, <2>3 DEF ClientCommand
    <3>2. CASE ~(~CreateStreamUndefined(m) /\ CreateStreamSucceeds(m))
      <4>1. PICK c : c = [cli EXCEPT !.streamId = 0]
        OBVIOUS
      <4>2. c \in Clients /\ c.status = "crtstm_send" /\ c.phase = "connect"
        <5>1. PICK z \in Int : z = 0
          OBVIOUS
        <5>2. c = [cli EXCEPT !.streamId = z]
          BY <4>1, <5>1
        <5> QED BY <1>1, <2>3, <5>2 DEF Clients
      <4>3. Goes(c) \/ Fails(c)
        BY <3>1, <3>2, <4>1, Zenon DEF HandleCreateStreamResponse
      <4>4. PICK e : e = IF Goes(c) THEN c ELSE Return(c, TRUE)
        OBVIOUS
      <4>5. cli' = e /\ toServer' = toServer /\ app' = app
        BY <4>3, <4>4 DEF Goes, Fails
      <4>6. /\ e \in Clients /\ e.status = "crtstm_send"
            /\ e.phase \in {"connect", "reportFalse", "onError", "done"}
        BY <1>2, <4>2, <4>4, ReturnType
      <4> QED BY <1>5, <3>1, <4>5, <4>6
    <3>3. CASE ~CreateStreamUndefined(m) /\ CreateStreamSucceeds(m)
      <4>1. m.num = AssignedId /\ m.num \in Int
        BY <1>3, <3>3 DEF CreateStreamSucceeds, Possible, Msgs
      <4>2. PICK c : c = [cli EXCEPT !.status = "crtstrm_success", !.streamId = m.num]
        OBVIOUS
      <4>3. PICK tr \in Int : tr = cli.transactionId + StreamTransactions
        BY <1>2 DEF StreamTransactions
      <4>4. PICK st \in {"play_send", "publish_send"} :
              st = IF cli.role = "play" THEN "play_send" ELSE "publish_send"
        OBVIOUS
      <4>5. PICK d : d = [c EXCEPT !.status = st, !.transactionId = tr]
        OBVIOUS
      <4>6. /\ c \in Clients /\ c.status = "crtstrm_success" /\ c.phase = "connect"
            /\ c.transactionId = cli.transactionId /\ c.streamId = AssignedId
        BY <1>1, <4>1, <4>2 DEF Clients, ClientStatuses
      <4>7. /\ d \in Clients /\ d.status = st /\ d.phase = "connect"
            /\ d.streamId = AssignedId
        BY <4>3, <4>4, <4>5, <4>6 DEF Clients, ClientStatuses
      <4>8. PICK s \in Seq(Msgs) : /\ s = StreamMessages(cli.transactionId)
                                   /\ \A i \in 1..Len(s) : s[i].name # "connect"
        BY <1>2, StreamScript
      <4>9. Sends(s, c, d)
        <5>1. Sends(StreamMessages(cli.transactionId), c,
                    [c EXCEPT !.status = IF cli.role = "play" THEN "play_send"
                                         ELSE "publish_send",
                              !.transactionId = @ + StreamTransactions])
          BY <3>1, <3>3, <4>2, Zenon DEF HandleCreateStreamResponse
        <5>2. [c EXCEPT !.status = st, !.transactionId = @ + StreamTransactions] = d
          BY <4>3, <4>5, <4>6
        <5> QED BY <4>4, <4>8, <5>1, <5>2
      <4> QED BY <1>1, <3>1, <4>4, <4>6, <4>7, <4>8, <4>9, AnySends
    <3> QED BY <3>2, <3>3
  <2>4. CASE cli.status \in {"stream_begin", "play_reset"}
    <3>1. HandlePlayResponse(m)
      BY <2>1, <2>4 DEF ClientCommand
    <3>2. PICK c : c = [cli EXCEPT !.status = "play_reset"]
      OBVIOUS
    <3>3. PICK d : d = [cli EXCEPT !.status = "play_start"]
      OBVIOUS
    <3>4. [c EXCEPT !.status = "play_start"] = d
      BY <1>1, <3>2, <3>3 DEF Clients
    <3>5. Fails(c) \/ Goes(c) \/ Goes(d)
      BY <3>1, <3>2, <3>4, Zenon DEF HandlePlayResponse
    <3> QED BY <1>8, <2>4, <3>2, <3>3, <3>5
  <2>5. CASE cli.status = "publish_send"
    <3>1. HandlePublishResponse(m)
      BY <2>1, <2>5 DEF ClientCommand
    <3>2. CASE ~PublishSucceeds(m)
      BY <1>6, <3>1, <3>2, Zenon DEF HandlePublishResponse
    <3>3. CASE PublishSucceeds(m)
      <4>1. verdict = "granted"
        BY <1>3, <3>3 DEF PublishSucceeds, Possible
      <4>2. PICK c : c = [cli EXCEPT !.status = "publish_success", !.phase = "report"]
        OBVIOUS
      <4>3. /\ c \in Clients /\ c.status = "publish_success" /\ c.phase = "report"
            /\ c.streamId = cli.streamId
        BY <1>1, <4>2 DEF Clients, ClientStatuses, ClientPhases
      <4>4. cli' = c /\ toServer' = toServer /\ app' = app
        BY <3>1, <3>3, <4>2 DEF HandlePublishResponse, Goes
      <4> QED BY <1>4, <1>5, <2>5, <4>1, <4>3, <4>4
    <3> QED BY <3>2, <3>3
  <2>6. CASE cli.status \notin {"connect_send", "crtstm_send", "stream_begin",
                                "play_reset", "publish_send"}
    <3>1. Goes(cli)
      BY <2>1, <2>6 DEF ClientCommand
    <3> QED BY <1>6, <3>1
  <2> QED BY <2>2, <2>3, <2>4, <2>5, <2>6
<1> QED BY <1>3, <1>7, <1>9, <1>10 DEF Possible

LEMMA AnyEOF ==
    ASSUME TypeOK, Answered, ClientEOF, UNCHANGED <<serverVars, verdict, peer>>
    PROVE  TypeOK' /\ Answered'
<1>1. /\ cli \in Clients /\ cli' = Return(cli, TRUE)
      /\ UNCHANGED <<srv, registered, peer, verdict, toClient, toServer, app>>
  BY DEF TypeOK, ClientEOF, serverVars, Fails
<1>2. cli.role \in {"publish", "play"}
  BY <1>1 DEF Clients
<1>3. /\ cli' \in Clients /\ cli'.status = cli.status /\ cli'.streamId = cli.streamId
      /\ cli'.phase \in {"reportFalse", "onError", "done"}
  BY <1>1, <1>2, ReturnType
<1>4. /\ verdict = "rejected" => cli.status = "connect_send"
      /\ cli.status \in {"publish_send", "publish_success"} => cli.streamId = AssignedId
      /\ cli.status = "publish_success" => verdict = "granted"
      /\ app = "streaming" => verdict = "granted"
  BY DEF Answered
<1> QED BY <1>1, <1>3, <1>4, AnyQuiet

(***************************************************************************)
(* What another server answers.                                            *)
(***************************************************************************)
\* Messages that decide nothing: no stream id, no grant and no rejection.
Plain ==
    {m \in Msgs :
        /\ m.type \in {"control", "user", "command"} /\ m.name # "@setDataFrame"
        /\ m.code \notin {"number", "NetStream.Publish.Start",
                          "NetConnection.Connect.Rejected"}}

\* The verdict after the answer ms to m of a server whose verdict was v.
VerdictAfter(m, ms, v) ==
    CASE NewPublishSuccessMessage \in Range(ms) -> "granted"
      [] Rejection \in Range(ms) -> "rejected"
      [] v = "none" /\ Unheard(m, ms) -> "unheard"
      [] OTHER -> v

LEMMA RejectionType ==
    /\ Rejection \in Msgs /\ Rejection.type = "command" /\ Rejection.name = "_result"
    /\ Rejection.code = "NetConnection.Connect.Rejected"
<1>1. "_result" \in Names /\ "NetConnection.Connect.Rejected" \in Codes
  BY DEF Names, Codes
<1> QED BY <1>1, CommandType DEF Rejection

\* A verdict that neither a grant nor a rejection changed.
Undecided(w, v) == w = v \/ (w = "unheard" /\ v = "none")

\* Only the answer to publish grants, only a rejection rejects.
LEMMA UndecidedVerdict ==
    ASSUME NEW ms \in Seq(Msgs), NEW v, NEW m,
           \A i \in 1..Len(ms) : ms[i].code \notin {"NetStream.Publish.Start",
                                                    "NetConnection.Connect.Rejected"}
    PROVE  Undecided(VerdictAfter(m, ms, v), v)
<1>1. DOMAIN ms = 1..Len(ms)
  OBVIOUS
<1>2. NewPublishSuccessMessage \notin Range(ms)
  <2>1. NewPublishSuccessMessage.code = "NetStream.Publish.Start"
    BY ResultType, 1 \in Int
  <2> QED BY <1>1, <2>1 DEF Range
<1>3. Rejection \notin Range(ms)
  BY <1>1, RejectionType DEF Range
<1> QED BY <1>2, <1>3 DEF VerdictAfter, Undecided

LEMMA PlainIsPossible ==
    ASSUME NEW ms \in Seq(Plain), NEW v \in {"none", "granted", "unheard"}, NEW m,
           NEW w, w = VerdictAfter(m, ms, v)
    PROVE  /\ ms \in Seq(Msgs) /\ Undecided(w, v)
           /\ \A i \in 1..Len(ms) : Possible(ms[i], w)
<1>1. \A i \in 1..Len(ms) : ms[i] \in Plain
  OBVIOUS
<1>2. \A i \in 1..Len(ms) :
        ms[i].code \notin {"NetStream.Publish.Start", "NetConnection.Connect.Rejected"}
  BY <1>1 DEF Plain
<1>3. ms \in Seq(Msgs)
  <2>1. Len(ms) \in Nat /\ ms \in [1..Len(ms) -> Plain] /\ Plain \subseteq Msgs
    BY DEF Plain
  <2>2. ms \in [1..Len(ms) -> Msgs]
    BY <2>1
  <2> QED BY <2>1, <2>2, SeqDef
<1>4. Undecided(w, v)
  BY <1>2, <1>3, UndecidedVerdict
<1>5. \A i \in 1..Len(ms) : Possible(ms[i], w)
  BY <1>1, <1>4 DEF Plain, Possible, Undecided
<1> QED BY <1>3, <1>4, <1>5

\* What a server whose verdict is v may answer to m.
LEMMA ResponsesArePossible ==
    ASSUME NEW m \in Msgs, NEW ms \in Responses(m),
           NEW v \in {"none", "granted", "unheard"}, NEW w, w = VerdictAfter(m, ms, v)
    PROVE  /\ ms \in Seq(Msgs) /\ \A i \in 1..Len(ms) : Possible(ms[i], w)
           /\ Undecided(w, v) \/ w = "granted" \/ (w = "rejected" /\ m.name = "connect")
<1>0. /\ m.trans \in Int /\ m.name \in Names /\ AssignedId \in Int
      /\ {"_result", "_error", "onStatus"} \subseteq Names
      /\ {"none", "undefined", "number", "NetStream.Publish.BadName",
          "NetStream.Play.Reset", "NetStream.Play.Start",
          "NetStream.Play.StreamNotFound"} \subseteq Codes
  BY AssignedIdAssumption DEF Msgs, Names, Codes
<1>1. ASSUME ms \in Seq(Plain)
      PROVE  ms \in Seq(Msgs) /\ (\A i \in 1..Len(ms) : Possible(ms[i], w))
             /\ Undecided(w, v)
  BY <1>1, PlainIsPossible
<1>2. ASSUME NEW x \in Plain, ms = <<x>>
      PROVE  ms \in Seq(Msgs) /\ (\A i \in 1..Len(ms) : Possible(ms[i], w))
             /\ Undecided(w, v)
  <2>1. ms \in Seq(Plain)
    BY <1>2
  <2> QED BY <1>1, <2>1
<1>3. ASSUME ms = <<>>
      PROVE  ms \in Seq(Msgs) /\ (\A i \in 1..Len(ms) : Possible(ms[i], w))
             /\ Undecided(w, v)
  <2>1. ms \in Seq(Plain)
    BY <1>3
  <2> QED BY <1>1, <2>1
<1>4. ASSUME NEW name \in {"_result", "_error"}, NEW code \in {"none", "undefined"},
             NEW tr \in Int
      PROVE  Command(name, tr, 0, code, 0) \in Plain
  <2>1. PICK x : x = Command(name, tr, 0, code, 0)
    OBVIOUS
  <2>2. name \in Names /\ code \in Codes
    BY DEF Names, Codes
  <2>3. x \in Msgs /\ x.type = "command" /\ x.name = name /\ x.code = code
    BY <2>1, <2>2, CommandType
  <2> QED BY <2>1, <2>3 DEF Plain
<1>5. CASE m.name = "connect"
  <2>1. \/ ms = <<NewAckMessage, NewSetPeerBandwidthMessage, NewConnectSuccessMessage>>
        \/ ms = <<Command("_error", 1, 0, "none", 0)>>
        \/ ms = <<Rejection>>
    BY <1>5 DEF Responses
  <2>2. CASE ms = <<NewAckMessage, NewSetPeerBandwidthMessage, NewConnectSuccessMessage>>
    <3>1. PICK a \in Plain : a = NewAckMessage
      <4>1. PICK a : a = NewAckMessage
        OBVIOUS
      <4>2. a \in Msgs /\ a.type = "control" /\ a.name = "WindowAck" /\ a.code = "none"
        BY <4>1, AckType, SMT DEF NewAckMessage, Control, Message
      <4> QED BY <4>1, <4>2 DEF Plain
    <3>2. PICK b \in Plain : b = NewSetPeerBandwidthMessage
      <4>1. PICK y : y = NewSetPeerBandwidthMessage
        OBVIOUS
      <4>2. y \in Msgs /\ y.type = "control" /\ y.name = "PeerBandwidth" /\ y.code = "none"
        BY <4>1, AckType, SMT DEF NewSetPeerBandwidthMessage, Control, Message
      <4> QED BY <4>1, <4>2 DEF Plain
    <3>3. PICK c \in Plain : c = NewConnectSuccessMessage
      <4>1. PICK y : y = NewConnectSuccessMessage
        OBVIOUS
      <4>2. /\ y \in Msgs /\ y.type = "command" /\ y.name = "_result"
            /\ y.code = "NetConnection.Connect.Success"
        BY <4>1, ResultType, 1 \in Int
      <4> QED BY <4>1, <4>2 DEF Plain
    <3>4. ms \in Seq(Plain)
      BY <2>2, <3>1, <3>2, <3>3
    <3> QED BY <1>1, <3>4
  <2>3. CASE ms = <<Command("_error", 1, 0, "none", 0)>>
    BY <1>2, <1>4, <2>3
  <2>4. CASE ms = <<Rejection>>
    <3>1. PICK x \in Msgs : /\ x = Rejection /\ x.type = "command" /\ x.name = "_result"
                            /\ x.code = "NetConnection.Connect.Rejected"
      BY RejectionType
    <3>2. ms = <<x>> /\ ms \in Seq(Msgs) /\ Len(ms) = 1 /\ ms[1] = x /\ DOMAIN ms = 1..1
      BY <2>4, <3>1
    <3>3. Range(ms) = {x}
      BY <3>2 DEF Range
    <3>4. NewPublishSuccessMessage # x
      <4>1. NewPublishSuccessMessage.code = "NetStream.Publish.Start"
        BY ResultType, 1 \in Int
      <4> QED BY <3>1, <4>1
    <3>5. w = "rejected"
      BY <1>5, <3>1, <3>3, <3>4 DEF VerdictAfter, Unheard
    <3>6. Possible(x, w)
      BY <3>1, <3>5 DEF Possible
    <3> QED BY <1>5, <3>2, <3>5, <3>6
  <2> QED BY <2>1, <2>2, <2>3, <2>4
<1>6. CASE m.name \in {"releaseStream", "FCPublish"}
  <2>1. ms \in Optional(Command("_result", m.trans, 0, "undefined", 0))
    BY <1>6 DEF Responses
  <2> QED BY <1>0, <1>2, <1>3, <1>4, <2>1 DEF Optional
<1>7. CASE m.name = "createStream"
  <2>1. \/ ms = <<Command("_result", m.trans, 0, "number", AssignedId)>>
        \/ ms = <<Command("_error", m.trans, 0, "none", 0)>>
    BY <1>7 DEF Responses
  <2>2. CASE ms = <<Command("_result", m.trans, 0, "number", AssignedId)>>
    <3>1. PICK x : x = Command("_result", m.trans, 0, "number", AssignedId)
      OBVIOUS
    <3>2. /\ x \in Msgs /\ x.type = "command" /\ x.name = "_result"
          /\ x.code = "number" /\ x.num = AssignedId
      <4>1. "_result" \in Names /\ "number" \in Codes
        BY DEF Names, Codes
      <4>2. PICK tr \in Int, id \in Int : tr = m.trans /\ id = AssignedId
        BY <1>0
      <4>3. x = Command("_result", tr, 0, "number", id)
        BY <3>1, <4>2
      <4>4. /\ x \in Msgs /\ x.type = "command" /\ x.name = "_result"
            /\ x.code = "number" /\ x.num = id
        BY <4>1, <4>3, CommandType
      <4> QED BY <4>2, <4>4
    <3>3. ms \in Seq(Msgs) /\ Len(ms) = 1 /\ ms[1] = x
      BY <2>2, <3>1, <3>2
    <3>4. Undecided(w, v)
      BY <3>2, <3>3, UndecidedVerdict
    <3>5. Possible(x, w)
      BY <3>2, <3>4 DEF Possible, Undecided
    <3> QED BY <3>3, <3>4, <3>5
  <2>3. CASE ms = <<Command("_error", m.trans, 0, "none", 0)>>
    BY <1>0, <1>2, <1>4, <2>3
  <2> QED BY <2>1, <2>2, <2>3
<1>8. CASE m.name = "publish"
  <2>1. \/ ms = <<NewPublishSuccessMessage>>
        \/ ms = <<NewOnStatusMessage(AssignedId, "NetStream.Publish.BadName")>>
    BY <1>8 DEF Responses
  <2>2. CASE ms = <<NewPublishSuccessMessage>>
    <3>1. PICK x \in Msgs : /\ x = NewPublishSuccessMessage /\ x.type = "command"
                            /\ x.name = "onStatus" /\ x.code = "NetStream.Publish.Start"
      BY ResultType, 1 \in Int
    <3>2. ms = <<x>> /\ ms \in Seq(Msgs) /\ Len(ms) = 1 /\ ms[1] = x /\ DOMAIN ms = 1..1
      BY <2>2, <3>1
    <3>3. Range(ms) = {x}
      BY <3>2 DEF Range
    <3>4. x # Rejection
      BY <3>1, RejectionType
    <3>5. w = "granted"
      BY <1>8, <3>1, <3>3, <3>4 DEF VerdictAfter, Unheard
    <3>6. Possible(x, w)
      BY <3>1, <3>5 DEF Possible
    <3> QED BY <3>2, <3>5, <3>6
  <2>3. CASE ms = <<NewOnStatusMessage(AssignedId, "NetStream.Publish.BadName")>>
    <3>1. PICK x : x = NewOnStatusMessage(AssignedId, "NetStream.Publish.BadName")
      OBVIOUS
    <3>2. /\ x \in Msgs /\ x.type = "command" /\ x.name = "onStatus"
          /\ x.code = "NetStream.Publish.BadName"
      BY <1>0, <3>1, StatusType
    <3>3. x \in Plain
      BY <3>2 DEF Plain
    <3> QED BY <1>2, <2>3, <3>1, <3>3
  <2> QED BY <2>1, <2>2, <2>3
<1>9. CASE m.name = "play"
  <2>1. PICK rc \in Plain : rc = NewStreamIsRecorded(AssignedId)
    <3>1. PICK x : x = NewStreamIsRecorded(AssignedId)
      OBVIOUS
    <3>2. x \in Msgs /\ x.type = "user" /\ x.name = "StreamIsRecorded" /\ x.code = "none"
      <4>1. "StreamIsRecorded" \in Names
        BY DEF Names
      <4> QED BY <1>0, <3>1, <4>1, UserType DEF NewStreamIsRecorded, UserControl, Message
    <3> QED BY <3>1, <3>2 DEF Plain
  <2>2. PICK bg \in Plain : bg = NewStreamBegin(AssignedId)
    <3>1. PICK x : x = NewStreamBegin(AssignedId)
      OBVIOUS
    <3>2. x \in Msgs /\ x.type = "user" /\ x.name = "StreamBegin" /\ x.code = "none"
      <4>1. "StreamBegin" \in Names
        BY DEF Names
      <4> QED BY <1>0, <3>1, <4>1, UserType DEF NewStreamBegin, UserControl, Message
    <3> QED BY <3>1, <3>2 DEF Plain
  <2>3. PICK rs \in Plain : rs = NewPlayResetMessage(AssignedId)
    <3>1. PICK x : x = NewPlayResetMessage(AssignedId)
      OBVIOUS
    <3>2. /\ x \in Msgs /\ x.type = "command" /\ x.name = "onStatus"
          /\ x.code = "NetStream.Play.Reset"
      BY <1>0, <3>1, StatusType DEF NewPlayResetMessage
    <3> QED BY <3>1, <3>2 DEF Plain
  <2>4. PICK st \in Plain : st = NewPlayStartMessage(AssignedId)
    <3>1. PICK x : x = NewPlayStartMessage(AssignedId)
      OBVIOUS
    <3>2. /\ x \in Msgs /\ x.type = "command" /\ x.name = "onStatus"
          /\ x.code = "NetStream.Play.Start"
      BY <1>0, <3>1, StatusType DEF NewPlayStartMessage
    <3> QED BY <3>1, <3>2 DEF Plain
  <2>5. PICK nf \in Plain : nf = NotFound
    <3>1. PICK x : x = NotFound
      OBVIOUS
    <3>2. /\ x \in Msgs /\ x.type = "command" /\ x.name = "onStatus"
          /\ x.code = "NetStream.Play.StreamNotFound"
      BY <1>0, <3>1, StatusType DEF NotFound
    <3> QED BY <3>1, <3>2 DEF Plain
  <2>6. PICK er \in Plain : er = Command("_error", m.trans, 0, "none", 0)
    BY <1>0, <1>4
  <2>7. PICK recorded \in {<<>>, <<rc>>}, begin \in {<<>>, <<bg>>},
             outcome \in {<<st>>, <<rs, st>>, <<nf>>, <<er>>} :
          ms = recorded \o begin \o outcome
    BY <1>9, <2>1, <2>2, <2>3, <2>4, <2>5, <2>6 DEF Responses, Optional, PlayOutcomes
  <2>8. recorded \in Seq(Plain) /\ begin \in Seq(Plain) /\ outcome \in Seq(Plain)
    <3>1. /\ <<>> \in Seq(Plain) /\ <<rc>> \in Seq(Plain) /\ <<bg>> \in Seq(Plain)
          /\ <<st>> \in Seq(Plain) /\ <<rs, st>> \in Seq(Plain)
          /\ <<nf>> \in Seq(Plain) /\ <<er>> \in Seq(Plain)
      OBVIOUS
    <3>2. /\ recorded = <<>> \/ recorded = <<rc>>
          /\ begin = <<>> \/ begin = <<bg>>
          /\ outcome = <<st>> \/ outcome = <<rs, st>> \/ outcome = <<nf>> \/ outcome = <<er>>
      BY <2>7, Zenon
    <3> QED BY <3>1, <3>2, Zenon
  <2>9. ms \in Seq(Plain)
    <3>1. recorded \o begin \in Seq(Plain)
      BY <2>8
    <3> QED BY <2>7, <2>8, <3>1
  <2> QED BY <1>1, <2>9
<1>10. CASE m.name \notin {"connect", "releaseStream", "FCPublish", "createStream",
                           "publish", "play"}
  <2>1. ms = <<>>
    BY <1>10 DEF Responses
  <2> QED BY <1>3, <2>1
<1> QED BY <1>5, <1>6, <1>7, <1>8, <1>9, <1>10

LEMMA AnyAnswers ==
    ASSUME TypeOK, Answered, ServerAnswers, UNCHANGED <<serverVars, peer>>
    PROVE  TypeOK' /\ Answered'
<1>1. /\ toServer \in Seq(Msgs) /\ toClient \in Seq(Msgs)
      /\ toServer # <<>> /\ toServer' = Tail(toServer)
      /\ UNCHANGED <<srv, registered, peer, cli, app>>
  BY DEF TypeOK, ServerAnswers, serverVars, clientVars
<1>2. PICK m \in Msgs : m = Head(toServer) /\ m = toServer[1]
  BY <1>1, ReadOne
<1>3. PICK ms \in Responses(m) :
        toClient' = toClient \o ms /\ verdict' = VerdictAfter(m, ms, verdict)
  BY <1>2, Zenon DEF ServerAnswers, VerdictAfter
<1>4. verdict \in {"none", "granted", "unheard"}
  BY <1>1 DEF TypeOK, Answered
<1>5. PICK w : w = verdict'
  OBVIOUS
<1>6. /\ ms \in Seq(Msgs) /\ \A i \in 1..Len(ms) : Possible(ms[i], w)
      /\ \/ w = verdict \/ (w = "unheard" /\ verdict = "none")
         \/ w = "granted" \/ (w = "rejected" /\ m.name = "connect")
  BY <1>3, <1>4, <1>5, ResponsesArePossible DEF Undecided
<1>7. /\ Len(toServer) \in Nat \ {0} /\ toServer' \in Seq(Msgs)
      /\ Len(toServer') = Len(toServer) - 1
      /\ \A i \in 1..(Len(toServer) - 1) : toServer'[i] = toServer[i + 1]
  BY <1>1, ReadOne
<1>8. m.name = "connect" =>
        /\ Len(toServer) = 1 /\ toClient = <<>> /\ verdict = "none"
        /\ cli.status = "connect_send"
  <2>1. 1 \in 1..Len(toServer)
    BY <1>7
  <2> QED BY <1>2, <2>1 DEF Answered
<1>9. \A i \in 1..Len(toClient) : Possible(toClient[i], w)
  <2> SUFFICES ASSUME NEW i \in 1..Len(toClient) PROVE Possible(toClient[i], w)
    OBVIOUS
  <2>1. Possible(toClient[i], verdict)
    BY DEF Answered
  <2>2. w # "rejected"
    BY <1>1, <1>4, <1>6, <1>8
  <2> QED BY <1>4, <1>6, <2>1, <2>2 DEF Possible
<1>10. /\ toClient' \in Seq(Msgs)
       /\ \A i \in 1..Len(toClient') : Possible(toClient'[i], w)
  <2>1. /\ toClient' \in Seq(Msgs) /\ Len(toClient') = Len(toClient) + Len(ms)
        /\ Len(toClient) \in Nat /\ Len(ms) \in Nat
        /\ \A i \in 1..Len(toClient) : toClient'[i] = toClient[i]
        /\ \A i \in 1..Len(ms) : toClient'[Len(toClient) + i] = ms[i]
    BY <1>1, <1>3, <1>6, WriteAll
  <2>2. PICK n \in Nat, k \in Nat : n = Len(toClient) /\ k = Len(ms)
    BY <2>1
  <2>3. ASSUME NEW i \in 1..(n + k) PROVE Possible(toClient'[i], w)
    <3>1. CASE i \in 1..n
      BY <1>9, <2>1, <2>2, <3>1
    <3>2. CASE i \notin 1..n
      <4>1. i - n \in 1..k /\ i = n + (i - n)
        BY <3>2
      <4>2. toClient'[i] = ms[i - n]
        BY <2>1, <2>2, <4>1
      <4> QED BY <1>6, <2>2, <4>1, <4>2
    <3> QED BY <3>1, <3>2
  <2> QED BY <2>1, <2>2, <2>3
<1>11. ASSUME NEW i \in 1..Len(toServer')
       PROVE  toServer'[i].name # "connect"
  <2>1. PICK n \in Nat : n = Len(toServer)
    BY <1>7
  <2>2. i + 1 \in 1..n /\ toServer'[i] = toServer[i + 1] /\ n # 1
    BY <1>7, <2>1
  <2> QED BY <2>1, <2>2 DEF Answered
<1>12. w = "rejected" => toServer' = <<>> /\ cli.status = "connect_send"
  <2>1. CASE w = "rejected"
    <3>1. Len(toServer) = 1 /\ cli.status = "connect_send"
      BY <1>4, <1>6, <1>8, <2>1
    <3>2. Len(toServer') = 0
      BY <1>7, <3>1
    <3> QED BY <1>7, <3>1, <3>2
  <2> QED BY <2>1
<1>13. w \in {"none", "granted", "rejected", "unheard"} /\ (verdict = "granted" => w = "granted")
  BY <1>4, <1>6, <1>8
<1>14. TypeOK'
  BY <1>1, <1>5, <1>7, <1>10, <1>13 DEF TypeOK
<1>15. cli.phase # "start" /\ cli.phase # "panic" /\ srv.phase = "handshake"
  BY <1>1, <1>4 DEF Answered
<1>16. /\ cli.status \in {"publish_send", "publish_success"} => cli.streamId = AssignedId
       /\ cli.status = "publish_success" => w = "granted"
       /\ cli.phase \in {"report", "transmit"} => cli.status = "publish_success"
       /\ app = "streaming" => w = "granted"
  BY <1>13 DEF Answered
<1>17. Answered'
  BY <1>1, <1>5, <1>10, <1>11, <1>12, <1>15, <1>16 DEF Answered
<1> QED BY <1>14, <1>17

LEMMA AnyCloses ==
    ASSUME TypeOK, Answered, ServerCloses, UNCHANGED <<serverVars, peer>>
    PROVE  TypeOK' /\ Answered'
<1>1. UNCHANGED <<toServer, toClient, srv, registered, peer, cli, app, verdict>>
  BY DEF ServerCloses, serverVars, clientVars
<1> QED BY <1>1 DEF TypeOK, Answered

(***************************************************************************)
(* The invariant.                                                          *)
(***************************************************************************)
LEMMA InitEstablishes == Init => SessionInv
<1> SUFFICES ASSUME Init PROVE SessionInv
  OBVIOUS
<1>1. PICK role \in {"publish", "play"} :
        /\ cli = [role |-> role, phase |-> "start", status |-> "init",
                  transactionId |-> 1, streamId |-> 0,
                  send |-> DefaultChunkSize, recv |-> DefaultChunkSize, err |-> FALSE]
        /\ app # "streaming"
  BY DEF Init, ClientInit
<1>2. /\ cli \in Clients /\ cli.role = role /\ cli.phase = "start" /\ cli.status = "init"
      /\ cli.send = DefaultChunkSize /\ cli.recv = DefaultChunkSize
  BY <1>1, ChunkSizes DEF Clients, ClientPhases, ClientStatuses
<1>3. /\ srv \in Handlers /\ srv.phase = "handshake" /\ registered = {}
      /\ srv.send = DefaultChunkSize /\ srv.recv = DefaultChunkSize
  BY ChunkSizes DEF Init, ServerInit, Handlers, ServerPhases, ServerStatuses
<1>4. /\ toServer = <<>> /\ toClient = <<>> /\ verdict = "none"
      /\ peer \in {"golive", "any"}
      /\ toServer \in Seq(Msgs) /\ toClient \in Seq(Msgs)
      /\ Len(toServer) = 0 /\ Len(toClient) = 0
  BY DEF Init, WireInit
<1>5. TypeOK
  BY <1>2, <1>3, <1>4 DEF TypeOK
<1>6. InStep(0, 0)
  <2>1. ClientAt(cli, 0, 0)
    BY <1>2 DEF ClientAt
  <2>2. ServerAt(cli.role, srv, registered, 0, 0)
    BY <1>3 DEF ServerAt
  <2>3. 0 + Len(toServer) = 0 /\ 0 + Len(toClient) = 0
    BY <1>4
  <2> QED BY <1>4, <2>1, <2>2, <2>3 DEF InStep
<1>7. Answered
  BY <1>1, <1>2, <1>3, <1>4 DEF Answered
<1> QED BY <1>5, <1>6, <1>7 DEF SessionInv

\* Every step of the repository's two ends leaves them in step.
LEMMA StepsStayInStep ==
    ASSUME TypeOK, NEW p \in Nat, NEW q \in Nat, InStep(p, q), peer = "golive", Next
    PROVE  TypeOK' /\ \E i, j \in Nat : InStep(i, j)'
<1>1. p + 1 \in Nat /\ q + 1 \in Nat
  OBVIOUS
<1>2. CASE Server
  <2>1. UNCHANGED <<cli, verdict, peer>>
    BY <1>2 DEF Server, clientVars
  <2>2. CASE \E ok \in BOOLEAN : ServerHandshake(ok)
    BY <2>1, <2>2, ServerHandshakeInStep
  <2>3. CASE ServerReceive
    BY <1>1, <2>1, <2>3, ServerReceiveInStep
  <2>4. CASE \E ok \in BOOLEAN : ServerRegister(ok)
    BY <2>1, <2>4, RegisterInStep
  <2>5. CASE ServerReadFails
    BY <2>1, <2>5, ReadFailsInStep
  <2> QED BY <1>2, <2>2, <2>3, <2>4, <2>5 DEF Server, ServerNext
<1>3. CASE Sink
  <2>1. SinkWrites /\ UNCHANGED <<cli, verdict, peer>>
    BY <1>3 DEF Sink, clientVars
  <2> QED BY <2>1, SinkInStep
<1>4. CASE Client
  <2>1. ClientNext /\ UNCHANGED <<serverVars, verdict, peer>>
    BY <1>4 DEF Client, ByClient
  <2>2. CASE \E ok \in BOOLEAN : ClientHandshake(ok)
    BY <2>1, <2>2, HandshakeInStep
  <2>3. CASE ClientReceive
    BY <1>1, <2>1, <2>3, ReceiveInStep
  <2>4. CASE ClientEOF
    <3>1. cli.phase = "connect" /\ Fails(cli) /\ UNCHANGED toClient
      BY <2>4 DEF ClientEOF
    <3>2. UNCHANGED <<serverVars, verdict, peer, toClient>>
      BY <2>1, <3>1
    <3> QED BY <3>1, <3>2, FailsInStep
  <2>5. CASE ResultTrue \/ ResultFalse \/ OnError \/ (\E s \in Senders : CheckStatus(s))
    BY <2>1, <2>5, ApplicationInStep
  <2>6. CASE \E s \in Senders : Transmit(s)
    BY <2>1, <2>6, TransmitInStep
  <2> QED BY <2>1, <2>2, <2>3, <2>4, <2>5, <2>6 DEF ClientNext
<1>5. ~AnyServer
  BY DEF AnyServer
<1> QED BY <1>2, <1>3, <1>4, <1>5 DEF Next

\* Every step of the client and of another server.
LEMMA StepsStayAnswered ==
    ASSUME TypeOK, Answered, peer = "any", Next
    PROVE  TypeOK' /\ Answered'
<1>1. ~Server /\ ~Sink
  BY DEF Server, Sink
<1>2. CASE AnyServer
  BY <1>2, AnyAnswers, AnyCloses DEF AnyServer
<1>3. CASE Client
  <2>1. ClientNext /\ UNCHANGED <<serverVars, verdict, peer>>
    BY <1>3 DEF Client, ByClient
  <2>2. CASE \E ok \in BOOLEAN : ClientHandshake(ok)
    BY <2>1, <2>2, AnyHandshake
  <2>3. CASE ResultTrue \/ ResultFalse \/ OnError \/ (\E s \in Senders : CheckStatus(s))
    BY <2>1, <2>3, AnyApplication
  <2>4. CASE \E s \in Senders : Transmit(s)
    BY <2>1, <2>4, AnyTransmit
  <2> QED BY <2>1, <2>2, <2>3, <2>4, AnyReceive, AnyEOF DEF ClientNext
<1> QED BY <1>1, <1>2, <1>3 DEF Next

LEMMA StepKeepsSession == SessionInv /\ [Next]_vars => SessionInv'
<1> SUFFICES ASSUME SessionInv, [Next]_vars PROVE SessionInv'
  OBVIOUS
<1>1. CASE UNCHANGED vars
  <2>1. UNCHANGED <<toServer, toClient, srv, registered, cli, app, verdict, peer>>
    BY <1>1 DEF vars, wireVars, serverVars, clientVars
  <2>2. TypeOK'
    BY <2>1 DEF SessionInv, TypeOK
  <2>3. peer = "golive" => \E p, q \in Nat : InStep(p, q)'
    <3>1. \A p, q \in Nat : InStep(p, q) => InStep(p, q)'
      BY <2>1 DEF InStep
    <3> QED BY <3>1 DEF SessionInv
  <2>4. peer = "any" => Answered'
    BY <2>1 DEF SessionInv, Answered
  <2> QED BY <2>1, <2>2, <2>3, <2>4 DEF SessionInv
<1>2. CASE Next
  <2>1. peer' = peer
    BY <1>2 DEF Next, Server, Sink, AnyServer, Client, ByClient
  <2>2. CASE peer = "golive"
    <3>1. TypeOK /\ \E p, q \in Nat : InStep(p, q)
      BY <2>2 DEF SessionInv
    <3>2. TypeOK' /\ \E i, j \in Nat : InStep(i, j)'
      BY <1>2, <2>2, <3>1, StepsStayInStep
    <3> QED BY <2>1, <2>2, <3>2 DEF SessionInv
  <2>3. CASE peer = "any"
    <3>1. TypeOK' /\ Answered'
      BY <1>2, <2>3, StepsStayAnswered DEF SessionInv
    <3> QED BY <2>1, <2>3, <3>1 DEF SessionInv
  <2> QED BY <2>2, <2>3 DEF SessionInv, TypeOK
<1> QED BY <1>1, <1>2

(***************************************************************************)
(* What follows.                                                           *)
(***************************************************************************)
LEMMA NoChange ==
    ASSUME NEW q, NEW recv, NEW i, \A j \in 1..(i - 1) : q[j].name # "SetChunkSize"
    PROVE  SizeAt(q, recv, i) = recv
BY DEF SizeAt

LEMMA OneChange ==
    ASSUME NEW q, NEW recv, NEW i \in Nat, NEW k \in 1..(i - 1),
           q[k].name = "SetChunkSize",
           \A j \in 1..(i - 1) : q[j].name = "SetChunkSize" => j = k
    PROVE  SizeAt(q, recv, i) = q[k].num
<1>1. {j \in 1..(i - 1) : q[j].name = "SetChunkSize"} = {k}
  OBVIOUS
<1>2. Max({k}) = k
  <2>1. k >= k
    OBVIOUS
  <2> QED BY <2>1, Zenon DEF Max
<1> QED BY <1>1, <1>2 DEF SizeAt

\* The size changes once in each conversation, at its second and at its third
\* message.
LEMMA SizesInStep ==
    ASSUME TypeOK, NEW p \in Nat, NEW q \in Nat, InStep(p, q)
    PROVE  /\ \A i \in DOMAIN toServer :
                Small(toServer[i]) \/ toServer[i].chunk = SizeAt(toServer, srv.recv, i)
           /\ \A i \in DOMAIN toClient :
                Small(toClient[i]) \/ toClient[i].chunk = SizeAt(toClient, cli.recv, i)
<1>1. /\ DOMAIN toServer = 1..Len(toServer) /\ DOMAIN toClient = 1..Len(toClient)
      /\ Len(toServer) \in Nat /\ Len(toClient) \in Nat
  BY DEF TypeOK
<1>2. ASSUME NEW i \in 1..Len(toServer)
      PROVE  Small(toServer[i]) \/ toServer[i].chunk = SizeAt(toServer, srv.recv, i)
  <2>0. i \in Nat /\ i > 0
    BY <1>1
  <2>1. srv.recv = IF p < 2 THEN DefaultChunkSize ELSE LargeChunkSize
    BY DEF InStep, ServerAt
  <2>2. \A j \in 1..i : FromClient(cli.role, p + j, toServer[j])
    BY <1>1 DEF InStep
  <2>3. FromClient(cli.role, p + i, toServer[i])
    BY <2>0, <2>2
  <2>4. CASE p + i = 1
    <3>1. toServer[i].chunk = DefaultChunkSize /\ p < 2 /\ i = 1
      BY <2>0, <2>3, <2>4 DEF FromClient
    <3>2. SizeAt(toServer, srv.recv, i) = srv.recv
      BY <3>1, NoChange
    <3> QED BY <2>1, <3>1, <3>2
  <2>5. CASE p + i = 2
    BY <2>3, <2>5 DEF FromClient, Small
  <2>6. CASE p + i > 2
    <3>1. toServer[i].chunk = LargeChunkSize
      BY <2>3, <2>6 DEF FromClient
    <3>2. ASSUME NEW j \in 1..(i - 1)
          PROVE  /\ p + j = 2 => toServer[j].name = "SetChunkSize" /\ toServer[j].num = LargeChunkSize
                 /\ p + j # 2 => toServer[j].name # "SetChunkSize"
      <4>1. j \in 1..i /\ p + j \in Nat
        BY <2>0
      <4> QED BY <2>2, <4>1 DEF FromClient
    <3>3. CASE p < 2
      <4>1. PICK k \in 1..(i - 1) : p + k = 2
        <5>1. 2 - p \in 1..(i - 1) /\ p + (2 - p) = 2
          BY <2>0, <2>6, <3>3
        <5> QED BY <5>1
      <4>2. \A j \in 1..(i - 1) : p + j = 2 => j = k
        BY <2>0, <4>1
      <4>3. \A j \in 1..(i - 1) : toServer[j].name = "SetChunkSize" => j = k
        BY <3>2, <4>2
      <4>4. SizeAt(toServer, srv.recv, i) = toServer[k].num
        BY <2>0, <3>2, <4>1, <4>3, OneChange
      <4> QED BY <3>1, <3>2, <4>1, <4>4
    <3>4. CASE ~(p < 2)
      <4>1. \A j \in 1..(i - 1) : p + j # 2
        BY <2>0, <3>4
      <4>2. SizeAt(toServer, srv.recv, i) = srv.recv
        BY <3>2, <4>1, NoChange
      <4> QED BY <2>1, <3>1, <3>4, <4>2
    <3> QED BY <3>3, <3>4
  <2> QED BY <2>0, <2>4, <2>5, <2>6
<1>3. ASSUME NEW i \in 1..Len(toClient)
      PROVE  Small(toClient[i]) \/ toClient[i].chunk = SizeAt(toClient, cli.recv, i)
  <2>0. i \in Nat /\ i > 0
    BY <1>1
  <2>1. cli.recv = IF q < 3 THEN DefaultChunkSize ELSE LargeChunkSize
    BY DEF InStep, ClientAt
  <2>2. \A j \in 1..i : FromServer(cli.role, q + j, toClient[j])
    BY <1>1 DEF InStep
  <2>3. FromServer(cli.role, q + i, toClient[i])
    BY <2>0, <2>2
  <2>4. CASE q + i < 4
    BY <2>3, <2>4 DEF FromServer, Small
  <2>5. CASE q + i > 3
    <3>1. toClient[i].chunk = LargeChunkSize
      BY <2>3, <2>5 DEF FromServer
    <3>2. ASSUME NEW j \in 1..(i - 1)
          PROVE  /\ q + j = 3 => toClient[j].name = "SetChunkSize" /\ toClient[j].num = LargeChunkSize
                 /\ q + j # 3 => toClient[j].name # "SetChunkSize"
      <4>1. j \in 1..i /\ q + j \in Nat
        BY <2>0
      <4> QED BY <2>2, <4>1 DEF FromServer
    <3>3. CASE q < 3
      <4>1. PICK k \in 1..(i - 1) : q + k = 3
        <5>1. 3 - q \in 1..(i - 1) /\ q + (3 - q) = 3
          BY <2>0, <2>5, <3>3
        <5> QED BY <5>1
      <4>2. \A j \in 1..(i - 1) : q + j = 3 => j = k
        BY <2>0, <4>1
      <4>3. \A j \in 1..(i - 1) : toClient[j].name = "SetChunkSize" => j = k
        BY <3>2, <4>2
      <4>4. SizeAt(toClient, cli.recv, i) = toClient[k].num
        BY <2>0, <3>2, <4>1, <4>3, OneChange
      <4> QED BY <3>1, <3>2, <4>1, <4>4
    <3>4. CASE ~(q < 3)
      <4>1. \A j \in 1..(i - 1) : q + j # 3
        BY <2>0, <3>4
      <4>2. SizeAt(toClient, cli.recv, i) = cli.recv
        BY <3>2, <4>1, NoChange
      <4> QED BY <2>1, <3>1, <3>4, <4>2
    <3> QED BY <3>3, <3>4
  <2> QED BY <2>0, <2>4, <2>5
<1> QED BY <1>1, <1>2, <1>3

\* Between the repository's own ends, media is behind the start of play.
LEMMA MediaInStep ==
    ASSUME TypeOK, NEW p \in Nat, NEW q \in Nat, InStep(p, q)
    PROVE  MediaAfterStart
<1>1. DOMAIN toClient = 1..Len(toClient) /\ Len(toClient) \in Nat
  BY DEF TypeOK
<1>2. cli.role \in {"publish", "play"}
  BY DEF TypeOK, Clients
<1> SUFFICES ASSUME NEW i \in 1..Len(toClient),
                    \/ toClient[i].type \in MediaTypes
                    \/ toClient[i].name = "@setDataFrame"
             PROVE  \/ cli.status = "play_start"
                    \/ \E j \in 1..(i - 1) : toClient[j].code = "NetStream.Play.Start"
  BY <1>1 DEF MediaAfterStart
<1>3. i \in Nat /\ i > 0 /\ \A j \in 1..i : FromServer(cli.role, q + j, toClient[j])
  BY <1>1 DEF InStep
<1>4. FromServer(cli.role, q + i, toClient[i])
  BY <1>3
<1>5. cli.role = "play" /\ q + i > 11
  BY <1>2, <1>3, <1>4 DEF FromServer, MediaTypes
<1>6. CASE q > 8
  BY <1>5, <1>6 DEF InStep, ClientAt
<1>7. CASE ~(q > 8)
  <2>1. PICK j \in 1..(i - 1) : q + j = 9
    <3>1. 9 - q \in 1..(i - 1) /\ q + (9 - q) = 9
      BY <1>3, <1>5, <1>7
    <3> QED BY <3>1
  <2>2. j \in 1..i
    BY <1>3
  <2>3. toClient[j].code = "NetStream.Play.Start"
    BY <1>3, <1>5, <2>1, <2>2 DEF FromServer
  <2> QED BY <2>3
<1> QED BY <1>6, <1>7

\* A client that has read the answer to publish has a server past that answer.
LEMMA RegisteredInStep ==
    ASSUME TypeOK, NEW p \in Nat, NEW q \in Nat, InStep(p, q),
           cli.status = "publish_success"
    PROVE  srv.phase \in {"publish", "closed"} \/ "source" \in registered
<1>1. PICK d \in Nat : d = q + Len(toClient) /\ d >= q
  <2>1. Len(toClient) \in Nat
    BY DEF TypeOK
  <2>2. PICK n \in Nat : n = Len(toClient)
    BY <2>1
  <2>3. q + n \in Nat /\ q + n >= q
    OBVIOUS
  <2> QED BY <2>2, <2>3
<1>2. cli.role = "publish" /\ q = 6
  BY DEF InStep, ClientAt
<1>3. ServerAt("publish", srv, registered, p, d)
  BY <1>1, <1>2 DEF InStep
<1>4. srv.phase \in {"handshake", "loop", "publish", "play", "closed", "panic"}
  BY DEF TypeOK, Handlers, ServerPhases
<1> QED BY <1>1, <1>2, <1>3, <1>4 DEF ServerAt, CreateAt

LEMMA InvariantShows ==
    ASSUME SessionInv
    PROVE  ChunkSizesAgree /\ MediaAfterStart /\ SuccessIsReal /\ SessionNeverPanics
<1>1. TypeOK /\ peer \in {"golive", "any"}
  BY DEF SessionInv, TypeOK
<1>2. CASE peer = "golive"
  <2>1. PICK p \in Nat, q \in Nat : InStep(p, q)
    BY <1>2 DEF SessionInv
  <2>2. ChunkSizesAgree
    BY <1>1, <2>1, SizesInStep DEF ChunkSizesAgree
  <2>3. MediaAfterStart
    BY <1>1, <2>1, MediaInStep
  <2>4. SuccessIsReal
    <3>1. SuccessMeansRegistered
      BY <1>1, <2>1, RegisteredInStep DEF SuccessMeansRegistered
    <3> QED BY <1>2, <3>1 DEF SuccessIsReal, TrueOnlyIfGranted, StreamIsTheCreated
  <2>5. SessionNeverPanics
    BY <2>1 DEF SessionNeverPanics, InStep, ClientAt, ServerAt
  <2> QED BY <2>2, <2>3, <2>4, <2>5
<1>3. CASE peer = "any"
  <2>1. Answered
    BY <1>3 DEF SessionInv
  <2>2. MediaAfterStart
    <3>1. DOMAIN toClient = 1..Len(toClient)
      BY <1>1 DEF TypeOK
    <3> QED BY <2>1, <3>1 DEF MediaAfterStart, Answered, Possible, MediaTypes
  <2>3. ChunkSizesAgree /\ SuccessIsReal
    BY <1>3, <2>1 DEF ChunkSizesAgree, SuccessIsReal, SuccessMeansRegistered,
       TrueOnlyIfGranted, StreamIsTheCreated, Answered
  <2>4. SessionNeverPanics
    BY <2>1 DEF SessionNeverPanics, Answered
  <2> QED BY <2>2, <2>3, <2>4
<1> QED BY <1>1, <1>2, <1>3

\* In every run of the client against the repository's server the two ends are
\* in step, and against another server every answer on the way is one that the
\* server's verdict allows.
THEOREM SessionInStep == Spec => []SessionInv
<1>1. Init => SessionInv
  BY InitEstablishes
<1>2. SessionInv /\ [Next]_vars => SessionInv'
  BY StepKeepsSession
<1> QED BY <1>1, <1>2, PTL DEF Spec

\* Every message in flight between RtmpClientHandler and RtmpHandler is cut with
\* the chunk size its reader will assume, whatever the writes that fail.
THEOREM SessionChunkSizesAgree == Spec => []ChunkSizesAgree
<1>1. SessionInv => ChunkSizesAgree
  BY InvariantShows
<1> QED BY <1>1, SessionInStep, PTL

\* Whatever the sink's goroutine writes beside the handler reaches a player
\* after the start of play, so that it is never taken for an answer.
THEOREM SessionMediaAfterStart == Spec => []MediaAfterStart
<1>1. SessionInv => MediaAfterStart
  BY InvariantShows
<1> QED BY <1>1, SessionInStep, PTL

\* What RtmpClientHandler takes for success is success: its server has answered
\* publish, the other server has granted it, and it publishes on the stream that
\* createStream returned.
THEOREM SessionSuccessIsReal == Spec => []SuccessIsReal
<1>1. SessionInv => SuccessIsReal
  BY InvariantShows
<1> QED BY <1>1, SessionInStep, PTL

\* No order of the steps of the two ends makes RtmpHandler panic, and
\* RtmpClientHandler panics on nothing but a connect rejected in a _result.
THEOREM SessionPanicsNever == Spec => []SessionNeverPanics
<1>1. SessionInv => SessionNeverPanics
  BY InvariantShows
<1> QED BY <1>1, SessionInStep, PTL
=============================================================================
