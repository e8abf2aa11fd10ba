----------------------------- MODULE RtmpServer -----------------------------
(***************************************************************************)
(* RtmpHandler, the server's end of an rtmp connection: the handler        *)
(* goroutine reads a message, handles it, and reads the next.  The         *)
(* handler's fields are the record srv; what the exchanger holds of this   *)
(* connection is `registered'.  The exchanger itself is module Exchange,   *)
(* here it answers a registration either way.                              *)
(***************************************************************************)
EXTENDS RtmpWire

VARIABLES
    srv,          \* the fields of RtmpHandler
    registered    \* roles under which the exchanger knows this handler

serverVars == <<srv, registered>>

Roles == {"source", "sink"}

\* phase: where the handler goroutine is.  "publish" and "play" are between
\* the answer to the command and the registration with the exchanger.
ServerInit ==
    /\ srv = [phase |-> "handshake", status |-> "zero", app |-> FALSE,
              role |-> "none", putMsg |-> FALSE, videoCodecID |-> -1,
              audioCodecID |-> -1, streamId |-> 0,
              send |-> DefaultChunkSize, recv |-> DefaultChunkSize]
    /\ registered = {}

\* NewRtmpHandler sets no status; Start sets it once the handshake is done.
ServerHandshake(ok) ==
    /\ srv.phase = "handshake"
    /\ IF ok
       THEN /\ srv' = [srv EXCEPT !.phase = "loop", !.status = "hand_success"]
            /\ UNCHANGED serverOpen
       ELSE /\ srv' = [srv EXCEPT !.phase = "closed"]
            /\ serverOpen' = FALSE
    /\ UNCHANGED <<registered, toServer, toClient, clientOpen>>

(***************************************************************************)
(* The ways a handler ends.                                                *)
(***************************************************************************)
\* Mutant: stop undoes sources only.
MutDestroyed == registered \ ({srv.role} \ {"sink"})

\* What stop does to the exchanger: only the last role is undone.
Destroyed == registered \ {srv.role}

\* An error makes Start return: stop runs, and serve closes the connection.
Stop ==
    /\ srv' = [srv EXCEPT !.phase = "closed", !.status = "stop"]
    /\ registered' = Destroyed
    /\ serverOpen' = FALSE
    /\ UNCHANGED <<toClient, clientOpen>>

\* A panic of the handler goroutine ends the process: nothing recovers it.
Panic ==
    /\ srv' = [srv EXCEPT !.phase = "panic"]
    /\ serverOpen' = FALSE
    /\ UNCHANGED <<registered, toClient, clientOpen>>

Continue(s) ==
    /\ srv' = s
    /\ UNCHANGED <<registered, serverOpen, toClient, clientOpen>>

\* One Write of msgs followed by the state s, or the state e when it fails.
Answer(msgs, s) ==
    /\ srv' = s
    /\ toClient' = toClient \o Cut(msgs, s.send)
    /\ UNCHANGED <<registered, serverOpen, clientOpen>>

(***************************************************************************)
(* Commands.                                                               *)
(***************************************************************************)
\* Mutant: the new chunk size is not announced.
MutConnectAnswer ==
    Cut(<<NewAckMessage, NewSetPeerBandwidthMessage>>, srv.send)
    \o Cut(<<NewConnectSuccessMessage>>, LargeChunkSize)

\* handleConnectCommand reads the command object, then answers with four
\* messages in one Write; the first two are cut with the old chunk size.
ConnectAnswer ==
    Cut(<<NewAckMessage, NewSetPeerBandwidthMessage>>, srv.send)
    \o Cut(<<NewSetChunkSizeMessage(LargeChunkSize), NewConnectSuccessMessage>>,
           LargeChunkSize)

\* An error of handleConnectCommand only sets the status: handleCommandMessage
\* falls out of its switch and returns nil.
ConnectFailed(s) == Continue([s EXCEPT !.status = "connect_fail"])

HandleConnect(m) ==
    IF srv.status # "hand_success" THEN Panic
    ELSE IF m.code = "garbled" THEN ConnectFailed(srv)
    ELSE LET s == [srv EXCEPT !.app = m.code = "app"]
         IN \E ok \in WriteOutcomes(clientOpen) :
              IF ok
              THEN /\ srv' = [s EXCEPT !.status = "connect_success",
                                       !.send = LargeChunkSize]
                   /\ toClient' = toClient \o ConnectAnswer
                   /\ UNCHANGED <<registered, serverOpen, clientOpen>>
              ELSE ConnectFailed(s)

HandleCreateStream(m) ==
    IF srv.status # "connect_success" THEN Panic
    ELSE \E ok \in WriteOutcomes(clientOpen) :
           IF ok
           THEN Answer(<<NewCreateStreamSuccessMessage(m.trans)>>,
                       [srv EXCEPT !.status = "crtstrm_success"])
           ELSE Stop

\* handlePublishCommand answers first; the registration comes afterwards.
HandlePublish(m) ==
    IF ~srv.app THEN Panic
    ELSE \E ok \in WriteOutcomes(clientOpen) :
           IF ok
           THEN Answer(<<NewPublishSuccessMessage>>,
                       [srv EXCEPT !.phase = "publish"])
           ELSE Stop

\* Mutant: the start of play is left out.
MutPlayAnswer(sid) ==
    <<NewStreamIsRecorded(sid), NewStreamBegin(sid), NewPlayResetMessage(sid),
      NewDataStartMessage(sid), NewPlayPublishNotifyMessage(sid)>>

\* What handlePlayCommand answers: the first three messages in one Write, each
\* of the others in one of its own.
PlayAnswer(sid) ==
    <<NewStreamIsRecorded(sid), NewStreamBegin(sid), NewPlayResetMessage(sid),
      NewPlayStartMessage(sid), NewDataStartMessage(sid),
      NewPlayPublishNotifyMessage(sid)>>

\* The messages that have gone out before each of the four Writes.
BeforeWrite == {0, 3, 4, 5}

HandlePlay(m) ==
    IF ~srv.app THEN Panic
    ELSE LET s == [srv EXCEPT !.streamId = m.sid]
         IN \/ Answer(PlayAnswer(m.sid), [s EXCEPT !.phase = "play"])
            \/ \E n \in BeforeWrite :
                 /\ FALSE \in WriteOutcomes(clientOpen)
                 /\ srv' = [s EXCEPT !.phase = "closed", !.status = "stop"]
                 /\ toClient' = toClient
                      \o Cut(SubSeq(PlayAnswer(m.sid), 1, n), srv.send)
                 /\ registered' = Destroyed
                 /\ serverOpen' = FALSE
                 /\ UNCHANGED clientOpen

HandleCommand(m) ==
    CASE m.name = "connect" -> HandleConnect(m)
      [] m.name = "createStream" -> HandleCreateStream(m)
      [] m.name = "publish" -> HandlePublish(m)
      [] m.name = "play" -> HandlePlay(m)
      [] OTHER -> Continue(srv)   \* deleteStream, releaseStream, FCPublish ...

\* Mutant: the closure that OnSourceDetermined returns is not kept.
MutRegistered(s, role, status) ==
    [s EXCEPT !.phase = "loop", !.role = role, !.status = status]

\* The role is set whether or not the exchanger accepts the handler.
Registered(s, role, status) ==
    [s EXCEPT !.phase = "loop", !.role = role, !.status = status,
              !.putMsg = IF role = "source" THEN TRUE ELSE @]

RegisterRole == IF srv.phase = "publish" THEN "source" ELSE "sink"

ServerRegister(ok) ==
    /\ srv.phase \in {"publish", "play"}
    /\ IF ok
       THEN /\ srv' = Registered(srv, RegisterRole,
                        IF srv.phase = "publish" THEN "publish_success"
                                                 ELSE "play_start")
            /\ registered' = registered \cup {RegisterRole}
            /\ UNCHANGED serverOpen
       ELSE /\ srv' = [srv EXCEPT !.phase = "closed", !.status = "stop",
                                  !.role = RegisterRole]
            /\ registered' = registered \ {RegisterRole}
            /\ serverOpen' = FALSE
    /\ UNCHANGED <<toServer, toClient, clientOpen>>

(***************************************************************************)
(* Media.                                                                  *)
(***************************************************************************)
\* rtmpMessageToExData ends in h.putMsg, which may refuse the data.
PutMsg(s) ==
    IF ~s.putMsg THEN Panic ELSE Continue(s) \/ Stop

\* handleSetDataFrame: a codec the metadata does not name stays as it was.
Named(codec, current) == IF codec = -1 THEN current ELSE codec

AudioCodec(code) == CASE code = "aac" -> AAC [] code = "mp3" -> 2 [] OTHER -> -1

Supported(v, a) == v \in {-1, H264, H265} /\ a \in {-1, AAC}

HandleSetDataFrame(m) ==
    LET v == Named(m.num, srv.videoCodecID)
        a == Named(AudioCodec(m.code), srv.audioCodecID)
    IN IF ~Supported(v, a) THEN Stop
       ELSE PutMsg([srv EXCEPT !.videoCodecID = v, !.audioCodecID = a])

\* The codec id of a payload is four bits of its first byte.
PayloadCodec(m) == m.num % 16

HandleVideo(m) ==
    IF \/ srv.videoCodecID \notin {-1, PayloadCodec(m)}
       \/ m.code = "header without key frame"
    THEN Stop ELSE PutMsg(srv)

HandleAudio(m) ==
    IF srv.audioCodecID \notin {-1, PayloadCodec(m)} THEN Stop ELSE PutMsg(srv)

\* Only "@setDataFrame" data is passed on.
HandleData(m) ==
    IF m.name = "@setDataFrame" THEN HandleSetDataFrame(m) ELSE Continue(srv)

HandleControl(m) ==
    Continue(IF m.name = "SetChunkSize" THEN [srv EXCEPT !.recv = m.num] ELSE srv)

\* One turn of the loop of Start.
ServerReceive ==
    /\ srv.phase = "loop" /\ toServer # <<>>
    /\ toServer' = Tail(toServer)
    /\ LET m == Head(toServer)
       IN CASE m.type = "control" -> HandleControl(m)
            [] m.type = "user" -> Continue(srv)
            [] m.type = "audio" -> HandleAudio(m)
            [] m.type = "video" -> HandleVideo(m)
            [] m.type = "data" -> HandleData(m)
            [] m.type = "command" -> HandleCommand(m)

\* The read fails: the peer is gone and its bytes are read, or it sent nothing
\* before the deadline that NetConnWrapper.Read sets.
ServerReadFails ==
    /\ srv.phase = "loop" /\ toServer = <<>>
    /\ Stop
    /\ UNCHANGED toServer

\* Sink.work writes what the source sends; data goes out as a command.
SinkMessages ==
    {Media("audio", 0, AAC), Media("video", 0, H264),
     Command("@setDataFrame", 0, 0, "none", 0)}

\* Start has returned or not: the sink's goroutine ends with the context.
SinkWrites ==
    /\ "sink" \in registered /\ srv.phase = "loop"
    /\ \E m \in SinkMessages, ok \in WriteOutcomes(clientOpen) :
         IF ok THEN toClient' = Append(toClient, Cut(<<m>>, srv.send)[1])
               ELSE UNCHANGED toClient
    /\ UNCHANGED <<srv, registered, toServer, serverOpen, clientOpen>>

ServerNext ==
    \/ \E ok \in BOOLEAN : ServerHandshake(ok)
    \/ ServerReceive
    \/ \E ok \in BOOLEAN : ServerRegister(ok)
    \/ ServerReadFails
=============================================================================
