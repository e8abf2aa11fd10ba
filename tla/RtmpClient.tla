----------------------------- MODULE RtmpClient -----------------------------
(***************************************************************************)
(* RtmpClientHandler with the application that uses it: rtmppublish, whose *)
(* main reads ConnectResult once and then starts an audio and a video      *)
(* sender; rtmplay, whose main only waits for its context, which OnError   *)
(* cancels; and a player that reads ConnectResult as rtmppublish does.     *)
(* The handler's fields are the record cli.                                *)
(***************************************************************************)
EXTENDS RtmpWire

CONSTANT MaxSends   \* bound on the messages the senders send

ASSUME MaxSendsAssumption == MaxSends \in Nat

VARIABLES
    cli,       \* the fields of RtmpClientHandler
    app,       \* "waiting" for the result, "deaf" to it, "told" it failed,
               \* "streaming" or "exited"
    sender,    \* the goroutines that call SendAudioMessage, SendVideoMessage
    sends      \* messages handed to the handler

clientVars == <<cli, app, sender, sends>>

Senders == {"audio", "video"}

\* phase: where Start is.  "report" and "reportFalse" are its two blocking
\* sends on connectResult, "onError" the call of the player's callback.
ClientInit ==
    /\ \E role \in {"publish", "play"} :
         /\ cli = [role |-> role, phase |-> "start", status |-> "init",
                   transactionId |-> 1, streamId |-> 0,
                   send |-> DefaultChunkSize, recv |-> DefaultChunkSize,
                   err |-> FALSE]
         /\ app \in {"waiting"} \cup (IF role = "play" THEN {"deaf"} ELSE {})
    /\ sender = [s \in Senders |-> "off"]
    /\ sends = 0

\* A client whose process ended does nothing more.
Running == app # "exited" /\ cli.phase # "panic"

(***************************************************************************)
(* The ways Start ends.                                                    *)
(***************************************************************************)
\* Mutant: a failed player ends in silence.
MutAfterResult(err) == "done"

\* Where Start goes on once its deferred function has no result to send.
AfterResult(err) ==
    IF err /\ cli.role = "play" THEN "onError" ELSE "done"

\* Start returns: every status but publish_success reports false first.
Return(c, err) ==
    [c EXCEPT !.err = err,
              !.phase = IF c.status # "publish_success" THEN "reportFalse"
                        ELSE AfterResult(err)]

Fails(c) ==
    /\ cli' = Return(c, TRUE)
    /\ UNCHANGED <<toServer, app, sender, sends, serverOpen, clientOpen>>

Goes(c) ==
    /\ cli' = c
    /\ UNCHANGED <<toServer, app, sender, sends, serverOpen, clientOpen>>

\* A panic of Start's goroutine ends the client's process.
ClientPanic ==
    /\ cli' = [cli EXCEPT !.phase = "panic"]
    /\ clientOpen' = FALSE
    /\ UNCHANGED <<toServer, app, sender, sends, serverOpen>>

\* The messages are written one Write each; the first that fails ends Start
\* in the state it was in, c, and all of them lead to the state d.
Sends(msgs, c, d) ==
    \/ /\ cli' = d
       /\ toServer' = toServer \o Cut(msgs, c.send)
       /\ UNCHANGED <<app, sender, sends, serverOpen, clientOpen>>
    \/ \E n \in 1..Len(msgs) :
         /\ FALSE \in WriteOutcomes(serverOpen)
         /\ cli' = Return(c, TRUE)
         /\ toServer' = toServer \o Cut(SubSeq(msgs, 1, n - 1), c.send)
         /\ UNCHANGED <<app, sender, sends, serverOpen, clientOpen>>

\* Start: the handshake, then connect, whose transaction id is always 1.
ClientHandshake(ok) ==
    /\ Running /\ cli.phase = "start"
    /\ IF ok
       THEN Sends(<<NewConnectMessage>>, cli,
                  [cli EXCEPT !.phase = "connect", !.status = "connect_send"])
       ELSE Fails(cli)
    /\ UNCHANGED toClient

(***************************************************************************)
(* Responses.                                                              *)
(***************************************************************************)
\* handleConnectResponse.
ConnectSucceeds(m) ==
    /\ m.name = "_result" /\ m.trans = 1
    /\ m.code = "NetConnection.Connect.Success"

\* A _result with another code: the error message asserts that the response
\* object is a string.
ConnectPanics(m) ==
    /\ m.name = "_result" /\ m.trans = 1
    /\ m.code = "NetConnection.Connect.Rejected"

\* What follows the answer to connect, in the order it is sent.
SetupMessages(trans) ==
    <<NewSetChunkSizeMessage(LargeChunkSize)>> \o
    (IF cli.role = "play"
     THEN <<NewAckMessage, NewCreateStreamMessage(trans)>>
     ELSE <<NewReleaseStreamMessage(trans), NewFCPublishMessage(trans + 1),
            NewCreateStreamMessage(trans + 2)>>)

\* The transaction ids used up by the set-up messages.
SetupTransactions == IF cli.role = "play" THEN 1 ELSE 3

HandleConnectResponse(m) ==
    IF ConnectPanics(m) THEN ClientPanic
    ELSE IF ~ConnectSucceeds(m) THEN Fails(cli)
    ELSE LET c == [cli EXCEPT !.status = "connect_success",
                              !.send = LargeChunkSize]
         IN Sends(SetupMessages(cli.transactionId), c,
                  [c EXCEPT !.status = "crtstm_send",
                            !.transactionId = @ + SetupTransactions])

\* handleCreateStreamResponse with expectTransId 0: any transaction will do,
\* and a result whose value is Undefined is passed over.
CreateStreamUndefined(m) == m.name = "_result" /\ m.code = "undefined"

CreateStreamSucceeds(m) == m.name = "_result" /\ m.code = "number"

StreamMessages(trans) ==
    IF cli.role = "play"
    THEN <<NewGetStreamLengthMessage(trans), NewPlayMessage(trans + 1),
           NewSetBufferLengthMessage(trans + 2)>>
    ELSE <<NewPublishMessage(trans)>>

StreamTransactions == IF cli.role = "play" THEN 3 ELSE 1

\* functionalStreamId is assigned whatever handleCreateStreamResponse returns.
HandleCreateStreamResponse(m) ==
    IF CreateStreamUndefined(m) THEN Goes([cli EXCEPT !.streamId = 0])
    ELSE IF ~CreateStreamSucceeds(m) THEN Fails([cli EXCEPT !.streamId = 0])
    ELSE LET c == [cli EXCEPT !.status = "crtstrm_success",
                              !.streamId = m.num]
         IN Sends(StreamMessages(cli.transactionId), c,
                  [c EXCEPT !.status = IF cli.role = "play" THEN "play_send"
                                        ELSE "publish_send",
                            !.transactionId = @ + StreamTransactions])

\* Mutant: without the fallthrough, the status after StreamBegin is consumed.
MutHandlePlayResponse(m) ==
    IF cli.status = "stream_begin" THEN Goes([cli EXCEPT !.status = "play_reset"])
    ELSE Goes(cli)

\* handlePlayResponseStart; handlePlayResponseReset only writes to the log.
IsOnStatus(m) == m.name = "onStatus" /\ m.trans = 0

HandlePlayResponse(m) ==
    LET c == [cli EXCEPT !.status = "play_reset"]
    IN IF ~IsOnStatus(m) THEN Fails(c)
       ELSE IF m.code # "NetStream.Play.Start" THEN Goes(c)
       ELSE Goes([c EXCEPT !.status = "play_start"])

\* Mutant: any status is taken for success.
MutPublishSucceeds(m) == IsOnStatus(m)

PublishSucceeds(m) == IsOnStatus(m) /\ m.code = "NetStream.Publish.Start"

\* Start looks at the status after every message it handled.
HandlePublishResponse(m) ==
    IF ~PublishSucceeds(m) THEN Fails(cli)
    ELSE Goes([cli EXCEPT !.status = "publish_success", !.phase = "report"])

ClientCommand(m) ==
    CASE cli.status = "connect_send" -> HandleConnectResponse(m)
      [] cli.status = "crtstm_send" -> HandleCreateStreamResponse(m)
      [] cli.status \in {"stream_begin", "play_reset"} -> HandlePlayResponse(m)
      [] cli.status = "publish_send" -> HandlePublishResponse(m)
      [] OTHER -> Goes(cli)

\* StreamBegin may come without StreamIsRecorded before it.
ClientUserControl(m) ==
    CASE m.name = "StreamBegin" ->
             IF cli.status \in {"stream_is_record", "play_send"}
             THEN Goes([cli EXCEPT !.status = "stream_begin"])
             ELSE Fails(cli)
      [] m.name = "StreamIsRecorded" ->
             IF cli.status = "play_send"
             THEN Goes([cli EXCEPT !.status = "stream_is_record"])
             ELSE Fails(cli)
      [] OTHER -> Goes(cli)

ClientControl(m) ==
    Goes(IF m.name = "SetChunkSize" THEN [cli EXCEPT !.recv = m.num] ELSE cli)

\* A publisher has no player whose callback could take the message.
ClientMedia(m) == IF cli.role = "play" THEN Goes(cli) ELSE ClientPanic

\* One turn of the CONNOK loop of Start.
ClientReceive ==
    /\ Running /\ cli.phase = "connect" /\ toClient # <<>>
    /\ toClient' = Tail(toClient)
    /\ LET m == Head(toClient)
       IN CASE m.type = "control" -> ClientControl(m)
            [] m.type = "user" -> ClientUserControl(m)
            [] m.type = "command" -> ClientCommand(m)
            [] m.type \in MediaTypes -> ClientMedia(m)

ClientEOF ==
    /\ Running /\ cli.phase = "connect" /\ toClient = <<>> /\ ~serverOpen
    /\ Fails(cli)
    /\ UNCHANGED toClient

(***************************************************************************)
(* The application.                                                        *)
(***************************************************************************)
\* Mutant: the break leaves Start.
MutTransmitting == "done"

\* Start goes on in its second loop.
Transmitting == "transmit"

\* connectResult is not buffered: the send and the read happen together.
ResultTrue ==
    /\ Running /\ cli.phase = "report" /\ app = "waiting"
    /\ cli' = [cli EXCEPT !.phase = Transmitting]
    /\ app' = "streaming"
    /\ sender' = [s \in Senders |-> "idle"]
    /\ UNCHANGED <<sends, wireVars>>

\* rtmppublish exits; another application, having read its result, goes on.
ResultFalse ==
    /\ Running /\ cli.phase = "reportFalse" /\ app = "waiting"
    /\ cli' = [cli EXCEPT !.phase = AfterResult(cli.err)]
    /\ app' = IF cli.role = "publish" THEN "exited" ELSE "told"
    /\ clientOpen' = (cli.role = "play")
    /\ UNCHANGED <<sender, sends, toServer, toClient, serverOpen>>

\* rtmplay's OnError cancels the context that its main waits for.
OnError ==
    /\ Running /\ cli.phase = "onError"
    /\ cli' = [cli EXCEPT !.phase = "done"]
    /\ app' = "exited"
    /\ clientOpen' = FALSE
    /\ UNCHANGED <<sender, sends, toServer, toClient, serverOpen>>

\* SendAudioMessage and SendVideoMessage look at the status and then block
\* on txMsgChan until Start takes the message.
CheckStatus(s) ==
    /\ Running /\ sender[s] = "idle" /\ sends < MaxSends
    /\ sender' = [sender EXCEPT ![s] =
                    IF cli.status = "publish_success" THEN "blocked" ELSE "refused"]
    /\ sends' = sends + 1
    /\ UNCHANGED <<cli, app, wireVars>>

\* sendMessage puts the message on the stream that createStream returned.
Frame(s) == Media(s, cli.streamId, IF s = "video" THEN H264 ELSE AAC)

\* A failed write drains txMsgChan once, without waiting: a sender that is
\* past its check but not yet at the channel is not among the drained.
Transmit(s) ==
    /\ Running /\ cli.phase = "transmit" /\ sender[s] = "blocked"
    /\ \/ /\ toServer' = toServer \o Cut(<<Frame(s)>>, cli.send)
          /\ sender' = [sender EXCEPT ![s] = "idle"]
          /\ UNCHANGED cli
       \/ \E drained \in SUBSET {t \in Senders \ {s} : sender[t] = "blocked"} :
            /\ FALSE \in WriteOutcomes(serverOpen)
            /\ sender' = [t \in Senders |->
                            IF t = s \/ t \in drained THEN "idle" ELSE sender[t]]
            /\ cli' = Return([cli EXCEPT !.status = "send_fail"], TRUE)
            /\ UNCHANGED toServer
    /\ UNCHANGED <<app, sends, toClient, serverOpen, clientOpen>>

ClientNext ==
    \/ \E ok \in BOOLEAN : ClientHandshake(ok)
    \/ ClientReceive
    \/ ClientEOF
    \/ ResultTrue
    \/ ResultFalse
    \/ OnError
    \/ \E s \in Senders : CheckStatus(s) \/ Transmit(s)
=============================================================================
