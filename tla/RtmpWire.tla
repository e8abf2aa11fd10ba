------------------------------ MODULE RtmpWire ------------------------------
(***************************************************************************)
(* The connection between an RtmpClientHandler and an RtmpHandler: the     *)
(* messages the two ends build (message.go) and the bytes in flight in     *)
(* each direction, one record per message.  How a message is cut into      *)
(* chunks is the business of ChunkStream; here a message only remembers    *)
(* the chunk size it was cut with.  AMF payloads are the values the        *)
(* handlers read back from them.                                           *)
(***************************************************************************)
EXTENDS Integers, Sequences, SequencesExt

CONSTANTS
    WriteFaults   \* can a Write fail while the other end is still open
                  \* (NetConnWrapper sets a deadline on every Write)

ASSUME WriteFaultsAssumption == WriteFaults \in BOOLEAN

VARIABLES
    toServer, toClient,      \* messages written and not yet read
    serverOpen, clientOpen   \* is that end of the connection still open

wireVars == <<toServer, toClient, serverOpen, clientOpen>>

DefaultChunkSize == 128
LargeChunkSize == 1024

(***************************************************************************)
(* Messages.  trans is the transaction id, sid the message stream id, code *)
(* the text and num the number that the receiver looks at, chunk the chunk *)
(* size of the packer that cut the message.                                *)
(***************************************************************************)
Message(type, name, trans, sid, code, num) ==
    [type |-> type, name |-> name, trans |-> trans, sid |-> sid,
     code |-> code, num |-> num, chunk |-> DefaultChunkSize]

Control(name, num) == Message("control", name, 0, 0, "none", num)

\* A user control event carries the stream id it is about.
UserControl(event, streamId) == Message("user", event, 0, 0, "none", streamId)

Command(name, trans, sid, code, num) ==
    Message("command", name, trans, sid, code, num)

NewAckMessage == Control("WindowAck", 2500000)
NewSetPeerBandwidthMessage == Control("PeerBandwidth", 2500000)
NewSetChunkSizeMessage(size) == Control("SetChunkSize", size)

NewConnectSuccessMessage ==
    Command("_result", 1, 0, "NetConnection.Connect.Success", 0)
NewCreateStreamSuccessMessage(trans) ==
    Command("_result", trans, 0, "number", 1)
NewPublishSuccessMessage ==
    Command("onStatus", 0, 0, "NetStream.Publish.Start", 0)

NewStreamBegin(streamId) == UserControl("StreamBegin", streamId)
NewStreamIsRecorded(streamId) == UserControl("StreamIsRecorded", streamId)
NewSetBufferLengthMessage(streamId) == UserControl("SetBufferLength", streamId)

NewOnStatusMessage(sid, code) == Command("onStatus", 0, sid, code, 0)
NewPlayResetMessage(sid) == NewOnStatusMessage(sid, "NetStream.Play.Reset")
NewPlayStartMessage(sid) == NewOnStatusMessage(sid, "NetStream.Play.Start")
NewDataStartMessage(sid) == NewOnStatusMessage(sid, "NetStream.Data.Start")
NewPlayPublishNotifyMessage(sid) ==
    NewOnStatusMessage(sid, "NetStream.Play.PublishNotify")

\* The command object of the client's connect always names the application.
NewConnectMessage == Command("connect", 1, 0, "app", 0)
NewReleaseStreamMessage(trans) == Command("releaseStream", trans, 0, "none", 0)
NewFCPublishMessage(trans) == Command("FCPublish", trans, 0, "none", 0)
NewCreateStreamMessage(trans) == Command("createStream", trans, 0, "none", 0)
NewPublishMessage(trans) == Command("publish", trans, 0, "none", 0)
NewGetStreamLengthMessage(trans) ==
    Command("getStreamLength", trans, 0, "none", 0)
NewPlayMessage(trans) == Command("play", trans, 1, "none", -2000)

H264 == 7
H265 == 28
AAC == 10

\* Audio, video and data; num is the codec id the payload announces.
Media(type, sid, codec) == Message(type, type, 0, sid, "none", codec)

MediaTypes == {"audio", "video", "data"}

(***************************************************************************)
(* Reading and writing.  Written bytes stay readable after the writer      *)
(* closed; a Write to an end that closed may still succeed, because the    *)
(* kernel accepts the bytes before it learns of the reset.                 *)
(***************************************************************************)
Cut(msgs, size) == [i \in DOMAIN msgs |-> [msgs[i] EXCEPT !.chunk = size]]

\* The outcomes of a Write towards an end that is open or not.
WriteOutcomes(open) == IF open /\ ~WriteFaults THEN {TRUE} ELSE BOOLEAN

WireInit ==
    /\ toServer = <<>> /\ toClient = <<>>
    /\ serverOpen = TRUE /\ clientOpen = TRUE

=============================================================================
