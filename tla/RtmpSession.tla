---------------------------- MODULE RtmpSession ----------------------------
(***************************************************************************)
(* The repository's client, an RtmpClientHandler in either role with its   *)
(* application, against the repository's server, the RtmpHandler that      *)
(* accepted its connection, or against another server.                     *)
(***************************************************************************)
EXTENDS RtmpServer, RtmpAnyServer

CONSTANT MaxQueued   \* bound on what a sink has in flight to its player

ASSUME MaxQueuedAssumption == MaxQueued \in Nat

VARIABLE peer   \* the server the client is connected to: "golive" or "any"

vars == <<wireVars, serverVars, clientVars, verdict, peer>>

Init ==
    /\ WireInit /\ ServerInit /\ ClientInit
    /\ verdict = "none" /\ peer \in {"golive", "any"}

Server ==
    /\ peer = "golive" /\ ServerNext
    /\ UNCHANGED <<clientVars, verdict, peer>>

\* The sink's goroutine, beside the handler's.
Sink ==
    /\ peer = "golive" /\ Len(toClient) < MaxQueued
    /\ SinkWrites
    /\ UNCHANGED <<clientVars, verdict, peer>>

AnyServer ==
    /\ peer = "any"
    /\ ServerAnswers \/ ServerCloses
    /\ UNCHANGED <<serverVars, peer>>

ByClient(A) == A /\ UNCHANGED <<serverVars, verdict, peer>>

Client == ByClient(ClientNext)

Next == Server \/ Sink \/ AnyServer \/ Client

Spec == Init /\ [][Next]_vars

\* Both processes run: neither end stops by itself, another server answers what
\* it reads.  A sender waits in the queue of the channel it is blocked on, which
\* Start serves in order.
FairSpec ==
    /\ Spec
    /\ WF_vars(Server)
    /\ WF_vars(peer = "any" /\ ServerAnswers /\ UNCHANGED <<serverVars, peer>>)
    /\ WF_vars(ByClient(\E ok \in BOOLEAN : ClientHandshake(ok)))
    /\ WF_vars(ByClient(ClientReceive \/ ClientEOF))
    /\ WF_vars(ByClient(ResultTrue \/ ResultFalse \/ OnError))
    /\ \A s \in Senders : SF_vars(ByClient(Transmit(s)))

(***************************************************************************)
(* Properties.                                                             *)
(***************************************************************************)
\* The chunk size the receiver will assume for the i-th message in flight.
SizeAt(q, recv, i) ==
    LET changes == {j \in 1..(i - 1) : q[j].name = "SetChunkSize"}
    IN IF changes = {} THEN recv ELSE q[Max(changes)].num

\* Protocol and user control messages fit into any chunk.
Small(m) == m.type \in {"control", "user"}

\* Every message in flight is cut with the chunk size its receiver will assume
\* when it reads it: both ends change the packer's size in the middle of a
\* series of messages and announce it in that series.
ChunkSizesAgree ==
    peer = "golive" =>
        /\ \A i \in DOMAIN toServer :
            Small(toServer[i]) \/ toServer[i].chunk = SizeAt(toServer, srv.recv, i)
        /\ \A i \in DOMAIN toClient :
            Small(toClient[i]) \/ toClient[i].chunk = SizeAt(toClient, cli.recv, i)

\* What the exchanger sends a player reaches it after the start of play: the
\* handler registers the sink only when it has written every answer, so that no
\* media or metadata, which goes out as a command, is taken for an answer.
MediaAfterStart ==
    \A i \in DOMAIN toClient :
        toClient[i].type \in MediaTypes \/ toClient[i].name = "@setDataFrame" =>
            \/ cli.status = "play_start"
            \/ \E j \in 1..(i - 1) : toClient[j].code = "NetStream.Play.Start"

\* The client believes it publishes only while the server's handler is about to
\* register it, has registered it, or has ended.
SuccessMeansRegistered ==
    peer = "golive" /\ cli.status = "publish_success" =>
        srv.phase \in {"publish", "closed"} \/ "source" \in registered

\* An application that ConnectResult told true publishes a stream that the
\* other server granted: no earlier or later answer is mistaken for that one.
TrueOnlyIfGranted ==
    peer = "any" /\ app = "streaming" => verdict = "granted"

\* The stream on which the client publishes is the one the answer to
\* createStream named, although the client checks no transaction id and the
\* server may answer releaseStream and FCPublish first.
StreamIsTheCreated ==
    peer = "any" /\ cli.status \in {"publish_send", "publish_success"} =>
        cli.streamId = AssignedId

\* What the client takes for success is success, against either server.
SuccessIsReal == SuccessMeansRegistered /\ TrueOnlyIfGranted /\ StreamIsTheCreated

\* No order of the steps of the two ends and no answer makes either panic, but
\* for a connect that another server rejects in a _result: handleConnectResponse
\* then asserts a string.  The server's handler panics on a command that comes
\* before the one it needs and on media without a source; its own client's
\* createStream never follows an answer to connect that could not be written,
\* and its media never comes before the registration.
SessionNeverPanics ==
    /\ cli.phase = "panic" => verdict = "rejected"
    /\ srv.phase # "panic"

Settled ==
    cli.status \in {"publish_success", "play_start"} \/ cli.err \/ cli.phase = "panic"

\* The session is set up or given up: the client ends up publishing, playing or
\* with an error, whatever the server refuses or leaves out.  It waits for ever
\* only where handleCommandMessage has no case, a play answered without
\* StreamBegin or refused by a status other than the start, and only as long as
\* that server keeps the connection.
SessionSettles ==
    (<>Settled) \/ <>[](verdict = "unheard" /\ serverOpen /\ cli.role = "play")

\* The publisher that waits for ConnectResult gets it, whatever the server
\* answers, and also when it closes.
ResultReported ==
    cli.role = "publish" /\ app = "waiting" ~> app # "waiting" \/ cli.phase = "panic"

\* A player that reads ConnectResult is told through OnError that its server is
\* gone.
ErrorReported ==
    cli.role = "play" /\ app = "waiting" /\ ~serverOpen ~>
        app = "exited" \/ cli.phase = "panic"

\* The application that reads ConnectResult learns how its connection came out,
\* in either role.
OutcomeReported == ResultReported /\ ErrorReported

\* A sender that hands its message to the handler is released, unless the
\* connection failed.
SenderServed ==
    \A s \in Senders :
        sender[s] = "blocked" ~> sender[s] # "blocked" \/ cli.status = "send_fail"
=============================================================================
