--------------------------- MODULE RtmpAnyServer ---------------------------
(***************************************************************************)
(* A server that is not this repository's, as RtmpClientHandler meets it.  *)
(* It answers every command in one of the ways the comments of the client  *)
(* know of (facebook answers releaseStream and FCPublish with an Undefined *)
(* _result, nginx sends neither StreamIsRecorded nor the reset) or refuses *)
(* it, may leave out StreamBegin, and may close at any point.  It never    *)
(* leaves connect, createStream, publish or play without any answer, and   *)
(* sends the answers to play in the order the client expects.              *)
(***************************************************************************)
EXTENDS RtmpClient

CONSTANT AssignedId   \* the stream id the server returns

ASSUME AssignedIdAssumption == AssignedId \in Nat \ {0}

VARIABLE verdict   \* what the server made of the client: "none" yet, "granted"
                   \* its publish, "rejected" its connect in a _result, or
                   \* answered its play in a way the client leaves "unheard"

Optional(m) == {<<>>, <<m>>}

Rejection == Command("_result", 1, 0, "NetConnection.Connect.Rejected", 0)

NotFound == NewOnStatusMessage(AssignedId, "NetStream.Play.StreamNotFound")

\* Play is started, or refused by another status or by an _error.
PlayOutcomes(m) ==
    {<<NewPlayStartMessage(AssignedId)>>,
     <<NewPlayResetMessage(AssignedId), NewPlayStartMessage(AssignedId)>>,
     <<NotFound>>, <<Command("_error", m.trans, 0, "none", 0)>>}

Responses(m) ==
    CASE m.name = "connect" ->
             {<<NewAckMessage, NewSetPeerBandwidthMessage,
                NewConnectSuccessMessage>>,
              <<Command("_error", 1, 0, "none", 0)>>, <<Rejection>>}
      [] m.name \in {"releaseStream", "FCPublish"} ->
             Optional(Command("_result", m.trans, 0, "undefined", 0))
      [] m.name = "createStream" ->
             {<<Command("_result", m.trans, 0, "number", AssignedId)>>,
              <<Command("_error", m.trans, 0, "none", 0)>>}
      [] m.name = "publish" ->
             {<<NewPublishSuccessMessage>>,
              <<NewOnStatusMessage(AssignedId, "NetStream.Publish.BadName")>>}
      [] m.name = "play" ->
             {recorded \o begin \o outcome :
                  recorded \in Optional(NewStreamIsRecorded(AssignedId)),
                  begin \in Optional(NewStreamBegin(AssignedId)),
                  outcome \in PlayOutcomes(m)}
      [] OTHER -> {<<>>}

\* The client looks at no command before StreamBegin, and then at no code but
\* that of the start: it goes on waiting.
Unheard(m, ms) ==
    m.name = "play" /\ (NewStreamBegin(AssignedId) \notin Range(ms) \/ NotFound \in Range(ms))

ServerAnswers ==
    /\ serverOpen /\ toServer # <<>>
    /\ toServer' = Tail(toServer)
    /\ \E ms \in Responses(Head(toServer)) :
         /\ toClient' = toClient \o ms
         /\ verdict' = CASE NewPublishSuccessMessage \in Range(ms) -> "granted"
                         [] Rejection \in Range(ms) -> "rejected"
                         [] verdict = "none" /\ Unheard(Head(toServer), ms) -> "unheard"
                         [] OTHER -> verdict
    /\ UNCHANGED <<clientVars, serverOpen, clientOpen>>

ServerCloses ==
    /\ serverOpen
    /\ serverOpen' = FALSE
    /\ UNCHANGED <<clientVars, toServer, toClient, clientOpen, verdict>>
=============================================================================
