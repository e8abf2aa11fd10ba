--------------------------- MODULE RtmpAnyClient ---------------------------
(***************************************************************************)
(* RtmpHandler against a client that is not this repository's: it sends    *)
(* well-formed messages in any order, waits for no answer, and may close   *)
(* at any point.                                                           *)
(***************************************************************************)
EXTENDS RtmpServer

CONSTANTS
    Offered,       \* the messages the client may send
    MaxMessages    \* bound on how many it sends

ASSUME MaxMessagesAssumption == MaxMessages \in Nat

\* Well-formed messages, of the types the handler tells apart.
ASSUME OfferedAssumption ==
    Offered \subseteq
      [type : {"control", "user", "audio", "video", "data", "command"},
       name : STRING, trans : Int, sid : Int, code : STRING, num : Int,
       chunk : Int]

VARIABLES
    stage,    \* how far the messages sent so far follow the protocol
    count     \* messages sent

vars == <<wireVars, serverVars, stage, count>>

Init == WireInit /\ ServerInit /\ stage = "start" /\ count = 0

(***************************************************************************)
(* The order RTMP prescribes: connect, naming the application; then        *)
(* createStream; then publish, which media may follow, or play.            *)
(***************************************************************************)
Advance(from, m) ==
    CASE m.type \in MediaTypes ->
             IF from = "published" THEN "published" ELSE "astray"
      [] m.type = "command" /\ m.name = "connect" ->
             IF from = "start" /\ m.code = "app" THEN "connected" ELSE "astray"
      [] m.type = "command" /\ m.name = "createStream" ->
             IF from = "connected" THEN "created" ELSE "astray"
      [] m.type = "command" /\ m.name = "publish" ->
             IF from = "created" THEN "published" ELSE "astray"
      [] m.type = "command" /\ m.name = "play" ->
             IF from = "created" THEN "played" ELSE "astray"
      [] OTHER -> from

ClientSends ==
    /\ clientOpen /\ count < MaxMessages
    /\ \E m \in Offered :
         /\ toServer' = Append(toServer, m)
         /\ stage' = Advance(stage, m)
    /\ count' = count + 1
    /\ UNCHANGED <<serverVars, toClient, serverOpen, clientOpen>>

ClientCloses ==
    /\ clientOpen
    /\ clientOpen' = FALSE
    /\ UNCHANGED <<serverVars, toServer, toClient, serverOpen, stage, count>>

Server == ServerNext /\ UNCHANGED <<stage, count>>

Next == Server \/ ClientSends \/ ClientCloses

Spec == Init /\ [][Next]_vars

(***************************************************************************)
(* Properties.                                                             *)
(***************************************************************************)
\* A client that keeps to the protocol's order, without waiting for a single
\* answer, never reaches a panic of the handlers as long as the answer to its
\* connect could be written: not the wrong-state panics of connect and
\* createStream, not the missing application name in publish and play, not the
\* nil putMsg when media arrives, whatever the exchanger answers.
OrderlyNeverPanics ==
    srv.phase = "panic" => stage = "astray" \/ srv.status = "connect_fail"

\* The handler that ends, for whatever reason and after whatever part of an
\* orderly session, leaves nothing of itself in the exchanger: stop undoes the
\* role that publish or play gave it.
TeardownComplete ==
    srv.phase = "closed" /\ stage # "astray" => registered = {}
=============================================================================
