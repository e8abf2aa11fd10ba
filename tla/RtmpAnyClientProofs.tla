------------------------ MODULE RtmpAnyClientProofs ------------------------
(***************************************************************************)
(* The two invariants of RtmpAnyClient, for every set of well-formed       *)
(* messages, in any number.                                                *)
(*                                                                         *)
(* stage is what the client has sent, the handler is only as far as what   *)
(* it has read.  The invariant therefore names, for a client that kept to  *)
(* the order, the stage at every message in flight: the trail leads from   *)
(* the stage the handler has come to, which agrees with its fields, to the *)
(* stage of the client.                                                    *)
(***************************************************************************)
EXTENDS RtmpAnyClient, TLAPS

Phases == {"handshake", "loop", "publish", "play", "closed", "panic"}

Statuses ==
    {"zero", "hand_success", "connect_success", "connect_fail",
     "crtstrm_success", "publish_success", "play_start", "stop"}

Handlers ==
    [phase : Phases, status : Statuses, app : BOOLEAN, role : Roles \cup {"none"},
     putMsg : BOOLEAN, videoCodecID : Int, audioCodecID : Int,
     streamId : Int, send : Int, recv : Int]

Stages == {"start", "connected", "created", "published", "played"}

TypeOK ==
    /\ toServer \in Seq(Offered)
    /\ srv \in Handlers
    /\ stage \in Stages \cup {"astray"}

\* The stages of an orderly client before each message in flight.
Trail(st) ==
    /\ st \in [1..(Len(toServer) + 1) -> Stages]
    /\ \A i \in 1..Len(toServer) : st[i + 1] = Advance(st[i], toServer[i])
    /\ st[Len(toServer) + 1] = stage

\* The handler h, known to the exchanger as reg, that has read all up to p.
Agrees(p, h, reg) ==
    /\ h.phase \in {"handshake", "publish", "play", "closed"} => reg = {}
    /\ h.phase = "handshake" => p = "start"
    /\ h.phase = "publish" => p = "published"
    /\ h.phase = "play" => p = "played"
    /\ h.phase = "panic" => h.status = "connect_fail"
    /\ h.phase = "loop" =>
         /\ p \in {"start", "connected", "created"} => reg = {}
         /\ p = "start" => h.status = "hand_success"
         /\ p = "connected" => h.status \in {"connect_success", "connect_fail"}
         /\ p \in {"connected", "created"} => h.app
         /\ p = "published" => h.putMsg /\ h.role = "source" /\ reg = {"source"}
         /\ p = "played" => h.role = "sink" /\ reg = {"sink"}

OrderInv ==
    stage # "astray" => \E st : Trail(st) /\ Agrees(st[1], srv, registered)

IInv == TypeOK /\ OrderInv

(***************************************************************************)
(* The order.                                                              *)
(***************************************************************************)
\* A client that left the order does not come back to it.
LEMMA AstrayStays ==
    ASSUME NEW m PROVE Advance("astray", m) = "astray"
BY DEF Advance

\* The next stage is a stage.
LEMMA AdvanceType ==
    ASSUME NEW m, NEW from \in Stages
    PROVE  Advance(from, m) \in Stages \cup {"astray"}
BY DEF Advance, Stages

(***************************************************************************)
(* What the client does.                                                   *)
(***************************************************************************)
\* A message the client appends prolongs the trail by its new stage.
LEMMA SendsKeep == IInv /\ ClientSends => IInv'
<1> SUFFICES ASSUME IInv, ClientSends PROVE IInv'
  OBVIOUS
<1>1. PICK m \in Offered : /\ toServer' = Append(toServer, m)
                           /\ stage' = Advance(stage, m)
  BY DEF ClientSends
<1>2. srv' = srv /\ registered' = registered
  BY DEF ClientSends, serverVars
<1>0. toServer \in Seq(Offered)
  BY DEF IInv, TypeOK
<1>3. PICK n \in Nat : n = Len(toServer)
  BY <1>0
<1>4. /\ toServer' \in Seq(Offered) /\ Len(toServer') = n + 1
      /\ \A i \in 1..n : toServer'[i] = toServer[i]
      /\ toServer'[n + 1] = m
  BY <1>0, <1>1, <1>3
<1>5. TypeOK'
  BY <1>1, <1>2, <1>4, AdvanceType, AstrayStays DEF IInv, TypeOK
<1>6. ASSUME stage' # "astray"
      PROVE  \E st : Trail(st)' /\ Agrees(st[1], srv', registered')
  <2>1. stage # "astray"
    BY <1>1, <1>6, AstrayStays
  <2>2. PICK st : Trail(st) /\ Agrees(st[1], srv, registered)
    BY <2>1 DEF IInv, OrderInv
  <2>3. PICK s \in Stages : s = stage'
    BY <1>5, <1>6 DEF TypeOK
  <2> DEFINE new == [i \in 1..(n + 2) |-> IF i = n + 2 THEN s ELSE st[i]]
  <2>4. /\ st \in [1..(n + 1) -> Stages]
        /\ \A i \in 1..n : st[i + 1] = Advance(st[i], toServer[i])
        /\ st[n + 1] = stage
    BY <2>2, <1>3 DEF Trail
  <2>5. new \in [1..(n + 2) -> Stages]
    BY <2>3, <2>4, <1>3
  <2>6. \A i \in 1..(n + 1) : new[i] = st[i] /\ new[i + 1] = IF i = n + 1 THEN s ELSE st[i + 1]
    BY <1>3
  <2>7. \A i \in 1..(n + 1) : new[i + 1] = Advance(new[i], toServer'[i])
    <3> SUFFICES ASSUME NEW i \in 1..(n + 1)
                 PROVE  new[i + 1] = Advance(new[i], toServer'[i])
      OBVIOUS
    <3> HIDE DEF new
    <3>1. CASE i = n + 1
      BY <3>1, <2>3, <2>6, <2>4, <1>1, <1>4
    <3>2. CASE i # n + 1
      <4>1. i \in 1..n
        BY <3>2, <1>3
      <4> QED BY <3>2, <4>1, <2>6, <2>4, <1>4
    <3> QED BY <3>1, <3>2
  <2>8. new[n + 2] = s /\ new[1] = st[1]
    BY <1>3
  <2>9. Trail(new)'
    <3> HIDE DEF new
    <3>1. n + 2 = Len(toServer') + 1 /\ n + 1 = Len(toServer')
      BY <1>3, <1>4
    <3> QED BY <3>1, <2>3, <2>5, <2>7, <2>8 DEF Trail
  <2>10. Agrees(new[1], srv', registered')
    BY <2>2, <2>8, <1>2
  <2> HIDE DEF new
  <2> QED BY <2>9, <2>10
<1> QED BY <1>5, <1>6 DEF IInv, OrderInv

\* A step that leaves the messages to the server alone, and after which the
\* handler still agrees with what it has read, keeps the invariant.
LEMMA SameTrail ==
    ASSUME IInv, UNCHANGED <<toServer, stage>>, srv' \in Handlers,
           ASSUME NEW p \in Stages, Agrees(p, srv, registered)
           PROVE  Agrees(p, srv', registered')
    PROVE  IInv'
<1>1. TypeOK'
  BY DEF IInv, TypeOK
<1>2. ASSUME stage' # "astray"
      PROVE  \E st : Trail(st)' /\ Agrees(st[1], srv', registered')
  <2>1. PICK st : Trail(st) /\ Agrees(st[1], srv, registered)
    BY <1>2 DEF IInv, OrderInv
  <2>2. Len(toServer) \in Nat
    BY DEF IInv, TypeOK
  <2>3. st[1] \in Stages
    BY <2>1, <2>2 DEF Trail
  <2>4. Trail(st)'
    BY <2>1 DEF Trail
  <2> QED BY <2>1, <2>3, <2>4
<1> QED BY <1>1, <1>2 DEF IInv, OrderInv

LEMMA ClosesKeep == IInv /\ ClientCloses => IInv'
<1> SUFFICES ASSUME IInv, ClientCloses PROVE IInv'
  OBVIOUS
<1>1. UNCHANGED <<toServer, stage, srv, registered>>
  BY DEF ClientCloses, serverVars
<1>2. srv' \in Handlers
  BY <1>1 DEF IInv, TypeOK
<1>3. ASSUME NEW p \in Stages, Agrees(p, srv, registered)
      PROVE  Agrees(p, srv', registered')
  BY <1>1, <1>3
<1> QED BY <1>1, <1>2, <1>3, SameTrail

(***************************************************************************)
(* What the handler does.                                                  *)
(***************************************************************************)
LEMMA HandshakeKeeps ==
    ASSUME IInv, UNCHANGED stage, NEW ok \in BOOLEAN, ServerHandshake(ok)
    PROVE  IInv'
<1> USE DEF Handlers, Phases, Statuses, Roles
<1>0. srv \in Handlers
  BY DEF IInv, TypeOK
<1>1. UNCHANGED <<toServer, registered>> /\ srv.phase = "handshake"
  BY DEF ServerHandshake
<1>2. srv' \in Handlers
  BY <1>0 DEF ServerHandshake
<1>3. \/ srv'.phase = "loop" /\ srv'.status = "hand_success"
      \/ srv'.phase = "closed"
  BY <1>0 DEF ServerHandshake
<1>4. ASSUME NEW p \in Stages, Agrees(p, srv, registered)
      PROVE  Agrees(p, srv', registered')
  BY <1>1, <1>3, <1>4 DEF Agrees
<1> QED BY <1>1, <1>2, <1>4, SameTrail

LEMMA RegisterKeeps ==
    ASSUME IInv, UNCHANGED stage, NEW ok \in BOOLEAN, ServerRegister(ok)
    PROVE  IInv'
<1> USE DEF Handlers, Phases, Statuses, Roles
<1>0. srv \in Handlers
  BY DEF IInv, TypeOK
<1>1. UNCHANGED toServer /\ srv.phase \in {"publish", "play"}
  BY DEF ServerRegister
<1>2. srv' \in Handlers
  <2>1. PICK r \in Roles : r = RegisterRole
    BY DEF RegisterRole
  <2>2. PICK b \in BOOLEAN : b = IF RegisterRole = "source" THEN TRUE ELSE srv.putMsg
    BY <1>0
  <2>3. PICK t \in Statuses : t = IF srv.phase = "publish" THEN "publish_success"
                                                         ELSE "play_start"
    OBVIOUS
  <2>4. \/ srv' = [srv EXCEPT !.phase = "loop", !.role = r, !.status = t,
                              !.putMsg = b]
        \/ srv' = [srv EXCEPT !.phase = "closed", !.status = "stop", !.role = r]
    BY <2>1, <2>2, <2>3, Zenon DEF ServerRegister, Registered
  <2>5. ASSUME srv' = [srv EXCEPT !.phase = "loop", !.role = r, !.status = t,
                                  !.putMsg = b]
        PROVE  srv' \in Handlers
    <3>1. PICK h : h = [srv EXCEPT !.phase = "loop", !.role = r, !.status = t]
      OBVIOUS
    <3>2. h \in Handlers
      BY <1>0, <3>1
    <3>3. srv' = [h EXCEPT !.putMsg = b]
      BY <2>5, <3>1
    <3> QED BY <3>2, <3>3
  <2>6. ASSUME srv' = [srv EXCEPT !.phase = "closed", !.status = "stop", !.role = r]
        PROVE  srv' \in Handlers
    BY <1>0, <2>6
  <2> QED BY <2>4, <2>5, <2>6
<1>3. CASE ok
  <2>1. /\ srv'.phase = "loop" /\ srv'.role = RegisterRole
        /\ srv.phase = "publish" => srv'.putMsg
        /\ registered' = registered \cup {RegisterRole}
    BY <1>0, <1>3 DEF ServerRegister, Registered, RegisterRole
  <2>2. ASSUME NEW p \in Stages, Agrees(p, srv, registered)
        PROVE  Agrees(p, srv', registered')
    BY <1>1, <2>1, <2>2 DEF Agrees, RegisterRole
  <2> QED BY <1>1, <1>2, <2>2, SameTrail
<1>4. CASE ~ok
  <2>1. srv'.phase = "closed" /\ registered' = registered \ {RegisterRole}
    BY <1>0, <1>4 DEF ServerRegister
  <2>2. ASSUME NEW p \in Stages, Agrees(p, srv, registered)
        PROVE  Agrees(p, srv', registered')
    BY <1>1, <2>1, <2>2 DEF Agrees
  <2> QED BY <1>1, <1>2, <2>2, SameTrail
<1> QED BY <1>3, <1>4

\* stop undoes the role of a handler that agrees with an orderly client.
LEMMA StopAgrees ==
    ASSUME NEW p \in Stages, Agrees(p, srv, registered), srv.phase = "loop",
           srv'.phase = "closed", registered' = Destroyed
    PROVE  Agrees(p, srv', registered')
BY DEF Agrees, Stages, Destroyed

LEMMA ReadFailsKeeps ==
    ASSUME IInv, UNCHANGED stage, ServerReadFails
    PROVE  IInv'
<1>0. srv \in Handlers
  BY DEF IInv, TypeOK
<1>1. UNCHANGED toServer /\ srv.phase = "loop" /\ registered' = Destroyed
  BY DEF ServerReadFails, Stop
<1>2. srv' \in Handlers /\ srv'.phase = "closed"
  BY <1>0 DEF ServerReadFails, Stop, Handlers, Phases, Statuses
<1>3. ASSUME NEW p \in Stages, Agrees(p, srv, registered)
      PROVE  Agrees(p, srv', registered')
  BY <1>1, <1>2, <1>3, StopAgrees
<1> QED BY <1>1, <1>2, <1>3, SameTrail

(***************************************************************************)
(* One message.                                                            *)
(***************************************************************************)
\* What ServerReceive does with the message it took.
Handled(m) ==
    CASE m.type = "control" -> HandleControl(m)
      [] m.type = "user" -> Continue(srv)
      [] m.type = "audio" -> HandleAudio(m)
      [] m.type = "video" -> HandleVideo(m)
      [] m.type = "data" -> HandleData(m)
      [] m.type = "command" -> HandleCommand(m)

\* Two handlers that the agreement does not tell apart.
Alike(g, h) ==
    /\ g.phase = h.phase /\ g.status = h.status /\ g.app = h.app
    /\ g.role = h.role /\ g.putMsg = h.putMsg

\* putMsg gets the data of a publisher, or refuses it and the handler stops.
LEMMA PutMsgHandled ==
    ASSUME srv \in Handlers, srv.phase = "loop",
           NEW h \in Handlers, Alike(h, srv), PutMsg(h)
    PROVE  /\ srv' \in Handlers
           /\ \/ ~srv.putMsg
              \/ Alike(srv', srv) /\ registered' = registered
              \/ srv'.phase = "closed" /\ registered' = Destroyed
<1> USE DEF Handlers, Phases, Statuses, Roles
<1>1. CASE ~h.putMsg
  BY <1>1 DEF PutMsg, Panic, Alike
<1>2. CASE h.putMsg /\ Continue(h)
  BY <1>2 DEF Continue, Alike
<1>3. CASE h.putMsg /\ Stop
  BY <1>3 DEF Stop
<1> QED BY <1>1, <1>2, <1>3 DEF PutMsg

\* Media that comes when nothing was published reaches a nil putMsg; otherwise
\* it goes through, or the handler stops.
LEMMA MediaHandled ==
    ASSUME srv \in Handlers, srv.phase = "loop", NEW m \in Offered,
           m.type \in MediaTypes, Handled(m)
    PROVE  /\ srv' \in Handlers
           /\ \/ ~srv.putMsg
              \/ Alike(srv', srv) /\ registered' = registered
              \/ srv'.phase = "closed" /\ registered' = Destroyed
<1> DEFINE Goal == /\ srv' \in Handlers
                   /\ \/ ~srv.putMsg
                      \/ Alike(srv', srv) /\ registered' = registered
                      \/ srv'.phase = "closed" /\ registered' = Destroyed
<1>1. ASSUME Stop PROVE Goal
  BY <1>1 DEF Stop, Handlers, Phases, Statuses
<1>2. ASSUME NEW h \in Handlers, Alike(h, srv), PutMsg(h) PROVE Goal
  BY <1>2, PutMsgHandled
<1>3. ASSUME Continue(srv) PROVE Goal
  BY <1>3 DEF Continue, Alike
<1>4. Alike(srv, srv)
  BY DEF Alike
<1>5. m.num \in Int
  BY OfferedAssumption
<1> SUFFICES Goal
  OBVIOUS
<1> HIDE DEF Goal
<1>6. CASE m.type = "audio"
  <2>1. HandleAudio(m)
    BY <1>6 DEF Handled
  <2>2. Stop \/ PutMsg(srv)
    BY <2>1 DEF HandleAudio
  <2> QED BY <2>2, <1>1, <1>2, <1>4
<1>7. CASE m.type = "video"
  <2>1. HandleVideo(m)
    BY <1>7 DEF Handled
  <2>2. Stop \/ PutMsg(srv)
    BY <2>1 DEF HandleVideo
  <2> QED BY <2>2, <1>1, <1>2, <1>4
<1>8. CASE m.type = "data"
  <2>1. HandleData(m)
    BY <1>8 DEF Handled
  <2>2. PICK v \in Int : v = Named(m.num, srv.videoCodecID)
    BY <1>5 DEF Named, Handlers
  <2>3. PICK a \in Int : a = Named(AudioCodec(m.code), srv.audioCodecID)
    BY DEF Named, AudioCodec, AAC, Handlers
  <2>4. \/ Stop \/ Continue(srv)
        \/ PutMsg([srv EXCEPT !.videoCodecID = v, !.audioCodecID = a])
    BY <2>1, <2>2, <2>3, Zenon DEF HandleData, HandleSetDataFrame
  <2>5. ASSUME NEW h, h = [srv EXCEPT !.videoCodecID = v, !.audioCodecID = a]
        PROVE  h \in Handlers /\ Alike(h, srv)
    BY <2>5 DEF Handlers, Alike
  <2> QED BY <2>4, <2>5, <1>1, <1>2, <1>3
<1> QED BY <1>6, <1>7, <1>8 DEF MediaTypes

\* connect, the first of an orderly client's commands.
LEMMA ConnectHandled ==
    ASSUME srv \in Handlers, srv.phase = "loop", NEW m \in Offered,
           HandleConnect(m)
    PROVE  /\ srv' \in Handlers
           /\ srv.status = "hand_success" /\ m.code = "app" =>
                /\ srv'.phase = "loop" /\ srv'.app /\ registered' = registered
                /\ srv'.status \in {"connect_success", "connect_fail"}
<1> USE DEF Handlers, Phases, Statuses, Roles
<1>1. CASE srv.status # "hand_success"
  BY <1>1 DEF HandleConnect, Panic
<1>2. CASE srv.status = "hand_success" /\ m.code = "garbled"
  BY <1>2 DEF HandleConnect, ConnectFailed, Continue
<1>3. CASE srv.status = "hand_success" /\ m.code # "garbled"
  <2>1. PICK b \in BOOLEAN : b = (m.code = "app")
    OBVIOUS
  <2>2. PICK h : h = [srv EXCEPT !.app = b]
    OBVIOUS
  <2>3. h \in Handlers /\ h.app = b /\ h.phase = "loop"
    BY <2>1, <2>2
  <2>4. /\ \/ srv' = [h EXCEPT !.status = "connect_success", !.send = LargeChunkSize]
           \/ srv' = [h EXCEPT !.status = "connect_fail"]
        /\ registered' = registered
    <3>1. HandleConnect(m) =>
            \E ok \in WriteOutcomes(clientOpen) :
              IF ok
              THEN /\ srv' = [h EXCEPT !.status = "connect_success",
                                       !.send = LargeChunkSize]
                   /\ toClient' = toClient \o ConnectAnswer
                   /\ UNCHANGED <<registered, serverOpen, clientOpen>>
              ELSE ConnectFailed(h)
      BY <1>3, <2>1, <2>2, Zenon DEF HandleConnect
    <3> QED BY <3>1 DEF ConnectFailed, Continue
  <2>5. CASE srv' = [h EXCEPT !.status = "connect_success", !.send = LargeChunkSize]
    <3>0. h \in Handlers /\ LargeChunkSize \in Int
      BY <2>3 DEF LargeChunkSize
    <3>1. srv' \in Handlers
      BY <3>0, <2>5
    <3>2. srv'.phase = "loop" /\ srv'.status = "connect_success"
      BY <2>3, <2>5
    <3>3. srv'.app = h.app
      BY <2>3, <2>5
    <3> HIDE DEF Handlers
    <3> QED BY <2>1, <2>3, <2>4, <3>1, <3>2, <3>3
  <2>6. CASE srv' = [h EXCEPT !.status = "connect_fail"]
    <3>1. srv' \in Handlers
      BY <2>3, <2>6
    <3>2. srv'.phase = "loop" /\ srv'.status = "connect_fail"
      BY <2>3, <2>6
    <3>3. srv'.app = h.app
      BY <2>3, <2>6
    <3> HIDE DEF Handlers
    <3> QED BY <2>1, <2>3, <2>4, <3>1, <3>2, <3>3
  <2> QED BY <2>4, <2>5, <2>6
<1> QED BY <1>1, <1>2, <1>3

\* createStream, which panics when connect failed.
LEMMA CreateStreamHandled ==
    ASSUME srv \in Handlers, srv.phase = "loop", NEW m \in Offered,
           HandleCreateStream(m)
    PROVE  /\ srv' \in Handlers
           /\ \/ srv.status # "connect_success" /\ srv'.phase = "panic"
                   /\ srv'.status = srv.status
              \/ srv'.phase = "loop" /\ srv'.app = srv.app
                   /\ registered' = registered
              \/ srv'.phase = "closed" /\ registered' = Destroyed
<1> USE DEF Handlers, Phases, Statuses, Roles
<1>1. CASE srv.status # "connect_success"
  BY <1>1 DEF HandleCreateStream, Panic
<1>2. CASE srv.status = "connect_success"
  <2>1. Stop \/ /\ srv' = [srv EXCEPT !.status = "crtstrm_success"]
                /\ registered' = registered
    BY <1>2 DEF HandleCreateStream, Answer
  <2> QED BY <2>1 DEF Stop
<1> QED BY <1>1, <1>2

\* publish and play, which panic without an application.
LEMMA PublishHandled ==
    ASSUME srv \in Handlers, srv.phase = "loop", NEW m \in Offered,
           HandlePublish(m)
    PROVE  /\ srv' \in Handlers
           /\ \/ ~srv.app
              \/ srv'.phase = "publish" /\ registered' = registered
              \/ srv'.phase = "closed" /\ registered' = Destroyed
<1> USE DEF Handlers, Phases, Statuses, Roles
<1>1. CASE ~srv.app
  BY <1>1 DEF HandlePublish, Panic
<1>2. CASE srv.app
  <2>1. Stop \/ /\ srv' = [srv EXCEPT !.phase = "publish"]
                /\ registered' = registered
    BY <1>2 DEF HandlePublish, Answer
  <2> QED BY <2>1 DEF Stop
<1> QED BY <1>1, <1>2

LEMMA PlayHandled ==
    ASSUME srv \in Handlers, srv.phase = "loop", NEW m \in Offered,
           HandlePlay(m)
    PROVE  /\ srv' \in Handlers
           /\ \/ ~srv.app
              \/ srv'.phase = "play" /\ registered' = registered
              \/ srv'.phase = "closed" /\ registered' = Destroyed
<1> USE DEF Handlers, Phases, Statuses, Roles
<1>1. CASE ~srv.app
  BY <1>1 DEF HandlePlay, Panic
<1>2. CASE srv.app
  <2>1. m.sid \in Int
    BY OfferedAssumption
  <2>2. PICK h : h = [srv EXCEPT !.streamId = m.sid]
    OBVIOUS
  <2>3. h \in Handlers
    BY <2>1, <2>2
  <2>4. \/ srv' = [h EXCEPT !.phase = "play"] /\ registered' = registered
        \/ /\ srv' = [h EXCEPT !.phase = "closed", !.status = "stop"]
           /\ registered' = Destroyed
    BY <1>2, <2>2, Zenon DEF HandlePlay, Answer
  <2> QED BY <2>3, <2>4
<1> QED BY <1>1, <1>2

\* The messages that are no step of the protocol change no field that matters.
LEMMA OtherHandled ==
    ASSUME srv \in Handlers, NEW m \in Offered, Handled(m),
           m.type \notin MediaTypes,
           m.type = "command" =>
             m.name \notin {"connect", "createStream", "publish", "play"}
    PROVE  srv' \in Handlers /\ Alike(srv', srv) /\ registered' = registered
<1>1. m.type \in {"control", "user", "command"} /\ m.num \in Int
  BY OfferedAssumption DEF MediaTypes
<1>2. CASE m.type = "control"
  <2>1. /\ srv' = srv \/ srv' = [srv EXCEPT !.recv = m.num]
        /\ registered' = registered
    BY <1>2 DEF Handled, HandleControl, Continue
  <2> QED BY <1>1, <2>1 DEF Handlers, Alike
<1>3. CASE m.type = "user"
  BY <1>3 DEF Handled, Continue, Alike
<1>4. CASE m.type = "command"
  BY <1>4 DEF Handled, HandleCommand, Continue, Alike
<1> QED BY <1>1, <1>2, <1>3, <1>4

(***************************************************************************)
(* The loop.                                                               *)
(***************************************************************************)
\* The handler that agrees with an orderly client before a message agrees with
\* it after the message, whatever the write and the exchanger answer.
LEMMA HandledAgrees ==
    ASSUME srv \in Handlers, srv.phase = "loop", NEW m \in Offered, Handled(m)
    PROVE  /\ srv' \in Handlers
           /\ \A p \in Stages :
                Agrees(p, srv, registered) /\ Advance(p, m) # "astray"
                  => Agrees(Advance(p, m), srv', registered')
<1> DEFINE Kept(p) == Agrees(p, srv, registered) /\ Advance(p, m) # "astray"
                        => Agrees(Advance(p, m), srv', registered')
<1> SUFFICES ASSUME NEW p \in Stages PROVE srv' \in Handlers /\ Kept(p)
  BY DEF Stages
<1>1. CASE m.type \in MediaTypes
  <2>1. Advance(p, m) # "astray" => p = "published" /\ Advance(p, m) = p
    BY <1>1 DEF Advance, MediaTypes
  <2> QED BY <1>1, <2>1, MediaHandled DEF Agrees, Alike, Destroyed
<1>2. CASE m.type = "command" /\ m.name = "connect"
  <2>1. HandleConnect(m)
    BY <1>2 DEF Handled, HandleCommand
  <2>2. Advance(p, m) # "astray" =>
          p = "start" /\ m.code = "app" /\ Advance(p, m) = "connected"
    <3>1. Advance(p, m) = IF p = "start" /\ m.code = "app"
                          THEN "connected" ELSE "astray"
      BY <1>2 DEF Advance, MediaTypes
    <3> QED BY <3>1
  <2> QED BY <2>1, <2>2, ConnectHandled DEF Agrees
<1>3. CASE m.type = "command" /\ m.name = "createStream"
  <2>1. HandleCreateStream(m)
    BY <1>3 DEF Handled, HandleCommand
  <2>2. Advance(p, m) # "astray" => p = "connected" /\ Advance(p, m) = "created"
    BY <1>3 DEF Advance, MediaTypes
  <2> QED BY <2>1, <2>2, CreateStreamHandled DEF Agrees, Destroyed
<1>4. CASE m.type = "command" /\ m.name = "publish"
  <2>1. HandlePublish(m)
    BY <1>4 DEF Handled, HandleCommand
  <2>2. Advance(p, m) # "astray" => p = "created" /\ Advance(p, m) = "published"
    BY <1>4 DEF Advance, MediaTypes
  <2> QED BY <2>1, <2>2, PublishHandled DEF Agrees, Destroyed
<1>5. CASE m.type = "command" /\ m.name = "play"
  <2>1. HandlePlay(m)
    BY <1>5 DEF Handled, HandleCommand
  <2>2. Advance(p, m) # "astray" => p = "created" /\ Advance(p, m) = "played"
    BY <1>5 DEF Advance, MediaTypes
  <2> QED BY <2>1, <2>2, PlayHandled DEF Agrees, Destroyed
<1>6. CASE /\ m.type \notin MediaTypes
           /\ m.type = "command" =>
                m.name \notin {"connect", "createStream", "publish", "play"}
  <2>1. Advance(p, m) = p
    BY <1>6 DEF Advance
  <2> QED BY <1>6, <2>1, OtherHandled DEF Agrees, Alike
<1> QED BY <1>1, <1>2, <1>3, <1>4, <1>5, <1>6

\* Taking a message off the wire takes the first stage off the trail.
LEMMA ReceiveKeeps ==
    ASSUME IInv, UNCHANGED stage, ServerReceive
    PROVE  IInv'
<1>0. srv \in Handlers /\ toServer \in Seq(Offered) /\ toServer # <<>>
  BY DEF IInv, TypeOK, ServerReceive
<1>1. PICK n \in Nat : Len(toServer) = n + 1
  <2>1. Len(toServer) \in Nat /\ Len(toServer) # 0
    BY <1>0
  <2>2. Len(toServer) - 1 \in Nat /\ Len(toServer) = (Len(toServer) - 1) + 1
    BY <2>1
  <2> QED BY <2>2
<1>2. PICK m \in Offered : m = toServer[1]
  BY <1>0, <1>1
<1>3. /\ toServer' \in Seq(Offered) /\ Len(toServer') = n
      /\ \A i \in 1..n : toServer'[i] = toServer[i + 1]
  BY <1>0, <1>1 DEF ServerReceive
<1>4. Handled(m) /\ srv.phase = "loop"
  <2>1. Head(toServer) = m
    BY <1>0, <1>2
  <2>2. Handled(Head(toServer)) /\ srv.phase = "loop"
    BY Zenon DEF ServerReceive, Handled
  <2> QED BY <2>1, <2>2
<1>5. /\ srv' \in Handlers
      /\ \A p \in Stages :
           Agrees(p, srv, registered) /\ Advance(p, m) # "astray"
             => Agrees(Advance(p, m), srv', registered')
  BY <1>0, <1>4, HandledAgrees
<1>6. TypeOK'
  BY <1>3, <1>5 DEF IInv, TypeOK
<1>7. ASSUME stage' # "astray"
      PROVE  \E st : Trail(st)' /\ Agrees(st[1], srv', registered')
  <2>1. PICK st : Trail(st) /\ Agrees(st[1], srv, registered)
    BY <1>7 DEF IInv, OrderInv
  <2>2. /\ st \in [1..(n + 2) -> Stages]
        /\ \A i \in 1..(n + 1) : st[i + 1] = Advance(st[i], toServer[i])
        /\ st[n + 2] = stage
    <3>1. Len(toServer) + 1 = n + 2
      BY <1>1
    <3> QED BY <2>1, <1>1, <3>1 DEF Trail
  <2>3. st[1] \in Stages /\ st[2] \in Stages /\ st[2] = Advance(st[1], m)
    <3>1. 1 \in 1..(n + 1) /\ 1 \in 1..(n + 2) /\ 2 \in 1..(n + 2) /\ 1 + 1 = 2
      OBVIOUS
    <3>2. st[1 + 1] = Advance(st[1], toServer[1])
      BY <2>2, <3>1
    <3> QED BY <2>2, <3>1, <3>2, <1>2
  <2>4. Agrees(st[2], srv', registered')
    <3>1. Advance(st[1], m) # "astray"
      BY <2>3 DEF Stages
    <3> QED BY <2>1, <2>3, <3>1, <1>5
  <2> DEFINE new == [i \in 1..(n + 1) |-> st[i + 1]]
  <2>5. new \in [1..(n + 1) -> Stages]
    BY <2>2
  <2>6. \A i \in 1..n : new[i] = st[i + 1] /\ new[i + 1] = st[(i + 1) + 1]
    OBVIOUS
  <2>7. new[1] = st[2] /\ new[n + 1] = st[n + 2]
    BY (n + 1) + 1 = n + 2
  <2> HIDE DEF new
  <2>8. \A i \in 1..n : new[i + 1] = Advance(new[i], toServer'[i])
    <3> SUFFICES ASSUME NEW i \in 1..n
                 PROVE  new[i + 1] = Advance(new[i], toServer'[i])
      OBVIOUS
    <3>1. i + 1 \in 1..(n + 1)
      OBVIOUS
    <3>2. st[(i + 1) + 1] = Advance(st[i + 1], toServer[i + 1])
      BY <2>2, <3>1
    <3> QED BY <2>6, <3>2, <1>3
  <2>9. Trail(new)'
    BY <1>3, <2>2, <2>5, <2>7, <2>8 DEF Trail
  <2> QED BY <2>4, <2>7, <2>9
<1> QED BY <1>6, <1>7 DEF IInv, OrderInv

(***************************************************************************)
(* The invariant and what follows.                                         *)
(***************************************************************************)
LEMMA InitOrder == Init => IInv
<1> SUFFICES ASSUME Init PROVE IInv
  OBVIOUS
<1>1. toServer = <<>> /\ stage = "start" /\ registered = {}
  BY DEF Init, WireInit, ServerInit
<1>2. srv = [phase |-> "handshake", status |-> "zero", app |-> FALSE,
             role |-> "none", putMsg |-> FALSE, videoCodecID |-> -1,
             audioCodecID |-> -1, streamId |-> 0,
             send |-> 128, recv |-> 128]
  BY DEF Init, ServerInit, DefaultChunkSize
<1>3. srv \in Handlers /\ srv.phase = "handshake"
  BY <1>2 DEF Handlers, Phases, Statuses, Roles
<1>4. TypeOK
  BY <1>1, <1>3 DEF TypeOK, Stages
<1> DEFINE st == [i \in 1..1 |-> "start"]
<1>5. st \in [1..1 -> Stages] /\ st[1] = "start"
  BY DEF Stages
<1> HIDE DEF st
<1>6. Len(toServer) = 0
  BY <1>1
<1>7. Trail(st)
  BY <1>1, <1>5, <1>6 DEF Trail
<1>8. Agrees(st[1], srv, registered)
  BY <1>1, <1>3, <1>5 DEF Agrees
<1> QED BY <1>4, <1>7, <1>8 DEF IInv, OrderInv

LEMMA StepOrder == IInv /\ [Next]_vars => IInv'
<1> SUFFICES ASSUME IInv, [Next]_vars PROVE IInv'
  OBVIOUS
<1>1. CASE ClientSends
  BY <1>1, SendsKeep
<1>2. CASE ClientCloses
  BY <1>2, ClosesKeep
<1>3. CASE Server
  <2>1. UNCHANGED stage /\ ServerNext
    BY <1>3 DEF Server
  <2>2. ASSUME NEW ok \in BOOLEAN, ServerHandshake(ok) PROVE IInv'
    BY <2>1, <2>2, HandshakeKeeps
  <2>3. ASSUME NEW ok \in BOOLEAN, ServerRegister(ok) PROVE IInv'
    BY <2>1, <2>3, RegisterKeeps
  <2>4. CASE ServerReceive
    BY <2>1, <2>4, ReceiveKeeps
  <2>5. CASE ServerReadFails
    BY <2>1, <2>5, ReadFailsKeeps
  <2> QED BY <2>1, <2>2, <2>3, <2>4, <2>5 DEF ServerNext
<1>4. CASE UNCHANGED vars
  <2>1. UNCHANGED <<toServer, stage, srv, registered>>
    BY <1>4 DEF vars, wireVars, serverVars
  <2>2. srv' \in Handlers
    BY <2>1 DEF IInv, TypeOK
  <2>3. ASSUME NEW p \in Stages, Agrees(p, srv, registered)
        PROVE  Agrees(p, srv', registered')
    BY <2>1, <2>3
  <2> QED BY <2>1, <2>2, <2>3, SameTrail
<1> QED BY <1>1, <1>2, <1>3, <1>4 DEF Next

\* Init and every step keep the trail.
THEOREM OrderTheorem == Spec => []IInv
BY InitOrder, StepOrder, PTL DEF Spec

\* Some stage of an orderly client's agrees with the handler.
LEMMA OrderlyAgrees ==
    ASSUME IInv, stage # "astray"
    PROVE  \E p \in Stages : Agrees(p, srv, registered)
<1>1. PICK st : Trail(st) /\ Agrees(st[1], srv, registered)
  BY DEF IInv, OrderInv
<1>2. Len(toServer) \in Nat
  BY DEF IInv, TypeOK
<1>3. st[1] \in Stages
  BY <1>1, <1>2 DEF Trail
<1> QED BY <1>1, <1>3

\* The panics of the handlers (serverHandler.go) are out of the reach of every
\* client that keeps to the order, however far it runs ahead of the answers,
\* unless the answer to its connect could not be written.
THEOREM OrderlyClientsAreSafe == Spec => []OrderlyNeverPanics
<1>1. IInv => OrderlyNeverPanics
  <2> SUFFICES ASSUME IInv, srv.phase = "panic", stage # "astray"
               PROVE  srv.status = "connect_fail"
    BY DEF OrderlyNeverPanics
  <2> QED BY OrderlyAgrees DEF Agrees
<1> QED BY <1>1, OrderTheorem, PTL

\* stop, which undoes one role only, undoes all that an orderly client's
\* handler ever registered.
THEOREM OrderlyTeardown == Spec => []TeardownComplete
<1>1. IInv => TeardownComplete
  <2> SUFFICES ASSUME IInv, srv.phase = "closed", stage # "astray"
               PROVE  registered = {}
    BY DEF TeardownComplete
  <2> QED BY OrderlyAgrees DEF Agrees
<1> QED BY <1>1, OrderTheorem, PTL
=============================================================================
