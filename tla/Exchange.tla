------------------------------ MODULE Exchange ------------------------------
(***************************************************************************)
(* The stream exchanger of exchange/expair.go together with the connection *)
(* handlers that drive it (protocol/rtmp/serverHandler.go and              *)
(* protocol/flvlive/flvlive.go).                                           *)
(*                                                                         *)
(* Actors: one goroutine per connection (a handler), the single pairPad    *)
(* goroutine that owns the maps, one Source.work goroutine per registered  *)
(* source and one Sink.work goroutine per registered sink.  They share Go  *)
(* channels of bounded capacity and the cancellation contexts of the       *)
(* connections.  A handler may be stopped by its peer at any time.         *)
(*                                                                         *)
(* A Source or Sink object is named by the registration that creates it:   *)
(* <<c, n>> is the object made by the n-th stream command of connection c. *)
(* A media message is named by its source and its position in the sequence *)
(* of messages that source's srcChan accepted.                             *)
(***************************************************************************)
EXTENDS Integers, Sequences, FiniteSets

CONSTANTS
    RtmpConns,  \* connections served by an RtmpHandler
    FlvConns,   \* connections served by a FlvLiveHandler
    Publishers, \* connections whose peer may ask to publish
    Players,    \* connections whose peer may ask to play
    Keys,       \* stream keys a client can name
    NoKey,      \* the empty key of a handler that was given none
    NoReg,      \* absence of a registration
    MaxCmds,    \* bound: stream commands per connection
    MaxPuts,    \* bound: messages a source accepts
    PipeCap,    \* capacity of ConnPool.pipe (100 in the code)
    SrcCap,     \* capacity of Source.srcChan (100)
    SinkCap     \* capacity of Sink.msgChan (50)

ASSUME ConnAssumption ==
    /\ RtmpConns \cap FlvConns = {}
    /\ Publishers \cup Players \subseteq RtmpConns \cup FlvConns
ASSUME KeyAssumption == NoKey \notin Keys
ASSUME RegAssumption == NoReg \notin (RtmpConns \cup FlvConns) \X (1 .. MaxCmds)
ASSUME BoundAssumption == MaxCmds \in Nat /\ MaxPuts \in Nat
\* connectSink sends up to two cached configurations before anything reads them.
ASSUME CapAssumption ==
    /\ PipeCap \in Nat \ {0} /\ SrcCap \in Nat \ {0}
    /\ SinkCap \in Nat /\ SinkCap >= 2

Conns == RtmpConns \cup FlvConns
Regs == Conns \X (1 .. MaxCmds)
AnyKey == Keys \cup {NoKey}
ConnOf(r) == r[1]

VARIABLES
    \* one handler per connection
    key,        \* appStreamKey
    role,       \* RtmpHandler.role
    putMsg,     \* the source the PutData closure feeds, NoReg when nil
    pc,         \* where the handler goroutine is
    cmds,       \* stream commands received so far
    kind,       \* what a registration is: "source" or "sink"
    cancelled,  \* the connection's context is cancelled
    \* pairPad
    pipe, receivers, waiting, pair,
    \* Source objects and their work goroutines
    srcChan, sinks, work, srcErr, log, done, vcfg, acfg,
    \* Sink objects and their work goroutines
    keyInSrc, msgChan, delivered, sinkWork,
    \* the message of the panic that ended the process, "none" while it runs
    panicked

connVars == <<key, role, putMsg, pc, cmds, kind>>
pairVars == <<receivers, waiting, pair>>
srcVars  == <<sinks, work, srcErr, done, vcfg, acfg>>
sinkVars == <<keyInSrc, msgChan, delivered, sinkWork>>
vars == <<connVars, cancelled, pipe, pairVars, srcChan, srcVars, log,
          sinkVars, panicked>>

(***************************************************************************)
(* Data.  The exchanger tells four kinds of message apart: the two decoder *)
(* configurations it caches, a data message whose AMF does not parse, and  *)
(* everything else (frames and metadata), which it only forwards.          *)
(***************************************************************************)
Kinds == {"vcfg", "acfg", "media", "bad"}
ExData == [src : Regs, n : 1 .. MaxPuts, cached : BOOLEAN]
\* n is the registration number of a register message and the position in
\* the source's log of a data message; an unregister message only names the
\* handler and carries 0.
RegisterMsg == [cmd : {"register_source", "register_sink"}, conn : Conns, n : 1 .. MaxCmds]
UnregisterMsg == [cmd : {"unregister_source", "unregister_sink"}, conn : Conns, n : {0}]
DataMsg == [cmd : {"data"}, conn : Conns, n : 1 .. MaxPuts]
PadMessage == RegisterMsg \cup UnregisterMsg \cup DataMsg
RegOf(m) == <<m.conn, m.n>>
RegSinkMsg(s) == [cmd |-> "register_sink", conn |-> s[1], n |-> s[2]]

\* pairPad between two receives from pipe has nothing in hand.
Receiving == [at |-> "recv", src |-> NoReg, todo |-> {}, key |-> NoKey]
Idle == [at |-> "off", n |-> 0, todo |-> {}, victim |-> NoReg]

Init ==
    /\ key = [c \in Conns |-> NoKey]
    /\ role = [c \in Conns |-> "none"]
    /\ putMsg = [c \in Conns |-> NoReg]
    /\ pc = [c \in Conns |-> "loop"]
    /\ cmds = [c \in Conns |-> 0]
    /\ kind = [r \in Regs |-> "none"]
    /\ cancelled = [c \in Conns |-> FALSE]
    /\ pipe = <<>>
    /\ receivers = [k \in AnyKey |-> NoReg]
    /\ waiting = [k \in AnyKey |-> {}]
    /\ pair = Receiving
    /\ srcChan = [r \in Regs |-> <<>>]
    /\ sinks = [r \in Regs |-> {}]
    /\ work = [r \in Regs |-> Idle]
    /\ srcErr = [r \in Regs |-> FALSE]
    /\ log = [r \in Regs |-> <<>>]
    /\ done = [r \in Regs |-> 0]
    /\ vcfg = [r \in Regs |-> 0]
    /\ acfg = [r \in Regs |-> 0]
    /\ keyInSrc = [r \in Regs |-> NoKey]
    /\ msgChan = [r \in Regs |-> <<>>]
    /\ delivered = [r \in Regs |-> <<>>]
    /\ sinkWork = [r \in Regs |-> "off"]
    /\ panicked = "none"

(***************************************************************************)
(* Connection handlers.                                                    *)
(***************************************************************************)
\* An rtmp publish or play whose argument list ends before the stream name
\* leaves appStreamKey as it was; an flv script with a malformed url sets it
\* to the empty string, and the error is overwritten.
Names(c) == IF c \in RtmpConns THEN Keys \cup {key[c]} ELSE AnyKey

\* The handler decodes a publish (source) or play (sink) command, has answered
\* its peer, and is about to call OnSourceDetermined / OnSinkDetermined.
StreamCommand(c, k, what) ==
    /\ pc[c] = "loop" /\ cmds[c] < MaxCmds
    /\ k \in Names(c)
    /\ c \in IF what = "source" THEN Publishers ELSE Players
    /\ key' = [key EXCEPT ![c] = k]
    /\ cmds' = [cmds EXCEPT ![c] = @ + 1]
    /\ kind' = [kind EXCEPT ![<<c, cmds[c] + 1>>] = what]
    /\ pc' = [pc EXCEPT ![c] = "register"]
    /\ UNCHANGED <<role, putMsg, cancelled, pipe, pairVars, srcChan, srcVars,
                   log, sinkVars, panicked>>

\* The command fails after the key was stored: the rtmp answer cannot be
\* written, or the flv script has no boolean "publish".
CommandFails(c, k) ==
    /\ pc[c] = "loop" /\ cmds[c] < MaxCmds
    /\ k \in Names(c)
    /\ key' = [key EXCEPT ![c] = k]
    /\ cmds' = [cmds EXCEPT ![c] = @ + 1]
    /\ pc' = [pc EXCEPT ![c] = "stop"]
    /\ UNCHANGED <<role, putMsg, kind, cancelled, pipe, pairVars, srcChan,
                   srcVars, log, sinkVars, panicked>>

\* OnSourceDetermined / OnSinkDetermined send the new object to pairPad and
\* wait for its result.
Register(c) ==
    /\ pc[c] = "register"
    /\ Len(pipe) < PipeCap
    /\ pipe' = Append(pipe,
                 [cmd |-> IF kind[<<c, cmds[c]>>] = "source"
                          THEN "register_source" ELSE "register_sink",
                  conn |-> c, n |-> cmds[c]])
    /\ pc' = [pc EXCEPT ![c] = "await"]
    /\ UNCHANGED <<key, role, putMsg, cmds, kind, cancelled, pairVars, srcChan,
                   srcVars, log, sinkVars, panicked>>

\* Mutant: the handler does not take the role of a source.
MutSourceResult(c, r, ok) ==
    /\ putMsg' = [putMsg EXCEPT ![c] = r]
    /\ pc' = [pc EXCEPT ![c] = IF ok THEN "loop" ELSE "stop"]
    /\ UNCHANGED role

\* What the handler does with the result pairPad sends on src.result: an
\* RtmpHandler takes the role of a source whether or not err is nil.
SourceResult(c, r, ok) ==
    /\ putMsg' = [putMsg EXCEPT ![c] = r]
    /\ role' = IF c \in RtmpConns THEN [role EXCEPT ![c] = "source"] ELSE role
    /\ pc' = [pc EXCEPT ![c] = IF ok THEN "loop" ELSE "stop"]

\* Mutant: handleRegisterSink sends no result.
MutSinkResult(c) == UNCHANGED <<role, pc>>

\* sink.result is always nil.
SinkResult(c) ==
    /\ role' = IF c \in RtmpConns THEN [role EXCEPT ![c] = "sink"] ELSE role
    /\ pc' = [pc EXCEPT ![c] = "loop"]

\* What a peer of connection c can make its handler put: rtmp data messages
\* are parsed before they are put, flv AMF3 tags are not.
PutKinds(c) == IF c \in RtmpConns THEN Kinds \ {"bad"} ELSE Kinds

\* PutData: the message is accepted by the source's srcChan.  src.err is read
\* without synchronisation with the worker that sets it, so a handler may
\* still read nil after it was set.
Put(c, kd) ==
    LET r == putMsg[c] IN
    /\ pc[c] = "loop" /\ r # NoReg /\ kd \in PutKinds(c)
    /\ Len(log[r]) < MaxPuts
    /\ Len(srcChan[r]) < SrcCap
    /\ log' = [log EXCEPT ![r] = Append(@, kd)]
    /\ srcChan' = [srcChan EXCEPT ![r] =
                     Append(@, [cmd |-> "data", conn |-> c, n |-> Len(log[r]) + 1])]
    /\ UNCHANGED <<connVars, cancelled, pipe, pairVars, srcVars, sinkVars, panicked>>

\* PutData returns an error (src.err is set, or srcChan is full and the
\* message is dropped): the rtmp handler ends the session, the flv one ignores
\* the error and reads on, which changes nothing.
PutRefused(c) ==
    LET r == putMsg[c] IN
    /\ pc[c] = "loop" /\ c \in RtmpConns /\ r # NoReg
    /\ srcErr[r] \/ Len(srcChan[r]) >= SrcCap
    /\ pc' = [pc EXCEPT ![c] = "stop"]
    /\ UNCHANGED <<key, role, putMsg, cmds, kind, cancelled, pipe, pairVars,
                   srcChan, srcVars, log, sinkVars, panicked>>

\* A media message before any publish: the rtmp handler calls a nil function,
\* the flv handler returns "source not registered".
PutWithoutSource(c) ==
    /\ pc[c] = "loop" /\ putMsg[c] = NoReg
    /\ IF c \in RtmpConns
       THEN panicked' = "nil putMsg" /\ UNCHANGED pc
       ELSE pc' = [pc EXCEPT ![c] = "stop"] /\ UNCHANGED panicked
    /\ UNCHANGED <<key, role, putMsg, cmds, kind, cancelled, pipe, pairVars,
                   srcChan, srcVars, log, sinkVars>>

\* The peer closes, a read times out, or a message cannot be decoded.
Disconnect(c) ==
    /\ pc[c] = "loop"
    /\ pc' = [pc EXCEPT ![c] = "stop"]
    /\ UNCHANGED <<key, role, putMsg, cmds, kind, cancelled, pipe, pairVars,
                   srcChan, srcVars, log, sinkVars, panicked>>

\* Mutant: stop does not look at the role.
MutStopMsg(c) ==
    IF c \in FlvConns \/ role[c] # "none" THEN <<"unregister_source">> ELSE <<>>

\* The unregister message the deferred stop (rtmp) or Cancel (flv) sends.
StopMsg(c) ==
    IF c \in FlvConns \/ role[c] = "source" THEN <<"unregister_source">>
    ELSE IF role[c] = "sink" THEN <<"unregister_sink">>
    ELSE <<>>

\* First half of stop: OnDestroySource / OnDestroySink.
Unregister(c) ==
    /\ pc[c] = "stop"
    /\ IF StopMsg(c) = <<>> THEN UNCHANGED pipe
       ELSE /\ Len(pipe) < PipeCap
            /\ pipe' = Append(pipe, [cmd |-> StopMsg(c)[1], conn |-> c, n |-> 0])
    /\ pc' = [pc EXCEPT ![c] = "cancel"]
    /\ UNCHANGED <<key, role, putMsg, cmds, kind, cancelled, pairVars, srcChan,
                   srcVars, log, sinkVars, panicked>>

\* Second half of stop: the context is cancelled and the connection closed.
CancelSelf(c) ==
    /\ pc[c] = "cancel"
    /\ cancelled' = [cancelled EXCEPT ![c] = TRUE]
    /\ pc' = [pc EXCEPT ![c] = "done"]
    /\ UNCHANGED <<key, role, putMsg, cmds, kind, pipe, pairVars, srcChan,
                   srcVars, log, sinkVars, panicked>>

Handler(c) == Register(c) \/ Unregister(c) \/ CancelSelf(c)
Client(c) ==
    \/ \E k \in AnyKey, what \in {"source", "sink"} : StreamCommand(c, k, what)
    \/ \E k \in AnyKey : CommandFails(c, k)
    \/ \E kd \in Kinds : Put(c, kd)
    \/ PutRefused(c) \/ PutWithoutSource(c) \/ Disconnect(c)

(***************************************************************************)
(* pairPad: one goroutine, one message at a time.                          *)
(***************************************************************************)
\* pairPad takes m from pipe and enters the handler of command cmd.
Take(m, cmd) ==
    /\ pair = Receiving /\ pipe # <<>>
    /\ m = Head(pipe) /\ m.cmd = cmd
    /\ pipe' = Tail(pipe)

\* handleRegisterSource, up to the result: a second source of a key is
\* refused, the first one is stored and its worker started.
HandleRegisterSource(m) ==
    LET r == RegOf(m)
        k == key[m.conn]
        free == receivers[k] = NoReg IN
    /\ Take(m, "register_source")
    /\ pc[m.conn] = "await"
    /\ SourceResult(m.conn, r, free)
    /\ IF free
       THEN /\ receivers' = [receivers EXCEPT ![k] = r]
            /\ work' = [work EXCEPT ![r] = [Idle EXCEPT !.at = "select"]]
            /\ pair' = [Receiving EXCEPT !.at = "notify", !.src = r]
       ELSE UNCHANGED <<receivers, work, pair>>
    /\ UNCHANGED <<key, cmds, kind, cancelled, waiting, srcChan, sinks, srcErr,
                   done, vcfg, acfg, log, sinkVars, panicked>>

\* Mutants: no waiting sink is told, or all are, whatever key they wait for.
MutNoWaiters(k) == {}
MutAllWaiters(k) == UNION {waiting[j] : j \in AnyKey}

\* The sinks that wait for key k.
WaitersOf(k) == waiting[k]

\* Mutant: the waiting list is not deleted.
MutKeepWaiters(k) == waiting

\* delete(p.waitingSenders, key)
DropWaiters(k) == [waiting EXCEPT ![k] = {}]

\* notifyWaitSenders reads the key of the source again: its handler runs
\* since it has the result, and may have received another command.
NotifyWaitSenders ==
    LET k == key[ConnOf(pair.src)] IN
    /\ pair.at = "notify"
    /\ pair' = IF WaitersOf(k) = {} THEN Receiving
               ELSE [pair EXCEPT !.at = "loop", !.key = k,
                                 !.todo = {RegSinkMsg(s) : s \in WaitersOf(k)}]
    /\ UNCHANGED <<connVars, cancelled, pipe, receivers, waiting, srcChan,
                   srcVars, log, sinkVars, panicked>>

\* One turn of its loop over the waiting sinks, in any order (a Go map); after
\* the last one the key's waiting list is dropped.
NotifyOne(m) ==
    /\ pair.at = "loop" /\ m \in pair.todo
    /\ Len(srcChan[pair.src]) < SrcCap
    /\ srcChan' = [srcChan EXCEPT ![pair.src] = Append(@, m)]
    /\ IF pair.todo = {m}
       THEN /\ waiting' = DropWaiters(pair.key)
            /\ pair' = Receiving
       ELSE /\ pair' = [pair EXCEPT !.todo = @ \ {m}]
            /\ UNCHANGED waiting
    /\ UNCHANGED <<connVars, cancelled, pipe, receivers, srcVars, log, sinkVars,
                   panicked>>

\* handleUnregisterSource deletes whatever source is registered for the key
\* the handler has now; there must be one.
HandleUnregisterSource(m) ==
    LET k == key[m.conn] IN
    /\ Take(m, "unregister_source")
    /\ IF receivers[k] = NoReg
       THEN panicked' = "source not registerd" /\ UNCHANGED receivers
       ELSE receivers' = [receivers EXCEPT ![k] = NoReg] /\ UNCHANGED panicked
    /\ UNCHANGED <<connVars, cancelled, waiting, pair, srcChan, srcVars, log,
                   sinkVars>>

\* handleRegisterSink without a source: addObserver, the result, go work.
HandleRegisterSinkWait(m) ==
    LET s == RegOf(m)
        k == key[m.conn] IN
    /\ Take(m, "register_sink")
    /\ receivers[k] = NoReg
    /\ keyInSrc' = [keyInSrc EXCEPT ![s] = k]
    /\ IF \E w \in waiting[k] : ConnOf(w) = m.conn
       THEN panicked' = "has waited" /\ UNCHANGED <<waiting, sinkWork, role, pc>>
       ELSE /\ pc[m.conn] = "await"
            /\ waiting' = [waiting EXCEPT ![k] = @ \cup {s}]
            /\ sinkWork' = [sinkWork EXCEPT ![s] = "run"]
            /\ SinkResult(m.conn)
            /\ UNCHANGED panicked
    /\ UNCHANGED <<key, putMsg, cmds, kind, cancelled, receivers, pair, srcChan,
                   srcVars, log, msgChan, delivered>>

\* handleRegisterSink with a source: the result first, then the message is
\* forwarded to the source (Forward).
HandleRegisterSink(m) ==
    LET k == key[m.conn] IN
    /\ Take(m, "register_sink")
    /\ receivers[k] # NoReg
    /\ pc[m.conn] = "await"
    /\ SinkResult(m.conn)
    /\ pair' = [Receiving EXCEPT !.at = "forward", !.src = receivers[k], !.todo = {m}]
    /\ UNCHANGED <<key, putMsg, cmds, kind, cancelled, receivers, waiting,
                   srcChan, srcVars, log, sinkVars, panicked>>

\* handleUnregisterSink: forwarded to the key's source, or removed from the
\* key's waiting list (deleteObserver), or nothing to do.
HandleUnregisterSink(m) ==
    LET k == key[m.conn] IN
    /\ Take(m, "unregister_sink")
    /\ IF receivers[k] # NoReg
       THEN /\ pair' = [Receiving EXCEPT !.at = "forward", !.src = receivers[k],
                                         !.todo = {m}]
            /\ UNCHANGED waiting
       ELSE /\ waiting' = [waiting EXCEPT ![k] = {w \in @ : ConnOf(w) # m.conn}]
            /\ UNCHANGED pair
    /\ UNCHANGED <<connVars, cancelled, receivers, srcChan, srcVars, log,
                   sinkVars, panicked>>

\* The blocking send src.srcChan <- msg, after which handleRegisterSink
\* starts the sink's worker.
Forward(m) ==
    /\ pair.at = "forward" /\ m \in pair.todo
    /\ Len(srcChan[pair.src]) < SrcCap
    /\ srcChan' = [srcChan EXCEPT ![pair.src] = Append(@, m)]
    /\ sinkWork' = IF m.cmd = "register_sink"
                   THEN [sinkWork EXCEPT ![RegOf(m)] = "run"] ELSE sinkWork
    /\ pair' = Receiving
    /\ UNCHANGED <<connVars, cancelled, pipe, receivers, waiting, srcVars, log,
                   keyInSrc, msgChan, delivered, panicked>>

Handle(m) ==
    \/ HandleRegisterSource(m) \/ HandleUnregisterSource(m)
    \/ HandleRegisterSinkWait(m) \/ HandleRegisterSink(m)
    \/ HandleUnregisterSink(m)
PairPad ==
    \/ pipe # <<>> /\ Handle(Head(pipe))
    \/ NotifyWaitSenders
    \/ \E m \in pair.todo : NotifyOne(m) \/ Forward(m)

(***************************************************************************)
(* Source.work: a select over the context and srcChan.  work[r] says where *)
(* the goroutine is: "select", "write" (in the loop of writeData, with     *)
(* message n for the sinks in todo), "evict" (in the Cancel of sink        *)
(* victim), "cancelSinks" (in that loop, for the sinks in todo) or "quit". *)
(***************************************************************************)
\* The worker of r receives m from srcChan.
Receive(r, m, cmd) ==
    /\ work[r].at = "select" /\ srcChan[r] # <<>>
    /\ m = Head(srcChan[r]) /\ m.cmd = cmd
    /\ srcChan' = [srcChan EXCEPT ![r] = Tail(@)]

\* The key under which sink s is, or would be, in the sinks map of a source:
\* the key its handler has now and the handler itself.
SameEntry(s, t) == ConnOf(s) = ConnOf(t) /\ keyInSrc[t] = key[ConnOf(s)]

\* Mutant: the nil check is missing.
MutCachedOne(r, n) == <<[src |-> r, n |-> n, cached |-> TRUE]>>

\* A cached configuration as it is sent: nothing when it is nil.
CachedOne(r, n) == IF n = 0 THEN <<>> ELSE <<[src |-> r, n |-> n, cached |-> TRUE]>>

\* The cached configurations connectSink sends first, video then audio.
Cached(r) == CachedOne(r, vcfg[r]) \o CachedOne(r, acfg[r])

\* connectSink.  avMetaData is never assigned, so it is never sent.
ConnectSink(r, m) ==
    LET s == RegOf(m) IN
    /\ Receive(r, m, "register_sink")
    /\ keyInSrc' = [keyInSrc EXCEPT ![s] = key[m.conn]]
    /\ IF \E t \in sinks[r] : SameEntry(s, t)
       THEN panicked' = "repeater register" /\ UNCHANGED <<sinks, msgChan>>
       ELSE /\ Len(msgChan[s]) + Len(Cached(r)) <= SinkCap
            /\ sinks' = [sinks EXCEPT ![r] = @ \cup {s}]
            /\ msgChan' = [msgChan EXCEPT ![s] = @ \o Cached(r)]
            /\ UNCHANGED panicked
    /\ UNCHANGED <<connVars, cancelled, pipe, pairVars, work, srcErr, done, vcfg,
                   acfg, log, delivered, sinkWork>>

\* Mutant: a configuration is cached and not forwarded.
MutTargets(r, kd) == IF kd \in {"vcfg", "acfg"} THEN {} ELSE sinks[r]

\* The sinks a message is written to: all of them, configurations included.
Targets(r, kd) == sinks[r]

\* handleRtmpMessage, up to the loop of writeData over the sinks.
HandleRtmpMessage(r, m) ==
    LET kd == log[r][m.n] IN
    /\ Receive(r, m, "data")
    /\ vcfg' = IF kd = "vcfg" THEN [vcfg EXCEPT ![r] = m.n] ELSE vcfg
    /\ acfg' = IF kd = "acfg" THEN [acfg EXCEPT ![r] = m.n] ELSE acfg
    /\ srcErr' = IF kd = "bad" THEN [srcErr EXCEPT ![r] = TRUE] ELSE srcErr
    /\ done' = [done EXCEPT ![r] = m.n]
    /\ work' = IF Targets(r, kd) = {} THEN work
               ELSE [work EXCEPT ![r] = [at |-> "write", n |-> m.n,
                                         todo |-> Targets(r, kd), victim |-> NoReg]]
    /\ UNCHANGED <<connVars, cancelled, pipe, pairVars, sinks, log, sinkVars,
                   panicked>>

\* The worker goes on with writeData's loop, or back to its select.
Resume(r, todo) ==
    IF todo = {} THEN [Idle EXCEPT !.at = "select"]
    ELSE [work[r] EXCEPT !.at = "write", !.todo = todo, !.victim = NoReg]

\* Mutant: the message is dropped and the sink stays.
MutOnFull(r, s) == Resume(r, work[r].todo \ {s})

\* A sink whose msgChan is full is to be cancelled and removed.
OnFull(r, s) == [work[r] EXCEPT !.at = "evict", !.victim = s, !.todo = @ \ {s}]

\* One turn of writeData's loop: the sink's msgChan takes the message, or it
\* is full.
WriteData(r, s) ==
    /\ work[r].at = "write" /\ s \in work[r].todo
    /\ IF Len(msgChan[s]) < SinkCap
       THEN /\ msgChan' = [msgChan EXCEPT ![s] =
                             Append(@, [src |-> r, n |-> work[r].n, cached |-> FALSE])]
            /\ work' = [work EXCEPT ![r] = Resume(r, work[r].todo \ {s})]
       ELSE /\ work' = [work EXCEPT ![r] = OnFull(r, s)]
            /\ UNCHANGED msgChan
    /\ UNCHANGED <<connVars, cancelled, pipe, pairVars, srcChan, sinks, srcErr,
                   done, vcfg, acfg, log, keyInSrc, delivered, sinkWork, panicked>>

\* Mutant: the context is not cancelled.
MutCancel(c) ==
    /\ UNCHANGED cancelled
    /\ IF c \in RtmpConns THEN UNCHANGED pipe
       ELSE /\ Len(pipe) < PipeCap
            /\ pipe' = Append(pipe, [cmd |-> "unregister_source", conn |-> c, n |-> 0])

\* Cancel of a handler: an rtmp one cancels its context, a flv one first sends
\* unregister_source to pairPad.  The send and the cancellation are one step:
\* no guard asks for a context that is not cancelled, so whatever runs between
\* them in the code can as well run after both.
Cancel(c) ==
    /\ cancelled' = [cancelled EXCEPT ![c] = TRUE]
    /\ IF c \in RtmpConns THEN UNCHANGED pipe
       ELSE /\ Len(pipe) < PipeCap
            /\ pipe' = Append(pipe, [cmd |-> "unregister_source", conn |-> c, n |-> 0])

\* The sink is cancelled and then deleted from the map by its keyInSrc.
Evict(r) ==
    LET s == work[r].victim IN
    /\ work[r].at = "evict"
    /\ Cancel(ConnOf(s))
    /\ sinks' = [sinks EXCEPT ![r] = @ \ {s}]
    /\ work' = [work EXCEPT ![r] = Resume(r, work[r].todo)]
    /\ UNCHANGED <<connVars, pairVars, srcChan, srcErr, done, vcfg, acfg, log,
                   sinkVars, panicked>>

\* deleteSink: the entry under the handler's present key, if there is one, is
\* deleted and its sink cancelled.
DeleteSink(r, m) ==
    LET found == {t \in sinks[r] : ConnOf(t) = m.conn /\ keyInSrc[t] = key[m.conn]} IN
    /\ Receive(r, m, "unregister_sink")
    /\ sinks' = [sinks EXCEPT ![r] = @ \ found]
    /\ IF found = {} THEN UNCHANGED work
       ELSE \E s \in found :
              work' = [work EXCEPT ![r] = [@ EXCEPT !.at = "evict", !.victim = s]]
    /\ UNCHANGED <<connVars, cancelled, pipe, pairVars, srcErr, done, vcfg, acfg,
                   log, sinkVars, panicked>>

\* ctx.Done: cancelSinks, one sink after the other, and the worker quits;
\* what is left in srcChan is never read.
SourceDone(r) ==
    /\ work[r].at = "select" /\ cancelled[ConnOf(r)]
    /\ work' = [work EXCEPT ![r] =
                  [@ EXCEPT !.at = IF sinks[r] = {} THEN "quit" ELSE "cancelSinks",
                            !.todo = sinks[r]]]
    /\ UNCHANGED <<connVars, cancelled, pipe, pairVars, srcChan, sinks, srcErr,
                   done, vcfg, acfg, log, sinkVars, panicked>>

CancelSink(r, s) ==
    /\ work[r].at = "cancelSinks" /\ s \in work[r].todo
    /\ Cancel(ConnOf(s))
    /\ work' = [work EXCEPT ![r] =
                  [work[r] EXCEPT !.at = IF work[r].todo = {s} THEN "quit" ELSE "cancelSinks",
                                  !.todo = work[r].todo \ {s}]]
    /\ UNCHANGED <<connVars, pairVars, srcChan, sinks, srcErr, done, vcfg, acfg,
                   log, sinkVars, panicked>>

SourceWork(r) ==
    \/ srcChan[r] # <<>> /\ LET m == Head(srcChan[r]) IN
         ConnectSink(r, m) \/ HandleRtmpMessage(r, m) \/ DeleteSink(r, m)
    \/ \E s \in work[r].todo : WriteData(r, s) \/ CancelSink(r, s)
    \/ Evict(r) \/ SourceDone(r)

(***************************************************************************)
(* Sink.work: a select over the context and msgChan; the error WriteData   *)
(* returns is ignored.                                                     *)
(***************************************************************************)
SinkDeliver(s) ==
    /\ sinkWork[s] = "run" /\ msgChan[s] # <<>>
    /\ msgChan' = [msgChan EXCEPT ![s] = Tail(@)]
    /\ delivered' = [delivered EXCEPT ![s] = Append(@, Head(msgChan[s]))]
    /\ UNCHANGED <<connVars, cancelled, pipe, pairVars, srcChan, srcVars, log,
                   keyInSrc, sinkWork, panicked>>

SinkDone(s) ==
    /\ sinkWork[s] = "run" /\ cancelled[ConnOf(s)]
    /\ sinkWork' = [sinkWork EXCEPT ![s] = "quit"]
    /\ UNCHANGED <<connVars, cancelled, pipe, pairVars, srcChan, srcVars, log,
                   keyInSrc, msgChan, delivered, panicked>>

SinkRun(s) == SinkDeliver(s) \/ SinkDone(s)

(***************************************************************************)
(* A panic in any goroutine ends the process.                              *)
(***************************************************************************)
Running == panicked = "none"
Next ==
    /\ Running
    /\ \/ \E c \in Conns : Client(c) \/ Handler(c)
       \/ PairPad
       \/ \E r \in Regs : SourceWork(r) \/ SinkRun(r)

Spec == Init /\ [][Next]_vars

\* The Go scheduler runs every goroutine that can go on; nothing makes a peer
\* send a command, a message or end its connection.
Fairness ==
    /\ WF_vars(Running /\ PairPad)
    /\ \A c \in Conns : WF_vars(Running /\ Handler(c))
    /\ \A r \in Regs : WF_vars(Running /\ SourceWork(r)) /\ WF_vars(Running /\ SinkRun(r))
FairSpec == Spec /\ Fairness


(***************************************************************************)
(* Properties.                                                             *)
(***************************************************************************)
PairStates == [at : {"recv", "notify", "loop", "forward"}, src : Regs \cup {NoReg},
               todo : SUBSET PadMessage, key : AnyKey]
WorkStates == [at : {"off", "select", "write", "evict", "cancelSinks", "quit"},
               n : 0 .. MaxPuts, todo : SUBSET Regs, victim : Regs \cup {NoReg}]

ConnType ==
    /\ key \in [Conns -> AnyKey]
    /\ role \in [Conns -> {"none", "source", "sink"}]
    /\ putMsg \in [Conns -> Regs \cup {NoReg}]
    /\ pc \in [Conns -> {"loop", "register", "await", "stop", "cancel", "done"}]
    /\ cmds \in [Conns -> 0 .. MaxCmds]
    /\ kind \in [Regs -> {"none", "source", "sink"}]
    /\ cancelled \in [Conns -> BOOLEAN]
PairType ==
    /\ pipe \in Seq(PadMessage)
    /\ receivers \in [AnyKey -> Regs \cup {NoReg}]
    /\ waiting \in [AnyKey -> SUBSET Regs]
    /\ pair \in PairStates
    /\ panicked \in {"none", "nil putMsg", "source not registerd", "has waited",
                    "repeater register"}
SourceType ==
    /\ srcChan \in [Regs -> Seq(PadMessage)]
    /\ sinks \in [Regs -> SUBSET Regs]
    /\ work \in [Regs -> WorkStates]
    /\ srcErr \in [Regs -> BOOLEAN]
    /\ log \in [Regs -> Seq(Kinds)]
    /\ done \in [Regs -> 0 .. MaxPuts]
    /\ vcfg \in [Regs -> 0 .. MaxPuts]
    /\ acfg \in [Regs -> 0 .. MaxPuts]
SinkType ==
    /\ keyInSrc \in [Regs -> AnyKey]
    /\ msgChan \in [Regs -> Seq(ExData)]
    /\ delivered \in [Regs -> Seq(ExData)]
    /\ sinkWork \in [Regs -> {"off", "run", "quit"}]

\* Every variable has the type of the Go value it stands for.
TypeOK == ConnType /\ PairType /\ SourceType /\ SinkType

\* Everything a source ever put into the msgChan of sink s, in order.
Sent(s) == delivered[s] \o msgChan[s]

\* A sink gets an unbroken run of one source's messages: the cached
\* configurations come first, and after a live message comes the next one of
\* the same source.  writeData never skips a message for a sink that stays: a
\* sink whose msgChan is full is removed instead.
GaplessStream ==
    \A s \in Regs : \A i \in 1 .. Len(Sent(s)) - 1 :
        LET a == Sent(s)[i]
            b == Sent(s)[i + 1] IN
        /\ a.src = b.src
        /\ ~a.cached => ~b.cached /\ b.n = a.n + 1

\* No sink gets the same message twice, whether cached or live.  The comment
\* on handleRtmpMessage suspects that a configuration can be sent twice.
NothingTwice ==
    \A s \in Regs : \A i, j \in 1 .. Len(Sent(s)) :
        i # j => Sent(s)[i].n # Sent(s)[j].n

\* Before any live message a sink has got the newest audio and the newest
\* video configuration its source accepted before that message: a player that
\* joins late can decode what it gets.
DecodableStream ==
    \A s \in Regs : \A i \in 1 .. Len(Sent(s)) :
        LET m == Sent(s)[i]
            earlier(kd) == {j \in 1 .. m.n - 1 : log[m.src][j] = kd} IN
        ~m.cached =>
            \A kd \in {"vcfg", "acfg"} : \A j \in earlier(kd) :
                (\A l \in earlier(kd) : l <= j)
                    => \E p \in 1 .. i - 1 : Sent(s)[p].n = j

\* What a player is sent can be played: an unbroken run of one source's
\* messages, nothing twice, and every message behind the configurations that
\* it needs, whenever the player joined.
PlayableStream == GaplessStream /\ NothingTwice /\ DecodableStream

\* A sink that has begun to get live messages has everything its source has
\* handled (but for the message being written), or its connection has been
\* cancelled, or is being cancelled by that source: no player silently stalls.
KeepsUpOrCancelled ==
    \A s \in Regs :
        LET m == Sent(s)[Len(Sent(s))] IN
        (Sent(s) # <<>> /\ ~m.cached) =>
            \/ cancelled[ConnOf(s)]
            \/ work[m.src].victim = s
            \/ /\ s \in sinks[m.src]
               /\ m.n = done[m.src] - (IF work[m.src].at \in {"write", "evict"}
                                          /\ s \in work[m.src].todo THEN 1 ELSE 0)

Count(seq, m) == Cardinality({i \in 1 .. Len(seq) : seq[i] = m})

\* The number of places that hold sink s on its way to a source: pipe, a
\* waiting list, the hands of pairPad, a srcChan.  While pairPad walks a
\* waiting list (pair.at = "loop") that list is about to be dropped.
Underway(s) ==
    LET m == RegSinkMsg(s) IN
    Count(pipe, m)
      + Cardinality({k \in AnyKey : s \in waiting[k] /\ (pair.at = "loop" => k # pair.key)})
      + (IF m \in pair.todo THEN 1 ELSE 0)
      + Cardinality({q \in Regs \X (1 .. SrcCap) :
                        q[2] <= Len(srcChan[q[1]]) /\ srcChan[q[1]][q[2]] = m})

\* A sink is in one place at a time: on its way to a source or connected to
\* one.  It is never forgotten in a waiting list once it was passed on, nor
\* fed by two sources.
OnePlace ==
    \A s \in Regs : Underway(s) + Cardinality({r \in Regs : s \in sinks[r]}) <= 1

\* With one stream command per connection a sink is only ever fed by a source
\* of the key it asked for.
KeyIsolation ==
    \A s \in Regs : Sent(s) # <<>> =>
        key[ConnOf(Sent(s)[1].src)] = key[ConnOf(s)]

\* With one stream command per connection, whenever pairPad takes its next
\* message no sink waits for a key that has a source.
WaitersHaveNoSource ==
    pair = Receiving => \A k \in AnyKey : waiting[k] = {} \/ receivers[k] = NoReg

\* With one stream command per connection, a source that is registered while
\* its connection is cancelled (its worker may have quit and no longer reads
\* srcChan) is about to be unregistered: stop sends unregister_source before
\* it cancels.
DeadSourceLeaves ==
    \A k \in AnyKey :
        LET c == ConnOf(receivers[k]) IN
        receivers[k] # NoReg /\ cancelled[c] =>
            \E i \in 1 .. Len(pipe) :
                pipe[i] = [cmd |-> "unregister_source", conn |-> c, n |-> 0]

\* The assertions of pairPad and connectSink (their panics end the process)
\* fail only for one of three reasons: a connection sent a second stream
\* command, two connections published one key (the stop of the refused one
\* unregisters the other), or a flv connection that was no publisher ended
\* or was cancelled (its Cancel unregisters a source all the same).
SecondCommand == \E c \in Conns : cmds[c] > 1
TwoPublishers ==
    \E c, d \in Conns : /\ c # d /\ key[c] = key[d]
                        /\ kind[<<c, 1>>] = "source" /\ kind[<<d, 1>>] = "source"
FlvEndsWithoutSource ==
    \E f \in FlvConns : /\ kind[<<f, 1>>] # "source"
                        /\ cancelled[f] \/ pc[f] \in {"cancel", "done"}
PanicHasACause ==
    /\ panicked \in {"has waited", "repeater register"} => SecondCommand
    /\ panicked = "source not registerd" =>
            SecondCommand \/ TwoPublishers \/ FlvEndsWithoutSource

\* Every OnSourceDetermined and OnSinkDetermined returns (both say that they
\* return the result synchronously), unless the process has panicked.
RegisterAnswered ==
    \A c \in Conns : pc[c] = "await" ~> (pc[c] # "await" \/ panicked # "none")

\* When the connection of a source is cancelled its worker quits, and by then
\* the connection of every sink it still has is cancelled too.
TeardownReachesSinks ==
    \A r \in Regs :
        (work[r].at # "off" /\ cancelled[ConnOf(r)]) ~>
            \/ work[r].at = "quit" /\ \A s \in sinks[r] : cancelled[ConnOf(s)]
            \/ panicked # "none"

\* A sink that waits for a key gets connected to the source that registers for
\* it, unless that source's connection goes away first.
WaiterConnected ==
    \A s \in Regs, k \in AnyKey, r \in Regs :
        (s \in waiting[k] /\ receivers[k] = r) ~>
            (s \in sinks[r] \/ cancelled[ConnOf(r)] \/ cancelled[ConnOf(s)]
               \/ panicked # "none")


(***************************************************************************)
(* What the exchanger promises, with no channel, map or worker in it.      *)
(***************************************************************************)
\* The source that feeds a sink, NoReg when none does.
Feed(s) == IF \E r \in Regs : s \in sinks[r]
           THEN CHOOSE r \in Regs : s \in sinks[r] ELSE NoReg
\* The message being written has not reached s, or never will.
Pending(r, s) ==
    /\ work[r].at \in {"write", "evict"}
    /\ s \in work[r].todo \cup {work[r].victim}
Position(s) == IF Feed(s) = NoReg THEN 0
               ELSE done[Feed(s)] - (IF Pending(Feed(s), s) THEN 1 ELSE 0)

B == INSTANCE Broadcast WITH
        Streams <- Regs, Nobody <- NoReg,
        feed <- [s \in Regs |-> Feed(s)],
        pos <- [s \in Regs |-> Position(s)],
        got <- [s \in Regs |-> Sent(s)]

\* The exchanger implements Broadcast.
ImplementsBroadcast == B!Spec

=============================================================================
