--------------------------- MODULE ExchangeProofs ---------------------------
(***************************************************************************)
(* Theorems about Exchange, for every set of connections, every set of     *)
(* keys, and all bounds and capacities.                                    *)
(***************************************************************************)
EXTENDS Exchange, SequenceTheorems, FiniteSetTheorems, TLAPS

\* The types alone are not inductive.  They rest on this: a handler that
\* registers has had a command, and what the worker of a source and pairPad
\* have in hand is what their place in the code needs.
GoodWork ==
    {w \in WorkStates :
        /\ w.at = "write" => w.n >= 1
        /\ w.at = "evict" => w.victim \in Regs /\ (w.todo # {} => w.n >= 1)
        /\ w.at = "select" => w.todo = {}}
GoodPair == {p \in PairStates : p.at # "recv" => p.src \in Regs}
ConnShape == \A c \in Conns : pc[c] \in {"register", "await"} => cmds[c] >= 1
Shape == ConnShape /\ work \in [Regs -> GoodWork] /\ pair \in GoodPair

TypeInv == TypeOK /\ Shape

USE DEF connVars, pairVars, srcVars, sinkVars

\* The stronger types refine the declared ones.
LEMMA GoodTypes == [Regs -> GoodWork] \subseteq [Regs -> WorkStates] /\ GoodPair \subseteq PairStates
  BY DEF GoodWork, GoodPair

\* A message sent on a channel leaves a sequence of messages.
LEMMA AppendType ==
  ASSUME NEW S, NEW q \in Seq(S), NEW x \in S
  PROVE  Append(q, x) \in Seq(S)
  OBVIOUS

\* Facts about messages: a register message names a registration, every
\* message names a connection.
LEMMA MessageType ==
  ASSUME NEW m \in PadMessage
  PROVE  /\ m.conn \in Conns
         /\ m.cmd \in {"register_source", "register_sink"} => RegOf(m) \in Regs
         /\ m.cmd = "data" => m.n \in 1 .. MaxPuts
  BY DEF PadMessage, RegisterMsg, UnregisterMsg, DataMsg, RegOf, Regs

\* The message notifyWaitSenders passes on for a waiting sink.
LEMMA RegSinkMsgType ==
  ASSUME NEW s \in Regs
  PROVE  RegSinkMsg(s) \in PadMessage
  BY DEF RegSinkMsg, PadMessage, RegisterMsg, Regs

\* The message OnDestroySource and OnDestroySink send.
LEMMA UnregisterMsgType ==
  ASSUME NEW c \in Conns, NEW cmd \in {"unregister_source", "unregister_sink"}
  PROVE  [cmd |-> cmd, conn |-> c, n |-> 0] \in PadMessage
  BY DEF PadMessage, UnregisterMsg

\* A Source or Sink object belongs to a connection.
LEMMA ConnOfType ==
  ASSUME NEW r \in Regs
  PROVE  ConnOf(r) \in Conns
  BY DEF ConnOf, Regs

\* What connectSink sends.
LEMMA CachedType ==
  ASSUME TypeOK, NEW r \in Regs
  PROVE  Cached(r) \in Seq(ExData)
<1>1. ASSUME NEW n \in 0 .. MaxPuts
      PROVE  CachedOne(r, n) \in Seq(ExData)
  <2>1. CASE n = 0
    BY <2>1 DEF CachedOne
  <2>2. CASE n # 0
    <3>1. [src |-> r, n |-> n, cached |-> TRUE] \in ExData
      BY <2>2, BoundAssumption DEF ExData
    <3> QED
      BY <2>2, <3>1 DEF CachedOne
  <2> QED
    BY <2>1, <2>2
<1>2. vcfg[r] \in 0 .. MaxPuts /\ acfg[r] \in 0 .. MaxPuts
  BY DEF TypeOK, SourceType
<1>3. CachedOne(r, vcfg[r]) \in Seq(ExData) /\ CachedOne(r, acfg[r]) \in Seq(ExData)
  BY <1>1, <1>2
<1> QED
  BY <1>3, ConcatProperties DEF Cached

\* What a worker has in hand after each of its steps.
LEMMA SelectWork == [Idle EXCEPT !.at = "select"] \in GoodWork
  BY BoundAssumption DEF GoodWork, WorkStates, Idle

\* A worker that begins the loop of writeData.
LEMMA WriteWork ==
  ASSUME NEW n \in 1 .. MaxPuts, NEW t \in SUBSET Regs
  PROVE  [at |-> "write", n |-> n, todo |-> t, victim |-> NoReg] \in GoodWork
  BY BoundAssumption DEF GoodWork, WorkStates

\* A worker that goes on after a sink.
LEMMA ResumeWork ==
  ASSUME NEW r \in Regs, work[r] \in GoodWork, NEW t \in SUBSET Regs,
         t # {} => work[r].n >= 1
  PROVE  Resume(r, t) \in GoodWork
<1>1. CASE t = {}
  BY <1>1, SelectWork DEF Resume
<1>2. CASE t # {}
  <2>1. work[r].n \in 1 .. MaxPuts
    BY <1>2, BoundAssumption DEF GoodWork, WorkStates
  <2>2. Resume(r, t) = [at |-> "write", n |-> work[r].n, todo |-> t, victim |-> NoReg]
    BY <1>2 DEF Resume, GoodWork, WorkStates
  <2> QED
    BY <2>1, <2>2, WriteWork
<1> QED
  BY <1>1, <1>2

\* A worker about to cancel a sink.
LEMMA EvictWork ==
  ASSUME NEW w \in GoodWork, NEW s \in Regs
  PROVE  /\ w.todo = {} => [w EXCEPT !.at = "evict", !.victim = s] \in GoodWork
         /\ w.at = "write" =>
              [w EXCEPT !.at = "evict", !.victim = s, !.todo = @ \ {s}] \in GoodWork
  BY DEF GoodWork, WorkStates

\* A worker in cancelSinks.
LEMMA CancelWork ==
  ASSUME NEW w \in GoodWork, NEW a \in {"quit", "cancelSinks"}, NEW t \in SUBSET Regs
  PROVE  [w EXCEPT !.at = a, !.todo = t] \in GoodWork
  BY DEF GoodWork, WorkStates

\* What pairPad has in hand after each of its steps.
LEMMA ReceivingPair == Receiving \in GoodPair
  BY DEF GoodPair, PairStates, Receiving, AnyKey

\* pairPad after it sent a result.
LEMMA BeginPair ==
  ASSUME NEW r \in Regs, NEW m \in PadMessage
  PROVE  /\ [Receiving EXCEPT !.at = "notify", !.src = r] \in GoodPair
         /\ [Receiving EXCEPT !.at = "forward", !.src = r, !.todo = {m}] \in GoodPair
  BY DEF GoodPair, PairStates, Receiving, AnyKey

\* pairPad in the loop over waiting sinks.
LEMMA LoopPair ==
  ASSUME NEW q \in GoodPair, NEW M \in SUBSET PadMessage, NEW k \in AnyKey, q.at # "recv"
  PROVE  /\ [q EXCEPT !.at = "loop", !.key = k, !.todo = M] \in GoodPair
         /\ [q EXCEPT !.todo = M] \in GoodPair
  BY DEF GoodPair, PairStates

\* The state after init and before the first command.
LEMMA InitType == Init => TypeInv
<1> SUFFICES ASSUME Init PROVE TypeInv
  OBVIOUS
<1>1. ConnType
  BY BoundAssumption DEF Init, ConnType, AnyKey
<1>2. PairType
  BY DEF Init, PairType, AnyKey, Receiving, PairStates
<1>3. SourceType
  BY BoundAssumption DEF Init, SourceType, Idle, WorkStates
<1>4. SinkType
  BY DEF Init, SinkType, AnyKey
<1>5. Idle \in GoodWork
  BY BoundAssumption DEF Idle, GoodWork, WorkStates
<1>6. Shape
  BY <1>5, ReceivingPair DEF Init, Shape, ConnShape
<1> QED
  BY <1>1, <1>2, <1>3, <1>4, <1>6 DEF TypeInv, TypeOK

\* What a peer makes its handler do.
LEMMA ClientType ==
  ASSUME TypeInv, NEW c \in Conns, Client(c)
  PROVE  TypeInv'
<1>1. ASSUME NEW k \in AnyKey, NEW what \in {"source", "sink"}, StreamCommand(c, k, what)
     PROVE  TypeInv'
  <2>1. key' = [key EXCEPT ![c] = k]
    BY <1>1 DEF StreamCommand
  <2>2. (key \in [Conns -> AnyKey])'
    BY <2>1 DEF TypeInv, TypeOK, ConnType
  <2>3. cmds[c] < MaxCmds /\ cmds' = [cmds EXCEPT ![c] = @ + 1]
    BY <1>1 DEF StreamCommand
  <2>4. (cmds \in [Conns -> 0 .. MaxCmds])'
    BY <2>3, BoundAssumption DEF TypeInv, TypeOK, ConnType
  <2>5. kind' = [kind EXCEPT ![<<c, cmds[c] + 1>>] = what]
    BY <1>1 DEF StreamCommand
  <2>6. (kind \in [Regs -> {"none", "source", "sink"}])'
    BY <2>5 DEF TypeInv, TypeOK, ConnType
  <2>7. pc' = [pc EXCEPT ![c] = "register"]
    BY <1>1 DEF StreamCommand
  <2>8. (pc \in [Conns -> {"loop", "register", "await", "stop", "cancel", "done"}])'
    BY <2>7 DEF TypeInv, TypeOK, ConnType
  <2>9. ConnShape'
    BY <2>3, <2>7, BoundAssumption DEF TypeInv, TypeOK, ConnType, Shape, ConnShape
  <2> QED
    BY <1>1, <2>2, <2>4, <2>6, <2>8, <2>9, GoodTypes
    DEF TypeInv, TypeOK, ConnType, PairType, SourceType, SinkType, Shape, StreamCommand
<1>2. ASSUME NEW k \in AnyKey, CommandFails(c, k)
     PROVE  TypeInv'
  <2>1. key' = [key EXCEPT ![c] = k]
    BY <1>2 DEF CommandFails
  <2>2. (key \in [Conns -> AnyKey])'
    BY <2>1 DEF TypeInv, TypeOK, ConnType
  <2>3. cmds[c] < MaxCmds /\ cmds' = [cmds EXCEPT ![c] = @ + 1]
    BY <1>2 DEF CommandFails
  <2>4. (cmds \in [Conns -> 0 .. MaxCmds])'
    BY <2>3, BoundAssumption DEF TypeInv, TypeOK, ConnType
  <2>5. pc' = [pc EXCEPT ![c] = "stop"]
    BY <1>2 DEF CommandFails
  <2>6. (pc \in [Conns -> {"loop", "register", "await", "stop", "cancel", "done"}])'
    BY <2>5 DEF TypeInv, TypeOK, ConnType
  <2>7. ConnShape'
    BY <2>3, <2>5, BoundAssumption DEF TypeInv, TypeOK, ConnType, Shape, ConnShape
  <2> QED
    BY <1>2, <2>2, <2>4, <2>6, <2>7, GoodTypes
    DEF TypeInv, TypeOK, ConnType, PairType, SourceType, SinkType, Shape, CommandFails
<1>3. ASSUME NEW kd \in Kinds, Put(c, kd)
     PROVE  TypeInv'
  <2>1. putMsg[c] \in Regs
    BY <1>3 DEF TypeInv, TypeOK, ConnType, Put
  <2>2. Len(log[putMsg[c]]) \in Nat /\ Len(log[putMsg[c]]) < MaxPuts
    BY <1>3, <2>1 DEF TypeInv, TypeOK, SourceType, Put
  <2>3. [cmd |-> "data", conn |-> c, n |-> Len(log[putMsg[c]]) + 1] \in PadMessage
    BY <1>3, <2>2, BoundAssumption DEF PadMessage, DataMsg
  <2>4. log' = [log EXCEPT ![putMsg[c]] = Append(@, kd)]
    BY <1>3 DEF Put
  <2>5. (log \in [Regs -> Seq(Kinds)])'
    BY <2>4, <2>1, <2>2, <2>3 DEF TypeInv, TypeOK, SourceType
  <2>6. srcChan' = [srcChan EXCEPT ![putMsg[c]] =
                  Append(@, [cmd |-> "data", conn |-> c, n |-> Len(log[putMsg[c]]) + 1])]
    BY <1>3 DEF Put
  <2>7. (srcChan \in [Regs -> Seq(PadMessage)])'
    BY <2>6, <2>1, <2>2, <2>3 DEF TypeInv, TypeOK, SourceType
  <2> QED
    BY <1>3, <2>5, <2>7, GoodTypes
    DEF TypeInv, TypeOK, ConnType, PairType, SourceType, SinkType, Shape, ConnShape, Put
<1>4. CASE PutRefused(c)
  <2>1. pc' = [pc EXCEPT ![c] = "stop"]
    BY <1>4 DEF PutRefused
  <2>2. (pc \in [Conns -> {"loop", "register", "await", "stop", "cancel", "done"}])'
    BY <2>1 DEF TypeInv, TypeOK, ConnType
  <2>3. UNCHANGED cmds
    BY <1>4 DEF PutRefused
  <2>4. ConnShape'
    BY <2>1, <2>3 DEF TypeInv, TypeOK, ConnType, Shape, ConnShape
  <2> QED
    BY <1>4, <2>2, <2>4, GoodTypes
    DEF TypeInv, TypeOK, ConnType, PairType, SourceType, SinkType, Shape, PutRefused
<1>5. CASE PutWithoutSource(c)
  <2>1. pc' = pc \/ pc' = [pc EXCEPT ![c] = "stop"]
    BY <1>5 DEF PutWithoutSource
  <2>2. (pc \in [Conns -> {"loop", "register", "await", "stop", "cancel", "done"}])'
    BY <2>1 DEF TypeInv, TypeOK, ConnType
  <2>3. panicked' = panicked \/ panicked' = "nil putMsg"
    BY <1>5 DEF PutWithoutSource
  <2>4. (panicked \in {"none", "nil putMsg", "source not registerd", "has waited",
                    "repeater register"})'
    BY <2>3 DEF TypeInv, TypeOK, PairType
  <2>5. UNCHANGED cmds
    BY <1>5 DEF PutWithoutSource
  <2>6. ConnShape'
    BY <2>1, <2>5 DEF TypeInv, TypeOK, ConnType, Shape, ConnShape
  <2> QED
    BY <1>5, <2>2, <2>4, <2>6, GoodTypes
    DEF TypeInv, TypeOK, ConnType, PairType, SourceType, SinkType, Shape, PutWithoutSource
<1>6. CASE Disconnect(c)
  <2>1. pc' = [pc EXCEPT ![c] = "stop"]
    BY <1>6 DEF Disconnect
  <2>2. (pc \in [Conns -> {"loop", "register", "await", "stop", "cancel", "done"}])'
    BY <2>1 DEF TypeInv, TypeOK, ConnType
  <2>3. UNCHANGED cmds
    BY <1>6 DEF Disconnect
  <2>4. ConnShape'
    BY <2>1, <2>3 DEF TypeInv, TypeOK, ConnType, Shape, ConnShape
  <2> QED
    BY <1>6, <2>2, <2>4, GoodTypes
    DEF TypeInv, TypeOK, ConnType, PairType, SourceType, SinkType, Shape, Disconnect
<1> QED
  BY <1>1, <1>2, <1>3, <1>4, <1>5, <1>6 DEF Client

\* What a handler does by itself.
LEMMA HandlerType ==
  ASSUME TypeInv, NEW c \in Conns, Handler(c)
  PROVE  TypeInv'
<1>1. CASE Register(c)
  <2>1. cmds[c] \in 1 .. MaxCmds
    BY <1>1, BoundAssumption DEF TypeInv, TypeOK, ConnType, Shape, ConnShape, Register
  <2>2. \A cmd \in {"register_source", "register_sink"} :
          [cmd |-> cmd, conn |-> c, n |-> cmds[c]] \in PadMessage
    BY <1>1, <2>1 DEF PadMessage, RegisterMsg
  <2>3. \E m \in PadMessage : pipe' = Append(pipe, m)
    BY <1>1, <2>2 DEF Register
  <2>4. (pipe \in Seq(PadMessage))'
    BY <2>3, <2>1, <2>2, AppendType DEF TypeInv, TypeOK, PairType
  <2>5. pc' = [pc EXCEPT ![c] = "await"]
    BY <1>1 DEF Register
  <2>6. (pc \in [Conns -> {"loop", "register", "await", "stop", "cancel", "done"}])'
    BY <2>5, <2>1, <2>2 DEF TypeInv, TypeOK, ConnType
  <2>7. UNCHANGED cmds
    BY <1>1 DEF Register
  <2>8. ConnShape'
    BY <2>5, <2>7, <2>1 DEF TypeInv, TypeOK, ConnType, Shape, ConnShape
  <2> QED
    BY <1>1, <2>4, <2>6, <2>8, GoodTypes
    DEF TypeInv, TypeOK, ConnType, PairType, SourceType, SinkType, Shape, Register
<1>2. CASE Unregister(c)
  <2>1. \/ pipe' = pipe
        \/ \E m \in PadMessage : pipe' = Append(pipe, m)
    BY <1>2, UnregisterMsgType DEF Unregister, StopMsg
  <2>2. (pipe \in Seq(PadMessage))'
    BY <2>1, AppendType DEF TypeInv, TypeOK, PairType
  <2>3. pc' = [pc EXCEPT ![c] = "cancel"]
    BY <1>2 DEF Unregister
  <2>4. (pc \in [Conns -> {"loop", "register", "await", "stop", "cancel", "done"}])'
    BY <2>3 DEF TypeInv, TypeOK, ConnType
  <2>5. UNCHANGED cmds
    BY <1>2 DEF Unregister
  <2>6. ConnShape'
    BY <2>3, <2>5 DEF TypeInv, TypeOK, ConnType, Shape, ConnShape
  <2> QED
    BY <1>2, <2>2, <2>4, <2>6, GoodTypes
    DEF TypeInv, TypeOK, ConnType, PairType, SourceType, SinkType, Shape, Unregister
<1>3. CASE CancelSelf(c)
  <2>1. cancelled' = [cancelled EXCEPT ![c] = TRUE]
    BY <1>3 DEF CancelSelf
  <2>2. (cancelled \in [Conns -> BOOLEAN])'
    BY <2>1 DEF TypeInv, TypeOK, ConnType
  <2>3. pc' = [pc EXCEPT ![c] = "done"]
    BY <1>3 DEF CancelSelf
  <2>4. (pc \in [Conns -> {"loop", "register", "await", "stop", "cancel", "done"}])'
    BY <2>3 DEF TypeInv, TypeOK, ConnType
  <2>5. UNCHANGED cmds
    BY <1>3 DEF CancelSelf
  <2>6. ConnShape'
    BY <2>3, <2>5 DEF TypeInv, TypeOK, ConnType, Shape, ConnShape
  <2> QED
    BY <1>3, <2>2, <2>4, <2>6, GoodTypes
    DEF TypeInv, TypeOK, ConnType, PairType, SourceType, SinkType, Shape, CancelSelf
<1> QED
  BY <1>1, <1>2, <1>3 DEF Handler

\* The steps of pairPad.
LEMMA PairPadType ==
  ASSUME TypeInv, PairPad
  PROVE  TypeInv'
<1>1. CASE HandleRegisterSource(Head(pipe))
  <2>1. pipe # <<>> /\ pipe' = Tail(pipe)
    BY <1>1 DEF HandleRegisterSource, Take
  <2>2. Head(pipe) \in PadMessage /\ Tail(pipe) \in Seq(PadMessage)
    BY <1>1, <2>1, HeadTailProperties DEF TypeInv, TypeOK, PairType
  <2>3. Head(pipe).conn \in Conns /\ RegOf(Head(pipe)) \in Regs
    BY <1>1, <2>2, MessageType DEF HandleRegisterSource, Take
  <2>4. pipe' = Tail(pipe)
    BY <1>1 DEF HandleRegisterSource, Take
  <2>5. (pipe \in Seq(PadMessage))'
    BY <2>4, <2>1, <2>2, <2>3 DEF TypeInv, TypeOK, PairType
  <2>6. putMsg' = [putMsg EXCEPT ![Head(pipe).conn] = RegOf(Head(pipe))]
    BY <1>1 DEF HandleRegisterSource, SourceResult
  <2>7. (putMsg \in [Conns -> Regs \cup {NoReg}])'
    BY <2>6, <2>1, <2>2, <2>3 DEF TypeInv, TypeOK, ConnType
  <2>8. role' = role \/ role' = [role EXCEPT ![Head(pipe).conn] = "source"]
    BY <1>1 DEF HandleRegisterSource, SourceResult
  <2>9. (role \in [Conns -> {"none", "source", "sink"}])'
    BY <2>8, <2>1, <2>2, <2>3 DEF TypeInv, TypeOK, ConnType
  <2>10. \E a \in {"loop", "stop"} : pc' = [pc EXCEPT ![Head(pipe).conn] = a]
    BY <1>1 DEF HandleRegisterSource, SourceResult
  <2>11. (pc \in [Conns -> {"loop", "register", "await", "stop", "cancel", "done"}])'
    BY <2>10, <2>1, <2>2, <2>3 DEF TypeInv, TypeOK, ConnType
  <2>12. \/ receivers' = receivers
        \/ receivers' = [receivers EXCEPT ![key[Head(pipe).conn]] = RegOf(Head(pipe))]
    BY <1>1 DEF HandleRegisterSource
  <2>13. (receivers \in [AnyKey -> Regs \cup {NoReg}])'
    BY <2>12, <2>1, <2>2, <2>3 DEF TypeInv, TypeOK, PairType
  <2>14. \/ work' = work
        \/ work' = [work EXCEPT ![RegOf(Head(pipe))] = [Idle EXCEPT !.at = "select"]]
    BY <1>1 DEF HandleRegisterSource
  <2>15. (work \in [Regs -> GoodWork])'
    BY <2>14, <2>1, <2>2, <2>3, SelectWork DEF TypeInv, Shape
  <2>16. pair' = pair \/ pair' \in GoodPair
    BY <1>1, <2>2, <2>3, BeginPair DEF HandleRegisterSource
  <2>17. (pair \in GoodPair)'
    BY <2>16, <2>1, <2>2, <2>3 DEF TypeInv, Shape
  <2>18. UNCHANGED cmds
    BY <1>1 DEF HandleRegisterSource
  <2>19. ConnShape'
    BY <2>10, <2>18 DEF TypeInv, TypeOK, ConnType, Shape, ConnShape
  <2> QED
    BY <1>1, <2>5, <2>7, <2>9, <2>11, <2>13, <2>15, <2>17, <2>19, GoodTypes
    DEF TypeInv, TypeOK, ConnType, PairType, SourceType, SinkType, Shape, HandleRegisterSource
<1>2. CASE HandleUnregisterSource(Head(pipe))
  <2>1. pipe # <<>> /\ pipe' = Tail(pipe)
    BY <1>2 DEF HandleUnregisterSource, Take
  <2>2. Head(pipe) \in PadMessage /\ Tail(pipe) \in Seq(PadMessage)
    BY <1>2, <2>1, HeadTailProperties DEF TypeInv, TypeOK, PairType
  <2>3. pipe' = Tail(pipe)
    BY <1>2 DEF HandleUnregisterSource, Take
  <2>4. (pipe \in Seq(PadMessage))'
    BY <2>3, <2>1, <2>2 DEF TypeInv, TypeOK, PairType
  <2>5. receivers' = receivers \/ receivers' = [receivers EXCEPT ![key[Head(pipe).conn]] = NoReg]
    BY <1>2 DEF HandleUnregisterSource
  <2>6. (receivers \in [AnyKey -> Regs \cup {NoReg}])'
    BY <2>5, <2>1, <2>2 DEF TypeInv, TypeOK, PairType
  <2>7. panicked' = panicked \/ panicked' = "source not registerd"
    BY <1>2 DEF HandleUnregisterSource
  <2>8. (panicked \in {"none", "nil putMsg", "source not registerd", "has waited",
                    "repeater register"})'
    BY <2>7, <2>1, <2>2 DEF TypeInv, TypeOK, PairType
  <2> QED
    BY <1>2, <2>4, <2>6, <2>8, GoodTypes
    DEF TypeInv, TypeOK, ConnType, PairType, SourceType, SinkType, Shape, ConnShape, HandleUnregisterSource
<1>3. CASE HandleRegisterSinkWait(Head(pipe))
  <2>1. pipe # <<>> /\ pipe' = Tail(pipe)
    BY <1>3 DEF HandleRegisterSinkWait, Take
  <2>2. Head(pipe) \in PadMessage /\ Tail(pipe) \in Seq(PadMessage)
    BY <1>3, <2>1, HeadTailProperties DEF TypeInv, TypeOK, PairType
  <2>3. Head(pipe).conn \in Conns /\ RegOf(Head(pipe)) \in Regs
    BY <1>3, <2>2, MessageType DEF HandleRegisterSinkWait, Take
  <2>4. key[Head(pipe).conn] \in AnyKey
    BY <1>3, <2>3 DEF TypeInv, TypeOK, ConnType
  <2>5. \A k \in AnyKey : waiting[k] \cup {RegOf(Head(pipe))} \in SUBSET Regs
    BY <1>3, <2>3 DEF TypeInv, TypeOK, PairType
  <2>6. pipe' = Tail(pipe)
    BY <1>3 DEF HandleRegisterSinkWait, Take
  <2>7. (pipe \in Seq(PadMessage))'
    BY <2>6, <2>1, <2>2, <2>3, <2>4, <2>5 DEF TypeInv, TypeOK, PairType
  <2>8. role' = role \/ role' = [role EXCEPT ![Head(pipe).conn] = "sink"]
    BY <1>3 DEF HandleRegisterSinkWait, SinkResult
  <2>9. (role \in [Conns -> {"none", "source", "sink"}])'
    BY <2>8, <2>1, <2>2, <2>3, <2>4, <2>5 DEF TypeInv, TypeOK, ConnType
  <2>10. pc' = pc \/ pc' = [pc EXCEPT ![Head(pipe).conn] = "loop"]
    BY <1>3 DEF HandleRegisterSinkWait, SinkResult
  <2>11. (pc \in [Conns -> {"loop", "register", "await", "stop", "cancel", "done"}])'
    BY <2>10, <2>1, <2>2, <2>3, <2>4, <2>5 DEF TypeInv, TypeOK, ConnType
  <2>12. \/ waiting' = waiting
        \/ waiting' = [waiting EXCEPT ![key[Head(pipe).conn]] = @ \cup {RegOf(Head(pipe))}]
    BY <1>3 DEF HandleRegisterSinkWait
  <2>13. (waiting \in [AnyKey -> SUBSET Regs])'
    BY <2>12, <2>1, <2>2, <2>3, <2>4, <2>5 DEF TypeInv, TypeOK, PairType
  <2>14. keyInSrc' = [keyInSrc EXCEPT ![RegOf(Head(pipe))] = key[Head(pipe).conn]]
    BY <1>3 DEF HandleRegisterSinkWait
  <2>15. (keyInSrc \in [Regs -> AnyKey])'
    BY <2>14, <2>1, <2>2, <2>3, <2>4, <2>5 DEF TypeInv, TypeOK, SinkType
  <2>16. sinkWork' = sinkWork \/ sinkWork' = [sinkWork EXCEPT ![RegOf(Head(pipe))] = "run"]
    BY <1>3 DEF HandleRegisterSinkWait
  <2>17. (sinkWork \in [Regs -> {"off", "run", "quit"}])'
    BY <2>16, <2>1, <2>2, <2>3, <2>4, <2>5 DEF TypeInv, TypeOK, SinkType
  <2>18. panicked' = panicked \/ panicked' = "has waited"
    BY <1>3 DEF HandleRegisterSinkWait
  <2>19. (panicked \in {"none", "nil putMsg", "source not registerd", "has waited",
                    "repeater register"})'
    BY <2>18, <2>1, <2>2, <2>3, <2>4, <2>5 DEF TypeInv, TypeOK, PairType
  <2>20. UNCHANGED cmds
    BY <1>3 DEF HandleRegisterSinkWait
  <2>21. ConnShape'
    BY <2>10, <2>20 DEF TypeInv, TypeOK, ConnType, Shape, ConnShape
  <2> QED
    BY <1>3, <2>7, <2>9, <2>11, <2>13, <2>15, <2>17, <2>19, <2>21, GoodTypes
    DEF TypeInv, TypeOK, ConnType, PairType, SourceType, SinkType, Shape, HandleRegisterSinkWait
<1>4. CASE HandleRegisterSink(Head(pipe))
  <2>1. pipe # <<>> /\ pipe' = Tail(pipe)
    BY <1>4 DEF HandleRegisterSink, Take
  <2>2. Head(pipe) \in PadMessage /\ Tail(pipe) \in Seq(PadMessage)
    BY <1>4, <2>1, HeadTailProperties DEF TypeInv, TypeOK, PairType
  <2>3. Head(pipe).conn \in Conns
    BY <1>4, <2>2, MessageType DEF HandleRegisterSink, Take
  <2>4. key[Head(pipe).conn] \in AnyKey
    BY <1>4, <2>3 DEF TypeInv, TypeOK, ConnType
  <2>5. receivers[key[Head(pipe).conn]] # NoReg => receivers[key[Head(pipe).conn]] \in Regs
    BY <1>4, <2>4 DEF TypeInv, TypeOK, PairType
  <2>6. pipe' = Tail(pipe)
    BY <1>4 DEF HandleRegisterSink, Take
  <2>7. (pipe \in Seq(PadMessage))'
    BY <2>6, <2>1, <2>2, <2>3, <2>4, <2>5 DEF TypeInv, TypeOK, PairType
  <2>8. role' = role \/ role' = [role EXCEPT ![Head(pipe).conn] = "sink"]
    BY <1>4 DEF HandleRegisterSink, SinkResult
  <2>9. (role \in [Conns -> {"none", "source", "sink"}])'
    BY <2>8, <2>1, <2>2, <2>3, <2>4, <2>5 DEF TypeInv, TypeOK, ConnType
  <2>10. pc' = [pc EXCEPT ![Head(pipe).conn] = "loop"]
    BY <1>4 DEF HandleRegisterSink, SinkResult
  <2>11. (pc \in [Conns -> {"loop", "register", "await", "stop", "cancel", "done"}])'
    BY <2>10, <2>1, <2>2, <2>3, <2>4, <2>5 DEF TypeInv, TypeOK, ConnType
  <2>12. pair' = pair \/ pair' \in GoodPair
    BY <1>4, <2>2, <2>5, BeginPair DEF HandleRegisterSink
  <2>13. (pair \in GoodPair)'
    BY <2>12, <2>1, <2>2, <2>3, <2>4, <2>5 DEF TypeInv, Shape
  <2>14. UNCHANGED cmds
    BY <1>4 DEF HandleRegisterSink
  <2>15. ConnShape'
    BY <2>10, <2>14 DEF TypeInv, TypeOK, ConnType, Shape, ConnShape
  <2> QED
    BY <1>4, <2>7, <2>9, <2>11, <2>13, <2>15, GoodTypes
    DEF TypeInv, TypeOK, ConnType, PairType, SourceType, SinkType, Shape, HandleRegisterSink
<1>5. CASE HandleUnregisterSink(Head(pipe))
  <2>1. pipe # <<>> /\ pipe' = Tail(pipe)
    BY <1>5 DEF HandleUnregisterSink, Take
  <2>2. Head(pipe) \in PadMessage /\ Tail(pipe) \in Seq(PadMessage)
    BY <1>5, <2>1, HeadTailProperties DEF TypeInv, TypeOK, PairType
  <2>3. Head(pipe).conn \in Conns
    BY <1>5, <2>2, MessageType DEF HandleUnregisterSink, Take
  <2>4. key[Head(pipe).conn] \in AnyKey
    BY <1>5, <2>3 DEF TypeInv, TypeOK, ConnType
  <2>5. receivers[key[Head(pipe).conn]] # NoReg => receivers[key[Head(pipe).conn]] \in Regs
    BY <1>5, <2>4 DEF TypeInv, TypeOK, PairType
  <2>6. pipe' = Tail(pipe)
    BY <1>5 DEF HandleUnregisterSink, Take
  <2>7. (pipe \in Seq(PadMessage))'
    BY <2>6, <2>1, <2>2, <2>3, <2>4, <2>5 DEF TypeInv, TypeOK, PairType
  <2>8. \/ waiting' = waiting
        \/ waiting' = [waiting EXCEPT ![key[Head(pipe).conn]] =
                         {w \in @ : ConnOf(w) # Head(pipe).conn}]
    BY <1>5 DEF HandleUnregisterSink
  <2>9. (waiting \in [AnyKey -> SUBSET Regs])'
    BY <2>8, <2>1, <2>2, <2>3, <2>4, <2>5 DEF TypeInv, TypeOK, PairType
  <2>10. pair' = pair \/ pair' \in GoodPair
    BY <1>5, <2>2, <2>5, BeginPair DEF HandleUnregisterSink
  <2>11. (pair \in GoodPair)'
    BY <2>10, <2>1, <2>2, <2>3, <2>4, <2>5 DEF TypeInv, Shape
  <2> QED
    BY <1>5, <2>7, <2>9, <2>11, GoodTypes
    DEF TypeInv, TypeOK, ConnType, PairType, SourceType, SinkType, Shape, ConnShape, HandleUnregisterSink
<1>6. CASE NotifyWaitSenders
  <2>1. \A k \in AnyKey : {RegSinkMsg(s) : s \in WaitersOf(k)} \subseteq PadMessage
    BY <1>6, RegSinkMsgType DEF TypeInv, TypeOK, PairType, WaitersOf
  <2>2. pair \in GoodPair /\ pair.at # "recv" /\ pair.src \in Regs
    BY <1>6 DEF TypeInv, Shape, GoodPair, NotifyWaitSenders
  <2>3. key[ConnOf(pair.src)] \in AnyKey
    BY <1>6, <2>2, ConnOfType DEF TypeInv, TypeOK, ConnType
  <2>4. pair' \in GoodPair
    BY <1>6, <2>1, <2>2, <2>3, ReceivingPair, LoopPair DEF NotifyWaitSenders
  <2>5. (pair \in GoodPair)'
    BY <2>4, <2>1, <2>2, <2>3 DEF TypeInv, Shape
  <2> QED
    BY <1>6, <2>5, GoodTypes
    DEF TypeInv, TypeOK, ConnType, PairType, SourceType, SinkType, Shape, ConnShape, NotifyWaitSenders
<1>7. ASSUME NEW m \in pair.todo, NotifyOne(m)
     PROVE  TypeInv'
  <2>1. m \in PadMessage
    BY <1>7 DEF TypeInv, TypeOK, PairType, PairStates
  <2>2. \A r \in Regs : Append(srcChan[r], m) \in Seq(PadMessage)
    BY <1>7, <2>1, AppendType DEF TypeInv, TypeOK, SourceType
  <2>3. pair \in GoodPair /\ pair.at # "recv" /\ pair.todo \ {m} \in SUBSET PadMessage
    BY <1>7 DEF TypeInv, Shape, GoodPair, PairStates, NotifyOne
  <2>4. [pair EXCEPT !.todo = @ \ {m}] \in GoodPair
    BY <1>7, <2>3, LoopPair DEF GoodPair, PairStates
  <2>5. srcChan' = [srcChan EXCEPT ![pair.src] = Append(@, m)]
    BY <1>7 DEF NotifyOne
  <2>6. (srcChan \in [Regs -> Seq(PadMessage)])'
    BY <2>5, <2>1, <2>2, <2>3, <2>4 DEF TypeInv, TypeOK, SourceType
  <2>7. waiting' = waiting \/ waiting' = [waiting EXCEPT ![pair.key] = {}]
    BY <1>7 DEF NotifyOne, DropWaiters
  <2>8. (waiting \in [AnyKey -> SUBSET Regs])'
    BY <2>7, <2>1, <2>2, <2>3, <2>4 DEF TypeInv, TypeOK, PairType
  <2>9. pair' = Receiving \/ pair' = [pair EXCEPT !.todo = @ \ {m}]
    BY <1>7 DEF NotifyOne
  <2>10. (pair \in GoodPair)'
    BY <2>9, <2>1, <2>2, <2>3, <2>4, ReceivingPair DEF TypeInv, Shape
  <2> QED
    BY <1>7, <2>6, <2>8, <2>10, GoodTypes
    DEF TypeInv, TypeOK, ConnType, PairType, SourceType, SinkType, Shape, ConnShape, NotifyOne
<1>8. ASSUME NEW m \in pair.todo, Forward(m)
     PROVE  TypeInv'
  <2>1. m \in PadMessage
    BY <1>8 DEF TypeInv, TypeOK, PairType, PairStates
  <2>2. \A r \in Regs : Append(srcChan[r], m) \in Seq(PadMessage)
    BY <1>8, <2>1, AppendType DEF TypeInv, TypeOK, SourceType
  <2>3. srcChan' = [srcChan EXCEPT ![pair.src] = Append(@, m)]
    BY <1>8 DEF Forward
  <2>4. (srcChan \in [Regs -> Seq(PadMessage)])'
    BY <2>3, <2>1, <2>2 DEF TypeInv, TypeOK, SourceType
  <2>5. sinkWork' = sinkWork \/ sinkWork' = [sinkWork EXCEPT ![RegOf(m)] = "run"]
    BY <1>8 DEF Forward
  <2>6. (sinkWork \in [Regs -> {"off", "run", "quit"}])'
    BY <2>5, <2>1, <2>2 DEF TypeInv, TypeOK, SinkType
  <2>7. pair' = Receiving
    BY <1>8 DEF Forward
  <2>8. (pair \in GoodPair)'
    BY <2>7, <2>1, <2>2, ReceivingPair DEF TypeInv, Shape
  <2> QED
    BY <1>8, <2>4, <2>6, <2>8, GoodTypes
    DEF TypeInv, TypeOK, ConnType, PairType, SourceType, SinkType, Shape, ConnShape, Forward
<1> QED
  BY <1>1, <1>2, <1>3, <1>4, <1>5, <1>6, <1>7, <1>8 DEF PairPad, Handle

\* The steps of Source.work.
LEMMA SourceWorkType ==
  ASSUME TypeInv, NEW r \in Regs, SourceWork(r)
  PROVE  TypeInv'
<1>1. CASE ConnectSink(r, Head(srcChan[r]))
  <2>1. srcChan[r] # <<>> /\ srcChan' = [srcChan EXCEPT ![r] = Tail(@)]
    BY <1>1 DEF ConnectSink, Receive
  <2>2. Head(srcChan[r]) \in PadMessage /\ Tail(srcChan[r]) \in Seq(PadMessage)
    BY <1>1, <2>1, HeadTailProperties DEF TypeInv, TypeOK, SourceType
  <2>3. RegOf(Head(srcChan[r])) \in Regs /\ Head(srcChan[r]).conn \in Conns
    BY <1>1, <2>2, MessageType DEF ConnectSink, Receive
  <2>4. \A s \in Regs : msgChan[s] \o Cached(r) \in Seq(ExData)
    BY <1>1, CachedType, ConcatProperties DEF TypeInv, TypeOK, SinkType
  <2>5. sinks[r] \cup {RegOf(Head(srcChan[r]))} \in SUBSET Regs
    BY <1>1, <2>3 DEF TypeInv, TypeOK, SourceType
  <2>6. srcChan' = [srcChan EXCEPT ![r] = Tail(@)]
    BY <1>1 DEF ConnectSink, Receive
  <2>7. (srcChan \in [Regs -> Seq(PadMessage)])'
    BY <2>6, <2>1, <2>2, <2>3, <2>4, <2>5 DEF TypeInv, TypeOK, SourceType
  <2>8. keyInSrc' = [keyInSrc EXCEPT ![RegOf(Head(srcChan[r]))] = key[Head(srcChan[r]).conn]]
    BY <1>1 DEF ConnectSink
  <2>9. (keyInSrc \in [Regs -> AnyKey])'
    BY <2>8, <2>1, <2>2, <2>3, <2>4, <2>5 DEF TypeInv, TypeOK, SinkType, ConnType
  <2>10. sinks' = sinks \/ sinks' = [sinks EXCEPT ![r] = @ \cup {RegOf(Head(srcChan[r]))}]
    BY <1>1 DEF ConnectSink
  <2>11. (sinks \in [Regs -> SUBSET Regs])'
    BY <2>10, <2>1, <2>2, <2>3, <2>4, <2>5 DEF TypeInv, TypeOK, SourceType
  <2>12. \/ msgChan' = msgChan
        \/ msgChan' = [msgChan EXCEPT ![RegOf(Head(srcChan[r]))] = @ \o Cached(r)]
    BY <1>1 DEF ConnectSink
  <2>13. (msgChan \in [Regs -> Seq(ExData)])'
    BY <2>12, <2>1, <2>2, <2>3, <2>4, <2>5 DEF TypeInv, TypeOK, SinkType
  <2>14. panicked' = panicked \/ panicked' = "repeater register"
    BY <1>1 DEF ConnectSink
  <2>15. (panicked \in {"none", "nil putMsg", "source not registerd", "has waited",
                    "repeater register"})'
    BY <2>14, <2>1, <2>2, <2>3, <2>4, <2>5 DEF TypeInv, TypeOK, PairType
  <2> QED
    BY <1>1, <2>7, <2>9, <2>11, <2>13, <2>15, GoodTypes
    DEF TypeInv, TypeOK, ConnType, PairType, SourceType, SinkType, Shape, ConnShape, ConnectSink
<1>2. CASE HandleRtmpMessage(r, Head(srcChan[r]))
  <2>1. srcChan[r] # <<>> /\ srcChan' = [srcChan EXCEPT ![r] = Tail(@)]
    BY <1>2 DEF HandleRtmpMessage, Receive
  <2>2. Head(srcChan[r]) \in PadMessage /\ Tail(srcChan[r]) \in Seq(PadMessage)
    BY <1>2, <2>1, HeadTailProperties DEF TypeInv, TypeOK, SourceType
  <2>3. Head(srcChan[r]).n \in 1 .. MaxPuts /\ 1 .. MaxPuts \subseteq 0 .. MaxPuts
    BY <1>2, <2>2, MessageType, BoundAssumption DEF HandleRtmpMessage, Receive
  <2>4. [at |-> "write", n |-> Head(srcChan[r]).n, todo |-> sinks[r], victim |-> NoReg]
          \in GoodWork
    BY <1>2, <2>3, WriteWork DEF TypeInv, TypeOK, SourceType
  <2>5. srcChan' = [srcChan EXCEPT ![r] = Tail(@)]
    BY <1>2 DEF HandleRtmpMessage, Receive
  <2>6. (srcChan \in [Regs -> Seq(PadMessage)])'
    BY <2>5, <2>1, <2>2, <2>3, <2>4 DEF TypeInv, TypeOK, SourceType
  <2>7. vcfg' = vcfg \/ vcfg' = [vcfg EXCEPT ![r] = Head(srcChan[r]).n]
    BY <1>2 DEF HandleRtmpMessage
  <2>8. (vcfg \in [Regs -> 0 .. MaxPuts])'
    BY <2>7, <2>1, <2>2, <2>3, <2>4 DEF TypeInv, TypeOK, SourceType
  <2>9. acfg' = acfg \/ acfg' = [acfg EXCEPT ![r] = Head(srcChan[r]).n]
    BY <1>2 DEF HandleRtmpMessage
  <2>10. (acfg \in [Regs -> 0 .. MaxPuts])'
    BY <2>9, <2>1, <2>2, <2>3, <2>4 DEF TypeInv, TypeOK, SourceType
  <2>11. srcErr' = srcErr \/ srcErr' = [srcErr EXCEPT ![r] = TRUE]
    BY <1>2 DEF HandleRtmpMessage
  <2>12. (srcErr \in [Regs -> BOOLEAN])'
    BY <2>11, <2>1, <2>2, <2>3, <2>4 DEF TypeInv, TypeOK, SourceType
  <2>13. done' = [done EXCEPT ![r] = Head(srcChan[r]).n]
    BY <1>2 DEF HandleRtmpMessage
  <2>14. (done \in [Regs -> 0 .. MaxPuts])'
    BY <2>13, <2>1, <2>2, <2>3, <2>4 DEF TypeInv, TypeOK, SourceType
  <2>15. work' = work \/ \E w \in GoodWork : work' = [work EXCEPT ![r] = w]
    BY <1>2, <2>4 DEF HandleRtmpMessage, Targets
  <2>16. (work \in [Regs -> GoodWork])'
    BY <2>15, <2>1, <2>2, <2>3, <2>4 DEF TypeInv, Shape
  <2> QED
    BY <1>2, <2>6, <2>8, <2>10, <2>12, <2>14, <2>16, GoodTypes
    DEF TypeInv, TypeOK, ConnType, PairType, SourceType, SinkType, Shape, ConnShape, HandleRtmpMessage
<1>3. CASE DeleteSink(r, Head(srcChan[r]))
  <2>1. srcChan[r] # <<>> /\ srcChan' = [srcChan EXCEPT ![r] = Tail(@)]
    BY <1>3 DEF DeleteSink, Receive
  <2>2. Head(srcChan[r]) \in PadMessage /\ Tail(srcChan[r]) \in Seq(PadMessage)
    BY <1>3, <2>1, HeadTailProperties DEF TypeInv, TypeOK, SourceType
  <2>3. sinks[r] \subseteq Regs
    BY <1>3 DEF TypeInv, TypeOK, SourceType
  <2>4. work[r] \in GoodWork /\ work[r].todo = {}
    BY <1>3 DEF TypeInv, Shape, GoodWork, DeleteSink, Receive
  <2>5. srcChan' = [srcChan EXCEPT ![r] = Tail(@)]
    BY <1>3 DEF DeleteSink, Receive
  <2>6. (srcChan \in [Regs -> Seq(PadMessage)])'
    BY <2>5, <2>1, <2>2, <2>3, <2>4 DEF TypeInv, TypeOK, SourceType
  <2>7. \E F : sinks' = [sinks EXCEPT ![r] = @ \ F]
    BY <1>3 DEF DeleteSink
  <2>8. (sinks \in [Regs -> SUBSET Regs])'
    BY <2>7, <2>1, <2>2, <2>3, <2>4 DEF TypeInv, TypeOK, SourceType
  <2>9. work' = work \/ \E w \in GoodWork : work' = [work EXCEPT ![r] = w]
    BY <1>3, <2>3, <2>4, EvictWork DEF DeleteSink
  <2>10. (work \in [Regs -> GoodWork])'
    BY <2>9, <2>1, <2>2, <2>3, <2>4 DEF TypeInv, Shape
  <2> QED
    BY <1>3, <2>6, <2>8, <2>10, GoodTypes
    DEF TypeInv, TypeOK, ConnType, PairType, SourceType, SinkType, Shape, ConnShape, DeleteSink
<1>4. ASSUME NEW s \in work[r].todo, WriteData(r, s)
     PROVE  TypeInv'
  <2>1. work[r] \in GoodWork /\ work[r].at = "write"
    BY <1>4 DEF TypeInv, Shape, WriteData
  <2>2. work[r].n \in 1 .. MaxPuts /\ work[r].todo \subseteq Regs /\ s \in Regs
    BY <1>4, <2>1, BoundAssumption DEF GoodWork, WorkStates
  <2>3. [src |-> r, n |-> work[r].n, cached |-> FALSE] \in ExData
    BY <1>4, <2>2 DEF ExData
  <2>4. Append(msgChan[s], [src |-> r, n |-> work[r].n, cached |-> FALSE]) \in Seq(ExData)
    BY <1>4, <2>2, <2>3, AppendType DEF TypeInv, TypeOK, SinkType
  <2>5. Resume(r, work[r].todo \ {s}) \in GoodWork
    BY <1>4, <2>1, <2>2, ResumeWork
  <2>6. OnFull(r, s) \in GoodWork
    BY <1>4, <2>1, <2>2, EvictWork DEF OnFull
  <2>7. \/ msgChan' = msgChan
        \/ msgChan' = [msgChan EXCEPT ![s] =
                         Append(@, [src |-> r, n |-> work[r].n, cached |-> FALSE])]
    BY <1>4 DEF WriteData
  <2>8. (msgChan \in [Regs -> Seq(ExData)])'
    BY <2>7, <2>1, <2>2, <2>3, <2>4, <2>5, <2>6, AppendType DEF TypeInv, TypeOK, SinkType
  <2>9. \E w \in GoodWork : work' = [work EXCEPT ![r] = w]
    BY <1>4, <2>5, <2>6 DEF WriteData
  <2>10. (work \in [Regs -> GoodWork])'
    BY <2>9, <2>1, <2>2, <2>3, <2>4, <2>5, <2>6 DEF TypeInv, Shape
  <2> QED
    BY <1>4, <2>8, <2>10, GoodTypes
    DEF TypeInv, TypeOK, ConnType, PairType, SourceType, SinkType, Shape, ConnShape, WriteData
<1>5. ASSUME NEW s \in work[r].todo, CancelSink(r, s)
     PROVE  TypeInv'
  <2>1. work[r] \in GoodWork /\ work[r].todo \subseteq Regs /\ s \in Regs
    BY <1>5 DEF TypeInv, Shape, GoodWork, WorkStates
  <2>2. \A a \in {"quit", "cancelSinks"} :
          [work[r] EXCEPT !.at = a, !.todo = work[r].todo \ {s}] \in GoodWork
    BY <1>5, <2>1, CancelWork
  <2>3. work[r].at = "cancelSinks"
    BY <1>5 DEF CancelSink
  <2>4. \E c \in Conns : cancelled' = [cancelled EXCEPT ![c] = TRUE]
    BY <1>5, ConnOfType, <2>1 DEF CancelSink, Cancel
  <2>5. (cancelled \in [Conns -> BOOLEAN])'
    BY <2>4, <2>1, <2>2, <2>3 DEF TypeInv, TypeOK, ConnType
  <2>6. \/ pipe' = pipe
        \/ \E m \in PadMessage : pipe' = Append(pipe, m)
    BY <1>5, <2>1, ConnOfType, UnregisterMsgType DEF CancelSink, Cancel
  <2>7. (pipe \in Seq(PadMessage))'
    BY <2>6, <2>1, <2>2, <2>3, AppendType DEF TypeInv, TypeOK, PairType
  <2>8. \E w \in GoodWork : work' = [work EXCEPT ![r] = w]
    BY <1>5, <2>2, <2>3 DEF CancelSink
  <2>9. (work \in [Regs -> GoodWork])'
    BY <2>8, <2>1, <2>2, <2>3 DEF TypeInv, Shape
  <2> QED
    BY <1>5, <2>5, <2>7, <2>9, GoodTypes
    DEF TypeInv, TypeOK, ConnType, PairType, SourceType, SinkType, Shape, ConnShape, CancelSink
<1>6. CASE Evict(r)
  <2>1. work[r] \in GoodWork /\ work[r].victim \in Regs /\ work[r].todo \in SUBSET Regs
          /\ (work[r].todo # {} => work[r].n >= 1)
    BY <1>6 DEF TypeInv, Shape, GoodWork, WorkStates, Evict
  <2>2. Resume(r, work[r].todo) \in GoodWork
    BY <1>6, <2>1, ResumeWork
  <2>3. \E c \in Conns : cancelled' = [cancelled EXCEPT ![c] = TRUE]
    BY <1>6, ConnOfType, <2>1 DEF Evict, Cancel
  <2>4. (cancelled \in [Conns -> BOOLEAN])'
    BY <2>3, <2>1, <2>2 DEF TypeInv, TypeOK, ConnType
  <2>5. \/ pipe' = pipe
        \/ \E m \in PadMessage : pipe' = Append(pipe, m)
    BY <1>6, <2>1, ConnOfType, UnregisterMsgType DEF Evict, Cancel
  <2>6. (pipe \in Seq(PadMessage))'
    BY <2>5, <2>1, <2>2, AppendType DEF TypeInv, TypeOK, PairType
  <2>7. \E F : sinks' = [sinks EXCEPT ![r] = @ \ F]
    BY <1>6 DEF Evict
  <2>8. (sinks \in [Regs -> SUBSET Regs])'
    BY <2>7, <2>1, <2>2 DEF TypeInv, TypeOK, SourceType
  <2>9. work' = [work EXCEPT ![r] = Resume(r, work[r].todo)]
    BY <1>6 DEF Evict
  <2>10. (work \in [Regs -> GoodWork])'
    BY <2>9, <2>1, <2>2 DEF TypeInv, Shape
  <2> QED
    BY <1>6, <2>4, <2>6, <2>8, <2>10, GoodTypes
    DEF TypeInv, TypeOK, ConnType, PairType, SourceType, SinkType, Shape, ConnShape, Evict
<1>7. CASE SourceDone(r)
  <2>1. \A a \in {"quit", "cancelSinks"} :
          [work[r] EXCEPT !.at = a, !.todo = sinks[r]] \in GoodWork
    BY <1>7, CancelWork DEF TypeInv, TypeOK, SourceType, Shape
  <2>2. \E w \in GoodWork : work' = [work EXCEPT ![r] = w]
    BY <1>7, <2>1 DEF SourceDone
  <2>3. (work \in [Regs -> GoodWork])'
    BY <2>2, <2>1 DEF TypeInv, Shape
  <2> QED
    BY <1>7, <2>3, GoodTypes
    DEF TypeInv, TypeOK, ConnType, PairType, SourceType, SinkType, Shape, ConnShape, SourceDone
<1> QED
  BY <1>1, <1>2, <1>3, <1>4, <1>5, <1>6, <1>7 DEF SourceWork

\* The steps of Sink.work.
LEMMA SinkRunType ==
  ASSUME TypeInv, NEW s \in Regs, SinkRun(s)
  PROVE  TypeInv'
<1>1. CASE SinkDeliver(s)
  <2>1. msgChan[s] # <<>>
    BY <1>1 DEF SinkDeliver
  <2>2. Head(msgChan[s]) \in ExData /\ Tail(msgChan[s]) \in Seq(ExData)
    BY <1>1, <2>1, HeadTailProperties DEF TypeInv, TypeOK, SinkType
  <2>3. msgChan' = [msgChan EXCEPT ![s] = Tail(@)]
    BY <1>1 DEF SinkDeliver
  <2>4. (msgChan \in [Regs -> Seq(ExData)])'
    BY <2>3, <2>1, <2>2 DEF TypeInv, TypeOK, SinkType
  <2>5. delivered' = [delivered EXCEPT ![s] = Append(@, Head(msgChan[s]))]
    BY <1>1 DEF SinkDeliver
  <2>6. (delivered \in [Regs -> Seq(ExData)])'
    BY <2>5, <2>1, <2>2 DEF TypeInv, TypeOK, SinkType
  <2> QED
    BY <1>1, <2>4, <2>6, GoodTypes
    DEF TypeInv, TypeOK, ConnType, PairType, SourceType, SinkType, Shape, ConnShape, SinkDeliver
<1>2. CASE SinkDone(s)
  <2>1. sinkWork' = [sinkWork EXCEPT ![s] = "quit"]
    BY <1>2 DEF SinkDone
  <2>2. (sinkWork \in [Regs -> {"off", "run", "quit"}])'
    BY <2>1 DEF TypeInv, TypeOK, SinkType
  <2> QED
    BY <1>2, <2>2, GoodTypes
    DEF TypeInv, TypeOK, ConnType, PairType, SourceType, SinkType, Shape, ConnShape, SinkDone
<1> QED
  BY <1>1, <1>2 DEF SinkRun

\* The strengthened types are inductive.
LEMMA TypeStep == TypeInv /\ [Next]_vars => TypeInv'
<1> SUFFICES ASSUME TypeInv, [Next]_vars PROVE TypeInv'
  OBVIOUS
<1>1. CASE UNCHANGED vars
  BY <1>1 DEF vars, TypeInv, TypeOK, ConnType, PairType, SourceType, SinkType, Shape, ConnShape
<1>2. CASE Next
  BY <1>2, ClientType, HandlerType, PairPadType, SourceWorkType, SinkRunType DEF Next
<1> QED
  BY <1>1, <1>2

\* Every reachable state has the types of the Go program's values.
THEOREM TypeCorrect == Spec => []TypeOK
<1>1. TypeInv => TypeOK
  BY DEF TypeInv
<1> QED
  BY InitType, TypeStep, <1>1, PTL DEF Spec

(***************************************************************************)
(* No sink is left waiting for a key that has a source, when a connection  *)
(* gives one stream command.  While pairPad tells the waiting sinks of a   *)
(* new source the two do coexist, so the invariant says which key pairPad  *)
(* is busy with; notifyWaitSenders reads that key from the handler again,  *)
(* so the handler must have no command left with which to change it.       *)
(***************************************************************************)
Busy(k) ==
    \/ pair.at = "notify" /\ key[ConnOf(pair.src)] = k
    \/ pair.at = "loop" /\ pair.key = k
WaitingApart == \A k \in AnyKey : waiting[k] = {} \/ receivers[k] = NoReg \/ Busy(k)
NotifyKeyFixed == pair.at = "notify" => cmds[ConnOf(pair.src)] = MaxCmds
WaitInv == WaitingApart /\ NotifyKeyFixed

\* Steps that leave pairPad's state, its maps, the keys and the commands alone.
LEMMA WaitFrame ==
  ASSUME WaitInv, UNCHANGED <<key, cmds, receivers, waiting, pair>>
  PROVE  WaitInv'
  BY DEF WaitInv, WaitingApart, Busy, NotifyKeyFixed

\* A handler stores a key only while it has a command left, so never while
\* pairPad is about to read it.
LEMMA WaitCommand ==
  ASSUME TypeInv, WaitInv, NEW c \in Conns, NEW k \in AnyKey, cmds[c] < MaxCmds,
         key' = [key EXCEPT ![c] = k], cmds' = [cmds EXCEPT ![c] = @ + 1],
         UNCHANGED <<receivers, waiting, pair>>
  PROVE  WaitInv'
<1>1. pair.at = "notify" => ConnOf(pair.src) \in Conns
  BY ConnOfType DEF TypeInv, Shape, GoodPair
<1>2. cmds[c] # MaxCmds
  BY BoundAssumption DEF TypeInv, TypeOK, ConnType
<1>3. pair.at = "notify" => ConnOf(pair.src) # c
  BY <1>2 DEF WaitInv, NotifyKeyFixed
<1>4. pair.at = "notify" => /\ key'[ConnOf(pair.src)] = key[ConnOf(pair.src)]
                            /\ cmds'[ConnOf(pair.src)] = cmds[ConnOf(pair.src)]
  BY <1>1, <1>3 DEF TypeInv, TypeOK, ConnType
<1>5. \A j \in AnyKey : Busy(j) => Busy(j)'
  BY <1>4 DEF Busy
<1> QED
  BY <1>4, <1>5 DEF WaitInv, WaitingApart, NotifyKeyFixed

\* The steps of pairPad.
LEMMA WaitPairPad ==
  ASSUME MaxCmds = 1, TypeInv, WaitInv, PairPad
  PROVE  WaitInv'
<1>1. CASE pipe # <<>> /\ HandleRegisterSource(Head(pipe))
  <2>1. PICK m \in PadMessage : m = Head(pipe)
    BY <1>1, HeadTailProperties DEF TypeInv, TypeOK, PairType
  <2>2. m.conn \in Conns /\ ConnOf(RegOf(m)) = m.conn
    BY MessageType DEF RegOf, ConnOf
  <2>0. PICK k \in AnyKey : k = key[m.conn]
    BY <2>2 DEF TypeInv, TypeOK, ConnType
  <2>3. pair = Receiving /\ pc[m.conn] = "await" /\ UNCHANGED <<key, cmds, waiting>>
    BY <1>1, <2>1 DEF HandleRegisterSource, Take
  <2>4. cmds[m.conn] = MaxCmds
    BY <2>2, <2>3, BoundAssumption DEF TypeInv, TypeOK, ConnType, Shape, ConnShape
  <2>5. \A j \in AnyKey : waiting[j] = {} \/ receivers[j] = NoReg
    BY <2>3 DEF WaitInv, WaitingApart, Busy, Receiving
  <2>6. CASE receivers[k] = NoReg
    <3>1. /\ receivers' = [receivers EXCEPT ![k] = RegOf(m)]
          /\ pair' = [Receiving EXCEPT !.at = "notify", !.src = RegOf(m)]
      BY <1>1, <2>0, <2>1, <2>6 DEF HandleRegisterSource
    <3>2. pair'.at = "notify" /\ pair'.src = RegOf(m)
      BY <3>1 DEF Receiving
    <3>3. \A j \in AnyKey : receivers'[j] = NoReg \/ waiting[j] = {} \/ j = k
      BY <2>5, <3>1 DEF TypeInv, TypeOK, PairType
    <3>4. Busy(k)'
      BY <2>0, <2>2, <2>3, <3>2 DEF Busy
    <3> QED
      BY <2>2, <2>3, <2>4, <3>2, <3>3, <3>4 DEF WaitInv, WaitingApart, NotifyKeyFixed
  <2>7. CASE receivers[k] # NoReg
    <3>1. UNCHANGED <<key, cmds, receivers, waiting, pair>>
      BY <1>1, <2>0, <2>1, <2>7 DEF HandleRegisterSource
    <3> QED
      BY <3>1, WaitFrame
  <2> QED
    BY <2>6, <2>7
<1>2. CASE pipe # <<>> /\ HandleUnregisterSource(Head(pipe))
  <2>1. UNCHANGED <<key, cmds, waiting, pair>>
    BY <1>2 DEF HandleUnregisterSource, Take
  <2>2. \/ receivers' = receivers
        \/ receivers' = [receivers EXCEPT ![key[Head(pipe).conn]] = NoReg]
    BY <1>2 DEF HandleUnregisterSource
  <2>3. \A j \in AnyKey : receivers'[j] = NoReg \/ receivers'[j] = receivers[j]
    BY <2>2 DEF TypeInv, TypeOK, PairType
  <2> QED
    BY <2>1, <2>3 DEF WaitInv, WaitingApart, Busy, NotifyKeyFixed
<1>3. CASE pipe # <<>> /\ HandleRegisterSinkWait(Head(pipe))
  <2>1. UNCHANGED <<key, cmds, receivers, pair>> /\ receivers[key[Head(pipe).conn]] = NoReg
    BY <1>3 DEF HandleRegisterSinkWait, Take
  <2>2. \/ waiting' = waiting
        \/ waiting' = [waiting EXCEPT ![key[Head(pipe).conn]] = @ \cup {RegOf(Head(pipe))}]
    BY <1>3 DEF HandleRegisterSinkWait
  <2>3. \A j \in AnyKey : waiting'[j] = waiting[j] \/ receivers[j] = NoReg
    BY <2>1, <2>2 DEF TypeInv, TypeOK, PairType
  <2> QED
    BY <2>1, <2>3 DEF WaitInv, WaitingApart, Busy, NotifyKeyFixed
<1>4. CASE pipe # <<>> /\ HandleRegisterSink(Head(pipe))
  <2>1. UNCHANGED <<key, cmds, receivers, waiting>> /\ pair = Receiving /\ pair'.at = "forward"
    BY <1>4 DEF HandleRegisterSink, Take, Receiving
  <2> QED
    BY <2>1 DEF WaitInv, WaitingApart, Busy, NotifyKeyFixed, Receiving
<1>5. CASE pipe # <<>> /\ HandleUnregisterSink(Head(pipe))
  <2>1. UNCHANGED <<key, cmds, receivers>> /\ pair = Receiving
    BY <1>5 DEF HandleUnregisterSink, Take
  <2>2. pair' = pair \/ pair'.at = "forward"
    BY <1>5 DEF HandleUnregisterSink, Receiving
  <2>3. \/ waiting' = waiting
        \/ waiting' = [waiting EXCEPT ![key[Head(pipe).conn]] =
                         {w \in @ : ConnOf(w) # Head(pipe).conn}]
    BY <1>5 DEF HandleUnregisterSink
  <2>4. \A j \in AnyKey : waiting[j] = {} => waiting'[j] = {}
    BY <2>3 DEF TypeInv, TypeOK, PairType
  <2>5. \A j \in AnyKey : waiting[j] = {} \/ receivers[j] = NoReg
    BY <2>1 DEF WaitInv, WaitingApart, Busy, Receiving
  <2> QED
    BY <2>1, <2>2, <2>4, <2>5 DEF WaitInv, WaitingApart, NotifyKeyFixed, Receiving
<1>6. CASE NotifyWaitSenders
  <2>1. UNCHANGED <<key, cmds, receivers, waiting>> /\ pair.at = "notify"
    BY <1>6 DEF NotifyWaitSenders
  <2>0. PICK k \in AnyKey : k = key[ConnOf(pair.src)]
    BY <2>1, ConnOfType DEF TypeInv, TypeOK, ConnType, Shape, GoodPair
  <2>2. \A j \in AnyKey : waiting[j] = {} \/ receivers[j] = NoReg \/ j = k
    BY <2>0, <2>1 DEF WaitInv, WaitingApart, Busy
  <2>3. \/ waiting[k] = {} /\ pair' = Receiving
        \/ \E T : pair' = [pair EXCEPT !.at = "loop", !.key = k, !.todo = T]
    BY <1>6, <2>0 DEF NotifyWaitSenders, WaitersOf
  <2>4. \/ waiting[k] = {} /\ pair'.at = "recv"
        \/ pair'.at = "loop" /\ pair'.key = k
    <3>1. pair \in PairStates
      BY DEF TypeInv, TypeOK, PairType
    <3>2. ASSUME NEW T, pair' = [pair EXCEPT !.at = "loop", !.key = k, !.todo = T]
          PROVE  pair'.at = "loop" /\ pair'.key = k
      BY <3>1, <3>2 DEF PairStates
    <3>3. pair' = Receiving => pair'.at = "recv"
      BY DEF Receiving
    <3> QED
      BY <2>3, <3>2, <3>3
  <2> QED
    BY <2>1, <2>2, <2>4 DEF WaitInv, WaitingApart, Busy, NotifyKeyFixed
<1>7. ASSUME NEW m \in pair.todo, NotifyOne(m)
      PROVE  WaitInv'
  <2>1. UNCHANGED <<key, cmds, receivers>> /\ pair.at = "loop"
    BY <1>7 DEF NotifyOne
  <2>2. \A j \in AnyKey : waiting[j] = {} \/ receivers[j] = NoReg \/ j = pair.key
    BY <2>1 DEF WaitInv, WaitingApart, Busy
  <2>3. \/ waiting' = [waiting EXCEPT ![pair.key] = {}] /\ pair' = Receiving
        \/ waiting' = waiting /\ pair' = [pair EXCEPT !.todo = @ \ {m}]
    BY <1>7 DEF NotifyOne, DropWaiters
  <2>4. CASE waiting' = [waiting EXCEPT ![pair.key] = {}] /\ pair' = Receiving
    <3>1. \A j \in AnyKey : waiting'[j] = {} \/ receivers[j] = NoReg
      BY <2>2, <2>4 DEF TypeInv, TypeOK, PairType
    <3> QED
      BY <2>1, <2>4, <3>1 DEF WaitInv, WaitingApart, NotifyKeyFixed, Receiving
  <2>5. CASE waiting' = waiting /\ pair' = [pair EXCEPT !.todo = @ \ {m}]
    <3>1. pair'.at = "loop" /\ pair'.key = pair.key
      BY <2>1, <2>5 DEF TypeInv, TypeOK, PairType, PairStates
    <3> QED
      BY <2>1, <2>2, <2>5, <3>1 DEF WaitInv, WaitingApart, Busy, NotifyKeyFixed
  <2> QED
    BY <2>3, <2>4, <2>5
<1>8. ASSUME NEW m \in pair.todo, Forward(m)
      PROVE  WaitInv'
  <2>1. UNCHANGED <<key, cmds, receivers, waiting>> /\ pair.at = "forward" /\ pair' = Receiving
    BY <1>8 DEF Forward
  <2> QED
    BY <2>1 DEF WaitInv, WaitingApart, Busy, NotifyKeyFixed, Receiving
<1> QED
  BY <1>1, <1>2, <1>3, <1>4, <1>5, <1>6, <1>7, <1>8 DEF PairPad, Handle

\* All the other steps.
LEMMA WaitNext ==
  ASSUME MaxCmds = 1, TypeInv, WaitInv, Next
  PROVE  WaitInv'
<1>1. ASSUME NEW c \in Conns, Client(c)
      PROVE  WaitInv'
  <2>1. ASSUME NEW k \in AnyKey, NEW what \in {"source", "sink"}, StreamCommand(c, k, what)
        PROVE  WaitInv'
    BY <2>1, WaitCommand DEF StreamCommand
  <2>2. ASSUME NEW k \in AnyKey, CommandFails(c, k)
        PROVE  WaitInv'
    BY <2>2, WaitCommand DEF CommandFails
  <2>3. ASSUME NEW kd \in Kinds, Put(c, kd)
        PROVE  WaitInv'
    BY <2>3, WaitFrame DEF Put
  <2>4. CASE PutRefused(c) \/ PutWithoutSource(c) \/ Disconnect(c)
    BY <2>4, WaitFrame DEF PutRefused, PutWithoutSource, Disconnect
  <2> QED
    BY <1>1, <2>1, <2>2, <2>3, <2>4 DEF Client
<1>2. ASSUME NEW c \in Conns, Handler(c)
      PROVE  WaitInv'
  BY <1>2, WaitFrame DEF Handler, Register, Unregister, CancelSelf
<1>3. ASSUME NEW r \in Regs, SourceWork(r)
      PROVE  WaitInv'
  <2>1. UNCHANGED <<key, cmds, receivers, waiting, pair>>
    BY <1>3 DEF SourceWork, ConnectSink, HandleRtmpMessage, DeleteSink, WriteData,
                CancelSink, Evict, SourceDone
  <2> QED
    BY <2>1, WaitFrame
<1>4. ASSUME NEW s \in Regs, SinkRun(s)
      PROVE  WaitInv'
  BY <1>4, WaitFrame DEF SinkRun, SinkDeliver, SinkDone
<1> QED
  BY <1>1, <1>2, <1>3, <1>4, WaitPairPad DEF Next

\* When a connection gives at most one stream command, no sink waits for a key
\* that has a source whenever pairPad takes its next message: addObserver,
\* notifyWaitSenders and the maps never strand a player.
THEOREM WaitersServed ==
  ASSUME MaxCmds = 1
  PROVE  Spec => []WaitersHaveNoSource
<1>1. Init => WaitInv
  BY DEF Init, Receiving, WaitInv, WaitingApart, NotifyKeyFixed
<1>2. TypeInv /\ WaitInv /\ [Next]_vars => WaitInv'
  BY WaitNext, WaitFrame DEF vars
<1>3. WaitInv => WaitersHaveNoSource
  BY DEF WaitInv, WaitingApart, Busy, WaitersHaveNoSource, Receiving
<1> QED
  BY InitType, TypeStep, <1>1, <1>2, <1>3, PTL DEF Spec

(***************************************************************************)
(* Where the sinks are: every sink is in one place, no matter how many     *)
(* commands its connection gives, and what follows from it.                *)
(***************************************************************************)
Has(q, m) == \E i \in 1 .. Len(q) : q[i] = m
Once(q, m) == \A i, j \in 1 .. Len(q) : q[i] = m /\ q[j] = m => i = j

\* The places a sink can be in, by name: pipe, the hands of pairPad, the
\* waiting list of key x, the srcChan or the sinks of source x.
PlaceNames == {"pipe", "hand", "wait", "chan", "conn"}
PlaceArgs == Regs \cup AnyKey \cup {NoReg}
Waits(s, k) == k \in AnyKey /\ s \in waiting[k] /\ (pair.at = "loop" => k # pair.key)
Holds(s, a, x) ==
    \/ a = "pipe" /\ x = NoReg /\ Has(pipe, RegSinkMsg(s))
    \/ a = "hand" /\ x = NoReg /\ RegSinkMsg(s) \in pair.todo
    \/ a = "wait" /\ Waits(s, x)
    \/ a = "chan" /\ x \in Regs /\ Has(srcChan[x], RegSinkMsg(s))
    \/ a = "conn" /\ x \in Regs /\ s \in sinks[x]

\* A registration that its handler has not yet sent to pairPad.
Fresh(s) == \/ s[2] > cmds[s[1]]
            \/ s[2] = cmds[s[1]] /\ pc[s[1]] = "register"

Apart(s) ==
    \A a, b \in PlaceNames, x, y \in PlaceArgs :
        Holds(s, a, x) /\ Holds(s, b, y) => a = b /\ x = y
SentOnce(s) ==
    Once(pipe, RegSinkMsg(s)) /\ \A r \in Regs : Once(srcChan[r], RegSinkMsg(s))
NoPlace(s) == \A a \in PlaceNames, x \in PlaceArgs : ~Holds(s, a, x)
PlaceInv == \A s \in Regs : Apart(s) /\ SentOnce(s) /\ (Fresh(s) => NoPlace(s))

(***************************************************************************)
(* Channels.                                                               *)
(***************************************************************************)
\* What a send does to the messages of a channel.
LEMMA HasAppend ==
    ASSUME NEW S, NEW q \in Seq(S), NEW x \in S, NEW m
    PROVE /\ Has(Append(q, x), m) <=> Has(q, m) \/ x = m
          /\ Once(q, m) /\ (x = m => ~Has(q, m)) => Once(Append(q, x), m)
<1>1. /\ Len(Append(q, x)) = Len(q) + 1 /\ Len(q) \in Nat
      /\ \A i \in 1 .. Len(q) : Append(q, x)[i] = q[i]
      /\ Append(q, x)[Len(q) + 1] = x
  BY AppendProperties
<1>2. \A i \in 1 .. Len(q) + 1 : i \in 1 .. Len(q) \/ i = Len(q) + 1 BY <1>1
<1>3. Len(q) + 1 \in 1 .. Len(q) + 1 /\ 1 .. Len(q) \subseteq 1 .. Len(q) + 1 BY <1>1
<1> QED BY <1>1, <1>2, <1>3 DEF Has, Once

\* What a receive does to them.
LEMMA HasTail ==
    ASSUME NEW S, NEW q \in Seq(S), q # <<>>, NEW m
    PROVE /\ Has(q, m) <=> Has(Tail(q), m) \/ Head(q) = m
          /\ Once(q, m) => Once(Tail(q), m) /\ (Head(q) = m => ~Has(Tail(q), m))
<1>1. /\ Len(Tail(q)) = Len(q) - 1 /\ Len(q) \in Nat /\ Len(q) >= 1 /\ Head(q) = q[1]
      /\ \A i \in 1 .. Len(Tail(q)) : Tail(q)[i] = q[i + 1]
  BY HeadTailProperties, EmptySeq, LenProperties
<1>2. \A i \in 1 .. Len(q) : i = 1 \/ (i - 1 \in 1 .. Len(Tail(q)) /\ (i - 1) + 1 = i) BY <1>1
<1>3. \A i \in 1 .. Len(Tail(q)) : i + 1 \in 1 .. Len(q) /\ i + 1 # 1 BY <1>1
<1>4. 1 \in 1 .. Len(q) BY <1>1
<1>5. Has(q, m) <=> Has(Tail(q), m) \/ Head(q) = m
  <2>1. ASSUME Has(q, m) PROVE Has(Tail(q), m) \/ Head(q) = m
    <3>1. PICK i \in 1 .. Len(q) : q[i] = m BY <2>1 DEF Has
    <3>2. CASE i # 1
      <4>1. Tail(q)[i - 1] = m /\ i - 1 \in 1 .. Len(Tail(q)) BY <1>1, <1>2, <3>1, <3>2
      <4> QED BY <4>1 DEF Has
    <3> QED BY <1>1, <3>1, <3>2
  <2>2. ASSUME Has(Tail(q), m) PROVE Has(q, m) BY <1>1, <1>3, <2>2 DEF Has
  <2> QED BY <1>1, <1>4, <2>1, <2>2 DEF Has
<1>6. ASSUME Once(q, m) PROVE Once(Tail(q), m) /\ (Head(q) = m => ~Has(Tail(q), m))
  <2>1. ASSUME NEW i \in 1 .. Len(Tail(q)), NEW j \in 1 .. Len(Tail(q)),
               Tail(q)[i] = m, Tail(q)[j] = m
        PROVE i = j
    <3>1. i + 1 = j + 1 BY <1>1, <1>3, <1>6, <2>1 DEF Once
    <3> QED BY <3>1
  <2>2. ASSUME Head(q) = m, NEW i \in 1 .. Len(Tail(q)), Tail(q)[i] = m PROVE FALSE
    <3>1. q[1] = m /\ q[i + 1] = m BY <1>1, <2>2
    <3>2. i + 1 = 1 BY <1>3, <1>4, <1>6, <3>1 DEF Once
    <3> QED BY <1>3, <3>2
  <2> QED BY <2>1, <2>2 DEF Once, Has
<1> QED BY <1>5, <1>6

\* A register message names its sink.
LEMMA SinkMsg ==
    /\ \A s, t \in Regs : RegSinkMsg(s) = RegSinkMsg(t) => s = t
    /\ \A s \in Regs : RegSinkMsg(s).cmd = "register_sink"
    /\ \A m \in PadMessage : m.cmd = "register_sink" =>
          RegOf(m) \in Regs /\ m = RegSinkMsg(RegOf(m)) /\ ConnOf(RegOf(m)) = m.conn
<1>1. \A s \in Regs : s = <<s[1], s[2]>> BY DEF Regs
<1>2. \A s \in Regs : RegSinkMsg(s).conn = s[1] /\ RegSinkMsg(s).n = s[2]
  BY DEF RegSinkMsg
<1>3. \A s, t \in Regs : RegSinkMsg(s) = RegSinkMsg(t) => s = t BY <1>1, <1>2
<1>4. ASSUME NEW m \in PadMessage, m.cmd = "register_sink"
      PROVE RegOf(m) \in Regs /\ m = RegSinkMsg(RegOf(m)) /\ ConnOf(RegOf(m)) = m.conn
  <2>1. m \in RegisterMsg BY <1>4 DEF PadMessage, UnregisterMsg, DataMsg
  <2> QED BY <1>4, <2>1 DEF RegisterMsg, RegOf, RegSinkMsg, ConnOf, Regs
<1> QED BY <1>3, <1>4 DEF RegSinkMsg

(***************************************************************************)
(* Moves.                                                                  *)
(***************************************************************************)
\* A sink that leaves a place, or stays.
LEMMA Stays ==
    ASSUME NEW s, Apart(s),
           \A a \in PlaceNames, x \in PlaceArgs : Holds(s, a, x)' => Holds(s, a, x)
    PROVE Apart(s)' /\ (NoPlace(s) => NoPlace(s)')
BY DEF Apart, NoPlace

\* A sink that goes from one place to another.
LEMMA Moves ==
    ASSUME NEW s, Apart(s), NEW a0 \in PlaceNames, NEW x0 \in PlaceArgs, Holds(s, a0, x0),
           NEW b0, NEW y0,
           \A a \in PlaceNames, x \in PlaceArgs : Holds(s, a, x)' =>
              (a = b0 /\ x = y0) \/ (Holds(s, a, x) /\ ~(a = a0 /\ x = x0))
    PROVE Apart(s)' /\ ~NoPlace(s)
BY DEF Apart, NoPlace

\* A handler with a command ahead of it has one fresh registration more.
LEMMA FreshFrame ==
    ASSUME TypeOK, NEW s \in Regs, Fresh(s)',
           \/ UNCHANGED <<cmds, pc>>
           \/ \E c \in Conns : /\ cmds' = [cmds EXCEPT ![c] = @ + 1]
                               /\ \E a : pc' = [pc EXCEPT ![c] = a]
           \/ \E c \in Conns : \E a : /\ a # "register" /\ cmds' = cmds
                                     /\ pc' = [pc EXCEPT ![c] = a]
    PROVE Fresh(s)
<1>1. s[1] \in Conns /\ s[2] \in Nat BY DEF Regs
<1>2. cmds \in [Conns -> 0 .. MaxCmds] /\ pc \in [Conns -> {"loop", "register", "await", "stop", "cancel", "done"}]
  BY DEF TypeOK, ConnType
<1>3. CASE UNCHANGED <<cmds, pc>> BY <1>3 DEF Fresh
<1>4. ASSUME NEW c \in Conns, cmds' = [cmds EXCEPT ![c] = @ + 1], NEW a, pc' = [pc EXCEPT ![c] = a]
      PROVE Fresh(s)
  <2>1. cmds[c] \in Nat BY <1>2
  <2>2. CASE s[1] = c
    <3>1. cmds'[c] = cmds[c] + 1 BY <1>2, <1>4
    <3>2. s[2] >= cmds[c] + 1 BY <1>1, <2>1, <2>2, <3>1 DEF Fresh
    <3> QED BY <1>1, <2>1, <2>2, <3>2 DEF Fresh
  <2>3. CASE s[1] # c BY <1>1, <1>2, <1>4, <2>3 DEF Fresh
  <2> QED BY <2>2, <2>3
<1>5. ASSUME NEW c \in Conns, NEW a, a # "register", cmds' = cmds, pc' = [pc EXCEPT ![c] = a]
      PROVE Fresh(s)
  BY <1>1, <1>2, <1>5 DEF Fresh
<1> QED BY <1>3, <1>4, <1>5

\* The channel q2 has no register_sink message that q had not.
QLess(q2, q) ==
    \A s \in Regs : /\ Has(q2, RegSinkMsg(s)) => Has(q, RegSinkMsg(s))
                    /\ Once(q, RegSinkMsg(s)) => Once(q2, RegSinkMsg(s))

\* Receives, and sends of the other messages.
LEMMA QLessFacts ==
    ASSUME NEW q \in Seq(PadMessage)
    PROVE /\ QLess(q, q)
          /\ q # <<>> => QLess(Tail(q), q)
          /\ \A x \in PadMessage : x.cmd # "register_sink" => QLess(Append(q, x), q)
<1>1. q # <<>> => QLess(Tail(q), q) BY HasTail DEF QLess
<1>2. ASSUME NEW x \in PadMessage, x.cmd # "register_sink" PROVE QLess(Append(q, x), q)
  <2>1. \A s \in Regs : x # RegSinkMsg(s) BY <1>2, SinkMsg
  <2> QED BY <2>1, HasAppend DEF QLess
<1> QED BY <1>1, <1>2 DEF QLess

\* Steps after which no sink is where it was not.
LEMMA PlaceLess ==
    ASSUME PlaceInv, \A s \in Regs : Fresh(s)' => Fresh(s),
           QLess(pipe', pipe), \A r \in Regs : QLess(srcChan'[r], srcChan[r]),
           \A s \in Regs : \A k \in AnyKey : Waits(s, k)' => Waits(s, k),
           \A s \in Regs : RegSinkMsg(s) \in pair'.todo => RegSinkMsg(s) \in pair.todo,
           \A r \in Regs : sinks'[r] \subseteq sinks[r]
    PROVE PlaceInv'
<1> SUFFICES ASSUME NEW s \in Regs PROVE (Apart(s) /\ SentOnce(s) /\ (Fresh(s) => NoPlace(s)))'
  BY DEF PlaceInv
<1>1. Apart(s) /\ SentOnce(s) /\ (Fresh(s) => NoPlace(s)) BY DEF PlaceInv
<1>2. \A a \in PlaceNames, x \in PlaceArgs : Holds(s, a, x)' => Holds(s, a, x)
  <2> SUFFICES ASSUME NEW a \in PlaceNames, NEW x \in PlaceArgs, Holds(s, a, x)'
               PROVE Holds(s, a, x)
    OBVIOUS
  <2>1. \A k : Waits(s, k)' => Waits(s, k) BY DEF Waits
  <2>2. Has(pipe', RegSinkMsg(s)) => Has(pipe, RegSinkMsg(s)) BY DEF QLess
  <2>3. \A r \in Regs : Has(srcChan'[r], RegSinkMsg(s)) => Has(srcChan[r], RegSinkMsg(s))
    BY DEF QLess
  <2> QED BY <2>1, <2>2, <2>3 DEF Holds
<1>3. SentOnce(s)' BY <1>1 DEF SentOnce, QLess
<1> QED BY <1>1, <1>2, <1>3, Stays

\* Steps that touch no place of a sink.
LEMMA PlaceFrame ==
    ASSUME TypeOK, PlaceInv, UNCHANGED <<pipe, waiting, pair, srcChan, sinks>>,
           \A s \in Regs : Fresh(s)' => Fresh(s)
    PROVE PlaceInv'
<1>1. QLess(pipe, pipe) /\ \A r \in Regs : QLess(srcChan[r], srcChan[r])
  BY QLessFacts DEF TypeOK, PairType, SourceType
<1> QED BY <1>1, PlaceLess DEF Waits

\* What a peer makes its handler do.
LEMMA PlaceClient ==
    ASSUME TypeInv, PlaceInv, NEW c \in Conns, Client(c)
    PROVE PlaceInv'
<1> USE DEF TypeInv
<1>1. ASSUME NEW k \in AnyKey, NEW what \in {"source", "sink"}, StreamCommand(c, k, what)
      PROVE PlaceInv'
  <2>1. \A s \in Regs : Fresh(s)' => Fresh(s) BY <1>1, FreshFrame DEF StreamCommand
  <2> QED BY <1>1, <2>1, PlaceFrame DEF StreamCommand
<1>2. ASSUME NEW k \in AnyKey, CommandFails(c, k) PROVE PlaceInv'
  <2>1. \A s \in Regs : Fresh(s)' => Fresh(s) BY <1>2, FreshFrame DEF CommandFails
  <2> QED BY <1>2, <2>1, PlaceFrame DEF CommandFails
<1>3. ASSUME NEW kd \in Kinds, Put(c, kd) PROVE PlaceInv'
  <2>1. \A s \in Regs : Fresh(s)' => Fresh(s) BY <1>3, FreshFrame DEF Put
  <2>2. PICK r \in Regs : r = putMsg[c] BY <1>3 DEF Put, TypeOK, ConnType
  <2>3. PICK n \in Nat : n = Len(log[r]) + 1 BY DEF TypeOK, SourceType
  <2>4. n \in 1 .. MaxPuts BY <1>3, <2>2, <2>3, BoundAssumption DEF Put, TypeOK, SourceType
  <2>5. PICK x \in PadMessage : x = [cmd |-> "data", conn |-> c, n |-> n]
    BY <2>4 DEF PadMessage, DataMsg
  <2>6. srcChan' = [srcChan EXCEPT ![r] = Append(@, x)] BY <1>3, <2>2, <2>3, <2>5 DEF Put
  <2>7. \A t \in Regs : QLess(srcChan'[t], srcChan[t])
    BY <2>5, <2>6, QLessFacts DEF TypeOK, SourceType
  <2>8. QLess(pipe, pipe) BY QLessFacts DEF TypeOK, PairType
  <2>9. UNCHANGED <<pipe, waiting, pair, sinks>> BY <1>3 DEF Put
  <2> QED BY <2>1, <2>7, <2>8, <2>9, PlaceLess DEF Waits
<1>4. CASE PutRefused(c) \/ PutWithoutSource(c) \/ Disconnect(c)
  <2>1. \/ UNCHANGED <<cmds, pc>>
        \/ cmds' = cmds /\ pc' = [pc EXCEPT ![c] = "stop"]
    BY <1>4 DEF PutRefused, PutWithoutSource, Disconnect
  <2>2. \A s \in Regs : Fresh(s)' => Fresh(s) BY <2>1, FreshFrame
  <2> QED BY <1>4, <2>2, PlaceFrame DEF PutRefused, PutWithoutSource, Disconnect
<1> QED BY <1>1, <1>2, <1>3, <1>4 DEF Client

\* A handler sends each of its registrations once.
LEMMA PlaceRegister ==
    ASSUME TypeInv, PlaceInv, NEW c \in Conns, Register(c)
    PROVE PlaceInv'
<1> USE DEF TypeInv
<1>1. /\ pc[c] = "register" /\ pc' = [pc EXCEPT ![c] = "await"]
      /\ UNCHANGED <<cmds, waiting, pair, srcChan, sinks>>
  BY DEF Register
<1>2. PICK n \in 1 .. MaxCmds : n = cmds[c]
  BY <1>1, BoundAssumption DEF TypeOK, ConnType, Shape, ConnShape
<1>3. PICK a \in {"register_source", "register_sink"} :
         pipe' = Append(pipe, [cmd |-> a, conn |-> c, n |-> n])
  BY <1>2 DEF Register
<1>4. PICK m \in PadMessage : m = [cmd |-> a, conn |-> c, n |-> n] BY DEF PadMessage, RegisterMsg
<1>5. \A s \in Regs : Fresh(s)' => Fresh(s) BY <1>1, FreshFrame
<1>6. PICK t \in Regs : t = <<c, n>> BY DEF Regs
<1>7. Fresh(t) /\ ~Fresh(t)' BY <1>1, <1>2, <1>6 DEF Fresh, TypeOK, ConnType
<1>8. \A s \in Regs : m = RegSinkMsg(s) => s = t BY <1>4, <1>6 DEF RegSinkMsg, Regs
<1> SUFFICES ASSUME NEW s \in Regs PROVE (Apart(s) /\ SentOnce(s) /\ (Fresh(s) => NoPlace(s)))'
  BY DEF PlaceInv
<1>9. Apart(s) /\ SentOnce(s) /\ (Fresh(s) => NoPlace(s)) BY DEF PlaceInv
<1>10. /\ Has(pipe', RegSinkMsg(s)) <=> Has(pipe, RegSinkMsg(s)) \/ m = RegSinkMsg(s)
       /\ Once(pipe, RegSinkMsg(s)) /\ (m = RegSinkMsg(s) => ~Has(pipe, RegSinkMsg(s)))
             => Once(pipe', RegSinkMsg(s))
  <2>1. pipe \in Seq(PadMessage) /\ pipe' = Append(pipe, m) BY <1>3, <1>4 DEF TypeOK, PairType
  <2> QED BY <2>1, HasAppend
<1>11. \A b \in PlaceNames, x \in PlaceArgs :
         Holds(s, b, x)' => Holds(s, b, x) \/ (m = RegSinkMsg(s) /\ b = "pipe" /\ x = NoReg)
  BY <1>1, <1>10 DEF Holds, Waits
<1>12. CASE m = RegSinkMsg(s)
  <2>1. s = t /\ NoPlace(s) BY <1>7, <1>8, <1>9, <1>12
  <2>2. ~Has(pipe, RegSinkMsg(s)) BY <2>1 DEF NoPlace, Holds, PlaceNames, PlaceArgs
  <2>3. SentOnce(s)' BY <1>1, <1>9, <1>10, <2>2 DEF SentOnce
  <2>4. Apart(s)' BY <1>11, <2>1 DEF Apart, NoPlace
  <2> QED BY <1>7, <2>1, <2>3, <2>4
<1>13. CASE m # RegSinkMsg(s)
  <2>1. SentOnce(s)' BY <1>1, <1>9, <1>10, <1>13 DEF SentOnce
  <2> QED BY <1>5, <1>9, <1>11, <1>13, <2>1, Stays
<1> QED BY <1>12, <1>13

\* What a handler does by itself.
LEMMA PlaceHandler ==
    ASSUME TypeInv, PlaceInv, NEW c \in Conns, Handler(c)
    PROVE PlaceInv'
<1> USE DEF TypeInv
<1>1. CASE Unregister(c)
  <2>1. \A s \in Regs : Fresh(s)' => Fresh(s) BY <1>1, FreshFrame DEF Unregister
  <2>2. \/ pipe' = pipe
        \/ \E m \in PadMessage : m.cmd # "register_sink" /\ pipe' = Append(pipe, m)
    BY <1>1, UnregisterMsgType DEF Unregister, StopMsg
  <2>3. QLess(pipe', pipe) BY <2>2, QLessFacts DEF TypeOK, PairType
  <2>4. UNCHANGED <<waiting, pair, srcChan, sinks>> BY <1>1 DEF Unregister
  <2>5. \A r \in Regs : QLess(srcChan[r], srcChan[r]) BY QLessFacts DEF TypeOK, SourceType
  <2> QED BY <2>1, <2>3, <2>4, <2>5, PlaceLess DEF Waits
<1>2. CASE CancelSelf(c)
  <2>1. \A s \in Regs : Fresh(s)' => Fresh(s) BY <1>2, FreshFrame DEF CancelSelf
  <2> QED BY <1>2, <2>1, PlaceFrame DEF CancelSelf
<1> QED BY <1>1, <1>2, PlaceRegister DEF Handler

(***************************************************************************)
(* pairPad.                                                                *)
(***************************************************************************)
\* pairPad takes the first message of pipe.
LEMMA TakeFacts ==
    ASSUME TypeInv, NEW cmd, Take(Head(pipe), cmd)
    PROVE /\ Head(pipe) \in PadMessage /\ Head(pipe).cmd = cmd /\ Head(pipe).conn \in Conns
          /\ pair.at = "recv" /\ pair.todo = {} /\ pair = Receiving
          /\ QLess(pipe', pipe)
          /\ \A s \in Regs : Once(pipe, RegSinkMsg(s)) /\ Head(pipe) = RegSinkMsg(s)
                               => Has(pipe, RegSinkMsg(s)) /\ ~Has(pipe', RegSinkMsg(s))
<1>1. pipe \in Seq(PadMessage) /\ pipe # <<>> /\ pipe' = Tail(pipe) /\ pair = Receiving
      /\ Head(pipe).cmd = cmd
  BY DEF TypeInv, TypeOK, PairType, Take
<1>2. Head(pipe) \in PadMessage BY <1>1, HeadTailProperties
<1>3. QLess(pipe', pipe) BY <1>1, QLessFacts
<1>4. \A s \in Regs : Once(pipe, RegSinkMsg(s)) /\ Head(pipe) = RegSinkMsg(s)
                         => Has(pipe, RegSinkMsg(s)) /\ ~Has(pipe', RegSinkMsg(s))
  BY <1>1, HasTail
<1> QED BY <1>1, <1>2, <1>3, <1>4, MessageType DEF Receiving

\* The messages about sources, and the end of a sink.
LEMMA PlaceOthers ==
    ASSUME TypeInv, PlaceInv, NEW m, m = Head(pipe),
           HandleRegisterSource(m) \/ HandleUnregisterSource(m) \/ HandleUnregisterSink(m)
    PROVE PlaceInv'
<1> USE DEF TypeInv
<1>1. PICK cmd \in {"register_source", "unregister_source", "unregister_sink"} : Take(m, cmd)
  BY DEF HandleRegisterSource, HandleUnregisterSource, HandleUnregisterSink
<1>2. /\ m \in PadMessage /\ m.cmd = cmd /\ m.conn \in Conns /\ pair.at = "recv"
      /\ pair = Receiving /\ QLess(pipe', pipe)
  BY <1>1, TakeFacts
<1>3. UNCHANGED <<srcChan, sinks>>
  BY DEF HandleRegisterSource, HandleUnregisterSource, HandleUnregisterSink
<1>4. \A s \in Regs : Fresh(s)' => Fresh(s)
  <2>1. \/ UNCHANGED <<cmds, pc>>
        \/ /\ cmds' = cmds
           /\ pc' = [pc EXCEPT ![m.conn] = "loop"] \/ pc' = [pc EXCEPT ![m.conn] = "stop"]
    BY DEF HandleRegisterSource, HandleUnregisterSource, HandleUnregisterSink, SourceResult
  <2> QED BY <1>2, <2>1, FreshFrame
<1>5. \A k \in AnyKey : waiting'[k] \subseteq waiting[k]
  BY DEF HandleRegisterSource, HandleUnregisterSource, HandleUnregisterSink, TypeOK, PairType
<1>6. pair.at # "loop" BY <1>2
<1>7. \A s \in Regs : \A k \in AnyKey : Waits(s, k)' => Waits(s, k) BY <1>5, <1>6 DEF Waits
<1>8. \A s \in Regs : RegSinkMsg(s) \notin pair'.todo
  <2>1. pair'.todo = {} \/ (pair'.todo = {m} /\ m.cmd = "unregister_sink")
    <3>1. CASE HandleRegisterSource(m)
      <4>1. pair' = pair \/ pair' = [Receiving EXCEPT !.at = "notify", !.src = RegOf(m)]
        BY <3>1 DEF HandleRegisterSource
      <4>2. [Receiving EXCEPT !.at = "notify", !.src = RegOf(m)].todo = {} /\ Receiving.todo = {}
        BY DEF Receiving
      <4> QED BY <1>2, <4>1, <4>2
    <3>2. CASE HandleUnregisterSource(m) BY <1>2, <3>2 DEF HandleUnregisterSource, Receiving
    <3>3. CASE HandleUnregisterSink(m)
      <4>1. m.cmd = "unregister_sink" BY <3>3 DEF HandleUnregisterSink, Take
      <4>2. \/ pair' = pair
            \/ pair' = [Receiving EXCEPT !.at = "forward", !.src = receivers[key[m.conn]], !.todo = {m}]
        BY <3>3 DEF HandleUnregisterSink
      <4>3. /\ [Receiving EXCEPT !.at = "forward", !.src = receivers[key[m.conn]], !.todo = {m}].todo = {m}
            /\ Receiving.todo = {}
        BY DEF Receiving
      <4> QED BY <1>2, <4>1, <4>2, <4>3
    <3> QED BY <3>1, <3>2, <3>3
  <2> QED BY <2>1, SinkMsg
<1>9. \A r \in Regs : QLess(srcChan[r], srcChan[r]) BY QLessFacts DEF TypeOK, SourceType
<1> QED BY <1>2, <1>3, <1>4, <1>7, <1>8, <1>9, PlaceLess

\* handleRegisterSink, whether the sink has to wait or has a source.
LEMMA PlaceRegisterSink ==
    ASSUME TypeInv, PlaceInv, NEW m, m = Head(pipe),
           HandleRegisterSinkWait(m) \/ HandleRegisterSink(m)
    PROVE PlaceInv'
<1> USE DEF TypeInv
<1>1. Take(m, "register_sink") BY DEF HandleRegisterSinkWait, HandleRegisterSink
<1>2. /\ m \in PadMessage /\ m.cmd = "register_sink" /\ m.conn \in Conns /\ pair.at = "recv"
      /\ pair = Receiving /\ pair.todo = {} /\ QLess(pipe', pipe)
      /\ \A s \in Regs : Once(pipe, RegSinkMsg(s)) /\ m = RegSinkMsg(s)
                           => Has(pipe, RegSinkMsg(s)) /\ ~Has(pipe', RegSinkMsg(s))
  BY <1>1, TakeFacts
<1>3. UNCHANGED <<srcChan, sinks>> BY DEF HandleRegisterSinkWait, HandleRegisterSink
<1>4. \A s \in Regs : Fresh(s)' => Fresh(s)
  <2>1. \/ UNCHANGED <<cmds, pc>>
        \/ cmds' = cmds /\ pc' = [pc EXCEPT ![m.conn] = "loop"]
    BY DEF HandleRegisterSinkWait, HandleRegisterSink, SinkResult
  <2> QED BY <1>2, <2>1, FreshFrame
<1>5. PICK t \in Regs : t = RegOf(m) /\ m = RegSinkMsg(t) BY <1>2, SinkMsg
<1>6. PICK k \in AnyKey : k = key[m.conn] BY <1>2 DEF TypeOK, ConnType
\* Afterwards t is in one of two new places, or in none.
<1>7. \E b, y : \A s \in Regs, a \in PlaceNames, x \in PlaceArgs :
         Holds(s, a, x)' => \/ s = t /\ a = b /\ x = y
                            \/ Holds(s, a, x) /\ ~(s = t /\ a = "pipe" /\ x = NoReg)
  <2>0. SentOnce(t) BY DEF PlaceInv
  <2>1. \A s \in Regs : Has(pipe', RegSinkMsg(s)) => Has(pipe, RegSinkMsg(s)) /\ s # t
    BY <1>2, <1>5, <2>0 DEF QLess, SentOnce
  <2>2. CASE HandleRegisterSinkWait(m)
    <3>1. /\ pair' = pair
          /\ waiting' = waiting \/ waiting' = [waiting EXCEPT ![k] = @ \cup {t}]
      BY <1>5, <1>6, <2>2 DEF HandleRegisterSinkWait
    <3>2. \A s \in Regs : \A x : Waits(s, x)' => Waits(s, x) \/ (s = t /\ x = k)
      BY <1>2, <3>1 DEF Waits, TypeOK, PairType
    <3>3. \A s \in Regs, a \in PlaceNames, x \in PlaceArgs :
            Holds(s, a, x)' => \/ s = t /\ a = "wait" /\ x = k
                               \/ Holds(s, a, x) /\ ~(s = t /\ a = "pipe" /\ x = NoReg)
      BY <1>2, <1>3, <2>1, <3>1, <3>2 DEF Holds
    <3> QED BY <3>3
  <2>3. CASE HandleRegisterSink(m)
    <3>1. pair'.at = "forward" /\ pair'.todo = {m} /\ waiting' = waiting
      BY <2>3 DEF HandleRegisterSink, Receiving
    <3>2. \A s \in Regs : \A x : Waits(s, x)' => Waits(s, x) BY <1>2, <3>1 DEF Waits
    <3>3. \A s \in Regs : RegSinkMsg(s) \in pair'.todo => s = t BY <1>5, <3>1, SinkMsg
    <3>4. \A s \in Regs, a \in PlaceNames, x \in PlaceArgs :
            Holds(s, a, x)' => \/ s = t /\ a = "hand" /\ x = NoReg
                               \/ Holds(s, a, x) /\ ~(s = t /\ a = "pipe" /\ x = NoReg)
      BY <1>2, <1>3, <2>1, <3>2, <3>3 DEF Holds
    <3> QED BY <3>4
  <2> QED BY <2>2, <2>3
<1>8. PICK b, y : \A s \in Regs, a \in PlaceNames, x \in PlaceArgs :
         Holds(s, a, x)' => \/ s = t /\ a = b /\ x = y
                            \/ Holds(s, a, x) /\ ~(s = t /\ a = "pipe" /\ x = NoReg)
  BY <1>7
<1> SUFFICES ASSUME NEW s \in Regs PROVE (Apart(s) /\ SentOnce(s) /\ (Fresh(s) => NoPlace(s)))'
  BY DEF PlaceInv
<1>9. Apart(s) /\ SentOnce(s) /\ (Fresh(s) => NoPlace(s)) BY DEF PlaceInv
<1>10. SentOnce(s)' BY <1>2, <1>3, <1>9 DEF SentOnce, QLess
<1>11. CASE s = t
  <2>1. Holds(s, "pipe", NoReg) BY <1>2, <1>5, <1>9, <1>11 DEF Holds, SentOnce
  <2>2. "pipe" \in PlaceNames /\ NoReg \in PlaceArgs BY DEF PlaceNames, PlaceArgs
  <2>3. Apart(s)' /\ ~NoPlace(s) BY <1>8, <1>9, <1>11, <2>1, <2>2, Moves
  <2> QED BY <1>4, <1>9, <1>10, <2>3
<1>12. CASE s # t BY <1>4, <1>8, <1>9, <1>10, <1>12, Stays
<1> QED BY <1>11, <1>12

\* notifyWaitSenders takes up the sinks that wait for its key.
LEMMA PlaceNotify ==
    ASSUME TypeInv, PlaceInv, NotifyWaitSenders
    PROVE PlaceInv'
<1> USE DEF TypeInv
<1>1. UNCHANGED <<cmds, pc, pipe, waiting, srcChan, sinks>> /\ pair.at = "notify"
  BY DEF NotifyWaitSenders
<1>2. PICK k \in AnyKey : k = key[ConnOf(pair.src)]
  BY <1>1, ConnOfType DEF TypeOK, ConnType, Shape, GoodPair
<1>3. \/ pair' = Receiving
      \/ pair' = [pair EXCEPT !.at = "loop", !.key = k, !.todo = {RegSinkMsg(s) : s \in waiting[k]}]
  BY <1>2 DEF NotifyWaitSenders, WaitersOf
<1>4. CASE pair' = Receiving
  <2>1. \A s \in Regs : Fresh(s)' => Fresh(s) BY <1>1 DEF Fresh
  <2>2. pair'.at = "recv" /\ pair'.todo = {} BY <1>4 DEF Receiving
  <2>3. \A s \in Regs : \A j \in AnyKey : Waits(s, j)' => Waits(s, j) BY <1>1, <2>2 DEF Waits
  <2>4. QLess(pipe, pipe) /\ \A r \in Regs : QLess(srcChan[r], srcChan[r])
    BY QLessFacts DEF TypeOK, PairType, SourceType
  <2> QED BY <1>1, <2>1, <2>2, <2>3, <2>4, PlaceLess
<1>5. CASE pair' = [pair EXCEPT !.at = "loop", !.key = k, !.todo = {RegSinkMsg(s) : s \in waiting[k]}]
  <2>1. pair'.at = "loop" /\ pair'.key = k /\ pair'.todo = {RegSinkMsg(s) : s \in waiting[k]}
    BY <1>5 DEF TypeOK, PairType, PairStates
  <2>2. waiting[k] \subseteq Regs BY DEF TypeOK, PairType
  <2> SUFFICES ASSUME NEW s \in Regs PROVE (Apart(s) /\ SentOnce(s) /\ (Fresh(s) => NoPlace(s)))'
    BY DEF PlaceInv
  <2>3. Apart(s) /\ SentOnce(s) /\ (Fresh(s) => NoPlace(s)) BY DEF PlaceInv
  <2>4. SentOnce(s)' /\ (Fresh(s)' <=> Fresh(s)) BY <1>1, <2>3 DEF SentOnce, Fresh
  <2>5. RegSinkMsg(s) \in pair'.todo => s \in waiting[k] BY <2>1, <2>2, SinkMsg
  <2>6. \A x : Waits(s, x)' => Waits(s, x) /\ x # k BY <1>1, <2>1 DEF Waits
  <2>7. \A a \in PlaceNames, x \in PlaceArgs :
          Holds(s, a, x)' => \/ s \in waiting[k] /\ a = "hand" /\ x = NoReg
                             \/ Holds(s, a, x) /\ ~(a = "wait" /\ x = k)
    BY <1>1, <2>5, <2>6 DEF Holds
  <2>8. CASE s \in waiting[k]
    <3>1. Holds(s, "wait", k) BY <1>1, <2>8 DEF Holds, Waits
    <3>2. "wait" \in PlaceNames /\ k \in PlaceArgs BY DEF PlaceNames, PlaceArgs
    <3> QED BY <2>3, <2>4, <2>7, <3>1, <3>2, Moves
  <2>9. CASE s \notin waiting[k] BY <2>3, <2>4, <2>7, <2>9, Stays
  <2> QED BY <2>8, <2>9
<1> QED BY <1>3, <1>4, <1>5

\* pairPad passes a message on to a source.
LEMMA PlacePass ==
    ASSUME TypeInv, PlaceInv, NEW m \in pair.todo, NotifyOne(m) \/ Forward(m)
    PROVE PlaceInv'
<1> USE DEF TypeInv
<1>1. UNCHANGED <<cmds, pc, pipe, sinks>> /\ pair.at \in {"loop", "forward"}
  BY DEF NotifyOne, Forward
<1>2. PICK r \in Regs : r = pair.src BY <1>1 DEF Shape, GoodPair
<1>3. m \in PadMessage BY DEF TypeOK, PairType, PairStates
<1>4. srcChan' = [srcChan EXCEPT ![r] = Append(@, m)] BY <1>2 DEF NotifyOne, Forward
<1>5. /\ pair'.todo \subseteq pair.todo \ {m}
      /\ \/ pair'.at = "loop" /\ pair.at = "loop" /\ pair'.key = pair.key /\ waiting' = waiting
         \/ pair.at = "loop" /\ waiting' = [waiting EXCEPT ![pair.key] = {}]
         \/ pair.at = "forward" /\ waiting' = waiting
  <2>1. pair \in PairStates BY DEF TypeOK, PairType
  <2>2. CASE Forward(m) BY <2>2 DEF Forward, Receiving
  <2>3. CASE NotifyOne(m) /\ pair.todo = {m}
    <3>1. pair.at = "loop" /\ pair' = Receiving /\ waiting' = [waiting EXCEPT ![pair.key] = {}]
      BY <2>3 DEF NotifyOne, DropWaiters
    <3> QED BY <3>1 DEF Receiving
  <2>4. CASE NotifyOne(m) /\ pair.todo # {m}
    <3>1. pair.at = "loop" /\ pair' = [pair EXCEPT !.todo = @ \ {m}] /\ waiting' = waiting
      BY <2>4 DEF NotifyOne
    <3>2. pair'.at = "loop" /\ pair'.key = pair.key /\ pair'.todo = pair.todo \ {m}
      BY <2>1, <3>1 DEF PairStates
    <3> QED BY <3>1, <3>2
  <2> QED BY <2>2, <2>3, <2>4
<1>6. \A s \in Regs : \A x : Waits(s, x)' => Waits(s, x) BY <1>5 DEF Waits, TypeOK, PairType
<1> SUFFICES ASSUME NEW s \in Regs PROVE (Apart(s) /\ SentOnce(s) /\ (Fresh(s) => NoPlace(s)))'
  BY DEF PlaceInv
<1>7. Apart(s) /\ SentOnce(s) /\ (Fresh(s) => NoPlace(s)) BY DEF PlaceInv
<1>8. /\ Has(srcChan'[r], RegSinkMsg(s)) <=> Has(srcChan[r], RegSinkMsg(s)) \/ m = RegSinkMsg(s)
      /\ Once(srcChan[r], RegSinkMsg(s)) /\ (m = RegSinkMsg(s) => ~Has(srcChan[r], RegSinkMsg(s)))
            => Once(srcChan'[r], RegSinkMsg(s))
  <2>1. srcChan[r] \in Seq(PadMessage) /\ srcChan'[r] = Append(srcChan[r], m)
    BY <1>4 DEF TypeOK, SourceType
  <2> QED BY <1>3, <2>1, HasAppend
<1>9. \A t \in Regs : t # r => srcChan'[t] = srcChan[t] BY <1>4 DEF TypeOK, SourceType
<1>10. \A a \in PlaceNames, x \in PlaceArgs :
         Holds(s, a, x)' => \/ m = RegSinkMsg(s) /\ a = "chan" /\ x = r
                            \/ Holds(s, a, x) /\ ~(m = RegSinkMsg(s) /\ a = "hand" /\ x = NoReg)
  BY <1>1, <1>5, <1>6, <1>8, <1>9 DEF Holds
<1>11. "hand" \in PlaceNames /\ "chan" \in PlaceNames /\ NoReg \in PlaceArgs /\ r \in PlaceArgs
  BY DEF PlaceNames, PlaceArgs
<1>12. Fresh(s)' <=> Fresh(s) BY <1>1 DEF Fresh
<1>13. CASE m = RegSinkMsg(s)
  <2>1. Holds(s, "hand", NoReg) BY <1>13 DEF Holds
  <2>2. ~Holds(s, "chan", r) BY <1>7, <1>11, <2>1 DEF Apart
  <2>3. ~Has(srcChan[r], RegSinkMsg(s)) BY <2>2 DEF Holds
  <2>4. SentOnce(s)' BY <1>1, <1>7, <1>8, <1>9, <2>3 DEF SentOnce
  <2> QED BY <1>7, <1>10, <1>11, <1>12, <1>13, <2>1, <2>4, Moves
<1>14. CASE m # RegSinkMsg(s)
  <2>1. SentOnce(s)' BY <1>1, <1>7, <1>8, <1>9, <1>14 DEF SentOnce
  <2> QED BY <1>7, <1>10, <1>12, <1>14, <2>1, Stays
<1> QED BY <1>13, <1>14

\* The steps of pairPad.
LEMMA PlacePairPad ==
    ASSUME TypeInv, PlaceInv, PairPad
    PROVE PlaceInv'
BY PlaceOthers, PlaceRegisterSink, PlaceNotify, PlacePass DEF PairPad, Handle

(***************************************************************************)
(* Source.work, and the rest.                                              *)
(***************************************************************************)
\* connectSink: the sink leaves srcChan and is connected, once.
LEMMA PlaceConnect ==
    ASSUME TypeInv, PlaceInv, NEW r \in Regs, ConnectSink(r, Head(srcChan[r]))
    PROVE PlaceInv'
<1> USE DEF TypeInv
<1>1. /\ srcChan[r] \in Seq(PadMessage) /\ srcChan[r] # <<>>
      /\ Head(srcChan[r]).cmd = "register_sink"
      /\ srcChan' = [srcChan EXCEPT ![r] = Tail(@)]
      /\ UNCHANGED <<cmds, pc, pipe, waiting, pair>>
  BY DEF ConnectSink, Receive, TypeOK, SourceType
<1>2. PICK m \in PadMessage : m = Head(srcChan[r]) BY <1>1, HeadTailProperties
<1>3. PICK t \in Regs : t = RegOf(m) /\ m = RegSinkMsg(t) BY <1>1, <1>2, SinkMsg
<1>4. sinks' = sinks \/ sinks' = [sinks EXCEPT ![r] = @ \cup {t}] BY <1>2, <1>3 DEF ConnectSink
<1>5. \A q \in Regs : q # r => srcChan'[q] = srcChan[q] BY <1>1 DEF TypeOK, SourceType
<1>6. srcChan'[r] = Tail(srcChan[r]) BY <1>1 DEF TypeOK, SourceType
<1>7. \A s \in Regs : \A x \in Regs : s \in sinks'[x] => s \in sinks[x] \/ (s = t /\ x = r)
  <2>1. CASE sinks' = sinks BY <2>1
  <2>2. CASE sinks' = [sinks EXCEPT ![r] = @ \cup {t}] BY <2>2 DEF TypeOK, SourceType
  <2> QED BY <1>4, <2>1, <2>2
<1> SUFFICES ASSUME NEW s \in Regs PROVE (Apart(s) /\ SentOnce(s) /\ (Fresh(s) => NoPlace(s)))'
  BY DEF PlaceInv
<1>8. Apart(s) /\ SentOnce(s) /\ (Fresh(s) => NoPlace(s)) BY DEF PlaceInv
<1>9. /\ Has(srcChan[r], RegSinkMsg(s)) <=> Has(srcChan'[r], RegSinkMsg(s)) \/ m = RegSinkMsg(s)
      /\ Once(srcChan'[r], RegSinkMsg(s))
      /\ m = RegSinkMsg(s) => ~Has(srcChan'[r], RegSinkMsg(s))
  <2>1. Once(srcChan[r], RegSinkMsg(s)) BY <1>8 DEF SentOnce
  <2> QED BY <1>1, <1>2, <1>6, <2>1, HasTail
<1>10. m = RegSinkMsg(s) <=> s = t BY <1>3, SinkMsg
<1>11. SentOnce(s)' BY <1>1, <1>5, <1>8, <1>9 DEF SentOnce
<1>12. \A a \in PlaceNames, x \in PlaceArgs :
         Holds(s, a, x)' => \/ s = t /\ a = "conn" /\ x = r
                            \/ Holds(s, a, x) /\ ~(s = t /\ a = "chan" /\ x = r)
  BY <1>1, <1>5, <1>7, <1>9, <1>10 DEF Holds, Waits
<1>13. Fresh(s)' <=> Fresh(s) BY <1>1 DEF Fresh
<1>14. CASE s = t
  <2>1. Holds(s, "chan", r) BY <1>9, <1>10, <1>14 DEF Holds
  <2>2. "chan" \in PlaceNames /\ r \in PlaceArgs BY DEF PlaceNames, PlaceArgs
  <2> QED BY <1>8, <1>11, <1>12, <1>13, <1>14, <2>1, <2>2, Moves
<1>15. CASE s # t BY <1>8, <1>11, <1>12, <1>13, <1>15, Stays
<1> QED BY <1>14, <1>15

\* The steps of the worker of a source.
LEMMA PlaceSourceWork ==
    ASSUME TypeInv, PlaceInv, NEW r \in Regs, SourceWork(r)
    PROVE PlaceInv'
<1> USE DEF TypeInv
<1>1. CASE srcChan[r] # <<>> /\ (HandleRtmpMessage(r, Head(srcChan[r])) \/ DeleteSink(r, Head(srcChan[r])))
  <2>1. /\ srcChan' = [srcChan EXCEPT ![r] = Tail(@)]
        /\ UNCHANGED <<cmds, pc, pipe, waiting, pair>>
    BY <1>1 DEF HandleRtmpMessage, DeleteSink, Receive
  <2>2. \A t \in Regs : sinks'[t] \subseteq sinks[t]
    <3>1. sinks' = sinks \/ \E F : sinks' = [sinks EXCEPT ![r] = @ \ F]
      BY <1>1 DEF HandleRtmpMessage, DeleteSink
    <3> QED BY <3>1 DEF TypeOK, SourceType
  <2>3. \A t \in Regs : QLess(srcChan'[t], srcChan[t])
    BY <1>1, <2>1, QLessFacts DEF TypeOK, SourceType
  <2>4. QLess(pipe, pipe) BY QLessFacts DEF TypeOK, PairType
  <2>5. \A s \in Regs : Fresh(s)' <=> Fresh(s) BY <2>1 DEF Fresh
  <2> QED BY <2>1, <2>2, <2>3, <2>4, <2>5, PlaceLess DEF Waits
<1>2. CASE Evict(r) \/ \E s \in work[r].todo : CancelSink(r, s)
  <2>1. UNCHANGED <<cmds, pc, waiting, pair, srcChan>> BY <1>2 DEF Evict, CancelSink
  <2>2. \A t \in Regs : sinks'[t] \subseteq sinks[t]
    <3>1. sinks' = sinks \/ \E F : sinks' = [sinks EXCEPT ![r] = @ \ F]
      BY <1>2 DEF Evict, CancelSink
    <3> QED BY <3>1 DEF TypeOK, SourceType
  <2>3. \E t \in Regs : Cancel(ConnOf(t))
    BY <1>2 DEF Evict, CancelSink, Shape, GoodWork, WorkStates
  <2>4. \/ pipe' = pipe
        \/ \E m \in PadMessage : m.cmd # "register_sink" /\ pipe' = Append(pipe, m)
    BY <2>3, ConnOfType, UnregisterMsgType DEF Cancel
  <2>5. QLess(pipe', pipe) BY <2>4, QLessFacts DEF TypeOK, PairType
  <2>6. \A t \in Regs : QLess(srcChan[t], srcChan[t]) BY QLessFacts DEF TypeOK, SourceType
  <2>7. \A s \in Regs : Fresh(s)' <=> Fresh(s) BY <2>1 DEF Fresh
  <2> QED BY <2>1, <2>2, <2>5, <2>6, <2>7, PlaceLess DEF Waits
<1>3. CASE SourceDone(r) \/ \E s \in work[r].todo : WriteData(r, s)
  <2>1. UNCHANGED <<cmds, pc, pipe, waiting, pair, srcChan, sinks>> BY <1>3 DEF SourceDone, WriteData
  <2>2. \A s \in Regs : Fresh(s)' <=> Fresh(s) BY <2>1 DEF Fresh
  <2> QED BY <2>1, <2>2, PlaceFrame
<1> QED BY <1>1, <1>2, <1>3, PlaceConnect DEF SourceWork

\* Every step keeps every sink in one place at most.
LEMMA PlaceNext == TypeInv /\ PlaceInv /\ [Next]_vars => PlaceInv'
<1> SUFFICES ASSUME TypeInv, PlaceInv, [Next]_vars PROVE PlaceInv' OBVIOUS
<1>1. CASE UNCHANGED vars
  <2>1. UNCHANGED <<cmds, pc, pipe, waiting, pair, srcChan, sinks>> BY <1>1 DEF vars
  <2>2. \A s \in Regs : Fresh(s)' <=> Fresh(s) BY <2>1 DEF Fresh
  <2> QED BY <2>1, <2>2, PlaceFrame DEF TypeInv
<1>2. ASSUME NEW s \in Regs, SinkRun(s) PROVE PlaceInv'
  <2>1. UNCHANGED <<cmds, pc, pipe, waiting, pair, srcChan, sinks>>
    BY <1>2 DEF SinkRun, SinkDeliver, SinkDone
  <2>2. \A t \in Regs : Fresh(t)' <=> Fresh(t) BY <2>1 DEF Fresh
  <2> QED BY <2>1, <2>2, PlaceFrame DEF TypeInv
<1> QED BY <1>1, <1>2, PlaceClient, PlaceHandler, PlacePairPad, PlaceSourceWork DEF Next

\* At first there is no sink anywhere.
LEMMA PlaceInit == Init => PlaceInv
<1> SUFFICES ASSUME Init, NEW s \in Regs PROVE Apart(s) /\ SentOnce(s) /\ (Fresh(s) => NoPlace(s))
  BY DEF PlaceInv
<1>1. NoPlace(s) BY DEF Init, NoPlace, Holds, Has, Waits, Receiving
<1>2. SentOnce(s) BY DEF Init, SentOnce, Once
<1> QED BY <1>1, <1>2 DEF NoPlace, Apart

(***************************************************************************)
(* The count of OnePlace.                                                  *)
(***************************************************************************)
\* A set of which no two elements differ.
LEMMA AtMostOne ==
    ASSUME NEW S, \A x, y \in S : x = y
    PROVE Cardinality(S) \in {0, 1} /\ (S = {} => Cardinality(S) = 0)
<1>1. CASE S = {} BY <1>1, FS_EmptySet
<1>2. CASE S # {}
  <2>1. PICK x \in S : S = {x} BY <1>2
  <2> QED BY <1>2, <2>1, FS_Singleton
<1> QED BY <1>1, <1>2

\* The invariant, counted.
LEMMA PlacesCounted == TypeInv /\ PlaceInv => OnePlace
<1> SUFFICES ASSUME TypeInv, PlaceInv, NEW s \in Regs
             PROVE Underway(s) + Cardinality({r \in Regs : s \in sinks[r]}) <= 1
  BY DEF OnePlace
<1>0. Apart(s) /\ SentOnce(s) BY DEF PlaceInv
<1>1. PICK m : m = RegSinkMsg(s) OBVIOUS
<1> DEFINE P == {i \in 1 .. Len(pipe) : pipe[i] = m}
           W == {k \in AnyKey : s \in waiting[k] /\ (pair.at = "loop" => k # pair.key)}
           C == {q \in Regs \X (1 .. SrcCap) : q[2] <= Len(srcChan[q[1]]) /\ srcChan[q[1]][q[2]] = m}
           F == {r \in Regs : s \in sinks[r]}
           h == IF m \in pair.todo THEN 1 ELSE 0
<1>2. \A i \in P : Holds(s, "pipe", NoReg) BY <1>1 DEF Holds, Has
<1>3. \A k \in W : Holds(s, "wait", k) BY DEF Holds, Waits
<1>4. \A q \in C : Holds(s, "chan", q[1]) /\ q[2] \in 1 .. Len(srcChan[q[1]])
  <2> SUFFICES ASSUME NEW q \in C PROVE Holds(s, "chan", q[1]) /\ q[2] \in 1 .. Len(srcChan[q[1]])
    OBVIOUS
  <2>1. q[1] \in Regs /\ q[2] \in Nat /\ q[2] >= 1 /\ q[2] <= Len(srcChan[q[1]]) BY CapAssumption
  <2>2. Len(srcChan[q[1]]) \in Nat BY <2>1 DEF TypeInv, TypeOK, SourceType
  <2>3. q[2] \in 1 .. Len(srcChan[q[1]]) BY <2>1, <2>2
  <2> QED BY <1>1, <2>1, <2>3 DEF Holds, Has
<1>5. \A r \in F : Holds(s, "conn", r) BY DEF Holds
<1>6. h = 1 => Holds(s, "hand", NoReg) BY <1>1 DEF Holds
<1>7. /\ {"pipe", "wait", "chan", "conn", "hand"} \subseteq PlaceNames
      /\ Regs \subseteq PlaceArgs /\ AnyKey \subseteq PlaceArgs /\ NoReg \in PlaceArgs
  BY DEF PlaceNames, PlaceArgs
<1>8. \A i, j \in P : i = j BY <1>0, <1>1 DEF SentOnce, Once
<1>9. \A j, k \in W : j = k BY <1>0, <1>3, <1>7 DEF Apart
<1>10. \A q, t \in C : q = t
  <2> SUFFICES ASSUME NEW q \in C, NEW t \in C PROVE q = t OBVIOUS
  <2>1. q[1] = t[1] BY <1>0, <1>4, <1>7 DEF Apart
  <2>2. Once(srcChan[q[1]], m) BY <1>0, <1>1 DEF SentOnce
  <2>3. q[2] = t[2] BY <1>4, <2>1, <2>2 DEF Once
  <2> QED BY <2>1, <2>3
<1>11. \A q, t \in F : q = t BY <1>0, <1>5, <1>7 DEF Apart
<1>12. /\ P # {} => W = {} /\ C = {} /\ F = {} /\ h # 1
       /\ W # {} => C = {} /\ F = {} /\ h # 1
       /\ C # {} => F = {} /\ h # 1
       /\ F # {} => h # 1
  <2>1. \A a, b \in PlaceNames, x, y \in PlaceArgs : Holds(s, a, x) /\ Holds(s, b, y) => a = b
    BY <1>0 DEF Apart
  <2>2. W \subseteq PlaceArgs /\ F \subseteq PlaceArgs /\ \A q \in C : q[1] \in PlaceArgs BY <1>7
  <2> HIDE DEF P, W, C, F, h
  <2> QED BY <1>2, <1>3, <1>4, <1>5, <1>6, <1>7, <2>1, <2>2
<1>13. /\ Cardinality(P) \in {0, 1} /\ (P = {} => Cardinality(P) = 0)
       /\ Cardinality(W) \in {0, 1} /\ (W = {} => Cardinality(W) = 0)
       /\ Cardinality(C) \in {0, 1} /\ (C = {} => Cardinality(C) = 0)
       /\ Cardinality(F) \in {0, 1} /\ (F = {} => Cardinality(F) = 0)
  <2> HIDE DEF P, W, C, F, h
  <2> QED BY <1>8, <1>9, <1>10, <1>11, AtMostOne
<1>14. h \in {0, 1} OBVIOUS
<1>15. Underway(s) = Cardinality(P) + Cardinality(W) + h + Cardinality(C)
  BY <1>1 DEF Underway, Count
<1>16. Cardinality(P) + Cardinality(W) + h + Cardinality(C) + Cardinality(F) <= 1
  <2> HIDE DEF P, W, C, F, h
  <2> QED BY <1>12, <1>13, <1>14
<1> QED BY <1>15, <1>16

\* However many commands the connections give and however pairPad, the workers
\* and the handlers interleave, a sink is at one place at a time: in pipe, in
\* one waiting list, in the hands of pairPad, in one srcChan or connected to
\* one source.  So no player is fed by two sources.
THEOREM SinksInOnePlace == Spec => []OnePlace
BY InitType, TypeStep, PlaceInit, PlaceNext, PlacesCounted, PTL DEF Spec

(***************************************************************************)
(* The maps and the workers of the sources.                                *)
(***************************************************************************)
\* The sinks map of a source has one entry per handler and key.
OneEntry ==
    \A r \in Regs : \A s, t \in sinks[r] :
        ConnOf(s) = ConnOf(t) /\ keyInSrc[s] = keyInSrc[t] => s = t

\* A sink that is underway is in the map of no source.
LEMMA UnderwayUnfed ==
    ASSUME PlaceInv, NEW s \in Regs,
           Has(pipe, RegSinkMsg(s)) \/ \E r \in Regs : Has(srcChan[r], RegSinkMsg(s))
    PROVE \A r \in Regs : s \notin sinks[r]
<1>1. Holds(s, "pipe", NoReg) \/ \E r \in Regs : Holds(s, "chan", r) BY DEF Holds
<1>2. /\ {"pipe", "chan", "conn"} \subseteq PlaceNames
      /\ Regs \subseteq PlaceArgs /\ NoReg \in PlaceArgs
  BY DEF PlaceNames, PlaceArgs
<1>3. \A r \in Regs : ~Holds(s, "conn", r) BY <1>1, <1>2 DEF PlaceInv, Apart
<1> QED BY <1>3 DEF Holds

\* Steps that add no entry and change no entry's key.
LEMMA EntryFrame ==
    ASSUME OneEntry, UNCHANGED keyInSrc, \A r \in Regs : sinks'[r] \subseteq sinks[r]
    PROVE OneEntry'
BY DEF OneEntry

\* connectSink panics before it would overwrite an entry, and nothing changes
\* the key of an entry that is there.
LEMMA EntryNext == TypeInv /\ PlaceInv /\ OneEntry /\ [Next]_vars => OneEntry'
<1> SUFFICES ASSUME TypeInv, PlaceInv, OneEntry, [Next]_vars PROVE OneEntry' OBVIOUS
<1> USE DEF TypeInv
<1>1. ASSUME UNCHANGED <<sinks, keyInSrc>> PROVE OneEntry' BY <1>1, EntryFrame
<1>2. ASSUME NEW c \in Conns, Client(c) \/ Handler(c) PROVE UNCHANGED <<sinks, keyInSrc>>
  BY <1>2 DEF Client, Handler, StreamCommand, CommandFails, Put, PutRefused, PutWithoutSource,
              Disconnect, Register, Unregister, CancelSelf
<1>3. ASSUME NEW s \in Regs, SinkRun(s) PROVE UNCHANGED <<sinks, keyInSrc>>
  BY <1>3 DEF SinkRun, SinkDeliver, SinkDone
<1>4. ASSUME pipe # <<>>, HandleRegisterSinkWait(Head(pipe)) PROVE OneEntry'
  <2>1. PICK m \in PadMessage : m = Head(pipe) /\ m.cmd = "register_sink"
    BY <1>4, TakeFacts DEF HandleRegisterSinkWait
  <2>2. PICK t \in Regs : t = RegOf(m) /\ m = RegSinkMsg(t) BY <2>1, SinkMsg
  <2>3. Has(pipe, RegSinkMsg(t)) BY <1>4, <2>1, <2>2, HasTail DEF TypeOK, PairType
  <2>4. \A r \in Regs : t \notin sinks[r] BY <2>3, UnderwayUnfed
  <2>5. sinks' = sinks /\ \A s \in Regs : s # t => keyInSrc'[s] = keyInSrc[s]
    BY <1>4, <2>1, <2>2 DEF HandleRegisterSinkWait, TypeOK, SinkType
  <2>6. \A r \in Regs : sinks[r] \subseteq Regs BY DEF TypeOK, SourceType
  <2> QED BY <2>4, <2>5, <2>6 DEF OneEntry
<1>5. ASSUME PairPad PROVE OneEntry'
  <2>1. (pipe # <<>> /\ HandleRegisterSinkWait(Head(pipe))) \/ UNCHANGED <<sinks, keyInSrc>>
    BY <1>5 DEF PairPad, Handle, HandleRegisterSource, HandleUnregisterSource, HandleRegisterSink,
                HandleUnregisterSink, NotifyWaitSenders, NotifyOne, Forward
  <2> QED BY <1>1, <1>4, <2>1
<1>6. ASSUME NEW r \in Regs, ConnectSink(r, Head(srcChan[r])) PROVE OneEntry'
  <2>1. srcChan[r] \in Seq(PadMessage) /\ srcChan[r] # <<>> /\ Head(srcChan[r]).cmd = "register_sink"
    BY <1>6 DEF ConnectSink, Receive, TypeOK, SourceType
  <2>2. PICK m \in PadMessage : m = Head(srcChan[r]) BY <2>1, HeadTailProperties
  <2>3. PICK t \in Regs : t = RegOf(m) /\ m = RegSinkMsg(t) /\ ConnOf(t) = m.conn BY <2>1, <2>2, SinkMsg
  <2>4. Has(srcChan[r], RegSinkMsg(t)) BY <2>1, <2>2, <2>3, HasTail
  <2>5. \A q \in Regs : t \notin sinks[q] BY <2>4, UnderwayUnfed
  <2>6. PICK k \in AnyKey : k = key[m.conn] BY <2>2, MessageType DEF TypeOK, ConnType
  <2>7. keyInSrc' = [keyInSrc EXCEPT ![t] = k] BY <1>6, <2>2, <2>3, <2>6 DEF ConnectSink
  <2>8. keyInSrc'[t] = k /\ \A s \in Regs : s # t => keyInSrc'[s] = keyInSrc[s]
    BY <2>7 DEF TypeOK, SinkType
  <2>9. \A q \in Regs : sinks[q] \subseteq Regs BY DEF TypeOK, SourceType
  <2>10. CASE sinks' = sinks BY <2>5, <2>8, <2>9, <2>10 DEF OneEntry
  <2>11. CASE sinks' # sinks
    <3>1. /\ sinks' = [sinks EXCEPT ![r] = @ \cup {t}]
          /\ \A s \in sinks[r] : ~(ConnOf(t) = ConnOf(s) /\ keyInSrc[s] = k)
      BY <1>6, <2>2, <2>3, <2>6, <2>11 DEF ConnectSink, SameEntry
    <3>2. sinks'[r] = sinks[r] \cup {t} /\ \A q \in Regs : q # r => sinks'[q] = sinks[q]
      BY <3>1 DEF TypeOK, SourceType
    <3> SUFFICES ASSUME NEW q \in Regs, NEW s \in sinks'[q], NEW u \in sinks'[q],
                        ConnOf(s) = ConnOf(u), keyInSrc'[s] = keyInSrc'[u]
                 PROVE s = u
      BY DEF OneEntry
    <3>3. CASE s # t /\ u # t
      <4>1. s \in sinks[q] /\ u \in sinks[q] BY <3>2, <3>3
      <4> QED BY <2>8, <2>9, <3>3, <4>1 DEF OneEntry
    <3>4. CASE s = t \/ u = t
      <4>1. q = r BY <2>5, <3>2, <3>4
      <4> QED BY <2>8, <2>9, <3>1, <3>2, <3>4, <4>1
    <3> QED BY <3>3, <3>4
  <2> QED BY <2>10, <2>11
<1>7. ASSUME NEW r \in Regs, SourceWork(r) PROVE OneEntry'
  <2>1. \/ ConnectSink(r, Head(srcChan[r]))
        \/ UNCHANGED keyInSrc /\ (sinks' = sinks \/ \E F : sinks' = [sinks EXCEPT ![r] = @ \ F])
    BY <1>7 DEF SourceWork, HandleRtmpMessage, DeleteSink, WriteData, CancelSink, Evict, SourceDone
  <2>2. ASSUME NEW F, sinks' = [sinks EXCEPT ![r] = @ \ F]
        PROVE \A q \in Regs : sinks'[q] \subseteq sinks[q]
    BY <2>2 DEF TypeOK, SourceType
  <2> QED BY <1>6, <2>1, <2>2, EntryFrame
<1> QED BY <1>1, <1>2, <1>3, <1>5, <1>7 DEF Next, vars

\* What a worker has in hand: sinks of its own map, and a victim only while it
\* cancels one.
InHand(r) ==
    /\ work[r].at \in {"write", "evict", "cancelSinks"} => work[r].todo \subseteq sinks[r]
    /\ work[r].at \in {"write", "evict"} => work[r].victim \notin work[r].todo
    /\ work[r].at # "evict" => work[r].victim = NoReg
WorkInv == \A r \in Regs : InHand(r)

\* Steps of others leave a worker and its map alone, or start it.
LEMMA WorkFrame ==
    ASSUME TypeInv, NEW r \in Regs, [Next]_vars, ~SourceWork(r)
    PROVE /\ sinks'[r] = sinks[r]
          /\ \/ work'[r] = work[r]
             \/ /\ work'[r] = [Idle EXCEPT !.at = "select"] /\ pipe # <<>>
                /\ HandleRegisterSource(Head(pipe)) /\ r = RegOf(Head(pipe))
<1> USE DEF TypeInv
<1>1. ASSUME NEW c \in Conns, Client(c) \/ Handler(c) PROVE UNCHANGED <<sinks, work>>
  BY <1>1 DEF Client, Handler, StreamCommand, CommandFails, Put, PutRefused, PutWithoutSource,
              Disconnect, Register, Unregister, CancelSelf
<1>2. ASSUME NEW s \in Regs, SinkRun(s) PROVE UNCHANGED <<sinks, work>>
  BY <1>2 DEF SinkRun, SinkDeliver, SinkDone
<1>3. ASSUME PairPad
      PROVE /\ UNCHANGED sinks
            /\ \/ UNCHANGED work
               \/ /\ pipe # <<>> /\ HandleRegisterSource(Head(pipe))
                  /\ work' = [work EXCEPT ![RegOf(Head(pipe))] = [Idle EXCEPT !.at = "select"]]
  BY <1>3 DEF PairPad, Handle, HandleRegisterSource, HandleUnregisterSource, HandleRegisterSinkWait,
              HandleRegisterSink, HandleUnregisterSink, NotifyWaitSenders, NotifyOne, Forward
<1>4. ASSUME NEW q \in Regs, SourceWork(q), q # r
      PROVE sinks'[r] = sinks[r] /\ work'[r] = work[r]
  <2>1. work' = work \/ \E w : work' = [work EXCEPT ![q] = w]
    <3>1. ASSUME NEW m, ConnectSink(q, m) PROVE work' = work BY <3>1 DEF ConnectSink
    <3>2. ASSUME NEW m, HandleRtmpMessage(q, m) PROVE work' = work \/ \E w : work' = [work EXCEPT ![q] = w]
      BY <3>2 DEF HandleRtmpMessage
    <3>3. ASSUME NEW m, DeleteSink(q, m) PROVE work' = work \/ \E w : work' = [work EXCEPT ![q] = w]
      BY <3>3 DEF DeleteSink
    <3>4. ASSUME NEW s \in work[q].todo, WriteData(q, s) \/ CancelSink(q, s)
          PROVE \E w : work' = [work EXCEPT ![q] = w]
      BY <3>4 DEF WriteData, CancelSink
    <3>5. ASSUME Evict(q) \/ SourceDone(q) PROVE \E w : work' = [work EXCEPT ![q] = w]
      BY <3>5 DEF Evict, SourceDone
    <3> QED BY <1>4, <3>1, <3>2, <3>3, <3>4, <3>5 DEF SourceWork
  <2>2. sinks' = sinks \/ \E w : sinks' = [sinks EXCEPT ![q] = w]
    BY <1>4 DEF SourceWork, ConnectSink, HandleRtmpMessage, DeleteSink, WriteData, CancelSink,
                Evict, SourceDone
  <2> QED BY <1>4, <2>1, <2>2 DEF TypeOK, SourceType
<1>5. CASE UNCHANGED vars BY <1>5 DEF vars
<1>6. CASE PairPad BY <1>3, <1>6 DEF TypeOK, SourceType
<1> QED BY <1>1, <1>2, <1>4, <1>5, <1>6 DEF Next

\* A worker that goes on with the sinks in t.
LEMMA ResumeHand ==
    ASSUME TypeInv, TypeInv', NEW r \in Regs, NEW t, t \subseteq sinks'[r],
           work' = [work EXCEPT ![r] = Resume(r, t)]
    PROVE InHand(r)'
<1> USE DEF TypeInv
<1>1. work'[r] = Resume(r, t) BY DEF TypeOK, SourceType
<1>2. /\ Resume(r, t).at \in {"select", "write"} /\ Resume(r, t).victim = NoReg
      /\ Resume(r, t).at = "write" => Resume(r, t).todo = t
  <2>1. work[r] \in WorkStates BY DEF TypeOK, SourceType
  <2> QED BY <2>1 DEF Resume, Idle, WorkStates
<1>3. NoReg \notin t
  <2>1. sinks'[r] \subseteq Regs BY DEF TypeOK, SourceType
  <2> QED BY <2>1, RegAssumption DEF Regs, Conns
<1> QED BY <1>1, <1>2, <1>3 DEF InHand

\* What each step of a worker does to what it has in hand, to its map and to
\* its channel.
LEMMA WorkNext == TypeInv /\ WorkInv /\ [Next]_vars => WorkInv'
<1> SUFFICES ASSUME TypeInv, WorkInv, [Next]_vars, NEW r \in Regs
             PROVE InHand(r)'
  BY DEF WorkInv
<1>10. TypeInv' BY TypeStep
<1> USE DEF InHand
<1>0. /\ work[r] \in WorkStates /\ work[r] \in GoodWork /\ sinks[r] \subseteq Regs
      /\ work[r].at \in {"write", "evict", "cancelSinks"} => work[r].todo \subseteq sinks[r]
      /\ work[r].at \in {"write", "evict"} => work[r].victim \notin work[r].todo
      /\ work[r].at # "evict" => work[r].victim = NoReg
      /\ work[r].at = "select" => work[r].todo = {}
  BY DEF WorkInv, InHand, TypeInv, TypeOK, SourceType, Shape, GoodWork
<1>1. CASE ~SourceWork(r)
  <2>1. sinks'[r] = sinks[r] /\ (work'[r] = work[r] \/ work'[r] = [Idle EXCEPT !.at = "select"])
    BY <1>1, WorkFrame
  <2> QED BY <1>0, <2>1 DEF Idle
<1>2. CASE srcChan[r] # <<>> /\ ConnectSink(r, Head(srcChan[r]))
  <2>1. work[r].at = "select" /\ work' = work BY <1>2 DEF ConnectSink, Receive
  <2> QED BY <1>0, <2>1
<1>3. CASE srcChan[r] # <<>> /\ HandleRtmpMessage(r, Head(srcChan[r]))
  <2>1. /\ work[r].at = "select" /\ sinks' = sinks
        /\ \/ work' = work
           \/ \E n : work' = [work EXCEPT ![r] = [at |-> "write", n |-> n, todo |-> sinks[r], victim |-> NoReg]]
    BY <1>3 DEF HandleRtmpMessage, Receive, Targets
  <2>2. \/ work'[r] = work[r]
        \/ \E n : work'[r] = [at |-> "write", n |-> n, todo |-> sinks[r], victim |-> NoReg]
    BY <2>1 DEF TypeInv, TypeOK, SourceType
  <2>3. CASE work'[r] = work[r] BY <1>0, <2>1, <2>3
  <2>4. ASSUME NEW n, work'[r] = [at |-> "write", n |-> n, todo |-> sinks[r], victim |-> NoReg]
        PROVE InHand(r)'
    <3>1. NoReg \notin sinks[r] BY <1>0, RegAssumption DEF Regs, Conns
    <3> QED BY <2>1, <2>4, <3>1
  <2> QED BY <2>2, <2>3, <2>4
<1>4. CASE srcChan[r] # <<>> /\ DeleteSink(r, Head(srcChan[r]))
  <2>1. /\ work[r].at = "select"
        /\ \/ work' = work
           \/ \E s : work' = [work EXCEPT ![r] = [@ EXCEPT !.at = "evict", !.victim = s]]
    BY <1>4 DEF DeleteSink, Receive
  <2>2. \/ work'[r] = work[r]
        \/ \E s : work'[r] = [work[r] EXCEPT !.at = "evict", !.victim = s]
    BY <2>1 DEF TypeInv, TypeOK, SourceType
  <2>3. \A s : /\ [work[r] EXCEPT !.at = "evict", !.victim = s].todo = {}
               /\ [work[r] EXCEPT !.at = "evict", !.victim = s].at = "evict"
    BY <1>0, <2>1 DEF WorkStates
  <2> QED BY <1>0, <2>1, <2>2, <2>3
<1>6. ASSUME NEW s \in work[r].todo, WriteData(r, s)
      PROVE InHand(r)'
  <2>1. work[r].at = "write" /\ sinks' = sinks BY <1>6 DEF WriteData
  <2>2. work' = [work EXCEPT ![r] = Resume(r, work[r].todo \ {s})] \/ work' = [work EXCEPT ![r] = OnFull(r, s)]
    BY <1>6 DEF WriteData
  <2>3. CASE work' = [work EXCEPT ![r] = OnFull(r, s)]
    <3>1. work'[r] = OnFull(r, s) BY <2>3 DEF TypeInv, TypeOK, SourceType
    <3>2. OnFull(r, s).at = "evict" /\ OnFull(r, s).victim = s /\ OnFull(r, s).todo = work[r].todo \ {s}
      BY <1>0 DEF OnFull, WorkStates
    <3> QED BY <1>0, <2>1, <3>1, <3>2
  <2>4. CASE work' = [work EXCEPT ![r] = Resume(r, work[r].todo \ {s})]
    <3>1. work[r].todo \ {s} \subseteq sinks'[r] BY <1>0, <2>1
    <3> QED BY <1>10, <2>4, <3>1, ResumeHand
  <2> QED BY <2>2, <2>3, <2>4
<1>7. ASSUME NEW s \in work[r].todo, CancelSink(r, s)
      PROVE InHand(r)'
  <2>1. /\ work[r].at = "cancelSinks" /\ sinks' = sinks
        /\ \E a \in {"quit", "cancelSinks"} :
              work' = [work EXCEPT ![r] = [work[r] EXCEPT !.at = a, !.todo = work[r].todo \ {s}]]
    BY <1>7 DEF CancelSink
  <2>2. PICK a \in {"quit", "cancelSinks"} :
          work'[r] = [work[r] EXCEPT !.at = a, !.todo = work[r].todo \ {s}]
    BY <2>1 DEF TypeInv, TypeOK, SourceType
  <2>3. work'[r].at = a /\ work'[r].todo = work[r].todo \ {s} /\ work'[r].victim = work[r].victim
    BY <1>0, <2>2 DEF WorkStates
  <2> QED BY <1>0, <2>1, <2>3
<1>8. CASE Evict(r)
  <2>1. /\ work[r].at = "evict" /\ sinks' = [sinks EXCEPT ![r] = @ \ {work[r].victim}]
        /\ work' = [work EXCEPT ![r] = Resume(r, work[r].todo)]
    BY <1>8 DEF Evict
  <2>2. work[r].todo \subseteq sinks'[r] BY <1>0, <2>1 DEF TypeInv, TypeOK, SourceType
  <2> QED BY <1>10, <2>1, <2>2, ResumeHand
<1>9. CASE SourceDone(r)
  <2>1. /\ work[r].at = "select" /\ sinks' = sinks
        /\ \E a \in {"quit", "cancelSinks"} :
              work' = [work EXCEPT ![r] = [@ EXCEPT !.at = a, !.todo = sinks[r]]]
    BY <1>9 DEF SourceDone
  <2>2. PICK a \in {"quit", "cancelSinks"} : work'[r] = [work[r] EXCEPT !.at = a, !.todo = sinks[r]]
    BY <2>1 DEF TypeInv, TypeOK, SourceType
  <2>3. work'[r].at = a /\ work'[r].todo = sinks[r] /\ work'[r].victim = work[r].victim
    BY <1>0, <2>2 DEF WorkStates
  <2> QED BY <1>0, <2>1, <2>3
<1> QED BY <1>1, <1>2, <1>3, <1>4, <1>6, <1>7, <1>8, <1>9 DEF SourceWork

\* A source is registered once: its worker starts at most once.
RegSourceMsg(r) == [cmd |-> "register_source", conn |-> r[1], n |-> r[2]]
StartOnce ==
    \A r \in Regs :
        /\ Once(pipe, RegSourceMsg(r))
        /\ Fresh(r) => ~Has(pipe, RegSourceMsg(r))
        /\ Fresh(r) \/ Has(pipe, RegSourceMsg(r)) => work[r].at = "off"

\* A registration that was sent never becomes fresh again.
LEMMA FreshNext ==
    ASSUME TypeInv, [Next]_vars, NEW s \in Regs, Fresh(s)'
    PROVE Fresh(s)
<1> USE DEF TypeInv
<1>1. ASSUME NEW c \in Conns, Client(c) \/ Handler(c) PROVE Fresh(s)
  <2>1. \/ UNCHANGED <<cmds, pc>>
        \/ /\ cmds' = [cmds EXCEPT ![c] = @ + 1]
           /\ \E a : pc' = [pc EXCEPT ![c] = a]
        \/ \E a : a # "register" /\ cmds' = cmds /\ pc' = [pc EXCEPT ![c] = a]
    <3>1. CASE Client(c)
      BY <3>1 DEF Client, StreamCommand, CommandFails, Put, PutRefused, PutWithoutSource, Disconnect
    <3>2. CASE Handler(c) BY <3>2 DEF Handler, Register, Unregister, CancelSelf
    <3> QED BY <1>1, <3>1, <3>2
  <2> QED BY <2>1, FreshFrame
<1>2. ASSUME PairPad PROVE Fresh(s)
  <2>1. ASSUME pipe # <<>>, Handle(Head(pipe)) PROVE Fresh(s)
    <3>1. PICK cmd : Take(Head(pipe), cmd)
      BY <2>1 DEF Handle, HandleRegisterSource, HandleUnregisterSource, HandleRegisterSinkWait,
                  HandleRegisterSink, HandleUnregisterSink
    <3>2. Head(pipe).conn \in Conns BY <3>1, TakeFacts
    <3>3. \/ UNCHANGED <<cmds, pc>>
          \/ \E a : a # "register" /\ cmds' = cmds /\ pc' = [pc EXCEPT ![Head(pipe).conn] = a]
      BY <2>1 DEF Handle, HandleRegisterSource, HandleUnregisterSource, HandleRegisterSinkWait,
                  HandleRegisterSink, HandleUnregisterSink, SourceResult, SinkResult
    <3> QED BY <3>2, <3>3, FreshFrame
  <2>2. ASSUME NotifyWaitSenders \/ \E m \in pair.todo : NotifyOne(m) \/ Forward(m)
        PROVE UNCHANGED <<cmds, pc>>
    BY <2>2 DEF NotifyWaitSenders, NotifyOne, Forward
  <2> QED BY <1>2, <2>1, <2>2 DEF PairPad, Fresh
<1>3. ASSUME NEW r \in Regs, SourceWork(r) \/ SinkRun(r) PROVE UNCHANGED <<cmds, pc>>
  BY <1>3 DEF SourceWork, ConnectSink, HandleRtmpMessage, DeleteSink, WriteData, CancelSink,
              Evict, SourceDone, SinkRun, SinkDeliver, SinkDone
<1> QED BY <1>1, <1>2, <1>3 DEF Next, vars, Fresh

\* What a step does to pipe: one receive, or one send of a new registration or
\* of an unregister message.
LEMMA PipeNext ==
    ASSUME TypeInv, [Next]_vars
    PROVE \/ pipe' = pipe
          \/ pipe # <<>> /\ pipe' = Tail(pipe)
          \/ \E c \in Conns : Register(c)
          \/ \E m \in PadMessage : /\ m.cmd \in {"unregister_source", "unregister_sink"}
                                    /\ pipe' = Append(pipe, m)
<1> USE DEF TypeInv
<1>1. ASSUME NEW c \in Conns, Client(c) PROVE pipe' = pipe
  BY <1>1 DEF Client, StreamCommand, CommandFails, Put, PutRefused, PutWithoutSource, Disconnect
<1>2. ASSUME NEW c \in Conns, Handler(c)
      PROVE \/ pipe' = pipe \/ Register(c)
            \/ \E m \in PadMessage : /\ m.cmd \in {"unregister_source", "unregister_sink"}
                                      /\ pipe' = Append(pipe, m)
  BY <1>2, UnregisterMsgType DEF Handler, Unregister, CancelSelf, StopMsg
<1>3. ASSUME PairPad PROVE pipe' = pipe \/ (pipe # <<>> /\ pipe' = Tail(pipe))
  BY <1>3 DEF PairPad, Handle, HandleRegisterSource, HandleUnregisterSource, HandleRegisterSinkWait,
              HandleRegisterSink, HandleUnregisterSink, NotifyWaitSenders, NotifyOne, Forward, Take
<1>4. ASSUME NEW r \in Regs, SourceWork(r)
      PROVE \/ pipe' = pipe
            \/ \E m \in PadMessage : /\ m.cmd \in {"unregister_source", "unregister_sink"}
                                      /\ pipe' = Append(pipe, m)
  <2>1. pipe' = pipe \/ Evict(r) \/ \E s \in work[r].todo : CancelSink(r, s)
    BY <1>4 DEF SourceWork, ConnectSink, HandleRtmpMessage, DeleteSink, WriteData, SourceDone
  <2>2. ASSUME Evict(r) \/ \E s \in work[r].todo : CancelSink(r, s)
        PROVE \E t \in Regs : Cancel(ConnOf(t))
    BY <2>2 DEF Evict, CancelSink, Shape, GoodWork, WorkStates
  <2> QED BY <2>1, <2>2, ConnOfType, UnregisterMsgType DEF Cancel
<1>5. ASSUME NEW r \in Regs, SinkRun(r) PROVE pipe' = pipe
  BY <1>5 DEF SinkRun, SinkDeliver, SinkDone
<1>6. CASE UNCHANGED vars BY <1>6 DEF vars
<1> QED BY <1>1, <1>2, <1>3, <1>4, <1>5, <1>6 DEF Next

\* A registration is sent once, handled once and starts a worker that was off.
LEMMA StartNext == TypeInv /\ StartOnce /\ [Next]_vars => StartOnce'
<1> SUFFICES ASSUME TypeInv, StartOnce, [Next]_vars, NEW r \in Regs
             PROVE (/\ Once(pipe, RegSourceMsg(r))
                    /\ Fresh(r) => ~Has(pipe, RegSourceMsg(r))
                    /\ Fresh(r) \/ Has(pipe, RegSourceMsg(r)) => work[r].at = "off")'
  BY DEF StartOnce
<1> USE DEF TypeInv
<1>0. PICK m : m = RegSourceMsg(r) OBVIOUS
<1>1. /\ Once(pipe, m) /\ (Fresh(r) => ~Has(pipe, m))
      /\ Fresh(r) \/ Has(pipe, m) => work[r].at = "off"
  BY <1>0 DEF StartOnce
<1>2. Fresh(r)' => Fresh(r) BY FreshNext
<1>3. pipe \in Seq(PadMessage) BY DEF TypeOK, PairType
\* The registration is in pipe afterwards if it was, or was fresh and is not.
<1>4. Once(pipe', m) /\ (Has(pipe', m) => Has(pipe, m) \/ (Fresh(r) /\ ~Fresh(r)'))
  <2>1. CASE pipe' = pipe BY <1>1, <2>1
  <2>2. CASE pipe # <<>> /\ pipe' = Tail(pipe) BY <1>1, <1>3, <2>2, HasTail
  <2>3. ASSUME NEW x \in PadMessage, x.cmd \in {"unregister_source", "unregister_sink"},
               pipe' = Append(pipe, x)
        PROVE Once(pipe', m) /\ (Has(pipe', m) => Has(pipe, m))
    <3>1. x # m BY <1>0, <2>3 DEF RegSourceMsg
    <3> QED BY <1>1, <1>3, <2>3, <3>1, HasAppend
  <2>4. ASSUME NEW c \in Conns, Register(c)
        PROVE Once(pipe', m) /\ (Has(pipe', m) => Has(pipe, m) \/ (Fresh(r) /\ ~Fresh(r)'))
    <3>1. /\ pc[c] = "register" /\ pc' = [pc EXCEPT ![c] = "await"] /\ cmds' = cmds
      BY <2>4 DEF Register
    <3>2. PICK n \in 1 .. MaxCmds : n = cmds[c]
      BY <3>1, BoundAssumption DEF TypeOK, ConnType, Shape, ConnShape
    <3>3. PICK a \in {"register_source", "register_sink"} :
             pipe' = Append(pipe, [cmd |-> a, conn |-> c, n |-> n])
      BY <2>4, <3>2 DEF Register
    <3>4. PICK x \in PadMessage : x = [cmd |-> a, conn |-> c, n |-> n] BY DEF PadMessage, RegisterMsg
    <3>5. x = m => Fresh(r) /\ ~Fresh(r)'
      <4> SUFFICES ASSUME x = m PROVE Fresh(r) /\ ~Fresh(r)' OBVIOUS
      <4>1. r[1] = c /\ r[2] = n BY <1>0, <3>4 DEF RegSourceMsg
      <4> QED BY <3>1, <3>2, <4>1 DEF Fresh, TypeOK, ConnType
    <3>6. pipe' = Append(pipe, x) BY <3>3, <3>4
    <3> QED BY <1>1, <1>3, <3>5, <3>6, HasAppend
  <2> QED BY <2>1, <2>2, <2>3, <2>4, PipeNext
<1>5. Fresh(r)' => ~Has(pipe', m) BY <1>1, <1>2, <1>4
<1>6. ASSUME Fresh(r)' \/ Has(pipe', m) PROVE work'[r].at = "off"
  <2>1. work[r].at = "off" BY <1>1, <1>2, <1>4, <1>6
  <2>2. ~SourceWork(r)
    BY <2>1 DEF SourceWork, ConnectSink, HandleRtmpMessage, DeleteSink, Receive, WriteData,
                CancelSink, Evict, SourceDone
  <2>3. CASE work'[r] = work[r] BY <2>1, <2>3
  <2>4. CASE pipe # <<>> /\ HandleRegisterSource(Head(pipe)) /\ r = RegOf(Head(pipe))
    <3>1. Take(Head(pipe), "register_source") BY <2>4 DEF HandleRegisterSource
    <3>2. PICK x \in PadMessage : x = Head(pipe) /\ x.cmd = "register_source"
      BY <3>1, TakeFacts
    <3>3. x \in RegisterMsg BY <3>2 DEF PadMessage, UnregisterMsg, DataMsg
    <3>4. x = m BY <1>0, <2>4, <3>2, <3>3 DEF RegSourceMsg, RegOf, RegisterMsg
    <3>5. pipe' = Tail(pipe) BY <3>1 DEF Take
    <3>6. Has(pipe, m) /\ ~Has(pipe', m) BY <1>1, <1>3, <2>4, <3>2, <3>4, <3>5, HasTail
    <3> QED BY <1>1, <1>2, <1>6, <3>6
  <2> QED BY <2>2, <2>3, <2>4, WorkFrame
<1> QED BY <1>0, <1>4, <1>5, <1>6

\* At first.
LEMMA MapsInit == Init => OneEntry /\ WorkInv /\ StartOnce
<1> SUFFICES ASSUME Init PROVE OneEntry /\ WorkInv /\ StartOnce OBVIOUS
<1>1. OneEntry BY DEF Init, OneEntry
<1>2. WorkInv BY DEF Init, WorkInv, InHand, Idle
<1>3. StartOnce BY DEF Init, StartOnce, Once, Has, Idle
<1> QED BY <1>1, <1>2, <1>3

\* The invariants of this module, for the modules that build on it.
BaseInv == TypeInv /\ PlaceInv /\ OneEntry /\ WorkInv /\ StartOnce

\* They hold at first and every step keeps them.
LEMMA BaseInductive == (Init => BaseInv) /\ (BaseInv /\ [Next]_vars => BaseInv')
BY InitType, TypeStep, PlaceInit, PlaceNext, MapsInit, EntryNext, WorkNext, StartNext DEF BaseInv
=============================================================================
