------------------------ MODULE ExchangeStreamProofs ------------------------
(***************************************************************************)
(* What the sinks of Exchange are sent, and what the handlers ask for: the *)
(* exchanger implements Broadcast, what a player is sent can be played,    *)
(* who is registered for a key and who may be fed by whom, and which       *)
(* misuse it takes to make pairPad or a source panic, for every number of  *)
(* connections, commands and messages and all capacities.                  *)
(***************************************************************************)
EXTENDS ExchangeProofs

USE DEF connVars, pairVars, srcVars, sinkVars

(***************************************************************************)
(* The data messages of a channel q of a source that accepted l messages,  *)
(* d of which its worker has handled: d + 1, ..., l, in order.             *)
(***************************************************************************)
InOrder(q, d, l) ==
    /\ d <= l
    /\ \A i \in 1 .. Len(q) : q[i].cmd = "data" => d < q[i].n /\ q[i].n <= l
    /\ \A i, j \in 1 .. Len(q) :
          q[i].cmd = "data" /\ q[j].cmd = "data" /\ i < j => q[i].n < q[j].n
    /\ \A n \in d + 1 .. l : \E i \in 1 .. Len(q) : q[i].cmd = "data" /\ q[i].n = n

\* A data message has a number.
LEMMA DataNumber ==
    ASSUME NEW q \in Seq(PadMessage)
    PROVE \A i \in 1 .. Len(q) : q[i].cmd = "data" => q[i].n \in Nat
<1>1. \A i \in 1 .. Len(q) : q[i] \in PadMessage BY ElementOfSeq
<1> QED BY <1>1, MessageType, BoundAssumption

\* Sends of pairPad, and PutData.
LEMMA InOrderSend ==
    ASSUME NEW q \in Seq(PadMessage), NEW d \in Nat, NEW l \in Nat, InOrder(q, d, l),
           NEW x \in PadMessage
    PROVE /\ x.cmd # "data" => InOrder(Append(q, x), d, l)
          /\ x.cmd = "data" /\ x.n = l + 1 => InOrder(Append(q, x), d, l + 1)
<1>1. /\ Len(Append(q, x)) = Len(q) + 1 /\ Len(q) \in Nat
      /\ \A i \in 1 .. Len(q) : Append(q, x)[i] = q[i]
      /\ Append(q, x)[Len(q) + 1] = x
  BY AppendProperties, LenProperties
<1>2. \A i \in 1 .. Len(q) + 1 : i \in 1 .. Len(q) \/ i = Len(q) + 1 BY <1>1
<1>3. Len(q) + 1 \in 1 .. Len(q) + 1 /\ 1 .. Len(q) \subseteq 1 .. Len(q) + 1 BY <1>1
<1>4. \A i \in 1 .. Len(q) : q[i].cmd = "data" => q[i].n \in Nat BY DataNumber
<1>5. ASSUME x.cmd # "data" PROVE InOrder(Append(q, x), d, l)
  <2>1. \A i \in 1 .. Len(q) + 1 : Append(q, x)[i].cmd = "data" => i \in 1 .. Len(q)
    BY <1>1, <1>2, <1>5
  <2> QED BY <1>1, <1>3, <2>1 DEF InOrder
<1>6. ASSUME x.cmd = "data", x.n = l + 1 PROVE InOrder(Append(q, x), d, l + 1)
  <2>1. d <= l + 1 BY DEF InOrder
  <2>2. \A i \in 1 .. Len(q) + 1 : Append(q, x)[i].cmd = "data" =>
           d < Append(q, x)[i].n /\ Append(q, x)[i].n <= l + 1
    BY <1>1, <1>2, <1>4, <1>6 DEF InOrder
  <2>3. ASSUME NEW i \in 1 .. Len(q) + 1, NEW j \in 1 .. Len(q) + 1, i < j,
               Append(q, x)[i].cmd = "data", Append(q, x)[j].cmd = "data"
        PROVE Append(q, x)[i].n < Append(q, x)[j].n
    <3>1. i \in 1 .. Len(q) BY <1>1, <2>3
    <3>2. CASE j \in 1 .. Len(q) BY <1>1, <2>3, <3>1, <3>2 DEF InOrder
    <3>3. CASE j = Len(q) + 1 BY <1>1, <1>4, <1>6, <2>3, <3>1, <3>3 DEF InOrder
    <3> QED BY <1>2, <3>2, <3>3
  <2>4. ASSUME NEW n \in d + 1 .. l + 1
        PROVE \E i \in 1 .. Len(q) + 1 : Append(q, x)[i].cmd = "data" /\ Append(q, x)[i].n = n
    <3>1. CASE n = l + 1 BY <1>1, <1>3, <1>6, <3>1
    <3>2. CASE n # l + 1
      <4>1. n \in d + 1 .. l BY <3>2
      <4>2. PICK i \in 1 .. Len(q) : q[i].cmd = "data" /\ q[i].n = n BY <4>1 DEF InOrder
      <4> QED BY <1>1, <1>3, <4>2
    <3> QED BY <3>1, <3>2
  <2> QED BY <1>1, <2>1, <2>2, <2>3, <2>4 DEF InOrder
<1> QED BY <1>5, <1>6

\* Receives of the worker.
LEMMA InOrderReceive ==
    ASSUME NEW q \in Seq(PadMessage), NEW d \in Nat, NEW l \in Nat, InOrder(q, d, l), q # <<>>
    PROVE /\ Head(q).cmd # "data" => InOrder(Tail(q), d, l)
          /\ Head(q).cmd = "data" => Head(q).n = d + 1 /\ d + 1 <= l /\ InOrder(Tail(q), d + 1, l)
<1>1. /\ Len(Tail(q)) = Len(q) - 1 /\ Len(q) \in Nat /\ Len(q) >= 1 /\ Head(q) = q[1]
      /\ \A i \in 1 .. Len(Tail(q)) : Tail(q)[i] = q[i + 1]
  BY HeadTailProperties, EmptySeq, LenProperties
<1>2. \A i \in 1 .. Len(q) : i = 1 \/ (i - 1 \in 1 .. Len(Tail(q)) /\ (i - 1) + 1 = i) BY <1>1
<1>3. \A i \in 1 .. Len(Tail(q)) : i + 1 \in 1 .. Len(q) /\ 1 < i + 1 BY <1>1
<1>4. 1 \in 1 .. Len(q) BY <1>1
<1>5. \A i \in 1 .. Len(q) : q[i].cmd = "data" => q[i].n \in Nat BY DataNumber
<1>6. \A i, j \in 1 .. Len(Tail(q)) : i < j => i + 1 < j + 1 BY <1>1
<1>7. \A i, j \in 1 .. Len(Tail(q)) :
         Tail(q)[i].cmd = "data" /\ Tail(q)[j].cmd = "data" /\ i < j => Tail(q)[i].n < Tail(q)[j].n
  BY <1>1, <1>3, <1>6 DEF InOrder
<1>8. ASSUME NEW n \in d + 1 .. l, Head(q).cmd = "data" => Head(q).n # n
      PROVE \E i \in 1 .. Len(Tail(q)) : Tail(q)[i].cmd = "data" /\ Tail(q)[i].n = n
  <2>1. PICK i \in 1 .. Len(q) : q[i].cmd = "data" /\ q[i].n = n BY DEF InOrder
  <2>2. i # 1 BY <1>1, <1>8, <2>1
  <2>3. i - 1 \in 1 .. Len(Tail(q)) /\ (i - 1) + 1 = i BY <1>2, <2>2
  <2>4. Tail(q)[i - 1] = q[i] BY <1>1, <2>3
  <2> QED BY <2>1, <2>3, <2>4
<1>9. ASSUME Head(q).cmd # "data" PROVE InOrder(Tail(q), d, l)
  <2>1. \A i \in 1 .. Len(Tail(q)) : Tail(q)[i].cmd = "data" => d < Tail(q)[i].n /\ Tail(q)[i].n <= l
    BY <1>1, <1>3 DEF InOrder
  <2>2. \A n \in d + 1 .. l : \E i \in 1 .. Len(Tail(q)) : Tail(q)[i].cmd = "data" /\ Tail(q)[i].n = n
    BY <1>8, <1>9
  <2> QED BY <1>7, <2>1, <2>2 DEF InOrder
<1>10. ASSUME Head(q).cmd = "data"
       PROVE Head(q).n = d + 1 /\ d + 1 <= l /\ InOrder(Tail(q), d + 1, l)
  <2>1. q[1].cmd = "data" /\ q[1].n \in Nat /\ d < q[1].n /\ q[1].n <= l
    BY <1>1, <1>4, <1>5, <1>10 DEF InOrder
  <2>2. d + 1 \in d + 1 .. l BY <2>1
  <2>3. PICK i \in 1 .. Len(q) : q[i].cmd = "data" /\ q[i].n = d + 1 BY <2>2 DEF InOrder
  <2>4. 1 < i => q[1].n < q[i].n BY <1>4, <2>1, <2>3 DEF InOrder
  <2>5. i = 1 BY <2>1, <2>3, <2>4
  <2>6. q[1].n = d + 1 BY <2>3, <2>5
  <2>7. \A j \in 1 .. Len(Tail(q)) : Tail(q)[j].cmd = "data" => d + 1 < Tail(q)[j].n /\ Tail(q)[j].n <= l
    <3> SUFFICES ASSUME NEW j \in 1 .. Len(Tail(q)), Tail(q)[j].cmd = "data"
                 PROVE d + 1 < Tail(q)[j].n /\ Tail(q)[j].n <= l
      OBVIOUS
    <3>1. Tail(q)[j] = q[j + 1] /\ j + 1 \in 1 .. Len(q) /\ 1 < j + 1 BY <1>1, <1>3
    <3>2. q[1].n < q[j + 1].n /\ q[j + 1].n <= l BY <1>4, <2>1, <3>1 DEF InOrder
    <3> QED BY <2>6, <3>1, <3>2
  <2>8. \A n \in (d + 1) + 1 .. l : \E j \in 1 .. Len(Tail(q)) : Tail(q)[j].cmd = "data" /\ Tail(q)[j].n = n
    <3> SUFFICES ASSUME NEW n \in (d + 1) + 1 .. l
                 PROVE \E j \in 1 .. Len(Tail(q)) : Tail(q)[j].cmd = "data" /\ Tail(q)[j].n = n
      OBVIOUS
    <3>1. n \in d + 1 .. l /\ n # d + 1 OBVIOUS
    <3> QED BY <1>1, <1>8, <2>6, <3>1
  <2> QED BY <1>1, <1>7, <2>1, <2>2, <2>6, <2>7, <2>8 DEF InOrder
<1> QED BY <1>9, <1>10

(***************************************************************************)
(* The sources.                                                            *)
(***************************************************************************)
\* n is the newest message of kind kd among the first d of lg, 0 for none.
IsNewest(lg, kd, d, n) ==
    IF n = 0 THEN \A j \in 1 .. d : lg[j] # kd
    ELSE n \in 1 .. d /\ lg[n] = kd /\ \A j \in 1 .. d : lg[j] = kd => j <= n

SourceGood(r) ==
    /\ InOrder(srcChan[r], done[r], Len(log[r]))
    /\ IsNewest(log[r], "vcfg", done[r], vcfg[r])
    /\ IsNewest(log[r], "acfg", done[r], acfg[r])
    /\ work[r].at \in {"write", "evict"} /\ work[r].todo # {} => work[r].n = done[r]
HandGood == \A m \in pair.todo : m.cmd # "data"
SourceInv == HandGood /\ \A r \in Regs : SourceGood(r)

\* A new message in the log changes nothing among the first d.
LEMMA NewestAppend ==
    ASSUME NEW lg \in Seq(Kinds), NEW x \in Kinds, NEW d \in Nat, d <= Len(lg),
           NEW kd, NEW n \in Nat, IsNewest(lg, kd, d, n)
    PROVE IsNewest(Append(lg, x), kd, d, n)
<1>1. \A j \in 1 .. d : Append(lg, x)[j] = lg[j] /\ j \in 1 .. Len(lg)
  BY AppendProperties, LenProperties
<1> QED BY <1>1 DEF IsNewest

\* handleRtmpMessage stores the message when it is a configuration.
LEMMA NewestHandled ==
    ASSUME NEW lg, NEW d \in Nat, NEW kd, NEW n \in Nat, IsNewest(lg, kd, d, n)
    PROVE IsNewest(lg, kd, d + 1, IF lg[d + 1] = kd THEN d + 1 ELSE n)
<1>1. \A j \in 1 .. d + 1 : j \in 1 .. d \/ j = d + 1 OBVIOUS
<1>2. 1 .. d \subseteq 1 .. d + 1 /\ d + 1 \in 1 .. d + 1 /\ d + 1 # 0 OBVIOUS
<1>3. CASE lg[d + 1] = kd
  <2>1. \A j \in 1 .. d + 1 : j <= d + 1 OBVIOUS
  <2> QED BY <1>2, <1>3, <2>1 DEF IsNewest
<1>4. CASE lg[d + 1] # kd BY <1>1, <1>2, <1>4 DEF IsNewest
<1> QED BY <1>3, <1>4

\* pairPad never has a data message in hand.
LEMMA HandNext == TypeInv /\ HandGood /\ [Next]_vars => HandGood'
<1> SUFFICES ASSUME TypeInv, HandGood, [Next]_vars PROVE HandGood' OBVIOUS
<1> USE DEF TypeInv
<1>1. ASSUME NEW c \in Conns, Client(c) \/ Handler(c) PROVE pair' = pair
  BY <1>1 DEF Client, Handler, StreamCommand, CommandFails, Put, PutRefused, PutWithoutSource,
              Disconnect, Register, Unregister, CancelSelf
<1>2. ASSUME NEW r \in Regs, SourceWork(r) \/ SinkRun(r) PROVE pair' = pair
  BY <1>2 DEF SourceWork, ConnectSink, HandleRtmpMessage, DeleteSink, WriteData, CancelSink,
              Evict, SourceDone, SinkRun, SinkDeliver, SinkDone
<1>3. ASSUME pipe # <<>>, Handle(Head(pipe)) PROVE HandGood'
  <2>1. \/ pair' = pair
        \/ pair' = [Receiving EXCEPT !.at = "notify", !.src = RegOf(Head(pipe))]
        \/ /\ Head(pipe).cmd # "data"
           /\ pair' = [Receiving EXCEPT !.at = "forward", !.src = receivers[key[Head(pipe).conn]],
                                        !.todo = {Head(pipe)}]
    BY <1>3 DEF Handle, HandleRegisterSource, HandleUnregisterSource, HandleRegisterSinkWait,
                HandleRegisterSink, HandleUnregisterSink, Take
  <2>2. [Receiving EXCEPT !.at = "notify", !.src = RegOf(Head(pipe))].todo = {} BY DEF Receiving
  <2>3. [Receiving EXCEPT !.at = "forward", !.src = receivers[key[Head(pipe).conn]],
                          !.todo = {Head(pipe)}].todo = {Head(pipe)}
    BY DEF Receiving
  <2>4. pair'.todo = pair.todo \/ pair'.todo = {} \/ (pair'.todo = {Head(pipe)} /\ Head(pipe).cmd # "data")
    BY <2>1, <2>2, <2>3
  <2> QED BY <2>4 DEF HandGood
<1>4. CASE NotifyWaitSenders
  <2>0. pair \in PairStates BY DEF TypeOK, PairType
  <2>1. \/ pair' = Receiving
        \/ \E k, W : pair' = [pair EXCEPT !.at = "loop", !.key = k, !.todo = {RegSinkMsg(s) : s \in W}]
    BY <1>4 DEF NotifyWaitSenders
  <2>2. \A k, W : [pair EXCEPT !.at = "loop", !.key = k, !.todo = {RegSinkMsg(s) : s \in W}].todo
                  = {RegSinkMsg(s) : s \in W}
    BY <2>0 DEF PairStates
  <2>3. Receiving.todo = {} BY DEF Receiving
  <2>4. pair'.todo = {} \/ \E W : pair'.todo = {RegSinkMsg(s) : s \in W}
    BY <2>1, <2>2, <2>3
  <2> QED BY <2>4 DEF HandGood, RegSinkMsg
<1>5. ASSUME NEW m \in pair.todo, NotifyOne(m) \/ Forward(m) PROVE HandGood'
  <2>0. pair \in PairStates BY DEF TypeOK, PairType
  <2>1. pair' = Receiving \/ pair' = [pair EXCEPT !.todo = @ \ {m}] BY <1>5 DEF NotifyOne, Forward
  <2>2. [pair EXCEPT !.todo = @ \ {m}].todo \subseteq pair.todo BY <2>0 DEF PairStates
  <2>3. Receiving.todo = {} BY DEF Receiving
  <2>4. pair'.todo \subseteq pair.todo BY <2>1, <2>2, <2>3
  <2> QED BY <2>4 DEF HandGood
<1>6. CASE UNCHANGED vars BY <1>6 DEF vars, HandGood
<1> QED BY <1>1, <1>2, <1>3, <1>4, <1>5, <1>6 DEF Next, PairPad, HandGood

\* What steps of others do to a source: its channel takes a message, which is
\* a data message only when its log takes it too.
LEMMA SourceFrame ==
    ASSUME TypeInv, HandGood, NEW r \in Regs, [Next]_vars, ~SourceWork(r)
    PROVE /\ done'[r] = done[r] /\ vcfg'[r] = vcfg[r] /\ acfg'[r] = acfg[r]
          /\ \/ srcChan'[r] = srcChan[r] /\ log'[r] = log[r]
             \/ \E x \in PadMessage : /\ x.cmd # "data" /\ log'[r] = log[r]
                                      /\ srcChan'[r] = Append(srcChan[r], x)
             \/ \E x \in PadMessage, kd \in Kinds :
                    /\ x.cmd = "data" /\ x.n = Len(log[r]) + 1 /\ log'[r] = Append(log[r], kd)
                    /\ srcChan'[r] = Append(srcChan[r], x)
<1> USE DEF TypeInv
<1>1. ASSUME NEW c \in Conns, NEW kd \in Kinds, Put(c, kd)
      PROVE /\ UNCHANGED <<done, vcfg, acfg>>
            /\ \/ srcChan'[r] = srcChan[r] /\ log'[r] = log[r]
               \/ \E x \in PadMessage :
                    /\ x.cmd = "data" /\ x.n = Len(log[r]) + 1 /\ log'[r] = Append(log[r], kd)
                    /\ srcChan'[r] = Append(srcChan[r], x)
  <2>1. PICK q \in Regs : q = putMsg[c] BY <1>1 DEF Put, TypeOK, ConnType
  <2>2. Len(log[q]) \in Nat BY DEF TypeOK, SourceType
  <2>3. PICK n \in Nat : n = Len(log[q]) + 1 BY <2>2
  <2>4. n \in 1 .. MaxPuts BY <1>1, <2>1, <2>2, <2>3, BoundAssumption DEF Put
  <2>5. PICK x \in PadMessage : x = [cmd |-> "data", conn |-> c, n |-> n]
    BY <2>4 DEF PadMessage, DataMsg
  <2>6. /\ srcChan' = [srcChan EXCEPT ![q] = Append(@, x)] /\ log' = [log EXCEPT ![q] = Append(@, kd)]
        /\ UNCHANGED <<done, vcfg, acfg>>
    BY <1>1, <2>1, <2>3, <2>5 DEF Put
  <2>7. CASE q # r BY <2>6, <2>7 DEF TypeOK, SourceType
  <2>8. CASE q = r
    <3>1. srcChan'[r] = Append(srcChan[r], x) /\ log'[r] = Append(log[r], kd)
      BY <2>6, <2>8 DEF TypeOK, SourceType
    <3>2. x.cmd = "data" /\ x.n = Len(log[r]) + 1 BY <2>3, <2>5, <2>8
    <3> QED BY <2>6, <3>1, <3>2
  <2> QED BY <2>7, <2>8
<1>2. ASSUME NEW c \in Conns, Client(c), ~\E kd \in Kinds : Put(c, kd)
      PROVE UNCHANGED <<done, vcfg, acfg, srcChan, log>>
  BY <1>2 DEF Client, StreamCommand, CommandFails, PutRefused, PutWithoutSource, Disconnect
<1>3. ASSUME NEW c \in Conns, Handler(c) PROVE UNCHANGED <<done, vcfg, acfg, srcChan, log>>
  BY <1>3 DEF Handler, Register, Unregister, CancelSelf
<1>4. ASSUME NEW m \in pair.todo, NotifyOne(m) \/ Forward(m)
      PROVE /\ UNCHANGED <<done, vcfg, acfg, log>>
            /\ \/ srcChan'[r] = srcChan[r]
               \/ \E x \in PadMessage : x.cmd # "data" /\ srcChan'[r] = Append(srcChan[r], x)
  <2>1. m \in PadMessage /\ m.cmd # "data" BY DEF TypeOK, PairType, PairStates, HandGood
  <2>2. srcChan' = [srcChan EXCEPT ![pair.src] = Append(@, m)] /\ UNCHANGED <<done, vcfg, acfg, log>>
    BY <1>4 DEF NotifyOne, Forward
  <2>3. CASE pair.src = r
    <3>1. srcChan'[r] = Append(srcChan[r], m) BY <2>2, <2>3 DEF TypeOK, SourceType
    <3> QED BY <2>1, <2>2, <3>1
  <2>4. CASE pair.src # r BY <2>2, <2>4 DEF TypeOK, SourceType
  <2> QED BY <2>3, <2>4
<1>5. ASSUME NotifyWaitSenders \/ (pipe # <<>> /\ Handle(Head(pipe)))
      PROVE UNCHANGED <<done, vcfg, acfg, srcChan, log>>
  BY <1>5 DEF Handle, HandleRegisterSource, HandleUnregisterSource, HandleRegisterSinkWait,
              HandleRegisterSink, HandleUnregisterSink, NotifyWaitSenders
<1>6. ASSUME NEW s \in Regs, SinkRun(s) PROVE UNCHANGED <<done, vcfg, acfg, srcChan, log>>
  BY <1>6 DEF SinkRun, SinkDeliver, SinkDone
<1>7. ASSUME NEW q \in Regs, SourceWork(q), q # r
      PROVE /\ done'[r] = done[r] /\ vcfg'[r] = vcfg[r] /\ acfg'[r] = acfg[r]
            /\ srcChan'[r] = srcChan[r] /\ log'[r] = log[r]
  <2>1. /\ log' = log
        /\ srcChan' = srcChan \/ srcChan' = [srcChan EXCEPT ![q] = Tail(@)]
    BY <1>7 DEF SourceWork, ConnectSink, HandleRtmpMessage, DeleteSink, Receive, WriteData,
                CancelSink, Evict, SourceDone
  <2>2. \/ UNCHANGED <<done, vcfg, acfg>>
        \/ /\ \E w : done' = [done EXCEPT ![q] = w]
           /\ vcfg' = vcfg \/ \E w : vcfg' = [vcfg EXCEPT ![q] = w]
           /\ acfg' = acfg \/ \E w : acfg' = [acfg EXCEPT ![q] = w]
    <3>1. ASSUME NEW m, HandleRtmpMessage(q, m)
          PROVE /\ \E w : done' = [done EXCEPT ![q] = w]
                /\ vcfg' = vcfg \/ \E w : vcfg' = [vcfg EXCEPT ![q] = w]
                /\ acfg' = acfg \/ \E w : acfg' = [acfg EXCEPT ![q] = w]
      BY <3>1 DEF HandleRtmpMessage
    <3>2. UNCHANGED <<done, vcfg, acfg>> \/ HandleRtmpMessage(q, Head(srcChan[q]))
      BY <1>7 DEF SourceWork, ConnectSink, DeleteSink, WriteData, CancelSink, Evict, SourceDone
    <3> QED BY <3>1, <3>2
  <2> QED BY <1>7, <2>1, <2>2 DEF TypeOK, SourceType
<1>8. CASE UNCHANGED vars BY <1>8 DEF vars
<1>9. CASE PairPad BY <1>4, <1>5, <1>9 DEF PairPad
<1>10. ASSUME NEW c \in Conns, Client(c)
       PROVE \/ UNCHANGED <<done, vcfg, acfg, srcChan, log>>
             \/ \E kd \in Kinds : Put(c, kd)
  BY <1>2, <1>10
<1> QED BY <1>1, <1>3, <1>6, <1>7, <1>8, <1>9, <1>10 DEF Next

\* handleRtmpMessage: the message is the next one, the configurations are
\* stored, and it is written to the sinks there are.
LEMMA HandleFacts ==
    ASSUME TypeInv, SourceInv, NEW r \in Regs, HandleRtmpMessage(r, Head(srcChan[r]))
    PROVE /\ work[r].at = "select" /\ done'[r] = done[r] + 1 /\ done[r] + 1 <= Len(log[r])
          /\ done' = [done EXCEPT ![r] = done[r] + 1]
          /\ InOrder(srcChan'[r], done[r] + 1, Len(log[r]))
          /\ vcfg'[r] = (IF log[r][done[r] + 1] = "vcfg" THEN done[r] + 1 ELSE vcfg[r])
          /\ acfg'[r] = (IF log[r][done[r] + 1] = "acfg" THEN done[r] + 1 ELSE acfg[r])
          /\ \/ sinks[r] = {} /\ work' = work
             \/ work' = [work EXCEPT ![r] = [at |-> "write", n |-> done[r] + 1,
                                             todo |-> sinks[r], victim |-> NoReg]]
<1> USE DEF TypeInv
<1>1. /\ srcChan[r] \in Seq(PadMessage) /\ srcChan[r] # <<>> /\ Head(srcChan[r]).cmd = "data"
      /\ srcChan' = [srcChan EXCEPT ![r] = Tail(@)] /\ work[r].at = "select"
  BY DEF HandleRtmpMessage, Receive, TypeOK, SourceType
<1>2. done[r] \in Nat /\ Len(log[r]) \in Nat BY BoundAssumption DEF TypeOK, SourceType
<1>3. InOrder(srcChan[r], done[r], Len(log[r])) BY DEF SourceInv, SourceGood
<1>4. /\ Head(srcChan[r]).n = done[r] + 1 /\ done[r] + 1 <= Len(log[r])
      /\ InOrder(Tail(srcChan[r]), done[r] + 1, Len(log[r]))
  BY <1>1, <1>2, <1>3, InOrderReceive
<1>5. srcChan'[r] = Tail(srcChan[r]) BY <1>1 DEF TypeOK, SourceType
<1>6. PICK n \in Nat : n = done[r] + 1 BY <1>2
<1>7. done' = [done EXCEPT ![r] = n] BY <1>4, <1>6 DEF HandleRtmpMessage
<1>8. /\ vcfg' = (IF log[r][n] = "vcfg" THEN [vcfg EXCEPT ![r] = n] ELSE vcfg)
      /\ acfg' = (IF log[r][n] = "acfg" THEN [acfg EXCEPT ![r] = n] ELSE acfg)
  BY <1>4, <1>6 DEF HandleRtmpMessage
<1>9. \/ sinks[r] = {} /\ work' = work
      \/ work' = [work EXCEPT ![r] = [at |-> "write", n |-> n, todo |-> sinks[r], victim |-> NoReg]]
  BY <1>4, <1>6 DEF HandleRtmpMessage, Targets
<1>10. done'[r] = n BY <1>7 DEF TypeOK, SourceType
<1>11. vcfg'[r] = IF log[r][n] = "vcfg" THEN n ELSE vcfg[r] BY <1>8 DEF TypeOK, SourceType
<1>12. acfg'[r] = IF log[r][n] = "acfg" THEN n ELSE acfg[r] BY <1>8 DEF TypeOK, SourceType
<1> QED BY <1>1, <1>4, <1>5, <1>6, <1>7, <1>9, <1>10, <1>11, <1>12

\* Every step keeps the messages of a source in order and its configurations
\* up to date.
LEMMA SourceNext == TypeInv /\ SourceInv /\ [Next]_vars => SourceInv'
<1> SUFFICES ASSUME TypeInv, SourceInv, [Next]_vars, NEW r \in Regs PROVE SourceGood(r)'
  BY HandNext DEF SourceInv
<1> USE DEF TypeInv
<1>0. /\ srcChan[r] \in Seq(PadMessage) /\ log[r] \in Seq(Kinds) /\ done[r] \in Nat
      /\ vcfg[r] \in Nat /\ acfg[r] \in Nat /\ Len(log[r]) \in Nat
      /\ work[r] \in WorkStates /\ (work[r].at = "select" => work[r].todo = {})
  BY BoundAssumption DEF TypeOK, SourceType, Shape, GoodWork
<1>1. /\ InOrder(srcChan[r], done[r], Len(log[r]))
      /\ IsNewest(log[r], "vcfg", done[r], vcfg[r])
      /\ IsNewest(log[r], "acfg", done[r], acfg[r])
      /\ work[r].at \in {"write", "evict"} /\ work[r].todo # {} => work[r].n = done[r]
  BY DEF SourceInv, SourceGood
<1>2. CASE ~SourceWork(r)
  <2>1. /\ done'[r] = done[r] /\ vcfg'[r] = vcfg[r] /\ acfg'[r] = acfg[r]
        /\ \/ srcChan'[r] = srcChan[r] /\ log'[r] = log[r]
           \/ \E x \in PadMessage : /\ x.cmd # "data" /\ log'[r] = log[r]
                                    /\ srcChan'[r] = Append(srcChan[r], x)
           \/ \E x \in PadMessage, kd \in Kinds :
                  /\ x.cmd = "data" /\ x.n = Len(log[r]) + 1 /\ log'[r] = Append(log[r], kd)
                  /\ srcChan'[r] = Append(srcChan[r], x)
    BY <1>2, SourceFrame DEF SourceInv
  <2>2. work'[r] = work[r] \/ work'[r] = [Idle EXCEPT !.at = "select"] BY <1>2, WorkFrame
  <2>3. work'[r].at \in {"write", "evict"} /\ work'[r].todo # {} => work'[r].n = done'[r]
    BY <1>1, <2>1, <2>2 DEF Idle
  <2>4. CASE srcChan'[r] = srcChan[r] /\ log'[r] = log[r]
    BY <1>1, <2>1, <2>3, <2>4 DEF SourceGood
  <2>5. ASSUME NEW x \in PadMessage, x.cmd # "data", log'[r] = log[r],
               srcChan'[r] = Append(srcChan[r], x)
        PROVE SourceGood(r)'
    <3>1. InOrder(Append(srcChan[r], x), done[r], Len(log[r])) BY <1>0, <1>1, <2>5, InOrderSend
    <3> QED BY <1>1, <2>1, <2>3, <2>5, <3>1 DEF SourceGood
  <2>6. ASSUME NEW x \in PadMessage, NEW kd \in Kinds, x.cmd = "data", x.n = Len(log[r]) + 1,
               log'[r] = Append(log[r], kd), srcChan'[r] = Append(srcChan[r], x)
        PROVE SourceGood(r)'
    <3>1. InOrder(Append(srcChan[r], x), done[r], Len(log[r]) + 1) BY <1>0, <1>1, <2>6, InOrderSend
    <3>2. Len(Append(log[r], kd)) = Len(log[r]) + 1 BY <1>0, AppendProperties
    <3>3. done[r] <= Len(log[r]) BY <1>1 DEF InOrder
    <3>4. /\ IsNewest(Append(log[r], kd), "vcfg", done[r], vcfg[r])
          /\ IsNewest(Append(log[r], kd), "acfg", done[r], acfg[r])
      BY <1>0, <1>1, <3>3, NewestAppend
    <3> QED BY <2>1, <2>3, <2>6, <3>1, <3>2, <3>4 DEF SourceGood
  <2> QED BY <2>1, <2>4, <2>5, <2>6
<1>3. CASE HandleRtmpMessage(r, Head(srcChan[r]))
  <2>1. log' = log BY <1>3 DEF HandleRtmpMessage
  <2>2. /\ work[r].at = "select" /\ done'[r] = done[r] + 1
        /\ InOrder(srcChan'[r], done[r] + 1, Len(log[r]))
        /\ vcfg'[r] = (IF log[r][done[r] + 1] = "vcfg" THEN done[r] + 1 ELSE vcfg[r])
        /\ acfg'[r] = (IF log[r][done[r] + 1] = "acfg" THEN done[r] + 1 ELSE acfg[r])
        /\ \/ work' = work
           \/ work' = [work EXCEPT ![r] = [at |-> "write", n |-> done[r] + 1,
                                           todo |-> sinks[r], victim |-> NoReg]]
    BY <1>3, HandleFacts
  <2>3. IsNewest(log[r], "vcfg", done[r] + 1, vcfg'[r]) /\ IsNewest(log[r], "acfg", done[r] + 1, acfg'[r])
    BY <1>0, <1>1, <2>2, NewestHandled
  <2>4. \/ work'[r] = work[r]
        \/ work'[r] = [at |-> "write", n |-> done[r] + 1, todo |-> sinks[r], victim |-> NoReg]
    BY <2>2 DEF TypeOK, SourceType
  <2>5. work'[r].at \in {"write", "evict"} /\ work'[r].todo # {} => work'[r].n = done'[r]
    BY <2>2, <2>4
  <2> QED BY <2>1, <2>2, <2>3, <2>5 DEF SourceGood
<1>4. CASE ConnectSink(r, Head(srcChan[r])) \/ DeleteSink(r, Head(srcChan[r]))
  <2>1. /\ srcChan[r] # <<>> /\ Head(srcChan[r]).cmd # "data" /\ work[r].at = "select"
        /\ srcChan' = [srcChan EXCEPT ![r] = Tail(@)] /\ UNCHANGED <<done, vcfg, acfg, log>>
        /\ \/ work' = work
           \/ \E s : work' = [work EXCEPT ![r] = [@ EXCEPT !.at = "evict", !.victim = s]]
    BY <1>4 DEF ConnectSink, DeleteSink, Receive
  <2>2. srcChan'[r] = Tail(srcChan[r]) BY <2>1 DEF TypeOK, SourceType
  <2>3. InOrder(Tail(srcChan[r]), done[r], Len(log[r])) BY <1>0, <1>1, <2>1, InOrderReceive
  <2>4. \A s : [work[r] EXCEPT !.at = "evict", !.victim = s].todo = {} BY <1>0, <2>1 DEF WorkStates
  <2>5. \/ work'[r] = work[r]
        \/ \E s : work'[r] = [work[r] EXCEPT !.at = "evict", !.victim = s]
    BY <2>1 DEF TypeOK, SourceType
  <2>6. work'[r].todo = {} BY <1>0, <2>1, <2>4, <2>5
  <2> QED BY <1>1, <2>1, <2>2, <2>3, <2>6 DEF SourceGood
<1>5. ASSUME UNCHANGED <<srcChan, done, vcfg, acfg, log>>,
             work'[r].at \in {"write", "evict"} /\ work'[r].todo # {} =>
                work[r].at \in {"write", "evict"} /\ work[r].todo # {} /\ work'[r].n = work[r].n
      PROVE SourceGood(r)'
  BY <1>1, <1>5 DEF SourceGood
<1>6. \A t : /\ Resume(r, t).at \in {"write", "evict"} => t # {} /\ Resume(r, t).n = work[r].n
  BY <1>0 DEF Resume, Idle, WorkStates
<1>7. ASSUME NEW s \in work[r].todo, WriteData(r, s) PROVE SourceGood(r)'
  <2>1. /\ work[r].at = "write" /\ UNCHANGED <<srcChan, done, vcfg, acfg, log>>
        /\ \/ work' = [work EXCEPT ![r] = Resume(r, work[r].todo \ {s})]
           \/ work' = [work EXCEPT ![r] = OnFull(r, s)]
    BY <1>7 DEF WriteData
  <2>2. work'[r] = Resume(r, work[r].todo \ {s}) \/ work'[r] = OnFull(r, s)
    BY <2>1 DEF TypeOK, SourceType
  <2>3. OnFull(r, s).n = work[r].n BY <1>0 DEF OnFull, WorkStates
  <2> QED BY <1>5, <1>6, <1>7, <2>1, <2>2, <2>3
<1>8. CASE Evict(r)
  <2>1. /\ work[r].at = "evict" /\ UNCHANGED <<srcChan, done, vcfg, acfg, log>>
        /\ work' = [work EXCEPT ![r] = Resume(r, work[r].todo)]
    BY <1>8 DEF Evict
  <2>2. work'[r] = Resume(r, work[r].todo) BY <2>1 DEF TypeOK, SourceType
  <2> QED BY <1>5, <1>6, <2>1, <2>2
<1>9. CASE SourceDone(r) \/ \E s \in work[r].todo : CancelSink(r, s)
  <2>1. /\ UNCHANGED <<srcChan, done, vcfg, acfg, log>>
        /\ \E a \in {"quit", "cancelSinks"} : \E t : work' = [work EXCEPT ![r] = [work[r] EXCEPT !.at = a, !.todo = t]]
    BY <1>9 DEF SourceDone, CancelSink
  <2>2. PICK a \in {"quit", "cancelSinks"} : \E t : work'[r] = [work[r] EXCEPT !.at = a, !.todo = t]
    BY <2>1 DEF TypeOK, SourceType
  <2>3. work'[r].at = a BY <1>0, <2>2 DEF WorkStates
  <2> QED BY <1>5, <2>1, <2>3
<1> QED BY <1>2, <1>3, <1>4, <1>7, <1>8, <1>9 DEF SourceWork

\* At first no source has accepted anything.
LEMMA SourceInit == Init => SourceInv
<1> SUFFICES ASSUME Init PROVE SourceInv OBVIOUS
<1>1. HandGood BY DEF Init, HandGood, Receiving
<1>2. ASSUME NEW r \in Regs PROVE SourceGood(r)
  <2>1. /\ srcChan[r] = <<>> /\ done[r] = 0 /\ vcfg[r] = 0 /\ acfg[r] = 0 /\ log[r] = <<>>
        /\ work[r] = Idle
    BY DEF Init
  <2>2. InOrder(<<>>, 0, 0) BY DEF InOrder
  <2>3. IsNewest(<<>>, "vcfg", 0, 0) /\ IsNewest(<<>>, "acfg", 0, 0) BY DEF IsNewest
  <2> QED BY <2>1, <2>2, <2>3 DEF SourceGood, Idle
<1> QED BY <1>1, <1>2 DEF SourceInv

(***************************************************************************)
(* A sink that no source has had yet is sent nothing.                      *)
(***************************************************************************)
\* On its way to a source, or not yet sent to pairPad.
Untouched(s) ==
    \/ Fresh(s) \/ Has(pipe, RegSinkMsg(s)) \/ RegSinkMsg(s) \in pair.todo
    \/ \E k \in AnyKey : Waits(s, k)
    \/ \E r \in Regs : Has(srcChan[r], RegSinkMsg(s))

UntouchedUnfed == \A s \in Regs : Untouched(s) => \A r \in Regs : s \notin sinks[r]

\* An untouched sink is in the map of no source.
LEMMA UntouchedPlace == PlaceInv => UntouchedUnfed
<1> SUFFICES ASSUME PlaceInv, NEW s \in Regs, Untouched(s), NEW q \in Regs, s \in sinks[q]
             PROVE FALSE
  BY DEF UntouchedUnfed
<1>1. Apart(s) /\ (Fresh(s) => NoPlace(s)) BY DEF PlaceInv
<1>2. /\ {"pipe", "wait", "chan", "conn", "hand"} \subseteq PlaceNames
      /\ Regs \subseteq PlaceArgs /\ AnyKey \subseteq PlaceArgs /\ NoReg \in PlaceArgs
  BY DEF PlaceNames, PlaceArgs
<1>3. Holds(s, "conn", q) BY DEF Holds
<1>4. ~Fresh(s) BY <1>1, <1>2, <1>3 DEF NoPlace
<1>5. \/ Holds(s, "pipe", NoReg) \/ Holds(s, "hand", NoReg)
      \/ (\E k \in AnyKey : Holds(s, "wait", k)) \/ \E r \in Regs : Holds(s, "chan", r)
  BY <1>4 DEF Untouched, Holds
<1> QED BY <1>1, <1>2, <1>3, <1>5 DEF Apart

\* The same after a step.
LEMMA UntouchedPlacePrime == PlaceInv' => UntouchedUnfed'
BY UntouchedPlace, PTL

\* At first no sink is fed and none was sent anything.
LEMMA BroadcastInit == Init => B!BInit
<1> SUFFICES ASSUME Init PROVE B!BInit OBVIOUS
<1>1. \A s \in Regs : Feed(s) = NoReg /\ Position(s) = 0 BY DEF Init, Feed, Position
<1>2. \A s \in Regs : Sent(s) = <<>> BY DEF Init, Sent
<1> QED BY <1>1, <1>2 DEF Init, B!BInit

\* What pairPad takes up comes from pipe, for the source of the key, or from a
\* waiting list, for the source that has registered.
LEMMA UntouchedHand ==
    ASSUME TypeInv, [Next]_vars, NEW s \in Regs, RegSinkMsg(s) \in pair'.todo
    PROVE \/ RegSinkMsg(s) \in pair.todo /\ pair'.src = pair.src
          \/ Has(pipe, RegSinkMsg(s)) /\ pair'.src = receivers[key[ConnOf(s)]] /\ pair'.src # NoReg
          \/ \E k \in AnyKey : /\ Waits(s, k) /\ pair.at = "notify"
                               /\ pair'.src = pair.src /\ key[ConnOf(pair.src)] = k
<1> USE DEF TypeInv
<1>1. ASSUME NEW c \in Conns, Client(c) \/ Handler(c) PROVE pair' = pair
  BY <1>1 DEF Client, Handler, StreamCommand, CommandFails, Put, PutRefused, PutWithoutSource,
              Disconnect, Register, Unregister, CancelSelf
<1>2. ASSUME NEW r \in Regs, SourceWork(r) \/ SinkRun(r) PROVE pair' = pair
  BY <1>2 DEF SourceWork, ConnectSink, HandleRtmpMessage, DeleteSink, WriteData, CancelSink,
              Evict, SourceDone, SinkRun, SinkDeliver, SinkDone
<1>3. ASSUME pipe # <<>>, Handle(Head(pipe))
      PROVE \/ RegSinkMsg(s) \in pair.todo /\ pair'.src = pair.src
            \/ Has(pipe, RegSinkMsg(s)) /\ pair'.src = receivers[key[ConnOf(s)]] /\ pair'.src # NoReg
  <2>1. \/ pair' = pair
        \/ pair' = [Receiving EXCEPT !.at = "notify", !.src = RegOf(Head(pipe))]
        \/ /\ receivers[key[Head(pipe).conn]] # NoReg
           /\ pair' = [Receiving EXCEPT !.at = "forward", !.src = receivers[key[Head(pipe).conn]],
                                        !.todo = {Head(pipe)}]
    BY <1>3 DEF Handle, HandleRegisterSource, HandleUnregisterSource, HandleRegisterSinkWait,
                HandleRegisterSink, HandleUnregisterSink
  <2>2. [Receiving EXCEPT !.at = "notify", !.src = RegOf(Head(pipe))].todo = {} BY DEF Receiving
  <2>3. ASSUME NEW r, NEW m, pair' = [Receiving EXCEPT !.at = "forward", !.src = r, !.todo = {m}]
        PROVE pair'.todo = {m} /\ pair'.src = r
    BY <2>3 DEF Receiving
  <2>4. \/ pair' = pair \/ pair'.todo = {}
        \/ /\ pair'.todo = {Head(pipe)} /\ receivers[key[Head(pipe).conn]] # NoReg
           /\ pair'.src = receivers[key[Head(pipe).conn]]
    BY <2>1, <2>2, <2>3
  <2>5. pipe \in Seq(PadMessage) BY DEF TypeOK, PairType
  <2>6. ASSUME Head(pipe) = RegSinkMsg(s) PROVE Has(pipe, RegSinkMsg(s)) /\ Head(pipe).conn = ConnOf(s)
    <3>1. Has(pipe, RegSinkMsg(s)) BY <1>3, <2>5, <2>6, HasTail
    <3> QED BY <2>6, <3>1 DEF RegSinkMsg, ConnOf
  <2> QED BY <2>4, <2>6
<1>4. ASSUME NotifyWaitSenders
      PROVE \E k \in AnyKey : /\ Waits(s, k) /\ pair.at = "notify"
                              /\ pair'.src = pair.src /\ key[ConnOf(pair.src)] = k
  <2>0. pair \in PairStates /\ pair.at = "notify" BY <1>4 DEF TypeOK, PairType, NotifyWaitSenders
  <2>1. PICK k \in AnyKey : k = key[ConnOf(pair.src)]
    BY <2>0, ConnOfType DEF TypeOK, ConnType, Shape, GoodPair
  <2>2. \/ pair' = Receiving
        \/ pair' = [pair EXCEPT !.at = "loop", !.key = k, !.todo = {RegSinkMsg(t) : t \in waiting[k]}]
    BY <1>4, <2>1 DEF NotifyWaitSenders, WaitersOf
  <2>3. \A T : LET p == [pair EXCEPT !.at = "loop", !.key = k, !.todo = T] IN
               p.todo = T /\ p.src = pair.src
    BY <2>0 DEF PairStates
  <2>4. Receiving.todo = {} BY DEF Receiving
  <2>5. RegSinkMsg(s) \in {RegSinkMsg(t) : t \in waiting[k]} /\ pair'.src = pair.src BY <2>2, <2>3, <2>4
  <2>6. waiting[k] \subseteq Regs BY DEF TypeOK, PairType
  <2>7. s \in waiting[k] BY <2>5, <2>6, SinkMsg
  <2> QED BY <2>0, <2>1, <2>5, <2>7 DEF Waits
<1>5. ASSUME NEW m \in pair.todo, NotifyOne(m) \/ Forward(m)
      PROVE RegSinkMsg(s) \in pair.todo /\ pair'.src = pair.src
  <2>0. pair \in PairStates BY DEF TypeOK, PairType
  <2>1. pair' = Receiving \/ pair' = [pair EXCEPT !.todo = @ \ {m}] BY <1>5 DEF NotifyOne, Forward
  <2>2. LET p == [pair EXCEPT !.todo = @ \ {m}] IN p.todo \subseteq pair.todo /\ p.src = pair.src
    BY <2>0 DEF PairStates
  <2>3. Receiving.todo = {} BY DEF Receiving
  <2> QED BY <2>1, <2>2, <2>3
<1>6. CASE UNCHANGED vars BY <1>6 DEF vars
<1> QED BY <1>1, <1>2, <1>3, <1>4, <1>5, <1>6 DEF Next, PairPad

\* A sink begins to wait out of pipe, for the key of its handler.
LEMMA UntouchedWaits ==
    ASSUME TypeInv, [Next]_vars, NEW s \in Regs, NEW k \in AnyKey, Waits(s, k)'
    PROVE Waits(s, k) \/ (Has(pipe, RegSinkMsg(s)) /\ key[ConnOf(s)] = k)
<1> USE DEF TypeInv
<1>1. ASSUME UNCHANGED <<waiting, pair>> PROVE Waits(s, k) BY <1>1 DEF Waits
<1>2. ASSUME NEW c \in Conns, Client(c) \/ Handler(c) PROVE UNCHANGED <<waiting, pair>>
  BY <1>2 DEF Client, Handler, StreamCommand, CommandFails, Put, PutRefused, PutWithoutSource,
              Disconnect, Register, Unregister, CancelSelf
<1>3. ASSUME NEW r \in Regs, SourceWork(r) \/ SinkRun(r) PROVE UNCHANGED <<waiting, pair>>
  BY <1>3 DEF SourceWork, ConnectSink, HandleRtmpMessage, DeleteSink, WriteData, CancelSink,
              Evict, SourceDone, SinkRun, SinkDeliver, SinkDone
<1>4. ASSUME NEW cmd, pipe # <<>>, Take(Head(pipe), cmd), waiting'[k] \subseteq waiting[k] PROVE Waits(s, k)
  <2>1. pair.at = "recv" BY <1>4, TakeFacts
  <2> QED BY <1>4, <2>1 DEF Waits
<1>5. ASSUME pipe # <<>>, HandleRegisterSource(Head(pipe)) \/ HandleUnregisterSource(Head(pipe))
                            \/ HandleRegisterSink(Head(pipe)) \/ HandleUnregisterSink(Head(pipe))
      PROVE Waits(s, k)
  <2>1. waiting'[k] \subseteq waiting[k]
    BY <1>5 DEF HandleRegisterSource, HandleUnregisterSource, HandleRegisterSink, HandleUnregisterSink,
                TypeOK, PairType
  <2> QED BY <1>4, <1>5, <2>1
          DEF HandleRegisterSource, HandleUnregisterSource, HandleRegisterSink, HandleUnregisterSink
<1>6. ASSUME pipe # <<>>, HandleRegisterSinkWait(Head(pipe))
      PROVE Waits(s, k) \/ (Has(pipe, RegSinkMsg(s)) /\ key[ConnOf(s)] = k)
  <2>1. Take(Head(pipe), "register_sink") BY <1>6 DEF HandleRegisterSinkWait
  <2>2. PICK m \in PadMessage : m = Head(pipe) /\ m.cmd = "register_sink" BY <2>1, TakeFacts
  <2>3. PICK t \in Regs : t = RegOf(m) /\ m = RegSinkMsg(t) /\ m.conn = ConnOf(t) BY <2>2, SinkMsg
  <2>4. \/ waiting' = waiting
        \/ waiting' = [waiting EXCEPT ![key[ConnOf(t)]] = @ \cup {t}]
    BY <1>6, <2>2, <2>3 DEF HandleRegisterSinkWait
  <2>5. s \in waiting'[k] => s \in waiting[k] \/ (s = t /\ key[ConnOf(t)] = k)
    BY <2>4 DEF TypeOK, PairType
  <2>6. pair.at = "recv" BY <2>1, TakeFacts
  <2>7. pipe \in Seq(PadMessage) BY DEF TypeOK, PairType
  <2>8. Has(pipe, RegSinkMsg(t)) BY <1>6, <2>2, <2>3, <2>7, HasTail
  <2> QED BY <2>5, <2>6, <2>8 DEF Waits
<1>7. ASSUME NotifyWaitSenders PROVE Waits(s, k)
  BY <1>7 DEF NotifyWaitSenders, Waits
<1>8. ASSUME NEW m \in pair.todo, NotifyOne(m) \/ Forward(m) PROVE Waits(s, k)
  <2>1. pair \in PairStates BY DEF TypeOK, PairType
  <2>2. CASE Forward(m) BY <2>2 DEF Forward, Waits
  <2>3. CASE NotifyOne(m) /\ pair.todo = {m}
    <3>1. pair.at = "loop" /\ pair' = Receiving /\ waiting' = [waiting EXCEPT ![pair.key] = {}]
      BY <2>3 DEF NotifyOne, DropWaiters
    <3>2. k # pair.key /\ waiting'[k] = waiting[k] BY <3>1 DEF Waits, TypeOK, PairType
    <3> QED BY <3>2 DEF Waits
  <2>4. CASE NotifyOne(m) /\ pair.todo # {m}
    <3>1. pair.at = "loop" /\ pair' = [pair EXCEPT !.todo = @ \ {m}] /\ waiting' = waiting
      BY <2>4 DEF NotifyOne
    <3>2. pair'.at = "loop" /\ pair'.key = pair.key BY <2>1, <3>1 DEF PairStates
    <3> QED BY <3>1, <3>2 DEF Waits
  <2> QED BY <1>8, <2>2, <2>3, <2>4
<1>9. CASE UNCHANGED vars BY <1>9 DEF vars, Waits
<1> QED BY <1>1, <1>2, <1>3, <1>5, <1>6, <1>7, <1>8, <1>9 DEF Next, PairPad, Handle

\* A sink comes to a source out of the hands of pairPad.
LEMMA UntouchedChan ==
    ASSUME TypeInv, [Next]_vars, NEW s \in Regs, NEW r \in Regs, Has(srcChan'[r], RegSinkMsg(s))
    PROVE Has(srcChan[r], RegSinkMsg(s)) \/ (RegSinkMsg(s) \in pair.todo /\ pair.src = r)
<1> USE DEF TypeInv
<1>0. srcChan[r] \in Seq(PadMessage) BY DEF TypeOK, SourceType
<1>1. ASSUME NEW c \in Conns, NEW kd \in Kinds, Put(c, kd) PROVE Has(srcChan[r], RegSinkMsg(s))
  <2>1. PICK q \in Regs : q = putMsg[c] BY <1>1 DEF Put, TypeOK, ConnType
  <2>2. Len(log[q]) \in Nat BY DEF TypeOK, SourceType
  <2>3. PICK n \in Nat : n = Len(log[q]) + 1 BY <2>2
  <2>4. n \in 1 .. MaxPuts BY <1>1, <2>1, <2>2, <2>3, BoundAssumption DEF Put
  <2>5. PICK x \in PadMessage : x = [cmd |-> "data", conn |-> c, n |-> n]
    BY <2>4 DEF PadMessage, DataMsg
  <2>6. srcChan' = [srcChan EXCEPT ![q] = Append(@, x)] BY <1>1, <2>1, <2>3, <2>5 DEF Put
  <2>7. srcChan'[r] = srcChan[r] \/ srcChan'[r] = Append(srcChan[r], x)
    BY <2>6 DEF TypeOK, SourceType
  <2>8. x # RegSinkMsg(s) BY <2>5 DEF RegSinkMsg
  <2>9. Has(Append(srcChan[r], x), RegSinkMsg(s)) => Has(srcChan[r], RegSinkMsg(s))
    BY <1>0, <2>8, HasAppend
  <2> QED BY <2>7, <2>9
<1>2. ASSUME NEW c \in Conns, Client(c), ~\E kd \in Kinds : Put(c, kd) PROVE srcChan' = srcChan
  BY <1>2 DEF Client, StreamCommand, CommandFails, PutRefused, PutWithoutSource, Disconnect
<1>3. ASSUME NEW c \in Conns, Handler(c) PROVE srcChan' = srcChan
  BY <1>3 DEF Handler, Register, Unregister, CancelSelf
<1>4. ASSUME NEW m \in pair.todo, NotifyOne(m) \/ Forward(m)
      PROVE Has(srcChan[r], RegSinkMsg(s)) \/ (RegSinkMsg(s) \in pair.todo /\ pair.src = r)
  <2>1. m \in PadMessage BY DEF TypeOK, PairType, PairStates
  <2>2. srcChan' = [srcChan EXCEPT ![pair.src] = Append(@, m)] BY <1>4 DEF NotifyOne, Forward
  <2>3. srcChan'[r] = srcChan[r] \/ (pair.src = r /\ srcChan'[r] = Append(srcChan[r], m))
    BY <2>2 DEF TypeOK, SourceType
  <2>4. Has(Append(srcChan[r], m), RegSinkMsg(s)) => Has(srcChan[r], RegSinkMsg(s)) \/ m = RegSinkMsg(s)
    BY <1>0, <2>1, HasAppend
  <2> QED BY <2>3, <2>4
<1>5. ASSUME NotifyWaitSenders \/ (pipe # <<>> /\ Handle(Head(pipe))) PROVE srcChan' = srcChan
  BY <1>5 DEF Handle, HandleRegisterSource, HandleUnregisterSource, HandleRegisterSinkWait,
              HandleRegisterSink, HandleUnregisterSink, NotifyWaitSenders
<1>6. ASSUME NEW q \in Regs, SinkRun(q) PROVE srcChan' = srcChan
  BY <1>6 DEF SinkRun, SinkDeliver, SinkDone
<1>7. ASSUME NEW q \in Regs, SourceWork(q) PROVE Has(srcChan[r], RegSinkMsg(s))
  <2>1. srcChan' = srcChan \/ (srcChan[q] # <<>> /\ srcChan' = [srcChan EXCEPT ![q] = Tail(@)])
    BY <1>7 DEF SourceWork, ConnectSink, HandleRtmpMessage, DeleteSink, Receive, WriteData,
                CancelSink, Evict, SourceDone
  <2>2. srcChan'[r] = srcChan[r] \/ (srcChan[r] # <<>> /\ srcChan'[r] = Tail(srcChan[r]))
    BY <2>1 DEF TypeOK, SourceType
  <2> QED BY <1>0, <2>2, HasTail
<1>8. CASE UNCHANGED vars BY <1>8 DEF vars
<1>9. ASSUME NEW c \in Conns, Client(c) PROVE srcChan' = srcChan \/ \E kd \in Kinds : Put(c, kd)
  BY <1>2, <1>9
<1> QED BY <1>1, <1>3, <1>4, <1>5, <1>6, <1>7, <1>8, <1>9 DEF Next, PairPad

\* A sink in pipe was fresh.
LEMMA UntouchedPipe ==
    ASSUME TypeInv, [Next]_vars, NEW s \in Regs, Has(pipe', RegSinkMsg(s))
    PROVE Has(pipe, RegSinkMsg(s)) \/ Fresh(s)
<1> USE DEF TypeInv
<1>0. pipe \in Seq(PadMessage) BY DEF TypeOK, PairType
<1>1. CASE pipe' = pipe BY <1>1
<1>2. CASE pipe # <<>> /\ pipe' = Tail(pipe) BY <1>0, <1>2, HasTail
<1>3. ASSUME NEW x \in PadMessage, x.cmd \in {"unregister_source", "unregister_sink"},
             pipe' = Append(pipe, x)
      PROVE Has(pipe, RegSinkMsg(s))
  <2>1. x # RegSinkMsg(s) BY <1>3 DEF RegSinkMsg
  <2> QED BY <1>0, <1>3, <2>1, HasAppend
<1>4. ASSUME NEW c \in Conns, Register(c) PROVE Has(pipe, RegSinkMsg(s)) \/ Fresh(s)
  <2>1. pc[c] = "register" BY <1>4 DEF Register
  <2>2. PICK n \in 1 .. MaxCmds : n = cmds[c]
    BY <2>1, BoundAssumption DEF TypeOK, ConnType, Shape, ConnShape
  <2>3. PICK a \in {"register_source", "register_sink"} :
           pipe' = Append(pipe, [cmd |-> a, conn |-> c, n |-> n])
    BY <1>4, <2>2 DEF Register
  <2>4. PICK x \in PadMessage : x = [cmd |-> a, conn |-> c, n |-> n] BY DEF PadMessage, RegisterMsg
  <2>5. x = RegSinkMsg(s) => Fresh(s)
    <3> SUFFICES ASSUME x = RegSinkMsg(s) PROVE Fresh(s) OBVIOUS
    <3>1. s[1] = c /\ s[2] = n BY <2>4 DEF RegSinkMsg
    <3> QED BY <2>1, <2>2, <3>1 DEF Fresh
  <2>6. pipe' = Append(pipe, x) BY <2>3, <2>4
  <2> QED BY <1>0, <2>5, <2>6, HasAppend
<1> QED BY <1>1, <1>2, <1>3, <1>4, PipeNext

\* No sink becomes untouched.
LEMMA UntouchedNext ==
    ASSUME TypeInv, [Next]_vars, NEW s \in Regs, Untouched(s)'
    PROVE Untouched(s)
BY FreshNext, UntouchedHand, UntouchedWaits, UntouchedChan, UntouchedPipe DEF Untouched

(***************************************************************************)
(* What has been sent to a sink.                                           *)
(***************************************************************************)
\* A message that is delivered leaves what was sent as it was, and one that is
\* sent comes last.
LEMMA SentSeq ==
    ASSUME NEW S, NEW d \in Seq(S), NEW q \in Seq(S)
    PROVE /\ d \o q \in Seq(S)
          /\ q # <<>> => Append(d, Head(q)) \o Tail(q) = d \o q
          /\ \A x \in S : d \o Append(q, x) = Append(d \o q, x)
<1>0. /\ d \o q \in Seq(S) /\ Len(d \o q) = Len(d) + Len(q)
      /\ \A i \in 1 .. Len(d) + Len(q) : (d \o q)[i] = IF i <= Len(d) THEN d[i] ELSE q[i - Len(d)]
      /\ Len(d) \in Nat /\ Len(q) \in Nat
  BY ConcatProperties, LenProperties
<1>1. ASSUME q # <<>> PROVE Append(d, Head(q)) \o Tail(q) = d \o q
  <2>1. /\ Head(q) \in S /\ Tail(q) \in Seq(S) /\ Len(Tail(q)) = Len(q) - 1 /\ Len(q) >= 1
        /\ Head(q) = q[1] /\ \A i \in 1 .. Len(Tail(q)) : Tail(q)[i] = q[i + 1]
    BY <1>1, HeadTailProperties, EmptySeq
  <2>2. PICK e \in Seq(S) : e = Append(d, Head(q)) BY <2>1, AppendProperties
  <2>3. /\ Len(e) = Len(d) + 1 /\ e[Len(d) + 1] = q[1] /\ \A i \in 1 .. Len(d) : e[i] = d[i]
    BY <2>1, <2>2, AppendProperties
  <2>4. /\ e \o Tail(q) \in Seq(S) /\ Len(e \o Tail(q)) = Len(e) + Len(Tail(q))
        /\ \A i \in 1 .. Len(e) + Len(Tail(q)) :
              (e \o Tail(q))[i] = IF i <= Len(e) THEN e[i] ELSE Tail(q)[i - Len(e)]
    BY <2>1, ConcatProperties
  <2>5. Len(e) + Len(Tail(q)) = Len(d) + Len(q) BY <1>0, <2>1, <2>3
  <2>6. ASSUME NEW i \in 1 .. Len(d) + Len(q) PROVE (e \o Tail(q))[i] = (d \o q)[i]
    <3>0. i \in 1 .. Len(e) + Len(Tail(q)) BY <2>5
    <3>1. CASE i <= Len(d)
      <4>1. i <= Len(e) /\ i \in 1 .. Len(d) BY <1>0, <2>3, <3>1
      <4>2. (e \o Tail(q))[i] = e[i] BY <2>4, <3>0, <4>1
      <4>3. (d \o q)[i] = d[i] BY <1>0, <3>1
      <4> QED BY <2>3, <4>1, <4>2, <4>3
    <3>2. CASE i = Len(d) + 1
      <4>1. i <= Len(e) /\ ~(i <= Len(d)) /\ i - Len(d) = 1 BY <1>0, <2>3, <3>2
      <4>2. (e \o Tail(q))[i] = e[i] BY <2>4, <3>0, <4>1
      <4>3. (d \o q)[i] = q[i - Len(d)] BY <1>0, <4>1
      <4> QED BY <2>3, <3>2, <4>1, <4>2, <4>3
    <3>3. CASE i > Len(d) + 1
      <4>1. i - Len(e) \in 1 .. Len(Tail(q)) /\ (i - Len(e)) + 1 = i - Len(d) BY <1>0, <2>1, <2>3, <3>3
      <4>2. (e \o Tail(q))[i] = Tail(q)[i - Len(e)] BY <1>0, <2>3, <2>4, <2>5, <3>3
      <4>3. Tail(q)[i - Len(e)] = q[i - Len(d)] BY <2>1, <4>1
      <4>4. ~(i <= Len(d)) BY <1>0, <3>3
      <4>5. (d \o q)[i] = q[i - Len(d)] BY <1>0, <4>4
      <4> QED BY <4>2, <4>3, <4>5
    <3>4. i <= Len(d) \/ i = Len(d) + 1 \/ i > Len(d) + 1 BY <1>0
    <3> QED BY <3>1, <3>2, <3>3, <3>4
  <2>7. e \o Tail(q) = d \o q BY <1>0, <2>4, <2>5, <2>6, SeqEqual
  <2> QED BY <2>2, <2>7
<1>2. ASSUME NEW x \in S PROVE d \o Append(q, x) = Append(d \o q, x)
  <2>1. PICK e \in Seq(S) : e = Append(q, x) BY AppendProperties
  <2>2. Len(e) = Len(q) + 1 /\ e[Len(q) + 1] = x /\ \A i \in 1 .. Len(q) : e[i] = q[i]
    BY <2>1, AppendProperties
  <2>3. PICK f \in Seq(S) : f = Append(d \o q, x) BY <1>0, AppendProperties
  <2>4. /\ Len(f) = Len(d) + Len(q) + 1 /\ f[Len(d) + Len(q) + 1] = x
        /\ \A i \in 1 .. Len(d) + Len(q) : f[i] = (d \o q)[i]
    BY <1>0, <2>3, AppendProperties
  <2>5. /\ d \o e \in Seq(S) /\ Len(d \o e) = Len(d) + Len(e)
        /\ \A i \in 1 .. Len(d) + Len(e) : (d \o e)[i] = IF i <= Len(d) THEN d[i] ELSE e[i - Len(d)]
    BY ConcatProperties
  <2>6. ASSUME NEW i \in 1 .. Len(d) + Len(q) + 1 PROVE (d \o e)[i] = f[i]
    <3>1. i \in 1 .. Len(d) + Len(e) BY <1>0, <2>2
    <3>2. CASE i <= Len(d)
      <4>1. i \in 1 .. Len(d) + Len(q) BY <1>0, <3>2
      <4>2. (d \o e)[i] = d[i] BY <2>5, <3>1, <3>2
      <4> QED BY <1>0, <2>4, <3>2, <4>1, <4>2
    <3>3. CASE i > Len(d) /\ i <= Len(d) + Len(q)
      <4>1. i - Len(d) \in 1 .. Len(q) /\ i \in 1 .. Len(d) + Len(q) BY <1>0, <3>3
      <4> QED BY <1>0, <2>2, <2>4, <2>5, <3>1, <3>3, <4>1
    <3>4. CASE i = Len(d) + Len(q) + 1
      <4>1. i - Len(d) = Len(q) + 1 BY <1>0, <3>4
      <4> QED BY <1>0, <2>2, <2>4, <2>5, <3>1, <3>4, <4>1
    <3>5. i <= Len(d) \/ (i > Len(d) /\ i <= Len(d) + Len(q)) \/ i = Len(d) + Len(q) + 1
      <4>1. \A a, b \in Nat : \A j \in 1 .. a + b + 1 :
               j <= a \/ (j > a /\ j <= a + b) \/ j = a + b + 1
        OBVIOUS
      <4>2. Len(d) \in Nat /\ Len(q) \in Nat BY <1>0
      <4> QED BY <4>1, <4>2
    <3> QED BY <3>2, <3>3, <3>4, <3>5
  <2>7. Len(d \o e) = Len(f) BY <1>0, <2>2, <2>4, <2>5
  <2>8. d \o e = f
    <3>1. \A i \in 1 .. Len(d \o e) : (d \o e)[i] = f[i] BY <2>4, <2>6, <2>7
    <3> QED BY <2>5, <2>7, <3>1, SeqEqual
  <2> QED BY <2>1, <2>3, <2>8
<1> QED BY <1>0, <1>1, <1>2

\* The worker of a sink changes nothing that was sent.
LEMMA SentDeliver ==
    ASSUME TypeInv, NEW s \in Regs, NEW t \in Regs, SinkRun(t)
    PROVE Sent(s)' = Sent(s)
<1> USE DEF TypeInv
<1>0. delivered[s] \in Seq(ExData) /\ msgChan[s] \in Seq(ExData) BY DEF TypeOK, SinkType
<1>1. CASE SinkDone(t) BY <1>1 DEF SinkDone, Sent
<1>2. CASE SinkDeliver(t) /\ t # s
  <2>1. msgChan'[s] = msgChan[s] /\ delivered'[s] = delivered[s]
    BY <1>2 DEF SinkDeliver, TypeOK, SinkType
  <2> QED BY <2>1 DEF Sent
<1>3. CASE SinkDeliver(t) /\ t = s
  <2>1. msgChan[s] # <<>> /\ msgChan'[s] = Tail(msgChan[s])
        /\ delivered'[s] = Append(delivered[s], Head(msgChan[s]))
    BY <1>3 DEF SinkDeliver, TypeOK, SinkType
  <2>2. Append(delivered[s], Head(msgChan[s])) \o Tail(msgChan[s]) = delivered[s] \o msgChan[s]
    BY <1>0, <2>1, SentSeq
  <2> QED BY <2>1, <2>2 DEF Sent
<1> QED BY <1>1, <1>2, <1>3 DEF SinkRun

\* Only connectSink and writeData send to a sink.
LEMMA SentFrame ==
    ASSUME TypeInv, [Next]_vars, NEW s \in Regs
    PROVE /\ Sent(s) \in Seq(ExData)
          /\ \/ Sent(s)' = Sent(s)
             \/ \E r \in Regs :
                   /\ s \in work[r].todo /\ WriteData(r, s) /\ Len(msgChan[s]) < SinkCap
                   /\ Sent(s)' = Append(Sent(s), [src |-> r, n |-> work[r].n, cached |-> FALSE])
             \/ \E r \in Regs :
                   /\ srcChan[r] # <<>> /\ ConnectSink(r, Head(srcChan[r]))
                   /\ s = RegOf(Head(srcChan[r])) /\ sinks' = [sinks EXCEPT ![r] = @ \cup {s}]
                   /\ Sent(s)' = Sent(s) \o Cached(r)
<1> USE DEF TypeInv
<1>0. delivered[s] \in Seq(ExData) /\ msgChan[s] \in Seq(ExData) BY DEF TypeOK, SinkType
<1>1. Sent(s) \in Seq(ExData) BY <1>0, SentSeq DEF Sent
<1>2. ASSUME msgChan'[s] = msgChan[s], delivered'[s] = delivered[s] PROVE Sent(s)' = Sent(s)
  BY <1>2 DEF Sent
<1>3. ASSUME NEW c \in Conns, Client(c) \/ Handler(c) PROVE UNCHANGED <<msgChan, delivered>>
  BY <1>3 DEF Client, Handler, StreamCommand, CommandFails, Put, PutRefused, PutWithoutSource,
              Disconnect, Register, Unregister, CancelSelf
<1>4. ASSUME PairPad PROVE UNCHANGED <<msgChan, delivered>>
  BY <1>4 DEF PairPad, Handle, HandleRegisterSource, HandleUnregisterSource, HandleRegisterSinkWait,
              HandleRegisterSink, HandleUnregisterSink, NotifyWaitSenders, NotifyOne, Forward
<1>5. ASSUME NEW t \in Regs, SinkRun(t) PROVE Sent(s)' = Sent(s) BY <1>5, SentDeliver
<1>6. ASSUME NEW r \in Regs, NEW t \in work[r].todo, WriteData(r, t)
      PROVE \/ Sent(s)' = Sent(s)
            \/ /\ s = t /\ Len(msgChan[s]) < SinkCap
               /\ Sent(s)' = Append(Sent(s), [src |-> r, n |-> work[r].n, cached |-> FALSE])
  <2>0. delivered' = delivered /\ work[r].at = "write" /\ t \in Regs
    BY <1>6 DEF WriteData, TypeOK, SourceType, WorkStates
  <2>1. PICK x \in ExData : x = [src |-> r, n |-> work[r].n, cached |-> FALSE]
    <3>1. work[r] \in GoodWork BY DEF Shape
    <3>2. work[r].n \in 1 .. MaxPuts BY <2>0, <3>1, BoundAssumption DEF GoodWork, WorkStates
    <3> QED BY <3>2 DEF ExData
  <2>2. \/ msgChan' = msgChan
        \/ Len(msgChan[t]) < SinkCap /\ msgChan' = [msgChan EXCEPT ![t] = Append(@, x)]
    BY <1>6, <2>1 DEF WriteData
  <2>3. CASE msgChan'[s] = msgChan[s] BY <1>2, <2>0, <2>3
  <2>4. CASE s = t /\ Len(msgChan[s]) < SinkCap /\ msgChan'[s] = Append(msgChan[s], x)
    <3>0. \A d, q \in Seq(ExData) : \A y \in ExData : d \o Append(q, y) = Append(d \o q, y)
      BY SentSeq
    <3>1. delivered[s] \o Append(msgChan[s], x) = Append(delivered[s] \o msgChan[s], x)
      BY <1>0, <3>0
    <3> QED BY <2>0, <2>1, <2>4, <3>1 DEF Sent
  <2>5. \/ msgChan'[s] = msgChan[s]
        \/ s = t /\ Len(msgChan[s]) < SinkCap /\ msgChan'[s] = Append(msgChan[s], x)
    BY <2>0, <2>2 DEF TypeOK, SinkType
  <2> QED BY <2>3, <2>4, <2>5
<1>7. ASSUME NEW r \in Regs, srcChan[r] # <<>>, ConnectSink(r, Head(srcChan[r]))
      PROVE \/ Sent(s)' = Sent(s)
            \/ /\ s = RegOf(Head(srcChan[r])) /\ sinks' = [sinks EXCEPT ![r] = @ \cup {s}]
               /\ Sent(s)' = Sent(s) \o Cached(r)
  <2>0. delivered' = delivered BY <1>7 DEF ConnectSink
  <2>1. PICK t : t = RegOf(Head(srcChan[r])) OBVIOUS
  <2>2. \/ msgChan' = msgChan
        \/ /\ sinks' = [sinks EXCEPT ![r] = @ \cup {t}]
           /\ msgChan' = [msgChan EXCEPT ![t] = @ \o Cached(r)]
    BY <1>7, <2>1 DEF ConnectSink
  <2>3. CASE msgChan'[s] = msgChan[s] BY <1>2, <2>0, <2>3
  <2>4. CASE /\ s = t /\ sinks' = [sinks EXCEPT ![r] = @ \cup {s}]
             /\ msgChan'[s] = msgChan[s] \o Cached(r)
    <3>1. Cached(r) \in Seq(ExData) BY CachedType
    <3>2. \A d, q, e \in Seq(ExData) : (d \o q) \o e = d \o (q \o e)
      BY ConcatAssociative
    <3>3. (delivered[s] \o msgChan[s]) \o Cached(r) = delivered[s] \o (msgChan[s] \o Cached(r))
      BY <1>0, <3>1, <3>2
    <3> QED BY <2>0, <2>1, <2>4, <3>3 DEF Sent
  <2>5. \/ msgChan'[s] = msgChan[s]
        \/ s = t /\ sinks' = [sinks EXCEPT ![r] = @ \cup {s}] /\ msgChan'[s] = msgChan[s] \o Cached(r)
    BY <2>2 DEF TypeOK, SinkType
  <2> QED BY <2>3, <2>4, <2>5
<1>8. ASSUME NEW r \in Regs, SourceWork(r)
      PROVE \/ UNCHANGED <<msgChan, delivered>>
            \/ \E t \in work[r].todo : WriteData(r, t)
            \/ srcChan[r] # <<>> /\ ConnectSink(r, Head(srcChan[r]))
  BY <1>8 DEF SourceWork, HandleRtmpMessage, DeleteSink, CancelSink, Evict, SourceDone
<1>9. CASE UNCHANGED vars
  <2>1. UNCHANGED <<msgChan, delivered>> BY <1>9 DEF vars
  <2> QED BY <1>1, <1>2, <2>1
<1>10. UNCHANGED <<msgChan, delivered>> => Sent(s)' = Sent(s) BY <1>2
<1>11. ASSUME NEW r \in Regs, SourceWork(r)
       PROVE \/ Sent(s)' = Sent(s)
             \/ /\ s \in work[r].todo /\ WriteData(r, s) /\ Len(msgChan[s]) < SinkCap
                /\ Sent(s)' = Append(Sent(s), [src |-> r, n |-> work[r].n, cached |-> FALSE])
             \/ /\ srcChan[r] # <<>> /\ ConnectSink(r, Head(srcChan[r]))
                /\ s = RegOf(Head(srcChan[r])) /\ sinks' = [sinks EXCEPT ![r] = @ \cup {s}]
                /\ Sent(s)' = Sent(s) \o Cached(r)
  BY <1>6, <1>7, <1>8, <1>10, <1>11
<1>12. CASE \E c \in Conns : Client(c) \/ Handler(c)
  <2>1. UNCHANGED <<msgChan, delivered>> BY <1>3, <1>12
  <2> QED BY <1>1, <1>10, <2>1
<1>13. CASE PairPad BY <1>1, <1>4, <1>10, <1>13
<1>14. CASE \E r \in Regs : SinkRun(r) BY <1>1, <1>5, <1>14
<1>15. CASE \E r \in Regs : SourceWork(r) BY <1>1, <1>11, <1>15
<1> QED BY <1>1, <1>9, <1>12, <1>13, <1>14, <1>15 DEF Next

\* A sink that no source has had yet was sent nothing.
UnsentInv == \A s \in Regs : Untouched(s) => Sent(s) = <<>>

\* At first nothing was sent.
LEMMA UnsentInit == Init => UnsentInv
BY DEF Init, UnsentInv, Sent

\* A source sends only to sinks in its map, which are touched.
LEMMA UnsentNext == TypeInv /\ PlaceInv /\ PlaceInv' /\ WorkInv /\ UnsentInv /\ [Next]_vars => UnsentInv'
<1> SUFFICES ASSUME TypeInv, PlaceInv, PlaceInv', WorkInv, UnsentInv, [Next]_vars,
                    NEW s \in Regs, Untouched(s)'
             PROVE Sent(s)' = <<>>
  BY DEF UnsentInv
<1>1. Untouched(s) /\ Sent(s) = <<>> BY UntouchedNext DEF UnsentInv
<1>2. \A r \in Regs : s \notin sinks[r] BY <1>1, UntouchedPlace DEF UntouchedUnfed
<1>3. \A r \in Regs : s \notin sinks'[r] BY UntouchedPlacePrime DEF UntouchedUnfed
<1>4. ASSUME NEW r \in Regs, s \in work[r].todo, WriteData(r, s) PROVE FALSE
  BY <1>2, <1>4 DEF WriteData, WorkInv, InHand
<1>5. ASSUME NEW r \in Regs, sinks' = [sinks EXCEPT ![r] = @ \cup {s}] PROVE FALSE
  BY <1>3, <1>5 DEF TypeInv, TypeOK, SourceType
<1> QED BY <1>1, <1>4, <1>5, SentFrame

(***************************************************************************)
(* The refinement mapping.                                                 *)
(***************************************************************************)
\* A sink is fed by the source whose map it is in.
FeedSpec ==
    \A s \in Regs : /\ Feed(s) \in Regs \cup {NoReg}
                    /\ \A r \in Regs : s \in sinks[r] <=> Feed(s) = r

\* The map is one source's, since a sink is in one place.
LEMMA FeedPlace == PlaceInv => FeedSpec
<1> SUFFICES ASSUME PlaceInv, NEW s \in Regs
             PROVE /\ Feed(s) \in Regs \cup {NoReg}
                   /\ \A r \in Regs : s \in sinks[r] <=> Feed(s) = r
  BY DEF FeedSpec
<1>1. \A q, r \in Regs : s \in sinks[q] /\ s \in sinks[r] => q = r
  <2>1. "conn" \in PlaceNames /\ Regs \subseteq PlaceArgs BY DEF PlaceNames, PlaceArgs
  <2>2. \A r \in Regs : s \in sinks[r] => Holds(s, "conn", r) BY DEF Holds
  <2> QED BY <2>1, <2>2 DEF PlaceInv, Apart
<1>2. NoReg \notin Regs BY RegAssumption DEF Regs, Conns
<1>3. CASE \E r \in Regs : s \in sinks[r]
  <2>1. Feed(s) = CHOOSE r \in Regs : s \in sinks[r] BY <1>3 DEF Feed
  <2>2. Feed(s) \in Regs /\ s \in sinks[Feed(s)] BY <1>3, <2>1
  <2> QED BY <1>1, <2>2
<1>4. CASE ~\E r \in Regs : s \in sinks[r] BY <1>2, <1>4 DEF Feed
<1> QED BY <1>3, <1>4

\* The same after a step.
LEMMA FeedPlacePrime == PlaceInv' => FeedSpec'
BY FeedPlace, PTL

\* Steps that change nothing of a source but r.
Only(r) == \A q \in Regs \ {r} : work'[q] = work[q] /\ done'[q] = done[q] /\ sinks'[q] = sinks[q]
Due(r, s) == IF Pending(r, s) THEN done[r] - 1 ELSE done[r]

\* A sink that stays where it is and is no further behind.
LEMMA SinkStays ==
    ASSUME TypeInv, TypeInv', FeedSpec, FeedSpec', NEW r \in Regs, Only(r), NEW t \in Regs,
           t \in sinks'[r] <=> t \in sinks[r], t \in sinks[r] => Due(r, t)' = Due(r, t)
    PROVE Feed(t)' = Feed(t) /\ Position(t)' = Position(t)
<1>1. /\ Feed(t) \in Regs \cup {NoReg} /\ \A q \in Regs : t \in sinks[q] <=> Feed(t) = q
      /\ Feed(t)' \in Regs \cup {NoReg} /\ \A q \in Regs : t \in sinks'[q] <=> Feed(t)' = q
  BY DEF FeedSpec
<1>2. \A q \in Regs : t \in sinks'[q] <=> t \in sinks[q] BY DEF Only
<1>3. Feed(t)' = Feed(t) BY <1>1, <1>2
<1>4. PICK f : f = Feed(t) OBVIOUS
<1>5. \A q \in Regs : done[q] \in Int /\ done'[q] \in Int
  BY BoundAssumption DEF TypeInv, TypeOK, SourceType
<1>6. Position(t) = IF f = NoReg THEN 0 ELSE done[f] - (IF Pending(f, t) THEN 1 ELSE 0)
  BY <1>4 DEF Position
<1>7. Position(t)' = IF f = NoReg THEN 0 ELSE done'[f] - (IF Pending(f, t)' THEN 1 ELSE 0)
  BY <1>3, <1>4 DEF Position, Pending
<1>8. CASE f = NoReg BY <1>3, <1>6, <1>7, <1>8
<1>9. CASE f \in Regs
  <2>0. f # NoReg BY <1>9, RegAssumption DEF Regs, Conns
  <2>1. Position(t) = Due(f, t) BY <1>5, <1>6, <1>9, <2>0 DEF Due
  <2>2. Position(t)' = Due(f, t)' BY <1>5, <1>7, <1>9, <2>0 DEF Due
  <2>3. CASE f = r
    <3>1. t \in sinks[r] BY <1>1, <1>4, <2>3
    <3>2. Due(r, t)' = Due(r, t) BY <3>1
    <3> QED BY <1>3, <2>1, <2>2, <2>3, <3>2
  <2>4. CASE f # r
    <3>1. work'[f] = work[f] /\ done'[f] = done[f] BY <1>9, <2>4 DEF Only
    <3>2. Pending(f, t)' <=> Pending(f, t) BY <3>1 DEF Pending
    <3> QED BY <1>3, <1>6, <1>7, <3>1, <3>2
  <2> QED BY <2>3, <2>4
<1> QED BY <1>1, <1>4, <1>8, <1>9

\* Steps that no sink notices.
LEMMA BroadcastStutter ==
    ASSUME UNCHANGED <<log, done>>,
           \A s \in Regs : Feed(s)' = Feed(s) /\ Position(s)' = Position(s) /\ Sent(s)' = Sent(s)
    PROVE UNCHANGED B!bvars
BY DEF B!bvars

\* What the steps of the refinement rest on.
StreamBase == BaseInv /\ SourceInv /\ UnsentInv

\* It holds at first and every step keeps it.
LEMMA StreamBaseInductive == (Init => StreamBase) /\ (StreamBase /\ [Next]_vars => StreamBase')
BY BaseInductive, SourceInit, SourceNext, UnsentInit, UnsentNext DEF StreamBase, BaseInv

\* What is at hand in a step.
LEMMA StreamFacts ==
    ASSUME StreamBase, StreamBase'
    PROVE /\ TypeInv /\ TypeInv' /\ FeedSpec /\ FeedSpec' /\ UntouchedUnfed
          /\ WorkInv /\ OneEntry /\ StartOnce /\ SourceInv
          /\ NoReg \notin Regs
BY FeedPlace, FeedPlacePrime, UntouchedPlace, RegAssumption DEF StreamBase, BaseInv, Regs, Conns

\* Steps of the others: a worker may be started, which no sink notices.
LEMMA OthersUnnoticed ==
    ASSUME UNCHANGED <<sinks, done>>, NEW s \in Regs, FeedSpec,
           \A r \in Regs : work'[r] = work[r] \/ (work[r].at = "off" /\ work'[r].at = "select")
    PROVE Feed(s)' = Feed(s) /\ Position(s)' = Position(s)
<1>1. Feed(s)' = Feed(s) BY DEF Feed
<1>2. PICK f : f = Feed(s) OBVIOUS
<1>3. f \in Regs \cup {NoReg} BY <1>2 DEF FeedSpec
<1>4. f \in Regs => (Pending(f, s)' <=> Pending(f, s)) BY DEF Pending
<1>5. Position(s) = IF f = NoReg THEN 0 ELSE done[f] - (IF Pending(f, s) THEN 1 ELSE 0)
  BY <1>2 DEF Position
<1>6. Position(s)' = IF f = NoReg THEN 0 ELSE done[f] - (IF Pending(f, s)' THEN 1 ELSE 0)
  BY <1>1, <1>2 DEF Position, Pending
<1> QED BY <1>1, <1>3, <1>4, <1>5, <1>6

\* The handlers: a message is accepted, or nothing happens.
LEMMA HandlersRefine ==
    ASSUME StreamBase, StreamBase', NEW c \in Conns, Client(c) \/ Handler(c)
    PROVE [B!BNext]_(B!bvars)
<1>0. TypeInv /\ FeedSpec BY StreamFacts
<1>1. UNCHANGED <<sinks, done, work, msgChan, delivered>>
  BY DEF Client, Handler, StreamCommand, CommandFails, Put, PutRefused, PutWithoutSource,
         Disconnect, Register, Unregister, CancelSelf
<1>2. \A s \in Regs : Feed(s)' = Feed(s) /\ Position(s)' = Position(s)
  BY <1>0, <1>1, OthersUnnoticed
<1>3. \A s \in Regs : Sent(s)' = Sent(s) BY <1>1 DEF Sent
<1>4. CASE log' = log BY <1>1, <1>2, <1>3, <1>4, BroadcastStutter
<1>5. ASSUME NEW kd \in Kinds, Put(c, kd) PROVE B!BNext
  <2>1. PICK r \in Regs : r = putMsg[c] BY <1>0, <1>5 DEF Put, TypeInv, TypeOK, ConnType
  <2>2. Len(log[r]) < MaxPuts /\ log' = [log EXCEPT ![r] = Append(@, kd)] BY <1>5, <2>1 DEF Put
  <2>3. B!Accept(r, kd) BY <1>1, <1>2, <1>3, <2>2 DEF B!Accept
  <2> QED BY <2>3 DEF B!BNext
<1>6. log' = log \/ \E kd \in Kinds : Put(c, kd)
  BY DEF Client, Handler, StreamCommand, CommandFails, PutRefused, PutWithoutSource,
         Disconnect, Register, Unregister, CancelSelf
<1> QED BY <1>4, <1>5, <1>6

\* pairPad and the workers of the sinks do nothing a sink would notice.
LEMMA PairPadRefines ==
    ASSUME StreamBase, StreamBase', PairPad \/ \E t \in Regs : SinkRun(t), [Next]_vars
    PROVE UNCHANGED B!bvars
<1>0. TypeInv /\ FeedSpec /\ StartOnce BY StreamFacts
<1>1. \A s \in Regs : Sent(s)' = Sent(s)
  <2>1. CASE PairPad
    <3>1. UNCHANGED <<msgChan, delivered>>
      BY <2>1 DEF PairPad, Handle, HandleRegisterSource, HandleUnregisterSource,
           HandleRegisterSinkWait, HandleRegisterSink, HandleUnregisterSink, NotifyWaitSenders,
           NotifyOne, Forward
    <3> QED BY <3>1 DEF Sent
  <2> QED BY <1>0, <2>1, SentDeliver
<1>2. /\ UNCHANGED <<sinks, done, log>>
      /\ \/ work' = work
         \/ /\ pipe # <<>> /\ HandleRegisterSource(Head(pipe))
            /\ work' = [work EXCEPT ![RegOf(Head(pipe))] = [Idle EXCEPT !.at = "select"]]
  BY DEF PairPad, Handle, HandleRegisterSource, HandleUnregisterSource, HandleRegisterSinkWait,
         HandleRegisterSink, HandleUnregisterSink, NotifyWaitSenders, NotifyOne, Forward,
         SinkRun, SinkDeliver, SinkDone
<1>3. ASSUME pipe # <<>>, HandleRegisterSource(Head(pipe)),
             work' = [work EXCEPT ![RegOf(Head(pipe))] = [Idle EXCEPT !.at = "select"]],
             NEW r \in Regs
      PROVE work'[r] = work[r] \/ (work[r].at = "off" /\ work'[r].at = "select")
  <2>1. Take(Head(pipe), "register_source") BY <1>3 DEF HandleRegisterSource
  <2>2. PICK x \in PadMessage : x = Head(pipe) /\ x.cmd = "register_source"
    BY <1>0, <2>1, TakeFacts
  <2>3. x \in RegisterMsg BY <2>2 DEF PadMessage, UnregisterMsg, DataMsg
  <2>4. CASE r = RegOf(x)
    <3>1. x = RegSourceMsg(r) BY <2>2, <2>3, <2>4 DEF RegSourceMsg, RegOf, RegisterMsg
    <3>2. pipe \in Seq(PadMessage) BY <1>0 DEF TypeInv, TypeOK, PairType
    <3>3. Has(pipe, RegSourceMsg(r)) BY <1>3, <2>2, <3>1, <3>2, HasTail
    <3>4. work[r].at = "off" BY <1>0, <3>3 DEF StartOnce
    <3>5. work'[r] = [Idle EXCEPT !.at = "select"]
      BY <1>0, <1>3, <2>2, <2>4 DEF TypeInv, TypeOK, SourceType
    <3> QED BY <3>4, <3>5 DEF Idle
  <2>5. CASE r # RegOf(x) BY <1>0, <1>3, <2>2, <2>5 DEF TypeInv, TypeOK, SourceType
  <2> QED BY <2>4, <2>5
<1>4. \A r \in Regs : work'[r] = work[r] \/ (work[r].at = "off" /\ work'[r].at = "select")
  BY <1>2, <1>3
<1>5. \A s \in Regs : Feed(s)' = Feed(s) /\ Position(s)' = Position(s)
  BY <1>0, <1>2, <1>4, OthersUnnoticed
<1> QED BY <1>1, <1>2, <1>5, BroadcastStutter

\* The configurations connectSink sends are the newest the source has handled.
LEMMA CachedIsNewest ==
    ASSUME TypeInv, SourceInv, NEW r \in Regs
    PROVE Cached(r) = B!Newest(r, "vcfg") \o B!Newest(r, "acfg")
<1>1. ASSUME NEW kd, NEW n \in Nat, IsNewest(log[r], kd, done[r], n)
      PROVE CachedOne(r, n) = B!Newest(r, kd)
  <2>0. done[r] \in Nat BY BoundAssumption DEF TypeInv, TypeOK, SourceType
  <2>1. PICK S : S = {i \in 1 .. done[r] : log[r][i] = kd} OBVIOUS
  <2>2. B!Newest(r, kd) = IF S = {} THEN <<>>
           ELSE <<[src |-> r, cached |-> TRUE, n |-> CHOOSE i \in S : \A l \in S : l <= i]>>
    BY <2>1 DEF B!Newest
  <2>3. CASE n = 0
    <3>1. S = {} BY <1>1, <2>1, <2>3 DEF IsNewest
    <3> QED BY <2>2, <2>3, <3>1 DEF CachedOne
  <2>4. CASE n # 0
    <3>1. n \in S /\ \A l \in S : l <= n BY <1>1, <2>1, <2>4 DEF IsNewest
    <3>2. S \subseteq Nat BY <2>1
    <3>3. \A i \in S : (\A l \in S : l <= i) => i = n
      <4> SUFFICES ASSUME NEW i \in S, \A l \in S : l <= i PROVE i = n OBVIOUS
      <4>1. i <= n /\ n <= i /\ i \in Nat BY <3>1, <3>2
      <4> QED BY <4>1
    <3>4. (CHOOSE i \in S : \A l \in S : l <= i) = n BY <3>1, <3>3
    <3>5. S # {} BY <3>1
    <3>6. [src |-> r, n |-> n, cached |-> TRUE] = [src |-> r, cached |-> TRUE, n |-> n] OBVIOUS
    <3> QED BY <2>2, <2>4, <3>4, <3>5, <3>6 DEF CachedOne
  <2> QED BY <2>3, <2>4
<1>2. vcfg[r] \in Nat /\ acfg[r] \in Nat BY BoundAssumption DEF TypeInv, TypeOK, SourceType
<1>3. IsNewest(log[r], "vcfg", done[r], vcfg[r]) /\ IsNewest(log[r], "acfg", done[r], acfg[r])
  BY DEF SourceInv, SourceGood
<1>4. CachedOne(r, vcfg[r]) = B!Newest(r, "vcfg") BY <1>1, <1>2, <1>3
<1>5. CachedOne(r, acfg[r]) = B!Newest(r, "acfg") BY <1>1, <1>2, <1>3
<1> QED BY <1>4, <1>5 DEF Cached

(***************************************************************************)
(* The steps of the worker of a source.                                    *)
(***************************************************************************)
\* handleRtmpMessage: the message is broadcast, and every sink is due one more.
LEMMA HandleAdvances ==
    ASSUME StreamBase, StreamBase', NEW r \in Regs, HandleRtmpMessage(r, Head(srcChan[r]))
    PROVE B!Advance(r)
<1>0. /\ TypeInv /\ TypeInv' /\ FeedSpec /\ FeedSpec' /\ SourceInv /\ WorkInv /\ NoReg \notin Regs
  BY StreamFacts
<1>1. UNCHANGED <<sinks, log, msgChan, delivered>> BY DEF HandleRtmpMessage
<1>2. /\ work[r].at = "select" /\ done'[r] = done[r] + 1 /\ done[r] + 1 <= Len(log[r])
      /\ done' = [done EXCEPT ![r] = done[r] + 1]
      /\ \/ sinks[r] = {} /\ work' = work
         \/ work' = [work EXCEPT ![r] = [at |-> "write", n |-> done[r] + 1,
                                         todo |-> sinks[r], victim |-> NoReg]]
  BY <1>0, HandleFacts
<1>3. done[r] \in Nat /\ Len(log[r]) \in Nat BY <1>0, BoundAssumption DEF TypeInv, TypeOK, SourceType
<1>4. Only(r) BY <1>0, <1>1, <1>2 DEF Only, TypeInv, TypeOK, SourceType
<1>5. \A s \in sinks[r] : Due(r, s)' = Due(r, s)
  <2> SUFFICES ASSUME NEW s \in sinks[r] PROVE Due(r, s)' = Due(r, s) OBVIOUS
  <2>1. work'[r] = [at |-> "write", n |-> done[r] + 1, todo |-> sinks[r], victim |-> NoReg]
    BY <1>0, <1>2 DEF TypeInv, TypeOK, SourceType
  <2>2. work'[r].at = "write" /\ work'[r].todo = sinks[r] BY <2>1
  <2>3. Pending(r, s)' BY <2>2 DEF Pending
  <2>4. ~Pending(r, s) BY <1>2 DEF Pending
  <2> QED BY <1>2, <1>3, <2>3, <2>4 DEF Due
<1>6. \A s \in Regs : Feed(s)' = Feed(s) /\ Position(s)' = Position(s)
  BY <1>0, <1>1, <1>4, <1>5, SinkStays
<1>7. \A s \in Regs : Sent(s)' = Sent(s) BY <1>1 DEF Sent
<1>8. done[r] < Len(log[r]) BY <1>2, <1>3
<1> QED BY <1>1, <1>2, <1>6, <1>7, <1>8 DEF B!Advance

\* connectSink: the sink joins, or the process panics.
LEMMA ConnectJoins ==
    ASSUME StreamBase, StreamBase', NEW r \in Regs, srcChan[r] # <<>>,
           ConnectSink(r, Head(srcChan[r])), [Next]_vars
    PROVE [B!BNext]_(B!bvars)
<1>0. /\ TypeInv /\ TypeInv' /\ FeedSpec /\ FeedSpec' /\ SourceInv /\ UntouchedUnfed /\ NoReg \notin Regs
  BY StreamFacts
<1>1. /\ work[r].at = "select" /\ UNCHANGED <<work, done, log, delivered>>
      /\ Head(srcChan[r]).cmd = "register_sink" /\ srcChan[r] \in Seq(PadMessage)
  BY <1>0 DEF ConnectSink, Receive, TypeInv, TypeOK, SourceType
<1>2. PICK m \in PadMessage : m = Head(srcChan[r]) BY <1>1, HeadTailProperties
<1>3. PICK s \in Regs : s = RegOf(m) /\ m = RegSinkMsg(s) BY <1>1, <1>2, SinkMsg
<1>4. Has(srcChan[r], RegSinkMsg(s)) BY <1>1, <1>2, <1>3, HasTail
<1>5. Untouched(s) BY <1>4 DEF Untouched
<1>6. Sent(s) = <<>> /\ \A q \in Regs : s \notin sinks[q]
  BY <1>0, <1>5 DEF StreamBase, UnsentInv, UntouchedUnfed
<1>7. Feed(s) = NoReg BY <1>0, <1>6 DEF FeedSpec
<1>8. CASE UNCHANGED <<sinks, msgChan>>
  <2>1. \A t \in Regs : Feed(t)' = Feed(t) /\ Position(t)' = Position(t)
    BY <1>0, <1>1, <1>8, OthersUnnoticed
  <2>2. \A t \in Regs : Sent(t)' = Sent(t) BY <1>1, <1>8 DEF Sent
  <2> QED BY <1>1, <2>1, <2>2, BroadcastStutter
<1>9. CASE /\ sinks' = [sinks EXCEPT ![r] = @ \cup {s}]
           /\ msgChan' = [msgChan EXCEPT ![s] = @ \o Cached(r)]
  <2>1. /\ s \in sinks'[r] /\ Only(r) /\ \A t \in Regs : t # s => (t \in sinks'[r] <=> t \in sinks[r])
    BY <1>0, <1>1, <1>9 DEF Only, TypeInv, TypeOK, SourceType
  <2>2. ~Pending(r, s)' /\ \A t \in Regs : Due(r, t)' = Due(r, t) BY <1>1 DEF Pending, Due
  <2>3. Feed(s)' = r BY <1>0, <2>1 DEF FeedSpec
  <2>4. \A t \in Regs : t # s => Feed(t)' = Feed(t) /\ Position(t)' = Position(t)
    BY <1>0, <2>1, <2>2, SinkStays
  <2>5. Position(s)' = done[r]
    <3>1. Position(s)' = done'[r] - 0 BY <1>0, <2>2, <2>3 DEF Position, Pending
    <3>2. done[r] \in Nat BY <1>0, BoundAssumption DEF TypeInv, TypeOK, SourceType
    <3> QED BY <1>1, <3>1, <3>2
  <2>6. Sent(s)' = Cached(r)
    <3>1. Cached(r) \in Seq(ExData) BY <1>0, CachedType DEF TypeInv
    <3>2. msgChan[s] \in Seq(ExData) /\ delivered[s] \in Seq(ExData)
      BY <1>0 DEF TypeInv, TypeOK, SinkType
    <3>3. delivered[s] = <<>> /\ msgChan[s] = <<>> BY <1>6, <3>2, ConcatEqualIffEmpty DEF Sent
    <3>4. msgChan'[s] = msgChan[s] \o Cached(r) BY <1>0, <1>9 DEF TypeInv, TypeOK, SinkType
    <3>5. <<>> \o Cached(r) = Cached(r) BY <3>1, ConcatEmptySeq
    <3> QED BY <1>1, <3>3, <3>4, <3>5 DEF Sent
  <2>7. \A t \in Regs : t # s => Sent(t)' = Sent(t)
    BY <1>0, <1>1, <1>9 DEF Sent, TypeInv, TypeOK, SinkType
  <2>8. Cached(r) = B!Newest(r, "vcfg") \o B!Newest(r, "acfg") BY <1>0, CachedIsNewest
  <2>9. [t \in Regs |-> Feed(t)]' = [[t \in Regs |-> Feed(t)] EXCEPT ![s] = r] BY <2>3, <2>4
  <2>10. [t \in Regs |-> Position(t)]' = [[t \in Regs |-> Position(t)] EXCEPT ![s] = done[r]]
    BY <2>4, <2>5
  <2>11. [t \in Regs |-> Sent(t)]' =
           [[t \in Regs |-> Sent(t)] EXCEPT ![s] = B!Newest(r, "vcfg") \o B!Newest(r, "acfg")]
    BY <2>6, <2>7, <2>8
  <2>12. B!Join(s, r) BY <1>1, <1>6, <1>7, <2>9, <2>10, <2>11 DEF B!Join
  <2> QED BY <2>12 DEF B!BNext
<1>10. \/ UNCHANGED <<sinks, msgChan>>
       \/ /\ sinks' = [sinks EXCEPT ![r] = @ \cup {s}]
          /\ msgChan' = [msgChan EXCEPT ![s] = @ \o Cached(r)]
  BY <1>2, <1>3 DEF ConnectSink
<1> QED BY <1>8, <1>9, <1>10

\* A sink that leaves the map of its source.
LEMMA SinkLeaves ==
    ASSUME TypeInv, TypeInv', FeedSpec, FeedSpec', NoReg \notin Regs,
           NEW r \in Regs, NEW s \in sinks[r], Only(r), UNCHANGED <<done, log, msgChan, delivered>>,
           s \notin sinks'[r],
           \A t \in Regs : t # s => (t \in sinks'[r] <=> t \in sinks[r]) /\ (Pending(r, t)' <=> Pending(r, t))
    PROVE B!BNext
<1>0. s \in Regs BY DEF TypeInv, TypeOK, SourceType
<1>1. Feed(s) = r BY <1>0 DEF FeedSpec
<1>2. \A q \in Regs : s \notin sinks'[q]
  <2>1. \A q \in Regs \ {r} : s \notin sinks[q] BY <1>0, <1>1 DEF FeedSpec
  <2> QED BY <2>1 DEF Only
<1>3. Feed(s)' = NoReg BY <1>0, <1>2 DEF FeedSpec
<1>4. Position(s)' = 0 BY <1>3 DEF Position
<1>5. \A t \in Regs : t # s => Feed(t)' = Feed(t) /\ Position(t)' = Position(t)
  <2>1. \A t \in Regs : t # s => Due(r, t)' = Due(r, t) BY DEF Due
  <2> QED BY <2>1, SinkStays
<1>6. \A t \in Regs : Sent(t)' = Sent(t) BY DEF Sent
<1>7. [t \in Regs |-> Feed(t)]' = [[t \in Regs |-> Feed(t)] EXCEPT ![s] = NoReg] BY <1>3, <1>5
<1>8. [t \in Regs |-> Position(t)]' = [[t \in Regs |-> Position(t)] EXCEPT ![s] = 0]
  BY <1>4, <1>5
<1>9. Feed(s) # NoReg BY <1>1
<1>10. B!Leave(s) BY <1>0, <1>6, <1>7, <1>8, <1>9 DEF B!Leave
<1> QED BY <1>0, <1>10 DEF B!BNext

\* No sink of r notices.
LEMMA WorkerUnnoticed ==
    ASSUME TypeInv, TypeInv', FeedSpec, FeedSpec', NEW r \in Regs, Only(r),
           UNCHANGED <<done, log, msgChan, delivered>>, sinks'[r] = sinks[r],
           \A t \in sinks[r] : Pending(r, t)' <=> Pending(r, t)
    PROVE UNCHANGED B!bvars
<1>1. \A t \in sinks[r] : Due(r, t)' = Due(r, t) BY DEF Due
<1>2. \A t \in Regs : Feed(t)' = Feed(t) /\ Position(t)' = Position(t) BY <1>1, SinkStays
<1>3. \A t \in Regs : Sent(t)' = Sent(t) BY DEF Sent
<1> QED BY <1>2, <1>3, BroadcastStutter

\* deleteSink: the sink that has the entry leaves.
LEMMA DeleteLeaves ==
    ASSUME StreamBase, StreamBase', NEW r \in Regs, DeleteSink(r, Head(srcChan[r]))
    PROVE [B!BNext]_(B!bvars)
<1>0. /\ TypeInv /\ TypeInv' /\ FeedSpec /\ FeedSpec' /\ WorkInv /\ OneEntry /\ NoReg \notin Regs
  BY StreamFacts
<1>1. PICK c : c = Head(srcChan[r]).conn OBVIOUS
<1>2. PICK F : F = {t \in sinks[r] : ConnOf(t) = c /\ keyInSrc[t] = key[c]} OBVIOUS
<1>3. /\ UNCHANGED <<done, log, msgChan, delivered>> /\ work[r].at = "select"
      /\ sinks' = [sinks EXCEPT ![r] = @ \ F]
      /\ \/ F = {} /\ work' = work
         \/ \E s \in F : work' = [work EXCEPT ![r] = [@ EXCEPT !.at = "evict", !.victim = s]]
  BY <1>1, <1>2 DEF DeleteSink, Receive
<1>4. Only(r) /\ sinks'[r] = sinks[r] \ F
  BY <1>0, <1>3 DEF Only, TypeInv, TypeOK, SourceType
<1>5. CASE F = {} /\ work' = work
  <2>1. sinks'[r] = sinks[r] BY <1>4, <1>5
  <2>2. \A t \in sinks[r] : Pending(r, t)' <=> Pending(r, t) BY <1>5 DEF Pending
  <2> QED BY <1>0, <1>3, <1>4, <2>1, <2>2, WorkerUnnoticed
<1>6. ASSUME NEW s \in F, work' = [work EXCEPT ![r] = [@ EXCEPT !.at = "evict", !.victim = s]]
      PROVE B!BNext
  <2>1. F = {s} BY <1>0, <1>2, <1>6 DEF OneEntry
  <2>2. s \in sinks[r] BY <1>2
  <2>3. work[r] \in GoodWork BY <1>0 DEF TypeInv, Shape
  <2>4. work[r].todo = {} BY <1>3, <2>3 DEF GoodWork
  <2>5. work'[r] = [work[r] EXCEPT !.at = "evict", !.victim = s]
    BY <1>0, <1>6 DEF TypeInv, TypeOK, SourceType
  <2>6. work'[r].todo = {} /\ work'[r].victim = s BY <2>3, <2>4, <2>5 DEF GoodWork, WorkStates
  <2>7. \A t \in Regs : t # s => (t \in sinks'[r] <=> t \in sinks[r]) /\ (Pending(r, t)' <=> Pending(r, t))
    BY <1>3, <1>4, <2>1, <2>6 DEF Pending
  <2>8. s \notin sinks'[r] BY <1>4
  <2> QED BY <1>0, <1>3, <1>4, <2>2, <2>7, <2>8, SinkLeaves
<1> QED BY <1>3, <1>5, <1>6

\* What a worker has in hand once it goes on with the sinks in t.
LEMMA ResumePending ==
    ASSUME TypeInv, NEW r \in Regs, NEW t, NoReg \notin Regs,
           work' = [work EXCEPT ![r] = Resume(r, t)]
    PROVE \A s \in Regs : Pending(r, s)' <=> s \in t
<1>1. work'[r] = Resume(r, t) BY DEF TypeInv, TypeOK, SourceType
<1>2. work[r] \in WorkStates BY DEF TypeInv, TypeOK, SourceType
<1>3. CASE t = {}
  <2>1. work'[r].at = "select" BY <1>1, <1>3 DEF Resume, Idle
  <2> QED BY <1>3, <2>1 DEF Pending
<1>4. CASE t # {}
  <2>0. work'[r] = [work[r] EXCEPT !.at = "write", !.todo = t, !.victim = NoReg]
    BY <1>1, <1>4 DEF Resume
  <2>1. work'[r].at = "write" /\ work'[r].todo = t /\ work'[r].victim = NoReg
    BY <1>2, <2>0 DEF WorkStates
  <2> QED BY <2>1 DEF Pending
<1> QED BY <1>3, <1>4

\* writeData: the sink is served, or it is to be cancelled and gets no more.
LEMMA WriteServes ==
    ASSUME StreamBase, StreamBase', NEW r \in Regs, NEW s \in work[r].todo, WriteData(r, s)
    PROVE [B!BNext]_(B!bvars)
<1>0. /\ TypeInv /\ TypeInv' /\ FeedSpec /\ FeedSpec' /\ WorkInv /\ SourceInv /\ NoReg \notin Regs
  BY StreamFacts
<1>1. work[r].at = "write" /\ UNCHANGED <<sinks, done, log, delivered>> BY DEF WriteData
<1>2. /\ work[r] \in WorkStates /\ work[r].todo \subseteq sinks[r] /\ work[r].victim = NoReg
      /\ work[r].n = done[r] /\ work[r].n >= 1 /\ s \in Regs /\ sinks[r] \subseteq Regs
  BY <1>0, <1>1 DEF TypeInv, TypeOK, SourceType, Shape, GoodWork, WorkInv, InHand, SourceInv, SourceGood
<1>3. \A t \in Regs : Pending(r, t) <=> t \in work[r].todo BY <1>0, <1>1, <1>2 DEF Pending
<1>4. ASSUME NEW w, work' = [work EXCEPT ![r] = w] PROVE Only(r)
  BY <1>0, <1>1, <1>4 DEF Only, TypeInv, TypeOK, SourceType
<1>5. CASE work' = [work EXCEPT ![r] = OnFull(r, s)] /\ msgChan' = msgChan
  <2>1. work'[r] = OnFull(r, s) BY <1>0, <1>5 DEF TypeInv, TypeOK, SourceType
  <2>2. work'[r].at = "evict" /\ work'[r].victim = s /\ work'[r].todo = work[r].todo \ {s}
    BY <1>2, <2>1 DEF OnFull, WorkStates
  <2>3. \A t \in sinks[r] : Pending(r, t)' <=> Pending(r, t)
    BY <1>2, <1>3, <2>2 DEF Pending
  <2>4. Only(r) BY <1>4, <1>5
  <2>5. sinks'[r] = sinks[r] BY <1>1
  <2> QED BY <1>0, <1>1, <1>5, <2>3, <2>4, <2>5, WorkerUnnoticed
<1>6. CASE /\ msgChan' = [msgChan EXCEPT ![s] = Append(@, [src |-> r, n |-> work[r].n, cached |-> FALSE])]
           /\ work' = [work EXCEPT ![r] = Resume(r, work[r].todo \ {s})]
  <2>1. \A t \in Regs : Pending(r, t)' <=> t \in work[r].todo \ {s}
    BY <1>0, <1>6, ResumePending
  <2>2. Only(r) BY <1>4, <1>6
  <2>3. \A t \in Regs : t # s => Feed(t)' = Feed(t) /\ Position(t)' = Position(t)
    <3>1. \A t \in Regs : t # s => Due(r, t)' = Due(r, t) BY <1>1, <1>3, <2>1 DEF Due
    <3> QED BY <1>0, <1>1, <2>2, <3>1, SinkStays
  <2>4. Feed(s) = r /\ Feed(s)' = r BY <1>0, <1>1, <1>2 DEF FeedSpec
  <2>5. Pending(r, s) /\ ~Pending(r, s)' BY <1>2, <1>3, <2>1
  <2>6. done[r] \in Nat BY <1>0, BoundAssumption DEF TypeInv, TypeOK, SourceType
  <2>7. Position(s) = done[r] - 1 /\ Position(s)' = done[r]
    <3>1. Position(s) = done[r] - 1 BY <1>0, <2>4, <2>5 DEF Position
    <3>2. Position(s)' = done'[r] - 0 BY <1>0, <2>4, <2>5 DEF Position, Pending
    <3> QED BY <1>1, <2>6, <3>1, <3>2
  <2>8. PICK x \in ExData : x = [src |-> r, n |-> work[r].n, cached |-> FALSE]
    <3>1. work[r].n \in 1 .. MaxPuts BY <1>2, BoundAssumption DEF WorkStates
    <3> QED BY <3>1 DEF ExData
  <2>9. Sent(s)' = Append(Sent(s), x)
    <3>1. delivered[s] \in Seq(ExData) /\ msgChan[s] \in Seq(ExData) BY <1>0, <1>2 DEF TypeInv, TypeOK, SinkType
    <3>2. \A d, q \in Seq(ExData) : \A y \in ExData : d \o Append(q, y) = Append(d \o q, y)
      BY SentSeq
    <3>3. msgChan'[s] = Append(msgChan[s], x) BY <1>0, <1>2, <1>6, <2>8 DEF TypeInv, TypeOK, SinkType
    <3> QED BY <1>1, <3>1, <3>2, <3>3 DEF Sent
  <2>10. \A t \in Regs : t # s => Sent(t)' = Sent(t)
    BY <1>0, <1>1, <1>6 DEF Sent, TypeInv, TypeOK, SinkType
  <2>11. x = [src |-> Feed(s), n |-> Position(s) + 1, cached |-> FALSE]
    <3>1. Position(s) + 1 = work[r].n BY <1>2, <2>6, <2>7
    <3> QED BY <2>4, <2>8, <3>1
  <2>12. [t \in Regs |-> Feed(t)]' = [t \in Regs |-> Feed(t)] BY <2>3, <2>4
  <2>13. [t \in Regs |-> Position(t)]' = [[t \in Regs |-> Position(t)] EXCEPT ![s] = Position(s) + 1]
    <3>1. Position(s)' = Position(s) + 1 BY <2>6, <2>7
    <3> QED BY <2>3, <3>1
  <2>14. [t \in Regs |-> Sent(t)]' = [[t \in Regs |-> Sent(t)] EXCEPT ![s] = Append(Sent(s), x)]
    BY <2>9, <2>10
  <2>15. Position(s) < done[Feed(s)] BY <2>4, <2>6, <2>7
  <2>16. Feed(s) # NoReg BY <1>0, <2>4
  <2>17. B!Serve(s) BY <1>1, <1>2, <2>11, <2>12, <2>13, <2>14, <2>15, <2>16 DEF B!Serve
  <2> QED BY <1>2, <2>17 DEF B!BNext
<1> QED BY <1>5, <1>6 DEF WriteData

\* The Cancel of a victim, after which it leaves; it may have left before.
LEMMA EvictLeaves ==
    ASSUME StreamBase, StreamBase', NEW r \in Regs, Evict(r)
    PROVE [B!BNext]_(B!bvars)
<1>0. /\ TypeInv /\ TypeInv' /\ FeedSpec /\ FeedSpec' /\ WorkInv /\ NoReg \notin Regs BY StreamFacts
<1>1. PICK s : s = work[r].victim OBVIOUS
<1>2. /\ work[r].at = "evict" /\ UNCHANGED <<done, log, msgChan, delivered>>
      /\ sinks' = [sinks EXCEPT ![r] = @ \ {s}]
      /\ work' = [work EXCEPT ![r] = Resume(r, work[r].todo)]
  BY <1>1 DEF Evict
<1>3. Only(r) /\ sinks'[r] = sinks[r] \ {s} BY <1>0, <1>2 DEF Only, TypeInv, TypeOK, SourceType
<1>4. \A t \in Regs : Pending(r, t)' <=> t \in work[r].todo BY <1>0, <1>2, ResumePending
<1>5. \A t \in Regs : t # s => (Pending(r, t)' <=> Pending(r, t)) BY <1>1, <1>2, <1>4 DEF Pending
<1>6. CASE s \in sinks[r]
  <2>1. s \notin sinks'[r] /\ \A t \in Regs : t # s => (t \in sinks'[r] <=> t \in sinks[r]) BY <1>3
  <2> QED BY <1>0, <1>2, <1>3, <1>5, <1>6, <2>1, SinkLeaves
<1>7. CASE s \notin sinks[r]
  <2>1. sinks[r] \subseteq Regs BY <1>0 DEF TypeInv, TypeOK, SourceType
  <2>2. sinks'[r] = sinks[r] /\ \A t \in sinks[r] : Pending(r, t)' <=> Pending(r, t)
    BY <1>3, <1>5, <1>7, <2>1
  <2> QED BY <1>0, <1>2, <1>3, <2>2, WorkerUnnoticed
<1> QED BY <1>6, <1>7

\* The end of a worker: its sinks get no more, but do not leave.
LEMMA QuitUnnoticed ==
    ASSUME StreamBase, StreamBase', NEW r \in Regs,
           SourceDone(r) \/ \E s \in work[r].todo : CancelSink(r, s)
    PROVE UNCHANGED B!bvars
<1>0. TypeInv /\ TypeInv' /\ FeedSpec /\ FeedSpec' BY StreamFacts
<1>1. /\ UNCHANGED <<sinks, done, log, msgChan, delivered>> /\ work[r].at \in {"select", "cancelSinks"}
      /\ \E a \in {"quit", "cancelSinks"} : \E t : work' = [work EXCEPT ![r] = [work[r] EXCEPT !.at = a, !.todo = t]]
  BY DEF SourceDone, CancelSink
<1>2. PICK a \in {"quit", "cancelSinks"} : \E t : work' = [work EXCEPT ![r] = [work[r] EXCEPT !.at = a, !.todo = t]]
  BY <1>1
<1>3. \E t : work'[r] = [work[r] EXCEPT !.at = a, !.todo = t]
  BY <1>0, <1>2 DEF TypeInv, TypeOK, SourceType
<1>4. work'[r].at = a BY <1>0, <1>3 DEF TypeInv, TypeOK, SourceType, WorkStates
<1>5. Only(r) BY <1>0, <1>1, <1>2 DEF Only, TypeInv, TypeOK, SourceType
<1>6. \A t \in sinks[r] : Pending(r, t)' <=> Pending(r, t) BY <1>1, <1>4 DEF Pending
<1> QED BY <1>0, <1>1, <1>5, <1>6, WorkerUnnoticed

\* Every step of the exchanger is one of Broadcast, or none.
LEMMA BroadcastNext == StreamBase /\ StreamBase' /\ [Next]_vars => [B!BNext]_(B!bvars)
<1> SUFFICES ASSUME StreamBase, StreamBase', [Next]_vars PROVE [B!BNext]_(B!bvars) OBVIOUS
<1>1. CASE UNCHANGED vars
  <2>1. UNCHANGED <<sinks, done, work, log, msgChan, delivered>> BY <1>1 DEF vars
  <2>2. FeedSpec BY StreamFacts
  <2>3. \A s \in Regs : Feed(s)' = Feed(s) /\ Position(s)' = Position(s) BY <2>1, <2>2, OthersUnnoticed
  <2>4. \A s \in Regs : Sent(s)' = Sent(s) BY <2>1 DEF Sent
  <2> QED BY <2>1, <2>3, <2>4, BroadcastStutter
<1>2. ASSUME NEW r \in Regs, SourceWork(r) PROVE [B!BNext]_(B!bvars)
  <2>1. CASE srcChan[r] # <<>> /\ HandleRtmpMessage(r, Head(srcChan[r]))
    BY <2>1, HandleAdvances DEF B!BNext
  <2> QED BY <1>2, <2>1, ConnectJoins, DeleteLeaves, WriteServes, EvictLeaves, QuitUnnoticed DEF SourceWork
<1> QED BY <1>1, <1>2, HandlersRefine, PairPadRefines DEF Next

\* The exchanger implements Broadcast: with all its channels, maps, workers
\* and cancellations, a sink that joins a stream is sent the newest video and
\* audio configuration and then every message in order until it leaves.
THEOREM ExchangeImplementsBroadcast == Spec => ImplementsBroadcast
<1>1. Init => B!BInit BY BroadcastInit
<1>2. StreamBase /\ StreamBase' /\ [Next]_vars => [B!BNext]_(B!bvars) BY BroadcastNext
<1>3. (Init => StreamBase) /\ (StreamBase /\ [Next]_vars => StreamBase') BY StreamBaseInductive
<1> QED BY <1>1, <1>2, <1>3, PTL DEF Spec, ImplementsBroadcast, B!Spec

(***************************************************************************)
(* What a sink is sent can be played.  The three parts of PlayableStream,  *)
(* of one sequence q of messages and of the logs L of the sources.         *)
(***************************************************************************)
Gapless(q) ==
    \A i \in 1 .. Len(q) - 1 : /\ q[i].src = q[i + 1].src
                               /\ ~q[i].cached => ~q[i + 1].cached /\ q[i + 1].n = q[i].n + 1
NoneTwice(q) == \A i, j \in 1 .. Len(q) : i # j => q[i].n # q[j].n
\* j is the newest message of kind kd among the first p of lg.
Latest(lg, kd, p, j) ==
    j \in 1 .. p /\ lg[j] = kd /\ \A l \in 1 .. p : lg[l] = kd => l <= j
Decodable(q, L) ==
    \A i \in 1 .. Len(q) : ~q[i].cached =>
        \A kd \in {"vcfg", "acfg"} : \A j \in 1 .. q[i].n - 1 :
            Latest(L[q[i].src], kd, q[i].n - 1, j) => \E e \in 1 .. i - 1 : q[e].n = j
\* Every message was accepted by its source.
Accepted(q, L) == \A i \in 1 .. Len(q) : q[i].n <= Len(L[q[i].src])
\* q is what a sink has that has joined r and was served its first p messages.
UpTo(q, r, p, L) ==
    /\ \A i \in 1 .. Len(q) : q[i].src = r /\ q[i].n <= p
    /\ q # <<>> /\ ~q[Len(q)].cached => q[Len(q)].n = p
    /\ \A kd \in {"vcfg", "acfg"} : \A j \in 1 .. p :
          Latest(L[r], kd, p, j) => \E e \in 1 .. Len(q) : q[e].n = j
Playable(q, L) == Gapless(q) /\ NoneTwice(q) /\ Decodable(q, L) /\ Accepted(q, L)

\* The sink is served one message more.
LEMMA ServedPlayable ==
    ASSUME NEW q \in Seq(ExData), NEW L \in [Regs -> Seq(Kinds)], NEW r \in Regs, NEW p \in Nat,
           Playable(q, L), UpTo(q, r, p, L), p + 1 <= Len(L[r]), NEW x \in ExData,
           x = [src |-> r, n |-> p + 1, cached |-> FALSE]
    PROVE Playable(Append(q, x), L) /\ UpTo(Append(q, x), r, p + 1, L)
<1>1. PICK z \in Seq(ExData) : z = Append(q, x) BY AppendProperties
<1>2. /\ Len(z) = Len(q) + 1 /\ Len(q) \in Nat /\ z[Len(q) + 1] = x
      /\ \A i \in 1 .. Len(q) : z[i] = q[i]
  BY <1>1, AppendProperties, LenProperties
<1>3. x.src = r /\ x.n = p + 1 /\ x.cached = FALSE OBVIOUS
<1>4. \A i \in 1 .. Len(q) : q[i] \in ExData /\ q[i].n \in Nat
  <2>1. \A i \in 1 .. Len(q) : q[i] \in ExData BY ElementOfSeq
  <2> QED BY <2>1, BoundAssumption DEF ExData
<1>5. \A i \in 1 .. Len(z) : i \in 1 .. Len(q) \/ i = Len(q) + 1 BY <1>2
<1>6. \A i \in 1 .. Len(q) : q[i].src = r /\ q[i].n <= p BY DEF UpTo
<1>7. Gapless(z)
  <2> SUFFICES ASSUME NEW i \in 1 .. Len(z) - 1
               PROVE /\ z[i].src = z[i + 1].src
                     /\ ~z[i].cached => ~z[i + 1].cached /\ z[i + 1].n = z[i].n + 1
    BY DEF Gapless
  <2>1. i \in 1 .. Len(q) /\ z[i] = q[i] BY <1>2
  <2>2. CASE i = Len(q)
    <3>1. z[i + 1] = x /\ q # <<>> BY <1>2, <2>1, <2>2
    <3>2. ~q[i].cached => q[i].n = p BY <2>2, <3>1 DEF UpTo
    <3> QED BY <1>3, <1>6, <2>1, <3>1, <3>2
  <2>3. CASE i # Len(q)
    <3>1. i \in 1 .. Len(q) - 1 /\ i + 1 \in 1 .. Len(q) BY <1>2, <2>1, <2>3
    <3> QED BY <1>2, <2>1, <3>1 DEF Playable, Gapless
  <2> QED BY <2>2, <2>3
<1>8. NoneTwice(z)
  <2>1. \A i \in 1 .. Len(q) : q[i].n # x.n BY <1>3, <1>4, <1>6
  <2> QED BY <1>2, <1>5, <2>1 DEF NoneTwice, Playable
<1>9. Decodable(z, L)
  <2> SUFFICES ASSUME NEW i \in 1 .. Len(z), ~z[i].cached, NEW kd \in {"vcfg", "acfg"},
                      NEW j \in 1 .. z[i].n - 1, Latest(L[z[i].src], kd, z[i].n - 1, j)
               PROVE \E e \in 1 .. i - 1 : z[e].n = j
    BY DEF Decodable
  <2>1. CASE i \in 1 .. Len(q)
    <3>1. z[i] = q[i] BY <1>2, <2>1
    <3>2. PICK e \in 1 .. i - 1 : q[e].n = j BY <2>1, <3>1 DEF Decodable, Playable
    <3>3. e \in 1 .. Len(q) BY <1>2, <2>1
    <3> QED BY <1>2, <3>2, <3>3
  <2>2. CASE i = Len(q) + 1
    <3>1. z[i] = x BY <1>2, <2>2
    <3>2. z[i].n - 1 = p /\ z[i].src = r BY <1>3, <3>1
    <3>3. j \in 1 .. p /\ Latest(L[r], kd, p, j) BY <3>2
    <3>4. PICK e \in 1 .. Len(q) : q[e].n = j BY <3>3 DEF UpTo
    <3>5. z[e].n = j /\ i - 1 = Len(q) BY <1>2, <2>2, <3>4
    <3> QED BY <3>5
  <2> QED BY <1>5, <2>1, <2>2
<1>10. Accepted(z, L) BY <1>2, <1>3, <1>5 DEF Accepted, Playable
<1>11. UpTo(z, r, p + 1, L)
  <2>1. \A i \in 1 .. Len(z) : z[i].src = r /\ z[i].n <= p + 1
    <3> SUFFICES ASSUME NEW i \in 1 .. Len(z) PROVE z[i].src = r /\ z[i].n <= p + 1 OBVIOUS
    <3>1. CASE i \in 1 .. Len(q) BY <1>2, <1>4, <1>6, <3>1
    <3>2. CASE i = Len(q) + 1 BY <1>2, <1>3, <3>2
    <3> QED BY <1>5, <3>1, <3>2
  <2>2. z[Len(z)].n = p + 1 BY <1>2, <1>3
  <2>3. ASSUME NEW kd \in {"vcfg", "acfg"}, NEW j \in 1 .. p + 1, Latest(L[r], kd, p + 1, j)
        PROVE \E e \in 1 .. Len(z) : z[e].n = j
    <3>1. CASE j = p + 1
      <4>1. Len(z) \in 1 .. Len(z) BY <1>2
      <4> QED BY <2>2, <3>1, <4>1
    <3>2. CASE j # p + 1
      <4>1. j \in 1 .. p /\ 1 .. p \subseteq 1 .. p + 1 BY <3>2
      <4>2. Latest(L[r], kd, p, j) BY <2>3, <4>1 DEF Latest
      <4>3. PICK e \in 1 .. Len(q) : q[e].n = j BY <4>1, <4>2 DEF UpTo
      <4>4. e \in 1 .. Len(z) /\ z[e].n = j BY <1>2, <4>3
      <4> QED BY <4>4
    <3> QED BY <3>1, <3>2
  <2> QED BY <2>1, <2>2, <2>3 DEF UpTo
<1> QED BY <1>1, <1>7, <1>8, <1>9, <1>10, <1>11 DEF Playable

\* A source accepts one message more.
LEMMA AcceptedPlayable ==
    ASSUME NEW q \in Seq(ExData), NEW L \in [Regs -> Seq(Kinds)], NEW r \in Regs, NEW kd \in Kinds,
           Playable(q, L)
    PROVE /\ Playable(q, [L EXCEPT ![r] = Append(@, kd)])
          /\ \A f \in Regs : \A p \in Nat :
                p <= Len(L[f]) /\ UpTo(q, f, p, L) => UpTo(q, f, p, [L EXCEPT ![r] = Append(@, kd)])
<1>1. PICK M : M = [L EXCEPT ![r] = Append(@, kd)] OBVIOUS
<1>2. \A f \in Regs : Len(L[f]) \in Nat BY LenProperties
<1>3. ASSUME NEW f \in Regs PROVE /\ Len(M[f]) \in Nat /\ Len(L[f]) <= Len(M[f])
                                  /\ \A j \in 1 .. Len(L[f]) : M[f][j] = L[f][j]
  <2>1. CASE f # r BY <1>1, <1>2, <2>1
  <2>2. CASE f = r
    <3>1. M[f] = Append(L[f], kd) BY <1>1, <2>2
    <3>2. Len(Append(L[f], kd)) = Len(L[f]) + 1 /\ \A j \in 1 .. Len(L[f]) : Append(L[f], kd)[j] = L[f][j]
      BY AppendProperties
    <3> QED BY <1>2, <3>1, <3>2
  <2> QED BY <2>1, <2>2
<1>4. \A i \in 1 .. Len(q) : q[i].src \in Regs /\ q[i].n \in Nat /\ q[i].n <= Len(L[q[i].src])
  <2>1. \A i \in 1 .. Len(q) : q[i] \in ExData BY ElementOfSeq
  <2> QED BY <2>1, BoundAssumption DEF ExData, Playable, Accepted
<1>5. ASSUME NEW f \in Regs, NEW p \in Int, p <= Len(L[f]), NEW k, NEW j
      PROVE Latest(M[f], k, p, j) => Latest(L[f], k, p, j)
  <2>1. \A l \in 1 .. p : l \in 1 .. Len(L[f]) BY <1>2, <1>5
  <2>2. \A l \in 1 .. p : M[f][l] = L[f][l] BY <1>3, <2>1
  <2> QED BY <2>2 DEF Latest
<1>6. Accepted(q, M)
  <2> SUFFICES ASSUME NEW i \in 1 .. Len(q) PROVE q[i].n <= Len(M[q[i].src]) BY DEF Accepted
  <2>1. PICK f \in Regs : f = q[i].src BY <1>4
  <2>2. q[i].n \in Nat /\ q[i].n <= Len(L[f]) /\ Len(L[f]) <= Len(M[f]) BY <1>3, <1>4, <2>1
  <2> QED BY <1>2, <1>3, <2>1, <2>2
<1>7. Decodable(q, M)
  <2> SUFFICES ASSUME NEW i \in 1 .. Len(q), ~q[i].cached, NEW k \in {"vcfg", "acfg"},
                      NEW j \in 1 .. q[i].n - 1, Latest(M[q[i].src], k, q[i].n - 1, j)
               PROVE \E e \in 1 .. i - 1 : q[e].n = j
    BY DEF Decodable
  <2>1. PICK f \in Regs : f = q[i].src BY <1>4
  <2>2. PICK p \in Int : p = q[i].n - 1 BY <1>4
  <2>3. p <= Len(L[f]) BY <1>2, <1>4, <2>1, <2>2
  <2>4. Latest(L[f], k, p, j) BY <1>5, <2>1, <2>2, <2>3
  <2> QED BY <2>1, <2>2, <2>4 DEF Playable, Decodable
<1>8. ASSUME NEW f \in Regs, NEW p \in Nat, p <= Len(L[f]), UpTo(q, f, p, L) PROVE UpTo(q, f, p, M)
  <2>1. \A k \in {"vcfg", "acfg"} : \A j \in 1 .. p : Latest(M[f], k, p, j) => Latest(L[f], k, p, j)
    BY <1>5, <1>8
  <2> QED BY <1>8, <2>1 DEF UpTo
<1> QED BY <1>1, <1>6, <1>7, <1>8 DEF Playable

\* z holds message v and message a of r, cached, each unless it is 0.
Joined(z, r, v, a) ==
    /\ \A i \in 1 .. Len(z) : /\ z[i].src = r /\ z[i].cached
                              /\ (v # 0 /\ z[i].n = v) \/ (a # 0 /\ z[i].n = a)
    /\ v # 0 => \E i \in 1 .. Len(z) : z[i].n = v
    /\ a # 0 => \E i \in 1 .. Len(z) : z[i].n = a
    /\ \A i, j \in 1 .. Len(z) : i # j =>
          v # 0 /\ a # 0 /\ ((z[i].n = v /\ z[j].n = a) \/ (z[i].n = a /\ z[j].n = v))

\* Two sequences of at most one message each.
LEMMA JoinTwo ==
    ASSUME NEW v \in Nat, NEW a \in Nat, NEW r \in Regs,
           CachedOne(r, v) \in Seq(ExData), CachedOne(r, a) \in Seq(ExData)
    PROVE Joined(CachedOne(r, v) \o CachedOne(r, a), r, v, a)
<1>1. PICK s \in Seq(ExData) : s = CachedOne(r, v) OBVIOUS
<1>2. PICK t \in Seq(ExData) : t = CachedOne(r, a) OBVIOUS
<1>3. PICK z : z = s \o t OBVIOUS
<1>4. \/ v = 0 /\ Len(s) = 0
      \/ v # 0 /\ Len(s) = 1 /\ s[1].src = r /\ s[1].cached /\ s[1].n = v
  BY <1>1 DEF CachedOne
<1>5. \/ a = 0 /\ Len(t) = 0
      \/ a # 0 /\ Len(t) = 1 /\ t[1].src = r /\ t[1].cached /\ t[1].n = a
  BY <1>2 DEF CachedOne
<1>6. /\ Len(z) = Len(s) + Len(t)
      /\ \A i \in 1 .. Len(s) + Len(t) : z[i] = IF i <= Len(s) THEN s[i] ELSE t[i - Len(s)]
  BY <1>3, ConcatProperties
<1>7. CASE v = 0 /\ a = 0
  <2>1. Len(z) = 0 BY <1>4, <1>5, <1>6, <1>7
  <2>2. Joined(z, r, v, a) BY <1>7, <2>1 DEF Joined
  <2> QED BY <1>1, <1>2, <1>3, <2>2
<1>8. CASE v # 0 /\ a = 0
  <2>1. Len(z) = 1 /\ z[1] = s[1] BY <1>4, <1>5, <1>6, <1>8
  <2>2. Joined(z, r, v, a) BY <1>4, <1>8, <2>1 DEF Joined
  <2> QED BY <1>1, <1>2, <1>3, <2>2
<1>9. CASE v = 0 /\ a # 0
  <2>1. Len(z) = 1 /\ z[1] = t[1]
    <3>1. Len(s) = 0 /\ Len(t) = 1 BY <1>4, <1>5, <1>9
    <3>2. Len(z) = 1 /\ z[1] = t[1 - 0] BY <1>6, <3>1
    <3> QED BY <3>2
  <2>2. Joined(z, r, v, a) BY <1>5, <1>9, <2>1 DEF Joined
  <2> QED BY <1>1, <1>2, <1>3, <2>2
<1>10. CASE v # 0 /\ a # 0
  <2>1. Len(z) = 2 /\ z[1] = s[1] /\ z[2] = t[1]
    <3>1. Len(s) = 1 /\ Len(t) = 1 BY <1>4, <1>5, <1>10
    <3>2. Len(z) = 2 /\ z[1] = s[1] /\ z[2] = t[2 - 1] BY <1>6, <3>1
    <3> QED BY <3>2
  <2>2. 1 .. Len(z) = {1, 2} BY <2>1
  <2>3. z[1].src = r /\ z[1].cached /\ z[1].n = v BY <1>4, <1>10, <2>1
  <2>4. z[2].src = r /\ z[2].cached /\ z[2].n = a BY <1>5, <1>10, <2>1
  <2>5. \A i \in {1, 2} : /\ z[i].src = r /\ z[i].cached
                          /\ (v # 0 /\ z[i].n = v) \/ (a # 0 /\ z[i].n = a)
    BY <1>10, <2>3, <2>4
  <2>6. \E i \in {1, 2} : z[i].n = v BY <2>3
  <2>7. \E i \in {1, 2} : z[i].n = a BY <2>4
  <2>8. \A i, j \in {1, 2} : i # j =>
           v # 0 /\ a # 0 /\ ((z[i].n = v /\ z[j].n = a) \/ (z[i].n = a /\ z[j].n = v))
    BY <1>10, <2>3, <2>4
  <2>9. Joined(z, r, v, a) BY <2>2, <2>5, <2>6, <2>7, <2>8 DEF Joined
  <2> QED BY <1>1, <1>2, <1>3, <2>9
<1> QED BY <1>7, <1>8, <1>9, <1>10

\* What connectSink sends first can be played.
LEMMA CachedPlayable ==
    ASSUME TypeInv, SourceInv, NEW r \in Regs
    PROVE /\ Cached(r) \in Seq(ExData) /\ Playable(Cached(r), log)
          /\ UpTo(Cached(r), r, done[r], log)
<1>1. PICK z \in Seq(ExData) : z = Cached(r) BY CachedType DEF TypeInv
<1>2. PICK v \in Nat : v = vcfg[r] BY BoundAssumption DEF TypeInv, TypeOK, SourceType
<1>3. PICK a \in Nat : a = acfg[r] BY BoundAssumption DEF TypeInv, TypeOK, SourceType
<1>4. PICK d \in Nat : d = done[r] BY BoundAssumption DEF TypeInv, TypeOK, SourceType
<1>5. IsNewest(log[r], "vcfg", d, v) /\ IsNewest(log[r], "acfg", d, a) /\ d <= Len(log[r])
  BY <1>2, <1>3, <1>4 DEF SourceInv, SourceGood, InOrder
<1>6. /\ \A i \in 1 .. Len(z) : /\ z[i].src = r /\ z[i].cached
                                /\ (v # 0 /\ z[i].n = v) \/ (a # 0 /\ z[i].n = a)
      /\ v # 0 => \E i \in 1 .. Len(z) : z[i].n = v
      /\ a # 0 => \E i \in 1 .. Len(z) : z[i].n = a
      /\ \A i, j \in 1 .. Len(z) : i # j =>
            v # 0 /\ a # 0 /\ ((z[i].n = v /\ z[j].n = a) \/ (z[i].n = a /\ z[j].n = v))
  <2>1. \A n \in 0 .. MaxPuts : CachedOne(r, n) \in Seq(ExData)
    <3> SUFFICES ASSUME NEW n \in 0 .. MaxPuts PROVE CachedOne(r, n) \in Seq(ExData) OBVIOUS
    <3>1. CASE n = 0 BY <3>1 DEF CachedOne
    <3>2. CASE n # 0
      <4>1. [src |-> r, n |-> n, cached |-> TRUE] \in ExData BY <3>2, BoundAssumption DEF ExData
      <4> QED BY <3>2, <4>1 DEF CachedOne
    <3> QED BY <3>1, <3>2
  <2>2. v \in 0 .. MaxPuts /\ a \in 0 .. MaxPuts BY <1>2, <1>3 DEF TypeInv, TypeOK, SourceType
  <2>3. z = CachedOne(r, v) \o CachedOne(r, a) BY <1>1, <1>2, <1>3 DEF Cached
  <2>4. CachedOne(r, v) \in Seq(ExData) /\ CachedOne(r, a) \in Seq(ExData) BY <2>1, <2>2
  <2>5. Joined(z, r, v, a) BY <2>3, <2>4, JoinTwo
  <2> QED BY <2>5 DEF Joined
<1>7. /\ v # 0 => v <= d /\ v >= 1 /\ log[r][v] = "vcfg" /\ \A j \in 1 .. d : log[r][j] = "vcfg" => j <= v
      /\ v = 0 => \A j \in 1 .. d : log[r][j] # "vcfg"
      /\ a # 0 => a <= d /\ a >= 1 /\ log[r][a] = "acfg" /\ \A j \in 1 .. d : log[r][j] = "acfg" => j <= a
      /\ a = 0 => \A j \in 1 .. d : log[r][j] # "acfg"
  BY <1>5 DEF IsNewest
<1>8. v # 0 /\ a # 0 => v # a BY <1>7
<1>9. \A i \in 1 .. Len(z) : z[i].src = r /\ z[i].cached /\ z[i].n <= d BY <1>6, <1>7
<1>10. Len(z) \in Nat BY LenProperties
<1>11. Gapless(z)
  <2>1. \A i \in 1 .. Len(z) - 1 : i \in 1 .. Len(z) /\ i + 1 \in 1 .. Len(z) BY <1>10
  <2> QED BY <1>9, <2>1 DEF Gapless
<1>12. NoneTwice(z) BY <1>6, <1>8 DEF NoneTwice
<1>13. Decodable(z, log) BY <1>9 DEF Decodable
<1>14. Accepted(z, log)
  <2>1. Len(log[r]) \in Nat BY DEF TypeInv, TypeOK, SourceType
  <2>2. \A i \in 1 .. Len(z) : z[i].n \in Nat BY <1>6
  <2>3. \A i \in 1 .. Len(z) : z[i].n <= Len(log[r]) BY <1>5, <1>9, <2>1, <2>2
  <2> QED BY <1>9, <2>3 DEF Accepted
<1>15. UpTo(z, r, d, log)
  <2>1. ASSUME NEW kd \in {"vcfg", "acfg"}, NEW j \in 1 .. d, Latest(log[r], kd, d, j)
        PROVE \E e \in 1 .. Len(z) : z[e].n = j
    <3>1. CASE kd = "vcfg"
      <4>1. log[r][j] = "vcfg" /\ \A l \in 1 .. d : log[r][l] = "vcfg" => l <= j BY <2>1, <3>1 DEF Latest
      <4>2. v # 0 /\ j <= v /\ v \in 1 .. d /\ v <= j BY <1>7, <4>1
      <4>3. v = j BY <4>2
      <4> QED BY <1>6, <4>2, <4>3
    <3>2. CASE kd = "acfg"
      <4>1. log[r][j] = "acfg" /\ \A l \in 1 .. d : log[r][l] = "acfg" => l <= j BY <2>1, <3>2 DEF Latest
      <4>2. a # 0 /\ j <= a /\ a \in 1 .. d /\ a <= j BY <1>7, <4>1
      <4>3. a = j BY <4>2
      <4> QED BY <1>6, <4>2, <4>3
    <3> QED BY <3>1, <3>2
  <2>2. z # <<>> => z[Len(z)].cached
    <3>1. z # <<>> => Len(z) \in 1 .. Len(z) BY <1>10, EmptySeq
    <3> QED BY <1>9, <3>1
  <2> QED BY <1>9, <2>1, <2>2 DEF UpTo
<1> QED BY <1>1, <1>4, <1>11, <1>12, <1>13, <1>14, <1>15 DEF Playable

(***************************************************************************)
(* The invariant behind PlayableStream, kept by every step of Broadcast.   *)
(***************************************************************************)
SinkGood(s) ==
    /\ Playable(Sent(s), log)
    /\ Feed(s) # NoReg => /\ Position(s) \in Nat /\ Position(s) <= done[Feed(s)]
                          /\ UpTo(Sent(s), Feed(s), Position(s), log)
StreamInv == \A s \in Regs : SinkGood(s)

\* At first nothing was sent.
LEMMA StreamInit == Init => StreamInv
<1> SUFFICES ASSUME Init, NEW s \in Regs PROVE SinkGood(s) BY DEF StreamInv
<1>1. Sent(s) = <<>> BY DEF Init, Sent
<1>2. Feed(s) = NoReg BY DEF Init, Feed
<1>3. Playable(<<>>, log) BY DEF Playable, Gapless, NoneTwice, Decodable, Accepted
<1> QED BY <1>1, <1>2, <1>3 DEF SinkGood

\* A sink whose stream does not change.
LEMMA StreamFrame ==
    ASSUME NEW s \in Regs, SinkGood(s), Feed(s)' = Feed(s), Position(s)' = Position(s),
           Sent(s)' = Sent(s), UNCHANGED <<log, done>>
    PROVE SinkGood(s)'
BY DEF SinkGood

\* The steps of Broadcast keep what was sent playable.
LEMMA StreamNext ==
    ASSUME StreamBase, StreamBase', StreamInv, [B!BNext]_(B!bvars), [Next]_vars
    PROVE StreamInv'
<1> SUFFICES ASSUME NEW s \in Regs PROVE SinkGood(s)' BY DEF StreamInv
<1>0. /\ TypeInv /\ TypeInv' /\ FeedSpec /\ FeedSpec' /\ SourceInv /\ NoReg \notin Regs BY StreamFacts
<1>1. SinkGood(s) /\ Sent(s) \in Seq(ExData) /\ log \in [Regs -> Seq(Kinds)]
  BY <1>0, SentFrame DEF StreamInv, TypeInv, TypeOK, SourceType
<1>2. \A r \in Regs : done[r] \in Nat /\ Len(log[r]) \in Nat /\ done[r] <= Len(log[r])
  BY <1>0, BoundAssumption DEF TypeInv, TypeOK, SourceType, SourceInv, SourceGood, InOrder
<1>3. PICK f \in Regs \cup {NoReg} : f = Feed(s) BY <1>0 DEF FeedSpec
<1>4. PICK p : p = Position(s) OBVIOUS
<1>5. PICK q \in Seq(ExData) : q = Sent(s) BY <1>1
<1>6. /\ Playable(q, log)
      /\ f # NoReg => p \in Nat /\ p <= done[f] /\ UpTo(q, f, p, log)
  BY <1>1, <1>3, <1>4, <1>5 DEF SinkGood
<1>7. CASE UNCHANGED B!bvars
  <2>1. /\ UNCHANGED <<log, done>> /\ [t \in Regs |-> Feed(t)]' = [t \in Regs |-> Feed(t)]
        /\ [t \in Regs |-> Position(t)]' = [t \in Regs |-> Position(t)]
        /\ [t \in Regs |-> Sent(t)]' = [t \in Regs |-> Sent(t)]
    BY <1>7 DEF B!bvars
  <2>2. Feed(s)' = Feed(s) /\ Position(s)' = Position(s) /\ Sent(s)' = Sent(s) BY <2>1
  <2> QED BY <1>1, <2>1, <2>2, StreamFrame
<1>8. ASSUME NEW r \in Regs, NEW kd \in Kinds, B!Accept(r, kd) PROVE SinkGood(s)'
  <2>1. /\ log' = [log EXCEPT ![r] = Append(@, kd)] /\ done' = done
        /\ [t \in Regs |-> Feed(t)]' = [t \in Regs |-> Feed(t)]
        /\ [t \in Regs |-> Position(t)]' = [t \in Regs |-> Position(t)]
        /\ [t \in Regs |-> Sent(t)]' = [t \in Regs |-> Sent(t)]
    BY <1>8 DEF B!Accept
  <2>2. Feed(s)' = f /\ Position(s)' = p /\ Sent(s)' = q BY <1>3, <1>4, <1>5, <2>1
  <2>3. PICK M : M = [log EXCEPT ![r] = Append(@, kd)] OBVIOUS
  <2>4. Playable(q, M) BY <1>1, <1>6, <2>3, AcceptedPlayable
  <2>5. f # NoReg => UpTo(q, f, p, M)
    <3> SUFFICES ASSUME f # NoReg PROVE UpTo(q, f, p, M) OBVIOUS
    <3>1. f \in Regs /\ p \in Nat /\ p <= Len(log[f]) /\ UpTo(q, f, p, log) BY <1>2, <1>6
    <3> QED BY <1>1, <1>6, <2>3, <3>1, AcceptedPlayable
  <2> QED BY <1>6, <2>1, <2>2, <2>3, <2>4, <2>5 DEF SinkGood
<1>9. ASSUME NEW r \in Regs, B!Advance(r) PROVE SinkGood(s)'
  <2>1. /\ done' = [done EXCEPT ![r] = @ + 1] /\ log' = log
        /\ [t \in Regs |-> Feed(t)]' = [t \in Regs |-> Feed(t)]
        /\ [t \in Regs |-> Position(t)]' = [t \in Regs |-> Position(t)]
        /\ [t \in Regs |-> Sent(t)]' = [t \in Regs |-> Sent(t)]
    BY <1>9 DEF B!Advance
  <2>2. Feed(s)' = f /\ Position(s)' = p /\ Sent(s)' = q BY <1>3, <1>4, <1>5, <2>1
  <2>3. f # NoReg => p <= done'[f]
    <3> SUFFICES ASSUME f # NoReg PROVE p <= done'[f] OBVIOUS
    <3>1. f \in Regs /\ p \in Nat /\ p <= done[f] /\ done[f] \in Nat BY <1>2, <1>6
    <3>2. done'[f] = done[f] \/ done'[f] = done[f] + 1
      BY <1>0, <2>1, <3>1 DEF TypeInv, TypeOK, SourceType
    <3> QED BY <3>1, <3>2
  <2> QED BY <1>6, <2>1, <2>2, <2>3 DEF SinkGood
<1>10. ASSUME NEW t \in Regs, B!Serve(t) PROVE SinkGood(s)'
  <2>1. /\ UNCHANGED <<log, done>> /\ Feed(t) # NoReg /\ Position(t) < done[Feed(t)]
        /\ [u \in Regs |-> Feed(u)]' = [u \in Regs |-> Feed(u)]
        /\ [u \in Regs |-> Position(u)]' = [[u \in Regs |-> Position(u)] EXCEPT ![t] = Position(t) + 1]
        /\ [u \in Regs |-> Sent(u)]' = [[u \in Regs |-> Sent(u)] EXCEPT ![t] =
              Append(Sent(t), [src |-> Feed(t), n |-> Position(t) + 1, cached |-> FALSE])]
    BY <1>10 DEF B!Serve
  <2>2. CASE t # s
    <3>1. Feed(s)' = Feed(s) /\ Position(s)' = Position(s) /\ Sent(s)' = Sent(s) BY <2>1, <2>2
    <3> QED BY <1>1, <2>1, <3>1, StreamFrame
  <2>3. CASE t = s
    <3>1. f \in Regs /\ p \in Nat /\ p < done[f] /\ UpTo(q, f, p, log)
      BY <1>3, <1>4, <1>6, <2>1, <2>3
    <3>2. p + 1 <= done[f] /\ p + 1 <= Len(log[f]) BY <1>2, <3>1
    <3>3. /\ Feed(s)' = f /\ Position(s)' = p + 1
          /\ Sent(s)' = Append(q, [src |-> f, n |-> p + 1, cached |-> FALSE])
      BY <1>3, <1>4, <1>5, <2>1, <2>3
    <3>4. p + 1 \in 1 .. MaxPuts
      <4>1. done[f] \in 0 .. MaxPuts BY <1>0, <3>1 DEF TypeInv, TypeOK, SourceType
      <4> QED BY <3>1, <3>2, <4>1, BoundAssumption
    <3>5. PICK x \in ExData : x = [src |-> f, n |-> p + 1, cached |-> FALSE] BY <3>1, <3>4 DEF ExData
    <3>6. Playable(Append(q, x), log) /\ UpTo(Append(q, x), f, p + 1, log)
      BY <1>1, <1>6, <3>1, <3>2, <3>5, ServedPlayable
    <3>7. p + 1 \in Nat BY <3>1
    <3> QED BY <2>1, <3>2, <3>3, <3>5, <3>6, <3>7 DEF SinkGood
  <2> QED BY <2>2, <2>3
<1>11. ASSUME NEW t \in Regs, B!Leave(t) PROVE SinkGood(s)'
  <2>1. /\ UNCHANGED <<log, done>>
        /\ [u \in Regs |-> Feed(u)]' = [[u \in Regs |-> Feed(u)] EXCEPT ![t] = NoReg]
        /\ [u \in Regs |-> Position(u)]' = [[u \in Regs |-> Position(u)] EXCEPT ![t] = 0]
        /\ [u \in Regs |-> Sent(u)]' = [u \in Regs |-> Sent(u)]
    BY <1>11 DEF B!Leave
  <2>2. CASE t # s
    <3>1. Feed(s)' = Feed(s) /\ Position(s)' = Position(s) /\ Sent(s)' = Sent(s) BY <2>1, <2>2
    <3> QED BY <1>1, <2>1, <3>1, StreamFrame
  <2>3. CASE t = s
    <3>1. Feed(s)' = NoReg /\ Sent(s)' = q BY <1>5, <2>1, <2>3
    <3> QED BY <1>6, <2>1, <3>1 DEF SinkGood
  <2> QED BY <2>2, <2>3
<1>12. ASSUME NEW t \in Regs, NEW r \in Regs, B!Join(t, r) PROVE SinkGood(s)'
  <2>0. Cached(r) = B!Newest(r, "vcfg") \o B!Newest(r, "acfg") BY <1>0, CachedIsNewest
  <2>1. /\ UNCHANGED <<log, done>>
        /\ [u \in Regs |-> Feed(u)]' = [[u \in Regs |-> Feed(u)] EXCEPT ![t] = r]
        /\ [u \in Regs |-> Position(u)]' = [[u \in Regs |-> Position(u)] EXCEPT ![t] = done[r]]
        /\ [u \in Regs |-> Sent(u)]' = [[u \in Regs |-> Sent(u)] EXCEPT ![t] =
              B!Newest(r, "vcfg") \o B!Newest(r, "acfg")]
    BY <1>12 DEF B!Join
  <2>2. CASE t # s
    <3>1. Feed(s)' = Feed(s) /\ Position(s)' = Position(s) /\ Sent(s)' = Sent(s) BY <2>1, <2>2
    <3> QED BY <1>1, <2>1, <3>1, StreamFrame
  <2>3. CASE t = s
    <3>1. Feed(s)' = r /\ Position(s)' = done[r] /\ Sent(s)' = Cached(r) BY <2>0, <2>1, <2>3
    <3>2. PICK z : z = Cached(r) OBVIOUS
    <3>3. Playable(z, log) /\ UpTo(z, r, done[r], log) BY <1>0, <3>2, CachedPlayable
    <3>4. PICK d \in Nat : d = done[r] BY <1>2
    <3>5. done'[r] = d /\ d <= d BY <2>1, <3>4
    <3> QED BY <2>1, <3>1, <3>2, <3>3, <3>4, <3>5 DEF SinkGood
  <2> QED BY <2>2, <2>3
<1> QED BY <1>7, <1>8, <1>9, <1>10, <1>11, <1>12 DEF B!BNext

\* A step keeps the invariant.
LEMMA StreamStep == StreamBase /\ StreamBase' /\ StreamInv /\ [Next]_vars => StreamInv'
BY BroadcastNext, StreamNext

\* The invariant is what PlayableStream asks of every sink.
LEMMA StreamPlayable == StreamInv => PlayableStream
<1> SUFFICES ASSUME StreamInv PROVE PlayableStream OBVIOUS
<1>1. \A s \in Regs : Playable(Sent(s), log) BY DEF StreamInv, SinkGood
<1>2. GaplessStream BY <1>1 DEF GaplessStream, Playable, Gapless
<1>3. NothingTwice BY <1>1 DEF NothingTwice, Playable, NoneTwice
<1>4. DecodableStream
  <2> SUFFICES ASSUME NEW s \in Regs, NEW i \in 1 .. Len(Sent(s)), ~Sent(s)[i].cached,
                      NEW kd \in {"vcfg", "acfg"}, NEW j \in 1 .. Sent(s)[i].n - 1,
                      log[Sent(s)[i].src][j] = kd,
                      \A l \in {k \in 1 .. Sent(s)[i].n - 1 : log[Sent(s)[i].src][k] = kd} : l <= j
               PROVE \E e \in 1 .. i - 1 : Sent(s)[e].n = j
    BY DEF DecodableStream
  <2>1. Latest(log[Sent(s)[i].src], kd, Sent(s)[i].n - 1, j) BY DEF Latest
  <2> QED BY <1>1, <2>1 DEF Playable, Decodable
<1> QED BY <1>2, <1>3, <1>4 DEF PlayableStream

\* What a player is sent can be played, whenever it joins, however often the
\* publisher sends configurations and whatever else the connections do:
\* connectSink sends the cached configurations before writeData forwards to
\* the sink, and writeData skips no message and sends none twice.
THEOREM PlayersCanPlay == Spec => []PlayableStream
<1>1. Init => StreamBase /\ StreamInv BY StreamBaseInductive, StreamInit
<1>2. StreamBase /\ [Next]_vars => StreamBase' BY StreamBaseInductive
<1>3. StreamBase /\ StreamBase' /\ StreamInv /\ [Next]_vars => StreamInv' BY StreamStep
<1>4. StreamInv => PlayableStream BY StreamPlayable
<1> QED BY <1>1, <1>2, <1>3, <1>4, PTL DEF Spec

(***************************************************************************)
(* No player stalls: a sink stays with the source that served it until the *)
(* source cancels its connection.                                          *)
(***************************************************************************)
Held(r, s) == s \in sinks[r] \/ work[r].victim = s \/ cancelled[ConnOf(s)]
HeldInv == \A s \in Regs : \A i \in 1 .. Len(Sent(s)) : Held(Sent(s)[i].src, s)

\* A context stays cancelled.
LEMMA CancelledStays ==
    ASSUME TypeInv, [Next]_vars, NEW c \in Conns, cancelled[c]
    PROVE cancelled'[c]
<1>0. cancelled \in [Conns -> BOOLEAN] BY DEF TypeInv, TypeOK, ConnType
<1>1. cancelled' = cancelled \/ \E d : cancelled' = [cancelled EXCEPT ![d] = TRUE]
  <2>1. ASSUME NEW d \in Conns, Client(d) \/ Handler(d)
        PROVE cancelled' = cancelled \/ cancelled' = [cancelled EXCEPT ![d] = TRUE]
    BY <2>1 DEF Client, Handler, StreamCommand, CommandFails, Put, PutRefused, PutWithoutSource,
                Disconnect, Register, Unregister, CancelSelf
  <2>2. ASSUME PairPad \/ \E t \in Regs : SinkRun(t) PROVE cancelled' = cancelled
    BY <2>2 DEF PairPad, Handle, HandleRegisterSource, HandleUnregisterSource,
                HandleRegisterSinkWait, HandleRegisterSink, HandleUnregisterSink,
                NotifyWaitSenders, NotifyOne, Forward, SinkRun, SinkDeliver, SinkDone
  <2>3. ASSUME NEW r \in Regs, SourceWork(r)
        PROVE cancelled' = cancelled \/ \E d : cancelled' = [cancelled EXCEPT ![d] = TRUE]
    <3>1. \/ cancelled' = cancelled \/ Cancel(ConnOf(work[r].victim))
          \/ \E s \in work[r].todo : Cancel(ConnOf(s))
      BY <2>3 DEF SourceWork, ConnectSink, HandleRtmpMessage, DeleteSink, WriteData, CancelSink,
                  Evict, SourceDone
    <3> QED BY <3>1 DEF Cancel
  <2>4. CASE UNCHANGED vars BY <2>4 DEF vars
  <2> QED BY <2>1, <2>2, <2>3, <2>4 DEF Next
<1> QED BY <1>0, <1>1

\* The worker of r is started only once.
LEMMA StartedOff ==
    ASSUME TypeInv, StartOnce, NEW r \in Regs, pipe # <<>>, HandleRegisterSource(Head(pipe)),
           r = RegOf(Head(pipe))
    PROVE work[r].at = "off"
<1>1. Take(Head(pipe), "register_source") BY DEF HandleRegisterSource
<1>2. PICK x \in PadMessage : x = Head(pipe) /\ x.cmd = "register_source" BY <1>1, TakeFacts
<1>3. x \in RegisterMsg BY <1>2 DEF PadMessage, UnregisterMsg, DataMsg
<1>4. x = RegSourceMsg(r) BY <1>2, <1>3 DEF RegSourceMsg, RegOf, RegisterMsg
<1>5. pipe \in Seq(PadMessage) BY DEF TypeInv, TypeOK, PairType
<1>6. Has(pipe, RegSourceMsg(r)) BY <1>2, <1>4, <1>5, HasTail
<1> QED BY <1>6 DEF StartOnce

\* A sink leaves the map of a source only to be cancelled by that source.
LEMMA HeldNext ==
    ASSUME TypeInv, StartOnce, OneEntry, WorkInv, [Next]_vars, NEW r \in Regs, NEW s \in Regs, Held(r, s)
    PROVE Held(r, s)'
<1>0. /\ cancelled \in [Conns -> BOOLEAN] /\ work \in [Regs -> WorkStates] /\ work[r] \in GoodWork
      /\ sinks \in [Regs -> SUBSET Regs] /\ ConnOf(s) \in Conns /\ NoReg \notin Regs
      /\ work[r].at # "evict" => work[r].victim = NoReg
  BY ConnOfType, RegAssumption DEF TypeInv, TypeOK, ConnType, SourceType, Shape, WorkInv, InHand, Regs, Conns
<1>1. CASE cancelled[ConnOf(s)] BY <1>0, <1>1, CancelledStays DEF Held
<1>2. CASE ~SourceWork(r)
  <2>1. CASE work'[r] = work[r]
    <3>1. sinks'[r] = sinks[r] BY <1>2, WorkFrame
    <3>2. cancelled[ConnOf(s)] => cancelled'[ConnOf(s)] BY <1>0, CancelledStays
    <3> QED BY <2>1, <3>1, <3>2 DEF Held
  <2>2. CASE pipe # <<>> /\ HandleRegisterSource(Head(pipe)) /\ r = RegOf(Head(pipe))
    <3>1. work[r].at = "off" BY <2>2, StartedOff
    <3>2. work[r].victim # s BY <1>0, <3>1
    <3>3. sinks'[r] = sinks[r] BY <1>2, WorkFrame
    <3>4. cancelled[ConnOf(s)] => cancelled'[ConnOf(s)] BY <1>0, CancelledStays
    <3> QED BY <3>2, <3>3, <3>4 DEF Held
  <2> QED BY <1>2, <2>1, <2>2, WorkFrame
\* From here on s is in the map of r or its victim.
<1>3. ASSUME sinks' = sinks, work[r].at # "evict" PROVE Held(r, s)' \/ cancelled[ConnOf(s)]
  BY <1>0, <1>3 DEF Held
<1>4. CASE srcChan[r] # <<>> /\ ConnectSink(r, Head(srcChan[r]))
  <2>1. work' = work /\ \E F : sinks' = sinks \/ sinks' = [sinks EXCEPT ![r] = @ \cup F]
    BY <1>4 DEF ConnectSink
  <2>2. sinks[r] \subseteq sinks'[r] BY <1>0, <2>1
  <2> QED BY <1>1, <2>1, <2>2 DEF Held
<1>5. CASE srcChan[r] # <<>> /\ HandleRtmpMessage(r, Head(srcChan[r]))
  <2>1. sinks' = sinks /\ work[r].at = "select" BY <1>5 DEF HandleRtmpMessage, Receive
  <2> QED BY <1>1, <1>3, <2>1
<1>6. CASE srcChan[r] # <<>> /\ DeleteSink(r, Head(srcChan[r]))
  <2>1. PICK c : c = Head(srcChan[r]).conn OBVIOUS
  <2>2. PICK F : F = {t \in sinks[r] : ConnOf(t) = c /\ keyInSrc[t] = key[c]} OBVIOUS
  <2>3. /\ work[r].at = "select" /\ sinks' = [sinks EXCEPT ![r] = @ \ F]
        /\ \/ F = {} /\ work' = work
           \/ \E t \in F : work' = [work EXCEPT ![r] = [@ EXCEPT !.at = "evict", !.victim = t]]
    BY <1>6, <2>1, <2>2 DEF DeleteSink, Receive
  <2>4. sinks'[r] = sinks[r] \ F BY <1>0, <2>3
  <2>5. s \in sinks[r] \/ cancelled[ConnOf(s)] BY <1>0, <2>3 DEF Held
  <2>6. CASE s \in sinks[r] /\ s \notin F BY <2>4, <2>6 DEF Held
  <2>7. CASE s \in sinks[r] /\ s \in F
    <3>1. PICK t \in F : work' = [work EXCEPT ![r] = [@ EXCEPT !.at = "evict", !.victim = t]]
      BY <2>3, <2>7
    <3>2. t = s BY <2>2, <2>7 DEF OneEntry
    <3>3. work'[r] = [work[r] EXCEPT !.at = "evict", !.victim = t] BY <1>0, <3>1
    <3>4. work'[r].victim = t BY <1>0, <3>3 DEF WorkStates
    <3> QED BY <3>2, <3>4 DEF Held
  <2> QED BY <1>1, <2>5, <2>6, <2>7
<1>7. ASSUME NEW t \in work[r].todo, WriteData(r, t) \/ CancelSink(r, t) PROVE Held(r, s)'
  <2>1. sinks' = sinks /\ work[r].at # "evict" BY <1>7 DEF WriteData, CancelSink
  <2> QED BY <1>1, <1>3, <2>1
<1>8. CASE SourceDone(r)
  <2>1. sinks' = sinks /\ work[r].at # "evict" BY <1>8 DEF SourceDone
  <2> QED BY <1>1, <1>3, <2>1
<1>9. CASE Evict(r)
  <2>1. /\ cancelled' = [cancelled EXCEPT ![ConnOf(work[r].victim)] = TRUE]
        /\ sinks' = [sinks EXCEPT ![r] = @ \ {work[r].victim}]
    BY <1>9 DEF Evict, Cancel
  <2>2. CASE work[r].victim = s
    <3>1. cancelled'[ConnOf(s)] BY <1>0, <2>1, <2>2
    <3> QED BY <3>1 DEF Held
  <2>3. CASE work[r].victim # s /\ s \in sinks[r]
    <3>1. s \in sinks'[r] BY <1>0, <2>1, <2>3
    <3> QED BY <3>1 DEF Held
  <2> QED BY <1>1, <2>2, <2>3 DEF Held
<1> QED BY <1>2, <1>4, <1>5, <1>6, <1>7, <1>8, <1>9 DEF SourceWork

\* Whoever sent a message to s holds s, or s is cancelled.
LEMMA HeldStep == StreamBase /\ StreamBase' /\ HeldInv /\ [Next]_vars => HeldInv'
<1> SUFFICES ASSUME StreamBase, StreamBase', HeldInv, [Next]_vars, NEW s \in Regs,
                    NEW i \in 1 .. Len(Sent(s)')
             PROVE Held(Sent(s)[i].src, s)'
  BY DEF HeldInv
<1>0. TypeInv /\ StartOnce /\ OneEntry /\ WorkInv /\ SourceInv BY StreamFacts
<1>1. PICK q \in Seq(ExData) : q = Sent(s) BY <1>0, SentFrame
<1>2. \A j \in 1 .. Len(q) : q[j].src \in Regs
  <2>1. \A j \in 1 .. Len(q) : q[j] \in ExData BY ElementOfSeq
  <2> QED BY <2>1 DEF ExData
<1>3. \A j \in 1 .. Len(q) : Held(q[j].src, s)' BY <1>0, <1>1, <1>2, HeldNext DEF HeldInv
<1>4. PICK z : z = Sent(s)' OBVIOUS
<1>5. Len(q) \in Nat BY LenProperties
<1>6. ASSUME NEW r \in Regs, s \in work[r].todo, WriteData(r, s),
             z = Append(q, [src |-> r, n |-> work[r].n, cached |-> FALSE])
      PROVE Held(z[i].src, s)'
  <2>1. work[r].at = "write" /\ sinks' = sinks BY <1>6 DEF WriteData
  <2>2. s \in sinks'[r] BY <1>0, <1>6, <2>1 DEF WorkInv, InHand
  <2>3. PICK x : x = [src |-> r, n |-> work[r].n, cached |-> FALSE] OBVIOUS
  <2>4. x \in ExData
    <3>1. work[r] \in GoodWork BY <1>0 DEF TypeInv, Shape
    <3>2. work[r].n \in 1 .. MaxPuts BY <2>1, <3>1, BoundAssumption DEF GoodWork, WorkStates
    <3> QED BY <2>3, <3>2 DEF ExData
  <2>5. Len(z) = Len(q) + 1 /\ z[Len(q) + 1] = x /\ \A j \in 1 .. Len(q) : z[j] = q[j]
    BY <1>6, <2>3, <2>4, AppendProperties
  <2>6. i \in 1 .. Len(q) \/ i = Len(q) + 1 BY <1>4, <1>5, <2>5
  <2>7. CASE i \in 1 .. Len(q) BY <1>3, <2>5, <2>7
  <2>8. CASE i = Len(q) + 1
    <3>1. z[i].src = r BY <2>3, <2>5, <2>8
    <3> QED BY <2>2, <3>1 DEF Held
  <2> QED BY <2>6, <2>7, <2>8
<1>7. ASSUME NEW r \in Regs, sinks' = [sinks EXCEPT ![r] = @ \cup {s}], z = q \o Cached(r)
      PROVE Held(z[i].src, s)'
  <2>1. s \in sinks'[r] BY <1>0, <1>7 DEF TypeInv, TypeOK, SourceType
  <2>2. PICK d \in Seq(ExData) : d = Cached(r) BY <1>0, CachedPlayable
  <2>3. \A j \in 1 .. Len(d) : d[j].src = r BY <1>0, <2>2, CachedPlayable DEF UpTo
  <2>4. /\ Len(z) = Len(q) + Len(d) /\ Len(d) \in Nat
        /\ \A j \in 1 .. Len(q) + Len(d) : z[j] = IF j <= Len(q) THEN q[j] ELSE d[j - Len(q)]
    BY <1>7, <2>2, ConcatProperties, LenProperties
  <2>5. i \in 1 .. Len(q) \/ i - Len(q) \in 1 .. Len(d) BY <1>4, <1>5, <2>4
  <2>6. CASE i \in 1 .. Len(q)
    <3>1. z[i] = q[i] BY <1>5, <2>4, <2>6
    <3> QED BY <1>3, <2>6, <3>1
  <2>7. CASE i - Len(q) \in 1 .. Len(d)
    <3>1. z[i] = d[i - Len(q)] BY <1>4, <1>5, <2>4, <2>7
    <3>2. z[i].src = r BY <2>3, <2>7, <3>1
    <3> QED BY <2>1, <3>2 DEF Held
  <2> QED BY <2>5, <2>6, <2>7
<1>8. CASE z = q BY <1>3, <1>4, <1>8
<1>9. Held(z[i].src, s)' BY <1>0, <1>1, <1>4, <1>6, <1>7, <1>8, SentFrame
<1> QED BY <1>4, <1>9

\* A sink that is held is as far as its source.
LEMMA HeldKeepsUp == StreamBase /\ StreamInv /\ HeldInv => KeepsUpOrCancelled
<1> SUFFICES ASSUME StreamBase, StreamInv, HeldInv, NEW s \in Regs, Sent(s) # <<>>,
                    ~Sent(s)[Len(Sent(s))].cached,
                    ~cancelled[ConnOf(s)], work[Sent(s)[Len(Sent(s))].src].victim # s
             PROVE LET m == Sent(s)[Len(Sent(s))] IN
                   /\ s \in sinks[m.src]
                   /\ m.n = done[m.src] - (IF work[m.src].at \in {"write", "evict"}
                                              /\ s \in work[m.src].todo THEN 1 ELSE 0)
  BY DEF KeepsUpOrCancelled
<1>0. TypeInv /\ FeedSpec /\ NoReg \notin Regs
  BY FeedPlace, RegAssumption DEF StreamBase, BaseInv, Regs, Conns
<1>1. PICK q \in Seq(ExData) : q = Sent(s)
  <2>1. delivered[s] \in Seq(ExData) /\ msgChan[s] \in Seq(ExData) BY <1>0 DEF TypeInv, TypeOK, SinkType
  <2> QED BY <2>1, SentSeq DEF Sent
<1>2. Len(q) \in 1 .. Len(q)
  <2>1. Len(q) \in Nat /\ Len(q) # 0 BY <1>1, EmptySeq, LenProperties
  <2> QED BY <2>1
<1>3. PICK m \in ExData : m = q[Len(q)] BY <1>2, ElementOfSeq
<1>4. PICK r \in Regs : r = m.src BY DEF ExData
<1>5. s \in sinks[r] BY <1>1, <1>2, <1>3, <1>4 DEF HeldInv, Held
<1>6. Feed(s) = r /\ Feed(s) # NoReg BY <1>0, <1>5 DEF FeedSpec
<1>7. UpTo(q, r, Position(s), log) BY <1>1, <1>6 DEF StreamInv, SinkGood
<1>8. m.n = Position(s) BY <1>1, <1>3, <1>7 DEF UpTo
<1>9. Position(s) = done[r] - (IF Pending(r, s) THEN 1 ELSE 0) BY <1>6 DEF Position
<1>10. Pending(r, s) <=> work[r].at \in {"write", "evict"} /\ s \in work[r].todo
  BY <1>1, <1>3, <1>4 DEF Pending
<1> QED BY <1>1, <1>3, <1>4, <1>5, <1>8, <1>9, <1>10

\* No player stalls silently: while its connection is not cancelled, and its
\* source is not about to cancel it, a sink that has begun to get live
\* messages has all its source has handled.  A full msgChan or deleteSink
\* takes a sink out of the map only together with its Cancel.
THEOREM PlayersKeepUp == Spec => []KeepsUpOrCancelled
<1>1. Init => StreamBase /\ StreamInv /\ HeldInv
  <2>1. Init => HeldInv BY DEF Init, HeldInv, Sent
  <2> QED BY <2>1, StreamBaseInductive, StreamInit
<1>2. StreamBase /\ [Next]_vars => StreamBase' BY StreamBaseInductive
<1>3. StreamBase /\ StreamBase' /\ StreamInv /\ [Next]_vars => StreamInv' BY StreamStep
<1>4. StreamBase /\ StreamBase' /\ HeldInv /\ [Next]_vars => HeldInv' BY HeldStep
<1>5. StreamBase /\ StreamInv /\ HeldInv => KeepsUpOrCancelled BY HeldKeepsUp
<1> QED BY <1>1, <1>2, <1>3, <1>4, <1>5, PTL DEF Spec

(***************************************************************************)
(* Commands.                                                               *)
(***************************************************************************)
\* Connection c gives a stream command, whether it fails or not.
Command(c) ==
    /\ pc[c] = "loop"
    /\ \E k \in AnyKey : key' = [key EXCEPT ![c] = k]
    /\ cmds' = [cmds EXCEPT ![c] = @ + 1]
    /\ \/ kind' = kind /\ pc' = [pc EXCEPT ![c] = "stop"]
       \/ /\ \E what \in {"source", "sink"} : kind' = [kind EXCEPT ![<<c, cmds[c] + 1>>] = what]
          /\ pc' = [pc EXCEPT ![c] = "register"]
    /\ UNCHANGED <<role, cancelled, pipe, receivers, waiting, pair, srcChan, sinks, work>>
    /\ UNCHANGED <<delivered, msgChan>>

\* Only a command changes a key, or what a registration is.
LEMMA CommandNext ==
    ASSUME [Next]_vars
    PROVE UNCHANGED <<key, cmds, kind>> \/ \E c \in Conns : Command(c)
<1>1. ASSUME NEW c \in Conns, Client(c) PROVE UNCHANGED <<key, cmds, kind>> \/ Command(c)
  <2>1. ASSUME NEW k \in AnyKey, NEW what \in {"source", "sink"}, StreamCommand(c, k, what)
        PROVE Command(c)
    BY <2>1 DEF StreamCommand, Command
  <2>2. ASSUME NEW k \in AnyKey, CommandFails(c, k) PROVE Command(c)
    BY <2>2 DEF CommandFails, Command
  <2>3. ASSUME (\E kd \in Kinds : Put(c, kd)) \/ PutRefused(c) \/ PutWithoutSource(c) \/ Disconnect(c)
        PROVE UNCHANGED <<key, cmds, kind>>
    BY <2>3 DEF Put, PutRefused, PutWithoutSource, Disconnect
  <2> QED BY <1>1, <2>1, <2>2, <2>3 DEF Client
<1>2. ASSUME NEW c \in Conns, Handler(c) PROVE UNCHANGED <<key, cmds, kind>>
  BY <1>2 DEF Handler, Register, Unregister, CancelSelf
<1>3. ASSUME PairPad PROVE UNCHANGED <<key, cmds, kind>>
  BY <1>3 DEF PairPad, Handle, HandleRegisterSource, HandleUnregisterSource, HandleRegisterSinkWait,
              HandleRegisterSink, HandleUnregisterSink, NotifyWaitSenders, NotifyOne, Forward
<1>4. ASSUME NEW r \in Regs, SourceWork(r) \/ SinkRun(r) PROVE UNCHANGED <<key, cmds, kind>>
  BY <1>4 DEF SourceWork, ConnectSink, HandleRtmpMessage, DeleteSink, WriteData, CancelSink,
              Evict, SourceDone, SinkRun, SinkDeliver, SinkDone
<1>5. CASE UNCHANGED vars BY <1>5 DEF vars
<1> QED BY <1>1, <1>2, <1>3, <1>4, <1>5 DEF Next

\* Only a command leads to a registration.
LEMMA RegisterNext ==
    ASSUME TypeInv, [Next]_vars, NEW c \in Conns, pc'[c] = "register"
    PROVE \/ Command(c)
          \/ /\ pc[c] = "register" /\ cmds'[c] = cmds[c]
             /\ \A n \in 1 .. MaxCmds : kind'[<<c, n>>] = kind[<<c, n>>]
<1>0. /\ pc \in [Conns -> {"loop", "register", "await", "stop", "cancel", "done"}]
      /\ cmds \in [Conns -> 0 .. MaxCmds] /\ kind \in [Regs -> {"none", "source", "sink"}]
  BY DEF TypeInv, TypeOK, ConnType
<1>1. ASSUME NEW d \in Conns, Command(d), d # c
      PROVE /\ pc'[c] = pc[c] /\ cmds'[c] = cmds[c]
            /\ \A n \in 1 .. MaxCmds : kind'[<<c, n>>] = kind[<<c, n>>]
  <2>1. pc'[c] = pc[c] /\ cmds'[c] = cmds[c] BY <1>0, <1>1 DEF Command
  <2>2. ASSUME NEW n \in 1 .. MaxCmds PROVE kind'[<<c, n>>] = kind[<<c, n>>]
    <3>1. <<c, n>> \in Regs /\ <<c, n>> # <<d, cmds[d] + 1>> BY <1>1 DEF Regs
    <3>2. kind' = kind \/ \E what : kind' = [kind EXCEPT ![<<d, cmds[d] + 1>>] = what]
      BY <1>1 DEF Command
    <3> QED BY <1>0, <3>1, <3>2
  <2> QED BY <2>1, <2>2
<1>2. CASE UNCHANGED <<key, cmds, kind>>
  <2>1. pc[c] = "register"
    <3>1. CASE pc' = pc BY <3>1
    <3>2. CASE \E d : \E a : a # "register" /\ pc' = [pc EXCEPT ![d] = a] BY <1>0, <3>2
    <3>3. ASSUME NEW d \in Conns, Client(d) \/ Handler(d)
          PROVE \/ pc' = pc \/ Command(d) \/ \E a : a # "register" /\ pc' = [pc EXCEPT ![d] = a]
      <4>1. ASSUME NEW k \in AnyKey, NEW what \in {"source", "sink"}, StreamCommand(d, k, what)
            PROVE Command(d)
        BY <4>1 DEF StreamCommand, Command
      <4>2. ASSUME ~\E k \in AnyKey, what \in {"source", "sink"} : StreamCommand(d, k, what)
            PROVE pc' = pc \/ \E a : a # "register" /\ pc' = [pc EXCEPT ![d] = a]
        BY <3>3, <4>2 DEF Client, Handler, CommandFails, Put, PutRefused, PutWithoutSource,
                          Disconnect, Register, Unregister, CancelSelf
      <4> QED BY <4>1, <4>2
    <3>4. ASSUME NEW d \in Conns, Command(d) PROVE FALSE
      <4>1. cmds'[d] = cmds[d] + 1 /\ cmds[d] \in Nat BY <1>0, <3>4 DEF Command
      <4> QED BY <1>2, <4>1
    <3>5. ASSUME PairPad PROVE pc' = pc \/ \E d : \E a : a # "register" /\ pc' = [pc EXCEPT ![d] = a]
      BY <3>5 DEF PairPad, Handle, HandleRegisterSource, HandleUnregisterSource,
                  HandleRegisterSinkWait, HandleRegisterSink, HandleUnregisterSink,
                  NotifyWaitSenders, NotifyOne, Forward, SourceResult, SinkResult
    <3>6. ASSUME NEW r \in Regs, SourceWork(r) \/ SinkRun(r) PROVE pc' = pc
      BY <3>6 DEF SourceWork, ConnectSink, HandleRtmpMessage, DeleteSink, WriteData, CancelSink,
                  Evict, SourceDone, SinkRun, SinkDeliver, SinkDone
    <3>7. CASE UNCHANGED vars BY <3>7 DEF vars
    <3> QED BY <3>1, <3>2, <3>3, <3>4, <3>5, <3>6, <3>7 DEF Next
  <2> QED BY <1>2, <2>1
<1> QED BY <1>1, <1>2, CommandNext

(***************************************************************************)
(* What a registration is.                                                 *)
(***************************************************************************)
\* Where a sink can be, the hands of a source that cancels it included.
InPlace(s) ==
    \/ Has(pipe, RegSinkMsg(s)) \/ RegSinkMsg(s) \in pair.todo
    \/ \E k \in AnyKey : Waits(s, k)
    \/ \E r \in Regs : Has(srcChan[r], RegSinkMsg(s)) \/ s \in sinks[r] \/ work[r].victim = s

NewKinds == \A r \in Regs : r[2] > cmds[r[1]] => kind[r] = "none"
AskedFor == \A c \in Conns : pc[c] = "register" => kind[<<c, cmds[c]>>] # "none"
PlacedSinks == \A s \in Regs : InPlace(s) => kind[s] = "sink"
SentSources == \A r \in Regs : Has(pipe, RegSourceMsg(r)) => kind[r] = "source"
KindInv == NewKinds /\ AskedFor /\ PlacedSinks /\ SentSources

\* What a registration is never changes.
LEMMA KindStays ==
    ASSUME TypeInv, NewKinds, [Next]_vars, NEW r \in Regs, kind[r] # "none"
    PROVE kind'[r] = kind[r]
<1>0. kind \in [Regs -> {"none", "source", "sink"}] /\ cmds \in [Conns -> 0 .. MaxCmds]
      /\ r = <<r[1], r[2]>> /\ r[1] \in Conns /\ r[2] \in Nat
  BY DEF TypeInv, TypeOK, ConnType, Regs
<1>1. ASSUME NEW c \in Conns, Command(c) PROVE kind'[r] = kind[r]
  <2>1. CASE r = <<c, cmds[c] + 1>>
    <3>1. cmds[c] \in Nat /\ r[2] > cmds[r[1]] BY <1>0, <2>1
    <3> QED BY <3>1 DEF NewKinds
  <2>2. CASE r # <<c, cmds[c] + 1>> BY <1>0, <1>1, <2>2 DEF Command
  <2> QED BY <2>1, <2>2
<1> QED BY <1>1, CommandNext

\* A connection that has given a command keeps its key unless it gives another.
LEMMA KeyStays ==
    ASSUME TypeInv, NewKinds, [Next]_vars, ~SecondCommand', NEW r \in Regs, kind[r] # "none"
    PROVE /\ key'[ConnOf(r)] = key[ConnOf(r)] /\ ~Command(ConnOf(r))
          /\ r[2] = 1 /\ r = <<ConnOf(r), 1>>
<1>0. /\ cmds \in [Conns -> 0 .. MaxCmds] /\ key \in [Conns -> AnyKey]
      /\ r = <<ConnOf(r), r[2]>> /\ ConnOf(r) \in Conns /\ r[2] \in Nat /\ r[2] >= 1
  BY DEF TypeInv, TypeOK, ConnType, Regs, ConnOf
<1>1. PICK c \in Conns : c = ConnOf(r) BY <1>0
<1>2. cmds[c] \in Nat /\ r[2] <= cmds[c] BY <1>0, <1>1 DEF NewKinds, ConnOf
<1>3. ~Command(c)
  <2> SUFFICES ASSUME Command(c) PROVE FALSE OBVIOUS
  <2>1. cmds'[c] = cmds[c] + 1 BY <1>0 DEF Command
  <2> QED BY <1>0, <1>2, <2>1 DEF SecondCommand
<1>4. cmds'[c] = cmds[c] /\ key'[c] = key[c]
  <2>1. ASSUME NEW d \in Conns, Command(d), d # c PROVE cmds'[c] = cmds[c] /\ key'[c] = key[c]
    BY <1>0, <2>1 DEF Command
  <2> QED BY <1>3, <2>1, CommandNext
<1>5. cmds[c] <= 1 BY <1>2, <1>4 DEF SecondCommand
<1> QED BY <1>0, <1>1, <1>2, <1>3, <1>4, <1>5

\* A sink that is in a place was in one, or its handler registers it.
LEMMA InPlaceNext ==
    ASSUME TypeInv, WorkInv, [Next]_vars, NEW s \in Regs, InPlace(s)'
    PROVE InPlace(s) \/ Has(pipe', RegSinkMsg(s))
<1>1. ASSUME NEW r \in Regs, s \in sinks'[r] \/ work'[r].victim = s PROVE InPlace(s)
  <2>0. /\ work \in [Regs -> WorkStates] /\ sinks \in [Regs -> SUBSET Regs] /\ NoReg \notin Regs
        /\ srcChan[r] \in Seq(PadMessage)
        /\ work[r].at = "write" => work[r].todo \subseteq sinks[r]
    BY RegAssumption DEF TypeInv, TypeOK, SourceType, Regs, Conns, WorkInv, InHand
  <2>1. CASE ~SourceWork(r)
    <3>1. sinks'[r] = sinks[r] /\ (work'[r] = work[r] \/ work'[r] = [Idle EXCEPT !.at = "select"])
      BY <2>1, WorkFrame
    <3> QED BY <1>1, <2>0, <3>1 DEF Idle, InPlace
  <2>2. CASE srcChan[r] # <<>> /\ ConnectSink(r, Head(srcChan[r]))
    <3>1. PICK m \in PadMessage : m = Head(srcChan[r]) BY <2>0, <2>2, HeadTailProperties
    <3>2. m.cmd = "register_sink" BY <2>2, <3>1 DEF ConnectSink, Receive
    <3>3. /\ work' = work
          /\ sinks' = sinks \/ sinks' = [sinks EXCEPT ![r] = @ \cup {RegOf(m)}]
      BY <2>2, <3>1 DEF ConnectSink
    <3>4. sinks'[r] \subseteq sinks[r] \cup {RegOf(m)} BY <2>0, <3>3
    <3>5. Has(srcChan[r], RegSinkMsg(RegOf(m))) BY <2>0, <2>2, <3>1, <3>2, SinkMsg, HasTail
    <3> QED BY <1>1, <3>3, <3>4, <3>5 DEF InPlace
  <2>3. ASSUME sinks'[r] \subseteq sinks[r], work'[r].victim \in sinks[r] \cup {NoReg, work[r].victim}
        PROVE InPlace(s)
    BY <1>1, <2>0, <2>3 DEF InPlace
  <2>4. CASE srcChan[r] # <<>> /\ HandleRtmpMessage(r, Head(srcChan[r]))
    <3>1. sinks' = sinks /\ (work' = work \/ \E n, t : work' = [work EXCEPT ![r] =
             [at |-> "write", n |-> n, todo |-> t, victim |-> NoReg]])
      BY <2>4 DEF HandleRtmpMessage
    <3>2. work'[r].victim \in {NoReg, work[r].victim} BY <2>0, <3>1
    <3> QED BY <2>3, <3>1, <3>2
  <2>5. CASE srcChan[r] # <<>> /\ DeleteSink(r, Head(srcChan[r]))
    <3>1. /\ \E F : sinks' = [sinks EXCEPT ![r] = @ \ F]
          /\ \/ work' = work
             \/ \E t \in sinks[r] : work' = [work EXCEPT ![r] = [@ EXCEPT !.at = "evict", !.victim = t]]
      BY <2>5 DEF DeleteSink
    <3>2. sinks'[r] \subseteq sinks[r] BY <2>0, <3>1
    <3>3. work'[r] = work[r] \/ \E t \in sinks[r] : work'[r] = [work[r] EXCEPT !.at = "evict", !.victim = t]
      BY <2>0, <3>1
    <3>4. work'[r].victim \in sinks[r] \cup {work[r].victim} BY <2>0, <3>3 DEF WorkStates
    <3> QED BY <2>3, <3>2, <3>4
  <2>6. ASSUME NEW t, work'[r] = Resume(r, t) PROVE work'[r].victim = NoReg
    BY <2>0, <2>6 DEF Resume, Idle, WorkStates
  <2>7. ASSUME NEW t \in work[r].todo, WriteData(r, t) PROVE InPlace(s)
    <3>1. sinks' = sinks /\ t \in sinks[r] BY <2>0, <2>7 DEF WriteData
    <3>2. work'[r] = Resume(r, work[r].todo \ {t}) \/ work'[r] = OnFull(r, t)
      BY <2>0, <2>7 DEF WriteData
    <3>3. work'[r] = OnFull(r, t) => work'[r].victim = t BY <2>0 DEF OnFull, WorkStates
    <3> QED BY <2>3, <2>6, <3>1, <3>2, <3>3
  <2>8. CASE SourceDone(r) \/ \E t \in work[r].todo : CancelSink(r, t)
    <3>1. sinks' = sinks /\ \E a, t : work' = [work EXCEPT ![r] = [work[r] EXCEPT !.at = a, !.todo = t]]
      BY <2>8 DEF SourceDone, CancelSink
    <3>2. PICK a, t : work' = [work EXCEPT ![r] = [work[r] EXCEPT !.at = a, !.todo = t]] BY <3>1
    <3>3. work'[r] = [work[r] EXCEPT !.at = a, !.todo = t] BY <2>0, <3>2
    <3>4. work'[r].victim = work[r].victim BY <2>0, <3>3 DEF WorkStates
    <3> QED BY <2>3, <3>1, <3>4
  <2>9. CASE Evict(r)
    <3>1. sinks'[r] \subseteq sinks[r] /\ work'[r] = Resume(r, work[r].todo)
      BY <2>0, <2>9 DEF Evict
    <3> QED BY <2>3, <2>6, <3>1
  <2> QED BY <2>1, <2>2, <2>4, <2>5, <2>7, <2>8, <2>9 DEF SourceWork
<1>2. ASSUME NEW r \in Regs, Has(srcChan'[r], RegSinkMsg(s)) PROVE InPlace(s)
  BY <1>2, UntouchedChan DEF InPlace
<1>3. ASSUME NEW k \in AnyKey, Waits(s, k)' PROVE InPlace(s) BY <1>3, UntouchedWaits DEF InPlace
<1>4. ASSUME RegSinkMsg(s) \in pair'.todo PROVE InPlace(s) BY <1>4, UntouchedHand DEF InPlace
<1> QED BY <1>1, <1>2, <1>3, <1>4 DEF InPlace

KindName(cmd) == IF cmd = "register_source" THEN "source" ELSE "sink"

\* A handler registers what it was asked for.
LEMMA PipeKinds ==
    ASSUME TypeInv, AskedFor, [Next]_vars, NEW m \in RegisterMsg, Has(pipe', m)
    PROVE Has(pipe, m) \/ kind[RegOf(m)] = KindName(m.cmd)
<1>0. pipe \in Seq(PadMessage) /\ m \in PadMessage BY DEF TypeInv, TypeOK, PairType, PadMessage
<1>1. CASE pipe' = pipe BY <1>1
<1>2. CASE pipe # <<>> /\ pipe' = Tail(pipe) BY <1>0, <1>2, HasTail
<1>3. ASSUME NEW x \in PadMessage, x.cmd \in {"unregister_source", "unregister_sink"},
             pipe' = Append(pipe, x)
      PROVE Has(pipe, m)
  <2>1. x # m BY <1>3 DEF RegisterMsg
  <2> QED BY <1>0, <1>3, <2>1, HasAppend
<1>4. ASSUME NEW c \in Conns, Register(c) PROVE Has(pipe, m) \/ kind[RegOf(m)] = KindName(m.cmd)
  <2>1. pc[c] = "register" BY <1>4 DEF Register
  <2>2. PICK n \in 1 .. MaxCmds : n = cmds[c]
    BY <2>1, BoundAssumption DEF TypeInv, TypeOK, ConnType, Shape, ConnShape
  <2>3. kind[<<c, n>>] \in {"source", "sink"}
    <3>1. <<c, n>> \in Regs BY DEF Regs
    <3> QED BY <2>1, <2>2, <3>1 DEF AskedFor, TypeInv, TypeOK, ConnType
  <2>4. PICK a \in {"register_source", "register_sink"} :
           a = IF kind[<<c, n>>] = "source" THEN "register_source" ELSE "register_sink"
    OBVIOUS
  <2>5. PICK x \in PadMessage : x = [cmd |-> a, conn |-> c, n |-> n] BY DEF PadMessage, RegisterMsg
  <2>6. pipe' = Append(pipe, x) BY <1>4, <2>2, <2>4, <2>5 DEF Register
  <2>7. x = m => kind[RegOf(m)] = KindName(m.cmd)
    <3>1. RegOf(x) = <<c, n>> /\ x.cmd = a BY <2>5 DEF RegOf
    <3> QED BY <2>3, <2>4, <3>1 DEF KindName
  <2> QED BY <1>0, <2>6, <2>7, HasAppend
<1> QED BY <1>1, <1>2, <1>3, <1>4, PipeNext

\* The messages of a registration.
LEMMA RegMsgs ==
    ASSUME NEW r \in Regs
    PROVE /\ RegSinkMsg(r) \in RegisterMsg /\ RegOf(RegSinkMsg(r)) = r /\ RegSinkMsg(r).cmd = "register_sink"
          /\ RegSourceMsg(r) \in RegisterMsg /\ RegOf(RegSourceMsg(r)) = r
          /\ RegSourceMsg(r).cmd = "register_source"
BY DEF RegSinkMsg, RegSourceMsg, RegisterMsg, RegOf, Regs

\* At first nothing is registered.
LEMMA KindInit == Init => KindInv
<1> SUFFICES ASSUME Init PROVE KindInv OBVIOUS
<1>1. NewKinds /\ AskedFor BY DEF Init, NewKinds, AskedFor
<1>2. SentSources BY DEF Init, SentSources, Has
<1>3. ASSUME NEW s \in Regs PROVE ~InPlace(s)
  <2>1. s # NoReg BY RegAssumption DEF Regs, Conns
  <2> QED BY <2>1 DEF Init, InPlace, Has, Waits, Receiving, Idle
<1> QED BY <1>1, <1>2, <1>3 DEF KindInv, PlacedSinks

\* What is in a place is what its handler asked for.
LEMMA KindNext == TypeInv /\ TypeInv' /\ WorkInv /\ KindInv /\ [Next]_vars => KindInv'
<1> SUFFICES ASSUME TypeInv, TypeInv', WorkInv, KindInv, [Next]_vars PROVE KindInv' OBVIOUS
<1>0. /\ cmds \in [Conns -> 0 .. MaxCmds] /\ kind \in [Regs -> {"none", "source", "sink"}]
      /\ cmds' \in [Conns -> 0 .. MaxCmds] /\ pc \in [Conns -> {"loop", "register", "await", "stop", "cancel", "done"}]
      /\ NewKinds /\ AskedFor
  BY DEF TypeInv, TypeOK, ConnType, KindInv
<1>1. ASSUME NEW r \in Regs, r[2] > cmds'[r[1]] PROVE kind'[r] = "none"
  <2>0. r[1] \in Conns /\ r[2] \in Nat /\ r = <<r[1], r[2]>> BY DEF Regs
  <2>1. CASE UNCHANGED <<key, cmds, kind>> BY <1>0, <1>1, <2>1 DEF NewKinds
  <2>2. ASSUME NEW c \in Conns, Command(c) PROVE kind'[r] = "none"
    <3>1. cmds[c] \in Nat /\ cmds[r[1]] \in Nat BY <1>0, <2>0
    <3>2. cmds' = [cmds EXCEPT ![c] = @ + 1] BY <2>2 DEF Command
    <3>3. cmds'[r[1]] = IF r[1] = c THEN cmds[c] + 1 ELSE cmds[r[1]] BY <1>0, <2>0, <3>2
    <3>4. r[2] > cmds[r[1]] BY <1>1, <2>0, <3>1, <3>3
    <3>5. r # <<c, cmds[c] + 1>> BY <1>1, <2>0, <3>1, <3>3
    <3>6. kind[r] = "none" BY <1>0, <3>4 DEF NewKinds
    <3>7. kind' = kind \/ \E what : kind' = [kind EXCEPT ![<<c, cmds[c] + 1>>] = what]
      BY <2>2 DEF Command
    <3> QED BY <1>0, <3>5, <3>6, <3>7
  <2> QED BY <2>1, <2>2, CommandNext
<1>2. ASSUME NEW c \in Conns, pc'[c] = "register" PROVE kind'[<<c, cmds'[c]>>] # "none"
  <2>1. CASE Command(c)
    <3>1. \E what \in {"source", "sink"} : kind' = [kind EXCEPT ![<<c, cmds[c] + 1>>] = what]
      BY <1>0, <1>2, <2>1 DEF Command
    <3>2. cmds'[c] = cmds[c] + 1 /\ cmds[c] \in Nat BY <1>0, <2>1 DEF Command
    <3>3. <<c, cmds[c] + 1>> \in Regs
      <4>1. cmds[c] + 1 \in 1 .. MaxCmds BY <1>0, <3>2, BoundAssumption
      <4> QED BY <4>1 DEF Regs
    <3> QED BY <1>0, <3>1, <3>2, <3>3
  <2>2. CASE /\ pc[c] = "register" /\ cmds'[c] = cmds[c]
             /\ \A n \in 1 .. MaxCmds : kind'[<<c, n>>] = kind[<<c, n>>]
    <3>1. cmds[c] \in 1 .. MaxCmds BY <1>0, <2>2, BoundAssumption DEF TypeInv, Shape, ConnShape
    <3> QED BY <1>0, <2>2, <3>1 DEF AskedFor
  <2> QED BY <1>2, <2>1, <2>2, RegisterNext
<1>3. ASSUME NEW s \in Regs, InPlace(s)' PROVE kind'[s] = "sink"
  <2>1. InPlace(s) \/ kind[s] = "sink"
    <3>1. CASE InPlace(s) BY <3>1
    <3>2. CASE Has(pipe', RegSinkMsg(s))
      <4>1. Has(pipe, RegSinkMsg(s)) \/ kind[RegOf(RegSinkMsg(s))] = KindName(RegSinkMsg(s).cmd)
        BY <1>0, <3>2, PipeKinds, RegMsgs
      <4> QED BY <4>1, RegMsgs DEF KindName, InPlace
    <3> QED BY <1>3, <3>1, <3>2, InPlaceNext
  <2>2. kind[s] = "sink" BY <2>1 DEF KindInv, PlacedSinks
  <2> QED BY <1>0, <2>2, KindStays
<1>4. ASSUME NEW r \in Regs, Has(pipe', RegSourceMsg(r)) PROVE kind'[r] = "source"
  <2>1. Has(pipe, RegSourceMsg(r)) \/ kind[RegOf(RegSourceMsg(r))] = KindName(RegSourceMsg(r).cmd)
    BY <1>0, <1>4, PipeKinds, RegMsgs
  <2>2. kind[r] = "source" BY <2>1, RegMsgs DEF KindName, KindInv, SentSources
  <2> QED BY <1>0, <2>2, KindStays
<1> QED BY <1>1, <1>2, <1>3, <1>4 DEF KindInv, NewKinds, AskedFor, PlacedSinks, SentSources

(***************************************************************************)
(* The goroutines of the connections.                                      *)
(***************************************************************************)
\* Where a handler can go: pairPad answers it, or it goes on by itself.
LEMMA PcNext ==
    ASSUME TypeInv, [Next]_vars, NEW c \in Conns
    PROVE \/ pc'[c] = pc[c] \/ Command(c) \/ Register(c) \/ Unregister(c) \/ CancelSelf(c)
          \/ pc[c] = "loop" /\ pc'[c] = "stop"
          \/ pc[c] = "await" /\ pc'[c] \in {"loop", "stop"}
<1>0. pc \in [Conns -> {"loop", "register", "await", "stop", "cancel", "done"}]
  BY DEF TypeInv, TypeOK, ConnType
<1>1. ASSUME NEW d \in Conns, Client(d)
      PROVE pc'[c] = pc[c] \/ Command(c) \/ (pc[c] = "loop" /\ pc'[c] = "stop")
  <2>1. ASSUME NEW k \in AnyKey, NEW what \in {"source", "sink"},
               StreamCommand(d, k, what) \/ CommandFails(d, k)
        PROVE Command(d)
    BY <2>1 DEF StreamCommand, CommandFails, Command
  <2>2. ASSUME (\E kd \in Kinds : Put(d, kd)) \/ PutRefused(d) \/ PutWithoutSource(d) \/ Disconnect(d)
        PROVE pc' = pc \/ (pc[d] = "loop" /\ pc' = [pc EXCEPT ![d] = "stop"])
    BY <2>2 DEF Put, PutRefused, PutWithoutSource, Disconnect
  <2>3. Command(d) /\ d # c => pc'[c] = pc[c] BY <1>0 DEF Command
  <2> QED BY <1>0, <1>1, <2>1, <2>2, <2>3 DEF Client
<1>2. ASSUME NEW d \in Conns, Handler(d)
      PROVE pc'[c] = pc[c] \/ Register(c) \/ Unregister(c) \/ CancelSelf(c)
  <2>1. CASE d # c BY <1>0, <1>2, <2>1 DEF Handler, Register, Unregister, CancelSelf
  <2>2. CASE d = c BY <1>2, <2>2 DEF Handler
  <2> QED BY <2>1, <2>2
<1>3. ASSUME PairPad PROVE pc'[c] = pc[c] \/ (pc[c] = "await" /\ pc'[c] \in {"loop", "stop"})
  <2>1. pc' = pc \/ \E d : pc[d] = "await" /\ \E a \in {"loop", "stop"} : pc' = [pc EXCEPT ![d] = a]
    BY <1>3 DEF PairPad, Handle, HandleRegisterSource, HandleUnregisterSource, HandleRegisterSinkWait,
                HandleRegisterSink, HandleUnregisterSink, NotifyWaitSenders, NotifyOne, Forward,
                SourceResult, SinkResult
  <2> QED BY <1>0, <2>1
<1>4. ASSUME NEW r \in Regs, SourceWork(r) \/ SinkRun(r) PROVE pc' = pc
  BY <1>4 DEF SourceWork, ConnectSink, HandleRtmpMessage, DeleteSink, WriteData, CancelSink,
              Evict, SourceDone, SinkRun, SinkDeliver, SinkDone
<1>5. CASE UNCHANGED vars BY <1>5 DEF vars
<1> QED BY <1>1, <1>2, <1>3, <1>4, <1>5 DEF Next

\* What pairPad takes on in the name of a source.
LEMMA SourceFacts ==
    ASSUME TypeInv, KindInv, pipe # <<>>, HandleRegisterSource(Head(pipe))
    PROVE \E r \in Regs :
            /\ r = RegOf(Head(pipe)) /\ ConnOf(r) = Head(pipe).conn /\ kind[r] = "source"
            /\ ConnOf(r) \in Conns /\ Has(pipe, RegSourceMsg(r))
<1>1. Take(Head(pipe), "register_source") BY DEF HandleRegisterSource
<1>2. PICK x \in PadMessage : x = Head(pipe) /\ x.cmd = "register_source" BY <1>1, TakeFacts
<1>3. x \in RegisterMsg BY <1>2 DEF PadMessage, UnregisterMsg, DataMsg
<1>4. PICK r \in Regs : r = RegOf(x) BY <1>3 DEF RegisterMsg, RegOf, Regs
<1>5. ConnOf(r) = x.conn /\ x = RegSourceMsg(r)
  BY <1>2, <1>3, <1>4 DEF RegOf, ConnOf, RegSourceMsg, RegisterMsg
<1>6. pipe \in Seq(PadMessage) BY DEF TypeInv, TypeOK, PairType
<1>7. Has(pipe, RegSourceMsg(r)) BY <1>2, <1>5, <1>6, HasTail
<1> QED BY <1>2, <1>4, <1>5, <1>7, ConnOfType DEF KindInv, SentSources

\* A handler takes a role only from the answer of pairPad.
LEMMA RoleNext ==
    ASSUME TypeInv, [Next]_vars, NEW c \in Conns
    PROVE \/ role'[c] = role[c]
          \/ pc[c] = "await" /\ role'[c] = "sink"
          \/ /\ pc[c] = "await" /\ pipe # <<>> /\ HandleRegisterSource(Head(pipe))
             /\ Head(pipe).conn = c
<1>0. role \in [Conns -> {"none", "source", "sink"}] BY DEF TypeInv, TypeOK, ConnType
<1>1. ASSUME NEW d \in Conns, Client(d) \/ Handler(d) PROVE role' = role
  BY <1>1 DEF Client, Handler, StreamCommand, CommandFails, Put, PutRefused, PutWithoutSource,
              Disconnect, Register, Unregister, CancelSelf
<1>2. ASSUME PairPad
      PROVE \/ role' = role
            \/ \E d : pc[d] = "await" /\ role' = [role EXCEPT ![d] = "sink"]
            \/ pipe # <<>> /\ HandleRegisterSource(Head(pipe))
  BY <1>2 DEF PairPad, Handle, HandleUnregisterSource, HandleRegisterSinkWait,
              HandleRegisterSink, HandleUnregisterSink, NotifyWaitSenders, NotifyOne, Forward, SinkResult
<1>3. ASSUME pipe # <<>>, HandleRegisterSource(Head(pipe)), Head(pipe).conn # c PROVE role'[c] = role[c]
  BY <1>0, <1>3 DEF HandleRegisterSource, SourceResult
<1>4. ASSUME pipe # <<>>, HandleRegisterSource(Head(pipe)), Head(pipe).conn = c PROVE pc[c] = "await"
  BY <1>4 DEF HandleRegisterSource
<1>5. ASSUME NEW r \in Regs, SourceWork(r) \/ SinkRun(r) PROVE role' = role
  BY <1>5 DEF SourceWork, ConnectSink, HandleRtmpMessage, DeleteSink, WriteData, CancelSink,
              Evict, SourceDone, SinkRun, SinkDeliver, SinkDone
<1>6. CASE UNCHANGED vars BY <1>6 DEF vars
<1>7. CASE PairPad BY <1>0, <1>2, <1>3, <1>4, <1>7
<1> QED BY <1>1, <1>5, <1>6, <1>7 DEF Next

\* A context is cancelled by its own handler, or by a source that has a sink of
\* the connection.
LEMMA CancelNext ==
    ASSUME TypeInv, WorkInv, [Next]_vars, NEW c \in Conns, cancelled'[c]
    PROVE \/ cancelled[c] \/ CancelSelf(c)
          \/ \E s \in Regs : ConnOf(s) = c /\ InPlace(s)
<1>0. cancelled \in [Conns -> BOOLEAN] BY DEF TypeInv, TypeOK, ConnType
<1>1. ASSUME NEW d \in Conns, Client(d) PROVE cancelled' = cancelled
  BY <1>1 DEF Client, StreamCommand, CommandFails, Put, PutRefused, PutWithoutSource, Disconnect
<1>2. ASSUME NEW d \in Conns, Handler(d) PROVE cancelled[c] \/ CancelSelf(c)
  <2>1. cancelled' = cancelled \/ CancelSelf(d) BY <1>2 DEF Handler, Register, Unregister
  <2>2. CancelSelf(d) /\ d # c => cancelled'[c] = cancelled[c] BY <1>0 DEF CancelSelf
  <2> QED BY <2>1, <2>2
<1>3. ASSUME PairPad \/ \E t \in Regs : SinkRun(t) PROVE cancelled' = cancelled
  BY <1>3 DEF PairPad, Handle, HandleRegisterSource, HandleUnregisterSource, HandleRegisterSinkWait,
              HandleRegisterSink, HandleUnregisterSink, NotifyWaitSenders, NotifyOne, Forward,
              SinkRun, SinkDeliver, SinkDone
<1>4. ASSUME NEW r \in Regs, SourceWork(r) PROVE cancelled[c] \/ \E s \in Regs : ConnOf(s) = c /\ InPlace(s)
  <2>0. /\ work[r] \in GoodWork /\ sinks[r] \subseteq Regs
        /\ work[r].at = "cancelSinks" => work[r].todo \subseteq sinks[r]
    BY DEF TypeInv, TypeOK, SourceType, Shape, WorkInv, InHand
  <2>1. CASE Evict(r)
    <3>1. PICK s \in Regs : s = work[r].victim BY <2>0, <2>1 DEF Evict, GoodWork
    <3>2. cancelled' = [cancelled EXCEPT ![ConnOf(s)] = TRUE] BY <2>1, <3>1 DEF Evict, Cancel
    <3>3. cancelled[c] \/ ConnOf(s) = c BY <1>0, <3>2
    <3> QED BY <3>1, <3>3 DEF InPlace
  <2>2. ASSUME NEW s \in work[r].todo, CancelSink(r, s)
        PROVE cancelled[c] \/ \E t \in Regs : ConnOf(t) = c /\ InPlace(t)
    <3>1. s \in sinks[r] /\ s \in Regs BY <2>0, <2>2 DEF CancelSink
    <3>2. cancelled' = [cancelled EXCEPT ![ConnOf(s)] = TRUE] BY <2>2 DEF CancelSink, Cancel
    <3>3. cancelled[c] \/ ConnOf(s) = c BY <1>0, <3>2
    <3> QED BY <3>1, <3>3 DEF InPlace
  <2>3. cancelled' = cancelled \/ Evict(r) \/ \E s \in work[r].todo : CancelSink(r, s)
    BY <1>4 DEF SourceWork, ConnectSink, HandleRtmpMessage, DeleteSink, WriteData, SourceDone
  <2> QED BY <2>1, <2>2, <2>3
<1>5. CASE UNCHANGED vars BY <1>5 DEF vars
<1> QED BY <1>1, <1>2, <1>3, <1>4, <1>5 DEF Next

(***************************************************************************)
(* While no connection has given a second stream command.                  *)
(***************************************************************************)
UnregMsg(c) == [cmd |-> "unregister_source", conn |-> c, n |-> 0]
IsA(c, what) == \E r \in Regs : ConnOf(r) = c /\ kind[r] = what

\* The source of key k: its handler has the role and the key, and has not
\* begun to end without telling pairPad.
Registered(k) ==
    receivers[k] # NoReg =>
        LET r == receivers[k]
            c == ConnOf(r) IN
        /\ kind[r] = "source" /\ key[c] = k /\ pc[c] \notin {"register", "await"}
        /\ c \in RtmpConns => role[c] = "source"
        /\ pc[c] \in {"cancel", "done"} => Has(pipe, UnregMsg(c))
RoleKind == \A c \in Conns : role[c] = "source" => IsA(c, "source")
CancelKind == \A c \in Conns : cancelled[c] => pc[c] = "done" \/ IsA(c, "sink")
SingleInv == ~SecondCommand => (\A k \in AnyKey : Registered(k)) /\ RoleKind /\ CancelKind

\* A connection does not take a command back.
LEMMA SingleBack == TypeInv /\ [Next]_vars /\ ~SecondCommand' => ~SecondCommand
<1> SUFFICES ASSUME TypeInv, [Next]_vars, ~SecondCommand', NEW c \in Conns PROVE ~(cmds[c] > 1)
  BY DEF SecondCommand
<1>0. cmds \in [Conns -> 0 .. MaxCmds] BY DEF TypeInv, TypeOK, ConnType
<1>1. cmds[c] \in Nat /\ ~(cmds'[c] > 1) BY <1>0 DEF SecondCommand
<1>2. ASSUME NEW d \in Conns, Command(d) PROVE cmds'[c] = cmds[c] \/ cmds'[c] = cmds[c] + 1
  BY <1>0, <1>2 DEF Command
<1> QED BY <1>1, <1>2, CommandNext

\* A connection that has given one command has one registration.
LEMMA OneReg ==
    ASSUME TypeInv, NewKinds, ~SecondCommand, NEW r \in Regs, NEW s \in Regs,
           ConnOf(r) = ConnOf(s), kind[r] # "none", kind[s] # "none"
    PROVE r = s /\ r = <<ConnOf(r), 1>>
<1>0. /\ cmds \in [Conns -> 0 .. MaxCmds] /\ ConnOf(r) \in Conns
      /\ r = <<ConnOf(r), r[2]>> /\ s = <<ConnOf(s), s[2]>>
      /\ r[2] \in Nat /\ s[2] \in Nat /\ r[2] >= 1 /\ s[2] >= 1
  BY DEF TypeInv, TypeOK, ConnType, Regs, ConnOf
<1>1. cmds[ConnOf(r)] \in Nat /\ cmds[ConnOf(r)] <= 1 BY <1>0 DEF SecondCommand
<1>2. r[2] <= cmds[ConnOf(r)] /\ s[2] <= cmds[ConnOf(r)] BY <1>0, <1>1 DEF NewKinds, ConnOf
<1>3. r[2] = 1 /\ s[2] = 1 BY <1>0, <1>1, <1>2
<1> QED BY <1>0, <1>3

\* What a connection is never changes.
LEMMA IsAStays ==
    ASSUME TypeInv, NewKinds, [Next]_vars, NEW c, NEW what \in {"source", "sink"}, IsA(c, what)
    PROVE IsA(c, what)'
BY KindStays DEF IsA

\* The message that a source ends is there until pairPad takes it.
LEMMA UnregStays ==
    ASSUME TypeInv, [Next]_vars, NEW c \in Conns, Has(pipe, UnregMsg(c))
    PROVE Has(pipe', UnregMsg(c)) \/ (pipe # <<>> /\ HandleUnregisterSource(Head(pipe)) /\ Head(pipe) = UnregMsg(c))
<1>0. pipe \in Seq(PadMessage) /\ UnregMsg(c) \in PadMessage
  BY UnregisterMsgType DEF TypeInv, TypeOK, PairType, UnregMsg
<1>1. ASSUME NEW x \in PadMessage, pipe' = Append(pipe, x) PROVE Has(pipe', UnregMsg(c))
  BY <1>0, <1>1, HasAppend
<1>2. ASSUME pipe # <<>>, pipe' = Tail(pipe), Head(pipe) # UnregMsg(c) PROVE Has(pipe', UnregMsg(c))
  BY <1>0, <1>2, HasTail
<1>3. ASSUME pipe # <<>>, pipe' = Tail(pipe), Head(pipe) = UnregMsg(c)
      PROVE HandleUnregisterSource(Head(pipe))
  <2>0. Head(pipe).cmd = "unregister_source" BY <1>3 DEF UnregMsg
  <2>1. Tail(pipe) # pipe
    <3>1. Len(Tail(pipe)) = Len(pipe) - 1 /\ Len(pipe) \in Nat BY <1>0, <1>3, HeadTailProperties, LenProperties
    <3> QED BY <3>1
  <2>2. ASSUME NEW d \in Conns, Client(d) \/ Handler(d) PROVE pipe' = pipe \/ \E x \in PadMessage : pipe' = Append(pipe, x)
    <3>1. ASSUME Register(d) PROVE \E x \in PadMessage : pipe' = Append(pipe, x)
      <4>1. PICK n \in 1 .. MaxCmds : n = cmds[d]
        BY <3>1, BoundAssumption DEF Register, TypeInv, TypeOK, ConnType, Shape, ConnShape
      <4>2. PICK a \in {"register_source", "register_sink"} :
               pipe' = Append(pipe, [cmd |-> a, conn |-> d, n |-> n])
        BY <3>1, <4>1 DEF Register
      <4>3. [cmd |-> a, conn |-> d, n |-> n] \in PadMessage BY DEF PadMessage, RegisterMsg
      <4> QED BY <4>2, <4>3
    <3>2. ASSUME ~Register(d) PROVE pipe' = pipe \/ \E x \in PadMessage : pipe' = Append(pipe, x)
      BY <2>2, <3>2, UnregisterMsgType
         DEF Client, Handler, StreamCommand, CommandFails, Put, PutRefused, PutWithoutSource,
             Disconnect, Unregister, CancelSelf, StopMsg
    <3> QED BY <3>1, <3>2
  <2>3. ASSUME NEW x \in PadMessage, pipe' = Append(pipe, x) PROVE FALSE
    <3>1. Len(Append(pipe, x)) = Len(pipe) + 1 /\ Len(Tail(pipe)) = Len(pipe) - 1 /\ Len(pipe) \in Nat
      BY <1>0, <1>3, HeadTailProperties, AppendProperties, LenProperties
    <3> QED BY <1>3, <2>3, <3>1
  <2>4. ASSUME PairPad PROVE pipe' = pipe \/ HandleUnregisterSource(Head(pipe))
    BY <2>0, <2>4 DEF PairPad, Handle, HandleRegisterSource, HandleRegisterSinkWait,
                      HandleRegisterSink, HandleUnregisterSink, NotifyWaitSenders, NotifyOne, Forward, Take
  <2>5. ASSUME NEW r \in Regs, SourceWork(r) PROVE pipe' = pipe \/ \E x \in PadMessage : pipe' = Append(pipe, x)
    <3>1. pipe' = pipe \/ Evict(r) \/ \E s \in work[r].todo : CancelSink(r, s)
      BY <2>5 DEF SourceWork, ConnectSink, HandleRtmpMessage, DeleteSink, WriteData, SourceDone
    <3>2. ASSUME Evict(r) \/ \E s \in work[r].todo : CancelSink(r, s)
          PROVE \E t \in Regs : Cancel(ConnOf(t))
      BY <3>2 DEF Evict, CancelSink, TypeInv, Shape, GoodWork, WorkStates
    <3> QED BY <3>1, <3>2, ConnOfType, UnregisterMsgType DEF Cancel
  <2>6. ASSUME NEW r \in Regs, SinkRun(r) PROVE pipe' = pipe
    BY <2>6 DEF SinkRun, SinkDeliver, SinkDone
  <2>7. CASE UNCHANGED vars BY <1>3, <2>1, <2>7 DEF vars
  <2> QED BY <1>3, <2>1, <2>2, <2>3, <2>4, <2>5, <2>6, <2>7 DEF Next
<1>4. ASSUME NEW d \in Conns, Register(d) PROVE Has(pipe', UnregMsg(c))
  <2>1. PICK n \in 1 .. MaxCmds : n = cmds[d]
    BY <1>4, BoundAssumption DEF Register, TypeInv, TypeOK, ConnType, Shape, ConnShape
  <2>2. PICK a \in {"register_source", "register_sink"} :
           pipe' = Append(pipe, [cmd |-> a, conn |-> d, n |-> n])
    BY <1>4, <2>1 DEF Register
  <2>3. [cmd |-> a, conn |-> d, n |-> n] \in PadMessage BY DEF PadMessage, RegisterMsg
  <2> QED BY <1>1, <2>2, <2>3
<1> QED BY <1>1, <1>2, <1>3, <1>4, PipeNext

\* Who comes to be registered for a key, and who stays.
LEMMA ReceiverNext ==
    ASSUME TypeInv, [Next]_vars, NEW k \in AnyKey, receivers'[k] # receivers[k]
    PROVE /\ pipe # <<>>
          /\ \/ /\ HandleRegisterSource(Head(pipe)) /\ key[Head(pipe).conn] = k
                /\ receivers[k] = NoReg /\ receivers'[k] = RegOf(Head(pipe))
             \/ /\ HandleUnregisterSource(Head(pipe)) /\ key[Head(pipe).conn] = k
                /\ receivers'[k] = NoReg
<1>0. receivers \in [AnyKey -> Regs \cup {NoReg}] BY DEF TypeInv, TypeOK, PairType
<1>1. ASSUME NEW d \in Conns, Client(d) \/ Handler(d) PROVE receivers' = receivers
  BY <1>1 DEF Client, Handler, StreamCommand, CommandFails, Put, PutRefused, PutWithoutSource,
              Disconnect, Register, Unregister, CancelSelf
<1>2. ASSUME NEW r \in Regs, SourceWork(r) \/ SinkRun(r) PROVE receivers' = receivers
  BY <1>2 DEF SourceWork, ConnectSink, HandleRtmpMessage, DeleteSink, WriteData, CancelSink,
              Evict, SourceDone, SinkRun, SinkDeliver, SinkDone
<1>3. ASSUME PairPad
      PROVE \/ receivers' = receivers
            \/ pipe # <<>> /\ (HandleRegisterSource(Head(pipe)) \/ HandleUnregisterSource(Head(pipe)))
  BY <1>3 DEF PairPad, Handle, HandleRegisterSinkWait, HandleRegisterSink, HandleUnregisterSink,
              NotifyWaitSenders, NotifyOne, Forward
<1>4. CASE UNCHANGED vars BY <1>4 DEF vars
<1>5. CASE pipe # <<>> /\ HandleRegisterSource(Head(pipe))
  <2>1. \/ receivers' = receivers
        \/ /\ receivers[key[Head(pipe).conn]] = NoReg
           /\ receivers' = [receivers EXCEPT ![key[Head(pipe).conn]] = RegOf(Head(pipe))]
    BY <1>5 DEF HandleRegisterSource
  <2> QED BY <1>0, <1>5, <2>1
<1>6. CASE pipe # <<>> /\ HandleUnregisterSource(Head(pipe))
  <2>1. receivers' = receivers \/ receivers' = [receivers EXCEPT ![key[Head(pipe).conn]] = NoReg]
    BY <1>6 DEF HandleUnregisterSource
  <2> QED BY <1>0, <1>6, <2>1
<1> QED BY <1>1, <1>2, <1>3, <1>4, <1>5, <1>6 DEF Next

\* A source that is registered stays well registered until pairPad removes it.
LEMMA RegisteredNext ==
    ASSUME TypeInv, KindInv, SingleInv, [Next]_vars, ~SecondCommand', NEW k \in AnyKey
    PROVE Registered(k)'
<1> SUFFICES ASSUME receivers'[k] # NoReg PROVE Registered(k)' BY DEF Registered
<1>0. /\ ~SecondCommand /\ NewKinds /\ receivers \in [AnyKey -> Regs \cup {NoReg}]
      /\ pc \in [Conns -> {"loop", "register", "await", "stop", "cancel", "done"}]
      /\ role \in [Conns -> {"none", "source", "sink"}] /\ pipe \in Seq(PadMessage)
  BY SingleBack DEF TypeInv, TypeOK, PairType, ConnType, KindInv
<1>1. CASE receivers'[k] = receivers[k]
  <2>1. PICK r \in Regs : r = receivers[k] BY <1>0, <1>1
  <2>2. PICK c \in Conns : c = ConnOf(r) BY ConnOfType
  <2>3. /\ kind[r] = "source" /\ key[c] = k /\ pc[c] \notin {"register", "await"}
        /\ c \in RtmpConns => role[c] = "source"
        /\ pc[c] \in {"cancel", "done"} => Has(pipe, UnregMsg(c))
    BY <1>0, <1>1, <2>1, <2>2 DEF SingleInv, Registered
  <2>4. kind'[r] = "source" /\ key'[c] = k /\ ~Command(c)
    BY <1>0, <2>2, <2>3, KindStays, KeyStays
  <2>5. /\ pc'[c] \notin {"register", "await"}
        /\ pc'[c] \in {"cancel", "done"} => pc[c] \in {"cancel", "done"} \/ Unregister(c)
    <3>1. CASE pc'[c] = pc[c] BY <2>3, <3>1
    <3>2. CASE Register(c) BY <2>3, <3>2 DEF Register
    <3>3. CASE Unregister(c)
      <4>1. pc'[c] = "cancel" BY <1>0, <3>3 DEF Unregister
      <4> QED BY <3>3, <4>1
    <3>4. CASE CancelSelf(c)
      <4>1. pc[c] = "cancel" /\ pc'[c] = "done" BY <1>0, <3>4 DEF CancelSelf
      <4> QED BY <4>1
    <3>5. CASE pc[c] = "loop" /\ pc'[c] = "stop" BY <3>5
    <3>6. CASE pc[c] = "await" BY <2>3, <3>6
    <3> QED BY <2>4, <3>1, <3>2, <3>3, <3>4, <3>5, <3>6, PcNext
  <2>6. c \in RtmpConns => role'[c] = "source" BY <2>3, RoleNext
  <2>7. ASSUME pc[c] \in {"cancel", "done"} PROVE Has(pipe', UnregMsg(c))
    <3>1. Has(pipe, UnregMsg(c)) BY <2>3, <2>7
    <3>2. ASSUME pipe # <<>>, HandleUnregisterSource(Head(pipe)), Head(pipe) = UnregMsg(c) PROVE FALSE
      <4>1. Head(pipe).conn = c BY <3>2 DEF UnregMsg
      <4>2. receivers' = [receivers EXCEPT ![k] = NoReg]
        BY <1>1, <2>3, <3>2, <4>1 DEF HandleUnregisterSource
      <4> QED BY <1>0, <4>2
    <3> QED BY <3>1, <3>2, UnregStays
  <2>8. ASSUME Unregister(c) PROVE Has(pipe', UnregMsg(c))
    <3>1. StopMsg(c) = <<"unregister_source">> BY <2>3 DEF StopMsg, Conns
    <3>2. pipe' = Append(pipe, UnregMsg(c)) BY <2>8, <3>1 DEF Unregister, UnregMsg
    <3>3. UnregMsg(c) \in PadMessage BY UnregisterMsgType DEF UnregMsg
    <3> QED BY <1>0, <3>2, <3>3, HasAppend
  <2>9. pc'[c] \in {"cancel", "done"} => Has(pipe', UnregMsg(c)) BY <2>5, <2>7, <2>8
  <2>10. receivers'[k] = r BY <1>1, <2>1
  <2> QED BY <2>2, <2>4, <2>5, <2>6, <2>9, <2>10 DEF Registered
<1>2. CASE receivers'[k] # receivers[k]
  <2>1. /\ pipe # <<>> /\ HandleRegisterSource(Head(pipe)) /\ key[Head(pipe).conn] = k
        /\ receivers[k] = NoReg /\ receivers'[k] = RegOf(Head(pipe))
    BY <1>2, ReceiverNext
  <2>2. PICK r \in Regs :
            /\ r = RegOf(Head(pipe)) /\ ConnOf(r) = Head(pipe).conn /\ kind[r] = "source"
            /\ ConnOf(r) \in Conns
    BY <2>1, SourceFacts
  <2>3. PICK c \in Conns : c = ConnOf(r) BY <2>2
  <2>4. SourceResult(c, r, TRUE) /\ UNCHANGED <<key, kind>>
    BY <2>1, <2>2, <2>3 DEF HandleRegisterSource
  <2>5. pc'[c] = "loop" /\ (c \in RtmpConns => role'[c] = "source")
    BY <1>0, <2>4 DEF SourceResult
  <2> QED BY <2>1, <2>2, <2>3, <2>4, <2>5 DEF Registered
<1> QED BY <1>1, <1>2

\* The parts of SingleInv about the handlers.
LEMMA SingleNext == TypeInv /\ WorkInv /\ KindInv /\ SingleInv /\ [Next]_vars => SingleInv'
<1> SUFFICES ASSUME TypeInv, WorkInv, KindInv, SingleInv, [Next]_vars, ~SecondCommand'
             PROVE ((\A k \in AnyKey : Registered(k)) /\ RoleKind /\ CancelKind)'
  BY DEF SingleInv
<1>0. /\ ~SecondCommand /\ NewKinds /\ PlacedSinks /\ RoleKind /\ CancelKind
      /\ pc \in [Conns -> {"loop", "register", "await", "stop", "cancel", "done"}]
  BY SingleBack DEF TypeInv, TypeOK, ConnType, KindInv, SingleInv
<1>1. ASSUME NEW c \in Conns, role'[c] = "source" PROVE IsA(c, "source")'
  <2>1. IsA(c, "source")
    <3>1. CASE role'[c] = role[c] BY <1>0, <1>1, <3>1 DEF RoleKind
    <3>2. CASE pipe # <<>> /\ HandleRegisterSource(Head(pipe)) /\ Head(pipe).conn = c
      BY <3>2, SourceFacts DEF IsA
    <3> QED BY <1>1, <3>1, <3>2, RoleNext
  <2> QED BY <1>0, <2>1, IsAStays
<1>2. ASSUME NEW c \in Conns, cancelled'[c] PROVE pc'[c] = "done" \/ IsA(c, "sink")'
  <2>1. CASE CancelSelf(c)
    <3>1. pc'[c] = "done" BY <1>0, <2>1 DEF CancelSelf
    <3> QED BY <3>1
  <2>2. CASE IsA(c, "sink") BY <1>0, <2>2, IsAStays
  <2>3. CASE \E s \in Regs : ConnOf(s) = c /\ InPlace(s)
    <3>1. IsA(c, "sink") BY <1>0, <2>3 DEF IsA, PlacedSinks
    <3> QED BY <1>0, <3>1, IsAStays
  <2>4. CASE pc[c] = "done"
    <3>1. pc'[c] = pc[c] BY <2>4, PcNext DEF Command, Register, Unregister, CancelSelf
    <3> QED BY <2>4, <3>1
  <2>5. CASE cancelled[c] BY <1>0, <2>2, <2>4, <2>5 DEF CancelKind
  <2> QED BY <1>2, <2>1, <2>3, <2>5, CancelNext
<1>3. \A k \in AnyKey : Registered(k)' BY RegisteredNext
<1> QED BY <1>1, <1>2, <1>3 DEF RoleKind, CancelKind

\* At first.
LEMMA SingleInit == Init => SingleInv
BY DEF Init, SingleInv, Registered, RoleKind, CancelKind

\* The invariants so far.
KeyBase == BaseInv /\ KindInv /\ SingleInv

\* They hold at first and every step keeps them.
LEMMA KeyBaseInductive == (Init => KeyBase) /\ (KeyBase /\ [Next]_vars => KeyBase')
<1>1. Init => KeyBase BY BaseInductive, KindInit, SingleInit DEF KeyBase
<1>2. BaseInv /\ [Next]_vars => BaseInv' BY BaseInductive
<1>3. BaseInv => TypeInv /\ WorkInv BY DEF BaseInv
<1>4. BaseInv' => TypeInv' BY DEF BaseInv
<1> QED BY <1>1, <1>2, <1>3, <1>4, KindNext, SingleNext DEF KeyBase

\* A source whose connection is cancelled is about to be unregistered, as long
\* as no connection has given a second stream command: stop and the flv Cancel
\* send unregister_source before they cancel, and nobody cancels a publisher.
THEOREM DeadSourcesLeave == Spec => [](~SecondCommand => DeadSourceLeaves)
<1>1. KeyBase => (~SecondCommand => DeadSourceLeaves)
  <2> SUFFICES ASSUME KeyBase, ~SecondCommand, NEW k \in AnyKey,
                      receivers[k] # NoReg, cancelled[ConnOf(receivers[k])]
               PROVE \E i \in 1 .. Len(pipe) :
                        pipe[i] = [cmd |-> "unregister_source", conn |-> ConnOf(receivers[k]), n |-> 0]
    BY DEF DeadSourceLeaves
  <2>1. TypeInv /\ NewKinds BY DEF KeyBase, BaseInv, KindInv
  <2>2. PICK r \in Regs : r = receivers[k] BY <2>1 DEF TypeInv, TypeOK, PairType
  <2>3. PICK c \in Conns : c = ConnOf(r) BY ConnOfType
  <2>4. kind[r] = "source" /\ (pc[c] \in {"cancel", "done"} => Has(pipe, UnregMsg(c)))
    BY <2>2, <2>3 DEF KeyBase, SingleInv, Registered
  <2>5. pc[c] = "done" \/ IsA(c, "sink") BY <2>2, <2>3 DEF KeyBase, SingleInv, CancelKind
  <2>6. ~IsA(c, "sink")
    <3> SUFFICES ASSUME NEW s \in Regs, ConnOf(s) = c, kind[s] = "sink" PROVE FALSE BY DEF IsA
    <3>1. r = s BY <2>1, <2>3, <2>4, OneReg
    <3> QED BY <2>4, <3>1
  <2>7. Has(pipe, UnregMsg(c)) BY <2>4, <2>5, <2>6
  <2> QED BY <2>2, <2>3, <2>7 DEF Has, UnregMsg
<1>2. (Init => KeyBase) /\ (KeyBase /\ [Next]_vars => KeyBase') BY KeyBaseInductive
<1> QED BY <1>1, <1>2, PTL DEF Spec

(***************************************************************************)
(* Who is fed by whom.                                                     *)
(***************************************************************************)
\* Two registrations that were made for the same key.
SameKey(r, s) == kind[r] # "none" /\ kind[s] # "none" /\ key[ConnOf(r)] = key[ConnOf(s)]

WaitKeys == \A s \in Regs, k \in AnyKey : Waits(s, k) => kind[s] # "none" /\ key[ConnOf(s)] = k
NotifyKind == pair.at = "notify" => kind[pair.src] # "none"
HandKeys == \A s \in Regs : RegSinkMsg(s) \in pair.todo => pair.src \in Regs /\ SameKey(pair.src, s)
ChanKeys == \A r, s \in Regs : Has(srcChan[r], RegSinkMsg(s)) \/ s \in sinks[r] => SameKey(r, s)
SentKeys == \A s \in Regs : \A i \in 1 .. Len(Sent(s)) : SameKey(Sent(s)[i].src, s)
KeyInv == ~SecondCommand => WaitKeys /\ NotifyKind /\ HandKeys /\ ChanKeys /\ SentKeys

\* Registrations for one key stay so while nobody gives a second command.
LEMMA SameKeyStays ==
    ASSUME TypeInv, NewKinds, [Next]_vars, ~SecondCommand', NEW r \in Regs, NEW s \in Regs, SameKey(r, s)
    PROVE SameKey(r, s)'
<1>1. kind[r] # "none" /\ kind[s] # "none" BY DEF SameKey
<1>2. kind'[r] = kind[r] /\ kind'[s] = kind[s] BY <1>1, KindStays
<1>3. key'[ConnOf(r)] = key[ConnOf(r)] /\ key'[ConnOf(s)] = key[ConnOf(s)] BY <1>1, KeyStays
<1> QED BY <1>2, <1>3 DEF SameKey

\* pairPad begins to notify for a source it has just stored.
LEMMA NotifyNext ==
    ASSUME TypeInv, [Next]_vars, pair'.at = "notify"
    PROVE \/ pair' = pair
          \/ pipe # <<>> /\ HandleRegisterSource(Head(pipe)) /\ pair'.src = RegOf(Head(pipe))
<1>0. pair \in PairStates BY DEF TypeInv, TypeOK, PairType
<1>1. ASSUME NEW c \in Conns, Client(c) \/ Handler(c) PROVE pair' = pair
  BY <1>1 DEF Client, Handler, StreamCommand, CommandFails, Put, PutRefused, PutWithoutSource,
              Disconnect, Register, Unregister, CancelSelf
<1>2. ASSUME NEW r \in Regs, SourceWork(r) \/ SinkRun(r) PROVE pair' = pair
  BY <1>2 DEF SourceWork, ConnectSink, HandleRtmpMessage, DeleteSink, WriteData, CancelSink,
              Evict, SourceDone, SinkRun, SinkDeliver, SinkDone
<1>3. ASSUME NEW r, NEW T, pair' = [Receiving EXCEPT !.at = "forward", !.src = r, !.todo = T] PROVE FALSE
  <2>1. pair'.at = "forward" BY <1>3 DEF Receiving
  <2> QED BY <2>1
<1>4. pair' # Receiving BY DEF Receiving
<1>5. ASSUME pipe # <<>>, Handle(Head(pipe)), pair' # pair
      PROVE HandleRegisterSource(Head(pipe)) /\ pair'.src = RegOf(Head(pipe))
  <2>1. /\ HandleRegisterSource(Head(pipe))
        /\ pair' = [Receiving EXCEPT !.at = "notify", !.src = RegOf(Head(pipe))]
    BY <1>3, <1>5 DEF Handle, HandleRegisterSource, HandleUnregisterSource, HandleRegisterSinkWait,
                      HandleRegisterSink, HandleUnregisterSink
  <2> QED BY <2>1 DEF Receiving
<1>6. ASSUME NotifyWaitSenders PROVE FALSE
  <2>1. PICK k, T : pair' = [pair EXCEPT !.at = "loop", !.key = k, !.todo = T]
    BY <1>4, <1>6 DEF NotifyWaitSenders
  <2>2. pair'.at = "loop" BY <1>0, <2>1 DEF PairStates
  <2> QED BY <2>2
<1>7. ASSUME NEW m \in pair.todo, NotifyOne(m) \/ Forward(m) PROVE FALSE
  <2>1. pair.at = "loop" /\ pair' = [pair EXCEPT !.todo = @ \ {m}] BY <1>4, <1>7 DEF NotifyOne, Forward
  <2>2. pair'.at = "loop" BY <1>0, <2>1 DEF PairStates
  <2> QED BY <2>2
<1>8. CASE UNCHANGED vars BY <1>8 DEF vars
<1> QED BY <1>1, <1>2, <1>5, <1>6, <1>7, <1>8 DEF Next, PairPad

\* A source connects a sink out of its srcChan.
LEMMA ConnectedNext ==
    ASSUME TypeInv, [Next]_vars, NEW r \in Regs, NEW s \in Regs, s \in sinks'[r]
    PROVE s \in sinks[r] \/ Has(srcChan[r], RegSinkMsg(s))
<1>0. sinks \in [Regs -> SUBSET Regs] /\ srcChan[r] \in Seq(PadMessage)
  BY DEF TypeInv, TypeOK, SourceType
<1>1. CASE ~SourceWork(r) BY <1>1, WorkFrame
<1>2. CASE srcChan[r] # <<>> /\ ConnectSink(r, Head(srcChan[r]))
  <2>1. PICK m \in PadMessage : m = Head(srcChan[r]) BY <1>0, <1>2, HeadTailProperties
  <2>2. m.cmd = "register_sink" BY <1>2, <2>1 DEF ConnectSink, Receive
  <2>3. sinks' = sinks \/ sinks' = [sinks EXCEPT ![r] = @ \cup {RegOf(m)}] BY <1>2, <2>1 DEF ConnectSink
  <2>4. sinks'[r] \subseteq sinks[r] \cup {RegOf(m)} BY <1>0, <2>3
  <2>5. Has(srcChan[r], RegSinkMsg(RegOf(m))) BY <1>0, <1>2, <2>1, <2>2, SinkMsg, HasTail
  <2> QED BY <2>4, <2>5
<1>3. CASE SourceWork(r) /\ ~(srcChan[r] # <<>> /\ ConnectSink(r, Head(srcChan[r])))
  <2>1. sinks' = sinks \/ \E F : sinks' = [sinks EXCEPT ![r] = @ \ F]
    BY <1>3 DEF SourceWork, HandleRtmpMessage, DeleteSink, WriteData, CancelSink, Evict, SourceDone
  <2> QED BY <1>0, <2>1
<1> QED BY <1>1, <1>2, <1>3

\* pairPad and the sources pass a sink on to a source of its key.
LEMMA PlaceKeysNext ==
    ASSUME TypeInv, WorkInv, KindInv, SingleInv, KeyInv, [Next]_vars, ~SecondCommand'
    PROVE (WaitKeys /\ NotifyKind /\ HandKeys /\ ChanKeys)'
<1>0. /\ ~SecondCommand /\ NewKinds /\ PlacedSinks /\ (\A k \in AnyKey : Registered(k))
      /\ WaitKeys /\ NotifyKind /\ HandKeys /\ ChanKeys
      /\ pair \in GoodPair /\ receivers \in [AnyKey -> Regs \cup {NoReg}] /\ key \in [Conns -> AnyKey]
  BY SingleBack DEF KindInv, SingleInv, KeyInv, TypeInv, TypeOK, PairType, ConnType, Shape
<1>1. ASSUME NEW s \in Regs, NEW k \in AnyKey, Waits(s, k)' PROVE kind'[s] # "none" /\ key'[ConnOf(s)] = k
  <2>1. kind[s] # "none" /\ key[ConnOf(s)] = k
    <3>1. CASE Waits(s, k) BY <1>0, <3>1 DEF WaitKeys
    <3>2. CASE Has(pipe, RegSinkMsg(s)) /\ key[ConnOf(s)] = k
      BY <1>0, <3>2 DEF PlacedSinks, InPlace
    <3> QED BY <1>1, <3>1, <3>2, UntouchedWaits
  <2> QED BY <1>0, <2>1, KindStays, KeyStays
<1>2. ASSUME pair'.at = "notify" PROVE kind'[pair'.src] # "none"
  <2>1. CASE pair' = pair
    <3>1. pair.src \in Regs /\ kind[pair.src] # "none" BY <1>0, <1>2, <2>1 DEF NotifyKind, GoodPair
    <3> QED BY <1>0, <2>1, <3>1, KindStays
  <2>2. CASE pipe # <<>> /\ HandleRegisterSource(Head(pipe)) /\ pair'.src = RegOf(Head(pipe))
    <3>1. PICK r \in Regs : r = RegOf(Head(pipe)) /\ kind[r] = "source" BY <2>2, SourceFacts
    <3> QED BY <1>0, <2>2, <3>1, KindStays
  <2> QED BY <1>2, <2>1, <2>2, NotifyNext
<1>3. ASSUME NEW s \in Regs, RegSinkMsg(s) \in pair'.todo PROVE pair'.src \in Regs /\ SameKey(pair.src, s)'
  <2>1. PICK r : r = pair'.src OBVIOUS
  <2>2. r \in Regs /\ SameKey(r, s)
    <3>1. CASE RegSinkMsg(s) \in pair.todo /\ r = pair.src BY <1>0, <3>1 DEF HandKeys
    <3>2. CASE Has(pipe, RegSinkMsg(s)) /\ r = receivers[key[ConnOf(s)]] /\ r # NoReg
      <4>1. PICK k \in AnyKey : k = key[ConnOf(s)] BY <1>0, ConnOfType
      <4>2. kind[r] = "source" /\ key[ConnOf(r)] = k /\ r \in Regs BY <1>0, <3>2, <4>1 DEF Registered
      <4>3. kind[s] = "sink" BY <1>0, <3>2 DEF PlacedSinks, InPlace
      <4> QED BY <4>1, <4>2, <4>3 DEF SameKey
    <3>3. CASE \E k \in AnyKey : Waits(s, k) /\ pair.at = "notify" /\ r = pair.src /\ key[ConnOf(r)] = k
      BY <1>0, <3>3 DEF WaitKeys, NotifyKind, GoodPair, SameKey
    <3> QED BY <1>3, <2>1, <3>1, <3>2, <3>3, UntouchedHand
  <2>3. SameKey(r, s)' BY <1>0, <2>2, SameKeyStays
  <2> QED BY <2>1, <2>2, <2>3 DEF SameKey
<1>4. ASSUME NEW r \in Regs, NEW s \in Regs, Has(srcChan'[r], RegSinkMsg(s)) \/ s \in sinks'[r]
      PROVE SameKey(r, s)'
  <2>1. SameKey(r, s)
    <3>1. CASE Has(srcChan'[r], RegSinkMsg(s))
      <4>1. Has(srcChan[r], RegSinkMsg(s)) \/ (RegSinkMsg(s) \in pair.todo /\ pair.src = r)
        BY <3>1, UntouchedChan
      <4> QED BY <1>0, <4>1 DEF ChanKeys, HandKeys
    <3>2. CASE s \in sinks'[r] BY <1>0, <3>2, ConnectedNext DEF ChanKeys
    <3> QED BY <1>4, <3>1, <3>2
  <2> QED BY <1>0, <2>1, SameKeyStays
<1>5. WaitKeys' BY <1>1 DEF WaitKeys
<1>6. NotifyKind' BY <1>2 DEF NotifyKind
<1>7. HandKeys' BY <1>3 DEF HandKeys
<1>8. ChanKeys' BY <1>4 DEF ChanKeys
<1> QED BY <1>5, <1>6, <1>7, <1>8

\* A source sends only to the sinks it has, or is about to have.
LEMMA SentKeysNext ==
    ASSUME TypeInv, WorkInv, SourceInv, KindInv, KeyInv, [Next]_vars, ~SecondCommand'
    PROVE SentKeys'
<1>0. ~SecondCommand /\ NewKinds /\ ChanKeys /\ SentKeys BY SingleBack DEF KindInv, KeyInv
<1> SUFFICES ASSUME NEW s \in Regs PROVE \A i \in 1 .. Len(Sent(s)') : SameKey(Sent(s)[i].src, s)'
  BY DEF SentKeys
<1>1. PICK q \in Seq(ExData) : q = Sent(s) BY SentFrame
<1>2. PICK q2 : q2 = Sent(s)' OBVIOUS
<1>3. \A i \in 1 .. Len(q) : q[i].src \in Regs /\ SameKey(q[i].src, s)
  <2>1. \A i \in 1 .. Len(q) : q[i] \in ExData BY <1>1, ElementOfSeq
  <2> QED BY <1>0, <1>1, <2>1 DEF SentKeys, ExData
<1>4. \A i \in 1 .. Len(q2) : q2[i].src \in Regs /\ SameKey(q2[i].src, s)
  <2>1. CASE q2 = q BY <1>3, <2>1
  <2>2. ASSUME NEW r \in Regs, s \in work[r].todo, WriteData(r, s),
               q2 = Append(q, [src |-> r, n |-> work[r].n, cached |-> FALSE])
        PROVE \A i \in 1 .. Len(q2) : q2[i].src \in Regs /\ SameKey(q2[i].src, s)
    <3>1. SameKey(r, s)
      <4>1. s \in sinks[r] BY <2>2 DEF WriteData, WorkInv, InHand
      <4> QED BY <1>0, <4>1 DEF ChanKeys
    <3>2. PICK x : x = [src |-> r, n |-> work[r].n, cached |-> FALSE] OBVIOUS
    <3>3. x.src = r BY <3>2
    <3>4. /\ Len(q2) = Len(q) + 1 /\ Len(q) \in Nat /\ q2[Len(q) + 1] = x
          /\ \A i \in 1 .. Len(q) : q2[i] = q[i]
      <4>1. work[r].n \in 1 .. MaxPuts
        <5>1. work[r] \in GoodWork /\ work[r].at = "write" BY <2>2 DEF WriteData, TypeInv, Shape
        <5> QED BY <5>1, BoundAssumption DEF GoodWork, WorkStates
      <4>2. x \in ExData BY <3>2, <4>1 DEF ExData
      <4> QED BY <2>2, <3>2, <4>2, AppendProperties, LenProperties
    <3> QED BY <1>3, <3>1, <3>3, <3>4
  <2>3. ASSUME NEW r \in Regs, srcChan[r] # <<>>, ConnectSink(r, Head(srcChan[r])),
               s = RegOf(Head(srcChan[r])), q2 = q \o Cached(r)
        PROVE \A i \in 1 .. Len(q2) : q2[i].src \in Regs /\ SameKey(q2[i].src, s)
    <3>1. SameKey(r, s)
      <4>1. srcChan[r] \in Seq(PadMessage) BY DEF TypeInv, TypeOK, SourceType
      <4>2. PICK m \in PadMessage : m = Head(srcChan[r]) BY <2>3, <4>1, HeadTailProperties
      <4>3. m.cmd = "register_sink" BY <2>3, <4>2 DEF ConnectSink, Receive
      <4>4. Has(srcChan[r], RegSinkMsg(s)) BY <2>3, <4>1, <4>2, <4>3, SinkMsg, HasTail
      <4> QED BY <1>0, <4>4 DEF ChanKeys
    <3>2. PICK z \in Seq(ExData) : z = Cached(r) /\ UpTo(z, r, done[r], log) BY CachedPlayable
    <3>3. \A i \in 1 .. Len(z) : z[i].src = r BY <3>2 DEF UpTo
    <3>4. /\ Len(q2) = Len(q) + Len(z) /\ Len(q) \in Nat /\ Len(z) \in Nat
          /\ \A i \in 1 .. Len(q) + Len(z) : q2[i] = IF i <= Len(q) THEN q[i] ELSE z[i - Len(q)]
      BY <1>1, <2>3, <3>2, ConcatProperties, LenProperties
    <3>5. ASSUME NEW i \in 1 .. Len(q2) PROVE q2[i].src \in Regs /\ SameKey(q2[i].src, s)
      <4>1. CASE i <= Len(q) BY <1>3, <3>4, <4>1
      <4>2. CASE i > Len(q)
        <5>1. i - Len(q) \in 1 .. Len(z) /\ q2[i] = z[i - Len(q)] BY <3>4, <4>2
        <5> QED BY <3>1, <3>3, <5>1
      <4> QED BY <3>4, <4>1, <4>2
    <3> QED BY <3>5
  <2> QED BY <1>1, <1>2, <2>1, <2>2, <2>3, SentFrame
<1>5. ASSUME NEW i \in 1 .. Len(q2) PROVE SameKey(Sent(s)[i].src, s)'
  <2>1. PICK r \in Regs : r = q2[i].src /\ SameKey(r, s) BY <1>4
  <2>2. SameKey(r, s)' BY <1>0, <2>1, SameKeyStays
  <2> QED BY <1>2, <2>1, <2>2 DEF SameKey
<1> QED BY <1>2, <1>5

\* All that is needed for the keys.
KeyStep == StreamBase /\ KindInv /\ SingleInv /\ KeyInv

\* It holds at first and every step keeps it.
LEMMA KeyStepInductive == (Init => KeyStep) /\ (KeyStep /\ [Next]_vars => KeyStep')
<1>1. StreamBase => BaseInv /\ SourceInv BY DEF StreamBase
<1>2. Init => KeyInv
  <2> SUFFICES ASSUME Init PROVE WaitKeys /\ NotifyKind /\ HandKeys /\ ChanKeys /\ SentKeys
    BY DEF KeyInv
  <2>1. \A s \in Regs : Sent(s) = <<>> BY DEF Init, Sent
  <2>2. SentKeys BY <2>1 DEF SentKeys
  <2> QED BY <2>2 DEF Init, WaitKeys, Waits, NotifyKind, HandKeys, ChanKeys, Has, Receiving
<1>3. Init => KeyStep BY <1>2, StreamBaseInductive, KindInit, SingleInit DEF KeyStep
<1>4. KeyBase /\ [Next]_vars => KeyBase' BY KeyBaseInductive
<1>5. KeyStep => KeyBase BY <1>1 DEF KeyStep, KeyBase
<1>6. ASSUME KeyStep, [Next]_vars PROVE KeyInv'
  <2>1. TypeInv /\ WorkInv /\ SourceInv /\ KindInv /\ SingleInv /\ KeyInv
    BY <1>6 DEF KeyStep, StreamBase, BaseInv
  <2> QED BY <1>6, <2>1, PlaceKeysNext, SentKeysNext DEF KeyInv
<1> QED BY <1>3, <1>4, <1>5, <1>6, StreamBaseInductive DEF KeyStep, KeyBase

\* No player is ever sent a message of a stream other than the one it asked
\* for, as long as no connection has given a second stream command: pairPad
\* passes a sink on only to the source stored under the sink's key, and a
\* source sends only to the sinks that were passed on to it.
THEOREM KeysAreIsolated == Spec => [](~SecondCommand => KeyIsolation)
<1>1. KeyStep => (~SecondCommand => KeyIsolation)
  <2> SUFFICES ASSUME KeyStep, ~SecondCommand, NEW s \in Regs, Sent(s) # <<>>
               PROVE key[ConnOf(Sent(s)[1].src)] = key[ConnOf(s)]
    BY DEF KeyIsolation
  <2>1. TypeInv /\ SentKeys BY DEF KeyStep, KeyInv, StreamBase, BaseInv
  <2>2. Sent(s) \in Seq(ExData)
    <3>1. delivered[s] \in Seq(ExData) /\ msgChan[s] \in Seq(ExData) BY <2>1 DEF TypeInv, TypeOK, SinkType
    <3> QED BY <3>1, SentSeq DEF Sent
  <2>3. 1 \in 1 .. Len(Sent(s)) BY <2>2, EmptySeq, LenProperties
  <2> QED BY <2>1, <2>3 DEF SentKeys, SameKey
<1>2. (Init => KeyStep) /\ (KeyStep /\ [Next]_vars => KeyStep') BY KeyStepInductive
<1> QED BY <1>1, <1>2, PTL DEF Spec

(***************************************************************************)
(* What it takes to panic.                                                 *)
(***************************************************************************)
\* The process panics in four places.
LEMMA PanicNext ==
    ASSUME [Next]_vars, panicked' # panicked
    PROVE /\ panicked = "none"
          /\ \/ panicked' = "nil putMsg"
             \/ /\ pipe # <<>> /\ HandleUnregisterSource(Head(pipe)) /\ panicked' = "source not registerd"
                /\ receivers[key[Head(pipe).conn]] = NoReg
             \/ /\ pipe # <<>> /\ HandleRegisterSinkWait(Head(pipe)) /\ panicked' = "has waited"
                /\ \E w \in waiting[key[Head(pipe).conn]] : ConnOf(w) = Head(pipe).conn
             \/ \E r \in Regs :
                   /\ srcChan[r] # <<>> /\ ConnectSink(r, Head(srcChan[r])) /\ panicked' = "repeater register"
                   /\ \E t \in sinks[r] : SameEntry(RegOf(Head(srcChan[r])), t)
<1>1. ASSUME NEW c \in Conns, Client(c) \/ Handler(c) PROVE panicked' \in {panicked, "nil putMsg"}
  BY <1>1 DEF Client, Handler, StreamCommand, CommandFails, Put, PutRefused, PutWithoutSource,
              Disconnect, Register, Unregister, CancelSelf
<1>2. ASSUME PairPad
      PROVE \/ panicked' = panicked
            \/ pipe # <<>> /\ (HandleUnregisterSource(Head(pipe)) \/ HandleRegisterSinkWait(Head(pipe)))
  BY <1>2 DEF PairPad, Handle, HandleRegisterSource, HandleRegisterSink, HandleUnregisterSink,
              NotifyWaitSenders, NotifyOne, Forward
<1>3. ASSUME pipe # <<>>, HandleUnregisterSource(Head(pipe))
      PROVE /\ panicked' = "source not registerd" /\ receivers[key[Head(pipe).conn]] = NoReg
  BY <1>3 DEF HandleUnregisterSource
<1>4. ASSUME pipe # <<>>, HandleRegisterSinkWait(Head(pipe))
      PROVE /\ panicked' = "has waited"
            /\ \E w \in waiting[key[Head(pipe).conn]] : ConnOf(w) = Head(pipe).conn
  BY <1>4 DEF HandleRegisterSinkWait
<1>5. ASSUME NEW r \in Regs, SourceWork(r) \/ SinkRun(r)
      PROVE srcChan[r] # <<>> /\ ConnectSink(r, Head(srcChan[r]))
  BY <1>5 DEF SourceWork, HandleRtmpMessage, DeleteSink, WriteData, CancelSink,
              Evict, SourceDone, SinkRun, SinkDeliver, SinkDone
<1>6. ASSUME NEW r \in Regs, ConnectSink(r, Head(srcChan[r]))
      PROVE panicked' = "repeater register" /\ \E t \in sinks[r] : SameEntry(RegOf(Head(srcChan[r])), t)
  BY <1>6 DEF ConnectSink
<1>7. ~UNCHANGED vars BY DEF vars
<1> QED BY <1>1, <1>2, <1>3, <1>4, <1>5, <1>6, <1>7 DEF Next, Running

\* A connection with two sinks in two places has given two commands.
LEMMA TwoSinks ==
    ASSUME TypeInv, KindInv, NEW s \in Regs, NEW t \in Regs, s # t, ConnOf(s) = ConnOf(t),
           InPlace(s), InPlace(t)
    PROVE SecondCommand
<1>1. kind[s] # "none" /\ kind[t] # "none" /\ NewKinds BY DEF KindInv, PlacedSinks
<1> QED BY <1>1, OneReg

\* "has waited" and "repeater register" are panics over a second sink of a
\* connection: no sink is handed to pairPad or to a source twice.
LEMMA SinkPanics ==
    ASSUME TypeInv, PlaceInv, KindInv, [Next]_vars, panicked' # panicked,
           panicked' \in {"has waited", "repeater register"}
    PROVE SecondCommand'
<1>1. SecondCommand
  <2>0. /\ {"pipe", "wait", "chan", "conn"} \subseteq PlaceNames
        /\ Regs \subseteq PlaceArgs /\ AnyKey \subseteq PlaceArgs /\ NoReg \in PlaceArgs
    BY DEF PlaceNames, PlaceArgs
  <2>1. ASSUME pipe # <<>>, HandleRegisterSinkWait(Head(pipe)),
               NEW w \in waiting[key[Head(pipe).conn]], ConnOf(w) = Head(pipe).conn
        PROVE SecondCommand
    <3>1. Take(Head(pipe), "register_sink") BY <2>1 DEF HandleRegisterSinkWait
    <3>2. PICK m \in PadMessage : /\ m = Head(pipe) /\ m.cmd = "register_sink" /\ m.conn \in Conns
                                  /\ pair.at = "recv"
      BY <3>1, TakeFacts
    <3>3. PICK s \in Regs : s = RegOf(m) /\ m = RegSinkMsg(s) /\ m.conn = ConnOf(s) BY <3>2, SinkMsg
    <3>4. PICK k \in AnyKey : k = key[m.conn] BY <3>2 DEF TypeInv, TypeOK, ConnType
    <3>5. w \in Regs /\ Waits(w, k) BY <2>1, <3>2, <3>4 DEF TypeInv, TypeOK, PairType, Waits
    <3>6. Has(pipe, RegSinkMsg(s))
      <4>1. pipe \in Seq(PadMessage) BY DEF TypeInv, TypeOK, PairType
      <4> QED BY <2>1, <3>2, <3>3, <4>1, HasTail
    <3>7. s # w
      <4> SUFFICES ASSUME s = w PROVE FALSE OBVIOUS
      <4>1. Holds(s, "pipe", NoReg) /\ Holds(s, "wait", k) BY <3>5, <3>6 DEF Holds
      <4> QED BY <2>0, <4>1 DEF PlaceInv, Apart
    <3>8. InPlace(s) /\ InPlace(w) BY <3>5, <3>6 DEF InPlace
    <3> QED BY <2>1, <3>2, <3>3, <3>5, <3>7, <3>8, TwoSinks
  <2>2. ASSUME NEW r \in Regs, srcChan[r] # <<>>, ConnectSink(r, Head(srcChan[r])),
               NEW t \in sinks[r], SameEntry(RegOf(Head(srcChan[r])), t)
        PROVE SecondCommand
    <3>1. srcChan[r] \in Seq(PadMessage) /\ t \in Regs BY DEF TypeInv, TypeOK, SourceType
    <3>2. PICK m \in PadMessage : m = Head(srcChan[r]) BY <2>2, <3>1, HeadTailProperties
    <3>3. m.cmd = "register_sink" BY <2>2, <3>2 DEF ConnectSink, Receive
    <3>4. PICK s \in Regs : s = RegOf(m) /\ m = RegSinkMsg(s) BY <3>3, SinkMsg
    <3>5. Has(srcChan[r], RegSinkMsg(s)) BY <2>2, <3>1, <3>2, <3>4, HasTail
    <3>6. s # t
      <4> SUFFICES ASSUME s = t PROVE FALSE OBVIOUS
      <4>1. Holds(s, "chan", r) /\ Holds(s, "conn", r) BY <2>2, <3>5 DEF Holds
      <4> QED BY <2>0, <4>1 DEF PlaceInv, Apart
    <3>7. ConnOf(s) = ConnOf(t) BY <2>2, <3>2, <3>4 DEF SameEntry
    <3>8. InPlace(s) /\ InPlace(t) BY <2>2, <3>5 DEF InPlace
    <3> QED BY <3>1, <3>6, <3>7, <3>8, TwoSinks
  <2> QED BY <2>1, <2>2, PanicNext
<1>2. cmds' = cmds
  BY PanicNext DEF HandleRegisterSinkWait, HandleUnregisterSource, ConnectSink
<1> QED BY <1>1, <1>2 DEF SecondCommand

\* None of the three causes.
Calm == ~SecondCommand /\ ~TwoPublishers /\ ~FlvEndsWithoutSource

\* A publisher that has been answered and has not ended is the source of its
\* key; it ends once, and is the source of its key until pairPad knows.
CalmPub(c) == kind[<<c, 1>>] = "source" /\ pc[c] \in {"loop", "stop"} => receivers[key[c]] = <<c, 1>>
CalmEnd(c) ==
    Has(pipe, UnregMsg(c)) =>
        /\ Once(pipe, UnregMsg(c)) /\ kind[<<c, 1>>] = "source"
        /\ pc[c] \in {"cancel", "done"} /\ receivers[key[c]] = <<c, 1>>
CalmInv == Calm => \A c \in Conns : CalmPub(c) /\ CalmEnd(c)

\* Only a command of the connection changes what it is.
LEMMA FirstKind ==
    ASSUME TypeInv, [Next]_vars, NEW c \in Conns, <<c, 1>> \in Regs, kind'[<<c, 1>>] # kind[<<c, 1>>]
    PROVE Command(c) /\ pc'[c] = "register"
<1>0. kind \in [Regs -> {"none", "source", "sink"}]
      /\ pc \in [Conns -> {"loop", "register", "await", "stop", "cancel", "done"}]
  BY DEF TypeInv, TypeOK, ConnType
<1>1. PICK d \in Conns : Command(d) BY CommandNext
<1>2. d = c
  <2> SUFFICES ASSUME d # c PROVE FALSE OBVIOUS
  <2>1. <<c, 1>> # <<d, cmds[d] + 1>> OBVIOUS
  <2>2. kind' = kind \/ \E what : kind' = [kind EXCEPT ![<<d, cmds[d] + 1>>] = what]
    BY <1>1 DEF Command
  <2> QED BY <1>0, <2>1, <2>2
<1>3. pc'[c] = "register" BY <1>0, <1>1, <1>2 DEF Command
<1> QED BY <1>1, <1>2, <1>3

\* A cause does not go away.
LEMMA CalmBack ==
    ASSUME 1 \in 1 .. MaxCmds, TypeInv, WorkInv, KindInv, SingleInv, [Next]_vars, Calm'
    PROVE Calm
<1>0. /\ ~SecondCommand /\ NewKinds /\ CancelKind
      /\ pc \in [Conns -> {"loop", "register", "await", "stop", "cancel", "done"}]
      /\ kind \in [Regs -> {"none", "source", "sink"}]
      /\ \A c \in Conns : <<c, 1>> \in Regs /\ ConnOf(<<c, 1>>) = c
  BY SingleBack DEF Calm, KindInv, SingleInv, TypeInv, TypeOK, ConnType, Regs, ConnOf
<1>1. ASSUME NEW c \in Conns, NEW d \in Conns, c # d, key[c] = key[d],
             kind[<<c, 1>>] = "source", kind[<<d, 1>>] = "source"
      PROVE FALSE
  <2>1. kind'[<<c, 1>>] = "source" /\ kind'[<<d, 1>>] = "source" BY <1>0, <1>1, KindStays
  <2>2. ~SecondCommand' BY DEF Calm
  <2>3. key'[c] = key[c]
    <3>1. key'[ConnOf(<<c, 1>>)] = key[ConnOf(<<c, 1>>)] BY <1>0, <1>1, <2>2, KeyStays
    <3> QED BY <1>0, <3>1
  <2>4. key'[d] = key[d]
    <3>1. key'[ConnOf(<<d, 1>>)] = key[ConnOf(<<d, 1>>)] BY <1>0, <1>1, <2>2, KeyStays
    <3> QED BY <1>0, <3>1
  <2> QED BY <1>1, <2>1, <2>3, <2>4 DEF Calm, TwoPublishers
<1>2. ASSUME NEW f \in FlvConns, kind[<<f, 1>>] # "source", cancelled[f] \/ pc[f] \in {"cancel", "done"}
      PROVE FALSE
  <2>0. f \in Conns BY DEF Conns
  <2>1. cancelled'[f] \/ pc'[f] \in {"cancel", "done"}
    <3>1. CASE cancelled[f] BY <2>0, <3>1, CancelledStays
    <3>2. CASE pc[f] \in {"cancel", "done"}
      <4>1. pc'[f] = pc[f] \/ CancelSelf(f)
        BY <2>0, <3>2, PcNext DEF Command, Register, Unregister
      <4>2. CancelSelf(f) => pc'[f] = "done" BY <1>0, <2>0 DEF CancelSelf
      <4> QED BY <3>2, <4>1, <4>2
    <3> QED BY <1>2, <3>1, <3>2
  <2>2. kind'[<<f, 1>>] = kind[<<f, 1>>]
    <3> SUFFICES ASSUME kind'[<<f, 1>>] # kind[<<f, 1>>] PROVE FALSE OBVIOUS
    <3>1. kind[<<f, 1>>] = "none" BY <1>0, <2>0, KindStays
    <3>2. pc[f] = "loop" BY <1>0, <2>0, FirstKind DEF Command
    <3>3. IsA(f, "sink") BY <1>0, <1>2, <2>0, <3>2 DEF CancelKind
    <3>4. PICK r \in Regs : ConnOf(r) = f /\ kind[r] = "sink" BY <3>3 DEF IsA
    <3>5. r = <<f, 1>> BY <1>0, <3>4, OneReg
    <3> QED BY <3>1, <3>4, <3>5
  <2> QED BY <1>2, <2>1, <2>2 DEF Calm, FlvEndsWithoutSource
<1> QED BY <1>0, <1>1, <1>2 DEF Calm, TwoPublishers, FlvEndsWithoutSource

\* A handler that waits is answered for what it has registered.
LEMMA AwaitNext ==
    ASSUME TypeInv, [Next]_vars, NEW c \in Conns, pc[c] = "await", pc'[c] # "await"
    PROVE /\ pipe # <<>> /\ Head(pipe).conn = c
          /\ \/ HandleRegisterSource(Head(pipe)) \/ HandleRegisterSinkWait(Head(pipe))
             \/ HandleRegisterSink(Head(pipe))
<1>0. pc \in [Conns -> {"loop", "register", "await", "stop", "cancel", "done"}]
  BY DEF TypeInv, TypeOK, ConnType
<1>1. ASSUME NEW d \in Conns, Client(d) \/ Handler(d) PROVE FALSE
  <2>1. pc' = pc \/ (pc[d] # "await" /\ \E a : pc' = [pc EXCEPT ![d] = a])
    BY <1>1 DEF Client, Handler, StreamCommand, CommandFails, Put, PutRefused, PutWithoutSource,
                Disconnect, Register, Unregister, CancelSelf
  <2> QED BY <1>0, <2>1
<1>2. ASSUME NEW r \in Regs, SourceWork(r) \/ SinkRun(r) PROVE pc' = pc
  BY <1>2 DEF SourceWork, ConnectSink, HandleRtmpMessage, DeleteSink, WriteData, CancelSink,
              Evict, SourceDone, SinkRun, SinkDeliver, SinkDone
<1>3. ASSUME PairPad
      PROVE /\ pipe # <<>> /\ Head(pipe).conn = c
            /\ \/ HandleRegisterSource(Head(pipe)) \/ HandleRegisterSinkWait(Head(pipe))
               \/ HandleRegisterSink(Head(pipe))
  <2>1. \/ pc' = pc
        \/ /\ pipe # <<>>
           /\ \/ HandleRegisterSource(Head(pipe)) \/ HandleRegisterSinkWait(Head(pipe))
              \/ HandleRegisterSink(Head(pipe))
    BY <1>3 DEF PairPad, Handle, HandleUnregisterSource, HandleUnregisterSink,
                NotifyWaitSenders, NotifyOne, Forward
  <2>2. ASSUME \/ HandleRegisterSource(Head(pipe)) \/ HandleRegisterSinkWait(Head(pipe))
               \/ HandleRegisterSink(Head(pipe))
        PROVE pc' = pc \/ \E a : pc' = [pc EXCEPT ![Head(pipe).conn] = a]
    BY <2>2 DEF HandleRegisterSource, HandleRegisterSinkWait, HandleRegisterSink,
                SourceResult, SinkResult
  <2> QED BY <1>0, <2>1, <2>2
<1>4. CASE UNCHANGED vars BY <1>4 DEF vars
<1> QED BY <1>1, <1>2, <1>3, <1>4 DEF Next

\* Who sends unregister_source in the name of connection c: its own stop, or
\* a source that cancels its flv sink.
LEMMA UnregSent ==
    ASSUME TypeInv, WorkInv, [Next]_vars, NEW c \in Conns
    PROVE \/ /\ Has(pipe', UnregMsg(c)) => Has(pipe, UnregMsg(c))
             /\ Once(pipe, UnregMsg(c)) => Once(pipe', UnregMsg(c))
          \/ /\ Unregister(c) /\ pipe' = Append(pipe, UnregMsg(c))
             /\ c \in FlvConns \/ role[c] = "source"
          \/ c \in FlvConns /\ cancelled'[c] /\ \E s \in Regs : ConnOf(s) = c /\ InPlace(s)
<1> DEFINE Quiet == /\ Has(pipe', UnregMsg(c)) => Has(pipe, UnregMsg(c))
                    /\ Once(pipe, UnregMsg(c)) => Once(pipe', UnregMsg(c))
<1>0. /\ pipe \in Seq(PadMessage) /\ cancelled \in [Conns -> BOOLEAN] /\ RtmpConns \cap FlvConns = {}
      /\ \A d \in Conns : UnregMsg(d) \in PadMessage /\ (UnregMsg(d) = UnregMsg(c) => d = c)
  BY ConnAssumption, UnregisterMsgType DEF TypeInv, TypeOK, PairType, ConnType, UnregMsg
<1>1. ASSUME pipe' = pipe PROVE Quiet BY <1>1
<1>2. ASSUME NEW x \in PadMessage, x # UnregMsg(c), pipe' = Append(pipe, x) PROVE Quiet
  BY <1>0, <1>2, HasAppend
<1>3. ASSUME NEW d \in Conns, Client(d) PROVE pipe' = pipe
  BY <1>3 DEF Client, StreamCommand, CommandFails, Put, PutRefused, PutWithoutSource, Disconnect
<1>4. ASSUME NEW d \in Conns, Register(d) PROVE Quiet
  <2>1. PICK n \in 1 .. MaxCmds : n = cmds[d]
    BY <1>4, BoundAssumption DEF Register, TypeInv, TypeOK, ConnType, Shape, ConnShape
  <2>2. PICK a \in {"register_source", "register_sink"} :
           pipe' = Append(pipe, [cmd |-> a, conn |-> d, n |-> n])
    BY <1>4, <2>1 DEF Register
  <2>3. [cmd |-> a, conn |-> d, n |-> n] \in PadMessage BY DEF PadMessage, RegisterMsg
  <2>4. [cmd |-> a, conn |-> d, n |-> n] # UnregMsg(c) BY DEF UnregMsg
  <2> QED BY <1>2, <2>2, <2>3, <2>4
<1>5. ASSUME NEW d \in Conns, Unregister(d)
      PROVE Quiet \/ (d = c /\ pipe' = Append(pipe, UnregMsg(c)) /\ (c \in FlvConns \/ role[c] = "source"))
  <2>1. CASE StopMsg(d) = <<>> BY <1>1, <1>5, <2>1 DEF Unregister
  <2>2. CASE d \in FlvConns \/ role[d] = "source"
    <3>1. StopMsg(d) = <<"unregister_source">> BY <2>2 DEF StopMsg
    <3>2. pipe' = Append(pipe, UnregMsg(d)) BY <1>5, <3>1 DEF Unregister, UnregMsg
    <3>3. CASE d = c BY <2>2, <3>2, <3>3
    <3>4. CASE d # c BY <1>0, <1>2, <3>2, <3>4
    <3> QED BY <3>3, <3>4
  <2>3. CASE StopMsg(d) = <<"unregister_sink">>
    <3>1. PICK x : x = [cmd |-> "unregister_sink", conn |-> d, n |-> 0] OBVIOUS
    <3>2. pipe' = Append(pipe, x) BY <1>5, <2>3, <3>1 DEF Unregister
    <3>3. x \in PadMessage /\ x # UnregMsg(c) BY <3>1, UnregisterMsgType DEF UnregMsg
    <3> QED BY <1>2, <3>2, <3>3
  <2> QED BY <2>1, <2>2, <2>3 DEF StopMsg
<1>6. ASSUME NEW d \in Conns, CancelSelf(d) PROVE pipe' = pipe BY <1>6 DEF CancelSelf
<1>7. ASSUME PairPad PROVE Quiet
  <2>1. pipe' = pipe \/ (pipe # <<>> /\ pipe' = Tail(pipe))
    BY <1>7 DEF PairPad, Handle, HandleRegisterSource, HandleUnregisterSource, HandleRegisterSinkWait,
                HandleRegisterSink, HandleUnregisterSink, NotifyWaitSenders, NotifyOne, Forward, Take
  <2>2. ASSUME pipe # <<>>, pipe' = Tail(pipe) PROVE Quiet BY <1>0, <2>2, HasTail
  <2> QED BY <1>1, <2>1, <2>2
<1>8. ASSUME NEW s \in Regs, InPlace(s), Cancel(ConnOf(s))
      PROVE Quiet \/ (c \in FlvConns /\ cancelled'[c] /\ ConnOf(s) = c)
  <2>1. ConnOf(s) \in Conns BY ConnOfType
  <2>2. CASE ConnOf(s) \in RtmpConns BY <1>1, <1>8, <2>2 DEF Cancel
  <2>3. CASE ConnOf(s) \notin RtmpConns
    <3>1. ConnOf(s) \in FlvConns BY <2>1, <2>3 DEF Conns
    <3>2. /\ pipe' = Append(pipe, UnregMsg(ConnOf(s)))
          /\ cancelled' = [cancelled EXCEPT ![ConnOf(s)] = TRUE]
      BY <1>8, <2>3 DEF Cancel, UnregMsg
    <3>3. CASE ConnOf(s) = c BY <1>0, <3>1, <3>2, <3>3
    <3>4. CASE ConnOf(s) # c BY <1>0, <1>2, <2>1, <3>2, <3>4
    <3> QED BY <3>3, <3>4
  <2> QED BY <2>2, <2>3
<1>9. ASSUME NEW r \in Regs, SourceWork(r)
      PROVE pipe' = pipe \/ \E s \in Regs : InPlace(s) /\ Cancel(ConnOf(s))
  <2>0. /\ work[r] \in GoodWork /\ sinks[r] \subseteq Regs
        /\ work[r].at = "cancelSinks" => work[r].todo \subseteq sinks[r]
    BY DEF TypeInv, TypeOK, SourceType, Shape, WorkInv, InHand
  <2>1. pipe' = pipe \/ Evict(r) \/ \E s \in work[r].todo : CancelSink(r, s)
    BY <1>9 DEF SourceWork, ConnectSink, HandleRtmpMessage, DeleteSink, WriteData, SourceDone
  <2>2. ASSUME Evict(r) PROVE \E s \in Regs : InPlace(s) /\ Cancel(ConnOf(s))
    <3>1. PICK s \in Regs : s = work[r].victim BY <2>0, <2>2 DEF Evict, GoodWork
    <3> QED BY <2>2, <3>1 DEF Evict, InPlace
  <2>3. ASSUME NEW s \in work[r].todo, CancelSink(r, s) PROVE \E t \in Regs : InPlace(t) /\ Cancel(ConnOf(t))
    <3>1. s \in sinks[r] /\ s \in Regs BY <2>0, <2>3 DEF CancelSink
    <3> QED BY <2>3, <3>1 DEF CancelSink, InPlace
  <2> QED BY <2>1, <2>2, <2>3
<1>10. ASSUME NEW r \in Regs, SinkRun(r) PROVE pipe' = pipe BY <1>10 DEF SinkRun, SinkDeliver, SinkDone
<1>11. ASSUME UNCHANGED vars PROVE pipe' = pipe BY <1>11 DEF vars
<1> HIDE DEF Quiet
<1>12. CASE Quiet BY <1>12 DEF Quiet
<1>13. ASSUME NEW d \in Conns, Client(d) \/ Handler(d) PROVE Quiet \/ Unregister(d)
  BY <1>1, <1>3, <1>4, <1>6, <1>13 DEF Handler
<1>14. CASE \E d \in Conns : Unregister(d) BY <1>5, <1>12, <1>14
<1>15. CASE \E s \in Regs : InPlace(s) /\ Cancel(ConnOf(s)) BY <1>8, <1>12, <1>15
<1>16. Quiet \/ (\E d \in Conns : Unregister(d)) \/ \E s \in Regs : InPlace(s) /\ Cancel(ConnOf(s))
  BY <1>1, <1>7, <1>9, <1>10, <1>11, <1>13 DEF Next
<1> QED BY <1>12, <1>14, <1>15, <1>16

\* The only source of a key loses it only by its own unregister message.
LEMMA CalmReceiver ==
    ASSUME 1 \in 1 .. MaxCmds, TypeInv, Calm, CalmInv, [Next]_vars, NEW c \in Conns,
           receivers[key[c]] = <<c, 1>>, receivers'[key[c]] # <<c, 1>>
    PROVE pipe # <<>> /\ HandleUnregisterSource(Head(pipe)) /\ Head(pipe) = UnregMsg(c)
          /\ Has(pipe, UnregMsg(c))
<1>1. PICK k \in AnyKey : k = key[c] BY DEF TypeInv, TypeOK, ConnType
<1>2. <<c, 1>> # NoReg BY RegAssumption DEF Conns
<1>3. pipe # <<>> /\ HandleUnregisterSource(Head(pipe)) /\ key[Head(pipe).conn] = k
  BY <1>1, <1>2, ReceiverNext
<1>4. Take(Head(pipe), "unregister_source") BY <1>3 DEF HandleUnregisterSource
<1>5. PICK m \in PadMessage : m = Head(pipe) /\ m.cmd = "unregister_source" /\ m.conn \in Conns
  BY <1>4, TakeFacts
<1>6. PICK d \in Conns : d = m.conn BY <1>5
<1>7. m = UnregMsg(d)
  <2>1. m \in UnregisterMsg BY <1>5 DEF PadMessage, RegisterMsg, DataMsg
  <2> QED BY <1>5, <1>6, <2>1 DEF UnregisterMsg, UnregMsg
<1>8. Has(pipe, UnregMsg(d))
  <2>1. pipe \in Seq(PadMessage) BY DEF TypeInv, TypeOK, PairType
  <2> QED BY <1>3, <1>5, <1>7, <2>1, HasTail
<1>9. receivers[key[d]] = <<d, 1>> BY <1>8 DEF CalmInv, CalmEnd
<1>10. d = c
  <2>1. <<d, 1>> = <<c, 1>> BY <1>1, <1>3, <1>5, <1>6, <1>9
  <2> QED BY <2>1
<1> QED BY <1>3, <1>5, <1>7, <1>8, <1>10

\* What the calm rests on, step by step.
LEMMA CalmNext ==
    ASSUME 1 \in 1 .. MaxCmds, TypeInv, WorkInv, KindInv, SingleInv, CalmInv, [Next]_vars
    PROVE CalmInv'
<1> SUFFICES ASSUME Calm', NEW c \in Conns PROVE CalmPub(c)' /\ CalmEnd(c)' BY DEF CalmInv
<1>0. /\ Calm /\ ~SecondCommand /\ NewKinds /\ PlacedSinks /\ RoleKind
      /\ (\A k \in AnyKey : Registered(k)) /\ CalmPub(c) /\ CalmEnd(c) /\ ~SecondCommand'
      /\ pc \in [Conns -> {"loop", "register", "await", "stop", "cancel", "done"}]
      /\ kind \in [Regs -> {"none", "source", "sink"}] /\ key \in [Conns -> AnyKey]
      /\ receivers \in [AnyKey -> Regs \cup {NoReg}] /\ pipe \in Seq(PadMessage)
      /\ \A d \in Conns : <<d, 1>> \in Regs /\ ConnOf(<<d, 1>>) = d
  BY CalmBack DEF Calm, CalmInv, KindInv, SingleInv, TypeInv, TypeOK, ConnType, PairType, Regs, ConnOf
<1>1. ASSUME kind[<<c, 1>>] = "source"
      PROVE /\ kind'[<<c, 1>>] = "source" /\ key'[c] = key[c] /\ ~Command(c)
            /\ \A s \in Regs : ConnOf(s) = c => ~InPlace(s)
  <2>1. kind'[<<c, 1>>] = "source" BY <1>0, <1>1, KindStays
  <2>2. key'[ConnOf(<<c, 1>>)] = key[ConnOf(<<c, 1>>)] /\ ~Command(ConnOf(<<c, 1>>))
    BY <1>0, <1>1, KeyStays
  <2>3. ASSUME NEW s \in Regs, ConnOf(s) = c, InPlace(s) PROVE FALSE
    <3>1. kind[s] = "sink" BY <1>0, <2>3 DEF PlacedSinks
    <3>2. s = <<c, 1>> BY <1>0, <2>3, <3>1, OneReg
    <3> QED BY <1>1, <3>1, <3>2
  <2> QED BY <1>0, <2>1, <2>2, <2>3
<1>2. ASSUME kind'[<<c, 1>>] = "source", pc'[c] \in {"loop", "stop"} PROVE receivers'[key'[c]] = <<c, 1>>
  <2>1. kind[<<c, 1>>] = "source" BY <1>0, <1>2, FirstKind
  <2>2. CASE pc[c] \in {"loop", "stop"}
    <3>1. receivers[key[c]] = <<c, 1>> BY <1>0, <2>1, <2>2 DEF CalmPub
    <3>2. ~Has(pipe, UnregMsg(c)) BY <1>0, <2>2 DEF CalmEnd
    <3>3. receivers'[key[c]] = <<c, 1>> BY <1>0, <3>1, <3>2, CalmReceiver
    <3> QED BY <1>1, <2>1, <3>3
  <2>3. CASE pc[c] = "await"
    <3>1. /\ pipe # <<>> /\ Head(pipe).conn = c
          /\ \/ HandleRegisterSource(Head(pipe)) \/ HandleRegisterSinkWait(Head(pipe))
             \/ HandleRegisterSink(Head(pipe))
      BY <1>2, <2>3, AwaitNext
    <3>2. ASSUME HandleRegisterSinkWait(Head(pipe)) \/ HandleRegisterSink(Head(pipe)) PROVE FALSE
      <4>1. Take(Head(pipe), "register_sink") BY <3>2 DEF HandleRegisterSinkWait, HandleRegisterSink
      <4>2. PICK m \in PadMessage : m = Head(pipe) /\ m.cmd = "register_sink" BY <4>1, TakeFacts
      <4>3. PICK s \in Regs : m = RegSinkMsg(s) /\ ConnOf(s) = c BY <3>1, <4>2, SinkMsg
      <4>4. InPlace(s) BY <1>0, <3>1, <4>2, <4>3, HasTail DEF InPlace
      <4> QED BY <1>1, <2>1, <4>3, <4>4
    <3>3. HandleRegisterSource(Head(pipe)) BY <3>1, <3>2
    <3>4. PICK r \in Regs : r = RegOf(Head(pipe)) /\ ConnOf(r) = c /\ kind[r] = "source"
      BY <3>1, <3>3, SourceFacts
    <3>5. r = <<c, 1>> BY <1>0, <3>4, OneReg
    <3>6. PICK k \in AnyKey : k = key[c] BY <1>0
    <3>7. receivers[k] = NoReg
      <4> SUFFICES ASSUME receivers[k] # NoReg PROVE FALSE OBVIOUS
      <4>1. PICK q \in Regs : q = receivers[k] BY <1>0
      <4>2. PICK d \in Conns : d = ConnOf(q) BY ConnOfType
      <4>3. kind[q] = "source" /\ key[d] = k /\ pc[d] # "await" BY <1>0, <4>1, <4>2 DEF Registered
      <4>4. q = <<d, 1>> /\ d # c BY <1>0, <2>3, <4>2, <4>3, OneReg
      <4> QED BY <1>0, <2>1, <3>6, <4>3, <4>4 DEF Calm, TwoPublishers
    <3>8. receivers' = [receivers EXCEPT ![k] = r] BY <3>1, <3>3, <3>4, <3>6, <3>7 DEF HandleRegisterSource
    <3> QED BY <1>0, <1>1, <2>1, <3>5, <3>6, <3>8
  <2>4. pc[c] \in {"loop", "stop", "await"}
    <3>1. Register(c) => pc'[c] = "await" BY <1>0 DEF Register
    <3>2. Unregister(c) => pc'[c] = "cancel" BY <1>0 DEF Unregister
    <3>3. CancelSelf(c) => pc'[c] = "done" BY <1>0 DEF CancelSelf
    <3> QED BY <1>1, <1>2, <2>1, <3>1, <3>2, <3>3, PcNext
  <2> QED BY <2>2, <2>3, <2>4
<1>3. ASSUME Has(pipe', UnregMsg(c))
      PROVE /\ Once(pipe', UnregMsg(c)) /\ kind'[<<c, 1>>] = "source"
            /\ pc'[c] \in {"cancel", "done"} /\ receivers'[key'[c]] = <<c, 1>>
  <2>1. CASE Has(pipe, UnregMsg(c))
    <3>1. /\ Once(pipe, UnregMsg(c)) /\ kind[<<c, 1>>] = "source"
          /\ pc[c] \in {"cancel", "done"} /\ receivers[key[c]] = <<c, 1>>
      BY <1>0, <2>1 DEF CalmEnd
    <3>2. Once(pipe', UnregMsg(c))
      <4>1. ~Unregister(c) BY <3>1 DEF Unregister
      <4> QED BY <1>1, <3>1, <4>1, UnregSent
    <3>3. pc'[c] \in {"cancel", "done"}
      <4>1. pc'[c] = pc[c] \/ CancelSelf(c) BY <3>1, PcNext DEF Command, Register, Unregister
      <4>2. CancelSelf(c) => pc'[c] = "done" BY <1>0 DEF CancelSelf
      <4> QED BY <3>1, <4>1, <4>2
    <3>4. receivers'[key[c]] = <<c, 1>>
      <4> SUFFICES ASSUME receivers'[key[c]] # <<c, 1>> PROVE FALSE OBVIOUS
      <4>1. pipe # <<>> /\ HandleUnregisterSource(Head(pipe)) /\ Head(pipe) = UnregMsg(c)
        BY <1>0, <3>1, CalmReceiver
      <4>2. pipe' = Tail(pipe) BY <4>1 DEF HandleUnregisterSource, Take
      <4> QED BY <1>0, <1>3, <3>1, <4>1, <4>2, HasTail
    <3> QED BY <1>1, <3>1, <3>2, <3>3, <3>4
  <2>2. CASE ~Has(pipe, UnregMsg(c))
    <3>1. ASSUME c \in FlvConns, cancelled'[c], NEW s \in Regs, ConnOf(s) = c, InPlace(s) PROVE FALSE
      <4>1. kind[s] = "sink" BY <1>0, <3>1 DEF PlacedSinks
      <4>2. s = <<c, 1>> BY <1>0, <3>1, <4>1, OneReg
      <4>3. kind'[<<c, 1>>] = "sink" BY <1>0, <4>1, <4>2, KindStays
      <4> QED BY <3>1, <4>3 DEF Calm, FlvEndsWithoutSource
    <3>2. /\ Unregister(c) /\ pipe' = Append(pipe, UnregMsg(c))
          /\ c \in FlvConns \/ role[c] = "source"
      BY <1>3, <2>2, <3>1, UnregSent
    <3>3. pc[c] = "stop" /\ pc'[c] = "cancel" /\ UNCHANGED <<key, kind, receivers>>
      BY <1>0, <3>2 DEF Unregister
    <3>4. kind[<<c, 1>>] = "source"
      <4>1. CASE c \in FlvConns BY <3>3, <4>1 DEF Calm, FlvEndsWithoutSource
      <4>2. CASE role[c] = "source"
        <5>1. PICK r \in Regs : ConnOf(r) = c /\ kind[r] = "source" BY <1>0, <4>2 DEF RoleKind, IsA
        <5>2. r = <<c, 1>> BY <1>0, <5>1, OneReg
        <5> QED BY <5>1, <5>2
      <4> QED BY <3>2, <4>1, <4>2
    <3>5. receivers[key[c]] = <<c, 1>> BY <1>0, <3>3, <3>4 DEF CalmPub
    <3>6. Once(pipe', UnregMsg(c))
      <4>1. Once(pipe, UnregMsg(c)) BY <2>2 DEF Has, Once
      <4>2. UnregMsg(c) \in PadMessage BY UnregisterMsgType DEF UnregMsg
      <4> QED BY <1>0, <2>2, <3>2, <4>1, <4>2, HasAppend
    <3> QED BY <3>3, <3>4, <3>5, <3>6
  <2> QED BY <2>1, <2>2
<1> QED BY <1>2, <1>3 DEF CalmPub, CalmEnd

\* With no cause there is a source to unregister.
LEMMA SourcePanics ==
    ASSUME 1 \in 1 .. MaxCmds, TypeInv, CalmInv, pipe # <<>>, HandleUnregisterSource(Head(pipe)),
           receivers[key[Head(pipe).conn]] = NoReg
    PROVE (SecondCommand \/ TwoPublishers \/ FlvEndsWithoutSource)'
<1>1. Take(Head(pipe), "unregister_source") BY DEF HandleUnregisterSource
<1>2. PICK m \in PadMessage : m = Head(pipe) /\ m.cmd = "unregister_source" /\ m.conn \in Conns
  BY <1>1, TakeFacts
<1>3. PICK d \in Conns : d = m.conn BY <1>2
<1>4. m = UnregMsg(d)
  <2>1. m \in UnregisterMsg BY <1>2 DEF PadMessage, RegisterMsg, DataMsg
  <2> QED BY <1>2, <1>3, <2>1 DEF UnregisterMsg, UnregMsg
<1>5. Has(pipe, UnregMsg(d))
  <2>1. pipe \in Seq(PadMessage) BY DEF TypeInv, TypeOK, PairType
  <2> QED BY <1>2, <1>4, <2>1, HasTail
<1>6. ASSUME Calm PROVE FALSE
  <2>1. receivers[key[d]] = <<d, 1>> /\ kind[<<d, 1>>] = "source" BY <1>5, <1>6 DEF CalmInv, CalmEnd
  <2>2. <<d, 1>> # NoReg BY RegAssumption DEF Conns
  <2> QED BY <1>2, <1>3, <2>1, <2>2
<1>7. UNCHANGED <<cmds, key, kind, cancelled, pc>> BY DEF HandleUnregisterSource
<1> QED BY <1>6, <1>7 DEF Calm, SecondCommand, TwoPublishers, FlvEndsWithoutSource

\* The invariant of the panics.
PanicInv == KeyBase /\ CalmInv /\ PanicHasACause

\* It holds at first and every step keeps it.
LEMMA PanicInductive ==
    ASSUME 1 \in 1 .. MaxCmds
    PROVE (Init => PanicInv) /\ (PanicInv /\ [Next]_vars => PanicInv')
<1>1. Init => CalmInv
  <2> SUFFICES ASSUME Init, NEW c \in Conns PROVE CalmPub(c) /\ CalmEnd(c) BY DEF CalmInv
  <2>1. <<c, 1>> \in Regs BY DEF Regs
  <2> QED BY <2>1 DEF Init, CalmPub, CalmEnd, Has
<1>2. Init => PanicHasACause BY DEF Init, PanicHasACause
<1>3. Init => PanicInv BY <1>1, <1>2, KeyBaseInductive DEF PanicInv
<1>4. ASSUME PanicInv, [Next]_vars PROVE PanicInv'
  <2>1. TypeInv /\ PlaceInv /\ WorkInv /\ KindInv /\ SingleInv /\ CalmInv /\ PanicHasACause /\ KeyBase
    BY <1>4 DEF PanicInv, KeyBase, BaseInv
  <2>2. KeyBase' BY <1>4, <2>1, KeyBaseInductive
  <2>3. CalmInv' BY <1>4, <2>1, CalmNext
  <2>4. PanicHasACause'
    <3>1. CASE panicked' # panicked
      <4>1. panicked' \in {"has waited", "repeater register"} => SecondCommand'
        BY <1>4, <2>1, <3>1, SinkPanics
      <4>2. panicked' = "source not registerd" => (SecondCommand \/ TwoPublishers \/ FlvEndsWithoutSource)'
        BY <1>4, <2>1, <3>1, PanicNext, SourcePanics
      <4> QED BY <4>1, <4>2 DEF PanicHasACause
    <3>2. CASE panicked' = panicked /\ panicked = "none" BY <3>2 DEF PanicHasACause
    <3>3. CASE panicked # "none"
      <4>1. UNCHANGED <<cmds, key, kind, cancelled, pc, panicked>> BY <1>4, <3>3 DEF Next, Running, vars
      <4> QED BY <2>1, <4>1 DEF PanicHasACause, SecondCommand, TwoPublishers, FlvEndsWithoutSource
    <3> QED BY <3>1, <3>2, <3>3
  <2> QED BY <2>2, <2>3, <2>4 DEF PanicInv
<1> QED BY <1>3, <1>4

\* pairPad and the sources never panic unless a connection gives a second
\* stream command, two connections publish one key, or a flv connection that is
\* no publisher ends, wherever the handlers and the goroutines are.  A
\* connection can give at least one command.
THEOREM PanicsHaveACause ==
    ASSUME MaxCmds >= 1
    PROVE Spec => []PanicHasACause
<1>1. 1 \in 1 .. MaxCmds BY BoundAssumption
<1>2. (Init => PanicInv) /\ (PanicInv /\ [Next]_vars => PanicInv') BY <1>1, PanicInductive
<1>3. PanicInv => PanicHasACause BY DEF PanicInv
<1> QED BY <1>2, <1>3, PTL DEF Spec
=============================================================================
