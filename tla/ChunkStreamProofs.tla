------------------------- MODULE ChunkStreamProofs -------------------------
(***************************************************************************)
(* The invariants of ChunkStream, for the repository's own packer.         *)
(*                                                                         *)
(* The invariant follows the receiver into the future.  A view is what the *)
(* receiver depends on: its chunk size, the message it is in the middle of *)
(* and the header it remembers of every chunk stream.  Every chunk under   *)
(* way can be read in the view that the chunks before it lead to: those on *)
(* the wire lead from the receiver as it is to a view between two          *)
(* messages, and from there each goroutine's buffer leads to a view that   *)
(* agrees with what the packer remembers of that goroutine's chunk         *)
(* streams.                                                                *)
(***************************************************************************)
EXTENDS ChunkStream, TLAPS

(***************************************************************************)
(* Chunks and views.                                                       *)
(***************************************************************************)
Units == Nat \X Nat
Headers == [timestamp : Int, messageLength : Int, messageTypeID : Int,
            timeDelta : Int, messageStreamID : Int]
Chunks == [id : Nat, fmt : 0 .. 3, csid : Csids, ts24 : Nat, ext : Int,
           len : Nat, type : Nat, sid : Nat, data : Seq(Units)]

\* The sizes in which every announcement is one chunk.
FitSizes == {n \in Nat \ {0} : \A m \in Announcements : m.len <= n}

Shapes == [known : BOOLEAN, len : Int, type : Int, sid : Int, clock : Nat]
Views == [size : FitSizes, id : Nat, pos : Nat, strm : [Csids -> Shapes]]

\* The units of a piece lie behind that many others of its message.
Off(d) == d[1][2] - 1

\* d is a piece of message id, of length len.
IsPiece(d, id, len) ==
    /\ d \in Seq(Units) /\ Len(d) > 0
    /\ \A k \in 1 .. Len(d) : d[k] = <<id, Off(d) + k>>
    /\ Off(d) \in Nat /\ Off(d) + Len(d) <= len

\* The chunk c is of a message of z, the messages sent.
Valid(z, c) ==
    /\ c \in Chunks
    /\ c.id \in 1 .. Len(z)
    /\ c.len = z[c.id].len /\ c.type = z[c.id].type /\ c.sid = z[c.id].sid
    /\ c.csid = CsidOf(c.type)
    /\ IsPiece(c.data, c.id, c.len)
    /\ c.type = 1 => Off(c.data) = 0 /\ Len(c.data) = c.len
    /\ c.ext = NoExt /\ c.ts24 < Limit24

\* The view in which c is read as what it is.
CanRead(z, v, c) ==
    /\ Valid(z, c)
    /\ Off(c.data) = v.pos /\ (v.pos > 0 => v.id = c.id)
    /\ Len(c.data) = IF c.len - v.pos > v.size THEN v.size ELSE c.len - v.pos
    /\ v.pos = 0 /\ c.fmt # 0 =>
         v.strm[c.csid].known /\ v.strm[c.csid].sid = c.sid
    /\ v.pos = 0 /\ c.fmt > 1 =>
         v.strm[c.csid].len = c.len /\ v.strm[c.csid].type = c.type

Completes(c) == Off(c.data) + Len(c.data) = c.len

\* The receiver's clock of a chunk stream after the first chunk of a message.
ClockAfter(clock, c) ==
    IF c.fmt = 0 THEN c.ts24
    ELSE IF c.fmt = 3 THEN clock ELSE (clock + c.ts24) % Wrap32

AfterRead(z, v, c) ==
    [size |-> IF c.type = 1 THEN z[c.id].size ELSE v.size,
     id |-> IF Completes(c) THEN 0 ELSE c.id,
     pos |-> IF Completes(c) THEN 0 ELSE Off(c.data) + Len(c.data),
     strm |-> IF v.pos > 0 THEN v.strm
              ELSE [v.strm EXCEPT ![c.csid] =
                      [known |-> TRUE, len |-> c.len, type |-> c.type, sid |-> c.sid,
                       clock |-> ClockAfter(v.strm[c.csid].clock, c)]]]

\* Reading the chunks s one after the other leads from view v to view u.
Chain(z, v, s, u) ==
    \E f \in [0 .. Len(s) -> Views] :
        /\ f[0] = v /\ f[Len(s)] = u
        /\ \A i \in 1 .. Len(s) :
             CanRead(z, f[i - 1], s[i]) /\ f[i] = AfterRead(z, f[i - 1], s[i])

(***************************************************************************)
(* The invariant.                                                          *)
(***************************************************************************)
Streams == [hdr : Headers, remain : Int, known : BOOLEAN]
Collectors == [known : BOOLEAN, collecting : BOOLEAN, remain : Int, hdr : Headers,
               data : Seq(Units)]
Jobs == [id : Nat, hdr : Headers, csid : Nat, todo : Seq(Seq(Units))]

TypeOK ==
    /\ sendChunkSize \in FitSizes /\ chunkSize \in FitSizes
    /\ sendStreams \in [Csids -> Streams] /\ streams \in [Csids -> Streams]
    /\ collector \in [Sids -> Collectors]
    /\ job \in [Writers -> Jobs] /\ buf \in [Writers -> Seq(Chunks)]
    /\ wire \in Seq(Chunks)
    /\ sent \in Seq(Messages)
    /\ got \in Seq([done : BOOLEAN, hdr : Headers, data : Seq(Units)])
    /\ base \in [Csids -> Nat]
    /\ \A c \in Csids : streams[c].hdr.timestamp \in Nat

\* What was begun comes from a goroutine of this side.
SentInv ==
    \A i \in 1 .. Len(sent) :
        /\ \E w \in side : sent[i] \in Offers[w]
        /\ sent[i].len > 0 /\ Accepted(sent[i])

HasShape(h, m) ==
    /\ h.messageLength = m.len /\ h.messageTypeID = m.type
    /\ h.messageStreamID = m.sid

\* The receiver's variables as the view r.
ShapeOf(cs) ==
    [known |-> cs.known, len |-> cs.hdr.messageLength, type |-> cs.hdr.messageTypeID,
     sid |-> cs.hdr.messageStreamID, clock |-> cs.hdr.timestamp]
Idle(k) == ~k.collecting /\ k.data = <<>>
Collecting(k, m, id, pos) ==
    /\ k.known /\ k.collecting /\ k.remain = m.len - pos /\ HasShape(k.hdr, m)
    /\ IsPiece(k.data, id, m.len) /\ Off(k.data) = 0 /\ Len(k.data) = pos
Between(r) ==
    /\ r.id = 0
    /\ \A c \in Csids : streams[c].remain = 0
    /\ \A s \in Sids : Idle(collector[s])
Within(r, m) ==
    /\ r.id \in 1 .. Len(sent) /\ r.pos < m.len
    /\ \A c \in Csids :
         streams[c].remain = IF c = CsidOf(m.type) THEN m.len - r.pos ELSE 0
    /\ streams[CsidOf(m.type)].known /\ HasShape(streams[CsidOf(m.type)].hdr, m)
    /\ \A s \in Sids \ {m.sid} : Idle(collector[s])
    /\ Collecting(collector[m.sid], m, r.id, r.pos)
Seen(r) ==
    /\ r.size = chunkSize
    /\ \A c \in Csids : r.strm[c] = ShapeOf(streams[c])
    /\ \A c \in Csids : streams[c].known =>
         /\ streams[c].hdr.messageStreamID \in Sids
         /\ collector[streams[c].hdr.messageStreamID].known
    /\ r.pos = 0 => Between(r)
    /\ r.pos > 0 => Within(r, sent[r.id])

\* The rest t of a message cut in chunks of that size.
Cut(t, id, len, size) ==
    /\ t # <<>>
    /\ \A i \in 1 .. Len(t) :
         /\ IsPiece(t[i], id, len)
         /\ Len(t[i]) = IF len - Off(t[i]) > size THEN size ELSE len - Off(t[i])
    /\ \A i \in 1 .. Len(t) - 1 : Off(t[i + 1]) = Off(t[i]) + Len(t[i])
    /\ Off(t[Len(t)]) + Len(t[Len(t)]) = len

\* In the middle of a message the packer writes headers of type 3, or of type
\* 0 if it is a protocol control message, and learns nothing new.
Midway(j, cs, t) ==
    /\ cs.known /\ cs.hdr.messageStreamID = j.hdr.messageStreamID
    /\ SameShape(j.hdr, cs.hdr)
    /\ IF IsProtoCtrlMsg(j) THEN cs.hdr = j.hdr /\ j.hdr.timeDelta = 0 /\ t = j.hdr.timestamp
       ELSE cs.hdr.timestamp = j.hdr.timestamp \/ cs.hdr.timeDelta = TimeDelta(j, cs)

JobInv(j, m, w) ==
    /\ j.id \in 1 .. Len(sent) /\ m \in Offers[w]
    /\ HasShape(j.hdr, m) /\ j.hdr.timestamp = m.ts /\ j.csid = CsidOf(m.type)
    /\ Cut(j.todo, j.id, m.len, sendChunkSize)
    /\ \A i \in 1 .. Len(sent) : CsidOf(sent[i].type) = j.csid => sent[i].ts <= m.ts
    /\ m.type = 1 => /\ m.size = sendChunkSize
                     /\ Off(j.todo[1]) = 0 /\ Len(j.todo[1]) = m.len
    /\ Off(j.todo[1]) = 0 => j.hdr.timeDelta = 0
    /\ Off(j.todo[1]) > 0 => Midway(j, sendStreams[j.csid], base[j.csid])

\* The receiver will remember of a chunk stream what the packer does, and its
\* clock will be behind by the stream's base.
Agrees(s, cs, t) ==
    /\ s.known = cs.known
    /\ cs.known => /\ s.len = cs.hdr.messageLength /\ s.type = cs.hdr.messageTypeID
                   /\ s.sid = cs.hdr.messageStreamID
                   /\ s.clock + t = cs.hdr.timestamp

\* The buffer of w leads from m, where the wire ends, to b.
Ready(w, m, b) ==
    /\ \A i \in 1 .. Len(buf[w]) : buf[w][i].csid \in CsidsOf(w)
    /\ \A c \in Csids \ CsidsOf(w) : b.strm[c] = m.strm[c]
    /\ (\A i \in 1 .. Len(buf[w]) : buf[w][i].type # 1) => b.size = m.size
    /\ (\A v \in side \ {w} : ~Announcing(v)) /\ job[w].hdr.messageTypeID # 1 =>
         b.size = sendChunkSize
    /\ \A c \in CsidsOf(w) : Agrees(b.strm[c], sendStreams[c], base[c])
    /\ job[w] = NoJob => b.pos = 0 /\ b.id = 0
    /\ job[w] # NoJob =>
         /\ JobInv(job[w], sent[job[w].id], w)
         /\ b.pos = Off(job[w].todo[1]) /\ b.id = IF b.pos = 0 THEN 0 ELSE job[w].id

PackerInv ==
    /\ \A c \in Csids : sendStreams[c].known =>
         /\ \E w \in side : c \in CsidsOf(w)
         /\ \E i \in 1 .. Len(sent) :
              CsidOf(sent[i].type) = c /\ sent[i].ts = sendStreams[c].hdr.timestamp
    /\ \A v, w \in side : v # w /\ Announcing(v) => job[w] = NoJob /\ buf[w] = <<>>

\* A message is in one place: delivered, on the wire, or with its goroutine.
FinalIds(s) == {s[i].id : i \in {k \in 1 .. Len(s) : Completes(s[k])}}
OnceEach(s) ==
    \A i, j \in 1 .. Len(s) :
        Completes(s[i]) /\ Completes(s[j]) /\ s[i].id = s[j].id => i = j
IdOf(g) == g.data[1][1]
GotIds == {IdOf(got[i]) : i \in 1 .. Len(got)}
Held(w) == FinalIds(buf[w]) \cup (IF job[w] = NoJob THEN {} ELSE {job[w].id})
OnePlace ==
    /\ OnceEach(wire) /\ \A w \in side : OnceEach(buf[w])
    /\ \A w \in side : job[w] # NoJob => job[w].id \notin FinalIds(buf[w])
    /\ \A i, j \in 1 .. Len(got) : IdOf(got[i]) = IdOf(got[j]) => i = j
    /\ GotIds \cap FinalIds(wire) = {}
    /\ \A w \in side : Held(w) \cap (GotIds \cup FinalIds(wire)) = {}
    /\ \A v, w \in side : v # w => Held(v) \cap Held(w) = {}
    /\ 1 .. Len(sent) = GotIds \cup FinalIds(wire) \cup UNION {Held(w) : w \in side}

GotInv == \A i \in 1 .. Len(got) :
    IdOf(got[i]) \in 1 .. Len(sent) /\ IsMessage(got[i], IdOf(got[i]))

Follows(r, m) ==
    /\ Seen(r) /\ Chain(sent, r, wire, m) /\ m.pos = 0 /\ m.id = 0
    /\ \A w \in side : \E b \in Views : Chain(sent, m, buf[w], b) /\ Ready(w, m, b)

OwnInv ==
    /\ reader = "ok" /\ TypeOK /\ SentInv /\ GotInv /\ OnePlace /\ PackerInv
    /\ \E r, m \in Views : Follows(r, m)

ChunkInv == side \in Sides /\ (OwnSide => OwnInv)

\* Nothing to read leads nowhere.
LEMMA ChainNone ==
    ASSUME NEW z, NEW v \in Views
    PROVE  Chain(z, v, <<>>, v)
<1> DEFINE f == [i \in 0 .. 0 |-> v]
<1>1. Len(<<>>) = 0 /\ f \in [0 .. 0 -> Views] /\ f[0] = v OBVIOUS
<1> HIDE DEF f
<1>2. f \in [0 .. Len(<<>>) -> Views] /\ f[Len(<<>>)] = v /\ 1 .. Len(<<>>) = {}
  BY <1>1
<1> QED BY <1>1, <1>2 DEF Chain

\* A chain over nothing stays where it is.
LEMMA ChainEmpty ==
    ASSUME NEW z, NEW v, NEW u, Chain(z, v, <<>>, u)
    PROVE  v = u /\ v \in Views
BY DEF Chain

\* The first chunk of a chain can be read, and the rest follows.
LEMMA ChainHead ==
    ASSUME NEW z, NEW v, NEW u, NEW s \in Seq(Chunks), s # <<>>, Chain(z, v, s, u)
    PROVE  /\ v \in Views /\ CanRead(z, v, Head(s))
           /\ AfterRead(z, v, Head(s)) \in Views
           /\ Chain(z, AfterRead(z, v, Head(s)), Tail(s), u)
<1>1. PICK f \in [0 .. Len(s) -> Views] :
        /\ f[0] = v /\ f[Len(s)] = u
        /\ \A i \in 1 .. Len(s) :
             CanRead(z, f[i - 1], s[i]) /\ f[i] = AfterRead(z, f[i - 1], s[i])
  BY DEF Chain
<1>2. /\ Len(s) \in Nat /\ Len(s) > 0 /\ Len(Tail(s)) = Len(s) - 1 /\ Head(s) = s[1]
      /\ \A i \in 1 .. Len(Tail(s)) : Tail(s)[i] = s[i + 1]
  OBVIOUS
<1>3. CanRead(z, v, Head(s)) /\ f[1] = AfterRead(z, v, Head(s))
  BY <1>1, <1>2
<1> DEFINE g == [i \in 0 .. Len(Tail(s)) |-> f[i + 1]]
<1>4. /\ g \in [0 .. Len(Tail(s)) -> Views] /\ g[0] = AfterRead(z, v, Head(s))
      /\ g[Len(Tail(s))] = u
  BY <1>1, <1>2, <1>3
<1>5. ASSUME NEW i \in 1 .. Len(Tail(s))
      PROVE  CanRead(z, g[i - 1], Tail(s)[i]) /\ g[i] = AfterRead(z, g[i - 1], Tail(s)[i])
  <2>1. i + 1 \in 1 .. Len(s) /\ i - 1 \in 0 .. Len(Tail(s)) /\ (i + 1) - 1 = i
    BY <1>2
  <2>2. g[i] = f[i + 1] /\ g[i - 1] = f[i] /\ Tail(s)[i] = s[i + 1]
    BY <1>2, <2>1
  <2> QED BY <1>1, <2>1, <2>2
<1>6. Chain(z, AfterRead(z, v, Head(s)), Tail(s), u)
  BY <1>4, <1>5 DEF Chain
<1>7. v \in Views /\ AfterRead(z, v, Head(s)) \in Views
  BY <1>1, <1>2, <1>3
<1> QED BY <1>3, <1>6, <1>7

\* A chunk that can be read at the end of a chain prolongs it.
LEMMA ChainAppend ==
    ASSUME NEW z, NEW v, NEW u, NEW s \in Seq(Chunks), NEW c \in Chunks, Chain(z, v, s, u),
           CanRead(z, u, c), AfterRead(z, u, c) \in Views
    PROVE  Chain(z, v, Append(s, c), AfterRead(z, u, c))
<1>1. PICK f \in [0 .. Len(s) -> Views] :
        /\ f[0] = v /\ f[Len(s)] = u
        /\ \A i \in 1 .. Len(s) :
             CanRead(z, f[i - 1], s[i]) /\ f[i] = AfterRead(z, f[i - 1], s[i])
  BY DEF Chain
<1> DEFINE t == Append(s, c)
           n == Len(s) + 1
           g == [i \in 0 .. n |-> IF i = n THEN AfterRead(z, u, c) ELSE f[i]]
<1>2. /\ Len(s) \in Nat /\ Len(t) = n /\ t[n] = c
      /\ \A i \in 1 .. Len(s) : t[i] = s[i]
  OBVIOUS
<1> HIDE DEF t
<1>3. g \in [0 .. n -> Views] /\ g[0] = v /\ g[n] = AfterRead(z, u, c)
  BY <1>1, <1>2
<1>4. ASSUME NEW i \in 1 .. n
      PROVE  CanRead(z, g[i - 1], t[i]) /\ g[i] = AfterRead(z, g[i - 1], t[i])
  <2>1. CASE i = n
    <3>1. g[i - 1] = u BY <1>1, <1>2, <2>1
    <3> QED BY <1>2, <1>3, <2>1, <3>1
  <2>2. CASE i # n
    <3>1. i \in 1 .. Len(s) /\ g[i - 1] = f[i - 1] /\ g[i] = f[i] /\ t[i] = s[i]
      BY <1>2, <2>2
    <3> QED BY <1>1, <3>1
  <2> QED BY <2>1, <2>2
<1>5. Chain(z, v, t, AfterRead(z, u, c))
  BY <1>2, <1>3, <1>4 DEF Chain
<1> QED BY <1>5 DEF t

\* Two chains make one.
LEMMA ChainConcat ==
    ASSUME NEW z, NEW v, NEW u, NEW x, NEW s \in Seq(Chunks), NEW t \in Seq(Chunks),
           Chain(z, v, s, u), Chain(z, u, t, x)
    PROVE  Chain(z, v, s \o t, x)
<1>1. PICK f \in [0 .. Len(s) -> Views] :
        /\ f[0] = v /\ f[Len(s)] = u
        /\ \A i \in 1 .. Len(s) :
             CanRead(z, f[i - 1], s[i]) /\ f[i] = AfterRead(z, f[i - 1], s[i])
  BY DEF Chain
<1>2. PICK g \in [0 .. Len(t) -> Views] :
        /\ g[0] = u /\ g[Len(t)] = x
        /\ \A i \in 1 .. Len(t) :
             CanRead(z, g[i - 1], t[i]) /\ g[i] = AfterRead(z, g[i - 1], t[i])
  BY DEF Chain
<1> DEFINE st == s \o t
           n == Len(s)
           h == [i \in 0 .. n + Len(t) |-> IF i <= n THEN f[i] ELSE g[i - n]]
<1>3. /\ n \in Nat /\ Len(t) \in Nat /\ Len(st) = n + Len(t)
      /\ \A i \in 1 .. n : st[i] = s[i]
      /\ \A i \in n + 1 .. n + Len(t) : st[i] = t[i - n]
  OBVIOUS
<1> HIDE DEF st
<1>4. /\ h \in [0 .. n + Len(t) -> Views] /\ h[0] = v
      /\ \A i \in n .. n + Len(t) : h[i] = g[i - n]
      /\ \A i \in 0 .. n : h[i] = f[i]
  BY <1>1, <1>2, <1>3
<1> HIDE DEF h
<1>5. h[n + Len(t)] = x
  BY <1>2, <1>3, <1>4
<1>6. ASSUME NEW i \in 1 .. n + Len(t)
      PROVE  CanRead(z, h[i - 1], st[i]) /\ h[i] = AfterRead(z, h[i - 1], st[i])
  <2>1. CASE i <= n
    <3>1. i \in 1 .. n /\ h[i - 1] = f[i - 1] /\ h[i] = f[i] /\ st[i] = s[i]
      BY <1>3, <1>4, <2>1
    <3> QED BY <1>1, <3>1
  <2>2. CASE i > n
    <3>1. /\ i - n \in 1 .. Len(t) /\ h[i - 1] = g[(i - n) - 1]
          /\ h[i] = g[i - n] /\ st[i] = t[i - n]
      <4>1. i - 1 \in n .. n + Len(t) /\ (i - 1) - n = (i - n) - 1 BY <1>3, <2>2
      <4>2. i \in n .. n + Len(t) /\ i \in n + 1 .. n + Len(t) BY <1>3, <2>2
      <4>3. h[i - 1] = g[(i - 1) - n] BY <1>4, <4>1
      <4>4. i - n \in 1 .. Len(t) BY <1>3, <2>2
      <4> QED BY <1>3, <1>4, <4>1, <4>2, <4>3, <4>4
    <3> QED BY <1>2, <3>1
  <2> QED BY <1>3, <2>1, <2>2
<1>7. Chain(z, v, st, x)
  BY <1>3, <1>4, <1>5, <1>6 DEF Chain
<1> QED BY <1>7 DEF st

\* A view depends on the messages sent only by those that are under way.
LEMMA ReadGrows ==
    ASSUME NEW z \in Seq(Messages), NEW m \in Messages, NEW v, NEW c, CanRead(z, v, c)
    PROVE  /\ CanRead(Append(z, m), v, c)
           /\ AfterRead(Append(z, m), v, c) = AfterRead(z, v, c)
<1>1. c.id \in 1 .. Len(z) BY DEF CanRead, Valid
<1> DEFINE y == Append(z, m)
<1>2. y[c.id] = z[c.id] /\ c.id \in 1 .. Len(y) BY <1>1
<1> HIDE DEF y
<1>3. CanRead(y, v, c) BY <1>2 DEF CanRead, Valid
<1>4. AfterRead(y, v, c) = AfterRead(z, v, c) BY <1>2 DEF AfterRead
<1> QED BY <1>3, <1>4 DEF y

\* A chain stays one when another message is begun.
LEMMA ChainGrows ==
    ASSUME NEW z \in Seq(Messages), NEW m \in Messages, NEW v, NEW u, NEW s,
           Chain(z, v, s, u)
    PROVE  Chain(Append(z, m), v, s, u)
<1>1. PICK f \in [0 .. Len(s) -> Views] :
        /\ f[0] = v /\ f[Len(s)] = u
        /\ \A i \in 1 .. Len(s) :
             CanRead(z, f[i - 1], s[i]) /\ f[i] = AfterRead(z, f[i - 1], s[i])
  BY DEF Chain
<1> DEFINE y == Append(z, m)
<1>2. \A i \in 1 .. Len(s) :
        CanRead(y, f[i - 1], s[i]) /\ f[i] = AfterRead(y, f[i - 1], s[i])
  BY <1>1, ReadGrows
<1> HIDE DEF y
<1>3. Chain(y, v, s, u) BY <1>1, <1>2 DEF Chain
<1> QED BY <1>3 DEF y

\* The view x on the chunk streams C, and v on the others.
Mix(x, v, C) ==
    [size |-> x.size, id |-> x.id, pos |-> x.pos,
     strm |-> [c \in Csids |-> IF c \in C THEN x.strm[c] ELSE v.strm[c]]]

\* A chunk of a stream of C is read in a view of those streams as before, and
\* the others play no part.
LEMMA ReadMixed ==
    ASSUME NEW z, NEW x \in Views, NEW v \in Views, NEW C, NEW c,
           CanRead(z, x, c), c.csid \in C
    PROVE  /\ CanRead(z, Mix(x, v, C), c)
           /\ AfterRead(z, Mix(x, v, C), c) = Mix(AfterRead(z, x, c), v, C)
<1> DEFINE y == Mix(x, v, C)
<1>1. /\ y.size = x.size /\ y.id = x.id /\ y.pos = x.pos
      /\ y.strm = [d \in Csids |-> IF d \in C THEN x.strm[d] ELSE v.strm[d]]
  BY DEF Mix
<1>2. c.csid \in Csids BY DEF CanRead, Valid, Chunks
<1>3. y.strm[c.csid] = x.strm[c.csid] BY <1>1, <1>2
<1> HIDE DEF y
<1>4. CanRead(z, y, c) BY <1>1, <1>3 DEF CanRead
<1> DEFINE shape == [known |-> TRUE, len |-> c.len, type |-> c.type, sid |-> c.sid,
                     clock |-> ClockAfter(x.strm[c.csid].clock, c)]
<1> HIDE DEF shape
<1>6. x.strm \in [Csids -> Shapes] BY DEF Views
<1>5. [y.strm EXCEPT ![c.csid] = shape]
        = [d \in Csids |-> IF d \in C THEN [x.strm EXCEPT ![c.csid] = shape][d] ELSE v.strm[d]]
  BY <1>1, <1>2, <1>6
<1>7. AfterRead(z, y, c) = Mix(AfterRead(z, x, c), v, C)
  BY <1>1, <1>3, <1>5 DEF AfterRead, Mix, shape
<1> QED BY <1>4, <1>7 DEF y

\* The mixture of two views is one.
LEMMA MixView ==
    ASSUME NEW x \in Views, NEW v \in Views, NEW C
    PROVE  Mix(x, v, C) \in Views
BY DEF Mix, Views

\* The chunks of the streams C lead from any view that is the same on C to one
\* that is the same on C.
LEMMA ChainFrame ==
    ASSUME NEW z, NEW a, NEW b, NEW s \in Seq(Chunks), NEW C, NEW v \in Views,
           Chain(z, a, s, b),
           \A i \in 1 .. Len(s) : s[i].csid \in C,
           v.size = a.size, v.id = a.id, v.pos = a.pos,
           \A c \in Csids \cap C : v.strm[c] = a.strm[c]
    PROVE  Chain(z, v, s, Mix(b, v, C)) /\ Mix(b, v, C) \in Views
<1>1. PICK f \in [0 .. Len(s) -> Views] :
        /\ f[0] = a /\ f[Len(s)] = b
        /\ \A i \in 1 .. Len(s) :
             CanRead(z, f[i - 1], s[i]) /\ f[i] = AfterRead(z, f[i - 1], s[i])
  BY DEF Chain
<1>2. Len(s) \in Nat OBVIOUS
<1> DEFINE g == [i \in 0 .. Len(s) |-> Mix(f[i], v, C)]
<1>3. g \in [0 .. Len(s) -> Views] BY <1>1, MixView
<1>4. Mix(a, v, C) = v
  <2>1. a \in Views BY <1>1, <1>2
  <2> QED BY <2>1 DEF Mix, Views
<1>5. g[0] = v /\ g[Len(s)] = Mix(b, v, C) BY <1>1, <1>2, <1>4
<1>6. ASSUME NEW i \in 1 .. Len(s)
      PROVE  CanRead(z, g[i - 1], s[i]) /\ g[i] = AfterRead(z, g[i - 1], s[i])
  <2>1. i - 1 \in 0 .. Len(s) /\ i \in 0 .. Len(s) BY <1>2
  <2>2. g[i - 1] = Mix(f[i - 1], v, C) /\ g[i] = Mix(f[i], v, C) BY <2>1
  <2>3. f[i - 1] \in Views BY <1>1, <2>1
  <2> QED BY <1>1, <2>2, <2>3, ReadMixed
<1> HIDE DEF g
<1>7. Chain(z, v, s, Mix(b, v, C)) BY <1>3, <1>5, <1>6 DEF Chain
<1>8. Mix(b, v, C) \in Views BY <1>1, <1>2, MixView
<1> QED BY <1>7, <1>8

\* A view is still one after a chunk.
LEMMA ReadView ==
    ASSUME NEW z, NEW v \in Views, NEW c, CanRead(z, v, c),
           c.type = 1 => z[c.id].size \in FitSizes
    PROVE  AfterRead(z, v, c) \in Views
<1>1. /\ c \in Chunks /\ Off(c.data) \in Nat /\ Len(c.data) \in Nat
      /\ c.csid \in Csids /\ c.ts24 \in Nat
  BY DEF CanRead, Valid, IsPiece, Chunks
<1>2. ClockAfter(v.strm[c.csid].clock, c) \in Nat
  BY <1>1, SizeAssumption DEF ClockAfter, Views, Shapes
<1>3. [known |-> TRUE, len |-> c.len, type |-> c.type, sid |-> c.sid,
       clock |-> ClockAfter(v.strm[c.csid].clock, c)] \in Shapes
  BY <1>1, <1>2 DEF Shapes, Chunks
<1> QED BY <1>1, <1>3 DEF AfterRead, Views, Chunks

(***************************************************************************)
(* The receiver.                                                           *)
(***************************************************************************)
\* Timestamps stay numbers.
LEMMA WrapNat == ASSUME NEW n \in Nat PROVE n % Wrap32 \in Nat
<1>1. Wrap32 \in Nat /\ Wrap32 > 0 BY SizeAssumption
<1> QED BY <1>1

\* The header a message starts with is completed to the message's own, from
\* what the chunk stream remembers.
LEMMA StartFacts ==
    ASSUME NEW r \in Views, NEW c, CanRead(sent, r, c), r.pos = 0,
           NEW cs \in Streams, r.strm[c.csid] = ShapeOf(cs), cs.hdr.timestamp \in Nat
    PROVE  /\ StartHeader(c, cs) \in Headers
           /\ HasShape(StartHeader(c, cs), c)
           /\ StartHeader(c, cs).timestamp = ClockAfter(cs.hdr.timestamp, c)
           /\ StartHeader(c, cs).timestamp \in Nat
<1>1. /\ c.fmt \in 0 .. 3 /\ c.len \in Nat /\ c.type \in Nat /\ c.sid \in Nat
      /\ c.ts24 \in Nat /\ c.ts24 < Limit24
  BY DEF CanRead, Valid, Chunks
<1>2. Stamp(c) = c.ts24 BY <1>1, SizeAssumption DEF Stamp, ExpectsExt
<1>3. c.fmt # 0 => cs.known /\ cs.hdr.messageStreamID = c.sid
  BY DEF CanRead, ShapeOf
<1>4. c.fmt > 1 => cs.hdr.messageLength = c.len /\ cs.hdr.messageTypeID = c.type
  BY DEF CanRead, ShapeOf
<1>5. (cs.hdr.timestamp + c.ts24) % Wrap32 \in Nat
  <2>1. cs.hdr.timestamp + c.ts24 \in Nat BY <1>1
  <2> QED BY <2>1, WrapNat
<1>6. cs.hdr \in Headers BY DEF Streams
<1> USE <1>1, <1>2, <1>3, <1>4, <1>5, <1>6
    DEF StartHeader, ReadHeader, Header, HasShape, ClockAfter, Headers
<1>7. CASE c.fmt = 0 BY <1>7
<1>8. CASE c.fmt = 1 BY <1>8
<1>9. CASE c.fmt = 2 BY <1>9
<1>10. CASE c.fmt = 3 BY <1>10
<1> QED BY <1>7, <1>8, <1>9, <1>10

\* ReadChunk reads as many units as were written, and knows their message
\* stream.
LEMMA ReadFacts ==
    ASSUME TypeOK, NEW r \in Views, Seen(r), NEW c, CanRead(sent, r, c)
    PROVE  LET cs0 == streams[c.csid]
               q == ReadChunk(c, cs0)
           IN  /\ q.framed
               /\ q.cs \in Streams /\ q.cs.known
               /\ q.cs.remain = c.len - (Off(c.data) + Len(c.data))
               /\ HasShape(q.cs.hdr, c)
               /\ q.cs.hdr.timestamp = IF r.pos = 0 THEN ClockAfter(cs0.hdr.timestamp, c)
                                       ELSE cs0.hdr.timestamp
               /\ q.cs.hdr.timestamp \in Nat
               /\ q.chunk.format = c.fmt /\ q.chunk.data = c.data /\ q.chunk.hdr \in Headers
               /\ q.chunk.hdr.messageStreamID = c.sid
               /\ r.pos = 0 => HasShape(q.chunk.hdr, c)
<1> DEFINE cs0 == streams[c.csid]
           q == ReadChunk(c, cs0)
<1>1. /\ c \in Chunks /\ c.csid \in Csids /\ Off(c.data) \in Nat /\ Len(c.data) \in Nat
      /\ Off(c.data) = r.pos /\ c.len \in Nat /\ Len(c.data) > 0
      /\ Off(c.data) + Len(c.data) <= c.len
      /\ Len(c.data) = IF c.len - r.pos > r.size THEN r.size ELSE c.len - r.pos
      /\ c.id \in 1 .. Len(sent) /\ c.csid = CsidOf(c.type)
      /\ c.len = sent[c.id].len /\ c.type = sent[c.id].type /\ c.sid = sent[c.id].sid
      /\ r.pos > 0 => r.id = c.id
  BY DEF CanRead, Valid, IsPiece, Chunks
<1>2. /\ cs0 \in Streams /\ cs0.hdr.timestamp \in Nat /\ r.strm[c.csid] = ShapeOf(cs0)
      /\ r.size = chunkSize /\ r.size \in Nat
  BY <1>1 DEF TypeOK, Seen, Views, FitSizes
<1>3. Framed(c)
  BY SizeAssumption DEF Framed, ExpectsExt, CanRead, Valid, Chunks, NoExt
<1>4. CASE r.pos = 0
  <2>1. cs0.remain = 0 BY <1>1, <1>4 DEF Seen, Between
  <2> DEFINE H == StartHeader(c, cs0)
  <2>2. /\ H \in Headers /\ HasShape(H, c)
        /\ H.timestamp = ClockAfter(cs0.hdr.timestamp, c) /\ H.timestamp \in Nat
    BY <1>2, <1>4, StartFacts
  <2> HIDE DEF H
  <2>3. H.messageLength = c.len BY <2>2 DEF HasShape
  <2>9. Len(c.data) = IF c.len > chunkSize THEN chunkSize ELSE c.len
    BY <1>1, <1>2, <1>4
  <2>4. /\ q.framed
        /\ q.cs = [cs0 EXCEPT !.hdr = H, !.known = TRUE, !.remain = c.len - Len(c.data)]
        /\ q.chunk = [format |-> c.fmt, csid |-> c.csid, hdr |-> H, data |-> c.data]
    BY <1>2, <1>3, <2>1, <2>3, <2>9 DEF ReadChunk, H, Streams
  <2>5. q.framed BY <2>4
  <2>6. /\ q.cs \in Streams /\ q.cs.known /\ q.cs.hdr = H
        /\ q.cs.remain = c.len - (Off(c.data) + Len(c.data))
    <3> HIDE DEF q, cs0
    <3>1. c.len - Len(c.data) \in Int /\ c.len - Len(c.data) = c.len - (Off(c.data) + Len(c.data))
      BY <1>1, <1>4
    <3>2. q.cs = [hdr |-> H, remain |-> c.len - Len(c.data), known |-> TRUE]
      BY <1>2, <2>4 DEF Streams
    <3> QED BY <2>2, <3>1, <3>2 DEF Streams
  <2>7. q.chunk.format = c.fmt /\ q.chunk.data = c.data /\ q.chunk.hdr = H
    BY <2>4
  <2> HIDE DEF q
  <2>8. H.messageStreamID = c.sid BY <2>2 DEF HasShape
  <2> QED BY <1>4, <2>2, <2>5, <2>6, <2>7, <2>8 DEF q
<1>5. CASE r.pos > 0
  <2>1. /\ cs0.remain = c.len - r.pos /\ cs0.known /\ HasShape(cs0.hdr, c)
    BY <1>1, <1>5 DEF Seen, Within, HasShape
  <2>2. cs0.remain # 0 BY <1>1, <1>5, <2>1
  <2> DEFINE H == IF c.fmt = 0 THEN ReadHeader(c)
                  ELSE [ReadHeader(c) EXCEPT !.messageStreamID = cs0.hdr.messageStreamID]
  <2>3. H \in Headers /\ H.messageStreamID = c.sid
    <3>1. Stamp(c) \in Int
      BY <1>1, SizeAssumption DEF Stamp, Chunks
    <3>2. c.fmt \in 0 .. 3 BY <1>1 DEF Chunks
    <3>3. ReadHeader(c) \in Headers
      BY <1>1, <3>1, <3>2 DEF ReadHeader, Header, Headers, Chunks
    <3>4. c.fmt = 0 => ReadHeader(c).messageStreamID = c.sid BY DEF ReadHeader, Header
    <3>5. cs0.hdr.messageStreamID = c.sid /\ c.sid \in Int
      BY <1>1, <2>1 DEF HasShape, Chunks
    <3> QED BY <3>3, <3>4, <3>5 DEF Headers
  <2>8. Len(c.data) = IF cs0.remain > chunkSize THEN chunkSize ELSE cs0.remain
    BY <1>1, <1>2, <2>1
  <2>4. /\ q.framed
        /\ q.cs = [cs0 EXCEPT !.known = TRUE, !.remain = cs0.remain - Len(c.data)]
        /\ q.chunk = [format |-> c.fmt, csid |-> c.csid, hdr |-> H, data |-> c.data]
    BY <1>3, <2>2, <2>8 DEF ReadChunk
  <2> HIDE DEF H
  <2>5. q.framed BY <2>4
  <2>6. /\ q.cs \in Streams /\ q.cs.known /\ q.cs.hdr = cs0.hdr
        /\ q.cs.remain = c.len - (Off(c.data) + Len(c.data))
    <3> HIDE DEF q, cs0
    <3>1. /\ cs0.remain - Len(c.data) \in Int
          /\ cs0.remain - Len(c.data) = c.len - (Off(c.data) + Len(c.data))
      BY <1>1, <2>1
    <3>2. q.cs = [hdr |-> cs0.hdr, remain |-> cs0.remain - Len(c.data), known |-> TRUE]
      BY <1>2, <2>4 DEF Streams
    <3>3. cs0.hdr \in Headers BY <1>2 DEF Streams
    <3> QED BY <3>1, <3>2, <3>3 DEF Streams
  <2>7. q.chunk.format = c.fmt /\ q.chunk.data = c.data /\ q.chunk.hdr = H
    BY <2>4
  <2> HIDE DEF q
  <2> QED BY <1>2, <1>5, <2>1, <2>3, <2>5, <2>6, <2>7 DEF q
<1>6. r.pos \in Nat BY DEF Views
<1> QED BY <1>4, <1>5, <1>6

\* Two pieces of a message, one behind the other, are a piece of it.
LEMMA PieceJoin ==
    ASSUME NEW d, NEW e, NEW id, NEW len \in Nat, IsPiece(d, id, len), IsPiece(e, id, len),
           Off(e) = Off(d) + Len(d)
    PROVE  IsPiece(d \o e, id, len) /\ Off(d \o e) = Off(d) /\ Len(d \o e) = Len(d) + Len(e)
<1> DEFINE x == d \o e
<1>1. /\ d \in Seq(Units) /\ e \in Seq(Units) /\ Len(d) \in Nat \ {0} /\ Len(e) \in Nat \ {0}
      /\ Off(d) \in Nat /\ Off(e) + Len(e) <= len
      /\ \A k \in 1 .. Len(d) : d[k] = <<id, Off(d) + k>>
      /\ \A k \in 1 .. Len(e) : e[k] = <<id, Off(e) + k>>
  BY DEF IsPiece
<1>2. /\ x \in Seq(Units) /\ Len(x) = Len(d) + Len(e)
      /\ \A k \in 1 .. Len(d) : x[k] = d[k]
      /\ \A k \in Len(d) + 1 .. Len(d) + Len(e) : x[k] = e[k - Len(d)]
  BY <1>1
<1> HIDE DEF x
<1>3. Off(x) = Off(d)
  <2>1. x[1] = d[1] BY <1>1, <1>2
  <2> QED BY <2>1 DEF Off
<1>4. \A k \in 1 .. Len(x) : x[k] = <<id, Off(x) + k>>
  <2> SUFFICES ASSUME NEW k \in 1 .. Len(d) + Len(e) PROVE x[k] = <<id, Off(d) + k>>
    BY <1>2, <1>3
  <2>1. CASE k <= Len(d)
    <3>1. k \in 1 .. Len(d) BY <1>1, <2>1
    <3> QED BY <1>1, <1>2, <3>1
  <2>2. CASE k > Len(d)
    <3>1. /\ k \in Len(d) + 1 .. Len(d) + Len(e) /\ k - Len(d) \in 1 .. Len(e)
          /\ Off(e) + (k - Len(d)) = Off(d) + k
      BY <1>1, <2>2
    <3>2. x[k] = e[k - Len(d)] /\ e[k - Len(d)] = <<id, Off(e) + (k - Len(d))>>
      BY <1>1, <1>2, <3>1
    <3> QED BY <3>1, <3>2
  <2> QED BY <1>1, <2>1, <2>2
<1>5. Off(x) + Len(x) <= len /\ Len(x) > 0 BY <1>1, <1>2, <1>3
<1> QED BY <1>1, <1>2, <1>3, <1>4, <1>5 DEF IsPiece, x

\* All of a message is its payload.
LEMMA PieceWhole ==
    ASSUME NEW d, NEW id, NEW len \in Nat, IsPiece(d, id, len), Off(d) = 0, Len(d) = len
    PROVE  d = Payload(id, len) /\ d[1][1] = id
<1>1. d \in Seq(Units) /\ Len(d) > 0 /\ \A k \in 1 .. Len(d) : d[k] = <<id, k>>
  BY DEF IsPiece
<1>2. d = [k \in 1 .. len |-> d[k]] BY <1>1
<1>3. d = Payload(id, len) BY <1>1, <1>2 DEF Payload
<1>4. d[1] = <<id, 1>> BY <1>1
<1> QED BY <1>3, <1>4

\* The collector of the message stream goes on with the message under way, or
\* begins one, and delivers it with its last chunk.
LEMMA CollectFacts ==
    ASSUME TypeOK, NEW r \in Views, Seen(r), NEW c, CanRead(sent, r, c), c.sid \in Sids,
           NEW k, k.format = c.fmt, k.data = c.data, k.hdr \in Headers,
           r.pos = 0 => HasShape(k.hdr, c)
    PROVE  LET h == HandleReceiveChunk(k, collector[c.sid])
           IN  /\ ~h.panics
               /\ h.ms \in Collectors /\ h.ms.known
               /\ Completes(c) =>
                    /\ Idle(h.ms) /\ h.msg \in [done : BOOLEAN, hdr : Headers, data : Seq(Units)]
                    /\ h.msg.done /\ HasShape(h.msg.hdr, c)
                    /\ h.msg.data = Payload(c.id, c.len) /\ IdOf(h.msg) = c.id
               /\ ~Completes(c) =>
                    /\ Collecting(h.ms, c, c.id, Off(c.data) + Len(c.data))
                    /\ ~h.msg.done
<1> DEFINE ms == collector[c.sid]
           h == HandleReceiveChunk(k, ms)
<1>1. /\ Off(c.data) \in Nat /\ Len(c.data) \in Nat /\ IsPiece(c.data, c.id, c.len)
      /\ Off(c.data) = r.pos /\ c.len \in Nat /\ Len(c.data) > 0 /\ c.data \in Seq(Units)
      /\ Off(c.data) + Len(c.data) <= c.len
      /\ c.csid \in Csids /\ c.fmt \in 0 .. 3
      /\ c.id \in 1 .. Len(sent) /\ c.csid = CsidOf(c.type)
      /\ c.len = sent[c.id].len /\ c.type = sent[c.id].type /\ c.sid = sent[c.id].sid
      /\ r.pos > 0 => r.id = c.id
      /\ r.pos = 0 /\ c.fmt # 0 => r.strm[c.csid].known /\ r.strm[c.csid].sid = c.sid
  BY DEF CanRead, Valid, IsPiece, Chunks
<1>2. ms \in Collectors BY DEF TypeOK
<1>3. CASE r.pos = 0
  <2>1. ~ms.collecting /\ ms.data = <<>> BY <1>3 DEF Seen, Between, Idle
  <2>2. ms.known \/ c.fmt = 0
    <3>1. r.strm[c.csid] = ShapeOf(streams[c.csid]) BY <1>1 DEF Seen
    <3>2. c.fmt # 0 =>
            streams[c.csid].known /\ streams[c.csid].hdr.messageStreamID = c.sid
      BY <1>1, <1>3, <3>1 DEF ShapeOf
    <3> QED BY <1>1, <3>2 DEF Seen
  <2>3. HasShape(k.hdr, c) /\ k.hdr.messageLength = c.len BY <1>3 DEF HasShape
  <2>4. ms.data \o k.data = c.data BY <1>1, <2>1
  <2>5. CASE Completes(c)
    <3>1. c.len = Len(c.data) BY <1>1, <1>3, <2>5 DEF Completes
    <3>2. /\ h.panics = (~ms.known /\ k.format # 0)
          /\ h.ms = [known |-> TRUE, hdr |-> k.hdr, collecting |-> FALSE,
                     remain |-> c.len - Len(c.data), data |-> <<>>]
          /\ h.msg = [done |-> TRUE, hdr |-> k.hdr, data |-> c.data]
      BY <2>1, <2>3, <2>4, <3>1 DEF HandleReceiveChunk
    <3>3. ~h.panics BY <2>2, <3>2
    <3> HIDE DEF h
    <3>4. h.ms \in Collectors /\ h.ms.known /\ Idle(h.ms)
      BY <1>1, <3>2 DEF Collectors, Idle
    <3>5. c.data = Payload(c.id, c.len) /\ c.data[1][1] = c.id
      BY <1>1, <1>3, <3>1, PieceWhole
    <3>6. h.msg \in [done : BOOLEAN, hdr : Headers, data : Seq(Units)] /\ IdOf(h.msg) = c.id
      BY <1>1, <3>2, <3>5 DEF IdOf
    <3> QED BY <2>3, <2>5, <3>2, <3>3, <3>4, <3>5, <3>6 DEF h
  <2>6. CASE ~Completes(c)
    <3>1. c.len # Len(c.data) BY <1>1, <1>3, <2>6 DEF Completes
    <3>2. /\ h.panics = (~ms.known /\ k.format # 0)
          /\ h.ms = [known |-> TRUE, hdr |-> k.hdr, collecting |-> TRUE,
                     remain |-> c.len - Len(c.data), data |-> c.data]
          /\ h.msg = NoMessage
      BY <2>1, <2>3, <2>4, <3>1 DEF HandleReceiveChunk
    <3>3. ~h.panics BY <2>2, <3>2
    <3> HIDE DEF h
    <3>4. h.ms \in Collectors /\ h.ms.known
      BY <1>1, <3>2 DEF Collectors
    <3>5. Collecting(h.ms, c, c.id, Off(c.data) + Len(c.data))
      BY <1>1, <1>3, <2>3, <3>2 DEF Collecting
    <3>6. ~h.msg.done BY <3>2 DEF NoMessage
    <3> QED BY <2>6, <3>3, <3>4, <3>5, <3>6 DEF h
  <2> QED BY <2>5, <2>6
<1>4. CASE r.pos > 0
  <2>1. /\ ms.known /\ ms.collecting /\ ms.remain = c.len - r.pos /\ HasShape(ms.hdr, c)
        /\ IsPiece(ms.data, c.id, c.len) /\ Off(ms.data) = 0 /\ Len(ms.data) = r.pos
    BY <1>1, <1>4 DEF Seen, Within, Collecting, HasShape
  <2> DEFINE data == ms.data \o c.data
  <2>2. /\ IsPiece(data, c.id, c.len) /\ Off(data) = 0 /\ Len(data) = r.pos + Len(c.data)
    <3>1. Off(c.data) = Off(ms.data) + Len(ms.data) BY <1>1, <2>1
    <3>2. /\ IsPiece(c.data, c.id, c.len) /\ IsPiece(ms.data, c.id, c.len) /\ c.len \in Nat
      BY <1>1, <2>1
    <3>3. /\ IsPiece(data, c.id, c.len) /\ Off(data) = Off(ms.data)
          /\ Len(data) = Len(ms.data) + Len(c.data)
      BY <3>1, <3>2, PieceJoin
    <3> QED BY <2>1, <3>3
  <2>3. data \in Seq(Units) /\ ms.hdr \in Headers
    BY <1>2, <2>2 DEF IsPiece, Collectors
  <2>5. CASE Completes(c)
    <3>1. ms.remain - Len(c.data) = 0 BY <1>1, <2>1, <2>5 DEF Completes
    <3>2. /\ h.panics = (~ms.known /\ k.format # 0)
          /\ h.ms = [known |-> TRUE, hdr |-> ms.hdr, collecting |-> FALSE,
                     remain |-> 0, data |-> <<>>]
          /\ h.msg = [done |-> TRUE, hdr |-> ms.hdr, data |-> data]
      BY <2>1, <3>1 DEF HandleReceiveChunk
    <3>3. ~h.panics BY <2>1, <3>2
    <3> HIDE DEF h, data
    <3>4. h.ms \in Collectors /\ h.ms.known /\ Idle(h.ms)
      BY <2>3, <3>2 DEF Collectors, Idle
    <3>5. data = Payload(c.id, c.len) /\ data[1][1] = c.id
      <4>1. Len(data) = c.len BY <1>1, <2>2, <2>5 DEF Completes
      <4> QED BY <1>1, <2>2, <4>1, PieceWhole
    <3>6. h.msg \in [done : BOOLEAN, hdr : Headers, data : Seq(Units)] /\ IdOf(h.msg) = c.id
      BY <2>3, <3>2, <3>5 DEF IdOf
    <3>7. HasShape(h.msg.hdr, c) BY <2>1, <3>2
    <3> QED BY <2>5, <3>2, <3>3, <3>4, <3>5, <3>6, <3>7 DEF h
  <2>6. CASE ~Completes(c)
    <3>1. ms.remain - Len(c.data) # 0 BY <1>1, <2>1, <2>6 DEF Completes
    <3>2. /\ h.panics = (~ms.known /\ k.format # 0)
          /\ h.ms = [known |-> TRUE, hdr |-> ms.hdr, collecting |-> TRUE,
                     remain |-> ms.remain - Len(c.data), data |-> data]
          /\ h.msg = NoMessage
      BY <2>1, <3>1 DEF HandleReceiveChunk
    <3>3. ~h.panics BY <2>1, <3>2
    <3> HIDE DEF h, data
    <3>4. h.ms \in Collectors /\ h.ms.known
      BY <1>1, <2>1, <2>3, <3>2 DEF Collectors
    <3>5. Collecting(h.ms, c, c.id, Off(c.data) + Len(c.data))
      <4>1. h.ms.data = data /\ h.ms.hdr = ms.hdr /\ h.ms.remain = ms.remain - Len(c.data)
            /\ h.ms.known /\ h.ms.collecting
        BY <3>2
      <4>2. ms.remain - Len(c.data) = c.len - (Off(c.data) + Len(c.data))
        <5>1. /\ ms.remain = c.len - r.pos /\ Off(c.data) = r.pos /\ c.len \in Int
              /\ Off(c.data) \in Int /\ Len(c.data) \in Int
          BY <1>1, <2>1
        <5> HIDE DEF ms
        <5> QED BY <5>1
      <4> QED BY <1>1, <2>1, <2>2, <4>1, <4>2 DEF Collecting
    <3>6. ~h.msg.done BY <3>2 DEF NoMessage
    <3> QED BY <2>6, <3>3, <3>4, <3>5, <3>6 DEF h
  <2> QED BY <2>5, <2>6
<1>5. r.pos \in Nat BY DEF Views
<1> QED BY <1>3, <1>4, <1>5

\* The view after a chunk is what the receiver has become.
LEMMA SeenAfter ==
    ASSUME TypeOK, NEW r \in Views, Seen(r), NEW c, CanRead(sent, r, c), c.sid \in Sids,
           NEW cs \in Streams, NEW ms \in Collectors, NEW u \in Views,
           u = AfterRead(sent, r, c),
           streams' = [streams EXCEPT ![c.csid] = cs],
           collector' = [collector EXCEPT ![c.sid] = ms], sent' = sent,
           chunkSize' = IF c.type = 1 THEN sent[c.id].size ELSE chunkSize,
           cs.known, cs.remain = c.len - (Off(c.data) + Len(c.data)), HasShape(cs.hdr, c),
           cs.hdr.timestamp = IF r.pos = 0 THEN ClockAfter(streams[c.csid].hdr.timestamp, c)
                              ELSE streams[c.csid].hdr.timestamp,
           ms.known, Completes(c) => Idle(ms),
           ~Completes(c) => Collecting(ms, c, c.id, Off(c.data) + Len(c.data))
    PROVE  Seen(u)'
<1>1. /\ Off(c.data) \in Nat /\ Len(c.data) \in Nat
      /\ Off(c.data) = r.pos /\ c.len \in Nat /\ Len(c.data) > 0
      /\ Off(c.data) + Len(c.data) <= c.len
      /\ c.csid \in Csids
      /\ c.id \in 1 .. Len(sent) /\ c.csid = CsidOf(c.type)
      /\ c.len = sent[c.id].len /\ c.type = sent[c.id].type /\ c.sid = sent[c.id].sid
      /\ r.pos > 0 => r.id = c.id
  BY DEF CanRead, Valid, IsPiece, Chunks
<1>2. /\ r.size = chunkSize /\ \A d \in Csids : r.strm[d] = ShapeOf(streams[d])
      /\ \A d \in Csids : streams[d].known =>
           /\ streams[d].hdr.messageStreamID \in Sids
           /\ collector[streams[d].hdr.messageStreamID].known
  BY DEF Seen
<1>3. /\ \A d \in Csids : streams'[d] = IF d = c.csid THEN cs ELSE streams[d]
      /\ \A x \in Sids : collector'[x] = IF x = c.sid THEN ms ELSE collector[x]
  BY DEF TypeOK
<1>4. /\ u.size = (IF c.type = 1 THEN sent[c.id].size ELSE r.size)
      /\ u.id = (IF Completes(c) THEN 0 ELSE c.id)
      /\ u.pos = (IF Completes(c) THEN 0 ELSE Off(c.data) + Len(c.data))
  BY DEF AfterRead
<1>5. \A d \in Csids \ {c.csid} : streams[d].remain = 0
  <2>1. CASE r.pos = 0 BY <2>1 DEF Seen, Between
  <2>2. CASE r.pos > 0 BY <1>1, <2>2 DEF Seen, Within
  <2> QED BY <1>1, <2>1, <2>2
<1>6. \A x \in Sids \ {c.sid} : Idle(collector[x])
  <2>1. CASE r.pos = 0 BY <2>1 DEF Seen, Between
  <2>2. CASE r.pos > 0 BY <1>1, <2>2 DEF Seen, Within
  <2> QED BY <1>1, <2>1, <2>2
<1>7. (u.size = chunkSize)' BY <1>2, <1>4
<1>8. ASSUME NEW d \in Csids PROVE (u.strm[d] = ShapeOf(streams[d]))'
  <2>1. CASE r.pos = 0
    <3>1. r.strm[c.csid].clock = streams[c.csid].hdr.timestamp
      <4>1. r.strm[c.csid] = ShapeOf(streams[c.csid]) BY <1>1, <1>2
      <4> QED BY <4>1 DEF ShapeOf
    <3>6. ClockAfter(r.strm[c.csid].clock, c) = cs.hdr.timestamp BY <2>1, <3>1
    <3>7. ~(r.pos > 0) BY <2>1
    <3>2. u.strm = [r.strm EXCEPT ![c.csid] =
                      [known |-> TRUE, len |-> c.len, type |-> c.type, sid |-> c.sid,
                       clock |-> cs.hdr.timestamp]]
      BY <3>6, <3>7 DEF AfterRead
    <3>3. ShapeOf(cs) = [known |-> TRUE, len |-> c.len, type |-> c.type, sid |-> c.sid,
                         clock |-> cs.hdr.timestamp]
      BY DEF ShapeOf, HasShape, Streams
    <3>4. r.strm \in [Csids -> Shapes] BY DEF Views
    <3>5. u.strm[d] = IF d = c.csid THEN ShapeOf(cs) ELSE r.strm[d]
      BY <1>1, <3>2, <3>3, <3>4
    <3> QED BY <1>2, <1>3, <3>5
  <2>2. CASE r.pos > 0
    <3>1. u.strm = r.strm BY <2>2 DEF AfterRead
    <3>2. streams[c.csid] \in Streams /\ streams[c.csid].known /\ HasShape(streams[c.csid].hdr, c)
      BY <1>1, <2>2 DEF Seen, Within, TypeOK, HasShape
    <3>3. ShapeOf(cs) = ShapeOf(streams[c.csid])
      <4> DEFINE d0 == streams[c.csid]
      <4>1. d0 \in Streams /\ d0.known /\ HasShape(d0.hdr, c) /\ cs.hdr.timestamp = d0.hdr.timestamp
        BY <1>1, <2>2, <3>2
      <4> HIDE DEF d0
      <4>2. ShapeOf(cs) = [known |-> TRUE, len |-> c.len, type |-> c.type, sid |-> c.sid,
                           clock |-> cs.hdr.timestamp]
        BY DEF ShapeOf, HasShape, Streams
      <4>3. ShapeOf(d0) = [known |-> TRUE, len |-> c.len, type |-> c.type, sid |-> c.sid,
                           clock |-> cs.hdr.timestamp]
        BY <4>1 DEF ShapeOf, HasShape, Streams
      <4> QED BY <4>2, <4>3 DEF d0
    <3> QED BY <1>2, <1>3, <3>1, <3>3
  <2> QED BY <1>1, <2>1, <2>2
<1>9. ASSUME NEW d \in Csids, streams'[d].known
      PROVE  /\ streams'[d].hdr.messageStreamID \in Sids
             /\ collector'[streams'[d].hdr.messageStreamID].known
  <2>1. CASE d = c.csid
    <3>1. streams'[d] = cs /\ cs.hdr.messageStreamID = c.sid BY <1>3, <2>1 DEF HasShape
    <3> QED BY <1>3, <3>1
  <2>2. CASE d # c.csid
    <3>1. streams'[d] = streams[d] BY <1>3, <2>2
    <3> QED BY <1>2, <1>3, <1>9, <3>1
  <2> QED BY <2>1, <2>2
<1>10. ASSUME u.pos = 0 PROVE Between(u)'
  <2>1. Completes(c) BY <1>1, <1>4, <1>10
  <2>2. cs.remain = 0 BY <1>1, <2>1 DEF Completes
  <2> QED BY <1>3, <1>4, <1>5, <1>6, <2>1, <2>2 DEF Between
<1>11. ASSUME u.pos > 0 PROVE Within(u, sent[u.id])'
  <2>1. ~Completes(c) /\ u.pos = Off(c.data) + Len(c.data) /\ u.id = c.id
    BY <1>4, <1>11
  <2>2. u.pos < c.len BY <1>1, <2>1 DEF Completes
  <2> DEFINE m == sent[c.id]
  <2>3. HasShape(cs.hdr, m) BY <1>1 DEF HasShape
  <2>4. Collecting(ms, m, u.id, u.pos) BY <1>1, <2>1 DEF Collecting, HasShape
  <2> SUFFICES Within(u, m)' BY <2>1
  <2> HIDE DEF m
  <2>5. m.len = c.len /\ m.sid = c.sid /\ CsidOf(m.type) = c.csid BY <1>1 DEF m
  <2>6. m' = m BY DEF m
  <2> QED BY <1>1, <1>3, <1>5, <1>6, <2>1, <2>2, <2>3, <2>4, <2>5, <2>6 DEF Within
<1> QED BY <1>7, <1>8, <1>9, <1>10, <1>11 DEF Seen

(***************************************************************************)
(* Where messages are.                                                     *)
(***************************************************************************)
\* The messages that end in a sequence of chunks, when its first is read.
LEMMA FinalTail ==
    ASSUME NEW s \in Seq(Chunks), s # <<>>, OnceEach(s)
    PROVE  /\ OnceEach(Tail(s))
           /\ FinalIds(s) = FinalIds(Tail(s)) \cup (IF Completes(Head(s)) THEN {Head(s).id} ELSE {})
           /\ Completes(Head(s)) => Head(s).id \notin FinalIds(Tail(s))
<1> DEFINE t == Tail(s)
<1>1. /\ Len(s) \in Nat \ {0} /\ Len(t) = Len(s) - 1 /\ Head(s) = s[1]
      /\ \A i \in 1 .. Len(t) : t[i] = s[i + 1]
  OBVIOUS
<1> HIDE DEF t
<1>2. OnceEach(t)
  <2> SUFFICES ASSUME NEW i \in 1 .. Len(t), NEW j \in 1 .. Len(t),
                      Completes(t[i]), Completes(t[j]), t[i].id = t[j].id
               PROVE  i = j
    BY DEF OnceEach
  <2>1. i + 1 \in 1 .. Len(s) /\ j + 1 \in 1 .. Len(s) BY <1>1
  <2>2. i + 1 = j + 1 BY <1>1, <2>1 DEF OnceEach
  <2> QED BY <2>2
<1>3. ASSUME NEW id \in FinalIds(t) PROVE \E k \in 2 .. Len(s) : Completes(s[k]) /\ s[k].id = id
  <2>1. PICK k \in 1 .. Len(t) : Completes(t[k]) /\ t[k].id = id BY DEF FinalIds
  <2>2. k + 1 \in 2 .. Len(s) /\ s[k + 1] = t[k] BY <1>1
  <2> QED BY <2>1, <2>2
<1>4. ASSUME NEW k \in 2 .. Len(s), Completes(s[k]) PROVE s[k].id \in FinalIds(t)
  <2>1. k - 1 \in 1 .. Len(t) /\ t[k - 1] = s[k] BY <1>1
  <2> QED BY <1>4, <2>1 DEF FinalIds
<1>5. FinalIds(s) = FinalIds(t) \cup (IF Completes(s[1]) THEN {s[1].id} ELSE {})
  <2>1. 1 .. Len(s) = {1} \cup 2 .. Len(s) BY <1>1
  <2>2. FinalIds(s) = {s[i].id : i \in {k \in {1} \cup 2 .. Len(s) : Completes(s[k])}}
    BY <2>1 DEF FinalIds
  <2> QED BY <1>3, <1>4, <2>2
<1>6. Completes(s[1]) => s[1].id \notin FinalIds(t)
  <2> SUFFICES ASSUME Completes(s[1]), s[1].id \in FinalIds(t) PROVE FALSE OBVIOUS
  <2>1. PICK k \in 2 .. Len(s) : Completes(s[k]) /\ s[k].id = s[1].id BY <1>3
  <2>2. 1 \in 1 .. Len(s) /\ k \in 1 .. Len(s) /\ k # 1 BY <1>1
  <2> QED BY <2>1, <2>2 DEF OnceEach
<1> QED BY <1>1, <1>2, <1>5, <1>6 DEF t

\* When two such sequences are put one behind the other.
LEMMA FinalConcat ==
    ASSUME NEW s \in Seq(Chunks), NEW t \in Seq(Chunks), OnceEach(s), OnceEach(t),
           FinalIds(s) \cap FinalIds(t) = {}
    PROVE  OnceEach(s \o t) /\ FinalIds(s \o t) = FinalIds(s) \cup FinalIds(t)
<1> DEFINE x == s \o t
           n == Len(s)
<1>1. /\ n \in Nat /\ Len(t) \in Nat /\ Len(x) = n + Len(t)
      /\ \A i \in 1 .. n : x[i] = s[i]
      /\ \A i \in 1 .. Len(t) : x[n + i] = t[i]
  OBVIOUS
<1> HIDE DEF x, n
<1>2. ASSUME NEW i \in 1 .. Len(x)
      PROVE  \/ i \in 1 .. n /\ x[i] = s[i]
             \/ i - n \in 1 .. Len(t) /\ x[i] = t[i - n] /\ i > n
  <2>1. CASE i <= n BY <1>1, <2>1
  <2>2. CASE i > n
    <3>1. i - n \in 1 .. Len(t) /\ n + (i - n) = i BY <1>1, <2>2
    <3> QED BY <1>1, <2>2, <3>1
  <2> QED BY <1>1, <2>1, <2>2
<1>3. FinalIds(x) = FinalIds(s) \cup FinalIds(t)
  <2>1. ASSUME NEW id \in FinalIds(x) PROVE id \in FinalIds(s) \cup FinalIds(t)
    <3>1. PICK i \in 1 .. Len(x) : Completes(x[i]) /\ x[i].id = id BY DEF FinalIds
    <3> QED BY <1>1, <1>2, <3>1 DEF FinalIds, n
  <2>2. ASSUME NEW id \in FinalIds(s) PROVE id \in FinalIds(x)
    <3>1. PICK i \in 1 .. n : Completes(s[i]) /\ s[i].id = id BY DEF FinalIds, n
    <3>2. i \in 1 .. Len(x) /\ x[i] = s[i] BY <1>1
    <3> QED BY <3>1, <3>2 DEF FinalIds
  <2>3. ASSUME NEW id \in FinalIds(t) PROVE id \in FinalIds(x)
    <3>1. PICK i \in 1 .. Len(t) : Completes(t[i]) /\ t[i].id = id BY DEF FinalIds
    <3>2. n + i \in 1 .. Len(x) /\ x[n + i] = t[i] BY <1>1
    <3> QED BY <3>1, <3>2 DEF FinalIds
  <2> QED BY <2>1, <2>2, <2>3
<1>4. OnceEach(x)
  <2> SUFFICES ASSUME NEW i \in 1 .. Len(x), NEW j \in 1 .. Len(x),
                      Completes(x[i]), Completes(x[j]), x[i].id = x[j].id
               PROVE  i = j
    BY DEF OnceEach
  <2>1. CASE i \in 1 .. n /\ j \in 1 .. n BY <1>1, <2>1 DEF OnceEach, n
  <2>2. CASE i > n /\ j > n
    <3>1. i - n \in 1 .. Len(t) /\ j - n \in 1 .. Len(t) /\ x[i] = t[i - n] /\ x[j] = t[j - n]
      BY <1>1, <1>2, <2>2
    <3>2. i - n = j - n BY <3>1 DEF OnceEach
    <3> QED BY <1>1, <3>2
  <2>3. ASSUME NEW a \in 1 .. Len(x), NEW b \in 1 .. Len(x), a \in 1 .. n, b > n,
               Completes(x[a]), Completes(x[b]), x[a].id = x[b].id
        PROVE  FALSE
    <3>1. x[a].id \in FinalIds(s) BY <1>1, <2>3 DEF FinalIds, n
    <3>2. b - n \in 1 .. Len(t) /\ x[b] = t[b - n] BY <1>1, <1>2, <2>3
    <3>3. x[b].id \in FinalIds(t) BY <2>3, <3>2 DEF FinalIds
    <3> QED BY <2>3, <3>1, <3>3
  <2> QED BY <1>1, <1>2, <2>1, <2>2, <2>3
<1> QED BY <1>3, <1>4 DEF x

\* One chunk.
LEMMA FinalOne ==
    ASSUME NEW c
    PROVE  OnceEach(<<c>>) /\ FinalIds(<<c>>) = IF Completes(c) THEN {c.id} ELSE {}
<1> DEFINE s == <<c>>
<1>1. Len(s) = 1 /\ s[1] = c /\ 1 .. 1 = {1} OBVIOUS
<1> HIDE DEF s
<1>2. OnceEach(s) BY <1>1 DEF OnceEach
<1>3. FinalIds(s) = IF Completes(c) THEN {c.id} ELSE {} BY <1>1 DEF FinalIds
<1> QED BY <1>2, <1>3 DEF s

\* When a chunk is put behind such a sequence.
LEMMA FinalAppend ==
    ASSUME NEW s \in Seq(Chunks), NEW c \in Chunks, OnceEach(s),
           Completes(c) => c.id \notin FinalIds(s)
    PROVE  /\ OnceEach(Append(s, c))
           /\ FinalIds(Append(s, c)) = FinalIds(s) \cup (IF Completes(c) THEN {c.id} ELSE {})
<1>1. <<c>> \in Seq(Chunks) OBVIOUS
<1>3. Append(s, c) = s \o <<c>> OBVIOUS
<1>2. FinalIds(s) \cap FinalIds(<<c>>) = {} BY FinalOne
<1>4. OnceEach(s \o <<c>>) /\ FinalIds(s \o <<c>>) = FinalIds(s) \cup FinalIds(<<c>>)
  BY <1>1, <1>2, FinalOne, FinalConcat
<1> QED BY <1>3, <1>4, FinalOne

(***************************************************************************)
(* What is offered.                                                        *)
(***************************************************************************)
\* The chunk streams of the message types.
LEMMA CsidFacts ==
    ASSUME NEW t \in TypeIDs
    PROVE  CsidOf(t) \in Csids /\ (t \in 1 .. 6 => CsidOf(t) = 2)
BY DEF TypeIDs, CsidOf, Csids

\* A message that a goroutine of this side may send.
LEMMA OfferFacts ==
    ASSUME Tame, NEW w \in Writers, w \notin Foreign, NEW m \in Offers[w], m.len > 0
    PROVE  /\ m \in Messages /\ m.type \in TypeIDs /\ m.sid \in Sids /\ m.sid \in Nat
           /\ m.len \in Nat /\ m.ts \in Nat /\ m.ts < Limit24
           /\ CsidOf(m.type) \in Csids \cap CsidsOf(w)
           /\ m.type = 1 => m.size \in FitSizes /\ \A n \in FitSizes : m.len <= n
<1>1. m \in Messages /\ Offers \in [Writers -> SUBSET Messages] BY WriterAssumption
<1>2. m.type \in TypeIDs /\ m.sid \in Nat /\ m.ts \in Nat /\ m.len \in Nat /\ m.size \in Nat
  BY <1>1 DEF Messages
<1>3. m.sid \in Sids BY DEF Sids
<1>4. m.ts < Limit24 BY DEF Tame
<1>5. CsidOf(m.type) \in Csids /\ CsidOf(m.type) \in CsidsOf(w)
  BY <1>2, CsidFacts DEF CsidsOf
<1>6. ASSUME m.type = 1 PROVE m.size \in FitSizes /\ \A n \in FitSizes : m.len <= n
  <2>1. m \in Announcements BY <1>6 DEF Announcements
  <2>2. \A n \in Announcements : n.len <= m.size BY <2>1 DEF Tame
  <2>3. m.size > 0 BY <1>2, <2>1, <2>2
  <2> QED BY <1>2, <2>1, <2>2, <2>3 DEF FitSizes
<1> QED BY <1>1, <1>2, <1>3, <1>4, <1>5, <1>6

\* A message that was sent.
LEMMA SentFacts ==
    ASSUME Tame, side \in Sides, OwnSide, SentInv, NEW i \in 1 .. Len(sent)
    PROVE  LET m == sent[i]
           IN  /\ m \in Messages /\ m.type \in TypeIDs /\ m.sid \in Sids /\ m.sid \in Nat
               /\ m.len \in Nat /\ m.ts \in Nat /\ m.ts < Limit24
               /\ CsidOf(m.type) \in Csids /\ Accepted(m)
               /\ m.type = 1 => m.size \in FitSizes
<1> DEFINE m == sent[i]
<1>1. PICK w \in side : m \in Offers[w] BY DEF SentInv
<1>2. m.len > 0 /\ Accepted(m) BY DEF SentInv
<1>3. w \in Writers /\ w \notin Foreign BY WriterAssumption DEF OwnSide
<1> HIDE DEF m
<1>4. /\ m \in Messages /\ m.type \in TypeIDs /\ m.sid \in Sids /\ m.sid \in Nat
      /\ m.len \in Nat /\ m.ts \in Nat /\ m.ts < Limit24
      /\ CsidOf(m.type) \in Csids
      /\ m.type = 1 => m.size \in FitSizes
  BY <1>1, <1>2, <1>3, OfferFacts
<1> QED BY <1>2, <1>4 DEF m

(***************************************************************************)
(* Receive.                                                                *)
(***************************************************************************)
\* What Receive does with a chunk that can be read.
LEMMA ReceiveEffect ==
    ASSUME Tame, side \in Sides, OwnSide, OwnInv, Receive,
           NEW r \in Views, Seen(r), NEW c, c = Head(wire), CanRead(sent, r, c),
           NEW u \in Views, u = AfterRead(sent, r, c)
    PROVE  /\ wire' = Tail(wire) /\ reader' = "ok"
           /\ UNCHANGED <<side, packVars, buf, sent>>
           /\ IF Completes(c)
              THEN \E g \in [done : BOOLEAN, hdr : Headers, data : Seq(Units)] :
                     /\ got' = Append(got, g) /\ IsMessage(g, c.id) /\ IdOf(g) = c.id
              ELSE got' = got
           /\ Seen(u)' /\ chunkSize' \in FitSizes
           /\ streams' \in [Csids -> Streams] /\ collector' \in [Sids -> Collectors]
           /\ \A d \in Csids : streams'[d].hdr.timestamp \in Nat
<1> DEFINE q == ReadChunk(c, streams[c.csid])
           k == q.chunk
           h == HandleReceiveChunk(k, collector[CollectorKey(k)])
           m == sent[c.id]
<1>1. TypeOK /\ SentInv /\ reader = "ok" BY DEF OwnInv
<1>2. /\ c.id \in 1 .. Len(sent) /\ c.csid = CsidOf(c.type) /\ c.csid \in Csids
      /\ c.len = m.len /\ c.type = m.type /\ c.sid = m.sid
      /\ c.type = 1 => Completes(c)
      /\ Off(c.data) \in Nat /\ Len(c.data) \in Nat
  BY DEF CanRead, Valid, Chunks, Completes, IsPiece
<1>3. /\ m.type \in TypeIDs /\ m.sid \in Sids /\ Accepted(m)
      /\ m.type = 1 => m.size \in FitSizes
  BY <1>1, <1>2, SentFacts
<1>4. /\ q.framed
      /\ q.cs \in Streams /\ q.cs.known
      /\ q.cs.remain = c.len - (Off(c.data) + Len(c.data))
      /\ HasShape(q.cs.hdr, c)
      /\ q.cs.hdr.timestamp = IF r.pos = 0 THEN ClockAfter(streams[c.csid].hdr.timestamp, c)
                              ELSE streams[c.csid].hdr.timestamp
      /\ q.cs.hdr.timestamp \in Nat
      /\ k.format = c.fmt /\ k.data = c.data /\ k.hdr \in Headers
      /\ k.hdr.messageStreamID = c.sid
      /\ r.pos = 0 => HasShape(k.hdr, c)
  BY <1>1, ReadFacts
<1>5. CollectorKey(k) = c.sid BY <1>4 DEF CollectorKey
<1> HIDE DEF q
<1>6. /\ ~h.panics
      /\ h.ms \in Collectors /\ h.ms.known
      /\ Completes(c) =>
           /\ Idle(h.ms) /\ h.msg \in [done : BOOLEAN, hdr : Headers, data : Seq(Units)]
           /\ h.msg.done /\ HasShape(h.msg.hdr, c)
           /\ h.msg.data = Payload(c.id, c.len) /\ IdOf(h.msg) = c.id
      /\ ~Completes(c) =>
           /\ Collecting(h.ms, c, c.id, Off(c.data) + Len(c.data))
           /\ ~h.msg.done
  <2>1. c.sid \in Sids BY <1>2, <1>3
  <2> HIDE DEF k
  <2> QED BY <1>1, <1>4, <1>5, <2>1, CollectFacts
<1>7. ~BadControl(h.msg, c.csid)
  <2> SUFFICES ASSUME h.msg.done, h.msg.hdr.messageTypeID \in 1 .. 6
               PROVE  c.csid = 2 /\ h.msg.hdr.messageStreamID = 0
    BY DEF BadControl
  <2>1. h.msg.hdr.messageTypeID = m.type /\ h.msg.hdr.messageStreamID = m.sid
    BY <1>2, <1>6 DEF HasShape
  <2> QED BY <1>2, <1>3, <2>1, CsidFacts DEF Accepted
<1>8. /\ wire' = Tail(wire) /\ UNCHANGED <<side, packVars, buf, sent>>
      /\ streams' = [streams EXCEPT ![c.csid] = q.cs]
      /\ collector' = [collector EXCEPT ![CollectorKey(k)] = h.ms]
      /\ reader' = (IF BadControl(h.msg, c.csid) THEN "refused" ELSE "ok")
      /\ got' = (IF h.msg.done /\ ~BadControl(h.msg, c.csid) THEN Append(got, h.msg) ELSE got)
      /\ chunkSize' = IF h.msg.done /\ h.msg.hdr.messageTypeID = 1 THEN Announced(h.msg)
                      ELSE chunkSize
  BY <1>4, <1>6 DEF Receive, q
<1> HIDE DEF h, k
<1>9. chunkSize' = IF c.type = 1 THEN sent[c.id].size ELSE chunkSize
  <2>1. CASE Completes(c)
    <3>1. Announced(h.msg) = sent[c.id].size BY <1>6, <2>1 DEF Announced, IdOf
    <3>2. h.msg.done /\ h.msg.hdr.messageTypeID = c.type BY <1>6, <2>1 DEF HasShape
    <3> QED BY <1>8, <3>1, <3>2
  <2>2. CASE ~Completes(c) BY <1>2, <1>6, <1>8, <2>2
  <2> QED BY <2>1, <2>2
<1>10. chunkSize' \in FitSizes
  BY <1>1, <1>2, <1>3, <1>9 DEF TypeOK
<1>11. Seen(u)'
  <2>1. collector' = [collector EXCEPT ![c.sid] = h.ms] /\ sent' = sent /\ c.sid \in Sids
    BY <1>2, <1>3, <1>5, <1>8
  <2> DEFINE cs == q.cs
             ms == h.ms
  <2>2. /\ cs \in Streams /\ ms \in Collectors /\ streams' = [streams EXCEPT ![c.csid] = cs]
        /\ collector' = [collector EXCEPT ![c.sid] = ms]
        /\ cs.known /\ cs.remain = c.len - (Off(c.data) + Len(c.data)) /\ HasShape(cs.hdr, c)
        /\ cs.hdr.timestamp = IF r.pos = 0 THEN ClockAfter(streams[c.csid].hdr.timestamp, c)
                              ELSE streams[c.csid].hdr.timestamp
        /\ ms.known /\ (Completes(c) => Idle(ms))
        /\ ~Completes(c) => Collecting(ms, c, c.id, Off(c.data) + Len(c.data))
    BY <1>4, <1>6, <1>8, <2>1
  <2> HIDE DEF cs, ms
  <2> QED BY <1>1, <1>9, <2>1, <2>2, SeenAfter
<1>12. IF Completes(c)
       THEN \E g \in [done : BOOLEAN, hdr : Headers, data : Seq(Units)] :
              /\ got' = Append(got, g) /\ IsMessage(g, c.id) /\ IdOf(g) = c.id
       ELSE got' = got
  <2>1. CASE Completes(c)
    <3>1. IsMessage(h.msg, c.id) BY <1>2, <1>6, <2>1 DEF IsMessage, HasShape
    <3>2. got' = Append(got, h.msg) BY <1>6, <1>7, <1>8, <2>1
    <3> QED BY <1>6, <2>1, <3>1, <3>2
  <2>2. CASE ~Completes(c) BY <1>6, <1>8, <2>2
  <2> QED BY <2>1, <2>2
<1>13. /\ streams' \in [Csids -> Streams] /\ collector' \in [Sids -> Collectors]
       /\ \A d \in Csids : streams'[d].hdr.timestamp \in Nat
  BY <1>1, <1>2, <1>3, <1>4, <1>5, <1>6, <1>8 DEF TypeOK
<1> QED BY <1>7, <1>8, <1>10, <1>11, <1>12, <1>13

\* A message moves from the wire to the delivered ones with its last chunk.
LEMMA ReceivePlace ==
    ASSUME TypeOK, OnePlace, GotInv, wire # <<>>, wire' = Tail(wire),
           UNCHANGED <<side, packVars, buf, sent>>,
           NEW c, c = Head(wire), c.id \in 1 .. Len(sent),
           IF Completes(c)
           THEN \E g \in [done : BOOLEAN, hdr : Headers, data : Seq(Units)] :
                  /\ got' = Append(got, g) /\ IsMessage(g, c.id) /\ IdOf(g) = c.id
           ELSE got' = got
    PROVE  OnePlace' /\ GotInv' /\ got' \in Seq([done : BOOLEAN, hdr : Headers, data : Seq(Units)])
<1>1. /\ OnceEach(wire')
      /\ FinalIds(wire) = FinalIds(wire') \cup (IF Completes(c) THEN {c.id} ELSE {})
      /\ Completes(c) => c.id \notin FinalIds(wire')
  BY FinalTail DEF OnePlace, TypeOK
<1>2. /\ job' = job /\ sent' = sent /\ side' = side /\ buf' = buf
      /\ \A w \in side : Held(w)' = Held(w)
  BY DEF packVars, Held
<1>3. CASE ~Completes(c)
  <2>1. got' = got /\ FinalIds(wire') = FinalIds(wire) BY <1>1, <1>3
  <2>2. GotIds' = GotIds BY <2>1 DEF GotIds
  <2>3. GotInv' BY <1>2, <2>1 DEF GotInv, IsMessage
  <2>4. OnePlace' BY <1>1, <1>2, <2>1, <2>2 DEF OnePlace
  <2> QED BY <2>1, <2>3, <2>4 DEF TypeOK
<1>4. CASE Completes(c)
  <2>1. PICK g \in [done : BOOLEAN, hdr : Headers, data : Seq(Units)] :
          got' = Append(got, g) /\ IsMessage(g, c.id) /\ IdOf(g) = c.id
    BY <1>4
  <2>2. /\ got \in Seq([done : BOOLEAN, hdr : Headers, data : Seq(Units)])
        /\ Len(got) \in Nat /\ Len(got') = Len(got) + 1 /\ got'[Len(got) + 1] = g
        /\ \A i \in 1 .. Len(got) : got'[i] = got[i]
        /\ got' \in Seq([done : BOOLEAN, hdr : Headers, data : Seq(Units)])
    BY <2>1 DEF TypeOK
  <2>3. c.id \notin GotIds /\ \A w \in side : c.id \notin Held(w)
    BY <1>1, <1>4 DEF OnePlace
  <2>4. GotIds' = GotIds \cup {c.id}
    <3>1. ASSUME NEW i \in 1 .. Len(got') PROVE IdOf(got'[i]) \in GotIds \cup {c.id}
      <4>1. CASE i = Len(got) + 1 BY <2>1, <2>2, <4>1
      <4>2. CASE i # Len(got) + 1
        <5>1. i \in 1 .. Len(got) BY <2>2, <4>2
        <5> QED BY <2>2, <5>1 DEF GotIds
      <4> QED BY <4>1, <4>2
    <3>2. ASSUME NEW i \in 1 .. Len(got) PROVE IdOf(got[i]) \in GotIds'
      <4>1. i \in 1 .. Len(got') /\ got'[i] = got[i] BY <2>2
      <4> QED BY <4>1 DEF GotIds
    <3>3. c.id \in GotIds'
      <4>1. Len(got) + 1 \in 1 .. Len(got') BY <2>2
      <4> QED BY <2>1, <2>2, <4>1 DEF GotIds
    <3> QED BY <3>1, <3>2, <3>3 DEF GotIds
  <2>5. \A i, j \in 1 .. Len(got') : IdOf(got'[i]) = IdOf(got'[j]) => i = j
    <3>1. ASSUME NEW i \in 1 .. Len(got), NEW j \in 1 .. Len(got'), j = Len(got) + 1
          PROVE  IdOf(got'[i]) # IdOf(got'[j])
      <4>1. IdOf(got'[i]) \in GotIds BY <2>2 DEF GotIds
      <4> QED BY <2>1, <2>2, <2>3, <3>1, <4>1
    <3>2. \A i \in 1 .. Len(got') : i = Len(got) + 1 \/ i \in 1 .. Len(got) BY <2>2
    <3>3. ASSUME NEW i \in 1 .. Len(got), NEW j \in 1 .. Len(got), IdOf(got'[i]) = IdOf(got'[j])
          PROVE  i = j
      BY <2>2, <3>3 DEF OnePlace
    <3> QED BY <3>1, <3>2, <3>3
  <2>6. GotInv'
    <3> SUFFICES ASSUME NEW i \in 1 .. Len(got')
                 PROVE  /\ IdOf(got'[i]) \in 1 .. Len(sent)
                        /\ IsMessage(got'[i], IdOf(got'[i]))
      BY <1>2 DEF GotInv, IsMessage
    <3>1. CASE i = Len(got) + 1 BY <2>1, <2>2, <3>1
    <3>2. CASE i # Len(got) + 1
      <4>1. i \in 1 .. Len(got) BY <2>2, <3>2
      <4> QED BY <2>2, <4>1 DEF GotInv
    <3> QED BY <3>1, <3>2
  <2>7. FinalIds(wire) = FinalIds(wire') \cup {c.id} /\ c.id \notin FinalIds(wire')
    BY <1>1, <1>4
  <2>8. /\ GotIds' \cup FinalIds(wire') = GotIds \cup FinalIds(wire)
        /\ GotIds' \cap FinalIds(wire') = {}
    BY <2>3, <2>4, <2>7 DEF OnePlace
  <2>9. OnePlace'
    BY <1>1, <1>2, <2>5, <2>8 DEF OnePlace
  <2> QED BY <2>2, <2>6, <2>9
<1> QED BY <1>3, <1>4

\* Receive keeps the invariant.
LEMMA ReceiveKeeps ==
    ASSUME Tame, side \in Sides, OwnSide, OwnInv, Receive
    PROVE  OwnInv'
<1>1. PICK r \in Views, m \in Views : Follows(r, m) BY DEF OwnInv
<1>2. /\ TypeOK /\ SentInv /\ GotInv /\ OnePlace /\ PackerInv BY DEF OwnInv
<1>3. wire # <<>> /\ wire \in Seq(Chunks) BY <1>2 DEF Receive, TypeOK
<1>4. PICK c \in Chunks : c = Head(wire) BY <1>3
<1>5. /\ Seen(r) /\ CanRead(sent, r, c) /\ AfterRead(sent, r, c) \in Views
      /\ Chain(sent, AfterRead(sent, r, c), Tail(wire), m)
  BY <1>1, <1>3, <1>4, ChainHead DEF Follows
<1>6. PICK u \in Views : u = AfterRead(sent, r, c) BY <1>5
<1>7. /\ wire' = Tail(wire) /\ reader' = "ok"
      /\ UNCHANGED <<side, packVars, buf, sent>>
      /\ IF Completes(c)
         THEN \E g \in [done : BOOLEAN, hdr : Headers, data : Seq(Units)] :
                /\ got' = Append(got, g) /\ IsMessage(g, c.id) /\ IdOf(g) = c.id
         ELSE got' = got
      /\ Seen(u)' /\ chunkSize' \in FitSizes
      /\ streams' \in [Csids -> Streams] /\ collector' \in [Sids -> Collectors]
      /\ \A d \in Csids : streams'[d].hdr.timestamp \in Nat
  BY <1>4, <1>5, <1>6, ReceiveEffect
<1>8. c.id \in 1 .. Len(sent) BY <1>5 DEF CanRead, Valid
<1>9. OnePlace' /\ GotInv' /\ got' \in Seq([done : BOOLEAN, hdr : Headers, data : Seq(Units)])
  BY <1>2, <1>3, <1>4, <1>7, <1>8, ReceivePlace
<1>10. /\ side' = side /\ sendChunkSize' = sendChunkSize /\ sendStreams' = sendStreams
       /\ job' = job /\ base' = base /\ buf' = buf /\ sent' = sent
  BY <1>7 DEF packVars
<1>11. TypeOK'
  <2>1. wire' \in Seq(Chunks) BY <1>3, <1>7
  <2> QED BY <1>2, <1>7, <1>9, <1>10, <2>1 DEF TypeOK
<1>12. SentInv' BY <1>2, <1>10 DEF SentInv
<1>13. PackerInv' BY <1>2, <1>10 DEF PackerInv, Announcing
<1>14. Follows(u, m)'
  <2>1. Chain(sent', u, wire', m) BY <1>5, <1>6, <1>7, <1>10
  <2>2. ASSUME NEW w \in side
        PROVE  \E b \in Views : Chain(sent', m, buf'[w], b) /\ Ready(w, m, b)'
    <3>1. PICK b \in Views : Chain(sent, m, buf[w], b) /\ Ready(w, m, b)
      BY <1>1 DEF Follows
    <3>2. Ready(w, m, b)' BY <1>10, <3>1 DEF Ready, Announcing, JobInv
    <3> QED BY <1>10, <3>1, <3>2
  <2> QED BY <1>1, <1>7, <1>10, <2>1, <2>2 DEF Follows
<1> QED BY <1>7, <1>9, <1>11, <1>12, <1>13, <1>14 DEF OwnInv

(***************************************************************************)
(* Write.                                                                  *)
(***************************************************************************)
\* Goroutines of one side use different chunk streams.
LEMMA OwnCsids ==
    ASSUME Tame, side \in Sides, NEW v \in side
    PROVE  CsidsOf(v) \subseteq Csids /\ \A w \in side : w # v => CsidsOf(v) \cap CsidsOf(w) = {}
<1>1. v \in Writers /\ Offers[v] \subseteq Messages BY WriterAssumption
<1>2. \A m \in Offers[v] : CsidOf(m.type) \in Csids BY <1>1, CsidFacts DEF Messages
<1> QED BY <1>2 DEF CsidsOf, Tame

\* A goroutine that announces a chunk size is in the middle of that message or
\* has it in its buffer.
LEMMA AnnouncingFacts ==
    ASSUME NEW v \in Writers, buf \in [Writers -> Seq(Chunks)]
    PROVE  Announcing(v) <=> \/ job[v].hdr.messageTypeID = 1
                             \/ \E i \in 1 .. Len(buf[v]) : buf[v][i].type = 1
<1>1. DOMAIN buf[v] = 1 .. Len(buf[v]) OBVIOUS
<1> QED BY <1>1 DEF Announcing

\* The messages of the buffer are now on the wire.
LEMMA WritePlace ==
    ASSUME TypeOK, OnePlace, side \subseteq Writers, NEW w \in side, Write(w)
    PROVE  OnePlace'
<1>1. /\ job[w] = NoJob /\ wire' = wire \o buf[w] /\ buf' = [buf EXCEPT ![w] = <<>>]
      /\ job' = job /\ got' = got /\ sent' = sent /\ side' = side
  BY DEF Write, packVars, readVars
<1>2. wire \in Seq(Chunks) /\ buf[w] \in Seq(Chunks) /\ buf \in [Writers -> Seq(Chunks)]
  BY DEF TypeOK
<1>3. Held(w) = FinalIds(buf[w]) BY <1>1 DEF Held
<1>4. FinalIds(wire) \cap FinalIds(buf[w]) = {} /\ OnceEach(wire) /\ OnceEach(buf[w])
  BY <1>3 DEF OnePlace
<1>5. OnceEach(wire') /\ FinalIds(wire') = FinalIds(wire) \cup Held(w)
  BY <1>1, <1>2, <1>3, <1>4, FinalConcat
<1>6. buf'[w] = <<>> /\ \A v \in side \ {w} : buf'[v] = buf[v] BY <1>1, <1>2
<1>7. FinalIds(<<>>) = {} /\ OnceEach(<<>>) BY DEF FinalIds, OnceEach
<1>8. Held(w)' = {} /\ \A v \in side \ {w} : Held(v)' = Held(v)
  BY <1>1, <1>6, <1>7 DEF Held
<1>9. GotIds' = GotIds BY <1>1 DEF GotIds
<1>10. UNION {Held(v) : v \in side} = Held(w) \cup UNION {Held(v)' : v \in side}
  BY <1>8
<1>11. /\ \A v \in side : OnceEach(buf[v])'
       /\ \A v \in side : job'[v] # NoJob => job'[v].id \notin FinalIds(buf'[v])
  BY <1>1, <1>6, <1>7 DEF OnePlace
<1>12. GotIds' \cap FinalIds(wire') = {}
  BY <1>5, <1>9 DEF OnePlace
<1>13. \A v \in side : Held(v)' \cap (GotIds' \cup FinalIds(wire')) = {}
  BY <1>5, <1>8, <1>9 DEF OnePlace
<1>14. \A u, v \in side : u # v => Held(u)' \cap Held(v)' = {}
  BY <1>8 DEF OnePlace
<1>15. 1 .. Len(sent) = GotIds \cup FinalIds(wire') \cup UNION {Held(v)' : v \in side}
  BY <1>5, <1>10 DEF OnePlace
<1> QED BY <1>1, <1>5, <1>9, <1>11, <1>12, <1>13, <1>14, <1>15 DEF OnePlace

\* Write keeps the invariant.
LEMMA WriteKeeps ==
    ASSUME Tame, side \in Sides, OwnSide, OwnInv, NEW w \in side, Write(w)
    PROVE  OwnInv'
<1>1. PICK r \in Views, m \in Views : Follows(r, m) BY DEF OwnInv
<1>2. /\ TypeOK /\ SentInv /\ GotInv /\ OnePlace /\ PackerInv /\ reader = "ok" BY DEF OwnInv
<1>3. side \subseteq Writers BY WriterAssumption
<1>4. /\ job[w] = NoJob /\ buf[w] # <<>> /\ wire' = wire \o buf[w]
      /\ buf' = [buf EXCEPT ![w] = <<>>]
      /\ side' = side /\ sendChunkSize' = sendChunkSize /\ sendStreams' = sendStreams
      /\ job' = job /\ base' = base /\ sent' = sent /\ chunkSize' = chunkSize
      /\ streams' = streams /\ collector' = collector /\ reader' = reader /\ got' = got
  BY DEF Write, packVars, readVars
<1>5. buf \in [Writers -> Seq(Chunks)] /\ wire \in Seq(Chunks) /\ buf[w] \in Seq(Chunks)
  BY <1>2, <1>3 DEF TypeOK
<1>6. buf'[w] = <<>> /\ \A v \in side \ {w} : buf'[v] = buf[v] BY <1>3, <1>4, <1>5
<1>7. PICK n \in Views : Chain(sent, m, buf[w], n) /\ Ready(w, m, n) BY <1>1 DEF Follows
<1>8. n.pos = 0 /\ n.id = 0 BY <1>4, <1>7 DEF Ready
<1>9. \A v \in side \ {w} : ~Announcing(v) BY <1>2, <1>4 DEF PackerInv
<1>10. \A v \in side \ {w} : ~Announcing(v)' BY <1>4, <1>6, <1>9 DEF Announcing
<1>11. job[w].hdr.messageTypeID = 0 BY <1>4 DEF NoJob, Header
<1>12. n.size = sendChunkSize BY <1>7, <1>9, <1>11 DEF Ready
<1>13. OnePlace' BY <1>2, <1>3, WritePlace
<1>14. GotInv' BY <1>2, <1>4 DEF GotInv, IsMessage
<1>15. SentInv' BY <1>2, <1>4 DEF SentInv
<1>16. TypeOK'
  <2>3. <<>> \in Seq(Chunks) OBVIOUS
  <2>1. buf' \in [Writers -> Seq(Chunks)] BY <1>4, <1>5, <2>3
  <2>2. wire' \in Seq(Chunks) BY <1>4, <1>5
  <2> QED BY <1>2, <1>4, <2>1, <2>2 DEF TypeOK
<1>17. ~Announcing(w)'
  <2>1. DOMAIN buf'[w] = {} BY <1>6
  <2> QED BY <1>4, <1>11, <2>1 DEF Announcing
<1>18. PackerInv' BY <1>2, <1>4, <1>10, <1>17 DEF PackerInv
<1>19. Seen(r)' BY <1>1, <1>4 DEF Follows, Seen, Between, Within
<1>20. Chain(sent', r, wire', n)
  BY <1>1, <1>4, <1>5, <1>7, ChainConcat DEF Follows
<1>21. Chain(sent', n, buf'[w], n) /\ Ready(w, n, n)'
  <2>1. Chain(sent', n, buf'[w], n) BY <1>6, ChainNone
  <2>2. Len(buf'[w]) = 0 BY <1>6
  <2>3. \A c \in CsidsOf(w) : Agrees(n.strm[c], sendStreams[c], base[c]) BY <1>7 DEF Ready
  <2> QED BY <1>4, <1>8, <1>12, <2>1, <2>2, <2>3 DEF Ready
<1>22. ASSUME NEW v \in side, v # w
       PROVE  \E b \in Views : Chain(sent', n, buf'[v], b) /\ Ready(v, n, b)'
  <2>1. PICK b \in Views : Chain(sent, m, buf[v], b) /\ Ready(v, m, b) BY <1>1 DEF Follows
  <2>2. buf'[v] = buf[v] /\ buf[v] \in Seq(Chunks) /\ v \in Writers /\ w \in Writers
    BY <1>3, <1>5, <1>6, <1>22
  <2>3. CsidsOf(v) \subseteq Csids /\ CsidsOf(v) \cap CsidsOf(w) = {} BY <1>22, OwnCsids
  <2>4. \A c \in CsidsOf(v) : n.strm[c] = m.strm[c] BY <1>7, <2>3 DEF Ready
  <2>5. CASE Announcing(w)
    <3>1. job[v] = NoJob /\ buf[v] = <<>> BY <1>2, <1>22, <2>5 DEF PackerInv
    <3>2. b = m BY <2>1, <3>1, ChainEmpty
    <3>3. Chain(sent', n, buf'[v], n) BY <2>2, <3>1, ChainNone
    <3>4. Len(buf'[v]) = 0 BY <2>2, <3>1
    <3>5. \A c \in CsidsOf(v) : Agrees(n.strm[c], sendStreams[c], base[c])
      BY <2>1, <2>4, <3>2 DEF Ready
    <3>6. Ready(v, n, n)'
      BY <1>4, <1>8, <1>12, <3>1, <3>4, <3>5 DEF Ready
    <3> QED BY <3>3, <3>6
  <2>6. CASE ~Announcing(w)
    <3>1. n.size = m.size
      BY <1>5, <1>7, <2>2, <2>6, AnnouncingFacts DEF Ready
    <3> DEFINE x == Mix(b, n, CsidsOf(v))
    <3>2. /\ Chain(sent, n, buf[v], x) /\ x \in Views
      <4>1. /\ n.id = m.id /\ n.pos = m.pos BY <1>1, <1>8 DEF Follows
      <4>2. \A i \in 1 .. Len(buf[v]) : buf[v][i].csid \in CsidsOf(v) BY <2>1 DEF Ready
      <4> QED BY <2>1, <2>2, <2>4, <3>1, <4>1, <4>2, ChainFrame
    <3>3. /\ x.size = b.size /\ x.id = b.id /\ x.pos = b.pos
          /\ \A c \in Csids : x.strm[c] = IF c \in CsidsOf(v) THEN b.strm[c] ELSE n.strm[c]
      BY DEF Mix
    <3> HIDE DEF x
    <3>4. (\A u \in side \ {v} : ~Announcing(u))' => \A u \in side \ {v} : ~Announcing(u)
      BY <1>4, <1>9, <2>6
    <3>5. /\ \A i \in 1 .. Len(buf'[v]) : buf'[v][i].csid \in CsidsOf(v)
          /\ \A c \in Csids \ CsidsOf(v) : x.strm[c] = n.strm[c]
          /\ (\A i \in 1 .. Len(buf'[v]) : buf'[v][i].type # 1) => x.size = n.size
      BY <2>1, <2>2, <3>1, <3>3 DEF Ready
    <3>6. (\A u \in side \ {v} : ~Announcing(u)) /\ job[v].hdr.messageTypeID # 1 =>
            x.size = sendChunkSize
      BY <2>1, <3>3 DEF Ready
    <3>7. \A c \in CsidsOf(v) : Agrees(x.strm[c], sendStreams[c], base[c])
      BY <2>1, <2>3, <3>3 DEF Ready
    <3>8. /\ job[v] = NoJob => x.pos = 0 /\ x.id = 0
          /\ job[v] # NoJob =>
               /\ JobInv(job[v], sent[job[v].id], v)'
               /\ x.pos = Off(job[v].todo[1]) /\ x.id = IF x.pos = 0 THEN 0 ELSE job[v].id
      BY <1>4, <2>1, <3>3 DEF Ready, JobInv
    <3>9. Ready(v, n, x)'
      BY <1>4, <3>4, <3>5, <3>6, <3>7, <3>8 DEF Ready
    <3> QED BY <1>4, <2>2, <3>2, <3>9
  <2> QED BY <2>5, <2>6
<1>23. Follows(r, n)'
  BY <1>4, <1>8, <1>19, <1>20, <1>21, <1>22 DEF Follows
<1> QED BY <1>2, <1>4, <1>13, <1>14, <1>15, <1>16, <1>18, <1>23 DEF OwnInv

(***************************************************************************)
(* SerializerChunk.                                                        *)
(***************************************************************************)
\* A small number is its own remainder.
LEMMA SmallMod ==
    ASSUME NEW a \in Nat, NEW n \in Nat, a < n
    PROVE  a % n = a
OBVIOUS

\* What one turn of the loop may start from: the job j of message m on the
\* chunk stream cs, which the receiver will remember as s, with base t.
Turn(z, j, m, cs, s, t) ==
    /\ j \in Jobs /\ cs \in Streams /\ s \in Shapes /\ t \in Nat /\ m \in Messages
    /\ j.id \in 1 .. Len(z) /\ m = z[j.id] /\ m.type \in TypeIDs
    /\ HasShape(j.hdr, m) /\ j.hdr.timestamp = m.ts /\ m.ts < Limit24
    /\ j.csid = CsidOf(m.type) /\ j.csid \in Csids
    /\ j.todo # <<>> /\ IsPiece(j.todo[1], j.id, m.len)
    /\ m.type = 1 => Off(j.todo[1]) = 0 /\ Len(j.todo[1]) = m.len
    /\ Off(j.todo[1]) = 0 => j.hdr.timeDelta = 0
    /\ Off(j.todo[1]) > 0 => Midway(j, cs, t)
    /\ Agrees(s, cs, t)
    /\ cs.known => cs.hdr.timestamp \in Nat /\ cs.hdr.timestamp <= m.ts

\* What it may leave, having written c: the chunk stream, the job and the base.
Turned(z, j, m, cs, s, t, c, cs2, j2, t2) ==
    /\ Valid(z, c) /\ c.id = j.id /\ c.csid = j.csid /\ c.data = j.todo[1]
    /\ Off(j.todo[1]) = 0 /\ c.fmt # 0 => s.known /\ s.sid = c.sid
    /\ Off(j.todo[1]) = 0 /\ c.fmt > 1 => s.len = c.len /\ s.type = c.type
    /\ cs2 \in Streams /\ cs2.known
    /\ cs2.hdr.timestamp = m.ts \/ (cs.known /\ cs2.hdr.timestamp = cs.hdr.timestamp)
    /\ j2 \in Jobs /\ j2.id = j.id /\ j2.csid = j.csid /\ j2.todo = j.todo
    /\ HasShape(j2.hdr, m) /\ j2.hdr.timestamp = m.ts
    /\ t2 \in Nat /\ t2 = IF c.fmt = 0 THEN j.hdr.timestamp ELSE t
    /\ Midway(j2, cs2, t2)
    /\ Off(j.todo[1]) > 0 => Agrees(s, cs2, t2)
    /\ Off(j.todo[1]) = 0 =>
         Agrees([known |-> TRUE, len |-> c.len, type |-> c.type, sid |-> c.sid,
                 clock |-> ClockAfter(s.clock, c)], cs2, t2)

\* A chunk of a turn, with any of the four headers.
LEMMA TurnChunk ==
    ASSUME NEW z, NEW j, NEW m, NEW cs, NEW s, NEW t, Turn(z, j, m, cs, s, t),
           NEW fmt \in 0 .. 3, NEW ts \in Nat, ts < Limit24,
           NEW h, h.id = j.id, h.csid = j.csid, h.todo = j.todo, HasShape(h.hdr, m)
    PROVE  LET c == Wire(h, fmt, ts, NoExt)
           IN  /\ Valid(z, c) /\ c.id = j.id /\ c.csid = j.csid /\ c.data = j.todo[1]
               /\ c.fmt = fmt /\ c.ts24 = ts /\ c.len = m.len /\ c.type = m.type /\ c.sid = m.sid
<1> DEFINE c == Wire(h, fmt, ts, NoExt)
<1>1. /\ j.todo \in Seq(Seq(Units)) /\ j.todo # <<>> BY DEF Turn, Jobs
<1>2. Head(h.todo) = j.todo[1] /\ j.todo[1] \in Seq(Units) BY <1>1
<1>3. c = [id |-> j.id, fmt |-> fmt, csid |-> j.csid, ts24 |-> ts, ext |-> NoExt,
           len |-> m.len, type |-> m.type, sid |-> m.sid, data |-> j.todo[1]]
  BY <1>2 DEF Wire, HasShape
<1>4. /\ c.id = j.id /\ c.csid = j.csid /\ c.data = j.todo[1] /\ c.ext = NoExt
      /\ c.fmt = fmt /\ c.ts24 = ts /\ c.len = m.len /\ c.type = m.type /\ c.sid = m.sid
  BY <1>3
<1>5. /\ m.len \in Nat /\ m.type \in Nat /\ m.sid \in Nat /\ j.id \in Nat /\ j.csid \in Csids
  BY DEF Turn, Messages, TypeIDs, Jobs
<1>6. c \in Chunks BY <1>2, <1>3, <1>5 DEF Chunks, NoExt
<1> HIDE DEF c
<1>7. Valid(z, c) BY <1>4, <1>6 DEF Valid, Turn
<1> QED BY <1>4, <1>7 DEF c

\* The difference to the last timestamp fits its field, and brings the
\* receiver's clock to the message's time, less the base.
LEMMA TurnDelta ==
    ASSUME NEW z, NEW j, NEW m, NEW cs, NEW s, NEW t, Turn(z, j, m, cs, s, t), cs.known
    PROVE  /\ TimeDelta(j, cs) = m.ts - cs.hdr.timestamp
           /\ TimeDelta(j, cs) \in Nat /\ TimeDelta(j, cs) < Limit24
           /\ TimeDelta(j, cs) % (Limit24 + 1) = TimeDelta(j, cs)
           /\ (s.clock + TimeDelta(j, cs)) % Wrap32 = s.clock + TimeDelta(j, cs)
           /\ s.clock + TimeDelta(j, cs) + t = m.ts
<1>1. /\ m.ts \in Nat /\ cs.hdr.timestamp \in Nat /\ cs.hdr.timestamp <= m.ts
      /\ m.ts < Limit24 /\ j.hdr.timestamp = m.ts
      /\ s.clock \in Nat /\ t \in Nat /\ s.clock + t = cs.hdr.timestamp
  BY DEF Turn, Messages, Agrees, Shapes
<1>2. Limit24 \in Nat /\ Wrap32 \in Nat /\ Wrap32 > Limit24 BY SizeAssumption
<1> DEFINE d == m.ts - cs.hdr.timestamp
<1>3. d \in Nat /\ d < Limit24 /\ d < Wrap32 /\ d < Limit24 + 1 /\ s.clock + d \in Nat
      /\ s.clock + d < Wrap32 /\ s.clock + d + t = m.ts
  BY <1>1, <1>2
<1> HIDE DEF d
<1>4. TimeDelta(j, cs) = d
  <2>1. d % Wrap32 = d BY <1>2, <1>3, SmallMod
  <2> QED BY <1>1, <2>1 DEF TimeDelta, d
<1>5. d % (Limit24 + 1) = d BY <1>2, <1>3, SmallMod
<1>6. (s.clock + d) % Wrap32 = s.clock + d BY <1>2, <1>3, SmallMod
<1> QED BY <1>3, <1>4, <1>5, <1>6 DEF d

\* Every header SerializerChunk chooses is completed to the right one, and it
\* remembers what the receiver will.
LEMMA SerializeFacts ==
    ASSUME NEW z, NEW j, NEW m, NEW cs, NEW s, NEW t, Turn(z, j, m, cs, s, t)
    PROVE  LET R == SerializeOne(j, cs)
           IN  Turned(z, j, m, cs, s, t, R.out, R.cs, R.job,
                      IF R.out.fmt = 0 THEN j.hdr.timestamp ELSE t)
<1> DEFINE R == SerializeOne(j, cs)
           delta == TimeDelta(j, cs)
           h == [j EXCEPT !.hdr.timeDelta = delta]
<1>1. /\ j \in Jobs /\ cs \in Streams /\ s \in Shapes /\ t \in Nat
      /\ HasShape(j.hdr, m) /\ j.hdr.timestamp = m.ts /\ m.ts \in Nat /\ m.ts < Limit24
      /\ Off(j.todo[1]) \in Nat
      /\ j.hdr \in Headers /\ cs.hdr \in Headers
      /\ Off(j.todo[1]) = 0 => j.hdr.timeDelta = 0
      /\ Off(j.todo[1]) > 0 => Midway(j, cs, t)
      /\ Agrees(s, cs, t)
  BY DEF Turn, Messages, IsPiece, Jobs, Streams
<1>2. Limit24 \in Nat /\ Limit24 > 0 BY SizeAssumption
<1>3. CASE NeedsType0(j, cs)
  <2>1. j.hdr.timeDelta = 0 BY <1>1, <1>3 DEF Midway, NeedsType0
  <2>2. R = [cs |-> [cs EXCEPT !.hdr = j.hdr, !.known = TRUE], job |-> j,
             out |-> SerializerType0(j)]
    BY <1>3 DEF SerializeOne
  <2>3. SerializerType0(j) = Wire(j, 0, 0, NoExt)
    <3>1. 0 % (Limit24 + 1) = 0 BY <1>2, SmallMod
    <3>2. ~(j.hdr.timestamp > Limit24) BY <1>1, <1>2
    <3> QED BY <2>1, <3>1, <3>2 DEF SerializerType0
  <2> DEFINE c == Wire(j, 0, 0, NoExt)
  <2>4. /\ Valid(z, c) /\ c.id = j.id /\ c.csid = j.csid /\ c.data = j.todo[1]
        /\ c.fmt = 0 /\ c.ts24 = 0 /\ c.len = m.len /\ c.type = m.type /\ c.sid = m.sid
    BY <1>1, <1>2, TurnChunk
  <2> HIDE DEF c
  <2> DEFINE cs2 == [cs EXCEPT !.hdr = j.hdr, !.known = TRUE]
             t2 == j.hdr.timestamp
  <2>5. cs2 \in Streams /\ cs2.known /\ cs2.hdr = j.hdr BY <1>1 DEF Streams
  <2> HIDE DEF cs2
  <2>6. Midway(j, cs2, t2)
    BY <2>1, <2>5 DEF Midway, SameShape
  <2>7. ASSUME Off(j.todo[1]) > 0 PROVE Agrees(s, cs2, t2)
    <3>1. Midway(j, cs, t) BY <1>1, <2>7
    <3>2. IsProtoCtrlMsg(j) BY <1>3, <3>1 DEF Midway, NeedsType0
    <3>3. cs.known /\ cs.hdr = j.hdr /\ t = t2 BY <3>1, <3>2 DEF Midway
    <3>4. cs2.known = cs.known BY <2>5, <3>3 DEF cs2
    <3> QED BY <1>1, <2>5, <3>3, <3>4 DEF Agrees
  <2>8. Agrees([known |-> TRUE, len |-> c.len, type |-> c.type, sid |-> c.sid,
                clock |-> ClockAfter(s.clock, c)], cs2, t2)
    <3>1. ClockAfter(s.clock, c) = 0 BY <2>4 DEF ClockAfter
    <3>2. cs2.known = TRUE BY <1>1 DEF cs2, Streams
    <3> QED BY <1>1, <2>4, <2>5, <3>1, <3>2 DEF Agrees, HasShape
  <2>9. R.out = c /\ R.cs = cs2 /\ R.job = j BY <2>2, <2>3 DEF c, cs2
  <2> HIDE DEF R
  <2>10. Turned(z, j, m, cs, s, t, c, cs2, j, t2)
    BY <1>1, <2>4, <2>5, <2>6, <2>7, <2>8 DEF Turned
  <2> QED BY <2>4, <2>9, <2>10 DEF R
<1>4. ASSUME ~NeedsType0(j, cs)
      PROVE  /\ cs.known /\ cs.hdr.messageStreamID = j.hdr.messageStreamID /\ ~IsProtoCtrlMsg(j)
             /\ s.known /\ s.sid = m.sid
  BY <1>1, <1>4 DEF NeedsType0, Agrees, HasShape
<1>5. CASE /\ ~NeedsType0(j, cs) /\ MayOmit(j, cs)
           /\ cs.hdr.timestamp = j.hdr.timestamp \/ cs.hdr.timeDelta = delta
  <2>1. R = [cs |-> cs, job |-> j, out |-> SerializerType3(j)]
    BY <1>5 DEF SerializeOne
  <2> DEFINE c == SerializerType3(j)
  <2>2. /\ Valid(z, c) /\ c.id = j.id /\ c.csid = j.csid /\ c.data = j.todo[1]
        /\ c.fmt = 3 /\ c.ts24 = 0 /\ c.len = m.len /\ c.type = m.type /\ c.sid = m.sid
    BY <1>1, <1>2, TurnChunk DEF SerializerType3
  <2> HIDE DEF c
  <2>3. Midway(j, cs, t) BY <1>4, <1>5 DEF Midway, MayOmit
  <2>4. s.len = c.len /\ s.type = c.type /\ s.sid = c.sid /\ s.known
    BY <1>1, <1>4, <1>5, <2>2 DEF MayOmit, SameShape, Agrees, HasShape
  <2>5. Agrees([known |-> TRUE, len |-> c.len, type |-> c.type, sid |-> c.sid,
                clock |-> ClockAfter(s.clock, c)], cs, t)
    <3>1. ClockAfter(s.clock, c) = s.clock BY <2>2 DEF ClockAfter
    <3>2. s = [known |-> TRUE, len |-> c.len, type |-> c.type, sid |-> c.sid, clock |-> s.clock]
      BY <1>1, <2>4 DEF Shapes
    <3> QED BY <1>1, <3>1, <3>2
  <2>6. R.out = c /\ R.cs = cs /\ R.job = j BY <2>1 DEF c
  <2> HIDE DEF R
  <2>7. Turned(z, j, m, cs, s, t, c, cs, j, t)
    BY <1>1, <1>4, <1>5, <2>2, <2>3, <2>4, <2>5 DEF Turned
  <2> QED BY <2>2, <2>6, <2>7 DEF R
<1>6. ASSUME ~NeedsType0(j, cs), NEW c, NEW fmt \in {1, 2},
             Valid(z, c), c.id = j.id, c.csid = j.csid, c.data = j.todo[1],
             c.fmt = fmt, c.ts24 = delta, c.len = m.len, c.type = m.type, c.sid = m.sid,
             fmt = 2 => MayOmit(j, cs),
             ~(/\ MayOmit(j, cs)
               /\ cs.hdr.timestamp = j.hdr.timestamp \/ cs.hdr.timeDelta = delta)
      PROVE  Turned(z, j, m, cs, s, t, c, Remember(cs, j, delta), h, t)
  <2>1. Off(j.todo[1]) = 0
    BY <1>1, <1>4, <1>6 DEF Midway, MayOmit
  <2>2. cs.known BY <1>4, <1>6
  <2>3. /\ delta \in Nat /\ (s.clock + delta) % Wrap32 = s.clock + delta
        /\ s.clock + delta + t = m.ts
    BY <2>2, TurnDelta
  <2> DEFINE cs2 == Remember(cs, j, delta)
  <2> HIDE DEF delta
  <2>4. /\ cs2 \in Streams /\ cs2.known /\ cs2.hdr = h.hdr
        /\ h \in Jobs /\ h.id = j.id /\ h.csid = j.csid /\ h.todo = j.todo
        /\ h.hdr = [j.hdr EXCEPT !.timeDelta = delta]
    <3> DEFINE g == [j.hdr EXCEPT !.timeDelta = delta]
    <3>1. g \in Headers BY <1>1, <2>3 DEF Headers
    <3>2. h = [j EXCEPT !.hdr = g] BY <1>1 DEF Jobs
    <3>3. cs2 = [cs EXCEPT !.hdr = g] BY DEF Remember
    <3> HIDE DEF g, h, cs2
    <3>4. cs2 \in Streams /\ cs2.known /\ cs2.hdr = g BY <1>1, <2>2, <3>1, <3>3 DEF Streams
    <3>5. h \in Jobs /\ h.hdr = g /\ h.id = j.id /\ h.csid = j.csid /\ h.todo = j.todo
      BY <1>1, <3>1, <3>2 DEF Jobs
    <3> QED BY <3>4, <3>5 DEF g
  <2> HIDE DEF cs2, h
  <2>5. HasShape(h.hdr, m) /\ h.hdr.timestamp = m.ts
    BY <1>1, <2>4 DEF HasShape, Headers
  <2>6. ~IsProtoCtrlMsg(h)
    <3>1. /\ h.hdr.messageStreamID = j.hdr.messageStreamID
          /\ h.hdr.messageTypeID = j.hdr.messageTypeID
      BY <1>1, <2>5 DEF HasShape
    <3>2. ~IsProtoCtrlMsg(j) BY <1>4, <1>6
    <3> QED BY <2>4, <3>1, <3>2 DEF IsProtoCtrlMsg
  <2>7. Midway(h, cs2, t) BY <2>4, <2>6 DEF Midway, SameShape
  <2>8. Agrees([known |-> TRUE, len |-> c.len, type |-> c.type, sid |-> c.sid,
                clock |-> ClockAfter(s.clock, c)], cs2, t)
    <3>1. ClockAfter(s.clock, c) = s.clock + delta BY <1>6, <2>3 DEF ClockAfter
    <3>2. cs2.known = TRUE BY <2>4 DEF Streams
    <3> QED BY <1>6, <2>3, <2>4, <2>5, <3>1, <3>2 DEF Agrees, HasShape
  <2>9. fmt = 2 => s.len = c.len /\ s.type = c.type
    BY <1>1, <1>6, <2>2 DEF MayOmit, SameShape, Agrees, HasShape
  <2>10. s.known /\ s.sid = c.sid BY <1>4, <1>6
  <2>11. cs2.hdr.timestamp = m.ts BY <2>4, <2>5
  <2>12. fmt # 0 /\ (fmt > 1 => fmt = 2) BY <1>6
  <2> QED BY <1>1, <1>6, <2>1, <2>4, <2>5, <2>7, <2>8, <2>9, <2>10, <2>11, <2>12
          DEF Turned, cs2
<1>7. CASE /\ ~NeedsType0(j, cs) /\ MayOmit(j, cs)
           /\ ~(cs.hdr.timestamp = j.hdr.timestamp \/ cs.hdr.timeDelta = delta)
  <2>1. R = [cs |-> Remember(cs, j, delta), job |-> h, out |-> SerializerType2(h, delta)]
    BY <1>7 DEF SerializeOne
  <2>2. delta \in Nat /\ delta < Limit24 BY <1>4, <1>7, TurnDelta
  <2> DEFINE c == Wire(h, 2, delta, NoExt)
  <2>3. SerializerType2(h, delta) = c BY <2>2 DEF SerializerType2
  <2>4. h.id = j.id /\ h.csid = j.csid /\ h.todo = j.todo /\ HasShape(h.hdr, m)
    BY <1>1 DEF HasShape, Jobs, Headers
  <2> HIDE DEF h, delta
  <2>5. /\ Valid(z, c) /\ c.id = j.id /\ c.csid = j.csid /\ c.data = j.todo[1]
        /\ c.fmt = 2 /\ c.ts24 = delta /\ c.len = m.len /\ c.type = m.type /\ c.sid = m.sid
    BY <2>2, <2>4, TurnChunk
  <2> HIDE DEF c
  <2>6. Turned(z, j, m, cs, s, t, c, Remember(cs, j, delta), h, t)
    BY <1>6, <1>7, <2>5
  <2>7. R.out = c /\ R.cs = Remember(cs, j, delta) /\ R.job = h BY <2>1, <2>3
  <2> HIDE DEF R
  <2> QED BY <2>5, <2>6, <2>7 DEF R
<1>8. CASE ~NeedsType0(j, cs) /\ ~MayOmit(j, cs)
  <2>1. R = [cs |-> Remember(cs, j, delta), job |-> h, out |-> SerializerType1(h)]
    BY <1>8 DEF SerializeOne
  <2>2. delta \in Nat /\ delta < Limit24 /\ delta % (Limit24 + 1) = delta
    BY <1>4, <1>8, TurnDelta
  <2> DEFINE c == Wire(h, 1, delta, NoExt)
  <2>4. /\ h.id = j.id /\ h.csid = j.csid /\ h.todo = j.todo /\ HasShape(h.hdr, m)
        /\ h.hdr.timestamp = m.ts /\ h.hdr.timeDelta = delta
    BY <1>1 DEF HasShape, Jobs, Headers
  <2> HIDE DEF h, delta
  <2>3. SerializerType1(h) = c
    <3>1. ~(h.hdr.timestamp > Limit24) BY <1>1, <1>2, <2>4
    <3> QED BY <2>2, <2>4, <3>1 DEF SerializerType1
  <2>5. /\ Valid(z, c) /\ c.id = j.id /\ c.csid = j.csid /\ c.data = j.todo[1]
        /\ c.fmt = 1 /\ c.ts24 = delta /\ c.len = m.len /\ c.type = m.type /\ c.sid = m.sid
    BY <2>2, <2>4, TurnChunk
  <2> HIDE DEF c
  <2>6. Turned(z, j, m, cs, s, t, c, Remember(cs, j, delta), h, t)
    BY <1>6, <1>8, <2>5
  <2>7. R.out = c /\ R.cs = Remember(cs, j, delta) /\ R.job = h BY <2>1, <2>3
  <2> HIDE DEF R
  <2> QED BY <2>5, <2>6, <2>7 DEF R
<1> QED BY <1>3, <1>5, <1>7, <1>8

\* The rest of a message that was cut in pieces, after its first.
LEMMA CutTail ==
    ASSUME NEW t \in Seq(Seq(Units)), NEW id, NEW len \in Nat, NEW size, Cut(t, id, len, size)
    PROVE  /\ Off(t[1]) \in Nat /\ Len(t[1]) \in Nat /\ Len(t[1]) > 0 /\ IsPiece(t[1], id, len)
           /\ Len(t) = 1 => Off(t[1]) + Len(t[1]) = len
           /\ Len(t) # 1 => /\ Cut(Tail(t), id, len, size)
                            /\ Off(Tail(t)[1]) = Off(t[1]) + Len(t[1])
                            /\ Off(t[1]) + Len(t[1]) < len
<1>1. Len(t) \in Nat /\ Len(t) > 0 BY DEF Cut
<1>2. IsPiece(t[1], id, len) BY <1>1 DEF Cut
<1>3. Off(t[1]) \in Nat /\ Len(t[1]) \in Nat /\ Len(t[1]) > 0 BY <1>2 DEF IsPiece
<1>4. Len(t) = 1 => Off(t[1]) + Len(t[1]) = len BY DEF Cut
<1>5. ASSUME Len(t) # 1
      PROVE  /\ Cut(Tail(t), id, len, size)
             /\ Off(Tail(t)[1]) = Off(t[1]) + Len(t[1])
             /\ Off(t[1]) + Len(t[1]) < len
  <2> DEFINE s == Tail(t)
  <2>1. /\ Len(s) = Len(t) - 1 /\ Len(t) > 1
        /\ \A i \in 1 .. Len(s) : s[i] = t[i + 1] /\ i + 1 \in 1 .. Len(t)
        /\ s \in Seq(Seq(Units))
    <3>4. Len(t) > 1
      <4> DEFINE n == Len(t)
      <4>1. n \in Nat /\ n > 0 /\ n # 1 BY <1>1, <1>5
      <4> HIDE DEF n
      <4>2. n > 1 BY <4>1
      <4> QED BY <4>2 DEF n
    <3>1. t # <<>> /\ Len(t) > 1
      <4>1. Len(<<>>) = 0 OBVIOUS
      <4> QED BY <3>4, <4>1
    <3>2. Len(s) = Len(t) - 1 /\ s \in Seq(Seq(Units)) BY <3>1
    <3>3. \A i \in 1 .. Len(s) : s[i] = t[i + 1] BY <3>1
    <3> HIDE DEF s
    <3> QED BY <1>1, <3>1, <3>2, <3>3
  <2> HIDE DEF s
  <2>2. s[1] = t[2] /\ s[Len(s)] = t[Len(t)] /\ s # <<>>
    <3>1. Len(s) \in Nat /\ Len(s) >= 1 /\ Len(s) + 1 = Len(t) BY <1>1, <2>1
    <3>2. 1 \in 1 .. Len(s) /\ Len(s) \in 1 .. Len(s) BY <3>1
    <3>3. s[1] = t[1 + 1] /\ s[Len(s)] = t[Len(s) + 1] BY <2>1, <3>2
    <3>4. s # <<>> BY <3>1
    <3> QED BY <3>1, <3>3, <3>4
  <2>3. Off(t[2]) = Off(t[1]) + Len(t[1])
    <3>1. 1 \in 1 .. Len(t) - 1 BY <1>1, <2>1
    <3> QED BY <3>1 DEF Cut
  <2>4. IsPiece(t[2], id, len)
    <3>1. 2 \in 1 .. Len(t) BY <1>1, <2>1
    <3> QED BY <3>1 DEF Cut
  <2>5. Off(t[2]) < len BY <2>4 DEF IsPiece
  <2>6. \A i \in 1 .. Len(s) :
          /\ IsPiece(s[i], id, len)
          /\ Len(s[i]) = IF len - Off(s[i]) > size THEN size ELSE len - Off(s[i])
    BY <2>1 DEF Cut
  <2>7. ASSUME NEW i \in 1 .. Len(s) - 1 PROVE Off(s[i + 1]) = Off(s[i]) + Len(s[i])
    <3>1. i \in 1 .. Len(s) /\ i + 1 \in 1 .. Len(s) /\ i + 1 \in 1 .. Len(t) - 1
      BY <1>1, <2>1
    <3>2. s[i] = t[i + 1] /\ s[i + 1] = t[(i + 1) + 1] BY <2>1, <3>1
    <3> QED BY <3>1, <3>2 DEF Cut
  <2>8. Cut(s, id, len, size) BY <2>2, <2>6, <2>7 DEF Cut
  <2> QED BY <2>2, <2>3, <2>5, <2>8 DEF s
<1> QED BY <1>2, <1>3, <1>4, <1>5

\* The chunk that SerializerChunk adds to the buffer can be read where the
\* buffer leads.
LEMMA SerializerStep ==
    ASSUME Tame, side \in Sides, OwnSide, OwnInv, NEW w \in side, SerializerChunk(w),
           NEW m \in Views, NEW b \in Views, Ready(w, m, b)
    PROVE  LET j == job[w]
               d == job[w].csid
           IN  /\ JobInv(j, sent[j.id], w) /\ sent[j.id] \in Messages /\ d \in CsidsOf(w) \cap Csids
               /\ sent[j.id].type # 1 => b.size = sendChunkSize
               /\ \E c \in Chunks, cs2 \in Streams, j2 \in Jobs, t2 \in Nat :
                    /\ Turned(sent, j, sent[j.id], sendStreams[d], b.strm[d], base[d],
                              c, cs2, j2, t2)
                    /\ CanRead(sent, b, c)
                    /\ sendStreams' = [sendStreams EXCEPT ![d] = cs2]
                    /\ job' = [job EXCEPT ![w] = NextJob(j2)]
                    /\ buf' = [buf EXCEPT ![w] = Append(@, c)]
                    /\ base' = [base EXCEPT ![d] = t2]
<1> DEFINE j == job[w]
           M == sent[j.id]
           d == j.csid
           s == b.strm[d]
           t == base[d]
           cs == sendStreams[d]
           R == SerializeOne(j, cs)
           t2 == IF R.out.fmt = 0 THEN j.hdr.timestamp ELSE t
<1>1. TypeOK /\ SentInv /\ PackerInv /\ w \in Writers /\ w \notin Foreign
  BY WriterAssumption DEF OwnInv, OwnSide
<1>2. j # NoJob /\ JobInv(j, M, w) /\ j.id \in 1 .. Len(sent)
  BY DEF SerializerChunk, Ready, JobInv
<1>3. M \in Offers[w] /\ M.len > 0 BY <1>1, <1>2 DEF JobInv, SentInv
<1> HIDE DEF M
<1>4. /\ M \in Messages /\ M.type \in TypeIDs /\ M.len \in Nat /\ M.ts \in Nat /\ M.ts < Limit24
      /\ CsidOf(M.type) \in Csids \cap CsidsOf(w)
      /\ M.type = 1 => M.size \in FitSizes /\ \A n \in FitSizes : M.len <= n
  BY <1>1, <1>3, OfferFacts
<1>5. d = CsidOf(M.type) /\ d \in Csids \cap CsidsOf(w) BY <1>2, <1>4 DEF JobInv
<1>6. /\ j \in Jobs /\ cs \in Streams /\ s \in Shapes /\ t \in Nat
  BY <1>1, <1>5 DEF TypeOK, Views
<1>7. j.todo \in Seq(Seq(Units)) /\ Cut(j.todo, j.id, M.len, sendChunkSize)
  BY <1>2, <1>6 DEF JobInv, Jobs
<1>8. /\ j.todo # <<>> /\ IsPiece(j.todo[1], j.id, M.len)
      /\ Len(j.todo[1]) = IF M.len - Off(j.todo[1]) > sendChunkSize THEN sendChunkSize
                          ELSE M.len - Off(j.todo[1])
  <2>1. Len(j.todo) \in Nat /\ 1 \in 1 .. Len(j.todo) BY <1>7 DEF Cut
  <2> QED BY <1>7, <2>1 DEF Cut
<1>9. Agrees(s, cs, t) BY <1>5 DEF Ready
<1>10. ASSUME cs.known PROVE cs.hdr.timestamp \in Nat /\ cs.hdr.timestamp <= M.ts
  <2>1. PICK i \in 1 .. Len(sent) : CsidOf(sent[i].type) = d /\ sent[i].ts = cs.hdr.timestamp
    BY <1>1, <1>5, <1>10 DEF PackerInv
  <2>2. sent[i].ts \in Nat BY <1>1, SentFacts
  <2>3. sent[i].ts <= M.ts BY <1>2, <2>1 DEF JobInv
  <2> QED BY <2>1, <2>2, <2>3
<1>11. Turn(sent, j, M, cs, s, t)
  <2>1. M = sent[j.id] BY DEF M
  <2>2. /\ HasShape(j.hdr, M) /\ j.hdr.timestamp = M.ts
        /\ M.type = 1 => Off(j.todo[1]) = 0 /\ Len(j.todo[1]) = M.len
        /\ Off(j.todo[1]) = 0 => j.hdr.timeDelta = 0
        /\ Off(j.todo[1]) > 0 => Midway(j, cs, t)
    BY <1>2 DEF JobInv
  <2> HIDE DEF j, d, cs, s, t
  <2> QED BY <1>2, <1>4, <1>5, <1>6, <1>8, <1>9, <1>10, <2>1, <2>2 DEF Turn, d
<1>12. Turned(sent, j, M, cs, s, t, R.out, R.cs, R.job, t2) BY <1>11, SerializeFacts
<1>13. /\ R.out \in Chunks /\ R.cs \in Streams /\ R.job \in Jobs /\ t2 \in Nat
       /\ Valid(sent, R.out) /\ R.out.id = j.id /\ R.out.csid = d /\ R.out.data = j.todo[1]
  BY <1>12 DEF Turned, Valid
<1>14. M.type # 1 => b.size = sendChunkSize
  <2> SUFFICES ASSUME M.type # 1 PROVE b.size = sendChunkSize OBVIOUS
  <2>1. \A v \in side \ {w} : ~Announcing(v) BY <1>1, <1>2 DEF PackerInv
  <2>2. j.hdr.messageTypeID # 1 BY <1>2 DEF JobInv, HasShape
  <2> QED BY <2>1, <2>2 DEF Ready
<1>15. b.pos = Off(j.todo[1]) /\ (b.pos > 0 => b.id = j.id)
  <2>1. b.pos = Off(j.todo[1]) /\ b.id = IF b.pos = 0 THEN 0 ELSE j.id
    BY <1>2 DEF Ready
  <2>2. b.pos \in Nat BY DEF Views
  <2> QED BY <2>1, <2>2
<1>16. R.out.len = M.len /\ R.out.type = M.type BY <1>13 DEF Valid, M
<1>17. Len(j.todo[1]) = IF M.len - b.pos > b.size THEN b.size ELSE M.len - b.pos
  <2>1. CASE M.type # 1 BY <1>8, <1>14, <1>15, <2>1
  <2>2. CASE M.type = 1
    <3>1. Off(j.todo[1]) = 0 /\ Len(j.todo[1]) = M.len BY <1>2, <2>2 DEF JobInv
    <3>2. b.size \in FitSizes /\ b.size \in Nat BY DEF Views, FitSizes
    <3>3. M.len <= b.size BY <1>4, <2>2, <3>2
    <3> QED BY <1>4, <1>15, <3>1, <3>2, <3>3
  <2> QED BY <2>1, <2>2
<1>18. CanRead(sent, b, R.out)
  <2>1. /\ b.pos = 0 /\ R.out.fmt # 0 => s.known /\ s.sid = R.out.sid
        /\ b.pos = 0 /\ R.out.fmt > 1 => s.len = R.out.len /\ s.type = R.out.type
    BY <1>12, <1>15 DEF Turned
  <2> HIDE DEF R, j, d
  <2> QED BY <1>13, <1>15, <1>16, <1>17, <2>1 DEF CanRead
<1>19. /\ sendStreams' = [sendStreams EXCEPT ![d] = R.cs]
       /\ job' = [job EXCEPT ![w] = NextJob(R.job)]
       /\ buf' = [buf EXCEPT ![w] = Append(@, R.out)]
       /\ base' = IF R.out.fmt = 0 THEN [base EXCEPT ![d] = j.hdr.timestamp] ELSE base
  BY DEF SerializerChunk
<1>20. base' = [base EXCEPT ![d] = t2]
  <2>1. base \in [Csids -> Nat] /\ base = [base EXCEPT ![d] = base[d]] BY <1>1, <1>5 DEF TypeOK
  <2> QED BY <1>19, <2>1
<1> HIDE DEF R, t2
<1>21. \E c \in Chunks, cs2 \in Streams, j2 \in Jobs, t3 \in Nat :
         /\ Turned(sent, j, M, cs, s, t, c, cs2, j2, t3)
         /\ CanRead(sent, b, c)
         /\ sendStreams' = [sendStreams EXCEPT ![d] = cs2]
         /\ job' = [job EXCEPT ![w] = NextJob(j2)]
         /\ buf' = [buf EXCEPT ![w] = Append(@, c)]
         /\ base' = [base EXCEPT ![d] = t3]
  BY <1>12, <1>13, <1>18, <1>19, <1>20
<1> QED BY <1>2, <1>4, <1>5, <1>14, <1>21 DEF M

\* The job j of the message M before a turn, and the job n after it, where the
\* turn changed j to j2.
Unfinished(j, M, size) ==
    /\ Cut(j.todo, j.id, M.len, size) /\ j.id \in Nat \ {0}
    /\ M.type = 1 => Off(j.todo[1]) = 0 /\ Len(j.todo[1]) = M.len
Whole(j, M) == Off(j.todo[1]) + Len(j.todo[1]) = M.len
Rest(j, M, size, j2, n) ==
    /\ n \in Jobs
    /\ Whole(j, M) => n = NoJob
    /\ ~Whole(j, M) =>
         /\ n # NoJob /\ n.id = j.id /\ n.csid = j.csid /\ n.hdr = j2.hdr /\ M.type # 1
         /\ Cut(n.todo, j.id, M.len, size)
         /\ Off(n.todo[1]) = Off(j.todo[1]) + Len(j.todo[1]) /\ Off(n.todo[1]) > 0

\* What is left of a message after its first piece.
LEMMA NextFacts ==
    ASSUME NEW j \in Jobs, NEW M \in Messages, NEW size, Unfinished(j, M, size),
           NEW j2 \in Jobs, j2.id = j.id, j2.csid = j.csid, j2.todo = j.todo
    PROVE  Rest(j, M, size, j2, NextJob(j2))
<1> DEFINE n == NextJob(j2)
<1> USE DEF Unfinished
<1>1. j.todo \in Seq(Seq(Units)) /\ M.len \in Nat BY DEF Jobs, Messages
<1>2. /\ Off(j.todo[1]) \in Nat /\ Len(j.todo[1]) \in Nat /\ Len(j.todo[1]) > 0
      /\ Len(j.todo) = 1 => Off(j.todo[1]) + Len(j.todo[1]) = M.len
      /\ Len(j.todo) # 1 => /\ Cut(Tail(j.todo), j.id, M.len, size)
                            /\ Off(Tail(j.todo)[1]) = Off(j.todo[1]) + Len(j.todo[1])
                            /\ Off(j.todo[1]) + Len(j.todo[1]) < M.len
  BY <1>1, CutTail
<1>3. NoJob.id = 0 BY DEF NoJob
<1>4. CASE Len(j.todo) = 1
  <2>1. n = NoJob BY <1>4 DEF NextJob
  <2>2. Whole(j, M) BY <1>2, <1>4 DEF Whole
  <2>3. NoJob \in Jobs
    <3>1. <<>> \in Seq(Seq(Units)) OBVIOUS
    <3> QED BY <3>1 DEF NoJob, Jobs, Header, Headers
  <2> QED BY <2>1, <2>2, <2>3 DEF Rest
<1>5. CASE Len(j.todo) # 1
  <2> DEFINE q == Tail(j.todo)
             x == [j2 EXCEPT !.todo = Tail(@)]
  <2>1. n = x BY <1>5 DEF NextJob
  <2>2. j.todo # <<>> /\ q \in Seq(Seq(Units))
    <3>1. j.todo # <<>> BY DEF Cut
    <3> QED BY <1>1, <3>1
  <2>3. x = [j2 EXCEPT !.todo = q] OBVIOUS
  <2>4. Cut(q, j.id, M.len, size) /\ Off(q[1]) = Off(j.todo[1]) + Len(j.todo[1])
    BY <1>2, <1>5
  <2> HIDE DEF x, q
  <2>5. x \in Jobs /\ x.id = j.id /\ x.csid = j.csid /\ x.hdr = j2.hdr /\ x.todo = q
    BY <2>2, <2>3 DEF Jobs
  <2>6. ~Whole(j, M) BY <1>1, <1>2, <1>5 DEF Whole
  <2>7. M.type # 1 BY <1>1, <1>2, <1>5
  <2>8. Off(q[1]) > 0 BY <1>2, <2>4
  <2>9. x # NoJob BY <1>3, <2>5
  <2> HIDE DEF n
  <2>10. Rest(j, M, size, j2, n) BY <2>1, <2>4, <2>5, <2>6, <2>7, <2>8, <2>9 DEF Rest
  <2> QED BY <2>10 DEF n
<1> QED BY <1>4, <1>5

\* The message stays with its goroutine: it ends with the chunk c exactly when
\* no job n is left of the job j.
Stays(c, j, n) ==
    /\ c.id = j.id /\ (n # NoJob => n.id = j.id)
    /\ Completes(c) => n = NoJob
    /\ n = NoJob => Completes(c)

\* SerializerChunk moves no message.
LEMMA SerializerPlace ==
    ASSUME TypeOK, OnePlace, side \subseteq Writers, NEW w \in side, NEW c \in Chunks, NEW n,
           job[w] # NoJob, Stays(c, job[w], n),
           job' = [job EXCEPT ![w] = n], buf' = [buf EXCEPT ![w] = Append(@, c)],
           UNCHANGED <<side, wire, got, sent>>
    PROVE  OnePlace'
<1>1. /\ buf \in [Writers -> Seq(Chunks)] /\ w \in Writers /\ job \in [Writers -> Jobs]
      /\ OnceEach(buf[w]) /\ job[w].id \notin FinalIds(buf[w]) /\ buf[w] \in Seq(Chunks)
  BY DEF TypeOK, OnePlace
<1>2. /\ job'[w] = n /\ buf'[w] = Append(buf[w], c)
      /\ \A v \in side \ {w} : job'[v] = job[v] /\ buf'[v] = buf[v]
  BY <1>1
<1>3. /\ OnceEach(buf'[w])
      /\ FinalIds(buf'[w]) = FinalIds(buf[w]) \cup (IF Completes(c) THEN {c.id} ELSE {})
  BY <1>1, <1>2, FinalAppend DEF Stays
<1>4. Held(w)' = Held(w) BY <1>2, <1>3 DEF Held, Stays
<1>5. \A v \in side : Held(v)' = Held(v) BY <1>2, <1>4 DEF Held
<1>6. /\ GotIds' = GotIds /\ FinalIds(wire)' = FinalIds(wire) /\ OnceEach(wire)' = OnceEach(wire)
  BY DEF GotIds, FinalIds, OnceEach, Completes, Off
<1>7. job'[w] # NoJob => job'[w].id \notin FinalIds(buf'[w]) BY <1>1, <1>2, <1>3 DEF Stays
<1>8. /\ \A v \in side : OnceEach(buf'[v])
      /\ \A v \in side : job'[v] # NoJob => job'[v].id \notin FinalIds(buf'[v])
  BY <1>2, <1>3, <1>7 DEF OnePlace
<1> QED BY <1>5, <1>6, <1>8 DEF OnePlace

\* A step that leaves the job and the buffer of v, and what the packer remembers
\* of its chunk streams.
Untouched(v) ==
    /\ side' = side /\ sent' = sent /\ sendChunkSize' = sendChunkSize
    /\ job'[v] = job[v] /\ buf'[v] = buf[v]
    /\ \A c \in CsidsOf(v) : sendStreams'[c] = sendStreams[c] /\ base'[c] = base[c]
    /\ (\A u \in side \ {v} : ~Announcing(u))' => \A u \in side \ {v} : ~Announcing(u)

\* It leaves v ready.
LEMMA OthersReady ==
    ASSUME NEW v \in side, NEW m, NEW b, Ready(v, m, b), Untouched(v)
    PROVE  Ready(v, m, b)'
<1> USE DEF Untouched
<1>1. \A c \in CsidsOf(v) : Agrees(b.strm[c], sendStreams'[c], base'[c]) BY DEF Ready
<1>2. job[v] # NoJob => JobInv(job[v], sent[job[v].id], v)'
  <2> SUFFICES ASSUME job[v] # NoJob PROVE JobInv(job[v], sent[job[v].id], v)' OBVIOUS
  <2>1. JobInv(job[v], sent[job[v].id], v) BY DEF Ready
  <2>2. job[v].csid \in CsidsOf(v) BY <2>1 DEF JobInv, CsidsOf
  <2> QED BY <2>1, <2>2 DEF JobInv
<1> QED BY <1>1, <1>2 DEF Ready

\* The goroutine itself is ready for its next chunk.
LEMMA SelfReady ==
    ASSUME Tame, side \in Sides, OwnSide, TypeOK, NEW w \in side, w \in Writers,
           NEW m \in Views, NEW b \in Views, Ready(w, m, b), job[w] # NoJob,
           NEW M \in Messages, M = sent[job[w].id], JobInv(job[w], M, w),
           NEW d \in CsidsOf(w) \cap Csids, d = job[w].csid,
           M.type # 1 => b.size = sendChunkSize,
           NEW c \in Chunks, NEW cs2 \in Streams, NEW j2 \in Jobs, NEW t2 \in Nat,
           Turned(sent, job[w], M, sendStreams[d], b.strm[d], base[d], c, cs2, j2, t2),
           CanRead(sent, b, c),
           side' = side, sent' = sent, sendChunkSize' = sendChunkSize,
           sendStreams' = [sendStreams EXCEPT ![d] = cs2],
           job' = [job EXCEPT ![w] = NextJob(j2)],
           buf' = [buf EXCEPT ![w] = Append(@, c)],
           base' = [base EXCEPT ![d] = t2],
           NEW u, u = AfterRead(sent, b, c)
    PROVE  Ready(w, m, u)'
<1> DEFINE j == job[w]
           n == NextJob(j2)
<1>1. /\ buf \in [Writers -> Seq(Chunks)] /\ buf[w] \in Seq(Chunks) /\ j \in Jobs
      /\ sendStreams \in [Csids -> Streams] /\ base \in [Csids -> Nat]
      /\ job \in [Writers -> Jobs]
  BY DEF TypeOK
<1>2. /\ job'[w] = n /\ buf'[w] = Append(buf[w], c)
      /\ sendStreams'[d] = cs2 /\ base'[d] = t2
      /\ \A e \in Csids \ {d} : sendStreams'[e] = sendStreams[e] /\ base'[e] = base[e]
  BY <1>1
<1>3. /\ c.id = j.id /\ c.csid = d /\ c.data = j.todo[1] /\ c.len = M.len /\ c.type = M.type
      /\ c.sid = M.sid
  BY DEF Turned, Valid
<1>4. /\ n \in Jobs
      /\ Completes(c) => n = NoJob
      /\ n = NoJob => Completes(c)
      /\ ~Completes(c) =>
           /\ n.id = j.id /\ n.csid = j.csid /\ n.hdr = j2.hdr /\ M.type # 1
           /\ Cut(n.todo, j.id, M.len, sendChunkSize)
           /\ Off(n.todo[1]) = Off(c.data) + Len(c.data) /\ Off(n.todo[1]) > 0
  <2>1. Unfinished(j, M, sendChunkSize)
    <3>1. /\ Cut(j.todo, j.id, M.len, sendChunkSize) /\ j.id \in 1 .. Len(sent)
          /\ M.type = 1 => Off(j.todo[1]) = 0 /\ Len(j.todo[1]) = M.len
      BY DEF JobInv
    <3>2. Len(sent) \in Nat BY DEF TypeOK
    <3>3. j.id \in Nat /\ j.id # 0 BY <3>1, <3>2
    <3> QED BY <3>1, <3>3 DEF Unfinished
  <2>2. j2.id = j.id /\ j2.csid = j.csid /\ j2.todo = j.todo BY DEF Turned
  <2>3. c.data = j.todo[1] /\ c.len = M.len /\ j \in Jobs BY <1>1, <1>3
  <2> HIDE DEF j
  <2>4. Rest(j, M, sendChunkSize, j2, n) BY <2>1, <2>2, <2>3, NextFacts
  <2> HIDE DEF n
  <2>5. Completes(c) <=> Whole(j, M) BY <2>3 DEF Completes, Whole
  <2>6. CASE Completes(c) BY <2>4, <2>5, <2>6 DEF Rest
  <2>7. CASE ~Completes(c) BY <2>3, <2>4, <2>5, <2>7 DEF Rest
  <2> QED BY <2>6, <2>7
<1> HIDE DEF n
<1>5. /\ u.size = IF c.type = 1 THEN M.size ELSE b.size
      /\ u.id = IF Completes(c) THEN 0 ELSE c.id
      /\ u.pos = IF Completes(c) THEN 0 ELSE Off(c.data) + Len(c.data)
      /\ u.strm = IF b.pos > 0 THEN b.strm
                  ELSE [b.strm EXCEPT ![c.csid] =
                      [known |-> TRUE, len |-> c.len, type |-> c.type, sid |-> c.sid,
                       clock |-> ClockAfter(b.strm[c.csid].clock, c)]]
  BY <1>3 DEF AfterRead
<1>6. b.strm \in [Csids -> Shapes] /\ b.pos \in Nat /\ b.pos = Off(j.todo[1])
  BY DEF Views, Ready
<1>7. \A i \in 1 .. Len(buf'[w]) :
         \/ i \in 1 .. Len(buf[w]) /\ buf'[w][i] = buf[w][i]
         \/ buf'[w][i] = c
  BY <1>1, <1>2
<1>8. /\ \A i \in 1 .. Len(buf[w]) : i \in 1 .. Len(buf'[w]) /\ buf'[w][i] = buf[w][i]
      /\ \E i \in 1 .. Len(buf'[w]) : buf'[w][i] = c
  <2>1. /\ Len(buf[w]) \in Nat /\ Len(buf'[w]) = Len(buf[w]) + 1
        /\ buf'[w][Len(buf[w]) + 1] = c
        /\ \A i \in 1 .. Len(buf[w]) : buf'[w][i] = buf[w][i]
    BY <1>1, <1>2
  <2> QED BY <2>1
<1>9. \A i \in 1 .. Len(buf'[w]) : buf'[w][i].csid \in CsidsOf(w)
  BY <1>3, <1>7 DEF Ready
<1>10. \A e \in Csids \ CsidsOf(w) : u.strm[e] = m.strm[e]
  <2>1. \A e \in Csids \ CsidsOf(w) : u.strm[e] = b.strm[e] BY <1>3, <1>5, <1>6
  <2> QED BY <2>1 DEF Ready
<1>11. (\A i \in 1 .. Len(buf'[w]) : buf'[w][i].type # 1) => u.size = m.size
  <2> SUFFICES ASSUME \A i \in 1 .. Len(buf'[w]) : buf'[w][i].type # 1 PROVE u.size = m.size
    OBVIOUS
  <2>1. c.type # 1 /\ \A i \in 1 .. Len(buf[w]) : buf[w][i].type # 1 BY <1>8
  <2> QED BY <1>5, <2>1 DEF Ready
<1>12. u.size = sendChunkSize
  <2>1. CASE M.type = 1 BY <1>3, <1>5, <2>1 DEF JobInv
  <2>2. CASE M.type # 1 BY <1>3, <1>5, <2>2
  <2> QED BY <2>1, <2>2
<1>13. ASSUME NEW e \in CsidsOf(w), e \in Csids PROVE Agrees(u.strm[e], sendStreams'[e], base'[e])
  <2>1. CASE e = d
    <3>1. CASE b.pos > 0
      <4>1. u.strm[e] = b.strm[d] BY <1>5, <2>1, <3>1
      <4>2. Agrees(b.strm[d], cs2, t2) BY <1>6, <3>1 DEF Turned
      <4> QED BY <1>2, <2>1, <4>1, <4>2
    <3>2. CASE b.pos = 0
      <4>1. u.strm[e] = [known |-> TRUE, len |-> c.len, type |-> c.type, sid |-> c.sid,
                         clock |-> ClockAfter(b.strm[d].clock, c)]
        BY <1>3, <1>5, <1>6, <2>1, <3>2
      <4>2. Agrees(u.strm[e], cs2, t2) BY <1>6, <3>2, <4>1 DEF Turned
      <4> QED BY <1>2, <2>1, <4>2
    <3> QED BY <1>6, <3>1, <3>2
  <2>2. CASE e # d
    <3>1. u.strm[e] = b.strm[e] BY <1>3, <1>5, <1>6, <1>13, <2>2
    <3>2. Agrees(b.strm[e], sendStreams[e], base[e]) BY <1>13 DEF Ready
    <3> QED BY <1>2, <1>13, <2>2, <3>1, <3>2
  <2> QED BY <2>1, <2>2
<1>14. n = NoJob => u.pos = 0 /\ u.id = 0 BY <1>4, <1>5
<1>15. ASSUME n # NoJob
       PROVE  /\ JobInv(n, M, w)'
              /\ u.pos = Off(n.todo[1]) /\ u.id = IF u.pos = 0 THEN 0 ELSE n.id
  <2>1. /\ ~Completes(c)
        /\ n.id = j.id /\ n.csid = j.csid /\ n.hdr = j2.hdr /\ M.type # 1
        /\ Cut(n.todo, j.id, M.len, sendChunkSize)
        /\ Off(n.todo[1]) = Off(c.data) + Len(c.data) /\ Off(n.todo[1]) > 0
    BY <1>4, <1>15
  <2>2. u.pos = Off(n.todo[1]) /\ u.id = IF u.pos = 0 THEN 0 ELSE n.id
    <3>1. u.pos = Off(n.todo[1]) /\ u.id = n.id BY <1>3, <1>5, <2>1
    <3>2. u.pos # 0
      <4>1. Off(n.todo[1]) \in Nat
        <5>1. n.todo # <<>> /\ n.todo \in Seq(Seq(Units)) BY <1>4, <2>1 DEF Cut, Jobs
        <5>2. 1 \in 1 .. Len(n.todo) BY <5>1
        <5> QED BY <2>1, <5>2 DEF Cut, IsPiece
      <4> QED BY <2>1, <3>1, <4>1
    <3> QED BY <3>1, <3>2
  <2>3. HasShape(n.hdr, M) /\ n.hdr.timestamp = M.ts /\ Midway(j2, cs2, t2)
    BY <2>1 DEF Turned
  <2>4. Midway(n, cs2, t2)
    BY <2>1, <2>3 DEF Midway, IsProtoCtrlMsg, TimeDelta, Turned
  <2>5. /\ j.id \in 1 .. Len(sent) /\ M \in Offers[w] /\ j.csid = CsidOf(M.type)
        /\ \A i \in 1 .. Len(sent) : CsidOf(sent[i].type) = j.csid => sent[i].ts <= M.ts
    BY DEF JobInv
  <2>6. Off(n.todo[1]) # 0 BY <2>1
  <2> QED BY <1>2, <2>1, <2>2, <2>3, <2>4, <2>5, <2>6 DEF JobInv
<1>16. CsidsOf(w) \subseteq Csids BY OwnCsids
<1>17. n # NoJob => sent[n.id] = M /\ sent'[n.id] = M BY <1>4
<1>18. Ready(w, m, u)'
  <2>2. \A e \in CsidsOf(w) : Agrees(u.strm[e], sendStreams'[e], base'[e]) BY <1>13, <1>16
  <2>3. n # NoJob => JobInv(n, sent[n.id], w)' BY <1>15, <1>17
  <2>4. job'[w] # NoJob =>
         /\ JobInv(job[w], sent[job[w].id], w)'
         /\ u.pos = Off(job'[w].todo[1]) /\ u.id = IF u.pos = 0 THEN 0 ELSE job'[w].id
    BY <1>2, <1>15, <2>3
  <2> QED BY <1>2, <1>9, <1>10, <1>11, <1>12, <1>14, <2>2, <2>4 DEF Ready
<1> QED BY <1>18

\* SerializerChunk keeps the invariant.
LEMMA SerializerKeeps ==
    ASSUME Tame, side \in Sides, OwnSide, OwnInv, NEW w \in side, SerializerChunk(w)
    PROVE  OwnInv'
<1>1. PICK r \in Views, m \in Views : Follows(r, m) BY DEF OwnInv
<1>2. /\ TypeOK /\ SentInv /\ GotInv /\ OnePlace /\ PackerInv /\ reader = "ok" BY DEF OwnInv
<1>3. side \subseteq Writers /\ w \in Writers BY WriterAssumption
<1>4. PICK b \in Views : Chain(sent, m, buf[w], b) /\ Ready(w, m, b) BY <1>1 DEF Follows
<1>5. /\ job[w] # NoJob /\ side' = side /\ sendChunkSize' = sendChunkSize /\ wire' = wire
      /\ chunkSize' = chunkSize /\ streams' = streams /\ collector' = collector
      /\ reader' = reader /\ got' = got /\ sent' = sent
  BY DEF SerializerChunk, readVars
<1>6. PICK M \in Messages, d \in CsidsOf(w) \cap Csids :
        M = sent[job[w].id] /\ d = job[w].csid
  BY <1>4, SerializerStep
<1>7. JobInv(job[w], M, w) /\ (M.type # 1 => b.size = sendChunkSize)
  BY <1>4, <1>6, SerializerStep
<1>8. PICK c \in Chunks, cs2 \in Streams, j2 \in Jobs, t2 \in Nat :
        /\ Turned(sent, job[w], M, sendStreams[d], b.strm[d], base[d], c, cs2, j2, t2)
        /\ CanRead(sent, b, c)
        /\ sendStreams' = [sendStreams EXCEPT ![d] = cs2]
        /\ job' = [job EXCEPT ![w] = NextJob(j2)]
        /\ buf' = [buf EXCEPT ![w] = Append(@, c)]
        /\ base' = [base EXCEPT ![d] = t2]
  BY <1>4, <1>6, SerializerStep
<1>9. /\ buf \in [Writers -> Seq(Chunks)] /\ buf[w] \in Seq(Chunks) /\ job \in [Writers -> Jobs]
      /\ sendStreams \in [Csids -> Streams] /\ base \in [Csids -> Nat] /\ Len(sent) \in Nat
      /\ sent \in Seq(Messages)
  BY <1>2, <1>3 DEF TypeOK
<1>10. /\ job'[w] = NextJob(j2) /\ buf'[w] = Append(buf[w], c)
       /\ \A v \in side \ {w} : job'[v] = job[v] /\ buf'[v] = buf[v]
       /\ sendStreams'[d] = cs2 /\ base'[d] = t2
       /\ \A e \in Csids \ {d} : sendStreams'[e] = sendStreams[e] /\ base'[e] = base[e]
  BY <1>3, <1>8, <1>9
<1>11. /\ c.id = job[w].id /\ c.csid = d /\ c.data = job[w].todo[1] /\ c.len = M.len
       /\ c.type = M.type /\ job[w].id \in 1 .. Len(sent)
       /\ j2.id = job[w].id /\ j2.csid = d /\ j2.todo = job[w].todo
       /\ HasShape(j2.hdr, M) /\ HasShape(job[w].hdr, M)
       /\ cs2.hdr.timestamp = M.ts
          \/ (sendStreams[d].known /\ cs2.hdr.timestamp = sendStreams[d].hdr.timestamp)
  BY <1>6, <1>7, <1>8 DEF Turned, Valid, JobInv
<1> DEFINE n == NextJob(j2)
<1>12. Rest(job[w], M, sendChunkSize, j2, n)
  <2>1. Unfinished(job[w], M, sendChunkSize)
    <3>1. job[w].id \in Nat /\ job[w].id # 0 BY <1>9, <1>11
    <3> QED BY <1>7, <3>1 DEF Unfinished, JobInv
  <2>2. job[w] \in Jobs BY <1>3, <1>9
  <2> QED BY <1>6, <1>11, <2>1, <2>2, NextFacts
<1> HIDE DEF n
<1>13. /\ n \in Jobs
       /\ Completes(c) => n = NoJob
       /\ n = NoJob => Completes(c)
       /\ n # NoJob => n.id = job[w].id /\ n.hdr = j2.hdr
  <2>1. Completes(c) <=> Whole(job[w], M) BY <1>11 DEF Completes, Whole
  <2>2. CASE Completes(c) BY <1>12, <2>1, <2>2 DEF Rest
  <2>3. CASE ~Completes(c) BY <1>12, <2>1, <2>3 DEF Rest
  <2> QED BY <2>2, <2>3
<1>14. job' = [job EXCEPT ![w] = n] /\ job'[w] = n BY <1>8, <1>10 DEF n
<1>15. OnePlace'
  <2>1. UNCHANGED <<side, wire, got, sent>> BY <1>5
  <2>2. Stays(c, job[w], n) BY <1>11, <1>13 DEF Stays
  <2> QED BY <1>2, <1>3, <1>5, <1>8, <1>14, <2>1, <2>2, SerializerPlace
<1>16. TypeOK'
  <2>1. Append(buf[w], c) \in Seq(Chunks) BY <1>9
  <2>2. buf' \in [Writers -> Seq(Chunks)] BY <1>3, <1>8, <1>9, <2>1
  <2>3. job' \in [Writers -> Jobs] BY <1>9, <1>13, <1>14
  <2>4. sendStreams' \in [Csids -> Streams] /\ base' \in [Csids -> Nat] BY <1>8, <1>9
  <2> QED BY <1>2, <1>5, <2>2, <2>3, <2>4 DEF TypeOK
<1>17. SentInv' BY <1>2, <1>5 DEF SentInv
<1>18. GotInv' BY <1>2, <1>5 DEF GotInv, IsMessage
<1>19. /\ Announcing(w) => Announcing(w)'
       /\ Announcing(w)' => Announcing(w)
       /\ \A v \in side \ {w} : Announcing(v)' = Announcing(v)
  <2>1. /\ DOMAIN buf[w] = 1 .. Len(buf[w]) /\ DOMAIN buf'[w] = 1 .. Len(buf[w]) + 1
        /\ \A i \in 1 .. Len(buf[w]) : buf'[w][i] = buf[w][i]
        /\ buf'[w][Len(buf[w]) + 1] = c /\ Len(buf[w]) \in Nat
    BY <1>9, <1>10
  <2>2. job[w].hdr.messageTypeID = M.type /\ j2.hdr.messageTypeID = M.type
    BY <1>11 DEF HasShape
  <2>3. ASSUME Announcing(w) PROVE Announcing(w)'
    <3>1. CASE M.type = 1
      <4>1. buf'[w][Len(buf[w]) + 1].type = 1 /\ Len(buf[w]) + 1 \in DOMAIN buf'[w]
        BY <1>11, <2>1, <3>1
      <4> QED BY <4>1 DEF Announcing
    <3>2. CASE M.type # 1
      <4>1. PICK i \in 1 .. Len(buf[w]) : buf[w][i].type = 1
        BY <2>1, <2>2, <2>3, <3>2 DEF Announcing
      <4>2. i \in DOMAIN buf'[w] /\ buf'[w][i].type = 1 BY <2>1, <4>1
      <4> QED BY <4>2 DEF Announcing
    <3> QED BY <3>1, <3>2
  <2>4. ASSUME Announcing(w)' PROVE Announcing(w)
    <3>1. CASE M.type = 1 BY <2>2, <3>1 DEF Announcing
    <3>2. CASE M.type # 1
      <4>1. n.hdr.messageTypeID # 1
        <5>1. NoJob.hdr.messageTypeID = 0 BY DEF NoJob, Header
        <5> QED BY <1>13, <2>2, <3>2, <5>1
      <4>2. PICK i \in DOMAIN buf'[w] : buf'[w][i].type = 1
        BY <1>14, <2>4, <4>1 DEF Announcing
      <4>3. i # Len(buf[w]) + 1 BY <1>11, <2>1, <3>2, <4>2
      <4>4. i \in DOMAIN buf[w] /\ buf[w][i].type = 1 BY <2>1, <4>2, <4>3
      <4> QED BY <4>4 DEF Announcing
    <3> QED BY <3>1, <3>2
  <2>5. \A v \in side \ {w} : Announcing(v)' = Announcing(v) BY <1>10 DEF Announcing
  <2> QED BY <2>3, <2>4, <2>5
<1>20. PackerInv'
  <2>1. ASSUME NEW e \in Csids, sendStreams'[e].known
        PROVE  /\ \E v \in side : e \in CsidsOf(v)
               /\ \E i \in 1 .. Len(sent) :
                    CsidOf(sent[i].type) = e /\ sent[i].ts = sendStreams'[e].hdr.timestamp
    <3>1. CASE e # d BY <1>2, <1>10, <2>1, <3>1 DEF PackerInv
    <3>2. CASE e = d /\ cs2.hdr.timestamp = M.ts
      <4>1. CsidOf(M.type) = d BY <1>6, <1>7 DEF JobInv
      <4> QED BY <1>6, <1>10, <1>11, <3>2, <4>1
    <3>3. CASE e = d /\ sendStreams[d].known /\ cs2.hdr.timestamp = sendStreams[d].hdr.timestamp
      BY <1>2, <1>10, <3>3 DEF PackerInv
    <3> QED BY <1>11, <3>1, <3>2, <3>3
  <2>2. ASSUME NEW v \in side, NEW x \in side, v # x, Announcing(v)'
        PROVE  job'[x] = NoJob /\ buf'[x] = <<>>
    <3>1. Announcing(v) BY <1>19, <2>2
    <3>2. job[x] = NoJob /\ buf[x] = <<>> BY <1>2, <2>2, <3>1 DEF PackerInv
    <3>3. x # w BY <1>5, <3>2
    <3> QED BY <1>10, <3>2, <3>3
  <2> QED BY <1>5, <2>1, <2>2 DEF PackerInv
<1>21. PICK u \in Views : u = AfterRead(sent, b, c)
  <2>1. c.type = 1 => sent[c.id].size \in FitSizes
    BY <1>2, <1>6, <1>11, SentFacts
  <2> QED BY <1>8, <2>1, ReadView
<1>22. Chain(sent, m, Append(buf[w], c), u) BY <1>4, <1>8, <1>9, <1>21, ChainAppend
<1>23. Ready(w, m, u)'
  <2> HIDE DEF n
  <2> QED BY <1>2, <1>3, <1>4, <1>5, <1>6, <1>7, <1>8, <1>21, SelfReady
<1>24. ASSUME NEW v \in side, v # w
       PROVE  \E x \in Views : Chain(sent', m, buf'[v], x) /\ Ready(v, m, x)'
  <2>1. PICK x \in Views : Chain(sent, m, buf[v], x) /\ Ready(v, m, x) BY <1>1 DEF Follows
  <2>2. CsidsOf(v) \subseteq Csids /\ d \notin CsidsOf(v) BY <1>24, OwnCsids
  <2>3. \A e \in CsidsOf(v) : sendStreams'[e] = sendStreams[e] /\ base'[e] = base[e]
    BY <1>10, <2>2
  <2>4. (\A y \in side \ {v} : ~Announcing(y))' => \A y \in side \ {v} : ~Announcing(y)
    BY <1>5, <1>19
  <2>5. job'[v] = job[v] /\ buf'[v] = buf[v] BY <1>10, <1>24
  <2>6. Untouched(v) BY <1>5, <2>3, <2>4, <2>5 DEF Untouched
  <2>7. Ready(v, m, x)' BY <2>1, <2>6, OthersReady
  <2> QED BY <1>5, <2>1, <2>5, <2>7
<1>25. Seen(r)' BY <1>1, <1>5 DEF Follows, Seen, Between, Within
<1>26. Follows(r, m)'
  <2>1. Chain(sent', r, wire', m) /\ m.pos = 0 /\ m.id = 0 BY <1>1, <1>5 DEF Follows
  <2>2. Chain(sent', m, buf'[w], u) BY <1>5, <1>10, <1>22
  <2>3. \A v \in side' : \E x \in Views : Chain(sent', m, buf'[v], x) /\ Ready(v, m, x)'
    BY <1>5, <1>23, <1>24, <2>2
  <2> QED BY <1>25, <2>1, <2>3 DEF Follows
<1> QED BY <1>2, <1>5, <1>15, <1>16, <1>17, <1>18, <1>20, <1>26 DEF OwnInv

(***************************************************************************)
(* BeginMessage.                                                           *)
(***************************************************************************)
\* The number of pieces: their sizes add up to the length, and one fewer would
\* not do.
LEMMA CeilFacts ==
    ASSUME NEW len \in Nat \ {0}, NEW size \in Nat \ {0}
    PROVE  LET n == (len + size - 1) \div size
           IN  n \in Nat /\ n > 0 /\ n * size >= len /\ (n - 1) * size < len
<1> DEFINE a == len + size - 1
           n == a \div size
<1>1. a \in Nat /\ a >= size BY SMT
<1>2. n \in Nat BY <1>1, SMT
<1>3. n * size <= a /\ a < n * size + size BY <1>1, SMT
<1> HIDE DEF n
<1>4. n * size >= len BY <1>2, <1>3, SMT
<1>5. (n - 1) * size = n * size - size BY <1>2, SMT
<1>6. n > 0
  <2>1. n = 0 => n * size = 0 BY SMT
  <2> QED BY <1>2, <1>4, <2>1, SMT
<1>7. (n - 1) * size < len BY <1>2, <1>3, <1>5, SMT
<1> QED BY <1>2, <1>4, <1>6, <1>7 DEF n

\* Where the pieces begin.
LEMMA PlaceFacts ==
    ASSUME NEW n \in Nat, NEW size \in Nat \ {0}, NEW len \in Nat, (n - 1) * size < len,
           NEW i \in 1 .. n
    PROVE  /\ (i - 1) * size \in Nat /\ (i - 1) * size < len
           /\ i * size = (i - 1) * size + size
<1>1. i \in Nat /\ i >= 1 /\ i <= n OBVIOUS
<1>2. i * size = (i - 1) * size + size BY <1>1, SMT
<1>3. (i - 1) * size \in Nat BY <1>1, SMT
<1>4. \A k \in Nat : k * size >= 0 BY SMT
<1>5. n - i \in Nat BY <1>1, SMT
<1>6. (n - i) * size >= 0 BY <1>4, <1>5
<1>7. (n - 1) * size = (i - 1) * size + (n - i) * size BY <1>1, SMT
<1>8. (i - 1) * size <= (n - 1) * size
  <2> DEFINE x == (i - 1) * size
             y == (n - i) * size
  <2>1. x \in Nat /\ y \in Int /\ y >= 0 /\ (n - 1) * size = x + y
    BY <1>1, <1>3, <1>6, <1>7, SMT
  <2> QED BY <2>1, SMT
<1>9. (n - 1) * size \in Int BY SMT
<1> QED BY <1>2, <1>3, <1>8, <1>9, SMT

\* One piece of a payload: the units behind the first o of them.
LEMMA PieceFacts ==
    ASSUME NEW id \in Nat, NEW len \in Nat, NEW o \in Nat, o < len,
           NEW e \in Nat, o < e, e <= len
    PROVE  LET d == SubSeq(Payload(id, len), o + 1, e)
           IN  IsPiece(d, id, len) /\ Off(d) = o /\ Len(d) = e - o
<1> DEFINE P == Payload(id, len)
           d == SubSeq(P, o + 1, e)
<1>1. P = [k \in 1 .. len |-> <<id, k>>] BY DEF Payload
<1>2. P \in Seq(Units)
  <2>1. \A k \in 1 .. len : <<id, k>> \in Units BY DEF Units
  <2> QED BY <1>1, <2>1
<1>3. Len(P) = len /\ \A k \in 1 .. len : P[k] = <<id, k>> BY <1>1
<1> HIDE DEF P
<1>4. d \in Seq(Units) BY <1>2, <1>3
<1>5. Len(d) = e - o BY <1>2, <1>3
<1>6. \A k \in 1 .. e - o : d[k] = P[o + k]
  <2>1. \A k \in 1 .. (e - (o + 1)) + 1 : d[k] = P[(o + 1) + k - 1] BY <1>2, <1>3
  <2>2. (e - (o + 1)) + 1 = e - o BY SMT
  <2>3. \A k \in 1 .. e - o : (o + 1) + k - 1 = o + k BY SMT
  <2> QED BY <2>1, <2>2, <2>3
<1> HIDE DEF d
<1>7. \A k \in 1 .. e - o : d[k] = <<id, o + k>>
  <2>1. \A k \in 1 .. e - o : o + k \in 1 .. len BY SMT
  <2> QED BY <1>3, <1>6, <2>1
<1>8. Off(d) = o
  <2>1. 1 \in 1 .. e - o BY SMT
  <2>2. d[1] = <<id, o + 1>> BY <1>7, <2>1
  <2>3. d[1][2] = o + 1 BY <2>2
  <2> QED BY <2>3 DEF Off
<1>9. IsPiece(d, id, len) BY <1>4, <1>5, <1>7, <1>8 DEF IsPiece
<1> QED BY <1>5, <1>8, <1>9 DEF d, P

\* The whole payload, cut.
WellCut(t, id, len, size) ==
    /\ t \in Seq(Seq(Units)) /\ Cut(t, id, len, size)
    /\ Off(t[1]) = 0 /\ (len <= size => Len(t[1]) = len)

\* ToType0Chunk cuts a payload as it should.
LEMMA PiecesFacts ==
    ASSUME NEW id \in Nat, NEW len \in Nat \ {0}, NEW size \in Nat \ {0},
           NEW t, t = Pieces(Payload(id, len), size)
    PROVE  WellCut(t, id, len, size)
<1> DEFINE n == (len + size - 1) \div size
           o(i) == (i - 1) * size
           e(i) == IF i * size < len THEN i * size ELSE len
<1>1. n \in Nat /\ n > 0 /\ n * size >= len /\ (n - 1) * size < len BY CeilFacts
<1>2. Len(Payload(id, len)) = len BY DEF Payload
<1>3. t = [i \in 1 .. n |-> SubSeq(Payload(id, len), o(i) + 1, e(i))]
  BY <1>2 DEF Pieces
<1> HIDE DEF n
<1>4. ASSUME NEW i \in 1 .. n
      PROVE  /\ o(i) \in Nat /\ o(i) < len /\ e(i) \in Nat /\ o(i) < e(i) /\ e(i) <= len
             /\ i * size = o(i) + size
             /\ e(i) - o(i) = IF len - o(i) > size THEN size ELSE len - o(i)
  <2>1. (i - 1) * size \in Nat /\ (i - 1) * size < len /\ i * size = (i - 1) * size + size
    BY <1>1, PlaceFacts
  <2> HIDE DEF o
  <2>2. o(i) \in Nat /\ o(i) < len /\ i * size = o(i) + size BY <2>1 DEF o
  <2> QED BY <2>2
<1>5. ASSUME NEW i \in 1 .. n
      PROVE  /\ IsPiece(t[i], id, len) /\ Off(t[i]) = o(i) /\ Len(t[i]) = e(i) - o(i)
  <2> HIDE DEF o, e
  <2>1. t[i] = SubSeq(Payload(id, len), o(i) + 1, e(i)) BY <1>3
  <2> QED BY <1>4, <2>1, PieceFacts
<1>6. t \in Seq(Seq(Units)) /\ Len(t) = n
  <2>1. \A i \in 1 .. n : t[i] \in Seq(Units) BY <1>5 DEF IsPiece
  <2>2. t \in [1 .. n -> Seq(Units)] BY <1>3, <2>1
  <2> QED BY <1>1, <2>2
<1>7. ASSUME NEW i \in 1 .. n - 1 PROVE Off(t[i + 1]) = Off(t[i]) + Len(t[i])
  <2>1. i \in 1 .. n /\ i + 1 \in 1 .. n BY <1>1
  <2>2. o(i + 1) = i * size
    <3>1. (i + 1) - 1 = i OBVIOUS
    <3> QED BY <3>1
  <2>3. o(i + 1) < len /\ Off(t[i + 1]) = o(i + 1) BY <1>4, <1>5, <2>1
  <2>4. e(i) = i * size BY <2>2, <2>3
  <2>5. Off(t[i]) = o(i) /\ Len(t[i]) = e(i) - o(i) /\ o(i) \in Nat /\ e(i) \in Nat
    BY <1>4, <1>5, <2>1
  <2>6. Off(t[i + 1]) = e(i) BY <2>2, <2>3, <2>4
  <2> HIDE DEF o, e
  <2> QED BY <2>5, <2>6
<1>8. Off(t[n]) + Len(t[n]) = len
  <2>1. n \in 1 .. n BY <1>1
  <2>2. e(n) = len
    <3>1. n * size \in Nat BY <1>1
    <3> QED BY <1>1, <3>1
  <2>3. Off(t[n]) = o(n) /\ Len(t[n]) = e(n) - o(n) /\ o(n) \in Nat /\ e(n) \in Nat
    BY <1>4, <1>5, <2>1
  <2> HIDE DEF o, e
  <2> QED BY <2>2, <2>3
<1>9. o(1) = 0 /\ 1 \in 1 .. n BY <1>1
<1> HIDE DEF o, e
<1>10. Off(t[1]) = 0 BY <1>5, <1>9
<1>11. len <= size => Len(t[1]) = len BY <1>4, <1>5, <1>9
<1>12. t # <<>> BY <1>1, <1>6
<1>13. \A i \in 1 .. Len(t) :
         /\ IsPiece(t[i], id, len)
         /\ Len(t[i]) = IF len - Off(t[i]) > size THEN size ELSE len - Off(t[i])
  BY <1>4, <1>5, <1>6
<1>14. Cut(t, id, len, size) BY <1>6, <1>7, <1>8, <1>12, <1>13 DEF Cut
<1> QED BY <1>6, <1>10, <1>11, <1>14 DEF WellCut

\* The message begun is with the goroutine that began it.
LEMMA BeginPlace ==
    ASSUME TypeOK, OnePlace, side \subseteq Writers, NEW w \in side, NEW M \in Messages, NEW j,
           job[w] = NoJob, j # NoJob, j.id = Len(sent) + 1,
           job' = [job EXCEPT ![w] = j], sent' = Append(sent, M),
           UNCHANGED <<side, buf, wire, got>>
    PROVE  OnePlace'
<1> DEFINE id == Len(sent) + 1
<1>1. /\ job \in [Writers -> Jobs] /\ Len(sent) \in Nat /\ Len(sent') = id /\ w \in Writers
      /\ id \notin 1 .. Len(sent) /\ 1 .. id = (1 .. Len(sent)) \cup {id}
  BY DEF TypeOK
<1> HIDE DEF id
<1>2. job'[w] = j /\ \A v \in side \ {w} : job'[v] = job[v] BY <1>1
<1>3. j.id = id BY DEF id
<1>4. Held(w) = FinalIds(buf[w]) /\ Held(w)' = FinalIds(buf[w]) \cup {id}
  BY <1>2, <1>3 DEF Held
<1>5. \A v \in side \ {w} : Held(v)' = Held(v) BY <1>2 DEF Held
<1>6. GotIds' = GotIds BY DEF GotIds
<1>7. 1 .. Len(sent) = GotIds \cup FinalIds(wire) \cup UNION {Held(v) : v \in side}
  BY DEF OnePlace
<1>8. /\ id \notin GotIds /\ id \notin FinalIds(wire) /\ \A v \in side : id \notin Held(v)
  BY <1>1, <1>7
<1>9. UNION {Held(v)' : v \in side} = {id} \cup UNION {Held(v) : v \in side}
  BY <1>4, <1>5
<1>10. 1 .. Len(sent') = GotIds \cup FinalIds(wire) \cup UNION {Held(v)' : v \in side}
  BY <1>1, <1>7, <1>9
<1>11. \A v \in side : job'[v] # NoJob => job'[v].id \notin FinalIds(buf[v])
  BY <1>2, <1>3, <1>4, <1>8 DEF OnePlace
<1>12. \A v \in side : Held(v)' \cap (GotIds \cup FinalIds(wire)) = {}
  BY <1>4, <1>5, <1>8 DEF OnePlace
<1>13. \A u, v \in side : u # v => Held(u)' \cap Held(v)' = {}
  BY <1>4, <1>5, <1>8 DEF OnePlace
<1>14. /\ OnceEach(wire) /\ \A v \in side : OnceEach(buf[v])
       /\ \A i, k \in 1 .. Len(got) : IdOf(got[i]) = IdOf(got[k]) => i = k
       /\ GotIds \cap FinalIds(wire) = {}
  BY DEF OnePlace
<1> QED BY <1>6, <1>10, <1>11, <1>12, <1>13, <1>14 DEF OnePlace

\* What the message begun makes of its goroutine.
LEMMA BeginJob ==
    ASSUME Tame, side \in Sides, OwnSide, TypeOK, NEW w \in side, w \in Writers,
           NEW M \in Offers[w], M.len > 0, InOrder(M), NEW j, NEW size,
           size = IF M.type = 1 THEN M.size ELSE sendChunkSize,
           j = [id |-> Len(sent) + 1, hdr |-> Header(M.ts, M.len, M.type, M.sid),
                csid |-> CsidOf(M.type), todo |-> Pieces(Payload(Len(sent) + 1, M.len), size)],
           sent' = Append(sent, M), sendChunkSize' = size
    PROVE  /\ j \in Jobs /\ j # NoJob /\ JobInv(j, M, w)' /\ Off(j.todo[1]) = 0
           /\ size \in FitSizes /\ j.hdr.messageTypeID = M.type
<1>1. /\ M \in Messages /\ M.type \in TypeIDs /\ M.sid \in Nat
      /\ M.len \in Nat /\ M.ts \in Nat /\ CsidOf(M.type) \in Csids
      /\ M.type = 1 => M.size \in FitSizes /\ \A n \in FitSizes : M.len <= n
  <2>1. w \notin Foreign BY DEF OwnSide
  <2> QED BY <2>1, OfferFacts
<1>2. size \in FitSizes /\ size \in Nat \ {0} BY <1>1 DEF TypeOK, FitSizes
<1>3. /\ Len(sent) \in Nat /\ Len(sent') = Len(sent) + 1 /\ sent'[Len(sent) + 1] = M
      /\ \A i \in 1 .. Len(sent) : sent'[i] = sent[i]
      /\ DOMAIN sent = 1 .. Len(sent)
  BY <1>1 DEF TypeOK
<1> DEFINE id == Len(sent) + 1
           t == Pieces(Payload(id, M.len), size)
<1>4. id \in Nat /\ id # 0 BY <1>3
<1>5. M.len \in Nat \ {0} BY <1>1
<1>6. j.id = id /\ j.hdr = Header(M.ts, M.len, M.type, M.sid) /\ j.csid = CsidOf(M.type)
      /\ j.todo = t
  OBVIOUS
<1> HIDE DEF id
<1>7. /\ t \in Seq(Seq(Units)) /\ Cut(t, id, M.len, size)
      /\ Off(t[1]) = 0 /\ (M.len <= size => Len(t[1]) = M.len)
  <2>1. t = Pieces(Payload(id, M.len), size) OBVIOUS
  <2> HIDE DEF t
  <2>2. WellCut(t, id, M.len, size) BY <1>2, <1>4, <1>5, <2>1, PiecesFacts
  <2> QED BY <2>2 DEF WellCut
<1> HIDE DEF t
<1>8. /\ j.hdr \in Headers /\ HasShape(j.hdr, M) /\ j.hdr.timestamp = M.ts
      /\ j.hdr.timeDelta = 0
  BY <1>1, <1>6 DEF Header, Headers, HasShape, TypeIDs
<1>9. j \in Jobs
  <2>1. CsidOf(M.type) \in Nat BY <1>1 DEF Csids
  <2>2. j = [id |-> id, hdr |-> j.hdr, csid |-> CsidOf(M.type), todo |-> t]
    BY <1>6 DEF id, t
  <2> QED BY <1>4, <1>7, <1>8, <2>1, <2>2 DEF Jobs
<1>10. j # NoJob
  <2>1. NoJob.id = 0 BY DEF NoJob
  <2> QED BY <1>4, <1>6, <2>1
<1>11. ASSUME NEW i \in 1 .. Len(sent'), CsidOf(sent'[i].type) = j.csid PROVE sent'[i].ts <= M.ts
  <2>1. CASE i = Len(sent) + 1 BY <1>1, <1>3, <2>1
  <2>2. CASE i # Len(sent) + 1
    <3>1. i \in 1 .. Len(sent) BY <1>3, <2>2
    <3>2. CsidOf(sent[i].type) = CsidOf(M.type) BY <1>3, <1>6, <1>11, <3>1
    <3> QED BY <1>3, <3>1, <3>2 DEF InOrder
  <2> QED BY <2>1, <2>2
<1>12. M.type = 1 => M.size = size /\ Off(t[1]) = 0 /\ Len(t[1]) = M.len
  BY <1>1, <1>2, <1>7
<1>13. j.id \in 1 .. Len(sent') BY <1>3, <1>6 DEF id
<1>14. ~(Off(t[1]) > 0) BY <1>7
<1>15. JobInv(j, M, w)'
  BY <1>6, <1>7, <1>8, <1>11, <1>12, <1>13, <1>14 DEF JobInv
<1>16. j.hdr.messageTypeID = M.type BY <1>8 DEF HasShape
<1> QED BY <1>2, <1>6, <1>7, <1>9, <1>10, <1>15, <1>16

\* BeginMessage keeps the invariant.
LEMMA BeginKeeps ==
    ASSUME Tame, side \in Sides, OwnSide, OwnInv, NEW w \in side, NEW M \in Offers[w],
           BeginMessage(w, M)
    PROVE  OwnInv'
<1>1. PICK r \in Views, m \in Views : Follows(r, m) BY DEF OwnInv
<1>2. /\ TypeOK /\ SentInv /\ GotInv /\ OnePlace /\ PackerInv /\ reader = "ok" BY DEF OwnInv
<1>3. side \subseteq Writers /\ w \in Writers BY WriterAssumption
<1>4. PICK size : size = IF M.type = 1 THEN M.size ELSE sendChunkSize OBVIOUS
<1>5. PICK j :
        j = [id |-> Len(sent) + 1, hdr |-> Header(M.ts, M.len, M.type, M.sid),
             csid |-> CsidOf(M.type), todo |-> Pieces(Payload(Len(sent) + 1, M.len), size)]
  OBVIOUS
<1>6. /\ job[w] = NoJob /\ Accepted(M) /\ M.len > 0 /\ Settled(w, M) /\ InOrder(M)
      /\ sent' = Append(sent, M) /\ job' = [job EXCEPT ![w] = j] /\ sendChunkSize' = size
      /\ side' = side /\ sendStreams' = sendStreams /\ base' = base /\ buf' = buf
      /\ wire' = wire /\ chunkSize' = chunkSize /\ streams' = streams
      /\ collector' = collector /\ reader' = reader /\ got' = got
  BY <1>4, <1>5 DEF BeginMessage, readVars
<1>7. /\ j \in Jobs /\ j # NoJob /\ JobInv(j, M, w)' /\ Off(j.todo[1]) = 0
      /\ size \in FitSizes /\ j.hdr.messageTypeID = M.type
  BY <1>2, <1>3, <1>4, <1>5, <1>6, BeginJob
<1>8. M \in Messages BY <1>3, WriterAssumption
<1>9. /\ job \in [Writers -> Jobs] /\ buf \in [Writers -> Seq(Chunks)]
      /\ sent \in Seq(Messages) /\ Len(sent) \in Nat /\ Len(sent') = Len(sent) + 1
      /\ sent'[Len(sent) + 1] = M /\ \A i \in 1 .. Len(sent) : sent'[i] = sent[i]
      /\ sent' \in Seq(Messages) /\ \A i \in 1 .. Len(sent) : i \in 1 .. Len(sent')
      /\ \A i \in 1 .. Len(sent') : i = Len(sent) + 1 \/ i \in 1 .. Len(sent)
  BY <1>2, <1>6, <1>8 DEF TypeOK
<1>10. job'[w] = j /\ \A v \in side \ {w} : job'[v] = job[v] BY <1>3, <1>6, <1>9
<1>11. j.id = Len(sent) + 1 BY <1>5
<1>12. OnePlace'
  <2>1. UNCHANGED <<side, buf, wire, got>> BY <1>6
  <2> QED BY <1>2, <1>3, <1>6, <1>7, <1>8, <1>11, <2>1, BeginPlace
<1>13. TypeOK'
  <2>1. job' \in [Writers -> Jobs] BY <1>6, <1>7, <1>9
  <2> QED BY <1>2, <1>6, <1>7, <1>9, <2>1 DEF TypeOK
<1>14. SentInv'
  <2> SUFFICES ASSUME NEW i \in 1 .. Len(sent')
               PROVE  /\ \E v \in side : sent'[i] \in Offers[v]
                      /\ sent'[i].len > 0 /\ Accepted(sent'[i])
    BY <1>6 DEF SentInv
  <2>1. CASE i = Len(sent) + 1 BY <1>6, <1>9, <2>1
  <2>2. CASE i \in 1 .. Len(sent) BY <1>2, <1>9, <2>2 DEF SentInv
  <2> QED BY <1>9, <2>1, <2>2
<1>15. GotInv'
  <2> SUFFICES ASSUME NEW i \in 1 .. Len(got)
               PROVE  IdOf(got[i]) \in 1 .. Len(sent') /\ IsMessage(got[i], IdOf(got[i]))'
    BY <1>6 DEF GotInv, IsMessage, IdOf
  <2>1. IdOf(got[i]) \in 1 .. Len(sent) /\ IsMessage(got[i], IdOf(got[i])) BY <1>2 DEF GotInv
  <2>2. sent'[IdOf(got[i])] = sent[IdOf(got[i])] BY <1>9, <2>1
  <2> QED BY <1>6, <1>9, <2>1, <2>2 DEF IsMessage, IdOf
<1>16. NoJob.hdr.messageTypeID = 0 BY DEF NoJob, Header
<1>17. \A v \in side \ {w} : ~Announcing(v) /\ ~Announcing(v)'
  <2>1. \A v \in side \ {w} : ~Announcing(v) BY <1>3, <1>6 DEF Settled
  <2> QED BY <1>6, <1>10, <2>1 DEF Announcing
<1>18. M.type = 1 => Announcing(w)' BY <1>7, <1>10 DEF Announcing
<1>19. Announcing(w) => Announcing(w)' BY <1>6, <1>16 DEF Announcing
<1>20. M.type # 1 /\ Announcing(w)' => Announcing(w) BY <1>6, <1>7, <1>10 DEF Announcing
<1>21. M.type = 1 => \A v \in side \ {w} : job[v] = NoJob /\ buf[v] = <<>>
  BY <1>3, <1>6 DEF Settled
<1>22. PackerInv'
  <2>1. ASSUME NEW e \in Csids, sendStreams[e].known
        PROVE  /\ \E v \in side : e \in CsidsOf(v)
               /\ \E i \in 1 .. Len(sent') :
                    CsidOf(sent'[i].type) = e /\ sent'[i].ts = sendStreams[e].hdr.timestamp
    BY <1>2, <1>9, <2>1 DEF PackerInv
  <2>2. ASSUME NEW v \in side, NEW x \in side, v # x, Announcing(v)'
        PROVE  job'[x] = NoJob /\ buf'[x] = <<>>
    <3>1. v = w BY <1>17, <2>2
    <3>2. job[x] = NoJob /\ buf[x] = <<>>
      <4>1. CASE M.type = 1 BY <1>21, <2>2, <3>1, <4>1
      <4>2. CASE M.type # 1 BY <1>2, <1>20, <2>2, <3>1, <4>2 DEF PackerInv
      <4> QED BY <4>1, <4>2
    <3> QED BY <1>6, <1>10, <2>2, <3>1, <3>2
  <2> QED BY <1>6, <2>1, <2>2 DEF PackerInv
<1>23. Seen(r)'
  <2>1. r.pos > 0 => Within(r, sent[r.id]) /\ r.id \in 1 .. Len(sent)
    BY <1>1 DEF Follows, Seen, Within
  <2>2. r.pos > 0 => Within(r, sent[r.id])'
    <3> SUFFICES ASSUME r.pos > 0 PROVE Within(r, sent[r.id])' OBVIOUS
    <3>1. Within(r, sent[r.id]) /\ sent'[r.id] = sent[r.id] /\ r.id \in 1 .. Len(sent')
      BY <1>9, <2>1
    <3> QED BY <1>6, <3>1 DEF Within
  <2>3. r.pos = 0 => Between(r)' BY <1>1, <1>6 DEF Follows, Seen, Between
  <2> QED BY <1>1, <1>6, <2>2, <2>3 DEF Follows, Seen
<1>24. Chain(sent', r, wire', m) /\ m.pos = 0 /\ m.id = 0
  BY <1>1, <1>6, <1>8, <1>9, ChainGrows DEF Follows
<1>25. \E b \in Views : Chain(sent', m, buf'[w], b) /\ Ready(w, m, b)'
  <2>1. PICK b \in Views : Chain(sent, m, buf[w], b) /\ Ready(w, m, b) BY <1>1 DEF Follows
  <2>2. Chain(sent', m, buf'[w], b) BY <1>6, <1>8, <1>9, <2>1, ChainGrows
  <2>3. b.pos = 0 /\ b.id = 0 BY <1>6, <2>1 DEF Ready
  <2>4. M.type # 1 => b.size = sendChunkSize'
    BY <1>4, <1>6, <1>16, <1>17, <2>1 DEF Ready
  <2>5. sent'[j.id] = M BY <1>9, <1>11
  <2>6. /\ JobInv(job[w], sent[job[w].id], w)'
        /\ b.pos = Off(job'[w].todo[1]) /\ b.id = IF b.pos = 0 THEN 0 ELSE job'[w].id
        /\ job'[w] # NoJob /\ job'[w].hdr.messageTypeID = M.type
    BY <1>7, <1>10, <2>3, <2>5
  <2>7. /\ \A i \in 1 .. Len(buf[w]) : buf[w][i].csid \in CsidsOf(w)
        /\ \A c \in Csids \ CsidsOf(w) : b.strm[c] = m.strm[c]
        /\ (\A i \in 1 .. Len(buf[w]) : buf[w][i].type # 1) => b.size = m.size
        /\ \A c \in CsidsOf(w) : Agrees(b.strm[c], sendStreams[c], base[c])
    BY <2>1 DEF Ready
  <2>8. Ready(w, m, b)' BY <1>6, <2>4, <2>6, <2>7 DEF Ready
  <2> QED BY <2>2, <2>8
<1>26. ASSUME NEW v \in side, v # w
       PROVE  \E b \in Views : Chain(sent', m, buf'[v], b) /\ Ready(v, m, b)'
  <2>1. PICK b \in Views : Chain(sent, m, buf[v], b) /\ Ready(v, m, b) BY <1>1 DEF Follows
  <2>2. Chain(sent', m, buf'[v], b) BY <1>6, <1>8, <1>9, <2>1, ChainGrows
  <2>3. job'[v] = job[v] BY <1>10, <1>26
  <2>4. (\A u \in side \ {v} : ~Announcing(u))' => sendChunkSize' = sendChunkSize
                                                /\ \A u \in side \ {v} : ~Announcing(u)
    <3> SUFFICES ASSUME (\A u \in side \ {v} : ~Announcing(u))'
                 PROVE  sendChunkSize' = sendChunkSize /\ \A u \in side \ {v} : ~Announcing(u)
      OBVIOUS
    <3>1. ~Announcing(w)' BY <1>6, <1>26
    <3>2. M.type # 1 /\ ~Announcing(w) BY <1>18, <1>19, <3>1
    <3> QED BY <1>4, <1>6, <1>17, <3>2
  <2>5. (\A u \in side \ {v} : ~Announcing(u))' /\ job[v].hdr.messageTypeID # 1 =>
          b.size = sendChunkSize'
    BY <2>1, <2>4 DEF Ready
  <2>6. ASSUME job[v] # NoJob
        PROVE  /\ JobInv(job[v], sent[job[v].id], v)'
               /\ b.pos = Off(job[v].todo[1]) /\ b.id = IF b.pos = 0 THEN 0 ELSE job[v].id
    <3>1. /\ JobInv(job[v], sent[job[v].id], v)
          /\ b.pos = Off(job[v].todo[1]) /\ b.id = IF b.pos = 0 THEN 0 ELSE job[v].id
      BY <2>1, <2>6 DEF Ready
    <3>2. M.type # 1 BY <1>21, <1>26, <2>6
    <3>3. sendChunkSize' = sendChunkSize BY <1>4, <1>6, <3>2
    <3>4. /\ job[v].id \in 1 .. Len(sent) /\ job[v].csid \in CsidsOf(v)
          /\ \A i \in 1 .. Len(sent) :
               CsidOf(sent[i].type) = job[v].csid => sent[i].ts <= sent[job[v].id].ts
      BY <3>1 DEF JobInv, CsidsOf
    <3>5. sent'[job[v].id] = sent[job[v].id] /\ job[v].id \in 1 .. Len(sent') BY <1>9, <3>4
    <3>6. CsidOf(M.type) # job[v].csid
      <4>1. CsidOf(M.type) \in CsidsOf(w) BY DEF CsidsOf
      <4> QED BY <1>26, <3>4, <4>1, OwnCsids
    <3>7. \A i \in 1 .. Len(sent') :
            CsidOf(sent'[i].type) = job[v].csid => sent'[i].ts <= sent[job[v].id].ts
      BY <1>9, <3>4, <3>6
    <3>8. JobInv(job[v], sent[job[v].id], v)'
      BY <1>6, <2>3, <3>1, <3>3, <3>5, <3>7 DEF JobInv
    <3> QED BY <3>1, <3>8
  <2>7. /\ \A i \in 1 .. Len(buf[v]) : buf[v][i].csid \in CsidsOf(v)
        /\ \A c \in Csids \ CsidsOf(v) : b.strm[c] = m.strm[c]
        /\ (\A i \in 1 .. Len(buf[v]) : buf[v][i].type # 1) => b.size = m.size
        /\ \A c \in CsidsOf(v) : Agrees(b.strm[c], sendStreams[c], base[c])
        /\ job[v] = NoJob => b.pos = 0 /\ b.id = 0
    BY <2>1 DEF Ready
  <2>8. Ready(v, m, b)' BY <1>6, <2>3, <2>5, <2>6, <2>7 DEF Ready
  <2> QED BY <2>2, <2>8
<1>27. Follows(r, m)'
  <2>1. \A v \in side' : \E b \in Views : Chain(sent', m, buf'[v], b) /\ Ready(v, m, b)'
    BY <1>6, <1>25, <1>26
  <2> QED BY <1>23, <1>24, <2>1 DEF Follows
<1> QED BY <1>2, <1>6, <1>12, <1>13, <1>14, <1>15, <1>22, <1>27 DEF OwnInv

(***************************************************************************)
(* The theorems.                                                           *)
(***************************************************************************)
\* The invariant holds at the start.
LEMMA OwnStart ==
    ASSUME Tame, Init
    PROVE  ChunkInv
<1>1. /\ side \in Sides /\ reader = "ok" /\ wire = <<>> /\ sent = <<>> /\ got = <<>>
      /\ sendChunkSize = DefaultSize /\ chunkSize = DefaultSize
      /\ sendStreams = [c \in Csids |-> NoStream] /\ streams = [c \in Csids |-> NoStream]
      /\ job = [w \in Writers |-> NoJob] /\ buf = [w \in Writers |-> <<>>]
      /\ collector = [s \in Sids |-> FreshCollector] /\ base = [c \in Csids |-> 0]
  BY DEF Init
<1>2. side \subseteq Writers BY <1>1, WriterAssumption
<1>3. DefaultSize \in FitSizes BY SizeAssumption DEF FitSizes, Tame
<1>4. Header(0, 0, 0, 0) \in Headers /\ Header(0, 0, 0, 0).timestamp = 0
  BY DEF Header, Headers
<1>5. /\ NoStream.hdr.timestamp = 0 /\ NoStream.remain = 0 /\ ~NoStream.known
      /\ NoStream \in Streams /\ NoJob \in Jobs /\ FreshCollector \in Collectors
      /\ ShapeOf(NoStream) \in Shapes
  <2>1. <<>> \in Seq(Units) /\ <<>> \in Seq(Seq(Units)) OBVIOUS
  <2>2. FreshStream \in Streams /\ FreshStream.hdr = Header(0, 0, 0, 0) /\ FreshStream.remain = 0
    BY <1>4 DEF FreshStream, Streams
  <2>3. NoStream \in Streams /\ NoStream.hdr = Header(0, 0, 0, 0) /\ NoStream.remain = 0
    BY <2>2 DEF NoStream, Streams
  <2>4. ~NoStream.known BY <2>2 DEF NoStream, Streams
  <2>5. NoJob \in Jobs BY <1>4, <2>1 DEF NoJob, Jobs
  <2>6. FreshCollector \in Collectors BY <1>4, <2>1 DEF FreshCollector, Collectors
  <2>7. ShapeOf(NoStream) \in Shapes
    BY <1>4, <2>3 DEF ShapeOf, Shapes, Streams, Headers
  <2> QED BY <1>4, <2>3, <2>4, <2>5, <2>6, <2>7
<1>6. TypeOK
  <2>1. <<>> \in Seq(Chunks) /\ <<>> \in Seq(Messages)
        /\ <<>> \in Seq([done : BOOLEAN, hdr : Headers, data : Seq(Units)])
    OBVIOUS
  <2>2. /\ sendStreams \in [Csids -> Streams] /\ streams \in [Csids -> Streams]
        /\ \A c \in Csids : streams[c].hdr.timestamp \in Nat
    <3>1. NoStream.hdr.timestamp \in Nat BY <1>5
    <3>2. \A c \in Csids : streams[c] = NoStream BY <1>1
    <3>3. [c \in Csids |-> NoStream] \in [Csids -> Streams] BY <1>5
    <3> QED BY <1>1, <3>1, <3>2, <3>3
  <2>3. collector \in [Sids -> Collectors] /\ job \in [Writers -> Jobs] BY <1>1, <1>5
  <2>4. buf \in [Writers -> Seq(Chunks)] /\ base \in [Csids -> Nat] BY <1>1, <2>1
  <2> QED BY <1>1, <1>3, <2>1, <2>2, <2>3, <2>4 DEF TypeOK
<1>7. Len(sent) = 0 /\ Len(got) = 0 /\ Len(wire) = 0 /\ \A w \in side : Len(buf[w]) = 0
  BY <1>1, <1>2
<1>8. SentInv /\ GotInv BY <1>7 DEF SentInv, GotInv
<1>9. \A w \in side : job[w] = NoJob /\ buf[w] = <<>> BY <1>1, <1>2
<1>10. OnePlace
  <2>1. FinalIds(wire) = {} /\ GotIds = {} BY <1>7 DEF FinalIds, GotIds
  <2>2. \A w \in side : FinalIds(buf[w]) = {} BY <1>7 DEF FinalIds
  <2>3. \A w \in side : Held(w) = {} BY <1>9, <2>2 DEF Held
  <2>4. OnceEach(wire) /\ \A w \in side : OnceEach(buf[w]) BY <1>7 DEF OnceEach
  <2>5. 1 .. Len(sent) = {} BY <1>7
  <2> QED BY <1>7, <1>9, <2>1, <2>3, <2>4, <2>5 DEF OnePlace
<1>11. PackerInv
  <2>1. \A c \in Csids : ~sendStreams[c].known BY <1>1, <1>5
  <2> QED BY <1>9, <2>1 DEF PackerInv
<1>12. PICK r : r = [size |-> DefaultSize, id |-> 0, pos |-> 0,
                     strm |-> [c \in Csids |-> ShapeOf(NoStream)]]
  OBVIOUS
<1>14. r \in Views /\ r.size = DefaultSize /\ r.id = 0 /\ r.pos = 0
       /\ \A c \in Csids : r.strm[c] = ShapeOf(NoStream)
  BY <1>3, <1>5, <1>12 DEF Views
<1>15. Seen(r)
  <2>1. \A s \in Sids : Idle(collector[s]) BY <1>1 DEF Idle, FreshCollector
  <2>2. Between(r) BY <1>1, <1>5, <1>14, <2>1 DEF Between
  <2>3. \A c \in Csids : streams[c] = NoStream /\ ~streams[c].known BY <1>1, <1>5
  <2>4. r.size = chunkSize /\ ~(r.pos > 0) BY <1>1, <1>14
  <2>5. \A c \in Csids : r.strm[c] = ShapeOf(streams[c]) BY <1>14, <2>3
  <2> QED BY <2>2, <2>3, <2>4, <2>5 DEF Seen
<1>16. ASSUME NEW w \in side PROVE Chain(sent, r, buf[w], r) /\ Ready(w, r, r)
  <2>1. Chain(sent, r, buf[w], r) BY <1>9, <1>14, ChainNone
  <2>2. CsidsOf(w) \subseteq Csids BY <1>1, OwnCsids
  <2>3. \A c \in CsidsOf(w) : Agrees(r.strm[c], sendStreams[c], base[c])
    <3> SUFFICES ASSUME NEW c \in CsidsOf(w) PROVE Agrees(r.strm[c], sendStreams[c], base[c])
      OBVIOUS
    <3>1. sendStreams[c] = NoStream /\ r.strm[c] = ShapeOf(NoStream) BY <1>1, <1>14, <2>2
    <3>2. ShapeOf(NoStream).known = NoStream.known BY DEF ShapeOf
    <3> QED BY <1>5, <3>1, <3>2 DEF Agrees
  <2>4. 1 .. Len(buf[w]) = {} BY <1>7
  <2> QED BY <1>1, <1>9, <1>14, <2>1, <2>3, <2>4 DEF Ready
<1>17. Follows(r, r) BY <1>1, <1>14, <1>15, <1>16, ChainNone DEF Follows
<1> QED BY <1>1, <1>6, <1>8, <1>10, <1>11, <1>14, <1>17 DEF ChunkInv, OwnInv

\* Every step keeps it.
LEMMA OwnStep ==
    ASSUME Tame, ChunkInv, [Next]_vars
    PROVE  ChunkInv'
<1>1. side' = side
  BY DEF Next, vars, BeginMessage, SerializerChunk, Write, ForeignWrite, Receive
<1>2. side \in Sides BY DEF ChunkInv
<1> SUFFICES ASSUME OwnSide PROVE OwnInv' BY <1>1, <1>2 DEF ChunkInv, OwnSide
<1>3. OwnInv BY DEF ChunkInv
<1>4. CASE \E w \in side : \E m \in Offers[w] : BeginMessage(w, m)
  BY <1>2, <1>3, <1>4, BeginKeeps
<1>5. CASE \E w \in side : SerializerChunk(w)
  BY <1>2, <1>3, <1>5, SerializerKeeps
<1>6. CASE \E w \in side : Write(w)
  BY <1>2, <1>3, <1>6, WriteKeeps
<1>7. CASE \E w \in side : ForeignWrite(w)
  BY <1>7 DEF ForeignWrite, OwnSide
<1>8. CASE Receive
  BY <1>2, <1>3, <1>8, ReceiveKeeps
<1>9. CASE UNCHANGED vars
  <2>1. /\ side' = side /\ sendChunkSize' = sendChunkSize /\ sendStreams' = sendStreams
        /\ job' = job /\ base' = base /\ buf' = buf /\ wire' = wire /\ sent' = sent
        /\ chunkSize' = chunkSize /\ streams' = streams /\ collector' = collector
        /\ reader' = reader /\ got' = got
    BY <1>9 DEF vars, packVars, readVars
  <2>2. PICK r \in Views, m \in Views : Follows(r, m) BY <1>3 DEF OwnInv
  <2>3. TypeOK' /\ SentInv' /\ GotInv' /\ PackerInv' /\ reader' = "ok"
    <3>1. TypeOK' BY <1>3, <2>1 DEF OwnInv, TypeOK
    <3>2. SentInv' BY <1>3, <2>1 DEF OwnInv, SentInv
    <3>3. GotInv' BY <1>3, <2>1 DEF OwnInv, GotInv, IsMessage
    <3>4. PackerInv' BY <1>3, <2>1 DEF OwnInv, PackerInv, Announcing
    <3> QED BY <1>3, <2>1, <3>1, <3>2, <3>3, <3>4 DEF OwnInv
  <2>4. OnePlace'
    <3>1. GotIds' = GotIds /\ \A w \in side : Held(w)' = Held(w) BY <2>1 DEF GotIds, Held
    <3>2. OnePlace BY <1>3 DEF OwnInv
    <3> QED BY <2>1, <3>1, <3>2 DEF OnePlace
  <2>5. Seen(r)' BY <2>1, <2>2 DEF Follows, Seen, Between, Within
  <2>6. ASSUME NEW w \in side
        PROVE  \E b \in Views : Chain(sent', m, buf'[w], b) /\ Ready(w, m, b)'
    <3>1. PICK b \in Views : Chain(sent, m, buf[w], b) /\ Ready(w, m, b)
      BY <2>2 DEF Follows
    <3>2. Ready(w, m, b)' BY <2>1, <3>1 DEF Ready, Announcing, JobInv
    <3> QED BY <2>1, <3>1, <3>2
  <2>7. Follows(r, m)' BY <2>1, <2>2, <2>5, <2>6 DEF Follows
  <2> QED BY <2>3, <2>4, <2>7 DEF OwnInv
<1> QED BY <1>4, <1>5, <1>6, <1>7, <1>8, <1>9 DEF Next

\* The invariant always holds: Tame is about the constants alone.
LEMMA OwnAlways ==
    ASSUME Tame
    PROVE  Spec => []ChunkInv
<1>1. Init => ChunkInv BY OwnStart
<1>2. ChunkInv /\ [Next]_vars => ChunkInv' BY OwnStep
<1> QED BY <1>1, <1>2, PTL DEF Spec

\* With the repository's own packer, in the circumstances Tame describes, the
\* unpacker never loses the place where a chunk begins, never refuses a message
\* and never panics, for any goroutines, messages, batches and sizes.
THEOREM OwnFraming ==
    ASSUME Tame
    PROVE  Spec => [](OwnSide => Framing)
<1>1. ChunkInv => (OwnSide => Framing) BY DEF ChunkInv, OwnInv, Framing
<1> QED BY <1>1, OwnAlways, PTL

\* What the collector delivers is what was given to SerializerChunk: whole, in
\* order, unmixed with another message, of the same type and message stream, and
\* once, however the goroutines that share the packer interleave their chunks.
THEOREM OwnMessagesIntact ==
    ASSUME Tame
    PROVE  Spec => [](OwnSide => MessagesIntact)
<1>1. ASSUME ChunkInv, OwnSide PROVE MessagesIntact
  <2>1. TypeOK /\ GotInv /\ OnePlace BY <1>1 DEF ChunkInv, OwnInv
  <2>2. DOMAIN got = 1 .. Len(got) /\ DOMAIN sent = 1 .. Len(sent) BY <2>1 DEF TypeOK
  <2>3. \A i \in DOMAIN got : \E id \in DOMAIN sent : IsMessage(got[i], id)
    BY <2>1, <2>2 DEF GotInv
  <2>4. \A i, j \in DOMAIN got : i # j => got[i].data # got[j].data
    BY <2>1, <2>2 DEF OnePlace, IdOf
  <2> QED BY <2>3, <2>4 DEF MessagesIntact
<1> QED BY <1>1, OwnAlways, PTL

\* Nothing is lost on the way: when the wire, the buffers and the goroutines are
\* empty, every message that was begun has been delivered.
THEOREM OwnNothingLost ==
    ASSUME Tame
    PROVE  Spec => [](OwnSide => NothingLost)
<1>1. ASSUME ChunkInv, OwnSide, Quiet
      PROVE  \A id \in DOMAIN sent : \E i \in DOMAIN got : IsMessage(got[i], id)
  <2>1. TypeOK /\ GotInv /\ OnePlace /\ side \subseteq Writers
    BY <1>1, WriterAssumption DEF ChunkInv, OwnInv
  <2>2. DOMAIN got = 1 .. Len(got) /\ DOMAIN sent = 1 .. Len(sent) BY <2>1 DEF TypeOK
  <2>3. wire = <<>> /\ \A w \in side : job[w] = NoJob /\ buf[w] = <<>> BY <1>1, <2>1 DEF Quiet
  <2>4. FinalIds(<<>>) = {} BY DEF FinalIds
  <2>5. \A w \in side : Held(w) = {} BY <2>3, <2>4 DEF Held
  <2>6. 1 .. Len(sent) = GotIds BY <2>1, <2>3, <2>4, <2>5 DEF OnePlace
  <2> SUFFICES ASSUME NEW id \in 1 .. Len(sent) PROVE \E i \in 1 .. Len(got) : IsMessage(got[i], id)
    BY <2>2
  <2>7. PICK i \in 1 .. Len(got) : IdOf(got[i]) = id BY <2>6 DEF GotIds
  <2> QED BY <2>1, <2>7 DEF GotInv
<1>2. ChunkInv => (OwnSide => NothingLost) BY <1>1 DEF NothingLost
<1> QED BY <1>2, OwnAlways, PTL

\* The two ends agree on the header of every chunk stream whenever nothing is
\* under way, so that the next compressed header is completed to the right one.
THEOREM OwnEndsAgree ==
    ASSUME Tame
    PROVE  Spec => [](OwnSide => EndsAgree)
<1>1. ASSUME ChunkInv, OwnSide, Quiet, NEW c \in Csids, sendStreams[c].known
      PROVE  /\ streams[c].known /\ streams[c].remain = 0
             /\ SameShape(streams[c].hdr, sendStreams[c].hdr)
             /\ streams[c].hdr.messageStreamID = sendStreams[c].hdr.messageStreamID
             /\ (streams[c].hdr.timestamp + base[c]) % Wrap32 = sendStreams[c].hdr.timestamp
  <2>1. TypeOK /\ SentInv /\ PackerInv /\ side \in Sides /\ side \subseteq Writers
    BY <1>1, WriterAssumption DEF ChunkInv, OwnInv
  <2>2. PICK r \in Views, m \in Views : Follows(r, m) BY <1>1 DEF ChunkInv, OwnInv
  <2>3. wire = <<>> /\ \A w \in side : buf[w] = <<>> BY <1>1, <2>1 DEF Quiet
  <2>4. Seen(r) /\ r = m /\ r.pos = 0 BY <2>2, <2>3, ChainEmpty DEF Follows
  <2>5. PICK w \in side : c \in CsidsOf(w) BY <1>1, <2>1 DEF PackerInv
  <2>6. PICK b \in Views : Chain(sent, m, buf[w], b) /\ Ready(w, m, b) BY <2>2 DEF Follows
  <2>7. b = r BY <2>3, <2>4, <2>6, ChainEmpty
  <2>8. Agrees(ShapeOf(streams[c]), sendStreams[c], base[c])
    BY <1>1, <2>4, <2>5, <2>6, <2>7 DEF Ready, Seen
  <2>9. /\ streams[c].known /\ SameShape(streams[c].hdr, sendStreams[c].hdr)
        /\ streams[c].hdr.messageStreamID = sendStreams[c].hdr.messageStreamID
        /\ streams[c].hdr.timestamp + base[c] = sendStreams[c].hdr.timestamp
    BY <1>1, <2>8 DEF Agrees, ShapeOf, SameShape
  <2>10. streams[c].remain = 0 BY <1>1, <2>4 DEF Seen, Between
  <2>11. PICK i \in 1 .. Len(sent) : sent[i].ts = sendStreams[c].hdr.timestamp
    BY <1>1, <2>1 DEF PackerInv
  <2>12. sent[i].ts \in Nat /\ sent[i].ts < Limit24 BY <1>1, <2>1, SentFacts
  <2>13. sendStreams[c].hdr.timestamp \in Nat /\ sendStreams[c].hdr.timestamp < Wrap32
    BY <2>11, <2>12, SizeAssumption
  <2>14. sendStreams[c].hdr.timestamp % Wrap32 = sendStreams[c].hdr.timestamp
    BY <2>13, SizeAssumption, SmallMod
  <2> QED BY <2>9, <2>10, <2>14
<1>2. ChunkInv => (OwnSide => EndsAgree) BY <1>1 DEF EndsAgree
<1> QED BY <1>2, OwnAlways, PTL

=============================================================================
