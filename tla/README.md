# golive: a TLA+ verification project

golive is a live-streaming server in Go. A publisher pushes a stream over RTMP or
over a private "flv over TCP" protocol; the server hands every message to the
players of that stream. The repository also holds an RTMP client, an fMP4 muxer
and an MP4 box parser. This directory holds TLA+ models of these parts, TLC
configurations that check them on small instances, and theorems that TLAPS
proves for every instance.

## 1. Inventory

| Component | Source | State | Operations | Interacts with | Modules |
|---|---|---|---|---|---|
| pairPad | `exchange/expair.go` | `receivers`, `waitingSenders`, `pipe` | register / unregister a source or a sink, notify waiting sinks | handlers, source workers | `Exchange` |
| Source and sink workers | `exchange/expair.go` | `srcChan`, `sinks`, cached configurations, `msgChan` | connect / delete a sink, write to every sink, cancel, deliver | pairPad, connections | `Exchange`, `Broadcast` |
| RTMP server handler | `protocol/rtmp/serverHandler.go` | `status`, `role`, `putMsg`, codecs, chunk sizes | every message type and command, stop | exchanger, client | `RtmpServer`, `Exchange` |
| flv handler | `protocol/flvlive/*.go` | `appStreamKey`, `putData`, context | script (publish / play), media, Cancel | exchanger | `Exchange` |
| RTMP client | `protocol/rtmp/{clientHandler,request,response}.go`, `app/rtmppublish`, `app/rtmpplay` | `status`, transaction id, `connectResult`, `txMsgChan` | set-up, responses, senders, failure | server, application | `RtmpClient` |
| Chunk streams | `protocol/rtmp/{chunk,pack,message}.go` | last header per chunk stream, partial messages, chunk size | serialise, write, read, collect | both RTMP handlers | `ChunkStream`, `WireNumbers` |
| Handshake | `protocol/rtmp/handshake.go` | none after it ends | simple and complex form, both sides | RTMP handlers | `Handshake` |
| Accept loop, connections | `app/rtmpserver/*.go` | listener, back-off delay, deadline | accept, sniff the first byte, serve; Read and Write | handlers | `AcceptLoop`, `ConnDeadline` |
| GOP block allocator | `exchange/datacache.go` | a flag per item, buffers | allocate, release, write, count | not wired to the exchanger | `GopBlock` |
| fMP4 muxer | `container/mp4/fmp4.go` | tracks, caches, the fragment under construction | add a track, add a frame, close a fragment | box tree | `Fmp4`, `Fmp4Boxes` |
| MP4 box tree, decoder configuration | `container/mp4/*.go` | none between calls | parse, serialise | muxer, tools | `Mp4Box`, `Mp4Parse` |
| Bit reader | `utils/bitreader` | 64-bit buffer | read, peek, skip, align | decoders | `BitReader` |
| AMF0 | `utils/amf/amf0.go`, `amftools.go` | reader position | write and read values | both RTMP handlers | `Amf0` |

What is hard here: goroutines of different connections meet in pairPad and in
the workers through bounded channels, some sends blocking and some not; keys and
roles of a handler are read by other goroutines after the handler moved on; a
packer is shared without a lock; both ends of a connection change the chunk size
in mid-stream; connections end at any moment, and the teardown of one triggers
that of others; sizes and offsets are summed by hand in one place and written in
another. `PROJECT.json` lists the hazards, each at its line.

## 2. Plan, and what is left

Everything the first plan named has been modelled, and the invariants of `Exchange`,
`GopBlock`, `RtmpAnyClient`, `RtmpSession`, `ConnDeadline` and `BitReader` are theorems, and
so are those of `ChunkStream` for the repository's own packer. Worth proving next: the same
four for another implementation that interleaves the chunks of several message streams, for
which a view (section 5) has to hold a partial message per message stream.

## 3. The modules

### Exchanger

**`Exchange`** has four kinds of actor.

| Actor | Variables | Actions |
|---|---|---|
| handler of connection `c` (one goroutine) | `key` `role` `putMsg` `pc` `cmds` `kind` `cancelled` | `StreamCommand`, `CommandFails`, `Register`, `Put`, `PutRefused`, `PutWithoutSource`, `Disconnect`, `Unregister`, `CancelSelf` |
| pairPad | `pipe` `receivers` `waiting` `pair` | `HandleRegisterSource`, `HandleUnregisterSource`, `HandleRegisterSinkWait`, `HandleRegisterSink`, `HandleUnregisterSink`, `NotifyWaitSenders`, `NotifyOne`, `Forward` |
| worker of source `r` | `srcChan` `sinks` `work` `srcErr` `log` `done` `vcfg` `acfg` | `ConnectSink`, `HandleRtmpMessage`, `WriteData`, `Evict`, `DeleteSink`, `SourceDone`, `CancelSink` |
| worker of sink `s` | `keyInSrc` `msgChan` `delivered` `sinkWork` | `SinkDeliver`, `SinkDone` |

A `Source` or `Sink` object is named by the registration that made it, `<<c, n>>`
for the `n`-th stream command of connection `c`. `log` and `delivered` are history:
what a source's `srcChan` accepted and what a sink's connection was given. A
message is a position in its source's log, so the properties can say "the next
one". The handlers of pairPad and of the workers are cut exactly where another
goroutine can get in between: at a send that may block, after the result that
releases the handler, and at each turn of the loops over sinks. `panicked` records
a Go panic, which ends the process. An unsynchronised read (`src.err`) may return
the old value: `Put` does not test `srcErr`. Payloads are the four kinds the
exchanger tells apart; the answer to a command is written or fails; `gopCache` is
filled and never read and left out; a read that fails for any reason is
`Disconnect`.

**`Broadcast`** says what the exchanger is for, with no channels, maps or workers: a
sink joins a stream and is sent the newest configurations, is then served every
message in order, and leaves. `Exchange!ImplementsBroadcast` instantiates it with
`feed`, `pos` and `got` computed from the maps and channels. **`MCExchange`** adds
symmetry and the terminated states in which nothing remains to be done.

**`GopBlock`**: every load, store and compare-and-swap of an item's flag is a step of
one of several goroutines, and so is every item `usedCount` looks at. `leaked` are
the items that `Write` allocated and linked nowhere.

### One RTMP connection

**`ChunkStream`** is one direction of a connection. `BeginMessage` and `SerializerChunk`
are a goroutine in `SerializerChunk`, one chunk at a time into a buffer of its own;
`Write` is its one write of that buffer; `ForeignWrite` is another implementation that
interleaves the chunks of several messages; `Receive` is `ReadChunk` with the
collector. A chunk on the wire has the header fields that are really written, so a
field that the sender omits has to come from what the receiver remembers.

**`RtmpWire`**, **`RtmpServer`**, **`RtmpClient`** are the two ends above chunks: `srv` and
`cli` are the fields of the two handlers, `toServer` and `toClient` the messages in
flight, each with the chunk size it was cut with. A handler's action handles one
message whole, its answers and its early returns included; a Write may fail at any
of them. The registration with the exchanger is a step of its own (`srv.phase` is
"publish" or "play" between the answer and the registration) and answers either way.
On the client side the application is part of the model: rtmppublish with its two
sender goroutines, rtmplay, which never reads `ConnectResult`, and a player that does.
**`RtmpAnyClient`** drives the server by a client that sends well-formed messages in any
order; **`RtmpAnyServer`** is the environment of the client, a server that answers each command in the
ways the client's comments know of or refuses it (play by another status or by an
`_error`), leaves StreamIsRecorded, StreamBegin or the reset out, or closes; `verdict`
remembers what it made of the client. It never leaves connect, createStream, publish or
play without any answer. **`RtmpSession`** puts the client against the repository's server
and against that one.

**`Handshake`** counts bytes, as every read is an `io.ReadFull`, and keeps of their
contents what decides the negotiation: versions, where the digest lies, what it
covers; a digest cut out beyond the end of C1 panics (`Fits`). HMAC is symbolic.
**`AcceptLoop`** has the two listeners of main, the back-off and the first byte that is read
on the accepting goroutine, at the rtmps listener behind a TLS handshake that a peer may
fail (`SendGarbage`). **`ConnDeadline`** has the
deadline that Read and Write share, in ticks. **`MCConnection`** checks the three in one
run: `part` says which of them moves, the others rest.

### MP4

**`Mp4Box`** gives every box type as what its `Serialize` writes and what its `Parse`
returns, in bytes; a tree is the sequence of its boxes in file order. **`Mp4Parse`** is
the parser as a stack of `Parse` calls over a stream; a decoder configuration record with
a version, reserved bits or bit depths that its `Parse` does not take ends them all
(`RefuseRecord`). **`Fmp4Boxes`** are the builders of
fmp4.go with the sums they do by hand; **`Fmp4`** the muxer: tracks, caches per track,
fragments, `mdatBuf` with the memory behind it (`arrays`), because the mdat of a
fragment shares that memory. `bytes.Buffer` is external and grows as it does in the
Go releases the repository was written for. **`Mp4Files`** has the files that are parsed.

### Codecs

**`BitReader`**: a bit is its number in the stream and a place of the buffer is the set of
the bits or-ed into it, so that a bit in the wrong place or two in one place show.
One step is one iteration of the loops of `peek` and `skip`. **`WireNumbers`**: chunk
stream ids and descriptor lengths, byte for byte. **`Amf0`**: values written one behind
the other by the two functions of amftools.go, or by a peer, and read one by one from
a payload that may be cut anywhere. **`MCFormats`** checks these three
and the two of MP4 in one run: `part` says which of them moves, the others rest.

## 4. Runs

| Run | Instance | Shows |
|---|---|---|
| `delivery` | one rtmp and one flv connection, each publisher or player, 3 messages, channels of 2 | `TypeOK`, `KeyIsolation`, `PlayableStream` (unbroken, nothing twice, decodable), `KeepsUpOrCancelled`, and that the exchanger `ImplementsBroadcast` |
| `pairing` | 3 rtmp connections, each publisher or player, one command each | `WaitersHaveNoSource`, `DeadSourceLeaves`, no deadlock |
| `misuse` | rtmp and flv connection, 2 commands each, both roles | `OnePlace` although keys and roles change; `PanicHasACause`, each of the three causes occurring |
| `live` | 2 rtmp connections, `srcChan` never full | `RegisterAnswered`, `TeardownReachesSinks`, `WaiterConnected` |
| `blocked` | 1 publisher, 2 players, `srcChan` of 1 | `RegisterAnswered` violated: pairPad waits for ever on the channel of a worker that quit |
| `chunks` | one goroutine with answers and media; a handler announcing a chunk size beside Sink.work; another implementation interleaving two message streams; 4 messages of one or two chunks | `Framing`, `MessagesIntact`, `NothingLost`, `EndsAgree` |
| `gop` | 3 goroutines, 3 items, 2 writes, a concurrent count | `OneHolder`, `QuotaServed`, `CountBounded` |
| `server` | 4 messages out of 16 kinds in any order, every Write may fail | `OrderlyNeverPanics`, `TeardownComplete` |
| `rtmp` | the client in both roles against this server and another one, 5 media messages, every Write may fail | `ChunkSizesAgree`, `MediaAfterStart`, `SuccessIsReal`, `SessionNeverPanics`, `SessionSettles`, `OutcomeReported`, `SenderServed` |
| `connections` | 3 peers at 2 listeners, silent, leaving or not speaking TLS, with up to 3 failures of Accept in a row; six kinds of client in the handshake; reader and writer under a deadline of 4 ticks | `TalkerServed`, `HonestGetThrough`, `OnlyTheQuietEnd`, `DeadConnectionEnds` |
| `formats` | every width from every position of a stream of 10 bytes with a buffer of 8; ids 2..63 in every format, lengths 0..16383; messages of 2 values, cut anywhere; 6 frames of two lengths, video and audio in any interleaving; 84 files in both versions with tables of 0 to 2 entries and decoder records that are taken or refused | `BufferIsTheStream`, `CallsAsPromised`, `EveryCallReturns`, `ReadBack`, `FragmentsComplete`, `DataFound`, `SizesAreTrue`, `FileReadBack` |
| `offsets` | the muxer of `formats`, 5 frames | `OffsetsLeadToData` violated: after a fragment of one video frame the next one's `data_offset` leads past its data |

The two violation runs, `blocked` and `offsets`, state what a comment of the code says and show
what the code does instead. The passing runs name their exceptions: `DataFound` asks for
the first track's offset in the first fragment of a segment, for the places of samples in
the video track, and for the data of every fragment that the next one did not fit over.
`SizesAreTrue` has two halves. Of the muxer it says that every box states the size it
writes; of the parser (`WrittenAsRead`) that what was read, with the boxes the parser made
its children, is written again in the size it was read with, but for a sample entry that
lost a box to stsd (section 6). `SessionSettles` excepts a play whose answer the client has
no case for, and `TalkerServed` a listener that one silent peer holds up for ever and a
process that ended for one of three named reasons; a peer that is only slow is no excuse.
`HonestGetThrough` has digests at both ends of their range.

The comment at `expair.go:203-206` asks whether a sink can be sent a configuration
twice: `NothingTwice`, a part of `PlayableStream`, says no, because a source's worker
connects sinks and handles messages one after the other.

### Bounds

* Exchanger. `MaxCmds` and `MaxPuts` cap what a peer sends; the capacities 100, 100 and 50
  become 1 to 4. Three messages and a `msgChan` of two are enough for both
  configurations, a full channel, an eviction and messages after it; two publishers
  and a player are enough for every order of registrations on one key. `MaxCmds = 1`
  is the well-behaved client; properties that are only meant for it say so. In `live`
  `SrcCap = 3` exceeds all a source can be sent there; `blocked` asks the same where the
  channel can fill. `delivery` is about one stream: its constraint leaves out a second
  publisher, which `pairing` has.
* Chunks. The default chunk size and an announced one are 2 and 3, so that a message has
  one or two chunks and the last one is full or not; the 24-bit limit is 7 and the 32-bit
  wrap 32, which keeps the relation of the two.
* Allocator. Three goroutines with quotas that add up to the number of items: one scans
  while another releases behind it and a third takes what was released.
* Sessions. Four messages are a complete orderly session (connect, createStream, publish
  or play, media) and every shorter one with messages out of place; five media messages
  let both senders of a publisher block twice. `MaxQueued = 8` leaves room for media
  behind the answers to play.
* Connections. Three failures double the delay twice and go back to none at the next
  connection; its limit of a second is out of the run's reach, and no property depends on
  it. Two listeners and three peers let one listener be held up while another peer waits
  behind it.
* MP4. Six frames make up to five fragments, all but the first of which follow another,
  with or without the segment having ended (`SegDuration = 0` ends it at every fragment of
  two video frames or more; the test has 1000); the frame lengths 1 and 70 make the buffer
  start small, grow and be reused.
* Codecs. A byte has 3 bits, so that the buffer has 24, and a stream of 10 bytes is
  longer than the buffer; every remainder of a byte occurs. A string of the short AMF0
  form has at most 2 characters, and strings go to 3.

`CHECK_DEADLOCK FALSE` stands where the system may really stop: a peer sends nothing
more, a worker that quit leaves a full channel, a session has ended.

### Fairness

* `live`, `blocked`: weak fairness for pairPad, each handler's own steps and each worker;
  the Go scheduler runs every goroutine that can go on. A peer is under no fairness.
  Choice between the ready cases of a `select` is not assumed fair, so `SourceWork` and
  `SinkRun` are fair as a whole and not per case.
* `rtmp`: weak fairness of the server process and of the client's goroutines; the other
  server answers what it reads, but which answer, and whether it closes, is open. Strong
  fairness of `Transmit` per sender: goroutines blocked on a Go channel are served in
  the order they came, so the loop of Start, which always returns to its `select`,
  reaches each.
* `connections`: each Serve keeps running, peers need not say anything; both sides of the
  handshake run; time passes and a goroutine whose Read or Write can return does return.
  Strong fairness of `ReadTimesOut`: the goroutine that the deadline woke does not lose
  every race against the writer that moves the deadline again.
* `formats`: a call of the bit reader runs to its end.

## 5. Proofs

Every theorem holds for all values of the constants that satisfy the assumptions named
in the modules. They are proved step by step: an inductive invariant, one lemma for each
action (or each actor), one step for each conjunct the action can disturb.

### The exchanger

`ExchangeProofs`. `TypeCorrect`: `Spec => []TypeOK`. The types are not inductive: that
`Register` names an existing registration needs that a handler in `register` or `await`
has had a command; that `WriteData` sends a message that exists needs that a worker in
`write`, or in `evict` with sinks left, holds one; that `Evict` cancels somebody needs its
victim. `TypeInv` adds these as `Shape`. `WaitersServed`: if `MaxCmds = 1` then
`Spec => []WaitersHaveNoSource`. While pairPad notifies, waiting sinks and a source
coexist; `WaitInv` says that then pairPad is busy with just that key (`WaitingApart`), and
that the handler whose key `notifyWaitSenders` reads again has no command left with which
to change it (`NotifyKeyFixed`). The assumption is needed: with two commands that second
read can return another key, and TLC finds a stranded player.

`SinksInOnePlace`: `Spec => []OnePlace`, for any number of commands.
The places are named (pipe, hands of pairPad, waiting list of a key, `srcChan` or `sinks`
of a source). `PlaceInv` says of every sink that it holds at most one of them (`Apart`),
that no channel has its registration twice (`SentOnce`), and that one not registered yet
(`Fresh`) has none; every action moves a registration from one place to the next.
`OneEntry` (one entry per handler and key in the maps), `WorkInv` (what a worker holds in
hand is in its map) and `StartOnce` (a source's worker starts once) complete `BaseInv`, on
which the next module builds.

`ExchangeStreamProofs`. `ExchangeImplementsBroadcast`: the refinement, safety part. Each
action is mapped to one of Broadcast's steps (`ConnectSink` to join, a `WriteData` to serve,
`Evict` and `DeleteSink` to leave, a message put to accept and one handled to advance, the
rest to a stutter: also the end of a source, whose `CancelSink` ends connections but takes
no sink out of its map). It needs that the `srcChan` of a source is the tail of its log in order
(`InOrder`), that `vcfg` and `acfg` are the newest configurations handled (`IsNewest`, both
in `SourceInv`), and that a sink no source has had yet was sent nothing (`UnsentInv`).
`PlayersCanPlay`: `Spec => []PlayableStream`, by `StreamInv`: what a fed sink was sent is all
of its source up to its position (`UpTo`), and what any sink was sent can be played.
`PlayersKeepUp`: `Spec => []KeepsUpOrCancelled`, by `HeldInv`: a sink stays with the source
that served it until that source cancels its connection.

Its second half is about keys. `KeysAreIsolated` and `DeadSourcesLeave` hold while no connection gives a
second command (`SecondCommand`), because a second command changes the key and the role
that pairPad and the teardown read later; TLC finds counterexamples without the
hypothesis. `KindInv`: a registration on its way is the one its command asked for.
`SingleInv`: without a second command the fields of a handler say what it registered, so
that its teardown undoes just that. `KeyInv`: wherever a sink waits or is fed, it is with
its own key. `PanicsHaveACause`: the panics "has waited" and "repeater register" come only
after a second command, "source not registerd" only after a second command, a second
publisher of a key, or an flv end without a source; by `CalmInv`: as long as none of these has happened an answered publisher that has
not ended is the source of its key, and ends once. It assumes `MaxCmds >= 1`, without
which nothing is ever registered and the causes cannot be told apart.

### The block allocator

`GopBlockProofs`. `AllocatorTypeCorrect`, and `ItemsHaveOneHolder`: `Spec => []OneHolder` for any
number of goroutines and items and any quotas. The inductive part is that a goroutine
in "release" still holds the item whose flag it is about to clear, and only that one:
release is a plain load and store, so it is safe only because nobody else can have
taken the item in between. `CountIsFramed`: `Spec => []CountBounded`; a count under way is
framed by the items used all the time it ran and those used at some time of it, below
the place it has come to. `QuotasAreServed`: `Spec => []QuotaServed` when the
goroutines have disjoint slots of the block, as many as each one's quota (`SetAside`): a scan cannot reach
the end in vain, because the items held or about to be reached from position `k` on map
one-to-one into the items behind `k` (`Tokens`, `Fits`).

### One RTMP connection

`RtmpAnyClientProofs`. `OrderlyClientsAreSafe`: `Spec => []OrderlyNeverPanics`, and
`OrderlyTeardown`: `Spec => []TeardownComplete`, for any set of well-formed messages in any
number. `stage` is about what the client has sent, and the handler is only as far as it
has read; the invariant names a stage for every message in flight (`Trail`), from the one
the handler has come to, which agrees with its fields (`Agrees`), to the client's.
Sending prolongs the trail at one end and `ServerReceive` shortens it at the other.

`RtmpSessionProofs`. `SessionChunkSizesAgree`, `SessionMediaAfterStart`,
`SessionSuccessIsReal` and `SessionPanicsNever`: the four invariants of the run `rtmp`, for
any number of media messages, any length of the queues and with or without failing Writes.
None of them is inductive: each is about the messages in flight, and what may be in flight
depends on how far both ends are. The repository's two ends write two fixed conversations,
whatever fails: `FromClient` and `FromServer` say what the k-th message of each is.
`SessionInStep` shows that there always are numbers `p` and `q` of messages the server and
the client have read such that both queues are what follows in the conversations (`InStep`).
The client's fields are then a matter of `q` and of what it has sent (`ClientAt`), the
server's of `p` and of what it has sent (`ServerAt`), and what an end has sent is what the
other has read and the queue between them. A read moves `p` or `q` on by one; a Write
prolongs a queue by the next messages of the conversation, a Write that fails by the first
few of them or by none. Media after the registration is the unbounded end of both
conversations. The chunk sizes agree because each conversation has its SetChunkSize in one
place; no panic is reached because the client's createStream, publish or media can only be
read in a place in which the server's fields are those it needs. Another server has no
script: the invariant there (`Answered`) says which answers can be on their way after what
it has granted or rejected (`Possible`), and which stream id the client can have read.

`ConnectionProofs`. `OnlySilenceEnds`: for every timeout and every size of the kernel's
buffer, a Read gives up only after a timeout without a byte from the peer or a Write to it.
While a Read waits, the ticks left and the ticks of silence are together a timeout at least
(`DeadlineCoversSilence`). `OnlySilenceEndsAnyPart` says the same of the specification that
the run `connections` checks.

### Chunks

`ChunkStreamProofs`. `OwnFraming`, `OwnMessagesIntact`, `OwnNothingLost` and `OwnEndsAgree`: the
four invariants of the run `chunks` for the repository's own packer (`OwnSide`), for any
goroutines on it, any messages in any number, any batches and any chunk sizes. None of the
four is inductive: a compressed header is right or wrong only in the state the receiver will
be in when it comes to it. The invariant follows the receiver into the future. A view is
what the receiver depends on: the chunk size, the message it is in the middle of, the last
header and the clock of every chunk stream. `CanRead` says in which views a chunk is read as
what it is, `AfterRead` what view it leads to, and `Chain` that chunks can be read one after
the other from a view to another. `OwnInv` says that the wire is a chain from the receiver's
own view to one between two messages (`Follows`), that from there the buffer of every
goroutine is a chain to a view in which its next chunk is right (`Ready`), and that this view
agrees with what the packer remembers of the goroutine's chunk streams (`Agrees`). Receive
takes the first link off; SerializerChunk adds one at the end of a buffer, whichever of the
four headers it chose; a Write puts a buffer behind the wire, and the chains of the other
goroutines hold from the new end on because they depend on other chunk streams only
(`Mix`). `OnePlace` says of every message begun that its last chunk is still to be made, in one
buffer, on the wire, or delivered, and just once.

The hypothesis `Tame` states when the code is right: timestamps stay below the 24-bit limit,
an announcement of a chunk size fits one chunk, and goroutines of one packer write on chunk
streams of their own. Without the first or the last the properties are false of the code
(`chunk.go:297` and `serverHandler.go:833` in section 6); the second is true of every
announcement of the code (4 bytes in chunks of at least 128). `TameInstance` has TLC check
that the instance of the run satisfies it, and `ChunkInv` was checked on that instance
before it was proved. The model's own guards apply too: a chunk size is announced while no
other goroutine is writing (`Settled`), and the timestamps of a chunk stream do not
decrease (`InOrder`).

### The bit reader

`BitReaderProofs`. `BufferTheorem`: for every length of a byte, of the stream and of the
calls, the buffer is the part of the stream behind the caller's position, bit by bit,
with zeros after it; `FillKeeps` and `DropKeeps` show what a fill and a shift do to every
place of the buffer. `PromisesTheorem`: `Spec => []CallsAsPromised`, which follows from it
once the invariant knows of the call under way (`UnderWay`: where it started, how much of
a skip is left) and that the io.Reader has given whole bytes (`WholeBytes`, without which
Align would not reach a byte of the stream and an end would not be one).

### Assumptions, and what is only model-checked

The assumptions on the constants are named in the modules that declare them: rtmp and flv
connections are disjoint, `NoKey` and `NoReg` are not a key or a registration, bounds are
naturals, capacities positive and `SinkCap >= 2` (50 in the code; connectSink sends up to
two configurations); an allocator has items; a byte has bits; a timeout
and a kernel buffer are positive; a stream id that a server assigns is positive; the messages offered are of
the types the handler tells apart.

Only model-checked: liveness and the fairness it needs, which the prover does not handle;
what the recursive operators of `Amf0` compute, and the byte counts of `WireNumbers`,
`Mp4Box`, `Mp4Parse` and `Fmp4`, which are inductions over data; `Handshake` and
`AcceptLoop`, whose properties are liveness; `ChunkStream` when the sender is another
implementation, which may interleave messages and use the extended timestamp.

## 6. Departures seen while modelling

`blocked` and `offsets` are the disagreements with a stated promise that have a run. The models
reproduce the following too; where a property would fail for one of them it says so,
or its run leaves the input out.

Exchanger and sessions
* `expair.go:280`: a publisher refused as a duplicate unregisters the key of the first,
  whose own unregistration panics; `flvlive.go:135`: a flv connection that is no publisher
  unregisters a source when it ends, and pairPad panics; `expair.go:341`: a second play of
  one connection panics. `PanicHasACause` says that nothing else makes pairPad panic.
* `datacache.go:121`: Write links an item it allocated only when the allocation failed,
  so the item is lost (`leaked`); `QuotaServed` is about runs that lost none.
* `serverHandler.go:190`: the error of the connect command is dropped, and createStream
  then panics. `OrderlyNeverPanics` names this case; the repository's own client waits for
  the answer and never reaches it (`SessionPanicsNever`).
* `serverHandler.go:285`: codec 0x1c is compared with four bits, so HEVC video is refused.
* `clientHandler.go:73`: a player that does not read `ConnectResult` (rtmplay) blocks the
  deferred function and is never told; `OutcomeReported` is about applications that read it.
* `clientHandler.go:515`: a sender between its check and its send can miss the failure and
  block for ever; `SenderServed` excepts the failed connection.
* `clientHandler.go:224-353`, `461`: the client looks at no command before StreamBegin when it
  plays, and then at no code but `NetStream.Play.Start`: a server that leaves StreamBegin out
  or refuses play by a status keeps it waiting until that server closes (`SessionSettles`
  names both).
* `expair.go:178`: a register_sink left in `srcChan` when the worker quits is never handled;
  that player stays until its own connection ends.
* `response.go:81`: a connect rejected in a `_result` panics instead of returning the error.
* `clientHandler.go:286`, `292`: play carries the running transaction id where the comment
  says 0, and SetBufferLength carries it where the stream id belongs.

Chunks and handshake
* `chunk.go:282`: a type 0 header carries delta 0 instead of the timestamp, so the receiver's
  clock is behind by the first timestamp (`base` in `EndsAgree`).
* `chunk.go:297`, `282`: a timestamp past 0xffffff gets an extended field the 24-bit field
  does not announce, and a negative delta announces one that is not there; the reader
  loses the chunk boundaries. Timestamps of the run stay below and do not go back.
* `pack.go:75`: a chunk in the middle of a message has only its stream id filled in.
* `serverHandler.go:833`: handler and Sink.work may serialise in one order and write in the
  other, so that a format 3 chunk follows a header that is not the previous one.
  Metadata goes out as a command on chunk stream 3 like the answers (`serverHandler.go:827`),
  so the two share a header as well; goroutines of the run have chunk streams of their own.
* `message.go:71`: two messages of one message stream interleaved on two chunk streams mix.
* `chunk.go:258`, `260`: ids from 64 on are written off by one and read otherwise.
* `handshake.go:131`: the two schemas are swapped against the comment; both are tried.
  `handshake.go:120`: the client's own digest does not verify; servers fall back.
* `server.go:103`: a connection that sends no byte and leaves makes Serve call Close on nil;
  the process ends. At the rtmps listener bytes that are no TLS handshake do the same
  (`conn.go:83`). `EndsForAReason` names both.

MP4 and codecs
* `moovBox.go:1379`: UrlBox.Parse forgets four bytes when flags are 0, which is what the
  muxer writes; the files of the run have flags 1. `moovBox.go:1642`: boxes behind the
  configuration record are taken for sample entries (excepted in `NestedAsWritten`).
  `moovBox.go:1272`: urn is written without version and flags. `mfraBox.go:112`: the entry
  length counts one field twice and another never. `decoderConfig.go:200`: picture sets are
  written in a loop over the sequence sets.
* `moovBox.go:1605-1642`: an avc1 or hev1 that was read with a box behind its configuration
  record keeps its Size and writes less, by that box (excepted in `WrittenAsRead`).
  `decoderConfig.go:330`, `337`: the reserved bits of the bit depths are looked for in the low
  bits, so that a record of level 100 with the usual depth of 8 (0xF8) is refused, against
  the layout in the comment at lines 110-113 (excepted in `ReadsTheFile`).
  `decoderConfig.go:314`: the extension is there at four levels; the comment at line 105
  says profiles.
* `fmp4.go:726`: offsets of a segment's later fragments count the earlier ones' data
  (`offsets`). `fmp4.go:810`: an audio sample's size leaves out its length field, so that
  adding up sizes does not lead to the next one (`VideoLocated` is about video).
  `fmp4.go:669`: an mdat that waits shares the memory of the next one
  and is written over if that fits (excepted in `DataKept`). `fmp4.go:582`: a frame before the first key frame is
  taken, and the next key frame panics. `fmp4.go:656`: without audio no traf is written.
  `fmp4.go:605`: a track added late has base 0 (the run adds both tracks first).
* `bitreader.go:193`: Read1 at the end answers false and no error. `bitreader.go:270`: bytes
  that the io.Reader returns together with an error are dropped; the reader of the model
  returns one or the other.
* `tag.go:484`: descriptor lengths from 16384 on are read wrong.
* `amf0.go:309`: Undefined is written as an empty object. `amf0.go:365`: a string cut off by
  the end of the payload is filled up with zeros and no error is returned.
  `amf0.go:435`: a map with an empty key is written and cannot be read.

## 7. Not modelled

* The branch of the client's Start for a cancelled context: no application cancels it
  while Start runs. AMF values of a wrong type in commands. `parseHandshakeKey`, which
  nothing calls. URL parsing and name resolution.
* flv: the decoding of tags is abstracted to the kinds of message it yields; the tag
  parser and the parser tool read one tag and keep nothing.
* MP4: files that end early or whose counts and sizes disagree; field values other than those
  for which an AVC record is refused, the 64-bit Size of mdat, QoS, IPMP and Extension descriptors, a stsd
  with count 0, the parsing of sequence parameter sets, `SetMajorBrand` / `SetMinorBrand`.
* AMF3, which only a marker of a peer leads to; struct tags and the typed readers of AMF0,
  which the program does not call. `byteio`: one number per function.
* The bytes behind an item of the block allocator: each item's buffer reaches to the end
  of the block (`datacache.go:60`), but nothing reads an item yet.
* Logging, pprof, command lines. The packages `circularVarQueue` and `av` that the code
  refers to are not in the repository.
