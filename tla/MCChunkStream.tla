---------------------------- MODULE MCChunkStream ----------------------------
(***************************************************************************)
(* Instances of ChunkStream for TLC.  Sizes are scaled: a chunk of the     *)
(* default size holds 2 units, one of the announced size 3; the timestamp  *)
(* field holds 0..7 and timestamps wrap at 32.                             *)
(***************************************************************************)
EXTENDS ChunkStream
CONSTANTS answers, handler, sink, camera, mixer

Msg(type, ts, sid, len) == [type |-> type, ts |-> ts, sid |-> sid, len |-> len, size |-> 0]
SetSize(n) == [Msg(1, 0, 0, 1) EXCEPT !.size = n]

\* A publisher: one goroutine writes commands on two message streams and media
\* whose timestamps repeat, advance evenly and jump.  The server's side of a play:
\* the handler announces the chunk size and sends control messages while Sink.work
\* writes media.  Another implementation interleaves the chunks of a control
\* message with those of a media message of another message stream.
MCSides == {{answers}, {handler, sink}, {camera, mixer}}
MCOffers ==
    [w \in Writers |->
       CASE w = answers -> {Msg(20, 0, 1, 3), Msg(20, 0, 0, 3)} \cup {Msg(9, t, 0, 3) : t \in {1, 3, 5}}
                           \cup {Msg(9, 5, 0, 1), SetSize(3)}
         [] w = handler -> {SetSize(3), Msg(4, 0, 0, 2)}
         [] w = sink -> {Msg(9, 2, 0, 3), Msg(9, 4, 0, 3), Msg(9, 4, 0, 1), Msg(8, 2, 0, 1)}
         [] w = camera -> {Msg(9, t, 1, 4) : t \in {0, 7, 9}} \cup {Msg(8, 3, 1, 2)}
         [] w = mixer -> {Msg(5, 0, 0, 3), SetSize(3)}]
MCBatch == [w \in Writers |-> IF w = handler THEN 2 ELSE 1]

\* The sides of this repository are those the theorems about ChunkStream speak of.
ASSUME TameInstance == Tame
=============================================================================
