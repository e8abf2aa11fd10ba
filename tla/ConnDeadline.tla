---------------------------- MODULE ConnDeadline ----------------------------
(***************************************************************************)
(* NetConnWrapper: every Read and every Write first moves the one deadline *)
(* of the connection, which holds for both directions.  The handler's      *)
(* goroutine reads; Sink.work writes, and goes on after a Write that       *)
(* failed.  Time passes in ticks, `left' of which remain to the deadline.  *)
(***************************************************************************)
EXTENDS Integers

CONSTANTS
    Timeout,     \* ticks, at least 1: readTimeout and writeTimeout have one default
    SockBuffer   \* writes, at least 1, the kernel takes before the peer has read any

VARIABLES
    left,      \* ticks to the deadline, 0 once it has passed
    reader,    \* "idle", "blocked" in Read, "ended" by a failed Read
    writer,    \* "idle" or "blocked" in Write
    inbox,     \* has the peer sent something that was not read
    sock,      \* writes in the kernel's buffer
    peer,      \* "alive" or "vanished"
    quiet,     \* ticks since the last byte came or a Write began
    feed       \* does the source still produce data

vars == <<left, reader, writer, inbox, sock, peer, quiet, feed>>

Init ==
    /\ left = Timeout /\ reader = "idle" /\ writer = "idle"
    /\ inbox = FALSE /\ sock = 0 /\ peer = "alive" /\ quiet = 0
    /\ feed \in BOOLEAN

\* Mutant: a Write moves the deadline only if there is none yet.
MutWriteDeadline == left

WriteDeadline == Timeout

StartRead ==
    /\ reader = "idle"
    /\ reader' = "blocked" /\ left' = Timeout
    /\ UNCHANGED <<writer, inbox, sock, peer, quiet, feed>>

FinishRead ==
    /\ reader = "blocked" /\ inbox
    /\ reader' = "idle" /\ inbox' = FALSE
    /\ UNCHANGED <<left, writer, sock, peer, quiet, feed>>

\* Mutant: a Read that timed out is tried again.
MutReadFailed == "idle"

\* The error makes Start return, and serve closes the connection.
ReadFailed == "ended"

ReadTimesOut ==
    /\ reader = "blocked" /\ ~inbox /\ left = 0
    /\ reader' = ReadFailed
    /\ UNCHANGED <<left, writer, inbox, sock, peer, quiet, feed>>

StartWrite ==
    /\ reader # "ended" /\ writer = "idle" /\ feed
    /\ writer' = "blocked" /\ left' = WriteDeadline
    /\ quiet' = 0
    /\ UNCHANGED <<reader, inbox, sock, peer, feed>>

FinishWrite ==
    /\ writer = "blocked" /\ sock < SockBuffer
    /\ writer' = "idle" /\ sock' = sock + 1
    /\ UNCHANGED <<left, reader, inbox, peer, quiet, feed>>

\* Sink.work drops the error and waits for the next message.
WriteTimesOut ==
    /\ writer = "blocked" /\ sock = SockBuffer /\ left = 0
    /\ writer' = "idle"
    /\ UNCHANGED <<left, reader, inbox, sock, peer, quiet, feed>>

PeerSends ==
    /\ peer = "alive" /\ ~inbox /\ reader # "ended"
    /\ inbox' = TRUE /\ quiet' = 0
    /\ UNCHANGED <<left, reader, writer, sock, peer, feed>>

PeerReads ==
    /\ peer = "alive" /\ sock > 0
    /\ sock' = sock - 1
    /\ UNCHANGED <<left, reader, writer, inbox, peer, quiet, feed>>

PeerVanishes ==
    /\ peer = "alive"
    /\ peer' = "vanished"
    /\ UNCHANGED <<left, reader, writer, inbox, sock, quiet, feed>>

FeedEnds ==
    /\ feed /\ feed' = FALSE
    /\ UNCHANGED <<left, reader, writer, inbox, sock, peer, quiet>>

\* What the kernel can complete, it completes before time passes; and the
\* handler comes back to Read before the deadline.
Tick ==
    /\ reader = "blocked" /\ ~inbox /\ left > 0
    /\ ~(writer = "blocked" /\ sock < SockBuffer)
    /\ left' = left - 1
    /\ quiet' = IF quiet < Timeout THEN quiet + 1 ELSE quiet
    /\ UNCHANGED <<reader, writer, inbox, sock, peer, feed>>

\* A connection that was closed does nothing more.
Closed == reader = "ended" /\ UNCHANGED vars

Next ==
    \/ StartRead \/ FinishRead \/ ReadTimesOut
    \/ StartWrite \/ FinishWrite \/ WriteTimesOut
    \/ PeerSends \/ PeerReads \/ PeerVanishes \/ FeedEnds
    \/ Tick \/ Closed

\* Strong fairness of ReadTimesOut: the goroutine that the deadline wakes
\* does not lose every race against the writer that moves the deadline again.
Spec ==
    /\ Init /\ [][Next]_vars
    /\ WF_vars(StartRead) /\ WF_vars(FinishRead) /\ SF_vars(ReadTimesOut)
    /\ WF_vars(FinishWrite) /\ WF_vars(WriteTimesOut) /\ WF_vars(Tick)

(***************************************************************************)
(* Properties.                                                             *)
(***************************************************************************)
\* A Read gives up only when for the whole timeout nothing came from the peer
\* and nothing was written to it: a player that never speaks is kept as long as
\* its stream flows.
OnlyTheQuietEnd == reader = "ended" => quiet >= Timeout

\* A peer that vanished is given up, although every Write moves the deadline
\* that its Read waits for: the kernel's buffer fills, and a Write that blocks
\* moves nothing.
VanishedPeerEnds == peer = "vanished" ~> reader = "ended"

\* A connection on which nothing comes and nothing is written any more ends,
\* the peer being there or not: so does a player whose registration was lost
\* between its exchanger's queues, which nothing will ever be written to.
SilenceEnds == <>[](~inbox /\ ~feed) => <>(reader = "ended")

\* No connection that has died, in either way, is kept.
DeadConnectionEnds == VanishedPeerEnds /\ SilenceEnds
=============================================================================
