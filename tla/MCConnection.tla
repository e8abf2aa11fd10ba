---------------------------- MODULE MCConnection ----------------------------
(***************************************************************************)
(* A connection to the server in the three parts of its life, each looked  *)
(* at by itself: it is accepted (AcceptLoop), shakes hands (Handshake) and *)
(* is then read and written under one deadline (ConnDeadline).  A          *)
(* behaviour is about one part; the state of the others rests.             *)
(***************************************************************************)
EXTENDS AcceptLoop

CONSTANTS Timeout, SockBuffer   \* of ConnDeadline

ASSUME DeadlineAssumption == Timeout \in Nat \ {0} /\ SockBuffer \in Nat \ {0}

VARIABLES
    part,
    kind, sniffed, c0, c1, cpc, spc, c2s, s2c, s2key,
    left, reader, writer, inbox, sock, far, quiet, feed

\* Offsets at the ends of the range and around the modulus 728.
Hand == INSTANCE Handshake WITH
    Offsets <- {0, 1, 727, 728, 759, 1020},
    Kinds <- {"own", "simple", "complex", "wrong", "encrypted", "old"}
Deadline == INSTANCE ConnDeadline WITH peer <- far

handVars == <<kind, sniffed, c0, c1, cpc, spc, c2s, s2c, s2key>>
deadlineVars == <<left, reader, writer, inbox, sock, far, quiet, feed>>
all == <<part, vars, handVars, deadlineVars>>

\* Failures in a row on one listener, with the delay doubled twice, and a single
\* one on the other; how long a delay is decides nothing here.
MCMaxFailures == [l \in Listeners |-> IF l = "rtmp" THEN 3 ELSE 1]

PartInit ==
    /\ part \in {"accept", "hand", "deadline"}
    /\ Init /\ Hand!Init /\ Deadline!Init
    /\ part # "hand" => kind = "simple" /\ ~sniffed
    /\ part # "deadline" => ~feed

Accepting(A) == part = "accept" /\ A /\ UNCHANGED <<part, handVars, deadlineVars>>
Shaking(A) == part = "hand" /\ A /\ UNCHANGED <<part, vars, deadlineVars>>
Timing(A) == part = "deadline" /\ A /\ UNCHANGED <<part, vars, handVars>>

\* A server may wait for peers for ever.
NoPeers == part = "accept" /\ UNCHANGED all

PartNext ==
    Accepting(Next) \/ Shaking(Hand!Next) \/ Timing(Deadline!Next) \/ NoPeers

\* The fairness of the three specifications.
PartSpec ==
    /\ PartInit /\ [][PartNext]_all
    /\ \A l \in Listeners : WF_all(Accepting(ServeStep(l)))
    /\ WF_all(Shaking(Hand!Client)) /\ WF_all(Shaking(Hand!Server))
    /\ WF_all(Timing(Deadline!StartRead)) /\ WF_all(Timing(Deadline!FinishRead))
    /\ SF_all(Timing(Deadline!ReadTimesOut)) /\ WF_all(Timing(Deadline!Tick))
    /\ WF_all(Timing(Deadline!FinishWrite)) /\ WF_all(Timing(Deadline!WriteTimesOut))

(***************************************************************************)
(* The properties of Handshake and ConnDeadline.                           *)
(***************************************************************************)
\* Clients that follow either handshake get through with every byte read, others
\* are refused, and nobody is left waiting.
HonestGetThrough == part = "hand" => Hand!HonestGetThrough

\* A Read gives up only when nothing came and nothing was written for the whole
\* timeout.
OnlyTheQuietEnd == Deadline!OnlyTheQuietEnd

\* A connection whose peer vanished, or on which nothing moves any more, ends.
DeadConnectionEnds == part = "deadline" => Deadline!DeadConnectionEnds

=============================================================================
