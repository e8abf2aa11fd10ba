-------------------------- MODULE ConnectionProofs --------------------------
(***************************************************************************)
(* A connection's Read gives up only after a whole timeout of silence, for *)
(* every timeout and every size of the kernel's buffer: of NetConnWrapper  *)
(* by itself, and of a connection in all the parts of its life.            *)
(***************************************************************************)
EXTENDS MCConnection, TLAPS

Bounds ==
    /\ left \in Nat /\ quiet \in Nat
    /\ reader \in {"idle", "blocked", "ended"} /\ inbox \in BOOLEAN

\* While a Read waits with nothing to read, the ticks that remain and the
\* ticks of silence make up a timeout at least: the deadline was moved when
\* the silence began, or later.  Between two Reads this fails, for a byte
\* ends the silence and moves nothing.
DeadlineCoversSilence ==
    /\ Bounds
    /\ reader = "blocked" /\ ~inbox => left + quiet >= Timeout
    /\ OnlyTheQuietEnd

\* A connection begins with its deadline a whole timeout away.
LEMMA SilenceInit ==
    ASSUME Deadline!Init
    PROVE DeadlineCoversSilence
BY DeadlineAssumption
   DEF Deadline!Init, DeadlineCoversSilence, Bounds, OnlyTheQuietEnd,
       Deadline!OnlyTheQuietEnd

\* Every step, of the reader, of the writer, of the peer and of the clock,
\* keeps the deadline ahead of the silence.
LEMMA SilenceNext ==
    ASSUME DeadlineCoversSilence, Deadline!Next \/ UNCHANGED deadlineVars
    PROVE DeadlineCoversSilence'
<1> USE DeadlineAssumption
      DEF DeadlineCoversSilence, Bounds, OnlyTheQuietEnd, Deadline!OnlyTheQuietEnd
<1>1. CASE Deadline!StartRead BY <1>1 DEF Deadline!StartRead
<1>2. CASE Deadline!FinishRead BY <1>2 DEF Deadline!FinishRead
<1>3. CASE Deadline!ReadTimesOut
  BY <1>3 DEF Deadline!ReadTimesOut, Deadline!ReadFailed
<1>4. CASE Deadline!StartWrite
  BY <1>4 DEF Deadline!StartWrite, Deadline!WriteDeadline
<1>5. CASE Deadline!FinishWrite \/ Deadline!WriteTimesOut
  BY <1>5 DEF Deadline!FinishWrite, Deadline!WriteTimesOut
<1>6. CASE Deadline!PeerSends BY <1>6 DEF Deadline!PeerSends
<1>7. CASE Deadline!PeerReads \/ Deadline!PeerVanishes \/ Deadline!FeedEnds
  BY <1>7 DEF Deadline!PeerReads, Deadline!PeerVanishes, Deadline!FeedEnds
<1>8. CASE Deadline!Tick BY <1>8 DEF Deadline!Tick
<1>9. CASE Deadline!Closed BY <1>9 DEF Deadline!Closed, Deadline!vars
<1>10. CASE UNCHANGED deadlineVars BY <1>10 DEF deadlineVars
<1> QED BY <1>1, <1>2, <1>3, <1>4, <1>5, <1>6, <1>7, <1>8, <1>9, <1>10
        DEF Deadline!Next

\* A Read of NetConnWrapper fails by its deadline only when, for the whole
\* timeout, nothing came from the peer and no Write to it began.
THEOREM OnlySilenceEnds == Deadline!Spec => []OnlyTheQuietEnd
<1>1. Deadline!Init => DeadlineCoversSilence BY SilenceInit
<1>2. DeadlineCoversSilence /\ [Deadline!Next]_(Deadline!vars) => DeadlineCoversSilence'
  BY SilenceNext DEF Deadline!vars, deadlineVars
<1>3. DeadlineCoversSilence => OnlyTheQuietEnd BY DEF DeadlineCoversSilence
<1> QED BY <1>1, <1>2, <1>3, PTL DEF Deadline!Spec

\* The same of a connection that is accepted, shakes hands or is under its
\* deadline: nothing that the server does for it elsewhere ends its Read.
THEOREM OnlySilenceEndsAnyPart == PartSpec => []OnlyTheQuietEnd
<1>1. PartInit => DeadlineCoversSilence BY SilenceInit DEF PartInit
<1>2. DeadlineCoversSilence /\ [PartNext]_all => DeadlineCoversSilence'
  <2> SUFFICES ASSUME DeadlineCoversSilence, [PartNext]_all
               PROVE  DeadlineCoversSilence'
    OBVIOUS
  <2>1. Deadline!Next \/ UNCHANGED deadlineVars
    BY DEF PartNext, Accepting, Shaking, Timing, NoPeers, all
  <2> QED BY <2>1, SilenceNext
<1>3. DeadlineCoversSilence => OnlyTheQuietEnd BY DEF DeadlineCoversSilence
<1> QED BY <1>1, <1>2, <1>3, PTL DEF PartSpec
=============================================================================
