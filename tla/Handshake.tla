----------------------------- MODULE Handshake -----------------------------
(***************************************************************************)
(* The RTMP handshake: HandshakeClient, or another client, against         *)
(* handshakeServer.  Bytes are counted, since every read is an             *)
(* io.ReadFull; of their contents the model keeps C0, the version in C1,   *)
(* where C1's digest lies, what it was computed over, and which offsets    *)
(* the two blocks of C1 announce.  Digests are symbolic: two are equal     *)
(* when they were made with one key over the same bytes.                   *)
(***************************************************************************)
EXTENDS Integers, FiniteSets

CONSTANTS
    Offsets,   \* sums of four random offset bytes that are looked at, in 0..1020
    Kinds      \* "own", "simple", "complex", "wrong", "encrypted", "old"

VARIABLES
    kind,       \* which client this is
    sniffed,    \* was C0 read before the handshake (NewConn)
    c0, c1,     \* what the client sends
    cpc, spc,   \* where the two sides are
    c2s, s2c,   \* bytes in flight
    s2key       \* the digest that keys S2, or "random"

vars == <<kind, sniffed, c0, c1, cpc, spc, c2s, s2c, s2key>>

Schemas == {0, 1}

\* Where the digest block of a schema starts in C1, and its length.
Base(schema) == IF schema = 0 THEN 8 ELSE 764 + 8

BlockLength == 764

\* Mutant: no room is left for the digest.
MutPosition(offset) == (offset % (BlockLength - 4)) + 4

\* The place of the digest in its block: behind the offset field, with room
\* for its 32 bytes.
Position(offset) == (offset % (BlockLength - 32 - 4)) + 4

(***************************************************************************)
(* C1: the version, the announced offset of each block, the place of the   *)
(* digest, and the bytes the digest covers.                                *)
(***************************************************************************)
C1(version, offsets, at, covers) ==
    [version |-> version, offsets |-> offsets, at |-> at, covers |-> covers]

\* A client of the complex handshake: the digest covers the rest of C1.
ComplexC1 ==
    {C1(1, offsets, Base(s) + Position(offsets[s]), "C1") :
        offsets \in [Schemas -> Offsets], s \in Schemas}

\* makeC1 with schema1.  The digest covers the digest block only, and its
\* random1 starts at the offset bytes, which are thus drawn again after the
\* place of the digest was computed from them.  The version stays zero.
OwnC1 ==
    {C1(0, offsets, Base(1) + Position(drawn), "block") :
        offsets \in [Schemas -> Offsets], drawn \in Offsets}

SimpleC1 == {C1(0, [s \in Schemas |-> 0], 0, "nothing")}

\* A version that asks for the complex handshake, and no digest.
WrongC1 == {[c EXCEPT !.covers = "nothing"] : c \in ComplexC1}

C1Of(k) == CASE k = "own" -> OwnC1
             [] k \in {"simple", "old"} -> SimpleC1
             [] k \in {"complex", "encrypted"} -> ComplexC1
             [] k = "wrong" -> WrongC1

C0Of(k) == CASE k = "encrypted" -> 6 [] k = "old" -> 2 [] OTHER -> 3

Size == 1536

\* The digest is cut out of C1: slicing past its end panics.
Fits(place) == place + 32 <= Size

Init ==
    /\ kind \in Kinds
    /\ sniffed \in BOOLEAN
    /\ c0 = C0Of(kind)
    /\ c1 \in C1Of(kind)
    /\ cpc = "C0C1" /\ spc = "header"
    /\ c2s = 0 /\ s2c = 0
    /\ s2key = "none"

(***************************************************************************)
(* HandshakeClient; every client sends the same numbers of bytes.          *)
(***************************************************************************)
SendC0C1 ==
    /\ cpc = "C0C1"
    /\ IF kind = "own" /\ ~Fits(c1.at)
       THEN cpc' = "panic" /\ UNCHANGED c2s
       ELSE cpc' = "S0S1S2" /\ c2s' = c2s + 1 + Size
    /\ UNCHANGED <<kind, sniffed, c0, c1, spc, s2c, s2key>>

\* A server that gave up has closed the connection.
ReadS0S1S2 ==
    /\ cpc = "S0S1S2"
    /\ \/ /\ s2c >= 1 + 2 * Size
          /\ s2c' = s2c - (1 + 2 * Size)
          /\ cpc' = "C2"
       \/ /\ s2c < 1 + 2 * Size /\ spc \in {"error", "panic"}
          /\ cpc' = "error"
          /\ UNCHANGED s2c
    /\ UNCHANGED <<kind, sniffed, c0, c1, spc, c2s, s2key>>

SendC2 ==
    /\ cpc = "C2" /\ cpc' = "done"
    /\ c2s' = c2s + Size
    /\ UNCHANGED <<kind, sniffed, c0, c1, spc, s2c, s2key>>

(***************************************************************************)
(* handshakeServer.                                                        *)
(***************************************************************************)
\* handshakeServer reads what is missing of C0 and the first eight bytes of C1.
HeaderLeft == IF sniffed THEN 8 ELSE 9

\* NewConn has taken C0 from the connection, if anyone has.
Sniff ==
    /\ sniffed /\ spc = "header" /\ c2s = 1 + Size
    /\ c2s' = c2s - 1
    /\ spc' = "sniffed"
    /\ UNCHANGED <<kind, sniffed, c0, c1, cpc, s2c, s2key>>

ReadHeader ==
    /\ spc = IF sniffed THEN "sniffed" ELSE "header"
    /\ c2s >= HeaderLeft
    /\ c2s' = c2s - HeaderLeft
    /\ spc' = IF c0 # 3 THEN "error"
              ELSE IF c1.version # 0 THEN "complex" ELSE "simple"
    /\ UNCHANGED <<kind, sniffed, c0, c1, cpc, s2c, s2key>>

\* parseHandshakeDigestBlock: where a schema looks for the digest.
DigestOffset(schema) == Base(schema) + Position(c1.offsets[schema])

\* complexHandshakeC1CheckAndDigestSchema: the 32 bytes found there are what
\* the client's key makes of all the others.
CheckSchema(schema) == c1.covers = "C1" /\ c1.at = DigestOffset(schema)

\* complexHandshakeC1CheckAndDigest
CheckC1 == \E schema \in Schemas : CheckSchema(schema)

\* schema1 is only tried when schema0 does not match.
ParsePanics ==
    ~Fits(DigestOffset(0)) \/ (~CheckSchema(0) /\ ~Fits(DigestOffset(1)))

\* The rest of C1 is read, S0S1S2 written.  createComplexS2 keys S2 with the
\* digest of C1; simpleHandshake copies C1 into S2.
Reply(s2) ==
    /\ s2c' = s2c + 1 + 2 * Size
    /\ s2key' = s2
    /\ spc' = "C2"

SimpleHandshake ==
    /\ spc = "simple" /\ c2s >= Size - 8
    /\ c2s' = c2s - (Size - 8)
    /\ Reply("C1")
    /\ UNCHANGED <<kind, sniffed, c0, c1, cpc>>

ComplexHandshake ==
    /\ spc = "complex" /\ c2s >= Size - 8
    /\ c2s' = c2s - (Size - 8)
    /\ IF CheckC1 /\ ~ParsePanics THEN Reply("digest")
       ELSE /\ spc' = IF ParsePanics THEN "panic" ELSE "error"
            /\ UNCHANGED <<s2c, s2key>>
    /\ UNCHANGED <<kind, sniffed, c0, c1, cpc>>

\* Mutant: C2 is taken for granted.
MutC2Length == 0

C2Length == Size

ReadC2 ==
    /\ spc = "C2" /\ c2s >= C2Length
    /\ c2s' = c2s - C2Length
    /\ spc' = "done"
    /\ UNCHANGED <<kind, sniffed, c0, c1, cpc, s2c, s2key>>

\* Both sides have returned, or the client never wrote anything.
Finished ==
    /\ cpc \in {"done", "error", "panic"}
    /\ cpc # "panic" => spc \in {"done", "error", "panic"}
    /\ UNCHANGED vars

Client == SendC0C1 \/ ReadS0S1S2 \/ SendC2

Server == Sniff \/ ReadHeader \/ SimpleHandshake \/ ComplexHandshake \/ ReadC2

Next == Client \/ Server \/ Finished

\* Both sides run.
Spec == Init /\ [][Next]_vars /\ WF_vars(Client) /\ WF_vars(Server)

(***************************************************************************)
(* Properties.                                                             *)
(***************************************************************************)
\* A client that follows either handshake gets through, in whichever of the
\* two blocks it put its digest, and every byte of either side has been read by
\* then, sniffed or not, so that the first chunk starts where ReadChunk looks
\* for it; whatever offsets were drawn, no digest is cut out beyond the end of
\* C1.  One that cannot make the digest, asks for encryption or speaks another
\* version is refused; and nobody is left waiting.
HonestGetThrough ==
    <>(IF kind \in {"own", "simple", "complex"}
       THEN cpc = "done" /\ spc = "done" /\ c2s = 0 /\ s2c = 0
       ELSE cpc = "error" /\ spc = "error")
=============================================================================
