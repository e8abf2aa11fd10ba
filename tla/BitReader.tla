------------------------------ MODULE BitReader ------------------------------
(***************************************************************************)
(* The bit reader of utils/bitreader/bitreader.go, over an io.Reader that  *)
(* may return fewer bytes than it is asked for.                            *)
(*                                                                         *)
(* A bit is the number it has in the stream, 1 the first.  A place of the  *)
(* 64-bit buffer is the set of the bits that were or-ed into it: none is a *)
(* zero, two are a mix-up.  The code has ByteBits = 8.                     *)
(***************************************************************************)
EXTENDS Integers, Sequences

CONSTANTS
    ByteBits,     \* the bits of a byte
    InputBytes,   \* the length of the stream
    MaxSkip,      \* bound on the argument of Skip
    MaxRead       \* bound on the length of the slice given to Read

ASSUME ByteAssumption == ByteBits \in Nat \ {0}
ASSUME BoundsAssumption == InputBytes \in Nat /\ MaxSkip \in Nat /\ MaxRead \in Nat

VARIABLES
    taken,        \* the bits the io.Reader has given
    buffer,       \* the buffer, most significant bit first
    remaining,    \* remaining: how many of its bits are valid
    passed,       \* the bits the caller has been moved past
    call,         \* the call that is under way
    result        \* what the last call returned

vars == <<taken, buffer, remaining, passed, call, result>>

Width == 8 * ByteBits
InputBits == InputBytes * ByteBits
Idle == [op |-> "none", n |-> 0, left |-> 0, from |-> 0, at |-> "idle"]
NoBits == <<>>
NoResult == [op |-> "none", n |-> 0, from |-> 0, bits |-> NoBits, err |-> "nil"]

Init ==
    /\ taken = 0
    /\ buffer = [s \in 1 .. Width |-> {}]
    /\ remaining = 0
    /\ passed = 0
    /\ call = Idle
    /\ result = NoResult

Returns(bits, err) ==
    /\ result' = [op |-> call.op, n |-> call.n, from |-> call.from, bits |-> bits, err |-> err]
    /\ call' = Idle

-----------------------------------------------------------------------------
(***************************************************************************)
(* fill: as many whole bytes as there is room for are asked for; the ones  *)
(* that come are put behind the bits that remained when it started.  The   *)
(* io.Reader gives bytes or an error and never both, as the bytes.Reader   *)
(* of the test does; fill would drop bytes that come with an error.        *)
(***************************************************************************)
Room == (Width - remaining) \div ByteBits
Given == IF Room = 0 THEN {0} ELSE {k \in 1 .. Room : taken + k * ByteBits <= InputBits}

\* Mutant: every byte is placed by the bits that remain when its turn comes.
FilledAnew(k) ==
    [s \in 1 .. Width |->
        LET i == (s - remaining - 1) \div (2 * ByteBits)
        IN  IF s > remaining /\ i < k /\ (s - remaining - 1) % (2 * ByteBits) < ByteBits
            THEN buffer[s] \cup {taken + i * ByteBits + 1 + ((s - remaining - 1) % (2 * ByteBits))}
            ELSE buffer[s]]
Filled(k) ==
    [s \in 1 .. Width |->
        IF s \in remaining + 1 .. remaining + k * ByteBits
        THEN buffer[s] \cup {taken + s - remaining} ELSE buffer[s]]
fill(k) ==
    /\ k \in Given
    /\ buffer' = Filled(k)
    /\ taken' = taken + k * ByteBits
    /\ remaining' = remaining + k * ByteBits
    /\ UNCHANGED passed
fillFails == Given = {}

\* buffer <<= len, remaining -= len.
Drop(len) ==
    /\ buffer' = [s \in 1 .. Width |-> IF s + len <= Width THEN buffer[s + len] ELSE {}]
    /\ remaining' = remaining - len
    /\ passed' = passed + len

-----------------------------------------------------------------------------
(***************************************************************************)
(* The calls.  Every Read and Peek has a width it refuses to go beyond.    *)
(***************************************************************************)
Widths(op) ==
    CASE op = "Read" -> {ByteBits, 2 * ByteBits, 4 * ByteBits, 8 * ByteBits}
      [] op = "Peek" -> {ByteBits, 4 * ByteBits, 8 * ByteBits}
      [] OTHER -> {1}

\* Mutant: a wide read is taken from any position.
Unguarded(n) == FALSE
offsetMismatch(n) == n > 7 * ByteBits /\ remaining % ByteBits # 0

Begin(op, n) ==
    /\ call = Idle
    /\ \E width \in Widths(op) :
          LET err == IF n > width THEN "overflow" ELSE IF offsetMismatch(n) THEN "offset mismatch" ELSE "nil"
          IN  IF err = "nil"
              THEN /\ call' = [op |-> op, n |-> n, left |-> n, from |-> passed, at |-> "peek"]
                   /\ result' = NoResult
              ELSE /\ result' = [op |-> op, n |-> n, from |-> passed, bits |-> NoBits, err |-> err]
                   /\ UNCHANGED call
    /\ UNCHANGED <<taken, buffer, remaining, passed>>

Skip(n) ==
    /\ call = Idle
    /\ call' = [op |-> "Skip", n |-> n, left |-> n, from |-> passed, at |-> "skip"]
    /\ result' = NoResult
    /\ UNCHANGED <<taken, buffer, remaining, passed>>
Align ==
    /\ call = Idle
    /\ call' = [op |-> "Align", n |-> remaining % ByteBits, left |-> remaining % ByteBits, from |-> passed,
                at |-> "skip"]
    /\ result' = NoResult
    /\ UNCHANGED <<taken, buffer, remaining, passed>>

\* Read of p bytes: to the next byte, then what the buffer has, then the io.Reader's own.
ReadBytes(p) ==
    LET off == remaining % ByteBits
        count == IF remaining \div ByteBits > p THEN p ELSE remaining \div ByteBits
        got == count * ByteBits
        more == {k \in 1 .. p - count : taken + k * ByteBits <= InputBits}
        own(k) == [i \in 1 .. k * ByteBits |-> {taken + i}]
    IN  /\ call = Idle
        /\ \E k \in IF more = {} THEN {0} ELSE more :
              /\ buffer' = [s \in 1 .. Width |-> IF s + off + got <= Width THEN buffer[s + off + got] ELSE {}]
              /\ remaining' = remaining - off - got
              /\ taken' = taken + k * ByteBits
              /\ passed' = passed + off + got + k * ByteBits
              /\ result' = [op |-> "ReadBytes", n |-> got + k * ByteBits, from |-> passed + off,
                            bits |-> SubSeq(buffer, off + 1, off + got) \o own(k),
                            err |-> IF count < p /\ k = 0 THEN "EOF" ELSE "nil"]
        /\ UNCHANGED call

\* The loop of peek.
PeekFills ==
    /\ call.at = "peek"
    /\ remaining < call.n
    /\ \E k \in Given : fill(k)
    /\ UNCHANGED <<call, result>>
\* Read1 answers an error with false and no error.
PeekFails ==
    /\ call.at = "peek"
    /\ remaining < call.n
    /\ fillFails
    /\ Returns(NoBits, IF call.op = "Read1" THEN "nil" ELSE "EOF")
    /\ UNCHANGED <<taken, buffer, remaining, passed>>
Peeked == SubSeq(buffer, 1, call.n)
PeekEnds ==
    /\ call.at = "peek"
    /\ remaining >= call.n
    /\ IF call.op \in {"Peek", "Peek1"} THEN Returns(Peeked, "nil") /\ UNCHANGED <<taken, buffer, remaining, passed>>
       ELSE /\ Drop(call.n)
            /\ Returns(Peeked, "nil")
            /\ UNCHANGED taken

\* Mutant: a skip ends with the bits that are there.
SkipWhatIsThere ==
    /\ call.at = "skip"
    /\ Drop(IF call.left > remaining THEN remaining ELSE call.left)
    /\ Returns(NoBits, "nil")
    /\ UNCHANGED taken
\* The loop of skip: what is there is dropped, and more is filled in if that was not enough.
SkipDrops ==
    /\ call.at = "skip"
    /\ LET len == IF call.left > remaining THEN remaining ELSE call.left
       IN  /\ Drop(len)
           /\ IF call.left = len THEN Returns(NoBits, "nil")
              ELSE call' = [call EXCEPT !.left = @ - len, !.at = "refill"] /\ UNCHANGED result
    /\ UNCHANGED taken
SkipFills ==
    /\ call.at = "refill"
    /\ \E k \in Given : fill(k)
    /\ call' = [call EXCEPT !.at = "skip"]
    /\ UNCHANGED result
SkipFails ==
    /\ call.at = "refill"
    /\ fillFails
    /\ Returns(NoBits, "EOF")
    /\ UNCHANGED <<taken, buffer, remaining, passed>>

Step == PeekFills \/ PeekFails \/ PeekEnds \/ SkipDrops \/ SkipFills \/ SkipFails

Next ==
    \/ \E n \in 0 .. Width + 1 : Begin("Read", n) \/ Begin("Peek", n)
    \/ Begin("Read1", 1)
    \/ Begin("Peek1", 1)
    \/ \E n \in 0 .. MaxSkip : Skip(n)
    \/ Align
    \/ \E p \in 0 .. MaxRead : ReadBytes(p)
    \/ Step

Spec == Init /\ [][Next]_vars
\* A call runs to its end.
FairSpec == Spec /\ WF_vars(Step)

-----------------------------------------------------------------------------
(***************************************************************************)
(* The buffer is the part of the stream between where the caller is and    *)
(* what the io.Reader has given, each bit in its place and zeros behind:   *)
(* however the bytes came in.                                              *)
(***************************************************************************)
BufferIsTheStream ==
    /\ passed + remaining = taken
    /\ \A s \in 1 .. Width : buffer[s] = IF s <= remaining THEN {passed + s} ELSE {}

AtTheEnd(r) == r.op = "Read1" /\ r.from = InputBits

(***************************************************************************)
(* A call that returns no error has done what was asked: the next n bits,  *)
(* in order, for a read or a peek, and the caller past them unless it was  *)
(* a peek; for Read, whole bytes of the stream.  Read1 at the end of the   *)
(* stream is left out: it answers false and no error.                      *)
(***************************************************************************)
ResultIsTheStream ==
    result # NoResult /\ result.err = "nil" /\ ~AtTheEnd(result) =>
        /\ result.op = "ReadBytes" => result.from % ByteBits = 0
        /\ passed = result.from + (IF result.op \in {"Peek", "Peek1"} THEN 0 ELSE result.n)
        /\ result.op \in {"Read", "Peek", "Read1", "Peek1", "ReadBytes"} =>
              result.bits = [i \in 1 .. result.n |-> {result.from + i}]

(***************************************************************************)
(* An end of the stream is reported only to a caller who wanted more bits  *)
(* than it had, and the failed read or peek has used none of them up.      *)
(***************************************************************************)
EofOnlyAtTheEnd ==
    result.err = "EOF" =>
        /\ result.op # "ReadBytes" => result.from + result.n > InputBits
        /\ passed = IF result.op \in {"Skip", "ReadBytes"} THEN InputBits ELSE result.from

(***************************************************************************)
(* After Align the caller is between two bytes of the stream, and was      *)
(* moved by less than one (bitreader.go:96).                               *)
(***************************************************************************)
AlignReachesByteBoundary ==
    result.op = "Align" => passed % ByteBits = 0 /\ passed - result.from \in 0 .. ByteBits - 1

\* A call does what its documentation says, also at the end of the stream.
CallsAsPromised == ResultIsTheStream /\ EofOnlyAtTheEnd /\ AlignReachesByteBoundary

(***************************************************************************)
(* Every call returns: no loop of peek or skip asks for zero bytes for     *)
(* ever.                                                                   *)
(***************************************************************************)
EveryCallReturns == call # Idle ~> call = Idle
=============================================================================
