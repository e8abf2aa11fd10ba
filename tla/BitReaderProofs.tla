--------------------------- MODULE BitReaderProofs ---------------------------
(***************************************************************************)
(* The buffer of the bit reader is the stream, for every length of a byte, *)
(* of the stream and of the calls.                                         *)
(***************************************************************************)
EXTENDS BitReader, SequenceTheorems, TLAPS

(***************************************************************************)
(* Division with remainder, which Align, Read and fill compute with.       *)
(***************************************************************************)
LEMMA DivMod ==
    ASSUME NEW a \in Nat, NEW b \in Nat \ {0}
    PROVE  /\ a \div b \in Nat
           /\ a % b \in 0 .. b - 1
           /\ a = b * (a \div b) + (a % b)
  BY SMT

(***************************************************************************)
(* So many whole parts as fit into a are together no longer than a, less   *)
(* what is left over.                                                      *)
(***************************************************************************)
LEMMA WholeParts ==
    ASSUME NEW a \in Nat, NEW b \in Nat \ {0}, NEW k \in Nat, k <= a \div b
    PROVE  k * b \in Nat /\ k * b <= a - (a % b) /\ k * b <= a
<1>1. a \div b \in Nat /\ a % b \in 0 .. b - 1 /\ a = b * (a \div b) + (a % b)
  BY DivMod
<1>2. k * b <= (a \div b) * b
  BY <1>1, SMT
<1>3. k * b \in Nat
  BY SMT
<1> QED BY <1>1, <1>2, <1>3, SMT

-----------------------------------------------------------------------------
(***************************************************************************)
(* BufferIsTheStream is inductive once the types of what it counts with    *)
(* are known.                                                              *)
(***************************************************************************)
Ops == {"none", "Read", "Peek", "Read1", "Peek1", "Skip", "Align"}
Calls == [op : Ops, n : Nat, left : Nat, from : Nat, at : {"idle", "peek", "skip", "refill"}]
Counts ==
    /\ remaining \in Nat /\ remaining <= Width
    /\ passed \in Nat
    /\ taken \in Nat
    /\ call \in Calls
BitInv == Counts /\ BufferIsTheStream

LEMMA WidthIsNat == Width \in Nat
  BY ByteAssumption, SMT DEF Width

\* fill puts whole bytes behind the bits that remain.
LEMMA FillKeeps ==
    ASSUME BitInv, NEW k, fill(k)
    PROVE  /\ remaining' \in Nat /\ remaining' <= Width
           /\ passed' = passed
           /\ taken' \in Nat
           /\ BufferIsTheStream'
<1> USE WidthIsNat
<1>0. passed + remaining = taken
  BY DEF BitInv, BufferIsTheStream
<1>1. k \in Nat /\ k <= Room
  BY ByteAssumption, SMT DEF fill, Given, Room, BitInv, Counts
<1>2. Width - remaining \in Nat
  BY SMT DEF BitInv, Counts
<1> DEFINE more == k * ByteBits
<1>3. more \in Nat /\ more <= Width - remaining
  BY <1>1, <1>2, WholeParts, ByteAssumption DEF Room
<1>4. remaining' = remaining + more /\ taken' = taken + more /\ passed' = passed
  BY DEF fill
<1>5. \A s \in 1 .. Width :
        buffer'[s] = IF s \in remaining + 1 .. remaining + more
                     THEN buffer[s] \cup {taken + s - remaining} ELSE buffer[s]
  BY DEF fill, Filled
<1> HIDE DEF more
<1>6. ASSUME NEW s \in 1 .. Width
      PROVE  buffer'[s] = IF s <= remaining + more THEN {passed + s} ELSE {}
  <2>1. CASE s \in remaining + 1 .. remaining + more
    <3>1. buffer'[s] = buffer[s] \cup {taken + s - remaining}
      BY <1>5, <2>1
    <3>2. ~(s <= remaining) /\ s <= remaining + more /\ taken + s - remaining = passed + s
      BY <1>0, <1>3, <2>1, SMT DEF BitInv, Counts
    <3>3. buffer[s] = {}
      BY <3>2 DEF BitInv, BufferIsTheStream
    <3> QED BY <3>1, <3>2, <3>3
  <2>2. CASE s \notin remaining + 1 .. remaining + more
    <3>1. buffer'[s] = IF s <= remaining THEN {passed + s} ELSE {}
      BY <1>5, <2>2 DEF BitInv, BufferIsTheStream
    <3>2. (s <= remaining + more) <=> (s <= remaining)
      BY <1>3, <2>2, SMT DEF BitInv, Counts
    <3> QED BY <3>1, <3>2
  <2> QED BY <2>1, <2>2
<1>7. passed + (remaining + more) = taken + more
  BY <1>0, <1>3, SMT DEF BitInv, Counts
<1>8. BufferIsTheStream'
  BY <1>4, <1>6, <1>7 DEF BufferIsTheStream, Width
<1>9. remaining + more \in Nat /\ remaining + more <= Width /\ taken + more \in Nat
  BY <1>3, SMT DEF BitInv, Counts
<1> QED
  BY <1>4, <1>8, <1>9

\* A shift by bits that are there.
LEMMA DropKeeps ==
    ASSUME BitInv, NEW len \in Nat, len <= remaining,
           remaining' = remaining - len,
           passed' = passed + len,
           taken' = taken,
           buffer' = [s \in 1 .. Width |-> IF s + len <= Width THEN buffer[s + len] ELSE {}]
    PROVE  /\ remaining' \in Nat /\ remaining' <= Width
           /\ passed' \in Nat
           /\ taken' \in Nat
           /\ BufferIsTheStream'
<1> USE WidthIsNat
<1>1. ASSUME NEW s \in 1 .. Width
      PROVE  buffer'[s] = IF s <= remaining - len THEN {passed + len + s} ELSE {}
  <2>1. CASE s + len <= Width
    <3>1. s + len \in 1 .. Width
      BY <2>1, SMT
    <3>2. buffer'[s] = buffer[s + len]
      BY <2>1
    <3>3. buffer[s + len] = IF s + len <= remaining THEN {passed + (s + len)} ELSE {}
      BY <3>1 DEF BitInv, BufferIsTheStream
    <3>4. (s + len <= remaining) <=> (s <= remaining - len)
      BY SMT DEF BitInv, Counts
    <3>5. passed + (s + len) = passed + len + s
      BY SMT DEF BitInv, Counts
    <3> QED BY <3>2, <3>3, <3>4, <3>5
  <2>2. CASE ~(s + len <= Width)
    BY <2>2, SMT DEF BitInv, Counts
  <2> QED BY <2>1, <2>2
<1>2. (passed + len) + (remaining - len) = taken
  BY SMT DEF BitInv, Counts, BufferIsTheStream
<1>3. remaining - len \in Nat /\ remaining - len <= Width /\ passed + len \in Nat /\ taken \in Nat
  BY SMT DEF BitInv, Counts
<1>4. BufferIsTheStream'
  BY <1>1, <1>2 DEF BufferIsTheStream, Width
<1> QED
  BY <1>3, <1>4

\* Read hands out whole bytes of the buffer and goes on in the io.Reader when it is empty.
LEMMA ReadKeeps ==
    ASSUME BitInv, NEW p \in Nat, ReadBytes(p)
    PROVE  BitInv'
<1> USE WidthIsNat
<1> DEFINE off == remaining % ByteBits
           fit == remaining \div ByteBits
           count == IF fit > p THEN p ELSE fit
           got == count * ByteBits
<1>1. PICK k : /\ k \in (IF {j \in 1 .. p - count : taken + j * ByteBits <= InputBits} = {} THEN {0}
                         ELSE {j \in 1 .. p - count : taken + j * ByteBits <= InputBits})
               /\ buffer' = [s \in 1 .. Width |-> IF s + off + got <= Width THEN buffer[s + off + got] ELSE {}]
               /\ remaining' = remaining - off - got
               /\ taken' = taken + k * ByteBits
               /\ passed' = passed + off + got + k * ByteBits
  BY Zenon DEF ReadBytes
<1>2. call' = call
  BY DEF ReadBytes
<1>3. /\ fit \in Nat
      /\ off \in Nat /\ off <= remaining
      /\ count \in Nat /\ count <= fit /\ count <= p
  <2>1. fit \in Nat /\ off \in 0 .. ByteBits - 1 /\ remaining = ByteBits * fit + off
    BY DivMod, ByteAssumption DEF BitInv, Counts
  <2>2. ByteBits * fit \in Nat
    BY <2>1, ByteAssumption, SMT
  <2> HIDE DEF fit, off
  <2> QED BY <2>1, <2>2, ByteAssumption, SMT DEF BitInv, Counts
<1>4. got \in Nat /\ off + got <= remaining
  <2>1. got \in Nat /\ got <= remaining - off
    BY <1>3, WholeParts, ByteAssumption DEF BitInv, Counts
  <2> HIDE DEF got, off
  <2> QED BY <1>3, <2>1, SMT DEF BitInv, Counts
\* k > 0 only when the slice is longer than what the buffer had: then nothing remains.
<1>5. k \in Nat /\ (k = 0 \/ count = fit)
  <2> HIDE DEF fit
  <2> QED BY <1>1, <1>3, SMT
<1>6. count = fit => off + got = remaining
  <2>1. remaining = ByteBits * fit + off /\ off \in Nat /\ ByteBits * fit \in Nat
    BY DivMod, <1>3, ByteAssumption DEF BitInv, Counts
  <2>2. count = fit => got = ByteBits * fit
    BY <1>3, ByteAssumption, SMT
  <2> HIDE DEF off, fit, got, count
  <2> QED BY <2>1, <2>2, SMT DEF BitInv, Counts
<1> DEFINE len == off + got
           own == k * ByteBits
<1>7. own \in Nat /\ (k = 0 => own = 0)
  BY <1>5, ByteAssumption, SMT
<1> HIDE DEF off, fit, count, got
<1>8. \A s \in 1 .. Width : buffer'[s] = IF s + len <= Width THEN buffer[s + len] ELSE {}
  <2>1. ASSUME NEW s \in 1 .. Width PROVE s + off + got = s + len
    BY <1>3, <1>4, SMT
  <2> QED BY <1>1, <2>1
<1>9. len \in Nat /\ len <= remaining /\ (k = 0 \/ len = remaining)
  BY <1>3, <1>4, <1>5, <1>6, SMT
<1>10. remaining' = remaining - len /\ passed' = passed + len + own /\ taken' = taken + own
  BY <1>1, <1>3, <1>4, <1>7, SMT DEF BitInv, Counts
<1> HIDE DEF len, own
<1>11. ASSUME NEW s \in 1 .. Width
       PROVE  buffer'[s] = IF s <= remaining - len THEN {passed + len + own + s} ELSE {}
  <2>1. CASE s + len <= Width
    <3>1. s + len \in 1 .. Width
      BY <1>9, <2>1, SMT
    <3>2. buffer'[s] = IF s + len <= remaining THEN {passed + (s + len)} ELSE {}
      BY <1>8, <2>1, <3>1 DEF BitInv, BufferIsTheStream
    <3>3. s + len <= remaining => own = 0
      BY <1>7, <1>9, SMT DEF BitInv, Counts
    <3> QED BY <1>7, <1>9, <3>2, <3>3, SMT DEF BitInv, Counts
  <2>2. CASE ~(s + len <= Width)
    BY <1>8, <1>9, <2>2, SMT DEF BitInv, Counts
  <2> QED BY <2>1, <2>2
<1>12. Counts'
  BY <1>2, <1>7, <1>9, <1>10, SMT DEF BitInv, Counts, Width
<1>13. BufferIsTheStream'
  <2>1. passed' + remaining' = taken'
    BY <1>7, <1>9, <1>10, SMT DEF BitInv, Counts, BufferIsTheStream
  <2> QED BY <1>10, <1>11, <2>1 DEF BufferIsTheStream, Width
<1> QED BY <1>12, <1>13 DEF BitInv

LEMMA BitInit == Init => BitInv
<1> SUFFICES ASSUME Init PROVE BitInv
  OBVIOUS
<1>1. Counts
  BY WidthIsNat, SMT DEF Init, Counts, Idle, Calls, Ops
<1>2. ASSUME NEW s \in 1 .. Width PROVE ~(s <= 0)
  BY WidthIsNat, SMT
<1>3. BufferIsTheStream
  BY <1>2, SMT DEF Init, BufferIsTheStream
<1> QED BY <1>1, <1>3 DEF BitInv

\* The buffer is left alone.
LEMMA BufferUntouched ==
    ASSUME BitInv, taken' = taken, buffer' = buffer, remaining' = remaining, passed' = passed,
           call' \in Calls
    PROVE  BitInv'
  BY DEF BitInv, Counts, BufferIsTheStream, Width, Calls, Ops

LEMMA BitNext == BitInv /\ [Next]_vars => BitInv'
<1> SUFFICES ASSUME BitInv, [Next]_vars PROVE BitInv'
  OBVIOUS
<1> USE WidthIsNat
<1>0. remaining \in Nat /\ passed \in Nat /\ call \in Calls
  BY DEF BitInv, Counts
<1>1. call \in Calls /\ Idle \in Calls /\ call.n \in Nat /\ call.left \in Nat
  BY <1>0 DEF Idle, Calls, Ops
<1>2. ASSUME NEW op \in Ops, NEW n \in Nat, Begin(op, n) PROVE BitInv'
  <2>1. call' \in Calls
    <3>1. call' = call \/ call' = [op |-> op, n |-> n, left |-> n, from |-> passed, at |-> "peek"]
      BY <1>2 DEF Begin
    <3> QED BY <1>0, <3>1 DEF Calls
  <2> QED BY <1>2, <2>1, BufferUntouched DEF Begin
<1>3. ASSUME NEW n \in Nat, Skip(n) PROVE BitInv'
  <2>1. call' \in Calls
    BY <1>3 DEF Skip, BitInv, Counts, Calls, Ops
  <2> QED BY <1>3, <2>1, BufferUntouched DEF Skip
<1>4. CASE Align
  <2>1. remaining % ByteBits \in Nat
    BY DivMod, ByteAssumption, SMT DEF BitInv, Counts
  <2>2. call' \in Calls
    BY <1>4, <2>1 DEF Align, BitInv, Counts, Calls, Ops
  <2> QED BY <1>4, <2>2, BufferUntouched DEF Align
<1>5. ASSUME NEW p \in Nat, ReadBytes(p) PROVE BitInv'
  BY <1>5, ReadKeeps
<1>6. CASE PeekFills
  <2>1. PICK k : fill(k)
    BY <1>6 DEF PeekFills
  <2> QED BY <1>1, <1>6, <2>1, FillKeeps DEF PeekFills, BitInv, Counts, Width
<1>7. CASE PeekFails
  BY <1>1, <1>7, BufferUntouched DEF PeekFails, Returns
<1>8. CASE PeekEnds
  <2>1. call' \in Calls
    BY <1>1, <1>8 DEF PeekEnds, Returns
  <2>2. CASE call.op \in {"Peek", "Peek1"}
    BY <1>8, <2>1, <2>2, BufferUntouched DEF PeekEnds
  <2>3. CASE call.op \notin {"Peek", "Peek1"}
    <3>1. Drop(call.n) /\ taken' = taken /\ call.n \in Nat /\ call.n <= remaining
      BY <1>0, <1>1, <1>8, <2>3, SMT DEF PeekEnds
    <3> QED BY <2>1, <3>1, DropKeeps DEF Drop, BitInv, Counts, Width
  <2> QED BY <2>2, <2>3
<1>9. CASE SkipDrops
  <2> DEFINE len == IF call.left > remaining THEN remaining ELSE call.left
  <2>1. Drop(len) /\ taken' = taken
    BY <1>9 DEF SkipDrops
  <2>2. len \in Nat /\ len <= remaining /\ call.left - len \in Nat
    BY <1>0, <1>1, SMT
  <2>3. call' \in Calls
    BY <1>1, <1>9, <2>2 DEF SkipDrops, Returns, Calls
  <2> HIDE DEF len
  <2> QED BY <2>1, <2>2, <2>3, DropKeeps DEF Drop, BitInv, Counts, Width
<1>10. CASE SkipFills
  <2>1. PICK k : fill(k)
    BY <1>10 DEF SkipFills
  <2>2. call' \in Calls
    BY <1>1, <1>10 DEF SkipFills, Calls
  <2> QED BY <2>1, <2>2, FillKeeps DEF BitInv, Counts, Width
<1>11. CASE SkipFails
  BY <1>1, <1>11, BufferUntouched DEF SkipFails, Returns
<1>12. CASE UNCHANGED vars
  BY <1>1, <1>12, BufferUntouched DEF vars
<1>13. CASE \E n \in 0 .. Width + 1 : Begin("Read", n) \/ Begin("Peek", n)
  BY <1>2, <1>13 DEF Ops
<1>14. CASE Begin("Read1", 1) \/ Begin("Peek1", 1)
  BY <1>2, <1>14 DEF Ops
<1>15. CASE \E n \in 0 .. MaxSkip : Skip(n)
  BY <1>3, <1>15, BoundsAssumption
<1>16. CASE \E p \in 0 .. MaxRead : ReadBytes(p)
  BY <1>5, <1>16, BoundsAssumption
<1> QED
  BY <1>4, <1>6, <1>7, <1>8, <1>9, <1>10, <1>11, <1>12, <1>13, <1>14, <1>15, <1>16
     DEF Next, Step

(***************************************************************************)
(* However the bytes come in and whatever is called, the buffer of the bit *)
(* reader (bitreader.go:154) is the part of the stream that follows the    *)
(* caller's position, in its place and with zeros behind.                  *)
(***************************************************************************)
THEOREM BufferTheorem == Spec => []BufferIsTheStream
<1>1. BitInv => BufferIsTheStream
  BY DEF BitInv
<1> QED BY <1>1, BitInit, BitNext, PTL DEF Spec
-----------------------------------------------------------------------------
(***************************************************************************)
(* What the calls promise.  A result stays as long as nothing else moves   *)
(* the caller: no call is under way while there is one.  Under way, the    *)
(* call remembers where it started; the io.Reader has given whole bytes.   *)
(***************************************************************************)
Shaped == buffer = [s \in 1 .. Width |-> buffer[s]]
WholeBytes == \E t \in 0 .. InputBytes : taken = t * ByteBits

UnderWay ==
    /\ result # NoResult => call.at = "idle"
    /\ call.at = "peek" =>
         /\ call.op \in {"Read", "Peek", "Read1", "Peek1"}
         /\ call.op \in {"Read1", "Peek1"} => call.n = 1
         /\ call.from = passed /\ call.n <= Width
    /\ call.at \in {"skip", "refill"} =>
         /\ call.op \in {"Skip", "Align"}
         /\ call.left <= call.n /\ passed = call.from + (call.n - call.left)
    /\ call.at = "skip" /\ call.op = "Align" =>
         call.left = remaining % ByteBits /\ call.n = call.left
    /\ call.at = "refill" => call.op = "Skip" /\ call.left > 0 /\ remaining = 0

PromiseInv == BitInv /\ Shaped /\ WholeBytes /\ UnderWay /\ CallsAsPromised

\* Bits of the buffer that are valid are bits of the stream.
LEMMA Stretch ==
    ASSUME BitInv, Shaped, NEW off \in Nat, NEW n \in Nat, off + n <= remaining
    PROVE  SubSeq(buffer, off + 1, off + n) = [i \in 1 .. n |-> {passed + off + i}]
<1> USE WidthIsNat
<1>1. remaining \in Nat /\ remaining <= Width /\ passed \in Nat
  BY DEF BitInv, Counts
<1>2. \A s \in 1 .. Width : buffer[s] \in SUBSET Nat
  <2>1. ASSUME NEW s \in 1 .. Width PROVE buffer[s] \in SUBSET Nat
    <3>1. passed + s \in Nat
      BY <1>1, SMT
    <3>2. buffer[s] = {passed + s} \/ buffer[s] = {}
      BY DEF BitInv, BufferIsTheStream
    <3> QED BY <3>1, <3>2
  <2> QED BY <2>1
<1>3. PICK from \in Int : from = off + 1
  BY SMT
<1>4. PICK to \in Int : to = off + n
  BY SMT
<1>5. ASSUME NEW i \in from .. to PROVE buffer[i] \in SUBSET Nat
  <2>1. i \in 1 .. Width
    BY <1>1, <1>3, <1>4, SMT
  <2> QED BY <1>2, <2>1
<1>6. PICK sub : sub = SubSeq(buffer, from, to)
  OBVIOUS
<1>7. /\ sub \in Seq(SUBSET Nat)
      /\ Len(sub) = IF from <= to THEN to - from + 1 ELSE 0
      /\ \A i \in 1 .. to - from + 1 : sub[i] = buffer[from + i - 1]
  BY <1>5, <1>6, SubSeqProperties
<1>8. to - from + 1 = n /\ Len(sub) = n
  BY <1>3, <1>4, <1>7, SMT
<1>9. ASSUME NEW i \in 1 .. n PROVE sub[i] = {passed + off + i}
  <2>1. /\ from + i - 1 = off + i /\ off + i \in 1 .. Width /\ off + i <= remaining
        /\ passed + (off + i) = passed + off + i
    BY <1>1, <1>3, SMT
  <2> QED BY <1>7, <1>8, <2>1 DEF BitInv, BufferIsTheStream
<1>10. sub = [i \in 1 .. n |-> sub[i]]
  BY <1>7, <1>8, LenProperties
<1> QED BY <1>3, <1>4, <1>6, <1>9, <1>10

\* Nothing was called yet, or a call is under way.
LEMMA NoPromise == result = NoResult => CallsAsPromised
  BY DEF NoResult, CallsAsPromised, ResultIsTheStream, EofOnlyAtTheEnd, AlignReachesByteBoundary

\* The call under way is one of the reader's.
LEMMA CallTyped ==
    ASSUME BitInv
    PROVE  /\ call \in Calls /\ call.n \in Nat /\ call.left \in Nat /\ call.from \in Nat
           /\ remaining \in Nat /\ remaining <= Width /\ passed \in Nat /\ taken \in Nat
           /\ passed + remaining = taken
  BY DEF BitInv, Counts, Calls, BufferIsTheStream

\* When the io.Reader has nothing more to give it has given the whole stream.
LEMMA AllTaken ==
    ASSUME BitInv, WholeBytes, NEW most \in Nat \ {0},
           {k \in 1 .. most : taken + k * ByteBits <= InputBits} = {}
    PROVE  taken = InputBits
<1>1. PICK t \in 0 .. InputBytes : taken = t * ByteBits
  BY DEF WholeBytes
<1>2. ~(taken + 1 * ByteBits <= InputBits)
  OBVIOUS
<1>3. ~(t + 1 <= InputBytes)
  <2> SUFFICES ASSUME t + 1 <= InputBytes PROVE FALSE
    OBVIOUS
  <2>1. (t + 1) * ByteBits <= InputBytes * ByteBits
    BY BoundsAssumption, ByteAssumption, SMT
  <2>2. (t + 1) * ByteBits = taken + 1 * ByteBits
    BY <1>1, ByteAssumption, SMT
  <2> QED BY <1>2, <2>1, <2>2 DEF InputBits
<1>4. t = InputBytes
  BY <1>3, BoundsAssumption, SMT
<1> QED BY <1>1, <1>4 DEF InputBits

\* What was taken stays whole bytes, and no more than there are.
LEMMA TakesWholeBytes ==
    ASSUME BitInv, WholeBytes, NEW k \in Nat, taken' = taken + k * ByteBits,
           k = 0 \/ taken + k * ByteBits <= InputBits
    PROVE  WholeBytes'
<1>1. PICK t \in 0 .. InputBytes : taken = t * ByteBits
  BY DEF WholeBytes
<1>2. taken' = (t + k) * ByteBits
  BY <1>1, ByteAssumption, SMT
<1>3. t + k <= InputBytes
  <2>1. CASE k = 0
    BY <2>1, BoundsAssumption, SMT
  <2>2. CASE (t + k) * ByteBits <= InputBytes * ByteBits
    <3> SUFFICES ASSUME InputBytes + 1 <= t + k PROVE FALSE
      BY BoundsAssumption, SMT
    <3>1. (InputBytes + 1) * ByteBits <= (t + k) * ByteBits
      BY BoundsAssumption, ByteAssumption, SMT
    <3>2. (InputBytes + 1) * ByteBits = InputBytes * ByteBits + ByteBits
      BY BoundsAssumption, ByteAssumption, SMT
    <3>3. InputBytes * ByteBits \in Nat /\ (t + k) * ByteBits \in Nat
      BY BoundsAssumption, ByteAssumption, SMT
    <3> HIDE DEF InputBits
    <3> QED BY <2>2, <3>1, <3>2, <3>3, ByteAssumption, SMT
  <2> QED BY <1>1, <1>2, <2>1, <2>2 DEF InputBits
<1> QED BY <1>2, <1>3, BoundsAssumption, SMT DEF WholeBytes

\* A fill takes whole bytes and keeps the buffer's shape.
LEMMA FillTakes ==
    ASSUME BitInv, WholeBytes, NEW k, fill(k)
    PROVE  WholeBytes' /\ Shaped'
<1>1. k \in Nat /\ (k = 0 \/ taken + k * ByteBits <= InputBits) /\ taken' = taken + k * ByteBits
  <2>1. k = 0 \/ k \in {j \in 1 .. Room : taken + j * ByteBits <= InputBits}
    BY DEF fill, Given
  <2> QED BY <2>1 DEF fill
<1>2. WholeBytes'
  BY <1>1, TakesWholeBytes
<1>3. buffer' = [s \in 1 .. Width |-> Filled(k)[s]]
  BY DEF fill, Filled
<1>4. Shaped'
  BY <1>3 DEF Shaped, Width
<1> QED BY <1>2, <1>4

\* Between the loops of a call that runs nothing is promised.
LEMMA StillUnderWay ==
    ASSUME BitInv', Shaped', WholeBytes', UnderWay', result' = NoResult
    PROVE  PromiseInv'
<1>1. (result = NoResult)'
  BY DEF NoResult, NoBits
<1>2. CallsAsPromised'
  BY <1>1, NoPromise, PTL
<1> QED BY <1>2 DEF PromiseInv

(***************************************************************************)
(* The steps of a call.                                                    *)
(***************************************************************************)
\* No call is wider than the buffer.
LEMMA WidestCall ==
    ASSUME NEW op \in {"Read", "Peek", "Read1", "Peek1"}, NEW n \in Nat,
           NEW width \in Widths(op), ~(n > width)
    PROVE  n <= Width
<1>1. CASE op = "Read"
  BY <1>1, ByteAssumption DEF Widths, Width
<1>2. CASE op = "Peek"
  BY <1>2, ByteAssumption DEF Widths, Width
<1>3. CASE op \in {"Read1", "Peek1"}
  BY <1>3, ByteAssumption DEF Widths, Width
<1> QED BY <1>1, <1>2, <1>3

\* A call that is accepted starts from where the caller is, at most a buffer
\* wide; one that is refused moves nothing.
LEMMA BeginPromises ==
    ASSUME PromiseInv, BitInv', NEW op \in {"Read", "Peek", "Read1", "Peek1"}, NEW n \in Nat,
           Begin(op, n), op \in {"Read1", "Peek1"} => n = 1
    PROVE  PromiseInv'
<1>0. PICK width \in Widths(op) :
         LET err == IF n > width THEN "overflow" ELSE IF offsetMismatch(n) THEN "offset mismatch" ELSE "nil"
         IN  IF err = "nil"
             THEN /\ call' = [op |-> op, n |-> n, left |-> n, from |-> passed, at |-> "peek"]
                  /\ result' = NoResult
             ELSE /\ result' = [op |-> op, n |-> n, from |-> passed, bits |-> NoBits, err |-> err]
                  /\ UNCHANGED call
  BY Zenon DEF Begin
<1>1. PICK e \in {"overflow", "offset mismatch", "nil"} :
         e = IF n > width THEN "overflow" ELSE IF offsetMismatch(n) THEN "offset mismatch" ELSE "nil"
  OBVIOUS
<1>2. UNCHANGED <<taken, buffer, remaining, passed>>
  BY DEF Begin
<1>3. Shaped' /\ WholeBytes'
  BY <1>2 DEF PromiseInv, Shaped, WholeBytes, Width
<1>4. CASE e = "nil"
  <2>1. call' = [op |-> op, n |-> n, left |-> n, from |-> passed, at |-> "peek"] /\ result' = NoResult
    BY <1>0, <1>1, <1>4, Zenon
  <2>2. width \in Widths(op)
    BY <1>0, Zenon
  <2>3. ~(n > width)
    BY <1>1, <1>4
  <2>5. n <= Width
    BY <2>2, <2>3, WidestCall
  <2>6. UnderWay'
    BY <1>2, <2>1, <2>5 DEF UnderWay, Width
  <2> QED BY <1>3, <2>1, <2>6, StillUnderWay
<1>5. CASE e # "nil"
  <2>1. /\ result' = [op |-> op, n |-> n, from |-> passed, bits |-> NoBits, err |-> e]
        /\ UNCHANGED call
    BY <1>0, <1>1, <1>5, Zenon
  <2>2. call'.at = "idle"
    BY <2>1 DEF Begin, Idle
  <2>3. UnderWay'
    BY <2>2 DEF UnderWay
  <2>4. result'.err \notin {"nil", "EOF"} /\ result'.op # "Align"
    BY <1>5, <2>1
  <2>5. CallsAsPromised'
    BY <2>4 DEF CallsAsPromised, ResultIsTheStream, EofOnlyAtTheEnd, AlignReachesByteBoundary
  <2> QED BY <1>3, <2>3, <2>5 DEF PromiseInv
<1> QED BY <1>4, <1>5

LEMMA SkipPromises ==
    ASSUME PromiseInv, BitInv',
           (\E n \in Nat : Skip(n)) \/ Align
    PROVE  PromiseInv'
<1>0. passed \in Nat /\ remaining \in Nat
  BY CallTyped DEF PromiseInv
<1>1. UNCHANGED <<taken, buffer, remaining, passed>> /\ result' = NoResult
  BY DEF Skip, Align
<1>2. Shaped' /\ WholeBytes'
  BY <1>1 DEF PromiseInv, Shaped, WholeBytes, Width
<1>3. UnderWay'
  <2>1. ASSUME NEW n \in Nat, Skip(n) PROVE UnderWay'
    <3>1. call' = [op |-> "Skip", n |-> n, left |-> n, from |-> passed, at |-> "skip"]
      BY <2>1 DEF Skip
    <3> QED BY <1>0, <1>1, <3>1, SMT DEF UnderWay
  <2>2. CASE Align
    <3>1. PICK r \in Nat : r = remaining % ByteBits
      BY <1>0, DivMod, ByteAssumption
    <3>2. call' = [op |-> "Align", n |-> r, left |-> r, from |-> passed, at |-> "skip"]
      BY <2>2, <3>1 DEF Align
    <3>3. /\ call'.op = "Align" /\ call'.n = r /\ call'.left = r /\ call'.from = passed
          /\ call'.at = "skip"
      BY <3>2
    <3>4. remaining' % ByteBits = r
      BY <1>1, <3>1
    <3>5. passed' = passed + (r - r) /\ r <= r
      BY <1>0, <1>1, SMT
    <3> QED BY <1>1, <3>3, <3>4, <3>5 DEF UnderWay
  <2> QED BY <2>1, <2>2
<1> QED BY <1>1, <1>2, <1>3, StillUnderWay

\* The loops take whole bytes and leave the call where it is.
LEMMA FillsPromise ==
    ASSUME PromiseInv, BitInv', PeekFills \/ SkipFills
    PROVE  PromiseInv'
<1>1. PICK k : fill(k)
  BY DEF PeekFills, SkipFills
<1>2. Shaped' /\ WholeBytes'
  BY <1>1, FillTakes DEF PromiseInv
<1>3. UNCHANGED <<passed, result>>
  BY <1>1 DEF fill, PeekFills, SkipFills
<1>4. result = NoResult
  BY DEF PeekFills, SkipFills, PromiseInv, UnderWay
<1>5. result' = NoResult
  BY <1>3, <1>4
<1>6. UnderWay'
  <2>1. CASE PeekFills
    <3>1. UNCHANGED call /\ call.at = "peek"
      BY <2>1 DEF PeekFills
    <3> QED BY <1>3, <1>5, <3>1 DEF PromiseInv, UnderWay, Width
  <2>2. CASE SkipFills
    <3>1. call' = [call EXCEPT !.at = "skip"] /\ call.at = "refill" /\ call \in Calls
      BY <2>2, CallTyped DEF SkipFills, PromiseInv
    <3>2. /\ call'.at = "skip" /\ call'.op = call.op /\ call'.n = call.n
          /\ call'.left = call.left /\ call'.from = call.from
      BY <3>1 DEF Calls
    <3> QED BY <1>3, <1>5, <3>1, <3>2 DEF PromiseInv, UnderWay
  <2> QED BY <2>1, <2>2
<1> QED BY <1>2, <1>5, <1>6, StillUnderWay

(***************************************************************************)
(* The ends of a call.                                                     *)
(***************************************************************************)
\* Nothing more is given and the read or peek wanted more: it wanted more than
\* there is.
LEMMA PeekFailPromises ==
    ASSUME PromiseInv, BitInv', PeekFails
    PROVE  PromiseInv'
<1>0. /\ call \in Calls /\ call.n \in Nat /\ call.from \in Nat
      /\ remaining \in Nat /\ remaining <= Width /\ passed \in Nat /\ taken \in Nat
      /\ passed + remaining = taken
  BY CallTyped DEF PromiseInv
<1>1. /\ call.op \in {"Read", "Peek", "Read1", "Peek1"} /\ call.from = passed
      /\ call.op \in {"Read1", "Peek1"} => call.n = 1
      /\ remaining < call.n
  BY DEF PeekFails, PromiseInv, UnderWay
<1>2. UNCHANGED <<taken, buffer, remaining, passed>>
  BY DEF PeekFails
<1>3. PICK e \in {"nil", "EOF"} : e = IF call.op = "Read1" THEN "nil" ELSE "EOF"
  OBVIOUS
<1>4. /\ result' = [op |-> call.op, n |-> call.n, from |-> call.from, bits |-> NoBits, err |-> e]
      /\ call' = Idle
  BY <1>3, Zenon DEF PeekFails, Returns
<1>5. /\ result'.op = call.op /\ result'.n = call.n /\ result'.from = call.from
      /\ result'.err = e
  BY <1>4
<1>6. taken = InputBits
  <2>1. Room # 0 /\ {k \in 1 .. Room : taken + k * ByteBits <= InputBits} = {}
    BY DEF PeekFails, fillFails, Given
  <2>2. Room \in Nat
    <3>1. Width - remaining \in Nat
      BY <1>0, WidthIsNat, SMT
    <3> QED BY <3>1, DivMod, ByteAssumption DEF Room
  <2>3. Room \in Nat \ {0}
    BY <2>1, <2>2
  <2> QED BY <2>1, <2>3, AllTaken DEF PromiseInv
<1>7. Shaped' /\ WholeBytes'
  BY <1>2 DEF PromiseInv, Shaped, WholeBytes, Width
<1>8. UnderWay'
  BY <1>4 DEF UnderWay, Idle
<1>9. e = "nil" => result'.op = "Read1" /\ result'.from = InputBits
  <2>1. call.op = "Read1" => call.from = InputBits
    BY <1>0, <1>1, <1>6, SMT
  <2> QED BY <1>3, <1>5, <2>1
<1>10. ResultIsTheStream'
  BY <1>5, <1>9 DEF ResultIsTheStream, AtTheEnd, InputBits
<1>11. EofOnlyAtTheEnd'
  <2>1. call.from + call.n > InputBits
    BY <1>0, <1>1, <1>6, SMT
  <2>2. result'.from + result'.n > InputBits /\ passed' = result'.from
    BY <1>1, <1>2, <1>5, <2>1
  <2> QED BY <1>1, <1>5, <2>2 DEF EofOnlyAtTheEnd, InputBits
<1>12. AlignReachesByteBoundary'
  BY <1>1, <1>5 DEF AlignReachesByteBoundary
<1> QED BY <1>7, <1>8, <1>10, <1>11, <1>12 DEF PromiseInv, CallsAsPromised

\* The bits that are there are the answer.
LEMMA PeekEndPromises ==
    ASSUME PromiseInv, BitInv', PeekEnds
    PROVE  PromiseInv'
<1>0. /\ call \in Calls /\ call.n \in Nat /\ call.from \in Nat
      /\ remaining \in Nat /\ remaining <= Width /\ passed \in Nat /\ taken \in Nat
      /\ passed + remaining = taken
  BY CallTyped DEF PromiseInv
<1>1. call.op \in {"Read", "Peek", "Read1", "Peek1"} /\ call.from = passed /\ call.n <= remaining
  <2>1. call.at = "peek" /\ remaining >= call.n
    BY DEF PeekEnds
  <2> QED BY <1>0, <2>1, SMT DEF PromiseInv, UnderWay
<1>2. Peeked = [i \in 1 .. call.n |-> {passed + i}]
  <2>1. SubSeq(buffer, 0 + 1, 0 + call.n) = [i \in 1 .. call.n |-> {passed + 0 + i}]
    <3>1. 0 + call.n <= remaining
      BY <1>0, <1>1, SMT
    <3> QED BY <1>0, <3>1, Stretch DEF PromiseInv
  <2>2. 0 + 1 = 1 /\ 0 + call.n = call.n /\ passed + 0 = passed
    BY <1>0, SMT
  <2> QED BY <2>1, <2>2 DEF Peeked
<1>3. /\ result' = [op |-> call.op, n |-> call.n, from |-> call.from, bits |-> Peeked, err |-> "nil"]
      /\ call' = Idle /\ taken' = taken
  BY Zenon DEF PeekEnds, Returns
<1>4. /\ result'.op = call.op /\ result'.n = call.n /\ result'.from = passed
      /\ result'.err = "nil" /\ result'.bits = [i \in 1 .. call.n |-> {passed + i}]
  BY <1>1, <1>2, <1>3
<1>5. passed' = passed + (IF call.op \in {"Peek", "Peek1"} THEN 0 ELSE call.n)
  BY <1>0, SMT DEF PeekEnds, Drop
<1>6. Shaped'
  <2>1. buffer' = buffer \/ buffer' = [s \in 1 .. Width |-> IF s + call.n <= Width THEN buffer[s + call.n] ELSE {}]
    BY DEF PeekEnds, Drop
  <2> QED BY <2>1 DEF PromiseInv, Shaped, Width
<1>7. WholeBytes'
  BY <1>3 DEF PromiseInv, WholeBytes
<1>8. UnderWay'
  BY <1>3 DEF UnderWay, Idle
<1>9. ResultIsTheStream'
  <2>1. result'.bits = [i \in 1 .. result'.n |-> {result'.from + i}]
    BY <1>4
  <2>2. passed' = result'.from + (IF result'.op \in {"Peek", "Peek1"} THEN 0 ELSE result'.n)
    BY <1>4, <1>5
  <2>3. result'.op # "ReadBytes"
    BY <1>1, <1>4
  <2> QED BY <2>1, <2>2, <2>3 DEF ResultIsTheStream
<1>10. EofOnlyAtTheEnd' /\ AlignReachesByteBoundary'
  BY <1>1, <1>4 DEF EofOnlyAtTheEnd, AlignReachesByteBoundary
<1> QED BY <1>6, <1>7, <1>8, <1>9, <1>10 DEF PromiseInv, CallsAsPromised

\* A multiple leaves no remainder.
LEMMA NothingOver ==
    ASSUME NEW a \in Nat, NEW b \in Nat \ {0}, NEW z \in Int, a = z * b
    PROVE  a % b = 0
<1>1. a \div b \in Nat /\ a % b \in 0 .. b - 1 /\ a = b * (a \div b) + (a % b)
  BY DivMod
<1>2. PICK q \in Nat : q = a \div b
  BY <1>1
<1>3. PICK r \in 0 .. b - 1 : r = a % b
  BY <1>1
<1>4. (z - q) * b = r
  <2>1. (z - q) * b = z * b - q * b /\ b * q = q * b
    BY SMT
  <2>2. z * b \in Int /\ q * b \in Int
    BY SMT
  <2> QED BY <1>1, <1>2, <1>3, <2>1, <2>2, SMT
<1>5. z - q = 0
  <2>1. CASE z - q >= 1
    <3>1. (z - q) * b >= 1 * b
      BY <2>1, SMT
    <3> QED BY <1>3, <1>4, <3>1, SMT
  <2>2. CASE z - q <= -1
    <3>1. (z - q) * b <= (-1) * b
      BY <2>2, SMT
    <3> QED BY <1>3, <1>4, <3>1, SMT
  <2> QED BY <2>1, <2>2, SMT
<1> QED BY <1>3, <1>4, <1>5, SMT

\* What is before the odd bits that remain is whole bytes.
LEMMA ByteBoundary ==
    ASSUME BitInv, WholeBytes
    PROVE  /\ remaining % ByteBits \in 0 .. ByteBits - 1
           /\ remaining % ByteBits <= remaining
           /\ (passed + (remaining % ByteBits)) % ByteBits = 0
<1>0. remaining \in Nat /\ passed \in Nat /\ taken \in Nat /\ passed + remaining = taken
  BY CallTyped
<1>1. PICK t \in 0 .. InputBytes : taken = t * ByteBits
  BY DEF WholeBytes
<1>2. /\ remaining \div ByteBits \in Nat /\ remaining % ByteBits \in 0 .. ByteBits - 1
      /\ remaining = ByteBits * (remaining \div ByteBits) + (remaining % ByteBits)
  BY <1>0, DivMod, ByteAssumption
<1>3. PICK q \in Nat : q = remaining \div ByteBits
  BY <1>2
<1>4. PICK r \in 0 .. ByteBits - 1 : r = remaining % ByteBits
  BY <1>2
<1>5. t \in Int
  BY BoundsAssumption
<1>6. passed + r = (t - q) * ByteBits
  <2>1. (t - q) * ByteBits = t * ByteBits - ByteBits * q
    BY <1>5, ByteAssumption, SMT
  <2>2. t * ByteBits \in Int /\ ByteBits * q \in Int
    BY <1>5, ByteAssumption, SMT
  <2> QED BY <1>0, <1>1, <1>2, <1>3, <1>4, <2>1, <2>2, ByteAssumption, SMT
<1>7. passed + r \in Nat /\ r <= remaining
  <2>1. ByteBits * q \in Nat
    BY ByteAssumption, SMT
  <2> QED BY <1>0, <1>2, <1>3, <1>4, <2>1, ByteAssumption, SMT
<1>8. t - q \in Int
  BY <1>5, SMT
<1>9. (passed + r) % ByteBits = 0
  BY <1>6, <1>7, <1>8, NothingOver, ByteAssumption
<1> QED BY <1>2, <1>4, <1>7, <1>9

\* A skip drops what is there, and ends when that was enough.
LEMMA SkipDropPromises ==
    ASSUME PromiseInv, BitInv', SkipDrops
    PROVE  PromiseInv'
<1>0. /\ call \in Calls /\ call.n \in Nat /\ call.left \in Nat /\ call.from \in Nat
      /\ remaining \in Nat /\ remaining <= Width /\ passed \in Nat /\ taken \in Nat
      /\ passed + remaining = taken
  BY CallTyped DEF PromiseInv
<1>1. /\ call.at = "skip" /\ call.op \in {"Skip", "Align"} /\ call.left <= call.n
      /\ passed = call.from + (call.n - call.left)
      /\ call.op = "Align" => call.left = remaining % ByteBits /\ call.n = call.left
      /\ result = NoResult
  BY DEF SkipDrops, PromiseInv, UnderWay
<1>2. PICK len \in Nat : len = IF call.left > remaining THEN remaining ELSE call.left
  BY <1>0
<1>3. /\ Drop(len) /\ taken' = taken
      /\ IF call.left = len THEN Returns(NoBits, "nil")
         ELSE call' = [call EXCEPT !.left = @ - len, !.at = "refill"] /\ UNCHANGED result
  BY <1>2, Zenon DEF SkipDrops
<1>4. WholeBytes' /\ Shaped'
  <2>1. buffer' = [s \in 1 .. Width |-> IF s + len <= Width THEN buffer[s + len] ELSE {}]
    BY <1>3 DEF Drop
  <2> QED BY <1>3, <2>1 DEF PromiseInv, WholeBytes, Shaped, Width
<1>5. remaining' = remaining - len /\ passed' = passed + len
  BY <1>3 DEF Drop
<1>6. CASE call.left = len
  <2>1. /\ result' = [op |-> call.op, n |-> call.n, from |-> call.from, bits |-> NoBits, err |-> "nil"]
        /\ call' = Idle
    BY <1>3, <1>6 DEF Returns
  <2>2. /\ result'.op = call.op /\ result'.n = call.n /\ result'.from = call.from
        /\ result'.err = "nil"
    BY <2>1
  <2>3. passed' = call.from + call.n
    BY <1>0, <1>1, <1>5, <1>6, SMT
  <2>4. UnderWay'
    BY <2>1 DEF UnderWay, Idle
  <2>5. ResultIsTheStream'
    <3>1. result'.op \notin {"Peek", "Peek1", "ReadBytes", "Read", "Read1"}
      BY <1>1, <2>2
    <3> QED BY <2>2, <2>3, <3>1 DEF ResultIsTheStream
  <2>6. EofOnlyAtTheEnd'
    BY <2>2 DEF EofOnlyAtTheEnd
  <2>7. AlignReachesByteBoundary'
    <3>1. ASSUME call.op = "Align"
          PROVE  passed' % ByteBits = 0 /\ passed' - call.from \in 0 .. ByteBits - 1
      <4>1. PICK r \in 0 .. ByteBits - 1 : r = remaining % ByteBits
        BY ByteBoundary DEF PromiseInv
      <4>2. call.n = r /\ len = r
        BY <1>1, <1>6, <3>1, <4>1
      <4>3. passed' = passed + r /\ passed' - call.from = r
        BY <1>0, <1>5, <2>3, <4>2, ByteAssumption, SMT
      <4>4. (passed + r) % ByteBits = 0
        BY <4>1, ByteBoundary DEF PromiseInv
      <4> QED BY <4>3, <4>4
    <3> QED BY <2>2, <3>1 DEF AlignReachesByteBoundary
  <2> QED BY <1>4, <2>4, <2>5, <2>6, <2>7 DEF PromiseInv, CallsAsPromised
<1>7. CASE call.left # len
  <2>1. call' = [call EXCEPT !.left = @ - len, !.at = "refill"] /\ result' = NoResult
    BY <1>1, <1>3, <1>7
  <2>2. /\ call'.op = call.op /\ call'.n = call.n /\ call'.from = call.from
        /\ call'.left = call.left - len /\ call'.at = "refill"
    BY <1>0, <2>1 DEF Calls
  <2>3. len = remaining /\ call.left > remaining
    BY <1>0, <1>2, <1>7
  <2>4. call.op = "Skip"
    <3>1. remaining % ByteBits <= remaining /\ remaining % ByteBits \in Int
      BY ByteBoundary, ByteAssumption DEF PromiseInv
    <3> QED BY <1>0, <1>1, <2>3, <3>1
  <2>5. /\ call.left - len > 0 /\ call.left - len <= call.n /\ remaining' = 0
        /\ passed' = call.from + (call.n - (call.left - len))
    BY <1>0, <1>1, <1>5, <2>3, SMT
  <2>6. UnderWay'
    BY <2>1, <2>2, <2>4, <2>5 DEF UnderWay
  <2> QED BY <1>4, <2>1, <2>6, StillUnderWay
<1> QED BY <1>6, <1>7

\* A skip beyond the end leaves the caller at the end.
LEMMA SkipFailPromises ==
    ASSUME PromiseInv, BitInv', SkipFails
    PROVE  PromiseInv'
<1>0. /\ call \in Calls /\ call.n \in Nat /\ call.left \in Nat /\ call.from \in Nat
      /\ remaining \in Nat /\ remaining <= Width /\ passed \in Nat /\ taken \in Nat
      /\ passed + remaining = taken
  BY CallTyped DEF PromiseInv
<1>1. /\ call.op = "Skip" /\ call.left > 0 /\ remaining = 0
      /\ passed = call.from + (call.n - call.left)
  BY DEF SkipFails, PromiseInv, UnderWay
<1>2. UNCHANGED <<taken, buffer, remaining, passed>>
  BY DEF SkipFails
<1>3. taken = InputBits
  <2>1. Room # 0 /\ {k \in 1 .. Room : taken + k * ByteBits <= InputBits} = {}
    BY DEF SkipFails, fillFails, Given
  <2>2. Room \in Nat
    <3>1. Width - remaining \in Nat
      BY <1>0, WidthIsNat, SMT
    <3> QED BY <3>1, DivMod, ByteAssumption DEF Room
  <2>3. Room \in Nat \ {0}
    BY <2>1, <2>2
  <2> QED BY <2>1, <2>3, AllTaken DEF PromiseInv
<1>4. /\ result' = [op |-> call.op, n |-> call.n, from |-> call.from, bits |-> NoBits, err |-> "EOF"]
      /\ call' = Idle
  BY DEF SkipFails, Returns
<1>5. /\ result'.op = "Skip" /\ result'.n = call.n /\ result'.from = call.from
      /\ result'.err = "EOF"
  BY <1>1, <1>4
<1>6. Shaped' /\ WholeBytes'
  BY <1>2 DEF PromiseInv, Shaped, WholeBytes, Width
<1>7. UnderWay'
  BY <1>4 DEF UnderWay, Idle
<1>8. EofOnlyAtTheEnd'
  <2>1. passed' = InputBits /\ call.from + call.n > InputBits
    BY <1>0, <1>1, <1>2, <1>3, SMT
  <2> QED BY <1>5, <2>1 DEF EofOnlyAtTheEnd, InputBits
<1>9. ResultIsTheStream' /\ AlignReachesByteBoundary'
  BY <1>5 DEF ResultIsTheStream, AlignReachesByteBoundary
<1> QED BY <1>6, <1>7, <1>8, <1>9 DEF PromiseInv, CallsAsPromised

\* Read drops the odd bits, hands out the whole bytes of the buffer and, when
\* these are all, goes on where the io.Reader is.
LEMMA ReadPromises ==
    ASSUME PromiseInv, BitInv', NEW p \in Nat, ReadBytes(p)
    PROVE  PromiseInv'
<1>0. /\ remaining \in Nat /\ remaining <= Width /\ passed \in Nat /\ taken \in Nat
      /\ passed + remaining = taken
  BY CallTyped DEF PromiseInv
<1>1. PICK off \in 0 .. ByteBits - 1 : off = remaining % ByteBits
  BY ByteBoundary DEF PromiseInv
<1>2. PICK fit \in Nat : fit = remaining \div ByteBits
  BY <1>0, DivMod, ByteAssumption
<1>3. PICK count \in Nat : count = IF fit > p THEN p ELSE fit
  OBVIOUS
<1>4. PICK got \in Nat : got = count * ByteBits
  BY ByteAssumption, SMT
<1> DEFINE more == {k \in 1 .. p - count : taken + k * ByteBits <= InputBits}
<1>5. PICK k \in IF more = {} THEN {0} ELSE more :
         /\ buffer' = [s \in 1 .. Width |-> IF s + off + got <= Width THEN buffer[s + off + got] ELSE {}]
         /\ taken' = taken + k * ByteBits
         /\ passed' = passed + off + got + k * ByteBits
         /\ result' = [op |-> "ReadBytes", n |-> got + k * ByteBits, from |-> passed + off,
                       bits |-> SubSeq(buffer, off + 1, off + got) \o [i \in 1 .. k * ByteBits |-> {taken + i}],
                       err |-> IF count < p /\ k = 0 THEN "EOF" ELSE "nil"]
  BY <1>1, <1>2, <1>3, <1>4, Zenon DEF ReadBytes
<1>6. k \in Nat /\ (k = 0 \/ (k <= p - count /\ taken + k * ByteBits <= InputBits)) /\ (k = 0 => more = {})
  <2>1. k \in IF more = {} THEN {0} ELSE more
    BY <1>5, Zenon
  <2> QED BY <2>1
<1>7. PICK own \in Nat : own = k * ByteBits
  BY <1>6, ByteAssumption, SMT
<1>8. call' = call /\ call.at = "idle"
  BY DEF ReadBytes, Idle
<1>9. off + got <= remaining /\ (count = fit => off + got = remaining)
  <2>1. remaining = ByteBits * fit + off
    BY <1>0, <1>1, <1>2, DivMod, ByteAssumption
  <2>2. count <= fit
    BY <1>3
  <2>3. count * ByteBits <= fit * ByteBits /\ fit * ByteBits = ByteBits * fit
    BY <2>2, ByteAssumption, SMT
  <2>4. ByteBits * fit \in Nat
    BY ByteAssumption, SMT
  <2>5. count = fit => got = ByteBits * fit
    BY <1>4, <2>3
  <2> QED BY <1>1, <1>4, <2>1, <2>3, <2>4, <2>5, ByteAssumption, SMT
<1>10. k = 0 \/ passed + off + got = taken
  <2>1. k # 0 => count = fit
    BY <1>3, <1>6
  <2> QED BY <1>0, <1>1, <1>9, <2>1, ByteAssumption, SMT
<1>11. (passed + off) % ByteBits = 0
  BY <1>1, ByteBoundary DEF PromiseInv
<1>12. Shaped' /\ WholeBytes'
  <2>1. Shaped'
    BY <1>5 DEF Shaped, Width
  <2>2. WholeBytes'
    BY <1>5, <1>6, TakesWholeBytes DEF PromiseInv
  <2> QED BY <2>1, <2>2
<1>13. UnderWay'
  BY <1>8 DEF UnderWay
<1>14. SubSeq(buffer, off + 1, off + got) = [i \in 1 .. got |-> {passed + off + i}]
  <2>1. off \in Nat
    BY <1>1, ByteAssumption
  <2> QED BY <1>9, <2>1, Stretch DEF PromiseInv
<1> DEFINE first == [i \in 1 .. got |-> {passed + off + i}]
           second == [i \in 1 .. own |-> {taken + i}]
           whole == [i \in 1 .. got + own |-> {passed + off + i}]
<1>15. first \o second = whole
  <2>0. passed + off \in Nat
    BY <1>0, <1>1, ByteAssumption
  <2>1. first \in Seq(SUBSET Nat) /\ Len(first) = got
    <3>1. ASSUME NEW i \in 1 .. got PROVE {passed + off + i} \in SUBSET Nat
      <4>1. passed + off + i \in Nat
        BY <2>0
      <4> QED BY <4>1
    <3>2. first \in [1 .. got -> SUBSET Nat]
      BY <3>1
    <3> HIDE DEF first
    <3>3. first \in Seq(SUBSET Nat)
      BY <3>2, SeqDef
    <3>4. Len(first) \in Nat /\ DOMAIN first = 1 .. Len(first)
      BY <3>3, LenProperties
    <3> QED BY <3>2, <3>3, <3>4
  <2>2. second \in Seq(SUBSET Nat) /\ Len(second) = own
    <3>1. ASSUME NEW i \in 1 .. own PROVE {taken + i} \in SUBSET Nat
      <4>1. taken + i \in Nat
        BY <1>0
      <4> QED BY <4>1
    <3>2. second \in [1 .. own -> SUBSET Nat]
      BY <3>1
    <3> HIDE DEF second
    <3>3. second \in Seq(SUBSET Nat)
      BY <3>2, SeqDef
    <3>4. Len(second) \in Nat /\ DOMAIN second = 1 .. Len(second)
      BY <3>3, LenProperties
    <3> QED BY <3>2, <3>3, <3>4
  <2>3. \A i \in 1 .. got : first[i] = {passed + off + i}
    OBVIOUS
  <2>4. \A i \in 1 .. own : second[i] = {taken + i}
    OBVIOUS
  <2> DEFINE both == first \o second
  <2> HIDE DEF first, second
  <2>5. /\ both \in Seq(SUBSET Nat) /\ Len(both) = got + own
        /\ \A i \in 1 .. got + own : both[i] = IF i <= got THEN first[i] ELSE second[i - got]
    BY <2>1, <2>2, ConcatProperties
  <2> HIDE DEF both
  <2>6. ASSUME NEW i \in 1 .. got + own PROVE both[i] = {passed + off + i}
    <3>1. CASE i <= got
      BY <2>3, <2>5, <3>1
    <3>2. CASE ~(i <= got)
      <4>1. i - got \in 1 .. own
        BY <3>2
      <4>2. k # 0
        BY <1>7, <4>1, ByteAssumption
      <4>3. taken + (i - got) = passed + off + i
        <5>1. off \in Int /\ i \in Int
          BY <1>1, <1>7
        <5>2. passed + off + got = taken
          BY <1>10, <4>2
        <5> QED BY <1>0, <1>4, <5>1, <5>2, SMT
      <4> QED BY <2>4, <2>5, <3>2, <4>1, <4>3
    <3> QED BY <3>1, <3>2
  <2>7. both = [i \in 1 .. got + own |-> both[i]]
    <3>1. DOMAIN both = 1 .. got + own
      BY <2>5, LenProperties
    <3>2. both \in [1 .. got + own -> SUBSET Nat]
      BY <2>5, LenProperties
    <3> QED BY <3>2
  <2>8. both = whole
    BY <2>6, <2>7
  <2> QED BY <2>8 DEF both
<1>16. PICK e : e = IF count < p /\ k = 0 THEN "EOF" ELSE "nil"
  OBVIOUS
<1>17. result' = [op |-> "ReadBytes", n |-> got + own, from |-> passed + off, bits |-> whole, err |-> e]
  <2> HIDE DEF more, whole
  <2>1. SubSeq(buffer, off + 1, off + got) \o [i \in 1 .. own |-> {taken + i}] = whole
    BY <1>14, <1>15
  <2> QED BY <1>5, <1>7, <1>16, <2>1, Zenon
<1>18. /\ result'.op = "ReadBytes" /\ result'.n = got + own /\ result'.from = passed + off
       /\ result'.bits = whole /\ result'.err = e
  <2> HIDE DEF whole
  <2> QED BY <1>17
<1>19. passed' = passed + off + got + own
  BY <1>5, <1>7
<1>20. ResultIsTheStream'
  <2>1. passed' = result'.from + result'.n
    BY <1>0, <1>1, <1>18, <1>19, ByteAssumption
  <2>2. result'.bits = [i \in 1 .. result'.n |-> {result'.from + i}]
    BY <1>18
  <2>3. result'.from % ByteBits = 0
    BY <1>11, <1>18
  <2>4. result'.op \notin {"Peek", "Peek1"}
    BY <1>18
  <2> HIDE DEF whole
  <2>5. passed' = result'.from + (IF result'.op \in {"Peek", "Peek1"} THEN 0 ELSE result'.n)
    BY <2>1, <2>4
  <2> QED BY <2>2, <2>3, <2>5 DEF ResultIsTheStream
<1>21. EofOnlyAtTheEnd'
  <2>1. ASSUME e = "EOF" PROVE passed' = InputBits
    <3>1. count < p /\ k = 0
      BY <1>16, <2>1
    <3>2. more = {} /\ p - count \in Nat \ {0}
      BY <1>6, <3>1
    <3>3. taken = InputBits
      BY <3>2, AllTaken DEF PromiseInv
    <3>4. count = fit
      BY <1>3, <3>1
    <3>5. own = 0
      BY <1>7, <3>1, ByteAssumption
    <3> QED BY <1>0, <1>1, <1>9, <1>19, <3>3, <3>4, <3>5, ByteAssumption, SMT
  <2> HIDE DEF whole
  <2>2. result'.op = "ReadBytes" /\ result'.err = e
    BY <1>18
  <2> QED BY <2>1, <2>2 DEF EofOnlyAtTheEnd, InputBits
<1>22. AlignReachesByteBoundary'
  BY <1>18 DEF AlignReachesByteBoundary
<1> QED BY <1>12, <1>13, <1>20, <1>21, <1>22 DEF PromiseInv, CallsAsPromised

-----------------------------------------------------------------------------
LEMMA PromiseInit == Init => PromiseInv
<1> SUFFICES ASSUME Init PROVE PromiseInv
  OBVIOUS
<1>1. BitInv
  BY BitInit
<1>2. Shaped
  BY DEF Init, Shaped
<1>3. WholeBytes
  <2>1. 0 \in 0 .. InputBytes /\ 0 = 0 * ByteBits
    BY BoundsAssumption, ByteAssumption
  <2> QED BY <2>1 DEF Init, WholeBytes
<1>4. UnderWay
  BY DEF Init, UnderWay, Idle
<1>5. CallsAsPromised
  BY NoPromise DEF Init
<1> QED BY <1>1, <1>2, <1>3, <1>4, <1>5 DEF PromiseInv

LEMMA PromiseNext == PromiseInv /\ [Next]_vars => PromiseInv'
<1> SUFFICES ASSUME PromiseInv, [Next]_vars PROVE PromiseInv'
  OBVIOUS
<1>0. BitInv'
  BY BitNext DEF PromiseInv
<1>1. CASE \E n \in 0 .. Width + 1 : Begin("Read", n) \/ Begin("Peek", n)
  <2>1. PICK n \in 0 .. Width + 1 : Begin("Read", n) \/ Begin("Peek", n)
    BY <1>1
  <2>2. n \in Nat
    BY WidthIsNat
  <2> QED BY <1>0, <2>1, <2>2, BeginPromises
<1>2. CASE Begin("Read1", 1) \/ Begin("Peek1", 1)
  BY <1>0, <1>2, BeginPromises
<1>3. CASE (\E n \in 0 .. MaxSkip : Skip(n)) \/ Align
  BY <1>0, <1>3, BoundsAssumption, SkipPromises
<1>4. CASE \E p \in 0 .. MaxRead : ReadBytes(p)
  BY <1>0, <1>4, BoundsAssumption, ReadPromises
<1>5. CASE PeekFills \/ SkipFills
  BY <1>0, <1>5, FillsPromise
<1>6. CASE PeekFails
  BY <1>0, <1>6, PeekFailPromises
<1>7. CASE PeekEnds
  BY <1>0, <1>7, PeekEndPromises
<1>8. CASE SkipDrops
  BY <1>0, <1>8, SkipDropPromises
<1>9. CASE SkipFails
  BY <1>0, <1>9, SkipFailPromises
<1>10. CASE UNCHANGED vars
  BY <1>0, <1>10
     DEF vars, PromiseInv, Shaped, WholeBytes, UnderWay, CallsAsPromised, ResultIsTheStream,
         EofOnlyAtTheEnd, AlignReachesByteBoundary, AtTheEnd, Width, InputBits
<1> QED
  BY <1>1, <1>2, <1>3, <1>4, <1>5, <1>6, <1>7, <1>8, <1>9, <1>10 DEF Next, Step

(***************************************************************************)
(* Whatever the io.Reader gives at a time, for every length of a byte and  *)
(* of the stream: a Read, Peek, Skip or Align of bitreader.go that returns *)
(* no error has done what was asked, and an end of the stream is reported  *)
(* only when it is one and costs a read or peek nothing.                   *)
(***************************************************************************)
THEOREM PromisesTheorem == Spec => []CallsAsPromised
<1>1. PromiseInv => CallsAsPromised
  BY DEF PromiseInv
<1> QED BY <1>1, PromiseInit, PromiseNext, PTL DEF Spec
=============================================================================
