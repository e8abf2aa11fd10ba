--------------------------- MODULE GopBlockProofs ---------------------------
(***************************************************************************)
(* Type correctness and exclusive ownership of the block allocator, for    *)
(* every number of items and goroutines and every quota.                   *)
(***************************************************************************)
EXTENDS GopBlock, FiniteSetTheorems, FunctionTheorems, TLAPS

\* A goroutine that has decided to release an item still holds it: between the
\* load and the store of the flag nobody else can have taken it.
Releasing == \A g \in Users : at[g] = "release" => idx[g] \in held[g]

IInv == TypeOK /\ OneHolder /\ Releasing

\* A new block has no holders and nothing is being released.
LEMMA InitIInv == Init => IInv
<1> SUFFICES ASSUME Init PROVE IInv OBVIOUS
<1> USE CountAssumption DEF Init, Items, NotUsed, NoIndex
<1>1. rw \in [Items -> [len : Nat, cap : Nat]]
  <2>1. \A i \in Items : (ItemCount - i) * ItemSize \in Nat
    <3> SUFFICES ASSUME NEW i \in Items PROVE (ItemCount - i) * ItemSize \in Nat OBVIOUS
    <3>1. ItemCount - i \in Nat BY DEF Items
    <3> QED BY <3>1
  <2> QED BY <2>1
<1>2. TypeOK
  <2>1. count \in [i : {NoIndex} \cup (0 .. ItemCount), n : Nat] BY DEF NotCounting
  <2>2. idx \in [Users -> 0 .. ItemCount] /\ todo \in [Users -> 0 .. ItemSize] OBVIOUS
  <2>3. flag \in [Items -> Items \cup {NotUsed}] /\ \A i \in Items : flag[i] \in {i, NotUsed}
    OBVIOUS
  <2>4. held \in [Users -> SUBSET Items] OBVIOUS
  <2> QED BY <1>1, <2>1, <2>2, <2>3, <2>4 DEF TypeOK
<1>3. OneHolder BY DEF OneHolder
<1>4. Releasing BY DEF Releasing
<1> QED BY <1>2, <1>3, <1>4 DEF IInv

\* A write keeps the buffers' lengths and capacities natural numbers.
LEMMA BufferWriteType ==
    ASSUME TypeOK, NEW i \in Items, NEW n \in Nat
    PROVE BufferWrite(i, n) \in [Items -> [len : Nat, cap : Nat]]
<1>1. rw[i].len \in Nat /\ rw[i].cap \in Nat BY DEF TypeOK
<1>2. rw[i].len + n \in Nat /\ 2 * rw[i].cap + n \in Nat BY <1>1
<1>3. rw \in [Items -> [len : Nat, cap : Nat]] BY DEF TypeOK
<1> QED BY <1>1, <1>2, <1>3 DEF BufferWrite

\* Every load, store and compare-and-swap keeps one holder per item.
LEMMA NextIInv == IInv /\ [Next]_vars => IInv'
<1> SUFFICES ASSUME IInv, [Next]_vars PROVE IInv' OBVIOUS
<1> USE CountAssumption DEF IInv
<1>a. /\ TypeOK /\ OneHolder /\ Releasing OBVIOUS
<1>i. Items \subseteq Nat /\ NotUsed \notin Items /\ NoIndex \notin Items
  BY DEF Items, NotUsed, NoIndex
<1>u. Used \subseteq Items BY DEF Used
<1>1. ASSUME NEW g \in Users, StartAlloc(g) PROVE IInv'
  <2> USE <1>1 DEF StartAlloc
  <2>1. 0 \in 0 .. ItemCount OBVIOUS
  <2>2. TypeOK' BY <2>1 DEF TypeOK, countVars
  <2>3. OneHolder' BY DEF OneHolder
  <2>4. Releasing' BY DEF Releasing, TypeOK
  <2> QED BY <2>2, <2>3, <2>4
<1>2. ASSUME NEW g \in Users, Alloc(g) PROVE IInv'
  <2> DEFINE i == idx[g]
  <2>1. i \in 0 .. ItemCount BY DEF TypeOK
  <2>2. CASE Exhausted(i)
    <3>1. /\ at' = [at EXCEPT ![g] = "idle"]
          /\ noItem' \in {noItem, noItem \cup {g}}
          /\ panicked' \in BOOLEAN
          /\ UNCHANGED <<flag, idx, held, leaked, rw, always, ever, todo, writes, count>>
      BY <1>2, <2>2 DEF Alloc, TypeOK
    <3>2. TypeOK' BY <3>1 DEF TypeOK
    <3>3. OneHolder' BY <3>1 DEF OneHolder
    <3>4. Releasing' BY <3>1 DEF Releasing, TypeOK
    <3> QED BY <3>2, <3>3, <3>4
  <2>3. CASE ~Exhausted(i) /\ Cas(i)
    <3>1. i \in Items BY <2>1, <2>3 DEF Exhausted, Items
    <3>2. /\ at' = [at EXCEPT ![g] = "idle"]
          /\ flag' = [flag EXCEPT ![i] = i]
          /\ always' = always \cap (Used \cup {i}) /\ ever' = ever \cup (Used \cup {i})
          /\ UNCHANGED <<idx, noItem, todo, writes, count, panicked>>
      BY <1>2, <2>3 DEF Alloc, Observe, Mark
    <3>3. at[g] = "scan" \/ at[g] = "chain" BY <1>2 DEF Alloc
    <3>4. flag[i] = NotUsed BY <2>3 DEF Cas
    <3>5. i \notin leaked /\ \A h \in Users : i \notin held[h]
      BY <3>1, <3>4 DEF OneHolder
    <3>6. CASE at[g] = "scan"
      <4>1. held' = [held EXCEPT ![g] = @ \cup {i}] /\ leaked' = leaked /\ rw' = rw
        BY <1>2, <2>3, <3>6 DEF Alloc
      <4>2. TypeOK' BY <3>1, <3>2, <4>1, <1>u DEF TypeOK
      <4>3. OneHolder' BY <3>1, <3>2, <3>4, <3>5, <4>1, <1>i DEF OneHolder, TypeOK
      <4>4. Releasing' BY <3>2, <4>1 DEF Releasing, TypeOK
      <4> QED BY <4>2, <4>3, <4>4
    <3>7. CASE at[g] = "chain"
      <4>1. leaked' = leaked \cup {i} /\ rw' = BufferWrite(i, todo[g]) /\ held' = held
        BY <1>2, <2>3, <3>7 DEF Alloc
      <4>2. todo[g] \in Nat BY DEF TypeOK
      <4>3. rw' \in [Items -> [len : Nat, cap : Nat]] BY <3>1, <4>1, <4>2, BufferWriteType
      <4>4. TypeOK' BY <3>1, <3>2, <4>1, <4>3, <1>u DEF TypeOK
      <4>5. OneHolder' BY <3>1, <3>2, <3>4, <3>5, <4>1, <1>i DEF OneHolder, TypeOK
      <4>6. Releasing' BY <3>2, <4>1 DEF Releasing, TypeOK
      <4> QED BY <4>4, <4>5, <4>6
    <3> QED BY <3>3, <3>6, <3>7
  <2>4. CASE ~Exhausted(i) /\ ~Cas(i)
    <3>1. i + 1 \in 0 .. ItemCount BY <2>1, <2>4 DEF Exhausted
    <3>2. /\ idx' = [idx EXCEPT ![g] = i + 1]
          /\ UNCHANGED <<flag, at, held, leaked, noItem, rw, always, ever, panicked,
                         todo, writes, count>>
      BY <1>2, <2>4 DEF Alloc
    <3>3. TypeOK' BY <3>1, <3>2 DEF TypeOK
    <3>4. OneHolder' BY <3>2 DEF OneHolder
    <3>5. at[g] # "release" BY <1>2 DEF Alloc
    <3>6. Releasing' BY <3>2, <3>5 DEF Releasing, TypeOK
    <3> QED BY <3>3, <3>4, <3>6
  <2> QED BY <2>2, <2>3, <2>4
<1>3. ASSUME NEW g \in Users, NEW i \in Items, StartRelease(g, i) PROVE IInv'
  <2>1. flag[i] \in Items /\ i \in held[g] BY <1>3 DEF StartRelease, OneHolder, TypeOK
  <2>2. flag[i] > NotUsed BY <2>1 DEF Items, NotUsed
  <2>3. /\ at' = [at EXCEPT ![g] = "release"]
        /\ idx' = [idx EXCEPT ![g] = i]
        /\ UNCHANGED <<flag, todo, held, leaked, noItem, rw, writes, count, always, ever, panicked>>
    BY <1>3, <2>2 DEF StartRelease, countVars
  <2>4. i \in 0 .. ItemCount BY DEF Items
  <2>5. TypeOK' BY <2>3, <2>4 DEF TypeOK
  <2>6. OneHolder' BY <2>3 DEF OneHolder
  <2>7. Releasing' BY <2>1, <2>3 DEF Releasing, TypeOK
  <2> QED BY <2>5, <2>6, <2>7
<1>4. ASSUME NEW g \in Users, Release(g) PROVE IInv'
  <2> DEFINE i == idx[g]
  <2>1. i \in held[g] /\ i \in Items BY <1>4 DEF Release, Releasing, TypeOK
  <2>2. /\ flag' = [flag EXCEPT ![i] = NotUsed]
        /\ held' = [held EXCEPT ![g] = @ \ {i}]
        /\ at' = [at EXCEPT ![g] = "idle"]
        /\ always' = always \cap (Used \ {i}) /\ ever' = ever \cup (Used \ {i})
        /\ UNCHANGED <<idx, todo, leaked, noItem, rw, writes, count, panicked>>
    BY <1>4 DEF Release, Released, Observe
  <2>3. TypeOK' BY <2>1, <2>2, <1>u DEF TypeOK
  <2>4. i \notin leaked /\ \A h \in Users \ {g} : i \notin held[h] BY <2>1 DEF OneHolder
  <2>5. OneHolder' BY <2>1, <2>2, <2>4 DEF OneHolder, TypeOK
  <2>6. Releasing' BY <2>2 DEF Releasing, TypeOK
  <2> QED BY <2>3, <2>5, <2>6
<1>5. ASSUME NEW g \in Users, NEW i \in Items, NEW n \in 1 .. ItemSize, Write(g, i, n)
      PROVE IInv'
  <2>1. n \in Nat /\ n \in 0 .. ItemSize OBVIOUS
  <2>2. /\ writes' = writes + 1
        /\ at[g] = "idle"
        /\ UNCHANGED <<flag, held, leaked, noItem, count, always, ever, panicked>>
    BY <1>5 DEF Write, countVars
  <2>3. CASE n > rw[i].cap - rw[i].len
    <3>1. /\ at' = [at EXCEPT ![g] = "chain"]
          /\ idx' = [idx EXCEPT ![g] = 0]
          /\ todo' = [todo EXCEPT ![g] = n]
          /\ rw' = rw
      BY <1>5, <2>3 DEF Write
    <3>2. 0 \in 0 .. ItemCount OBVIOUS
    <3>3. TypeOK' BY <2>1, <2>2, <3>1, <3>2 DEF TypeOK
    <3>4. OneHolder' BY <2>2 DEF OneHolder
    <3>5. Releasing' BY <2>2, <3>1 DEF Releasing, TypeOK
    <3> QED BY <3>3, <3>4, <3>5
  <2>4. CASE ~(n > rw[i].cap - rw[i].len)
    <3>1. rw' = BufferWrite(i, n) /\ UNCHANGED <<at, idx, todo>> BY <1>5, <2>4 DEF Write
    <3>2. rw' \in [Items -> [len : Nat, cap : Nat]] BY <2>1, <3>1, BufferWriteType
    <3>3. TypeOK' BY <2>2, <3>1, <3>2 DEF TypeOK
    <3>4. OneHolder' BY <2>2 DEF OneHolder
    <3>5. Releasing' BY <2>2, <3>1 DEF Releasing, TypeOK
    <3> QED BY <3>3, <3>4, <3>5
  <2> QED BY <2>3, <2>4
<1>6. ASSUME StartCount PROVE IInv'
  <2>1. /\ count' = [i |-> 0, n |-> 0] /\ always' = Used /\ ever' = Used
        /\ UNCHANGED <<flag, at, idx, todo, held, leaked, noItem, rw, writes, panicked>>
    BY <1>6 DEF StartCount, allocVars
  <2>2. TypeOK' BY <2>1, <1>u DEF TypeOK
  <2>3. OneHolder' BY <2>1 DEF OneHolder
  <2>4. Releasing' BY <2>1 DEF Releasing
  <2> QED BY <2>2, <2>3, <2>4
<1>7. ASSUME CountOne PROVE IInv'
  <2>1. /\ count' = [i |-> count.i + 1, n |-> count.n + IF Counts(count.i) THEN 1 ELSE 0]
        /\ count.i \in Items
        /\ UNCHANGED <<flag, at, idx, todo, held, leaked, noItem, rw, writes, always, ever, panicked>>
    BY <1>7 DEF CountOne, allocVars
  <2>2. count.i + 1 \in 0 .. ItemCount /\ count.n \in Nat BY <2>1 DEF Items, TypeOK
  <2>3. count' \in [i : {NoIndex} \cup (0 .. ItemCount), n : Nat] BY <2>1, <2>2
  <2>4. TypeOK' BY <2>1, <2>3 DEF TypeOK
  <2>5. OneHolder' BY <2>1 DEF OneHolder
  <2>6. Releasing' BY <2>1 DEF Releasing
  <2> QED BY <2>4, <2>5, <2>6
<1>8. CASE UNCHANGED vars
  <2>1. UNCHANGED <<flag, at, idx, todo, held, leaked, noItem, rw, writes, count, always, ever, panicked>>
    BY <1>8 DEF vars, allocVars, countVars
  <2>2. TypeOK' BY <2>1 DEF TypeOK
  <2>3. OneHolder' BY <2>1 DEF OneHolder
  <2>4. Releasing' BY <2>1 DEF Releasing
  <2> QED BY <2>2, <2>3, <2>4
<1> QED BY <1>1, <1>2, <1>3, <1>4, <1>5, <1>6, <1>7, <1>8 DEF Next

\* The allocator's state keeps its type: every flag is item_not_used or the
\* index of its own item, whatever the goroutines do.
THEOREM AllocatorTypeCorrect == Spec => []TypeOK
<1>1. IInv => TypeOK BY DEF IInv
<1> QED BY InitIInv, NextIInv, <1>1, PTL DEF Spec

\* An item allocated by compare-and-swap belongs to one goroutine until that
\* goroutine has released it, and is flagged exactly as long.
THEOREM ItemsHaveOneHolder == Spec => []OneHolder
<1>1. IInv => OneHolder BY DEF IInv
<1> QED BY InitIInv, NextIInv, <1>1, PTL DEF Spec

(***************************************************************************)
(* usedCount.  What it has counted so far lies between the items below its *)
(* index that were used all the time and those that were used at some      *)
(* time; the two sets frame the set of used items at every moment.         *)
(***************************************************************************)
Below(n) == {i \in Items : i < n}
Framed == always \subseteq Used /\ Used \subseteq ever
CountedSoFar ==
    count.i # NoIndex =>
        /\ Cardinality(always \cap Below(count.i)) <= count.n
        /\ count.n <= Cardinality(ever \cap Below(count.i))
CountInv == Framed /\ CountedSoFar

\* The items are finitely many, and so are the sets of items.
LEMMA ItemsFinite ==
    ASSUME NEW S \in SUBSET Items
    PROVE IsFiniteSet(S) /\ Cardinality(S) \in Nat
<1>1. IsFiniteSet(Items) BY CountAssumption, FS_Interval DEF Items
<1>2. IsFiniteSet(S) BY <1>1, FS_Subset
<1> QED BY <1>2, FS_CardinalityType

\* A smaller set of items has no more elements.
LEMMA FewerItems ==
    ASSUME NEW S \in SUBSET Items, NEW T \in SUBSET S
    PROVE Cardinality(T) <= Cardinality(S)
  BY ItemsFinite, FS_Subset

\* Steps that leave the count alone, during which fewer items stay used all
\* the time and more become used at some time.
LEMMA CountFrame ==
    ASSUME TypeOK, CountedSoFar, count' = count, always' \subseteq always,
           ever \subseteq ever', ever' \subseteq Items
    PROVE CountedSoFar'
<1> DEFINE B == Below(count.i)
<1>1. always \subseteq Items /\ ever \subseteq Items /\ count.n \in Nat BY DEF TypeOK
<1>2. /\ Cardinality(always' \cap B) <= Cardinality(always \cap B)
      /\ Cardinality(ever \cap B) <= Cardinality(ever' \cap B)
  BY <1>1, FewerItems
<1>3. /\ Cardinality(always' \cap B) \in Nat /\ Cardinality(always \cap B) \in Nat
      /\ Cardinality(ever \cap B) \in Nat /\ Cardinality(ever' \cap B) \in Nat
  BY <1>1, ItemsFinite
<1>4. Below(count.i)' = B BY DEF Below
<1> HIDE DEF B
<1> QED BY <1>1, <1>2, <1>3, <1>4 DEF CountedSoFar

\* One turn of the loop of usedCount.
LEMMA CountTurn ==
    ASSUME TypeOK, CountInv, CountOne
    PROVE CountInv'
<1> DEFINE i == count.i
           A == always \cap Below(i)
           E == ever \cap Below(i)
<1>1. /\ i \in Items /\ i \in Nat /\ count.n \in Nat /\ i # NoIndex
      /\ UNCHANGED <<flag, always, ever>>
      /\ count' = [i |-> i + 1, n |-> count.n + IF Counts(i) THEN 1 ELSE 0]
  BY DEF CountOne, TypeOK, Items, NoIndex
<1>2. Framed' BY <1>1 DEF CountInv, Framed, Used
<1>3. Below(i + 1) = Below(i) \cup {i} BY <1>1 DEF Below, Items
<1>4. A \in SUBSET Items /\ E \in SUBSET Items /\ i \notin A /\ i \notin E
  BY DEF TypeOK, Below, Items
<1>5. /\ Cardinality(A) \in Nat /\ Cardinality(E) \in Nat
      /\ Cardinality(A \cup {i}) = Cardinality(A) + 1
      /\ Cardinality(E \cup {i}) = Cardinality(E) + 1
  BY <1>4, ItemsFinite, FS_AddElement
<1>6. Cardinality(A) <= count.n /\ count.n <= Cardinality(E)
  BY <1>1 DEF CountInv, CountedSoFar
<1>7. always \cap Below(i + 1) \in {A, A \cup {i}} BY <1>3
<1>8. ever \cap Below(i + 1) \in {E, E \cup {i}} BY <1>3
<1>9. (Counts(i) => i \in ever) /\ (~Counts(i) => i \notin always)
  <2>1. Counts(i) <=> i \in Used BY <1>1 DEF Counts, Used, NotUsed, TypeOK, Items
  <2> QED BY <2>1 DEF CountInv, Framed
<1>10. /\ Counts(i) => ever \cap Below(i + 1) = E \cup {i}
       /\ ~Counts(i) => always \cap Below(i + 1) = A
  BY <1>3, <1>9
<1> DEFINE d == IF Counts(i) THEN 1 ELSE 0
<1>11. /\ Cardinality(always \cap Below(i + 1)) <= count.n + d
       /\ count.n + d <= Cardinality(ever \cap Below(i + 1))
  <2>0. count.n \in Nat BY <1>1
  <2>1. CASE Counts(i)
    <3>1. Cardinality(always \cap Below(i + 1)) \in {Cardinality(A), Cardinality(A) + 1}
      BY <1>5, <1>7
    <3>2. Cardinality(ever \cap Below(i + 1)) = Cardinality(E) + 1 BY <1>5, <1>10, <2>1
    <3>3. d = 1 BY <2>1
    <3> HIDE DEF i, A, E, d
    <3> QED BY <1>5, <1>6, <2>0, <3>1, <3>2, <3>3
  <2>2. CASE ~Counts(i)
    <3>1. Cardinality(ever \cap Below(i + 1)) \in {Cardinality(E), Cardinality(E) + 1}
      BY <1>5, <1>8
    <3>2. Cardinality(always \cap Below(i + 1)) = Cardinality(A) BY <1>10, <2>2
    <3>3. d = 0 BY <2>2
    <3> HIDE DEF i, A, E, d
    <3> QED BY <1>5, <1>6, <2>0, <3>1, <3>2, <3>3
  <2> QED BY <2>1, <2>2
<1>12. count'.i = i + 1 /\ count'.n = count.n + d /\ always' = always /\ ever' = ever BY <1>1
<1>13. CountedSoFar'
  <2> HIDE DEF i, d
  <2>1. Cardinality(always' \cap Below(count'.i)) <= count'.n BY <1>11, <1>12
  <2>2. count'.n <= Cardinality(ever' \cap Below(count'.i)) BY <1>11, <1>12
  <2> QED BY <2>1, <2>2 DEF CountedSoFar, Below
<1> QED BY <1>2, <1>13 DEF CountInv

\* The steps of all goroutines frame the count.
LEMMA CountNext == TypeOK /\ Releasing /\ CountInv /\ [Next]_vars /\ TypeOK' => CountInv'
<1> SUFFICES ASSUME TypeOK, Releasing, CountInv, [Next]_vars, TypeOK' PROVE CountInv' OBVIOUS
<1>a. always \subseteq Items /\ ever \subseteq Items /\ ever' \subseteq Items /\ Used \subseteq Items
  BY DEF TypeOK, Used
<1>1. ASSUME UNCHANGED <<flag, count, always, ever>> PROVE CountInv'
  <2>1. Framed' BY <1>1 DEF CountInv, Framed, Used
  <2> QED BY <1>1, <1>a, <2>1, CountFrame DEF CountInv
<1>2. ASSUME NEW g \in Users, Alloc(g) PROVE CountInv'
  <2> DEFINE i == idx[g]
  <2>1. i \in 0 .. ItemCount /\ count' = count BY <1>2 DEF TypeOK, Alloc
  <2>2. CASE ~Exhausted(i) /\ Cas(i)
    <3>1. /\ flag' = [flag EXCEPT ![i] = i]
          /\ always' = always \cap (Used \cup {i}) /\ ever' = ever \cup (Used \cup {i})
      BY <1>2, <2>2 DEF Alloc, Observe, Mark
    <3>2. i \in Items /\ i # NotUsed
      BY <2>1, <2>2, CountAssumption DEF Exhausted, Items, NotUsed
    <3>3. Used' = Used \cup {i} BY <3>1, <3>2 DEF Used, TypeOK
    <3>4. Framed' BY <3>1, <3>3 DEF CountInv, Framed
    <3> QED BY <2>1, <3>1, <3>4, <1>a, CountFrame DEF CountInv
  <2>3. CASE ~(~Exhausted(i) /\ Cas(i))
    <3>1. UNCHANGED <<flag, count, always, ever>> BY <1>2, <2>3 DEF Alloc
    <3> QED BY <3>1, <1>1
  <2> QED BY <2>2, <2>3
<1>3. ASSUME NEW g \in Users, Release(g) PROVE CountInv'
  <2> DEFINE i == idx[g]
  <2>1. /\ flag' = [flag EXCEPT ![i] = NotUsed] /\ count' = count
        /\ always' = always \cap (Used \ {i}) /\ ever' = ever \cup (Used \ {i})
    BY <1>3 DEF Release, Released, Observe
  <2>2. Used' = Used \ {i} BY <2>1 DEF Used, TypeOK
  <2>3. Framed' BY <2>1, <2>2 DEF CountInv, Framed
  <2> QED BY <2>1, <2>3, <1>a, CountFrame DEF CountInv
<1>4. ASSUME StartCount PROVE CountInv'
  <2>1. count' = [i |-> 0, n |-> 0] /\ always' = Used /\ ever' = Used /\ flag' = flag
    BY <1>4 DEF StartCount
  <2>2. count'.i = 0 /\ count'.n = 0 BY <2>1
  <2>3. Below(0) = {} BY DEF Below, Items
  <2>4. (always \cap Below(count.i))' = {} /\ (ever \cap Below(count.i))' = {}
    BY <2>2, <2>3 DEF Below
  <2>5. CountedSoFar' BY <2>2, <2>4, FS_EmptySet DEF CountedSoFar
  <2> QED BY <2>1, <2>5 DEF CountInv, Framed, Used
<1>5. ASSUME NEW g \in Users, StartAlloc(g) PROVE CountInv'
  BY <1>5, <1>1 DEF StartAlloc, countVars
<1>6. ASSUME NEW g \in Users, NEW i \in Items, StartRelease(g, i) PROVE CountInv'
  BY <1>6, <1>1 DEF StartRelease, countVars
<1>7. ASSUME NEW g \in Users, NEW i \in Items, NEW n \in 1 .. ItemSize, Write(g, i, n)
      PROVE CountInv'
  BY <1>7, <1>1 DEF Write, countVars
<1>8. CASE UNCHANGED vars BY <1>8, <1>1 DEF vars, countVars
<1> QED BY <1>2, <1>3, <1>4, <1>5, <1>6, <1>7, <1>8, CountTurn DEF Next

\* usedCount looks at one flag after the other while goroutines allocate and
\* release; what it returns is still never more than the items used at some
\* time while it ran, and never less than those used all that time.
THEOREM CountIsFramed == Spec => []CountBounded
<1>1. Init => CountInv
  <2> SUFFICES ASSUME Init PROVE CountInv OBVIOUS
  <2>1. count.i = NoIndex BY DEF Init, NotCounting
  <2>2. Used = {} BY DEF Init, Used
  <2> QED BY <2>1, <2>2 DEF Init, CountInv, Framed, CountedSoFar
<1>2. IInv /\ CountInv /\ [Next]_vars => CountInv' BY NextIInv, CountNext DEF IInv
<1>3. IInv /\ CountInv => CountBounded
  <2> SUFFICES ASSUME TypeOK, CountInv, count.i = ItemCount
               PROVE Cardinality(always) <= count.n /\ count.n <= Cardinality(ever)
    BY DEF IInv, CountBounded
  <2>1. Below(ItemCount) = Items BY CountAssumption DEF Below, Items
  <2>2. always \cap Items = always /\ ever \cap Items = ever BY DEF TypeOK
  <2>3. ItemCount # NoIndex BY CountAssumption DEF NoIndex
  <2> QED BY <2>1, <2>2, <2>3 DEF CountInv, CountedSoFar
<1> QED BY InitIInv, NextIInv, <1>1, <1>2, <1>3, PTL DEF Spec

(***************************************************************************)
(* Quotas.  That they fit the block together is said without a sum: items  *)
(* can be set aside for every goroutine, as many as its quota.             *)
(*                                                                         *)
(* A token stands for an item held or a scan under way, and lies at that   *)
(* item's index or at the index the scan looks at next.  The scan passes   *)
(* an index only while another token lies there, so that at most           *)
(* ItemCount - k tokens ever lie at index k or behind it, and none behind  *)
(* the last item.                                                          *)
(***************************************************************************)
SetAside(slots) ==
    /\ slots \in [Users -> SUBSET Items]
    /\ \A g, h \in Users : g # h => slots[g] \cap slots[h] = {}
    /\ \A g \in Users : Cardinality(slots[g]) = Quota[g]

Scans(g) == at[g] = "scan"
Mine(g) == held[g] \cup (IF Scans(g) THEN {NoIndex} ELSE {})
Place(g, i) == IF i = NoIndex THEN idx[g] ELSE i
Tokens(k) == {t \in Users \X (Items \cup {NoIndex}) :
                 t[2] \in Mine(t[1]) /\ Place(t[1], t[2]) >= k}

WithinQuota ==
    \A g \in Users : Cardinality(held[g]) + (IF Scans(g) THEN 1 ELSE 0) <= Quota[g]
Fits(k) == IsFiniteSet(Tokens(k)) /\ Cardinality(Tokens(k)) <= ItemCount - k
QuotaInv ==
    /\ WithinQuota
    /\ leaked = {} => noItem = {} /\ \A k \in 1 .. ItemCount : Fits(k)

\* A finite set goes into one that has no fewer elements.
LEMMA SmallerInjects ==
    ASSUME NEW S, NEW T, IsFiniteSet(S), IsFiniteSet(T), Cardinality(S) <= Cardinality(T)
    PROVE ExistsInjection(S, T)
<1> DEFINE n == Cardinality(S)
           m == Cardinality(T)
<1>1. n \in Nat /\ m \in Nat /\ ExistsBijection(1 .. n, S) /\ ExistsBijection(1 .. m, T)
  BY FS_CardinalityType
<1>2. ExistsInjection(1 .. n, 1 .. m) BY <1>1, Fun_NatInjLeq
<1>3. ExistsBijection(S, 1 .. n) BY <1>1, Fun_ExistsBijSymmetric
<1>4. ExistsInjection(S, 1 .. n) /\ ExistsInjection(1 .. m, T)
  BY <1>1, <1>3 DEF ExistsBijection, ExistsInjection, Bijection
<1> HIDE DEF n, m
<1>5. ExistsInjection(S, 1 .. m) BY <1>2, <1>4, Fun_ExistsInjTransitive
<1> QED BY <1>4, <1>5, Fun_ExistsInjTransitive

\* What a goroutine holds and looks for is within its quota.
LEMMA MineFits ==
    ASSUME TypeOK, WithinQuota, NEW g \in Users
    PROVE IsFiniteSet(Mine(g)) /\ Cardinality(Mine(g)) <= Quota[g]
<1>1. held[g] \in SUBSET Items /\ NoIndex \notin held[g] BY DEF TypeOK, Items, NoIndex
<1>2. IsFiniteSet(held[g]) BY <1>1, ItemsFinite
<1>3. CASE Scans(g)
  <2>1. Mine(g) = held[g] \cup {NoIndex} BY <1>3 DEF Mine
  <2>2. Cardinality(held[g] \cup {NoIndex}) = Cardinality(held[g]) + 1
    BY <1>1, <1>2, FS_AddElement
  <2>3. IsFiniteSet(held[g] \cup {NoIndex}) BY <1>2, FS_AddElement
  <2> QED BY <1>3, <2>1, <2>2, <2>3 DEF WithinQuota
<1>4. CASE ~Scans(g)
  <2>1. Mine(g) = held[g] BY <1>4 DEF Mine
  <2>2. Cardinality(held[g]) \in Nat BY <1>1, ItemsFinite
  <2>3. Cardinality(held[g]) + 0 <= Quota[g] BY <1>4 DEF WithinQuota
  <2> QED BY <1>2, <2>1, <2>2, <2>3
<1> QED BY <1>3, <1>4

\* There are no more tokens than items.
LEMMA TokensFit ==
    ASSUME NEW slots, SetAside(slots), TypeOK, WithinQuota
    PROVE Fits(0)
<1>1. \A g \in Users : ExistsInjection(Mine(g), slots[g])
  <2> SUFFICES ASSUME NEW g \in Users PROVE ExistsInjection(Mine(g), slots[g]) OBVIOUS
  <2>1. IsFiniteSet(slots[g]) BY ItemsFinite DEF SetAside
  <2>2. Cardinality(slots[g]) = Quota[g] BY DEF SetAside
  <2> QED BY <2>1, <2>2, MineFits, SmallerInjects
<1> DEFINE F == [g \in Users |-> CHOOSE f : f \in Injection(Mine(g), slots[g])]
           M == [t \in Tokens(0) |-> F[t[1]][t[2]]]
<1>2. \A g \in Users : F[g] \in Injection(Mine(g), slots[g]) BY <1>1 DEF ExistsInjection
<1> HIDE DEF F
<1>3. \A t \in Tokens(0) : t[1] \in Users /\ t[2] \in Mine(t[1]) /\ t = <<t[1], t[2]>>
  BY DEF Tokens
<1>4. \A t \in Tokens(0) : M[t] \in slots[t[1]]
  <2> SUFFICES ASSUME NEW t \in Tokens(0) PROVE M[t] \in slots[t[1]] OBVIOUS
  <2>1. F[t[1]] \in [Mine(t[1]) -> slots[t[1]]] BY <1>2, <1>3 DEF Injection
  <2> QED BY <2>1, <1>3
<1>5. M \in [Tokens(0) -> Items] BY <1>3, <1>4 DEF SetAside
<1>6. ASSUME NEW t \in Tokens(0), NEW u \in Tokens(0), M[t] = M[u] PROVE t = u
  <2>1. t[1] = u[1] BY <1>3, <1>4, <1>6 DEF SetAside
  <2>2. F[t[1]][t[2]] = F[t[1]][u[2]] BY <1>6, <2>1
  <2>3. t[2] \in Mine(t[1]) /\ u[2] \in Mine(t[1]) BY <1>3, <2>1
  <2>4. t[2] = u[2] BY <1>2, <1>3, <2>2, <2>3 DEF Injection, IsInjective
  <2> QED BY <1>3, <2>1, <2>4
<1>7. M \in Injection(Tokens(0), Items)
  <2>1. DOMAIN M = Tokens(0) OBVIOUS
  <2> HIDE DEF M
  <2> QED BY <1>5, <1>6, <2>1 DEF Injection, IsInjective
<1>8. IsFiniteSet(Items) /\ Cardinality(Items) = ItemCount
  BY CountAssumption, FS_Interval DEF Items
<1> HIDE DEF M
<1>9. IsFiniteSet(Tokens(0)) /\ Cardinality(Tokens(0)) <= Cardinality(Items)
  BY <1>7, <1>8, FS_Injection
<1> QED BY <1>8, <1>9, CountAssumption DEF Fits

\* Fewer tokens fit as well.
LEMMA FewerTokens ==
    ASSUME NEW S, NEW T, NEW n \in Int, S \subseteq T, IsFiniteSet(T), Cardinality(T) <= n
    PROVE IsFiniteSet(S) /\ Cardinality(S) <= n
<1>1. IsFiniteSet(S) /\ Cardinality(S) <= Cardinality(T) BY FS_Subset
<1>2. Cardinality(S) \in Nat /\ Cardinality(T) \in Nat BY <1>1, FS_CardinalityType
<1> QED BY <1>1, <1>2

\* A token that moves on from an index at which another one lies.
LEMMA TokenMoves ==
    ASSUME NEW S, NEW T, NEW n \in Int, IsFiniteSet(T), Cardinality(T) <= n + 1,
           NEW y \in T, S \subseteq T, y \notin S
    PROVE IsFiniteSet(S) /\ Cardinality(S) <= n
<1>1. IsFiniteSet(T \ {y}) /\ Cardinality(T \ {y}) = Cardinality(T) - 1 BY FS_RemoveElement
<1>2. Cardinality(T) \in Nat BY FS_CardinalityType
<1> QED BY <1>1, <1>2, FewerTokens

\* Where a token lies is a number, and a token of a scan lies where the scan is.
LEMMA TokenIs ==
    ASSUME TypeOK, NEW k \in Nat, NEW g \in Users, NEW i \in Items
    PROVE /\ <<g, i>> \in Tokens(k) <=> i \in held[g] /\ i >= k
          /\ <<g, NoIndex>> \in Tokens(k) <=> Scans(g) /\ idx[g] >= k
<1>1. held[g] \subseteq Items /\ i # NoIndex /\ NoIndex \notin held[g]
  BY DEF TypeOK, Items, NoIndex
<1> QED BY <1>1 DEF Tokens, Mine, Place

\* Steps that move no token of index k on or behind, and lose none.
LEMMA FitsFrame ==
    ASSUME NEW k \in Int, Fits(k), Tokens(k)' \subseteq Tokens(k)
    PROVE Fits(k)'
<1>1. ItemCount - k \in Int BY CountAssumption
<1>2. IsFiniteSet(Tokens(k)') /\ Cardinality(Tokens(k)') <= ItemCount - k
  BY <1>1, FewerTokens DEF Fits
<1> QED BY <1>2 DEF Fits

\* One turn of the loop of AllocBlockItem.
LEMMA QuotaAlloc ==
    ASSUME NEW slots, SetAside(slots), IInv, IInv', QuotaInv, NEW g \in Users, Alloc(g)
    PROVE QuotaInv'
<1> USE DEF IInv
<1>0. PICK i \in 0 .. ItemCount : i = idx[g] BY DEF TypeOK
<1> USE <1>0
<1>1. i \in 0 .. ItemCount /\ (Scans(g) \/ at[g] = "chain") BY DEF TypeOK, Alloc, Scans
<1>2. NoIndex \notin Items /\ Items \subseteq Nat /\ \A j \in 0 .. ItemCount : j # NoIndex
  BY DEF Items, NoIndex
<1>3. CASE Exhausted(i)
  <2>1. /\ at' = [at EXCEPT ![g] = "idle"]
        /\ UNCHANGED <<idx, held, leaked>>
        /\ ~Scans(g) => noItem' = noItem
    BY <1>3 DEF Alloc, Scans
  <2>2. WithinQuota'
    <3> SUFFICES ASSUME NEW h \in Users
                 PROVE Cardinality(held'[h]) + (IF Scans(h)' THEN 1 ELSE 0) <= Quota[h]
      BY DEF WithinQuota
    <3>1. Cardinality(held[h]) + (IF Scans(h) THEN 1 ELSE 0) <= Quota[h]
      BY DEF QuotaInv, WithinQuota
    <3>2. Scans(h)' => Scans(h) BY <2>1 DEF Scans, TypeOK
    <3>3. Cardinality(held[h]) \in Nat /\ Quota[h] \in Nat
      BY ItemsFinite, QuotaAssumption DEF TypeOK
    <3>4. CASE Scans(h)' BY <2>1, <3>1, <3>2, <3>4
    <3>5. CASE ~Scans(h)' BY <2>1, <3>1, <3>3, <3>5
    <3> QED BY <3>4, <3>5
  <2>3. ASSUME leaked' = {} PROVE noItem' = {} /\ \A k \in 1 .. ItemCount : Fits(k)'
    <3>1. leaked = {} BY <2>1, <2>3
    <3>2. noItem = {} /\ \A k \in 1 .. ItemCount : Fits(k) BY <3>1 DEF QuotaInv
    <3>3. ~Scans(g)
      <4> SUFFICES ASSUME Scans(g) PROVE FALSE OBVIOUS
      <4>1. i = ItemCount BY <1>1, <1>3, CountAssumption DEF Exhausted
      <4>2. ItemCount \in 1 .. ItemCount /\ ItemCount \in Nat BY CountAssumption
      <4>3. Fits(ItemCount) BY <3>2, <4>2
      <4>4. 0 \in Items BY CountAssumption DEF Items
      <4>4a. Scans(g) /\ idx[g] >= ItemCount BY <4>1, <4>2
      <4>5. <<g, NoIndex>> \in Tokens(ItemCount) BY <4>2, <4>4, <4>4a, TokenIs
      <4>6. IsFiniteSet(Tokens(ItemCount)) /\ Cardinality(Tokens(ItemCount)) <= 0
        BY <4>2, <4>3 DEF Fits
      <4>7. Cardinality(Tokens(ItemCount)) \in Nat BY <4>6, FS_CardinalityType
      <4>8. Tokens(ItemCount) = {} BY <4>6, <4>7, FS_EmptySet
      <4> QED BY <4>5, <4>8
    <3>4. ASSUME NEW k \in 1 .. ItemCount PROVE Fits(k)'
      <4>1. \A h \in Users : Mine(h)' \subseteq Mine(h) BY <2>1 DEF Mine, Scans, TypeOK
      <4>2. Tokens(k)' \subseteq Tokens(k) BY <2>1, <4>1 DEF Tokens, Place
      <4> QED BY <3>2, <4>2, FitsFrame
    <3> QED BY <2>1, <3>2, <3>3, <3>4
  <2> QED BY <2>2, <2>3 DEF QuotaInv
<1>4. CASE ~Exhausted(i) /\ Cas(i)
  <2>0. i \in Items /\ flag[i] = NotUsed BY <1>1, <1>4, CountAssumption DEF Exhausted, Items, Cas
  <2>1. at' = [at EXCEPT ![g] = "idle"] /\ UNCHANGED <<idx, noItem>>
    BY <1>4 DEF Alloc
  <2>2. CASE Scans(g)
    <3>1. held' = [held EXCEPT ![g] = @ \cup {i}] /\ leaked' = leaked
      BY <1>4, <2>2 DEF Alloc, Scans
    <3>2. i \notin held[g] BY <2>0 DEF OneHolder
    <3>3. WithinQuota'
      <4> SUFFICES ASSUME NEW h \in Users
                   PROVE Cardinality(held'[h]) + (IF Scans(h)' THEN 1 ELSE 0) <= Quota[h]
        BY DEF WithinQuota
      <4>1. Cardinality(held[h]) + (IF Scans(h) THEN 1 ELSE 0) <= Quota[h]
        BY DEF QuotaInv, WithinQuota
      <4>2. CASE h # g
        <5>1. held'[h] = held[h] /\ (Scans(h)' <=> Scans(h))
          BY <2>1, <3>1, <4>2 DEF Scans, TypeOK
        <5> QED BY <4>1, <5>1
      <4>3. CASE h = g
        <5>1. held'[g] = held[g] \cup {i} /\ ~Scans(g)' BY <2>1, <3>1 DEF Scans, TypeOK
        <5>2. IsFiniteSet(held[g]) BY ItemsFinite DEF TypeOK
        <5>3. Cardinality(held'[g]) = Cardinality(held[g]) + 1
          BY <3>2, <5>1, <5>2, FS_AddElement
        <5>4. Cardinality(held[g]) \in Nat BY <5>2, FS_CardinalityType
        <5>5. Cardinality(held[g]) + 1 <= Quota[g] BY <2>2, <4>1, <4>3
        <5> QED BY <4>3, <5>1, <5>3, <5>4, <5>5
      <4> QED BY <4>2, <4>3
    <3>4. ASSUME leaked' = {}, NEW k \in 1 .. ItemCount PROVE Fits(k)'
      <4>1. Fits(k) /\ k \in Nat /\ k >= 1 BY <3>1, <3>4 DEF QuotaInv
      <4>2. CASE i < k
        <5>1. ASSUME NEW t \in Tokens(k)' PROVE t \in Tokens(k)
          <6>1. PICK h \in Users : t = <<h, NoIndex>> \/ \E j \in Items : t = <<h, j>>
            BY <5>1 DEF Tokens
          <6>2. CASE t = <<h, NoIndex>>
            <7>1. Scans(h)' /\ idx'[h] >= k BY <2>0, <4>1, <5>1, <6>2, <1>2 DEF Tokens, Mine, Place, TypeOK
            <7>2. Scans(h) BY <2>1, <7>1 DEF Scans, TypeOK
            <7> QED BY <2>0, <2>1, <4>1, <6>2, <7>1, <7>2, TokenIs
          <6>3. ASSUME NEW j \in Items, t = <<h, j>> PROVE t \in Tokens(k)
            <7>1. j \in held'[h] /\ j >= k BY <4>1, <5>1, <6>3, <1>2 DEF Tokens, Mine, Place, TypeOK
            <7>2. j # i BY <4>2, <7>1, <4>1, <2>0, <1>2
            <7>3. j \in held[h] BY <3>1, <7>1, <7>2 DEF TypeOK
            <7> QED BY <4>1, <6>3, <7>1, <7>3, TokenIs
          <6> QED BY <6>1, <6>2, <6>3
        <5> QED BY <4>1, <5>1, FitsFrame
      <4>3. CASE ~(i < k)
        <5> DEFINE x == <<g, NoIndex>>
                   y == <<g, i>>
                   R == Tokens(k) \ {x}
        <5>1. x \in Tokens(k) /\ y \notin Tokens(k)
          BY <2>0, <2>2, <3>2, <4>1, <4>3, <1>2, TokenIs
        <5>2. ASSUME NEW t \in Tokens(k)' PROVE t \in R \cup {y}
          <6>1. PICK h \in Users : t = <<h, NoIndex>> \/ \E j \in Items : t = <<h, j>>
            BY <5>2 DEF Tokens
          <6>2. CASE t = <<h, NoIndex>>
            <7>1. Scans(h)' /\ idx'[h] >= k BY <2>0, <4>1, <5>2, <6>2, <1>2 DEF Tokens, Mine, Place, TypeOK
            <7>2. Scans(h) /\ h # g BY <2>1, <7>1 DEF Scans, TypeOK
            <7>3. t \in Tokens(k) BY <2>0, <2>1, <4>1, <6>2, <7>1, <7>2, TokenIs
            <7> QED BY <6>2, <7>2, <7>3
          <6>3. ASSUME NEW j \in Items, t = <<h, j>> PROVE t \in R \cup {y}
            <7>1. j \in held'[h] /\ j >= k BY <4>1, <5>2, <6>3, <1>2 DEF Tokens, Mine, Place, TypeOK
            <7>2. j \in held[h] \/ (j = i /\ h = g) BY <3>1, <7>1 DEF TypeOK
            <7>3. j \in held[h] => t \in Tokens(k) BY <4>1, <6>3, <7>1, TokenIs
            <7> QED BY <6>3, <7>2, <7>3, <1>2
          <6> QED BY <6>1, <6>2, <6>3
        <5>3. IsFiniteSet(Tokens(k)) /\ Cardinality(Tokens(k)) <= ItemCount - k
          BY <4>1 DEF Fits
        <5>4. IsFiniteSet(R) /\ Cardinality(R) = Cardinality(Tokens(k)) - 1
          BY <5>1, <5>3, FS_RemoveElement
        <5>5. IsFiniteSet(R \cup {y}) /\ Cardinality(R \cup {y}) = Cardinality(R) + 1
          BY <5>1, <5>4, FS_AddElement
        <5>6. Cardinality(Tokens(k)) \in Nat /\ ItemCount - k \in Int
          BY <5>3, FS_CardinalityType, CountAssumption
        <5>7. Cardinality(R \cup {y}) <= ItemCount - k BY <5>3, <5>4, <5>5, <5>6
        <5> HIDE DEF R
        <5>8. IsFiniteSet(Tokens(k)') /\ Cardinality(Tokens(k)') <= ItemCount - k
          BY <5>2, <5>5, <5>6, <5>7, FewerTokens
        <5> QED BY <5>8 DEF Fits
      <4> QED BY <4>2, <4>3
    <3> QED BY <2>1, <3>1, <3>3, <3>4 DEF QuotaInv
  <2>3. CASE at[g] = "chain"
    <3>1. leaked' # {} /\ held' = held BY <1>4, <2>3 DEF Alloc
    <3>2. \A h \in Users : Scans(h)' <=> Scans(h) BY <2>1, <2>3 DEF Scans, TypeOK
    <3> QED BY <3>1, <3>2 DEF QuotaInv, WithinQuota
  <2> QED BY <1>1, <2>2, <2>3
<1>5. CASE ~Exhausted(i) /\ ~Cas(i)
  <2>0. i \in Items /\ flag[i] # NotUsed BY <1>1, <1>5, CountAssumption DEF Exhausted, Items, Cas
  <2>1. idx' = [idx EXCEPT ![g] = i + 1] /\ UNCHANGED <<at, held, leaked, noItem>>
    BY <1>5 DEF Alloc
  <2>2. \A h \in Users : (Scans(h)' <=> Scans(h)) /\ Mine(h)' = Mine(h)
    BY <2>1 DEF Scans, Mine
  <2>3. WithinQuota' BY <2>1, <2>2 DEF WithinQuota, QuotaInv
  <2>4. ASSUME leaked' = {}, NEW k \in 1 .. ItemCount PROVE Fits(k)'
    <3>1. leaked = {} /\ Fits(k) /\ k \in Nat BY <2>1, <2>4 DEF QuotaInv
    <3>2. CASE k # i + 1
      <4>1. \A h \in Users, j \in Items \cup {NoIndex} :
               Place(h, j)' >= k => Place(h, j) >= k
        <5> SUFFICES ASSUME NEW h \in Users, NEW j \in Items \cup {NoIndex}, Place(h, j)' >= k
                     PROVE Place(h, j) >= k
          OBVIOUS
        <5>1. CASE j # NoIndex BY <5>1 DEF Place
        <5>2. CASE j = NoIndex /\ h # g BY <2>1, <5>2 DEF Place, TypeOK
        <5>3. CASE j = NoIndex /\ h = g
          <6>1. i + 1 >= k BY <2>1, <5>3 DEF Place, TypeOK
          <6>2. i >= k BY <3>1, <3>2, <6>1
          <6> QED BY <5>3, <6>2 DEF Place
        <5> QED BY <5>1, <5>2, <5>3
      <4>2. Tokens(k)' \subseteq Tokens(k) BY <2>2, <4>1 DEF Tokens
      <4> QED BY <3>1, <4>2, FitsFrame
    <3>3. CASE k = i + 1
      <4>1. PICK h \in Users : i \in held[h] BY <2>0, <3>1 DEF OneHolder
      <4>2. i \in 0 .. ItemCount /\ i \in Nat /\ i + 1 \in Nat BY <1>1
      <4>3. Fits(i)
        <5>1. CASE i = 0 BY <5>1, TokensFit DEF QuotaInv
        <5>2. CASE i # 0
          <6>1. i \in 1 .. ItemCount BY <4>2, <5>2, CountAssumption
          <6> QED BY <3>1, <6>1 DEF QuotaInv
        <5> QED BY <5>1, <5>2
      <4>3a. i >= i BY <4>2
      <4>4. <<h, i>> \in Tokens(i) BY <2>0, <4>1, <4>2, <4>3a, TokenIs
      <4>5. \A f \in Users, j \in Items \cup {NoIndex} :
               Place(f, j)' >= i + 1 => Place(f, j) >= i
        BY <2>1, <1>1, <1>2 DEF Place, TypeOK
      <4>6. Tokens(i + 1)' \subseteq Tokens(i) BY <2>2, <4>5 DEF Tokens
      <4>7. <<h, i>> \notin Tokens(i + 1)'
        <5>1. Place(h, i)' = i BY <2>0, <1>2 DEF Place
        <5> QED BY <4>2, <5>1 DEF Tokens
      <4>8. /\ IsFiniteSet(Tokens(i)) /\ Cardinality(Tokens(i)) <= (ItemCount - (i + 1)) + 1
            /\ ItemCount - (i + 1) \in Int
        BY <4>2, <4>3, CountAssumption DEF Fits
      <4>9. IsFiniteSet(Tokens(i + 1)') /\ Cardinality(Tokens(i + 1)') <= ItemCount - (i + 1)
        BY <4>4, <4>6, <4>7, <4>8, TokenMoves
      <4> QED BY <3>3, <4>9 DEF Fits
    <3> QED BY <3>2, <3>3
  <2> QED BY <2>1, <2>3, <2>4 DEF QuotaInv
<1> QED BY <1>3, <1>4, <1>5

\* Steps after which no goroutine has a token that it did not have.
LEMMA QuotaFrame ==
    ASSUME TypeOK, TypeOK', QuotaInv, UNCHANGED <<leaked, noItem>>,
           \A h \in Users : /\ held'[h] \subseteq held[h]
                            /\ Scans(h)' => Scans(h) /\ idx'[h] = idx[h]
    PROVE QuotaInv'
<1>1. WithinQuota'
  <2> SUFFICES ASSUME NEW h \in Users
               PROVE Cardinality(held'[h]) + (IF Scans(h)' THEN 1 ELSE 0) <= Quota[h]
    BY DEF WithinQuota
  <2>1. Cardinality(held[h]) + (IF Scans(h) THEN 1 ELSE 0) <= Quota[h]
    BY DEF QuotaInv, WithinQuota
  <2>2. held[h] \in SUBSET Items /\ held'[h] \in SUBSET held[h] BY DEF TypeOK
  <2>3. /\ Cardinality(held'[h]) <= Cardinality(held[h])
        /\ Cardinality(held[h]) \in Nat /\ Cardinality(held'[h]) \in Nat
    BY <2>2, FewerItems, ItemsFinite
  <2>4. Quota[h] \in Nat BY QuotaAssumption
  <2>5. CASE Scans(h)' BY <2>1, <2>3, <2>4, <2>5
  <2>6. CASE ~Scans(h)' BY <2>1, <2>3, <2>4, <2>6
  <2> QED BY <2>5, <2>6
<1>2. ASSUME leaked' = {}, NEW k \in 1 .. ItemCount PROVE Fits(k)'
  <2>1. Fits(k) BY <1>2 DEF QuotaInv
  <2>2. \A h \in Users : Mine(h)' \subseteq Mine(h) BY DEF Mine
  <2>3. \A h \in Users : \A j \in Mine(h)' : Place(h, j)' = Place(h, j)
    <3> SUFFICES ASSUME NEW h \in Users, NEW j \in Mine(h)' PROVE Place(h, j)' = Place(h, j)
      OBVIOUS
    <3>1. NoIndex \notin held'[h] BY DEF TypeOK, Items, NoIndex
    <3>2. j = NoIndex => Scans(h)' BY <3>1 DEF Mine
    <3> QED BY <3>2 DEF Place
  <2>4. Tokens(k)' \subseteq Tokens(k)
    <3> SUFFICES ASSUME NEW t \in Tokens(k)' PROVE t \in Tokens(k) OBVIOUS
    <3>1. /\ t \in Users \X (Items \cup {NoIndex}) /\ t[1] \in Users
          /\ t[2] \in Mine(t[1])' /\ Place(t[1], t[2])' >= k
      BY DEF Tokens
    <3>2. t[2] \in Mine(t[1]) /\ Place(t[1], t[2]) >= k BY <2>2, <2>3, <3>1
    <3> QED BY <3>1, <3>2 DEF Tokens
  <2> QED BY <2>1, <2>4, FitsFrame
<1> QED BY <1>1, <1>2 DEF QuotaInv

\* A goroutine that has room in its quota begins to look for an item.
LEMMA QuotaStart ==
    ASSUME TypeOK, TypeOK', QuotaInv, NEW g \in Users, StartAlloc(g)
    PROVE QuotaInv'
<1>1. /\ at[g] = "idle" /\ Cardinality(held[g]) < Quota[g]
      /\ at' = [at EXCEPT ![g] = "scan"] /\ idx' = [idx EXCEPT ![g] = 0]
      /\ noItem' = noItem \ {g} /\ UNCHANGED <<held, leaked>>
  BY DEF StartAlloc
<1>2. WithinQuota'
  <2> SUFFICES ASSUME NEW h \in Users
               PROVE Cardinality(held'[h]) + (IF Scans(h)' THEN 1 ELSE 0) <= Quota[h]
    BY DEF WithinQuota
  <2>1. Cardinality(held[h]) \in Nat /\ Quota[h] \in Nat
    BY ItemsFinite, QuotaAssumption DEF TypeOK
  <2>2. CASE h = g
    <3>1. Cardinality(held'[h]) + 1 <= Quota[h] BY <1>1, <2>1, <2>2
    <3> QED BY <1>1, <2>1, <2>2, <3>1
  <2>3. CASE h # g
    <3>1. Scans(h)' <=> Scans(h) BY <1>1, <2>3 DEF Scans, TypeOK
    <3> QED BY <1>1, <3>1 DEF QuotaInv, WithinQuota
  <2> QED BY <2>2, <2>3
<1>3. ASSUME leaked' = {}, NEW k \in 1 .. ItemCount PROVE Fits(k)'
  <2>1. Fits(k) BY <1>1, <1>3 DEF QuotaInv
  <2>2. \A h \in Users : \A j \in Mine(h)' : Place(h, j)' >= k => j \in Mine(h) /\ Place(h, j) >= k
    <3> SUFFICES ASSUME NEW h \in Users, NEW j \in Mine(h)', Place(h, j)' >= k
                 PROVE j \in Mine(h) /\ Place(h, j) >= k
      OBVIOUS
    <3>1. NoIndex \notin held'[h] BY DEF TypeOK, Items, NoIndex
    <3>2. CASE j # NoIndex BY <1>1, <3>2 DEF Mine, Place
    <3>3. CASE j = NoIndex
      <4>1. idx'[h] >= k BY <3>3 DEF Place
      <4>2. h # g BY <1>1, <4>1 DEF TypeOK
      <4>3. Scans(h)' BY <3>1, <3>3 DEF Mine
      <4> QED BY <1>1, <3>3, <4>1, <4>2, <4>3 DEF Mine, Place, Scans, TypeOK
    <3> QED BY <3>2, <3>3
  <2>3. Tokens(k)' \subseteq Tokens(k)
    <3> SUFFICES ASSUME NEW t \in Tokens(k)' PROVE t \in Tokens(k) OBVIOUS
    <3>1. /\ t \in Users \X (Items \cup {NoIndex}) /\ t[1] \in Users
          /\ t[2] \in Mine(t[1])' /\ Place(t[1], t[2])' >= k
      BY DEF Tokens
    <3>2. t[2] \in Mine(t[1]) /\ Place(t[1], t[2]) >= k BY <2>2, <3>1
    <3> QED BY <3>1, <3>2 DEF Tokens
  <2> QED BY <2>1, <2>3, FitsFrame
<1>4. leaked' = {} => noItem' = {} BY <1>1 DEF QuotaInv
<1> QED BY <1>2, <1>3, <1>4 DEF QuotaInv

\* No step of any goroutine gives more tokens to the items from k on than there
\* are such items.
LEMMA QuotaNext ==
    ASSUME NEW slots, SetAside(slots), IInv, IInv', QuotaInv, [Next]_vars
    PROVE QuotaInv'
<1> USE DEF IInv
<1>1. ASSUME NEW g \in Users, Release(g) PROVE QuotaInv'
  <2>1. /\ held' = [held EXCEPT ![g] = @ \ {idx[g]}] /\ at' = [at EXCEPT ![g] = "idle"]
        /\ UNCHANGED <<idx, leaked, noItem>>
    BY <1>1 DEF Release
  <2>2. \A h \in Users : held'[h] \subseteq held[h] BY <2>1 DEF TypeOK
  <2>3. \A h \in Users : Scans(h)' => Scans(h) BY <2>1 DEF TypeOK, Scans
  <2> QED BY <2>1, <2>2, <2>3, QuotaFrame
<1>2. ASSUME NEW g \in Users, NEW i \in Items, StartRelease(g, i) PROVE QuotaInv'
  <2>1. /\ \E a \in {"release", "idle"} : at' = [at EXCEPT ![g] = a]
        /\ idx' = [idx EXCEPT ![g] = i]
        /\ held' = held \/ held' = [held EXCEPT ![g] = @ \ {i}]
        /\ UNCHANGED <<leaked, noItem>>
    BY <1>2 DEF StartRelease
  <2>2. \A h \in Users : held'[h] \subseteq held[h] BY <2>1 DEF TypeOK
  <2>3. \A h \in Users : Scans(h)' => h # g BY <2>1 DEF TypeOK, Scans
  <2>4. \A h \in Users : Scans(h)' => Scans(h) /\ idx'[h] = idx[h]
    BY <2>1, <2>3 DEF TypeOK, Scans
  <2> QED BY <2>1, <2>2, <2>4, QuotaFrame
<1>3. ASSUME NEW g \in Users, NEW i \in Items, NEW n \in 1 .. ItemSize, Write(g, i, n)
      PROVE QuotaInv'
  <2>1. /\ \/ UNCHANGED <<at, idx>>
           \/ at' = [at EXCEPT ![g] = "chain"] /\ idx' = [idx EXCEPT ![g] = 0]
        /\ UNCHANGED <<held, leaked, noItem>>
    BY <1>3 DEF Write
  <2>2. \A h \in Users : Scans(h)' => Scans(h) /\ idx'[h] = idx[h]
    <3>1. CASE UNCHANGED <<at, idx>> BY <3>1 DEF Scans
    <3>2. CASE at' = [at EXCEPT ![g] = "chain"] /\ idx' = [idx EXCEPT ![g] = 0]
      <4>1. \A h \in Users : Scans(h)' => h # g BY <3>2 DEF TypeOK, Scans
      <4> QED BY <3>2, <4>1 DEF TypeOK, Scans
    <3> QED BY <2>1, <3>1, <3>2
  <2> QED BY <2>1, <2>2, QuotaFrame
<1>4. ASSUME UNCHANGED allocVars PROVE QuotaInv'
  <2>1. UNCHANGED <<at, idx, held, leaked, noItem>> BY <1>4 DEF allocVars
  <2>2. \A h \in Users : (Scans(h)' => Scans(h)) /\ held'[h] \subseteq held[h] BY <2>1 DEF Scans
  <2> QED BY <2>1, <2>2, QuotaFrame
<1>5. CASE StartCount \/ CountOne \/ UNCHANGED vars
  BY <1>4, <1>5 DEF StartCount, CountOne, vars
<1>6. ASSUME NEW g \in Users, StartAlloc(g) PROVE QuotaInv' BY <1>6, QuotaStart
<1>7. ASSUME NEW g \in Users, Alloc(g) PROVE QuotaInv' BY <1>7, QuotaAlloc
<1> QED BY <1>1, <1>2, <1>3, <1>5, <1>6, <1>7 DEF Next

\* Goroutines whose quotas together fit the block are never told NOITEM as long
\* as Write has lost no item, although a scan never looks back and items behind
\* it are released and taken again while it runs.
THEOREM QuotasAreServed ==
    ASSUME NEW slots, SetAside(slots)
    PROVE Spec => []QuotaServed
<1>1. Init => QuotaInv
  <2> SUFFICES ASSUME Init PROVE QuotaInv OBVIOUS
  <2>1. \A g \in Users : ~Scans(g) /\ held[g] = {} /\ Mine(g) = {} BY DEF Init, Scans, Mine
  <2>2. Cardinality({}) = 0 /\ IsFiniteSet({}) BY FS_EmptySet
  <2>3. WithinQuota BY <2>1, <2>2, QuotaAssumption DEF WithinQuota
  <2>4. \A k : Tokens(k) = {} BY <2>1 DEF Tokens
  <2>5. ASSUME NEW k \in 1 .. ItemCount PROVE Fits(k)
    <3>1. ItemCount \in Nat /\ k <= ItemCount /\ k \in Nat BY CountAssumption
    <3>2. 0 <= ItemCount - k BY <3>1
    <3> QED BY <2>2, <2>4, <3>2 DEF Fits
  <2> QED BY <2>3, <2>5 DEF Init, QuotaInv
<1>2. IInv /\ QuotaInv /\ [Next]_vars => QuotaInv' BY NextIInv, QuotaNext
<1>3. QuotaInv => QuotaServed BY DEF QuotaInv, QuotaServed
<1> QED BY InitIInv, NextIInv, <1>1, <1>2, <1>3, PTL DEF Spec
=============================================================================
