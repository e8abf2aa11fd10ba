------------------------------ MODULE GopBlock ------------------------------
(***************************************************************************)
(* The block allocator of exchange/datacache.go: a fixed number of items   *)
(* that goroutines allocate by compare-and-swap on each item's flag, write *)
(* to and release, while another goroutine counts the used ones.           *)
(*                                                                         *)
(* Every load, store and compare-and-swap of a flag is a step.  A          *)
(* goroutine releases an item it holds, once, and never holds more than    *)
(* its quota.                                                              *)
(***************************************************************************)
EXTENDS Integers, FiniteSets

CONSTANTS
    Users,      \* goroutines that allocate
    Quota,      \* Quota[g]: items goroutine g may hold at a time
    ItemCount,  \* Config.ItemCount
    ItemSize,   \* units an item holds (Config.ItemSizeK)
    MaxWrites   \* bound: successful or chained writes

ASSUME CountAssumption == ItemCount \in Nat \ {0} /\ ItemSize \in Nat \ {0}
ASSUME QuotaAssumption == Quota \in [Users -> Nat] /\ MaxWrites \in Nat

Items == 0 .. ItemCount - 1
NotUsed == -1                         \* item_not_used
NoIndex == -1

VARIABLES
    flag,    \* flag[i]: NotUsed, or i while allocated
    at,      \* where a goroutine is: "idle", "scan", "chain" or "release"
    idx,     \* the index its scan looks at next, or the item it releases
    todo,    \* units to write once a chained allocation succeeds
    held,    \* items it holds
    leaked,  \* items allocated by Write and reachable from nowhere
    rw,      \* length and capacity of each item's bytes.Buffer
    noItem,  \* goroutines whose last AllocBlockItem returned NOITEM
    writes,  \* writes so far
    count,   \* usedCount: next index and the count so far
    always, ever, \* items used all the time, or at some time, since it began
    panicked
allocVars == <<at, idx, todo, held, leaked, noItem>>
countVars == <<count, always, ever>>
vars == <<flag, allocVars, rw, writes, countVars, panicked>>

Used == {i \in Items : flag[i] # NotUsed}
NotCounting == [i |-> NoIndex, n |-> 0]

\* The buffer of item i is made from its slice: it starts full, and its
\* capacity reaches to the end of the block.
Init ==
    /\ flag = [i \in Items |-> NotUsed]
    /\ at = [g \in Users |-> "idle"]
    /\ idx = [g \in Users |-> 0]
    /\ todo = [g \in Users |-> 0]
    /\ held = [g \in Users |-> {}]
    /\ leaked = {}
    /\ rw = [i \in Items |-> [len |-> ItemSize, cap |-> (ItemCount - i) * ItemSize]]
    /\ noItem = {}
    /\ writes = 0
    /\ count = NotCounting
    /\ always = {} /\ ever = {}
    /\ panicked = FALSE

\* What the counting goroutine could have observed, after a step of another.
Observe(used) == always' = always \cap used /\ ever' = ever \cup used

StartAlloc(g) ==
    /\ at[g] = "idle" /\ Cardinality(held[g]) < Quota[g]
    /\ at' = [at EXCEPT ![g] = "scan"]
    /\ idx' = [idx EXCEPT ![g] = 0]
    /\ noItem' = noItem \ {g}
    /\ UNCHANGED <<flag, todo, held, leaked, rw, writes, countVars, panicked>>

\* Mutant: the flag is not tested before it is set.
MutCas(i) == TRUE

\* The comparison of the compare-and-swap.
Cas(i) == flag[i] = NotUsed

\* The value an allocated item's flag is given.
Mark(i) == i

\* bytes.Buffer.Write on item i: the buffer moves to new memory when the data
\* does not fit its capacity.
BufferWrite(i, n) ==
    [rw EXCEPT ![i] = [len |-> @.len + n,
                       cap |-> IF @.len + n <= @.cap THEN @.cap ELSE 2 * @.cap + n]]

\* Mutant: the scan stops before the last item.
MutExhausted(i) == i >= ItemCount - 1

\* The loop of AllocBlockItem is over.
Exhausted(i) == i >= ItemCount

\* One turn of the loop of AllocBlockItem.  Called from Write, the new item
\* takes the data but is not linked to the item written to; when there is no
\* item, Write makes one without a buffer and dereferences nil.
Alloc(g) ==
    LET i == idx[g] IN
    /\ at[g] \in {"scan", "chain"}
    /\ IF Exhausted(i)
       THEN /\ at' = [at EXCEPT ![g] = "idle"]
            /\ IF at[g] = "scan" THEN noItem' = noItem \cup {g} /\ UNCHANGED panicked
               ELSE panicked' = TRUE /\ UNCHANGED noItem
            /\ UNCHANGED <<flag, idx, held, leaked, rw, always, ever>>
       ELSE IF Cas(i)
       THEN /\ flag' = [flag EXCEPT ![i] = Mark(i)]
            /\ at' = [at EXCEPT ![g] = "idle"]
            /\ IF at[g] = "scan"
               THEN held' = [held EXCEPT ![g] = @ \cup {i}] /\ UNCHANGED <<leaked, rw>>
               ELSE leaked' = leaked \cup {i} /\ rw' = BufferWrite(i, todo[g]) /\ UNCHANGED held
            /\ Observe(Used \cup {i})
            /\ UNCHANGED <<idx, noItem, panicked>>
       ELSE /\ idx' = [idx EXCEPT ![g] = i + 1]
            /\ UNCHANGED <<flag, at, held, leaked, noItem, rw, always, ever, panicked>>
    /\ UNCHANGED <<todo, writes, count>>

\* ReleaseBlockItem: the flag is read and, if in use, stored.  The chain it
\* walks is empty: next is only set on the path of Write that panics.
StartRelease(g, i) ==
    /\ at[g] = "idle" /\ i \in held[g]
    /\ at' = [at EXCEPT ![g] = IF flag[i] > NotUsed THEN "release" ELSE "idle"]
    /\ idx' = [idx EXCEPT ![g] = i]
    /\ held' = IF flag[i] > NotUsed THEN held ELSE [held EXCEPT ![g] = @ \ {i}]
    /\ UNCHANGED <<flag, todo, leaked, noItem, rw, writes, countVars, panicked>>

\* The item whose flag is stored.
Released(g) == idx[g]

Release(g) ==
    /\ at[g] = "release"
    /\ flag' = [flag EXCEPT ![Released(g)] = NotUsed]
    /\ held' = [held EXCEPT ![g] = @ \ {idx[g]}]
    /\ at' = [at EXCEPT ![g] = "idle"]
    /\ Observe(Used \ {Released(g)})
    /\ UNCHANGED <<idx, todo, leaked, noItem, rw, writes, count, panicked>>

\* Write to item i: what does not fit the buffer goes to another item, what is
\* larger than an item is refused (and changes nothing).
Write(g, i, n) ==
    /\ at[g] = "idle" /\ i \in held[g] /\ n <= ItemSize
    /\ writes < MaxWrites /\ writes' = writes + 1
    /\ IF n > rw[i].cap - rw[i].len
       THEN /\ at' = [at EXCEPT ![g] = "chain"]
            /\ idx' = [idx EXCEPT ![g] = 0]
            /\ todo' = [todo EXCEPT ![g] = n]
            /\ UNCHANGED rw
       ELSE /\ rw' = BufferWrite(i, n)
            /\ UNCHANGED <<at, idx, todo>>
    /\ UNCHANGED <<flag, held, leaked, noItem, countVars, panicked>>

\* usedCount, one flag at a time.
StartCount ==
    /\ count.i \in {NoIndex, ItemCount}
    /\ count' = [i |-> 0, n |-> 0]
    /\ always' = Used /\ ever' = Used
    /\ UNCHANGED <<flag, allocVars, rw, writes, panicked>>

\* Mutant: an unused flag counts too.
MutCounts(i) == flag[i] >= NotUsed

Counts(i) == flag[i] > NotUsed

CountOne ==
    /\ count.i \in Items
    /\ count' = [i |-> count.i + 1, n |-> count.n + IF Counts(count.i) THEN 1 ELSE 0]
    /\ UNCHANGED <<flag, allocVars, rw, writes, always, ever, panicked>>

Next ==
    /\ ~panicked
    /\ \/ \E g \in Users : StartAlloc(g) \/ Alloc(g) \/ Release(g)
       \/ \E g \in Users, i \in Items : StartRelease(g, i)
       \/ \E g \in Users, i \in Items, n \in 1 .. ItemSize : Write(g, i, n)
       \/ StartCount \/ CountOne

Spec == Init /\ [][Next]_vars

(***************************************************************************)
(* Properties.                                                             *)
(***************************************************************************)
\* The allocator's state has its type; a flag is item_not_used or the item's
\* own index.
TypeOK ==
    /\ flag \in [Items -> Items \cup {NotUsed}]
    /\ \A i \in Items : flag[i] \in {i, NotUsed}
    /\ at \in [Users -> {"idle", "scan", "chain", "release"}]
    /\ idx \in [Users -> 0 .. ItemCount]
    /\ todo \in [Users -> 0 .. ItemSize]
    /\ held \in [Users -> SUBSET Items]
    /\ leaked \in SUBSET Items /\ noItem \in SUBSET Users
    /\ rw \in [Items -> [len : Nat, cap : Nat]]
    /\ writes \in Nat /\ panicked \in BOOLEAN
    /\ count \in [i : {NoIndex} \cup (0 .. ItemCount), n : Nat]
    /\ always \in SUBSET Items /\ ever \in SUBSET Items

\* Although a release is a plain load and store and a scan looks at one item
\* after the other, no item is ever given to two goroutines, and an item is
\* flagged exactly while somebody holds it or Write has lost it.
OneHolder ==
    /\ \A i \in Items : \A g, h \in Users : i \in held[g] /\ i \in held[h] => g = h
    /\ \A i \in Items : flag[i] # NotUsed <=> i \in leaked \/ \E g \in Users : i \in held[g]
    /\ \A g \in Users : held[g] \cap leaked = {}

\* While nothing was lost by Write, goroutines whose quotas together do not
\* exceed the number of items are never told NOITEM, although items move
\* between them while they scan (TestAllocMultiThread relies on it).
QuotaServed == leaked = {} => noItem = {}

\* What usedCount returns while others allocate and release lies between the
\* number of items used all the time it ran and the number used at some time.
CountBounded ==
    count.i = ItemCount =>
        Cardinality(always) <= count.n /\ count.n <= Cardinality(ever)
=============================================================================
