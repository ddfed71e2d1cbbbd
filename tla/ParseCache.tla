------------------------------- MODULE ParseCache -------------------------------
(*****************************************************************************)
(* pkg/parser/cache.go: the cache of parse results.  A map from paths to     *)
(* items and a heap of the same items, ordered by how often each was         *)
(* accessed, under one lock.  Get looks the item up under the read lock,     *)
(* lets go, counts the access under the write lock, lets go, and then reads  *)
(* the result.  The other calls hold the lock all the time: each is a step.  *)
(*                                                                           *)
(* An item's place in the heap is counted from 1, and 0 stands for the       *)
(* code's -1.  A result and its hash are one value.  hits and misses, which  *)
(* only Stats reads, and ParsedAt, which nothing reads, are left out.        *)
(*****************************************************************************)
EXTENDS Integers, Sequences, FiniteSets, Functions

CONSTANTS Paths,    \* the paths of the files
          Values,   \* parse results, each with its hash
          Getters,  \* the goroutines that call Get
          MaxSize,  \* maxSize
          MaxCalls, \* bound: calls
          None      \* no item, no result

ASSUME MaxSizeAssumption == MaxSize \in Nat \ {0}
ASSUME MaxCallsAssumption == MaxCalls \in Nat
ASSUME NoneAssumption == None \notin Values /\ None \notin Nat

Items == 1..MaxCalls

VARIABLES items,    \* path -> its item
          heap,     \* order: the items as an array
          result,   \* item -> Result and Hash
          count,    \* item -> AccessCount
          index,    \* item -> index
          made,     \* how many items were made
          at,       \* getter -> "idle", "found" (between the locks) or "counted"
          held,     \* getter -> the item it looked up
          asked,    \* getter -> the path it asks for
          seen,     \* history: getter -> what the path held since Get began
          calls,    \* how many calls were made
          panicked  \* an index was out of range

vars == <<items, heap, result, count, index, made, at, held, asked, seen, calls, panicked>>

\* lruHeap.Less: what was accessed less often is evicted first.
LessAccessed(a, b) == a.count < b.count

lruHeap == INSTANCE Heap WITH Less <- LessAccessed

--------------------------------------------------------------------------------
Cached == {p \in Paths : items[p] # None}

\* The heap's array as Less sees it, and the items of such an array.
Ranked(h, c) == [i \in DOMAIN h |-> [item |-> h[i], count |-> c[h[i]]]]

Unranked(r) == [i \in DOMAIN r |-> r[i].item]

\* Swap, Push and Pop keep the index of every item they move: it is the place
\* in the array, and that of an item taken out is -1.
Reindexed(h, old) ==
    [o \in Items |-> IF \E i \in DOMAIN h : h[i] = o THEN CHOOSE i \in DOMAIN h : h[i] = o
                     ELSE IF o \in Range(heap) THEN 0 ELSE old[o]]

\* Wrong on purpose: Swap leaves the indices as they are.
SetHeapOnly(h) == heap' = h /\ index' = index

SetHeap(h) == heap' = h /\ index' = Reindexed(h, index)

\* heap.Fix does nothing with an index of -1, nor with 0 in an empty heap.
FixAt(h, i, c) ==
    IF i \in DOMAIN h THEN Unranked(lruHeap!Fix(Ranked(h, c), i)) ELSE h

\* Fix compares the item at i with its parent: out of range from index 1 on.
OutOfRange(h, i) == i > Len(h) /\ i > 1

\* A call is made: those that are running see what their path holds after it.
Called ==
    /\ ~panicked /\ calls < MaxCalls
    /\ calls' = calls + 1

Value(p) == IF items[p] = None THEN None ELSE result[items[p]]

Watched == seen' = [g \in Getters |-> IF at[g] = "idle" THEN {} ELSE seen[g] \cup {Value(asked[g])'}]

--------------------------------------------------------------------------------
Init ==
    /\ items = [p \in Paths |-> None] /\ heap = <<>>
    /\ result = [o \in Items |-> None]
    /\ count = [o \in Items |-> 0] /\ index = [o \in Items |-> 0]
    /\ made = 0
    /\ at = [g \in Getters |-> "idle"]
    /\ held = [g \in Getters |-> None] /\ asked = [g \in Getters |-> None]
    /\ seen = [g \in Getters |-> {}]
    /\ calls = 0 /\ panicked = FALSE

\* Get looks the path up; a path that is not there is a miss.
GetLookup(g, p) ==
    /\ Called /\ at[g] = "idle"
    /\ IF items[p] = None THEN UNCHANGED <<at, held, asked, seen>>
       ELSE /\ at' = [at EXCEPT ![g] = "found"]
            /\ held' = [held EXCEPT ![g] = items[p]]
            /\ asked' = [asked EXCEPT ![g] = p]
            /\ seen' = [seen EXCEPT ![g] = {Value(p)}]
    /\ UNCHANGED <<items, heap, result, count, index, made, panicked>>

\* Get counts the access of the item it found, wherever that item is now.
GetCount(g) ==
    /\ ~panicked /\ at[g] = "found"
    /\ count' = [count EXCEPT ![held[g]] = @ + 1]
    /\ IF OutOfRange(heap, index[held[g]])
       THEN panicked' = TRUE /\ UNCHANGED <<heap, index, at>>
       ELSE /\ SetHeap(FixAt(heap, index[held[g]], count'))
            /\ at' = [at EXCEPT ![g] = "counted"]
            /\ UNCHANGED panicked
    /\ UNCHANGED <<items, result, made, held, asked, seen, calls>>

\* Get reads the item's result and returns it.
GetReturn(g) ==
    /\ ~panicked /\ at[g] = "counted"
    /\ at' = [at EXCEPT ![g] = "idle"]
    /\ held' = [held EXCEPT ![g] = None] /\ asked' = [asked EXCEPT ![g] = None]
    /\ seen' = [seen EXCEPT ![g] = {}]
    /\ UNCHANGED <<items, heap, result, count, index, made, calls, panicked>>

\* Put on a path that is cached: the item gets the new result.
PutOver(p, v) ==
    /\ Called /\ items[p] # None
    /\ result' = [result EXCEPT ![items[p]] = v]
    /\ count' = [count EXCEPT ![items[p]] = @ + 1]
    /\ SetHeap(FixAt(heap, index[items[p]], count'))
    /\ UNCHANGED <<items, made, at, held, asked, panicked>>
    /\ Watched

\* Wrong on purpose: an item that is out of the cache is used again.
NewItemRecycled == CHOOSE o \in Items : o \notin Range(heap)

NewItem == made + 1

\* Wrong on purpose: one entry too many is kept.
OverCapacityByTwo(h) == Len(h) > MaxSize + 1

OverCapacity(h) == Len(h) > MaxSize

\* heap.Pop: the entry accessed least often, not the one that was not for longest.
Evict(h) == [rest |-> lruHeap!PopRest(h), out |-> Head(h)]

\* Put on another path: a new item, and one evicted if there are too many.
\* The size exceeds the maximum by one at most: the loop runs once.
PutNew(p, v) ==
    LET o == NewItem
        pushed == lruHeap!Push(Ranked(heap, count), [item |-> o, count |-> 0])
    IN  /\ Called /\ items[p] = None
        /\ result' = [result EXCEPT ![o] = v]
        /\ count' = [count EXCEPT ![o] = 0]
        /\ made' = made + 1
        /\ IF OverCapacity(pushed)
           THEN LET e == Evict(pushed)
                IN  /\ heap' = Unranked(e.rest)
                    /\ index' = [Reindexed(heap', index) EXCEPT ![e.out.item] = 0]
                    /\ items' = [q \in Paths |->
                           LET now == IF q = p THEN o ELSE items[q]
                           IN  IF now = e.out.item THEN None ELSE now]
           ELSE SetHeap(Unranked(pushed)) /\ items' = [items EXCEPT ![p] = o]
        /\ UNCHANGED <<at, held, asked, panicked>>
        /\ Watched

\* heap.Remove of the item o.
Drop(r, o) == lruHeap!RemoveAt(r, CHOOSE i \in DOMAIN r : r[i].item = o)

\* heap.Remove of the items os, one after another.
Without(h, os) ==
    LET left[i \in 0..Len(os)] ==
            IF i = 0 THEN Ranked(h, count) ELSE Drop(left[i - 1], os[i])
    IN  Unranked(left[Len(os)])

Remove(p) ==
    /\ Called /\ items[p] # None
    /\ items' = [items EXCEPT ![p] = None]
    /\ SetHeap(Without(heap, <<items[p]>>))
    /\ UNCHANGED <<result, count, made, at, held, asked, panicked>>
    /\ Watched

\* A new map and a new heap: the items keep their indices.
Clear ==
    /\ Called
    /\ items' = [p \in Paths |-> None] /\ heap' = <<>>
    /\ UNCHANGED <<result, count, index, made, at, held, asked, panicked>>
    /\ Watched

\* The paths whose entries are not, or no longer, in current.
Outdated(current) == {p \in Cached : p \notin DOMAIN current \/ current[p] # result[items[p]]}

\* The orders map iteration may give the elements of S.
Orders(S) == Bijection(1..Cardinality(S), S)

\* Invalidate takes them out in the order the map lists them.
Invalidate(current) ==
    /\ Called /\ Outdated(current) # {}
    /\ \E order \in Orders({items[p] : p \in Outdated(current)}) :
           SetHeap(Without(heap, order))
    /\ items' = [p \in Paths |-> IF p \in Outdated(current) THEN None ELSE items[p]]
    /\ UNCHANGED <<result, count, made, at, held, asked, panicked>>
    /\ Watched

Hashes == UNION {[D -> Values] : D \in SUBSET Paths}

Next ==
    \/ \E g \in Getters : GetCount(g) \/ GetReturn(g) \/ \E p \in Paths : GetLookup(g, p)
    \/ \E p \in Paths : Remove(p) \/ \E v \in Values : PutOver(p, v) \/ PutNew(p, v)
    \/ Clear
    \/ \E current \in Hashes : Invalidate(current)

Spec == Init /\ [][Next]_vars

--------------------------------------------------------------------------------
\* The types of the cache's state.
TypeOK ==
    /\ items \in [Paths -> Items \cup {None}] /\ heap \in Seq(Items)
    /\ result \in [Items -> Values \cup {None}]
    /\ count \in [Items -> Nat] /\ index \in [Items -> 0..MaxSize]
    /\ made \in 0..MaxCalls /\ calls \in 0..MaxCalls /\ panicked \in BOOLEAN
    /\ at \in [Getters -> {"idle", "found", "counted"}]
    /\ held \in [Getters -> Items \cup {None}] /\ asked \in [Getters -> Paths \cup {None}]
    /\ seen \in [Getters -> SUBSET (Values \cup {None})]

\* The map and the heap hold the same items, each once and at its index, and
\* never more than maxSize, although items are counted that are in neither; and
\* the array is a heap by access count whenever the lock is free, also after a
\* Get has fixed a place that holds another item than the one it counted.
MapAndHeapAgree ==
    /\ Range(heap) = {items[p] : p \in Cached} /\ Len(heap) = Cardinality(Cached)
    /\ \A i \in DOMAIN heap : index[heap[i]] = i
    /\ Len(heap) <= MaxSize
    /\ ~panicked => lruHeap!IsHeap(Ranked(heap, count))

\* What Get is about to return is what its path held at some point since Get
\* began: never another path's result, never one from before.
ReturnsCurrent == \A g \in Getters : at[g] # "idle" => result[held[g]] \in seen[g]

\* "ParseCache is a thread-safe LRU cache" (cache.go:18): no order of calls
\* makes one of them panic.
NeverPanics == ~panicked
================================================================================
