--------------------------- MODULE ParseCache_proofs ---------------------------
(*****************************************************************************)
(* Theorems about the parse cache, for every set of paths, results and       *)
(* getters, every maxSize and any number of calls: its map and its heap      *)
(* agree, Get returns what its path held, and what is evicted was accessed   *)
(* least.                                                                    *)
(*****************************************************************************)
EXTENDS ParseCache, FiniteSetTheorems, SequenceTheorems, TLAPS

Ranks == INSTANCE Heap_proofs WITH Less <- LessAccessed

--------------------------------------------------------------------------------
(* The heap's array                                                           *)

RankedItem == [item : Items, count : Nat]

Rank(o, c) == [item |-> o, count |-> c[o]]

RanksOf(S, c) == {Rank(o, c) : o \in S}

\* Less orders the items.
LEMMA LessOrders == Ranks!Ordered(RankedItem)
  BY DEF Ranks!Ordered, LessAccessed, RankedItem

\* The two instances of Heap have the same operators.
LEMMA SameHeap == \A h : lruHeap!IsHeap(h) <=> Ranks!IsHeap(h)
  BY DEF lruHeap!IsHeap, Ranks!IsHeap, lruHeap!Parent, Ranks!Parent

LEMMA SamePush == \A h, y : lruHeap!Push(h, y) = Ranks!Push(h, y)
  BY DEF Ranks!Push, lruHeap!Push, lruHeap!Up, Ranks!Up, lruHeap!Ascent, Ranks!Ascent,
         lruHeap!Parent, Ranks!Parent

LEMMA SamePopRest == \A h : lruHeap!PopRest(h) = Ranks!PopRest(h)
  BY DEF lruHeap!PopRest, Ranks!PopRest, lruHeap!Front, Ranks!Front,
         lruHeap!SwapLast, Ranks!SwapLast, lruHeap!Down, Ranks!Down,
         lruHeap!Descent, Ranks!Descent, lruHeap!Child, Ranks!Child

LEMMA SameSettle == \A h, i, n : lruHeap!Settle(h, i, n) = Ranks!Settle(h, i, n)
  BY DEF lruHeap!Settle, Ranks!Settle, lruHeap!Down, Ranks!Down, lruHeap!Up, Ranks!Up,
         lruHeap!Ascent, Ranks!Ascent, lruHeap!Parent, Ranks!Parent,
         lruHeap!Descent, Ranks!Descent, lruHeap!Child, Ranks!Child

LEMMA SameFix == \A h, i : lruHeap!Fix(h, i) = Ranks!Fix(h, i)
  BY SameSettle DEF lruHeap!Fix, Ranks!Fix

LEMMA SameRemoveAt == \A h, i : lruHeap!RemoveAt(h, i) = Ranks!RemoveAt(h, i)
  BY SameSettle DEF lruHeap!RemoveAt, Ranks!RemoveAt, lruHeap!Front, Ranks!Front,
                    lruHeap!SwapLast, Ranks!SwapLast

\* What the array holds is the items with their counts.
LEMMA RankedIs ==
    ASSUME NEW h \in Seq(Items), NEW c \in [Items -> Nat]
    PROVE  /\ Ranked(h, c) \in Seq(RankedItem) /\ Len(Ranked(h, c)) = Len(h)
           /\ \A i \in 1..Len(h) : Ranked(h, c)[i] = Rank(h[i], c)
           /\ Ranks!Members(Ranked(h, c)) = RanksOf(Range(h), c)
           /\ IsInjective(h) => Ranks!Distinct(Ranked(h, c))
<1>1. PICK n \in Nat : n = Len(h) /\ DOMAIN h = 1..n /\ \A i \in 1..n : h[i] \in Items
  BY LenProperties, ElementOfSeq
<1>2. PICK r : r = Ranked(h, c)
  OBVIOUS
<1>3. DOMAIN r = 1..n /\ \A i \in 1..n : r[i] = Rank(h[i], c) /\ r[i].item = h[i]
  BY <1>1, <1>2 DEF Ranked, Rank
<1>4. \A i \in 1..n : Rank(h[i], c) \in RankedItem
  BY <1>1 DEF Rank, RankedItem
<1>5. r \in [1..n -> RankedItem]
  BY <1>1, <1>2, <1>3, <1>4 DEF Ranked
<1>6. r \in Seq(RankedItem) /\ Len(r) = n
  <2>1. r \in Seq(RankedItem)
    BY <1>5, SeqDef
  <2> QED
    BY <1>3, <2>1, LenProperties
<1>7. Ranks!Members(r) = RanksOf(Range(h), c)
  BY <1>1, <1>3 DEF Ranks!Members, RanksOf, Range
<1>8. IsInjective(h) => Ranks!Distinct(r)
  BY <1>1, <1>3 DEF Ranks!Distinct, IsInjective
<1> QED
  BY <1>1, <1>2, <1>3, <1>6, <1>7, <1>8

\* And the other way round: the items of such an array, with its counts.
LEMMA UnrankedIs ==
    ASSUME NEW r \in Seq(RankedItem), Ranks!Distinct(r),
           NEW S \in SUBSET Items, NEW c \in [Items -> Nat], Ranks!Members(r) = RanksOf(S, c)
    PROVE  /\ Unranked(r) \in Seq(Items) /\ Len(Unranked(r)) = Len(r)
           /\ IsInjective(Unranked(r)) /\ Range(Unranked(r)) = S
           /\ Ranked(Unranked(r), c) = r
<1>1. PICK n \in Nat : n = Len(r) /\ DOMAIN r = 1..n /\ \A i \in 1..n : r[i] \in RankedItem
  BY LenProperties, ElementOfSeq
<1>2. PICK u : u = Unranked(r)
  OBVIOUS
<1>3. DOMAIN u = 1..n /\ \A i \in 1..n : u[i] = r[i].item
  BY <1>1, <1>2 DEF Unranked
<1>4. \A i \in 1..n : u[i] \in S /\ r[i] = Rank(u[i], c)
  <2> TAKE i \in 1..n
  <2>1. PICK o \in S : r[i] = Rank(o, c)
    BY <1>1 DEF Ranks!Members, RanksOf
  <2> QED
    BY <1>3, <2>1 DEF Rank
<1>5. u \in [1..n -> Items]
  BY <1>1, <1>2, <1>3, <1>4 DEF Unranked
<1>6. u \in Seq(Items) /\ Len(u) = n
  <2>1. u \in Seq(Items)
    BY <1>5, SeqDef
  <2> QED
    BY <1>3, <2>1, LenProperties
<1>7. IsInjective(u)
  BY <1>1, <1>3, <1>4 DEF IsInjective, Ranks!Distinct
<1>8. \A o \in S : \E i \in 1..n : u[i] = o
  <2> TAKE o \in S
  <2>1. PICK i \in 1..n : r[i] = Rank(o, c)
    BY <1>1 DEF Ranks!Members, RanksOf
  <2> QED
    BY <1>3, <2>1 DEF Rank
<1>9. Range(u) = S
  BY <1>3, <1>4, <1>8 DEF Range
<1>10. Ranked(u, c) = r
  <2>1. PICK s : s = Ranked(u, c)
    OBVIOUS
  <2>2. s \in Seq(RankedItem) /\ Len(s) = n /\ \A i \in 1..n : s[i] = Rank(u[i], c)
    BY <1>6, <2>1, RankedIs
  <2>3. s = r
    BY <1>1, <1>4, <2>2, SeqEqual
  <2> QED
    BY <2>1, <2>3
<1> QED
  BY <1>1, <1>2, <1>6, <1>7, <1>9, <1>10

\* The array of a heap of the items S with the counts c.
IsArray(r, S, c) ==
    /\ r \in Seq(RankedItem) /\ Ranks!Distinct(r) /\ Ranks!IsHeap(r)
    /\ Ranks!Members(r) = RanksOf(S, c)

\* The items S, each once, in an order that makes a heap of their counts c.
HeapOf(h, S, c) ==
    /\ h \in Seq(Items) /\ IsInjective(h) /\ Range(h) = S
    /\ lruHeap!IsHeap(Ranked(h, c))

LEMMA ArrayOfHeap ==
    ASSUME NEW h, NEW S, NEW c \in [Items -> Nat], HeapOf(h, S, c)
    PROVE  IsArray(Ranked(h, c), S, c)
  BY RankedIs, SameHeap DEF HeapOf, IsArray

LEMMA HeapOfArray ==
    ASSUME NEW r, NEW S \in SUBSET Items, NEW c \in [Items -> Nat], IsArray(r, S, c)
    PROVE  HeapOf(Unranked(r), S, c) /\ Len(Unranked(r)) = Len(r)
  BY UnrankedIs, SameHeap DEF HeapOf, IsArray

\* The array is as long as there are items.
LEMMA HeapCard ==
    ASSUME NEW h, NEW S, NEW c, HeapOf(h, S, c)
    PROVE  IsFiniteSet(S) /\ Cardinality(S) = Len(h) /\ Len(h) \in Nat
<1>1. PICK n \in Nat : n = Len(h) /\ DOMAIN h = 1..n /\ \A i \in 1..n : h[i] \in Items
  BY LenProperties, ElementOfSeq DEF HeapOf
<1>2. h \in [1..n -> S]
  <2>1. h \in [1..n -> Items]
    BY <1>1, LenProperties DEF HeapOf
  <2>2. \A i \in 1..n : h[i] \in S
    BY <1>1 DEF HeapOf, Range
  <2> QED
    BY <2>1, <2>2
<1>3. h \in Bijection(1..n, S)
  <2>1. h \in Injection(1..n, S)
    BY <1>1, <1>2 DEF HeapOf, Injection
  <2>2. h \in Surjection(1..n, S)
    BY <1>1, <1>2 DEF HeapOf, Surjection, Range
  <2> QED
    BY <2>1, <2>2 DEF Bijection
<1>4. ExistsBijection(1..n, S)
  BY <1>3 DEF ExistsBijection
<1>5. IsFiniteSet(1..n) /\ Cardinality(1..n) = n
  BY FS_Interval
<1> QED
  BY <1>1, <1>4, <1>5, FS_Bijection

\* heap.Fix at i restores the heap when only the count of the item at i changed;
\* given the index of no item it changes nothing.
LEMMA FixAtIs ==
    ASSUME NEW S \in SUBSET Items, NEW c \in [Items -> Nat], NEW d \in [Items -> Nat],
           NEW h, HeapOf(h, S, c), NEW i \in Nat,
           \A o \in S : d[o] # c[o] => i \in DOMAIN h /\ h[i] = o
    PROVE  HeapOf(FixAt(h, i, d), S, d) /\ Len(FixAt(h, i, d)) = Len(h)
<1>1. h \in Seq(Items) /\ IsInjective(h) /\ Range(h) = S
  BY DEF HeapOf
<1>2. PICK n \in Nat : n = Len(h) /\ DOMAIN h = 1..n /\ \A k \in 1..n : h[k] \in S
  <2>1. Len(h) \in Nat /\ DOMAIN h = 1..Len(h)
    BY <1>1, LenProperties
  <2>2. \A k \in DOMAIN h : h[k] \in S
    BY <1>1 DEF Range
  <2> QED
    BY <2>1, <2>2
<1>3. PICK a : a = Ranked(h, c)
  OBVIOUS
<1>4. PICK b : b = Ranked(h, d)
  OBVIOUS
<1>5. /\ a \in Seq(RankedItem) /\ Len(a) = n /\ \A k \in 1..n : a[k] = Rank(h[k], c)
      /\ Ranks!IsHeap(a)
  BY <1>1, <1>2, <1>3, RankedIs, SameHeap DEF HeapOf
<1>6. /\ b \in Seq(RankedItem) /\ Len(b) = n /\ \A k \in 1..n : b[k] = Rank(h[k], d)
      /\ Ranks!Members(b) = RanksOf(S, d) /\ Ranks!Distinct(b)
  BY <1>1, <1>2, <1>4, RankedIs
<1>7. \A k \in 1..n : k # i => b[k] = a[k]
  <2> TAKE k \in 1..n
  <2>1. ASSUME k # i PROVE d[h[k]] = c[h[k]]
    BY <1>1, <1>2, <2>1 DEF IsInjective
  <2> QED
    BY <1>5, <1>6, <2>1 DEF Rank
<1>8. CASE i \notin 1..n
  <2>1. b = a
    BY <1>5, <1>6, <1>7, <1>8, SeqEqual
  <2>2. FixAt(h, i, d) = h
    BY <1>2, <1>8 DEF FixAt
  <2> QED
    BY <1>3, <1>4, <2>1, <2>2 DEF HeapOf
<1>9. CASE i \in 1..n
  <2>1. Ranks!NearHeap(b, i, n)
    <3>1. \A k \in 2..n : k \in 1..n /\ Ranks!Parent(k) \in 1..n /\ Ranks!Parent(k) # k
      BY <1>2 DEF Ranks!Parent
    <3>2. \A k \in 2..n : ~LessAccessed(a[k], a[Ranks!Parent(k)])
      BY <1>5 DEF Ranks!IsHeap
    <3>3. \A k \in 2..n : k # i /\ Ranks!Parent(k) # i => ~LessAccessed(b[k], b[Ranks!Parent(k)])
      BY <1>7, <3>1, <3>2
    <3>4. ASSUME i > 1, NEW k \in 2..n, Ranks!Parent(k) = i
          PROVE  ~LessAccessed(b[k], b[Ranks!Parent(i)])
      <4>1. i \in 2..n /\ k # i /\ Ranks!Parent(i) # i
        BY <1>2, <1>9, <3>1, <3>4
      <4>2. ~LessAccessed(a[k], a[i]) /\ ~LessAccessed(a[i], a[Ranks!Parent(i)])
        BY <3>2, <3>4, <4>1
      <4>3. a[k] \in RankedItem /\ a[i] \in RankedItem /\ a[Ranks!Parent(i)] \in RankedItem
        BY <1>5, <1>9, <3>1, <4>1, ElementOfSeq
      <4>4. ~LessAccessed(a[k], a[Ranks!Parent(i)])
        BY <4>2, <4>3 DEF LessAccessed, RankedItem
      <4> QED
        BY <1>7, <3>1, <4>1, <4>4
    <3> QED
      BY <3>3, <3>4 DEF Ranks!NearHeap
  <2>2. PICK f : f = lruHeap!Fix(b, i)
    OBVIOUS
  <2>3. IsArray(f, S, d) /\ Len(f) = n
    <3>1. f = Ranks!Fix(b, i)
      BY <2>2, SameFix
    <3>2. /\ f \in Seq(RankedItem) /\ Len(f) = n /\ Ranks!IsHeap(f)
          /\ Ranks!Members(f) = Ranks!Members(b) /\ Ranks!Distinct(f)
      BY <1>6, <1>9, <2>1, <3>1, LessOrders, Ranks!FixCorrect
    <3> QED
      BY <1>6, <3>2 DEF IsArray
  <2>4. FixAt(h, i, d) = Unranked(f)
    BY <1>2, <1>4, <1>9, <2>2 DEF FixAt
  <2> QED
    BY <1>2, <2>3, <2>4, HeapOfArray
<1> QED
  BY <1>8, <1>9

\* heap.Push of a new item.
LEMMA PushedIs ==
    ASSUME NEW S \in SUBSET Items, NEW c \in [Items -> Nat], NEW d \in [Items -> Nat],
           NEW h, HeapOf(h, S, c), NEW o \in Items, o \notin S,
           d[o] = 0, \A s \in S : d[s] = c[s],
           NEW r, r = lruHeap!Push(Ranked(h, c), [item |-> o, count |-> 0]),
           NEW n \in Nat, n = Len(h)
    PROVE  IsArray(r, S \cup {o}, d) /\ Len(r) = n + 1
<1>1. h \in Seq(Items) /\ IsInjective(h) /\ Range(h) = S
  BY DEF HeapOf
<1>2. DOMAIN h = 1..n /\ \A k \in 1..n : h[k] \in S
  <2>1. DOMAIN h = 1..Len(h)
    BY <1>1, LenProperties
  <2>2. \A k \in DOMAIN h : h[k] \in S
    BY <1>1 DEF Range
  <2> QED
    BY <2>1, <2>2
<1>3. PICK a : a = Ranked(h, c)
  OBVIOUS
<1>4. IsArray(a, S, d) /\ Len(a) = n
  <2>1. IsArray(a, S, c) /\ Len(a) = n
    BY <1>1, <1>2, <1>3, ArrayOfHeap, RankedIs
  <2>2. RanksOf(S, c) = RanksOf(S, d)
    BY DEF RanksOf, Rank
  <2> QED
    BY <2>1, <2>2 DEF IsArray
<1>5. PICK x : x = [item |-> o, count |-> 0]
  OBVIOUS
<1>6. x = Rank(o, d) /\ x \in RankedItem /\ x \notin Ranks!Members(a)
  <2>1. x = Rank(o, d) /\ x \in RankedItem
    BY <1>5 DEF Rank, RankedItem
  <2>2. \A s \in S : Rank(s, d) # x
    BY <1>5 DEF Rank
  <2> QED
    BY <1>4, <2>1, <2>2 DEF IsArray, RanksOf
<1>7. r = Ranks!Push(a, x)
  BY <1>3, <1>5, SamePush
<1>8. /\ r \in Seq(RankedItem) /\ Len(r) = n + 1 /\ Ranks!IsHeap(r)
      /\ Ranks!Members(r) = Ranks!Members(a) \cup {x} /\ Ranks!Distinct(r)
  <2>1. a \in Seq(RankedItem) /\ Ranks!IsHeap(a) /\ Ranks!Distinct(a) /\ Len(a) = n
    BY <1>4 DEF IsArray
  <2>2. x \in RankedItem /\ x \notin Ranks!Members(a)
    BY <1>6
  <2>3. /\ Ranks!Push(a, x) \in Seq(RankedItem) /\ Len(Ranks!Push(a, x)) = n + 1
        /\ Ranks!IsHeap(Ranks!Push(a, x))
        /\ Ranks!Members(Ranks!Push(a, x)) = Ranks!Members(a) \cup {x}
        /\ Ranks!Distinct(Ranks!Push(a, x))
    <3>1. PICK g : g = Ranks!Push(a, x)
      OBVIOUS
    <3>2. g \in Seq(RankedItem) /\ Len(g) = Len(a) + 1
      BY <2>1, <2>2, <3>1, LessOrders, Ranks!PushCorrect
    <3>3. Ranks!IsHeap(g)
      BY <2>1, <2>2, <3>1, LessOrders, Ranks!PushCorrect
    <3>4. Ranks!Members(g) = Ranks!Members(a) \cup {x}
      <4>1. Ranks!Members(Ranks!Push(a, x)) = Ranks!Members(a) \cup {x}
        BY <2>1, <2>2, LessOrders, Ranks!PushCorrect, SMTT(30)
      <4> QED
        BY <3>1, <4>1
    <3>5. Ranks!Distinct(g)
      BY <2>1, <2>2, <3>1, LessOrders, Ranks!PushCorrect
    <3> QED
      BY <2>1, <3>1, <3>2, <3>3, <3>4, <3>5
  <2> QED
    BY <1>7, <2>3
<1>9. Ranks!Members(r) = RanksOf(S \cup {o}, d)
  BY <1>4, <1>6, <1>8 DEF IsArray, RanksOf
<1> QED
  BY <1>2, <1>8, <1>9 DEF IsArray

\* heap.Pop takes out an item that was accessed no more often than any other.
LEMMA PoppedIs ==
    ASSUME NEW S \in SUBSET Items, NEW c \in [Items -> Nat],
           NEW r, IsArray(r, S, c), Len(r) >= 1
    PROVE  /\ Head(r).item \in S /\ \A o \in S : c[Head(r).item] <= c[o]
           /\ IsArray(lruHeap!PopRest(r), S \ {Head(r).item}, c)
           /\ Len(lruHeap!PopRest(r)) = Len(r) - 1
<1>1. r \in Seq(RankedItem) /\ Ranks!Distinct(r) /\ Ranks!IsHeap(r) /\ Ranks!Members(r) = RanksOf(S, c)
  BY DEF IsArray
<1>2. PICK n \in Nat : n = Len(r) /\ DOMAIN r = 1..n /\ n >= 1
  BY <1>1, LenProperties
<1>3. Head(r) = r[1]
  BY <1>1, <1>2, HeadTailProperties, EmptySeq
<1>4. PICK out \in S : r[1] = Rank(out, c)
  <2>1. 1 \in DOMAIN r
    BY <1>2
  <2> QED
    BY <1>1, <2>1 DEF Ranks!Members, RanksOf
<1>5. Head(r).item = out
  BY <1>3, <1>4 DEF Rank
<1>6. \A o \in S : c[out] <= c[o]
  <2> TAKE o \in S
  <2>1. PICK k \in 1..n : r[k] = Rank(o, c)
    BY <1>1, <1>2 DEF Ranks!Members, RanksOf
  <2>2. ~LessAccessed(r[k], r[1])
    BY <1>1, <1>2, LessOrders, Ranks!TopIsLeast
  <2>3. c[out] \in Nat /\ c[o] \in Nat
    OBVIOUS
  <2> QED
    BY <1>4, <2>1, <2>2, <2>3 DEF LessAccessed, Rank
<1>7. PICK q : q = lruHeap!PopRest(r)
  OBVIOUS
<1>8. /\ q \in Seq(RankedItem) /\ Len(q) = n - 1 /\ Ranks!IsHeap(q) /\ Ranks!Distinct(q)
      /\ Ranks!Members(q) = Ranks!Members(r) \ {r[1]}
  <2>1. q = Ranks!PopRest(r)
    BY <1>7, SamePopRest
  <2> QED
    BY <1>1, <1>2, <2>1, LessOrders, Ranks!PopRestCorrect
<1>9. Ranks!Members(q) = RanksOf(S \ {out}, c)
  BY <1>1, <1>4, <1>8 DEF RanksOf, Rank
<1> QED
  BY <1>2, <1>5, <1>6, <1>7, <1>8, <1>9 DEF IsArray

\* heap.Remove of one of the items.
LEMMA DropIs ==
    ASSUME NEW S \in SUBSET Items, NEW c \in [Items -> Nat],
           NEW r, IsArray(r, S, c), NEW o \in S
    PROVE  IsArray(Drop(r, o), S \ {o}, c)
<1>1. r \in Seq(RankedItem) /\ Ranks!Distinct(r) /\ Ranks!IsHeap(r) /\ Ranks!Members(r) = RanksOf(S, c)
  BY DEF IsArray
<1>2. PICK n \in Nat : n = Len(r) /\ DOMAIN r = 1..n
  BY <1>1, LenProperties
<1>3. \E i \in 1..n : r[i] = Rank(o, c)
  BY <1>1, <1>2 DEF Ranks!Members, RanksOf
<1>4. PICK i : i = CHOOSE k \in DOMAIN r : r[k].item = o
  OBVIOUS
<1>5. i \in 1..n /\ r[i].item = o
  BY <1>2, <1>3, <1>4 DEF Rank
<1>6. r[i] = Rank(o, c)
  <2>1. r[i] \in RanksOf(S, c)
    BY <1>1, <1>2, <1>5 DEF Ranks!Members
  <2>2. PICK x \in S : r[i] = Rank(x, c)
    BY <2>1 DEF RanksOf
  <2>3. x = o
    BY <1>5, <2>2 DEF Rank
  <2> QED
    BY <2>2, <2>3
<1>7. PICK q : q = Drop(r, o)
  OBVIOUS
<1>8. /\ q \in Seq(RankedItem) /\ Ranks!IsHeap(q) /\ Ranks!Distinct(q)
      /\ Ranks!Members(q) = Ranks!Members(r) \ {r[i]}
  <2>1. q = Ranks!RemoveAt(r, i)
    BY <1>4, <1>7, SameRemoveAt DEF Drop
  <2> QED
    BY <1>1, <1>2, <1>5, <2>1, LessOrders, Ranks!RemoveAtCorrect
<1>9. Ranks!Members(q) = RanksOf(S \ {o}, c)
  BY <1>1, <1>6, <1>8 DEF RanksOf, Rank
<1> QED
  BY <1>7, <1>8, <1>9 DEF IsArray

\* f[i] is the array r after heap.Remove of the first i items of os.
Leaves(f, n, os, r) == f = [i \in 0..n |-> IF i = 0 THEN r ELSE Drop(f[i - 1], os[i])]

LEMMA LeavesExist ==
    ASSUME NEW n \in Nat, NEW os, NEW r
    PROVE  \E f : Leaves(f, n, os, r)
<1> DEFINE Has(m) == \E f : Leaves(f, m, os, r)
           Bad == {m \in 0..n : ~Has(m)}
<1>1. SUFFICES ASSUME ~Has(n) PROVE FALSE
  OBVIOUS
<1>2. PICK m \in Bad : \A k \in Bad : m <= k
  <2> HIDE DEF Has
  <2>1. Bad \in SUBSET Nat /\ Bad # {}
    BY <1>1
  <2> HIDE DEF Bad
  <2> QED
    BY <2>1, Ranks!LeastNat
<1>3. CASE m = 0
  <2> DEFINE g == [i \in 0..0 |-> r]
  <2>1. g = [i \in 0..0 |-> IF i = 0 THEN r ELSE Drop(g[i - 1], os[i])]
    OBVIOUS
  <2> HIDE DEF g
  <2>2. Has(0)
    BY <2>1 DEF Leaves
  <2> HIDE DEF Has
  <2> QED
    BY <1>2, <1>3, <2>2
<1>4. CASE m # 0
  <2>1. m - 1 \in 0..n /\ m \in 1..n /\ Has(m - 1)
    <3> HIDE DEF Has
    <3> QED
      BY <1>2, <1>4
  <2>2. PICK f : f = [i \in 0..(m - 1) |-> IF i = 0 THEN r ELSE Drop(f[i - 1], os[i])]
    BY <2>1 DEF Leaves
  <2> DEFINE g == [i \in 0..m |-> IF i = m THEN Drop(f[m - 1], os[m]) ELSE f[i]]
  <2>3. \A i \in 0..m : g[i] = IF i = 0 THEN r ELSE Drop(g[i - 1], os[i])
    <3> TAKE i \in 0..m
    <3>1. CASE i = m
      <4>1. g[m - 1] = f[m - 1] /\ m # 0 /\ g[m] = Drop(f[m - 1], os[m])
        BY <2>1
      <4> QED
        BY <3>1, <4>1
    <3>2. CASE i = 0
      <4>1. g[0] = f[0] /\ f[0] = r
        BY <2>1, <2>2
      <4> QED
        BY <3>2, <4>1
    <3>3. CASE i # m /\ i # 0
      <4>1. i \in 0..(m - 1) /\ i - 1 \in 0..(m - 1) /\ i - 1 \in 0..m /\ i - 1 # m
        BY <2>1, <3>3
      <4>2. g[i] = f[i] /\ g[i - 1] = f[i - 1]
        BY <3>3, <4>1
      <4>3. f[i] = Drop(f[i - 1], os[i])
        BY <2>2, <3>3, <4>1
      <4> QED
        BY <3>3, <4>2, <4>3
    <3> QED
      BY <3>1, <3>2, <3>3
  <2>4. g = [i \in 0..m |-> IF i = 0 THEN r ELSE Drop(g[i - 1], os[i])]
    BY <2>3
  <2> HIDE DEF g
  <2>5. Has(m)
    BY <2>4 DEF Leaves
  <2> HIDE DEF Has
  <2> QED
    BY <1>2, <2>5
<1> QED
  BY <1>3, <1>4

\* heap.Remove of several items, in any order.
LEMMA WithoutIs ==
    ASSUME count \in [Items -> Nat], NEW S \in SUBSET Items, NEW h, HeapOf(h, S, count),
           NEW os \in Seq(S), IsInjective(os)
    PROVE  HeapOf(Without(h, os), S \ Range(os), count)
<1>1. PICK n \in Nat : n = Len(os) /\ DOMAIN os = 1..n /\ \A i \in 1..n : os[i] \in S
  BY LenProperties, ElementOfSeq
<1>2. PICK r : r = Ranked(h, count)
  OBVIOUS
<1>3. IsArray(r, S, count)
  BY <1>2, ArrayOfHeap
<1>4. PICK f : Leaves(f, n, os, r) /\ Without(h, os) = Unranked(f[n])
  <2> DEFINE f == CHOOSE f : Leaves(f, n, os, r)
  <2>1. Leaves(f, n, os, r)
    BY LeavesExist
  <2>2. Without(h, os) = Unranked(f[n])
    BY <1>1, <1>2 DEF Without, Leaves
  <2> HIDE DEF f
  <2> QED
    BY <2>1, <2>2
<1> DEFINE Gone(k) == {os[i] : i \in 1..k}
           Good(k) == IsArray(f[k], S \ Gone(k), count)
           Bad == {k \in 0..n : ~Good(k)}
<1>5. Good(0)
  <2>1. f[0] = r /\ S \ Gone(0) = S
    BY <1>4 DEF Leaves
  <2> QED
    BY <1>3, <2>1
<1>6. ASSUME NEW k \in 1..n, Good(k - 1)
      PROVE  Good(k)
  <2>1. k - 1 \in 0..n /\ k \in 0..n /\ k # 0 /\ f[k] = Drop(f[k - 1], os[k])
    BY <1>4 DEF Leaves
  <2>2. os[k] \in S \ Gone(k - 1)
    <3>1. \A i \in 1..(k - 1) : i \in 1..n /\ i # k
      OBVIOUS
    <3> QED
      BY <1>1, <3>1 DEF IsInjective
  <2>3. (S \ Gone(k - 1)) \ {os[k]} = S \ Gone(k)
    <3>1. \A i \in 1..k : i = k \/ i \in 1..(k - 1)
      OBVIOUS
    <3>2. k \in 1..k /\ \A i \in 1..(k - 1) : i \in 1..k
      OBVIOUS
    <3> QED
      BY <3>1, <3>2
  <2> HIDE DEF Gone
  <2>4. IsArray(Drop(f[k - 1], os[k]), (S \ Gone(k - 1)) \ {os[k]}, count)
    BY <1>6, <2>2, DropIs
  <2> QED
    BY <2>1, <2>3, <2>4
<1>7. Good(n)
  <2> HIDE DEF Good
  <2>1. SUFFICES ASSUME Bad # {} PROVE FALSE
    OBVIOUS
  <2>2. Bad \in SUBSET Nat
    OBVIOUS
  <2>3. PICK k \in Bad : \A m \in Bad : k <= m
    <3> HIDE DEF Bad
    <3> QED
      BY <2>1, <2>2, Ranks!LeastNat
  <2>4. k # 0
    BY <1>5, <2>3
  <2>5. k \in 1..n /\ k - 1 \in 0..n /\ k - 1 \notin Bad
    BY <2>3, <2>4
  <2> QED
    BY <1>6, <2>3, <2>5
<1>8. Gone(n) = Range(os)
  BY <1>1 DEF Range
<1> HIDE DEF Gone
<1>9. HeapOf(Unranked(f[n]), S \ Gone(n), count)
  BY <1>7, HeapOfArray
<1> QED
  BY <1>4, <1>8, <1>9

\* Every item of the new heap has its index.
LEMMA ReindexedIs ==
    ASSUME index \in [Items -> 0..MaxSize],
           NEW h \in Seq(Items), IsInjective(h), Len(h) <= MaxSize
    PROVE  /\ Reindexed(h, index) \in [Items -> 0..MaxSize]
           /\ \A i \in DOMAIN h : Reindexed(h, index)[h[i]] = i
<1>1. PICK n \in Nat : n = Len(h) /\ DOMAIN h = 1..n /\ \A i \in 1..n : h[i] \in Items
  BY LenProperties, ElementOfSeq
<1>2. MaxSize \in Nat /\ \A i \in 1..n : i \in 0..MaxSize
  BY <1>1, MaxSizeAssumption
<1>3. ASSUME NEW o \in Items, NEW i \in 1..n, h[i] = o
      PROVE  (CHOOSE k \in DOMAIN h : h[k] = o) = i
  BY <1>1, <1>3 DEF IsInjective
<1>4. \A o \in Items : Reindexed(h, index)[o] \in 0..MaxSize
  <2> TAKE o \in Items
  <2>1. CASE \E i \in 1..n : h[i] = o
    BY <1>1, <1>2, <1>3, <2>1 DEF Reindexed
  <2>2. CASE ~\E i \in 1..n : h[i] = o
    <3>1. Reindexed(h, index)[o] = IF o \in Range(heap) THEN 0 ELSE index[o]
      BY <1>1, <2>2 DEF Reindexed
    <3>2. 0 \in 0..MaxSize
      BY <1>2
    <3> QED
      BY <3>1, <3>2
  <2> QED
    BY <2>1, <2>2
<1>5. \A i \in 1..n : Reindexed(h, index)[h[i]] = i
  BY <1>1, <1>3 DEF Reindexed
<1> QED
  BY <1>1, <1>4, <1>5 DEF Reindexed

LEMMA OrdersProperties ==
    ASSUME NEW S, IsFiniteSet(S), NEW order \in Orders(S)
    PROVE  order \in Seq(S) /\ Range(order) = S /\ IsInjective(order)
<1>1. Cardinality(S) \in Nat
  BY FS_CardinalityType
<1>2. order \in [1..Cardinality(S) -> S]
  BY DEF Orders, Bijection, Injection
<1>3. order \in Seq(S)
  BY <1>1, <1>2, SeqDef
<1>4. IsInjective(order)
  BY DEF Orders, Bijection, Injection
<1>5. \A x \in S : \E i \in 1..Cardinality(S) : order[i] = x
  BY DEF Orders, Bijection, Surjection
<1> QED
  BY <1>2, <1>3, <1>4, <1>5 DEF Range

--------------------------------------------------------------------------------
(* The invariant                                                              *)

\* The heap holds an item once, at its index, and never too many; it is a heap
\* unless a call panicked and left it as it was.
HeapInv ==
    /\ IsInjective(heap) /\ Len(heap) <= MaxSize
    /\ \A i \in DOMAIN heap : index[heap[i]] = i
    /\ ~panicked => lruHeap!IsHeap(Ranked(heap, count))

\* The map holds the same items, one for each of its paths; items are numbered
\* in the order they were made, one a call at most.
MapInv ==
    /\ Range(heap) = {items[p] : p \in Cached}
    /\ \A p, q \in Cached : items[p] = items[q] => p = q
    /\ \A p \in Cached : items[p] <= made
    /\ made <= calls

\* A Get between its locks holds an item made before, which no path but the one
\* it asked for has; its result is one that path had.
GetInv(g) ==
    at[g] # "idle" =>
        /\ held[g] \in 1..made /\ asked[g] \in Paths
        /\ \A p \in Cached : items[p] = held[g] => p = asked[g]
        /\ result[held[g]] \in seen[g]

CacheInv == TypeOK /\ HeapInv /\ MapInv /\ \A g \in Getters : GetInv(g)

LEMMA NoneIs == None \notin Items /\ None \notin Values /\ \A n \in Items : n \in Nat /\ n # None
  BY NoneAssumption, MaxCallsAssumption DEF Items

LEMMA EmptyHeap ==
    \A c : /\ <<>> \in Seq(Items) /\ IsInjective(<<>>) /\ Range(<<>>) = {} /\ Len(<<>>) = 0
           /\ DOMAIN <<>> = {} /\ lruHeap!IsHeap(Ranked(<<>>, c))
<1>1. PICK e : e = <<>>
  OBVIOUS
<1>2. e \in Seq(Items) /\ Len(e) = 0
  BY <1>1, EmptySeq
<1>3. DOMAIN e = 1..0
  BY <1>2, LenProperties
<1>4. DOMAIN e = {}
  BY <1>3
<1>5. IsInjective(e) /\ Range(e) = {}
  BY <1>4 DEF IsInjective, Range
<1>6. \A c : lruHeap!IsHeap(Ranked(e, c))
  <2> TAKE c
  <2>1. PICK r : r = Ranked(e, c)
    OBVIOUS
  <2>2. r = [i \in {} |-> [item |-> e[i], count |-> c[e[i]]]]
    BY <1>4, <2>1 DEF Ranked
  <2>3. r = e
    BY <1>2, <1>3, <1>4, <2>2, SeqEqual, LenProperties
  <2>4. Len(r) = 0
    BY <1>2, <2>3
  <2> QED
    BY <2>1, <2>4 DEF lruHeap!IsHeap
<1> QED
  BY <1>1, <1>2, <1>4, <1>5, <1>6

LEMMA CacheInit == Init => CacheInv
<1> SUFFICES ASSUME Init
             PROVE  CacheInv
  OBVIOUS
<1>1. TypeOK
  <2>1. 0 \in 0..MaxSize /\ 0 \in 0..MaxCalls /\ 0 \in Nat
    BY MaxSizeAssumption, MaxCallsAssumption
  <2>2. heap \in Seq(Items)
    BY EmptyHeap DEF Init
  <2>3. /\ items \in [Paths -> Items \cup {None}]
        /\ result \in [Items -> Values \cup {None}]
        /\ held \in [Getters -> Items \cup {None}] /\ asked \in [Getters -> Paths \cup {None}]
    BY DEF Init
  <2>4. count \in [Items -> Nat] /\ index \in [Items -> 0..MaxSize]
    BY <2>1 DEF Init
  <2>5. /\ at \in [Getters -> {"idle", "found", "counted"}]
        /\ seen \in [Getters -> SUBSET (Values \cup {None})]
    BY DEF Init
  <2> QED
    BY <2>1, <2>2, <2>3, <2>4, <2>5 DEF Init, TypeOK
<1>2. HeapInv
  BY EmptyHeap, MaxSizeAssumption DEF Init, HeapInv
<1>3. Cached = {}
  BY DEF Init, Cached
<1>4. MapInv
  BY <1>3, EmptyHeap DEF Init, MapInv
<1>5. \A g \in Getters : GetInv(g)
  BY DEF Init, GetInv
<1> QED
  BY <1>1, <1>2, <1>4, <1>5 DEF CacheInv

\* The heap before a step.
LEMMA HeapBefore ==
    ASSUME CacheInv, ~panicked
    PROVE  /\ HeapOf(heap, Range(heap), count)
           /\ Range(heap) \in SUBSET Items /\ count \in [Items -> Nat]
           /\ \A o \in Range(heap) : index[o] \in DOMAIN heap /\ heap[index[o]] = o
           /\ \A o \in Range(heap) : o <= made
           /\ \A p \in Cached : items[p] \in Range(heap)
<1>1. heap \in Seq(Items) /\ count \in [Items -> Nat]
  BY DEF CacheInv, TypeOK
<1>2. HeapOf(heap, Range(heap), count)
  BY <1>1 DEF CacheInv, HeapInv, HeapOf
<1>3. \A o \in Range(heap) : o \in Items /\ index[o] \in DOMAIN heap /\ heap[index[o]] = o
  <2> TAKE o \in Range(heap)
  <2>1. PICK i \in DOMAIN heap : heap[i] = o
    BY DEF Range
  <2>2. i \in 1..Len(heap)
    BY <1>1, LenProperties
  <2>3. o \in Items
    BY <1>1, <2>1, <2>2, ElementOfSeq
  <2> QED
    BY <2>1, <2>3 DEF CacheInv, HeapInv
<1> QED
  BY <1>1, <1>2, <1>3 DEF CacheInv, MapInv

\* The heap after a step that orders it anew.
LEMMA HeapAfter ==
    ASSUME CacheInv, NEW S \in SUBSET Items, NEW h, HeapOf(h, S, count'), Len(h) <= MaxSize,
           SetHeap(h)
    PROVE  HeapInv' /\ Range(heap)' = S /\ heap' \in Seq(Items) /\ index' \in [Items -> 0..MaxSize]
<1>1. h \in Seq(Items) /\ IsInjective(h) /\ Range(h) = S /\ lruHeap!IsHeap(Ranked(h, count'))
  BY DEF HeapOf
<1>2. heap' = h /\ index' = Reindexed(h, index)
  BY DEF SetHeap
<1>3. index' \in [Items -> 0..MaxSize] /\ \A i \in DOMAIN h : index'[h[i]] = i
  BY <1>1, <1>2, ReindexedIs DEF CacheInv, TypeOK
<1>4. IsInjective(heap)' /\ Range(heap)' = S
  BY <1>1, <1>2 DEF IsInjective, Range
<1>5. lruHeap!IsHeap(Ranked(heap, count))'
  BY <1>1, <1>2 DEF Ranked, lruHeap!IsHeap
<1> QED
  BY <1>1, <1>2, <1>3, <1>4, <1>5 DEF HeapInv

\* What the running Gets have seen after a step that changes the cache.
LEMMA WatchedIs ==
    ASSUME CacheInv, Watched, UNCHANGED <<at, held, asked>>,
           items' \in [Paths -> Items \cup {None}], result' \in [Items -> Values \cup {None}]
    PROVE  /\ seen' \in [Getters -> SUBSET (Values \cup {None})]
           /\ \A g \in Getters : at[g] # "idle" =>
                 /\ seen[g] \subseteq seen'[g]
                 /\ items'[asked[g]] # None => result'[items'[asked[g]]] \in seen'[g]
<1> DEFINE V(p) == IF items'[p] = None THEN None ELSE result'[items'[p]]
<1>1. seen' = [g \in Getters |-> IF at[g] = "idle" THEN {} ELSE seen[g] \cup {V(asked[g])}]
  BY DEF Watched, Value
<1>2. \A p \in Paths : V(p) \in Values \cup {None}
  OBVIOUS
<1>3. \A g \in Getters : at[g] # "idle" => asked[g] \in Paths
  BY DEF CacheInv, GetInv
<1>4. seen \in [Getters -> SUBSET (Values \cup {None})]
  BY DEF CacheInv, TypeOK
<1> QED
  BY <1>1, <1>2, <1>3, <1>4

--------------------------------------------------------------------------------
(* The steps of Get                                                           *)

LEMMA GetLookupKeeps ==
    ASSUME CacheInv, NEW g \in Getters, NEW p \in Paths, GetLookup(g, p)
    PROVE  CacheInv'
<1> USE DEF CacheInv
<1>1. calls' = calls + 1 /\ calls < MaxCalls /\ calls' \in 0..MaxCalls
  BY MaxCallsAssumption DEF GetLookup, Called, TypeOK
<1>2. UNCHANGED <<items, heap, result, count, index, made, panicked>> /\ at[g] = "idle"
  BY DEF GetLookup
<1>3. HeapInv'
  BY <1>2 DEF HeapInv, Ranked, lruHeap!IsHeap, IsInjective
<1>4. Cached' = Cached
  BY <1>2 DEF Cached
<1>5. MapInv'
  <2>1. made <= calls => made <= calls + 1
    BY MaxCallsAssumption DEF TypeOK
  <2>2. made' <= calls'
    BY <1>1, <1>2, <2>1 DEF MapInv
  <2>3. Range(heap)' = Range(heap)
    BY <1>2 DEF Range
  <2> QED
    BY <1>2, <1>4, <2>2, <2>3 DEF MapInv
<1>6. CASE items[p] = None
  <2>1. UNCHANGED <<at, held, asked, seen>>
    BY <1>6 DEF GetLookup
  <2>2. TypeOK'
    BY <1>1, <1>2, <2>1 DEF TypeOK
  <2>3. \A x \in Getters : GetInv(x)'
    BY <1>2, <1>4, <2>1 DEF GetInv
  <2> QED
    BY <1>3, <1>5, <2>2, <2>3
<1>7. CASE items[p] # None
  <2>1. /\ at' = [at EXCEPT ![g] = "found"]
        /\ held' = [held EXCEPT ![g] = items[p]]
        /\ asked' = [asked EXCEPT ![g] = p]
        /\ seen' = [seen EXCEPT ![g] = {Value(p)}]
    BY <1>7 DEF GetLookup
  <2>2. p \in Cached /\ items[p] \in Items /\ Value(p) = result[items[p]]
    BY <1>7 DEF Cached, Value, TypeOK
  <2>3. Value(p) \in Values \cup {None}
    BY <2>2 DEF TypeOK
  <2>4. at' \in [Getters -> {"idle", "found", "counted"}]
    BY <2>1 DEF TypeOK
  <2>5. held' \in [Getters -> Items \cup {None}] /\ asked' \in [Getters -> Paths \cup {None}]
    BY <2>1, <2>2 DEF TypeOK
  <2>6. seen' \in [Getters -> SUBSET (Values \cup {None})]
    BY <2>1, <2>3 DEF TypeOK
  <2>7. TypeOK'
    BY <1>1, <1>2, <2>4, <2>5, <2>6 DEF TypeOK
  <2>8. GetInv(g)'
    <3>1. held'[g] = items[p] /\ asked'[g] = p /\ seen'[g] = {Value(p)}
      BY <2>1 DEF TypeOK
    <3>2. items[p] \in 1..made
      BY <2>2 DEF MapInv, Items, TypeOK
    <3>3. \A q \in Cached : items[q] = items[p] => q = p
      BY <2>2 DEF MapInv
    <3> QED
      BY <1>2, <1>4, <2>2, <3>1, <3>2, <3>3 DEF GetInv
  <2>9. \A x \in Getters \ {g} : GetInv(x)'
    BY <1>2, <1>4, <2>1 DEF GetInv, TypeOK
  <2> QED
    BY <1>3, <1>5, <2>7, <2>8, <2>9
<1> QED
  BY <1>6, <1>7

\* The access is counted of an item that may have left the heap; then whatever
\* item is at its old index has its count unchanged.
LEMMA GetCountKeeps ==
    ASSUME CacheInv, NEW g \in Getters, GetCount(g)
    PROVE  CacheInv'
<1> USE DEF CacheInv
<1>1. /\ ~panicked /\ at[g] = "found"
      /\ count' = [count EXCEPT ![held[g]] = @ + 1]
      /\ UNCHANGED <<items, result, made, held, asked, seen, calls>>
  BY DEF GetCount
<1>2. held[g] \in Items
  BY <1>1, MaxCallsAssumption DEF GetInv, TypeOK, Items
<1>3. count' \in [Items -> Nat] /\ \A o \in Items : o # held[g] => count'[o] = count[o]
  BY <1>1, <1>2 DEF TypeOK
<1>4. Cached' = Cached
  BY <1>1 DEF Cached
<1>5. ASSUME at' \in [Getters -> {"idle", "found", "counted"}],
             \A x \in Getters : at'[x] # "idle" => at[x] # "idle"
      PROVE  \A x \in Getters : GetInv(x)'
  BY <1>1, <1>4, <1>5 DEF GetInv
<1>6. CASE OutOfRange(heap, index[held[g]])
  <2>1. panicked' = TRUE /\ UNCHANGED <<heap, index, at>>
    BY <1>6 DEF GetCount
  <2>2. TypeOK'
    BY <1>1, <1>3, <2>1 DEF TypeOK
  <2>3. HeapInv'
    BY <2>1 DEF HeapInv, IsInjective
  <2>4. MapInv'
    BY <1>1, <1>4, <2>1 DEF MapInv, Range
  <2>5. \A x \in Getters : GetInv(x)'
    BY <1>5, <2>1 DEF TypeOK
  <2> QED
    BY <2>2, <2>3, <2>4, <2>5
<1>7. CASE ~OutOfRange(heap, index[held[g]])
  <2>1. /\ SetHeap(FixAt(heap, index[held[g]], count'))
        /\ at' = [at EXCEPT ![g] = "counted"] /\ panicked' = panicked
    BY <1>7 DEF GetCount
  <2>2. PICK S : S = Range(heap)
    OBVIOUS
  <2>3. PICK i : i = index[held[g]]
    OBVIOUS
  <2>4. PICK h : h = FixAt(heap, i, count')
    OBVIOUS
  <2>5. HeapOf(h, S, count') /\ Len(h) = Len(heap) /\ S \in SUBSET Items
    <3>1. /\ HeapOf(heap, S, count) /\ S \in SUBSET Items /\ count \in [Items -> Nat]
          /\ \A o \in S : index[o] \in DOMAIN heap /\ heap[index[o]] = o
      BY <1>1, <2>2, HeapBefore
    <3>2. i \in Nat
      BY <1>2, <2>3, MaxSizeAssumption DEF TypeOK
    <3>3. \A o \in S : count'[o] # count[o] => i \in DOMAIN heap /\ heap[i] = o
      BY <1>3, <2>3, <3>1
    <3> QED
      BY <1>3, <2>4, <3>1, <3>2, <3>3, FixAtIs, SMTT(30)
  <2>6. SetHeap(h) /\ Len(h) <= MaxSize
    BY <2>1, <2>3, <2>4, <2>5 DEF HeapInv
  <2>7. /\ HeapInv' /\ Range(heap)' = S
        /\ heap' \in Seq(Items) /\ index' \in [Items -> 0..MaxSize]
    BY <2>5, <2>6, HeapAfter
  <2>8. at' \in [Getters -> {"idle", "found", "counted"}]
    BY <2>1 DEF TypeOK
  <2>9. TypeOK'
    BY <1>1, <1>3, <2>1, <2>7, <2>8 DEF TypeOK
  <2>10. MapInv'
    BY <1>1, <1>4, <2>2, <2>7 DEF MapInv
  <2>11. \A x \in Getters : at'[x] # "idle" => at[x] # "idle"
    BY <1>1, <2>1 DEF TypeOK
  <2> QED
    BY <1>5, <2>7, <2>8, <2>9, <2>10, <2>11
<1> QED
  BY <1>6, <1>7

LEMMA GetReturnKeeps ==
    ASSUME CacheInv, NEW g \in Getters, GetReturn(g)
    PROVE  CacheInv'
<1> USE DEF CacheInv
<1>1. /\ at' = [at EXCEPT ![g] = "idle"]
      /\ held' = [held EXCEPT ![g] = None] /\ asked' = [asked EXCEPT ![g] = None]
      /\ seen' = [seen EXCEPT ![g] = {}]
      /\ UNCHANGED <<items, heap, result, count, index, made, calls, panicked>>
  BY DEF GetReturn
<1>2. HeapInv'
  BY <1>1 DEF HeapInv, Ranked, lruHeap!IsHeap, IsInjective
<1>3. Cached' = Cached
  BY <1>1 DEF Cached
<1>4. MapInv'
  BY <1>1, <1>3 DEF MapInv, Range
<1>5. /\ at' \in [Getters -> {"idle", "found", "counted"}]
      /\ held' \in [Getters -> Items \cup {None}] /\ asked' \in [Getters -> Paths \cup {None}]
      /\ seen' \in [Getters -> SUBSET (Values \cup {None})]
  BY <1>1 DEF TypeOK
<1>6. TypeOK'
  BY <1>1, <1>5 DEF TypeOK
<1>7. \A x \in Getters : GetInv(x)'
  <2>1. GetInv(g)'
    BY <1>1 DEF GetInv, TypeOK
  <2>2. \A x \in Getters \ {g} : GetInv(x)'
    BY <1>1, <1>3 DEF GetInv, TypeOK
  <2> QED
    BY <2>1, <2>2
<1> QED
  BY <1>2, <1>4, <1>6, <1>7

--------------------------------------------------------------------------------
(* The steps under the lock                                                   *)

LEMMA PutOverKeeps ==
    ASSUME CacheInv, NEW p \in Paths, NEW v \in Values, PutOver(p, v)
    PROVE  CacheInv'
<1> USE DEF CacheInv
<1>1. /\ ~panicked /\ calls' = calls + 1 /\ calls' \in 0..MaxCalls
      /\ result' = [result EXCEPT ![items[p]] = v]
      /\ count' = [count EXCEPT ![items[p]] = @ + 1]
      /\ SetHeap(FixAt(heap, index[items[p]], count'))
      /\ UNCHANGED <<items, made, at, held, asked, panicked>> /\ Watched
  BY MaxCallsAssumption DEF PutOver, Called, TypeOK
<1>2. p \in Cached /\ items[p] \in Items
  BY DEF PutOver, Cached, TypeOK
<1>3. /\ count' \in [Items -> Nat] /\ \A o \in Items : o # items[p] => count'[o] = count[o]
      /\ result' \in [Items -> Values \cup {None}] /\ result'[items[p]] = v
      /\ \A o \in Items : o # items[p] => result'[o] = result[o]
  BY <1>1, <1>2 DEF TypeOK
<1>4. Cached' = Cached
  BY <1>1 DEF Cached
<1>5. PICK S : S = Range(heap)
  OBVIOUS
<1>6. PICK i : i = index[items[p]]
  OBVIOUS
<1>7. PICK h : h = FixAt(heap, i, count')
  OBVIOUS
<1>8. HeapOf(h, S, count') /\ Len(h) = Len(heap) /\ S \in SUBSET Items
  <2>1. /\ HeapOf(heap, S, count) /\ S \in SUBSET Items /\ count \in [Items -> Nat]
        /\ \A o \in S : index[o] \in DOMAIN heap /\ heap[index[o]] = o
    BY <1>1, <1>5, HeapBefore
  <2>2. i \in Nat
    BY <1>2, <1>6, MaxSizeAssumption DEF TypeOK
  <2>3. \A o \in S : count'[o] # count[o] => i \in DOMAIN heap /\ heap[i] = o
    BY <1>3, <1>6, <2>1
  <2>4. count' \in [Items -> Nat]
    BY <1>3
  <2>5. HeapOf(FixAt(heap, i, count'), S, count') /\ Len(FixAt(heap, i, count')) = Len(heap)
    BY <2>1, <2>2, <2>3, <2>4, FixAtIs
  <2> QED
    BY <1>7, <2>1, <2>5
<1>9. SetHeap(h) /\ Len(h) <= MaxSize
  BY <1>1, <1>6, <1>7, <1>8 DEF HeapInv
<1>10. /\ HeapInv' /\ Range(heap)' = S
       /\ heap' \in Seq(Items) /\ index' \in [Items -> 0..MaxSize]
  BY <1>8, <1>9, HeapAfter
<1>11. MapInv'
  BY <1>1, <1>4, <1>5, <1>10 DEF MapInv, TypeOK
<1>12. /\ seen' \in [Getters -> SUBSET (Values \cup {None})]
       /\ \A g \in Getters : at[g] # "idle" =>
             /\ seen[g] \subseteq seen'[g]
             /\ items'[asked[g]] # None => result'[items'[asked[g]]] \in seen'[g]
  <2>1. items' \in [Paths -> Items \cup {None}]
    BY <1>1 DEF TypeOK
  <2> QED
    BY <1>1, <1>3, <2>1, WatchedIs
<1>13. TypeOK'
  BY <1>1, <1>3, <1>10, <1>12 DEF TypeOK
<1>14. ASSUME NEW g \in Getters
       PROVE  GetInv(g)'
  <2>1. SUFFICES ASSUME at[g] # "idle"
                 PROVE  result'[held[g]] \in seen'[g]
    BY <1>1, <1>4 DEF GetInv
  <2>2. held[g] \in Items
    BY <2>1, MaxCallsAssumption DEF GetInv, TypeOK, Items
  <2>3. CASE held[g] = items[p]
    <3>1. asked[g] = p /\ items'[p] = items[p] /\ items[p] # None
      BY <1>1, <1>2, <2>1, <2>3 DEF GetInv, Cached
    <3> QED
      BY <1>12, <2>1, <2>3, <3>1
  <2>4. CASE held[g] # items[p]
    BY <1>3, <1>12, <2>1, <2>2, <2>4 DEF GetInv
  <2> QED
    BY <2>3, <2>4
<1> QED
  BY <1>10, <1>11, <1>13, <1>14

\* When the paths G and their items are taken out, map and Gets stay as they
\* should.
LEMMA FewerPaths ==
    ASSUME CacheInv, NEW G \in SUBSET Cached,
           items' = [p \in Paths |-> IF p \in G THEN None ELSE items[p]],
           Range(heap)' = Range(heap) \ {items[p] : p \in G},
           UNCHANGED <<result, made, at, held, asked>>, Watched,
           calls' = calls + 1
    PROVE  /\ MapInv' /\ \A g \in Getters : GetInv(g)'
           /\ items' \in [Paths -> Items \cup {None}]
           /\ seen' \in [Getters -> SUBSET (Values \cup {None})]
<1> USE DEF CacheInv
<1>1. Cached \subseteq Paths /\ items \in [Paths -> Items \cup {None}]
  BY DEF Cached, TypeOK
<1>2. items' \in [Paths -> Items \cup {None}]
  BY <1>1
<1>3. Cached' = Cached \ G /\ \A p \in Cached' : items'[p] = items[p]
  BY <1>1 DEF Cached
<1>4. MapInv'
  <2>1. made' <= calls'
    BY MaxCallsAssumption DEF MapInv, TypeOK
  <2>2. Range(heap)' = {items'[p] : p \in Cached'}
    <3>1. /\ Range(heap) = {items[p] : p \in Cached}
          /\ \A p, q \in Cached : items[p] = items[q] => p = q
      BY DEF MapInv
    <3>2. Range(heap)' = {items[p] : p \in Cached \ G}
      BY <3>1
    <3> QED
      BY <1>3, <3>2
  <2> QED
    BY <1>3, <2>1, <2>2 DEF MapInv
<1>5. /\ seen' \in [Getters -> SUBSET (Values \cup {None})]
      /\ \A g \in Getters : at[g] # "idle" => seen[g] \subseteq seen'[g]
  <2>1. result' \in [Items -> Values \cup {None}]
    BY DEF TypeOK
  <2> QED
    BY <1>2, <2>1, WatchedIs
<1>6. \A g \in Getters : GetInv(g)'
  BY <1>3, <1>5 DEF GetInv
<1> QED
  BY <1>2, <1>4, <1>5, <1>6

\* Remove and Invalidate.
LEMMA TakenOutKeeps ==
    ASSUME CacheInv, Called, NEW G \in SUBSET Cached,
           items' = [p \in Paths |-> IF p \in G THEN None ELSE items[p]],
           NEW os \in Seq({items[p] : p \in G}), IsInjective(os), Range(os) = {items[p] : p \in G},
           SetHeap(Without(heap, os)),
           UNCHANGED <<result, count, made, at, held, asked, panicked>>, Watched
    PROVE  CacheInv'
<1> USE DEF CacheInv
<1>1. ~panicked /\ calls' = calls + 1 /\ calls' \in 0..MaxCalls
  BY MaxCallsAssumption DEF Called, TypeOK
<1>2. PICK S : S = Range(heap)
  OBVIOUS
<1>3. PICK T : T = {items[p] : p \in G}
  OBVIOUS
<1>4. /\ HeapOf(heap, S, count) /\ S \in SUBSET Items /\ count \in [Items -> Nat] /\ T \subseteq S
  BY <1>1, <1>2, <1>3, HeapBefore
<1>5. PICK h : h = Without(heap, os)
  OBVIOUS
<1>6. HeapOf(h, S \ T, count)
  <2>1. os \in Seq(S)
    BY <1>3, <1>4, SeqMonotonic
  <2> QED
    BY <1>3, <1>4, <1>5, <2>1, WithoutIs
<1>7. Len(h) <= MaxSize
  <2>1. IsFiniteSet(S) /\ Cardinality(S) = Len(heap) /\ Len(heap) \in Nat
    BY <1>4, HeapCard
  <2>2. Cardinality(S \ T) = Len(h) /\ Len(h) \in Nat
    BY <1>6, HeapCard
  <2>3. Cardinality(S \ T) <= Cardinality(S)
    BY <2>1, FS_Subset
  <2> QED
    BY <2>1, <2>2, <2>3, MaxSizeAssumption DEF HeapInv
<1>8. /\ HeapInv' /\ Range(heap)' = S \ T
      /\ heap' \in Seq(Items) /\ index' \in [Items -> 0..MaxSize]
  <2>1. HeapOf(h, S \ T, count') /\ S \ T \in SUBSET Items /\ SetHeap(h)
    BY <1>4, <1>5, <1>6
  <2> QED
    BY <1>7, <2>1, HeapAfter
<1>9. /\ MapInv' /\ \A g \in Getters : GetInv(g)'
      /\ items' \in [Paths -> Items \cup {None}]
      /\ seen' \in [Getters -> SUBSET (Values \cup {None})]
  BY <1>1, <1>2, <1>3, <1>8, FewerPaths
<1>10. TypeOK'
  BY <1>1, <1>8, <1>9 DEF TypeOK
<1> QED
  BY <1>8, <1>9, <1>10

LEMMA RemoveKeeps ==
    ASSUME CacheInv, NEW p \in Paths, Remove(p)
    PROVE  CacheInv'
<1>1. /\ Called /\ items' = [items EXCEPT ![p] = None]
      /\ SetHeap(Without(heap, <<items[p]>>))
      /\ UNCHANGED <<result, count, made, at, held, asked, panicked>> /\ Watched
      /\ p \in Cached /\ items \in [Paths -> Items \cup {None}]
  BY DEF Remove, Cached, CacheInv, TypeOK
<1>2. PICK o : o = items[p]
  OBVIOUS
<1>3. {items[q] : q \in {p}} = {o}
  BY <1>2
<1>4. <<o>> \in Seq({o}) /\ IsInjective(<<o>>) /\ Range(<<o>>) = {o}
  BY DEF IsInjective, Range
<1>5. items' = [q \in Paths |-> IF q \in {p} THEN None ELSE items[q]]
  BY <1>1
<1>6. {p} \in SUBSET Cached /\ SetHeap(Without(heap, <<o>>))
  BY <1>1, <1>2
<1> QED
  BY <1>1, <1>3, <1>4, <1>5, <1>6, TakenOutKeeps

LEMMA InvalidateKeeps ==
    ASSUME CacheInv, NEW current \in Hashes, Invalidate(current)
    PROVE  CacheInv'
<1>1. PICK G : G = Outdated(current)
  OBVIOUS
<1>2. PICK T : T = {items[p] : p \in G}
  OBVIOUS
<1>3. PICK os \in Orders(T) : SetHeap(Without(heap, os))
  BY <1>1, <1>2 DEF Invalidate
<1>4. /\ Called /\ items' = [p \in Paths |-> IF p \in G THEN None ELSE items[p]]
      /\ UNCHANGED <<result, count, made, at, held, asked, panicked>> /\ Watched
      /\ G \in SUBSET Cached
  BY <1>1 DEF Invalidate, Outdated
<1>5. IsFiniteSet(T)
  <2>1. HeapOf(heap, Range(heap), count) /\ T \in SUBSET Range(heap)
    BY <1>2, <1>4, HeapBefore DEF Called
  <2>2. IsFiniteSet(Range(heap))
    BY <2>1, HeapCard
  <2> QED
    BY <2>1, <2>2, FS_Subset
<1>6. os \in Seq(T) /\ Range(os) = T /\ IsInjective(os)
  BY <1>3, <1>5, OrdersProperties
<1> QED
  BY <1>2, <1>3, <1>4, <1>6, TakenOutKeeps

LEMMA ClearKeeps ==
    ASSUME CacheInv, Clear
    PROVE  CacheInv'
<1> USE DEF CacheInv
<1>1. /\ ~panicked /\ calls' = calls + 1 /\ calls' \in 0..MaxCalls
      /\ items' = [p \in Paths |-> None] /\ heap' = <<>>
      /\ UNCHANGED <<result, count, index, made, at, held, asked, panicked>> /\ Watched
  BY MaxCallsAssumption DEF Clear, Called, TypeOK
<1>2. HeapInv' /\ heap' \in Seq(Items)
  BY <1>1, EmptyHeap, MaxSizeAssumption DEF HeapInv
<1>3. Range(heap)' = Range(heap) \ {items[p] : p \in Cached}
  BY <1>1, EmptyHeap DEF MapInv, Range
<1>4. items' = [p \in Paths |-> IF p \in Cached THEN None ELSE items[p]]
  BY <1>1 DEF Cached
<1>5. /\ MapInv' /\ \A g \in Getters : GetInv(g)'
      /\ items' \in [Paths -> Items \cup {None}]
      /\ seen' \in [Getters -> SUBSET (Values \cup {None})]
  BY <1>1, <1>3, <1>4, FewerPaths
<1>6. TypeOK'
  BY <1>1, <1>2, <1>5 DEF TypeOK
<1> QED
  BY <1>2, <1>5, <1>6

\* What Put leaves of a new item o of p when the item out went, or none did.
LEMMA NewItemKeeps ==
    ASSUME CacheInv, NEW p \in Paths, items[p] = None, NEW o \in Items, o = made + 1, made' = o,
           NEW out, out \in Range(heap) \cup {o, None}, NEW v \in Values,
           items' = [q \in Paths |->
                        LET now == IF q = p THEN o ELSE items[q]
                        IN  IF now = out THEN None ELSE now],
           Range(heap)' = (Range(heap) \cup {o}) \ {out},
           result' = [result EXCEPT ![o] = v],
           UNCHANGED <<at, held, asked>>, Watched, calls' = calls + 1
    PROVE  /\ MapInv' /\ \A g \in Getters : GetInv(g)'
           /\ items' \in [Paths -> Items \cup {None}]
           /\ result' \in [Items -> Values \cup {None}]
           /\ seen' \in [Getters -> SUBSET (Values \cup {None})]
<1> USE DEF CacheInv
<1>1. items \in [Paths -> Items \cup {None}] /\ o # None /\ p \notin Cached /\ made \in Nat
  BY NoneIs, MaxCallsAssumption DEF TypeOK, Cached
<1>2. items' \in [Paths -> Items \cup {None}]
  BY <1>1
<1>3. \A q \in Cached : items[q] # o /\ items[q] \in Nat /\ items[q] # None /\ q # p /\ q \in Paths
  <2> TAKE q \in Cached
  <2>1. items[q] \in Items /\ q \in Paths /\ items[q] <= made
    BY <1>1 DEF Cached, MapInv
  <2>2. items[q] \in Nat
    BY <2>1, NoneIs
  <2> QED
    BY <1>1, <2>1, <2>2, NoneIs
<1>4. \A q \in Paths : q \in Cached' <=> (q = p /\ o # out) \/ (q \in Cached /\ items[q] # out)
  BY <1>1, <1>3 DEF Cached
<1>5. \A q \in Cached' : q \in Paths /\ items'[q] = IF q = p THEN o ELSE items[q]
  BY <1>1 DEF Cached
<1>6. MapInv'
  <2>1. made' <= calls'
    BY <1>1, MaxCallsAssumption DEF MapInv, TypeOK
  <2>2. Range(heap)' = {items'[q] : q \in Cached'}
    <3>1. Range(heap) = {items[q] : q \in Cached}
      BY DEF MapInv
    <3>2. ASSUME NEW x \in Range(heap)'
          PROVE  \E q \in Cached' : items'[q] = x
      <4>1. CASE x = o
        BY <1>4, <1>5, <4>1
      <4>2. CASE x # o
        <5>1. PICK q \in Cached : items[q] = x
          BY <3>1, <3>2, <4>2
        <5> QED
          BY <1>3, <1>4, <1>5, <3>2, <5>1
      <4> QED
        BY <4>1, <4>2
    <3>3. ASSUME NEW q \in Cached'
          PROVE  items'[q] \in Range(heap)'
      <4>1. q \in Paths /\ items'[q] = IF q = p THEN o ELSE items[q]
        BY <1>5
      <4>2. (q = p /\ o # out) \/ (q \in Cached /\ items[q] # out)
        BY <1>4, <4>1
      <4> QED
        BY <1>3, <3>1, <4>1, <4>2
    <3>4. PICK R : R = Range(heap)'
      OBVIOUS
    <3>5. PICK C : C = Cached'
      OBVIOUS
    <3>6. /\ \A x \in R : \E q \in C : items'[q] = x
          /\ \A q \in C : items'[q] \in R
      BY <3>2, <3>3, <3>4, <3>5, ZenonT(60)
    <3>7. R = {items'[q] : q \in C}
      <4>1. PICK f : f = items'
        OBVIOUS
      <4>2. /\ \A x \in R : \E q \in C : f[q] = x
            /\ \A q \in C : f[q] \in R
        BY <3>6, <4>1
      <4>3. R = {f[q] : q \in C}
        BY <4>2
      <4> QED
        BY <4>1, <4>3, Zenon
    <3> QED
      BY <3>4, <3>5, <3>7
  <2>3. ASSUME NEW q \in Cached', NEW r \in Cached', items'[q] = items'[r]
        PROVE  q = r
    <3>1. /\ items'[q] = IF q = p THEN o ELSE items[q]
          /\ items'[r] = IF r = p THEN o ELSE items[r]
          /\ q # p => q \in Cached
          /\ r # p => r \in Cached
      BY <1>4, <1>5
    <3> QED
      BY <1>3, <2>3, <3>1 DEF MapInv
  <2>4. ASSUME NEW q \in Cached'
        PROVE  items'[q] <= made'
    <3>1. items'[q] = (IF q = p THEN o ELSE items[q]) /\ (q # p => q \in Cached)
      BY <1>4, <1>5
    <3>2. q # p => items[q] <= made /\ items[q] \in Nat
      BY <1>3, <3>1 DEF MapInv
    <3> QED
      BY <1>1, <3>1, <3>2
  <2> QED
    BY <2>1, <2>2, <2>3, <2>4 DEF MapInv
<1>7. result' \in [Items -> Values \cup {None}] /\ \A i \in Items : i # o => result'[i] = result[i]
  BY DEF TypeOK
<1>8. /\ seen' \in [Getters -> SUBSET (Values \cup {None})]
      /\ \A g \in Getters : at[g] # "idle" => seen[g] \subseteq seen'[g]
  BY <1>2, <1>7, WatchedIs
<1>9. ASSUME NEW g \in Getters
      PROVE  GetInv(g)'
  <2>1. CASE at[g] = "idle"
    BY <2>1 DEF GetInv
  <2>2. CASE at[g] # "idle"
    <3>1. held[g] \in 1..made /\ asked[g] \in Paths /\ result[held[g]] \in seen[g]
      BY <2>2 DEF GetInv
    <3>2. held[g] \in 1..made' /\ held[g] # o /\ held[g] \in Items
      BY <1>1, <3>1, MaxCallsAssumption DEF Items
    <3>3. result'[held[g]] \in seen'[g]
      BY <1>7, <1>8, <2>2, <3>1, <3>2
    <3>4. ASSUME NEW q \in Cached', items'[q] = held[g]
          PROVE  q = asked[g]
      <4>1. items'[q] = (IF q = p THEN o ELSE items[q]) /\ (q # p => q \in Cached)
        BY <1>4, <1>5
      <4> QED
        BY <2>2, <3>2, <3>4, <4>1 DEF GetInv
    <3> QED
      BY <3>1, <3>2, <3>3, <3>4 DEF GetInv
  <2> QED
    BY <2>1, <2>2
<1> QED
  BY <1>2, <1>6, <1>7, <1>8, <1>9

\* Put makes the item o of p and, unless out is None, evicts the item out: h is
\* the heap it leaves.
PutLeaves(p, o, out, h) ==
    /\ o \in Items /\ o = made + 1 /\ o \notin Range(heap) /\ made' = o
    /\ out \in Range(heap) \cup {o, None}
    /\ count' \in [Items -> Nat]
    /\ HeapOf(h, (Range(heap) \cup {o}) \ {out}, count') /\ heap' = h /\ Len(h) <= MaxSize
    /\ out # None => \A s \in Range(heap) \cup {o} : count'[out] <= count'[s]
    /\ out = None => SetHeap(h)
    /\ out # None => index' = [Reindexed(h, index) EXCEPT ![out] = 0]
    /\ items' = [q \in Paths |->
                    LET now == IF q = p THEN o ELSE items[q]
                    IN  IF now = out THEN None ELSE now]

\* Put on a new path: either the cache had room, or the top of the heap went.
LEMMA PutNewIs ==
    ASSUME CacheInv, NEW p \in Paths, NEW v \in Values, PutNew(p, v)
    PROVE  \E o, out, h : PutLeaves(p, o, out, h)
<1> USE DEF CacheInv
<1>1. PICK o : o = made + 1
  OBVIOUS
<1>2. PICK S : S = Range(heap)
  OBVIOUS
<1>3. PICK r : r = lruHeap!Push(Ranked(heap, count), [item |-> o, count |-> 0])
  OBVIOUS
<1>4. /\ ~panicked /\ calls < MaxCalls /\ count' = [count EXCEPT ![o] = 0] /\ made' = o
      /\ IF OverCapacity(r)
         THEN LET e == Evict(r)
              IN  /\ heap' = Unranked(e.rest)
                  /\ index' = [Reindexed(heap', index) EXCEPT ![e.out.item] = 0]
                  /\ items' = [q \in Paths |->
                         LET now == IF q = p THEN o ELSE items[q]
                         IN  IF now = e.out.item THEN None ELSE now]
         ELSE SetHeap(Unranked(r)) /\ items' = [items EXCEPT ![p] = o]
  BY <1>1, <1>3 DEF PutNew, NewItem, Called
<1>5. o \in Items /\ made \in Nat
  BY <1>1, <1>4, MaxCallsAssumption DEF Items, MapInv, TypeOK
<1>6. /\ HeapOf(heap, S, count) /\ S \in SUBSET Items /\ count \in [Items -> Nat]
      /\ \A s \in S : s <= made
  BY <1>2, <1>4, HeapBefore
<1>7. o \notin S /\ \A s \in S : s # o
  BY <1>1, <1>5, <1>6 DEF Items
<1>8. PICK d : d = count'
  OBVIOUS
<1>9. d \in [Items -> Nat] /\ d[o] = 0 /\ \A s \in S : d[s] = count[s]
  BY <1>4, <1>5, <1>6, <1>7, <1>8
<1>10. IsArray(r, S \cup {o}, d) /\ Len(r) = Len(heap) + 1
  <2>1. /\ S \in SUBSET Items /\ count \in [Items -> Nat] /\ d \in [Items -> Nat]
        /\ HeapOf(heap, S, count) /\ o \in Items /\ o \notin S
        /\ d[o] = 0 /\ \A s \in S : d[s] = count[s]
    BY <1>5, <1>6, <1>7, <1>9
  <2> HIDE DEF CacheInv
  <2>2. PICK a : a = lruHeap!Push(Ranked(heap, count), [item |-> o, count |-> 0])
    OBVIOUS
  <2>3. PICK n \in Nat : n = Len(heap)
    BY <2>1, HeapCard
  <2>4. IsArray(a, S \cup {o}, d)
    BY <2>1, <2>2, <2>3, PushedIs
  <2>5. Len(a) = n + 1
    BY <2>1, <2>2, <2>3, <2>4, PushedIs
  <2> QED
    BY <1>3, <2>2, <2>3, <2>4, <2>5
<1>11. S \cup {o} \in SUBSET Items
  BY <1>5, <1>6
<1>12. Len(heap) \in Nat /\ Len(heap) <= MaxSize /\ MaxSize \in Nat
  BY <1>6, HeapCard, MaxSizeAssumption DEF HeapInv
<1>13. CASE OverCapacity(r)
  <2>1. PICK out : out = Head(r).item
    OBVIOUS
  <2>2. PICK rest : rest = lruHeap!PopRest(r)
    OBVIOUS
  <2>3. PICK h : h = Unranked(rest)
    OBVIOUS
  <2>4. /\ heap' = h /\ index' = [Reindexed(h, index) EXCEPT ![out] = 0]
        /\ items' = [q \in Paths |->
                        LET now == IF q = p THEN o ELSE items[q]
                        IN  IF now = out THEN None ELSE now]
    BY <1>4, <1>13, <2>1, <2>2, <2>3 DEF Evict
  <2>5. /\ out \in S \cup {o} /\ \A s \in S \cup {o} : d[out] <= d[s]
        /\ IsArray(rest, (S \cup {o}) \ {out}, d)
        /\ Len(rest) = Len(r) - 1
    <3>1. Len(r) >= 1
      BY <1>10, <1>12
    <3> QED
      BY <1>9, <1>10, <1>11, <2>1, <2>2, <3>1, PoppedIs
  <2>6. HeapOf(h, (S \cup {o}) \ {out}, d) /\ Len(h) = Len(rest)
    <3>1. (S \cup {o}) \ {out} \in SUBSET Items
      BY <1>11
    <3> QED
      BY <1>9, <2>3, <2>5, <3>1, HeapOfArray
  <2>7. Len(h) <= MaxSize
    BY <1>10, <1>12, <2>5, <2>6
  <2>8. out # None /\ out \in S \cup {o, None}
    BY <1>11, <2>5, NoneIs
  <2> HIDE DEF CacheInv
  <2>9. PutLeaves(p, o, out, h)
    BY <1>1, <1>2, <1>4, <1>5, <1>7, <1>8, <1>9, <2>4, <2>5, <2>6, <2>7, <2>8 DEF PutLeaves
  <2> QED
    BY <2>9
<1>14. CASE ~OverCapacity(r)
  <2>1. PICK h : h = Unranked(r)
    OBVIOUS
  <2>2. SetHeap(h) /\ heap' = h /\ items' = [items EXCEPT ![p] = o]
    BY <1>4, <1>14, <2>1 DEF SetHeap
  <2>3. HeapOf(h, S \cup {o}, d) /\ Len(h) = Len(r)
    BY <1>9, <1>10, <1>11, <2>1, HeapOfArray
  <2>4. Len(h) <= MaxSize
    BY <1>10, <1>12, <1>14, <2>3 DEF OverCapacity
  <2>5. None \notin S \cup {o} /\ (S \cup {o}) \ {None} = S \cup {o}
    BY <1>11, NoneIs
  <2>6. items' = [q \in Paths |->
                     LET now == IF q = p THEN o ELSE items[q]
                     IN  IF now = None THEN None ELSE now]
    BY <2>2 DEF TypeOK
  <2> HIDE DEF CacheInv
  <2>7. PutLeaves(p, o, None, h)
    BY <1>1, <1>2, <1>4, <1>5, <1>7, <1>8, <1>9, <2>2, <2>3, <2>4, <2>5, <2>6 DEF PutLeaves
  <2> QED
    BY <2>7
<1> QED
  BY <1>13, <1>14

LEMMA PutNewKeeps ==
    ASSUME CacheInv, NEW p \in Paths, NEW v \in Values, PutNew(p, v)
    PROVE  CacheInv'
<1> USE DEF CacheInv
<1>1. PICK o, out, h : PutLeaves(p, o, out, h)
  BY PutNewIs
<1>2. /\ ~panicked /\ calls' = calls + 1 /\ calls' \in 0..MaxCalls /\ items[p] = None
      /\ result' = [result EXCEPT ![o] = v]
      /\ UNCHANGED <<at, held, asked, panicked>> /\ Watched
  BY <1>1, MaxCallsAssumption DEF PutLeaves, PutNew, NewItem, Called, TypeOK
<1>3. PICK S : S = (Range(heap) \cup {o}) \ {out}
  OBVIOUS
<1>4. S \in SUBSET Items
  BY <1>1, <1>2, <1>3, HeapBefore DEF PutLeaves
<1>5. /\ HeapInv' /\ Range(heap)' = S
      /\ heap' \in Seq(Items) /\ index' \in [Items -> 0..MaxSize]
  <2>1. CASE out = None
    BY <1>1, <1>3, <1>4, <2>1, HeapAfter DEF PutLeaves
  <2>2. CASE out # None
    <3>1. h \in Seq(Items) /\ IsInjective(h) /\ Range(h) = S /\ lruHeap!IsHeap(Ranked(h, count'))
      BY <1>1, <1>3 DEF PutLeaves, HeapOf
    <3>2. PICK f : f = Reindexed(h, index)
      OBVIOUS
    <3>3. f \in [Items -> 0..MaxSize] /\ \A i \in DOMAIN h : f[h[i]] = i
      BY <1>1, <3>1, <3>2, ReindexedIs DEF PutLeaves, TypeOK
    <3>4. index' = [f EXCEPT ![out] = 0]
      BY <1>1, <2>2, <3>2 DEF PutLeaves
    <3>5. index' \in [Items -> 0..MaxSize]
      <4>1. 0 \in 0..MaxSize
        BY MaxSizeAssumption
      <4> HIDE DEF CacheInv
      <4> QED
        BY <3>3, <3>4, <4>1
    <3>6. \A i \in DOMAIN h : h[i] # out /\ h[i] \in Items
      BY <1>3, <1>4, <3>1 DEF Range
    <3>7. \A i \in DOMAIN h : index'[h[i]] = i
      BY <3>3, <3>4, <3>6
    <3>8. IsInjective(heap)' /\ Range(heap)' = S
      BY <1>1, <3>1 DEF PutLeaves, IsInjective, Range
    <3>9. lruHeap!IsHeap(Ranked(heap, count))'
      BY <1>1, <3>1 DEF PutLeaves, Ranked, lruHeap!IsHeap
    <3> QED
      BY <1>1, <3>1, <3>5, <3>7, <3>8, <3>9 DEF PutLeaves, HeapInv
  <2> QED
    BY <2>1, <2>2
<1>6. /\ MapInv' /\ \A g \in Getters : GetInv(g)'
      /\ items' \in [Paths -> Items \cup {None}]
      /\ result' \in [Items -> Values \cup {None}]
      /\ seen' \in [Getters -> SUBSET (Values \cup {None})]
  <2>1. /\ o \in Items /\ o = made + 1 /\ made' = o /\ out \in Range(heap) \cup {o, None}
        /\ items' = [q \in Paths |->
                        LET now == IF q = p THEN o ELSE items[q]
                        IN  IF now = out THEN None ELSE now]
    BY <1>1 DEF PutLeaves
  <2>2. Range(heap)' = (Range(heap) \cup {o}) \ {out}
    BY <1>3, <1>5
  <2> HIDE DEF CacheInv
  <2> QED
    BY <1>2, <2>1, <2>2, NewItemKeeps, ZenonT(90)
<1>7. made' \in 0..MaxCalls /\ count' \in [Items -> Nat]
  BY <1>1, MaxCallsAssumption DEF PutLeaves, Items
<1>8. TypeOK'
  BY <1>2, <1>5, <1>6, <1>7 DEF TypeOK
<1> QED
  BY <1>5, <1>6, <1>8

--------------------------------------------------------------------------------
(* The theorems                                                               *)

LEMMA CacheKeeps == CacheInv /\ [Next]_vars => CacheInv'
<1> SUFFICES ASSUME CacheInv, [Next]_vars
             PROVE  CacheInv'
  OBVIOUS
<1>1. CASE UNCHANGED vars
  <2>1. Cached' = Cached
    BY <1>1 DEF vars, Cached
  <2>2. TypeOK'
    BY <1>1 DEF vars, CacheInv, TypeOK
  <2>5. MapInv'
    BY <1>1, <2>1 DEF vars, CacheInv, MapInv, Range
  <2>3. HeapInv'
    BY <1>1 DEF vars, CacheInv, HeapInv, Ranked, lruHeap!IsHeap, IsInjective
  <2>4. \A g \in Getters : GetInv(g)'
    BY <1>1, <2>1 DEF vars, CacheInv, GetInv
  <2> QED
    BY <2>2, <2>3, <2>4, <2>5 DEF CacheInv
<1> QED
  BY <1>1, GetLookupKeeps, GetCountKeeps, GetReturnKeeps, PutOverKeeps, PutNewKeeps, RemoveKeeps,
     ClearKeeps, InvalidateKeeps DEF Next

\* The invariant holds in every reachable state.
THEOREM CacheCorrect == Spec => []CacheInv
  BY CacheInit, CacheKeeps, PTL DEF Spec

\* The types of the cache's state: in particular no index is beyond maxSize.
THEOREM TypeCorrect == Spec => []TypeOK
<1>1. CacheInv => TypeOK
  BY DEF CacheInv
<1> QED
  BY <1>1, CacheCorrect, PTL

\* The map and the heap hold the same items, each once, at its index and never
\* too many, and the array is a heap by access count, whatever calls come between
\* the two critical sections of a Get.
THEOREM MapAndHeapAgreeCorrect == Spec => []MapAndHeapAgree
<1>1. CacheInv => MapAndHeapAgree
  <2> SUFFICES ASSUME CacheInv
               PROVE  MapAndHeapAgree
    OBVIOUS
  <2>1. Len(heap) = Cardinality(Cached)
    <3>1. PICK n \in Nat : n = Len(heap) /\ DOMAIN heap = 1..n
      BY LenProperties DEF CacheInv, TypeOK
    <3>2. IsFiniteSet(1..n) /\ Cardinality(1..n) = n
      BY FS_Interval
    <3> DEFINE path == [i \in 1..n |-> CHOOSE p \in Cached : items[p] = heap[i]]
    <3>3. \A i \in 1..n : path[i] \in Cached /\ items[path[i]] = heap[i]
      <4>1. \A i \in 1..n : \E p \in Cached : items[p] = heap[i]
        BY <3>1 DEF CacheInv, MapInv, Range
      <4> QED
        BY <4>1
    <3>4. \A p \in Cached : \E i \in 1..n : path[i] = p
      <4> TAKE p \in Cached
      <4>1. PICK i \in 1..n : heap[i] = items[p]
        BY <3>1 DEF CacheInv, MapInv, Range
      <4> QED
        BY <3>3, <4>1 DEF CacheInv, MapInv
    <3>5. \A i, k \in 1..n : path[i] = path[k] => i = k
      BY <3>1, <3>3 DEF CacheInv, HeapInv, IsInjective
    <3>6. path \in [1..n -> Cached]
      BY <3>3
    <3> HIDE DEF path
    <3>7. path \in Bijection(1..n, Cached)
      BY <3>4, <3>5, <3>6 DEF Bijection, Injection, Surjection, IsInjective
    <3>8. ExistsBijection(1..n, Cached)
      BY <3>7 DEF ExistsBijection
    <3> QED
      BY <3>1, <3>2, <3>8, FS_Bijection
  <2> QED
    BY <2>1 DEF CacheInv, HeapInv, MapInv, MapAndHeapAgree
<1> QED
  BY <1>1, CacheCorrect, PTL

\* What Get is about to return is what its path held at some point since Get
\* began, whatever was put, removed or evicted meanwhile.
THEOREM ReturnsCurrentCorrect == Spec => []ReturnsCurrent
<1>1. CacheInv => ReturnsCurrent
  BY DEF CacheInv, GetInv, ReturnsCurrent
<1> QED
  BY <1>1, CacheCorrect, PTL
================================================================================
