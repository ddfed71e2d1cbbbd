------------------------------ MODULE Heap_proofs ------------------------------
(*****************************************************************************)
(* What the operators of Heap do to any sequence whose elements are ordered  *)
(* by Less: they keep its elements and leave a heap.  The recursions of Heap *)
(* run over finite sets of places; each is taken by its least counterexample.*)
(*****************************************************************************)
EXTENDS Heap, SequenceTheorems, WellFoundedInduction, TLAPS

\* Less is the strict part of a total preorder.
Ordered(S) ==
    /\ \A a, b \in S : Less(a, b) => ~Less(b, a)
    /\ \A a, b, c \in S : ~Less(b, a) /\ ~Less(c, b) => ~Less(c, a)

Members(h) == {h[i] : i \in DOMAIN h}
Distinct(h) == \A i, k \in DOMAIN h : h[i] = h[k] => i = k

\* Places that hang together from s down to t.
IsPath(P, s, t) ==
    /\ s \in P /\ t \in P /\ \A k \in P : s <= k /\ k <= t
    /\ \A k \in P \ {s} : Parent(k) \in P
    /\ \A k, m \in P \ {s} : Parent(k) = Parent(m) => k = m
    /\ \A k \in P \ {t} : \E m \in P \ {s} : Parent(m) = k

--------------------------------------------------------------------------------
(* Numbers and places *)

LEMMA LeastNat ==
    ASSUME NEW S \in SUBSET Nat, S # {}
    PROVE  \E m \in S : \A k \in S : m <= k
<1>1. PICK m \in S : \A k \in S : <<k, m>> \notin OpToRel(<, Nat)
  BY NatLessThanWellFounded, WFMin
<1>2. \A k \in S : ~(k < m)
  BY <1>1 DEF OpToRel
<1> QED
  BY <1>2

LEMMA ParentIs ==
    ASSUME NEW k \in Nat, k >= 1
    PROVE  /\ Parent(k) \in Nat /\ Parent(k) < k /\ (k > 1 => Parent(k) >= 1)
           /\ k = 2 * Parent(k) \/ k = 2 * Parent(k) + 1
           /\ Parent(2 * k) = k /\ Parent(2 * k + 1) = k
  BY DEF Parent

LEMMA Predecessor ==
    ASSUME NEW k \in Nat, k >= 1
    PROVE  \E n \in Nat : n = k - 1 /\ k = n + 1
<1>1. k - 1 \in Nat /\ k = (k - 1) + 1
  OBVIOUS
<1> QED
  BY <1>1

LEMMA LenIs ==
    ASSUME NEW S, NEW h \in Seq(S)
    PROVE  /\ Len(h) \in Nat /\ DOMAIN h = 1..Len(h) /\ \A i \in 1..Len(h) : h[i] \in S
  BY LenProperties, ElementOfSeq

--------------------------------------------------------------------------------
(* The places up passes *)

LEMMA AscentRec ==
    ASSUME NEW j \in Nat, NEW B \in SUBSET (2..j)
    PROVE  \E f : f = [k \in 1..j |-> IF k \in B THEN {k} \cup f[Parent(k)] ELSE {k}]
<1> DEFINE E(f, k) == IF k \in B THEN {k} \cup f[Parent(k)] ELSE {k}
           Has(m) == \E f : f = [k \in 1..m |-> E(f, k)]
           Bad == {m \in 0..j : ~Has(m)}
<1>1. SUFFICES ASSUME ~Has(j) PROVE FALSE
  OBVIOUS
<1>2. PICK m \in Bad : \A k \in Bad : m <= k
  <2> HIDE DEF Has
  <2>1. Bad \in SUBSET Nat /\ Bad # {}
    BY <1>1
  <2> HIDE DEF Bad
  <2> QED
    BY <2>1, LeastNat
<1>3. CASE m = 0
  <2>1. Has(0)
    BY ParentIs
  <2> HIDE DEF Has
  <2> QED
    BY <1>2, <1>3, <2>1
<1>4. CASE m # 0
  <2>1. m - 1 \in 0..j /\ m \in 1..j /\ Has(m - 1)
    <3> HIDE DEF Has
    <3> QED
      BY <1>2, <1>4
  <2>2. PICK f : f = [k \in 1..(m - 1) |-> E(f, k)]
    BY <2>1
  <2> DEFINE g == [k \in 1..m |-> IF k = m THEN E(f, m) ELSE f[k]]
  <2>3. \A k \in 1..m : g[k] = E(g, k)
    <3> SUFFICES ASSUME NEW k \in 1..m PROVE g[k] = E(g, k)
      OBVIOUS
    <3>1. k \in B => Parent(k) \in 1..(m - 1)
      BY ParentIs, <2>1, SMTT(30)
    <3>2. k \in B => g[Parent(k)] = f[Parent(k)]
      BY <3>1, <2>1
    <3>3. CASE k = m
      BY <3>2, <3>3
    <3>4. CASE k # m
      <4>1. k \in 1..(m - 1) /\ g[k] = f[k]
        BY <3>4, <2>1
      <4>2. f[k] = E(f, k)
        BY <2>2, <4>1
      <4> QED
        BY <3>2, <4>1, <4>2
    <3> QED
      BY <3>3, <3>4
  <2>4. g = [k \in 1..m |-> E(g, k)]
    BY <2>3
  <2> HIDE DEF g
  <2>5. Has(m)
    BY <2>4
  <2> HIDE DEF Has
  <2> QED
    BY <1>2, <2>5
<1> QED
  BY <1>3, <1>4

LEMMA AscentIs ==
    ASSUME NEW h, NEW j \in Nat, j >= 1
    PROVE  \E f : /\ f = [k \in 1..j |-> IF k > 1 /\ Less(h[j], h[Parent(k)])
                                         THEN {k} \cup f[Parent(k)] ELSE {k}]
                  /\ Ascent(h, j) = f[j]
<1> DEFINE path[k \in 1..j] ==
            IF k > 1 /\ Less(h[j], h[Parent(k)]) THEN {k} \cup path[Parent(k)] ELSE {k}
           B == {k \in 2..j : Less(h[j], h[Parent(k)])}
<1>1. \E f : f = [k \in 1..j |-> IF k > 1 /\ Less(h[j], h[Parent(k)])
                                 THEN {k} \cup f[Parent(k)] ELSE {k}]
  <2>1. PICK f : f = [k \in 1..j |-> IF k \in B THEN {k} \cup f[Parent(k)] ELSE {k}]
    BY AscentRec
  <2>2. \A k \in 1..j : k \in B <=> k > 1 /\ Less(h[j], h[Parent(k)])
    OBVIOUS
  <2> HIDE DEF B
  <2>3. f = [k \in 1..j |-> IF k > 1 /\ Less(h[j], h[Parent(k)])
                            THEN {k} \cup f[Parent(k)] ELSE {k}]
    BY <2>1, <2>2
  <2> QED
    BY <2>3
<1>2. path = [k \in 1..j |-> IF k > 1 /\ Less(h[j], h[Parent(k)])
                             THEN {k} \cup path[Parent(k)] ELSE {k}]
  BY <1>1
<1>3. Ascent(h, j) = path[j]
  BY DEF Ascent
<1> QED
  BY <1>2, <1>3

\* They are a path that ends at j and begins where no parent is greater.
LEMMA AscentPath ==
    ASSUME NEW h, NEW j \in Nat, j >= 1
    PROVE  \E s \in 1..j : /\ Ascent(h, j) \subseteq 1..j /\ IsPath(Ascent(h, j), s, j)
                           /\ s = 1 \/ ~Less(h[j], h[Parent(s)])
                           /\ \A k \in Ascent(h, j) \ {s} : k > 1 /\ Less(h[j], h[Parent(k)])
<1>1. PICK f : /\ f = [k \in 1..j |-> IF k > 1 /\ Less(h[j], h[Parent(k)])
                                      THEN {k} \cup f[Parent(k)] ELSE {k}]
               /\ Ascent(h, j) = f[j]
  BY AscentIs
<1> DEFINE Good(k, s) == /\ f[k] \subseteq 1..k /\ IsPath(f[k], s, k)
                         /\ s = 1 \/ ~Less(h[j], h[Parent(s)])
                         /\ \A i \in f[k] \ {s} : i > 1 /\ Less(h[j], h[Parent(i)])
           Bad == {k \in 1..j : ~\E s \in 1..k : Good(k, s)}
<1>2. SUFFICES ASSUME Bad # {} PROVE FALSE
  <2>1. j \notin Bad => \E s \in 1..j : Good(j, s)
    OBVIOUS
  <2> QED
    BY <1>1, <1>2, <2>1, ZenonT(60)
<1>3. PICK k \in Bad : \A i \in Bad : k <= i
  <2>1. Bad \in SUBSET Nat
    OBVIOUS
  <2> HIDE DEF Bad
  <2> QED
    BY <1>2, <2>1, LeastNat
<1>4. k \in 1..j
  OBVIOUS
<1>5. CASE ~(k > 1 /\ Less(h[j], h[Parent(k)]))
  <2>1. f[k] = {k}
    BY <1>1, <1>4, <1>5
  <2>2. IsPath(f[k], k, k)
    BY <1>4, <2>1 DEF IsPath
  <2>3. Good(k, k)
    BY <1>4, <1>5, <2>1, <2>2
  <2> HIDE DEF Good
  <2> QED
    BY <1>3, <1>4, <2>3
<1>6. CASE k > 1 /\ Less(h[j], h[Parent(k)])
  <2>1. PICK m \in Nat : m = Parent(k) /\ m < k /\ m >= 1
    BY <1>4, <1>6, ParentIs
  <2>2. f[k] = {k} \cup f[m]
    BY <1>1, <1>4, <1>6, <2>1
  <2>3. PICK s \in 1..m : Good(m, s)
    <3> HIDE DEF Good
    <3> QED
      BY <1>3, <1>4, <2>1
  <2>4. f[k] \subseteq 1..k
    BY <1>4, <2>1, <2>2, <2>3
  <2>5. IsPath(f[k], s, k)
    <3>1. IsPath(f[m], s, m) /\ f[m] \subseteq 1..m /\ s \in Nat /\ s <= m
      BY <2>3
    <3>2. \A i \in f[m] : Parent(i) # m /\ Parent(i) # k /\ i # k
      BY <2>1, <3>1, ParentIs, SMTT(30)
    <3> QED
      BY <2>1, <2>2, <3>1, <3>2 DEF IsPath
  <2>6. s \in 1..k /\ s # k
    BY <2>1
  <2>7. Good(k, s)
    BY <1>4, <1>6, <2>2, <2>3, <2>4, <2>5, <2>6
  <2> HIDE DEF Good
  <2> QED
    BY <1>3, <1>4, <2>6, <2>7
<1> QED
  BY <1>5, <1>6

\* Up spelled out: the path is shifted down by one place, j's element goes to s.
LEMMA UpIs ==
    ASSUME NEW S, NEW h \in Seq(S), NEW j \in 1..Len(h)
    PROVE  \E s \in 1..j :
              /\ IsPath(Ascent(h, j), s, j) /\ Ascent(h, j) \subseteq 1..j
              /\ s = 1 \/ ~Less(h[j], h[Parent(s)])
              /\ \A k \in Ascent(h, j) \ {s} : k > 1 /\ Less(h[j], h[Parent(k)])
              /\ Up(h, j) = [k \in 1..Len(h) |->
                    IF k = s THEN h[j] ELSE IF k \in Ascent(h, j) THEN h[Parent(k)] ELSE h[k]]
<1>1. /\ Len(h) \in Nat /\ DOMAIN h = 1..Len(h)
      /\ j \in Nat /\ j >= 1
  BY LenIs
<1>2. PICK s \in 1..j : /\ Ascent(h, j) \subseteq 1..j /\ IsPath(Ascent(h, j), s, j)
                        /\ s = 1 \/ ~Less(h[j], h[Parent(s)])
                        /\ \A k \in Ascent(h, j) \ {s} : k > 1 /\ Less(h[j], h[Parent(k)])
  BY <1>1, AscentPath
<1> DEFINE P == Ascent(h, j)
<1>3. s \in P /\ \A i \in P : s <= i
  BY <1>2 DEF IsPath
<1>4. (CHOOSE k \in P : \A i \in P : k <= i) = s
  <2>1. \A k \in P : (\A i \in P : k <= i) => k = s
    BY <1>2, <1>3
  <2> HIDE DEF P
  <2> QED
    BY <1>3, <2>1
<1>5. Up(h, j) = [k \in 1..Len(h) |->
                    IF k = s THEN h[j] ELSE IF k \in P THEN h[Parent(k)] ELSE h[k]]
  <2> HIDE DEF P
  <2> QED
    BY <1>1, <1>4 DEF Up, P
<1> QED
  BY <1>2, <1>5

--------------------------------------------------------------------------------
(* What down and up do to the elements *)

\* g has the elements of h at other places.
RearrangedOver(D, h, g) ==
    \E p \in [D -> D] :
        /\ \A k \in D : g[k] = h[p[k]]
        /\ \A k, m \in D : p[k] = p[m] => k = m
        /\ \A k \in D : \E m \in D : p[m] = k

Rearranged(h, g) == DOMAIN g = DOMAIN h /\ RearrangedOver(DOMAIN h, h, g)

LEMMA RearrangedKeeps ==
    ASSUME NEW S, NEW h \in Seq(S), NEW g, Rearranged(h, g), g = [k \in DOMAIN h |-> g[k]]
    PROVE  /\ g \in Seq(S) /\ Len(g) = Len(h)
           /\ Members(g) = Members(h)
           /\ Distinct(h) => Distinct(g)
<1>1. Len(h) \in Nat /\ DOMAIN h = 1..Len(h) /\ \A i \in 1..Len(h) : h[i] \in S
  BY LenIs
<1>2. PICK p \in [1..Len(h) -> 1..Len(h)] :
          /\ \A k \in 1..Len(h) : g[k] = h[p[k]]
          /\ \A k, m \in 1..Len(h) : p[k] = p[m] => k = m
          /\ \A k \in 1..Len(h) : \E m \in 1..Len(h) : p[m] = k
  <2>1. RearrangedOver(DOMAIN h, h, g)
    BY DEF Rearranged
  <2>2. RearrangedOver(1..Len(h), h, g)
    BY <1>1, <2>1
  <2> QED
    BY <2>2 DEF RearrangedOver
<1>3. DOMAIN g = 1..Len(h)
  BY <1>1 DEF Rearranged
<1>4. g \in [1..Len(h) -> S]
  BY <1>1, <1>2
<1>5. g \in Seq(S) /\ Len(g) = Len(h)
  BY <1>1, <1>4, SeqDef, LenProperties
<1>6. Members(g) = Members(h)
  <2>1. \A k \in 1..Len(h) : \E m \in 1..Len(h) : g[k] = h[m]
    BY <1>2
  <2>2. \A k \in 1..Len(h) : \E m \in 1..Len(h) : g[m] = h[k]
    <3> TAKE k \in 1..Len(h)
    <3>1. PICK m \in 1..Len(h) : p[m] = k
      BY <1>2
    <3> QED
      BY <1>2, <3>1
  <2> QED
    BY <1>1, <1>3, <2>1, <2>2 DEF Members
<1>7. Distinct(h) => Distinct(g)
  BY <1>1, <1>2, <1>3 DEF Distinct
<1> QED
  BY <1>5, <1>6, <1>7

\* heap.up rearranges.
LEMMA UpRearranges ==
    ASSUME NEW S, NEW h \in Seq(S), NEW j \in 1..Len(h)
    PROVE  /\ Rearranged(h, Up(h, j))
           /\ Up(h, j) = [k \in DOMAIN h |-> Up(h, j)[k]]
<1>1. Len(h) \in Nat /\ DOMAIN h = 1..Len(h)
  BY LenIs
<1> DEFINE P == Ascent(h, j)
           g == Up(h, j)
<1>2. PICK s \in 1..j :
          /\ IsPath(P, s, j) /\ P \subseteq 1..j
          /\ g = [k \in 1..Len(h) |->
                    IF k = s THEN h[j] ELSE IF k \in P THEN h[Parent(k)] ELSE h[k]]
  BY UpIs
<1> HIDE DEF P, g
<1> DEFINE p == [k \in 1..Len(h) |-> IF k = s THEN j ELSE IF k \in P THEN Parent(k) ELSE k]
<1>3. \A k \in P : k \in 1..Len(h) /\ k <= j /\ (k # s => Parent(k) \in P /\ Parent(k) < k)
  <2> TAKE k \in P
  <2>1. k \in Nat /\ k >= 1 /\ k <= j
    BY <1>2
  <2>2. Parent(k) < k
    BY <2>1, ParentIs
  <2> QED
    BY <1>1, <1>2, <2>1, <2>2 DEF IsPath
<1>4. p \in [1..Len(h) -> 1..Len(h)]
  BY <1>3
<1>5. \A k \in 1..Len(h) : g[k] = h[p[k]]
  BY <1>2
<1>6. s \in P /\ j \in P
  BY <1>2 DEF IsPath
<1>7. \A k \in P \ {s} : p[k] = Parent(k) /\ p[k] \in P \ {j}
  BY <1>3, <1>1, <1>2
<1>8. \A k \in (1..Len(h)) \ P : p[k] = k
  BY <1>6
<1>9. \A k, m \in 1..Len(h) : p[k] = p[m] => k = m
  <2>1. \A k, m \in P \ {s} : p[k] = p[m] => k = m
    BY <1>2, <1>7 DEF IsPath
  <2>2. p[s] = j
    OBVIOUS
  <2> HIDE DEF p
  <2> QED
    BY <1>6, <1>7, <1>8, <2>1, <2>2
<1>10. \A k \in 1..Len(h) : \E m \in 1..Len(h) : p[m] = k
  <2>1. \A k \in P \ {j} : \E m \in P \ {s} : Parent(m) = k
    BY <1>2 DEF IsPath
  <2>2. p[s] = j /\ s \in 1..Len(h)
    OBVIOUS
  <2> HIDE DEF p
  <2> QED
    BY <1>3, <1>7, <1>8, <2>1, <2>2
<1>11. DOMAIN g = DOMAIN h /\ g = [k \in DOMAIN h |-> g[k]]
  BY <1>1, <1>2
<1> HIDE DEF p
<1>12. Rearranged(h, g)
  <2>1. RearrangedOver(1..Len(h), h, g)
    BY <1>4, <1>5, <1>9, <1>10 DEF RearrangedOver
  <2>2. RearrangedOver(DOMAIN h, h, g)
    BY <1>1, <2>1
  <2> QED
    BY <1>11, <2>2 DEF Rearranged
<1> QED
  BY <1>11, <1>12 DEF g

--------------------------------------------------------------------------------
(* The order *)

\* The first n elements are a heap; but for the one at i they are; and the one
\* at i is not even greater than those below it.
HeapUpTo(h, n) == \A k \in 2..n : ~Less(h[k], h[Parent(k)])

NearHeap(h, i, n) ==
    /\ \A k \in 2..n : k # i /\ Parent(k) # i => ~Less(h[k], h[Parent(k)])
    /\ i > 1 => \A k \in 2..n : Parent(k) = i => ~Less(h[k], h[Parent(i)])

AboveBelow(h, i, n) == \A k \in 2..n : Parent(k) = i => ~Less(h[k], h[i])

LEMMA UpHeaps ==
    ASSUME NEW S, Ordered(S), NEW h \in Seq(S), NEW n \in 1..Len(h), NEW j \in 1..n,
           NearHeap(h, j, n), AboveBelow(h, j, n)
    PROVE  HeapUpTo(Up(h, j), n) /\ \A k \in (n + 1)..Len(h) : Up(h, j)[k] = h[k]
<1>1. /\ Len(h) \in Nat /\ DOMAIN h = 1..Len(h) /\ \A k \in 1..Len(h) : h[k] \in S
      /\ n \in Nat /\ j \in Nat /\ j \in 1..Len(h)
  BY LenIs
<1> DEFINE P == Ascent(h, j)
           g == Up(h, j)
<1>2. PICK s \in 1..j :
          /\ IsPath(P, s, j) /\ P \subseteq 1..j
          /\ s = 1 \/ ~Less(h[j], h[Parent(s)])
          /\ \A k \in P \ {s} : k > 1 /\ Less(h[j], h[Parent(k)])
          /\ g = [k \in 1..Len(h) |->
                    IF k = s THEN h[j] ELSE IF k \in P THEN h[Parent(k)] ELSE h[k]]
  BY <1>1, UpIs
<1> HIDE DEF P, g
<1>3. s \in P /\ j \in P /\ s \in 1..Len(h) /\ s >= 1
  BY <1>1, <1>2 DEF IsPath
<1>4. \A k \in P : k \in 1..n /\ k <= j /\ s <= k
  BY <1>1, <1>2 DEF IsPath
<1>5. \A k \in P \ {s} : Parent(k) \in P
  BY <1>2 DEF IsPath
<1>6. \A k \in (n + 1)..Len(h) : g[k] = h[k]
  BY <1>1, <1>2, <1>3, <1>4
<1>7. ASSUME NEW k \in 2..n PROVE ~Less(g[k], g[Parent(k)])
  <2> DEFINE m == Parent(k)
  <2>1. m \in 1..n /\ m < k /\ k \in 1..Len(h) /\ m \in 1..Len(h)
    <3>1. k \in Nat /\ k >= 1 /\ k > 1 /\ k <= n
      BY <1>1
    <3>2. m \in Nat /\ m < k /\ m >= 1
      BY <3>1, ParentIs
    <3> QED
      BY <1>1, <3>1, <3>2
  <2>2. m > 1 => Parent(m) \in 1..Len(h) /\ Parent(m) < m
    <3>1. m \in Nat /\ m >= 1 /\ m <= Len(h)
      BY <1>1, <2>1
    <3>2. Parent(m) \in Nat /\ Parent(m) < m /\ (m > 1 => Parent(m) >= 1)
      BY <3>1, ParentIs
    <3> QED
      BY <1>1, <3>1, <3>2
  <2>3. \A x \in 1..Len(h) : g[x] = IF x = s THEN h[j] ELSE IF x \in P THEN h[Parent(x)] ELSE h[x]
    BY <1>2
  <2>4. \A x \in P \ {s} : Parent(x) \in 1..Len(h)
    BY <1>1, <1>4, <1>5
  <2>5. CASE k \notin P /\ m \notin P
    BY <1>1, <1>3, <2>1, <2>3, <2>5 DEF NearHeap
  <2>6. CASE k \notin P /\ m = s /\ s = j
    BY <1>1, <1>3, <2>1, <2>3, <2>6 DEF AboveBelow
  <2>7. CASE k \notin P /\ m = s /\ s # j
    <3>1. PICK x \in P \ {s} : Parent(x) = s
      BY <1>2, <1>3, <2>7 DEF IsPath
    <3>2. Less(h[j], h[s])
      BY <1>2, <3>1
    <3>3. ~Less(h[k], h[s])
      BY <1>3, <2>1, <2>7 DEF NearHeap
    <3>4. ~Less(h[k], h[j])
      BY <1>1, <1>3, <2>1, <3>2, <3>3 DEF Ordered
    <3> QED
      BY <1>3, <2>1, <2>3, <2>7, <3>4
  <2>8. CASE k \notin P /\ m \in P \ {s} /\ m = j
    <3>1. g[m] = h[Parent(m)] /\ g[k] = h[k] /\ j > 1
      BY <1>2, <1>3, <2>1, <2>3, <2>8
    <3> QED
      BY <2>1, <2>8, <3>1 DEF NearHeap
  <2>9. CASE k \notin P /\ m \in P \ {s} /\ m # j
    <3>1. g[m] = h[Parent(m)] /\ g[k] = h[k] /\ m > 1 /\ Parent(m) # j /\ k # j
      <4>1. m <= j /\ m > 1
        BY <1>2, <1>4, <2>9
      <4> QED
        BY <1>1, <1>3, <2>1, <2>2, <2>3, <2>9, <4>1
    <3>2. ~Less(h[k], h[m]) /\ ~Less(h[m], h[Parent(m)])
      BY <2>1, <2>9, <3>1 DEF NearHeap
    <3> QED
      BY <1>1, <2>1, <2>2, <3>1, <3>2 DEF Ordered
  <2>10. CASE k = s
    <3>1. m \notin P /\ s # 1
      BY <1>4, <2>1, <2>10
    <3>2. g[k] = h[j] /\ g[m] = h[m] /\ ~Less(h[j], h[m])
      BY <1>2, <1>3, <2>1, <2>3, <2>10, <3>1
    <3> QED
      BY <2>1, <3>2
  <2>11. CASE k \in P \ {s} /\ m = s
    <3>1. g[k] = h[m] /\ g[m] = h[j] /\ Less(h[j], h[m])
      BY <1>2, <2>1, <2>3, <2>11
    <3> QED
      BY <1>1, <2>1, <3>1 DEF Ordered
  <2>12. CASE k \in P \ {s} /\ m # s
    <3>1. m \in P \ {s} /\ m # j /\ m > 1
      BY <1>1, <1>2, <1>4, <1>5, <2>1, <2>12
    <3>2. g[k] = h[m] /\ g[m] = h[Parent(m)] /\ Parent(m) # j
      BY <1>4, <1>1, <2>1, <2>2, <2>3, <2>12, <3>1
    <3> QED
      BY <2>1, <3>1, <3>2 DEF NearHeap
  <2> QED
    BY <1>3, <2>5, <2>6, <2>7, <2>8, <2>9, <2>10, <2>11, <2>12
<1>8. HeapUpTo(g, n)
  BY <1>7 DEF HeapUpTo
<1> QED
  BY <1>6, <1>8 DEF g

--------------------------------------------------------------------------------
(* The places down passes *)

LEMMA ChildIs ==
    ASSUME NEW h, NEW n \in Nat, NEW k \in Nat, k >= 1, 2 * k <= n
    PROVE  /\ Child(h, k, n) \in 2..n /\ k < Child(h, k, n) /\ Parent(Child(h, k, n)) = k
           /\ Child(h, k, n) = 2 * k \/ Child(h, k, n) = 2 * k + 1
<1>1. Parent(2 * k) = k /\ Parent(2 * k + 1) = k
  BY ParentIs
<1>2. CASE 2 * k + 1 <= n /\ Less(h[2 * k + 1], h[2 * k])
  <2>1. Child(h, k, n) = 2 * k + 1
    BY <1>2 DEF Child
  <2> QED
    BY <1>1, <1>2, <2>1
<1>3. CASE ~(2 * k + 1 <= n /\ Less(h[2 * k + 1], h[2 * k]))
  <2>1. Child(h, k, n) = 2 * k
    BY <1>3 DEF Child
  <2> QED
    BY <1>1, <1>3, <2>1
<1> QED
  BY <1>2, <1>3

\* No child of k is less than the one down compares with.
LEMMA ChildLeast ==
    ASSUME NEW S, Ordered(S), NEW h \in Seq(S), NEW n \in 1..Len(h), NEW k \in 1..n,
           NEW c \in 2..n, Parent(c) = k
    PROVE  2 * k <= n /\ ~Less(h[c], h[Child(h, k, n)])
<1>1. /\ Len(h) \in Nat /\ n \in Nat /\ c \in Nat /\ c >= 1 /\ c \in 1..Len(h)
      /\ \A i \in 1..Len(h) : h[i] \in S
  BY LenIs
<1>2. c = 2 * k \/ c = 2 * k + 1
  BY <1>1, ParentIs
<1>3. 2 * k <= n /\ 2 * k \in 1..Len(h)
  BY <1>1, <1>2
<1>4. CASE 2 * k + 1 <= n /\ Less(h[2 * k + 1], h[2 * k])
  <2>1. Child(h, k, n) = 2 * k + 1 /\ 2 * k + 1 \in 1..Len(h)
    BY <1>1, <1>4 DEF Child
  <2>2. ~Less(h[2 * k], h[2 * k + 1]) /\ ~Less(h[2 * k + 1], h[2 * k + 1])
    BY <1>1, <1>3, <1>4, <2>1 DEF Ordered
  <2> QED
    BY <1>2, <1>3, <2>1, <2>2
<1>5. CASE ~(2 * k + 1 <= n /\ Less(h[2 * k + 1], h[2 * k]))
  <2>1. Child(h, k, n) = 2 * k
    BY <1>5 DEF Child
  <2>2. ~Less(h[2 * k], h[2 * k])
    BY <1>1, <1>3 DEF Ordered
  <2> QED
    BY <1>1, <1>2, <1>3, <1>5, <2>1, <2>2
<1> QED
  BY <1>4, <1>5

\* f gives a place of B itself and what f gives the place c leads to.
Follows(f, N, B, c) ==
    f = [k \in 1..N |-> IF k \in B THEN {k} \cup f[c[k]] ELSE {k}]

LEMMA DescentRec ==
    ASSUME NEW N \in Nat, NEW c, NEW B \in SUBSET (1..N), \A k \in B : c[k] \in (k + 1)..N
    PROVE  \E f : Follows(f, N, B, c)
<1> USE DEF Follows
<1> DEFINE E(f, k) == IF k \in B THEN {k} \cup f[c[k]] ELSE {k}
           Has(d) == \E f : f = [k \in (N + 1 - d)..N |-> E(f, k)]
           Bad == {d \in 0..N : ~Has(d)}
<1>1. SUFFICES ASSUME ~Has(N) PROVE FALSE
  <2>1. N + 1 - N = 1
    OBVIOUS
  <2> QED
    BY <2>1
<1>2. PICK d \in Bad : \A k \in Bad : d <= k
  <2> HIDE DEF Has
  <2>1. Bad \in SUBSET Nat /\ Bad # {}
    BY <1>1
  <2> HIDE DEF Bad
  <2> QED
    BY <2>1, LeastNat
<1>3. CASE d = 0
  <2>1. Has(0)
    <3> SUFFICES \E f : f = [k \in (N + 1)..N |-> E(f, k)]
      OBVIOUS
    <3>1. (N + 1)..N = {}
      OBVIOUS
    <3> DEFINE g == [k \in {} |-> {k}]
    <3>2. g = [k \in (N + 1)..N |-> E(g, k)]
      BY <3>1
    <3> QED
      BY <3>2
  <2> HIDE DEF Has
  <2> QED
    BY <1>2, <1>3, <2>1
<1>4. CASE d # 0
  <2>1. d - 1 \in 0..N /\ d \in 1..N /\ Has(d - 1)
    <3> HIDE DEF Has
    <3> QED
      BY <1>2, <1>4
  <2> DEFINE m == N + 1 - d
  <2>2. PICK f : f = [k \in (m + 1)..N |-> E(f, k)]
    <3>1. N + 1 - (d - 1) = m + 1
      BY <2>1
    <3> QED
      BY <2>1, <3>1
  <2>3. m \in 1..N
    BY <2>1
  <2> HIDE DEF m
  <2> DEFINE g == [k \in m..N |-> IF k = m THEN E(f, m) ELSE f[k]]
  <2>4. \A k \in m..N : g[k] = E(g, k)
    <3> SUFFICES ASSUME NEW k \in m..N PROVE g[k] = E(g, k)
      OBVIOUS
    <3>1. k \in B => c[k] \in (m + 1)..N
      BY <2>3
    <3>2. k \in B => g[c[k]] = f[c[k]]
      BY <3>1, <2>3
    <3>3. CASE k = m
      BY <3>2, <3>3
    <3>4. CASE k # m
      <4>1. k \in (m + 1)..N /\ g[k] = f[k]
        BY <3>4, <2>3
      <4>2. f[k] = E(f, k)
        BY <2>2, <4>1
      <4> QED
        BY <3>2, <4>1, <4>2
    <3> QED
      BY <3>3, <3>4
  <2>5. g = [k \in m..N |-> E(g, k)]
    BY <2>4
  <2> HIDE DEF g
  <2>6. Has(d)
    BY <2>5 DEF m
  <2> HIDE DEF Has
  <2> QED
    BY <1>2, <2>6
<1> QED
  BY <1>3, <1>4

\* f gives the places the element at i would pass from a place on.
Descends(f, h, i, n) ==
    f = [k \in 1..(2 * n + 1) |->
            IF 2 * k <= n /\ Less(h[Child(h, k, n)], h[i])
            THEN {k} \cup f[Child(h, k, n)] ELSE {k}]

LEMMA DescentIs ==
    ASSUME NEW h, NEW n \in Nat, NEW i \in 1..(2 * n + 1)
    PROVE  \E f : Descends(f, h, i, n) /\ Descent(h, i, n) = f[i]
<1> DEFINE path[k \in 1..(2 * n + 1)] ==
            IF 2 * k <= n /\ Less(h[Child(h, k, n)], h[i])
            THEN {k} \cup path[Child(h, k, n)] ELSE {k}
           B == {k \in 1..n : 2 * k <= n /\ Less(h[Child(h, k, n)], h[i])}
           c == [k \in 1..n |-> Child(h, k, n)]
<1>1. \E f : f = [k \in 1..(2 * n + 1) |->
                     IF 2 * k <= n /\ Less(h[Child(h, k, n)], h[i])
                     THEN {k} \cup f[Child(h, k, n)] ELSE {k}]
  <2>1. \A k \in B : c[k] \in (k + 1)..(2 * n + 1)
    <3> SUFFICES ASSUME NEW k \in B PROVE c[k] \in (k + 1)..(2 * n + 1)
      OBVIOUS
    <3>1. k \in Nat /\ k >= 1 /\ 2 * k <= n /\ c[k] = Child(h, k, n)
      OBVIOUS
    <3>2. Child(h, k, n) \in 2..n /\ k < Child(h, k, n)
      BY <3>1, ChildIs
    <3> QED
      BY <3>1, <3>2
  <2>2. PICK f : Follows(f, 2 * n + 1, B, c)
    <3>1. B \in SUBSET (1..(2 * n + 1)) /\ 2 * n + 1 \in Nat
      OBVIOUS
    <3> HIDE DEF B, c
    <3> QED
      BY <2>1, <3>1, DescentRec
  <2>3. \A k \in 1..(2 * n + 1) : k \in B <=> 2 * k <= n /\ Less(h[Child(h, k, n)], h[i])
    OBVIOUS
  <2>4. \A k \in B : c[k] = Child(h, k, n)
    OBVIOUS
  <2> HIDE DEF B, c
  <2>5. f = [k \in 1..(2 * n + 1) |->
                IF 2 * k <= n /\ Less(h[Child(h, k, n)], h[i])
                THEN {k} \cup f[Child(h, k, n)] ELSE {k}]
    BY <2>2, <2>3, <2>4 DEF Follows
  <2> QED
    BY <2>5
<1>2. path = [k \in 1..(2 * n + 1) |->
                 IF 2 * k <= n /\ Less(h[Child(h, k, n)], h[i])
                 THEN {k} \cup path[Child(h, k, n)] ELSE {k}]
  BY <1>1
<1>3. Descent(h, i, n) = path[i]
  BY DEF Descent
<1> HIDE DEF path
<1> QED
  BY <1>2, <1>3 DEF Descends

\* A path down to t, where no child is less, by the lesser child each time.
IsDescent(D, h, i, t, n) ==
    /\ i \in D /\ t \in D /\ D \subseteq 1..n /\ \A k \in D : i <= k /\ k <= t
    /\ \A k \in D \ {t} : /\ 2 * k <= n /\ Child(h, k, n) \in D
                          /\ Less(h[Child(h, k, n)], h[i])
    /\ \A k \in D \ {i} : Parent(k) \in D /\ k = Child(h, Parent(k), n)
    /\ ~(2 * t <= n /\ Less(h[Child(h, t, n)], h[i]))

LEMMA DescentPath ==
    ASSUME NEW h, NEW n \in Nat, NEW i \in 1..n
    PROVE  \E t \in i..n : IsDescent(Descent(h, i, n), h, i, t, n)
<1>1. PICK f : Descends(f, h, i, n) /\ Descent(h, i, n) = f[i]
  <2>1. i \in 1..(2 * n + 1)
    OBVIOUS
  <2> QED
    BY <2>1, DescentIs
<1> DEFINE Sub(D, k, t) ==
               /\ k \in D /\ t \in D /\ D \subseteq 1..n /\ \A x \in D : k <= x /\ x <= t
               /\ \A x \in D \ {t} : /\ 2 * x <= n /\ Child(h, x, n) \in D
                                     /\ Less(h[Child(h, x, n)], h[i])
               /\ \A x \in D \ {k} : Parent(x) \in D /\ x = Child(h, Parent(x), n)
               /\ ~(2 * t <= n /\ Less(h[Child(h, t, n)], h[i]))
           Good(k) == \E t \in k..n : Sub(f[k], k, t)
           Bad == {d \in 0..n : \E k \in 1..n : k = n - d /\ ~Good(k)}
<1>2. SUFFICES ASSUME Bad # {} PROVE FALSE
  <2>1. n - i \in 0..n /\ i = n - (n - i)
    OBVIOUS
  <2>2. n - i \notin Bad => Good(i)
    <3> HIDE DEF Good
    <3> QED
      BY <2>1
  <2>3. Good(i)
    BY <1>2, <2>2
  <2>4. PICK t \in i..n : Sub(f[i], i, t)
    BY <2>3
  <2>5. IsDescent(f[i], h, i, t, n)
    BY <2>4 DEF IsDescent
  <2> QED
    BY <1>1, <2>5
<1>3. PICK d \in Bad : \A x \in Bad : d <= x
  <2>1. Bad \in SUBSET Nat
    OBVIOUS
  <2> HIDE DEF Bad
  <2> QED
    BY <1>2, <2>1, LeastNat
<1>4. PICK k \in 1..n : k = n - d /\ ~Good(k)
  OBVIOUS
<1>5. k \in 1..(2 * n + 1) /\ k \in Nat /\ k >= 1
  OBVIOUS
<1>6. CASE ~(2 * k <= n /\ Less(h[Child(h, k, n)], h[i]))
  <2>1. f[k] = {k}
    BY <1>1, <1>5, <1>6 DEF Descends
  <2>2. Sub(f[k], k, k)
    BY <1>4, <1>5, <1>6, <2>1
  <2> HIDE DEF Sub
  <2> QED
    BY <1>4, <1>5, <2>2
<1>7. CASE 2 * k <= n /\ Less(h[Child(h, k, n)], h[i])
  <2>1. PICK c \in 2..n : c = Child(h, k, n) /\ k < c /\ Parent(c) = k
    BY <1>5, <1>7, ChildIs
  <2>2. f[k] = {k} \cup f[c]
    BY <1>1, <1>5, <1>7, <2>1 DEF Descends
  <2>3. Good(c)
    <3>1. n - c \in 0..n /\ c = n - (n - c) /\ n - c < d /\ c \in 1..n
      BY <1>4, <2>1
    <3> HIDE DEF Good
    <3> QED
      BY <1>3, <3>1
  <2>4. PICK t \in c..n : Sub(f[c], c, t)
    BY <2>3
  <2>5. Sub({k} \cup f[c], k, t)
    <3>1. k # t /\ t \in 1..n /\ c \in f[c] /\ f[c] \subseteq 1..n /\ k \notin f[c]
      BY <1>5, <2>1, <2>4
    <3>2. \A x \in {k} \cup f[c] : k <= x /\ x <= t
      BY <1>5, <2>1, <2>4
    <3>3. \A x \in ({k} \cup f[c]) \ {t} :
              /\ 2 * x <= n /\ Child(h, x, n) \in {k} \cup f[c]
              /\ Less(h[Child(h, x, n)], h[i])
      BY <1>7, <2>1, <2>4, <3>1
    <3>4. \A x \in ({k} \cup f[c]) \ {k} :
              Parent(x) \in {k} \cup f[c] /\ x = Child(h, Parent(x), n)
      BY <2>1, <2>4, <3>1
    <3>5. ~(2 * t <= n /\ Less(h[Child(h, t, n)], h[i])) /\ t \in f[c]
      BY <2>4
    <3> QED
      BY <1>5, <3>1, <3>2, <3>3, <3>4, <3>5
  <2>6. t \in k..n
    BY <1>5, <2>1
  <2> HIDE DEF Sub
  <2> QED
    BY <1>4, <2>2, <2>5, <2>6
<1> QED
  BY <1>6, <1>7

\* Down spelled out: the path is shifted up by one place, i's element goes to t.
LEMMA DownIs ==
    ASSUME NEW S, NEW h \in Seq(S), NEW n \in 1..Len(h), NEW i \in 1..n
    PROVE  \E t \in i..n :
              /\ IsDescent(Descent(h, i, n), h, i, t, n)
              /\ Down(h, i, n) = [k \in 1..Len(h) |->
                    IF k = t THEN h[i]
                    ELSE IF k \in Descent(h, i, n) THEN h[Child(h, k, n)] ELSE h[k]]
<1>1. Len(h) \in Nat /\ DOMAIN h = 1..Len(h) /\ n \in Nat
  BY LenIs
<1>2. PICK t \in i..n : IsDescent(Descent(h, i, n), h, i, t, n)
  BY <1>1, DescentPath
<1> DEFINE P == Descent(h, i, n)
<1>3. t \in P /\ \A k \in P : k <= t
  BY <1>2 DEF IsDescent
<1>4. P \subseteq 1..n
  BY <1>2 DEF IsDescent
<1>5. (CHOOSE k \in P : \A j \in P : j <= k) = t
  <2>1. \A k \in P : (\A j \in P : j <= k) => k = t
    <3> SUFFICES ASSUME NEW k \in P, \A j \in P : j <= k PROVE k = t
      OBVIOUS
    <3>1. t <= k /\ k <= t /\ k \in 1..n
      BY <1>3, <1>4
    <3> QED
      BY <1>1, <3>1
  <2> HIDE DEF P
  <2> QED
    BY <1>3, <2>1
<1>6. Down(h, i, n) = [k \in 1..Len(h) |->
          IF k = t THEN h[i] ELSE IF k \in P THEN h[Child(h, k, n)] ELSE h[k]]
  <2> HIDE DEF P
  <2> QED
    BY <1>1, <1>5 DEF Down, P
<1> QED
  BY <1>2, <1>6

\* heap.down rearranges.
LEMMA DownRearranges ==
    ASSUME NEW S, NEW h \in Seq(S), NEW n \in 1..Len(h), NEW i \in 1..n
    PROVE  /\ Rearranged(h, Down(h, i, n))
           /\ Down(h, i, n) = [k \in DOMAIN h |-> Down(h, i, n)[k]]
<1>1. Len(h) \in Nat /\ DOMAIN h = 1..Len(h) /\ n \in Nat /\ i \in Nat
  BY LenIs
<1> DEFINE P == Descent(h, i, n)
           g == Down(h, i, n)
<1>2. PICK t \in i..n :
          /\ IsDescent(P, h, i, t, n)
          /\ g = [k \in 1..Len(h) |->
                    IF k = t THEN h[i] ELSE IF k \in P THEN h[Child(h, k, n)] ELSE h[k]]
  BY DownIs, ZenonT(60)
<1> HIDE DEF P, g
<1>3. i \in P /\ t \in P /\ \A k \in P : k \in 1..n /\ i <= k /\ k <= t
  BY <1>2 DEF IsDescent
<1>4. \A k \in P \ {t} : Child(h, k, n) \in P /\ Parent(Child(h, k, n)) = k
                         /\ Child(h, k, n) # i
  <2> SUFFICES ASSUME NEW k \in P \ {t}
               PROVE  Child(h, k, n) \in P /\ Parent(Child(h, k, n)) = k /\ Child(h, k, n) # i
    OBVIOUS
  <2>1. 2 * k <= n /\ Child(h, k, n) \in P
    BY <1>2 DEF IsDescent
  <2>2. k \in Nat /\ k >= 1 /\ i <= k
    BY <1>3
  <2>3. Child(h, k, n) \in 2..n /\ k < Child(h, k, n) /\ Parent(Child(h, k, n)) = k
    BY <1>1, <2>1, <2>2, ChildIs
  <2> QED
    BY <1>1, <2>1, <2>2, <2>3
<1>5. \A k \in P \ {i} : Parent(k) \in P \ {t} /\ Child(h, Parent(k), n) = k
  <2> SUFFICES ASSUME NEW k \in P \ {i}
               PROVE  Parent(k) \in P \ {t} /\ Child(h, Parent(k), n) = k
    OBVIOUS
  <2>1. Parent(k) \in P /\ k = Child(h, Parent(k), n)
    BY <1>2 DEF IsDescent
  <2>2. k \in Nat /\ k >= 1 /\ k <= t /\ t \in Nat
    BY <1>3
  <2>3. Parent(k) < k /\ Parent(k) \in Nat
    BY <2>2, ParentIs
  <2> QED
    BY <2>1, <2>2, <2>3
<1> DEFINE p == [k \in 1..Len(h) |->
                    IF k = t THEN i ELSE IF k \in P THEN Child(h, k, n) ELSE k]
<1>6. p \in [1..Len(h) -> 1..Len(h)]
  <2>1. \A k \in P : k \in 1..Len(h)
    BY <1>1, <1>3
  <2> QED
    BY <1>3, <1>4, <2>1
<1>7. \A k \in 1..Len(h) : g[k] = h[p[k]]
  BY <1>2
<1>8. \A k \in P : k \in 1..Len(h)
  BY <1>1, <1>3
<1>9. \A k \in P \ {t} : p[k] = Child(h, k, n)
  BY <1>8
<1>10. \A k \in (1..Len(h)) \ P : p[k] = k
  BY <1>3
<1>11. p[t] = i
  BY <1>3, <1>8
<1> HIDE DEF p
<1>12. \A k, m \in 1..Len(h) : p[k] = p[m] => k = m
  <2>1. \A k, m \in P \ {t} : p[k] = p[m] => k = m
    BY <1>4, <1>9
  <2> QED
    BY <1>3, <1>4, <1>9, <1>10, <1>11, <2>1
<1>13. \A k \in 1..Len(h) : \E m \in 1..Len(h) : p[m] = k
  <2>1. \A k \in P \ {i} : p[Parent(k)] = k /\ Parent(k) \in 1..Len(h)
    BY <1>5, <1>8, <1>9
  <2> QED
    BY <1>3, <1>8, <1>10, <1>11, <2>1
<1>14. DOMAIN g = DOMAIN h /\ g = [k \in DOMAIN h |-> g[k]]
  BY <1>1, <1>2
<1>15. Rearranged(h, g)
  <2>1. RearrangedOver(1..Len(h), h, g)
    BY <1>6, <1>7, <1>12, <1>13 DEF RearrangedOver
  <2>2. RearrangedOver(DOMAIN h, h, g)
    BY <1>1, <2>1
  <2> QED
    BY <1>14, <2>2 DEF Rearranged
<1> QED
  BY <1>14, <1>15 DEF g

\* heap.down leaves a heap where the element is not less than its parent, or is
\* greater than a child.
LEMMA DownHeaps ==
    ASSUME NEW S, Ordered(S), NEW h \in Seq(S), NEW n \in 1..Len(h), NEW i \in 1..n,
           NearHeap(h, i, n),
           i = 1 \/ ~Less(h[i], h[Parent(i)]) \/ Descent(h, i, n) # {i}
    PROVE  HeapUpTo(Down(h, i, n), n) /\ \A k \in (n + 1)..Len(h) : Down(h, i, n)[k] = h[k]
<1>1. /\ Len(h) \in Nat /\ DOMAIN h = 1..Len(h) /\ \A k \in 1..Len(h) : h[k] \in S
      /\ n \in Nat /\ i \in Nat /\ i \in 1..Len(h)
  BY LenIs
<1> DEFINE P == Descent(h, i, n)
           g == Down(h, i, n)
<1>2. PICK t \in i..n :
          /\ IsDescent(P, h, i, t, n)
          /\ g = [k \in 1..Len(h) |->
                    IF k = t THEN h[i] ELSE IF k \in P THEN h[Child(h, k, n)] ELSE h[k]]
  BY DownIs
<1>3. i = 1 \/ ~Less(h[i], h[Parent(i)]) \/ P # {i}
  OBVIOUS
<1> HIDE DEF P, g
<1>4. i \in P /\ t \in P /\ \A k \in P : k \in 1..n /\ k \in 1..Len(h) /\ i <= k /\ k <= t
  BY <1>1, <1>2 DEF IsDescent
<1>5. \A k \in (n + 1)..Len(h) : g[k] = h[k]
  BY <1>1, <1>2, <1>4
\* The places of the path, and the lesser child of each but the last.
<1>6. ASSUME NEW k \in P \ {t}
      PROVE  /\ 2 * k <= n /\ Child(h, k, n) \in P /\ Less(h[Child(h, k, n)], h[i])
             /\ Child(h, k, n) \in 2..n /\ k < Child(h, k, n) /\ Parent(Child(h, k, n)) = k
             /\ Child(h, k, n) \in 1..Len(h)
  <2>1. 2 * k <= n /\ Child(h, k, n) \in P /\ Less(h[Child(h, k, n)], h[i])
    BY <1>2 DEF IsDescent
  <2>2. k \in Nat /\ k >= 1
    BY <1>4
  <2>3. Child(h, k, n) \in 2..n /\ k < Child(h, k, n) /\ Parent(Child(h, k, n)) = k
    BY <1>1, <2>1, <2>2, ChildIs
  <2> QED
    BY <1>4, <2>1, <2>3
\* The element that moves is not less than i's parent.
<1>7. i > 1 => ~Less(h[i], h[Parent(i)])
  <2> SUFFICES ASSUME i > 1, P # {i} PROVE ~Less(h[i], h[Parent(i)])
    BY <1>3
  <2>1. i # t
    <3> SUFFICES ASSUME i = t PROVE P = {i}
      OBVIOUS
    <3>1. \A k \in P : k = i
      BY <1>1, <1>4
    <3> QED
      BY <1>4, <3>1
  <2>2. LET c == Child(h, i, n)
        IN  Less(h[c], h[i]) /\ c \in 2..n /\ Parent(c) = i /\ c \in 1..Len(h)
    BY <1>4, <1>6, <2>1
  <2>3. ~Less(h[Child(h, i, n)], h[Parent(i)])
    BY <2>2 DEF NearHeap
  <2>4. Parent(i) \in 1..Len(h)
    <3>1. i >= 1 /\ i <= Len(h)
      BY <1>1
    <3>2. Parent(i) \in Nat /\ Parent(i) < i /\ Parent(i) >= 1
      BY <1>1, <3>1, ParentIs
    <3> QED
      BY <1>1, <3>1, <3>2
  <2> QED
    BY <1>1, <2>2, <2>3, <2>4 DEF Ordered
<1>8. ASSUME NEW k \in 2..n PROVE ~Less(g[k], g[Parent(k)])
  <2> DEFINE m == Parent(k)
  <2>1. m \in 1..n /\ m < k /\ k \in 1..Len(h) /\ m \in 1..Len(h)
    <3>1. k \in Nat /\ k >= 1 /\ k > 1 /\ k <= n
      BY <1>1
    <3>2. m \in Nat /\ m < k /\ m >= 1
      BY <3>1, ParentIs
    <3> QED
      BY <1>1, <3>1, <3>2
  <2>2. \A x \in 1..Len(h) :
            g[x] = IF x = t THEN h[i] ELSE IF x \in P THEN h[Child(h, x, n)] ELSE h[x]
    BY <1>2
  <2>3. CASE m \notin P
    <3>1. g[m] = h[m]
      BY <1>4, <2>1, <2>2, <2>3
    <3>2. k \in P => k = i
      BY <1>2, <2>3 DEF IsDescent
    <3>3. CASE k \notin P
      <4>1. g[k] = h[k] /\ k # i /\ m # i
        BY <1>4, <2>1, <2>2, <2>3, <3>3
      <4> QED
        BY <3>1, <4>1 DEF NearHeap
    <3>4. CASE k = i /\ k = t
      BY <1>7, <2>1, <2>2, <3>1, <3>4
    <3>5. CASE k = i /\ k # t
      <4>1. g[k] = h[Child(h, i, n)]
        BY <1>4, <2>1, <2>2, <3>5
      <4>2. Child(h, i, n) \in 2..n /\ Parent(Child(h, i, n)) = i
        BY <1>4, <1>6, <3>5
      <4>3. ~Less(h[Child(h, i, n)], h[Parent(i)])
        BY <2>1, <3>5, <4>2 DEF NearHeap
      <4> QED
        BY <3>1, <3>5, <4>1, <4>3
    <3> QED
      BY <3>2, <3>3, <3>4, <3>5
  <2>4. CASE m = t
    <3>1. g[m] = h[i]
      BY <2>1, <2>2, <2>4
    <3>2. 2 * m <= n /\ ~Less(h[k], h[Child(h, m, n)])
      BY <2>1, ChildLeast
    <3>3. ~Less(h[Child(h, m, n)], h[i])
      BY <1>2, <2>4, <3>2 DEF IsDescent
    <3>4. Child(h, m, n) \in 1..Len(h)
      <4>1. m \in Nat /\ m >= 1
        BY <2>1
      <4>2. Child(h, m, n) \in 2..n
        BY <1>1, <3>2, <4>1, ChildIs
      <4> QED
        BY <1>1, <4>2
    <3>5. ~Less(h[k], h[i])
      BY <1>1, <2>1, <3>2, <3>3, <3>4 DEF Ordered
    <3>6. k \notin P
      BY <1>1, <1>4, <2>1, <2>4
    <3>7. g[k] = h[k]
      BY <1>4, <2>1, <2>2, <3>6
    <3> QED
      BY <3>1, <3>5, <3>7
  <2>5. CASE m \in P \ {t} /\ k \notin P
    <3>1. g[m] = h[Child(h, m, n)] /\ g[k] = h[k]
      BY <1>4, <2>1, <2>2, <2>5
    <3>2. ~Less(h[k], h[Child(h, m, n)])
      BY <2>1, ChildLeast
    <3> QED
      BY <3>1, <3>2
  <2>6. CASE m \in P \ {t} /\ k \in P
    <3>1. k # i
      BY <1>1, <1>4, <2>1, <2>6
    <3>2. k = Child(h, m, n)
      BY <1>2, <2>6, <3>1 DEF IsDescent
    <3>3. g[m] = h[k]
      BY <2>1, <2>2, <2>6, <3>2
    <3>4. CASE k = t
      <4>1. g[k] = h[i] /\ Less(h[k], h[i])
        BY <1>6, <2>1, <2>2, <2>6, <3>2, <3>4
      <4> QED
        BY <1>1, <2>1, <3>3, <4>1 DEF Ordered
    <3>5. CASE k # t
      <4> DEFINE c == Child(h, k, n)
      <4>1. g[k] = h[c] /\ c \in 2..n /\ Parent(c) = k /\ k < c
        BY <1>6, <2>1, <2>2, <2>6, <3>5
      <4>2. c # i
        BY <1>1, <1>4, <2>6, <4>1
      <4>3. ~Less(h[c], h[k])
        BY <3>1, <4>1, <4>2 DEF NearHeap
      <4> QED
        BY <3>3, <4>1, <4>3
    <3> QED
      BY <3>4, <3>5
  <2> QED
    BY <2>3, <2>4, <2>5, <2>6
<1>9. HeapUpTo(g, n)
  BY <1>8 DEF HeapUpTo
<1> QED
  BY <1>5, <1>9 DEF g

\* heap.Fix in the first n: wherever the element at i is out of order with what
\* is above or below it, a heap is left.
LEMMA SettleHeaps ==
    ASSUME NEW S, Ordered(S), NEW h \in Seq(S), NEW n \in 1..Len(h), NEW i \in 1..n,
           NearHeap(h, i, n)
    PROVE  /\ Settle(h, i, n) \in Seq(S) /\ Len(Settle(h, i, n)) = Len(h)
           /\ HeapUpTo(Settle(h, i, n), n)
           /\ \A k \in (n + 1)..Len(h) : Settle(h, i, n)[k] = h[k]
           /\ Members(Settle(h, i, n)) = Members(h)
           /\ Distinct(h) => Distinct(Settle(h, i, n))
<1>1. /\ Len(h) \in Nat /\ \A k \in 1..Len(h) : h[k] \in S
      /\ n \in Nat /\ i \in Nat /\ i \in 1..Len(h)
  BY LenIs
<1>2. CASE Descent(h, i, n) # {i}
  <2>1. Settle(h, i, n) = Down(h, i, n)
    BY <1>2 DEF Settle
  <2>2. HeapUpTo(Down(h, i, n), n) /\ \A k \in (n + 1)..Len(h) : Down(h, i, n)[k] = h[k]
    BY <1>2, DownHeaps
  <2>3. PICK g : g = Down(h, i, n)
    OBVIOUS
  <2>4. Rearranged(h, g) /\ g = [k \in DOMAIN h |-> g[k]]
    BY <2>3, DownRearranges
  <2>5. /\ g \in Seq(S) /\ Len(g) = Len(h) /\ Members(g) = Members(h)
        /\ Distinct(h) => Distinct(g)
    BY <2>4, RearrangedKeeps
  <2> QED
    BY <2>1, <2>2, <2>3, <2>5
<1>3. CASE Descent(h, i, n) = {i}
  <2>1. Settle(h, i, n) = Up(h, i)
    BY <1>3 DEF Settle
  <2>2. AboveBelow(h, i, n)
    <3>1. PICK t \in i..n : IsDescent({i}, h, i, t, n)
      BY <1>1, <1>3, DescentPath
    <3>2. ~(2 * i <= n /\ Less(h[Child(h, i, n)], h[i]))
      BY <3>1 DEF IsDescent
    <3>3. SUFFICES ASSUME NEW k \in 2..n, Parent(k) = i PROVE ~Less(h[k], h[i])
      BY DEF AboveBelow
    <3>4. 2 * i <= n /\ ~Less(h[k], h[Child(h, i, n)])
      BY <3>3, ChildLeast
    <3>5. Child(h, i, n) \in 2..n
      <4>1. i >= 1
        BY <1>1
      <4> QED
        BY <1>1, <3>4, <4>1, ChildIs
    <3>6. k \in 1..Len(h) /\ Child(h, i, n) \in 1..Len(h)
      BY <1>1, <3>5
    <3> QED
      BY <1>1, <3>2, <3>4, <3>6 DEF Ordered
  <2>3. HeapUpTo(Up(h, i), n) /\ \A k \in (n + 1)..Len(h) : Up(h, i)[k] = h[k]
    BY <2>2, UpHeaps
  <2>4. PICK g : g = Up(h, i)
    OBVIOUS
  <2>5. Rearranged(h, g) /\ g = [k \in DOMAIN h |-> g[k]]
    BY <1>1, <2>4, UpRearranges
  <2>6. /\ g \in Seq(S) /\ Len(g) = Len(h) /\ Members(g) = Members(h)
        /\ Distinct(h) => Distinct(g)
    BY <2>5, RearrangedKeeps
  <2> QED
    BY <2>1, <2>3, <2>4, <2>6
<1> QED
  BY <1>2, <1>3

--------------------------------------------------------------------------------
(* The functions of the library *)

LEMMA HeapUpToAll ==
    ASSUME NEW h
    PROVE  IsHeap(h) <=> HeapUpTo(h, Len(h))
  BY DEF IsHeap, HeapUpTo

LEMMA FrontIs ==
    ASSUME NEW S, NEW h \in Seq(S), Len(h) >= 1
    PROVE  /\ Front(h) \in Seq(S) /\ Len(Front(h)) = Len(h) - 1
           /\ \A k \in 1..(Len(h) - 1) : Front(h)[k] = h[k]
           /\ HeapUpTo(h, Len(h) - 1) => IsHeap(Front(h))
           /\ Distinct(h) => Distinct(Front(h)) /\ Members(Front(h)) = Members(h) \ {h[Len(h)]}
<1>1. Len(h) \in Nat /\ DOMAIN h = 1..Len(h) /\ \A k \in 1..Len(h) : h[k] \in S
  BY LenIs
<1> DEFINE m == Len(h) - 1
           f == Front(h)
<1>2. m \in Nat
  BY <1>1
<1>3. /\ f \in Seq(S) /\ Len(f) = m
      /\ \A k \in 1..m : f[k] = h[k]
  BY <1>1, <1>2, SubSeqProperties DEF Front
<1>4. DOMAIN f = 1..m
  BY <1>3, LenIs
<1> HIDE DEF f
<1>5. HeapUpTo(h, m) => IsHeap(f)
  <2> SUFFICES ASSUME HeapUpTo(h, m), NEW k \in 2..m PROVE ~Less(f[k], f[Parent(k)])
    BY <1>3 DEF IsHeap
  <2>1. k \in Nat /\ k >= 1 /\ k > 1 /\ k <= m
    BY <1>2
  <2>2. Parent(k) \in 1..m
    <3>1. Parent(k) \in Nat /\ Parent(k) < k /\ Parent(k) >= 1
      BY <2>1, ParentIs
    <3> QED
      BY <1>2, <2>1, <3>1
  <2>3. f[k] = h[k] /\ f[Parent(k)] = h[Parent(k)]
    BY <1>2, <1>3, <2>1, <2>2
  <2> QED
    BY <2>3 DEF HeapUpTo
<1>6. ASSUME Distinct(h) PROVE Distinct(f) /\ Members(f) = Members(h) \ {h[Len(h)]}
  <2>0. PICK l \in Nat : l = m /\ Len(h) = l + 1
    BY <1>1, Predecessor
  <2>1. \A k \in 1..m : k \in DOMAIN h /\ k # Len(h)
    <3>1. \A k \in 1..l : k \in 1..(l + 1) /\ k # l + 1
      OBVIOUS
    <3> QED
      BY <1>1, <2>0, <3>1
  <2>2. \A k \in DOMAIN h : k \in 1..m \/ k = Len(h)
    <3>1. \A k \in 1..(l + 1) : k \in 1..l \/ k = l + 1
      OBVIOUS
    <3> QED
      BY <1>1, <2>0, <3>1
  <2>3. Len(h) \in DOMAIN h
    BY <1>1
  <2>4. Distinct(f)
    BY <1>3, <1>4, <1>6, <2>1 DEF Distinct
  <2>5. Members(f) = Members(h) \ {h[Len(h)]}
    <3>1. \A k \in 1..m : f[k] \in Members(h) \ {h[Len(h)]}
      BY <1>3, <1>6, <2>1, <2>3 DEF Distinct, Members
    <3>2. \A x \in Members(h) \ {h[Len(h)]} : \E k \in 1..m : x = f[k]
      BY <1>3, <2>2 DEF Members
    <3> QED
      BY <1>4, <3>1, <3>2 DEF Members
  <2> QED
    BY <2>4, <2>5
<1> QED
  BY <1>3, <1>5, <1>6 DEF f

\* heap.Push: a new element joins the heap.
THEOREM PushCorrect ==
    ASSUME NEW S, Ordered(S), NEW h \in Seq(S), NEW x \in S, IsHeap(h)
    PROVE  /\ Push(h, x) \in Seq(S) /\ Len(Push(h, x)) = Len(h) + 1
           /\ IsHeap(Push(h, x))
           /\ Members(Push(h, x)) = Members(h) \cup {x}
           /\ Distinct(h) /\ x \notin Members(h) => Distinct(Push(h, x))
<1>1. Len(h) \in Nat /\ DOMAIN h = 1..Len(h) /\ \A k \in 1..Len(h) : h[k] \in S
  BY LenIs
<1> DEFINE n == Len(h) + 1
<1>2. PICK a : a = Append(h, x)
  OBVIOUS
<1>3. /\ a \in Seq(S) /\ Len(a) = n
      /\ \A k \in 1..Len(h) : a[k] = h[k]
      /\ a[n] = x
  BY <1>1, <1>2, AppendProperties
<1>4. n \in 1..Len(a) /\ n \in 1..n
  BY <1>1, <1>3
<1>5. NearHeap(a, n, n) /\ AboveBelow(a, n, n)
  <2>1. \A k \in 2..n : Parent(k) \in 1..Len(h)
    <3> TAKE k \in 2..n
    <3>1. k \in Nat /\ k >= 1 /\ k > 1 /\ k <= n
      BY <1>1
    <3>2. Parent(k) \in Nat /\ Parent(k) < k /\ Parent(k) >= 1
      BY <3>1, ParentIs
    <3> QED
      BY <1>1, <3>1, <3>2
  <2>2. \A k \in 2..n : Parent(k) # n
    BY <1>1, <2>1
  <2>3. \A k \in 2..n : k # n => k \in 2..Len(h)
    BY <1>1
  <2>4. \A k \in 2..n : k # n => ~Less(a[k], a[Parent(k)])
    <3> TAKE k \in 2..n
    <3> SUFFICES ASSUME k # n PROVE ~Less(a[k], a[Parent(k)])
      OBVIOUS
    <3>1. k \in 2..Len(h) /\ k \in 1..Len(h) /\ Parent(k) \in 1..Len(h)
      BY <1>1, <2>1, <2>3
    <3>2. a[k] = h[k] /\ a[Parent(k)] = h[Parent(k)]
      BY <1>3, <3>1
    <3> QED
      BY <3>1, <3>2 DEF IsHeap
  <2> QED
    BY <2>2, <2>4 DEF NearHeap, AboveBelow
<1>6. PICK g : g = Up(a, n)
  OBVIOUS
<1>7. Push(h, x) = g
  BY <1>2, <1>6 DEF Push
<1> HIDE DEF n
<1>8. HeapUpTo(g, n)
  BY <1>3, <1>4, <1>5, <1>6, UpHeaps
<1>9. Rearranged(a, g) /\ g = [k \in DOMAIN a |-> g[k]]
  BY <1>3, <1>4, <1>6, UpRearranges
<1>10. /\ g \in Seq(S) /\ Len(g) = n /\ Members(g) = Members(a)
       /\ Distinct(a) => Distinct(g)
  BY <1>3, <1>9, RearrangedKeeps
<1>11. DOMAIN a = 1..n
  BY <1>3, LenIs
<1>12. \A k \in 1..n : k \in 1..Len(h) \/ k = n
  BY <1>1 DEF n
<1>13. \A k \in 1..Len(h) : k \in 1..n
  BY <1>1 DEF n
<1>14. Members(a) = Members(h) \cup {x}
  BY <1>1, <1>3, <1>4, <1>11, <1>12, <1>13 DEF Members
<1>15. Distinct(h) /\ x \notin Members(h) => Distinct(a)
  BY <1>1, <1>3, <1>11, <1>12 DEF Members, Distinct
<1>16. IsHeap(g)
  BY <1>8, <1>10, HeapUpToAll
<1> QED
  BY <1>7, <1>10, <1>14, <1>15, <1>16 DEF n

\* What Remove and Pop do first: the element at i and the last change places, and
\* but for the place i the rest is a heap.
LEMMA SwapIs ==
    ASSUME NEW S, Ordered(S), NEW h \in Seq(S), IsHeap(h), NEW i \in 1..(Len(h) - 1)
    PROVE  /\ SwapLast(h, i) \in Seq(S) /\ Len(SwapLast(h, i)) = Len(h)
           /\ SwapLast(h, i)[Len(h)] = h[i]
           /\ NearHeap(SwapLast(h, i), i, Len(h) - 1)
           /\ Members(SwapLast(h, i)) = Members(h)
           /\ Distinct(h) => Distinct(SwapLast(h, i))
<1>1. Len(h) \in Nat /\ DOMAIN h = 1..Len(h) /\ \A k \in 1..Len(h) : h[k] \in S
  BY LenIs
<1>2. PICK n \in Nat : n = Len(h)
  BY <1>1
<1>3. n \in 1..n /\ i \in 1..n /\ i # n /\ n \in Nat /\ i \in Nat
  <2>1. i \in 1..(n - 1)
    BY <1>2
  <2> QED
    BY <2>1
<1>4. PICK g : g = SwapLast(h, i)
  OBVIOUS
<1>5. g = [k \in 1..n |-> IF k = n THEN h[i] ELSE IF k = i THEN h[n] ELSE h[k]]
  BY <1>1, <1>2, <1>3, <1>4 DEF SwapLast
<1>6. Rearranged(h, g) /\ g = [k \in DOMAIN h |-> g[k]]
  <2> DEFINE p == [k \in 1..n |-> IF k = n THEN i ELSE IF k = i THEN n ELSE k]
  <2>1. p \in [1..n -> 1..n]
    BY <1>3
  <2>2. \A k \in 1..n : g[k] = h[p[k]]
    BY <1>3, <1>5
  <2>3. \A k, m \in 1..n : p[k] = p[m] => k = m
    BY <1>3
  <2>4. \A k \in 1..n : p[p[k]] = k
    BY <1>3
  <2> HIDE DEF p
  <2>5. \A k \in 1..n : \E m \in 1..n : p[m] = k
    BY <2>1, <2>4
  <2>6. RearrangedOver(1..n, h, g)
    BY <2>1, <2>2, <2>3, <2>5 DEF RearrangedOver
  <2>7. RearrangedOver(DOMAIN h, h, g)
    BY <1>1, <1>2, <2>6
  <2>8. DOMAIN g = DOMAIN h /\ g = [k \in DOMAIN h |-> g[k]]
    BY <1>1, <1>2, <1>5
  <2> QED
    BY <2>7, <2>8 DEF Rearranged
<1>7. /\ g \in Seq(S) /\ Len(g) = n /\ Members(g) = Members(h)
      /\ Distinct(h) => Distinct(g)
  BY <1>2, <1>6, RearrangedKeeps
<1>8. NearHeap(g, i, n - 1)
  <2>1. \A k \in 2..(n - 1) :
            /\ k \in 2..n /\ k \in 1..n /\ k # n
            /\ Parent(k) \in 1..n /\ Parent(k) # n
    <3> TAKE k \in 2..(n - 1)
    <3>1. k \in Nat /\ k >= 1 /\ k > 1 /\ k < n
      BY <1>3
    <3>2. Parent(k) \in Nat /\ Parent(k) < k /\ Parent(k) >= 1
      BY <3>1, ParentIs
    <3> QED
      BY <1>3, <3>1, <3>2
  <2>2. \A k \in 2..n : ~Less(h[k], h[Parent(k)])
    BY <1>2 DEF IsHeap
  <2>3. \A k \in 2..(n - 1) : k # i /\ Parent(k) # i => ~Less(g[k], g[Parent(k)])
    BY <1>5, <2>1, <2>2
  <2>4. ASSUME i > 1, NEW k \in 2..(n - 1), Parent(k) = i PROVE ~Less(g[k], g[Parent(i)])
    <3>1. i \in 2..n
      BY <1>3, <2>4
    <3>2. Parent(i) \in Nat /\ Parent(i) < i /\ Parent(i) >= 1
      <4>1. i >= 1
        BY <1>3
      <4> QED
        BY <1>3, <2>4, <4>1, ParentIs
    <3>3. Parent(i) \in 1..n /\ Parent(i) # n /\ Parent(i) # i
      BY <1>3, <3>2
    <3>4. k # i
      <4>1. k \in Nat /\ k >= 1
        BY <1>3
      <4>2. Parent(k) < k
        BY <4>1, ParentIs
      <4> QED
        BY <1>3, <2>4, <4>1, <4>2
    <3>5. g[k] = h[k] /\ g[Parent(i)] = h[Parent(i)]
      BY <1>5, <2>1, <3>3, <3>4
    <3>6. ~Less(h[k], h[i]) /\ ~Less(h[i], h[Parent(i)])
      BY <2>1, <2>2, <2>4, <3>1
    <3> QED
      BY <1>1, <1>2, <1>3, <2>1, <3>3, <3>5, <3>6 DEF Ordered
  <2> QED
    BY <2>3, <2>4 DEF NearHeap
<1> QED
  BY <1>2, <1>3, <1>4, <1>5, <1>7, <1>8

\* heap.Remove takes out the element at i and leaves a heap of the others.
THEOREM RemoveAtCorrect ==
    ASSUME NEW S, Ordered(S), NEW h \in Seq(S), IsHeap(h), Distinct(h), NEW i \in 1..Len(h)
    PROVE  /\ RemoveAt(h, i) \in Seq(S) /\ Len(RemoveAt(h, i)) = Len(h) - 1
           /\ IsHeap(RemoveAt(h, i)) /\ Distinct(RemoveAt(h, i))
           /\ Members(RemoveAt(h, i)) = Members(h) \ {h[i]}
<1>1. Len(h) \in Nat /\ Len(h) >= 1 /\ DOMAIN h = 1..Len(h)
  BY LenIs
<1>2. CASE i = Len(h)
  <2>1. RemoveAt(h, i) = Front(h)
    BY <1>2 DEF RemoveAt
  <2>2. HeapUpTo(h, Len(h) - 1)
    BY <1>1 DEF IsHeap, HeapUpTo
  <2> QED
    BY <1>1, <1>2, <2>1, <2>2, FrontIs
<1>3. CASE i # Len(h)
  <2>1. PICK n \in Nat : n = Len(h) - 1 /\ Len(h) = n + 1
    BY <1>1, Predecessor
  <2>2. n \in 1..Len(h) /\ i \in 1..n /\ i \in 1..(Len(h) - 1) /\ n \in Nat /\ Len(h) = n + 1
    <3>1. i \in 1..(n + 1) /\ i # n + 1
      BY <1>3, <2>1
    <3>2. i \in 1..n /\ n \in 1..(n + 1)
      BY <3>1
    <3> QED
      BY <2>1, <3>2
  <2>3. PICK w : w = SwapLast(h, i)
    OBVIOUS
  <2>4. /\ w \in Seq(S) /\ Len(w) = Len(h) /\ w[Len(h)] = h[i] /\ NearHeap(w, i, n)
        /\ Members(w) = Members(h) /\ Distinct(w)
    BY <2>1, <2>2, <2>3, SwapIs
  <2>5. PICK g : g = Settle(w, i, n)
    OBVIOUS
  <2>6. /\ g \in Seq(S) /\ Len(g) = Len(w) /\ HeapUpTo(g, n)
        /\ \A k \in (n + 1)..Len(w) : g[k] = w[k]
        /\ Members(g) = Members(w) /\ Distinct(g)
    BY <2>2, <2>4, <2>5, SettleHeaps
  <2>7. g[Len(g)] = h[i] /\ n = Len(g) - 1 /\ Len(g) >= 1
    BY <1>1, <2>2, <2>4, <2>6
  <2>8. /\ Front(g) \in Seq(S) /\ Len(Front(g)) = n /\ IsHeap(Front(g)) /\ Distinct(Front(g))
        /\ Members(Front(g)) = Members(g) \ {h[i]}
    BY <2>6, <2>7, FrontIs
  <2>9. RemoveAt(h, i) = Front(g)
    BY <1>3, <2>1, <2>3, <2>5 DEF RemoveAt
  <2> QED
    BY <2>1, <2>4, <2>6, <2>8, <2>9
<1> QED
  BY <1>2, <1>3

\* heap.Pop takes out the top and leaves a heap of the others.
THEOREM PopRestCorrect ==
    ASSUME NEW S, Ordered(S), NEW h \in Seq(S), IsHeap(h), Distinct(h), Len(h) >= 1
    PROVE  /\ PopRest(h) \in Seq(S) /\ Len(PopRest(h)) = Len(h) - 1
           /\ IsHeap(PopRest(h)) /\ Distinct(PopRest(h))
           /\ Members(PopRest(h)) = Members(h) \ {h[1]}
<1>1. Len(h) \in Nat /\ DOMAIN h = 1..Len(h)
  BY LenIs
<1>2. CASE Len(h) = 1
  <2>1. SwapLast(h, 1) = h
    BY <1>1, <1>2 DEF SwapLast
  <2>2. PICK g : g = Down(h, 1, 0)
    OBVIOUS
  <2>3. Descent(h, 1, 0) = {1}
    <3>1. PICK f : Descends(f, h, 1, 0) /\ Descent(h, 1, 0) = f[1]
      <4>1. 1 \in 1..(2 * 0 + 1)
        OBVIOUS
      <4> QED
        BY <4>1, DescentIs
    <3>2. f[1] = {1}
      BY <3>1 DEF Descends
    <3> QED
      BY <3>1, <3>2
  <2>4. g = [k \in DOMAIN h |-> h[k]]
    <3>1. (CHOOSE k \in {1} : \A j \in {1} : j <= k) = 1
      OBVIOUS
    <3> QED
      BY <1>1, <1>2, <2>2, <2>3, <3>1 DEF Down
  <2>5. g = h
    <3>1. h = [k \in DOMAIN h |-> h[k]]
      BY <1>1
    <3> QED
      BY <2>4, <3>1
  <2>6. PopRest(h) = Front(h)
    BY <1>2, <2>1, <2>2, <2>5 DEF PopRest
  <2>7. HeapUpTo(h, Len(h) - 1)
    BY <1>2 DEF HeapUpTo
  <2> QED
    BY <1>1, <1>2, <2>6, <2>7, FrontIs
<1>3. CASE Len(h) # 1
  <2>1. PICK n : n = Len(h) - 1
    OBVIOUS
  <2>2. n \in 1..Len(h) /\ 1 \in 1..n /\ 1 \in 1..(Len(h) - 1) /\ n \in Nat /\ Len(h) = n + 1
    BY <1>1, <1>3, <2>1
  <2>3. PICK w : w = SwapLast(h, 1)
    OBVIOUS
  <2>4. /\ w \in Seq(S) /\ Len(w) = Len(h) /\ w[Len(h)] = h[1] /\ NearHeap(w, 1, n)
        /\ Members(w) = Members(h) /\ Distinct(w)
    BY <2>1, <2>2, <2>3, SwapIs
  <2>5. PICK g : g = Down(w, 1, n)
    OBVIOUS
  <2>6. HeapUpTo(g, n) /\ \A k \in (n + 1)..Len(w) : g[k] = w[k]
    BY <2>2, <2>4, <2>5, DownHeaps
  <2>7. Rearranged(w, g) /\ g = [k \in DOMAIN w |-> g[k]]
    BY <2>2, <2>4, <2>5, DownRearranges
  <2>8. g \in Seq(S) /\ Len(g) = Len(w) /\ Members(g) = Members(w) /\ Distinct(g)
    BY <2>4, <2>7, RearrangedKeeps
  <2>9. g[Len(g)] = h[1] /\ n = Len(g) - 1 /\ Len(g) >= 1
    BY <1>1, <2>2, <2>4, <2>6, <2>8
  <2>10. /\ Front(g) \in Seq(S) /\ Len(Front(g)) = n /\ IsHeap(Front(g)) /\ Distinct(Front(g))
         /\ Members(Front(g)) = Members(g) \ {h[1]}
    BY <2>6, <2>8, <2>9, FrontIs
  <2>11. PopRest(h) = Front(g)
    BY <2>1, <2>3, <2>5 DEF PopRest
  <2> QED
    BY <2>1, <2>4, <2>8, <2>10, <2>11
<1> QED
  BY <1>2, <1>3

\* No element of a heap is above its top.
THEOREM TopIsLeast ==
    ASSUME NEW S, Ordered(S), NEW h \in Seq(S), IsHeap(h)
    PROVE  \A k \in 1..Len(h) : ~Less(h[k], h[1])
<1>1. Len(h) \in Nat /\ DOMAIN h = 1..Len(h) /\ \A k \in 1..Len(h) : h[k] \in S
  BY LenIs
<1> DEFINE Bad == {k \in 1..Len(h) : Less(h[k], h[1])}
<1>2. SUFFICES ASSUME Bad # {} PROVE FALSE
  OBVIOUS
<1>3. PICK k \in Bad : \A m \in Bad : k <= m
  <2>1. Bad \in SUBSET Nat
    OBVIOUS
  <2> HIDE DEF Bad
  <2> QED
    BY <1>2, <2>1, LeastNat
<1>4. k \in 1..Len(h) /\ Less(h[k], h[1]) /\ k \in Nat /\ k >= 1 /\ 1 \in 1..Len(h)
  BY <1>1, <1>3
<1>5. k # 1
  BY <1>1, <1>4 DEF Ordered
<1>6. Parent(k) \in Nat /\ Parent(k) < k /\ Parent(k) >= 1
  BY <1>4, <1>5, ParentIs
<1>7. Parent(k) \in 1..Len(h) /\ k \in 2..Len(h)
  BY <1>1, <1>4, <1>5, <1>6
<1>8. ~Less(h[Parent(k)], h[1])
  BY <1>3, <1>6, <1>7
<1>9. ~Less(h[k], h[Parent(k)])
  BY <1>7 DEF IsHeap
<1> QED
  BY <1>1, <1>4, <1>7, <1>8, <1>9 DEF Ordered

\* heap.Fix, whatever the element at i has become: a heap of the same elements.
THEOREM FixCorrect ==
    ASSUME NEW S, Ordered(S), NEW h \in Seq(S), NEW i \in 1..Len(h), NearHeap(h, i, Len(h))
    PROVE  /\ Fix(h, i) \in Seq(S) /\ Len(Fix(h, i)) = Len(h)
           /\ IsHeap(Fix(h, i)) /\ Members(Fix(h, i)) = Members(h)
           /\ Distinct(h) => Distinct(Fix(h, i))
<1>1. Len(h) \in Nat
  BY LenIs
<1>2. PICK n \in Nat : n = Len(h)
  BY <1>1
<1>3. n \in 1..n /\ i \in 1..n
  BY <1>2
<1>4. PICK g : g = Settle(h, i, n)
  OBVIOUS
<1>5. /\ g \in Seq(S) /\ Len(g) = Len(h) /\ HeapUpTo(g, n) /\ Members(g) = Members(h)
      /\ Distinct(h) => Distinct(g)
  BY <1>2, <1>3, <1>4, SettleHeaps
<1>6. IsHeap(g)
  BY <1>2, <1>5, HeapUpToAll
<1> QED
  BY <1>2, <1>4, <1>5, <1>6 DEF Fix

\* A heap stays as it is when down is called on it, and so when Init is.
LEMMA DownKeepsHeap ==
    ASSUME NEW S, Ordered(S), NEW h \in Seq(S), IsHeap(h), NEW i \in 1..Len(h)
    PROVE  Down(h, i, Len(h)) = h
<1>1. Len(h) \in Nat /\ DOMAIN h = 1..Len(h) /\ h = [k \in 1..Len(h) |-> h[k]]
  BY LenIs
<1>2. PICK n \in Nat : n = Len(h)
  BY <1>1
<1>3. n \in 1..Len(h) /\ i \in 1..n
  BY <1>2
<1>4. PICK t \in i..n :
        /\ IsDescent(Descent(h, i, n), h, i, t, n)
        /\ Down(h, i, n) = [k \in 1..Len(h) |->
              IF k = t THEN h[i] ELSE IF k \in Descent(h, i, n) THEN h[Child(h, k, n)] ELSE h[k]]
  BY <1>3, DownIs
<1>5. 2 * i <= n => ~Less(h[Child(h, i, n)], h[i])
  <2> SUFFICES ASSUME 2 * i <= n PROVE ~Less(h[Child(h, i, n)], h[i])
    OBVIOUS
  <2>1. i \in Nat /\ i >= 1
    BY <1>2
  <2>2. Child(h, i, n) \in 2..n /\ Parent(Child(h, i, n)) = i
    BY <2>1, ChildIs
  <2> QED
    BY <1>2, <2>2 DEF IsHeap
<1>6. t = i /\ Descent(h, i, n) = {i}
  <2>1. i \in Descent(h, i, n) /\ t \in Descent(h, i, n) /\ Descent(h, i, n) \subseteq 1..n
        /\ \A k \in Descent(h, i, n) : i <= k /\ k <= t
    BY <1>4 DEF IsDescent
  <2>2. t = i
    <3>1. i # t => 2 * i <= n /\ Less(h[Child(h, i, n)], h[i])
      BY <1>4, <2>1 DEF IsDescent
    <3> QED
      BY <1>5, <3>1
  <2>3. \A k \in Descent(h, i, n) : k = i
    BY <1>2, <2>1, <2>2
  <2> QED
    BY <2>1, <2>2, <2>3
<1>7. Down(h, i, n) = [k \in 1..Len(h) |-> h[k]]
  BY <1>4, <1>6
<1> QED
  BY <1>1, <1>2, <1>7

\* heap.Init leaves a heap alone.
THEOREM HeapifyKeeps ==
    ASSUME NEW S, Ordered(S), NEW h \in Seq(S), IsHeap(h)
    PROVE  Heapify(h) = h
<1>1. Len(h) \in Nat
  BY LenIs
<1>2. PICK m \in Nat : m = Len(h) \div 2 /\ m <= Len(h)
  <2>1. Len(h) \div 2 \in Nat /\ Len(h) \div 2 <= Len(h)
    BY <1>1
  <2> QED
    BY <2>1
<1> DEFINE sifted[i \in 1..(m + 1)] == IF i > m THEN h ELSE Down(sifted[i + 1], i, Len(h))
           Good(f) == f = [i \in 1..(m + 1) |-> IF i > m THEN h ELSE Down(f[i + 1], i, Len(h))]
<1>3. \A i \in 1..m : i \in 1..Len(h) /\ Down(h, i, Len(h)) = h
  <2>1. \A i \in 1..m : i \in 1..Len(h)
    BY <1>1, <1>2
  <2> QED
    BY <2>1, DownKeepsHeap
<1>4. \E f : Good(f)
  <2> DEFINE g == [i \in 1..(m + 1) |-> h]
  <2>1. \A i \in 1..(m + 1) : g[i] = IF i > m THEN h ELSE Down(g[i + 1], i, Len(h))
    <3> TAKE i \in 1..(m + 1)
    <3>1. CASE i > m
      BY <3>1
    <3>2. CASE ~(i > m)
      <4>1. i \in 1..m /\ g[i + 1] = h /\ g[i] = h
        BY <3>2
      <4> QED
        BY <1>3, <3>2, <4>1
    <3> QED
      BY <3>1, <3>2
  <2>2. g = [i \in 1..(m + 1) |-> IF i > m THEN h ELSE Down(g[i + 1], i, Len(h))]
    BY <2>1
  <2> QED
    BY <2>2
<1>5. Good(sifted)
  BY <1>4
<1>6. Heapify(h) = sifted[1]
  BY <1>2 DEF Heapify
<1> HIDE DEF sifted
<1> DEFINE Bad == {d \in 0..m : sifted[m + 1 - d] # h}
<1>7. SUFFICES ASSUME Bad # {} PROVE FALSE
  <2>1. m \in 0..m /\ m + 1 - m = 1
    OBVIOUS
  <2>2. m \notin Bad => sifted[1] = h
    BY <2>1
  <2> QED
    BY <1>6, <1>7, <2>2
<1>8. PICK d \in Bad : \A k \in Bad : d <= k
  <2>1. Bad \in SUBSET Nat
    OBVIOUS
  <2> HIDE DEF Bad
  <2> QED
    BY <1>7, <2>1, LeastNat
<1>9. d \in 0..m /\ m + 1 - d \in 1..(m + 1) /\ sifted[m + 1 - d] # h
  BY <1>8
<1>10. d # 0
  <2>1. d = 0 => sifted[m + 1] = h
    BY <1>5
  <2>2. m + 1 - 0 = m + 1
    OBVIOUS
  <2> QED
    BY <1>9, <2>1, <2>2
<1>11. sifted[m + 2 - d] = h
  <2>1. d - 1 \in 0..m /\ d - 1 < d /\ m + 1 - (d - 1) = m + 2 - d
    BY <1>9, <1>10
  <2>2. d - 1 \notin Bad
    BY <1>8, <2>1
  <2> QED
    BY <2>1, <2>2
<1>12. m + 1 - d \in 1..m /\ (m + 1 - d) + 1 = m + 2 - d
  BY <1>9, <1>10
<1>13. sifted[m + 1 - d] = Down(sifted[(m + 1 - d) + 1], m + 1 - d, Len(h))
  BY <1>5, <1>12
<1> QED
  BY <1>3, <1>9, <1>11, <1>12, <1>13

--------------------------------------------------------------------------------
(* Several elements, one after another *)

\* f[i] is h after the first i elements of x were pushed.
Pushes(f, n, h, x) == f = [i \in 0..n |-> IF i = 0 THEN h ELSE Push(f[i - 1], x[i])]

LEMMA PushesExist ==
    ASSUME NEW n \in Nat, NEW h, NEW x
    PROVE  \E f : Pushes(f, n, h, x)
<1> DEFINE Has(m) == \E f : Pushes(f, m, h, x)
           Bad == {m \in 0..n : ~Has(m)}
<1>1. SUFFICES ASSUME ~Has(n) PROVE FALSE
  OBVIOUS
<1>2. PICK m \in Bad : \A k \in Bad : m <= k
  <2> HIDE DEF Has
  <2>1. Bad \in SUBSET Nat /\ Bad # {}
    BY <1>1
  <2> HIDE DEF Bad
  <2> QED
    BY <2>1, LeastNat
<1>3. CASE m = 0
  <2> DEFINE g == [i \in 0..0 |-> h]
  <2>1. g = [i \in 0..0 |-> IF i = 0 THEN h ELSE Push(g[i - 1], x[i])]
    OBVIOUS
  <2> HIDE DEF g
  <2>2. Has(0)
    BY <2>1 DEF Pushes
  <2> HIDE DEF Has
  <2> QED
    BY <1>2, <1>3, <2>2
<1>4. CASE m # 0
  <2>1. m - 1 \in 0..n /\ m \in 1..n /\ Has(m - 1)
    <3> HIDE DEF Has
    <3> QED
      BY <1>2, <1>4
  <2>2. PICK f : f = [i \in 0..(m - 1) |-> IF i = 0 THEN h ELSE Push(f[i - 1], x[i])]
    BY <2>1 DEF Pushes
  <2> DEFINE g == [i \in 0..m |-> IF i = m THEN Push(f[m - 1], x[m]) ELSE f[i]]
  <2>3. \A i \in 0..m : g[i] = IF i = 0 THEN h ELSE Push(g[i - 1], x[i])
    <3> TAKE i \in 0..m
    <3>1. CASE i = m
      <4>1. g[m - 1] = f[m - 1] /\ m # 0 /\ g[m] = Push(f[m - 1], x[m])
        BY <2>1
      <4> QED
        BY <3>1, <4>1
    <3>2. CASE i = 0
      <4>1. g[0] = f[0] /\ f[0] = h
        BY <2>1, <2>2
      <4> QED
        BY <3>2, <4>1
    <3>3. CASE i # m /\ i # 0
      <4>1. i \in 0..(m - 1) /\ i - 1 \in 0..(m - 1) /\ i - 1 \in 0..m /\ i - 1 # m
        BY <2>1, <3>3
      <4>2. g[i] = f[i] /\ g[i - 1] = f[i - 1]
        BY <3>3, <4>1
      <4>3. f[i] = Push(f[i - 1], x[i])
        BY <2>2, <3>3, <4>1
      <4> QED
        BY <3>3, <4>2, <4>3
    <3> QED
      BY <3>1, <3>2, <3>3
  <2>4. g = [i \in 0..m |-> IF i = 0 THEN h ELSE Push(g[i - 1], x[i])]
    BY <2>3
  <2> HIDE DEF g
  <2>5. Has(m)
    BY <2>4 DEF Pushes
  <2> HIDE DEF Has
  <2> QED
    BY <1>2, <2>5
<1> QED
  BY <1>3, <1>4

\* New elements join a heap one by one.
THEOREM PushesCorrect ==
    ASSUME NEW S, Ordered(S), NEW h \in Seq(S), IsHeap(h), Distinct(h),
           NEW n \in Nat, NEW x, \A i \in 1..n : x[i] \in S /\ x[i] \notin Members(h),
           \A i, k \in 1..n : x[i] = x[k] => i = k,
           NEW f, Pushes(f, n, h, x)
    PROVE  /\ f[n] \in Seq(S) /\ IsHeap(f[n]) /\ Distinct(f[n])
           /\ Members(f[n]) = Members(h) \cup {x[i] : i \in 1..n}
<1> DEFINE Good(k) == /\ f[k] \in Seq(S) /\ IsHeap(f[k]) /\ Distinct(f[k])
                      /\ Members(f[k]) = Members(h) \cup {x[i] : i \in 1..k}
           Bad == {k \in 0..n : ~Good(k)}
<1>1. SUFFICES ASSUME Bad # {} PROVE FALSE
  <2>1. n \notin Bad => Good(n)
    OBVIOUS
  <2> QED
    BY <1>1, <2>1
<1>2. PICK k \in Bad : \A j \in Bad : k <= j
  <2>1. Bad \in SUBSET Nat
    OBVIOUS
  <2> HIDE DEF Bad
  <2> QED
    BY <1>1, <2>1, LeastNat
<1>3. k \in 0..n /\ ~Good(k)
  <2> HIDE DEF Good
  <2> QED
    BY <1>2
<1>4. CASE k = 0
  <2>1. f[0] = h
    BY DEF Pushes
  <2>2. {x[i] : i \in 1..0} = {}
    OBVIOUS
  <2>3. Good(0)
    BY <2>1, <2>2
  <2> QED
    BY <1>3, <1>4, <2>3
<1>5. CASE k # 0
  <2>1. k - 1 \in 0..n /\ k \in 1..n /\ Good(k - 1)
    <3> HIDE DEF Good
    <3> QED
      BY <1>2, <1>3, <1>5
  <2>2. f[k] = Push(f[k - 1], x[k])
    BY <1>5, <2>1 DEF Pushes
  <2>3. PICK g \in Seq(S) : g = f[k - 1]
    BY <2>1
  <2>4. IsHeap(g) /\ Distinct(g) /\ Members(g) = Members(h) \cup {x[i] : i \in 1..(k - 1)}
    BY <2>1, <2>3
  <2>5. x[k] \in S /\ x[k] \notin Members(g)
    <3>1. \A i \in 1..(k - 1) : i \in 1..n /\ i # k
      BY <2>1
    <3> QED
      BY <2>1, <2>4, <3>1
  <2>6. /\ Push(g, x[k]) \in Seq(S) /\ IsHeap(Push(g, x[k])) /\ Distinct(Push(g, x[k]))
        /\ Members(Push(g, x[k])) = Members(g) \cup {x[k]}
    BY <2>4, <2>5, PushCorrect
  <2>7. {x[i] : i \in 1..k} = {x[i] : i \in 1..(k - 1)} \cup {x[k]}
    <3>1. \A i : i \in 1..k <=> i \in 1..(k - 1) \/ i = k
      BY <2>1
    <3> QED
      BY <3>1
  <2>8. Good(k)
    BY <2>2, <2>3, <2>4, <2>6, <2>7
  <2> QED
    BY <1>3, <2>8
<1> QED
  BY <1>4, <1>5

================================================================================
