---------------------------------- MODULE Heap ----------------------------------
(*****************************************************************************)
(* Go's container/heap over a slice, as pkg/scheduler/steal.go and           *)
(* pkg/parser/cache.go use it.  The library is not part of the repository:   *)
(* the operators give the arrays its functions leave behind.  A heap is a    *)
(* sequence whose element i has the children 2i and 2i+1.                    *)
(*                                                                           *)
(* up and down move one element along a path of the tree by swaps; here the  *)
(* place it ends at is found first and the path is shifted in one go.        *)
(*****************************************************************************)
EXTENDS Integers, Sequences

CONSTANT Less(_, _) \* Less(a, b): a belongs above b

Parent(k) == k \div 2

\* The heap property for a sequence h.
IsHeap(h) == \A k \in 2..Len(h) : ~Less(h[k], h[Parent(k)])

\* The places the element at j passes through as heap.up moves it up.
Ascent(h, j) ==
    LET path[k \in 1..j] ==
            IF k > 1 /\ Less(h[j], h[Parent(k)]) THEN {k} \cup path[Parent(k)] ELSE {k}
    IN  path[j]

\* heap.up: h with the element at j moved up past every lesser ancestor.
Up(h, j) ==
    LET path == Ascent(h, j)
        stop == CHOOSE k \in path : \A i \in path : k <= i
    IN  [k \in DOMAIN h |-> IF k = stop THEN h[j]
                            ELSE IF k \in path THEN h[Parent(k)] ELSE h[k]]

\* The child down compares with: the lesser of the two, the left one on a tie.
Child(h, k, n) ==
    IF 2 * k + 1 <= n /\ Less(h[2 * k + 1], h[2 * k]) THEN 2 * k + 1 ELSE 2 * k

\* The places the element at i passes through as heap.down sifts it in 1..n.
Descent(h, i, n) ==
    LET path[k \in 1..(2 * n + 1)] ==
            IF 2 * k <= n /\ Less(h[Child(h, k, n)], h[i])
            THEN {k} \cup path[Child(h, k, n)] ELSE {k}
    IN  path[i]

\* heap.down: h with the element at i moved below its greater descendants.
Down(h, i, n) ==
    LET path == Descent(h, i, n)
        stop == CHOOSE k \in path : \A j \in path : j <= k
    IN  [k \in DOMAIN h |-> IF k = stop THEN h[i]
                            ELSE IF k \in path THEN h[Child(h, k, n)] ELSE h[k]]

\* heap.Push and heap.Pop: Pop's result is Head(h), PopRest what it leaves.
Push(h, x) == Up(Append(h, x), Len(h) + 1)

SwapLast(h, i) == [h EXCEPT ![i] = h[Len(h)], ![Len(h)] = h[i]]

Front(h) == SubSeq(h, 1, Len(h) - 1)

PopRest(h) == Front(Down(SwapLast(h, 1), 1, Len(h) - 1))

\* heap.Fix, for an index in range: down, and up if that moved nothing.
Settle(h, i, n) ==
    IF Descent(h, i, n) # {i} THEN Down(h, i, n) ELSE Up(h, i)

Fix(h, i) == Settle(h, i, Len(h))

\* heap.Remove, for an index in range: what it leaves.
RemoveAt(h, i) ==
    IF i = Len(h) THEN Front(h)
    ELSE Front(Settle(SwapLast(h, i), i, Len(h) - 1))

\* heap.Init: down from the last parent to the root.
Heapify(h) ==
    LET sifted[i \in 1..(Len(h) \div 2 + 1)] ==
            IF i > Len(h) \div 2 THEN h ELSE Down(sifted[i + 1], i, Len(h))
    IN  sifted[1]
================================================================================
