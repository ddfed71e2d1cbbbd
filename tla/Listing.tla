------------------------------ MODULE Listing -------------------------------
(* How filepath.Walk and os.ReadDir list what they find: names in their order. *)
EXTENDS Naturals, Sequences, FiniteSets

Below(n, names) == {m \in names : m < n}

\* The i-th name has i - 1 names below it.
InOrder(names) ==
    [i \in 1 .. Cardinality(names) |-> CHOOSE n \in names : Cardinality(Below(n, names)) = i - 1]

=============================================================================
