---------------------------- MODULE Answers_proofs ----------------------------
(***************************************************************************)
(* What the database, the CSS tracker, the asset optimizer, the route      *)
(* scanner and the timeline answer, for any keys, files, contents, workers *)
(* and bounds.                                                             *)
(***************************************************************************)
EXTENDS Database, Css, Assets, Routes, Timeline, Integers,
        FiniteSetTheorems, FunctionTheorems, SequenceTheorems, WellFoundedInduction, TLAPS

-----------------------------------------------------------------------------
(* Numbers and sequences                                                   *)

\* What holds of a number but not of all has a least counterexample: with this the
\* proofs below show what a recursively defined function computes.
LEMMA LeastNat ==
    ASSUME NEW S \in SUBSET Nat, S # {}
    PROVE  \E m \in S : \A k \in S : m <= k
<1>1. PICK m \in S : \A k \in S : <<k, m>> \notin OpToRel(<, Nat)
  BY NatLessThanWellFounded, WFMin
<1>2. \A k \in S : ~(k < m)
  BY <1>1 DEF OpToRel
<1> QED
  BY <1>2

\* A set of numbers up to n has a greatest: what is n less the least of the others.
LEMMA GreatestOf ==
    ASSUME NEW n \in Nat, NEW S \in SUBSET (1 .. n), S # {}
    PROVE  \E m \in S : \A k \in S : k <= m
<1> DEFINE T == {t \in 0 .. n : n - t \in S}
<1>1. \A k \in S : n - k \in T /\ k \in 1 .. n
  <2> SUFFICES ASSUME NEW k \in S PROVE n - k \in T /\ k \in 1 .. n
    OBVIOUS
  <2>1. k \in 1 .. n
    OBVIOUS
  <2>2. n - k \in 0 .. n /\ n - (n - k) = k
    BY <2>1
  <2> QED
    BY <2>1, <2>2
<1>2. PICK t \in T : \A k \in T : t <= k
  <2>1. T \in SUBSET Nat
    OBVIOUS
  <2> HIDE DEF T
  <2>2. T # {}
    BY <1>1
  <2> QED
    BY <2>1, <2>2, LeastNat
<1>3. n - t \in S /\ t \in Nat
  OBVIOUS
<1>4. \A k \in S : t <= n - k
  <2> HIDE DEF T
  <2> QED
    BY <1>1, <1>2
<1>5. \A k \in S : k <= n - t
  BY <1>1, <1>3, <1>4
<1> QED
  BY <1>3, <1>5

\* A function on the first numbers is a sequence.
LEMMA FunIsSeq ==
    ASSUME NEW S, NEW n \in Nat, NEW f \in [1 .. n -> S]
    PROVE  f \in Seq(S) /\ Len(f) = n /\ DOMAIN f = 1 .. n
<1>1. f \in Seq(S)
  BY SeqDef
<1> QED
  BY <1>1, LenProperties

\* A sequence, of whatever elements.
IsSeq(s) == \E S : s \in Seq(S)

LEMMA AnySeq ==
    ASSUME NEW s, IsSeq(s)
    PROVE  Len(s) \in Nat /\ DOMAIN s = 1 .. Len(s)
  BY LenProperties DEF IsSeq

LEMMA AnyAppend ==
    ASSUME NEW s, IsSeq(s), NEW e
    PROVE  /\ IsSeq(Append(s, e))
           /\ Len(s) \in Nat /\ DOMAIN s = 1 .. Len(s)
           /\ Len(Append(s, e)) = Len(s) + 1 /\ DOMAIN Append(s, e) = 1 .. Len(s) + 1
           /\ \A i \in 1 .. Len(s) : Append(s, e)[i] = s[i]
           /\ Append(s, e)[Len(s) + 1] = e
           /\ \A i : i \in DOMAIN Append(s, e) <=> i \in DOMAIN s \/ i = Len(s) + 1
<1>1. PICK S : s \in Seq(S)
  BY DEF IsSeq
<1>2. PICK T : T = S \cup {e}
  OBVIOUS
<1>3. s \in Seq(T) /\ e \in T
  <2>1. S \subseteq T /\ e \in T
    BY <1>2
  <2> QED
    BY <1>1, <2>1, SeqMonotonic
<1>4. /\ Append(s, e) \in Seq(T) /\ Len(s) \in Nat /\ DOMAIN s = 1 .. Len(s)
      /\ Len(Append(s, e)) = Len(s) + 1 /\ DOMAIN Append(s, e) = 1 .. Len(s) + 1
      /\ \A i \in 1 .. Len(s) : Append(s, e)[i] = s[i]
      /\ Append(s, e)[Len(s) + 1] = e
  BY <1>3, AppendProperties, LenProperties
<1>5. \A i : i \in 1 .. Len(s) + 1 <=> i \in 1 .. Len(s) \/ i = Len(s) + 1
  BY <1>4
<1> QED
  BY <1>4, <1>5 DEF IsSeq

-----------------------------------------------------------------------------
(* Listings                                                                *)

LEMMA BelowIs ==
    ASSUME NEW S \in SUBSET Nat, IsFiniteSet(S), NEW n \in S
    PROVE  /\ IsFiniteSet(Below(n, S)) /\ Cardinality(Below(n, S)) \in Nat
           /\ Cardinality(Below(n, S)) < Cardinality(S)
           /\ \A m \in S : m < n => Cardinality(Below(m, S)) < Cardinality(Below(n, S))
<1>1. \A m \in S : IsFiniteSet(Below(m, S)) /\ Cardinality(Below(m, S)) \in Nat
  BY FS_Subset, FS_CardinalityType DEF Below
<1>2. Cardinality(Below(n, S)) < Cardinality(S)
  <2>1. Below(n, S) \in SUBSET S /\ n \notin Below(n, S) /\ Cardinality(S) \in Nat
    BY FS_CardinalityType DEF Below
  <2>2. Cardinality(Below(n, S)) <= Cardinality(S) /\ Cardinality(Below(n, S)) # Cardinality(S)
    BY <2>1, FS_Subset
  <2> QED
    BY <1>1, <2>1, <2>2
<1>3. ASSUME NEW m \in S, m < n
      PROVE  Cardinality(Below(m, S)) < Cardinality(Below(n, S))
  <2>1. Below(m, S) \in SUBSET Below(n, S) /\ m \in Below(n, S) /\ m \notin Below(m, S)
    <3>1. m \in Nat /\ n \in Nat /\ \A k \in S : k \in Nat
      OBVIOUS
    <3>2. \A k \in S : k < m => k < n
      BY <1>3, <3>1
    <3>3. \A k \in S : (k \in Below(m, S) <=> k < m) /\ (k \in Below(n, S) <=> k < n)
      BY DEF Below
    <3>4. Below(m, S) \subseteq S
      BY DEF Below
    <3>5. m < n /\ ~(m < m)
      BY <1>3, <3>1
    <3> QED
      BY <3>2, <3>3, <3>4, <3>5
  <2>2. /\ Cardinality(Below(m, S)) <= Cardinality(Below(n, S))
        /\ Cardinality(Below(m, S)) # Cardinality(Below(n, S))
    BY <1>1, <2>1, FS_Subset
  <2> QED
    BY <1>1, <2>2
<1> QED
  BY <1>1, <1>2, <1>3

\* A listing has every name once, in their order.
LEMMA InOrderIs ==
    ASSUME NEW S \in SUBSET Nat, IsFiniteSet(S)
    PROVE  /\ Cardinality(S) \in Nat
           /\ InOrder(S) \in [1 .. Cardinality(S) -> S]
           /\ \A i, j \in 1 .. Cardinality(S) : i < j => InOrder(S)[i] < InOrder(S)[j]
           /\ \A n \in S : \E i \in 1 .. Cardinality(S) : InOrder(S)[i] = n
<1> DEFINE N == Cardinality(S)
           rank == [n \in S |-> Cardinality(Below(n, S)) + 1]
<1>1. N \in Nat
  BY FS_CardinalityType
<1>2. rank \in [S -> 1 .. N]
  BY <1>1, BelowIs
<1>3. \A m, n \in S : m < n => rank[m] < rank[n]
  BY BelowIs
<1> HIDE DEF rank
<1>4. rank \in Injection(S, 1 .. N)
  <2>1. \A m, n \in S : rank[m] = rank[n] => m = n
    BY <1>2, <1>3
  <2> QED
    BY <1>2, <2>1 DEF Injection, IsInjective
<1>5. rank \in Surjection(S, 1 .. N)
  <2> DEFINE T == 1 .. N
  <2>1. IsFiniteSet(T) /\ Cardinality(S) = Cardinality(T)
    BY <1>1, FS_Interval
  <2>2. rank \in Injection(S, T)
    BY <1>4
  <2> HIDE DEF T, N
  <2>3. rank \in Surjection(S, T)
    BY <2>1, <2>2, FS_Injection
  <2> QED
    BY <2>3 DEF T
<1>6. \A i \in 1 .. N : \E n \in S : Cardinality(Below(n, S)) = i - 1
  <2>1. \A n \in S : rank[n] = Cardinality(Below(n, S)) + 1 /\ Cardinality(Below(n, S)) \in Nat
    BY BelowIs DEF rank
  <2>2. \A i \in 1 .. N : \E n \in S : rank[n] = i
    BY <1>5 DEF Surjection
  <2> QED
    BY <1>1, <2>1, <2>2
<1>7. \A i \in 1 .. N : InOrder(S)[i] \in S /\ Cardinality(Below(InOrder(S)[i], S)) = i - 1
  BY <1>6 DEF InOrder
<1>8. InOrder(S) \in [1 .. N -> S]
  BY <1>7 DEF InOrder
<1>9. \A i, j \in 1 .. N : i < j => InOrder(S)[i] < InOrder(S)[j]
  <2> SUFFICES ASSUME NEW i \in 1 .. N, NEW j \in 1 .. N, i < j,
                      ~(InOrder(S)[i] < InOrder(S)[j])
               PROVE  FALSE
    OBVIOUS
  <2> DEFINE m == InOrder(S)[i]
             n == InOrder(S)[j]
  <2>1. m \in S /\ n \in S /\ Cardinality(Below(m, S)) = i - 1 /\ Cardinality(Below(n, S)) = j - 1
    BY <1>7
  <2>2. m = n \/ n < m
    <3>1. m \in Nat /\ n \in Nat
      BY <2>1
    <3> QED
      BY <3>1
  <2>3. n < m => Cardinality(Below(n, S)) < Cardinality(Below(m, S))
    BY <2>1, BelowIs
  <2> HIDE DEF m, n
  <2> QED
    BY <1>1, <2>1, <2>2, <2>3
<1>10. ASSUME NEW n \in S
       PROVE  \E i \in 1 .. N : InOrder(S)[i] = n
  <2>1. rank[n] \in 1 .. N /\ Cardinality(Below(n, S)) = rank[n] - 1
    BY <1>2, BelowIs DEF rank
  <2> DEFINE m == InOrder(S)[rank[n]]
  <2>2. m \in S /\ Cardinality(Below(m, S)) = rank[n] - 1
    BY <1>7, <2>1
  <2>3. /\ m < n => Cardinality(Below(m, S)) < Cardinality(Below(n, S))
        /\ n < m => Cardinality(Below(n, S)) < Cardinality(Below(m, S))
    BY <2>2, BelowIs
  <2>4. m = n
    <3> HIDE DEF m
    <3> QED
      BY <1>1, <2>1, <2>2, <2>3
  <2> QED
    BY <2>1, <2>4
<1> QED
  BY <1>1, <1>8, <1>9, <1>10

-----------------------------------------------------------------------------
(* The database: the tables and the calls                                  *)

RowsAt(table, k) == {table[j] : j \in DOMAIN table \cap {k}}

\* The value of the last row of a key and an id.
LatestRow(rows, id, k) ==
    {rows[i].value : i \in {j \in DOMAIN rows :
        /\ rows[j].of = id /\ rows[j].key = k
        /\ \A n \in DOMAIN rows : rows[n].of = id /\ rows[n].key = k => n <= j}}

BuildRow == [id : DbKeys, status : {"running", "success"}, finished : BOOLEAN, scanned : Nat]

DbTypes ==
    /\ DOMAIN fileRows \in SUBSET DbKeys /\ IsFiniteSet(DOMAIN fileRows)
    /\ DOMAIN routeRows \in SUBSET DbKeys
    /\ DOMAIN depRows \in SUBSET (DbKeys \X DbKeys \X {"static"})
    /\ DOMAIN cacheEntries \in SUBSET DbKeys /\ IsFiniteSet(DOMAIN cacheEntries)
    /\ \A k \in DOMAIN cacheEntries : cacheEntries[k].size \in DbVals
    /\ statRows \in Seq([of : DbKeys, key : {"m"}, value : DbVals])
    /\ benchRows \in Seq([of : {"b"}, key : DbKeys, value : DbVals])
    /\ history \in Seq(BuildRow)
    /\ IsSeq(dbLog)

FileRowsOK == \A k \in DbKeys : RowsAt(fileRows, k) = LastWrite("files", k, k)
EntryRowsOK == \A k \in DbKeys : RowsAt(cacheEntries, k) = LastWrite("cacheEntries", k, k)
RouteRowsOK == \A k \in DbKeys : RowsAt(routeRows, k) = LastWrite("routes", k, k)
DepRowsOK ==
    \A s, t \in DbKeys :
        RowsAt(depRows, <<s, t, "static">>) = LastWrite("dependencies", <<s, t, "static">>, s)
StatRowsOK == \A k \in DbKeys : LatestRow(statRows, k, "m") = LastWrite("stats", k, k)
BenchRowsOK == \A k \in DbKeys : LatestRow(benchRows, "b", k) = LastWrite("benchmarks", k, k)

\* from[r] is the call that started the build of the r-th row.
StartsAt(from) ==
    /\ from \in [1 .. Len(history) -> Started]
    /\ \A r, q \in 1 .. Len(history) : r < q => from[r] < from[q]
    /\ \A i \in Started : \E r \in 1 .. Len(history) : from[r] = i
    /\ \A r \in 1 .. Len(history) :
        /\ history[r].id = dbLog[from[r]].key
        /\ history[r].finished <=> FinishedAfter(from[r])

HistoryOK == \E from : StartsAt(from)

DbInv ==
    /\ DbTypes /\ FileRowsOK /\ EntryRowsOK /\ RouteRowsOK /\ DepRowsOK
    /\ StatRowsOK /\ BenchRowsOK /\ HistoryOK

-----------------------------------------------------------------------------
(* The database: rows of a table                                           *)

LEMMA RowsAtReplace ==
    ASSUME NEW f, NEW p, NEW row, NEW k
    PROVE  RowsAt(Replace(f, p, row), k) = IF k = p THEN {row} ELSE RowsAt(f, k)
<1>1. PICK g : g = Replace(f, p, row)
  OBVIOUS
<1>2. DOMAIN g = DOMAIN f \cup {p} /\ \A j \in DOMAIN g : g[j] = IF j = p THEN row ELSE f[j]
  BY <1>1 DEF Replace
<1>3. RowsAt(g, k) = IF k = p THEN {row} ELSE RowsAt(f, k)
  <2>1. CASE k = p
    BY <1>2, <2>1 DEF RowsAt
  <2>2. CASE k # p
    BY <1>2, <2>2 DEF RowsAt
  <2> QED
    BY <2>1, <2>2
<1> QED
  BY <1>1, <1>3

LEMMA RowsAtWithout ==
    ASSUME NEW f, NEW keys, NEW k
    PROVE  RowsAt(Without(f, keys), k) = IF k \in keys THEN {} ELSE RowsAt(f, k)
<1>1. PICK g : g = Without(f, keys)
  OBVIOUS
<1>2. DOMAIN g = DOMAIN f \ keys /\ \A j \in DOMAIN g : g[j] = f[j]
  BY <1>1 DEF Without
<1>3. RowsAt(g, k) = IF k \in keys THEN {} ELSE RowsAt(f, k)
  BY <1>2 DEF RowsAt
<1> QED
  BY <1>1, <1>3

LEMMA DomainsOf ==
    ASSUME NEW f, NEW p, NEW row, NEW keys
    PROVE  DOMAIN Replace(f, p, row) = DOMAIN f \cup {p} /\ DOMAIN Without(f, keys) = DOMAIN f \ keys
  BY DEF Replace, Without

LEMMA NoRowsAt == (\A k : RowsAt(NoRows, k) = {}) /\ DOMAIN NoRows = {}
  BY DEF RowsAt, NoRows

\* A row appended is the last of its id and its key, and of no other.
LEMMA LatestRowGrows ==
    ASSUME NEW rows, IsSeq(rows), NEW row, NEW id, NEW k
    PROVE  LatestRow(Append(rows, row), id, k)
             = IF row.of = id /\ row.key = k THEN {row.value} ELSE LatestRow(rows, id, k)
<1>1. PICK s, n : s = Append(rows, row) /\ n = Len(rows)
  OBVIOUS
<1>2. /\ n \in Nat /\ DOMAIN rows = 1 .. n /\ DOMAIN s = 1 .. n + 1
      /\ \A i \in 1 .. n : s[i] = rows[i]
      /\ s[n + 1] = row
      /\ \A i : i \in DOMAIN s <=> i \in 1 .. n \/ i = n + 1
  BY <1>1, AnyAppend
<1>3. \A i \in 1 .. n : i <= n + 1 /\ ~(n + 1 <= i) /\ i # n + 1
  BY <1>2
<1>4. n + 1 <= n + 1
  BY <1>2
<1>5. CASE row.of = id /\ row.key = k
  <2>1. \A j \in DOMAIN s :
          (/\ s[j].of = id /\ s[j].key = k
           /\ \A m \in DOMAIN s : s[m].of = id /\ s[m].key = k => m <= j) <=> j = n + 1
    BY <1>2, <1>3, <1>4, <1>5
  <2>2. n + 1 \in DOMAIN s /\ s[n + 1].value = row.value
    BY <1>2
  <2>3. LatestRow(s, id, k) = {row.value}
    BY <2>1, <2>2 DEF LatestRow
  <2> QED
    BY <1>1, <1>5, <2>3
<1>6. CASE ~(row.of = id /\ row.key = k)
  <2>1. \A j : j \in DOMAIN s /\ s[j].of = id /\ s[j].key = k
               <=> j \in DOMAIN rows /\ rows[j].of = id /\ rows[j].key = k
    BY <1>2, <1>6
  <2>2. \A j \in DOMAIN rows : s[j] = rows[j]
    BY <1>2
  <2>3. LatestRow(s, id, k) = LatestRow(rows, id, k)
    BY <2>1, <2>2 DEF LatestRow
  <2> QED
    BY <1>1, <1>6, <2>3
<1> QED
  BY <1>5, <1>6

LEMMA NoLatestRow == \A id, k : LatestRow(<<>>, id, k) = {}
<1>1. DOMAIN <<>> = {}
  OBVIOUS
<1> QED
  BY <1>1 DEF LatestRow

LEMMA LastWriteGrows ==
    ASSUME IsSeq(dbLog), NEW e, dbLog' = Append(dbLog, e), NEW t, NEW k, NEW d
    PROVE  LastWrite(t, k, d)' =
             IF e.op = "write" /\ e.table = t /\ e.key = k THEN {e.value}
             ELSE IF e.table = t /\ (e.op = "empty" \/ (e.op = "drop" /\ e.key = d)) THEN {}
             ELSE LastWrite(t, k, d)
<1>1. PICK n : n = Len(dbLog)
  OBVIOUS
<1>2. /\ n \in Nat /\ DOMAIN dbLog = 1 .. n /\ \A i \in 1 .. n : dbLog'[i] = dbLog[i]
      /\ dbLog'[n + 1] = e
      /\ \A i : i \in DOMAIN dbLog' <=> i \in 1 .. n \/ i = n + 1
  BY <1>1, AnyAppend
<1>3. n + 1 <= n + 1 /\ \A i \in 1 .. n : i <= n + 1 /\ ~(n + 1 <= i) /\ i # n + 1
  BY <1>2
<1>4. PICK w, v, x, y : w = Writes(t, k) /\ v = Writes(t, k)' /\ x = Drops(t, d) /\ y = Drops(t, d)'
  OBVIOUS
<1>5. w \in SUBSET (1 .. n) /\ x \in SUBSET (1 .. n)
  BY <1>2, <1>4 DEF Writes, Drops
<1>6. \A i : i \in v <=> i \in w \/ (i = n + 1 /\ e.op = "write" /\ e.table = t /\ e.key = k)
  BY <1>2, <1>3, <1>4 DEF Writes
<1>7. \A i : i \in y <=> i \in x \/ (i = n + 1 /\ e.table = t /\ (e.op = "empty" \/ (e.op = "drop" /\ e.key = d)))
  BY <1>2, <1>3, <1>4 DEF Drops
<1>8. LastWrite(t, k, d) = {dbLog[i].value : i \in {j \in w : \A m \in w \cup x : m <= j}}
  BY <1>4 DEF LastWrite
<1>9. LastWrite(t, k, d)' = {dbLog'[i].value : i \in {j \in v : \A m \in v \cup y : m <= j}}
  BY <1>4 DEF LastWrite
<1>10. CASE e.op = "write" /\ e.table = t /\ e.key = k
  <2>1. \A j : (j \in v /\ \A m \in v \cup y : m <= j) <=> j = n + 1
    BY <1>3, <1>5, <1>6, <1>7, <1>10
  <2>2. {dbLog'[i].value : i \in {j \in v : \A m \in v \cup y : m <= j}} = {e.value}
    BY <1>2, <2>1
  <2> QED
    BY <1>9, <1>10, <2>2
<1>11. CASE e.table = t /\ (e.op = "empty" \/ (e.op = "drop" /\ e.key = d))
  <2>1. e.op # "write"
    BY <1>11
  <2>2. v = w /\ n + 1 \in y
    BY <1>6, <1>7, <1>11, <2>1
  <2>3. \A j \in v : ~(\A m \in v \cup y : m <= j)
    BY <1>3, <1>5, <2>2
  <2> QED
    BY <1>9, <1>11, <2>1, <2>3
<1>12. CASE ~(e.op = "write" /\ e.table = t /\ e.key = k) /\ ~(e.table = t /\ (e.op = "empty" \/ (e.op = "drop" /\ e.key = d)))
  <2>1. v = w /\ y = x
    BY <1>6, <1>7, <1>12
  <2>2. \A i \in w : dbLog'[i] = dbLog[i]
    BY <1>2, <1>5
  <2> QED
    BY ZenonT(60), <1>8, <1>9, <1>12, <2>1, <2>2
<1> QED
  BY <1>10, <1>11, <1>12

\* A call on another table says nothing of this one, and emptying it empties it.
LEMMA TablesKeep ==
    ASSUME DbInv, NEW e, dbLog' = Append(dbLog, e)
    PROVE  /\ e.table # "files" /\ UNCHANGED fileRows => FileRowsOK'
           /\ e.table # "cacheEntries" /\ UNCHANGED cacheEntries => EntryRowsOK'
           /\ e.table # "routes" /\ UNCHANGED routeRows => RouteRowsOK'
           /\ e.table # "dependencies" /\ UNCHANGED depRows => DepRowsOK'
           /\ e.table # "stats" /\ UNCHANGED statRows => StatRowsOK'
           /\ e.table # "benchmarks" /\ UNCHANGED benchRows => BenchRowsOK'
           /\ e.op = "empty" =>
                /\ e.table = "files" /\ fileRows' = NoRows => FileRowsOK'
                /\ e.table = "cacheEntries" /\ cacheEntries' = NoRows => EntryRowsOK'
                /\ e.table = "routes" /\ routeRows' = NoRows => RouteRowsOK'
                /\ e.table = "dependencies" /\ depRows' = NoRows => DepRowsOK'
                /\ e.table = "stats" /\ statRows' = <<>> => StatRowsOK'
                /\ e.table = "benchmarks" /\ benchRows' = <<>> => BenchRowsOK'
<1>1. IsSeq(dbLog)
  BY DEF DbInv, DbTypes
<1>2. ASSUME NEW t, e.table # t, NEW k, NEW d
      PROVE  LastWrite(t, k, d)' = LastWrite(t, k, d)
  BY <1>1, <1>2, LastWriteGrows
<1>3. ASSUME NEW t, e.table = t, e.op = "empty", NEW k, NEW d
      PROVE  LastWrite(t, k, d)' = {}
  <2>1. ~(e.op = "write" /\ e.table = t /\ e.key = k)
    BY <1>3
  <2> QED
    BY <1>1, <1>3, <2>1, LastWriteGrows
<1>4. e.table # "files" /\ UNCHANGED fileRows => FileRowsOK'
  BY <1>2 DEF DbInv, FileRowsOK
<1>5. e.table # "cacheEntries" /\ UNCHANGED cacheEntries => EntryRowsOK'
  BY <1>2 DEF DbInv, EntryRowsOK
<1>6. e.table # "routes" /\ UNCHANGED routeRows => RouteRowsOK'
  BY <1>2 DEF DbInv, RouteRowsOK
<1>7. e.table # "dependencies" /\ UNCHANGED depRows => DepRowsOK'
  <2> SUFFICES ASSUME e.table # "dependencies", UNCHANGED depRows, NEW s \in DbKeys, NEW t \in DbKeys
               PROVE  RowsAt(depRows, <<s, t, "static">>)
                        = LastWrite("dependencies", <<s, t, "static">>, s)'
    BY DEF DepRowsOK
  <2> QED
    BY <1>2 DEF DbInv, DepRowsOK
<1>8. e.table # "stats" /\ UNCHANGED statRows => StatRowsOK'
  BY <1>2 DEF DbInv, StatRowsOK
<1>9. e.table # "benchmarks" /\ UNCHANGED benchRows => BenchRowsOK'
  BY <1>2 DEF DbInv, BenchRowsOK
<1>10. ASSUME e.op = "empty"
       PROVE  /\ e.table = "files" /\ fileRows' = NoRows => FileRowsOK'
              /\ e.table = "cacheEntries" /\ cacheEntries' = NoRows => EntryRowsOK'
              /\ e.table = "routes" /\ routeRows' = NoRows => RouteRowsOK'
              /\ e.table = "dependencies" /\ depRows' = NoRows => DepRowsOK'
              /\ e.table = "stats" /\ statRows' = <<>> => StatRowsOK'
              /\ e.table = "benchmarks" /\ benchRows' = <<>> => BenchRowsOK'
  BY <1>3, <1>10, NoRowsAt, NoLatestRow
     DEF FileRowsOK, EntryRowsOK, RouteRowsOK, DepRowsOK, StatRowsOK, BenchRowsOK
<1> QED
  BY <1>4, <1>5, <1>6, <1>7, <1>8, <1>9, <1>10

-----------------------------------------------------------------------------
(* The database: the history                                               *)

LEMMA StartedGrows ==
    ASSUME IsSeq(dbLog), NEW e, dbLog' = Append(dbLog, e), NEW n, n = Len(dbLog)
    PROVE  /\ n \in Nat /\ Started \in SUBSET (1 .. n)
           /\ Started' = IF e.op = "write" /\ e.table = "history" THEN Started \cup {n + 1}
                         ELSE IF e.op = "empty" /\ e.table = "history" THEN {}
                         ELSE Started
           /\ \A i \in 1 .. n : /\ dbLog'[i] = dbLog[i]
                                /\ FinishedAfter(i)' <=>
                                    FinishedAfter(i) \/ (e.op = "finish" /\ e.key = dbLog[i].key)
           /\ ~FinishedAfter(n + 1)' /\ dbLog'[n + 1] = e
<1>1. /\ n \in Nat /\ DOMAIN dbLog = 1 .. n /\ \A i \in 1 .. n : dbLog'[i] = dbLog[i]
      /\ dbLog'[n + 1] = e
      /\ \A i : i \in DOMAIN dbLog' <=> i \in 1 .. n \/ i = n + 1
  BY AnyAppend
<1>2. ~(n + 1 < n + 1) /\ \A i \in 1 .. n : i < n + 1 /\ ~(n + 1 < i) /\ i # n + 1
  BY <1>1
<1>3. Started \in SUBSET (1 .. n)
  BY <1>1 DEF Started
<1>4. \A i : i \in Started' <=>
        IF e.op = "write" /\ e.table = "history" THEN i \in Started \/ i = n + 1
        ELSE IF e.op = "empty" /\ e.table = "history" THEN FALSE
        ELSE i \in Started
  <2>1. CASE e.op = "write" /\ e.table = "history"
    BY <1>1, <1>2, <2>1 DEF Started
  <2>2. CASE e.op = "empty" /\ e.table = "history"
    <3>1. \A i \in DOMAIN dbLog' : ~(n + 1 < i)
      BY <1>1, <1>2
    <3>2. n + 1 \in DOMAIN dbLog' /\ dbLog'[n + 1].op = "empty" /\ dbLog'[n + 1].table = "history"
      BY <1>1, <2>2
    <3>3. Started' = {}
      BY <3>1, <3>2 DEF Started
    <3> QED
      BY <2>2, <3>3
  <2>3. CASE e.table # "history" \/ (e.op # "write" /\ e.op # "empty")
    BY <1>1, <1>2, <2>3 DEF Started
  <2> QED
    BY <2>1, <2>2, <2>3
<1>5. Started' = IF e.op = "write" /\ e.table = "history" THEN Started \cup {n + 1}
                 ELSE IF e.op = "empty" /\ e.table = "history" THEN {}
                 ELSE Started
  BY <1>4
<1>6. ASSUME NEW i \in 1 .. n
      PROVE  FinishedAfter(i)' <=> FinishedAfter(i) \/ (e.op = "finish" /\ e.key = dbLog[i].key)
  BY <1>1, <1>2 DEF FinishedAfter
<1>7. ~FinishedAfter(n + 1)'
  BY <1>1, <1>2 DEF FinishedAfter
<1> QED
  BY <1>1, <1>3, <1>5, <1>6, <1>7

LEMMA HistoryFields ==
    ASSUME DbTypes
    PROVE  /\ history \in Seq(BuildRow) /\ Len(history) \in Nat /\ DOMAIN history = 1 .. Len(history)
           /\ \A r \in 1 .. Len(history) : history[r] \in BuildRow /\ history[r].finished \in BOOLEAN
<1>1. history \in Seq(BuildRow)
  BY DEF DbTypes
<1>2. /\ Len(history) \in Nat /\ DOMAIN history = 1 .. Len(history)
      /\ \A r \in 1 .. Len(history) : history[r] \in BuildRow
  BY <1>1, LenProperties, ElementOfSeq
<1> QED
  BY <1>1, <1>2 DEF BuildRow

LEMMA HistoryKept ==
    ASSUME DbInv, NEW e, dbLog' = Append(dbLog, e), e.table # "history", e.op # "finish",
           UNCHANGED history
    PROVE  HistoryOK'
<1>1. PICK from : StartsAt(from)
  BY DEF DbInv, HistoryOK
<1>2. PICK n : n = Len(dbLog)
  OBVIOUS
<1>3. /\ Started \in SUBSET (1 .. n) /\ Started' = Started
      /\ \A i \in 1 .. n : dbLog'[i] = dbLog[i] /\ (FinishedAfter(i)' <=> FinishedAfter(i))
  BY <1>2, StartedGrows DEF DbInv, DbTypes
<1>4. \A r \in 1 .. Len(history) : from[r] \in 1 .. n
  BY <1>1, <1>3 DEF StartsAt
<1>5. StartsAt(from)'
  BY <1>1, <1>3, <1>4 DEF StartsAt
<1> QED
  BY <1>5 DEF HistoryOK

LEMMA HistoryEmptied ==
    ASSUME DbInv, NEW e, dbLog' = Append(dbLog, e), e.table = "history", e.op = "empty",
           history' = <<>>
    PROVE  HistoryOK'
<1>1. Started' = {}
  BY StartedGrows DEF DbInv, DbTypes
<1>2. PICK from : from = [r \in {} |-> 0]
  OBVIOUS
<1>3. Len(<<>>) = 0 /\ 1 .. 0 = {}
  OBVIOUS
<1>4. from \in [{} -> {}]
  BY <1>2
<1>5. StartsAt(from)'
  BY <1>1, <1>3, <1>4 DEF StartsAt
<1> QED
  BY <1>5 DEF HistoryOK

LEMMA HistoryStarts ==
    ASSUME DbInv, NEW e, dbLog' = Append(dbLog, e), NEW k \in DbKeys, StartBuild(k),
           e.table = "history", e.op = "write", e.key = k
    PROVE  HistoryOK'
<1>1. PICK b : StartsAt(b)
  BY DEF DbInv, HistoryOK
<1>2. PICK n, m : n = Len(dbLog) /\ m = Len(history)
  OBVIOUS
<1>3. /\ n \in Nat /\ Started \in SUBSET (1 .. n) /\ Started' = Started \cup {n + 1}
      /\ \A i \in 1 .. n : dbLog'[i] = dbLog[i] /\ (FinishedAfter(i)' <=> FinishedAfter(i))
      /\ ~FinishedAfter(n + 1)' /\ dbLog'[n + 1].key = k
  BY <1>2, StartedGrows DEF DbInv, DbTypes
<1>4. IsSeq(history)
  BY DEF DbInv, DbTypes, IsSeq
<1>5. /\ m \in Nat /\ Len(history') = m + 1
      /\ \A r \in 1 .. m : history'[r] = history[r]
      /\ history'[m + 1].id = k /\ history'[m + 1].finished = FALSE
  BY <1>2, <1>4, AnyAppend DEF StartBuild
<1>6. PICK from : from = [r \in 1 .. m + 1 |-> IF r = m + 1 THEN n + 1 ELSE b[r]]
  OBVIOUS
<1>7. /\ \A r \in 1 .. m : from[r] = b[r] /\ b[r] \in Started /\ b[r] \in 1 .. n /\ r \in 1 .. m + 1
      /\ from[m + 1] = n + 1 /\ m + 1 \in 1 .. m + 1
      /\ \A r : r \in 1 .. m + 1 <=> r \in 1 .. m \/ r = m + 1
  <2>1. \A r \in 1 .. m : r # m + 1 /\ r \in 1 .. m + 1
    BY <1>5
  <2>2. \A r : r \in 1 .. m + 1 <=> r \in 1 .. m \/ r = m + 1
    BY <1>5
  <2>3. \A r \in 1 .. m : b[r] \in Started /\ b[r] \in 1 .. n
    BY <1>1, <1>2, <1>3 DEF StartsAt
  <2> QED
    BY <1>6, <2>1, <2>2, <2>3
<1>8. from \in [1 .. m + 1 -> Started']
  BY <1>3, <1>6, <1>7
<1>9. \A r, q \in 1 .. m + 1 : r < q => from[r] < from[q]
  <2> SUFFICES ASSUME NEW r \in 1 .. m + 1, NEW q \in 1 .. m + 1, r < q
               PROVE  from[r] < from[q]
    OBVIOUS
  <2>1. r \in 1 .. m
    BY <1>5
  <2>2. CASE q = m + 1
    BY <1>3, <1>7, <2>1, <2>2
  <2>3. CASE q # m + 1
    <3>1. q \in 1 .. m
      BY <1>7, <2>3
    <3>2. b[r] < b[q]
      BY <1>1, <1>2, <2>1, <3>1 DEF StartsAt
    <3> QED
      BY <1>7, <2>1, <3>1, <3>2
  <2> QED
    BY <2>2, <2>3
<1>10. \A i \in Started' : \E r \in 1 .. m + 1 : from[r] = i
  <2> SUFFICES ASSUME NEW i \in Started' PROVE \E r \in 1 .. m + 1 : from[r] = i
    OBVIOUS
  <2>1. CASE i = n + 1
    BY <1>7, <2>1
  <2>2. CASE i # n + 1
    <3>1. i \in Started
      BY <1>3, <2>2
    <3>2. PICK r \in 1 .. m : b[r] = i
      BY <1>1, <1>2, <3>1 DEF StartsAt
    <3> QED
      BY <1>7, <3>2
  <2> QED
    BY <2>1, <2>2
<1>11. \A r \in 1 .. m + 1 : /\ history'[r].id = dbLog'[from[r]].key
                             /\ history'[r].finished <=> FinishedAfter(from[r])'
  <2> SUFFICES ASSUME NEW r \in 1 .. m + 1
               PROVE  /\ history'[r].id = dbLog'[from[r]].key
                      /\ history'[r].finished <=> FinishedAfter(from[r])'
    OBVIOUS
  <2>1. CASE r = m + 1
    BY <1>3, <1>5, <1>7, <2>1
  <2>2. CASE r # m + 1
    <3>1. r \in 1 .. m
      BY <1>7, <2>2
    <3>2. /\ history'[r] = history[r] /\ history[r].id = dbLog[b[r]].key
          /\ history[r].finished <=> FinishedAfter(b[r])
      BY <1>1, <1>2, <1>5, <3>1 DEF StartsAt
    <3>3. from[r] = b[r] /\ b[r] \in 1 .. n
      BY <1>7, <3>1
    <3>4. dbLog'[b[r]] = dbLog[b[r]] /\ (FinishedAfter(b[r])' <=> FinishedAfter(b[r]))
      BY <1>3, <3>3
    <3> QED
      BY <3>2, <3>3, <3>4
  <2> QED
    BY <2>1, <2>2
<1>12. StartsAt(from)'
  BY <1>5, <1>8, <1>9, <1>10, <1>11 DEF StartsAt
<1> QED
  BY <1>12 DEF HistoryOK

LEMMA HistoryFinishes ==
    ASSUME DbInv, NEW e, dbLog' = Append(dbLog, e), NEW k \in DbKeys, FinishBuild(k, "success", 1),
           e.table = "history", e.op = "finish", e.key = k
    PROVE  HistoryOK' /\ history' \in Seq(BuildRow)
<1>1. PICK from : StartsAt(from)
  BY DEF DbInv, HistoryOK
<1>2. PICK n, m : n = Len(dbLog) /\ m = Len(history)
  OBVIOUS
<1>3. /\ n \in Nat /\ Started \in SUBSET (1 .. n) /\ Started' = Started
      /\ \A i \in 1 .. n : /\ dbLog'[i] = dbLog[i]
                           /\ FinishedAfter(i)' <=> FinishedAfter(i) \/ k = dbLog[i].key
  <2>1. e.op # "write" /\ e.op # "empty" /\ IsSeq(dbLog)
    BY DEF DbInv, DbTypes
  <2>2. /\ n \in Nat /\ Started \in SUBSET (1 .. n)
        /\ Started' = IF e.op = "write" /\ e.table = "history" THEN Started \cup {n + 1}
                      ELSE IF e.op = "empty" /\ e.table = "history" THEN {}
                      ELSE Started
        /\ \A i \in 1 .. n : /\ dbLog'[i] = dbLog[i]
                             /\ FinishedAfter(i)' <=>
                                    FinishedAfter(i) \/ (e.op = "finish" /\ e.key = dbLog[i].key)
    BY <1>2, <2>1, StartedGrows
  <2> QED
    BY <2>1, <2>2
<1>4. /\ history \in Seq(BuildRow) /\ m \in Nat /\ DOMAIN history = 1 .. m
      /\ \A r \in 1 .. m : history[r] \in BuildRow /\ history[r].finished \in BOOLEAN
  BY <1>2, HistoryFields DEF DbInv
<1>5. PICK done : done = [id |-> k, status |-> "success", finished |-> TRUE, scanned |-> 1]
  OBVIOUS
<1>6. history' = [r \in 1 .. m |-> IF history[r].id = k THEN done ELSE history[r]]
  BY <1>4, <1>5 DEF FinishBuild
<1>7. done \in BuildRow /\ done.id = k /\ done.finished = TRUE
  BY <1>5 DEF BuildRow
<1>8. history' \in [1 .. m -> BuildRow]
  BY <1>4, <1>6, <1>7
<1>9. history' \in Seq(BuildRow) /\ Len(history') = m
  <2>1. Len(history') = m
    BY <1>4, <1>8
  <2> QED
    BY <1>4, <1>8, <2>1
<1>10. ASSUME NEW r \in 1 .. m
       PROVE  /\ history'[r].id = dbLog'[from[r]].key
              /\ history'[r].finished <=> FinishedAfter(from[r])'
  <2>1. /\ from[r] \in 1 .. n /\ history[r].id = dbLog[from[r]].key
        /\ history[r].finished <=> FinishedAfter(from[r])
    BY <1>1, <1>2, <1>3 DEF StartsAt
  <2>2. dbLog'[from[r]] = dbLog[from[r]]
        /\ (FinishedAfter(from[r])' <=> FinishedAfter(from[r]) \/ k = dbLog[from[r]].key)
    BY <1>3, <2>1
  <2>3. history'[r] = IF history[r].id = k THEN done ELSE history[r]
    BY <1>6
  <2> QED
    BY <1>7, <2>1, <2>2, <2>3
<1>11. StartsAt(from)'
  <2>1. /\ from \in [1 .. m -> Started]
        /\ \A r, q \in 1 .. m : r < q => from[r] < from[q]
        /\ \A i \in Started : \E r \in 1 .. m : from[r] = i
    BY <1>1, <1>2 DEF StartsAt
  <2> QED
    BY <1>3, <1>9, <1>10, <2>1 DEF StartsAt
<1> QED
  BY <1>9, <1>11 DEF HistoryOK

-----------------------------------------------------------------------------
(* The database: each call keeps the invariant                             *)

LEMMA DbInitHolds == DbInit => DbInv
<1> SUFFICES ASSUME DbInit PROVE DbInv
  OBVIOUS
<1>1. /\ fileRows = NoRows /\ depRows = NoRows /\ routeRows = NoRows /\ cacheEntries = NoRows
      /\ statRows = <<>> /\ benchRows = <<>> /\ history = <<>> /\ dbLog = <<>>
  BY DEF DbInit, EmptyTables
<1>2. DOMAIN NoRows = {} /\ IsFiniteSet({}) /\ (\A k : RowsAt(NoRows, k) = {})
  BY NoRowsAt, FS_EmptySet
<1>3. DOMAIN dbLog = {} /\ (\A S : <<>> \in Seq(S)) /\ dbLog \in Seq({})
  BY <1>1
<1>4. DbTypes
  BY <1>1, <1>2, <1>3 DEF DbTypes, IsSeq
<1>5. \A t, k, d : LastWrite(t, k, d) = {}
  BY <1>3 DEF LastWrite, Writes
<1>6. Started = {}
  BY <1>3 DEF Started
<1>7. HistoryOK
  <2>1. PICK from : from = [r \in {} |-> 0]
    OBVIOUS
  <2>2. Len(<<>>) = 0 /\ 1 .. 0 = {}
    OBVIOUS
  <2>3. from \in [{} -> {}]
    BY <2>1
  <2>4. StartsAt(from)
    BY <1>1, <1>6, <2>2, <2>3 DEF StartsAt
  <2> QED
    BY <2>4 DEF HistoryOK
<1> QED
  BY <1>1, <1>2, <1>4, <1>5, <1>7, NoLatestRow
     DEF DbInv, FileRowsOK, EntryRowsOK, RouteRowsOK, DepRowsOK, StatRowsOK, BenchRowsOK

LEMMA CallLogged ==
    ASSUME NEW does, NEW t, NEW k, NEW v, Logged(does, t, k, v)
    PROVE  \E e : dbLog' = Append(dbLog, e) /\ e.op = does /\ e.table = t /\ e.key = k /\ e.value = v
<1>1. PICK e : e = [op |-> does, table |-> t, key |-> k, value |-> v]
  OBVIOUS
<1>2. e.op = does /\ e.table = t /\ e.key = k /\ e.value = v
  BY <1>1
<1>3. dbLog' = Append(dbLog, e)
  BY <1>1 DEF Logged
<1> QED
  BY <1>2, <1>3

\* A key written is told by the write, and any other by what told it before.
LEMMA WriteTells ==
    ASSUME DbInv, NEW t, NEW p, NEW v, Logged("write", t, p, v), NEW k, NEW d
    PROVE  LastWrite(t, k, d)' = IF k = p THEN {v} ELSE LastWrite(t, k, d)
<1>1. PICK e : dbLog' = Append(dbLog, e) /\ e.op = "write" /\ e.table = t /\ e.key = p /\ e.value = v
  BY CallLogged
<1>2. IsSeq(dbLog)
  BY DEF DbInv, DbTypes
<1>3. LastWrite(t, k, d)' =
        IF e.op = "write" /\ e.table = t /\ e.key = k THEN {e.value}
        ELSE IF e.table = t /\ (e.op = "empty" \/ (e.op = "drop" /\ e.key = d)) THEN {}
        ELSE LastWrite(t, k, d)
  BY <1>1, <1>2, LastWriteGrows
<1>4. e.op # "empty" /\ e.op # "drop"
  BY <1>1
<1> QED
  BY <1>1, <1>3, <1>4

LEMMA DropTells ==
    ASSUME DbInv, NEW t, NEW p, NEW v, Logged("drop", t, p, v), NEW k, NEW d
    PROVE  LastWrite(t, k, d)' = IF d = p THEN {} ELSE LastWrite(t, k, d)
<1>1. PICK e : dbLog' = Append(dbLog, e) /\ e.op = "drop" /\ e.table = t /\ e.key = p /\ e.value = v
  BY CallLogged
<1>2. IsSeq(dbLog)
  BY DEF DbInv, DbTypes
<1>3. LastWrite(t, k, d)' =
        IF e.op = "write" /\ e.table = t /\ e.key = k THEN {e.value}
        ELSE IF e.table = t /\ (e.op = "empty" \/ (e.op = "drop" /\ e.key = d)) THEN {}
        ELSE LastWrite(t, k, d)
  BY <1>1, <1>2, LastWriteGrows
<1>4. e.op # "empty" /\ e.op # "write"
  BY <1>1
<1> QED
  BY <1>1, <1>3, <1>4

LEMMA FilesCall ==
    ASSUME DbInv, NEW k \in DbKeys, NEW v \in DbVals,
           \/ UpsertFile(k, v) /\ Logged("write", "files", k, v)
           \/ DeleteFile(k) /\ Logged("drop", "files", k, v)
    PROVE  /\ FileRowsOK' /\ DOMAIN fileRows' \in SUBSET DbKeys /\ IsFiniteSet(DOMAIN fileRows')
           /\ \E e : dbLog' = Append(dbLog, e) /\ e.table = "files" /\ e.op # "finish"
<1>0. DOMAIN fileRows \in SUBSET DbKeys /\ IsFiniteSet(DOMAIN fileRows) /\ FileRowsOK
  BY DEF DbInv, DbTypes
<1>1. CASE UpsertFile(k, v) /\ Logged("write", "files", k, v)
  <2>1. fileRows' = Replace(fileRows, k, v) /\ Logged("write", "files", k, v)
    BY <1>1 DEF UpsertFile
  <2>2. ASSUME NEW j \in DbKeys PROVE RowsAt(fileRows', j) = LastWrite("files", j, j)'
    <3>1. RowsAt(fileRows', j) = IF j = k THEN {v} ELSE RowsAt(fileRows, j)
      BY <2>1, RowsAtReplace
    <3>2. LastWrite("files", j, j)' = IF j = k THEN {v} ELSE LastWrite("files", j, j)
      BY <2>1, WriteTells
    <3> QED
      BY <1>0, <3>1, <3>2 DEF FileRowsOK
  <2>3. DOMAIN fileRows' = DOMAIN fileRows \cup {k}
    BY <2>1, DomainsOf
  <2>4. IsFiniteSet(DOMAIN fileRows \cup {k})
    BY <1>0, FS_AddElement
  <2>5. \E e : dbLog' = Append(dbLog, e) /\ e.table = "files" /\ e.op # "finish"
    BY <2>1, CallLogged
  <2> QED
    BY <1>0, <2>2, <2>3, <2>4, <2>5 DEF FileRowsOK
<1>2. CASE DeleteFile(k) /\ Logged("drop", "files", k, v)
  <2>1. fileRows' = Without(fileRows, {k}) /\ Logged("drop", "files", k, v)
    BY <1>2 DEF DeleteFile
  <2>2. ASSUME NEW j \in DbKeys PROVE RowsAt(fileRows', j) = LastWrite("files", j, j)'
    <3>1. RowsAt(fileRows', j) = IF j \in {k} THEN {} ELSE RowsAt(fileRows, j)
      BY <2>1, RowsAtWithout
    <3>2. LastWrite("files", j, j)' = IF j = k THEN {} ELSE LastWrite("files", j, j)
      BY <2>1, DropTells
    <3> QED
      BY <1>0, <3>1, <3>2 DEF FileRowsOK
  <2>3. DOMAIN fileRows' = DOMAIN fileRows \ {k}
    BY <2>1, DomainsOf
  <2>4. IsFiniteSet(DOMAIN fileRows \ {k})
    BY <1>0, FS_Subset
  <2>5. \E e : dbLog' = Append(dbLog, e) /\ e.table = "files" /\ e.op # "finish"
    BY <2>1, CallLogged
  <2> QED
    BY <1>0, <2>2, <2>3, <2>4, <2>5 DEF FileRowsOK
<1> QED
  BY <1>1, <1>2

LEMMA DependenciesCall ==
    ASSUME DbInv, NEW s \in DbKeys, NEW t \in DbKeys, NEW dynamic \in BOOLEAN,
           \/ UpsertDependency(s, t, "static", dynamic)
              /\ Logged("write", "dependencies", <<s, t, "static">>, dynamic)
           \/ ClearDependencies(s) /\ Logged("drop", "dependencies", s, s)
    PROVE  /\ DepRowsOK' /\ DOMAIN depRows' \in SUBSET (DbKeys \X DbKeys \X {"static"})
           /\ \E e : dbLog' = Append(dbLog, e) /\ e.table = "dependencies" /\ e.op # "finish"
<1>0. DOMAIN depRows \in SUBSET (DbKeys \X DbKeys \X {"static"}) /\ DepRowsOK
  BY DEF DbInv, DbTypes
<1>1. CASE UpsertDependency(s, t, "static", dynamic)
           /\ Logged("write", "dependencies", <<s, t, "static">>, dynamic)
  <2>1. PICK d : d = <<s, t, "static">>
    OBVIOUS
  <2>2. depRows' = Replace(depRows, d, dynamic) /\ Logged("write", "dependencies", d, dynamic)
    BY <1>1, <2>1 DEF UpsertDependency
  <2>3. ASSUME NEW a \in DbKeys, NEW b \in DbKeys
        PROVE  RowsAt(depRows', <<a, b, "static">>) = LastWrite("dependencies", <<a, b, "static">>, a)'
    <3>1. PICK x : x = <<a, b, "static">>
      OBVIOUS
    <3>2. RowsAt(depRows, x) = LastWrite("dependencies", x, a)
      BY <1>0, <3>1 DEF DepRowsOK
    <3>3. RowsAt(depRows', x) = IF x = d THEN {dynamic} ELSE RowsAt(depRows, x)
      BY <2>2, RowsAtReplace
    <3>4. LastWrite("dependencies", x, a)' = IF x = d THEN {dynamic} ELSE LastWrite("dependencies", x, a)
      BY <2>2, WriteTells
    <3> QED
      BY <3>1, <3>2, <3>3, <3>4
  <2>4. DOMAIN depRows' = DOMAIN depRows \cup {d} /\ d \in DbKeys \X DbKeys \X {"static"}
    BY <2>1, <2>2, DomainsOf
  <2>5. \E e : dbLog' = Append(dbLog, e) /\ e.table = "dependencies" /\ e.op # "finish"
    BY <2>2, CallLogged
  <2>6. DepRowsOK'
    BY <2>3 DEF DepRowsOK
  <2> QED
    BY <1>0, <2>4, <2>5, <2>6
<1>2. CASE ClearDependencies(s) /\ Logged("drop", "dependencies", s, s)
  <2>1. PICK keys : keys = {d \in DOMAIN depRows : d[1] = s}
    OBVIOUS
  <2>2. depRows' = Without(depRows, keys) /\ Logged("drop", "dependencies", s, s)
    BY <1>2, <2>1 DEF ClearDependencies
  <2>3. ASSUME NEW a \in DbKeys, NEW b \in DbKeys
        PROVE  RowsAt(depRows', <<a, b, "static">>) = LastWrite("dependencies", <<a, b, "static">>, a)'
    <3>1. PICK x : x = <<a, b, "static">>
      OBVIOUS
    <3>2. RowsAt(depRows, x) = LastWrite("dependencies", x, a) /\ x[1] = a
      BY <1>0, <3>1 DEF DepRowsOK
    <3>3. RowsAt(depRows', x) = IF x \in keys THEN {} ELSE RowsAt(depRows, x)
      BY <2>2, RowsAtWithout
    <3>4. LastWrite("dependencies", x, a)' = IF a = s THEN {} ELSE LastWrite("dependencies", x, a)
      BY <2>2, DropTells
    <3>5. x \in keys => a = s
      BY <2>1, <3>2
    <3>6. a = s /\ x \notin keys => RowsAt(depRows, x) = {}
      BY <2>1, <3>2 DEF RowsAt
    <3> QED
      BY <3>1, <3>2, <3>3, <3>4, <3>5, <3>6
  <2>4. DOMAIN depRows' = DOMAIN depRows \ keys
    BY <2>2, DomainsOf
  <2>5. \E e : dbLog' = Append(dbLog, e) /\ e.table = "dependencies" /\ e.op # "finish"
    BY <2>2, CallLogged
  <2>6. DepRowsOK'
    BY <2>3 DEF DepRowsOK
  <2> QED
    BY <1>0, <2>4, <2>5, <2>6
<1> QED
  BY <1>1, <1>2

LEMMA RoutesCall ==
    ASSUME DbInv, NEW k \in DbKeys,
           \/ UpsertRoute(k, k) /\ Logged("write", "routes", k, k)
           \/ ClearRoutes /\ Logged("empty", "routes", "all", "all")
    PROVE  /\ RouteRowsOK' /\ DOMAIN routeRows' \in SUBSET DbKeys
           /\ \E e : dbLog' = Append(dbLog, e) /\ e.table = "routes" /\ e.op # "finish"
<1>0. DOMAIN routeRows \in SUBSET DbKeys /\ RouteRowsOK
  BY DEF DbInv, DbTypes
<1>1. CASE UpsertRoute(k, k) /\ Logged("write", "routes", k, k)
  <2>1. routeRows' = Replace(routeRows, k, k) /\ Logged("write", "routes", k, k)
    BY <1>1 DEF UpsertRoute
  <2>2. ASSUME NEW j \in DbKeys PROVE RowsAt(routeRows', j) = LastWrite("routes", j, j)'
    <3>1. RowsAt(routeRows', j) = IF j = k THEN {k} ELSE RowsAt(routeRows, j)
      BY <2>1, RowsAtReplace
    <3>2. LastWrite("routes", j, j)' = IF j = k THEN {k} ELSE LastWrite("routes", j, j)
      BY <2>1, WriteTells
    <3> QED
      BY <1>0, <3>1, <3>2 DEF RouteRowsOK
  <2>3. DOMAIN routeRows' = DOMAIN routeRows \cup {k}
    BY <2>1, DomainsOf
  <2>4. \E e : dbLog' = Append(dbLog, e) /\ e.table = "routes" /\ e.op # "finish"
    BY <2>1, CallLogged
  <2> QED
    BY <1>0, <2>2, <2>3, <2>4 DEF RouteRowsOK
<1>2. CASE ClearRoutes /\ Logged("empty", "routes", "all", "all")
  <2>1. PICK e : dbLog' = Append(dbLog, e) /\ e.op = "empty" /\ e.table = "routes"
    BY <1>2, CallLogged
  <2>2. routeRows' = NoRows
    BY <1>2 DEF ClearRoutes
  <2>3. RouteRowsOK'
    BY <2>1, <2>2, TablesKeep
  <2> QED
    BY <2>1, <2>2, <2>3, NoRowsAt
<1> QED
  BY <1>1, <1>2

LEMMA CacheCall ==
    ASSUME DbInv, NEW k \in DbKeys, NEW v \in DbVals,
           \/ UpsertCacheEntry(k, [size |-> v]) /\ Logged("write", "cacheEntries", k, [size |-> v])
           \/ DeleteCacheEntry(k) /\ Logged("drop", "cacheEntries", k, v)
           \/ PurgeCache /\ Logged("empty", "cacheEntries", "all", "all")
    PROVE  /\ EntryRowsOK' /\ DOMAIN cacheEntries' \in SUBSET DbKeys /\ IsFiniteSet(DOMAIN cacheEntries')
           /\ \A j \in DOMAIN cacheEntries' : cacheEntries'[j].size \in DbVals
           /\ \E e : dbLog' = Append(dbLog, e) /\ e.table = "cacheEntries" /\ e.op # "finish"
<1>0. /\ DOMAIN cacheEntries \in SUBSET DbKeys /\ IsFiniteSet(DOMAIN cacheEntries) /\ EntryRowsOK
      /\ \A j \in DOMAIN cacheEntries : cacheEntries[j].size \in DbVals
  BY DEF DbInv, DbTypes
<1>1. CASE UpsertCacheEntry(k, [size |-> v]) /\ Logged("write", "cacheEntries", k, [size |-> v])
  <2>1. PICK row : row = [size |-> v]
    OBVIOUS
  <2>2. /\ cacheEntries' = Replace(cacheEntries, k, row) /\ Logged("write", "cacheEntries", k, row)
        /\ row.size = v
    BY <1>1, <2>1 DEF UpsertCacheEntry
  <2>3. ASSUME NEW j \in DbKeys PROVE RowsAt(cacheEntries', j) = LastWrite("cacheEntries", j, j)'
    <3>1. RowsAt(cacheEntries', j) = IF j = k THEN {row} ELSE RowsAt(cacheEntries, j)
      BY <2>2, RowsAtReplace
    <3>2. LastWrite("cacheEntries", j, j)' = IF j = k THEN {row} ELSE LastWrite("cacheEntries", j, j)
      BY <2>2, WriteTells
    <3> QED
      BY <1>0, <3>1, <3>2 DEF EntryRowsOK
  <2>4. /\ DOMAIN cacheEntries' = DOMAIN cacheEntries \cup {k}
        /\ \A j \in DOMAIN cacheEntries \cup {k} :
              cacheEntries'[j] = IF j = k THEN row ELSE cacheEntries[j]
    BY <2>2 DEF Replace
  <2>5. IsFiniteSet(DOMAIN cacheEntries \cup {k})
    BY <1>0, FS_AddElement
  <2>6. \E e : dbLog' = Append(dbLog, e) /\ e.table = "cacheEntries" /\ e.op # "finish"
    BY <2>2, CallLogged
  <2>7. \A j \in DOMAIN cacheEntries' : cacheEntries'[j].size \in DbVals
    BY <1>0, <2>2, <2>4
  <2> QED
    BY <1>0, <2>3, <2>4, <2>5, <2>6, <2>7 DEF EntryRowsOK
<1>2. CASE DeleteCacheEntry(k) /\ Logged("drop", "cacheEntries", k, v)
  <2>1. cacheEntries' = Without(cacheEntries, {k}) /\ Logged("drop", "cacheEntries", k, v)
    BY <1>2 DEF DeleteCacheEntry
  <2>2. ASSUME NEW j \in DbKeys PROVE RowsAt(cacheEntries', j) = LastWrite("cacheEntries", j, j)'
    <3>1. RowsAt(cacheEntries', j) = IF j \in {k} THEN {} ELSE RowsAt(cacheEntries, j)
      BY <2>1, RowsAtWithout
    <3>2. LastWrite("cacheEntries", j, j)' = IF j = k THEN {} ELSE LastWrite("cacheEntries", j, j)
      BY <2>1, DropTells
    <3> QED
      BY <1>0, <3>1, <3>2 DEF EntryRowsOK
  <2>3. /\ DOMAIN cacheEntries' = DOMAIN cacheEntries \ {k}
        /\ \A j \in DOMAIN cacheEntries \ {k} : cacheEntries'[j] = cacheEntries[j]
    BY <2>1 DEF Without
  <2>4. IsFiniteSet(DOMAIN cacheEntries \ {k})
    BY <1>0, FS_Subset
  <2>5. \E e : dbLog' = Append(dbLog, e) /\ e.table = "cacheEntries" /\ e.op # "finish"
    BY <2>1, CallLogged
  <2>6. \A j \in DOMAIN cacheEntries' : cacheEntries'[j].size \in DbVals
    BY <1>0, <2>3
  <2> QED
    BY <1>0, <2>2, <2>3, <2>4, <2>5, <2>6 DEF EntryRowsOK
<1>3. CASE PurgeCache /\ Logged("empty", "cacheEntries", "all", "all")
  <2>1. PICK e : dbLog' = Append(dbLog, e) /\ e.op = "empty" /\ e.table = "cacheEntries"
    BY <1>3, CallLogged
  <2>2. cacheEntries' = NoRows
    BY <1>3 DEF PurgeCache
  <2>3. EntryRowsOK'
    BY <2>1, <2>2, TablesKeep
  <2>4. DOMAIN cacheEntries' = {}
    BY <2>2, NoRowsAt
  <2> QED
    BY <2>1, <2>3, <2>4, FS_EmptySet
<1> QED
  BY <1>1, <1>2, <1>3

LEMMA StatsCall ==
    ASSUME DbInv, NEW k \in DbKeys, NEW v \in DbVals, RecordStat(k, "m", v),
           Logged("write", "stats", k, v)
    PROVE  /\ StatRowsOK' /\ statRows' \in Seq([of : DbKeys, key : {"m"}, value : DbVals])
           /\ \E e : dbLog' = Append(dbLog, e) /\ e.table = "stats" /\ e.op # "finish"
<1>1. statRows \in Seq([of : DbKeys, key : {"m"}, value : DbVals]) /\ StatRowsOK
  BY DEF DbInv, DbTypes
<1>2. IsSeq(statRows)
  BY <1>1 DEF IsSeq
<1>3. PICK row : row = [of |-> k, key |-> "m", value |-> v]
  OBVIOUS
<1>4. /\ statRows' = Append(statRows, row) /\ row.of = k /\ row.key = "m" /\ row.value = v
      /\ row \in [of : DbKeys, key : {"m"}, value : DbVals]
  BY <1>3 DEF RecordStat
<1>5. ASSUME NEW j \in DbKeys PROVE LatestRow(statRows', j, "m") = LastWrite("stats", j, j)'
  <2>1. LatestRow(statRows', j, "m") = IF row.of = j /\ row.key = "m" THEN {row.value} ELSE LatestRow(statRows, j, "m")
    BY <1>2, <1>4, LatestRowGrows
  <2>2. LastWrite("stats", j, j)' = IF j = k THEN {v} ELSE LastWrite("stats", j, j)
    BY WriteTells
  <2> QED
    BY <1>1, <1>4, <2>1, <2>2 DEF StatRowsOK
<1>6. statRows' \in Seq([of : DbKeys, key : {"m"}, value : DbVals])
  BY <1>1, <1>4, AppendProperties
<1>7. \E e : dbLog' = Append(dbLog, e) /\ e.table = "stats" /\ e.op # "finish"
  BY CallLogged
<1> QED
  BY <1>5, <1>6, <1>7 DEF StatRowsOK

LEMMA BenchmarksCall ==
    ASSUME DbInv, NEW k \in DbKeys, NEW v \in DbVals, RecordBenchmark("b", k, v),
           Logged("write", "benchmarks", k, v)
    PROVE  /\ BenchRowsOK' /\ benchRows' \in Seq([of : {"b"}, key : DbKeys, value : DbVals])
           /\ \E e : dbLog' = Append(dbLog, e) /\ e.table = "benchmarks" /\ e.op # "finish"
<1>1. benchRows \in Seq([of : {"b"}, key : DbKeys, value : DbVals]) /\ BenchRowsOK
  BY DEF DbInv, DbTypes
<1>2. IsSeq(benchRows)
  BY <1>1 DEF IsSeq
<1>3. PICK row : row = [of |-> "b", key |-> k, value |-> v]
  OBVIOUS
<1>4. /\ benchRows' = Append(benchRows, row) /\ row.of = "b" /\ row.key = k /\ row.value = v
      /\ row \in [of : {"b"}, key : DbKeys, value : DbVals]
  BY <1>3 DEF RecordBenchmark
<1>5. ASSUME NEW j \in DbKeys PROVE LatestRow(benchRows', "b", j) = LastWrite("benchmarks", j, j)'
  <2>1. LatestRow(benchRows', "b", j) = IF row.of = "b" /\ row.key = j THEN {row.value} ELSE LatestRow(benchRows, "b", j)
    BY <1>2, <1>4, LatestRowGrows
  <2>2. LastWrite("benchmarks", j, j)' = IF j = k THEN {v} ELSE LastWrite("benchmarks", j, j)
    BY WriteTells
  <2> QED
    BY <1>1, <1>4, <2>1, <2>2 DEF BenchRowsOK
<1>6. benchRows' \in Seq([of : {"b"}, key : DbKeys, value : DbVals])
  BY <1>1, <1>4, AppendProperties
<1>7. \E e : dbLog' = Append(dbLog, e) /\ e.table = "benchmarks" /\ e.op # "finish"
  BY CallLogged
<1> QED
  BY <1>5, <1>6, <1>7 DEF BenchRowsOK

LEMMA HistoryCall ==
    ASSUME DbInv, NEW k \in DbKeys,
           \/ StartBuild(k) /\ Logged("write", "history", k, "running")
           \/ FinishBuild(k, "success", 1) /\ Logged("finish", "history", k, "success")
    PROVE  /\ HistoryOK' /\ history' \in Seq(BuildRow)
           /\ \E e : dbLog' = Append(dbLog, e) /\ e.table = "history" /\ e.op # "empty"
<1>1. CASE StartBuild(k) /\ Logged("write", "history", k, "running")
  <2>1. PICK e : e = [op |-> "write", table |-> "history", key |-> k, value |-> "running"]
    OBVIOUS
  <2>2. dbLog' = Append(dbLog, e)
    BY <1>1, <2>1 DEF Logged
  <2>3. history' \in Seq(BuildRow)
    <3>1. [id |-> k, status |-> "running", finished |-> FALSE, scanned |-> 0] \in BuildRow
      BY DEF BuildRow
    <3> QED
      BY <1>1, <3>1, AppendProperties DEF StartBuild, DbInv, DbTypes
  <2>4. HistoryOK'
    BY <1>1, <2>1, <2>2, HistoryStarts
  <2> QED
    BY <2>1, <2>2, <2>3, <2>4
<1>2. CASE FinishBuild(k, "success", 1) /\ Logged("finish", "history", k, "success")
  <2>1. PICK e : e = [op |-> "finish", table |-> "history", key |-> k, value |-> "success"]
    OBVIOUS
  <2>2. dbLog' = Append(dbLog, e)
    BY <1>2, <2>1 DEF Logged
  <2>3. HistoryOK' /\ history' \in Seq(BuildRow)
    BY <1>2, <2>1, <2>2, HistoryFinishes
  <2> QED
    BY <2>1, <2>2, <2>3
<1> QED
  BY <1>1, <1>2

LEMMA LogStays ==
    ASSUME DbInv, UNCHANGED <<tables, dbLog>>
    PROVE  DbInv'
<1>1. UNCHANGED <<fileRows, depRows, routeRows, cacheEntries, statRows, benchRows, history, dbLog>>
  BY DEF tables
<1>2. \A t, k, d : LastWrite(t, k, d)' = LastWrite(t, k, d)
  BY <1>1 DEF LastWrite, Writes, Drops
<1>3. Started' = Started /\ \A i : FinishedAfter(i)' <=> FinishedAfter(i)
  BY <1>1 DEF Started, FinishedAfter
<1>4. HistoryOK'
  BY <1>1, <1>3 DEF DbInv, HistoryOK, StartsAt
<1>5. DbTypes'
  BY <1>1 DEF DbInv, DbTypes
<1> QED
  BY <1>1, <1>2, <1>4, <1>5
     DEF DbInv, FileRowsOK, EntryRowsOK, RouteRowsOK, DepRowsOK, StatRowsOK, BenchRowsOK

LEMMA DbCallStep ==
    ASSUME DbInv, DbCall
    PROVE  DbInv'
<1>0. DbTypes /\ IsSeq(dbLog)
  BY DEF DbInv, DbTypes
<1>1. ASSUME NEW e, dbLog' = Append(dbLog, e) PROVE IsSeq(dbLog')
  BY <1>0, <1>1, AnyAppend
<1>2. ASSUME NEW k \in DbKeys, NEW v \in DbVals,
             \/ UpsertFile(k, v) /\ Logged("write", "files", k, v)
             \/ DeleteFile(k) /\ Logged("drop", "files", k, v),
             UNCHANGED <<depRows, routeRows, cacheEntries, statRows, benchRows, history>>
      PROVE  DbInv'
  <2>1. PICK e : dbLog' = Append(dbLog, e) /\ e.table = "files" /\ e.op # "finish"
    BY <1>2, FilesCall
  <2>2. FileRowsOK' /\ DOMAIN fileRows' \in SUBSET DbKeys /\ IsFiniteSet(DOMAIN fileRows')
    BY <1>2, FilesCall
  <2>3. DbTypes'
    BY <1>0, <1>1, <1>2, <2>1, <2>2 DEF DbTypes
  <2>4. HistoryOK' /\ EntryRowsOK' /\ RouteRowsOK' /\ DepRowsOK' /\ StatRowsOK' /\ BenchRowsOK'
    BY <1>2, <2>1, TablesKeep, HistoryKept
  <2> QED
    BY <2>2, <2>3, <2>4 DEF DbInv
<1>3. ASSUME NEW s \in DbKeys, NEW t \in DbKeys, NEW dynamic \in BOOLEAN,
             \/ UpsertDependency(s, t, "static", dynamic)
                /\ Logged("write", "dependencies", <<s, t, "static">>, dynamic)
             \/ ClearDependencies(s) /\ Logged("drop", "dependencies", s, s),
             UNCHANGED <<fileRows, routeRows, cacheEntries, statRows, benchRows, history>>
      PROVE  DbInv'
  <2>1. PICK e : dbLog' = Append(dbLog, e) /\ e.table = "dependencies" /\ e.op # "finish"
    BY <1>3, DependenciesCall
  <2>2. DepRowsOK' /\ DOMAIN depRows' \in SUBSET (DbKeys \X DbKeys \X {"static"})
    BY <1>3, DependenciesCall
  <2>3. DbTypes'
    BY <1>0, <1>1, <1>3, <2>1, <2>2 DEF DbTypes
  <2>4. HistoryOK' /\ EntryRowsOK' /\ RouteRowsOK' /\ FileRowsOK' /\ StatRowsOK' /\ BenchRowsOK'
    BY <1>3, <2>1, TablesKeep, HistoryKept
  <2> QED
    BY <2>2, <2>3, <2>4 DEF DbInv
<1>4. ASSUME NEW k \in DbKeys,
             \/ UpsertRoute(k, k) /\ Logged("write", "routes", k, k)
             \/ ClearRoutes /\ Logged("empty", "routes", "all", "all"),
             UNCHANGED <<fileRows, depRows, cacheEntries, statRows, benchRows, history>>
      PROVE  DbInv'
  <2>1. PICK e : dbLog' = Append(dbLog, e) /\ e.table = "routes" /\ e.op # "finish"
    BY <1>4, RoutesCall
  <2>2. RouteRowsOK' /\ DOMAIN routeRows' \in SUBSET DbKeys
    BY <1>4, RoutesCall
  <2>3. DbTypes'
    BY <1>0, <1>1, <1>4, <2>1, <2>2 DEF DbTypes
  <2>4. HistoryOK' /\ EntryRowsOK' /\ DepRowsOK' /\ FileRowsOK' /\ StatRowsOK' /\ BenchRowsOK'
    BY <1>4, <2>1, TablesKeep, HistoryKept
  <2> QED
    BY <2>2, <2>3, <2>4 DEF DbInv
<1>5. ASSUME NEW k \in DbKeys, NEW v \in DbVals,
             \/ UpsertCacheEntry(k, [size |-> v]) /\ Logged("write", "cacheEntries", k, [size |-> v])
             \/ DeleteCacheEntry(k) /\ Logged("drop", "cacheEntries", k, v)
             \/ PurgeCache /\ Logged("empty", "cacheEntries", "all", "all"),
             UNCHANGED <<fileRows, depRows, routeRows, statRows, benchRows, history>>
      PROVE  DbInv'
  <2>1. PICK e : dbLog' = Append(dbLog, e) /\ e.table = "cacheEntries" /\ e.op # "finish"
    BY <1>5, CacheCall
  <2>2. /\ EntryRowsOK' /\ DOMAIN cacheEntries' \in SUBSET DbKeys /\ IsFiniteSet(DOMAIN cacheEntries')
        /\ \A j \in DOMAIN cacheEntries' : cacheEntries'[j].size \in DbVals
    BY <1>5, CacheCall
  <2>3. DbTypes'
    BY <1>0, <1>1, <1>5, <2>1, <2>2 DEF DbTypes
  <2>4. HistoryOK' /\ RouteRowsOK' /\ DepRowsOK' /\ FileRowsOK' /\ StatRowsOK' /\ BenchRowsOK'
    BY <1>5, <2>1, TablesKeep, HistoryKept
  <2> QED
    BY <2>2, <2>3, <2>4 DEF DbInv
<1>6. ASSUME NEW k \in DbKeys, NEW v \in DbVals, RecordStat(k, "m", v), Logged("write", "stats", k, v),
             UNCHANGED <<fileRows, depRows, routeRows, cacheEntries, benchRows, history>>
      PROVE  DbInv'
  <2>1. PICK e : dbLog' = Append(dbLog, e) /\ e.table = "stats" /\ e.op # "finish"
    BY <1>6, StatsCall
  <2>2. StatRowsOK' /\ statRows' \in Seq([of : DbKeys, key : {"m"}, value : DbVals])
    BY <1>6, StatsCall
  <2>3. DbTypes'
    BY <1>0, <1>1, <1>6, <2>1, <2>2 DEF DbTypes
  <2>4. HistoryOK' /\ EntryRowsOK' /\ RouteRowsOK' /\ DepRowsOK' /\ FileRowsOK' /\ BenchRowsOK'
    BY <1>6, <2>1, TablesKeep, HistoryKept
  <2> QED
    BY <2>2, <2>3, <2>4 DEF DbInv
<1>7. ASSUME NEW k \in DbKeys, NEW v \in DbVals, RecordBenchmark("b", k, v),
             Logged("write", "benchmarks", k, v),
             UNCHANGED <<fileRows, depRows, routeRows, cacheEntries, statRows, history>>
      PROVE  DbInv'
  <2>1. PICK e : dbLog' = Append(dbLog, e) /\ e.table = "benchmarks" /\ e.op # "finish"
    BY <1>7, BenchmarksCall
  <2>2. BenchRowsOK' /\ benchRows' \in Seq([of : {"b"}, key : DbKeys, value : DbVals])
    BY <1>7, BenchmarksCall
  <2>3. DbTypes'
    BY <1>0, <1>1, <1>7, <2>1, <2>2 DEF DbTypes
  <2>4. HistoryOK' /\ EntryRowsOK' /\ RouteRowsOK' /\ DepRowsOK' /\ FileRowsOK' /\ StatRowsOK'
    BY <1>7, <2>1, TablesKeep, HistoryKept
  <2> QED
    BY <2>2, <2>3, <2>4 DEF DbInv
<1>8. ASSUME NEW k \in DbKeys,
             \/ StartBuild(k) /\ Logged("write", "history", k, "running")
             \/ FinishBuild(k, "success", 1) /\ Logged("finish", "history", k, "success"),
             UNCHANGED <<fileRows, depRows, routeRows, cacheEntries, statRows, benchRows>>
      PROVE  DbInv'
  <2>1. PICK e : dbLog' = Append(dbLog, e) /\ e.table = "history" /\ e.op # "empty"
    BY <1>8, HistoryCall
  <2>2. HistoryOK' /\ history' \in Seq(BuildRow)
    BY <1>8, HistoryCall
  <2>3. DbTypes'
    BY <1>0, <1>1, <1>8, <2>1, <2>2 DEF DbTypes
  <2>4. EntryRowsOK' /\ RouteRowsOK' /\ DepRowsOK' /\ FileRowsOK' /\ StatRowsOK' /\ BenchRowsOK'
    BY <1>8, <2>1, TablesKeep
  <2> QED
    BY <2>2, <2>3, <2>4 DEF DbInv
<1> QED
  BY <1>2, <1>3, <1>4, <1>5, <1>6, <1>7, <1>8 DEF DbCall

LEMMA PurgeTableStep ==
    ASSUME DbInv, PurgeTable
    PROVE  DbInv'
<1>0. DbTypes /\ IsSeq(dbLog)
  BY DEF DbInv, DbTypes
<1>1. PICK t, e : t = Head(purging) /\ e = [op |-> "empty", table |-> t, key |-> "all", value |-> "all"]
  OBVIOUS
<1>2. dbLog' = Append(dbLog, e) /\ e.table = t /\ e.op = "empty" /\ EmptyTable(t)
  BY <1>1 DEF PurgeTable, Logged
<1>3. /\ IF t = "files" THEN fileRows' = NoRows ELSE UNCHANGED fileRows
      /\ IF t = "dependencies" THEN depRows' = NoRows ELSE UNCHANGED depRows
      /\ IF t = "routes" THEN routeRows' = NoRows ELSE UNCHANGED routeRows
      /\ IF t = "cacheEntries" THEN cacheEntries' = NoRows ELSE UNCHANGED cacheEntries
      /\ IF t = "stats" THEN statRows' = <<>> ELSE UNCHANGED statRows
      /\ IF t = "benchmarks" THEN benchRows' = <<>> ELSE UNCHANGED benchRows
      /\ IF t = "history" THEN history' = <<>> ELSE UNCHANGED history
  BY <1>2 DEF EmptyTable
<1>4. FileRowsOK' /\ EntryRowsOK' /\ RouteRowsOK' /\ DepRowsOK' /\ StatRowsOK' /\ BenchRowsOK'
  BY <1>2, <1>3, TablesKeep
<1>5. HistoryOK'
  <2>1. CASE t = "history"
    BY <1>2, <1>3, <2>1, HistoryEmptied
  <2>2. CASE t # "history"
    <3>1. e.op # "finish"
      BY <1>2
    <3> QED
      BY <1>2, <1>3, <2>2, <3>1, HistoryKept
  <2> QED
    BY <2>1, <2>2
<1>6. DbTypes'
  <2>1. DOMAIN NoRows = {} /\ IsFiniteSet({}) /\ \A S : <<>> \in Seq(S)
    BY NoRowsAt, FS_EmptySet
  <2>2. IsSeq(dbLog')
    BY <1>0, <1>2, AnyAppend
  <2>3. /\ DOMAIN fileRows' \in SUBSET DbKeys /\ IsFiniteSet(DOMAIN fileRows')
        /\ DOMAIN routeRows' \in SUBSET DbKeys
        /\ DOMAIN depRows' \in SUBSET (DbKeys \X DbKeys \X {"static"})
    BY <1>0, <1>3, <2>1 DEF DbTypes
  <2>4. /\ DOMAIN cacheEntries' \in SUBSET DbKeys /\ IsFiniteSet(DOMAIN cacheEntries')
        /\ \A k \in DOMAIN cacheEntries' : cacheEntries'[k].size \in DbVals
    BY <1>0, <1>3, <2>1 DEF DbTypes
  <2>5. /\ statRows' \in Seq([of : DbKeys, key : {"m"}, value : DbVals])
        /\ benchRows' \in Seq([of : {"b"}, key : DbKeys, value : DbVals])
        /\ history' \in Seq(BuildRow)
    BY <1>0, <1>3, <2>1 DEF DbTypes
  <2> QED
    BY <2>2, <2>3, <2>4, <2>5 DEF DbTypes
<1> QED
  BY <1>4, <1>5, <1>6 DEF DbInv

LEMMA DbStep == DbInv /\ [DbNext]_dbVars => DbInv'
<1> SUFFICES ASSUME DbInv, [DbNext]_dbVars PROVE DbInv'
  OBVIOUS
<1>1. CASE UNCHANGED dbVars \/ PurgeCut
  BY <1>1, LogStays DEF dbVars, PurgeCut
<1>2. CASE PurgeAll
  <2>1. PICK e : e = [op |-> "purge", table |-> "all", key |-> "all", value |-> "all"]
    OBVIOUS
  <2>2. /\ dbLog' = Append(dbLog, e) /\ e.table = "all" /\ e.op = "purge"
        /\ UNCHANGED <<fileRows, depRows, routeRows, cacheEntries, statRows, benchRows, history>>
    BY <1>2, <2>1 DEF PurgeAll, Logged, tables
  <2>3. IsSeq(dbLog')
    BY <2>2, AnyAppend DEF DbInv, DbTypes
  <2>4. DbTypes'
    BY <2>2, <2>3 DEF DbInv, DbTypes
  <2>5. /\ FileRowsOK' /\ EntryRowsOK' /\ RouteRowsOK' /\ DepRowsOK' /\ StatRowsOK' /\ BenchRowsOK'
        /\ HistoryOK'
    BY <2>2, TablesKeep, HistoryKept
  <2> QED
    BY <2>4, <2>5 DEF DbInv
<1> QED
  BY <1>1, <1>2, DbCallStep, PurgeTableStep DEF DbNext

-----------------------------------------------------------------------------
(* The database: the last row of a key                                     *)

\* What LastOf answers for a key is the value of the key's last row.
LEMMA LastOfIs ==
    ASSUME NEW rows, IsSeq(rows), NEW id
    PROVE  /\ \A m \in DOMAIN LastOf(rows, id) : \E i \in DOMAIN rows : rows[i].of = id /\ rows[i].key = m
           /\ \A k : {LastOf(rows, id)[m] : m \in DOMAIN LastOf(rows, id) \cap {k}} = LatestRow(rows, id, k)
<1> DEFINE mine == {i \in DOMAIN rows : rows[i].of = id}
           Last(k) == CHOOSE i \in mine : /\ rows[i].key = k
                                          /\ \A j \in mine : rows[j].key = k => j <= i
<1>1. Len(rows) \in Nat /\ DOMAIN rows = 1 .. Len(rows)
  BY LenProperties
<1>2. LastOf(rows, id) = [k \in {rows[i].key : i \in mine} |-> rows[Last(k)].value]
  BY DEF LastOf
<1>3. ASSUME NEW k
      PROVE  {LastOf(rows, id)[m] : m \in DOMAIN LastOf(rows, id) \cap {k}} = LatestRow(rows, id, k)
  <2>1. LatestRow(rows, id, k)
          = {rows[i].value : i \in {j \in mine : rows[j].key = k /\ \A n \in mine : rows[n].key = k => n <= j}}
    BY DEF LatestRow
  <2>2. CASE \A i \in mine : rows[i].key # k
    <3>1. k \notin DOMAIN LastOf(rows, id)
      BY <1>2, <2>2
    <3>2. LatestRow(rows, id, k) = {}
      BY <2>1, <2>2
    <3> QED
      BY <3>1, <3>2
  <2>3. CASE \E i \in mine : rows[i].key = k
    <3>1. PICK K : K = {i \in mine : rows[i].key = k}
      OBVIOUS
    <3>2. PICK g \in K : \A j \in K : j <= g
      <4>1. K \in SUBSET (1 .. Len(rows)) /\ K # {}
        BY <1>1, <2>3, <3>1
      <4> QED
        BY <1>1, <4>1, GreatestOf
    <3>3. \A i \in K : (\A j \in K : j <= i) <=> i = g
      <4>1. \A i \in K : i \in Nat
        BY <1>1, <3>1
      <4> QED
        BY <3>2, <4>1
    <3>4. Last(k) = g
      BY <3>1, <3>2, <3>3
    <3>5. {j \in mine : rows[j].key = k /\ \A n \in mine : rows[n].key = k => n <= j} = {g}
      BY <3>1, <3>2, <3>3
    <3>6. k \in {rows[i].key : i \in mine}
      BY <2>3
    <3> HIDE DEF Last, mine
    <3>7. LatestRow(rows, id, k) = {rows[g].value}
      BY <2>1, <3>5
    <3>8. DOMAIN LastOf(rows, id) \cap {k} = {k} /\ LastOf(rows, id)[k] = rows[g].value
      BY <1>2, <3>4, <3>6
    <3> QED
      BY <3>7, <3>8
  <2> QED
    BY <2>2, <2>3
<1>4. ASSUME NEW m \in DOMAIN LastOf(rows, id)
      PROVE  \E i \in DOMAIN rows : rows[i].of = id /\ rows[i].key = m
  BY <1>2
<1> QED
  BY <1>3, <1>4

-----------------------------------------------------------------------------
(* The database: the sizes of the cache entries                            *)

IsSum(f, D, g) ==
    g = [S \in D |-> IF S = {} THEN 0
                     ELSE LET k == CHOOSE k \in S : TRUE IN f[k].size + g[S \ {k}]]

UpTo(f, m) == {S \in SUBSET DOMAIN f : Cardinality(S) <= m}

LEMMA SumsExist ==
    ASSUME NEW f, IsFiniteSet(DOMAIN f)
    PROVE  \E g : IsSum(f, SUBSET DOMAIN f, g)
<1> DEFINE Has(m) == \E g : IsSum(f, UpTo(f, m), g)
           Bad == {m \in Nat : ~Has(m)}
<1>1. \A S \in SUBSET DOMAIN f : IsFiniteSet(S) /\ Cardinality(S) \in Nat /\ Cardinality(S) <= Cardinality(DOMAIN f)
  BY FS_Subset, FS_CardinalityType
<1>2. Cardinality(DOMAIN f) \in Nat
  BY FS_CardinalityType
<1>3. UpTo(f, Cardinality(DOMAIN f)) = SUBSET DOMAIN f
  BY <1>1 DEF UpTo
<1>4. SUFFICES ASSUME Bad # {} PROVE FALSE
  <2>1. Has(Cardinality(DOMAIN f)) => \E g : IsSum(f, SUBSET DOMAIN f, g)
    BY <1>3
  <2> HIDE DEF Has
  <2> QED
    BY <1>2, <2>1
<1>5. PICK m \in Bad : \A k \in Bad : m <= k
  <2> HIDE DEF Has
  <2>1. Bad \in SUBSET Nat
    OBVIOUS
  <2> HIDE DEF Bad
  <2> QED
    BY <1>4, <2>1, LeastNat
<1>6. CASE m = 0
  <2>1. UpTo(f, 0) = {{}}
    BY <1>1, FS_EmptySet DEF UpTo
  <2> DEFINE g == [S \in {{}} |-> 0]
  <2>2. g = [S \in {{}} |-> IF S = {} THEN 0
                            ELSE LET k == CHOOSE k \in S : TRUE IN f[k].size + g[S \ {k}]]
    OBVIOUS
  <2> HIDE DEF g
  <2>3. Has(0)
    BY <2>1, <2>2 DEF IsSum
  <2> HIDE DEF Has
  <2> QED
    BY <1>5, <1>6, <2>3
<1>7. CASE m # 0
  <2>1. m - 1 \in Nat /\ m \in Nat /\ Has(m - 1)
    <3> HIDE DEF Has
    <3> QED
      BY <1>5, <1>7
  <2>2. PICK h : IsSum(f, UpTo(f, m - 1), h)
    BY <2>1
  <2> DEFINE Of(S) == CHOOSE k \in S : TRUE
             E(g, S) == IF S = {} THEN 0 ELSE f[Of(S)].size + g[S \ {Of(S)}]
             g == [S \in UpTo(f, m) |-> E(h, S)]
  <2>3. h = [S \in UpTo(f, m - 1) |-> E(h, S)]
    BY <2>2 DEF IsSum
  <2>4. \A S \in UpTo(f, m - 1) : S \in UpTo(f, m)
    BY <1>1, <2>1 DEF UpTo
  <2>5. ASSUME NEW S \in UpTo(f, m) PROVE g[S] = E(g, S)
    <3>1. CASE S = {}
      BY <3>1
    <3>2. CASE S # {}
      <4>1. Of(S) \in S /\ S \in SUBSET DOMAIN f /\ Cardinality(S) <= m
        BY <3>2 DEF UpTo
      <4>2. PICK T : T = S \ {Of(S)}
        OBVIOUS
      <4>3. Cardinality(T) = Cardinality(S) - 1 /\ T \in SUBSET DOMAIN f
        <5> HIDE DEF Of
        <5> QED
          BY <1>1, <4>1, <4>2, FS_RemoveElement
      <4>4. T \in UpTo(f, m - 1)
        BY <1>1, <2>1, <4>1, <4>3 DEF UpTo
      <4>5. g[T] = E(h, T) /\ h[T] = E(h, T)
        BY <2>3, <2>4, <4>4
      <4> QED
        BY <4>2, <4>5
    <3> QED
      BY <3>1, <3>2
  <2>6. g = [S \in UpTo(f, m) |-> E(g, S)]
    <3>1. \A S \in UpTo(f, m) : g[S] = E(g, S)
      BY <2>5
    <3>2. g = [S \in UpTo(f, m) |-> g[S]]
      OBVIOUS
    <3> HIDE DEF g
    <3> QED
      BY <3>1, <3>2
  <2> HIDE DEF g
  <2>7. Has(m)
    BY <2>6 DEF IsSum
  <2> HIDE DEF Has
  <2> QED
    BY <1>5, <2>7
<1> QED
  BY <1>6, <1>7

LEMMA SumAtLeast ==
    ASSUME NEW f, IsFiniteSet(DOMAIN f), \A k \in DOMAIN f : f[k].size \in Nat \ {0}
    PROVE  SumOf(f) \in Nat /\ SumOf(f) >= Cardinality(DOMAIN f)
<1> DEFINE D == SUBSET DOMAIN f
           g == CHOOSE g : IsSum(f, D, g)
<1>1. SumOf(f) = g[DOMAIN f]
  BY DEF SumOf, IsSum
<1>2. IsSum(f, D, g)
  BY SumsExist
<1> HIDE DEF g
<1>3. \A S \in D : IsFiniteSet(S) /\ Cardinality(S) \in Nat
  BY FS_Subset, FS_CardinalityType
<1> DEFINE Good(S) == g[S] \in Nat /\ g[S] >= Cardinality(S)
           Bad == {Cardinality(S) : S \in {T \in D : ~Good(T)}}
<1>4. SUFFICES ASSUME Bad # {} PROVE FALSE
  BY <1>1
<1>5. PICK m \in Bad : \A k \in Bad : m <= k
  <2>1. Bad \in SUBSET Nat
    BY <1>3
  <2> HIDE DEF Bad
  <2> QED
    BY <1>4, <2>1, LeastNat
<1>6. PICK S \in D : ~Good(S) /\ m = Cardinality(S)
  OBVIOUS
<1>7. S # {}
  <2> SUFFICES ASSUME S = {} PROVE FALSE
    OBVIOUS
  <2>1. g[{}] = 0 /\ Cardinality({}) = 0
    BY <1>2, FS_EmptySet DEF IsSum
  <2> QED
    BY <1>6, <2>1
<1>8. PICK k, T : k = (CHOOSE j \in S : TRUE) /\ T = S \ {k}
  OBVIOUS
<1>9. k \in S /\ k \in DOMAIN f /\ T \in D /\ Cardinality(T) = Cardinality(S) - 1
  <2>1. k \in S
    BY <1>7, <1>8
  <2> QED
    BY <1>3, <1>8, <2>1, FS_RemoveElement
<1>10. Good(T)
  <2>1. Cardinality(T) \in Nat /\ m \in Nat /\ ~(m <= Cardinality(T))
    BY <1>3, <1>6, <1>9
  <2>2. ~Good(T) => Cardinality(T) \in Bad
    BY <1>9
  <2> HIDE DEF Good, Bad
  <2> QED
    BY <1>5, <2>1, <2>2
<1>11. g[S] = f[k].size + g[T]
  BY <1>2, <1>7, <1>8 DEF IsSum
<1> QED
  BY <1>3, <1>6, <1>9, <1>10, <1>11

-----------------------------------------------------------------------------
(* The database: what each read method answers                             *)

\* A table of distinct keys has as many rows.
LEMMA RowsCounted ==
    ASSUME NEW f, IsFiniteSet(DOMAIN f)
    PROVE  Cardinality({<<k, f[k]>> : k \in DOMAIN f}) = Cardinality(DOMAIN f)
<1> DEFINE D == DOMAIN f
           T == {<<k, f[k]>> : k \in DOMAIN f}
           b == [k \in D |-> <<k, f[k]>>]
<1>1. b \in [D -> T] /\ (\A k, j \in D : b[k] = b[j] => k = j) /\ \A t \in T : \E k \in D : b[k] = t
  OBVIOUS
<1> HIDE DEF b, T, D
<1>2. b \in Bijection(D, T)
  BY <1>1 DEF Bijection, Injection, Surjection, IsInjective
<1>3. ExistsBijection(D, T)
  BY <1>2 DEF ExistsBijection
<1>4. IsFiniteSet(D)
  BY DEF D
<1>5. Cardinality(T) = Cardinality(D)
  BY <1>3, <1>4, FS_Bijection
<1> QED
  BY <1>5 DEF D, T

LEMMA TablesAnswer ==
    ASSUME DbInv, NEW k \in DbKeys
    PROVE  /\ GetFile(k) = LastWrite("files", k, k)
           /\ GetCacheEntry(k) = LastWrite("cacheEntries", k, k)
           /\ {r \in ListRoutes : r[1] = k} = {<<k, r>> : r \in LastWrite("routes", k, k)}
           /\ {GetStats(k)[m] : m \in DOMAIN GetStats(k)} = LastWrite("stats", k, k)
           /\ {GetBenchmarks("b")[m] : m \in DOMAIN GetBenchmarks("b") \cap {k}} = LastWrite("benchmarks", k, k)
<1>1. GetFile(k) = LastWrite("files", k, k)
  BY DEF DbInv, FileRowsOK, GetFile, RowsAt
<1>2. GetCacheEntry(k) = LastWrite("cacheEntries", k, k)
  BY DEF DbInv, EntryRowsOK, GetCacheEntry, RowsAt
<1>3. {r \in ListRoutes : r[1] = k} = {<<k, r>> : r \in LastWrite("routes", k, k)}
  <2>1. LastWrite("routes", k, k) = {routeRows[j] : j \in DOMAIN routeRows \cap {k}}
    BY DEF DbInv, RouteRowsOK, RowsAt
  <2>2. {r \in ListRoutes : r[1] = k} = {<<j, routeRows[j]>> : j \in DOMAIN routeRows \cap {k}}
    BY DEF ListRoutes
  <2>3. \A x : x \in {<<j, routeRows[j]>> : j \in DOMAIN routeRows \cap {k}}
               <=> x \in {<<k, r>> : r \in {routeRows[j] : j \in DOMAIN routeRows \cap {k}}}
    OBVIOUS
  <2> QED
    BY <2>1, <2>2, <2>3
<1>4. {GetStats(k)[m] : m \in DOMAIN GetStats(k)} = LastWrite("stats", k, k)
  <2>1. statRows \in Seq([of : DbKeys, key : {"m"}, value : DbVals])
    BY DEF DbInv, DbTypes
  <2>0. IsSeq(statRows)
    BY <2>1 DEF IsSeq
  <2>2. \A i \in DOMAIN statRows : statRows[i].key = "m"
    <3>1. \A i \in DOMAIN statRows : statRows[i] \in [of : DbKeys, key : {"m"}, value : DbVals]
      BY <2>1, LenProperties, ElementOfSeq
    <3> QED
      BY <3>1
  <2>3. DOMAIN GetStats(k) \cap {"m"} = DOMAIN GetStats(k)
    <3>1. \A m \in DOMAIN GetStats(k) : \E i \in DOMAIN statRows : statRows[i].of = k /\ statRows[i].key = m
      BY <2>0, LastOfIs DEF GetStats
    <3> QED
      BY <2>2, <3>1
  <2>4. {GetStats(k)[m] : m \in DOMAIN GetStats(k) \cap {"m"}} = LatestRow(statRows, k, "m")
    BY <2>0, LastOfIs DEF GetStats
  <2> QED
    BY <2>3, <2>4 DEF DbInv, StatRowsOK
<1>5. {GetBenchmarks("b")[m] : m \in DOMAIN GetBenchmarks("b") \cap {k}} = LastWrite("benchmarks", k, k)
  <2>1. IsSeq(benchRows)
    BY DEF DbInv, DbTypes, IsSeq
  <2>2. {GetBenchmarks("b")[m] : m \in DOMAIN GetBenchmarks("b") \cap {k}} = LatestRow(benchRows, "b", k)
    BY <2>1, LastOfIs DEF GetBenchmarks
  <2> QED
    BY <2>2 DEF DbInv, BenchRowsOK
<1> QED
  BY <1>1, <1>2, <1>3, <1>4, <1>5

LEMMA DependenciesAnswer ==
    ASSUME DbInv, NEW k \in DbKeys, NEW target \in DbKeys, NEW last,
           last = LastWrite("dependencies", <<k, target, "static">>, k)
    PROVE  /\ {d[2] : d \in {e \in GetDependents(target) : e[1][1] = k}} = last
           /\ {d[2] : d \in {e \in GetDependencies(k) : e[1][2] = target}} = last
<1>1. PICK x : x = <<k, target, "static">>
  OBVIOUS
<1>2. last = {depRows[j] : j \in DOMAIN depRows \cap {x}}
  BY <1>1 DEF DbInv, DepRowsOK, RowsAt
<1>3. \A d \in DOMAIN depRows : d[1] = k /\ d[2] = target <=> d = x
  BY <1>1 DEF DbInv, DbTypes
<1>4. {e \in GetDependents(target) : e[1][1] = k} = {<<d, depRows[d]>> : d \in DOMAIN depRows \cap {x}}
  <2>1. \A e : e \in GetDependents(target) /\ e[1][1] = k
               <=> \E d \in DOMAIN depRows : e = <<d, depRows[d]>> /\ d[2] = target /\ d[1] = k
    BY DEF GetDependents
  <2>2. \A e : e \in {<<d, depRows[d]>> : d \in DOMAIN depRows \cap {x}}
               <=> \E d \in DOMAIN depRows : e = <<d, depRows[d]>> /\ d = x
    OBVIOUS
  <2> QED
    BY <1>3, <2>1, <2>2
<1>5. {e \in GetDependencies(k) : e[1][2] = target} = {<<d, depRows[d]>> : d \in DOMAIN depRows \cap {x}}
  <2>1. \A e : e \in GetDependencies(k) /\ e[1][2] = target
               <=> \E d \in DOMAIN depRows : e = <<d, depRows[d]>> /\ d[2] = target /\ d[1] = k
    BY DEF GetDependencies
  <2>2. \A e : e \in {<<d, depRows[d]>> : d \in DOMAIN depRows \cap {x}}
               <=> \E d \in DOMAIN depRows : e = <<d, depRows[d]>> /\ d = x
    OBVIOUS
  <2> QED
    BY <1>3, <2>1, <2>2
<1>6. PICK E : E = {<<d, depRows[d]>> : d \in DOMAIN depRows \cap {x}}
  OBVIOUS
<1>7. {e[2] : e \in E} = last
  <2>1. \A v : v \in {e[2] : e \in E} <=> \E d \in DOMAIN depRows \cap {x} : v = depRows[d]
    <3>1. \A e : e \in E <=> \E d \in DOMAIN depRows \cap {x} : e = <<d, depRows[d]>>
      BY <1>6
    <3> SUFFICES ASSUME NEW v
                 PROVE  (\E e \in E : v = e[2]) <=> \E d \in DOMAIN depRows \cap {x} : v = depRows[d]
      OBVIOUS
    <3>2. ASSUME NEW e \in E, v = e[2] PROVE \E d \in DOMAIN depRows \cap {x} : v = depRows[d]
      BY <3>1, <3>2
    <3>3. ASSUME NEW d \in DOMAIN depRows \cap {x}, v = depRows[d] PROVE \E e \in E : v = e[2]
      <4>1. <<d, depRows[d]>> \in E /\ <<d, depRows[d]>>[2] = v
        BY <3>1, <3>3
      <4> QED
        BY <4>1
    <3> QED
      BY <3>2, <3>3
  <2> QED
    BY <1>2, <2>1
<1> QED
  BY <1>4, <1>5, <1>6, <1>7

\* Of the builds started, those from one on are the rows from one on.
LEMMA StartedFrom ==
    ASSUME NEW from, StartsAt(from), Len(history) \in Nat, Started \in SUBSET Nat,
           NEW r \in 1 .. Len(history)
    PROVE  Cardinality({n \in Started : n >= from[r]}) = Len(history) - r + 1
<1> DEFINE D == r .. Len(history)
           T == {n \in Started : n >= from[r]}
           b == [q \in D |-> from[q]]
<1>1. \A q \in D : q \in 1 .. Len(history)
  OBVIOUS
<1>2. \A q \in 1 .. Len(history) : from[q] \in Started /\ from[q] \in Nat
  BY DEF StartsAt
<1>3. ASSUME NEW q \in 1 .. Len(history)
      PROVE  from[q] >= from[r] <=> q \in D
  <2>1. (q < r => from[q] < from[r]) /\ (r < q => from[r] < from[q])
    BY DEF StartsAt
  <2>2. from[q] \in Nat /\ from[r] \in Nat
    BY <1>2
  <2>3. CASE q < r
    BY <2>1, <2>2, <2>3
  <2>4. CASE q = r
    BY <2>2, <2>4
  <2>5. CASE r < q
    BY <2>1, <2>2, <2>5
  <2> QED
    BY <2>3, <2>4, <2>5
<1>4. b \in [D -> T]
  BY <1>1, <1>2, <1>3
<1>5. \A q, p \in D : b[q] = b[p] => q = p
  <2> SUFFICES ASSUME NEW q \in D, NEW p \in D, b[q] = b[p] PROVE q = p
    OBVIOUS
  <2>1. from[q] = from[p] /\ from[q] \in Nat
    BY <1>1, <1>2
  <2>2. (q < p => from[q] < from[p]) /\ (p < q => from[p] < from[q])
    BY <1>1 DEF StartsAt
  <2> QED
    BY <2>1, <2>2
<1>6. \A t \in T : \E q \in D : b[q] = t
  <2> SUFFICES ASSUME NEW t \in T PROVE \E q \in D : b[q] = t
    OBVIOUS
  <2>1. PICK q \in 1 .. Len(history) : from[q] = t
    BY DEF StartsAt
  <2>2. q \in D
    BY <1>3, <2>1
  <2> QED
    BY <2>1, <2>2
<1>7. IsFiniteSet(D) /\ Cardinality(D) = Len(history) - r + 1
  BY FS_Interval
<1> HIDE DEF b, T, D
<1>8. b \in Bijection(D, T)
  BY <1>4, <1>5, <1>6 DEF Bijection, Injection, Surjection, IsInjective
<1>9. ExistsBijection(D, T)
  BY <1>8 DEF ExistsBijection
<1>10. Cardinality(T) = Cardinality(D)
  BY <1>7, <1>9, FS_Bijection
<1> QED
  BY <1>7, <1>10 DEF T

LEMMA HistoryAnswers ==
    ASSUME DbInv
    PROVE  HistoryFails(2) <=>
             \E i \in Started : Cardinality({n \in Started : n >= i}) <= 2 /\ ~FinishedAfter(i)
<1>1. PICK from : StartsAt(from)
  BY DEF DbInv, HistoryOK
<1>2. PICK m : m = Len(history)
  OBVIOUS
<1>3. /\ m \in Nat /\ DOMAIN history = 1 .. m /\ Started \in SUBSET Nat
      /\ \A r \in 1 .. m : history[r].finished \in BOOLEAN
  <2>1. Started \in SUBSET Nat
    <3>1. DOMAIN dbLog = 1 .. Len(dbLog)
      BY AnySeq DEF DbInv, DbTypes
    <3> QED
      BY <3>1 DEF Started
  <2> QED
    BY <1>2, <2>1, HistoryFields DEF DbInv
<1>4. ASSUME NEW r \in 1 .. m
      PROVE  (history[r].finished <=> FinishedAfter(from[r])) /\ from[r] \in Started
  BY <1>1, <1>2 DEF StartsAt
<1> DEFINE Late(r) == m - r + 1 <= 2
           Last(i) == Cardinality({n \in Started : n >= i}) <= 2
<1>5. \A r : r \in HistoryWindow(2) <=> r \in 1 .. m /\ Late(r)
  BY <1>2, <1>3 DEF HistoryWindow
<1>6. \A i \in Started : \E r \in 1 .. m : from[r] = i
  BY <1>1, <1>2 DEF StartsAt
<1>7. ASSUME NEW r \in 1 .. m PROVE Last(from[r]) <=> Late(r)
  <2>1. Cardinality({n \in Started : n >= from[r]}) = m - r + 1
    BY <1>1, <1>2, <1>3, StartedFrom
  <2> QED
    BY <2>1
<1> HIDE DEF Late, Last
<1>8. HistoryFails(2) <=> \E r \in 1 .. m : Late(r) /\ ~history[r].finished
  BY <1>5 DEF HistoryFails
<1>9. (\E i \in Started : Last(i) /\ ~FinishedAfter(i)) <=> \E r \in 1 .. m : Late(r) /\ ~history[r].finished
  <2>1. ASSUME NEW i \in Started, Last(i), ~FinishedAfter(i)
        PROVE  \E r \in 1 .. m : Late(r) /\ ~history[r].finished
    <3>1. PICK r \in 1 .. m : from[r] = i
      BY <1>6
    <3>2. Late(r) /\ ~history[r].finished
      BY <1>4, <1>7, <2>1, <3>1
    <3> QED
      BY <3>2
  <2>2. ASSUME NEW r \in 1 .. m, Late(r), ~history[r].finished
        PROVE  \E i \in Started : Last(i) /\ ~FinishedAfter(i)
    <3>1. from[r] \in Started /\ Last(from[r]) /\ ~FinishedAfter(from[r])
      BY <1>4, <1>7, <2>2
    <3> QED
      BY <3>1
  <2> QED
    BY <2>1, <2>2
<1> QED
  BY <1>8, <1>9 DEF Last

LEMMA DbSound == DbInv => DbTypeOK /\ ReadsAnswerTheLastWrite
<1> SUFFICES ASSUME DbInv PROVE DbTypeOK /\ ReadsAnswerTheLastWrite
  OBVIOUS
<1>1. DbTypeOK
  <2>1. \A i \in DOMAIN history : history[i].status \in {"running", "dry-run", "failed", "success"}
    BY HistoryFields DEF DbInv, BuildRow
  <2> QED
    BY <2>1 DEF DbInv, DbTypes, DbTypeOK
<1>2. FileCount = Cardinality(ListFiles)
  BY RowsCounted DEF DbInv, DbTypes, FileCount, ListFiles
<1>3. CacheSize >= CacheCount
  <2>1. IsFiniteSet(DOMAIN cacheEntries) /\ \A k \in DOMAIN cacheEntries : cacheEntries[k].size \in Nat \ {0}
    BY DbAssumption DEF DbInv, DbTypes
  <2> QED
    BY <2>1, SumAtLeast DEF CacheSize, CacheCount
<1> QED
  BY <1>1, <1>2, <1>3, TablesAnswer, DependenciesAnswer, HistoryAnswers DEF ReadsAnswerTheLastWrite

\* For any keys, values and calls: a read method of the database answers what the last
\* write of its key left, whatever was deleted, replaced or purged in between.
THEOREM ReadsAnswerCorrect == DbSpec => [](DbTypeOK /\ ReadsAnswerTheLastWrite)
<1>1. DbSpec => []DbInv
  BY DbInitHolds, DbStep, PTL DEF DbSpec
<1> QED
  BY <1>1, DbSound, PTL

-----------------------------------------------------------------------------
(* The CSS tracker                                                         *)

CssTypes ==
    /\ sheets \in [CssPaths -> Sheets \cup {NoSheet}]
    /\ DOMAIN trackedCss \in SUBSET CssPaths
    /\ \A p \in DOMAIN trackedCss : trackedCss[p].path = p /\ trackedCss[p].tailwind \in BOOLEAN
    /\ walk \in SUBSET CssPaths /\ edits \in 0 .. MaxEdits /\ editedCss \in SUBSET CssPaths

\* What was tracked since its last edit is there as it is; what was never edited is not there.
UpToDate ==
    \A p \in CssPaths \ editedCss :
        /\ p \in DOMAIN trackedCss <=> sheets[p] # NoSheet
        /\ p \in DOMAIN trackedCss => trackedCss[p] = Analyzed(p)

CssInv == CssTypes /\ UpToDate

LEMMA CssInitHolds == CssInit => CssInv
<1> SUFFICES ASSUME CssInit PROVE CssInv
  OBVIOUS
<1>1. /\ sheets = [p \in CssPaths |-> NoSheet] /\ trackedCss = [p \in {} |-> p]
      /\ walk = {} /\ edits = 0 /\ editedCss = {}
  BY DEF CssInit
<1>2. DOMAIN trackedCss = {} /\ 0 \in 0 .. MaxEdits
  BY <1>1, CssAssumption
<1> QED
  BY <1>1, <1>2 DEF CssInv, CssTypes, UpToDate

LEMMA TrackStep ==
    ASSUME CssInv, NEW p \in CssPaths, Track(p), UNCHANGED <<sheets, edits>>
    PROVE  /\ UpToDate' /\ DOMAIN trackedCss' \in SUBSET CssPaths /\ editedCss' \in SUBSET CssPaths
           /\ \A q \in DOMAIN trackedCss' :
                trackedCss'[q].path = q /\ trackedCss'[q].tailwind \in BOOLEAN
<1>1. CASE sheets[p] = NoSheet
  BY <1>1 DEF Track, CssInv, CssTypes, UpToDate, Analyzed
<1>2. CASE sheets[p] # NoSheet
  <2>1. PICK entry : entry = Analyzed(p)
    OBVIOUS
  <2>2. /\ trackedCss' = [q \in DOMAIN trackedCss \cup {p} |->
                            IF q = p THEN entry ELSE trackedCss[q]]
        /\ editedCss' = editedCss \ {p}
    BY <1>2, <2>1 DEF Track
  <2>3. entry.path = p /\ entry.tailwind \in BOOLEAN
    <3>1. sheets[p] \in Sheets
      BY <1>2 DEF CssInv, CssTypes
    <3> QED
      BY <2>1, <3>1, CssAssumption DEF Analyzed
  <2>4. \A q : Analyzed(q)' = Analyzed(q)
    BY DEF Analyzed
  <2>5. DOMAIN trackedCss' = DOMAIN trackedCss \cup {p}
    BY <2>2
  <2>6. \A q \in DOMAIN trackedCss' : trackedCss'[q] = IF q = p THEN entry ELSE trackedCss[q]
    BY <2>2, <2>5
  <2>7. UpToDate'
    <3> SUFFICES ASSUME NEW q \in CssPaths, q \notin editedCss'
                 PROVE  /\ q \in DOMAIN trackedCss' <=> sheets[q] # NoSheet
                        /\ q \in DOMAIN trackedCss' => trackedCss'[q] = Analyzed(q)
      BY <2>4 DEF UpToDate
    <3>1. CASE q = p
      BY <1>2, <2>1, <2>5, <2>6, <3>1
    <3>2. CASE q # p
      BY <2>2, <2>5, <2>6, <3>2 DEF CssInv, UpToDate
    <3> QED
      BY <3>1, <3>2
  <2> QED
    BY <2>2, <2>3, <2>5, <2>6, <2>7 DEF CssInv, CssTypes
<1> QED
  BY <1>1, <1>2

LEMMA CssStep == CssInv /\ [CssNext]_cssVars => CssInv'
<1> SUFFICES ASSUME CssInv, [CssNext]_cssVars PROVE CssInv'
  OBVIOUS
<1>1. CASE UNCHANGED cssVars
  <2>1. \A q : Analyzed(q)' = Analyzed(q)
    BY <1>1 DEF Analyzed, cssVars
  <2> QED
    BY <1>1, <2>1 DEF cssVars, CssInv, CssTypes, UpToDate
<1>2. CASE TrackDirectory
  <2>1. \A q : Analyzed(q)' = Analyzed(q)
    BY <1>2 DEF Analyzed, TrackDirectory
  <2>2. walk' \in SUBSET CssPaths
    BY <1>2 DEF TrackDirectory
  <2> QED
    BY <1>2, <2>1, <2>2 DEF TrackDirectory, CssInv, CssTypes, UpToDate
<1>3. ASSUME NEW p \in CssPaths, EditSheet(p)
      PROVE  CssInv'
  <2>1. PICK sheet \in Sheets \cup {NoSheet} : sheets' = [sheets EXCEPT ![p] = sheet]
    BY <1>3 DEF EditSheet
  <2>2. edits < MaxEdits /\ edits' = edits + 1 /\ editedCss' = editedCss \cup {p}
        /\ UNCHANGED <<trackedCss, walk>>
    BY <1>3 DEF EditSheet
  <2>3. sheets' \in [CssPaths -> Sheets \cup {NoSheet}] /\ \A q \in CssPaths \ {p} : sheets'[q] = sheets[q]
    BY <2>1 DEF CssInv, CssTypes
  <2>4. \A q \in CssPaths \ {p} : Analyzed(q)' = Analyzed(q)
    BY <2>3 DEF Analyzed
  <2>5. edits' \in 0 .. MaxEdits
    BY <2>2, CssAssumption DEF CssInv, CssTypes
  <2>6. UpToDate'
    BY <2>2, <2>3, <2>4 DEF CssInv, UpToDate
  <2> QED
    BY <2>2, <2>3, <2>5, <2>6 DEF CssInv, CssTypes
<1>4. ASSUME NEW p \in CssPaths, TrackFile(p) \/ TrackFound(p)
      PROVE  CssInv'
  <2>1. Track(p) /\ UNCHANGED <<sheets, edits>> /\ walk' \in SUBSET CssPaths
    BY <1>4 DEF TrackFile, TrackFound, CssInv, CssTypes
  <2> QED
    BY <2>1, TrackStep DEF CssInv, CssTypes
<1> QED
  BY <1>1, <1>2, <1>3, <1>4 DEF CssNext

\* The imports the tracker keeps are the relative and package imports of the file.
LEMMA ExtractIs ==
    ASSUME NEW sheet \in Sheets
    PROVE  {ExtractImports(sheet)[n] : n \in DOMAIN ExtractImports(sheet)}
             = {i.target : i \in {j \in {sheet.imports[n] : n \in DOMAIN sheet.imports} :
                                        j.kind # "url"}}
<1> DEFINE places == {n \in DOMAIN sheet.imports : sheet.imports[n].kind # "url"}
<1>1. PICK kept : kept = InOrder(places)
  OBVIOUS
<1>2. /\ places \in SUBSET Nat /\ IsFiniteSet(places)
  <2>1. PICK n \in Nat : DOMAIN sheet.imports = 1 .. n
    BY CssAssumption, Zenon
  <2>2. IsFiniteSet(1 .. n) /\ places \in SUBSET (1 .. n)
    BY <2>1, FS_Interval
  <2> QED
    BY <2>2, FS_Subset
<1>3. \A x : x \in places <=> \E n \in DOMAIN kept : kept[n] = x
  <2> HIDE DEF places
  <2>1. /\ kept \in [1 .. Cardinality(places) -> places]
        /\ \A x \in places : \E n \in 1 .. Cardinality(places) : kept[n] = x
    BY <1>1, <1>2, InOrderIs
  <2>2. DOMAIN kept = 1 .. Cardinality(places)
    BY <2>1
  <2> QED
    BY <2>1, <2>2
<1>4. ExtractImports(sheet) = [n \in DOMAIN kept |-> sheet.imports[kept[n]].target]
  BY <1>1 DEF ExtractImports
<1>5. \A x : (\E n \in DOMAIN kept : sheet.imports[kept[n]].target = x)
             <=> \E n \in places : sheet.imports[n].target = x
  <2> HIDE DEF places
  <2> QED
    BY <1>3
<1>6. {ExtractImports(sheet)[n] : n \in DOMAIN ExtractImports(sheet)}
        = {sheet.imports[kept[n]].target : n \in DOMAIN kept}
  BY <1>4
<1>7. \A x : x \in {i.target : i \in {j \in {sheet.imports[n] : n \in DOMAIN sheet.imports} :
                                       j.kind # "url"}}
             <=> \E n \in places : sheet.imports[n].target = x
  OBVIOUS
<1> HIDE DEF places
<1> QED
  BY ZenonT(60), <1>5, <1>6, <1>7

-----------------------------------------------------------------------------
(* The CSS tracker: the breadth-first search                               *)

IsSearch(f, j, path) ==
    f = [n \in 0 .. j |-> IF n = 0 THEN {path}
                         ELSE f[n - 1] \cup UNION {CssDependents(q) : q \in f[n - 1]}]

LEMMA RoundsExist ==
    ASSUME NEW j \in Nat, NEW path
    PROVE  \E f : IsSearch(f, j, path)
<1> DEFINE E(f, n) == IF n = 0 THEN {path}
                      ELSE f[n - 1] \cup UNION {CssDependents(q) : q \in f[n - 1]}
           Has(m) == \E f : f = [n \in 0 .. m |-> E(f, n)]
           Bad == {m \in 0 .. j : ~Has(m)}
<1>1. SUFFICES ASSUME ~Has(j) PROVE FALSE
  BY DEF IsSearch
<1>2. PICK m \in Bad : \A k \in Bad : m <= k
  <2> HIDE DEF Has
  <2>1. Bad \in SUBSET Nat /\ Bad # {}
    BY <1>1
  <2> HIDE DEF Bad
  <2> QED
    BY <2>1, LeastNat
<1>3. CASE m = 0
  <2> DEFINE g == [n \in 0 .. 0 |-> {path}]
  <2>1. g = [n \in 0 .. 0 |-> E(g, n)]
    OBVIOUS
  <2> HIDE DEF g
  <2>2. Has(0)
    BY <2>1
  <2> HIDE DEF Has
  <2> QED
    BY <1>2, <1>3, <2>2
<1>4. CASE m # 0
  <2>1. m - 1 \in 0 .. j /\ m \in 1 .. j /\ Has(m - 1)
    <3> HIDE DEF Has
    <3> QED
      BY <1>2, <1>4
  <2>2. PICK f : f = [n \in 0 .. (m - 1) |-> E(f, n)]
    BY <2>1
  <2> DEFINE g == [n \in 0 .. m |-> IF n = m THEN E(f, m) ELSE f[n]]
  <2>3. \A n \in 0 .. m : g[n] = E(g, n)
    <3> SUFFICES ASSUME NEW n \in 0 .. m PROVE g[n] = E(g, n)
      OBVIOUS
    <3>1. n # 0 => n - 1 \in 0 .. m /\ n - 1 # m
      BY <2>1
    <3>2. n # 0 => g[n - 1] = f[n - 1]
      BY <3>1
    <3>3. CASE n = m
      BY <3>2, <3>3
    <3>4. CASE n # m
      <4>1. n \in 0 .. (m - 1) /\ g[n] = f[n]
        BY <3>4, <2>1
      <4>2. f[n] = E(f, n)
        BY <2>2, <4>1
      <4> QED
        BY <3>2, <4>1, <4>2
    <3> QED
      BY <3>3, <3>4
  <2>4. g = [n \in 0 .. m |-> E(g, n)]
    BY <2>3
  <2> HIDE DEF g
  <2>5. Has(m)
    BY <2>4
  <2> HIDE DEF Has
  <2> QED
    BY <1>2, <2>5
<1> QED
  BY <1>3, <1>4

\* The rounds see whatever is in each closed set that has the path, and the last has
\* seen a closed set: a round that finds nothing new is the last that would, and
\* otherwise each finds at least one more file.
LEMMA SearchIs ==
    ASSUME NEW path, NEW D, IsFiniteSet(D), DOMAIN trackedCss = D,
           \A q : CssDependents(q) \in SUBSET D
    PROVE  /\ path \in CssAffected(path) /\ CssAffected(path) \in SUBSET (D \cup {path})
           /\ \A q \in CssAffected(path) : CssDependents(q) \in SUBSET CssAffected(path)
           /\ \A s : path \in s /\ (\A q \in s : CssDependents(q) \in SUBSET s)
                        => CssAffected(path) \in SUBSET s
<1>0. PICK N : N = Cardinality(D)
  OBVIOUS
<1>1. N \in Nat
  BY <1>0, FS_CardinalityType
<1> DEFINE Seen[n \in 0 .. N] ==
            IF n = 0 THEN {path}
            ELSE Seen[n - 1] \cup UNION {CssDependents(q) : q \in Seen[n - 1]}
<1>2. CssAffected(path) = Seen[N]
  BY <1>0 DEF CssAffected
<1>3. Seen = [n \in 0 .. N |-> IF n = 0 THEN {path}
                               ELSE Seen[n - 1] \cup UNION {CssDependents(q) : q \in Seen[n - 1]}]
  <2>1. \E f : IsSearch(f, N, path)
    BY <1>1, RoundsExist
  <2> QED
    BY <2>1 DEF IsSearch
<1> HIDE DEF Seen
<1>4. /\ Seen[0] = {path}
      /\ \A n \in 0 .. N : n # 0 => Seen[n] = Seen[n - 1] \cup UNION {CssDependents(q) : q \in Seen[n - 1]}
  <2>1. 0 \in 0 .. N
    BY <1>1
  <2> QED
    BY <1>3, <2>1
<1> DEFINE Closed(s) == \A q \in s : CssDependents(q) \in SUBSET s
           Good(n) == /\ path \in Seen[n] /\ Seen[n] \in SUBSET (D \cup {path})
                      /\ Closed(Seen[n]) \/ n + 1 <= Cardinality(Seen[n])
                      /\ \A s : path \in s /\ Closed(s) => Seen[n] \in SUBSET s
           Bad == {n \in 0 .. N : ~Good(n)}
<1>5. IsFiniteSet(D \cup {path})
  BY FS_AddElement
<1>6. Good(0)
  <2>1. Cardinality({path}) = 1
    BY FS_Singleton
  <2> QED
    BY <1>4, <2>1
<1>7. ASSUME NEW n \in 0 .. N, n # 0, Good(n - 1)
      PROVE  Good(n)
  <2>1. PICK s : s = Seen[n - 1]
    OBVIOUS
  <2>2. PICK t : t = s \cup UNION {CssDependents(q) : q \in s}
    OBVIOUS
  <2>3. Seen[n] = t /\ n - 1 \in 0 .. N /\ (n - 1) + 1 = n
    BY <1>1, <1>4, <1>7, <2>1, <2>2
  <2>4. /\ path \in s /\ s \in SUBSET (D \cup {path})
        /\ Closed(s) \/ n <= Cardinality(s)
        /\ \A x : path \in x /\ Closed(x) => s \in SUBSET x
    BY <1>7, <2>1, <2>3
  <2>5. path \in t /\ s \in SUBSET t /\ t \in SUBSET (D \cup {path})
    BY <2>2, <2>4
  <2>6. ASSUME NEW x, path \in x, Closed(x)
        PROVE  t \in SUBSET x
    BY <2>2, <2>4, <2>6
  <2>7. Closed(t) \/ n + 1 <= Cardinality(t)
    <3>1. CASE Closed(s)
      BY <2>2, <3>1
    <3>2. CASE ~Closed(s)
      <4>1. PICK y \in t : y \notin s
        BY <2>2, <3>2
      <4>2. n <= Cardinality(s) /\ IsFiniteSet(s) /\ IsFiniteSet(t)
        BY <1>5, <2>4, <2>5, <3>2, FS_Subset
      <4>3. Cardinality(s) <= Cardinality(t) /\ Cardinality(s) # Cardinality(t)
        BY <2>5, <4>1, <4>2, FS_Subset
      <4>4. Cardinality(s) \in Nat /\ Cardinality(t) \in Nat
        BY <4>2, FS_CardinalityType
      <4> QED
        BY <4>2, <4>3, <4>4
    <3> QED
      BY <3>1, <3>2
  <2> HIDE DEF Closed
  <2> QED
    BY <2>3, <2>5, <2>6, <2>7
<1> HIDE DEF Good
<1>8. Bad = {}
  <2> SUFFICES ASSUME Bad # {} PROVE FALSE
    OBVIOUS
  <2>1. PICK m \in Bad : \A k \in Bad : m <= k
    <3>1. Bad \in SUBSET Nat
      OBVIOUS
    <3> HIDE DEF Bad
    <3> QED
      BY <3>1, LeastNat
  <2>2. m \in 0 .. N /\ ~Good(m)
    BY <2>1
  <2>3. m # 0
    BY <1>6, <2>2
  <2>4. m - 1 \in 0 .. N /\ m - 1 < m
    BY <1>1, <2>2, <2>3
  <2>5. Good(m - 1)
    BY <2>1, <2>4
  <2> QED
    BY <1>7, <2>2, <2>3, <2>5
<1>9. Good(N)
  BY <1>1, <1>8
<1>10. Closed(Seen[N])
  <2> SUFFICES ASSUME ~Closed(Seen[N]) PROVE FALSE
    OBVIOUS
  <2>1. /\ N + 1 <= Cardinality(Seen[N]) /\ Seen[N] \in SUBSET (D \cup {path})
    BY <1>9 DEF Good
  <2>2. Cardinality(D \cup {path}) <= N + 1
    <3>1. CASE path \in D
      <4>1. D \cup {path} = D
        BY <3>1
      <4>2. Cardinality(D \cup {path}) = N
        BY <1>0, <4>1, Zenon
      <4> QED
        BY <1>1, <4>2
    <3>2. CASE path \notin D
      <4>1. Cardinality(D \cup {path}) = N + 1
        BY <1>0, <3>2, FS_AddElement
      <4> QED
        BY <1>1, <4>1
    <3> QED
      BY <3>1, <3>2
  <2>3. IsFiniteSet(Seen[N]) /\ Cardinality(Seen[N]) <= Cardinality(D \cup {path})
    BY <1>5, <2>1, FS_Subset
  <2>4. Cardinality(Seen[N]) \in Nat /\ Cardinality(D \cup {path}) \in Nat
    BY <1>5, <2>3, FS_CardinalityType
  <2>5. Cardinality(Seen[N]) = Cardinality(D \cup {path})
    BY <1>1, <2>1, <2>2, <2>3, <2>4
  <2>6. Seen[N] = D \cup {path}
    BY <1>5, <2>1, <2>3, <2>5, FS_Subset
  <2> QED
    BY <2>6
<1> QED
  BY <1>2, <1>9, <1>10 DEF Good

LEMMA CssSound == CssInv => CssTypeOK /\ CssExact
<1> SUFFICES ASSUME CssInv PROVE CssTypeOK /\ CssExact
  OBVIOUS
<1>1. CssTypeOK
  BY DEF CssInv, CssTypes, CssTypeOK
<1>2. \A p \in DOMAIN trackedCss \ editedCss : trackedCss[p] = Analyzed(p)
  BY DEF CssInv, CssTypes, UpToDate
<1>3. ASSUME editedCss = {}
      PROVE  /\ \A p \in CssPaths : CssAffected(p) = AffectedOnDisk(p)
             /\ HasTailwind = \E p \in CssPaths : sheets[p] # NoSheet /\ sheets[p].tailwind
             /\ CssStats.files = Cardinality({p \in CssPaths : sheets[p] # NoSheet})
  <2>1. PICK D : D = DOMAIN trackedCss
    OBVIOUS
  <2>2. D = {p \in CssPaths : sheets[p] # NoSheet} /\ D \in SUBSET CssPaths /\ IsFiniteSet(D)
    <3>1. D = {p \in CssPaths : sheets[p] # NoSheet} /\ D \in SUBSET CssPaths
      BY <1>3, <2>1 DEF CssInv, CssTypes, UpToDate
    <3> QED
      BY <3>1, CssAssumption, FS_Subset
  <2>3. \A p \in D : /\ trackedCss[p] = Analyzed(p) /\ trackedCss[p].path = p /\ sheets[p] \in Sheets
                     /\ trackedCss[p].tailwind = sheets[p].tailwind
                     /\ trackedCss[p].imports = ExtractImports(sheets[p])
    <3> SUFFICES ASSUME NEW p \in D
                 PROVE  /\ trackedCss[p] = Analyzed(p) /\ trackedCss[p].path = p /\ sheets[p] \in Sheets
                        /\ trackedCss[p].tailwind = sheets[p].tailwind
                        /\ trackedCss[p].imports = ExtractImports(sheets[p])
      OBVIOUS
    <3>1. trackedCss[p] = Analyzed(p) /\ trackedCss[p].path = p /\ sheets[p] \in Sheets
      BY <1>2, <1>3, <2>1, <2>2 DEF CssInv, CssTypes
    <3> QED
      BY <3>1 DEF Analyzed
  <2>4. \A p \in CssPaths : Imported(p) = ImportsOnDisk(p)
    <3> SUFFICES ASSUME NEW p \in CssPaths PROVE Imported(p) = ImportsOnDisk(p)
      OBVIOUS
    <3>1. CASE p \in D
      <4>1. Imported(p) = {ExtractImports(sheets[p])[n] : n \in DOMAIN ExtractImports(sheets[p])}
        BY <2>1, <2>3, <3>1 DEF Imported
      <4> QED
        BY <2>2, <2>3, <3>1, <4>1, ExtractIs DEF ImportsOnDisk
    <3>2. CASE p \notin D
      BY <2>1, <2>2, <3>2 DEF Imported, ImportsOnDisk
    <3> QED
      BY <3>1, <3>2
  <2>5. \A q : CssDependents(q) = {p \in D : q \in ImportsOnDisk(p)}
    <3> SUFFICES ASSUME NEW q PROVE CssDependents(q) = {p \in D : q \in ImportsOnDisk(p)}
      OBVIOUS
    <3>1. \A x : x \in CssDependents(q) <=> \E p \in D : trackedCss[p].path = x /\ q \in Imported(trackedCss[p].path)
      BY <2>1 DEF CssDependents, ListCss
    <3>2. \A x : x \in CssDependents(q) <=> x \in D /\ q \in Imported(x)
      BY <2>3, <3>1
    <3> QED
      BY <2>2, <2>4, <3>2
  <2>6. \A p \in CssPaths : p \notin D => ImportsOnDisk(p) = {}
    BY <2>2 DEF ImportsOnDisk
  <2>7. ASSUME NEW path \in CssPaths
        PROVE  CssAffected(path) = AffectedOnDisk(path)
    <3>1. PICK a : a = CssAffected(path)
      OBVIOUS
    <3>2. /\ path \in a /\ a \in SUBSET (D \cup {path})
          /\ \A q \in a : CssDependents(q) \in SUBSET a
          /\ \A s : path \in s /\ (\A q \in s : CssDependents(q) \in SUBSET s) => a \in SUBSET s
      <4>1. \A q : CssDependents(q) \in SUBSET D
        BY <2>5
      <4> QED
        BY <2>1, <2>2, <3>1, <4>1, SearchIs
    <3>3. ASSUME NEW s \in SUBSET CssPaths
          PROVE  (\A q \in s : CssDependents(q) \in SUBSET s)
                   <=> (\A x \in CssPaths : ImportsOnDisk(x) \cap s # {} => x \in s)
      <4>1. ASSUME \A q \in s : CssDependents(q) \in SUBSET s,
                   NEW x \in CssPaths, NEW q \in ImportsOnDisk(x) \cap s
            PROVE  x \in s
        <5>1. x \in D
          BY <2>6, <4>1
        <5> QED
          BY <2>5, <4>1, <5>1
      <4>2. ASSUME \A x \in CssPaths : ImportsOnDisk(x) \cap s # {} => x \in s,
                   NEW q \in s, NEW x \in CssDependents(q)
            PROVE  x \in s
        BY <2>2, <2>5, <4>2
      <4> QED
        BY <4>1, <4>2
    <3>4. a \in SUBSET CssPaths
      BY <2>2, <3>2
    <3>5. ASSUME NEW q \in a PROVE q \in AffectedOnDisk(path)
      BY <3>2, <3>3, <3>4 DEF AffectedOnDisk
    <3>6. ASSUME NEW q \in AffectedOnDisk(path) PROVE q \in a
      BY <3>2, <3>3, <3>4 DEF AffectedOnDisk
    <3> QED
      BY <3>1, <3>5, <3>6
  <2>8. HasTailwind = \E p \in CssPaths : sheets[p] # NoSheet /\ sheets[p].tailwind
    <3>1. HasTailwind <=> \E p \in D : trackedCss[p].tailwind
      BY <2>1 DEF HasTailwind, ListCss
    <3>2. HasTailwind <=> \E p \in CssPaths : sheets[p] # NoSheet /\ sheets[p].tailwind
      BY <2>2, <2>3, <3>1
    <3>3. HasTailwind \in BOOLEAN
      BY DEF HasTailwind
    <3> QED
      BY <3>2, <3>3
  <2>9. CssStats.files = Cardinality(D)
    <3>1. CssStats.files = Cardinality(ListCss)
      BY DEF CssStats
    <3>2. PICK f : f = [p \in D |-> trackedCss[p]]
      OBVIOUS
    <3>3. f \in Bijection(D, ListCss)
      <4>1. f \in [D -> ListCss] /\ \A x \in ListCss : \E p \in D : f[p] = x
        BY <2>1, <3>2 DEF ListCss
      <4>2. \A p, q \in D : f[p] = f[q] => p = q
        BY <2>3, <3>2
      <4> QED
        BY <4>1, <4>2 DEF Bijection, Injection, Surjection, IsInjective
    <3>4. Cardinality(ListCss) = Cardinality(D)
      BY <2>2, <3>3, FS_Bijection DEF ExistsBijection
    <3> QED
      BY <3>1, <3>4
  <2> QED
    BY <2>2, <2>7, <2>8, <2>9
<1> QED
  BY <1>1, <1>2, <1>3 DEF CssExact

\* For any files and imports: what Affected answers is what a search through the sheets
\* that were tracked reaches, and each of those is as its file was when it was read.
THEOREM CssExactCorrect == CssSpec => [](CssTypeOK /\ CssExact)
<1> QED
  BY CssInitHolds, CssStep, CssSound, PTL DEF CssSpec

-----------------------------------------------------------------------------
(* The asset optimizer                                                     *)

AssetFile == [path : AssetPaths \ Skipped, type : {AssetKind[p] : p \in AssetPaths},
              size : Nat, hash : Nat]
ResultRec == [path : Nat, hash : Nat, size : Nat, saved : Int]
FileHashes == Contents \cup {Unreadable}
OtherPlaces == {"idle", "check", "read", "store", "group", "told"}
OtherRec == [at : OtherPlaces, next : Nat, held : FileHashes \cup {NotHashed}, told : Seq(Nat)]
TakenJobs == Len(assetFiles) - Len(jobs)

AssetTypes ==
    /\ assetDisk \in [AssetPaths -> Contents \cup {NoAsset, Unreadable}]
    /\ assetFiles \in Seq(AssetFile) /\ toVisit \in Seq(AssetPaths \ Skipped) /\ jobs \in Seq(Nat)
    /\ hashes \in Seq(FileHashes) /\ results \in Seq(ResultRec) /\ Len(hashes) = Len(results)
    /\ applied \in 0 .. Len(assetFiles)
    /\ caller \in {"idle", "scan", "optimize", "apply"} /\ assetCalls \in 0 .. MaxAssetCalls
    /\ other \in OtherRec /\ other.next \in 1 .. Len(assetFiles) + 1 /\ alone \in BOOLEAN
    /\ changedAt \subseteq AssetPaths
    /\ DOMAIN optWorker = OptimizeWorkers

\* The hash h is that of file i, unless it changed since the hashing began.
HashIsOf(h, i) ==
    assetFiles[i].path \notin changedAt => h = HashFile(assetFiles[i].path)

Hashed(i) == assetFiles[i].hash # NotHashed
RightIfHashed(i) == Hashed(i) => HashIsOf(assetFiles[i].hash, i)

Holds(w, i) == optWorker[w] # IdleWorker /\ optWorker[w].idx = i

\* A worker's job is taken, has no result yet, and is no other worker's.
WorkerOK(w) ==
    optWorker[w] # IdleWorker =>
        /\ optWorker[w] \in [at : {"hashed", "stored"}, idx : 1 .. TakenJobs,
                             hash : FileHashes, size : Nat]
        /\ results[optWorker[w].idx] = NoResult
        /\ HashIsOf(optWorker[w].hash, optWorker[w].idx)
        /\ optWorker[w].at = "stored" => hashes[optWorker[w].idx] = optWorker[w].hash
        /\ \A v \in OptimizeWorkers : Holds(v, optWorker[w].idx) => v = w

\* The channel holds the jobs not yet taken, in their order; a taken one has its
\* result or a worker.
WhileRunning ==
    caller = "optimize" =>
        /\ Len(results) = Len(assetFiles) /\ Len(jobs) <= Len(assetFiles)
        /\ \A n \in 1 .. Len(jobs) : jobs[n] = TakenJobs + n
        /\ \A i \in 1 .. Len(assetFiles) :
            results[i] = NoResult => i > TakenJobs \/ \E w \in OptimizeWorkers : Holds(w, i)
        /\ \A i \in 1 .. Len(assetFiles) : i > TakenJobs => results[i] = NoResult
        /\ \A w \in OptimizeWorkers : WorkerOK(w)

\* Nobody works once wg.Wait is over, and every result is there.
WhileNotRunning ==
    caller # "optimize" =>
        /\ jobs = <<>> /\ \A w \in OptimizeWorkers : optWorker[w] = IdleWorker
        /\ Len(results) <= Len(assetFiles)
        /\ \A i \in 1 .. Len(results) : results[i] # NoResult

ResultsOK ==
    \A i \in 1 .. Len(results) :
        results[i] # NoResult =>
            /\ results[i].path = assetFiles[i].path
            /\ results[i].hash = hashes[i]
            /\ HashIsOf(results[i].hash, i)

\* Optimize leaves a hash in every file that had a job; between its calls what the
\* list has is right, whichever goroutine put it there.
AssetListOK ==
    /\ caller = "optimize" => applied = 0
    /\ caller = "apply" => /\ Len(results) = Len(assetFiles)
                           /\ \A i \in 1 .. applied : Hashed(i) /\ RightIfHashed(i)
    /\ caller \in {"idle", "scan"} => /\ \A i \in 1 .. Len(assetFiles) : RightIfHashed(i)
                                      /\ \A i \in 1 .. Len(results) : Hashed(i)

\* What the second goroutine is about to store is right.
OtherOK ==
    /\ other.at \in {"read", "store"} => other.next <= Len(assetFiles)
    /\ other.at = "store" => other.held \in FileHashes /\ HashIsOf(other.held, other.next)
    /\ other.at \in {"idle", "check", "read", "store"} => other.told = <<>>
    /\ caller = "scan" => other.at \in {"idle", "told"}

\* Without an Optimize beside it, it leaves no file without a hash behind.
AloneOK ==
    alone =>
        /\ other.at \in {"check", "read", "store", "group"} => caller = "idle"
        /\ other.at = "told" => caller \in {"idle", "scan"}
        /\ other.at \in {"check", "read", "store"} => \A i \in 1 .. other.next - 1 : Hashed(i)
        /\ other.at = "group" => /\ Len(other.told) = other.next - 1
                                 /\ \A i \in 1 .. Len(assetFiles) : Hashed(i)
        /\ Len(other.told) <= Len(assetFiles)
        /\ \A i \in 1 .. Len(other.told) : HashIsOf(other.told[i], i)

AssetInv ==
    AssetTypes /\ WhileRunning /\ WhileNotRunning /\ ResultsOK /\ AssetListOK /\ OtherOK /\ AloneOK

LEMMA HashFileIs ==
    ASSUME AssetTypes
    PROVE  \A p \in AssetPaths : HashFile(p) \in FileHashes /\ HashedSize(p) \in Nat
<1>1. \A p \in AssetPaths : assetDisk[p] \in Contents \cup {NoAsset, Unreadable}
  BY DEF AssetTypes
<1> QED
  BY <1>1, AssetsAssumption DEF HashFile, HashedSize, FileHashes, NoAsset

LEMMA HashesAreNumbers == FileHashes \in SUBSET (Nat \ {0})
  BY AssetsAssumption DEF FileHashes

LEMMA AssetFields ==
    ASSUME AssetTypes
    PROVE  /\ Len(assetFiles) \in Nat /\ DOMAIN assetFiles = 1 .. Len(assetFiles)
           /\ Len(jobs) \in Nat /\ DOMAIN jobs = 1 .. Len(jobs)
           /\ Len(results) \in Nat /\ DOMAIN results = 1 .. Len(results)
           /\ DOMAIN hashes = 1 .. Len(results)
           /\ \A i \in 1 .. Len(assetFiles) :
                /\ assetFiles[i] \in AssetFile /\ assetFiles[i].path \in AssetPaths \ Skipped
                /\ assetFiles[i].hash \in Nat
           /\ \A i \in 1 .. Len(results) : results[i] \in ResultRec /\ hashes[i] \in FileHashes
<1>1. \A i \in 1 .. Len(assetFiles) : assetFiles[i] \in AssetFile
  BY ElementOfSeq DEF AssetTypes
<1>2. \A i \in 1 .. Len(results) : results[i] \in ResultRec /\ hashes[i] \in FileHashes
  BY ElementOfSeq DEF AssetTypes
<1>3. \A f \in AssetFile : f.path \in AssetPaths \ Skipped /\ f.hash \in Nat
  BY DEF AssetFile
<1> QED
  BY <1>1, <1>2, <1>3, LenProperties DEF AssetTypes

LEMMA OtherFields ==
    ASSUME AssetTypes
    PROVE  /\ other.at \in OtherPlaces /\ other.next \in Nat /\ other.next \in 1 .. Len(assetFiles) + 1
           /\ other.held \in FileHashes \cup {NotHashed} /\ other.told \in Seq(Nat)
           /\ Len(other.told) \in Nat /\ DOMAIN other.told = 1 .. Len(other.told)
<1>1. other \in OtherRec /\ other.next \in 1 .. Len(assetFiles) + 1
  BY DEF AssetTypes
<1>2. other.at \in OtherPlaces /\ other.next \in Nat /\ other.told \in Seq(Nat)
      /\ other.held \in FileHashes \cup {NotHashed}
  BY <1>1 DEF OtherRec
<1> QED
  BY <1>1, <1>2, LenProperties

LEMMA AssetInitHolds == AssetInit => AssetInv
<1> SUFFICES ASSUME AssetInit PROVE AssetInv
  OBVIOUS
<1>1. NoOtherCall \in OtherRec
  <2>1. <<>> \in Seq(Nat)
    OBVIOUS
  <2> QED
    BY <2>1 DEF NoOtherCall, OtherRec, OtherPlaces
<1>2. AssetTypes
  <2>1. /\ assetDisk \in [AssetPaths -> Contents \cup {NoAsset, Unreadable}]
        /\ assetFiles = <<>> /\ toVisit = <<>> /\ jobs = <<>> /\ hashes = <<>> /\ results = <<>>
        /\ applied = 0 /\ caller = "idle" /\ assetCalls = 0 /\ other = NoOtherCall /\ alone = TRUE
        /\ changedAt = {} /\ DOMAIN optWorker = OptimizeWorkers
    BY DEF AssetInit
  <2>2. Len(assetFiles) = 0 /\ Len(hashes) = Len(results) /\ other.next = 1
    BY <2>1 DEF NoOtherCall
  <2> QED
    BY <1>1, <2>1, <2>2, AssetsAssumption DEF AssetTypes
<1>3. WhileRunning /\ WhileNotRunning /\ ResultsOK /\ AssetListOK
  BY DEF AssetInit, WhileRunning, WhileNotRunning, ResultsOK, AssetListOK
<1>4. OtherOK /\ AloneOK
  <2>1. other.at = "idle" /\ other.told = <<>> /\ caller = "idle" /\ Len(assetFiles) = 0
    BY DEF AssetInit, NoOtherCall
  <2> QED
    BY <2>1 DEF OtherOK, AloneOK
<1> QED
  BY <1>2, <1>3, <1>4 DEF AssetInv

\* A call is counted up to the bound.
LEMMA AssetCallCounted ==
    ASSUME AssetTypes, AssetCall
    PROVE  assetCalls' \in 0 .. MaxAssetCalls
  BY AssetsAssumption DEF AssetCall, AssetTypes

LEMMA ChangeAssetStep ==
    ASSUME AssetInv, NEW p \in AssetPaths, ChangeAsset(p)
    PROVE  AssetInv'
<1> USE DEF AssetInv
<1>1. UNCHANGED <<assetFiles, caller, toVisit, jobs, optWorker, hashes, results, applied, other, alone>>
  BY DEF ChangeAsset, optimizeVars, otherVars
<1>2. changedAt' = changedAt \cup {p} /\ assetCalls' \in 0 .. MaxAssetCalls
  BY AssetCallCounted DEF ChangeAsset
<1>3. assetDisk' \in [AssetPaths -> Contents \cup {NoAsset, Unreadable}]
      /\ \A q \in AssetPaths \ {p} : assetDisk'[q] = assetDisk[q]
  BY DEF ChangeAsset, AssetTypes
<1>4. AssetTypes'
  BY <1>1, <1>2, <1>3 DEF AssetTypes
<1>5. ASSUME NEW h, NEW i \in 1 .. Len(assetFiles), HashIsOf(h, i)
      PROVE  HashIsOf(h, i)'
  <2>1. assetFiles[i].path \in AssetPaths
    BY AssetFields
  <2> QED
    BY <1>1, <1>2, <1>3, <1>5, <2>1 DEF HashIsOf, HashFile
<1>6. TakenJobs' = TakenJobs /\ (\A w, i : Holds(w, i)' <=> Holds(w, i))
  BY <1>1 DEF TakenJobs, Holds
<1>7. ResultsOK'
  <2>1. caller = "optimize" => Len(results) <= Len(assetFiles)
    BY AssetFields DEF WhileRunning
  <2>2. Len(results) <= Len(assetFiles)
    BY <2>1 DEF WhileNotRunning
  <2> QED
    BY <1>1, <1>5, <2>2, AssetFields DEF ResultsOK
<1>8. WhileRunning'
  <2>1. ASSUME caller = "optimize", NEW w \in OptimizeWorkers
        PROVE  WorkerOK(w)'
    <3>1. WorkerOK(w) /\ (optWorker[w] # IdleWorker => optWorker[w].idx \in 1 .. Len(assetFiles))
      BY <2>1, AssetFields DEF WhileRunning, WorkerOK, TakenJobs
    <3> QED
      BY <1>1, <1>5, <1>6, <3>1 DEF WorkerOK
  <2> QED
    BY <1>1, <1>6, <2>1 DEF WhileRunning
<1>9. WhileNotRunning'
  BY <1>1 DEF WhileNotRunning
<1>10. \A i \in 1 .. Len(assetFiles) : /\ Hashed(i)' <=> Hashed(i)
                                       /\ RightIfHashed(i) => RightIfHashed(i)'
  BY <1>1, <1>5 DEF Hashed, RightIfHashed
<1>11. AssetListOK'
  <2>1. Len(assetFiles) \in Nat /\ Len(results) \in Nat /\ applied \in 0 .. Len(assetFiles)
    BY AssetFields DEF AssetTypes
  <2>2. caller \in {"idle", "scan"} => Len(results) <= Len(assetFiles)
    BY DEF WhileNotRunning
  <2> QED
    BY <1>1, <1>10, <2>1, <2>2 DEF AssetListOK
<1>12. OtherOK' /\ AloneOK'
  <2>1. Len(assetFiles) \in Nat /\ other.next \in 1 .. Len(assetFiles) + 1 /\ Len(other.told) \in Nat
    BY AssetFields, OtherFields
  <2>2. OtherOK'
    BY <1>1, <1>5, <2>1 DEF OtherOK
  <2>3. AloneOK'
    BY <1>1, <1>5, <1>10, <2>1 DEF AloneOK
  <2> QED
    BY <2>2, <2>3
<1> QED
  BY <1>4, <1>7, <1>8, <1>9, <1>11, <1>12

\* The hashes stay right while neither the disk nor the paths of the list change.
LEMMA HashesStayRight ==
    ASSUME NEW i, UNCHANGED <<assetDisk, changedAt>>, assetFiles'[i].path = assetFiles[i].path
    PROVE  \A h : HashIsOf(h, i)' <=> HashIsOf(h, i)
  BY DEF HashIsOf, HashFile

\* Steps of the first goroutine that touch neither the list nor the results.
LEMMA CallerStep ==
    ASSUME AssetInv, caller \in {"idle", "scan", "apply"}, caller' \in {"idle", "scan"},
           UNCHANGED <<assetDisk, assetFiles, jobs, optWorker, hashes, results, applied, other,
                       alone, changedAt>>,
           toVisit' \in Seq(AssetPaths \ Skipped), assetCalls' \in 0 .. MaxAssetCalls,
           caller = "apply" => applied = Len(assetFiles) /\ caller' = "idle",
           caller' = "scan" => other.at \in {"idle", "told"}
    PROVE  AssetInv'
<1> USE DEF AssetInv
<1>1. AssetTypes'
  BY DEF AssetTypes
<1>2. WhileRunning' /\ WhileNotRunning'
  BY DEF WhileRunning, WhileNotRunning
<1>3. \A i : /\ \A h : HashIsOf(h, i)' <=> HashIsOf(h, i)
             /\ Hashed(i)' <=> Hashed(i)
             /\ RightIfHashed(i)' <=> RightIfHashed(i)
  BY HashesStayRight DEF Hashed, RightIfHashed
<1>4. ResultsOK'
  BY <1>3 DEF ResultsOK
<1>5. AssetListOK'
  BY <1>3 DEF AssetListOK
<1>6. OtherOK'
  BY <1>3 DEF OtherOK
<1>7. AloneOK'
  BY <1>3 DEF AloneOK, OtherOK
<1> QED
  BY <1>1, <1>2, <1>4, <1>5, <1>6, <1>7

LEMMA AssetScanBeginStep ==
    ASSUME AssetInv, AssetScanBegin
    PROVE  AssetInv'
<1> USE DEF AssetInv
<1> DEFINE S == {p \in AssetPaths : p \notin Skipped /\ assetDisk[p] # NoAsset}
<1>1. /\ UNCHANGED <<assetDisk, assetFiles, jobs, optWorker, hashes, results, applied, other,
                     alone, changedAt>>
      /\ caller = "idle" /\ caller' = "scan" /\ other.at \in {"idle", "told"}
      /\ toVisit' = InOrder(S) /\ AssetCall
  BY DEF AssetScanBegin, diskAndFiles, optimizeVars, otherVars
<1>2. S \in SUBSET Nat /\ IsFiniteSet(S) /\ S \in SUBSET (AssetPaths \ Skipped)
  <2>1. S \in SUBSET AssetPaths
    OBVIOUS
  <2> QED
    BY <2>1, AssetsAssumption, FS_Subset
<1> HIDE DEF S
<1>3. toVisit' \in Seq(AssetPaths \ Skipped)
  <2>1. InOrder(S) \in [1 .. Cardinality(S) -> S] /\ Cardinality(S) \in Nat
    BY <1>2, InOrderIs
  <2>2. InOrder(S) \in [1 .. Cardinality(S) -> AssetPaths \ Skipped]
    BY <1>2, <2>1
  <2> QED
    BY <1>1, <2>1, <2>2, FunIsSeq
<1> QED
  BY <1>1, <1>3, AssetCallCounted, CallerStep

LEMMA AssetScanEndStep ==
    ASSUME AssetInv, AssetScanEnd
    PROVE  AssetInv'
<1>1. /\ UNCHANGED <<assetDisk, assetFiles, jobs, optWorker, hashes, results, applied, other,
                     alone, changedAt, toVisit, assetCalls>>
      /\ caller = "scan" /\ caller' = "idle"
  BY DEF AssetScanEnd, diskAndFiles, optimizeVars, otherVars
<1> QED
  BY <1>1, CallerStep DEF AssetInv, AssetTypes

LEMMA OptimizeEndsStep ==
    ASSUME AssetInv, OptimizeEnds
    PROVE  AssetInv'
<1>1. /\ UNCHANGED <<assetDisk, assetFiles, jobs, optWorker, hashes, results, applied, other,
                     alone, changedAt, toVisit, assetCalls>>
      /\ caller = "apply" /\ caller' = "idle" /\ applied = Len(assetFiles)
  BY DEF OptimizeEnds, diskAndFiles, optimizeVars, otherVars
<1> QED
  BY <1>1, CallerStep DEF AssetInv, AssetTypes

LEMMA AssetScanVisitStep ==
    ASSUME AssetInv, AssetScanVisit
    PROVE  AssetInv'
<1> USE DEF AssetInv
<1>0. PICK p, n, f : /\ p = Head(toVisit) /\ n = Len(assetFiles) + 1
                  /\ f = [path |-> p, type |-> AssetKind[p], size |-> assetDisk[p], hash |-> NotHashed]
  OBVIOUS
<1>1. /\ UNCHANGED <<assetDisk, caller, jobs, optWorker, hashes, results, applied, other, alone,
                     assetCalls, changedAt>>
      /\ caller = "scan" /\ toVisit # <<>> /\ toVisit' = Tail(toVisit)
      /\ assetFiles' = IF IsAsset(p) THEN Append(assetFiles, f) ELSE assetFiles
  BY <1>0 DEF AssetScanVisit, optimizeVars, otherVars
<1>2. p \in AssetPaths \ Skipped /\ toVisit' \in Seq(AssetPaths \ Skipped)
  <2>1. toVisit \in Seq(AssetPaths \ Skipped)
    BY DEF AssetTypes
  <2> QED
    BY <1>0, <1>1, <2>1, HeadTailProperties
<1>3. CASE ~IsAsset(p)
  <2>1. assetCalls \in 0 .. MaxAssetCalls /\ other.at \in {"idle", "told"}
    BY <1>1 DEF AssetTypes, OtherOK
  <2> QED
    BY <1>1, <1>2, <1>3, <2>1, CallerStep
<1>4. CASE IsAsset(p)
  <2>1. f \in AssetFile
    <3>1. assetDisk[p] \in Contents \cup {NoAsset, Unreadable}
      BY <1>2 DEF AssetTypes
    <3>2. Contents \cup {NoAsset, Unreadable} \in SUBSET Nat
      BY AssetsAssumption DEF NoAsset
    <3>3. assetDisk[p] \in Nat
      BY <3>1, <3>2
    <3> QED
      BY <1>0, <1>2, <3>3 DEF AssetFile, NotHashed
  <2>2. /\ assetFiles' \in Seq(AssetFile) /\ Len(assetFiles') = Len(assetFiles) + 1
        /\ Len(assetFiles) \in Nat
        /\ \A i \in 1 .. Len(assetFiles) : assetFiles'[i] = assetFiles[i]
        /\ assetFiles'[Len(assetFiles) + 1] = f
    <3>1. assetFiles \in Seq(AssetFile) /\ assetFiles' = Append(assetFiles, f)
      BY <1>1, <1>4 DEF AssetTypes
    <3> QED
      BY <2>1, <3>1, AppendProperties, AssetFields
  <2>3. /\ Len(results) \in Nat /\ Len(results) <= Len(assetFiles)
        /\ applied \in 0 .. Len(assetFiles) /\ other.next \in 1 .. Len(assetFiles) + 1
        /\ Len(other.told) \in Nat /\ other.at \in {"idle", "told"}
    BY <1>1, AssetFields, OtherFields DEF WhileNotRunning, AssetTypes, OtherOK
  <2>4. AssetTypes'
    <3>1. applied \in 0 .. Len(assetFiles') /\ other.next \in 1 .. Len(assetFiles') + 1
      BY <2>2, <2>3
    <3> QED
      BY <1>1, <1>2, <2>2, <3>1 DEF AssetTypes
  <2>5. \A i \in 1 .. Len(assetFiles) : /\ \A h : HashIsOf(h, i)' <=> HashIsOf(h, i)
                                        /\ Hashed(i)' <=> Hashed(i)
                                        /\ RightIfHashed(i)' <=> RightIfHashed(i)
    BY <1>1, <2>2, HashesStayRight DEF Hashed, RightIfHashed
  <2>6. WhileRunning' /\ WhileNotRunning'
    <3>1. Len(results) <= Len(assetFiles')
      BY <2>2, <2>3
    <3> QED
      BY <1>1, <3>1 DEF WhileRunning, WhileNotRunning
  <2>7. \A i \in 1 .. Len(results) : i \in 1 .. Len(assetFiles)
    BY <2>2, <2>3
  <2>8. ResultsOK'
    BY <1>1, <2>2, <2>5, <2>7 DEF ResultsOK
  <2>9. AssetListOK'
    <3>1. ~Hashed(n)'
      BY <1>0, <2>2 DEF Hashed
    <3>2. \A i \in 1 .. Len(assetFiles') : i \in 1 .. Len(assetFiles) \/ i = n
      BY <1>0, <2>2
    <3>3. \A i \in 1 .. Len(assetFiles') : RightIfHashed(i)'
      <4>1. RightIfHashed(n)'
        BY <3>1 DEF RightIfHashed, Hashed
      <4>2. \A i \in 1 .. Len(assetFiles) : RightIfHashed(i)'
        BY <1>1, <2>5 DEF AssetListOK
      <4> QED
        BY <3>2, <4>1, <4>2
    <3>4. \A i \in 1 .. Len(results') : Hashed(i)'
      BY <1>1, <2>5, <2>7 DEF AssetListOK
    <3> QED
      BY <1>1, <3>3, <3>4 DEF AssetListOK
  <2>10. OtherOK'
    BY <1>1, <2>3 DEF OtherOK
  <2>11. AloneOK'
    <3>1. SUFFICES ASSUME alone PROVE AloneOK'
      BY <1>1 DEF AloneOK
    <3>2. Len(other.told) <= Len(assetFiles) /\ \A i \in 1 .. Len(other.told) : HashIsOf(other.told[i], i)
      BY <3>1 DEF AloneOK
    <3>3. Len(other.told) <= Len(assetFiles') /\ \A i \in 1 .. Len(other.told) : i \in 1 .. Len(assetFiles)
      BY <2>2, <2>3, <3>2
    <3>4. \A i \in 1 .. Len(other.told) : HashIsOf(other.told[i], i)'
      BY <1>1, <2>5, <3>2, <3>3
    <3> QED
      BY <1>1, <2>3, <3>3, <3>4 DEF AloneOK
  <2> QED
    BY <2>4, <2>6, <2>8, <2>9, <2>10, <2>11
<1> QED
  BY <1>3, <1>4

LEMMA OptimizeBeginStep ==
    ASSUME AssetInv, OptimizeBegin
    PROVE  AssetInv'
<1> USE DEF AssetInv
<1> DEFINE N == Len(assetFiles)
<1>1. /\ UNCHANGED <<assetDisk, assetFiles, toVisit, optWorker, other>>
      /\ caller = "idle" /\ caller' = "optimize" /\ applied' = 0 /\ alone' = FALSE
      /\ jobs' = [i \in 1 .. N |-> i]
      /\ hashes' = [i \in 1 .. N |-> Unreadable]
      /\ results' = [i \in 1 .. N |-> NoResult]
      /\ changedAt' = IF other.at = "store" THEN changedAt \cap {assetFiles[other.next].path} ELSE {}
      /\ AssetCall
  BY AssetFields DEF OptimizeBegin, diskAndFiles
<1>2. N \in Nat
  BY AssetFields
<1> HIDE DEF N
<1>3. jobs' \in Seq(Nat) /\ Len(jobs') = N
  <2>1. jobs' \in [1 .. N -> Nat]
    BY <1>1, <1>2
  <2> QED
    BY <1>2, <2>1, FunIsSeq
<1>4. hashes' \in Seq(FileHashes) /\ Len(hashes') = N
  <2>1. hashes' \in [1 .. N -> FileHashes]
    BY <1>1, <1>2 DEF FileHashes
  <2> QED
    BY <1>2, <2>1, FunIsSeq
<1>5. results' \in Seq(ResultRec) /\ Len(results') = N
  <2>1. NoResult \in ResultRec
    BY DEF NoResult, ResultRec, NotHashed
  <2>2. results' \in [1 .. N -> ResultRec]
    BY <1>1, <1>2, <2>1
  <2> QED
    BY <1>2, <2>2, FunIsSeq
<1>6. AssetTypes'
  <2>1. assetCalls' \in 0 .. MaxAssetCalls
    BY <1>1, AssetCallCounted
  <2>2. changedAt' \subseteq AssetPaths /\ applied' \in 0 .. N
    BY <1>1, <1>2 DEF AssetTypes
  <2> QED
    BY <1>1, <1>3, <1>4, <1>5, <2>1, <2>2 DEF AssetTypes, N
<1>7. WhileRunning'
  <2>1. TakenJobs' = 0 /\ Len(assetFiles') = N
    BY <1>1, <1>2, <1>3 DEF TakenJobs, N
  <2>2. \A w \in OptimizeWorkers : optWorker'[w] = IdleWorker
    BY <1>1 DEF WhileNotRunning
  <2> QED
    BY <1>1, <1>2, <1>3, <1>5, <2>1, <2>2 DEF WhileRunning, WorkerOK
<1>8. ResultsOK' /\ WhileNotRunning' /\ AssetListOK' /\ AloneOK'
  BY <1>1, <1>5 DEF ResultsOK, WhileNotRunning, AssetListOK, AloneOK
<1>9. OtherOK'
  <2>1. ASSUME other.at = "store"
        PROVE  HashIsOf(other.held, other.next)'
    BY <1>1, <2>1 DEF OtherOK, HashIsOf, HashFile
  <2> QED
    BY <1>1, <2>1 DEF OtherOK
<1> QED
  BY <1>6, <1>7, <1>8, <1>9

\* While the goroutines of Optimize run there is a job or a result for each file.
LEMMA WorkingFacts ==
    ASSUME AssetInv, caller = "optimize"
    PROVE  /\ Len(assetFiles) \in Nat /\ Len(jobs) \in Nat /\ TakenJobs \in Nat
           /\ Len(results) = Len(assetFiles) /\ Len(hashes) = Len(assetFiles)
           /\ TakenJobs <= Len(assetFiles) /\ TakenJobs + Len(jobs) = Len(assetFiles)
           /\ \A w \in OptimizeWorkers : optWorker[w] # IdleWorker =>
                /\ optWorker[w].idx \in 1 .. TakenJobs /\ optWorker[w].idx \in 1 .. Len(assetFiles)
                /\ optWorker[w].hash \in FileHashes
<1>1. /\ Len(assetFiles) \in Nat /\ Len(jobs) \in Nat /\ Len(jobs) <= Len(assetFiles)
      /\ Len(results) = Len(assetFiles) /\ Len(hashes) = Len(assetFiles)
  BY AssetFields DEF AssetInv, AssetTypes, WhileRunning
<1>2. TakenJobs \in Nat /\ TakenJobs <= Len(assetFiles) /\ TakenJobs + Len(jobs) = Len(assetFiles)
  BY <1>1 DEF TakenJobs
<1>3. \A w \in OptimizeWorkers : optWorker[w] # IdleWorker =>
                optWorker[w].idx \in 1 .. TakenJobs /\ optWorker[w].hash \in FileHashes
  BY DEF AssetInv, WhileRunning, WorkerOK
<1> QED
  BY <1>1, <1>2, <1>3

LEMMA IdleIsFree == \A r : r.at # "free" => r # IdleWorker
  BY DEF IdleWorker

\* What Optimize does is nothing to the second goroutine, whose call it is beside.
LEMMA BesideOptimize ==
    ASSUME AssetInv, {caller, caller'} \subseteq {"optimize", "apply"},
           UNCHANGED <<assetDisk, other, alone, changedAt>>, Len(assetFiles') = Len(assetFiles),
           \A k \in 1 .. Len(assetFiles) : assetFiles'[k].path = assetFiles[k].path
    PROVE  OtherOK' /\ AloneOK'
<1> USE DEF AssetInv
<1>1. /\ Len(assetFiles) \in Nat /\ other.next \in Nat /\ other.next >= 1
      /\ other.at \in OtherPlaces /\ Len(other.told) \in Nat
  BY AssetFields, OtherFields
<1>2. OtherOK'
  <2>1. other.at = "store" => /\ other.next \in 1 .. Len(assetFiles) /\ other.held \in FileHashes
                              /\ HashIsOf(other.held, other.next)
    BY <1>1 DEF OtherOK
  <2>2. other.at = "store" => HashIsOf(other.held, other.next)'
    BY <2>1, HashesStayRight
  <2> QED
    BY <2>1, <2>2 DEF OtherOK
<1>3. AloneOK'
  <2>1. SUFFICES ASSUME alone PROVE AloneOK'
    BY DEF AloneOK
  <2>2. other.at = "idle"
    BY <1>1, <2>1 DEF AloneOK, OtherPlaces
  <2>3. other.told = <<>>
    BY <2>2 DEF OtherOK
  <2>4. Len(other.told) = 0
    BY <2>3
  <2> QED
    BY <1>1, <2>2, <2>4 DEF AloneOK
<1> QED
  BY <1>2, <1>3

LEMMA WorkersKeepTheRest ==
    ASSUME AssetInv, caller = "optimize", Len(assetFiles') = Len(assetFiles),
           UNCHANGED <<assetDisk, caller, toVisit, applied, other, alone, assetCalls, changedAt>>,
           \A k \in 1 .. Len(assetFiles) : assetFiles'[k].path = assetFiles[k].path
    PROVE  AssetListOK' /\ OtherOK' /\ AloneOK' /\ WhileNotRunning'
<1>1. AssetListOK' /\ WhileNotRunning'
  BY DEF AssetInv, AssetListOK, WhileNotRunning
<1> QED
  BY <1>1, BesideOptimize

LEMMA WorkerHashesStep ==
    ASSUME AssetInv, NEW w \in OptimizeWorkers, WorkerHashes(w)
    PROVE  AssetInv'
<1> USE DEF AssetInv
<1>0. PICK i, job :
        /\ i = Head(jobs)
        /\ job = [at |-> "hashed", idx |-> i, hash |-> HashFile(assetFiles[i].path),
                  size |-> HashedSize(assetFiles[i].path)]
  OBVIOUS
<1>1. /\ UNCHANGED <<assetDisk, assetFiles, hashes, results, caller, toVisit, applied, other, alone, assetCalls,
                     changedAt>>
      /\ optWorker[w] = IdleWorker /\ jobs # <<>> /\ jobs' = Tail(jobs)
      /\ optWorker' = [optWorker EXCEPT ![w] = job]
  BY <1>0 DEF WorkerHashes, diskAndFiles, otherVars
<1>2. caller = "optimize"
  BY <1>1 DEF WhileNotRunning
<1>3. /\ jobs' \in Seq(Nat) /\ Len(jobs) > 0 /\ Len(jobs') = Len(jobs) - 1 /\ i = jobs[1]
      /\ \A n \in 1 .. Len(jobs') : jobs'[n] = jobs[n + 1]
  BY <1>0, <1>1, HeadTailProperties, AssetFields DEF AssetTypes
<1>4. /\ TakenJobs' = TakenJobs + 1 /\ i = TakenJobs + 1 /\ i \in 1 .. Len(assetFiles)
      /\ TakenJobs \in Nat /\ Len(jobs) \in Nat
  <2>1. Len(jobs) \in Nat /\ Len(assetFiles) \in Nat /\ TakenJobs \in Nat
        /\ TakenJobs + Len(jobs) = Len(assetFiles)
    BY <1>2, WorkingFacts
  <2>2. jobs[1] = TakenJobs + 1
    BY <1>2, <1>3, <2>1 DEF WhileRunning
  <2>3. TakenJobs' = TakenJobs + 1
    BY <1>1, <1>3, <2>1 DEF TakenJobs
  <2> QED
    BY <1>3, <2>1, <2>2, <2>3
<1>5. job \in [at : {"hashed", "stored"}, idx : 1 .. TakenJobs', hash : FileHashes, size : Nat]
      /\ job # IdleWorker
  <2>1. assetFiles[i].path \in AssetPaths
    BY <1>4, AssetFields
  <2>2. HashFile(assetFiles[i].path) \in FileHashes /\ HashedSize(assetFiles[i].path) \in Nat
    BY <2>1, HashFileIs
  <2>3. i \in 1 .. TakenJobs'
    BY <1>4
  <2> QED
    BY <1>0, <2>2, <2>3, IdleIsFree
<1>6. \A v \in OptimizeWorkers : optWorker'[v] = IF v = w THEN job ELSE optWorker[v]
  BY <1>1 DEF AssetTypes
<1>7. AssetTypes'
  BY <1>1, <1>3 DEF AssetTypes
<1>8. \A v \in OptimizeWorkers : ~Holds(v, i)
  BY <1>2, <1>4, WorkingFacts DEF Holds
<1>9. results[i] = NoResult
  BY <1>2, <1>4 DEF WhileRunning
<1>10. WhileRunning'
  <2>1. \A n \in 1 .. Len(jobs') : jobs'[n] = TakenJobs' + n
    <3>1. \A n \in 1 .. Len(jobs') : n + 1 \in 1 .. Len(jobs) /\ jobs[n + 1] = TakenJobs + (n + 1)
      BY <1>2, <1>3, <1>4 DEF WhileRunning
    <3> QED
      BY <1>3, <1>4, <3>1
  <2>2. \A v \in OptimizeWorkers : \A k : Holds(v, k)' <=> IF v = w THEN k = i ELSE Holds(v, k)
    BY <1>0, <1>5, <1>6 DEF Holds
  <2>3. ASSUME NEW k \in 1 .. Len(assetFiles), results[k] = NoResult
        PROVE  k > TakenJobs' \/ \E v \in OptimizeWorkers : Holds(v, k)'
    <3>1. CASE k = i
      BY <2>2, <3>1
    <3>2. CASE k # i /\ k > TakenJobs
      BY <1>4, <3>2
    <3>3. CASE k # i /\ ~(k > TakenJobs)
      <4>1. PICK v \in OptimizeWorkers : Holds(v, k)
        BY <1>2, <2>3, <3>3 DEF WhileRunning
      <4>2. v # w
        BY <1>1, <4>1 DEF Holds
      <4> QED
        BY <2>2, <4>1, <4>2
    <3> QED
      BY <3>1, <3>2, <3>3
  <2>4. \A k \in 1 .. Len(assetFiles) : k > TakenJobs' => results[k] = NoResult
    BY <1>2, <1>4 DEF WhileRunning
  <2>5. ASSUME NEW v \in OptimizeWorkers PROVE WorkerOK(v)'
    <3>1. CASE v = w
      <4>1. HashIsOf(job.hash, job.idx)'
        BY <1>0, <1>1 DEF HashIsOf, HashFile
      <4>2. \A u \in OptimizeWorkers : Holds(u, i)' => u = v
        BY <1>8, <2>2, <3>1
      <4> QED
        BY <1>0, <1>1, <1>5, <1>6, <1>9, <3>1, <4>1, <4>2 DEF WorkerOK
    <3>2. CASE v # w /\ optWorker[v] # IdleWorker
      <4>1. WorkerOK(v) /\ optWorker'[v] = optWorker[v]
        BY <1>2, <1>6, <3>2 DEF WhileRunning
      <4>2. /\ optWorker[v] \in [at : {"hashed", "stored"}, idx : 1 .. TakenJobs,
                                 hash : FileHashes, size : Nat]
            /\ optWorker[v].idx \in 1 .. TakenJobs
        BY <3>2, <4>1 DEF WorkerOK
      <4>3. optWorker[v] \in [at : {"hashed", "stored"}, idx : 1 .. TakenJobs',
                              hash : FileHashes, size : Nat]
        BY <1>4, <4>2
      <4>4. HashIsOf(optWorker[v].hash, optWorker[v].idx)'
        BY <1>1, <3>2, <4>1 DEF WorkerOK, HashIsOf, HashFile
      <4>5. \A u \in OptimizeWorkers : Holds(u, optWorker[v].idx)' => u = v
        BY <1>4, <2>2, <3>2, <4>1, <4>2 DEF WorkerOK
      <4> QED
        BY <1>1, <3>2, <4>1, <4>3, <4>4, <4>5 DEF WorkerOK
    <3>3. CASE v # w /\ optWorker[v] = IdleWorker
      BY <1>6, <3>3 DEF WorkerOK
    <3> QED
      BY <3>1, <3>2, <3>3
  <2>6. Len(results') = Len(assetFiles') /\ Len(jobs') <= Len(assetFiles')
    BY <1>1, <1>2, <1>3, <1>4, WorkingFacts
  <2> QED
    BY <1>1, <2>1, <2>3, <2>4, <2>5, <2>6 DEF WhileRunning
<1>11. ResultsOK'
  BY <1>1 DEF ResultsOK, HashIsOf, HashFile
<1>12. AssetListOK' /\ OtherOK' /\ AloneOK' /\ WhileNotRunning'
  BY <1>1, <1>2, WorkersKeepTheRest
<1> QED
  BY <1>7, <1>10, <1>11, <1>12

LEMMA WorkerStoresHashStep ==
    ASSUME AssetInv, NEW w \in OptimizeWorkers, WorkerStoresHash(w)
    PROVE  AssetInv'
<1> USE DEF AssetInv
<1>0. PICK i, h : i = optWorker[w].idx /\ h = optWorker[w].hash
  OBVIOUS
<1>1. /\ UNCHANGED <<assetDisk, assetFiles, jobs, results, caller, toVisit, applied, other, alone, assetCalls,
                     changedAt>>
      /\ optWorker[w].at = "hashed" /\ hashes' = [hashes EXCEPT ![i] = h]
      /\ optWorker' = [optWorker EXCEPT ![w].at = "stored"]
  BY <1>0 DEF WorkerStoresHash, diskAndFiles, otherVars
<1>2. optWorker[w] # IdleWorker
  BY <1>1, IdleIsFree
<1>3. caller = "optimize"
  BY <1>2 DEF WhileNotRunning
<1>4. /\ i \in 1 .. TakenJobs /\ i \in 1 .. Len(hashes) /\ i \in 1 .. Len(results) /\ h \in FileHashes
      /\ Len(assetFiles) = Len(results) /\ TakenJobs \in Nat /\ TakenJobs <= Len(results)
  BY <1>0, <1>2, <1>3, WorkingFacts
<1>5. /\ hashes' \in Seq(FileHashes) /\ Len(hashes') = Len(hashes)
      /\ \A k \in 1 .. Len(hashes) : hashes'[k] = IF k = i THEN h ELSE hashes[k]
  BY <1>1, <1>4, ExceptSeq DEF AssetTypes
<1>6. AssetTypes'
  BY <1>1, <1>5 DEF AssetTypes
<1>7. /\ WorkerOK(w) /\ results[i] = NoResult
      /\ optWorker[w] \in [at : {"hashed", "stored"}, idx : 1 .. TakenJobs, hash : FileHashes, size : Nat]
  BY <1>0, <1>2, <1>3 DEF WhileRunning, WorkerOK
<1>8. \A v \in OptimizeWorkers :
        /\ v # w => optWorker'[v] = optWorker[v]
        /\ v = w => /\ optWorker'[v].at = "stored" /\ optWorker'[v].idx = i /\ optWorker'[v].hash = h
                    /\ optWorker'[v].size = optWorker[v].size
  BY <1>0, <1>1, <1>7 DEF AssetTypes
<1>9. optWorker'[w] \in [at : {"hashed", "stored"}, idx : 1 .. TakenJobs, hash : FileHashes, size : Nat]
      /\ optWorker'[w] # IdleWorker
  <2>1. optWorker'[w] = [optWorker[w] EXCEPT !.at = "stored"]
    BY <1>1 DEF AssetTypes
  <2> QED
    BY <1>7, <1>8, <2>1, IdleIsFree
<1>10. TakenJobs' = TakenJobs /\ \A v \in OptimizeWorkers : \A k : Holds(v, k)' <=> Holds(v, k)
  <2>1. TakenJobs' = TakenJobs
    BY <1>1 DEF TakenJobs
  <2> QED
    BY <1>0, <1>2, <1>8, <1>9, <2>1 DEF Holds
<1>11. \A g, k : HashIsOf(g, k)' <=> HashIsOf(g, k)
  BY <1>1 DEF HashIsOf, HashFile
<1>12. ASSUME NEW v \in OptimizeWorkers PROVE WorkerOK(v)'
  <2>1. CASE v = w
    <3>1. HashIsOf(h, i) /\ \A u \in OptimizeWorkers : Holds(u, i) => u = w
      BY <1>0, <1>2, <1>7 DEF WorkerOK
    <3>2. hashes'[i] = h
      BY <1>4, <1>5
    <3> QED
      BY <1>1, <1>7, <1>8, <1>9, <1>10, <1>11, <2>1, <3>1, <3>2 DEF WorkerOK
  <2>2. CASE v # w /\ optWorker[v] # IdleWorker
    <3>1. WorkerOK(v) /\ optWorker'[v] = optWorker[v]
      BY <1>3, <1>8, <2>2 DEF WhileRunning
    <3>2. optWorker[v].idx # i /\ optWorker[v].idx \in 1 .. Len(hashes)
      <4>1. ~Holds(v, i)
        BY <1>0, <1>2, <1>7, <2>2 DEF WorkerOK
      <4> QED
        BY <1>3, <2>2, <4>1, WorkingFacts DEF Holds
    <3> QED
      BY <1>1, <1>5, <1>10, <1>11, <2>2, <3>1, <3>2 DEF WorkerOK
  <2>3. CASE v # w /\ optWorker[v] = IdleWorker
    BY <1>8, <2>3 DEF WorkerOK
  <2> QED
    BY <2>1, <2>2, <2>3
<1>13. WhileRunning'
  BY <1>1, <1>10, <1>12 DEF WhileRunning
<1>14. ResultsOK'
  BY <1>1, <1>4, <1>5, <1>7, <1>11 DEF ResultsOK, AssetTypes
<1>15. AssetListOK' /\ OtherOK' /\ AloneOK' /\ WhileNotRunning'
  BY <1>1, <1>3, WorkersKeepTheRest
<1> QED
  BY <1>6, <1>13, <1>14, <1>15

LEMMA WorkerStoresResultStep ==
    ASSUME AssetInv, NEW w \in OptimizeWorkers, WorkerStoresResult(w)
    PROVE  AssetInv'
<1> USE DEF AssetInv
<1>0. PICK i, h, r : /\ i = optWorker[w].idx /\ h = optWorker[w].hash
                     /\ r = [path |-> assetFiles[i].path, hash |-> h, size |-> assetFiles[i].size,
                             saved |-> assetFiles[i].size - optWorker[w].size]
  OBVIOUS
<1>1. /\ UNCHANGED <<assetDisk, jobs, hashes, caller, toVisit, applied, other, alone, assetCalls,
                     changedAt>>
      /\ optWorker[w].at = "stored"
      /\ assetFiles' = [assetFiles EXCEPT ![i].hash = NotHashed]
      /\ results' = [results EXCEPT ![i] = r]
      /\ optWorker' = [optWorker EXCEPT ![w] = IdleWorker]
  BY <1>0 DEF WorkerStoresResult, otherVars
<1>2. optWorker[w] # IdleWorker
  BY <1>1, IdleIsFree
<1>3. caller = "optimize"
  BY <1>2 DEF WhileNotRunning
<1>4. /\ i \in 1 .. TakenJobs /\ i \in 1 .. Len(results) /\ i \in 1 .. Len(assetFiles) /\ h \in FileHashes
      /\ Len(assetFiles) = Len(results) /\ TakenJobs \in Nat /\ TakenJobs <= Len(results)
      /\ Len(results) \in Nat
  BY <1>0, <1>2, <1>3, WorkingFacts
<1>5. /\ WorkerOK(w) /\ results[i] = NoResult /\ hashes[i] = h /\ optWorker[w].size \in Nat
      /\ HashIsOf(h, i)
      /\ \A v \in OptimizeWorkers : Holds(v, i) => v = w
  <2>1. WorkerOK(w)
    BY <1>3 DEF WhileRunning
  <2>2. optWorker[w] \in [at : {"hashed", "stored"}, idx : 1 .. TakenJobs, hash : FileHashes, size : Nat]
    BY <1>2, <2>1 DEF WorkerOK
  <2> QED
    BY <1>0, <1>1, <1>2, <2>1, <2>2 DEF WorkerOK
<1>6. assetFiles[i] \in AssetFile /\ assetFiles[i].path \in AssetPaths /\ assetFiles[i].size \in Nat
  <2>1. assetFiles[i] \in AssetFile
    BY <1>4, AssetFields
  <2> QED
    BY <2>1 DEF AssetFile
<1>7. r \in ResultRec /\ r # NoResult /\ r.path = assetFiles[i].path /\ r.hash = h
  <2>1. assetFiles[i].path \in Nat /\ assetFiles[i].path # 0 /\ h \in Nat
    BY <1>4, <1>6, AssetsAssumption, HashesAreNumbers
  <2>2. assetFiles[i].size - optWorker[w].size \in Int
    BY <1>5, <1>6
  <2>3. r \in ResultRec /\ r.path = assetFiles[i].path /\ r.hash = h
    BY <1>0, <1>6, <2>1, <2>2 DEF ResultRec
  <2> QED
    BY <2>1, <2>3 DEF NoResult
<1>8. /\ results' \in Seq(ResultRec) /\ Len(results') = Len(results)
      /\ \A k \in 1 .. Len(results) : results'[k] = IF k = i THEN r ELSE results[k]
  BY <1>1, <1>4, <1>7, ExceptSeq DEF AssetTypes
<1>9. /\ assetFiles' \in Seq(AssetFile) /\ Len(assetFiles') = Len(assetFiles)
      /\ \A k \in 1 .. Len(assetFiles) : assetFiles'[k].path = assetFiles[k].path
  <2> DEFINE f == [assetFiles[i] EXCEPT !.hash = NotHashed]
  <2>1. f \in AssetFile /\ f.path = assetFiles[i].path
    BY <1>6 DEF AssetFile, NotHashed
  <2>2. assetFiles' = [assetFiles EXCEPT ![i] = f]
    BY <1>1
  <2> HIDE DEF f
  <2>3. /\ assetFiles' \in Seq(AssetFile) /\ Len(assetFiles') = Len(assetFiles)
        /\ \A k \in 1 .. Len(assetFiles) : assetFiles'[k] = IF k = i THEN f ELSE assetFiles[k]
    BY <1>4, <2>1, <2>2, ExceptSeq DEF AssetTypes
  <2> QED
    BY <2>1, <2>3
<1>10. AssetTypes'
  BY <1>1, <1>8, <1>9 DEF AssetTypes
<1>11. \A v \in OptimizeWorkers : optWorker'[v] = IF v = w THEN IdleWorker ELSE optWorker[v]
  BY <1>1 DEF AssetTypes
<1>12. TakenJobs' = TakenJobs
       /\ \A v \in OptimizeWorkers : \A k : Holds(v, k)' <=> Holds(v, k) /\ v # w
  <2>1. TakenJobs' = TakenJobs
    BY <1>1, <1>9 DEF TakenJobs
  <2> QED
    BY <1>11, <2>1 DEF Holds
<1>13. \A g : \A k \in 1 .. Len(assetFiles) : HashIsOf(g, k)' <=> HashIsOf(g, k)
  BY <1>1, <1>9 DEF HashIsOf, HashFile
<1>14. ASSUME NEW v \in OptimizeWorkers PROVE WorkerOK(v)'
  <2>1. CASE v # w /\ optWorker[v] # IdleWorker
    <3>1. WorkerOK(v) /\ optWorker'[v] = optWorker[v]
      BY <1>3, <1>11, <2>1 DEF WhileRunning
    <3>2. optWorker[v].idx # i /\ optWorker[v].idx \in 1 .. Len(results)
      <4>1. ~Holds(v, i)
        BY <1>5, <2>1
      <4> QED
        BY <1>3, <2>1, <4>1, WorkingFacts DEF Holds
    <3>3. results'[optWorker[v].idx] = results[optWorker[v].idx]
      BY <1>8, <3>2
    <3>4. HashIsOf(optWorker[v].hash, optWorker[v].idx)' <=> HashIsOf(optWorker[v].hash, optWorker[v].idx)
      BY <1>4, <1>13, <3>1, <3>2
    <3>5. \A u \in OptimizeWorkers : Holds(u, optWorker[v].idx)' => Holds(u, optWorker[v].idx)
      BY <1>12, <3>1
    <3> QED
      BY <1>1, <1>12, <2>1, <3>1, <3>3, <3>4, <3>5 DEF WorkerOK
  <2>2. CASE v = w \/ optWorker[v] = IdleWorker
    BY <1>11, <2>2 DEF WorkerOK
  <2> QED
    BY <2>1, <2>2
<1>15. WhileRunning'
  <2>1. ASSUME NEW k \in 1 .. Len(assetFiles'), results'[k] = NoResult
        PROVE  k > TakenJobs' \/ \E v \in OptimizeWorkers : Holds(v, k)'
    <3>1. k # i /\ results[k] = NoResult
      BY <1>4, <1>7, <1>8, <1>9, <2>1
    <3>2. \A v \in OptimizeWorkers : Holds(v, k) => v # w
      BY <1>0, <3>1 DEF Holds
    <3> QED
      BY <1>3, <1>9, <1>12, <3>1, <3>2 DEF WhileRunning
  <2>2. ASSUME NEW k \in 1 .. Len(assetFiles'), k > TakenJobs'
        PROVE  results'[k] = NoResult
    <3>1. k # i /\ results[k] = NoResult
      BY <1>3, <1>4, <1>9, <1>12, <2>2 DEF WhileRunning
    <3> QED
      BY <1>4, <1>8, <1>9, <3>1
  <2>3. Len(results') = Len(assetFiles') /\ Len(jobs') <= Len(assetFiles')
    BY <1>1, <1>3, <1>8, <1>9 DEF WhileRunning
  <2>4. \A n \in 1 .. Len(jobs') : jobs'[n] = TakenJobs' + n
    BY <1>1, <1>3, <1>12 DEF WhileRunning
  <2> QED
    BY <1>14, <2>1, <2>2, <2>3, <2>4 DEF WhileRunning
<1>16. ResultsOK'
  <2> SUFFICES ASSUME NEW k \in 1 .. Len(results'), results'[k] # NoResult
               PROVE  /\ results'[k].path = assetFiles'[k].path
                      /\ results'[k].hash = hashes'[k]
                      /\ HashIsOf(results[k].hash, k)'
    BY DEF ResultsOK
  <2>1. k \in 1 .. Len(results) /\ k \in 1 .. Len(assetFiles)
    BY <1>4, <1>8
  <2>2. CASE k = i
    BY <1>1, <1>5, <1>7, <1>8, <1>9, <1>13, <2>1, <2>2
  <2>3. CASE k # i
    <3>1. results'[k] = results[k]
      BY <1>8, <2>1, <2>3
    <3> QED
      BY <1>1, <1>9, <1>13, <2>1, <3>1 DEF ResultsOK
  <2> QED
    BY <2>2, <2>3
<1>17. AssetListOK' /\ OtherOK' /\ AloneOK' /\ WhileNotRunning'
  BY <1>1, <1>3, <1>9, WorkersKeepTheRest
<1> QED
  BY <1>10, <1>15, <1>16, <1>17

\* A file of the list gets another hash.
LEMMA RehashOne ==
    ASSUME AssetTypes, NEW i \in 1 .. Len(assetFiles), NEW h \in FileHashes \cup {NotHashed},
           assetFiles' = [assetFiles EXCEPT ![i].hash = h]
    PROVE  /\ assetFiles' \in Seq(AssetFile) /\ Len(assetFiles') = Len(assetFiles)
           /\ \A k \in 1 .. Len(assetFiles) : assetFiles'[k].path = assetFiles[k].path
           /\ \A k \in 1 .. Len(assetFiles) :
                assetFiles'[k].hash = IF k = i THEN h ELSE assetFiles[k].hash
<1>1. PICK f : f = [assetFiles[i] EXCEPT !.hash = h]
  OBVIOUS
<1>2. f \in AssetFile /\ f.path = assetFiles[i].path /\ f.hash = h
  <2>1. assetFiles[i] \in AssetFile /\ h \in Nat
    BY AssetFields, HashesAreNumbers DEF NotHashed
  <2> QED
    BY <1>1, <2>1 DEF AssetFile
<1>3. assetFiles' = [assetFiles EXCEPT ![i] = f]
  BY <1>1
<1>4. /\ assetFiles' \in Seq(AssetFile) /\ Len(assetFiles') = Len(assetFiles)
      /\ \A k \in 1 .. Len(assetFiles) : assetFiles'[k] = IF k = i THEN f ELSE assetFiles[k]
  <2>1. PICK s : s = assetFiles
    OBVIOUS
  <2>2. s \in Seq(AssetFile) /\ i \in 1 .. Len(s) /\ f \in AssetFile
    BY <1>2, <2>1 DEF AssetTypes
  <2>3. /\ [s EXCEPT ![i] = f] \in Seq(AssetFile) /\ Len([s EXCEPT ![i] = f]) = Len(s)
        /\ \A k \in 1 .. Len(s) : [s EXCEPT ![i] = f][k] = IF k = i THEN f ELSE s[k]
    BY <2>2, ExceptSeq
  <2> QED
    BY <1>3, <2>1, <2>3
<1> QED
  BY <1>2, <1>4

LEMMA OptimizeWaitsStep ==
    ASSUME AssetInv, OptimizeWaits
    PROVE  AssetInv'
<1> USE DEF AssetInv
<1>1. /\ UNCHANGED <<assetDisk, assetFiles, toVisit, jobs, optWorker, hashes, results, applied,
                     other, alone, assetCalls, changedAt>>
      /\ caller = "optimize" /\ caller' = "apply" /\ jobs = <<>>
      /\ \A w \in OptimizeWorkers : optWorker[w] = IdleWorker
  BY DEF OptimizeWaits, WaitForWorkers, diskAndFiles, optimizeVars, otherVars
<1>2. Len(results) = Len(assetFiles) /\ Len(assetFiles) \in Nat /\ TakenJobs = Len(assetFiles)
      /\ applied = 0
  <2>1. TakenJobs + Len(jobs) = Len(assetFiles) /\ Len(jobs) = 0 /\ TakenJobs \in Nat
    BY <1>1, WorkingFacts
  <2> QED
    BY <1>1, <2>1, WorkingFacts DEF AssetListOK
<1>3. \A i \in 1 .. Len(results) : results[i] # NoResult
  BY <1>1, <1>2 DEF WhileRunning, Holds
<1>4. AssetTypes'
  BY <1>1 DEF AssetTypes
<1>5. WhileRunning' /\ WhileNotRunning'
  BY <1>1, <1>2, <1>3 DEF WhileRunning, WhileNotRunning
<1>6. ResultsOK'
  BY <1>1 DEF ResultsOK, HashIsOf, HashFile
<1>7. AssetListOK'
  <2>1. applied' = 0 /\ \A i \in 1 .. applied' : FALSE
    BY <1>1, <1>2
  <2> QED
    BY <1>1, <1>2, <2>1 DEF AssetListOK
<1>8. OtherOK' /\ AloneOK'
  BY <1>1, BesideOptimize
<1> QED
  BY <1>4, <1>5, <1>6, <1>7, <1>8

LEMMA OptimizeAppliesStep ==
    ASSUME AssetInv, OptimizeApplies
    PROVE  AssetInv'
<1> USE DEF AssetInv
<1>0. PICK n, h : n = applied + 1 /\ h = hashes[n]
  OBVIOUS
<1>1. /\ UNCHANGED <<assetDisk, caller, toVisit, jobs, optWorker, hashes, results, other, alone,
                     assetCalls, changedAt>>
      /\ caller = "apply" /\ applied < Len(assetFiles) /\ applied' = n
      /\ assetFiles' = [assetFiles EXCEPT ![n].hash = h]
  BY <1>0 DEF OptimizeApplies, otherVars
<1>2. /\ Len(results) = Len(assetFiles) /\ Len(assetFiles) \in Nat /\ applied \in Nat
      /\ n \in 1 .. Len(assetFiles)
  BY <1>0, <1>1, AssetFields DEF AssetTypes, AssetListOK
<1>3. h \in FileHashes /\ h # NotHashed /\ HashIsOf(h, n)
  <2>1. results[n] # NoResult
    BY <1>1, <1>2 DEF WhileNotRunning
  <2>2. h = results[n].hash /\ HashIsOf(results[n].hash, n)
    BY <1>0, <1>2, <2>1 DEF ResultsOK
  <2>3. h \in FileHashes
    BY <1>0, <1>2, AssetFields
  <2> QED
    BY <2>2, <2>3, HashesAreNumbers DEF NotHashed
<1>4. /\ assetFiles' \in Seq(AssetFile) /\ Len(assetFiles') = Len(assetFiles)
      /\ \A k \in 1 .. Len(assetFiles) : assetFiles'[k].path = assetFiles[k].path
      /\ \A k \in 1 .. Len(assetFiles) :
            assetFiles'[k].hash = IF k = n THEN h ELSE assetFiles[k].hash
  BY <1>1, <1>2, <1>3, RehashOne
<1>5. AssetTypes'
  BY <1>1, <1>2, <1>4 DEF AssetTypes
<1>6. \A k \in 1 .. Len(assetFiles) : \A g : HashIsOf(g, k)' <=> HashIsOf(g, k)
  BY <1>1, <1>4, HashesStayRight
<1>7. WhileRunning' /\ WhileNotRunning'
  BY <1>1, <1>4 DEF WhileRunning, WhileNotRunning
<1>8. ResultsOK'
  BY <1>1, <1>2, <1>4, <1>6 DEF ResultsOK
<1>9. AssetListOK'
  <2>1. \A i \in 1 .. n : i = n \/ i \in 1 .. applied
    BY <1>0, <1>2
  <2>2. \A i \in 1 .. applied : i # n /\ i \in 1 .. Len(assetFiles) /\ Hashed(i) /\ RightIfHashed(i)
    BY <1>0, <1>1, <1>2 DEF AssetListOK
  <2>3. \A i \in 1 .. n : Hashed(i)' /\ RightIfHashed(i)'
    BY <1>2, <1>3, <1>4, <1>6, <2>1, <2>2 DEF Hashed, RightIfHashed
  <2> QED
    BY <1>1, <1>2, <1>4, <2>3 DEF AssetListOK
<1>10. OtherOK' /\ AloneOK'
  BY <1>1, <1>4, BesideOptimize
<1> QED
  BY <1>5, <1>7, <1>8, <1>9, <1>10

\* What the second goroutine does leaves Optimize its jobs, workers and results.
LEMMA SecondStep ==
    ASSUME AssetInv,
           UNCHANGED <<assetDisk, caller, toVisit, jobs, optWorker, hashes, results, applied, changedAt>>,
           assetFiles' \in Seq(AssetFile), Len(assetFiles') = Len(assetFiles),
           \A k \in 1 .. Len(assetFiles) : assetFiles'[k].path = assetFiles[k].path,
           other' \in OtherRec, other'.next \in 1 .. Len(assetFiles) + 1, alone' \in BOOLEAN,
           assetCalls' \in 0 .. MaxAssetCalls, AssetListOK', OtherOK', AloneOK'
    PROVE  AssetInv'
<1> USE DEF AssetInv
<1>1. AssetTypes'
  BY DEF AssetTypes
<1>2. \A k \in 1 .. Len(assetFiles) : \A h : HashIsOf(h, k)' <=> HashIsOf(h, k)
  BY HashesStayRight
<1>3. Len(assetFiles) \in Nat /\ Len(results) \in Nat /\ Len(results) <= Len(assetFiles)
  BY AssetFields DEF WhileRunning, WhileNotRunning
<1>4. ResultsOK'
  BY <1>2, <1>3 DEF ResultsOK
<1>5. TakenJobs' = TakenJobs /\ \A v, k : Holds(v, k)' <=> Holds(v, k)
  BY DEF TakenJobs, Holds
<1>6. WhileRunning'
  <2>1. ASSUME caller = "optimize", NEW w \in OptimizeWorkers
        PROVE  WorkerOK(w)'
    <3>1. WorkerOK(w) /\ (optWorker[w] # IdleWorker => optWorker[w].idx \in 1 .. Len(assetFiles))
      BY <2>1, WorkingFacts DEF WhileRunning
    <3> QED
      BY <1>2, <1>5, <3>1 DEF WorkerOK
  <2> QED
    BY <1>5, <2>1 DEF WhileRunning
<1>7. WhileNotRunning'
  BY DEF WhileNotRunning
<1> QED
  BY <1>1, <1>4, <1>6, <1>7

\* Its steps that do not touch the list.
LEMMA SecondReads ==
    ASSUME AssetInv,
           UNCHANGED <<assetDisk, assetFiles, caller, toVisit, jobs, optWorker, hashes, results,
                       applied, changedAt>>,
           other' \in OtherRec, other'.next \in 1 .. Len(assetFiles) + 1, alone' \in BOOLEAN,
           assetCalls' \in 0 .. MaxAssetCalls, OtherOK', AloneOK'
    PROVE  AssetInv'
<1>1. \A k : Hashed(k)' <=> Hashed(k)
  BY DEF Hashed
<1>2. \A k : RightIfHashed(k)' <=> RightIfHashed(k)
  BY <1>1, HashesStayRight DEF RightIfHashed
<1>3. AssetListOK'
  BY <1>1, <1>2 DEF AssetInv, AssetListOK
<1>4. assetFiles' \in Seq(AssetFile)
  BY DEF AssetInv, AssetTypes
<1> QED
  BY <1>3, <1>4, SecondStep

LEMMA HashMissingBeginStep ==
    ASSUME AssetInv, HashMissingBegin
    PROVE  AssetInv'
<1>1. /\ UNCHANGED <<assetDisk, assetFiles, caller, toVisit, jobs, optWorker, hashes, results,
                     applied, changedAt>>
      /\ AssetCall /\ caller # "scan" /\ alone' = (caller = "idle")
      /\ other' = [NoOtherCall EXCEPT !.at = "check"]
  BY DEF HashMissingBegin, diskAndFiles, optimizeVars
<1>2. /\ other'.at = "check" /\ other'.next = 1 /\ other'.held = NotHashed /\ other'.told = <<>>
      /\ other' \in OtherRec
  <2>1. <<>> \in Seq(Nat)
    OBVIOUS
  <2> QED
    BY <1>1, <2>1 DEF NoOtherCall, OtherRec, OtherPlaces
<1>3. Len(assetFiles) \in Nat /\ Len(other'.told) = 0
  BY <1>2, AssetFields DEF AssetInv
<1>4. other'.next \in 1 .. Len(assetFiles) + 1 /\ assetCalls' \in 0 .. MaxAssetCalls
  BY <1>1, <1>2, <1>3, AssetCallCounted DEF AssetInv
<1>5. alone' \in BOOLEAN
  BY <1>1
<1>6. OtherOK'
  BY <1>1, <1>2 DEF OtherOK
<1>7. AloneOK'
  <2>1. alone' => caller' = "idle"
    BY <1>1
  <2> QED
    BY <1>2, <1>3, <2>1 DEF AloneOK
<1> QED
  BY <1>1, <1>2, <1>4, <1>5, <1>6, <1>7, SecondReads

LEMMA HashMissingCheckStep ==
    ASSUME AssetInv, HashMissingCheck
    PROVE  AssetInv'
<1> USE DEF AssetInv
<1>1. /\ UNCHANGED <<assetDisk, assetFiles, caller, toVisit, jobs, optWorker, hashes, results,
                     applied, alone, assetCalls, changedAt>>
      /\ other.at = "check" /\ other.next <= Len(assetFiles)
      /\ other' = IF Hashed(other.next) THEN [other EXCEPT !.next = @ + 1]
                  ELSE [other EXCEPT !.at = "read"]
  BY DEF HashMissingCheck, diskAndFiles, optimizeVars, Hashed
<1>2. other \in OtherRec /\ other.next \in 1 .. Len(assetFiles) /\ Len(assetFiles) \in Nat
      /\ other.told = <<>>
  BY <1>1, AssetFields, OtherFields DEF AssetTypes, OtherOK
<1>3. CASE Hashed(other.next)
  <2>1. /\ other' \in OtherRec /\ other'.at = "check" /\ other'.next = other.next + 1
        /\ other'.told = other.told
    BY <1>1, <1>2, <1>3 DEF OtherRec
  <2>2. other'.next \in 1 .. Len(assetFiles) + 1 /\ assetCalls' \in 0 .. MaxAssetCalls
        /\ alone' \in BOOLEAN
    BY <1>1, <1>2, <2>1 DEF AssetTypes
  <2>3. OtherOK'
    BY <1>1, <1>2, <2>1 DEF OtherOK
  <2>4. AloneOK'
    <3>1. \A i \in 1 .. other'.next - 1 : i = other.next \/ i \in 1 .. other.next - 1
      BY <1>2, <2>1
    <3>2. \A i : Hashed(i)' <=> Hashed(i)
      BY <1>1 DEF Hashed
    <3>3. Len(other'.told) = 0
      BY <1>2, <2>1
    <3> QED
      BY <1>1, <1>2, <1>3, <2>1, <3>1, <3>2, <3>3 DEF AloneOK
  <2> QED
    BY <1>1, <2>1, <2>2, <2>3, <2>4, SecondReads
<1>4. CASE ~Hashed(other.next)
  <2>1. /\ other' \in OtherRec /\ other'.at = "read" /\ other'.next = other.next
        /\ other'.told = other.told
    BY <1>1, <1>2, <1>4 DEF OtherRec, OtherPlaces
  <2>2. other'.next \in 1 .. Len(assetFiles) + 1 /\ assetCalls' \in 0 .. MaxAssetCalls
        /\ alone' \in BOOLEAN
    BY <1>1, <1>2, <2>1 DEF AssetTypes
  <2>3. OtherOK'
    BY <1>1, <1>2, <2>1 DEF OtherOK
  <2>4. AloneOK'
    <3>1. \A i : Hashed(i)' <=> Hashed(i)
      BY <1>1 DEF Hashed
    <3>2. Len(other'.told) = 0
      BY <1>2, <2>1
    <3> QED
      BY <1>1, <1>2, <2>1, <3>1, <3>2 DEF AloneOK
  <2> QED
    BY <1>1, <2>1, <2>2, <2>3, <2>4, SecondReads
<1> QED
  BY <1>3, <1>4

LEMMA HashMissingReadStep ==
    ASSUME AssetInv, HashMissingRead
    PROVE  AssetInv'
<1> USE DEF AssetInv
<1>0. PICK h : h = HashFile(assetFiles[other.next].path)
  OBVIOUS
<1>1. /\ UNCHANGED <<assetDisk, assetFiles, caller, toVisit, jobs, optWorker, hashes, results,
                     applied, alone, assetCalls, changedAt>>
      /\ other.at = "read" /\ other' = [other EXCEPT !.at = "store", !.held = h]
  BY <1>0 DEF HashMissingRead, diskAndFiles, optimizeVars
<1>2. other \in OtherRec /\ other.next \in 1 .. Len(assetFiles) /\ Len(assetFiles) \in Nat
      /\ other.told = <<>> /\ caller # "scan"
  BY <1>1, AssetFields, OtherFields DEF AssetTypes, OtherOK
<1>3. h \in FileHashes
  BY <1>0, <1>2, AssetFields, HashFileIs
<1>4. /\ other' \in OtherRec /\ other'.at = "store" /\ other'.next = other.next
      /\ other'.told = other.told /\ other'.held = h
  BY <1>1, <1>2, <1>3 DEF OtherRec, OtherPlaces
<1>5. other'.next \in 1 .. Len(assetFiles) + 1 /\ assetCalls' \in 0 .. MaxAssetCalls
      /\ alone' \in BOOLEAN
  BY <1>1, <1>2, <1>4 DEF AssetTypes
<1>6. HashIsOf(other.held, other.next)'
  BY <1>0, <1>1, <1>4 DEF HashIsOf, HashFile
<1>7. OtherOK'
  BY <1>1, <1>2, <1>3, <1>4, <1>6 DEF OtherOK
<1>8. AloneOK'
  <2>1. \A i : Hashed(i)' <=> Hashed(i)
    BY <1>1 DEF Hashed
  <2>2. Len(other'.told) = 0
    BY <1>2, <1>4
  <2> QED
    BY <1>1, <1>2, <1>4, <2>1, <2>2 DEF AloneOK
<1> QED
  BY <1>1, <1>4, <1>5, <1>7, <1>8, SecondReads

LEMMA HashMissingStoreStep ==
    ASSUME AssetInv, HashMissingStore
    PROVE  AssetInv'
<1> USE DEF AssetInv
<1>0. PICK n, h : n = other.next /\ h = other.held
  OBVIOUS
<1>1. /\ UNCHANGED <<assetDisk, caller, toVisit, jobs, optWorker, hashes, results, applied, alone,
                     assetCalls, changedAt>>
      /\ other.at = "store" /\ assetFiles' = [assetFiles EXCEPT ![n].hash = h]
      /\ other' = [other EXCEPT !.at = "check", !.next = @ + 1, !.held = NotHashed]
  BY <1>0 DEF HashMissingStore, optimizeVars
<1>2. /\ other \in OtherRec /\ n \in 1 .. Len(assetFiles) /\ Len(assetFiles) \in Nat
      /\ other.told = <<>> /\ caller # "scan" /\ h \in FileHashes /\ HashIsOf(h, n)
  BY <1>0, <1>1, AssetFields, OtherFields DEF AssetTypes, OtherOK
<1>3. /\ assetFiles' \in Seq(AssetFile) /\ Len(assetFiles') = Len(assetFiles)
      /\ \A k \in 1 .. Len(assetFiles) : assetFiles'[k].path = assetFiles[k].path
      /\ \A k \in 1 .. Len(assetFiles) :
            assetFiles'[k].hash = IF k = n THEN h ELSE assetFiles[k].hash
  BY <1>1, <1>2, RehashOne
<1>4. /\ other' \in OtherRec /\ other'.at = "check" /\ other'.next = n + 1
      /\ other'.told = other.told
  <2>1. PICK m : m = other.next + 1
    OBVIOUS
  <2>2. m \in Nat /\ m = n + 1
    BY <1>0, <1>2, <2>1
  <2>3. other' = [other EXCEPT !.at = "check", !.next = m, !.held = NotHashed]
    BY <1>1, <2>1
  <2> QED
    BY <1>2, <2>2, <2>3 DEF OtherRec, OtherPlaces
<1>5. other'.next \in 1 .. Len(assetFiles) + 1 /\ assetCalls' \in 0 .. MaxAssetCalls
      /\ alone' \in BOOLEAN
  BY <1>1, <1>2, <1>4 DEF AssetTypes
<1>6. \A k \in 1 .. Len(assetFiles) : \A g : HashIsOf(g, k)' <=> HashIsOf(g, k)
  BY <1>1, <1>3, HashesStayRight
<1>7. h # NotHashed
  BY <1>2, HashesAreNumbers DEF NotHashed
<1>8. \A k \in 1 .. Len(assetFiles) : /\ Hashed(k) \/ k = n => Hashed(k)'
                                      /\ RightIfHashed(k) => RightIfHashed(k)'
                                      /\ k = n => RightIfHashed(k)'
  BY <1>2, <1>3, <1>6, <1>7 DEF Hashed, RightIfHashed
<1>9. AssetListOK'
  <2>1. applied \in 0 .. Len(assetFiles) /\ Len(results) \in Nat
    BY AssetFields DEF AssetTypes
  <2>2. \A i \in 1 .. applied : i \in 1 .. Len(assetFiles)
    BY <1>2, <2>1
  <2>3. caller = "idle" => \A i \in 1 .. Len(results) : i \in 1 .. Len(assetFiles)
    BY <1>2, <2>1 DEF WhileNotRunning
  <2> QED
    BY <1>1, <1>2, <1>3, <1>8, <2>2, <2>3 DEF AssetListOK
<1>10. OtherOK'
  BY <1>1, <1>2, <1>4 DEF OtherOK
<1>11. AloneOK'
  <2>1. \A i \in 1 .. n : i \in 1 .. Len(assetFiles) /\ (i = n \/ i \in 1 .. other.next - 1)
    BY <1>0, <1>2
  <2>2. Len(other'.told) = 0 /\ other'.next - 1 = n
    BY <1>2, <1>4
  <2>3. alone => caller = "idle" /\ \A i \in 1 .. other.next - 1 : Hashed(i)
    BY <1>1 DEF AloneOK
  <2>4. alone => \A i \in 1 .. n : Hashed(i)'
    BY <1>8, <2>1, <2>3
  <2> QED
    BY <1>1, <1>2, <1>3, <1>4, <2>2, <2>3, <2>4 DEF AloneOK
<1> QED
  BY <1>1, <1>3, <1>4, <1>5, <1>9, <1>10, <1>11, SecondStep

LEMMA HashMissingEndStep ==
    ASSUME AssetInv, HashMissingEnd
    PROVE  AssetInv'
<1> USE DEF AssetInv
<1>1. /\ UNCHANGED <<assetDisk, assetFiles, caller, toVisit, jobs, optWorker, hashes, results,
                     applied, alone, assetCalls, changedAt>>
      /\ other.at = "check" /\ other.next > Len(assetFiles)
      /\ other' = NoOtherCall \/ other' = [NoOtherCall EXCEPT !.at = "group"]
  BY DEF HashMissingEnd, diskAndFiles, optimizeVars
<1>2. /\ other'.at \in {"idle", "group"} /\ other'.next = 1 /\ other'.told = <<>>
      /\ other' \in OtherRec
  <2>1. <<>> \in Seq(Nat)
    OBVIOUS
  <2>2. PICK at : at \in {"idle", "group"} /\ other' = [NoOtherCall EXCEPT !.at = at]
    BY <1>1 DEF NoOtherCall
  <2>3. other' = [at |-> at, next |-> 1, held |-> NotHashed, told |-> <<>>]
    BY <2>2 DEF NoOtherCall
  <2>4. at \in OtherPlaces /\ NotHashed \in FileHashes \cup {NotHashed} /\ 1 \in Nat
    BY <2>2 DEF OtherPlaces
  <2>5. other' \in OtherRec
    BY <2>1, <2>3, <2>4 DEF OtherRec
  <2> QED
    BY <2>2, <2>3, <2>5
<1>3. Len(assetFiles) \in Nat /\ Len(other'.told) = 0 /\ other.next = Len(assetFiles) + 1
  BY <1>1, <1>2, AssetFields, OtherFields
<1>4. other'.next \in 1 .. Len(assetFiles) + 1 /\ assetCalls' \in 0 .. MaxAssetCalls
      /\ alone' \in BOOLEAN
  BY <1>1, <1>2, <1>3 DEF AssetTypes
<1>5. OtherOK'
  BY <1>1, <1>2 DEF OtherOK
<1>6. AloneOK'
  <2>1. alone => caller = "idle" /\ \A i \in 1 .. Len(assetFiles) : Hashed(i)
    BY <1>1, <1>3 DEF AloneOK
  <2>2. \A i : Hashed(i)' <=> Hashed(i)
    BY <1>1 DEF Hashed
  <2> QED
    BY <1>1, <1>2, <1>3, <2>1, <2>2 DEF AloneOK
<1> QED
  BY <1>1, <1>2, <1>4, <1>5, <1>6, SecondReads

LEMMA GroupNextStep ==
    ASSUME AssetInv, GroupNext
    PROVE  AssetInv'
<1> USE DEF AssetInv
<1>0. PICK n, h, told : n = other.next /\ h = assetFiles[n].hash /\ told = other.told
  OBVIOUS
<1>1. /\ UNCHANGED <<assetDisk, assetFiles, caller, toVisit, jobs, optWorker, hashes, results,
                     applied, alone, assetCalls, changedAt>>
      /\ other.at = "group" /\ n <= Len(assetFiles)
      /\ other' = [other EXCEPT !.next = n + 1, !.told = Append(told, h)]
  BY <1>0 DEF GroupNext, diskAndFiles, optimizeVars
<1>2. /\ other \in OtherRec /\ n \in 1 .. Len(assetFiles) /\ Len(assetFiles) \in Nat
      /\ told \in Seq(Nat) /\ h \in Nat /\ caller # "scan"
  BY <1>0, <1>1, AssetFields, OtherFields DEF AssetTypes, OtherOK
<1>3. /\ Append(told, h) \in Seq(Nat) /\ Len(Append(told, h)) = Len(told) + 1 /\ Len(told) \in Nat
      /\ \A i \in 1 .. Len(told) : Append(told, h)[i] = told[i]
      /\ Append(told, h)[Len(told) + 1] = h
  BY <1>2, AppendProperties, LenProperties
<1>4. /\ other' \in OtherRec /\ other'.at = "group" /\ other'.next = n + 1
      /\ other'.told = Append(told, h)
  <2>1. PICK m, longer : m = n + 1 /\ longer = Append(told, h)
    OBVIOUS
  <2>2. m \in Nat /\ longer \in Seq(Nat)
    BY <1>2, <1>3, <2>1
  <2>3. other' = [other EXCEPT !.next = m, !.told = longer]
    BY <1>1, <2>1
  <2> QED
    BY <1>1, <1>2, <2>1, <2>2, <2>3 DEF OtherRec
<1>5. other'.next \in 1 .. Len(assetFiles) + 1 /\ assetCalls' \in 0 .. MaxAssetCalls
      /\ alone' \in BOOLEAN
  BY <1>1, <1>2, <1>4 DEF AssetTypes
<1>6. OtherOK'
  BY <1>1, <1>2, <1>4 DEF OtherOK
<1>7. AloneOK'
  <2>1. SUFFICES ASSUME alone PROVE AloneOK'
    BY <1>1 DEF AloneOK
  <2>2. /\ caller = "idle" /\ Len(told) = n - 1 /\ \A i \in 1 .. Len(assetFiles) : Hashed(i)
        /\ \A i \in 1 .. Len(told) : HashIsOf(told[i], i)
    BY <1>0, <1>1, <2>1 DEF AloneOK
  <2>3. HashIsOf(h, n)
    BY <1>0, <1>2, <2>2 DEF AssetListOK, RightIfHashed
  <2>4. \A i \in 1 .. n : i = n \/ i \in 1 .. Len(told)
    BY <1>2, <2>2
  <2>5. n = Len(told) + 1
    BY <1>2, <1>3, <2>2
  <2>6. \A i \in 1 .. n : HashIsOf(Append(told, h)[i], i)
    BY <1>3, <2>2, <2>3, <2>4, <2>5
  <2>7. \A i : (\A g : HashIsOf(g, i)' <=> HashIsOf(g, i)) /\ (Hashed(i)' <=> Hashed(i))
    BY <1>1, HashesStayRight DEF Hashed
  <2>8. Len(other'.told) = n /\ other'.next - 1 = n /\ n <= Len(assetFiles')
    BY <1>1, <1>2, <1>3, <1>4, <2>5
  <2> QED
    BY <1>1, <1>4, <2>2, <2>6, <2>7, <2>8 DEF AloneOK
<1> QED
  BY <1>1, <1>4, <1>5, <1>6, <1>7, SecondReads

LEMMA GroupEndStep ==
    ASSUME AssetInv, GroupEnd
    PROVE  AssetInv'
<1> USE DEF AssetInv
<1>1. /\ UNCHANGED <<assetDisk, assetFiles, caller, toVisit, jobs, optWorker, hashes, results,
                     applied, alone, assetCalls, changedAt>>
      /\ other.at = "group" /\ other' = [other EXCEPT !.at = "told"]
  BY DEF GroupEnd, diskAndFiles, optimizeVars
<1>2. /\ other \in OtherRec /\ other.next \in 1 .. Len(assetFiles) + 1
  BY DEF AssetTypes
<1>3. /\ other' \in OtherRec /\ other'.at = "told" /\ other'.next = other.next
      /\ other'.told = other.told
  BY <1>1, <1>2 DEF OtherRec, OtherPlaces
<1>4. other'.next \in 1 .. Len(assetFiles) + 1 /\ assetCalls' \in 0 .. MaxAssetCalls
      /\ alone' \in BOOLEAN
  BY <1>1, <1>2, <1>3 DEF AssetTypes
<1>5. OtherOK'
  BY <1>1, <1>3 DEF OtherOK
<1>6. AloneOK'
  <2>1. \A i : \A g : HashIsOf(g, i)' <=> HashIsOf(g, i)
    BY <1>1, HashesStayRight
  <2> QED
    BY <1>1, <1>3, <2>1 DEF AloneOK
<1> QED
  BY <1>1, <1>3, <1>4, <1>5, <1>6, SecondReads

LEMMA AssetStep == AssetInv /\ [AssetNext]_assetVars => AssetInv'
<1> SUFFICES ASSUME AssetInv, [AssetNext]_assetVars PROVE AssetInv'
  OBVIOUS
<1>1. CASE UNCHANGED assetVars
  <2>1. /\ UNCHANGED <<assetDisk, assetFiles, caller, toVisit, jobs, optWorker, hashes, results,
                       applied, other, alone, assetCalls, changedAt>>
    BY <1>1 DEF assetVars, diskAndFiles, optimizeVars, otherVars
  <2>2. /\ other \in OtherRec /\ other.next \in 1 .. Len(assetFiles) + 1 /\ alone \in BOOLEAN
        /\ assetCalls \in 0 .. MaxAssetCalls
    BY DEF AssetInv, AssetTypes
  <2>3. \A i : \A g : HashIsOf(g, i)' <=> HashIsOf(g, i)
    BY <2>1, HashesStayRight
  <2>4. \A i : Hashed(i)' <=> Hashed(i)
    BY <2>1 DEF Hashed
  <2>5. OtherOK' /\ AloneOK'
    BY <2>1, <2>3, <2>4 DEF AssetInv, OtherOK, AloneOK
  <2> QED
    BY <2>1, <2>2, <2>5, SecondReads
<1>2. CASE \E p \in AssetPaths : ChangeAsset(p)
  BY <1>2, ChangeAssetStep
<1>3. CASE AssetScanBegin \/ AssetScanVisit \/ AssetScanEnd
  BY <1>3, AssetScanBeginStep, AssetScanVisitStep, AssetScanEndStep
<1>4. CASE OptimizeNext
  BY <1>4, OptimizeBeginStep, WorkerHashesStep, WorkerStoresHashStep, WorkerStoresResultStep,
     OptimizeWaitsStep, OptimizeAppliesStep, OptimizeEndsStep DEF OptimizeNext
<1>5. CASE DeduplicateNext
  BY <1>5, HashMissingBeginStep, HashMissingCheckStep, HashMissingReadStep, HashMissingStoreStep,
     HashMissingEndStep, GroupNextStep, GroupEndStep DEF DeduplicateNext
<1> QED
  BY <1>1, <1>2, <1>3, <1>4, <1>5 DEF AssetNext

LEMMA JobsCounted == AssetInv => JobsOnce
<1> SUFFICES ASSUME AssetInv, caller = "optimize", NEW i \in DOMAIN assetFiles
             PROVE  Cardinality({n \in DOMAIN jobs : jobs[n] = i})
                  + Cardinality({w \in OptimizeWorkers : optWorker[w] # IdleWorker /\ optWorker[w].idx = i})
                  + (IF results[i] # NoResult THEN 1 ELSE 0) = 1
  BY DEF JobsOnce
<1> DEFINE waiting == {n \in DOMAIN jobs : jobs[n] = i}
           working == {w \in OptimizeWorkers : optWorker[w] # IdleWorker /\ optWorker[w].idx = i}
<1>1. /\ i \in 1 .. Len(assetFiles) /\ Len(jobs) \in Nat /\ TakenJobs \in Nat
      /\ TakenJobs + Len(jobs) = Len(assetFiles) /\ Len(assetFiles) \in Nat
      /\ DOMAIN jobs = 1 .. Len(jobs)
  BY WorkingFacts, AssetFields DEF AssetInv
<1>2. \A n \in 1 .. Len(jobs) : jobs[n] = TakenJobs + n
  BY DEF AssetInv, WhileRunning
<1>3. \A w \in OptimizeWorkers :
        w \in working => /\ i <= TakenJobs /\ results[i] = NoResult
                         /\ \A v \in OptimizeWorkers : v \in working => v = w
  <2> SUFFICES ASSUME NEW w \in OptimizeWorkers, w \in working
               PROVE  /\ i <= TakenJobs /\ results[i] = NoResult
                      /\ \A v \in OptimizeWorkers : v \in working => v = w
    OBVIOUS
  <2>1. WorkerOK(w) /\ optWorker[w] # IdleWorker /\ optWorker[w].idx = i
    BY DEF AssetInv, WhileRunning
  <2>2. optWorker[w].idx \in 1 .. TakenJobs
    BY <2>1, WorkingFacts
  <2> QED
    BY <1>1, <2>1, <2>2 DEF WorkerOK, Holds
<1>4. \A S : S = {} => Cardinality(S) = 0
  BY FS_EmptySet
<1>5. \A S, x : S = {x} => Cardinality(S) = 1
  BY FS_Singleton
<1>6. CASE i > TakenJobs
  <2>1. waiting = {i - TakenJobs}
    BY <1>1, <1>2, <1>6
  <2>2. working = {}
    BY <1>1, <1>3, <1>6
  <2>3. results[i] = NoResult
    BY <1>1, <1>6 DEF AssetInv, WhileRunning
  <2> HIDE DEF waiting, working
  <2>4. Cardinality(waiting) = 1 /\ Cardinality(working) = 0
    BY <1>4, <1>5, <2>1, <2>2
  <2> QED
    BY <2>3, <2>4 DEF waiting, working
<1>7. CASE ~(i > TakenJobs)
  <2>1. waiting = {}
    BY <1>1, <1>2, <1>7
  <2>2. CASE results[i] = NoResult
    <3>1. PICK w \in OptimizeWorkers : Holds(w, i)
      BY <1>1, <1>7, <2>2 DEF AssetInv, WhileRunning
    <3>2. working = {w}
      BY <1>3, <3>1 DEF Holds
    <3> HIDE DEF waiting, working
    <3>3. Cardinality(waiting) = 0 /\ Cardinality(working) = 1
      BY <1>4, <1>5, <2>1, <3>2
    <3> QED
      BY <2>2, <3>3 DEF waiting, working
  <2>3. CASE results[i] # NoResult
    <3>1. working = {}
      BY <1>3, <2>3
    <3> HIDE DEF waiting, working
    <3>2. Cardinality(waiting) = 0 /\ Cardinality(working) = 0
      BY <1>4, <2>1, <3>1
    <3> QED
      BY <2>3, <3>2 DEF waiting, working
  <2> QED
    BY <2>2, <2>3
<1> QED
  BY <1>6, <1>7

LEMMA GroupsIs ==
    ASSUME NEW n \in Nat, NEW f, DOMAIN f = 1 .. n, NEW i \in 1 .. n, NEW j \in 1 .. n, i # j
    PROVE  (\E group \in Groups(f) : {i, j} \subseteq group) <=> f[i] = f[j]
<1>1. ASSUME NEW group \in Groups(f), {i, j} \subseteq group
      PROVE  f[i] = f[j]
  BY <1>1 DEF Groups
<1>2. ASSUME f[i] = f[j]
      PROVE  \E group \in Groups(f) : {i, j} \subseteq group
  <2> DEFINE group == {k \in DOMAIN f : f[k] = f[i]}
  <2>1. {i, j} \in SUBSET group /\ group \in SUBSET (1 .. n)
    BY <1>2
  <2>2. group \in {{k \in DOMAIN f : f[k] = x} : x \in {f[k] : k \in DOMAIN f}}
    OBVIOUS
  <2> HIDE DEF group
  <2>3. IsFiniteSet(group) /\ IsFiniteSet({i, j}) /\ Cardinality({i, j}) = 2
    <3>1. IsFiniteSet({i}) /\ Cardinality({i}) = 1 /\ {i, j} = {i} \cup {j} /\ j \notin {i}
      BY FS_Singleton
    <3>2. IsFiniteSet({i} \cup {j}) /\ Cardinality({i} \cup {j}) = Cardinality({i}) + 1
      BY <3>1, FS_AddElement
    <3>3. IsFiniteSet(1 .. n)
      <4>1. 1 \in Int /\ n \in Int
        OBVIOUS
      <4> QED
        BY <4>1, FS_Interval
    <3>4. IsFiniteSet(group)
      BY <2>1, <3>3, FS_Subset
    <3>5. IsFiniteSet({i, j})
      BY <3>1, <3>2
    <3>6. Cardinality({i, j}) = Cardinality({i}) + 1 /\ Cardinality({i}) = 1
      BY <3>1, <3>2
    <3>7. Cardinality({i, j}) = 2
      BY <3>6
    <3> QED
      BY <3>4, <3>5, <3>7
  <2>4. Cardinality(group) > 1
    <3>1. Cardinality({i, j}) <= Cardinality(group) /\ Cardinality(group) \in Nat
      BY <2>1, <2>3, FS_Subset, FS_CardinalityType
    <3> QED
      BY <2>3, <3>1
  <2> QED
    BY <2>1, <2>2, <2>4 DEF Groups
<1> QED
  BY <1>1, <1>2

LEMMA OptimizeTells == AssetInv => OptimizeExact
<1> SUFFICES ASSUME AssetInv, Optimized, NEW i \in DOMAIN results
             PROVE  /\ results[i].path = assetFiles[i].path
                    /\ results[i].path \notin changedAt =>
                        /\ results[i].hash = HashFile(results[i].path)
                        /\ assetFiles[i].hash = results[i].hash
  BY DEF OptimizeExact
<1>1. /\ caller # "optimize" /\ i \in 1 .. Len(results) /\ Len(results) <= Len(assetFiles)
      /\ Len(results) \in Nat /\ Len(assetFiles) \in Nat
  BY AssetFields DEF AssetInv, WhileNotRunning, Optimized
<1>2. results[i].path = assetFiles[i].path /\ HashIsOf(results[i].hash, i)
  BY <1>1 DEF AssetInv, WhileNotRunning, ResultsOK
<1>3. HashIsOf(assetFiles[i].hash, i)
  <2>1. i \in 1 .. Len(assetFiles)
    BY <1>1
  <2> QED
    BY <1>1, <2>1 DEF AssetInv, AssetListOK, RightIfHashed, Optimized
<1> QED
  BY <1>2, <1>3 DEF HashIsOf

LEMMA GroupsTell == AssetInv => GroupsExact
<1> SUFFICES ASSUME AssetInv, other.at = "told", alone,
                    NEW i \in DOMAIN other.told, NEW j \in DOMAIN other.told,
                    {assetFiles[i].path, assetFiles[j].path} \cap changedAt = {}, i # j
             PROVE  (\E group \in DeduplicateByHash : {i, j} \subseteq group)
                      <=> HashFile(assetFiles[i].path) = HashFile(assetFiles[j].path)
  BY DEF GroupsExact
<1>1. PICK n, f : n = Len(other.told) /\ f = other.told
  OBVIOUS
<1>2. n \in Nat /\ DOMAIN f = 1 .. n /\ i \in 1 .. n /\ j \in 1 .. n
  BY <1>1, OtherFields DEF AssetInv
<1>3. f[i] = HashFile(assetFiles[i].path) /\ f[j] = HashFile(assetFiles[j].path)
  BY <1>1, <1>2 DEF AssetInv, AloneOK, HashIsOf
<1>4. (\E group \in Groups(f) : {i, j} \subseteq group) <=> f[i] = f[j]
  BY <1>2, GroupsIs
<1> QED
  BY <1>1, <1>3, <1>4 DEF DeduplicateByHash

LEMMA AssetsSound == AssetInv => AssetTypeOK /\ AssetsExact
<1> SUFFICES ASSUME AssetInv PROVE AssetTypeOK /\ AssetsExact
  OBVIOUS
<1>1. AssetTypeOK
  <2>1. \A n \in 1 .. Len(jobs) : jobs[n] \in 1 .. Len(assetFiles)
    <3>1. CASE caller = "optimize"
      <4>1. \A n \in 1 .. Len(jobs) : jobs[n] = TakenJobs + n
        BY <3>1 DEF AssetInv, WhileRunning
      <4> QED
        BY <3>1, <4>1, WorkingFacts
    <3>2. CASE caller # "optimize"
      BY <3>2 DEF AssetInv, WhileNotRunning
    <3> QED
      BY <3>1, <3>2
  <2>2. other.at \in OtherPlaces
    BY OtherFields DEF AssetInv
  <2> QED
    BY <2>1, <2>2, AssetFields DEF AssetInv, AssetTypes, AssetTypeOK, OtherPlaces
<1> QED
  BY <1>1, JobsCounted, OptimizeTells, GroupsTell DEF AssetsExact

\* Of any number of files, contents and goroutines: while Optimize runs every job is
\* in the channel, with one worker, or done; what it returns and leaves in the list is
\* what the files held, whatever a second goroutine hashes beside it; and the groups
\* that one makes are right if no Optimize ran beside its call.
THEOREM AssetsExactCorrect == AssetSpec => [](AssetTypeOK /\ AssetsExact)
<1> QED
  BY AssetInitHolds, AssetStep, AssetsSound, PTL DEF AssetSpec

-----------------------------------------------------------------------------
(* The timeline                                                            *)

EventRec == [name : PhaseNames, start : Nat, duration : Nat]
PhaseRec == [name : PhaseNames, start : Nat]

TimelineTypes ==
    /\ clock \in 0 .. MaxTicks /\ spent \in Nat /\ sameTick \in BOOLEAN
    /\ events \in Seq(EventRec)
    /\ \A i \in 1 .. Len(events) : events[i].start + events[i].duration <= clock
    /\ inPhase \in [PhaseWorkers -> Seq(PhaseRec)]
    /\ \A w \in PhaseWorkers : \A k \in 1 .. Len(inPhase[w]) : inPhase[w][k].start <= clock
    /\ captured \in [PhaseWorkers -> HeapSizes \cup {Nothing}]
    /\ snapshots \in Seq(Nat) /\ peak \in Nat

PeakIs ==
    /\ \A i \in 1 .. Len(snapshots) : snapshots[i] <= peak
    /\ IF Len(snapshots) = 0 THEN peak = 0 ELSE \E i \in 1 .. Len(snapshots) : snapshots[i] = peak

BegunApart(begun) ==
    \A v \in PhaseWorkers : \A k \in 1 .. Len(inPhase[v]) :
        \A u \in PhaseWorkers : \A l \in 1 .. Len(inPhase[u]) :
            begun[u][l] = begun[v][k] => u = v /\ l = k

\* begun[w][k] is the event of the k-th phase that worker w is in.
Begun(begun) ==
    /\ begun \in [PhaseWorkers -> [Nat -> Nat]]
    /\ \A w \in PhaseWorkers : \A k \in 1 .. Len(inPhase[w]) :
        /\ begun[w][k] \in 1 .. Len(events)
        /\ inPhase[w][k].name = events[begun[w][k]].name
        /\ inPhase[w][k].start = events[begun[w][k]].start
    /\ BegunApart(begun)

InProgress(begun, i) ==
    \E w \in PhaseWorkers : \E k \in 1 .. Len(inPhase[w]) : begun[w][k] = i

PhasesOf(begun, name) ==
    {i \in 1 .. Len(events) : events[i].name = name /\ InProgress(begun, i)}

\* What an event adds to the time spent: its duration, or the clock less its start,
\* and less the same for the phase that began with it, if that is in progress.
\* The clock appears as often with either sign.
Share(begun, i) ==
    (IF events[i].duration = 0 THEN 0 - events[i].start ELSE events[i].duration)
        + (IF InProgress(begun, i) THEN events[i].start ELSE 0)

\* total[n] is the sum of the first n shares.
Totals(total, begun) ==
    /\ total \in [0 .. Len(events) -> Int] /\ total[0] = 0
    /\ \A n \in 1 .. Len(events) : total[n] = total[n - 1] + Share(begun, n)

Ledger(begun, total) ==
    /\ Begun(begun) /\ Totals(total, begun)
    /\ total[Len(events)] = spent
    /\ \A name \in PhaseNames :
        Cardinality(Open(name)) = Cardinality(PhasesOf(begun, name))

TimelineInv ==
    /\ TimelineTypes /\ PeakIs
    /\ ~sameTick => \E begun, total : Ledger(begun, total)

LEMMA EventFields ==
    ASSUME TimelineTypes
    PROVE  /\ Len(events) \in Nat /\ DOMAIN events = 1 .. Len(events)
           /\ \A i \in 1 .. Len(events) :
                events[i] \in EventRec /\ events[i].name \in PhaseNames
                /\ events[i].start \in Nat /\ events[i].duration \in Nat
           /\ \A w \in PhaseWorkers :
                /\ inPhase[w] \in Seq(PhaseRec)
                /\ Len(inPhase[w]) \in Nat /\ DOMAIN inPhase[w] = 1 .. Len(inPhase[w])
                /\ \A k \in 1 .. Len(inPhase[w]) :
                    inPhase[w][k] \in PhaseRec
                    /\ inPhase[w][k].name \in PhaseNames /\ inPhase[w][k].start \in Nat
           /\ clock \in Nat
           /\ \A name : Open(name) \in SUBSET (1 .. Len(events))
<1>1. events \in Seq(EventRec) /\ \A w \in PhaseWorkers : inPhase[w] \in Seq(PhaseRec)
  BY DEF TimelineTypes
<1>2. /\ Len(events) \in Nat /\ DOMAIN events = 1 .. Len(events)
      /\ \A i \in 1 .. Len(events) : events[i] \in EventRec
  BY <1>1, LenProperties, ElementOfSeq
<1>3. \A w \in PhaseWorkers :
        /\ Len(inPhase[w]) \in Nat /\ DOMAIN inPhase[w] = 1 .. Len(inPhase[w])
        /\ \A k \in 1 .. Len(inPhase[w]) : inPhase[w][k] \in PhaseRec
  BY <1>1, LenProperties, ElementOfSeq
<1>4. clock \in Nat
  BY TimelineAssumption DEF TimelineTypes
<1>5. \A name : Open(name) \in SUBSET (1 .. Len(events))
  BY <1>2 DEF Open
<1> QED
  BY <1>1, <1>2, <1>3, <1>4, <1>5 DEF EventRec, PhaseRec

LEMMA BegunIs ==
    ASSUME NEW b, Begun(b), NEW v \in PhaseWorkers, NEW k \in 1 .. Len(inPhase[v])
    PROVE  /\ b[v][k] \in 1 .. Len(events)
           /\ inPhase[v][k].name = events[b[v][k]].name
           /\ inPhase[v][k].start = events[b[v][k]].start
  BY DEF Begun

LEMMA BegunOnce ==
    ASSUME NEW b, Begun(b), NEW v \in PhaseWorkers, NEW k \in 1 .. Len(inPhase[v]),
           NEW u \in PhaseWorkers, NEW l \in 1 .. Len(inPhase[u]), b[u][l] = b[v][k]
    PROVE  u = v /\ l = k
<1>1. BegunApart(b)
  BY DEF Begun
<1> QED
  BY <1>1 DEF BegunApart

LEMMA TimelineInitHolds == TimelineInit => TimelineInv
<1> SUFFICES ASSUME TimelineInit PROVE TimelineInv
  OBVIOUS
<1>1. TimelineTypes /\ PeakIs
  <2>1. /\ <<>> \in Seq(EventRec) /\ <<>> \in Seq(PhaseRec) /\ <<>> \in Seq(Nat)
        /\ Len(<<>>) = 0
    OBVIOUS
  <2>2. clock \in 0 .. MaxTicks
    BY TimelineAssumption DEF TimelineInit
  <2>3. inPhase \in [PhaseWorkers -> Seq(PhaseRec)] /\ captured \in [PhaseWorkers -> HeapSizes \cup {Nothing}]
    BY <2>1 DEF TimelineInit
  <2>4. \A w \in PhaseWorkers : inPhase[w] = <<>>
    BY DEF TimelineInit
  <2>5. events = <<>> /\ snapshots = <<>> /\ spent = 0 /\ sameTick = FALSE /\ peak = 0
    BY DEF TimelineInit, Nothing
  <2>6. TimelineTypes
    <3>1. \A i \in 1 .. Len(events) : events[i].start + events[i].duration <= clock
      BY <2>1, <2>5
    <3>2. \A w \in PhaseWorkers : \A k \in 1 .. Len(inPhase[w]) : inPhase[w][k].start <= clock
      BY <2>1, <2>4
    <3> QED
      BY <2>1, <2>2, <2>3, <2>5, <3>1, <3>2 DEF TimelineTypes
  <2> QED
    BY <2>1, <2>6 DEF TimelineInit, PeakIs, Nothing
<1>2. PICK begun : begun = [w \in PhaseWorkers |-> [k \in Nat |-> 0]]
  OBVIOUS
<1>3. PICK total : total = [n \in 0 .. 0 |-> 0]
  OBVIOUS
<1>4. Begun(begun) /\ Totals(total, begun) /\ total[Len(events)] = spent
  <2>1. \A v \in PhaseWorkers : inPhase[v] = <<>>
    BY DEF TimelineInit
  <2>2. Len(<<>>) = 0
    OBVIOUS
  <2>3. BegunApart(begun)
    BY <2>1, <2>2 DEF BegunApart
  <2>4. Begun(begun)
    BY <1>2, <2>1, <2>2, <2>3 DEF Begun
  <2> QED
    BY <1>3, <2>2, <2>4 DEF Totals, TimelineInit
<1>5. ASSUME NEW name \in PhaseNames
      PROVE  Cardinality(Open(name)) = Cardinality(PhasesOf(begun, name))
  BY DEF Open, PhasesOf, TimelineInit
<1> QED
  BY <1>1, <1>4, <1>5 DEF TimelineInv, Ledger

LEMMA LedgerStays ==
    ASSUME UNCHANGED <<events, inPhase, spent>>, NEW begun, NEW total, Ledger(begun, total)
    PROVE  Ledger(begun, total)'
<1>1. BegunApart(begun) => BegunApart(begun)'
  BY DEF BegunApart
<1>2. Begun(begun)'
  BY <1>1 DEF Ledger, Begun
<1>3. \A i : InProgress(begun, i)' <=> InProgress(begun, i)
  BY DEF InProgress
<1>4. \A i : Share(begun, i)' = Share(begun, i)
  BY <1>3 DEF Share
<1>5. Totals(total, begun)' /\ total[Len(events')] = spent'
  BY <1>4 DEF Ledger, Totals
<1>6. \A name : Open(name)' = Open(name) /\ PhasesOf(begun, name)' = PhasesOf(begun, name)
  BY <1>3 DEF Open, PhasesOf
<1> QED
  BY <1>2, <1>5, <1>6 DEF Ledger

LEMMA TickStep == TimelineInv /\ Tick => TimelineInv'
<1> SUFFICES ASSUME TimelineInv, Tick PROVE TimelineInv'
  OBVIOUS
<1>1. /\ clock' = clock + 1 /\ clock < MaxTicks
      /\ UNCHANGED <<events, snapshots, peak, captured, inPhase, spent, sameTick>>
  BY DEF Tick, phaseVars, memoryVars
<1>2. TimelineTypes' /\ PeakIs'
  <2>1. TimelineTypes /\ PeakIs
    BY DEF TimelineInv
  <2>2. clock' \in 0 .. MaxTicks
    BY <1>1, <2>1, TimelineAssumption DEF TimelineTypes
  <2>3. \A i \in 1 .. Len(events) : events[i].start + events[i].duration <= clock + 1
    BY <2>1, EventFields DEF TimelineTypes
  <2>4. \A w \in PhaseWorkers : \A k \in 1 .. Len(inPhase[w]) : inPhase[w][k].start <= clock + 1
    BY <2>1, EventFields DEF TimelineTypes
  <2> QED
    BY <1>1, <2>1, <2>2, <2>3, <2>4 DEF TimelineTypes, PeakIs
<1> QED
  BY <1>1, <1>2, LedgerStays DEF TimelineInv

LEMMA MemoryStep ==
    ASSUME TimelineInv, NEW w \in PhaseWorkers,
           (\E heap \in HeapSizes : CaptureProfile(w, heap)) \/ RecordSnapshot(w)
    PROVE  TimelineInv'
<1>1. UNCHANGED <<clock, events, inPhase, spent, sameTick>>
  BY DEF CaptureProfile, RecordSnapshot, phaseVars
<1>2. TimelineTypes /\ PeakIs
  BY DEF TimelineInv
<1>3. captured' \in [PhaseWorkers -> HeapSizes \cup {Nothing}]
  BY <1>2 DEF TimelineTypes, CaptureProfile, RecordSnapshot
<1>4. snapshots' \in Seq(Nat) /\ peak' \in Nat /\ PeakIs'
  <2>1. CASE \E heap \in HeapSizes : CaptureProfile(w, heap)
    BY <1>2, <2>1 DEF CaptureProfile, TimelineTypes, PeakIs
  <2>2. CASE RecordSnapshot(w)
    <3>1. PICK heap : heap = captured[w]
      OBVIOUS
    <3>2. heap \in Nat /\ heap > 0
      <4>1. heap \in HeapSizes
        BY <1>2, <2>2, <3>1 DEF TimelineTypes, RecordSnapshot
      <4> QED
        BY <4>1, TimelineAssumption DEF Nothing
    <3>3. snapshots' = Append(snapshots, heap) /\ peak' = IF heap > peak THEN heap ELSE peak
      BY <2>2, <3>1 DEF RecordSnapshot, Higher
    <3>4. /\ snapshots' \in Seq(Nat) /\ Len(snapshots) \in Nat /\ Len(snapshots') = Len(snapshots) + 1
          /\ \A i \in 1 .. Len(snapshots) : snapshots'[i] = snapshots[i] /\ snapshots[i] \in Nat
          /\ snapshots'[Len(snapshots) + 1] = heap
      BY <1>2, <3>2, <3>3, AppendProperties, LenProperties, ElementOfSeq DEF TimelineTypes
    <3>5. peak \in Nat /\ peak' \in Nat /\ peak <= peak' /\ heap <= peak'
      BY <1>2, <3>2, <3>3 DEF TimelineTypes
    <3>6. \A i \in 1 .. Len(snapshots') : snapshots'[i] <= peak'
      <4> TAKE i \in 1 .. Len(snapshots')
      <4>1. CASE i = Len(snapshots) + 1
        BY <3>4, <3>5, <4>1
      <4>2. CASE i # Len(snapshots) + 1
        <5>1. i \in 1 .. Len(snapshots)
          BY <3>4, <4>2
        <5>2. snapshots[i] <= peak /\ snapshots[i] \in Nat /\ snapshots'[i] = snapshots[i]
          BY <1>2, <3>4, <5>1 DEF PeakIs
        <5> QED
          BY <3>5, <5>2
      <4> QED
        BY <4>1, <4>2
    <3>7. \E i \in 1 .. Len(snapshots') : snapshots'[i] = peak'
      <4>1. CASE heap > peak
        <5>1. Len(snapshots) + 1 \in 1 .. Len(snapshots')
          BY <3>4
        <5> QED
          BY <3>3, <3>4, <4>1, <5>1
      <4>2. CASE ~(heap > peak)
        <5>1. Len(snapshots) # 0
          BY <1>2, <3>2, <4>2 DEF PeakIs
        <5>2. PICK i \in 1 .. Len(snapshots) : snapshots[i] = peak
          BY <1>2, <5>1 DEF PeakIs
        <5>3. i \in 1 .. Len(snapshots') /\ snapshots'[i] = peak'
          BY <3>3, <3>4, <4>2, <5>2
        <5> QED
          BY <5>3
      <4> QED
        BY <4>1, <4>2
    <3> QED
      BY <3>4, <3>5, <3>6, <3>7 DEF PeakIs
  <2> QED
    BY <2>1, <2>2
<1>5. TimelineTypes'
  BY <1>1, <1>2, <1>3, <1>4 DEF TimelineTypes
<1> QED
  BY <1>1, <1>4, <1>5, LedgerStays DEF TimelineInv
LEMMA BeginPhaseStep ==
    ASSUME TimelineInv, NEW w \in PhaseWorkers, NEW name \in PhaseNames, BeginPhase(w, name)
    PROVE  TimelineInv'
<1>0. PICK n : n = Len(events)
  OBVIOUS
<1>1. /\ events' = Append(events, [name |-> name, start |-> clock, duration |-> 0])
      /\ inPhase' = [inPhase EXCEPT ![w] = Append(@, [name |-> name, start |-> clock])]
      /\ UNCHANGED <<clock, spent, sameTick, snapshots, peak, captured>>
  BY DEF BeginPhase, memoryVars
<1>2. TimelineTypes /\ PeakIs
  BY DEF TimelineInv
<1>3. n \in Nat /\ clock \in Nat
  BY <1>0, <1>2, EventFields
<1>4. /\ events' \in Seq(EventRec) /\ Len(events') = n + 1
      /\ \A i \in 1 .. n : events'[i] = events[i]
      /\ events'[n + 1] = [name |-> name, start |-> clock, duration |-> 0]
      /\ DOMAIN events' = 1 .. n + 1
  <2>1. [name |-> name, start |-> clock, duration |-> 0] \in EventRec /\ events \in Seq(EventRec)
    BY <1>2, <1>3 DEF EventRec, TimelineTypes
  <2> QED
    BY <1>0, <1>1, <2>1, AppendProperties, LenProperties
<1>5. PICK m : m = Len(inPhase[w])
  OBVIOUS
<1>6. /\ inPhase' \in [PhaseWorkers -> Seq(PhaseRec)]
      /\ \A v \in PhaseWorkers \ {w} : inPhase'[v] = inPhase[v]
      /\ m \in Nat /\ Len(inPhase'[w]) = m + 1
      /\ \A k \in 1 .. m : inPhase'[w][k] = inPhase[w][k]
      /\ inPhase'[w][m + 1] = [name |-> name, start |-> clock]
  <2>1. [name |-> name, start |-> clock] \in PhaseRec /\ inPhase[w] \in Seq(PhaseRec)
        /\ inPhase \in [PhaseWorkers -> Seq(PhaseRec)]
    BY <1>2, <1>3 DEF PhaseRec, TimelineTypes
  <2>2. PICK s : s = Append(inPhase[w], [name |-> name, start |-> clock])
    OBVIOUS
  <2>3. /\ s \in Seq(PhaseRec) /\ Len(s) = m + 1 /\ m \in Nat
        /\ \A k \in 1 .. m : s[k] = inPhase[w][k]
        /\ s[m + 1] = [name |-> name, start |-> clock]
    BY <1>5, <2>1, <2>2, AppendProperties, LenProperties
  <2>4. inPhase' = [inPhase EXCEPT ![w] = s]
    BY <1>1, <2>2
  <2> QED
    BY <2>1, <2>3, <2>4
<1>7. TimelineTypes'
  <2>1. \A i \in 1 .. Len(events') : events'[i].start + events'[i].duration <= clock
    <3> SUFFICES ASSUME NEW i \in 1 .. n + 1
                 PROVE  events'[i].start + events'[i].duration <= clock
      BY <1>4
    <3>1. CASE i = n + 1
      BY <1>3, <1>4, <3>1
    <3>2. CASE i # n + 1
      <4>1. i \in 1 .. n
        BY <1>3, <3>2
      <4> QED
        BY <1>0, <1>2, <1>4, <4>1 DEF TimelineTypes
    <3> QED
      BY <3>1, <3>2
  <2>2. \A v \in PhaseWorkers : \A k \in 1 .. Len(inPhase'[v]) : inPhase'[v][k].start <= clock
    <3> SUFFICES ASSUME NEW v \in PhaseWorkers, NEW k \in 1 .. Len(inPhase'[v])
                 PROVE  inPhase'[v][k].start <= clock
      OBVIOUS
    <3>1. CASE v = w /\ k = m + 1
      BY <1>3, <1>6, <3>1
    <3>2. CASE v = w /\ k # m + 1
      <4>1. k \in 1 .. m
        BY <1>6, <3>2
      <4> QED
        BY <1>2, <1>5, <1>6, <3>2, <4>1 DEF TimelineTypes
    <3>3. CASE v # w
      BY <1>2, <1>6, <3>3 DEF TimelineTypes
    <3> QED
      BY <3>1, <3>2, <3>3
  <2> QED
    BY <1>1, <1>2, <1>4, <1>6, <2>1, <2>2 DEF TimelineTypes
<1>8. PeakIs'
  BY <1>1, <1>2 DEF PeakIs
<1>9. ASSUME ~sameTick
      PROVE  \E begun, total : Ledger(begun, total)'
  <2>1. PICK b, t : Ledger(b, t)
    BY <1>9 DEF TimelineInv
  <2>a. /\ b \in [PhaseWorkers -> [Nat -> Nat]]
        /\ \A v \in PhaseWorkers : \A k \in 1 .. Len(inPhase[v]) :
            /\ b[v][k] \in 1 .. n
            /\ inPhase[v][k].name = events[b[v][k]].name
            /\ inPhase[v][k].start = events[b[v][k]].start
    BY <1>0, <2>1 DEF Ledger, Begun
  <2>2. PICK begun : begun = [b EXCEPT ![w] = [@ EXCEPT ![m + 1] = n + 1]]
    OBVIOUS
  <2>3. /\ begun \in [PhaseWorkers -> [Nat -> Nat]]
        /\ \A v \in PhaseWorkers \ {w} : begun[v] = b[v]
        /\ \A k \in Nat : begun[w][k] = IF k = m + 1 THEN n + 1 ELSE b[w][k]
    <3>1. n + 1 \in Nat /\ m + 1 \in Nat
      BY <1>3, <1>6
    <3> QED
      BY <2>2, <2>a, <3>1
  <2>4. \A v \in PhaseWorkers : \A k \in 1 .. Len(inPhase'[v]) :
            IF v = w /\ k = m + 1 THEN begun[v][k] = n + 1
            ELSE k \in 1 .. Len(inPhase[v]) /\ begun[v][k] = b[v][k] /\ b[v][k] \in 1 .. n
                 /\ inPhase'[v][k] = inPhase[v][k]
    <3> SUFFICES ASSUME NEW v \in PhaseWorkers, NEW k \in 1 .. Len(inPhase'[v])
                 PROVE  IF v = w /\ k = m + 1 THEN begun[v][k] = n + 1
                        ELSE k \in 1 .. Len(inPhase[v]) /\ begun[v][k] = b[v][k] /\ b[v][k] \in 1 .. n
                             /\ inPhase'[v][k] = inPhase[v][k]
      OBVIOUS
    <3>1. CASE v = w /\ k = m + 1
      BY <1>6, <2>3, <3>1
    <3>2. CASE v = w /\ k # m + 1
      <4>1. k \in 1 .. m /\ k \in Nat /\ k # m + 1
        BY <1>6, <3>2
      <4>2. k \in 1 .. Len(inPhase[w]) /\ inPhase'[w][k] = inPhase[w][k] /\ begun[w][k] = b[w][k]
        BY <1>5, <1>6, <2>3, <4>1
      <4> QED
        BY <2>a, <3>2, <4>2 \*, <2>a, <3>2, <4>1
    <3>3. CASE v # w
      BY <1>6, <2>3, <2>a, <3>3
    <3> QED
      BY <3>1, <3>2, <3>3
  <2>5. \A v \in PhaseWorkers : \A k \in 1 .. Len(inPhase[v]) :
            k \in 1 .. Len(inPhase'[v]) /\ begun[v][k] = b[v][k]
    <3> SUFFICES ASSUME NEW v \in PhaseWorkers, NEW k \in 1 .. Len(inPhase[v])
                 PROVE  k \in 1 .. Len(inPhase'[v]) /\ begun[v][k] = b[v][k]
      OBVIOUS
    <3>1. CASE v = w
      <4>1. k \in 1 .. m /\ k \in Nat /\ k # m + 1 /\ k \in 1 .. m + 1
        BY <1>5, <1>6, <3>1
      <4> QED
        BY <1>6, <2>3, <3>1, <4>1
    <3>2. CASE v # w
      BY <1>6, <2>3, <3>2
    <3> QED
      BY <3>1, <3>2
  <2>6. Begun(begun)'
    <3>1. ASSUME NEW v \in PhaseWorkers, NEW k \in 1 .. Len(inPhase'[v])
          PROVE  /\ begun[v][k] \in 1 .. n + 1
                 /\ inPhase'[v][k].name = events'[begun[v][k]].name
                 /\ inPhase'[v][k].start = events'[begun[v][k]].start
      <4>1. CASE v = w /\ k = m + 1
        BY <1>3, <1>4, <1>6, <2>4, <4>1
      <4>2. CASE ~(v = w /\ k = m + 1)
        <5>1. /\ k \in 1 .. Len(inPhase[v]) /\ begun[v][k] = b[v][k] /\ b[v][k] \in 1 .. n
              /\ inPhase'[v][k] = inPhase[v][k]
          BY <2>4, <4>2
        <5>2. inPhase[v][k].name = events[b[v][k]].name /\ inPhase[v][k].start = events[b[v][k]].start
          BY <2>a, <5>1
        <5>3. b[v][k] \in 1 .. n + 1 /\ events'[b[v][k]] = events[b[v][k]]
          BY <1>3, <1>4, <5>1
        <5> QED
          BY <5>1, <5>2, <5>3
      <4> QED
        BY <4>1, <4>2
    <3>2. ASSUME NEW v \in PhaseWorkers, NEW k \in 1 .. Len(inPhase'[v]),
                 NEW u \in PhaseWorkers, NEW l \in 1 .. Len(inPhase'[u]), begun[u][l] = begun[v][k]
          PROVE  u = v /\ l = k
      <4>1. \A i \in 1 .. n : i # n + 1
        BY <1>3
      <4>2. (v = w /\ k = m + 1) <=> (u = w /\ l = m + 1)
        BY <2>4, <3>2, <4>1
      <4>3. ASSUME ~(v = w /\ k = m + 1)
            PROVE  u = v /\ l = k
        <5>1. k \in 1 .. Len(inPhase[v]) /\ l \in 1 .. Len(inPhase[u]) /\ b[u][l] = b[v][k]
          BY <2>4, <3>2, <4>2, <4>3
        <5> QED
          BY <2>1, <5>1, BegunOnce DEF Ledger
      <4> QED
        BY <4>2, <4>3
    <3>3. BegunApart(begun)'
      BY <3>2 DEF BegunApart
    <3> QED
      BY <1>4, <2>3, <3>1, <3>3 DEF Begun
  <2>7. \A i \in 1 .. n : InProgress(begun, i)' <=> InProgress(b, i)
    <3> SUFFICES ASSUME NEW i \in 1 .. n PROVE InProgress(begun, i)' <=> InProgress(b, i)
      OBVIOUS
    <3>1. i # n + 1
      BY <1>3
    <3>2. InProgress(b, i) => InProgress(begun, i)'
      BY <2>5 DEF InProgress
    <3>3. InProgress(begun, i)' => InProgress(b, i)
      BY <2>4, <3>1 DEF InProgress
    <3> QED
      BY <3>2, <3>3
  <2>8. InProgress(begun, n + 1)'
    <3>1. m + 1 \in 1 .. Len(inPhase'[w]) /\ begun[w][m + 1] = n + 1
      BY SMTT(30), <1>6, <2>3
    <3> QED
      BY <3>1 DEF InProgress
  <2>9. PICK total : total = [k \in 0 .. n + 1 |-> IF k = n + 1 THEN t[n] ELSE t[k]]
    OBVIOUS
  <2>10. Totals(total, begun)' /\ total[n + 1] = spent
    <3>1. /\ t \in [0 .. n -> Int] /\ t[0] = 0 /\ t[n] = spent
          /\ \A k \in 1 .. n : t[k] = t[k - 1] + Share(b, k)
      BY <1>0, <2>1 DEF Ledger, Totals
    <3>2. \A k \in 1 .. n : Share(begun, k)' = Share(b, k)
      BY <1>4, <2>7 DEF Share
    <3>3. Share(begun, n + 1)' = 0
      BY <1>3, <1>4, <2>8 DEF Share
    <3>4. \A k \in 1 .. n : k \in 0 .. n + 1 /\ k - 1 \in 0 .. n + 1 /\ k # n + 1 /\ k - 1 # n + 1
      BY <1>3
    <3>5. n + 1 \in 0 .. n + 1 /\ n \in 0 .. n /\ n \in 0 .. n + 1 /\ n # n + 1 /\ 0 \in 0 .. n + 1
          /\ (n + 1) - 1 = n /\ 0 # n + 1
      BY <1>3
    <3>6. total \in [0 .. n + 1 -> Int]
      <4>1. \A k \in 0 .. n + 1 : k = n + 1 \/ k \in 0 .. n
        BY <1>3
      <4> QED
        BY <2>9, <3>1, <3>5, <4>1
    <3>7. total[0] = 0 /\ total[n] = t[n] /\ total[n + 1] = t[n]
      BY <2>9, <3>1, <3>5
    <3>8. \A k \in 1 .. n : total[k] = total[k - 1] + Share(b, k)
      BY <2>9, <3>1, <3>4
    <3>9. \A k \in 1 .. n + 1 : total[k] = total[k - 1] + Share(begun, k)'
      <4> TAKE k \in 1 .. n + 1
      <4>1. CASE k = n + 1
        <5>1. t[n] \in Int
          BY <3>1, <3>5
        <5> QED
          BY <3>3, <3>5, <3>7, <4>1, <5>1
      <4>2. CASE k # n + 1
        <5>1. k \in 1 .. n
          BY <1>3, <4>2
        <5> QED
          BY <3>2, <3>8, <5>1
      <4> QED
        BY <4>1, <4>2
    <3> QED
      BY <1>4, <3>1, <3>6, <3>7, <3>9 DEF Totals
  <2>11. ASSUME NEW another \in PhaseNames
         PROVE  Cardinality(Open(another))' = Cardinality(PhasesOf(begun, another))'
    <3>1. Cardinality(Open(another)) = Cardinality(PhasesOf(b, another))
      BY <2>1 DEF Ledger
    <3>2. IsFiniteSet(Open(another)) /\ IsFiniteSet(PhasesOf(b, another))
          /\ n + 1 \notin Open(another) /\ n + 1 \notin PhasesOf(b, another)
      <4>1. Open(another) \in SUBSET (1 .. n) /\ PhasesOf(b, another) \in SUBSET (1 .. n)
        BY <1>0, <1>2, EventFields DEF PhasesOf
      <4>2. IsFiniteSet(1 .. n) /\ n + 1 \notin 1 .. n
        BY <1>3, FS_Interval
      <4> QED
        BY <4>1, <4>2, FS_Subset
    <3>3. \A i : i \in 1 .. n + 1 <=> i \in 1 .. n \/ i = n + 1
      BY <1>3
    <3>4. DOMAIN events = 1 .. n /\ Len(events) = n
      BY <1>0, <1>2, EventFields
    <3>5. CASE another = name
      <4>1. Open(another)' = Open(another) \cup {n + 1}
        BY <1>4, <3>3, <3>4, <3>5 DEF Open
      <4>2. PhasesOf(begun, another)' = PhasesOf(b, another) \cup {n + 1}
        BY <1>4, <2>7, <2>8, <3>3, <3>4, <3>5 DEF PhasesOf
      <4> QED
        <5>1. Cardinality(Open(another) \cup {n + 1}) = Cardinality(Open(another)) + 1
          BY <3>2, FS_AddElement
        <5>2. Cardinality(PhasesOf(b, another) \cup {n + 1}) = Cardinality(PhasesOf(b, another)) + 1
          BY <3>2, FS_AddElement
        <5> QED
          BY <3>1, <4>1, <4>2, <5>1, <5>2
    <3>6. CASE another # name
      <4>1. Open(another)' = Open(another)
        BY <1>4, <3>3, <3>4, <3>6 DEF Open
      <4>2. PhasesOf(begun, another)' = PhasesOf(b, another)
        BY <1>4, <2>7, <3>3, <3>4, <3>6 DEF PhasesOf
      <4> QED
        BY <3>1, <4>1, <4>2
    <3> QED
      BY <3>5, <3>6
  <2>12. Ledger(begun, total)'
    BY <1>1, <1>4, <2>6, <2>10, <2>11 DEF Ledger
  <2> QED
    BY <2>12
<1> QED
  BY <1>1, <1>7, <1>8, <1>9 DEF TimelineInv

LEMMA LatestOpen ==
    ASSUME TimelineTypes, NEW name, Open(name) # {}
    PROVE  Latest(Open(name)) \in Open(name)
<1>1. Open(name) \in SUBSET (1 .. Len(events)) /\ Len(events) \in Nat
  BY EventFields
<1>2. \E i \in Open(name) : \A j \in Open(name) : j <= i
  BY <1>1, GreatestOf
<1> QED
  BY <1>2 DEF Latest

LEMMA EndPhaseStep ==
    ASSUME TimelineInv, NEW w \in PhaseWorkers, EndPhase(w)
    PROVE  TimelineInv'
<1>0. PICK n, m, name, since, i :
        n = Len(events) /\ m = Len(inPhase[w]) /\ name = inPhase[w][m].name
        /\ since = inPhase[w][m].start /\ i = Latest(Open(name))
  OBVIOUS
<1>1. /\ UNCHANGED <<clock, snapshots, peak, captured>>
      /\ spent' = spent + (clock - since)
      /\ inPhase' = [inPhase EXCEPT ![w] = SubSeq(@, 1, m - 1)]
      /\ inPhase[w] # <<>>
      /\ IF Open(name) = {} THEN UNCHANGED <<events, sameTick>>
         ELSE /\ events' = [events EXCEPT ![i].duration = clock - events[i].start]
              /\ sameTick' = (sameTick \/ clock = events[i].start)
  BY <1>0 DEF EndPhase, memoryVars, Elapsed
<1>2. TimelineTypes /\ PeakIs
  BY DEF TimelineInv
<1>3. n \in Nat /\ m \in Nat /\ m >= 1 /\ clock \in Nat /\ since \in Nat /\ since <= clock
      /\ name \in PhaseNames /\ spent \in Nat
  <2>1. m \in Nat /\ n \in Nat /\ clock \in Nat /\ inPhase[w] \in Seq(PhaseRec)
    BY <1>0, <1>2, EventFields
  <2>2. m # 0
    BY <1>0, <1>1, <2>1, EmptySeq
  <2>3. m \in 1 .. m /\ m >= 1
    BY <2>1, <2>2
  <2> QED
    BY <1>0, <1>2, <2>1, <2>3, EventFields DEF TimelineTypes
<1>4. /\ inPhase' \in [PhaseWorkers -> Seq(PhaseRec)]
      /\ \A v \in PhaseWorkers \ {w} : inPhase'[v] = inPhase[v]
      /\ Len(inPhase'[w]) = m - 1
      /\ \A k \in 1 .. m - 1 : inPhase'[w][k] = inPhase[w][k]
  <2>1. PICK s : s = SubSeq(inPhase[w], 1, m - 1)
    OBVIOUS
  <2>2. inPhase[w] \in Seq(PhaseRec) /\ inPhase \in [PhaseWorkers -> Seq(PhaseRec)]
    BY <1>2 DEF TimelineTypes
  <2>3. /\ s \in Seq(PhaseRec) /\ Len(s) = m - 1
        /\ \A k \in 1 .. m - 1 : s[k] = inPhase[w][k]
    <3>1. 1 \in 1 .. Len(inPhase[w]) + 1 /\ m - 1 \in 0 .. Len(inPhase[w]) /\ 1 <= (m - 1) + 1
      BY <1>0, <1>3
    <3> QED
      BY <1>0, <1>3, <2>1, <2>2, <3>1, SubSeqProperties
  <2>4. inPhase' = [inPhase EXCEPT ![w] = s]
    BY <1>1, <2>1
  <2> QED
    BY <2>2, <2>3, <2>4
<1>5. \A v \in PhaseWorkers : \A k \in 1 .. Len(inPhase'[v]) :
        k \in 1 .. Len(inPhase[v]) /\ inPhase'[v][k] = inPhase[v][k] /\ ~(v = w /\ k = m)
  <2> SUFFICES ASSUME NEW v \in PhaseWorkers, NEW k \in 1 .. Len(inPhase'[v])
               PROVE  k \in 1 .. Len(inPhase[v]) /\ inPhase'[v][k] = inPhase[v][k] /\ ~(v = w /\ k = m)
    OBVIOUS
  <2>1. CASE v = w
    <3>1. k \in 1 .. m - 1 /\ k \in 1 .. m /\ k # m
      BY <1>3, <1>4, <2>1
    <3> QED
      BY <1>0, <1>4, <2>1, <3>1
  <2>2. CASE v # w
    BY <1>4, <2>2
  <2> QED
    BY <2>1, <2>2
<1>6. \A v \in PhaseWorkers : \A k \in 1 .. Len(inPhase[v]) :
        (v = w /\ k = m) \/ k \in 1 .. Len(inPhase'[v])
  <2> SUFFICES ASSUME NEW v \in PhaseWorkers, NEW k \in 1 .. Len(inPhase[v]), ~(v = w /\ k = m)
               PROVE  k \in 1 .. Len(inPhase'[v])
    OBVIOUS
  <2>1. CASE v = w
    <3>1. k \in 1 .. m - 1
      BY <1>0, <1>3, <2>1
    <3> QED
      BY <1>4, <2>1, <3>1
  <2>2. CASE v # w
    BY <1>4, <2>2
  <2> QED
    BY <2>1, <2>2
<1>7. \A v \in PhaseWorkers : \A k \in 1 .. Len(inPhase'[v]) : inPhase'[v][k].start <= clock
  BY <1>2, <1>5 DEF TimelineTypes
<1>8. spent' \in Nat
  BY <1>1, <1>3
<1>9. PeakIs'
  BY <1>1, <1>2 DEF PeakIs
<1>10. CASE Open(name) = {}
  <2>1. TimelineTypes'
    BY <1>1, <1>2, <1>4, <1>7, <1>8, <1>10 DEF TimelineTypes
  <2>2. ASSUME ~sameTick, NEW b, NEW t, Ledger(b, t)
        PROVE  FALSE
    <3>1. b[w][m] \in 1 .. n /\ events[b[w][m]].name = name /\ m \in 1 .. Len(inPhase[w])
      <4>1. m \in 1 .. Len(inPhase[w]) /\ Begun(b)
        BY <1>0, <1>3, <2>2 DEF Ledger
      <4> QED
        BY <1>0, <4>1, BegunIs
    <3>2. b[w][m] \in PhasesOf(b, name)
      BY <1>0, <3>1 DEF PhasesOf, InProgress
    <3>3. Cardinality(PhasesOf(b, name)) = 0
      <4>1. Cardinality(Open(name)) = Cardinality(PhasesOf(b, name))
        BY <1>3, <2>2 DEF Ledger
      <4> QED
        BY <1>10, <4>1, FS_EmptySet
    <3>4. IsFiniteSet(PhasesOf(b, name))
      <4>1. PhasesOf(b, name) \in SUBSET (1 .. n) /\ IsFiniteSet(1 .. n)
        BY <1>0, <1>3, FS_Interval DEF PhasesOf
      <4> QED
        BY <4>1, FS_Subset
    <3> QED
      BY <3>2, <3>3, <3>4, FS_EmptySet
  <2> QED
    BY <1>1, <1>9, <1>10, <2>1, <2>2 DEF TimelineInv
<1>11. CASE Open(name) # {}
  <2>1. i \in 1 .. n /\ i \in Open(name) /\ events[i].name = name /\ events[i].duration = 0
        /\ events[i].start \in Nat /\ events[i].start <= clock
    <3>1. i \in Open(name) /\ Open(name) \in SUBSET (1 .. n)
      BY <1>0, <1>2, <1>11, LatestOpen, EventFields
    <3>2. i \in 1 .. n /\ events[i].name = name /\ events[i].duration = 0
      BY <3>1 DEF Open
    <3>3. events[i].start + events[i].duration <= clock /\ events[i].start \in Nat
      BY <1>0, <1>2, <3>2, EventFields DEF TimelineTypes
    <3> QED
      BY <1>3, <3>1, <3>2, <3>3
  <2>2. PICK e : e = [events[i] EXCEPT !.duration = clock - events[i].start]
    OBVIOUS
  <2>3. /\ e \in EventRec /\ e.name = events[i].name /\ e.start = events[i].start
        /\ e.duration = clock - events[i].start /\ e.duration \in Nat
        /\ e.start + e.duration <= clock
    <3>1. events[i] \in EventRec
      BY <1>0, <1>2, <2>1, EventFields
    <3>2. clock - events[i].start \in Nat /\ events[i].start + (clock - events[i].start) <= clock
      BY <1>3, <2>1
    <3> QED
      BY <2>2, <3>1, <3>2 DEF EventRec
  <2>4. /\ events' \in Seq(EventRec) /\ Len(events') = n /\ DOMAIN events' = 1 .. n
        /\ events'[i] = e /\ \A k \in 1 .. n \ {i} : events'[k] = events[k]
    <3>1. events' = [events EXCEPT ![i] = e] /\ events \in Seq(EventRec)
      BY <1>1, <1>2, <1>11, <2>2 DEF TimelineTypes
    <3> QED
      BY SMTT(30), <1>0, <1>3, <2>1, <2>3, <3>1, ExceptSeq, LenProperties
  <2>5. TimelineTypes'
    <3>1. \A k \in 1 .. n : events'[k].start + events'[k].duration <= clock
      BY <1>0, <1>2, <2>1, <2>3, <2>4 DEF TimelineTypes
    <3>2. sameTick' \in BOOLEAN
      BY <1>1, <1>2, <1>11 DEF TimelineTypes
    <3> QED
      BY <1>1, <1>2, <1>4, <1>7, <1>8, <2>4, <3>1, <3>2 DEF TimelineTypes
  <2>6. ASSUME ~sameTick'
        PROVE  \E begun, total : Ledger(begun, total)'
    <3>1. ~sameTick /\ clock # events[i].start
      BY <1>1, <1>11, <2>6
    <3>2. PICK b, t : Ledger(b, t)
      BY <3>1 DEF TimelineInv
    <3>3. PICK a : a = b[w][m]
      OBVIOUS
    <3>4. Begun(b) /\ b \in [PhaseWorkers -> [Nat -> Nat]]
      BY <3>2 DEF Ledger, Begun
    <3>5. \A k \in 1 .. n : events'[k].name = events[k].name /\ events'[k].start = events[k].start
      BY <2>3, <2>4
    <3>6. m \in 1 .. Len(inPhase[w])
      BY <1>0, <1>3
    <3>7. a \in 1 .. n /\ events[a].name = name /\ events[a].start = since
      BY <1>0, <3>3, <3>4, <3>6, BegunIs
    <3>8. \A k : InProgress(b, k)' <=> InProgress(b, k) /\ k # a
      <4> SUFFICES ASSUME NEW k PROVE InProgress(b, k)' <=> InProgress(b, k) /\ k # a
        OBVIOUS
      <4>1. ASSUME InProgress(b, k)' PROVE InProgress(b, k) /\ k # a
        <5>1. PICK v \in PhaseWorkers : \E l \in 1 .. Len(inPhase'[v]) : b[v][l] = k
          BY <4>1 DEF InProgress
        <5>2. PICK l \in 1 .. Len(inPhase'[v]) : b[v][l] = k
          BY <5>1
        <5>3. l \in 1 .. Len(inPhase[v]) /\ ~(v = w /\ l = m)
          BY <1>5
        <5>4. b[v][l] = a => v = w /\ l = m
          BY <3>3, <3>4, <3>6, <5>3, BegunOnce
        <5> QED
          BY <5>2, <5>3, <5>4 DEF InProgress
      <4>2. ASSUME InProgress(b, k), k # a PROVE InProgress(b, k)'
        <5>1. PICK v \in PhaseWorkers : \E l \in 1 .. Len(inPhase[v]) : b[v][l] = k
          BY <4>2 DEF InProgress
        <5>2. PICK l \in 1 .. Len(inPhase[v]) : b[v][l] = k
          BY <5>1
        <5>3. l \in 1 .. Len(inPhase'[v])
          BY <1>6, <3>3, <4>2, <5>2
        <5> QED
          BY <5>2, <5>3 DEF InProgress
      <4> QED
        BY <4>1, <4>2
    <3>9. InProgress(b, a)
      BY <3>3, <3>6 DEF InProgress
    <3>10. Begun(b)'
      <4>1. ASSUME NEW v \in PhaseWorkers, NEW k \in 1 .. Len(inPhase'[v])
            PROVE  /\ b[v][k] \in 1 .. n
                   /\ inPhase'[v][k].name = events'[b[v][k]].name
                   /\ inPhase'[v][k].start = events'[b[v][k]].start
        <5>1. k \in 1 .. Len(inPhase[v]) /\ inPhase'[v][k] = inPhase[v][k]
          BY <1>5
        <5>2. /\ b[v][k] \in 1 .. n /\ inPhase[v][k].name = events[b[v][k]].name
              /\ inPhase[v][k].start = events[b[v][k]].start
          BY <1>0, <3>4, <5>1, BegunIs
        <5> QED
          BY <3>5, <5>1, <5>2
      <4>2. ASSUME NEW v \in PhaseWorkers, NEW k \in 1 .. Len(inPhase'[v]),
                   NEW u \in PhaseWorkers, NEW l \in 1 .. Len(inPhase'[u]), b[u][l] = b[v][k]
            PROVE  u = v /\ l = k
        <5>1. k \in 1 .. Len(inPhase[v]) /\ l \in 1 .. Len(inPhase[u])
          BY <1>5
        <5>2. BegunApart(b)
          BY <3>4 DEF Begun
        <5> QED
          BY <4>2, <5>1, <5>2 DEF BegunApart
      <4>3. BegunApart(b)'
        BY <4>2 DEF BegunApart
      <4> QED
        BY <2>4, <3>4, <4>1, <4>3 DEF Begun
    <3>11. \A k \in 1 .. n :
              Share(b, k)' = Share(b, k) + (IF k = i THEN clock ELSE 0) - (IF k = a THEN since ELSE 0)
      <4> SUFFICES ASSUME NEW k \in 1 .. n
                   PROVE  Share(b, k)' = Share(b, k) + (IF k = i THEN clock ELSE 0)
                                                     - (IF k = a THEN since ELSE 0)
        OBVIOUS
      <4> DEFINE mine == IF events[k].duration = 0 THEN 0 - events[k].start ELSE events[k].duration
                 theirs == IF InProgress(b, k) THEN events[k].start ELSE 0
      <4>1. PICK x : x = mine
        OBVIOUS
      <4>2. PICK y : y = theirs
        OBVIOUS
      <4>3. events[k].start \in Nat /\ events[k].duration \in Nat
        BY <1>0, <1>2, EventFields
      <4>4. x \in Int /\ y \in Int
        BY <4>1, <4>2, <4>3
      <4>5. mine' = x + (IF k = i THEN clock ELSE 0)
        <5>1. CASE k = i
          <6>1. events'[k].duration = clock - events[i].start /\ events'[k].duration # 0
                /\ x = 0 - events[i].start
            BY <1>3, <2>1, <2>3, <2>4, <3>1, <4>1, <5>1
          <6> QED
            BY <1>3, <2>1, <5>1, <6>1
        <5>2. CASE k # i
          BY <2>4, <4>1, <4>4, <5>2
        <5> QED
          BY <5>1, <5>2
      <4>6. theirs' = y - (IF k = a THEN since ELSE 0)
        BY <1>3, <3>5, <3>7, <3>8, <3>9, <4>2, <4>3
      <4>7. Share(b, k) = x + y /\ Share(b, k)' = mine' + theirs'
        BY <4>1, <4>2 DEF Share
      <4> HIDE DEF mine, theirs
      <4> QED
        BY <1>3, <4>4, <4>5, <4>6, <4>7
    <3>12. PICK total : total = [k \in 0 .. n |-> t[k] + (IF i <= k THEN clock ELSE 0)
                                                     - (IF a <= k THEN since ELSE 0)]
      OBVIOUS
    <3>13. Totals(total, b)' /\ total[n] = spent'
      <4>1. /\ t \in [0 .. n -> Int] /\ t[0] = 0 /\ t[n] = spent
            /\ \A k \in 1 .. n : t[k] = t[k - 1] + Share(b, k)
        BY <1>0, <3>2 DEF Ledger, Totals
      <4>2. total \in [0 .. n -> Int]
        BY SMTT(30), <1>3, <2>1, <3>7, <3>12, <4>1
      <4>3. total[0] = 0 /\ total[n] = spent + (clock - since)
        <5>1. 0 \in 0 .. n /\ n \in 0 .. n /\ ~(i <= 0) /\ ~(a <= 0) /\ i <= n /\ a <= n
          BY <1>3, <2>1, <3>7
        <5> QED
          BY <1>3, <3>12, <4>1, <5>1
      <4>4. \A k \in 1 .. n : Share(b, k) \in Int
        <5> TAKE k \in 1 .. n
        <5>1. events[k].start \in Nat /\ events[k].duration \in Nat
          BY <1>0, <1>2, EventFields
        <5> QED
          BY <5>1 DEF Share
      <4>5. \A k \in 1 .. n : total[k] = total[k - 1] + Share(b, k)'
        <5> TAKE k \in 1 .. n
        <5>1. k \in 0 .. n /\ k - 1 \in 0 .. n /\ k \in Int /\ i \in Int /\ a \in Int
          BY <1>3, <2>1, <3>7
        <5>2. i <= k <=> i <= k - 1 \/ k = i
          BY <5>1
        <5>3. a <= k <=> a <= k - 1 \/ k = a
          BY <5>1
        <5>4. total[k] = t[k] + (IF i <= k THEN clock ELSE 0) - (IF a <= k THEN since ELSE 0)
              /\ total[k - 1] = t[k - 1] + (IF i <= k - 1 THEN clock ELSE 0)
                                         - (IF a <= k - 1 THEN since ELSE 0)
          BY <3>12, <5>1
        <5>5. t[k] = t[k - 1] + Share(b, k) /\ t[k] \in Int /\ t[k - 1] \in Int /\ Share(b, k) \in Int
          BY <4>1, <4>4, <5>1
        <5>6. Share(b, k)' = Share(b, k) + (IF k = i THEN clock ELSE 0) - (IF k = a THEN since ELSE 0)
          BY <3>11
        <5>7. ~(i <= k - 1 /\ k = i) /\ ~(a <= k - 1 /\ k = a)
          BY <5>1
        <5> HIDE <3>12
        <5> QED
          BY <1>3, <5>1, <5>2, <5>3, <5>4, <5>5, <5>6, <5>7
      <4> QED
        BY <1>1, <2>4, <4>2, <4>3, <4>5 DEF Totals
    <3>14. ASSUME NEW another \in PhaseNames
           PROVE  Cardinality(Open(another))' = Cardinality(PhasesOf(b, another))'
      <4>1. Cardinality(Open(another)) = Cardinality(PhasesOf(b, another))
        BY <3>2 DEF Ledger
      <4>2. DOMAIN events = 1 .. n /\ Len(events) = n
        BY <1>0, <1>2, EventFields
      <4>3. CASE another = name
        <5>1. Open(another)' = Open(another) \ {i}
          BY <2>1, <2>3, <2>4, <3>1, <4>2, <4>3, <1>3 DEF Open
        <5>2. PhasesOf(b, another)' = PhasesOf(b, another) \ {a}
          BY <2>4, <3>5, <3>8, <4>2 DEF PhasesOf
        <5>3. a \in PhasesOf(b, another) /\ i \in Open(another)
          BY <2>1, <3>7, <3>9, <4>2, <4>3 DEF PhasesOf
        <5>4. IsFiniteSet(Open(another)) /\ IsFiniteSet(PhasesOf(b, another))
          <6>1. Open(another) \in SUBSET (1 .. n) /\ PhasesOf(b, another) \in SUBSET (1 .. n)
            BY <4>2, <1>2, EventFields DEF PhasesOf
          <6>2. IsFiniteSet(1 .. n)
            BY <1>3, FS_Interval
          <6> QED
            BY <6>1, <6>2, FS_Subset
        <5>5. Cardinality(Open(another) \ {i}) = Cardinality(Open(another)) - 1
          BY <5>3, <5>4, FS_RemoveElement
        <5>6. Cardinality(PhasesOf(b, another) \ {a}) = Cardinality(PhasesOf(b, another)) - 1
          BY <5>3, <5>4, FS_RemoveElement
        <5> QED
          BY <4>1, <5>1, <5>2, <5>5, <5>6
      <4>4. CASE another # name
        <5>1. Open(another)' = Open(another)
          BY <2>1, <2>3, <2>4, <4>2, <4>4 DEF Open
        <5>2. PhasesOf(b, another)' = PhasesOf(b, another)
          BY <2>4, <3>5, <3>7, <3>8, <4>2, <4>4 DEF PhasesOf
        <5> QED
          BY <4>1, <5>1, <5>2
      <4> QED
        BY <4>3, <4>4
    <3>15. Ledger(b, total)'
      BY <2>4, <3>10, <3>13, <3>14 DEF Ledger
    <3> QED
      BY <3>15
  <2> QED
    BY <1>9, <2>5, <2>6 DEF TimelineInv
<1> QED
  BY <1>10, <1>11

LEMMA TimelineStep == TimelineInv /\ [TimelineNext]_timelineVars => TimelineInv'
<1> SUFFICES ASSUME TimelineInv, [TimelineNext]_timelineVars PROVE TimelineInv'
  OBVIOUS
<1>1. CASE UNCHANGED timelineVars
  <2>1. UNCHANGED <<clock, events, snapshots, peak, captured, inPhase, spent, sameTick>>
    BY <1>1 DEF timelineVars
  <2>2. TimelineTypes' /\ PeakIs'
    BY <2>1 DEF TimelineInv, TimelineTypes, PeakIs
  <2> QED
    BY <2>1, <2>2, LedgerStays DEF TimelineInv
<1>2. CASE TimelineNext
  <2>1. ASSUME NEW w \in PhaseWorkers, NEW name \in PhaseNames, BeginPhase(w, name)
        PROVE  TimelineInv'
    BY <2>1, BeginPhaseStep
  <2>2. ASSUME NEW w \in PhaseWorkers, EndPhase(w)
        PROVE  TimelineInv'
    BY <2>2, EndPhaseStep
  <2>3. ASSUME NEW w \in PhaseWorkers,
               (\E heap \in HeapSizes : CaptureProfile(w, heap)) \/ RecordSnapshot(w)
        PROVE  TimelineInv'
    BY <2>3, MemoryStep
  <2> QED
    BY <1>2, <2>1, <2>2, <2>3, TickStep DEF TimelineNext
<1> QED
  BY <1>1, <1>2

\* A sum that a recursive function tells is the sum that any such function tells.
LEMMA SumOfDurations ==
    ASSUME NEW n \in Nat, NEW g, NEW t \in [0 .. n -> Int], t[0] = 0,
           \A k \in 1 .. n : t[k] = t[k - 1] + g[k].duration
    PROVE  LET Sum[k \in 0 .. n] == IF k = 0 THEN 0 ELSE Sum[k - 1] + g[k].duration IN Sum[n] = t[n]
<1> DEFINE Sum[k \in 0 .. n] == IF k = 0 THEN 0 ELSE Sum[k - 1] + g[k].duration
<1>1. t = [k \in 0 .. n |-> IF k = 0 THEN 0 ELSE t[k - 1] + g[k].duration]
  <2>1. \A k \in 0 .. n : t[k] = IF k = 0 THEN 0 ELSE t[k - 1] + g[k].duration
    OBVIOUS
  <2> QED
    BY <2>1
<1>2. Sum = [k \in 0 .. n |-> IF k = 0 THEN 0 ELSE Sum[k - 1] + g[k].duration]
  BY <1>1
<1> HIDE DEF Sum
<1>3. \A k \in 0 .. n : Sum[k] = IF k = 0 THEN 0 ELSE Sum[k - 1] + g[k].duration
  BY <1>2
<1> DEFINE Bad == {k \in 0 .. n : Sum[k] # t[k]}
<1>4. Bad = {}
  <2> SUFFICES ASSUME Bad # {} PROVE FALSE
    OBVIOUS
  <2>1. PICK m \in Bad : \A k \in Bad : m <= k
    <3>1. Bad \in SUBSET Nat
      OBVIOUS
    <3> HIDE DEF Bad
    <3> QED
      BY <3>1, LeastNat
  <2>2. m \in 0 .. n /\ Sum[m] # t[m]
    BY <2>1
  <2>3. m # 0
    BY <1>3, <2>2
  <2>4. m - 1 \in 0 .. n /\ m \in 1 .. n /\ m - 1 < m
    BY <2>2, <2>3
  <2>5. Sum[m - 1] = t[m - 1]
    BY <2>1, <2>4
  <2> QED
    BY <1>3, <2>2, <2>3, <2>4, <2>5
<1>5. Sum[n] = t[n]
  BY <1>4
<1> QED
  BY <1>5 DEF Sum

LEMMA TimelineSound == TimelineInv => TimelineTypeOK /\ TimelineExact
<1> SUFFICES ASSUME TimelineInv PROVE TimelineTypeOK /\ TimelineExact
  OBVIOUS
<1>0. TimelineTypes /\ PeakIs
  BY DEF TimelineInv
<1>1. TimelineTypeOK
  BY <1>0, EventFields DEF TimelineTypes, TimelineTypeOK
<1>2. ASSUME \A w \in PhaseWorkers : inPhase[w] = <<>>, ~sameTick
      PROVE  /\ TotalDuration = spent
             /\ \A name \in PhaseNames : Open(name) = {}
  <2>1. PICK b, t : Ledger(b, t)
    BY <1>2 DEF TimelineInv
  <2>2. \A k : ~InProgress(b, k)
    <3>1. Len(<<>>) = 0
      OBVIOUS
    <3> QED
      BY <1>2, <3>1 DEF InProgress
  <2>3. ASSUME NEW name \in PhaseNames PROVE Open(name) = {}
    <3>1. PhasesOf(b, name) = {}
      BY <2>2 DEF PhasesOf
    <3>2. Cardinality(Open(name)) = 0
      <4>1. Cardinality(Open(name)) = Cardinality(PhasesOf(b, name))
        BY <2>1 DEF Ledger
      <4> QED
        BY <3>1, <4>1, FS_EmptySet
    <3>3. IsFiniteSet(Open(name))
      <4>1. Open(name) \in SUBSET (1 .. Len(events)) /\ Len(events) \in Nat
        BY <1>0, EventFields
      <4>2. IsFiniteSet(1 .. Len(events))
        BY <4>1, FS_Interval
      <4> QED
        BY <4>1, <4>2, FS_Subset
    <3> QED
      BY <3>2, <3>3, FS_EmptySet
  <2>4. \A k \in 1 .. Len(events) : Share(b, k) = events[k].duration
    <3> TAKE k \in 1 .. Len(events)
    <3>1. events[k].name \in PhaseNames /\ events[k].duration \in Nat /\ k \in DOMAIN events
      BY <1>0, EventFields
    <3>2. events[k].duration # 0
      BY <2>3, <3>1 DEF Open
    <3> QED
      BY <2>2, <3>1, <3>2 DEF Share
  <2>5. PICK n : n = Len(events)
    OBVIOUS
  <2>6. /\ n \in Nat /\ t \in [0 .. n -> Int] /\ t[0] = 0 /\ t[n] = spent
        /\ \A k \in 1 .. n : t[k] = t[k - 1] + events[k].duration
    BY <1>0, <2>1, <2>4, <2>5, EventFields DEF Ledger, Totals
  <2>7. TotalDuration = t[n]
    <3>1. LET Sum[k \in 0 .. n] == IF k = 0 THEN 0 ELSE Sum[k - 1] + events[k].duration IN Sum[n] = t[n]
      BY <2>6, SumOfDurations
    <3> QED
      BY <2>5, <3>1 DEF TotalDuration
  <2> QED
    BY <2>3, <2>6, <2>7
<1>3. /\ \A k \in DOMAIN snapshots : snapshots[k] <= peak
      /\ snapshots # <<>> => \E k \in DOMAIN snapshots : snapshots[k] = peak
  <2>1. snapshots \in Seq(Nat)
    BY <1>0 DEF TimelineTypes
  <2>2. DOMAIN snapshots = 1 .. Len(snapshots) /\ (Len(snapshots) = 0 => snapshots = <<>>)
    BY <2>1, LenProperties, EmptySeq
  <2> QED
    BY <1>0, <2>2 DEF PeakIs
<1> QED
  BY <1>1, <1>2, <1>3 DEF TimelineExact

\* For any workers, phases and clocks: no event outlasts the clock, the durations add up
\* as long as no phase ended in the tick it began in, and the peak is that of the
\* snapshots.
THEOREM TimelineExactCorrect == TimelineSpec => [](TimelineTypeOK /\ TimelineExact)
<1> QED
  BY TimelineInitHolds, TimelineStep, TimelineSound, PTL DEF TimelineSpec

-----------------------------------------------------------------------------
(* The route scanner: paths                                                *)

\* ds is dirs or a directory in it.
IsUnder(dirs, ds) == Len(dirs) <= Len(ds) /\ \A i \in 1 .. Len(dirs) : ds[i] = dirs[i]

NameAt(f, n) == PathTo(f)[n + 1]

\* The entry n of dirs is f or on the way to it.
Under(f, dirs, n) == IsUnder(dirs, f.dirs) /\ NameAt(f, Len(dirs)) = n

LEMMA PathIs ==
    ASSUME NEW f \in SiteFiles
    PROVE  /\ f.dirs \in Seq(RouteNames) /\ Len(f.dirs) \in Nat /\ DOMAIN f.dirs = 1 .. Len(f.dirs)
           /\ f.router \in Routers /\ f.name \in RouteNames /\ ~IsDirectory(f.name)
           /\ f = [router |-> f.router, dirs |-> f.dirs, name |-> f.name]
           /\ PathTo(f) \in Seq(RouteNames) /\ Len(PathTo(f)) = Len(f.dirs) + 1
           /\ NameAt(f, Len(f.dirs)) = f.name
           /\ \A i \in 1 .. Len(f.dirs) : /\ PathTo(f)[i] = f.dirs[i] /\ f.dirs[i] \in RouteNames
                                          /\ IsDirectory(f.dirs[i])
<1>1. f \in [router : Routers, dirs : Seq(RouteNames), name : RouteNames]
  BY RoutesAssumption
<1>2. f.dirs \in Seq(RouteNames) /\ f.router \in Routers /\ f.name \in RouteNames
  BY <1>1
<1>3. f = [router |-> f.router, dirs |-> f.dirs, name |-> f.name]
  BY <1>1
<1>4. Len(f.dirs) \in Nat /\ DOMAIN f.dirs = 1 .. Len(f.dirs)
  BY <1>2, LenProperties
<1>5. /\ PathTo(f) \in Seq(RouteNames) /\ Len(PathTo(f)) = Len(f.dirs) + 1
      /\ PathTo(f)[Len(f.dirs) + 1] = f.name
      /\ \A i \in 1 .. Len(f.dirs) : PathTo(f)[i] = f.dirs[i]
  BY <1>2, AppendProperties DEF PathTo
<1>6. \A i \in 1 .. Len(f.dirs) : f.dirs[i] \in RouteNames
  BY <1>2, ElementOfSeq
<1>7. ~IsDirectory(f.name) /\ \A i \in 1 .. Len(f.dirs) : IsDirectory(f.dirs[i])
  BY <1>4, RoutesAssumption
<1> QED
  BY <1>2, <1>3, <1>4, <1>5, <1>6, <1>7 DEF NameAt

LEMMA UnderIs ==
    ASSUME NEW f \in SiteFiles, NEW dirs \in Seq(RouteNames)
    PROVE  Len(PathTo(f)) > Len(dirs) /\ SubSeq(PathTo(f), 1, Len(dirs)) = dirs
             <=> IsUnder(dirs, f.dirs)
<1>1. PICK p, n, m : p = PathTo(f) /\ n = Len(dirs) /\ m = Len(f.dirs)
  OBVIOUS
<1>2. /\ p \in Seq(RouteNames) /\ Len(p) = m + 1 /\ m \in Nat /\ n \in Nat
      /\ \A i \in 1 .. m : p[i] = f.dirs[i]
  BY <1>1, PathIs, LenProperties
<1>3. CASE n <= m
  <2>1. \A i \in 1 .. n : i \in 1 .. Len(p) /\ i \in 1 .. m
    BY <1>2, <1>3
  <2>2. /\ SubSeq(p, 1, n) \in Seq(RouteNames) /\ Len(SubSeq(p, 1, n)) = n
        /\ \A i \in 1 .. n : SubSeq(p, 1, n)[i] = p[i]
    <3>1. \A i \in 1 .. n : p[i] \in RouteNames
      BY <1>2, <2>1, ElementOfSeq
    <3>2. n - 1 + 1 = n /\ (1 <= n \/ n = 0) /\ \A i \in 1 .. n : 1 + i - 1 = i
      BY <1>2
    <3>3. /\ SubSeq(p, 1, n) \in Seq(RouteNames)
          /\ Len(SubSeq(p, 1, n)) = IF 1 <= n THEN n - 1 + 1 ELSE 0
          /\ \A i \in 1 .. n - 1 + 1 : SubSeq(p, 1, n)[i] = p[1 + i - 1]
      BY <1>2, <3>1, SubSeqProperties
    <3> QED
      BY <1>2, <3>2, <3>3
  <2>3. SubSeq(p, 1, n) = dirs <=> \A i \in 1 .. n : p[i] = dirs[i]
    BY <1>1, <2>2, SeqEqual
  <2>4. IsUnder(dirs, f.dirs) <=> \A i \in 1 .. n : p[i] = dirs[i]
    BY <1>1, <1>2, <1>3, <2>1 DEF IsUnder
  <2>5. Len(p) > n
    BY <1>2, <1>3
  <2> QED
    BY <1>1, <2>3, <2>4, <2>5
<1>4. CASE ~(n <= m)
  BY <1>1, <1>2, <1>4 DEF IsUnder
<1> QED
  BY <1>3, <1>4

LEMMA UnderEntry ==
    ASSUME NEW f \in SiteFiles, NEW dirs \in Seq(RouteNames), NEW m \in RouteNames
    PROVE  /\ IsUnder(Append(dirs, m), f.dirs)
                <=> IsUnder(dirs, f.dirs) /\ NameAt(f, Len(dirs)) = m /\ IsDirectory(m)
           /\ IsUnder(dirs, f.dirs) => NameAt(f, Len(dirs)) \in RouteNames
           /\ IsUnder(dirs, f.dirs) /\ ~IsDirectory(NameAt(f, Len(dirs)))
                => f.dirs = dirs /\ f.name = NameAt(f, Len(dirs))
<1>1. PICK n, d, k : n = Len(dirs) /\ d = Append(dirs, m) /\ k = Len(f.dirs)
  OBVIOUS
<1>2. /\ n \in Nat /\ Len(d) = n + 1 /\ d[n + 1] = m /\ \A i \in 1 .. n : d[i] = dirs[i]
  BY <1>1, AppendProperties, LenProperties
<1>3. /\ k \in Nat /\ NameAt(f, k) = f.name /\ f.name \in RouteNames /\ ~IsDirectory(f.name)
      /\ \A i \in 1 .. k : /\ PathTo(f)[i] = f.dirs[i] /\ f.dirs[i] \in RouteNames
                            /\ IsDirectory(f.dirs[i])
      /\ f.dirs \in Seq(RouteNames)
  BY <1>1, PathIs
<1>4. CASE n < k
  <2>1. n + 1 \in 1 .. k /\ n + 1 <= k /\ n <= k
    BY <1>2, <1>3, <1>4
  <2>2. NameAt(f, n) = f.dirs[n + 1] /\ IsDirectory(NameAt(f, n)) /\ NameAt(f, n) \in RouteNames
    BY <1>3, <2>1 DEF NameAt
  <2>3. \A i : i \in 1 .. n + 1 <=> i \in 1 .. n \/ i = n + 1
    BY <1>2
  <2>4. IsUnder(d, f.dirs) <=> IsUnder(dirs, f.dirs) /\ f.dirs[n + 1] = m
    BY <1>1, <1>2, <2>1, <2>3 DEF IsUnder
  <2> QED
    BY <1>1, <2>2, <2>4
<1>5. CASE n = k
  <2>1. ~IsUnder(d, f.dirs)
    BY <1>1, <1>2, <1>3, <1>5 DEF IsUnder
  <2>2. IsUnder(dirs, f.dirs) => f.dirs = dirs
    BY <1>1, <1>3, <1>5, SeqEqual DEF IsUnder
  <2> QED
    BY <1>1, <1>3, <1>5, <2>1, <2>2
<1>6. CASE k < n
  <2>1. ~IsUnder(d, f.dirs) /\ ~IsUnder(dirs, f.dirs)
    BY <1>1, <1>2, <1>3, <1>6 DEF IsUnder
  <2> QED
    BY <1>1, <2>1
<1> QED
  BY <1>2, <1>3, <1>4, <1>5, <1>6

LEMMA EntriesAre ==
    ASSUME site \in SUBSET SiteFiles, NEW r, NEW dirs \in Seq(RouteNames)
    PROVE  /\ EntryNames(r, dirs) \in SUBSET RouteNames
           /\ EntryNames(r, dirs) \in SUBSET Nat
           /\ IsFiniteSet(EntryNames(r, dirs))
           /\ \A m : m \in EntryNames(r, dirs) <=>
                \E f \in site : f.router = r /\ IsUnder(dirs, f.dirs) /\ NameAt(f, Len(dirs)) = m
<1> DEFINE inside == {g \in site : g.router = r /\ IsUnder(dirs, g.dirs)}
<1>1. inside = {g \in site : g.router = r /\ Len(PathTo(g)) > Len(dirs)
                              /\ SubSeq(PathTo(g), 1, Len(dirs)) = dirs}
  BY UnderIs
<1>2. EntryNames(r, dirs) = {NameAt(f, Len(dirs)) : f \in inside}
  BY <1>1 DEF EntryNames, NameAt
<1>3. \A f \in inside : NameAt(f, Len(dirs)) \in RouteNames
  <2> SUFFICES ASSUME NEW f \in inside PROVE NameAt(f, Len(dirs)) \in RouteNames
    OBVIOUS
  <2>1. f \in SiteFiles /\ IsUnder(dirs, f.dirs)
    OBVIOUS
  <2>2. f.name \in RouteNames
    BY <2>1, PathIs
  <2> QED
    BY <2>1, <2>2, UnderEntry
<1>4. IsFiniteSet(inside)
  BY RoutesAssumption, FS_Subset
<1>5. IsFiniteSet(EntryNames(r, dirs))
  <2>1. PICK g : g = [f \in inside |-> NameAt(f, Len(dirs))]
    OBVIOUS
  <2>2. EntryNames(r, dirs) = {g[f] : f \in inside}
    BY <1>2, <2>1
  <2> HIDE DEF inside
  <2>3. IsFiniteSet({g[f] : f \in inside})
    <3>1. PICK T : T = {g[f] : f \in inside}
      OBVIOUS
    <3>2. g \in Surjection(inside, T)
      BY <2>1, <3>1 DEF Surjection
    <3> QED
      BY <1>4, <3>1, <3>2, FS_Surjection
  <2> QED
    BY <2>2, <2>3
<1>6. RouteNames \in SUBSET Nat
  BY RoutesAssumption
<1> QED
  BY <1>2, <1>3, <1>5, <1>6

\* An entry that is a directory has the file in it, any other is the file.
LEMMA EntryIs ==
    ASSUME NEW f \in SiteFiles, NEW dirs \in Seq(RouteNames), NEW n, Under(f, dirs, n)
    PROVE  /\ n \in RouteNames
           /\ ~IsDirectory(n) => f.dirs = dirs /\ f.name = n
           /\ IsDirectory(n) => IsUnder(Append(dirs, n), f.dirs)
<1>1. IsUnder(dirs, f.dirs) /\ NameAt(f, Len(dirs)) = n /\ f.name \in RouteNames
  BY PathIs DEF Under
<1>2. n \in RouteNames
  BY <1>1, UnderEntry
<1> QED
  BY <1>1, <1>2, UnderEntry

\* What ReadDir lists: every name once, in their order.
LEMMA NamesAre ==
    ASSUME site \in SUBSET SiteFiles, NEW r, NEW dirs \in Seq(RouteNames),
           NEW names, names = ReadDirNames(r, dirs)
    PROVE  /\ names \in Seq(RouteNames)
           /\ \A i, j \in DOMAIN names : i < j => names[i] < names[j]
           /\ \A i \in DOMAIN names : \E f \in site : f.router = r /\ Under(f, dirs, names[i])
           /\ \A f \in site : \A n :
                f.router = r /\ Under(f, dirs, n) => \E i \in DOMAIN names : names[i] = n
<1>1. PICK S : S = EntryNames(r, dirs)
  OBVIOUS
<1>2. /\ S \in SUBSET RouteNames /\ S \in SUBSET Nat /\ IsFiniteSet(S)
      /\ \A m : m \in S <=> \E f \in site : f.router = r /\ Under(f, dirs, m)
  BY <1>1, EntriesAre DEF Under
<1>3. PICK c : c = Cardinality(S)
  OBVIOUS
<1>4. /\ c \in Nat /\ names \in [1 .. c -> S]
      /\ \A i, j \in 1 .. c : i < j => names[i] < names[j]
      /\ \A n \in S : \E i \in 1 .. c : names[i] = n
  BY <1>1, <1>2, <1>3, InOrderIs DEF ReadDirNames
<1>5. names \in Seq(RouteNames) /\ DOMAIN names = 1 .. c
  <2>1. names \in [1 .. c -> RouteNames]
    BY <1>2, <1>4
  <2> QED
    BY <1>4, <2>1, FunIsSeq
<1> QED
  BY <1>2, <1>4, <1>5

LEMMA OnTheWay ==
    ASSUME NEW f \in SiteFiles, NEW dirs \in Seq(RouteNames)
    PROVE  Len(dirs) <= Len(f.dirs) /\ SubSeq(f.dirs, 1, Len(dirs)) = dirs <=> IsUnder(dirs, f.dirs)
<1>1. PICK p, n, m : p = f.dirs /\ n = Len(dirs) /\ m = Len(f.dirs)
  OBVIOUS
<1>2. /\ p \in Seq(RouteNames) /\ Len(p) = m /\ m \in Nat /\ n \in Nat
  BY <1>1, PathIs, LenProperties
<1>3. CASE n <= m
  <2>1. /\ SubSeq(p, 1, n) \in Seq(RouteNames) /\ Len(SubSeq(p, 1, n)) = n
        /\ \A i \in 1 .. n : SubSeq(p, 1, n)[i] = p[i]
    <3>1. \A i \in 1 .. n : p[i] \in RouteNames
      <4>1. \A i \in 1 .. n : i \in 1 .. m
        BY <1>2, <1>3
      <4> QED
        BY <1>2, <4>1, ElementOfSeq
    <3>2. n - 1 + 1 = n /\ (1 <= n \/ n = 0) /\ \A i \in 1 .. n : 1 + i - 1 = i
      BY <1>2
    <3>3. /\ SubSeq(p, 1, n) \in Seq(RouteNames)
          /\ Len(SubSeq(p, 1, n)) = IF 1 <= n THEN n - 1 + 1 ELSE 0
          /\ \A i \in 1 .. n - 1 + 1 : SubSeq(p, 1, n)[i] = p[1 + i - 1]
      BY <1>2, <3>1, SubSeqProperties
    <3> QED
      BY <1>2, <3>2, <3>3
  <2>2. SubSeq(p, 1, n) = dirs <=> \A i \in 1 .. n : p[i] = dirs[i]
    BY <1>1, <2>1, SeqEqual
  <2> QED
    BY <1>1, <1>3, <2>2 DEF IsUnder
<1>4. CASE ~(n <= m)
  BY <1>1, <1>4 DEF IsUnder
<1> QED
  BY <1>3, <1>4

-----------------------------------------------------------------------------
(* The route scanner: layouts                                              *)

\* The layout l is listed before the entry n of dirs, on the way to it.
OnWay(l, r, dirs, n) ==
    /\ NameKind[l.name] = "layout" /\ l.router = r /\ IsUnder(l.dirs, dirs)
    /\ l.name < Append(dirs, n)[Len(l.dirs) + 1]

LastAt(layout, r, dirs, n) ==
    IF layout = NoLayout THEN \A l \in stayed : ~OnWay(l, r, dirs, n)
    ELSE \E last \in seen : /\ layout = {last} /\ OnWay(last, r, dirs, n)
                            /\ \A l \in stayed : OnWay(l, r, dirs, n) => NotAfter(l, last)

LEMMA LayoutIsLastIs ==
    ASSUME stayed \in SUBSET SiteFiles, seen \in SUBSET SiteFiles, NEW r, r.file \in SiteFiles
    PROVE  LastAt(r.layout, r.file.router, r.file.dirs, r.file.name) => LayoutIsLast(r)
<1>1. PICK f : f = r.file
  OBVIOUS
<1>2. f \in SiteFiles
  BY <1>1
<1>3. ASSUME NEW l \in SiteFiles
      PROVE  OnWay(l, f.router, f.dirs, f.name) <=>
                /\ NameKind[l.name] = "layout" /\ l.router = f.router
                /\ Len(l.dirs) <= Len(f.dirs) /\ SubSeq(f.dirs, 1, Len(l.dirs)) = l.dirs
                /\ l.name < PathTo(f)[Len(l.dirs) + 1]
  <2>1. l.dirs \in Seq(RouteNames)
    BY PathIs
  <2>2. Len(l.dirs) <= Len(f.dirs) /\ SubSeq(f.dirs, 1, Len(l.dirs)) = l.dirs <=> IsUnder(l.dirs, f.dirs)
    BY <1>2, <2>1, OnTheWay
  <2> QED
    BY <2>2 DEF OnWay, PathTo
<1>4. \A files \in SUBSET SiteFiles :
        LayoutsBefore(f, files) = {l \in files : OnWay(l, f.router, f.dirs, f.name)}
  BY <1>3 DEF LayoutsBefore
<1>5. /\ LayoutsBefore(f, stayed) = {l \in stayed : OnWay(l, f.router, f.dirs, f.name)}
      /\ LayoutsBefore(f, seen) = {l \in seen : OnWay(l, f.router, f.dirs, f.name)}
  BY <1>4
<1>6. PICK always, sometimes : always = LayoutsBefore(f, stayed) /\ sometimes = LayoutsBefore(f, seen)
  OBVIOUS
<1>7. \A l : /\ l \in always <=> l \in stayed /\ OnWay(l, f.router, f.dirs, f.name)
             /\ l \in sometimes <=> l \in seen /\ OnWay(l, f.router, f.dirs, f.name)
  BY <1>5, <1>6
<1>8. LastAt(r.layout, f.router, f.dirs, f.name) =>
        IF r.layout = NoLayout THEN always = {}
        ELSE \E last \in sometimes : r.layout = {last} /\ \A l \in always : NotAfter(l, last)
  BY <1>7 DEF LastAt
<1> QED
  BY <1>1, <1>6, <1>8 DEF LayoutIsLast

\* What is passed from one entry of a directory to the next.
LEMMA OnWayNext ==
    ASSUME NEW l \in SiteFiles, NEW r, NEW dirs \in Seq(RouteNames),
           NEW n \in RouteNames, NEW m \in RouteNames, n < m
    PROVE  /\ OnWay(l, r, dirs, n) => OnWay(l, r, dirs, m)
           /\ OnWay(l, r, dirs, m) /\ ~OnWay(l, r, dirs, n) => l.dirs = dirs /\ n <= l.name /\ l.name < m
           /\ NameKind[l.name] = "layout" /\ l.router = r /\ l.dirs = dirs =>
                (OnWay(l, r, dirs, m) <=> l.name < m)
           /\ OnWay(l, r, dirs, m) => l.dirs = dirs \/ Len(l.dirs) < Len(dirs)
<1>1. PICK p, q, k, d : p = Append(dirs, n) /\ q = Append(dirs, m) /\ k = Len(l.dirs) /\ d = Len(dirs)
  OBVIOUS
<1>2. k \in Nat /\ d \in Nat /\ l.dirs \in Seq(RouteNames) /\ l.name \in Nat /\ n \in Nat /\ m \in Nat
  BY <1>1, PathIs, LenProperties, RoutesAssumption
<1>3. /\ p[d + 1] = n /\ q[d + 1] = m /\ \A i \in 1 .. d : p[i] = dirs[i] /\ q[i] = dirs[i]
  BY <1>1, AppendProperties
<1>4. IsUnder(l.dirs, dirs) => k <= d
  BY <1>1 DEF IsUnder
<1>5. IsUnder(l.dirs, dirs) /\ k = d => l.dirs = dirs
  BY <1>1, <1>2, SeqEqual DEF IsUnder
<1>6. k < d => p[k + 1] = q[k + 1]
  <2>1. k < d => k + 1 \in 1 .. d
    BY <1>2
  <2> QED
    BY <1>3, <2>1
<1>7. OnWay(l, r, dirs, n) <=> /\ NameKind[l.name] = "layout" /\ l.router = r
                               /\ IsUnder(l.dirs, dirs) /\ l.name < p[k + 1]
  BY <1>1 DEF OnWay
<1>8. OnWay(l, r, dirs, m) <=> /\ NameKind[l.name] = "layout" /\ l.router = r
                               /\ IsUnder(l.dirs, dirs) /\ l.name < q[k + 1]
  BY <1>1 DEF OnWay
<1>9. CASE k = d
  <2>1. p[k + 1] = n /\ q[k + 1] = m
    BY <1>3, <1>9
  <2>2. l.name < n => l.name < m
    BY <1>2
  <2>3. ~(l.name < n) => n <= l.name
    BY <1>2
  <2>4. l.dirs = dirs => IsUnder(l.dirs, dirs)
    BY <1>2, <1>9 DEF IsUnder
  <2> QED
    BY <1>5, <1>7, <1>8, <1>9, <2>1, <2>2, <2>3, <2>4
<1>10. CASE k < d
  <2>1. l.dirs # dirs
    BY <1>1, <1>2, <1>10
  <2> QED
    BY <1>1, <1>6, <1>7, <1>8, <1>10, <2>1
<1>11. CASE d < k
  <2>1. ~IsUnder(l.dirs, dirs) /\ l.dirs # dirs
    BY <1>1, <1>2, <1>4, <1>11
  <2> QED
    BY <1>7, <1>8, <2>1
<1> QED
  BY <1>2, <1>9, <1>10, <1>11

\* What is passed from an entry that is a directory to the entries in it.
LEMMA OnWayInto ==
    ASSUME NEW l \in SiteFiles, NEW r, NEW dirs \in Seq(RouteNames),
           NEW n \in RouteNames, NEW m \in RouteNames
    PROVE  /\ OnWay(l, r, dirs, n) => OnWay(l, r, Append(dirs, n), m)
           /\ OnWay(l, r, Append(dirs, n), m) /\ ~OnWay(l, r, dirs, n) =>
                l.dirs = Append(dirs, n) /\ l.name < m
<1>1. PICK p, q, k, d : p = Append(dirs, n) /\ q = Append(p, m) /\ k = Len(l.dirs) /\ d = Len(dirs)
  OBVIOUS
<1>2. k \in Nat /\ d \in Nat /\ l.dirs \in Seq(RouteNames)
  BY <1>1, PathIs, LenProperties
<1>3. /\ p \in Seq(RouteNames) /\ Len(p) = d + 1 /\ \A i \in 1 .. d : p[i] = dirs[i]
  BY <1>1, AppendProperties
<1>4. q[d + 2] = m /\ \A i \in 1 .. d + 1 : q[i] = p[i]
  <2>1. q[Len(p) + 1] = m /\ \A i \in 1 .. Len(p) : q[i] = p[i]
    BY <1>1, <1>3, AppendProperties
  <2> QED
    BY <1>2, <1>3, <2>1
<1>5. OnWay(l, r, dirs, n) <=> /\ NameKind[l.name] = "layout" /\ l.router = r
                               /\ IsUnder(l.dirs, dirs) /\ l.name < p[k + 1]
  BY <1>1 DEF OnWay
<1>6. OnWay(l, r, p, m) <=> /\ NameKind[l.name] = "layout" /\ l.router = r
                            /\ IsUnder(l.dirs, p) /\ l.name < q[k + 1]
  BY <1>1 DEF OnWay
<1>7. CASE k <= d
  <2>1. k + 1 \in 1 .. d + 1 /\ k <= d + 1 /\ \A i \in 1 .. k : i \in 1 .. d
    BY <1>2, <1>7
  <2>2. IsUnder(l.dirs, p) <=> IsUnder(l.dirs, dirs)
    BY <1>1, <1>3, <1>7, <2>1 DEF IsUnder
  <2>3. q[k + 1] = p[k + 1]
    BY <1>4, <2>1
  <2> QED
    BY <1>1, <1>5, <1>6, <2>2, <2>3
<1>8. CASE k = d + 1
  <2>1. ~IsUnder(l.dirs, dirs)
    BY <1>1, <1>2, <1>8 DEF IsUnder
  <2>2. IsUnder(l.dirs, p) => l.dirs = p
    BY <1>1, <1>2, <1>3, <1>8, SeqEqual DEF IsUnder
  <2>3. q[k + 1] = m
    BY <1>2, <1>4, <1>8
  <2> QED
    BY <1>1, <1>5, <1>6, <2>1, <2>2, <2>3
<1>9. CASE k > d + 1
  <2>1. ~IsUnder(l.dirs, dirs) /\ ~IsUnder(l.dirs, p)
    BY <1>1, <1>2, <1>3, <1>9 DEF IsUnder
  <2> QED
    BY <1>1, <1>5, <1>6, <2>1
<1> QED
  BY <1>2, <1>7, <1>8, <1>9

\* The layout of the next entry: this one, if the file n is a layout.
LEMMA LastAtNext ==
    ASSUME stayed \in SUBSET SiteFiles, seen \in SUBSET SiteFiles, NEW r,
           NEW dirs \in Seq(RouteNames), NEW n \in RouteNames, NEW m \in RouteNames, n < m,
           NEW layout, LastAt(layout, r, dirs, n),
           \A l \in stayed : l.router = r /\ l.dirs = dirs /\ l.name < m => l.name <= n
    PROVE  /\ NameKind[n] # "layout" => LastAt(layout, r, dirs, m)
           /\ \A f \in seen : f.router = r /\ f.dirs = dirs /\ f.name = n /\ NameKind[n] = "layout"
                => LastAt({f}, r, dirs, m)
<1>1. n \in Nat /\ m \in Nat /\ \A l \in SiteFiles : l.name \in Nat
  BY PathIs, RoutesAssumption
<1>2. \A l \in stayed : OnWay(l, r, dirs, m) => OnWay(l, r, dirs, n) \/ (l.dirs = dirs /\ l.name = n)
  <2> SUFFICES ASSUME NEW l \in stayed, OnWay(l, r, dirs, m), ~OnWay(l, r, dirs, n)
               PROVE  l.dirs = dirs /\ l.name = n
    OBVIOUS
  <2>1. l.dirs = dirs /\ n <= l.name /\ l.name < m
    BY OnWayNext
  <2>2. l.router = r
    BY DEF OnWay
  <2>3. l.name <= n /\ l.name \in Nat
    BY <1>1, <2>1, <2>2
  <2> QED
    BY <1>1, <2>1, <2>3
<1>3. ASSUME NameKind[n] # "layout"
      PROVE  LastAt(layout, r, dirs, m)
  <2>1. \A l \in stayed : OnWay(l, r, dirs, m) => OnWay(l, r, dirs, n)
    BY <1>2, <1>3 DEF OnWay
  <2>2. \A l \in seen : OnWay(l, r, dirs, n) => OnWay(l, r, dirs, m)
    BY OnWayNext
  <2> QED
    BY <2>1, <2>2 DEF LastAt
<1>4. ASSUME NEW f \in seen, f.router = r, f.dirs = dirs, f.name = n, NameKind[n] = "layout"
      PROVE  LastAt({f}, r, dirs, m)
  <2>1. OnWay(f, r, dirs, m)
    BY <1>4, OnWayNext
  <2>2. ASSUME NEW l \in stayed, OnWay(l, r, dirs, m)
        PROVE  NotAfter(l, f)
    <3>1. l.dirs = dirs \/ Len(l.dirs) < Len(dirs)
      BY <2>2, OnWayNext
    <3>2. l.dirs = dirs => l.name <= n
      <4> SUFFICES ASSUME l.dirs = dirs PROVE l.name <= n
        OBVIOUS
      <4>1. l.router = r /\ NameKind[l.name] = "layout"
        BY <2>2 DEF OnWay
      <4>2. l.name < m
        BY <2>2, <4>1, OnWayNext
      <4> QED
        BY <4>1, <4>2
    <3> QED
      BY <1>4, <3>1, <3>2 DEF NotAfter
  <2>3. {f} # NoLayout
    BY DEF NoLayout
  <2> QED
    BY <2>1, <2>2, <2>3 DEF LastAt
<1> QED
  BY <1>3, <1>4

\* The layout of the first entry of a directory is that of the directory.
LEMMA LastAtInto ==
    ASSUME stayed \in SUBSET SiteFiles, seen \in SUBSET SiteFiles, NEW r,
           NEW dirs \in Seq(RouteNames), NEW n \in RouteNames, NEW m \in RouteNames,
           NEW layout, LastAt(layout, r, dirs, n),
           \A l \in stayed : l.router = r /\ l.dirs = Append(dirs, n) => ~(l.name < m)
    PROVE  LastAt(layout, r, Append(dirs, n), m)
<1>1. \A l \in stayed : OnWay(l, r, Append(dirs, n), m) => OnWay(l, r, dirs, n)
  <2> SUFFICES ASSUME NEW l \in stayed, OnWay(l, r, Append(dirs, n), m), ~OnWay(l, r, dirs, n)
               PROVE  FALSE
    OBVIOUS
  <2>1. l.dirs = Append(dirs, n) /\ l.name < m
    BY OnWayInto
  <2>2. l.router = r
    BY DEF OnWay
  <2> QED
    BY <2>1, <2>2
<1>2. \A l \in seen : OnWay(l, r, dirs, n) => OnWay(l, r, Append(dirs, n), m)
  BY OnWayInto
<1> QED
  BY <1>1, <1>2 DEF LastAt

\* The first entry of all has no layout before it.
LEMMA LastAtRoot ==
    ASSUME stayed \in SUBSET SiteFiles, NEW r, NEW n \in RouteNames,
           \A l \in stayed : l.router = r /\ l.dirs = <<>> => ~(l.name < n)
    PROVE  LastAt(NoLayout, r, <<>>, n)
<1>1. ASSUME NEW l \in stayed, OnWay(l, r, <<>>, n) PROVE FALSE
  <2>1. l.dirs \in Seq(RouteNames) /\ Len(l.dirs) \in Nat /\ Len(l.dirs) <= 0
    BY <1>1, PathIs DEF OnWay, IsUnder
  <2>2. l.dirs = <<>>
    BY <2>1, EmptySeq
  <2>3. Append(<<>>, n)[1] = n
    OBVIOUS
  <2>4. l.name < n /\ l.router = r
    BY <1>1, <2>2, <2>3 DEF OnWay
  <2> QED
    BY <2>2, <2>4
<1> QED
  BY <1>1 DEF LastAt

\* It stays so while files come and go.
LEMMA LastAtStays ==
    ASSUME stayed' \in SUBSET stayed, seen \in SUBSET seen', NEW layout, NEW r, NEW dirs, NEW n,
           LastAt(layout, r, dirs, n)
    PROVE  LastAt(layout, r, dirs, n)'
  BY DEF LastAt

-----------------------------------------------------------------------------
(* The route scanner: the invariant                                        *)

CallRec == [dirs : Seq(RouteNames), layout : SUBSET SiteFiles, names : Seq(RouteNames)]
RouteRec == {ParseFile(f, layout) : f \in SiteFiles, layout \in SUBSET SiteFiles}
RouteSteps == {"idle", "stat", "read", "scan", "manifest", "done", "failed"}

RouteTypes ==
    /\ site \in SUBSET SiteFiles /\ stayed \in SUBSET seen /\ seen \in SUBSET SiteFiles
    /\ siteEdits \in 0 .. MaxSiteEdits /\ routeStep \in RouteSteps /\ router \in Routers
    /\ dirCalls \in Seq(CallRec) /\ \A k \in DOMAIN dirCalls : dirCalls[k].layout \in SUBSET seen
    /\ foundRoutes \in Seq(RouteRec)
    /\ \A i \in DOMAIN foundRoutes :
        foundRoutes[i].file \in seen /\ foundRoutes[i].layout \in SUBSET seen

\* The k-th call of scanDir has k - 1 directories, and lists what was there at some
\* time; a file that stayed is among the entries to visit or before all of them; and
\* the layout it passes on is that of the next of them.
CallRight(c, k, r) ==
    /\ Len(c.dirs) = k - 1
    /\ \A i, j \in DOMAIN c.names : i < j => c.names[i] < c.names[j]
    /\ \A i \in DOMAIN c.names : \E f \in seen : f.router = r /\ Under(f, c.dirs, c.names[i])
    /\ \A f \in stayed : \A n :
        f.router = r /\ Under(f, c.dirs, n) =>
            (\E i \in DOMAIN c.names : c.names[i] = n) \/ \A i \in DOMAIN c.names : n < c.names[i]
    /\ c.names # <<>> => LastAt(c.layout, r, c.dirs, c.names[1])

\* The call d was made by c, directly or not: c has yet to visit what comes after d's
\* directory.
Inside(d, c) ==
    /\ Len(c.dirs) < Len(d.dirs) /\ IsUnder(c.dirs, d.dirs)
    /\ \A i \in DOMAIN c.names : d.dirs[Len(c.dirs) + 1] < c.names[i]

CallsRight ==
    routeStep = "scan" =>
        /\ dirCalls # <<>>
        /\ \A k \in 1 .. Len(dirCalls) : CallRight(dirCalls[k], k, router)
        /\ \A k \in 1 .. Len(dirCalls) : \A j \in 1 .. k - 1 : Inside(dirCalls[k], dirCalls[j])

\* Before it scans, Scan has called nothing; the files that stayed are still there.
BetweenCalls ==
    /\ Scanning => stayed \in SUBSET site /\ site \in SUBSET seen
    /\ routeStep \in {"stat", "read"} => dirCalls = <<>>

\* The file f is still to come.
Waits(c, f) == \E i \in DOMAIN c.names : Under(f, c.dirs, c.names[i])
Pending(f) ==
    /\ Scanning
    /\ \/ router = "app" /\ f.router = "pages"
       \/ f.router = router /\ routeStep # "scan"
       \/ f.router = router /\ \E k \in 1 .. Len(dirCalls) : Waits(dirCalls[k], f)

RouteRight(r) ==
    /\ NameKind[r.file.name] # "none"
    /\ LastAt(r.layout, r.file.router, r.file.dirs, r.file.name)

FoundRight ==
    routeStep \notin {"idle", "failed"} =>
        /\ \A f \in stayed : \/ NameKind[f.name] = "none" \/ Pending(f)
                             \/ \E i \in 1 .. Len(foundRoutes) : foundRoutes[i].file = f
        /\ \A i \in 1 .. Len(foundRoutes) : RouteRight(foundRoutes[i]) /\ ~Pending(foundRoutes[i].file)
        /\ \A i, j \in 1 .. Len(foundRoutes) : foundRoutes[i].file = foundRoutes[j].file => i = j

ListReturned == routeStep \in {"manifest", "done"} => routeList = WithChildren(foundRoutes)

RoutesInv == RouteTypes /\ BetweenCalls /\ CallsRight /\ FoundRight /\ ListReturned

LEMMA RoutesInitHolds == RoutesInit => RoutesInv
<1> SUFFICES ASSUME RoutesInit PROVE RoutesInv
  OBVIOUS
<1>1. /\ site \in SUBSET SiteFiles /\ stayed = {} /\ seen = {} /\ siteEdits = 0
      /\ routeStep = "idle" /\ router = "app" /\ dirCalls = <<>> /\ foundRoutes = <<>>
  BY DEF RoutesInit
<1>2. RouteTypes
  <2>1. <<>> \in Seq(CallRec) /\ <<>> \in Seq(RouteRec) /\ siteEdits \in 0 .. MaxSiteEdits
    BY <1>1, RoutesAssumption
  <2> QED
    BY <1>1, <2>1 DEF RouteTypes, RouteSteps, Routers
<1> QED
  BY <1>1, <1>2 DEF RoutesInv, BetweenCalls, CallsRight, FoundRight, ListReturned, Scanning

LEMMA CallFields ==
    ASSUME RouteTypes
    PROVE  /\ Len(dirCalls) \in Nat /\ DOMAIN dirCalls = 1 .. Len(dirCalls)
           /\ \A k \in 1 .. Len(dirCalls) :
                /\ dirCalls[k] \in CallRec /\ dirCalls[k].layout \in SUBSET seen
                /\ dirCalls[k].dirs \in Seq(RouteNames) /\ dirCalls[k].names \in Seq(RouteNames)
           /\ Len(foundRoutes) \in Nat /\ DOMAIN foundRoutes = 1 .. Len(foundRoutes)
           /\ \A i \in 1 .. Len(foundRoutes) :
                /\ foundRoutes[i] = ParseFile(foundRoutes[i].file, foundRoutes[i].layout)
                /\ foundRoutes[i].file \in seen /\ foundRoutes[i].layout \in SUBSET seen
<1>1. dirCalls \in Seq(CallRec) /\ foundRoutes \in Seq(RouteRec)
  BY DEF RouteTypes
<1>2. /\ \A k \in 1 .. Len(dirCalls) : dirCalls[k] \in CallRec
      /\ \A i \in 1 .. Len(foundRoutes) : foundRoutes[i] \in RouteRec
  BY <1>1, ElementOfSeq
<1>3. \A c \in CallRec : c.dirs \in Seq(RouteNames) /\ c.names \in Seq(RouteNames)
  BY DEF CallRec
<1>4. \A r \in RouteRec : r = ParseFile(r.file, r.layout)
  BY DEF RouteRec, ParseFile
<1> QED
  BY <1>1, <1>2, <1>3, <1>4, LenProperties DEF RouteTypes

\* What a call knows of the files stays so while files come and go.
LEMMA CallStays ==
    ASSUME stayed' \in SUBSET stayed, seen \in SUBSET seen', NEW c, NEW k, NEW r, CallRight(c, k, r)
    PROVE  CallRight(c, k, r)'
<1>1. c.names # <<>> => LastAt(c.layout, r, c.dirs, c.names[1])'
  BY LastAtStays DEF CallRight
<1> QED
  BY <1>1 DEF CallRight

LEMMA RouteStays ==
    ASSUME stayed' \in SUBSET stayed, seen \in SUBSET seen', NEW r, RouteRight(r)
    PROVE  RouteRight(r)'
<1>1. LastAt(r.layout, r.file.router, r.file.dirs, r.file.name)'
  BY LastAtStays DEF RouteRight
<1> QED
  BY <1>1 DEF RouteRight

\* A step of the scan that finds nothing and forgets nothing.
LEMMA FoundStays ==
    ASSUME RoutesInv, routeStep \notin {"idle", "failed"}, foundRoutes' = foundRoutes,
           stayed' \in SUBSET stayed, seen \in SUBSET seen',
           \A f \in stayed : Pending(f) => Pending(f)', \A f \in SiteFiles : Pending(f)' => Pending(f)
    PROVE  FoundRight'
<1>1. /\ \A f \in stayed : \/ NameKind[f.name] = "none" \/ Pending(f)
                           \/ \E i \in 1 .. Len(foundRoutes) : foundRoutes[i].file = f
      /\ \A i \in 1 .. Len(foundRoutes) : RouteRight(foundRoutes[i]) /\ ~Pending(foundRoutes[i].file)
      /\ \A i, j \in 1 .. Len(foundRoutes) : foundRoutes[i].file = foundRoutes[j].file => i = j
  BY DEF RoutesInv, FoundRight
<1>2. PICK F : F = foundRoutes
  OBVIOUS
<1>3. \A i \in 1 .. Len(F) : RouteRight(F[i])'
  <2>1. \A i \in 1 .. Len(F) : RouteRight(F[i])
    BY <1>1, <1>2
  <2> QED
    BY <2>1, RouteStays
<1>4. \A i \in 1 .. Len(F) : F[i].file \in SiteFiles
  BY <1>2, CallFields DEF RoutesInv, RouteTypes
<1>5. \A i \in 1 .. Len(F) : ~Pending(F[i].file)'
  BY <1>1, <1>2, <1>4
<1>6. \A f \in stayed' : \/ NameKind[f.name] = "none" \/ Pending(f)'
                         \/ \E i \in 1 .. Len(F) : F[i].file = f
  BY <1>1, <1>2
<1>7. \A i, j \in 1 .. Len(F) : F[i].file = F[j].file => i = j
  BY <1>1, <1>2
<1>8. foundRoutes' = F
  BY <1>2
<1> HIDE DEF RoutesInv
<1> QED
  BY <1>3, <1>5, <1>6, <1>7, <1>8 DEF FoundRight

LEMMA EditSiteStep ==
    ASSUME RoutesInv, EditSite
    PROVE  RoutesInv'
<1> USE DEF RoutesInv
<1>1. /\ UNCHANGED <<routeStep, router, dirCalls, foundRoutes, routeList>>
      /\ siteEdits' \in 0 .. MaxSiteEdits /\ site' \in SUBSET SiteFiles
  <2>1. siteEdits' \in 0 .. MaxSiteEdits
    BY RoutesAssumption DEF EditSite, RouteTypes
  <2> QED
    BY <2>1 DEF EditSite, scanVars, RouteTypes
<1>2. /\ stayed' \in SUBSET stayed /\ seen \in SUBSET seen' /\ seen' \in SUBSET SiteFiles
      /\ Scanning => stayed' \in SUBSET site' /\ site' \in SUBSET seen'
  BY <1>1 DEF EditSite, RouteTypes
<1>3. RouteTypes'
  <2>1. stayed' \in SUBSET seen'
    BY <1>2 DEF RouteTypes
  <2>2. \A S \in SUBSET seen : S \in SUBSET seen'
    BY <1>2
  <2> QED
    BY <1>1, <1>2, <2>1, <2>2 DEF RouteTypes
<1>4. BetweenCalls' /\ ListReturned'
  BY <1>1, <1>2 DEF BetweenCalls, ListReturned, Scanning
<1>5. CallsRight'
  BY <1>1, <1>2, CallStays DEF CallsRight
<1>6. FoundRight'
  <2>1. CASE routeStep \in {"idle", "failed"}
    BY <1>1, <2>1 DEF FoundRight
  <2>2. CASE routeStep \notin {"idle", "failed"}
    <3>1. \A f : Pending(f)' <=> Pending(f)
      BY <1>1 DEF Pending, Scanning
    <3> QED
      BY <1>1, <1>2, <2>2, <3>1, FoundStays
  <2> QED
    BY <2>1, <2>2
<1> QED
  BY <1>3, <1>4, <1>5, <1>6

LEMMA ScanRoutesBeginStep ==
    ASSUME RoutesInv, ScanRoutesBegin
    PROVE  RoutesInv'
<1> USE DEF RoutesInv
<1>1. /\ routeStep' = "stat" /\ router' = "app" /\ dirCalls' = <<>> /\ foundRoutes' = <<>>
      /\ stayed' = site /\ seen' = site /\ UNCHANGED <<site, siteEdits>>
  BY DEF ScanRoutesBegin
<1>2. RouteTypes'
  <2>1. <<>> \in Seq(CallRec) /\ <<>> \in Seq(RouteRec)
    OBVIOUS
  <2> QED
    BY <1>1, <2>1 DEF RouteTypes, RouteSteps, Routers
<1>3. \A f \in site : Pending(f)'
  <2>1. \A f \in site : f.router \in Routers
    BY PathIs DEF RouteTypes
  <2> QED
    BY <1>1, <2>1 DEF Pending, Scanning, Routers
<1>4. FoundRight'
  BY <1>1, <1>3 DEF FoundRight
<1> QED
  BY <1>1, <1>2, <1>4 DEF BetweenCalls, CallsRight, ListReturned, Scanning

\* From one router to the next, when nothing of it is left.
LEMMA NextRouterStep ==
    ASSUME RoutesInv, Scanning, NextRouter, dirCalls' = <<>>,
           UNCHANGED <<site, foundRoutes, siteEdits, stayed, seen>>,
           \A f \in stayed : f.router = router => ~Pending(f)
    PROVE  RoutesInv'
<1> USE DEF RoutesInv
<1>1. \/ router = "app" /\ routeStep' = "stat" /\ router' = "pages"
      \/ router = "pages" /\ routeStep' = "manifest" /\ router' = "app"
            /\ routeList' = WithChildren(foundRoutes)
  BY DEF NextRouter, RouteTypes, Routers
<1>2. RouteTypes'
  <2>1. <<>> \in Seq(CallRec)
    OBVIOUS
  <2> QED
    BY <1>1, <2>1 DEF RouteTypes, RouteSteps, Routers
<1>3. \A f \in SiteFiles : f.router \in Routers
  BY PathIs
<1>4. stayed \in SUBSET SiteFiles
  BY DEF RouteTypes
<1>5. \A f \in stayed : Pending(f) => Pending(f)'
  BY <1>1, <1>3, <1>4 DEF Pending, Scanning, Routers
<1>6. \A f \in SiteFiles : Pending(f)' => Pending(f)
  BY <1>1 DEF Pending, Scanning
<1>7. FoundRight'
  BY <1>5, <1>6, FoundStays DEF Scanning
<1>8. BetweenCalls' /\ CallsRight' /\ ListReturned'
  BY <1>1 DEF BetweenCalls, CallsRight, ListReturned, Scanning
<1> QED
  BY <1>2, <1>7, <1>8

LEMMA StatRouterStep ==
    ASSUME RoutesInv, StatRouter
    PROVE  RoutesInv'
<1> USE DEF RoutesInv
<1>1. routeStep = "stat" /\ UNCHANGED <<site, dirCalls, foundRoutes, siteEdits, stayed, seen>>
      /\ Scanning /\ dirCalls = <<>>
  BY DEF StatRouter, Scanning, BetweenCalls
<1>2. CASE ~HasRouter(router)
  <2>1. \A f \in stayed : f.router # router
    BY <1>1, <1>2 DEF HasRouter, BetweenCalls
  <2>2. NextRouter /\ dirCalls' = <<>>
    BY <1>1, <1>2 DEF StatRouter
  <2> QED
    BY <1>1, <2>1, <2>2, NextRouterStep
<1>3. CASE HasRouter(router)
  <2>1. routeStep' = "read" /\ UNCHANGED <<router, routeList>>
    BY <1>3 DEF StatRouter
  <2>2. RouteTypes'
    BY <1>1, <2>1 DEF RouteTypes, RouteSteps
  <2>3. \A f : Pending(f)' <=> Pending(f)
    BY <1>1, <2>1 DEF Pending, Scanning
  <2>4. FoundRight'
    BY <1>1, <2>3, FoundStays
  <2>5. BetweenCalls' /\ CallsRight' /\ ListReturned'
    BY <1>1, <2>1 DEF BetweenCalls, CallsRight, ListReturned, Scanning
  <2> QED
    BY <2>2, <2>4, <2>5
<1> QED
  BY <1>2, <1>3

LEMMA ReadDirFailsStep ==
    ASSUME RoutesInv, ReadDirFails
    PROVE  RoutesInv'
<1>1. /\ routeStep' = "failed"
      /\ UNCHANGED <<site, router, dirCalls, foundRoutes, siteEdits, stayed, seen>>
  BY DEF ReadDirFails
<1>2. RouteTypes'
  BY <1>1 DEF RoutesInv, RouteTypes, RouteSteps
<1> QED
  BY <1>1, <1>2 DEF RoutesInv, BetweenCalls, CallsRight, FoundRight, ListReturned, Scanning

LEMMA StatForManifestStep ==
    ASSUME RoutesInv, StatForManifest
    PROVE  RoutesInv'
<1> USE DEF RoutesInv
<1>1. /\ routeStep = "manifest" /\ routeStep' \in {"manifest", "done"} /\ router' \in Routers
      /\ UNCHANGED <<site, dirCalls, foundRoutes, routeList, siteEdits, stayed, seen>>
  BY DEF StatForManifest, Routers, RouteTypes
<1>2. RouteTypes'
  BY <1>1 DEF RouteTypes, RouteSteps
<1>3. \A f : ~Pending(f) /\ ~Pending(f)'
  BY <1>1 DEF Pending, Scanning
<1>4. FoundRight'
  BY <1>1, <1>3, FoundStays
<1> QED
  BY <1>1, <1>2, <1>4 DEF BetweenCalls, CallsRight, ListReturned, Scanning

NewCall(dirs, layout, names) == [dirs |-> dirs, layout |-> layout, names |-> names]

LEMMA FileIsUnder ==
    ASSUME NEW f \in SiteFiles
    PROVE  Under(f, f.dirs, f.name)
<1>1. Len(f.dirs) \in Nat /\ NameAt(f, Len(f.dirs)) = f.name
  BY PathIs
<1> QED
  BY <1>1 DEF Under, IsUnder

\* What a new call of scanDir has.
LEMMA ListingRight ==
    ASSUME site \in SUBSET SiteFiles, stayed \in SUBSET site, site \in SUBSET seen, NEW r,
           NEW dirs \in Seq(RouteNames), NEW names, names = ReadDirNames(r, dirs)
    PROVE  /\ names \in Seq(RouteNames)
           /\ \A layout : (names # <<>> => LastAt(layout, r, dirs, names[1])) =>
                CallRight(NewCall(dirs, layout, names), Len(dirs) + 1, r)
           /\ names # <<>> => /\ names[1] \in RouteNames
                              /\ \A l \in stayed : l.router = r /\ l.dirs = dirs => ~(l.name < names[1])
           /\ \A f \in stayed : \A n :
                f.router = r /\ Under(f, dirs, n) => \E i \in DOMAIN names : names[i] = n
<1>1. /\ names \in Seq(RouteNames)
      /\ \A i, j \in DOMAIN names : i < j => names[i] < names[j]
      /\ \A i \in DOMAIN names : \E f \in seen : f.router = r /\ Under(f, dirs, names[i])
      /\ \A f \in stayed : \A n :
            f.router = r /\ Under(f, dirs, n) => \E i \in DOMAIN names : names[i] = n
  BY NamesAre
<1>2. ASSUME NEW layout, names # <<>> => LastAt(layout, r, dirs, names[1])
      PROVE  CallRight(NewCall(dirs, layout, names), Len(dirs) + 1, r)
  <2>1. Len(dirs) = (Len(dirs) + 1) - 1
    BY LenProperties
  <2> QED
    BY <1>1, <1>2, <2>1 DEF CallRight, NewCall
<1>3. ASSUME names # <<>>
      PROVE  /\ names[1] \in RouteNames
             /\ \A l \in stayed : l.router = r /\ l.dirs = dirs => ~(l.name < names[1])
  <2>1. Len(names) \in Nat /\ Len(names) > 0 /\ DOMAIN names = 1 .. Len(names) /\ 1 \in DOMAIN names
    BY <1>1, <1>3, EmptySeq, LenProperties
  <2>2. \A i \in DOMAIN names : names[i] \in RouteNames /\ names[i] \in Nat
    BY <1>1, <2>1, ElementOfSeq, RoutesAssumption
  <2>3. ASSUME NEW l \in stayed, l.router = r, l.dirs = dirs PROVE ~(l.name < names[1])
    <3>1. Under(l, dirs, l.name)
      BY <2>3, FileIsUnder
    <3>2. PICK i \in DOMAIN names : names[i] = l.name
      BY <1>1, <2>3, <3>1
    <3>3. i = 1 \/ names[1] < names[i]
      BY <1>1, <2>1
    <3> QED
      BY <2>1, <2>2, <3>2, <3>3
  <2> QED
    BY <2>1, <2>2, <2>3
<1> QED
  BY <1>1, <1>2, <1>3

LEMMA ScanRouterStep ==
    ASSUME RoutesInv, ScanRouter
    PROVE  RoutesInv'
<1> USE DEF RoutesInv
<1>01. PICK r, root : r = router /\ root = <<>>
  OBVIOUS
<1>02. PICK names : names = ReadDirNames(r, root)
  OBVIOUS
<1>03. PICK c : c = [dirs |-> <<>>, layout |-> NoLayout, names |-> names]
  OBVIOUS
<1>0. /\ r = router /\ root = <<>> /\ names = ReadDirNames(r, root)
      /\ c = [dirs |-> <<>>, layout |-> NoLayout, names |-> names]
  BY <1>01, <1>02, <1>03
<1>1. /\ routeStep = "read" /\ routeStep' = "scan" /\ dirCalls' = Append(<<>>, c)
      /\ UNCHANGED <<site, router, foundRoutes, routeList, siteEdits, stayed, seen>>
  BY <1>0 DEF ScanRouter, ScanDir
<1>2. site \in SUBSET SiteFiles /\ stayed \in SUBSET site /\ site \in SUBSET seen
      /\ seen \in SUBSET SiteFiles /\ stayed \in SUBSET SiteFiles /\ root \in Seq(RouteNames)
  <2>1. <<>> \in Seq(RouteNames)
    OBVIOUS
  <2> QED
    BY <1>0, <1>1, <2>1 DEF BetweenCalls, Scanning, RouteTypes
<1>3. /\ names \in Seq(RouteNames)
      /\ \A layout : (names # <<>> => LastAt(layout, r, root, names[1])) =>
            CallRight(NewCall(root, layout, names), Len(root) + 1, r)
      /\ names # <<>> => /\ names[1] \in RouteNames
                         /\ \A l \in stayed : l.router = r /\ l.dirs = root => ~(l.name < names[1])
      /\ \A f \in stayed : \A n :
            f.router = r /\ Under(f, root, n) => \E i \in DOMAIN names : names[i] = n
  BY <1>02, <1>2, ListingRight
<1>4. CallRight(c, 1, r)
  <2>1. names # <<>> => LastAt(NoLayout, r, root, names[1])
    BY <1>0, <1>2, <1>3, LastAtRoot
  <2>2. Len(root) + 1 = 1 /\ c = NewCall(root, NoLayout, names)
    BY <1>0 DEF NewCall
  <2> QED
    BY <1>3, <2>1, <2>2
<1>5. c \in CallRec /\ c.layout \in SUBSET seen
  BY <1>0, <1>2, <1>3 DEF CallRec, NoLayout
<1>6. /\ Append(<<>>, c) \in Seq(CallRec) /\ Len(Append(<<>>, c)) = 1 /\ Append(<<>>, c)[1] = c
      /\ DOMAIN Append(<<>>, c) = 1 .. 1 /\ Append(<<>>, c) # <<>>
  BY <1>5
<1>7. RouteTypes'
  BY <1>1, <1>5, <1>6 DEF RouteTypes, RouteSteps
<1>8. CallsRight'
  <2>1. CallRight(c, 1, r)'
    BY <1>1, <1>4, CallStays
  <2>2. \A k \in 1 .. 1 : k = 1 /\ \A j \in 1 .. k - 1 : FALSE
    OBVIOUS
  <2>3. r = router'
    BY <1>0, <1>1
  <2>4. \A k \in 1 .. Len(dirCalls') : k = 1 /\ dirCalls'[k] = c
    BY <1>1, <1>6, <2>2
  <2>5. \A k \in 1 .. Len(dirCalls') : CallRight(dirCalls[k], k, router)'
    BY <2>1, <2>3, <2>4
  <2> QED
    BY <1>1, <1>6, <2>2, <2>5 DEF CallsRight
<1>9. FoundRight'
  <2>1. \A f : Pending(f)' <=> (r = "app" /\ f.router = "pages") \/ (f.router = r /\ Waits(c, f))
    BY <1>0, <1>1, <1>6 DEF Pending, Scanning
  <2>2. \A f : Pending(f) <=> (r = "app" /\ f.router = "pages") \/ f.router = r
    BY <1>0, <1>1 DEF Pending, Scanning
  <2>3. \A f \in stayed : f.router = r => Waits(c, f)
    <3> SUFFICES ASSUME NEW f \in stayed, f.router = r PROVE Waits(c, f)
      OBVIOUS
    <3>1. PICK n : n = NameAt(f, 0)
      OBVIOUS
    <3>2. Len(root) = 0 /\ Len(f.dirs) \in Nat
      BY <1>0, <1>2, PathIs
    <3>3. Under(f, root, n)
      BY <3>1, <3>2 DEF Under, IsUnder
    <3> QED
      BY <1>0, <1>3, <3>3 DEF Waits
  <2> QED
    BY <1>1, <2>1, <2>2, <2>3, FoundStays
<1> QED
  BY <1>1, <1>7, <1>8, <1>9 DEF BetweenCalls, ListReturned, Scanning

\* What is left of the call c after its first entry, which hands on a layout.
After(c, layout) == [dirs |-> c.dirs, layout |-> layout, names |-> Tail(c.names)]

LEMMA TailIs ==
    ASSUME NEW T, NEW s \in Seq(T), s # <<>>
    PROVE  /\ Len(s) \in Nat /\ Len(s) > 0 /\ DOMAIN s = 1 .. Len(s) /\ s[1] \in T
           /\ Tail(s) \in Seq(T) /\ DOMAIN Tail(s) = 1 .. Len(s) - 1 /\ Head(s) = s[1]
           /\ \A i \in DOMAIN Tail(s) : i + 1 \in DOMAIN s /\ i + 1 > 1 /\ Tail(s)[i] = s[i + 1]
           /\ \A i \in DOMAIN s : i = 1 \/ \E j \in DOMAIN Tail(s) : Tail(s)[j] = s[i]
           /\ Tail(s) # <<>> => 1 \in DOMAIN Tail(s)
<1>1. Len(s) \in Nat /\ Len(s) > 0 /\ DOMAIN s = 1 .. Len(s)
  BY EmptySeq, LenProperties
<1>2. /\ Head(s) = s[1] /\ s[1] \in T /\ Tail(s) \in Seq(T) /\ Len(Tail(s)) = Len(s) - 1
      /\ \A i \in 1 .. Len(Tail(s)) : Tail(s)[i] = s[i + 1]
  BY <1>1, HeadTailProperties, ElementOfSeq
<1>3. DOMAIN Tail(s) = 1 .. Len(s) - 1
  BY <1>2, LenProperties
<1>4. \A i \in 1 .. Len(s) - 1 : i + 1 \in 1 .. Len(s) /\ i + 1 > 1
  BY <1>1
<1>5. ASSUME NEW i \in DOMAIN s, i # 1
      PROVE  \E j \in DOMAIN Tail(s) : Tail(s)[j] = s[i]
  <2>1. i - 1 \in 1 .. Len(s) - 1 /\ (i - 1) + 1 = i
    BY <1>1, <1>5
  <2> QED
    BY <1>2, <1>3, <2>1
<1>6. Tail(s) # <<>> => 1 \in DOMAIN Tail(s)
  <2>1. Tail(s) # <<>> => Len(Tail(s)) > 0 /\ Len(Tail(s)) \in Nat
    BY <1>2, EmptySeq
  <2> QED
    BY <1>2, <1>3, <2>1
<1> QED
  BY <1>1, <1>2, <1>3, <1>4, <1>5, <1>6

\* The entry that is visited next, of a call that is right.
LEMMA Visiting ==
    ASSUME NEW c \in CallRec, NEW k, NEW r, CallRight(c, k, r), c.names # <<>>,
           stayed \in SUBSET SiteFiles, seen \in SUBSET SiteFiles, NEW n, n = Head(c.names)
    PROVE  /\ n \in RouteNames /\ LastAt(c.layout, r, c.dirs, n)
           /\ \E f \in seen : f.router = r /\ Under(f, c.dirs, n)
           /\ \A layout \in SUBSET SiteFiles : After(c, layout) \in CallRec
           /\ \A i \in DOMAIN Tail(c.names) : n < Tail(c.names)[i]
           /\ NameKind[n] # "layout" => CallRight(After(c, c.layout), k, r)
           /\ \A f \in seen : f.router = r /\ f.dirs = c.dirs /\ f.name = n /\ NameKind[n] = "layout"
                => CallRight(After(c, {f}), k, r)
<1>1. PICK s, t, dirs : s = c.names /\ t = Tail(c.names) /\ dirs = c.dirs
  OBVIOUS
<1>2. s \in Seq(RouteNames) /\ dirs \in Seq(RouteNames) /\ s # <<>>
  BY <1>1 DEF CallRec
<1>3. /\ DOMAIN s = 1 .. Len(s) /\ Len(s) \in Nat /\ Len(s) > 0 /\ s[1] \in RouteNames
      /\ t \in Seq(RouteNames) /\ n = s[1]
      /\ \A i \in DOMAIN t : i + 1 \in DOMAIN s /\ i + 1 > 1 /\ t[i] = s[i + 1]
      /\ \A i \in DOMAIN s : i = 1 \/ \E j \in DOMAIN t : t[j] = s[i]
      /\ t # <<>> => 1 \in DOMAIN t
      /\ DOMAIN t = 1 .. Len(s) - 1
  BY <1>1, <1>2, TailIs
<1>4. /\ Len(dirs) = k - 1
      /\ \A i, j \in DOMAIN s : i < j => s[i] < s[j]
      /\ \A i \in DOMAIN s : \E f \in seen : f.router = r /\ Under(f, dirs, s[i])
      /\ \A f \in stayed : \A m :
            f.router = r /\ Under(f, dirs, m) =>
                (\E i \in DOMAIN s : s[i] = m) \/ \A i \in DOMAIN s : m < s[i]
      /\ LastAt(c.layout, r, dirs, s[1])
  BY <1>1, <1>2 DEF CallRight
<1>5. 1 \in DOMAIN s /\ \A i \in DOMAIN t : i + 1 \in DOMAIN s /\ 1 < i + 1
  BY <1>3
<1>6. \A i \in DOMAIN t : n < t[i]
  BY <1>3, <1>4, <1>5
<1>7. \A layout \in SUBSET SiteFiles : After(c, layout) \in CallRec
  BY <1>1, <1>2, <1>3 DEF After, CallRec
<1>8. \A i, j \in DOMAIN t : i < j => t[i] < t[j]
  <2>1. \A i, j \in DOMAIN t : i < j => i + 1 < j + 1
    BY <1>3
  <2> QED
    BY <1>3, <1>4, <2>1
<1>9. \A f \in stayed : \A m :
        f.router = r /\ Under(f, dirs, m) =>
            (\E i \in DOMAIN t : t[i] = m) \/ \A i \in DOMAIN t : m < t[i]
  <2> SUFFICES ASSUME NEW f \in stayed, NEW m, f.router = r, Under(f, dirs, m),
                      ~ \E i \in DOMAIN t : t[i] = m
               PROVE  \A i \in DOMAIN t : m < t[i]
    OBVIOUS
  <2>1. CASE m = n
    BY <1>6, <2>1
  <2>2. CASE m # n
    <3>1. \A i \in DOMAIN s : s[i] # m
      BY <1>3, <2>2
    <3>2. \A i \in DOMAIN s : m < s[i]
      BY <1>4, <3>1
    <3> QED
      BY <1>3, <3>2
  <2> QED
    BY <2>1, <2>2
<1>10. ASSUME NEW layout, t # <<>> => LastAt(layout, r, dirs, t[1])
       PROVE  CallRight(After(c, layout), k, r)
  <2>1. PICK d : d = After(c, layout)
    OBVIOUS
  <2>2. d.dirs = dirs /\ d.names = t /\ d.layout = layout
    BY <1>1, <2>1 DEF After
  <2>3. \A i \in DOMAIN t : \E f \in seen : f.router = r /\ Under(f, dirs, t[i])
    BY <1>3, <1>4
  <2>4. CallRight(d, k, r)
    BY <1>4, <1>8, <1>9, <1>10, <2>2, <2>3 DEF CallRight
  <2> QED
    BY <2>1, <2>4
<1>11. t # <<>> => t[1] \in RouteNames /\ n < t[1]
  BY <1>3, <1>6, ElementOfSeq
<1>12. t # <<>> => \A l \in stayed : l.router = r /\ l.dirs = dirs /\ l.name < t[1] => l.name <= n
  <2> SUFFICES ASSUME t # <<>>, NEW l \in stayed, l.router = r, l.dirs = dirs, l.name < t[1]
               PROVE  l.name <= n
    OBVIOUS
  <2>1. Under(l, dirs, l.name) /\ l.name \in Nat /\ n \in Nat /\ t[1] \in Nat
    BY <1>3, <1>11, FileIsUnder, PathIs, RoutesAssumption
  <2>2. CASE \E i \in DOMAIN t : t[i] = l.name
    <3>1. PICK i \in DOMAIN t : t[i] = l.name
      BY <2>2
    <3>2. i = 1 \/ t[1] < t[i]
      BY <1>3, <1>8
    <3> QED
      BY <2>1, <3>1, <3>2
  <2>3. CASE ~ \E i \in DOMAIN t : t[i] = l.name
    <3>1. (\E i \in DOMAIN s : s[i] = l.name) \/ \A i \in DOMAIN s : l.name < s[i]
      BY <1>4, <2>1
    <3>2. l.name = s[1] \/ l.name < s[1]
      BY <1>3, <1>5, <2>3, <3>1
    <3> QED
      BY <1>3, <2>1, <3>2
  <2> QED
    BY <2>2, <2>3
<1>13. t # <<>> => /\ NameKind[n] # "layout" => LastAt(c.layout, r, dirs, t[1])
                   /\ \A f \in seen : f.router = r /\ f.dirs = dirs /\ f.name = n
                                        /\ NameKind[n] = "layout" => LastAt({f}, r, dirs, t[1])
  <2> SUFFICES ASSUME t # <<>>
               PROVE  /\ NameKind[n] # "layout" => LastAt(c.layout, r, dirs, t[1])
                      /\ \A f \in seen : f.router = r /\ f.dirs = dirs /\ f.name = n
                                        /\ NameKind[n] = "layout" => LastAt({f}, r, dirs, t[1])
    OBVIOUS
  <2>1. PICK m, layout : m = t[1] /\ layout = c.layout
    OBVIOUS
  <2>2. /\ n \in RouteNames /\ m \in RouteNames /\ n < m /\ LastAt(layout, r, dirs, n)
        /\ \A l \in stayed : l.router = r /\ l.dirs = dirs /\ l.name < m => l.name <= n
    BY <1>3, <1>4, <1>11, <1>12, <2>1
  <2>3. /\ NameKind[n] # "layout" => LastAt(layout, r, dirs, m)
        /\ \A f \in seen : f.router = r /\ f.dirs = dirs /\ f.name = n /\ NameKind[n] = "layout"
            => LastAt({f}, r, dirs, m)
    BY <1>2, <2>2, LastAtNext
  <2> QED
    BY <2>1, <2>3
<1> QED
  BY <1>1, <1>3, <1>4, <1>5, <1>6, <1>7, <1>10, <1>13

\* Of a file under the entry of the last call nothing is left in the others.
LEMMA NotLeft ==
    ASSUME NEW c \in CallRec, NEW d \in CallRec, Inside(d, c), NEW f \in SiteFiles, NEW n,
           Under(f, d.dirs, n)
    PROVE  ~Waits(c, f)
<1> SUFFICES ASSUME NEW i \in DOMAIN c.names, Under(f, c.dirs, c.names[i]) PROVE FALSE
  BY DEF Waits
<1>1. PICK k, m : k = Len(c.dirs) /\ m = Len(d.dirs)
  OBVIOUS
<1>2. k \in Nat /\ m \in Nat /\ k < m /\ c.names[i] \in Nat
  <2>1. c.dirs \in Seq(RouteNames) /\ d.dirs \in Seq(RouteNames) /\ c.names \in Seq(RouteNames)
    BY DEF CallRec
  <2>2. c.names[i] \in RouteNames
    BY <2>1, ElementOfSeq, LenProperties
  <2> QED
    BY <1>1, <2>1, <2>2, LenProperties, RoutesAssumption DEF Inside
<1>3. k + 1 \in 1 .. m /\ m <= Len(f.dirs) /\ Len(f.dirs) \in Nat /\ f.dirs[k + 1] = d.dirs[k + 1]
  BY <1>1, <1>2, PathIs DEF Under, IsUnder
<1>4. NameAt(f, k) = f.dirs[k + 1]
  <2>1. k + 1 \in 1 .. Len(f.dirs)
    BY <1>2, <1>3
  <2> QED
    BY <2>1, PathIs DEF NameAt
<1>5. NameAt(f, k) = c.names[i]
  BY <1>1 DEF Under
<1>6. d.dirs[k + 1] < c.names[i]
  BY <1>1 DEF Inside
<1> QED
  BY <1>2, <1>3, <1>4, <1>5, <1>6

\* The call on top and its next entry.
LEMMA AtEntryFacts ==
    ASSUME RoutesInv, AtEntry
    PROVE  /\ routeStep = "scan" /\ Len(dirCalls) \in Nat /\ Len(dirCalls) \in 1 .. Len(dirCalls)
           /\ Top \in CallRec /\ Top = dirCalls[Len(dirCalls)] /\ Top.names # <<>>
           /\ Top.layout \in SUBSET seen /\ Top.layout \in SUBSET SiteFiles
           /\ CallRight(Top, Len(dirCalls), router) /\ Len(Top.dirs) = Len(dirCalls) - 1
           /\ \A j \in 1 .. Len(dirCalls) - 1 :
                j \in 1 .. Len(dirCalls) /\ dirCalls[j] \in CallRec /\ Inside(Top, dirCalls[j])
           /\ stayed \in SUBSET site /\ site \in SUBSET seen /\ seen \in SUBSET SiteFiles
           /\ stayed \in SUBSET SiteFiles /\ site \in SUBSET SiteFiles
<1>1. routeStep = "scan" /\ dirCalls # <<>> /\ Top.names # <<>>
  BY DEF AtEntry
<1>2. Len(dirCalls) \in Nat /\ Len(dirCalls) \in 1 .. Len(dirCalls)
  <2>1. dirCalls \in Seq(CallRec)
    BY DEF RoutesInv, RouteTypes
  <2>2. Len(dirCalls) \in Nat /\ Len(dirCalls) > 0
    BY <1>1, <2>1, EmptySeq
  <2> QED
    BY <2>2
<1>3. /\ Top \in CallRec /\ Top = dirCalls[Len(dirCalls)] /\ Top.layout \in SUBSET seen
      /\ \A j \in 1 .. Len(dirCalls) : dirCalls[j] \in CallRec
  BY <1>2, CallFields DEF Top, RoutesInv
<1>4. CallRight(Top, Len(dirCalls), router)
  BY <1>1, <1>2, <1>3 DEF RoutesInv, CallsRight
<1>5. \A j \in 1 .. Len(dirCalls) - 1 : j \in 1 .. Len(dirCalls) /\ Inside(Top, dirCalls[j])
  <2>1. \A j \in 1 .. Len(dirCalls) - 1 : j \in 1 .. Len(dirCalls)
    BY <1>2
  <2> QED
    BY <1>1, <1>2, <1>3, <2>1 DEF RoutesInv, CallsRight
<1>6. /\ stayed \in SUBSET site /\ site \in SUBSET seen /\ seen \in SUBSET SiteFiles
      /\ stayed \in SUBSET SiteFiles /\ site \in SUBSET SiteFiles
  BY <1>1 DEF RoutesInv, RouteTypes, BetweenCalls, Scanning
<1>7. Len(Top.dirs) = Len(dirCalls) - 1
  BY <1>4 DEF CallRight
<1> QED
  BY <1>1, <1>2, <1>3, <1>4, <1>5, <1>6, <1>7

\* The calls, of which d is the one on top, are right.
AllRight(calls, d) ==
    /\ calls \in Seq(CallRec) /\ Len(calls) = Len(dirCalls) /\ calls # <<>>
    /\ calls[Len(dirCalls)] = d
    /\ \A j \in 1 .. Len(dirCalls) - 1 : calls[j] = dirCalls[j]
    /\ \A j \in 1 .. Len(calls) : calls[j].layout \in SUBSET seen
    /\ \A j \in 1 .. Len(calls) : CallRight(calls[j], j, router)
    /\ \A j \in 1 .. Len(calls) : \A i \in 1 .. j - 1 : Inside(calls[j], calls[i])

\* The call on top has visited its first entry.
LEMMA Visited ==
    ASSUME RoutesInv, AtEntry, NEW layout \in SUBSET seen,
           CallRight(After(Top, layout), Len(dirCalls), router)
    PROVE  AllRight([dirCalls EXCEPT ![Len(dirCalls)] = After(Top, layout)], After(Top, layout))
<1>0. PICK d : d = After(Top, layout)
  OBVIOUS
<1>01. PICK calls : calls = [dirCalls EXCEPT ![Len(dirCalls)] = d]
  OBVIOUS
<1>1. PICK k, c : k = Len(dirCalls) /\ c = Top
  OBVIOUS
<1>2. /\ k \in Nat /\ k \in 1 .. k /\ c \in CallRec /\ CallRight(c, k, router) /\ c.names # <<>>
      /\ stayed \in SUBSET SiteFiles /\ seen \in SUBSET SiteFiles /\ routeStep = "scan"
  BY <1>1, AtEntryFacts
<1>3. d \in CallRec /\ d.dirs = c.dirs /\ d.layout = layout
  <2>1. PICK n : n = Head(c.names)
    OBVIOUS
  <2>2. \A l \in SUBSET SiteFiles : After(c, l) \in CallRec
    BY <1>2, <2>1, Visiting
  <2>3. layout \in SUBSET SiteFiles
    BY <1>2
  <2> QED
    BY <1>0, <1>1, <2>2, <2>3 DEF After
<1>4. /\ calls \in Seq(CallRec) /\ Len(calls) = k
      /\ \A j \in 1 .. k : calls[j] = IF j = k THEN d ELSE dirCalls[j]
  <2>1. PICK s : s = dirCalls
    OBVIOUS
  <2>2. s \in Seq(CallRec) /\ k \in 1 .. Len(s) /\ calls = [s EXCEPT ![k] = d] /\ k = Len(s)
    BY <1>01, <1>1, <1>2, <2>1 DEF RoutesInv, RouteTypes
  <2>3. /\ [s EXCEPT ![k] = d] \in Seq(CallRec) /\ Len([s EXCEPT ![k] = d]) = Len(s)
        /\ \A j \in 1 .. Len(s) : [s EXCEPT ![k] = d][j] = IF j = k THEN d ELSE s[j]
    BY <1>3, <2>2, ExceptSeq
  <2> QED
    BY <2>1, <2>2, <2>3
<1>5. calls # <<>>
  BY <1>2, <1>4, EmptySeq
<1>6. \A j \in 1 .. k : j = k \/ j \in 1 .. k - 1
  BY <1>2
<1>7. \A j \in 1 .. k - 1 : j \in 1 .. k /\ j # k
  BY <1>2
<1>8. \A j \in 1 .. k : /\ dirCalls[j].layout \in SUBSET seen
                        /\ CallRight(dirCalls[j], j, router)
                        /\ \A i \in 1 .. j - 1 : Inside(dirCalls[j], dirCalls[i])
  BY <1>1, <1>2, CallFields DEF RoutesInv, CallsRight
<1>9. \A j \in 1 .. k : calls[j].layout \in SUBSET seen /\ CallRight(calls[j], j, router)
  BY <1>0, <1>1, <1>3, <1>4, <1>8
<1>10. ASSUME NEW j \in 1 .. k, NEW i \in 1 .. j - 1
       PROVE  Inside(calls[j], calls[i])
  <2>1. i \in 1 .. k /\ i # k
    BY <1>2
  <2>2. calls[i] = dirCalls[i]
    BY <1>4, <2>1
  <2>3. Inside(dirCalls[j], dirCalls[i])
    BY <1>8
  <2>4. CASE j = k
    <3>1. calls[j] = d /\ dirCalls[j] = c
      BY <1>1, <1>4, <2>4, AtEntryFacts
    <3> QED
      BY <1>3, <2>2, <2>3, <3>1 DEF Inside
  <2>5. CASE j # k
    BY <1>4, <2>2, <2>3, <2>5
  <2> QED
    BY <2>4, <2>5
<1>11. AllRight(calls, d)
  BY <1>1, <1>2, <1>4, <1>5, <1>7, <1>9, <1>10 DEF AllRight
<1> QED
  BY <1>0, <1>01, <1>11

LEMMA ScanFileStep ==
    ASSUME RoutesInv, ScanFile
    PROVE  RoutesInv'
<1>00. RouteTypes /\ BetweenCalls /\ CallsRight /\ FoundRight /\ ListReturned
  BY DEF RoutesInv
<1>01. PICK c, k, r : c = Top /\ k = Len(dirCalls) /\ r = router
  OBVIOUS
<1>02. PICK n : n = Head(c.names)
  OBVIOUS
<1>03. PICK f : f = [router |-> r, dirs |-> c.dirs, name |-> n]
  OBVIOUS
<1>04. PICK layout : layout = IF NameKind[n] = "layout" THEN {f} ELSE c.layout
  OBVIOUS
<1>05. PICK d, rt : d = After(c, layout) /\ rt = ParseFile(f, c.layout)
  OBVIOUS
<1>1. /\ AtEntry /\ ~IsDirectory(n)
      /\ foundRoutes' = IF NameKind[n] = "none" THEN foundRoutes ELSE Append(foundRoutes, rt)
      /\ UNCHANGED <<site, routeStep, router, routeList, routeManifest, siteEdits, stayed, seen>>
  BY <1>01, <1>02, <1>03, <1>05 DEF ScanFile, Entry
<1>2. /\ routeStep = "scan" /\ k \in Nat /\ k \in 1 .. k /\ c \in CallRec /\ c = dirCalls[k]
      /\ c.names # <<>> /\ c.layout \in SUBSET seen /\ CallRight(c, k, r)
      /\ \A j \in 1 .. k - 1 : dirCalls[j] \in CallRec /\ Inside(c, dirCalls[j])
      /\ stayed \in SUBSET site /\ seen \in SUBSET SiteFiles /\ stayed \in SUBSET SiteFiles
  BY <1>01, <1>1, AtEntryFacts
<1>3. dirCalls' = [dirCalls EXCEPT ![k] = d]
  <2>1. d = [dirs |-> c.dirs, names |-> Tail(c.names), layout |-> layout]
    BY <1>05 DEF After
  <2> QED
    BY <1>01, <1>02, <1>03, <1>04, <2>1 DEF ScanFile, Entry
<1>4. /\ n \in RouteNames /\ LastAt(c.layout, r, c.dirs, n)
      /\ \E g \in seen : g.router = r /\ Under(g, c.dirs, n)
      /\ \A i \in DOMAIN Tail(c.names) : n < Tail(c.names)[i]
      /\ NameKind[n] # "layout" => CallRight(After(c, c.layout), k, r)
      /\ \A g \in seen : g.router = r /\ g.dirs = c.dirs /\ g.name = n /\ NameKind[n] = "layout"
            => CallRight(After(c, {g}), k, r)
  BY <1>02, <1>2, Visiting
<1>5. /\ f \in seen /\ f.router = r /\ f.dirs = c.dirs /\ f.name = n
      /\ \A g \in SiteFiles : g.router = r /\ Under(g, c.dirs, n) => g = f
      /\ c.dirs \in Seq(RouteNames)
  <2>1. \A g \in SiteFiles : g.router = r /\ Under(g, c.dirs, n) => g = f
    <3> SUFFICES ASSUME NEW g \in SiteFiles, g.router = r, Under(g, c.dirs, n) PROVE g = f
      OBVIOUS
    <3>1. c.dirs \in Seq(RouteNames)
      BY <1>2 DEF CallRec
    <3>2. g.dirs = c.dirs /\ g.name = n
      BY <1>1, <3>1, EntryIs
    <3>3. g = [router |-> g.router, dirs |-> g.dirs, name |-> g.name]
      BY PathIs
    <3> QED
      BY <1>03, <3>2, <3>3
  <2>2. f \in seen
    BY <1>2, <1>4, <2>1
  <2> QED
    BY <1>03, <1>2, <2>1, <2>2 DEF CallRec
<1>6. layout \in SUBSET seen /\ CallRight(d, k, r)
  BY <1>04, <1>05, <1>2, <1>4, <1>5
<1>7. /\ dirCalls' \in Seq(CallRec) /\ Len(dirCalls') = k /\ dirCalls' # <<>> /\ dirCalls'[k] = d
      /\ DOMAIN dirCalls' = 1 .. k
      /\ \A j \in 1 .. k - 1 : dirCalls'[j] = dirCalls[j]
      /\ \A j \in 1 .. k : dirCalls'[j].layout \in SUBSET seen /\ CallRight(dirCalls'[j], j, r)
      /\ \A j \in 1 .. k : \A i \in 1 .. j - 1 : Inside(dirCalls'[j], dirCalls'[i])
  <2>1. PICK calls : calls = [dirCalls EXCEPT ![Len(dirCalls)] = d]
    OBVIOUS
  <2>2. d = After(Top, layout) /\ CallRight(After(Top, layout), Len(dirCalls), router)
    BY <1>01, <1>05, <1>6
  <2>3. AllRight(calls, d)
    <3>1. AllRight([dirCalls EXCEPT ![Len(dirCalls)] = After(Top, layout)], After(Top, layout))
      BY <1>1, <1>6, <2>2, Visited
    <3> QED
      BY <2>1, <2>2, <3>1
  <2>4. dirCalls' = calls
    BY <1>01, <1>3, <2>1
  <2>5. DOMAIN calls = 1 .. k
    BY <1>01, <2>3, LenProperties DEF AllRight
  <2> QED
    BY <1>01, <2>3, <2>4, <2>5 DEF AllRight
<1>8. \A g \in SiteFiles : Pending(g)' <=> Pending(g) /\ g # f
  <2> SUFFICES ASSUME NEW g \in SiteFiles PROVE Pending(g)' <=> Pending(g) /\ g # f
    OBVIOUS
  <2>1. Pending(g)' <=> \/ r = "app" /\ g.router = "pages"
                        \/ g.router = r /\ \E j \in 1 .. k : Waits(dirCalls'[j], g)
    BY <1>01, <1>1, <1>2, <1>7 DEF Pending, Scanning
  <2>2. Pending(g) <=> \/ r = "app" /\ g.router = "pages"
                       \/ g.router = r /\ \E j \in 1 .. k : Waits(dirCalls[j], g)
    BY <1>01, <1>2 DEF Pending, Scanning
  <2>3. \A j \in 1 .. k : j = k \/ j \in 1 .. k - 1
    BY <1>2
  <2>4. /\ c.names \in Seq(RouteNames) /\ Head(c.names) = c.names[1]
        /\ \A i \in DOMAIN Tail(c.names) : i + 1 \in DOMAIN c.names /\ Tail(c.names)[i] = c.names[i + 1]
        /\ \A i \in DOMAIN c.names : i = 1 \/ \E j \in DOMAIN Tail(c.names) : Tail(c.names)[j] = c.names[i]
    <3>1. c.names \in Seq(RouteNames)
      BY <1>2 DEF CallRec
    <3> QED
      BY <1>2, <3>1, TailIs
  <2>5. d.dirs = c.dirs /\ d.names = Tail(c.names)
    BY <1>05 DEF After
  <2>6. Waits(d, g) => Waits(c, g)
    BY <2>4, <2>5 DEF Waits
  <2>7. g.router = r /\ Waits(c, g) => Waits(d, g) \/ g = f
    BY <1>02, <1>5, <2>4, <2>5 DEF Waits
  <2>8. g = f => /\ ~Waits(d, g) /\ \A j \in 1 .. k - 1 : ~Waits(dirCalls[j], g)
                 /\ g.router = r
    <3> SUFFICES ASSUME g = f
                 PROVE  ~Waits(d, g) /\ \A j \in 1 .. k - 1 : ~Waits(dirCalls[j], g)
      BY <1>5
    <3>1. Under(g, c.dirs, n)
      BY <1>5, FileIsUnder
    <3>2. NameAt(g, Len(c.dirs)) = n
      BY <3>1 DEF Under
    <3>3. n \in Nat /\ \A i \in DOMAIN Tail(c.names) : n # Tail(c.names)[i]
      <4>1. n \in Nat
        BY <1>4, RoutesAssumption
      <4>2. ~(n < n)
        BY <4>1
      <4> QED
        BY <1>4, <4>1, <4>2
    <3>4. ~Waits(d, g)
      BY <2>5, <3>2, <3>3 DEF Waits, Under
    <3> QED
      BY <1>2, <3>1, <3>4, NotLeft
  <2>9. Waits(c, f)
    <3>1. 1 \in DOMAIN c.names
      BY <1>2, <2>4, TailIs
    <3>2. Under(f, c.dirs, n)
      <4>1. f \in SiteFiles
        BY <1>2, <1>5
      <4>2. Under(f, f.dirs, f.name)
        BY <4>1, FileIsUnder
      <4> QED
        BY <1>5, <4>2
    <3> QED
      BY <1>02, <2>4, <3>1, <3>2 DEF Waits
  <2>10. ~(r = "app" /\ r = "pages")
    OBVIOUS
  <2> QED
    BY <1>2, <1>7, <2>1, <2>2, <2>3, <2>6, <2>7, <2>8, <2>10
<1>9. /\ rt \in RouteRec /\ rt.file = f /\ rt.layout = c.layout
      /\ LastAt(c.layout, r, c.dirs, n)
  <2>1. rt.file = f /\ rt.layout = c.layout
    BY <1>05 DEF ParseFile
  <2>2. f \in SiteFiles /\ c.layout \in SUBSET SiteFiles
    BY <1>2, <1>5
  <2>3. rt \in RouteRec
    BY <1>05, <2>2 DEF RouteRec
  <2> QED
    BY <1>4, <2>1, <2>3
<1>10. RouteTypes' /\ FoundRight'
  <2>1. PICK F : F = foundRoutes
    OBVIOUS
  <2>2. /\ F \in Seq(RouteRec) /\ Len(F) \in Nat /\ DOMAIN F = 1 .. Len(F)
        /\ \A i \in 1 .. Len(F) : F[i].file \in seen /\ F[i].layout \in SUBSET seen
        /\ \A g \in stayed : \/ NameKind[g.name] = "none" \/ Pending(g)
                             \/ \E i \in 1 .. Len(F) : F[i].file = g
        /\ \A i \in 1 .. Len(F) : RouteRight(F[i]) /\ ~Pending(F[i].file)
        /\ \A i, j \in 1 .. Len(F) : F[i].file = F[j].file => i = j
    BY <1>00, <1>2, <2>1, CallFields DEF RouteTypes, FoundRight
  <2>3. Pending(f)
    <3>1. f \in SiteFiles
      BY <1>2, <1>5
    <3>2. 1 \in DOMAIN c.names /\ c.names[1] = n
      <4>1. c.names \in Seq(RouteNames)
        BY <1>2 DEF CallRec
      <4> QED
        BY <1>02, <1>2, <4>1, TailIs
    <3>3. Under(f, c.dirs, n)
      <4>1. Under(f, f.dirs, f.name)
        BY <3>1, FileIsUnder
      <4> QED
        BY <1>5, <4>1
    <3>4. Waits(c, f)
      BY <3>2, <3>3 DEF Waits
    <3> QED
      BY <1>01, <1>2, <1>5, <3>4 DEF Pending, Scanning
  <2>4. \A r2 : RouteRight(r2)' <=> RouteRight(r2)
    BY <1>1 DEF RouteRight, LastAt
  <2>5. \A i \in 1 .. Len(F) : F[i].file \in SiteFiles /\ ~Pending(F[i].file)' /\ F[i].file # f
    BY <1>2, <1>8, <2>2, <2>3
  <2>6. CASE NameKind[n] = "none"
    <3>1. foundRoutes' = F
      BY <1>1, <2>1, <2>6
    <3>2. RouteTypes'
      BY <1>00, <1>1, <1>7, <2>2, <3>1 DEF RouteTypes
    <3>3. \A g \in stayed : \/ NameKind[g.name] = "none" \/ Pending(g)'
                            \/ \E i \in 1 .. Len(F) : F[i].file = g
      BY <1>2, <1>5, <1>8, <2>2, <2>6
    <3>4. FoundRight'
      BY <1>1, <1>2, <2>2, <2>4, <2>5, <3>1, <3>3 DEF FoundRight
    <3> QED
      BY <3>2, <3>4
  <2>7. CASE NameKind[n] # "none"
    <3>1. PICK G, m : G = Append(F, rt) /\ m = Len(F) + 1
      OBVIOUS
    <3>2. /\ G \in Seq(RouteRec) /\ Len(G) = m /\ DOMAIN G = 1 .. m
          /\ \A i \in 1 .. Len(F) : G[i] = F[i]
          /\ G[m] = rt
      BY <1>9, <2>2, <3>1, AppendProperties, LenProperties
    <3>3. foundRoutes' = G
      BY <1>1, <2>1, <2>7, <3>1
    <3>4. \A i \in 1 .. m : i = m \/ i \in 1 .. Len(F)
      BY <2>2, <3>1
    <3>5. \A i \in 1 .. Len(F) : i \in 1 .. m
      BY <2>2, <3>1
    <3>6. m \in 1 .. m
      BY <2>2, <3>1
    <3>7. \A i \in 1 .. m : G[i].file \in seen /\ G[i].layout \in SUBSET seen
      BY <1>2, <1>5, <1>9, <2>2, <3>2, <3>4
    <3>8. RouteTypes'
      BY <1>00, <1>1, <1>7, <3>2, <3>3, <3>7 DEF RouteTypes
    <3>9. RouteRight(rt) /\ ~Pending(f)'
      <4>1. RouteRight(rt)
        BY <1>5, <1>9, <2>7 DEF RouteRight
      <4> QED
        BY <1>2, <1>5, <1>8, <4>1
    <3>10. \A i \in 1 .. m : RouteRight(G[i])' /\ ~Pending(G[i].file)'
      BY <1>9, <2>2, <2>4, <2>5, <3>2, <3>4, <3>9
    <3>11. \A i, j \in 1 .. m : G[i].file = G[j].file => i = j
      BY <1>9, <2>2, <2>5, <3>2, <3>4
    <3>12. \A g \in stayed : \/ NameKind[g.name] = "none" \/ Pending(g)'
                             \/ \E i \in 1 .. m : G[i].file = g
      <4> SUFFICES ASSUME NEW g \in stayed, NameKind[g.name] # "none", ~Pending(g)'
                   PROVE  \E i \in 1 .. m : G[i].file = g
        OBVIOUS
      <4>1. g = f \/ \E i \in 1 .. Len(F) : F[i].file = g
        BY <1>2, <1>8, <2>2
      <4>2. g = f => G[m].file = g
        BY <1>9, <3>2
      <4> QED
        BY <3>2, <3>5, <3>6, <4>1, <4>2
    <3>13. FoundRight'
      BY <1>1, <1>2, <3>2, <3>3, <3>10, <3>11, <3>12 DEF FoundRight
    <3> QED
      BY <3>8, <3>13
  <2> QED
    BY <2>6, <2>7
<1>11. CallsRight'
  <2>1. PICK D : D = dirCalls'
    OBVIOUS
  <2>2. \A j \in 1 .. k : CallRight(D[j], j, r)'
    BY <1>1, <1>7, <2>1, CallStays
  <2>3. router' = r
    BY <1>01, <1>1
  <2>4. \A j \in 1 .. k : CallRight(dirCalls[j], j, router)'
    BY <2>1, <2>2, <2>3
  <2> QED
    BY <1>7, <2>4 DEF CallsRight
<1>12. BetweenCalls' /\ ListReturned'
  BY <1>00, <1>1, <1>2 DEF BetweenCalls, ListReturned, Scanning
<1> QED
  BY <1>10, <1>11, <1>12 DEF RoutesInv

\* A call for a directory that a call lists is inside that call, and inside every call
\* that call is inside.
LEMMA InsideEntry ==
    ASSUME NEW c \in CallRec, NEW x \in CallRec, NEW n \in RouteNames, NEW e,
           e.dirs = Append(c.dirs, n)
    PROVE  /\ Inside(c, x) => Inside(e, x)
           /\ x.dirs = c.dirs /\ (\A i \in DOMAIN x.names : n < x.names[i]) => Inside(e, x)
<1>1. PICK p, q, l, m : p = c.dirs /\ q = x.dirs /\ l = Len(p) /\ m = Len(q)
  OBVIOUS
<1>2. p \in Seq(RouteNames) /\ q \in Seq(RouteNames) /\ l \in Nat /\ m \in Nat
  <2>1. c.dirs \in Seq(RouteNames) /\ x.dirs \in Seq(RouteNames)
    BY DEF CallRec
  <2> QED
    BY <1>1, <2>1, LenProperties
<1>3. PICK s : s = Append(p, n)
  OBVIOUS
<1>4. e.dirs = s /\ Len(s) = l + 1 /\ s[l + 1] = n /\ \A i \in 1 .. l : s[i] = p[i]
  BY <1>1, <1>2, <1>3, AppendProperties
<1>5. ASSUME Inside(c, x) PROVE Inside(e, x)
  <2>1. /\ m < l /\ m <= l /\ \A i \in 1 .. m : p[i] = q[i]
        /\ \A i \in DOMAIN x.names : p[m + 1] < x.names[i]
    BY <1>1, <1>5 DEF Inside, IsUnder
  <2>2. m < l + 1 /\ m <= l + 1 /\ m + 1 \in 1 .. l /\ \A i \in 1 .. m : i \in 1 .. l
    BY <1>2, <2>1
  <2>3. \A i \in 1 .. m : s[i] = q[i]
    BY <1>4, <2>1, <2>2
  <2>4. \A i \in DOMAIN x.names : s[m + 1] < x.names[i]
    BY <1>4, <2>1, <2>2
  <2> QED
    BY <1>1, <1>4, <2>2, <2>3, <2>4 DEF Inside, IsUnder
<1>6. ASSUME x.dirs = c.dirs, \A i \in DOMAIN x.names : n < x.names[i] PROVE Inside(e, x)
  <2>1. q = p /\ m = l /\ m < l + 1 /\ m <= l + 1
    BY <1>1, <1>2, <1>6
  <2>2. \A i \in 1 .. m : s[i] = q[i]
    BY <1>4, <2>1
  <2>3. \A i \in DOMAIN x.names : s[m + 1] < x.names[i]
    BY <1>4, <1>6, <2>1
  <2> QED
    BY <1>1, <1>4, <2>1, <2>2, <2>3 DEF Inside, IsUnder
<1> QED
  BY <1>5, <1>6

LEMMA ScanSubdirectoryStep ==
    ASSUME RoutesInv, ScanSubdirectory
    PROVE  RoutesInv'
<1>00. RouteTypes /\ BetweenCalls /\ CallsRight /\ FoundRight /\ ListReturned
  BY DEF RoutesInv
<1>01. PICK c, k, r : c = Top /\ k = Len(dirCalls) /\ r = router
  OBVIOUS
<1>02. PICK n : n = Head(c.names)
  OBVIOUS
<1>03. PICK layout, sub : layout = c.layout /\ sub = Append(c.dirs, n)
  OBVIOUS
<1>04. PICK names : names = ReadDirNames(r, sub)
  OBVIOUS
<1>05. PICK d, e : d = After(c, layout) /\ e = NewCall(sub, layout, names)
  OBVIOUS
<1>06. PICK calls : calls = [dirCalls EXCEPT ![k] = d]
  OBVIOUS
<1>1. /\ AtEntry /\ IsDirectory(n) /\ NameKind[n] # "layout"
      /\ UNCHANGED <<site, routeStep, router, foundRoutes, routeList, routeManifest, siteEdits,
                     stayed, seen>>
  BY <1>01, <1>02 DEF ScanSubdirectory, Entry, IsDirectory
<1>2. /\ routeStep = "scan" /\ k \in Nat /\ k \in 1 .. k /\ c \in CallRec /\ c = dirCalls[k]
      /\ c.names # <<>> /\ c.layout \in SUBSET seen /\ CallRight(c, k, r) /\ Len(c.dirs) = k - 1
      /\ \A j \in 1 .. k - 1 : dirCalls[j] \in CallRec /\ Inside(c, dirCalls[j])
      /\ stayed \in SUBSET site /\ site \in SUBSET seen /\ seen \in SUBSET SiteFiles
      /\ stayed \in SUBSET SiteFiles /\ site \in SUBSET SiteFiles
  BY <1>01, <1>1, AtEntryFacts
<1>3. dirCalls' = Append(calls, e)
  <2>1. d = [c EXCEPT !.names = Tail(c.names)]
    <3>1. PICK p, q, t : p = c.dirs /\ q = c.layout /\ t = Tail(c.names)
      OBVIOUS
    <3>2. c = [dirs |-> p, layout |-> q, names |-> c.names]
      BY <1>2, <3>1 DEF CallRec
    <3>3. [c EXCEPT !.names = t] = [dirs |-> p, layout |-> q, names |-> t]
      BY <3>2
    <3>4. d = [dirs |-> p, layout |-> q, names |-> t]
      BY <1>03, <1>05, <3>1 DEF After
    <3> QED
      BY <3>1, <3>3, <3>4
  <2>2. calls = [dirCalls EXCEPT ![Len(dirCalls)].names = Tail(dirCalls[Len(dirCalls)].names)]
    BY <1>01, <1>06, <1>2, <2>1
  <2> QED
    BY <1>01, <1>02, <1>03, <1>04, <1>05, <2>2 DEF ScanSubdirectory, ScanDir, Entry, NewCall
<1>4. /\ n \in RouteNames /\ LastAt(layout, r, c.dirs, n) /\ CallRight(d, k, r)
      /\ \A i \in DOMAIN Tail(c.names) : n < Tail(c.names)[i]
  BY <1>02, <1>03, <1>05, <1>1, <1>2, Visiting
<1>5. AllRight(calls, d)
  <2>1. CallRight(After(Top, layout), Len(dirCalls), router) /\ layout \in SUBSET seen
    BY <1>01, <1>03, <1>05, <1>2, <1>4
  <2>2. AllRight([dirCalls EXCEPT ![Len(dirCalls)] = After(Top, layout)], After(Top, layout))
    BY <1>1, <2>1, Visited
  <2> QED
    BY <1>01, <1>05, <1>06, <2>2
<1>6. c.dirs \in Seq(RouteNames) /\ sub \in Seq(RouteNames) /\ Len(sub) = k /\ Len(sub) + 1 = k + 1
  <2>1. c.dirs \in Seq(RouteNames)
    BY <1>2 DEF CallRec
  <2>2. sub \in Seq(RouteNames) /\ Len(sub) = Len(c.dirs) + 1
    BY <1>03, <1>4, <2>1, AppendProperties
  <2> QED
    BY <1>2, <2>1, <2>2
<1>7. /\ names \in Seq(RouteNames)
      /\ \A l : (names # <<>> => LastAt(l, r, sub, names[1])) =>
            CallRight(NewCall(sub, l, names), Len(sub) + 1, r)
      /\ names # <<>> => /\ names[1] \in RouteNames
                         /\ \A l \in stayed : l.router = r /\ l.dirs = sub => ~(l.name < names[1])
      /\ \A f \in stayed : \A m :
            f.router = r /\ Under(f, sub, m) => \E i \in DOMAIN names : names[i] = m
  BY <1>04, <1>2, <1>6, ListingRight
<1>8. CallRight(e, k + 1, r)
  <2>1. names # <<>> => LastAt(layout, r, sub, names[1])
    BY <1>03, <1>2, <1>4, <1>6, <1>7, LastAtInto
  <2> QED
    BY <1>05, <1>6, <1>7, <2>1
<1>9. e \in CallRec /\ e.layout \in SUBSET seen /\ e.dirs = sub /\ e.names = names
      /\ d.dirs = c.dirs /\ d.names = Tail(c.names) /\ d \in CallRec
  <2>1. layout \in SUBSET seen /\ layout \in SUBSET SiteFiles
    BY <1>03, <1>2
  <2>2. d \in CallRec
    BY <1>02, <1>05, <1>2, <2>1, Visiting
  <2> QED
    BY <1>05, <1>6, <1>7, <2>1, <2>2 DEF NewCall, After, CallRec
<1>10. PICK D, K : D = Append(calls, e) /\ K = k + 1
  OBVIOUS
<1>11. /\ calls \in Seq(CallRec) /\ Len(calls) = k /\ calls[k] = d
       /\ \A j \in 1 .. k - 1 : calls[j] = dirCalls[j]
       /\ \A j \in 1 .. k : calls[j].layout \in SUBSET seen
       /\ \A j \in 1 .. k : CallRight(calls[j], j, r)
       /\ \A j \in 1 .. k : \A i \in 1 .. j - 1 : Inside(calls[j], calls[i])
  BY <1>01, <1>5 DEF AllRight
<1>12. /\ D \in Seq(CallRec) /\ Len(D) = K /\ D[K] = e /\ DOMAIN D = 1 .. K /\ D # <<>>
       /\ \A j \in 1 .. k : D[j] = calls[j]
  <2>1. D \in Seq(CallRec) /\ Len(D) = K /\ D[K] = e /\ \A j \in 1 .. k : D[j] = calls[j]
    BY <1>9, <1>10, <1>11, AppendProperties
  <2>2. DOMAIN D = 1 .. K /\ D # <<>>
    BY <1>2, <1>10, <2>1, LenProperties, EmptySeq
  <2> QED
    BY <2>1, <2>2
<1>13. /\ \A j \in 1 .. K : j = K \/ j \in 1 .. k
       /\ \A j \in 1 .. k : j = k \/ j \in 1 .. k - 1
       /\ \A j \in 1 .. K : \A i \in 1 .. j - 1 : i \in 1 .. k
       /\ \A j \in 1 .. k : j \in 1 .. K
       /\ \A j \in 1 .. k - 1 : j \in 1 .. k
       /\ K \in 1 .. K
  BY <1>2, <1>10
<1>14. \A j \in 1 .. K : D[j].layout \in SUBSET seen
  BY <1>9, <1>11, <1>12, <1>13
<1>15. \A j \in 1 .. K : CallRight(D[j], j, r)
  BY <1>8, <1>10, <1>11, <1>12, <1>13
<1>16. \A j \in 1 .. k : Inside(e, calls[j])
  <2>1. Inside(e, d)
    BY <1>03, <1>2, <1>4, <1>9, InsideEntry
  <2>2. ASSUME NEW j \in 1 .. k - 1 PROVE Inside(e, calls[j])
    <3>1. dirCalls[j] \in CallRec /\ Inside(c, dirCalls[j])
      BY <1>2
    <3>2. Inside(e, dirCalls[j])
      BY <1>03, <1>2, <1>4, <1>9, <3>1, InsideEntry
    <3> QED
      BY <1>11, <3>2
  <2> QED
    BY <1>11, <1>13, <2>1, <2>2
<1>17. \A j \in 1 .. K : \A i \in 1 .. j - 1 : Inside(D[j], D[i])
  BY <1>11, <1>12, <1>13, <1>16
<1>18. dirCalls' = D
  BY <1>3, <1>10
<1>19. RouteTypes'
  BY <1>00, <1>1, <1>12, <1>14, <1>18 DEF RouteTypes
<1>20. CallsRight'
  <2>1. \A j \in 1 .. K : CallRight(D[j], j, r)'
    BY <1>1, <1>15, CallStays
  <2>2. router' = r
    BY <1>01, <1>1
  <2>3. \A j \in 1 .. K : CallRight(dirCalls[j], j, router)'
    BY <1>18, <2>1, <2>2
  <2> QED
    BY <1>12, <1>17, <1>18, <2>3 DEF CallsRight
<1>21. FoundRight'
  <2>1. \A g : Pending(g)' <=> \/ r = "app" /\ g.router = "pages"
                               \/ g.router = r /\ \E j \in 1 .. K : Waits(D[j], g)
    BY <1>01, <1>1, <1>2, <1>12, <1>18 DEF Pending, Scanning
  <2>2. \A g : Pending(g) <=> \/ r = "app" /\ g.router = "pages"
                              \/ g.router = r /\ \E j \in 1 .. k : Waits(dirCalls[j], g)
    BY <1>01, <1>2 DEF Pending, Scanning
  <2>3. /\ c.names \in Seq(RouteNames) /\ n = c.names[1] /\ 1 \in DOMAIN c.names
        /\ \A i \in DOMAIN Tail(c.names) : i + 1 \in DOMAIN c.names /\ Tail(c.names)[i] = c.names[i + 1]
        /\ \A i \in DOMAIN c.names : i = 1 \/ \E j \in DOMAIN Tail(c.names) : Tail(c.names)[j] = c.names[i]
    <3>1. c.names \in Seq(RouteNames)
      BY <1>2 DEF CallRec
    <3> QED
      BY <1>02, <1>2, <3>1, TailIs
  <2>4. \A g : Waits(d, g) => Waits(c, g)
    BY <1>9, <2>3 DEF Waits
  <2>5. \A g \in SiteFiles : Waits(e, g) => Waits(c, g)
    <3> SUFFICES ASSUME NEW g \in SiteFiles, Waits(e, g) PROVE Waits(c, g)
      OBVIOUS
    <3>1. IsUnder(sub, g.dirs)
      BY <1>9 DEF Waits, Under
    <3>2. IsUnder(c.dirs, g.dirs) /\ NameAt(g, Len(c.dirs)) = n
      BY <1>03, <1>4, <1>6, <3>1, UnderEntry
    <3> QED
      BY <2>3, <3>2 DEF Waits, Under
  <2>6. \A g \in stayed : g.router = r /\ Waits(c, g) => Waits(d, g) \/ Waits(e, g)
    <3> SUFFICES ASSUME NEW g \in stayed, g.router = r, Waits(c, g), ~Waits(d, g) PROVE Waits(e, g)
      OBVIOUS
    <3>1. Under(g, c.dirs, n) /\ g \in SiteFiles
      BY <1>2, <1>9, <2>3 DEF Waits
    <3>2. IsUnder(sub, g.dirs)
      BY <1>03, <1>1, <1>6, <3>1, EntryIs
    <3>3. PICK m : m = NameAt(g, Len(sub))
      OBVIOUS
    <3>4. Under(g, sub, m)
      BY <3>2, <3>3 DEF Under
    <3> QED
      BY <1>7, <1>9, <3>4 DEF Waits
  <2>7. \A g \in stayed : Pending(g) => Pending(g)'
    <3> SUFFICES ASSUME NEW g \in stayed, g.router = r, NEW j \in 1 .. k, Waits(dirCalls[j], g)
                 PROVE  \E i \in 1 .. K : Waits(D[i], g)
      BY <2>1, <2>2
    <3>1. CASE j = k
      BY <1>2, <1>11, <1>12, <1>13, <2>6, <3>1
    <3>2. CASE j # k
      BY <1>11, <1>12, <1>13, <3>2
    <3> QED
      BY <3>1, <3>2
  <2>8. \A g \in SiteFiles : Pending(g)' => Pending(g)
    <3> SUFFICES ASSUME NEW g \in SiteFiles, g.router = r, NEW j \in 1 .. K, Waits(D[j], g)
                 PROVE  \E i \in 1 .. k : Waits(dirCalls[i], g)
      BY <2>1, <2>2
    <3>1. CASE j = K
      BY <1>2, <1>12, <2>5, <3>1
    <3>2. CASE j = k
      BY <1>2, <1>11, <1>12, <2>4, <3>2
    <3>3. CASE j \in 1 .. k - 1
      BY <1>11, <1>12, <1>13, <3>3
    <3> QED
      BY <1>13, <3>1, <3>2, <3>3
  <2> QED
    BY <1>1, <1>2, <2>7, <2>8, FoundStays
<1>22. BetweenCalls' /\ ListReturned'
  BY <1>00, <1>1, <1>2 DEF BetweenCalls, ListReturned, Scanning
<1> QED
  BY <1>19, <1>20, <1>21, <1>22 DEF RoutesInv

LEMMA ScanDirReturnsStep ==
    ASSUME RoutesInv, ScanDirReturns
    PROVE  RoutesInv'
<1>00. RouteTypes /\ BetweenCalls /\ CallsRight /\ FoundRight /\ ListReturned
  BY DEF RoutesInv
<1>01. PICK k, r, D : k = Len(dirCalls) /\ r = router /\ D = SubSeq(dirCalls, 1, k - 1)
  OBVIOUS
<1>1. /\ routeStep = "scan" /\ dirCalls # <<>> /\ Top.names = <<>> /\ dirCalls' = D
      /\ UNCHANGED <<site, foundRoutes, routeManifest, siteEdits, stayed, seen>>
      /\ k = 1 => NextRouter
      /\ k # 1 => UNCHANGED <<routeStep, router, routeList>>
  BY <1>01 DEF ScanDirReturns
<1>2. /\ k \in Nat /\ k > 0 /\ dirCalls[k].names = <<>> /\ dirCalls \in Seq(CallRec)
      /\ \A j \in 1 .. k : /\ dirCalls[j] \in CallRec /\ dirCalls[j].layout \in SUBSET seen
                           /\ CallRight(dirCalls[j], j, r)
                           /\ \A i \in 1 .. j - 1 : Inside(dirCalls[j], dirCalls[i])
  <2>1. dirCalls \in Seq(CallRec)
    BY <1>00 DEF RouteTypes
  <2>2. k \in Nat /\ k > 0
    BY <1>01, <1>1, <2>1, EmptySeq
  <2>3. dirCalls[k].names = <<>>
    BY <1>01, <1>1 DEF Top
  <2> QED
    BY <1>00, <1>01, <1>1, <2>1, <2>2, <2>3, CallFields DEF CallsRight
<1>3. \A j \in 1 .. k : j = k \/ j \in 1 .. k - 1
  BY <1>2
<1>4. \A f : ~Waits(dirCalls[k], f)
  <2>1. DOMAIN <<>> = {}
    OBVIOUS
  <2> QED
    BY <1>2, <2>1 DEF Waits
<1>5. Scanning /\ routeStep \notin {"idle", "failed"}
  BY <1>1 DEF Scanning
<1>6. \A f : Pending(f) <=> \/ r = "app" /\ f.router = "pages"
                            \/ f.router = r /\ \E j \in 1 .. k : Waits(dirCalls[j], f)
  BY <1>01, <1>1, <1>5 DEF Pending
<1>7. /\ D \in Seq(CallRec) /\ Len(D) = k - 1 /\ DOMAIN D = 1 .. k - 1
      /\ \A j \in 1 .. k - 1 : j \in 1 .. k /\ D[j] = dirCalls[j]
      /\ k = 1 => D = <<>>
      /\ k # 1 => D # <<>>
  <2>1. PICK m : m = k - 1
    OBVIOUS
  <2>2. m \in Nat /\ (1 <= m \/ m = 0) /\ \A j \in 1 .. m : j \in 1 .. k /\ 1 + j - 1 = j
    BY <1>2, <2>1
  <2>3. m - 1 + 1 = m
    BY <2>2
  <2>4. \A i \in 1 .. m : dirCalls[i] \in CallRec
    BY <1>2, <2>2
  <2>5. D = SubSeq(dirCalls, 1, m)
    BY <1>01, <2>1
  <2>6. /\ D \in Seq(CallRec) /\ Len(D) = IF 1 <= m THEN m - 1 + 1 ELSE 0
        /\ \A j \in 1 .. m - 1 + 1 : D[j] = dirCalls[1 + j - 1]
    BY <1>2, <2>2, <2>4, <2>5, SubSeqProperties
  <2>7. Len(D) = m /\ \A j \in 1 .. m : D[j] = dirCalls[j]
    BY <2>2, <2>3, <2>6
  <2>8. DOMAIN D = 1 .. m /\ (m = 0 => D = <<>>) /\ (m # 0 => D # <<>>)
    BY <2>2, <2>6, <2>7, LenProperties, EmptySeq
  <2>9. (k = 1 <=> m = 0)
    BY <1>2, <2>1
  <2> QED
    BY <2>1, <2>2, <2>6, <2>7, <2>8, <2>9
<1>8. CASE k = 1
  <2>1. \A f \in stayed : f.router = router => ~Pending(f)
    <3>1. \A j \in 1 .. k : j = k
      BY <1>8
    <3> QED
      BY <1>01, <1>4, <1>6, <3>1
  <2>2. dirCalls' = <<>> /\ NextRouter
    BY <1>1, <1>7, <1>8
  <2> QED
    BY <1>1, <1>5, <2>1, <2>2, NextRouterStep
<1>9. CASE k # 1
  <2>1. UNCHANGED <<site, routeStep, router, foundRoutes, routeList, siteEdits, stayed, seen>>
    BY <1>1, <1>9
  <2>2. RouteTypes'
    BY <1>00, <1>1, <1>2, <1>7, <2>1 DEF RouteTypes
  <2>3. CallsRight'
    <3>1. \A j \in 1 .. k - 1 : CallRight(D[j], j, r)'
      <4>1. \A j \in 1 .. k - 1 : CallRight(D[j], j, r)
        BY <1>2, <1>7
      <4> QED
        BY <2>1, <4>1, CallStays
    <3>2. router' = r
      BY <1>01, <2>1
    <3>3. \A j \in 1 .. k - 1 : CallRight(dirCalls[j], j, router)'
      BY <1>1, <3>1, <3>2
    <3>4. \A j \in 1 .. k - 1 : \A i \in 1 .. j - 1 : i \in 1 .. k - 1
      BY <1>2
    <3>5. \A j \in 1 .. k - 1 : \A i \in 1 .. j - 1 : Inside(D[j], D[i])
      BY <1>2, <1>7, <3>4
    <3> QED
      BY <1>1, <1>7, <1>9, <3>3, <3>5 DEF CallsRight
  <2>4. \A f : Pending(f)' <=> \/ r = "app" /\ f.router = "pages"
                               \/ f.router = r /\ \E j \in 1 .. k - 1 : Waits(D[j], f)
    BY <1>01, <1>1, <1>5, <1>7, <2>1 DEF Pending, Scanning
  <2>5. \A f : Pending(f)' <=> Pending(f)
    BY <1>3, <1>4, <1>6, <1>7, <2>4
  <2>6. FoundRight'
    BY <1>1, <1>5, <2>5, FoundStays
  <2>7. BetweenCalls' /\ ListReturned'
    BY <1>00, <1>1, <2>1 DEF BetweenCalls, ListReturned, Scanning
  <2> QED
    BY <2>2, <2>3, <2>6, <2>7 DEF RoutesInv
<1> QED
  BY <1>8, <1>9

LEMMA RoutesStep == RoutesInv /\ [RoutesNext]_routesVars => RoutesInv'
<1> SUFFICES ASSUME RoutesInv, [RoutesNext]_routesVars PROVE RoutesInv'
  OBVIOUS
<1>1. CASE EditSite
  BY <1>1, EditSiteStep
<1>2. CASE ScanRoutesBegin
  BY <1>2, ScanRoutesBeginStep
<1>3. CASE StatRouter
  BY <1>3, StatRouterStep
<1>4. CASE ScanRouter
  BY <1>4, ScanRouterStep
<1>5. CASE ScanFile
  BY <1>5, ScanFileStep
<1>6. CASE ScanSubdirectory
  BY <1>6, ScanSubdirectoryStep
<1>7. CASE ReadDirFails
  BY <1>7, ReadDirFailsStep
<1>8. CASE ScanDirReturns
  BY <1>8, ScanDirReturnsStep
<1>9. CASE StatForManifest
  BY <1>9, StatForManifestStep
<1>10. CASE UNCHANGED routesVars
  <2>1. UNCHANGED <<site, routeStep, router, dirCalls, foundRoutes, routeList, siteEdits, stayed, seen>>
    BY <1>10 DEF routesVars, scanVars
  <2>2. RouteTypes' /\ BetweenCalls' /\ ListReturned'
    BY <2>1 DEF RoutesInv, RouteTypes, BetweenCalls, Scanning, ListReturned
  <2>3. \A c, k, r : CallRight(c, k, r)' <=> CallRight(c, k, r)
    BY <2>1 DEF CallRight, LastAt
  <2>4. PICK D : D = dirCalls
    OBVIOUS
  <2>5. PICK r : r = router
    OBVIOUS
  <2>6. dirCalls' = D /\ router' = r
    BY <2>1, <2>4, <2>5
  <2>7. CallsRight'
    BY <2>1, <2>3, <2>4, <2>5, <2>6 DEF RoutesInv, CallsRight
  <2>8. \A f : Pending(f)' <=> Pending(f)
    BY <2>1 DEF Pending, Scanning
  <2>9. FoundRight'
    <3>1. CASE routeStep \in {"idle", "failed"}
      BY <2>1, <3>1 DEF FoundRight
    <3>2. CASE routeStep \notin {"idle", "failed"}
      BY <2>1, <2>8, <3>2, FoundStays
    <3> QED
      BY <3>1, <3>2
  <2> QED
    BY <2>2, <2>7, <2>9 DEF RoutesInv
<1> QED
  BY <1>1, <1>2, <1>3, <1>4, <1>5, <1>6, <1>7, <1>8, <1>9, <1>10
     DEF RoutesNext, GenerateManifest

-----------------------------------------------------------------------------
(* The route scanner: what it returns                                      *)

Lists(kids, S) ==
    /\ {kids[n] : n \in DOMAIN kids} = S
    /\ \A m, n \in DOMAIN kids : kids[m] = kids[n] => m = n

\* The routes found, every file once.
FilesOnce(found, len) ==
    /\ len \in Nat /\ DOMAIN found = 1 .. len
    /\ \A i, j \in 1 .. len : found[i].file = found[j].file => i = j
NamedBy(found, f) == {k \in DOMAIN found : found[k].layout = {f}}

\* The children of a layout are the routes that name it, each once.
LEMMA ChildrenAre ==
    ASSUME NEW found, NEW len, FilesOnce(found, len), NEW f
    PROVE  Lists(ChildrenOf(f, found), {found[i].file : i \in NamedBy(found, f)})
<1>0. PICK J, kids : J = NamedBy(found, f) /\ kids = ChildrenOf(f, found)
  OBVIOUS
<1>1. PICK o, c : o = InOrder(J) /\ c = Cardinality(J)
  OBVIOUS
<1>2. J \in SUBSET Nat /\ IsFiniteSet(J) /\ \A i \in J : i \in 1 .. len
  <2>1. len \in Nat /\ \A i \in J : i \in 1 .. len
    BY <1>0 DEF FilesOnce, NamedBy
  <2>2. IsFiniteSet(1 .. len) /\ 1 .. len \in SUBSET Nat
    BY <2>1, FS_Interval
  <2>3. J \subseteq 1 .. len
    BY <2>1
  <2> QED
    BY <2>1, <2>2, <2>3, FS_Subset
<1>3. kids = [n \in DOMAIN o |-> found[o[n]].file]
  BY <1>0, <1>1 DEF ChildrenOf, NamedBy
<1>6. /\ c \in Nat /\ o \in [1 .. c -> J]
      /\ \A i, j \in 1 .. c : i < j => o[i] < o[j]
      /\ \A m \in J : \E i \in 1 .. c : o[i] = m
  BY <1>1, <1>2, InOrderIs
<1>7. \A i, j \in 1 .. c : o[i] = o[j] => i = j
  <2> SUFFICES ASSUME NEW i \in 1 .. c, NEW j \in 1 .. c, o[i] = o[j], i # j PROVE FALSE
    OBVIOUS
  <2>1. o[i] \in Nat /\ o[j] \in Nat /\ (i < j \/ j < i)
    <3>1. \A m \in J : m \in Nat
      BY <1>2
    <3>2. o[i] \in J /\ o[j] \in J
      BY <1>6
    <3>3. i < j \/ j < i
      BY <1>6
    <3> QED
      BY <3>1, <3>2, <3>3
  <2>2. (i < j => o[i] < o[j]) /\ (j < i => o[j] < o[i])
    BY <1>6
  <2> QED
    BY <2>1, <2>2
<1>8. DOMAIN kids = 1 .. c /\ \A n \in 1 .. c : kids[n] = found[o[n]].file /\ o[n] \in J
  <2>1. kids = [n \in DOMAIN o |-> found[o[n]].file]
    BY <1>3
  <2>2. DOMAIN o = 1 .. c /\ \A n \in 1 .. c : o[n] \in J
    BY <1>6
  <2> QED
    BY <2>1, <2>2
<1>9. {kids[n] : n \in DOMAIN kids} = {found[i].file : i \in J}
  <2>1. \A i \in J : \E n \in DOMAIN kids : kids[n] = found[i].file
    BY <1>6, <1>8
  <2>2. \A n \in DOMAIN kids : \E i \in J : kids[n] = found[i].file
    BY <1>8
  <2> QED
    BY <2>1, <2>2
<1>10. \A m, n \in DOMAIN kids : kids[m] = kids[n] => m = n
  <2> SUFFICES ASSUME NEW m \in 1 .. c, NEW n \in 1 .. c, kids[m] = kids[n] PROVE m = n
    BY <1>8
  <2>1. o[m] \in 1 .. len /\ o[n] \in 1 .. len /\ found[o[m]].file = found[o[n]].file
    BY <1>2, <1>8
  <2>2. o[m] = o[n]
    BY <2>1 DEF FilesOnce
  <2> QED
    BY <1>7, <2>2
<1> QED
  BY <1>0, <1>9, <1>10 DEF Lists

\* The conjuncts of RoutesExact for one route, and for a page and an API route.
RouteExact(i) ==
    LET r == routeList[i].route
        kids == routeList[i].children
    IN  /\ r.file \in seen /\ NameKind[r.file.name] # "none"
        /\ \A j \in DOMAIN routeList : routeList[j].route.file = r.file => j = i
        /\ LayoutIsLast(r)
        /\ Lists(kids, {q.route.file : q \in {routeList[j] : j \in {k \in DOMAIN routeList :
                                            routeList[k].route.layout = {r.file}}}})
ConflictFound(f, g) ==
    f.dirs = g.dirs /\ RouteType(f.name) = "page" /\ RouteType(g.name) = "api-route" =>
        {f, g} \subseteq {r.file : r \in FindConflicts(routeList)}

LEMMA RoutesExactIs ==
    RoutesExact <=>
        (routeStep = "done" =>
            /\ {f \in stayed : NameKind[f.name] # "none"}
                    \subseteq {routeList[i].route.file : i \in DOMAIN routeList}
            /\ \A i \in DOMAIN routeList : RouteExact(i)
            /\ \A f, g \in stayed : ConflictFound(f, g))
  BY DEF RoutesExact, RouteExact, ConflictFound, Lists

LEMMA RoutesSound == RoutesInv => RoutesTypeOK /\ RoutesExact
<1> SUFFICES ASSUME RoutesInv PROVE RoutesTypeOK /\ RoutesExact
  OBVIOUS
<1>00. RouteTypes /\ FoundRight /\ ListReturned
  BY DEF RoutesInv
<1>0. RoutesTypeOK
  BY <1>00 DEF RouteTypes, RoutesTypeOK, RouteSteps
<1>1. SUFFICES ASSUME routeStep = "done"
               PROVE  /\ {f \in stayed : NameKind[f.name] # "none"}
                            \subseteq {routeList[i].route.file : i \in DOMAIN routeList}
                      /\ \A i \in DOMAIN routeList : RouteExact(i)
                      /\ \A f, g \in stayed : ConflictFound(f, g)
  BY <1>0, RoutesExactIs
<1>2. PICK F, L, len : F = foundRoutes /\ L = routeList /\ len = Len(F)
  OBVIOUS
<1>3. L = WithChildren(F)
  BY <1>00, <1>1, <1>2 DEF ListReturned
<1>4. /\ len \in Nat /\ DOMAIN F = 1 .. len
      /\ \A i \in 1 .. len : /\ F[i] = ParseFile(F[i].file, F[i].layout)
                             /\ F[i].file \in seen /\ F[i].file \in SiteFiles
                             /\ F[i].layout \in SUBSET seen
      /\ stayed \in SUBSET SiteFiles /\ seen \in SUBSET SiteFiles
  BY <1>00, <1>2, CallFields DEF RouteTypes
<1>5. \A f : ~Pending(f)
  BY <1>1 DEF Pending, Scanning
<1>6. /\ \A f \in stayed : NameKind[f.name] = "none" \/ \E i \in 1 .. len : F[i].file = f
      /\ \A i \in 1 .. len : RouteRight(F[i])
      /\ \A i, j \in 1 .. len : F[i].file = F[j].file => i = j
  BY <1>00, <1>1, <1>2, <1>5 DEF FoundRight
<1>7. \A i \in 1 .. len : F[i].type = RouteType(F[i].file.name) /\ F[i].path = RoutePath(F[i].file)
  <2> SUFFICES ASSUME NEW i \in 1 .. len
               PROVE  F[i].type = RouteType(F[i].file.name) /\ F[i].path = RoutePath(F[i].file)
    OBVIOUS
  <2>1. PICK f, layout : f = F[i].file /\ layout = F[i].layout
    OBVIOUS
  <2>2. F[i] = ParseFile(f, layout)
    BY <1>4, <2>1
  <2>3. ParseFile(f, layout).type = RouteType(f.name) /\ ParseFile(f, layout).path = RoutePath(f)
    BY DEF ParseFile
  <2> QED
    BY <2>1, <2>2, <2>3
<1>8. /\ DOMAIN L = 1 .. len
      /\ \A i \in 1 .. len :
            /\ L[i].route = F[i]
            /\ L[i].children = IF F[i].type = "layout" THEN ChildrenOf(F[i].file, F) ELSE <<>>
  <2>1. L = [i \in DOMAIN F |-> [route |-> F[i],
                children |-> IF F[i].type = "layout" THEN ChildrenOf(F[i].file, F) ELSE <<>>]]
    BY <1>3 DEF WithChildren
  <2> QED
    BY <1>4, <2>1
<1>9. {f \in stayed : NameKind[f.name] # "none"} \subseteq {L[i].route.file : i \in DOMAIN L}
  BY <1>6, <1>8
<1>10. ASSUME NEW i \in 1 .. len
       PROVE  RouteExact(i)
  <2>1. PICK r, kids, f : r = F[i] /\ kids = L[i].children /\ f = F[i].file
    OBVIOUS
  <2>2. r.file \in seen /\ NameKind[r.file.name] # "none" /\ LayoutIsLast(r)
    <3>1. RouteRight(r) /\ r.file \in seen /\ r.file \in SiteFiles
      BY <1>4, <1>6, <2>1
    <3> QED
      BY <1>4, <3>1, LayoutIsLastIs DEF RouteRight
  <2>3. \A j \in DOMAIN L : L[j].route.file = r.file => j = i
    BY <1>6, <1>8, <2>1
  <2>4. PICK J : J = NamedBy(F, f)
    OBVIOUS
  <2>5. Lists(kids, {F[j].file : j \in J})
    <3>1. CASE r.type = "layout"
      <4>1. kids = ChildrenOf(f, F)
        BY <1>8, <2>1, <3>1
      <4> QED
        <5>1. FilesOnce(F, len)
          BY <1>4, <1>6 DEF FilesOnce
        <5> QED
          BY <2>4, <4>1, <5>1, ChildrenAre
    <3>2. CASE r.type # "layout"
      <4>1. kids = <<>> /\ DOMAIN kids = {}
        BY <1>8, <2>1, <3>2
      <4>2. NameKind[f.name] # "layout"
        BY <1>7, <2>1, <3>2 DEF RouteType
      <4>3. J = {}
        <5> SUFFICES ASSUME NEW k \in J PROVE FALSE
          OBVIOUS
        <5>1. k \in 1 .. len /\ F[k].layout = {f}
          BY <1>4, <2>4 DEF NamedBy
        <5>2. F[k].layout # NoLayout
          BY <5>1 DEF NoLayout
        <5>3. PICK last \in seen : F[k].layout = {last} /\ NameKind[last.name] = "layout"
          <6>1. PICK layout, q : layout = F[k].layout /\ q = F[k].file
            OBVIOUS
          <6>2. LastAt(layout, q.router, q.dirs, q.name) /\ layout # NoLayout
            BY <1>6, <5>1, <5>2, <6>1 DEF RouteRight
          <6>3. \E last \in seen : layout = {last} /\ NameKind[last.name] = "layout"
            BY <6>2 DEF LastAt, OnWay
          <6> QED
            BY <6>1, <6>3
        <5> QED
          BY <4>2, <5>1, <5>3
      <4> QED
        BY <4>1, <4>3 DEF Lists
    <3> QED
      BY <3>1, <3>2
  <2>6. {q.route.file : q \in {L[j] : j \in {k \in DOMAIN L : L[k].route.layout = {r.file}}}}
            = {F[j].file : j \in J}
    <3>1. {k \in DOMAIN L : L[k].route.layout = {r.file}} = J
      BY <1>4, <1>8, <2>1, <2>4 DEF NamedBy
    <3>2. \A j \in J : L[j].route.file = F[j].file
      BY <1>4, <1>8, <2>4 DEF NamedBy
    <3> QED
      BY <3>1, <3>2
  <2>7. L[i].route = r
    BY <1>8, <2>1
  <2>8. Lists(kids, {q.route.file : q \in {L[j] : j \in {k \in DOMAIN L :
                                                L[k].route.layout = {r.file}}}})
    BY <2>5, <2>6
  <2>9. routeList[i].route = r /\ routeList[i].children = kids /\ routeList = L
    BY <1>2, <2>1, <2>7
  <2> QED
    BY <2>2, <2>3, <2>8, <2>9 DEF RouteExact
<1>11. ASSUME NEW f \in stayed, NEW g \in stayed, f.dirs = g.dirs, RouteType(f.name) = "page",
              RouteType(g.name) = "api-route"
       PROVE  {f, g} \subseteq {r.file : r \in FindConflicts(L)}
  <2>1. NameKind[f.name] # "none" /\ NameKind[g.name] # "none"
    BY <1>11 DEF RouteType
  <2>2. PICK i \in 1 .. len, j \in 1 .. len : F[i].file = f /\ F[j].file = g
    BY <1>6, <2>1
  <2>3. /\ F[i].type = "page" /\ F[j].type = "api-route" /\ i # j
        /\ F[i].path = F[j].path
    <3>1. RoutePath(f) = <<"/", f.dirs>> /\ RoutePath(g) = <<"/", f.dirs>>
      <4>1. NameKind[f.name] # "middleware" /\ NameKind[g.name] # "middleware"
        BY <1>11 DEF RouteType
      <4> QED
        BY <1>11, <4>1 DEF RoutePath
    <3> QED
      BY <1>7, <1>11, <2>2, <3>1
  <2>4. PICK served : served = {k \in DOMAIN L : L[k].route.type \in {"page", "api-route"}}
    OBVIOUS
  <2>5. /\ i \in served /\ j \in served /\ i \in served \ {j} /\ j \in served \ {i}
        /\ L[i].route.path = L[j].route.path
    BY <1>8, <2>3, <2>4
  <2>6. FindConflicts(L) = {L[k].route : k \in {h \in served :
            \E m \in served \ {h} : L[m].route.path = L[h].route.path}}
    BY <2>4 DEF FindConflicts
  <2>7. L[i].route \in FindConflicts(L) /\ L[j].route \in FindConflicts(L)
    BY <2>5, <2>6
  <2>8. L[i].route.file = f /\ L[j].route.file = g
    BY <1>8, <2>2
  <2> QED
    BY <2>7, <2>8
<1>12. \A f, g \in stayed : ConflictFound(f, g)
  BY <1>2, <1>11 DEF ConflictFound
<1> QED
  BY <1>2, <1>8, <1>9, <1>10, <1>12

\* A scan during which files come and go finds every source file that stayed once and
\* no other than was there at some time, gives it the last layout on the way to it that
\* is listed before it, gives each layout its children and finds every page and API
\* route that share their path (scanDir, routes.go:75): for any directories and names.
THEOREM RoutesExactCorrect == RoutesSpec => [](RoutesTypeOK /\ RoutesExact)
<1>1. RoutesInit => RoutesInv
  BY RoutesInitHolds
<1>2. RoutesInv /\ [RoutesNext]_routesVars => RoutesInv'
  BY RoutesStep
<1>3. RoutesInv => RoutesTypeOK /\ RoutesExact
  BY RoutesSound
<1> QED
  BY <1>1, <1>2, <1>3, PTL DEF RoutesSpec

=============================================================================
