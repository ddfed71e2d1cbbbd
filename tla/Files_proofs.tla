----------------------------- MODULE Files_proofs -----------------------------
(* Theorems about the two components that look at the file system: the       *)
(* scanner, for every tree, every set of ignore patterns, every number of    *)
(* workers, every capacity of the channel and every number of removals; and  *)
(* the watcher, for all paths, timers and capacities.                        *)
EXTENDS Scanner, Watcher, FiniteSetTheorems, SequenceTheorems, TLAPS

--------------------------------------------------------------------------------
(* Lemmas about sequences                                                    *)

\* The elements of a sequence of elements of S are elements of S.
LEMMA RangeInSet ==
    ASSUME NEW S, NEW s \in Seq(S)
    PROVE  Range(s) \subseteq S
  BY LenProperties, ElementOfSeq DEF Range

\* What a sequence holds after Append, and that nothing is in it twice.
LEMMA AppendRange ==
    ASSUME NEW S, NEW s \in Seq(S), NEW e \in S
    PROVE  /\ Range(Append(s, e)) = Range(s) \cup {e}
           /\ IsInjective(s) /\ e \notin Range(s) => IsInjective(Append(s, e))
  <1> DEFINE r == Append(s, e)
  <1>1. /\ r \in Seq(S) /\ Len(r) = Len(s) + 1
        /\ \A i \in 1..Len(s) : r[i] = s[i]
        /\ r[Len(s) + 1] = e
    BY AppendProperties
  <1> HIDE DEF r
  <1>2. /\ Len(s) \in Nat /\ DOMAIN s = 1..Len(s)
        /\ DOMAIN r = 1..(Len(s) + 1)
    BY <1>1, LenProperties
  <1>3. Range(r) = Range(s) \cup {e}
    BY <1>1, <1>2 DEF Range
  <1>4. IsInjective(s) /\ e \notin Range(s) => IsInjective(r)
    BY <1>1, <1>2 DEF Range, IsInjective
  <1> QED
    BY <1>3, <1>4 DEF r

\* What a sequence holds is its head and what its tail holds.
LEMMA HeadTailRange ==
    ASSUME NEW S, NEW s \in Seq(S), s # <<>>
    PROVE  /\ Range(s) = {Head(s)} \cup Range(Tail(s))
           /\ IsInjective(s) => IsInjective(Tail(s)) /\ Head(s) \notin Range(Tail(s))
  <1> DEFINE r == Tail(s)
             h == Head(s)
  <1>1. /\ Len(s) \in Nat \ {0} /\ DOMAIN s = 1..Len(s)
        /\ r \in Seq(S) /\ Len(r) = Len(s) - 1
        /\ \A i \in 1..Len(r) : r[i] = s[i + 1]
    BY EmptySeq, LenProperties, HeadTailProperties
  <1>2. h = s[1]
    BY <1>1
  <1> HIDE DEF r, h
  <1>3. DOMAIN r = 1..(Len(s) - 1)
    BY <1>1, LenProperties
  <1>4. \A i \in DOMAIN s : i = 1 \/ (i - 1 \in DOMAIN r /\ r[i - 1] = s[i])
    BY <1>1, <1>3
  <1>5. Range(s) \subseteq {h} \cup Range(r)
    BY <1>2, <1>4 DEF Range
  <1>6. {h} \cup Range(r) \subseteq Range(s)
    BY <1>1, <1>2, <1>3 DEF Range
  <1>7. \A i \in DOMAIN r : i \in 1..Len(r) /\ i + 1 \in DOMAIN s /\ i + 1 # 1 /\ r[i] = s[i + 1]
    BY <1>1, <1>3
  <1>8. IsInjective(s) => IsInjective(r)
    BY <1>3, <1>7 DEF IsInjective
  <1>9. IsInjective(s) => h \notin Range(r)
    <2> SUFFICES ASSUME IsInjective(s), NEW i \in DOMAIN r, r[i] = h
                 PROVE  FALSE
      BY DEF Range
    <2>1. 1 \in DOMAIN s /\ s[1] = s[i + 1]
      BY <1>1, <1>2, <1>7
    <2> QED
      BY <2>1, <1>7 DEF IsInjective
  <1> QED
    BY <1>5, <1>6, <1>8, <1>9 DEF r, h

--------------------------------------------------------------------------------
(* The scanner's inductive invariant                                         *)

\* A worker that is not walking has no entries, one in its select nothing.
WorkersQuiet ==
    \A w \in Workers :
        /\ st[w] # "walking" => todo[w] = {}
        /\ st[w] \in {"idle", "exited"} => subs[w] = {}

\* Scan starts the workers when it is through with the root, and the last
\* worker to exit has seen the channel empty.
Phases ==
    /\ phase = "root" => \A w \in Workers : st[w] = "idle"
    /\ phase \in {"scanning", "returned"} => rootTodo = {} /\ rootDirs = {}
    /\ phase = "scanning" /\ AllExited => queue = <<>>
    /\ phase = "returned" => queue = <<>> /\ \A w \in Workers : st[w] \in {"idle", "exited"}

\* What has passed the ignore patterns.
Passed(n) ==
    \/ n \in rootDirs \cup Range(queue) \cup walked \cup dropped \cup inResult
    \/ \E w \in Workers : n \in subs[w]

\* Everything comes from the root or from a directory that was walked.
Origins ==
    /\ rootTodo \subseteq Listing[Root]
    /\ \A w \in Workers : \A n \in todo[w] : \E d \in walked : n \in Listing[d]
    /\ \A n \in Nodes : Passed(n) => \E d \in {Root} \cup walked : n \in Kept(d)

\* No node is in two places.
OnePlace ==
    /\ IsInjective(queue)
    /\ \A f \in Files : found[f] <= 1
    /\ \A n \in rootTodo : ~Passed(n) /\ \A w \in Workers : n \notin todo[w]
    /\ \A w \in Workers : \A n \in todo[w] :
           ~Passed(n) /\ \A v \in Workers : v # w => n \notin todo[v]
    /\ \A w \in Workers : \A n \in subs[w] :
           /\ n \notin rootDirs \cup Range(queue) \cup walked \cup dropped
           /\ \A v \in Workers : v # w => n \notin subs[v]
    /\ rootDirs \cap (Range(queue) \cup walked \cup dropped) = {}
    /\ Range(queue) \cap (walked \cup dropped) = {}
    /\ walked \cap dropped = {}

\* Where an entry that should be found can be.
Accounted(n) ==
    \/ n \in rootTodo \cup gone
    \/ Passed(n)
    \/ \E w \in Workers : n \in todo[w]

\* No wanted entry of a directory that was walked while it was there is lost.
NotLost == \A d \in {Root} \cup (walked \ gone) : \A n \in Kept(d) : Accounted(n)

IInv == ScanTypeOK /\ WorkersQuiet /\ Phases /\ Origins /\ OnePlace /\ NotLost

--------------------------------------------------------------------------------
(* Lemmas about the tree and the result                                      *)

\* What a directory holds are nodes; a node is in one directory only.
LEMMA Tree ==
    /\ Root \notin Nodes /\ Dirs \cap Files = {} /\ Nodes = Dirs \cup Files
    /\ \A d \in Dirs \cup {Root} : Listing[d] \subseteq Nodes /\ Kept(d) \subseteq Listing[d]
    /\ \A d, e \in Dirs \cup {Root}, n \in Nodes :
           n \in Listing[d] /\ n \in Listing[e] => d = e
  BY TreeAssumption DEF Nodes, Kept

\* What is kept in the code is what is wanted.
LEMMA KeptIsWanted ==
    /\ \A n \in Listing[Root] : KeptInRoot(n) <=> n \in Kept(Root)
    /\ \A d \in Dirs : \A n \in Listing[d] : KeptBelow(n) <=> n \in Kept(d)
  BY Tree DEF Kept, KeptInRoot, KeptBelow, Matches, MatchesPath

\* One more file in the result.
LEMMA ResultGrows ==
    ASSUME found \in [Files -> Nat], NEW f \in Files, found' = [found EXCEPT ![f] = @ + 1]
    PROVE  /\ found' \in [Files -> Nat] /\ inResult' = inResult \cup {f}
           /\ f \notin inResult => found[f] = 0 /\ found'[f] = 1
           /\ \A g \in Files : g # f => found'[g] = found[g]
  <1>1. \A g \in Files : found'[g] = IF g = f THEN found[g] + 1 ELSE found[g]
    OBVIOUS
  <1> QED
    BY <1>1 DEF inResult

LEMMA ResultSame == ASSUME UNCHANGED found PROVE inResult' = inResult
  BY DEF inResult

LEMMA InitInv == ScanInit => IInv
  <1> SUFFICES ASSUME ScanInit PROVE IInv
    OBVIOUS
  <1>1. queue \in Seq(Dirs) /\ Len(queue) = 0 /\ Range(queue) = {} /\ IsInjective(queue)
    <2>1. <<>> \in Seq(Dirs) /\ Len(<<>>) = 0
      BY EmptySeq
    <2>2. DOMAIN <<>> = {}
      BY <2>1, LenProperties
    <2> QED
      BY <2>1, <2>2 DEF ScanInit, Range, IsInjective
  <1>2. inResult = {}
    BY DEF ScanInit, inResult
  <1>3. ScanTypeOK
    BY <1>1, Tree, QueueCapAssumption DEF ScanInit, ScanTypeOK
  <1>4. \A n : ~Passed(n)
    BY <1>1, <1>2 DEF ScanInit, Passed
  <1>5. WorkersQuiet /\ Phases
    BY DEF ScanInit, WorkersQuiet, Phases
  <1>6. Origins /\ OnePlace
    BY <1>1, <1>4 DEF ScanInit, Origins, OnePlace
  <1>7. NotLost
    BY Tree DEF ScanInit, NotLost, Accounted
  <1> QED
    BY <1>3, <1>5, <1>6, <1>7 DEF IInv

--------------------------------------------------------------------------------
(* Every step of a scan keeps the invariant                                  *)

LEMMA RemoveStep ==
    ASSUME IInv, NEW n \in Nodes, Remove(n)
    PROVE  IInv'
  <1>1. inResult' = inResult
    BY ResultSame DEF Remove
  <1>2. \A m : Passed(m)' <=> Passed(m)
    BY <1>1 DEF Remove, Passed
  <1>3. gone \subseteq gone' /\ gone' \subseteq Nodes
    BY DEF Remove, Subtree, IInv, ScanTypeOK
  <1>4. ScanTypeOK' /\ WorkersQuiet' /\ Phases'
    BY <1>3 DEF IInv, ScanTypeOK, WorkersQuiet, Phases, AllExited, Remove
  <1>5. Origins'
    BY <1>2 DEF IInv, Origins, Remove
  <1>6. OnePlace'
    BY <1>2 DEF IInv, OnePlace, Remove
  <1>7. NotLost'
    BY <1>2, <1>3 DEF IInv, NotLost, Accounted, Remove
  <1> QED
    BY <1>4, <1>5, <1>6, <1>7 DEF IInv

LEMMA RootEntryStep ==
    ASSUME IInv, NEW n \in Nodes, RootEntry(n)
    PROVE  IInv'
  <1>1. /\ n \in rootTodo /\ n \in Listing[Root] /\ phase = "root"
        /\ rootTodo' = rootTodo \ {n}
        /\ UNCHANGED <<queue, st, todo, subs, walked, dropped, gone>>
    BY DEF RootEntry, IInv, Origins
  <1>2. ~Passed(n) /\ n \notin inResult /\ \A w \in Workers : n \notin todo[w]
    BY <1>1 DEF IInv, OnePlace, Passed
  <1>3. KeptInRoot(n) <=> n \in Kept(Root)
    BY <1>1, KeptIsWanted
  <1>4. CASE UNCHANGED <<phase, rootDirs, found>> /\ (n \notin Kept(Root) \/ n \in gone)
    <2>1. inResult' = inResult
      BY <1>4, ResultSame
    <2>2. \A m : Passed(m)' <=> Passed(m)
      BY <1>1, <1>4, <2>1 DEF Passed
    <2>3. ScanTypeOK' /\ WorkersQuiet' /\ Phases'
      BY <1>1, <1>4 DEF IInv, ScanTypeOK, WorkersQuiet, Phases, AllExited
    <2>4. Origins'
      BY <1>1, <2>2 DEF IInv, Origins
    <2>5. OnePlace'
      BY <1>1, <1>4, <2>2 DEF IInv, OnePlace
    <2>6. NotLost'
      <3>1. \A d \in walked : n \notin Kept(d)
        BY <1>1, Tree DEF IInv, ScanTypeOK
      <3> QED
        BY <1>1, <1>4, <2>2, <3>1 DEF IInv, NotLost, Accounted
    <2> QED
      BY <2>3, <2>4, <2>5, <2>6 DEF IInv
  <1>5. CASE n \in Files /\ n \in gone /\ phase' = "panicked" /\ UNCHANGED <<rootDirs, found>>
    <2>1. inResult' = inResult
      BY <1>5, ResultSame
    <2>2. \A m : Passed(m)' <=> Passed(m)
      BY <1>1, <1>5, <2>1 DEF Passed
    <2>3. ScanTypeOK' /\ WorkersQuiet' /\ Phases'
      BY <1>1, <1>5 DEF IInv, ScanTypeOK, WorkersQuiet, Phases, AllExited
    <2>4. Origins'
      BY <1>1, <2>2 DEF IInv, Origins
    <2>5. OnePlace'
      BY <1>1, <1>5, <2>2 DEF IInv, OnePlace
    <2>6. NotLost'
      BY <1>1, <1>5, <2>2 DEF IInv, NotLost, Accounted
    <2> QED
      BY <2>3, <2>4, <2>5, <2>6 DEF IInv
  <1>6. CASE /\ n \in Files /\ n \in Kept(Root)
             /\ found' = [found EXCEPT ![n] = @ + 1] /\ UNCHANGED <<phase, rootDirs>>
    <2>1. /\ found' \in [Files -> Nat] /\ inResult' = inResult \cup {n}
          /\ \A f \in Files : found'[f] <= 1
      <3>1. /\ found \in [Files -> Nat] /\ found' = [found EXCEPT ![n] = @ + 1]
            /\ \A f \in Files : found[f] <= 1
        BY <1>6 DEF IInv, ScanTypeOK, OnePlace
      <3>2. /\ found' \in [Files -> Nat] /\ inResult' = inResult \cup {n}
            /\ found'[n] = 1 /\ \A f \in Files : f # n => found'[f] = found[f]
        BY <1>2, <1>6, <3>1, ResultGrows
      <3> QED
        BY <3>1, <3>2
    <2>2. \A m : Passed(m)' <=> Passed(m) \/ m = n
      BY <1>1, <1>6, <2>1 DEF Passed
    <2>3. ScanTypeOK' /\ WorkersQuiet' /\ Phases'
      BY <1>1, <1>6, <2>1 DEF IInv, ScanTypeOK, WorkersQuiet, Phases, AllExited
    <2>4. Origins'
      BY <1>1, <1>6, <2>2 DEF IInv, Origins
    <2>5. OnePlace'
      BY <1>1, <1>2, <1>6, <2>1, <2>2, Tree DEF IInv, OnePlace
    <2>6. NotLost'
      BY <1>1, <2>2 DEF IInv, NotLost, Accounted
    <2> QED
      BY <2>3, <2>4, <2>5, <2>6 DEF IInv
  <1>7. CASE /\ n \in Dirs /\ n \in Kept(Root)
             /\ rootDirs' = rootDirs \cup {n} /\ UNCHANGED <<phase, found>>
    <2>1. inResult' = inResult
      BY <1>7, ResultSame
    <2>2. \A m : Passed(m)' <=> Passed(m) \/ m = n
      BY <1>1, <1>7, <2>1 DEF Passed
    <2>3. ScanTypeOK' /\ WorkersQuiet' /\ Phases'
      BY <1>1, <1>7 DEF IInv, ScanTypeOK, WorkersQuiet, Phases, AllExited
    <2>4. Origins'
      BY <1>1, <1>7, <2>2 DEF IInv, Origins
    <2>5. OnePlace'
      <3>1. n \notin Range(queue) \cup walked \cup dropped /\ \A w \in Workers : n \notin subs[w]
        BY <1>2 DEF Passed
      <3> QED
        BY <1>1, <1>2, <1>7, <2>2, <3>1 DEF IInv, OnePlace
    <2>6. NotLost'
      BY <1>1, <2>2 DEF IInv, NotLost, Accounted
    <2> QED
      BY <2>3, <2>4, <2>5, <2>6 DEF IInv
  <1> QED
    BY <1>3, <1>4, <1>5, <1>6, <1>7 DEF RootEntry, Report

LEMMA RootSendStep ==
    ASSUME IInv, NEW d \in Nodes, RootSend(d)
    PROVE  IInv'
  <1>1. /\ phase = "root" /\ d \in rootDirs /\ d \in Dirs /\ Len(queue) < QueueCap
        /\ queue' = Append(queue, d) /\ rootDirs' = rootDirs \ {d}
        /\ UNCHANGED <<phase, rootTodo, st, todo, subs, found, walked, dropped, gone>>
    BY DEF RootSend, IInv, ScanTypeOK
  <1>2. /\ d \notin Range(queue)
        /\ Range(queue)' = Range(queue) \cup {d}
        /\ IsInjective(queue')
    BY <1>1, AppendRange DEF IInv, ScanTypeOK, OnePlace
  <1>3. queue' \in Seq(Dirs) /\ Len(queue') <= QueueCap
    BY <1>1, AppendProperties, LenProperties, QueueCapAssumption DEF IInv, ScanTypeOK
  <1>4. inResult' = inResult
    BY <1>1, ResultSame
  <1>5. \A m : Passed(m)' <=> Passed(m)
    BY <1>1, <1>2, <1>4 DEF Passed
  <1>6. ScanTypeOK'
    BY <1>1, <1>3 DEF IInv, ScanTypeOK
  <1>7. WorkersQuiet' /\ Phases'
    BY <1>1 DEF IInv, WorkersQuiet, Phases
  <1>8. Origins'
    BY <1>1, <1>5 DEF IInv, Origins
  <1>9. OnePlace'
    BY <1>1, <1>2, <1>5 DEF IInv, OnePlace
  <1>10. NotLost'
    BY <1>1, <1>5 DEF IInv, NotLost, Accounted
  <1> QED
    BY <1>6, <1>7, <1>8, <1>9, <1>10 DEF IInv

LEMMA StartWorkersStep ==
    ASSUME IInv, StartWorkers
    PROVE  IInv'
  <1>1. /\ phase = "root" /\ rootTodo = {} /\ rootDirs = {}
        /\ phase' = IF queue = <<>> THEN "returned" ELSE "scanning"
        /\ UNCHANGED <<rootTodo, rootDirs, queue, st, todo, subs, found, walked, dropped, gone>>
    BY DEF StartWorkers
  <1>2. inResult' = inResult
    BY <1>1, ResultSame
  <1>3. \A m : Passed(m)' <=> Passed(m)
    BY <1>1, <1>2 DEF Passed
  <1>4. ScanTypeOK' /\ WorkersQuiet'
    BY <1>1 DEF IInv, ScanTypeOK, WorkersQuiet
  <1>5. Phases'
    BY <1>1, WorkersAssumption DEF IInv, Phases, AllExited
  <1>6. Origins' /\ OnePlace' /\ NotLost'
    BY <1>1, <1>3 DEF IInv, Origins, OnePlace, NotLost, Accounted
  <1> QED
    BY <1>4, <1>5, <1>6 DEF IInv

\* A step that changes nothing but the state of one worker.
LEMMA WorkerOnly ==
    ASSUME IInv, NEW w \in Workers, NEW s \in {"idle", "walking", "pushing", "exited"},
           phase = "scanning",
           st' = [st EXCEPT ![w] = s],
           s # "walking" => todo[w] = {},
           s \in {"idle", "exited"} => subs[w] = {},
           s = "exited" => queue = <<>>,
           UNCHANGED <<phase, rootTodo, rootDirs, queue, todo, subs, found, walked, dropped, gone>>
    PROVE  IInv'
  <1>1. inResult' = inResult
    BY ResultSame
  <1>2. \A m : Passed(m)' <=> Passed(m)
    BY <1>1 DEF Passed
  <1>3. ScanTypeOK' /\ \A v \in Workers : st'[v] = IF v = w THEN s ELSE st[v]
    BY DEF IInv, ScanTypeOK
  <1>4. WorkersQuiet'
    BY <1>3 DEF IInv, WorkersQuiet
  <1>5. Phases'
    BY <1>3 DEF IInv, Phases, AllExited
  <1>6. Origins' /\ OnePlace' /\ NotLost'
    BY <1>2 DEF IInv, Origins, OnePlace, NotLost, Accounted
  <1> QED
    BY <1>3, <1>4, <1>5, <1>6 DEF IInv

LEMMA WalkEndStep == ASSUME IInv, NEW w \in Workers, WalkEnd(w) PROVE IInv'
  BY WorkerOnly DEF WalkEnd

LEMMA OfferEndStep == ASSUME IInv, NEW w \in Workers, OfferEnd(w) PROVE IInv'
  BY WorkerOnly DEF OfferEnd, AfterWalk, IInv, WorkersQuiet

LEMMA ExitStep == ASSUME IInv, NEW w \in Workers, Exit(w) PROVE IInv'
  BY WorkerOnly DEF Exit, IInv, WorkersQuiet

LEMMA ReturnStep ==
    ASSUME IInv, Return
    PROVE  IInv'
  <1>1. /\ phase = "scanning" /\ AllExited /\ phase' = "returned"
        /\ UNCHANGED <<rootTodo, rootDirs, queue, st, todo, subs, found, walked, dropped, gone>>
    BY DEF Return
  <1>2. inResult' = inResult
    BY <1>1, ResultSame
  <1>3. \A m : Passed(m)' <=> Passed(m)
    BY <1>1, <1>2 DEF Passed
  <1>4. ScanTypeOK' /\ WorkersQuiet'
    BY <1>1 DEF IInv, ScanTypeOK, WorkersQuiet
  <1>5. Phases'
    BY <1>1 DEF IInv, Phases, AllExited
  <1>6. Origins' /\ OnePlace' /\ NotLost'
    BY <1>1, <1>3 DEF IInv, Origins, OnePlace, NotLost, Accounted
  <1> QED
    BY <1>4, <1>5, <1>6 DEF IInv

\* The directory a worker takes has not been walked, so nothing it lists has
\* been seen: each node is in one directory.
LEMMA TakeStep ==
    ASSUME IInv, NEW w \in Workers, Take(w)
    PROVE  IInv'
  <1> DEFINE d == Head(queue)
             new == ReadDir(d)
  <1>1. /\ phase = "scanning" /\ st[w] = "idle" /\ queue # <<>>
        /\ queue' = Tail(queue) /\ walked' = walked \cup {d}
        /\ todo' = [todo EXCEPT ![w] = new]
        /\ st' = [st EXCEPT ![w] = "walking"]
        /\ UNCHANGED <<phase, rootTodo, rootDirs, subs, found, dropped, gone>>
    BY DEF Take, Rest
  <1>2. /\ d \in Dirs /\ queue' \in Seq(Dirs) /\ Len(queue') = Len(queue) - 1
    BY <1>1, HeadTailProperties DEF IInv, ScanTypeOK
  <1>3. /\ Range(queue) = {d} \cup Range(queue)'
        /\ d \notin Range(queue)' /\ IsInjective(queue')
    BY <1>1, HeadTailRange DEF IInv, ScanTypeOK, OnePlace
  <1>4. new \subseteq Listing[d] /\ new \subseteq Nodes
    BY <1>2, Tree DEF ReadDir
  <1>5. d \notin gone => \A n \in Listing[d] : n \in new \/ n \in gone
    BY DEF ReadDir
  <1> HIDE DEF d, new
  <1>6. inResult' = inResult
    BY <1>1, ResultSame
  <1>7. \A m : Passed(m)' <=> Passed(m)
    BY <1>1, <1>3, <1>6 DEF Passed
  <1>8. /\ todo[w] = {} /\ rootTodo = {}
        /\ \A v \in Workers : todo'[v] = IF v = w THEN new ELSE todo[v]
        /\ \A v \in Workers : st'[v] = IF v = w THEN "walking" ELSE st[v]
    BY <1>1 DEF IInv, ScanTypeOK, WorkersQuiet, Phases
  <1>9. ScanTypeOK'
    <2>1. Len(queue) \in Nat /\ QueueCap \in Nat
      BY LenProperties, QueueCapAssumption DEF IInv, ScanTypeOK
    <2>2. Len(queue') <= QueueCap
      BY <1>2, <2>1 DEF IInv, ScanTypeOK
    <2>3. todo' \in [Workers -> SUBSET Nodes]
      BY <1>1, <1>4 DEF IInv, ScanTypeOK
    <2> QED
      BY <1>1, <1>2, <2>2, <2>3 DEF IInv, ScanTypeOK
  <1>10. WorkersQuiet' /\ Phases'
    BY <1>1, <1>8 DEF IInv, WorkersQuiet, Phases, AllExited
  <1>11. Origins'
    <2>1. \A v \in Workers : \A n \in todo'[v] : \E e \in walked' : n \in Listing[e]
      BY <1>1, <1>4, <1>8 DEF IInv, Origins
    <2>2. \A n \in Nodes : Passed(n)' => \E e \in {Root} \cup walked' : n \in Kept(e)
      BY <1>1, <1>7 DEF IInv, Origins
    <2> QED
      BY <1>1, <2>1, <2>2 DEF IInv, Origins
  <1>12. d \notin walked /\ d # Root
    BY <1>2, <1>3, Tree DEF IInv, OnePlace
  <1>13. \A n \in new : ~Passed(n) /\ \A v \in Workers : n \notin todo[v]
    <2> SUFFICES ASSUME NEW n \in new, NEW e \in {Root} \cup walked, n \in Listing[e]
                 PROVE  FALSE
      BY <1>4, Tree DEF IInv, Origins, ScanTypeOK
    <2> QED
      BY <1>2, <1>4, <1>12, Tree DEF IInv, ScanTypeOK
  <1>14. OnePlace'
    <2>1. \A v \in Workers : \A n \in todo'[v] :
              ~Passed(n)' /\ \A u \in Workers : u # v => n \notin todo'[u]
      BY <1>7, <1>8, <1>13 DEF IInv, OnePlace
    <2>2. \A v \in Workers : \A n \in subs'[v] :
              /\ n \notin rootDirs' \cup Range(queue)' \cup walked' \cup dropped'
              /\ \A u \in Workers : u # v => n \notin subs'[u]
      BY <1>1, <1>3 DEF IInv, OnePlace
    <2>3. /\ rootDirs' \cap (Range(queue)' \cup walked' \cup dropped') = {}
          /\ Range(queue)' \cap (walked' \cup dropped') = {}
          /\ walked' \cap dropped' = {}
      BY <1>1, <1>3 DEF IInv, OnePlace
    <2> QED
      BY <1>1, <1>3, <1>8, <2>1, <2>2, <2>3 DEF IInv, OnePlace
  <1>15. NotLost'
    <2> SUFFICES ASSUME NEW e \in {Root} \cup (walked' \ gone'), NEW n \in Kept(e)
                 PROVE  Accounted(n)'
      BY DEF NotLost
    <2>1. CASE e = d /\ d \notin gone
      <3>1. n \in new \/ n \in gone
        BY <1>2, <1>5, <2>1, Tree
      <3> QED
        BY <1>1, <1>8, <3>1 DEF Accounted
    <2>2. CASE e \in {Root} \cup (walked \ gone)
      <3>1. Accounted(n)
        BY <2>2 DEF IInv, NotLost
      <3> QED
        BY <1>1, <1>7, <1>8, <3>1 DEF Accounted
    <2> QED
      BY <1>1, <2>1, <2>2
  <1> QED
    BY <1>9, <1>10, <1>11, <1>14, <1>15 DEF IInv

LEMMA EntryStep ==
    ASSUME IInv, NEW w \in Workers, NEW n \in Nodes, Entry(w, n)
    PROVE  IInv'
  <1>1. /\ n \in todo[w] /\ phase = "scanning" /\ st[w] = "walking"
        /\ todo' = [todo EXCEPT ![w] = @ \ {n}]
        /\ \A v \in Workers : todo'[v] = IF v = w THEN todo[v] \ {n} ELSE todo[v]
        /\ UNCHANGED <<rootTodo, rootDirs, queue, st, walked, dropped, gone>>
    BY DEF Entry, IInv, ScanTypeOK
  <1>2. ~Passed(n) /\ n \notin inResult /\ n \notin rootTodo
        /\ \A v \in Workers : v # w => n \notin todo[v]
    BY <1>1 DEF IInv, OnePlace, Passed
  <1>3. /\ \A v \in Workers : \A m \in todo'[v] : m # n /\ m \in todo[v]
       /\ \A m \in rootTodo : m # n
    BY <1>1, <1>2
  <1>4. PICK p \in walked : n \in Listing[p]
    BY <1>1 DEF IInv, Origins
  <1>5. p \in Dirs /\ p # Root /\ (KeptBelow(n) <=> n \in Kept(p))
    BY <1>4, Tree, KeptIsWanted DEF IInv, ScanTypeOK
  <1>6. \A e \in {Root} \cup walked : n \in Kept(e) => e = p
    BY <1>4, <1>5, Tree DEF IInv, ScanTypeOK
  <1>7. CASE /\ UNCHANGED <<subs, found>> /\ (n \notin Kept(p) \/ n \in gone)
             /\ phase' \in {phase, "panicked"}
    <2>1. inResult' = inResult
      BY <1>7, ResultSame
    <2>2. \A m : Passed(m)' <=> Passed(m)
      BY <1>1, <1>7, <2>1 DEF Passed
    <2>3. ScanTypeOK'
      BY <1>1, <1>7 DEF IInv, ScanTypeOK
    <2>4. WorkersQuiet' /\ Phases'
      BY <1>1, <1>7 DEF IInv, WorkersQuiet, Phases, AllExited
    <2>5. Origins'
      BY <1>1, <1>7, <2>2 DEF IInv, Origins
    <2>6. OnePlace'
      BY <1>1, <1>7, <2>2 DEF IInv, OnePlace
    <2>7. NotLost'
      BY <1>1, <1>6, <1>7, <2>2 DEF IInv, NotLost, Accounted
    <2> QED
      BY <2>3, <2>4, <2>5, <2>6, <2>7 DEF IInv
  <1>8. CASE /\ n \in Files /\ n \in Kept(p)
             /\ found' = [found EXCEPT ![n] = @ + 1] /\ UNCHANGED <<phase, subs>>
    <2>1. /\ found' \in [Files -> Nat] /\ inResult' = inResult \cup {n}
          /\ \A f \in Files : found'[f] <= 1
      <3>1. /\ found \in [Files -> Nat] /\ found' = [found EXCEPT ![n] = @ + 1]
            /\ \A f \in Files : found[f] <= 1
        BY <1>8 DEF IInv, ScanTypeOK, OnePlace
      <3>2. /\ found' \in [Files -> Nat] /\ inResult' = inResult \cup {n}
            /\ found'[n] = 1 /\ \A f \in Files : f # n => found'[f] = found[f]
        BY <1>2, <1>8, <3>1, ResultGrows
      <3> QED
        BY <3>1, <3>2
    <2>2. \A m : Passed(m)' <=> Passed(m) \/ m = n
      BY <1>1, <1>8, <2>1 DEF Passed
    <2>3. ScanTypeOK'
      BY <1>1, <1>8, <2>1 DEF IInv, ScanTypeOK
    <2>4. WorkersQuiet' /\ Phases'
      BY <1>1, <1>8 DEF IInv, WorkersQuiet, Phases, AllExited
    <2>5. Origins'
      BY <1>1, <1>4, <1>8, <2>2 DEF IInv, Origins
    <2>6. OnePlace'
      <3>1. \A v \in Workers : \A m \in todo'[v] :
                ~Passed(m)' /\ \A u \in Workers : u # v => m \notin todo'[u]
        BY <1>1, <1>3, <2>2 DEF IInv, OnePlace
      <3>2. \A m \in rootTodo : ~Passed(m)' /\ \A v \in Workers : m \notin todo'[v]
        BY <1>3, <2>2 DEF IInv, OnePlace
      <3> QED
        BY <1>1, <1>8, <2>1, <3>1, <3>2 DEF IInv, OnePlace
    <2>7. NotLost'
      BY <1>1, <2>2 DEF IInv, NotLost, Accounted
    <2> QED
      BY <2>3, <2>4, <2>5, <2>6, <2>7 DEF IInv
  <1>9. CASE /\ n \in Dirs /\ n \in Kept(p)
             /\ subs' = [subs EXCEPT ![w] = @ \cup {n}] /\ UNCHANGED <<phase, found>>
    <2>1. /\ inResult' = inResult
          /\ \A v \in Workers : subs'[v] = IF v = w THEN subs[v] \cup {n} ELSE subs[v]
      BY <1>9, ResultSame DEF IInv, ScanTypeOK
    <2>2. \A m : Passed(m)' <=> Passed(m) \/ m = n
      BY <1>1, <1>9, <2>1 DEF Passed
    <2>3. ScanTypeOK'
      BY <1>1, <1>9 DEF IInv, ScanTypeOK
    <2>4. WorkersQuiet' /\ Phases'
      BY <1>1, <1>9, <2>1 DEF IInv, WorkersQuiet, Phases, AllExited
    <2>5. Origins'
      BY <1>1, <1>4, <1>9, <2>2 DEF IInv, Origins
    <2>6. OnePlace'
      <3>1. n \notin rootDirs \cup Range(queue) \cup walked \cup dropped
            /\ \A v \in Workers : n \notin subs[v]
        BY <1>2 DEF Passed
      <3>2. \A v \in Workers : \A m \in subs'[v] :
                /\ m \notin rootDirs' \cup Range(queue)' \cup walked' \cup dropped'
                /\ \A u \in Workers : u # v => m \notin subs'[u]
        <4>1. \A v \in Workers : \A m \in subs'[v] : m = n \/ m \in subs[v]
          BY <2>1
        <4>2. \A v \in Workers : \A m \in subs'[v] :
                  m \notin rootDirs \cup Range(queue) \cup walked \cup dropped
          BY <3>1, <4>1 DEF IInv, OnePlace
        <4>3. \A v \in Workers : \A m \in subs'[v] :
                  \A u \in Workers : u # v => m \notin subs'[u]
          <5>1. \A v \in Workers : \A m \in subs[v] : \A u \in Workers : u # v => m \notin subs[u]
            BY DEF IInv, OnePlace
          <5> SUFFICES ASSUME NEW v \in Workers, NEW u \in Workers, u # v,
                              NEW m \in subs'[v], m \in subs'[u]
                       PROVE  FALSE
            OBVIOUS
          <5>2. m = n \/ m \in subs[v]
            BY <2>1
          <5>3. m = n \/ m \in subs[u]
            BY <2>1
          <5>4. v # w => m \in subs[v]
            BY <2>1
          <5>5. u # w => m \in subs[u]
            BY <2>1
          <5> QED
            BY <3>1, <5>1, <5>2, <5>3, <5>4, <5>5
        <4> QED
          BY <1>1, <1>9, <4>2, <4>3
      <3> QED
        BY <1>1, <1>2, <1>9, <2>2, <3>2 DEF IInv, OnePlace
    <2>7. NotLost'
      BY <1>1, <2>2 DEF IInv, NotLost, Accounted
    <2> QED
      BY <2>3, <2>4, <2>5, <2>6, <2>7 DEF IInv
  <1> QED
    BY <1>5, <1>7, <1>8, <1>9 DEF Entry, Report

LEMMA OfferStep ==
    ASSUME IInv, NEW w \in Workers, NEW d \in Nodes, Offer(w, d)
    PROVE  IInv'
  <1>1. /\ phase = "scanning" /\ st[w] = "pushing" /\ d \in subs[w] /\ d \in Dirs
        /\ subs' = [subs EXCEPT ![w] = @ \ {d}]
        /\ \A v \in Workers : subs'[v] = IF v = w THEN subs[v] \ {d} ELSE subs[v]
        /\ UNCHANGED <<phase, rootTodo, rootDirs, st, todo, found, walked, gone>>
    BY DEF Offer, IInv, ScanTypeOK
  <1>2. /\ d \notin rootDirs \cup Range(queue) \cup walked \cup dropped
        /\ \A v \in Workers : v # w => d \notin subs[v]
    BY <1>1 DEF IInv, OnePlace
  <1>3. \A v \in Workers : \A m \in subs'[v] : m # d /\ m \in subs[v]
    BY <1>1, <1>2
  <1>4. ~AllExited /\ inResult' = inResult
    BY <1>1, ResultSame DEF AllExited
  <1>5. CASE QueueHasRoom /\ queue' = Append(queue, d) /\ UNCHANGED dropped
    <2>1. Range(queue)' = Range(queue) \cup {d} /\ IsInjective(queue')
      BY <1>1, <1>2, <1>5, AppendRange DEF IInv, ScanTypeOK, OnePlace
    <2>2. queue' \in Seq(Dirs) /\ Len(queue') <= QueueCap
      BY <1>1, <1>5, AppendProperties, LenProperties, QueueCapAssumption
         DEF IInv, ScanTypeOK, QueueHasRoom
    <2>3. \A m : Passed(m)' <=> Passed(m)
      BY <1>1, <1>4, <1>5, <2>1 DEF Passed
    <2>4. ScanTypeOK'
      BY <1>1, <1>5, <2>2 DEF IInv, ScanTypeOK
    <2>5. WorkersQuiet' /\ Phases'
      BY <1>1, <1>4 DEF IInv, WorkersQuiet, Phases, AllExited
    <2>6. Origins' /\ NotLost'
      BY <1>1, <1>5, <2>3 DEF IInv, Origins, NotLost, Accounted
    <2>7. OnePlace'
      <3>1. \A v \in Workers : \A m \in subs'[v] :
                /\ m \notin rootDirs' \cup Range(queue)' \cup walked' \cup dropped'
                /\ \A u \in Workers : u # v => m \notin subs'[u]
        <4>1. \A v \in Workers : \A m \in subs'[v] :
                  m \notin rootDirs' \cup Range(queue)' \cup walked' \cup dropped'
          BY <1>1, <1>3, <1>5, <2>1 DEF IInv, OnePlace
        <4>2. \A v \in Workers : \A m \in subs'[v] :
                  \A u \in Workers : u # v => m \notin subs'[u]
          BY <1>1, <1>3 DEF IInv, OnePlace
        <4> QED
          BY <4>1, <4>2
      <3> QED
        BY <1>1, <1>2, <1>5, <2>1, <2>3, <3>1 DEF IInv, OnePlace
    <2> QED
      BY <2>4, <2>5, <2>6, <2>7 DEF IInv
  <1>6. CASE dropped' = dropped \cup {d} /\ UNCHANGED queue
    <2>1. \A m : Passed(m)' <=> Passed(m)
      BY <1>1, <1>4, <1>6 DEF Passed
    <2>2. ScanTypeOK'
      BY <1>1, <1>6 DEF IInv, ScanTypeOK
    <2>3. WorkersQuiet' /\ Phases'
      BY <1>1, <1>4 DEF IInv, WorkersQuiet, Phases, AllExited
    <2>4. Origins' /\ NotLost'
      BY <1>1, <1>6, <2>1 DEF IInv, Origins, NotLost, Accounted
    <2>5. OnePlace'
      <3>1. \A v \in Workers : \A m \in subs'[v] :
                /\ m \notin rootDirs' \cup Range(queue)' \cup walked' \cup dropped'
                /\ \A u \in Workers : u # v => m \notin subs'[u]
        BY <1>1, <1>6, <1>3 DEF IInv, OnePlace
      <3> QED
        BY <1>1, <1>2, <1>6, <2>1, <3>1 DEF IInv, OnePlace
    <2> QED
      BY <2>2, <2>3, <2>4, <2>5 DEF IInv
  <1> QED
    BY <1>5, <1>6 DEF Offer

LEMMA Inductive == IInv /\ [ScanNext]_scanVars => IInv'
  <1> SUFFICES ASSUME IInv, [ScanNext]_scanVars PROVE IInv'
    OBVIOUS
  <1>1. ASSUME NEW n \in Nodes, RootEntry(n) \/ RootSend(n) \/ Remove(n) PROVE IInv'
    BY <1>1, RootEntryStep, RootSendStep, RemoveStep
  <1>2. ASSUME StartWorkers \/ Return PROVE IInv'
    BY <1>2, StartWorkersStep, ReturnStep
  <1>3. ASSUME NEW w \in Workers, WorkerStep(w) PROVE IInv'
    BY <1>3, TakeStep, WalkEndStep, OfferEndStep, ExitStep, EntryStep, OfferStep DEF WorkerStep
  <1>4. CASE UNCHANGED scanVars
    <2>1. inResult' = inResult
      BY <1>4, ResultSame DEF scanVars
    <2>2. \A m : Passed(m)' <=> Passed(m)
      BY <1>4, <2>1 DEF scanVars, Passed
    <2>3. ScanTypeOK' /\ WorkersQuiet' /\ Phases'
      BY <1>4 DEF scanVars, IInv, ScanTypeOK, WorkersQuiet, Phases, AllExited
    <2>4. Origins' /\ OnePlace' /\ NotLost'
      BY <1>4, <2>2 DEF scanVars, IInv, Origins, OnePlace, NotLost, Accounted
    <2> QED
      BY <2>3, <2>4 DEF IInv
  <1> QED
    BY <1>1, <1>2, <1>3, <1>4 DEF ScanNext, RootStep

LEMMA InvCorrect == ScanSpec => []IInv
  BY InitInv, Inductive, PTL DEF ScanSpec

--------------------------------------------------------------------------------
(* The theorems about the scanner                                            *)

\* The types hold, and the channel never exceeds its capacity.
THEOREM ScanTypesHold == ScanSpec => []ScanTypeOK
  <1>1. IInv => ScanTypeOK
    BY DEF IInv
  <1> QED
    BY InvCorrect, <1>1, PTL

\* Scan returns when no worker is at work and the channel is empty.
THEOREM QuietAtReturnCorrect == ScanSpec => []QuietAtReturn
  <1>1. IInv => QuietAtReturn
    BY DEF IInv, WorkersQuiet, Phases, QuietAtReturn
  <1> QED
    BY InvCorrect, <1>1, PTL

\* No file is in the result twice, no refused directory is walked, and all
\* that was found or walked is wanted and in a wanted place.
THEOREM FoundOnceAndWantedCorrect == ScanSpec => []FoundOnceAndWanted
  <1>1. ASSUME IInv PROVE FoundOnceAndWanted
    <2>1. (\A f \in Files : found[f] <= 1) /\ walked \cap dropped = {}
      BY <1>1 DEF IInv, OnePlace
    <2>2. walked \subseteq Dirs /\ inResult \subseteq Files
      BY <1>1 DEF IInv, ScanTypeOK, inResult
    <2>3. ASSUME NEW n \in inResult \cup walked
          PROVE  \E d \in {Root} \cup ((inResult \cup walked) \cap Dirs) : n \in Kept(d)
      <3>1. n \in Nodes /\ Passed(n)
        BY <2>2, Tree DEF Passed
      <3> QED
        BY <1>1, <2>2, <3>1 DEF IInv, Origins
    <2> QED
      BY <2>1, <2>3 DEF FoundOnceAndWanted, Grounded
  <1> QED
    BY InvCorrect, <1>1, PTL

\* When Scan returns, all that is missing was removed, or is below something
\* that was removed or that the full channel refused.
THEOREM NothingElseLostCorrect == ScanSpec => []NothingElseLost
  <1>1. ASSUME IInv PROVE NothingElseLost
    <2> DEFINE S == inResult \cup walked \cup dropped \cup gone
    <2> SUFFICES ASSUME phase = "returned",
                        NEW d \in {Root} \cup ((S \cap Dirs) \ (dropped \cup gone)),
                        NEW n \in Kept(d)
                 PROVE  n \in S
      BY DEF NothingElseLost, Complete
    <2>1. inResult \subseteq Files
      BY DEF inResult
    <2>2. d \in {Root} \cup (walked \ gone)
      BY <2>1, Tree
    <2>3. Accounted(n)
      BY <1>1, <2>2 DEF IInv, NotLost
    <2>4. /\ rootTodo = {} /\ rootDirs = {} /\ queue = <<>>
          /\ \A w \in Workers : todo[w] = {} /\ subs[w] = {}
      BY <1>1 DEF IInv, WorkersQuiet, Phases
    <2>5. Range(queue) = {}
      <3>1. <<>> \in Seq(Dirs) /\ Len(<<>>) = 0
        BY EmptySeq
      <3> QED
        BY <2>4, <3>1, LenProperties DEF Range
    <2> QED
      BY <2>3, <2>4, <2>5 DEF Accounted, Passed
  <1> QED
    BY InvCorrect, <1>1, PTL

--------------------------------------------------------------------------------
(* The watcher's inductive invariant                                         *)

Live == {"armed", "fired"} \cup Holding

\* What the loop has in its hand is a path; while it is about to assign a timer
\* there is none set; and it leaves only when Stop was called.
LoopOK ==
    /\ loop \in {"callback", "insert"} => cur \in Paths
    /\ loop = "assign" => batchTimer = None /\ Created # {}
    /\ loop \in {"stopping", "exited"} => stop # "no"

\* The timers in use are the first ones; the lock is held by the goroutine that
\* is in its critical section; only a goroutine that has the lock, or had it, has
\* a copy; a timer is stopped only by the loop on its way out.
TimersOK ==
    /\ Created = 1..Cardinality(Created)
    /\ \A t \in Timers : mu = t <=> timer[t] \in Holding
    /\ \A t \in Timers : timer[t] \notin Holding \cup {"sending"} => copied[t] = {}
    /\ \A t \in Timers : timer[t] = "stopped" => stop # "no"
    /\ batchTimer # None => timer[batchTimer] # "unused"

\* Each change is taken at most once, and makes at most one timer.
Pending == IF loop \in {"callback", "insert", "check"} THEN 1 ELSE 0
Counted ==
    /\ \A p \in Paths : owed[p] + Len(raw) <= changes
    /\ Cardinality(Created) + Pending + Len(raw) <= changes

\* A timer that is set or has fired is the one batchTimer names, or the one the
\* loop has just made and is about to assign.
LiveIsSet ==
    \A t \in Timers : timer[t] \in Live =>
        batchTimer = t \/ (loop = "assign" /\ t = Cardinality(Created))

\* What is in the map while a goroutine holds the lock was copied, or came too
\* late and was noted.
Copying ==
    \A t \in Timers :
        /\ timer[t] \in {"ranging", "copied"} =>
                batch \cap due \subseteq copied[t] \cup missed \cup InHand
        /\ timer[t] = "replaced" => batch \cap due \subseteq missed \cup InHand

WatchInv == TypeOK /\ LoopOK /\ TimersOK /\ Counted /\ LiveIsSet /\ Copying
            /\ LossAccounted /\ SentOnce /\ BatchIsTimed

--------------------------------------------------------------------------------
(* Lemmas about the watcher's sets                                           *)

\* The goroutines that have p in their copy, and whether the map holds p still.
HoldersOf(p) == {t \in Timers : p \in copied[t]}
InBatch(p) == p \in batch /\ \A t \in HoldersOf(p) : timer[t] \notin {"ranging", "copied"}
OnItsWay(p) == Cardinality(HoldersOf(p)) + (IF InBatch(p) THEN 1 ELSE 0)
                    + (IF p \in InHand THEN 1 ELSE 0)

LEMMA SentOnceIs ==
    /\ SentOnce <=> \A p \in Paths : OnItsWay(p) <= owed[p]
    /\ SentOnce' <=> \A p \in Paths : OnItsWay(p)' <= owed'[p]
  BY DEF SentOnce, OnItsWay, InBatch, HoldersOf

\* A path is with finitely many goroutines.
LEMMA HoldersFinite ==
    ASSUME NEW p
    PROVE  /\ IsFiniteSet(HoldersOf(p)) /\ Cardinality(HoldersOf(p)) \in Nat
           /\ Cardinality(HoldersOf(p)') \in Nat
  <1>1. HoldersOf(p) \in SUBSET Timers /\ HoldersOf(p)' \in SUBSET Timers
    BY DEF HoldersOf
  <1> QED
    BY <1>1, TimersAssumption, FS_Subset, FS_CardinalityType

\* One more element makes a set one larger at most.
LEMMA OneMore ==
    ASSUME NEW S, IsFiniteSet(S), NEW x
    PROVE  Cardinality(S \cup {x}) <= Cardinality(S) + 1
  <1>1. Cardinality(S) \in Nat
    BY FS_CardinalityType
  <1>2. Cardinality(S \cup {x}) = IF x \in S THEN Cardinality(S) ELSE Cardinality(S) + 1
    BY FS_AddElement
  <1> QED
    BY <1>1, <1>2

\* The timers in use are 1..n; the last made is the n-th, the next the n+1st.
LEMMA CreatedAre ==
    ASSUME TypeOK, TimersOK
    PROVE  /\ IsFiniteSet(Created) /\ Cardinality(Created) \in Nat
           /\ Cardinality(Created) <= Cardinality(Timers) /\ Cardinality(Timers) \in Nat
           /\ Created # {} => /\ Max(Created) = Cardinality(Created)
                              /\ Max(Created) \in Created
           /\ NextTimer \notin Created
           /\ \A t \in Timers : t \in Created <=> timer[t] # "unused"
  <1>1. Created \in SUBSET Timers
    BY DEF Created
  <1>2. /\ IsFiniteSet(Created) /\ Cardinality(Created) \in Nat
        /\ Cardinality(Created) <= Cardinality(Timers) /\ Cardinality(Timers) \in Nat
    BY <1>1, TimersAssumption, FS_Subset, FS_CardinalityType
  <1>3. Created = 1..Cardinality(Created)
    BY DEF TimersOK
  <1>4. Created # {} => Max(Created) = Cardinality(Created) /\ Max(Created) \in Created
    <2> DEFINE n == Cardinality(Created)
    <2> SUFFICES ASSUME Created # {}
                 PROVE  Max(Created) = n /\ Max(Created) \in Created
      OBVIOUS
    <2>1. n \in Created /\ \A y \in Created : y <= n /\ y \in Nat
      BY <1>2, <1>3
    <2>2. \E x \in Created : \A y \in Created : y <= x
      BY <2>1
    <2>3. Max(Created) \in Created /\ \A y \in Created : y <= Max(Created)
      BY <2>2 DEF Max
    <2> HIDE DEF n
    <2> QED
      BY <2>1, <2>3
  <1>5. NextTimer \notin Created
    BY <1>2, <1>3 DEF NextTimer
  <1>6. \A t \in Timers : t \in Created <=> timer[t] # "unused"
    BY DEF Created, Unused
  <1> QED
    BY <1>2, <1>4, <1>5, <1>6

\* What touches neither the copies, the map nor the hand owes what was owed.
LEMMA NothingMoves ==
    ASSUME SentOnce, UNCHANGED <<copied, batch, owed>>, InHand' = InHand,
           \A t \in Timers : timer'[t] \in {"ranging", "copied"} <=> timer[t] \in {"ranging", "copied"}
    PROVE  SentOnce'
  <1>1. \A p \in Paths : HoldersOf(p)' = HoldersOf(p)
    BY DEF HoldersOf
  <1>2. \A p \in Paths : InBatch(p)' <=> InBatch(p)
    BY <1>1 DEF InBatch, HoldersOf
  <1>3. \A p \in Paths : OnItsWay(p)' = OnItsWay(p)
    BY <1>1, <1>2 DEF OnItsWay
  <1> QED
    BY <1>3, SentOnceIs

--------------------------------------------------------------------------------
(* The invariant holds at first, and each action keeps it                    *)

LEMMA InitHolds == Init => WatchInv
  <1> SUFFICES ASSUME Init
               PROVE  WatchInv
    OBVIOUS
  <1> USE DEF Init
  <1>1. Created = {} /\ Cardinality(Created) = 0
    BY FS_EmptySet DEF Created, Unused
  <1>2. InHand = {} /\ 0 \in 0..MaxChanges
    BY MaxChangesAssumption DEF InHand
  <1>3. TypeOK
    <2>1. raw \in Seq(Paths) /\ events \in Seq(Paths) /\ Len(events) <= ChanCap
      BY ChanCapAssumption
    <2>2. copied \in [Timers -> SUBSET Paths] /\ owed \in [Paths -> 0..MaxChanges]
      BY <1>2
    <2>3. timer \in [Timers -> {"unused", "armed", "fired", "sending", "stopped"} \cup Holding]
      OBVIOUS
    <2>4. changes \in 0..MaxChanges
      BY <1>2
    <2> QED
      BY <2>1, <2>2, <2>3, <2>4 DEF TypeOK
  <1>4. LoopOK /\ Counted /\ LiveIsSet /\ Copying /\ LossAccounted /\ BatchIsTimed
    BY <1>1, <1>2 DEF LoopOK, Counted, Pending, LiveIsSet, Live, Holding, Copying,
                      LossAccounted, BatchIsTimed
  <1>5. TimersOK
    BY <1>1, NoneAssumption DEF TimersOK, Holding
  <1>6. SentOnce
    <2> SUFFICES ASSUME NEW p \in Paths
                 PROVE  OnItsWay(p) <= owed[p]
      BY SentOnceIs
    <2>1. HoldersOf(p) = {} /\ ~InBatch(p)
      BY DEF HoldersOf, InBatch
    <2> QED
      BY <2>1, <1>2, FS_EmptySet DEF OnItsWay
  <1> QED
    BY <1>3, <1>4, <1>5, <1>6 DEF WatchInv

\* The rest of the state is as it was: the steps of Start, fsnotify, Stop and the
\* reader, and an event the loop skips.
LEMMA CallersKeep ==
    ASSUME WatchInv, Start \/ Receive \/ CallStop \/ CloseFsnotify \/ StopReturn
                     \/ (\E p \in Paths : Change(p)) \/ UNCHANGED vars
                     \/ (TakeEvent /\ Head(raw) \in Ignored)
    PROVE  WatchInv'
  <1>1. /\ UNCHANGED <<loopVars, mapVars, timerVars, history>>
        /\ stop # "no" => stop' # "no"
    BY DEF Start, Receive, CallStop, CloseFsnotify, StopReturn, Change, TakeEvent, vars, envVars,
           loopVars, mapVars, timerVars, history, WatchInv, TypeOK
  <1>2. UNCHANGED <<InHand, Created, Pending>>
    BY <1>1 DEF loopVars, timerVars, InHand, Created, Unused, Pending
  <1>3. /\ changes' \in Nat /\ Len(raw') \in Nat /\ changes' - Len(raw') >= changes - Len(raw)
        /\ changes \in Nat /\ Len(raw) \in Nat
        /\ changes' \in 0..MaxChanges /\ raw' \in Seq(Paths)
    <2>1. /\ changes \in 0..MaxChanges /\ changes \in Nat
          /\ raw \in Seq(Paths) /\ Len(raw) \in Nat
      BY MaxChangesAssumption, LenProperties DEF WatchInv, TypeOK
    <2>2. ASSUME NEW p \in Paths, Change(p)
          PROVE  /\ changes' = changes + 1 /\ changes' \in 0..MaxChanges
                 /\ raw' \in Seq(Paths) /\ Len(raw') = Len(raw) + 1
      <3>1. changes < MaxChanges /\ changes' = changes + 1 /\ raw' = Append(raw, p)
        BY <2>2 DEF Change
      <3>2. raw' \in Seq(Paths) /\ Len(raw') = Len(raw) + 1
        BY <2>1, <3>1, AppendProperties
      <3> QED
        BY <2>1, <3>1, <3>2, MaxChangesAssumption
    <2>3. CASE \E p \in Paths : Change(p)
      BY <2>1, <2>2, <2>3
    <2>4. CASE ~\E p \in Paths : Change(p)
      <3>1. changes' = changes /\ (raw' = raw \/ raw' = <<>> \/ (raw # <<>> /\ raw' = Tail(raw)))
        BY <2>4 DEF Start, Receive, CallStop, CloseFsnotify, StopReturn, TakeEvent, vars, envVars
      <3>2. CASE raw' = raw
        BY <2>1, <3>1, <3>2
      <3>3. CASE raw' = <<>>
        <4>1. raw' \in Seq(Paths) /\ Len(raw') = 0
          BY <3>3
        <4> QED
          BY <2>1, <3>1, <4>1
      <3>4. CASE raw # <<>> /\ raw' = Tail(raw)
        <4>1. raw' \in Seq(Paths) /\ Len(raw') = Len(raw) - 1 /\ Len(raw') \in Nat
          BY <2>1, <3>4, HeadTailProperties, LenProperties
        <4> QED
          BY <2>1, <3>1, <4>1
      <3> QED
        BY <3>1, <3>2, <3>3, <3>4
    <2> QED
      BY <2>3, <2>4
  <1>4. /\ events' \in Seq(Paths) /\ Len(events') <= ChanCap
        /\ start' \in {"new", "started", "failed"}
        /\ stop' \in {"no", "closing", "waiting", "returned"} /\ crashed' = crashed
    <2> USE DEF WatchInv, TypeOK
    <2>1. CASE Receive
      BY <2>1, ChanCapAssumption, HeadTailProperties, LenProperties DEF Receive, envVars
    <2>2. CASE ~Receive
      BY <2>2 DEF Start, CallStop, CloseFsnotify, StopReturn, Change, TakeEvent, vars
    <2> QED
      BY <2>1, <2>2
  <1>5. TypeOK'
    BY <1>1, <1>3, <1>4 DEF WatchInv, TypeOK, loopVars, mapVars, timerVars, history
  <1>6. LoopOK' /\ TimersOK' /\ LiveIsSet' /\ Copying' /\ LossAccounted'
    BY <1>1, <1>2 DEF WatchInv, LoopOK, TimersOK, LiveIsSet, Copying, LossAccounted, InCopies,
                      loopVars, mapVars, timerVars, history
  <1>7. Counted'
    <2>1. Cardinality(Created) \in Nat /\ Pending \in 0..1
      BY CreatedAre DEF WatchInv, Pending
    <2>2. \A p \in Paths : owed[p] \in Nat
      BY DEF WatchInv, TypeOK
    <2> QED
      BY <1>1, <1>2, <1>3, <2>1, <2>2, SMTT(30) DEF WatchInv, Counted, history
  <1>8. SentOnce'
    BY <1>1, <1>2, NothingMoves DEF WatchInv, timerVars, mapVars, history
  <1>9. BatchIsTimed'
    BY <1>1, <1>2 DEF WatchInv, BatchIsTimed, TimerStale, loopVars, mapVars, timerVars, history
  <1> QED
    BY <1>5, <1>6, <1>7, <1>8, <1>9 DEF WatchInv

\* The loop takes an event.
LEMMA TakeEventKeeps ==
    ASSUME WatchInv, TakeEvent, Head(raw) \notin Ignored
    PROVE  WatchInv'
  <1> DEFINE q == Head(raw)
  <1>1. /\ raw # <<>> /\ raw' = Tail(raw) /\ loop = "select" /\ loop' = "callback" /\ cur' = q
        /\ owed' = [owed EXCEPT ![q] = @ + 1] /\ due' = due \cup {q} /\ missed' = missed
        /\ UNCHANGED <<start, changes, stop, mapVars, timerVars, events, crashed>>
    BY DEF TakeEvent, Looping
  <1>2. q \in Paths /\ raw' \in Seq(Paths) /\ Len(raw') = Len(raw) - 1 /\ Len(raw') \in Nat
        /\ Len(raw) \in Nat
    BY <1>1, HeadTailProperties, LenProperties DEF WatchInv, TypeOK
  <1> HIDE DEF q
  <1>3. InHand = {} /\ InHand' = {q} /\ Created' = Created /\ Pending = 0 /\ Pending' = 1
    BY <1>1 DEF InHand, Created, Unused, Pending, timerVars
  <1>4. changes \in Nat /\ changes <= MaxChanges /\ MaxChanges \in Nat
        /\ \A p \in Paths : owed[p] \in Nat
    BY MaxChangesAssumption DEF WatchInv, TypeOK
  <1>5. \A p \in Paths : owed'[p] = owed[p] + (IF p = q THEN 1 ELSE 0)
    BY <1>1 DEF WatchInv, TypeOK
  <1>6. \A p \in Paths : owed[p] + Len(raw) <= changes
    BY DEF WatchInv, Counted
  <1>7. TypeOK'
    <2>1. \A p \in Paths : owed'[p] \in 0..MaxChanges
      BY <1>2, <1>4, <1>5, <1>6
    <2>2. owed' \in [Paths -> 0..MaxChanges]
      BY <1>1, <2>1 DEF WatchInv, TypeOK
    <2> QED
      BY <1>1, <1>2, <2>2 DEF WatchInv, TypeOK, mapVars, timerVars
  <1>8. Counted'
    <2>1. Cardinality(Created) \in Nat
      BY CreatedAre DEF WatchInv
    <2> QED
      BY <1>1, <1>2, <1>3, <1>4, <1>5, <1>6, <2>1 DEF WatchInv, Counted
  <1>9. LoopOK' /\ TimersOK' /\ LiveIsSet' /\ LossAccounted'
    BY <1>1, <1>2, <1>3 DEF WatchInv, LoopOK, TimersOK, LiveIsSet, LossAccounted, InCopies,
                            mapVars, timerVars
  <1>10. Copying' /\ BatchIsTimed'
    BY <1>1, <1>3 DEF WatchInv, Copying, BatchIsTimed, TimerStale, mapVars, timerVars
  <1>11. SentOnce'
    <2> SUFFICES ASSUME NEW p \in Paths
                 PROVE  OnItsWay(p)' <= owed'[p]
      BY SentOnceIs
    <2>1. HoldersOf(p)' = HoldersOf(p) /\ (InBatch(p)' <=> InBatch(p))
      BY <1>1 DEF HoldersOf, InBatch, mapVars, timerVars
    <2>2. Cardinality(HoldersOf(p)) \in Nat
      BY HoldersFinite
    <2>3. OnItsWay(p)' = OnItsWay(p) + (IF p = q THEN 1 ELSE 0) /\ OnItsWay(p) \in Nat
      BY <1>3, <2>1, <2>2 DEF OnItsWay
    <2>4. OnItsWay(p) <= owed[p]
      BY SentOnceIs DEF WatchInv
    <2> QED
      BY <1>4, <1>5, <2>3, <2>4
  <1> QED
    BY <1>7, <1>8, <1>9, <1>10, <1>11 DEF WatchInv

\* The steps of the loop that leave the map, the copies and the timers alone.
LEMMA CallbackKeeps ==
    ASSUME WatchInv, Callback \/ SeeStop \/ SeeClosed
    PROVE  WatchInv'
  <1>1. /\ UNCHANGED <<cur, envVars, mapVars, timerVars, events, crashed, history>>
        /\ \/ loop = "callback" /\ loop' = "insert"
           \/ loop = "select" /\ loop' \in {"exited", "stopping"} /\ stop # "no"
    BY DEF Callback, SeeStop, SeeClosed, Looping
  <1>2. UNCHANGED <<InHand, Created, Pending>>
    BY <1>1 DEF timerVars, InHand, Created, Unused, Pending
  <1>3. TypeOK'
    BY <1>1 DEF WatchInv, TypeOK, envVars, mapVars, timerVars, history
  <1>4. LoopOK' /\ TimersOK' /\ LiveIsSet' /\ Copying' /\ LossAccounted' /\ BatchIsTimed'
    BY <1>1, <1>2 DEF WatchInv, LoopOK, TimersOK, LiveIsSet, Copying, LossAccounted, InCopies,
                      BatchIsTimed, TimerStale, envVars, mapVars, timerVars, history
  <1>5. Counted'
    BY <1>1, <1>2 DEF WatchInv, Counted, envVars, history
  <1>6. SentOnce'
    BY <1>1, <1>2, NothingMoves DEF WatchInv, timerVars, mapVars, history
  <1> QED
    BY <1>3, <1>4, <1>5, <1>6 DEF WatchInv

\* The event goes from the hand to the map; a goroutine that comes across it
\* there has it in its copy instead.
LEMMA InsertKeeps ==
    ASSUME WatchInv, Insert
    PROVE  WatchInv'
  <1>1. /\ loop = "insert" /\ loop' = "check" /\ batch' = batch \cup {cur} /\ cur \in Paths
        /\ missed' = IF mu = None THEN missed ELSE missed \cup {cur}
        /\ UNCHANGED <<cur, envVars, batchTimer, timer, mu, events, owed, due>>
        /\ crashed' \in BOOLEAN
    BY DEF Insert, Looping, WatchInv, TypeOK, LoopOK
  <1>2. \/ copied' = copied
        \/ \E t \in Timers : timer[t] = "ranging" /\ copied' = [copied EXCEPT ![t] = @ \cup {cur}]
    BY DEF Insert
  <1>3. InHand = {cur} /\ InHand' = {} /\ Created' = Created /\ Pending' = Pending
    BY <1>1 DEF InHand, Created, Unused, Pending
  <1>4. /\ copied' \in [Timers -> SUBSET Paths]
        /\ \A u \in Timers : copied[u] \subseteq copied'[u]
        /\ \A u \in Timers : timer[u] # "ranging" => copied'[u] = copied[u]
        /\ \A u \in Timers, p \in Paths : p # cur => (p \in copied'[u] <=> p \in copied[u])
    BY <1>1, <1>2 DEF WatchInv, TypeOK
  <1>5. TypeOK'
    BY <1>1, <1>4 DEF WatchInv, TypeOK, envVars
  <1>6. LoopOK' /\ TimersOK' /\ LiveIsSet' /\ Counted'
    BY <1>1, <1>3, <1>4 DEF WatchInv, LoopOK, TimersOK, LiveIsSet, Counted, Holding, envVars
  <1>7. \A t \in Timers : timer[t] \in Holding => mu # None
    BY NoneAssumption DEF WatchInv, TimersOK
  <1>8. Copying'
    <2> SUFFICES ASSUME NEW t \in Timers, timer[t] \in Holding
                 PROVE  /\ timer[t] \in {"ranging", "copied"} =>
                                batch' \cap due \subseteq copied'[t] \cup missed' \cup InHand'
                        /\ timer[t] = "replaced" => batch' \cap due \subseteq missed' \cup InHand'
      BY <1>1 DEF Copying, Holding
    <2>1. missed' = missed \cup {cur}
      BY <1>1, <1>7
    <2> QED
      BY <1>1, <1>3, <1>4, <2>1 DEF WatchInv, Copying
  <1>9. LossAccounted'
    <2>1. InCopies \subseteq InCopies'
      BY <1>4 DEF InCopies
    <2> QED
      BY <1>1, <1>3, <2>1 DEF WatchInv, LossAccounted
  <1>10. BatchIsTimed'
    BY <1>1 DEF BatchIsTimed
  <1>11. SentOnce'
    <2> SUFFICES ASSUME NEW p \in Paths
                 PROVE  OnItsWay(p)' <= owed'[p]
      BY SentOnceIs
    <2>1. OnItsWay(p) <= owed[p] /\ owed'[p] = owed[p] /\ owed[p] \in Nat
      BY <1>1, SentOnceIs DEF WatchInv, TypeOK
    <2>2. /\ IsFiniteSet(HoldersOf(p)) /\ Cardinality(HoldersOf(p)) \in Nat
          /\ Cardinality(HoldersOf(p)') \in Nat
      BY HoldersFinite
    <2>3. CASE p # cur
      <3>1. HoldersOf(p)' = HoldersOf(p)
        BY <1>4, <2>3 DEF HoldersOf
      <3>2. InBatch(p)' <=> InBatch(p)
        BY <1>1, <2>3, <3>1 DEF InBatch
      <3> QED
        BY <1>1, <1>3, <2>1, <2>2, <2>3, <3>1, <3>2 DEF OnItsWay
    <2>4. CASE p = cur /\ copied' = copied
      <3>1. HoldersOf(p)' = HoldersOf(p)
        BY <2>4 DEF HoldersOf
      <3> QED
        BY <1>3, <2>1, <2>2, <2>4, <3>1 DEF OnItsWay
    <2>5. CASE p = cur /\ copied' # copied
      <3>1. PICK t \in Timers : timer[t] = "ranging" /\ copied' = [copied EXCEPT ![t] = @ \cup {cur}]
        BY <1>2, <2>5
      <3>2. HoldersOf(p)' = HoldersOf(p) \cup {t}
        BY <2>5, <3>1 DEF HoldersOf, WatchInv, TypeOK
      <3>3. Cardinality(HoldersOf(p)') <= Cardinality(HoldersOf(p)) + 1
        <4>1. Cardinality(HoldersOf(p) \cup {t}) <= Cardinality(HoldersOf(p)) + 1
          BY <2>2, OneMore
        <4> QED
          BY <3>2, <4>1
      <3>4. ~InBatch(p)'
        BY <1>1, <3>1, <3>2 DEF InBatch
      <3> QED
        BY <1>3, <2>1, <2>2, <2>5, <3>3, <3>4 DEF OnItsWay
    <2> QED
      BY <2>3, <2>4, <2>5
  <1> QED
    BY <1>5, <1>6, <1>8, <1>9, <1>10, <1>11 DEF WatchInv

\* A timer is made only if none is set, and there is one left to make.
LEMMA CheckMakesKeeps ==
    ASSUME WatchInv, Check, batchTimer = None
    PROVE  WatchInv'
  <1> DEFINE n == NextTimer
  <1>1. /\ loop = "check" /\ loop' = "assign" /\ cur' = None
        /\ timer' = [timer EXCEPT ![n] = "armed"]
        /\ UNCHANGED <<envVars, mapVars, copied, mu, events, crashed, history>>
    BY DEF Check, Looping, TimerNotSet
  <1>2. /\ IsFiniteSet(Created) /\ Cardinality(Created) \in Nat
        /\ Created = 1..Cardinality(Created) /\ n = Cardinality(Created) + 1 /\ n \notin Created
        /\ \A t \in Timers : t \in Created <=> timer[t] # "unused"
    BY CreatedAre DEF WatchInv, TimersOK, NextTimer
  <1>3. Cardinality(Created) + 1 + Len(raw) <= changes /\ Len(raw) \in Nat
        /\ changes \in Nat /\ changes <= MaxChanges /\ MaxChanges \in Nat
    BY <1>1, MaxChangesAssumption, LenProperties DEF WatchInv, Counted, Pending, TypeOK
  <1>4. n \in Timers /\ timer[n] = "unused"
    <2>1. n \in 1..Cardinality(Timers)
      BY <1>2, <1>3, MaxChangesAssumption, CreatedAre DEF WatchInv
    <2>2. n \in Timers
      BY <2>1, TimersAssumption
    <2> QED
      BY <2>2, <1>2
  <1> HIDE DEF n
  <1>5. /\ timer'[n] = "armed" /\ \A t \in Timers : t # n => timer'[t] = timer[t]
        /\ timer' \in [Timers -> {"unused", "armed", "fired", "sending", "stopped"} \cup Holding]
    BY <1>1, <1>4 DEF WatchInv, TypeOK
  <1>6. /\ Created' = Created \cup {n} /\ Cardinality(Created') = n
        /\ Created' = 1..Cardinality(Created')
    <2>1. Created' = Created \cup {n}
      BY <1>4, <1>5 DEF Created, Unused
    <2>2. Cardinality(Created') = n
      BY <1>2, <2>1, FS_AddElement
    <2>3. Created \cup {n} = 1..n
      <3> DEFINE c == Cardinality(Created)
      <3>1. c \in Nat /\ n = c + 1 /\ Created = 1..c
        BY <1>2
      <3> HIDE DEF c
      <3> QED
        BY <3>1
    <2> QED
      BY <2>1, <2>2, <2>3
  <1>7. InHand = {} /\ InHand' = {} /\ Pending = 1 /\ Pending' = 0
    BY <1>1 DEF InHand, Pending
  <1>8. TypeOK'
    BY <1>1, <1>5 DEF WatchInv, TypeOK, envVars, mapVars, history
  <1>9. LoopOK' /\ Copying' /\ LossAccounted' /\ LiveIsSet'
    <2>1. LoopOK'
      BY <1>1, <1>6 DEF LoopOK, mapVars
    <2>2. Copying'
      BY <1>1, <1>5, <1>7 DEF WatchInv, Copying, mapVars, history
    <2>3. LossAccounted'
      BY <1>1, <1>7 DEF WatchInv, LossAccounted, InCopies, mapVars, history
    <2>4. LiveIsSet'
      BY <1>1, <1>5, <1>6, NoneAssumption DEF WatchInv, LiveIsSet, mapVars
    <2> QED
      BY <2>1, <2>2, <2>3, <2>4
  <1>10. TimersOK'
    <2>1. \A t \in Timers : /\ timer'[t] \in Holding <=> timer[t] \in Holding
                            /\ timer'[t] = "stopped" => timer[t] = "stopped"
                            /\ timer'[t] = "sending" <=> timer[t] = "sending"
      BY <1>4, <1>5 DEF Holding
    <2> QED
      BY <1>1, <1>6, <2>1 DEF WatchInv, TimersOK, envVars, mapVars
  <1>11. Counted'
    BY <1>1, <1>2, <1>3, <1>6, <1>7 DEF WatchInv, Counted, envVars, history
  <1>12. SentOnce'
    <2>1. \A t \in Timers : timer'[t] \in {"ranging", "copied"} <=> timer[t] \in {"ranging", "copied"}
      BY <1>4, <1>5
    <2> QED
      BY <1>1, <1>7, <2>1, NothingMoves DEF WatchInv, mapVars, history
  <1>13. BatchIsTimed'
    BY <1>4, <1>5 DEF BatchIsTimed
  <1> QED
    BY <1>8, <1>9, <1>10, <1>11, <1>12, <1>13 DEF WatchInv

\* If there is a timer, it is to fire, is copying the map, or is a stale one.
LEMMA CheckLeavesKeeps ==
    ASSUME WatchInv, Check, batchTimer # None
    PROVE  WatchInv'
  <1>1. /\ loop = "check" /\ loop' = "select" /\ cur' = None
        /\ UNCHANGED <<envVars, mapVars, timer, copied, mu, events, crashed, history>>
    BY DEF Check, Looping, TimerNotSet
  <1>2. InHand = {} /\ InHand' = {} /\ Created' = Created /\ Pending = 1 /\ Pending' = 0
    BY <1>1 DEF InHand, Created, Unused, Pending
  <1>3. TypeOK'
    BY <1>1 DEF WatchInv, TypeOK, envVars, mapVars, history
  <1>4. LoopOK' /\ TimersOK' /\ LiveIsSet' /\ Copying' /\ LossAccounted'
    BY <1>1, <1>2 DEF WatchInv, LoopOK, TimersOK, LiveIsSet, Copying, LossAccounted, InCopies,
                      envVars, mapVars, history
  <1>5. Counted'
    <2>1. Cardinality(Created) \in Nat /\ Len(raw) \in Nat /\ changes \in Nat
      BY CreatedAre, LenProperties, MaxChangesAssumption DEF WatchInv, TypeOK
    <2> QED
      BY <1>1, <1>2, <2>1 DEF WatchInv, Counted, envVars, history
  <1>6. SentOnce'
    BY <1>1, <1>2, NothingMoves DEF WatchInv, mapVars, history
  <1>7. BatchIsTimed'
    <2> DEFINE b == batchTimer
    <2>1. /\ b \in Timers /\ timer[b] # "unused"
          /\ timer[b] \in {"unused", "armed", "fired", "sending", "stopped"} \cup Holding
      BY DEF WatchInv, TypeOK, TimersOK
    <2> SUFFICES ASSUME NEW p \in batch \cap due, p \notin missed, stop = "no", ~TimerStale
                 PROVE  \E t \in Timers : \/ timer[t] \in {"armed", "fired"}
                                          \/ timer[t] \in Holding /\ p \in copied[t]
      BY <1>1, <1>2 DEF BatchIsTimed, TimerStale, envVars, mapVars, history
    <2>2. timer[b] # "sending" /\ timer[b] # "stopped"
      BY <2>1 DEF TimerStale, WatchInv, TimersOK
    <2>3. timer[b] \in Holding => p \in copied[b]
      BY <1>2, <2>1 DEF WatchInv, Copying, Holding
    <2> QED
      BY <2>1, <2>2, <2>3
  <1> QED
    BY <1>3, <1>4, <1>5, <1>6, <1>7 DEF WatchInv

\* The timer assigned is the last one made: no other is set.
LEMMA AssignKeeps ==
    ASSUME WatchInv, Assign
    PROVE  WatchInv'
  <1>1. /\ loop = "assign" /\ loop' = "select" /\ batchTimer = None /\ batchTimer' = Max(Created)
        /\ Created # {}
        /\ UNCHANGED <<cur, envVars, batch, timerVars, events, crashed, history>>
    BY DEF Assign, Looping, WatchInv, LoopOK
  <1>2. /\ batchTimer' = Cardinality(Created) /\ batchTimer' \in Timers
        /\ timer[batchTimer'] # "unused"
    BY <1>1, CreatedAre DEF WatchInv, Created, Unused
  <1>3. InHand = {} /\ InHand' = {} /\ Created' = Created /\ Pending' = Pending
    BY <1>1 DEF InHand, Created, Unused, Pending, timerVars
  <1>4. TypeOK'
    BY <1>1, <1>2 DEF WatchInv, TypeOK, envVars, timerVars, history
  <1>5. LoopOK' /\ TimersOK' /\ Copying' /\ LossAccounted' /\ Counted'
    BY <1>1, <1>2, <1>3 DEF WatchInv, LoopOK, TimersOK, Copying, LossAccounted, InCopies,
                            Counted, envVars, timerVars, history
  <1>6. LiveIsSet'
    BY <1>1, <1>2, NoneAssumption DEF WatchInv, LiveIsSet, timerVars
  <1>7. SentOnce'
    BY <1>1, <1>3, NothingMoves DEF WatchInv, timerVars, history
  <1>8. BatchIsTimed'
    BY <1>1, <1>3 DEF WatchInv, BatchIsTimed, TimerStale, envVars, timerVars, history
  <1> QED
    BY <1>4, <1>5, <1>6, <1>7, <1>8 DEF WatchInv

\* A timer that is stopped, or that fires, was set; its copy is empty.
LEMMA StopTimerKeeps ==
    ASSUME WatchInv, StopTimer
    PROVE  WatchInv'
  <1>1. /\ loop = "stopping" /\ loop' \in {"stopping", "exited"} /\ stop # "no"
        /\ crashed' \in BOOLEAN
        /\ UNCHANGED <<cur, envVars, mapVars, copied, mu, events, history>>
        /\ \/ timer' = timer
           \/ /\ batchTimer \in Timers
              /\ timer' = [timer EXCEPT ![batchTimer] = IF @ = "armed" THEN "stopped" ELSE @]
    BY DEF StopTimer, Looping, WatchInv, TypeOK, LoopOK
  <1>2. /\ timer' \in [Timers -> {"unused", "armed", "fired", "sending", "stopped"} \cup Holding]
        /\ \A t \in Timers : timer'[t] = timer[t] \/ (timer[t] = "armed" /\ timer'[t] = "stopped")
    BY <1>1 DEF WatchInv, TypeOK
  <1>3. \A t \in Timers : /\ timer'[t] \in Holding <=> timer[t] \in Holding
                          /\ timer'[t] = "sending" <=> timer[t] = "sending"
                          /\ timer'[t] = "unused" <=> timer[t] = "unused"
                          /\ timer'[t] \in Live => timer[t] \in Live
                          /\ \A h \in Holding : timer'[t] = h <=> timer[t] = h
    BY <1>2 DEF Holding, Live
  <1>4. InHand = {} /\ InHand' = {} /\ Created' = Created /\ Pending' = Pending
    BY <1>1, <1>3 DEF InHand, Created, Unused, Pending
  <1>5. TypeOK'
    BY <1>1, <1>2 DEF WatchInv, TypeOK, envVars, mapVars, history
  <1>6. LoopOK' /\ TimersOK' /\ LiveIsSet' /\ Counted'
    <2>1. LoopOK' /\ Counted'
      BY <1>1, <1>4 DEF WatchInv, LoopOK, Counted, envVars, history
    <2>2. TimersOK'
      BY <1>1, <1>3, <1>4 DEF WatchInv, TypeOK, TimersOK, envVars, mapVars
    <2>3. LiveIsSet'
      BY <1>1, <1>3 DEF WatchInv, LiveIsSet, mapVars
    <2> QED
      BY <2>1, <2>2, <2>3
  <1>7. Copying' /\ LossAccounted'
    BY <1>1, <1>3, <1>4 DEF WatchInv, Copying, LossAccounted, InCopies, Holding, mapVars, history
  <1>8. SentOnce'
    BY <1>1, <1>3, <1>4, NothingMoves DEF WatchInv, Holding, mapVars, history
  <1>9. BatchIsTimed'
    BY <1>1 DEF BatchIsTimed, envVars
  <1> QED
    BY <1>5, <1>6, <1>7, <1>8, <1>9 DEF WatchInv

--------------------------------------------------------------------------------
(* The timers' goroutines                                                    *)

LEMMA FireKeeps ==
    ASSUME WatchInv, NEW t \in Timers, Fire(t) \/ RangeEnd(t)
    PROVE  WatchInv'
  <1>1. /\ UNCHANGED <<loopVars, envVars, mapVars, copied, mu, events, crashed, history>>
        /\ \A u \in Timers \ {t} : timer'[u] = timer[u]
        /\ \/ timer[t] = "armed" /\ timer'[t] = "fired"
           \/ timer[t] = "ranging" /\ timer'[t] = "copied"
        /\ timer' \in [Timers -> {"unused", "armed", "fired", "sending", "stopped"} \cup Holding]
    BY DEF Fire, RangeEnd, At, WatchInv, TypeOK, Holding
  <1>2. \A u \in Timers : /\ timer'[u] \in Holding <=> timer[u] \in Holding
                          /\ timer'[u] \in Live <=> timer[u] \in Live
                          /\ timer'[u] \in {"armed", "fired"} <=> timer[u] \in {"armed", "fired"}
                          /\ timer'[u] = "sending" <=> timer[u] = "sending"
                          /\ timer'[u] = "stopped" <=> timer[u] = "stopped"
                          /\ timer'[u] = "unused" <=> timer[u] = "unused"
                          /\ timer'[u] = "replaced" <=> timer[u] = "replaced"
                          /\ timer'[u] \in {"ranging", "copied"} <=> timer[u] \in {"ranging", "copied"}
    BY <1>1 DEF Holding, Live
  <1>3. InHand' = InHand /\ Created' = Created /\ Pending' = Pending
    BY <1>1, <1>2 DEF InHand, Created, Unused, Pending, loopVars
  <1>4. TypeOK'
    BY <1>1 DEF WatchInv, TypeOK, loopVars, envVars, mapVars, history
  <1>5. LoopOK' /\ Counted' /\ LossAccounted'
    BY <1>1, <1>3 DEF WatchInv, LoopOK, Counted, LossAccounted, InCopies,
                      loopVars, envVars, mapVars, history
  <1>6. TimersOK'
    BY <1>1, <1>2, <1>3 DEF WatchInv, TypeOK, TimersOK, envVars, mapVars
  <1>7. LiveIsSet' /\ Copying'
    BY <1>1, <1>2, <1>3 DEF WatchInv, LiveIsSet, Copying, loopVars, mapVars, history
  <1>8. SentOnce'
    BY <1>1, <1>2, <1>3, NothingMoves DEF WatchInv, mapVars, history
  <1>9. BatchIsTimed'
    <2>1. TimerStale' <=> TimerStale
      BY <1>1, <1>2 DEF TimerStale, mapVars, WatchInv, TypeOK
    <2> QED
      BY <1>1, <1>2, <1>3, <2>1 DEF WatchInv, BatchIsTimed, loopVars, envVars, mapVars, history
  <1> QED
    BY <1>4, <1>5, <1>6, <1>7, <1>8, <1>9 DEF WatchInv

\* The goroutine that locks finds no other in its critical section, and will
\* copy the whole map.
LEMMA LockKeeps ==
    ASSUME WatchInv, NEW t \in Timers, Lock(t)
    PROVE  WatchInv'
  <1>1. /\ UNCHANGED <<loopVars, envVars, mapVars, events, crashed, history>>
        /\ mu = None /\ mu' = t /\ timer[t] = "fired" /\ timer'[t] = "ranging"
        /\ \A u \in Timers \ {t} : timer'[u] = timer[u] /\ copied'[u] = copied[u]
        /\ copied'[t] = batch
        /\ timer' \in [Timers -> {"unused", "armed", "fired", "sending", "stopped"} \cup Holding]
        /\ copied' \in [Timers -> SUBSET Paths]
    BY DEF Lock, At, WatchInv, TypeOK, Holding, WholeBatch, mapVars
  <1>2. /\ copied[t] = {} /\ \A u \in Timers : timer[u] \notin Holding
        /\ t # None
    BY <1>1, NoneAssumption DEF WatchInv, TimersOK, Holding
  <1>3. InHand' = InHand /\ Created' = Created /\ Pending' = Pending
    BY <1>1 DEF InHand, Created, Unused, Pending, loopVars
  <1>4. TypeOK'
    BY <1>1 DEF WatchInv, TypeOK, loopVars, envVars, mapVars, history
  <1>5. LoopOK' /\ Counted'
    BY <1>1, <1>3 DEF WatchInv, LoopOK, Counted, loopVars, envVars, mapVars, history
  <1>6. TimersOK'
    BY <1>1, <1>2, <1>3 DEF WatchInv, TypeOK, TimersOK, Holding, envVars, mapVars
  <1>7. LiveIsSet'
    BY <1>1, <1>2, <1>3 DEF WatchInv, LiveIsSet, Live, loopVars, mapVars
  <1>8. Copying'
    BY <1>1, <1>2, <1>3 DEF Copying, Holding, mapVars, history
  <1>9. LossAccounted'
    <2>1. InCopies \subseteq InCopies'
      BY <1>1, <1>2 DEF InCopies
    <2> QED
      BY <1>1, <1>3, <2>1 DEF WatchInv, LossAccounted, mapVars, history
  <1>10. SentOnce'
    <2> SUFFICES ASSUME NEW p \in Paths
                 PROVE  OnItsWay(p)' <= owed'[p]
      BY SentOnceIs
    <2>1. OnItsWay(p) <= owed[p] /\ owed'[p] = owed[p] /\ owed[p] \in Nat
      BY <1>1, SentOnceIs DEF WatchInv, TypeOK, history
    <2>2. /\ IsFiniteSet(HoldersOf(p)) /\ Cardinality(HoldersOf(p)) \in Nat
          /\ Cardinality(HoldersOf(p)') \in Nat
      BY HoldersFinite
    <2>3. CASE p \in batch
      <3>1. HoldersOf(p)' = HoldersOf(p) \cup {t}
        BY <1>1, <2>3 DEF HoldersOf
      <3>2. Cardinality(HoldersOf(p)') <= Cardinality(HoldersOf(p)) + 1
        <4>1. Cardinality(HoldersOf(p) \cup {t}) <= Cardinality(HoldersOf(p)) + 1
          BY <2>2, OneMore
        <4> QED
          BY <3>1, <4>1
      <3>3. InBatch(p)
        BY <1>2, <2>3 DEF InBatch, HoldersOf, Holding
      <3>4. ~InBatch(p)'
        BY <1>1, <3>1 DEF InBatch
      <3> QED
        BY <1>3, <2>1, <2>2, <3>2, <3>3, <3>4 DEF OnItsWay
    <2>4. CASE p \notin batch
      <3>1. HoldersOf(p)' = HoldersOf(p) /\ ~InBatch(p) /\ ~InBatch(p)'
        BY <1>1, <1>2, <2>4 DEF HoldersOf, InBatch, mapVars
      <3> QED
        BY <1>3, <2>1, <3>1 DEF OnItsWay
    <2> QED
      BY <2>3, <2>4
  <1>11. BatchIsTimed'
    BY <1>1 DEF BatchIsTimed, Holding, mapVars
  <1> QED
    BY <1>4, <1>5, <1>6, <1>7, <1>8, <1>9, <1>10, <1>11 DEF WatchInv

\* What the map held is with the goroutine, in the loop's hand, or was noted.
LEMMA ReplaceKeeps ==
    ASSUME WatchInv, NEW t \in Timers, Replace(t)
    PROVE  WatchInv'
  <1>1. /\ UNCHANGED <<loopVars, envVars, batchTimer, copied, mu, events, crashed, history>>
        /\ timer[t] = "copied" /\ timer'[t] = "replaced" /\ batch' = {}
        /\ \A u \in Timers \ {t} : timer'[u] = timer[u]
        /\ timer' \in [Timers -> {"unused", "armed", "fired", "sending", "stopped"} \cup Holding]
    BY DEF Replace, At, WatchInv, TypeOK, Holding, NewBatch
  <1>2. InHand' = InHand /\ Created' = Created /\ Pending' = Pending
    BY <1>1 DEF InHand, Created, Unused, Pending, loopVars
  <1>3. TypeOK'
    BY <1>1 DEF WatchInv, TypeOK, loopVars, envVars, history
  <1>4. LoopOK' /\ Counted'
    BY <1>1, <1>2 DEF WatchInv, LoopOK, Counted, loopVars, envVars, history
  <1>5. TimersOK'
    BY <1>1, <1>2 DEF WatchInv, TypeOK, TimersOK, Holding, envVars
  <1>6. LiveIsSet'
    BY <1>1, <1>2 DEF WatchInv, LiveIsSet, Live, Holding, loopVars
  <1>7. Copying' /\ BatchIsTimed'
    BY <1>1 DEF Copying, BatchIsTimed
  <1>8. LossAccounted'
    <2>1. copied[t] \subseteq InCopies /\ InCopies' = InCopies
      BY <1>1 DEF InCopies
    <2>2. batch \cap due \subseteq copied[t] \cup missed \cup InHand
      BY <1>1 DEF WatchInv, Copying
    <2> QED
      BY <1>1, <1>2, <2>1, <2>2 DEF WatchInv, LossAccounted, history
  <1>9. SentOnce'
    <2> SUFFICES ASSUME NEW p \in Paths
                 PROVE  OnItsWay(p)' <= owed'[p]
      BY SentOnceIs
    <2>1. OnItsWay(p) <= owed[p] /\ owed'[p] = owed[p] /\ owed[p] \in Nat
      BY <1>1, SentOnceIs DEF WatchInv, TypeOK, history
    <2>2. HoldersOf(p)' = HoldersOf(p) /\ ~InBatch(p)' /\ Cardinality(HoldersOf(p)) \in Nat
      BY <1>1, HoldersFinite DEF HoldersOf, InBatch
    <2> QED
      BY <1>2, <2>1, <2>2 DEF OnItsWay
  <1> QED
    BY <1>3, <1>4, <1>5, <1>6, <1>7, <1>8, <1>9 DEF WatchInv

\* The timer that is forgotten was the only one that could be set.
LEMMA UnlockKeeps ==
    ASSUME WatchInv, NEW t \in Timers, Unlock(t)
    PROVE  WatchInv'
  <1>1. /\ UNCHANGED <<loopVars, envVars, batch, copied, events, crashed, history>>
        /\ batchTimer' = None /\ mu' = None
        /\ timer[t] = "replaced" /\ timer'[t] = "sending"
        /\ \A u \in Timers \ {t} : timer'[u] = timer[u]
        /\ timer' \in [Timers -> {"unused", "armed", "fired", "sending", "stopped"} \cup Holding]
    BY DEF Unlock, At, WatchInv, TypeOK, Holding, Unlocked
  <1>2. InHand' = InHand /\ Created' = Created /\ Pending' = Pending
    BY <1>1 DEF InHand, Created, Unused, Pending, loopVars
  <1>3. \A u \in Timers \ {t} : timer[u] \notin Holding
    BY <1>1 DEF WatchInv, TimersOK, Holding
  <1>4. TypeOK'
    BY <1>1 DEF WatchInv, TypeOK, loopVars, envVars, history
  <1>5. LoopOK' /\ Counted'
    BY <1>1, <1>2 DEF WatchInv, LoopOK, Counted, loopVars, envVars, history
  <1>6. TimersOK'
    <2>1. \A u \in Timers : timer'[u] \notin Holding
      BY <1>1, <1>3 DEF Holding
    <2> QED
      BY <1>1, <1>2, <2>1, NoneAssumption DEF WatchInv, TimersOK, envVars, Holding
  <1>7. LiveIsSet'
    <2> SUFFICES ASSUME NEW u \in Timers, timer'[u] \in Live
                 PROVE  FALSE
      BY DEF LiveIsSet
    <2>1. u # t /\ timer[u] \in Live
      BY <1>1 DEF Live, Holding
    <2>2. timer[t] \in Live /\ t # None /\ u # None
      BY <1>1, NoneAssumption DEF Live, Holding
    <2> QED
      BY <2>1, <2>2 DEF WatchInv, LiveIsSet, LoopOK
  <1>8. Copying'
    BY <1>1, <1>3 DEF Copying, Holding
  <1>9. LossAccounted'
    BY <1>1, <1>2 DEF WatchInv, LossAccounted, InCopies, history
  <1>10. SentOnce'
    <2>1. \A u \in Timers : timer'[u] \in {"ranging", "copied"} <=> timer[u] \in {"ranging", "copied"}
      BY <1>1
    <2> QED
      BY <1>1, <1>2, <2>1, NothingMoves DEF WatchInv, history
  <1>11. BatchIsTimed'
    <2>1. batch \cap due \subseteq missed \cup InHand
      BY <1>1 DEF WatchInv, Copying
    <2> QED
      BY <1>1, <1>2, <2>1 DEF BatchIsTimed, history
  <1> QED
    BY <1>4, <1>5, <1>6, <1>7, <1>8, <1>9, <1>10, <1>11 DEF WatchInv

\* An event that is sent or refused was owed.
LEMMA SendKeeps ==
    ASSUME WatchInv, NEW t \in Timers, NEW p \in Paths, Send(t, p)
    PROVE  WatchInv'
  <1>1. /\ UNCHANGED <<loopVars, envVars, mapVars, timer, mu, crashed>>
        /\ timer[t] = "sending" /\ p \in copied[t]
        /\ copied' = [copied EXCEPT ![t] = @ \ {p}] /\ owed' = [owed EXCEPT ![p] = @ - 1]
        /\ \/ /\ Len(events) < ChanCap /\ events' = Append(events, p)
              /\ due' = due \ {p} /\ missed' = missed \ {p}
           \/ missed' = missed \cup {p} /\ events' = events /\ due' = due
    BY DEF Send, HasRoom
  <1>2. /\ copied' \in [Timers -> SUBSET Paths] /\ copied'[t] = copied[t] \ {p}
        /\ \A u \in Timers \ {t} : copied'[u] = copied[u]
    BY <1>1 DEF WatchInv, TypeOK
  <1>3. InHand' = InHand /\ Created' = Created /\ Pending' = Pending
    BY <1>1 DEF InHand, Created, Unused, Pending, loopVars
  <1>4. /\ IsFiniteSet(HoldersOf(p)) /\ Cardinality(HoldersOf(p)) \in Nat
        /\ t \in HoldersOf(p) /\ Cardinality(HoldersOf(p)) >= 1
        /\ HoldersOf(p)' = HoldersOf(p) \ {t} /\ Cardinality(HoldersOf(p)') = Cardinality(HoldersOf(p)) - 1
    <2>1. IsFiniteSet(HoldersOf(p)) /\ Cardinality(HoldersOf(p)) \in Nat
      BY HoldersFinite
    <2>2. t \in HoldersOf(p) /\ HoldersOf(p)' = HoldersOf(p) \ {t}
      BY <1>1, <1>2 DEF HoldersOf
    <2>3. Cardinality(HoldersOf(p) \ {t}) = Cardinality(HoldersOf(p)) - 1
          /\ Cardinality(HoldersOf(p)) # 0
      BY <2>1, <2>2, FS_RemoveElement, FS_EmptySet
    <2> QED
      BY <2>1, <2>2, <2>3
  <1>5. /\ \A q \in Paths : owed[q] \in Nat /\ owed[q] <= MaxChanges /\ OnItsWay(q) <= owed[q]
        /\ owed[p] >= 1 /\ owed'[p] = owed[p] - 1 /\ MaxChanges \in Nat
        /\ \A q \in Paths \ {p} : owed'[q] = owed[q]
    <2>1. \A q \in Paths : owed[q] \in Nat /\ owed[q] <= MaxChanges /\ OnItsWay(q) <= owed[q]
      BY MaxChangesAssumption, SentOnceIs DEF WatchInv, TypeOK
    <2>2. OnItsWay(p) >= 1
      BY <1>4 DEF OnItsWay
    <2>3. OnItsWay(p) \in Nat
      BY <1>4 DEF OnItsWay
    <2> QED
      BY <1>1, <2>1, <2>2, <2>3, MaxChangesAssumption DEF WatchInv, TypeOK
  <1>6. TypeOK'
    <2>1. \A q \in Paths : owed'[q] \in 0..MaxChanges
      BY <1>5
    <2>2. owed' \in [Paths -> 0..MaxChanges]
      BY <1>1, <2>1 DEF WatchInv, TypeOK
    <2>3. events' \in Seq(Paths) /\ Len(events') <= ChanCap
      <3>1. events \in Seq(Paths) /\ Len(events) <= ChanCap /\ Len(events) \in Nat /\ ChanCap \in Nat
        BY LenProperties, ChanCapAssumption DEF WatchInv, TypeOK
      <3>2. CASE Len(events) < ChanCap /\ events' = Append(events, p)
        BY <3>1, <3>2, AppendProperties
      <3> QED
        BY <1>1, <3>1, <3>2
    <2> QED
      BY SMTT(30), <1>1, <1>2, <2>2, <2>3 DEF WatchInv, TypeOK, loopVars, envVars, mapVars
  <1>7. Counted'
    <2>1. Len(raw) \in Nat /\ changes \in Nat
      BY LenProperties, MaxChangesAssumption DEF WatchInv, TypeOK
    <2> QED
      BY <1>1, <1>3, <1>5, <2>1 DEF WatchInv, Counted, envVars
  <1>8. LoopOK' /\ TimersOK' /\ LiveIsSet'
    BY <1>1, <1>2, <1>3 DEF WatchInv, LoopOK, TimersOK, LiveIsSet, loopVars, envVars, mapVars
  <1>9. Copying'
    <2>1. \A u \in Timers : timer[u] \in Holding => copied'[u] = copied[u]
      BY <1>1, <1>2 DEF Holding
    <2> QED
      BY <1>1, <1>3, <2>1 DEF WatchInv, Copying, Holding, mapVars
  <1>10. LossAccounted'
    <2>1. InCopies \subseteq InCopies' \cup {p}
      BY <1>2 DEF InCopies
    <2> QED
      BY <1>1, <1>3, <2>1 DEF WatchInv, LossAccounted, mapVars
  <1>11. SentOnce'
    <2> SUFFICES ASSUME NEW q \in Paths
                 PROVE  OnItsWay(q)' <= owed'[q]
      BY SentOnceIs
    <2>1. CASE q = p
      <3>1. InBatch(p)' <=> InBatch(p)
        BY <1>1, <1>4 DEF InBatch, mapVars
      <3> QED
        BY <1>3, <1>4, <1>5, <2>1, <3>1 DEF OnItsWay
    <2>2. CASE q # p
      <3>1. HoldersOf(q)' = HoldersOf(q)
        BY <1>2, <2>2 DEF HoldersOf
      <3>2. InBatch(q)' <=> InBatch(q)
        BY <1>1, <3>1 DEF InBatch, mapVars
      <3> QED
        BY <1>3, <1>5, <2>2, <3>1, <3>2 DEF OnItsWay
    <2> QED
      BY <2>1, <2>2
  <1>12. BatchIsTimed'
    <2>1. \A u \in Timers : timer[u] \in Holding => copied'[u] = copied[u]
      BY <1>1, <1>2 DEF Holding
    <2>2. (batch \cap due') \ (InHand \cup missed') \subseteq (batch \cap due) \ (InHand \cup missed)
      BY <1>1
    <2> QED
      BY <1>1, <1>3, <2>1, <2>2 DEF WatchInv, BatchIsTimed, TimerStale, loopVars, envVars, mapVars
  <1> QED
    BY <1>6, <1>7, <1>8, <1>9, <1>10, <1>11, <1>12 DEF WatchInv

--------------------------------------------------------------------------------
(* The theorems about the watcher                                            *)

\* Every step of the loop, of the timers and of the callers keeps the invariant.
LEMMA StepKeeps == WatchInv /\ [Next]_vars => WatchInv'
  <1> SUFFICES ASSUME WatchInv, [Next]_vars
               PROVE  WatchInv'
    OBVIOUS
  <1>1. CASE Start \/ Receive \/ CallStop \/ CloseFsnotify \/ StopReturn
             \/ (\E p \in Paths : Change(p)) \/ UNCHANGED vars
    BY <1>1, CallersKeep
  <1>2. CASE Loop
    <2>1. CASE TakeEvent
      BY <2>1, CallersKeep, TakeEventKeeps
    <2>2. CASE Callback \/ SeeStop \/ SeeClosed
      BY <2>2, CallbackKeeps
    <2>3. CASE Insert
      BY <2>3, InsertKeeps
    <2>4. CASE Check
      BY <2>4, CheckMakesKeeps, CheckLeavesKeeps
    <2>5. CASE Assign
      BY <2>5, AssignKeeps
    <2>6. CASE StopTimer
      BY <2>6, StopTimerKeeps
    <2> QED
      BY <1>2, <2>1, <2>2, <2>3, <2>4, <2>5, <2>6 DEF Loop
  <1>3. ASSUME NEW t \in Timers, TimerStep(t)
        PROVE  WatchInv'
    <2>1. CASE Fire(t) \/ RangeEnd(t)
      BY <2>1, FireKeeps
    <2>2. CASE Lock(t)
      BY <2>2, LockKeeps
    <2>3. CASE Replace(t)
      BY <2>3, ReplaceKeeps
    <2>4. CASE Unlock(t)
      BY <2>4, UnlockKeeps
    <2>5. CASE \E p \in Paths : Send(t, p)
      BY <2>5, SendKeeps
    <2> QED
      BY <1>3, <2>1, <2>2, <2>3, <2>4, <2>5 DEF TimerStep
  <1> QED
    BY <1>1, <1>2, <1>3 DEF Next

\* The inductive invariant holds in every state of the watcher.
THEOREM WatchInvHolds == Spec => []WatchInv
  <1> QED
    BY InitHolds, StepKeeps, PTL DEF Spec

\* Type correctness: the channel of the watcher never holds more than its capacity.
THEOREM TypesHold == Spec => []TypeOK
  <1>1. WatchInv => TypeOK
    BY DEF WatchInv
  <1> QED
    BY <1>1, WatchInvHolds, PTL

\* However the loop and the timers' goroutines overlap, a changed path the channel
\* has not had is on its way, was refused, or was written under another's lock.
THEOREM LossIsAccounted == Spec => []LossAccounted
  <1>1. WatchInv => LossAccounted
    BY DEF WatchInv
  <1> QED
    BY <1>1, WatchInvHolds, PTL

\* No change is reported twice: what is on its way is never more than is owed.
THEOREM SentAtMostOnce == Spec => []SentOnce
  <1>1. WatchInv => SentOnce
    BY DEF WatchInv
  <1> QED
    BY <1>1, WatchInvHolds, PTL

\* What is in the map waits for a timer, and there are never two timers at once,
\* though the loop looks at batchTimer and assigns it without the lock.
THEOREM BatchIsTimedOnce == Spec => []BatchTimedOnce
  <1>1. WatchInv => OneTimer
    <2> SUFFICES ASSUME WatchInv
                 PROVE  OneTimer
      OBVIOUS
    <2> DEFINE L == {t \in Timers : timer[t] \in {"armed", "fired"} \cup Holding}
    <2>1. L \subseteq {batchTimer} \/ L \subseteq {Cardinality(Created)}
      BY NoneAssumption DEF WatchInv, LiveIsSet, Live, LoopOK
    <2>2. ASSUME NEW x, L \subseteq {x}
          PROVE  Cardinality(L) <= 1
      <3> HIDE DEF L
      <3>1. IsFiniteSet({x}) /\ Cardinality({x}) = 1
        BY FS_Singleton
      <3>2. Cardinality(L) <= Cardinality({x})
        BY <2>2, <3>1, FS_Subset
      <3> QED
        BY <3>1, <3>2
    <2> QED
      BY <2>1, <2>2 DEF OneTimer
  <1>2. WatchInv => BatchTimedOnce
    BY <1>1 DEF WatchInv, BatchTimedOnce
  <1> QED
    BY <1>2, WatchInvHolds, PTL

\* The same of the specification with fairness, which the run checks.
THEOREM FairWatcher == FairSpec => [](TypeOK /\ LossAccounted /\ SentOnce /\ BatchTimedOnce)
  <1> QED
    BY TypesHold, LossIsAccounted, SentAtMostOnce, BatchIsTimedOnce, PTL DEF FairSpec

================================================================================
