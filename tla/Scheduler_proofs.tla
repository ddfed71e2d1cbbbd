---------------------------- MODULE Scheduler_proofs ----------------------------
(*****************************************************************************)
(* Theorems about the contract of Run and the two schedulers, for every set  *)
(* of task IDs, every set of dependency lists and of priorities and every    *)
(* bound on calls and Runs.  What the schedulers share is proved first, of   *)
(* the steps of TaskRun, without a word about the queue: the table, the      *)
(* degrees, the goroutines, and that such steps are steps of the contract.   *)
(* Then, for each queue, that it holds just what can be launched.            *)
(*****************************************************************************)
EXTENDS Scheduler, PriorityScheduler, FiniteSetTheorems, SequenceTheorems, TLAPS

--------------------------------------------------------------------------------
(* Lemmas about the operators                                                *)

\* A table maps the IDs of its domain to tasks.
LEMMA TablesMembership ==
    \A p : p \in Tables <=> DOMAIN p \subseteq TaskIDs /\ p \in [DOMAIN p -> Task]
  BY DEF Tables

\* The empty map is a map from no ID, to anything.
LEMMA EmptyMap ==
    ASSUME NEW T
    PROVE  DOMAIN <<>> = {} /\ <<>> \in [{} -> T]
  <1>1. <<>> \in Seq(T) /\ Len(<<>>) = 0
    BY EmptySeq
  <1>2. <<>> \in [1..0 -> T]
    BY <1>1, LenProperties
  <1>3. 1..0 = {}
    OBVIOUS
  <1> QED
    BY <1>2, <1>3

\* Every task's dependency list is a sequence of IDs.
LEMMA DepsAreSequences ==
    ASSUME NEW p \in Tables, NEW t \in DOMAIN p
    PROVE  /\ p[t] \in Task
           /\ p[t].deps \in Seq(TaskIDs)
           /\ p[t].fn \in BOOLEAN
           /\ Range(p[t].deps) = {p[t].deps[i] : i \in DOMAIN p[t].deps}
           /\ Range(p[t].deps) \subseteq TaskIDs
  <1>1. p[t] \in Task
    BY TablesMembership
  <1>2. p[t].deps \in Seq(TaskIDs)
    BY <1>1, DepListsAssumption DEF Task
  <1>3. Range(p[t].deps) = {p[t].deps[i] : i \in DOMAIN p[t].deps}
    BY DEF Range
  <1>4. \A i \in DOMAIN p[t].deps : p[t].deps[i] \in TaskIDs
    BY <1>2, ElementOfSeq, LenProperties
  <1> QED
    BY <1>1, <1>2, <1>3, <1>4 DEF Task

\* The dependency slots of a list not yet met when the tasks of done are.
Pending(deps, done) == {i \in DOMAIN deps : deps[i] \notin done}

\* The slots of a list that name id.
Edges(deps, id) == {i \in DOMAIN deps : deps[i] = id}

\* Launching id lowers the number of unmet slots by the edges from id.
LEMMA PendingCount ==
    ASSUME NEW deps \in Seq(TaskIDs), NEW done, NEW id, id \notin done
    PROVE  /\ Cardinality(Pending(deps, done)) \in Nat
           /\ Cardinality(Edges(deps, id)) \in Nat
           /\ Cardinality(Pending(deps, done \cup {id}))
                = Cardinality(Pending(deps, done)) - Cardinality(Edges(deps, id))
  <1> DEFINE A == Pending(deps, done \cup {id})
             B == Edges(deps, id)
             C == Pending(deps, done)
  <1>1. IsFiniteSet(DOMAIN deps)
    BY LenProperties, FS_Interval
  <1>2. A \subseteq DOMAIN deps /\ B \subseteq DOMAIN deps
    BY DEF Pending, Edges
  <1>3. IsFiniteSet(A) /\ IsFiniteSet(B)
    BY <1>1, <1>2, FS_Subset
  <1>4. A \cup B = C /\ A \cap B = {}
    BY DEF Pending, Edges
  <1> HIDE DEF A, B, C
  <1>5. Cardinality(A \cup B) = Cardinality(A) + Cardinality(B) - Cardinality(A \cap B)
    BY <1>3, FS_Union
  <1>6. Cardinality({}) = 0
    BY FS_EmptySet
  <1>7. Cardinality(A) \in Nat /\ Cardinality(B) \in Nat
    BY <1>3, FS_CardinalityType
  <1>8. Cardinality(C) = Cardinality(A) + Cardinality(B)
    <2>1. Cardinality(A \cup B) = Cardinality(C) /\ Cardinality(A \cap B) = 0
      BY <1>4, <1>6, Zenon
    <2> QED
      BY <2>1, <1>5, <1>7
  <1>9. Cardinality(C) \in Nat
    BY <1>7, <1>8
  <1> QED
    BY <1>7, <1>8, <1>9 DEF A, B, C

\* No slot is unmet just when every dependency is in done.
LEMMA PendingNone ==
    ASSUME NEW deps \in Seq(TaskIDs), NEW done
    PROVE  /\ Cardinality(Pending(deps, done)) \in Nat
           /\ Cardinality(Pending(deps, done)) = 0 <=> Range(deps) \subseteq done
  <1>1. IsFiniteSet(DOMAIN deps)
    BY LenProperties, FS_Interval
  <1>2. Pending(deps, done) \subseteq DOMAIN deps
    BY DEF Pending
  <1>3. IsFiniteSet(Pending(deps, done))
    BY <1>1, <1>2, FS_Subset
  <1>4. Pending(deps, done) = {} <=> Range(deps) \subseteq done
    BY DEF Pending, Range
  <1> QED
    BY <1>3, <1>4, FS_EmptySet, FS_CardinalityType

\* An order of a finite set is a sequence of all its elements, each once.
LEMMA OrdersProperties ==
    ASSUME NEW S, IsFiniteSet(S), NEW order \in Orders(S)
    PROVE  /\ order \in Seq(S)
           /\ Range(order) = S
           /\ IsInjective(order)
  <1>1. Cardinality(S) \in Nat
    BY FS_CardinalityType
  <1>2. order \in [1..Cardinality(S) -> S]
    BY DEF Orders, Bijection, Injection
  <1>3. order \in Seq(S)
    BY <1>1, <1>2, SeqDef
  <1>4. IsInjective(order)
    BY DEF Orders, Bijection, Injection
  <1>5. \A s \in S : \E i \in 1..Cardinality(S) : order[i] = s
    BY DEF Orders, Bijection, Surjection
  <1>6. Range(order) = S
    BY <1>2, <1>5 DEF Range
  <1> QED
    BY <1>3, <1>4, <1>6

\* What a sequence followed by another holds, and when it holds nothing twice.
LEMMA ConcatRange ==
    ASSUME NEW s \in Seq(TaskIDs), NEW r \in Seq(TaskIDs)
    PROVE  /\ s \o r \in Seq(TaskIDs)
           /\ Range(s \o r) = Range(s) \cup Range(r)
           /\ IsInjective(s) /\ IsInjective(r) /\ Range(s) \cap Range(r) = {}
                => IsInjective(s \o r)
  <1>1. /\ s \o r \in Seq(TaskIDs)
        /\ Len(s \o r) = Len(s) + Len(r)
        /\ \A i \in 1 .. Len(s) + Len(r) :
               (s \o r)[i] = IF i <= Len(s) THEN s[i] ELSE r[i - Len(s)]
    BY ConcatProperties
  <1>2. /\ Len(s) \in Nat /\ DOMAIN s = 1..Len(s)
        /\ Len(r) \in Nat /\ DOMAIN r = 1..Len(r)
        /\ DOMAIN (s \o r) = 1..(Len(s) + Len(r))
    BY <1>1, LenProperties
  <1>3. Range(s \o r) \subseteq Range(s) \cup Range(r)
    <2> SUFFICES ASSUME NEW i \in 1..(Len(s) + Len(r))
                 PROVE  (s \o r)[i] \in Range(s) \cup Range(r)
      BY <1>2 DEF Range
    <2>1. CASE i <= Len(s)
      BY <2>1, <1>1, <1>2 DEF Range
    <2>2. CASE i > Len(s)
      <3>1. i - Len(s) \in 1..Len(r) /\ (s \o r)[i] = r[i - Len(s)]
        BY <2>2, <1>1, <1>2
      <3> QED
        BY <3>1, <1>2 DEF Range
    <2> QED
      BY <2>1, <2>2, <1>2
  <1>4. Range(s) \subseteq Range(s \o r)
    <2> SUFFICES ASSUME NEW i \in 1..Len(s)
                 PROVE  s[i] \in Range(s \o r)
      BY <1>2 DEF Range
    <2>1. i \in 1..(Len(s) + Len(r)) /\ (s \o r)[i] = s[i]
      BY <1>1, <1>2
    <2> QED
      BY <2>1, <1>2 DEF Range
  <1>5. Range(r) \subseteq Range(s \o r)
    <2> SUFFICES ASSUME NEW i \in 1..Len(r)
                 PROVE  r[i] \in Range(s \o r)
      BY <1>2 DEF Range
    <2>1. i + Len(s) \in 1..(Len(s) + Len(r)) /\ (s \o r)[i + Len(s)] = r[i]
      BY <1>1, <1>2
    <2> QED
      BY <2>1, <1>2 DEF Range
  <1>6. ASSUME IsInjective(s), IsInjective(r), Range(s) \cap Range(r) = {}
        PROVE  IsInjective(s \o r)
    <2> SUFFICES ASSUME NEW i \in 1..(Len(s) + Len(r)), NEW j \in 1..(Len(s) + Len(r)),
                        (s \o r)[i] = (s \o r)[j]
                 PROVE  i = j
      BY <1>2 DEF IsInjective
    <2>1. CASE i <= Len(s) /\ j <= Len(s)
      BY <2>1, <1>1, <1>2, <1>6 DEF IsInjective
    <2>2. CASE i > Len(s) /\ j > Len(s)
      <3>1. i - Len(s) \in 1..Len(r) /\ j - Len(s) \in 1..Len(r)
        BY <2>2, <1>2
      <3>2. r[i - Len(s)] = r[j - Len(s)]
        BY <2>2, <1>1, <1>2
      <3>3. i - Len(s) = j - Len(s)
        BY <3>1, <3>2, <1>2, <1>6 DEF IsInjective
      <3> QED
        BY <3>3, <1>2
    <2>3. CASE i <= Len(s) /\ j > Len(s)
      <3>1. (s \o r)[i] \in Range(s)
        BY <2>3, <1>1, <1>2 DEF Range
      <3>2. j - Len(s) \in 1..Len(r) /\ (s \o r)[j] = r[j - Len(s)]
        BY <2>3, <1>1, <1>2
      <3>3. (s \o r)[j] \in Range(r)
        BY <3>2, <1>2 DEF Range
      <3> QED
        BY <3>1, <3>3, <1>6
    <2>4. CASE i > Len(s) /\ j <= Len(s)
      <3>1. (s \o r)[j] \in Range(s)
        BY <2>4, <1>1, <1>2 DEF Range
      <3>2. i - Len(s) \in 1..Len(r) /\ (s \o r)[i] = r[i - Len(s)]
        BY <2>4, <1>1, <1>2
      <3>3. (s \o r)[i] \in Range(r)
        BY <3>2, <1>2 DEF Range
      <3> QED
        BY <3>1, <3>3, <1>6
    <2> QED
      BY <2>1, <2>2, <2>3, <2>4, <1>2
  <1> QED
    BY <1>1, <1>3, <1>4, <1>5, <1>6

\* The elements of a sequence are its head and those of its tail; without
\* repetitions the head is not in the tail.
LEMMA TailRange ==
    ASSUME NEW s \in Seq(TaskIDs), s # <<>>
    PROVE  /\ Head(s) \in TaskIDs
           /\ Tail(s) \in Seq(TaskIDs)
           /\ Range(s) = {Head(s)} \cup Range(Tail(s))
           /\ IsInjective(s) => IsInjective(Tail(s)) /\ Head(s) \notin Range(Tail(s))
  <1>1. /\ Head(s) \in TaskIDs /\ Tail(s) \in Seq(TaskIDs)
        /\ Len(Tail(s)) = Len(s) - 1
        /\ \A i \in 1 .. Len(Tail(s)) : Tail(s)[i] = s[i + 1]
    BY HeadTailProperties
  <1>2. /\ Len(s) \in Nat \ {0} /\ DOMAIN s = 1..Len(s)
        /\ DOMAIN Tail(s) = 1..(Len(s) - 1)
        /\ Head(s) = s[1]
    BY <1>1, LenProperties, EmptySeq
  <1>3. Range(s) = {Head(s)} \cup Range(Tail(s))
    <2>1. ASSUME NEW i \in 1..Len(s), i # 1
          PROVE  s[i] \in Range(Tail(s))
      <3>1. i - 1 \in 1..(Len(s) - 1) /\ Tail(s)[i - 1] = s[i]
        BY <1>1, <1>2, <2>1
      <3> QED
        BY <3>1, <1>2 DEF Range
    <2>2. ASSUME NEW i \in 1..(Len(s) - 1)
          PROVE  Tail(s)[i] \in Range(s)
      <3>1. i + 1 \in 1..Len(s) /\ Tail(s)[i] = s[i + 1]
        BY <1>1, <1>2
      <3> QED
        BY <3>1, <1>2 DEF Range
    <2>3. Head(s) \in Range(s)
      BY <1>2 DEF Range
    <2> QED
      BY <1>2, <2>1, <2>2, <2>3 DEF Range
  <1>4. ASSUME IsInjective(s)
        PROVE  IsInjective(Tail(s)) /\ Head(s) \notin Range(Tail(s))
    <2>1. \A i \in 1..(Len(s) - 1) : i + 1 \in 1..Len(s) /\ Tail(s)[i] = s[i + 1]
      BY <1>1, <1>2
    <2>2. \A i, j \in 1..Len(s) : s[i] = s[j] => i = j
      BY <1>2, <1>4 DEF IsInjective
    <2>3. IsInjective(Tail(s))
      <3> SUFFICES ASSUME NEW i \in 1..(Len(s) - 1), NEW j \in 1..(Len(s) - 1),
                          Tail(s)[i] = Tail(s)[j]
                   PROVE  i = j
        BY <1>2 DEF IsInjective
      <3>1. i + 1 = j + 1
        BY <2>1, <2>2
      <3> QED
        BY <3>1
    <2>4. \A i \in 1..(Len(s) - 1) : Tail(s)[i] # Head(s)
      BY <2>1, <2>2, <1>2
    <2> QED
      BY <2>3, <2>4, <1>2 DEF Range
  <1> QED
    BY <1>1, <1>3, <1>4

--------------------------------------------------------------------------------
(* The task table                                                            *)

TableInv == TableOK /\ TableConsistent

\* A placeholder is a task like any other.
LEMMA PlaceholderIsTask == Placeholder \in Task /\ Range(Placeholder.deps) = {}
  BY DepListsAssumption, PrioritiesAssumption DEF Placeholder, Task, Range

\* AddTask keeps the table well-typed and consistent.
LEMMA AddTaskKeepsTable ==
    ASSUME TableInv, NEW id \in TaskIDs, NEW task \in Task, AddTask(id, task)
    PROVE  TableInv'
  <1> DEFINE D == DOMAIN tasks \cup {id} \cup Range(task.deps)
  <1>1. /\ tasks \in Tables
        /\ DOMAIN tasks \subseteq TaskIDs
        /\ \A t \in DOMAIN tasks : tasks[t] \in Task
        /\ DOMAIN inDegree \subseteq TaskIDs
        /\ \A t \in DOMAIN inDegree : inDegree[t] \in Nat
    BY TablesMembership DEF TableInv, TableOK
  <1>2. task.deps \in Seq(TaskIDs)
    BY DepListsAssumption DEF Task
  <1>3. Range(task.deps) \subseteq TaskIDs
    BY <1>2, ElementOfSeq, LenProperties DEF Range
  <1>4. DOMAIN tasks' = D
    BY DEF AddTask, Registered
  <1>5. \A t \in D : tasks'[t] = IF t = id THEN task
                                 ELSE IF t \in DOMAIN tasks THEN tasks[t] ELSE Placeholder
    BY DEF AddTask, Registered
  <1>6. tasks' \in [D -> Task]
    <2>1. \A t \in D : tasks'[t] \in Task
      BY <1>1, <1>5, PlaceholderIsTask
    <2> QED
      BY <2>1 DEF AddTask, Registered
  <1>7. tasks' \in Tables
    BY <1>1, <1>3, <1>4, <1>6, TablesMembership
  <1>8. /\ DOMAIN inDegree' = DOMAIN inDegree \cup {id}
        /\ \A t \in DOMAIN inDegree' :
               inDegree'[t] = IF t = id THEN Len(task.deps) ELSE inDegree[t]
    BY DEF AddTask
  <1>9. inDegree' \in [DOMAIN inDegree' -> Nat]
    <2>1. Len(task.deps) \in Nat
      BY <1>2, LenProperties
    <2> QED
      BY <2>1, <1>1, <1>8 DEF AddTask
  <1>10. TableOK'
    BY <1>1, <1>7, <1>8, <1>9, BoundsAssumption DEF TableInv, TableOK, AddTask
  <1>11. TableConsistent'
    <2>1. DOMAIN inDegree' \subseteq DOMAIN tasks'
      BY <1>4, <1>8 DEF TableInv, TableConsistent
    <2>2. \A t \in DOMAIN inDegree' : inDegree'[t] = Len(tasks'[t].deps)
      BY <1>4, <1>5, <1>8 DEF TableInv, TableConsistent
    <2>3. \A t \in DOMAIN tasks' : Range(tasks'[t].deps) \subseteq DOMAIN tasks'
      BY <1>4, <1>5, PlaceholderIsTask DEF TableInv, TableConsistent
    <2>4. \A t \in DOMAIN tasks' \ DOMAIN inDegree' : ~tasks'[t].fn /\ tasks'[t].deps = <<>>
      BY <1>4, <1>5, <1>8 DEF TableInv, TableConsistent, Placeholder
    <2> QED
      BY <2>1, <2>2, <2>3, <2>4 DEF TableConsistent
  <1> QED
    BY <1>10, <1>11 DEF TableInv

\* The table stays consistent when Clear or AddTask write it, and when nothing does.
LEMMA TableKeeps ==
    ASSUME TableInv, Table \/ UNCHANGED tableVars
    PROVE  TableInv'
<1>1. ASSUME NEW id \in TaskIDs, NEW task \in Task, AddTask(id, task)
      PROVE  TableInv'
  BY <1>1, AddTaskKeepsTable
<1>2. CASE Clear
  <2>1. tasks' \in Tables /\ DOMAIN tasks' = {} /\ DOMAIN inDegree' = {}
    BY <1>2, TablesMembership, EmptyMap DEF Clear
  <2> QED
    BY <1>2, <2>1, EmptyMap, BoundsAssumption DEF Clear, TableInv, TableOK, TableConsistent
<1>3. CASE UNCHANGED tableVars
  BY <1>3 DEF tableVars, TableInv, TableOK, TableConsistent
<1> QED
  BY <1>1, <1>2, <1>3 DEF Table

LEMMA TableInit == Init => TableInv
<1> SUFFICES ASSUME Init
             PROVE  TableInv
  OBVIOUS
<1>1. tasks \in Tables /\ DOMAIN tasks = {}
  BY TablesMembership, EmptyMap DEF Init
<1> QED
  BY <1>1, EmptyMap, BoundsAssumption DEF Init, TableInv, TableOK, TableConsistent

--------------------------------------------------------------------------------
(* The Run in progress                                                       *)

\* The table a Run has read is closed under dependencies, and its degrees
\* belong to its tasks; a task without a degree is a placeholder.
PlanConsistent ==
    /\ plan \in Tables
    /\ DOMAIN deg \subseteq DOMAIN plan
    /\ deg \in [DOMAIN deg -> Nat]
    /\ \A t \in DOMAIN plan : Range(plan[t].deps) \subseteq DOMAIN plan
    /\ \A t \in DOMAIN plan \ DOMAIN deg : ~plan[t].fn

\* What was launched has a function and had its dependencies launched.
LaunchClosed ==
    \A t \in launched : t \in DOMAIN plan /\ plan[t].fn /\ Range(plan[t].deps) \subseteq launched

\* No two goroutines of a Run are for the same task.
LaunchedOnce ==
    \A i, j \in DOMAIN routines : routines[i].task = routines[j].task => i = j

\* DegreeAccounts alone is not inductive: that a degree goes through zero once
\* rests on what was launched being closed under dependencies, and on the table
\* Run copied being consistent.
RunInv ==
    /\ phase \in {"idle", "running", "returned"}
    /\ routines \in Seq(Routine)
    /\ PlanConsistent
    /\ LaunchClosed
    /\ LaunchedOnce
    /\ DegreeAccounts

\* The tasks that can be launched now: what either queue has to hold.
Ready == {t \in DOMAIN plan : Contract!Launchable(plan, launched, t)}

\* launched, read off the goroutines.
LEMMA LaunchedIs == launched = {routines[i].task : i \in DOMAIN routines}
  BY DEF launched, launchLog, Range

\* Launchable in the terms of this module.
LEMMA LaunchableIs ==
    ASSUME NEW p, NEW done, NEW t
    PROVE  Contract!Launchable(p, done, t)
             <=> t \in DOMAIN p /\ t \notin done /\ p[t].fn /\ Range(p[t].deps) \subseteq done
  BY DEF Contract!Launchable, Contract!Deps, Contract!Range, Range

\* DegreeAccounts in terms of Pending.
LEMMA DegreeIs ==
    DegreeAccounts <=> \A t \in DOMAIN deg : deg[t] = Cardinality(Pending(plan[t].deps, launched))
  BY DEF DegreeAccounts, Pending

\* A Run starts with the whole table ahead of it.
LEMMA SnapshotEstablishes ==
    ASSUME TableInv, Snapshot
    PROVE  /\ RunInv' /\ phase' = "running"
           /\ InitiallyReady = Ready' /\ IsFiniteSet(InitiallyReady) /\ InitiallyReady \subseteq TaskIDs
  <1>1. phase' = "running" /\ plan' = tasks /\ deg' = inDegree /\ routines' = <<>>
    BY DEF Snapshot
  <1>2. /\ tasks \in Tables
        /\ DOMAIN tasks \subseteq TaskIDs
        /\ DOMAIN inDegree \subseteq DOMAIN tasks
        /\ inDegree \in [DOMAIN inDegree -> Nat]
    BY TablesMembership DEF TableInv, TableOK, TableConsistent
  <1>3. InitiallyReady \subseteq TaskIDs
    BY <1>2 DEF InitiallyReady
  <1>4. IsFiniteSet(InitiallyReady)
    BY <1>3, TaskIDsAssumption, FS_Subset
  <1>7. routines' \in Seq(Routine) /\ DOMAIN routines' = {}
    BY <1>1, EmptySeq, EmptyMap
  <1>8. launched' = {}
    <2>1. launched' = {routines'[i].task : i \in DOMAIN routines'}
      BY DEF launched, launchLog, Range
    <2> QED
      BY <2>1, <1>7
  <1>9. PlanConsistent'
    BY <1>1, <1>2 DEF PlanConsistent, TableInv, TableConsistent
  <1>10. \A t \in DOMAIN inDegree :
            /\ inDegree[t] = Cardinality(Pending(tasks[t].deps, {}))
            /\ inDegree[t] = 0 <=> Range(tasks[t].deps) \subseteq {}
    <2> SUFFICES ASSUME NEW t \in DOMAIN inDegree
                 PROVE  /\ inDegree[t] = Cardinality(Pending(tasks[t].deps, {}))
                        /\ inDegree[t] = 0 <=> Range(tasks[t].deps) \subseteq {}
      OBVIOUS
    <2>1. tasks[t].deps \in Seq(TaskIDs)
      BY <1>2, DepsAreSequences
    <2>2. inDegree[t] = Len(tasks[t].deps) /\ Len(tasks[t].deps) \in Nat
          /\ DOMAIN tasks[t].deps = 1..Len(tasks[t].deps)
      BY <2>1, LenProperties DEF TableInv, TableConsistent
    <2>3. Pending(tasks[t].deps, {}) = 1..Len(tasks[t].deps)
      BY <2>2 DEF Pending
    <2>4. Cardinality(1..Len(tasks[t].deps)) = Len(tasks[t].deps)
      BY <2>2, FS_Interval
    <2> QED
      BY <2>1, <2>2, <2>3, <2>4, PendingNone
  <1>11. DegreeAccounts'
    <2>1. \A t \in DOMAIN deg' : deg'[t] = Cardinality(Pending(plan'[t].deps, launched'))
      BY <1>1, <1>8, <1>10
    <2> QED
      BY <2>1 DEF DegreeAccounts, Pending
  <1>12. InitiallyReady = Ready'
    <2>1. \A t \in DOMAIN tasks : t \in InitiallyReady
                                 <=> tasks[t].fn /\ Range(tasks[t].deps) \subseteq {}
      BY <1>10, <1>2 DEF InitiallyReady, TableInv, TableConsistent
    <2>2. InitiallyReady = {t \in DOMAIN tasks : Contract!Launchable(tasks, {}, t)}
      BY <2>1, <1>2, LaunchableIs DEF InitiallyReady
    <2>3. Ready' = {t \in DOMAIN plan' : Contract!Launchable(plan', launched', t)}
      BY DEF Ready
    <2> QED
      BY <2>2, <2>3, <1>1, <1>8
  <1>13. LaunchClosed' /\ LaunchedOnce'
    BY <1>7, <1>8 DEF LaunchClosed, LaunchedOnce
  <1> QED
    BY <1>1, <1>3, <1>4, <1>7, <1>9, <1>11, <1>12, <1>13 DEF RunInv

\* A new goroutine adds its task to launched.
LEMMA SpawnLaunches ==
    ASSUME RunInv, NEW id \in TaskIDs, Spawn(id)
    PROVE  /\ routines' \in Seq(Routine)
           /\ Len(routines') = Len(routines) + 1
           /\ \A i \in DOMAIN routines : routines'[i] = routines[i]
           /\ routines'[Len(routines) + 1] = [task |-> id, st |-> "spawned", err |-> FALSE]
           /\ DOMAIN routines = 1..Len(routines) /\ Len(routines) \in Nat
           /\ DOMAIN routines' = 1..(Len(routines) + 1)
           /\ launched' = launched \cup {id}
  <1> DEFINE r == [task |-> id, st |-> "spawned", err |-> FALSE]
  <1>1. r \in Routine
    BY DEF Routine
  <1>2. routines' = Append(routines, r) /\ routines \in Seq(Routine)
    BY DEF Spawn, RunInv
  <1>3. /\ routines' \in Seq(Routine)
        /\ Len(routines') = Len(routines) + 1
        /\ \A i \in 1..Len(routines) : routines'[i] = routines[i]
        /\ routines'[Len(routines) + 1] = r
    BY <1>1, <1>2, AppendProperties
  <1>4. /\ DOMAIN routines = 1..Len(routines) /\ Len(routines) \in Nat
        /\ DOMAIN routines' = 1..(Len(routines) + 1)
    BY <1>2, <1>3, LenProperties
  <1>5. r.task = id
    OBVIOUS
  <1>6. launched' = {routines'[i].task : i \in DOMAIN routines'}
    BY DEF launched, launchLog, Range
  <1>7. launched' \subseteq launched \cup {id}
    <2> SUFFICES ASSUME NEW i \in 1..(Len(routines) + 1)
                 PROVE  routines'[i].task \in launched \cup {id}
      BY <1>4, <1>6
    <2>1. CASE i = Len(routines) + 1
      BY <2>1, <1>3, <1>5
    <2>2. CASE i # Len(routines) + 1
      <3>1. i \in DOMAIN routines
        BY <2>2, <1>4
      <3> QED
        BY <3>1, <1>3, <1>4, LaunchedIs
    <2> QED
      BY <2>1, <2>2
  <1>8. launched \cup {id} \subseteq launched'
    <2>1. id \in launched'
      <3>1. Len(routines) + 1 \in DOMAIN routines'
        BY <1>4
      <3> QED
        BY <3>1, <1>3, <1>5, <1>6
    <2>2. \A i \in DOMAIN routines : routines[i].task \in launched'
      <3>1. \A i \in DOMAIN routines : i \in DOMAIN routines' /\ routines'[i] = routines[i]
        BY <1>3, <1>4
      <3> QED
        BY <3>1, <1>6
    <2> QED
      BY <2>1, <2>2, LaunchedIs
  <1> QED
    BY <1>3, <1>4, <1>7, <1>8

\* One turn of the loop: a task that can be launched is, and can be no more; the
\* tasks it was the last unmet dependency of can be launched now.
LEMMA SpawnKeeps ==
    ASSUME RunInv, NEW id, Spawn(id), Contract!Launchable(plan, launched, id)
    PROVE  /\ RunInv' /\ launched' = launched \cup {id}
           /\ id \in TaskIDs /\ id \in Ready /\ plan' = plan /\ phase = "running" /\ phase' = phase
           /\ NewlyReady(id) \subseteq TaskIDs /\ IsFiniteSet(NewlyReady(id))
           /\ NewlyReady(id) \cap Ready = {}
           /\ Ready' = (Ready \ {id}) \cup NewlyReady(id)
  <1> DEFINE new == NewlyReady(id)
  <1>1. phase = "running" /\ phase' = phase /\ Spawn(id) /\ id \in TaskIDs
    <2>1. id \in DOMAIN plan /\ DOMAIN plan \subseteq TaskIDs
      BY LaunchableIs, TablesMembership DEF RunInv, PlanConsistent
    <2> QED
      BY <2>1 DEF Spawn
  <1>3. \A t : t \in Ready
              <=> t \in DOMAIN plan /\ t \notin launched /\ plan[t].fn
                  /\ Range(plan[t].deps) \subseteq launched
    BY LaunchableIs DEF Ready
  <1>4. /\ id \in DOMAIN plan /\ id \notin launched /\ plan[id].fn
        /\ Range(plan[id].deps) \subseteq launched
    BY LaunchableIs
  <1>5. PlanConsistent /\ plan \in Tables /\ UNCHANGED <<plan, phase>>
    BY <1>1 DEF RunInv, PlanConsistent, Spawn
  <1>6. launched' = launched \cup {id}
    BY <1>1, SpawnLaunches
  <1>7. /\ DOMAIN deg' = DOMAIN deg
        /\ \A t \in DOMAIN deg : deg'[t] = deg[t] - Slots(plan, t, id)
    BY <1>1 DEF Spawn, Decremented
  <1>8. \A t \in DOMAIN deg :
           /\ deg[t] = Cardinality(Pending(plan[t].deps, launched)) /\ deg[t] \in Nat
           /\ Slots(plan, t, id) \in Nat
           /\ deg'[t] = Cardinality(Pending(plan[t].deps, launched')) /\ deg'[t] \in Nat
           /\ deg[t] = 0 <=> Range(plan[t].deps) \subseteq launched
           /\ deg'[t] = 0 <=> Range(plan[t].deps) \subseteq launched'
    <2> SUFFICES ASSUME NEW t \in DOMAIN deg
                 PROVE  /\ deg[t] = Cardinality(Pending(plan[t].deps, launched)) /\ deg[t] \in Nat
                        /\ Slots(plan, t, id) \in Nat
                        /\ deg'[t] = Cardinality(Pending(plan[t].deps, launched')) /\ deg'[t] \in Nat
                        /\ deg[t] = 0 <=> Range(plan[t].deps) \subseteq launched
                        /\ deg'[t] = 0 <=> Range(plan[t].deps) \subseteq launched'
      OBVIOUS
    <2>1. plan[t].deps \in Seq(TaskIDs)
      BY <1>5, DepsAreSequences DEF PlanConsistent
    <2>2. deg[t] = Cardinality(Pending(plan[t].deps, launched))
      BY DegreeIs DEF RunInv
    <2>3. Slots(plan, t, id) = Cardinality(Edges(plan[t].deps, id))
      BY DEF Slots, Edges
    <2>4. /\ Slots(plan, t, id) \in Nat
          /\ Cardinality(Pending(plan[t].deps, launched')) = deg[t] - Slots(plan, t, id)
      <3>1. /\ Cardinality(Edges(plan[t].deps, id)) \in Nat
            /\ Cardinality(Pending(plan[t].deps, launched \cup {id}))
                 = Cardinality(Pending(plan[t].deps, launched))
                   - Cardinality(Edges(plan[t].deps, id))
        BY <2>1, <1>4, PendingCount
      <3> QED
        BY <3>1, <2>2, <2>3, <1>6
    <2>5. deg'[t] = Cardinality(Pending(plan[t].deps, launched'))
      BY <2>4, <1>7
    <2> QED
      BY <2>1, <2>2, <2>4, <2>5, PendingNone
  <1>9. PlanConsistent' /\ DegreeAccounts'
    <2>1. deg' \in [DOMAIN deg' -> Nat]
      BY <1>1, <1>7, <1>8 DEF Spawn, Decremented
    <2>2. PlanConsistent'
      BY <2>1, <1>5, <1>7 DEF PlanConsistent
    <2>3. DegreeAccounts'
      BY <1>5, <1>7, <1>8 DEF DegreeAccounts, Pending
    <2> QED
      BY <2>2, <2>3
  <1>10. \A t : t \in new <=> t \in DOMAIN deg /\ plan[t].fn /\ deg[t] # 0 /\ deg'[t] = 0
    BY <1>7, <1>8 DEF NewlyReady
  <1>11. new \subseteq TaskIDs /\ IsFiniteSet(new)
    <2>1. new \subseteq TaskIDs
      BY <1>5, <1>10, TablesMembership DEF PlanConsistent
    <2> QED
      BY <2>1, TaskIDsAssumption, FS_Subset
  <1> HIDE DEF new
  <1>12. LaunchClosed'
    BY <1>4, <1>5, <1>6 DEF LaunchClosed, RunInv
  <1>13. new \cap Ready = {}
    BY <1>3, <1>8, <1>10
  <1>14. LaunchedOnce' /\ routines' \in Seq(Routine)
    <2>1. /\ routines' \in Seq(Routine)
          /\ \A i \in DOMAIN routines : routines'[i] = routines[i]
          /\ routines'[Len(routines) + 1].task = id
          /\ DOMAIN routines = 1..Len(routines) /\ Len(routines) \in Nat
          /\ DOMAIN routines' = 1..(Len(routines) + 1)
      <3> DEFINE r == [task |-> id, st |-> "spawned", err |-> FALSE]
      <3>1. r.task = id
        OBVIOUS
      <3> HIDE DEF r
      <3>2. /\ routines' \in Seq(Routine)
            /\ \A i \in DOMAIN routines : routines'[i] = routines[i]
            /\ routines'[Len(routines) + 1] = r
            /\ DOMAIN routines = 1..Len(routines) /\ Len(routines) \in Nat
            /\ DOMAIN routines' = 1..(Len(routines) + 1)
        BY <1>1, SpawnLaunches DEF r
      <3> QED
        BY <3>1, <3>2
    <2>2. \A i \in DOMAIN routines : routines[i].task # id
      BY <1>4, LaunchedIs
    <2>3. \A i \in DOMAIN routines' : i = Len(routines) + 1 \/ i \in DOMAIN routines
      BY <2>1
    <2> QED
      BY <2>1, <2>2, <2>3 DEF LaunchedOnce, RunInv
  <1>15. Ready' = {t \in DOMAIN plan' : Contract!Launchable(plan', launched', t)}
    BY DEF Ready
  <1>16. Ready' \subseteq (Ready \ {id}) \cup new
    <2> SUFFICES ASSUME NEW t \in Ready' PROVE t \in (Ready \ {id}) \cup new
      OBVIOUS
    <2>1. /\ t \in DOMAIN plan /\ t \notin launched' /\ plan[t].fn
          /\ Range(plan[t].deps) \subseteq launched'
      BY <1>5, <1>15, LaunchableIs
    <2>2. t \in DOMAIN deg
      BY <2>1, <1>5 DEF PlanConsistent
    <2>3. CASE Range(plan[t].deps) \subseteq launched
      BY <2>3, <2>1, <1>3, <1>6
    <2>4. CASE ~(Range(plan[t].deps) \subseteq launched)
      <3>1. deg[t] # 0 /\ deg'[t] = 0
        BY <2>1, <2>2, <2>4, <1>8
      <3> QED
        BY <3>1, <2>1, <2>2, <1>10
    <2> QED
      BY <2>3, <2>4
  <1>17. (Ready \ {id}) \cup new \subseteq Ready'
    <2> SUFFICES ASSUME NEW t \in (Ready \ {id}) \cup new PROVE t \in Ready'
      OBVIOUS
    <2>1. /\ t \in DOMAIN plan /\ t \notin launched' /\ plan[t].fn
          /\ Range(plan[t].deps) \subseteq launched'
      <3>1. CASE t \in Ready \ {id}
        BY <3>1, <1>3, <1>6
      <3>2. CASE t \in new
        <4>1. t \in DOMAIN deg /\ t \in DOMAIN plan /\ plan[t].fn /\ deg[t] # 0 /\ deg'[t] = 0
          BY <3>2, <1>5, <1>10 DEF PlanConsistent
        <4>2. t \notin launched
          BY <4>1, <1>8 DEF LaunchClosed, RunInv
        <4>3. t # id
          BY <4>1, <1>4, <1>8
        <4> QED
          BY <4>1, <4>2, <4>3, <1>6, <1>8
      <3> QED
        BY <3>1, <3>2
    <2> QED
      BY <2>1, <1>5, <1>15, LaunchableIs
  <1>18. RunInv'
    BY <1>1, <1>5, <1>9, <1>12, <1>14 DEF RunInv
  <1> QED
    BY <1>1, <1>3, <1>4, <1>5, <1>6, <1>11, <1>13, <1>16, <1>17, <1>18 DEF new

\* What a goroutine's step may do: move on, or get an error, never change task.
Advance(i) ==
    /\ i \in DOMAIN routines
    /\ DOMAIN routines' = DOMAIN routines
    /\ \A j \in DOMAIN routines : j # i => routines'[j] = routines[j]
    /\ routines'[i].task = routines[i].task
    /\ UNCHANGED <<tableVars, runs, phase, plan, deg, queue, result>>

LEMMA GoroutineAdvances ==
    ASSUME RunInv, NEW i \in DOMAIN routines,
           FnStart(i) \/ FnOk(i) \/ FnFail(i) \/ SendErr(i)
    PROVE  /\ Advance(i)
           /\ routines \in Seq(Routine) /\ routines' \in Seq(Routine)
           /\ Len(routines') = Len(routines)
           /\ FnStart(i) => routines'[i].st = "running" /\ routines'[i].err = routines[i].err
           /\ FnFail(i) => routines'[i].st = "sending" /\ routines'[i].err = TRUE
           /\ FnOk(i) \/ SendErr(i) => routines'[i].st = "done" /\ routines'[i].err = routines[i].err
  <1>1. routines \in Seq(Routine) /\ DOMAIN routines = 1..Len(routines) /\ routines[i] \in Routine
    BY LenProperties, ElementOfSeq DEF RunInv
  <1>2. PICK r \in Routine :
           /\ routines' = [routines EXCEPT ![i] = r]
           /\ r.task = routines[i].task
           /\ FnStart(i) => r.st = "running" /\ r.err = routines[i].err
           /\ FnFail(i) => r.st = "sending" /\ r.err = TRUE
           /\ FnOk(i) \/ SendErr(i) => r.st = "done" /\ r.err = routines[i].err
    <2>1. CASE FnStart(i)
      <3> DEFINE r == [routines[i] EXCEPT !.st = "running"]
      <3>1. r \in Routine /\ r.task = routines[i].task /\ r.st = "running" /\ r.err = routines[i].err
        BY <1>1 DEF Routine
      <3>2. routines' = [routines EXCEPT ![i] = r] /\ ~FnFail(i) /\ ~FnOk(i) /\ ~SendErr(i)
        BY <2>1 DEF FnStart, FnFail, FnOk, SendErr
      <3> QED
        BY <3>1, <3>2
    <2>2. CASE FnFail(i)
      <3> DEFINE r == [routines[i] EXCEPT !.st = "sending", !.err = TRUE]
      <3>1. r \in Routine /\ r.task = routines[i].task /\ r.st = "sending" /\ r.err = TRUE
        BY <1>1 DEF Routine
      <3>2. routines' = [routines EXCEPT ![i] = r] /\ ~FnStart(i) /\ ~SendErr(i)
        BY <2>2 DEF FnStart, FnFail, SendErr
      <3>3. ~FnOk(i)
        <4> SUFFICES ASSUME FnOk(i)
                     PROVE  FALSE
          OBVIOUS
        <4>1. wg' = wg /\ wg' = wg - 1 /\ routines'[i].st = "done"
          BY <1>1, <2>2 DEF FnOk, FnFail
        <4>2. routines'[i] = r
          BY <3>2, <1>1
        <4> QED
          BY <4>1, <4>2, <3>1
      <3> QED
        BY <3>1, <3>2, <3>3
    <2>3. CASE FnOk(i) \/ SendErr(i)
      <3> DEFINE r == [routines[i] EXCEPT !.st = "done"]
      <3>1. r \in Routine /\ r.task = routines[i].task /\ r.st = "done" /\ r.err = routines[i].err
        BY <1>1 DEF Routine
      <3>2. routines' = [routines EXCEPT ![i] = r] /\ ~FnStart(i)
        BY <2>3 DEF FnStart, FnOk, SendErr
      <3>3. ~FnFail(i)
        <4>1. routines'[i] = r
          BY <3>2, <1>1
        <4>2. FnFail(i) => routines'[i].st = "sending"
          BY <1>1 DEF FnFail, Routine
        <4> QED
          BY <4>1, <4>2, <3>1
      <3> QED
        BY <3>1, <3>2, <3>3
    <2> QED
      BY <2>1, <2>2, <2>3
  <1>3. /\ routines' \in Seq(Routine) /\ Len(routines') = Len(routines)
        /\ \A j \in 1..Len(routines) : routines'[j] = IF j = i THEN r ELSE routines[j]
    BY <1>1, <1>2, ExceptSeq
  <1>4. DOMAIN routines' = DOMAIN routines
    BY <1>1, <1>3, LenProperties
  <1>5. UNCHANGED <<tableVars, runs, phase, plan, deg, queue, result>>
    BY DEF FnStart, FnOk, FnFail, SendErr
  <1> QED
    BY <1>1, <1>2, <1>3, <1>4, <1>5 DEF Advance

\* The dispatch loop does not see goroutines move on.
LEMMA AdvanceKeepsRun ==
    ASSUME RunInv, routines' \in Seq(Routine), NEW i \in DOMAIN routines, Advance(i)
    PROVE  RunInv' /\ launched' = launched /\ Ready' = Ready /\ phase' = phase
  <1>1. \A j \in DOMAIN routines : routines'[j].task = routines[j].task
    BY DEF Advance
  <1>2. launched' = launched
    <2>1. launched' = {routines'[j].task : j \in DOMAIN routines'}
      BY DEF launched, launchLog, Range
    <2> QED
      BY <1>1, <2>1, LaunchedIs DEF Advance
  <1>3. UNCHANGED <<phase, plan, deg, queue>> /\ DOMAIN routines' = DOMAIN routines
    BY DEF Advance
  <1>4. LaunchedOnce'
    BY <1>1, <1>3 DEF LaunchedOnce, RunInv
  <1>5. LaunchClosed' /\ DegreeAccounts' /\ PlanConsistent' /\ Ready' = Ready
    BY <1>2, <1>3 DEF LaunchClosed, DegreeAccounts, PlanConsistent, Ready, RunInv,
                      Contract!Launchable, Contract!Deps, Contract!Range
  <1> QED
    BY <1>2, <1>3, <1>4, <1>5 DEF RunInv

\* What does not touch the Run in progress, or only ends it.
LEMMA RestKeepsRun ==
    ASSUME RunInv, UNCHANGED <<plan, deg, routines>>, phase' \in {"idle", "running", "returned"}
    PROVE  RunInv' /\ launched' = launched /\ Ready' = Ready
<1>1. launched' = launched
  BY DEF launched, launchLog
<1>2. Ready' = Ready
  BY <1>1 DEF Ready, Contract!Launchable, Contract!Deps, Contract!Range
<1> QED
  BY <1>1, <1>2 DEF RunInv, PlanConsistent, LaunchClosed, LaunchedOnce, DegreeAccounts

LEMMA RunInit == Init => RunInv
<1> SUFFICES ASSUME Init
             PROVE  RunInv
  OBVIOUS
<1>1. /\ plan \in Tables /\ DOMAIN plan = {} /\ DOMAIN deg = {} /\ DOMAIN routines = {}
      /\ deg \in [DOMAIN deg -> Nat] /\ routines \in Seq(Routine)
  BY EmptyMap, EmptySeq, TablesMembership DEF Init
<1>2. launched = {}
  BY <1>1, LaunchedIs
<1> QED
  BY <1>1, <1>2 DEF Init, RunInv, PlanConsistent, LaunchClosed, LaunchedOnce, DegreeAccounts

--------------------------------------------------------------------------------
(* The WaitGroup and the error channel                                       *)

\* The goroutines that are not over, and those that are over with an error.
Live == {i \in DOMAIN routines : routines[i].st # "done"}

Reported == {i \in DOMAIN routines : routines[i].st = "done" /\ routines[i].err}

\* wg counts Live and errCh holds an error of each goroutine of Reported; a
\* goroutine has an error from when it is about to send it.
ReportInv ==
    /\ runs \in 0..MaxRuns
    /\ result \in TaskIDs \cup {NoError}
    /\ errCh \in Seq(TaskIDs)
    /\ wg = Cardinality(Live)
    /\ phase # "running" => Live = {}
    /\ \A i \in DOMAIN routines :
           /\ routines[i].st \in {"spawned", "running"} => ~routines[i].err
           /\ routines[i].st = "sending" => routines[i].err
    /\ Len(errCh) = Cardinality(Reported)
    /\ \A i \in Reported : routines[i].task \in Range(errCh)
    /\ Range(errCh) \subseteq failed

\* The goroutines of a Run are finitely many.
LEMMA GoroutinesFinite ==
    ASSUME routines \in Seq(Routine)
    PROVE  /\ IsFiniteSet(DOMAIN routines)
           /\ IsFiniteSet(Live) /\ IsFiniteSet(Reported)
           /\ Cardinality(DOMAIN routines) = Len(routines)
           /\ Cardinality(Live) \in Nat /\ Cardinality(Reported) \in Nat
  <1>1. DOMAIN routines = 1..Len(routines) /\ Len(routines) \in Nat
    BY LenProperties
  <1>2. IsFiniteSet(DOMAIN routines) /\ Cardinality(DOMAIN routines) = Len(routines)
    BY <1>1, FS_Interval
  <1>3. Live \subseteq DOMAIN routines /\ Reported \subseteq DOMAIN routines
    BY DEF Live, Reported
  <1> QED
    BY <1>2, <1>3, FS_Subset, FS_CardinalityType

\* Starting a Run: no goroutine, an empty channel.
LEMMA SnapshotKeepsReport ==
    ASSUME ReportInv, Snapshot
    PROVE  ReportInv'
  <1>1. /\ phase' = "running" /\ runs' = runs + 1 /\ runs < MaxRuns
        /\ routines' = <<>> /\ wg' = 0 /\ errCh' = <<>> /\ result' = result
    BY DEF Snapshot
  <1>2. DOMAIN routines' = {} /\ errCh' \in Seq(TaskIDs) /\ Len(errCh') = 0 /\ Range(errCh') = {}
    BY <1>1, EmptyMap, EmptySeq DEF Range
  <1>3. Live' = {} /\ Reported' = {}
    BY <1>2 DEF Live, Reported
  <1>4. Cardinality(Live') = 0 /\ Cardinality(Reported') = 0
    BY <1>3, FS_EmptySet
  <1> QED
    BY <1>1, <1>2, <1>3, <1>4, BoundsAssumption DEF ReportInv

\* Spawning: wg.Add for one more live goroutine.
LEMMA SpawnKeepsReport ==
    ASSUME RunInv, ReportInv, NEW id \in TaskIDs, Spawn(id)
    PROVE  ReportInv' /\ finished' = finished /\ failed' = failed
  <1>1. phase = "running" /\ Spawn(id)
    BY DEF Spawn
  <1> DEFINE n == Len(routines) + 1
             r == [task |-> id, st |-> "spawned", err |-> FALSE]
  <1>2. /\ \A i \in DOMAIN routines : routines'[i] = routines[i]
        /\ routines'[n] = r
        /\ DOMAIN routines = 1..Len(routines) /\ Len(routines) \in Nat
        /\ DOMAIN routines' = 1..n
    BY <1>1, SpawnLaunches
  <1>3. r.st = "spawned" /\ r.err = FALSE
    OBVIOUS
  <1> HIDE DEF r
  <1>4. /\ DOMAIN routines' = DOMAIN routines \cup {n} /\ n \notin DOMAIN routines
        /\ routines'[n].st = "spawned" /\ ~routines'[n].err
    BY <1>2, <1>3
  <1> HIDE DEF n
  <1>5. Live' = Live \cup {n} /\ n \notin Live
    BY <1>2, <1>4 DEF Live
  <1>6. Reported' = Reported
    BY <1>2, <1>4 DEF Reported
  <1>7. Cardinality(Live') = Cardinality(Live) + 1
    BY <1>5, GoroutinesFinite, FS_AddElement DEF RunInv
  <1>8. failed' = failed /\ finished' = finished
    BY <1>2, <1>4 DEF failed, finished
  <1>9. UNCHANGED <<runs, phase, errCh, result>> /\ wg' = wg + 1
    BY <1>1 DEF Spawn
  <1>10. \A i \in DOMAIN routines' :
            /\ routines'[i].st \in {"spawned", "running"} => ~routines'[i].err
            /\ routines'[i].st = "sending" => routines'[i].err
    BY <1>2, <1>4 DEF ReportInv
  <1>11. \A i \in Reported' : routines'[i].task \in Range(errCh')
    BY <1>2, <1>6, <1>9 DEF ReportInv, Reported
  <1> QED
    BY <1>1, <1>6, <1>7, <1>8, <1>9, <1>10, <1>11 DEF ReportInv

\* Goroutine steps: wg.Done takes a goroutine off Live, a send puts its error
\* in the channel before that.
LEMMA GoroutineKeepsReport ==
    ASSUME RunInv, ReportInv, NEW i \in DOMAIN routines,
           FnStart(i) \/ FnOk(i) \/ FnFail(i) \/ SendErr(i)
    PROVE  ReportInv'
  <1>1. /\ Advance(i) /\ routines \in Seq(Routine) /\ routines' \in Seq(Routine)
        /\ FnStart(i) => routines'[i].st = "running" /\ routines'[i].err = routines[i].err
        /\ FnFail(i) => routines'[i].st = "sending" /\ routines'[i].err = TRUE
        /\ FnOk(i) \/ SendErr(i) => routines'[i].st = "done" /\ routines'[i].err = routines[i].err
    BY GoroutineAdvances
  <1>2. /\ DOMAIN routines' = DOMAIN routines /\ i \in DOMAIN routines'
        /\ \A j \in DOMAIN routines : j # i => routines'[j] = routines[j]
        /\ \A j \in DOMAIN routines : routines'[j].task = routines[j].task
        /\ UNCHANGED <<runs, phase, result>>
    BY <1>1 DEF Advance
  <1>3. routines[i] \in Routine /\ routines[i].task \in TaskIDs /\ routines[i].err \in BOOLEAN
    <2>1. routines[i] \in Routine
      BY <1>1, LenProperties, ElementOfSeq
    <2> QED
      BY <2>1 DEF Routine
  <1>4. routines[i].st # "done"
    BY DEF FnStart, FnOk, FnFail, SendErr
  <1>5. i \in Live /\ phase = "running"
    BY <1>4 DEF Live, ReportInv
  <1>6. CASE FnStart(i)
    <2>1. /\ routines'[i].st = "running" /\ routines[i].st = "spawned"
          /\ ~routines'[i].err /\ ~routines[i].err
          /\ UNCHANGED <<wg, errCh>>
      BY <1>1, <1>6 DEF FnStart, ReportInv
    <2>2. Live' = Live /\ Reported' = Reported
      BY <1>2, <1>4, <2>1 DEF Live, Reported
    <2>3. failed' = failed
      BY <1>2, <2>1 DEF failed
    <2>4. \A j \in DOMAIN routines' :
            /\ routines'[j].st \in {"spawned", "running"} => ~routines'[j].err
            /\ routines'[j].st = "sending" => routines'[j].err
      BY <1>2, <2>1 DEF ReportInv
    <2>5. \A j \in Reported' : routines'[j].task \in Range(errCh')
      BY <1>2, <2>1, <2>2 DEF ReportInv, Reported
    <2>6. Len(errCh') = Cardinality(Reported') /\ wg' = Cardinality(Live')
      BY <2>1, <2>2 DEF ReportInv
    <2> QED
      BY <1>2, <1>5, <2>1, <2>3, <2>4, <2>5, <2>6 DEF ReportInv
  <1>7. CASE FnFail(i)
    <2>1. /\ routines'[i].st = "sending" /\ routines'[i].err
          /\ UNCHANGED <<wg, errCh>>
      BY <1>1, <1>7 DEF FnFail
    <2>2. Live' = Live /\ Reported' = Reported
      BY <1>2, <1>4, <2>1 DEF Live, Reported
    <2>3. failed \subseteq failed'
      BY <1>2, <2>1 DEF failed
    <2>4. \A j \in DOMAIN routines' :
            /\ routines'[j].st \in {"spawned", "running"} => ~routines'[j].err
            /\ routines'[j].st = "sending" => routines'[j].err
      BY <1>2, <2>1 DEF ReportInv
    <2>5. \A j \in Reported' : routines'[j].task \in Range(errCh')
      BY <1>2, <2>1, <2>2 DEF ReportInv, Reported
    <2>6. Len(errCh') = Cardinality(Reported') /\ wg' = Cardinality(Live')
      BY <2>1, <2>2 DEF ReportInv
    <2> QED
      BY <1>2, <1>5, <2>1, <2>3, <2>4, <2>5, <2>6 DEF ReportInv
  <1>8. CASE FnOk(i)
    <2>1. /\ routines'[i].st = "done" /\ routines[i].st = "running"
          /\ ~routines'[i].err /\ ~routines[i].err
          /\ errCh' = errCh /\ wg' = wg - 1
      BY <1>1, <1>8 DEF FnOk, ReportInv
    <2>2. Live' = Live \ {i} /\ Reported' = Reported
      BY <1>2, <1>4, <2>1 DEF Live, Reported
    <2>3. failed' = failed
      BY <1>2, <2>1 DEF failed
    <2>4. Cardinality(Live') = Cardinality(Live) - 1
      BY <1>1, <1>5, <2>2, GoroutinesFinite, FS_RemoveElement
    <2>5. \A j \in DOMAIN routines' :
            /\ routines'[j].st \in {"spawned", "running"} => ~routines'[j].err
            /\ routines'[j].st = "sending" => routines'[j].err
      BY <1>2, <2>1 DEF ReportInv
    <2>6. \A j \in Reported' : routines'[j].task \in Range(errCh')
      BY <1>2, <2>1, <2>2 DEF ReportInv, Reported
    <2>7. Len(errCh') = Cardinality(Reported') /\ wg' = Cardinality(Live')
      BY <2>1, <2>2, <2>4 DEF ReportInv
    <2> QED
      BY <1>2, <1>5, <2>1, <2>3, <2>5, <2>6, <2>7 DEF ReportInv
  <1>9. CASE SendErr(i)
    <2>1. /\ routines'[i].st = "done" /\ routines[i].st = "sending"
          /\ routines'[i].err /\ routines[i].err
          /\ errCh' = Append(errCh, routines[i].task) /\ wg' = wg - 1
      BY <1>1, <1>9 DEF SendErr, ReportInv
    <2>2. Live' = Live \ {i} /\ Reported' = Reported \cup {i} /\ i \notin Reported
      BY <1>2, <1>4, <2>1 DEF Live, Reported
    <2>3. failed' = failed
      BY <1>2, <2>1 DEF failed
    <2>4. /\ Cardinality(Live') = Cardinality(Live) - 1
          /\ Cardinality(Reported') = Cardinality(Reported) + 1
      BY <1>1, <1>5, <2>2, GoroutinesFinite, FS_RemoveElement, FS_AddElement
    <2>5. /\ errCh \in Seq(TaskIDs) /\ errCh' \in Seq(TaskIDs)
          /\ Len(errCh) \in Nat /\ Len(errCh') = Len(errCh) + 1
          /\ \A k \in 1..Len(errCh) : errCh'[k] = errCh[k]
          /\ errCh'[Len(errCh) + 1] = routines[i].task
          /\ DOMAIN errCh = 1..Len(errCh) /\ DOMAIN errCh' = 1..(Len(errCh) + 1)
      <3>1. errCh \in Seq(TaskIDs)
        BY DEF ReportInv
      <3>2. /\ errCh' \in Seq(TaskIDs) /\ Len(errCh') = Len(errCh) + 1
            /\ \A k \in 1..Len(errCh) : errCh'[k] = errCh[k]
            /\ errCh'[Len(errCh) + 1] = routines[i].task
        BY <3>1, <2>1, <1>3, AppendProperties
      <3> QED
        BY <3>1, <3>2, LenProperties
    <2>6. Range(errCh') = Range(errCh) \cup {routines[i].task}
      <3>1. \A k \in DOMAIN errCh' : k \in DOMAIN errCh \/ k = Len(errCh) + 1
        BY <2>5
      <3>2. \A k \in DOMAIN errCh : k \in DOMAIN errCh'
        BY <2>5
      <3>3. Len(errCh) + 1 \in DOMAIN errCh'
        BY <2>5
      <3> QED
        BY <2>5, <3>1, <3>2, <3>3 DEF Range
    <2>7. routines[i].task \in failed
      BY <2>1 DEF failed
    <2>8. \A j \in Reported' : routines'[j].task \in Range(errCh')
      BY <1>2, <2>2, <2>6 DEF ReportInv, Reported
    <2>9. \A j \in DOMAIN routines' :
            /\ routines'[j].st \in {"spawned", "running"} => ~routines'[j].err
            /\ routines'[j].st = "sending" => routines'[j].err
      BY <1>2, <2>1 DEF ReportInv
    <2>10. /\ Range(errCh') \subseteq failed' /\ wg' = Cardinality(Live')
           /\ Len(errCh') = Cardinality(Reported')
      BY <2>1, <2>3, <2>4, <2>5, <2>6, <2>7 DEF ReportInv
    <2> QED
      BY <1>2, <1>5, <2>5, <2>8, <2>9, <2>10 DEF ReportInv
  <1> QED
    BY <1>6, <1>7, <1>8, <1>9

\* Returning: no goroutine is live, and the result is an error of the channel.
LEMMA RunReturnKeepsReport ==
    ASSUME RunInv, ReportInv, RunReturn
    PROVE  /\ ReportInv' /\ Live = {}
           /\ launched = finished
           /\ IF failed = {} THEN result' = NoError ELSE result' \in failed
  <1>1. /\ wg = 0 /\ phase = "running" /\ phase' = "returned" /\ result' = FirstErr
        /\ UNCHANGED <<runs, routines, wg, errCh>>
    BY DEF RunReturn, AllDone
  <1>2. Live = {}
    BY <1>1, GoroutinesFinite, FS_EmptySet DEF ReportInv, RunInv
  <1>3. launched = finished
    BY <1>2, LaunchedIs DEF Live, finished
  <1>4. CASE errCh = <<>>
    <2>1. Range(errCh) = {}
      BY <1>4, EmptyMap DEF Range
    <2>2. failed = {}
      BY <1>2, <2>1 DEF ReportInv, Reported, Live, failed
    <2> QED
      BY <1>1, <1>2, <1>3, <1>4, <2>2 DEF FirstErr, ReportInv, Live, Reported, failed
  <1>5. CASE errCh # <<>>
    <2>1. Head(errCh) \in TaskIDs /\ Head(errCh) \in Range(errCh)
      BY <1>5, TailRange DEF ReportInv
    <2>2. result' = Head(errCh) /\ result' \in failed
      BY <1>1, <1>5, <2>1 DEF FirstErr, ReportInv
    <2> QED
      BY <1>1, <1>2, <1>3, <2>1, <2>2 DEF ReportInv, Live, Reported, failed
  <1> QED
    BY <1>4, <1>5

LEMMA ReportInit == Init => ReportInv
<1> SUFFICES ASSUME Init
             PROVE  ReportInv
  OBVIOUS
<1>1. DOMAIN routines = {} /\ errCh \in Seq(TaskIDs) /\ Len(errCh) = 0 /\ Range(errCh) = {}
  BY EmptyMap, EmptySeq DEF Init, Range
<1>2. Live = {} /\ Reported = {}
  BY <1>1 DEF Live, Reported
<1>3. Cardinality(Live) = 0 /\ Cardinality(Reported) = 0
  BY <1>2, FS_EmptySet
<1> QED
  BY <1>1, <1>2, <1>3, BoundsAssumption DEF Init, ReportInv

LEMMA RestKeepsReport ==
    ASSUME ReportInv, UNCHANGED <<runs, phase, routines, wg, errCh, result>>
    PROVE  ReportInv'
  BY DEF ReportInv, Live, Reported, failed

\* A goroutine about to send an error always finds room: there are at most as
\* many goroutines as tasks, and it has not sent its own.
LEMMA ErrorsFit ==
    ASSUME RunInv, ReportInv
    PROVE  SendNeverBlocks
<1> SUFFICES ASSUME NEW i \in DOMAIN routines, routines[i].st = "sending"
             PROVE  Len(errCh) < ErrCap
  BY DEF SendNeverBlocks
<1>1. Reported \subseteq DOMAIN routines \ {i}
  BY DEF Reported
<1>2. /\ IsFiniteSet(DOMAIN routines) /\ Cardinality(DOMAIN routines) \in Nat
      /\ IsFiniteSet(DOMAIN routines \ {i})
      /\ Cardinality(DOMAIN routines \ {i}) = Cardinality(DOMAIN routines) - 1
  BY GoroutinesFinite, FS_CardinalityType, FS_RemoveElement DEF RunInv
<1>3. Cardinality(Reported) <= Cardinality(DOMAIN routines) - 1
  BY <1>1, <1>2, FS_Subset
<1>4. Cardinality(DOMAIN routines) <= Cardinality(DOMAIN plan)
  <2>1. DOMAIN plan \subseteq TaskIDs
    BY TablesMembership DEF RunInv, PlanConsistent
  <2>2. IsFiniteSet(DOMAIN plan)
    BY <2>1, TaskIDsAssumption, FS_Subset
  <2>3. \A j \in DOMAIN routines : routines[j].task \in DOMAIN plan
    BY LaunchedIs DEF RunInv, LaunchClosed
  <2>4. launchLog \in [DOMAIN routines -> DOMAIN plan]
    BY <2>3 DEF launchLog
  <2>5. IsInjective(launchLog)
    BY DEF RunInv, LaunchedOnce, IsInjective, launchLog
  <2>6. launchLog \in Injection(DOMAIN routines, DOMAIN plan)
    BY <2>4, <2>5 DEF Injection
  <2> QED
    BY <2>2, <2>6, FS_Injection
<1>5. Cardinality(DOMAIN plan) \in Nat
  <2>1. DOMAIN plan \subseteq TaskIDs
    BY TablesMembership DEF RunInv, PlanConsistent
  <2> QED
    BY <2>1, TaskIDsAssumption, FS_Subset, FS_CardinalityType
<1>6. Cardinality(Reported) \in Nat /\ Len(errCh) = Cardinality(Reported)
  BY GoroutinesFinite DEF RunInv, ReportInv
<1> QED
  BY <1>2, <1>3, <1>4, <1>5, <1>6 DEF ErrCap

--------------------------------------------------------------------------------
(* What holds of the contract of Run *)

\* The contract keeps its types: only known tasks are launched, and only
\* launched tasks finish or fail.
THEOREM ContractTypeCorrect == Contract!Spec => []Contract!ContractTypeOK
<1> USE DEF Contract!ContractTypeOK
<1>1. Contract!Init => Contract!ContractTypeOK
  <2>1. DOMAIN <<>> = {}
    BY EmptyMap
  <2> QED
    BY <2>1 DEF Contract!Init
<1>2. Contract!ContractTypeOK /\ [Contract!Next]_Contract!contractVars => Contract!ContractTypeOK'
  <2> SUFFICES ASSUME Contract!ContractTypeOK, [Contract!Next]_Contract!contractVars
               PROVE  Contract!ContractTypeOK'
    OBVIOUS
  <2>1. CASE Contract!Begin
    BY <2>1, TablesMembership DEF Contract!Begin
  <2>2. ASSUME NEW t \in TaskIDs, Contract!Launch(t)
        PROVE  Contract!ContractTypeOK'
    BY <2>2 DEF Contract!Launch, Contract!Launchable
  <2>3. ASSUME NEW t \in TaskIDs, Contract!Fail(t)
        PROVE  Contract!ContractTypeOK'
    BY <2>3 DEF Contract!Fail
  <2>4. ASSUME NEW t \in TaskIDs, Contract!Finish(t)
        PROVE  Contract!ContractTypeOK'
    BY <2>4 DEF Contract!Finish
  <2>5. CASE Contract!Return
    BY <2>5 DEF Contract!Return, Contract!Outcomes
  <2>6. CASE UNCHANGED Contract!contractVars
    BY <2>6 DEF Contract!contractVars
  <2> QED
    BY <2>1, <2>2, <2>3, <2>4, <2>5, <2>6 DEF Contract!Next
<1> QED
  BY <1>1, <1>2, PTL DEF Contract!Spec

\* Every launched task is in every saturated set of the table: nothing is
\* launched that the fixpoint does not need.
THEOREM LaunchedNeededCorrect == Contract!Spec => []Contract!LaunchedNeeded
<1>1. Contract!Init => Contract!LaunchedNeeded
  BY DEF Contract!Init, Contract!LaunchedNeeded
<1>2. Contract!LaunchedNeeded /\ [Contract!Next]_Contract!contractVars => Contract!LaunchedNeeded'
  <2> SUFFICES ASSUME Contract!LaunchedNeeded, [Contract!Next]_Contract!contractVars,
                      NEW S \in SUBSET TaskIDs, Contract!Saturated(plan, S)'
               PROVE  launched' \subseteq S
    BY DEF Contract!LaunchedNeeded
  <2>1. CASE Contract!Begin
    BY <2>1 DEF Contract!Begin
  <2>2. ASSUME NEW t \in TaskIDs, Contract!Launch(t)
        PROVE  launched' \subseteq S
    <3>1. Contract!Saturated(plan, S) /\ launched \subseteq S
      BY <2>2 DEF Contract!Launch, Contract!LaunchedNeeded, Contract!Saturated, Contract!Launchable,
                  Contract!Deps
    <3>2. t \in S
      BY <2>2, <3>1 DEF Contract!Launch, Contract!Launchable, Contract!Saturated
    <3> QED
      BY <2>2, <3>1, <3>2 DEF Contract!Launch
  <2>3. CASE UNCHANGED <<plan, launched>>
    BY <2>3 DEF Contract!LaunchedNeeded, Contract!Saturated, Contract!Launchable, Contract!Deps
  <2> QED
    BY <2>1, <2>2, <2>3
       DEF Contract!Next, Contract!Fail, Contract!Finish, Contract!Return, Contract!contractVars
<1> QED
  BY <1>1, <1>2, PTL DEF Contract!Spec

\* When a Run that keeps the contract is back, exactly the smallest saturated set
\* of its table was launched, and all of it has finished.
THEOREM ExactByContract == Contract!Spec => []ExactAtReturn
<1> DEFINE AtReturn == phase = "returned" => Contract!Saturated(plan, launched) /\ finished = launched
<1>1. Contract!Init => AtReturn
  BY DEF Contract!Init
<1>2. AtReturn /\ [Contract!Next]_Contract!contractVars => AtReturn'
  <2> SUFFICES ASSUME AtReturn, [Contract!Next]_Contract!contractVars
               PROVE  AtReturn'
    OBVIOUS
  <2>1. CASE Contract!Return
    BY <2>1 DEF Contract!Return, Contract!Exhausted, Contract!Saturated, Contract!Launchable,
                Contract!Deps
  <2>2. CASE UNCHANGED Contract!contractVars
    BY <2>2 DEF Contract!contractVars, Contract!Saturated, Contract!Launchable, Contract!Deps
  <2>3. CASE phase' = "running"
    BY <2>3
  <2> QED
    BY <2>1, <2>2, <2>3
       DEF Contract!Next, Contract!Begin, Contract!Launch, Contract!Fail, Contract!Finish
<1>3. AtReturn /\ Contract!LaunchedNeeded => ExactAtReturn
  BY DEF ExactAtReturn, Contract!ExactAtReturn
<1> QED
  BY <1>1, <1>2, <1>3, LaunchedNeededCorrect, PTL DEF Contract!Spec

\* When a Run that keeps the contract is back, it returned an error iff one of
\* its functions failed, and then the error of one that did.
THEOREM FailureReportedCorrect == Contract!Spec => []Contract!FailureReported
<1>1. Contract!Init => Contract!FailureReported
  BY DEF Contract!Init, Contract!FailureReported
<1>2. Contract!FailureReported /\ [Contract!Next]_Contract!contractVars => Contract!FailureReported'
  BY DEF Contract!FailureReported, Contract!Next, Contract!Begin, Contract!Launch, Contract!Fail,
         Contract!Finish, Contract!Return, Contract!Outcomes, Contract!contractVars
<1> QED
  BY <1>1, <1>2, PTL DEF Contract!Spec

--------------------------------------------------------------------------------
(* What both schedulers do *)

\* The steps of a scheduler whose queue holds what is ready.
CoreStep ==
    \/ Table
    \/ Snapshot
    \/ \E id \in Ready : Spawn(id)
    \/ \E i \in DOMAIN routines : FnStart(i) \/ FnOk(i) \/ FnFail(i) \/ SendErr(i)
    \/ RunReturn /\ Ready = {}
    \/ UNCHANGED vars

CoreInv == TableInv /\ RunInv /\ ReportInv

LEMMA CoreInit == Init => CoreInv
  BY TableInit, RunInit, ReportInit DEF CoreInv

LEMMA CoreKeeps ==
    ASSUME CoreInv, CoreStep
    PROVE  CoreInv'
<1> USE DEF CoreInv
<1>1. CASE Table \/ UNCHANGED vars
  <2>1. TableInv'
    BY <1>1, TableKeeps DEF vars
  <2>2. UNCHANGED runVars
    BY <1>1 DEF Table, Clear, AddTask, vars
  <2>3. UNCHANGED <<plan, deg, routines, phase>> /\ UNCHANGED <<runs, phase, routines, wg, errCh, result>>
    BY <2>2 DEF runVars
  <2>4. phase' \in {"idle", "running", "returned"}
    BY <2>3 DEF RunInv
  <2> QED
    BY <2>1, <2>3, <2>4, RestKeepsRun, RestKeepsReport
<1>2. CASE Snapshot
  <2>1. UNCHANGED tableVars
    BY <1>2 DEF Snapshot
  <2> QED
    BY <1>2, <2>1, TableKeeps, SnapshotEstablishes, SnapshotKeepsReport
<1>3. ASSUME NEW id \in Ready, Spawn(id) PROVE CoreInv'
  <2>1. UNCHANGED tableVars
    BY <1>3 DEF Spawn
  <2>2. Contract!Launchable(plan, launched, id)
    BY DEF Ready
  <2>3. RunInv' /\ id \in TaskIDs
    BY <1>3, <2>2, SpawnKeeps
  <2> QED
    BY <1>3, <2>1, <2>3, TableKeeps, SpawnKeepsReport
<1>4. ASSUME NEW i \in DOMAIN routines, FnStart(i) \/ FnOk(i) \/ FnFail(i) \/ SendErr(i)
      PROVE  CoreInv'
  <2>1. Advance(i) /\ routines' \in Seq(Routine)
    BY <1>4, GoroutineAdvances
  <2>2. UNCHANGED tableVars
    BY <2>1 DEF Advance, tableVars
  <2> QED
    BY <1>4, <2>1, <2>2, TableKeeps, AdvanceKeepsRun, GoroutineKeepsReport
<1>5. CASE RunReturn
  <2>1. UNCHANGED tableVars /\ UNCHANGED <<plan, deg, routines>> /\ phase' \in {"idle", "running", "returned"}
    BY <1>5 DEF RunReturn
  <2> QED
    BY <1>5, <2>1, TableKeeps, RestKeepsRun, RunReturnKeepsReport
<1> QED
  BY <1>1, <1>2, <1>3, <1>4, <1>5 DEF CoreStep

LEMMA ContractInit == Init => Contract!Init
<1> SUFFICES ASSUME Init
             PROVE  Contract!Init
  OBVIOUS
<1>1. DOMAIN routines = {}
  BY EmptyMap DEF Init
<1>2. launched = {} /\ finished = {} /\ failed = {}
  BY <1>1, LaunchedIs DEF finished, failed
<1> QED
  BY <1>2 DEF Init, Contract!Init

LEMMA ContractStep ==
    ASSUME CoreInv, CoreStep
    PROVE  [Contract!Next]_Contract!contractVars
<1> USE DEF CoreInv
<1>1. CASE Snapshot
  <2>1. /\ phase # "running" /\ phase' = "running" /\ plan' = tasks
        /\ routines' = <<>> /\ result' = result
    BY <1>1 DEF Snapshot
  <2>2. DOMAIN routines' = {}
    BY <2>1, EmptyMap
  <2>3. launched' = {} /\ finished' = {} /\ failed' = {}
    BY <2>2 DEF launched, launchLog, Range, finished, failed
  <2>4. Contract!Begin
    BY <2>1, <2>3 DEF Contract!Begin, TableInv, TableOK
  <2> QED
    BY <2>4 DEF Contract!Next
<1>2. ASSUME NEW id \in Ready, Spawn(id)
      PROVE  [Contract!Next]_Contract!contractVars
  <2>1. Contract!Launchable(plan, launched, id)
    BY DEF Ready
  <2>2. launched' = launched \cup {id} /\ id \in TaskIDs /\ phase = "running"
    BY <1>2, <2>1, SpawnKeeps
  <2>3. UNCHANGED <<phase, plan, result>>
    BY <1>2 DEF Spawn
  <2>4. finished' = finished /\ failed' = failed
    BY <1>2, <2>2, SpawnKeepsReport
  <2>5. Contract!Launch(id)
    BY <2>1, <2>2, <2>3, <2>4 DEF Contract!Launch
  <2> QED
    BY <2>2, <2>5 DEF Contract!Next
<1>3. ASSUME NEW i \in DOMAIN routines, FnStart(i) \/ FnOk(i) \/ FnFail(i) \/ SendErr(i)
      PROVE  [Contract!Next]_Contract!contractVars
  <2> DEFINE t == routines[i].task
  <2>1. /\ Advance(i) /\ routines' \in Seq(Routine)
        /\ FnStart(i) => routines'[i].st = "running" /\ routines'[i].err = routines[i].err
        /\ FnFail(i) => routines'[i].st = "sending" /\ routines'[i].err = TRUE
        /\ FnOk(i) \/ SendErr(i) => routines'[i].st = "done" /\ routines'[i].err = routines[i].err
    BY <1>3, GoroutineAdvances
  <2>2. launched' = launched
    BY <2>1, AdvanceKeepsRun
  <2>3. /\ DOMAIN routines' = DOMAIN routines
        /\ \A j \in DOMAIN routines : j # i => routines'[j] = routines[j]
        /\ \A j \in DOMAIN routines : routines'[j].task = routines[j].task
        /\ UNCHANGED <<phase, plan, result>>
    BY <2>1 DEF Advance
  <2>4. t \in launched /\ t \in TaskIDs
    <3>1. routines \in Seq(Routine)
      BY DEF RunInv
    <3>2. routines[i] \in Routine
      BY <3>1, LenProperties, ElementOfSeq
    <3> QED
      BY <3>2, LaunchedIs DEF Routine
  <2>5. routines[i].st # "done" /\ phase = "running"
    <3>1. routines[i].st # "done"
      BY <1>3 DEF FnStart, FnOk, FnFail, SendErr
    <3> QED
      BY <3>1 DEF ReportInv, Live
  <2>6. t \notin finished
    BY <2>5 DEF finished, RunInv, LaunchedOnce
  <2>7. CASE FnStart(i)
    <3>1. routines'[i].st # "done" /\ ~routines'[i].err /\ ~routines[i].err
      BY <2>1, <2>7 DEF FnStart, ReportInv
    <3>2. finished' = finished /\ failed' = failed
      BY <2>3, <2>5, <3>1 DEF finished, failed
    <3> QED
      BY <2>2, <2>3, <3>2 DEF Contract!contractVars
  <2>8. CASE FnFail(i)
    <3>1. routines'[i].st # "done" /\ routines'[i].err /\ ~routines[i].err
      BY <2>1, <2>8 DEF FnFail, ReportInv
    <3>2. finished' = finished /\ failed' = failed \cup {t} /\ t \notin failed
      BY <2>3, <2>5, <3>1 DEF finished, failed, RunInv, LaunchedOnce
    <3>3. Contract!Fail(t)
      BY <2>2, <2>3, <2>4, <2>5, <2>6, <3>2 DEF Contract!Fail
    <3> QED
      BY <2>4, <3>3 DEF Contract!Next
  <2>9. CASE FnOk(i) \/ SendErr(i)
    <3>1. routines'[i].st = "done" /\ routines'[i].err = routines[i].err
      BY <2>1, <2>9
    <3>2. finished' = finished \cup {t}
      BY <2>3, <3>1 DEF finished
    <3>3. failed' = failed
      BY <2>3, <3>1 DEF failed
    <3>4. Contract!Finish(t)
      BY <2>2, <2>3, <2>4, <2>5, <2>6, <3>2, <3>3 DEF Contract!Finish
    <3> QED
      BY <2>4, <3>4 DEF Contract!Next
  <2> QED
    BY <1>3, <2>7, <2>8, <2>9
<1>4. CASE RunReturn /\ Ready = {}
  <2>1. /\ launched = finished
        /\ IF failed = {} THEN result' = NoError ELSE result' \in failed
    BY <1>4, RunReturnKeepsReport
  <2>2. phase = "running" /\ phase' = "returned" /\ UNCHANGED <<plan, routines>>
    BY <1>4 DEF RunReturn
  <2>3. launched' = launched /\ finished' = finished /\ failed' = failed
    BY <2>2 DEF launched, launchLog, finished, failed
  <2>5. Contract!Exhausted
    BY <1>4 DEF Ready, Contract!Exhausted
  <2>6. Contract!Return
    BY <2>1, <2>2, <2>3, <2>5 DEF Contract!Return, Contract!Outcomes
  <2> QED
    BY <2>6 DEF Contract!Next
<1>5. CASE Table \/ UNCHANGED vars
  <2>1. UNCHANGED <<phase, plan, routines, result>>
    BY <1>5 DEF Table, Clear, AddTask, vars, runVars
  <2>2. launched' = launched /\ finished' = finished /\ failed' = failed
    BY <2>1 DEF launched, launchLog, finished, failed
  <2> QED
    BY <2>1, <2>2 DEF Contract!contractVars
<1> QED
  BY <1>1, <1>2, <1>3, <1>4, <1>5 DEF CoreStep


\* The types of what both have: in particular no degree and no WaitGroup count is
\* negative.
LEMMA CoreTypes == CoreInv => TableOK /\ RunOK
<1> SUFFICES ASSUME CoreInv
             PROVE  TableOK /\ RunOK
  OBVIOUS
<1>1. wg \in Nat
  BY GoroutinesFinite DEF CoreInv, RunInv, ReportInv
<1>2. DOMAIN deg \subseteq TaskIDs
  BY TablesMembership DEF CoreInv, RunInv, PlanConsistent
<1> QED
  BY <1>1, <1>2 DEF CoreInv, RunOK, TableInv, RunInv, PlanConsistent, ReportInv

--------------------------------------------------------------------------------
(* Scheduler *)

\* The queue of Scheduler between two turns of its loop.
FifoInv ==
    /\ queue \in Seq(TaskIDs) /\ IsInjective(queue)
    /\ phase # "running" => queue = <<>>
    /\ phase = "running" => Range(queue) = Ready

LEMMA FifoInit == Init => FifoInv
<1> SUFFICES ASSUME Init
             PROVE  FifoInv
  OBVIOUS
<1>1. queue \in Seq(TaskIDs) /\ DOMAIN queue = {}
  BY EmptyMap, EmptySeq DEF Init
<1> QED
  BY <1>1 DEF Init, FifoInv, IsInjective

\* Every step of Scheduler is one of those both schedulers take.
LEMMA FifoIsCore ==
    ASSUME FifoInv, [Next]_vars
    PROVE  CoreStep
<1>1. CASE Dispatch
  <2>1. queue # <<>> /\ Spawn(Head(queue)) /\ phase = "running"
    BY <1>1 DEF Dispatch, Spawn
  <2>2. Head(queue) \in Ready
    BY <2>1, TailRange DEF FifoInv
  <2> QED
    BY <2>1, <2>2 DEF CoreStep
<1>2. CASE RunReturn
  <2>1. queue = <<>> /\ phase = "running"
    BY <1>2 DEF RunReturn
  <2>2. Range(queue) = {}
    BY <2>1, EmptyMap DEF Range
  <2> QED
    BY <1>2, <2>1, <2>2 DEF FifoInv, CoreStep
<1>3. CASE ~Dispatch /\ ~RunReturn
  BY <1>3 DEF Next, RunBegin, RunStep, Goroutine, CoreStep
<1> QED
  BY <1>1, <1>2, <1>3

LEMMA FifoKeeps ==
    ASSUME CoreInv, FifoInv, [Next]_vars
    PROVE  FifoInv'
<1> USE DEF CoreInv
<1>1. CASE RunBegin
  <2>1. /\ phase' = "running" /\ InitiallyReady = Ready'
        /\ IsFiniteSet(InitiallyReady) /\ InitiallyReady \subseteq TaskIDs
    BY <1>1, SnapshotEstablishes DEF RunBegin
  <2>2. queue' \in Orders(InitiallyReady)
    BY <1>1 DEF RunBegin
  <2>3. queue' \in Seq(InitiallyReady) /\ Range(queue') = InitiallyReady /\ IsInjective(queue')
    BY <2>1, <2>2, OrdersProperties
  <2>4. queue' \in Seq(TaskIDs)
    BY <2>1, <2>3, SeqMonotonic
  <2>5. IsInjective(queue)'
    BY <2>3 DEF IsInjective
  <2>6. Range(queue)' = Ready'
    BY <2>1, <2>3 DEF Range
  <2> QED
    BY <2>1, <2>4, <2>5, <2>6 DEF FifoInv
<1>2. CASE Dispatch
  <2>1. queue \in Seq(TaskIDs) /\ queue # <<>> /\ IsInjective(queue) /\ phase = "running"
    BY <1>2 DEF FifoInv, Dispatch, Spawn
  <2>2. PICK id : id = Head(queue)
    OBVIOUS
  <2>3. /\ Tail(queue) \in Seq(TaskIDs) /\ Range(queue) = {id} \cup Range(Tail(queue))
        /\ IsInjective(Tail(queue)) /\ id \notin Range(Tail(queue))
    BY <2>1, <2>2, TailRange
  <2>4. id \in Ready /\ Contract!Launchable(plan, launched, id) /\ Spawn(id)
    BY <1>2, <2>1, <2>2, <2>3 DEF FifoInv, Ready, Dispatch
  <2>5. PICK new : new = NewlyReady(id)
    OBVIOUS
  <2>6. /\ phase' = "running" /\ new \subseteq TaskIDs /\ IsFiniteSet(new) /\ new \cap Ready = {}
        /\ Ready' = (Ready \ {id}) \cup new
    BY <2>4, <2>5, SpawnKeeps
  <2>7. PICK order \in Orders(new) : queue' = Tail(queue) \o order
    BY <1>2, <2>2, <2>5 DEF Dispatch
  <2>8. order \in Seq(TaskIDs) /\ Range(order) = new /\ IsInjective(order)
    <3>1. order \in Seq(new) /\ Range(order) = new /\ IsInjective(order)
      BY <2>6, <2>7, OrdersProperties
    <3> QED
      BY <3>1, <2>6, SeqMonotonic
  <2>9. Range(Tail(queue)) = Ready \ {id}
    BY <2>1, <2>3 DEF FifoInv
  <2>10. Range(Tail(queue)) \cap new = {}
    BY <2>6, <2>9
  <2>11. /\ Tail(queue) \o order \in Seq(TaskIDs) /\ IsInjective(Tail(queue) \o order)
         /\ Range(Tail(queue) \o order) = Range(Tail(queue)) \cup new
    BY <2>3, <2>8, <2>10, ConcatRange
  <2>12. PICK w : w = Tail(queue) \o order
    OBVIOUS
  <2>13. queue' = w /\ IsInjective(w) /\ Range(w) = (Ready \ {id}) \cup new
    BY <2>7, <2>9, <2>11, <2>12
  <2>14. IsInjective(queue)'
    BY <2>13 DEF IsInjective
  <2>15. Range(queue)' = Ready'
    BY <2>6, <2>13 DEF Range
  <2> QED
    BY <2>6, <2>7, <2>11, <2>14, <2>15 DEF FifoInv
<1>3. CASE RunReturn
  <2>1. queue' = <<>> /\ queue' = queue /\ phase' = "returned"
    BY <1>3 DEF RunReturn
  <2> QED
    BY <2>1 DEF FifoInv, IsInjective
<1>4. CASE Table \/ UNCHANGED vars
  <2>1. UNCHANGED runVars
    BY <1>4 DEF Table, Clear, AddTask, vars
  <2>2. UNCHANGED <<plan, deg, routines, phase, queue>> /\ phase' \in {"idle", "running", "returned"}
    BY <2>1 DEF runVars, RunInv
  <2>3. Ready' = Ready
    BY <2>2, RestKeepsRun
  <2> QED
    BY <2>2, <2>3 DEF FifoInv, IsInjective, Range
<1>5. ASSUME NEW i \in DOMAIN routines, FnStart(i) \/ FnOk(i) \/ FnFail(i) \/ SendErr(i)
      PROVE  FifoInv'
  <2>1. Advance(i) /\ routines' \in Seq(Routine)
    BY <1>5, GoroutineAdvances
  <2>2. Ready' = Ready /\ phase' = phase
    BY <2>1, AdvanceKeepsRun
  <2>3. queue' = queue
    BY <2>1 DEF Advance
  <2> QED
    BY <2>2, <2>3 DEF FifoInv, IsInjective, Range
<1> QED
  BY <1>1, <1>2, <1>3, <1>4, <1>5 DEF Next, RunStep, Goroutine

\* The table, the Run, what it reports and the queue, in every reachable state.
THEOREM SchedulerCorrect == Spec => [](CoreInv /\ FifoInv)
<1>1. Init => CoreInv /\ FifoInv
  BY CoreInit, FifoInit
<1>2. CoreInv /\ FifoInv /\ [Next]_vars => CoreInv' /\ FifoInv'
  BY FifoIsCore, FifoKeeps, CoreKeeps
<1> QED
  BY <1>1, <1>2, PTL DEF Spec

\* The types: in particular no degree and no WaitGroup count is negative.
THEOREM TypeCorrect == Spec => []TypeOK
<1>1. CoreInv /\ FifoInv => TypeOK
  BY CoreTypes DEF FifoInv, TypeOK
<1> QED
  BY <1>1, SchedulerCorrect, PTL

\* No task is dispatched twice or queued again: what was launched and what is
\* queued never overlap, and neither repeats a task.
LEMMA DispatchedOnce ==
    ASSUME RunInv, FifoInv
    PROVE  DispatchOnce
<1>1. launchLog \in Seq(TaskIDs)
  <2>1. routines \in Seq(Routine) /\ DOMAIN routines = 1..Len(routines) /\ Len(routines) \in Nat
    BY LenProperties DEF RunInv
  <2>2. \A i \in 1..Len(routines) : routines[i].task \in TaskIDs
    <3>1. \A i \in 1..Len(routines) : routines[i] \in Routine
      BY <2>1, ElementOfSeq
    <3> QED
      BY <3>1 DEF Routine
  <2>3. launchLog \in [1..Len(routines) -> TaskIDs]
    BY <2>1, <2>2 DEF launchLog
  <2> QED
    BY <2>1, <2>3, SeqDef
<1>2. IsInjective(launchLog)
  BY DEF RunInv, LaunchedOnce, IsInjective, launchLog
<1>3. Range(launchLog) \cap Range(queue) = {}
  <2>1. CASE phase = "running"
    <3>1. \A t \in Range(queue) : t \notin launched
      BY <2>1, LaunchableIs DEF FifoInv, Ready
    <3> QED
      BY <3>1 DEF launched
  <2>2. CASE phase # "running"
    <3>1. Range(queue) = {}
      BY <2>2, EmptyMap DEF FifoInv, Range
    <3> QED
      BY <3>1
  <2> QED
    BY <2>1, <2>2
<1> QED
  BY <1>1, <1>2, <1>3, ConcatRange DEF FifoInv, DispatchOnce

\* The table, the degrees, the queue and the launches of a Run agree in every
\* reachable state, whatever is added or cleared while it runs: a degree counts
\* the dependency slots not yet launched, the queue holds just what can be
\* launched, and no task is dispatched twice.
THEOREM BookkeepingExactCorrect == Spec => []BookkeepingExact
<1>1. CoreInv /\ FifoInv => BookkeepingExact
  <2> SUFFICES ASSUME CoreInv, FifoInv
               PROVE  BookkeepingExact
    OBVIOUS
  <2>1. TableConsistent /\ DegreeAccounts /\ QueueExact
    BY DEF CoreInv, TableInv, RunInv, FifoInv, QueueExact, Ready
  <2> QED
    BY <2>1, DispatchedOnce DEF CoreInv, BookkeepingExact
<1> QED
  BY <1>1, SchedulerCorrect, PTL

\* In every reachable state Run waits for just its live goroutines, and none of
\* them can be held up by a full error channel.
THEOREM ReportsExactCorrect == Spec => []ReportsExact
<1>1. CoreInv => ReportsExact
  <2> SUFFICES ASSUME CoreInv
               PROVE  ReportsExact
    OBVIOUS
  <2>1. WaitGroupExact
    BY DEF CoreInv, ReportInv, WaitGroupExact, Live
  <2> QED
    BY <2>1, ErrorsFit DEF CoreInv, ReportsExact
<1> QED
  BY <1>1, SchedulerCorrect, PTL

\* Scheduler implements the contract of Run: every step is a step of the
\* contract or leaves what the contract speaks of alone.
THEOREM ImplementsContractCorrect == Spec => ImplementsContract
<1>1. CoreInv /\ FifoInv /\ [Next]_vars => [Contract!Next]_Contract!contractVars
  BY FifoIsCore, ContractStep
<1> QED
  BY <1>1, ContractInit, SchedulerCorrect, PTL DEF Spec, ImplementsContract, Contract!Spec

\* When Run is back, exactly the smallest saturated set of its table was
\* launched, and all of it is over: what holds of the contract.
THEOREM ExactAtReturnCorrect == Spec => []ExactAtReturn
  BY ImplementsContractCorrect, ExactByContract, PTL DEF ImplementsContract

--------------------------------------------------------------------------------
(* PriorityScheduler *)

Heaps == INSTANCE Heap_proofs WITH Less <- Above

\* The queue of PriorityScheduler between two turns of its loop: a heap of one
\* item for each task that can be launched, with the priority the task has.
PriorityInv ==
    /\ queue \in Seq(PQItem) /\ PQ!IsHeap(queue) /\ Heaps!Distinct(queue)
    /\ phase # "running" => queue = <<>>
    /\ phase = "running" => Heaps!Members(queue) = {Item(plan, t) : t \in Ready}

\* Above orders the items.
LEMMA AboveOrders == Heaps!Ordered(PQItem)
<1>1. \A x \in PQItem : x.priority \in Int
  BY PrioritiesAssumption DEF PQItem
<1> QED
  BY <1>1 DEF Heaps!Ordered, Above

LEMMA ItemIs ==
    ASSUME NEW p \in Tables, NEW t \in DOMAIN p
    PROVE  Item(p, t) \in PQItem /\ Item(p, t).task = t /\ Item(p, t).priority = p[t].priority
<1>1. p[t] \in Task /\ t \in TaskIDs
  BY TablesMembership
<1> QED
  BY <1>1 DEF Item, PQItem, Task

LEMMA EmptyHeap ==
    <<>> \in Seq(PQItem) /\ PQ!IsHeap(<<>>) /\ Heaps!Distinct(<<>>) /\ Heaps!Members(<<>>) = {}
<1>1. <<>> \in Seq(PQItem) /\ Len(<<>>) = 0 /\ DOMAIN <<>> = {}
  BY EmptySeq, EmptyMap
<1> QED
  BY <1>1 DEF PQ!IsHeap, Heaps!Distinct, Heaps!Members

\* The two instances of Heap have the same operators.
LEMMA SameHeap == \A h : PQ!IsHeap(h) <=> Heaps!IsHeap(h)
  BY DEF PQ!IsHeap, Heaps!IsHeap, PQ!Parent, Heaps!Parent

LEMMA SamePush == \A h, y : PQ!Push(h, y) = Heaps!Push(h, y)
  BY DEF Heaps!Push, PQ!Push, PQ!Up, Heaps!Up, PQ!Ascent, Heaps!Ascent, PQ!Parent, Heaps!Parent

LEMMA SamePopRest == \A h : PQ!PopRest(h) = Heaps!PopRest(h)
  BY DEF PQ!PopRest, Heaps!PopRest, PQ!Front, Heaps!Front, PQ!SwapLast, Heaps!SwapLast,
         PQ!Down, Heaps!Down, PQ!Descent, Heaps!Descent, PQ!Child, Heaps!Child

LEMMA SameHeapify == \A h : PQ!Heapify(h) = Heaps!Heapify(h)
  BY DEF PQ!Heapify, Heaps!Heapify, PQ!Down, Heaps!Down, PQ!Descent, Heaps!Descent,
         PQ!Child, Heaps!Child

\* heap.Push of an item for each task of an order of S.
LEMMA PushReadyIs ==
    ASSUME NEW p \in Tables, NEW S \in SUBSET (DOMAIN p), IsFiniteSet(S), NEW order \in Orders(S),
           NEW q \in Seq(PQItem), PQ!IsHeap(q), Heaps!Distinct(q),
           \A t \in S : Item(p, t) \notin Heaps!Members(q)
    PROVE  /\ PushReady(p, q, order) \in Seq(PQItem) /\ PQ!IsHeap(PushReady(p, q, order))
           /\ Heaps!Distinct(PushReady(p, q, order))
           /\ Heaps!Members(PushReady(p, q, order)) = Heaps!Members(q) \cup {Item(p, t) : t \in S}
<1>1. order \in Seq(S) /\ Range(order) = S /\ IsInjective(order)
  BY OrdersProperties
<1>2. PICK n \in Nat : n = Len(order) /\ DOMAIN order = 1..n
  BY <1>1, LenProperties
<1>3. \A i \in 1..n : order[i] \in S
  BY <1>1, <1>2, ElementOfSeq
<1> DEFINE x == [i \in 1..n |-> Item(p, order[i])]
<1>4. \A i \in 1..n : x[i] \in PQItem /\ x[i] \notin Heaps!Members(q) /\ x[i].task = order[i]
  BY <1>3, ItemIs
<1>5. \A i, k \in 1..n : x[i] = x[k] => i = k
  BY <1>1, <1>2, <1>4 DEF IsInjective
<1>6. {x[i] : i \in 1..n} = {Item(p, t) : t \in S}
  <2>1. \A t \in S : \E i \in 1..n : order[i] = t
    BY <1>1, <1>2 DEF Range
  <2> QED
    BY <1>3, <2>1
<1> DEFINE Follows(f) ==
            f = [i \in 0..n |-> IF i = 0 THEN q ELSE PQ!Push(f[i - 1], Item(p, order[i]))]
<1>7. \A f : Heaps!Pushes(f, n, q, x) <=> Follows(f)
  <2> SUFFICES ASSUME NEW f
               PROVE  Heaps!Pushes(f, n, q, x) <=> Follows(f)
    OBVIOUS
  <2>1. \A i \in 0..n : i # 0 => x[i] = Item(p, order[i])
    OBVIOUS
  <2>2. \A h, y : PQ!Push(h, y) = Heaps!Push(h, y)
    BY SamePush
  <2> HIDE DEF x
  <2> QED
    BY <2>1, <2>2 DEF Heaps!Pushes
<1>8. \E f : Follows(f)
  <2> HIDE DEF x, Follows
  <2> QED
    BY <1>7, Heaps!PushesExist
<1>9. PICK f : Follows(f) /\ PushReady(p, q, order) = f[n]
  <2> DEFINE f == CHOOSE f : Follows(f)
  <2>1. Follows(f)
    <3> HIDE DEF Follows
    <3> QED
      BY <1>8
  <2>2. PushReady(p, q, order) = f[n]
    BY <1>2 DEF PushReady
  <2> HIDE DEF f, Follows
  <2> QED
    BY <2>1, <2>2
<1>10. /\ f[n] \in Seq(PQItem) /\ Heaps!IsHeap(f[n]) /\ Heaps!Distinct(f[n])
       /\ Heaps!Members(f[n]) = Heaps!Members(q) \cup {x[i] : i \in 1..n}
  <2>1. Heaps!Pushes(f, n, q, x) /\ Heaps!IsHeap(q)
    <3> HIDE DEF x, Follows
    <3> QED
      BY <1>7, <1>9, SameHeap
  <2>2. PICK y : y = x
    OBVIOUS
  <2>3. /\ \A i \in 1..n : y[i] \in PQItem /\ y[i] \notin Heaps!Members(q)
        /\ \A i, k \in 1..n : y[i] = y[k] => i = k
        /\ Heaps!Pushes(f, n, q, y)
    BY <2>1, <2>2, <1>4, <1>5
  <2>4. /\ f[n] \in Seq(PQItem) /\ Heaps!IsHeap(f[n]) /\ Heaps!Distinct(f[n])
        /\ Heaps!Members(f[n]) = Heaps!Members(q) \cup {y[i] : i \in 1..n}
    BY AboveOrders, <2>1, <2>3, Heaps!PushesCorrect
  <2> QED
    BY <2>2, <2>4
<1>11. PQ!IsHeap(f[n])
  BY <1>10, SameHeap
<1> QED
  BY <1>6, <1>9, <1>10, <1>11

LEMMA PriorityInit == Init => PriorityInv
<1> SUFFICES ASSUME Init
             PROVE  PriorityInv
  OBVIOUS
<1>1. queue = <<>> /\ phase = "idle"
  BY DEF Init
<1> QED
  BY <1>1, EmptyHeap DEF PriorityInv

\* The top of the queue is the item of a launchable task, and no launchable task
\* has a higher priority.
LEMMA TopIs ==
    ASSUME RunInv, PriorityInv, phase = "running", queue # <<>>
    PROVE  /\ Len(queue) >= 1 /\ Head(queue) = queue[1]
           /\ Head(queue).task \in Ready /\ queue[1] = Item(plan, Head(queue).task)
           /\ \A u \in Ready : plan[u].priority <= plan[Head(queue).task].priority
<1>1. queue \in Seq(PQItem) /\ Heaps!IsHeap(queue)
      /\ Heaps!Members(queue) = {Item(plan, t) : t \in Ready}
  BY SameHeap DEF PriorityInv
<1>2. Len(queue) >= 1 /\ Head(queue) = queue[1] /\ DOMAIN queue = 1..Len(queue)
      /\ Len(queue) \in Nat
  BY <1>1, HeadTailProperties, LenProperties, EmptySeq
<1>3. 1 \in DOMAIN queue
  BY <1>2
<1>4. PICK t \in Ready : queue[1] = Item(plan, t)
  BY <1>1, <1>3 DEF Heaps!Members
<1>5. plan \in Tables /\ \A u \in Ready : u \in DOMAIN plan
  BY DEF RunInv, PlanConsistent, Ready
<1>6. \A u \in Ready : Item(plan, u).task = u /\ Item(plan, u).priority = plan[u].priority
  BY <1>5, ItemIs
<1>7. ASSUME NEW u \in Ready
      PROVE  plan[u].priority <= plan[t].priority
  <2>1. PICK k \in DOMAIN queue : queue[k] = Item(plan, u)
    BY <1>1 DEF Heaps!Members
  <2>2. ~Above(queue[k], queue[1])
    BY <1>1, <1>2, <2>1, AboveOrders, Heaps!TopIsLeast
  <2>3. plan[u].priority \in Int /\ plan[t].priority \in Int
    <3>1. \A v \in DOMAIN plan : plan[v] \in Task
      BY <1>5, TablesMembership
    <3> QED
      BY <1>5, <3>1, PrioritiesAssumption DEF Task
  <2> QED
    BY <1>4, <1>6, <2>1, <2>2, <2>3 DEF Above
<1> QED
  BY <1>2, <1>4, <1>6, <1>7

LEMMA PriorityIsCore ==
    ASSUME CoreInv, PriorityInv, [PriorityNext]_vars
    PROVE  CoreStep
<1>1. CASE PriorityDispatch
  <2>1. queue # <<>> /\ Spawn(Head(queue).task) /\ phase = "running"
    BY <1>1 DEF PriorityDispatch, Spawn
  <2>2. Head(queue).task \in Ready
    BY <2>1, TopIs DEF CoreInv
  <2> QED
    BY <2>1, <2>2 DEF CoreStep
<1>2. CASE RunReturn
  <2>1. queue = <<>> /\ phase = "running"
    BY <1>2 DEF RunReturn
  <2>2. Heaps!Members(queue) = {}
    BY <2>1, EmptyHeap
  <2>3. Ready = {}
    BY <2>1, <2>2 DEF PriorityInv
  <2> QED
    BY <1>2, <2>3 DEF CoreStep
<1>3. CASE ~PriorityDispatch /\ ~RunReturn
  BY <1>3 DEF PriorityNext, PriorityBegin, PriorityStep, Goroutine, CoreStep
<1> QED
  BY <1>1, <1>2, <1>3

LEMMA PriorityKeeps ==
    ASSUME CoreInv, PriorityInv, [PriorityNext]_vars
    PROVE  PriorityInv'
<1> USE DEF CoreInv
<1>1. CASE PriorityBegin
  <2>1. /\ phase' = "running" /\ plan' = tasks /\ InitiallyReady = Ready'
        /\ IsFiniteSet(InitiallyReady) /\ InitiallyReady \subseteq TaskIDs
    BY <1>1, SnapshotEstablishes DEF PriorityBegin, Snapshot
  <2>2. tasks \in Tables /\ InitiallyReady \subseteq DOMAIN tasks
    BY <2>1 DEF TableInv, TableOK, Ready
  <2>3. PICK order \in Orders(InitiallyReady) :
            queue' = PQ!Heapify(PushReady(tasks, <<>>, order))
    BY <1>1 DEF PriorityBegin
  <2>4. PICK q : q = PushReady(tasks, <<>>, order)
    OBVIOUS
  <2>5. /\ q \in Seq(PQItem) /\ PQ!IsHeap(q) /\ Heaps!Distinct(q)
        /\ Heaps!Members(q) = {Item(tasks, t) : t \in InitiallyReady}
    <3>1. PICK e : e = <<>>
      OBVIOUS
    <3>2. e \in Seq(PQItem) /\ PQ!IsHeap(e) /\ Heaps!Distinct(e) /\ Heaps!Members(e) = {}
      BY <3>1, EmptyHeap
    <3>3. \A t \in InitiallyReady : Item(tasks, t) \notin Heaps!Members(e)
      BY <3>2
    <3>4. q = PushReady(tasks, e, order)
      BY <2>4, <3>1
    <3>5. /\ q \in Seq(PQItem) /\ PQ!IsHeap(q) /\ Heaps!Distinct(q)
          /\ Heaps!Members(q) = Heaps!Members(e) \cup {Item(tasks, t) : t \in InitiallyReady}
      BY <2>1, <2>2, <2>3, <3>2, <3>3, <3>4, PushReadyIs
    <3> QED
      BY <3>2, <3>5
  <2>6. queue' = q
    BY <2>3, <2>4, <2>5, SameHeap, SameHeapify, AboveOrders, Heaps!HeapifyKeeps
  <2>7. queue' \in Seq(PQItem) /\ PQ!IsHeap(queue') /\ Heaps!Distinct(queue')
    BY <2>5, <2>6
  <2>8. Heaps!Members(queue)' = {Item(tasks, t) : t \in InitiallyReady}
    BY <2>5, <2>6 DEF Heaps!Members
  <2>9. {Item(tasks, t) : t \in InitiallyReady} = {Item(plan, t) : t \in Ready}'
    BY <2>1 DEF Item
  <2> QED
    BY <2>1, <2>7, <2>8, <2>9 DEF PriorityInv
<1>2. CASE PriorityDispatch
  <2>1. /\ queue \in Seq(PQItem) /\ queue # <<>> /\ Heaps!IsHeap(queue) /\ Heaps!Distinct(queue)
        /\ phase = "running"
        /\ Heaps!Members(queue) = {Item(plan, t) : t \in Ready}
    BY <1>2, SameHeap DEF PriorityInv, PriorityDispatch, Spawn
  <2>2. PICK id : id = Head(queue).task
    OBVIOUS
  <2>3. Len(queue) >= 1 /\ id \in Ready /\ queue[1] = Item(plan, id)
    BY <2>1, <2>2, TopIs
  <2>4. Contract!Launchable(plan, launched, id) /\ Spawn(id)
    BY <1>2, <2>2, <2>3 DEF Ready, PriorityDispatch
  <2>5. PICK new : new = NewlyReady(id)
    OBVIOUS
  <2>6. /\ phase' = "running" /\ plan' = plan /\ IsFiniteSet(new) /\ new \cap Ready = {}
        /\ Ready' = (Ready \ {id}) \cup new
    BY <2>4, <2>5, SpawnKeeps
  <2>7. plan \in Tables /\ Ready \subseteq DOMAIN plan /\ new \subseteq DOMAIN plan
    BY <2>6 DEF RunInv, PlanConsistent, Ready
  <2>8. PICK order \in Orders(new) : queue' = PushReady(plan, PQ!PopRest(queue), order)
    BY <1>2, <2>2, <2>5 DEF PriorityDispatch
  <2>9. PICK rest : rest = PQ!PopRest(queue)
    OBVIOUS
  <2>10. /\ rest \in Seq(PQItem) /\ PQ!IsHeap(rest) /\ Heaps!Distinct(rest)
         /\ Heaps!Members(rest) = Heaps!Members(queue) \ {queue[1]}
    BY <2>1, <2>3, <2>9, AboveOrders, SameHeap, SamePopRest, Heaps!PopRestCorrect
  <2>11. \A t \in Ready \cup new : Item(plan, t).task = t
    BY <2>7, ItemIs
  <2>12. Heaps!Members(rest) = {Item(plan, t) : t \in Ready \ {id}}
    BY <2>1, <2>3, <2>10, <2>11
  <2>13. \A t \in new : Item(plan, t) \notin Heaps!Members(rest)
    BY <2>6, <2>11, <2>12
  <2>14. PICK q : q = PushReady(plan, rest, order)
    OBVIOUS
  <2>15. /\ q \in Seq(PQItem) /\ PQ!IsHeap(q) /\ Heaps!Distinct(q)
         /\ Heaps!Members(q) = Heaps!Members(rest) \cup {Item(plan, t) : t \in new}
    BY <2>6, <2>7, <2>10, <2>13, <2>14, PushReadyIs
  <2>16. queue' = q
    BY <2>8, <2>9, <2>14
  <2>17. queue' \in Seq(PQItem) /\ PQ!IsHeap(queue') /\ Heaps!Distinct(queue')
    BY <2>15, <2>16
  <2>18. Heaps!Members(queue)' = {Item(plan, t) : t \in (Ready \ {id}) \cup new}
    <3>1. Heaps!Members(queue)' = Heaps!Members(q)
      BY <2>16 DEF Heaps!Members
    <3> QED
      BY <3>1, <2>12, <2>15
  <2>19. {Item(plan, t) : t \in (Ready \ {id}) \cup new} = {Item(plan, t) : t \in Ready}'
    BY <2>6 DEF Item
  <2> QED
    BY <2>6, <2>17, <2>18, <2>19 DEF PriorityInv
<1>3. CASE RunReturn
  <2>1. queue' = <<>> /\ phase' = "returned"
    BY <1>3 DEF RunReturn
  <2>2. queue' \in Seq(PQItem) /\ PQ!IsHeap(queue') /\ Heaps!Distinct(queue')
    BY <2>1, EmptyHeap
  <2> QED
    BY <2>1, <2>2 DEF PriorityInv
<1>4. ASSUME UNCHANGED <<queue, phase, plan>>, Ready' = Ready
      PROVE  PriorityInv'
  BY <1>4 DEF PriorityInv, Item, Heaps!Distinct, Heaps!Members
<1>5. CASE Table \/ UNCHANGED vars
  <2>1. UNCHANGED runVars
    BY <1>5 DEF Table, Clear, AddTask, vars
  <2>2. UNCHANGED <<plan, deg, routines, phase, queue>> /\ phase' \in {"idle", "running", "returned"}
    BY <2>1 DEF runVars, RunInv
  <2>3. Ready' = Ready
    BY <2>2, RestKeepsRun
  <2> QED
    BY <1>4, <2>2, <2>3
<1>6. ASSUME NEW i \in DOMAIN routines, FnStart(i) \/ FnOk(i) \/ FnFail(i) \/ SendErr(i)
      PROVE  PriorityInv'
  <2>1. Advance(i) /\ routines' \in Seq(Routine)
    BY <1>6, GoroutineAdvances
  <2>2. Ready' = Ready /\ phase' = phase
    BY <2>1, AdvanceKeepsRun
  <2>3. UNCHANGED <<queue, plan>>
    BY <2>1 DEF Advance
  <2> QED
    BY <1>4, <2>2, <2>3
<1> QED
  BY <1>1, <1>2, <1>3, <1>5, <1>6 DEF PriorityNext, PriorityStep, Goroutine

\* The table, the Run, what it reports and the queue of the priority scheduler,
\* in every reachable state.
THEOREM PriorityCorrect == PrioritySpec => [](CoreInv /\ PriorityInv)
<1>1. Init => CoreInv /\ PriorityInv
  BY CoreInit, PriorityInit
<1>2. CoreInv /\ PriorityInv /\ [PriorityNext]_vars => CoreInv' /\ PriorityInv'
  BY PriorityIsCore, PriorityKeeps, CoreKeeps
<1> QED
  BY <1>1, <1>2, PTL DEF PrioritySpec

\* The types, for the priority scheduler.
THEOREM PriorityTypeCorrect == PrioritySpec => []PriorityTypeOK
<1>1. CoreInv /\ PriorityInv => PriorityTypeOK
  BY CoreTypes DEF PriorityInv, PriorityTypeOK
<1> QED
  BY <1>1, PriorityCorrect, PTL

\* The ready queue of the priority scheduler is a heap in every reachable state.
THEOREM QueueIsHeapCorrect == PrioritySpec => []QueueIsHeap
<1>1. PriorityInv => QueueIsHeap
  BY DEF PriorityInv, QueueIsHeap
<1> QED
  BY <1>1, PriorityCorrect, PTL

\* The priority scheduler implements the contract of Run.
THEOREM PriorityImplementsContractCorrect == PrioritySpec => PriorityImplementsContract
<1>1. CoreInv /\ PriorityInv /\ [PriorityNext]_vars => [Contract!Next]_Contract!contractVars
  BY PriorityIsCore, ContractStep
<1> QED
  BY <1>1, ContractInit, PriorityCorrect, PTL
     DEF PrioritySpec, PriorityImplementsContract, Contract!Spec

\* So a Run of the priority scheduler too launches exactly the smallest saturated
\* set of its table, and all of it is over when Run is back.
THEOREM PriorityExactAtReturn == PrioritySpec => []ExactAtReturn
  BY PriorityImplementsContractCorrect, ExactByContract, PTL DEF PriorityImplementsContract

\* A task is launched only when no launchable task has a higher priority: the top
\* of the heap stands for all of them.
THEOREM HighestFirstCorrect == PrioritySpec => HighestFirst
<1> DEFINE Step == \A t \in TaskIDs : Contract!Launch(t) =>
                       \A u \in DOMAIN plan : Contract!Launchable(plan, launched, u) =>
                           plan[u].priority <= plan[t].priority
<1>1. CoreInv /\ PriorityInv /\ [PriorityNext]_vars => [Step]_vars
  <2> SUFFICES ASSUME CoreInv, PriorityInv, [PriorityNext]_vars,
                      NEW t \in TaskIDs, Contract!Launch(t),
                      NEW u \in DOMAIN plan, Contract!Launchable(plan, launched, u)
               PROVE  plan[u].priority <= plan[t].priority
    OBVIOUS
  <2> USE DEF CoreInv
  <2>1. /\ phase = "running" /\ phase' = phase /\ t \notin launched
        /\ launched' = launched \cup {t} /\ u \in Ready
    BY DEF Contract!Launch, Contract!Launchable, Ready
  <2>2. CASE PriorityDispatch
    <3>1. queue # <<>> /\ Spawn(Head(queue).task)
      BY <2>2 DEF PriorityDispatch
    <3>2. /\ Head(queue).task \in Ready
          /\ plan[u].priority <= plan[Head(queue).task].priority
      BY <2>1, <3>1, TopIs
    <3>3. launched' = launched \cup {Head(queue).task}
      BY <3>1, <3>2, SpawnKeeps DEF Ready
    <3> QED
      BY <2>1, <3>2, <3>3
  <2>3. CASE PriorityBegin \/ RunReturn
    BY <2>1, <2>3 DEF PriorityBegin, Snapshot, RunReturn
  <2>4. CASE Table \/ UNCHANGED vars
    <3>1. UNCHANGED routines
      BY <2>4 DEF Table, Clear, AddTask, vars, runVars
    <3>2. launched' = launched
      BY <3>1 DEF launched, launchLog
    <3> QED
      BY <2>1, <3>2
  <2>5. ASSUME NEW i \in DOMAIN routines, FnStart(i) \/ FnOk(i) \/ FnFail(i) \/ SendErr(i)
        PROVE  FALSE
    <3>1. Advance(i) /\ routines' \in Seq(Routine)
      BY <2>5, GoroutineAdvances
    <3>2. launched' = launched
      BY <3>1, AdvanceKeepsRun
    <3> QED
      BY <2>1, <3>2
  <2> QED
    BY <2>2, <2>3, <2>4, <2>5 DEF PriorityNext, PriorityStep, Goroutine
<1> QED
  BY <1>1, PriorityCorrect, PTL DEF PrioritySpec, HighestFirst
================================================================================
