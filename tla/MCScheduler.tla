------------------------------ MODULE MCScheduler ------------------------------
(* Scheduler on small tables: self-dependencies, repetitions and             *)
(* dependencies on unregistered IDs included.                                *)
EXTENDS Scheduler, SequencesExt

CONSTANT MaxDeps \* bound: length of a dependency list, two at most

\* One list for each multiset of up to two IDs: the code counts the slots of a
\* list and does not look at their order.
MCDepLists == {SetToSeq(D) : D \in {S \in SUBSET TaskIDs : Cardinality(S) <= MaxDeps}}
              \cup {<<id, id>> : id \in IF MaxDeps < 2 THEN {} ELSE TaskIDs}

MCPriorities == {0}
================================================================================
