-------------------------- MODULE MCPriorityScheduler --------------------------
(* PriorityScheduler on small tables; the dependency lists leave repetitions *)
(* to MCScheduler and go up to MaxDeps distinct IDs.                         *)
EXTENDS PriorityScheduler, TLC

CONSTANTS MaxDeps,    \* bound: length of a dependency list
          MaxPriority \* bound: priorities are 0..MaxPriority

MCDepLists == UNION {Injection(1..n, TaskIDs) : n \in 0..MaxDeps}

MCPriorities == 0..MaxPriority

Symmetry == Permutations(TaskIDs)
================================================================================
