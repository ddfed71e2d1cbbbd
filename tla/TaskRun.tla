-------------------------------- MODULE TaskRun --------------------------------
(*****************************************************************************)
(* The part pkg/scheduler/scheduler.go and steal.go have in common: the task *)
(* table under the mutex, the goroutines a Run starts, their WaitGroup and   *)
(* error channel, and the end of Run.  The two modules that extend this one  *)
(* add the ready queue: Scheduler (FIFO) and PriorityScheduler (heap).       *)
(*                                                                           *)
(* Run copies the table under the lock and works on its copy, so AddTask and *)
(* Clear may happen at any point of it.  Each Run has its own copy, channel  *)
(* and WaitGroup; one Run at a time is modelled.                             *)
(*****************************************************************************)
EXTENDS Integers, Sequences, FiniteSets, Functions

CONSTANTS TaskIDs,    \* the strings used as task IDs
          DepLists,   \* the dependency lists a caller may give a task
          Priorities, \* the priorities a caller may give a task
          NoError,    \* the nil error; an error is named by the task it is of
          MaxCalls,   \* bound: calls of AddTask and Clear
          MaxRuns     \* bound: calls of Run

ASSUME TaskIDsAssumption == IsFiniteSet(TaskIDs) /\ NoError \notin TaskIDs
ASSUME DepListsAssumption == DepLists \subseteq Seq(TaskIDs) /\ <<>> \in DepLists
ASSUME PrioritiesAssumption == Priorities \subseteq Int /\ 0 \in Priorities
ASSUME BoundsAssumption == MaxCalls \in Nat /\ MaxRuns \in Nat

VARIABLES tasks,    \* s.tasks: ID -> Task
          inDegree, \* s.inDegree: ID -> number of dependencies
          calls,    \* AddTask and Clear calls so far
          runs,     \* Run calls so far
          phase,    \* of Run: "idle", "running" or "returned"
          plan,     \* Run's tasksByID (and, with it, allEdges)
          deg,      \* Run's inDegree
          queue,    \* Run's readyQueue
          routines, \* the goroutines Run started, in that order
          wg,       \* Run's WaitGroup counter
          errCh,    \* Run's error channel
          result    \* the error Run returned

tableVars == <<tasks, inDegree, calls>>
runVars == <<runs, phase, plan, deg, queue, routines, wg, errCh, result>>
vars == <<tableVars, runVars>>

Task == [deps : DepLists, fn : BOOLEAN, priority : Priorities]

\* What AddTask stores for a dependency it does not know yet: no function.
Placeholder == [deps |-> <<>>, fn |-> FALSE, priority |-> 0]

\* A goroutine: its task, where it is in its body, and its function's verdict.
Routine == [task : TaskIDs, st : {"spawned", "running", "sending", "done"},
            err : BOOLEAN]

\* Every map from some of the IDs to tasks.
Tables == UNION {[D -> Task] : D \in SUBSET TaskIDs}

Init ==
    /\ tasks = <<>> /\ inDegree = <<>> /\ calls = 0
    /\ runs = 0 /\ phase = "idle" /\ result = NoError
    /\ plan = <<>> /\ deg = <<>> /\ queue = <<>>
    /\ routines = <<>> /\ wg = 0 /\ errCh = <<>>

--------------------------------------------------------------------------------
(* The task table *)

\* The table with task under id and placeholders for unknown dependencies.
Registered(id, task) ==
    [t \in DOMAIN tasks \cup {id} \cup Range(task.deps) |->
        IF t = id THEN task
        ELSE IF t \in DOMAIN tasks THEN tasks[t] ELSE Placeholder]

AddTask(id, task) ==
    /\ calls < MaxCalls
    /\ calls' = calls + 1
    /\ tasks' = Registered(id, task)
    /\ inDegree' = [t \in DOMAIN inDegree \cup {id} |->
                       IF t = id THEN Len(task.deps) ELSE inDegree[t]]
    /\ UNCHANGED runVars

Clear ==
    /\ calls < MaxCalls
    /\ calls' = calls + 1
    /\ tasks' = <<>> /\ inDegree' = <<>>
    /\ UNCHANGED runVars

Table == Clear \/ \E id \in TaskIDs, task \in Task : AddTask(id, task)

--------------------------------------------------------------------------------
(* The dispatch loop: what both queues are fed with *)

\* Wrong on purpose: a repeated dependency is one edge.
SlotsOnce(p, t, d) == IF d \in Range(p[t].deps) THEN 1 ELSE 0

\* The edges of allEdges from d to t: one for each time t lists d.
Slots(p, t, d) == Cardinality({i \in DOMAIN p[t].deps : p[t].deps[i] = d})

\* Wrong on purpose: the test of Fn is missing.
InitiallyFree == {t \in DOMAIN inDegree : inDegree[t] = 0}

\* The loop that fills the queue at first.
InitiallyReady == {t \in DOMAIN inDegree : inDegree[t] = 0 /\ tasks[t].fn}

\* Wrong on purpose: every task's degree is decremented.
DecrementedAll(id) == [t \in DOMAIN deg |-> deg[t] - 1]

\* The degrees after the inner loop for the popped task id.
Decremented(id) == [t \in DOMAIN deg |-> deg[t] - Slots(plan, t, id)]

\* The tasks whose degree goes through zero in the inner loop for id.
NewlyReady(id) ==
    {t \in DOMAIN deg : deg[t] \in 1..Slots(plan, t, id) /\ plan[t].fn}

\* The orders map iteration may give the elements of S.
Orders(S) == Bijection(1..Cardinality(S), S)

\* Wrong on purpose: the channel of the last Run is used again.
SnapshotOldChannel ==
    /\ phase # "running" /\ runs < MaxRuns
    /\ runs' = runs + 1
    /\ phase' = "running"
    /\ plan' = tasks
    /\ deg' = inDegree
    /\ routines' = <<>> /\ wg' = 0
    /\ UNCHANGED <<tableVars, errCh, result>>

\* Run's reads under the lock, and its fresh WaitGroup and channel.
Snapshot ==
    /\ phase # "running" /\ runs < MaxRuns
    /\ runs' = runs + 1
    /\ phase' = "running"
    /\ plan' = tasks
    /\ deg' = inDegree
    /\ routines' = <<>> /\ wg' = 0 /\ errCh' = <<>>
    /\ UNCHANGED <<tableVars, result>>

\* wg.Add, the go statement and the inner loop, for a task already popped.
Spawn(id) ==
    /\ phase = "running"
    /\ wg' = wg + 1
    /\ routines' = Append(routines, [task |-> id, st |-> "spawned", err |-> FALSE])
    /\ deg' = Decremented(id)
    /\ UNCHANGED <<tableVars, runs, phase, plan, errCh, result>>

--------------------------------------------------------------------------------
(* The goroutines and the end of Run *)

\* Wrong on purpose: room for one error.
ErrCapOne == 1

\* The capacity of errCh.
ErrCap == Cardinality(DOMAIN plan)

\* A spawned goroutine gets to run and calls its task's function.
FnStart(i) ==
    /\ i \in DOMAIN routines /\ routines[i].st = "spawned"
    /\ routines' = [routines EXCEPT ![i].st = "running"]
    /\ UNCHANGED <<tableVars, runs, phase, plan, deg, queue, wg, errCh, result>>

\* The goroutine's function returns nil, and wg.Done runs.
FnOk(i) ==
    /\ i \in DOMAIN routines /\ routines[i].st = "running"
    /\ routines' = [routines EXCEPT ![i].st = "done"]
    /\ wg' = wg - 1
    /\ UNCHANGED <<tableVars, runs, phase, plan, deg, queue, errCh, result>>

\* The function returns an error: next is the send.
FnFail(i) ==
    /\ i \in DOMAIN routines /\ routines[i].st = "running"
    /\ routines' = [routines EXCEPT ![i].st = "sending", ![i].err = TRUE]
    /\ UNCHANGED <<tableVars, runs, phase, plan, deg, queue, wg, errCh, result>>

\* The send on errCh, which blocks while the channel is full, and wg.Done.
SendErr(i) ==
    /\ i \in DOMAIN routines /\ routines[i].st = "sending"
    /\ Len(errCh) < ErrCap
    /\ errCh' = Append(errCh, routines[i].task)
    /\ routines' = [routines EXCEPT ![i].st = "done"]
    /\ wg' = wg - 1
    /\ UNCHANGED <<tableVars, runs, phase, plan, deg, queue, result>>

Goroutine == \E i \in DOMAIN routines : FnStart(i) \/ FnOk(i) \/ FnFail(i) \/ SendErr(i)

\* Wrong on purpose: wg.Wait is missing.
NoWait == TRUE

\* wg.Wait lets Run through.
AllDone == wg = 0

\* Wrong on purpose: the errors are not looked at.
NilErr == NoError

\* The first value received from the closed channel, nil if there is none.
FirstErr == IF errCh = <<>> THEN NoError ELSE Head(errCh)

RunReturn ==
    /\ phase = "running" /\ queue = <<>>
    /\ AllDone
    /\ phase' = "returned"
    /\ result' = FirstErr
    /\ UNCHANGED <<tableVars, runs, plan, deg, queue, routines, wg, errCh>>

--------------------------------------------------------------------------------
(* Views of the state *)

\* The IDs launched so far, in order.
launchLog == [i \in DOMAIN routines |-> routines[i].task]

launched == Range(launchLog)

finished == {routines[i].task : i \in {j \in DOMAIN routines : routines[j].st = "done"}}

failed == {routines[i].task : i \in {j \in DOMAIN routines : routines[j].err}}

Contract == INSTANCE RunContract WITH Plans <- Tables

--------------------------------------------------------------------------------
(* Properties common to both schedulers *)

TableOK ==
    /\ tasks \in Tables
    /\ DOMAIN inDegree \subseteq TaskIDs /\ inDegree \in [DOMAIN inDegree -> Nat]
    /\ calls \in 0..MaxCalls

RunOK ==
    /\ runs \in 0..MaxRuns
    /\ phase \in {"idle", "running", "returned"}
    /\ plan \in Tables
    /\ DOMAIN deg \subseteq TaskIDs /\ deg \in [DOMAIN deg -> Nat]
    /\ routines \in Seq(Routine)
    /\ wg \in Nat
    /\ errCh \in Seq(TaskIDs)
    /\ result \in TaskIDs \cup {NoError}

\* Every counted task has an entry, closed under dependencies, with the degree
\* AddTask computed: what keeps Run from a nil task and a stuck counter, in
\* whatever order tasks and the tasks they depend on are (re)registered.
TableConsistent ==
    /\ DOMAIN inDegree \subseteq DOMAIN tasks
    /\ \A t \in DOMAIN inDegree : inDegree[t] = Len(tasks[t].deps)
    /\ \A t \in DOMAIN tasks : Range(tasks[t].deps) \subseteq DOMAIN tasks
    /\ \A t \in DOMAIN tasks \ DOMAIN inDegree : ~tasks[t].fn /\ tasks[t].deps = <<>>

\* A task's degree is the number of its dependency slots whose task has not
\* been launched: it counts a repeated dependency as often as the list does.
DegreeAccounts ==
    \A t \in DOMAIN deg :
        deg[t] = Cardinality({i \in DOMAIN plan[t].deps : plan[t].deps[i] \notin launched})

\* The WaitGroup counts the goroutines that are not over, so Run never returns
\* (and closes errCh) with one of its goroutines alive.
WaitGroupExact ==
    /\ wg = Cardinality({i \in DOMAIN routines : routines[i].st # "done"})
    /\ phase = "returned" => \A i \in DOMAIN routines : routines[i].st = "done"

\* A goroutine that has an error to report finds room in errCh, so none blocks
\* in front of a Run that is waiting for it.
SendNeverBlocks ==
    \A i \in DOMAIN routines : routines[i].st = "sending" => Len(errCh) < ErrCap

\* Run waits for just the goroutines that are still alive, and none of them for Run.
ReportsExact == WaitGroupExact /\ SendNeverBlocks

\* When Run is back, exactly the tasks that can be reached by launching were
\* launched, and all of them are over: the smallest saturated set of the table.
ExactAtReturn == Contract!ExactAtReturn
================================================================================
