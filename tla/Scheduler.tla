------------------------------- MODULE Scheduler -------------------------------
(*****************************************************************************)
(* pkg/scheduler/scheduler.go: Scheduler, whose ready queue is a slice used  *)
(* first in, first out.                                                      *)
(*****************************************************************************)
EXTENDS TaskRun

\* Run takes its copy and queues the tasks of degree 0, in map order.
RunBegin ==
    /\ Snapshot
    /\ queue' \in Orders(InitiallyReady)

\* One turn of the dispatch loop.
Dispatch ==
    /\ queue # <<>>
    /\ Spawn(Head(queue))
    /\ \E order \in Orders(NewlyReady(Head(queue))) : queue' = Tail(queue) \o order

RunStep == Dispatch \/ Goroutine \/ RunReturn

Next == Table \/ RunBegin \/ RunStep

Spec == Init /\ [][Next]_vars

\* The Go scheduler does not starve the loop or a goroutine, and a task's
\* function, which the caller supplies, is taken to return.
FairSpec == Spec /\ WF_vars(RunStep)

--------------------------------------------------------------------------------
\* The types of the table, of the Run in progress and of its queue.
TypeOK == TableOK /\ RunOK /\ queue \in Seq(TaskIDs)

\* No task is dispatched twice in a Run, or queued twice, or queued after it
\* was dispatched: its degree reaches zero once, duplicates in Deps included.
DispatchOnce == IsInjective(launchLog \o queue)

\* The queue holds just the tasks that can be launched now.
QueueExact ==
    phase = "running" =>
        Range(queue) = {t \in DOMAIN plan : Contract!Launchable(plan, launched, t)}

\* The table, the degrees, the queue and the launches agree at every step of a
\* Run, whatever AddTask and Clear do to the table meanwhile.
BookkeepingExact == TableConsistent /\ DegreeAccounts /\ QueueExact /\ DispatchOnce

\* Scheduler implements the contract of Run: each task at most once, after
\* its dependencies were launched, none forgotten, the failure reported.
ImplementsContract == Contract!Spec

\* A Run that has begun returns: with the errors in errCh and the WaitGroup,
\* no loop, goroutine or wait is left hanging.
RunTerminates == phase = "running" ~> phase = "returned"

\* "Run executes all tasks in dependency order" (scheduler.go:45): a function
\* runs only after the functions of its task's dependencies are over.
RunsAfterDependencies ==
    \A i \in DOMAIN routines : routines[i].st = "running" =>
        \A d \in Range(plan[routines[i].task].deps) : plan[d].fn => d \in finished
================================================================================
