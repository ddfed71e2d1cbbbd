--------------------------- MODULE PriorityScheduler ---------------------------
(*****************************************************************************)
(* pkg/scheduler/steal.go: PriorityScheduler, whose ready queue is a         *)
(* container/heap with the highest priority on top.  Run is otherwise the    *)
(* Run of Scheduler.  The worker count given to NewPriorityScheduler and     *)
(* activeWorkers are left out: Run reads neither.                            *)
(*****************************************************************************)
EXTENDS TaskRun

\* PQItem: a task in the queue, with the priority it was pushed with.
PQItem == [task : TaskIDs, priority : Priorities]

Item(p, t) == [task |-> t, priority |-> p[t].priority]

\* Wrong on purpose: the lowest priority goes first.
Below(x, y) == x.priority < y.priority

\* PriorityQueue.Less.
Above(x, y) == x.priority > y.priority

PQ == INSTANCE Heap WITH Less <- Above

\* q after heap.Push of an item for each task of order.
PushReady(p, q, order) ==
    LET pushed[i \in 0..Len(order)] ==
            IF i = 0 THEN q ELSE PQ!Push(pushed[i - 1], Item(p, order[i]))
    IN  pushed[Len(order)]

\* Run takes its copy and pushes the tasks of degree 0, in map order.
PriorityBegin ==
    /\ Snapshot
    /\ \E order \in Orders(InitiallyReady) :
           queue' = PQ!Heapify(PushReady(tasks, <<>>, order))

\* One turn of the dispatch loop.
PriorityDispatch ==
    /\ queue # <<>>
    /\ Spawn(Head(queue).task)
    /\ \E order \in Orders(NewlyReady(Head(queue).task)) :
           queue' = PushReady(plan, PQ!PopRest(queue), order)

PriorityStep == PriorityDispatch \/ Goroutine \/ RunReturn

PriorityNext == Table \/ PriorityBegin \/ PriorityStep

PrioritySpec == Init /\ [][PriorityNext]_vars

--------------------------------------------------------------------------------
\* The types of the table, of the Run in progress and of its queue.
PriorityTypeOK == TableOK /\ RunOK /\ queue \in Seq(PQItem)

\* The ready queue is a heap whenever the loop looks at it.
QueueIsHeap == PQ!IsHeap(queue)

\* The priority scheduler keeps the contract of Run too.
PriorityImplementsContract == Contract!Spec

\* A task is launched only when no launchable task has a higher priority: not
\* one made ready a moment ago, nor one that has been waiting deep in the heap.
HighestFirst ==
    [][\A t \in TaskIDs : Contract!Launch(t) =>
           \A u \in DOMAIN plan : Contract!Launchable(plan, launched, u) =>
               plan[u].priority <= plan[t].priority]_vars
================================================================================
