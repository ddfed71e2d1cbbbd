------------------------------ MODULE Timeline ------------------------------
(***************************************************************************)
(* The build timeline and the memory tracker (tracing.go).  Workers begin  *)
(* and end phases by name; an End closes the last event of that name whose *)
(* duration is zero, whoever began it.  The clock may stand still between  *)
(* two calls.                                                              *)
(***************************************************************************)
EXTENDS Naturals, Sequences, FiniteSets

CONSTANTS PhaseWorkers,
          PhaseNames,
          HeapSizes,
          MaxPhases,        \* bound: calls of Begin
          MaxTicks,         \* bound: the clock
          MaxSnapshots      \* bound: calls of Snapshot

VARIABLES
    clock,
    events,     \* Timeline.events
    snapshots, peak,
    captured,   \* what each worker's Snapshot has read and not yet recorded
    inPhase,    \* history: the phases each worker is in, with their starts
    spent,      \* history: the time the workers spent in phases they ended
    sameTick    \* history: a phase ended at the tick of the event End chose

timelineVars == <<clock, events, snapshots, peak, captured, inPhase, spent, sameTick>>
phaseVars == <<events, inPhase, spent, sameTick>>
memoryVars == <<snapshots, peak, captured>>

Nothing == 0

ASSUME TimelineAssumption == HeapSizes \subseteq Nat \ {Nothing} /\ MaxTicks \in Nat

TimelineInit ==
    /\ clock = 0 /\ events = <<>> /\ snapshots = <<>> /\ peak = Nothing
    /\ captured = [w \in PhaseWorkers |-> Nothing]
    /\ inPhase = [w \in PhaseWorkers |-> <<>>]
    /\ spent = 0 /\ sameTick = FALSE

Tick ==
    /\ clock < MaxTicks /\ events # <<>> /\ clock' = clock + 1
    /\ UNCHANGED <<phaseVars, memoryVars>>

BeginPhase(w, name) ==
    /\ Len(events) < MaxPhases
    /\ events' = Append(events, [name |-> name, start |-> clock, duration |-> 0])
    /\ inPhase' = [inPhase EXCEPT ![w] = Append(@, [name |-> name, start |-> clock])]
    /\ UNCHANGED <<clock, spent, sameTick, memoryVars>>

Open(name) == {i \in DOMAIN events : events[i].name = name /\ events[i].duration = 0}
Latest(s) == CHOOSE i \in s : \A j \in s : j <= i

\* Wrong on purpose: the time since the timeline was made.
Uptime(e) == clock
Elapsed(e) == clock - e.start

\* A worker ends the phase it began last.
EndPhase(w) ==
    /\ inPhase[w] # <<>>
    /\ LET phase == inPhase[w][Len(inPhase[w])]
           open == Open(phase.name)
       IN  /\ IF open = {} THEN UNCHANGED <<events, sameTick>>
              ELSE LET i == Latest(open) IN
                   /\ events' = [events EXCEPT ![i].duration = Elapsed(events[i])]
                   /\ sameTick' = (sameTick \/ clock = events[i].start)
           /\ spent' = spent + (clock - phase.start)
    /\ inPhase' = [inPhase EXCEPT ![w] = SubSeq(@, 1, Len(@) - 1)]
    /\ UNCHANGED <<clock, memoryVars>>

TotalDuration ==
    LET Sum[n \in 0 .. Len(events)] == IF n = 0 THEN 0 ELSE Sum[n - 1] + events[n].duration
    IN  Sum[Len(events)]

\* Snapshot reads the memory before it takes the lock.
CaptureProfile(w, heap) ==
    /\ captured[w] = Nothing
    /\ Len(snapshots) + Cardinality({v \in PhaseWorkers : captured[v] # Nothing}) < MaxSnapshots
    /\ captured' = [captured EXCEPT ![w] = heap]
    /\ UNCHANGED <<clock, phaseVars, snapshots, peak>>

\* Wrong on purpose: the snapshot recorded last.
LastRecorded(heap) == heap
Higher(heap) == IF heap > peak THEN heap ELSE peak

RecordSnapshot(w) ==
    /\ captured[w] # Nothing
    /\ snapshots' = Append(snapshots, captured[w])
    /\ peak' = Higher(captured[w])
    /\ captured' = [captured EXCEPT ![w] = Nothing]
    /\ UNCHANGED <<clock, phaseVars>>

TimelineNext ==
    \/ Tick
    \/ \E w \in PhaseWorkers :
        \/ \E name \in PhaseNames : BeginPhase(w, name)
        \/ EndPhase(w)
        \/ \E heap \in HeapSizes : CaptureProfile(w, heap)
        \/ RecordSnapshot(w)

TimelineSpec == TimelineInit /\ [][TimelineNext]_timelineVars

TimelineTypeOK ==
    /\ clock \in 0 .. MaxTicks /\ spent \in Nat /\ sameTick \in BOOLEAN
    /\ \A i \in DOMAIN events :
        events[i].name \in PhaseNames /\ events[i].start + events[i].duration <= clock
    /\ captured \in [PhaseWorkers -> HeapSizes \cup {Nothing}]

-----------------------------------------------------------------------------
(* Properties                                                              *)

\* Workers that are in phases of the same name at the same time may end each
\* other's events, and single durations are then wrong; but once all phases have
\* ended the total is the time the workers spent in them, and every event is
\* closed, unless a phase ended at the very tick it began, which leaves its event
\* open for the next End.  The peak is the largest snapshot, in whatever order
\* they were taken and recorded.
TimelineExact ==
    /\ (\A w \in PhaseWorkers : inPhase[w] = <<>>) /\ ~sameTick =>
        /\ TotalDuration = spent
        /\ \A name \in PhaseNames : Open(name) = {}
    /\ \A i \in DOMAIN snapshots : snapshots[i] <= peak
    /\ snapshots # <<>> => \E i \in DOMAIN snapshots : snapshots[i] = peak

=============================================================================
