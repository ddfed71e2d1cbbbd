-------------------------------- MODULE Watcher --------------------------------
(*****************************************************************************)
(* pkg/watch/watch.go: the loop goroutine collects the paths fsnotify names  *)
(* in a map and, if no timer is set, sets one; the timer's goroutine copies  *)
(* the map, replaces it, forgets the timer and offers what it copied to a    *)
(* bounded channel.  Only the timer's goroutine holds the lock while it uses *)
(* the map and batchTimer; the loop uses both without it.                    *)
(*                                                                           *)
(* An event stands for its path.  fsnotify (external) hands over the changes *)
(* one by one.  A write to the map while another goroutine ranges over it    *)
(* may be seen or not seen, or end the program.                              *)
(*****************************************************************************)
EXTENDS Integers, Sequences, FiniteSets

CONSTANTS Paths,          \* what can change
          Ignored,        \* paths the loop skips (.DS_Store, Thumbs.db)
          Timers,         \* bound: the timers, 1..n; one for each change is enough
          ChanCap,        \* capacity of events (100 in the code)
          MaxChanges,     \* bound: changes reported by fsnotify
          None

ASSUME IgnoredAssumption == Ignored \subseteq Paths
ASSUME ChanCapAssumption == ChanCap \in Nat \ {0}
ASSUME TimersAssumption == IsFiniteSet(Timers) /\ Timers = 1..Cardinality(Timers)
ASSUME MaxChangesAssumption == MaxChanges \in Nat /\ MaxChanges <= Cardinality(Timers)
ASSUME NoneAssumption == None \notin Timers /\ None \notin Paths

VARIABLES start,      \* "new", "started" or "failed"
          raw,        \* changes fsnotify has not handed over yet
          changes,    \* how many there were
          loop,       \* "select", "callback", "insert", "check", "assign", "stopping" or "exited"
          cur,        \* the event in the loop's hand
          batch,      \* the paths in the map
          batchTimer, \* the variable: a timer or None
          timer,      \* timer -> what it, or its goroutine, is doing
          copied,     \* timer -> paths its goroutine has still to send
          mu,         \* the timer whose goroutine holds the lock, or None
          events,     \* the channel
          stop,       \* Stop: "no", "closing", "waiting" or "returned"
          crashed,    \* an unlocked use of the map or of batchTimer ended the program
          owed,       \* history: path -> events taken and not yet sent or refused
          due,        \* history: changed paths the channel has not had since
          missed      \* history: those refused, or inserted while mu was held

vars == <<start, raw, changes, loop, cur, batch, batchTimer, timer, copied, mu, events, stop,
          crashed, owed, due, missed>>

loopVars == <<loop, cur>>
timerVars == <<timer, copied, mu>>
mapVars == <<batch, batchTimer>>
envVars == <<start, raw, changes, stop>>
history == <<owed, due, missed>>

\* A timer's goroutine locks, ranges over the map, replaces it, forgets the
\* timer and unlocks, and sends.
Holding == {"ranging", "copied", "replaced"}

Unused == {t \in Timers : timer[t] = "unused"}

Max(S) == CHOOSE x \in S : \A y \in S : y <= x

\* The timers are created in order.
Created == Timers \ Unused

NextTimer == Cardinality(Created) + 1

--------------------------------------------------------------------------------
Init ==
    /\ start = "new" /\ raw = <<>> /\ changes = 0
    /\ loop = "select" /\ cur = None
    /\ batch = {} /\ batchTimer = None
    /\ timer = [t \in Timers |-> "unused"] /\ copied = [t \in Timers |-> {}] /\ mu = None
    /\ events = <<>> /\ stop = "no" /\ crashed = FALSE
    /\ owed = [p \in Paths |-> 0] /\ due = {} /\ missed = {}

Start ==
    /\ start = "new" /\ stop = "no"
    /\ start' \in {"started", "failed"}
    /\ UNCHANGED <<raw, changes, loopVars, mapVars, timerVars, events, stop, crashed, history>>

\* fsnotify sees a change, until it is closed.
Change(p) ==
    /\ start = "started" /\ stop \in {"no", "closing"} /\ changes < MaxChanges
    /\ changes' = changes + 1
    /\ raw' = Append(raw, p)
    /\ UNCHANGED <<start, stop, loopVars, mapVars, timerVars, events, crashed, history>>

--------------------------------------------------------------------------------
(* The loop                                                                  *)

Looping(at) == start = "started" /\ ~crashed /\ loop = at

\* The loop takes an event; fsnotify's channel gives none once it is closed.
TakeEvent ==
    /\ Looping("select") /\ raw # <<>> /\ stop \in {"no", "closing"}
    /\ raw' = Tail(raw)
    /\ IF Head(raw) \in Ignored THEN UNCHANGED <<loopVars, history>>
       ELSE /\ loop' = "callback" /\ cur' = Head(raw)
            /\ owed' = [owed EXCEPT ![Head(raw)] = @ + 1]
            /\ due' = due \cup {Head(raw)}
            /\ UNCHANGED missed
    /\ UNCHANGED <<start, changes, stop, mapVars, timerVars, events, crashed>>

\* It locks, calls the callback and unlocks.
Callback ==
    /\ Looping("callback") /\ mu = None
    /\ loop' = "insert"
    /\ UNCHANGED <<cur, envVars, mapVars, timerVars, events, crashed, history>>

\* It writes the event into the map, holding no lock.  A goroutine that is
\* ranging over the map may or may not come across it.
Insert ==
    /\ Looping("insert")
    /\ batch' = batch \cup {cur}
    /\ loop' = "check"
    /\ missed' = IF mu = None THEN missed ELSE missed \cup {cur}
    /\ \/ UNCHANGED <<copied, crashed>>
       \/ \E t \in Timers :
              /\ timer[t] = "ranging"
              /\ \/ copied' = [copied EXCEPT ![t] = @ \cup {cur}] /\ UNCHANGED crashed
                 \/ crashed' = TRUE /\ UNCHANGED copied
    /\ UNCHANGED <<cur, envVars, batchTimer, timer, mu, events, owed, due>>

\* Wrong on purpose: a timer is set for each event.
TimerNeverSet == TRUE

TimerNotSet == batchTimer = None

\* It looks at batchTimer, holding no lock, and starts a timer if there is none.
Check ==
    /\ Looping("check")
    /\ cur' = None
    /\ IF TimerNotSet
       THEN /\ timer' = [timer EXCEPT ![NextTimer] = "armed"]
            /\ loop' = "assign"
       ELSE loop' = "select" /\ UNCHANGED timer
    /\ UNCHANGED <<envVars, mapVars, copied, mu, events, crashed, history>>

\* The new timer is assigned to batchTimer: it may have fired by now.
Assign ==
    /\ Looping("assign")
    /\ batchTimer' = Max(Created)
    /\ loop' = "select"
    /\ UNCHANGED <<cur, envVars, batch, timerVars, events, crashed, history>>

\* The loop sees that stop is closed, and looks whether there is a timer.
SeeStop ==
    /\ Looping("select") /\ stop # "no"
    /\ loop' = IF batchTimer = None THEN "exited" ELSE "stopping"
    /\ UNCHANGED <<cur, envVars, mapVars, timerVars, events, crashed, history>>

\* It stops the timer if it has not fired; if a goroutine has forgotten the
\* timer meanwhile, that is a call on a nil pointer.
StopTimer ==
    /\ Looping("stopping")
    /\ IF batchTimer = None
       THEN crashed' = TRUE /\ UNCHANGED <<loop, timer>>
       ELSE /\ loop' = "exited"
            /\ timer' = [timer EXCEPT ![batchTimer] = IF @ = "armed" THEN "stopped" ELSE @]
            /\ UNCHANGED crashed
    /\ UNCHANGED <<cur, envVars, mapVars, copied, mu, events, history>>

\* The loop sees that fsnotify is closed, which leaves the timer as it is.
SeeClosed ==
    /\ Looping("select") /\ stop \in {"waiting", "returned"}
    /\ loop' = "exited"
    /\ UNCHANGED <<cur, envVars, mapVars, timerVars, events, crashed, history>>

Loop == TakeEvent \/ Callback \/ Insert \/ Check \/ Assign \/ SeeStop \/ StopTimer \/ SeeClosed

--------------------------------------------------------------------------------
(* The timers                                                                *)

At(t, state, next) == ~crashed /\ timer[t] = state /\ timer' = [timer EXCEPT ![t] = next]

Fire(t) ==
    /\ At(t, "armed", "fired")
    /\ UNCHANGED <<loopVars, envVars, mapVars, copied, mu, events, crashed, history>>

\* Wrong on purpose: only one path is copied.
FirstOfBatch == {p \in batch : p = CHOOSE q \in batch : TRUE}

WholeBatch == batch

Lock(t) ==
    /\ mu = None /\ At(t, "fired", "ranging")
    /\ mu' = t
    /\ copied' = [copied EXCEPT ![t] = WholeBatch]
    /\ UNCHANGED <<loopVars, envVars, mapVars, events, crashed, history>>

RangeEnd(t) ==
    /\ At(t, "ranging", "copied")
    /\ UNCHANGED <<loopVars, envVars, mapVars, copied, mu, events, crashed, history>>

\* Wrong on purpose: the map is used again.
SameBatch == batch

NewBatch == {}

Replace(t) ==
    /\ At(t, "copied", "replaced")
    /\ batch' = NewBatch
    /\ UNCHANGED <<loopVars, envVars, batchTimer, copied, mu, events, crashed, history>>

\* Wrong on purpose: the lock is kept.
StillLocked == mu

Unlocked == None

\* batchTimer is forgotten and the lock released.
Unlock(t) ==
    /\ At(t, "replaced", "sending")
    /\ batchTimer' = None /\ mu' = Unlocked
    /\ UNCHANGED <<loopVars, envVars, batch, copied, events, crashed, history>>

\* Wrong on purpose: one event too many.
HasRoomForOneMore == Len(events) <= ChanCap

HasRoom == Len(events) < ChanCap

\* An event is offered to the channel: a full channel refuses it.
Send(t, p) ==
    /\ ~crashed /\ timer[t] = "sending" /\ p \in copied[t]
    /\ copied' = [copied EXCEPT ![t] = @ \ {p}]
    /\ owed' = [owed EXCEPT ![p] = @ - 1]
    /\ IF HasRoom
       THEN events' = Append(events, p) /\ due' = due \ {p} /\ missed' = missed \ {p}
       ELSE missed' = missed \cup {p} /\ UNCHANGED <<events, due>>
    /\ UNCHANGED <<loopVars, envVars, mapVars, timer, mu, crashed>>

TimerStep(t) ==
    \/ Fire(t) \/ Lock(t) \/ RangeEnd(t) \/ Replace(t) \/ Unlock(t)
    \/ \E p \in Paths : Send(t, p)

--------------------------------------------------------------------------------
(* The callers                                                               *)

\* Who reads the channel.
Receive ==
    /\ ~crashed /\ events # <<>>
    /\ events' = Tail(events)
    /\ UNCHANGED <<loopVars, envVars, mapVars, timerVars, crashed, history>>

\* Stop closes stop, closes fsnotify and waits for the loop's end.  Those who
\* call it have seen Start succeed: without a loop it would wait for ever.
CallStop ==
    /\ ~crashed /\ stop = "no" /\ start = "started"
    /\ stop' = "closing"
    /\ UNCHANGED <<start, raw, changes, loopVars, mapVars, timerVars, events, crashed, history>>

CloseFsnotify ==
    /\ ~crashed /\ stop = "closing"
    /\ stop' = "waiting"
    /\ raw' = <<>>
    /\ UNCHANGED <<start, changes, loopVars, mapVars, timerVars, events, crashed, history>>

StopReturn ==
    /\ ~crashed /\ stop = "waiting" /\ loop = "exited"
    /\ stop' = "returned"
    /\ UNCHANGED <<start, raw, changes, loopVars, mapVars, timerVars, events, crashed, history>>

Next ==
    \/ Start \/ Loop \/ Receive
    \/ CallStop \/ CloseFsnotify \/ StopReturn
    \/ \E p \in Paths : Change(p)
    \/ \E t \in Timers : TimerStep(t)

Spec == Init /\ [][Next]_vars

\* The goroutines run, the timers fire, a Stop that was called goes on, and
\* somebody reads the channel.  Nobody has to change a file or call Stop.
Fairness ==
    /\ WF_vars(Loop) /\ WF_vars(Receive)
    /\ WF_vars(CloseFsnotify \/ StopReturn)
    /\ \A t \in Timers : WF_vars(TimerStep(t))

FairSpec == Spec /\ Fairness

--------------------------------------------------------------------------------
\* The types of the watcher's state; the channel never exceeds its capacity.
TypeOK ==
    /\ start \in {"new", "started", "failed"} /\ raw \in Seq(Paths) /\ changes \in 0..MaxChanges
    /\ loop \in {"select", "callback", "insert", "check", "assign", "stopping", "exited"}
    /\ cur \in Paths \cup {None} /\ batch \subseteq Paths /\ batchTimer \in Timers \cup {None}
    /\ timer \in [Timers -> {"unused", "armed", "fired", "sending", "stopped"} \cup Holding]
    /\ copied \in [Timers -> SUBSET Paths] /\ mu \in Timers \cup {None}
    /\ events \in Seq(Paths) /\ Len(events) <= ChanCap
    /\ stop \in {"no", "closing", "waiting", "returned"} /\ crashed \in BOOLEAN
    /\ owed \in [Paths -> 0..MaxChanges] /\ due \subseteq Paths /\ missed \subseteq Paths

InHand == IF loop \in {"callback", "insert"} THEN {cur} ELSE {}

InCopies == UNION {copied[t] : t \in Timers}

\* A changed path the channel has not had since is on its way to it, or was
\* refused by it, or was written to the map while a goroutine held the lock.
LossAccounted == due \subseteq InHand \cup batch \cup InCopies \cup missed

\* batchTimer holds a timer that will not fire any more: the goroutine forgot
\* the timer before the loop assigned it.
TimerStale == batchTimer # None /\ timer[batchTimer] = "sending"

\* A changed path that is in the map, and was not written to it while a
\* goroutine held the lock, is going to be copied, or was, by a timer's
\* goroutine, or the loop is about to look for a timer, or Stop was called, or
\* the timer that is set is a stale one.
BatchIsTimed ==
    \A p \in (batch \cap due) \ (InHand \cup missed) :
        \/ loop = "check" \/ stop # "no" \/ TimerStale
        \/ \E t \in Timers : timer[t] \in {"armed", "fired"} \/ (timer[t] \in Holding /\ p \in copied[t])

\* One event taken is sent or refused once, merged with others or not, however
\* the goroutines overlap: as many as are on their way are still owed.
SentOnce ==
    \A p \in Paths :
        LET holders == {t \in Timers : p \in copied[t]}
            inBatch == p \in batch /\ \A t \in holders : timer[t] \notin {"ranging", "copied"}
        IN  Cardinality(holders) + (IF inBatch THEN 1 ELSE 0) + (IF p \in InHand THEN 1 ELSE 0)
                <= owed[p]

\* At most one timer is set, or has fired and not yet been forgotten.
OneTimer == Cardinality({t \in Timers : timer[t] \in {"armed", "fired"} \cup Holding}) <= 1

\* What is in the map waits for one timer, not for none and not for two.
BatchTimedOnce == BatchIsTimed /\ OneTimer

\* A Stop that was called comes back, whatever the loop and the timers are
\* doing then.
StopEnds == stop = "closing" ~> (stop = "returned" \/ crashed)

\* "Watcher watches filesystem changes using fsnotify" (watch.go:28): whoever
\* reads the events learns of every change.
ChangesToldEventually ==
    \A p \in Paths : p \in due ~> (p \notin due \/ stop # "no" \/ crashed)
================================================================================
