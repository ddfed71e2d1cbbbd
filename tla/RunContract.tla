------------------------------ MODULE RunContract ------------------------------
(*****************************************************************************)
(* What one call of Run promises, whatever order the scheduler takes ready  *)
(* tasks in and however the goroutines it starts are interleaved.  A task is *)
(* launched once, only if it has a function and only after every dependency *)
(* it lists was launched; Run returns when nothing more can be launched and *)
(* every launched function is over; the result is an error iff one failed.  *)
(*                                                                           *)
(* "Launched" is the promise of the code, not "finished": scheduler.go      *)
(* counts a dependency as met as soon as its goroutine is started.           *)
(*****************************************************************************)
EXTENDS Integers, Sequences, FiniteSets, Functions

CONSTANTS TaskIDs,  \* the strings used as task IDs
          Plans,    \* the task tables a Run may read
          NoError   \* the nil error

\* A table maps some of the IDs to tasks.
PlansAreTables == \A p \in Plans : DOMAIN p \subseteq TaskIDs

VARIABLES phase,    \* "idle", "running" or "returned"
          plan,     \* the tasks this Run has read: ID -> record
          launched, \* IDs whose goroutine was started
          finished, \* IDs whose function is over and reported
          failed,   \* IDs whose function returned an error
          result    \* the value Run returned: a failed task, or NoError

contractVars == <<phase, plan, launched, finished, failed, result>>

Deps(p, t) == Range(p[t].deps)

\* A task that may be launched, given what was launched before it.
Launchable(p, done, t) ==
    /\ t \in DOMAIN p \ done
    /\ p[t].fn
    /\ Deps(p, t) \subseteq done

Init ==
    /\ phase = "idle"
    /\ plan = <<>>
    /\ launched = {} /\ finished = {} /\ failed = {}
    /\ result = NoError

Begin ==
    /\ phase # "running"
    /\ phase' = "running"
    /\ plan' \in Plans
    /\ launched' = {} /\ finished' = {} /\ failed' = {}
    /\ UNCHANGED result

Launch(t) ==
    /\ phase = "running"
    /\ Launchable(plan, launched, t)
    /\ launched' = launched \cup {t}
    /\ UNCHANGED <<phase, plan, finished, failed, result>>

Fail(t) ==
    /\ phase = "running"
    /\ t \in launched \ (finished \cup failed)
    /\ failed' = failed \cup {t}
    /\ UNCHANGED <<phase, plan, launched, finished, result>>

Finish(t) ==
    /\ phase = "running"
    /\ t \in launched \ finished
    /\ finished' = finished \cup {t}
    /\ UNCHANGED <<phase, plan, launched, failed, result>>

\* Nothing more can be launched.
Exhausted == \A t \in DOMAIN plan : ~Launchable(plan, launched, t)

\* What Run may return: one of the errors, or nil if there is none.
Outcomes == IF failed = {} THEN {NoError} ELSE failed

Return ==
    /\ phase = "running"
    /\ launched = finished
    /\ Exhausted
    /\ phase' = "returned"
    /\ result' \in Outcomes
    /\ UNCHANGED <<plan, launched, finished, failed>>

Next ==
    \/ Begin
    \/ \E t \in TaskIDs : Launch(t) \/ Fail(t) \/ Finish(t)
    \/ Return

Spec == Init /\ [][Next]_contractVars

--------------------------------------------------------------------------------
(* A set of tasks is saturated when every task that could be launched after *)
(* it is already in it.  The tasks a Run should execute are the smallest     *)
(* saturated set: what can be reached by launching until nothing is left.   *)
Saturated(p, S) == \A t \in DOMAIN p : ~Launchable(p, S, t)

ContractTypeOK ==
    /\ phase \in {"idle", "running", "returned"}
    /\ DOMAIN plan \subseteq TaskIDs
    /\ launched \subseteq DOMAIN plan
    /\ finished \subseteq launched
    /\ failed \subseteq launched
    /\ result \in TaskIDs \cup {NoError}

\* Nothing is launched that some saturated set does without.
LaunchedNeeded ==
    \A S \in SUBSET TaskIDs : Saturated(plan, S) => launched \subseteq S

\* When Run is back, exactly the smallest saturated set was launched and has
\* finished: no runnable task is forgotten and none runs for no reason.
ExactAtReturn ==
    phase = "returned" =>
        /\ Saturated(plan, launched)
        /\ finished = launched
        /\ LaunchedNeeded

\* When Run is back, it returned an error iff one of its functions failed.
FailureReported ==
    phase = "returned" => IF failed = {} THEN result = NoError ELSE result \in failed
================================================================================
