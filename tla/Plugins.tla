------------------------------- MODULE Plugins -------------------------------
(***************************************************************************)
(* The plugin manager (plugins.go).  A hook's list is a Go slice: a        *)
(* backing array and a length.  Execute takes the slice under the lock and *)
(* runs through the array after it has released it, while Unregister moves *)
(* elements in the same array and Register may append to it.               *)
(***************************************************************************)
EXTENDS Naturals, Sequences, FiniteSets

CONSTANTS PluginNames,
          Hooks,
          HooksOf,      \* the hook each plugin names; the lists of several share nothing
          Callers,      \* goroutines that call Execute
          MaxRegs,      \* bound: calls of Register and Clear
          MaxExecs      \* bound: calls of Execute

VARIABLES
    registered, \* the names in `plugins`
    arrays,     \* all backing arrays, each as long as its capacity
    slices,     \* each hook's array, 0 for nil, and length
    lock,       \* what Unregister has still to do while it holds the lock
    exec,       \* each caller's Execute
    regs, execs,
    crashed     \* a torn interface value was used

pluginVars == <<registered, arrays, slices, lock, exec, regs, execs, crashed>>

NoPlugin == "none"

ASSUME PluginsAssumption ==
    /\ NoPlugin \notin PluginNames
    /\ HooksOf \in [PluginNames -> Hooks]
    /\ MaxRegs \in Nat /\ MaxExecs \in Nat

Unlocked == [name |-> NoPlugin]
NoExec == [at |-> "idle"]

PluginTypeOK ==
    /\ registered \subseteq PluginNames
    /\ \A a \in DOMAIN arrays : arrays[a] \in Seq(PluginNames \cup {NoPlugin})
    /\ \A h \in Hooks : /\ slices[h].arr \in 0 .. Len(arrays)
                        /\ slices[h].arr > 0 => slices[h].len <= Len(arrays[slices[h].arr])
    /\ lock.name \in PluginNames \cup {NoPlugin}
    /\ \A c \in Callers : exec[c].at \in {"idle", "running", "done", "failed"}
    /\ regs \in 0 .. MaxRegs /\ execs \in 0 .. MaxExecs /\ crashed \in BOOLEAN

PluginInit ==
    /\ registered = {} /\ arrays = <<>>
    /\ slices = [h \in Hooks |-> [arr |-> 0, len |-> 0]]
    /\ lock = Unlocked
    /\ exec = [c \in Callers |-> NoExec]
    /\ regs = 0 /\ execs = 0 /\ crashed = FALSE

Elements(s) == IF s.arr = 0 THEN <<>> ELSE SubSeq(arrays[s.arr], 1, s.len)

\* History: what is registered from now on is part of every Execute under way.
Note(names) == [c \in Callers |->
    IF exec[c].at = "running" THEN [exec[c] EXCEPT !.known = @ \cup names] ELSE exec[c]]

\* append: in place while there is room, else in a new array of twice the size.
Append1(s, p) ==
    IF s.arr > 0 /\ s.len < Len(arrays[s.arr])
    THEN /\ arrays' = [arrays EXCEPT ![s.arr][s.len + 1] = p]
         /\ slices' = [slices EXCEPT ![HooksOf[p]] = [arr |-> s.arr, len |-> s.len + 1]]
    ELSE LET room == IF s.len = 0 THEN 1 ELSE 2 * s.len IN
         /\ arrays' = Append(arrays, [i \in 1 .. room |->
                IF i <= s.len THEN arrays[s.arr][i] ELSE IF i = s.len + 1 THEN p ELSE NoPlugin])
         /\ slices' = [slices EXCEPT ![HooksOf[p]] = [arr |-> Len(arrays) + 1, len |-> s.len + 1]]

\* An Execute is just reading the cell.
Reads(c, arr, cell) ==
    /\ exec[c].at = "running" /\ exec[c].slice.arr = arr
    /\ Len(exec[c].ran) + 1 = cell /\ cell <= exec[c].slice.len

\* A name that is registered is refused.  A cell that is written in place while an
\* Execute with a longer slice reads it may be read half old, half new.
Register(p) ==
    /\ lock = Unlocked /\ regs < MaxRegs
    /\ regs' = regs + 1
    /\ IF p \in registered THEN UNCHANGED <<registered, arrays, slices, exec, crashed>>
       ELSE LET s == slices[HooksOf[p]] IN
            /\ registered' = registered \cup {p}
            /\ Append1(s, p)
            /\ exec' = Note({p})
            /\ \/ UNCHANGED crashed
               \/ (\E c \in Callers : Reads(c, s.arr, s.len + 1)) /\ crashed' = TRUE
    /\ UNCHANGED <<lock, execs>>

PlaceOf(p, s) == CHOOSE i \in 1 .. s.len : Elements(s)[i] = p

\* Unregister finds the plugin in its hook's list and moves what is behind it.
UnregisterBegin(p) ==
    /\ lock = Unlocked /\ p \in registered
    /\ registered' = registered \ {p}
    /\ lock' = [name |-> p, next |-> PlaceOf(p, slices[HooksOf[p]])]
    /\ exec' = [c \in Callers |-> IF exec[c].at = "running" THEN [exec[c] EXCEPT !.moved = TRUE]
                                                            ELSE exec[c]]
    /\ UNCHANGED <<arrays, slices, regs, execs, crashed>>

MoveElement ==
    /\ lock # Unlocked
    /\ LET s == slices[HooksOf[lock.name]] IN
        /\ lock.next < s.len
        /\ arrays' = [arrays EXCEPT ![s.arr][lock.next] = arrays[s.arr][lock.next + 1]]
    /\ lock' = [name |-> lock.name, next |-> lock.next + 1]
    /\ UNCHANGED <<registered, slices, exec, regs, execs, crashed>>

\* Wrong on purpose: the slice keeps its length.
UnregisterKeepsLength ==
    /\ lock # Unlocked
    /\ lock.next = slices[HooksOf[lock.name]].len
    /\ lock' = Unlocked
    /\ UNCHANGED <<registered, arrays, slices, exec, regs, execs, crashed>>

\* The slice is one shorter; the array keeps its last element.
UnregisterEnd ==
    /\ lock # Unlocked
    /\ lock.next = slices[HooksOf[lock.name]].len
    /\ slices' = [slices EXCEPT ![HooksOf[lock.name]].len = @ - 1]
    /\ lock' = Unlocked
    /\ UNCHANGED <<registered, arrays, exec, regs, execs, crashed>>

PluginsClear ==
    /\ lock = Unlocked /\ regs < MaxRegs
    /\ regs' = regs + 1
    /\ registered' = {}
    /\ slices' = [h \in Hooks |-> [arr |-> 0, len |-> 0]]
    /\ UNCHANGED <<arrays, lock, exec, execs, crashed>>

ExecuteBegin(c) ==
    /\ lock = Unlocked
    /\ exec[c].at # "running" /\ execs < MaxExecs
    /\ execs' = execs + 1
    /\ \E h \in Hooks :
        exec' = [exec EXCEPT ![c] = [at |-> "running", slice |-> slices[h], ran |-> <<>>,
                    had |-> Elements(slices[h]), known |-> registered, moved |-> FALSE]]
    /\ UNCHANGED <<registered, arrays, slices, lock, regs, crashed>>

\* The next element of the array is run; an error ends the call.
ExecutePlugin(c) ==
    /\ exec[c].at = "running"
    /\ Len(exec[c].ran) < exec[c].slice.len
    /\ \E ended \in {"running", "failed"} :
        exec' = [exec EXCEPT ![c].ran = Append(@, arrays[exec[c].slice.arr][Len(exec[c].ran) + 1]),
                             ![c].at = ended]
    /\ UNCHANGED <<registered, arrays, slices, lock, regs, execs, crashed>>

\* The element that is being moved at this moment is read half old, half new.
ExecuteTorn(c) ==
    /\ lock # Unlocked
    /\ LET s == slices[HooksOf[lock.name]] IN lock.next < s.len /\ Reads(c, s.arr, lock.next)
    /\ crashed' = TRUE
    /\ UNCHANGED <<registered, arrays, slices, lock, exec, regs, execs>>

ExecuteEnd(c) ==
    /\ exec[c].at = "running"
    /\ Len(exec[c].ran) = exec[c].slice.len
    /\ exec' = [exec EXCEPT ![c].at = "done"]
    /\ UNCHANGED <<registered, arrays, slices, lock, regs, execs, crashed>>

PluginNext ==
    /\ ~crashed
    /\ \/ \E p \in PluginNames : Register(p) \/ UnregisterBegin(p)
       \/ MoveElement \/ UnregisterEnd \/ PluginsClear
       \/ \E c \in Callers : ExecuteBegin(c) \/ ExecutePlugin(c) \/ ExecuteTorn(c) \/ ExecuteEnd(c)

PluginSpec == PluginInit /\ [][PluginNext]_pluginVars

-----------------------------------------------------------------------------
(* Properties                                                              *)

\* An Execute runs the plugins its hook had when it began, in the order of their
\* registration, each once, and all of them unless one fails: only an Unregister
\* meanwhile can make it skip one or run one twice, or end the program.  And even
\* then it runs no plugin that was not registered at some moment since it began.
RunsWhatIsRegistered ==
    /\ \A c \in Callers : exec[c].at # "idle" =>
        /\ \A i \in DOMAIN exec[c].ran : exec[c].ran[i] \in exec[c].known
        /\ ~exec[c].moved =>
            /\ exec[c].ran = SubSeq(exec[c].had, 1, Len(exec[c].ran))
            /\ exec[c].at = "done" => exec[c].ran = exec[c].had
    /\ crashed => \E c \in Callers : exec[c].at = "running" /\ exec[c].moved

\* Between the calls each hook lists exactly the registered plugins that name it.
ListsAgree ==
    lock = Unlocked => \A h \in Hooks :
        LET list == Elements(slices[h]) IN
        /\ {list[i] : i \in DOMAIN list} = {p \in registered : HooksOf[p] = h}
        /\ Len(list) = Cardinality({list[i] : i \in DOMAIN list})

PluginsRunRight == RunsWhatIsRegistered /\ ListsAgree

=============================================================================
