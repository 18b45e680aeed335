----------------------------- MODULE WaitGroup -----------------------------
(***************************************************************************)
(* sync.WaitGroup as the translator renders it: a WaitGroup automaton per  *)
(* handle (translator/wait_group.go) and the edges of a function process   *)
(* for Add, Done and Wait (translator/wait_group_stmts.go).                *)
(***************************************************************************)
EXTENDS Integers, FiniteSets

CONSTANTS
    Procs,          \* the function process instances
    WaitGroupCount, \* t.waitGroupCount(), the length of the two arrays
    Deltas,         \* the arguments of Add; Done is Add(-1)
    MaxCounter      \* bound: the value Add may raise a counter to

ASSUME WaitGroupCountAssumption == WaitGroupCount \in Nat \ {0}
ASSUME ProcsAssumption == IsFiniteSet(Procs)
ASSUME DeltasAssumption == Deltas \subseteq Int
ASSUME MaxCounterAssumption == MaxCounter \in Nat

WaitGroups == 0 .. WaitGroupCount - 1

VARIABLES
    waitGroupCount, \* wait_group_count, the number of make_wait_group calls
    outOfResources, \* out_of_resources
    location,       \* the location of the WaitGroup automaton of handle w
    counter,        \* wait_group_counter
    waiters,        \* wait_group_waiters
    pc,             \* the location of process p
    opWaitGroup,    \* its local variable op_wait_group
    due             \* ghost: waiting processes that have seen the counter at zero

makeVars == <<waitGroupCount, outOfResources>>
procVars == <<pc, opWaitGroup>>
vars == <<makeVars, location, counter, waiters, procVars, due>>

Locations == {"idle", "adding", "active_tasks", "bad"}

\* "adding" is the committed location.
Quiet == \A w \in WaitGroups : location[w] # "adding"

Made == {w \in WaitGroups : w < waitGroupCount}

Awaiting(w) == {p \in Procs : pc[p] = "awaiting_wait_group" /\ opWaitGroup[p] = w}

Init ==
    /\ waitGroupCount = 0
    /\ outOfResources = FALSE
    /\ location = [w \in WaitGroups |-> "idle"]
    /\ counter = [w \in WaitGroups |-> 0]
    /\ waiters = [w \in WaitGroups |-> 0]
    /\ pc = [p \in Procs |-> "running"]
    /\ opWaitGroup = [p \in Procs |-> 0]
    /\ due = {}

\* make_wait_group: a fresh handle at zero, or handle 0 past the bound.
MakeWaitGroup(p) ==
    /\ Quiet
    /\ pc[p] = "running"
    /\ waitGroupCount <= WaitGroupCount
    /\ waitGroupCount' = waitGroupCount + 1
    /\ IF waitGroupCount >= WaitGroupCount
       THEN outOfResources' = TRUE /\ UNCHANGED <<counter, waiters>>
       ELSE /\ counter' = [counter EXCEPT ![waitGroupCount] = 0]
            /\ waiters' = [waiters EXCEPT ![waitGroupCount] = 0]
            /\ UNCHANGED outOfResources
    /\ UNCHANGED <<location, procVars, due>>

\* Mutant of Add: the idle automaton ignores the waiters it has not released yet.
AddUnderWaiters(p, w, delta) ==
    /\ Quiet
    /\ pc[p] = "running"
    /\ counter[w] + delta <= MaxCounter
    /\ counter' = [counter EXCEPT ![w] = @ + delta]
    /\ location[w] \in {"idle", "active_tasks"}
    /\ location' = [location EXCEPT ![w] = "adding"]
    /\ due' = IF counter'[w] = 0 THEN due \cup Awaiting(w) ELSE due
    /\ UNCHANGED <<makeVars, waiters, procVars>>

\* add[w]!: the counter changes before the automaton looks at it; an Add while released
\* waiters have not returned is a misuse.
Add(p, w, delta) ==
    /\ Quiet
    /\ pc[p] = "running"
    /\ counter[w] + delta <= MaxCounter
    /\ counter' = [counter EXCEPT ![w] = @ + delta]
    /\ \/ location[w] = "idle" /\ waiters[w] = 0
             /\ location' = [location EXCEPT ![w] = "adding"]
       \/ location[w] = "idle" /\ waiters[w] > 0
             /\ location' = [location EXCEPT ![w] = "bad"]
       \/ location[w] = "active_tasks"
             /\ location' = [location EXCEPT ![w] = "adding"]
    /\ due' = IF counter'[w] = 0 THEN due \cup Awaiting(w) ELSE due
    /\ UNCHANGED <<makeVars, waiters, procVars>>

\* Mutants of Added: a positive counter is idle; a zero counter is bad.
AddedAlwaysIdle(w) ==
    /\ location[w] = "adding"
    /\ location' = [location EXCEPT ![w] = IF counter[w] >= 0 THEN "idle" ELSE "bad"]
    /\ UNCHANGED <<makeVars, counter, waiters, procVars, due>>
AddedZeroIsBad(w) ==
    /\ location[w] = "adding"
    /\ location' = [location EXCEPT ![w] = IF counter[w] > 0 THEN "active_tasks" ELSE "bad"]
    /\ UNCHANGED <<makeVars, counter, waiters, procVars, due>>

\* The committed edges that follow an Add.
Added(w) ==
    /\ location[w] = "adding"
    /\ location' = [location EXCEPT ![w] =
         IF counter[w] = 0 THEN "idle" ELSE IF counter[w] > 0 THEN "active_tasks" ELSE "bad"]
    /\ UNCHANGED <<makeVars, counter, waiters, procVars, due>>

\* Wait registers the process as a waiter ...
RegisterWait(p, w) ==
    /\ Quiet
    /\ pc[p] = "running"
    /\ waiters' = [waiters EXCEPT ![w] = @ + 1]
    /\ pc' = [pc EXCEPT ![p] = "awaiting_wait_group"]
    /\ opWaitGroup' = [opWaitGroup EXCEPT ![p] = w]
    /\ due' = IF counter[w] = 0 THEN due \cup {p} ELSE due
    /\ UNCHANGED <<makeVars, location, counter>>

\* Mutants of Return: the process stays counted; the last waiter is never released.
ReturnStaysCounted(p, w) ==
    /\ Quiet
    /\ pc[p] = "awaiting_wait_group" /\ opWaitGroup[p] = w
    /\ location[w] = "idle" /\ waiters[w] > 0
    /\ pc' = [pc EXCEPT ![p] = "running"]
    /\ due' = due \ {p}
    /\ UNCHANGED <<makeVars, location, counter, waiters, opWaitGroup>>
ReturnNotTheLast(p, w) ==
    /\ Quiet
    /\ pc[p] = "awaiting_wait_group" /\ opWaitGroup[p] = w
    /\ location[w] = "idle" /\ waiters[w] > 1
    /\ waiters' = [waiters EXCEPT ![w] = @ - 1]
    /\ pc' = [pc EXCEPT ![p] = "running"]
    /\ due' = due \ {p}
    /\ UNCHANGED <<makeVars, location, counter, opWaitGroup>>

\* ... and returns when the idle automaton sends wait[w]!.
Return(p, w) ==
    /\ Quiet
    /\ pc[p] = "awaiting_wait_group" /\ opWaitGroup[p] = w
    /\ location[w] = "idle" /\ waiters[w] > 0
    /\ waiters' = [waiters EXCEPT ![w] = @ - 1]
    /\ pc' = [pc EXCEPT ![p] = "running"]
    /\ due' = due \ {p}
    /\ UNCHANGED <<makeVars, location, counter, opWaitGroup>>

Next ==
    \/ \E p \in Procs : MakeWaitGroup(p)
    \/ \E p \in Procs, w \in Made :
         \/ \E delta \in Deltas : Add(p, w, delta)
         \/ RegisterWait(p, w)
         \/ Return(p, w)
    \/ \E w \in Made : Added(w)

Spec == Init /\ [][Next]_vars

\* A committed edge is taken, and a process whose return is enabled takes it.
FairSpec == /\ Spec
            /\ WF_vars(\E w \in Made : Added(w))
            /\ \A p \in Procs : SF_vars(\E w \in Made : Return(p, w))

-----------------------------------------------------------------------------
TypeOK ==
    /\ waitGroupCount \in Nat
    /\ outOfResources \in BOOLEAN
    /\ location \in [WaitGroups -> Locations]
    /\ counter \in [WaitGroups -> Int]
    /\ waiters \in [WaitGroups -> Nat]
    /\ pc \in [Procs -> {"running", "awaiting_wait_group"}]
    /\ opWaitGroup \in [Procs -> WaitGroups]
    /\ due \subseteq Procs

\* What a location says about the counter, the waiters and who is due to return.
LocationMeaning(w) ==
    /\ location[w] = "idle" => counter[w] = 0
    /\ location[w] = "active_tasks" => counter[w] > 0 /\ due \cap Awaiting(w) = {}
    /\ location[w] = "adding" => counter[w] = 0 \/ due \cap Awaiting(w) = {}
    /\ counter[w] = 0 => Awaiting(w) \subseteq due

\* The inductive invariant.
Inv ==
    /\ TypeOK
    /\ \A w \in WaitGroups : waiters[w] = Cardinality(Awaiting(w))
    /\ \A p \in Procs : pc[p] # "running" => opWaitGroup[p] < waitGroupCount
    /\ \A p \in due : pc[p] = "awaiting_wait_group"
    /\ \A w \in WaitGroups : w >= waitGroupCount => location[w] = "idle"
    /\ \A w \in WaitGroups : LocationMeaning(w)

\* No reuse before everybody returned: once the counter was zero under a waiting process,
\* the group is not active again until that process returned from Wait.
NoReuseUnderWaiters ==
    \A w \in WaitGroups : due \cap Awaiting(w) # {} => location[w] # "active_tasks"

\* Wait returns only while the counter is zero, and somebody is due when the automaton
\* has waiters to release: waiters never lets a release go to nobody.
ReturnsAtZero ==
    [][\A p \in Procs, w \in WaitGroups :
         Return(p, w) => counter[w] = 0 /\ p \in due]_vars

\* The location bad is entered only with a negative counter or by an Add while a process
\* that was released has not returned.
BadOnlyByMisuse ==
    [][\A w \in WaitGroups :
         location[w] # "bad" /\ location'[w] = "bad" =>
           counter'[w] < 0 \/ due \cap Awaiting(w) # {}]_vars

\* A process that saw the counter at zero returns from Wait, unless the group goes bad.
DueReturns == \A p \in Procs : p \in due ~> p \notin due \/ location[opWaitGroup[p]] = "bad"
=============================================================================
