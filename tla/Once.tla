-------------------------------- MODULE Once --------------------------------
(***************************************************************************)
(* sync.Once as the translator renders it: a value per handle              *)
(* (translator/once.go) and the edges of Do (translator/once_stmts.go)     *)
(* around a call of the function. The call itself returns or panics.       *)
(***************************************************************************)
EXTENDS Integers, FiniteSets

CONSTANTS
    Procs,        \* the function process instances
    OnceCount,    \* t.onceCount(), the length of once_values
    CalleePanics  \* whether the function given to Do may panic

ASSUME OnceCountAssumption == OnceCount \in Nat \ {0}
ASSUME CalleePanicsAssumption == CalleePanics \in BOOLEAN

Onces == 0 .. OnceCount - 1

VARIABLES
    onceCount,      \* once_count
    outOfResources, \* out_of_resources
    onceValues,     \* once_values: 0 new, 1 executing, 2 done
    pc,             \* the location of process p
    oid,            \* its local variable oid
    runs,           \* ghost: the processes that executed the function of o
    done            \* ghost: the handles whose function returned

makeVars == <<onceCount, outOfResources>>
vars == <<makeVars, onceValues, pc, oid, runs, done>>

Made == {o \in Onces : o < onceCount}

Init ==
    /\ onceCount = 0
    /\ outOfResources = FALSE
    /\ onceValues = [o \in Onces |-> 0]
    /\ pc = [p \in Procs |-> "running"]
    /\ oid = [p \in Procs |-> 0]
    /\ runs = [o \in Onces |-> 0]
    /\ done = {}

-----------------------------------------------------------------------------
\* Mutant of MakeOnce: past the bound, handle 0 is made anew while it is in use.
MakeOnceResetsAlias(p) ==
    /\ pc[p] = "running"
    /\ onceCount <= OnceCount
    /\ onceCount' = onceCount + 1
    /\ outOfResources' = (outOfResources \/ onceCount >= OnceCount)
    /\ onceValues' = [onceValues EXCEPT ![IF onceCount < OnceCount THEN onceCount ELSE 0] = 0]
    /\ UNCHANGED <<pc, oid, runs, done>>

\* make_once: a fresh handle, or handle 0 past the bound.
MakeOnce(p) ==
    /\ pc[p] = "running"
    /\ onceCount <= OnceCount
    /\ onceCount' = onceCount + 1
    /\ IF onceCount >= OnceCount
       THEN outOfResources' = TRUE /\ UNCHANGED onceValues
       ELSE onceValues' = [onceValues EXCEPT ![onceCount] = 0] /\ UNCHANGED outOfResources
    /\ UNCHANGED <<pc, oid, runs, done>>

Enter(p, o) ==
    /\ pc[p] = "running"
    /\ pc' = [pc EXCEPT ![p] = "enter"]
    /\ oid' = [oid EXCEPT ![p] = o]
    /\ UNCHANGED <<makeVars, onceValues, runs, done>>

DontExecute(p) ==
    /\ pc[p] = "enter" /\ onceValues[oid[p]] = 2
    /\ pc' = [pc EXCEPT ![p] = "running"]
    /\ UNCHANGED <<makeVars, onceValues, oid, runs, done>>

\* Mutant of DoExecute: the once counts as done when its function is called.
DoExecuteMarksDone(p) ==
    /\ pc[p] = "enter" /\ onceValues[oid[p]] = 0
    /\ pc' = [pc EXCEPT ![p] = "do"]
    /\ onceValues' = [onceValues EXCEPT ![oid[p]] = 2]
    /\ runs' = [runs EXCEPT ![oid[p]] = @ + 1]
    /\ UNCHANGED <<makeVars, oid, done>>

DoExecute(p) ==
    /\ pc[p] = "enter" /\ onceValues[oid[p]] = 0
    /\ pc' = [pc EXCEPT ![p] = "do"]
    /\ onceValues' = [onceValues EXCEPT ![oid[p]] = 1]
    /\ runs' = [runs EXCEPT ![oid[p]] = @ + 1]
    /\ UNCHANGED <<makeVars, oid, done>>

\* Mutants of DoExit: the value stays 1; it is reset.
DoExitUnmarked(p) ==
    /\ pc[p] = "do"
    /\ pc' = [pc EXCEPT ![p] = "running"]
    /\ done' = done \cup {oid[p]}
    /\ UNCHANGED <<makeVars, onceValues, oid, runs>>
DoExitResets(p) ==
    /\ pc[p] = "do"
    /\ pc' = [pc EXCEPT ![p] = "running"]
    /\ onceValues' = [onceValues EXCEPT ![oid[p]] = 0]
    /\ done' = done \cup {oid[p]}
    /\ UNCHANGED <<makeVars, oid, runs>>

\* The function returned: Do is left and the once is done.
DoExit(p) ==
    /\ pc[p] = "do"
    /\ pc' = [pc EXCEPT ![p] = "running"]
    /\ onceValues' = [onceValues EXCEPT ![oid[p]] = 2]
    /\ done' = done \cup {oid[p]}
    /\ UNCHANGED <<makeVars, oid, runs>>

\* The function panicked: the edge to the end of the caller does not touch the value.
DoPanic(p) ==
    /\ CalleePanics
    /\ pc[p] = "do"
    /\ pc' = [pc EXCEPT ![p] = "panicked"]
    /\ UNCHANGED <<makeVars, onceValues, oid, runs, done>>

Next ==
    \E p \in Procs :
      \/ MakeOnce(p)
      \/ \E o \in Made : Enter(p, o)
      \/ DontExecute(p) \/ DoExecute(p) \/ DoExit(p) \/ DoPanic(p)

Spec == Init /\ [][Next]_vars

\* A process inside Do goes on when it can: the function returns or panics.
FairSpec == Spec /\ \A p \in Procs :
                      WF_vars(DontExecute(p) \/ DoExecute(p) \/ DoExit(p) \/ DoPanic(p))

-----------------------------------------------------------------------------
TypeOK ==
    /\ onceCount \in Nat
    /\ outOfResources \in BOOLEAN
    /\ onceValues \in [Onces -> 0 .. 2]
    /\ pc \in [Procs -> {"running", "enter", "do", "panicked"}]
    /\ oid \in [Procs -> Onces]
    /\ runs \in [Onces -> Nat]
    /\ done \subseteq Onces

\* The inductive invariant: the value of a once says whether its function ran and returned,
\* handles not made are untouched, and one process at most executes the function.
Inv ==
    /\ TypeOK
    /\ \A o \in Onces : /\ runs[o] = (IF onceValues[o] = 0 THEN 0 ELSE 1)
                        /\ o \in done <=> onceValues[o] = 2
                        /\ o >= onceCount => onceValues[o] = 0
    /\ \A p \in Procs : pc[p] = "enter" => oid[p] < onceCount
    /\ \A p \in Procs : pc[p] = "do" => onceValues[oid[p]] = 1
    /\ \A p, q \in Procs : pc[p] = "do" /\ pc[q] = "do" /\ oid[p] = oid[q] => p = q

\* The function given to a once runs at most once, whatever processes call Do and whether
\* or not it panics.
AtMostOnce == \A o \in Onces : runs[o] <= 1

\* A Do that does not execute the function returns only after the function returned.
ReturnsWhenDone == [][\A p \in Procs : DontExecute(p) => oid[p] \in done]_vars

\* Every Do goes on, unless the function panicked in another process: the value is then 1
\* for ever, where a Do in Go would return.
DoEnds ==
    \A p \in Procs :
      pc[p] = "enter" ~> \/ pc[p] # "enter"
                         \/ \E q \in Procs : pc[q] = "panicked" /\ oid[q] = oid[p]
=============================================================================
