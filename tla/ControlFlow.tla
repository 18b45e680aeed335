---------------------------- MODULE ControlFlow ----------------------------
(* A Go function next to what is made of it: its IR, its process in the       *)
(* network once dead code is eliminated from the IR, and that process after   *)
(* ReduceStates and ReduceTransitions. All four are run on the same events.   *)
(* Each has the set of configurations it may be in after the events so far,   *)
(* so an empty set says that it cannot show them; a configuration without a   *)
(* step says that it may be stuck there.                                      *)
EXTENDS Builder, Eliminator, CallCounts, Reducer

CONSTANTS Programs,    \* bodies of Go functions
          Callees,     \* functions they call
          MaxNesting   \* depth of nested statements in Programs

VARIABLES code,    \* the function observed: its forms, and the call counts of its callees
          runs,    \* configurations of each of its forms
          calls    \* calls of each function so far, up to MaxCallCounts

vars == <<code, runs, calls>>

Forms == {"go", "ir", "network", "reduced"}

\* What is made of the body of a Go function.
CodeOf(body) ==
    LET ir == processStmts(body, <<>>)
        lean == eliminateDeadCodeInBody(ir, TRUE)
        network == translateFunc(lean)
    IN  [go |-> body, ir |-> ir, network |-> network,
         reduced |-> reduceTransitionsInProcess(reduceStatesInProcess(network)),
         counts |-> [f \in Callees |-> findCalleesForBody(lean, f)]]

-----------------------------------------------------------------------------
(* Runs.                                                                      *)

Start(form) ==
    IF form \in {"go", "ir"} THEN Started(code[form])
    ELSE [at |-> Frame("starting"), env |-> InitialEnv(ExternalPanic .. MaxNesting)]

Steps(form, c) ==
    CASE form = "go" -> GoSteps(c)
      [] form = "ir" -> IRSteps(c)
      [] OTHER       -> AutomatonSteps(code[form], c)

StepsOf(form, S) == UNION {Steps(form, c) : c \in S}

\* S and what it leads to without an event.
RECURSIVE Quietly(_, _)
Quietly(form, S) ==
    LET T == S \union {t.next : t \in {u \in StepsOf(form, S) : u.ev = Silent}}
    IN  IF T = S THEN S ELSE Quietly(form, T)

After(form, S, ev) ==
    Quietly(form, {t.next : t \in {u \in StepsOf(form, S) : u.ev = ev}})

Init ==
    /\ code \in {CodeOf(body) : body \in Programs}
    /\ runs = [form \in Forms |-> {Start(form)}]
    /\ calls = [f \in Callees |-> 0]

Observe(ev) ==
    /\ runs' = [form \in Forms |-> After(form, runs[form], ev)]
    /\ calls' = IF ev[Len(ev)] = "call" THEN [calls EXCEPT ![ev[1]] = enforceMax(@ + 1)] ELSE calls
    /\ UNCHANGED code

Events == UNION {{t.ev : t \in StepsOf(form, runs[form])} : form \in Forms} \ {Silent}

Next == \E ev \in Events : Observe(ev)

Spec == Init /\ [][Next]_vars

-----------------------------------------------------------------------------
(* Properties.                                                                *)

Shows(form) == runs[form] # {}
MayBeStuck(form) == \E c \in runs[form] : Steps(form, c) = {}

(* The IR has every run of the Go function: also when loops are counted ahead *)
(* of time, breaks and continues leave nested statements and cases fall       *)
(* through. It may have more, since it does not know conditions.              *)
GoRunsTranslated ==
    /\ Shows("go") => Shows("ir")
    /\ MayBeStuck("go") => MayBeStuck("ir")

(* The process of the network, made once empty statements are eliminated, has *)
(* the runs of the IR and no other, and is stuck exactly where the IR is.     *)
TranslationFaithful ==
    /\ Shows("ir") <=> Shows("network")
    /\ MayBeStuck("ir") <=> MayBeStuck("network")

(* Removing states and duplicate edges changes no run of the process: no      *)
(* guard is evaluated after an update that preceded it, no two accesses of    *)
(* global variables become one step, and it is stuck exactly where it was.    *)
ReductionFaithful ==
    /\ Shows("network") <=> Shows("reduced")
    /\ MayBeStuck("network") <=> MayBeStuck("reduced")

(* The states that queries name are still there after the reduction, in every *)
(* run that reached them before: those of the deadlock and panic queries      *)
(* always, and the entry of an annotated select case unless the process may   *)
(* leave it by a step that no other process takes part in or sees. Such an    *)
(* entry may be lost, and what its reachability query names with it.          *)
QueriedStatesKept ==
    LET kept == {c.at : c \in runs["reduced"]}
        mayBeLost(c) == /\ c.at.role = "checked_enter"
                        /\ \E t \in Steps("network", c) : t.ev = Silent
    IN  \A c \in runs["network"] : IsQueried(c.at) => c.at \in kept \/ mayBeLost(c)

(* No run of the process makes more calls of a function than its call count,  *)
(* which sizes the pool of instances, unless the count was cut at the maximum.*)
CallCountsBound ==
    Shows("network") => \A f \in Callees :
        calls[f] <= code.counts[f] \/ code.counts[f] = MaxCallCounts
=============================================================================
