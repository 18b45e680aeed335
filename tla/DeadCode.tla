------------------------------ MODULE DeadCode ------------------------------
(***************************************************************************)
(* The dead code eliminator (ir/optimizer/dead_code_eliminator.go) as      *)
(* api.Run uses it: it walks the components of the call graph callees      *)
(* first and removes calls of functions whose body became empty. It runs   *)
(* before api.Run adds the call of the entry function to the init          *)
(* function, so the call graph it uses is that of a program without it.    *)
(*                                                                         *)
(* Programs have two more fields: busy, the functions with statements the  *)
(* eliminator keeps, and nested, those that make their calls inside an if, *)
(* for, switch or select, where the eliminator does not look for calls.    *)
(***************************************************************************)
EXTENDS CallGraph

CONSTANT EntryFunc  \* main or the test function api.Run translates

ASSUME EntryFuncAssumption == EntryFunc \in Funcs \ {InitFunc}

VARIABLES
    component,   \* the loop variable i of EliminateDeadCode
    keptStatic,  \* the static calls still in the bodies
    keptDynamic, \* the functions whose dynamic calls are still in their body
    emptyFuncs

dcVars == <<component, keptStatic, keptDynamic, emptyFuncs>>
vars == <<cgVars, dcVars>>

Init ==
    /\ CGInit
    /\ component = 1
    /\ keptStatic = DOMAIN prog.static
    /\ keptDynamic = DOMAIN prog.dynamic
    /\ emptyFuncs = {}

\* BuildFuncCallGraph at the start of EliminateDeadCode.
BuildFuncCallGraph == CGNext /\ UNCHANGED dcVars

\* Mutant of DynamicCallsAreDead: one empty callee is enough.
SomeDynamicCallIsDead == callees \cap emptyFuncs # {}

\* A dynamic call goes when all its callees, maybe none, are empty.
DynamicCallsAreDead == callees \subseteq emptyFuncs

\* One component: the calls of empty functions go, and then its functions without
\* statements are empty.
EliminateSCC ==
    /\ phase = "done" /\ component < sccCount
    /\ LET fs == FuncsInSCC(component)
           visible == fs \ prog.nested
       IN  /\ keptStatic' =
                {e \in keptStatic : ~(e[1] \in visible /\ e[2] \in emptyFuncs)}
           /\ keptDynamic' =
                {f \in keptDynamic : ~(f \in visible /\ DynamicCallsAreDead)}
           /\ emptyFuncs' = emptyFuncs \cup
                {f \in fs : /\ f \notin prog.busy /\ f \notin keptDynamic'
                            /\ \A e \in keptStatic' : e[1] # f}
    /\ component' = component + 1
    /\ UNCHANGED cgVars

Next == BuildFuncCallGraph \/ EliminateSCC

Spec == Init /\ [][Next]_vars

-----------------------------------------------------------------------------
\* The program api.Run translates: the init function calls the entry function last.
Linked ==
    [static |-> [e \in (DOMAIN prog.static) \cup {<<InitFunc, EntryFunc>>} |->
                    IF e \in DOMAIN prog.static THEN prog.static[e] ELSE 1],
     dynamic |-> prog.dynamic, values |-> prog.values, enclosing |-> prog.enclosing]

\* The calls that can happen in it.
Happen ==
    LET live == Live(Linked)
    IN  {e \in CallsOf(Linked) : /\ e[1] \in live
                                 /\ CalleeCounts(Linked, e[1], e[2]) > 0
                                 /\ Linked.enclosing[e[2]] \in live \cup {None}}

\* A call of g matters when it reaches a statement that is kept, or does not end.
Matters(g) ==
    LET run == {g} \cup Reachable(Happen, g)
    IN  run \cap prog.busy # {} \/ \E f \in run : f \in Reachable(Happen, f)

\* The calls gone from the bodies; api.Run puts the statements of the init function back.
Removed ==
    {e \in CallsOf(prog) :
       /\ e[1] # InitFunc
       /\ \/ e \in (DOMAIN prog.static) \ keptStatic
          \/ /\ e[1] \in (DOMAIN prog.dynamic) \ keptDynamic /\ e[2] \in prog.values
             /\ e \notin DOMAIN prog.static}

\* What the comment of EliminateDeadCode says: it removes statements that are not necessary
\* for verification. A call that can happen and matters is never removed.
RemovesUnnecessary == \A e \in Removed : e \in Happen => ~Matters(e[2])

\* It holds where closures are defined in functions that run without the entry call, the
\* only ones the call graph of EliminateDeadCode takes to be called.
ClosuresOfLive == \A f \in Funcs : prog.enclosing[f] \in Live(prog) \cup {None}
RemovesUnnecessaryOfLive == RemovesUnnecessary \/ ~ClosuresOfLive

=============================================================================
