----------------------------- MODULE MCDeadCode -----------------------------
EXTENDS DeadCode, TLC

NoClosures == [f \in Funcs |-> None]
Callable == Funcs \ {InitFunc}

\* Every call graph of the functions, each call made once, where only the last function may
\* call itself; it panics.
Graphs ==
    {[static |-> [e \in es |-> 1], dynamic |-> <<>>, values |-> {}, enclosing |-> NoClosures,
      panics |-> {FuncCount - 1}, allocs |-> [f \in Funcs |-> 1]] :
        es \in SUBSET ((Funcs \X Callable) \ {<<1, 1>>, <<2, 2>>})}

\* Calls made up to twice; in a loop without iterations a call counts 0 times.
Counted ==
    UNION {{[static |-> c, dynamic |-> <<>>, values |-> {}, enclosing |-> NoClosures,
             panics |-> {}, allocs |-> [f \in Funcs |-> 1]] : c \in [es -> 0 .. 2]} :
             es \in SUBSET {<<0, 1>>, <<0, 2>>, <<1, 2>>, <<2, 3>>, <<3, 3>>}}

\* Functions 2 and 3 are used as values and may be closures, which only the function they
\* are defined in calls by name.
Dynamic ==
    UNION {{[static |-> [e \in es |-> 1], dynamic |-> [f \in ds |-> 1], values |-> {2, 3},
             enclosing |-> (0 :> None @@ 1 :> None @@ 2 :> e2 @@ 3 :> e3),
             panics |-> {3}, allocs |-> [f \in Funcs |-> 0]] :
               es \in SUBSET {e \in {<<0, 1>>, <<1, 2>>, <<2, 1>>, <<2, 3>>, <<1, 3>>} :
                              /\ e[2] = 2 => e2 \in {None, e[1]}
                              /\ e[2] = 3 => e3 \in {None, e[1]}},
               ds \in {{}, {0}, {1}, {1, 2}}} :
             e2 \in {None, 0, 1}, e3 \in {None, 1, 2}}

\* Init function 0, entry function 1, and 2 and 3 called, used as values or closures. The
\* function that makes the value of a closure assigns it, so it is busy.
AllPrograms ==
    UNION {{[static |-> [e \in es |-> 1], dynamic |-> [f \in ds |-> 1], values |-> vs,
             enclosing |-> (0 :> None @@ 1 :> None @@ 2 :> e2 @@ 3 :> e3),
             panics |-> {}, allocs |-> [f \in Funcs |-> 0],
             busy |-> bs \cup ({IF v = 2 THEN e2 ELSE e3 : v \in vs} \ {None}), nested |-> ns] :
               es \in SUBSET {e \in {<<0, 2>>, <<1, 2>>, <<1, 3>>, <<2, 3>>, <<3, 2>>, <<3, 3>>} :
                              /\ e[2] = 2 => e2 \in {None, e[1]}
                              /\ e[2] = 3 => e3 \in {None, e[1]}},
               ds \in {{}, {1}, {0, 2}}, vs \in {{3}, {2, 3}},
               bs \in {{}, {3}}, ns \in {{}, {1}, {2}}} :
             e2 \in {None, 0, 1}, e3 \in {None, 1, 2}}

\* Without closures of functions that only run once the entry function is called.
Programs0 ==
    {pr \in AllPrograms :
       \A f \in Funcs : pr.enclosing[f] \in Live(pr) \cup {None}}

\* The closure of a main function that calls it through a variable, among few others.
FewClosures == {pr \in AllPrograms : pr.static = <<>> /\ pr.nested = {} /\ pr.values = {3}}

\* For the call graph alone: nothing but calls in the bodies.
CallsOnly(prs) ==
    {[static |-> pr.static, dynamic |-> pr.dynamic, values |-> pr.values,
      enclosing |-> pr.enclosing, panics |-> pr.panics, allocs |-> pr.allocs,
      busy |-> {}, nested |-> {}] : pr \in prs}

AllSorts == CallsOnly(Graphs \cup Counted \cup Dynamic) \cup Programs0
=============================================================================
