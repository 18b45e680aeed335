---------------------------- MODULE MCFuncCalls ----------------------------
EXTENDS FuncCalls, TLC

CONSTANTS init, f, g, d

\* init starts and calls f, f calls g; both defer d. The roles of g and d are constants.
ProgramFuncs == {init, f, g, d}
Instances == init :> 1 @@ f :> 2 @@ g :> 2 @@ d :> 2
DeferStacks == init :> 2 @@ f :> 2 @@ g :> 0 @@ d :> 0
ProgramEdges == [call |-> {<<init, f>>, <<f, g>>},
                 go |-> {<<init, f>>},
                 defer |-> {<<init, d>>, <<f, d>>}]
=============================================================================
