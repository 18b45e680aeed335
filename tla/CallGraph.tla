------------------------------ MODULE CallGraph ------------------------------
(***************************************************************************)
(* The function call graph (ir/analyzer/call_graph.go) and its builder     *)
(* (ir/analyzer/call_graph_builder.go): strongly connected components by   *)
(* Tarjan's algorithm, with Go's random map iteration order; the number of *)
(* calls of every function in topological order; the removal of closures  *)
(* inside uncalled functions; and which functions can panic.               *)
(*                                                                         *)
(* The program is a record: the static and the dynamic calls with the      *)
(* bound findCalleesInfoForBody gives their number, the functions used as  *)
(* values (all of one signature), the function a closure is defined in,   *)
(* the functions with a panic, and the allocations of one type per run.    *)
(***************************************************************************)
EXTENDS Integers, Sequences, FiniteSets, FiniteSetsExt, SequencesExt

CONSTANTS
    FuncCount,     \* functions are numbered in the order of program.Funcs()
    MaxCallCounts,
    Programs,      \* the programs the graph may be built for
    AllKinds       \* callKinds == ir.Call|ir.Defer|ir.Go

Funcs == 0 .. FuncCount - 1
InitFunc == 0
None == -1

ASSUME FuncCountAssumption == FuncCount \in Nat \ {0}
ASSUME MaxCallCountsAssumption == MaxCallCounts \in Nat \ {0}
ASSUME AllKindsAssumption == AllKinds \in BOOLEAN
ASSUME ProgramsAssumption ==
    \A pr \in Programs :
      /\ DOMAIN pr.static \subseteq Funcs \X (Funcs \ {InitFunc})
      /\ pr.static \in [DOMAIN pr.static -> Nat]
      /\ DOMAIN pr.dynamic \subseteq Funcs
      /\ pr.dynamic \in [DOMAIN pr.dynamic -> Nat]
      /\ pr.values \subseteq Funcs \ {InitFunc}
      /\ pr.enclosing \in [Funcs -> Funcs \cup {None}]
      /\ \A f \in Funcs : pr.enclosing[f] < f
      /\ pr.panics \subseteq Funcs
      /\ pr.allocs \in [Funcs -> Nat]

VARIABLES
    prog,
    phase,      \* "scc", "counts", "closures", "rescc", "panics", "done"
    edges,      \* callerToCallees, calleeToCallers
    callees,    \* the callees of the one dynamicCallInfo
    \* updateSCCs
    index, indices, lowLinks, stack,
    frames,     \* the recursion of strongConnect: function and successors to consider
    sccCount, funcToSCCs,
    \* addCallCountsToFuncCallGraph, analyzePanics
    scc,        \* the loop variable i of both
    sccCallCounts, isCalleeCounts, totalTypeAllocations,
    canPanicExternally

sccVars == <<index, indices, lowLinks, stack, frames, sccCount, funcToSCCs>>
countVars == <<sccCallCounts, isCalleeCounts, totalTypeAllocations>>
cgVars == <<prog, phase, edges, callees, sccVars, scc, countVars, canPanicExternally>>

-----------------------------------------------------------------------------
Capped(n) == IF n > MaxCallCounts THEN MaxCallCounts ELSE n

\* calleeCounts[g] of the callsInfo of f's body.
CalleeCounts(pr, f, g) ==
    (IF <<f, g>> \in DOMAIN pr.static THEN pr.static[<<f, g>>] ELSE 0)
      + (IF f \in DOMAIN pr.dynamic /\ g \in pr.values THEN pr.dynamic[f] ELSE 0)

\* The edges of addStaticCall, addDynamicCaller and addDynamicCallee.
CallsOf(pr) == DOMAIN pr.static \cup ((DOMAIN pr.dynamic) \X pr.values)

Connecting == phase \in {"scc", "rescc"}
Succs(f) == {g \in Funcs : <<f, g>> \in edges}
FuncsInSCC(i) == {f \in Funcs : funcToSCCs[f] = i}

\* The state updateSCCs starts from.
ResetSCCs ==
    /\ index' = 0
    /\ indices' = [f \in Funcs |-> None]
    /\ lowLinks' = [f \in Funcs |-> None]
    /\ stack' = <<>>
    /\ frames' = <<>>
    /\ sccCount' = 1
    /\ funcToSCCs' = [f \in Funcs |-> 0]

CGInit ==
    /\ prog \in Programs
    /\ phase = "scc"
    /\ edges = CallsOf(prog)
    /\ callees = prog.values
    /\ index = 0
    /\ indices = [f \in Funcs |-> None]
    /\ lowLinks = [f \in Funcs |-> None]
    /\ stack = <<>>
    /\ frames = <<>>
    /\ sccCount = 1
    /\ funcToSCCs = [f \in Funcs |-> 0]
    /\ scc = 0
    /\ sccCallCounts = [i \in 0 .. FuncCount |-> 0]
    /\ isCalleeCounts = [f \in Funcs |-> 0]
    /\ totalTypeAllocations = 0
    /\ canPanicExternally = [f \in Funcs |-> FALSE]

-----------------------------------------------------------------------------
\* strongConnect(v) up to its loop, called from the frames fs.
Enter(v, fs) ==
    /\ indices' = [indices EXCEPT ![v] = index]
    /\ lowLinks' = [lowLinks EXCEPT ![v] = index]
    /\ index' = index + 1
    /\ stack' = Append(stack, v)
    /\ frames' = Append(fs, [func |-> v, todo |-> Succs(v)])
    /\ UNCHANGED <<prog, phase, edges, callees, sccCount, funcToSCCs, scc, countVars,
                   canPanicExternally>>

\* The loop of updateSCCs takes an unvisited function.
Root(f) ==
    /\ Connecting /\ frames = <<>>
    /\ indices[f] = None
    /\ Enter(f, <<>>)

\* Mutant of Consider: a successor in a finished component counts too.
ConsiderFinished(w) ==
    /\ Connecting /\ frames # <<>>
    /\ w \in Last(frames).todo
    /\ LET v == Last(frames).func
           fs == Append(Front(frames), [func |-> v, todo |-> Last(frames).todo \ {w}])
       IN  IF indices[w] = None
           THEN Enter(w, fs)
           ELSE /\ frames' = fs
                /\ lowLinks' = [lowLinks EXCEPT ![v] = Min({@, indices[w]})]
                /\ UNCHANGED <<prog, phase, edges, callees, index, indices, stack, sccCount,
                               funcToSCCs, scc, countVars, canPanicExternally>>

\* strongConnect considers a successor, in any order.
Consider(w) ==
    /\ Connecting /\ frames # <<>>
    /\ w \in Last(frames).todo
    /\ LET v == Last(frames).func
           fs == Append(Front(frames), [func |-> v, todo |-> Last(frames).todo \ {w}])
       IN  IF indices[w] = None
           THEN Enter(w, fs)
           ELSE /\ frames' = fs
                /\ lowLinks' = [lowLinks EXCEPT ![v] =
                                  IF Contains(stack, w) /\ indices[w] < @ THEN indices[w] ELSE @]
                /\ UNCHANGED <<prog, phase, edges, callees, index, indices, stack, sccCount,
                               funcToSCCs, scc, countVars, canPanicExternally>>

\* strongConnect returns: a root pops its component, the caller takes over the low link.
Leave ==
    /\ Connecting /\ frames # <<>>
    /\ Last(frames).todo = {}
    /\ LET v == Last(frames).func
           at == CHOOSE i \in DOMAIN stack : stack[i] = v
           popped == {stack[i] : i \in at .. Len(stack)}
       IN  IF lowLinks[v] = indices[v]
           THEN /\ funcToSCCs' = [f \in Funcs |-> IF f \in popped THEN sccCount ELSE funcToSCCs[f]]
                /\ sccCount' = sccCount + 1
                /\ stack' = SubSeq(stack, 1, at - 1)
           ELSE UNCHANGED <<funcToSCCs, sccCount, stack>>
    /\ frames' = Front(frames)
    /\ lowLinks' = IF Len(frames) = 1 THEN lowLinks
                   ELSE [lowLinks EXCEPT ![Last(Front(frames)).func] =
                           Min({@, lowLinks[Last(frames).func]})]
    /\ UNCHANGED <<prog, phase, edges, callees, index, indices, scc, countVars,
                   canPanicExternally>>

Connected == Connecting /\ frames = <<>> /\ \A f \in Funcs : indices[f] # None

-----------------------------------------------------------------------------
\* Mutant of BeginCounts: the call of the init function is not counted.
BeginCountsUncalled ==
    /\ Connected /\ phase = "scc"
    /\ phase' = "counts"
    /\ scc' = sccCount - 1
    /\ UNCHANGED <<prog, edges, callees, sccVars, countVars, canPanicExternally>>

BeginCounts ==
    /\ Connected /\ phase = "scc"
    /\ phase' = "counts"
    /\ scc' = sccCount - 1
    /\ sccCallCounts' = [sccCallCounts EXCEPT ![funcToSCCs[InitFunc]] = 1]
    /\ UNCHANGED <<prog, edges, callees, sccVars, isCalleeCounts, totalTypeAllocations,
                   canPanicExternally>>

\* Mutant of HasCallCycle: a function that calls itself is no cycle.
HasCallCycleOfMany(i) == Cardinality(FuncsInSCC(i)) > 1

HasCallCycle(i) ==
    \/ Cardinality(FuncsInSCC(i)) > 1
    \/ \E f \in FuncsInSCC(i) : CalleeCounts(prog, f, f) > 0

\* The calls from component i to component j when i is called count times.
CallsBetween(i, j, count) ==
    SumFunction([e \in FuncsInSCC(i) \X FuncsInSCC(j) |->
                   CalleeCounts(prog, e[1], e[2]) * count])

\* One component, callers first.
CountSCC ==
    /\ phase = "counts" /\ scc > 0
    /\ LET count == IF HasCallCycle(scc) THEN MaxCallCounts ELSE sccCallCounts[scc]
       IN  /\ sccCallCounts' =
                [i \in DOMAIN sccCallCounts |->
                   IF i = scc THEN count
                   ELSE Capped(sccCallCounts[i] + CallsBetween(scc, i, count))]
           /\ isCalleeCounts' =
                [f \in Funcs |-> IF f \in FuncsInSCC(scc) THEN Capped(isCalleeCounts[f] + count)
                                 ELSE isCalleeCounts[f]]
           /\ totalTypeAllocations' =
                Capped(totalTypeAllocations
                         + SumFunction([f \in FuncsInSCC(scc) |-> prog.allocs[f] * count]))
    /\ scc' = scc - 1
    /\ UNCHANGED <<prog, phase, edges, callees, sccVars, canPanicExternally>>

EndCounts ==
    /\ phase = "counts" /\ scc = 0
    /\ phase' = IF AllKinds THEN "closures" ELSE "panics"
    /\ scc' = 1
    /\ UNCHANGED <<prog, edges, callees, sccVars, countVars, canPanicExternally>>

\* The closures whose enclosing function is not called, or was removed before them.
RemovedClosures ==
    LET removed[f \in Funcs] ==
          /\ prog.enclosing[f] # None
          /\ isCalleeCounts[prog.enclosing[f]] = 0 \/ removed[prog.enclosing[f]]
    IN  {f \in Funcs : removed[f]}

\* removeCallsToClosuresInsideUncalledFunctions, with zeroCalleeCounts of each.
RemoveClosures ==
    /\ phase = "closures"
    /\ edges' = {e \in edges : e[2] \notin RemovedClosures}
    /\ callees' = callees \ RemovedClosures
    /\ isCalleeCounts' = [f \in Funcs |-> IF f \in RemovedClosures THEN 0 ELSE isCalleeCounts[f]]
    /\ IF RemovedClosures = {}
       THEN phase' = "panics" /\ UNCHANGED sccVars
       ELSE phase' = "rescc" /\ ResetSCCs
    /\ UNCHANGED <<prog, scc, sccCallCounts, totalTypeAllocations, canPanicExternally>>

BeginPanics ==
    /\ Connected /\ phase = "rescc"
    /\ phase' = "panics"
    /\ UNCHANGED <<prog, edges, callees, sccVars, scc, countVars, canPanicExternally>>

CanPanic(f) == f \in prog.panics \/ canPanicExternally[f]

\* Mutant of PanicsOfSCC: a panic does not spread within the component.
PanicsOfFuncs ==
    /\ phase = "panics" /\ scc < sccCount
    /\ canPanicExternally' =
         [f \in Funcs |-> IF f \in FuncsInSCC(scc) THEN \E g \in Succs(f) : CanPanic(g)
                         ELSE canPanicExternally[f]]
    /\ scc' = scc + 1
    /\ UNCHANGED <<prog, phase, edges, callees, sccVars, countVars>>

\* One component, callees first.
PanicsOfSCC ==
    /\ phase = "panics" /\ scc < sccCount
    /\ LET calleePanics(f) == \E g \in Succs(f) : CanPanic(g)
           canPanicInSCC == \E f \in FuncsInSCC(scc) : f \in prog.panics \/ calleePanics(f)
       IN  canPanicExternally' =
             [f \in Funcs |->
                IF f \notin FuncsInSCC(scc) THEN canPanicExternally[f]
                ELSE \/ calleePanics(f)
                     \/ Cardinality(FuncsInSCC(scc)) > 1 /\ canPanicInSCC]
    /\ scc' = scc + 1
    /\ UNCHANGED <<prog, phase, edges, callees, sccVars, countVars>>

EndPanics ==
    /\ phase = "panics" /\ scc = sccCount
    /\ phase' = "done"
    /\ UNCHANGED <<prog, edges, callees, sccVars, scc, countVars, canPanicExternally>>

CGNext ==
    \/ \E f \in Funcs : Root(f) \/ Consider(f)
    \/ Leave \/ BeginCounts \/ CountSCC \/ EndCounts
    \/ RemoveClosures \/ BeginPanics \/ PanicsOfSCC \/ EndPanics

-----------------------------------------------------------------------------
\* The sets that hold the callees of their members. What f reaches is in every such set
\* that holds f, and in some such set there is nothing else.
ClosedSets(es) == {S \in SUBSET Funcs : \A e \in es : e[1] \in S => e[2] \in S}

\* The functions reachable from f along at least one of the calls es.
Reachable(es, f) ==
    LET closed == {S \in ClosedSets(es) : \A g \in Funcs : <<f, g>> \in es => g \in S}
    IN  {g \in Funcs : \A S \in closed : g \in S}

\* Once updateSCCs is done two functions share a component iff they reach each other, and
\* a callee's component is never numbered above its caller's.
SCCsRight ==
    Connected \/ phase = "counts" =>
      LET closed == ClosedSets(edges)
          Reaches(f, g) == \A S \in closed : f \in S => g \in S
      IN  \A f, g \in Funcs :
            /\ funcToSCCs[f] = funcToSCCs[g] <=> Reaches(f, g) /\ Reaches(g, f)
            /\ <<f, g>> \in edges => funcToSCCs[g] <= funcToSCCs[f]

Callers(pr, f) == {g \in Funcs : CalleeCounts(pr, g, f) > 0}

\* How often f is called when its callers are called calls times, besides the call of the init
\* function that runs the program.
CallsOnce(pr, calls) ==
    [f \in Funcs |-> (IF f = InitFunc THEN 1 ELSE 0)
       + SumFunction([g \in Callers(pr, f) |-> CalleeCounts(pr, g, f) * calls[g]])]

\* How often a function is called: the calls along all chains of at most FuncCount calls.
Walks(pr) ==
    LET walks[n \in 0 .. FuncCount] ==
          CallsOnce(pr, IF n = 0 THEN [f \in Funcs |-> 0] ELSE walks[n - 1])
    IN  walks[FuncCount]

\* Cyclic programs: some function reaches itself.
Cyclic(pr) == \E f \in Funcs : f \in Reachable(CallsOf(pr), f)

\* The count of a function is never below its number of calls, or it is the maximum; without
\* recursion it is exact. The allocation total is the sum over all calls.
CountsRight ==
    phase = "closures" \/ (phase = "counts" /\ scc = 0) =>
      LET calls == Walks(prog)
      IN  /\ \A f \in Funcs : isCalleeCounts[f] >= Capped(calls[f])
          /\ ~Cyclic(prog) =>
               /\ \A f \in Funcs : isCalleeCounts[f] = Capped(calls[f])
               /\ totalTypeAllocations =
                    Capped(SumFunction([f \in Funcs |-> prog.allocs[f] * calls[f]]))

\* The functions of pr that may run, the fewest that hold the init function and what they
\* call, closures only when they hold the function these are defined in.
Live(pr) ==
    LET Runs(S, g) == /\ pr.enclosing[g] \in S \cup {None}
                      /\ \E f \in S : CalleeCounts(pr, f, g) > 0
        closed == {S \in SUBSET Funcs : InitFunc \in S /\ \A g \in Funcs \ S : ~Runs(S, g)}
    IN  {g \in Funcs : \A S \in closed : g \in S}

\* The graph drops a call only if its callee never runs.
RemovedNeverRun ==
    phase \in {"rescc", "panics", "done"} =>
      \A f \in Live(prog) : /\ \A e \in CallsOf(prog) \ edges : e[2] # f
                            /\ f \in prog.values => f \in callees

\* CanPanic says whether a panic can leave or start in f: it reaches a function with one.
CanPanicRight ==
    phase = "done" => \A f \in Funcs :
      CanPanic(f) <=> f \in prog.panics \/ Reachable(edges, f) \cap prog.panics # {}

=============================================================================
