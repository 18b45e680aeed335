----------------------------- MODULE FuncCalls -----------------------------
(***************************************************************************)
(* The function processes the translator generates: how a call, a go and a *)
(* defer statement create and start process instances, how functions end,  *)
(* and how panics travel (translator/funcs.go, translator/func_stmts.go).  *)
(* A body is any sequence of the statements the call graph allows.         *)
(***************************************************************************)
EXTENDS Integers, Sequences, FiniteSets

CONSTANTS
    Funcs,      \* the functions of the program
    InitFunc,   \* program.InitFunc()
    CallCount,  \* callCount(f), the instances of f's process
    DeferCount, \* deferCount(f), the length of its defer stack
    Edges,      \* [call, go, defer |-> the pairs <<caller, callee>>]
    Panics,     \* functions with a panic statement
    Recovers,   \* CanRecover: functions with a recover statement
    OptimizeIR, \* config.OptimizeIR
    MaxStmts    \* bound: call, go and defer statements one instance executes

CallKinds == {"call", "go", "defer"}
FuncPairs == Funcs \X Funcs

ASSUME FuncsAssumption == InitFunc \in Funcs
ASSUME CountsAssumption == /\ CallCount \in [Funcs -> Nat \ {0}]
                           /\ CallCount[InitFunc] = 1
                           /\ DeferCount \in [Funcs -> Nat]
ASSUME EdgesAssumption == /\ Edges \in [CallKinds -> SUBSET FuncPairs]
                          /\ \A k \in CallKinds, e \in FuncPairs :
                               e \in Edges[k] => e[2] # InitFunc
ASSUME PanicsAssumption == Panics \subseteq Funcs /\ Recovers \subseteq Funcs
ASSUME BoundAssumption == OptimizeIR \in BOOLEAN /\ MaxStmts \in Nat

\* The process instances, written <<f, pid>>.
Procs == UNION {{f} \X (0 .. CallCount[f] - 1) : f \in Funcs}

\* CanPanic: f is in every set that holds the panicking functions and all their callers.
CanPanic(f) ==
    \A S \in SUBSET Funcs :
      Panics \subseteq S /\ (\A e \in UNION {Edges[k] : k \in CallKinds} : e[2] \in S => e[1] \in S)
        => f \in S

\* Whether the flags internal_panic and external_panic of f are kept up to date ...
TracksPanic(f) == ~OptimizeIR \/ CanPanic(f)
\* ... and handed to a deferred callee and back.
TransfersPanic(f, callee) == ~OptimizeIR \/ (CanPanic(f) /\ callee \in Recovers)

VARIABLES
    funcCount,        \* <f>_count
    outOfResources,   \* out_of_resources
    activeGoRoutines, \* active_go_routines
    loc,              \* the location of instance p
    callee,           \* its variable p: the instance it creates, starts and awaits
    isSync,           \* is_sync
    internalPanic,    \* internal_panic
    externalPanic,    \* external_panic_<f>[pid]
    deferred,         \* deferred_fid, deferred_pid and deferred_count
    stmts,            \* how many statements p started
    panicking,        \* ghost: in Go, the frame of p is panicking
    offered           \* ghost: in Go, the deferred call p runs because of a panic

flagVars == <<internalPanic, externalPanic, panicking, offered>>
vars == <<funcCount, outOfResources, activeGoRoutines, loc, callee, isSync, deferred, stmts,
          flagVars>>

Main == <<InitFunc, 0>>

Init ==
    /\ funcCount = [f \in Funcs |-> 0]
    /\ outOfResources = FALSE
    /\ activeGoRoutines = 1
    /\ loc = [p \in Procs |-> "starting"]
    /\ callee = [p \in Procs |-> Main]
    /\ isSync = [p \in Procs |-> FALSE]
    /\ internalPanic = [p \in Procs |-> FALSE]
    /\ externalPanic = [p \in Procs |-> FALSE]
    /\ deferred = [p \in Procs |-> <<>>]
    /\ stmts = [p \in Procs |-> 0]
    /\ panicking = [p \in Procs |-> FALSE]
    /\ offered = [p \in Procs |-> FALSE]

ExitState(p) == IF DeferCount[p[1]] > 0 THEN "deferred" ELSE "finalizing"
Moved(p, l) == [loc EXCEPT ![p] = l]

-----------------------------------------------------------------------------
StartInit ==
    /\ loc[Main] = "starting"
    /\ loc' = Moved(Main, "started")
    /\ UNCHANGED <<funcCount, outOfResources, activeGoRoutines, callee, isSync, deferred,
                   stmts, flagVars>>

Created == [call |-> "created_call", go |-> "created_go", defer |-> "created_defer"]

\* p = make_<f>(): a fresh instance that owes nobody a panic, or instance 0 past the bound.
Create(p, k, f) ==
    LET full == funcCount[f] >= CallCount[f]
        q == <<f, IF full THEN 0 ELSE funcCount[f]>>
    IN
    /\ loc[p] = "started"
    /\ <<p[1], f>> \in Edges[k]
    /\ stmts[p] < MaxStmts
    /\ stmts' = [stmts EXCEPT ![p] = @ + 1]
    /\ funcCount' = [funcCount EXCEPT ![f] = @ + 1]
    /\ outOfResources' = (outOfResources \/ full)
    /\ callee' = [callee EXCEPT ![p] = q]
    /\ IF full THEN UNCHANGED <<externalPanic, offered>>
       ELSE /\ externalPanic' = [externalPanic EXCEPT ![q] = FALSE]
            /\ offered' = [offered EXCEPT ![q] = FALSE]
    /\ loc' = Moved(p, Created[k])
    /\ UNCHANGED <<activeGoRoutines, isSync, deferred, internalPanic, panicking>>

\* sync_<f>[p]!: the caller waits for the instance it starts.
StartSync(p) ==
    /\ loc[p] = "created_call" /\ loc[callee[p]] = "starting"
    /\ loc' = [loc EXCEPT ![p] = "started_callee", ![callee[p]] = "started"]
    /\ isSync' = [isSync EXCEPT ![callee[p]] = TRUE]
    /\ UNCHANGED <<funcCount, outOfResources, activeGoRoutines, callee, deferred, stmts, flagVars>>

\* Mutant of StartAsync: the goroutine is not counted.
StartAsyncUncounted(p) ==
    /\ loc[p] = "created_go" /\ loc[callee[p]] = "starting"
    /\ loc' = [loc EXCEPT ![p] = "started", ![callee[p]] = "started"]
    /\ isSync' = [isSync EXCEPT ![callee[p]] = FALSE]
    /\ UNCHANGED <<funcCount, outOfResources, activeGoRoutines, callee, deferred, stmts, flagVars>>

\* async_<f>[p]!: the instance is a goroutine of its own.
StartAsync(p) ==
    /\ loc[p] = "created_go" /\ loc[callee[p]] = "starting"
    /\ loc' = [loc EXCEPT ![p] = "started", ![callee[p]] = "started"]
    /\ isSync' = [isSync EXCEPT ![callee[p]] = FALSE]
    /\ activeGoRoutines' = activeGoRoutines + 1
    /\ UNCHANGED <<funcCount, outOfResources, callee, deferred, stmts, flagVars>>

\* A defer statement pushes the instance. The stack has no overflow check.
Defer(p) ==
    /\ loc[p] = "created_defer"
    /\ Len(deferred[p]) < DeferCount[p[1]]
    /\ deferred' = [deferred EXCEPT ![p] = Append(@, callee[p])]
    /\ loc' = Moved(p, "started")
    /\ UNCHANGED <<funcCount, outOfResources, activeGoRoutines, callee, isSync, stmts, flagVars>>

\* A return statement or the end of the body; a panic statement.
Return(p) ==
    /\ loc[p] = "started"
    /\ loc' = Moved(p, ExitState(p))
    /\ UNCHANGED <<funcCount, outOfResources, activeGoRoutines, callee, isSync, deferred,
                   stmts, flagVars>>
Panic(p) ==
    /\ loc[p] = "started" /\ p[1] \in Panics
    /\ loc' = Moved(p, ExitState(p))
    /\ internalPanic' = [internalPanic EXCEPT ![p] = TRUE]
    /\ panicking' = [panicking EXCEPT ![p] = TRUE]
    /\ UNCHANGED <<funcCount, outOfResources, activeGoRoutines, callee, isSync, deferred,
                   stmts, externalPanic, offered>>

\* recover() stops the panic the instance was started under.
Recover(p) ==
    /\ loc[p] = "started" /\ p[1] \in Recovers
    /\ externalPanic' = [externalPanic EXCEPT ![p] = FALSE]
    /\ offered' = [offered EXCEPT ![p] = FALSE]
    /\ UNCHANGED <<funcCount, outOfResources, activeGoRoutines, loc, callee, isSync, deferred,
                   stmts, internalPanic, panicking>>

-----------------------------------------------------------------------------
Top(p) == deferred[p][Len(deferred[p])]

\* The location deferred runs the defer stack from the top.
StartDeferred(p) ==
    /\ loc[p] = "deferred" /\ deferred[p] # <<>>
    /\ loc[Top(p)] = "starting"
    /\ loc' = [loc EXCEPT ![p] = "started_deferred", ![Top(p)] = "started"]
    /\ isSync' = [isSync EXCEPT ![Top(p)] = TRUE]
    /\ externalPanic' = IF TransfersPanic(p[1], Top(p)[1])
                        THEN [externalPanic EXCEPT ![Top(p)] = internalPanic[p]]
                        ELSE externalPanic
    /\ offered' = [offered EXCEPT ![Top(p)] = panicking[p]]
    /\ UNCHANGED <<funcCount, outOfResources, activeGoRoutines, callee, deferred, stmts,
                   internalPanic, panicking>>

ReachEnd(p) ==
    /\ loc[p] = "deferred" /\ deferred[p] = <<>>
    /\ loc' = Moved(p, "finalizing")
    /\ UNCHANGED <<funcCount, outOfResources, activeGoRoutines, callee, isSync, deferred,
                   stmts, flagVars>>

\* Mutant of Finalize: the panic the instance was started under is forgotten.
FinalizeOverwrites(p) ==
    /\ loc[p] = "finalizing"
    /\ loc' = Moved(p, "ending")
    /\ externalPanic' = [externalPanic EXCEPT
         ![p] = IF p # Main /\ TracksPanic(p[1]) THEN internalPanic[p] ELSE @]
    /\ UNCHANGED <<funcCount, outOfResources, activeGoRoutines, callee, isSync, deferred,
                   stmts, internalPanic, panicking, offered>>

Finalize(p) ==
    /\ loc[p] = "finalizing"
    /\ loc' = Moved(p, "ending")
    /\ externalPanic' = [externalPanic EXCEPT
         ![p] = IF p # Main /\ TracksPanic(p[1]) THEN @ \/ internalPanic[p] ELSE @]
    /\ UNCHANGED <<funcCount, outOfResources, activeGoRoutines, callee, isSync, deferred,
                   stmts, internalPanic, panicking, offered>>

\* Mutant of EndInit: it does not wait.
EndInitAtOnce ==
    /\ loc[Main] = "ending"
    /\ loc' = Moved(Main, "ended")
    /\ UNCHANGED <<funcCount, outOfResources, activeGoRoutines, callee, isSync, deferred,
                   stmts, flagVars>>

\* The init function ends when every other goroutine did.
EndInit ==
    /\ loc[Main] = "ending" /\ activeGoRoutines = 1
    /\ loc' = Moved(Main, "ended")
    /\ UNCHANGED <<funcCount, outOfResources, activeGoRoutines, callee, isSync, deferred,
                   stmts, flagVars>>

\* Mutant of EndAsync: an instance that was called ends without its caller.
EndAsyncAny(p) ==
    /\ p # Main
    /\ loc[p] = "ending"
    /\ loc' = Moved(p, "ended")
    /\ activeGoRoutines' = activeGoRoutines - 1
    /\ UNCHANGED <<funcCount, outOfResources, callee, isSync, deferred, stmts, flagVars>>

EndAsync(p) ==
    /\ p # Main
    /\ loc[p] = "ending" /\ ~isSync[p]
    /\ loc' = Moved(p, "ended")
    /\ activeGoRoutines' = activeGoRoutines - 1
    /\ UNCHANGED <<funcCount, outOfResources, callee, isSync, deferred, stmts, flagVars>>

\* Mutant of EndCall: there is no edge for a callee that panicked.
EndCallRegular(p, q) ==
    /\ p # Main
    /\ loc[p] = "ending" /\ isSync[p]
    /\ loc[q] = "started_callee" /\ callee[q] = p
    /\ ~externalPanic[p]
    /\ loc' = [loc EXCEPT ![p] = "ended", ![q] = "started"]
    /\ panicking' = [panicking EXCEPT ![q] = @ \/ panicking[p]]
    /\ UNCHANGED <<funcCount, outOfResources, activeGoRoutines, callee, isSync, deferred,
                   stmts, internalPanic, externalPanic, offered>>

\* sync_<f>[pid]!: the caller q goes on, or panics itself.
EndCall(p, q) ==
    LET panics == TracksPanic(p[1]) /\ externalPanic[p] IN
    /\ p # Main
    /\ loc[p] = "ending" /\ isSync[p]
    /\ loc[q] = "started_callee" /\ callee[q] = p
    /\ loc' = [loc EXCEPT ![p] = "ended", ![q] = IF panics THEN ExitState(q) ELSE "started"]
    /\ internalPanic' = [internalPanic EXCEPT ![q] = @ \/ panics]
    /\ panicking' = [panicking EXCEPT ![q] = @ \/ panicking[p]]
    /\ UNCHANGED <<funcCount, outOfResources, activeGoRoutines, callee, isSync, deferred,
                   stmts, externalPanic, offered>>

\* ... or pops the deferred call p and takes its panic, or the absence of one.
EndDeferred(p, q) ==
    /\ p # Main
    /\ loc[p] = "ending" /\ isSync[p]
    /\ loc[q] = "started_deferred" /\ Top(q) = p
    /\ loc' = [loc EXCEPT ![p] = "ended", ![q] = "deferred"]
    /\ deferred' = [deferred EXCEPT ![q] = SubSeq(@, 1, Len(@) - 1)]
    /\ internalPanic' = [internalPanic EXCEPT
         ![q] = IF TransfersPanic(q[1], p[1]) THEN externalPanic[p] ELSE @]
    /\ panicking' = [panicking EXCEPT ![q] = offered[p] \/ panicking[p]]
    /\ UNCHANGED <<funcCount, outOfResources, activeGoRoutines, callee, isSync, stmts,
                   externalPanic, offered>>

Begin(p) == StartSync(p) \/ StartAsync(p) \/ Defer(p) \/ StartDeferred(p)
Body(p) == \/ \E k \in CallKinds, f \in Funcs : Create(p, k, f)
           \/ Return(p) \/ Panic(p) \/ Recover(p)
End(p) == \/ ReachEnd(p) \/ Finalize(p) \/ EndAsync(p)
          \/ \E q \in Procs : EndCall(p, q) \/ EndDeferred(p, q)

\* Past a bound every query holds vacuously ("not out_of_resources imply"): no steps there.
Next == /\ ~outOfResources
        /\ \/ StartInit \/ EndInit
           \/ \E p \in Procs : Begin(p) \/ Body(p) \/ End(p)

Spec == Init /\ [][Next]_vars

\* Every goroutine runs on, and no body executes recover statements forever.
FairSpec == /\ Spec
            /\ WF_vars(~outOfResources /\ (StartInit \/ EndInit))
            /\ \A p \in Procs : /\ WF_vars(~outOfResources /\ (Begin(p) \/ End(p)))
                                /\ WF_vars(~outOfResources /\ Return(p))

-----------------------------------------------------------------------------
Locations == {"starting", "started", "created_call", "created_go", "created_defer",
              "started_callee", "deferred", "started_deferred", "finalizing", "ending", "ended"}

Running(p) == loc[p] \notin {"starting", "ended"}

\* Who waits for instance p to end.
Waiters(p) == {q \in Procs : \/ loc[q] = "started_callee" /\ callee[q] = p
                             \/ loc[q] = "started_deferred" /\ Top(q) = p}

\* While no bound is exceeded an instance belongs to one call: a running callee has exactly
\* one caller waiting for it, a goroutine has none, and nobody waits for one that does not run.
OneCallerPerInstance ==
    ~outOfResources => \A p \in Procs :
      Cardinality(Waiters(p)) = IF Running(p) /\ isSync[p] THEN 1 ELSE 0

\* active_go_routines counts the running goroutines, the init function included.
GoRoutinesCounted ==
    activeGoRoutines = 1 + Cardinality({p \in Procs \ {Main} : Running(p) /\ ~isSync[p]})

\* The init function ends last: when it ends nothing it started is running.
InitEndsLast ==
    [][loc[Main] # "ended" /\ loc'[Main] = "ended" =>
         \A p \in Procs \ {Main} : ~Running(p)]_vars

\* The query "check goroutine does not exit with panic" sees the panics Go has: when a
\* goroutine ends, internal_panic says whether its function panics.
PanicVerdict ==
    \A p \in Procs : loc[p] = "ending" /\ ~isSync[p] => internalPanic[p] = panicking[p]

\* The program ends, unless a bound is exceeded: no hand-over between caller and callee,
\* panicking or not, is lost.
ProgramEnds == <>(loc[Main] = "ended" \/ outOfResources)
=============================================================================
