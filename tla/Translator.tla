----------------------------- MODULE Translator -----------------------------
(* The process of the network that the translator makes of the body of an IR  *)
(* function (translator/branch_stmts.go, translator.go, context.go and the    *)
(* edges of operations and calls): an automaton given by the sequence of its  *)
(* edges in the order they are added. A state is named by the place of its    *)
(* statement in the function and its role there. Of the labels of an edge the *)
(* model keeps what decides a run and what the optimizer looks at: the guard  *)
(* (a set of atoms over local variables), whether it synchronises, the local  *)
(* updates, the event other processes see, and the usesGlobals flags.         *)
EXTENDS Statements

\* Local variables of the process: its panic flags; the counters of loops are 1, 2, ...
InternalPanic == 0
ExternalPanic == -1
NoSync == ""

Edge(from, to) ==
    [from |-> from, to |-> to, guard |-> {}, sync |-> NoSync, upd |-> <<>>,
     ev |-> Silent, glob |-> FALSE]

\* An edge with a synchronisation on e, and one that updates global variables.
SyncEdge(from, to, e, what) ==
    [Edge(from, to) EXCEPT !.sync = e \o what, !.ev = <<e, what>>, !.glob = TRUE]
GlobalEdge(from, to, e, what) ==
    [Edge(from, to) EXCEPT !.upd = <<[op |-> "global", var |-> 0, of |-> e]>>,
                           !.ev = <<e, what>>, !.glob = TRUE]
Updating(edge, op, var) == [edge EXCEPT !.upd = Append(@, [op |-> op, var |-> var, of |-> ""])]
Guarded(edge, op, var, n) == [edge EXCEPT !.guard = {[op |-> op, var |-> var, n |-> n]}]

St(path, role) == [path |-> path, role |-> role]

\* The states of a function; finalizing is where its body exits to.
Frame(role) == St(<<>>, role)

\* Committed states; all others are normal ones.
IsCommitted(state) == state.role \in {"received", "pass_1"}

\* States the generated queries name.
IsQueried(state) == state.role \in {"sending", "receiving", "pass_2", "checked_enter", "ending"}

-----------------------------------------------------------------------------
(* The context of a body: the states that break and continue lead to, by the  *)
(* depth of the enclosing statement (NoState: neither applies to it).         *)

NoState == Frame("none")
NewContext == [brk |-> <<>>, cont |-> <<>>]
subContextForStmt(ctx, brk, cont) == [brk |-> Append(ctx.brk, brk), cont |-> Append(ctx.cont, cont)]

\* Mutant of isInSpecialControlFlowState: after a continue the body goes on.
AfterReturnOrBreak(state, ctx) ==
    state = Frame("finalizing") \/ \E i \in DOMAIN ctx.brk : ctx.brk[i] = state

isInSpecialControlFlowState(state, ctx) ==
    \/ state = Frame("finalizing")
    \/ \E i \in DOMAIN ctx.brk : state \in {ctx.brk[i], ctx.cont[i]}

\* Edges made so far and the current state.
At(edges, state) == [edges |-> edges, state |-> state]

RECURSIVE translateStmt(_, _, _, _)

translateStmts(stmts, path, from, ctx) ==
    FoldLeft(LAMBDA t, i :
                IF isInSpecialControlFlowState(t.state, ctx) THEN t
                ELSE LET u == translateStmt(stmts[i], Append(path, i), t.state, ctx)
                     IN  At(t.edges \o u.edges, u.state),
             At(<<>>, from), [i \in DOMAIN stmts |-> i])

\* A body that does not end in a jump goes on to the state it exits to.
translateBody(stmts, path, from, exit, ctx) ==
    LET t == translateStmts(stmts, path, from, ctx)
    IN  t.edges \o IF isInSpecialControlFlowState(t.state, ctx) THEN <<>>
                   ELSE <<Edge(t.state, exit)>>

-----------------------------------------------------------------------------
(* Statements without a body.                                                 *)

translateChanCommOpStmt(s, path, from) ==
    LET pending == St(path, "sending")
        trigger == SyncEdge(from, pending, s.e, "start")
    IN  At(<<Updating(trigger, "global", 0), SyncEdge(pending, St(path, "sent"), s.e, "end")>>,
           St(path, "sent"))

translateAssignStmt(s, path, from) ==
    At(<<GlobalEdge(from, St(path, "assigned"), s.e, "assign")>>, St(path, "assigned"))

\* The instance is made by an update that is not flagged as one of globals.
translateCall(s, path, from) ==
    LET created == St(path, "created")
        started == St(path, "started")
        awaited == St(path, "awaited")
        regular == SyncEdge(started, awaited, s.e, "return")
        panic == SyncEdge(started, Frame("finalizing"), s.e, "panic")
    IN  At(<<Updating(Edge(from, created), "make", 0),
             SyncEdge(created, started, s.e, "call"),
             Guarded(regular, "other", 0, 0),
             Guarded(Updating(panic, "set", InternalPanic), "other", 0, 1)>>, awaited)

translateReturnStmt(s, from) ==
    LET ret == Edge(from, Frame("finalizing"))
    IN  At(<<IF s.panics THEN Updating(ret, "set", InternalPanic) ELSE ret>>, Frame("finalizing"))

translateDeadEndStmt(path, from) ==
    At(<<Edge(from, St(path, "dead_end"))>>, Frame("finalizing"))

translateBranchStmt(s, from, ctx) ==
    LET target == IF s.k = "break" THEN ctx.brk[s.id] ELSE ctx.cont[s.id]
    IN  At(<<Edge(from, target)>>, target)

-----------------------------------------------------------------------------
(* Statements with bodies.                                                    *)

translateIfStmt(s, path, from, ctx) ==
    LET sub == subContextForStmt(ctx, NoState, NoState)
        ifExit == St(path, "exit_if")
    IN  At(translateBody(s.yes, Append(path, 1), St(path, "enter_if"), ifExit, sub)
           \o translateBody(s.no, Append(path, 2), St(path, "enter_else"), ifExit, sub)
           \o <<Edge(from, St(path, "enter_if")), Edge(from, St(path, "enter_else"))>>, ifExit)

\* The states of case i: its conditions and its body.
CondState(path, i, j, role) == St(path \o <<i, j>>, role)
CaseState(path, i, role) == St(Append(path, i), role)

\* The last condition before case i, or the state before the switch.
RECURSIVE LastCond(_, _, _, _)
LastCond(cases, path, i, from) ==
    IF i = 1 THEN from
    ELSE IF cases[i - 1].conds = <<>> THEN LastCond(cases, path, i - 1, from)
    ELSE CondState(path, i - 1, Len(cases[i - 1].conds), "cond_exit")

CaseExit(cases, path, i) ==
    IF cases[i].ft THEN CaseState(path, i + 1, "body_enter") ELSE St(path, "switch_end")

\* The conditions of a case are tried in turn, each leading to its body or the next one.
CaseEdges(cases, path, i, from) ==
    <<Edge(CaseState(path, i, "body_exit"), CaseExit(cases, path, i))>>
    \o FlattenSeq([j \in DOMAIN cases[i].conds |->
         <<Edge(IF j = 1 THEN LastCond(cases, path, i, from)
                ELSE CondState(path, i, j - 1, "cond_exit"), CondState(path, i, j, "cond_enter")),
           Edge(CondState(path, i, j, "cond_exit"), CaseState(path, i, "body_enter"))>>])

translateSwitchStmt(s, path, from, ctx) ==
    LET exit == St(path, "switch_end")
        condCtx == subContextForStmt(ctx, NoState, NoState)
        bodyCtx == subContextForStmt(ctx, exit, NoState)
        defaults == {i \in DOMAIN s.cases : s.cases[i].def}
        last == LastCond(s.cases, path, Len(s.cases) + 1, from)
        inside(i) ==
            FlattenSeq([j \in DOMAIN s.cases[i].conds |->
                translateBody(s.cases[i].conds[j], path \o <<i, j>>,
                              CondState(path, i, j, "cond_enter"),
                              CondState(path, i, j, "cond_exit"), condCtx)])
            \o translateBody(s.cases[i].body, path \o <<i, 0>>, CaseState(path, i, "body_enter"),
                             CaseState(path, i, "body_exit"), bodyCtx)
    IN  At(FlattenSeq([i \in DOMAIN s.cases |-> inside(i)])
           \o FlattenSeq([i \in DOMAIN s.cases |-> CaseEdges(s.cases, path, i, from)])
           \o <<Edge(last, IF defaults = {} THEN exit
                           ELSE CaseState(path, Max(defaults), "body_enter"))>>, exit)

\* A case whose reachability is to be checked starts in a state a query names.
SelectCaseState(s, path, i) ==
    CaseState(path, i, IF s.cases[i].reach THEN "checked_enter" ELSE "case_enter")

\* All counters change on the way to pass 1; it takes what is possible, or the default,
\* or waits in pass 2. Taking a case takes back the changes for the other ones.
translateSelectStmt(s, path, from, ctx) ==
    LET exit == St(path, "select_end")
        sub == subContextForStmt(ctx, exit, NoState)
        pass1 == St(path, "pass_1")
        unsuccessful == St(path, IF s.hasdef THEN "default_enter" ELSE "pass_2")
        enteringCase(i, state) ==
            LET confirm == SyncEdge(state, SelectCaseState(s, path, i), s.cases[i].e, "end")
            IN  IF Len(s.cases) > 1 THEN Updating(confirm, "global", 0) ELSE confirm
        triggered(i) == CaseState(path, i, "trigger")
        none == [Guarded(Edge(pass1, unsuccessful), "other", 0, 2)
                    EXCEPT !.ev = <<"select", "blocked">>, !.glob = TRUE]
    IN  At((IF s.hasdef THEN translateBody(s.def, Append(path, 0), unsuccessful, exit, sub) ELSE <<>>)
           \o FlattenSeq([i \in DOMAIN s.cases |->
                translateBody(s.cases[i].body, Append(path, i), SelectCaseState(s, path, i), exit, sub)])
           \o <<GlobalEdge(from, pass1, "select", "poll")>>
           \o FlattenSeq([i \in DOMAIN s.cases |->
                <<Guarded(SyncEdge(pass1, triggered(i), s.cases[i].e, "ready"), "other", 0, 3),
                  enteringCase(i, triggered(i))>>])
           \o <<IF s.hasdef THEN Updating(none, "global", 0) ELSE none>>
           \o (IF s.hasdef THEN <<>> ELSE [i \in DOMAIN s.cases |-> enteringCase(i, unsuccessful)]),
           exit)

\* The body of a loop; it exits to body_exit, from where the next iteration starts.
translateLoopBody(s, path, ctx) ==
    translateBody(s.body, Append(path, 1), St(path, "body_enter"), St(path, "body_exit"),
                  subContextForStmt(ctx, St(path, "loop_exit"), St(path, "body_exit")))

\* The local variable that counts iterations, one for each depth of nesting.
CounterVar(ctx) == Len(ctx.cont) + 1

translateForStmt(s, path, from, ctx) ==
    LET i == CounterVar(ctx)
        enter == St(path, "cond_enter")
        exit == St(path, "cond_exit")
        start == Edge(from, enter)
        goOn == Edge(exit, St(path, "body_enter"))
        leave == Edge(exit, St(path, "loop_exit"))
        again == Edge(St(path, "body_exit"), enter)
    IN  At(translateBody(s.cond, Append(path, 0), enter, exit,
                         subContextForStmt(ctx, NoState, NoState))
           \o translateLoopBody(s, path, ctx)
           \o <<IF s.min >= 0 \/ s.max >= 0 THEN Updating(start, "zero", i) ELSE start,
                IF s.max >= 0 THEN Guarded(goOn, "lt", i, s.max) ELSE goOn>>
           \o (IF s.inf THEN <<>>
               ELSE <<IF s.min >= 0 THEN Guarded(leave, "ge", i, s.min) ELSE leave>>)
           \o <<IF s.max >= 0 THEN Updating(again, "inc", i) ELSE again>>, St(path, "loop_exit"))

translateContainerRangeStmt(s, path, from, ctx) ==
    LET i == CounterVar(ctx)
        enter == St(path, "range_enter")
        assigning == St(path, "range_assigning")
    IN  At(translateLoopBody(s, path, ctx)
           \o <<Updating(Edge(from, enter), "zero", i),
                Guarded(Edge(enter, St(path, "loop_exit")), "ge", i, s.max),
                Guarded(Edge(enter, assigning), "lt", i, s.max),
                Edge(assigning, St(path, "body_enter")),
                Updating(Edge(St(path, "body_exit"), enter), "inc", i)>>, St(path, "loop_exit"))

translateChanRangeStmt(s, path, from, ctx) ==
    LET enter == St(path, "range_enter")
        receiving == St(path, "receiving")
        received == St(path, "received")
        decide(to, what) ==
            [Guarded(Edge(received, to), what, 0, 0) EXCEPT !.ev = <<s.e, what>>, !.glob = TRUE]
    IN  At(<<Updating(SyncEdge(enter, receiving, s.e, "start"), "global", 0),
             SyncEdge(receiving, received, s.e, "end")>>
           \o translateLoopBody(s, path, ctx)
           \o <<Updating(Edge(from, enter), "handle", 0),
                decide(St(path, "body_enter"), "message"),
                decide(St(path, "loop_exit"), "closed"),
                Edge(St(path, "body_exit"), enter)>>, St(path, "loop_exit"))

translateStmt(s, path, from, ctx) ==
    CASE s.k = "op"     -> translateChanCommOpStmt(s, path, from)
      [] s.k = "assign" -> translateAssignStmt(s, path, from)
      [] s.k = "call"   -> translateCall(s, path, from)
      [] s.k = "return" -> translateReturnStmt(s, from)
      [] s.k = "dead"   -> translateDeadEndStmt(path, from)
      [] s.k \in {"break", "continue"} -> translateBranchStmt(s, from, ctx)
      [] s.k = "if"     -> translateIfStmt(s, path, from, ctx)
      [] s.k = "switch" -> translateSwitchStmt(s, path, from, ctx)
      [] s.k = "select" -> translateSelectStmt(s, path, from, ctx)
      [] s.k = "for"    -> translateForStmt(s, path, from, ctx)
      [] s.k = "range"  -> translateContainerRangeStmt(s, path, from, ctx)
      [] s.k = "chanrange" -> translateChanRangeStmt(s, path, from, ctx)

\* A function called synchronously: its body between the edges that start and end it.
translateFunc(body) ==
    LET end == [SyncEdge(Frame("ending"), Frame("ended"), "end", "") EXCEPT !.ev = <<"end">>]
        start == [SyncEdge(Frame("starting"), Frame("started"), "begin", "") EXCEPT !.ev = <<"begin">>]
    IN  translateBody(body, <<>>, Frame("started"), Frame("finalizing"), NewContext)
        \o <<Updating(Edge(Frame("finalizing"), Frame("ending")), "copy", ExternalPanic),
             Updating(start, "is_sync", 0), Guarded(end, "other", 0, 0)>>

-----------------------------------------------------------------------------
(* Runs of an automaton: its state and local variables.                       *)

InitialEnv(vars) == [v \in vars |-> 0]

Holds(atom, env) ==
    CASE atom.op = "lt" -> env[atom.var] < atom.n
      [] atom.op = "ge" -> env[atom.var] >= atom.n
      [] OTHER -> TRUE

Updated(env, upd) ==
    FoldLeft(LAMBDA v, u : CASE u.op = "zero" -> [v EXCEPT ![u.var] = 0]
                             [] u.op = "inc"  -> [v EXCEPT ![u.var] = @ + 1]
                             [] u.op = "set"  -> [v EXCEPT ![u.var] = 1]
                             [] u.op = "copy" -> [v EXCEPT ![u.var] = v[InternalPanic]]
                             [] OTHER -> v, env, upd)

EventOf(edge, env) ==
    IF edge.ev = <<"end">> THEN <<"end", IF env[ExternalPanic] = 1 THEN "panic" ELSE "regular">>
    ELSE edge.ev

AutomatonSteps(edges, c) ==
    {[ev |-> EventOf(edges[i], c.env),
      next |-> [at |-> edges[i].to, env |-> Updated(c.env, edges[i].upd)]]
       : i \in {j \in DOMAIN edges : /\ edges[j].from = c.at
                                     /\ \A g \in edges[j].guard : Holds(g, c.env)}}
=============================================================================
