------------------------------- MODULE Builder -------------------------------
(* The control flow of the IR builder (builder/branch_stmts.go, context.go,   *)
(* static_eval.go): the statements of a Go function become IR statements, the *)
(* targets of break and continue are found among the enclosing ones, and the  *)
(* iterations of simple for loops are counted by running their header.        *)
EXTENDS Statements

CONSTANT MaxIterCount   \* iterations after which staticForLoopBoundsEval gives up

ASSUME MaxIterCountAssumption == MaxIterCount \in Nat

-----------------------------------------------------------------------------
(* Static evaluation of the header of a loop.                                 *)

\* Right sides are evaluated one after the other, with the earlier left sides assigned.
staticStmtEval(s, vals) ==
    FoldLeft(LAMBDA vs, i : [vs EXCEPT ![s.to[i]] = Evaluate(s.from[i], vs)],
             vals, [i \in DOMAIN s.to |-> i])

\* No assignment to the variables of the loop in its body, as a walk over it finds them.
RECURSIVE AssignsLoopVar(_)
AssignsLoopVar(body) ==
    \E i \in DOMAIN body : LET s == body[i] IN
        CASE s.k = "setvar" -> TRUE
          [] s.k = "if"     -> AssignsLoopVar(s.yes) \/ AssignsLoopVar(s.no)
          [] s.k = "switch" -> \E j \in DOMAIN s.cases : AssignsLoopVar(s.cases[j].body)
          [] s.k = "select" -> AssignsLoopVar(s.def) \/
                               \E j \in DOMAIN s.cases : AssignsLoopVar(s.cases[j].body)
          [] s.k \in {"range", "chanrange"} -> AssignsLoopVar(s.body)
          [] s.k = "for"    -> s.vars = <<>> /\ AssignsLoopVar(s.body)
          [] OTHER          -> FALSE

RECURSIVE CountIterations(_, _, _)
CountIterations(s, vals, n) ==
    IF n = MaxIterCount \/ s.cond.x = "unknown" THEN -1
    ELSE IF ~Evaluate(s.cond, vals) THEN n
    ELSE IF s.post.k # "set" THEN -1
    ELSE CountIterations(s, staticStmtEval(s.post, vals), n + 1)

\* Mutant of staticForLoopBoundsEval: the body may change the variables it counts with.
BoundsOfAnyLoop(s) ==
    IF s.vars = <<>> \/ s.cond.x = "forever" \/ s.post.k = "none" THEN -1
    ELSE CountIterations(s, s.vars, 0)

staticForLoopBoundsEval(s) ==
    IF s.vars = <<>> \/ s.cond.x = "forever" \/ s.post.k = "none" \/ AssignsLoopVar(s.body)
    THEN -1
    ELSE CountIterations(s, s.vars, 0)

-----------------------------------------------------------------------------
(* Statements. ctx is the sequence of enclosing statements, as records of     *)
(* their kind and label; the IR knows a statement by its place in it.         *)

Loops == {"for", "range", "chanrange"}

findBreakable(ctx, label) ==
    Max({i \in DOMAIN ctx : /\ ctx[i].k \in Loops \union {"switch", "select"}
                           /\ label \in {0, ctx[i].label}})

findContinuable(ctx, label) ==
    Max({i \in DOMAIN ctx : ctx[i].k \in Loops /\ label \in {0, ctx[i].label}})

subContextForBody(ctx, s, label) == Append(ctx, [k |-> s.k, label |-> label])

RECURSIVE processStmt(_, _)
processStmts(stmts, ctx) == FlattenSeq([i \in DOMAIN stmts |-> processStmt(stmts[i], ctx)])

processIfStmt(s, ctx) ==
    LET sub == subContextForBody(ctx, s, 0)
    IN  <<[k |-> "if", id |-> Len(sub),
           yes |-> processStmts(s.yes, sub), no |-> processStmts(s.no, sub)]>>

processSwitchStmt(s, ctx) ==
    LET sub == subContextForBody(ctx, s, s.id)
    IN  <<[k |-> "switch", id |-> Len(sub),
           cases |-> [i \in DOMAIN s.cases |->
               [s.cases[i] EXCEPT
                  !.conds = [j \in DOMAIN @ |-> processStmts(@[j], sub)],
                  !.body = processStmts(@, sub)]]]>>

processSelectStmt(s, ctx) ==
    LET sub == subContextForBody(ctx, s, s.id)
    IN  <<[k |-> "select", id |-> Len(sub), hasdef |-> s.hasdef, def |-> processStmts(s.def, sub),
           cases |-> [i \in DOMAIN s.cases |-> [s.cases[i] EXCEPT !.body = processStmts(@, sub)]]]>>

\* The post statement is appended to the body, where continue does not pass it.
processForStmt(s, ctx) ==
    LET sub == subContextForBody(ctx, s, s.id)
        iters == staticForLoopBoundsEval(s)
        annotated == s.min # -1 \/ s.max # -1
    IN  <<[k |-> "for", id |-> Len(sub),
           cond |-> processStmts(s.ops, subContextForBody(ctx, s, 0)),
           inf |-> s.cond.x = "forever",
           min |-> IF annotated THEN s.min ELSE iters,
           max |-> IF annotated THEN s.max ELSE iters,
           body |-> processStmts(s.body, sub)
                    \o processStmts(PostOps(s), subContextForBody(ctx, s, 0))]>>

processRangeStmt(s, ctx) ==
    LET sub == subContextForBody(ctx, s, s.id)
        body == processStmts(s.body, sub)
    IN  IF s.k = "chanrange" THEN <<[k |-> "chanrange", id |-> Len(sub), e |-> s.e, body |-> body]>>
        ELSE <<[k |-> "range", id |-> Len(sub), cond |-> <<>>, inf |-> FALSE,
                min |-> s.n, max |-> s.n, body |-> body]>>

processBranchStmt(s, ctx) ==
    <<[s EXCEPT !.id = IF s.k = "break" THEN findBreakable(ctx, s.id)
                       ELSE findContinuable(ctx, s.id)]>>

processStmt(s, ctx) ==
    CASE s.k = "if"     -> processIfStmt(s, ctx)
      [] s.k = "switch" -> processSwitchStmt(s, ctx)
      [] s.k = "select" -> processSelectStmt(s, ctx)
      [] s.k = "for"    -> processForStmt(s, ctx)
      [] s.k \in {"range", "chanrange"} -> processRangeStmt(s, ctx)
      [] s.k \in {"break", "continue"}  -> processBranchStmt(s, ctx)
      [] s.k \in {"setvar", "set"}      -> <<>>
      [] OTHER          -> <<s>>
=============================================================================
