----------------------------- MODULE Statements -----------------------------
(* What the statements of a Go function and of the IR made from it mean: the  *)
(* events a process running them shows to the rest of the program. A body is  *)
(* a sequence of statements, a statement a record whose field k is its kind:  *)
(*   op       a channel operation on e: it starts, and ends when it may       *)
(*   call     of function e, which returns or panics                          *)
(*   assign   to the global variable e                                        *)
(*   if       one of the bodies yes and no                                    *)
(*   switch   cases with conds, a body, def (the default) and ft (fallthrough)*)
(*   select   cases with a channel e, a body and reach (annotated), hasdef    *)
(*            and the body def                                                *)
(*   chanrange  a loop over the channel e                                     *)
(*   return   (panics: with a panic),  dead  an operation that never ends     *)
(* The IR has loops with bounds on their iterations (for; a range over an     *)
(* array of n elements is one with n as both bounds; negative means unknown)  *)
(* and branches to an enclosing statement, known by its depth id. Go has for  *)
(* loops with variables, condition and post statement, and labels (0: none).  *)
(* A run is a stack of statements and of markers of the enclosing loops and   *)
(* switches. Conditions over unknown values may go either way.                *)
EXTENDS Integers, Sequences, SequencesExt, FiniteSetsExt

Silent == <<>>
To(event, stack) == [ev |-> event, next |-> stack]
When(p, S) == IF p THEN S ELSE {}

Marker(s, name) == [k |-> name, id |-> s.id]
Ending(panics) == [k |-> "end", panics |-> panics]

\* The stack of a process about to run body, and that of one that has ended.
Started(body) == <<[k |-> "begin"]>> \o body \o <<Ending(FALSE)>>
Ended == <<>>

-----------------------------------------------------------------------------
(* Arithmetic of loop headers: literals, variables by their number, + - < >.  *)

RECURSIVE Evaluate(_, _)
Evaluate(e, vals) ==
    CASE e.x = "lit" -> e.n
      [] e.x = "var" -> vals[e.n]
      [] e.x = "+" -> Evaluate(e.l, vals) + Evaluate(e.r, vals)
      [] e.x = "-" -> Evaluate(e.l, vals) - Evaluate(e.r, vals)
      [] e.x = "<" -> Evaluate(e.l, vals) < Evaluate(e.r, vals)
      [] e.x = ">" -> Evaluate(e.l, vals) > Evaluate(e.r, vals)

\* The outcomes of a condition, and an assignment, whose right sides Go evaluates first.
Outcomes(cond, vals) ==
    CASE cond.x = "forever" -> {TRUE}
      [] cond.x = "unknown" -> BOOLEAN
      [] OTHER -> {Evaluate(cond, vals)}
Assigned(s, vals) ==
    [v \in DOMAIN vals |->
        LET i == {j \in DOMAIN s.to : s.to[j] = v}
        IN  IF i = {} THEN vals[v] ELSE Evaluate(s.from[Max(i)], vals)]

-----------------------------------------------------------------------------
(* Steps both languages share.                                                *)

\* The body of case i and those it falls through to.
CaseBody(cases, i) ==
    LET last == Min({j \in i .. Len(cases) : ~cases[j].ft})
    IN  FlattenSeq([j \in 1 .. last - i + 1 |-> cases[i + j - 1].body])

\* The conditions evaluated when the first j conditions of case i are the last of them.
CondsUntil(cases, i, j) ==
    FlattenSeq(FlattenSeq([h \in 1 .. i - 1 |-> cases[h].conds])
               \o SubSeq(cases[i].conds, 1, j))

Selections(cases) ==
    LET all == FlattenSeq(FlattenSeq([i \in DOMAIN cases |-> cases[i].conds]))
        defs == {i \in DOMAIN cases : cases[i].def}
    IN  UNION {{CondsUntil(cases, i, j) \o CaseBody(cases, i) : j \in DOMAIN cases[i].conds}
                 : i \in DOMAIN cases}
        \union (IF defs = {} THEN {all} ELSE {all \o CaseBody(cases, i) : i \in defs})

\* A select that has polled its channels, is about to use that of case i, or waits.
Selecting(s, state, i) == [k |-> state, s |-> s, i |-> i]

CommonSteps(s, rest) ==
    CASE s.k = "begin"  -> {To(<<"begin">>, rest)}
      [] s.k = "op"     -> {To(<<s.e, "start">>, <<[k |-> "await", e |-> s.e]>> \o rest)}
      [] s.k = "await"  -> {To(<<s.e, "end">>, rest)}
      [] s.k = "assign" -> {To(<<s.e, "assign">>, rest)}
      [] s.k = "call"   -> {To(<<s.e, "call">>, <<[k |-> "callee", e |-> s.e]>> \o rest)}
      [] s.k = "callee" -> {To(<<s.e, "return">>, rest), To(<<s.e, "panic">>, <<Ending(TRUE)>>)}
      [] s.k = "if"     -> {To(Silent, s.yes \o rest), To(Silent, s.no \o rest)}
      [] s.k = "switch" -> {To(Silent, body \o <<Marker(s, "exit")>> \o rest)
                              : body \in Selections(s.cases)}
      [] s.k = "exit"   -> {To(Silent, rest)}
      [] s.k = "select" -> {To(<<"select", "poll">>, <<Selecting(s, "polled", 0)>> \o rest)}
      [] s.k = "polled" ->
            {To(<<s.s.cases[i].e, "ready">>, <<Selecting(s.s, "taking", i)>> \o rest)
               : i \in DOMAIN s.s.cases}
            \union {To(<<"select", "blocked">>,
                       (IF s.s.hasdef THEN s.s.def \o <<Marker(s.s, "exit")>>
                        ELSE <<Selecting(s.s, "blocked", 0)>>) \o rest)}
      [] s.k = "taking" -> {To(<<s.s.cases[s.i].e, "end">>,
                               s.s.cases[s.i].body \o <<Marker(s.s, "exit")>> \o rest)}
      [] s.k = "blocked" ->
            {To(<<s.s.cases[i].e, "end">>, s.s.cases[i].body \o <<Marker(s.s, "exit")>> \o rest)
               : i \in DOMAIN s.s.cases}
      [] s.k = "chanrange" -> {To(<<s.e, "start">>, <<[k |-> "receive", s |-> s]>> \o rest)}
      [] s.k = "receive" -> {To(<<s.s.e, "end">>, <<[k |-> "received", s |-> s.s]>> \o rest)}
      [] s.k = "received" ->
            {To(<<s.s.e, "closed">>, rest),
             To(<<s.s.e, "message">>,
                s.s.body \o <<[k |-> "next", id |-> s.s.id, s |-> s.s]>> \o rest)}
      [] s.k = "next"   -> {To(Silent, <<s.s>> \o rest)}
      [] s.k = "return" -> {To(Silent, <<Ending(s.panics)>>)}
      [] s.k = "dead"   -> {}
      [] s.k = "end"    -> {To(<<"end", IF s.panics THEN "panic" ELSE "regular">>, Ended)}

\* The stack once it is cut down to the marker that a break or continue means.
LoopMarkers == {"again", "post", "next", "iter"}
Jump(s, rest) ==
    LET enclosing == {i \in DOMAIN rest :
            /\ rest[i].k \in (IF s.k = "break" THEN LoopMarkers \union {"exit"} ELSE LoopMarkers)
            /\ s.id \in {0, rest[i].id}}
        i == Min(enclosing)
    IN  {To(Silent, SubSeq(rest, IF s.k = "break" THEN i + 1 ELSE i, Len(rest)))}

-----------------------------------------------------------------------------
(* The IR: a loop makes a number of iterations within its bounds.             *)

\* One more iteration; without an upper bound only the lower one needs a count.
Counted(s, n) == IF s.max < 0 THEN Min({n + 1, Max({s.min, 0})}) ELSE n + 1

IRStepsOf(s, rest) ==
    CASE s.k \in {"for", "range"} ->
            {To(Silent, s.cond \o <<[k |-> "decide", s |-> s, n |-> 0]>> \o rest)}
      [] s.k = "decide" ->
            When(s.s.max < 0 \/ s.n < s.s.max,
                 {To(Silent, s.s.body \o <<[k |-> "again", id |-> s.s.id, s |-> s.s,
                                            n |-> Counted(s.s, s.n)]>> \o rest)})
            \union When(~s.s.inf /\ s.n >= s.s.min, {To(Silent, rest)})
      [] s.k = "again"  -> {To(Silent, s.s.cond \o <<[k |-> "decide", s |-> s.s, n |-> s.n]>> \o rest)}
      [] s.k \in {"break", "continue"} -> Jump(s, rest)
      [] OTHER -> CommonSteps(s, rest)

IRSteps(c) == IF c = Ended THEN {} ELSE IRStepsOf(Head(c), Tail(c))

-----------------------------------------------------------------------------
(* Go: the condition of a loop is evaluated on its variables, and continue    *)
(* runs the post statement. An annotation promises that the iterations stay   *)
(* within its bounds.                                                         *)

Post(s, n, vals) == [k |-> "post", id |-> s.id, s |-> s, n |-> n, vals |-> vals]
Test(s, n, vals) == s.ops \o <<[k |-> "test", s |-> s, n |-> n, vals |-> vals]>>
PostOps(s) == IF s.post.k \in {"none", "set"} THEN <<>> ELSE <<s.post>>
PostVals(s, vals) == IF s.post.k = "set" THEN Assigned(s.post, vals) ELSE vals

\* A statement of the body that sets the first variable of the enclosing loop.
SetLoopVar(n, rest) ==
    LET i == Min({j \in DOMAIN rest : rest[j].k = "post"})
    IN  [rest EXCEPT ![i].vals[1] = n]

GoStepsOf(s, rest) ==
    CASE s.k = "for"   -> {To(Silent, Test(s, 0, s.vars) \o rest)}
      [] s.k = "test"  ->
            {To(Silent, IF go THEN s.s.body \o <<Post(s.s, Counted(s.s, s.n), s.vals)>> \o rest ELSE rest)
               : go \in {x \in Outcomes(s.s.cond, s.vals) :
                            IF x THEN s.s.max < 0 \/ s.n < s.s.max ELSE s.n >= s.s.min}}
      [] s.k = "post"  -> {To(Silent, PostOps(s.s) \o Test(s.s, s.n, PostVals(s.s, s.vals)) \o rest)}
      [] s.k = "range" -> {To(Silent, <<[k |-> "iter", id |-> s.id, s |-> s, left |-> s.n]>> \o rest)}
      [] s.k = "iter"  ->
            {To(Silent, IF s.left = 0 THEN rest
                        ELSE s.s.body \o <<[s EXCEPT !.left = @ - 1]>> \o rest)}
      [] s.k = "setvar" -> {To(Silent, SetLoopVar(s.n, rest))}
      [] s.k \in {"break", "continue"} -> Jump(s, rest)
      [] OTHER -> CommonSteps(s, rest)

GoSteps(c) == IF c = Ended THEN {} ELSE GoStepsOf(Head(c), Tail(c))
=============================================================================
