--------------------------- MODULE MCControlFlow ---------------------------
(* Functions of the kinds of statements there are, nested two deep, each      *)
(* followed by an operation that shows where it ended.                        *)
EXTENDS ControlFlow

Op(e) == [k |-> "op", e |-> e]
Call == [k |-> "call", e |-> "f"]
AssignTo(e) == [k |-> "assign", e |-> e]
Break(label) == [k |-> "break", id |-> label]
Continue(label) == [k |-> "continue", id |-> label]
Return == [k |-> "return", panics |-> FALSE]
Panic == [k |-> "return", panics |-> TRUE]
DeadEnd == [k |-> "dead"]

IfElse(yes, no) == [k |-> "if", yes |-> yes, no |-> no]
Case(conds, body) == [conds |-> conds, body |-> body, def |-> FALSE, ft |-> FALSE]
Fallthrough(case) == [case EXCEPT !.ft = TRUE]
Default(body) == [Case(<<>>, body) EXCEPT !.def = TRUE]
Switch(label, cases) == [k |-> "switch", id |-> label, cases |-> cases]
Comm(e, body, reach) == [e |-> e, body |-> body, reach |-> reach]
Select(cases) == [k |-> "select", id |-> 0, cases |-> cases, hasdef |-> FALSE, def |-> <<>>]
SelectDefault(cases, def) == [Select(cases) EXCEPT !.hasdef = TRUE, !.def = def]
ChanRange(label, body) == [k |-> "chanrange", id |-> label, e |-> "c", body |-> body]
ArrayRange(label, n, body) == [k |-> "range", id |-> label, n |-> n, body |-> body]

Lit(n) == [x |-> "lit", n |-> n]
Var(n) == [x |-> "var", n |-> n]
Expr(x, l, r) == [x |-> x, l |-> l, r |-> r]
SetTo(to, from) == [k |-> "set", to |-> to, from |-> from]
NoPost == [k |-> "none"]

Loop(label, body) ==
    [k |-> "for", id |-> label, vars |-> <<>>, ops |-> <<>>, cond |-> [x |-> "forever"],
     post |-> NoPost, min |-> -1, max |-> -1, body |-> body]
While(label, ops, body) == [Loop(label, body) EXCEPT !.cond = [x |-> "unknown"], !.ops = ops]
Annotated(loop, min, max) == [loop EXCEPT !.min = min, !.max = max]
Header(counters, cond, post, body) ==
    [Loop(0, body) EXCEPT !.vars = counters, !.cond = cond, !.post = post]

\* for i := from; i < to; i = i + step
Counting(from, to, step, body) ==
    Header(<<from>>, Expr("<", Var(1), Lit(to)), SetTo(<<1>>, <<Expr("+", Var(1), Lit(step))>>), body)

Simple == {<<>>, <<Op("a")>>, <<Call>>, <<AssignTo("g")>>, <<Return>>, <<Panic>>, <<DeadEnd>>,
           <<Op("a"), Call>>, <<Call, Op("a")>>, <<Return, Op("a")>>}
LoopBodies == {<<Op("a")>>, <<Call>>, <<AssignTo("g")>>, <<Break(0)>>, <<Continue(0)>>, <<Return>>,
               <<IfElse(<<Break(0)>>, <<>>), Call>>, <<IfElse(<<Continue(0)>>, <<Op("a")>>), Call>>}

Branches ==
    {IfElse(y, n) : y \in Simple, n \in {<<>>, <<Call>>, <<Return>>}}
    \union {Switch(0, <<Case(<<<<Call>>, <<>>>>, b), Fallthrough(Case(<<<<Op("a")>>>>, <<Call>>)),
                        Case(<<<<Call>>>>, b)>>) : b \in {<<>>, <<Break(0)>>, <<Call>>, <<Panic>>}}
    \union {Switch(0, <<Case(<<<<Call>>>>, <<AssignTo("g")>>), Fallthrough(Default(b)),
                        Case(<<<<Op("a")>>>>, <<Call>>)>>) : b \in {<<Op("b")>>, <<Break(0)>>, <<Call>>}}
    \union {Select(<<Comm("a", b, FALSE), Comm("b", <<Call>>, FALSE)>>)
              : b \in {<<>>, <<Break(0)>>, <<Op("a")>>, <<Return>>, <<Call>>}}
    \union {SelectDefault(<<Comm("a", b, TRUE)>>, d)
              : b \in {<<Op("a")>>, <<AssignTo("g")>>, <<Call>>}, d \in {<<>>, <<Call>>, <<Break(0)>>}}

SimpleLoops ==
    UNION {{Loop(0, b), While(0, <<>>, b), While(0, <<Call>>, b), Annotated(While(0, <<>>, b), 1, 2),
            Annotated(While(0, <<Call>>, b), -1, 2), Counting(0, 2, 1, b),
            ArrayRange(0, 2, b), ChanRange(0, b)} : b \in LoopBodies}
    \union {Counting(0, 5, 2, <<Call>>), Counting(3, 2, 1, <<Call>>), Counting(0, 1, 0, <<Op("a")>>),
            Counting(0, MaxIterCount + 1, 1, <<Call>>),
            Counting(0, 1, 1, <<[k |-> "setvar", n |-> 0], Op("a")>>),
            Counting(0, 2, 1, <<IfElse(<<[k |-> "setvar", n |-> 2]>>, <<>>), Call>>),
            Header(<<0, 3>>, Expr("<", Var(1), Var(2)),
                   SetTo(<<1, 2>>, <<Expr("+", Var(1), Lit(1)), Expr("-", Var(2), Lit(1))>>), <<Call>>),
            Header(<<3>>, Expr(">", Var(1), Lit(0)),
                   SetTo(<<1>>, <<Expr("-", Var(1), Lit(2))>>), <<Call, Op("a")>>),
            [While(0, <<>>, <<IfElse(<<Return>>, <<Call>>)>>) EXCEPT !.post = Op("a")],
            [Counting(0, 1, 1, <<Op("a")>>) EXCEPT !.ops = <<Op("b")>>]}

\* Annotated cases with every kind of first statement, tried at once or after waiting.
AnnotatedCases ==
    LET firsts == {IfElse(<<Op("a")>>, <<>>), Switch(0, <<Case(<<<<>>>>, <<Op("a")>>)>>),
                   Switch(0, <<Default(<<>>)>>), Select(<<Comm("c", <<>>, TRUE)>>),
                   While(0, <<Op("a")>>, <<Call>>), Annotated(Loop(0, <<Call>>), 1, 1),
                   ArrayRange(0, 1, <<Op("a")>>), ChanRange(0, <<>>), Break(0), DeadEnd}
        bodies == Simple \union {<<s, Call>> : s \in firsts}
    IN  UNION {{Select(<<Comm("a", b, TRUE), Comm("b", b, TRUE)>>), Select(<<Comm("a", b, TRUE)>>),
                SelectDefault(<<Comm("a", b, TRUE)>>, b)} : b \in bodies}
        \union {While(1, <<>>, <<Op("a"), IfElse(<<>>, <<Select(<<Comm("a", <<j>>, TRUE)>>)>>)>>)
                  : j \in {Break(1), Continue(1)}}

\* What may leave either of two loops, or a switch or select, from inside.
Leaving == {Break(0), Continue(0), Break(1), Continue(1), Break(2), Continue(2)}
NestedLoops ==
    {Counting(0, 2, 1, <<Call, ArrayRange(0, 2, <<Call>>)>>),
     ArrayRange(0, 2, <<ChanRange(0, <<Call>>)>>),
     Annotated(While(0, <<Call>>, <<Annotated(While(0, <<Call>>, <<Call>>), -1, 1)>>), 0, 2)}
    \union UNION {
        {ArrayRange(1, 2, <<While(2, <<>>, <<IfElse(<<j>>, <<Op("a")>>), Call>>), Op("b")>>),
         Loop(1, <<IfElse(<<Break(0)>>, <<>>), ArrayRange(2, 1, <<IfElse(<<>>, <<j>>), Op("a")>>), Op("b")>>),
         ChanRange(1, <<Loop(2, <<Switch(0, <<Case(<<<<>>>>, <<j, Op("a")>>), Default(<<Op("b")>>)>>)>>)>>),
         Annotated(While(1, <<>>, <<ChanRange(2, <<Select(<<Comm("a", <<j>>, FALSE)>>), Call>>)>>), 1, 1)}
        : j \in Leaving}

\* One more statement around a branch or loop, none of whose labels are used inside.
Wrapped(s) ==
    {ArrayRange(0, 2, <<s, Call>>), While(0, <<Call>>, <<s>>), ChanRange(0, <<s, Op("a")>>),
     IfElse(<<Call, s>>, <<Op("a")>>), IfElse(<<>>, <<s>>),
     Switch(0, <<Fallthrough(Case(<<<<>>, <<Op("a")>>>>, <<s>>)), Case(<<<<>>>>, <<Call>>)>>),
     SelectDefault(<<Comm("b", <<s>>, FALSE)>>, <<s, Call>>)}

\* Nothing follows a plain return of a function at the top level of its body.
EndsAtReturn(body) == \A i \in 1 .. Len(body) - 1 : body[i] # Return

MCPrograms ==
    LET single == Branches \union SimpleLoops \union NestedLoops \union AnnotatedCases
        double == UNION {Wrapped(s) : s \in Branches \union AnnotatedCases \union SimpleLoops}
    IN  {b \in Simple : EndsAtReturn(b)} \union {<<s, Op("b")>> : s \in single \union double}
=============================================================================
