----------------------------- MODULE Eliminator -----------------------------
(* What the dead code eliminator does inside a body of the IR                 *)
(* (ir/optimizer/dead_code_eliminator.go): ifs and loops with nothing in them *)
(* go, and so do plain returns at the top level of a function. DeadCode has   *)
(* its other half, the calls of functions that became empty by this.          *)
EXTENDS Statements

isBodyEmpty(body) == body = <<>>

\* Only the bodies of ifs and for loops are looked into.
RECURSIVE eliminateDeadCodeInBody(_, _)
eliminateDeadCodeInBody(body, isFuncBody) ==
    LET inside(s) ==
            CASE s.k = "if"  -> [s EXCEPT !.yes = eliminateDeadCodeInBody(@, FALSE),
                                          !.no = eliminateDeadCodeInBody(@, FALSE)]
              [] s.k = "for" -> [s EXCEPT !.cond = eliminateDeadCodeInBody(@, FALSE),
                                          !.body = eliminateDeadCodeInBody(@, FALSE)]
              [] OTHER -> s
        isDead(s) ==
            \/ s.k = "if" /\ isBodyEmpty(s.yes) /\ isBodyEmpty(s.no)
            \/ s.k = "for" /\ ~s.inf /\ isBodyEmpty(s.cond) /\ isBodyEmpty(s.body)
            \/ s.k = "return" /\ isFuncBody /\ ~s.panics
    IN  SelectSeq([i \in DOMAIN body |-> inside(body[i])], LAMBDA s : ~isDead(s))
=============================================================================
