----------------------------- MODULE CallCounts -----------------------------
(* The calls of a function in one run of a body, as the call graph counts     *)
(* them (ir/analyzer/call_graph_builder.go): the most of the branches of an   *)
(* if, the most of the ways through a switch, the body of a loop as often as  *)
(* it may run. The counts size the pools of process instances of the network. *)
EXTENDS Statements

CONSTANT MaxCallCounts   \* every count is cut at this number

ASSUME MaxCallCountsAssumption == MaxCallCounts \in Nat \ {0}

enforceMax(n) == Min({n, MaxCallCounts})
AddCounts(counts) == FoldLeft(LAMBDA sum, n : enforceMax(sum + n), 0, counts)
Multiplied(n, factor) == enforceMax(n * factor)

RECURSIVE findCalleesForBody(_, _)

IfCount(s, f) == Max({findCalleesForBody(s.yes, f), findCalleesForBody(s.no, f)})

\* Mutant of SwitchCount: only the conditions of the selected case are counted.
OwnConditions(s, f) ==
    Max({0} \union
        {AddCounts([j \in DOMAIN s.cases[i].conds |-> findCalleesForBody(s.cases[i].conds[j], f)]
                   \o <<findCalleesForBody(CaseBody(s.cases, i), f)>>) : i \in DOMAIN s.cases})

\* The conditions up to those of the selected case, all of them for the default.
SwitchCount(s, f) ==
    LET conds(i) == AddCounts([j \in DOMAIN s.cases[i].conds |->
                                  findCalleesForBody(s.cases[i].conds[j], f)])
        before(i) == IF s.cases[i].def THEN Len(s.cases) ELSE i
        selected(i) == AddCounts([h \in 1 .. before(i) |-> conds(h)]
                                 \o <<findCalleesForBody(CaseBody(s.cases, i), f)>>)
    IN  Max({0} \union {selected(i) : i \in DOMAIN s.cases})

SelectCount(s, f) ==
    Max({findCalleesForBody(s.def, f)}
        \union {findCalleesForBody(s.cases[i].body, f) : i \in DOMAIN s.cases})

ForCount(s, f) ==
    LET iterations == IF s.max >= 0 THEN s.max ELSE MaxCallCounts
    IN  AddCounts(<<Multiplied(findCalleesForBody(s.cond, f), iterations + 1),
                    Multiplied(findCalleesForBody(s.body, f), iterations)>>)

RangeCount(s, f) ==
    Multiplied(findCalleesForBody(s.body, f), IF s.k = "range" THEN s.max ELSE MaxCallCounts)

findCalleesForBody(body, f) ==
    AddCounts([i \in DOMAIN body |->
        LET s == body[i] IN
        CASE s.k = "call"   -> IF s.e = f THEN 1 ELSE 0
          [] s.k = "if"     -> IfCount(s, f)
          [] s.k = "switch" -> SwitchCount(s, f)
          [] s.k = "select" -> SelectCount(s, f)
          [] s.k = "for"    -> ForCount(s, f)
          [] s.k \in {"range", "chanrange"} -> RangeCount(s, f)
          [] OTHER          -> 0])
=============================================================================
