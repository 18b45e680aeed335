--------------------------- MODULE CallGraphProofs ---------------------------
(***************************************************************************)
(* The call graph and the dead code eliminator, for every program and      *)
(* every order in which Go's maps are walked: Tarjan's algorithm finds the *)
(* strongly connected components and numbers callees first, the            *)
(* propagation along them finds all callers of a panic, the counts along   *)
(* them are never too low, and exact without recursion, so that they miss  *)
(* no function that may run, and a call that the eliminator removes led to *)
(* nothing that is kept.                                                   *)
(***************************************************************************)
EXTENDS DeadCode, FiniteSetTheorems, SequenceTheorems, WellFoundedInduction, TLAPS

\* g is f or reachable from f.
Reaches(f, g) == \A S \in ClosedSets(edges) : f \in S => g \in S

Frame == [func : Funcs, todo : SUBSET Funcs]

\* Of a sequence of frames: its functions, the calls still to be considered, and whether
\* the indices ind grow along it. Of a stack: its functions, and the same.
FuncsOf(fs) == {fs[i].func : i \in 1 .. Len(fs)}
OpenOf(fs) == {e \in Funcs \X Funcs :
                 \E i \in 1 .. Len(fs) : fs[i].func = e[1] /\ e[2] \in fs[i].todo}
FramesRise(ind, fs) == \A i, j \in 1 .. Len(fs) : i < j => ind[fs[i].func] < ind[fs[j].func]
Elements(st) == {st[i] : i \in 1 .. Len(st)}
Rises(ind, st) == \A i, j \in 1 .. Len(st) : i < j => ind[st[i]] < ind[st[j]]

\* The functions in the recursion of strongConnect, those on its stack, and the calls that
\* the recursion did not follow yet.
Active == FuncsOf(frames)
Placed == Elements(stack)
Open == OpenOf(frames)

Visited(f) == indices[f] # None
Before(f, g) == indices[f] < indices[g]

TypeInv ==
    /\ prog \in Programs
    /\ phase \in {"scc", "counts", "closures", "rescc", "panics", "done"}
    /\ edges \subseteq Funcs \X Funcs
    /\ index \in Nat
    /\ indices \in [Funcs -> Nat \cup {None}]
    /\ lowLinks \in [Funcs -> Nat \cup {None}]
    /\ stack \in Seq(Funcs)
    /\ frames \in Seq(Frame)
    /\ sccCount \in Nat \ {0}
    /\ funcToSCCs \in [Funcs -> Nat]
    /\ scc \in Int
    /\ canPanicExternally \in [Funcs -> BOOLEAN]

\* The recursion and the stack follow the order of the indices.
Ordered ==
    /\ \A f \in Funcs : Visited(f) => indices[f] < index
    /\ \A f, g \in Funcs : Visited(f) /\ indices[f] = indices[g] => f = g
    /\ Rises(indices, stack)
    /\ FramesRise(indices, frames)
    /\ Active \subseteq Placed
    /\ \A f \in Funcs : f \in Placed <=> Visited(f) /\ funcToSCCs[f] = 0
    /\ \A f \in Funcs : funcToSCCs[f] # 0 => Visited(f)

\* A call is followed when its caller is visited, unless it is still open.
Followed ==
    /\ Open \subseteq edges
    /\ \A f, g \in Funcs :
         <<f, g>> \in edges /\ Visited(f) => Visited(g) \/ <<f, g>> \in Open

\* A numbered component has only functions that reach each other, and every call from it
\* goes to a component numbered no higher.
Numbered ==
    /\ \A f \in Funcs : funcToSCCs[f] < sccCount
    /\ \A f, g \in Funcs : funcToSCCs[f] = funcToSCCs[g] /\ funcToSCCs[f] # 0 => Reaches(f, g)
    /\ \A f, g \in Funcs : <<f, g>> \in edges /\ funcToSCCs[f] # 0 =>
         funcToSCCs[g] # 0 /\ funcToSCCs[g] <= funcToSCCs[f]

\* An active function reaches what came after it on the stack, and everything on the stack
\* reaches an active function that came before it.
Joined ==
    /\ \A f \in Active, g \in Placed : ~Before(g, f) => Reaches(f, g)
    /\ \A g \in Placed : \E f \in Active : ~Before(g, f) /\ Reaches(g, f)

\* f is the active function under which g was visited.
Under(g, f) == /\ ~Before(g, f)
               /\ \A h \in Active : Before(f, h) => Before(g, h)

\* The low link of an active function is the index of something on the stack that it reaches, and
\* no higher than what the followed calls of the functions under it lead to.
LowLinksRight ==
    /\ \A f \in Active : /\ lowLinks[f] \in Nat /\ lowLinks[f] <= indices[f]
                         /\ \E h \in Placed : indices[h] = lowLinks[f] /\ Reaches(f, h)
    /\ \A f \in Active, g, h \in Placed :
         <<g, h>> \in edges \ Open /\ Under(g, f) => lowLinks[f] <= indices[h]

Search == Ordered /\ Followed /\ Numbered /\ Joined /\ LowLinksRight

\* What the search leaves behind.
AllNumbered == Numbered /\ \A f \in Funcs : funcToSCCs[f] # 0

MayPanic(f) == \E g \in prog.panics : Reaches(f, g)

\* Components below scc are done.
PanicsKnown ==
    \A f \in Funcs : IF funcToSCCs[f] < scc THEN CanPanic(f) <=> MayPanic(f) ELSE ~canPanicExternally[f]

CGInv ==
    /\ TypeInv
    /\ Connecting => Search
    /\ ~Connecting => AllNumbered
    /\ phase \in {"closures", "rescc"} => scc = 1
    /\ phase \notin {"panics", "done"} => \A f \in Funcs : ~canPanicExternally[f]
    /\ phase \in {"panics", "done"} => PanicsKnown /\ scc \in 1 .. sccCount
    /\ phase = "done" => scc = sccCount

-----------------------------------------------------------------------------
\* What reaches what: closed sets instead of paths need no induction.
LEMMA ReachFacts ==
  ASSUME edges \subseteq Funcs \X Funcs
  PROVE  /\ \A f : Reaches(f, f)
         /\ \A f, g : <<f, g>> \in edges => Reaches(f, g)
         /\ \A f, g, h : Reaches(f, g) /\ Reaches(g, h) => Reaches(f, h)
<1>1. \A f : Reaches(f, f) BY DEF Reaches
<1>2. ASSUME NEW f, NEW g, <<f, g>> \in edges PROVE Reaches(f, g)
  <2> SUFFICES ASSUME NEW S \in ClosedSets(edges), f \in S PROVE g \in S BY DEF Reaches
  <2>1. <<f, g>>[1] = f /\ <<f, g>>[2] = g OBVIOUS
  <2>. QED BY <1>2, <2>1 DEF ClosedSets
<1>3. \A f, g, h : Reaches(f, g) /\ Reaches(g, h) => Reaches(f, h) BY DEF Reaches
<1>. QED BY <1>1, <1>2, <1>3

\* A set that no call leaves holds what its members reach.
LEMMA ReachStays ==
  ASSUME edges \subseteq Funcs \X Funcs, NEW S \in SUBSET Funcs,
         \A f, g \in Funcs : <<f, g>> \in edges /\ f \in S => g \in S,
         NEW f \in S, NEW g, Reaches(f, g)
  PROVE  g \in S
<1>1. \A e \in edges : e = <<e[1], e[2]>> /\ e[1] \in Funcs /\ e[2] \in Funcs OBVIOUS
<1>2. S \in ClosedSets(edges) BY <1>1 DEF ClosedSets
<1>. QED BY <1>2 DEF Reaches

\* Along at least one call, or none.
LEMMA ReachableFacts ==
  ASSUME edges \subseteq Funcs \X Funcs, NEW f \in Funcs, NEW g \in Funcs
  PROVE  Reaches(f, g) <=> f = g \/ g \in Reachable(edges, f)
<1>1. ASSUME g \in Reachable(edges, f) PROVE Reaches(f, g)
  <2> SUFFICES ASSUME NEW S \in ClosedSets(edges), f \in S PROVE g \in S BY DEF Reaches
  <2>1. \A h \in Funcs : <<f, h>> \in edges => h \in S
    <3> SUFFICES ASSUME NEW h \in Funcs, <<f, h>> \in edges PROVE h \in S OBVIOUS
    <3>1. <<f, h>>[1] = f /\ <<f, h>>[2] = h OBVIOUS
    <3>. QED BY <3>1 DEF ClosedSets
  <2>. QED BY <1>1, <2>1 DEF Reachable
<1>2. ASSUME Reaches(f, g), f # g PROVE g \in Reachable(edges, f)
  <2> SUFFICES ASSUME NEW S \in ClosedSets(edges), \A h \in Funcs : <<f, h>> \in edges => h \in S
               PROVE  g \in S
    BY DEF Reachable
  <2>1. \A e \in edges : e = <<e[1], e[2]>> /\ e[1] \in Funcs /\ e[2] \in Funcs OBVIOUS
  <2>2. S \cup {f} \in SUBSET Funcs BY DEF ClosedSets
  <2>3. \A e \in edges : e[1] \in S \cup {f} => e[2] \in S \cup {f} BY <2>1 DEF ClosedSets
  <2>4. S \cup {f} \in ClosedSets(edges) BY <2>2, <2>3 DEF ClosedSets
  <2>5. g \in S \cup {f} BY <1>2, <2>4 DEF Reaches
  <2>. QED BY <1>2, <2>5
<1>. QED BY <1>1, <1>2, ReachFacts

\* The assumption on the programs as sets of calls and functions.
LEMMA InputFacts ==
  ASSUME NEW pr \in Programs
  PROVE  CallsOf(pr) \subseteq Funcs \X Funcs /\ pr.panics \subseteq Funcs /\ pr.values \subseteq Funcs
<1>1. /\ DOMAIN pr.static \subseteq Funcs \X Funcs /\ DOMAIN pr.dynamic \subseteq Funcs
      /\ pr.values \subseteq Funcs /\ pr.panics \subseteq Funcs
  BY ProgramsAssumption
<1>. QED BY <1>1 DEF CallsOf

-----------------------------------------------------------------------------
\* Sequences as stacks: the first n elements.
LEMMA CutAt ==
  ASSUME NEW S, NEW s \in Seq(S), NEW n \in 0 .. Len(s)
  PROVE  /\ SubSeq(s, 1, n) \in Seq(S) /\ Len(SubSeq(s, 1, n)) = n
         /\ \A i \in 1 .. n : SubSeq(s, 1, n)[i] = s[i]
<1>1. n \in Int /\ n >= 0 /\ \A i \in 1 .. n : s[i] \in S OBVIOUS
<1>2. /\ SubSeq(s, 1, n) \in Seq(S)
      /\ Len(SubSeq(s, 1, n)) = IF 1 <= n THEN n - 1 + 1 ELSE 0
      /\ \A i \in 1 .. n - 1 + 1 : SubSeq(s, 1, n)[i] = s[1 + i - 1]
  BY <1>1, SubSeqProperties
<1>3. n - 1 + 1 = n /\ \A i \in 1 .. n : 1 + i - 1 = i BY <1>1
<1>. QED BY <1>1, <1>2, <1>3

\* A sequence that is not empty is its front followed by its last element.
LEMMA SplitLast ==
  ASSUME NEW S, NEW s \in Seq(S), s # <<>>
  PROVE  Front(s) \in Seq(S) /\ Last(s) \in S /\ s = Append(Front(s), Last(s))
<1>1. Len(s) \in Nat /\ Len(s) > 0 OBVIOUS
<1>2. Last(s) = s[Len(s)] /\ Last(s) \in S BY <1>1 DEF Last
<1>3. Front(s) = SubSeq(s, 1, Len(s) - 1) BY DEF Front
<1>4. /\ Front(s) \in Seq(S) /\ Len(Front(s)) = Len(s) - 1
      /\ \A i \in 1 .. Len(s) - 1 : Front(s)[i] = s[i]
  <2>1. Len(s) - 1 \in 0 .. Len(s) BY <1>1
  <2>2. /\ SubSeq(s, 1, Len(s) - 1) \in Seq(S)
        /\ Len(SubSeq(s, 1, Len(s) - 1)) = Len(s) - 1
        /\ \A i \in 1 .. Len(s) - 1 : SubSeq(s, 1, Len(s) - 1)[i] = s[i]
    BY <2>1, CutAt
  <2>. QED BY <1>3, <2>2
<1>5. Append(Front(s), Last(s)) \in Seq(S) /\ Len(Append(Front(s), Last(s))) = Len(s)
  BY <1>1, <1>2, <1>4
<1>6. \A i \in 1 .. Len(s) : Append(Front(s), Last(s))[i] = s[i]
  BY <1>1, <1>2, <1>4
<1>. QED BY <1>2, <1>4, <1>5, <1>6

\* A frame more: what it adds to the functions and the open calls, and when indices still grow.
LEMMA AppendFrame ==
  ASSUME NEW fs \in Seq(Frame), NEW x \in Frame, NEW ind
  PROVE  /\ Append(fs, x) \in Seq(Frame)
         /\ FuncsOf(Append(fs, x)) = FuncsOf(fs) \cup {x.func}
         /\ OpenOf(Append(fs, x)) =
              OpenOf(fs) \cup {e \in Funcs \X Funcs : e[1] = x.func /\ e[2] \in x.todo}
         /\ FramesRise(ind, Append(fs, x)) <=>
              /\ FramesRise(ind, fs)
              /\ \A f \in FuncsOf(fs) : ind[f] < ind[x.func]
<1> DEFINE gs == Append(fs, x)  n == Len(fs)
<1>1. /\ gs \in Seq(Frame) /\ n \in Nat /\ Len(gs) = n + 1 /\ gs[n + 1] = x
      /\ \A i \in 1 .. n : gs[i] = fs[i]
  OBVIOUS
<1>2. 1 .. n + 1 = (1 .. n) \cup {n + 1} /\ n + 1 \notin 1 .. n BY <1>1
<1>. HIDE DEF gs, n
<1>3. FuncsOf(gs) = FuncsOf(fs) \cup {x.func} BY <1>1, <1>2 DEF FuncsOf, n
<1>4. OpenOf(gs) = OpenOf(fs) \cup {e \in Funcs \X Funcs : e[1] = x.func /\ e[2] \in x.todo}
  BY <1>1, <1>2 DEF OpenOf, n
<1>5. ASSUME FramesRise(ind, gs)
      PROVE  FramesRise(ind, fs) /\ \A f \in FuncsOf(fs) : ind[f] < ind[x.func]
  BY <1>1, <1>2, <1>5 DEF FramesRise, FuncsOf, n
<1>6. ASSUME FramesRise(ind, fs), \A f \in FuncsOf(fs) : ind[f] < ind[x.func]
      PROVE  FramesRise(ind, gs)
  <2> SUFFICES ASSUME NEW i \in 1 .. n + 1, NEW j \in 1 .. n + 1, i < j
               PROVE  ind[gs[i].func] < ind[gs[j].func]
    BY <1>1 DEF FramesRise
  <2>1. i \in 1 .. n BY <1>1
  <2>2. CASE j \in 1 .. n BY <1>1, <1>6, <2>1, <2>2 DEF FramesRise, n
  <2>3. CASE j = n + 1 BY <1>1, <1>6, <2>1, <2>3 DEF FuncsOf, n
  <2>. QED BY <1>2, <2>2, <2>3
<1>. QED BY <1>1, <1>3, <1>4, <1>5, <1>6 DEF gs

\* A function more on the stack.
LEMMA AppendFunc ==
  ASSUME NEW st \in Seq(Funcs), NEW f \in Funcs, NEW ind
  PROVE  /\ Append(st, f) \in Seq(Funcs)
         /\ Elements(Append(st, f)) = Elements(st) \cup {f}
         /\ Rises(ind, st) /\ (\A g \in Elements(st) : ind[g] < ind[f]) => Rises(ind, Append(st, f))
<1> DEFINE ss == Append(st, f)  n == Len(st)
<1>1. /\ ss \in Seq(Funcs) /\ n \in Nat /\ Len(ss) = n + 1 /\ ss[n + 1] = f
      /\ \A i \in 1 .. n : ss[i] = st[i]
  OBVIOUS
<1>2. 1 .. n + 1 = (1 .. n) \cup {n + 1} /\ n + 1 \notin 1 .. n BY <1>1
<1>. HIDE DEF ss, n
<1>3. Elements(ss) = Elements(st) \cup {f} BY <1>1, <1>2 DEF Elements, n
<1>4. ASSUME Rises(ind, st), \A g \in Elements(st) : ind[g] < ind[f] PROVE Rises(ind, ss)
  <2> SUFFICES ASSUME NEW i \in 1 .. n + 1, NEW j \in 1 .. n + 1, i < j
               PROVE  ind[ss[i]] < ind[ss[j]]
    BY <1>1 DEF Rises
  <2>1. i \in 1 .. n BY <1>1
  <2>2. CASE j \in 1 .. n BY <1>1, <1>4, <2>1, <2>2 DEF Rises, n
  <2>3. CASE j = n + 1 BY <1>1, <1>4, <2>1, <2>3 DEF Elements, n
  <2>. QED BY <1>2, <2>2, <2>3
<1>. QED BY <1>1, <1>3, <1>4 DEF ss

\* Popping the stack down to the element at position k.
LEMMA CutStack ==
  ASSUME NEW st \in Seq(Funcs), NEW ind \in [Funcs -> Int], Rises(ind, st),
         NEW k \in 1 .. Len(st)
  PROVE  /\ SubSeq(st, 1, k - 1) \in Seq(Funcs)
         /\ Elements(SubSeq(st, 1, k - 1)) = {g \in Elements(st) : ind[g] < ind[st[k]]}
         /\ {st[i] : i \in k .. Len(st)} = {g \in Elements(st) : ~(ind[g] < ind[st[k]])}
         /\ Rises(ind, SubSeq(st, 1, k - 1))
<1> DEFINE ss == SubSeq(st, 1, k - 1)  n == Len(st)
<1>1. n \in Nat /\ k \in Nat /\ 1 <= k /\ k <= n /\ k - 1 \in Nat OBVIOUS
<1>2. ss \in Seq(Funcs) /\ Len(ss) = k - 1 /\ \A i \in 1 .. k - 1 : ss[i] = st[i]
  BY <1>1, CutAt
<1>3. \A i \in 1 .. n : st[i] \in Funcs /\ ind[st[i]] \in Int OBVIOUS
<1>4. \A i \in 1 .. n : i < k => ind[st[i]] < ind[st[k]] BY <1>1 DEF Rises
<1>5. \A i \in 1 .. n : ~(i < k) => ~(ind[st[i]] < ind[st[k]])
  <2> SUFFICES ASSUME NEW i \in 1 .. n, ~(i < k) PROVE ~(ind[st[i]] < ind[st[k]]) OBVIOUS
  <2>1. CASE i = k BY <1>3, <2>1
  <2>2. CASE i # k
    <3>1. ind[st[k]] < ind[st[i]] BY <1>1, <2>2 DEF Rises
    <3>. QED BY <1>1, <1>3, <3>1
  <2>. QED BY <2>1, <2>2
<1>6. \A i : i \in 1 .. k - 1 <=> i \in 1 .. n /\ i < k BY <1>1
<1>7. \A i : i \in k .. n <=> i \in 1 .. n /\ ~(i < k) BY <1>1
<1>. HIDE DEF ss, n
<1>8. Elements(ss) = {st[i] : i \in 1 .. k - 1} BY <1>2 DEF Elements
<1>9. Elements(ss) = {g \in Elements(st) : ind[g] < ind[st[k]]}
  BY <1>4, <1>5, <1>6, <1>8 DEF Elements, n
<1>10. {st[i] : i \in k .. n} = {g \in Elements(st) : ~(ind[g] < ind[st[k]])}
  BY <1>4, <1>5, <1>7 DEF Elements, n
<1>11. Rises(ind, ss)
  <2> SUFFICES ASSUME NEW i \in 1 .. k - 1, NEW j \in 1 .. k - 1, i < j
               PROVE  ind[ss[i]] < ind[ss[j]]
    BY <1>2 DEF Rises
  <2>1. ss[i] = st[i] /\ ss[j] = st[j] BY <1>2
  <2>2. i \in 1 .. Len(st) /\ j \in 1 .. Len(st) BY <1>6 DEF n
  <2>. QED BY <2>1, <2>2 DEF Rises
<1>. QED BY <1>2, <1>9, <1>10, <1>11 DEF ss, n

-----------------------------------------------------------------------------
\* strongConnect enters v, called from the frames fs.
LEMMA EnterKeeps ==
  ASSUME TypeInv, Search, NEW v \in Funcs, ~Visited(v), NEW fs \in Seq(Frame),
         FuncsOf(fs) = Active, FramesRise(indices, fs),
         OpenOf(fs) \subseteq Open, \A e \in Open : e \in OpenOf(fs) \/ e[2] = v,
         \A f \in Active : Reaches(f, v),
         Enter(v, fs)
  PROVE  TypeInv' /\ Search'
<1> DEFINE x == [func |-> v, todo |-> Succs(v)]
<1>1. /\ indices' = [indices EXCEPT ![v] = index]
      /\ lowLinks' = [lowLinks EXCEPT ![v] = index]
      /\ index' = index + 1
      /\ stack' = Append(stack, v)
      /\ frames' = Append(fs, x)
      /\ UNCHANGED <<prog, phase, edges, callees, sccCount, funcToSCCs, scc, canPanicExternally>>
  BY DEF Enter
<1>2. x \in Frame /\ x.func = v /\ x.todo = Succs(v) BY DEF Frame, Succs
<1>. HIDE DEF x
<1>3. /\ index \in Nat /\ indices \in [Funcs -> Nat \cup {None}]
      /\ lowLinks \in [Funcs -> Nat \cup {None}] /\ stack \in Seq(Funcs)
      /\ edges \subseteq Funcs \X Funcs
  BY DEF TypeInv
<1>4. /\ indices' \in [Funcs -> Nat \cup {None}] /\ indices'[v] = index
      /\ \A f \in Funcs : f # v => indices'[f] = indices[f]
  BY <1>1, <1>3
<1>5. /\ lowLinks' \in [Funcs -> Nat \cup {None}] /\ lowLinks'[v] = index
      /\ \A f \in Funcs : f # v => lowLinks'[f] = lowLinks[f]
  BY <1>1, <1>3
<1>6. /\ \A f \in Funcs : Visited(f) => indices[f] < index
      /\ \A f, g \in Funcs : Visited(f) /\ indices[f] = indices[g] => f = g
      /\ Rises(indices, stack)
      /\ Active \subseteq Placed
      /\ \A f \in Funcs : f \in Placed <=> Visited(f) /\ funcToSCCs[f] = 0
      /\ \A f \in Funcs : funcToSCCs[f] # 0 => Visited(f)
  BY DEF Search, Ordered
<1>7. Placed \subseteq Funcs BY <1>3 DEF Placed, Elements
<1>8. /\ v \notin Placed /\ v \notin Active /\ funcToSCCs[v] = 0 /\ Active \subseteq Funcs
      /\ \A f \in Placed : indices'[f] = indices[f] /\ indices[f] \in Nat /\ indices[f] < index
      /\ \A f \in Active : lowLinks'[f] = lowLinks[f]
  BY <1>3, <1>4, <1>5, <1>6, <1>7 DEF Visited, None
<1>9. /\ frames' \in Seq(Frame)
      /\ Active' = Active \cup {v}
      /\ Open' = OpenOf(fs) \cup {e \in Funcs \X Funcs : e[1] = v /\ e[2] \in Succs(v)}
      /\ FramesRise(indices', frames') <=>
           /\ FramesRise(indices', fs)
           /\ \A f \in FuncsOf(fs) : indices'[f] < indices'[v]
  <2>1. /\ Append(fs, x) \in Seq(Frame)
        /\ FuncsOf(Append(fs, x)) = FuncsOf(fs) \cup {x.func}
        /\ OpenOf(Append(fs, x)) =
             OpenOf(fs) \cup {e \in Funcs \X Funcs : e[1] = x.func /\ e[2] \in x.todo}
        /\ FramesRise(indices', Append(fs, x)) <=>
             /\ FramesRise(indices', fs)
             /\ \A f \in FuncsOf(fs) : indices'[f] < indices'[x.func]
    BY <1>2, AppendFrame
  <2>2. Active' = FuncsOf(frames') /\ Open' = OpenOf(frames') BY DEF Active, Open
  <2>. QED BY <1>1, <1>2, <2>1, <2>2
<1>10. \A f, g \in Funcs : <<f, g>> \in Open' <=> <<f, g>> \in OpenOf(fs) \/ (f = v /\ <<v, g>> \in edges)
  BY <1>9 DEF Succs
<1>11. /\ stack' \in Seq(Funcs)
       /\ Placed' = Placed \cup {v}
       /\ Rises(indices', stack) /\ (\A g \in Placed : indices'[g] < indices'[v])
            => Rises(indices', stack')
  BY <1>1, <1>3, AppendFunc DEF Placed
<1>12. TypeInv' BY <1>1, <1>3, <1>4, <1>5, <1>9, <1>11 DEF TypeInv
<1>13. Rises(indices', stack') /\ FramesRise(indices', frames')
  <2>1. \A i \in 1 .. Len(stack) : stack[i] \in Placed BY DEF Placed, Elements
  <2>2. Rises(indices', stack) BY <1>6, <1>8, <2>1 DEF Rises
  <2>3. \A i \in 1 .. Len(fs) : fs[i].func \in Active BY DEF FuncsOf
  <2>4. FramesRise(indices', fs) BY <1>6, <1>8, <2>3 DEF FramesRise
  <2>. QED BY <1>4, <1>6, <1>8, <1>9, <1>11, <2>2, <2>4
<1>14. \A f \in Funcs : Visited(f)' <=> f = v \/ Visited(f) BY <1>3, <1>4 DEF Visited, None
<1>15. Ordered'
  <2>1. \A f \in Funcs : Visited(f)' => indices'[f] < index'
    BY <1>1, <1>3, <1>4, <1>6 DEF Visited, None
  <2>2. \A f, g \in Funcs : Visited(f)' /\ indices'[f] = indices'[g] => f = g
    BY <1>3, <1>4, <1>6 DEF Visited, None
  <2>3. Active' \subseteq Placed' BY <1>6, <1>9, <1>11
  <2>4. \A f \in Funcs : f \in Placed' <=> Visited(f)' /\ funcToSCCs'[f] = 0
    BY <1>1, <1>6, <1>8, <1>11, <1>14
  <2>5. \A f \in Funcs : funcToSCCs'[f] # 0 => Visited(f)' BY <1>1, <1>6, <1>14
  <2>. QED BY <1>13, <2>1, <2>2, <2>3, <2>4, <2>5 DEF Ordered
<1>16. \A f, g : Reaches(f, g)' <=> Reaches(f, g) BY <1>1 DEF Reaches, ClosedSets
<1>17. Followed'
  <2>1. Open \subseteq edges /\ Open \subseteq Funcs \X Funcs BY <1>3 DEF Search, Followed
  <2>2. Open' \subseteq edges'
    <3> SUFFICES ASSUME NEW e \in Open' PROVE e \in edges BY <1>1
    <3>1. e \in Funcs \X Funcs BY DEF Open, OpenOf
    <3>2. PICK f \in Funcs, g \in Funcs : e = <<f, g>> BY <3>1
    <3>3. <<f, g>> \in OpenOf(fs) \/ (f = v /\ <<v, g>> \in edges) BY <1>10, <3>2
    <3>4. CASE <<f, g>> \in OpenOf(fs) BY <2>1, <3>2, <3>4
    <3>5. CASE f = v /\ <<v, g>> \in edges BY <3>2, <3>5
    <3>. QED BY <3>3, <3>4, <3>5
  <2>3. ASSUME NEW f \in Funcs, NEW g \in Funcs, <<f, g>> \in edges', Visited(f)'
        PROVE  Visited(g)' \/ <<f, g>> \in Open'
    <3>1. CASE f = v BY <1>1, <1>10, <2>3, <3>1
    <3>2. CASE f # v
      <4>1. Visited(g) \/ <<f, g>> \in Open BY <1>1, <1>14, <2>3, <3>2 DEF Search, Followed
      <4>2. <<f, g>>[2] = g OBVIOUS
      <4>. QED BY <1>10, <1>14, <4>1, <4>2
    <3>. QED BY <3>1, <3>2
  <2>. QED BY <2>2, <2>3 DEF Followed
<1>18. Numbered' BY <1>1, <1>16 DEF Search, Numbered
<1>19. Joined'
  <2>1. ASSUME NEW f \in Active', NEW g \in Placed', ~Before(g, f)' PROVE Reaches(f, g)
    <3>1. CASE g = v BY <1>3, <1>9, <3>1, ReachFacts
    <3>2. CASE g # v /\ f = v BY <1>4, <1>8, <1>11, <2>1, <3>2 DEF Before
    <3>3. CASE g # v /\ f # v
      BY <1>6, <1>8, <1>9, <1>11, <2>1, <3>3 DEF Before, Search, Joined
    <3>. QED BY <3>1, <3>2, <3>3
  <2>2. ASSUME NEW g \in Placed' PROVE \E f \in Active' : ~Before(g, f)' /\ Reaches(g, f)
    <3>1. CASE g = v
      <4>1. ~Before(v, v)' BY <1>3, <1>4 DEF Before
      <4>. QED BY <1>3, <1>9, <3>1, <4>1, ReachFacts
    <3>2. CASE g # v
      <4>1. PICK f \in Active : ~Before(g, f) /\ Reaches(g, f)
        BY <1>11, <3>2 DEF Search, Joined
      <4>2. ~Before(g, f)' BY <1>6, <1>8, <1>11, <3>2, <4>1 DEF Before
      <4>. QED BY <1>9, <4>1, <4>2
    <3>. QED BY <3>1, <3>2
  <2>. QED BY <1>16, <2>1, <2>2 DEF Joined
<1>20. LowLinksRight'
  <2>1. ASSUME NEW f \in Active'
        PROVE  /\ lowLinks'[f] \in Nat /\ lowLinks'[f] <= indices'[f]
               /\ \E h \in Placed' : indices'[h] = lowLinks'[f] /\ Reaches(f, h)
    <3>1. CASE f = v BY <1>3, <1>4, <1>5, <1>11, <3>1, ReachFacts
    <3>2. CASE f # v
      <4>1. f \in Active BY <1>9, <3>2
      <4>2. /\ lowLinks[f] \in Nat /\ lowLinks[f] <= indices[f]
            /\ \E h \in Placed : indices[h] = lowLinks[f] /\ Reaches(f, h)
        BY <4>1 DEF Search, LowLinksRight
      <4>. QED BY <1>6, <1>8, <1>11, <4>1, <4>2
    <3>. QED BY <3>1, <3>2
  <2>2. ASSUME NEW f \in Active', NEW g \in Placed', NEW h \in Placed',
               <<g, h>> \in edges \ Open', Under(g, f)'
        PROVE  lowLinks'[f] <= indices'[h]
    <3>1. g # v BY <1>7, <1>10, <1>11, <2>2
    <3>2. f # v
      BY <1>4, <1>8, <1>11, <2>2, <3>1 DEF Under, Before
    <3>3. f \in Active /\ g \in Placed BY <1>9, <1>11, <3>1, <3>2
    <3>4. Under(g, f) BY <1>6, <1>8, <1>9, <2>2, <3>3 DEF Under, Before
    <3>5. lowLinks[f] \in Nat /\ lowLinks[f] <= indices[f] BY <3>3 DEF Search, LowLinksRight
    <3>6. CASE h = v BY <1>3, <1>4, <1>6, <1>8, <3>3, <3>5, <3>6
    <3>7. CASE h # v
      <4>1. h \in Placed BY <1>11, <3>7
      <4>2. <<g, h>>[2] = h OBVIOUS
      <4>3. <<g, h>> \notin Open BY <1>7, <1>10, <2>2, <3>3, <3>7, <4>1, <4>2
      <4>4. lowLinks[f] <= indices[h] BY <2>2, <3>3, <3>4, <4>1, <4>3 DEF Search, LowLinksRight
      <4>. QED BY <1>8, <3>3, <4>1, <4>4
    <3>. QED BY <3>6, <3>7
  <2>. QED BY <1>1, <1>16, <2>1, <2>2 DEF LowLinksRight
<1>. QED BY <1>12, <1>15, <1>17, <1>18, <1>19, <1>20 DEF Search

\* What the other proofs use of the functions on the stack and in the recursion.
LEMMA SearchFacts ==
  ASSUME TypeInv, Search
  PROVE  /\ Active \subseteq Placed /\ Placed \subseteq Funcs
         /\ \A f \in Placed : indices[f] \in Nat /\ Visited(f) /\ funcToSCCs[f] = 0
         /\ \A f \in Active : lowLinks[f] \in Nat /\ lowLinks[f] <= indices[f]
         /\ \A f, g \in Placed : indices[f] = indices[g] => f = g
         /\ \A f, g \in Placed : ~Before(g, f) /\ ~Before(f, g) => f = g
<1>1. stack \in Seq(Funcs) /\ indices \in [Funcs -> Nat \cup {None}] BY DEF TypeInv
<1>2. Placed \subseteq Funcs BY <1>1 DEF Placed, Elements
<1>3. Active \subseteq Placed BY DEF Search, Ordered
<1>4. \A f \in Placed : indices[f] \in Nat /\ Visited(f) /\ funcToSCCs[f] = 0
  BY <1>1, <1>2 DEF Search, Ordered, Visited
<1>5. \A f, g \in Placed : indices[f] = indices[g] => f = g
  BY <1>2, <1>4 DEF Search, Ordered
<1>6. \A f, g \in Placed : ~Before(g, f) /\ ~Before(f, g) => f = g
  BY <1>4, <1>5 DEF Before
<1>. QED BY <1>2, <1>3, <1>4, <1>5, <1>6 DEF Search, LowLinksRight

\* strongConnect considers a visited successor w of v: the call is no longer open, and a low
\* link may only change to the index of a function on the stack.
LEMMA ConsiderKeeps ==
  ASSUME TypeInv, Search, NEW fs \in Seq(Frame), NEW v \in Active, NEW w \in Funcs,
         Visited(w), <<v, w>> \in edges,
         FuncsOf(fs) = Active, FramesRise(indices, fs),
         OpenOf(fs) \subseteq Open, \A e \in Open : e \in OpenOf(fs) \/ e = <<v, w>>,
         frames' = fs,
         lowLinks' = [lowLinks EXCEPT ![v] =
                        IF Contains(stack, w) /\ indices[w] < @ THEN indices[w] ELSE @],
         UNCHANGED <<prog, phase, edges, callees, index, indices, stack, sccCount, funcToSCCs, scc,
                     countVars, canPanicExternally>>
  PROVE  TypeInv' /\ Search'
<1>1. /\ index \in Nat /\ indices \in [Funcs -> Nat \cup {None}]
      /\ lowLinks \in [Funcs -> Nat \cup {None}] /\ stack \in Seq(Funcs)
      /\ edges \subseteq Funcs \X Funcs
  BY DEF TypeInv
<1>2. /\ Active \subseteq Placed /\ Placed \subseteq Funcs
      /\ \A f \in Placed : indices[f] \in Nat
      /\ \A f \in Active : lowLinks[f] \in Nat /\ lowLinks[f] <= indices[f]
      /\ \A f, g \in Placed : ~Before(g, f) /\ ~Before(f, g) => f = g
  BY SearchFacts
<1>3. Contains(stack, w) <=> w \in Placed BY DEF Contains, Placed, Elements
<1>4. Active' = Active /\ Open' = OpenOf(fs) BY DEF Active, Open
<1>5. Placed' = Placed BY DEF Placed
<1>6. \A f, g : Reaches(f, g)' <=> Reaches(f, g) BY DEF Reaches, ClosedSets
<1>7. \A f, g : (Before(f, g)' <=> Before(f, g)) /\ (Visited(f)' <=> Visited(f)) BY DEF Before, Visited
<1>8. /\ lowLinks' \in [Funcs -> Nat \cup {None}]
      /\ \A f \in Funcs : f # v => lowLinks'[f] = lowLinks[f]
      /\ lowLinks'[v] = IF w \in Placed /\ indices[w] < lowLinks[v] THEN indices[w] ELSE lowLinks[v]
  BY <1>1, <1>2, <1>3
<1>9. /\ \A f \in Active : lowLinks'[f] \in Nat /\ lowLinks'[f] <= lowLinks[f]
      /\ w \in Placed => lowLinks'[v] <= indices[w]
  BY <1>2, <1>8
<1>10. TypeInv' BY <1>1, <1>8 DEF TypeInv
<1>11. Ordered' BY <1>4, <1>5, <1>7 DEF Search, Ordered
<1>12. Followed'
  <2>1. Open' \subseteq edges' BY <1>4 DEF Search, Followed
  <2>2. ASSUME NEW f \in Funcs, NEW g \in Funcs, <<f, g>> \in edges', Visited(f)'
        PROVE  Visited(g)' \/ <<f, g>> \in Open'
    <3>1. Visited(g) \/ <<f, g>> \in Open BY <1>7, <2>2 DEF Search, Followed
    <3>2. CASE <<f, g>> \in OpenOf(fs) BY <1>4, <3>2
    <3>3. CASE <<f, g>> = <<v, w>> BY <1>7, <3>3
    <3>. QED BY <1>7, <3>1, <3>2, <3>3
  <2>. QED BY <2>1, <2>2 DEF Followed
<1>13. Numbered' BY <1>6 DEF Search, Numbered
<1>14. Joined' BY <1>4, <1>5, <1>6, <1>7 DEF Search, Joined
<1>15. LowLinksRight'
  <2>1. ASSUME NEW f \in Active
        PROVE  /\ lowLinks'[f] \in Nat /\ lowLinks'[f] <= indices'[f]
               /\ \E h \in Placed : indices'[h] = lowLinks'[f] /\ Reaches(f, h)
    <3>1. \E h \in Placed : indices[h] = lowLinks[f] /\ Reaches(f, h) BY DEF Search, LowLinksRight
    <3>2. \E h \in Placed : indices[h] = lowLinks'[f] /\ Reaches(f, h)
      <4>1. CASE f # v BY <1>2, <1>8, <3>1, <4>1
      <4>2. CASE f = v BY <1>1, <1>8, <3>1, <4>2, ReachFacts
      <4>. QED BY <4>1, <4>2
    <3>. QED BY <1>2, <1>9, <3>2
  <2>2. ASSUME NEW f \in Active, NEW g \in Placed, NEW h \in Placed,
               <<g, h>> \in edges \ Open', Under(g, f)'
        PROVE  lowLinks'[f] <= indices'[h]
    <3>1. Under(g, f) BY <1>4, <1>7, <2>2 DEF Under
    <3>2. CASE <<g, h>> \notin Open
      <4>1. lowLinks[f] <= indices[h] BY <2>2, <3>1, <3>2 DEF Search, LowLinksRight
      <4>. QED BY <1>2, <1>9, <4>1
    <3>3. CASE g = v /\ h = w
      <4>1. f = v BY <1>2, <3>1, <3>3 DEF Under, Before
      <4>. QED BY <1>9, <3>3, <4>1
    <3>. QED BY <1>4, <2>2, <3>2, <3>3
  <2>. QED BY <1>4, <1>5, <1>6, <2>1, <2>2 DEF LowLinksRight
<1>. QED BY <1>10, <1>11, <1>12, <1>13, <1>14, <1>15 DEF Search

-----------------------------------------------------------------------------
\* The last frame: v with the calls todo, above the frames fs.
LEMMA FrameFacts ==
  ASSUME TypeInv, Search, frames # <<>>
  PROVE  LET v == Last(frames).func
             todo == Last(frames).todo
             fs == Front(frames)
         IN  /\ fs \in Seq(Frame) /\ v \in Funcs /\ todo \in SUBSET Funcs
             /\ frames = Append(fs, [func |-> v, todo |-> todo])
             /\ Active = FuncsOf(fs) \cup {v}
             /\ Open = OpenOf(fs) \cup {e \in Funcs \X Funcs : e[1] = v /\ e[2] \in todo}
             /\ FramesRise(indices, fs)
             /\ \A f \in FuncsOf(fs) : Before(f, v)
             /\ v \notin FuncsOf(fs) /\ FuncsOf(fs) \subseteq Funcs
<1> DEFINE x == Last(frames)  v == x.func  todo == x.todo  fs == Front(frames)
<1>1. frames \in Seq(Frame) /\ indices \in [Funcs -> Nat \cup {None}] BY DEF TypeInv
<1>2. fs \in Seq(Frame) /\ x \in Frame /\ frames = Append(fs, x) BY <1>1, SplitLast
<1>. HIDE DEF x, fs
<1>3. v \in Funcs /\ todo \in SUBSET Funcs /\ x = [func |-> v, todo |-> todo] BY <1>2 DEF Frame
<1>4. /\ FuncsOf(Append(fs, x)) = FuncsOf(fs) \cup {v}
      /\ OpenOf(Append(fs, x)) =
           OpenOf(fs) \cup {e \in Funcs \X Funcs : e[1] = v /\ e[2] \in todo}
      /\ FramesRise(indices, Append(fs, x)) <=>
           /\ FramesRise(indices, fs)
           /\ \A f \in FuncsOf(fs) : indices[f] < indices[v]
  BY <1>2, AppendFrame
<1>5. FramesRise(indices, frames) BY DEF Search, Ordered
<1>6. FramesRise(indices, fs) /\ \A f \in FuncsOf(fs) : Before(f, v) BY <1>2, <1>4, <1>5 DEF Before
<1>7. ~Before(v, v) BY <1>1, <1>3 DEF Before, None
<1>8. FuncsOf(fs) \subseteq Funcs
  <2>1. \A i \in 1 .. Len(fs) : fs[i] \in Frame BY <1>2
  <2>. QED BY <2>1 DEF FuncsOf, Frame
<1>. QED BY <1>2, <1>3, <1>4, <1>6, <1>7, <1>8 DEF Active, Open, x, fs

\* Min of two numbers, as Leave uses it.
LEMMA MinOfTwo ==
  ASSUME NEW a \in Nat, NEW b \in Nat
  PROVE  Min({a, b}) = IF a <= b THEN a ELSE b
<1> DEFINE m == IF a <= b THEN a ELSE b
<1>1. m \in {a, b} /\ \A y \in {a, b} : m <= y OBVIOUS
<1>2. \A x \in {a, b} : (\A y \in {a, b} : x <= y) => x = m OBVIOUS
<1>. HIDE DEF m
<1>3. Min({a, b}) = m BY <1>1, <1>2 DEF Min
<1>. QED BY <1>3 DEF m

\* strongConnect returns to the frames fs, v being the function it was called for. The caller,
\* if any, is the last of the functions left and takes over a lower low link.
LEMMA LeaveFacts ==
  ASSUME TypeInv, Search, frames # <<>>, Leave
  PROVE  LET v == Last(frames).func
             fs == Front(frames)
         IN  /\ fs \in Seq(Frame) /\ frames' = fs /\ Active' = FuncsOf(fs)
             /\ v \in Active /\ Active = Active' \cup {v} /\ v \notin Active'
             /\ Open' = Open /\ \A g, h \in Funcs : <<g, h>> \in Open => g \in Active'
             /\ FramesRise(indices, fs)
             /\ \A f \in Active' : Before(f, v)
             /\ lowLinks' \in [Funcs -> Nat \cup {None}]
             /\ \A f \in Active' :
                  \/ /\ lowLinks'[f] = lowLinks[f]
                     /\ \E u \in Active' : Before(f, u)
                  \/ /\ lowLinks'[f] = IF lowLinks[f] <= lowLinks[v] THEN lowLinks[f] ELSE lowLinks[v]
                     /\ \A u \in Active' : ~Before(f, u)
<1> DEFINE v == Last(frames).func  fs == Front(frames)  u == Last(fs).func
<1>1. /\ Last(frames).todo = {}
      /\ frames' = fs
      /\ lowLinks' = IF Len(frames) = 1 THEN lowLinks
                     ELSE [lowLinks EXCEPT ![u] = Min({@, lowLinks[v]})]
  BY DEF Leave
<1>2. /\ fs \in Seq(Frame) /\ v \in Funcs
      /\ frames = Append(fs, [func |-> v, todo |-> Last(frames).todo])
      /\ Active = FuncsOf(fs) \cup {v}
      /\ Open = OpenOf(fs) \cup {e \in Funcs \X Funcs : e[1] = v /\ e[2] \in Last(frames).todo}
      /\ FramesRise(indices, fs)
      /\ \A f \in FuncsOf(fs) : Before(f, v)
      /\ v \notin FuncsOf(fs) /\ FuncsOf(fs) \subseteq Funcs
  BY FrameFacts
<1>3. Open = OpenOf(fs) BY <1>1, <1>2
<1>4. Active' = FuncsOf(fs) /\ Open' = Open BY <1>1, <1>3 DEF Active, Open
<1>5. Len(frames) = 1 <=> fs = <<>>
  <2>1. Len(frames) = Len(fs) + 1 /\ Len(fs) \in Nat BY <1>2
  <2>2. Len(fs) = 0 <=> fs = <<>> BY <1>2
  <2>. QED BY <2>1, <2>2
<1>6. /\ lowLinks \in [Funcs -> Nat \cup {None}] /\ indices \in [Funcs -> Nat \cup {None}]
      /\ \A f \in Active : lowLinks[f] \in Nat /\ lowLinks[f] <= indices[f] /\ indices[f] \in Nat
  BY SearchFacts DEF TypeInv
<1>. HIDE DEF v, fs, u
<1>7. \A g, h \in Funcs : <<g, h>> \in Open => g \in FuncsOf(fs)
  <2>1. \A g, h \in Funcs : <<g, h>>[1] = g OBVIOUS
  <2>. QED BY <1>3, <2>1 DEF OpenOf, FuncsOf
<1>8. CASE fs = <<>>
  <2>1. FuncsOf(fs) = {} /\ lowLinks' = lowLinks BY <1>1, <1>5, <1>8 DEF FuncsOf
  <2>. QED BY <1>1, <1>2, <1>4, <1>6, <1>7, <2>1 DEF v, fs
<1>9. CASE fs # <<>>
  <2>1. Front(fs) \in Seq(Frame) /\ Last(fs) \in Frame /\ fs = Append(Front(fs), Last(fs))
    BY <1>2, <1>9, SplitLast
  <2>2. /\ FuncsOf(Append(Front(fs), Last(fs))) = FuncsOf(Front(fs)) \cup {u}
        /\ FramesRise(indices, Append(Front(fs), Last(fs))) <=>
             /\ FramesRise(indices, Front(fs))
             /\ \A f \in FuncsOf(Front(fs)) : indices[f] < indices[u]
    BY <2>1, AppendFrame DEF u
  <2>3. u \in FuncsOf(fs) /\ \A f \in FuncsOf(fs) : f = u \/ Before(f, u)
    BY <1>2, <2>1, <2>2 DEF Before
  <2>4. lowLinks' = [lowLinks EXCEPT ![u] = Min({@, lowLinks[v]})] BY <1>1, <1>5, <1>9
  <2>5. u \in Active /\ v \in Active BY <1>2, <2>3
  <2>6. Min({lowLinks[u], lowLinks[v]}) = IF lowLinks[u] <= lowLinks[v] THEN lowLinks[u] ELSE lowLinks[v]
    BY <1>6, <2>5, MinOfTwo
  <2>7. /\ lowLinks' \in [Funcs -> Nat \cup {None}]
        /\ \A f \in Funcs : f # u => lowLinks'[f] = lowLinks[f]
        /\ lowLinks'[u] = IF lowLinks[u] <= lowLinks[v] THEN lowLinks[u] ELSE lowLinks[v]
    BY <1>2, <1>6, <2>3, <2>4, <2>5, <2>6
  <2>8. \A f \in FuncsOf(fs) : ~Before(u, f) BY <1>2, <1>6, <2>3, <2>5 DEF Before
  <2>9. \A f \in Active' :
          \/ /\ lowLinks'[f] = lowLinks[f]
             /\ \E w \in Active' : Before(f, w)
          \/ /\ lowLinks'[f] = IF lowLinks[f] <= lowLinks[v] THEN lowLinks[f] ELSE lowLinks[v]
             /\ \A w \in Active' : ~Before(f, w)
    BY <1>2, <1>4, <2>3, <2>7, <2>8
  <2>. QED BY <1>1, <1>2, <1>4, <1>6, <1>7, <2>7, <2>9 DEF v, fs
<1>. QED BY <1>8, <1>9

\* A function that is no root leaves: its low link shows an active function below it, which
\* stands in for it.
LEMMA LeaveMember ==
  ASSUME TypeInv, Search, frames # <<>>, Leave,
         lowLinks[Last(frames).func] # indices[Last(frames).func]
  PROVE  TypeInv' /\ Search'
<1> DEFINE v == Last(frames).func  fs == Front(frames)
<1>1. UNCHANGED <<prog, phase, edges, index, indices, stack, sccCount, funcToSCCs, scc,
                  canPanicExternally>>
  BY DEF Leave
<1>2. /\ fs \in Seq(Frame) /\ frames' = fs /\ Active' = FuncsOf(fs)
      /\ v \in Active /\ Active = Active' \cup {v} /\ v \notin Active'
      /\ Open' = Open
      /\ FramesRise(indices, fs)
      /\ \A f \in Active' : Before(f, v)
      /\ lowLinks' \in [Funcs -> Nat \cup {None}]
      /\ \A f \in Active' :
           \/ /\ lowLinks'[f] = lowLinks[f]
              /\ \E u \in Active' : Before(f, u)
           \/ /\ lowLinks'[f] = IF lowLinks[f] <= lowLinks[v] THEN lowLinks[f] ELSE lowLinks[v]
              /\ \A u \in Active' : ~Before(f, u)
  BY LeaveFacts
<1>3. lowLinks[v] # indices[v] OBVIOUS
<1>. HIDE DEF v, fs
<1>4. /\ Active \subseteq Placed /\ Placed \subseteq Funcs
      /\ \A f \in Placed : indices[f] \in Nat
      /\ \A f \in Active : lowLinks[f] \in Nat /\ lowLinks[f] <= indices[f]
  BY SearchFacts
<1>5. Placed' = Placed BY <1>1 DEF Placed
<1>6. \A f, g : Reaches(f, g)' <=> Reaches(f, g) BY <1>1 DEF Reaches, ClosedSets
<1>7. \A f, g : (Before(f, g)' <=> Before(f, g)) /\ (Visited(f)' <=> Visited(f))
  BY <1>1 DEF Before, Visited
<1>8. edges \subseteq Funcs \X Funcs BY DEF TypeInv
<1>9. /\ \A f \in Active, g \in Placed : ~Before(g, f) => Reaches(f, g)
      /\ \A g \in Placed : \E f \in Active : ~Before(g, f) /\ Reaches(g, f)
  BY DEF Search, Joined
<1>10. PICK z \in Placed : indices[z] = lowLinks[v] /\ Reaches(v, z)
  BY <1>2 DEF Search, LowLinksRight
<1>11. PICK a \in Active : ~Before(z, a) /\ Reaches(z, a) BY <1>9
<1>12. a \in Active' /\ Reaches(v, a) /\ indices[a] < indices[v]
  BY <1>2, <1>3, <1>4, <1>8, <1>10, <1>11, ReachFacts DEF Before
<1>13. TypeInv' BY <1>1, <1>2 DEF TypeInv
<1>14. Ordered' BY <1>1, <1>2, <1>5, <1>7 DEF Search, Ordered
<1>15. Followed' BY <1>1, <1>2, <1>7 DEF Search, Followed
<1>16. Numbered' BY <1>1, <1>6 DEF Search, Numbered
<1>17. Joined'
  <2>1. ASSUME NEW g \in Placed PROVE \E f \in Active' : ~Before(g, f) /\ Reaches(g, f)
    <3>1. PICK f \in Active : ~Before(g, f) /\ Reaches(g, f) BY <1>9
    <3>2. CASE f # v BY <1>2, <3>1, <3>2
    <3>3. CASE f = v
      <4>1. Reaches(g, a) BY <1>8, <1>12, <3>1, <3>3, ReachFacts
      <4>2. ~Before(g, a) BY <1>2, <1>4, <1>12, <3>1, <3>3 DEF Before
      <4>. QED BY <1>12, <4>1, <4>2
    <3>. QED BY <3>2, <3>3
  <2>2. \A f \in Active', g \in Placed : ~Before(g, f) => Reaches(f, g) BY <1>2, <1>9
  <2>. QED BY <1>5, <1>6, <1>7, <2>1, <2>2 DEF Joined
<1>18. LowLinksRight'
  <2>1. ASSUME NEW f \in Active'
        PROVE  /\ lowLinks'[f] \in Nat /\ lowLinks'[f] <= indices'[f]
               /\ \E h \in Placed : indices'[h] = lowLinks'[f] /\ Reaches(f, h)
    <3>1. f \in Active /\ v \in Active /\ Before(f, v) BY <1>2
    <3>2. lowLinks'[f] = lowLinks[f] \/ (lowLinks'[f] = lowLinks[v] /\ lowLinks[v] < lowLinks[f])
      BY <1>2, <1>4, <3>1
    <3>3. \E h \in Placed : indices[h] = lowLinks[f] /\ Reaches(f, h)
      BY <3>1 DEF Search, LowLinksRight
    <3>4. Reaches(f, v)
      <4>1. ~Before(v, f) BY <1>4, <3>1 DEF Before
      <4>. QED BY <1>4, <1>9, <3>1, <4>1
    <3>5. Reaches(f, z) BY <1>8, <1>10, <3>4, ReachFacts
    <3>. QED BY <1>1, <1>4, <1>10, <3>1, <3>2, <3>3, <3>5
  <2>2. ASSUME NEW f \in Active', NEW g \in Placed, NEW h \in Placed,
               <<g, h>> \in edges \ Open, Under(g, f)'
        PROVE  lowLinks'[f] <= indices[h]
    <3>1. f \in Active /\ v \in Active BY <1>2
    <3>2. ~Before(g, f) /\ \A u \in Active' : Before(f, u) => Before(g, u)
      BY <1>7, <2>2 DEF Under
    <3>3. CASE Before(g, v)
      <4>1. Under(g, f) BY <1>2, <3>2, <3>3 DEF Under
      <4>2. lowLinks[f] <= indices[h] BY <2>2, <3>1, <4>1 DEF Search, LowLinksRight
      <4>. QED BY <1>2, <1>4, <3>1, <4>2
    <3>4. CASE ~Before(g, v)
      <4>1. \A u \in Active : ~Before(v, u) BY <1>2, <1>4 DEF Before
      <4>2. Under(g, v) BY <3>4, <4>1 DEF Under
      <4>3. lowLinks[v] <= indices[h] BY <2>2, <3>1, <4>2 DEF Search, LowLinksRight
      <4>4. \A u \in Active' : ~Before(f, u)
        <5> SUFFICES ASSUME NEW u \in Active', Before(f, u) PROVE FALSE OBVIOUS
        <5>1. Before(g, u) /\ Before(u, v) BY <1>2, <3>2
        <5>. QED BY <1>2, <1>4, <3>4, <5>1 DEF Before
      <4>5. lowLinks'[f] = IF lowLinks[f] <= lowLinks[v] THEN lowLinks[f] ELSE lowLinks[v]
        BY <1>2, <4>4
      <4>. QED BY <1>4, <3>1, <4>3, <4>5
    <3>. QED BY <3>3, <3>4
  <2>. QED BY <1>1, <1>2, <1>5, <1>6, <2>1, <2>2 DEF LowLinksRight
<1>. QED BY <1>13, <1>14, <1>15, <1>16, <1>17, <1>18 DEF Search

\* A root leaves and pops its component: the functions from v on reach v, and no call leads from
\* them to what stays on the stack.
LEMMA LeaveRoot ==
  ASSUME TypeInv, Search, frames # <<>>, Leave,
         lowLinks[Last(frames).func] = indices[Last(frames).func]
  PROVE  TypeInv' /\ Search'
<1> DEFINE v == Last(frames).func
           fs == Front(frames)
           at == CHOOSE i \in DOMAIN stack : stack[i] = v
           popped == {stack[i] : i \in at .. Len(stack)}
<1>1. /\ UNCHANGED <<prog, phase, edges, index, indices, scc, canPanicExternally>>
      /\ funcToSCCs' = [f \in Funcs |-> IF f \in popped THEN sccCount ELSE funcToSCCs[f]]
      /\ sccCount' = sccCount + 1
      /\ stack' = SubSeq(stack, 1, at - 1)
  BY DEF Leave
<1>2. /\ fs \in Seq(Frame) /\ frames' = fs /\ Active' = FuncsOf(fs)
      /\ v \in Active /\ Active = Active' \cup {v} /\ v \notin Active'
      /\ Open' = Open /\ \A g, h \in Funcs : <<g, h>> \in Open => g \in Active'
      /\ FramesRise(indices, fs)
      /\ \A f \in Active' : Before(f, v)
      /\ lowLinks' \in [Funcs -> Nat \cup {None}]
      /\ \A f \in Active' :
           \/ /\ lowLinks'[f] = lowLinks[f]
              /\ \E u \in Active' : Before(f, u)
           \/ /\ lowLinks'[f] = IF lowLinks[f] <= lowLinks[v] THEN lowLinks[f] ELSE lowLinks[v]
              /\ \A u \in Active' : ~Before(f, u)
  BY LeaveFacts
<1>3. lowLinks[v] = indices[v] OBVIOUS
<1>4. /\ Active \subseteq Placed /\ Placed \subseteq Funcs
      /\ \A f \in Placed : indices[f] \in Nat /\ Visited(f) /\ funcToSCCs[f] = 0
      /\ \A f \in Active : lowLinks[f] \in Nat /\ lowLinks[f] <= indices[f]
      /\ \A f, g \in Placed : ~Before(g, f) /\ ~Before(f, g) => f = g
  BY SearchFacts
<1>5. stack \in Seq(Funcs) /\ indices \in [Funcs -> Int] /\ Rises(indices, stack)
  BY DEF TypeInv, Search, Ordered, None
<1>6. at \in 1 .. Len(stack) /\ stack[at] = v
  <2>1. \E i \in DOMAIN stack : stack[i] = v
    <3>1. DOMAIN stack = 1 .. Len(stack) BY <1>5
    <3>2. v \in Elements(stack) BY <1>2, <1>4 DEF Placed
    <3>. QED BY <3>1, <3>2 DEF Elements
  <2>2. at \in DOMAIN stack /\ stack[at] = v BY <2>1
  <2>. QED BY <1>5, <2>2
<1>. HIDE DEF v, fs, at
<1>7. /\ stack' \in Seq(Funcs)
      /\ Placed' = {g \in Placed : Before(g, v)}
      /\ popped = {g \in Placed : ~Before(g, v)}
      /\ Rises(indices, stack')
  <2>1. /\ SubSeq(stack, 1, at - 1) \in Seq(Funcs)
        /\ Elements(SubSeq(stack, 1, at - 1)) = {g \in Elements(stack) : indices[g] < indices[stack[at]]}
        /\ {stack[i] : i \in at .. Len(stack)} =
             {g \in Elements(stack) : ~(indices[g] < indices[stack[at]])}
        /\ Rises(indices, SubSeq(stack, 1, at - 1))
    BY <1>5, <1>6, CutStack
  <2>2. Placed' = Elements(stack') BY DEF Placed
  <2>. QED BY <1>1, <1>6, <2>1, <2>2 DEF Placed, Before
<1>. HIDE DEF popped
<1>8. \A f, g : Reaches(f, g)' <=> Reaches(f, g) BY <1>1 DEF Reaches, ClosedSets
<1>9. \A f, g : (Before(f, g)' <=> Before(f, g)) /\ (Visited(f)' <=> Visited(f))
  BY <1>1 DEF Before, Visited
<1>10. /\ edges \subseteq Funcs \X Funcs /\ sccCount \in Nat \ {0} /\ funcToSCCs \in [Funcs -> Nat]
  BY DEF TypeInv
<1>11. /\ funcToSCCs' \in [Funcs -> Nat] /\ sccCount' \in Nat \ {0}
       /\ \A f \in popped : funcToSCCs'[f] = sccCount
       /\ \A f \in Funcs \ popped : funcToSCCs'[f] = funcToSCCs[f]
       /\ popped \subseteq Funcs /\ v \in popped
  BY <1>1, <1>2, <1>4, <1>7, <1>10 DEF Before
<1>12. /\ \A f \in Active, g \in Placed : ~Before(g, f) => Reaches(f, g)
       /\ \A g \in Placed : \E f \in Active : ~Before(g, f) /\ Reaches(g, f)
  BY DEF Search, Joined
<1>13. \A g \in popped : Reaches(v, g) /\ Reaches(g, v)
  <2> SUFFICES ASSUME NEW g \in popped PROVE Reaches(v, g) /\ Reaches(g, v) OBVIOUS
  <2>1. g \in Placed /\ ~Before(g, v) BY <1>7
  <2>2. Reaches(v, g) BY <1>2, <1>12, <2>1
  <2>3. PICK f \in Active : ~Before(g, f) /\ Reaches(g, f) BY <1>12, <2>1
  <2>4. ~Before(v, f) BY <1>2, <1>4 DEF Before
  <2>5. Reaches(f, v) BY <1>2, <1>4, <1>12, <2>4
  <2>. QED BY <1>10, <2>2, <2>3, <2>5, ReachFacts
<1>14. \A g \in popped, h \in Funcs : <<g, h>> \in edges => h \in popped \/ funcToSCCs[h] # 0
  <2> SUFFICES ASSUME NEW g \in popped, NEW h \in Funcs, <<g, h>> \in edges, funcToSCCs[h] = 0
               PROVE  h \in popped
    OBVIOUS
  <2>1. g \in Placed /\ ~Before(g, v) BY <1>7
  <2>2. <<g, h>> \notin Open BY <1>2, <1>4, <2>1
  <2>3. Visited(h) BY <1>4, <2>1, <2>2 DEF Search, Followed
  <2>4. h \in Placed BY <2>3 DEF Search, Ordered
  <2>5. \A u \in Active : ~Before(v, u) BY <1>2, <1>4 DEF Before
  <2>6. Under(g, v) BY <2>1, <2>5 DEF Under
  <2>7. lowLinks[v] <= indices[h] BY <1>2, <2>1, <2>2, <2>4, <2>6 DEF Search, LowLinksRight
  <2>8. ~Before(h, v) BY <1>2, <1>3, <1>4, <2>4, <2>7 DEF Before
  <2>. QED BY <1>7, <2>4, <2>8
<1>15. TypeInv' BY <1>1, <1>2, <1>7, <1>11 DEF TypeInv
<1>16. Ordered'
  <2>1. Active' \subseteq Placed' BY <1>2, <1>4, <1>7
  <2>2. \A f \in Funcs : f \in Placed' <=> Visited(f) /\ funcToSCCs'[f] = 0
    <3> SUFFICES ASSUME NEW f \in Funcs PROVE f \in Placed' <=> Visited(f) /\ funcToSCCs'[f] = 0
      OBVIOUS
    <3>1. f \in Placed <=> Visited(f) /\ funcToSCCs[f] = 0 BY DEF Search, Ordered
    <3>2. CASE f \in popped BY <1>7, <1>10, <1>11, <3>2
    <3>3. CASE f \notin popped BY <1>7, <1>11, <3>1, <3>3
    <3>. QED BY <3>2, <3>3
  <2>3. \A f \in Funcs : funcToSCCs'[f] # 0 => Visited(f)
    <3> SUFFICES ASSUME NEW f \in Funcs, funcToSCCs'[f] # 0 PROVE Visited(f) OBVIOUS
    <3>1. CASE f \in popped BY <1>4, <1>7, <3>1
    <3>2. CASE f \notin popped BY <1>11, <3>2 DEF Search, Ordered
    <3>. QED BY <3>1, <3>2
  <2>. QED BY <1>1, <1>2, <1>7, <1>9, <2>1, <2>2, <2>3 DEF Search, Ordered
<1>17. Followed' BY <1>1, <1>2, <1>9 DEF Search, Followed
<1>18. Numbered'
  <2>1. /\ \A f \in Funcs : funcToSCCs[f] < sccCount
        /\ \A f, g \in Funcs : funcToSCCs[f] = funcToSCCs[g] /\ funcToSCCs[f] # 0 => Reaches(f, g)
        /\ \A f, g \in Funcs : <<f, g>> \in edges /\ funcToSCCs[f] # 0 =>
             funcToSCCs[g] # 0 /\ funcToSCCs[g] <= funcToSCCs[f]
    BY DEF Search, Numbered
  <2>2. \A f \in Funcs : funcToSCCs'[f] < sccCount'
    <3> SUFFICES ASSUME NEW f \in Funcs PROVE funcToSCCs'[f] < sccCount' OBVIOUS
    <3>1. CASE f \in popped BY <1>1, <1>10, <1>11, <3>1
    <3>2. CASE f \notin popped BY <1>1, <1>10, <1>11, <2>1, <3>2
    <3>. QED BY <3>1, <3>2
  <2>3. ASSUME NEW f \in Funcs, NEW g \in Funcs, funcToSCCs'[f] = funcToSCCs'[g], funcToSCCs'[f] # 0
        PROVE  Reaches(f, g)
    <3>1. CASE f \in popped /\ g \in popped BY <1>10, <1>13, <3>1, ReachFacts
    <3>2. CASE f \notin popped /\ g \notin popped BY <1>11, <2>1, <2>3, <3>2
    <3>3. CASE ~(f \in popped <=> g \in popped) BY <1>10, <1>11, <2>1, <2>3, <3>3
    <3>. QED BY <3>1, <3>2, <3>3
  <2>4. ASSUME NEW f \in Funcs, NEW g \in Funcs, <<f, g>> \in edges, funcToSCCs'[f] # 0
        PROVE  funcToSCCs'[g] # 0 /\ funcToSCCs'[g] <= funcToSCCs'[f]
    <3>1. CASE f \in popped
      <4>1. CASE g \in popped BY <1>10, <1>11, <3>1, <4>1
      <4>2. CASE g \notin popped
        <5>1. funcToSCCs[g] # 0 /\ funcToSCCs[g] < sccCount BY <1>14, <2>1, <2>4, <3>1, <4>2
        <5>. QED BY <1>10, <1>11, <3>1, <4>2, <5>1
      <4>. QED BY <4>1, <4>2
    <3>2. CASE f \notin popped
      <4>1. funcToSCCs[g] # 0 /\ funcToSCCs[g] <= funcToSCCs[f] BY <1>11, <2>1, <2>4, <3>2
      <4>2. g \notin popped BY <1>4, <1>7, <4>1
      <4>. QED BY <1>11, <3>2, <4>1, <4>2
    <3>. QED BY <3>1, <3>2
  <2>. QED BY <1>1, <1>8, <2>2, <2>3, <2>4 DEF Numbered
<1>19. Joined'
  <2>1. \A f \in Active', g \in Placed' : ~Before(g, f) => Reaches(f, g) BY <1>2, <1>7, <1>12
  <2>2. ASSUME NEW g \in Placed' PROVE \E f \in Active' : ~Before(g, f) /\ Reaches(g, f)
    BY <1>2, <1>7, <1>12
  <2>. QED BY <1>8, <1>9, <2>1, <2>2 DEF Joined
<1>20. LowLinksRight'
  <2>1. \A f \in Active' : lowLinks'[f] = lowLinks[f] BY <1>2, <1>3, <1>4 DEF Before
  <2>2. ASSUME NEW f \in Active'
        PROVE  /\ lowLinks[f] \in Nat /\ lowLinks[f] <= indices[f]
               /\ \E h \in Placed' : indices[h] = lowLinks[f] /\ Reaches(f, h)
    <3>1. f \in Active BY <1>2
    <3>2. PICK h \in Placed : indices[h] = lowLinks[f] /\ Reaches(f, h)
      BY <3>1 DEF Search, LowLinksRight
    <3>3. Before(h, v) BY <1>2, <1>4, <3>1, <3>2 DEF Before
    <3>. QED BY <1>4, <1>7, <3>1, <3>2, <3>3
  <2>3. ASSUME NEW f \in Active', NEW g \in Placed', NEW h \in Placed',
               <<g, h>> \in edges \ Open, Under(g, f)'
        PROVE  lowLinks[f] <= indices[h]
    <3>1. f \in Active /\ g \in Placed /\ h \in Placed /\ Before(g, v) BY <1>2, <1>7
    <3>2. Under(g, f) BY <1>2, <1>9, <2>3, <3>1 DEF Under
    <3>. QED BY <2>3, <3>1, <3>2 DEF Search, LowLinksRight
  <2>. QED BY <1>1, <1>2, <1>8, <2>1, <2>2, <2>3 DEF LowLinksRight
<1>. QED BY <1>15, <1>16, <1>17, <1>18, <1>19, <1>20 DEF Search

-----------------------------------------------------------------------------
\* The empty recursion.
LEMMA NoFrames ==
  /\ <<>> \in Seq(Frame) /\ FuncsOf(<<>>) = {} /\ OpenOf(<<>>) = {}
  /\ \A ind : FramesRise(ind, <<>>)
BY DEF FuncsOf, OpenOf, FramesRise

\* The loop of updateSCCs takes an unvisited function.
LEMMA RootKeeps ==
  ASSUME TypeInv, Search, NEW f \in Funcs, Root(f)
  PROVE  TypeInv' /\ Search'
<1>1. frames = <<>> /\ ~Visited(f) /\ Enter(f, <<>>) BY DEF Root, Visited
<1>2. Active = {} /\ Open = {} BY <1>1, NoFrames DEF Active, Open
<1>. QED BY <1>1, <1>2, NoFrames, EnterKeeps

\* strongConnect considers a successor, visited or not.
LEMMA ConsiderAnyKeeps ==
  ASSUME TypeInv, Search, NEW w \in Funcs, Consider(w)
  PROVE  TypeInv' /\ Search'
<1> DEFINE v == Last(frames).func
           todo == Last(frames).todo
           x == [func |-> v, todo |-> todo \ {w}]
           fs == Append(Front(frames), x)
<1>1. frames # <<>> /\ w \in todo BY DEF Consider
<1>2. IF indices[w] = None
      THEN Enter(w, fs)
      ELSE /\ frames' = fs
           /\ lowLinks' = [lowLinks EXCEPT ![v] =
                             IF Contains(stack, w) /\ indices[w] < @ THEN indices[w] ELSE @]
           /\ UNCHANGED <<prog, phase, edges, callees, index, indices, stack, sccCount,
                          funcToSCCs, scc, countVars, canPanicExternally>>
  BY DEF Consider
<1>3. /\ Front(frames) \in Seq(Frame) /\ v \in Funcs /\ todo \in SUBSET Funcs
      /\ Active = FuncsOf(Front(frames)) \cup {v}
      /\ Open = OpenOf(Front(frames)) \cup {e \in Funcs \X Funcs : e[1] = v /\ e[2] \in todo}
      /\ FramesRise(indices, Front(frames))
      /\ \A f \in FuncsOf(Front(frames)) : Before(f, v)
  BY <1>1, FrameFacts
<1>4. x \in Frame /\ x.func = v /\ x.todo = todo \ {w} BY <1>3 DEF Frame
<1>. HIDE DEF v, todo, x
<1>5. /\ fs \in Seq(Frame)
      /\ FuncsOf(fs) = FuncsOf(Front(frames)) \cup {x.func}
      /\ OpenOf(fs) = OpenOf(Front(frames))
           \cup {e \in Funcs \X Funcs : e[1] = x.func /\ e[2] \in x.todo}
      /\ FramesRise(indices, fs) <=>
           /\ FramesRise(indices, Front(frames))
           /\ \A f \in FuncsOf(Front(frames)) : indices[f] < indices[x.func]
  BY <1>3, <1>4, AppendFrame
<1>. HIDE DEF fs
<1>6. FuncsOf(fs) = Active /\ FramesRise(indices, fs) BY <1>3, <1>4, <1>5 DEF Before
<1>7. OpenOf(fs) \subseteq Open /\ \A e \in Open : e \in OpenOf(fs) \/ e = <<v, w>>
  BY <1>3, <1>4, <1>5
<1>8. edges \subseteq Funcs \X Funcs BY DEF TypeInv
<1>9. <<v, w>> \in edges
  <2>1. <<v, w>> \in Open BY <1>1, <1>3
  <2>. QED BY <2>1 DEF Search, Followed
<1>10. CASE indices[w] = None
  <2>1. ASSUME NEW f \in Active PROVE Reaches(f, w)
    <3>1. /\ Active \subseteq Placed /\ \A g \in Placed : indices[g] \in Nat BY SearchFacts
    <3>2. ~Before(v, f) BY <1>3, <3>1 DEF Before
    <3>3. v \in Placed BY <1>3, <3>1
    <3>4. Reaches(f, v) BY <3>2, <3>3 DEF Search, Joined
    <3>. QED BY <1>8, <1>9, <3>4, ReachFacts
  <2>2. \A e \in Open : e \in OpenOf(fs) \/ e[2] = w BY <1>7
  <2>. QED BY <1>2, <1>5, <1>6, <1>7, <1>10, <2>1, <2>2, EnterKeeps DEF Visited
<1>11. CASE indices[w] # None
  <2>1. v \in Active BY <1>3
  <2>. QED BY <1>2, <1>5, <1>6, <1>7, <1>9, <1>11, <2>1, ConsiderKeeps DEF Visited
<1>. QED BY <1>10, <1>11

\* When updateSCCs is done the stack is empty: everything on it reaches an active function.
LEMMA ConnectedNumbered ==
  ASSUME TypeInv, Search, Connected
  PROVE  AllNumbered
<1>1. Active = {} BY NoFrames DEF Connected, Active
<1>2. Placed = {} BY <1>1 DEF Search, Joined
<1>3. \A f \in Funcs : funcToSCCs[f] # 0
  BY <1>2 DEF Connected, Search, Ordered, Visited
<1>. QED BY <1>3 DEF AllNumbered, Search

\* The state updateSCCs starts from, on any calls.
Unsearched ==
    /\ \A f \in Funcs : indices[f] = None /\ funcToSCCs[f] = 0
    /\ stack = <<>> /\ frames = <<>> /\ sccCount = 1

\* The search may start in it.
LEMMA StartSearch == Unsearched => Search
<1> SUFFICES ASSUME Unsearched PROVE Search OBVIOUS
<1>0. /\ \A f \in Funcs : indices[f] = None /\ funcToSCCs[f] = 0
      /\ stack = <<>> /\ frames = <<>> /\ sccCount = 1
  BY DEF Unsearched
<1>1. Active = {} /\ Open = {} /\ FramesRise(indices, frames) BY <1>0, NoFrames DEF Active, Open
<1>2. Placed = {} /\ Rises(indices, stack) BY <1>0 DEF Placed, Elements, Rises
<1>3. \A f \in Funcs : ~Visited(f) BY <1>0 DEF Visited
<1>4. Ordered BY <1>0, <1>1, <1>2, <1>3 DEF Ordered
<1>5. Followed BY <1>1, <1>3 DEF Followed
<1>6. Numbered BY <1>0 DEF Numbered
<1>7. Joined BY <1>1, <1>2 DEF Joined
<1>8. LowLinksRight BY <1>1, <1>2 DEF LowLinksRight
<1>. QED BY <1>4, <1>5, <1>6, <1>7, <1>8 DEF Search

-----------------------------------------------------------------------------
\* A component of one function and a larger one.
LEMMA MoreThanOne ==
  ASSUME NEW f \in Funcs, NEW C \in SUBSET Funcs, f \in C
  PROVE  Cardinality(C) > 1 <=> C # {f}
<1>1. IsFiniteSet(Funcs) BY FuncCountAssumption, FS_Interval DEF Funcs
<1>2. IsFiniteSet(C) BY <1>1, FS_Subset
<1>3. IsFiniteSet(C \ {f}) /\ Cardinality(C \ {f}) = Cardinality(C) - 1
  BY <1>2, FS_RemoveElement
<1>4. Cardinality(C \ {f}) \in Nat /\ Cardinality(C) \in Nat BY <1>2, <1>3, FS_CardinalityType
<1>5. Cardinality(C \ {f}) = 0 <=> C \ {f} = {} BY <1>3, FS_EmptySet
<1>. QED BY <1>3, <1>4, <1>5

\* The functions of one component can panic when they reach a panic: directly, through a callee
\* of an earlier component, or through another function of their own.
LEMMA PanicsOfSCCKeeps ==
  ASSUME TypeInv, AllNumbered, PanicsKnown, scc \in 1 .. sccCount, PanicsOfSCC
  PROVE  /\ canPanicExternally' \in [Funcs -> BOOLEAN]
         /\ PanicsKnown' /\ scc' \in 1 .. sccCount'
<1> DEFINE C == FuncsInSCC(scc)
           calleePanics(f) == \E g \in Succs(f) : CanPanic(g)
           inSCC == \E f \in C : f \in prog.panics \/ calleePanics(f)
<1>1. /\ scc < sccCount /\ scc' = scc + 1
      /\ canPanicExternally' =
           [f \in Funcs |-> IF f \notin C THEN canPanicExternally[f]
                            ELSE calleePanics(f) \/ (Cardinality(C) > 1 /\ inSCC)]
      /\ UNCHANGED <<prog, edges, sccCount, funcToSCCs>>
  BY DEF PanicsOfSCC, sccVars
<1>2. /\ scc \in Nat /\ sccCount \in Nat /\ funcToSCCs \in [Funcs -> Nat]
      /\ edges \subseteq Funcs \X Funcs /\ canPanicExternally \in [Funcs -> BOOLEAN]
      /\ prog \in Programs
  BY DEF TypeInv
<1>3. prog.panics \subseteq Funcs BY <1>2, InputFacts
<1>4. /\ \A f, g \in Funcs : funcToSCCs[f] = funcToSCCs[g] => Reaches(f, g)
      /\ \A f, g \in Funcs : <<f, g>> \in edges => funcToSCCs[g] <= funcToSCCs[f]
  BY DEF AllNumbered, Numbered
<1>5. C \in SUBSET Funcs /\ \A f \in Funcs : f \in C <=> funcToSCCs[f] = scc BY DEF FuncsInSCC
<1>6. \A f, g \in Funcs : g \in Succs(f) <=> <<f, g>> \in edges BY DEF Succs
<1>7. /\ \A f \in Funcs : funcToSCCs[f] < scc => (CanPanic(f) <=> MayPanic(f))
      /\ \A f \in Funcs : ~(funcToSCCs[f] < scc) => ~canPanicExternally[f]
  BY DEF PanicsKnown
<1>8. canPanicExternally' \in [Funcs -> BOOLEAN] BY <1>1, <1>2
<1>9. /\ \A f \in Funcs \ C : canPanicExternally'[f] <=> canPanicExternally[f]
      /\ \A f \in C : canPanicExternally'[f] <=> calleePanics(f) \/ (Cardinality(C) > 1 /\ inSCC)
  BY <1>1, <1>5
<1>. HIDE DEF C
<1>10. \A f : /\ f \in prog.panics => MayPanic(f)
              /\ \A g : Reaches(f, g) /\ MayPanic(g) => MayPanic(f)
  BY <1>2, ReachFacts DEF MayPanic
<1>11. \A f \in Funcs : calleePanics(f) => MayPanic(f)
  <2> SUFFICES ASSUME NEW f \in Funcs, NEW g \in Succs(f), CanPanic(g) PROVE MayPanic(f) OBVIOUS
  <2>1. g \in Funcs /\ <<f, g>> \in edges BY DEF Succs
  <2>2. Reaches(f, g) BY <1>2, <2>1, ReachFacts
  <2>3. MayPanic(g) BY <1>7, <1>10, <2>1 DEF CanPanic
  <2>. QED BY <1>10, <2>2, <2>3
<1>12. inSCC => \A f \in C : MayPanic(f)
  <2> SUFFICES ASSUME NEW h \in C, h \in prog.panics \/ calleePanics(h), NEW f \in C
               PROVE  MayPanic(f)
    OBVIOUS
  <2>1. MayPanic(h) BY <1>5, <1>10, <1>11
  <2>2. Reaches(f, h) BY <1>4, <1>5
  <2>. QED BY <1>10, <2>1, <2>2
<1>13. ~inSCC => \A f \in C : ~MayPanic(f)
  <2> SUFFICES ASSUME ~inSCC, NEW f \in C, NEW p \in prog.panics, Reaches(f, p) PROVE FALSE
    BY DEF MayPanic
  <2> DEFINE S == {g \in Funcs : g \in C \/ (funcToSCCs[g] < scc /\ ~MayPanic(g))}
  <2>1. ASSUME NEW g \in Funcs, NEW h \in Funcs, <<g, h>> \in edges, g \in S PROVE h \in S
    <3>1. funcToSCCs[h] <= funcToSCCs[g] BY <1>4, <2>1
    <3>2. CASE g \in C
      <4>1. ~CanPanic(h) BY <1>6, <2>1, <3>2
      <4>2. funcToSCCs[h] < scc \/ h \in C BY <1>2, <1>5, <3>1, <3>2
      <4>. QED BY <1>7, <4>1, <4>2
    <3>3. CASE funcToSCCs[g] < scc /\ ~MayPanic(g)
      <4>1. Reaches(g, h) BY <1>2, <2>1, ReachFacts
      <4>2. ~MayPanic(h) BY <1>10, <3>3, <4>1
      <4>3. funcToSCCs[h] < scc BY <1>2, <3>1, <3>3
      <4>. QED BY <4>2, <4>3
    <3>. QED BY <2>1, <3>2, <3>3
  <2>2. f \in S BY <1>5
  <2>3. S \in SUBSET Funcs OBVIOUS
  <2>. HIDE DEF S
  <2>4. p \in S BY <1>2, <2>1, <2>2, <2>3, ReachStays
  <2>. QED BY <1>10, <2>4 DEF S
<1>14. \A f \in C : CanPanic(f)' <=> MayPanic(f)
  <2> SUFFICES ASSUME NEW f \in C PROVE CanPanic(f)' <=> MayPanic(f) OBVIOUS
  <2>1. CanPanic(f)' <=> f \in prog.panics \/ canPanicExternally'[f] BY <1>1 DEF CanPanic
  <2>2. f \in Funcs /\ (canPanicExternally'[f] <=> calleePanics(f) \/ (Cardinality(C) > 1 /\ inSCC))
    BY <1>5, <1>9
  <2>3. ASSUME CanPanic(f)' PROVE MayPanic(f) BY <1>10, <1>11, <1>12, <2>1, <2>2, <2>3
  <2>4. ASSUME MayPanic(f) PROVE CanPanic(f)'
    <3>1. inSCC BY <1>13, <2>4
    <3>2. CASE C = {f} BY <2>1, <2>2, <3>1, <3>2
    <3>3. CASE C # {f}
      <4>1. Cardinality(C) > 1 BY <1>5, <2>2, <3>3, MoreThanOne
      <4>. QED BY <2>1, <2>2, <3>1, <4>1
    <3>. QED BY <3>2, <3>3
  <2>. QED BY <2>3, <2>4
<1>15. PanicsKnown'
  <2>1. \A f : MayPanic(f)' <=> MayPanic(f) BY <1>1 DEF MayPanic, Reaches, ClosedSets
  <2>2. ASSUME NEW f \in Funcs, funcToSCCs[f] < scc + 1 PROVE CanPanic(f)' <=> MayPanic(f)
    <3>1. CASE f \in C BY <1>14, <3>1
    <3>2. CASE f \notin C
      <4>1. funcToSCCs[f] < scc BY <1>2, <1>5, <2>2, <3>2
      <4>. QED BY <1>1, <1>7, <1>9, <3>2, <4>1 DEF CanPanic
    <3>. QED BY <3>1, <3>2
  <2>3. ASSUME NEW f \in Funcs, ~(funcToSCCs[f] < scc + 1) PROVE ~canPanicExternally'[f]
    BY <1>2, <1>5, <1>7, <1>9, <2>3
  <2>. QED BY <1>1, <2>1, <2>2, <2>3 DEF PanicsKnown
<1>. QED BY <1>1, <1>2, <1>8, <1>15

-----------------------------------------------------------------------------
\* CGInv is an invariant, one step per action.
LEMMA InitInv == Init => CGInv
<1> SUFFICES ASSUME Init PROVE CGInv OBVIOUS
<1>1. /\ prog \in Programs /\ phase = "scc" /\ edges = CallsOf(prog) /\ index = 0
      /\ indices = [f \in Funcs |-> None] /\ lowLinks = [f \in Funcs |-> None]
      /\ stack = <<>> /\ frames = <<>> /\ sccCount = 1 /\ funcToSCCs = [f \in Funcs |-> 0]
      /\ scc = 0 /\ canPanicExternally = [f \in Funcs |-> FALSE]
  BY DEF Init, CGInit
<1>2. TypeInv BY <1>1, InputFacts, NoFrames DEF TypeInv
<1>3. Search BY <1>1, StartSearch DEF Unsearched
<1>. QED BY <1>1, <1>2, <1>3 DEF CGInv, Connecting

\* A step of updateSCCs: the phase stays, and so does what the other phases keep.
LEMMA SearchStep ==
  ASSUME CGInv, Connecting, UNCHANGED <<phase, scc, canPanicExternally>>, TypeInv', Search'
  PROVE  CGInv'
BY DEF CGInv, Connecting

\* Every step keeps CGInv.
LEMMA NextInv == CGInv /\ [Next]_vars => CGInv'
<1> SUFFICES ASSUME CGInv, [Next]_vars PROVE CGInv' OBVIOUS
<1>1. TypeInv BY DEF CGInv
<1>2. Connecting => Search BY DEF CGInv
<1>3. ASSUME NEW f \in Funcs, Root(f) PROVE CGInv'
  <2>1. Connecting /\ UNCHANGED <<phase, scc, canPanicExternally>> BY <1>3 DEF Root, Enter
  <2>. QED BY <1>1, <1>2, <1>3, <2>1, RootKeeps, SearchStep
<1>4. ASSUME NEW f \in Funcs, Consider(f) PROVE CGInv'
  <2>1. Connecting /\ UNCHANGED <<phase, scc, canPanicExternally>> BY <1>4 DEF Consider, Enter
  <2>. QED BY <1>1, <1>2, <1>4, <2>1, ConsiderAnyKeeps, SearchStep
<1>5. CASE Leave
  <2>1. Connecting /\ frames # <<>> /\ UNCHANGED <<phase, scc, canPanicExternally>>
    BY <1>5 DEF Leave
  <2>2. TypeInv' /\ Search' BY <1>1, <1>2, <1>5, <2>1, LeaveRoot, LeaveMember
  <2>. QED BY <2>1, <2>2, SearchStep
<1>6. CASE BeginCounts
  <2>1. /\ Connected /\ phase = "scc" /\ phase' = "counts" /\ scc' = sccCount - 1
        /\ UNCHANGED <<prog, edges, sccVars, canPanicExternally>>
    BY <1>6 DEF BeginCounts
  <2>2. AllNumbered BY <1>1, <1>2, <2>1, ConnectedNumbered DEF Connected
  <2>3. AllNumbered'
    BY <2>1, <2>2 DEF AllNumbered, Numbered, Reaches, ClosedSets, sccVars
  <2>4. TypeInv' BY <1>1, <2>1 DEF TypeInv, sccVars
  <2>. QED BY <2>1, <2>3, <2>4 DEF CGInv, Connecting
<1>7. CASE CountSCC
  <2>1. /\ phase = "counts" /\ scc' = scc - 1
        /\ UNCHANGED <<prog, phase, edges, sccVars, canPanicExternally>>
    BY <1>7 DEF CountSCC
  <2>2. AllNumbered BY <2>1 DEF CGInv, Connecting
  <2>3. AllNumbered'
    BY <2>1, <2>2 DEF AllNumbered, Numbered, Reaches, ClosedSets, sccVars
  <2>4. TypeInv' BY <1>1, <2>1 DEF TypeInv, sccVars
  <2>. QED BY <2>1, <2>3, <2>4 DEF CGInv, Connecting
<1>8. CASE EndCounts
  <2>1. /\ phase = "counts" /\ phase' = (IF AllKinds THEN "closures" ELSE "panics") /\ scc' = 1
        /\ UNCHANGED <<prog, edges, sccVars, canPanicExternally>>
    BY <1>8 DEF EndCounts
  <2>2. AllNumbered /\ \A f \in Funcs : ~canPanicExternally[f] BY <2>1 DEF CGInv, Connecting
  <2>3. AllNumbered'
    BY <2>1, <2>2 DEF AllNumbered, Numbered, Reaches, ClosedSets, sccVars
  <2>4. TypeInv' BY <1>1, <2>1 DEF TypeInv, sccVars
  <2>5. PanicsKnown' /\ scc' \in 1 .. sccCount'
    BY <1>1, <2>1, <2>2 DEF TypeInv, PanicsKnown, AllNumbered, sccVars
  <2>. QED BY <2>1, <2>2, <2>3, <2>4, <2>5 DEF CGInv, Connecting
<1>9. CASE RemoveClosures
  <2>1. /\ phase = "closures"
        /\ edges' = {e \in edges : e[2] \notin RemovedClosures}
        /\ IF RemovedClosures = {}
           THEN phase' = "panics" /\ UNCHANGED sccVars
           ELSE phase' = "rescc" /\ ResetSCCs
        /\ UNCHANGED <<prog, scc, canPanicExternally>>
    BY <1>9 DEF RemoveClosures
  <2>2. AllNumbered /\ scc = 1 /\ \A f \in Funcs : ~canPanicExternally[f]
    BY <2>1 DEF CGInv, Connecting
  <2>3. CASE RemovedClosures = {}
    <3>1. edges' = edges BY <2>1, <2>3
    <3>2. AllNumbered'
      BY <2>1, <2>2, <2>3, <3>1 DEF AllNumbered, Numbered, Reaches, ClosedSets, sccVars
    <3>3. TypeInv' BY <1>1, <2>1, <2>3, <3>1 DEF TypeInv, sccVars
    <3>4. PanicsKnown' /\ scc' \in 1 .. sccCount'
      BY <1>1, <2>1, <2>2, <2>3 DEF TypeInv, PanicsKnown, AllNumbered, sccVars
    <3>. QED BY <2>1, <2>3, <3>2, <3>3, <3>4 DEF CGInv, Connecting
  <2>4. CASE RemovedClosures # {}
    <3>1. /\ phase' = "rescc" /\ index' = 0 /\ stack' = <<>> /\ frames' = <<>> /\ sccCount' = 1
          /\ indices' = [f \in Funcs |-> None] /\ lowLinks' = [f \in Funcs |-> None]
          /\ funcToSCCs' = [f \in Funcs |-> 0]
      BY <2>1, <2>4 DEF ResetSCCs
    <3>2. (Unsearched => Search)' BY StartSearch, PTL
    <3>3. Search' BY <3>1, <3>2 DEF Unsearched
    <3>4. TypeInv' BY <1>1, <2>1, <3>1, NoFrames DEF TypeInv
    <3>. QED BY <2>1, <2>2, <3>1, <3>3, <3>4 DEF CGInv, Connecting
  <2>. QED BY <2>3, <2>4
<1>10. CASE BeginPanics
  <2>1. /\ Connected /\ phase = "rescc" /\ phase' = "panics"
        /\ UNCHANGED <<prog, edges, sccVars, scc, canPanicExternally>>
    BY <1>10 DEF BeginPanics
  <2>2. AllNumbered /\ scc = 1 /\ \A f \in Funcs : ~canPanicExternally[f]
    BY <1>1, <1>2, <2>1, ConnectedNumbered DEF Connected, CGInv
  <2>3. AllNumbered'
    BY <2>1, <2>2 DEF AllNumbered, Numbered, Reaches, ClosedSets, sccVars
  <2>4. TypeInv' BY <1>1, <2>1 DEF TypeInv, sccVars
  <2>5. PanicsKnown' /\ scc' \in 1 .. sccCount'
    BY <1>1, <2>1, <2>2 DEF TypeInv, PanicsKnown, AllNumbered, sccVars
  <2>. QED BY <2>1, <2>3, <2>4, <2>5 DEF CGInv, Connecting
<1>11. CASE PanicsOfSCC
  <2>1. phase = "panics" /\ UNCHANGED <<prog, phase, edges, sccVars>> BY <1>11 DEF PanicsOfSCC
  <2>2. AllNumbered /\ PanicsKnown /\ scc \in 1 .. sccCount BY <2>1 DEF CGInv, Connecting
  <2>3. AllNumbered'
    BY <2>1, <2>2 DEF AllNumbered, Numbered, Reaches, ClosedSets, sccVars
  <2>4. /\ canPanicExternally' \in [Funcs -> BOOLEAN]
        /\ PanicsKnown' /\ scc' \in 1 .. sccCount'
    BY <1>1, <1>11, <2>2, PanicsOfSCCKeeps
  <2>5. TypeInv' BY <1>1, <2>1, <2>4 DEF TypeInv, sccVars
  <2>. QED BY <2>1, <2>3, <2>4, <2>5 DEF CGInv, Connecting
<1>12. CASE EndPanics
  <2>1. /\ phase = "panics" /\ scc = sccCount /\ phase' = "done"
        /\ UNCHANGED <<prog, edges, sccVars, scc, canPanicExternally>>
    BY <1>12 DEF EndPanics
  <2>2. AllNumbered /\ PanicsKnown /\ scc \in 1 .. sccCount BY <2>1 DEF CGInv, Connecting
  <2>3. AllNumbered'
    BY <2>1, <2>2 DEF AllNumbered, Numbered, Reaches, ClosedSets, sccVars
  <2>4. TypeInv' BY <1>1, <2>1 DEF TypeInv, sccVars
  <2>5. PanicsKnown' /\ scc' \in 1 .. sccCount'
    BY <2>1, <2>2 DEF PanicsKnown, CanPanic, MayPanic, Reaches, ClosedSets, sccVars
  <2>. QED BY <2>1, <2>3, <2>4, <2>5 DEF CGInv, Connecting, sccVars
<1>13. CASE UNCHANGED cgVars
  <2>1. UNCHANGED <<prog, phase, edges, index, indices, lowLinks, stack, frames, sccCount, funcToSCCs,
                    scc, canPanicExternally>>
    BY <1>13 DEF cgVars, sccVars
  <2>2. TypeInv' BY <1>1, <2>1 DEF TypeInv
  <2>3. \A f, g : /\ Reaches(f, g)' <=> Reaches(f, g)
                  /\ Before(f, g)' <=> Before(f, g)
                  /\ Visited(f)' <=> Visited(f)
    BY <2>1 DEF Reaches, ClosedSets, Before, Visited
  <2>4. Active' = Active /\ Placed' = Placed /\ Open' = Open BY <2>1 DEF Active, Placed, Open
  <2>5. Search => Search'
    <3> SUFFICES ASSUME Search PROVE Search' OBVIOUS
    <3>1. Ordered' BY <2>1, <2>3, <2>4 DEF Search, Ordered
    <3>2. Followed' BY <2>1, <2>3, <2>4 DEF Search, Followed
    <3>3. Numbered' BY <2>1, <2>3 DEF Search, Numbered
    <3>4. Joined' BY <2>3, <2>4 DEF Search, Joined
    <3>5. \A f, g : Under(f, g)' <=> Under(f, g) BY <2>3, <2>4 DEF Under
    <3>6. LowLinksRight' BY <2>1, <2>3, <2>4, <3>5 DEF Search, LowLinksRight
    <3>. QED BY <3>1, <3>2, <3>3, <3>4, <3>6 DEF Search
  <2>6. AllNumbered => AllNumbered' BY <2>1, <2>3 DEF AllNumbered, Numbered
  <2>7. PanicsKnown => PanicsKnown' BY <2>1, <2>3 DEF PanicsKnown, CanPanic, MayPanic
  <2>. QED BY <2>1, <2>2, <2>5, <2>6, <2>7 DEF CGInv, Connecting
<1>14. CASE CGNext
  BY <1>3, <1>4, <1>5, <1>6, <1>7, <1>8, <1>9, <1>10, <1>11, <1>12, <1>14 DEF CGNext
<1>. QED BY <1>13, <1>14 DEF Next, BuildFuncCallGraph, EliminateSCC, vars

\* The inductive invariant: the search is on course while it runs, every function has a component
\* after it, and the panics of the components done so far are known.
THEOREM CGInvHolds == Spec => []CGInv
BY InitInv, NextInv, PTL DEF Spec

-----------------------------------------------------------------------------
\* updateSCCs finds the strongly connected components and numbers callees first.
THEOREM SCCsRightHolds == Spec => []SCCsRight
<1>1. CGInv => SCCsRight
  <2> SUFFICES ASSUME CGInv, Connected \/ phase = "counts",
                      NEW f \in Funcs, NEW g \in Funcs
               PROVE  /\ funcToSCCs[f] = funcToSCCs[g] <=> (Reaches(f, g) /\ Reaches(g, f))
                      /\ <<f, g>> \in edges => funcToSCCs[g] <= funcToSCCs[f]
    BY DEF SCCsRight, Reaches
  <2>1. AllNumbered BY ConnectedNumbered DEF CGInv, Connected, Connecting
  <2>2. edges \subseteq Funcs \X Funcs /\ funcToSCCs \in [Funcs -> Nat] BY DEF CGInv, TypeInv
  <2>3. /\ \A a, b \in Funcs : funcToSCCs[a] = funcToSCCs[b] => Reaches(a, b)
        /\ \A a, b \in Funcs : <<a, b>> \in edges => funcToSCCs[b] <= funcToSCCs[a]
    BY <2>1 DEF AllNumbered, Numbered
  <2>4. ASSUME NEW a \in Funcs, NEW b \in Funcs, Reaches(a, b)
        PROVE  funcToSCCs[b] <= funcToSCCs[a]
    <3> DEFINE S == {h \in Funcs : funcToSCCs[h] <= funcToSCCs[a]}
    <3>1. \A h, k \in Funcs : <<h, k>> \in edges /\ h \in S => k \in S BY <2>2, <2>3
    <3>2. a \in S /\ S \in SUBSET Funcs BY <2>2
    <3>. HIDE DEF S
    <3>3. b \in S BY <2>2, <2>4, <3>1, <3>2, ReachStays
    <3>. QED BY <3>3 DEF S
  <2>5. Reaches(f, g) /\ Reaches(g, f) => funcToSCCs[f] = funcToSCCs[g] BY <2>2, <2>4
  <2>. QED BY <2>3, <2>5
<1>. QED BY <1>1, CGInvHolds, PTL

\* When the call graph is done, CanPanic(f) says that f has a panic or reaches a function
\* with one.
THEOREM CanPanicRightHolds == Spec => []CanPanicRight
<1>1. CGInv => CanPanicRight
  <2> SUFFICES ASSUME CGInv, phase = "done", NEW f \in Funcs
               PROVE  CanPanic(f) <=> f \in prog.panics \/ Reachable(edges, f) \cap prog.panics # {}
    BY DEF CanPanicRight
  <2>1. /\ edges \subseteq Funcs \X Funcs /\ prog \in Programs
        /\ funcToSCCs \in [Funcs -> Nat] /\ sccCount \in Nat
    BY DEF CGInv, TypeInv
  <2>2. PanicsKnown /\ scc = sccCount /\ funcToSCCs[f] < sccCount
    BY DEF CGInv, Connecting, AllNumbered, Numbered
  <2>3. CanPanic(f) <=> MayPanic(f) BY <2>2 DEF PanicsKnown
  <2>4. prog.panics \subseteq Funcs BY <2>1, InputFacts
  <2>5. \A g \in prog.panics : Reaches(f, g) <=> f = g \/ g \in Reachable(edges, f)
    BY <2>1, <2>4, ReachableFacts
  <2>. QED BY <2>3, <2>5 DEF MayPanic
<1>. QED BY <1>1, CGInvHolds, PTL

-----------------------------------------------------------------------------
\* Sums over the calls between two components. Some subset is a smallest one of its kind: the
\* induction over finite sets that the sums need.
LEMMA SmallestSubset ==
  ASSUME NEW S, IsFiniteSet(S), NEW B \in SUBSET (SUBSET S), B # {}
  PROVE  \E s \in B : \A t \in B : t \subseteq s => t = s
<1>1. IsWellFoundedOn(StrictSubsetOrdering(S), SUBSET S)
  BY FS_StrictSubsetOrderingWellFounded, FS_FiniteSubsetsOfFinite
<1>2. PICK s \in B : \A t \in B : ~ (<<t, s>> \in StrictSubsetOrdering(S))
  BY <1>1, WFMin
<1>3. \A t \in B : t \subseteq s => t = s
  <2> SUFFICES ASSUME NEW t \in B, t \subseteq s, t # s PROVE FALSE OBVIOUS
  <2>1. <<t, s>> \in (SUBSET S) \X (SUBSET S) OBVIOUS
  <2>. QED BY <1>2, <2>1 DEF StrictSubsetOrdering
<1>. QED BY <1>3

\* The element that FoldSet takes next.
AnyOf(s) == CHOOSE x \in s : TRUE

\* The recursive function by which FoldSet adds up the weights w of the elements of S.
IsSum(S, w, sum) ==
    /\ sum \in [SUBSET S -> Nat]
    /\ \A s \in SUBSET S :
         sum[s] = IF s = {} THEN 0 ELSE sum[s \ {AnyOf(s)}] + w[AnyOf(s)]

\* It exists. Its graph is the smallest relation that holds the sum of the empty set and what
\* adding an element leads to.
LEMMA SumExists ==
  ASSUME NEW S, IsFiniteSet(S), NEW w \in [S -> Nat]
  PROVE  \E sum : IsSum(S, w, sum)
<1> DEFINE Pairs == (SUBSET S) \X Nat
           Closed(R) == /\ <<{}, 0>> \in R
                        /\ \A s \in SUBSET S, n \in Nat :
                             s # {} /\ <<s \ {AnyOf(s)}, n>> \in R => <<s, n + w[AnyOf(s)]>> \in R
           Least == {p \in Pairs : \A R \in SUBSET Pairs : Closed(R) => p \in R}
<1>1. \A s \in SUBSET S : s # {} => AnyOf(s) \in s /\ AnyOf(s) \in S /\ w[AnyOf(s)] \in Nat BY DEF AnyOf
<1>2. Closed(Least)
  <2>1. <<{}, 0>> \in Pairs OBVIOUS
  <2>2. \A s \in SUBSET S, n \in Nat : s # {} => <<s, n + w[AnyOf(s)]>> \in Pairs BY <1>1
  <2>. QED BY <2>1, <2>2
<1>3. Least \in SUBSET Pairs OBVIOUS
<1>4. \A R \in SUBSET Pairs : Closed(R) => Least \subseteq R OBVIOUS
<1>. HIDE DEF Least
<1> DEFINE Sums(s) == {n \in Nat : <<s, n>> \in Least}
           Bad == {s \in SUBSET S : \A n \in Nat : Sums(s) # {n}}
<1>5. Sums({}) = {0}
  <2>1. 0 \in Sums({}) BY <1>2
  <2>2. ASSUME NEW n \in Sums({}), n # 0 PROVE FALSE
    <3>1. Least \ {<<{}, n>>} \in SUBSET Pairs BY <1>3
    <3>2. Closed(Least \ {<<{}, n>>})
      <4>1. <<{}, 0>> \in Least \ {<<{}, n>>} BY <1>2, <2>2
      <4>2. ASSUME NEW s \in SUBSET S, NEW m \in Nat, s # {}, <<s \ {AnyOf(s)}, m>> \in Least
            PROVE  <<s, m + w[AnyOf(s)]>> \in Least \ {<<{}, n>>}
        BY <1>2, <4>2
      <4>. QED BY <4>1, <4>2
    <3>. QED BY <1>4, <2>2, <3>1, <3>2
  <2>. QED BY <2>1, <2>2
<1>6. ASSUME NEW s \in SUBSET S, s # {}, NEW n \in Nat, Sums(s \ {AnyOf(s)}) = {n}
      PROVE  Sums(s) = {n + w[AnyOf(s)]}
  <2>1. n + w[AnyOf(s)] \in Nat BY <1>1, <1>6
  <2>2. n + w[AnyOf(s)] \in Sums(s) BY <1>2, <1>6, <2>1
  <2>3. ASSUME NEW m \in Sums(s), m # n + w[AnyOf(s)] PROVE FALSE
    <3>1. Least \ {<<s, m>>} \in SUBSET Pairs BY <1>3
    <3>2. Closed(Least \ {<<s, m>>})
      <4>1. <<{}, 0>> \in Least \ {<<s, m>>} BY <1>2, <1>6
      <4>2. ASSUME NEW t \in SUBSET S, NEW k \in Nat, t # {}, <<t \ {AnyOf(t)}, k>> \in Least
            PROVE  <<t, k + w[AnyOf(t)]>> \in Least \ {<<s, m>>}
        <5>1. <<t, k + w[AnyOf(t)]>> \in Least BY <1>2, <4>2
        <5>2. CASE t = s
          <6>1. k \in Sums(s \ {AnyOf(s)}) BY <4>2, <5>2
          <6>2. k = n BY <1>6, <6>1
          <6>. QED BY <2>3, <5>1, <5>2, <6>2
        <5>3. CASE t # s BY <5>1, <5>3
        <5>. QED BY <5>2, <5>3
      <4>. QED BY <4>1, <4>2
    <3>. QED BY <1>4, <2>3, <3>1, <3>2
  <2>. QED BY <2>2, <2>3
<1>7. Bad = {}
  <2> SUFFICES ASSUME Bad # {} PROVE FALSE OBVIOUS
  <2>0. Bad \in SUBSET (SUBSET S) OBVIOUS
  <2>1. PICK s \in Bad : \A t \in Bad : t \subseteq s => t = s
    <3>. HIDE DEF Bad
    <3>. QED BY <2>0, SmallestSubset
  <2>2. s # {} /\ s \in SUBSET S BY <1>5
  <2>3. s \ {AnyOf(s)} \in SUBSET S /\ s \ {AnyOf(s)} # s BY <1>1, <2>2
  <2>4. s \ {AnyOf(s)} \notin Bad BY <2>1, <2>3
  <2>5. PICK n \in Nat : Sums(s \ {AnyOf(s)}) = {n}
    <3>. HIDE DEF Sums
    <3>. QED BY <2>3, <2>4
  <2>6. n + w[AnyOf(s)] \in Nat BY <1>1, <2>2
  <2>7. Sums(s) = {n + w[AnyOf(s)]} BY <1>6, <2>2, <2>5
  <2>. QED BY <2>6, <2>7
<1> DEFINE sum == [s \in SUBSET S |-> CHOOSE n \in Nat : Sums(s) = {n}]
<1>8. \A s \in SUBSET S : sum[s] \in Nat /\ Sums(s) = {sum[s]} BY <1>7
<1>9. sum \in [SUBSET S -> Nat] BY <1>8
<1>. HIDE DEF Sums, Bad
<1>10. \A s \in SUBSET S, n \in Nat, m \in Nat : Sums(s) = {n} /\ Sums(s) = {m} => n = m OBVIOUS
<1>11. ASSUME NEW s \in SUBSET S
       PROVE  sum[s] = IF s = {} THEN 0 ELSE sum[s \ {AnyOf(s)}] + w[AnyOf(s)]
  <2>1. CASE s = {} BY <1>5, <1>8, <1>10, <2>1
  <2>2. CASE s # {}
    <3>1. s \ {AnyOf(s)} \in SUBSET S OBVIOUS
    <3>2. Sums(s) = {sum[s \ {AnyOf(s)}] + w[AnyOf(s)]} BY <1>6, <1>8, <2>2, <3>1
    <3>. QED BY <1>8, <1>10, <2>2, <3>2
  <2>. QED BY <2>1, <2>2
<1>12. IsSum(S, w, sum) BY <1>9, <1>11 DEF IsSum
<1>. QED BY <1>12

\* What SumFunctionOnSet adds up, in any order.
LEMMA SumFacts ==
  ASSUME NEW S, IsFiniteSet(S), NEW w \in [S -> Nat]
  PROVE  /\ SumFunction(w) = SumFunctionOnSet(w, S)
         /\ SumFunctionOnSet(w, {}) = 0
         /\ \A s \in SUBSET S :
              /\ SumFunctionOnSet(w, s) \in Nat
              /\ \A x \in s : SumFunctionOnSet(w, s) = SumFunctionOnSet(w, s \ {x}) + w[x]
<1>1. PICK sum : IsSum(S, w, sum) BY SumExists
<1>2. sum \in [SUBSET S -> Nat] /\ sum[{}] = 0 BY <1>1 DEF IsSum
<1>3. \A s \in SUBSET S : s # {} =>
        AnyOf(s) \in s /\ w[AnyOf(s)] \in Nat /\ sum[s] = sum[s \ {AnyOf(s)}] + w[AnyOf(s)]
  BY <1>1 DEF IsSum, AnyOf
<1>4. ASSUME NEW s \in SUBSET S PROVE SumFunctionOnSet(w, s) = sum[s]
  <2> DEFINE F(h) == [t \in SUBSET s |-> IF t = {} THEN 0 ELSE w[AnyOf(t)] + h[t \ {AnyOf(t)}]]
             iter == CHOOSE h : h = F(h)
             g == [t \in SUBSET s |-> sum[t]]
  <2>1. SumFunctionOnSet(w, s) = iter[s]
    BY DEF SumFunctionOnSet, FoldFunctionOnSet, MapThenFoldSet, AnyOf
  <2>2. g = F(g)
    <3> SUFFICES ASSUME NEW t \in SUBSET s
                 PROVE  sum[t] = IF t = {} THEN 0 ELSE w[AnyOf(t)] + g[t \ {AnyOf(t)}]
      OBVIOUS
    <3>1. CASE t = {} BY <1>2, <3>1
    <3>2. CASE t # {}
      <4>1. g[t \ {AnyOf(t)}] = sum[t \ {AnyOf(t)}] OBVIOUS
      <4>2. sum[t \ {AnyOf(t)}] \in Nat BY <1>2
      <4>3. w[AnyOf(t)] \in Nat /\ sum[t] = sum[t \ {AnyOf(t)}] + w[AnyOf(t)] BY <1>3, <3>2
      <4>4. \A m, n \in Nat : m + n = n + m OBVIOUS
      <4>5. sum[t] = w[AnyOf(t)] + sum[t \ {AnyOf(t)}] BY <4>2, <4>3, <4>4
      <4>. QED BY <3>2, <4>1, <4>5
    <3>. QED BY <3>1, <3>2
  <2>3. iter = F(iter) BY <2>2
  <2>. HIDE DEF iter
  <2>4. \A t \in SUBSET s : iter[t] = IF t = {} THEN 0 ELSE w[AnyOf(t)] + iter[t \ {AnyOf(t)}]
    BY <2>3
  <2>. HIDE DEF F, g
  <2> DEFINE Bad == {t \in SUBSET s : iter[t] # sum[t]}
  <2>5. Bad = {}
    <3> SUFFICES ASSUME Bad # {} PROVE FALSE OBVIOUS
    <3>1. Bad \in SUBSET (SUBSET S) OBVIOUS
    <3>2. PICK t \in Bad : \A u \in Bad : u \subseteq t => u = t
      <4>. HIDE DEF Bad
      <4>. QED BY <3>1, SmallestSubset
    <3>3. t # {} BY <1>2, <2>4
    <3>4. t \ {AnyOf(t)} \notin Bad BY <1>3, <3>2, <3>3
    <3>5. iter[t \ {AnyOf(t)}] = sum[t \ {AnyOf(t)}] /\ sum[t \ {AnyOf(t)}] \in Nat BY <1>2, <3>4
    <3>. QED BY <1>3, <2>4, <3>3, <3>5
  <2>. QED BY <2>1, <2>5
<1> DEFINE Bad == {s \in SUBSET S : \E x \in s : sum[s] # sum[s \ {x}] + w[x]}
<1>5. Bad = {}
  <2> SUFFICES ASSUME Bad # {} PROVE FALSE OBVIOUS
  <2>1. Bad \in SUBSET (SUBSET S) OBVIOUS
  <2>2. PICK s \in Bad : \A t \in Bad : t \subseteq s => t = s
    <3>. HIDE DEF Bad
    <3>. QED BY <2>1, SmallestSubset
  <2>3. PICK x \in s : sum[s] # sum[s \ {x}] + w[x] OBVIOUS
  <2> DEFINE a == AnyOf(s)
  <2>4. a \in s /\ w[a] \in Nat /\ w[x] \in Nat /\ sum[s] = sum[s \ {a}] + w[a] BY <1>3, <2>3
  <2>. HIDE DEF a
  <2>5. x # a BY <2>3, <2>4
  <2>6. s \ {a} \notin Bad /\ s \ {x} \notin Bad BY <2>2, <2>3, <2>4
  <2>7. sum[s \ {a}] = sum[(s \ {a}) \ {x}] + w[x] BY <2>3, <2>5, <2>6
  <2>8. sum[s \ {x}] = sum[(s \ {x}) \ {a}] + w[a] BY <2>4, <2>5, <2>6
  <2>9. (s \ {x}) \ {a} = (s \ {a}) \ {x} /\ sum[(s \ {a}) \ {x}] \in Nat BY <1>2
  <2>10. \A m, b, c \in Nat : (m + b) + c = (m + c) + b OBVIOUS
  <2>11. sum[s] = (sum[(s \ {a}) \ {x}] + w[x]) + w[a] BY <2>4, <2>7
  <2>12. sum[s] = (sum[(s \ {a}) \ {x}] + w[a]) + w[x] BY <2>4, <2>9, <2>10, <2>11
  <2>. QED BY <2>3, <2>8, <2>9, <2>12
<1>6. SumFunction(w) = SumFunctionOnSet(w, S) BY DEF SumFunction, SumFunctionOnSet
<1>. HIDE DEF Bad
<1>7. ASSUME NEW s \in SUBSET S
      PROVE  /\ SumFunctionOnSet(w, s) \in Nat
             /\ \A x \in s : SumFunctionOnSet(w, s) = SumFunctionOnSet(w, s \ {x}) + w[x]
  <2>1. SumFunctionOnSet(w, s) \in Nat BY <1>2, <1>4
  <2>2. \A x \in s : sum[s] = sum[s \ {x}] + w[x] BY <1>5 DEF Bad
  <2>. QED BY <1>4, <2>1, <2>2
<1>8. SumFunctionOnSet(w, {}) = 0 BY <1>2, <1>4
<1>. QED BY <1>6, <1>7, <1>8

\* Two sums over one set are in any relation that adding their terms preserves.
LEMMA SumsRelated ==
  ASSUME NEW S, IsFiniteSet(S), NEW v \in [S -> Nat], NEW T, IsFiniteSet(T), NEW w \in [T -> Nat],
         NEW s \in SUBSET S, s \subseteq T,
         NEW R \in SUBSET (Nat \X Nat), <<0, 0>> \in R,
         \A m, n \in Nat, x \in s : <<m, n>> \in R => <<m + v[x], n + w[x]>> \in R
  PROVE  <<SumFunctionOnSet(v, s), SumFunctionOnSet(w, s)>> \in R
<1> DEFINE V(t) == SumFunctionOnSet(v, t)
           W(t) == SumFunctionOnSet(w, t)
           Bad == {t \in SUBSET s : <<V(t), W(t)>> \notin R}
<1>1. V({}) = 0 /\ \A t \in SUBSET s : V(t) \in Nat /\ \A x \in t : V(t) = V(t \ {x}) + v[x]
  BY SumFacts
<1>2. W({}) = 0 /\ \A t \in SUBSET s : W(t) \in Nat /\ \A x \in t : W(t) = W(t \ {x}) + w[x]
  BY SumFacts
<1>. HIDE DEF V, W
<1>3. Bad = {}
  <2> SUFFICES ASSUME Bad # {} PROVE FALSE OBVIOUS
  <2>1. Bad \in SUBSET (SUBSET S) OBVIOUS
  <2>2. PICK t \in Bad : \A u \in Bad : u \subseteq t => u = t
    <3>. HIDE DEF Bad
    <3>. QED BY <2>1, SmallestSubset
  <2>3. t # {} BY <1>1, <1>2
  <2>4. PICK x \in t : TRUE BY <2>3
  <2>5. t \ {x} \notin Bad BY <2>2, <2>4
  <2>6. <<V(t \ {x}), W(t \ {x})>> \in R /\ V(t \ {x}) \in Nat /\ W(t \ {x}) \in Nat
    BY <1>1, <1>2, <2>5
  <2>7. <<V(t \ {x}) + v[x], W(t \ {x}) + w[x]>> \in R BY <2>4, <2>6
  <2>. QED BY <1>1, <1>2, <2>4, <2>7
<1>. QED BY <1>3 DEF V, W

LEMMA SumOfUnion ==
  ASSUME NEW S, IsFiniteSet(S), NEW w \in [S -> Nat],
         NEW s \in SUBSET S, NEW t \in SUBSET S, s \cap t = {}
  PROVE  SumFunctionOnSet(w, s \cup t) = SumFunctionOnSet(w, s) + SumFunctionOnSet(w, t)
<1> DEFINE W(u) == SumFunctionOnSet(w, u)
           Bad == {u \in SUBSET t : W(s \cup u) # W(s) + W(u)}
<1>1. /\ W({}) = 0
      /\ \A u \in SUBSET S : W(u) \in Nat /\ \A x \in u : W(u) = W(u \ {x}) + w[x] /\ w[x] \in Nat
  BY SumFacts
<1>. HIDE DEF W
<1>2. Bad = {}
  <2> SUFFICES ASSUME Bad # {} PROVE FALSE OBVIOUS
  <2>1. Bad \in SUBSET (SUBSET S) OBVIOUS
  <2>2. PICK u \in Bad : \A r \in Bad : r \subseteq u => r = u
    <3>. HIDE DEF Bad
    <3>. QED BY <2>1, SmallestSubset
  <2>3. u # {}
    <3> SUFFICES ASSUME u = {} PROVE FALSE OBVIOUS
    <3>1. s \cup u = s OBVIOUS
    <3>2. W(s) \in Nat /\ W(u) = 0 BY <1>1
    <3>3. W(s \cup u) = W(s) + W(u) BY <3>1, <3>2
    <3>. QED BY <3>3
  <2>4. PICK x \in u : TRUE BY <2>3
  <2>5. u \ {x} \notin Bad BY <2>2, <2>4
  <2>6. W(s \cup (u \ {x})) = W(s) + W(u \ {x}) BY <2>5
  <2>7. (s \cup u) \ {x} = s \cup (u \ {x}) BY <2>4
  <2>8. W(s \cup u) = W((s \cup u) \ {x}) + w[x] /\ W(u) = W(u \ {x}) + w[x] /\ w[x] \in Nat
    BY <1>1, <2>4
  <2>9. W(s) \in Nat /\ W(u \ {x}) \in Nat BY <1>1
  <2>10. \A a, b, c \in Nat : (a + b) + c = a + (b + c) OBVIOUS
  <2>11. W(s \cup u) = (W(s) + W(u \ {x})) + w[x] BY <2>6, <2>7, <2>8
  <2>12. W(s \cup u) = W(s) + W(u) BY <2>8, <2>9, <2>10, <2>11
  <2>. QED BY <2>12
<1>. QED BY <1>2 DEF W

\* The sum over pairs with one second element.
LEMMA SumOfPairs ==
  ASSUME NEW S, IsFiniteSet(S), NEW v \in [S -> Nat],
         NEW y, NEW P, P = S \X {y}, NEW w \in [P -> Nat],
         \A x \in S : w[<<x, y>>] = v[x]
  PROVE  SumFunction(w) = SumFunction(v)
<1> DEFINE V(s) == SumFunctionOnSet(v, s)
           W(s) == SumFunctionOnSet(w, s)
           Bad == {s \in SUBSET S : V(s) # W(s \X {y})}
<1>1. /\ SumFunction(v) = V(S) /\ V({}) = 0
      /\ \A s \in SUBSET S : V(s) \in Nat /\ \A x \in s : V(s) = V(s \ {x}) + v[x]
  BY SumFacts
<1>2. IsFiniteSet(P) BY FS_Singleton, FS_Product
<1>3. /\ SumFunction(w) = W(P) /\ W({}) = 0
      /\ \A p \in SUBSET P : W(p) \in Nat /\ \A e \in p : W(p) = W(p \ {e}) + w[e]
  BY <1>2, SumFacts
<1>. HIDE DEF V, W
<1>4. Bad = {}
  <2> SUFFICES ASSUME Bad # {} PROVE FALSE OBVIOUS
  <2>1. Bad \in SUBSET (SUBSET S) OBVIOUS
  <2>2. PICK s \in Bad : \A t \in Bad : t \subseteq s => t = s
    <3>. HIDE DEF Bad
    <3>. QED BY <2>1, SmallestSubset
  <2>3. s # {}
    <3>1. {} \X {y} = {} OBVIOUS
    <3>. QED BY <1>1, <1>3, <3>1
  <2>4. PICK x \in s : TRUE BY <2>3
  <2>5. s \ {x} \notin Bad BY <2>2, <2>4
  <2>6. V(s \ {x}) = W((s \ {x}) \X {y}) BY <2>5
  <2>7. (s \X {y}) \ {<<x, y>>} = (s \ {x}) \X {y} OBVIOUS
  <2>8. <<x, y>> \in s \X {y} /\ s \X {y} \in SUBSET P BY <2>4
  <2>9. W(s \X {y}) = W((s \X {y}) \ {<<x, y>>}) + w[<<x, y>>] BY <1>3, <2>8
  <2>10. V(s) = V(s \ {x}) + v[x] BY <1>1, <2>4
  <2>. QED BY <2>4, <2>6, <2>7, <2>9, <2>10
<1>. QED BY <1>1, <1>3, <1>4

\* The numbers of calls, and the calls they count.
LEMMA CalleeCountFacts ==
  ASSUME NEW pr \in Programs
  PROVE  /\ \A f, g : CalleeCounts(pr, f, g) \in Nat
         /\ \A f, g : CalleeCounts(pr, f, g) > 0 => <<f, g>> \in CallsOf(pr)
<1>1. /\ pr.static \in [DOMAIN pr.static -> Nat] /\ pr.dynamic \in [DOMAIN pr.dynamic -> Nat]
      /\ pr.values \subseteq Funcs
  BY ProgramsAssumption
<1>2. ASSUME NEW f, NEW g PROVE CalleeCounts(pr, f, g) \in Nat
  <2>1. <<f, g>> \in DOMAIN pr.static => pr.static[<<f, g>>] \in Nat BY <1>1
  <2>2. f \in DOMAIN pr.dynamic => pr.dynamic[f] \in Nat BY <1>1
  <2>. QED BY <2>1, <2>2 DEF CalleeCounts
<1>3. ASSUME NEW f, NEW g, CalleeCounts(pr, f, g) > 0 PROVE <<f, g>> \in CallsOf(pr)
  <2>1. <<f, g>> \in DOMAIN pr.static \/ (f \in DOMAIN pr.dynamic /\ g \in pr.values)
    BY <1>3 DEF CalleeCounts
  <2>. QED BY <2>1 DEF CallsOf
<1>. QED BY <1>2, <1>3

LEMMA FuncsFinite == IsFiniteSet(Funcs) /\ Cardinality(Funcs) = FuncCount
<1>1. 0 \in Int /\ FuncCount - 1 \in Int /\ FuncCount \in Nat \ {0} BY FuncCountAssumption
<1>2. IsFiniteSet(0 .. FuncCount - 1) /\ Cardinality(0 .. FuncCount - 1) = FuncCount
  BY <1>1, FS_Interval
<1>. QED BY <1>2 DEF Funcs

\* The sum of calls is a number, and no call is lost in it.
LEMMA CallsBetweenFacts ==
  ASSUME prog \in Programs, NEW i, NEW j, NEW count \in Nat
  PROVE  /\ CallsBetween(i, j, count) \in Nat
         /\ \A f \in FuncsInSCC(i), g \in FuncsInSCC(j) :
              count > 0 /\ CalleeCounts(prog, f, g) > 0 => CallsBetween(i, j, count) > 0
<1> DEFINE S == FuncsInSCC(i) \X FuncsInSCC(j)
           v == [e \in S |-> CalleeCounts(prog, e[1], e[2]) * count]
<1>1. CallsBetween(i, j, count) = SumFunction(v) BY DEF CallsBetween
<1>2. IsFiniteSet(S)
  <2>1. FuncsInSCC(i) \subseteq Funcs /\ FuncsInSCC(j) \subseteq Funcs BY DEF FuncsInSCC
  <2>2. IsFiniteSet(FuncsInSCC(i)) /\ IsFiniteSet(FuncsInSCC(j)) BY <2>1, FuncsFinite, FS_Subset
  <2>. QED BY <2>2, FS_Product
<1>3. v \in [S -> Nat]
  <2> SUFFICES ASSUME NEW e \in S PROVE CalleeCounts(prog, e[1], e[2]) * count \in Nat OBVIOUS
  <2>1. CalleeCounts(prog, e[1], e[2]) \in Nat BY CalleeCountFacts
  <2>. QED BY <2>1
<1>4. ASSUME NEW f \in FuncsInSCC(i), NEW g \in FuncsInSCC(j), count > 0, CalleeCounts(prog, f, g) > 0
      PROVE  <<f, g>> \in S /\ v[<<f, g>>] > 0
  <2>1. CalleeCounts(prog, f, g) \in Nat BY CalleeCountFacts
  <2>2. \A a, b \in Nat : a > 0 /\ b > 0 => a * b > 0 OBVIOUS
  <2>3. CalleeCounts(prog, f, g) * count > 0 BY <1>4, <2>1, <2>2
  <2>4. v[<<f, g>>] = CalleeCounts(prog, f, g) * count OBVIOUS
  <2>. QED BY <2>3, <2>4
<1>. HIDE DEF S, v
<1>5. /\ SumFunction(v) = SumFunctionOnSet(v, S) /\ SumFunctionOnSet(v, S) \in Nat
      /\ \A e \in S : /\ SumFunctionOnSet(v, S) = SumFunctionOnSet(v, S \ {e}) + v[e]
                       /\ SumFunctionOnSet(v, S \ {e}) \in Nat
  BY <1>2, <1>3, SumFacts
<1>6. ASSUME NEW e \in S, v[e] > 0 PROVE SumFunction(v) > 0
  <2>1. v[e] \in Nat BY <1>3
  <2>2. SumFunction(v) = SumFunctionOnSet(v, S \ {e}) + v[e] /\ SumFunctionOnSet(v, S \ {e}) \in Nat
    BY <1>5
  <2>. QED BY <1>6, <2>1, <2>2
<1>. QED BY <1>1, <1>4, <1>5, <1>6

-----------------------------------------------------------------------------
\* The counting. Component numbers have no gap.
Filled == \A i \in 1 .. sccCount - 1 : \E f \in Funcs : funcToSCCs[f] = i

Calls(f, g) == CalleeCounts(prog, f, g) > 0

\* The count of f, once known, or that of its component so far is not zero.
TakenAsCalled(f) == IF funcToSCCs[f] > scc THEN isCalleeCounts[f] > 0
                    ELSE sccCallCounts[funcToSCCs[f]] > 0

\* Components down to scc + 1 are counted, and none of the functions they call is left out.
Counting ==
    /\ scc \in 0 .. sccCount - 1
    /\ \A f \in Funcs : ~(funcToSCCs[f] > scc) => isCalleeCounts[f] = 0
    /\ TakenAsCalled(InitFunc)
    /\ \A f, g \in Funcs :
         funcToSCCs[f] > scc /\ isCalleeCounts[f] > 0 /\ Calls(f, g) => TakenAsCalled(g)

AllCounted ==
    /\ isCalleeCounts[InitFunc] > 0
    /\ \A f, g \in Funcs : isCalleeCounts[f] > 0 /\ Calls(f, g) => isCalleeCounts[g] > 0

\* What removing the calls of closures leaves.
Kept ==
    /\ edges \subseteq CallsOf(prog) /\ callees \subseteq prog.values
    /\ \A f \in Live(prog) : /\ \A e \in CallsOf(prog) \ edges : e[2] # f
                             /\ f \in prog.values => f \in callees
    /\ ClosuresOfLive => edges = CallsOf(prog) /\ callees = prog.values

CountInv ==
    /\ Filled
    /\ sccCallCounts \in [0 .. FuncCount -> Nat]
    /\ isCalleeCounts \in [Funcs -> Nat]
    /\ phase \in {"scc", "counts", "closures"} => edges = CallsOf(prog) /\ callees = prog.values
    /\ phase = "scc" => \A f \in Funcs : isCalleeCounts[f] = 0
    /\ phase = "counts" => Counting
    /\ phase = "closures" => AllCounted
    /\ phase \in {"rescc", "panics", "done"} => Kept

\* The elimination. Nothing changes before the call graph is done; then an empty function is in
\* a component before the current one and has nothing left in its body, and a call is only gone
\* when all its callees are empty and in components before that of the caller.
EmptyBelow(g, f) == g \in emptyFuncs /\ funcToSCCs[g] < funcToSCCs[f]

DeadInv ==
    /\ component \in Nat
    /\ keptStatic \subseteq DOMAIN prog.static /\ keptDynamic \subseteq DOMAIN prog.dynamic
    /\ emptyFuncs \subseteq Funcs
    /\ phase # "done" => /\ keptStatic = DOMAIN prog.static /\ keptDynamic = DOMAIN prog.dynamic
                         /\ emptyFuncs = {}
    /\ \A f \in emptyFuncs : /\ funcToSCCs[f] < component
                             /\ f \notin prog.busy /\ f \notin keptDynamic
                             /\ \A e \in keptStatic : e[1] # f
    /\ \A e \in (DOMAIN prog.static) \ keptStatic : EmptyBelow(e[2], e[1])
    /\ \A f \in (DOMAIN prog.dynamic) \ keptDynamic : \A g \in callees : EmptyBelow(g, f)

-----------------------------------------------------------------------------
\* Numbers of components are indices of sccCallCounts.
LEMMA FewSCCs ==
  ASSUME TypeInv, AllNumbered, Filled
  PROVE  /\ sccCount - 1 \in 0 .. FuncCount
         /\ \A f \in Funcs : funcToSCCs[f] \in 1 .. sccCount - 1 /\ funcToSCCs[f] \in 0 .. FuncCount
<1>1. funcToSCCs \in [Funcs -> Nat] /\ sccCount \in Nat \ {0} BY DEF TypeInv
<1>2. IsFiniteSet(Funcs) /\ Cardinality(Funcs) = FuncCount BY FuncsFinite
<1> DEFINE Used == {funcToSCCs[f] : f \in Funcs}
<1>3. IsFiniteSet(Used) /\ Cardinality(Used) <= Cardinality(Funcs)
  <2>1. funcToSCCs \in Surjection(Funcs, Used) BY <1>1 DEF Surjection
  <2>. HIDE DEF Used
  <2>. QED BY <1>2, <2>1, FS_Surjection
<1>4. 1 .. sccCount - 1 \subseteq Used BY DEF Filled
<1>. HIDE DEF Used
<1>5. IsFiniteSet(1 .. sccCount - 1) /\ Cardinality(1 .. sccCount - 1) <= Cardinality(Used)
  BY <1>3, <1>4, FS_Subset
<1>6. Cardinality(1 .. sccCount - 1) = IF 1 > sccCount - 1 THEN 0 ELSE sccCount - 1 - 1 + 1
  BY <1>1, FS_Interval
<1>7. FuncCount \in Nat /\ Cardinality(Used) \in Nat BY <1>3, FS_CardinalityType, FuncCountAssumption
<1>8. sccCount - 1 \in 0 .. FuncCount BY <1>1, <1>2, <1>3, <1>5, <1>6, <1>7
<1>9. \A f \in Funcs : funcToSCCs[f] # 0 /\ funcToSCCs[f] < sccCount BY DEF AllNumbered, Numbered
<1>. QED BY <1>1, <1>7, <1>8, <1>9

\* Numbering a component leaves no gap.
LEMMA LeaveFills ==
  ASSUME TypeInv, Search, Filled, frames # <<>>, Leave
  PROVE  Filled'
<1> DEFINE v == Last(frames).func
           at == CHOOSE i \in DOMAIN stack : stack[i] = v
           popped == {stack[i] : i \in at .. Len(stack)}
<1>1. CASE lowLinks[v] # indices[v]
  <2>1. UNCHANGED <<funcToSCCs, sccCount>> BY <1>1 DEF Leave
  <2>. QED BY <2>1 DEF Filled
<1>2. CASE lowLinks[v] = indices[v]
  <2>1. /\ funcToSCCs' = [f \in Funcs |-> IF f \in popped THEN sccCount ELSE funcToSCCs[f]]
        /\ sccCount' = sccCount + 1
    BY <1>2 DEF Leave
  <2>2. v \in Active BY LeaveFacts
  <2>3. /\ Active \subseteq Placed /\ Placed \subseteq Funcs
        /\ \A f \in Placed : funcToSCCs[f] = 0
    BY SearchFacts
  <2>4. stack \in Seq(Funcs) /\ sccCount \in Nat \ {0} BY DEF TypeInv
  <2>5. at \in 1 .. Len(stack) /\ stack[at] = v
    <3>1. \E i \in DOMAIN stack : stack[i] = v
      <4>1. DOMAIN stack = 1 .. Len(stack) BY <2>4
      <4>2. v \in Elements(stack) BY <2>2, <2>3 DEF Placed
      <4>. QED BY <4>1, <4>2 DEF Elements
    <3>2. at \in DOMAIN stack /\ stack[at] = v BY <3>1
    <3>. QED BY <2>4, <3>2
  <2>. HIDE DEF v, at
  <2>6. v \in popped /\ popped \subseteq Placed BY <2>4, <2>5 DEF Placed, Elements
  <2>. HIDE DEF popped
  <2>7. ASSUME NEW i \in 1 .. sccCount PROVE \E f \in Funcs : funcToSCCs'[f] = i
    <3>1. CASE i = sccCount BY <2>1, <2>2, <2>3, <2>6, <3>1
    <3>2. CASE i # sccCount
      <4>1. i \in 1 .. sccCount - 1 BY <2>4, <3>2
      <4>2. PICK f \in Funcs : funcToSCCs[f] = i BY <4>1 DEF Filled
      <4>3. f \notin popped BY <2>3, <2>6, <4>1, <4>2
      <4>. QED BY <2>1, <4>2, <4>3
    <3>. QED BY <3>1, <3>2
  <2>8. sccCount' - 1 = sccCount BY <2>1, <2>4
  <2>. QED BY <2>7, <2>8 DEF Filled
<1>. QED BY <1>1, <1>2

\* What may run: the init function, and what something that may run calls. No set with this
\* property is smaller.
LEMMA LiveFacts ==
  ASSUME NEW pr
  PROVE  /\ InitFunc \in Live(pr) /\ Live(pr) \subseteq Funcs
         /\ \A S \in SUBSET Funcs :
              /\ InitFunc \in S
              /\ \A f \in S, g \in Funcs :
                   CalleeCounts(pr, f, g) > 0 /\ pr.enclosing[g] \in S \cup {None} => g \in S
              => Live(pr) \subseteq S
<1>1. InitFunc \in Funcs BY FuncCountAssumption DEF Funcs, InitFunc
<1>. QED BY <1>1 DEF Live

\* The recursion of RemovedClosures is well defined, functions being after the one they are
\* defined in: the smallest set with its property.
LEMMA RemovedClosuresFacts ==
  ASSUME TypeInv
  PROVE  /\ RemovedClosures \subseteq Funcs
         /\ \A f \in Funcs :
              f \in RemovedClosures <=>
                /\ prog.enclosing[f] # None
                /\ isCalleeCounts[prog.enclosing[f]] = 0 \/ prog.enclosing[f] \in RemovedClosures
<1> DEFINE E(f) == prog.enclosing[f]
           F(h) == [f \in Funcs |-> /\ E(f) # None
                                    /\ isCalleeCounts[E(f)] = 0 \/ h[E(f)]]
           removed == CHOOSE h : h = F(h)
           Closed(S) == \A f \in Funcs : E(f) # None /\ (isCalleeCounts[E(f)] = 0 \/ E(f) \in S) => f \in S
           Least == {f \in Funcs : \A S \in SUBSET Funcs : Closed(S) => f \in S}
           g == [f \in Funcs |-> f \in Least]
<1>1. RemovedClosures = {f \in Funcs : removed[f]} BY DEF RemovedClosures
<1>2. \A f \in Funcs : E(f) # None => E(f) \in Funcs
  BY ProgramsAssumption DEF TypeInv
<1>3. Closed(Least) OBVIOUS
<1>4. \A S \in SUBSET Funcs : Closed(S) => Least \subseteq S OBVIOUS
<1>5. Least \in SUBSET Funcs OBVIOUS
<1>. HIDE DEF Least
<1>6. \A f \in Least : E(f) # None /\ (isCalleeCounts[E(f)] = 0 \/ E(f) \in Least)
  <2> SUFFICES ASSUME NEW f \in Least, ~(E(f) # None /\ (isCalleeCounts[E(f)] = 0 \/ E(f) \in Least))
               PROVE  FALSE
    OBVIOUS
  <2>. HIDE DEF E
  <2>1. Closed(Least \ {f}) BY <1>3
  <2>2. Least \ {f} \in SUBSET Funcs BY <1>5
  <2>. QED BY <1>4, <2>1, <2>2
<1>7. g = F(g)
  <2>1. ASSUME NEW f \in Funcs
        PROVE  (f \in Least) = (E(f) # None /\ (isCalleeCounts[E(f)] = 0 \/ g[E(f)]))
    <3>1. E(f) # None => (g[E(f)] <=> E(f) \in Least) BY <1>2
    <3>. HIDE DEF g, E
    <3>2. f \in Least <=> E(f) # None /\ (isCalleeCounts[E(f)] = 0 \/ E(f) \in Least) BY <1>3, <1>6
    <3>. QED BY <3>1, <3>2
  <2>. QED BY <2>1
<1>8. removed = F(removed) BY <1>7
<1>. HIDE DEF removed
<1>9. \A f \in Funcs : removed[f] <=> E(f) # None /\ (isCalleeCounts[E(f)] = 0 \/ removed[E(f)])
  BY <1>8
<1>. QED BY <1>1, <1>2, <1>9

\* The count of a component reaches every function it calls.
LEMMA CountSCCKeeps ==
  ASSUME TypeInv, AllNumbered, CountInv, CountSCC
  PROVE  CountInv'
<1> DEFINE C == FuncsInSCC(scc)
           count == IF HasCallCycle(scc) THEN MaxCallCounts ELSE sccCallCounts[scc]
<1>1. /\ phase = "counts" /\ scc > 0 /\ scc' = scc - 1
      /\ sccCallCounts' = [i \in DOMAIN sccCallCounts |->
                             IF i = scc THEN count
                             ELSE Capped(sccCallCounts[i] + CallsBetween(scc, i, count))]
      /\ isCalleeCounts' = [f \in Funcs |-> IF f \in C THEN Capped(isCalleeCounts[f] + count)
                                            ELSE isCalleeCounts[f]]
      /\ UNCHANGED <<prog, phase, edges, callees, sccCount, funcToSCCs>>
  BY DEF CountSCC, sccVars
<1>2. /\ Filled /\ sccCallCounts \in [0 .. FuncCount -> Nat] /\ isCalleeCounts \in [Funcs -> Nat]
      /\ edges = CallsOf(prog) /\ callees = prog.values
      /\ Counting
  BY <1>1 DEF CountInv
<1>3. /\ prog \in Programs /\ funcToSCCs \in [Funcs -> Nat] /\ sccCount \in Nat \ {0}
      /\ FuncCount \in Nat \ {0} /\ MaxCallCounts \in Nat \ {0} /\ InitFunc \in Funcs
  BY FuncCountAssumption, MaxCallCountsAssumption DEF TypeInv, Funcs, InitFunc
<1>4. /\ sccCount - 1 \in 0 .. FuncCount
      /\ \A f \in Funcs : funcToSCCs[f] \in 1 .. sccCount - 1 /\ funcToSCCs[f] \in 0 .. FuncCount
  BY <1>2, FewSCCs
<1>5. scc \in 1 .. sccCount - 1 /\ scc \in 0 .. FuncCount BY <1>1, <1>2, <1>3, <1>4 DEF Counting
<1>6. /\ \A f \in Funcs : ~(funcToSCCs[f] > scc) => isCalleeCounts[f] = 0
      /\ TakenAsCalled(InitFunc)
      /\ \A f, g \in Funcs :
           funcToSCCs[f] > scc /\ isCalleeCounts[f] > 0 /\ Calls(f, g) => TakenAsCalled(g)
  BY <1>2 DEF Counting
<1>7. count \in Nat /\ (sccCallCounts[scc] > 0 => count > 0) BY <1>2, <1>3, <1>5
<1>8. \A f \in Funcs : f \in C <=> funcToSCCs[f] = scc BY DEF FuncsInSCC
<1>. HIDE DEF C, count
<1>9. \A n \in Nat : Capped(n) \in Nat /\ (n > 0 => Capped(n) > 0) BY <1>3 DEF Capped
<1>10. \A i \in 0 .. FuncCount : CallsBetween(scc, i, count) \in Nat BY <1>3, <1>7, CallsBetweenFacts
<1>11. /\ sccCallCounts' \in [0 .. FuncCount -> Nat] /\ sccCallCounts'[scc] = count
       /\ \A i \in 0 .. FuncCount : i # scc =>
            sccCallCounts'[i] = Capped(sccCallCounts[i] + CallsBetween(scc, i, count))
  <2>1. DOMAIN sccCallCounts = 0 .. FuncCount BY <1>2
  <2>2. \A i \in 0 .. FuncCount : sccCallCounts[i] + CallsBetween(scc, i, count) \in Nat BY <1>2, <1>10
  <2>3. \A i \in 0 .. FuncCount : Capped(sccCallCounts[i] + CallsBetween(scc, i, count)) \in Nat
    BY <1>9, <2>2
  <2>. QED BY <1>1, <1>5, <1>7, <2>1, <2>3
<1>12. \A i \in 0 .. FuncCount : i # scc /\ (sccCallCounts[i] > 0 \/ CallsBetween(scc, i, count) > 0) =>
         sccCallCounts'[i] > 0
  <2> SUFFICES ASSUME NEW i \in 0 .. FuncCount, i # scc,
                      sccCallCounts[i] > 0 \/ CallsBetween(scc, i, count) > 0
               PROVE  sccCallCounts'[i] > 0
    OBVIOUS
  <2>1. sccCallCounts[i] \in Nat /\ CallsBetween(scc, i, count) \in Nat BY <1>2, <1>10
  <2>2. sccCallCounts[i] + CallsBetween(scc, i, count) \in Nat
        /\ sccCallCounts[i] + CallsBetween(scc, i, count) > 0
    BY <2>1
  <2>. QED BY <1>9, <1>11, <2>2
<1>13. /\ isCalleeCounts' \in [Funcs -> Nat]
       /\ \A f \in Funcs : f \notin C => isCalleeCounts'[f] = isCalleeCounts[f]
       /\ \A f \in C : isCalleeCounts'[f] > 0 <=> count > 0
  <2>1. \A f \in Funcs : f \in C => isCalleeCounts[f] = 0 BY <1>3, <1>5, <1>6, <1>8
  <2>2. C \subseteq Funcs BY DEF FuncsInSCC, C
  <2>3. Capped(0 + count) \in Nat /\ (Capped(0 + count) > 0 <=> count > 0)
    BY <1>3, <1>7 DEF Capped
  <2>4. \A f \in C : isCalleeCounts'[f] = Capped(0 + count) BY <1>1, <2>1, <2>2
  <2>5. isCalleeCounts' = [f \in Funcs |-> IF f \in C THEN Capped(0 + count) ELSE isCalleeCounts[f]]
    BY <1>1, <2>1
  <2>6. isCalleeCounts' \in [Funcs -> Nat] BY <1>2, <2>3, <2>5
  <2>. QED BY <1>1, <2>2, <2>3, <2>4, <2>6
<1>14. ASSUME NEW g \in Funcs, TakenAsCalled(g) PROVE TakenAsCalled(g)'
  <2>1. CASE funcToSCCs[g] > scc
    <3>1. isCalleeCounts[g] > 0 /\ g \notin C BY <1>3, <1>5, <1>8, <1>14, <2>1 DEF TakenAsCalled
    <3>2. funcToSCCs'[g] > scc' BY <1>1, <1>3, <1>5, <2>1
    <3>. QED BY <1>13, <3>1, <3>2 DEF TakenAsCalled
  <2>2. CASE funcToSCCs[g] = scc
    <3>1. sccCallCounts[scc] > 0 BY <1>3, <1>5, <1>14, <2>2 DEF TakenAsCalled
    <3>2. isCalleeCounts'[g] > 0 BY <1>7, <1>8, <1>13, <2>2, <3>1
    <3>3. funcToSCCs'[g] > scc' BY <1>1, <1>3, <1>5, <2>2
    <3>. QED BY <3>2, <3>3 DEF TakenAsCalled
  <2>3. CASE funcToSCCs[g] < scc
    <3>1. sccCallCounts[funcToSCCs[g]] > 0 BY <1>3, <1>5, <1>14, <2>3 DEF TakenAsCalled
    <3>2. funcToSCCs[g] # scc BY <1>3, <1>5, <2>3
    <3>3. sccCallCounts'[funcToSCCs[g]] > 0 BY <1>4, <1>12, <3>1, <3>2
    <3>4. ~(funcToSCCs'[g] > scc') BY <1>1, <1>3, <1>5, <2>3
    <3>. QED BY <1>1, <3>3, <3>4 DEF TakenAsCalled
  <2>. QED BY <1>3, <1>5, <2>1, <2>2, <2>3
<1>15. ASSUME NEW f \in Funcs, NEW g \in Funcs, funcToSCCs[f] > scc - 1, isCalleeCounts'[f] > 0,
              Calls(f, g)
       PROVE  TakenAsCalled(g)'
  <2>1. CASE funcToSCCs[f] > scc
    <3>1. f \notin C BY <1>3, <1>5, <1>8, <2>1
    <3>2. TakenAsCalled(g) BY <1>6, <1>13, <1>15, <2>1, <3>1
    <3>. QED BY <1>14, <3>2
  <2>2. CASE funcToSCCs[f] = scc
    <3>1. f \in C /\ count > 0 BY <1>8, <1>13, <1>15, <2>2
    <3>2. <<f, g>> \in edges BY <1>2, <1>3, <1>15, CalleeCountFacts DEF Calls
    <3>3. funcToSCCs[g] <= scc BY <2>2, <3>2, <1>3, <1>5 DEF AllNumbered, Numbered
    <3>4. CASE funcToSCCs[g] = scc
      <4>1. isCalleeCounts'[g] > 0 BY <1>8, <1>13, <3>1, <3>4
      <4>2. funcToSCCs'[g] > scc' BY <1>1, <1>3, <1>5, <3>4
      <4>. QED BY <4>1, <4>2 DEF TakenAsCalled
    <3>5. CASE funcToSCCs[g] < scc
      <4>1. g \in FuncsInSCC(funcToSCCs[g]) /\ f \in FuncsInSCC(scc) BY <2>2 DEF FuncsInSCC
      <4>2. CallsBetween(scc, funcToSCCs[g], count) > 0
        BY <1>3, <1>7, <1>15, <3>1, <4>1, CallsBetweenFacts DEF Calls
      <4>3. sccCallCounts'[funcToSCCs[g]] > 0 BY <1>3, <1>4, <1>5, <1>12, <3>5, <4>2
      <4>4. ~(funcToSCCs'[g] > scc') BY <1>1, <1>3, <1>5, <3>5
      <4>. QED BY <1>1, <4>3, <4>4 DEF TakenAsCalled
    <3>. QED BY <1>3, <1>5, <3>3, <3>4, <3>5
  <2>. QED BY <1>3, <1>5, <1>15, <2>1, <2>2
<1>16. Counting'
  <2>1. scc' \in 0 .. sccCount' - 1 BY <1>1, <1>3, <1>5
  <2>2. ASSUME NEW f \in Funcs, ~(funcToSCCs'[f] > scc') PROVE isCalleeCounts'[f] = 0
    <3>1. funcToSCCs[f] < scc BY <1>1, <1>3, <1>5, <2>2
    <3>2. f \notin C /\ ~(funcToSCCs[f] > scc) BY <1>3, <1>5, <1>8, <3>1
    <3>. QED BY <1>6, <1>13, <3>2
  <2>3. TakenAsCalled(InitFunc)' BY <1>3, <1>6, <1>14
  <2>4. \A f, g \in Funcs :
          funcToSCCs'[f] > scc' /\ isCalleeCounts'[f] > 0 /\ Calls(f, g)' => TakenAsCalled(g)'
    BY <1>1, <1>15 DEF Calls
  <2>. QED BY <2>1, <2>2, <2>3, <2>4 DEF Counting
<1>17. Filled' BY <1>1, <1>2 DEF Filled
<1>. QED BY <1>1, <1>2, <1>11, <1>13, <1>16, <1>17 DEF CountInv

\* The closures it removes never run, and there are none where closures are defined in
\* functions that run.
LEMMA RemoveClosuresKeeps ==
  ASSUME TypeInv, CountInv, RemoveClosures
  PROVE  Kept'
<1>1. /\ phase = "closures"
      /\ edges' = {e \in edges : e[2] \notin RemovedClosures}
      /\ callees' = callees \ RemovedClosures
      /\ prog' = prog
  BY DEF RemoveClosures
<1>2. /\ edges = CallsOf(prog) /\ callees = prog.values /\ AllCounted
      /\ isCalleeCounts \in [Funcs -> Nat]
  BY <1>1 DEF CountInv
<1>3. /\ prog \in Programs /\ InitFunc \in Funcs
      /\ prog.enclosing \in [Funcs -> Funcs \cup {None}]
      /\ \A f \in Funcs : prog.enclosing[f] < f
  BY ProgramsAssumption, FuncCountAssumption DEF TypeInv, Funcs, InitFunc
<1>4. prog.enclosing[InitFunc] = None
  <2>1. prog.enclosing[InitFunc] < 0 BY <1>3 DEF InitFunc
  <2>2. \A f \in Funcs : ~(f < 0) BY FuncCountAssumption DEF Funcs
  <2>. QED BY <1>3, <2>1, <2>2
<1> DEFINE S == {f \in Funcs : isCalleeCounts[f] > 0 /\ f \notin RemovedClosures}
<1>5. Live(prog) \subseteq S
  <2>1. InitFunc \in S BY <1>2, <1>3, <1>4, RemovedClosuresFacts DEF AllCounted
  <2>2. ASSUME NEW f \in S, NEW g \in Funcs, CalleeCounts(prog, f, g) > 0,
               prog.enclosing[g] \in S \cup {None}
        PROVE  g \in S
    <3>1. isCalleeCounts[g] > 0 BY <1>2, <2>2 DEF AllCounted, Calls
    <3>2. g \notin RemovedClosures
      <4>1. CASE prog.enclosing[g] = None BY <4>1, RemovedClosuresFacts
      <4>2. CASE prog.enclosing[g] \in S
        <5>1. isCalleeCounts[prog.enclosing[g]] # 0 /\ prog.enclosing[g] \notin RemovedClosures
          BY <1>2, <4>2
        <5>. QED BY <5>1, RemovedClosuresFacts
      <4>. QED BY <2>2, <4>1, <4>2
    <3>. QED BY <3>1, <3>2
  <2>3. S \in SUBSET Funcs OBVIOUS
  <2>. HIDE DEF S
  <2>. QED BY <2>1, <2>2, <2>3, LiveFacts
<1>6. Live(prog) \cap RemovedClosures = {} BY <1>5
<1>7. ClosuresOfLive => RemovedClosures = {}
  <2> SUFFICES ASSUME ClosuresOfLive, NEW f \in RemovedClosures PROVE FALSE OBVIOUS
  <2>1. /\ f \in Funcs /\ prog.enclosing[f] # None
        /\ isCalleeCounts[prog.enclosing[f]] = 0 \/ prog.enclosing[f] \in RemovedClosures
    BY RemovedClosuresFacts
  <2>2. prog.enclosing[f] \in Live(prog) BY <2>1 DEF ClosuresOfLive
  <2>. QED BY <1>2, <1>5, <2>1, <2>2
<1>8. edges' \subseteq CallsOf(prog) /\ callees' \subseteq prog.values BY <1>1, <1>2
<1>9. \A f \in Live(prog) : /\ \A e \in CallsOf(prog) \ edges' : e[2] # f
                            /\ f \in prog.values => f \in callees'
  BY <1>1, <1>2, <1>6
<1>10. ClosuresOfLive => edges' = CallsOf(prog) /\ callees' = prog.values BY <1>1, <1>2, <1>7
<1>11. ClosuresOfLive' <=> ClosuresOfLive BY <1>1 DEF ClosuresOfLive
<1>. QED BY <1>1, <1>8, <1>9, <1>10, <1>11 DEF Kept

LEMMA InitCount == Init => CountInv
<1> SUFFICES ASSUME Init PROVE CountInv OBVIOUS
<1>1. /\ phase = "scc" /\ edges = CallsOf(prog) /\ callees = prog.values /\ sccCount = 1
      /\ sccCallCounts = [i \in 0 .. FuncCount |-> 0]
      /\ isCalleeCounts = [f \in Funcs |-> 0]
  BY DEF Init, CGInit
<1>2. Filled BY <1>1 DEF Filled
<1>3. /\ sccCallCounts \in [0 .. FuncCount -> Nat] /\ isCalleeCounts \in [Funcs -> Nat]
      /\ \A f \in Funcs : isCalleeCounts[f] = 0
  BY <1>1
<1>. QED BY <1>1, <1>2, <1>3 DEF CountInv

\* A step that keeps the counts, the calls and, but for the search, the components.
LEMMA CountStays ==
  ASSUME CountInv, phase # "counts", Filled',
         UNCHANGED <<prog, edges, callees, sccCallCounts, isCalleeCounts>>,
         phase' = phase \/ {phase, phase'} \subseteq {"rescc", "panics", "done"}
  PROVE  CountInv'
<1>1. Kept => Kept' BY DEF Kept, ClosuresOfLive
<1>2. AllCounted => AllCounted' BY DEF AllCounted, Calls
<1>. QED BY <1>1, <1>2 DEF CountInv

\* Every step keeps CountInv.
LEMMA NextCount == CGInv /\ CountInv /\ [Next]_vars => CountInv'
<1> SUFFICES ASSUME CGInv, CountInv, [Next]_vars PROVE CountInv' OBVIOUS
<1>1. TypeInv /\ Filled BY DEF CGInv, CountInv
<1>2. ASSUME Connecting, UNCHANGED <<prog, phase, edges, callees, sccCount, funcToSCCs, countVars>>
      PROVE  CountInv'
  <2>1. Filled' BY <1>1, <1>2 DEF Filled
  <2>. QED BY <1>2, <2>1, CountStays DEF Connecting, countVars
<1>3. ASSUME NEW f \in Funcs, Root(f) PROVE CountInv' BY <1>2, <1>3 DEF Root, Enter
<1>4. ASSUME NEW f \in Funcs, Consider(f) PROVE CountInv' BY <1>2, <1>4 DEF Consider, Enter
<1>5. CASE Leave
  <2>1. /\ Connecting /\ frames # <<>>
        /\ UNCHANGED <<prog, phase, edges, callees, sccCallCounts, isCalleeCounts>>
    BY <1>5 DEF Leave, countVars
  <2>2. Filled' BY <1>1, <1>5, <2>1, LeaveFills DEF CGInv
  <2>. QED BY <2>1, <2>2, CountStays DEF Connecting
<1>6. CASE BeginCounts
  <2>1. /\ Connected /\ phase = "scc" /\ phase' = "counts" /\ scc' = sccCount - 1
        /\ sccCallCounts' = [sccCallCounts EXCEPT ![funcToSCCs[InitFunc]] = 1]
        /\ UNCHANGED <<prog, edges, callees, isCalleeCounts, sccCount, funcToSCCs>>
    BY <1>6 DEF BeginCounts, sccVars
  <2>2. AllNumbered BY <1>1, <2>1, ConnectedNumbered DEF Connected, CGInv
  <2>3. /\ edges = CallsOf(prog) /\ callees = prog.values /\ \A f \in Funcs : isCalleeCounts[f] = 0
        /\ sccCallCounts \in [0 .. FuncCount -> Nat] /\ isCalleeCounts \in [Funcs -> Nat]
    BY <2>1 DEF CountInv
  <2>4. InitFunc \in Funcs /\ sccCount \in Nat \ {0}
    BY FuncCountAssumption, <1>1 DEF Funcs, InitFunc, TypeInv
  <2>5. \A f \in Funcs : funcToSCCs[f] \in 1 .. sccCount - 1 /\ funcToSCCs[f] \in 0 .. FuncCount
    BY <1>1, <2>2, FewSCCs
  <2>6. /\ sccCallCounts' \in [0 .. FuncCount -> Nat]
        /\ sccCallCounts'[funcToSCCs[InitFunc]] = 1
    BY <2>1, <2>3, <2>4, <2>5
  <2>7. \A f \in Funcs : ~(funcToSCCs'[f] > scc') BY <2>1, <2>4, <2>5
  <2>8. Counting'
    <3>1. TakenAsCalled(InitFunc)' BY <2>1, <2>4, <2>6, <2>7 DEF TakenAsCalled
    <3>2. scc' \in 0 .. sccCount' - 1 BY <2>1, <2>4
    <3>. QED BY <2>1, <2>3, <2>7, <3>1, <3>2 DEF Counting
  <2>9. Filled' BY <1>1, <2>1 DEF Filled
  <2>. QED BY <2>1, <2>3, <2>6, <2>8, <2>9 DEF CountInv
<1>7. CASE CountSCC
  <2>1. AllNumbered BY <1>7 DEF CountSCC, CGInv, Connecting
  <2>. QED BY <1>1, <1>7, <2>1, CountSCCKeeps
<1>8. CASE EndCounts
  <2>1. /\ phase = "counts" /\ scc = 0 /\ phase' = (IF AllKinds THEN "closures" ELSE "panics")
        /\ UNCHANGED <<prog, edges, callees, sccCallCounts, isCalleeCounts, sccCount, funcToSCCs>>
    BY <1>8 DEF EndCounts, sccVars, countVars
  <2>2. /\ Counting /\ edges = CallsOf(prog) /\ callees = prog.values
        /\ sccCallCounts \in [0 .. FuncCount -> Nat] /\ isCalleeCounts \in [Funcs -> Nat]
    BY <2>1 DEF CountInv
  <2>3. \A f \in Funcs : funcToSCCs[f] > scc
    BY <1>1, <2>1 DEF CGInv, Connecting, AllNumbered, TypeInv
  <2>4. AllCounted
    <3>1. InitFunc \in Funcs BY FuncCountAssumption DEF Funcs, InitFunc
    <3>. QED BY <2>2, <2>3, <3>1 DEF Counting, AllCounted, TakenAsCalled
  <2>5. AllCounted' BY <2>1, <2>4 DEF AllCounted, Calls
  <2>6. Kept' BY <2>1, <2>2 DEF Kept
  <2>7. Filled' BY <1>1, <2>1 DEF Filled
  <2>. QED BY <2>1, <2>2, <2>5, <2>6, <2>7 DEF CountInv
<1>9. CASE RemoveClosures
  <2>1. Kept' BY <1>1, <1>9, RemoveClosuresKeeps
  <2>2. /\ phase' \in {"rescc", "panics"} /\ sccCallCounts' = sccCallCounts
        /\ isCalleeCounts' = [f \in Funcs |-> IF f \in RemovedClosures THEN 0 ELSE isCalleeCounts[f]]
        /\ UNCHANGED <<sccCount, funcToSCCs>> \/ sccCount' = 1
    BY <1>9 DEF RemoveClosures, sccVars, ResetSCCs
  <2>3. Filled' BY <1>1, <2>2 DEF Filled
  <2>4. isCalleeCounts' \in [Funcs -> Nat] /\ sccCallCounts' \in [0 .. FuncCount -> Nat]
    BY <2>2 DEF CountInv
  <2>. QED BY <2>1, <2>2, <2>3, <2>4 DEF CountInv
<1>10. ASSUME BeginPanics \/ PanicsOfSCC \/ EndPanics PROVE CountInv'
  <2>1. /\ {phase, phase'} \subseteq {"rescc", "panics", "done"}
        /\ UNCHANGED <<prog, edges, callees, sccCallCounts, isCalleeCounts, sccCount, funcToSCCs>>
    BY <1>10 DEF BeginPanics, PanicsOfSCC, EndPanics, sccVars, countVars
  <2>2. Filled' BY <1>1, <2>1 DEF Filled
  <2>. QED BY <2>1, <2>2, CountStays
<1>11. CASE UNCHANGED cgVars
  <2>1. UNCHANGED <<prog, phase, edges, callees, sccCallCounts, isCalleeCounts, sccCount, funcToSCCs, scc>>
    BY <1>11 DEF cgVars, sccVars, countVars
  <2>2. Filled' BY <1>1, <2>1 DEF Filled
  <2>3. CASE phase # "counts" BY <2>1, <2>2, <2>3, CountStays
  <2>4. CASE phase = "counts"
    <3>1. Counting' BY <2>1, <2>4 DEF CountInv, Counting, TakenAsCalled, Calls
    <3>. QED BY <2>1, <2>2, <2>4, <3>1 DEF CountInv
  <2>. QED BY <2>3, <2>4
<1>12. CASE CGNext
  BY <1>3, <1>4, <1>5, <1>6, <1>7, <1>8, <1>9, <1>10, <1>12 DEF CGNext
<1>. QED BY <1>11, <1>12 DEF Next, BuildFuncCallGraph, EliminateSCC, vars

\* What the graph drops never runs: counted functions are closed under calls, and a removed
\* closure is defined in one that is not counted or removed itself.
THEOREM RemovedNeverRunHolds == Spec => []RemovedNeverRun
<1>1. Spec => []CountInv BY InitCount, NextCount, CGInvHolds, PTL DEF Spec
<1>2. CountInv => RemovedNeverRun BY DEF CountInv, Kept, RemovedNeverRun
<1>. QED BY <1>1, <1>2, PTL

-----------------------------------------------------------------------------
\* DeadInv, one step per action. Building the call graph leaves the elimination alone.
LEMMA InitDead == Init => DeadInv
<1> SUFFICES ASSUME Init PROVE DeadInv OBVIOUS
<1>1. /\ component = 1 /\ keptStatic = DOMAIN prog.static /\ keptDynamic = DOMAIN prog.dynamic
      /\ emptyFuncs = {}
  BY DEF Init
<1>. QED BY <1>1 DEF DeadInv

LEMMA EliminateSCCKeeps ==
  ASSUME TypeInv, DeadInv, EliminateSCC
  PROVE  DeadInv'
<1> DEFINE fs == FuncsInSCC(component)
           visible == fs \ prog.nested
           added == {f \in fs : /\ f \notin prog.busy /\ f \notin keptDynamic'
                                /\ \A e \in keptStatic' : e[1] # f}
<1>1. /\ phase = "done"
      /\ keptStatic' = {e \in keptStatic : ~(e[1] \in visible /\ e[2] \in emptyFuncs)}
      /\ keptDynamic' = {f \in keptDynamic : ~(f \in visible /\ DynamicCallsAreDead)}
      /\ emptyFuncs' = emptyFuncs \cup added
      /\ component' = component + 1
      /\ UNCHANGED <<prog, phase, callees, funcToSCCs>>
  BY DEF EliminateSCC, cgVars, sccVars
<1>2. fs \subseteq Funcs /\ \A f \in fs : funcToSCCs[f] = component BY DEF FuncsInSCC
<1>3. /\ component \in Nat /\ component' \in Nat /\ funcToSCCs \in [Funcs -> Nat]
      /\ keptStatic \subseteq DOMAIN prog.static /\ keptDynamic \subseteq DOMAIN prog.dynamic
      /\ emptyFuncs \subseteq Funcs
  BY <1>1 DEF DeadInv, TypeInv
<1>4. /\ \A f \in emptyFuncs : /\ funcToSCCs[f] < component
                               /\ f \notin prog.busy /\ f \notin keptDynamic
                               /\ \A e \in keptStatic : e[1] # f
      /\ \A e \in (DOMAIN prog.static) \ keptStatic : EmptyBelow(e[2], e[1])
      /\ \A f \in (DOMAIN prog.dynamic) \ keptDynamic : \A g \in callees : EmptyBelow(g, f)
  BY DEF DeadInv
<1>5. \A g \in emptyFuncs, f \in fs : EmptyBelow(g, f) BY <1>2, <1>4 DEF EmptyBelow
<1>6. \A g, f : EmptyBelow(g, f) => EmptyBelow(g, f)' BY <1>1 DEF EmptyBelow
<1>. HIDE DEF fs
<1>7. ASSUME NEW f \in emptyFuncs'
      PROVE  /\ funcToSCCs[f] < component + 1 /\ f \notin prog.busy /\ f \notin keptDynamic'
             /\ \A e \in keptStatic' : e[1] # f
  <2>1. CASE f \in emptyFuncs
    <3>1. funcToSCCs[f] < component + 1 BY <1>3, <1>4, <2>1
    <3>. QED BY <1>1, <1>4, <2>1, <3>1
  <2>2. CASE f \in added
    <3>1. funcToSCCs[f] < component + 1 BY <1>2, <1>3, <2>2
    <3>. QED BY <2>2, <3>1
  <2>. QED BY <1>1, <1>7, <2>1, <2>2
<1>8. ASSUME NEW e \in (DOMAIN prog.static) \ keptStatic' PROVE EmptyBelow(e[2], e[1])'
  <2>1. CASE e \in keptStatic BY <1>1, <1>5, <1>6, <1>8, <2>1
  <2>2. CASE e \notin keptStatic BY <1>4, <1>6, <1>8, <2>2
  <2>. QED BY <2>1, <2>2
<1>9. ASSUME NEW f \in (DOMAIN prog.dynamic) \ keptDynamic', NEW g \in callees
      PROVE  EmptyBelow(g, f)'
  <2>1. CASE f \in keptDynamic BY <1>1, <1>5, <1>6, <1>9, <2>1 DEF DynamicCallsAreDead
  <2>2. CASE f \notin keptDynamic BY <1>4, <1>6, <1>9, <2>2
  <2>. QED BY <2>1, <2>2
<1>10. emptyFuncs' \subseteq Funcs BY <1>1, <1>2, <1>3
<1>. HIDE DEF added
<1>. QED BY <1>1, <1>3, <1>7, <1>8, <1>9, <1>10 DEF DeadInv

LEMMA NextDead == CGInv /\ DeadInv /\ [Next]_vars => DeadInv'
<1> SUFFICES ASSUME CGInv, DeadInv, [Next]_vars PROVE DeadInv' OBVIOUS
<1>1. TypeInv BY DEF CGInv
<1>2. ASSUME phase # "done", prog' = prog, UNCHANGED dcVars PROVE DeadInv'
  <2>1. /\ emptyFuncs' = {} /\ keptStatic' = DOMAIN prog'.static /\ keptDynamic' = DOMAIN prog'.dynamic
        /\ component' \in Nat
    BY <1>2 DEF DeadInv, dcVars
  <2>. QED BY <2>1 DEF DeadInv
<1>3. ASSUME CGNext, UNCHANGED dcVars PROVE DeadInv'
  <2>1. phase # "done"
    BY <1>3 DEF CGNext, Root, Consider, Leave, Connecting, BeginCounts, CountSCC, EndCounts,
                RemoveClosures, BeginPanics, PanicsOfSCC, EndPanics
  <2>2. prog' = prog
    BY <1>3 DEF CGNext, Root, Consider, Enter, Leave, BeginCounts, CountSCC, EndCounts,
                RemoveClosures, BeginPanics, PanicsOfSCC, EndPanics
  <2>. QED BY <1>2, <1>3, <2>1, <2>2
<1>4. CASE EliminateSCC BY <1>1, <1>4, EliminateSCCKeeps
<1>5. CASE UNCHANGED vars
  <2>1. UNCHANGED <<prog, phase, callees, funcToSCCs, component, keptStatic, keptDynamic, emptyFuncs>>
    BY <1>5 DEF vars, cgVars, sccVars, dcVars
  <2>2. \A g, f : EmptyBelow(g, f)' <=> EmptyBelow(g, f) BY <2>1 DEF EmptyBelow
  <2>. QED BY <2>1, <2>2 DEF DeadInv
<1>. QED BY <1>3, <1>4, <1>5 DEF Next, BuildFuncCallGraph

\* A call that is gone led to an empty function, from which only calls that are gone lead on,
\* each to an earlier component: nothing kept is reached and no call repeats.
THEOREM RemovesUnnecessaryOfLiveHolds == Spec => []RemovesUnnecessaryOfLive
<1>1. Spec => []CountInv BY InitCount, NextCount, CGInvHolds, PTL DEF Spec
<1>2. Spec => []DeadInv BY InitDead, NextDead, CGInvHolds, PTL DEF Spec
<1>3. CGInv /\ CountInv /\ DeadInv => RemovesUnnecessaryOfLive
  <2> SUFFICES ASSUME TypeInv, CountInv, DeadInv, ClosuresOfLive, NEW e \in Removed
               PROVE  ~Matters(e[2])
    BY DEF RemovesUnnecessaryOfLive, RemovesUnnecessary, CGInv
  <2>1. /\ prog \in Programs /\ prog.values \subseteq Funcs \ {InitFunc}
        /\ DOMAIN prog.static \subseteq Funcs \X (Funcs \ {InitFunc})
        /\ funcToSCCs \in [Funcs -> Nat]
    BY ProgramsAssumption DEF TypeInv
  <2>2. /\ emptyFuncs \subseteq Funcs
        /\ \A f \in emptyFuncs : /\ f \notin prog.busy /\ f \notin keptDynamic
                                 /\ \A c \in keptStatic : c[1] # f
        /\ \A c \in (DOMAIN prog.static) \ keptStatic : EmptyBelow(c[2], c[1])
        /\ \A f \in (DOMAIN prog.dynamic) \ keptDynamic : \A g \in callees : EmptyBelow(g, f)
    BY DEF DeadInv
  <2>3. phase = "done" BY DEF DeadInv, Removed
  <2>4. callees = prog.values BY <2>3 DEF CountInv, Kept
  <2> DEFINE Dead == emptyFuncs \ {InitFunc}
  <2>5. e[2] \in Dead
    <3>1. CASE e \in (DOMAIN prog.static) \ keptStatic BY <2>1, <2>2, <3>1 DEF EmptyBelow
    <3>2. CASE e[1] \in (DOMAIN prog.dynamic) \ keptDynamic /\ e[2] \in prog.values
      BY <2>1, <2>2, <2>4, <3>2 DEF EmptyBelow
    <3>. QED BY <3>1, <3>2 DEF Removed
  <2>6. ASSUME NEW f \in Dead, NEW h, <<f, h>> \in Happen
        PROVE  h \in Dead /\ funcToSCCs[h] < funcToSCCs[f]
    <3>1. <<f, h>> \in CallsOf(Linked) BY <2>6 DEF Happen
    <3>2. /\ Linked.dynamic = prog.dynamic /\ Linked.values = prog.values
          /\ DOMAIN Linked.static = (DOMAIN prog.static) \cup {<<InitFunc, EntryFunc>>}
      BY DEF Linked
    <3>3. <<f, h>> \in DOMAIN prog.static \/ (f \in DOMAIN prog.dynamic /\ h \in prog.values)
      BY <3>1, <3>2 DEF CallsOf
    <3>4. CASE <<f, h>> \in DOMAIN prog.static
      <4>1. <<f, h>>[1] = f /\ <<f, h>>[2] = h OBVIOUS
      <4>2. <<f, h>> \notin keptStatic BY <2>2, <4>1
      <4>3. EmptyBelow(h, f) BY <2>2, <3>4, <4>1, <4>2
      <4>. QED BY <2>1, <3>4, <4>3 DEF EmptyBelow
    <3>5. CASE f \in DOMAIN prog.dynamic /\ h \in prog.values
      <4>1. EmptyBelow(h, f) BY <2>2, <2>4, <3>5
      <4>. QED BY <2>1, <3>5, <4>1 DEF EmptyBelow
    <3>. QED BY <3>3, <3>4, <3>5
  <2>7. \A c \in Happen : c = <<c[1], c[2]>>
    <3>1. \A c \in CallsOf(Linked) : c = <<c[1], c[2]>>
      BY <2>1 DEF CallsOf, Linked
    <3>. QED BY <3>1 DEF Happen
  <2>8. Dead \in SUBSET Funcs BY <2>2
  <2>. HIDE DEF Dead
  <2>9. Reachable(Happen, e[2]) \subseteq Dead
    <3>1. Dead \in ClosedSets(Happen) BY <2>6, <2>7, <2>8 DEF ClosedSets
    <3>2. \A g \in Funcs : <<e[2], g>> \in Happen => g \in Dead BY <2>5, <2>6
    <3>. QED BY <3>1, <3>2 DEF Reachable
  <2>10. ASSUME NEW f \in Dead PROVE f \notin Reachable(Happen, f)
    <3> DEFINE Lower == {h \in Dead : funcToSCCs[h] < funcToSCCs[f]}
    <3>1. Lower \in SUBSET Funcs BY <2>8
    <3>2. \A c \in Happen : c[1] \in Lower => c[2] \in Lower
      <4> SUFFICES ASSUME NEW c \in Happen, c[1] \in Lower PROVE c[2] \in Lower OBVIOUS
      <4>1. c[2] \in Dead /\ funcToSCCs[c[2]] < funcToSCCs[c[1]] BY <2>6, <2>7
      <4>2. /\ funcToSCCs[c[2]] \in Nat /\ funcToSCCs[c[1]] \in Nat /\ funcToSCCs[f] \in Nat
        BY <2>1, <2>8, <4>1
      <4>. QED BY <4>1, <4>2
    <3>3. \A g \in Funcs : <<f, g>> \in Happen => g \in Lower BY <2>6
    <3>4. f \notin Lower BY <2>1, <2>8
    <3>. HIDE DEF Lower
    <3>5. Lower \in ClosedSets(Happen) BY <3>1, <3>2 DEF ClosedSets
    <3>. QED BY <3>3, <3>4, <3>5 DEF Reachable
  <2>11. {e[2]} \cup Reachable(Happen, e[2]) \subseteq Dead BY <2>5, <2>9
  <2>12. Dead \cap prog.busy = {} BY <2>2 DEF Dead
  <2>. QED BY <2>10, <2>11, <2>12 DEF Matters
<1>. QED BY <1>1, <1>2, <1>3, CGInvHolds, PTL

-----------------------------------------------------------------------------
\* How often functions are called. Two sums of the same terms.
LEMMA SumsSame ==
  ASSUME NEW S, IsFiniteSet(S), NEW v \in [S -> Nat], NEW T, IsFiniteSet(T), NEW w \in [T -> Nat],
         NEW s \in SUBSET S, s \subseteq T, \A x \in s : v[x] = w[x]
  PROVE  SumFunctionOnSet(v, s) = SumFunctionOnSet(w, s)
<1> DEFINE R == {p \in Nat \X Nat : p[1] = p[2]}
<1>1. R \in SUBSET (Nat \X Nat) /\ <<0, 0>> \in R OBVIOUS
<1>2. \A m, n \in Nat, x \in s : <<m, n>> \in R => <<m + v[x], n + w[x]>> \in R
  <2> SUFFICES ASSUME NEW m \in Nat, NEW n \in Nat, NEW x \in s, m = n
               PROVE  m + v[x] \in Nat /\ n + w[x] \in Nat /\ m + v[x] = n + w[x]
    OBVIOUS
  <2>1. v[x] \in Nat /\ w[x] \in Nat /\ v[x] = w[x] OBVIOUS
  <2>. QED BY <2>1
<1>3. \A m, n : <<m, n>> \in R => m = n OBVIOUS
<1>. HIDE DEF R
<1>4. <<SumFunctionOnSet(v, s), SumFunctionOnSet(w, s)>> \in R BY <1>1, <1>2, SumsRelated
<1>. QED BY <1>3, <1>4

\* A sum of zeros.
LEMMA SumOfZeros ==
  ASSUME NEW S, IsFiniteSet(S), NEW v \in [S -> Nat], NEW s \in SUBSET S, \A x \in s : v[x] = 0
  PROVE  SumFunctionOnSet(v, s) = 0
<1> DEFINE R == {p \in Nat \X Nat : p[1] = 0}
<1>1. R \in SUBSET (Nat \X Nat) /\ <<0, 0>> \in R OBVIOUS
<1>2. \A m, n \in Nat, x \in s : <<m, n>> \in R => <<m + v[x], n + v[x]>> \in R
  <2> SUFFICES ASSUME NEW m \in Nat, NEW n \in Nat, NEW x \in s, m = 0
               PROVE  m + v[x] \in Nat /\ n + v[x] \in Nat /\ m + v[x] = 0
    OBVIOUS
  <2>1. v[x] = 0 OBVIOUS
  <2>. QED BY <2>1
<1>3. \A m, n : <<m, n>> \in R => m = 0 OBVIOUS
<1>. HIDE DEF R
<1>4. <<SumFunctionOnSet(v, s), SumFunctionOnSet(v, s)>> \in R BY <1>1, <1>2, SumsRelated
<1>. QED BY <1>3, <1>4

\* Capping after every addition and multiplication is capping once.
LEMMA CappedFacts ==
  /\ \A a \in Nat : Capped(a) \in Nat /\ Capped(a) <= a /\ Capped(a) <= MaxCallCounts
  /\ \A a \in Nat : a <= MaxCallCounts => Capped(a) = a
  /\ \A a, b \in Nat : a <= b => Capped(a) <= Capped(b)
  /\ \A a, b \in Nat : Capped(Capped(a) + b) = Capped(a + b)
  /\ \A a, b, c, d \in Nat : a >= Capped(b) /\ c >= Capped(d) => a + c >= Capped(b + d)
  /\ \A a, b, c, d \in Nat :
       Capped(a) = Capped(b) /\ Capped(c) = Capped(d) => Capped(a + c) = Capped(b + d)
<1>1. MaxCallCounts \in Nat \ {0} BY MaxCallCountsAssumption
<1>. QED BY <1>1 DEF Capped

LEMMA CappedProducts ==
  ASSUME NEW a \in Nat, NEW b \in Nat, NEW c \in Nat
  PROVE  /\ a >= Capped(b) => c * a >= Capped(c * b)
         /\ a = Capped(b) => Capped(c * a) = Capped(c * b)
<1>1. MaxCallCounts \in Nat \ {0} BY MaxCallCountsAssumption
<1>2. c * a \in Nat /\ c * b \in Nat OBVIOUS
<1>3. \A m, n \in Nat : m <= n => c * m <= c * n
  <2> SUFFICES ASSUME NEW m \in Nat, NEW n \in Nat, m <= n PROVE c * m <= c * n OBVIOUS
  <2>1. n - m \in Nat /\ c * n = c * m + c * (n - m) OBVIOUS
  <2>2. c * (n - m) \in Nat /\ c * m \in Nat BY <2>1
  <2>. QED BY <2>1, <2>2
<1>4. CASE c = 0 BY <1>1, <1>4 DEF Capped
<1>5. CASE c # 0 /\ b <= MaxCallCounts
  <2>1. Capped(b) = b BY <1>1, <1>5 DEF Capped
  <2>2. a >= b => c * a >= c * b BY <1>3
  <2>3. Capped(c * b) <= c * b BY <1>1, <1>2 DEF Capped
  <2>4. Capped(c * b) \in Nat BY <1>1, <1>2 DEF Capped
  <2>. QED BY <1>2, <2>1, <2>2, <2>3, <2>4
<1>6. CASE c # 0 /\ ~(b <= MaxCallCounts)
  <2>1. Capped(b) = MaxCallCounts BY <1>1, <1>6 DEF Capped
  <2>2. \A n \in Nat : n <= c * n
    <3> SUFFICES ASSUME NEW n \in Nat PROVE n <= c * n OBVIOUS
    <3>1. c - 1 \in Nat /\ c * n = n + (c - 1) * n BY <1>6
    <3>2. (c - 1) * n \in Nat BY <3>1
    <3>. QED BY <3>1, <3>2
  <2>3. a >= MaxCallCounts => c * a >= MaxCallCounts BY <1>1, <1>2, <2>2
  <2>4. c * b >= MaxCallCounts BY <1>1, <1>2, <1>6, <2>2
  <2>5. \A n \in Nat : n >= MaxCallCounts => Capped(n) = MaxCallCounts BY <1>1 DEF Capped
  <2>6. Capped(c * b) = MaxCallCounts BY <1>2, <2>4, <2>5
  <2>. QED BY <1>1, <1>2, <2>1, <2>3, <2>5, <2>6
<1>. QED BY <1>4, <1>5, <1>6

\* A number of calls for every function, and the number of calls those make.
LEMMA CallsOnceFacts ==
  ASSUME prog \in Programs, NEW x \in [Funcs -> Nat], NEW y \in [Funcs -> Nat]
  PROVE  /\ CallsOnce(prog, x) \in [Funcs -> Nat]
         /\ \A f \in Funcs : (\A g \in Callers(prog, f) : x[g] = y[g]) =>
              CallsOnce(prog, x)[f] = CallsOnce(prog, y)[f]
         /\ (\A f \in Funcs : x[f] <= y[f]) =>
              \A f \in Funcs : CallsOnce(prog, x)[f] <= CallsOnce(prog, y)[f]
<1> DEFINE Base(f) == IF f = InitFunc THEN 1 ELSE 0
           V(z, f) == [g \in Callers(prog, f) |-> CalleeCounts(prog, g, f) * z[g]]
<1>1. \A z : CallsOnce(prog, z) = [f \in Funcs |-> Base(f) + SumFunction(V(z, f))] BY DEF CallsOnce
<1>2. \A f : Callers(prog, f) \subseteq Funcs /\ IsFiniteSet(Callers(prog, f))
  <2> SUFFICES ASSUME NEW f
               PROVE  Callers(prog, f) \subseteq Funcs /\ IsFiniteSet(Callers(prog, f)) OBVIOUS
  <2>1. Callers(prog, f) \subseteq Funcs BY DEF Callers
  <2>. QED BY <2>1, FuncsFinite, FS_Subset
<1>3. ASSUME NEW z \in [Funcs -> Nat], NEW f
      PROVE  /\ V(z, f) \in [Callers(prog, f) -> Nat]
             /\ SumFunction(V(z, f)) = SumFunctionOnSet(V(z, f), Callers(prog, f))
             /\ SumFunction(V(z, f)) \in Nat
  <2>1. V(z, f) \in [Callers(prog, f) -> Nat]
    <3> SUFFICES ASSUME NEW g \in Callers(prog, f)
                 PROVE  CalleeCounts(prog, g, f) * z[g] \in Nat OBVIOUS
    <3>1. z[g] \in Nat /\ CalleeCounts(prog, g, f) \in Nat BY <1>2, CalleeCountFacts
    <3>. QED BY <3>1
  <2>2. IsFiniteSet(Callers(prog, f)) BY <1>2
  <2>. HIDE DEF V
  <2>3. /\ SumFunction(V(z, f)) = SumFunctionOnSet(V(z, f), Callers(prog, f))
        /\ SumFunctionOnSet(V(z, f), Callers(prog, f)) \in Nat
    BY <2>1, <2>2, SumFacts
  <2>. QED BY <2>1, <2>3
<1>4. CallsOnce(prog, x) \in [Funcs -> Nat]
  <2>1. \A f \in Funcs : Base(f) \in Nat /\ SumFunction(V(x, f)) \in Nat BY <1>3
  <2>. HIDE DEF Base, V
  <2>. QED BY <1>1, <2>1
<1>5. ASSUME NEW f \in Funcs, \A g \in Callers(prog, f) : x[g] = y[g]
      PROVE  CallsOnce(prog, x)[f] = CallsOnce(prog, y)[f]
  <2>1. V(x, f) = V(y, f) BY <1>5
  <2>. HIDE DEF V
  <2>. QED BY <1>1, <2>1
<1>6. ASSUME \A f \in Funcs : x[f] <= y[f], NEW f \in Funcs
      PROVE  CallsOnce(prog, x)[f] <= CallsOnce(prog, y)[f]
  <2> DEFINE R == {p \in Nat \X Nat : p[1] <= p[2]}
  <2>1. R \in SUBSET (Nat \X Nat) /\ <<0, 0>> \in R OBVIOUS
  <2>2. \A m, n \in Nat, g \in Callers(prog, f) : <<m, n>> \in R =>
          <<m + V(x, f)[g], n + V(y, f)[g]>> \in R
    <3> SUFFICES ASSUME NEW m \in Nat, NEW n \in Nat, NEW g \in Callers(prog, f), m <= n
                 PROVE  <<m + V(x, f)[g], n + V(y, f)[g]>> \in R
      OBVIOUS
    <3>1. /\ x[g] \in Nat /\ y[g] \in Nat /\ x[g] <= y[g] /\ CalleeCounts(prog, g, f) \in Nat
      BY <1>2, <1>6, CalleeCountFacts
    <3>2. \A a, b, c \in Nat : a <= b => c * a \in Nat /\ c * b \in Nat /\ c * a <= c * b
      <4> SUFFICES ASSUME NEW a \in Nat, NEW b \in Nat, NEW c \in Nat, a <= b
                   PROVE  c * a \in Nat /\ c * b \in Nat /\ c * a <= c * b
        OBVIOUS
      <4>1. b - a \in Nat /\ c * b = c * a + c * (b - a) OBVIOUS
      <4>2. c * (b - a) \in Nat /\ c * a \in Nat BY <4>1
      <4>. QED BY <4>1, <4>2
    <3>3. /\ V(x, f)[g] = CalleeCounts(prog, g, f) * x[g]
          /\ V(y, f)[g] = CalleeCounts(prog, g, f) * y[g]
      OBVIOUS
    <3>4. V(x, f)[g] \in Nat /\ V(y, f)[g] \in Nat /\ V(x, f)[g] <= V(y, f)[g] BY <3>1, <3>2, <3>3
    <3>. HIDE DEF V
    <3>. QED BY <3>4
  <2>3. \A m, n : <<m, n>> \in R => m <= n OBVIOUS
  <2>4. /\ V(x, f) \in [Callers(prog, f) -> Nat] /\ V(y, f) \in [Callers(prog, f) -> Nat]
        /\ IsFiniteSet(Callers(prog, f))
    BY <1>2, <1>3
  <2>. HIDE DEF R, V
  <2>5. <<SumFunctionOnSet(V(x, f), Callers(prog, f)), SumFunctionOnSet(V(y, f), Callers(prog, f))>> \in R
    BY <2>1, <2>2, <2>4, SumsRelated
  <2>6. SumFunction(V(x, f)) <= SumFunction(V(y, f)) BY <1>3, <2>3, <2>5
  <2>7. SumFunction(V(x, f)) \in Nat /\ SumFunction(V(y, f)) \in Nat /\ Base(f) \in Nat BY <1>3
  <2>. HIDE DEF Base
  <2>. QED BY <1>1, <2>6, <2>7
<1>. QED BY <1>4, <1>5, <1>6

\* The smallest number of a set.
LEMMA SmallestNumber ==
  ASSUME NEW N \in Nat, NEW B \in SUBSET (0 .. N), B # {}
  PROVE  \E k \in B : \A j \in B : k <= j
<1> DEFINE Below == {0 .. k : k \in B}
<1>1. IsFiniteSet(0 .. N) BY FS_Interval
<1>2. \A k \in B : k \in Nat /\ k <= N OBVIOUS
<1>3. \A k \in B : 0 .. k \subseteq 0 .. N BY <1>2
<1>7. Below \in SUBSET (SUBSET (0 .. N)) BY <1>3
<1>8. Below # {} OBVIOUS
<1>4. \E s \in Below : \A t \in Below : t \subseteq s => t = s
  <2> DEFINE S == 0 .. N
  <2>1. IsFiniteSet(S) /\ Below \in SUBSET (SUBSET S) BY <1>1, <1>7
  <2>. HIDE DEF Below, S
  <2>. QED BY <1>8, <2>1, SmallestSubset
<1>5. PICK k \in B : \A t \in Below : t \subseteq 0 .. k => t = 0 .. k BY <1>4
<1>6. ASSUME NEW j \in B, ~(k <= j) PROVE FALSE
  <2>1. j \in Nat /\ k \in Nat /\ j < k BY <1>2, <1>6
  <2>2. 0 .. j \in Below /\ 0 .. j \subseteq 0 .. k BY <2>1
  <2>3. 0 .. j = 0 .. k BY <1>5, <2>2
  <2>4. k \in 0 .. k /\ k \notin 0 .. j BY <2>1
  <2>. QED BY <2>3, <2>4
<1>. QED BY <1>6

\* The numbers of calls along chains of at most n calls, for all n.
IsWalks(w) ==
    /\ w \in [0 .. FuncCount -> [Funcs -> Nat]]
    /\ w[0] = CallsOnce(prog, [f \in Funcs |-> 0])
    /\ \A n \in 1 .. FuncCount : w[n] = CallsOnce(prog, w[n - 1])

LEMMA WalksExist ==
  ASSUME prog \in Programs
  PROVE  \E w : IsWalks(w) /\ Walks(prog) = w[FuncCount]
<1> DEFINE Zero == [f \in Funcs |-> 0]
           X == [Funcs -> Nat]
           Step(h, n) == CallsOnce(prog, IF n = 0 THEN Zero ELSE h[n - 1])
           F(h) == [n \in 0 .. FuncCount |-> Step(h, n)]
           walks == CHOOSE h : h = F(h)
           Upto(h, k) == \A n \in 0 .. k : h[n] = Step(h, n)
           Bad == {k \in 0 .. FuncCount : \A h \in [0 .. FuncCount -> X] : ~Upto(h, k)}
<1>1. FuncCount \in Nat \ {0} BY FuncCountAssumption
<1>2. Zero \in X OBVIOUS
<1>3. \A x \in X : CallsOnce(prog, x) \in X BY CallsOnceFacts
<1>. HIDE DEF Zero, X
<1>4. Bad = {}
  <2> SUFFICES ASSUME Bad # {} PROVE FALSE OBVIOUS
  <2>1. Bad \in SUBSET (0 .. FuncCount) OBVIOUS
  <2>2. PICK k \in Bad : \A j \in Bad : k <= j
    <3>. HIDE DEF Bad
    <3>. QED BY <1>1, <2>1, SmallestNumber
  <2>3. k \in 0 .. FuncCount /\ \A h \in [0 .. FuncCount -> X] : ~Upto(h, k) OBVIOUS
  <2>4. CASE k = 0
    <3> DEFINE h == [n \in 0 .. FuncCount |-> CallsOnce(prog, Zero)]
    <3>1. h \in [0 .. FuncCount -> X] BY <1>2, <1>3
    <3>2. h[0] = CallsOnce(prog, Zero) BY <1>1
    <3>3. \A n \in 0 .. k : n = 0 BY <2>4
    <3>. HIDE DEF h
    <3>4. Upto(h, k) BY <3>2, <3>3
    <3>. QED BY <2>3, <3>1, <3>4
  <2>5. CASE k # 0
    <3>0. k \in Nat /\ k > 0 /\ k <= FuncCount BY <1>1, <2>3, <2>5
    <3>1. k - 1 \in 0 .. FuncCount /\ ~(k <= k - 1) BY <1>1, <3>0
    <3>2. k - 1 \notin Bad BY <2>2, <3>1
    <3>3. PICK h \in [0 .. FuncCount -> X] : Upto(h, k - 1) BY <3>1, <3>2
    <3> DEFINE g == [h EXCEPT ![k] = CallsOnce(prog, h[k - 1])]
    <3>4. CallsOnce(prog, h[k - 1]) \in X BY <1>3, <3>1, <3>3
    <3>5. g \in [0 .. FuncCount -> X] BY <3>3, <3>4
    <3>6. g[k] = CallsOnce(prog, h[k - 1]) /\ \A n \in 0 .. FuncCount : n # k => g[n] = h[n]
      BY <2>3, <3>3
    <3>. HIDE DEF g
    <3>7. Upto(g, k)
      <4> SUFFICES ASSUME NEW n \in 0 .. k
                   PROVE  g[n] = CallsOnce(prog, IF n = 0 THEN Zero ELSE g[n - 1])
        OBVIOUS
      <4>1. CASE n = k
        <5>1. n - 1 \in 0 .. FuncCount /\ n - 1 # k BY <3>0, <3>1, <4>1
        <5>. QED BY <2>5, <3>6, <4>1, <5>1
      <4>2. CASE n # k
        <5>0. n \in Nat /\ n < k BY <3>0, <4>2
        <5>1. n \in 0 .. k - 1 /\ n \in 0 .. FuncCount BY <1>1, <3>0, <5>0
        <5>2. h[n] = CallsOnce(prog, IF n = 0 THEN Zero ELSE h[n - 1]) BY <3>3, <5>1
        <5>3. n # 0 => n - 1 \in 0 .. FuncCount /\ n - 1 # k BY <1>1, <3>0, <5>0
        <5>. QED BY <3>6, <4>2, <5>1, <5>2, <5>3
      <4>. QED BY <4>1, <4>2
    <3>. QED BY <2>3, <3>5, <3>7
  <2>. QED BY <2>4, <2>5
<1>5. PICK h \in [0 .. FuncCount -> X] : Upto(h, FuncCount)
  <2>1. FuncCount \in 0 .. FuncCount BY <1>1
  <2>. QED BY <1>4, <2>1
<1>6. h = F(h) BY <1>5
<1>7. walks = F(walks) BY <1>6
<1>8. Walks(prog) = walks[FuncCount] BY DEF Walks, Zero
<1>. HIDE DEF walks
<1>9. \A n \in 0 .. FuncCount : walks[n] = Step(walks, n) BY <1>7
<1>10. walks \in [0 .. FuncCount -> X]
  <2>1. \A n \in 0 .. FuncCount : walks[n] \in X
    <3> DEFINE Odd == {n \in 0 .. FuncCount : walks[n] \notin X}
    <3> SUFFICES ASSUME Odd # {} PROVE FALSE OBVIOUS
    <3>1. Odd \in SUBSET (0 .. FuncCount) OBVIOUS
    <3>2. PICK k \in Odd : \A j \in Odd : k <= j
      <4>. HIDE DEF Odd
      <4>. QED BY <1>1, <3>1, SmallestNumber
    <3>3. CASE k = 0 BY <1>2, <1>3, <1>9, <3>3
    <3>4. CASE k # 0
      <4>0. k \in Nat /\ k > 0 /\ k <= FuncCount BY <1>1, <3>4
      <4>1. k - 1 \in 0 .. FuncCount /\ ~(k <= k - 1) BY <1>1, <4>0
      <4>2. walks[k - 1] \in X BY <3>2, <4>1
      <4>. QED BY <1>3, <1>9, <3>4, <4>2
    <3>. QED BY <3>3, <3>4
  <2>. QED BY <1>7, <2>1
<1>11. walks[0] = CallsOnce(prog, Zero) BY <1>1, <1>9
<1>12. \A n \in 1 .. FuncCount : walks[n] = CallsOnce(prog, walks[n - 1]) BY <1>1, <1>9
<1>13. IsWalks(walks) BY <1>10, <1>11, <1>12 DEF IsWalks, X, Zero
<1>. QED BY <1>8, <1>13

\* Counting the callers' calls gives no fewer than Walks, and exactly these when calls go from
\* functions of higher rank to lower ones: no chain then has more than FuncCount calls.
LEMMA WalksFacts ==
  ASSUME prog \in Programs
  PROVE  /\ Walks(prog) \in [Funcs -> Nat]
         /\ \A f \in Funcs : Walks(prog)[f] <= CallsOnce(prog, Walks(prog))[f]
         /\ \A rank \in [Funcs -> 1 .. FuncCount] :
              (\A f, g \in Funcs : CalleeCounts(prog, g, f) > 0 => rank[f] < rank[g])
              => CallsOnce(prog, Walks(prog)) = Walks(prog)
<1>1. FuncCount \in Nat \ {0} BY FuncCountAssumption
<1>2. PICK w : IsWalks(w) /\ Walks(prog) = w[FuncCount] BY WalksExist
<1>3. /\ \A n \in 0 .. FuncCount : w[n] \in [Funcs -> Nat]
      /\ w[0] = CallsOnce(prog, [f \in Funcs |-> 0])
      /\ \A n \in 1 .. FuncCount : w[n] = CallsOnce(prog, w[n - 1])
  BY <1>2 DEF IsWalks
<1>4. FuncCount \in 0 .. FuncCount /\ FuncCount - 1 \in 0 .. FuncCount /\ FuncCount \in 1 .. FuncCount
  BY <1>1
<1>5. Walks(prog) \in [Funcs -> Nat] /\ Walks(prog) = CallsOnce(prog, w[FuncCount - 1])
  BY <1>2, <1>3, <1>4
<1> DEFINE Falls == {n \in 0 .. FuncCount : n # 0 /\ \E f \in Funcs : ~(w[n - 1][f] <= w[n][f])}
<1>6. Falls = {}
  <2> SUFFICES ASSUME Falls # {} PROVE FALSE OBVIOUS
  <2>1. Falls \in SUBSET (0 .. FuncCount) OBVIOUS
  <2>2. PICK n \in Falls : \A j \in Falls : n <= j
    <3>. HIDE DEF Falls
    <3>. QED BY <1>1, <2>1, SmallestNumber
  <2>3. n \in 1 .. FuncCount /\ n - 1 \in 0 .. FuncCount /\ \E f \in Funcs : ~(w[n - 1][f] <= w[n][f])
    BY <1>1
  <2>4. w[n] = CallsOnce(prog, w[n - 1]) /\ w[n - 1] \in [Funcs -> Nat] BY <1>3, <2>3
  <2>5. CASE n = 1
    <3> DEFINE Zero == [f \in Funcs |-> 0]
    <3>1. Zero \in [Funcs -> Nat] /\ \A f \in Funcs : Zero[f] <= w[0][f]
      <4>1. \A f \in Funcs : w[0][f] \in Nat BY <2>4, <2>5
      <4>. QED BY <4>1
    <3>2. w[0] = CallsOnce(prog, Zero) /\ w[0] \in [Funcs -> Nat] /\ w[1] = CallsOnce(prog, w[0])
      BY <1>3, <2>4, <2>5
    <3>. HIDE DEF Zero
    <3>3. \A f \in Funcs : CallsOnce(prog, Zero)[f] <= CallsOnce(prog, w[0])[f]
      BY <3>1, <3>2, CallsOnceFacts
    <3>. QED BY <2>3, <2>5, <3>2, <3>3
  <2>6. CASE n # 1
    <3>0. n \in Nat /\ n > 1 /\ n <= FuncCount BY <1>1, <2>3, <2>6
    <3>1. n - 1 \in 1 .. FuncCount /\ n - 1 - 1 \in 0 .. FuncCount /\ ~(n <= n - 1) BY <1>1, <3>0
    <3>2. n - 1 \notin Falls BY <2>2, <3>1
    <3>3. \A f \in Funcs : w[n - 1 - 1][f] <= w[n - 1][f] BY <2>3, <3>1, <3>2
    <3>4. w[n - 1] = CallsOnce(prog, w[n - 1 - 1]) /\ w[n - 1 - 1] \in [Funcs -> Nat] BY <1>3, <3>1
    <3>5. \A f \in Funcs : CallsOnce(prog, w[n - 1 - 1])[f] <= CallsOnce(prog, w[n - 1])[f]
      BY <2>4, <3>3, <3>4, CallsOnceFacts
    <3>. QED BY <2>3, <2>4, <3>4, <3>5
  <2>. QED BY <2>5, <2>6
<1>7. \A f \in Funcs : w[FuncCount - 1][f] <= Walks(prog)[f]
  <2>1. FuncCount \notin Falls /\ FuncCount # 0 BY <1>1, <1>6
  <2>. QED BY <1>2, <1>4, <2>1
<1>8. \A f \in Funcs : Walks(prog)[f] <= CallsOnce(prog, Walks(prog))[f]
  <2>1. w[FuncCount - 1] \in [Funcs -> Nat] BY <1>3, <1>4
  <2>2. \A f \in Funcs : CallsOnce(prog, w[FuncCount - 1])[f] <= CallsOnce(prog, Walks(prog))[f]
    BY <1>5, <1>7, <2>1, CallsOnceFacts
  <2>. QED BY <1>5, <2>2
<1>. HIDE DEF Falls
<1>9. ASSUME NEW rank \in [Funcs -> 1 .. FuncCount],
             \A f, g \in Funcs : CalleeCounts(prog, g, f) > 0 => rank[f] < rank[g]
      PROVE  CallsOnce(prog, Walks(prog)) = Walks(prog)
  <2> DEFINE Moves == {n \in 0 .. FuncCount - 1 :
                         \E f \in Funcs : n >= FuncCount - rank[f] /\ w[n][f] # w[n + 1][f]}
  <2>1. Moves = {}
    <3> SUFFICES ASSUME Moves # {} PROVE FALSE OBVIOUS
    <3>1. Moves \in SUBSET (0 .. FuncCount) BY <1>1
    <3>2. PICK n \in Moves : \A j \in Moves : n <= j
      <4>. HIDE DEF Moves
      <4>. QED BY <1>1, <3>1, SmallestNumber
    <3>3. PICK f \in Funcs : n >= FuncCount - rank[f] /\ w[n][f] # w[n + 1][f] OBVIOUS
    <3>4. n \in 0 .. FuncCount /\ n + 1 \in 1 .. FuncCount /\ n + 1 - 1 = n /\ n \in 0 .. FuncCount - 1
      BY <1>1
    <3>5. w[n + 1] = CallsOnce(prog, w[n]) /\ w[n] \in [Funcs -> Nat] BY <1>3, <3>4
    <3>6. rank[f] \in 1 .. FuncCount /\ \A g \in Callers(prog, f) : g \in Funcs /\ rank[f] < rank[g]
      BY <1>9 DEF Callers
    <3>7. \A g \in Funcs : rank[g] \in 1 .. FuncCount BY <1>9
    <3>8. CASE n = 0
      <4>1. rank[f] = FuncCount BY <1>1, <3>3, <3>6, <3>8
      <4>2. Callers(prog, f) = {} BY <1>1, <3>6, <3>7, <4>1
      <4> DEFINE Zero == [g \in Funcs |-> 0]
      <4>3. Zero \in [Funcs -> Nat] /\ w[0] = CallsOnce(prog, Zero) BY <1>3
      <4>. HIDE DEF Zero
      <4>4. CallsOnce(prog, Zero)[f] = CallsOnce(prog, w[n])[f] BY <3>5, <4>2, <4>3, CallsOnceFacts
      <4>. QED BY <3>3, <3>5, <3>8, <4>3, <4>4
    <3>9. CASE n # 0
      <4>1. n - 1 \in 0 .. FuncCount - 1 /\ n \in 1 .. FuncCount /\ ~(n <= n - 1) /\ n - 1 + 1 = n
        <5>1. n \in Nat /\ n > 0 /\ n < FuncCount BY <1>1, <3>4, <3>9
        <5>. QED BY <1>1, <5>1
      <4>2. n - 1 \notin Moves BY <3>2, <4>1
      <4>3. ASSUME NEW g \in Callers(prog, f) PROVE w[n - 1][g] = w[n][g]
        <5>1. g \in Funcs /\ rank[f] < rank[g] /\ rank[g] \in 1 .. FuncCount BY <3>6, <3>7
        <5>2. n - 1 >= FuncCount - rank[g] BY <1>1, <3>3, <3>4, <3>6, <5>1
        <5>. QED BY <4>1, <4>2, <5>1, <5>2
      <4>4. w[n] = CallsOnce(prog, w[n - 1]) /\ w[n - 1] \in [Funcs -> Nat] BY <1>1, <1>3, <4>1
      <4>5. CallsOnce(prog, w[n - 1])[f] = CallsOnce(prog, w[n])[f]
        BY <3>5, <4>3, <4>4, CallsOnceFacts
      <4>. QED BY <3>3, <3>5, <4>4, <4>5
    <3>. QED BY <3>8, <3>9
  <2>2. FuncCount - 1 \in 0 .. FuncCount - 1 /\ FuncCount - 1 + 1 = FuncCount BY <1>1
  <2>3. \A f \in Funcs : FuncCount - 1 >= FuncCount - rank[f] BY <1>1, <1>9
  <2>4. \A f \in Funcs : w[FuncCount - 1][f] = w[FuncCount][f] BY <2>1, <2>2, <2>3
  <2>5. w[FuncCount - 1] \in [Funcs -> Nat] /\ w[FuncCount] \in [Funcs -> Nat] BY <1>3, <1>4
  <2>6. w[FuncCount - 1] = w[FuncCount] BY <2>4, <2>5
  <2>. QED BY <1>2, <1>5, <2>6
<1>. QED BY <1>5, <1>8, <1>9

-----------------------------------------------------------------------------
\* The counts. Components above the current one are counted.
Above == {f \in Funcs : funcToSCCs[f] > scc}

\* The calls of f and the allocations of f when every function is called x times.
CallsInto(x, f) == [g \in Funcs |-> CalleeCounts(prog, g, f) * x[g]]
AllocationsOf(x) == [f \in Funcs |-> prog.allocs[f] * x[f]]

\* A function that is not yet counted is known to be called as often as those above call it,
\* unless it is on a cycle; the counts and the allocations of those above are right.
Tallied ==
    /\ \A f \in Funcs : ~(funcToSCCs[f] > scc) /\ ~HasCallCycle(funcToSCCs[f]) =>
         sccCallCounts[funcToSCCs[f]] =
           Capped((IF f = InitFunc THEN 1 ELSE 0) + SumFunctionOnSet(CallsInto(isCalleeCounts, f), Above))
    /\ \A f \in Above : /\ isCalleeCounts[f] >= Capped(Walks(prog)[f])
                        /\ ~Cyclic(prog) => isCalleeCounts[f] = Capped(Walks(prog)[f])
    /\ totalTypeAllocations = Capped(SumFunctionOnSet(AllocationsOf(isCalleeCounts), Above))

SumInv ==
    /\ phase = "scc" => /\ \A i \in 0 .. FuncCount : sccCallCounts[i] = 0
                        /\ totalTypeAllocations = 0
    /\ phase = "counts" => Tallied
    /\ phase = "closures" => CountsRight

\* The functions that call f are called x times: the calls of f.
LEMMA CallsIntoFacts ==
  ASSUME prog \in Programs, NEW x \in [Funcs -> Nat]
  PROVE  /\ \A f : CallsInto(x, f) \in [Funcs -> Nat]
         /\ AllocationsOf(x) \in [Funcs -> Nat]
         /\ \A A \in SUBSET Funcs : /\ \A f : SumFunctionOnSet(CallsInto(x, f), A) \in Nat
                                    /\ SumFunctionOnSet(AllocationsOf(x), A) \in Nat
         /\ \A f \in Funcs, A \in SUBSET Funcs :
              Callers(prog, f) \subseteq A =>
                CallsOnce(prog, x)[f] =
                  (IF f = InitFunc THEN 1 ELSE 0) + SumFunctionOnSet(CallsInto(x, f), A)
<1>1. ASSUME NEW f PROVE CallsInto(x, f) \in [Funcs -> Nat]
  <2> SUFFICES ASSUME NEW g \in Funcs PROVE CalleeCounts(prog, g, f) * x[g] \in Nat BY DEF CallsInto
  <2>1. CalleeCounts(prog, g, f) \in Nat /\ x[g] \in Nat BY CalleeCountFacts
  <2>. QED BY <2>1
<1>2. AllocationsOf(x) \in [Funcs -> Nat]
  <2> SUFFICES ASSUME NEW g \in Funcs PROVE prog.allocs[g] * x[g] \in Nat BY DEF AllocationsOf
  <2>1. prog.allocs[g] \in Nat /\ x[g] \in Nat BY ProgramsAssumption
  <2>. QED BY <2>1
<1>3. IsFiniteSet(Funcs) BY FuncsFinite
<1>4. ASSUME NEW A \in SUBSET Funcs
      PROVE  /\ \A f : SumFunctionOnSet(CallsInto(x, f), A) \in Nat
             /\ SumFunctionOnSet(AllocationsOf(x), A) \in Nat
  BY <1>1, <1>2, <1>3, SumFacts
<1>5. ASSUME NEW f \in Funcs, NEW A \in SUBSET Funcs, Callers(prog, f) \subseteq A
      PROVE  CallsOnce(prog, x)[f] =
               (IF f = InitFunc THEN 1 ELSE 0) + SumFunctionOnSet(CallsInto(x, f), A)
  <2> DEFINE C == Callers(prog, f)
             V == [g \in C |-> CalleeCounts(prog, g, f) * x[g]]
             W == CallsInto(x, f)
  <2>1. C \subseteq Funcs /\ C \in SUBSET C /\ IsFiniteSet(C) /\ IsFiniteSet(Funcs)
    <3>1. C \subseteq Funcs BY DEF Callers
    <3>. QED BY <1>3, <3>1, FS_Subset
  <2>2. W \in [Funcs -> Nat] /\ \A g \in C : V[g] = W[g] BY <1>1, <2>1 DEF CallsInto
  <2>3. V \in [C -> Nat]
    <3>1. \A g \in C : W[g] \in Nat BY <2>1, <2>2
    <3>. HIDE DEF W, C
    <3>. QED BY <2>2, <3>1
  <2>4. CallsOnce(prog, x)[f] = (IF f = InitFunc THEN 1 ELSE 0) + SumFunction(V) BY DEF CallsOnce
  <2>5. \A g \in A \ C : W[g] = 0
    <3> SUFFICES ASSUME NEW g \in A \ C PROVE W[g] = 0 OBVIOUS
    <3>1. g \in Funcs /\ CalleeCounts(prog, g, f) \in Nat /\ ~(CalleeCounts(prog, g, f) > 0)
      BY CalleeCountFacts DEF Callers
    <3>2. CalleeCounts(prog, g, f) = 0 /\ x[g] \in Nat BY <3>1
    <3>3. W[g] = 0 * x[g] BY <3>1, <3>2 DEF CallsInto
    <3>. QED BY <3>2, <3>3
  <2>6. /\ A \ C \in SUBSET Funcs /\ C \in SUBSET Funcs /\ C \cap (A \ C) = {}
        /\ C \cup (A \ C) = A
    BY <1>5, <2>1
  <2>. HIDE DEF C, V, W
  <2>7. SumFunction(V) = SumFunctionOnSet(V, C) BY <2>1, <2>3, SumFacts
  <2>8. SumFunctionOnSet(V, C) = SumFunctionOnSet(W, C) BY <2>1, <2>2, <2>3, SumsSame
  <2>9. SumFunctionOnSet(W, A \ C) = 0 BY <2>1, <2>2, <2>5, <2>6, SumOfZeros
  <2>10. SumFunctionOnSet(W, C \cup (A \ C)) = SumFunctionOnSet(W, C) + SumFunctionOnSet(W, A \ C)
    BY <2>1, <2>2, <2>6, SumOfUnion
  <2>11. SumFunctionOnSet(W, C) \in Nat BY <2>1, <2>2, <2>6, SumFacts
  <2>12. SumFunctionOnSet(W, A) = SumFunction(V)
    <3>1. SumFunctionOnSet(W, A) = SumFunctionOnSet(W, C) + SumFunctionOnSet(W, A \ C)
      BY <2>6, <2>10
    <3>2. SumFunctionOnSet(W, A) = SumFunctionOnSet(W, C) BY <2>9, <2>11, <3>1
    <3>. QED BY <2>7, <2>8, <3>2
  <2>. QED BY <2>4, <2>12 DEF W
<1>. QED BY <1>1, <1>2, <1>4, <1>5

\* Counts x at least y capped for the functions in A: the sums of what they weigh.
LEMMA CappedSums ==
  ASSUME NEW c \in [Funcs -> Nat], NEW x \in [Funcs -> Nat], NEW y \in [Funcs -> Nat],
         NEW v \in [Funcs -> Nat], NEW w \in [Funcs -> Nat], NEW A \in SUBSET Funcs,
         \A g \in Funcs : v[g] = c[g] * x[g] /\ w[g] = c[g] * y[g],
         \A g \in A : x[g] >= Capped(y[g])
  PROVE  SumFunctionOnSet(v, A) >= Capped(SumFunctionOnSet(w, A))
<1> DEFINE R == {p \in Nat \X Nat : p[1] >= Capped(p[2])}
<1>1. \A m, n : <<m, n>> \in R <=> m \in Nat /\ n \in Nat /\ m >= Capped(n) OBVIOUS
<1>2. R \in SUBSET (Nat \X Nat) OBVIOUS
<1>. HIDE DEF R
<1>3. <<0, 0>> \in R BY <1>1, MaxCallCountsAssumption DEF Capped
<1>4. \A m, n \in Nat, g \in A : <<m, n>> \in R => <<m + v[g], n + w[g]>> \in R
  <2> SUFFICES ASSUME NEW m \in Nat, NEW n \in Nat, NEW g \in A, <<m, n>> \in R
               PROVE  <<m + v[g], n + w[g]>> \in R
    OBVIOUS
  <2>1. m >= Capped(n) BY <1>1
  <2>2. v[g] >= Capped(w[g])
    <3>1. c[g] \in Nat /\ x[g] \in Nat /\ y[g] \in Nat /\ x[g] >= Capped(y[g]) OBVIOUS
    <3>2. c[g] * x[g] >= Capped(c[g] * y[g]) BY <3>1, CappedProducts
    <3>. QED BY <3>2
  <2>3. v[g] \in Nat /\ w[g] \in Nat OBVIOUS
  <2>4. m + v[g] >= Capped(n + w[g]) BY <2>1, <2>2, <2>3, CappedFacts
  <2>. QED BY <1>1, <2>3, <2>4
<1>5. IsFiniteSet(Funcs) /\ A \subseteq Funcs BY FuncsFinite
<1>6. <<SumFunctionOnSet(v, A), SumFunctionOnSet(w, A)>> \in R
  BY <1>2, <1>3, <1>4, <1>5, SumsRelated
<1>. QED BY <1>1, <1>6

\* The same for counts x that are y capped.
LEMMA CappedSumsSame ==
  ASSUME NEW c \in [Funcs -> Nat], NEW x \in [Funcs -> Nat], NEW y \in [Funcs -> Nat],
         NEW v \in [Funcs -> Nat], NEW w \in [Funcs -> Nat], NEW A \in SUBSET Funcs,
         \A g \in Funcs : v[g] = c[g] * x[g] /\ w[g] = c[g] * y[g],
         \A g \in A : x[g] = Capped(y[g])
  PROVE  Capped(SumFunctionOnSet(v, A)) = Capped(SumFunctionOnSet(w, A))
<1> DEFINE R == {p \in Nat \X Nat : Capped(p[1]) = Capped(p[2])}
<1>1. \A m, n : <<m, n>> \in R <=> m \in Nat /\ n \in Nat /\ Capped(m) = Capped(n) OBVIOUS
<1>2. R \in SUBSET (Nat \X Nat) /\ <<0, 0>> \in R OBVIOUS
<1>. HIDE DEF R
<1>3. \A a, b, e, d \in Nat :
        Capped(a) = Capped(b) /\ Capped(e) = Capped(d) => Capped(a + e) = Capped(b + d)
  BY CappedFacts
<1>4. \A m, n \in Nat, g \in A : <<m, n>> \in R => <<m + v[g], n + w[g]>> \in R
  <2> SUFFICES ASSUME NEW m \in Nat, NEW n \in Nat, NEW g \in A, <<m, n>> \in R
               PROVE  <<m + v[g], n + w[g]>> \in R
    OBVIOUS
  <2>1. Capped(m) = Capped(n) BY <1>1
  <2>2. Capped(v[g]) = Capped(w[g])
    <3>1. c[g] \in Nat /\ x[g] \in Nat /\ y[g] \in Nat /\ x[g] = Capped(y[g]) OBVIOUS
    <3>2. \A a, b, e \in Nat : a = Capped(b) => Capped(e * a) = Capped(e * b) BY CappedProducts
    <3>3. PICK a \in Nat, b \in Nat, e \in Nat : a = x[g] /\ b = y[g] /\ e = c[g] BY <3>1
    <3>4. a = Capped(b) BY <3>1, <3>3
    <3>5. Capped(e * a) = Capped(e * b) BY <3>2, <3>4
    <3>6. v[g] = e * a /\ w[g] = e * b BY <3>3
    <3>. QED BY <3>5, <3>6
  <2>3. v[g] \in Nat /\ w[g] \in Nat OBVIOUS
  <2>4. Capped(m + v[g]) = Capped(n + w[g]) BY <1>3, <2>1, <2>2, <2>3
  <2>. QED BY <1>1, <2>3, <2>4
<1>5. IsFiniteSet(Funcs) /\ A \subseteq Funcs BY FuncsFinite
<1>6. <<SumFunctionOnSet(v, A), SumFunctionOnSet(w, A)>> \in R
  BY <1>2, <1>4, <1>5, SumsRelated
<1>. QED BY <1>1, <1>6

\* Without recursion a call leads to a component of lower number, and no component is a cycle.
LEMMA UncyclicFacts ==
  ASSUME TypeInv, AllNumbered, edges = CallsOf(prog), ~Cyclic(prog)
  PROVE  /\ \A f, g \in Funcs : CalleeCounts(prog, g, f) > 0 => funcToSCCs[f] < funcToSCCs[g]
         /\ \A f \in Funcs : ~HasCallCycle(funcToSCCs[f])
<1>1. prog \in Programs /\ funcToSCCs \in [Funcs -> Nat] /\ edges \subseteq Funcs \X Funcs BY DEF TypeInv
<1>2. \A f \in Funcs : f \notin Reachable(edges, f) BY DEF Cyclic
<1>3. ASSUME NEW f \in Funcs, NEW g \in Funcs, f # g, Reaches(f, g), Reaches(g, f) PROVE FALSE
  <2>1. g \in Reachable(edges, f) BY <1>1, <1>3, ReachableFacts
  <2>2. f \in Reachable(edges, f) BY <1>3, <2>1 DEF Reachable, Reaches
  <2>. QED BY <1>2, <2>2
<1>4. \A f, g \in Funcs : CalleeCounts(prog, f, g) > 0 => <<f, g>> \in edges BY <1>1, CalleeCountFacts
<1>5. ASSUME NEW f \in Funcs, <<f, f>> \in edges PROVE FALSE
  <2>1. f \in Reachable(edges, f) BY <1>5 DEF Reachable
  <2>. QED BY <1>2, <2>1
<1>6. \A f, g \in Funcs : funcToSCCs[f] = funcToSCCs[g] => f = g
  BY <1>3 DEF AllNumbered, Numbered
<1>7. ASSUME NEW f \in Funcs, NEW g \in Funcs, CalleeCounts(prog, g, f) > 0
      PROVE  funcToSCCs[f] < funcToSCCs[g]
  <2>1. <<g, f>> \in edges /\ f # g BY <1>4, <1>5, <1>7
  <2>2. funcToSCCs[f] <= funcToSCCs[g] BY <2>1 DEF AllNumbered, Numbered
  <2>3. funcToSCCs[f] # funcToSCCs[g] BY <1>6, <2>1
  <2>4. funcToSCCs[f] \in Nat /\ funcToSCCs[g] \in Nat BY <1>1
  <2>. QED BY <2>2, <2>3, <2>4
<1>8. ASSUME NEW f \in Funcs PROVE ~HasCallCycle(funcToSCCs[f])
  <2>1. FuncsInSCC(funcToSCCs[f]) = {f} BY <1>6 DEF FuncsInSCC
  <2>2. ~(Cardinality({f}) > 1) BY MoreThanOne
  <2>3. ~(CalleeCounts(prog, f, f) > 0) BY <1>4, <1>5
  <2>. QED BY <2>1, <2>2, <2>3 DEF HasCallCycle
<1>. QED BY <1>7, <1>8

\* A component that is no cycle is one function, which only functions of higher components call.
LEMMA NoCycleFacts ==
  ASSUME TypeInv, AllNumbered, edges = CallsOf(prog), NEW f \in Funcs, ~HasCallCycle(funcToSCCs[f])
  PROVE  /\ FuncsInSCC(funcToSCCs[f]) = {f}
         /\ \A g \in Callers(prog, f) : g \in Funcs /\ funcToSCCs[g] > funcToSCCs[f]
<1>1. prog \in Programs /\ funcToSCCs \in [Funcs -> Nat] BY DEF TypeInv
<1>2. f \in FuncsInSCC(funcToSCCs[f]) /\ FuncsInSCC(funcToSCCs[f]) \in SUBSET Funcs BY DEF FuncsInSCC
<1>3. /\ ~(Cardinality(FuncsInSCC(funcToSCCs[f])) > 1)
      /\ ~(CalleeCounts(prog, f, f) > 0)
  BY <1>2 DEF HasCallCycle
<1>4. FuncsInSCC(funcToSCCs[f]) = {f} BY <1>2, <1>3, MoreThanOne
<1>5. ASSUME NEW g \in Callers(prog, f) PROVE g \in Funcs /\ funcToSCCs[g] > funcToSCCs[f]
  <2>1. g \in Funcs /\ CalleeCounts(prog, g, f) > 0 BY DEF Callers
  <2>2. <<g, f>> \in edges /\ g # f BY <1>1, <1>3, <2>1, CalleeCountFacts
  <2>3. funcToSCCs[f] <= funcToSCCs[g] BY <2>1, <2>2 DEF AllNumbered, Numbered
  <2>4. funcToSCCs[g] # funcToSCCs[f] BY <1>4, <2>1, <2>2 DEF FuncsInSCC
  <2>5. funcToSCCs[f] \in Nat /\ funcToSCCs[g] \in Nat BY <1>1, <2>1
  <2>. QED BY <2>1, <2>3, <2>4, <2>5
<1>. QED BY <1>4, <1>5

\* What the functions above call determines the count of one that is on no cycle.
LEMMA CountRightSoFar ==
  ASSUME TypeInv, AllNumbered, CountInv, Tallied, phase = "counts",
         NEW f \in Funcs, funcToSCCs[f] = scc, ~HasCallCycle(scc)
  PROVE  /\ sccCallCounts[scc] >= Capped(Walks(prog)[f])
         /\ ~Cyclic(prog) => sccCallCounts[scc] = Capped(Walks(prog)[f])
<1> DEFINE Base == IF f = InitFunc THEN 1 ELSE 0
           V == CallsInto(isCalleeCounts, f)
           W == CallsInto(Walks(prog), f)
           c == [g \in Funcs |-> CalleeCounts(prog, g, f)]
           sumV == SumFunctionOnSet(V, Above)
           sumW == SumFunctionOnSet(W, Above)
<1>1. /\ prog \in Programs /\ edges = CallsOf(prog) /\ isCalleeCounts \in [Funcs -> Nat]
      /\ funcToSCCs \in [Funcs -> Nat] /\ scc \in Int
  BY DEF TypeInv, CountInv
<1>2. /\ Walks(prog) \in [Funcs -> Nat]
      /\ \A g \in Funcs : Walks(prog)[g] <= CallsOnce(prog, Walks(prog))[g]
      /\ CallsOnce(prog, Walks(prog)) \in [Funcs -> Nat]
  BY <1>1, WalksFacts, CallsOnceFacts
<1>3. Above \in SUBSET Funcs /\ \A g \in Callers(prog, f) : g \in Above
  BY <1>1, NoCycleFacts DEF Above
<1>4. /\ V \in [Funcs -> Nat] /\ W \in [Funcs -> Nat] /\ sumV \in Nat /\ sumW \in Nat
      /\ CallsOnce(prog, Walks(prog))[f] = Base + sumW
  BY <1>1, <1>2, <1>3, CallsIntoFacts
<1>5. c \in [Funcs -> Nat] BY <1>1, CalleeCountFacts
<1>6. \A g \in Funcs : V[g] = c[g] * isCalleeCounts[g] /\ W[g] = c[g] * Walks(prog)[g]
  BY DEF CallsInto
<1>7. sccCallCounts[scc] = Capped(Base + sumV)
  <2>1. ~(funcToSCCs[f] > scc) BY <1>1
  <2>. QED BY <2>1 DEF Tallied
<1>8. Base \in Nat OBVIOUS
<1>. HIDE DEF Base, V, W, c
<1>9. sccCallCounts[scc] >= Capped(Walks(prog)[f])
  <2>1. \A g \in Above : isCalleeCounts[g] >= Capped(Walks(prog)[g]) BY DEF Tallied
  <2>2. sumV >= Capped(sumW) BY <1>1, <1>2, <1>3, <1>4, <1>5, <1>6, <2>1, CappedSums
  <2>. HIDE DEF sumV, sumW
  <2>3. \A a, b, d \in Nat : a >= Capped(b) => d + a \in Nat /\ Capped(d + a) >= Capped(d + b)
    BY MaxCallCountsAssumption DEF Capped
  <2>4. Capped(Base + sumV) >= Capped(Base + sumW) BY <1>4, <1>8, <2>2, <2>3
  <2>5. Walks(prog)[f] \in Nat /\ Base + sumW \in Nat /\ Walks(prog)[f] <= Base + sumW
    BY <1>2, <1>4, <1>8
  <2>6. Capped(Walks(prog)[f]) <= Capped(Base + sumW) BY <2>5, CappedFacts
  <2>7. /\ Capped(Walks(prog)[f]) \in Nat /\ Capped(Base + sumW) \in Nat
        /\ Capped(Base + sumV) \in Nat
    <3>1. \A a \in Nat : Capped(a) \in Nat BY CappedFacts
    <3>2. Base + sumV \in Nat BY <1>4, <1>8
    <3>. QED BY <2>5, <3>1, <3>2
  <2>. QED BY <1>7, <2>4, <2>6, <2>7
<1>10. ASSUME ~Cyclic(prog) PROVE sccCallCounts[scc] = Capped(Walks(prog)[f])
  <2>1. \A g \in Above : isCalleeCounts[g] = Capped(Walks(prog)[g]) BY <1>10 DEF Tallied
  <2>2. Capped(sumV) = Capped(sumW)
    <3> DEFINE calls == Walks(prog)
    <3>1. /\ isCalleeCounts \in [Funcs -> Nat] /\ calls \in [Funcs -> Nat] /\ Above \in SUBSET Funcs
          /\ V \in [Funcs -> Nat] /\ W \in [Funcs -> Nat]
      BY <1>1, <1>2, <1>3, <1>4
    <3>2. /\ \A g \in Funcs : V[g] = c[g] * isCalleeCounts[g] /\ W[g] = c[g] * calls[g]
          /\ \A g \in Above : isCalleeCounts[g] = Capped(calls[g])
      BY <1>6, <2>1
    <3>. HIDE DEF calls
    <3>. QED BY <1>5, <3>1, <3>2, CappedSumsSame
  <2>. HIDE DEF sumV, sumW
  <2>3. \A a, b, d \in Nat : Capped(a) = Capped(b) => Capped(d + a) = Capped(d + b)
    BY MaxCallCountsAssumption DEF Capped
  <2>4. Capped(Base + sumV) = Capped(Base + sumW) BY <1>4, <1>8, <2>2, <2>3
  <2>5. funcToSCCs \in [Funcs -> 1 .. FuncCount]
    <3>1. \A g \in Funcs : funcToSCCs[g] \in 1 .. sccCount - 1 /\ sccCount - 1 \in 0 .. FuncCount
      BY FewSCCs DEF CountInv
    <3>2. FuncCount \in Nat /\ sccCount \in Nat BY FuncCountAssumption DEF TypeInv
    <3>3. \A g \in Funcs : funcToSCCs[g] \in 1 .. FuncCount BY <3>1, <3>2
    <3>. QED BY <1>1, <3>3
  <2>6. \A g, h \in Funcs : CalleeCounts(prog, h, g) > 0 => funcToSCCs[g] < funcToSCCs[h]
    BY <1>1, <1>10, UncyclicFacts
  <2>7. CallsOnce(prog, Walks(prog)) = Walks(prog) BY <1>1, <2>5, <2>6, WalksFacts
  <2>. QED BY <1>4, <1>7, <2>4, <2>7
<1>. QED BY <1>9, <1>10

\* One component is counted: its functions join those above, and what they call is added.
LEMMA CountSCCTallies ==
  ASSUME TypeInv, AllNumbered, CountInv, Tallied, CountSCC
  PROVE  Tallied'
<1> DEFINE C == FuncsInSCC(scc)
           count == IF HasCallCycle(scc) THEN MaxCallCounts ELSE sccCallCounts[scc]
           old == isCalleeCounts
           new == [f \in Funcs |-> IF f \in C THEN Capped(isCalleeCounts[f] + count)
                                   ELSE isCalleeCounts[f]]
           Base(f) == IF f = InitFunc THEN 1 ELSE 0
           Sum(v, A) == SumFunctionOnSet(v, A)
<1>1. /\ phase = "counts" /\ scc > 0 /\ scc' = scc - 1
      /\ sccCallCounts' = [i \in DOMAIN sccCallCounts |->
                             IF i = scc THEN count
                             ELSE Capped(sccCallCounts[i] + CallsBetween(scc, i, count))]
      /\ isCalleeCounts' = new
      /\ totalTypeAllocations' =
           Capped(totalTypeAllocations + SumFunction([f \in C |-> prog.allocs[f] * count]))
      /\ UNCHANGED <<prog, funcToSCCs>>
  BY DEF CountSCC, sccVars
<1>2. /\ prog \in Programs /\ edges = CallsOf(prog) /\ old \in [Funcs -> Nat]
      /\ sccCallCounts \in [0 .. FuncCount -> Nat] /\ Counting /\ Filled
      /\ funcToSCCs \in [Funcs -> Nat] /\ scc \in Int /\ MaxCallCounts \in Nat
  BY <1>1, MaxCallCountsAssumption DEF TypeInv, CountInv
<1>3. /\ \A f \in Funcs : funcToSCCs[f] \in 0 .. FuncCount
      /\ scc \in 0 .. FuncCount
  <2>1. /\ sccCount - 1 \in 0 .. FuncCount
        /\ \A f \in Funcs : funcToSCCs[f] \in 1 .. sccCount - 1 /\ funcToSCCs[f] \in 0 .. FuncCount
    BY <1>2, FewSCCs
  <2>2. scc \in 0 .. sccCount - 1 BY <1>2 DEF Counting
  <2>3. sccCount \in Nat /\ FuncCount \in Nat BY FuncCountAssumption DEF TypeInv
  <2>. QED BY <2>1, <2>2, <2>3
<1>4. count \in Nat BY <1>2, <1>3
<1>5. /\ C \in SUBSET Funcs /\ Above \in SUBSET Funcs /\ Above \cap C = {}
      /\ \A f \in C : f \in Funcs /\ funcToSCCs[f] = scc
      /\ Above' = Above \cup C
  <2>1. \A f \in Funcs : funcToSCCs[f] \in Nat /\ (funcToSCCs[f] > scc - 1 <=> funcToSCCs[f] >= scc)
    BY <1>2
  <2>. QED BY <1>1, <1>2, <2>1 DEF FuncsInSCC, Above
<1>6. ASSUME NEW f \in C PROVE /\ count >= Capped(Walks(prog)[f]) /\ count <= MaxCallCounts
                               /\ ~Cyclic(prog) => count = Capped(Walks(prog)[f])
  <2>1. Walks(prog)[f] \in Nat BY <1>2, <1>5, WalksFacts
  <2>2. Capped(Walks(prog)[f]) \in Nat /\ Capped(Walks(prog)[f]) <= MaxCallCounts
    BY <2>1, CappedFacts
  <2>3. CASE HasCallCycle(scc)
    <3>1. Cyclic(prog) BY <1>2, <1>5, <2>3, UncyclicFacts
    <3>. QED BY <1>2, <2>2, <2>3, <3>1
  <2>4. CASE ~HasCallCycle(scc)
    <3>1. sccCallCounts[scc] = Capped(Base(f) + Sum(CallsInto(old, f), Above))
      <4>1. f \in Funcs /\ ~(funcToSCCs[f] > scc) /\ ~HasCallCycle(funcToSCCs[f])
        BY <1>2, <1>5, <2>4
      <4>. QED BY <1>5, <4>1 DEF Tallied
    <3>2. Base(f) + Sum(CallsInto(old, f), Above) \in Nat
      <4>1. Sum(CallsInto(old, f), Above) \in Nat BY <1>2, <1>5, CallsIntoFacts
      <4>2. Base(f) \in Nat OBVIOUS
      <4>. HIDE DEF Base, Sum
      <4>. QED BY <4>1, <4>2
    <3>3. sccCallCounts[scc] <= MaxCallCounts BY <3>1, <3>2, CappedFacts
    <3>. QED BY <1>1, <1>5, <2>4, <3>3, CountRightSoFar
  <2>. QED BY <2>3, <2>4
<1>7. /\ new \in [Funcs -> Nat]
      /\ \A f \in C : new[f] = count
      /\ \A f \in Above : new[f] = old[f]
  <2>1. \A f \in C : old[f] = 0
    <3>1. \A f \in C : f \in Funcs /\ ~(funcToSCCs[f] > scc) BY <1>2, <1>5
    <3>. QED BY <1>2, <3>1 DEF Counting
  <2>2. \A f \in C : new[f] = count
    <3> SUFFICES ASSUME NEW f \in C PROVE Capped(old[f] + count) = count BY <1>5
    <3>1. old[f] + count = count /\ count <= MaxCallCounts BY <1>4, <1>6, <2>1
    <3>. QED BY <1>4, <3>1, CappedFacts
  <2>3. \A f \in Above : new[f] = old[f] BY <1>5
  <2>4. \A f \in Funcs : new[f] \in Nat
    <3>1. \A f \in Funcs \ C : new[f] = old[f] /\ old[f] \in Nat BY <1>2
    <3>. HIDE DEF new
    <3>. QED BY <1>4, <2>2, <3>1
  <2>. QED BY <2>2, <2>3, <2>4
<1>. HIDE DEF C, count, new, Base
<1>8. IsFiniteSet(Funcs) /\ IsFiniteSet(C) BY <1>5, FuncsFinite, FS_Subset
<1>9. ASSUME NEW v \in [Funcs -> Nat], NEW w \in [Funcs -> Nat], \A f \in Above : v[f] = w[f],
             NEW u \in [C -> Nat], \A f \in C : w[f] = u[f]
      PROVE  Sum(w, Above \cup C) = Sum(v, Above) + SumFunction(u)
  <2>1. Sum(w, Above \cup C) = Sum(w, Above) + Sum(w, C) BY <1>5, <1>8, SumOfUnion
  <2>2. Sum(v, Above) = Sum(w, Above) BY <1>5, <1>8, <1>9, SumsSame
  <2>3. SumFunction(u) = Sum(u, C) BY <1>8, SumFacts
  <2>4. Sum(w, C) = Sum(u, C) BY <1>5, <1>8, <1>9, SumsSame
  <2>. QED BY <2>1, <2>2, <2>3, <2>4
<1>10. ASSUME NEW f \in Funcs, ~(funcToSCCs[f] > scc - 1), ~HasCallCycle(funcToSCCs[f])
       PROVE  sccCallCounts'[funcToSCCs[f]] = Capped(Base(f) + Sum(CallsInto(new, f), Above \cup C))
  <2> DEFINE u == [g \in C |-> CalleeCounts(prog, g, f) * count]
             P == C \X {f}
             w == [e \in P |-> CalleeCounts(prog, e[1], e[2]) * count]
             sumOld == Sum(CallsInto(old, f), Above)
  <2>1. ~(funcToSCCs[f] > scc) /\ funcToSCCs[f] # scc BY <1>2, <1>10
  <2>2. sccCallCounts'[funcToSCCs[f]] =
          Capped(sccCallCounts[funcToSCCs[f]] + CallsBetween(scc, funcToSCCs[f], count))
    BY <1>1, <1>2, <1>3, <2>1
  <2>3. sccCallCounts[funcToSCCs[f]] = Capped(Base(f) + sumOld)
    BY <1>10, <2>1 DEF Tallied, Base
  <2>4. FuncsInSCC(funcToSCCs[f]) = {f} BY <1>2, <1>10, NoCycleFacts
  <2>5. CallsBetween(scc, funcToSCCs[f], count) = SumFunction(w) BY <2>4 DEF CallsBetween, C
  <2>6. u \in [C -> Nat]
    <3> SUFFICES ASSUME NEW g \in C PROVE CalleeCounts(prog, g, f) * count \in Nat OBVIOUS
    <3>1. CalleeCounts(prog, g, f) \in Nat BY <1>2, CalleeCountFacts
    <3>. QED BY <1>4, <3>1
  <2>7. w \in [P -> Nat] /\ P = C \X {f}
    <3> SUFFICES ASSUME NEW e \in P PROVE CalleeCounts(prog, e[1], e[2]) * count \in Nat OBVIOUS
    <3>1. CalleeCounts(prog, e[1], e[2]) \in Nat BY <1>2, CalleeCountFacts
    <3>. QED BY <1>4, <3>1
  <2>8. \A g \in C : w[<<g, f>>] = u[g] OBVIOUS
  <2>9. /\ CallsInto(old, f) \in [Funcs -> Nat] /\ CallsInto(new, f) \in [Funcs -> Nat]
        /\ sumOld \in Nat
    BY <1>2, <1>5, <1>7, CallsIntoFacts
  <2>10. /\ \A g \in Above : CallsInto(old, f)[g] = CallsInto(new, f)[g]
         /\ \A g \in C : CallsInto(new, f)[g] = u[g]
    BY <1>5, <1>7 DEF CallsInto
  <2>. HIDE DEF u, w, P
  <2>11. SumFunction(w) = SumFunction(u) BY <1>8, <2>6, <2>7, <2>8, SumOfPairs
  <2>12. Sum(CallsInto(new, f), Above \cup C) = sumOld + SumFunction(u) BY <1>9, <2>6, <2>9, <2>10
  <2>13. SumFunction(u) \in Nat /\ Base(f) \in Nat
    <3>1. SumFunction(u) = Sum(u, C) /\ C \in SUBSET C BY <1>8, <2>6, SumFacts
    <3>2. Sum(u, C) \in Nat BY <1>8, <2>6, SumFacts
    <3>. QED BY <3>1, <3>2 DEF Base
  <2>. HIDE DEF sumOld
  <2>14. Capped(Capped(Base(f) + sumOld) + SumFunction(u)) = Capped(Base(f) + sumOld + SumFunction(u))
    <3>1. Base(f) + sumOld \in Nat BY <2>9, <2>13
    <3>. QED BY <2>13, <3>1, CappedFacts
  <2>15. Base(f) + sumOld + SumFunction(u) = Base(f) + (sumOld + SumFunction(u)) BY <2>9, <2>13
  <2>. QED BY <2>2, <2>3, <2>5, <2>11, <2>12, <2>14, <2>15
<1>11. totalTypeAllocations' = Capped(Sum(AllocationsOf(new), Above \cup C))
  <2> DEFINE u == [f \in C |-> prog.allocs[f] * count]
             sumOld == Sum(AllocationsOf(old), Above)
  <2>1. totalTypeAllocations = Capped(sumOld) BY DEF Tallied
  <2>2. u \in [C -> Nat]
    <3> SUFFICES ASSUME NEW g \in C PROVE prog.allocs[g] * count \in Nat OBVIOUS
    <3>1. prog.allocs[g] \in Nat BY <1>2, <1>5, ProgramsAssumption
    <3>. QED BY <1>4, <3>1
  <2>3. /\ AllocationsOf(old) \in [Funcs -> Nat] /\ AllocationsOf(new) \in [Funcs -> Nat]
        /\ sumOld \in Nat
    BY <1>2, <1>5, <1>7, CallsIntoFacts
  <2>4. /\ \A g \in Above : AllocationsOf(old)[g] = AllocationsOf(new)[g]
        /\ \A g \in C : AllocationsOf(new)[g] = u[g]
    BY <1>5, <1>7 DEF AllocationsOf
  <2>5. totalTypeAllocations' = Capped(Capped(sumOld) + SumFunction(u)) BY <1>1, <2>1
  <2>. HIDE DEF u
  <2>6. Sum(AllocationsOf(new), Above \cup C) = sumOld + SumFunction(u) BY <1>9, <2>2, <2>3, <2>4
  <2>7. SumFunction(u) \in Nat
    <3>1. SumFunction(u) = Sum(u, C) /\ C \in SUBSET C BY <1>8, <2>2, SumFacts
    <3>. QED BY <1>8, <2>2, <3>1, SumFacts
  <2>. HIDE DEF sumOld
  <2>. QED BY <2>3, <2>5, <2>6, <2>7, CappedFacts
<1>12. ASSUME NEW f \in Above \cup C
       PROVE  /\ new[f] >= Capped(Walks(prog)[f])
              /\ ~Cyclic(prog) => new[f] = Capped(Walks(prog)[f])
  <2>1. CASE f \in C BY <1>6, <1>7, <2>1
  <2>2. CASE f \in Above BY <1>7, <2>2 DEF Tallied
  <2>. QED BY <2>1, <2>2
<1>13. /\ \A f : CallsInto(isCalleeCounts, f)' = CallsInto(new, f)
       /\ AllocationsOf(isCalleeCounts)' = AllocationsOf(new)
       /\ \A i : HasCallCycle(i)' <=> HasCallCycle(i)
       /\ Walks(prog)' = Walks(prog) /\ (Cyclic(prog)' <=> Cyclic(prog))
  BY <1>1 DEF CallsInto, AllocationsOf, HasCallCycle, FuncsInSCC
<1>14. (\A f \in Funcs : ~(funcToSCCs[f] > scc) /\ ~HasCallCycle(funcToSCCs[f]) =>
          sccCallCounts[funcToSCCs[f]] =
            Capped((IF f = InitFunc THEN 1 ELSE 0)
                     + SumFunctionOnSet(CallsInto(isCalleeCounts, f), Above)))'
  <2> SUFFICES ASSUME NEW f \in Funcs, ~(funcToSCCs[f] > scc - 1), ~HasCallCycle(funcToSCCs[f])'
               PROVE  sccCallCounts'[funcToSCCs[f]] =
                        Capped((IF f = InitFunc THEN 1 ELSE 0)
                                 + SumFunctionOnSet(CallsInto(isCalleeCounts, f)', Above'))
    BY <1>1
  <2>1. ~HasCallCycle(funcToSCCs[f]) BY <1>1, <1>13
  <2>2. sccCallCounts'[funcToSCCs[f]] = Capped(Base(f) + Sum(CallsInto(new, f), Above \cup C))
    BY <1>10, <2>1
  <2>. QED BY <1>5, <1>13, <2>2 DEF Base
<1>15. (\A f \in Above : /\ isCalleeCounts[f] >= Capped(Walks(prog)[f])
                         /\ ~Cyclic(prog) => isCalleeCounts[f] = Capped(Walks(prog)[f]))'
  BY <1>1, <1>5, <1>12, <1>13
<1>16. (totalTypeAllocations = Capped(SumFunctionOnSet(AllocationsOf(isCalleeCounts), Above)))'
  BY <1>5, <1>11, <1>13
<1>. QED BY <1>14, <1>15, <1>16 DEF Tallied

\* Nothing is counted yet but the call of the init function.
LEMMA BeginCountsTallies ==
  ASSUME TypeInv, AllNumbered, CountInv, SumInv, phase = "scc", BeginCounts
  PROVE  Tallied'
<1> DEFINE Zero == [f \in Funcs |-> 0]
<1>1. /\ scc' = sccCount - 1
      /\ sccCallCounts' = [sccCallCounts EXCEPT ![funcToSCCs[InitFunc]] = 1]
      /\ UNCHANGED <<prog, isCalleeCounts, totalTypeAllocations, sccCount, funcToSCCs>>
  BY DEF BeginCounts, sccVars
<1>2. /\ prog \in Programs /\ edges = CallsOf(prog) /\ isCalleeCounts \in [Funcs -> Nat]
      /\ sccCallCounts \in [0 .. FuncCount -> Nat] /\ Filled
      /\ \A i \in 0 .. FuncCount : sccCallCounts[i] = 0
      /\ totalTypeAllocations = 0
      /\ funcToSCCs \in [Funcs -> Nat] /\ sccCount \in Nat
  BY DEF TypeInv, CountInv, SumInv
<1>3. InitFunc \in Funcs /\ MaxCallCounts \in Nat \ {0}
  BY FuncCountAssumption, MaxCallCountsAssumption DEF Funcs, InitFunc
<1>4. \A f \in Funcs : funcToSCCs[f] \in 1 .. sccCount - 1 /\ funcToSCCs[f] \in 0 .. FuncCount
  BY <1>2, FewSCCs
<1>5. Above' = {} BY <1>1, <1>2, <1>4 DEF Above
<1>6. IsFiniteSet(Funcs) BY FuncsFinite
<1>7. \A f : CallsInto(isCalleeCounts, f)' = CallsInto(isCalleeCounts, f)
  BY <1>1 DEF CallsInto
<1>8. AllocationsOf(isCalleeCounts)' = AllocationsOf(isCalleeCounts) BY <1>1 DEF AllocationsOf
<1>9. \A f : SumFunctionOnSet(CallsInto(isCalleeCounts, f), {}) = 0
  <2> SUFFICES ASSUME NEW f PROVE SumFunctionOnSet(CallsInto(isCalleeCounts, f), {}) = 0 OBVIOUS
  <2>1. CallsInto(isCalleeCounts, f) \in [Funcs -> Nat] BY <1>2, CallsIntoFacts
  <2>. QED BY <1>6, <2>1, SumFacts
<1>10. SumFunctionOnSet(AllocationsOf(isCalleeCounts), {}) = 0
  <2>1. AllocationsOf(isCalleeCounts) \in [Funcs -> Nat] BY <1>2, CallsIntoFacts
  <2>. QED BY <1>6, <2>1, SumFacts
<1>11. ASSUME NEW f \in Funcs, ~HasCallCycle(funcToSCCs[f])
       PROVE  sccCallCounts'[funcToSCCs[f]] = Capped((IF f = InitFunc THEN 1 ELSE 0) + 0)
  <2>1. FuncsInSCC(funcToSCCs[f]) = {f} BY <1>2, <1>11, NoCycleFacts
  <2>2. funcToSCCs[f] = funcToSCCs[InitFunc] <=> f = InitFunc BY <1>3, <2>1 DEF FuncsInSCC
  <2>3. Capped(1 + 0) = 1 /\ Capped(0 + 0) = 0 BY <1>3 DEF Capped
  <2>. QED BY <1>1, <1>2, <1>3, <1>4, <2>2, <2>3
<1>12. \A i : HasCallCycle(i)' <=> HasCallCycle(i) BY <1>1 DEF HasCallCycle, FuncsInSCC
<1>13. 0 = Capped(0) BY <1>3 DEF Capped
<1>. QED BY <1>1, <1>2, <1>5, <1>7, <1>8, <1>9, <1>10, <1>11, <1>12, <1>13 DEF Tallied

\* All components are counted.
LEMMA AllTallied ==
  ASSUME TypeInv, AllNumbered, CountInv, Tallied, scc = 0
  PROVE  CountsRight
<1>1. /\ prog \in Programs /\ funcToSCCs \in [Funcs -> Nat] /\ isCalleeCounts \in [Funcs -> Nat]
  BY DEF TypeInv, CountInv
<1>2. Above = Funcs BY <1>1 DEF Above, AllNumbered
<1>3. \A f \in Funcs : isCalleeCounts[f] >= Capped(Walks(prog)[f]) BY <1>2 DEF Tallied
<1>4. ASSUME ~Cyclic(prog)
      PROVE  /\ \A f \in Funcs : isCalleeCounts[f] = Capped(Walks(prog)[f])
             /\ totalTypeAllocations =
                  Capped(SumFunction([f \in Funcs |-> prog.allocs[f] * Walks(prog)[f]]))
  <2> DEFINE V == AllocationsOf(isCalleeCounts)
             W == AllocationsOf(Walks(prog))
             calls == Walks(prog)
             c == prog.allocs
  <2>1. \A f \in Funcs : isCalleeCounts[f] = Capped(Walks(prog)[f]) BY <1>2, <1>4 DEF Tallied
  <2>2. totalTypeAllocations = Capped(SumFunctionOnSet(V, Funcs)) BY <1>2 DEF Tallied
  <2>3. calls \in [Funcs -> Nat] BY <1>1, WalksFacts
  <2>4. /\ V \in [Funcs -> Nat] /\ W \in [Funcs -> Nat] /\ IsFiniteSet(Funcs)
        /\ c \in [Funcs -> Nat] /\ Funcs \in SUBSET Funcs
    BY <1>1, <2>3, CallsIntoFacts, FuncsFinite, ProgramsAssumption
  <2>5. \A g \in Funcs : V[g] = c[g] * isCalleeCounts[g] /\ W[g] = c[g] * calls[g]
    BY DEF AllocationsOf
  <2>6. W = [f \in Funcs |-> prog.allocs[f] * Walks(prog)[f]] BY DEF AllocationsOf
  <2>7. \A g \in Funcs : isCalleeCounts[g] = Capped(calls[g]) BY <2>1
  <2>. HIDE DEF V, W, calls, c
  <2>8. Capped(SumFunctionOnSet(V, Funcs)) = Capped(SumFunctionOnSet(W, Funcs))
    <3>1. isCalleeCounts \in [Funcs -> Nat] BY <1>1
    <3>. QED BY <2>3, <2>4, <2>5, <2>7, <3>1, CappedSumsSame
  <2>9. SumFunction(W) = SumFunctionOnSet(W, Funcs) BY <2>4, SumFacts
  <2>10. totalTypeAllocations = Capped(SumFunction(W)) BY <2>2, <2>8, <2>9
  <2>11. totalTypeAllocations =
           Capped(SumFunction([f \in Funcs |-> prog.allocs[f] * Walks(prog)[f]]))
    BY <2>6, <2>10
  <2>. QED BY <2>1, <2>11
<1>. QED BY <1>3, <1>4 DEF CountsRight

LEMMA InitSums == Init => SumInv
<1> SUFFICES ASSUME Init PROVE SumInv OBVIOUS
<1>1. /\ phase = "scc" /\ sccCallCounts = [i \in 0 .. FuncCount |-> 0] /\ totalTypeAllocations = 0
  BY DEF Init, CGInit
<1>. QED BY <1>1 DEF SumInv

\* Every step keeps SumInv.
LEMMA NextSums == CGInv /\ CountInv /\ SumInv /\ [Next]_vars => SumInv'
<1> SUFFICES ASSUME CGInv, CountInv, SumInv, [Next]_vars PROVE SumInv' OBVIOUS
<1>1. TypeInv BY DEF CGInv
<1>2. ASSUME Connecting, UNCHANGED <<phase, sccCallCounts, totalTypeAllocations>> PROVE SumInv'
  BY <1>2 DEF SumInv, Connecting
<1>3. ASSUME NEW f \in Funcs, Root(f) PROVE SumInv' BY <1>2, <1>3 DEF Root, Enter, countVars
<1>4. ASSUME NEW f \in Funcs, Consider(f) PROVE SumInv'
  BY <1>2, <1>4 DEF Consider, Enter, countVars
<1>5. CASE Leave BY <1>2, <1>5 DEF Leave, countVars
<1>6. CASE BeginCounts
  <2>1. Connected /\ phase = "scc" /\ phase' = "counts" BY <1>6 DEF BeginCounts
  <2>2. AllNumbered BY <1>1, <2>1, ConnectedNumbered DEF Connected, CGInv
  <2>3. Tallied' BY <1>1, <1>6, <2>1, <2>2, BeginCountsTallies
  <2>. QED BY <2>1, <2>3 DEF SumInv
<1>7. CASE CountSCC
  <2>1. phase = "counts" /\ phase' = phase BY <1>7 DEF CountSCC
  <2>2. AllNumbered /\ Tallied BY <2>1 DEF CGInv, Connecting, SumInv
  <2>3. Tallied' BY <1>1, <1>7, <2>2, CountSCCTallies
  <2>. QED BY <2>1, <2>3 DEF SumInv
<1>8. CASE EndCounts
  <2>1. /\ phase = "counts" /\ scc = 0 /\ phase' \in {"closures", "panics"}
        /\ UNCHANGED <<prog, isCalleeCounts, totalTypeAllocations>>
    BY <1>8 DEF EndCounts, countVars
  <2>2. AllNumbered /\ Tallied BY <2>1 DEF CGInv, Connecting, SumInv
  <2>3. CountsRight BY <1>1, <2>1, <2>2, AllTallied
  <2>4. CountsRight' BY <2>1, <2>3 DEF CountsRight
  <2>. QED BY <2>1, <2>4 DEF SumInv
<1>9. ASSUME RemoveClosures \/ BeginPanics \/ PanicsOfSCC \/ EndPanics PROVE SumInv'
  <2>1. phase' \in {"rescc", "panics", "done"}
    BY <1>9 DEF RemoveClosures, BeginPanics, PanicsOfSCC, EndPanics
  <2>. QED BY <2>1 DEF SumInv
<1>10. CASE UNCHANGED cgVars
  <2>1. UNCHANGED <<prog, phase, funcToSCCs, scc, sccCallCounts, isCalleeCounts, totalTypeAllocations>>
    BY <1>10 DEF cgVars, sccVars, countVars
  <2>2. Tallied => Tallied'
    BY <2>1 DEF Tallied, Above, CallsInto, AllocationsOf, HasCallCycle, FuncsInSCC
  <2>3. CountsRight => CountsRight' BY <2>1 DEF CountsRight
  <2>. QED BY <2>1, <2>2, <2>3 DEF SumInv
<1>11. CASE CGNext
  BY <1>3, <1>4, <1>5, <1>6, <1>7, <1>8, <1>9, <1>11 DEF CGNext
<1>. QED BY <1>10, <1>11 DEF Next, BuildFuncCallGraph, EliminateSCC, vars

\* The counts of the call graph are never below the numbers of calls, and without recursion they
\* and the allocations are exact, up to the maximum: components are counted callers first.
THEOREM CountsRightHolds == Spec => []CountsRight
<1>1. Spec => []CGInv BY CGInvHolds
<1>2. Spec => []CountInv BY InitCount, NextCount, CGInvHolds, PTL DEF Spec
<1>3. Spec => []SumInv BY <1>1, <1>2, InitSums, NextSums, PTL DEF Spec
<1>4. CGInv /\ CountInv /\ SumInv => CountsRight
  <2> SUFFICES ASSUME CGInv, CountInv, SumInv PROVE CountsRight OBVIOUS
  <2>1. CASE phase = "counts" /\ scc = 0
    BY <2>1, AllTallied DEF CGInv, Connecting, SumInv
  <2>2. CASE phase = "closures" BY <2>2 DEF SumInv
  <2>. QED BY <2>1, <2>2 DEF CountsRight
<1>. QED BY <1>1, <1>2, <1>3, <1>4, PTL

=============================================================================
