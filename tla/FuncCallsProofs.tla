-------------------------- MODULE FuncCallsProofs --------------------------
(***************************************************************************)
(* The function processes for every program, every number of instances and *)
(* every depth of calls: an instance belongs to at most one call, go or    *)
(* defer; goroutines are counted; the init function ends last; the flags   *)
(* of the instances follow the panics of Go.                               *)
(***************************************************************************)
EXTENDS FuncCalls, FiniteSetTheorems, SequenceTheorems, TLAPS

\* The places of q that name an instance: place 0 is its variable p, place s > 0 its
\* defer stack at s. HeldAt(q, s, x): the place names x and q still has to start or await x.
Creating == {"created_call", "created_go", "created_defer"}
Busy == Creating \cup {"started_callee", "started_deferred"}

HeldAt(q, s, x) == \/ s = 0 /\ loc[q] \in Creating \cup {"started_callee"} /\ callee[q] = x
                   \/ s \in 1 .. Len(deferred[q]) /\ deferred[q][s] = x

\* q waits for the instance the place names.
Awaited(q, s) == \/ s = 0 /\ loc[q] = "started_callee"
                 \/ s = Len(deferred[q]) /\ s # 0 /\ loc[q] = "started_deferred"

TypeInv ==
    /\ funcCount \in [Funcs -> Nat]
    /\ outOfResources \in BOOLEAN
    /\ activeGoRoutines \in Int
    /\ loc \in [Procs -> Locations]
    /\ callee \in [Procs -> Procs]
    /\ isSync \in [Procs -> BOOLEAN]
    /\ deferred \in [Procs -> Seq(Procs)]

\* make_<f>() hands out each instance once, and starts none of them.
Fresh ==
    /\ ~isSync[Main]
    /\ funcCount[InitFunc] = 0
    /\ \A q, x \in Procs, s \in Nat : HeldAt(q, s, x) => x # Main /\ x[2] < funcCount[x[1]]
    /\ \A x \in Procs : x # Main /\ x[2] >= funcCount[x[1]] => loc[x] = "starting"

\* An instance has one holder, which waits for it exactly while it runs.
Owned ==
    /\ \A q, r, x \in Procs, s, t \in Nat : HeldAt(q, s, x) /\ HeldAt(r, t, x) => q = r /\ s = t
    /\ \A q, x \in Procs, s \in Nat : HeldAt(q, s, x) =>
         IF Awaited(q, s) THEN Running(x) /\ isSync[x] ELSE loc[x] = "starting"
    /\ \A x \in Procs : Running(x) /\ isSync[x] =>
         \E q \in Procs, s \in Nat : HeldAt(q, s, x) /\ Awaited(q, s)
    /\ \A q \in Procs : loc[q] = "started_deferred" => deferred[q] # <<>>

\* Instances never wait for each other in a circle, nor for ever along a line.
Closed(S) == \A x \in S : /\ Running(x) /\ isSync[x]
                          /\ \A q \in Procs, s \in Nat : HeldAt(q, s, x) /\ Awaited(q, s) => q \in S
WellFounded == \A S \in SUBSET Procs : Closed(S) => S = {}

GoRoutines == {p \in Procs \ {Main} : Running(p) /\ ~isSync[p]}
Counted == IsFiniteSet(GoRoutines) /\ activeGoRoutines = 1 + Cardinality(GoRoutines)

Shape == Fresh /\ Owned /\ WellFounded
IInv == TypeInv /\ Counted /\ (~outOfResources => Shape)

-----------------------------------------------------------------------------
LEMMA ProcsFacts ==
    /\ Main \in Procs
    /\ \A x \in Procs : x = <<x[1], x[2]>> /\ x[1] \in Funcs /\ x[2] \in Nat /\ x[2] < CallCount[x[1]]
    /\ \A f \in Funcs, n \in Nat : n < CallCount[f] => <<f, n>> \in Procs
<1>1. \A f \in Funcs : CallCount[f] \in Nat \ {0} BY CountsAssumption
<1>2. \A x \in Procs : \E f \in Funcs : x \in {f} \X (0 .. CallCount[f] - 1) BY DEF Procs
<1>3. \A x \in Procs : x = <<x[1], x[2]>> /\ x[1] \in Funcs /\ x[2] \in Nat /\ x[2] < CallCount[x[1]]
  BY <1>1, <1>2
<1>4. \A f \in Funcs, n \in Nat : n < CallCount[f] => <<f, n>> \in Procs
  <2> SUFFICES ASSUME NEW f \in Funcs, NEW n \in Nat, n < CallCount[f]
               PROVE  <<f, n>> \in {f} \X (0 .. CallCount[f] - 1) BY DEF Procs
  <2>. QED BY <1>1
<1>5. Main \in Procs BY <1>4, <1>1, CountsAssumption, FuncsAssumption DEF Main
<1>. QED BY <1>3, <1>4, <1>5

LEMMA InitIInv == Init => IInv
<1> SUFFICES ASSUME Init PROVE IInv OBVIOUS
<1> USE ProcsFacts DEF Init
<1>1. TypeInv
  <2>1. deferred \in [Procs -> Seq(Procs)]
    <3>1. <<>> \in Seq(Procs) OBVIOUS
    <3>. QED BY <3>1
  <2>2. loc \in [Procs -> Locations] BY DEF Locations
  <2>3. callee \in [Procs -> Procs] /\ isSync \in [Procs -> BOOLEAN] OBVIOUS
  <2>4. funcCount \in [Funcs -> Nat] OBVIOUS
  <2>5. activeGoRoutines \in Int OBVIOUS
  <2>6. outOfResources \in BOOLEAN BY Zenon
  <2>. QED BY ONLY <2>1, <2>2, <2>3, <2>4, <2>5, <2>6 DEF TypeInv
<1>2. \A q, x \in Procs, s \in Nat : ~HeldAt(q, s, x) BY DEF HeldAt, Creating
<1>3. \A x \in Procs : ~Running(x) BY DEF Running
<1>4. GoRoutines = {} BY <1>3 DEF GoRoutines
<1>5. Counted BY <1>4, FS_EmptySet DEF Counted
<1>6. Fresh BY <1>2, FuncsAssumption DEF Fresh
<1>7. Owned BY <1>2, <1>3 DEF Owned
<1>8. WellFounded BY <1>3 DEF WellFounded, Closed
<1>. QED BY <1>1, <1>5, <1>6, <1>7, <1>8 DEF IInv, Shape

LEMMA StepType == TypeInv /\ [Next]_vars => TypeInv'
<1> SUFFICES ASSUME TypeInv, [Next]_vars PROVE TypeInv' OBVIOUS
<1> USE ProcsFacts DEF TypeInv, Locations, ExitState, Moved
<1>1. CASE StartInit BY <1>1 DEF StartInit, flagVars
<1>2. CASE EndInit BY <1>2 DEF EndInit, flagVars
<1>3. ASSUME NEW p \in Procs, NEW k \in CallKinds, NEW f \in Funcs, Create(p, k, f) PROVE TypeInv'
  <2>1. CallCount[f] \in Nat \ {0} /\ funcCount[f] \in Nat BY CountsAssumption
  <2>2. <<f, IF funcCount[f] >= CallCount[f] THEN 0 ELSE funcCount[f]>> \in Procs
    <3>1. CASE funcCount[f] >= CallCount[f]
      <4>1. 0 < CallCount[f] BY <2>1
      <4>2. <<f, 0>> \in Procs BY <4>1
      <4>. QED BY <3>1, <4>2
    <3>2. CASE ~(funcCount[f] >= CallCount[f])
      <4>1. funcCount[f] < CallCount[f] BY <2>1, <3>2
      <4>. QED BY <2>1, <3>2, <4>1
    <3>. QED BY <3>1, <3>2
  <2>3. Created[k] \in Locations BY DEF Created, CallKinds
  <2>. QED BY <1>3, <2>1, <2>2, <2>3 DEF Create
<1>4. ASSUME NEW p \in Procs, StartSync(p) \/ StartAsync(p) PROVE TypeInv'
  <2>1. CASE StartSync(p) BY <2>1 DEF StartSync, flagVars
  <2>2. CASE StartAsync(p)
    <3>1. isSync' = [isSync EXCEPT ![callee[p]] = FALSE] BY <2>2 DEF StartAsync
    <3>2. isSync' \in [Procs -> BOOLEAN] BY <3>1, Zenon
    <3>3. loc' \in [Procs -> Locations] BY <2>2 DEF StartAsync
    <3>4. activeGoRoutines' \in Int BY <2>2 DEF StartAsync
    <3>5. UNCHANGED <<funcCount, outOfResources, callee, deferred>> BY <2>2 DEF StartAsync
    <3>6. TypeInv OBVIOUS
    <3>. QED BY ONLY <3>2, <3>3, <3>4, <3>5, <3>6 DEF TypeInv
  <2>. QED BY <1>4, <2>1, <2>2
<1>5. ASSUME NEW p \in Procs, Defer(p) PROVE TypeInv'
  <2>1. Append(deferred[p], callee[p]) \in Seq(Procs) OBVIOUS
  <2>. QED BY <1>5, <2>1 DEF Defer, flagVars
<1>6. ASSUME NEW p \in Procs, Return(p) \/ Panic(p) \/ Recover(p) PROVE TypeInv'
  BY <1>6 DEF Return, Panic, Recover, flagVars
<1>7. ASSUME NEW p \in Procs, StartDeferred(p) PROVE TypeInv'
  <2>1. deferred[p] \in Seq(Procs) /\ deferred[p] # <<>> BY <1>7 DEF StartDeferred
  <2>2. Top(p) \in Procs BY <2>1 DEF Top
  <2>. QED BY <1>7, <2>2 DEF StartDeferred, flagVars
<1>8. ASSUME NEW p \in Procs, ReachEnd(p) \/ Finalize(p) \/ EndAsync(p) PROVE TypeInv'
  <2>1. CASE ReachEnd(p) BY <2>1 DEF ReachEnd, flagVars
  <2>2. CASE Finalize(p) BY <2>2 DEF Finalize, flagVars
  <2>3. CASE EndAsync(p) BY <2>3 DEF EndAsync, flagVars
  <2>. QED BY <1>8, <2>1, <2>2, <2>3
<1>9. ASSUME NEW p \in Procs, NEW q \in Procs, EndCall(p, q) PROVE TypeInv'
  BY <1>9 DEF EndCall
<1>10. ASSUME NEW p \in Procs, NEW q \in Procs, EndDeferred(p, q) PROVE TypeInv'
  <2>1. deferred[q] \in Seq(Procs) OBVIOUS
  <2>2. SubSeq(deferred[q], 1, Len(deferred[q]) - 1) \in Seq(Procs)
    <3>1. CASE deferred[q] = <<>>
      <4>1. Len(deferred[q]) - 1 < 1 BY <3>1
      <4>. QED BY <2>1, <4>1
    <3>2. CASE deferred[q] # <<>> BY <2>1, <3>2
    <3>. QED BY <3>1, <3>2
  <2>. QED BY <1>10, <2>2 DEF EndDeferred
<1>11. CASE UNCHANGED vars BY <1>11 DEF vars, flagVars
<1>. QED BY <1>1, <1>2, <1>3, <1>4, <1>5, <1>6, <1>7, <1>8, <1>9, <1>10, <1>11
         DEF Next, Begin, Body, End

-----------------------------------------------------------------------------
\* A step inside p's body, its start or its end, when p awaits nobody and nobody awaits it.
LEMMA StepInside ==
  ASSUME TypeInv, Shape, NEW p \in Procs, NEW l \in Locations,
         loc[p] \notin Busy, l \notin Busy, l # "starting",
         loc[p] = "starting" => p = Main,
         l = "ended" => p = Main \/ ~isSync[p],
         loc[p] # "ended",
         loc' = [loc EXCEPT ![p] = l], UNCHANGED <<funcCount, callee, isSync, deferred>>
  PROVE  Shape'
<1> USE DEF TypeInv
<1>1. \A q, x \in Procs, s \in Nat : HeldAt(q, s, x)' <=> HeldAt(q, s, x)
  BY DEF HeldAt, Busy, Creating
<1>2. \A q \in Procs, s \in Nat : Awaited(q, s)' <=> Awaited(q, s)
  BY DEF Awaited, Busy
<1>3. Fresh' BY <1>1 DEF Shape, Fresh
<1>4. \A q \in Procs, s \in Nat : HeldAt(q, s, p) => /\ Awaited(q, s) /\ isSync[p] /\ p # Main
  BY DEF Shape, Fresh, Owned
<1>5. \A x \in Procs : x # p \/ (x # Main /\ isSync[x]) =>
                         (Running(x)' <=> Running(x)) /\ (loc'[x] = "starting" <=> loc[x] = "starting")
  BY DEF Running
<1>6. ~isSync[Main] BY DEF Shape, Fresh
<1>7. \A x \in Procs : Running(x)' /\ isSync'[x] => Running(x) /\ isSync[x]
  <2> SUFFICES ASSUME NEW x \in Procs, Running(x)', isSync'[x] PROVE Running(x) /\ isSync[x]
    OBVIOUS
  <2>1. isSync[x] /\ x # Main BY <1>6
  <2>. QED BY <2>1, <1>5
<1>8. Owned'
  <2>1. \A q, r, x \in Procs, s, t \in Nat : HeldAt(q, s, x)' /\ HeldAt(r, t, x)' => q = r /\ s = t
    BY <1>1 DEF Shape, Owned
  <2>2. ASSUME NEW q \in Procs, NEW x \in Procs, NEW s \in Nat, HeldAt(q, s, x)'
        PROVE  IF Awaited(q, s)' THEN Running(x)' /\ isSync'[x] ELSE loc'[x] = "starting"
    <3>1. HeldAt(q, s, x) BY <2>2, <1>1
    <3>2. x # p \/ (x # Main /\ isSync[x]) BY <3>1, <1>4
    <3>3. IF Awaited(q, s) THEN Running(x) /\ isSync[x] ELSE loc[x] = "starting"
      BY <3>1 DEF Shape, Owned
    <3>4. (Awaited(q, s)' <=> Awaited(q, s)) /\ isSync' = isSync BY <1>2
    <3>. QED BY <3>2, <3>3, <3>4, <1>5
  <2>4. \A x \in Procs : Running(x)' /\ isSync'[x] =>
          \E q \in Procs, s \in Nat : HeldAt(q, s, x)' /\ Awaited(q, s)'
    BY <1>7, <1>1, <1>2 DEF Shape, Owned
  <2>5. \A q \in Procs : loc'[q] = "started_deferred" => deferred'[q] # <<>>
    BY DEF Shape, Owned, Busy
  <2>. QED BY <2>1, <2>2, <2>4, <2>5 DEF Owned
<1>9. WellFounded'
  <2> SUFFICES ASSUME NEW S \in SUBSET Procs, Closed(S)' PROVE S = {} BY DEF WellFounded
  <2>1. \A x \in S : Running(x) /\ isSync[x] BY <1>7 DEF Closed
  <2>2. Closed(S) BY <2>1, <1>1, <1>2 DEF Closed
  <2>. QED BY <2>2 DEF Shape, WellFounded
<1>. QED BY <1>3, <1>8, <1>9 DEF Shape

\* A place names one instance, and an instance that waits runs.
LEMMA PlaceFacts ==
  ASSUME TypeInv
  PROVE  /\ \A q, x, y \in Procs, s \in Nat : HeldAt(q, s, x) /\ HeldAt(q, s, y) => x = y
         /\ \A q \in Procs, s \in Nat : Awaited(q, s) => Running(q)
<1>1. \A q, x, y \in Procs, s \in Nat : HeldAt(q, s, x) /\ HeldAt(q, s, y) => x = y
  BY DEF HeldAt, TypeInv
<1>2. \A q \in Procs, s \in Nat : Awaited(q, s) => Running(q)
  BY DEF Awaited, Running
<1>. QED BY <1>1, <1>2

\* p starts the instance c it holds and waits for it.
LEMMA StartWaiting ==
  ASSUME TypeInv, Shape, NEW p \in Procs, NEW c \in Procs, NEW s \in Nat,
         NEW l \in {"started_callee", "started_deferred"},
         Running(p), loc[c] = "starting", HeldAt(p, s, c),
         loc' = [loc EXCEPT ![p] = l, ![c] = "started"],
         isSync' = [isSync EXCEPT ![c] = TRUE], UNCHANGED funcCount,
         \A q, x \in Procs, t \in Nat : HeldAt(q, t, x)' <=> HeldAt(q, t, x),
         \A q \in Procs, t \in Nat : Awaited(q, t)' <=> Awaited(q, t) \/ (q = p /\ t = s),
         \A q \in Procs : loc'[q] = "started_deferred" => deferred'[q] # <<>>
  PROVE  Shape'
<1> USE DEF TypeInv
<1>1. c # Main /\ c[2] < funcCount[c[1]] BY DEF Shape, Fresh
<1>2. p # c BY DEF Running
<1>3. \A x \in Procs : x # c => /\ Running(x)' <=> Running(x)
                                /\ isSync'[x] <=> isSync[x]
                                /\ (loc'[x] = "starting") <=> (loc[x] = "starting")
  BY DEF Running
<1>4. Running(c)' /\ isSync'[c] BY <1>2 DEF Running
<1>5. Fresh'
  <2>1. ~isSync'[Main] BY <1>1, <1>3, ProcsFacts DEF Shape, Fresh
  <2>2. \A x \in Procs : x # Main /\ x[2] >= funcCount[x[1]] => loc'[x] = "starting"
    <3> SUFFICES ASSUME NEW x \in Procs, x # Main, x[2] >= funcCount[x[1]]
                 PROVE  loc'[x] = "starting" OBVIOUS
    <3>1. loc[x] = "starting" BY DEF Shape, Fresh
    <3>2. x # c
      <4>1. funcCount[c[1]] \in Nat /\ c[2] \in Nat BY ProcsFacts
      <4>. QED BY <1>1, <4>1
    <3>. QED BY <3>1, <3>2, <1>3
  <2>. QED BY <2>1, <2>2 DEF Shape, Fresh
<1>6. Owned'
  <2>1. \A q, r, x \in Procs, t, u \in Nat : HeldAt(q, t, x)' /\ HeldAt(r, u, x)' => q = r /\ t = u
    BY DEF Shape, Owned
  <2>2. ASSUME NEW q \in Procs, NEW x \in Procs, NEW t \in Nat, HeldAt(q, t, x)'
        PROVE  IF Awaited(q, t)' THEN Running(x)' /\ isSync'[x] ELSE loc'[x] = "starting"
    <3>1. HeldAt(q, t, x) BY <2>2
    <3>2. CASE x = c
      <4>1. q = p /\ t = s BY <3>1, <3>2 DEF Shape, Owned
      <4>. QED BY <4>1, <3>2, <1>4
    <3>3. CASE x # c
      <4>1. ~(q = p /\ t = s) BY <3>1, <3>3, PlaceFacts
      <4>2. Awaited(q, t)' <=> Awaited(q, t) BY <4>1
      <4>3. IF Awaited(q, t) THEN Running(x) /\ isSync[x] ELSE loc[x] = "starting"
        BY <3>1 DEF Shape, Owned
      <4>. QED BY <4>2, <4>3, <3>3, <1>3
    <3>. QED BY <3>2, <3>3
  <2>3. ASSUME NEW x \in Procs, Running(x)', isSync'[x]
        PROVE  \E q \in Procs, t \in Nat : HeldAt(q, t, x)' /\ Awaited(q, t)'
    <3>1. CASE x = c BY <3>1
    <3>2. CASE x # c
      <4>1. Running(x) /\ isSync[x] BY <2>3, <3>2, <1>3
      <4>2. PICK q \in Procs, t \in Nat : HeldAt(q, t, x) /\ Awaited(q, t)
        BY <4>1 DEF Shape, Owned
      <4>. QED BY <4>2
    <3>. QED BY <3>1, <3>2
  <2>. QED BY <2>1, <2>2, <2>3 DEF Owned
<1>7. WellFounded'
  <2> SUFFICES ASSUME NEW S \in SUBSET Procs, Closed(S)' PROVE S = {} BY DEF WellFounded
  <2>1. \A x \in S \ {c} : Running(x) /\ isSync[x] BY <1>3 DEF Closed
  <2>2. ASSUME NEW x \in S \ {c}, NEW q \in Procs, NEW t \in Nat, HeldAt(q, t, x), Awaited(q, t)
        PROVE  q \in S \ {c}
    <3>1. q \in S BY <2>2 DEF Closed
    <3>2. q # c BY <2>2, PlaceFacts DEF Running
    <3>. QED BY <3>1, <3>2
  <2>3. Closed(S \ {c}) BY <2>1, <2>2 DEF Closed
  <2>4. S \ {c} = {} BY <2>3 DEF Shape, WellFounded
  <2>5. c \notin S
    <3> SUFFICES ASSUME c \in S PROVE FALSE OBVIOUS
    <3>1. p \in S BY DEF Closed
    <3>. QED BY <3>1, <2>4, <1>2
  <2>. QED BY <2>4, <2>5
<1>. QED BY <1>5, <1>6, <1>7 DEF Shape

\* p starts the instance c it holds as a goroutine and lets go of it.
LEMMA StartFree ==
  ASSUME TypeInv, Shape, NEW p \in Procs, NEW c \in Procs,
         loc[p] = "created_go", loc[c] = "starting", HeldAt(p, 0, c),
         loc' = [loc EXCEPT ![p] = "started", ![c] = "started"],
         isSync' = [isSync EXCEPT ![c] = FALSE], UNCHANGED <<funcCount, callee, deferred>>
  PROVE  Shape'
<1> USE DEF TypeInv
<1>1. c # Main /\ c[2] < funcCount[c[1]] BY DEF Shape, Fresh
<1>2. p # c OBVIOUS
<1>3. \A x \in Procs : x # c => /\ Running(x)' <=> Running(x)
                                /\ isSync'[x] <=> isSync[x]
                                /\ (loc'[x] = "starting") <=> (loc[x] = "starting")
  BY DEF Running
<1>4. ~isSync'[c] BY <1>2
<1>5. \A q, x \in Procs, t \in Nat : HeldAt(q, t, x)' <=> HeldAt(q, t, x) /\ ~(q = p /\ t = 0)
  BY <1>2 DEF HeldAt, Creating
<1>6. \A q \in Procs, t \in Nat : Awaited(q, t)' <=> Awaited(q, t) BY <1>2 DEF Awaited
<1>7. \A q, t \in Procs, n \in Nat : HeldAt(q, n, t)' => t # c
  BY <1>5 DEF Shape, Owned
<1>8. Fresh'
  <2>1. ~isSync'[Main] BY <1>1, <1>3, ProcsFacts DEF Shape, Fresh
  <2>2. \A x \in Procs : x # Main /\ x[2] >= funcCount[x[1]] => loc'[x] = "starting"
    <3> SUFFICES ASSUME NEW x \in Procs, x # Main, x[2] >= funcCount[x[1]]
                 PROVE  loc'[x] = "starting" OBVIOUS
    <3>1. loc[x] = "starting" BY DEF Shape, Fresh
    <3>2. x # c
      <4>1. funcCount[c[1]] \in Nat /\ c[2] \in Nat BY ProcsFacts
      <4>. QED BY <1>1, <4>1
    <3>. QED BY <3>1, <3>2, <1>3
  <2>. QED BY <2>1, <2>2, <1>5 DEF Shape, Fresh
<1>9. Owned'
  <2>1. \A q, r, x \in Procs, t, u \in Nat : HeldAt(q, t, x)' /\ HeldAt(r, u, x)' => q = r /\ t = u
    BY <1>5 DEF Shape, Owned
  <2>2. ASSUME NEW q \in Procs, NEW x \in Procs, NEW t \in Nat, HeldAt(q, t, x)'
        PROVE  IF Awaited(q, t)' THEN Running(x)' /\ isSync'[x] ELSE loc'[x] = "starting"
    <3>1. HeldAt(q, t, x) /\ x # c BY <2>2, <1>5, <1>7
    <3>2. IF Awaited(q, t) THEN Running(x) /\ isSync[x] ELSE loc[x] = "starting"
      BY <3>1 DEF Shape, Owned
    <3>3. Awaited(q, t)' <=> Awaited(q, t) BY <1>6
    <3>. QED BY <3>1, <3>2, <3>3, <1>3
  <2>3. ASSUME NEW x \in Procs, Running(x)', isSync'[x]
        PROVE  \E q \in Procs, t \in Nat : HeldAt(q, t, x)' /\ Awaited(q, t)'
    <3>1. x # c BY <2>3, <1>4
    <3>2. Running(x) /\ isSync[x] BY <2>3, <3>1, <1>3
    <3>3. PICK q \in Procs, t \in Nat : HeldAt(q, t, x) /\ Awaited(q, t)
      BY <3>2 DEF Shape, Owned
    <3>4. ~(q = p /\ t = 0) BY <3>3 DEF Awaited
    <3>. QED BY <3>3, <3>4, <1>5, <1>6
  <2>4. \A q \in Procs : loc'[q] = "started_deferred" => deferred'[q] # <<>>
    BY <1>2 DEF Shape, Owned
  <2>. QED BY <2>1, <2>2, <2>3, <2>4 DEF Owned
<1>10. WellFounded'
  <2> SUFFICES ASSUME NEW S \in SUBSET Procs, Closed(S)' PROVE S = {} BY DEF WellFounded
  <2>1. c \notin S BY <1>4 DEF Closed
  <2>2. \A x \in S : Running(x) /\ isSync[x] BY <2>1, <1>3 DEF Closed
  <2>3. ASSUME NEW x \in S, NEW q \in Procs, NEW t \in Nat, HeldAt(q, t, x), Awaited(q, t)
        PROVE  q \in S
    <3>1. ~(q = p /\ t = 0) BY <2>3 DEF Awaited
    <3>. QED BY <3>1, <2>3, <1>5, <1>6 DEF Closed
  <2>4. Closed(S) BY <2>2, <2>3 DEF Closed
  <2>. QED BY <2>4 DEF Shape, WellFounded
<1>. QED BY <1>8, <1>9, <1>10 DEF Shape

\* Place s of q is given up; every other place is left alone.
GivesUp(q, s) ==
    /\ \A r, x \in Procs, t \in Nat : HeldAt(r, t, x)' <=> HeldAt(r, t, x) /\ ~(r = q /\ t = s)
    /\ \A r \in Procs, t \in Nat : ~(r = q /\ t = s) => (Awaited(r, t)' <=> Awaited(r, t))
    /\ \A r \in Procs : loc'[r] = "started_deferred" => deferred'[r] # <<>>

\* The awaited instance p ends, and q lets go of its place s, which named p.
LEMMA EndAwaited ==
  ASSUME TypeInv, Shape, NEW p \in Procs, NEW q \in Procs, NEW s \in Nat, NEW l \in Locations \ Busy,
         l \notin {"starting", "ended"}, loc[p] = "ending", HeldAt(q, s, p), Awaited(q, s),
         loc' = [loc EXCEPT ![p] = "ended", ![q] = l], UNCHANGED <<funcCount, isSync>>,
         GivesUp(q, s)
  PROVE  Shape'
<1> USE DEF TypeInv, GivesUp
<1>1. p # q /\ p # Main BY DEF Awaited, Shape, Fresh
<1>2. \A x \in Procs : x # p => /\ Running(x)' <=> Running(x)
                                /\ (loc'[x] = "starting") <=> (loc[x] = "starting")
  BY DEF Running, Awaited
<1>3. ~Running(p)' BY <1>1 DEF Running
<1>4. \A r, x \in Procs, t \in Nat : HeldAt(r, t, x)' => x # p BY DEF Shape, Owned
<1>5. Fresh'
  <2>1. \A x \in Procs : x # Main /\ x[2] >= funcCount[x[1]] => loc'[x] = "starting"
    <3> SUFFICES ASSUME NEW x \in Procs, x # Main, x[2] >= funcCount[x[1]]
                 PROVE  loc'[x] = "starting" OBVIOUS
    <3>1. loc[x] = "starting" BY DEF Shape, Fresh
    <3>. QED BY <3>1, <1>2
  <2>. QED BY <2>1 DEF Shape, Fresh
<1>6. Owned'
  <2>1. \A r, u, x \in Procs, t, n \in Nat : HeldAt(r, t, x)' /\ HeldAt(u, n, x)' => r = u /\ t = n
    BY DEF Shape, Owned
  <2>2. ASSUME NEW r \in Procs, NEW x \in Procs, NEW t \in Nat, HeldAt(r, t, x)'
        PROVE  IF Awaited(r, t)' THEN Running(x)' /\ isSync'[x] ELSE loc'[x] = "starting"
    <3>1. HeldAt(r, t, x) /\ ~(r = q /\ t = s) /\ x # p BY <2>2, <1>4
    <3>2. IF Awaited(r, t) THEN Running(x) /\ isSync[x] ELSE loc[x] = "starting"
      BY <3>1 DEF Shape, Owned
    <3>3. Awaited(r, t)' <=> Awaited(r, t) BY <3>1
    <3>. QED BY <3>1, <3>2, <3>3, <1>2
  <2>3. ASSUME NEW x \in Procs, Running(x)', isSync'[x]
        PROVE  \E r \in Procs, t \in Nat : HeldAt(r, t, x)' /\ Awaited(r, t)'
    <3>1. x # p BY <2>3, <1>3
    <3>2. Running(x) /\ isSync[x] BY <2>3, <3>1, <1>2
    <3>3. PICK r \in Procs, t \in Nat : HeldAt(r, t, x) /\ Awaited(r, t)
      BY <3>2 DEF Shape, Owned
    <3>4. ~(r = q /\ t = s) BY <3>1, <3>3, PlaceFacts
    <3>. QED BY <3>3, <3>4
  <2>. QED BY <2>1, <2>2, <2>3 DEF Owned
<1>7. WellFounded'
  <2> SUFFICES ASSUME NEW S \in SUBSET Procs, Closed(S)' PROVE S = {} BY DEF WellFounded
  <2>1. p \notin S BY <1>3 DEF Closed
  <2>2. \A x \in S : Running(x) /\ isSync[x] BY <2>1, <1>2 DEF Closed
  <2>3. ASSUME NEW x \in S, NEW r \in Procs, NEW t \in Nat, HeldAt(r, t, x), Awaited(r, t)
        PROVE  r \in S
    <3>1. ~(r = q /\ t = s) BY <2>3, <2>1, PlaceFacts
    <3>. QED BY <3>1, <2>3 DEF Closed
  <2>4. Closed(S) BY <2>2, <2>3 DEF Closed
  <2>. QED BY <2>4 DEF Shape, WellFounded
<1>. QED BY <1>5, <1>6, <1>7 DEF Shape

\* c is at place s of p and nowhere else; every other instance stays where it is.
PutAt(p, s, c) ==
    /\ \A r, t \in Procs, n \in Nat : t = c => (HeldAt(r, n, t)' <=> r = p /\ n = s)
    /\ \A r, t \in Procs, n \in Nat : t # c => (HeldAt(r, n, t)' <=> HeldAt(r, n, t))
    /\ \A r \in Procs, n \in Nat : Awaited(r, n)' <=> Awaited(r, n)
    /\ \A n \in Nat : ~Awaited(p, n)
    /\ \A r \in Procs : r # p => deferred'[r] = deferred[r]

\* c is made.
Makes(c) ==
    /\ c # Main /\ c[2] < funcCount'[c[1]]
    /\ funcCount'[InitFunc] = 0
    /\ \A x \in Procs : funcCount[x[1]] <= funcCount'[x[1]]

\* p puts an instance it made or already held at its place s; it waits for none.
LEMMA Place ==
  ASSUME TypeInv, Shape, TypeInv', NEW p \in Procs, NEW c \in Procs,
         NEW l \in Locations \ {"starting", "ended"},
         Running(p), l # "started_deferred", loc' = [loc EXCEPT ![p] = l], UNCHANGED isSync,
         loc[c] = "starting", NEW s \in Nat, PutAt(p, s, c), Makes(c)
  PROVE  Shape'
<1> USE DEF TypeInv, PutAt, Makes
<1>1. p # c BY DEF Running
<1>2. \A x \in Procs : /\ Running(x)' <=> Running(x)
                       /\ (loc'[x] = "starting") <=> (loc[x] = "starting")
  BY DEF Running
<1>3. Fresh'
  <2>1. \A q, x \in Procs, n \in Nat : HeldAt(q, n, x)' => x # Main /\ x[2] < funcCount'[x[1]]
    <3> SUFFICES ASSUME NEW q \in Procs, NEW x \in Procs, NEW n \in Nat, HeldAt(q, n, x)', x # c
                 PROVE  x # Main /\ x[2] < funcCount'[x[1]] OBVIOUS
    <3>1. HeldAt(q, n, x) OBVIOUS
    <3>2. x # Main /\ x[2] < funcCount[x[1]] BY <3>1 DEF Shape, Fresh
    <3>3. x[2] \in Nat /\ funcCount[x[1]] \in Nat /\ funcCount'[x[1]] \in Nat BY ProcsFacts
    <3>4. funcCount[x[1]] <= funcCount'[x[1]] OBVIOUS
    <3>. QED BY ONLY <3>2, <3>3, <3>4
  <2>2. \A x \in Procs : x # Main /\ x[2] >= funcCount'[x[1]] => loc'[x] = "starting"
    <3> SUFFICES ASSUME NEW x \in Procs, x # Main, x[2] >= funcCount'[x[1]]
                 PROVE  loc'[x] = "starting" OBVIOUS
    <3>1. x[2] \in Nat /\ funcCount[x[1]] \in Nat /\ funcCount'[x[1]] \in Nat BY ProcsFacts
    <3>2. funcCount[x[1]] <= funcCount'[x[1]] OBVIOUS
    <3>3. x[2] >= funcCount'[x[1]] OBVIOUS
    <3>4. x[2] >= funcCount[x[1]] BY ONLY <3>1, <3>2, <3>3
    <3>5. loc[x] = "starting" BY <3>4 DEF Shape, Fresh
    <3>. QED BY <3>5, <1>2
  <2>3. ~isSync'[Main] BY DEF Shape, Fresh
  <2>. QED BY <2>1, <2>2, <2>3 DEF Fresh
<1>5. Owned'
  <2>1. \A q, r, x \in Procs, t, n \in Nat : HeldAt(q, t, x)' /\ HeldAt(r, n, x)' => q = r /\ t = n
    <3> SUFFICES ASSUME NEW q \in Procs, NEW r \in Procs, NEW x \in Procs, NEW t \in Nat, NEW n \in Nat,
                        HeldAt(q, t, x)', HeldAt(r, n, x)'
                 PROVE  q = r /\ t = n OBVIOUS
    <3>1. CASE x = c BY <3>1
    <3>2. CASE x # c
      <4>1. HeldAt(q, t, x) /\ HeldAt(r, n, x) BY <3>2
      <4>. QED BY <4>1 DEF Shape, Owned
    <3>. QED BY <3>1, <3>2
  <2>2. ASSUME NEW q \in Procs, NEW x \in Procs, NEW t \in Nat, HeldAt(q, t, x)'
        PROVE  IF Awaited(q, t)' THEN Running(x)' /\ isSync'[x] ELSE loc'[x] = "starting"
    <3>1. CASE x = c
      <4>1. q = p /\ ~Awaited(q, t) BY <3>1, <2>2
      <4>. QED BY <3>1, <4>1, <1>2
    <3>2. CASE x # c
      <4>1. HeldAt(q, t, x) BY <2>2, <3>2
      <4>2. IF Awaited(q, t) THEN Running(x) /\ isSync[x] ELSE loc[x] = "starting"
        BY <4>1 DEF Shape, Owned
      <4>3. Awaited(q, t)' <=> Awaited(q, t) OBVIOUS
      <4>. QED BY <4>2, <4>3, <1>2
    <3>. QED BY <3>1, <3>2
  <2>3. ASSUME NEW x \in Procs, Running(x)', isSync'[x]
        PROVE  \E q \in Procs, t \in Nat : HeldAt(q, t, x)' /\ Awaited(q, t)'
    <3>1. Running(x) /\ isSync[x] BY <2>3, <1>2
    <3>2. x # c BY <3>1 DEF Running
    <3>3. PICK q \in Procs, t \in Nat : HeldAt(q, t, x) /\ Awaited(q, t)
      BY <3>1 DEF Shape, Owned
    <3>. QED BY <3>2, <3>3
  <2>4. \A q \in Procs : loc'[q] = "started_deferred" => deferred'[q] # <<>>
    BY DEF Shape, Owned
  <2>. QED BY <2>1, <2>2, <2>3, <2>4 DEF Owned
<1>6. WellFounded'
  <2> SUFFICES ASSUME NEW S \in SUBSET Procs, Closed(S)' PROVE S = {} BY DEF WellFounded
  <2>1. \A x \in S : Running(x) /\ isSync[x] BY <1>2 DEF Closed
  <2>2. c \notin S BY <2>1 DEF Running
  <2>3. Closed(S) BY <2>1, <2>2 DEF Closed
  <2>. QED BY <2>3 DEF Shape, WellFounded
<1>. QED BY <1>3, <1>5, <1>6 DEF Shape

-----------------------------------------------------------------------------
LEMMA StepShape ==
  ASSUME TypeInv, Shape, TypeInv', Next, ~outOfResources' PROVE Shape'
<1> USE DEF TypeInv
<1> DEFINE Inside == {"started", "deferred", "finalizing", "ending"}
<1>1. /\ \A l \in Inside \cup {"ended"} : l \in Locations \ Busy /\ l # "starting"
      /\ \A p \in Procs : ExitState(p) \in Inside /\ ExitState(p) # "ending"
  BY DEF Locations, Busy, Creating, ExitState
<1>2. \A p \in Procs : loc[p] \in Inside => loc[p] \notin Busy /\ loc[p] \notin {"starting", "ended"}
  BY DEF Busy, Creating
<1>3. ~isSync[Main] BY DEF Shape, Fresh
<1>4. CASE StartInit
  <2>1. loc[Main] \notin Busy /\ loc' = [loc EXCEPT ![Main] = "started"]
    BY <1>4 DEF StartInit, Moved, Busy, Creating
  <2>. QED BY <1>4, <1>1, <2>1, StepInside, ProcsFacts DEF StartInit
<1>5. CASE EndInit
  <2>1. loc' = [loc EXCEPT ![Main] = "ended"] BY <1>5 DEF EndInit, Moved
  <2>. QED BY <1>5, <1>1, <1>2, <2>1, StepInside, ProcsFacts DEF EndInit
<1>6. ASSUME NEW p \in Procs, NEW k \in CallKinds, NEW f \in Funcs, Create(p, k, f) PROVE Shape'
  <2> DEFINE c == <<f, funcCount[f]>>
  <2>1. funcCount[f] \in Nat /\ CallCount[f] \in Nat BY CountsAssumption
  <2>2. funcCount[f] < CallCount[f]
    <3>1. outOfResources' <=> outOfResources \/ funcCount[f] >= CallCount[f]
      BY <1>6 DEF Create
    <3>2. ~(funcCount[f] >= CallCount[f]) BY <3>1, Zenon
    <3>. QED BY <3>2, <2>1
  <2>3. c \in Procs /\ callee' = [callee EXCEPT ![p] = c]
    BY <1>6, <2>1, <2>2, ProcsFacts DEF Create
  <2>4. funcCount' = [funcCount EXCEPT ![f] = @ + 1] /\ loc[p] = "started"
    BY <1>6 DEF Create
  <2>5. f # InitFunc
    <3>1. <<p[1], f>> \in Edges[k] BY <1>6 DEF Create
    <3>2. <<p[1], f>> \in FuncPairs BY ProcsFacts DEF FuncPairs
    <3>. QED BY <3>1, <3>2, EdgesAssumption
  <2>6. c # Main /\ c[2] < funcCount'[c[1]] BY <2>1, <2>4, <2>5 DEF Main
  <2>7. loc[c] = "starting"
    <3>1. c[1] = f /\ c[2] = funcCount[f] /\ c[2] >= funcCount[c[1]] BY <2>1
    <3>. HIDE DEF c
    <3>. QED BY <2>3, <2>6, <3>1 DEF Shape, Fresh
  <2>8. \A x \in Procs : funcCount[x[1]] <= funcCount'[x[1]]
    <3>1. \A g \in Funcs : funcCount[g] \in Nat /\ funcCount[g] <= funcCount'[g] BY <2>4
    <3>2. \A x \in Procs : x[1] \in Funcs BY ProcsFacts
    <3>. QED BY <3>1, <3>2
  <2>9. funcCount'[InitFunc] = 0 BY <2>4, <2>5, FuncsAssumption DEF Shape, Fresh
  <2>10. loc' = [loc EXCEPT ![p] = Created[k]] /\ Created[k] \in Creating
    BY <1>6 DEF Create, Moved, Created, CallKinds, Creating
  <2>11. \A q \in Procs, n \in Nat : ~HeldAt(q, n, c)
    BY <2>1, <2>3 DEF Shape, Fresh
  <2>12. UNCHANGED <<deferred, isSync>> BY <1>6 DEF Create
  <2>13. \A q, x \in Procs, n \in Nat :
           HeldAt(q, n, x)' <=> HeldAt(q, n, x) \/ (q = p /\ n = 0 /\ x = c)
    BY <2>3, <2>4, <2>10, <2>12 DEF HeldAt, Creating
  <2>14. \A q \in Procs, n \in Nat : Awaited(q, n)' <=> Awaited(q, n)
    BY <2>4, <2>10, <2>12 DEF Awaited, Creating
  <2>15. \A n \in Nat : ~Awaited(p, n) BY <2>4 DEF Awaited
  <2>16. Created[k] \in Locations \ {"starting", "ended"} /\ Created[k] # "started_deferred"
    BY <2>10 DEF Locations, Creating
  <2>17. Running(p) BY <2>4 DEF Running
  <2>18. 0 \in Nat OBVIOUS
  <2>. HIDE DEF c
  <2>19. PutAt(p, 0, c) BY <2>11, <2>12, <2>13, <2>14, <2>15 DEF PutAt
  <2>20. Makes(c) BY <2>6, <2>8, <2>9 DEF Makes
  <2>. QED BY <2>3, <2>7, <2>10, <2>12, <2>16, <2>17, <2>18, <2>19, <2>20, Place
<1>7. ASSUME NEW p \in Procs, StartSync(p) PROVE Shape'
  <2> DEFINE c == callee[p]
  <2>1. c \in Procs /\ loc[p] = "created_call" /\ loc[c] = "starting" /\ p # c
    BY <1>7 DEF StartSync
  <2>2. /\ loc' = [loc EXCEPT ![p] = "started_callee", ![c] = "started"]
        /\ isSync' = [isSync EXCEPT ![c] = TRUE]
        /\ UNCHANGED <<funcCount, callee, deferred>>
    BY <1>7 DEF StartSync
  <2>3. HeldAt(p, 0, c) BY <2>1 DEF HeldAt, Creating
  <2>4. \A q, x \in Procs, t \in Nat : HeldAt(q, t, x)' <=> HeldAt(q, t, x)
    BY <2>1, <2>2 DEF HeldAt, Creating
  <2>5. \A q \in Procs, t \in Nat : Awaited(q, t)' <=> Awaited(q, t) \/ (q = p /\ t = 0)
    BY <2>1, <2>2 DEF Awaited
  <2>6. \A q \in Procs : loc'[q] = "started_deferred" => deferred'[q] # <<>>
    BY <2>1, <2>2 DEF Shape, Owned
  <2>7. Running(p) BY <2>1 DEF Running
  <2>8. 0 \in Nat OBVIOUS
  <2>. HIDE DEF c
  <2>. QED BY <2>1, <2>2, <2>3, <2>4, <2>5, <2>6, <2>7, <2>8, StartWaiting
<1>8. ASSUME NEW p \in Procs, StartAsync(p) PROVE Shape'
  <2> DEFINE c == callee[p]
  <2>1. c \in Procs /\ HeldAt(p, 0, c) BY <1>8 DEF StartAsync, HeldAt, Creating
  <2>2. /\ loc' = [loc EXCEPT ![p] = "started", ![c] = "started"]
        /\ isSync' = [isSync EXCEPT ![c] = FALSE]
        /\ UNCHANGED <<funcCount, callee, deferred>>
        /\ loc[p] = "created_go" /\ loc[c] = "starting"
    BY <1>8 DEF StartAsync
  <2>. HIDE DEF c
  <2>. QED BY <2>1, <2>2, StartFree
<1>9. ASSUME NEW p \in Procs, Defer(p) PROVE Shape'
  <2> DEFINE c == callee[p]
             s == Len(deferred[p]) + 1
  <2>1. c \in Procs /\ s \in Nat /\ loc[p] = "created_defer" BY <1>9 DEF Defer
  <2>2. /\ loc' = [loc EXCEPT ![p] = "started"]
        /\ deferred' = [deferred EXCEPT ![p] = Append(@, c)]
        /\ UNCHANGED <<funcCount, callee, isSync>>
    BY <1>9 DEF Defer, Moved
  <2>3. HeldAt(p, 0, c) BY <2>1 DEF HeldAt, Creating
  <2>4. c # Main /\ c[2] < funcCount[c[1]] BY <2>1, <2>3 DEF Shape, Fresh
  <2>5. \A n \in Nat : ~Awaited(p, n) BY <2>1 DEF Awaited
  <2>6. loc[c] = "starting" BY <2>1, <2>3, <2>5 DEF Shape, Owned
  <2>7. \A q, x \in Procs, n \in Nat :
          HeldAt(q, n, x)' <=> \/ HeldAt(q, n, x) /\ ~(q = p /\ n = 0)
                               \/ q = p /\ n = s /\ x = c
    <3> SUFFICES ASSUME NEW q \in Procs, NEW x \in Procs, NEW n \in Nat
                 PROVE  HeldAt(q, n, x)' <=> \/ HeldAt(q, n, x) /\ ~(q = p /\ n = 0)
                                             \/ q = p /\ n = s /\ x = c
      OBVIOUS
    <3>1. CASE q # p BY <2>2, <3>1 DEF HeldAt
    <3>2. CASE q = p
      <4>1. deferred'[p] = Append(deferred[p], c) /\ deferred[p] \in Seq(Procs) BY <2>2
      <4>2. /\ Len(deferred'[p]) = s /\ deferred'[p][s] = c
            /\ \A i \in 1 .. Len(deferred[p]) : deferred'[p][i] = deferred[p][i]
        BY <4>1, <2>1
      <4>3. Len(deferred[p]) \in Nat BY <4>1
      <4>4. 1 .. s = (1 .. Len(deferred[p])) \cup {s} BY <4>3
      <4>5. loc'[p] = "started" BY <2>2
      <4>. HIDE DEF c, s
      <4>6. HeldAt(p, n, x)' <=> n \in 1 .. s /\ deferred'[p][n] = x
        BY <4>2, <4>5 DEF HeldAt, Creating
      <4>7. HeldAt(p, n, x) /\ n # 0 <=> n \in 1 .. Len(deferred[p]) /\ deferred[p][n] = x
        BY <4>3 DEF HeldAt
      <4>8. s \notin 1 .. Len(deferred[p]) BY <4>3 DEF s
      <4>. QED BY <3>2, <4>2, <4>4, <4>6, <4>7, <4>8
    <3>. QED BY <3>1, <3>2
  <2>8. \A q \in Procs, n \in Nat : Awaited(q, n)' <=> Awaited(q, n)
    BY <2>1, <2>2 DEF Awaited
  <2>9. Running(p) BY <2>1 DEF Running
  <2>10. "started" \in Locations \ {"starting", "ended"} BY DEF Locations
  <2>11. \A x \in Procs : funcCount[x[1]] <= funcCount'[x[1]] BY <2>2, ProcsFacts
  <2>12. funcCount'[InitFunc] = 0 BY <2>2 DEF Shape, Fresh
  <2>13. \A q \in Procs, n \in Nat : HeldAt(q, n, c) => q = p /\ n = 0
    BY <2>1, <2>3 DEF Shape, Owned
  <2>14. \A x \in Procs : HeldAt(p, 0, x) => x = c BY <2>1, <2>3, PlaceFacts
  <2>15. s # 0 BY <2>1
  <2>. HIDE DEF c, s
  <2>16. PutAt(p, s, c)
    <3>1. \A q, x \in Procs, n \in Nat : x = c => (HeldAt(q, n, x)' <=> q = p /\ n = s)
      BY <2>7, <2>13
    <3>2. \A q, x \in Procs, n \in Nat : x # c => (HeldAt(q, n, x)' <=> HeldAt(q, n, x))
      BY <2>7, <2>14
    <3>. QED BY <3>1, <3>2, <2>2, <2>5, <2>8 DEF PutAt
  <2>17. Makes(c) BY <2>2, <2>4, <2>11, <2>12 DEF Makes
  <2>. QED BY <2>1, <2>2, <2>6, <2>9, <2>10, <2>16, <2>17, Place
<1>10. ASSUME NEW p \in Procs, Return(p) PROVE Shape'
  <2>1. loc' = [loc EXCEPT ![p] = ExitState(p)] /\ loc[p] = "started"
    BY <1>10 DEF Return, Moved
  <2>. QED BY <1>10, <1>1, <1>2, <2>1, StepInside DEF Return
<1>11. ASSUME NEW p \in Procs, Panic(p) PROVE Shape'
  <2>1. loc' = [loc EXCEPT ![p] = ExitState(p)] /\ loc[p] = "started"
    BY <1>11 DEF Panic, Moved
  <2>. QED BY <1>11, <1>1, <1>2, <2>1, StepInside DEF Panic
<1>12. ASSUME NEW p \in Procs, Recover(p) PROVE Shape'
  <2>1. loc' = [loc EXCEPT ![p] = "started"] /\ loc[p] = "started" BY <1>12 DEF Recover
  <2>. QED BY <1>12, <1>1, <1>2, <2>1, StepInside DEF Recover
<1>13. ASSUME NEW p \in Procs, ReachEnd(p) PROVE Shape'
  <2>1. loc' = [loc EXCEPT ![p] = "finalizing"] /\ loc[p] = "deferred"
    BY <1>13 DEF ReachEnd, Moved
  <2>. QED BY <1>13, <1>1, <1>2, <2>1, StepInside DEF ReachEnd
<1>14. ASSUME NEW p \in Procs, Finalize(p) PROVE Shape'
  <2>1. loc' = [loc EXCEPT ![p] = "ending"] /\ loc[p] = "finalizing"
    BY <1>14 DEF Finalize, Moved
  <2>. QED BY <1>14, <1>1, <1>2, <2>1, StepInside DEF Finalize
<1>15. ASSUME NEW p \in Procs, EndAsync(p) PROVE Shape'
  <2>1. loc' = [loc EXCEPT ![p] = "ended"] /\ loc[p] = "ending" /\ ~isSync[p]
    BY <1>15 DEF EndAsync, Moved
  <2>. QED BY <1>15, <1>1, <1>2, <2>1, StepInside DEF EndAsync
<1>16. ASSUME NEW p \in Procs, StartDeferred(p) PROVE Shape'
  <2> DEFINE c == Top(p)
             s == Len(deferred[p])
  <2>1. deferred[p] \in Seq(Procs) /\ deferred[p] # <<>> /\ loc[p] = "deferred"
    BY <1>16 DEF StartDeferred
  <2>2. s \in Nat /\ s # 0 /\ s \in 1 .. s /\ c = deferred[p][s] /\ c \in Procs
    BY <2>1 DEF Top
  <2>3. /\ loc' = [loc EXCEPT ![p] = "started_deferred", ![c] = "started"] /\ loc[c] = "starting"
        /\ isSync' = [isSync EXCEPT ![c] = TRUE]
        /\ UNCHANGED <<funcCount, callee, deferred>>
    BY <1>16 DEF StartDeferred
  <2>4. HeldAt(p, s, c) /\ p # c BY <2>1, <2>2, <2>3 DEF HeldAt
  <2>5. \A q, x \in Procs, t \in Nat : HeldAt(q, t, x)' <=> HeldAt(q, t, x)
    BY <2>1, <2>2, <2>3 DEF HeldAt, Creating
  <2>6. \A q \in Procs, t \in Nat : Awaited(q, t)' <=> Awaited(q, t) \/ (q = p /\ t = s)
    BY <2>1, <2>2, <2>3, <2>4 DEF Awaited
  <2>7. \A q \in Procs : loc'[q] = "started_deferred" => deferred'[q] # <<>>
    BY <2>1, <2>2, <2>3 DEF Shape, Owned
  <2>8. Running(p) BY <2>1 DEF Running
  <2>. HIDE DEF c, s
  <2>. QED BY <2>2, <2>3, <2>4, <2>5, <2>6, <2>7, <2>8, StartWaiting
<1>17. ASSUME NEW p \in Procs, NEW q \in Procs, EndCall(p, q) PROVE Shape'
  <2>1. loc[p] = "ending" /\ loc[q] = "started_callee" /\ callee[q] = p
    BY <1>17 DEF EndCall
  <2>2. PICK l \in Inside : l # "ending" /\ loc' = [loc EXCEPT ![p] = "ended", ![q] = l]
    BY <1>17, <1>1 DEF EndCall
  <2>3. UNCHANGED <<funcCount, isSync, callee, deferred>> BY <1>17 DEF EndCall
  <2>4. HeldAt(q, 0, p) /\ Awaited(q, 0) BY <2>1 DEF HeldAt, Awaited
  <2>5. \A r, x \in Procs, t \in Nat : HeldAt(r, t, x)' <=> HeldAt(r, t, x) /\ ~(r = q /\ t = 0)
    BY <2>1, <2>2, <2>3 DEF HeldAt, Creating
  <2>6. \A r \in Procs, t \in Nat : ~(r = q /\ t = 0) => (Awaited(r, t)' <=> Awaited(r, t))
    BY <2>1, <2>2, <2>3 DEF Awaited
  <2>7. \A r \in Procs : loc'[r] = "started_deferred" => deferred'[r] # <<>>
    BY <2>1, <2>2, <2>3 DEF Shape, Owned
  <2>8. l \in Locations \ Busy /\ l \notin {"starting", "ended"} /\ 0 \in Nat BY <2>2, <1>1
  <2>9. GivesUp(q, 0) BY <2>5, <2>6, <2>7 DEF GivesUp
  <2>. QED BY <2>1, <2>2, <2>3, <2>4, <2>8, <2>9, EndAwaited
<1>18. ASSUME NEW p \in Procs, NEW q \in Procs, EndDeferred(p, q) PROVE Shape'
  <2> DEFINE s == Len(deferred[q])
  <2>1. loc[p] = "ending" /\ loc[q] = "started_deferred" /\ Top(q) = p
    BY <1>18 DEF EndDeferred
  <2>2. deferred[q] \in Seq(Procs) /\ deferred[q] # <<>> BY <2>1 DEF Shape, Owned
  <2>3. s \in Nat /\ s # 0 /\ s \in 1 .. s /\ deferred[q][s] = p BY <2>1, <2>2 DEF Top
  <2>4. /\ loc' = [loc EXCEPT ![p] = "ended", ![q] = "deferred"]
        /\ deferred' = [deferred EXCEPT ![q] = SubSeq(@, 1, s - 1)]
        /\ UNCHANGED <<funcCount, isSync, callee>>
    BY <1>18 DEF EndDeferred
  <2>5. HeldAt(q, s, p) /\ Awaited(q, s) BY <2>1, <2>3 DEF HeldAt, Awaited
  <2>6. \A r, x \in Procs, t \in Nat : HeldAt(r, t, x)' <=> HeldAt(r, t, x) /\ ~(r = q /\ t = s)
    <3> SUFFICES ASSUME NEW r \in Procs, NEW x \in Procs, NEW t \in Nat
                 PROVE  HeldAt(r, t, x)' <=> HeldAt(r, t, x) /\ ~(r = q /\ t = s)
      OBVIOUS
    <3>1. CASE r # q
      <4>1. r = p => loc[r] = "ending" /\ loc'[r] = "ended" BY <2>1, <2>4, <3>1
      <4>2. r # p => loc'[r] = loc[r] BY <2>4, <3>1
      <4>. QED BY <4>1, <4>2, <2>4, <3>1 DEF HeldAt, Creating
    <3>2. CASE r = q
      <4>1. deferred'[q] = SubSeq(deferred[q], 1, s - 1) BY <2>4
      <4>2. Len(deferred'[q]) = s - 1 /\ \A i \in 1 .. s - 1 : deferred'[q][i] = deferred[q][i]
        <5>1. s - 1 \in Nat /\ s - 1 \in Int /\ 1 \in Int BY <2>3
        <5>2. \A i \in 1 .. s - 1 : i \in 1 .. s /\ 1 + i - 1 = i BY <2>3
        <5>3. \A i \in 1 .. s - 1 : deferred[q][i] \in Procs BY <2>2, <5>2
        <5> HIDE DEF s
        <5>4. /\ Len(deferred'[q]) = IF 1 <= s - 1 THEN s - 1 - 1 + 1 ELSE 0
              /\ \A i \in 1 .. s - 1 - 1 + 1 : deferred'[q][i] = deferred[q][1 + i - 1]
          BY <4>1, <5>1, <5>3, SubSeqProperties
        <5>. QED BY <5>1, <5>2, <5>4
      <4>3. 1 .. s = (1 .. s - 1) \cup {s} /\ s \notin 1 .. s - 1
        <5>1. s \in Nat /\ s # 0 BY <2>3
        <5>. HIDE DEF s
        <5>2. \A i \in Int : i \in 1 .. s <=> i \in 1 .. s - 1 \/ i = s BY <5>1
        <5>. QED BY <5>1, <5>2
      <4>4. loc'[q] = "deferred" BY <2>1, <2>4
      <4>5. HeldAt(q, t, x)' <=> t \in 1 .. s - 1 /\ deferred'[q][t] = x
        BY <4>2, <4>4 DEF HeldAt, Creating
      <4>6. HeldAt(q, t, x) <=> t \in 1 .. s /\ deferred[q][t] = x
        BY <2>1 DEF HeldAt, Creating
      <4>. HIDE DEF s
      <4>. QED BY <3>2, <4>2, <4>3, <4>5, <4>6
    <3>. QED BY <3>1, <3>2
  <2>7. \A r \in Procs, t \in Nat : ~(r = q /\ t = s) => (Awaited(r, t)' <=> Awaited(r, t))
    BY <2>1, <2>4 DEF Awaited
  <2>8. \A r \in Procs : loc'[r] = "started_deferred" => deferred'[r] # <<>>
    BY <2>1, <2>4 DEF Shape, Owned
  <2>9. "deferred" \in Locations \ Busy BY <1>1
  <2>. HIDE DEF s
  <2>10. GivesUp(q, s) BY <2>6, <2>7, <2>8 DEF GivesUp
  <2>. QED BY <2>1, <2>3, <2>4, <2>5, <2>9, <2>10, EndAwaited
<1>. QED BY <1>4, <1>5, <1>6, <1>7, <1>8, <1>9, <1>10, <1>11, <1>12, <1>13, <1>14, <1>15, <1>16,
            <1>17, <1>18 DEF Next, Begin, Body, End

-----------------------------------------------------------------------------
\* How the set of running goroutines changes with the counter active_go_routines.
LEMMA StepCounted ==
  ASSUME TypeInv, Shape, TypeInv', Counted, Next PROVE Counted'
<1> USE DEF TypeInv
<1> DEFINE Inside == {"started", "deferred", "finalizing", "ending"}
<1>1. \A p \in Procs : ExitState(p) \in Inside BY DEF ExitState
<1>2. \A q, x \in Procs, s \in Nat : HeldAt(q, s, x) => x # Main BY DEF Shape, Fresh
<1>3. ~isSync[Main] BY DEF Shape, Fresh
<1>4. ASSUME GoRoutines' = GoRoutines, UNCHANGED activeGoRoutines PROVE Counted'
  BY <1>4 DEF Counted
<1>5. ASSUME NEW p \in Procs, p = Main, UNCHANGED <<activeGoRoutines, isSync>>,
             NEW l, loc' = [loc EXCEPT ![p] = l]
      PROVE  Counted'
  <2>1. GoRoutines' = GoRoutines BY <1>5 DEF GoRoutines, Running
  <2>. QED BY <1>4, <1>5, <2>1
<1>6. ASSUME NEW p \in Procs, loc[p] \notin {"starting", "ended"},
             UNCHANGED <<activeGoRoutines, isSync>>,
             NEW l, l \notin {"starting", "ended"}, loc' = [loc EXCEPT ![p] = l]
      PROVE  Counted'
  <2>1. GoRoutines' = GoRoutines BY <1>6 DEF GoRoutines, Running
  <2>. QED BY <1>4, <1>6, <2>1
<1>7. ASSUME NEW p \in Procs, NEW c \in Procs, loc[p] \notin {"starting", "ended"}, loc[c] = "starting",
             UNCHANGED activeGoRoutines, isSync' = [isSync EXCEPT ![c] = TRUE],
             loc'[p] \notin {"starting", "ended"}, loc'[c] = "started",
             \A x \in Procs \ {p, c} : loc'[x] = loc[x]
      PROVE  Counted'
  <2>1. c \notin GoRoutines /\ c \notin GoRoutines' BY <1>7 DEF GoRoutines, Running
  <2>2. \A x \in Procs : x # c => (x \in GoRoutines' <=> x \in GoRoutines)
    BY <1>7 DEF GoRoutines, Running
  <2>3. GoRoutines \subseteq Procs /\ GoRoutines' \subseteq Procs BY DEF GoRoutines
  <2>4. \A x : x \in GoRoutines' <=> x \in GoRoutines BY ONLY <2>1, <2>2, <2>3
  <2>5. GoRoutines' = GoRoutines BY ONLY <2>4
  <2>. QED BY <1>4, <1>7, <2>5
<1>8. ASSUME NEW p \in Procs, NEW q \in Procs, isSync[p], loc[q] \notin {"starting", "ended"},
             UNCHANGED <<activeGoRoutines, isSync>>,
             loc'[p] = "ended", loc'[q] \notin {"starting", "ended"},
             \A x \in Procs \ {p, q} : loc'[x] = loc[x]
      PROVE  Counted'
  <2>1. p \notin GoRoutines /\ p \notin GoRoutines' BY <1>8 DEF GoRoutines
  <2>2. \A x \in Procs : x # p => (x \in GoRoutines' <=> x \in GoRoutines)
    BY <1>8 DEF GoRoutines, Running
  <2>3. GoRoutines \subseteq Procs /\ GoRoutines' \subseteq Procs BY DEF GoRoutines
  <2>4. \A x : x \in GoRoutines' <=> x \in GoRoutines BY ONLY <2>1, <2>2, <2>3
  <2>5. GoRoutines' = GoRoutines BY ONLY <2>4
  <2>. QED BY <1>4, <1>8, <2>5
<1>9. CASE StartInit BY <1>9, <1>5, ProcsFacts DEF StartInit, Moved
<1>10. CASE EndInit BY <1>10, <1>5, ProcsFacts DEF EndInit, Moved
<1>11. ASSUME NEW p \in Procs, NEW k \in CallKinds, NEW f \in Funcs, Create(p, k, f) PROVE Counted'
  <2>1. Created[k] \notin {"starting", "ended"} BY DEF Created, CallKinds
  <2>. QED BY <1>11, <1>6, <2>1 DEF Create, Moved
<1>12. ASSUME NEW p \in Procs, StartSync(p) PROVE Counted'
  <2> DEFINE c == callee[p]
  <2>1. /\ c \in Procs /\ loc[p] \notin {"starting", "ended"} /\ loc[c] = "starting"
        /\ loc'[p] \notin {"starting", "ended"} /\ loc'[c] = "started"
        /\ \A x \in Procs \ {p, c} : loc'[x] = loc[x]
        /\ isSync' = [isSync EXCEPT ![c] = TRUE] /\ UNCHANGED activeGoRoutines
    BY <1>12 DEF StartSync
  <2>. HIDE DEF c
  <2>. QED BY <1>7, <2>1
<1>13. ASSUME NEW p \in Procs, StartAsync(p) PROVE Counted'
  <2> DEFINE c == callee[p]
  <2>1. c \in Procs /\ HeldAt(p, 0, c) BY <1>13 DEF StartAsync, HeldAt, Creating
  <2>2. c # Main BY <2>1, <1>2
  <2>3. /\ loc[p] = "created_go" /\ loc[c] = "starting"
        /\ loc' = [loc EXCEPT ![p] = "started", ![c] = "started"]
        /\ isSync' = [isSync EXCEPT ![c] = FALSE]
        /\ activeGoRoutines' = activeGoRoutines + 1
    BY <1>13 DEF StartAsync
  <2>. HIDE DEF c
  <2>4. c \notin GoRoutines /\ c \in GoRoutines' BY <2>1, <2>2, <2>3 DEF GoRoutines, Running
  <2>5. \A x \in Procs : x # c => (x \in GoRoutines' <=> x \in GoRoutines)
    BY <2>1, <2>3 DEF GoRoutines, Running
  <2>6. GoRoutines \subseteq Procs /\ GoRoutines' \subseteq Procs BY DEF GoRoutines
  <2>7. GoRoutines' = GoRoutines \cup {c} BY <2>1, <2>4, <2>5, <2>6
  <2>8. /\ IsFiniteSet(GoRoutines \cup {c})
        /\ Cardinality(GoRoutines \cup {c}) = Cardinality(GoRoutines) + 1
    BY <2>4, FS_AddElement DEF Counted
  <2>9. Cardinality(GoRoutines) \in Nat BY FS_CardinalityType DEF Counted
  <2>. QED BY <2>3, <2>7, <2>8, <2>9 DEF Counted
<1>14. ASSUME NEW p \in Procs, EndAsync(p) PROVE Counted'
  <2>1. /\ p # Main /\ loc[p] = "ending" /\ ~isSync[p]
        /\ loc' = [loc EXCEPT ![p] = "ended"] /\ isSync' = isSync
        /\ activeGoRoutines' = activeGoRoutines - 1
    BY <1>14 DEF EndAsync, Moved
  <2>2. GoRoutines' = GoRoutines \ {p} BY <2>1 DEF GoRoutines, Running
  <2>3. p \in GoRoutines BY <2>1 DEF GoRoutines, Running
  <2>4. /\ IsFiniteSet(GoRoutines \ {p})
        /\ Cardinality(GoRoutines \ {p}) = Cardinality(GoRoutines) - 1
    BY <2>3, FS_RemoveElement DEF Counted
  <2>5. Cardinality(GoRoutines) \in Nat BY FS_CardinalityType DEF Counted
  <2>. QED BY <2>1, <2>2, <2>4, <2>5 DEF Counted
<1>15. ASSUME NEW p \in Procs, Defer(p) PROVE Counted' BY <1>15, <1>6 DEF Defer, Moved
<1>16. ASSUME NEW p \in Procs, Return(p) PROVE Counted' BY <1>16, <1>1, <1>6 DEF Return, Moved
<1>17. ASSUME NEW p \in Procs, Panic(p) PROVE Counted' BY <1>17, <1>1, <1>6 DEF Panic, Moved
<1>18. ASSUME NEW p \in Procs, Recover(p) PROVE Counted'
  <2>1. UNCHANGED <<loc, isSync, activeGoRoutines>> BY <1>18 DEF Recover
  <2>2. GoRoutines' = GoRoutines BY <2>1 DEF GoRoutines, Running
  <2>. QED BY <1>4, <2>1, <2>2
<1>19. ASSUME NEW p \in Procs, ReachEnd(p) PROVE Counted' BY <1>19, <1>6 DEF ReachEnd, Moved
<1>20. ASSUME NEW p \in Procs, Finalize(p) PROVE Counted' BY <1>20, <1>6 DEF Finalize, Moved
<1>21. ASSUME NEW p \in Procs, StartDeferred(p) PROVE Counted'
  <2>1. deferred[p] \in Seq(Procs) /\ deferred[p] # <<>> BY <1>21 DEF StartDeferred
  <2> DEFINE c == Top(p)
  <2>2. c \in Procs BY <2>1 DEF Top
  <2>3. /\ loc[p] \notin {"starting", "ended"} /\ loc[c] = "starting"
        /\ loc'[p] \notin {"starting", "ended"} /\ loc'[c] = "started"
        /\ \A x \in Procs \ {p, c} : loc'[x] = loc[x]
        /\ isSync' = [isSync EXCEPT ![c] = TRUE] /\ UNCHANGED activeGoRoutines
    BY <1>21 DEF StartDeferred
  <2>. HIDE DEF c
  <2>. QED BY <1>7, <2>2, <2>3
<1>22. ASSUME NEW p \in Procs, NEW q \in Procs, EndCall(p, q) PROVE Counted'
  <2>1. /\ loc'[p] = "ended" /\ loc'[q] \notin {"starting", "ended"}
        /\ \A x \in Procs \ {p, q} : loc'[x] = loc[x]
    BY <1>22, <1>1 DEF EndCall
  <2>2. /\ isSync[p] /\ loc[p] = "ending" /\ loc[q] = "started_callee"
        /\ UNCHANGED <<activeGoRoutines, isSync>>
    BY <1>22 DEF EndCall
  <2>. QED BY <1>8, <2>1, <2>2
<1>23. ASSUME NEW p \in Procs, NEW q \in Procs, EndDeferred(p, q) PROVE Counted'
  <2>1. /\ isSync[p] /\ loc[p] = "ending" /\ loc[q] = "started_deferred"
        /\ UNCHANGED <<activeGoRoutines, isSync>>
        /\ loc'[p] = "ended" /\ loc'[q] \notin {"starting", "ended"}
        /\ \A x \in Procs \ {p, q} : loc'[x] = loc[x]
    BY <1>23 DEF EndDeferred
  <2>. QED BY <1>8, <2>1
<1>. QED BY <1>9, <1>10, <1>11, <1>12, <1>13, <1>14, <1>15, <1>16, <1>17, <1>18, <1>19, <1>20,
            <1>21, <1>22, <1>23 DEF Next, Begin, Body, End

-----------------------------------------------------------------------------
LEMMA StepIInv == IInv /\ [Next]_vars => IInv'
<1> SUFFICES ASSUME IInv, [Next]_vars PROVE IInv' OBVIOUS
<1>1. TypeInv' BY StepType DEF IInv
<1>2. CASE Next
  <2>1. ~outOfResources BY <1>2 DEF Next
  <2>2. Counted' BY <1>1, <1>2, <2>1, StepCounted DEF IInv
  <2>3. ~outOfResources' => Shape' BY <1>1, <1>2, <2>1, StepShape DEF IInv
  <2>. QED BY <1>1, <2>2, <2>3 DEF IInv
<1>3. CASE UNCHANGED vars
  <2>1. UNCHANGED <<funcCount, outOfResources, activeGoRoutines, loc, callee, isSync, deferred>>
    BY <1>3 DEF vars
  <2>2. Counted' BY <2>1 DEF IInv, Counted, GoRoutines, Running
  <2>3. Shape => Shape'
    <3>1. \A q, x \in Procs, s \in Nat : HeldAt(q, s, x)' <=> HeldAt(q, s, x)
      BY <2>1 DEF HeldAt
    <3>2. \A q \in Procs, s \in Nat : Awaited(q, s)' <=> Awaited(q, s) BY <2>1 DEF Awaited
    <3>3. \A x : Running(x)' <=> Running(x) BY <2>1 DEF Running
    <3>4. Fresh => Fresh' BY <2>1, <3>1 DEF Fresh
    <3>5. Owned => Owned' BY <2>1, <3>1, <3>2, <3>3 DEF Owned
    <3>6. WellFounded => WellFounded'
      <4>1. \A S \in SUBSET Procs : Closed(S)' => Closed(S)
        BY <2>1, <3>1, <3>2, <3>3 DEF Closed
      <4>. QED BY <4>1 DEF WellFounded
    <3>. QED BY <3>4, <3>5, <3>6 DEF Shape
  <2>. QED BY <1>1, <2>1, <2>2, <2>3 DEF IInv
<1>. QED BY <1>2, <1>3

\* The shape of the calls in progress is an invariant of the function processes.
THEOREM Invariance == Spec => []IInv
<1>. QED BY InitIInv, StepIInv, PTL DEF Spec

\* q waits for p exactly when it awaits the place that names p.
LEMMA WaitersAwait ==
  ASSUME TypeInv, Shape, NEW p \in Procs, NEW q \in Procs
  PROVE  q \in Waiters(p) <=> \E s \in Nat : HeldAt(q, s, p) /\ Awaited(q, s)
<1>1. deferred[q] \in Seq(Procs) BY DEF TypeInv
<1>2. loc[q] = "started_deferred" => Len(deferred[q]) \in Nat \ {0}
  BY <1>1 DEF Shape, Owned
<1>3. CASE loc[q] = "started_deferred"
  <2> DEFINE n == Len(deferred[q])
  <2>1. n \in Nat /\ n # 0 /\ n \in 1 .. n BY <1>2, <1>3
  <2>2. q \in Waiters(p) <=> deferred[q][n] = p BY <1>3 DEF Waiters, Top
  <2>3. \A s \in Nat : Awaited(q, s) <=> s = n BY <1>3, <2>1 DEF Awaited
  <2>4. HeldAt(q, n, p) <=> deferred[q][n] = p BY <1>3, <2>1 DEF HeldAt, Creating
  <2>. HIDE DEF n
  <2>. QED BY <2>1, <2>2, <2>3, <2>4
<1>4. CASE loc[q] # "started_deferred"
  <2>1. q \in Waiters(p) <=> loc[q] = "started_callee" /\ callee[q] = p BY <1>4 DEF Waiters
  <2>2. \A s \in Nat : Awaited(q, s) <=> s = 0 /\ loc[q] = "started_callee"
    BY <1>4 DEF Awaited
  <2>3. loc[q] = "started_callee" => (HeldAt(q, 0, p) <=> callee[q] = p)
    BY DEF HeldAt
  <2>. QED BY <2>1, <2>2, <2>3
<1>. QED BY <1>3, <1>4

\* An instance belongs to one call: a running callee has exactly one caller waiting for it,
\* a goroutine has none (make_<f>() and the edges sync_<f>, async_<f>).
THEOREM OneCallerPerInstanceHolds == Spec => []OneCallerPerInstance
<1>1. IInv => OneCallerPerInstance
  <2> SUFFICES ASSUME TypeInv, Shape, NEW p \in Procs
               PROVE  Cardinality(Waiters(p)) = IF Running(p) /\ isSync[p] THEN 1 ELSE 0
    BY DEF IInv, OneCallerPerInstance
  <2>1. \A q \in Waiters(p) : q \in Procs /\ \E s \in Nat : HeldAt(q, s, p) /\ Awaited(q, s)
    <3>1. Waiters(p) \subseteq Procs BY DEF Waiters
    <3>. QED BY <3>1, WaitersAwait
  <2>2. CASE Running(p) /\ isSync[p]
    <3>1. PICK q \in Procs, s \in Nat : HeldAt(q, s, p) /\ Awaited(q, s)
      BY <2>2 DEF Shape, Owned
    <3>2. q \in Waiters(p) BY <3>1, WaitersAwait
    <3>3. \A r \in Waiters(p) : r = q BY <2>1, <3>1 DEF Shape, Owned
    <3>4. Waiters(p) = {q} BY <3>2, <3>3
    <3>. QED BY <2>2, <3>4, FS_Singleton
  <2>3. CASE ~(Running(p) /\ isSync[p])
    <3>1. Waiters(p) = {} BY <2>1, <2>3 DEF Shape, Owned
    <3>. QED BY <2>3, <3>1, FS_EmptySet
  <2>. QED BY <2>2, <2>3
<1>. QED BY Invariance, <1>1, PTL

\* active_go_routines counts the running goroutines and the init function (funcs.go).
THEOREM GoRoutinesCountedHolds == Spec => []GoRoutinesCounted
<1>1. IInv => GoRoutinesCounted BY DEF IInv, Counted, GoRoutines, GoRoutinesCounted
<1>. QED BY Invariance, <1>1, PTL

\* When the init function ends nothing runs: no goroutine is left, so every running instance
\* is awaited by another, and such a set of instances is empty (the edge to ended of init).
THEOREM InitEndsLastHolds == Spec => InitEndsLast
<1> DEFINE Ends == loc[Main] # "ended" /\ loc'[Main] = "ended" =>
                     \A p \in Procs \ {Main} : ~Running(p)
<1>1. IInv /\ [Next]_vars => [Ends]_vars
  <2> SUFFICES ASSUME IInv, [Next]_vars, loc[Main] # "ended", loc'[Main] = "ended"
               PROVE  \A p \in Procs \ {Main} : ~Running(p)
    BY DEF vars
  <2>1. Next /\ TypeInv /\ Counted /\ Shape BY DEF IInv, Next, vars
  <2>2. EndInit
    <3>1. ASSUME StartInit PROVE FALSE
      BY <3>1, <2>1, ProcsFacts DEF StartInit, Moved, TypeInv
    <3>2. ASSUME NEW p \in Procs, Begin(p) \/ Body(p) \/ End(p) PROVE FALSE
      <4>. USE <2>1, ProcsFacts DEF TypeInv
      <4>1. CASE Begin(p)
        <5>1. ~StartSync(p) BY DEF StartSync
        <5>2. ~StartAsync(p) BY DEF StartAsync
        <5>3. ~Defer(p) BY DEF Defer, Moved
        <5>4. ~StartDeferred(p) BY DEF StartDeferred
        <5>. QED BY <4>1, <5>1, <5>2, <5>3, <5>4 DEF Begin
      <4>2. CASE Body(p)
        <5>1. \A k \in CallKinds, f \in Funcs : ~Create(p, k, f)
          BY DEF Create, Created, CallKinds, Moved
        <5>2. ~Return(p) BY DEF Return, Moved, ExitState
        <5>3. ~Panic(p) BY DEF Panic, Moved, ExitState
        <5>4. ~Recover(p) BY DEF Recover
        <5>. QED BY <4>2, <5>1, <5>2, <5>3, <5>4 DEF Body
      <4>3. CASE End(p)
        <5>1. ~ReachEnd(p) BY DEF ReachEnd, Moved
        <5>2. ~Finalize(p) BY DEF Finalize, Moved
        <5>3. ~EndAsync(p) BY DEF EndAsync, Moved
        <5>4. \A q \in Procs : ~EndCall(p, q) BY DEF EndCall, ExitState
        <5>5. \A q \in Procs : ~EndDeferred(p, q) BY DEF EndDeferred
        <5>. QED BY <4>3, <5>1, <5>2, <5>3, <5>4, <5>5 DEF End
      <4>. QED BY <3>2, <4>1, <4>2, <4>3
    <3>. QED BY <2>1, <3>1, <3>2 DEF Next
  <2>3. GoRoutines = {}
    <3>1. IsFiniteSet(GoRoutines) /\ 1 = 1 + Cardinality(GoRoutines)
      BY <2>1, <2>2 DEF Counted, EndInit
    <3>2. Cardinality(GoRoutines) = 0 BY <3>1, FS_CardinalityType
    <3>. QED BY <3>1, <3>2, FS_EmptySet
  <2> DEFINE S == {p \in Procs \ {Main} : Running(p)}
  <2>4. \A p \in S : Running(p) /\ isSync[p] BY <2>3 DEF GoRoutines
  <2>5. ASSUME NEW p \in S, NEW q \in Procs, NEW s \in Nat, HeldAt(q, s, p), Awaited(q, s)
        PROVE  q \in S
    <3>1. Running(q) BY <2>1, <2>5, PlaceFacts
    <3>2. q # Main BY <2>2, <2>5 DEF EndInit, Awaited
    <3>. QED BY <3>1, <3>2
  <2>6. Closed(S)
    <3>. HIDE DEF S
    <3>. QED BY <2>4, <2>5 DEF Closed
  <2>7. S \in SUBSET Procs OBVIOUS
  <2>8. S = {}
    <3>. HIDE DEF S
    <3>. QED BY <2>1, <2>6, <2>7 DEF Shape, WellFounded
  <2>. QED BY <2>8
<1>. QED BY Invariance, <1>1, PTL DEF Spec, InitEndsLast

-----------------------------------------------------------------------------
(***************************************************************************)
(* Panics. The flags of the generated processes follow the panics of Go    *)
(* when every deferred function that can panic has a recover statement     *)
(* (the hand-over of flags to and from a deferred callee is left out       *)
(* otherwise, see TransfersPanic and the run lost_panic).                  *)
(***************************************************************************)
DeferredRecover == OptimizeIR => \A e \in Edges["defer"] : CanPanic(e[2]) => e[2] \in Recovers

\* The part of external_panic that stands for the panic an instance was started under.
Carried(p) == offered[p] /\ (~OptimizeIR \/ p[1] \in Recovers)

FlagTypes == /\ internalPanic \in [Procs -> BOOLEAN]
             /\ externalPanic \in [Procs -> BOOLEAN]
             /\ panicking \in [Procs -> BOOLEAN]
             /\ offered \in [Procs -> BOOLEAN]

\* internal_panic says at all times whether the frame is panicking.
Visible == \A p \in Procs : internalPanic[p] <=> panicking[p]

\* Instances hold only the callees the call graph gives them.
Linked ==
    /\ \A q \in Procs : loc[q] \in {"created_call", "started_callee"} =>
         <<q[1], callee[q][1]>> \in Edges["call"]
    /\ \A q \in Procs : loc[q] = "created_defer" => <<q[1], callee[q][1]>> \in Edges["defer"]
    /\ \A q \in Procs : \A i \in 1 .. Len(deferred[q]) :
         <<q[1], deferred[q][i][1]>> \in Edges["defer"]

\* Only functions that can panic do.
Foreseen == \A p \in Procs : panicking[p] => CanPanic(p[1])

\* What external_panic means at each location; an instance that did not start owes nothing.
Owes ==
    \A p \in Procs \ {Main} :
      /\ loc[p] \notin {"ending", "ended"} => (externalPanic[p] <=> Carried(p))
      /\ loc[p] = "ending" => (externalPanic[p] <=> Carried(p) \/ panicking[p])
      /\ loc[p] = "starting" => ~offered[p]

\* Which panic the instance q waits for was started under: none if it is called. A deferred
\* one that cannot recover still has the panic of q.
Offers ==
    /\ \A q \in Procs : loc[q] = "started_callee" => ~offered[callee[q]]
    /\ \A q \in Procs : loc[q] = "started_deferred" =>
         /\ offered[Top(q)] => CanPanic(q[1])
         /\ Top(q)[1] \notin Recovers => (offered[Top(q)] <=> panicking[q])

Flags == Foreseen /\ Owes /\ Offers
PInv == FlagTypes /\ Visible /\ (~outOfResources => Linked /\ Flags)

\* Callers of functions that can panic can panic.
LEMMA CanPanicFacts ==
    /\ \A f \in Panics : CanPanic(f)
    /\ \A k \in CallKinds, f, g \in Funcs : <<f, g>> \in Edges[k] /\ CanPanic(g) => CanPanic(f)
<1>1. \A f \in Panics : CanPanic(f) BY DEF CanPanic
<1>2. ASSUME NEW k \in CallKinds, NEW f \in Funcs, NEW g \in Funcs, <<f, g>> \in Edges[k], CanPanic(g)
      PROVE  CanPanic(f)
  <2> SUFFICES ASSUME NEW S \in SUBSET Funcs, Panics \subseteq S,
                      \A e \in UNION {Edges[j] : j \in CallKinds} : e[2] \in S => e[1] \in S
               PROVE  f \in S
    BY DEF CanPanic
  <2>1. g \in S BY <1>2 DEF CanPanic
  <2>2. <<f, g>> \in UNION {Edges[j] : j \in CallKinds} BY <1>2
  <2>3. <<f, g>>[1] = f /\ <<f, g>>[2] = g OBVIOUS
  <2>. QED BY <2>1, <2>2, <2>3
<1>. QED BY <1>1, <1>2

\* The instance q waits for runs, is not the init function's, and is a Go callee of q.
LEMMA AwaitedFacts ==
  ASSUME TypeInv, Shape, NEW q \in Procs
  PROVE  /\ loc[q] = "started_callee" => /\ callee[q] \in Procs \ {Main}
                                         /\ loc[callee[q]] # "starting"
         /\ loc[q] = "started_deferred" => /\ Top(q) \in Procs \ {Main}
                                           /\ loc[Top(q)] # "starting"
                                           /\ Len(deferred[q]) \in 1 .. Len(deferred[q])
<1> USE DEF TypeInv
<1>1. CASE loc[q] = "started_callee"
  <2>1. HeldAt(q, 0, callee[q]) /\ Awaited(q, 0) BY <1>1 DEF HeldAt, Awaited
  <2>2. callee[q] # Main /\ Running(callee[q]) BY <2>1 DEF Shape, Fresh, Owned
  <2>. QED BY <1>1, <2>2 DEF Running
<1>2. CASE loc[q] = "started_deferred"
  <2> DEFINE s == Len(deferred[q])
  <2>1. deferred[q] \in Seq(Procs) /\ deferred[q] # <<>> BY <1>2 DEF Shape, Owned
  <2>2. s \in Nat /\ s # 0 /\ s \in 1 .. s /\ Top(q) = deferred[q][s] /\ Top(q) \in Procs
    BY <2>1 DEF Top
  <2>3. HeldAt(q, s, Top(q)) /\ Awaited(q, s) BY <1>2, <2>2 DEF HeldAt, Awaited
  <2>. HIDE DEF s
  <2>4. Top(q) # Main /\ Running(Top(q)) BY <2>2, <2>3 DEF Shape, Fresh, Owned
  <2>. QED BY <1>2, <2>2, <2>4 DEF Running, s
<1>. QED BY <1>1, <1>2

LEMMA InitPInv == Init => PInv
<1> SUFFICES ASSUME Init PROVE PInv OBVIOUS
<1>1. FlagTypes BY Zenon DEF Init, FlagTypes
<1>2. Visible BY DEF Init, Visible
<1>3. Linked BY DEF Init, Linked
<1>4. Flags BY DEF Init, Flags, Foreseen, Owes, Offers, Carried
<1>. QED BY <1>1, <1>2, <1>3, <1>4 DEF PInv

\* Steps that leave the stacks, the callees and where they are alone.
LEMMA StepLinked ==
  ASSUME TypeInv, Shape, TypeInv', Linked, Next, ~outOfResources' PROVE Linked'
<1> USE DEF TypeInv
<1>1. ASSUME UNCHANGED <<callee, deferred>>,
             \A q \in Procs : loc'[q] \in {"created_call", "started_callee", "created_defer"} =>
               loc'[q] = loc[q] \/ (loc'[q] = "started_callee" /\ loc[q] = "created_call")
      PROVE  Linked'
  BY <1>1 DEF Linked
<1>2. \A q \in Procs : ExitState(q) \in {"deferred", "finalizing"} BY DEF ExitState
<1>3. CASE StartInit BY <1>3, <1>1, ProcsFacts DEF StartInit, Moved
<1>4. CASE EndInit BY <1>4, <1>1, ProcsFacts DEF EndInit, Moved
<1>5. ASSUME NEW p \in Procs, NEW k \in CallKinds, NEW f \in Funcs, Create(p, k, f) PROVE Linked'
  <2>1. PICK c \in Procs : c[1] = f /\ callee' = [callee EXCEPT ![p] = c]
    <3> DEFINE c == <<f, IF funcCount[f] >= CallCount[f] THEN 0 ELSE funcCount[f]>>
    <3>1. callee' = [callee EXCEPT ![p] = c] BY <1>5 DEF Create
    <3>2. callee'[p] \in Procs /\ callee'[p] = c BY <3>1
    <3>. QED BY <3>1, <3>2
  <2>2. <<p[1], f>> \in Edges[k] /\ loc' = [loc EXCEPT ![p] = Created[k]] /\ UNCHANGED deferred
    BY <1>5 DEF Create, Moved
  <2>3. /\ Created[k] \notin {"started_callee"}
        /\ Created[k] = "created_call" => k = "call"
        /\ Created[k] = "created_defer" => k = "defer"
    BY DEF Created, CallKinds
  <2>4. loc'[p] = Created[k] /\ callee'[p] = c /\ c[1] = f BY <2>1, <2>2
  <2>5. \A q \in Procs : q # p => loc'[q] = loc[q] /\ callee'[q] = callee[q] BY <2>1, <2>2
  <2>6. \A q \in Procs : loc'[q] \in {"created_call", "started_callee"} =>
          <<q[1], callee'[q][1]>> \in Edges["call"]
    BY <2>2, <2>3, <2>4, <2>5 DEF Linked
  <2>7. \A q \in Procs : loc'[q] = "created_defer" => <<q[1], callee'[q][1]>> \in Edges["defer"]
    BY <2>2, <2>3, <2>4, <2>5 DEF Linked
  <2>. QED BY <2>2, <2>6, <2>7 DEF Linked
<1>6. ASSUME NEW p \in Procs, StartSync(p) PROVE Linked'
  BY <1>6, <1>1 DEF StartSync
<1>7. ASSUME NEW p \in Procs, StartAsync(p) PROVE Linked'
  BY <1>7, <1>1 DEF StartAsync
<1>8. ASSUME NEW p \in Procs, Defer(p) PROVE Linked'
  <2>1. /\ loc' = [loc EXCEPT ![p] = "started"] /\ callee' = callee /\ loc[p] = "created_defer"
        /\ deferred' = [deferred EXCEPT ![p] = Append(@, callee[p])]
    BY <1>8 DEF Defer, Moved
  <2>2. \A i \in 1 .. Len(deferred'[p]) : <<p[1], deferred'[p][i][1]>> \in Edges["defer"]
    <3>1. deferred'[p] = Append(deferred[p], callee[p]) /\ deferred[p] \in Seq(Procs) BY <2>1
    <3>2. /\ Len(deferred'[p]) = Len(deferred[p]) + 1 /\ deferred'[p][Len(deferred[p]) + 1] = callee[p]
          /\ \A i \in 1 .. Len(deferred[p]) : deferred'[p][i] = deferred[p][i]
      BY <3>1
    <3>3. Len(deferred[p]) \in Nat BY <3>1
    <3>4. \A i \in 1 .. Len(deferred'[p]) : i \in 1 .. Len(deferred[p]) \/ i = Len(deferred[p]) + 1
      BY <3>2, <3>3
    <3>. QED BY <2>1, <3>2, <3>4 DEF Linked
  <2>3. \A q \in Procs : q # p => deferred'[q] = deferred[q] BY <2>1
  <2>4. \A q \in Procs : loc'[q] \in {"created_call", "started_callee", "created_defer"} => loc'[q] = loc[q]
    BY <2>1
  <2>. QED BY <2>1, <2>2, <2>3, <2>4 DEF Linked
<1>9. ASSUME NEW p \in Procs, Return(p) \/ Panic(p) \/ Recover(p) PROVE Linked'
  BY <1>9, <1>1, <1>2 DEF Return, Panic, Recover, Moved
<1>10. ASSUME NEW p \in Procs, StartDeferred(p) PROVE Linked'
  BY <1>10, <1>1 DEF StartDeferred
<1>11. ASSUME NEW p \in Procs, ReachEnd(p) \/ Finalize(p) \/ EndAsync(p) PROVE Linked'
  BY <1>11, <1>1 DEF ReachEnd, Finalize, EndAsync, Moved
<1>12. ASSUME NEW p \in Procs, NEW q \in Procs, EndCall(p, q) PROVE Linked'
  BY <1>12, <1>1, <1>2 DEF EndCall
<1>13. ASSUME NEW p \in Procs, NEW q \in Procs, EndDeferred(p, q) PROVE Linked'
  <2>1. /\ loc' = [loc EXCEPT ![p] = "ended", ![q] = "deferred"] /\ callee' = callee
        /\ deferred' = [deferred EXCEPT ![q] = SubSeq(@, 1, Len(@) - 1)]
        /\ loc[q] = "started_deferred"
    BY <1>13 DEF EndDeferred
  <2>2. \A i \in 1 .. Len(deferred'[q]) : <<q[1], deferred'[q][i][1]>> \in Edges["defer"]
    <3> DEFINE s == Len(deferred[q])
    <3>1. deferred[q] \in Seq(Procs) /\ deferred[q] # <<>> BY <2>1 DEF Shape, Owned
    <3>2. s \in Nat /\ s # 0 BY <3>1
    <3>3. deferred'[q] = SubSeq(deferred[q], 1, s - 1) BY <2>1
    <3>4. Len(deferred'[q]) = s - 1 /\ \A i \in 1 .. s - 1 : deferred'[q][i] = deferred[q][i]
      <4>1. s - 1 \in Nat /\ s - 1 \in Int /\ 1 \in Int BY <3>2
      <4>2. \A i \in 1 .. s - 1 : i \in 1 .. s /\ 1 + i - 1 = i BY <3>2
      <4>3. \A i \in 1 .. s - 1 : deferred[q][i] \in Procs BY <3>1, <4>2
      <4> HIDE DEF s
      <4>4. /\ Len(deferred'[q]) = IF 1 <= s - 1 THEN s - 1 - 1 + 1 ELSE 0
            /\ \A i \in 1 .. s - 1 - 1 + 1 : deferred'[q][i] = deferred[q][1 + i - 1]
        BY <3>3, <4>1, <4>3, SubSeqProperties
      <4>. QED BY <4>1, <4>2, <4>4
    <3>5. \A i \in 1 .. s - 1 : i \in 1 .. Len(deferred[q]) BY <3>2
    <3>. HIDE DEF s
    <3>. QED BY <3>4, <3>5 DEF Linked
  <2>3. \A r \in Procs : r # q => deferred'[r] = deferred[r] BY <2>1
  <2>4. \A r \in Procs : loc'[r] \in {"created_call", "started_callee", "created_defer"} => loc'[r] = loc[r]
    BY <2>1
  <2>. QED BY <2>1, <2>2, <2>3, <2>4 DEF Linked
<1>. QED BY <1>3, <1>4, <1>5, <1>6, <1>7, <1>8, <1>9, <1>10, <1>11, <1>12, <1>13
         DEF Next, Begin, Body, End

\* When a call ends, the caller reads from external_panic whether the callee panics.
LEMMA CallVerdict ==
  ASSUME TypeInv, Shape, Linked, Flags, NEW p \in Procs, NEW q \in Procs, EndCall(p, q)
  PROVE  /\ TracksPanic(p[1]) /\ externalPanic[p] <=> panicking[p]
         /\ panicking[p] => CanPanic(q[1])
<1>1. p # Main /\ loc[p] = "ending" /\ loc[q] = "started_callee" /\ callee[q] = p
  BY DEF EndCall
<1>2. ~offered[p] BY <1>1 DEF Flags, Offers
<1>3. externalPanic[p] <=> panicking[p] BY <1>1, <1>2 DEF Flags, Owes, Carried
<1>4. panicking[p] => CanPanic(p[1]) BY DEF Flags, Foreseen
<1>5. CanPanic(p[1]) => CanPanic(q[1])
  <2>1. <<q[1], p[1]>> \in Edges["call"] BY <1>1 DEF Linked
  <2>2. p[1] \in Funcs /\ q[1] \in Funcs BY ProcsFacts
  <2>. QED BY <2>1, <2>2, CanPanicFacts DEF CallKinds
<1>. QED BY <1>3, <1>4, <1>5 DEF TracksPanic

\* When a deferred call ends, internal_panic of the instance that deferred it is what Go has:
\* the panic the callee was offered, if it did not recover it, or one of its own.
LEMMA DeferredVerdict ==
  ASSUME DeferredRecover, TypeInv, Shape, FlagTypes, Visible, Linked, Flags,
         NEW p \in Procs, NEW q \in Procs, EndDeferred(p, q)
  PROVE  /\ internalPanic'[q] <=> offered[p] \/ panicking[p]
         /\ offered[p] \/ panicking[p] => CanPanic(q[1])
<1>1. p # Main /\ loc[p] = "ending" /\ loc[q] = "started_deferred" /\ Top(q) = p
  BY DEF EndDeferred
<1>2. externalPanic[p] <=> Carried(p) \/ panicking[p] BY <1>1 DEF Flags, Owes
<1>3. offered[p] => CanPanic(q[1]) BY <1>1 DEF Flags, Offers
<1>4. p[1] \notin Recovers => (offered[p] <=> panicking[q]) BY <1>1 DEF Flags, Offers
<1>5. panicking[p] => CanPanic(p[1]) BY DEF Flags, Foreseen
<1>6. panicking[q] => CanPanic(q[1]) BY DEF Flags, Foreseen
<1>7. <<q[1], p[1]>> \in Edges["defer"] BY <1>1, AwaitedFacts DEF Linked, Top
<1>8. CanPanic(p[1]) => CanPanic(q[1])
  <2>1. p[1] \in Funcs /\ q[1] \in Funcs BY ProcsFacts
  <2>. QED BY <1>7, <2>1, CanPanicFacts DEF CallKinds
<1>9. OptimizeIR /\ CanPanic(p[1]) => p[1] \in Recovers
  <2>1. <<q[1], p[1]>>[2] = p[1] OBVIOUS
  <2>. QED BY <1>7, <2>1 DEF DeferredRecover
<1>10. internalPanic[q] <=> panicking[q] BY DEF Visible
<1>11. internalPanic'[q] = IF TransfersPanic(q[1], p[1]) THEN externalPanic[p] ELSE internalPanic[q]
  BY DEF EndDeferred, FlagTypes
<1>12. CASE TransfersPanic(q[1], p[1])
  <2>1. internalPanic'[q] = externalPanic[p] BY <1>11, <1>12
  <2>2. ~OptimizeIR \/ p[1] \in Recovers BY <1>12 DEF TransfersPanic
  <2>. QED BY <1>2, <1>3, <1>5, <1>8, <2>1, <2>2 DEF Carried
<1>13. CASE ~TransfersPanic(q[1], p[1])
  <2>1. internalPanic'[q] = internalPanic[q] BY <1>11, <1>13
  <2>2. OptimizeIR /\ (~CanPanic(q[1]) \/ p[1] \notin Recovers) BY <1>13 DEF TransfersPanic
  <2>. QED BY <1>3, <1>4, <1>5, <1>6, <1>8, <1>9, <1>10, <2>1, <2>2
<1>. QED BY <1>12, <1>13

LEMMA StepFlagTypes ==
  ASSUME FlagTypes, Next PROVE FlagTypes'
<1> USE DEF FlagTypes
<1>1. ASSUME UNCHANGED flagVars PROVE FlagTypes' BY <1>1 DEF flagVars
<1>2. ASSUME UNCHANGED <<internalPanic, panicking>>,
             \/ UNCHANGED <<externalPanic, offered>>
             \/ \E q : /\ externalPanic' = [externalPanic EXCEPT ![q] = FALSE]
                       /\ offered' = [offered EXCEPT ![q] = FALSE]
      PROVE  FlagTypes'
  BY <1>2
<1>3. ASSUME NEW p \in Procs, NEW k \in CallKinds, NEW f \in Funcs, Create(p, k, f) PROVE FlagTypes'
  BY <1>2, <1>3 DEF Create
<1>4. ASSUME NEW p \in Procs, Recover(p) PROVE FlagTypes'
  BY <1>2, <1>4 DEF Recover
<1>5. ASSUME NEW p \in Procs, Panic(p) PROVE FlagTypes'
  BY <1>5 DEF Panic
<1>6. ASSUME NEW p \in Procs, StartDeferred(p) PROVE FlagTypes'
  BY <1>6 DEF StartDeferred
<1>7. ASSUME NEW p \in Procs, Finalize(p) PROVE FlagTypes'
  BY <1>7 DEF Finalize
<1>8. ASSUME NEW p \in Procs, NEW q \in Procs, EndCall(p, q) PROVE FlagTypes'
  BY <1>8 DEF EndCall
<1>9. ASSUME NEW p \in Procs, NEW q \in Procs, EndDeferred(p, q) PROVE FlagTypes'
  BY <1>9 DEF EndDeferred
<1>10. ASSUME NEW p \in Procs, StartSync(p) \/ StartAsync(p) \/ Defer(p) \/ Return(p) PROVE FlagTypes'
  BY <1>1, <1>10 DEF StartSync, StartAsync, Defer, Return
<1>11. ASSUME NEW p \in Procs, ReachEnd(p) \/ EndAsync(p) PROVE FlagTypes'
  BY <1>1, <1>11 DEF ReachEnd, EndAsync
<1>12. CASE StartInit \/ EndInit BY <1>1, <1>12 DEF StartInit, EndInit
<1>. QED BY <1>3, <1>4, <1>5, <1>6, <1>7, <1>8, <1>9, <1>10, <1>11, <1>12
         DEF Next, Begin, Body, End

LEMMA StepVisible ==
  ASSUME DeferredRecover, TypeInv, Shape, FlagTypes, Visible, Linked, Flags, Next
  PROVE  Visible'
<1>1. ASSUME UNCHANGED <<internalPanic, panicking>> PROVE Visible'
  BY <1>1 DEF Visible
<1>2. ASSUME NEW p \in Procs, NEW k \in CallKinds, NEW f \in Funcs, Create(p, k, f) PROVE Visible'
  BY <1>1, <1>2 DEF Create
<1>3. ASSUME NEW p \in Procs, Panic(p) PROVE Visible'
  <2>1. /\ internalPanic' = [internalPanic EXCEPT ![p] = TRUE]
        /\ panicking' = [panicking EXCEPT ![p] = TRUE]
    BY <1>3 DEF Panic
  <2>. QED BY <2>1 DEF Visible, FlagTypes
<1>4. ASSUME NEW p \in Procs, NEW q \in Procs, EndCall(p, q) PROVE Visible'
  <2> DEFINE panics == TracksPanic(p[1]) /\ externalPanic[p]
  <2>1. /\ internalPanic' = [internalPanic EXCEPT ![q] = @ \/ panics]
        /\ panicking' = [panicking EXCEPT ![q] = @ \/ panicking[p]]
    BY <1>4 DEF EndCall
  <2>2. panics <=> panicking[p] BY <1>4, CallVerdict
  <2>. HIDE DEF panics
  <2>3. \A r \in Procs : r # q => internalPanic'[r] = internalPanic[r] /\ panicking'[r] = panicking[r]
    BY <2>1 DEF FlagTypes
  <2>4. internalPanic'[q] = (internalPanic[q] \/ panics) /\ panicking'[q] = (panicking[q] \/ panicking[p])
    BY <2>1 DEF FlagTypes
  <2>. QED BY <2>2, <2>3, <2>4 DEF Visible
<1>5. ASSUME NEW p \in Procs, NEW q \in Procs, EndDeferred(p, q) PROVE Visible'
  <2>1. internalPanic'[q] <=> offered[p] \/ panicking[p] BY <1>5, DeferredVerdict
  <2>2. panicking' = [panicking EXCEPT ![q] = offered[p] \/ panicking[p]] BY <1>5 DEF EndDeferred
  <2>3. panicking'[q] = (offered[p] \/ panicking[p]) BY <2>2 DEF FlagTypes
  <2>4. \A r \in Procs : r # q => internalPanic'[r] = internalPanic[r] /\ panicking'[r] = panicking[r]
    BY <1>5, <2>2 DEF EndDeferred, FlagTypes
  <2>. QED BY <2>1, <2>3, <2>4 DEF Visible
<1>6. ASSUME NEW p \in Procs, Begin(p) PROVE Visible'
  BY <1>1, <1>6 DEF Begin, StartSync, StartAsync, Defer, StartDeferred, flagVars
<1>7. ASSUME NEW p \in Procs, Return(p) \/ Recover(p) PROVE Visible'
  BY <1>1, <1>7 DEF Return, Recover, flagVars
<1>8. ASSUME NEW p \in Procs, ReachEnd(p) \/ Finalize(p) \/ EndAsync(p) PROVE Visible'
  BY <1>1, <1>8 DEF ReachEnd, Finalize, EndAsync, flagVars
<1>9. CASE StartInit \/ EndInit BY <1>1, <1>9 DEF StartInit, EndInit, flagVars
<1>. QED BY <1>2, <1>3, <1>4, <1>5, <1>6, <1>7, <1>8, <1>9 DEF Next, Body, End

\* make_<f>() hands out an instance that nobody holds and that did not start.
LEMMA CreateFacts ==
  ASSUME TypeInv, Shape, NEW p \in Procs, NEW k \in CallKinds, NEW f \in Funcs, Create(p, k, f),
         ~outOfResources'
  PROVE  \E c \in Procs \ {Main} :
           /\ loc[c] = "starting"
           /\ externalPanic' = [externalPanic EXCEPT ![c] = FALSE]
           /\ offered' = [offered EXCEPT ![c] = FALSE]
<1> DEFINE c == <<f, funcCount[f]>>
<1>1. funcCount[f] \in Nat /\ CallCount[f] \in Nat BY CountsAssumption DEF TypeInv
<1>2. outOfResources' <=> outOfResources \/ funcCount[f] >= CallCount[f] BY DEF Create
<1>3. ~(funcCount[f] >= CallCount[f]) BY <1>2, Zenon
<1>4. c \in Procs BY <1>1, <1>3, ProcsFacts
<1>5. f # InitFunc
  <2>1. <<p[1], f>> \in Edges[k] BY DEF Create
  <2>2. <<p[1], f>> \in FuncPairs BY ProcsFacts DEF FuncPairs
  <2>. QED BY <2>1, <2>2, EdgesAssumption
<1>6. c # Main BY <1>5 DEF Main
<1>7. /\ externalPanic' = [externalPanic EXCEPT ![c] = FALSE]
      /\ offered' = [offered EXCEPT ![c] = FALSE]
  BY <1>3 DEF Create
<1>8. c[1] = f /\ c[2] >= funcCount[c[1]] BY <1>1
<1>. HIDE DEF c
<1>9. loc[c] = "starting" BY <1>4, <1>6, <1>8 DEF Shape, Fresh
<1>. QED BY <1>4, <1>6, <1>7, <1>9

\* The instance p starts from its defer stack did not run before.
LEMMA StartDeferredFacts ==
  ASSUME TypeInv, Shape, NEW p \in Procs, StartDeferred(p)
  PROVE  /\ Top(p) \in Procs \ {Main} /\ Top(p) # p /\ Top(p)' = Top(p)
         /\ <<p[1], Top(p)[1]>> = <<p[1], deferred[p][Len(deferred[p])][1]>>
         /\ Len(deferred[p]) \in 1 .. Len(deferred[p])
<1>1. deferred[p] \in Seq(Procs) /\ deferred[p] # <<>> BY DEF StartDeferred, TypeInv
<1>2. Len(deferred[p]) \in 1 .. Len(deferred[p]) /\ Len(deferred[p]) \in Nat BY <1>1
<1>3. Top(p) \in Procs BY <1>1, <1>2 DEF Top
<1>4. HeldAt(p, Len(deferred[p]), Top(p)) BY <1>2 DEF HeldAt, Top
<1>5. Top(p) # Main BY <1>2, <1>3, <1>4 DEF Shape, Fresh
<1>6. Top(p) # p BY DEF StartDeferred
<1>7. Top(p)' = Top(p) BY DEF StartDeferred, Top
<1>. QED BY <1>2, <1>3, <1>5, <1>6, <1>7 DEF Top

LEMMA StepForeseen ==
  ASSUME DeferredRecover, TypeInv, Shape, FlagTypes, Visible, Linked, Flags, Next
  PROVE  Foreseen'
<1>1. Foreseen BY DEF Flags
<1>2. ASSUME panicking' = panicking PROVE Foreseen' BY <1>1, <1>2 DEF Foreseen
<1>3. ASSUME NEW p \in Procs, NEW k \in CallKinds, NEW f \in Funcs, Create(p, k, f) PROVE Foreseen'
  BY <1>2, <1>3 DEF Create
<1>4. ASSUME NEW p \in Procs, Panic(p) PROVE Foreseen'
  <2>1. panicking' = [panicking EXCEPT ![p] = TRUE] /\ p[1] \in Panics BY <1>4 DEF Panic
  <2>2. CanPanic(p[1]) BY <2>1, CanPanicFacts
  <2>. QED BY <1>1, <2>1, <2>2 DEF Foreseen, FlagTypes
<1>5. ASSUME NEW p \in Procs, NEW q \in Procs, EndCall(p, q) PROVE Foreseen'
  <2>1. panicking' = [panicking EXCEPT ![q] = @ \/ panicking[p]] BY <1>5 DEF EndCall
  <2>2. panicking[p] => CanPanic(q[1]) BY <1>5, CallVerdict
  <2>3. panicking'[q] = (panicking[q] \/ panicking[p]) BY <2>1 DEF FlagTypes
  <2>4. \A r \in Procs : r # q => panicking'[r] = panicking[r] BY <2>1 DEF FlagTypes
  <2>. QED BY <1>1, <2>2, <2>3, <2>4 DEF Foreseen
<1>6. ASSUME NEW p \in Procs, NEW q \in Procs, EndDeferred(p, q) PROVE Foreseen'
  <2>1. panicking' = [panicking EXCEPT ![q] = offered[p] \/ panicking[p]] BY <1>6 DEF EndDeferred
  <2>2. offered[p] \/ panicking[p] => CanPanic(q[1]) BY <1>6, DeferredVerdict
  <2>3. panicking'[q] = (offered[p] \/ panicking[p]) BY <2>1 DEF FlagTypes
  <2>4. \A r \in Procs : r # q => panicking'[r] = panicking[r] BY <2>1 DEF FlagTypes
  <2>. QED BY <1>1, <2>2, <2>3, <2>4 DEF Foreseen
<1>7. ASSUME NEW p \in Procs, Begin(p) PROVE Foreseen'
  BY <1>2, <1>7 DEF Begin, StartSync, StartAsync, Defer, StartDeferred, flagVars
<1>8. ASSUME NEW p \in Procs, Return(p) \/ Recover(p) PROVE Foreseen'
  BY <1>2, <1>8 DEF Return, Recover, flagVars
<1>9. ASSUME NEW p \in Procs, ReachEnd(p) \/ Finalize(p) \/ EndAsync(p) PROVE Foreseen'
  BY <1>2, <1>9 DEF ReachEnd, Finalize, EndAsync, flagVars
<1>10. CASE StartInit \/ EndInit BY <1>2, <1>10 DEF StartInit, EndInit, flagVars
<1>. QED BY <1>3, <1>4, <1>5, <1>6, <1>7, <1>8, <1>9, <1>10 DEF Next, Body, End

LEMMA StepOffers ==
  ASSUME TypeInv, Shape, FlagTypes, Flags, Next, ~outOfResources'
  PROVE  Offers'
<1> USE DEF TypeInv
<1>1. Offers /\ Foreseen BY DEF Flags
<1>2. ASSUME \A q \in Procs : loc'[q] \in {"started_callee", "started_deferred"} =>
               /\ loc'[q] = loc[q] /\ callee'[q] = callee[q] /\ deferred'[q] = deferred[q]
               /\ panicking'[q] = panicking[q],
             \A x \in Procs : loc[x] # "starting" => offered'[x] = offered[x]
      PROVE  Offers'
  <2>1. ASSUME NEW q \in Procs, loc'[q] = "started_callee" PROVE ~offered'[callee'[q]]
    <3>1. loc[q] = "started_callee" /\ callee'[q] = callee[q] BY <1>2, <2>1
    <3>2. callee[q] \in Procs /\ loc[callee[q]] # "starting" BY <3>1, AwaitedFacts
    <3>. QED BY <1>1, <1>2, <3>1, <3>2 DEF Offers
  <2>2. ASSUME NEW q \in Procs, loc'[q] = "started_deferred"
        PROVE  /\ offered'[Top(q)'] => CanPanic(q[1])
               /\ Top(q)'[1] \notin Recovers => (offered'[Top(q)'] <=> panicking'[q])
    <3>1. loc[q] = "started_deferred" /\ deferred'[q] = deferred[q] /\ panicking'[q] = panicking[q]
      BY <1>2, <2>2
    <3>2. Top(q)' = Top(q) BY <3>1 DEF Top
    <3>3. Top(q) \in Procs /\ loc[Top(q)] # "starting" BY <3>1, AwaitedFacts
    <3>4. offered'[Top(q)] = offered[Top(q)] BY <1>2, <3>3
    <3>. QED BY <1>1, <3>1, <3>2, <3>4 DEF Offers
  <2>. QED BY <2>1, <2>2 DEF Offers
<1>3. \A q \in Procs : ExitState(q) \in {"deferred", "finalizing"} BY DEF ExitState
<1>4. ASSUME NEW p \in Procs, NEW l, l \notin {"started_callee", "started_deferred"},
             loc' = [loc EXCEPT ![p] = l], UNCHANGED <<callee, deferred, offered>>,
             \A q \in Procs : q # p => panicking'[q] = panicking[q]
      PROVE  Offers'
  BY <1>2, <1>4
<1>5. CASE StartInit BY <1>4, <1>5, ProcsFacts DEF StartInit, Moved, flagVars
<1>6. CASE EndInit BY <1>4, <1>6, ProcsFacts DEF EndInit, Moved, flagVars
<1>7. ASSUME NEW p \in Procs, NEW k \in CallKinds, NEW f \in Funcs, Create(p, k, f) PROVE Offers'
  <2>1. PICK c \in Procs \ {Main} : loc[c] = "starting" /\ offered' = [offered EXCEPT ![c] = FALSE]
    BY <1>7, CreateFacts
  <2>2. \A x \in Procs : loc[x] # "starting" => offered'[x] = offered[x] BY <2>1 DEF FlagTypes
  <2>3. Created[k] \notin {"started_callee", "started_deferred"} BY DEF Created, CallKinds
  <2>4. \A q \in Procs : loc'[q] \in {"started_callee", "started_deferred"} =>
          loc'[q] = loc[q] /\ callee'[q] = callee[q]
    BY <1>7, <2>3 DEF Create, Moved
  <2>5. UNCHANGED <<deferred, panicking>> BY <1>7 DEF Create
  <2>. QED BY <1>2, <2>2, <2>4, <2>5
<1>8. ASSUME NEW p \in Procs, StartSync(p) PROVE Offers'
  <2>1. /\ loc[p] = "created_call" /\ loc[callee[p]] = "starting" /\ callee[p] \in Procs
        /\ loc' = [loc EXCEPT ![p] = "started_callee", ![callee[p]] = "started"]
        /\ UNCHANGED <<callee, deferred, offered, panicking>>
    BY <1>8 DEF StartSync, flagVars
  <2>2. callee[p] # Main
    <3>1. HeldAt(p, 0, callee[p]) BY <2>1 DEF HeldAt, Creating
    <3>. QED BY <2>1, <3>1 DEF Shape, Fresh
  <2>3. ~offered[callee[p]] BY <2>1, <2>2 DEF Flags, Owes
  <2>4. \A q \in Procs : loc'[q] \in {"started_callee", "started_deferred"} => q = p \/ loc'[q] = loc[q]
    BY <2>1
  <2>5. loc'[p] = "started_callee" BY <2>1
  <2>6. \A q \in Procs : Top(q)' = Top(q) BY <2>1 DEF Top
  <2>. QED BY <1>1, <2>1, <2>3, <2>4, <2>5, <2>6 DEF Offers
<1>9. ASSUME NEW p \in Procs, StartAsync(p) PROVE Offers'
  BY <1>2, <1>9 DEF StartAsync, flagVars
<1>10. ASSUME NEW p \in Procs, Defer(p) PROVE Offers'
  BY <1>2, <1>10 DEF Defer, Moved, flagVars
<1>11. ASSUME NEW p \in Procs, Return(p) PROVE Offers'
  BY <1>3, <1>4, <1>11 DEF Return, Moved, flagVars
<1>12. ASSUME NEW p \in Procs, Panic(p) PROVE Offers'
  <2>1. \A q \in Procs : q # p => panicking'[q] = panicking[q] BY <1>12 DEF Panic, FlagTypes
  <2>. QED BY <1>3, <1>4, <1>12, <2>1 DEF Panic, Moved
<1>13. ASSUME NEW p \in Procs, Recover(p) PROVE Offers'
  <2>1. /\ offered' = [offered EXCEPT ![p] = FALSE] /\ p[1] \in Recovers
        /\ UNCHANGED <<loc, callee, deferred, panicking>>
    BY <1>13 DEF Recover
  <2>2. \A q \in Procs : Top(q)' = Top(q) BY <2>1 DEF Top
  <2>3. ASSUME NEW q \in Procs, loc[q] = "started_callee" PROVE ~offered'[callee[q]]
    <3>1. ~offered[callee[q]] BY <1>1, <2>3 DEF Offers
    <3>. QED BY <2>1, <3>1 DEF FlagTypes
  <2>4. ASSUME NEW q \in Procs, loc[q] = "started_deferred"
        PROVE  /\ offered'[Top(q)] => CanPanic(q[1])
               /\ Top(q)[1] \notin Recovers => (offered'[Top(q)] <=> panicking[q])
    <3>1. Top(q) \in Procs BY <2>4, AwaitedFacts
    <3>2. Top(q) = p \/ offered'[Top(q)] = offered[Top(q)] BY <2>1, <3>1 DEF FlagTypes
    <3>3. ~offered'[p] BY <2>1 DEF FlagTypes
    <3>. QED BY <1>1, <2>1, <2>4, <3>2, <3>3 DEF Offers
  <2>. QED BY <2>1, <2>2, <2>3, <2>4 DEF Offers
<1>14. ASSUME NEW p \in Procs, StartDeferred(p) PROVE Offers'
  <2>1. PICK c \in Procs : c = Top(p) BY <1>14, StartDeferredFacts
  <2>2. /\ loc[c] = "starting" /\ c # p
        /\ loc' = [loc EXCEPT ![p] = "started_deferred", ![c] = "started"]
        /\ offered' = [offered EXCEPT ![c] = panicking[p]]
        /\ UNCHANGED <<callee, deferred, panicking>>
    BY <1>14, <2>1, StartDeferredFacts DEF StartDeferred
  <2>3. \A q \in Procs : Top(q)' = Top(q) BY <2>2 DEF Top
  <2>4. \A x \in Procs : x # c => offered'[x] = offered[x] BY <2>2 DEF FlagTypes
  <2>5. offered'[c] = panicking[p] BY <2>2 DEF FlagTypes
  <2>6. \A q \in Procs : loc'[q] \in {"started_callee", "started_deferred"} => q = p \/ loc'[q] = loc[q]
    BY <2>2
  <2>7. loc'[p] = "started_deferred" BY <2>2
  <2>8. ASSUME NEW q \in Procs, loc'[q] = "started_callee" PROVE ~offered'[callee[q]]
    <3>1. loc[q] = "started_callee" BY <2>6, <2>7, <2>8
    <3>2. callee[q] \in Procs /\ callee[q] # c BY <2>2, <3>1, AwaitedFacts
    <3>. QED BY <1>1, <2>4, <3>1, <3>2 DEF Offers
  <2>9. ASSUME NEW q \in Procs, loc'[q] = "started_deferred"
        PROVE  /\ offered'[Top(q)] => CanPanic(q[1])
               /\ Top(q)[1] \notin Recovers => (offered'[Top(q)] <=> panicking[q])
    <3>1. CASE q = p BY <1>1, <2>1, <2>5, <3>1 DEF Foreseen
    <3>2. CASE q # p
      <4>1. loc[q] = "started_deferred" BY <2>6, <2>9, <3>2
      <4>2. Top(q) \in Procs /\ Top(q) # c BY <2>2, <4>1, AwaitedFacts
      <4>. QED BY <1>1, <2>4, <4>1, <4>2 DEF Offers
    <3>. QED BY <3>1, <3>2
  <2>. QED BY <2>2, <2>3, <2>8, <2>9 DEF Offers
<1>15. ASSUME NEW p \in Procs, ReachEnd(p) \/ Finalize(p) \/ EndAsync(p) PROVE Offers'
  BY <1>4, <1>15 DEF ReachEnd, Finalize, EndAsync, Moved, flagVars
<1>16. ASSUME NEW p \in Procs, NEW q \in Procs, EndCall(p, q) PROVE Offers'
  <2>1. /\ panicking' = [panicking EXCEPT ![q] = @ \/ panicking[p]]
        /\ UNCHANGED <<callee, deferred, offered>> /\ loc[p] = "ending" /\ loc[q] = "started_callee"
    BY <1>16 DEF EndCall
  <2>2. \A r \in Procs : r # q => panicking'[r] = panicking[r] BY <2>1 DEF FlagTypes
  <2>3. /\ loc'[p] = "ended" /\ loc'[q] \notin {"started_callee", "started_deferred"}
        /\ \A r \in Procs \ {p, q} : loc'[r] = loc[r]
    BY <1>3, <1>16, <2>1 DEF EndCall
  <2>. QED BY <1>2, <2>1, <2>2, <2>3
<1>17. ASSUME NEW p \in Procs, NEW q \in Procs, EndDeferred(p, q) PROVE Offers'
  <2>1. /\ panicking' = [panicking EXCEPT ![q] = offered[p] \/ panicking[p]]
        /\ loc' = [loc EXCEPT ![p] = "ended", ![q] = "deferred"]
        /\ UNCHANGED <<callee, offered>>
        /\ deferred' = [deferred EXCEPT ![q] = SubSeq(@, 1, Len(@) - 1)]
    BY <1>17 DEF EndDeferred
  <2>2. \A r \in Procs : r # q => panicking'[r] = panicking[r] BY <2>1 DEF FlagTypes
  <2>3. loc'[p] \in {"ended", "deferred"} /\ loc'[q] = "deferred" BY <2>1
  <2>4. \A r \in Procs \ {p, q} : loc'[r] = loc[r] /\ deferred'[r] = deferred[r] BY <2>1
  <2>. QED BY <1>2, <2>1, <2>2, <2>3, <2>4
<1>. QED BY <1>5, <1>6, <1>7, <1>8, <1>9, <1>10, <1>11, <1>12, <1>13, <1>14, <1>15, <1>16, <1>17
         DEF Next, Begin, Body, End

LEMMA StepOwes ==
  ASSUME TypeInv, Shape, FlagTypes, Visible, Linked, Flags, Next, ~outOfResources'
  PROVE  Owes'
<1> USE DEF TypeInv
<1> DEFINE Others == Procs \ {Main}
           Middle == Locations \ {"starting", "ending", "ended"}
<1>1. Owes /\ Foreseen BY DEF Flags
\* x keeps what it owes while it stays on one side of finalizing.
<1> DEFINE Keeps(x) == /\ externalPanic'[x] = externalPanic[x] /\ offered'[x] = offered[x]
                       /\ \/ loc'[x] = loc[x] /\ panicking'[x] = panicking[x]
                          \/ loc[x] \notin {"ending", "ended"} /\ loc'[x] \in Middle
                          \/ loc'[x] = "ended"
           OwesAt(x) == /\ loc[x] \notin {"ending", "ended"} => (externalPanic[x] <=> Carried(x))
                        /\ loc[x] = "ending" => (externalPanic[x] <=> Carried(x) \/ panicking[x])
                        /\ loc[x] = "starting" => ~offered[x]
           OwesAtNext(x) ==
             /\ loc'[x] \notin {"ending", "ended"} => (externalPanic'[x] <=> Carried(x)')
             /\ loc'[x] = "ending" => (externalPanic'[x] <=> Carried(x)' \/ panicking'[x])
             /\ loc'[x] = "starting" => ~offered'[x]
<1>2. ASSUME NEW x \in Others, Keeps(x) PROVE OwesAtNext(x)
  <2>1. OwesAt(x) BY <1>1 DEF Owes
  <2>2. Carried(x)' <=> Carried(x) BY <1>2 DEF Carried
  <2>. QED BY <1>2, <2>1, <2>2
<1>3. ASSUME \A x \in Others : OwesAtNext(x) PROVE Owes'
  BY <1>3 DEF Owes
<1> HIDE DEF OwesAtNext
<1>4. \A p \in Procs : ExitState(p) \in Middle BY DEF ExitState, Locations
<1>5. ASSUME \A x \in Others : Keeps(x) PROVE Owes' BY <1>2, <1>3, <1>5
<1>6. ASSUME NEW p \in Procs, NEW l \in Locations, loc' = [loc EXCEPT ![p] = l],
             UNCHANGED <<externalPanic, offered>>,
             \A x \in Procs : x # p => panicking'[x] = panicking[x],
             (loc[p] \notin {"ending", "ended"} /\ l \in Middle) \/ l = "ended"
      PROVE  Owes'
  BY <1>5, <1>6
<1>7. CASE StartInit \/ EndInit
  <2>1. \A x \in Others : Keeps(x) BY <1>7 DEF StartInit, EndInit, Moved, flagVars
  <2>. QED BY <1>5, <2>1
<1>8. ASSUME NEW p \in Procs, NEW k \in CallKinds, NEW f \in Funcs, Create(p, k, f) PROVE Owes'
  <2>1. PICK c \in Others : /\ loc[c] = "starting"
                            /\ externalPanic' = [externalPanic EXCEPT ![c] = FALSE]
                            /\ offered' = [offered EXCEPT ![c] = FALSE]
    BY <1>8, CreateFacts
  <2>2. loc' = [loc EXCEPT ![p] = Created[k]] /\ loc[p] = "started" /\ panicking' = panicking
    BY <1>8 DEF Create, Moved
  <2>3. Created[k] \in Middle BY DEF Created, CallKinds, Locations
  <2>4. \A x \in Others : x # c => Keeps(x) BY <2>1, <2>2, <2>3 DEF FlagTypes
  <2>5. OwesAtNext(c)
    <3>1. c # p /\ loc'[c] = "starting" BY <2>1, <2>2
    <3>2. ~externalPanic'[c] /\ ~offered'[c] BY <2>1 DEF FlagTypes
    <3>. QED BY <3>1, <3>2 DEF OwesAtNext, Carried
  <2>. QED BY <1>2, <1>3, <2>4, <2>5
<1>9. ASSUME NEW p \in Procs, StartSync(p) \/ StartAsync(p) PROVE Owes'
  <2>1. PICK l \in Middle : loc' = [loc EXCEPT ![p] = l, ![callee[p]] = "started"]
    BY <1>9 DEF StartSync, StartAsync, Locations
  <2>2. /\ loc[p] \notin {"ending", "ended"} /\ loc[callee[p]] = "starting"
        /\ UNCHANGED <<externalPanic, offered, panicking>>
    BY <1>9 DEF StartSync, StartAsync, flagVars
  <2>3. "started" \in Middle BY DEF Locations
  <2>4. \A x \in Others : loc'[x] = loc[x] \/ (loc[x] \notin {"ending", "ended"} /\ loc'[x] \in Middle)
    BY <2>1, <2>2, <2>3
  <2>. QED BY <1>5, <2>2, <2>4
<1>10. ASSUME NEW p \in Procs, Defer(p) PROVE Owes'
  <2>1. "started" \in Middle /\ "started" \in Locations BY DEF Locations
  <2>. QED BY <1>6, <1>10, <2>1 DEF Defer, Moved, flagVars
<1>11. ASSUME NEW p \in Procs, Return(p) PROVE Owes'
  <2>1. ExitState(p) \in Locations BY <1>4
  <2>. QED BY <1>4, <1>6, <1>11, <2>1 DEF Return, Moved, flagVars
<1>12. ASSUME NEW p \in Procs, Panic(p) PROVE Owes'
  <2>1. \A x \in Procs : x # p => panicking'[x] = panicking[x] BY <1>12 DEF Panic, FlagTypes
  <2>2. ExitState(p) \in Locations BY <1>4
  <2>. QED BY <1>4, <1>6, <1>12, <2>1, <2>2 DEF Panic, Moved
<1>13. ASSUME NEW p \in Procs, Recover(p) PROVE Owes'
  <2>1. /\ externalPanic' = [externalPanic EXCEPT ![p] = FALSE]
        /\ offered' = [offered EXCEPT ![p] = FALSE]
        /\ UNCHANGED <<loc, panicking>> /\ loc[p] = "started"
    BY <1>13 DEF Recover
  <2>2. \A x \in Others : x # p => Keeps(x) BY <2>1 DEF FlagTypes
  <2>3. OwesAtNext(p)
    <3>1. ~externalPanic'[p] /\ ~offered'[p] BY <2>1 DEF FlagTypes
    <3>. QED BY <2>1, <3>1 DEF OwesAtNext, Carried
  <2>. QED BY <1>2, <1>3, <2>2, <2>3
<1>14. ASSUME NEW p \in Procs, StartDeferred(p) PROVE Owes'
  <2>1. PICK c \in Others : c = Top(p) BY <1>14, StartDeferredFacts
  <2>2. /\ loc[c] = "starting" /\ c # p /\ loc[p] = "deferred"
        /\ loc' = [loc EXCEPT ![p] = "started_deferred", ![c] = "started"]
        /\ externalPanic' = IF TransfersPanic(p[1], c[1])
                            THEN [externalPanic EXCEPT ![c] = internalPanic[p]]
                            ELSE externalPanic
        /\ offered' = [offered EXCEPT ![c] = panicking[p]]
        /\ UNCHANGED panicking
    BY <1>14, <2>1, StartDeferredFacts DEF StartDeferred
  <2>3. "started_deferred" \in Middle BY DEF Locations
  <2>4. \A x \in Others : x # c => /\ externalPanic'[x] = externalPanic[x]
                                   /\ offered'[x] = offered[x]
    BY <2>2 DEF FlagTypes
  <2>5. \A x \in Others : x # c => \/ loc'[x] = loc[x]
                                   \/ loc[x] \notin {"ending", "ended"} /\ loc'[x] \in Middle
    BY <2>2, <2>3
  <2>6. \A x \in Others : x # c => Keeps(x) BY <2>2, <2>4, <2>5
  <2>7. OwesAtNext(c)
    <3>1. loc'[c] = "started" /\ offered'[c] = panicking[p] BY <2>2 DEF FlagTypes
    <3>2. ~externalPanic[c] BY <1>1, <2>2 DEF Owes, Carried
    <3>3. internalPanic[p] <=> panicking[p] BY DEF Visible
    <3>4. panicking[p] => CanPanic(p[1]) BY <1>1 DEF Foreseen
    <3>5. externalPanic'[c] <=> TransfersPanic(p[1], c[1]) /\ panicking[p]
      <4>1. CASE TransfersPanic(p[1], c[1])
        <5>1. externalPanic'[c] = internalPanic[p] BY <2>2, <4>1 DEF FlagTypes
        <5>. QED BY <3>3, <4>1, <5>1
      <4>2. CASE ~TransfersPanic(p[1], c[1]) BY <2>2, <3>2, <4>2
      <4>. QED BY <4>1, <4>2
    <3>6. Carried(c)' <=> panicking[p] /\ (~OptimizeIR \/ c[1] \in Recovers) BY <3>1 DEF Carried
    <3>7. externalPanic'[c] <=> Carried(c)' BY <3>4, <3>5, <3>6 DEF TransfersPanic
    <3>. QED BY <3>1, <3>7 DEF OwesAtNext
  <2>. QED BY <1>2, <1>3, <2>6, <2>7
<1>15. ASSUME NEW p \in Procs, ReachEnd(p) \/ EndAsync(p) PROVE Owes'
  <2>1. "finalizing" \in Middle /\ "finalizing" \in Locations /\ "ended" \in Locations BY DEF Locations
  <2>. QED BY <1>6, <1>15, <2>1 DEF ReachEnd, EndAsync, Moved, flagVars
<1>16. ASSUME NEW p \in Procs, Finalize(p) PROVE Owes'
  <2>1. /\ loc[p] = "finalizing" /\ loc' = [loc EXCEPT ![p] = "ending"]
        /\ externalPanic' = [externalPanic EXCEPT
             ![p] = IF p # Main /\ TracksPanic(p[1]) THEN @ \/ internalPanic[p] ELSE @]
        /\ UNCHANGED <<offered, panicking>>
    BY <1>16 DEF Finalize, Moved
  <2>2. \A x \in Others : x # p => Keeps(x) BY <2>1 DEF FlagTypes
  <2>3. p # Main => OwesAtNext(p)
    <3> SUFFICES ASSUME p # Main PROVE OwesAtNext(p) OBVIOUS
    <3>1. externalPanic[p] <=> Carried(p) BY <1>1, <2>1 DEF Owes
    <3>2. Carried(p)' <=> Carried(p) BY <2>1 DEF Carried
    <3>3. internalPanic[p] <=> panicking[p] BY DEF Visible
    <3>4. panicking[p] => TracksPanic(p[1]) BY <1>1 DEF Foreseen, TracksPanic
    <3>5. externalPanic'[p] <=> externalPanic[p] \/ (TracksPanic(p[1]) /\ internalPanic[p])
      BY <2>1 DEF FlagTypes
    <3>6. loc'[p] = "ending" BY <2>1
    <3>. QED BY <2>1, <3>1, <3>2, <3>3, <3>4, <3>5, <3>6 DEF OwesAtNext
  <2>. QED BY <1>2, <1>3, <2>2, <2>3
<1>17. ASSUME NEW p \in Procs, NEW q \in Procs, EndCall(p, q) PROVE Owes'
  <2>1. /\ panicking' = [panicking EXCEPT ![q] = @ \/ panicking[p]]
        /\ UNCHANGED <<externalPanic, offered>> /\ loc[p] = "ending" /\ loc[q] = "started_callee"
    BY <1>17 DEF EndCall
  <2>2. \A r \in Procs : r # q => panicking'[r] = panicking[r] BY <2>1 DEF FlagTypes
  <2>3. PICK l \in Middle : loc' = [loc EXCEPT ![p] = "ended", ![q] = l]
    <3>1. "started" \in Middle BY DEF Locations
    <3>. QED BY <1>4, <1>17, <3>1 DEF EndCall
  <2>4. \A r \in Others : r # q => loc'[r] = loc[r] \/ loc'[r] = "ended" BY <2>3
  <2>5. loc'[q] \in Middle /\ loc[q] \notin {"ending", "ended"} BY <2>1, <2>3
  <2>. QED BY <1>5, <2>1, <2>2, <2>4, <2>5
<1>18. ASSUME NEW p \in Procs, NEW q \in Procs, EndDeferred(p, q) PROVE Owes'
  <2>1. /\ panicking' = [panicking EXCEPT ![q] = offered[p] \/ panicking[p]]
        /\ loc' = [loc EXCEPT ![p] = "ended", ![q] = "deferred"]
        /\ UNCHANGED <<externalPanic, offered>> /\ loc[p] = "ending" /\ loc[q] = "started_deferred"
    BY <1>18 DEF EndDeferred
  <2>2. \A r \in Procs : r # q => panicking'[r] = panicking[r] BY <2>1 DEF FlagTypes
  <2>3. "deferred" \in Middle BY DEF Locations
  <2>4. \A r \in Others : r # q => loc'[r] = loc[r] \/ loc'[r] = "ended" BY <2>1
  <2>5. loc'[q] \in Middle /\ loc[q] \notin {"ending", "ended"} BY <2>1, <2>3
  <2>. QED BY <1>5, <2>1, <2>2, <2>4, <2>5
<1>. QED BY <1>7, <1>8, <1>9, <1>10, <1>11, <1>12, <1>13, <1>14, <1>15, <1>16, <1>17, <1>18
         DEF Next, Begin, Body, End

LEMMA StepPInv == DeferredRecover /\ IInv /\ PInv /\ [Next]_vars => PInv'
<1> SUFFICES ASSUME DeferredRecover, IInv, PInv, [Next]_vars PROVE PInv' OBVIOUS
<1>1. CASE Next
  <2>1. TypeInv /\ Shape /\ FlagTypes /\ Visible /\ Linked /\ Flags BY <1>1 DEF Next, IInv, PInv
  <2>2. TypeInv' BY <2>1, StepType
  <2>3. FlagTypes' /\ Visible' BY <1>1, <2>1, StepFlagTypes, StepVisible
  <2>4. ASSUME ~outOfResources' PROVE Linked' /\ Flags'
    <3>1. Linked' BY <1>1, <2>1, <2>2, <2>4, StepLinked
    <3>2. Foreseen' BY <1>1, <2>1, StepForeseen
    <3>3. Owes' BY <1>1, <2>1, <2>4, StepOwes
    <3>4. Offers' BY <1>1, <2>1, <2>4, StepOffers
    <3>. QED BY <3>1, <3>2, <3>3, <3>4 DEF Flags
  <2>. QED BY <2>3, <2>4 DEF PInv
<1>2. CASE UNCHANGED vars
  <2>1. UNCHANGED <<outOfResources, loc, callee, deferred, flagVars>> BY <1>2 DEF vars
  <2>2. FlagTypes' /\ Visible' BY <2>1 DEF PInv, FlagTypes, Visible, flagVars
  <2>3. Linked => Linked' BY <2>1 DEF Linked
  <2>4. Foreseen => Foreseen' BY <2>1 DEF Foreseen, flagVars
  <2>5. Owes => Owes' BY <2>1 DEF Owes, Carried, flagVars
  <2>6. Offers => Offers' BY <2>1 DEF Offers, Top, flagVars
  <2>. QED BY <2>1, <2>2, <2>3, <2>4, <2>5, <2>6 DEF PInv, Flags
<1>. QED BY <1>1, <1>2

\* The query "check goroutine does not exit with panic" is right about every program whose
\* deferred functions recover when they can panic, and about every program when the IR is not
\* optimized: internal_panic is what Go has (func_stmts.go, funcs.go). The run lost_panic
\* shows that the condition is needed.
THEOREM PanicVerdictHolds == DeferredRecover => (Spec => []PanicVerdict)
<1>1. PInv => PanicVerdict
  <2> SUFFICES ASSUME PInv, NEW p \in Procs PROVE internalPanic[p] = panicking[p]
    BY DEF PanicVerdict
  <2>1. internalPanic[p] \in BOOLEAN /\ panicking[p] \in BOOLEAN BY DEF PInv, FlagTypes
  <2>. QED BY <2>1 DEF PInv, Visible
<1>2. ASSUME DeferredRecover PROVE Spec => []PanicVerdict
  <2>1. Init => IInv /\ PInv BY InitIInv, InitPInv
  <2>2. IInv /\ PInv /\ [Next]_vars => (IInv /\ PInv)' BY <1>2, StepIInv, StepPInv
  <2>. QED BY <1>1, <2>1, <2>2, PTL DEF Spec
<1>. QED BY <1>2
=============================================================================
