-------------------------- MODULE WaitGroupProofs --------------------------
(***************************************************************************)
(* The WaitGroup automata for every number of processes, handles and every *)
(* set of arguments of Add: Inv is inductive, and that Wait returns at     *)
(* zero, that a group is not reused under its waiters and that only a      *)
(* misuse is reported follow.                                              *)
(***************************************************************************)
EXTENDS WaitGroup, FiniteSetTheorems, TLAPS

\* The processes waiting for a group are finitely many.
LEMMA AwaitingFinite == \A w : IsFiniteSet(Awaiting(w))
<1> TAKE w
<1>1. Awaiting(w) \in SUBSET Procs BY DEF Awaiting
<1>. QED BY <1>1, ProcsAssumption, FS_Subset

\* A step that leaves the processes alone leaves the waiting sets alone.
LEMMA Stays ==
    ASSUME UNCHANGED procVars
    PROVE  \A w : Awaiting(w)' = Awaiting(w)
BY DEF Awaiting, procVars

LEMMA InitInv == Init => Inv
<1> SUFFICES ASSUME Init PROVE Inv OBVIOUS
<1>1. TypeOK
  <2>1. 0 \in WaitGroups BY WaitGroupCountAssumption DEF WaitGroups
  <2>2. waitGroupCount \in Nat /\ counter \in [WaitGroups -> Int] /\ waiters \in [WaitGroups -> Nat]
    BY DEF Init
  <2>3. /\ outOfResources \in BOOLEAN
        /\ location \in [WaitGroups -> Locations]
        /\ pc \in [Procs -> {"running", "awaiting_wait_group"}]
        /\ opWaitGroup \in [Procs -> WaitGroups]
        /\ due \subseteq Procs
    BY <2>1, Zenon DEF Init, Locations
  <2>. QED BY <2>2, <2>3 DEF TypeOK
<1>2. \A w \in WaitGroups : Awaiting(w) = {} BY DEF Init, Awaiting
<1>3. \A w \in WaitGroups : waiters[w] = Cardinality(Awaiting(w))
  BY <1>2, FS_EmptySet DEF Init
<1>. QED BY <1>1, <1>2, <1>3 DEF Inv, Init, LocationMeaning

LEMMA MakeWaitGroupInv ==
    ASSUME Inv, NEW p \in Procs, MakeWaitGroup(p)
    PROVE  Inv'
<1> USE DEF MakeWaitGroup
<1>1. waitGroupCount \in Nat BY DEF Inv, TypeOK
<1>2. ASSUME waitGroupCount < WaitGroupCount
      PROVE  counter[waitGroupCount] = 0 /\ waiters[waitGroupCount] = 0
  <2>1. waitGroupCount \in WaitGroups
    BY <1>1, <1>2, WaitGroupCountAssumption DEF WaitGroups
  <2>2. location[waitGroupCount] = "idle" BY <1>1, <2>1 DEF Inv
  <2>3. counter[waitGroupCount] = 0 BY <2>1, <2>2 DEF Inv, LocationMeaning
  <2>4. \A q \in Procs : pc[q] # "running" => opWaitGroup[q] # waitGroupCount
    BY <1>1 DEF Inv
  <2>5. Awaiting(waitGroupCount) = {} BY <2>4 DEF Awaiting
  <2>. QED BY <2>1, <2>3, <2>5, FS_EmptySet DEF Inv
<1>3. counter' = counter /\ waiters' = waiters
  <2>1. CASE waitGroupCount < WaitGroupCount BY <1>2, <2>1 DEF Inv, TypeOK
  <2>2. CASE ~(waitGroupCount < WaitGroupCount)
    BY <1>1, <2>2, WaitGroupCountAssumption
  <2>. QED BY <2>1, <2>2
<1>4. outOfResources' \in BOOLEAN BY Zenon DEF Inv, TypeOK
<1>5. waitGroupCount' = waitGroupCount + 1 /\ UNCHANGED <<location, pc, opWaitGroup, due>>
  BY DEF procVars
<1>6. TypeOK' BY <1>1, <1>3, <1>4, <1>5 DEF Inv, TypeOK
<1>7. \A w \in WaitGroups : waiters'[w] = Cardinality(Awaiting(w)')
  BY <1>3, Stays DEF Inv
<1>8. \A q \in Procs : pc'[q] # "running" => opWaitGroup'[q] < waitGroupCount'
  BY <1>1, <1>5 DEF Inv, TypeOK, WaitGroups
<1>9. \A w \in WaitGroups : LocationMeaning(w)' BY <1>3, <1>5, Stays DEF Inv, LocationMeaning
<1>10. \A w \in WaitGroups : w >= waitGroupCount' => location'[w] = "idle"
  BY <1>1, <1>5 DEF Inv, WaitGroups
<1>. QED BY <1>5, <1>6, <1>7, <1>8, <1>9, <1>10 DEF Inv

LEMMA AddInv ==
    ASSUME Inv, NEW p \in Procs, NEW w \in Made, NEW delta \in Deltas, Add(p, w, delta)
    PROVE  Inv'
<1> USE DEF Add
<1>0. w \in WaitGroups /\ w < waitGroupCount /\ delta \in Int
  BY DeltasAssumption DEF Made
<1>1. UNCHANGED <<waitGroupCount, outOfResources, waiters, pc, opWaitGroup>>
  BY DEF makeVars, procVars
<1>2. due' \subseteq due \cup Awaiting(w) OBVIOUS
<1>3. TypeOK' BY <1>0, <1>1, <1>2 DEF Inv, TypeOK, Locations, Awaiting
<1>4. \A v \in WaitGroups : waiters'[v] = Cardinality(Awaiting(v)')
  BY <1>1, Stays DEF Inv
<1>5. \A q \in Procs : pc'[q] # "running" => opWaitGroup'[q] < waitGroupCount'
  BY <1>1 DEF Inv
<1>6. \A q \in due' : pc'[q] = "awaiting_wait_group" BY <1>1, <1>2 DEF Inv, Awaiting
<1>7. \A v \in WaitGroups : v # w => location'[v] = location[v] /\ counter'[v] = counter[v]
  BY <1>0 DEF Inv, TypeOK
<1>8. \A v \in WaitGroups : v >= waitGroupCount' => location'[v] = "idle"
  <2>1. ~(w >= waitGroupCount) BY <1>0 DEF Inv, TypeOK, WaitGroups
  <2>. QED BY <1>1, <1>7, <2>1 DEF Inv
<1>9. \A v \in WaitGroups : LocationMeaning(v)'
  <2> TAKE v \in WaitGroups
  <2>1. CASE v # w
    <3>1. Awaiting(v) \cap Awaiting(w) = {} BY <2>1 DEF Awaiting
    <3>2. due' \cap Awaiting(v) = due \cap Awaiting(v) BY <3>1
    <3>3. Awaiting(v)' = Awaiting(v) BY <1>1, Stays DEF procVars
    <3>. QED BY <1>7, <2>1, <3>2, <3>3 DEF Inv, LocationMeaning
  <2>2. CASE v = w
    <3>1. Awaiting(w)' = Awaiting(w) BY Stays
    <3>2. location'[w] \in {"adding", "bad"} BY <1>0 DEF Inv, TypeOK
    <3>3. location'[w] = "adding" /\ counter'[w] # 0 => due' \cap Awaiting(w) = {}
      <4>1. CASE location[w] = "idle" /\ waiters[w] = 0
        <5>1. Awaiting(w) = {} BY <1>0, <4>1, AwaitingFinite, FS_EmptySet DEF Inv
        <5>. QED BY <5>1, <1>0, <4>1 DEF Inv, LocationMeaning
      <4>2. CASE location[w] = "active_tasks"
        BY <1>0, <4>2 DEF Inv, LocationMeaning
      <4>3. CASE location[w] = "idle" /\ waiters[w] > 0
        BY <1>0, <4>3 DEF Inv, TypeOK
      <4>. QED BY <4>1, <4>2, <4>3
    <3>4. counter'[w] = 0 => Awaiting(w) \subseteq due' OBVIOUS
    <3>. QED BY <2>2, <3>1, <3>2, <3>3, <3>4 DEF LocationMeaning
  <2>. QED BY <2>1, <2>2
<1>. QED BY <1>3, <1>4, <1>5, <1>6, <1>8, <1>9 DEF Inv

LEMMA AddedInv ==
    ASSUME Inv, NEW w \in Made, Added(w)
    PROVE  Inv'
<1> USE DEF Added
<1>0. w \in WaitGroups /\ w < waitGroupCount BY DEF Made
<1>1. UNCHANGED <<waitGroupCount, outOfResources, counter, waiters, pc, opWaitGroup, due>>
  BY DEF makeVars, procVars
<1>2. TypeOK' BY <1>0, <1>1 DEF Inv, TypeOK, Locations
<1>3. \A v \in WaitGroups : waiters'[v] = Cardinality(Awaiting(v)')
  BY <1>1, Stays DEF Inv
<1>4. \A v \in WaitGroups : v >= waitGroupCount' => location'[v] = "idle"
  BY <1>0, <1>1 DEF Inv, TypeOK, WaitGroups
<1>5. \A v \in WaitGroups : LocationMeaning(v)'
  BY <1>0, <1>1, Stays DEF Inv, TypeOK, LocationMeaning
<1>. QED BY <1>1, <1>2, <1>3, <1>4, <1>5 DEF Inv

LEMMA RegisterWaitInv ==
    ASSUME Inv, NEW p \in Procs, NEW w \in Made, RegisterWait(p, w)
    PROVE  Inv'
<1> USE DEF RegisterWait
<1>0. w \in WaitGroups /\ w < waitGroupCount BY DEF Made
<1>1. UNCHANGED <<waitGroupCount, outOfResources, location, counter>> BY DEF makeVars
<1>2. TypeOK' BY <1>0, <1>1 DEF Inv, TypeOK
<1>3. Awaiting(w)' = Awaiting(w) \cup {p} /\ p \notin Awaiting(w)
  BY <1>0 DEF Inv, TypeOK, Awaiting
<1>4. \A v \in WaitGroups : v # w => Awaiting(v)' = Awaiting(v) /\ p \notin Awaiting(v)'
  BY <1>0 DEF Inv, TypeOK, Awaiting
<1>5. \A v \in WaitGroups : waiters'[v] = Cardinality(Awaiting(v)')
  <2>1. Cardinality(Awaiting(w)') = Cardinality(Awaiting(w)) + 1
    BY <1>3, AwaitingFinite, FS_AddElement
  <2>. QED BY <1>0, <1>4, <2>1 DEF Inv, TypeOK
<1>6. \A q \in Procs : pc'[q] # "running" => opWaitGroup'[q] < waitGroupCount'
  BY <1>0, <1>1 DEF Inv, TypeOK
<1>7. \A q \in due' : pc'[q] = "awaiting_wait_group" BY DEF Inv, TypeOK
<1>8. \A v \in WaitGroups : LocationMeaning(v)'
  <2> TAKE v \in WaitGroups
  <2>1. p \notin due BY DEF Inv
  <2>2. CASE v # w BY <1>1, <1>4, <2>2 DEF Inv, LocationMeaning
  <2>3. CASE v = w
    <3>1. counter[w] # 0 => due' \cap Awaiting(w)' = due \cap Awaiting(w)
      BY <1>3, <2>1
    <3>2. location[w] = "active_tasks" => counter[w] # 0 BY <1>0 DEF Inv, LocationMeaning, TypeOK
    <3>3. counter[w] = 0 => Awaiting(w)' \subseteq due' BY <1>0, <1>3 DEF Inv, LocationMeaning
    <3>4. location[w] = "adding" => counter[w] = 0 \/ due \cap Awaiting(w) = {}
      BY <1>0 DEF Inv, LocationMeaning
    <3>5. location[w] = "active_tasks" => due \cap Awaiting(w) = {} /\ counter[w] > 0
      BY <1>0 DEF Inv, LocationMeaning
    <3>6. location[w] = "idle" => counter[w] = 0 BY <1>0 DEF Inv, LocationMeaning
    <3>. QED BY <1>1, <2>3, <3>1, <3>2, <3>3, <3>4, <3>5, <3>6 DEF LocationMeaning
  <2>. QED BY <2>2, <2>3
<1>. QED BY <1>1, <1>2, <1>5, <1>6, <1>7, <1>8 DEF Inv

LEMMA ReturnInv ==
    ASSUME Inv, NEW p \in Procs, NEW w \in Made, Return(p, w)
    PROVE  Inv'
<1> USE DEF Return
<1>0. w \in WaitGroups BY DEF Made
<1>1. UNCHANGED <<waitGroupCount, outOfResources, location, counter, opWaitGroup>>
  BY DEF makeVars
<1>2. TypeOK' BY <1>0, <1>1 DEF Inv, TypeOK
<1>3. Awaiting(w)' = Awaiting(w) \ {p} /\ p \in Awaiting(w)
  BY <1>0 DEF Inv, TypeOK, Awaiting
<1>4. \A v \in WaitGroups : v # w => Awaiting(v)' = Awaiting(v)
  BY <1>0 DEF Inv, TypeOK, Awaiting
<1>5. \A v \in WaitGroups : waiters'[v] = Cardinality(Awaiting(v)')
  <2>1. Cardinality(Awaiting(w)') = Cardinality(Awaiting(w)) - 1
    BY <1>3, AwaitingFinite, FS_RemoveElement
  <2>. QED BY <1>0, <1>4, <2>1 DEF Inv, TypeOK
<1>6. \A q \in Procs : pc'[q] # "running" => opWaitGroup'[q] < waitGroupCount'
  BY <1>1 DEF Inv, TypeOK
<1>7. \A q \in due' : pc'[q] = "awaiting_wait_group" BY DEF Inv, TypeOK
<1>8. \A v \in WaitGroups : LocationMeaning(v)'
  <2> TAKE v \in WaitGroups
  <2>1. Awaiting(v)' \subseteq Awaiting(v) BY <1>3, <1>4
  <2>2. p \notin Awaiting(v)' BY <1>0, <1>3, <1>4 DEF Awaiting, Inv, TypeOK
  <2>3. counter[v] = 0 => Awaiting(v)' \subseteq due' BY <2>1, <2>2 DEF Inv, LocationMeaning
  <2>4. due' \cap Awaiting(v)' \subseteq due \cap Awaiting(v) BY <2>1
  <2>. QED BY <1>1, <2>3, <2>4 DEF Inv, LocationMeaning
<1>. QED BY <1>1, <1>2, <1>5, <1>6, <1>7, <1>8 DEF Inv

LEMMA NextInv == Inv /\ [Next]_vars => Inv'
<1> SUFFICES ASSUME Inv, [Next]_vars PROVE Inv' OBVIOUS
<1>1. ASSUME NEW p \in Procs, MakeWaitGroup(p) PROVE Inv' BY <1>1, MakeWaitGroupInv
<1>2. ASSUME NEW p \in Procs, NEW w \in Made, NEW delta \in Deltas, Add(p, w, delta)
      PROVE  Inv'
  BY <1>2, AddInv
<1>3. ASSUME NEW p \in Procs, NEW w \in Made, RegisterWait(p, w) PROVE Inv'
  BY <1>3, RegisterWaitInv
<1>4. ASSUME NEW p \in Procs, NEW w \in Made, Return(p, w) PROVE Inv' BY <1>4, ReturnInv
<1>5. ASSUME NEW w \in Made, Added(w) PROVE Inv' BY <1>5, AddedInv
<1>6. CASE UNCHANGED vars
  <2>1. UNCHANGED <<waitGroupCount, outOfResources, location, counter, waiters, pc, opWaitGroup, due>>
    BY <1>6 DEF vars, makeVars, procVars
  <2>. QED BY <2>1 DEF Inv, TypeOK, LocationMeaning, Awaiting
<1>. QED BY <1>1, <1>2, <1>3, <1>4, <1>5, <1>6 DEF Next

\* Inv holds in every reachable state, for every number of processes and handles.
THEOREM Invariance == Spec => []Inv
BY InitInv, NextInv, PTL DEF Spec

\* A group never becomes active again under a process that saw its counter at zero.
THEOREM NoReuseUnderWaitersHolds == Spec => []NoReuseUnderWaiters
<1>1. Inv => NoReuseUnderWaiters BY DEF Inv, LocationMeaning, NoReuseUnderWaiters
<1>. QED BY <1>1, Invariance, PTL

\* Wait returns only while the counter is zero, and only to who waited for that.
THEOREM ReturnsAtZeroHolds == Spec => ReturnsAtZero
<1>1. Inv => \A p \in Procs, w \in WaitGroups : Return(p, w) => counter[w] = 0 /\ p \in due
  BY DEF Inv, LocationMeaning, Return, Awaiting
<1>. QED BY <1>1, Invariance, PTL DEF ReturnsAtZero

\* The wait group safety query fails only on a negative counter or an Add that overtakes
\* a released waiter.
THEOREM BadOnlyByMisuseHolds == Spec => BadOnlyByMisuse
<1> DEFINE Verdict == \A w \in WaitGroups :
             location[w] # "bad" /\ location'[w] = "bad" =>
               counter'[w] < 0 \/ due \cap Awaiting(w) # {}
<1>1. Inv /\ [Next]_vars => [Verdict]_vars
  <2> SUFFICES ASSUME Inv, Next, NEW w \in WaitGroups,
                      location[w] # "bad", location'[w] = "bad"
               PROVE  counter'[w] < 0 \/ due \cap Awaiting(w) # {}
    OBVIOUS
  <2>1. CASE \E v \in Made : Added(v)
    BY <2>1 DEF Added, Inv, TypeOK, Made
  <2>2. ASSUME NEW p \in Procs, NEW v \in Made, NEW delta \in Deltas, Add(p, v, delta)
        PROVE  due \cap Awaiting(w) # {}
    <3>1. v = w /\ location[w] = "idle" /\ waiters[w] > 0
      BY <2>2 DEF Add, Inv, TypeOK, Made
    <3>2. Awaiting(w) # {} BY <3>1, FS_EmptySet DEF Inv
    <3>. QED BY <3>1, <3>2 DEF Inv, LocationMeaning
  <2>3. CASE \E p \in Procs : MakeWaitGroup(p) BY <2>3 DEF MakeWaitGroup
  <2>4. CASE \E p \in Procs, v \in Made : RegisterWait(p, v) \/ Return(p, v)
    BY <2>4 DEF RegisterWait, Return
  <2>. QED BY <2>1, <2>2, <2>3, <2>4 DEF Next
<1>. QED BY <1>1, Invariance, PTL DEF Spec, BadOnlyByMisuse
=============================================================================
