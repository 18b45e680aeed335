----------------------------- MODULE OnceProofs -----------------------------
(***************************************************************************)
(* sync.Once for every number of processes and handles: Inv is inductive,  *)
(* the function runs at most once and Do returns only when it is done.     *)
(***************************************************************************)
EXTENDS Once, TLAPS

LEMMA InitInv == Init => Inv
<1> SUFFICES ASSUME Init PROVE Inv OBVIOUS
<1> USE DEF Init
<1>1. 0 \in Onces BY OnceCountAssumption DEF Onces
<1>2. onceValues \in [Onces -> 0 .. 2] /\ runs \in [Onces -> Nat]
  <2>1. \A o \in Onces : 0 \in 0 .. 2 /\ 0 \in Nat OBVIOUS
  <2>. QED BY <2>1
<1>5. pc \in [Procs -> {"running", "enter", "do", "panicked"}] /\ oid \in [Procs -> Onces]
  BY <1>1
<1>6. onceCount \in Nat /\ outOfResources \in BOOLEAN /\ done \subseteq Onces OBVIOUS
<1>7. TypeOK BY <1>2, <1>5, <1>6 DEF TypeOK
<1>3. \A o \in Onces : onceValues[o] = 0 /\ runs[o] = 0 /\ o \notin done OBVIOUS
<1>4. \A p \in Procs : pc[p] = "running" OBVIOUS
<1>. QED BY <1>7, <1>3, <1>4 DEF Inv

LEMMA StepInv == Inv /\ [Next]_vars => Inv'
<1> SUFFICES ASSUME Inv, [Next]_vars PROVE Inv' OBVIOUS
<1>. USE DEF Inv, TypeOK
<1>1. ASSUME NEW p \in Procs, MakeOnce(p) PROVE Inv'
  <2>1. CASE onceCount >= OnceCount
    BY <1>1, <2>1, OnceCountAssumption DEF MakeOnce, makeVars, Onces
  <2>2. CASE onceCount < OnceCount
    <3>1. onceCount \in Onces /\ onceValues[onceCount] = 0
      BY <2>2, OnceCountAssumption DEF Onces
    <3>2. onceValues' = onceValues BY <1>1, <2>2, <3>1, OnceCountAssumption DEF MakeOnce
    <3>. QED BY <1>1, <2>2, <3>2, OnceCountAssumption DEF MakeOnce, Onces
  <2>. QED BY <2>1, <2>2, OnceCountAssumption
<1>2. ASSUME NEW p \in Procs, NEW o \in Made, Enter(p, o) PROVE Inv'
  BY <1>2 DEF Enter, makeVars, Made
<1>3. ASSUME NEW p \in Procs, DontExecute(p) PROVE Inv'
  BY <1>3 DEF DontExecute, makeVars
<1>4. ASSUME NEW p \in Procs, DoExecute(p) PROVE Inv'
  <2>1. oid[p] \in Onces /\ oid[p] < onceCount BY <1>4 DEF DoExecute
  <2>2. runs' \in [Onces -> Nat] /\ onceValues' \in [Onces -> 0 .. 2]
    BY <1>4, <2>1 DEF DoExecute
  <2>3. \A o \in Onces : /\ runs'[o] = (IF onceValues'[o] = 0 THEN 0 ELSE 1)
                         /\ o \in done <=> onceValues'[o] = 2
                         /\ o >= onceCount => onceValues'[o] = 0
    <3> TAKE o \in Onces
    <3>1. CASE o = oid[p] BY <1>4, <2>1, <3>1 DEF DoExecute, Onces
    <3>2. CASE o # oid[p] BY <1>4, <2>1, <3>2 DEF DoExecute
    <3>. QED BY <3>1, <3>2
  <2>4. \A q \in Procs : pc[q] = "do" => oid[q] # oid[p] BY <1>4 DEF DoExecute
  <2>. QED BY <1>4, <2>1, <2>2, <2>3, <2>4 DEF DoExecute, makeVars
<1>5. ASSUME NEW p \in Procs, DoExit(p) PROVE Inv'
  <2>1. oid[p] \in Onces /\ onceValues[oid[p]] = 1 BY <1>5 DEF DoExit
  <2>2. onceValues' \in [Onces -> 0 .. 2] BY <1>5, <2>1 DEF DoExit
  <2>3. \A o \in Onces : /\ runs[o] = (IF onceValues'[o] = 0 THEN 0 ELSE 1)
                         /\ o \in done' <=> onceValues'[o] = 2
                         /\ o >= onceCount => onceValues'[o] = 0
    <3> TAKE o \in Onces
    <3>1. CASE o = oid[p] BY <1>5, <2>1, <3>1 DEF DoExit
    <3>2. CASE o # oid[p] BY <1>5, <2>1, <3>2 DEF DoExit
    <3>. QED BY <3>1, <3>2
  <2>4. \A q \in Procs : pc[q] = "do" /\ q # p => oid[q] # oid[p] BY <1>5 DEF DoExit
  <2>. QED BY <1>5, <2>1, <2>2, <2>3, <2>4 DEF DoExit, makeVars
<1>6. ASSUME NEW p \in Procs, DoPanic(p) PROVE Inv'
  BY <1>6 DEF DoPanic, makeVars
<1>7. CASE UNCHANGED vars
  BY <1>7 DEF vars, makeVars
<1>. QED BY <1>1, <1>2, <1>3, <1>4, <1>5, <1>6, <1>7 DEF Next

\* Inv is an invariant of sync.Once.
THEOREM Invariance == Spec => []Inv
<1>. QED BY InitInv, StepInv, PTL DEF Spec

\* The function given to a once runs at most once (the guard and claim of the do edge).
THEOREM AtMostOnceHolds == Spec => []AtMostOnce
<1>1. Inv => AtMostOnce BY DEF Inv, TypeOK, AtMostOnce
<1>. QED BY Invariance, <1>1, PTL

\* A Do that skips the function finds it returned (the guard of the dontExecute edge).
THEOREM ReturnsWhenDoneHolds == Spec => ReturnsWhenDone
<1>1. Inv => \A p \in Procs : DontExecute(p) => oid[p] \in done
  BY DEF Inv, TypeOK, DontExecute
<1>. QED BY Invariance, <1>1, PTL DEF ReturnsWhenDone
=============================================================================
