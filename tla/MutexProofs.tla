---------------------------- MODULE MutexProofs ----------------------------
(***************************************************************************)
(* The Mutex automata for every number of processes and handles: Inv is    *)
(* inductive, and mutual exclusion, the meaning of the pending counters,   *)
(* freedom from committed deadlock, the verdict on unlocks and the         *)
(* refinement of Go's locks follow.                                        *)
(***************************************************************************)
EXTENDS MutexRefinement, FiniteSetTheorems, TLAPS

AwaitLocations == {"awaiting_read_lock", "awaiting_write_lock"}

\* The processes awaiting a lock are finitely many.
LEMMA AwaitingFinite ==
    ASSUME NEW pl, NEW m
    PROVE  IsFiniteSet(Awaiting(pl, m))
<1>1. Awaiting(pl, m) \in SUBSET Procs BY DEF Awaiting
<1>. QED BY <1>1, ProcsAssumption, FS_Subset

\* Registering process p adds one to the processes that await lock pl of m, and to no other.
LEMMA Joins ==
    ASSUME TypeOK, NEW p \in Procs, NEW m \in Mutexes, NEW pl \in AwaitLocations,
           pc[p] = "running",
           pc' = [pc EXCEPT ![p] = pl], opMutex' = [opMutex EXCEPT ![p] = m]
    PROVE  \A k \in Mutexes, ql \in AwaitLocations :
             Cardinality(Awaiting(ql, k)') =
               IF ql = pl /\ k = m THEN Cardinality(Awaiting(ql, k)) + 1
                                   ELSE Cardinality(Awaiting(ql, k))
<1> TAKE k \in Mutexes, ql \in AwaitLocations
<1>1. CASE ql = pl /\ k = m
  <2>1. Awaiting(ql, k)' = Awaiting(ql, k) \cup {p}
    BY <1>1 DEF Awaiting, TypeOK, AwaitLocations
  <2>2. p \notin Awaiting(ql, k) BY DEF Awaiting, AwaitLocations
  <2>. QED BY <1>1, <2>1, <2>2, AwaitingFinite, FS_AddElement
<1>2. CASE ~(ql = pl /\ k = m)
  <2>1. Awaiting(ql, k)' = Awaiting(ql, k)
    BY <1>2 DEF Awaiting, TypeOK, AwaitLocations
  <2>. QED BY <1>2, <2>1
<1>. QED BY <1>1, <1>2

\* Acquiring removes one from the processes that await lock pl of m, and from no other.
LEMMA Leaves ==
    ASSUME TypeOK, NEW p \in Procs, NEW m \in Mutexes, NEW pl \in AwaitLocations,
           pc[p] = pl, opMutex[p] = m,
           pc' = [pc EXCEPT ![p] = "running"], opMutex' = opMutex
    PROVE  \A k \in Mutexes, ql \in AwaitLocations :
             Cardinality(Awaiting(ql, k)') =
               IF ql = pl /\ k = m THEN Cardinality(Awaiting(ql, k)) - 1
                                   ELSE Cardinality(Awaiting(ql, k))
<1> TAKE k \in Mutexes, ql \in AwaitLocations
<1>1. CASE ql = pl /\ k = m
  <2>1. Awaiting(ql, k)' = Awaiting(ql, k) \ {p}
    BY <1>1 DEF Awaiting, TypeOK, AwaitLocations
  <2>2. p \in Awaiting(ql, k) BY <1>1 DEF Awaiting
  <2>. QED BY <1>1, <2>1, <2>2, AwaitingFinite, FS_RemoveElement
<1>2. CASE ~(ql = pl /\ k = m)
  <2>1. Awaiting(ql, k)' = Awaiting(ql, k)
    BY <1>2 DEF Awaiting, TypeOK, AwaitLocations
  <2>. QED BY <1>2, <2>1
<1>. QED BY <1>1, <1>2

\* A process that awaits lock pl of m is counted.
LEMMA Counted ==
    ASSUME NEW p \in Procs, NEW m, NEW pl, pc[p] = pl, opMutex[p] = m
    PROVE  Cardinality(Awaiting(pl, m)) \in Nat \ {0}
<1>1. p \in Awaiting(pl, m) BY DEF Awaiting
<1>. QED BY <1>1, AwaitingFinite, FS_EmptySet, FS_CardinalityType

LEMMA InitInv == Init => Inv
<1> SUFFICES ASSUME Init PROVE Inv OBVIOUS
<1>1. TypeOK
  <2>1. 0 \in Mutexes BY MutexCountAssumption DEF Mutexes
  <2>. QED BY <2>1 DEF Init, TypeOK, Locations, ProcLocations
<1>2. \A m \in Mutexes, pl \in AwaitLocations : Cardinality(Awaiting(pl, m)) = 0
  <2> TAKE m \in Mutexes, pl \in AwaitLocations
  <2>1. Awaiting(pl, m) = {} BY DEF Awaiting, Init, AwaitLocations
  <2>. QED BY <2>1, FS_EmptySet
<1>3. \A m \in Mutexes : LocationMeaning(m) BY DEF Init, LocationMeaning
<1>. QED BY <1>1, <1>2, <1>3
         DEF Inv, Init, AwaitingRead, AwaitingWrite, AwaitLocations


\* The parts of Inv that an action has to preserve, by name.
CountsOK == \A m \in Mutexes : /\ pendingReaders[m] = Cardinality(AwaitingRead(m))
                              /\ pendingWriters[m] = Cardinality(AwaitingWrite(m))
AwaitedMade == \A p \in Procs : pc[p] # "running" => opMutex[p] < mutexCount

\* A step that leaves the processes alone leaves the waiting sets alone.
LEMMA Stays ==
    ASSUME pc' = pc, opMutex' = opMutex
    PROVE  \A m : AwaitingRead(m)' = AwaitingRead(m) /\ AwaitingWrite(m)' = AwaitingWrite(m)
BY DEF AwaitingRead, AwaitingWrite, Awaiting

\* The counters that make_mutex resets are zero: nobody awaits a handle not yet made.
LEMMA MakeMutexKeepsPending ==
    ASSUME Inv, NEW p \in Procs, MakeMutex(p)
    PROVE  pendingReaders' = pendingReaders /\ pendingWriters' = pendingWriters
<1> USE DEF MakeMutex, pendingVars
<1> USE MutexCountAssumption
<1>1. ASSUME mutexCount < MutexCount
      PROVE  pendingReaders[mutexCount] = 0 /\ pendingWriters[mutexCount] = 0
  <2>1. mutexCount \in Mutexes BY <1>1 DEF Inv, TypeOK, Mutexes
  <2>2. AwaitingRead(mutexCount) = {} /\ AwaitingWrite(mutexCount) = {}
    <3>1. mutexCount \in Nat /\ ~(mutexCount < mutexCount) BY DEF Inv, TypeOK
    <3>2. \A q \in Procs : pc[q] # "running" => opMutex[q] # mutexCount
      BY <3>1 DEF Inv
    <3>. QED BY <3>2 DEF AwaitingRead, AwaitingWrite, Awaiting
  <2>. QED BY <2>1, <2>2, FS_EmptySet DEF Inv
<1>. QED
  <2>1. CASE mutexCount < MutexCount
    BY <2>1, <1>1 DEF Inv, TypeOK
  <2>2. CASE ~(mutexCount < MutexCount)
    BY <2>2 DEF Inv, TypeOK
  <2>. QED BY <2>1, <2>2

LEMMA MakeMutexInv ==
    ASSUME Inv, NEW p \in Procs, MakeMutex(p)
    PROVE  Inv'
<1> USE DEF MakeMutex, automatonVars, holdVars, procVars, makeVars, pendingVars
<1> USE MutexCountAssumption
<1>1. TypeOK'
  <2>1. mutexCount' \in Nat BY DEF Inv, TypeOK
  <2>3. outOfResources' \in BOOLEAN BY Zenon DEF Inv, TypeOK
  <2>2. pendingReaders' \in [Mutexes -> Nat] /\ pendingWriters' \in [Mutexes -> Nat]
    BY DEF Inv, TypeOK
  <2>. QED BY <2>1, <2>2, <2>3 DEF Inv, TypeOK
<1>3. pendingReaders' = pendingReaders /\ pendingWriters' = pendingWriters BY MakeMutexKeepsPending
<1>4. CountsOK' BY <1>3, Stays DEF Inv, CountsOK
<1>5. AwaitedMade' BY DEF Inv, AwaitedMade, TypeOK, Mutexes
<1>6. \A m \in Mutexes : LocationMeaning(m)' BY <1>3 DEF Inv, LocationMeaning
<1>. QED BY <1>1, <1>4, <1>5, <1>6 DEF Inv, CountsOK, AwaitedMade

LEMMA RegisterInv ==
    ASSUME Inv, NEW p \in Procs, NEW m \in Made, RegisterRead(p, m) \/ RegisterWrite(p, m)
    PROVE  Inv'
<1> USE DEF Register, RegisterRead, RegisterWrite,
            automatonVars, holdVars, makeVars, pendingVars
<1>0. m \in Mutexes /\ m < mutexCount BY DEF Made
<1>1. TypeOK' BY <1>0 DEF Inv, TypeOK, ProcLocations
<1>2. CountsOK'
  <2>1. CASE RegisterRead(p, m)
    <3>1. \A k \in Mutexes, ql \in AwaitLocations :
            Cardinality(Awaiting(ql, k)') =
              IF ql = "awaiting_read_lock" /\ k = m
              THEN Cardinality(Awaiting(ql, k)) + 1 ELSE Cardinality(Awaiting(ql, k))
      BY <2>1, <1>0, Joins DEF Inv, AwaitLocations
    <3>. QED BY <3>1, <2>1, <1>0
             DEF Inv, TypeOK, CountsOK, AwaitingRead, AwaitingWrite, AwaitLocations
  <2>2. CASE RegisterWrite(p, m)
    <3>1. \A k \in Mutexes, ql \in AwaitLocations :
            Cardinality(Awaiting(ql, k)') =
              IF ql = "awaiting_write_lock" /\ k = m
              THEN Cardinality(Awaiting(ql, k)) + 1 ELSE Cardinality(Awaiting(ql, k))
      BY <2>2, <1>0, Joins DEF Inv, AwaitLocations
    <3>. QED BY <3>1, <2>2, <1>0
             DEF Inv, TypeOK, CountsOK, AwaitingRead, AwaitingWrite, AwaitLocations
  <2>. QED BY <2>1, <2>2
<1>3. AwaitedMade' BY <1>0 DEF Inv, AwaitedMade, TypeOK
<1>4. \A k \in Mutexes : LocationMeaning(k)'
  BY <1>0 DEF Inv, TypeOK, LocationMeaning, Quiet, Committed
<1>. QED BY <1>1, <1>2, <1>3, <1>4 DEF Inv, CountsOK, AwaitedMade

LEMMA AcquireReadInv ==
    ASSUME Inv, NEW p \in Procs, NEW m \in Mutexes, AcquireRead(p, m)
    PROVE  Inv'
<1> USE DEF AcquireRead, makeVars
<1>0. pendingReaders[m] > 0 /\ pendingReaders[m] \in Nat
  BY Counted DEF Inv, TypeOK, AwaitingRead
<1>1. TypeOK' BY <1>0 DEF Inv, TypeOK, ProcLocations, Locations, Committed
<1>2. CountsOK'
  <2>1. \A k \in Mutexes, ql \in AwaitLocations :
          Cardinality(Awaiting(ql, k)') =
            IF ql = "awaiting_read_lock" /\ k = m
            THEN Cardinality(Awaiting(ql, k)) - 1 ELSE Cardinality(Awaiting(ql, k))
    BY Leaves DEF Inv, AwaitLocations
  <2>. QED BY <2>1 DEF Inv, TypeOK, CountsOK, AwaitingRead, AwaitingWrite, AwaitLocations
<1>3. AwaitedMade' BY DEF Inv, AwaitedMade, TypeOK
<1>4. \A k \in Mutexes : LocationMeaning(k)' BY DEF Inv, TypeOK, LocationMeaning
<1>. QED BY <1>1, <1>2, <1>3, <1>4 DEF Inv, CountsOK, AwaitedMade

LEMMA AcquireWriteInv ==
    ASSUME Inv, NEW p \in Procs, NEW m \in Mutexes, AcquireWrite(p, m)
    PROVE  Inv'
<1> USE DEF AcquireWrite, makeVars
<1>0. pendingWriters[m] > 0 /\ pendingWriters[m] \in Nat
  BY Counted DEF Inv, TypeOK, AwaitingWrite
<1>1. TypeOK' BY <1>0 DEF Inv, TypeOK, ProcLocations, Locations, Committed
<1>2. CountsOK'
  <2>1. \A k \in Mutexes, ql \in AwaitLocations :
          Cardinality(Awaiting(ql, k)') =
            IF ql = "awaiting_write_lock" /\ k = m
            THEN Cardinality(Awaiting(ql, k)) - 1 ELSE Cardinality(Awaiting(ql, k))
    BY Leaves DEF Inv, AwaitLocations
  <2>. QED BY <2>1 DEF Inv, TypeOK, CountsOK, AwaitingRead, AwaitingWrite, AwaitLocations
<1>3. AwaitedMade' BY DEF Inv, AwaitedMade, TypeOK
<1>4. \A k \in Mutexes : LocationMeaning(k)' BY DEF Inv, TypeOK, LocationMeaning
<1>. QED BY <1>1, <1>2, <1>3, <1>4 DEF Inv, CountsOK, AwaitedMade

LEMMA ReadLockedInv ==
    ASSUME Inv, NEW m \in Mutexes, ReadLocked(m)
    PROVE  Inv'
<1> USE DEF ReadLocked, holdVars, makeVars, pendingVars, procVars
<1>1. TypeOK' BY DEF Inv, TypeOK, Locations
<1>2. CountsOK' BY Stays DEF Inv, CountsOK
<1>3. AwaitedMade' BY DEF Inv, AwaitedMade
<1>4. \A k \in Mutexes : LocationMeaning(k)' BY DEF Inv, TypeOK, LocationMeaning
<1>. QED BY <1>1, <1>2, <1>3, <1>4 DEF Inv, CountsOK, AwaitedMade

LEMMA UnlockInv ==
    ASSUME Inv, NEW p \in Procs, NEW m \in Mutexes, ReadUnlock(p, m) \/ WriteUnlock(p, m)
    PROVE  Inv'
<1> USE DEF ReadUnlock, WriteUnlock, Misuse, OneLess, makeVars, pendingVars, procVars
<1>1. TypeOK' BY DEF Inv, TypeOK, Locations, Committed
<1>2. CountsOK' BY Stays DEF Inv, CountsOK
<1>3. AwaitedMade' BY DEF Inv, AwaitedMade
<1>4. \A k \in Mutexes : LocationMeaning(k)'
  <2>1. CASE ReadUnlock(p, m) BY <2>1 DEF Inv, TypeOK, LocationMeaning
  <2>2. CASE WriteUnlock(p, m) BY <2>2 DEF Inv, TypeOK, LocationMeaning
  <2>. QED BY <2>1, <2>2
<1>. QED BY <1>1, <1>2, <1>3, <1>4 DEF Inv, CountsOK, AwaitedMade

LEMMA NextInv == Inv /\ [Next]_vars => Inv'
<1> SUFFICES ASSUME Inv, [Next]_vars PROVE Inv' OBVIOUS
<1>1. ASSUME NEW p \in Procs, MakeMutex(p) PROVE Inv' BY <1>1, MakeMutexInv
<1>2. ASSUME NEW p \in Procs, NEW m \in Made, RegisterRead(p, m) \/ RegisterWrite(p, m)
      PROVE  Inv'
  BY <1>2, RegisterInv
<1>3. ASSUME NEW p \in Procs, NEW m \in Made, ReadUnlock(p, m) \/ WriteUnlock(p, m)
      PROVE  Inv'
  BY <1>3, UnlockInv DEF Made
<1>4. ASSUME NEW m \in Made, Acquire(m) PROVE Inv'
  BY <1>4, AcquireReadInv, AcquireWriteInv, ReadLockedInv DEF Acquire, Made
<1>5. CASE UNCHANGED vars
  <2> USE <1>5 DEF vars, automatonVars, holdVars, makeVars, pendingVars, procVars
  <2>1. TypeOK' BY DEF Inv, TypeOK
  <2>2. CountsOK' BY Stays DEF Inv, CountsOK
  <2>3. AwaitedMade' BY DEF Inv, AwaitedMade
  <2>4. \A k \in Mutexes : LocationMeaning(k)' BY DEF Inv, LocationMeaning
  <2>. QED BY <2>1, <2>2, <2>3, <2>4 DEF Inv, CountsOK, AwaitedMade
<1>. QED BY <1>1, <1>2, <1>3, <1>4, <1>5 DEF Next

\* Inv holds in every reachable state, whatever the processes and handles.
THEOREM Invariance == Spec => []Inv
<1>. QED BY InitInv, NextInv, PTL DEF Spec

\* The mutex automata keep writers apart from every other holder.
THEOREM MutualExclusionHolds == Spec => []MutualExclusion
<1>1. Inv => MutualExclusion
  BY DEF Inv, TypeOK, MutualExclusion, LocationMeaning, Locations, Committed
<1>. QED BY <1>1, Invariance, PTL

\* The pending counters the guards read are the numbers of waiting processes.
THEOREM PendingCountsHolds == Spec => []PendingCounts
<1>1. Inv => PendingCounts BY DEF Inv, PendingCounts
<1>. QED BY <1>1, Invariance, PTL

\* No Mutex automaton freezes the network in a committed location.
THEOREM CommittedCanProceedHolds == Spec => []CommittedCanProceed
<1>1. Inv => CommittedCanProceed
  <2> SUFFICES ASSUME Inv, NEW m \in Mutexes
               PROVE  /\ pendingReaders[m] = 0 \/ AwaitingRead(m) # {}
                      /\ location[m] = "read_locked_to_write_locked" =>
                           AwaitingWrite(m) # {}
    BY DEF CommittedCanProceed
  <2>1. location[m] = "read_locked_to_write_locked" => pendingWriters[m] > 0
    BY DEF Inv, LocationMeaning
  <2>2. AwaitingRead(m) = {} => pendingReaders[m] = 0 BY FS_EmptySet DEF Inv
  <2>3. AwaitingWrite(m) = {} => pendingWriters[m] = 0 BY FS_EmptySet DEF Inv
  <2>. QED BY <2>1, <2>2, <2>3
<1>. QED BY <1>1, Invariance, PTL

\* Every unlock of something not locked that way is reported, and no other.
THEOREM UnlockVerdictHolds == Spec => UnlockVerdict
<1>1. ASSUME Inv, NEW p \in Procs, NEW m \in Mutexes
      PROVE  /\ ReadUnlock(p, m) => (location'[m] = "bad" <=> readHolds[m] = 0)
             /\ WriteUnlock(p, m) => (location'[m] = "bad" <=> writeHolds[m] = 0)
  BY <1>1 DEF Inv, TypeOK, LocationMeaning, ReadUnlock, WriteUnlock, Misuse
<1>2. Inv => \A p \in Procs, m \in Mutexes :
               /\ ReadUnlock(p, m) => (location'[m] = "bad" <=> readHolds[m] = 0)
               /\ WriteUnlock(p, m) => (location'[m] = "bad" <=> writeHolds[m] = 0)
  BY <1>1
<1>. QED BY <1>2, Invariance, PTL DEF UnlockVerdict

-----------------------------------------------------------------------------
\* The refinement of GoMutex. What the state of the lock is, with nobody in a burst of the
\* mutex, and what it is to the guards.

\* GoMutex counts sets with an instance of Cardinality of its own.
LEMMA SameCount == \A S : Go!Cardinality(S) = Cardinality(S)
BY DEF Go!Cardinality, Cardinality

LEMMA WaitingMeaning ==
    ASSUME Inv, NEW m \in Mutexes
    PROVE  /\ Go!Waiting("write", m) = AwaitingWrite(m)
           /\ Go!Waiting("write", m) = {} <=> pendingWriters[m] = 0
           /\ location[m] # "read_locking" => /\ Go!Waiting("read", m) = AwaitingRead(m)
                                              /\ Cardinality(Go!Waiting("read", m)) = pendingReaders[m]
<1>1. Go!Waiting("write", m) = AwaitingWrite(m)
  BY DEF Inv, TypeOK, ProcLocations, Go!Waiting, Wants, Admitted, AwaitingWrite, Awaiting
<1>2. AwaitingWrite(m) = {} <=> pendingWriters[m] = 0
  <2>1. IsFiniteSet(AwaitingWrite(m)) BY AwaitingFinite DEF AwaitingWrite
  <2>. QED BY <2>1, FS_EmptySet DEF Inv
<1>3. ASSUME location[m] # "read_locking" PROVE Go!Waiting("read", m) = AwaitingRead(m)
  BY <1>3 DEF Inv, TypeOK, ProcLocations, Go!Waiting, Wants, Admitted, AwaitingRead, Awaiting
<1>. QED BY <1>1, <1>2, <1>3 DEF Inv

LEMMA RegisterRefines ==
    ASSUME Inv, NEW p \in Procs, NEW m \in Mutexes,
           RegisterRead(p, m) \/ RegisterWrite(p, m)
    PROVE  \E kind \in {"read", "write"} : Go!Request(p, m, kind)
<1> USE DEF Register, RegisterRead, RegisterWrite, automatonVars, holdVars, makeVars
<1>1. \A k \in Mutexes : location[k] # "read_locking" BY DEF Quiet, Committed
<1>2. \A k \in Mutexes : Readers(k)' = Readers(k) BY <1>1 DEF Readers
<1>3. \A q \in Procs : q # p => Wants(q)' = Wants(q)
  BY DEF Inv, TypeOK, Wants, Admitted
<1>4. Wants(p) = "nothing" BY DEF Wants
<1>5. RegisterRead(p, m) => Wants(p)' = "read" BY <1>1 DEF Inv, TypeOK, Wants, Admitted
<1>6. RegisterWrite(p, m) => Wants(p)' = "write" BY DEF Inv, TypeOK, Wants, Admitted
<1>7. CASE RegisterRead(p, m)
  BY <1>2, <1>3, <1>4, <1>5, <1>7 DEF Go!Request
<1>8. CASE RegisterWrite(p, m)
  BY <1>2, <1>3, <1>4, <1>6, <1>8 DEF Go!Request
<1>. QED BY <1>7, <1>8

\* The first reader of a burst takes the lock for all of them; the later ones change nothing
\* that is seen; in read_locked one reader joins.
LEMMA AcquireReadRefines ==
    ASSUME Inv, NEW p \in Procs, NEW m \in Mutexes, AcquireRead(p, m)
    PROVE  Go!AdmitReaders(m) \/ Go!AdmitReader(p, m) \/ UNCHANGED Go!vars
<1> USE DEF AcquireRead, makeVars
<1>1. pendingReaders[m] \in Nat /\ pendingReaders[m] > 0 /\ readHolds[m] \in Nat
  BY Counted DEF Inv, TypeOK, AwaitingRead
<1>2. \A k \in Mutexes : k # m => location'[k] = location[k] /\ Readers(k)' = Readers(k)
  BY DEF Inv, TypeOK, Readers
<1>3. \A q \in Procs : opMutex[q] # m => Wants(q)' = Wants(q)
  BY <1>2 DEF Inv, TypeOK, Wants, Admitted
<1>4. Wants(p)' = "nothing" BY DEF Inv, TypeOK, Wants
<1>5. CASE location[m] = "idle"
  <2>1. location'[m] = "read_locking" BY <1>5 DEF Inv, TypeOK
  <2>2. readHolds[m] = 0 /\ writeHolds[m] = 0 BY <1>5 DEF Inv, LocationMeaning
  <2>3. Readers(m) = 0 BY <1>5, <2>2 DEF Readers
  <2>4. Readers(m)' = pendingReaders[m]
    <3>1. readHolds'[m] = 1 /\ pendingReaders'[m] = pendingReaders[m] - 1
      BY <2>2 DEF Inv, TypeOK
    <3>. QED BY <1>1, <2>1, <3>1 DEF Readers
  <2>5. Go!Waiting("read", m) = AwaitingRead(m)
        /\ Cardinality(Go!Waiting("read", m)) = pendingReaders[m]
    BY <1>5, WaitingMeaning
  <2>6. p \in AwaitingRead(m) BY DEF AwaitingRead, Awaiting
  <2>7. \A q \in Procs : q \in AwaitingRead(m) => Wants(q)' = "nothing"
    BY <1>4, <2>1 DEF Inv, TypeOK, AwaitingRead, Awaiting, Wants, Admitted
  <2>8. \A q \in Procs : q \notin AwaitingRead(m) => Wants(q)' = Wants(q)
    BY <1>3, <1>5, <2>1, <2>6 DEF Inv, TypeOK, AwaitingRead, Awaiting, Wants, Admitted
  <2>9. Go!Unheld(m) BY <1>5, <2>2, <2>3 DEF Go!Unheld
  <2>10. [k \in Mutexes |-> Readers(k)]' =
           [[k \in Mutexes |-> Readers(k)] EXCEPT ![m] = Go!Cardinality(Go!Waiting("read", m))]
    BY <1>2, <2>4, <2>5, SameCount
  <2>11. [q \in Procs |-> Wants(q)]' =
           [q \in Procs |-> IF q \in Go!Waiting("read", m) THEN "nothing"
                                                         ELSE [r \in Procs |-> Wants(r)][q]]
    BY <2>5, <2>7, <2>8
  <2>12. UNCHANGED <<{k \in Mutexes : writeHolds[k] > 0},
                     {k \in Mutexes : location[k] = "read_locked_to_write_locked"},
                     {k \in Mutexes : location[k] = "bad"}, opMutex>>
    BY <1>2, <1>5, <2>1
  <2>. QED BY <1>5, <2>5, <2>6, <2>9, <2>10, <2>11, <2>12 DEF Go!AdmitReaders
<1>6. CASE location[m] = "read_locking"
  <2>1. location' = location BY <1>6
  <2>2. Readers(m)' = Readers(m) BY <1>1, <1>6, <2>1 DEF Inv, TypeOK, Readers
  <2>3. \A q \in Procs : Wants(q)' = Wants(q) BY <1>6, <2>1 DEF Inv, TypeOK, Wants, Admitted
  <2>. QED BY <1>2, <2>1, <2>2, <2>3 DEF Go!vars
<1>7. CASE location[m] = "read_locked"
  <2>1. location' = location /\ pendingWriters[m] = 0 BY <1>7
  <2>2. Readers(m) > 0 /\ Readers(m)' = Readers(m) + 1
    BY <1>1, <1>7, <2>1 DEF Inv, TypeOK, LocationMeaning, Readers
  <2>3. \A q \in Procs : q # p => Wants(q)' = Wants(q)
    BY <1>7, <2>1 DEF Inv, TypeOK, Wants, Admitted
  <2>4. p \in Go!Waiting("read", m) BY <1>7, WaitingMeaning DEF AwaitingRead, Awaiting
  <2>5. Go!Waiting("write", m) = {} BY <2>1, WaitingMeaning
  <2>. QED BY <1>2, <1>4, <1>7, <2>1, <2>2, <2>3, <2>4, <2>5 DEF Go!AdmitReader
<1>. QED BY <1>5, <1>6, <1>7

LEMMA AcquireWriteRefines ==
    ASSUME Inv, NEW p \in Procs, NEW m \in Mutexes, AcquireWrite(p, m)
    PROVE  Go!AdmitWriter(p, m)
<1> USE DEF AcquireWrite, makeVars
<1>1. \A k \in Mutexes : k # m => location'[k] = location[k] BY DEF Inv, TypeOK
<1>2. location'[m] = "write_locked" BY DEF Inv, TypeOK
<1>3. location[m] \in {"idle", "read_locked_to_write_locked"} OBVIOUS
<1>4. \A k \in Mutexes : Readers(k)' = Readers(k) BY <1>1, <1>2, <1>3 DEF Readers
<1>5. readHolds[m] = 0 /\ writeHolds[m] = 0 /\ Readers(m) = 0
  BY <1>3 DEF Inv, LocationMeaning, Readers
<1>6. /\ writeHolds'[m] = 1
      /\ \A k \in Mutexes : k # m => writeHolds'[k] = writeHolds[k]
  BY <1>5 DEF Inv, TypeOK
<1>7. Wants(p)' = "nothing" BY DEF Inv, TypeOK, Wants
<1>8. \A q \in Procs : q # p => Wants(q)' = Wants(q)
  BY <1>1, <1>2, <1>3 DEF Inv, TypeOK, Wants, Admitted
<1>9. p \in Go!Waiting("write", m) BY WaitingMeaning DEF AwaitingWrite, Awaiting
<1>10. Go!Unheld(m) BY <1>3, <1>5 DEF Go!Unheld
<1>11. {k \in Mutexes : writeHolds[k] > 0}' = {k \in Mutexes : writeHolds[k] > 0} \cup {m}
  BY <1>6
<1>12. {k \in Mutexes : location[k] = "read_locked_to_write_locked"}' =
         {k \in Mutexes : location[k] = "read_locked_to_write_locked"} \ {m}
  BY <1>1, <1>2
<1>13. [q \in Procs |-> Wants(q)]' = [[q \in Procs |-> Wants(q)] EXCEPT ![p] = "nothing"]
  BY <1>7, <1>8
<1>14. UNCHANGED <<[k \in Mutexes |-> Readers(k)], {k \in Mutexes : location[k] = "bad"}, opMutex>>
  BY <1>1, <1>2, <1>3, <1>4
<1>. QED BY <1>9, <1>10, <1>11, <1>12, <1>13, <1>14 DEF Go!AdmitWriter

\* The end of a burst is not seen: nobody is pending.
LEMMA ReadLockedRefines ==
    ASSUME Inv, NEW m \in Mutexes, ReadLocked(m)
    PROVE  UNCHANGED Go!vars
<1> USE DEF ReadLocked, holdVars, makeVars, pendingVars, procVars
<1>1. \A k \in Mutexes : k # m => location'[k] = location[k] BY DEF Inv, TypeOK
<1>2. location'[m] = "read_locked" BY DEF Inv, TypeOK
<1>3. \A k \in Mutexes : Readers(k)' = Readers(k) BY <1>1, <1>2 DEF Inv, TypeOK, Readers
<1>4. AwaitingRead(m) = {}
  <2>1. IsFiniteSet(AwaitingRead(m)) BY AwaitingFinite DEF AwaitingRead
  <2>. QED BY <2>1, FS_EmptySet DEF Inv
<1>5. \A q \in Procs : Wants(q)' = Wants(q)
  BY <1>1, <1>2, <1>4 DEF Inv, TypeOK, Wants, Admitted, AwaitingRead, Awaiting
<1>. QED BY <1>1, <1>2, <1>3, <1>5 DEF Go!vars

\* An unlock changes what the processes hold but not what they wait for.
LEMMA UnlockKeepsWants ==
    ASSUME Inv, NEW p \in Procs, NEW m \in Mutexes, ReadUnlock(p, m) \/ WriteUnlock(p, m)
    PROVE  /\ \A k \in Mutexes : location[k] # "read_locking" /\ location'[k] # "read_locking"
           /\ \A k \in Mutexes : k # m => location'[k] = location[k]
           /\ UNCHANGED <<[q \in Procs |-> Wants(q)], opMutex>>
           /\ Wants(p) = "nothing"
<1> USE DEF ReadUnlock, WriteUnlock, Misuse, procVars
<1>1. \A k \in Mutexes : location[k] # "read_locking" BY DEF Quiet, Committed
<1>2. \A k \in Mutexes : k # m => location'[k] = location[k] BY DEF Inv, TypeOK
<1>3. location'[m] # "read_locking" BY <1>1 DEF Inv, TypeOK
<1>4. \A k \in Mutexes : location'[k] # "read_locking" BY <1>1, <1>2, <1>3
<1>5. pc' = pc /\ opMutex' = opMutex OBVIOUS
<1>6. \A q \in Procs : Wants(q)' = Wants(q)
  BY <1>1, <1>4, <1>5 DEF Inv, TypeOK, Wants, Admitted
<1>7. Wants(p) = "nothing" BY DEF Wants
<1>. QED BY <1>1, <1>2, <1>4, <1>5, <1>6, <1>7

LEMMA ReadUnlockRefines ==
    ASSUME Inv, NEW p \in Procs, NEW m \in Mutexes, ReadUnlock(p, m)
    PROVE  Go!RUnlock(p, m)
<1> USE DEF OneLess, makeVars, pendingVars
<1>1. /\ \A k \in Mutexes : location[k] # "read_locking" /\ location'[k] # "read_locking"
      /\ \A k \in Mutexes : k # m => location'[k] = location[k]
      /\ UNCHANGED <<[q \in Procs |-> Wants(q)], opMutex>>
      /\ Wants(p) = "nothing"
  BY UnlockKeepsWants
<1>2. readHolds \in [Mutexes -> Nat] /\ writeHolds' = writeHolds
      /\ readHolds' = [readHolds EXCEPT ![m] = OneLess(@)]
  BY DEF Inv, TypeOK, ReadUnlock
<1>3. \A k \in Mutexes : Readers(k) = readHolds[k] /\ Readers(k)' = readHolds'[k]
  BY <1>1, <1>2 DEF Readers
<1>4. location[m] # "bad" /\ location[m] # "read_locked_to_write_locked"
  BY DEF ReadUnlock
<1>5. UNCHANGED {k \in Mutexes : writeHolds[k] > 0} BY <1>2
<1>6. CASE location[m] = "read_locked"
  <2>1. readHolds[m] > 0 /\ readHolds[m] = activeReaders[m]
    BY <1>6 DEF Inv, TypeOK, LocationMeaning
  <2>2. [k \in Mutexes |-> Readers(k)]' = [[k \in Mutexes |-> Readers(k)] EXCEPT ![m] = @ - 1]
    BY <1>2, <1>3, <2>1
  <2>3. location'[m] # "bad" BY <1>6 DEF Inv, TypeOK, ReadUnlock
  <2>4. UNCHANGED {k \in Mutexes : location[k] = "bad"} BY <1>1, <1>4, <2>3
  <2>5. location'[m] = "read_locked_to_write_locked" <=>
          readHolds[m] = 1 /\ Go!Waiting("write", m) # {}
    <3>1. Go!Waiting("write", m) = {} <=> pendingWriters[m] = 0 BY WaitingMeaning
    <3>2. pendingWriters[m] \in Nat BY DEF Inv, TypeOK
    <3>. QED BY <1>6, <2>1, <3>1, <3>2 DEF Inv, TypeOK, ReadUnlock
  <2>6. LET kept == {k \in Mutexes : location[k] = "read_locked_to_write_locked"}
        IN  kept' = IF readHolds[m] = 1 /\ Go!Waiting("write", m) # {}
                    THEN kept \cup {m} ELSE kept
    BY <1>1, <1>4, <2>5
  <2>. QED BY <1>1, <1>3, <1>4, <1>5, <2>1, <2>2, <2>4, <2>6 DEF Go!RUnlock
<1>7. CASE location[m] \in {"idle", "write_locked"}
  <2>1. readHolds[m] = 0 BY <1>7 DEF Inv, LocationMeaning
  <2>2. location'[m] = "bad" BY <1>7 DEF Inv, TypeOK, ReadUnlock, Misuse
  <2>3. UNCHANGED [k \in Mutexes |-> Readers(k)] BY <1>2, <1>3, <2>1
  <2>4. {k \in Mutexes : location[k] = "bad"}' = {k \in Mutexes : location[k] = "bad"} \cup {m}
    BY <1>1, <2>2
  <2>5. UNCHANGED {k \in Mutexes : location[k] = "read_locked_to_write_locked"}
    BY <1>1, <1>4, <2>2
  <2>. QED BY <1>1, <1>3, <1>4, <1>5, <2>1, <2>3, <2>4, <2>5 DEF Go!RUnlock
<1>. QED BY <1>6, <1>7 DEF ReadUnlock

LEMMA WriteUnlockRefines ==
    ASSUME Inv, NEW p \in Procs, NEW m \in Mutexes, WriteUnlock(p, m)
    PROVE  Go!Unlock(p, m)
<1> USE DEF OneLess, makeVars, pendingVars
<1>1. /\ \A k \in Mutexes : location[k] # "read_locking" /\ location'[k] # "read_locking"
      /\ \A k \in Mutexes : k # m => location'[k] = location[k]
      /\ UNCHANGED <<[q \in Procs |-> Wants(q)], opMutex>>
      /\ Wants(p) = "nothing"
  BY UnlockKeepsWants
<1>2. writeHolds \in [Mutexes -> Nat] /\ readHolds' = readHolds
      /\ writeHolds' = [writeHolds EXCEPT ![m] = OneLess(@)]
  BY DEF Inv, TypeOK, WriteUnlock
<1>3. \A k \in Mutexes : Readers(k)' = Readers(k) BY <1>1, <1>2 DEF Readers
<1>4. location[m] # "bad" /\ location[m] # "read_locked_to_write_locked"
      /\ location'[m] # "read_locked_to_write_locked"
  BY DEF Inv, TypeOK, WriteUnlock, Misuse
<1>5. UNCHANGED {k \in Mutexes : location[k] = "read_locked_to_write_locked"} BY <1>1, <1>4
<1>6. CASE location[m] = "write_locked"
  <2>1. writeHolds[m] = 1 BY <1>6 DEF Inv, LocationMeaning
  <2>2. {k \in Mutexes : writeHolds[k] > 0}' = {k \in Mutexes : writeHolds[k] > 0} \ {m}
    BY <1>2, <2>1
  <2>3. location'[m] # "bad" BY <1>6 DEF Inv, TypeOK, WriteUnlock
  <2>4. UNCHANGED {k \in Mutexes : location[k] = "bad"} BY <1>1, <1>4, <2>3
  <2>. QED BY <1>1, <1>3, <1>4, <1>5, <2>1, <2>2, <2>4 DEF Go!Unlock
<1>7. CASE location[m] \in {"idle", "read_locked"}
  <2>1. writeHolds[m] = 0 BY <1>7 DEF Inv, LocationMeaning
  <2>2. location'[m] = "bad" BY <1>7 DEF Inv, TypeOK, WriteUnlock, Misuse
  <2>3. UNCHANGED {k \in Mutexes : writeHolds[k] > 0} BY <1>2, <2>1
  <2>4. {k \in Mutexes : location[k] = "bad"}' = {k \in Mutexes : location[k] = "bad"} \cup {m}
    BY <1>1, <2>2
  <2>. QED BY <1>1, <1>3, <1>4, <1>5, <2>1, <2>3, <2>4 DEF Go!Unlock
<1>. QED BY <1>6, <1>7 DEF WriteUnlock

LEMMA InitRefines == Init => Go!Init
<1> SUFFICES ASSUME Init PROVE Go!Init OBVIOUS
<1>1. \A m \in Mutexes : location[m] = "idle" /\ Readers(m) = 0 /\ ~(writeHolds[m] > 0)
  BY DEF Init, Readers
<1>2. \A p \in Procs : Wants(p) = "nothing" BY DEF Init, Wants
<1>3. opMutex = [p \in Procs |-> 0] BY DEF Init
<1>. QED BY <1>1, <1>2, <1>3 DEF Go!Init

LEMMA StutterRefines ==
    ASSUME location' = location, pendingReaders' = pendingReaders, holdVars' = holdVars,
           procVars' = procVars
    PROVE  UNCHANGED Go!vars
<1>1. \A m \in Mutexes : Readers(m)' = Readers(m) BY DEF Readers, holdVars
<1>2. \A p \in Procs : Wants(p)' = Wants(p) BY DEF Wants, Admitted, procVars
<1>. QED BY <1>1, <1>2 DEF Go!vars, holdVars, procVars

LEMMA NextRefines == Inv /\ [Next]_vars => [Go!Next]_(Go!vars)
<1> SUFFICES ASSUME Inv, [Next]_vars PROVE Go!Next \/ UNCHANGED Go!vars OBVIOUS
<1>1. ASSUME NEW p \in Procs, MakeMutex(p) PROVE UNCHANGED Go!vars
  BY <1>1, MakeMutexKeepsPending, StutterRefines DEF MakeMutex, automatonVars
<1>2. ASSUME NEW p \in Procs, NEW m \in Made,
             \/ RegisterRead(p, m) \/ RegisterWrite(p, m)
             \/ ReadUnlock(p, m) \/ WriteUnlock(p, m)
      PROVE  Go!Next
  <2>1. m \in Mutexes BY DEF Made
  <2>2. CASE RegisterRead(p, m) \/ RegisterWrite(p, m)
    BY <2>1, <2>2, RegisterRefines DEF Go!Next
  <2>3. CASE ReadUnlock(p, m) BY <2>1, <2>3, ReadUnlockRefines DEF Go!Next
  <2>4. CASE WriteUnlock(p, m) BY <2>1, <2>4, WriteUnlockRefines DEF Go!Next
  <2>. QED BY <1>2, <2>2, <2>3, <2>4
<1>3. ASSUME NEW m \in Made, Acquire(m) PROVE Go!Next \/ UNCHANGED Go!vars
  <2>1. m \in Mutexes BY DEF Made
  <2>2. ASSUME NEW p \in Procs, AcquireRead(p, m) PROVE Go!Next \/ UNCHANGED Go!vars
    BY <2>1, <2>2, AcquireReadRefines DEF Go!Next
  <2>3. ASSUME NEW p \in Procs, AcquireWrite(p, m) PROVE Go!Next
    BY <2>1, <2>3, AcquireWriteRefines DEF Go!Next
  <2>4. CASE ReadLocked(m) BY <2>1, <2>4, ReadLockedRefines
  <2>. QED BY <1>3, <2>2, <2>3, <2>4 DEF Acquire
<1>4. CASE UNCHANGED vars
  BY <1>4, StutterRefines DEF vars, automatonVars, pendingVars
<1>. QED BY <1>1, <1>2, <1>3, <1>4 DEF Next

\* For any number of processes, handles and locks, every step of the network is a step of
\* Go's locks or none: a burst admits at once exactly the readers that wait, the last
\* reader's lock goes to a waiting writer, and bad is the fatal error of a wrong unlock.
THEOREM NetworkImplementsGoMutex == Spec => ImplementsGoMutex
<1>. QED BY InitRefines, NextRefines, Invariance, PTL DEF Spec, ImplementsGoMutex, Go!Spec
=============================================================================
