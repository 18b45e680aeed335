------------------------------- MODULE Mutex -------------------------------
(***************************************************************************)
(* sync.Mutex and sync.RWMutex as the translator renders them: a Mutex     *)
(* automaton per handle (translator/mutex.go) and the edges of a function  *)
(* process for Lock, RLock, Unlock and RUnlock (translator/mutex_stmts.go). *)
(* Any process may unlock, and a process may hold several locks, as in Go. *)
(***************************************************************************)
EXTENDS Integers, FiniteSets

CONSTANTS
    Procs,      \* the function process instances
    MutexCount, \* t.mutexCount(), the length of the pending arrays
    MaxUse      \* bound: locks of one mutex held or awaited at a time

ASSUME MutexCountAssumption == MutexCount \in Nat \ {0}
ASSUME ProcsAssumption == IsFiniteSet(Procs)
ASSUME MaxUseAssumption == MaxUse \in Nat

Mutexes == 0 .. MutexCount - 1

VARIABLES
    mutexCount,     \* mutex_count, the number of make_mutex calls
    outOfResources, \* out_of_resources
    location,       \* the location of the Mutex automaton of handle m
    activeReaders,  \* its local variable active_readers
    pendingReaders, \* mutex_pending_readers
    pendingWriters, \* mutex_pending_writers
    pc,             \* the location of process p
    opMutex,        \* its local variable op_mutex
    readHolds,      \* ghost: RLock statements completed minus RUnlock statements
    writeHolds      \* ghost: Lock statements completed minus Unlock statements

automatonVars == <<location, activeReaders>>
holdVars == <<readHolds, writeHolds>>
makeVars == <<mutexCount, outOfResources>>
pendingVars == <<pendingReaders, pendingWriters>>
procVars == <<pc, opMutex>>
vars == <<automatonVars, holdVars, makeVars, pendingVars, procVars>>

Committed == {"read_locking", "read_locked_to_write_locked"}
Locations == Committed \cup {"idle", "write_locked", "read_locked", "bad"}
ProcLocations == {"running", "awaiting_read_lock", "awaiting_write_lock"}

\* No automaton is in a committed location: any process may move.
Quiet == \A m \in Mutexes : location[m] \notin Committed

Made == {m \in Mutexes : m < mutexCount}

Awaiting(pl, m) == {p \in Procs : pc[p] = pl /\ opMutex[p] = m}
AwaitingRead(m) == Awaiting("awaiting_read_lock", m)
AwaitingWrite(m) == Awaiting("awaiting_write_lock", m)

Init ==
    /\ mutexCount = 0
    /\ outOfResources = FALSE
    /\ location = [m \in Mutexes |-> "idle"]
    /\ activeReaders = [m \in Mutexes |-> 0]
    /\ pendingReaders = [m \in Mutexes |-> 0]
    /\ pendingWriters = [m \in Mutexes |-> 0]
    /\ pc = [p \in Procs |-> "running"]
    /\ opMutex = [p \in Procs |-> 0]
    /\ readHolds = [m \in Mutexes |-> 0]
    /\ writeHolds = [m \in Mutexes |-> 0]

-----------------------------------------------------------------------------
\* make_mutex: a fresh handle with nobody pending, or handle 0 past the bound.
MakeMutex(p) ==
    /\ Quiet
    /\ pc[p] = "running"
    /\ mutexCount <= MutexCount
    /\ mutexCount' = mutexCount + 1
    /\ IF mutexCount >= MutexCount
       THEN outOfResources' = TRUE /\ UNCHANGED pendingVars
       ELSE /\ pendingReaders' = [pendingReaders EXCEPT ![mutexCount] = 0]
            /\ pendingWriters' = [pendingWriters EXCEPT ![mutexCount] = 0]
            /\ UNCHANGED outOfResources
    /\ UNCHANGED <<automatonVars, holdVars, procVars>>

InUse(m) == pendingReaders[m] + pendingWriters[m] + readHolds[m] + writeHolds[m]

\* The first edge of Lock and RLock registers the process as pending.
Register(p, m, awaiting) ==
    /\ Quiet
    /\ pc[p] = "running"
    /\ InUse(m) < MaxUse
    /\ pc' = [pc EXCEPT ![p] = awaiting]
    /\ opMutex' = [opMutex EXCEPT ![p] = m]
    /\ UNCHANGED <<automatonVars, holdVars, makeVars>>

RegisterRead(p, m) ==
    /\ Register(p, m, "awaiting_read_lock")
    /\ pendingReaders' = [pendingReaders EXCEPT ![m] = @ + 1]
    /\ UNCHANGED pendingWriters

RegisterWrite(p, m) ==
    /\ Register(p, m, "awaiting_write_lock")
    /\ pendingWriters' = [pendingWriters EXCEPT ![m] = @ + 1]
    /\ UNCHANGED pendingReaders

\* Mutants of AcquireRead: the process stays counted as pending; readers overtake writers.
AcquireReadStaysPending(p, m) ==
    /\ pc[p] = "awaiting_read_lock" /\ opMutex[p] = m
    /\ \/ location[m] = "idle" /\ Quiet
            /\ location' = [location EXCEPT ![m] = "read_locking"]
       \/ location[m] = "read_locking" /\ UNCHANGED location
       \/ location[m] = "read_locked" /\ Quiet /\ pendingWriters[m] = 0 /\ UNCHANGED location
    /\ activeReaders' = [activeReaders EXCEPT ![m] = @ + 1]
    /\ pc' = [pc EXCEPT ![p] = "running"]
    /\ readHolds' = [readHolds EXCEPT ![m] = @ + 1]
    /\ UNCHANGED <<makeVars, opMutex, pendingVars, writeHolds>>
AcquireReadOvertakes(p, m) ==
    /\ pc[p] = "awaiting_read_lock" /\ opMutex[p] = m
    /\ \/ location[m] = "idle" /\ Quiet
            /\ location' = [location EXCEPT ![m] = "read_locking"]
       \/ location[m] = "read_locking" /\ UNCHANGED location
       \/ location[m] = "read_locked" /\ Quiet /\ UNCHANGED location
    /\ activeReaders' = [activeReaders EXCEPT ![m] = @ + 1]
    /\ pendingReaders' = [pendingReaders EXCEPT ![m] = @ - 1]
    /\ pc' = [pc EXCEPT ![p] = "running"]
    /\ readHolds' = [readHolds EXCEPT ![m] = @ + 1]
    /\ UNCHANGED <<makeVars, opMutex, pendingWriters, writeHolds>>

\* read_lock[m]!: the guard of read_locked is read before the process leaves the
\* pending readers; a committed automaton m takes part in the step.
AcquireRead(p, m) ==
    /\ pc[p] = "awaiting_read_lock" /\ opMutex[p] = m
    /\ \/ location[m] = "idle" /\ Quiet
            /\ location' = [location EXCEPT ![m] = "read_locking"]
       \/ location[m] = "read_locking" /\ UNCHANGED location
       \/ location[m] = "read_locked" /\ Quiet /\ pendingWriters[m] = 0 /\ UNCHANGED location
    /\ activeReaders' = [activeReaders EXCEPT ![m] = @ + 1]
    /\ pendingReaders' = [pendingReaders EXCEPT ![m] = @ - 1]
    /\ pc' = [pc EXCEPT ![p] = "running"]
    /\ readHolds' = [readHolds EXCEPT ![m] = @ + 1]
    /\ UNCHANGED <<makeVars, opMutex, pendingWriters, writeHolds>>

\* write_lock[m]!
AcquireWrite(p, m) ==
    /\ pc[p] = "awaiting_write_lock" /\ opMutex[p] = m
    /\ \/ location[m] = "idle" /\ Quiet
       \/ location[m] = "read_locked_to_write_locked"
    /\ location' = [location EXCEPT ![m] = "write_locked"]
    /\ pendingWriters' = [pendingWriters EXCEPT ![m] = @ - 1]
    /\ pc' = [pc EXCEPT ![p] = "running"]
    /\ writeHolds' = [writeHolds EXCEPT ![m] = @ + 1]
    /\ UNCHANGED <<makeVars, opMutex, activeReaders, pendingReaders, readHolds>>

\* Mutant of ReadLocked: the burst may end with readers still pending.
ReadLockedEarly(m) ==
    /\ location[m] = "read_locking"
    /\ location' = [location EXCEPT ![m] = "read_locked"]
    /\ UNCHANGED <<activeReaders, holdVars, makeVars, pendingVars, procVars>>

\* The committed edge that ends a burst of readers.
ReadLocked(m) ==
    /\ location[m] = "read_locking"
    /\ pendingReaders[m] = 0
    /\ location' = [location EXCEPT ![m] = "read_locked"]
    /\ UNCHANGED <<activeReaders, holdVars, makeVars, pendingVars, procVars>>

\* The automaton of handle m goes bad.
Misuse(m) == location' = [location EXCEPT ![m] = "bad"] /\ UNCHANGED activeReaders

OneLess(n) == IF n > 0 THEN n - 1 ELSE 0

\* Mutant of ReadUnlock: the last reader hands over to nobody.
ReadUnlockHandsOverToNobody(p, m) ==
    /\ Quiet
    /\ pc[p] = "running"
    /\ \/ /\ location[m] = "read_locked"
          /\ \/ activeReaders[m] > 1 /\ UNCHANGED location
             \/ activeReaders[m] = 1
                  /\ location' = [location EXCEPT ![m] = "read_locked_to_write_locked"]
          /\ activeReaders' = [activeReaders EXCEPT ![m] = @ - 1]
       \/ location[m] \in {"idle", "write_locked"} /\ Misuse(m)
    /\ readHolds' = [readHolds EXCEPT ![m] = OneLess(@)]
    /\ UNCHANGED <<makeVars, pendingVars, procVars, writeHolds>>

\* read_unlock[m]!: the last reader leaves the mutex idle or hands it to a writer; in
\* idle and write_locked the unlock is a misuse.
ReadUnlock(p, m) ==
    /\ Quiet
    /\ pc[p] = "running"
    /\ \/ /\ location[m] = "read_locked"
          /\ \/ activeReaders[m] = 1 /\ pendingWriters[m] = 0
                  /\ location' = [location EXCEPT ![m] = "idle"]
             \/ activeReaders[m] > 1 /\ UNCHANGED location
             \/ activeReaders[m] = 1 /\ pendingWriters[m] > 0
                  /\ location' = [location EXCEPT ![m] = "read_locked_to_write_locked"]
          /\ activeReaders' = [activeReaders EXCEPT ![m] = @ - 1]
       \/ location[m] \in {"idle", "write_locked"} /\ Misuse(m)
    /\ readHolds' = [readHolds EXCEPT ![m] = OneLess(@)]
    /\ UNCHANGED <<makeVars, pendingVars, procVars, writeHolds>>

\* Mutant of WriteUnlock: it also releases a reader.
WriteUnlockReleasesReader(p, m) ==
    /\ Quiet
    /\ pc[p] = "running"
    /\ \/ /\ location[m] \in {"write_locked", "read_locked"}
          /\ location' = [location EXCEPT ![m] = "idle"]
          /\ UNCHANGED activeReaders
       \/ location[m] = "idle" /\ Misuse(m)
    /\ writeHolds' = [writeHolds EXCEPT ![m] = OneLess(@)]
    /\ UNCHANGED <<makeVars, pendingVars, procVars, readHolds>>

\* write_unlock[m]!: in idle and read_locked it is a misuse.
WriteUnlock(p, m) ==
    /\ Quiet
    /\ pc[p] = "running"
    /\ \/ /\ location[m] = "write_locked"
          /\ location' = [location EXCEPT ![m] = "idle"]
          /\ UNCHANGED activeReaders
       \/ location[m] \in {"idle", "read_locked"} /\ Misuse(m)
    /\ writeHolds' = [writeHolds EXCEPT ![m] = OneLess(@)]
    /\ UNCHANGED <<makeVars, pendingVars, procVars, readHolds>>

Acquire(m) == \/ \E p \in Procs : AcquireRead(p, m) \/ AcquireWrite(p, m)
              \/ ReadLocked(m)
\* An unlock of something locked.
Release(m) ==
    \E p \in Procs : \/ readHolds[m] > 0 /\ ReadUnlock(p, m)
                     \/ writeHolds[m] > 0 /\ WriteUnlock(p, m)

Next ==
    \/ \E p \in Procs : MakeMutex(p)
    \/ \E p \in Procs, m \in Made :
         \/ RegisterRead(p, m) \/ RegisterWrite(p, m)
         \/ ReadUnlock(p, m) \/ WriteUnlock(p, m)
    \/ \E m \in Made : Acquire(m)

Spec == Init /\ [][Next]_vars

\* A process at an enabled lock edge takes it, and what is locked is unlocked by someone.
FairSpec == Spec /\ \A m \in Mutexes : SF_vars(m \in Made /\ Acquire(m))
                                       /\ SF_vars(m \in Made /\ Release(m))

-----------------------------------------------------------------------------
TypeOK ==
    /\ mutexCount \in Nat
    /\ outOfResources \in BOOLEAN
    /\ location \in [Mutexes -> Locations]
    /\ activeReaders \in [Mutexes -> Nat]
    /\ pendingReaders \in [Mutexes -> Nat]
    /\ pendingWriters \in [Mutexes -> Nat]
    /\ pc \in [Procs -> ProcLocations]
    /\ opMutex \in [Procs -> Mutexes]
    /\ readHolds \in [Mutexes -> Nat]
    /\ writeHolds \in [Mutexes -> Nat]

-----------------------------------------------------------------------------
\* What each location of the automaton says about the locks held.
LocationMeaning(m) ==
    /\ location[m] = "idle" =>
         activeReaders[m] = 0 /\ readHolds[m] = 0 /\ writeHolds[m] = 0
    /\ location[m] = "write_locked" =>
         activeReaders[m] = 0 /\ readHolds[m] = 0 /\ writeHolds[m] = 1
    /\ location[m] \in {"read_locking", "read_locked"} =>
         activeReaders[m] > 0 /\ readHolds[m] = activeReaders[m] /\ writeHolds[m] = 0
    /\ location[m] = "read_locked_to_write_locked" =>
         /\ activeReaders[m] = 0 /\ readHolds[m] = 0 /\ writeHolds[m] = 0
         /\ pendingWriters[m] > 0
    /\ location[m] = "bad" =>
         writeHolds[m] = 0 \/ (writeHolds[m] = 1 /\ readHolds[m] = 0)

\* The inductive invariant: types, pending counts, only made handles awaited, and the
\* meaning of the locations.
Inv ==
    /\ TypeOK
    /\ \A m \in Mutexes : /\ pendingReaders[m] = Cardinality(AwaitingRead(m))
                          /\ pendingWriters[m] = Cardinality(AwaitingWrite(m))
    /\ \A p \in Procs : pc[p] # "running" => opMutex[p] < mutexCount
    /\ \A m \in Mutexes : LocationMeaning(m)

\* A write lock excludes every other lock of the mutex.
MutualExclusion ==
    \A m \in Mutexes : writeHolds[m] = 0 \/ (writeHolds[m] = 1 /\ readHolds[m] = 0)

\* mutex_pending_readers and mutex_pending_writers count the processes that wait: the
\* guards that prefer writers and end a burst of readers read what they mean.
PendingCounts ==
    \A m \in Mutexes : /\ pendingReaders[m] = Cardinality(AwaitingRead(m))
                       /\ pendingWriters[m] = Cardinality(AwaitingWrite(m))

\* A Mutex automaton never gets stuck in a committed location, which would freeze the
\* whole network: there is always the process its next edge synchronises with.
CommittedCanProceed ==
    \A m \in Mutexes :
      /\ location[m] = "read_locking" => pendingReaders[m] = 0 \/ AwaitingRead(m) # {}
      /\ location[m] = "read_locked_to_write_locked" => AwaitingWrite(m) # {}

\* An unlock reaches the location bad exactly when nothing is locked that way: the mutex
\* safety query reports every misuse and no correct unlock.
UnlockVerdict ==
    [][\A p \in Procs, m \in Mutexes :
         /\ ReadUnlock(p, m) => (location'[m] = "bad" <=> readHolds[m] = 0)
         /\ WriteUnlock(p, m) => (location'[m] = "bad" <=> writeHolds[m] = 0)]_vars

\* Readers do not starve writers: a pending writer's mutex is write locked at some later
\* time (or misused), unless the program ends up with every process waiting for a lock.
WritersServed ==
    \A m \in Mutexes :
      [](pendingWriters[m] > 0 => <>(\/ writeHolds[m] > 0
                                     \/ location[m] = "bad"
                                     \/ [](\A p \in Procs : pc[p] # "running")))
=============================================================================
