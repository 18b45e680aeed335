------------------------------ MODULE GoMutex ------------------------------
(***************************************************************************)
(* What the network of mutex automata promises: Go's sync.RWMutex, of      *)
(* which sync.Mutex is the writers' half, with atomic operations and no    *)
(* committed locations. A lock knows how many hold it and who waits for    *)
(* it, but not who holds it: any goroutine may unlock.                     *)
(***************************************************************************)
EXTENDS Naturals, FiniteSets

CONSTANTS Procs, Mutexes

VARIABLES
    readers, \* read locks held
    written, \* the mutexes whose write lock is held
    kept,    \* the mutexes kept for one of the waiting writers
    fatal,   \* the mutexes whose unlocking while unlocked has ended the program
    wants,   \* the lock a process waits for
    on       \* the mutex of its last Lock or RLock

vars == <<readers, written, kept, fatal, wants, on>>

Init ==
    /\ readers = [m \in Mutexes |-> 0]
    /\ written = {}
    /\ kept = {}
    /\ fatal = {}
    /\ wants = [p \in Procs |-> "nothing"]
    /\ on = [p \in Procs |-> 0]

Waiting(kind, m) == {p \in Procs : wants[p] = kind /\ on[p] = m}
Unheld(m) == readers[m] = 0 /\ m \notin written /\ m \notin fatal

\* The call of Lock or RLock.
Request(p, m, kind) ==
    /\ wants[p] = "nothing"
    /\ wants' = [wants EXCEPT ![p] = kind]
    /\ on' = [on EXCEPT ![p] = m]
    /\ UNCHANGED <<readers, written, kept, fatal>>

\* All waiting readers get the unheld mutex in one step, unless it is a writer's turn.
AdmitReaders(m) ==
    /\ Unheld(m) /\ m \notin kept
    /\ Waiting("read", m) # {}
    /\ readers' = [readers EXCEPT ![m] = Cardinality(Waiting("read", m))]
    /\ wants' = [p \in Procs |-> IF p \in Waiting("read", m) THEN "nothing" ELSE wants[p]]
    /\ UNCHANGED <<written, kept, fatal, on>>

\* A reader joins those that hold the mutex only while no writer waits.
AdmitReader(p, m) ==
    /\ p \in Waiting("read", m)
    /\ readers[m] > 0 /\ m \notin fatal
    /\ Waiting("write", m) = {}
    /\ readers' = [readers EXCEPT ![m] = @ + 1]
    /\ wants' = [wants EXCEPT ![p] = "nothing"]
    /\ UNCHANGED <<written, kept, fatal, on>>

AdmitWriter(p, m) ==
    /\ p \in Waiting("write", m)
    /\ Unheld(m)
    /\ written' = written \cup {m}
    /\ kept' = kept \ {m}
    /\ wants' = [wants EXCEPT ![p] = "nothing"]
    /\ UNCHANGED <<readers, fatal, on>>

\* The last reader keeps the mutex for the writers that wait.
RUnlock(p, m) ==
    /\ wants[p] = "nothing" /\ m \notin kept /\ m \notin fatal
    /\ \/ /\ readers[m] > 0
          /\ readers' = [readers EXCEPT ![m] = @ - 1]
          /\ kept' = IF readers[m] = 1 /\ Waiting("write", m) # {} THEN kept \cup {m} ELSE kept
          /\ UNCHANGED fatal
       \/ /\ readers[m] = 0
          /\ fatal' = fatal \cup {m}
          /\ UNCHANGED <<readers, kept>>
    /\ UNCHANGED <<written, wants, on>>

Unlock(p, m) ==
    /\ wants[p] = "nothing" /\ m \notin kept /\ m \notin fatal
    /\ \/ /\ m \in written
          /\ written' = written \ {m}
          /\ UNCHANGED fatal
       \/ /\ m \notin written
          /\ fatal' = fatal \cup {m}
          /\ UNCHANGED written
    /\ UNCHANGED <<readers, kept, wants, on>>

Next ==
    \E m \in Mutexes :
       \/ AdmitReaders(m)
       \/ \E p \in Procs :
            \/ \E kind \in {"read", "write"} : Request(p, m, kind)
            \/ AdmitReader(p, m) \/ AdmitWriter(p, m)
            \/ RUnlock(p, m) \/ Unlock(p, m)

Spec == Init /\ [][Next]_vars
=============================================================================
