-------------------------- MODULE MutexRefinement --------------------------
(***************************************************************************)
(* The network of mutex automata implements Go's locks. A burst of readers *)
(* is several steps of the network, in the committed location              *)
(* read_locking, and one step of the lock: the readers still pending there *)
(* count as admitted.                                                      *)
(***************************************************************************)
EXTENDS Mutex

Admitted(p) == pc[p] = "awaiting_read_lock" /\ location[opMutex[p]] = "read_locking"

Readers(m) == readHolds[m] + (IF location[m] = "read_locking" THEN pendingReaders[m] ELSE 0)

Wants(p) == CASE pc[p] = "running" \/ Admitted(p) -> "nothing"
              [] pc[p] = "awaiting_write_lock" -> "write"
              [] OTHER -> "read"

Go == INSTANCE GoMutex WITH
        readers <- [m \in Mutexes |-> Readers(m)],
        written <- {m \in Mutexes : writeHolds[m] > 0},
        kept <- {m \in Mutexes : location[m] = "read_locked_to_write_locked"},
        fatal <- {m \in Mutexes : location[m] = "bad"},
        wants <- [p \in Procs |-> Wants(p)],
        on <- opMutex

\* Every step of the network is one step of Go's locks or none: what is held is what the
\* lock grants, a burst admits exactly the readers that waited when it began, a reader
\* that comes while a writer waits does not join, the last reader's lock goes to a writer
\* and to nobody else, and bad is Go's fatal error.
ImplementsGoMutex == Go!Spec
=============================================================================
