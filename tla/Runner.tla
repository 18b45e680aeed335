------------------------------- MODULE Runner -------------------------------
(***************************************************************************)
(* uppaal-runner (runners/uppaal-runner.go): the main goroutine sends the  *)
(* systems over sysChan until ctx is cancelled by an interrupt, closes it  *)
(* and waits; each worker runs the verifier on what it receives and keeps  *)
(* runningSystems and completedSystems under mu.  Files are reduced to     *)
(* whether they can be created, lines to their kind, the verifier to       *)
(* whether it ends with success or not.                                    *)
(***************************************************************************)
EXTENDS Integers, Sequences, FiniteSets, SequencesExt

CONSTANTS
    Workers,    \* as many as *uppaalProcesss
    Systems,    \* the arguments, a sequence of distinct paths
    Name,       \* systemName of each path
    NoXml,      \* the paths without the suffix .xml
    CannotOpen, \* the paths whose .out.txt or .err.txt os.Create refuses
    Nothing     \* no path, no worker

Paths == Range(Systems)

ASSUME SystemsAssumption == Systems \in Seq(Paths) /\ IsInjective(Systems)
ASSUME WorkersAssumption == IsFiniteSet(Workers)
ASSUME PathsAssumption == NoXml \subseteq Paths /\ CannotOpen \subseteq Paths
ASSUME NothingAssumption == Nothing \notin Paths \cup Workers

VARIABLES
    mainAt,    \* "loop", "close", "wait", "done"
    sent,      \* how many systems the loop sent
    sysChan, sysChanClosed,
    sigChan,   \* an interrupt is pending
    cancelled, \* ctx.Done()
    at,        \* where worker w is
    system,    \* its system
    mu,        \* the worker that holds mu for the end of runSystem
    runningSystems, completedSystems,
    printed    \* the lines printed: statuses, results, details and "done"

mainVars == <<mainAt, sent>>
chanVars == <<sysChan, sysChanClosed>>
ctxVars == <<sigChan, cancelled>>
muVars == <<mu, runningSystems, completedSystems>>
vars == <<mainVars, chanVars, ctxVars, at, system, muVars, printed>>

Init ==
    /\ mainAt = "loop" /\ sent = 0
    /\ sysChan = <<>> /\ sysChanClosed = FALSE
    /\ sigChan = FALSE /\ cancelled = FALSE
    /\ at = [w \in Workers |-> "range"]
    /\ system = [w \in Workers |-> Nothing]
    /\ mu = Nothing /\ runningSystems = {} /\ completedSystems = 0
    /\ printed = <<>>

-----------------------------------------------------------------------------
\* The user interrupts; signal.Notify does not block, so one pending signal is kept.
Interrupt ==
    /\ ~sigChan /\ ~cancelled
    /\ sigChan' = TRUE
    /\ UNCHANGED <<mainVars, chanVars, cancelled, at, system, muVars, printed>>

Cancel ==
    /\ sigChan /\ ~cancelled
    /\ sigChan' = FALSE /\ cancelled' = TRUE
    /\ UNCHANGED <<mainVars, chanVars, at, system, muVars, printed>>

\* The select of the loop: either case, when both are ready.
Send ==
    /\ mainAt = "loop" /\ sent < Len(Systems)
    /\ Len(sysChan) < Cardinality(Workers)
    /\ sysChan' = Append(sysChan, Systems[sent + 1])
    /\ sent' = sent + 1
    /\ UNCHANGED <<mainAt, sysChanClosed, ctxVars, at, system, muVars, printed>>

BreakLoop ==
    /\ mainAt = "loop"
    /\ sent = Len(Systems) \/ cancelled
    /\ mainAt' = "close"
    /\ UNCHANGED <<sent, chanVars, ctxVars, at, system, muVars, printed>>

Close ==
    /\ mainAt = "close"
    /\ sysChanClosed' = TRUE
    /\ mainAt' = "wait"
    /\ UNCHANGED <<sent, sysChan, ctxVars, at, system, muVars, printed>>

\* Mutant of Finish: no wg.Wait.
FinishAtOnce ==
    /\ mainAt = "wait"
    /\ mainAt' = "done"
    /\ printed' = Append(printed, [kind |-> "done"])
    /\ UNCHANGED <<sent, chanVars, ctxVars, at, system, muVars>>

\* wg.Wait returns once every worker called wg.Done.
Finish ==
    /\ mainAt = "wait"
    /\ \A w \in Workers : at[w] = "ended"
    /\ mainAt' = "done"
    /\ printed' = Append(printed, [kind |-> "done"])
    /\ UNCHANGED <<sent, chanVars, ctxVars, at, system, muVars>>

-----------------------------------------------------------------------------
Step(w, from, to) == at[w] = from /\ at' = [at EXCEPT ![w] = to]

\* The range loop: the next system, or the end once the channel is closed and empty.
Receive(w) ==
    /\ sysChan # <<>>
    /\ Step(w, "range", "run")
    /\ system' = [system EXCEPT ![w] = Head(sysChan)]
    /\ sysChan' = Tail(sysChan)
    /\ UNCHANGED <<mainVars, sysChanClosed, ctxVars, muVars, printed>>

EndRange(w) ==
    /\ sysChan = <<>> /\ sysChanClosed
    /\ Step(w, "range", "ended")
    /\ UNCHANGED <<mainVars, chanVars, ctxVars, system, muVars, printed>>

Reject(w) ==
    /\ system[w] \in NoXml
    /\ Step(w, "run", "range")
    /\ printed' = Append(printed, [kind |-> "error"])
    /\ UNCHANGED <<mainVars, chanVars, ctxVars, system, muVars>>

Start(w) ==
    /\ system[w] \notin NoXml
    /\ mu = Nothing
    /\ Step(w, "run", "status")
    /\ runningSystems' = runningSystems \cup {Name[system[w]]}
    /\ UNCHANGED <<mainVars, chanVars, ctxVars, system, mu, completedSystems, printed>>

\* printRunningSystems: the line is put together under mu and printed after it.
ReadStatus(w) ==
    /\ mu = Nothing
    /\ \/ Step(w, "status", "print")
       \/ Step(w, "endStatus", "endPrint")
    /\ UNCHANGED <<mainVars, chanVars, ctxVars, system, muVars, printed>>

PrintStatus(w) ==
    /\ \/ Step(w, "print", "open")
       \/ Step(w, "endPrint", "range")
    /\ printed' = Append(printed, [kind |-> "status"])
    /\ UNCHANGED <<mainVars, chanVars, ctxVars, system, muVars>>

\* os.Create fails: the early return leaves the name in runningSystems.
OpenFails(w) ==
    /\ system[w] \in CannotOpen
    /\ Step(w, "open", "range")
    /\ printed' = Append(printed, [kind |-> "error"])
    /\ UNCHANGED <<mainVars, chanVars, ctxVars, system, muVars>>

\* cmd.Run starts the verifier, unless ctx is done already.
Verify(w) ==
    /\ system[w] \notin CannotOpen
    /\ IF cancelled THEN Step(w, "open", "failed") ELSE Step(w, "open", "verifying")
    /\ UNCHANGED <<mainVars, chanVars, ctxVars, system, muVars, printed>>

\* The verifier ends, well or not.
VerifierEnds(w) ==
    /\ \/ Step(w, "verifying", "completed")
       \/ Step(w, "verifying", "failed")
    /\ UNCHANGED <<mainVars, chanVars, ctxVars, system, muVars, printed>>

\* Mutant of Kill: the context does not reach the verifier.
KillNever(w) == FALSE

\* exec.CommandContext kills it when ctx is done.
Kill(w) ==
    /\ cancelled
    /\ Step(w, "verifying", "failed")
    /\ UNCHANGED <<mainVars, chanVars, ctxVars, system, muVars, printed>>

\* Mutant of PrintResult: the index is read before it is counted up.
PrintResultUncounted(w) ==
    /\ mu = Nothing
    /\ Step(w, "failed", "explain") \/ Step(w, "completed", "details")
    /\ mu' = w
    /\ completedSystems' = completedSystems + 1
    /\ printed' = Append(printed, [kind |-> "result", index |-> completedSystems, of |-> system[w]])
    /\ UNCHANGED <<mainVars, chanVars, ctxVars, system, runningSystems>>

\* Mutant of PrintResult: mu is unlocked before the details are printed.
PrintResultUnlocks(w) ==
    /\ mu = Nothing
    /\ Step(w, "failed", "explain") \/ Step(w, "completed", "details")
    /\ completedSystems' = completedSystems + 1
    /\ printed' = Append(printed, [kind |-> "result", index |-> completedSystems', of |-> system[w]])
    /\ UNCHANGED <<mainVars, chanVars, ctxVars, system, mu, runningSystems>>

\* The section under mu: count, print the result, print its details, delete the name.
PrintResult(w) ==
    /\ mu = Nothing
    /\ Step(w, "failed", "explain") \/ Step(w, "completed", "details")
    /\ mu' = w
    /\ completedSystems' = completedSystems + 1
    /\ printed' = Append(printed, [kind |-> "result", index |-> completedSystems', of |-> system[w]])
    /\ UNCHANGED <<mainVars, chanVars, ctxVars, system, runningSystems>>

\* The error of a failed run; the details of a completed one, if they are wanted and not empty.
Explain(w) ==
    \/ /\ Step(w, "explain", "endStatus")
       /\ printed' = Append(printed, [kind |-> "details", of |-> system[w]])
    \/ /\ Step(w, "details", "endStatus")
       /\ printed' \in {printed, Append(printed, [kind |-> "details", of |-> system[w]])}

PrintDetails(w) ==
    /\ Explain(w)
    /\ mu' = Nothing
    /\ runningSystems' = runningSystems \ {Name[system[w]]}
    /\ UNCHANGED <<mainVars, chanVars, ctxVars, system, completedSystems>>

RunSystem(w) ==
    \/ Reject(w) \/ Start(w) \/ ReadStatus(w) \/ PrintStatus(w) \/ OpenFails(w) \/ Verify(w)
    \/ Kill(w) \/ PrintResult(w) \/ PrintDetails(w)

Next ==
    \/ Interrupt \/ Cancel
    \/ Send \/ BreakLoop \/ Close \/ Finish
    \/ \E w \in Workers : Receive(w) \/ EndRange(w) \/ RunSystem(w) \/ VerifierEnds(w)

Spec == Init /\ [][Next]_vars

\* Goroutines run on when they can; a verifier need not end before it is killed. A worker
\* that waits for mu gets it in the end: sync.RWMutex does not starve.
FairSpec ==
    /\ Spec
    /\ WF_vars(Cancel) /\ WF_vars(Send \/ BreakLoop \/ Close \/ Finish)
    /\ \A w \in Workers : /\ WF_vars(Receive(w) \/ EndRange(w))
                          /\ SF_vars(RunSystem(w))
-----------------------------------------------------------------------------
ResultLines == {i \in DOMAIN printed : printed[i].kind = "result"}
Runnable == Paths \ (NoXml \cup CannotOpen)
Active == {w \in Workers : at[w] \notin {"range", "run", "endStatus", "endPrint", "ended"}}
Pending == {w \in Workers : at[w] = "run"} \cup {w \in Active : at[w] \notin {"explain", "details"}}

\* How often path p is in the channel, with a worker and among the printed results.
Copies(p) == Cardinality({i \in DOMAIN sysChan : sysChan[i] = p})
               + Cardinality({w \in Pending : system[w] = p})
               + Cardinality({i \in ResultLines : printed[i].of = p})

\* A runnable system that was sent is in exactly one place, the channel, a worker or the
\* printed results, and any other in at most one: none is lost, none is run twice.  The
\* results are numbered in the order they are printed.
NoneLost ==
    /\ \A i \in DOMAIN Systems :
         /\ Copies(Systems[i]) <= (IF i <= sent THEN 1 ELSE 0)
         /\ i <= sent /\ Systems[i] \in Runnable => Copies(Systems[i]) = 1
    /\ \A i \in ResultLines : printed[i].index = Cardinality({j \in ResultLines : j <= i})

\* A result and its details are only separated by status and error lines.
ResultsTogether ==
    \A i \in DOMAIN printed : printed[i].kind = "details" =>
      \E j \in ResultLines :
        /\ j < i /\ printed[j].of = printed[i].of
        /\ \A k \in j + 1 .. i - 1 : printed[k].kind \notin {"result", "details"}

\* "done" is the last line, no verifier is left, and without an interrupt every system that
\* can be run has its result.
DoneMeansDone ==
    mainAt = "done" =>
      /\ Last(printed).kind = "done"
      /\ sysChan = <<>> /\ Active = {}
      /\ ~cancelled => {printed[i].of : i \in ResultLines} = Runnable

\* An interrupt ends the program, even if no verifier ends by itself.
InterruptEnds == sigChan ~> mainAt = "done"
=============================================================================
