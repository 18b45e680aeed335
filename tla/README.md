# A verification project for toph

Toph reads Go packages, builds an intermediate representation (IR), analyses and simplifies
it, translates it into a network of timed automata for the model checker Uppaal, simplifies
that network and writes it with queries such as "no goroutine exits with a panic" or "no
deadlock with a pending channel operation". A runner then lets Uppaal verify many networks
at once. Toph is right when the network behaves as the Go program does in everything its
queries can see. The modules here model the parts that decide this: the way of a function's
statements through the IR, the network and its reduction, the automata and edges toph
generates for Go's synchronisation primitives and function calls, the arrays that hold
structs and containers, the analyses that size the network and remove parts of the program,
and the runner.

Paths below are relative to `src/`.

## 1. Inventory

### 1.1 Components

| part | code | state | operations | talks to | what makes it correct |
|---|---|---|---|---|---|
| channel automata | `translator/channel.go`, `channel_stmts.go`, range in `branch_stmts.go` | per handle: location, `chan_counter`, `chan_buffer`; `chan_count` | make, send, receive, close, select, range | function processes over `*_trigger`, `*_confirm`, `close` | no lost wake-up; a closed channel blocks nobody; close panics exactly when Go's does; one macro step is one Go operation |
| mutex automata | `translator/mutex.go`, `mutex_stmts.go` | per handle: location, active readers, pending readers and writers | make, Lock, RLock, Unlock, RUnlock | function processes over `*_lock`, `*_unlock` | exclusion; exact pending counts; writers not starved; `bad` exactly on a misuse; one step of Go's lock or none |
| wait group automata | `translator/wait_group.go`, `wait_group_stmts.go` | per handle: location, counter, waiters | make, Add, Done, Wait | function processes over `add`, `wait` | Wait returns at zero, to everyone due; no reuse under waiters; `bad` only by misuse |
| once values | `translator/once.go`, `once_stmts.go` | `once_values` (0, 1, 2) | make, Do | function calls | the function runs once; a Do that skips it finds it done |
| function processes | `translator/funcs.go`, `func_stmts.go` | per instance: location, panic flags, defer stack; per function a count; `active_go_routines`, `out_of_resources` | call, go, defer, return, panic, recover | each other over `sync_f`, `async_f` | one caller per instance; panics as in Go; the init function ends last |
| control flow | `translator/branch_stmts.go`, `stmts.go`, `context.go` | states and edges of a process, loop counters | if, switch, select, for, range, break, continue, return | IR, function processes | the process has the runs of the IR, and no other |
| values and containers | `translator/types.go`, `type_stmts.go`, `values.go`, `variables.go` | arrays of the network, with counts of what is in use | make, assign, append, copy, delete, read, range | function processes | copies are deep where Go's are; nothing outside the arrays is written |
| call graph | `ir/analyzer/call_graph.go`, `call_graph_builder.go` | edges, components, call counts, panic flags | build, count, number, propagate | translator (bounds), optimizer | components in topological order; counts are upper bounds; CanPanic is reachability |
| type graph, variable info | `ir/analyzer/type_graph*.go`, `var_info.go` | edges, uses | build, query | translator, optimizer | topological order; no used variable is dropped |
| dead code eliminator | `ir/optimizer/dead_code_eliminator.go` | statements left, empty functions | remove calls | call graph, api | no statement that matters is removed |
| IR builder | `builder/*.go` | scopes, contexts, enclosing branching statements | translate Go syntax trees, count iterations of loops | IR | the IR has every run of the Go function; copies and allocations are where Go has them |
| Uppaal model and optimizers | `uppaal/*.go`, `uppaal/optimizer/*.go` | graph of states and transitions | add, remove, reduce, print | translator | the reduced network answers every query as the original |
| runners | `runners/uppaal-runner.go`, `toph-runner.go` | task queue, running and completed systems | run, interrupt | Uppaal, files | each system accounted for once; lines not mixed; an interrupt ends the program |
| api, config, command line | `api/api.go`, `config`, `toph.go` | configuration | run | everything | the order of the passes |

### 1.2 How the parts interact

`api.Run` calls the builder, then the dead code eliminator (which builds a call graph of its
own), then adds the call of the entry function to the init function, and calls the
translator. The translator asks the call graph how many instances of each function, channel,
mutex, ... the network needs and which functions can panic. In the generated network a
function process never changes an automaton directly: it changes a shared counter and
synchronises on a channel of the network with the automaton of the handle (a *trigger*);
the automaton moves to a *committed* location, from which the next step of the whole network
has to be taken, reads the counter and answers, to this process or to another that waited
(a *confirmation*).

### 1.3 What is hard

* Steps of several processes interleave between a trigger and its confirmation; a select
  changes the counters of all its channels before any automaton moves.
* Committed locations stop every other process: an edge that is not enabled there freezes
  the network, which would then satisfy queries it should refute.
* Lock hand-over races with new readers; released waiters race with new additions.
* Panics travel through two flags, deferred calls and recover.
* Pools of instances and handles run out, with `out_of_resources` as the only trace.
* A function is rewritten three times before it runs: break and continue find their targets
  by position, loops are counted ahead of time, states are removed by joining two atomic
  steps into one.
* Structs and arrays are values in Go and handles in the network: every copy has to be made
  by someone, and every allocation counted by someone else.
* The analyses run in Go's random map order, cap their sums, and promise upper bounds and
  reachability facts on which the network's size and shape depend.
* Workers of the runner share a queue, a map and a counter, and race with an interrupt.

`PROJECT.json` lists the hazards at their lines, with the properties that would catch each.

## 2. Modules

Every action is one edge of the generated network (or one step of the Go code), and is named
for it. Variables have the names the translator gives them, in one case style. Definitions
under a comment "Mutant of ..." are plausible bugs; `PROJECT.json` names
the property each of them violates, and no specification uses them.

### Channels, GoChannels, ChannelsRefinement

`Channels` has the Channel automaton (one action per edge: `NewSenderBlocks`,
`SentToBuffer`, `ReleaseReceiver`, ...) and the edges of a function process for each
statement (`SendOrReceive`, `EnterSelect`, `SelectTrigger`, `SelectDefault`, `SelectBlock`,
`RangeReceive`, `RangeDecide`, `CloseChan`, `MakeChan`). A message has no value, as in the
network. Processes run any statements; which selects they may use is the constant `Menus`.
`armed` holds the cases a blocked process waits for, `outcome` how its last statement ended,
for the refinement only.

`GoChannels` is the abstract specification: what the Go language says of channels, one
atomic step per operation. `ChannelsRefinement` shows that the network implements it. One Go
operation is several steps of the network, so the abstract state is what an observer last
saw when no process and no automaton was in a committed location; the history variable
`seen` keeps it. `ChannelsProofs` has the invariant of `Channels`, and
`ChannelsRefinementProofs` the proof of the refinement on top of it.

### ControlFlow and what it is made of

`Statements` gives meaning to the statements of a Go function and to those of the IR: the
events a process running them shows to others (an operation starts, ends, a call returns or
panics, a global is written). Conditions are unknown, so both branches are possible, except
where the code evaluates them. On it stand the four passes a body goes through, each a
function from one form of the program to the next, named as in the code:

* `Builder` (`builder/branch_stmts.go`, `context.go`, `static_eval.go`): Go to IR. A loop
  whose header can be run gets its number of iterations.
* `Eliminator` (`ir/optimizer/dead_code_eliminator.go`, inside a body).
* `Translator` (`translator/branch_stmts.go`, `context.go`, edges of operations and calls):
  IR to the automaton of a process, the sequence of its edges with their guards, updates and
  flags.
* `Reducer` (`uppaal/optimizer`): the automaton after `ReduceStates` and `ReduceTransitions`.
* `CallCounts` (`ir/analyzer/call_graph_builder.go`): the calls counted in a body.

`ControlFlow` composes them: the variable `code` holds a function in all four forms, `runs`
the configurations in which each form may be after the events observed so far. An event is
observed if any form can show it; a form that cannot has no configuration left. One form
implements another if it is never the only one left without (`GoRunsTranslated`,
`TranslationFaithful`, `ReductionFaithful`); places where a form may be stuck are compared as
well, since they are deadlocks of the program.

### Containers, GoContainers

`Containers` has the arrays of the network (`u`: handles, lengths, counts of used instances)
and the functions the translator generates for each type (make, copy, read, write, append,
copy_between, delete), with the lowering of Go's statements to them by the builder and the
counting of instances by the call graph. `GoContainers` executes legal statements of a Go
program in this world and in Go's (`go`: objects with an identity, assigned by copying into
them) side by side. `FollowsGo` relates the two: what can be reached by reading is the same,
and two paths lead to one handle exactly when they lead to one object.

### Mutex, WaitGroup, Once

`Mutex` has the edges of the Mutex automaton and of Lock, RLock, Unlock and RUnlock. A
blocking operation is two steps: registering as pending (`RegisterRead`, `RegisterWrite`)
and acquiring. `readHolds` and `writeHolds` are history variables: the locks that the
program acquired and has not released, from which the properties say what Go would do.
`GoMutex` is Go's lock with atomic operations and no committed locations: it knows how many
hold it, who waits for it and whether it is kept for a waiting writer. `MutexRefinement` maps
the network to it. A burst of readers is several steps of the network (`read_locking`) and one
of the lock, `AdmitReaders`: the readers still pending in a burst count as admitted.
`WaitGroup` likewise (`Add` with the committed location `adding`, then `Added`;
`RegisterWait`, then `Return`); its history variable `due` holds the processes that waited
when the counter was zero. `Once` models the edges of `Do`; `runs` and `done` are its
history variables. In all three a handle past the bound sets `out_of_resources` and becomes
handle 0, as in the code.

### FuncCalls

The process of a function: `Create` (the instance and the statement's kind), `StartSync`,
`StartAsync`, `Defer`, `Return`, `Panic`, `Recover`, `StartDeferred`, `Finalize`, and the ways
an instance ends (`EndCall`, `EndDeferred`, `EndAsync`, `EndInit`). Bodies are any sequence
of the statements the constants allow, so every schedule and every order of statements is
covered. The history variables `panicking` and `offered` say what Go does: whether the frame
panics, and whether a deferred call runs because of a panic (only then does its recover
stop one). A step past a pool's bound sets `out_of_resources`; there every query of the code
holds vacuously, and the model stops. `FuncCallsProofs` has its invariant.

### CallGraph, DeadCode

`CallGraph` has the recursion of `strongConnect` as a stack of frames (`Root`, `Consider`,
`Leave`; any successor first, as Go's map iteration), and the passes of the builder:
`CountSCC` (callers first), `RemoveClosures`, `PanicsOfSCC` (callees first). Programs are a
constant: static and dynamic calls with their numbers, functions used as values, the
enclosing function of closures, panics, allocations. `DeadCode` extends it with
`EliminateDeadCode`, which runs on the graph of the program *before* the entry function is
linked, as `api.Run` does; `Linked` is the program that is translated in the end.
`CallGraphProofs` has the invariants of the components and the panics, of the counts and the
removal of closures, and of the elimination.

### Runner

`runners/uppaal-runner.go`: the main goroutine (`Send`, `BreakLoop`, `Close`, `Finish`), the
interrupt handler (`Interrupt`, `Cancel`), and the workers' `runSystem` step by step between
its lock operations. `RunnerProofs` has its invariant.

## 3. Runs

| run | instance | states | what it shows |
|---|---|---|---|
| `channels` | 3 processes (symmetric), 2 channels of capacity 0 or 1, 2 statements each, selects over distinct channels | 1.10 million | no lost wake-up between macro steps; closing leaves nobody blocked; no stuck committed location; close judged as in Go; every macro step is one atomic Go operation with Go's outcome, selects, defaults and range loops included |
| `mutex` | 3 processes, 2 mutexes, at most 4 holds or pending of each | 49,888 | exclusion, exact pending counts, no stuck committed location, `bad` exactly on misuse, pending writers served; every step is one of `GoMutex` or none |
| `wait_group` | 3 processes, 2 groups, additions of -1, 1, 2, counter at most 3 | 14,732 | no reuse under released waiters, returns at zero and to everyone due, `bad` only by misuse |
| `once` | 4 processes, 2 onces, the function may panic | 4,627 | runs once; a skipped Do finds it returned; only a panic keeps a Do waiting |
| `func_calls` | functions init, f, g, d with 1, 2, 2, 2 instances, 2 statements each, with call, go, defer, panic, recover | 165,619 | one caller per instance, goroutines counted, panics as in Go, init ends last, the program ends |
| `call_graph` | call graphs of 4 functions (self-calls of the last one only); calls made 0 to 2 times; closures and functions as values; counts capped at 3; the eliminator with the entry function linked late | 1.89 million | components and their order, counts, removed closures, CanPanic in every map order; no call of a live function that matters is removed |
| `control_flow` | functions with each kind of branch and loop, nested two deep, with every way of leaving them; 4 loop counters, counts capped at 8, 4 iterations evaluated | 66,742 | IR, network and reduced network have the runs of the Go function; the states that queries name survive, except the entries of annotated cases that are left unseen; calls are counted high enough |
| `containers` | a struct in a struct, arrays, slices and maps of structs and of pointers; capacity 2; 6, 3 and 2 instances; 5 statements | 61,183 | values, copies and sharing as in Go; nothing outside the arrays is written; allocations are counted |
| `runner` | 2 workers, 4 systems, one no xml file, one that cannot be opened, an interrupt at any time | 127,541 | each system accounted for once, results and details together, "done" last, an interrupt ends the program |
| `lost_panic`, `dead_closures`, `append_loses` | | | counterexamples, see section 6 |

Why the bounds are enough. Every rule of the channel automaton concerns at most one partner
per direction and one buffer slot; with three processes there are two that compete for a
third, and with two channels a select is a partner of two others. The channel run uses the
constraint `BeforePanic`: a state in which an automaton reached `bad` has no successors, as
the query then has its counterexample and the Go program is over. Three processes on a mutex
are a reader and two writers, or the reverse, which is what hand-over and starvation need;
two mutexes show that the handles do not interfere and that the bound is hit. The counter
of a wait group must pass 2 for an addition of more than one. Two instances of each called
function let a recursion of callers and a goroutine coexist and still run out. Tarjan's
algorithm needs four functions for a component entered from two sides. A jump passes at
most the statements between it and its target, so two levels of nesting around and inside a
statement show every pair of kinds; each function ends with an operation that shows where
the jump went. Most loops run twice, which tells first and last iterations apart, and some
up to five times. Two slots and two instances make arrays full and pools run out. Five statements suffice to
make two values, share or copy one, change it and read both. In the runner two workers can
compete for `mu` and the channel can be full.

Deadlock is not checked (`CHECK_DEADLOCK FALSE`): in every one of these systems all
processes may end, or wait for each other because the Go program does; that a *network*
step never gets stuck half-way is `CommittedCanMove` and `CommittedCanProceed`, and that the
call protocol or the runner never gets stuck is `ProgramEnds` and `InterruptEnds`.

### The states that queries name

ReduceStates does not know the queries. A state survives because the edges around it access
globals (synchronisations, flagged updates), and for the states of the deadlock and panic
queries they always do: `QueriedStatesKept` holds for them without exception. The entry of an
annotated select case (`check=reachable` or `check=unreachable`) is entered by a
synchronisation, but what follows is the body's first edge. Where that edge accesses globals
the entry is kept: an operation, an assignment that uses globals, a nested select. Otherwise
it may go, and its query then names a location that does not exist: an empty body, one that
starts with a call (the update that makes the instance is not flagged as one of globals,
`translator/func_stmts.go:114`), an if, a switch, a loop or range of any kind, a return, break
or continue, or a dead end. All of these are among the inputs
(`AnnotatedCases`), and in a plain select each of them does lose the entry. The property
therefore exempts, from the kept states, an entry that the process may leave by a silent
step, and says that nothing else is lost.

### What the inputs leave out

Where a property is false for a kind of input, the run leaves that kind out, and the hazards
in `PROJECT.json` say so with the property that fails:

* `control_flow`: a statement after a plain return at the top level of a body
  (`EndsAtReturn`); a continue in a loop whose post statement is an operation; a parallel
  assignment of loop variables that depends on the order; a loop annotated with a lower bound
  only. Division in the headers of loops is not among the expressions.
* `containers`: `LeftOut` names the legal statements that are not executed: assigning a
  struct or array that something points at, ranges with a value over structs and arrays, and
  (for the passing run) append to a slice with elements. Every slice type has as many slices
  as slots. `AllocationsCounted` speaks of behaviours (`exact`) without a make of initialised
  elements and without copies made by reading a map.
* `runner`: distinct file names, and at least one worker; the map of running systems is keyed
  by the file name.

### Notes on single properties

* `WritersServed` and `DueReturns` except what a program does to itself: a mutex gone
  `bad`, or every process waiting for ever.
* Exclusion is part of `Inv` in the run `mutex` (`LocationMeaning`); the theorem states it
  as `MutualExclusion`.
* `ImplementsGoMutex` fixes whom a lock admits where `sync.RWMutex` only promises that a
  waiting writer keeps later readers out: the readers that wait for an unheld lock are
  admitted together, unless it is kept for a writer; if it is not, a writer may come first.
* `DoEnds` says what is true of the code: a panic in the function of a once keeps every
  other Do of it waiting, where Go would let it return.
* `GoRunsTranslated` is one-sided: the IR does not know conditions and may do more.
  `TranslationFaithful` and `ReductionFaithful` are equivalences.
* `RemovesUnnecessaryOfLive` speaks of the functions that run without the entry call; for all
  functions it is false, see `dead_closures`.

## 4. Fairness

* `Mutex`: strong fairness of acquiring and of releasing what is held. An Uppaal network has
  no scheduler; queries about paths that stop for ever at an enabled edge say nothing about
  the Go program, whose mutexes are fair and whose critical sections end.
* `WaitGroup`: the committed edge `Added` is weakly fair; `Return` is strongly fair, since
  the committed locations of other groups disable it again and again.
* `Once`, `FuncCalls`: weak fairness of each process' own steps: goroutines are scheduled.
  In `FuncCalls` a body returns in the end, so no program executes recover for ever.
* `Runner`: weak fairness of main, of receiving and of the interrupt handler; strong
  fairness of a worker's `runSystem`, whose steps wait for `mu` (`sync.RWMutex` does not
  starve). A verifier is not assumed to end: without an interrupt it may run for ever.
* `Channels`, `CallGraph`, `DeadCode`, `ControlFlow`, `Containers`: no liveness property, no
  fairness. That a process does not get stuck where the Go function does not is stated by
  `ControlFlow` as safety, on the configurations a form may be in.

## 5. Proofs

For every number of processes and handles:

* `ChannelsProofs`: `TypesRight` (`Spec => []TypeOK`), `NoWakeupLost`, `NothingStuck` and
  `CloseJudgedRight`, for any buffer sizes, selects and number of statements.
* `ChannelsRefinementProofs`: `NetworkImplementsGo` (`RSpec => ImplementsGoChannels`), the
  refinement of `GoChannels`.
* `MutexProofs`: `Invariance` (`Spec => []Inv`), and from it `MutualExclusionHolds`,
  `PendingCountsHolds`, `CommittedCanProceedHolds`, `UnlockVerdictHolds` and the refinement of
  `GoMutex`, `NetworkImplementsGoMutex` (`Spec => ImplementsGoMutex`).
* `WaitGroupProofs`: `Invariance`, `NoReuseUnderWaitersHolds`, `ReturnsAtZeroHolds`,
  `BadOnlyByMisuseHolds`.
* `OnceProofs`: `Invariance`, `AtMostOnceHolds`, `ReturnsWhenDoneHolds`.

For every program (set of functions and call, go and defer edges), every number of instances,
every length of defer stacks and every depth of calls:

* `FuncCallsProofs`: `Invariance` (`Spec => []IInv`), and from it
  `OneCallerPerInstanceHolds`, `GoRoutinesCountedHolds` and `InitEndsLastHolds`; from its
  extension `PInv`, `PanicVerdictHolds` (`DeferredRecover => (Spec => []PanicVerdict)`).

For every number of workers and every list of distinct systems:

* `RunnerProofs`: `InvHolds` (`Spec => []Inv`), `TypesRight`, `NoSystemLost`,
  `ResultsStayTogether`, `DoneIsDone`.

For every program, every number of functions and every order of Go's map iterations:

* `CallGraphProofs`: `CGInvHolds` (`Spec => []CGInv`, of the call graph and the eliminator on
  it), `SCCsRightHolds`, `CanPanicRightHolds`, `CountsRightHolds`, `RemovedNeverRunHolds`,
  `RemovesUnnecessaryOfLiveHolds`: all the properties of the run `call_graph`.

### Assumptions

`Procs` is finite (counters are compared with cardinalities), at least one handle exists, and
the bounds on uses are natural numbers; of functions, that each has an instance and nobody
calls the init function, which has one; of the runner, that its workers are finite and its
arguments distinct; of the programs of the call graph, that their calls, panics and function
values are among finitely many functions, that numbers of calls and allocations are natural,
that nobody calls the init function or uses it as a value (the builder makes it, and Go code
cannot name it), and that a closure comes after the function it is defined in. These are the
named ASSUMEs of the modules. `FuncCalls` needs no finite sets: that the set of running
goroutines is finite is part of its invariant.

`NoWakeupLost`, `NothingStuck`, `CloseJudgedRight` and `NetworkImplementsGo` have the
hypothesis `MenusDistinct`: no select has two cases on one channel. It is a hypothesis and no ASSUME because the code does
not justify it: such a select adds its own send and its own receive to the same counter and
takes itself for its partner (`translator/channel_stmts.go:276`), and the properties are false
of it. `TypesRight` needs no hypothesis.

`PanicVerdictHolds` has the hypothesis `DeferredRecover`: with `OptimizeIR`, a deferred function
that can panic has a recover statement. The code does not justify this one either: it is
what the run `lost_panic` shows to be needed, and the theorem says that nothing else is. It
holds of every program when the IR is not optimized.

### The inductive invariants

None of the safety properties is inductive. Exclusion of a mutex, for example, is not: an
automaton in `idle` with a reader still holding would hand out the write lock. `Inv` adds
what makes a step safe: (1) every pending counter equals the number of processes that wait,
so that a guard on the counter reads what it means and a committed hand-over finds its
process; (2) only made handles are awaited, so that a new handle starts clean; (3)
`LocationMeaning`, what each location of the automaton says about counters and locks held.
The proof that a step preserves `Inv` has one step per action; lemmas say how the cardinality
of the set of waiting processes changes when one registers or returns. The runs check `Inv`
as well.

The refinement of `GoMutex` needs nothing more than `Inv`, one lemma per action. Where a
burst begins, the lock admits as many readers as processes wait (a cardinality), while the
network has let in one and counts the others in `mutex_pending_readers`: the two agree
because the counter is exact.
That the end of a burst is no step of the lock is the guard on the counter, and that
nobody is left pending then.

The difficulty with channels is that `NoLostWakeup` speaks of quiet states only, while a step
starts from states in the middle of an operation. `Shape` says what those look like. Each
process with an operation under way counts in `chan_counter` with all its cases (`Offers`);
what is left of the counter without them is the channel's `Content`. `Settled` gives the
meaning of each location of the automaton in terms of the capacity, the sets of senders and
receivers and the content: an open channel has senders only when full, receivers only when
empty (`Open`); after a sender was confirmed there is one message too many, or one receiver
to take it (`Sent`); likewise `Received` and `Closed`. One process at a time may be half-way
(`Acts`): it polls its select or has triggered an automaton that did not answer yet, and the
channels are settled when that process is left out. Only one automaton is committed. The
arithmetic is in ten lemmas about one channel, constants only (`SenderBlocks`, `SentLeaves`,
`CloseJudges`, ...): from a counter k = content + |senders| - |receivers| a guard such as
k <= capacity decides which of the sets are empty. Each action is then one of a few changes
of the sets: a process joins with its cases, joins as a blocked one, or leaves.

The refinement needs more: in the middle of an operation the invariant has to say how far
the network is from what the observer last saw. `Now` is the view of the current state (a
receiver of a range loop that has its confirmation counts as through), and `Track` relates it
to `seen`: equal (`Unchanged`); one process has started a statement and waits for the first
answer (`Started`); its case is confirmed, and the message is still to be put into or taken
out of the buffer or passed on to a partner (`Sending`, `Receiving`); a channel is being
closed and some of its receivers are freed (`Closing`); or all is done but for a range loop
that has to choose between body and exit (`Done`). `GoStep` says in one relation
between two views what a Go operation does, which lets the proof fall into two halves that
meet in it: `GoStepIsNext` (a `GoStep` is a step of `GoChannels`, no network in sight) and one
lemma per action of the network, which shows `Track` again and, where the operation lands, the
`GoStep` from `seen` to the new view. `Rangers` carries what a range loop was promised, since
`ok` is set when the receive is counted and read when it is through. Steps that panic are a
third case (`PanicFollows`).

The invariant of the function processes is about places that name an instance: the variable
in which a process keeps the instance it creates, and the slots of its defer stack
(`HeldAt`). `Fresh`: what a place names was made by its function, what was not made has not
started. `Owned`: at most one place names an instance; it waits for the instance
(`Awaited`) exactly while that runs, and an instance that runs synchronously has such a
place. This is why past the bound, when `make_<f>` hands out instance 0 again, the model has
to stop. For the end of the init function `Owned` is not enough: a ring of instances that
await each other would satisfy it and never end. `WellFounded` excludes it in a form that
needs no induction: no nonempty set of running callees contains all who wait for its members.
When the init function ends, no goroutine is left by the count, so the running instances
are such a set. Each action is an instance of one of five lemmas (a step inside a body, a start
that waits, a start that does not, an end, a move between places).

`PInv` says what the flags mean. `internal_panic` is the ghost `panicking` at all times
(`Visible`), but to keep it so the ends of calls have to hand over the right value: `Owes` gives
the meaning of `external_panic` at each location (the panic an instance was started under,
as far as it is handed over, and from finalizing on its own), and `Offers` what was handed
to the instance a process waits for (nothing to a callee; to a deferred one the panic of
the process, which is still there in the end if the callee cannot recover). Where the code skips an
update, `Foreseen` (only functions that can panic do) and `Linked` (instances hold callees that
the call graph gives them) say that there was nothing to update, since `CanPanic` goes from callees to
callers.

The invariant of the runner follows a system: what was sent is still in the channel, in order
(`Queue`), or was taken; what was taken and can run is with exactly one worker or has exactly
one result (`Places`); the number of results is `completedSystems`, and each was printed with
the number of results before it (`Numbered`). `Together` says that the worker that holds `mu`
printed the last result, so that the details it will print belong to it. `Ends` says when a
worker may stop; it is what makes the final line the last one.

The invariant of the call graph has to say what Tarjan's algorithm knows half-way. `Reaches` is
reachability as membership in every set that no call leaves (`ClosedSets`): a definition by
paths would need induction over them, and the property `SCCsRight` and the operator
`Reachable` use closed sets for the same reason. `Ordered`: the stack and the recursion follow
the order of the indices, and the stack has the visited functions without a component.
`Followed`: a call of a visited function leads to a visited one or is still in a frame.
`Joined`: an active function reaches everything above it on the stack, and everything on the
stack reaches an active function below it. `LowLinksRight` needs both bounds: a low link is
the index of something on the stack that the function reaches, and no higher than what any
followed call of the functions visited under it (`Under`) leads to. The first bound is for a function
that is no root: when it returns, the function its low link names takes its place in `Joined`.
The second is for a root: no call leads from what it pops to what stays, so the popped
functions are a whole component, and all calls out of it lead to numbered ones (`Numbered`).
`PanicsKnown` says that the components done so far have the right answer. That a component without a
panic of its own or in a callee reaches none is one closed set: the component together with
the earlier functions that reach no panic.

What follows the components has three more invariants on top of `CGInv`. `CountInv` is about
zero: components have no gaps (`Filled`), a function with a count has all it calls taken as
called (`TakenAsCalled`), by its count or by that of its component so far, and in the end the
counted functions are closed under calls (`AllCounted`). So they hold `Live`, the smallest
such set, and a removed closure is defined in a function that is not counted or removed
itself (`Kept`). `SumInv` is about the numbers. While components are counted (`Tallied`), the
count of a component that is no cycle is what the functions above it call, and the counts of
those above are not below `Walks`, or equal to it without recursion. `Walks` adds up the
calls along chains of at most `FuncCount` calls; that counting once more gives no fewer, and
gives the same when every call leads to a component of lower number, is `WalksFacts`. The sums are
`SumFunction` of the community modules, in any order and capped after every addition: that they
can be split (`SumOfUnion`), compared term by term (`SumsRelated`) and capped at the end
(`CappedSums`) are lemmas of their own. `DeadInv` says that a removed call led to an empty
function of an earlier component (`EmptyBelow`), which has no calls left itself; a chain of
removed calls therefore stays among empty functions and ends.

These need induction over finite sets and numbers after all. The induction theorems of the library
take an operator, but that the strict subsets of a finite set are well founded is a statement
about sets: a nonempty set of subsets has a minimal member (`SmallestSubset`,
`SmallestNumber`), so a smallest counterexample leads to a contradiction. That a function defined
by recursion exists is shown in the same way (`SumExists`, `WalksExist`,
`RemovedClosuresFacts`).

### Only model-checked

* All liveness properties: they need fairness.
* The properties of `ControlFlow` and `Containers`. Everything in `Statements` and the
  modules on it is recursive over programs, and what that computes for every input is out of
  the prover's reach.

## 6. Where code and documentation disagree

Shown by a run:

* `lost_panic`: with `OptimizeIR` the panic of a deferred function without a recover
  statement is not handed to its caller (`translator/func_stmts.go:257`), so the query
  "check goroutine does not exit with panic" is satisfied by a goroutine that does. In the
  run `func_calls` deferred functions recover, and the verdict is right.
* `dead_closures`: dead code is eliminated before the entry function is called
  (`api/api.go:83`), so calls of closures defined in functions that only `main` reaches are
  dropped although they matter. `call_graph` shows that nothing is lost without them.
* `append_loses`: the generated copy of a slice takes its length from itself
  (`translator/types.go:348`), so the result of append has only the appended values.

Met while modelling, each left out of the inputs as section 3 says, or without a run:

* `ir/analyzer/call_graph.go:19`, `:353`: functions not reached from the entry have
  components of their own; the comment of `FuncNotCalled` says component 0.
* `ir/optimizer/dead_code_eliminator.go:52`: a plain return is dropped with statements after
  it still in place.
* `builder/static_eval.go:114`: `i, j = i+j, i` is evaluated one variable at a time.
* `builder/branch_stmts.go:156`: a continue jumps past the post statement of its loop when
  that is an operation.
* `translator/branch_stmts.go:215`: a loop with a lower bound only never ends.
* `translator/branch_stmts.go:398`: the value variable of a range over structs is the
  element itself, not a copy; `translator/assign_stmt.go:14`: assigning a struct variable
  gives it another handle, which pointers to the variable do not follow.
* `translator/types.go:362`: append compares with the number of slices, not their capacity.
* `ir/analyzer/call_graph_builder.go:388`: initialised elements and copies of map elements
  are not counted.
* `uppaal/optimizer/states_reducer.go:106`: a state named by a query may be removed.
* `ir/analyzer/var_info.go:104`: uses in copy and delete statements are not counted.
* `builder/annotations.go:55`: the position of `toph:` in a comment of several lines is used
  as a position in one of its lines.

## 7. Not modelled

* `builder/packages`: about 72,000 of the 86,000 lines of Go outside tests are this copy of
  golang.org/x/tools (go/packages with its internal packages, among them tables and a
  language server). It is third-party code, toph calls `Load` and `Visit`, and nothing of
  it decides what a network means. Toph's own code outside tests has 14,180 lines; they are what the
  modules are about.
* The rest of `builder`: recursion over Go syntax trees with `go/types`, the recognition of
  functions of the standard library, substitutes; its data are not state a model checker
  explores. `ir`: accessors and printing.
* `ir/analyzer/type_graph*.go` and `var_info.go`: a depth-first search without counts, and
  one walk over the statements; no order of steps in them can go wrong that `CallGraph`
  does not have.
* Arguments, results and captured variables of calls, and the choice among dynamic callees.
* `config`, `toph.go`, `toph-runner.go`: sequential, with no state beyond a call. The
  parsing of verifyta's output in `uppaal-runner.go`.
* Names, layout and printing in `uppaal` and the translator.
* Uppaal's own semantics is modelled as far as the network uses it: a step is an enabled
  edge or pair of edges, and committed locations go first. Time plays no role in the network.
* A channel handle of -1 (nil) and selects with two cases on one channel: excluded from the
  inputs. In `FuncCalls` a defer stack is never longer than its declared length; the code
  has no guard there.

## 8. Plan

Order of the work that is left, each with the question it answers.

1. Composition of `FuncCalls` with `ControlFlow`: a process of the network as the body of an
   instance, so that the panics of calls in loops and the unwinding of defers are checked on
   the edges that the translator makes.
2. Arguments, results and dynamic callees in `FuncCalls`; composition with `Once`: Do with a
   panicking function.
3. Selects with two cases on one channel, and a nil channel, in `Channels`.
4. `TypeGraph` and `VarInfo`: topological order of types, and uses of variables.
5. Proofs: the steps of `WaitGroup` and `Once` as those of abstract ones with atomic operations.
