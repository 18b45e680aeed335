---------------------------- MODULE RunnerProofs ----------------------------
(***************************************************************************)
(* Proofs about uppaal-runner, for any number of workers and systems: no   *)
(* system is lost or run twice, the results are numbered in order, each    *)
(* stays next to its details, and "done" is printed when all is done.      *)
(***************************************************************************)
EXTENDS Runner, FiniteSetTheorems, TLAPS

PendingAt == {"run", "status", "print", "open", "verifying", "failed", "completed"}
LockedAt == {"explain", "details"}
Locations == PendingAt \cup LockedAt \cup {"range", "endStatus", "endPrint", "ended"}

Lines == [kind : {"status", "error", "done"}]
           \cup [kind : {"result"}, index : Nat, of : Paths]
           \cup [kind : {"details"}, of : Paths]

\* The types of the variables; runningSystems are any names.
TypeOK ==
    /\ mainAt \in {"loop", "close", "wait", "done"}
    /\ sent \in 0 .. Len(Systems)
    /\ sysChan \in Seq(Paths)
    /\ sysChanClosed \in BOOLEAN
    /\ sigChan \in BOOLEAN /\ cancelled \in BOOLEAN
    /\ at \in [Workers -> Locations]
    /\ system \in [Workers -> Paths \cup {Nothing}]
    /\ mu \in Workers \cup {Nothing}
    /\ completedSystems \in Nat
    /\ printed \in Seq(Lines)

-----------------------------------------------------------------------------
\* The inductive invariant.

\* The channel holds the last systems sent; the workers took the others.
TakenCount == sent - Len(sysChan)
Queue == /\ Len(sysChan) <= sent
         /\ \A i \in 1 .. Len(sysChan) : sysChan[i] = Systems[TakenCount + i]

Taken == {Systems[i] : i \in 1 .. TakenCount}

\* Every system taken is with one worker or has one result, if it can be run.
IsResult(i) == i \in DOMAIN printed /\ printed[i].kind = "result"
IsPending(w) == at[w] \in PendingAt

Places ==
    /\ \A w \in Workers : at[w] \in PendingAt \cup LockedAt => system[w] \in Taken
    /\ \A v, w \in Workers : IsPending(v) /\ IsPending(w) /\ system[v] = system[w] => v = w
    /\ \A w \in Workers, i \in Nat : IsPending(w) /\ IsResult(i) => printed[i].of # system[w]
    /\ \A i, j \in Nat : IsResult(i) /\ IsResult(j) /\ printed[i].of = printed[j].of => i = j
    /\ \A i \in Nat : IsResult(i) => printed[i].of \in Taken \cap Runnable
    /\ \A p \in Taken \cap Runnable : \/ \E w \in Workers : IsPending(w) /\ system[w] = p
                                      \/ \E i \in Nat : IsResult(i) /\ printed[i].of = p

\* A system gets as far as it can be run.
Checked ==
    \A w \in Workers :
      /\ at[w] \in PendingAt \ {"run"} => system[w] \notin NoXml
      /\ at[w] \in {"verifying", "failed", "completed"} => system[w] \notin CannotOpen

\* completedSystems counts the results.
ResultsTo(i) == {j \in ResultLines : j <= i}
Numbered ==
    /\ completedSystems = Cardinality(ResultLines)
    /\ \A i \in ResultLines : printed[i].index = Cardinality(ResultsTo(i))

\* The worker that holds mu printed the last result.
NoResultAfter(j, n) == \A k \in j + 1 .. n : printed[k].kind \notin {"result", "details"}
ResultOf(p, n) == \E j \in ResultLines :
    j <= n /\ printed[j].of = p /\ NoResultAfter(j, n)
Together ==
    /\ \A w \in Workers : at[w] \in LockedAt <=> mu = w
    /\ \A w \in Workers : mu = w => ResultOf(system[w], Len(printed))
    /\ \A i \in DOMAIN printed : printed[i].kind = "details" => ResultOf(printed[i].of, i - 1)

\* A worker ends when no system comes any more.
Ends ==
    /\ sysChanClosed <=> mainAt \in {"wait", "done"}
    /\ Len(sysChan) <= Cardinality(Workers)
    /\ \A w \in Workers : at[w] = "ended" => sysChanClosed /\ sysChan = <<>>
    /\ mainAt # "loop" => sent = Len(Systems) \/ cancelled
    /\ mainAt = "done" => /\ \A w \in Workers : at[w] = "ended"
                          /\ printed # <<>> /\ printed[Len(printed)].kind = "done"

Inv == TypeOK /\ Queue /\ Places /\ Checked /\ Numbered /\ Together /\ Ends

-----------------------------------------------------------------------------
\* Facts about the variables.

LEMMA TakenAreArguments == ASSUME TypeOK, Queue
                           PROVE  /\ TakenCount \in 0 .. Len(Systems)
                                  /\ Taken \subseteq Paths
<1>1. Systems \in Seq(Paths) BY SystemsAssumption
<1>2. TakenCount \in 0 .. Len(Systems)
  BY <1>1 DEF TypeOK, Queue, TakenCount
<1>3. \A i \in 1 .. TakenCount : Systems[i] \in Paths
  BY <1>1, <1>2
<1> QED BY <1>2, <1>3 DEF Taken

LEMMA ArgumentsDistinct == \A i, j \in 1 .. Len(Systems) : Systems[i] = Systems[j] => i = j
<1>1. Systems \in Seq(Paths) BY SystemsAssumption
<1> QED BY <1>1, SystemsAssumption DEF IsInjective

\* Lines of other kinds leave the results as they are.
Line(l) == printed' = Append(printed, l)
SameResults ==
    \A i \in Nat : /\ IsResult(i)' <=> IsResult(i)
                   /\ IsResult(i) => printed'[i] = printed[i]

LEMMA LineShape == ASSUME TypeOK, NEW l, Line(l)
                   PROVE  /\ Len(printed') = Len(printed) + 1
                          /\ DOMAIN printed' = 1 .. Len(printed) + 1
                          /\ DOMAIN printed = 1 .. Len(printed)
                          /\ Len(printed) \in Nat
                          /\ \A i \in 1 .. Len(printed) : printed'[i] = printed[i]
                          /\ printed'[Len(printed) + 1] = l
BY DEF TypeOK, Line

LEMMA OtherLine == ASSUME TypeOK, NEW l, Line(l), l.kind # "result"
                   PROVE  SameResults
BY LineShape DEF SameResults, IsResult

LEMMA NoLine == ASSUME printed' = printed PROVE SameResults
BY DEF SameResults, IsResult

LEMMA ResultTypes == ASSUME TypeOK, NEW i \in Nat, IsResult(i)
                     PROVE  printed[i].of \in Paths /\ printed[i].index \in Nat
<1>1. printed[i] \in Lines BY DEF TypeOK, IsResult
<1>2. printed[i].kind = "result" BY DEF IsResult
<1> QED BY <1>1, <1>2 DEF Lines

-----------------------------------------------------------------------------
\* The types.
LEMMA InitHolds == Init => Inv
<1> SUFFICES ASSUME Init PROVE Inv OBVIOUS
<1>1. Systems \in Seq(Paths) BY SystemsAssumption
<1>2. TypeOK
  <2>1. sent \in 0 .. Len(Systems) BY <1>1 DEF Init
  <2>2. sysChan \in Seq(Paths) /\ printed \in Seq(Lines) BY DEF Init
  <2>3. at \in [Workers -> Locations] /\ system \in [Workers -> Paths \cup {Nothing}]
    BY DEF Init, Locations
  <2> QED BY <2>1, <2>2, <2>3 DEF Init, TypeOK
<1>3. ResultLines = {} BY DEF Init, ResultLines
<1>4. TakenCount = 0 /\ Taken = {}
  <2>1. Len(sysChan) = 0 /\ sent = 0 BY DEF Init
  <2>2. TakenCount = 0 BY <2>1 DEF TakenCount
  <2>3. 1 .. TakenCount = {} BY <2>2
  <2> QED BY <2>2, <2>3 DEF Taken
<1>5. Queue BY DEF Init, Queue
<1>6. Places /\ Checked
  BY <1>4 DEF Init, Places, Checked, IsResult, IsPending, PendingAt, LockedAt
<1>7. Numbered BY <1>3, FS_EmptySet DEF Init, Numbered
<1>8. Together BY NothingAssumption DEF Init, Together, LockedAt
<1>9. Cardinality(Workers) \in Nat BY WorkersAssumption, FS_CardinalityType
<1>10. Ends BY <1>9 DEF Init, Ends
<1> QED BY <1>2, <1>5, <1>6, <1>7, <1>8, <1>10 DEF Inv

LEMMA StepTypes == ASSUME TypeOK, NEW w \in Workers, NEW from, NEW to \in Locations, Step(w, from, to)
                   PROVE  /\ at' \in [Workers -> Locations]
                          /\ at[w] = from /\ at'[w] = to
                          /\ \A v \in Workers \ {w} : at'[v] = at[v]
BY DEF TypeOK, Step

LEMMA TypeHolds == Inv /\ [Next]_vars => TypeOK'
<1> SUFFICES ASSUME Inv, [Next]_vars PROVE TypeOK' OBVIOUS
<1> USE DEF mainVars, chanVars, ctxVars, muVars, vars
<1>t. TypeOK BY DEF Inv
<1>p. Systems \in Seq(Paths) BY SystemsAssumption
<1>l. \A l \in Lines : Append(printed, l) \in Seq(Lines)
  BY <1>t DEF TypeOK
<1>k. [kind |-> "done"] \in Lines /\ [kind |-> "error"] \in Lines /\ [kind |-> "status"] \in Lines
  BY DEF Lines
<1>d. \A p \in Paths : [kind |-> "details", of |-> p] \in Lines
  BY DEF Lines
<1>r. \A p \in Paths, n \in Nat : [kind |-> "result", index |-> n, of |-> p] \in Lines
  BY DEF Lines
<1>s. \A w \in Workers : at[w] \in PendingAt \cup LockedAt => system[w] \in Paths
  BY TakenAreArguments DEF Inv, Places
<1>u. \A w \in Workers : \A from : \A to \in Locations :
        Step(w, from, to) => at' \in [Workers -> Locations]
  BY <1>t, StepTypes
<1>1. CASE Interrupt \/ Cancel BY <1>1, <1>t DEF Interrupt, Cancel, TypeOK
<1>2. CASE Send BY <1>2, <1>t, <1>p DEF Send, TypeOK
<1>3. CASE BreakLoop \/ Close BY <1>3, <1>t DEF BreakLoop, Close, TypeOK
<1>4. CASE Finish
  <2>1. printed' \in Seq(Lines) BY <1>4, <1>l, <1>k DEF Finish
  <2> QED BY <1>4, <1>t, <2>1 DEF Finish, TypeOK
<1>5. ASSUME NEW w \in Workers, Receive(w) PROVE TypeOK'
  <2>1. at' \in [Workers -> Locations]
    BY <1>5, <1>u DEF Receive, Locations, PendingAt
  <2>2. Head(sysChan) \in Paths /\ Tail(sysChan) \in Seq(Paths)
    BY <1>5, <1>t DEF Receive, TypeOK
  <2> QED BY <1>5, <1>t, <2>1, <2>2 DEF Receive, TypeOK
<1>6. ASSUME NEW w \in Workers, EndRange(w) PROVE TypeOK'
  <2>1. at' \in [Workers -> Locations]
    BY <1>6, <1>u DEF EndRange, Locations
  <2> QED BY <1>6, <1>t, <2>1 DEF EndRange, TypeOK
<1>7. ASSUME NEW w \in Workers, Reject(w) \/ OpenFails(w) PROVE TypeOK'
  <2>1. at' \in [Workers -> Locations]
    BY <1>7, <1>u DEF Reject, OpenFails, Locations
  <2>2. printed' \in Seq(Lines) BY <1>7, <1>l, <1>k DEF Reject, OpenFails
  <2> QED BY <1>7, <1>t, <2>1, <2>2 DEF Reject, OpenFails, TypeOK
<1>8. ASSUME NEW w \in Workers, Start(w) PROVE TypeOK'
  <2>1. at' \in [Workers -> Locations]
    BY <1>8, <1>u DEF Start, Locations, PendingAt
  <2> QED BY <1>8, <1>t, <2>1 DEF Start, TypeOK
<1>9. ASSUME NEW w \in Workers, ReadStatus(w) PROVE TypeOK'
  <2>1. at' \in [Workers -> Locations]
    BY <1>9, <1>u DEF ReadStatus, Locations, PendingAt
  <2> QED BY <1>9, <1>t, <2>1 DEF ReadStatus, TypeOK
<1>10. ASSUME NEW w \in Workers, PrintStatus(w) PROVE TypeOK'
  <2>1. at' \in [Workers -> Locations]
    BY <1>10, <1>u DEF PrintStatus, Locations, PendingAt
  <2>2. printed' \in Seq(Lines) BY <1>10, <1>l, <1>k DEF PrintStatus
  <2> QED BY <1>10, <1>t, <2>1, <2>2 DEF PrintStatus, TypeOK
<1>11. ASSUME NEW w \in Workers, Verify(w) \/ VerifierEnds(w) \/ Kill(w) PROVE TypeOK'
  <2>1. at' \in [Workers -> Locations]
    BY <1>11, <1>u DEF Verify, VerifierEnds, Kill, Locations, PendingAt
  <2> QED BY <1>11, <1>t, <2>1 DEF Verify, VerifierEnds, Kill, TypeOK
<1>12. ASSUME NEW w \in Workers, PrintResult(w) PROVE TypeOK'
  <2>1. at' \in [Workers -> Locations]
    BY <1>12, <1>u DEF PrintResult, Locations, LockedAt
  <2>2. system[w] \in Paths
    BY <1>12, <1>s DEF PrintResult, Step, PendingAt
  <2>3. completedSystems' \in Nat BY <1>12, <1>t DEF PrintResult, TypeOK
  <2>4. printed' \in Seq(Lines) BY <1>12, <1>l, <1>r, <2>2, <2>3 DEF PrintResult
  <2> QED BY <1>12, <1>t, <2>1, <2>3, <2>4 DEF PrintResult, TypeOK
<1>13. ASSUME NEW w \in Workers, PrintDetails(w) PROVE TypeOK'
  <2>1. at' \in [Workers -> Locations]
    BY <1>13, <1>u DEF PrintDetails, Explain, Locations
  <2>2. system[w] \in Paths
    BY <1>13, <1>s DEF PrintDetails, Explain, Step, LockedAt
  <2>3. printed' \in Seq(Lines) BY <1>13, <1>t, <1>l, <1>d, <2>2 DEF PrintDetails, Explain, TypeOK
  <2> QED BY <1>13, <1>t, <2>1, <2>3 DEF PrintDetails, TypeOK
<1>14. CASE UNCHANGED vars BY <1>14, <1>t DEF TypeOK
<1> QED BY <1>1, <1>2, <1>3, <1>4, <1>5, <1>6, <1>7, <1>8, <1>9, <1>10, <1>11, <1>12, <1>13, <1>14
        DEF Next, RunSystem

-----------------------------------------------------------------------------
\* The channel: what is received is the next system that nobody took.
LEMMA ReceivesNext == ASSUME TypeOK, Queue, NEW w \in Workers, Receive(w)
                      PROVE  /\ TakenCount' = TakenCount + 1
                             /\ TakenCount' \in 1 .. Len(Systems)
                             /\ Head(sysChan) = Systems[TakenCount + 1]
                             /\ Taken' = Taken \cup {Head(sysChan)}
                             /\ Head(sysChan) \notin Taken
                             /\ Queue'
<1>1. Systems \in Seq(Paths) BY SystemsAssumption
<1>2. /\ sent \in 0 .. Len(Systems) /\ sent' = sent
      /\ sysChan \in Seq(Paths) /\ sysChan # <<>> /\ sysChan' = Tail(sysChan)
      /\ Len(sysChan) <= sent
      /\ \A i \in 1 .. Len(sysChan) : sysChan[i] = Systems[TakenCount + i]
  BY DEF TypeOK, Queue, Receive, mainVars
<1>3. Len(sysChan) \in Nat \ {0} /\ Len(sysChan') = Len(sysChan) - 1
  BY <1>2
<1>4. TakenCount' = TakenCount + 1 /\ TakenCount \in Nat /\ TakenCount' \in 1 .. Len(Systems)
  BY <1>1, <1>2, <1>3 DEF TakenCount
<1>5. Head(sysChan) = Systems[TakenCount + 1]
  BY <1>2, <1>3
<1>6. 1 .. TakenCount' = 1 .. TakenCount \cup {TakenCount + 1}
  BY <1>4
<1>7. Taken' = Taken \cup {Head(sysChan)}
  BY <1>5, <1>6 DEF Taken
<1>8. Head(sysChan) \notin Taken
  <2>1. SUFFICES ASSUME NEW i \in 1 .. TakenCount, Systems[i] = Systems[TakenCount + 1] PROVE FALSE
    BY <1>5 DEF Taken
  <2> QED BY <1>4, <2>1, ArgumentsDistinct
<1>9. \A i \in 1 .. Len(sysChan') : sysChan'[i] = Systems[TakenCount' + i]
  <2>1. TAKE i \in 1 .. Len(sysChan')
  <2>2. i + 1 \in 1 .. Len(sysChan) /\ sysChan'[i] = sysChan[i + 1]
    BY <1>2, <1>3
  <2>3. TakenCount + (i + 1) = TakenCount' + i BY <1>4
  <2> QED BY <1>2, <2>2, <2>3
<1>10. Queue' BY <1>2, <1>3, <1>9 DEF Queue
<1> QED BY <1>4, <1>5, <1>7, <1>8, <1>10

LEMMA QueueHolds == Inv /\ [Next]_vars => Queue'
<1> SUFFICES ASSUME Inv, [Next]_vars PROVE Queue' OBVIOUS
<1>t. TypeOK /\ Queue BY DEF Inv
<1>1. CASE Send
  <2>1. Systems \in Seq(Paths) BY SystemsAssumption
  <2>2. /\ sent \in 0 .. Len(Systems) /\ sent < Len(Systems) /\ sent' = sent + 1
        /\ sysChan \in Seq(Paths) /\ sysChan' = Append(sysChan, Systems[sent + 1])
    BY <1>1, <1>t DEF TypeOK, Send
  <2>3. Systems[sent + 1] \in Paths BY <2>1, <2>2
  <2>4. Len(sysChan') = Len(sysChan) + 1 /\ Len(sysChan) \in Nat BY <2>2, <2>3
  <2>5. TakenCount' = TakenCount /\ TakenCount \in Nat
    BY <1>t, <2>1, <2>2, <2>4 DEF TakenCount, Queue
  <2>6. \A i \in 1 .. Len(sysChan') : sysChan'[i] = Systems[TakenCount' + i]
    <3>1. TAKE i \in 1 .. Len(sysChan')
    <3>2. CASE i \in 1 .. Len(sysChan)
      BY <1>t, <2>2, <2>3, <2>5, <3>2 DEF Queue
    <3>3. CASE i = Len(sysChan) + 1
      <4>1. TakenCount + i = sent + 1 BY <2>1, <2>2, <2>4, <3>3 DEF TakenCount
      <4> QED BY <2>2, <2>3, <2>5, <3>3, <4>1
    <3> QED BY <2>4, <3>2, <3>3
  <2>7. Len(sysChan') <= sent' BY <1>t, <2>1, <2>2, <2>4 DEF Queue
  <2> QED BY <2>6, <2>7 DEF Queue
<1>2. ASSUME NEW w \in Workers, Receive(w) PROVE Queue'
  BY <1>2, <1>t, ReceivesNext
<1>3. CASE UNCHANGED <<sent, sysChan>>
  BY <1>3, <1>t DEF Queue, TakenCount
<1> QED BY <1>1, <1>2, <1>3
        DEF Next, RunSystem, mainVars, chanVars, vars, Interrupt, Cancel, BreakLoop, Close, Finish,
            EndRange, Reject, Start, ReadStatus, PrintStatus, OpenFails, Verify, VerifierEnds, Kill,
            PrintResult, PrintDetails

SameTaken == TakenCount' = TakenCount /\ Taken' = Taken
LEMMA SendKeepsTaken == ASSUME TypeOK, Send PROVE SameTaken
<1>1. Systems \in Seq(Paths) BY SystemsAssumption
<1>2. /\ sent \in 0 .. Len(Systems) /\ sent < Len(Systems) /\ sent' = sent + 1
      /\ sysChan \in Seq(Paths) /\ sysChan' = Append(sysChan, Systems[sent + 1])
  BY DEF TypeOK, Send
<1>3. Systems[sent + 1] \in Paths BY <1>1, <1>2
<1>4. Len(sysChan') = Len(sysChan) + 1 /\ Len(sysChan) \in Nat BY <1>2, <1>3
<1>5. TakenCount' = TakenCount BY <1>1, <1>2, <1>4 DEF TakenCount
<1> QED BY <1>5 DEF SameTaken, Taken

-----------------------------------------------------------------------------
\* The systems: a step keeps Places if it takes and prints no result, no worker gets a system,
\* and only what cannot be run is dropped.
NobodyGains ==
    \A w \in Workers : /\ IsPending(w)' => IsPending(w)
                       /\ at'[w] \in PendingAt \cup LockedAt => at[w] \in PendingAt \cup LockedAt
                       /\ system'[w] = system[w]
OnlyUnrunnableDropped ==
    \A w \in Workers : IsPending(w) /\ system[w] \in Runnable => IsPending(w)'

LEMMA PlacesKept == ASSUME Places, SameTaken, SameResults, NobodyGains, OnlyUnrunnableDropped
                    PROVE  Places'
<1> USE DEF Places
<1>1. (\A w \in Workers : at[w] \in PendingAt \cup LockedAt => system[w] \in Taken)'
  BY DEF SameTaken, NobodyGains
<1>2. (\A v, w \in Workers : IsPending(v) /\ IsPending(w) /\ system[v] = system[w] => v = w)'
  BY DEF NobodyGains
<1>3. (\A w \in Workers, i \in Nat : IsPending(w) /\ IsResult(i) => printed[i].of # system[w])'
  BY DEF NobodyGains, SameResults
<1>4. (\A i, j \in Nat : IsResult(i) /\ IsResult(j) /\ printed[i].of = printed[j].of => i = j)'
  BY DEF SameResults
<1>5. (\A i \in Nat : IsResult(i) => printed[i].of \in Taken \cap Runnable)'
  BY DEF SameResults, SameTaken
<1>6. (\A p \in Taken \cap Runnable : \/ \E w \in Workers : IsPending(w) /\ system[w] = p
                                      \/ \E i \in Nat : IsResult(i) /\ printed[i].of = p)'
  BY DEF SameResults, SameTaken, NobodyGains, OnlyUnrunnableDropped
<1> QED BY <1>1, <1>2, <1>3, <1>4, <1>5, <1>6

\* A worker takes the next system from the channel.
LEMMA PlacesReceive == ASSUME TypeOK, Queue, Places, NEW w \in Workers, Receive(w) PROVE Places'
<1> DEFINE p == Head(sysChan)
<1>1. /\ at[w] = "range" /\ at'[w] = "run" /\ system'[w] = p
      /\ \A v \in Workers \ {w} : at'[v] = at[v] /\ system'[v] = system[v]
  BY DEF Receive, Step, TypeOK
<1>2. /\ ~IsPending(w) /\ IsPending(w)'
      /\ \A v \in Workers \ {w} : IsPending(v)' <=> IsPending(v)
  BY <1>1 DEF IsPending, PendingAt
<1>3. Taken' = Taken \cup {p} /\ p \notin Taken BY ReceivesNext
<1>4. SameResults BY NoLine DEF Receive
<1> HIDE DEF p
<1> USE DEF Places
<1>5. \A v \in Workers : IsPending(v) => system[v] \in Taken
  BY DEF IsPending
<1>6. (\A v \in Workers : at[v] \in PendingAt \cup LockedAt => system[v] \in Taken)'
  BY <1>1, <1>3
<1>7. (\A u, v \in Workers : IsPending(u) /\ IsPending(v) /\ system[u] = system[v] => u = v)'
  BY <1>1, <1>2, <1>3, <1>5
<1>8. (\A v \in Workers, i \in Nat : IsPending(v) /\ IsResult(i) => printed[i].of # system[v])'
  BY <1>1, <1>2, <1>3, <1>4 DEF SameResults
<1>9. (\A i, j \in Nat : IsResult(i) /\ IsResult(j) /\ printed[i].of = printed[j].of => i = j)'
  BY <1>4 DEF SameResults
<1>10. (\A i \in Nat : IsResult(i) => printed[i].of \in Taken \cap Runnable)'
  BY <1>3, <1>4 DEF SameResults
<1>11. (\A q \in Taken \cap Runnable : \/ \E v \in Workers : IsPending(v) /\ system[v] = q
                                       \/ \E i \in Nat : IsResult(i) /\ printed[i].of = q)'
  <2>1. SUFFICES ASSUME NEW q \in Taken' \cap Runnable
                 PROVE  \/ \E v \in Workers : IsPending(v)' /\ system'[v] = q
                        \/ \E i \in Nat : IsResult(i)' /\ printed'[i].of = q
    OBVIOUS
  <2>2. CASE q = p BY <1>1, <1>2, <2>2
  <2>3. CASE q # p
    <3>1. q \in Taken \cap Runnable BY <1>3, <2>1, <2>3
    <3>2. CASE \E v \in Workers : IsPending(v) /\ system[v] = q
      BY <1>1, <1>2, <3>2
    <3>3. CASE \E i \in Nat : IsResult(i) /\ printed[i].of = q
      BY <1>4, <3>3 DEF SameResults
    <3> QED BY <3>1, <3>2, <3>3
  <2> QED BY <2>2, <2>3
<1> QED BY <1>6, <1>7, <1>8, <1>9, <1>10, <1>11

\* The line of a result is the last one.
NewResult(w) ==
    /\ \A i \in Nat : IsResult(i)' <=> IsResult(i) \/ i = Len(printed) + 1
    /\ \A i \in Nat : IsResult(i) => printed'[i] = printed[i] /\ i # Len(printed) + 1
    /\ Len(printed) + 1 \in Nat
    /\ printed'[Len(printed) + 1].of = system[w]
    /\ printed'[Len(printed) + 1].index = completedSystems + 1
LEMMA ResultLine == ASSUME TypeOK, NEW w \in Workers, PrintResult(w) PROVE NewResult(w)
<1> DEFINE l == [kind |-> "result", index |-> completedSystems', of |-> system[w]]
<1>1. Line(l) /\ completedSystems' = completedSystems + 1 BY DEF PrintResult, Line
<1>2. /\ l.kind = "result" /\ l.of = system[w] /\ l.index = completedSystems'
  OBVIOUS
<1> HIDE DEF l
<1>3. /\ DOMAIN printed' = 1 .. Len(printed) + 1
      /\ DOMAIN printed = 1 .. Len(printed)
      /\ Len(printed) \in Nat
      /\ \A i \in 1 .. Len(printed) : printed'[i] = printed[i]
      /\ printed'[Len(printed) + 1] = l
  BY <1>1, LineShape
<1> QED BY <1>1, <1>2, <1>3 DEF NewResult, IsResult

\* A pending worker's system becomes a result.
LEMMA PlacesResult == ASSUME TypeOK, Places, Checked, NEW w \in Workers, PrintResult(w),
                             Taken' = Taken, Taken \subseteq Paths
                      PROVE  Places'
<1> DEFINE n == Len(printed) + 1
<1>1. /\ at[w] \in {"failed", "completed"} /\ at'[w] \in LockedAt /\ system' = system
      /\ \A v \in Workers \ {w} : at'[v] = at[v]
  BY DEF PrintResult, Step, TypeOK, LockedAt
<1>2. /\ IsPending(w) /\ ~IsPending(w)'
      /\ \A v \in Workers \ {w} : IsPending(v)' <=> IsPending(v)
  BY <1>1 DEF IsPending, PendingAt, LockedAt
<1>3. /\ \A i \in Nat : IsResult(i)' <=> IsResult(i) \/ i = n
      /\ \A i \in Nat : IsResult(i) => printed'[i] = printed[i] /\ i # n
      /\ n \in Nat
      /\ printed'[n].of = system[w]
  BY ResultLine DEF NewResult
<1> HIDE DEF n
<1> USE DEF Places
<1>4. \A v \in Workers : IsPending(v) => system[v] \in Taken
  BY DEF IsPending
<1>5. system[w] \in Taken \cap Runnable
  BY <1>1, <1>2, <1>4 DEF Checked, Runnable, PendingAt
<1>6. (\A v \in Workers : at[v] \in PendingAt \cup LockedAt => system[v] \in Taken)'
  <2>1. TAKE v \in Workers
  <2>2. HAVE at'[v] \in PendingAt \cup LockedAt
  <2> QED BY <1>1, <1>5, <2>2
<1>7. (\A u, v \in Workers : IsPending(u) /\ IsPending(v) /\ system[u] = system[v] => u = v)'
  BY <1>1, <1>2
<1>8. (\A v \in Workers, i \in Nat : IsPending(v) /\ IsResult(i) => printed[i].of # system[v])'
  <2>1. TAKE v \in Workers, i \in Nat
  <2>2. HAVE (IsPending(v) /\ IsResult(i))'
  <2>3. v # w /\ IsPending(v) BY <1>2, <2>2
  <2>4. CASE i = n BY <1>1, <1>2, <1>3, <2>3, <2>4
  <2>5. CASE IsResult(i) BY <1>1, <1>3, <2>3, <2>5
  <2> QED BY <1>3, <2>2, <2>4, <2>5
<1>9. (\A i, j \in Nat : IsResult(i) /\ IsResult(j) /\ printed[i].of = printed[j].of => i = j)'
  BY <1>2, <1>3
<1>10. (\A i \in Nat : IsResult(i) => printed[i].of \in Taken \cap Runnable)'
  BY <1>3, <1>5
<1>11. (\A q \in Taken \cap Runnable : \/ \E v \in Workers : IsPending(v) /\ system[v] = q
                                       \/ \E i \in Nat : IsResult(i) /\ printed[i].of = q)'
  <2>1. SUFFICES ASSUME NEW q \in Taken \cap Runnable
                 PROVE  \/ \E v \in Workers : IsPending(v)' /\ system'[v] = q
                        \/ \E i \in Nat : IsResult(i)' /\ printed'[i].of = q
    OBVIOUS
  <2>2. CASE q = system[w] BY <1>3, <2>2
  <2>3. CASE \E i \in Nat : IsResult(i) /\ printed[i].of = q
    BY <1>3, <2>3
  <2>4. CASE \E v \in Workers \ {w} : IsPending(v) /\ system[v] = q
    BY <1>1, <1>2, <2>4
  <2> QED BY <2>2, <2>3, <2>4
<1> QED BY <1>6, <1>7, <1>8, <1>9, <1>10, <1>11

\* Every other step keeps the results and hands out no system.
Other == SameTaken /\ SameResults /\ NobodyGains /\ OnlyUnrunnableDropped

LEMMA OtherMove ==
  ASSUME TypeOK, NEW w \in Workers, NEW from, NEW to \in Locations, Step(w, from, to),
         system' = system,
         to \in PendingAt => from \in PendingAt,
         to \in LockedAt => from \in LockedAt,
         from \in PendingAt /\ system[w] \in Runnable => to \in PendingAt
  PROVE  NobodyGains /\ OnlyUnrunnableDropped
<1>1. at[w] = from /\ at'[w] = to /\ \A v \in Workers \ {w} : at'[v] = at[v]
  BY StepTypes
<1> QED BY <1>1 DEF NobodyGains, OnlyUnrunnableDropped, IsPending

LEMMA OtherSteps ==
  ASSUME Inv,
         \/ Interrupt \/ Cancel \/ Send \/ BreakLoop \/ Close \/ Finish \/ UNCHANGED vars
         \/ \E w \in Workers : \/ EndRange(w) \/ Reject(w) \/ Start(w) \/ ReadStatus(w)
                               \/ PrintStatus(w) \/ OpenFails(w) \/ Verify(w) \/ VerifierEnds(w)
                               \/ Kill(w) \/ PrintDetails(w)
  PROVE  Other
<1>t. TypeOK /\ Checked BY DEF Inv
<1> USE DEF mainVars, chanVars, ctxVars, muVars, vars
<1>a. ASSUME UNCHANGED <<sent, sysChan>> PROVE SameTaken
  BY <1>a DEF SameTaken, Taken, TakenCount
<1>b. ASSUME UNCHANGED <<at, system>> PROVE NobodyGains /\ OnlyUnrunnableDropped
  BY <1>b DEF NobodyGains, OnlyUnrunnableDropped, IsPending
<1>c. /\ \A k \in {"done", "error", "status"} : Line([kind |-> k]) => SameResults
      /\ \A p : Line([kind |-> "details", of |-> p]) => SameResults
  <2>1. ASSUME NEW k \in {"done", "error", "status"}, Line([kind |-> k]) PROVE SameResults
    BY <1>t, <2>1, OtherLine
  <2>2. ASSUME NEW p, Line([kind |-> "details", of |-> p]) PROVE SameResults
    BY <1>t, <2>2, OtherLine
  <2> QED BY <2>1, <2>2
<1>1. CASE Interrupt \/ Cancel \/ BreakLoop \/ Close \/ UNCHANGED vars
  BY <1>1, <1>a, <1>b, NoLine DEF Other, Interrupt, Cancel, BreakLoop, Close
<1>2. CASE Send
  BY <1>2, <1>t, <1>b, SendKeepsTaken, NoLine DEF Other, Send
<1>3. CASE Finish
  <2>1. Line([kind |-> "done"]) BY <1>3 DEF Finish, Line
  <2> QED BY <1>3, <2>1, <1>a, <1>b, <1>c DEF Other, Finish
<1>4. ASSUME NEW w \in Workers, Reject(w) PROVE Other
  <2>1. Line([kind |-> "error"]) BY <1>4 DEF Reject, Line
  <2>2. SameTaken /\ SameResults BY <1>4, <2>1, <1>a, <1>c DEF Reject
  <2>3. NobodyGains /\ OnlyUnrunnableDropped
    <3>1. Step(w, "run", "range") /\ system' = system /\ system[w] \notin Runnable
      BY <1>4 DEF Reject, Runnable
    <3> QED BY <3>1, <1>t, OtherMove DEF Locations, PendingAt, LockedAt
  <2> QED BY <2>2, <2>3 DEF Other
<1>5. ASSUME NEW w \in Workers, OpenFails(w) PROVE Other
  <2>1. Line([kind |-> "error"]) BY <1>5 DEF OpenFails, Line
  <2>2. SameTaken /\ SameResults BY <1>5, <2>1, <1>a, <1>c DEF OpenFails
  <2>3. NobodyGains /\ OnlyUnrunnableDropped
    <3>1. Step(w, "open", "range") /\ system' = system /\ system[w] \notin Runnable
      BY <1>5 DEF OpenFails, Runnable
    <3> QED BY <3>1, <1>t, OtherMove DEF Locations, PendingAt, LockedAt
  <2> QED BY <2>2, <2>3 DEF Other
<1>6. ASSUME NEW w \in Workers, PrintStatus(w) PROVE Other
  <2>1. Line([kind |-> "status"]) BY <1>6 DEF PrintStatus, Line
  <2>2. SameTaken /\ SameResults /\ system' = system
    BY <1>6, <2>1, <1>a, <1>c DEF PrintStatus
  <2>3. CASE Step(w, "print", "open")
    <3>1. NobodyGains /\ OnlyUnrunnableDropped
      BY <2>2, <2>3, <1>t, OtherMove DEF Locations, PendingAt, LockedAt
    <3> QED BY <2>2, <3>1 DEF Other
  <2>4. CASE Step(w, "endPrint", "range")
    <3>1. NobodyGains /\ OnlyUnrunnableDropped
      BY <2>2, <2>4, <1>t, OtherMove DEF Locations, PendingAt, LockedAt
    <3> QED BY <2>2, <3>1 DEF Other
  <2> QED BY <1>6, <2>3, <2>4 DEF PrintStatus
<1>7. ASSUME NEW w \in Workers, ReadStatus(w) PROVE Other
  <2>2. SameTaken /\ SameResults /\ system' = system
    BY <1>7, <1>a, NoLine DEF ReadStatus
  <2>3. CASE Step(w, "status", "print")
    <3>1. NobodyGains /\ OnlyUnrunnableDropped
      BY <2>2, <2>3, <1>t, OtherMove DEF Locations, PendingAt, LockedAt
    <3> QED BY <2>2, <3>1 DEF Other
  <2>4. CASE Step(w, "endStatus", "endPrint")
    <3>1. NobodyGains /\ OnlyUnrunnableDropped
      BY <2>2, <2>4, <1>t, OtherMove DEF Locations, PendingAt, LockedAt
    <3> QED BY <2>2, <3>1 DEF Other
  <2> QED BY <1>7, <2>3, <2>4 DEF ReadStatus
<1>8. ASSUME NEW w \in Workers, EndRange(w) PROVE Other
  <2>1. SameTaken /\ SameResults /\ system' = system /\ Step(w, "range", "ended")
    BY <1>8, <1>a, NoLine DEF EndRange
  <2>2. NobodyGains /\ OnlyUnrunnableDropped
    BY <2>1, <1>t, OtherMove DEF Locations, PendingAt, LockedAt
  <2> QED BY <2>1, <2>2 DEF Other
<1>9. ASSUME NEW w \in Workers, Start(w) PROVE Other
  <2>1. SameTaken /\ SameResults /\ system' = system /\ Step(w, "run", "status")
    BY <1>9, <1>a, NoLine DEF Start
  <2>2. NobodyGains /\ OnlyUnrunnableDropped
    BY <2>1, <1>t, OtherMove DEF Locations, PendingAt, LockedAt
  <2> QED BY <2>1, <2>2 DEF Other
<1>10. ASSUME NEW w \in Workers, Verify(w) \/ VerifierEnds(w) \/ Kill(w) PROVE Other
  <2>1. /\ SameTaken /\ SameResults /\ system' = system
        /\ \E from \in {"open", "verifying"}, to \in {"failed", "verifying", "completed"} :
             Step(w, from, to)
    BY <1>10, <1>a, NoLine DEF Verify, VerifierEnds, Kill
  <2>2. PICK from \in {"open", "verifying"}, to \in {"failed", "verifying", "completed"} :
          Step(w, from, to)
    BY <2>1
  <2>3. NobodyGains /\ OnlyUnrunnableDropped
    BY <2>1, <2>2, <1>t, OtherMove DEF Locations, PendingAt, LockedAt
  <2> QED BY <2>1, <2>3 DEF Other
<1>11. ASSUME NEW w \in Workers, PrintDetails(w) PROVE Other
  <2>1. SameTaken /\ system' = system
    BY <1>11, <1>a DEF PrintDetails
  <2>2. SameResults
    <3>1. \/ Line([kind |-> "details", of |-> system[w]])
          \/ printed' = printed
      BY <1>11 DEF PrintDetails, Explain, Line
    <3> QED BY <3>1, <1>c, NoLine
  <2>3. PICK from \in {"explain", "details"} : Step(w, from, "endStatus")
    BY <1>11 DEF PrintDetails, Explain
  <2>4. NobodyGains /\ OnlyUnrunnableDropped
    BY <2>1, <2>3, <1>t, OtherMove DEF Locations, PendingAt, LockedAt
  <2> QED BY <2>1, <2>2, <2>4 DEF Other
<1> QED BY <1>1, <1>2, <1>3, <1>4, <1>5, <1>6, <1>7, <1>8, <1>9, <1>10, <1>11

LEMMA ThreeKinds == ASSUME Inv, [Next]_vars
                    PROVE  Other \/ \E w \in Workers : Receive(w) \/ PrintResult(w)
BY OtherSteps DEF Next, RunSystem

LEMMA PlacesHolds == Inv /\ [Next]_vars => Places'
<1> SUFFICES ASSUME Inv, [Next]_vars PROVE Places' OBVIOUS
<1>1. TypeOK /\ Queue /\ Places /\ Checked BY DEF Inv
<1>2. CASE Other BY <1>1, <1>2, PlacesKept DEF Other
<1>3. ASSUME NEW w \in Workers, Receive(w) PROVE Places'
  BY <1>1, <1>3, PlacesReceive
<1>4. ASSUME NEW w \in Workers, PrintResult(w) PROVE Places'
  <2>1. Taken' = Taken
    BY <1>4 DEF PrintResult, mainVars, chanVars, Taken, TakenCount
  <2> QED BY <1>1, <1>4, <2>1, TakenAreArguments, PlacesResult
<1> QED BY <1>2, <1>3, <1>4, ThreeKinds

\* A system was checked before the worker went on.
LEMMA CheckedHolds == Inv /\ [Next]_vars => Checked'
<1> SUFFICES ASSUME Inv, [Next]_vars PROVE Checked' OBVIOUS
<1>t. TypeOK /\ Checked BY DEF Inv
<1> USE DEF mainVars, chanVars, ctxVars, muVars, vars
<1>1. CASE UNCHANGED <<at, system>> BY <1>1, <1>t DEF Checked
<1>2. ASSUME NEW w \in Workers, Receive(w) PROVE Checked'
  <2>1. at'[w] = "run" /\ \A v \in Workers \ {w} : at'[v] = at[v] /\ system'[v] = system[v]
    BY <1>2, <1>t DEF Receive, Step, TypeOK
  <2> QED BY <1>t, <2>1 DEF Checked, PendingAt
<1>m. ASSUME NEW w \in Workers, NEW from, NEW to \in Locations, Step(w, from, to), system' = system,
             to \in PendingAt \ {"run"} => system[w] \notin NoXml,
             to \in {"verifying", "failed", "completed"} => system[w] \notin CannotOpen
      PROVE  Checked'
  <2>1. at'[w] = to /\ \A v \in Workers \ {w} : at'[v] = at[v]
    BY <1>t, <1>m, StepTypes
  <2> QED BY <1>t, <1>m, <2>1 DEF Checked
<1>3. ASSUME NEW w \in Workers, EndRange(w) PROVE Checked'
  BY <1>3, <1>m DEF EndRange, Locations, PendingAt
<1>4. ASSUME NEW w \in Workers, Reject(w) \/ OpenFails(w) PROVE Checked'
  BY <1>4, <1>m DEF Reject, OpenFails, Locations, PendingAt
<1>5. ASSUME NEW w \in Workers, Start(w) PROVE Checked'
  BY <1>5, <1>m DEF Start, Locations, PendingAt
<1>6. ASSUME NEW w \in Workers, ReadStatus(w) PROVE Checked'
  <2>1. CASE Step(w, "status", "print")
    <3>1. at[w] = "status" BY <2>1 DEF Step
    <3>2. system[w] \notin NoXml BY <3>1, <1>t DEF Checked, PendingAt
    <3> QED BY <1>6, <2>1, <3>2, <1>m DEF ReadStatus, Locations, PendingAt
  <2>2. CASE Step(w, "endStatus", "endPrint")
    BY <1>6, <2>2, <1>m DEF ReadStatus, Locations, PendingAt
  <2> QED BY <1>6, <2>1, <2>2 DEF ReadStatus
<1>7. ASSUME NEW w \in Workers, PrintStatus(w) PROVE Checked'
  <2>1. CASE Step(w, "print", "open")
    <3>1. at[w] = "print" BY <2>1 DEF Step
    <3>2. system[w] \notin NoXml BY <3>1, <1>t DEF Checked, PendingAt
    <3> QED BY <1>7, <2>1, <3>2, <1>m DEF PrintStatus, Locations, PendingAt
  <2>2. CASE Step(w, "endPrint", "range")
    BY <1>7, <2>2, <1>m DEF PrintStatus, Locations, PendingAt
  <2> QED BY <1>7, <2>1, <2>2 DEF PrintStatus
<1>8. ASSUME NEW w \in Workers, Verify(w) PROVE Checked'
  <2>1. at[w] = "open" /\ system[w] \notin CannotOpen BY <1>8 DEF Verify, Step
  <2>2. system[w] \notin NoXml BY <2>1, <1>t DEF Checked, PendingAt
  <2> QED BY <1>8, <2>1, <2>2, <1>m DEF Verify, Locations, PendingAt
<1>9. ASSUME NEW w \in Workers, VerifierEnds(w) \/ Kill(w) PROVE Checked'
  <2>1. at[w] = "verifying" BY <1>9 DEF VerifierEnds, Kill, Step
  <2>2. system[w] \notin NoXml \cup CannotOpen BY <2>1, <1>t DEF Checked, PendingAt
  <2> QED BY <1>9, <2>2, <1>m DEF VerifierEnds, Kill, Locations, PendingAt
<1>10. ASSUME NEW w \in Workers, PrintResult(w) PROVE Checked'
  BY <1>10, <1>m DEF PrintResult, Locations, PendingAt, LockedAt
<1>11. ASSUME NEW w \in Workers, PrintDetails(w) PROVE Checked'
  BY <1>11, <1>m DEF PrintDetails, Explain, Locations, PendingAt
<1> QED BY <1>1, <1>2, <1>3, <1>4, <1>5, <1>6, <1>7, <1>8, <1>9, <1>10, <1>11
        DEF Next, RunSystem, Interrupt, Cancel, Send, BreakLoop, Close, Finish

-----------------------------------------------------------------------------
\* The count and the order of the results.
LEMMA LinesFinite == ASSUME TypeOK
                     PROVE  /\ IsFiniteSet(ResultLines)
                            /\ \A i \in Nat : IsFiniteSet(ResultsTo(i))
                            /\ \A i : i \in ResultLines <=> i \in Nat /\ IsResult(i)
<1>1. DOMAIN printed = 1 .. Len(printed) /\ Len(printed) \in Nat BY DEF TypeOK
<1>2. IsFiniteSet(1 .. Len(printed)) BY <1>1, FS_Interval
<1>3. ResultLines \subseteq 1 .. Len(printed) BY <1>1 DEF ResultLines
<1>4. IsFiniteSet(ResultLines) BY <1>2, <1>3, FS_Subset
<1>5. \A i \in Nat : ResultsTo(i) \subseteq ResultLines BY DEF ResultsTo
<1>6. \A i \in Nat : IsFiniteSet(ResultsTo(i)) BY <1>4, <1>5, FS_Subset
<1>7. \A i : i \in ResultLines <=> i \in Nat /\ IsResult(i)
  BY <1>1 DEF ResultLines, IsResult
<1> QED BY <1>4, <1>6, <1>7

LEMMA NumberedHolds == Inv /\ [Next]_vars => Numbered'
<1> SUFFICES ASSUME Inv, [Next]_vars PROVE Numbered' OBVIOUS
<1>t. TypeOK /\ TypeOK' BY TypeHolds DEF Inv
<1>n. Numbered BY DEF Inv
<1>r. \A i : i \in ResultLines <=> i \in Nat /\ IsResult(i) BY <1>t, LinesFinite
<1>q. \A i : i \in ResultLines' <=> i \in Nat /\ IsResult(i)'
  <2>1. (\A i : i \in ResultLines <=> i \in Nat /\ IsResult(i))'
    BY <1>t, LinesFinite, PTL
  <2> QED BY <2>1
<1>1. ASSUME SameResults, completedSystems' = completedSystems PROVE Numbered'
  <2>1. ResultLines' = ResultLines BY <1>1, <1>r, <1>q DEF SameResults
  <2>2. \A i \in ResultLines : printed'[i] = printed[i] BY <1>1, <1>r DEF SameResults
  <2>3. \A i : ResultsTo(i)' = ResultsTo(i) BY <2>1 DEF ResultsTo
  <2> QED BY <1>1, <1>n, <2>1, <2>2, <2>3 DEF Numbered
<1>2. ASSUME NEW w \in Workers, PrintResult(w) PROVE Numbered'
  <2>0. PICK n : n = Len(printed) + 1 OBVIOUS
  <2>1. /\ \A i \in Nat : IsResult(i)' <=> IsResult(i) \/ i = n
        /\ \A i \in Nat : IsResult(i) => printed'[i] = printed[i] /\ i # n
        /\ n \in Nat
        /\ printed'[n].index = completedSystems + 1
    BY <1>2, <1>t, <2>0, ResultLine DEF NewResult
  <2>2. \A i \in ResultLines : i \in 1 .. n - 1
    BY <1>t, <2>0 DEF TypeOK, ResultLines
  <2>3. ResultLines' = ResultLines \cup {n} /\ n \notin ResultLines
    BY <1>r, <1>q, <2>1
  <2>4. IsFiniteSet(ResultLines) BY <1>t, LinesFinite
  <2>5. Cardinality(ResultLines') = Cardinality(ResultLines) + 1
    BY <2>3, <2>4, FS_AddElement
  <2>6. completedSystems' = completedSystems + 1 BY <1>2 DEF PrintResult
  <2>7. completedSystems' = Cardinality(ResultLines')
    BY <1>n, <2>5, <2>6 DEF Numbered
  <2>8. ASSUME NEW i \in ResultLines PROVE printed'[i].index = Cardinality(ResultsTo(i)')
    <3>1. i < n /\ i \in Nat BY <2>1, <2>2
    <3>2. ResultsTo(i)' = ResultsTo(i) BY <2>1, <2>3, <3>1 DEF ResultsTo
    <3> QED BY <1>n, <1>r, <2>1, <3>2 DEF Numbered
  <2>9. printed'[n].index = Cardinality(ResultsTo(n)')
    <3>1. ResultsTo(n)' = ResultLines' BY <2>1, <2>2, <2>3 DEF ResultsTo
    <3> QED BY <2>1, <2>6, <2>7, <3>1
  <2> QED BY <2>3, <2>7, <2>8, <2>9 DEF Numbered
<1>3. CASE Other
  <2>1. completedSystems' = completedSystems \/ \E w \in Workers : PrintResult(w)
    BY DEF Next, RunSystem, vars, muVars, Interrupt, Cancel, Send, BreakLoop, Close, Finish,
           Receive, EndRange, Reject, Start, ReadStatus, PrintStatus, OpenFails, Verify,
           VerifierEnds, Kill, PrintDetails
  <2> QED BY <1>1, <1>2, <1>3, <2>1 DEF Other
<1>4. ASSUME NEW w \in Workers, Receive(w) PROVE Numbered'
  BY <1>1, <1>4, NoLine DEF Receive, muVars
<1> QED BY <1>2, <1>3, <1>4, ThreeKinds

-----------------------------------------------------------------------------
\* A result and its details.
LEMMA ResultStays == ASSUME TypeOK, NEW l, Line(l), NEW p, NEW n \in 0 .. Len(printed)
                     PROVE  ResultOf(p, n) => ResultOf(p, n)'
<1> SUFFICES ASSUME ResultOf(p, n) PROVE ResultOf(p, n)' OBVIOUS
<1>1. PICK j \in ResultLines : j <= n /\ printed[j].of = p /\ NoResultAfter(j, n)
  BY DEF ResultOf
<1>2. j \in 1 .. Len(printed) /\ n <= Len(printed) /\ n \in Nat
  BY <1>1, LineShape DEF ResultLines
<1>3. j \in ResultLines' /\ printed'[j] = printed[j]
  BY <1>1, <1>2, LineShape DEF ResultLines
<1>4. NoResultAfter(j, n)'
  <2>1. \A k \in j + 1 .. n : printed'[k] = printed[k]
    BY <1>2, LineShape
  <2> QED BY <1>1, <2>1 DEF NoResultAfter
<1> QED BY <1>1, <1>3, <1>4 DEF ResultOf

LEMMA ResultStaysLast == ASSUME TypeOK, NEW l, Line(l), l.kind \notin {"result", "details"}, NEW p,
                                ResultOf(p, Len(printed))
                         PROVE  ResultOf(p, Len(printed))'
<1>1. PICK j \in ResultLines :
        j <= Len(printed) /\ printed[j].of = p /\ NoResultAfter(j, Len(printed))
  BY DEF ResultOf
<1>2. j \in 1 .. Len(printed) /\ Len(printed) \in Nat
  BY <1>1, LineShape DEF ResultLines
<1>3. j \in ResultLines' /\ printed'[j] = printed[j] /\ j <= Len(printed')
  BY <1>1, <1>2, LineShape DEF ResultLines
<1>4. \A k \in j + 1 .. Len(printed') : printed'[k].kind \notin {"result", "details"}
  <2>1. TAKE k \in j + 1 .. Len(printed')
  <2>2. CASE k = Len(printed) + 1 BY <2>2, LineShape
  <2>3. CASE k \in j + 1 .. Len(printed)
    <3>1. printed'[k] = printed[k] BY <1>2, <2>3, LineShape
    <3> QED BY <1>1, <2>3, <3>1 DEF NoResultAfter
  <2> QED BY <1>2, <2>1, <2>2, <2>3, LineShape
<1> QED BY <1>1, <1>3, <1>4 DEF ResultOf, NoResultAfter

\* Details go with the last result before them.
LEMMA DetailsAdded ==
  ASSUME TypeOK, Together, NEW l, Line(l),
         l.kind = "details" => ResultOf(l.of, Len(printed))
  PROVE  (\A i \in DOMAIN printed : printed[i].kind = "details" => ResultOf(printed[i].of, i - 1))'
<1> SUFFICES ASSUME NEW i \in DOMAIN printed', printed'[i].kind = "details"
             PROVE  ResultOf(printed[i].of, i - 1)'
  OBVIOUS
<1>1. CASE i \in 1 .. Len(printed)
  <2>1. printed'[i] = printed[i] /\ i \in DOMAIN printed BY <1>1, LineShape
  <2>2. i - 1 \in 0 .. Len(printed) BY <1>1, LineShape
  <2>3. ResultOf(printed[i].of, i - 1) BY <2>1 DEF Together
  <2>4. PICK p : p = printed[i].of OBVIOUS
  <2>5. PICK n \in 0 .. Len(printed) : n = i - 1 BY <2>2
  <2>6. ResultOf(p, n)' BY <2>3, <2>4, <2>5, ResultStays
  <2> QED BY <2>1, <2>4, <2>5, <2>6
<1>2. CASE i = Len(printed) + 1
  <2>1. printed'[i] = l /\ i - 1 = Len(printed) /\ Len(printed) \in 0 .. Len(printed)
    BY <1>2, LineShape
  <2>2. PICK n \in 0 .. Len(printed) : n = Len(printed) BY <2>1
  <2>3. ResultOf(l.of, n) BY <2>1, <2>2
  <2>4. ResultOf(l.of, n)' BY <2>3, ResultStays
  <2> QED BY <2>1, <2>2, <2>4
<1> QED BY <1>1, <1>2, LineShape

LEMMA LockMoved ==
  ASSUME TypeOK, Together, NEW w \in Workers, NEW from, NEW to \in Locations, Step(w, from, to),
         from \in LockedAt => mu' = Nothing,
         to \in LockedAt => mu = Nothing /\ mu' = w,
         from \notin LockedAt /\ to \notin LockedAt => mu' = mu,
         ~(from \in LockedAt /\ to \in LockedAt)
  PROVE  (\A v \in Workers : at[v] \in LockedAt <=> mu = v)'
<1>1. at[w] = from /\ at'[w] = to /\ \A v \in Workers \ {w} : at'[v] = at[v]
  BY StepTypes
<1>2. \A v \in Workers : v # Nothing BY NothingAssumption
<1> QED BY <1>1, <1>2 DEF Together

\* A step that leaves mu alone, and prints nothing or a status or error line.
LEMMA TogetherKept ==
  ASSUME TypeOK, Together, mu' = mu,
         \A w \in Workers : mu = w => system'[w] = system[w],
         (\A w \in Workers : at[w] \in LockedAt <=> mu = w)',
         \/ printed' = printed
         \/ \E l : Line(l) /\ l.kind \notin {"result", "details"}
  PROVE  Together'
<1>1. CASE printed' = printed
  <2>1. \A p, n : ResultOf(p, n)' <=> ResultOf(p, n)
    BY <1>1 DEF ResultOf, NoResultAfter, ResultLines
  <2>2. \A w \in Workers : mu' = w => ResultOf(system[w], Len(printed))'
    <3>1. TAKE w \in Workers
    <3>2. HAVE mu' = w
    <3>3. ResultOf(system[w], Len(printed)) BY <3>2 DEF Together
    <3>4. PICK p, n : p = system[w] /\ n = Len(printed) OBVIOUS
    <3>5. ResultOf(p, n)' BY <2>1, <3>3, <3>4
    <3> QED BY <1>1, <3>2, <3>4, <3>5
  <2>3. \A i \in DOMAIN printed' : printed'[i].kind = "details" => ResultOf(printed[i].of, i - 1)'
    <3>1. TAKE i \in DOMAIN printed'
    <3>2. HAVE printed'[i].kind = "details"
    <3>3. ResultOf(printed[i].of, i - 1) BY <1>1, <3>2 DEF Together
    <3>4. PICK p : p = printed[i].of OBVIOUS
    <3>5. ResultOf(p, i - 1)' BY <2>1, <3>3, <3>4
    <3> QED BY <1>1, <3>4, <3>5
  <2> QED BY <2>2, <2>3 DEF Together
<1>2. ASSUME NEW l, Line(l), l.kind \notin {"result", "details"} PROVE Together'
  <2>1. (\A i \in DOMAIN printed : printed[i].kind = "details" => ResultOf(printed[i].of, i - 1))'
    BY <1>2, DetailsAdded
  <2>2. \A w \in Workers : mu' = w => ResultOf(system[w], Len(printed))'
    <3>1. TAKE w \in Workers
    <3>2. HAVE mu' = w
    <3>3. ResultOf(system[w], Len(printed)) BY <3>2 DEF Together
    <3>4. PICK p : p = system[w] OBVIOUS
    <3>5. ResultOf(p, Len(printed))' BY <1>2, <3>3, <3>4, ResultStaysLast
    <3> QED BY <3>2, <3>4, <3>5
  <2> QED BY <2>1, <2>2 DEF Together
<1> QED BY <1>1, <1>2

LEMMA TogetherHolds == Inv /\ [Next]_vars => Together'
<1> SUFFICES ASSUME Inv, [Next]_vars PROVE Together' OBVIOUS
<1>t. TypeOK /\ Together BY DEF Inv
<1> USE DEF mainVars, chanVars, ctxVars, muVars, vars
<1>n. \A w \in Workers : w # Nothing BY NothingAssumption
<1>1. CASE Interrupt \/ Cancel \/ Send \/ BreakLoop \/ Close \/ UNCHANGED vars
  <2>1. (\A w \in Workers : at[w] \in LockedAt <=> mu = w)'
    BY <1>1, <1>t DEF Interrupt, Cancel, Send, BreakLoop, Close, Together
  <2> QED BY <1>1, <1>t, <2>1, TogetherKept DEF Interrupt, Cancel, Send, BreakLoop, Close
<1>2. CASE Finish
  <2>1. (\A w \in Workers : at[w] \in LockedAt <=> mu = w)'
    BY <1>2, <1>t DEF Finish, Together
  <2>2. \E l : Line(l) /\ l.kind \notin {"result", "details"}
    BY <1>2 DEF Finish, Line
  <2> QED BY <1>2, <1>t, <2>1, <2>2, TogetherKept DEF Finish
\* A step of a worker that does not hold mu and does not take it.
<1>m. ASSUME NEW w \in Workers, NEW from, NEW to \in Locations \ LockedAt, Step(w, from, to),
             from \notin LockedAt, mu' = mu,
             \A v \in Workers \ {w} : system'[v] = system[v],
             \/ printed' = printed
             \/ \E l : Line(l) /\ l.kind \notin {"result", "details"}
      PROVE  Together'
  <2>1. (\A v \in Workers : at[v] \in LockedAt <=> mu = v)'
    BY <1>m, <1>t, LockMoved
  <2>2. mu # w BY <1>m, <1>t DEF Together, Step
  <2> QED BY <1>m, <1>t, <2>1, <2>2, TogetherKept
<1>3. ASSUME NEW w \in Workers, Receive(w) PROVE Together'
  <2>1. \A v \in Workers \ {w} : system'[v] = system[v] BY <1>3, <1>t DEF Receive, TypeOK
  <2> QED BY <1>3, <2>1, <1>m DEF Receive, Locations, PendingAt, LockedAt
<1>4. ASSUME NEW w \in Workers, EndRange(w) PROVE Together'
  BY <1>4, <1>m DEF EndRange, Locations, LockedAt
<1>5. ASSUME NEW w \in Workers, Reject(w) \/ OpenFails(w) PROVE Together'
  <2>1. \E l : Line(l) /\ l.kind \notin {"result", "details"}
    BY <1>5 DEF Reject, OpenFails, Line
  <2> QED BY <1>5, <2>1, <1>m DEF Reject, OpenFails, Locations, LockedAt
<1>6. ASSUME NEW w \in Workers, Start(w) PROVE Together'
  BY <1>6, <1>m DEF Start, Locations, PendingAt, LockedAt
<1>7. ASSUME NEW w \in Workers, ReadStatus(w) PROVE Together'
  BY <1>7, <1>m DEF ReadStatus, Locations, PendingAt, LockedAt
<1>8. ASSUME NEW w \in Workers, PrintStatus(w) PROVE Together'
  <2>1. \E l : Line(l) /\ l.kind \notin {"result", "details"}
    BY <1>8 DEF PrintStatus, Line
  <2> QED BY <1>8, <2>1, <1>m DEF PrintStatus, Locations, PendingAt, LockedAt
<1>9. ASSUME NEW w \in Workers, Verify(w) \/ VerifierEnds(w) \/ Kill(w) PROVE Together'
  <2>1. PICK from \in {"open", "verifying"}, to \in {"failed", "verifying", "completed"} :
          Step(w, from, to)
    BY <1>9 DEF Verify, VerifierEnds, Kill
  <2> QED BY <1>9, <2>1, <1>m DEF Verify, VerifierEnds, Kill, Locations, PendingAt, LockedAt
\* The result is the last line.
<1>10. ASSUME NEW w \in Workers, PrintResult(w) PROVE Together'
  <2>1. PICK l : /\ l = [kind |-> "result", index |-> completedSystems', of |-> system[w]]
                 /\ Line(l)
    BY <1>10 DEF PrintResult, Line
  <2>2. l.kind = "result" /\ l.of = system[w] BY <2>1
  <2>3. PICK from \in {"failed", "completed"}, to \in LockedAt : Step(w, from, to)
    BY <1>10 DEF PrintResult, LockedAt
  <2>4. mu = Nothing /\ mu' = w /\ system' = system BY <1>10 DEF PrintResult
  <2>5. (\A v \in Workers : at[v] \in LockedAt <=> mu = v)'
    BY <1>t, <2>3, <2>4, LockMoved DEF Locations, LockedAt
  <2>6. (\A i \in DOMAIN printed : printed[i].kind = "details" => ResultOf(printed[i].of, i - 1))'
    BY <1>t, <2>1, <2>2, DetailsAdded
  <2>7. ResultOf(system[w], Len(printed))'
    <3>1. PICK j : j = Len(printed) + 1 OBVIOUS
    <3>2. j \in ResultLines' /\ j <= Len(printed') /\ printed'[j].of = system[w]
      BY <1>t, <2>1, <2>2, <3>1, LineShape DEF ResultLines
    <3>3. \A k \in j + 1 .. Len(printed') : FALSE
      BY <1>t, <2>1, <3>1, LineShape
    <3>4. NoResultAfter(j, Len(printed))' BY <3>3 DEF NoResultAfter
    <3> QED BY <2>4, <3>2, <3>4 DEF ResultOf
  <2>8. \A v \in Workers : mu' = v => ResultOf(system[v], Len(printed))'
    BY <2>4, <2>7
  <2> QED BY <2>5, <2>6, <2>8 DEF Together
\* mu is held until the details are printed.
<1>11. ASSUME NEW w \in Workers, PrintDetails(w) PROVE Together'
  <2>1. PICK from \in LockedAt : Step(w, from, "endStatus")
    BY <1>11 DEF PrintDetails, Explain, LockedAt
  <2>2. mu' = Nothing BY <1>11 DEF PrintDetails
  <2>3. (\A v \in Workers : at[v] \in LockedAt <=> mu = v)'
    BY <1>t, <2>1, <2>2, LockMoved DEF Locations, LockedAt
  <2>4. \A v \in Workers : mu' # v BY <1>n, <2>2
  <2>5. ResultOf(system[w], Len(printed)) BY <1>t, <2>1 DEF Together, Step
  <2>6. (\A i \in DOMAIN printed : printed[i].kind = "details" => ResultOf(printed[i].of, i - 1))'
    <3>1. CASE printed' = printed
      <4>1. \A p, n : ResultOf(p, n)' <=> ResultOf(p, n)
        BY <3>1 DEF ResultOf, NoResultAfter, ResultLines
      <4>2. SUFFICES ASSUME NEW i \in DOMAIN printed', printed'[i].kind = "details"
                     PROVE  ResultOf(printed[i].of, i - 1)'
        OBVIOUS
      <4>3. ResultOf(printed[i].of, i - 1) BY <1>t, <3>1, <4>2 DEF Together
      <4>4. PICK p : p = printed[i].of OBVIOUS
      <4>5. ResultOf(p, i - 1)' BY <4>1, <4>3, <4>4
      <4> QED BY <3>1, <4>4, <4>5
    <3>2. CASE Line([kind |-> "details", of |-> system[w]])
      <4>1. PICK l : l = [kind |-> "details", of |-> system[w]] OBVIOUS
      <4>2. Line(l) /\ l.of = system[w] BY <3>2, <4>1
      <4> QED BY <1>t, <2>5, <4>2, DetailsAdded
    <3> QED BY <1>11, <3>1, <3>2 DEF PrintDetails, Explain, Line
  <2> QED BY <2>3, <2>4, <2>6 DEF Together
<1> QED BY <1>1, <1>2, <1>3, <1>4, <1>5, <1>6, <1>7, <1>8, <1>9, <1>10, <1>11
        DEF Next, RunSystem

-----------------------------------------------------------------------------
\* The end.
LEMMA EndsHolds == Inv /\ [Next]_vars => Ends'
<1> SUFFICES ASSUME Inv, [Next]_vars PROVE Ends' OBVIOUS
<1>t. TypeOK /\ Ends BY DEF Inv
<1>c. Cardinality(Workers) \in Nat BY WorkersAssumption, FS_CardinalityType
<1> USE DEF mainVars, chanVars, ctxVars, muVars, vars
<1>1. CASE Interrupt \/ Cancel \/ UNCHANGED vars
  BY <1>1, <1>t DEF Interrupt, Cancel, Ends, TypeOK
<1>2. CASE Send
  <2>1. Systems \in Seq(Paths) BY SystemsAssumption
  <2>2. Systems[sent + 1] \in Paths BY <1>2, <1>t, <2>1 DEF Send, TypeOK
  <2>3. Len(sysChan') = Len(sysChan) + 1 /\ Len(sysChan) \in Nat
    BY <1>2, <1>t, <2>2 DEF Send, TypeOK
  <2>4. Len(sysChan') <= Cardinality(Workers) BY <1>2, <1>c, <2>3 DEF Send
  <2> QED BY <1>2, <1>t, <2>4 DEF Send, Ends
<1>3. CASE BreakLoop BY <1>3, <1>t DEF BreakLoop, Ends
<1>4. CASE Close BY <1>4, <1>t DEF Close, Ends
<1>5. CASE Finish
  <2>1. printed' # <<>> /\ printed'[Len(printed')].kind = "done"
    <3>1. Line([kind |-> "done"]) BY <1>5 DEF Finish, Line
    <3>2. /\ Len(printed') = Len(printed) + 1 /\ Len(printed) \in Nat
          /\ printed'[Len(printed) + 1] = [kind |-> "done"]
      BY <1>t, <3>1, LineShape
    <3> QED BY <3>2
  <2> QED BY <1>5, <1>t, <2>1 DEF Finish, Ends
<1>6. ASSUME NEW w \in Workers, Receive(w) PROVE Ends'
  <2>1. at[w] = "range" /\ at'[w] = "run" /\ \A v \in Workers \ {w} : at'[v] = at[v]
    BY <1>6, <1>t DEF Receive, Step, TypeOK
  <2>2. sysChan # <<>> /\ Len(sysChan') = Len(sysChan) - 1 /\ Len(sysChan) \in Nat
    BY <1>6, <1>t DEF Receive, TypeOK
  <2>3. \A v \in Workers : at'[v] # "ended" BY <1>t, <2>1, <2>2 DEF Ends
  <2>4. mainAt # "done" BY <1>t, <2>1 DEF Ends
  <2>5. Len(sysChan') <= Cardinality(Workers) BY <1>t, <1>c, <2>2 DEF Ends
  <2> QED BY <1>6, <1>t, <2>3, <2>4, <2>5 DEF Receive, Ends
<1>7. ASSUME NEW w \in Workers, EndRange(w) PROVE Ends'
  <2>1. at[w] = "range" /\ at'[w] = "ended" /\ \A v \in Workers \ {w} : at'[v] = at[v]
    BY <1>7, <1>t, StepTypes DEF EndRange, Locations
  <2> QED BY <1>7, <1>t, <2>1 DEF EndRange, Ends
\* The other steps of a worker: it does not end, and had not ended.
<1>8. ASSUME NEW w \in Workers, RunSystem(w) \/ VerifierEnds(w) PROVE Ends'
  <2>1. UNCHANGED <<mainAt, sent, sysChan, sysChanClosed, cancelled>>
    BY <1>8 DEF RunSystem, Reject, Start, ReadStatus, PrintStatus, OpenFails, Verify, Kill,
                PrintResult, PrintDetails, VerifierEnds
  <2>2. \E from, to \in Locations \ {"ended"} : Step(w, from, to)
    BY <1>8 DEF RunSystem, Reject, Start, ReadStatus, PrintStatus, OpenFails, Verify, Kill,
                PrintResult, PrintDetails, Explain, VerifierEnds, Locations, PendingAt, LockedAt
  <2>3. at[w] # "ended" /\ at'[w] # "ended" /\ \A v \in Workers \ {w} : at'[v] = at[v]
    BY <1>t, <2>2, StepTypes
  <2> QED BY <1>t, <2>1, <2>3 DEF Ends
<1> QED BY <1>1, <1>2, <1>3, <1>4, <1>5, <1>6, <1>7, <1>8 DEF Next

-----------------------------------------------------------------------------
\* Inv is an invariant.
THEOREM InvHolds == Spec => []Inv
<1>1. Init => Inv BY InitHolds
<1>2. Inv /\ [Next]_vars => Inv'
  BY TypeHolds, QueueHolds, PlacesHolds, CheckedHolds, NumberedHolds, TogetherHolds, EndsHolds
     DEF Inv
<1> QED BY <1>1, <1>2, PTL DEF Spec

\* Every variable keeps its type.
THEOREM TypesRight == Spec => []TypeOK
BY InvHolds, PTL DEF Inv

LEMMA AtMostOne == ASSUME NEW S, \A x, y \in S : x = y
                   PROVE  /\ IsFiniteSet(S) /\ Cardinality(S) \in {0, 1}
                          /\ S # {} => Cardinality(S) = 1
<1>1. CASE S = {} BY <1>1, FS_EmptySet
<1>2. CASE S # {}
  <2>1. PICK x : S = {x} BY <1>2
  <2> QED BY <1>2, <2>1, FS_Singleton
<1> QED BY <1>1, <1>2

\* Where a system is: in the channel once from when it is sent until it is taken, with one
\* worker or among the results afterwards.
Queued(p) == {i \in DOMAIN sysChan : sysChan[i] = p}
With(p) == {w \in Pending : system[w] = p}
Shown(p) == {i \in ResultLines : printed[i].of = p}

LEMMA QueuedOnce == ASSUME TypeOK, Queue, NEW i \in 1 .. Len(Systems)
                    PROVE  /\ Cardinality(Queued(Systems[i])) \in {0, 1}
                           /\ Queued(Systems[i]) # {} <=> i > TakenCount /\ i <= sent
                           /\ Queued(Systems[i]) # {} => Cardinality(Queued(Systems[i])) = 1
<1>1. Systems \in Seq(Paths) /\ sysChan \in Seq(Paths) /\ sent \in 0 .. Len(Systems)
  BY SystemsAssumption DEF TypeOK
<1>2. Len(sysChan) \in Nat /\ TakenCount \in 0 .. Len(Systems) /\ sent = TakenCount + Len(sysChan)
  BY <1>1, TakenAreArguments DEF TakenCount
<1>3. \A k \in 1 .. Len(sysChan) : TakenCount + k \in 1 .. Len(Systems)
  BY <1>1, <1>2
<1>4. \A k : k \in Queued(Systems[i]) <=> k \in 1 .. Len(sysChan) /\ TakenCount + k = i
  <2>1. \A k : k \in Queued(Systems[i]) <=> k \in 1 .. Len(sysChan) /\ sysChan[k] = Systems[i]
    BY <1>1 DEF Queued
  <2>2. \A k \in 1 .. Len(sysChan) : sysChan[k] = Systems[TakenCount + k]
    BY DEF Queue
  <2>3. \A k \in 1 .. Len(sysChan) : Systems[TakenCount + k] = Systems[i] <=> TakenCount + k = i
    BY <1>3, ArgumentsDistinct
  <2> QED BY <2>1, <2>2, <2>3
<1>5. \A k, l \in Queued(Systems[i]) : k = l BY <1>2, <1>4
<1>6. Queued(Systems[i]) # {} <=> i > TakenCount /\ i <= sent
  <2>1. ASSUME i > TakenCount, i <= sent PROVE i - TakenCount \in Queued(Systems[i])
    BY <1>2, <1>4, <2>1
  <2>2. ASSUME NEW k \in Queued(Systems[i]) PROVE i > TakenCount /\ i <= sent
    BY <1>2, <1>4, <2>2
  <2> QED BY <2>1, <2>2
<1> QED BY <1>5, <1>6, AtMostOne

LEMMA PendingIs == ASSUME TypeOK PROVE \A w : w \in Pending <=> w \in Workers /\ IsPending(w)
<1>1. \A w \in Workers : at[w] \in Locations BY DEF TypeOK
<1> QED BY <1>1 DEF Pending, Active, IsPending, PendingAt, LockedAt, Locations

LEMMA ShownOrWithOne ==
  ASSUME TypeOK, Places, NEW p
  PROVE  /\ Cardinality(With(p)) \in {0, 1} /\ Cardinality(Shown(p)) \in {0, 1}
         /\ With(p) # {} => Cardinality(With(p)) = 1
         /\ Shown(p) # {} => Cardinality(Shown(p)) = 1
         /\ With(p) = {} \/ Shown(p) = {}
         /\ p \notin Taken => With(p) = {} /\ Shown(p) = {}
         /\ p \in Taken \cap Runnable => With(p) # {} \/ Shown(p) # {}
<1>1. \A w : w \in With(p) <=> w \in Workers /\ IsPending(w) /\ system[w] = p
  BY PendingIs DEF With
<1>2. \A i : i \in Shown(p) <=> i \in Nat /\ IsResult(i) /\ printed[i].of = p
  BY LinesFinite DEF Shown
<1>3. \A v, w \in With(p) : v = w BY <1>1 DEF Places
<1>4. \A i, j \in Shown(p) : i = j BY <1>2 DEF Places
<1>5. With(p) = {} \/ Shown(p) = {} BY <1>1, <1>2 DEF Places
<1>6. p \notin Taken => With(p) = {} /\ Shown(p) = {}
  BY <1>1, <1>2 DEF Places, IsPending
<1>7. p \in Taken \cap Runnable => With(p) # {} \/ Shown(p) # {}
  BY <1>1, <1>2 DEF Places
<1> QED BY <1>3, <1>4, <1>5, <1>6, <1>7, AtMostOne

\* Every system sent is in one place, and the results are numbered in order.
LEMMA InvNoneLost == Inv => NoneLost
<1> SUFFICES ASSUME Inv PROVE NoneLost OBVIOUS
<1>1. TypeOK /\ Queue /\ Places /\ Numbered BY DEF Inv
<1>2. DOMAIN Systems = 1 .. Len(Systems) BY SystemsAssumption
<1>3. ASSUME NEW i \in 1 .. Len(Systems)
      PROVE  /\ Copies(Systems[i]) <= (IF i <= sent THEN 1 ELSE 0)
             /\ i <= sent /\ Systems[i] \in Runnable => Copies(Systems[i]) = 1
  <2>1. PICK p : p = Systems[i] OBVIOUS
  <2>2. Copies(p) = Cardinality(Queued(p)) + Cardinality(With(p)) + Cardinality(Shown(p))
    BY DEF Copies, Queued, With, Shown
  <2>3. sent \in Nat /\ TakenCount \in Nat /\ TakenCount <= sent
    BY <1>1, SystemsAssumption DEF TypeOK, TakenCount, Queue
  <2>4. p \in Taken <=> i <= TakenCount
    <3>1. ASSUME NEW k \in 1 .. TakenCount, Systems[k] = Systems[i] PROVE i <= TakenCount
      <4>1. k \in 1 .. Len(Systems) BY <1>1, TakenAreArguments
      <4> QED BY <3>1, <4>1, ArgumentsDistinct
    <3> QED BY <2>1, <2>3, <3>1 DEF Taken
  <2>5. /\ Cardinality(Queued(p)) \in {0, 1}
        /\ Queued(p) # {} <=> i > TakenCount /\ i <= sent
        /\ Queued(p) # {} => Cardinality(Queued(p)) = 1
    BY <1>1, <2>1, QueuedOnce
  <2>6. /\ Cardinality(With(p)) \in {0, 1} /\ Cardinality(Shown(p)) \in {0, 1}
        /\ With(p) # {} => Cardinality(With(p)) = 1
        /\ Shown(p) # {} => Cardinality(Shown(p)) = 1
        /\ With(p) = {} \/ Shown(p) = {}
        /\ p \notin Taken => With(p) = {} /\ Shown(p) = {}
        /\ p \in Taken \cap Runnable => With(p) # {} \/ Shown(p) # {}
    BY <1>1, ShownOrWithOne
  <2>7. /\ Queued(p) = {} => Cardinality(Queued(p)) = 0
        /\ With(p) = {} => Cardinality(With(p)) = 0
        /\ Shown(p) = {} => Cardinality(Shown(p)) = 0
    BY FS_EmptySet
  <2>8. Copies(p) <= (IF i <= sent THEN 1 ELSE 0)
    <3>1. CASE i <= TakenCount
      <4>1. Cardinality(Queued(p)) = 0 BY <2>3, <2>5, <2>7, <3>1
      <4>2. Cardinality(With(p)) + Cardinality(Shown(p)) <= 1 BY <2>6, <2>7
      <4>3. i <= sent BY <2>3, <3>1
      <4> QED BY <2>2, <2>6, <4>1, <4>2, <4>3
    <3>2. CASE i > TakenCount
      <4>1. Cardinality(With(p)) = 0 /\ Cardinality(Shown(p)) = 0 BY <2>3, <2>4, <2>6, <2>7, <3>2
      <4>2. Copies(p) = Cardinality(Queued(p)) BY <2>2, <2>5, <4>1
      <4>3. CASE i <= sent BY <2>5, <4>2, <4>3
      <4>4. CASE ~(i <= sent) BY <2>5, <2>7, <4>2, <4>4
      <4> QED BY <4>3, <4>4
    <3> QED BY <2>3, <3>1, <3>2
  <2>9. ASSUME i <= sent, p \in Runnable PROVE Copies(p) = 1
    <3>1. CASE i <= TakenCount
      <4>1. Cardinality(Queued(p)) = 0 BY <2>3, <2>5, <2>7, <3>1
      <4>2. Cardinality(With(p)) + Cardinality(Shown(p)) = 1 BY <2>4, <2>6, <2>7, <2>9, <3>1
      <4> QED BY <2>2, <2>6, <4>1, <4>2
    <3>2. CASE i > TakenCount
      <4>1. Cardinality(With(p)) = 0 /\ Cardinality(Shown(p)) = 0 BY <2>3, <2>4, <2>6, <2>7, <3>2
      <4>2. Cardinality(Queued(p)) = 1 BY <2>5, <2>9, <3>2
      <4> QED BY <2>2, <4>1, <4>2
    <3> QED BY <2>3, <3>1, <3>2
  <2> QED BY <2>1, <2>8, <2>9
<1>4. \A i \in ResultLines : printed[i].index = Cardinality({j \in ResultLines : j <= i})
  BY <1>1 DEF Numbered, ResultsTo
<1> QED BY <1>2, <1>3, <1>4 DEF NoneLost

\* No system is lost and none is run twice, whatever the number of workers and systems and
\* whenever the interrupt comes; the results are numbered in the order they are printed.
THEOREM NoSystemLost == Spec => []NoneLost
BY InvHolds, InvNoneLost, PTL

\* mu keeps each result next to its details.
THEOREM ResultsStayTogether == Spec => []ResultsTogether
<1>1. Inv => ResultsTogether
  <2> SUFFICES ASSUME Inv, NEW i \in DOMAIN printed, printed[i].kind = "details"
               PROVE  \E j \in ResultLines :
                        /\ j < i /\ printed[j].of = printed[i].of
                        /\ \A k \in j + 1 .. i - 1 : printed[k].kind \notin {"result", "details"}
    BY DEF ResultsTogether
  <2>1. TypeOK /\ ResultOf(printed[i].of, i - 1) BY DEF Inv, Together
  <2>2. \A j \in ResultLines : j \in Nat BY <2>1, LinesFinite
  <2>3. i \in Nat BY <2>1 DEF TypeOK
  <2> QED BY <2>1, <2>2, <2>3 DEF ResultOf, NoResultAfter
<1> QED BY <1>1, InvHolds, PTL

\* When "done" is printed nothing is left to do, and an uninterrupted run has all the results.
LEMMA InvDone == Inv => DoneMeansDone
<1> SUFFICES ASSUME Inv, mainAt = "done"
             PROVE  /\ Last(printed).kind = "done"
                    /\ sysChan = <<>> /\ Active = {}
                    /\ ~cancelled => {printed[i].of : i \in ResultLines} = Runnable
  BY DEF DoneMeansDone
<1>1. TypeOK /\ Queue /\ Places /\ Ends BY DEF Inv
<1>2. Last(printed).kind = "done" BY <1>1 DEF Ends, Last
<1>3. \A w \in Workers : at[w] = "ended" BY <1>1 DEF Ends
<1>4. Active = {} BY <1>3 DEF Active
<1>5. sysChan = <<>>
  <2>1. CASE Workers = {}
    <3>1. Len(sysChan) <= 0 BY <1>1, <2>1, FS_EmptySet DEF Ends
    <3> QED BY <1>1, <3>1 DEF TypeOK
  <2>2. CASE Workers # {} BY <1>1, <1>3, <2>2 DEF Ends
  <2> QED BY <2>1, <2>2
<1>6. ASSUME ~cancelled PROVE {printed[i].of : i \in ResultLines} = Runnable
  <2>1. Systems \in Seq(Paths) BY SystemsAssumption
  <2>2. sent = Len(Systems) BY <1>1, <1>6 DEF Ends
  <2>3. TakenCount = Len(Systems)
    <3>1. Len(sysChan) = 0 BY <1>5
    <3> QED BY <2>1, <2>2, <3>1 DEF TakenCount
  <2>4. Taken = Paths
    <3>1. DOMAIN Systems = 1 .. TakenCount BY <2>1, <2>3
    <3> QED BY <3>1 DEF Taken, Paths, Range
  <2>5. \A w \in Workers : ~IsPending(w) BY <1>3 DEF IsPending, PendingAt
  <2>6. \A i : i \in ResultLines <=> i \in Nat /\ IsResult(i) BY <1>1, LinesFinite
  <2>7. Runnable \subseteq Paths BY DEF Runnable
  <2> QED BY <1>1, <2>4, <2>5, <2>6, <2>7 DEF Places
<1> QED BY <1>2, <1>4, <1>5, <1>6

\* When the program prints that it is done, nothing runs any more and every system that can
\* run has its result, unless there was an interrupt.
THEOREM DoneIsDone == Spec => []DoneMeansDone
BY InvHolds, InvDone, PTL
=============================================================================
