------------------------------ MODULE Channels ------------------------------
(***************************************************************************)
(* The network of timed automata the translator generates for Go channels: *)
(* one Channel automaton per handle (translator/channel.go) and the edges  *)
(* every function process gets for make, send, receive, close, select and  *)
(* range (translator/channel_stmts.go, translator/branch_stmts.go).        *)
(*                                                                         *)
(* The semantics is Uppaal's: while some process is in a committed         *)
(* location, only edges that leave a committed location may fire (Quiet).  *)
(***************************************************************************)
EXTENDS Integers, Sequences, FiniteSets

CONSTANTS
    Procs,        \* the function process instances
    ChanCount,    \* t.channelCount(), the length of chan_counter and chan_buffer
    BufferSizes,  \* the buffer sizes a make statement may ask for
    Menus,        \* the case lists the select statements have
    MaxStmts      \* bound: channel statements one process starts

ASSUME ConstantsAssumption ==
    /\ IsFiniteSet(Procs)
    /\ ChanCount \in Nat \ {0}
    /\ BufferSizes \subseteq Nat
    /\ MaxStmts \in Nat

Chans == 0 .. ChanCount - 1
Cases == [op : {"send", "receive"}, ch : Chans]

ASSUME MenusAssumption == Menus \subseteq Seq(Cases) \ {<<>>}

VARIABLES
    chanCount,      \* chan_count
    outOfResources, \* out_of_resources
    counter,        \* chan_counter[c]: buffered + blocked senders - blocked receivers
    buffer,         \* chan_buffer[c]: the capacity, -1 once closed
    automaton,      \* the location of the Channel automaton of handle c
    loc,            \* the location of process p
    kind,           \* the statement p executes
    cases,          \* its channel operations (op_chan, select_chan<i>, range_chan<i>) until it is done
    armed,          \* the indices of cases whose confirmation p can receive
    ok,             \* the variable ok of a range loop
    outcome,        \* the location p left its last statement to
    stmts           \* how many statements p started

chanVars == <<chanCount, outOfResources, counter, buffer, automaton>>
procVars == <<loc, kind, cases, armed, ok, outcome, stmts>>
vars == <<chanVars, procVars>>

\* The outcomes of a statement: i > 0 is "case i entered" (a plain operation is case 1).
DefaultEnter == 0
RangeBody == -1
RangeExit == -2
NoOutcome == -3

CommittedChannel == {"new_sender", "confirming_a", "new_receiver", "confirming_b",
                     "closing", "confirming_closed"}
CommittedProcess == {"select_pass_1", "range_received"}

\* No process is in a committed location.
Quiet == /\ \A c \in Chans : automaton[c] \notin CommittedChannel
         /\ \A p \in Procs : loc[p] \notin CommittedProcess

Made == {c \in Chans : c < chanCount}

Init ==
    /\ chanCount = 0
    /\ outOfResources = FALSE
    /\ counter = [c \in Chans |-> 0]
    /\ buffer = [c \in Chans |-> 0]
    /\ automaton = [c \in Chans |-> "idle"]
    /\ loc = [p \in Procs |-> "running"]
    /\ kind = [p \in Procs |-> "op"]
    /\ cases = [p \in Procs |-> <<>>]
    /\ armed = [p \in Procs |-> {}]
    /\ ok = [p \in Procs |-> FALSE]
    /\ outcome = [p \in Procs |-> NoOutcome]
    /\ stmts = [p \in Procs |-> 0]

Goto(c, from, to) == /\ automaton[c] = from
                     /\ automaton' = [automaton EXCEPT ![c] = to]

\* What the forward update of a case list, without case i, adds to chan_counter[c].
Forward(menu, i, c) ==
    Cardinality({j \in DOMAIN menu \ {i} : menu[j] = [op |-> "send", ch |-> c]})
      - Cardinality({j \in DOMAIN menu \ {i} : menu[j] = [op |-> "receive", ch |-> c]})

-----------------------------------------------------------------------------
\* make_chan(n): past the bound it hands out handle 0 and raises the flag.
MakeChan(p, n) ==
    /\ Quiet
    /\ loc[p] = "running"
    /\ chanCount <= ChanCount
    /\ chanCount' = chanCount + 1
    /\ IF chanCount >= ChanCount
       THEN outOfResources' = TRUE /\ UNCHANGED <<counter, buffer>>
       ELSE /\ counter' = [counter EXCEPT ![chanCount] = 0]
            /\ buffer' = [buffer EXCEPT ![chanCount] = n]
            /\ UNCHANGED outOfResources
    /\ UNCHANGED <<automaton, procVars>>

\* The bookkeeping of a process that starts statement k with case list menu.
Start(p, k, menu) ==
    /\ Quiet
    /\ loc[p] = "running"
    /\ stmts[p] < MaxStmts
    /\ stmts' = [stmts EXCEPT ![p] = @ + 1]
    /\ kind' = [kind EXCEPT ![p] = k]
    /\ cases' = [cases EXCEPT ![p] = menu]
    /\ outcome' = [outcome EXCEPT ![p] = NoOutcome]

\* The Channel automaton's answer to sender_trigger[c]? and receiver_trigger[c]?.
Triggered(c, op) ==
    \/ op = "send" /\ Goto(c, "idle", "new_sender")
    \/ op = "send" /\ Goto(c, "closed", "bad")
    \/ op = "receive" /\ Goto(c, "idle", "new_receiver")
    \/ op = "receive" /\ Goto(c, "closed", "confirming_closed")

Delta(op) == IF op = "send" THEN 1 ELSE -1

\* Send and receive statements: trigger and count, then wait for the confirmation.
SendOrReceive(p, op, c) ==
    /\ Start(p, "op", <<[op |-> op, ch |-> c]>>)
    /\ Triggered(c, op)
    /\ counter' = [counter EXCEPT ![c] = @ + Delta(op)]
    /\ loc' = [loc EXCEPT ![p] = "waiting"]
    /\ armed' = [armed EXCEPT ![p] = {1}]
    /\ UNCHANGED <<chanCount, outOfResources, buffer, ok>>

\* Mutant of RangeReceive: the test of the counter is off by one.
RangeReceiveStrict(p, c) ==
    /\ Start(p, "range", <<[op |-> "receive", ch |-> c]>>)
    /\ Triggered(c, "receive")
    /\ counter' = [counter EXCEPT ![c] = @ - 1]
    /\ ok' = [ok EXCEPT ![p] = counter'[c] > 0]
    /\ loc' = [loc EXCEPT ![p] = "waiting"]
    /\ armed' = [armed EXCEPT ![p] = {1}]
    /\ UNCHANGED <<chanCount, outOfResources, buffer>>

\* One receive of a range loop; ok records whether the counter promised a value.
RangeReceive(p, c) ==
    /\ Start(p, "range", <<[op |-> "receive", ch |-> c]>>)
    /\ Triggered(c, "receive")
    /\ counter' = [counter EXCEPT ![c] = @ - 1]
    /\ ok' = [ok EXCEPT ![p] = counter'[c] >= 0]
    /\ loc' = [loc EXCEPT ![p] = "waiting"]
    /\ armed' = [armed EXCEPT ![p] = {1}]
    /\ UNCHANGED <<chanCount, outOfResources, buffer>>

\* The committed choice between the body and the exit of a range loop.
RangeDecide(p) ==
    LET c == cases[p][1].ch IN
    /\ loc[p] = "range_received"
    /\ outcome' = [outcome EXCEPT ![p] =
                     IF buffer[c] >= 0 \/ ok[p] THEN RangeBody ELSE RangeExit]
    /\ loc' = [loc EXCEPT ![p] = "running"]
    /\ cases' = [cases EXCEPT ![p] = <<>>]
    /\ ok' = [ok EXCEPT ![p] = FALSE]
    /\ UNCHANGED <<chanVars, kind, armed, stmts>>

\* Mutant of CloseChan: a full buffer counts as a blocked sender.
CloseChanOffByOne(p, c) ==
    /\ Start(p, "op", <<>>)
    /\ \/ /\ counter[c] < buffer[c] /\ Goto(c, "idle", "closing")
          /\ buffer' = [buffer EXCEPT ![c] = -1]
       \/ /\ counter[c] >= buffer[c] /\ Goto(c, "idle", "bad")
          /\ buffer' = [buffer EXCEPT ![c] = -1]
       \/ Goto(c, "closed", "bad") /\ UNCHANGED buffer
    /\ UNCHANGED <<chanCount, outOfResources, counter, loc, armed, ok>>

\* close(c): the close statement does not wait for a confirmation.
CloseChan(p, c) ==
    /\ Start(p, "op", <<>>)
    /\ \/ /\ counter[c] <= buffer[c] /\ Goto(c, "idle", "closing")
          /\ buffer' = [buffer EXCEPT ![c] = -1]
       \/ /\ counter[c] > buffer[c] /\ Goto(c, "idle", "bad")
          /\ buffer' = [buffer EXCEPT ![c] = -1]
       \/ Goto(c, "closed", "bad") /\ UNCHANGED buffer
    /\ UNCHANGED <<chanCount, outOfResources, counter, loc, armed, ok>>

\* Entering select pass 1 updates the counters of all cases at once.
EnterSelect(p, menu, k) ==
    /\ Start(p, k, menu)
    /\ counter' = [c \in Chans |-> counter[c] + Forward(menu, 0, c)]
    /\ loc' = [loc EXCEPT ![p] = "select_pass_1"]
    /\ UNCHANGED <<chanCount, outOfResources, buffer, automaton, armed, ok>>

Possible(k) ==
    \/ buffer[k.ch] < 0
    \/ k.op = "send" /\ counter[k.ch] <= buffer[k.ch]
    \/ k.op = "receive" /\ counter[k.ch] >= 0

\* Pass 1 polls the cases and triggers one that is possible.
SelectTrigger(p, i) ==
    /\ loc[p] = "select_pass_1"
    /\ Possible(cases[p][i])
    /\ Triggered(cases[p][i].ch, cases[p][i].op)
    /\ loc' = [loc EXCEPT ![p] = "waiting"]
    /\ armed' = [armed EXCEPT ![p] = {i}]
    /\ UNCHANGED <<chanCount, outOfResources, counter, buffer, kind, cases, ok, outcome, stmts>>

NonePossible(p) == \A i \in DOMAIN cases[p] : ~Possible(cases[p][i])

\* No case is possible: the default is entered and every counter reverted ...
SelectDefault(p) ==
    /\ loc[p] = "select_pass_1"
    /\ kind[p] = "select_default"
    /\ NonePossible(p)
    /\ counter' = [c \in Chans |-> counter[c] - Forward(cases[p], 0, c)]
    /\ loc' = [loc EXCEPT ![p] = "running"]
    /\ outcome' = [outcome EXCEPT ![p] = DefaultEnter]
    /\ cases' = [cases EXCEPT ![p] = <<>>]
    /\ UNCHANGED <<chanCount, outOfResources, buffer, automaton, kind, armed, ok, stmts>>

\* ... or, without a default, pass 2 waits for the confirmation of any case.
SelectBlock(p) ==
    /\ loc[p] = "select_pass_1"
    /\ kind[p] = "select"
    /\ NonePossible(p)
    /\ loc' = [loc EXCEPT ![p] = "waiting"]
    /\ armed' = [armed EXCEPT ![p] = DOMAIN cases[p]]
    /\ UNCHANGED <<chanVars, kind, cases, ok, outcome, stmts>>

-----------------------------------------------------------------------------
\* Process p can receive the confirmation of operation op on c as its case i.
Awaits(p, i, op, c) ==
    /\ loc[p] = "waiting"
    /\ i \in armed[p]
    /\ cases[p][i] = [op |-> op, ch |-> c]

\* Mutant of Confirm: a select leaves the counters of its other cases as they are.
ConfirmWithoutRevert(op, c, ctr) ==
    \E p \in Procs : \E i \in armed[p] :
      /\ Awaits(p, i, op, c)
      /\ counter' = ctr
      /\ armed' = [armed EXCEPT ![p] = {}]
      /\ IF kind[p] = "range"
         THEN loc' = [loc EXCEPT ![p] = "range_received"] /\ UNCHANGED <<cases, outcome>>
         ELSE /\ loc' = [loc EXCEPT ![p] = "running"]
              /\ cases' = [cases EXCEPT ![p] = <<>>]
              /\ outcome' = [outcome EXCEPT ![p] = i]
      /\ UNCHANGED <<chanCount, outOfResources, kind, ok, stmts>>

\* The receiving side of sender_confirm[c] and receiver_confirm[c]; ctr is chan_counter
\* after the automaton's own update. A select reverts the counters of its other cases.
Confirm(op, c, ctr) ==
    \E p \in Procs : \E i \in armed[p] :
      /\ Awaits(p, i, op, c)
      /\ counter' = [d \in Chans |-> ctr[d] - Forward(cases[p], i, d)]
      /\ armed' = [armed EXCEPT ![p] = {}]
      /\ IF kind[p] = "range"
         THEN loc' = [loc EXCEPT ![p] = "range_received"] /\ UNCHANGED <<cases, outcome>>
         ELSE /\ loc' = [loc EXCEPT ![p] = "running"]
              /\ cases' = [cases EXCEPT ![p] = <<>>]
              /\ outcome' = [outcome EXCEPT ![p] = i]
      /\ UNCHANGED <<chanCount, outOfResources, kind, ok, stmts>>

\* The committed edges of the Channel automaton while the channel is open.
NewSenderBlocks(c) == /\ counter[c] > buffer[c] /\ Goto(c, "new_sender", "idle")
                      /\ UNCHANGED <<chanCount, outOfResources, counter, buffer, procVars>>
NewSenderConfirmed(c) == /\ counter[c] <= buffer[c] /\ Goto(c, "new_sender", "confirming_a")
                         /\ Confirm("send", c, counter) /\ UNCHANGED buffer
SentToBuffer(c) == /\ counter[c] > 0 /\ Goto(c, "confirming_a", "idle")
                   /\ UNCHANGED <<chanCount, outOfResources, counter, buffer, procVars>>
SentToReceiver(c) == /\ counter[c] <= 0 /\ Goto(c, "confirming_a", "idle")
                     /\ Confirm("receive", c, counter) /\ UNCHANGED buffer
NewReceiverBlocks(c) == /\ counter[c] < 0 /\ Goto(c, "new_receiver", "idle")
                        /\ UNCHANGED <<chanCount, outOfResources, counter, buffer, procVars>>
NewReceiverConfirmed(c) == /\ counter[c] >= 0 /\ Goto(c, "new_receiver", "confirming_b")
                           /\ Confirm("receive", c, counter) /\ UNCHANGED buffer
ReceivedFromBuffer(c) == /\ counter[c] < buffer[c] /\ Goto(c, "confirming_b", "idle")
                         /\ UNCHANGED <<chanCount, outOfResources, counter, buffer, procVars>>
ReceivedAndRefilled(c) == /\ counter[c] >= buffer[c] /\ Goto(c, "confirming_b", "idle")
                          /\ Confirm("send", c, counter) /\ UNCHANGED buffer

\* Closing releases the blocked receivers one by one; a closed channel answers receives.
ReleaseReceiver(c) == /\ counter[c] < 0 /\ Goto(c, "closing", "closing")
                      /\ Confirm("receive", c, [counter EXCEPT ![c] = @ + 1])
                      /\ UNCHANGED buffer
FinishClosing(c) == /\ counter[c] >= 0 /\ Goto(c, "closing", "closed")
                    /\ UNCHANGED <<chanCount, outOfResources, counter, buffer, procVars>>
ReceiveFromClosed(c) ==
    /\ Goto(c, "confirming_closed", "closed")
    /\ Confirm("receive", c, [counter EXCEPT ![c] = IF @ >= 0 THEN @ ELSE 0])
    /\ UNCHANGED buffer

ChannelStep(c) ==
    \/ NewSenderBlocks(c) \/ NewSenderConfirmed(c) \/ SentToBuffer(c) \/ SentToReceiver(c)
    \/ NewReceiverBlocks(c) \/ NewReceiverConfirmed(c)
    \/ ReceivedFromBuffer(c) \/ ReceivedAndRefilled(c)
    \/ ReleaseReceiver(c) \/ FinishClosing(c) \/ ReceiveFromClosed(c)

ProcessStep(p) ==
    \/ \E n \in BufferSizes : MakeChan(p, n)
    \/ \E c \in Made : \/ \E op \in {"send", "receive"} : SendOrReceive(p, op, c)
                       \/ RangeReceive(p, c)
                       \/ CloseChan(p, c)
    \/ \E menu \in Menus, k \in {"select", "select_default"} :
         /\ \A i \in DOMAIN menu : menu[i].ch \in Made
         /\ EnterSelect(p, menu, k)
    \/ \E i \in DOMAIN cases[p] : SelectTrigger(p, i)
    \/ SelectDefault(p)
    \/ SelectBlock(p)
    \/ RangeDecide(p)

Next == \/ \E p \in Procs : ProcessStep(p)
        \/ \E c \in Chans : ChannelStep(c)

Spec == Init /\ [][Next]_vars

-----------------------------------------------------------------------------
Blocked(op, c) == {p \in Procs : \E i \in armed[p] : Awaits(p, i, op, c)}
Buffered(c) == counter[c] - Cardinality(Blocked("send", c)) + Cardinality(Blocked("receive", c))

\* The channel safety query has its counterexample: the Go program panics here, and
\* what the network does afterwards concerns nobody.
Panicked == \E c \in Chans : automaton[c] = "bad"

\* Between macro steps the counter of an open channel is the number of buffered messages
\* plus blocked senders minus blocked receivers, the buffered messages fit the capacity,
\* and nobody is blocked who could go on: a sender only when the buffer is full and no
\* receiver waits, a receiver only when it is empty (no lost wake-up).
NoLostWakeup ==
    Quiet /\ ~Panicked => \A c \in Chans : automaton[c] = "idle" =>
      /\ Buffered(c) \in 0 .. buffer[c]
      /\ Blocked("send", c) # {} => Buffered(c) = buffer[c]
      /\ Blocked("receive", c) # {} => Buffered(c) = 0
      /\ Blocked("send", c) = {} \/ Blocked("receive", c) = {}

\* No operation gets stuck half-way, where all other processes would have to wait: every
\* committed automaton has an edge whose guard holds, with a process to synchronise with,
\* and a select has a case to trigger if one is possible.
CommittedCanMove ==
    ~Panicked =>
      /\ \A c \in Chans :
           /\ automaton[c] = "new_sender" => counter[c] > buffer[c] \/ Blocked("send", c) # {}
           /\ automaton[c] = "confirming_a" => counter[c] > 0 \/ Blocked("receive", c) # {}
           /\ automaton[c] = "new_receiver" => counter[c] < 0 \/ Blocked("receive", c) # {}
           /\ automaton[c] = "confirming_b" => counter[c] < buffer[c] \/ Blocked("send", c) # {}
           /\ automaton[c] = "closing" => counter[c] >= 0 \/ Blocked("receive", c) # {}
           /\ automaton[c] = "confirming_closed" => Blocked("receive", c) # {}
      /\ \A p \in Procs : loc[p] = "select_pass_1" =>
           NonePossible(p) \/ \E i \in DOMAIN cases[p] :
             Possible(cases[p][i]) /\ automaton[cases[p][i].ch] \in {"idle", "closed"}

\* Closing an open channel is judged as Go judges it: it panics (location bad) exactly
\* when a sender is blocked on the channel.
CloseVerdict ==
    [][~Panicked => \A c \in Chans : automaton[c] = "idle" =>
         /\ automaton'[c] = "bad" => Blocked("send", c) # {}
         /\ automaton'[c] = "closing" => Blocked("send", c) = {}]_vars
=============================================================================
