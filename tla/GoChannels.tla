----------------------------- MODULE GoChannels -----------------------------
(***************************************************************************)
(* What the translated network promises: the channel operations of the Go  *)
(* language as single atomic steps. A message is only counted, because the *)
(* translation carries no values over channels.                            *)
(***************************************************************************)
EXTENDS Integers, Sequences

CONSTANTS Procs, Chans, BufferSizes, Menus, MaxStmts

VARIABLES
    cap,      \* the capacity of an open channel, Closed or NotMade
    len,      \* messages in the buffer
    blocked,  \* the cases a blocked process offers, <<>> while it runs
    ranging,  \* the processes blocked in a range loop
    outcome,  \* how the last statement of a process ended
    stmts,    \* statements started
    panicked  \* a send on or close of a closed channel, or a close under a sender

vars == <<cap, len, blocked, ranging, outcome, stmts, panicked>>

Closed == -1
NotMade == -2
Made == {c \in Chans : cap[c] # NotMade}

DefaultEnter == 0
RangeBody == -1
RangeExit == -2
NoOutcome == -3

Init ==
    /\ cap = [c \in Chans |-> NotMade]
    /\ len = [c \in Chans |-> 0]
    /\ blocked = [p \in Procs |-> <<>>]
    /\ ranging = {}
    /\ outcome = [p \in Procs |-> NoOutcome]
    /\ stmts = [p \in Procs |-> 0]
    /\ panicked = FALSE

\* The (process, case) pairs blocked on an operation.
Offers(op, c) ==
    {o \in UNION {{p} \X DOMAIN blocked[p] : p \in Procs} :
        blocked[o[1]][o[2]] = [op |-> op, ch |-> c]}

\* How a process, in a range loop or not, sees its case i end with or without a message.
End(inRange, i, got) ==
    IF ~inRange THEN i ELSE IF got THEN RangeBody ELSE RangeExit

Start(p) == /\ ~panicked
            /\ blocked[p] = <<>>
            /\ stmts[p] < MaxStmts
            /\ stmts' = [stmts EXCEPT ![p] = @ + 1]

Unblock(o, out, got) ==
    /\ blocked' = [blocked EXCEPT ![o[1]] = <<>>]
    /\ ranging' = ranging \ {o[1]}
    /\ outcome' = [out EXCEPT ![o[1]] = End(o[1] \in ranging, o[2], got)]

Finish(out) == outcome' = out /\ UNCHANGED <<blocked, ranging>>

\* Case i of process p sends: to a blocked receiver if there is one, else to the buffer.
Send(p, i, c) ==
    LET out == [outcome EXCEPT ![p] = i] IN
    /\ cap[c] >= 0
    /\ UNCHANGED <<cap, panicked>>
    /\ \/ \E o \in Offers("receive", c) : Unblock(o, out, TRUE) /\ UNCHANGED len
       \/ /\ Offers("receive", c) = {} /\ len[c] < cap[c]
          /\ len' = [len EXCEPT ![c] = @ + 1]
          /\ Finish(out)

\* Case i of process p receives: from the buffer, which a blocked sender refills, or
\* straight from a blocked sender, or nothing at all from a closed channel.
Receive(p, i, c, inRange) ==
    LET Out(got) == [outcome EXCEPT ![p] = End(inRange, i, got)] IN
    /\ UNCHANGED <<cap, panicked>>
    /\ \/ \E o \in Offers("send", c) : Unblock(o, Out(TRUE), TRUE) /\ UNCHANGED len
       \/ /\ Offers("send", c) = {} /\ len[c] > 0
          /\ len' = [len EXCEPT ![c] = @ - 1]
          /\ Finish(Out(TRUE))
       \/ cap[c] = Closed /\ len[c] = 0 /\ Finish(Out(FALSE)) /\ UNCHANGED len

CanProceed(k) ==
    IF k.op = "send"
    THEN cap[k.ch] = Closed \/ len[k.ch] < cap[k.ch] \/ Offers("receive", k.ch) # {}
    ELSE cap[k.ch] = Closed \/ len[k.ch] > 0 \/ Offers("send", k.ch) # {}

Proceed(p, i, k, inRange) ==
    \/ k.op = "send" /\ Send(p, i, k.ch)
    \/ k.op = "send" /\ cap[k.ch] = Closed /\ panicked' = TRUE
         /\ UNCHANGED <<cap, len, blocked, ranging, outcome>>
    \/ k.op = "receive" /\ Receive(p, i, k.ch, inRange)

Block(p, menu, inRange) ==
    /\ \A i \in DOMAIN menu : ~CanProceed(menu[i])
    /\ blocked' = [blocked EXCEPT ![p] = menu]
    /\ ranging' = IF inRange THEN ranging \cup {p} ELSE ranging
    /\ outcome' = [outcome EXCEPT ![p] = NoOutcome]
    /\ UNCHANGED <<cap, len, panicked>>

Operation(p, op, c, inRange) ==
    LET k == [op |-> op, ch |-> c] IN
    /\ Start(p)
    /\ Proceed(p, 1, k, inRange) \/ Block(p, <<k>>, inRange)

\* A select takes any case that can proceed; only if none can, the default or waiting.
Select(p, menu) ==
    /\ Start(p)
    /\ \/ \E i \in DOMAIN menu : CanProceed(menu[i]) /\ Proceed(p, i, menu[i], FALSE)
       \/ Block(p, menu, FALSE)
       \/ /\ \A i \in DOMAIN menu : ~CanProceed(menu[i])
          /\ Finish([outcome EXCEPT ![p] = DefaultEnter])
          /\ UNCHANGED <<cap, len, panicked>>

Make(n) == /\ ~panicked
           /\ \E c \in Chans \ Made : cap' = [cap EXCEPT ![c] = n]
           /\ UNCHANGED <<len, blocked, ranging, outcome, stmts, panicked>>

\* Closing frees all blocked receivers empty-handed; it panics on a closed channel or
\* when senders are blocked.
Close(p, c) ==
    /\ Start(p)
    /\ IF cap[c] = Closed \/ Offers("send", c) # {}
       THEN panicked' = TRUE /\ UNCHANGED <<cap, len, blocked, ranging, outcome>>
       ELSE LET freed == {o[1] : o \in Offers("receive", c)}
                CaseOf(q) == CHOOSE i \in DOMAIN blocked[q] : <<q, i>> \in Offers("receive", c)
            IN  /\ cap' = [cap EXCEPT ![c] = Closed]
                /\ blocked' = [q \in Procs |-> IF q \in freed THEN <<>> ELSE blocked[q]]
                /\ ranging' = ranging \ freed
                /\ outcome' = [q \in Procs |->
                     IF q \in freed THEN End(q \in ranging, CaseOf(q), FALSE)
                     ELSE IF q = p THEN NoOutcome ELSE outcome[q]]
                /\ UNCHANGED <<len, panicked>>

Next ==
    \/ \E n \in BufferSizes : Make(n)
    \/ \E p \in Procs, c \in Made :
         \/ \E op \in {"send", "receive"} : Operation(p, op, c, FALSE)
         \/ Operation(p, "receive", c, TRUE)
         \/ Close(p, c)
    \/ \E p \in Procs, menu \in Menus :
         (\A i \in DOMAIN menu : menu[i].ch \in Made) /\ Select(p, menu)

Spec == Init /\ [][Next]_vars
=============================================================================
