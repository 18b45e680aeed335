--------------------------- MODULE ChannelsProofs ---------------------------
(***************************************************************************)
(* Proofs about the network of channel automata, for any number of         *)
(* processes, handles and statements: its types, that no process is left   *)
(* blocked that could go on, and that closing is judged as Go judges it.   *)
(* The last two need a select to have at most one case per channel.        *)
(***************************************************************************)
EXTENDS Channels, FiniteSetTheorems, TLAPS

AutomatonLocs == CommittedChannel \cup {"idle", "closed", "bad"}
ProcessLocs == CommittedProcess \cup {"running", "waiting"}
Kinds == {"op", "range", "select", "select_default"}

\* The types of the variables.
TypeOK ==
    /\ chanCount \in Nat
    /\ outOfResources \in BOOLEAN
    /\ counter \in [Chans -> Int]
    /\ buffer \in [Chans -> Int]
    /\ automaton \in [Chans -> AutomatonLocs]
    /\ loc \in [Procs -> ProcessLocs]
    /\ kind \in [Procs -> Kinds]
    /\ cases \in [Procs -> Seq(Cases)]
    /\ armed \in [Procs -> SUBSET Nat]
    /\ ok \in [Procs -> BOOLEAN]
    /\ outcome \in [Procs -> Int]
    /\ stmts \in [Procs -> Nat]

-----------------------------------------------------------------------------
\* The inductive invariant.

\* No two cases of a menu are on one channel.
DistinctChannels(menu) ==
    \A i, j \in DOMAIN menu : i # j => menu[i].ch # menu[j].ch

\* The restriction on the menus under which the network keeps its promises.
MenusDistinct == \A menu \in Menus : DistinctChannels(menu)

HasCase(menu, op, c) == \E i \in DOMAIN menu : menu[i] = [op |-> op, ch |-> c]

\* The processes that count in chan_counter[c], and what is left of it without them.
Offering(p) == loc[p] \in {"select_pass_1", "waiting"}
Offers(op, c) == {p \in Procs : Offering(p) /\ HasCase(cases[p], op, c)}
Content(c) == counter[c] - Cardinality(Offers("send", c)) + Cardinality(Offers("receive", c))

\* An open channel of capacity cap with n messages, the senders snd and the receivers rcv.
Open(cap, snd, rcv, n) ==
    /\ n \in Int /\ 0 <= n /\ n <= cap
    /\ snd # {} => n = cap
    /\ rcv # {} => n = 0
    /\ snd = {} \/ rcv = {}

\* A sender was confirmed, but the message is neither in the buffer nor received yet.
Sent(cap, snd, rcv, n) ==
    /\ n \in Int /\ n > 0 /\ cap >= 0 /\ snd = {}
    /\ rcv = {} => n <= cap
    /\ rcv # {} => n = 1

\* A receiver was confirmed, but its message is not taken out or sent yet.
Received(cap, snd, rcv, n) ==
    /\ n \in Int /\ n < cap /\ cap >= 0 /\ rcv = {}
    /\ snd = {} => n >= 0
    /\ snd # {} => n = cap - 1

Closed(cap, snd, rcv, n) ==
    /\ n \in Nat /\ cap = -1 /\ snd = {}
    /\ rcv # {} => n = 0

\* What each location of the Channel automaton stands for.
Settled(at, cap, snd, rcv, n) ==
    /\ at \in {"idle", "new_sender", "new_receiver"} => Open(cap, snd, rcv, n)
    /\ at = "confirming_a" => Sent(cap, snd, rcv, n)
    /\ at = "confirming_b" => Received(cap, snd, rcv, n)
    /\ at = "closing" => Closed(cap, snd, rcv, n)
    /\ at \in {"closed", "confirming_closed"} => Closed(cap, snd, rcv, n) /\ rcv = {}

\* Every channel is settled and every process ready, the processes ps apart.
SettledAt(c, ps) ==
    Settled(automaton[c], buffer[c], Offers("send", c) \ ps, Offers("receive", c) \ ps, Content(c))
Ready(p) == /\ loc[p] # "select_pass_1"
            /\ loc[p] = "waiting" => armed[p] = DOMAIN cases[p]
Around(ps) == /\ \A c \in Chans : SettledAt(c, ps)
              /\ \A p \in Procs : p \notin ps => Ready(p)

\* Either no process is half-way through its operation, or exactly one is: it polls the
\* cases of its select or waits for the answer of the automaton it triggered.
Answering == {"new_sender", "new_receiver", "confirming_closed"}

Rest == /\ Around({})
        /\ \A c \in Chans : automaton[c] \notin Answering

Polls(p) == /\ loc[p] = "select_pass_1"
            /\ \A c \in Chans : automaton[c] \notin CommittedChannel

TriggerOf(at) == IF at = "new_sender" THEN "send" ELSE "receive"

Answered(p, c) ==
    /\ loc[p] = "waiting"
    /\ automaton[c] \in Answering
    /\ \E i \in DOMAIN cases[p] :
         armed[p] = {i} /\ cases[p][i] = [op |-> TriggerOf(automaton[c]), ch |-> c]
    /\ armed[p] # DOMAIN cases[p] =>
         /\ automaton[c] = "new_sender" => counter[c] <= buffer[c]
         /\ automaton[c] = "new_receiver" => counter[c] >= 0

Acts(p) == Around({p}) /\ (Polls(p) \/ \E c \in Chans : Answered(p, c))

OneCommitted ==
    \A c, d \in Chans :
      automaton[c] \in CommittedChannel /\ automaton[d] \in CommittedChannel => c = d

CasesOK(p) ==
    /\ DistinctChannels(cases[p])
    /\ \A i \in DOMAIN cases[p] : cases[p][i].ch \in Made
    /\ loc[p] = "waiting" => armed[p] \subseteq DOMAIN cases[p]

Shape ==
    /\ \A c \in Chans : c \notin Made => automaton[c] = "idle"
    /\ \A p \in Procs : CasesOK(p)
    /\ OneCommitted
    /\ Rest \/ \E p \in Procs : Acts(p)

\* What happens after a panic concerns nobody.
Inv == TypeOK /\ (~Panicked => Shape)

-----------------------------------------------------------------------------
\* Lemmas about the operators.

LEMMA CasesAreSequences == Menus \subseteq Seq(Cases)
BY MenusAssumption

\* What a menu adds to a counter is an integer.
LEMMA ForwardType ==
    ASSUME NEW menu \in Seq(Cases), NEW i, NEW c
    PROVE  Forward(menu, i, c) \in Int
<1> DEFINE T(k) == {j \in DOMAIN menu \ {i} : menu[j] = k}
<1>1. \A k : Cardinality(T(k)) \in Nat
  <2>1. IsFiniteSet(1 .. Len(menu))
    BY FS_Interval
  <2>2. \A k : T(k) \subseteq 1 .. Len(menu)
    OBVIOUS
  <2> QED
    BY <2>1, <2>2, FS_Subset, FS_CardinalityType
<1>2. Forward(menu, i, c) = Cardinality(T([op |-> "send", ch |-> c]))
                              - Cardinality(T([op |-> "receive", ch |-> c]))
  BY DEF Forward
<1> HIDE DEF T
<1> QED
  BY <1>1, <1>2

In(p, S) == IF p \in S THEN 1 ELSE 0

\* A menu with one case per channel adds its case on the channel.
LEMMA ForwardOne ==
    ASSUME NEW menu \in Seq(Cases), DistinctChannels(menu), NEW i \in Nat, NEW c
    PROVE  /\ i = 0 \/ (i \in DOMAIN menu /\ menu[i].ch # c) =>
                Forward(menu, i, c) = (IF HasCase(menu, "send", c) THEN 1 ELSE 0)
                  - (IF HasCase(menu, "receive", c) THEN 1 ELSE 0)
           /\ i \in DOMAIN menu /\ menu[i].ch = c => Forward(menu, i, c) = 0
<1> DEFINE T(op) == {j \in DOMAIN menu \ {i} : menu[j] = [op |-> op, ch |-> c]}
<1>1. \A op : (\E j \in DOMAIN menu \ {i} : menu[j] = [op |-> op, ch |-> c])
                => Cardinality(T(op)) = 1
  <2> SUFFICES ASSUME NEW op, NEW j \in DOMAIN menu \ {i}, menu[j] = [op |-> op, ch |-> c]
               PROVE  Cardinality(T(op)) = 1
    OBVIOUS
  <2>1. T(op) = {j}
    BY DEF DistinctChannels
  <2> QED
    BY <2>1, FS_Singleton
<1>2. \A op : ~(\E j \in DOMAIN menu \ {i} : menu[j] = [op |-> op, ch |-> c])
                => Cardinality(T(op)) = 0
  <2> SUFFICES ASSUME NEW op, ~(\E j \in DOMAIN menu \ {i} : menu[j] = [op |-> op, ch |-> c])
               PROVE  Cardinality(T(op)) = 0
    OBVIOUS
  <2>1. T(op) = {}
    OBVIOUS
  <2> QED
    BY <2>1, FS_EmptySet
<1>3. Forward(menu, i, c) = Cardinality(T("send")) - Cardinality(T("receive"))
  BY DEF Forward
<1> HIDE DEF T
<1>4. ASSUME i = 0 \/ (i \in DOMAIN menu /\ menu[i].ch # c)
      PROVE  Forward(menu, i, c) = (IF HasCase(menu, "send", c) THEN 1 ELSE 0)
                  - (IF HasCase(menu, "receive", c) THEN 1 ELSE 0)
  <2>1. \A op : HasCase(menu, op, c) <=>
                  \E j \in DOMAIN menu \ {i} : menu[j] = [op |-> op, ch |-> c]
    BY <1>4 DEF HasCase
  <2> QED
    BY <2>1, <1>1, <1>2, <1>3
<1>5. ASSUME i \in DOMAIN menu, menu[i].ch = c
      PROVE  Forward(menu, i, c) = 0
  <2>1. \A op : ~(\E j \in DOMAIN menu \ {i} : menu[j] = [op |-> op, ch |-> c])
    BY <1>5 DEF DistinctChannels
  <2> QED
    BY <2>1, <1>2, <1>3
<1> QED
  BY <1>4, <1>5

\* Taking p out of a finite set.
LEMMA Without ==
    ASSUME NEW S, IsFiniteSet(S), NEW p
    PROVE  /\ Cardinality(S) \in Nat
           /\ Cardinality(S \ {p}) \in Nat
           /\ Cardinality(S) = Cardinality(S \ {p}) + In(p, S)
           /\ Cardinality(S) = 0 <=> S = {}
           /\ IsFiniteSet(S \ {p})
<1>1. CASE p \in S
  <2>1. IsFiniteSet(S \ {p}) /\ Cardinality(S \ {p}) = Cardinality(S) - 1
    BY <1>1, FS_RemoveElement
  <2>2. Cardinality(S) \in Nat /\ Cardinality(S \ {p}) \in Nat
    BY <2>1, FS_CardinalityType
  <2>3. Cardinality(S) = 0 <=> S = {}
    BY FS_EmptySet
  <2> QED
    BY <1>1, <2>1, <2>2, <2>3 DEF In
<1>2. CASE p \notin S
  <2>1. S \ {p} = S
    BY <1>2
  <2> QED
    BY <2>1, <1>2, FS_CardinalityType, FS_EmptySet DEF In
<1> QED
  BY <1>1, <1>2

-----------------------------------------------------------------------------
\* One channel: the counter k of a channel with n messages, senders S and receivers R
\* tells the automaton all it needs to know.

Counted(k, S, R, n) ==
    /\ IsFiniteSet(S) /\ IsFiniteSet(R)
    /\ k \in Int /\ n \in Int
    /\ n = k - Cardinality(S) + Cardinality(R)

\* Fewer offers leave a channel settled, unless it is about to answer one of them.
LEMMA FewerOffers ==
    ASSUME NEW at, NEW cap, NEW S, NEW R, NEW n, NEW S2, NEW R2,
           S2 \subseteq S, R2 \subseteq R, at \notin {"confirming_a", "confirming_b"},
           Settled(at, cap, S, R, n)
    PROVE  Settled(at, cap, S2, R2, n)
BY DEF Settled, Open, Closed

\* The counter when p is one of the senders and none of the receivers.
LEMMA CountedSender ==
    ASSUME NEW k, NEW S, NEW R, NEW n, Counted(k, S, R, n), NEW p \in S, p \notin R
    PROVE  \E s, r \in Nat : /\ k = n + s + 1 - r
                             /\ s = 0 <=> S \ {p} = {}
                             /\ r = 0 <=> R = {}
<1>1. /\ Cardinality(S) = Cardinality(S \ {p}) + 1
      /\ Cardinality(S \ {p}) \in Nat /\ Cardinality(R) \in Nat
      /\ Cardinality(R) = 0 <=> R = {}
      /\ Cardinality(S \ {p}) = 0 <=> S \ {p} = {}
  BY Without DEF Counted, In
<1>2. k = n + Cardinality(S \ {p}) + 1 - Cardinality(R)
  BY <1>1 DEF Counted
<1> QED
  BY <1>1, <1>2

LEMMA CountedReceiver ==
    ASSUME NEW k, NEW S, NEW R, NEW n, Counted(k, S, R, n), NEW p \in R, p \notin S
    PROVE  \E s, r \in Nat : /\ k = n + s - r - 1
                             /\ s = 0 <=> S = {}
                             /\ r = 0 <=> R \ {p} = {}
<1>1. /\ Cardinality(R) = Cardinality(R \ {p}) + 1
      /\ Cardinality(R \ {p}) \in Nat /\ Cardinality(S) \in Nat
      /\ Cardinality(S) = 0 <=> S = {}
      /\ Cardinality(R \ {p}) = 0 <=> R \ {p} = {}
  BY Without DEF Counted, In
<1>2. k = n + Cardinality(S) - Cardinality(R \ {p}) - 1
  BY <1>1 DEF Counted
<1> QED
  BY <1>1, <1>2

LEMMA CountedAny ==
    ASSUME NEW k, NEW S, NEW R, NEW n, Counted(k, S, R, n)
    PROVE  \E s, r \in Nat : /\ k = n + s - r
                             /\ s = 0 <=> S = {}
                             /\ r = 0 <=> R = {}
<1>1. /\ Cardinality(S) \in Nat /\ Cardinality(R) \in Nat
      /\ Cardinality(R) = 0 <=> R = {}
      /\ Cardinality(S) = 0 <=> S = {}
  BY Without DEF Counted, In
<1>2. k = n + Cardinality(S) - Cardinality(R)
  BY <1>1 DEF Counted
<1> QED
  BY <1>1, <1>2

\* A sender above the capacity may block, and nobody is blocked who could go on.
LEMMA SenderBlocks ==
    ASSUME NEW k, NEW cap \in Int, NEW S, NEW R, NEW n, Counted(k, S, R, n),
           NEW t \in S, t \notin R, Open(cap, S \ {t}, R \ {t}, n), k > cap
    PROVE  Open(cap, S, R, n)
<1>1. R \ {t} = R
  OBVIOUS
<1> QED
  BY <1>1, CountedSender DEF Open

\* Any other sender is alone and goes on.
LEMMA SenderPasses ==
    ASSUME NEW k, NEW cap \in Int, NEW S, NEW R, NEW n, Counted(k, S, R, n),
           NEW t \in S, t \notin R, Open(cap, S \ {t}, R \ {t}, n), k <= cap
    PROVE  S = {t} /\ Sent(cap, S \ {t}, R \ {t}, n + 1)
<1>1. R \ {t} = R
  OBVIOUS
<1>2. S \ {t} = {} /\ Sent(cap, S \ {t}, R, n + 1)
  BY <1>1, CountedSender DEF Open, Sent
<1> QED
  BY <1>1, <1>2

LEMMA SentStays ==
    ASSUME NEW k, NEW cap \in Int, NEW S, NEW R, NEW n, Counted(k, S, R, n),
           Sent(cap, S, R, n), k > 0
    PROVE  Open(cap, S, R, n)
BY CountedAny DEF Open, Sent

LEMMA SentLeaves ==
    ASSUME NEW k, NEW cap \in Int, NEW S, NEW R, NEW n, Counted(k, S, R, n),
           NEW p \in R, p \notin S, Sent(cap, S, R, n)
    PROVE  Open(cap, S \ {p}, R \ {p}, n - 1)
BY DEF Open, Sent

LEMMA ReceiverBlocks ==
    ASSUME NEW k, NEW cap \in Int, NEW S, NEW R, NEW n, Counted(k, S, R, n),
           NEW t \in R, t \notin S, Open(cap, S \ {t}, R \ {t}, n), k < 0
    PROVE  Open(cap, S, R, n)
<1>1. S \ {t} = S
  OBVIOUS
<1> QED
  BY <1>1, CountedReceiver DEF Open

LEMMA ReceiverPasses ==
    ASSUME NEW k, NEW cap \in Int, NEW S, NEW R, NEW n, Counted(k, S, R, n),
           NEW t \in R, t \notin S, Open(cap, S \ {t}, R \ {t}, n), k >= 0
    PROVE  R = {t} /\ Received(cap, S \ {t}, R \ {t}, n - 1)
<1>1. S \ {t} = S
  OBVIOUS
<1>2. R \ {t} = {} /\ Received(cap, S, R \ {t}, n - 1)
  BY <1>1, CountedReceiver DEF Open, Received
<1> QED
  BY <1>1, <1>2

LEMMA ReceivedFits ==
    ASSUME NEW k, NEW cap \in Int, NEW S, NEW R, NEW n, Counted(k, S, R, n),
           Received(cap, S, R, n), k < cap
    PROVE  Open(cap, S, R, n)
BY CountedAny DEF Open, Received

LEMMA ReceivedRefills ==
    ASSUME NEW k, NEW cap \in Int, NEW S, NEW R, NEW n, Counted(k, S, R, n),
           NEW p \in S, p \notin R, Received(cap, S, R, n)
    PROVE  Open(cap, S \ {p}, R \ {p}, n + 1)
BY DEF Open, Received

LEMMA ClosingReleases ==
    ASSUME NEW cap \in Int, NEW S, NEW R, NEW n, NEW p, Closed(cap, S, R, n)
    PROVE  Closed(cap, S \ {p}, R \ {p}, n)
BY DEF Closed

LEMMA ClosingEnds ==
    ASSUME NEW k, NEW cap \in Int, NEW S, NEW R, NEW n, Counted(k, S, R, n),
           Closed(cap, S, R, n), k >= 0
    PROVE  Closed(cap, S, R, n) /\ R = {}
BY CountedAny DEF Closed

\* A closed channel answers a receiver: with a message if one is left.
LEMMA ClosedAnswers ==
    ASSUME NEW k, NEW cap \in Int, NEW S, NEW R, NEW n, Counted(k, S, R, n),
           NEW t \in R, t \notin S, Closed(cap, S \ {t}, R \ {t}, n), R \ {t} = {}
    PROVE  /\ R = {t}
           /\ Closed(cap, S \ {t}, R \ {t}, n - 1 + (IF k >= 0 THEN k ELSE 0) - k)
<1>1. S \ {t} = S
  OBVIOUS
<1>2. k = n - 1
  BY <1>1, CountedReceiver DEF Closed
<1> QED
  BY <1>1, <1>2 DEF Closed

\* A channel is closed without a panic exactly when no sender is blocked.
LEMMA CloseJudges ==
    ASSUME NEW k, NEW cap \in Int, NEW S, NEW R, NEW n, Counted(k, S, R, n),
           Open(cap, S, R, n)
    PROVE  /\ k <= cap <=> S = {}
           /\ k <= cap => Closed(-1, S, R, n)
<1>1. k <= cap <=> S = {}
  BY CountedAny DEF Open
<1> QED
  BY <1>1 DEF Open, Closed

-----------------------------------------------------------------------------
\* Types.

LEMMA ConfirmType ==
    ASSUME TypeOK, NEW op, NEW c \in Chans, NEW x \in [Chans -> Int], Confirm(op, c, x)
    PROVE  /\ counter' \in [Chans -> Int] /\ loc' \in [Procs -> ProcessLocs]
           /\ cases' \in [Procs -> Seq(Cases)] /\ armed' \in [Procs -> SUBSET Nat]
           /\ outcome' \in [Procs -> Int]
           /\ UNCHANGED <<chanCount, outOfResources, kind, ok, stmts>>
<1>1. PICK p \in Procs : \E i \in armed[p] :
        /\ counter' = [d \in Chans |-> x[d] - Forward(cases[p], i, d)]
        /\ armed' = [armed EXCEPT ![p] = {}]
        /\ \/ loc' = [loc EXCEPT ![p] = "range_received"] /\ UNCHANGED <<cases, outcome>>
           \/ /\ loc' = [loc EXCEPT ![p] = "running"]
              /\ cases' = [cases EXCEPT ![p] = <<>>]
              /\ outcome' = [outcome EXCEPT ![p] = i]
        /\ UNCHANGED <<chanCount, outOfResources, kind, ok, stmts>>
  BY DEF Confirm
<1>2. PICK i \in armed[p] :
        /\ counter' = [d \in Chans |-> x[d] - Forward(cases[p], i, d)]
        /\ armed' = [armed EXCEPT ![p] = {}]
        /\ \/ loc' = [loc EXCEPT ![p] = "range_received"] /\ UNCHANGED <<cases, outcome>>
           \/ /\ loc' = [loc EXCEPT ![p] = "running"]
              /\ cases' = [cases EXCEPT ![p] = <<>>]
              /\ outcome' = [outcome EXCEPT ![p] = i]
        /\ UNCHANGED <<chanCount, outOfResources, kind, ok, stmts>>
  BY <1>1
<1>3. cases[p] \in Seq(Cases) /\ i \in Nat
  BY DEF TypeOK
<1>4. \A d \in Chans : Forward(cases[p], i, d) \in Int
  BY <1>3, ForwardType
<1>5. counter' \in [Chans -> Int]
  BY <1>2, <1>4
<1>6. cases' \in [Procs -> Seq(Cases)]
  <2>1. cases' = cases \/ cases' = [cases EXCEPT ![p] = <<>>]
    BY <1>2
  <2>2. <<>> \in Seq(Cases) /\ cases \in [Procs -> Seq(Cases)]
    BY DEF TypeOK
  <2> QED
    BY <2>1, <2>2
<1>7. armed' \in [Procs -> SUBSET Nat] /\ outcome' \in [Procs -> Int]
  BY <1>2, <1>3 DEF TypeOK
<1>8. loc' \in [Procs -> ProcessLocs]
  BY <1>2 DEF TypeOK, ProcessLocs, CommittedProcess
<1> QED
  BY <1>2, <1>5, <1>6, <1>7, <1>8

LEMMA GotoType ==
    ASSUME TypeOK, NEW c \in Chans, NEW from, NEW to \in AutomatonLocs, Goto(c, from, to)
    PROVE  automaton' \in [Chans -> AutomatonLocs]
BY DEF Goto, TypeOK

LEMMA TriggeredType ==
    ASSUME TypeOK, NEW c \in Chans, NEW op, Triggered(c, op)
    PROVE  automaton' \in [Chans -> AutomatonLocs]
BY DEF Triggered, Goto, TypeOK, AutomatonLocs, CommittedChannel

LEMMA StartType ==
    ASSUME TypeOK, NEW p \in Procs, NEW k \in Kinds, NEW menu \in Seq(Cases), Start(p, k, menu)
    PROVE  /\ stmts' \in [Procs -> Nat] /\ kind' \in [Procs -> Kinds]
           /\ cases' \in [Procs -> Seq(Cases)] /\ outcome' \in [Procs -> Int]
BY DEF Start, TypeOK, NoOutcome

LEMMA ChannelStepType ==
    ASSUME TypeOK, NEW c \in Chans, ChannelStep(c)
    PROVE  TypeOK'
<1>1. counter \in [Chans -> Int] /\ [counter EXCEPT ![c] = @ + 1] \in [Chans -> Int]
      /\ [counter EXCEPT ![c] = IF @ >= 0 THEN @ ELSE 0] \in [Chans -> Int]
  BY DEF TypeOK
<1>2. CASE \/ NewSenderBlocks(c) \/ SentToBuffer(c) \/ NewReceiverBlocks(c)
           \/ ReceivedFromBuffer(c) \/ FinishClosing(c)
  <2>1. automaton' \in [Chans -> AutomatonLocs]
    BY <1>2, GotoType DEF NewSenderBlocks, SentToBuffer, NewReceiverBlocks, ReceivedFromBuffer,
         FinishClosing, AutomatonLocs, CommittedChannel
  <2>2. UNCHANGED <<chanCount, outOfResources, counter, buffer, procVars>>
    BY <1>2 DEF NewSenderBlocks, SentToBuffer, NewReceiverBlocks, ReceivedFromBuffer,
         FinishClosing
  <2> QED
    BY <2>1, <2>2 DEF TypeOK, procVars
<1>3. CASE \/ NewSenderConfirmed(c) \/ SentToReceiver(c) \/ NewReceiverConfirmed(c)
           \/ ReceivedAndRefilled(c) \/ ReleaseReceiver(c) \/ ReceiveFromClosed(c)
  <2>1. automaton' \in [Chans -> AutomatonLocs]
    BY <1>3, GotoType DEF NewSenderConfirmed, SentToReceiver, NewReceiverConfirmed,
         ReceivedAndRefilled, ReleaseReceiver, ReceiveFromClosed, AutomatonLocs, CommittedChannel
  <2>2. buffer' = buffer
    BY <1>3 DEF NewSenderConfirmed, SentToReceiver, NewReceiverConfirmed,
         ReceivedAndRefilled, ReleaseReceiver, ReceiveFromClosed
  <2>3. /\ counter' \in [Chans -> Int] /\ loc' \in [Procs -> ProcessLocs]
        /\ cases' \in [Procs -> Seq(Cases)] /\ armed' \in [Procs -> SUBSET Nat]
        /\ outcome' \in [Procs -> Int]
        /\ UNCHANGED <<chanCount, outOfResources, kind, ok, stmts>>
    <3>1. CASE \/ NewSenderConfirmed(c) \/ SentToReceiver(c) \/ NewReceiverConfirmed(c)
               \/ ReceivedAndRefilled(c)
      <4>1. Confirm("send", c, counter) \/ Confirm("receive", c, counter)
        BY <3>1 DEF NewSenderConfirmed, SentToReceiver, NewReceiverConfirmed, ReceivedAndRefilled
      <4> QED
        BY <4>1, <1>1, ConfirmType
    <3>2. CASE ReleaseReceiver(c)
      BY <3>2, <1>1, ConfirmType DEF ReleaseReceiver
    <3>3. CASE ReceiveFromClosed(c)
      BY <3>3, <1>1, ConfirmType DEF ReceiveFromClosed
    <3> QED
      BY <1>3, <3>1, <3>2, <3>3
  <2> QED
    BY <2>1, <2>2, <2>3 DEF TypeOK
<1> QED
  BY <1>2, <1>3 DEF ChannelStep

LEMMA MakeChanType ==
    ASSUME TypeOK, NEW p \in Procs, NEW n \in BufferSizes, MakeChan(p, n)
    PROVE  TypeOK'
<1>1. n \in Int
  BY ConstantsAssumption
<1>2. counter' \in [Chans -> Int] /\ buffer' \in [Chans -> Int]
  BY <1>1 DEF MakeChan, TypeOK
<1>3. outOfResources' \in BOOLEAN
  <2>1. outOfResources' = TRUE \/ outOfResources' = outOfResources
    BY DEF MakeChan
  <2>2. outOfResources \in BOOLEAN
    BY DEF TypeOK
  <2> QED
    BY ONLY <2>1, <2>2, Zenon
<1>4. chanCount' \in Nat /\ UNCHANGED <<automaton, procVars>>
  BY DEF MakeChan, TypeOK
<1> QED
  BY <1>2, <1>3, <1>4 DEF TypeOK, procVars

LEMMA OperationType ==
    ASSUME TypeOK, NEW p \in Procs, NEW c \in Chans,
           \/ \E op \in {"send", "receive"} : SendOrReceive(p, op, c)
           \/ RangeReceive(p, c)
    PROVE  TypeOK'
<1>1. PICK op \in {"send", "receive"}, k \in Kinds :
        /\ Start(p, k, <<[op |-> op, ch |-> c]>>)
        /\ Triggered(c, op)
        /\ counter' = [counter EXCEPT ![c] = @ + Delta(op)]
        /\ loc' = [loc EXCEPT ![p] = "waiting"]
        /\ armed' = [armed EXCEPT ![p] = {1}]
        /\ UNCHANGED <<chanCount, outOfResources, buffer>>
  <2>1. CASE \E op \in {"send", "receive"} : SendOrReceive(p, op, c)
    BY <2>1 DEF SendOrReceive, Kinds
  <2>2. CASE RangeReceive(p, c)
    <3>1. counter' = [counter EXCEPT ![c] = @ + Delta("receive")]
      BY <2>2 DEF RangeReceive, Delta, TypeOK
    <3> QED
      BY <2>2, <3>1 DEF RangeReceive, Kinds
  <2> QED
    BY <2>1, <2>2
<1>2. <<[op |-> op, ch |-> c]>> \in Seq(Cases)
  BY DEF Cases
<1>3. /\ stmts' \in [Procs -> Nat] /\ kind' \in [Procs -> Kinds]
      /\ cases' \in [Procs -> Seq(Cases)] /\ outcome' \in [Procs -> Int]
  BY <1>1, <1>2, StartType
<1>4. automaton' \in [Chans -> AutomatonLocs]
  BY <1>1, TriggeredType
<1>5. counter' \in [Chans -> Int] /\ loc' \in [Procs -> ProcessLocs]
      /\ armed' \in [Procs -> SUBSET Nat]
  BY <1>1 DEF TypeOK, ProcessLocs, CommittedProcess, Delta
<1>6. ok' \in [Procs -> BOOLEAN]
  <2>1. CASE \E o \in {"send", "receive"} : SendOrReceive(p, o, c)
    BY <2>1 DEF SendOrReceive, TypeOK
  <2>2. CASE RangeReceive(p, c)
    <3>1. ok' = [ok EXCEPT ![p] = counter'[c] >= 0]
      BY <2>2 DEF RangeReceive
    <3>2. (counter'[c] >= 0) \in BOOLEAN
      OBVIOUS
    <3>3. ok \in [Procs -> BOOLEAN]
      BY DEF TypeOK
    <3> QED
      BY ONLY <3>1, <3>2, <3>3, p \in Procs, Zenon
  <2> QED
    BY <2>1, <2>2
<1>7. UNCHANGED <<chanCount, outOfResources, buffer>>
  BY <1>1
<1> QED
  BY <1>3, <1>4, <1>5, <1>6, <1>7 DEF TypeOK

LEMMA CloseChanType ==
    ASSUME TypeOK, NEW p \in Procs, NEW c \in Chans, CloseChan(p, c)
    PROVE  TypeOK'
<1>1. /\ stmts' \in [Procs -> Nat] /\ kind' \in [Procs -> Kinds]
      /\ cases' \in [Procs -> Seq(Cases)] /\ outcome' \in [Procs -> Int]
  <2>1. "op" \in Kinds /\ <<>> \in Seq(Cases) /\ Start(p, "op", <<>>)
    BY DEF CloseChan, Kinds
  <2> QED
    BY <2>1, StartType
<1>2. automaton' \in [Chans -> AutomatonLocs] /\ buffer' \in [Chans -> Int]
  <2>1. \/ automaton' = [automaton EXCEPT ![c] = "closing"]
        \/ automaton' = [automaton EXCEPT ![c] = "bad"]
    BY DEF CloseChan, Goto
  <2>2. buffer' = buffer \/ buffer' = [buffer EXCEPT ![c] = -1]
    BY DEF CloseChan
  <2>3. automaton' \in [Chans -> AutomatonLocs]
    BY <2>1 DEF TypeOK, AutomatonLocs, CommittedChannel
  <2>4. buffer' \in [Chans -> Int]
    BY <2>2 DEF TypeOK
  <2> QED
    BY <2>3, <2>4
<1>3. UNCHANGED <<chanCount, outOfResources, counter, loc, armed, ok>>
  BY DEF CloseChan
<1> QED
  BY <1>1, <1>2, <1>3 DEF TypeOK

LEMMA EnterSelectType ==
    ASSUME TypeOK, NEW p \in Procs, NEW menu \in Menus, NEW k \in {"select", "select_default"},
           EnterSelect(p, menu, k)
    PROVE  TypeOK'
<1>1. menu \in Seq(Cases) /\ k \in Kinds
  BY CasesAreSequences DEF Kinds
<1>2. /\ stmts' \in [Procs -> Nat] /\ kind' \in [Procs -> Kinds]
      /\ cases' \in [Procs -> Seq(Cases)] /\ outcome' \in [Procs -> Int]
  BY <1>1, StartType DEF EnterSelect
<1>3. counter' \in [Chans -> Int]
  <2>1. \A c \in Chans : Forward(menu, 0, c) \in Int
    BY <1>1, ForwardType
  <2> QED
    BY <2>1 DEF EnterSelect, TypeOK
<1>4. loc' \in [Procs -> ProcessLocs]
  BY DEF EnterSelect, TypeOK, ProcessLocs, CommittedProcess
<1>5. UNCHANGED <<chanCount, outOfResources, buffer, automaton, armed, ok>>
  BY DEF EnterSelect
<1> QED
  BY <1>2, <1>3, <1>4, <1>5 DEF TypeOK

LEMMA SelectTriggerType ==
    ASSUME TypeOK, NEW p \in Procs, NEW i \in DOMAIN cases[p], SelectTrigger(p, i)
    PROVE  TypeOK'
<1>1. i \in Nat /\ cases[p][i].ch \in Chans
  <2>1. cases[p] \in Seq(Cases)
    BY DEF TypeOK
  <2>2. i \in Nat /\ cases[p][i] \in Cases
    BY <2>1
  <2> QED
    BY <2>2 DEF Cases
<1>2. automaton' \in [Chans -> AutomatonLocs]
  BY <1>1, TriggeredType DEF SelectTrigger
<1>3. loc' \in [Procs -> ProcessLocs] /\ armed' \in [Procs -> SUBSET Nat]
  BY <1>1 DEF SelectTrigger, TypeOK, ProcessLocs, CommittedProcess
<1>4. UNCHANGED <<chanCount, outOfResources, counter, buffer, kind, cases, ok, outcome, stmts>>
  BY DEF SelectTrigger
<1> QED
  BY <1>2, <1>3, <1>4 DEF TypeOK

LEMMA SelectDefaultType ==
    ASSUME TypeOK, NEW p \in Procs, SelectDefault(p)
    PROVE  TypeOK'
<1>1. counter' \in [Chans -> Int]
  <2>1. \A c \in Chans : Forward(cases[p], 0, c) \in Int
    BY ForwardType DEF TypeOK
  <2> QED
    BY <2>1 DEF SelectDefault, TypeOK
<1>2. loc' \in [Procs -> ProcessLocs] /\ outcome' \in [Procs -> Int]
  BY DEF SelectDefault, TypeOK, ProcessLocs, DefaultEnter
<1>3. cases' \in [Procs -> Seq(Cases)]
  BY DEF SelectDefault, TypeOK
<1>4. UNCHANGED <<chanCount, outOfResources, buffer, automaton, kind, armed, ok, stmts>>
  BY DEF SelectDefault
<1> QED
  BY <1>1, <1>2, <1>3, <1>4 DEF TypeOK

LEMMA SelectBlockType ==
    ASSUME TypeOK, NEW p \in Procs, SelectBlock(p)
    PROVE  TypeOK'
<1>1. DOMAIN cases[p] \subseteq Nat
  BY DEF TypeOK
<1>2. loc' \in [Procs -> ProcessLocs] /\ armed' \in [Procs -> SUBSET Nat]
  BY <1>1 DEF SelectBlock, TypeOK, ProcessLocs
<1>3. UNCHANGED <<chanVars, kind, cases, ok, outcome, stmts>>
  BY DEF SelectBlock
<1> QED
  BY <1>2, <1>3 DEF TypeOK, chanVars

LEMMA RangeDecideType ==
    ASSUME TypeOK, NEW p \in Procs, RangeDecide(p)
    PROVE  TypeOK'
<1>1. outcome' \in [Procs -> Int]
  BY DEF RangeDecide, TypeOK, RangeBody, RangeExit
<1>2. loc' \in [Procs -> ProcessLocs] /\ cases' \in [Procs -> Seq(Cases)]
  BY DEF RangeDecide, TypeOK, ProcessLocs
<1>3. ok' \in [Procs -> BOOLEAN]
  <2>1. ok' = [ok EXCEPT ![p] = FALSE] /\ ok \in [Procs -> BOOLEAN]
    BY DEF RangeDecide, TypeOK
  <2> QED
    BY ONLY <2>1, p \in Procs, Zenon
<1>4. UNCHANGED <<chanVars, kind, armed, stmts>>
  BY DEF RangeDecide
<1> QED
  BY <1>1, <1>2, <1>3, <1>4 DEF TypeOK, chanVars

LEMMA StepType == TypeOK /\ [Next]_vars => TypeOK'
<1> SUFFICES ASSUME TypeOK, [Next]_vars
             PROVE  TypeOK'
  OBVIOUS
<1>1. ASSUME NEW p \in Procs, ProcessStep(p)
      PROVE  TypeOK'
  <2>1. Made \subseteq Chans
    BY DEF Made
  <2>2. CASE \E n \in BufferSizes : MakeChan(p, n)
    BY <2>2, MakeChanType
  <2>3. CASE \E c \in Made : \/ \E op \in {"send", "receive"} : SendOrReceive(p, op, c)
                             \/ RangeReceive(p, c)
    BY <2>3, <2>1, OperationType
  <2>4. CASE \E c \in Made : CloseChan(p, c)
    BY <2>4, <2>1, CloseChanType
  <2>5. CASE \E menu \in Menus, k \in {"select", "select_default"} : EnterSelect(p, menu, k)
    BY <2>5, EnterSelectType
  <2>6. CASE \E i \in DOMAIN cases[p] : SelectTrigger(p, i)
    BY <2>6, SelectTriggerType
  <2>7. CASE SelectDefault(p)
    BY <2>7, SelectDefaultType
  <2>8. CASE SelectBlock(p)
    BY <2>8, SelectBlockType
  <2>9. CASE RangeDecide(p)
    BY <2>9, RangeDecideType
  <2> QED
    BY <1>1, <2>2, <2>3, <2>4, <2>5, <2>6, <2>7, <2>8, <2>9 DEF ProcessStep
<1>2. ASSUME NEW c \in Chans, ChannelStep(c)
      PROVE  TypeOK'
  BY <1>2, ChannelStepType
<1>3. CASE UNCHANGED vars
  BY <1>3 DEF TypeOK, vars, chanVars, procVars
<1> QED
  BY <1>1, <1>2, <1>3 DEF Next

LEMMA InitType == Init => TypeOK
<1> SUFFICES ASSUME Init
             PROVE  TypeOK
  OBVIOUS
<1>1. ok \in [Procs -> BOOLEAN]
  <2>1. ok = [p \in Procs |-> FALSE]
    BY DEF Init
  <2> QED
    BY ONLY <2>1, Zenon
<1>2. outOfResources \in BOOLEAN
  <2>1. outOfResources = FALSE
    BY DEF Init
  <2> QED
    BY ONLY <2>1, Zenon
<1>3. cases \in [Procs -> Seq(Cases)]
  BY DEF Init
<1> QED
  BY <1>1, <1>2, <1>3 DEF Init, TypeOK, AutomatonLocs, ProcessLocs, Kinds, NoOutcome

\* Every variable keeps its type, whatever the menus and the order of the statements.
THEOREM TypesRight == Spec => []TypeOK
<1>1. TypeOK /\ [Next]_vars => TypeOK'
  BY StepType
<1> QED
  BY InitType, <1>1, PTL DEF Spec

-----------------------------------------------------------------------------
\* Offers and contents.

\* Nothing but process p changes among the processes.
Others(p) == \A q \in Procs : q # p =>
    loc'[q] = loc[q] /\ cases'[q] = cases[q] /\ armed'[q] = armed[q]

\* What p adds to chan_counter[c].
Weight(p, c) == In(p, Offers("send", c)) - In(p, Offers("receive", c))

LEMMA OffersFinite ==
    ASSUME NEW op, NEW c
    PROVE  IsFiniteSet(Offers(op, c)) /\ IsFiniteSet(Offers(op, c)')
<1>1. Offers(op, c) \subseteq Procs /\ Offers(op, c)' \subseteq Procs
  BY DEF Offers
<1> QED
  BY <1>1, FS_Subset, ConstantsAssumption

LEMMA ContentCounted ==
    ASSUME TypeOK, NEW c \in Chans
    PROVE  Counted(counter[c], Offers("send", c), Offers("receive", c), Content(c))
<1>1. counter[c] \in Int
  BY DEF TypeOK
<1>2. \A op : IsFiniteSet(Offers(op, c)) /\ Cardinality(Offers(op, c)) \in Nat
  BY OffersFinite, FS_CardinalityType
<1> QED
  BY <1>1, <1>2 DEF Counted, Content

LEMMA OffersKept ==
    ASSUME NEW p, Others(p), NEW op, NEW c
    PROVE  Offers(op, c)' \ {p} = Offers(op, c) \ {p}
<1>1. \A q : q \in Offers(op, c)' \ {p} <=> q \in Offers(op, c) \ {p}
  BY DEF Others, Offers, Offering
<1> QED
  BY ONLY <1>1

\* The content of a channel changes by what p does to the counter beyond its own offer.
LEMMA ContentStep ==
    ASSUME TypeOK, TypeOK', NEW p \in Procs, Others(p), NEW c \in Chans
    PROVE  /\ Content(c) \in Int /\ Weight(p, c) \in Int /\ Weight(p, c)' \in Int
           /\ Content(c)' = Content(c) + counter'[c] - counter[c] + Weight(p, c) - Weight(p, c)'
<1>1. counter[c] \in Int /\ counter'[c] \in Int
  BY DEF TypeOK
<1>2. \A op : /\ Cardinality(Offers(op, c) \ {p}) \in Nat
              /\ Cardinality(Offers(op, c)) = Cardinality(Offers(op, c) \ {p}) + In(p, Offers(op, c))
  BY OffersFinite, Without
<1>3. \A op : Cardinality(Offers(op, c)') = Cardinality(Offers(op, c) \ {p}) + In(p, Offers(op, c)')
  <2> TAKE op
  <2>1. Cardinality(Offers(op, c)') = Cardinality(Offers(op, c)' \ {p}) + In(p, Offers(op, c)')
    BY OffersFinite, Without
  <2> QED
    BY <2>1, OffersKept
<1>4. Content(c) = counter[c] - Cardinality(Offers("send", c)) + Cardinality(Offers("receive", c))
  BY DEF Content
<1>5. Content(c)' = counter'[c] - Cardinality(Offers("send", c)') + Cardinality(Offers("receive", c)')
  BY DEF Content
<1>6. Weight(p, c) = In(p, Offers("send", c)) - In(p, Offers("receive", c))
  BY DEF Weight
<1>7. Weight(p, c)' = In(p, Offers("send", c)') - In(p, Offers("receive", c)')
  BY DEF Weight, In
<1>8. \A S : In(p, S) \in Int
  BY DEF In
<1> DEFINE s == Cardinality(Offers("send", c) \ {p})
           r == Cardinality(Offers("receive", c) \ {p})
           s1 == In(p, Offers("send", c))
           r1 == In(p, Offers("receive", c))
           s2 == In(p, Offers("send", c)')
           r2 == In(p, Offers("receive", c)')
<1>9. /\ Content(c) = counter[c] - (s + s1) + (r + r1)
      /\ Content(c)' = counter'[c] - (s + s2) + (r + r2)
      /\ Weight(p, c) = s1 - r1 /\ Weight(p, c)' = s2 - r2
  BY <1>2, <1>3, <1>4, <1>5, <1>6, <1>7
<1>10. s \in Int /\ r \in Int /\ s1 \in Int /\ r1 \in Int /\ s2 \in Int /\ r2 \in Int
  BY <1>2, <1>8
<1> HIDE DEF s, r, s1, r1, s2, r2
<1> QED
  BY <1>1, <1>9, <1>10

LEMMA NoWeight ==
    ASSUME NEW p, NEW c
    PROVE  /\ ~Offering(p) => Weight(p, c) = 0
           /\ ~Offering(p)' => Weight(p, c)' = 0
<1>1. ~Offering(p) => p \notin Offers("send", c) /\ p \notin Offers("receive", c)
  BY DEF Offers
<1>2. ~Offering(p)' => p \notin Offers("send", c)' /\ p \notin Offers("receive", c)'
  BY DEF Offers
<1> QED
  BY <1>1, <1>2 DEF Weight, In

\* An offering process has on a channel at most one case, and weighs what it adds.
LEMMA WeightForward ==
    ASSUME TypeOK, NEW p \in Procs, CasesOK(p), Offering(p), NEW c
    PROVE  Weight(p, c) = Forward(cases[p], 0, c)
<1>1. cases[p] \in Seq(Cases) /\ DistinctChannels(cases[p])
  BY DEF TypeOK, CasesOK
<1>2. \A op : p \in Offers(op, c) <=> HasCase(cases[p], op, c)
  BY DEF Offers
<1> QED
  BY <1>1, <1>2, ForwardOne DEF Weight, In

LEMMA OneSide ==
    ASSUME NEW p \in Procs, CasesOK(p), NEW c
    PROVE  ~(p \in Offers("send", c) /\ p \in Offers("receive", c))
<1> SUFFICES ASSUME p \in Offers("send", c), p \in Offers("receive", c)
             PROVE  FALSE
  OBVIOUS
<1>1. PICK i \in DOMAIN cases[p] : cases[p][i] = [op |-> "send", ch |-> c]
  BY DEF Offers, HasCase
<1>2. PICK j \in DOMAIN cases[p] : cases[p][j] = [op |-> "receive", ch |-> c]
  BY DEF Offers, HasCase
<1>3. i # j /\ cases[p][i].ch = cases[p][j].ch
  BY <1>1, <1>2
<1> QED
  BY <1>3 DEF CasesOK, DistinctChannels

\* A channel stays settled when offers only go, and it is not about to answer one of them.
LEMMA StaysSettled ==
    ASSUME NEW d \in Chans, NEW ps, NEW qs, SettledAt(d, ps), Content(d)' = Content(d),
           automaton'[d] = automaton[d], buffer'[d] = buffer[d],
           automaton[d] \notin CommittedChannel,
           \A op : Offers(op, d)' \ qs \subseteq Offers(op, d) \ ps
    PROVE  SettledAt(d, qs)'
<1>1. Settled(automaton[d], buffer[d], Offers("send", d)' \ qs, Offers("receive", d)' \ qs, Content(d))
  BY FewerOffers DEF SettledAt, CommittedChannel
<1> QED
  BY <1>1 DEF SettledAt

\* The processes that do not move stay ready and keep their cases.
LEMMA OthersReady ==
    ASSUME NEW p, Others(p), NEW q \in Procs, q # p
    PROVE  Ready(q)' <=> Ready(q)
BY DEF Others, Ready

LEMMA CasesKept ==
    ASSUME TypeOK, NEW p, Others(p), \A q \in Procs : CasesOK(q),
           chanCount' \in Nat, chanCount' >= chanCount, p \in Procs => CasesOK(p)'
    PROVE  \A q \in Procs : CasesOK(q)'
<1>1. Made \subseteq Made'
  BY DEF Made, Chans, TypeOK
<1>2. ASSUME NEW q \in Procs, q # p
      PROVE  CasesOK(q)'
  <2>1. cases'[q] = cases[q] /\ loc'[q] = loc[q] /\ armed'[q] = armed[q] /\ CasesOK(q)
    BY <1>2 DEF Others
  <2> QED
    BY <1>1, <2>1 DEF CasesOK
<1> QED
  BY <1>2

LEMMA NoCases ==
    ASSUME NEW p, cases'[p] = <<>>, loc'[p] # "waiting"
    PROVE  CasesOK(p)'
BY DEF CasesOK, DistinctChannels

\* Who may move: at rest anybody, otherwise the automaton that was triggered.
LEMMA QuietRests ==
    ASSUME Shape, Quiet
    PROVE  Rest
<1>1. ASSUME NEW p \in Procs, Acts(p)
      PROVE  FALSE
  BY <1>1 DEF Acts, Polls, Answered, Quiet, CommittedProcess, CommittedChannel, Answering
<1> QED
  BY <1>1 DEF Shape

LEMMA PollerActs ==
    ASSUME Shape, NEW p \in Procs, loc[p] = "select_pass_1"
    PROVE  Around({p}) /\ Polls(p)
<1>1. ~Around({})
  BY DEF Around, Ready
<1>2. PICK t \in Procs : Acts(t)
  BY <1>1 DEF Shape, Rest
<1>3. t = p
  BY <1>2 DEF Acts, Around, Ready
<1> QED
  BY <1>2, <1>3 DEF Acts, Answered

LEMMA TriggerActs ==
    ASSUME Shape, NEW c \in Chans, automaton[c] \in Answering
    PROVE  \E t \in Procs : Around({t}) /\ Answered(t, c)
<1>1. automaton[c] \in CommittedChannel
  BY DEF Answering, CommittedChannel
<1>2. PICK t \in Procs : Acts(t)
  BY DEF Shape, Rest
<1>3. PICK d \in Chans : Answered(t, d)
  BY <1>1, <1>2 DEF Acts, Polls
<1>4. d = c
  BY <1>1, <1>3 DEF Shape, OneCommitted, Answered, Answering, CommittedChannel
<1> QED
  BY <1>2, <1>3, <1>4 DEF Acts

LEMMA CommittedRests ==
    ASSUME Shape, NEW c \in Chans, automaton[c] \in CommittedChannel, automaton[c] \notin Answering
    PROVE  Rest
<1>1. ASSUME NEW t \in Procs, Acts(t)
      PROVE  FALSE
  <2>1. PICK d \in Chans : Answered(t, d)
    BY <1>1 DEF Acts, Polls
  <2>2. d = c
    BY <2>1 DEF Shape, OneCommitted, Answered, Answering, CommittedChannel
  <2> QED
    BY <2>1, <2>2 DEF Answered
<1> QED
  BY <1>1 DEF Shape

-----------------------------------------------------------------------------
\* The steps of a Channel automaton.

\* Channel c is the only one whose automaton and capacity may change.
OnlyAt(c) == \A d \in Chans : d # c => automaton'[d] = automaton[d] /\ buffer'[d] = buffer[d]

\* The parts of Shape a step of a committed automaton keeps.
LEMMA CommittedFrame ==
    ASSUME TypeOK, Shape, NEW c \in Chans, automaton[c] \in CommittedChannel, OnlyAt(c),
           chanCount' = chanCount
    PROVE  /\ \A d \in Chans : d \notin Made' => automaton'[d] = "idle"
           /\ OneCommitted'
           /\ \A d \in Chans : d # c => /\ automaton'[d] \notin CommittedChannel
                                        /\ automaton[d] \notin CommittedChannel
<1>1. \A d \in Chans : d # c => automaton[d] \notin CommittedChannel
  BY DEF Shape, OneCommitted
<1>2. c \in Made /\ Made' = Made
  BY DEF Shape, CommittedChannel, Made
<1>3. \A d \in Chans : d \notin Made' => automaton'[d] = "idle"
  BY <1>2 DEF Shape, OnlyAt
<1>4. \A d \in Chans : d # c => automaton'[d] \notin CommittedChannel
  BY <1>1 DEF OnlyAt
<1>5. OneCommitted'
  BY <1>4 DEF OneCommitted
<1> QED
  BY <1>1, <1>3, <1>4, <1>5

\* An automaton moves without a confirmation: the processes and the counters stay.
Silent(c) == /\ OnlyAt(c)
             /\ UNCHANGED <<chanCount, counter, loc, cases, armed>>

LEMMA SilentFrame ==
    ASSUME NEW c, Silent(c)
    PROVE  /\ \A op, d : Offers(op, d)' = Offers(op, d)
           /\ \A d : Content(d)' = Content(d)
           /\ \A q : Ready(q)' <=> Ready(q)
           /\ \A q : CasesOK(q)' <=> CasesOK(q)
<1>1. \A op, d : Offers(op, d)' = Offers(op, d)
  BY DEF Silent, Offers, Offering
<1>2. \A d : Content(d)' = Content(d)
  BY <1>1 DEF Silent, Content
<1> QED
  BY <1>1, <1>2 DEF Silent, Ready, CasesOK, Made

LEMMA SilentRest ==
    ASSUME TypeOK, Shape, NEW c \in Chans, automaton[c] \in CommittedChannel, Silent(c),
           automaton'[c] \notin Answering, NEW ps, Around(ps),
           \A q \in Procs : Ready(q),
           \A op, d : d # c => Offers(op, d) \ ps = Offers(op, d),
           Settled(automaton'[c], buffer'[c], Offers("send", c), Offers("receive", c), Content(c))
    PROVE  Shape'
<1>1. /\ \A d \in Chans : d \notin Made' => automaton'[d] = "idle"
      /\ OneCommitted'
      /\ \A d \in Chans : d # c => /\ automaton'[d] \notin CommittedChannel
                                   /\ automaton[d] \notin CommittedChannel
  BY CommittedFrame DEF Silent
<1>2. /\ \A op, d : Offers(op, d)' = Offers(op, d)
      /\ \A d : Content(d)' = Content(d)
      /\ \A q : Ready(q)' <=> Ready(q)
      /\ \A q : CasesOK(q)' <=> CasesOK(q)
  BY SilentFrame
<1>3. ASSUME NEW d \in Chans
      PROVE  SettledAt(d, {})'
  <2>1. CASE d = c
    BY <1>2, <2>1 DEF SettledAt
  <2>2. CASE d # c
    <3>1. SettledAt(d, ps)
      BY DEF Around
    <3>2. automaton'[d] = automaton[d] /\ buffer'[d] = buffer[d]
      BY <2>2 DEF Silent, OnlyAt
    <3>3. \A op : Offers(op, d)' \ {} \subseteq Offers(op, d) \ ps
      BY <1>2, <2>2
    <3> QED
      BY <1>1, <1>2, <2>2, <3>1, <3>2, <3>3, StaysSettled
  <2> QED
    BY <2>1, <2>2
<1>4. Around({})'
  BY <1>2, <1>3 DEF Around
<1>5. \A d \in Chans : automaton'[d] \notin Answering
  BY <1>1 DEF Answering, CommittedChannel
<1>6. \A q \in Procs : CasesOK(q)'
  BY <1>2 DEF Shape
<1> QED
  BY <1>1, <1>4, <1>5, <1>6 DEF Shape, Rest

\* Process p leaves its statement with the confirmation of operation op on c.
Releases(p, op, c) ==
    /\ loc[p] = "waiting" /\ p \in Offers(op, c)
    /\ Others(p)
    /\ loc'[p] \in {"running", "range_received"}
    /\ cases'[p] \in {cases[p], <<>>}
    /\ chanCount' = chanCount
    /\ \A d \in Chans : d # c => counter'[d] = counter[d] - Weight(p, d)

\* Process p takes the confirmation as its case i.
ConfirmedBy(p, i, op, c, x) ==
    /\ Awaits(p, i, op, c)
    /\ counter' = [d \in Chans |-> x[d] - Forward(cases[p], i, d)]
    /\ armed' = [armed EXCEPT ![p] = {}]
    /\ IF kind[p] = "range"
       THEN loc' = [loc EXCEPT ![p] = "range_received"] /\ UNCHANGED <<cases, outcome>>
       ELSE /\ loc' = [loc EXCEPT ![p] = "running"]
            /\ cases' = [cases EXCEPT ![p] = <<>>]
            /\ outcome' = [outcome EXCEPT ![p] = i]
    /\ UNCHANGED <<chanCount, outOfResources, kind, ok, stmts>>

LEMMA ConfirmedReleases ==
    ASSUME TypeOK, \A p \in Procs : CasesOK(p), NEW op \in {"send", "receive"}, NEW c \in Chans,
           NEW x \in [Chans -> Int], \A d \in Chans : d # c => x[d] = counter[d],
           NEW p \in Procs, NEW i \in armed[p], ConfirmedBy(p, i, op, c, x)
    PROVE  Releases(p, op, c) /\ counter'[c] = x[c]
<1>1. /\ Awaits(p, i, op, c)
      /\ counter' = [d \in Chans |-> x[d] - Forward(cases[p], i, d)]
      /\ armed' = [armed EXCEPT ![p] = {}]
      /\ \/ loc' = [loc EXCEPT ![p] = "range_received"] /\ UNCHANGED cases
         \/ loc' = [loc EXCEPT ![p] = "running"] /\ cases' = [cases EXCEPT ![p] = <<>>]
      /\ UNCHANGED chanCount
  BY DEF ConfirmedBy
<1>2. loc[p] = "waiting" /\ cases[p][i] = [op |-> op, ch |-> c]
  BY <1>1 DEF Awaits
<1>3. i \in DOMAIN cases[p] /\ i \in Nat /\ cases[p] \in Seq(Cases) /\ DistinctChannels(cases[p])
  BY <1>2 DEF CasesOK, TypeOK
<1>4. p \in Offers(op, c)
  BY <1>2, <1>3 DEF Offers, Offering, HasCase
<1>5. Others(p)
  BY <1>1 DEF Others, TypeOK
<1>6. loc'[p] \in {"running", "range_received"} /\ cases'[p] \in {cases[p], <<>>}
  BY <1>1 DEF TypeOK
<1>7. ASSUME NEW d \in Chans, d # c
      PROVE  counter'[d] = counter[d] - Weight(p, d)
  <2>1. Offering(p)
    BY <1>2 DEF Offering
  <2>2. Weight(p, d) = Forward(cases[p], 0, d)
    BY <2>1, WeightForward
  <2>3. cases[p][i].ch # d
    BY <1>2, <1>7
  <2>4. Forward(cases[p], i, d) = Forward(cases[p], 0, d)
    BY <1>3, <2>3, ForwardOne
  <2> QED
    BY <1>1, <1>7, <2>2, <2>4
<1>8. counter'[c] = x[c]
  <2>1. Forward(cases[p], i, c) = 0
    BY <1>2, <1>3, ForwardOne
  <2> QED
    BY <1>1, <2>1
<1> QED
  BY <1>1, <1>2, <1>4, <1>5, <1>6, <1>7, <1>8 DEF Releases

LEMMA ConfirmReleases ==
    ASSUME TypeOK, \A p \in Procs : CasesOK(p), NEW op \in {"send", "receive"}, NEW c \in Chans,
           NEW x \in [Chans -> Int], \A d \in Chans : d # c => x[d] = counter[d],
           Confirm(op, c, x)
    PROVE  \E p \in Procs : Releases(p, op, c) /\ counter'[c] = x[c]
<1>1. PICK p \in Procs : \E i \in armed[p] : ConfirmedBy(p, i, op, c, x)
  BY DEF Confirm, ConfirmedBy
<1> QED
  BY <1>1, ConfirmedReleases

LEMMA AfterRelease ==
    ASSUME TypeOK, TypeOK', \A q \in Procs : CasesOK(q), NEW op \in {"send", "receive"},
           NEW c \in Chans, NEW p \in Procs, Releases(p, op, c)
    PROVE  /\ \A o, d : Offers(o, d)' = Offers(o, d) \ {p}
           /\ \A d \in Chans : d # c => Content(d)' = Content(d)
           /\ Content(c)' = Content(c) + counter'[c] - counter[c] + Delta(op)
           /\ \A q \in Procs : CasesOK(q)'
           /\ Ready(p)'
<1>1. Others(p) /\ ~Offering(p)' /\ Ready(p)'
  BY DEF Releases, Offering, Ready
<1>2. ASSUME NEW o, NEW d
      PROVE  Offers(o, d)' = Offers(o, d) \ {p}
  <2>1. Offers(o, d)' \ {p} = Offers(o, d) \ {p}
    BY <1>1, OffersKept
  <2>2. p \notin Offers(o, d)'
    BY <1>1 DEF Offers
  <2> QED
    BY <2>1, <2>2
<1>3. \A d \in Chans : /\ Content(d) \in Int /\ Weight(p, d) \in Int
                       /\ Content(d)' = Content(d) + counter'[d] - counter[d] + Weight(p, d)
  <2> TAKE d \in Chans
  <2>1. Weight(p, d)' = 0
    BY <1>1, NoWeight
  <2>2. counter[d] \in Int /\ counter'[d] \in Int
    BY DEF TypeOK
  <2> QED
    BY <1>1, <2>1, <2>2, ContentStep
<1>4. \A d \in Chans : d # c => Content(d)' = Content(d)
  <2> SUFFICES ASSUME NEW d \in Chans, d # c
               PROVE  Content(d)' = Content(d)
    OBVIOUS
  <2>1. counter[d] \in Int /\ counter'[d] = counter[d] - Weight(p, d)
    BY DEF TypeOK, Releases
  <2> QED
    BY <1>3, <2>1
<1>5. Weight(p, c) = Delta(op)
  <2>1. p \in Offers(op, c)
    BY DEF Releases
  <2> QED
    BY <2>1, OneSide DEF Weight, Delta, In
<1>6. CasesOK(p)'
  BY DEF Releases, CasesOK, DistinctChannels, Made
<1>7. \A q \in Procs : CasesOK(q)'
  <2>1. chanCount' \in Nat /\ chanCount' >= chanCount
    BY DEF Releases, TypeOK
  <2> QED
    BY <1>1, <1>6, <2>1, CasesKept
<1>8. Content(c)' = Content(c) + counter'[c] - counter[c] + Delta(op)
  BY <1>3, <1>5
<1> QED
  BY <1>1, <1>2, <1>4, <1>7, <1>8

LEMMA ReleaseRest ==
    ASSUME TypeOK, TypeOK', Shape, NEW op \in {"send", "receive"}, NEW c \in Chans,
           NEW p \in Procs, Releases(p, op, c), Around({}) \/ Around({p}),
           automaton[c] \in CommittedChannel, OnlyAt(c), automaton'[c] \notin Answering,
           Settled(automaton'[c], buffer'[c], Offers("send", c) \ {p}, Offers("receive", c) \ {p},
                   Content(c) + counter'[c] - counter[c] + Delta(op))
    PROVE  Shape'
<1>1. /\ \A d \in Chans : d \notin Made' => automaton'[d] = "idle"
      /\ OneCommitted'
      /\ \A d \in Chans : d # c => /\ automaton'[d] \notin CommittedChannel
                                   /\ automaton[d] \notin CommittedChannel
  BY CommittedFrame DEF Releases
<1>2. /\ \A o, d : Offers(o, d)' = Offers(o, d) \ {p}
      /\ \A d \in Chans : d # c => Content(d)' = Content(d)
      /\ Content(c)' = Content(c) + counter'[c] - counter[c] + Delta(op)
      /\ \A q \in Procs : CasesOK(q)'
      /\ Ready(p)'
  BY AfterRelease DEF Shape
<1>3. ASSUME NEW d \in Chans
      PROVE  SettledAt(d, {})'
  <2>1. CASE d = c
    <3>1. \A o : Offers(o, c)' \ {} = Offers(o, c) \ {p}
      BY <1>2
    <3> QED
      BY <1>2, <2>1, <3>1 DEF SettledAt
  <2>2. CASE d # c
    <3>1. SettledAt(d, {}) \/ SettledAt(d, {p})
      BY DEF Around
    <3>2. automaton'[d] = automaton[d] /\ buffer'[d] = buffer[d]
      BY <2>2 DEF OnlyAt
    <3>3. \A o : /\ Offers(o, d)' \ {} \subseteq Offers(o, d) \ {}
                 /\ Offers(o, d)' \ {} \subseteq Offers(o, d) \ {p}
      BY <1>2
    <3> QED
      BY <1>1, <1>2, <2>2, <3>1, <3>2, <3>3, StaysSettled
  <2> QED
    BY <2>1, <2>2
<1>4. \A q \in Procs : Ready(q)'
  <2>1. \A q \in Procs : q # p => Ready(q)
    BY DEF Around
  <2> QED
    BY <1>2, <2>1, OthersReady DEF Releases
<1>5. Around({})'
  BY <1>3, <1>4 DEF Around
<1>6. \A d \in Chans : automaton'[d] \notin Answering
  BY <1>1 DEF Answering, CommittedChannel
<1> QED
  BY <1>1, <1>2, <1>5, <1>6 DEF Shape, Rest

-----------------------------------------------------------------------------
\* Each edge of the automaton.

LEMMA TriggerIsOffer ==
    ASSUME NEW p \in Procs, NEW c \in Chans, Answered(p, c), CasesOK(p), Around({p})
    PROVE  LET op == TriggerOf(automaton[c])
               other == IF op = "send" THEN "receive" ELSE "send"
           IN  /\ p \in Offers(op, c) /\ p \notin Offers(other, c)
               /\ SettledAt(c, {p})
<1>1. p \in Offers(TriggerOf(automaton[c]), c)
  BY DEF Answered, Offers, Offering, HasCase
<1> QED
  BY <1>1, OneSide DEF TriggerOf, Around

\* An operation that blocks is the only case of its process: all others are ready.
LEMMA BlocksAlone ==
    ASSUME TypeOK, NEW p \in Procs, NEW c \in Chans, Answered(p, c), Around({p}),
           automaton[c] = "new_sender" => counter[c] > buffer[c],
           automaton[c] = "new_receiver" => counter[c] < 0,
           automaton[c] # "confirming_closed"
    PROVE  /\ \A q \in Procs : Ready(q)
           /\ \A op, d : d # c => Offers(op, d) \ {p} = Offers(op, d)
<1>0. counter[c] \in Int /\ buffer[c] \in Int
  BY DEF TypeOK
<1>1. armed[p] = DOMAIN cases[p]
  BY <1>0 DEF Answered, Answering
<1>2. PICK i \in DOMAIN cases[p] :
        armed[p] = {i} /\ cases[p][i] = [op |-> TriggerOf(automaton[c]), ch |-> c]
  BY DEF Answered
<1>3. ASSUME NEW op, NEW d, d # c
      PROVE  p \notin Offers(op, d)
  <2>1. DOMAIN cases[p] = {i} /\ cases[p][i].ch = c
    BY <1>1, <1>2
  <2>2. ~HasCase(cases[p], op, d)
    BY <1>3, <2>1 DEF HasCase
  <2> QED
    BY <2>2 DEF Offers
<1>4. Ready(p)
  BY <1>1 DEF Ready, Answered
<1> QED
  BY <1>3, <1>4 DEF Around

LEMMA NewSenderBlocksShape ==
    ASSUME TypeOK, Shape, NEW c \in Chans, NewSenderBlocks(c)
    PROVE  Shape'
<1>1. automaton[c] = "new_sender" /\ counter[c] > buffer[c]
  BY DEF NewSenderBlocks, Goto
<1>2. PICK t \in Procs : Around({t}) /\ Answered(t, c)
  BY <1>1, TriggerActs DEF Answering
<1>3. Silent(c) /\ automaton'[c] = "idle" /\ buffer'[c] = buffer[c]
  BY DEF NewSenderBlocks, Goto, Silent, OnlyAt, procVars, TypeOK
<1>4. t \in Offers("send", c) /\ t \notin Offers("receive", c) /\ SettledAt(c, {t})
  BY <1>1, <1>2, TriggerIsOffer DEF TriggerOf, Shape
<1>5. Open(buffer[c], Offers("send", c) \ {t}, Offers("receive", c) \ {t}, Content(c))
  BY <1>1, <1>4 DEF SettledAt, Settled
<1>6. Open(buffer[c], Offers("send", c), Offers("receive", c), Content(c))
  BY <1>1, <1>4, <1>5, ContentCounted, SenderBlocks DEF TypeOK
<1>7. Settled(automaton'[c], buffer'[c], Offers("send", c), Offers("receive", c), Content(c))
  BY <1>3, <1>6 DEF Settled
<1>8. (\A q \in Procs : Ready(q)) /\ (\A op, d : d # c => Offers(op, d) \ {t} = Offers(op, d))
  BY <1>1, <1>2, BlocksAlone
<1> QED
  BY <1>1, <1>2, <1>3, <1>7, <1>8, SilentRest DEF CommittedChannel, Answering

LEMMA NewReceiverBlocksShape ==
    ASSUME TypeOK, Shape, NEW c \in Chans, NewReceiverBlocks(c)
    PROVE  Shape'
<1>1. automaton[c] = "new_receiver" /\ counter[c] < 0
  BY DEF NewReceiverBlocks, Goto
<1>2. PICK t \in Procs : Around({t}) /\ Answered(t, c)
  BY <1>1, TriggerActs DEF Answering
<1>3. Silent(c) /\ automaton'[c] = "idle" /\ buffer'[c] = buffer[c]
  BY DEF NewReceiverBlocks, Goto, Silent, OnlyAt, procVars, TypeOK
<1>4. t \in Offers("receive", c) /\ t \notin Offers("send", c) /\ SettledAt(c, {t})
  BY <1>1, <1>2, TriggerIsOffer DEF TriggerOf, Shape
<1>5. Open(buffer[c], Offers("send", c) \ {t}, Offers("receive", c) \ {t}, Content(c))
  BY <1>1, <1>4 DEF SettledAt, Settled
<1>6. Open(buffer[c], Offers("send", c), Offers("receive", c), Content(c))
  BY <1>1, <1>4, <1>5, ContentCounted, ReceiverBlocks DEF TypeOK
<1>7. Settled(automaton'[c], buffer'[c], Offers("send", c), Offers("receive", c), Content(c))
  BY <1>3, <1>6 DEF Settled
<1>8. (\A q \in Procs : Ready(q)) /\ (\A op, d : d # c => Offers(op, d) \ {t} = Offers(op, d))
  BY <1>1, <1>2, BlocksAlone
<1> QED
  BY <1>1, <1>2, <1>3, <1>7, <1>8, SilentRest DEF CommittedChannel, Answering

\* The edges at rest without a confirmation.
LEMMA SilentAtRest ==
    ASSUME TypeOK, Shape, NEW c \in Chans,
           SentToBuffer(c) \/ ReceivedFromBuffer(c) \/ FinishClosing(c)
    PROVE  Shape'
<1>1. automaton[c] \in {"confirming_a", "confirming_b", "closing"}
  BY DEF SentToBuffer, ReceivedFromBuffer, FinishClosing, Goto
<1>2. Around({}) /\ automaton[c] \in CommittedChannel
  BY <1>1, CommittedRests DEF Rest, CommittedChannel, Answering
<1>3. Silent(c) /\ automaton'[c] \in {"idle", "closed"} /\ buffer'[c] = buffer[c]
  BY DEF SentToBuffer, ReceivedFromBuffer, FinishClosing, Goto, Silent, OnlyAt, procVars, TypeOK
<1>4. Settled(automaton[c], buffer[c], Offers("send", c), Offers("receive", c), Content(c))
  <2>1. \A op : Offers(op, c) \ {} = Offers(op, c)
    OBVIOUS
  <2> QED
    BY <1>2, <2>1 DEF Around, SettledAt
<1>5. Counted(counter[c], Offers("send", c), Offers("receive", c), Content(c)) /\ buffer[c] \in Int
  BY ContentCounted DEF TypeOK
<1>6. Settled(automaton'[c], buffer'[c], Offers("send", c), Offers("receive", c), Content(c))
  <2>1. CASE SentToBuffer(c)
    <3>1. automaton[c] = "confirming_a" /\ automaton'[c] = "idle" /\ counter[c] > 0
      BY <2>1 DEF SentToBuffer, Goto, TypeOK
    <3>2. Open(buffer[c], Offers("send", c), Offers("receive", c), Content(c))
      BY <1>4, <1>5, <3>1, SentStays DEF Settled
    <3> QED
      BY <1>3, <3>1, <3>2 DEF Settled
  <2>2. CASE ReceivedFromBuffer(c)
    <3>1. automaton[c] = "confirming_b" /\ automaton'[c] = "idle" /\ counter[c] < buffer[c]
      BY <2>2 DEF ReceivedFromBuffer, Goto, TypeOK
    <3>2. Open(buffer[c], Offers("send", c), Offers("receive", c), Content(c))
      BY <1>4, <1>5, <3>1, ReceivedFits DEF Settled
    <3> QED
      BY <1>3, <3>1, <3>2 DEF Settled
  <2>3. CASE FinishClosing(c)
    <3>1. automaton[c] = "closing" /\ automaton'[c] = "closed" /\ counter[c] >= 0
      BY <2>3 DEF FinishClosing, Goto, TypeOK
    <3>2. Closed(buffer[c], Offers("send", c), Offers("receive", c), Content(c))
          /\ Offers("receive", c) = {}
      BY <1>4, <1>5, <3>1, ClosingEnds DEF Settled
    <3> QED
      BY <1>3, <3>1, <3>2 DEF Settled
  <2> QED
    BY <2>1, <2>2, <2>3
<1>7. \A q \in Procs : Ready(q)
  BY <1>2 DEF Around
<1>8. \A op, d : d # c => Offers(op, d) \ {} = Offers(op, d)
  OBVIOUS
<1>9. automaton'[c] \notin Answering
  BY <1>3 DEF Answering
<1> QED
  BY <1>2, <1>3, <1>6, <1>7, <1>8, <1>9, SilentRest

LEMMA NewSenderConfirmedShape ==
    ASSUME TypeOK, TypeOK', Shape, NEW c \in Chans, NewSenderConfirmed(c)
    PROVE  Shape'
<1>1. automaton[c] = "new_sender" /\ counter[c] <= buffer[c] /\ Confirm("send", c, counter)
  BY DEF NewSenderConfirmed, Goto
<1>2. PICK t \in Procs : Around({t}) /\ Answered(t, c)
  BY <1>1, TriggerActs DEF Answering
<1>3. OnlyAt(c) /\ automaton'[c] = "confirming_a" /\ buffer'[c] = buffer[c]
  BY DEF NewSenderConfirmed, Goto, OnlyAt, TypeOK
<1>4. PICK p \in Procs : Releases(p, "send", c) /\ counter'[c] = counter[c]
  BY <1>1, ConfirmReleases DEF TypeOK, Shape
<1>5. t \in Offers("send", c) /\ t \notin Offers("receive", c) /\ SettledAt(c, {t})
  BY <1>1, <1>2, TriggerIsOffer DEF TriggerOf, Shape
<1>6. Open(buffer[c], Offers("send", c) \ {t}, Offers("receive", c) \ {t}, Content(c))
  BY <1>1, <1>5 DEF SettledAt, Settled
<1>7. /\ Offers("send", c) = {t}
      /\ Sent(buffer[c], Offers("send", c) \ {t}, Offers("receive", c) \ {t}, Content(c) + 1)
  BY <1>1, <1>5, <1>6, ContentCounted, SenderPasses DEF TypeOK
<1>8. p = t
  BY <1>4, <1>7 DEF Releases
<1>9. Content(c) + counter'[c] - counter[c] + Delta("send") = Content(c) + 1
  <2>1. counter[c] \in Int /\ Content(c) \in Int
    BY ContentCounted DEF TypeOK, Counted
  <2> QED
    BY <1>4, <2>1 DEF Delta
<1>10. Settled(automaton'[c], buffer'[c], Offers("send", c) \ {p}, Offers("receive", c) \ {p},
               Content(c) + counter'[c] - counter[c] + Delta("send"))
  BY <1>3, <1>7, <1>8, <1>9 DEF Settled
<1> QED
  BY <1>1, <1>2, <1>3, <1>4, <1>8, <1>10, ReleaseRest DEF CommittedChannel, Answering

LEMMA NewReceiverConfirmedShape ==
    ASSUME TypeOK, TypeOK', Shape, NEW c \in Chans, NewReceiverConfirmed(c)
    PROVE  Shape'
<1>1. automaton[c] = "new_receiver" /\ counter[c] >= 0 /\ Confirm("receive", c, counter)
  BY DEF NewReceiverConfirmed, Goto
<1>2. PICK t \in Procs : Around({t}) /\ Answered(t, c)
  BY <1>1, TriggerActs DEF Answering
<1>3. OnlyAt(c) /\ automaton'[c] = "confirming_b" /\ buffer'[c] = buffer[c]
  BY DEF NewReceiverConfirmed, Goto, OnlyAt, TypeOK
<1>4. PICK p \in Procs : Releases(p, "receive", c) /\ counter'[c] = counter[c]
  BY <1>1, ConfirmReleases DEF TypeOK, Shape
<1>5. t \in Offers("receive", c) /\ t \notin Offers("send", c) /\ SettledAt(c, {t})
  BY <1>1, <1>2, TriggerIsOffer DEF TriggerOf, Shape
<1>6. Open(buffer[c], Offers("send", c) \ {t}, Offers("receive", c) \ {t}, Content(c))
  BY <1>1, <1>5 DEF SettledAt, Settled
<1>7. /\ Offers("receive", c) = {t}
      /\ Received(buffer[c], Offers("send", c) \ {t}, Offers("receive", c) \ {t}, Content(c) - 1)
  BY <1>1, <1>5, <1>6, ContentCounted, ReceiverPasses DEF TypeOK
<1>8. p = t
  BY <1>4, <1>7 DEF Releases
<1>9. Content(c) + counter'[c] - counter[c] + Delta("receive") = Content(c) - 1
  <2>1. counter[c] \in Int /\ Content(c) \in Int
    BY ContentCounted DEF TypeOK, Counted
  <2> QED
    BY <1>4, <2>1 DEF Delta
<1>10. Settled(automaton'[c], buffer'[c], Offers("send", c) \ {p}, Offers("receive", c) \ {p},
               Content(c) + counter'[c] - counter[c] + Delta("receive"))
  BY <1>3, <1>7, <1>8, <1>9 DEF Settled
<1> QED
  BY <1>1, <1>2, <1>3, <1>4, <1>8, <1>10, ReleaseRest DEF CommittedChannel, Answering

LEMMA ReceiveFromClosedShape ==
    ASSUME TypeOK, TypeOK', Shape, NEW c \in Chans, ReceiveFromClosed(c)
    PROVE  Shape'
<1>1. /\ automaton[c] = "confirming_closed"
      /\ Confirm("receive", c, [counter EXCEPT ![c] = IF @ >= 0 THEN @ ELSE 0])
  BY DEF ReceiveFromClosed, Goto
<1>2. PICK t \in Procs : Around({t}) /\ Answered(t, c)
  BY <1>1, TriggerActs DEF Answering
<1>3. OnlyAt(c) /\ automaton'[c] = "closed" /\ buffer'[c] = buffer[c]
  BY DEF ReceiveFromClosed, Goto, OnlyAt, TypeOK
<1>4. PICK p \in Procs : /\ Releases(p, "receive", c)
                         /\ counter'[c] = IF counter[c] >= 0 THEN counter[c] ELSE 0
  <2> DEFINE x == [counter EXCEPT ![c] = IF @ >= 0 THEN @ ELSE 0]
  <2>1. x \in [Chans -> Int] /\ (\A d \in Chans : d # c => x[d] = counter[d])
        /\ x[c] = IF counter[c] >= 0 THEN counter[c] ELSE 0
    BY DEF TypeOK
  <2>2. Confirm("receive", c, x)
    BY <1>1
  <2> HIDE DEF x
  <2> QED
    BY <2>1, <2>2, ConfirmReleases DEF Shape
<1>5. t \in Offers("receive", c) /\ t \notin Offers("send", c) /\ SettledAt(c, {t})
  BY <1>1, <1>2, TriggerIsOffer DEF TriggerOf, Shape
<1>6. /\ Closed(buffer[c], Offers("send", c) \ {t}, Offers("receive", c) \ {t}, Content(c))
      /\ Offers("receive", c) \ {t} = {}
  BY <1>1, <1>5 DEF SettledAt, Settled
<1>7. /\ Offers("receive", c) = {t}
      /\ Closed(buffer[c], Offers("send", c) \ {t}, Offers("receive", c) \ {t},
                Content(c) - 1 + (IF counter[c] >= 0 THEN counter[c] ELSE 0) - counter[c])
  BY <1>1, <1>5, <1>6, ContentCounted, ClosedAnswers DEF TypeOK
<1>8. p = t
  BY <1>4, <1>7 DEF Releases
<1>9. Content(c) + counter'[c] - counter[c] + Delta("receive")
        = Content(c) - 1 + (IF counter[c] >= 0 THEN counter[c] ELSE 0) - counter[c]
  <2>1. counter[c] \in Int /\ Content(c) \in Int
    BY ContentCounted DEF TypeOK, Counted
  <2> QED
    BY <1>4, <2>1 DEF Delta
<1>10. Settled(automaton'[c], buffer'[c], Offers("send", c) \ {p}, Offers("receive", c) \ {p},
               Content(c) + counter'[c] - counter[c] + Delta("receive"))
  BY <1>3, <1>6, <1>7, <1>8, <1>9 DEF Settled
<1> QED
  BY <1>1, <1>2, <1>3, <1>4, <1>8, <1>10, ReleaseRest DEF CommittedChannel, Answering

\* The edges at rest that confirm an operation.
LEMMA ReleaseAtRest ==
    ASSUME TypeOK, TypeOK', Shape, NEW c \in Chans,
           SentToReceiver(c) \/ ReceivedAndRefilled(c) \/ ReleaseReceiver(c)
    PROVE  Shape'
<1>1. automaton[c] \in {"confirming_a", "confirming_b", "closing"}
  BY DEF SentToReceiver, ReceivedAndRefilled, ReleaseReceiver, Goto
<1>2. Around({}) /\ automaton[c] \in CommittedChannel
  BY <1>1, CommittedRests DEF Rest, CommittedChannel, Answering
<1>3. OnlyAt(c) /\ buffer'[c] = buffer[c] /\ automaton'[c] \notin Answering
  BY DEF SentToReceiver, ReceivedAndRefilled, ReleaseReceiver, Goto, OnlyAt, TypeOK, Answering
<1>4. Settled(automaton[c], buffer[c], Offers("send", c), Offers("receive", c), Content(c))
  <2>1. \A op : Offers(op, c) \ {} = Offers(op, c)
    OBVIOUS
  <2> QED
    BY <1>2, <2>1 DEF Around, SettledAt
<1>5. /\ Counted(counter[c], Offers("send", c), Offers("receive", c), Content(c))
      /\ buffer[c] \in Int /\ counter[c] \in Int /\ Content(c) \in Int
  BY ContentCounted DEF TypeOK, Counted
<1>6. CASE SentToReceiver(c)
  <2>1. automaton[c] = "confirming_a" /\ automaton'[c] = "idle" /\ Confirm("receive", c, counter)
    BY <1>6 DEF SentToReceiver, Goto, TypeOK
  <2>2. PICK p \in Procs : Releases(p, "receive", c) /\ counter'[c] = counter[c]
    BY <2>1, ConfirmReleases DEF TypeOK, Shape
  <2>3. p \in Offers("receive", c) /\ p \notin Offers("send", c)
    BY <2>2, OneSide DEF Releases, Shape
  <2>4. Open(buffer[c], Offers("send", c) \ {p}, Offers("receive", c) \ {p}, Content(c) - 1)
    BY <1>4, <1>5, <2>1, <2>3, SentLeaves DEF Settled
  <2>5. Content(c) + counter'[c] - counter[c] + Delta("receive") = Content(c) - 1
    BY <1>5, <2>2 DEF Delta
  <2>6. Settled(automaton'[c], buffer'[c], Offers("send", c) \ {p}, Offers("receive", c) \ {p},
                Content(c) + counter'[c] - counter[c] + Delta("receive"))
    BY <1>3, <2>1, <2>4, <2>5 DEF Settled
  <2> QED
    BY <1>2, <1>3, <2>2, <2>6, ReleaseRest
<1>7. CASE ReceivedAndRefilled(c)
  <2>1. automaton[c] = "confirming_b" /\ automaton'[c] = "idle" /\ Confirm("send", c, counter)
    BY <1>7 DEF ReceivedAndRefilled, Goto, TypeOK
  <2>2. PICK p \in Procs : Releases(p, "send", c) /\ counter'[c] = counter[c]
    BY <2>1, ConfirmReleases DEF TypeOK, Shape
  <2>3. p \in Offers("send", c) /\ p \notin Offers("receive", c)
    BY <2>2, OneSide DEF Releases, Shape
  <2>4. Open(buffer[c], Offers("send", c) \ {p}, Offers("receive", c) \ {p}, Content(c) + 1)
    BY <1>4, <1>5, <2>1, <2>3, ReceivedRefills DEF Settled
  <2>5. Content(c) + counter'[c] - counter[c] + Delta("send") = Content(c) + 1
    BY <1>5, <2>2 DEF Delta
  <2>6. Settled(automaton'[c], buffer'[c], Offers("send", c) \ {p}, Offers("receive", c) \ {p},
                Content(c) + counter'[c] - counter[c] + Delta("send"))
    BY <1>3, <2>1, <2>4, <2>5 DEF Settled
  <2> QED
    BY <1>2, <1>3, <2>2, <2>6, ReleaseRest
<1>8. CASE ReleaseReceiver(c)
  <2>1. /\ automaton[c] = "closing" /\ automaton'[c] = "closing"
        /\ Confirm("receive", c, [counter EXCEPT ![c] = @ + 1])
    BY <1>8 DEF ReleaseReceiver, Goto, TypeOK
  <2>2. PICK p \in Procs : Releases(p, "receive", c) /\ counter'[c] = counter[c] + 1
    <3> DEFINE x == [counter EXCEPT ![c] = @ + 1]
    <3>1. x \in [Chans -> Int] /\ (\A d \in Chans : d # c => x[d] = counter[d])
          /\ x[c] = counter[c] + 1
      BY DEF TypeOK
    <3>2. Confirm("receive", c, x)
      BY <2>1
    <3> HIDE DEF x
    <3> QED
      BY <3>1, <3>2, ConfirmReleases DEF Shape
  <2>3. Closed(buffer[c], Offers("send", c) \ {p}, Offers("receive", c) \ {p}, Content(c))
    BY <1>4, <1>5, <2>1, ClosingReleases DEF Settled
  <2>4. Content(c) + counter'[c] - counter[c] + Delta("receive") = Content(c)
    BY <1>5, <2>2 DEF Delta
  <2>5. Settled(automaton'[c], buffer'[c], Offers("send", c) \ {p}, Offers("receive", c) \ {p},
                Content(c) + counter'[c] - counter[c] + Delta("receive"))
    BY <1>3, <2>1, <2>3, <2>4 DEF Settled
  <2> QED
    BY <1>2, <1>3, <2>2, <2>5, ReleaseRest
<1> QED
  BY <1>6, <1>7, <1>8

LEMMA ChannelStepShape ==
    ASSUME TypeOK, TypeOK', Shape, NEW c \in Chans, ChannelStep(c)
    PROVE  Shape'
BY NewSenderBlocksShape, NewReceiverBlocksShape, SilentAtRest, NewSenderConfirmedShape,
   NewReceiverConfirmedShape, ReceiveFromClosedShape, ReleaseAtRest DEF ChannelStep

-----------------------------------------------------------------------------
\* The steps of a process.

\* At rest, and while one process polls, no automaton is committed.
LEMMA QuietOne ==
    ASSUME NEW c \in Chans, \A d \in Chans : automaton[d] \notin CommittedChannel, OnlyAt(c)
    PROVE  OneCommitted'
BY DEF OneCommitted, OnlyAt

\* A process that only waits from now on or stops waiting keeps the contents, if it keeps
\* its weight and the counters, or changes both alike.
LEMMA ContentKept ==
    ASSUME TypeOK, TypeOK', NEW p \in Procs, Others(p), NEW d \in Chans, NEW w \in Int,
           counter'[d] = counter[d] + w, Weight(p, d)' = Weight(p, d) + w
    PROVE  Content(d)' = Content(d)
<1>1. counter[d] \in Int
  BY DEF TypeOK
<1> QED
  BY <1>1, ContentStep

LEMMA MakeChanShape ==
    ASSUME TypeOK, TypeOK', Shape, NEW p \in Procs, NEW n \in BufferSizes, MakeChan(p, n)
    PROVE  Shape'
<1>1. Rest
  BY QuietRests DEF MakeChan
<1>2. /\ UNCHANGED <<automaton, loc, cases, armed>>
      /\ chanCount' = chanCount + 1 /\ chanCount \in Nat
  BY DEF MakeChan, procVars, TypeOK
<1>3. \A op, d : Offers(op, d)' = Offers(op, d)
  BY <1>2 DEF Offers, Offering
<1>4. Made \subseteq Made'
  BY <1>2 DEF Made, Chans
<1>5. (\A d \in Chans : d \notin Made' => automaton'[d] = "idle") /\ (\A q \in Procs : CasesOK(q)')
      /\ OneCommitted'
  BY <1>2, <1>4 DEF Shape, CasesOK, OneCommitted
<1>6. ASSUME NEW d \in Chans
      PROVE  SettledAt(d, {})'
  <2>1. SettledAt(d, {})
    BY <1>1 DEF Rest, Around
  <2>2. CASE counter'[d] = counter[d] /\ buffer'[d] = buffer[d]
    <3>1. Content(d)' = Content(d)
      BY <1>3, <2>2 DEF Content
    <3> QED
      BY <1>2, <1>3, <2>1, <2>2, <3>1 DEF SettledAt
  <2>3. CASE ~(counter'[d] = counter[d] /\ buffer'[d] = buffer[d])
    <3>1. d = chanCount /\ counter'[d] = 0 /\ buffer'[d] = n
      BY <2>3 DEF MakeChan, TypeOK
    <3>2. d \notin Made
      BY <3>1, <1>2 DEF Made, Chans
    <3>3. \A op : Offers(op, d) = {}
      BY <3>2 DEF Shape, CasesOK, Offers, HasCase
    <3>4. \A op : Offers(op, d)' = {}
      BY <1>3, <3>3
    <3>5. Content(d)' = 0
      <4>1. Content(d)' = counter'[d] - Cardinality(Offers("send", d)')
                            + Cardinality(Offers("receive", d)')
        BY DEF Content
      <4> QED
        BY <3>1, <3>4, <4>1, FS_EmptySet
    <3>6. n \in Nat /\ automaton'[d] = "idle"
      BY <1>2, <3>2, ConstantsAssumption DEF Shape
    <3>7. Open(n, {}, {}, 0)
      BY <3>6 DEF Open
    <3>8. \A op : Offers(op, d)' \ {} = {}
      BY <3>4
    <3> QED
      BY <3>1, <3>5, <3>6, <3>7, <3>8 DEF SettledAt, Settled
  <2> QED
    BY <2>2, <2>3
<1>7. Around({})'
  BY <1>1, <1>2, <1>6 DEF Rest, Around, Ready
<1>8. Rest'
  BY <1>1, <1>2, <1>7 DEF Rest
<1> QED
  BY <1>5, <1>8 DEF Shape

\* What SendOrReceive and RangeReceive have in common.
Issues(p, op, c) ==
    /\ Quiet /\ loc[p] = "running" /\ c \in Made /\ Triggered(c, op)
    /\ counter' = [counter EXCEPT ![c] = @ + Delta(op)]
    /\ loc'[p] = "waiting" /\ cases'[p] = <<[op |-> op, ch |-> c]>> /\ armed'[p] = {1}
    /\ Others(p)
    /\ UNCHANGED <<chanCount, buffer>>

LEMMA OperationIssues ==
    ASSUME TypeOK, NEW p \in Procs, NEW c \in Made,
           \/ \E op \in {"send", "receive"} : SendOrReceive(p, op, c)
           \/ RangeReceive(p, c)
    PROVE  \E op \in {"send", "receive"} : Issues(p, op, c)
<1>1. ASSUME NEW op \in {"send", "receive"}, SendOrReceive(p, op, c)
      PROVE  Issues(p, op, c)
  BY <1>1 DEF SendOrReceive, Issues, Start, Others, TypeOK
<1>2. ASSUME RangeReceive(p, c)
      PROVE  Issues(p, "receive", c)
  <2>1. counter' = [counter EXCEPT ![c] = @ + Delta("receive")]
    BY <1>2 DEF RangeReceive, Delta, TypeOK
  <2> QED
    BY <1>2, <2>1 DEF RangeReceive, Issues, Start, Others, TypeOK
<1> QED
  BY <1>1, <1>2

LEMMA IssuesShape ==
    ASSUME TypeOK, TypeOK', Shape, ~Panicked', NEW p \in Procs, NEW c \in Chans,
           NEW op \in {"send", "receive"}, Issues(p, op, c)
    PROVE  /\ Shape' /\ Acts(p)'
           /\ \A d \in Chans : Content(d)' = Content(d)
<1>1. Around({}) /\ (\A d \in Chans : automaton[d] \notin CommittedChannel)
  BY QuietRests DEF Issues, Rest, Quiet
<1>2. /\ OnlyAt(c)
      /\ \/ op = "send" /\ automaton[c] = "idle" /\ automaton'[c] = "new_sender"
         \/ op = "receive" /\ automaton[c] = "idle" /\ automaton'[c] = "new_receiver"
         \/ op = "receive" /\ automaton[c] = "closed" /\ automaton'[c] = "confirming_closed"
  BY DEF Issues, Triggered, Goto, OnlyAt, TypeOK, Panicked
<1>3. Others(p) /\ ~Offering(p) /\ Offering(p)'
  BY DEF Issues, Offering
<1>4. \A o, d : p \in Offers(o, d)' <=> o = op /\ d = c
  <2>1. cases'[p] = <<[op |-> op, ch |-> c]>> /\ DOMAIN cases'[p] = {1}
    BY DEF Issues
  <2>2. \A o, d : HasCase(cases'[p], o, d) <=> o = op /\ d = c
    BY <2>1 DEF HasCase
  <2> QED
    BY <1>3, <2>2 DEF Offers
<1>5. ASSUME NEW d \in Chans
      PROVE  Content(d)' = Content(d)
  <2>1. Weight(p, d) = 0
    BY <1>3, NoWeight
  <2>2. Weight(p, d)' = IF d = c THEN Delta(op) ELSE 0
    BY <1>4 DEF Weight, In, Delta
  <2>3. counter'[d] = counter[d] + (IF d = c THEN Delta(op) ELSE 0)
    BY DEF Issues, TypeOK
  <2>4. (IF d = c THEN Delta(op) ELSE 0) \in Int
    BY DEF Delta
  <2> QED
    BY <1>3, <2>1, <2>2, <2>3, <2>4, ContentKept
<1>6. \A o, d : Offers(o, d)' \ {p} = Offers(o, d) \ {}
  <2> TAKE o, d
  <2>1. Offers(o, d)' \ {p} = Offers(o, d) \ {p}
    BY <1>3, OffersKept
  <2>2. p \notin Offers(o, d)
    BY <1>3 DEF Offers
  <2> QED
    BY <2>1, <2>2
<1>7. \A d \in Chans : SettledAt(d, {p})'
  <2> TAKE d \in Chans
  <2>1. SettledAt(d, {}) /\ buffer'[d] = buffer[d]
    BY <1>1 DEF Around, Issues
  <2>2. CASE d # c
    <3>1. automaton'[d] = automaton[d]
      BY <1>2, <2>2 DEF OnlyAt
    <3> QED
      BY <1>5, <1>6, <2>1, <3>1 DEF SettledAt
  <2>3. CASE d = c
    <3>1. Settled(automaton[c], buffer[c], Offers("send", c)' \ {p}, Offers("receive", c)' \ {p},
                  Content(c)')
      BY <1>5, <1>6, <2>1, <2>3 DEF SettledAt
    <3>2. Settled(automaton'[c], buffer'[c], Offers("send", c)' \ {p}, Offers("receive", c)' \ {p},
                  Content(c)')
      BY <1>2, <2>1, <2>3, <3>1 DEF Settled
    <3> QED
      BY <2>3, <3>2 DEF SettledAt
  <2> QED
    BY <2>2, <2>3
<1>8. Around({p})'
  <2>1. \A q \in Procs : q # p => Ready(q)'
    BY <1>1, <1>3, OthersReady DEF Around
  <2> QED
    BY <1>7, <2>1 DEF Around
<1>9. Answered(p, c)'
  <2>1. /\ loc'[p] = "waiting" /\ armed'[p] = {1} /\ DOMAIN cases'[p] = {1}
        /\ cases'[p][1] = [op |-> op, ch |-> c]
    BY DEF Issues
  <2>2. automaton'[c] \in Answering /\ TriggerOf(automaton'[c]) = op
    BY <1>2 DEF Answering, TriggerOf
  <2> QED
    BY <2>1, <2>2 DEF Answered
<1>10. \A q \in Procs : CasesOK(q)'
  <2>1. CasesOK(p)'
    BY DEF Issues, CasesOK, DistinctChannels, Made
  <2>2. chanCount' \in Nat /\ chanCount' >= chanCount
    BY DEF Issues, TypeOK
  <2> QED
    BY <1>3, <2>1, <2>2, CasesKept DEF Shape
<1>11. \A d \in Chans : d \notin Made' => automaton'[d] = "idle"
  BY <1>2 DEF Shape, OnlyAt, Issues, Made
<1>12. OneCommitted'
  BY <1>1, <1>2, QuietOne
<1> QED
  BY <1>5, <1>8, <1>9, <1>10, <1>11, <1>12 DEF Shape, Acts

LEMMA EnterSelectShape ==
    ASSUME MenusDistinct, TypeOK, TypeOK', Shape, NEW p \in Procs, NEW menu \in Menus, NEW k,
           \A i \in DOMAIN menu : menu[i].ch \in Made, EnterSelect(p, menu, k)
    PROVE  /\ Shape' /\ Acts(p)'
           /\ \A d \in Chans : Content(d)' = Content(d)
<1>1. Around({}) /\ (\A d \in Chans : automaton[d] \notin CommittedChannel)
  BY QuietRests DEF EnterSelect, Start, Rest, Quiet
<1>2. /\ loc[p] = "running" /\ loc'[p] = "select_pass_1" /\ cases'[p] = menu
      /\ Others(p)
      /\ UNCHANGED <<chanCount, buffer, automaton>>
      /\ \A d \in Chans : counter'[d] = counter[d] + Forward(menu, 0, d)
  BY DEF EnterSelect, Start, Others, TypeOK
<1>3. menu \in Seq(Cases) /\ DistinctChannels(menu)
  BY CasesAreSequences DEF MenusDistinct
<1>4. ~Offering(p) /\ Offering(p)'
  BY <1>2 DEF Offering
<1>5. ASSUME NEW d \in Chans
      PROVE  Content(d)' = Content(d)
  <2>1. Weight(p, d) = 0
    BY <1>4, NoWeight
  <2>2. \A op : p \in Offers(op, d)' <=> HasCase(menu, op, d)
    BY <1>2, <1>4 DEF Offers
  <2>3. Weight(p, d)' = Forward(menu, 0, d)
    BY <1>3, <2>2, ForwardOne DEF Weight, In
  <2>4. Forward(menu, 0, d) \in Int
    BY <1>3, ForwardType
  <2> QED
    BY <1>2, <2>1, <2>3, <2>4, ContentKept
<1>6. \A o, d : Offers(o, d)' \ {p} = Offers(o, d) \ {}
  <2> TAKE o, d
  <2>1. Offers(o, d)' \ {p} = Offers(o, d) \ {p}
    BY <1>2, OffersKept
  <2>2. p \notin Offers(o, d)
    BY <1>4 DEF Offers
  <2> QED
    BY <2>1, <2>2
<1>7. Around({p})'
  <2>1. \A d \in Chans : SettledAt(d, {p})'
    BY <1>1, <1>2, <1>5, <1>6 DEF Around, SettledAt
  <2>2. \A q \in Procs : q # p => Ready(q)'
    BY <1>1, <1>2, OthersReady DEF Around
  <2> QED
    BY <2>1, <2>2 DEF Around
<1>8. Polls(p)'
  BY <1>1, <1>2 DEF Polls
<1>9. \A q \in Procs : CasesOK(q)'
  <2>1. CasesOK(p)'
    BY <1>2, <1>3 DEF CasesOK, DistinctChannels, Made
  <2>2. chanCount' \in Nat /\ chanCount' >= chanCount
    BY <1>2 DEF TypeOK
  <2> QED
    BY <1>2, <2>1, <2>2, CasesKept DEF Shape
<1>10. (\A d \in Chans : d \notin Made' => automaton'[d] = "idle") /\ OneCommitted'
  BY <1>1, <1>2 DEF Shape, Made, OneCommitted
<1> QED
  BY <1>5, <1>7, <1>8, <1>9, <1>10 DEF Shape, Acts

\* What the three steps of a polling process have in common.
LEMMA PollerFrame ==
    ASSUME TypeOK, Shape, NEW p \in Procs, loc[p] = "select_pass_1"
    PROVE  /\ Around({p}) /\ Offering(p) /\ CasesOK(p)
           /\ cases[p] \in Seq(Cases) /\ DistinctChannels(cases[p])
           /\ \A d \in Chans : automaton[d] \notin CommittedChannel
           /\ \A d \in Chans : SettledAt(d, {p})
BY PollerActs DEF Polls, Offering, CasesOK, Shape, TypeOK, Around

LEMMA SelectTriggerShape ==
    ASSUME TypeOK, TypeOK', Shape, ~Panicked', NEW p \in Procs, NEW i \in DOMAIN cases[p],
           SelectTrigger(p, i)
    PROVE  /\ Shape' /\ Acts(p)'
           /\ \A d \in Chans : Content(d)' = Content(d)
<1>1. loc[p] = "select_pass_1"
  BY DEF SelectTrigger
<1>2. /\ Around({p}) /\ Offering(p) /\ CasesOK(p)
      /\ cases[p] \in Seq(Cases)
      /\ \A d \in Chans : automaton[d] \notin CommittedChannel
      /\ \A d \in Chans : SettledAt(d, {p})
  BY <1>1, PollerFrame
<1>3. cases[p][i] \in Cases
  BY <1>2
<1>4. PICK c \in Chans, op \in {"send", "receive"} : cases[p][i] = [op |-> op, ch |-> c]
  BY <1>3 DEF Cases
<1>5. /\ loc'[p] = "waiting" /\ armed'[p] = {i} /\ Others(p)
      /\ UNCHANGED <<chanCount, counter, buffer, cases>>
      /\ Possible(cases[p][i]) /\ Triggered(c, op)
  BY <1>4 DEF SelectTrigger, Others, TypeOK
<1>6. /\ OnlyAt(c)
      /\ \/ op = "send" /\ automaton[c] = "idle" /\ automaton'[c] = "new_sender"
         \/ op = "receive" /\ automaton[c] = "idle" /\ automaton'[c] = "new_receiver"
         \/ op = "receive" /\ automaton[c] = "closed" /\ automaton'[c] = "confirming_closed"
  BY <1>4, <1>5 DEF Triggered, Goto, OnlyAt, TypeOK, Panicked
<1>7. \A o, d : Offers(o, d)' = Offers(o, d)
  <2> TAKE o, d
  <2>1. \A q : q \in Offers(o, d)' <=> q \in Offers(o, d)
    BY <1>1, <1>5 DEF Offers, Offering, Others
  <2> QED
    BY ONLY <2>1
<1>8. \A d : Content(d)' = Content(d)
  BY <1>5, <1>7 DEF Content
<1>9. \A d \in Chans : SettledAt(d, {p})'
  <2> TAKE d \in Chans
  <2>1. SettledAt(d, {p}) /\ buffer'[d] = buffer[d]
    BY <1>2, <1>5
  <2>2. CASE d # c
    <3>1. automaton'[d] = automaton[d]
      BY <1>6, <2>2 DEF OnlyAt
    <3> QED
      BY <1>7, <1>8, <2>1, <3>1 DEF SettledAt
  <2>3. CASE d = c
    <3>1. Settled(automaton'[c], buffer[c], Offers("send", c) \ {p}, Offers("receive", c) \ {p},
                  Content(c))
      BY <1>6, <2>1, <2>3 DEF SettledAt, Settled
    <3> QED
      BY <1>7, <1>8, <2>1, <2>3, <3>1 DEF SettledAt
  <2> QED
    BY <2>2, <2>3
<1>10. Around({p})'
  <2>1. \A q \in Procs : q # p => Ready(q)'
    BY <1>2, <1>5, OthersReady DEF Around
  <2> QED
    BY <1>9, <2>1 DEF Around
<1>11. Answered(p, c)'
  <2>1. automaton'[c] \in Answering /\ TriggerOf(automaton'[c]) = op
    BY <1>6 DEF Answering, TriggerOf
  <2>2. automaton[c] = "idle" => buffer[c] >= 0
    <3>1. SettledAt(c, {p}) /\ buffer[c] \in Int
      BY <1>2, <1>4 DEF TypeOK
    <3> QED
      BY <3>1 DEF SettledAt, Settled, Open
  <2>3. /\ automaton'[c] = "new_sender" => counter[c] <= buffer[c]
        /\ automaton'[c] = "new_receiver" => counter[c] >= 0
    <3>1. \/ buffer[c] < 0
          \/ op = "send" /\ counter[c] <= buffer[c]
          \/ op = "receive" /\ counter[c] >= 0
      BY <1>4, <1>5 DEF Possible
    <3>2. buffer[c] \in Int
      BY <1>4 DEF TypeOK
    <3> QED
      BY <1>6, <2>2, <3>1, <3>2
  <2>4. i \in DOMAIN cases'[p] /\ cases'[p][i] = [op |-> op, ch |-> c]
    BY <1>4, <1>5
  <2> QED
    BY <1>5, <2>1, <2>3, <2>4 DEF Answered
<1>12. \A q \in Procs : CasesOK(q)'
  <2>1. CasesOK(p)'
    BY <1>2, <1>5 DEF CasesOK, DistinctChannels, Made
  <2>2. chanCount' \in Nat /\ chanCount' >= chanCount
    BY <1>5 DEF TypeOK
  <2> QED
    BY <1>5, <2>1, <2>2, CasesKept DEF Shape
<1>13. \A d \in Chans : d \notin Made' => automaton'[d] = "idle"
  <2>1. c \in Made
    BY <1>2, <1>4 DEF CasesOK
  <2> QED
    BY <1>5, <1>6, <2>1 DEF Shape, OnlyAt, Made
<1>14. OneCommitted'
  BY <1>2, <1>4, <1>6, QuietOne
<1> QED
  BY <1>8, <1>4, <1>10, <1>11, <1>12, <1>13, <1>14 DEF Shape, Acts

LEMMA SelectDefaultShape ==
    ASSUME TypeOK, TypeOK', Shape, NEW p \in Procs, SelectDefault(p)
    PROVE  /\ Shape'
           /\ \A d \in Chans : Content(d)' = Content(d)
<1>1. loc[p] = "select_pass_1"
  BY DEF SelectDefault
<1>2. /\ Around({p}) /\ Offering(p) /\ CasesOK(p)
      /\ cases[p] \in Seq(Cases)
      /\ \A d \in Chans : automaton[d] \notin CommittedChannel
      /\ \A d \in Chans : SettledAt(d, {p})
  BY <1>1, PollerFrame
<1>3. /\ loc'[p] = "running" /\ cases'[p] = <<>> /\ Others(p)
      /\ UNCHANGED <<chanCount, buffer, automaton>>
      /\ \A d \in Chans : counter'[d] = counter[d] - Forward(cases[p], 0, d)
  BY DEF SelectDefault, Others, TypeOK
<1>4. ~Offering(p)' /\ Ready(p)'
  BY <1>3 DEF Offering, Ready
<1>5. ASSUME NEW d \in Chans
      PROVE  Content(d)' = Content(d)
  <2>1. Weight(p, d)' = 0
    BY <1>4, NoWeight
  <2>2. Weight(p, d) = Forward(cases[p], 0, d)
    BY <1>2, WeightForward
  <2>3. Forward(cases[p], 0, d) \in Int /\ counter[d] \in Int
    BY <1>2, ForwardType DEF TypeOK
  <2>4. /\ counter'[d] = counter[d] + (0 - Forward(cases[p], 0, d))
        /\ Weight(p, d)' = Weight(p, d) + (0 - Forward(cases[p], 0, d))
        /\ 0 - Forward(cases[p], 0, d) \in Int
    BY <1>3, <2>1, <2>2, <2>3
  <2> QED
    BY <1>3, <2>4, ContentKept
<1>6. \A o, d : Offers(o, d)' \ {} = Offers(o, d) \ {p}
  <2> TAKE o, d
  <2>1. Offers(o, d)' \ {p} = Offers(o, d) \ {p}
    BY <1>3, OffersKept
  <2>2. p \notin Offers(o, d)'
    BY <1>4 DEF Offers
  <2> QED
    BY <2>1, <2>2
<1>7. Around({})'
  <2>1. \A d \in Chans : SettledAt(d, {})'
    BY <1>2, <1>3, <1>5, <1>6 DEF SettledAt
  <2>2. \A q \in Procs : Ready(q)'
    BY <1>2, <1>3, <1>4, OthersReady DEF Around
  <2> QED
    BY <2>1, <2>2 DEF Around
<1>8. \A q \in Procs : CasesOK(q)'
  <2>1. CasesOK(p)'
    BY <1>3, NoCases
  <2>2. chanCount' \in Nat /\ chanCount' >= chanCount
    BY <1>3 DEF TypeOK
  <2> QED
    BY <1>3, <2>1, <2>2, CasesKept DEF Shape
<1>9. (\A d \in Chans : d \notin Made' => automaton'[d] = "idle") /\ OneCommitted'
  BY <1>3 DEF Shape, Made, OneCommitted
<1>10. \A d \in Chans : automaton'[d] \notin Answering
  BY <1>2, <1>3 DEF Answering, CommittedChannel
<1> QED
  BY <1>5, <1>7, <1>8, <1>9, <1>10 DEF Shape, Rest

LEMMA SelectBlockShape ==
    ASSUME TypeOK, TypeOK', Shape, NEW p \in Procs, SelectBlock(p)
    PROVE  /\ Shape'
           /\ \A d \in Chans : Content(d)' = Content(d)
<1>1. loc[p] = "select_pass_1" /\ NonePossible(p)
  BY DEF SelectBlock
<1>2. /\ Around({p}) /\ Offering(p) /\ CasesOK(p)
      /\ \A d \in Chans : automaton[d] \notin CommittedChannel
      /\ \A d \in Chans : SettledAt(d, {p})
  BY <1>1, PollerFrame
<1>3. /\ loc'[p] = "waiting" /\ armed'[p] = DOMAIN cases[p] /\ Others(p)
      /\ UNCHANGED <<chanCount, counter, buffer, automaton, cases>>
  BY DEF SelectBlock, Others, TypeOK, chanVars
<1>4. \A o, d : Offers(o, d)' = Offers(o, d)
  <2> TAKE o, d
  <2>1. \A q : q \in Offers(o, d)' <=> q \in Offers(o, d)
    BY <1>1, <1>3 DEF Offers, Offering, Others
  <2> QED
    BY ONLY <2>1
<1>5. \A d : Content(d)' = Content(d)
  BY <1>3, <1>4 DEF Content
<1>6. ASSUME NEW d \in Chans, NEW op, p \in Offers(op, d)
      PROVE  ~Possible([op |-> op, ch |-> d])
  BY <1>1, <1>6 DEF NonePossible, Offers, HasCase
<1>7. ASSUME NEW d \in Chans
      PROVE  SettledAt(d, {})
  <2> DEFINE S == Offers("send", d)
             R == Offers("receive", d)
  <2>1. /\ Counted(counter[d], S, R, Content(d))
        /\ buffer[d] \in Int /\ counter[d] \in Int
        /\ Settled(automaton[d], buffer[d], S \ {p}, R \ {p}, Content(d))
    BY <1>2, ContentCounted DEF SettledAt, TypeOK
  <2>2. automaton[d] \in {"idle", "closed", "bad"}
    BY <1>2 DEF TypeOK, AutomatonLocs
  <2>3. CASE p \notin S /\ p \notin R
    <3>1. S \ {p} = S \ {} /\ R \ {p} = R \ {}
      BY <2>3
    <3> QED
      BY <2>1, <3>1 DEF SettledAt
  <2>4. CASE p \in S
    <3>1. p \notin R
      BY <1>2, <2>4, OneSide
    <3>2. counter[d] > buffer[d] /\ buffer[d] >= 0
      BY <1>6, <2>1, <2>4 DEF Possible
    <3>3. automaton[d] # "closed"
      BY <2>1, <3>2 DEF Settled, Closed
    <3>4. automaton[d] = "idle" => Open(buffer[d], S, R, Content(d))
      BY <2>1, <2>4, <3>1, <3>2, SenderBlocks DEF Settled
    <3>5. Settled(automaton[d], buffer[d], S \ {}, R \ {}, Content(d))
      BY <2>2, <3>3, <3>4 DEF Settled
    <3> QED
      BY <3>5 DEF SettledAt
  <2>5. CASE p \in R
    <3>1. p \notin S
      BY <1>2, <2>5, OneSide
    <3>2. counter[d] < 0 /\ buffer[d] >= 0
      BY <1>6, <2>1, <2>5 DEF Possible
    <3>3. automaton[d] # "closed"
      BY <2>1, <3>2 DEF Settled, Closed
    <3>4. automaton[d] = "idle" => Open(buffer[d], S, R, Content(d))
      BY <2>1, <2>5, <3>1, <3>2, ReceiverBlocks DEF Settled
    <3>5. Settled(automaton[d], buffer[d], S \ {}, R \ {}, Content(d))
      BY <2>2, <3>3, <3>4 DEF Settled
    <3> QED
      BY <3>5 DEF SettledAt
  <2> QED
    BY <2>3, <2>4, <2>5
<1>8. Around({})'
  <2>1. \A d \in Chans : SettledAt(d, {})'
    BY <1>3, <1>4, <1>5, <1>7 DEF SettledAt
  <2>2. Ready(p)'
    BY <1>3 DEF Ready
  <2>3. \A q \in Procs : Ready(q)'
    BY <1>2, <1>3, <2>2, OthersReady DEF Around
  <2> QED
    BY <2>1, <2>3 DEF Around
<1>9. \A q \in Procs : CasesOK(q)'
  <2>1. CasesOK(p)'
    BY <1>2, <1>3 DEF CasesOK, DistinctChannels, Made
  <2>2. chanCount' \in Nat /\ chanCount' >= chanCount
    BY <1>3 DEF TypeOK
  <2> QED
    BY <1>3, <2>1, <2>2, CasesKept DEF Shape
<1>10. (\A d \in Chans : d \notin Made' => automaton'[d] = "idle") /\ OneCommitted'
  BY <1>3 DEF Shape, Made, OneCommitted
<1>11. \A d \in Chans : automaton'[d] \notin Answering
  BY <1>2, <1>3 DEF Answering, CommittedChannel
<1> QED
  BY <1>5, <1>8, <1>9, <1>10, <1>11 DEF Shape, Rest

\* Steps that change neither an offer nor a counter: what holds around some processes
\* still does.
LEMMA SameAround ==
    ASSUME NEW ps, Around(ps), UNCHANGED <<counter, buffer, automaton>>,
           \A o, d : Offers(o, d)' = Offers(o, d),
           \A q \in Procs : q \notin ps => (Ready(q) => Ready(q)')
    PROVE  Around(ps)'
<1>1. \A d : Content(d)' = Content(d)
  BY DEF Content
<1>2. \A d \in Chans : SettledAt(d, ps)'
  BY <1>1 DEF Around, SettledAt
<1> QED
  BY <1>2 DEF Around

LEMMA RangeDecideShape ==
    ASSUME TypeOK, TypeOK', Shape, NEW p \in Procs, RangeDecide(p)
    PROVE  /\ Shape'
           /\ \A t \in Procs : Acts(t) => Acts(t)'
           /\ \A d \in Chans : Content(d)' = Content(d)
<1>1. /\ loc[p] = "range_received" /\ loc'[p] = "running" /\ cases'[p] = <<>> /\ Others(p)
      /\ UNCHANGED <<chanCount, counter, buffer, automaton>>
  BY DEF RangeDecide, Others, TypeOK, chanVars
<1>2. \A o, d : Offers(o, d)' = Offers(o, d)
  <2> TAKE o, d
  <2>1. \A q : q \in Offers(o, d)' <=> q \in Offers(o, d)
    BY <1>1 DEF Offers, Offering, Others
  <2> QED
    BY ONLY <2>1
<1>3. \A q \in Procs : Ready(q) => Ready(q)'
  <2>1. Ready(p)'
    BY <1>1 DEF Ready
  <2> QED
    BY <1>1, <2>1, OthersReady
<1>4. \A q \in Procs : CasesOK(q)'
  <2>1. CasesOK(p)'
    BY <1>1, NoCases
  <2>2. chanCount' \in Nat /\ chanCount' >= chanCount
    BY <1>1 DEF TypeOK
  <2> QED
    BY <1>1, <2>1, <2>2, CasesKept DEF Shape
<1>5. (\A d \in Chans : d \notin Made' => automaton'[d] = "idle") /\ OneCommitted'
  BY <1>1 DEF Shape, Made, OneCommitted
<1>6. ASSUME Rest
      PROVE  Shape'
  <2>1. Around({})'
    BY <1>1, <1>2, <1>3, <1>6, SameAround DEF Rest
  <2> QED
    BY <1>1, <1>4, <1>5, <1>6, <2>1 DEF Shape, Rest
<1>7. ASSUME NEW t \in Procs, Acts(t)
      PROVE  Acts(t)'
  <2>1. Around({t})'
    BY <1>1, <1>2, <1>3, <1>7, SameAround DEF Acts
  <2>2. t # p
    BY <1>1, <1>7 DEF Acts, Polls, Answered
  <2>3. loc'[t] = loc[t] /\ cases'[t] = cases[t] /\ armed'[t] = armed[t]
    BY <1>1, <2>2 DEF Others
  <2>4. Polls(t) => Polls(t)'
    BY <1>1, <2>3 DEF Polls
  <2>5. \A d \in Chans : Answered(t, d) => Answered(t, d)'
    BY <1>1, <2>3 DEF Answered
  <2> QED
    BY <1>7, <2>1, <2>4, <2>5 DEF Acts
<1>8. \A d \in Chans : Content(d)' = Content(d)
  BY <1>1, <1>2 DEF Content
<1> QED
  BY <1>4, <1>5, <1>6, <1>7, <1>8 DEF Shape

LEMMA CloseChanShape ==
    ASSUME TypeOK, TypeOK', Shape, ~Panicked', NEW p \in Procs, NEW c \in Made, CloseChan(p, c)
    PROVE  /\ Shape'
           /\ \A d \in Chans : Content(d)' = Content(d)
<1>0. c \in Chans
  BY DEF Made
<1>1. Around({}) /\ (\A d \in Chans : automaton[d] \notin CommittedChannel)
  BY QuietRests DEF CloseChan, Start, Rest, Quiet
<1>2. /\ loc[p] = "running" /\ cases'[p] = <<>> /\ Others(p)
      /\ UNCHANGED <<chanCount, counter, loc, armed>>
  BY DEF CloseChan, Start, Others, TypeOK
<1>3. /\ OnlyAt(c) /\ automaton[c] = "idle" /\ automaton'[c] = "closing"
      /\ counter[c] <= buffer[c] /\ buffer'[c] = -1
  BY <1>0 DEF CloseChan, Goto, OnlyAt, TypeOK, Panicked
<1>4. \A o, d : Offers(o, d)' = Offers(o, d)
  <2> TAKE o, d
  <2>1. \A q : q \in Offers(o, d)' <=> q \in Offers(o, d)
    BY <1>2 DEF Offers, Offering, Others
  <2> QED
    BY ONLY <2>1
<1>5. \A d : Content(d)' = Content(d)
  BY <1>2, <1>4 DEF Content
<1>6. ASSUME NEW d \in Chans
      PROVE  SettledAt(d, {})'
  <2>1. SettledAt(d, {})
    BY <1>1 DEF Around
  <2>2. CASE d # c
    BY <1>3, <1>4, <1>5, <2>1, <2>2 DEF SettledAt, OnlyAt
  <2>3. CASE d = c
    <3>1. \A o : Offers(o, c) \ {} = Offers(o, c)
      OBVIOUS
    <3>2. Open(buffer[c], Offers("send", c), Offers("receive", c), Content(c))
      BY <1>3, <2>1, <2>3, <3>1 DEF SettledAt, Settled
    <3>3. Closed(-1, Offers("send", c), Offers("receive", c), Content(c))
      BY <1>0, <1>3, <3>2, ContentCounted, CloseJudges DEF TypeOK
    <3>4. Settled("closing", -1, Offers("send", c) \ {}, Offers("receive", c) \ {}, Content(c))
      BY <3>1, <3>3 DEF Settled
    <3> QED
      BY <1>3, <1>4, <1>5, <2>3, <3>4 DEF SettledAt
  <2> QED
    BY <2>2, <2>3
<1>7. Around({})'
  <2>1. Ready(p)'
    BY <1>2 DEF Ready
  <2>2. \A q \in Procs : Ready(q)'
    BY <1>1, <1>2, <2>1, OthersReady DEF Around
  <2> QED
    BY <1>6, <2>2 DEF Around
<1>8. \A q \in Procs : CasesOK(q)'
  <2>1. CasesOK(p)'
    BY <1>2, NoCases
  <2>2. chanCount' \in Nat /\ chanCount' >= chanCount
    BY <1>2 DEF TypeOK
  <2> QED
    BY <1>2, <2>1, <2>2, CasesKept DEF Shape
<1>9. \A d \in Chans : d \notin Made' => automaton'[d] = "idle"
  BY <1>2, <1>3 DEF Shape, OnlyAt, Made
<1>10. OneCommitted'
  BY <1>0, <1>1, <1>3, QuietOne
<1>11. \A d \in Chans : automaton'[d] \notin Answering
  BY <1>1, <1>3 DEF Answering, CommittedChannel, OnlyAt
<1> QED
  BY <1>5, <1>7, <1>8, <1>9, <1>10, <1>11 DEF Shape, Rest

-----------------------------------------------------------------------------
\* The theorems.

\* Nothing leaves the location bad.
LEMMA PanicStays ==
    ASSUME TypeOK, Panicked, Next
    PROVE  Panicked'
<1>1. PICK b \in Chans : automaton[b] = "bad"
  BY DEF Panicked
<1>2. ASSUME NEW c \in Chans, NEW from, NEW to, from # "bad", Goto(c, from, to)
      PROVE  automaton'[b] = "bad"
  BY <1>1, <1>2 DEF Goto, TypeOK
<1>3. ASSUME NEW c \in Chans, NEW op, Triggered(c, op)
      PROVE  automaton'[b] = "bad"
  BY <1>2, <1>3 DEF Triggered
<1>4. ASSUME NEW c \in Chans, ChannelStep(c)
      PROVE  automaton'[b] = "bad"
  BY <1>2, <1>4 DEF ChannelStep, NewSenderBlocks, NewSenderConfirmed, SentToBuffer,
       SentToReceiver, NewReceiverBlocks, NewReceiverConfirmed, ReceivedFromBuffer,
       ReceivedAndRefilled, ReleaseReceiver, FinishClosing, ReceiveFromClosed
<1>5. ASSUME NEW p \in Procs, ProcessStep(p)
      PROVE  automaton'[b] = "bad"
  <2>0. Made \subseteq Chans
    BY DEF Made
  <2>1. CASE \E c \in Made : \/ \E op \in {"send", "receive"} : SendOrReceive(p, op, c)
                             \/ RangeReceive(p, c)
    BY <1>3, <2>0, <2>1 DEF SendOrReceive, RangeReceive
  <2>2. CASE \E c \in Made : CloseChan(p, c)
    BY <1>2, <2>0, <2>2 DEF CloseChan
  <2>3. CASE \E i \in DOMAIN cases[p] : SelectTrigger(p, i)
    <3>1. PICK i \in DOMAIN cases[p] : SelectTrigger(p, i)
      BY <2>3
    <3>2. cases[p] \in Seq(Cases)
      BY DEF TypeOK
    <3>3. cases[p][i] \in Cases
      BY <3>2
    <3>4. cases[p][i].ch \in Chans
      BY <3>3 DEF Cases
    <3> QED
      BY <1>3, <3>1, <3>4 DEF SelectTrigger
  <2>4. CASE \/ \E n \in BufferSizes : MakeChan(p, n)
             \/ \E menu \in Menus, k \in {"select", "select_default"} : EnterSelect(p, menu, k)
             \/ SelectDefault(p) \/ SelectBlock(p) \/ RangeDecide(p)
    BY <1>1, <2>4 DEF MakeChan, EnterSelect, SelectDefault, SelectBlock, RangeDecide, chanVars
  <2> QED
    BY <1>5, <2>1, <2>2, <2>3, <2>4 DEF ProcessStep
<1> QED
  BY <1>4, <1>5 DEF Next, Panicked

LEMMA StepShape ==
    ASSUME MenusDistinct, TypeOK, TypeOK', Shape, ~Panicked', Next
    PROVE  Shape'
<1>1. ASSUME NEW p \in Procs, ProcessStep(p)
      PROVE  Shape'
  <2>0. Made \subseteq Chans
    BY DEF Made
  <2>1. CASE \E n \in BufferSizes : MakeChan(p, n)
    BY <2>1, MakeChanShape
  <2>2. CASE \E c \in Made : \/ \E op \in {"send", "receive"} : SendOrReceive(p, op, c)
                             \/ RangeReceive(p, c)
    BY <2>0, <2>2, OperationIssues, IssuesShape
  <2>3. CASE \E c \in Made : CloseChan(p, c)
    BY <2>3, CloseChanShape
  <2>4. CASE \E menu \in Menus, k \in {"select", "select_default"} :
               /\ \A i \in DOMAIN menu : menu[i].ch \in Made
               /\ EnterSelect(p, menu, k)
    BY <2>4, EnterSelectShape
  <2>5. CASE \E i \in DOMAIN cases[p] : SelectTrigger(p, i)
    BY <2>5, SelectTriggerShape
  <2>6. CASE SelectDefault(p)
    BY <2>6, SelectDefaultShape
  <2>7. CASE SelectBlock(p)
    BY <2>7, SelectBlockShape
  <2>8. CASE RangeDecide(p)
    BY <2>8, RangeDecideShape
  <2> QED
    BY <1>1, <2>1, <2>2, <2>3, <2>4, <2>5, <2>6, <2>7, <2>8 DEF ProcessStep
<1>2. ASSUME NEW c \in Chans, ChannelStep(c)
      PROVE  Shape'
  BY <1>2, ChannelStepShape
<1> QED
  BY <1>1, <1>2 DEF Next

LEMMA InitShape == Init => Shape
<1> SUFFICES ASSUME Init
             PROVE  Shape
  OBVIOUS
<1>1. /\ \A c \in Chans : automaton[c] = "idle" /\ counter[c] = 0 /\ buffer[c] = 0
      /\ \A p \in Procs : loc[p] = "running" /\ cases[p] = <<>>
  BY DEF Init
<1>2. \A op, c : Offers(op, c) = {}
  BY <1>1 DEF Offers, Offering
<1>3. \A c \in Chans : Content(c) = 0
  <2>1. Cardinality({}) = 0
    BY FS_EmptySet
  <2>2. \A c \in Chans : Content(c) = 0 - 0 + 0
    BY <1>1, <1>2, <2>1 DEF Content
  <2> QED
    BY <2>2
<1>4. Open(0, {}, {}, 0)
  BY DEF Open
<1>5. \A c \in Chans : SettledAt(c, {})
  BY <1>1, <1>2, <1>3, <1>4 DEF SettledAt, Settled
<1>6. Around({})
  BY <1>1, <1>5 DEF Around, Ready
<1>7. \A p \in Procs : CasesOK(p)
  BY <1>1 DEF CasesOK, DistinctChannels
<1> QED
  BY <1>1, <1>6, <1>7 DEF Shape, Rest, Answering, OneCommitted, CommittedChannel

LEMMA StepInv ==
    ASSUME MenusDistinct, Inv, [Next]_vars
    PROVE  Inv'
<1>1. TypeOK'
  BY StepType DEF Inv
<1>2. CASE Next
  BY <1>1, <1>2, PanicStays, StepShape DEF Inv
<1>3. CASE UNCHANGED vars
  <2>1. /\ UNCHANGED <<chanCount, counter, buffer, automaton, loc, cases, armed>>
    BY <1>3 DEF vars, chanVars, procVars
  <2>2. \A o, d : Offers(o, d)' = Offers(o, d)
    BY <2>1 DEF Offers, Offering
  <2>3. \A d : Content(d)' = Content(d)
    BY <2>1, <2>2 DEF Content
  <2>4. \A ps : Around(ps) => Around(ps)'
    BY <2>1, <2>2, <2>3 DEF Around, SettledAt, Ready
  <2>5. Rest => Rest'
    BY <2>1, <2>4 DEF Rest
  <2>6. \A p \in Procs : Acts(p) => Acts(p)'
    BY <2>1, <2>4 DEF Acts, Polls, Answered
  <2>7. Shape => Shape'
    BY <2>1, <2>5, <2>6 DEF Shape, CasesOK, OneCommitted, Made
  <2>8. Panicked' <=> Panicked
    BY <2>1 DEF Panicked
  <2> QED
    BY <1>1, <2>7, <2>8 DEF Inv
<1> QED
  BY <1>2, <1>3

\* In a quiet state the offers are the blocked operations.
LEMMA QuietBlocked ==
    ASSUME TypeOK, Rest, NEW op, NEW c
    PROVE  Blocked(op, c) = Offers(op, c)
<1>1. \A p \in Procs : loc[p] # "select_pass_1" /\ (loc[p] = "waiting" => armed[p] = DOMAIN cases[p])
  BY DEF Rest, Around, Ready
<1>2. \A p : p \in Blocked(op, c) <=> p \in Offers(op, c)
  BY <1>1 DEF Blocked, Awaits, Offers, Offering, HasCase
<1> QED
  BY ONLY <1>2

LEMMA InvNoLostWakeup == Inv => NoLostWakeup
<1> SUFFICES ASSUME Inv, Quiet, ~Panicked, NEW c \in Chans, automaton[c] = "idle"
             PROVE  /\ Buffered(c) \in 0 .. buffer[c]
                    /\ Blocked("send", c) # {} => Buffered(c) = buffer[c]
                    /\ Blocked("receive", c) # {} => Buffered(c) = 0
                    /\ Blocked("send", c) = {} \/ Blocked("receive", c) = {}
  BY DEF NoLostWakeup
<1>1. TypeOK /\ Rest
  BY QuietRests DEF Inv
<1>2. \A op : Blocked(op, c) = Offers(op, c)
  BY <1>1, QuietBlocked
<1>3. Buffered(c) = Content(c)
  BY <1>2 DEF Buffered, Content
<1>4. Open(buffer[c], Offers("send", c), Offers("receive", c), Content(c))
  <2>1. \A op : Offers(op, c) \ {} = Offers(op, c)
    OBVIOUS
  <2> QED
    BY <1>1, <2>1 DEF Rest, Around, SettledAt, Settled
<1> QED
  BY <1>1, <1>2, <1>3, <1>4 DEF Open, TypeOK

LEMMA InvCommittedCanMove == Inv => CommittedCanMove
<1> SUFFICES ASSUME Inv, ~Panicked
             PROVE  CommittedCanMove
  BY DEF CommittedCanMove
<1>1. TypeOK /\ Shape
  BY DEF Inv
<1>2. ASSUME NEW c \in Chans, automaton[c] \in Answering
      PROVE  Blocked(TriggerOf(automaton[c]), c) # {}
  <2>1. PICK t \in Procs : Answered(t, c)
    BY <1>1, <1>2, TriggerActs
  <2>2. t \in Blocked(TriggerOf(automaton[c]), c)
    BY <2>1 DEF Answered, Blocked, Awaits
  <2> QED
    BY <2>2
<1>3. ASSUME NEW c \in Chans, automaton[c] \in {"confirming_a", "confirming_b", "closing"}
      PROVE  /\ automaton[c] = "confirming_a" => counter[c] > 0 \/ Blocked("receive", c) # {}
             /\ automaton[c] = "confirming_b" => counter[c] < buffer[c] \/ Blocked("send", c) # {}
             /\ automaton[c] = "closing" => counter[c] >= 0 \/ Blocked("receive", c) # {}
  <2> DEFINE S == Offers("send", c)
             R == Offers("receive", c)
  <2>1. Rest
    BY <1>1, <1>3, CommittedRests DEF CommittedChannel, Answering
  <2>2. Blocked("send", c) = S /\ Blocked("receive", c) = R
    BY <1>1, <2>1, QuietBlocked
  <2>3. Settled(automaton[c], buffer[c], S, R, Content(c))
    <3>1. S \ {} = S /\ R \ {} = R
      OBVIOUS
    <3> QED
      BY <2>1, <3>1 DEF Rest, Around, SettledAt
  <2>4. Counted(counter[c], S, R, Content(c)) /\ counter[c] \in Int /\ buffer[c] \in Int
    BY <1>1, ContentCounted DEF TypeOK
  <2>5. PICK s, r \in Nat : /\ counter[c] = Content(c) + s - r
                            /\ s = 0 <=> S = {}
                            /\ r = 0 <=> R = {}
    BY <2>4, CountedAny
  <2> HIDE DEF S, R
  <2>6. automaton[c] = "confirming_a" => counter[c] > 0 \/ R # {}
    BY <2>3, <2>4, <2>5 DEF Settled, Sent
  <2>7. automaton[c] = "confirming_b" => counter[c] < buffer[c] \/ S # {}
    BY <2>3, <2>4, <2>5 DEF Settled, Received
  <2>8. automaton[c] = "closing" => counter[c] >= 0 \/ R # {}
    BY <2>3, <2>4, <2>5 DEF Settled, Closed
  <2> QED
    BY <2>2, <2>6, <2>7, <2>8
<1>4. ASSUME NEW p \in Procs, loc[p] = "select_pass_1"
      PROVE  NonePossible(p) \/ \E i \in DOMAIN cases[p] :
               Possible(cases[p][i]) /\ automaton[cases[p][i].ch] \in {"idle", "closed"}
  <2>1. \A d \in Chans : automaton[d] \in {"idle", "closed"}
    BY <1>1, <1>4, PollerActs DEF Polls, Panicked, TypeOK, AutomatonLocs
  <2>2. \A i \in DOMAIN cases[p] : cases[p][i].ch \in Chans
    BY <1>1 DEF Shape, CasesOK, Made
  <2> QED
    BY <2>1, <2>2 DEF NonePossible
<1> QED
  BY <1>2, <1>3, <1>4 DEF CommittedCanMove, Answering, TriggerOf

LEMMA StepCloseVerdict ==
    ASSUME Inv, ~Panicked, Next, NEW c \in Chans, automaton[c] = "idle"
    PROVE  /\ automaton'[c] = "bad" => Blocked("send", c) # {}
           /\ automaton'[c] = "closing" => Blocked("send", c) = {}
<1> SUFFICES ASSUME automaton'[c] \in {"bad", "closing"}
             PROVE  automaton'[c] = "closing" <=> Blocked("send", c) = {}
  BY Zenon
<1>1. TypeOK /\ Shape
  BY DEF Inv
<1>2. \E p \in Procs : CloseChan(p, c)
  <2>1. ASSUME NEW d \in Chans, ChannelStep(d)
        PROVE  FALSE
    BY <1>1, <2>1 DEF ChannelStep, NewSenderBlocks, NewSenderConfirmed, SentToBuffer,
       SentToReceiver, NewReceiverBlocks, NewReceiverConfirmed, ReceivedFromBuffer,
       ReceivedAndRefilled, ReleaseReceiver, FinishClosing, ReceiveFromClosed, Goto, TypeOK
  <2>2. ASSUME NEW d, NEW op, Triggered(d, op)
        PROVE  FALSE
    BY <1>1, <2>2 DEF Triggered, Goto, TypeOK
  <2>3. ASSUME NEW p \in Procs, NEW d \in Made, CloseChan(p, d)
        PROVE  d = c
    BY <1>1, <2>3 DEF CloseChan, Goto, TypeOK, Made
  <2>4. PICK p \in Procs : ProcessStep(p)
    BY <2>1 DEF Next
  <2>5. automaton' # automaton
    OBVIOUS
  <2>6. ~ \E n \in BufferSizes : MakeChan(p, n)
    BY <2>5 DEF MakeChan
  <2>7. ~ \E d \in Made : \/ \E op \in {"send", "receive"} : SendOrReceive(p, op, d)
                          \/ RangeReceive(p, d)
    BY <2>2 DEF SendOrReceive, RangeReceive
  <2>8. ~ \E menu \in Menus, k \in {"select", "select_default"} : EnterSelect(p, menu, k)
    BY <2>5 DEF EnterSelect
  <2>9. ~ \E i \in DOMAIN cases[p] : SelectTrigger(p, i)
    BY <2>2 DEF SelectTrigger
  <2>10. ~SelectDefault(p) /\ ~SelectBlock(p) /\ ~RangeDecide(p)
    BY <2>5 DEF SelectDefault, SelectBlock, RangeDecide, chanVars
  <2> QED
    BY <2>3, <2>4, <2>6, <2>7, <2>8, <2>9, <2>10 DEF ProcessStep
<1>3. Rest
  BY <1>1, <1>2, QuietRests DEF CloseChan, Start
<1>4. Open(buffer[c], Offers("send", c), Offers("receive", c), Content(c))
  <2>1. \A op : Offers(op, c) \ {} = Offers(op, c)
    OBVIOUS
  <2> QED
    BY <1>3, <2>1 DEF Rest, Around, SettledAt, Settled
<1>5. counter[c] <= buffer[c] <=> Offers("send", c) = {}
  BY <1>1, <1>4, ContentCounted, CloseJudges DEF TypeOK
<1>6. counter[c] \in Int /\ buffer[c] \in Int
  BY <1>1 DEF TypeOK
<1>7. automaton'[c] = "closing" <=> counter[c] <= buffer[c]
  BY <1>1, <1>2, <1>6 DEF CloseChan, Goto, TypeOK
<1> QED
  BY <1>1, <1>3, <1>5, <1>7, QuietBlocked

\* No wake-up is lost: with at most one case per channel in a select, no process stays
\* blocked on a channel that could serve it, for any number of processes and handles.
THEOREM NoWakeupLost == MenusDistinct => (Spec => []NoLostWakeup)
<1> SUFFICES ASSUME MenusDistinct
             PROVE  Spec => []NoLostWakeup
  OBVIOUS
<1>1. Init => Inv
  BY InitType, InitShape DEF Inv
<1>2. Inv /\ [Next]_vars => Inv'
  BY StepInv
<1>3. Inv => NoLostWakeup
  BY InvNoLostWakeup
<1> QED
  BY <1>1, <1>2, <1>3, PTL DEF Spec

\* No automaton and no select gets stuck in a committed location, which would freeze the
\* whole network, for any number of processes and handles.
THEOREM NothingStuck == MenusDistinct => (Spec => []CommittedCanMove)
<1> SUFFICES ASSUME MenusDistinct
             PROVE  Spec => []CommittedCanMove
  OBVIOUS
<1>1. Init => Inv
  BY InitType, InitShape DEF Inv
<1>2. Inv /\ [Next]_vars => Inv'
  BY StepInv
<1>3. Inv => CommittedCanMove
  BY InvCommittedCanMove
<1> QED
  BY <1>1, <1>2, <1>3, PTL DEF Spec

\* Closing a channel panics exactly when a sender is blocked on it.
THEOREM CloseJudgedRight == MenusDistinct => (Spec => CloseVerdict)
<1> SUFFICES ASSUME MenusDistinct
             PROVE  Spec => CloseVerdict
  OBVIOUS
<1>1. Init => Inv
  BY InitType, InitShape DEF Inv
<1>2. Inv /\ [Next]_vars => Inv'
  BY StepInv
<1>3. Inv /\ [Next]_vars =>
        [~Panicked => \A c \in Chans : automaton[c] = "idle" =>
           /\ automaton'[c] = "bad" => Blocked("send", c) # {}
           /\ automaton'[c] = "closing" => Blocked("send", c) = {}]_vars
  BY StepCloseVerdict
<1> QED
  BY <1>1, <1>2, <1>3, PTL DEF Spec, CloseVerdict

=============================================================================
