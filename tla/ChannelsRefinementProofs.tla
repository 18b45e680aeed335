---------------------- MODULE ChannelsRefinementProofs ----------------------
(***************************************************************************)
(* The proof that the network of channel automata implements Go's atomic   *)
(* channels, when no select has two cases on one channel: each macro step  *)
(* of the network, seen from quiet state to quiet state, is one step of    *)
(* GoChannels.                                                             *)
(***************************************************************************)
EXTENDS ChannelsRefinement, ChannelsProofs

-----------------------------------------------------------------------------
\* What an observer sees, and how it changes, as relations between two such views.

Views ==
    [cap: [Chans -> Int], len: [Chans -> Int],
     blocked: [Procs -> {m \in Seq(Cases) : DistinctChannels(m)}], ranging: SUBSET Procs,
     outcome: [Procs -> Int], stmts: [Procs -> Nat], panicked: {FALSE}]

\* Nothing changes for process q, or for channel d.
SameProc(s, t, q) ==
    /\ t.blocked[q] = s.blocked[q]
    /\ q \in t.ranging <=> q \in s.ranging
    /\ t.outcome[q] = s.outcome[q]
    /\ t.stmts[q] = s.stmts[q]
SameChan(s, t, d) == t.cap[d] = s.cap[d] /\ t.len[d] = s.len[d]

SameProcs(s, t, ps) == \A q \in Procs : q \notin ps => SameProc(s, t, q)
SameChans(s, t, cs) == \A d \in Chans : d \notin cs => SameChan(s, t, d)

\* Process p starts a statement, and ends it with outcome v.
Begins(s, p, n) == /\ s.blocked[p] = <<>> /\ p \notin s.ranging
                   /\ s.stmts[p] < MaxStmts /\ n = s.stmts[p] + 1
Ends(s, t, p, v) == /\ Begins(s, p, t.stmts[p])
                    /\ t.blocked[p] = <<>> /\ p \notin t.ranging /\ t.outcome[p] = v

\* The statements: a case list and the kind.
Lists == Menus \cup {<<x>> : x \in Cases}
Statement(s, m, k) ==
    /\ \A i \in DOMAIN m : s.cap[m[i].ch] # -2
    /\ \/ k \in {"op", "range"} /\ \E x \in Cases : m = <<x>> /\ (k = "range" => x.op = "receive")
       \/ k \in {"select", "select_default"} /\ m \in Menus

NoOffer(s, op, c) == \A q \in Procs : ~HasCase(s.blocked[q], op, c)

\* How a process sees the end of its case i, with or without a message.
EndOf(range, i, got) == IF ~range THEN i ELSE IF got THEN RangeBody ELSE RangeExit

\* A blocked process q is freed.
Freed(s, t, q, op, c, got) ==
    /\ \E j \in DOMAIN s.blocked[q] : /\ s.blocked[q][j] = [op |-> op, ch |-> c]
                                      /\ t.outcome[q] = EndOf(q \in s.ranging, j, got)
    /\ t.blocked[q] = <<>> /\ q \notin t.ranging
    /\ t.stmts[q] = s.stmts[q]
SomeFreed(s, t, p, op, c) ==
    \E q \in Procs : q # p /\ Freed(s, t, q, op, c, TRUE) /\ SameProcs(s, t, {p, q})

SendStep(s, t, p, i, c) ==
    /\ s.cap[c] >= 0
    /\ Ends(s, t, p, i)
    /\ \/ SomeFreed(s, t, p, "receive", c) /\ SameChans(s, t, {})
       \/ /\ NoOffer(s, "receive", c) /\ s.len[c] < s.cap[c]
          /\ t.len[c] = s.len[c] + 1 /\ t.cap[c] = s.cap[c]
          /\ SameProcs(s, t, {p}) /\ SameChans(s, t, {c})

ReceiveStep(s, t, p, i, c, range) ==
    \/ /\ Ends(s, t, p, EndOf(range, i, TRUE))
       /\ SomeFreed(s, t, p, "send", c) /\ SameChans(s, t, {})
    \/ /\ NoOffer(s, "send", c) /\ s.len[c] > 0
       /\ Ends(s, t, p, EndOf(range, i, TRUE))
       /\ t.len[c] = s.len[c] - 1 /\ t.cap[c] = s.cap[c]
       /\ SameProcs(s, t, {p}) /\ SameChans(s, t, {c})
    \/ /\ s.cap[c] = -1 /\ s.len[c] = 0
       /\ Ends(s, t, p, EndOf(range, i, FALSE))
       /\ SameProcs(s, t, {p}) /\ SameChans(s, t, {})

Cannot(s, x) ==
    /\ s.cap[x.ch] # -1
    /\ x.op = "send" => s.len[x.ch] >= s.cap[x.ch] /\ NoOffer(s, "receive", x.ch)
    /\ x.op = "receive" => s.len[x.ch] <= 0 /\ NoOffer(s, "send", x.ch)

BlockStep(s, t, p, m, k) ==
    /\ \A i \in DOMAIN m : Cannot(s, m[i])
    /\ Begins(s, p, t.stmts[p])
    /\ t.blocked[p] = m /\ (p \in t.ranging <=> k = "range") /\ t.outcome[p] = NoOutcome
    /\ SameProcs(s, t, {p}) /\ SameChans(s, t, {})

DefaultStep(s, t, p, m) ==
    /\ \A i \in DOMAIN m : Cannot(s, m[i])
    /\ Ends(s, t, p, DefaultEnter)
    /\ SameProcs(s, t, {p}) /\ SameChans(s, t, {})

MakeStep(s, t, c, n) ==
    /\ s.cap[c] = -2 /\ t.cap[c] = n /\ t.len[c] = s.len[c]
    /\ SameProcs(s, t, {}) /\ SameChans(s, t, {c})

CloseStep(s, t, p, c) ==
    /\ s.cap[c] >= 0 /\ NoOffer(s, "send", c)
    /\ t.cap[c] = -1 /\ t.len[c] = s.len[c] /\ SameChans(s, t, {c})
    /\ Ends(s, t, p, NoOutcome)
    /\ \A q \in Procs : q # p =>
         IF HasCase(s.blocked[q], "receive", c) THEN Freed(s, t, q, "receive", c, FALSE)
         ELSE SameProc(s, t, q)

\* One step of an observer.
CaseStep(s, t, p, m, k) ==
    \/ \E i \in DOMAIN m : m[i].op = "send" /\ SendStep(s, t, p, i, m[i].ch)
    \/ \E i \in DOMAIN m : m[i].op = "receive" /\ ReceiveStep(s, t, p, i, m[i].ch, k = "range")
    \/ BlockStep(s, t, p, m, k)
    \/ k = "select_default" /\ DefaultStep(s, t, p, m)

GoStep(s, t) ==
    /\ t \in Views
    /\ \/ \E c \in Chans, n \in BufferSizes : MakeStep(s, t, c, n)
       \/ \E p \in Procs, c \in Chans : CloseStep(s, t, p, c)
       \/ \E p \in Procs, m \in Lists, k \in Kinds : Statement(s, m, k) /\ CaseStep(s, t, p, m, k)

-----------------------------------------------------------------------------
\* The inductive invariant: how the state is related to what was last seen.

\* A receiver of a range loop that has its confirmation is as good as through.
Out(p) == IF loc[p] = "range_received"
          THEN IF buffer[cases[p][1].ch] >= 0 \/ ok[p] THEN RangeBody ELSE RangeExit
          ELSE outcome[p]

\* The view of the state, as if all receivers of range loops were through.
Now == [cap      |-> [c \in Chans |-> IF c \in Made THEN buffer[c] ELSE -2],
        len      |-> [c \in Chans |-> Content(c)],
        blocked  |-> [p \in Procs |-> IF Waiting(p) THEN cases[p] ELSE <<>>],
        ranging  |-> {p \in Procs : Waiting(p) /\ kind[p] = "range"},
        outcome  |-> [p \in Procs |-> Out(p)],
        stmts    |-> stmts,
        panicked |-> FALSE]

NoneCommitted == /\ \A c \in Chans : automaton[c] \notin CommittedChannel
                 /\ \A p \in Procs : loc[p] # "select_pass_1"

\* Nothing happened since, or a receiver of a range loop still has to move on.
Unchanged == Quiet /\ seen = Now
Done == ~Quiet /\ NoneCommitted /\ GoStep(seen, Now)

\* Process p started a statement and waits for the first answer.
Started(p) ==
    /\ Acts(p)
    /\ Begins(seen, p, stmts[p]) /\ outcome[p] = NoOutcome
    /\ Statement(seen, cases[p], kind[p])
    /\ SameProcs(seen, Now, {p}) /\ SameChans(seen, Now, {})
    /\ loc[p] = "select_pass_1" => kind[p] \in {"select", "select_default"}
    /\ \A c \in Chans : Answered(p, c) /\ kind[p] = "range" => (ok[p] <=> counter[c] >= 0)

\* Case i of p's statement was confirmed, and the rest is still to come.
Confirmed(c, p, m, k, i, op, v) ==
    /\ Statement(seen, m, k)
    /\ m[i] = [op |-> op, ch |-> c]
    /\ Ends(seen, Now, p, v)
    /\ Now.cap[c] = seen.cap[c]
    /\ SameProcs(seen, Now, {p}) /\ SameChans(seen, Now, {c})
Sending(c) ==
    /\ automaton[c] = "confirming_a"
    /\ Now.len[c] = seen.len[c] + 1
    /\ \E p \in Procs, m \in Lists, k \in Kinds : \E i \in DOMAIN m :
         Confirmed(c, p, m, k, i, "send", i)
Receiving(c) ==
    /\ automaton[c] = "confirming_b"
    /\ Now.len[c] = seen.len[c] - 1
    /\ \E p \in Procs, m \in Lists, k \in Kinds : \E i \in DOMAIN m :
         Confirmed(c, p, m, k, i, "receive", EndOf(k = "range", i, TRUE))

\* Channel c is being closed by p; some of its receivers are freed already.
Closing(c, p) ==
    /\ automaton[c] = "closing"
    /\ seen.cap[c] >= 0 /\ NoOffer(seen, "send", c)
    /\ Now.cap[c] = -1 /\ Now.len[c] = seen.len[c] /\ SameChans(seen, Now, {c})
    /\ Ends(seen, Now, p, NoOutcome)
    /\ \A q \in Procs : q # p => SameProc(seen, Now, q) \/ Freed(seen, Now, q, "receive", c, FALSE)

Track ==
    \/ Unchanged
    \/ Done
    \/ \E p \in Procs : Started(p)
    \/ \E c \in Chans : Sending(c) \/ Receiving(c)
    \/ \E c \in Chans, p \in Procs : Closing(c, p)

\* A blocked receiver of a range loop was not promised a message, and has one case.
Ranger(p) ==
    loc[p] \in {"waiting", "range_received"} /\ kind[p] = "range" =>
      /\ DOMAIN cases[p] = {1}
      /\ loc[p] = "waiting" /\ ok[p] => Started(p)
Rangers == \A p \in Procs : Ranger(p)

\* A handle that is not made yet has no messages.
Fresh(s) == \A c \in Chans : s.cap[c] = -2 => s.len[c] = 0

Seen ==
    /\ seen \in Views /\ Fresh(seen)
    /\ Track /\ Rangers

RInv == TypeOK /\ (~seen.panicked => ~Panicked /\ Shape /\ Seen)

-----------------------------------------------------------------------------
\* The relations on views are the steps of GoChannels.

LEMMA ViewTypes ==
  ASSUME NEW s \in Views
  PROVE  /\ s.cap \in [Chans -> Int] /\ s.len \in [Chans -> Int]
         /\ s.blocked \in [Procs -> Seq(Cases)] /\ s.ranging \in SUBSET Procs
         /\ s.outcome \in [Procs -> Int] /\ s.stmts \in [Procs -> Nat]
         /\ s.panicked = FALSE
         /\ \A q \in Procs : DistinctChannels(s.blocked[q])
<1>1. s.blocked \in [Procs -> {m \in Seq(Cases) : DistinctChannels(m)}]
  BY DEF Views
<1>2. /\ s.blocked \in [Procs -> Seq(Cases)]
      /\ \A q \in Procs : DistinctChannels(s.blocked[q])
  BY <1>1
<1> QED BY <1>2 DEF Views

LEMMA GoOffers ==
  ASSUME seen \in Views, NEW op, NEW c
  PROVE  /\ \A q \in Procs : \A j \in DOMAIN seen.blocked[q] :
              seen.blocked[q][j] = [op |-> op, ch |-> c] <=> <<q, j>> \in Go!Offers(op, c)
         /\ \A o \in Go!Offers(op, c) : /\ o[1] \in Procs /\ o[2] \in DOMAIN seen.blocked[o[1]]
                                        /\ o = <<o[1], o[2]>>
                                        /\ HasCase(seen.blocked[o[1]], op, c)
         /\ Go!Offers(op, c) = {} <=> NoOffer(seen, op, c)
<1>1. \A o : o \in Go!Offers(op, c) <=>
                  /\ o[1] \in Procs /\ o[2] \in DOMAIN seen.blocked[o[1]]
                  /\ o = <<o[1], o[2]>>
                  /\ seen.blocked[o[1]][o[2]] = [op |-> op, ch |-> c]
  BY DEF Go!Offers
<1>2. \A q \in Procs : \A j \in DOMAIN seen.blocked[q] :
              seen.blocked[q][j] = [op |-> op, ch |-> c] <=> <<q, j>> \in Go!Offers(op, c)
  BY <1>1
<1>3. Go!Offers(op, c) = {} <=> NoOffer(seen, op, c)
  <2>1. ASSUME NEW o \in Go!Offers(op, c) PROVE ~NoOffer(seen, op, c)
    BY <1>1, <2>1 DEF NoOffer, HasCase
  <2>2. ASSUME NEW q \in Procs, NEW j \in DOMAIN seen.blocked[q],
               seen.blocked[q][j] = [op |-> op, ch |-> c]
        PROVE  Go!Offers(op, c) # {}
    BY <1>2, <2>2
  <2> QED BY <2>1, <2>2 DEF NoOffer, HasCase
<1> QED BY <1>1, <1>2, <1>3 DEF HasCase

\* The statement counts of a step of p.
LEMMA GoStart ==
  ASSUME seen \in Views, seen' \in Views, NEW p \in Procs, Begins(seen, p, seen'.stmts[p]),
         \A q \in Procs : q # p => seen'.stmts[q] = seen.stmts[q]
  PROVE  Go!Start(p)
<1>1. /\ seen.stmts \in [Procs -> Nat] /\ seen'.stmts \in [Procs -> Nat] /\ ~seen.panicked
  BY ViewTypes
<1>2. seen'.stmts = [seen.stmts EXCEPT ![p] = @ + 1]
  BY <1>1 DEF Begins
<1> QED BY <1>1, <1>2 DEF Go!Start, Begins

\* Nothing but process p moves.
LEMMA GoFinish ==
  ASSUME seen \in Views, seen' \in Views, NEW p \in Procs, NEW v, Ends(seen, seen', p, v),
         SameProcs(seen, seen', {p})
  PROVE  Go!Start(p) /\ Go!Finish([seen.outcome EXCEPT ![p] = v])
<1>1. /\ seen.outcome \in [Procs -> Int] /\ seen'.outcome \in [Procs -> Int]
      /\ seen.blocked \in [Procs -> Seq(Cases)] /\ seen'.blocked \in [Procs -> Seq(Cases)]
      /\ seen.ranging \in SUBSET Procs /\ seen'.ranging \in SUBSET Procs
  BY ViewTypes
<1>2. \A q \in Procs : q # p => SameProc(seen, seen', q) BY DEF SameProcs
<1>3. seen'.outcome = [seen.outcome EXCEPT ![p] = v]
  BY <1>1, <1>2 DEF Ends, SameProc
<1>4. seen'.blocked = seen.blocked
  <2>1. \A q \in Procs : seen'.blocked[q] = seen.blocked[q]
    BY <1>2 DEF Ends, Begins, SameProc
  <2> QED BY <1>1, <2>1
<1>5. seen'.ranging = seen.ranging
  <2>1. \A q : q \in seen'.ranging <=> q \in seen.ranging
    BY <1>1, <1>2 DEF Ends, Begins, SameProc
  <2> QED BY <2>1
<1>6. Go!Start(p) BY <1>2, GoStart DEF Ends, SameProc
<1> QED BY <1>3, <1>4, <1>5, <1>6 DEF Go!Finish

\* Process p frees another one.
LEMMA GoUnblock ==
  ASSUME seen \in Views, seen' \in Views, NEW p \in Procs, NEW v, Ends(seen, seen', p, v),
         NEW op, NEW c, SomeFreed(seen, seen', p, op, c)
  PROVE  /\ Go!Start(p)
         /\ \E o \in Go!Offers(op, c) : Go!Unblock(o, [seen.outcome EXCEPT ![p] = v], TRUE)
<1>1. /\ seen.outcome \in [Procs -> Int] /\ seen'.outcome \in [Procs -> Int]
      /\ seen.blocked \in [Procs -> Seq(Cases)] /\ seen'.blocked \in [Procs -> Seq(Cases)]
      /\ seen.ranging \in SUBSET Procs /\ seen'.ranging \in SUBSET Procs
  BY ViewTypes
<1>2. PICK q \in Procs : q # p /\ Freed(seen, seen', q, op, c, TRUE)
                           /\ SameProcs(seen, seen', {p, q})
  BY DEF SomeFreed
<1>3. PICK j \in DOMAIN seen.blocked[q] :
        /\ seen.blocked[q][j] = [op |-> op, ch |-> c]
        /\ seen'.outcome[q] = EndOf(q \in seen.ranging, j, TRUE)
  BY <1>2 DEF Freed
<1>4. \A r \in Procs : r # p /\ r # q => SameProc(seen, seen', r) BY <1>2 DEF SameProcs
<1>5. PICK o : o = <<q, j>> /\ o[1] = q /\ o[2] = j
  <2>1. <<q, j>> = <<q, j>> /\ <<q, j>>[1] = q /\ <<q, j>>[2] = j OBVIOUS
  <2> QED BY <2>1
<1>6. o \in Go!Offers(op, c) BY <1>3, <1>5, GoOffers
<1>7. Go!End(q \in seen.ranging, j, TRUE) = EndOf(q \in seen.ranging, j, TRUE)
  BY DEF Go!End, EndOf, Go!RangeBody, RangeBody, Go!RangeExit, RangeExit
<1>8. seen'.blocked = [seen.blocked EXCEPT ![q] = <<>>]
  <2>1. \A r \in Procs : r # q => seen'.blocked[r] = seen.blocked[r]
    BY <1>4 DEF Ends, Begins, SameProc
  <2> QED BY <1>1, <1>2, <2>1 DEF Freed
<1>9. seen'.ranging = seen.ranging \ {q}
  <2>1. \A r : r \in seen'.ranging <=> r \in seen.ranging \ {q}
    BY <1>1, <1>2, <1>4 DEF Ends, Begins, SameProc, Freed
  <2> QED BY <2>1
<1>10. seen'.outcome = [[seen.outcome EXCEPT ![p] = v] EXCEPT ![q] = EndOf(q \in seen.ranging, j, TRUE)]
  BY <1>1, <1>2, <1>3, <1>4 DEF Ends, SameProc
<1>11. Go!Unblock(o, [seen.outcome EXCEPT ![p] = v], TRUE)
  BY <1>5, <1>7, <1>8, <1>9, <1>10 DEF Go!Unblock
<1>12. Go!Start(p)
  <2>1. \A r \in Procs : r # p => seen'.stmts[r] = seen.stmts[r]
    BY <1>2, <1>4 DEF SameProc, Freed
  <2> QED BY <2>1, GoStart DEF Ends
<1> QED BY <1>6, <1>11, <1>12

\* The channels.
LEMMA SameChannels ==
  ASSUME seen \in Views, seen' \in Views
  PROVE  /\ SameChans(seen, seen', {}) => seen'.cap = seen.cap /\ seen'.len = seen.len
         /\ \A c \in Chans : SameChans(seen, seen', {c}) =>
              /\ \A n \in Int : seen'.len[c] = n => seen'.len = [seen.len EXCEPT ![c] = n]
              /\ \A n \in Int : seen'.cap[c] = n => seen'.cap = [seen.cap EXCEPT ![c] = n]
              /\ seen'.len[c] = seen.len[c] => seen'.len = seen.len
              /\ seen'.cap[c] = seen.cap[c] => seen'.cap = seen.cap
<1>1. /\ seen.cap \in [Chans -> Int] /\ seen'.cap \in [Chans -> Int]
      /\ seen.len \in [Chans -> Int] /\ seen'.len \in [Chans -> Int]
  BY ViewTypes
<1>2. ASSUME SameChans(seen, seen', {}) PROVE seen'.cap = seen.cap /\ seen'.len = seen.len
  BY <1>1, <1>2 DEF SameChans, SameChan
<1>3. ASSUME NEW c \in Chans, SameChans(seen, seen', {c})
      PROVE  /\ \A n \in Int : seen'.len[c] = n => seen'.len = [seen.len EXCEPT ![c] = n]
             /\ \A n \in Int : seen'.cap[c] = n => seen'.cap = [seen.cap EXCEPT ![c] = n]
             /\ seen'.len[c] = seen.len[c] => seen'.len = seen.len
             /\ seen'.cap[c] = seen.cap[c] => seen'.cap = seen.cap
  <2>1. \A d \in Chans : d # c => seen'.cap[d] = seen.cap[d] /\ seen'.len[d] = seen.len[d]
    BY <1>3 DEF SameChans, SameChan
  <2> QED BY <1>1, <2>1
<1> QED BY <1>2, <1>3

\* Sending, receiving and blocking.
LEMMA GoSend ==
  ASSUME seen \in Views, seen' \in Views, NEW p \in Procs, NEW i, NEW c \in Chans,
         SendStep(seen, seen', p, i, c)
  PROVE  Go!Start(p) /\ Go!Send(p, i, c)
<1>1. seen'.panicked = seen.panicked BY ViewTypes
<1>2. seen.cap[c] >= 0 /\ Ends(seen, seen', p, i) BY DEF SendStep
<1>3. CASE SomeFreed(seen, seen', p, "receive", c) /\ SameChans(seen, seen', {})
  <2>1. seen'.cap = seen.cap /\ seen'.len = seen.len BY <1>3, SameChannels
  <2>2. /\ Go!Start(p)
        /\ \E o \in Go!Offers("receive", c) : Go!Unblock(o, [seen.outcome EXCEPT ![p] = i], TRUE)
    BY <1>2, <1>3, GoUnblock
  <2> QED BY <1>1, <1>2, <2>1, <2>2 DEF Go!Send
<1>4. CASE /\ NoOffer(seen, "receive", c) /\ seen.len[c] < seen.cap[c]
           /\ seen'.len[c] = seen.len[c] + 1 /\ seen'.cap[c] = seen.cap[c]
           /\ SameProcs(seen, seen', {p}) /\ SameChans(seen, seen', {c})
  <2>0. seen.len \in [Chans -> Int] BY ViewTypes
  <2>1. seen.len[c] + 1 \in Int BY <2>0
  <2>2. seen'.cap = seen.cap /\ seen'.len = [seen.len EXCEPT ![c] = @ + 1]
    BY <1>4, <2>1, SameChannels
  <2>3. Go!Start(p) /\ Go!Finish([seen.outcome EXCEPT ![p] = i])
    BY <1>2, <1>4, GoFinish
  <2>4. Go!Offers("receive", c) = {} BY <1>4, GoOffers
  <2> QED BY <1>1, <1>2, <1>4, <2>2, <2>3, <2>4 DEF Go!Send
<1> QED BY <1>3, <1>4 DEF SendStep

LEMMA GoEnd == \A range, i, got : Go!End(range, i, got) = EndOf(range, i, got)
BY DEF Go!End, EndOf, Go!RangeBody, RangeBody, Go!RangeExit, RangeExit

LEMMA GoReceive ==
  ASSUME seen \in Views, seen' \in Views, NEW p \in Procs, NEW i, NEW c \in Chans, NEW range,
         ReceiveStep(seen, seen', p, i, c, range)
  PROVE  Go!Start(p) /\ Go!Receive(p, i, c, range)
<1>1. seen'.panicked = seen.panicked BY ViewTypes
<1>2. \A got : Go!End(range, i, got) = EndOf(range, i, got) BY GoEnd
<1>3. CASE /\ Ends(seen, seen', p, EndOf(range, i, TRUE))
           /\ SomeFreed(seen, seen', p, "send", c) /\ SameChans(seen, seen', {})
  <2>1. seen'.cap = seen.cap /\ seen'.len = seen.len BY <1>3, SameChannels
  <2>2. /\ Go!Start(p)
        /\ \E o \in Go!Offers("send", c) :
             Go!Unblock(o, [seen.outcome EXCEPT ![p] = Go!End(range, i, TRUE)], TRUE)
    BY <1>2, <1>3, GoUnblock
  <2> QED BY <1>1, <2>1, <2>2 DEF Go!Receive
<1>4. CASE /\ NoOffer(seen, "send", c) /\ seen.len[c] > 0
           /\ Ends(seen, seen', p, EndOf(range, i, TRUE))
           /\ seen'.len[c] = seen.len[c] - 1 /\ seen'.cap[c] = seen.cap[c]
           /\ SameProcs(seen, seen', {p}) /\ SameChans(seen, seen', {c})
  <2>0. seen.len \in [Chans -> Int] BY ViewTypes
  <2>1. seen.len[c] - 1 \in Int BY <2>0
  <2>2. seen'.cap = seen.cap /\ seen'.len = [seen.len EXCEPT ![c] = @ - 1]
    BY <1>4, <2>1, SameChannels
  <2>3. Go!Start(p) /\ Go!Finish([seen.outcome EXCEPT ![p] = Go!End(range, i, TRUE)])
    BY <1>2, <1>4, GoFinish
  <2>4. Go!Offers("send", c) = {} BY <1>4, GoOffers
  <2> QED BY <1>1, <1>4, <2>2, <2>3, <2>4 DEF Go!Receive
<1>5. CASE /\ seen.cap[c] = -1 /\ seen.len[c] = 0
           /\ Ends(seen, seen', p, EndOf(range, i, FALSE))
           /\ SameProcs(seen, seen', {p}) /\ SameChans(seen, seen', {})
  <2>1. seen'.cap = seen.cap /\ seen'.len = seen.len BY <1>5, SameChannels
  <2>2. Go!Start(p) /\ Go!Finish([seen.outcome EXCEPT ![p] = Go!End(range, i, FALSE)])
    BY <1>2, <1>5, GoFinish
  <2> QED BY <1>1, <1>5, <2>1, <2>2 DEF Go!Receive, Go!Closed
<1> QED BY <1>3, <1>4, <1>5 DEF ReceiveStep

LEMMA GoCannot ==
  ASSUME seen \in Views, NEW x \in Cases
  PROVE  Cannot(seen, x) <=> ~Go!CanProceed(x)
<1>1. x.ch \in Chans /\ x.op \in {"send", "receive"} BY DEF Cases
<1>2. seen.len[x.ch] \in Int /\ seen.cap[x.ch] \in Int BY <1>1, ViewTypes
<1>3. \A op : Go!Offers(op, x.ch) = {} <=> NoOffer(seen, op, x.ch) BY GoOffers
<1> QED BY <1>1, <1>2, <1>3 DEF Cannot, Go!CanProceed, Go!Closed

LEMMA GoBlock ==
  ASSUME seen \in Views, seen' \in Views, NEW p \in Procs, NEW m \in Seq(Cases), NEW k,
         BlockStep(seen, seen', p, m, k)
  PROVE  /\ Go!Start(p)
         /\ k = "range" => Go!Block(p, m, TRUE)
         /\ k # "range" => Go!Block(p, m, FALSE)
<1>1. /\ seen.outcome \in [Procs -> Int] /\ seen'.outcome \in [Procs -> Int]
      /\ seen.blocked \in [Procs -> Seq(Cases)] /\ seen'.blocked \in [Procs -> Seq(Cases)]
      /\ seen.ranging \in SUBSET Procs /\ seen'.ranging \in SUBSET Procs
      /\ seen'.panicked = seen.panicked
  BY ViewTypes
<1>2. seen'.cap = seen.cap /\ seen'.len = seen.len BY SameChannels DEF BlockStep
<1>3. \A q \in Procs : q # p => SameProc(seen, seen', q) BY DEF BlockStep, SameProcs
<1>4. /\ Begins(seen, p, seen'.stmts[p]) /\ seen'.blocked[p] = m
      /\ p \in seen'.ranging <=> k = "range"
      /\ seen'.outcome[p] = NoOutcome
  BY DEF BlockStep
<1>5. Go!Start(p) BY <1>3, <1>4, GoStart DEF SameProc
<1>6. seen'.outcome = [seen.outcome EXCEPT ![p] = Go!NoOutcome]
  BY <1>1, <1>3, <1>4 DEF SameProc, NoOutcome, Go!NoOutcome
<1>7. seen'.blocked = [seen.blocked EXCEPT ![p] = m]
  BY <1>1, <1>3, <1>4 DEF SameProc
<1>8. seen'.ranging = IF k = "range" THEN seen.ranging \cup {p} ELSE seen.ranging
  <2>1. \A q : q \in seen'.ranging <=> (q \in seen.ranging \/ (q = p /\ k = "range"))
    BY <1>1, <1>3, <1>4 DEF SameProc, Begins
  <2> QED BY <2>1
<1>9. \A i \in DOMAIN m : ~Go!CanProceed(m[i])
  <2>1. \A i \in DOMAIN m : m[i] \in Cases OBVIOUS
  <2> QED BY <2>1, GoCannot DEF BlockStep
<1> QED BY <1>1, <1>2, <1>5, <1>6, <1>7, <1>8, <1>9 DEF Go!Block

LEMMA GoStill ==
  ASSUME seen \in Views, seen' \in Views, SameProcs(seen, seen', {})
  PROVE  /\ seen'.blocked = seen.blocked /\ seen'.ranging = seen.ranging
         /\ seen'.outcome = seen.outcome /\ seen'.stmts = seen.stmts
<1>1. /\ seen.outcome \in [Procs -> Int] /\ seen'.outcome \in [Procs -> Int]
      /\ seen.blocked \in [Procs -> Seq(Cases)] /\ seen'.blocked \in [Procs -> Seq(Cases)]
      /\ seen.ranging \in SUBSET Procs /\ seen'.ranging \in SUBSET Procs
      /\ seen.stmts \in [Procs -> Nat] /\ seen'.stmts \in [Procs -> Nat]
  BY ViewTypes
<1>2. \A q \in Procs : SameProc(seen, seen', q) BY DEF SameProcs
<1>3. seen'.ranging = seen.ranging
  <2>1. \A q : q \in seen'.ranging <=> q \in seen.ranging
    BY <1>1, <1>2 DEF SameProc
  <2> QED BY <2>1
<1>4. seen'.blocked = seen.blocked BY <1>1, <1>2 DEF SameProc
<1>5. seen'.outcome = seen.outcome BY <1>1, <1>2 DEF SameProc
<1>6. seen'.stmts = seen.stmts BY <1>1, <1>2 DEF SameProc
<1> QED BY <1>3, <1>4, <1>5, <1>6

LEMMA GoMake ==
  ASSUME seen \in Views, seen' \in Views, NEW c \in Chans, NEW n \in BufferSizes,
         MakeStep(seen, seen', c, n)
  PROVE  Go!Make(n)
<1>1. seen'.panicked = seen.panicked /\ ~seen.panicked BY ViewTypes
<1>2. n \in Int BY ConstantsAssumption
<1>3. seen'.len = seen.len /\ seen'.cap = [seen.cap EXCEPT ![c] = n]
  BY <1>2, SameChannels DEF MakeStep
<1>4. c \in Chans \ Go!Made BY DEF MakeStep, Go!Made, Go!NotMade
<1>5. /\ seen'.blocked = seen.blocked /\ seen'.ranging = seen.ranging
      /\ seen'.outcome = seen.outcome /\ seen'.stmts = seen.stmts
  BY GoStill DEF MakeStep
<1> QED BY <1>1, <1>3, <1>4, <1>5 DEF Go!Make

LEMMA GoClose ==
  ASSUME seen \in Views, seen' \in Views, NEW p \in Procs, NEW c \in Chans,
         CloseStep(seen, seen', p, c)
  PROVE  Go!Close(p, c)
<1> DEFINE freed == {o[1] : o \in Go!Offers("receive", c)}
           CaseOf(q) == CHOOSE i \in DOMAIN seen.blocked[q] : <<q, i>> \in Go!Offers("receive", c)
<1>1. /\ seen.outcome \in [Procs -> Int] /\ seen'.outcome \in [Procs -> Int]
      /\ seen.blocked \in [Procs -> Seq(Cases)] /\ seen'.blocked \in [Procs -> Seq(Cases)]
      /\ seen.ranging \in SUBSET Procs /\ seen'.ranging \in SUBSET Procs
      /\ seen.cap \in [Chans -> Int]
      /\ seen'.panicked = seen.panicked /\ ~seen.panicked
      /\ \A q \in Procs : DistinctChannels(seen.blocked[q])
  BY ViewTypes
<1>2. /\ seen.cap[c] >= 0 /\ NoOffer(seen, "send", c) /\ Ends(seen, seen', p, NoOutcome)
      /\ \A q \in Procs : q # p =>
           IF HasCase(seen.blocked[q], "receive", c)
           THEN Freed(seen, seen', q, "receive", c, FALSE) ELSE SameProc(seen, seen', q)
  BY DEF CloseStep
<1>3. ~HasCase(seen.blocked[p], "receive", c) BY <1>2 DEF Ends, Begins, HasCase
<1>4. \A q : q \in freed <=> q \in Procs /\ HasCase(seen.blocked[q], "receive", c)
  <2>1. ASSUME NEW q \in freed PROVE q \in Procs /\ HasCase(seen.blocked[q], "receive", c)
    <3>1. PICK o \in Go!Offers("receive", c) : q = o[1] BY <2>1
    <3> QED BY <3>1, GoOffers
  <2>2. ASSUME NEW q \in Procs, HasCase(seen.blocked[q], "receive", c) PROVE q \in freed
    <3>1. PICK j \in DOMAIN seen.blocked[q] : seen.blocked[q][j] = [op |-> "receive", ch |-> c]
      BY <2>2 DEF HasCase
    <3>2. <<q, j>> \in Go!Offers("receive", c) BY <3>1, GoOffers
    <3> QED BY <3>2
  <2> QED BY <2>1, <2>2
<1>5. ASSUME NEW q \in Procs, HasCase(seen.blocked[q], "receive", c)
      PROVE  seen'.outcome[q] = Go!End(q \in seen.ranging, CaseOf(q), FALSE)
  <2>1. Freed(seen, seen', q, "receive", c, FALSE) BY <1>2, <1>3, <1>5
  <2>2. PICK j \in DOMAIN seen.blocked[q] :
          /\ seen.blocked[q][j] = [op |-> "receive", ch |-> c]
          /\ seen'.outcome[q] = EndOf(q \in seen.ranging, j, FALSE)
    BY <2>1 DEF Freed
  <2>3. \A i \in DOMAIN seen.blocked[q] : <<q, i>> \in Go!Offers("receive", c) <=> i = j
    <3>1. DistinctChannels(seen.blocked[q]) BY <1>1
    <3> QED BY <2>2, <3>1, GoOffers DEF DistinctChannels
  <2>4. CaseOf(q) = j BY <2>3
  <2> QED BY <2>2, <2>4, GoEnd
<1>6. Go!Start(p)
  <2>1. \A q \in Procs : q # p => seen'.stmts[q] = seen.stmts[q]
    BY <1>2 DEF Freed, SameProc
  <2> QED BY <1>2, <2>1, GoStart DEF Ends
<1> HIDE DEF freed, CaseOf
<1>7. seen'.blocked = [q \in Procs |-> IF q \in freed THEN <<>> ELSE seen.blocked[q]]
  <2>1. ASSUME NEW q \in Procs
        PROVE  seen'.blocked[q] = IF q \in freed THEN <<>> ELSE seen.blocked[q]
    BY <1>2, <1>3, <1>4 DEF Freed, SameProc, Ends, Begins
  <2> QED BY <1>1, <2>1
<1>8. seen'.ranging = seen.ranging \ freed
  <2>1. \A q : q \in seen'.ranging <=> q \in seen.ranging \ freed
    BY <1>1, <1>2, <1>3, <1>4 DEF Freed, SameProc, Ends, Begins
  <2> QED BY <2>1
<1>9. seen'.outcome = [q \in Procs |->
         IF q \in freed THEN Go!End(q \in seen.ranging, CaseOf(q), FALSE)
         ELSE IF q = p THEN Go!NoOutcome ELSE seen.outcome[q]]
  <2>1. ASSUME NEW q \in Procs
        PROVE  seen'.outcome[q] = IF q \in freed THEN Go!End(q \in seen.ranging, CaseOf(q), FALSE)
                                 ELSE IF q = p THEN Go!NoOutcome ELSE seen.outcome[q]
    <3>1. CASE q \in freed BY <1>4, <1>5, <3>1
    <3>2. CASE q \notin freed /\ q = p
      BY <1>2, <3>2 DEF Ends, NoOutcome, Go!NoOutcome
    <3>3. CASE q \notin freed /\ q # p
      BY <1>2, <1>4, <3>3 DEF SameProc
    <3> QED BY <3>1, <3>2, <3>3
  <2> QED BY <1>1, <2>1
<1>10. seen'.len = seen.len /\ seen'.cap = [seen.cap EXCEPT ![c] = Go!Closed]
  BY SameChannels DEF CloseStep, Go!Closed
<1>11. ~(seen.cap[c] = Go!Closed \/ Go!Offers("send", c) # {})
  <2>1. Go!Offers("send", c) = {} BY <1>2, GoOffers
  <2>2. seen.cap[c] # -1 BY <1>1, <1>2
  <2> QED BY <2>1, <2>2 DEF Go!Closed
<1> QED
  BY <1>1, <1>6, <1>7, <1>8, <1>9, <1>10, <1>11 DEF Go!Close, freed, CaseOf

LEMMA GoDefault ==
  ASSUME seen \in Views, seen' \in Views, NEW p \in Procs, NEW m \in Seq(Cases),
         DefaultStep(seen, seen', p, m)
  PROVE  Go!Select(p, m)
<1>1. Go!Start(p) /\ Go!Finish([seen.outcome EXCEPT ![p] = Go!DefaultEnter])
  BY GoFinish DEF DefaultStep, DefaultEnter, Go!DefaultEnter
<1>2. \A i \in DOMAIN m : ~Go!CanProceed(m[i])
  <2>1. \A i \in DOMAIN m : m[i] \in Cases OBVIOUS
  <2> QED BY <2>1, GoCannot DEF DefaultStep
<1>3. seen'.cap = seen.cap /\ seen'.len = seen.len /\ seen'.panicked = seen.panicked
  BY SameChannels, ViewTypes DEF DefaultStep
<1> QED BY <1>1, <1>2, <1>3 DEF Go!Select

\* A send or receive statement, a receive of a range loop, and a select.
LEMMA GoOperation ==
  ASSUME seen \in Views, seen' \in Views, NEW p \in Procs, NEW x \in Cases, NEW k \in {"op", "range"},
         k = "range" => x.op = "receive",
         seen.cap[x.ch] # -2, CaseStep(seen, seen', p, <<x>>, k)
  PROVE  Go!Next
<1>1. x = [op |-> x.op, ch |-> x.ch] /\ x.ch \in Chans /\ x.op \in {"send", "receive"}
  BY DEF Cases
<1>2. x.ch \in Go!Made BY <1>1 DEF Go!Made, Go!NotMade
<1>3. <<x>> \in Seq(Cases) /\ DOMAIN <<x>> = {1} /\ <<x>>[1] = x OBVIOUS
<1>4. \/ x.op = "send" /\ SendStep(seen, seen', p, 1, x.ch)
      \/ x.op = "receive" /\ ReceiveStep(seen, seen', p, 1, x.ch, k = "range")
      \/ BlockStep(seen, seen', p, <<x>>, k)
  BY <1>3 DEF CaseStep
<1>5. CASE k = "op"
  <2>1. CASE x.op = "send" /\ SendStep(seen, seen', p, 1, x.ch)
    <3>1. Go!Start(p) /\ Go!Send(p, 1, x.ch) BY <1>1, <2>1, GoSend
    <3>2. Go!Proceed(p, 1, [op |-> "send", ch |-> x.ch], FALSE)
      BY <3>1 DEF Go!Proceed
    <3>3. Go!Operation(p, "send", x.ch, FALSE) BY <3>1, <3>2 DEF Go!Operation
    <3> QED BY <1>2, <3>3 DEF Go!Next
  <2>2. CASE x.op = "receive" /\ ReceiveStep(seen, seen', p, 1, x.ch, k = "range")
    <3>0. ReceiveStep(seen, seen', p, 1, x.ch, FALSE) BY <1>5, <2>2 DEF ReceiveStep, EndOf
    <3>1. Go!Start(p) /\ Go!Receive(p, 1, x.ch, FALSE) BY <1>1, <3>0, GoReceive
    <3>2. Go!Proceed(p, 1, [op |-> "receive", ch |-> x.ch], FALSE)
      BY <3>1 DEF Go!Proceed
    <3>3. Go!Operation(p, "receive", x.ch, FALSE) BY <3>1, <3>2 DEF Go!Operation
    <3> QED BY <1>2, <3>3 DEF Go!Next
  <2>3. CASE BlockStep(seen, seen', p, <<x>>, k)
    <3>1. Go!Start(p) /\ Go!Block(p, <<x>>, FALSE) BY <1>3, <1>5, <2>3, GoBlock
    <3>2. Go!Operation(p, x.op, x.ch, FALSE) BY <1>1, <3>1 DEF Go!Operation
    <3> QED BY <1>1, <1>2, <3>2 DEF Go!Next
  <2> QED BY <1>4, <2>1, <2>2, <2>3
<1>6. CASE k = "range"
  <2>0. x.op = "receive" BY <1>6
  <2>2. CASE x.op = "receive" /\ ReceiveStep(seen, seen', p, 1, x.ch, k = "range")
    <3>0. ReceiveStep(seen, seen', p, 1, x.ch, TRUE) BY <1>6, <2>2 DEF ReceiveStep, EndOf
    <3>1. Go!Start(p) /\ Go!Receive(p, 1, x.ch, TRUE) BY <1>1, <3>0, GoReceive
    <3>2. Go!Proceed(p, 1, [op |-> "receive", ch |-> x.ch], TRUE)
      BY <3>1 DEF Go!Proceed
    <3>3. Go!Operation(p, "receive", x.ch, TRUE) BY <3>1, <3>2 DEF Go!Operation
    <3> QED BY <1>2, <3>3 DEF Go!Next
  <2>3. CASE BlockStep(seen, seen', p, <<x>>, k)
    <3>1. Go!Start(p) /\ Go!Block(p, <<x>>, TRUE) BY <1>3, <1>6, <2>3, GoBlock
    <3>2. Go!Operation(p, "receive", x.ch, TRUE) BY <1>1, <2>0, <3>1 DEF Go!Operation
    <3> QED BY <1>1, <1>2, <3>2 DEF Go!Next
  <2> QED BY <1>4, <2>0, <2>2, <2>3
<1> QED BY <1>5, <1>6

LEMMA GoSelect ==
  ASSUME seen \in Views, seen' \in Views, NEW p \in Procs, NEW m \in Menus,
         NEW k \in {"select", "select_default"},
         \A i \in DOMAIN m : seen.cap[m[i].ch] # -2, CaseStep(seen, seen', p, m, k)
  PROVE  Go!Next
<1>1. m \in Seq(Cases) BY CasesAreSequences
<1>2. \A i \in DOMAIN m : m[i] \in Cases /\ m[i].ch \in Chans
  <2>1. \A i \in DOMAIN m : m[i] \in Cases BY <1>1
  <2> QED BY <2>1 DEF Cases
<1>3. \A i \in DOMAIN m : m[i].ch \in Go!Made BY <1>2 DEF Go!Made, Go!NotMade
<1>4. ASSUME NEW i \in DOMAIN m, m[i].op = "send", SendStep(seen, seen', p, i, m[i].ch)
      PROVE  Go!Select(p, m)
  <2>1. Go!Start(p) /\ Go!Send(p, i, m[i].ch) BY <1>2, <1>4, GoSend
  <2>2. Go!CanProceed(m[i])
    <3>1. SomeFreed(seen, seen', p, "receive", m[i].ch) => ~NoOffer(seen, "receive", m[i].ch)
      BY DEF SomeFreed, Freed, NoOffer, HasCase
    <3>2. seen.len[m[i].ch] \in Int /\ seen.cap[m[i].ch] \in Int BY <1>2, ViewTypes
    <3>3. ~Cannot(seen, m[i]) BY <1>4, <3>1, <3>2 DEF SendStep, Cannot
    <3> QED BY <1>2, <3>3, GoCannot
  <2> QED BY <1>4, <2>1, <2>2 DEF Go!Select, Go!Proceed
<1>5. ASSUME NEW i \in DOMAIN m, m[i].op = "receive",
             ReceiveStep(seen, seen', p, i, m[i].ch, k = "range")
      PROVE  Go!Select(p, m)
  <2>0. ReceiveStep(seen, seen', p, i, m[i].ch, FALSE) BY <1>5 DEF ReceiveStep, EndOf
  <2>1. Go!Start(p) /\ Go!Receive(p, i, m[i].ch, FALSE) BY <1>2, <2>0, GoReceive
  <2>2. Go!CanProceed(m[i])
    <3>1. SomeFreed(seen, seen', p, "send", m[i].ch) => ~NoOffer(seen, "send", m[i].ch)
      BY DEF SomeFreed, Freed, NoOffer, HasCase
    <3>2. seen.len[m[i].ch] \in Int /\ seen.cap[m[i].ch] \in Int BY <1>2, ViewTypes
    <3>3. \/ SomeFreed(seen, seen', p, "send", m[i].ch) \/ seen.len[m[i].ch] > 0
          \/ seen.cap[m[i].ch] = -1
      BY <2>0 DEF ReceiveStep
    <3>4. Cannot(seen, m[i]) => FALSE BY ONLY <1>5, <3>1, <3>2, <3>3 DEF Cannot
    <3> QED BY <1>2, <3>4, GoCannot
  <2> QED BY <1>5, <2>1, <2>2 DEF Go!Select, Go!Proceed
<1>6. ASSUME BlockStep(seen, seen', p, m, k)
      PROVE  Go!Select(p, m)
  <2>1. Go!Start(p) /\ Go!Block(p, m, FALSE) BY <1>1, <1>6, GoBlock
  <2> QED BY <2>1 DEF Go!Select
<1>7. ASSUME DefaultStep(seen, seen', p, m)
      PROVE  Go!Select(p, m)
  BY <1>1, <1>7, GoDefault
<1>8. Go!Select(p, m) BY <1>4, <1>5, <1>6, <1>7 DEF CaseStep
<1> QED BY <1>3, <1>8 DEF Go!Next

LEMMA GoStepIsNext ==
  ASSUME seen \in Views, GoStep(seen, seen')
  PROVE  Go!Next
<1>0. seen' \in Views BY DEF GoStep
<1>1. CASE \E c \in Chans, n \in BufferSizes : MakeStep(seen, seen', c, n)
  BY <1>0, <1>1, GoMake DEF Go!Next
<1>2. CASE \E p \in Procs, c \in Chans : CloseStep(seen, seen', p, c)
  <2>1. PICK p \in Procs, c \in Chans : CloseStep(seen, seen', p, c) BY <1>2
  <2>2. Go!Close(p, c) BY <1>0, <2>1, GoClose
  <2>3. seen.cap[c] \in Int BY ViewTypes
  <2>4. c \in Go!Made BY <2>1, <2>3 DEF CloseStep, Go!Made, Go!NotMade
  <2> QED BY <2>2, <2>4 DEF Go!Next
<1>3. CASE \E p \in Procs, m \in Lists, k \in Kinds :
             Statement(seen, m, k) /\ CaseStep(seen, seen', p, m, k)
  <2>1. PICK p \in Procs, m \in Lists, k \in Kinds :
          Statement(seen, m, k) /\ CaseStep(seen, seen', p, m, k)
    BY <1>3
  <2>2. CASE k \in {"op", "range"} /\ \E x \in Cases : m = <<x>> /\ (k = "range" => x.op = "receive")
    <3>1. PICK x \in Cases : m = <<x>> /\ (k = "range" => x.op = "receive") BY <2>2
    <3>2. seen.cap[x.ch] # -2
      <4>1. DOMAIN <<x>> = {1} /\ <<x>>[1] = x OBVIOUS
      <4> QED BY <2>1, <3>1, <4>1 DEF Statement
    <3> QED BY <1>0, <2>1, <2>2, <3>1, <3>2, GoOperation
  <2>3. CASE k \in {"select", "select_default"} /\ m \in Menus
    <3>1. \A i \in DOMAIN m : seen.cap[m[i].ch] # -2 BY <2>1 DEF Statement
    <3> QED BY <1>0, <2>1, <2>3, <3>1, GoSelect
  <2> QED BY <2>1, <2>2, <2>3 DEF Statement
<1> QED BY <1>1, <1>2, <1>3 DEF GoStep

-----------------------------------------------------------------------------
\* The view of a state.

\* Process q stays where it is.
Stays(q) ==
    /\ loc'[q] = loc[q] /\ cases'[q] = cases[q] /\ kind'[q] = kind[q]
    /\ outcome'[q] = outcome[q] /\ stmts'[q] = stmts[q]
    /\ loc[q] = "range_received" => buffer' = buffer /\ ok'[q] = ok[q]

LEMMA NowProc ==
  ASSUME NEW q \in Procs
  PROVE  /\ Now.blocked[q] = IF loc[q] = "waiting" THEN cases[q] ELSE <<>>
         /\ q \in Now.ranging <=> loc[q] = "waiting" /\ kind[q] = "range"
         /\ Now.outcome[q] = Out(q) /\ Now.stmts[q] = stmts[q]
         /\ loc[q] # "range_received" => Now.outcome[q] = outcome[q]
BY DEF Now, Waiting, Out

LEMMA NextProc ==
  ASSUME NEW q \in Procs
  PROVE  /\ Now'.blocked[q] = IF loc'[q] = "waiting" THEN cases'[q] ELSE <<>>
         /\ q \in Now'.ranging <=> loc'[q] = "waiting" /\ kind'[q] = "range"
         /\ Now'.outcome[q] = Out(q)' /\ Now'.stmts[q] = stmts'[q]
         /\ loc'[q] # "range_received" => Now'.outcome[q] = outcome'[q]
BY DEF Now, Waiting, Out

LEMMA NowChan ==
  ASSUME NEW c \in Chans
  PROVE  /\ Now.len[c] = Content(c) /\ Now'.len[c] = Content(c)'
         /\ c \in Made => Now.cap[c] = buffer[c]
         /\ c \notin Made => Now.cap[c] = -2
         /\ c \in Made' => Now'.cap[c] = buffer'[c]
         /\ c \notin Made' => Now'.cap[c] = -2
BY DEF Now

LEMMA NowTyped == TypeOK /\ Shape => Now \in Views
<1> SUFFICES ASSUME TypeOK, Shape PROVE Now \in Views OBVIOUS
<1>1. \A c \in Chans : Content(c) \in Int BY ContentCounted DEF Counted
<1>2. Now.cap \in [Chans -> Int] /\ Now.len \in [Chans -> Int]
  BY <1>1 DEF Now, TypeOK
<1>3. Now.blocked \in [Procs -> {m \in Seq(Cases) : DistinctChannels(m)}]
  <2>1. ASSUME NEW q \in Procs
        PROVE  (IF Waiting(q) THEN cases[q] ELSE <<>>) \in {m \in Seq(Cases) : DistinctChannels(m)}
    <3>1. cases[q] \in Seq(Cases) /\ DistinctChannels(cases[q]) BY DEF TypeOK, Shape, CasesOK
    <3>2. <<>> \in Seq(Cases) /\ DistinctChannels(<<>>) BY DEF DistinctChannels
    <3> QED BY <3>1, <3>2
  <2> QED BY <2>1 DEF Now
<1>4. Now.outcome \in [Procs -> Int]
  <2>1. \A q \in Procs : Out(q) \in Int BY DEF Out, TypeOK, RangeBody, RangeExit
  <2> QED BY <2>1 DEF Now
<1>5. Now.ranging \in SUBSET Procs /\ Now.stmts \in [Procs -> Nat] /\ Now.panicked \in {FALSE}
  BY DEF Now, TypeOK
<1>6. DOMAIN Now = {"cap", "len", "blocked", "ranging", "outcome", "stmts", "panicked"}
  BY DEF Now
<1> QED BY <1>2, <1>3, <1>4, <1>5, <1>6 DEF Views, Now

LEMMA ObservedIsNow == TypeOK /\ Shape /\ Quiet /\ ~Panicked => Observed = Now
<1> SUFFICES ASSUME TypeOK, Shape, Quiet, ~Panicked PROVE Observed = Now OBVIOUS
<1>1. \A c \in Chans : Buffered(c) = Content(c)
  BY QuietRests, QuietBlocked DEF Buffered, Content
<1>2. [c \in Chans |-> Buffered(c)] = [c \in Chans |-> Content(c)] BY <1>1
<1>3. outcome = [p \in Procs |-> Out(p)]
  <2>1. \A p \in Procs : Out(p) = outcome[p] BY DEF Out, Quiet, CommittedProcess
  <2> QED BY <2>1 DEF TypeOK
<1>4. Panicked = FALSE BY DEF Panicked
<1> QED BY <1>2, <1>3, <1>4 DEF Observed, Now

LEMMA StaysSame ==
  ASSUME NEW q \in Procs, Stays(q)
  PROVE  SameProc(Now, Now', q)
<1>1. Out(q)' = Out(q) BY DEF Stays, Out
<1> QED BY <1>1, NowProc, NextProc DEF Stays, SameProc

\* Who offers what.
LEMMA NowOffers ==
  ASSUME NEW q \in Procs, loc[q] # "select_pass_1", NEW op, NEW c
  PROVE  q \in Offers(op, c) <=> HasCase(Now.blocked[q], op, c)
BY NowProc DEF Offers, Offering, HasCase

LEMMA SeenOffers ==
  ASSUME NEW p \in Procs, SameProcs(seen, Now, {p}), seen.blocked[p] = <<>>,
         \A q \in Procs : q # p => loc[q] # "select_pass_1", NEW op, NEW c
  PROVE  NoOffer(seen, op, c) <=> Offers(op, c) \ {p} = {}
<1>1. ~HasCase(seen.blocked[p], op, c) BY DEF HasCase
<1>2. \A q \in Procs : q # p => (HasCase(seen.blocked[q], op, c) <=> q \in Offers(op, c))
  BY NowOffers DEF SameProcs, SameProc
<1>3. Offers(op, c) \subseteq Procs BY DEF Offers
<1> QED BY <1>1, <1>2, <1>3 DEF NoOffer

\* Relations between views.
LEMMA SameTrans ==
  ASSUME NEW s, NEW t, NEW u, NEW q
  PROVE  /\ SameProc(s, t, q) /\ SameProc(t, u, q) => SameProc(s, u, q)
         /\ SameChan(s, t, q) /\ SameChan(t, u, q) => SameChan(s, u, q)
BY DEF SameProc, SameChan

-----------------------------------------------------------------------------
\* Which part of the invariant applies.

LEMMA QuietUnchanged ==
  ASSUME Shape, Seen, Quiet
  PROVE  seen = Now
<1>1. ASSUME NEW p \in Procs, Started(p) PROVE FALSE
  BY <1>1 DEF Started, Acts, Polls, Answered, Quiet, CommittedProcess, CommittedChannel, Answering
<1>2. ASSUME NEW c \in Chans, Sending(c) \/ Receiving(c) PROVE FALSE
  BY <1>2 DEF Sending, Receiving, Quiet, CommittedChannel
<1>3. ASSUME NEW c \in Chans, NEW p \in Procs, Closing(c, p) PROVE FALSE
  BY <1>3 DEF Closing, Quiet, CommittedChannel
<1> QED BY <1>1, <1>2, <1>3 DEF Seen, Track, Unchanged, Done

\* What a process that acts excludes.
LEMMA ActingCommits ==
  ASSUME Shape, NEW p \in Procs, Acts(p), NEW c \in Chans
  PROVE  automaton[c] \notin {"confirming_a", "confirming_b", "closing"}
<1>1. CASE Polls(p) BY <1>1 DEF Polls, CommittedChannel
<1>2. CASE \E d \in Chans : Answered(p, d)
  BY <1>2 DEF Answered, Answering, Shape, OneCommitted, CommittedChannel
<1> QED BY <1>1, <1>2 DEF Acts

LEMMA ActingAlone ==
  ASSUME Shape, NEW p \in Procs, Acts(p)
  PROVE  ~Quiet /\ \A q \in Procs : q # p => loc[q] # "select_pass_1"
BY DEF Acts, Polls, Answered, Quiet, CommittedProcess, CommittedChannel, Answering, Around, Ready

LEMMA PollerStarted ==
  ASSUME Shape, Seen, NEW p \in Procs, loc[p] = "select_pass_1"
  PROVE  Started(p)
<1>1. Acts(p) BY PollerActs DEF Acts
<1>2. \A t \in Procs : Started(t) => t = p BY ActingAlone DEF Started
<1>3. \A c \in Chans : ~Sending(c) /\ ~Receiving(c) /\ (\A t \in Procs : ~Closing(c, t))
  BY <1>1, ActingCommits DEF Sending, Receiving, Closing
<1>4. ~Unchanged /\ ~Done BY DEF Unchanged, Done, Quiet, CommittedProcess, NoneCommitted
<1> QED BY <1>2, <1>3, <1>4 DEF Seen, Track

LEMMA AnswerStarted ==
  ASSUME Shape, Seen, NEW c \in Chans, automaton[c] \in Answering
  PROVE  \E t \in Procs : Started(t) /\ Answered(t, c)
<1>1. automaton[c] \in CommittedChannel BY DEF Answering, CommittedChannel
<1>2. PICK p \in Procs : Around({p}) /\ Answered(p, c) BY TriggerActs
<1>3. Acts(p) BY <1>2 DEF Acts
<1>4. \A d \in Chans : ~Sending(d) /\ ~Receiving(d) /\ (\A t \in Procs : ~Closing(d, t))
  BY <1>3, ActingCommits DEF Sending, Receiving, Closing
<1>5. ~Unchanged /\ ~Done BY <1>1 DEF Unchanged, Done, Quiet, NoneCommitted
<1>6. PICK t \in Procs : Started(t) BY <1>4, <1>5 DEF Seen, Track
<1>7. ~Polls(t) BY <1>1 DEF Polls
<1>8. PICK d \in Chans : Answered(t, d) BY <1>6, <1>7 DEF Started, Acts
<1>9. d = c
  BY <1>1, <1>8 DEF Answered, Answering, Shape, OneCommitted, CommittedChannel
<1> QED BY <1>6, <1>8, <1>9

LEMMA ConfirmingAt ==
  ASSUME Shape, Seen, NEW c \in Chans
  PROVE  /\ automaton[c] = "confirming_a" => Sending(c)
         /\ automaton[c] = "confirming_b" => Receiving(c)
         /\ automaton[c] = "closing" => \E p \in Procs : Closing(c, p)
<1> SUFFICES ASSUME automaton[c] \in {"confirming_a", "confirming_b", "closing"}
             PROVE  /\ automaton[c] = "confirming_a" => Sending(c)
                    /\ automaton[c] = "confirming_b" => Receiving(c)
                    /\ automaton[c] = "closing" => \E p \in Procs : Closing(c, p)
  OBVIOUS
<1>1. automaton[c] \in CommittedChannel BY DEF CommittedChannel
<1>2. \A t \in Procs : ~Started(t) BY ActingCommits DEF Started
<1>3. ~Unchanged /\ ~Done BY <1>1 DEF Unchanged, Done, Quiet, NoneCommitted
<1>4. \A d \in Chans : automaton[d] \in CommittedChannel => d = c
  BY <1>1 DEF Shape, OneCommitted
<1>5. \A d \in Chans : Sending(d) \/ Receiving(d) \/ (\E t \in Procs : Closing(d, t)) => d = c
  BY <1>4 DEF Sending, Receiving, Closing, CommittedChannel
<1>6. Sending(c) \/ Receiving(c) \/ (\E t \in Procs : Closing(c, t))
  BY <1>2, <1>3, <1>5 DEF Seen, Track
<1> QED BY <1>6 DEF Sending, Receiving, Closing

-----------------------------------------------------------------------------
\* What a step is to be shown, and how.

\* A step of the network that does not panic, from a state where the invariant holds.
Watched == /\ TypeOK /\ TypeOK' /\ Shape /\ Shape' /\ Seen
           /\ ~seen.panicked /\ ~Panicked /\ ~Panicked' /\ Observe

Follows == seen' \in Views /\ Fresh(seen)' /\ Track' /\ [Go!Next]_(Go!vars)

\* Process p starts a statement that panics.
Dies(p) ==
    /\ Begins(seen, p, stmts'[p]) /\ \A q \in Procs : q # p => stmts'[q] = seen.stmts[q]
    /\ \/ \E m \in Lists, k \in Kinds : \E i \in DOMAIN m :
            Statement(seen, m, k) /\ m[i].op = "send" /\ seen.cap[m[i].ch] = -1
       \/ \E c \in Chans : \/ seen.cap[c] = -1
                           \/ seen.cap[c] >= 0 /\ ~NoOffer(seen, "send", c)

LEMMA ListsAreSequences == \A m \in Lists : m \in Seq(Cases)
<1>1. \A x \in Cases : <<x>> \in Seq(Cases) OBVIOUS
<1> QED BY <1>1, CasesAreSequences DEF Lists

LEMMA GoPanics ==
  ASSUME seen \in Views, TypeOK', NEW p \in Procs, Dies(p),
         seen' = [seen EXCEPT !.panicked = TRUE, !.stmts = stmts']
  PROVE  Go!Next
<1>1. /\ seen.blocked \in [Procs -> Seq(Cases)] /\ seen.stmts \in [Procs -> Nat]
      /\ seen.panicked = FALSE /\ seen.cap \in [Chans -> Int]
  BY ViewTypes
<1>2. /\ seen'.panicked = TRUE /\ seen'.stmts = stmts'
      /\ seen'.cap = seen.cap /\ seen'.len = seen.len /\ seen'.blocked = seen.blocked
      /\ seen'.ranging = seen.ranging /\ seen'.outcome = seen.outcome
  BY DEF Views
<1>3. Go!Start(p)
  <2>1. seen.blocked[p] = <<>> /\ seen.stmts[p] < MaxStmts /\ stmts'[p] = seen.stmts[p] + 1
    BY DEF Dies, Begins
  <2>2. stmts' \in [Procs -> Nat] BY DEF TypeOK
  <2>3. stmts' = [seen.stmts EXCEPT ![p] = @ + 1] BY <1>1, <2>1, <2>2 DEF Dies
  <2> QED BY <1>1, <1>2, <2>1, <2>3 DEF Go!Start
<1>4. CASE \E m \in Lists, k \in Kinds : \E i \in DOMAIN m :
             Statement(seen, m, k) /\ m[i].op = "send" /\ seen.cap[m[i].ch] = -1
  <2>1. PICK m \in Lists, k \in Kinds : \E i \in DOMAIN m :
             Statement(seen, m, k) /\ m[i].op = "send" /\ seen.cap[m[i].ch] = -1
    BY <1>4
  <2>2. PICK i \in DOMAIN m : Statement(seen, m, k) /\ m[i].op = "send" /\ seen.cap[m[i].ch] = -1
    BY <2>1
  <2>3. CASE m \in Menus
    <3>1. m \in Seq(Cases) BY <2>3, CasesAreSequences
    <3>2. m[i] \in Cases BY <3>1
    <3>3. \A j \in DOMAIN m : m[j] \in Cases BY <3>1
    <3>4. \A j \in DOMAIN m : m[j].ch \in Go!Made
      BY <2>2, <3>3 DEF Statement, Cases, Go!Made, Go!NotMade
    <3>5. Go!CanProceed(m[i]) BY <2>2 DEF Go!CanProceed, Go!Closed
    <3>6. Go!Proceed(p, i, m[i], FALSE) BY <2>2, <1>2 DEF Go!Proceed, Go!Closed
    <3> QED BY <1>3, <2>3, <3>4, <3>5, <3>6 DEF Go!Select, Go!Next
  <2>4. CASE \E x \in Cases : m = <<x>>
    <3>1. PICK x \in Cases : m = <<x>> BY <2>4
    <3>2. i = 1 /\ m[i] = x BY <2>2, <3>1
    <3>3. PICK c \in Chans : x = [op |-> "send", ch |-> c] BY <2>2, <3>2 DEF Cases
    <3>4. c \in Go!Made /\ seen.cap[c] = -1 BY <2>2, <3>2, <3>3 DEF Go!Made, Go!NotMade
    <3>5. Go!Proceed(p, 1, [op |-> "send", ch |-> c], FALSE) BY <1>2, <3>4 DEF Go!Proceed, Go!Closed
    <3>6. Go!Operation(p, "send", c, FALSE) BY <1>3, <3>5 DEF Go!Operation
    <3> QED BY <3>4, <3>6 DEF Go!Next
  <2> QED BY <2>3, <2>4 DEF Lists
<1>5. CASE \E c \in Chans : seen.cap[c] = -1 \/ (seen.cap[c] >= 0 /\ ~NoOffer(seen, "send", c))
  <2>1. PICK c \in Chans : seen.cap[c] = -1 \/ (seen.cap[c] >= 0 /\ ~NoOffer(seen, "send", c))
    BY <1>5
  <2>2. seen.cap[c] = -1 \/ Go!Offers("send", c) # {} BY <2>1, GoOffers
  <2>3. Go!Close(p, c) BY <1>2, <1>3, <2>2 DEF Go!Close, Go!Closed
  <2>4. c \in Go!Made BY <1>1, <2>1 DEF Go!Made, Go!NotMade
  <2> QED BY <2>3, <2>4 DEF Go!Next
<1> QED BY <1>4, <1>5 DEF Dies

LEMMA StaysFresh ==
  ASSUME NEW s \in Views, NEW t, Fresh(s), GoStep(s, t)
  PROVE  Fresh(t)
<1>1. s.cap \in [Chans -> Int] /\ s.len \in [Chans -> Int] /\ t.cap \in [Chans -> Int] /\ t.len \in [Chans -> Int]
  BY ViewTypes DEF GoStep
<1>2. ASSUME NEW c \in Chans, SameChans(s, t, {c}), t.cap[c] # -2 PROVE Fresh(t)
  BY <1>2 DEF SameChans, SameChan, Fresh
<1>3. ASSUME SameChans(s, t, {}) PROVE Fresh(t)
  BY <1>3 DEF SameChans, SameChan, Fresh
<1>4. ASSUME NEW c \in Chans, NEW n \in BufferSizes, MakeStep(s, t, c, n) PROVE Fresh(t)
  BY <1>2, <1>4, ConstantsAssumption DEF MakeStep
<1>5. ASSUME NEW p \in Procs, NEW c \in Chans, CloseStep(s, t, p, c) PROVE Fresh(t)
  BY <1>2, <1>5 DEF CloseStep
<1>6. ASSUME NEW p \in Procs, NEW i, NEW c \in Chans, SendStep(s, t, p, i, c) PROVE Fresh(t)
  BY <1>1, <1>2, <1>3, <1>6 DEF SendStep
<1>7. ASSUME NEW p \in Procs, NEW i, NEW c \in Chans, NEW r, ReceiveStep(s, t, p, i, c, r) PROVE Fresh(t)
  <2>1. CASE SameChans(s, t, {}) BY <1>3, <2>1
  <2>2. CASE s.len[c] > 0 /\ t.cap[c] = s.cap[c] /\ SameChans(s, t, {c})
    <3>1. s.cap[c] # -2 BY <2>2, <1>1 DEF Fresh
    <3> QED BY <3>1, <2>2, <1>2
  <2> QED BY <1>7, <2>1, <2>2 DEF ReceiveStep
<1>8. ASSUME NEW p \in Procs, NEW m \in Lists, NEW k \in Kinds, CaseStep(s, t, p, m, k)
      PROVE  Fresh(t)
  <2>1. m \in Seq(Cases) BY ListsAreSequences
  <2>2. \A i \in DOMAIN m : m[i] \in Cases BY <2>1
  <2>3. \A i \in DOMAIN m : m[i].ch \in Chans BY <2>2 DEF Cases
  <2> QED BY <1>3, <1>6, <1>7, <1>8, <2>3 DEF CaseStep, BlockStep, DefaultStep
<1> QED BY <1>4, <1>5, <1>8 DEF GoStep

LEMMA Keeps ==
  ASSUME Watched, ~Quiet'
  PROVE  /\ seen' = seen
         /\ Track' => Follows
<1>1. seen' = seen BY DEF Watched, Observe
<1> QED BY <1>1 DEF Follows, Go!vars, Watched, Seen, Fresh

LEMMA Lands ==
  ASSUME Watched, NoneCommitted', GoStep(seen, Now')
  PROVE  Follows
<1>1. Fresh(Now') BY StaysFresh DEF Watched, Seen
<1>2. CASE Quiet'
  <2>1. seen' = Observed' BY <1>2 DEF Watched, Observe
  <2>2. (TypeOK /\ Shape /\ Quiet /\ ~Panicked => Observed = Now)' BY ObservedIsNow, PTL
  <2>3. seen' = Now' BY <1>2, <2>1, <2>2 DEF Watched
  <2>4. (TypeOK /\ Shape => Now \in Views)' BY NowTyped, PTL
  <2>5. seen' \in Views BY <2>3, <2>4 DEF Watched, Views
  <2>6. Go!Next BY <2>3, GoStepIsNext DEF Watched, Seen
  <2>7. Unchanged' BY <1>2, <2>3 DEF Unchanged
  <2>8. Fresh(seen)' BY <1>1, <2>3 DEF Fresh
  <2> QED BY <2>5, <2>6, <2>7, <2>8 DEF Follows, Track
<1>3. CASE ~Quiet'
  <2>1. seen' = seen BY <1>3, Keeps
  <2>2. GoStep(seen, Now)' BY <2>1 DEF GoStep
  <2>3. Done' BY <1>3, <2>2 DEF Done
  <2> QED BY <1>3, <2>3, Keeps DEF Track
<1> QED BY <1>2, <1>3

LEMMA StartedOnce ==
  ASSUME seen \in Views, NEW p \in Procs, NEW q \in Procs, Started(p), Started(q)
  PROVE  p = q
<1>1. seen.stmts \in [Procs -> Nat] BY ViewTypes
<1>2. q # p => stmts[q] = seen.stmts[q] BY NowProc DEF Started, SameProcs, SameProc
<1>3. stmts[q] = seen.stmts[q] + 1 BY DEF Started, Begins
<1> QED BY <1>1, <1>2, <1>3

-----------------------------------------------------------------------------
\* What a step leaves as it is.

AllStay(ps) == \A q \in Procs : q \notin ps => Stays(q) /\ ok'[q] = ok[q]
ContentStays(cs) == /\ chanCount' = chanCount
                    /\ \A d \in Chans : d \notin cs => /\ Content(d)' = Content(d)
                                                       /\ buffer'[d] = buffer[d]

LEMMA Frame ==
  ASSUME NEW ps, AllStay(ps), NEW cs, ContentStays(cs)
  PROVE  /\ SameProcs(Now, Now', ps) /\ SameChans(Now, Now', cs)
         /\ SameProcs(seen, Now, ps) => SameProcs(seen, Now', ps)
         /\ SameChans(seen, Now, cs) => SameChans(seen, Now', cs)
<1>1. SameProcs(Now, Now', ps)
  BY StaysSame DEF AllStay, SameProcs
<1>2. Made' = Made BY DEF ContentStays, Made
<1>3. SameChans(Now, Now', cs)
  BY <1>2, NowChan DEF ContentStays, SameChans, SameChan
<1> QED BY <1>1, <1>3, SameTrans DEF SameProcs, SameChans

LEMMA Settles ==
  ASSUME TypeOK, ~Panicked, NEW c \in Chans, NEW ps, SettledAt(c, ps)
  PROVE  /\ buffer[c] >= -1
         /\ automaton[c] \in {"idle", "new_sender", "new_receiver", "confirming_a", "confirming_b"}
              <=> buffer[c] >= 0
<1>1. buffer[c] \in Int /\ automaton[c] \in AutomatonLocs /\ automaton[c] # "bad"
  BY DEF TypeOK, Panicked
<1> QED
  BY <1>1 DEF SettledAt, Settled, Open, Sent, Received, Closed, AutomatonLocs, CommittedChannel

LEMMA RangersStay ==
  ASSUME Rangers, NEW ps, AllStay(ps),
         \A q \in Procs : q \notin ps => (Started(q) /\ loc[q] = "waiting" => Started(q)' \/ ~ok[q]),
         \A q \in Procs : q \in ps => Ranger(q)'
  PROVE  Rangers'
<1>1. ASSUME NEW q \in Procs, q \notin ps
      PROVE  Ranger(q)'
  <2>1. Ranger(q) BY DEF Rangers
  <2>2. loc'[q] = loc[q] /\ cases'[q] = cases[q] /\ kind'[q] = kind[q] /\ ok'[q] = ok[q]
    BY <1>1 DEF AllStay, Stays
  <2> QED BY <1>1, <2>1, <2>2 DEF Ranger
<1> QED BY <1>1 DEF Rangers

\* Nobody has started when the network is quiet or somebody is being confirmed.
LEMMA QuietStart ==
  ASSUME Shape, Quiet
  PROVE  \A q \in Procs : ~Started(q)
BY ActingAlone DEF Started

-----------------------------------------------------------------------------
\* The steps of the processes.

LEMMA MakeFollows ==
  ASSUME Watched, NEW p \in Procs, NEW n \in BufferSizes, MakeChan(p, n)
  PROVE  Follows /\ Rangers'
<1>1. /\ Quiet /\ chanCount' = chanCount + 1 /\ chanCount \in Nat
      /\ UNCHANGED <<automaton, loc, kind, cases, armed, ok, outcome, stmts>>
  BY DEF MakeChan, procVars, Watched, TypeOK
<1>2. seen = Now /\ Fresh(seen) BY <1>1, QuietUnchanged DEF Watched, Seen
<1>3. Quiet' BY <1>1 DEF Quiet
<1>4. AllStay({}) BY <1>1 DEF AllStay, Stays, Quiet, CommittedProcess
<1>5. Rangers'
  <2>1. \A q \in Procs : ~Started(q) BY <1>1, QuietStart DEF Watched
  <2> QED BY <1>4, <2>1, RangersStay DEF Watched, Seen
<1>6. \A op, d : Offers(op, d)' = Offers(op, d) BY <1>1 DEF Offers, Offering
<1>7. CASE chanCount < ChanCount
  <2>1. chanCount \in Chans /\ chanCount \notin Made BY <1>1, <1>7, ConstantsAssumption DEF Chans, Made
  <2>2. counter' = [counter EXCEPT ![chanCount] = 0] /\ buffer' = [buffer EXCEPT ![chanCount] = n]
    BY <1>1, <1>7, ConstantsAssumption DEF MakeChan
  <2> DEFINE c == chanCount
  <2>3. PICK e \in Chans : e = chanCount BY <2>1
  <2>4. \A d \in Chans : d \in Made' <=> d \in Made \/ d = e BY <1>1, <2>3 DEF Made, Chans
  <2>5. \A d \in Chans : d # e => counter'[d] = counter[d] /\ buffer'[d] = buffer[d]
    BY <2>2, <2>3 DEF Watched, TypeOK
  <2>6. counter'[e] = 0 /\ buffer'[e] = n BY <2>2, <2>3 DEF Watched, TypeOK
  <2>7. \A d \in Chans : d # e => Content(d)' = Content(d) BY <1>6, <2>5 DEF Content
  <2>8. Content(e)' = 0
    <3>1. \A q \in Procs : \A op : ~HasCase(cases[q], op, e)
      BY <2>1, <2>3 DEF Watched, Shape, CasesOK, HasCase
    <3>2. \A op : Offers(op, e) = {} BY <3>1 DEF Offers
    <3>3. Content(e)' = counter'[e] - Cardinality({}) + Cardinality({})
      BY <1>6, <3>2 DEF Content
    <3>4. Cardinality({}) = 0 BY FS_EmptySet
    <3> QED BY <2>6, <3>3, <3>4
  <2>9. SameProcs(Now, Now', {}) BY <1>4, StaysSame DEF AllStay, SameProcs
  <2>10. SameChans(Now, Now', {e})
    BY <2>4, <2>5, <2>7, NowChan DEF SameChans, SameChan
  <2>11. MakeStep(seen, Now', e, n)
    <3>1. Now.cap[e] = -2 /\ Now'.cap[e] = n /\ Now'.len[e] = 0
      BY <2>1, <2>3, <2>4, <2>6, <2>8, NowChan
    <3>2. Now.len[e] = 0 BY <1>2, <3>1 DEF Fresh
    <3> QED BY <1>2, <2>9, <2>10, <3>1, <3>2 DEF MakeStep
  <2>12. (TypeOK /\ Shape => Now \in Views)' BY NowTyped, PTL
  <2>13. GoStep(seen, Now') BY <2>11, <2>12 DEF GoStep, Watched
  <2>14. NoneCommitted' BY <1>3 DEF NoneCommitted, Quiet, CommittedProcess
  <2> QED BY <1>5, <2>13, <2>14, Lands
<1>8. CASE chanCount >= ChanCount
  <2>1. UNCHANGED <<counter, buffer>> BY <1>8 DEF MakeChan
  <2>2. \A d \in Chans : d \in Made' <=> d \in Made
    BY <1>1, <1>8, ConstantsAssumption DEF Made, Chans
  <2>3. Now' = Now
    <3>1. \A d \in Chans : Content(d)' = Content(d) BY <1>6, <2>1 DEF Content
    <3>2. \A q \in Procs : Out(q)' = Out(q) BY <1>1, <2>1 DEF Out
    <3>3. \A q \in Procs : Waiting(q)' = Waiting(q) BY <1>1 DEF Waiting
    <3> QED BY <1>1, <2>1, <2>2, <3>1, <3>2, <3>3 DEF Now
  <2>4. seen' = Observed' BY <1>3 DEF Watched, Observe
  <2>5. (TypeOK /\ Shape /\ Quiet /\ ~Panicked => Observed = Now)' BY ObservedIsNow, PTL
  <2>6. seen' = Now' BY <1>3, <2>4, <2>5 DEF Watched
  <2>7. seen' = seen BY <1>2, <2>3, <2>6
  <2>8. Unchanged' BY <1>3, <2>6 DEF Unchanged
  <2> QED BY <1>5, <2>7, <2>8 DEF Follows, Go!vars, Watched, Seen, Fresh, Track
<1> QED BY <1>1, <1>7, <1>8, ConstantsAssumption

\* Process p starts statement k with case list m.
Opens(p, k, m) ==
    /\ Quiet /\ loc[p] = "running" /\ stmts[p] < MaxStmts
    /\ stmts'[p] = stmts[p] + 1 /\ kind'[p] = k /\ cases'[p] = m /\ outcome'[p] = NoOutcome
    /\ loc'[p] \in {"waiting", "select_pass_1"}
    /\ \A i \in DOMAIN m : m[i].ch \in Made
    /\ AllStay({p}) /\ ContentStays({})

LEMMA OpensFollows ==
  ASSUME Watched, NEW p \in Procs, NEW k \in Kinds, NEW m \in Lists, Opens(p, k, m), Acts(p)',
         \/ k \in {"op", "range"} /\ \E x \in Cases : m = <<x>> /\ (k = "range" => x.op = "receive")
         \/ k \in {"select", "select_default"} /\ m \in Menus,
         loc'[p] = "select_pass_1" => k \in {"select", "select_default"},
         \A c \in Chans : Answered(p, c)' /\ k = "range" => (ok'[p] <=> counter'[c] >= 0)
  PROVE  Follows /\ Rangers'
<1>1. ~Quiet'
  BY DEF Acts, Polls, Answered, Quiet, CommittedProcess, CommittedChannel, Answering
<1>2. seen' = seen BY <1>1, Keeps
<1>3. seen = Now BY QuietUnchanged DEF Watched, Opens
<1>4. SameProcs(seen, Now', {p}) /\ SameChans(seen, Now', {})
  BY <1>3, Frame DEF Opens
<1>5. Begins(seen, p, stmts'[p])
  BY <1>3, NowProc DEF Begins, Opens
<1>6. Statement(seen, m, k)
  <2>1. ASSUME NEW i \in DOMAIN m PROVE seen.cap[m[i].ch] # -2
    <3>1. PICK c \in Chans : c = m[i].ch /\ c \in Made BY DEF Opens, Made
    <3>2. SettledAt(c, {}) BY QuietRests DEF Opens, Watched, Rest, Around
    <3>3. buffer[c] >= -1 /\ buffer[c] \in Int BY <3>2, Settles DEF Watched, TypeOK
    <3> QED BY <1>3, <3>1, <3>3, NowChan
  <2> QED BY <2>1 DEF Statement
<1>7. Started(p)'
  <2>1. /\ outcome'[p] = NoOutcome /\ cases'[p] = m /\ kind'[p] = k BY DEF Opens
  <2> QED BY <1>2, <1>4, <1>5, <1>6, <2>1 DEF Started
<1>8. Ranger(p)'
  <2>1. k = "range" => \E x \in Cases : m = <<x>> OBVIOUS
  <2>2. k = "range" => DOMAIN m = {1} BY <2>1
  <2> QED BY <1>7, <2>2 DEF Ranger, Opens
<1>9. Rangers'
  BY <1>8, QuietStart, RangersStay DEF Opens, Watched, Seen
<1> QED BY <1>1, <1>7, <1>9, Keeps DEF Track

LEMMA OperationFollows ==
  ASSUME Watched, NEW p \in Procs, NEW c \in Made,
         \/ \E op \in {"send", "receive"} : SendOrReceive(p, op, c)
         \/ RangeReceive(p, c)
  PROVE  Follows /\ Rangers'
<1>1. c \in Chans BY DEF Made
<1>2. PICK op \in {"send", "receive"} : Issues(p, op, c) BY OperationIssues DEF Watched
<1>3. Acts(p)' /\ ContentStays({})
  BY <1>1, <1>2, IssuesShape DEF Watched, ContentStays, Issues
<1>4. PICK k \in {"op", "range"}, o \in {"send", "receive"} :
        /\ Start(p, k, <<[op |-> o, ch |-> c]>>) /\ (k = "range" => o = "receive")
        /\ \A q \in Procs : q # p => ok'[q] = ok[q]
        /\ k = "range" => ok'[p] = (counter'[c] >= 0)
  <2>1. ASSUME NEW o \in {"send", "receive"}, SendOrReceive(p, o, c)
        PROVE  Start(p, "op", <<[op |-> o, ch |-> c]>>) /\ ok' = ok
    BY <2>1 DEF SendOrReceive
  <2>2. ASSUME RangeReceive(p, c)
        PROVE  /\ Start(p, "range", <<[op |-> "receive", ch |-> c]>>)
               /\ ok'[p] = (counter'[c] >= 0) /\ \A q \in Procs : q # p => ok'[q] = ok[q]
    BY <2>2 DEF RangeReceive, Watched, TypeOK
  <2> QED BY <2>1, <2>2
<1> DEFINE x == [op |-> o, ch |-> c]
<1>5. x \in Cases /\ <<x>> \in Lists BY <1>1 DEF Cases, Lists
<1>6. Opens(p, k, <<x>>)
  <2>1. /\ Quiet /\ loc[p] = "running" /\ stmts[p] < MaxStmts
        /\ stmts' = [stmts EXCEPT ![p] = @ + 1] /\ kind' = [kind EXCEPT ![p] = k]
        /\ cases' = [cases EXCEPT ![p] = <<x>>] /\ outcome' = [outcome EXCEPT ![p] = NoOutcome]
    BY <1>4 DEF Start
  <2>2. AllStay({p})
    BY <1>2, <1>4, <2>1 DEF AllStay, Stays, Issues, Others, Quiet, CommittedProcess, Watched, TypeOK
  <2>3. \A i \in DOMAIN <<x>> : <<x>>[i].ch \in Made OBVIOUS
  <2>4. loc'[p] \in {"waiting", "select_pass_1"} BY <1>2 DEF Issues
  <2> QED BY <1>3, <2>1, <2>2, <2>3, <2>4 DEF Opens, Watched, TypeOK
<1>7. k \in Kinds BY DEF Kinds
<1>8. loc'[p] # "select_pass_1" BY <1>2 DEF Issues
<1>9. ASSUME NEW d \in Chans, Answered(p, d)', k = "range"
      PROVE  ok'[p] <=> counter'[d] >= 0
  <2>1. cases'[p] = <<[op |-> op, ch |-> c]>> BY <1>2 DEF Issues
  <2>2. d = c BY <1>9, <2>1 DEF Answered
  <2> QED BY <1>4, <1>9, <2>2
<1>10. k = "range" => x.op = "receive" BY <1>4
<1> HIDE DEF x
<1> QED BY <1>3, <1>5, <1>6, <1>7, <1>8, <1>9, <1>10, OpensFollows

LEMMA EnterSelectFollows ==
  ASSUME MenusDistinct, Watched, NEW p \in Procs, NEW menu \in Menus,
         NEW k \in {"select", "select_default"},
         \A i \in DOMAIN menu : menu[i].ch \in Made, EnterSelect(p, menu, k)
  PROVE  Follows /\ Rangers'
<1>1. Acts(p)' /\ \A d \in Chans : Content(d)' = Content(d)
  BY EnterSelectShape DEF Watched
<1>2. /\ Quiet /\ loc[p] = "running" /\ stmts[p] < MaxStmts
      /\ stmts' = [stmts EXCEPT ![p] = @ + 1] /\ kind' = [kind EXCEPT ![p] = k]
      /\ cases' = [cases EXCEPT ![p] = menu] /\ outcome' = [outcome EXCEPT ![p] = NoOutcome]
      /\ loc' = [loc EXCEPT ![p] = "select_pass_1"]
      /\ UNCHANGED <<chanCount, buffer, ok>>
  BY DEF EnterSelect, Start
<1>3. AllStay({p}) BY <1>2 DEF AllStay, Stays, Quiet, CommittedProcess, Watched, TypeOK
<1>4. Opens(p, k, menu)
  BY <1>1, <1>2, <1>3 DEF Opens, ContentStays, Watched, TypeOK
<1>5. k \in Kinds /\ menu \in Lists BY DEF Kinds, Lists
<1>6. k # "range" OBVIOUS
<1> QED BY <1>1, <1>4, <1>5, <1>6, OpensFollows

LEMMA SelectTriggerFollows ==
  ASSUME Watched, NEW p \in Procs, NEW i \in DOMAIN cases[p], SelectTrigger(p, i)
  PROVE  Follows /\ Rangers'
<1>1. Acts(p)' /\ \A d \in Chans : Content(d)' = Content(d)
  BY SelectTriggerShape DEF Watched
<1>2. /\ loc[p] = "select_pass_1" /\ loc' = [loc EXCEPT ![p] = "waiting"]
      /\ UNCHANGED <<chanCount, buffer, kind, cases, ok, outcome, stmts>>
  BY DEF SelectTrigger
<1>3. Started(p) BY <1>2, PollerStarted DEF Watched
<1>4. kind[p] \in {"select", "select_default"} BY <1>2, <1>3 DEF Started
<1>5. ~Quiet'
  BY <1>1 DEF Acts, Polls, Answered, Quiet, CommittedProcess, CommittedChannel, Answering
<1>6. seen' = seen BY <1>5, Keeps
<1>7. AllStay({p}) /\ ContentStays({})
  BY <1>1, <1>2 DEF AllStay, Stays, ContentStays, Watched, TypeOK
<1>8. SameProcs(seen, Now', {p}) /\ SameChans(seen, Now', {}) BY <1>3, <1>7, Frame DEF Started
<1>9. Started(p)'
  <2>1. loc'[p] = "waiting" BY <1>2 DEF Watched, TypeOK
  <2> QED BY <1>1, <1>2, <1>3, <1>4, <1>6, <1>8, <2>1 DEF Started
<1>10. Ranger(p)' BY <1>2, <1>4 DEF Ranger
<1>11. Rangers'
  <2>1. \A q \in Procs : Started(q) => q = p BY <1>3, StartedOnce DEF Watched, Seen
  <2> QED BY <1>7, <1>10, <2>1, RangersStay DEF Watched, Seen
<1> QED BY <1>5, <1>9, <1>11, Keeps DEF Track

\* A sender or receiver that cannot go on has nobody to go on with.
LEMMA SenderStuck ==
  ASSUME NEW k, NEW cap \in Int, NEW S, NEW R, NEW n, Counted(k, S, R, n),
         NEW t \in S, t \notin R, Open(cap, S \ {t}, R \ {t}, n), k > cap
  PROVE  R \ {t} = {} /\ n >= cap
<1>1. PICK s, r \in Nat : /\ k = n + s + 1 - r
                          /\ s = 0 <=> S \ {t} = {}
                          /\ r = 0 <=> R = {}
  BY CountedSender
<1>2. R \ {t} = R OBVIOUS
<1>3. n \in Int BY DEF Open
<1> QED BY <1>1, <1>2, <1>3 DEF Open

LEMMA ReceiverStuck ==
  ASSUME NEW k, NEW cap \in Int, NEW S, NEW R, NEW n, Counted(k, S, R, n),
         NEW t \in R, t \notin S, Open(cap, S \ {t}, R \ {t}, n), k < 0
  PROVE  S \ {t} = {} /\ n <= 0
<1>1. PICK s, r \in Nat : /\ k = n + s - r - 1
                          /\ s = 0 <=> S = {}
                          /\ r = 0 <=> R \ {t} = {}
  BY CountedReceiver
<1>2. S \ {t} = S OBVIOUS
<1>3. n \in Int BY DEF Open
<1> QED BY <1>1, <1>2, <1>3 DEF Open

\* What the started process p knows of a channel.
LEMMA StartedSees ==
  ASSUME Watched, NEW p \in Procs, Started(p), NEW c \in Chans, c \in Made
  PROVE  /\ seen.cap[c] = buffer[c] /\ seen.len[c] = Content(c)
         /\ \A op : NoOffer(seen, op, c) <=> Offers(op, c) \ {p} = {}
<1>1. SameChans(seen, Now, {}) /\ SameProcs(seen, Now, {p}) /\ seen.blocked[p] = <<>>
  BY DEF Started, Begins
<1>2. \A q \in Procs : q # p => loc[q] # "select_pass_1"
  BY ActingAlone DEF Started, Watched
<1> QED BY <1>1, <1>2, SeenOffers, NowChan DEF SameChans, SameChan

LEMMA StartedCannot ==
  ASSUME Watched, NEW p \in Procs, Started(p), Offering(p), NEW i \in DOMAIN cases[p],
         automaton[cases[p][i].ch] \in {"idle", "new_sender", "new_receiver"},
         cases[p][i].op = "send" => counter[cases[p][i].ch] > buffer[cases[p][i].ch],
         cases[p][i].op = "receive" => counter[cases[p][i].ch] < 0
  PROVE  Cannot(seen, cases[p][i])
<1>1. CasesOK(p) /\ cases[p] \in Seq(Cases) BY DEF Watched, Shape, TypeOK
<1>2. cases[p][i] \in Cases BY <1>1
<1>3. PICK c \in Chans, op \in {"send", "receive"} : cases[p][i] = [op |-> op, ch |-> c]
  BY <1>2 DEF Cases
<1>4. c \in Made BY <1>1, <1>3 DEF CasesOK
<1>5. p \in Offers(op, c) BY <1>3 DEF Offers, HasCase
<1>6. SettledAt(c, {p}) BY DEF Started, Acts, Around
<1>7. Open(buffer[c], Offers("send", c) \ {p}, Offers("receive", c) \ {p}, Content(c))
  BY <1>3, <1>6 DEF SettledAt, Settled
<1>8. /\ Counted(counter[c], Offers("send", c), Offers("receive", c), Content(c))
      /\ buffer[c] \in Int
  BY ContentCounted DEF Watched, TypeOK
<1>9. seen.cap[c] = buffer[c] /\ seen.len[c] = Content(c) BY <1>4, StartedSees
<1>10. seen.cap[c] # -1 BY <1>7, <1>8, <1>9 DEF Open
<1>11. CASE op = "send"
  <2>1. p \notin Offers("receive", c) BY <1>1, <1>5, <1>11, OneSide
  <2>2. Offers("receive", c) \ {p} = {} /\ Content(c) >= buffer[c]
    BY <1>3, <1>5, <1>7, <1>8, <1>11, <2>1, SenderStuck
  <2>3. NoOffer(seen, "receive", c) BY <1>4, <2>2, StartedSees
  <2> QED BY <1>3, <1>9, <1>10, <1>11, <2>2, <2>3 DEF Cannot
<1>12. CASE op = "receive"
  <2>1. p \notin Offers("send", c) BY <1>1, <1>5, <1>12, OneSide
  <2>2. Offers("send", c) \ {p} = {} /\ Content(c) <= 0
    BY <1>3, <1>5, <1>7, <1>8, <1>12, <2>1, ReceiverStuck
  <2>3. NoOffer(seen, "send", c) BY <1>4, <2>2, StartedSees
  <2> QED BY <1>3, <1>9, <1>10, <1>12, <2>2, <2>3 DEF Cannot
<1> QED BY <1>11, <1>12

\* A started process that lands.
LEMMA StartedLands ==
  ASSUME Watched, NEW p \in Procs, NEW m \in Lists, NEW k \in Kinds, Statement(seen, m, k),
         CaseStep(seen, Now', p, m, k), NoneCommitted'
  PROVE  Follows
<1>1. (TypeOK /\ Shape => Now \in Views)' BY NowTyped, PTL
<1>2. GoStep(seen, Now') BY <1>1 DEF GoStep, Watched
<1> QED BY <1>2, Lands

LEMMA StartedStatement ==
  ASSUME TypeOK, NEW p \in Procs, Started(p)
  PROVE  cases[p] \in Lists /\ kind[p] \in Kinds /\ Statement(seen, cases[p], kind[p])
BY DEF Started, Statement, Lists, TypeOK

LEMMA NonePossibleCannot ==
  ASSUME Watched, NEW p \in Procs, loc[p] = "select_pass_1", NonePossible(p)
  PROVE  \A i \in DOMAIN cases[p] : Cannot(seen, cases[p][i])
<1> TAKE i \in DOMAIN cases[p]
<1>1. Started(p) BY PollerStarted DEF Watched
<1>2. Offering(p) BY DEF Offering
<1>3. cases[p] \in Seq(Cases) BY DEF Watched, TypeOK
<1>4. cases[p][i] \in Cases BY <1>3
<1>5. PICK c \in Chans : c = cases[p][i].ch BY <1>4 DEF Cases
<1>6. /\ buffer[c] >= 0
      /\ cases[p][i].op = "send" => counter[c] > buffer[c]
      /\ cases[p][i].op = "receive" => counter[c] < 0
  BY <1>5 DEF NonePossible, Possible, Watched, TypeOK
<1>7. SettledAt(c, {p}) /\ automaton[c] \notin CommittedChannel
  BY <1>5, PollerFrame DEF Watched
<1>8. automaton[c] = "idle" BY <1>6, <1>7, Settles DEF Watched, CommittedChannel
<1> QED BY <1>1, <1>2, <1>5, <1>6, <1>8, StartedCannot

LEMMA SelectDefaultFollows ==
  ASSUME Watched, NEW p \in Procs, SelectDefault(p)
  PROVE  Follows /\ Rangers'
<1>1. /\ loc[p] = "select_pass_1" /\ loc' = [loc EXCEPT ![p] = "running"]
      /\ outcome' = [outcome EXCEPT ![p] = DefaultEnter]
      /\ cases' = [cases EXCEPT ![p] = <<>>] /\ NonePossible(p) /\ kind[p] = "select_default"
      /\ UNCHANGED <<chanCount, buffer, automaton, kind, ok, stmts>>
  BY DEF SelectDefault
<1>2. \A d \in Chans : Content(d)' = Content(d) BY SelectDefaultShape DEF Watched
<1>3. AllStay({p}) /\ ContentStays({})
  BY <1>1, <1>2 DEF AllStay, Stays, ContentStays, Watched, TypeOK
<1>4. Started(p) BY <1>1, PollerStarted DEF Watched
<1>5. SameProcs(seen, Now', {p}) /\ SameChans(seen, Now', {}) BY <1>3, <1>4, Frame DEF Started
<1>6. loc'[p] = "running" /\ outcome'[p] = DefaultEnter /\ stmts'[p] = stmts[p]
  BY <1>1 DEF Watched, TypeOK
<1>7. Ends(seen, Now', p, DefaultEnter)
  BY <1>4, <1>6, NextProc DEF Started, Begins, Ends
<1>8. DefaultStep(seen, Now', p, cases[p])
  BY <1>1, <1>5, <1>7, NonePossibleCannot DEF DefaultStep
<1>9. NoneCommitted'
  <2>1. /\ \A d \in Chans : automaton[d] \notin CommittedChannel
        /\ \A q \in Procs : q # p => loc[q] # "select_pass_1"
    BY <1>1, <1>4, PollerFrame, ActingAlone DEF Watched, Started
  <2> QED BY <1>1, <1>6, <2>1 DEF NoneCommitted, Watched, TypeOK
<1>10. Follows
  BY <1>1, <1>4, <1>8, <1>9, StartedStatement, StartedLands DEF CaseStep, Watched
<1>11. Ranger(p)' BY <1>6 DEF Ranger
<1>12. \A q \in Procs : Started(q) => q = p BY <1>4, StartedOnce DEF Watched, Seen
<1> QED BY <1>3, <1>10, <1>11, <1>12, RangersStay DEF Watched, Seen

LEMMA SelectBlockFollows ==
  ASSUME Watched, NEW p \in Procs, SelectBlock(p)
  PROVE  Follows /\ Rangers'
<1>1. /\ loc[p] = "select_pass_1" /\ loc' = [loc EXCEPT ![p] = "waiting"]
      /\ NonePossible(p) /\ kind[p] = "select"
      /\ UNCHANGED <<chanCount, buffer, automaton, kind, cases, ok, outcome, stmts>>
  BY DEF SelectBlock, chanVars
<1>2. \A d \in Chans : Content(d)' = Content(d) BY SelectBlockShape DEF Watched
<1>3. AllStay({p}) /\ ContentStays({})
  BY <1>1, <1>2 DEF AllStay, Stays, ContentStays, Watched, TypeOK
<1>4. Started(p) BY <1>1, PollerStarted DEF Watched
<1>5. SameProcs(seen, Now', {p}) /\ SameChans(seen, Now', {}) BY <1>3, <1>4, Frame DEF Started
<1>6. loc'[p] = "waiting" /\ outcome'[p] = NoOutcome /\ stmts'[p] = stmts[p]
      /\ cases'[p] = cases[p] /\ kind'[p] = "select"
  BY <1>1, <1>4 DEF Watched, TypeOK, Started
<1>7. BlockStep(seen, Now', p, cases[p], kind[p])
  BY <1>1, <1>4, <1>5, <1>6, NextProc, NonePossibleCannot DEF BlockStep, Started
<1>8. NoneCommitted'
  <2>1. /\ \A d \in Chans : automaton[d] \notin CommittedChannel
        /\ \A q \in Procs : q # p => loc[q] # "select_pass_1"
    BY <1>1, <1>4, PollerFrame, ActingAlone DEF Watched, Started
  <2> QED BY <1>1, <1>6, <2>1 DEF NoneCommitted, Watched, TypeOK
<1>9. Follows
  BY <1>4, <1>7, <1>8, StartedStatement, StartedLands DEF CaseStep, Watched
<1>10. Ranger(p)' BY <1>6 DEF Ranger
<1>11. \A q \in Procs : Started(q) => q = p BY <1>4, StartedOnce DEF Watched, Seen
<1> QED BY <1>3, <1>9, <1>10, <1>11, RangersStay DEF Watched, Seen

-----------------------------------------------------------------------------
\* The steps of a channel that answers.

LEMMA NobodyPolls ==
  ASSUME Shape, NEW c \in Chans, automaton[c] \in CommittedChannel
  PROVE  \A q \in Procs : loc[q] # "select_pass_1"
BY DEF Shape, Rest, Around, Ready, Acts, Polls, Answered

LEMMA AfterAnswer ==
  ASSUME Watched, NEW c \in Chans, NEW from \in CommittedChannel,
         NEW to, to \notin CommittedChannel,
         Goto(c, from, to), \A q \in Procs : loc'[q] = loc[q] \/ loc'[q] # "select_pass_1"
  PROVE  NoneCommitted'
<1>1. automaton[c] = from /\ automaton' = [automaton EXCEPT ![c] = to] BY DEF Goto
<1>2. \A q \in Procs : loc[q] # "select_pass_1" BY <1>1, NobodyPolls DEF Watched
<1>3. \A d \in Chans : d # c => automaton[d] \notin CommittedChannel
  BY <1>1 DEF Watched, Shape, OneCommitted
<1> QED BY <1>1, <1>2, <1>3 DEF NoneCommitted, Watched, TypeOK

\* The newcomer cannot go on: it stays blocked.
LEMMA NewcomerBlocks ==
  ASSUME Watched, NEW c \in Chans, NewSenderBlocks(c) \/ NewReceiverBlocks(c)
  PROVE  Follows /\ Rangers'
<1>1. PICK from \in {"new_sender", "new_receiver"} :
        /\ Goto(c, from, "idle") /\ (from = "new_sender" => counter[c] > buffer[c])
        /\ from = "new_receiver" => counter[c] < 0
  BY DEF NewSenderBlocks, NewReceiverBlocks
<1>2. UNCHANGED <<chanCount, counter, buffer, loc, kind, cases, armed, ok, outcome, stmts>>
  BY DEF NewSenderBlocks, NewReceiverBlocks, procVars
<1>3. automaton[c] = from /\ automaton[c] \in Answering /\ from \in CommittedChannel
  BY <1>1 DEF Goto, Answering, CommittedChannel
<1>4. PICK t \in Procs : Started(t) /\ Answered(t, c) BY <1>3, AnswerStarted DEF Watched
<1>5. PICK i \in DOMAIN cases[t] : /\ armed[t] = {i}
                                   /\ cases[t][i] = [op |-> TriggerOf(automaton[c]), ch |-> c]
  BY <1>4 DEF Answered
<1>6. counter[c] \in Int /\ buffer[c] \in Int BY DEF Watched, TypeOK
<1>7. DOMAIN cases[t] = {i}
  BY <1>1, <1>3, <1>4, <1>5, <1>6 DEF Answered
<1>8. loc[t] = "waiting" /\ Offering(t) BY <1>4 DEF Answered, Offering
<1>9. \A j \in DOMAIN cases[t] : Cannot(seen, cases[t][j])
  <2>1. cases[t][i].ch = c /\ cases[t][i].op = TriggerOf(from) BY <1>3, <1>5
  <2>2. (cases[t][i].op = "send" => from = "new_sender")
        /\ (cases[t][i].op = "receive" => from = "new_receiver")
    BY <1>1, <2>1 DEF TriggerOf
  <2>3. Cannot(seen, cases[t][i])
    BY <1>1, <1>3, <1>4, <1>8, <2>1, <2>2, StartedCannot
  <2> QED BY <1>7, <2>3
<1>10. AllStay({}) BY <1>2 DEF AllStay, Stays
<1>11. \A d \in Chans : Content(d)' = Content(d)
  <2>1. \A o, d : Offers(o, d)' = Offers(o, d) BY <1>2 DEF Offers, Offering
  <2> QED BY <1>2, <2>1 DEF Content
<1>12. AllStay({t}) /\ ContentStays({}) BY <1>2, <1>10, <1>11 DEF AllStay, ContentStays
<1>13. SameProcs(seen, Now', {t}) /\ SameChans(seen, Now', {})
  BY <1>4, <1>12, Frame DEF Started
<1>14. BlockStep(seen, Now', t, cases[t], kind[t])
  BY <1>2, <1>4, <1>8, <1>9, <1>13, NextProc DEF BlockStep, Started
<1>15. NoneCommitted'
  <2>1. "idle" \notin CommittedChannel BY DEF CommittedChannel
  <2> QED BY <1>1, <1>2, <1>3, <2>1, AfterAnswer
<1>16. Follows
  BY <1>4, <1>14, <1>15, StartedStatement, StartedLands DEF CaseStep, Watched
<1>17. kind[t] = "range" => ~ok[t]
  <2> SUFFICES ASSUME kind[t] = "range" PROVE ~ok[t] OBVIOUS
  <2>1. ok[t] <=> counter[c] >= 0 BY <1>4 DEF Started
  <2>2. cases[t][i].op = "receive"
    BY <1>4, <1>5, StartedStatement DEF Watched, Statement
  <2>3. from = "new_receiver" BY <1>1, <1>3, <1>5, <2>2 DEF TriggerOf
  <2> QED BY <1>1, <1>6, <2>1, <2>3
<1>18. Ranger(t)'
  <2>1. Ranger(t) BY DEF Watched, Seen, Rangers
  <2> QED BY <1>2, <1>8, <1>17, <2>1 DEF Ranger
<1>19. \A q \in Procs : Started(q) => q = t BY <1>4, StartedOnce DEF Watched, Seen
<1> QED BY <1>12, <1>16, <1>18, <1>19, RangersStay DEF Watched, Seen

-----------------------------------------------------------------------------
\* The steps of a channel that confirm a case.

\* Case i of process p, operation op on c, is confirmed.
Through(p, i, op, c) ==
    /\ loc[p] = "waiting" /\ i \in DOMAIN cases[p] /\ i \in armed[p]
    /\ cases[p][i] = [op |-> op, ch |-> c] /\ p \in Offers(op, c) /\ p \notin Offers(
         IF op = "send" THEN "receive" ELSE "send", c)
    /\ stmts'[p] = stmts[p] /\ kind'[p] = kind[p] /\ ok'[p] = ok[p]
    /\ \/ /\ kind[p] = "range" /\ loc'[p] = "range_received"
          /\ cases'[p] = cases[p] /\ outcome'[p] = outcome[p]
       \/ kind[p] # "range" /\ loc'[p] = "running" /\ cases'[p] = <<>> /\ outcome'[p] = i
    /\ AllStay({p}) /\ ContentStays({c}) /\ buffer' = buffer
    /\ Content(c)' = Content(c) + counter'[c] - counter[c] + Delta(op)

LEMMA ConfirmThrough ==
  ASSUME Watched, NEW op \in {"send", "receive"}, NEW c \in Chans, NEW x \in [Chans -> Int],
         \A d \in Chans : d # c => x[d] = counter[d], Confirm(op, c, x), UNCHANGED buffer
  PROVE  \E p \in Procs, i \in Nat : Through(p, i, op, c) /\ counter'[c] = x[c]
<1>1. PICK p \in Procs : \E i \in armed[p] : ConfirmedBy(p, i, op, c, x)
  BY DEF Confirm, ConfirmedBy
<1>2. PICK i \in armed[p] : ConfirmedBy(p, i, op, c, x) BY <1>1
<1>3. \A q \in Procs : CasesOK(q) BY DEF Watched, Shape
<1>4. Releases(p, op, c) /\ counter'[c] = x[c]
  BY <1>2, <1>3, ConfirmedReleases DEF Watched
<1>5. /\ \A d \in Chans : d # c => Content(d)' = Content(d)
      /\ Content(c)' = Content(c) + counter'[c] - counter[c] + Delta(op)
  BY <1>3, <1>4, AfterRelease DEF Watched
<1>6. /\ loc[p] = "waiting" /\ cases[p][i] = [op |-> op, ch |-> c]
      /\ \/ /\ kind[p] = "range" /\ loc' = [loc EXCEPT ![p] = "range_received"]
            /\ UNCHANGED <<cases, outcome>>
         \/ /\ kind[p] # "range" /\ loc' = [loc EXCEPT ![p] = "running"]
            /\ cases' = [cases EXCEPT ![p] = <<>>] /\ outcome' = [outcome EXCEPT ![p] = i]
      /\ UNCHANGED <<chanCount, kind, ok, stmts>>
  BY <1>2 DEF ConfirmedBy, Awaits
<1>7. i \in DOMAIN cases[p] /\ i \in Nat
  BY <1>3, <1>6 DEF CasesOK, Watched, TypeOK
<1>8. AllStay({p})
  <2>1. \A q \in Procs : q # p => /\ loc'[q] = loc[q] /\ cases'[q] = cases[q]
                                  /\ outcome'[q] = outcome[q]
    BY <1>6 DEF Watched, TypeOK
  <2> QED BY <1>6, <2>1 DEF AllStay, Stays
<1>9. ContentStays({c}) BY <1>5, <1>6 DEF ContentStays
<1>10. p \in Offers(op, c) BY <1>4 DEF Releases
<1>11. p \notin Offers(IF op = "send" THEN "receive" ELSE "send", c)
  BY <1>3, <1>10, OneSide
<1>12. \/ /\ kind[p] = "range" /\ loc'[p] = "range_received"
          /\ cases'[p] = cases[p] /\ outcome'[p] = outcome[p]
       \/ kind[p] # "range" /\ loc'[p] = "running" /\ cases'[p] = <<>> /\ outcome'[p] = i
  BY <1>6 DEF Watched, TypeOK
<1>13. Through(p, i, op, c)
  BY <1>5, <1>6, <1>7, <1>8, <1>9, <1>10, <1>11, <1>12 DEF Through
<1> QED BY <1>4, <1>7, <1>13

\* How it looks afterwards: a receiver of a range loop gets a message or not.
LEMMA ThroughLooks ==
  ASSUME Watched, NEW p \in Procs, NEW i \in Nat, NEW op, NEW c \in Chans, Through(p, i, op, c)
  PROVE  /\ Now'.blocked[p] = <<>> /\ p \notin Now'.ranging /\ Now'.stmts[p] = stmts[p]
         /\ Now.blocked[p] = cases[p] /\ (p \in Now.ranging <=> kind[p] = "range")
         /\ \A got \in BOOLEAN :
              (kind[p] = "range" => (got <=> buffer[c] >= 0 \/ ok[p]))
                => Now'.outcome[p] = EndOf(kind[p] = "range", i, got)
         /\ kind[p] = "range" => i = 1
         /\ loc'[p] # "select_pass_1" /\ Ranger(p)'
<1>1. /\ loc[p] = "waiting" /\ i \in DOMAIN cases[p] /\ cases[p][i] = [op |-> op, ch |-> c]
      /\ stmts'[p] = stmts[p] /\ kind'[p] = kind[p] /\ ok'[p] = ok[p] /\ buffer' = buffer
      /\ \/ /\ kind[p] = "range" /\ loc'[p] = "range_received"
            /\ cases'[p] = cases[p] /\ outcome'[p] = outcome[p]
         \/ kind[p] # "range" /\ loc'[p] = "running" /\ cases'[p] = <<>> /\ outcome'[p] = i
  BY DEF Through
<1>2. Ranger(p) BY DEF Watched, Seen, Rangers
<1>3. kind[p] = "range" => i = 1 /\ DOMAIN cases[p] = {1} BY <1>1, <1>2 DEF Ranger
<1>4. ASSUME NEW got \in BOOLEAN, kind[p] = "range" => (got <=> buffer[c] >= 0 \/ ok[p])
      PROVE  Now'.outcome[p] = EndOf(kind[p] = "range", i, got)
  <2>1. CASE kind[p] = "range"
    <3>1. cases'[p][1].ch = c BY <1>1, <1>3, <2>1
    <3>2. Out(p)' = IF got THEN RangeBody ELSE RangeExit BY <1>1, <1>4, <2>1, <3>1 DEF Out
    <3>3. EndOf(TRUE, i, got) = IF got THEN RangeBody ELSE RangeExit BY DEF EndOf
    <3>4. Now'.outcome[p] = Out(p)' BY NextProc
    <3>5. EndOf(kind[p] = "range", i, got) = EndOf(TRUE, i, got) BY <2>1 DEF EndOf
    <3> QED BY <3>2, <3>3, <3>4, <3>5
  <2>2. CASE kind[p] # "range"
    <3>1. EndOf(kind[p] = "range", i, got) = i BY <2>2 DEF EndOf
    <3>2. Now'.outcome[p] = i BY <1>1, <2>2, NextProc
    <3> QED BY <3>1, <3>2
  <2> QED BY <2>1, <2>2
<1>5. Ranger(p)' BY <1>1, <1>3 DEF Ranger
<1>6. /\ Now'.blocked[p] = <<>> /\ p \notin Now'.ranging /\ Now'.stmts[p] = stmts[p]
      /\ Now.blocked[p] = cases[p] /\ (p \in Now.ranging <=> kind[p] = "range")
  BY <1>1, NextProc, NowProc
<1> QED BY <1>1, <1>3, <1>4, <1>5, <1>6

\* The process whose trigger is answered is the one that gets the confirmation.
LEMMA NewcomerThrough ==
  ASSUME Watched, NEW c \in Chans, NEW t \in Procs, Started(t), Answered(t, c),
         NEW p \in Procs, NEW i \in Nat, Through(p, i, TriggerOf(automaton[c]), c),
         automaton[c] = "new_sender" => counter[c] <= buffer[c],
         automaton[c] = "new_receiver" => counter[c] >= 0
  PROVE  p = t
<1> DEFINE S == Offers("send", c)
           R == Offers("receive", c)
<1>1. CasesOK(t) /\ Around({t}) BY DEF Watched, Shape, Started, Acts
<1>2. /\ t \in Offers(TriggerOf(automaton[c]), c)
      /\ t \notin Offers(IF TriggerOf(automaton[c]) = "send" THEN "receive" ELSE "send", c)
      /\ SettledAt(c, {t})
  BY <1>1, TriggerIsOffer
<1>3. Counted(counter[c], S, R, Content(c)) /\ buffer[c] \in Int
  BY ContentCounted DEF Watched, TypeOK
<1>4. p \in Offers(TriggerOf(automaton[c]), c) BY DEF Through
<1>5. automaton[c] \in Answering BY DEF Answered
<1>6. CASE automaton[c] = "new_sender"
  <2>1. t \in S /\ t \notin R /\ p \in S BY <1>2, <1>4, <1>6 DEF TriggerOf
  <2>2. Open(buffer[c], S \ {t}, R \ {t}, Content(c)) BY <1>2, <1>6 DEF SettledAt, Settled
  <2>3. S = {t} BY <1>3, <1>6, <2>1, <2>2, SenderPasses
  <2> QED BY <2>1, <2>3
<1>7. CASE automaton[c] = "new_receiver"
  <2>1. t \in R /\ t \notin S /\ p \in R BY <1>2, <1>4, <1>7 DEF TriggerOf
  <2>2. Open(buffer[c], S \ {t}, R \ {t}, Content(c)) BY <1>2, <1>7 DEF SettledAt, Settled
  <2>3. R = {t} BY <1>3, <1>7, <2>1, <2>2, ReceiverPasses
  <2> QED BY <2>1, <2>3
<1>8. CASE automaton[c] = "confirming_closed"
  <2>1. p \in R BY <1>4, <1>8 DEF TriggerOf
  <2>2. R \ {t} = {} BY <1>2, <1>8 DEF SettledAt, Settled
  <2> QED BY <2>1, <2>2
<1> QED BY <1>5, <1>6, <1>7, <1>8 DEF Answering

\* What the observer sees of the confirmed newcomer t.
LEMMA NewcomerSeen ==
  ASSUME Watched, NEW c \in Chans, NEW t \in Procs, Started(t), NEW i \in Nat, NEW op,
         Through(t, i, op, c)
  PROVE  /\ SameProcs(seen, Now', {t}) /\ SameChans(seen, Now', {c})
         /\ Now'.cap[c] = seen.cap[c] /\ seen.cap[c] = buffer[c] /\ seen.len[c] = Content(c)
         /\ Now'.len[c] = Content(c)'
         /\ \A got \in BOOLEAN : (kind[t] = "range" => (got <=> buffer[c] >= 0 \/ ok[t]))
              => Ends(seen, Now', t, EndOf(kind[t] = "range", i, got))
         /\ Rangers'
         /\ \A q \in Procs : loc'[q] = loc[q] \/ loc'[q] # "select_pass_1"
<1>1. SameProcs(seen, Now, {t}) /\ SameChans(seen, Now, {}) /\ Begins(seen, t, stmts[t])
  BY DEF Started
<1>2. SameChans(seen, Now, {c}) BY <1>1 DEF SameChans
<1>3. AllStay({t}) /\ ContentStays({c}) /\ buffer' = buffer /\ i \in DOMAIN cases[t]
      /\ cases[t][i] = [op |-> op, ch |-> c] BY DEF Through
<1>4. c \in Made BY <1>3 DEF Watched, Shape, CasesOK
<1>5. c \in Made' BY <1>3, <1>4 DEF ContentStays, Made
<1>6. SameProcs(seen, Now', {t}) /\ SameChans(seen, Now', {c}) BY <1>1, <1>2, <1>3, Frame
<1>7. /\ Now'.cap[c] = seen.cap[c] /\ seen.cap[c] = buffer[c] /\ seen.len[c] = Content(c)
      /\ Now'.len[c] = Content(c)'
  BY <1>3, <1>4, <1>5, StartedSees, NowChan
<1>8. \A got \in BOOLEAN : (kind[t] = "range" => (got <=> buffer[c] >= 0 \/ ok[t]))
              => Ends(seen, Now', t, EndOf(kind[t] = "range", i, got))
  BY <1>1, ThroughLooks DEF Ends
<1>9. \A q \in Procs : Started(q) => q = t BY StartedOnce DEF Watched, Seen
<1>10. Ranger(t)' /\ loc'[t] # "select_pass_1" BY ThroughLooks
<1>11. Rangers' BY <1>3, <1>9, <1>10, RangersStay DEF Watched, Seen
<1>12. \A q \in Procs : loc'[q] = loc[q] \/ loc'[q] # "select_pass_1"
  BY <1>3, <1>10 DEF AllStay, Stays
<1> QED BY <1>6, <1>7, <1>8, <1>11, <1>12

LEMMA ConfirmedFollows ==
  ASSUME Watched, NEW c \in Chans, NewSenderConfirmed(c) \/ NewReceiverConfirmed(c)
  PROVE  Follows /\ Rangers'
<1>1. PICK op \in {"send", "receive"} :
        /\ Confirm(op, c, counter) /\ buffer' = buffer
        /\ op = "send" => Goto(c, "new_sender", "confirming_a") /\ counter[c] <= buffer[c]
        /\ op = "receive" => Goto(c, "new_receiver", "confirming_b") /\ counter[c] >= 0
  BY DEF NewSenderConfirmed, NewReceiverConfirmed
<1>2. /\ op = "send" => automaton[c] = "new_sender" /\ automaton'[c] = "confirming_a"
      /\ op = "receive" => automaton[c] = "new_receiver" /\ automaton'[c] = "confirming_b"
  BY <1>1 DEF Goto, Watched, TypeOK
<1>3. automaton[c] \in Answering /\ op = TriggerOf(automaton[c]) /\ automaton'[c] \in CommittedChannel
  BY <1>2 DEF Answering, TriggerOf, CommittedChannel
<1>4. counter \in [Chans -> Int] BY DEF Watched, TypeOK
<1>5. PICK p \in Procs, i \in Nat : Through(p, i, op, c) /\ counter'[c] = counter[c]
  BY <1>1, <1>4, ConfirmThrough
<1>6. PICK t \in Procs : Started(t) /\ Answered(t, c) BY <1>3, AnswerStarted DEF Watched
<1>7. p = t BY <1>1, <1>2, <1>3, <1>5, <1>6, NewcomerThrough
<1>8. /\ SameProcs(seen, Now', {t}) /\ SameChans(seen, Now', {c})
      /\ Now'.cap[c] = seen.cap[c] /\ seen.len[c] = Content(c) /\ Now'.len[c] = Content(c)'
      /\ Rangers'
  BY <1>5, <1>6, <1>7, NewcomerSeen
<1>9. /\ Content(c)' = Content(c) + counter'[c] - counter[c] + Delta(op) /\ Content(c) \in Int
      /\ i \in DOMAIN cases[t] /\ cases[t][i] = [op |-> op, ch |-> c]
  BY <1>5, <1>7, ContentCounted DEF Through, Watched, Counted
<1>10. Now'.len[c] = seen.len[c] + Delta(op)
  BY <1>4, <1>5, <1>8, <1>9 DEF Delta
<1>11. cases[t] \in Lists /\ kind[t] \in Kinds /\ Statement(seen, cases[t], kind[t])
  BY <1>6, StartedStatement DEF Watched
<1>12. buffer[c] >= 0
  <2>1. SettledAt(c, {t}) BY <1>6 DEF Started, Acts, Around
  <2> QED BY <1>2, <2>1, Settles DEF Watched
<1>13. Ends(seen, Now', t, EndOf(kind[t] = "range", i, TRUE))
  BY <1>5, <1>6, <1>7, <1>12, NewcomerSeen
<1>14. ~Quiet' BY <1>3 DEF Quiet
<1>15. seen' = seen BY <1>14, Keeps
<1>16. CASE op = "send"
  <2>1. kind[t] # "range"
    <3>1. ASSUME kind[t] = "range" PROVE FALSE
      <4>1. \E x \in Cases : cases[t] = <<x>> /\ x.op = "receive"
        BY <1>11, <3>1 DEF Statement
      <4> QED BY <1>9, <1>16, <4>1
    <3> QED BY <3>1
  <2>2. Ends(seen, Now', t, i) BY <1>13, <2>1 DEF EndOf
  <2>3. \E q \in Procs, m \in Lists, k \in Kinds : \E j \in DOMAIN m :
           /\ Statement(seen, m, k) /\ m[j] = [op |-> "send", ch |-> c]
           /\ Ends(seen, Now', q, j) /\ Now'.cap[c] = seen.cap[c]
           /\ SameProcs(seen, Now', {q}) /\ SameChans(seen, Now', {c})
    BY <1>8, <1>9, <1>11, <1>16, <2>2
  <2>4. Sending(c)' BY <1>2, <1>10, <1>15, <1>16, <2>3 DEF Sending, Confirmed, Delta
  <2> QED BY <1>8, <1>14, <2>4, Keeps DEF Track
<1>17. CASE op = "receive"
  <2>1. \E q \in Procs, m \in Lists, k \in Kinds : \E j \in DOMAIN m :
           /\ Statement(seen, m, k) /\ m[j] = [op |-> "receive", ch |-> c]
           /\ Ends(seen, Now', q, EndOf(k = "range", j, TRUE)) /\ Now'.cap[c] = seen.cap[c]
           /\ SameProcs(seen, Now', {q}) /\ SameChans(seen, Now', {c})
    BY <1>8, <1>9, <1>11, <1>13, <1>17
  <2>2. seen.len[c] \in Int BY <1>8, <1>9
  <2>3. Receiving(c)' BY <1>2, <1>10, <1>15, <1>17, <2>1, <2>2 DEF Receiving, Confirmed, Delta
  <2> QED BY <1>8, <1>14, <2>3, Keeps DEF Track
<1> QED BY <1>16, <1>17

\* A closed channel answers: with a message as long as it has one.
LEMMA ClosedFollows ==
  ASSUME Watched, NEW c \in Chans, ReceiveFromClosed(c)
  PROVE  Follows /\ Rangers'
<1> DEFINE S == Offers("send", c)
           R == Offers("receive", c)
           x == [counter EXCEPT ![c] = IF @ >= 0 THEN @ ELSE 0]
<1>1. /\ Goto(c, "confirming_closed", "closed") /\ automaton[c] = "confirming_closed"
      /\ Confirm("receive", c, x) /\ buffer' = buffer
  BY DEF ReceiveFromClosed, Goto
<1>2. automaton[c] \in Answering /\ TriggerOf(automaton[c]) = "receive"
      /\ automaton[c] \in CommittedChannel
  BY <1>1 DEF Answering, TriggerOf, CommittedChannel
<1>3. counter \in [Chans -> Int] /\ counter[c] \in Int /\ buffer[c] \in Int
  BY DEF Watched, TypeOK
<1>4. x \in [Chans -> Int] /\ (\A d \in Chans : d # c => x[d] = counter[d])
      /\ x[c] = IF counter[c] >= 0 THEN counter[c] ELSE 0
  BY <1>3
<1>5. PICK p \in Procs, i \in Nat : Through(p, i, "receive", c) /\ counter'[c] = x[c]
  <2> HIDE DEF x
  <2> QED BY <1>1, <1>4, ConfirmThrough
<1>6. PICK t \in Procs : Started(t) /\ Answered(t, c) BY <1>2, AnswerStarted DEF Watched
<1>7. p = t BY <1>1, <1>2, <1>5, <1>6, NewcomerThrough
<1>8. Closed(buffer[c], S \ {t}, R \ {t}, Content(c)) /\ R \ {t} = {}
  <2>1. SettledAt(c, {t}) BY <1>6 DEF Started, Acts, Around
  <2> QED BY <1>1, <2>1 DEF SettledAt, Settled
<1>9. t \in R /\ t \notin S BY <1>5, <1>7 DEF Through
<1>10. Counted(counter[c], S, R, Content(c)) BY ContentCounted DEF Watched
<1>11. counter[c] = Content(c) - 1 /\ Content(c) \in Nat /\ buffer[c] = -1 /\ S \ {t} = {}
  <2>1. PICK s, r \in Nat : /\ counter[c] = Content(c) + s - r - 1
                            /\ s = 0 <=> S = {}
                            /\ r = 0 <=> R \ {t} = {}
    BY <1>9, <1>10, CountedReceiver
  <2>2. S = {} BY <1>8, <1>9 DEF Closed
  <2> QED BY <1>8, <2>1, <2>2 DEF Closed
<1>12. /\ SameProcs(seen, Now', {t}) /\ SameChans(seen, Now', {c})
       /\ Now'.cap[c] = seen.cap[c] /\ seen.cap[c] = buffer[c] /\ seen.len[c] = Content(c)
       /\ Now'.len[c] = Content(c)'
       /\ Rangers' /\ \A q \in Procs : loc'[q] = loc[q] \/ loc'[q] # "select_pass_1"
  BY <1>5, <1>6, <1>7, NewcomerSeen
<1>13. /\ Content(c)' = Content(c) + counter'[c] - counter[c] - 1
       /\ i \in DOMAIN cases[t] /\ cases[t][i] = [op |-> "receive", ch |-> c]
  <2>1. /\ Content(c)' = Content(c) + counter'[c] - counter[c] + Delta("receive")
        /\ i \in DOMAIN cases[t] /\ cases[t][i] = [op |-> "receive", ch |-> c]
    BY <1>5, <1>7 DEF Through
  <2>2. Delta("receive") = -1 BY DEF Delta
  <2>3. counter'[c] \in Int BY <1>3, <1>4, <1>5
  <2>4. Content(c) \in Int BY <1>11
  <2> QED BY ONLY <1>3, <2>1, <2>2, <2>3, <2>4
<1>14. cases[t] \in Lists /\ kind[t] \in Kinds /\ Statement(seen, cases[t], kind[t])
  BY <1>6, StartedStatement DEF Watched
<1>15. NoOffer(seen, "send", c)
  <2>1. c \in Made BY <1>1 DEF Watched, Shape
  <2> QED BY <1>6, <1>11, <2>1, StartedSees
<1>16. kind[t] = "range" => (ok[t] <=> counter[c] >= 0) BY <1>6 DEF Started
<1>17. ReceiveStep(seen, Now', t, i, c, kind[t] = "range")
  <2>1. CASE counter[c] >= 0
    <3>1. Ends(seen, Now', t, EndOf(kind[t] = "range", i, TRUE))
      BY <1>5, <1>6, <1>7, <1>16, <2>1, NewcomerSeen
    <3>2. seen.len[c] > 0 /\ Now'.len[c] = seen.len[c] - 1
      BY <1>3, <1>4, <1>5, <1>11, <1>12, <1>13, <2>1
    <3> QED BY <1>12, <1>15, <3>1, <3>2 DEF ReceiveStep
  <2>2. CASE counter[c] < 0
    <3>0. kind[t] = "range" => (FALSE <=> buffer[c] >= 0 \/ ok[t])
      BY <1>3, <1>11, <1>16, <2>2
    <3>1. Ends(seen, Now', t, EndOf(kind[t] = "range", i, FALSE))
      BY <1>5, <1>6, <1>7, <3>0, NewcomerSeen
    <3>2. seen.len[c] = 0 /\ Now'.len[c] = seen.len[c]
      BY <1>3, <1>4, <1>5, <1>11, <1>12, <1>13, <2>2
    <3>3. SameChans(seen, Now', {}) BY <1>12, <3>2 DEF SameChans, SameChan
    <3> QED BY <1>11, <1>12, <3>1, <3>2, <3>3 DEF ReceiveStep
  <2> QED BY <1>3, <2>1, <2>2
<1>18. NoneCommitted'
  <2>1. "closed" \notin CommittedChannel BY DEF CommittedChannel
  <2> QED BY <1>1, <1>2, <1>12, <2>1, AfterAnswer
<1>19. CaseStep(seen, Now', t, cases[t], kind[t]) BY <1>13, <1>17 DEF CaseStep
<1> QED BY <1>12, <1>14, <1>18, <1>19, StartedLands

-----------------------------------------------------------------------------
\* The steps of a channel that passes on a message.

\* At such a time all processes rest.
LEMMA RestAt ==
  ASSUME Watched, NEW c \in Chans, automaton[c] \in {"confirming_a", "confirming_b", "closing"}
  PROVE  /\ SettledAt(c, {}) /\ (\A q \in Procs : loc[q] # "select_pass_1")
         /\ \A q \in Procs : ~Started(q)
         /\ Counted(counter[c], Offers("send", c), Offers("receive", c), Content(c))
         /\ buffer[c] \in Int /\ counter[c] \in Int /\ c \in Made
         /\ automaton[c] \in CommittedChannel
<1>1. automaton[c] \in CommittedChannel /\ automaton[c] \notin Answering
  BY DEF CommittedChannel, Answering
<1>2. Rest BY <1>1, CommittedRests DEF Watched
<1>3. \A q \in Procs : ~Started(q) BY ActingCommits DEF Started, Watched
<1>4. c \in Made BY DEF Watched, Shape
<1> QED BY <1>1, <1>2, <1>3, <1>4, ContentCounted DEF Rest, Around, Ready, Watched, TypeOK

\* What was seen of the other processes while case i of p's statement is half-way.
LEMMA HalfWay ==
  ASSUME Watched, NEW c \in Chans, automaton[c] \in {"confirming_a", "confirming_b"},
         NEW p \in Procs, NEW m, NEW k, NEW i, NEW op, NEW v, Confirmed(c, p, m, k, i, op, v)
  PROVE  /\ Ends(seen, Now, p, v) /\ seen.cap[c] = buffer[c] /\ Now.len[c] = Content(c)
         /\ Now.cap[c] = buffer[c]
         /\ \A o : NoOffer(seen, o, c) <=> Offers(o, c) \ {p} = {}
         /\ \A o : p \notin Offers(o, c)
         /\ loc[p] # "waiting" \/ cases[p] = <<>>
<1>1. Now.blocked[p] = <<>> /\ seen.blocked[p] = <<>> /\ SameProcs(seen, Now, {p})
  BY DEF Confirmed, Ends, Begins
<1>2. loc[p] # "select_pass_1" /\ \A q \in Procs : loc[q] # "select_pass_1" BY RestAt
<1>3. \A o : ~HasCase(Now.blocked[p], o, c) BY <1>1 DEF HasCase
<1>4. \A o : p \notin Offers(o, c) BY <1>2, <1>3, NowOffers
<1>5. \A o : NoOffer(seen, o, c) <=> Offers(o, c) \ {p} = {} BY <1>1, <1>2, SeenOffers
<1>6. Now.cap[c] = buffer[c] /\ Now.len[c] = Content(c) BY RestAt, NowChan
<1>7. loc[p] # "waiting" \/ cases[p] = <<>> BY <1>1, NowProc
<1> QED BY <1>4, <1>5, <1>6, <1>7 DEF Confirmed

LEMMA EndsKept ==
  ASSUME NEW p, NEW v, Ends(seen, Now, p, v), SameProc(Now, Now', p)
  PROVE  Ends(seen, Now', p, v)
BY DEF Ends, SameProc

\* The last step of a send or receive that leaves or finds the message in the buffer.
LEMMA BufferFollows ==
  ASSUME Watched, NEW c \in Chans, SentToBuffer(c) \/ ReceivedFromBuffer(c)
  PROVE  Follows /\ Rangers'
<1> DEFINE S == Offers("send", c)
           R == Offers("receive", c)
<1>1. PICK from \in {"confirming_a", "confirming_b"} :
        /\ Goto(c, from, "idle") /\ (from = "confirming_a" => counter[c] > 0)
        /\ from = "confirming_b" => counter[c] < buffer[c]
  BY DEF SentToBuffer, ReceivedFromBuffer
<1>2. UNCHANGED <<chanCount, counter, buffer, loc, kind, cases, armed, ok, outcome, stmts>>
  BY DEF SentToBuffer, ReceivedFromBuffer, procVars
<1>3. automaton[c] = from /\ from \in CommittedChannel BY <1>1 DEF Goto, CommittedChannel
<1>4. /\ SettledAt(c, {}) /\ Counted(counter[c], S, R, Content(c)) /\ c \in Made
      /\ buffer[c] \in Int /\ counter[c] \in Int
      /\ \A q \in Procs : ~Started(q)
  BY <1>3, RestAt
<1>5. S \ {} = S /\ R \ {} = R OBVIOUS
<1>6. AllStay({}) /\ ContentStays({})
  <2>1. \A o, d : Offers(o, d)' = Offers(o, d) BY <1>2 DEF Offers, Offering
  <2> QED BY <1>2, <2>1 DEF AllStay, Stays, ContentStays, Content
<1>7. Rangers' BY <1>4, <1>6, RangersStay DEF Watched, Seen
<1>8. NoneCommitted'
  <2>1. "idle" \notin CommittedChannel BY DEF CommittedChannel
  <2> QED BY <1>1, <1>2, <1>3, <2>1, AfterAnswer
<1>9. /\ \A q \in Procs : SameProc(Now, Now', q)
      /\ \A d \in Chans : SameChan(Now, Now', d)
  <2>1. SameProcs(Now, Now', {}) /\ SameChans(Now, Now', {}) BY <1>6, Frame
  <2> QED BY <2>1 DEF SameProcs, SameChans
<1>10. ASSUME NEW p \in Procs, SameProcs(seen, Now, {p}), SameChans(seen, Now, {c})
       PROVE  SameProcs(seen, Now', {p}) /\ SameChans(seen, Now', {c})
  BY <1>9, <1>10, SameTrans DEF SameProcs, SameChans
<1>11. CASE from = "confirming_a"
  <2>1. Sending(c) BY <1>3, <1>11, ConfirmingAt DEF Watched
  <2>2. PICK p \in Procs, m \in Lists, k \in Kinds : \E i \in DOMAIN m :
           Confirmed(c, p, m, k, i, "send", i)
    BY <2>1 DEF Sending
  <2>3. PICK i \in DOMAIN m : Confirmed(c, p, m, k, i, "send", i) BY <2>2
  <2>4. Sent(buffer[c], S, R, Content(c)) BY <1>3, <1>4, <1>5, <1>11 DEF SettledAt, Settled
  <2>5. Open(buffer[c], S, R, Content(c)) BY <1>1, <1>4, <1>11, <2>4, SentStays
  <2>6. R = {} /\ Content(c) <= buffer[c] /\ buffer[c] >= 0 /\ Content(c) \in Int
    BY <1>4, <2>4, <2>5 DEF Sent, Open
  <2>7. /\ Ends(seen, Now, p, i) /\ seen.cap[c] = buffer[c] /\ Now.len[c] = Content(c)
        /\ NoOffer(seen, "receive", c) <=> R \ {p} = {}
    BY <1>3, <1>11, <2>3, HalfWay
  <2>8. Now.len[c] = seen.len[c] + 1 /\ seen.len[c] \in Int
    <3>1. seen.len \in [Chans -> Int] BY ViewTypes DEF Watched, Seen
    <3> QED BY <2>1, <3>1 DEF Sending
  <2>9. Ends(seen, Now', p, i) BY <1>9, <2>7, EndsKept
  <2>10. SendStep(seen, Now', p, i, c)
    <3>1. NoOffer(seen, "receive", c) /\ seen.len[c] < seen.cap[c]
      BY <1>4, <2>6, <2>7, <2>8
    <3>2. Now'.len[c] = seen.len[c] + 1 /\ Now'.cap[c] = seen.cap[c]
      BY <1>9, <2>3, <2>8 DEF SameChan, Confirmed
    <3>3. SameProcs(seen, Now', {p}) /\ SameChans(seen, Now', {c})
      BY <1>10, <2>3 DEF Confirmed
    <3>4. seen.cap[c] >= 0 BY <2>6, <2>7
    <3> QED BY <2>9, <3>1, <3>2, <3>3, <3>4 DEF SendStep
  <2>11. Statement(seen, m, k) /\ m[i].op = "send" /\ m[i].ch = c BY <2>3 DEF Confirmed
  <2>12. CaseStep(seen, Now', p, m, k) BY <2>10, <2>11 DEF CaseStep
  <2> QED BY <1>7, <1>8, <2>11, <2>12, StartedLands
<1>12. CASE from = "confirming_b"
  <2>1. Receiving(c) BY <1>3, <1>12, ConfirmingAt DEF Watched
  <2>2. PICK p \in Procs, m \in Lists, k \in Kinds : \E i \in DOMAIN m :
           Confirmed(c, p, m, k, i, "receive", EndOf(k = "range", i, TRUE))
    BY <2>1 DEF Receiving
  <2>3. PICK i \in DOMAIN m : Confirmed(c, p, m, k, i, "receive", EndOf(k = "range", i, TRUE))
    BY <2>2
  <2>4. Received(buffer[c], S, R, Content(c)) BY <1>3, <1>4, <1>5, <1>12 DEF SettledAt, Settled
  <2>5. Open(buffer[c], S, R, Content(c)) BY <1>1, <1>4, <1>12, <2>4, ReceivedFits
  <2>6. S = {} /\ Content(c) >= 0 /\ Content(c) \in Int
    BY <1>4, <2>4, <2>5 DEF Received, Open
  <2>7. /\ Ends(seen, Now, p, EndOf(k = "range", i, TRUE)) /\ Now.len[c] = Content(c)
        /\ NoOffer(seen, "send", c) <=> S \ {p} = {}
    BY <1>3, <1>12, <2>3, HalfWay
  <2>8. Now.len[c] = seen.len[c] - 1 /\ seen.len[c] \in Int
    <3>1. seen.len \in [Chans -> Int] BY ViewTypes DEF Watched, Seen
    <3> QED BY <2>1, <3>1 DEF Receiving
  <2>9. Ends(seen, Now', p, EndOf(k = "range", i, TRUE)) BY <1>9, <2>7, EndsKept
  <2>10. ReceiveStep(seen, Now', p, i, c, k = "range")
    <3>1. NoOffer(seen, "send", c) /\ seen.len[c] > 0 BY <2>6, <2>7, <2>8
    <3>2. Now'.len[c] = seen.len[c] - 1 /\ Now'.cap[c] = seen.cap[c]
      BY <1>9, <2>3, <2>8 DEF SameChan, Confirmed
    <3>3. SameProcs(seen, Now', {p}) /\ SameChans(seen, Now', {c})
      BY <1>10, <2>3 DEF Confirmed
    <3> QED BY <2>9, <3>1, <3>2, <3>3 DEF ReceiveStep
  <2>11. Statement(seen, m, k) /\ m[i].op = "receive" /\ m[i].ch = c BY <2>3 DEF Confirmed
  <2>12. CaseStep(seen, Now', p, m, k) BY <2>10, <2>11 DEF CaseStep
  <2> QED BY <1>7, <1>8, <2>11, <2>12, StartedLands
<1> QED BY <1>11, <1>12

\* Blocked process q is released, whatever else happened to the others.
LEMMA ThroughFreed ==
  ASSUME Watched, NEW c \in Chans, NEW op, NEW q \in Procs, NEW j \in Nat, Through(q, j, op, c),
         SameProc(seen, Now, q), NEW got \in BOOLEAN,
         kind[q] = "range" => (got <=> buffer[c] >= 0 \/ ok[q])
  PROVE  Freed(seen, Now', q, op, c, got)
<1>1. /\ Now'.blocked[q] = <<>> /\ q \notin Now'.ranging /\ Now'.stmts[q] = stmts[q]
      /\ Now.blocked[q] = cases[q] /\ (q \in Now.ranging <=> kind[q] = "range")
      /\ Now'.outcome[q] = EndOf(kind[q] = "range", j, got)
  BY ThroughLooks
<1>2. j \in DOMAIN cases[q] /\ cases[q][j] = [op |-> op, ch |-> c] BY DEF Through
<1>3. seen.blocked[q] = cases[q] /\ seen.stmts[q] = stmts[q]
      /\ (q \in seen.ranging <=> kind[q] = "range")
  BY <1>1, NowProc DEF SameProc
<1>4. EndOf(kind[q] = "range", j, got) = EndOf(q \in seen.ranging, j, got)
  BY <1>3 DEF EndOf
<1>5. \E i \in DOMAIN seen.blocked[q] : /\ seen.blocked[q][i] = [op |-> op, ch |-> c]
                                        /\ Now'.outcome[q] = EndOf(q \in seen.ranging, i, got)
  BY <1>1, <1>2, <1>3, <1>4
<1> QED BY <1>1, <1>3, <1>5 DEF Freed

\* The partner of a confirmed process p is released with a message.
LEMMA PartnerFreed ==
  ASSUME Watched, NEW c \in Chans, automaton[c] \in {"confirming_a", "confirming_b"},
         NEW p \in Procs, NEW m, NEW k, NEW i, NEW o, NEW v, Confirmed(c, p, m, k, i, o, v),
         NEW op, NEW q \in Procs, NEW j \in Nat, Through(q, j, op, c)
  PROVE  /\ SomeFreed(seen, Now', p, op, c) /\ Ends(seen, Now', p, v)
         /\ SameChans(seen, Now', {c}) /\ Now'.cap[c] = seen.cap[c] /\ Now'.len[c] = Content(c)'
         /\ Rangers' /\ \A t \in Procs : loc'[t] = loc[t] \/ loc'[t] # "select_pass_1"
<1>1. /\ SameProcs(seen, Now, {p}) /\ SameChans(seen, Now, {c}) /\ Now.cap[c] = seen.cap[c]
      /\ Ends(seen, Now, p, v)
  BY DEF Confirmed
<1>2. AllStay({q}) /\ ContentStays({c}) /\ buffer' = buffer /\ q \in Offers(op, c) BY DEF Through
<1>3. q # p BY <1>2, HalfWay
<1>4. SameProc(seen, Now, q) BY <1>1, <1>3 DEF SameProcs
<1>5. c \in Made /\ SettledAt(c, {}) BY RestAt
<1>6. buffer[c] >= 0 BY <1>5, Settles DEF Watched
<1>7. Freed(seen, Now', q, op, c, TRUE) BY <1>4, <1>6, ThroughFreed
<1>8. SameProcs(Now, Now', {q}) BY <1>2, Frame
<1>9. SameProcs(seen, Now', {p, q}) BY <1>1, <1>8, SameTrans DEF SameProcs
<1>10. SomeFreed(seen, Now', p, op, c) BY <1>3, <1>7, <1>9 DEF SomeFreed
<1>11. Ends(seen, Now', p, v)
  <2>1. SameProc(Now, Now', p) BY <1>3, <1>8 DEF SameProcs
  <2> QED BY <1>1, <2>1, EndsKept
<1>12. SameChans(seen, Now', {c}) BY <1>1, <1>2, Frame
<1>13. c \in Made' BY <1>2, <1>5 DEF ContentStays, Made
<1>14. Now'.cap[c] = seen.cap[c] /\ Now'.len[c] = Content(c)'
  BY <1>1, <1>2, <1>5, <1>13, NowChan
<1>15. Ranger(q)' /\ loc'[q] # "select_pass_1" BY ThroughLooks
<1>16. Rangers'
  <2>1. \A t \in Procs : ~Started(t) BY RestAt
  <2> QED BY <1>2, <1>15, <2>1, RangersStay DEF Watched, Seen
<1>17. \A t \in Procs : loc'[t] = loc[t] \/ loc'[t] # "select_pass_1"
  BY <1>2, <1>15 DEF AllStay, Stays
<1> QED BY <1>10, <1>11, <1>12, <1>14, <1>16, <1>17

LEMMA PassFollows ==
  ASSUME Watched, NEW c \in Chans, SentToReceiver(c) \/ ReceivedAndRefilled(c)
  PROVE  Follows /\ Rangers'
<1>1. PICK op \in {"send", "receive"} :
        /\ Confirm(op, c, counter) /\ buffer' = buffer
        /\ op = "receive" => Goto(c, "confirming_a", "idle")
        /\ op = "send" => Goto(c, "confirming_b", "idle")
  BY DEF SentToReceiver, ReceivedAndRefilled
<1>2. /\ op = "receive" => automaton[c] = "confirming_a"
      /\ op = "send" => automaton[c] = "confirming_b"
      /\ automaton[c] \in {"confirming_a", "confirming_b"}
  BY <1>1 DEF Goto
<1>3. counter \in [Chans -> Int] BY DEF Watched, TypeOK
<1>4. PICK q \in Procs, j \in Nat : Through(q, j, op, c) /\ counter'[c] = counter[c]
  BY <1>1, <1>3, ConfirmThrough
<1>5. Content(c)' = Content(c) + counter'[c] - counter[c] + Delta(op) /\ Content(c) \in Int
  BY <1>4, ContentCounted DEF Through, Watched, Counted
<1>6. Content(c)' = Content(c) + Delta(op)
  BY <1>3, <1>4, <1>5 DEF Delta
<1>7. Now.len[c] = Content(c) /\ seen.len \in [Chans -> Int]
  BY NowChan, ViewTypes DEF Watched, Seen
<1>8. ASSUME \A t \in Procs : loc'[t] = loc[t] \/ loc'[t] # "select_pass_1"
      PROVE  NoneCommitted'
  <2>1. "idle" \notin CommittedChannel /\ {"confirming_a", "confirming_b"} \subseteq CommittedChannel
    BY DEF CommittedChannel
  <2> QED BY <1>1, <1>8, <2>1, AfterAnswer
<1>9. CASE op = "receive"
  <2>1. Sending(c) BY <1>2, <1>9, ConfirmingAt DEF Watched
  <2>2. PICK p \in Procs, m \in Lists, k \in Kinds : \E i \in DOMAIN m :
           Confirmed(c, p, m, k, i, "send", i)
    BY <2>1 DEF Sending
  <2>3. PICK i \in DOMAIN m : Confirmed(c, p, m, k, i, "send", i) BY <2>2
  <2>4. /\ SomeFreed(seen, Now', p, "receive", c) /\ Ends(seen, Now', p, i)
        /\ SameChans(seen, Now', {c}) /\ Now'.cap[c] = seen.cap[c] /\ Now'.len[c] = Content(c)'
        /\ Rangers' /\ \A t \in Procs : loc'[t] = loc[t] \/ loc'[t] # "select_pass_1"
    BY <1>2, <1>4, <1>9, <2>3, PartnerFreed
  <2>5. Now'.len[c] = seen.len[c]
    <3>1. Now.len[c] = seen.len[c] + 1 BY <2>1 DEF Sending
    <3>2. Delta(op) = -1 BY <1>9 DEF Delta
    <3>3. seen.len[c] \in Int BY <1>7
    <3> QED BY <1>5, <1>6, <1>7, <2>4, <3>1, <3>2, <3>3
  <2>6. SameChans(seen, Now', {}) BY <2>4, <2>5 DEF SameChans, SameChan
  <2>7. seen.cap[c] >= 0
    <3>1. SettledAt(c, {}) BY <1>2, RestAt
    <3>2. seen.cap[c] = buffer[c] BY <1>2, <2>3, HalfWay
    <3> QED BY <1>2, <3>1, <3>2, Settles DEF Watched
  <2>8. SendStep(seen, Now', p, i, c) BY <2>4, <2>6, <2>7 DEF SendStep
  <2>9. Statement(seen, m, k) /\ m[i].op = "send" /\ m[i].ch = c BY <2>3 DEF Confirmed
  <2>10. CaseStep(seen, Now', p, m, k) BY <2>8, <2>9 DEF CaseStep
  <2> QED BY <1>8, <2>4, <2>9, <2>10, StartedLands
<1>10. CASE op = "send"
  <2>1. Receiving(c) BY <1>2, <1>10, ConfirmingAt DEF Watched
  <2>2. PICK p \in Procs, m \in Lists, k \in Kinds : \E i \in DOMAIN m :
           Confirmed(c, p, m, k, i, "receive", EndOf(k = "range", i, TRUE))
    BY <2>1 DEF Receiving
  <2>3. PICK i \in DOMAIN m : Confirmed(c, p, m, k, i, "receive", EndOf(k = "range", i, TRUE))
    BY <2>2
  <2>4. /\ SomeFreed(seen, Now', p, "send", c) /\ Ends(seen, Now', p, EndOf(k = "range", i, TRUE))
        /\ SameChans(seen, Now', {c}) /\ Now'.cap[c] = seen.cap[c] /\ Now'.len[c] = Content(c)'
        /\ Rangers' /\ \A t \in Procs : loc'[t] = loc[t] \/ loc'[t] # "select_pass_1"
    BY <1>2, <1>4, <1>10, <2>3, PartnerFreed
  <2>5. Now'.len[c] = seen.len[c]
    <3>1. Now.len[c] = seen.len[c] - 1 BY <2>1 DEF Receiving
    <3>2. Delta(op) = 1 BY <1>10 DEF Delta
    <3>3. seen.len[c] \in Int BY <1>7
    <3> QED BY <1>5, <1>6, <1>7, <2>4, <3>1, <3>2, <3>3
  <2>6. SameChans(seen, Now', {}) BY <2>4, <2>5 DEF SameChans, SameChan
  <2>7. ReceiveStep(seen, Now', p, i, c, k = "range") BY <2>4, <2>6 DEF ReceiveStep
  <2>8. Statement(seen, m, k) /\ m[i].op = "receive" /\ m[i].ch = c BY <2>3 DEF Confirmed
  <2>9. CaseStep(seen, Now', p, m, k) BY <2>7, <2>8 DEF CaseStep
  <2> QED BY <1>8, <2>4, <2>8, <2>9, StartedLands
<1> QED BY <1>9, <1>10

-----------------------------------------------------------------------------
\* Closing.

LEMMA CloseFollows ==
  ASSUME Watched, NEW p \in Procs, NEW c \in Made, CloseChan(p, c)
  PROVE  Follows /\ Rangers'
<1> DEFINE S == Offers("send", c)
           R == Offers("receive", c)
<1>1. c \in Chans BY DEF Made
<1>2. /\ Quiet /\ loc[p] = "running" /\ stmts[p] < MaxStmts
      /\ stmts' = [stmts EXCEPT ![p] = @ + 1] /\ kind' = [kind EXCEPT ![p] = "op"]
      /\ cases' = [cases EXCEPT ![p] = <<>>] /\ outcome' = [outcome EXCEPT ![p] = NoOutcome]
      /\ UNCHANGED <<chanCount, counter, loc, armed, ok>>
  BY DEF CloseChan, Start
<1>3. /\ automaton[c] = "idle" /\ automaton'[c] = "closing" /\ counter[c] <= buffer[c]
      /\ buffer' = [buffer EXCEPT ![c] = -1]
  BY <1>1 DEF CloseChan, Goto, Watched, TypeOK, Panicked
<1>4. seen = Now BY <1>2, QuietUnchanged DEF Watched
<1>5. \A d \in Chans : Content(d)' = Content(d) BY CloseChanShape DEF Watched
<1>6. buffer \in [Chans -> Int] BY DEF Watched, TypeOK
<1>7. AllStay({p}) /\ ContentStays({c})
  BY <1>2, <1>3, <1>5, <1>6 DEF AllStay, Stays, ContentStays, Quiet, CommittedProcess, Watched, TypeOK
<1>8. SameProcs(seen, Now', {p}) /\ SameChans(seen, Now', {c}) BY <1>4, <1>7, Frame
<1>9. Rest BY <1>2, QuietRests DEF Watched
<1>10. SettledAt(c, {}) BY <1>1, <1>9 DEF Rest, Around
<1>11. Open(buffer[c], S, R, Content(c))
  <2>1. S \ {} = S /\ R \ {} = R OBVIOUS
  <2> QED BY <1>3, <1>10, <2>1 DEF SettledAt, Settled
<1>12. S = {}
  <2>1. Counted(counter[c], S, R, Content(c)) /\ buffer[c] \in Int
    BY <1>1, <1>6, ContentCounted DEF Watched
  <2> QED BY <1>3, <1>11, <2>1, CloseJudges
<1>13. NoOffer(seen, "send", c)
  <2>1. \A q \in Procs : loc[q] # "select_pass_1" BY <1>2 DEF Quiet, CommittedProcess
  <2> QED BY <1>4, <1>12, <2>1, NowOffers DEF NoOffer
<1>14. automaton'[c] \in CommittedChannel BY <1>3 DEF CommittedChannel
<1>15. ~Quiet' BY <1>1, <1>14 DEF Quiet
<1>16. seen' = seen BY <1>15, Keeps
<1>17. c \in Made' BY <1>2 DEF Made
<1>18. Ends(seen, Now', p, NoOutcome)
  <2>1. loc'[p] = "running" /\ outcome'[p] = NoOutcome /\ stmts'[p] = stmts[p] + 1
    BY <1>2 DEF Watched, TypeOK
  <2>2. seen.blocked[p] = <<>> /\ p \notin seen.ranging /\ seen.stmts[p] = stmts[p]
    BY <1>2, <1>4, NowProc
  <2> QED BY <1>2, <2>1, <2>2, NextProc DEF Ends, Begins
<1>19. Closing(c, p)'
  <2>1. seen.cap[c] = buffer[c] /\ seen.len[c] = Content(c) BY <1>1, <1>4, NowChan
  <2>2. Now'.cap[c] = -1 /\ Now'.len[c] = Content(c)
    BY <1>1, <1>3, <1>5, <1>6, <1>17, NowChan
  <2>3. seen.cap[c] >= 0
    BY <1>1, <1>3, <1>10, <2>1, Settles DEF Watched
  <2> QED BY <1>3, <1>8, <1>13, <1>16, <1>18, <2>1, <2>2, <2>3 DEF Closing, SameProcs
<1>20. Rangers'
  <2>1. \A q \in Procs : ~Started(q) BY <1>2, QuietStart DEF Watched
  <2>2. Ranger(p)' BY <1>2 DEF Ranger
  <2> QED BY <1>7, <2>1, <2>2, RangersStay DEF Watched, Seen
<1> QED BY <1>1, <1>15, <1>19, <1>20, Keeps DEF Track

LEMMA ReleaseFollows ==
  ASSUME Watched, NEW c \in Chans, ReleaseReceiver(c)
  PROVE  Follows /\ Rangers'
<1> DEFINE x == [counter EXCEPT ![c] = @ + 1]
<1>1. /\ automaton[c] = "closing" /\ automaton' = [automaton EXCEPT ![c] = "closing"]
      /\ Confirm("receive", c, x) /\ buffer' = buffer
  BY DEF ReleaseReceiver, Goto
<1>2. counter \in [Chans -> Int] /\ counter[c] \in Int BY DEF Watched, TypeOK
<1>3. x \in [Chans -> Int] /\ (\A d \in Chans : d # c => x[d] = counter[d])
      /\ x[c] = counter[c] + 1
  BY <1>2
<1>4. PICK q \in Procs, j \in Nat : Through(q, j, "receive", c) /\ counter'[c] = x[c]
  <2> HIDE DEF x
  <2> QED BY <1>1, <1>3, ConfirmThrough
<1>5. Content(c)' = Content(c)
  <2>1. Content(c)' = Content(c) + counter'[c] - counter[c] + Delta("receive") /\ Content(c) \in Int
    BY <1>4, ContentCounted DEF Through, Watched, Counted
  <2>2. Delta("receive") = -1 BY DEF Delta
  <2>3. counter'[c] = counter[c] + 1 BY <1>3, <1>4
  <2> QED BY ONLY <1>2, <2>1, <2>2, <2>3
<1>6. PICK p \in Procs : Closing(c, p) BY <1>1, ConfirmingAt DEF Watched
<1>7. AllStay({q}) /\ ContentStays({c}) /\ q \in Offers("receive", c)
      /\ loc[q] = "waiting" /\ j \in DOMAIN cases[q]
      /\ cases[q][j] = [op |-> "receive", ch |-> c]
  BY <1>4 DEF Through
<1>8. ContentStays({}) BY <1>1, <1>5, <1>7 DEF ContentStays
<1>9. SameProcs(Now, Now', {q}) /\ SameChans(Now, Now', {}) BY <1>7, <1>8, Frame
<1>10. HasCase(Now.blocked[q], "receive", c) BY <1>7, NowOffers
<1>11. Now.blocked[q] # <<>> BY <1>10 DEF HasCase
<1>12. q # p BY <1>6, <1>11 DEF Closing, Ends
<1>13. SameProc(seen, Now, q) BY <1>6, <1>11, <1>12 DEF Closing, Freed
<1>14. \A t \in Procs : ~Started(t) BY <1>1, RestAt
<1>15. Freed(seen, Now', q, "receive", c, FALSE)
  <2>1. SettledAt(c, {}) /\ buffer[c] \in Int BY <1>1, RestAt
  <2>2. buffer[c] = -1 BY <1>1, <2>1 DEF SettledAt, Settled, Closed
  <2>3. kind[q] = "range" => ~ok[q]
    <3>1. Ranger(q) BY DEF Watched, Seen, Rangers
    <3> QED BY <1>7, <1>14, <3>1 DEF Ranger
  <2>4. kind[q] = "range" => (FALSE <=> buffer[c] >= 0 \/ ok[q]) BY <2>2, <2>3
  <2> QED BY <1>4, <1>13, <2>4, ThroughFreed
<1>16. automaton'[c] = "closing" BY <1>1 DEF Watched, TypeOK
<1>17. automaton'[c] \in CommittedChannel BY <1>16 DEF CommittedChannel
<1>18. ~Quiet' BY <1>17 DEF Quiet
<1>19. seen' = seen BY <1>18, Keeps
<1>20. Closing(c, p)'
  <2>1. Now'.cap[c] = -1 /\ Now'.len[c] = seen.len[c] /\ SameChans(seen, Now', {c})
    BY <1>6, <1>9, SameTrans DEF Closing, SameChans, SameChan
  <2>2. Ends(seen, Now', p, NoOutcome)
    BY <1>6, <1>9, <1>12, EndsKept DEF Closing, SameProcs
  <2>3. ASSUME NEW t \in Procs, t # p
        PROVE  SameProc(seen, Now', t) \/ Freed(seen, Now', t, "receive", c, FALSE)
    <3>1. CASE t = q BY <1>15, <3>1
    <3>2. CASE t # q
      <4>1. SameProc(Now, Now', t) BY <1>9, <3>2 DEF SameProcs
      <4>2. SameProc(seen, Now, t) \/ Freed(seen, Now, t, "receive", c, FALSE)
        BY <1>6, <2>3 DEF Closing
      <4>3. Freed(seen, Now, t, "receive", c, FALSE) => Freed(seen, Now', t, "receive", c, FALSE)
        BY <4>1 DEF Freed, SameProc
      <4> QED BY <4>1, <4>2, <4>3, SameTrans
    <3> QED BY <3>1, <3>2
  <2> QED BY <1>6, <1>16, <1>19, <2>1, <2>2, <2>3 DEF Closing
<1>21. Rangers'
  <2>1. Ranger(q)' BY <1>4, ThroughLooks
  <2> QED BY <1>7, <1>14, <2>1, RangersStay DEF Watched, Seen
<1> QED BY <1>18, <1>20, <1>21, Keeps DEF Track

LEMMA FinishFollows ==
  ASSUME Watched, NEW c \in Chans, FinishClosing(c)
  PROVE  Follows /\ Rangers'
<1> DEFINE S == Offers("send", c)
           R == Offers("receive", c)
<1>1. /\ Goto(c, "closing", "closed") /\ automaton[c] = "closing" /\ counter[c] >= 0
      /\ UNCHANGED <<chanCount, counter, buffer, loc, kind, cases, armed, ok, outcome, stmts>>
  BY DEF FinishClosing, Goto, procVars
<1>2. AllStay({}) /\ ContentStays({})
  <2>1. \A o, d : Offers(o, d)' = Offers(o, d) BY <1>1 DEF Offers, Offering
  <2> QED BY <1>1, <2>1 DEF AllStay, Stays, ContentStays, Content
<1>3. \A t \in Procs : ~Started(t) BY <1>1, RestAt
<1>4. Rangers' BY <1>2, <1>3, RangersStay DEF Watched, Seen
<1>5. NoneCommitted'
  <2>1. "closed" \notin CommittedChannel /\ "closing" \in CommittedChannel BY DEF CommittedChannel
  <2> QED BY <1>1, <2>1, AfterAnswer
<1>6. R = {}
  <2>1. SettledAt(c, {}) /\ Counted(counter[c], S, R, Content(c)) /\ buffer[c] \in Int
    BY <1>1, RestAt
  <2>2. S \ {} = S /\ R \ {} = R OBVIOUS
  <2>3. Closed(buffer[c], S, R, Content(c)) BY <1>1, <2>1, <2>2 DEF SettledAt, Settled
  <2> QED BY <1>1, <2>1, <2>3, ClosingEnds
<1>7. PICK p \in Procs : Closing(c, p) BY <1>1, ConfirmingAt DEF Watched
<1>8. SameProcs(Now, Now', {}) /\ SameChans(Now, Now', {}) BY <1>2, Frame
<1>9. CloseStep(seen, Now', p, c)
  <2>1. Now'.cap[c] = -1 /\ Now'.len[c] = seen.len[c] /\ SameChans(seen, Now', {c})
    BY <1>7, <1>8, SameTrans DEF Closing, SameChans, SameChan
  <2>2. Ends(seen, Now', p, NoOutcome)
    BY <1>7, <1>8, EndsKept DEF Closing, SameProcs
  <2>3. ASSUME NEW q \in Procs, q # p
        PROVE  IF HasCase(seen.blocked[q], "receive", c)
               THEN Freed(seen, Now', q, "receive", c, FALSE) ELSE SameProc(seen, Now', q)
    <3>1. SameProc(Now, Now', q) BY <1>8 DEF SameProcs
    <3>2. SameProc(seen, Now, q) \/ Freed(seen, Now, q, "receive", c, FALSE)
      BY <1>7, <2>3 DEF Closing
    <3>3. SameProc(seen, Now, q) => ~HasCase(seen.blocked[q], "receive", c)
      <4>1. loc[q] # "select_pass_1" BY <1>1, RestAt
      <4>2. ~HasCase(Now.blocked[q], "receive", c) BY <1>6, <4>1, NowOffers
      <4> QED BY <4>2 DEF SameProc
    <3>4. Freed(seen, Now, q, "receive", c, FALSE) =>
            /\ HasCase(seen.blocked[q], "receive", c)
            /\ Freed(seen, Now', q, "receive", c, FALSE)
      BY <3>1 DEF Freed, SameProc, HasCase
    <3>5. SameProc(seen, Now, q) => SameProc(seen, Now', q) BY <3>1, SameTrans
    <3> QED BY <3>2, <3>3, <3>4, <3>5
  <2> QED BY <1>7, <2>1, <2>2, <2>3 DEF Closing, CloseStep
<1>10. (TypeOK /\ Shape => Now \in Views)' BY NowTyped, PTL
<1>11. GoStep(seen, Now') BY <1>9, <1>10 DEF GoStep, Watched
<1> QED BY <1>4, <1>5, <1>11, Lands

\* A range loop moves on with its confirmation: nothing to see.
LEMMA DecideFollows ==
  ASSUME Watched, NEW p \in Procs, RangeDecide(p)
  PROVE  Follows /\ Rangers'
<1>1. /\ loc[p] = "range_received" /\ loc' = [loc EXCEPT ![p] = "running"]
      /\ outcome' = [outcome EXCEPT ![p] =
           IF buffer[cases[p][1].ch] >= 0 \/ ok[p] THEN RangeBody ELSE RangeExit]
      /\ cases' = [cases EXCEPT ![p] = <<>>] /\ ok' = [ok EXCEPT ![p] = FALSE]
      /\ UNCHANGED <<chanCount, counter, buffer, automaton, kind, armed, stmts>>
  BY DEF RangeDecide, chanVars
<1>2. /\ \A t \in Procs : Acts(t) => Acts(t)'
      /\ \A d \in Chans : Content(d)' = Content(d)
  BY RangeDecideShape DEF Watched
<1>3. AllStay({p}) BY <1>1 DEF AllStay, Stays, Watched, TypeOK
<1>4. Now' = Now
  <2>1. Made' = Made BY <1>1 DEF Made
  <2>2. \A q \in Procs : q # p => Waiting(q)' = Waiting(q) /\ cases'[q] = cases[q]
    BY <1>1 DEF Waiting, Watched, TypeOK
  <2>3. ~Waiting(p)' /\ ~Waiting(p) BY <1>1 DEF Waiting, Watched, TypeOK
  <2>4. \A q \in Procs : (IF Waiting(q)' THEN cases'[q] ELSE <<>>) = IF Waiting(q) THEN cases[q] ELSE <<>>
    BY <2>2, <2>3
  <2>5. {q \in Procs : Waiting(q)' /\ kind'[q] = "range"} = {q \in Procs : Waiting(q) /\ kind[q] = "range"}
    BY <1>1, <2>2, <2>3
  <2>6. \A q \in Procs : Out(q)' = Out(q) BY <1>1 DEF Out, Watched, TypeOK
  <2>7. [q \in Procs |-> IF Waiting(q)' THEN cases'[q] ELSE <<>>]
          = [q \in Procs |-> IF Waiting(q) THEN cases[q] ELSE <<>>]
    BY <2>4
  <2>8. [q \in Procs |-> Out(q)'] = [q \in Procs |-> Out(q)] BY <2>6
  <2>9. [d \in Chans |-> Content(d)'] = [d \in Chans |-> Content(d)] BY <1>2
  <2>10. [d \in Chans |-> IF d \in Made' THEN buffer'[d] ELSE -2]
           = [d \in Chans |-> IF d \in Made THEN buffer[d] ELSE -2]
    BY <1>1, <2>1
  <2> QED BY <1>1, <2>5, <2>7, <2>8, <2>9, <2>10 DEF Now
<1>5. ASSUME NEW q \in Procs, Started(q), seen' = seen
      PROVE  Started(q)'
  <2>1. loc[q] # "range_received"
    BY <1>5 DEF Started, Acts, Polls, Answered
  <2>2. q # p BY <1>1, <2>1
  <2>3. /\ loc'[q] = loc[q] /\ cases'[q] = cases[q] /\ kind'[q] = kind[q] /\ ok'[q] = ok[q]
        /\ outcome'[q] = outcome[q] /\ stmts'[q] = stmts[q] /\ armed'[q] = armed[q]
        /\ counter' = counter
    BY <1>1, <2>2 DEF Watched, TypeOK
  <2>4. Acts(q)' BY <1>2, <1>5 DEF Started
  <2>5. \A d \in Chans : Answered(q, d)' => Answered(q, d) BY <1>1, <2>3 DEF Answered
  <2> QED BY <1>4, <1>5, <2>3, <2>4, <2>5 DEF Started
<1>6. Ranger(p)' BY <1>1 DEF Ranger, Watched, TypeOK
<1>7. ASSUME seen' = seen PROVE Rangers'
  BY <1>3, <1>5, <1>6, <1>7, RangersStay DEF Watched, Seen
<1>8. ASSUME NEW t \in Procs, Started(t) PROVE Follows /\ Rangers'
  <2>1. Acts(t)' BY <1>2, <1>8 DEF Started
  <2>2. ~Quiet'
    BY <2>1 DEF Acts, Polls, Answered, Quiet, CommittedProcess, CommittedChannel, Answering
  <2>3. seen' = seen BY <2>2, Keeps
  <2> QED BY <1>5, <1>7, <1>8, <2>2, <2>3, Keeps DEF Track
<1>9. ASSUME NEW c \in Chans, Sending(c) \/ Receiving(c) \/ \E q \in Procs : Closing(c, q)
      PROVE  Follows /\ Rangers'
  <2>1. automaton[c] \in CommittedChannel
    BY <1>9 DEF Sending, Receiving, Closing, CommittedChannel
  <2>2. ~Quiet' BY <1>1, <2>1 DEF Quiet
  <2>3. seen' = seen BY <2>2, Keeps
  <2>4. Sending(c) => Sending(c)' BY <1>1, <1>4, <2>3 DEF Sending, Confirmed
  <2>5. Receiving(c) => Receiving(c)' BY <1>1, <1>4, <2>3 DEF Receiving, Confirmed
  <2>6. \A q \in Procs : Closing(c, q) => Closing(c, q)' BY <1>1, <1>4, <2>3 DEF Closing
  <2> QED BY <1>7, <1>9, <2>2, <2>3, <2>4, <2>5, <2>6, Keeps DEF Track
<1>10. ASSUME Done PROVE Follows /\ Rangers'
  <2>1. GoStep(seen, Now') BY <1>4, <1>10 DEF Done
  <2>2. NoneCommitted' BY <1>1, <1>10 DEF Done, NoneCommitted, Watched, TypeOK
  <2>3. \A t \in Procs : ~Started(t)
    BY <1>10 DEF Done, NoneCommitted, Started, Acts, Polls, Answered, Answering, CommittedChannel
  <2>4. Rangers' BY <1>3, <1>6, <2>3, RangersStay DEF Watched, Seen
  <2> QED BY <2>1, <2>2, <2>4, Lands
<1>11. ~Unchanged BY <1>1 DEF Unchanged, Quiet, CommittedProcess
<1> QED BY <1>8, <1>9, <1>10, <1>11 DEF Watched, Seen, Track

-----------------------------------------------------------------------------
\* A step that panics.

LEMMA TriggerPanics ==
  ASSUME TypeOK, ~Panicked, Panicked', NEW c \in Chans, NEW op, Triggered(c, op)
  PROVE  op = "send" /\ automaton[c] = "closed"
<1>1. PICK d \in Chans : automaton'[d] = "bad" BY DEF Panicked
<1>2. automaton[d] # "bad" BY DEF Panicked
<1> QED BY <1>1, <1>2 DEF Triggered, Goto, TypeOK

LEMMA ClosedSeen ==
  ASSUME Shape, NEW c \in Chans, automaton[c] = "closed"
  PROVE  c \in Made /\ buffer[c] = -1
<1>1. c \in Made BY DEF Shape
<1>2. PICK ps : SettledAt(c, ps) BY DEF Shape, Rest, Acts, Around
<1> QED BY <1>1, <1>2 DEF SettledAt, Settled, Closed

LEMMA PanicFollows ==
  ASSUME TypeOK, TypeOK', Shape, Seen, ~seen.panicked, ~Panicked, Panicked', Observe, Next
  PROVE  Go!Next /\ seen'.panicked = TRUE
<1>1. seen' = [seen EXCEPT !.panicked = TRUE, !.stmts = stmts'] BY DEF Observe
<1>2. seen \in Views BY DEF Seen
<1>3. seen'.panicked = TRUE BY <1>1, <1>2 DEF Views
<1>4. PICK d \in Chans : automaton'[d] = "bad" /\ automaton[d] # "bad" BY DEF Panicked
<1>5. ASSUME NEW p \in Procs, NEW c \in Made, NEW op \in {"send", "receive"}, SendOrReceive(p, op, c)
      PROVE  Dies(p)
  <2>1. c \in Chans BY DEF Made
  <2>2. op = "send" /\ automaton[c] = "closed"
    BY <1>5, <2>1, TriggerPanics DEF SendOrReceive
  <2>3. /\ Quiet /\ loc[p] = "running" /\ stmts[p] < MaxStmts
        /\ stmts' = [stmts EXCEPT ![p] = @ + 1]
    BY <1>5 DEF SendOrReceive, Start
  <2>4. seen = Now BY <2>3, QuietUnchanged
  <2>5. Begins(seen, p, stmts'[p]) /\ \A q \in Procs : q # p => stmts'[q] = seen.stmts[q]
    BY <2>3, <2>4, NowProc DEF Begins, TypeOK
  <2>6. seen.cap[c] = -1 BY <2>1, <2>2, <2>4, ClosedSeen, NowChan
  <2> QED BY <2>1, <2>5, <2>6 DEF Dies
<1>6. ASSUME NEW p \in Procs, NEW c \in Made, RangeReceive(p, c)
      PROVE  FALSE
  <2>1. c \in Chans BY DEF Made
  <2> QED BY <1>6, <2>1, TriggerPanics DEF RangeReceive
<1>7. ASSUME NEW p \in Procs, NEW c \in Made, CloseChan(p, c)
      PROVE  Dies(p)
  <2>1. c \in Chans BY DEF Made
  <2>2. /\ Quiet /\ loc[p] = "running" /\ stmts[p] < MaxStmts
        /\ stmts' = [stmts EXCEPT ![p] = @ + 1]
    BY <1>7 DEF CloseChan, Start
  <2>3. seen = Now BY <2>2, QuietUnchanged
  <2>4. Begins(seen, p, stmts'[p]) /\ \A q \in Procs : q # p => stmts'[q] = seen.stmts[q]
    BY <2>2, <2>3, NowProc DEF Begins, TypeOK
  <2>5. \/ automaton[c] = "idle" /\ counter[c] > buffer[c]
        \/ automaton[c] = "closed"
    BY <1>4, <1>7, <2>1 DEF CloseChan, Goto, TypeOK
  <2>6. CASE automaton[c] = "closed"
    <3>1. seen.cap[c] = -1 BY <2>1, <2>3, <2>6, ClosedSeen, NowChan
    <3> QED BY <2>1, <2>4, <3>1 DEF Dies
  <2>7. CASE automaton[c] = "idle" /\ counter[c] > buffer[c]
    <3>1. SettledAt(c, {}) BY <2>1, <2>2, QuietRests DEF Rest, Around
    <3>2. Open(buffer[c], Offers("send", c), Offers("receive", c), Content(c))
      <4>1. \A o : Offers(o, c) \ {} = Offers(o, c) OBVIOUS
      <4> QED BY <2>7, <3>1, <4>1 DEF SettledAt, Settled
    <3>3. /\ Counted(counter[c], Offers("send", c), Offers("receive", c), Content(c))
          /\ buffer[c] \in Int /\ counter[c] \in Int
      BY <2>1, ContentCounted DEF TypeOK
    <3>4. Offers("send", c) # {} BY <2>7, <3>2, <3>3, CloseJudges
    <3>5. \A q \in Procs : loc[q] # "select_pass_1" BY <2>2 DEF Quiet, CommittedProcess
    <3>6. PICK q \in Procs : q \in Offers("send", c) BY <3>4 DEF Offers
    <3>7. ~NoOffer(seen, "send", c) BY <2>3, <3>5, <3>6, NowOffers DEF NoOffer
    <3>8. seen.cap[c] >= 0 BY <2>1, <2>3, <2>7, <3>1, Settles, NowChan
    <3> QED BY <2>1, <2>4, <3>7, <3>8 DEF Dies
  <2> QED BY <2>5, <2>6, <2>7
<1>8. ASSUME NEW p \in Procs, NEW i \in DOMAIN cases[p], SelectTrigger(p, i)
      PROVE  Dies(p)
  <2>1. /\ loc[p] = "select_pass_1" /\ Triggered(cases[p][i].ch, cases[p][i].op)
        /\ stmts' = stmts
    BY <1>8 DEF SelectTrigger
  <2>2. Started(p) BY <2>1, PollerStarted
  <2>3. cases[p] \in Seq(Cases) BY DEF TypeOK
  <2>4. cases[p][i] \in Cases BY <2>3
  <2>5. PICK c \in Chans : c = cases[p][i].ch BY <2>4 DEF Cases
  <2>6. cases[p][i].op = "send" /\ automaton[c] = "closed" BY <2>1, <2>5, TriggerPanics
  <2>7. c \in Made /\ buffer[c] = -1 BY <2>6, ClosedSeen
  <2>8. seen.cap[c] = -1
    BY <2>2, <2>7, NowChan DEF Started, SameChans, SameChan
  <2>9. cases[p] \in Lists /\ kind[p] \in Kinds /\ Statement(seen, cases[p], kind[p])
    BY <2>2, StartedStatement
  <2>10. Begins(seen, p, stmts'[p]) /\ \A q \in Procs : q # p => stmts'[q] = seen.stmts[q]
    BY <2>1, <2>2, NowProc DEF Started, SameProcs, SameProc
  <2> QED BY <2>5, <2>6, <2>8, <2>9, <2>10 DEF Dies
<1>9. \E p \in Procs : Dies(p)
  <2>1. ASSUME NEW p \in Procs, ProcessStep(p) PROVE Dies(p)
    <3>1. ~UNCHANGED automaton BY <1>4
    <3>2. \/ \E c \in Made : \/ \E op \in {"send", "receive"} : SendOrReceive(p, op, c)
                             \/ RangeReceive(p, c) \/ CloseChan(p, c)
          \/ \E i \in DOMAIN cases[p] : SelectTrigger(p, i)
      BY <2>1, <3>1 DEF ProcessStep, MakeChan, EnterSelect, SelectDefault, SelectBlock,
                        RangeDecide, chanVars
    <3> QED BY <1>5, <1>6, <1>7, <1>8, <3>2
  <2>2. ASSUME NEW c \in Chans, ChannelStep(c) PROVE FALSE
    <3>1. \E from, to : Goto(c, from, to) /\ to \in {"idle", "confirming_a", "confirming_b", "closing", "closed"}
      BY <2>2 DEF ChannelStep, NewSenderBlocks, NewSenderConfirmed, SentToBuffer,
         SentToReceiver, NewReceiverBlocks, NewReceiverConfirmed, ReceivedFromBuffer,
         ReceivedAndRefilled, ReleaseReceiver, FinishClosing, ReceiveFromClosed
    <3> QED BY <1>4, <3>1 DEF Goto, TypeOK
  <2> QED BY <2>1, <2>2 DEF Next
<1> QED BY <1>1, <1>2, <1>3, <1>9, GoPanics

-----------------------------------------------------------------------------
\* The invariant and the theorem.

LEMMA InitRefines == RInit => RInv /\ Go!Init
<1> SUFFICES ASSUME RInit PROVE RInv /\ Go!Init OBVIOUS
<1>1. Init /\ seen = Observed BY DEF RInit
<1>2. TypeOK /\ Shape BY <1>1, InitType, InitShape
<1>3. /\ chanCount = 0 /\ \A c \in Chans : automaton[c] = "idle" /\ counter[c] = 0
      /\ \A p \in Procs : loc[p] = "running"
      /\ outcome = [p \in Procs |-> NoOutcome] /\ stmts = [p \in Procs |-> 0]
  BY <1>1 DEF Init
<1>4. Quiet /\ ~Panicked
  BY <1>3 DEF Quiet, Panicked, CommittedChannel, CommittedProcess
<1>5. seen = Now BY <1>1, <1>2, <1>4, ObservedIsNow
<1>6. \A c \in Chans : Content(c) = 0
  <2>1. \A op, c : Offers(op, c) = {} BY <1>3 DEF Offers, Offering
  <2>2. Cardinality({}) = 0 BY FS_EmptySet
  <2>3. \A c \in Chans : Content(c) = 0 - 0 + 0 BY <1>3, <2>1, <2>2 DEF Content
  <2> QED BY <2>3
<1>7. Made = {} BY <1>3, ConstantsAssumption DEF Made, Chans
<1>8. /\ Now.cap = [c \in Chans |-> -2] /\ Now.len = [c \in Chans |-> 0]
      /\ Now.blocked = [p \in Procs |-> <<>>] /\ Now.ranging = {}
      /\ Now.outcome = [p \in Procs |-> NoOutcome] /\ Now.stmts = [p \in Procs |-> 0]
      /\ Now.panicked = FALSE
  <2>1. \A p \in Procs : ~Waiting(p) /\ Out(p) = NoOutcome BY <1>3 DEF Waiting, Out
  <2> QED BY <1>3, <1>6, <1>7, <2>1 DEF Now
<1>9. Go!Init
  BY <1>5, <1>8 DEF Go!Init, Go!NotMade, Go!NoOutcome, NoOutcome
<1>10. Seen
  <2>1. seen \in Views BY <1>2, <1>5, NowTyped
  <2>2. Fresh(seen) BY <1>5, <1>8 DEF Fresh
  <2>3. Rangers BY <1>3 DEF Rangers, Ranger
  <2> QED BY <1>4, <1>5, <2>1, <2>2, <2>3 DEF Seen, Track, Unchanged
<1> QED BY <1>2, <1>4, <1>9, <1>10 DEF RInv

LEMMA StutterRefines ==
  ASSUME MenusDistinct, RInv, UNCHANGED <<vars, seen>>
  PROVE  RInv'
<1>1. UNCHANGED <<chanCount, outOfResources, counter, buffer, automaton, loc, kind, cases,
                  armed, ok, outcome, stmts, seen>>
  BY DEF vars, chanVars, procVars
<1>2. TypeOK' BY StepType DEF RInv
<1>3. CASE seen.panicked BY <1>1, <1>2, <1>3 DEF RInv
<1>4. CASE ~seen.panicked
  <2>1. ~Panicked /\ Shape /\ Seen BY <1>4 DEF RInv
  <2>2. ~Panicked' BY <1>1, <2>1 DEF Panicked
  <2>3. Shape' BY <2>1, <2>2, StepInv DEF Inv, RInv
  <2>4. \A o, d : Offers(o, d)' = Offers(o, d) BY <1>1 DEF Offers, Offering
  <2>5. \A d : Content(d)' = Content(d) BY <1>1, <2>4 DEF Content
  <2>6. Now' = Now BY <1>1, <2>5 DEF Now, Made, Waiting, Out
  <2>7. \A p \in Procs : Acts(p) => Acts(p)'
    BY <1>1, <2>4, <2>5 DEF Acts, Polls, Answered, Around, SettledAt, Ready
  <2>8. \A p, c : Answered(p, c)' => Answered(p, c) BY <1>1 DEF Answered
  <2>9. \A p \in Procs : Started(p) => Started(p)' BY <1>1, <2>6, <2>7, <2>8 DEF Started
  <2>10. Unchanged => Unchanged' BY <1>1, <2>6 DEF Unchanged, Quiet
  <2>11. Done => Done' BY <1>1, <2>6 DEF Done, Quiet, NoneCommitted
  <2>12. \A c \in Chans : /\ Sending(c) => Sending(c)'
                          /\ Receiving(c) => Receiving(c)'
                          /\ \A p \in Procs : Closing(c, p) => Closing(c, p)'
    <3>1. \A c, p, m, k, i, op, v : Confirmed(c, p, m, k, i, op, v) => Confirmed(c, p, m, k, i, op, v)'
      BY <1>1, <2>6 DEF Confirmed
    <3>2. automaton' = automaton /\ Now' = Now /\ seen' = seen BY <1>1, <2>6
    <3> SUFFICES ASSUME NEW c \in Chans
                 PROVE  /\ Sending(c) => Sending(c)'
                        /\ Receiving(c) => Receiving(c)'
                        /\ \A p \in Procs : Closing(c, p) => Closing(c, p)'
      OBVIOUS
    <3>3. ASSUME Sending(c) PROVE Sending(c)'
      <4>1. PICK p \in Procs, m \in Lists, k \in Kinds :
              \E i \in DOMAIN m : Confirmed(c, p, m, k, i, "send", i)
        BY <3>3 DEF Sending
      <4>2. \E i \in DOMAIN m : Confirmed(c, p, m, k, i, "send", i)' BY <3>1, <4>1
      <4> QED BY <3>2, <3>3, <4>2 DEF Sending
    <3>4. ASSUME Receiving(c) PROVE Receiving(c)'
      <4>1. PICK p \in Procs, m \in Lists, k \in Kinds :
              \E i \in DOMAIN m : Confirmed(c, p, m, k, i, "receive", EndOf(k = "range", i, TRUE))
        BY <3>4 DEF Receiving
      <4>2. \E i \in DOMAIN m : Confirmed(c, p, m, k, i, "receive", EndOf(k = "range", i, TRUE))'
        BY <3>1, <4>1
      <4> QED BY <3>2, <3>4, <4>2 DEF Receiving
    <3>5. ASSUME NEW p \in Procs, Closing(c, p) PROVE Closing(c, p)'
      BY <3>2, <3>5 DEF Closing
    <3> QED BY <3>3, <3>4, <3>5
  <2>13. Track' BY <2>1, <2>9, <2>10, <2>11, <2>12 DEF Seen, Track
  <2>14. Rangers' BY <1>1, <2>1, <2>9 DEF Seen, Rangers, Ranger
  <2>15. Seen' BY <1>1, <2>1, <2>13, <2>14 DEF Seen, Fresh
  <2> QED BY <1>2, <2>2, <2>3, <2>15 DEF RInv
<1> QED BY <1>3, <1>4

LEMMA WatchedFollows ==
  ASSUME MenusDistinct, Watched, Next
  PROVE  Follows /\ Rangers'
<1>1. ASSUME NEW p \in Procs, ProcessStep(p) PROVE Follows /\ Rangers'
  <2>1. CASE \E n \in BufferSizes : MakeChan(p, n) BY <2>1, MakeFollows
  <2>2. CASE \E c \in Made : \/ \E op \in {"send", "receive"} : SendOrReceive(p, op, c)
                             \/ RangeReceive(p, c)
    BY <2>2, OperationFollows
  <2>3. CASE \E c \in Made : CloseChan(p, c) BY <2>3, CloseFollows
  <2>4. CASE \E menu \in Menus, k \in {"select", "select_default"} :
               (\A i \in DOMAIN menu : menu[i].ch \in Made) /\ EnterSelect(p, menu, k)
    BY <2>4, EnterSelectFollows
  <2>5. CASE \E i \in DOMAIN cases[p] : SelectTrigger(p, i) BY <2>5, SelectTriggerFollows
  <2>6. CASE SelectDefault(p) BY <2>6, SelectDefaultFollows
  <2>7. CASE SelectBlock(p) BY <2>7, SelectBlockFollows
  <2>8. CASE RangeDecide(p) BY <2>8, DecideFollows
  <2> QED BY <1>1, <2>1, <2>2, <2>3, <2>4, <2>5, <2>6, <2>7, <2>8 DEF ProcessStep
<1>2. ASSUME NEW c \in Chans, ChannelStep(c) PROVE Follows /\ Rangers'
  BY <1>2, NewcomerBlocks, ConfirmedFollows, BufferFollows, PassFollows, ReleaseFollows,
     FinishFollows, ClosedFollows DEF ChannelStep
<1> QED BY <1>1, <1>2 DEF Next

LEMMA StepRefines ==
  ASSUME MenusDistinct, RInv, [RNext]_<<vars, seen>>
  PROVE  RInv' /\ [Go!Next]_(Go!vars)
<1>1. CASE UNCHANGED <<vars, seen>>
  BY <1>1, StutterRefines DEF Go!vars
<1>2. CASE RNext
  <2>1. Next /\ Observe BY <1>2 DEF RNext
  <2>2. TypeOK' BY <2>1, StepType DEF RInv
  <2>3. CASE seen.panicked
    <3>1. seen' = seen BY <2>1, <2>3 DEF Observe
    <3> QED BY <2>2, <2>3, <3>1 DEF RInv, Go!vars
  <2>4. CASE ~seen.panicked
    <3>1. TypeOK /\ ~Panicked /\ Shape /\ Seen BY <2>4 DEF RInv
    <3>2. CASE Panicked'
      <4>1. Go!Next /\ seen'.panicked = TRUE
        BY <2>1, <2>2, <2>4, <3>1, <3>2, PanicFollows
      <4> QED BY <2>2, <4>1 DEF RInv
    <3>3. CASE ~Panicked'
      <4>1. Shape' BY <2>1, <2>2, <3>1, <3>3, StepShape
      <4>2. Watched BY <2>1, <2>2, <2>4, <3>1, <3>3, <4>1 DEF Watched
      <4>3. Follows /\ Rangers' BY <2>1, <4>2, WatchedFollows
      <4>4. Seen' BY <4>3 DEF Follows, Seen
      <4> QED BY <2>2, <3>3, <4>1, <4>3, <4>4 DEF Follows, RInv
    <3> QED BY <3>2, <3>3
  <2> QED BY <2>3, <2>4
<1> QED BY <1>1, <1>2 DEF RNext

\* With at most one case per channel in a select, every macro step of the network is one
\* channel operation of the Go language with the outcome Go gives it, for any number of
\* processes, handles and statements.
THEOREM NetworkImplementsGo == MenusDistinct => (RSpec => ImplementsGoChannels)
<1> SUFFICES ASSUME MenusDistinct
             PROVE  RSpec => ImplementsGoChannels
  OBVIOUS
<1>1. RInit => RInv /\ Go!Init BY InitRefines
<1>2. RInv /\ [RNext]_<<vars, seen>> => RInv' /\ [Go!Next]_(Go!vars) BY StepRefines
<1> QED BY <1>1, <1>2, PTL DEF RSpec, ImplementsGoChannels, Go!Spec
=============================================================================
