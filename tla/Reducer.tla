------------------------------ MODULE Reducer -------------------------------
(* The optimizers of the network (uppaal/optimizer/): ReduceStates removes a  *)
(* state by combining each of its incoming with each of its outgoing edges,   *)
(* ReduceTransitions removes duplicate edges.                                 *)
EXTENDS Translator

Outgoing(edges, s) == SelectSeq(edges, LAMBDA e : e.from = s)
Incoming(edges, s) == SelectSeq(edges, LAMBDA e : e.to = s)

\* The states reachable from the initial one, breadth first.
RECURSIVE SortedStates(_, _, _)
SortedStates(edges, queue, seen) ==
    IF queue = <<>> THEN <<>>
    ELSE LET out == Outgoing(edges, Head(queue))
             children == FoldLeft(LAMBDA cs, e : IF e.to \in seen \/ Contains(cs, e.to) THEN cs
                                                 ELSE Append(cs, e.to), <<>>, out)
         IN  <<Head(queue)>> \o SortedStates(edges, Tail(queue) \o children,
                                             seen \union ToSet(children))

\* Mutant of CanCombine: the restriction to one access of globals is dropped.
CombinesAnything(in, out) ==
    /\ ~\E i \in DOMAIN in, j \in DOMAIN out :
          (in[i].sync # NoSync \/ in[i].upd # <<>>) /\ out[j].guard # {}
    /\ ~\E i \in DOMAIN in, j \in DOMAIN out : in[i].upd # <<>> /\ out[j].sync # NoSync

\* Mutant of CanCombine: an update may come before a guard.
CombinesUpdatesWithGuards(in, out) ==
    /\ ~\E i \in DOMAIN in, j \in DOMAIN out : in[i].glob /\ out[j].glob
    /\ ~\E i \in DOMAIN in, j \in DOMAIN out : in[i].upd # <<>> /\ out[j].sync # NoSync

\* At most one access of globals, and guards and synchronisations stay before updates.
CanCombine(in, out) ==
    /\ ~\E i \in DOMAIN in, j \in DOMAIN out : in[i].glob /\ out[j].glob
    /\ ~\E i \in DOMAIN in, j \in DOMAIN out :
          (in[i].sync # NoSync \/ in[i].upd # <<>>) /\ out[j].guard # {}
    /\ ~\E i \in DOMAIN in, j \in DOMAIN out : in[i].upd # <<>> /\ out[j].sync # NoSync

CanRemove(edges, s) ==
    LET in == Incoming(edges, s)
        out == Outgoing(edges, s)
    IN  /\ s # Frame("starting")
        /\ ~IsCommitted(s)
        /\ \A i \in DOMAIN in : in[i].from # s /\ ~IsCommitted(in[i].from)
        /\ \A i \in DOMAIN out : ~IsCommitted(out[i].to)
        /\ out # <<>>
        /\ CanCombine(in, out)

Combine(a, b) ==
    [from |-> a.from, to |-> b.to,
     guard |-> a.guard \union b.guard,
     sync |-> IF a.sync # NoSync THEN a.sync ELSE b.sync,
     upd |-> a.upd \o b.upd,
     ev |-> a.ev \o b.ev,
     glob |-> a.glob \/ b.glob]

removeStateIfPossible(edges, s) ==
    IF ~CanRemove(edges, s) THEN edges
    ELSE LET in == Incoming(edges, s)
             out == Outgoing(edges, s)
         IN  SelectSeq(edges, LAMBDA e : e.from # s /\ e.to # s)
             \o FlattenSeq([i \in DOMAIN in |-> [j \in DOMAIN out |-> Combine(in[i], out[j])]])

reduceStatesInProcess(edges) ==
    FoldLeft(removeStateIfPossible, edges,
             SortedStates(edges, <<Frame("starting")>>, {Frame("starting")}))

SameTransition(e, f) ==
    /\ e.from = f.from /\ e.to = f.to
    /\ e.guard = f.guard /\ e.sync = f.sync /\ e.upd = f.upd

reduceTransitionsInProcess(edges) ==
    FoldLeft(LAMBDA kept, e : IF \E i \in DOMAIN kept : SameTransition(kept[i], e) THEN kept
                              ELSE Append(kept, e), <<>>, edges)
=============================================================================
