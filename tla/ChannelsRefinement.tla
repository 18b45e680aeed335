------------------------- MODULE ChannelsRefinement -------------------------
(***************************************************************************)
(* The network of channel automata implements Go's atomic channels. One Go *)
(* operation is a macro step of the network, so what an observer sees is   *)
(* the state at the last moment no process was in a committed location;    *)
(* the history variable seen keeps it.                                     *)
(***************************************************************************)
EXTENDS Channels

VARIABLE seen

Waiting(p) == loc[p] = "waiting"

\* The abstract state of a quiet state.
Observed ==
    [cap      |-> [c \in Chans |-> IF c \in Made THEN buffer[c] ELSE -2],
     len      |-> [c \in Chans |-> Buffered(c)],
     blocked  |-> [p \in Procs |-> IF Waiting(p) THEN cases[p] ELSE <<>>],
     ranging  |-> {p \in Procs : Waiting(p) /\ kind[p] = "range"},
     outcome  |-> outcome,
     stmts    |-> stmts,
     panicked |-> Panicked]

RInit == Init /\ seen = Observed

\* What follows a panic is not observed: of the panicking step only the statement
\* count and the panic itself.
Observe ==
    seen' = CASE seen.panicked -> seen
              [] ~seen.panicked /\ Panicked' ->
                   [seen EXCEPT !.panicked = TRUE, !.stmts = stmts']
              [] ~seen.panicked /\ ~Panicked' /\ Quiet' -> Observed'
              [] OTHER -> seen

RNext == Next /\ Observe
RSpec == RInit /\ [][RNext]_<<vars, seen>>

Go == INSTANCE GoChannels WITH
        cap <- seen.cap, len <- seen.len, blocked <- seen.blocked,
        ranging <- seen.ranging, outcome <- seen.outcome, stmts <- seen.stmts,
        panicked <- seen.panicked

\* Every macro step of the network is one Go channel operation with the outcome Go gives
\* it: the case a select takes, whether it takes its default, who is released by whom, when
\* a range loop ends and when the program panics.
ImplementsGoChannels == Go!Spec
=============================================================================
