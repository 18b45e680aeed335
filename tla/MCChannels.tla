----------------------------- MODULE MCChannels -----------------------------
EXTENDS ChannelsRefinement, TLC

Snd(c) == [op |-> "send", ch |-> c]
Rcv(c) == [op |-> "receive", ch |-> c]

\* Select statements whose cases use different channels.
DistinctMenus == {<<Snd(0), Rcv(1)>>, <<Rcv(0), Rcv(1)>>, <<Snd(0), Snd(1)>>}

\* The search stops where the channel safety query already has its counterexample.
BeforePanic == ~seen.panicked

ProcSymmetry == Permutations(Procs)
=============================================================================
