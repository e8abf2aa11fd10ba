----------------------------- MODULE MCExchange -----------------------------
(* Model values and symmetry for the runs of Exchange. *)
EXTENDS Exchange, TLC

\* Connections of the same protocol with the same abilities are alike.
ConnSymmetry ==
    {p \in Permutations(Conns) :
        \A S \in {RtmpConns, Publishers, Players} : {p[c] : c \in S} = S}

\* A run about one stream: no second publisher.
OnePublisher == Cardinality({r \in Regs : kind[r] = "source"}) <= 1

\* All goroutines are finished and nothing is left to handle.
Terminated ==
    \/ ~Running
    \/ /\ \A c \in Conns : pc[c] = "done"
       /\ pair = Receiving /\ pipe = <<>>
       /\ \A r \in Regs : work[r].at \in {"off", "quit"} /\ sinkWork[r] # "run"

\* Termination is the only state in which nothing can happen.
MCNext == Next \/ (Terminated /\ UNCHANGED vars)
MCSpec == Init /\ [][MCNext]_vars
=============================================================================
