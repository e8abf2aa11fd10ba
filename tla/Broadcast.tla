----------------------------- MODULE Broadcast ------------------------------
(***************************************************************************)
(* What the exchanger promises a player: when it joins a stream it is sent *)
(* the newest video and the newest audio configuration the stream has had, *)
(* then every message from there on, in order, until it leaves.            *)
(***************************************************************************)
EXTENDS Integers, Sequences

CONSTANTS Streams,  \* identities of sources, and of sinks
          Nobody,   \* what feeds a sink that has not joined or has left
          Kinds, MaxPuts

VARIABLES
    log,    \* log[r]: the kinds of the messages stream r accepted
    done,   \* done[r]: how many of them have been broadcast
    feed,   \* feed[s]: the stream sink s has joined
    pos,    \* pos[s]: how many messages of it s has been served
    got     \* got[s]: everything s was sent

bvars == <<log, done, feed, pos, got>>

BInit ==
    /\ log = [r \in Streams |-> <<>>]
    /\ done = [r \in Streams |-> 0]
    /\ feed = [s \in Streams |-> Nobody]
    /\ pos = [s \in Streams |-> 0]
    /\ got = [s \in Streams |-> <<>>]

Accept(r, kd) ==
    /\ Len(log[r]) < MaxPuts
    /\ log' = [log EXCEPT ![r] = Append(@, kd)]
    /\ UNCHANGED <<done, feed, pos, got>>

\* The next message is broadcast.
Advance(r) ==
    /\ done[r] < Len(log[r])
    /\ done' = [done EXCEPT ![r] = @ + 1]
    /\ UNCHANGED <<log, feed, pos, got>>

\* The newest message of kind kd among those broadcast.
Newest(r, kd) ==
    LET of == {n \in 1 .. done[r] : log[r][n] = kd} IN
    IF of = {} THEN <<>>
    ELSE <<[src |-> r, cached |-> TRUE,
            n |-> CHOOSE n \in of : \A l \in of : l <= n]>>

Join(s, r) ==
    /\ feed[s] = Nobody /\ got[s] = <<>>
    /\ feed' = [feed EXCEPT ![s] = r]
    /\ pos' = [pos EXCEPT ![s] = done[r]]
    /\ got' = [got EXCEPT ![s] = Newest(r, "vcfg") \o Newest(r, "acfg")]
    /\ UNCHANGED <<log, done>>

Serve(s) ==
    /\ feed[s] # Nobody
    /\ pos[s] < done[feed[s]]
    /\ pos' = [pos EXCEPT ![s] = @ + 1]
    /\ got' = [got EXCEPT ![s] =
                 Append(@, [src |-> feed[s], n |-> pos[s] + 1, cached |-> FALSE])]
    /\ UNCHANGED <<log, done, feed>>

Leave(s) ==
    /\ feed[s] # Nobody
    /\ feed' = [feed EXCEPT ![s] = Nobody]
    /\ pos' = [pos EXCEPT ![s] = 0]
    /\ UNCHANGED <<log, done, got>>

BNext ==
    \/ \E r \in Streams : Advance(r) \/ \E kd \in Kinds : Accept(r, kd)
    \/ \E s \in Streams : Serve(s) \/ Leave(s) \/ \E r \in Streams : Join(s, r)

Spec == BInit /\ [][BNext]_bvars

=============================================================================
