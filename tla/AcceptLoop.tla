----------------------------- MODULE AcceptLoop -----------------------------
(***************************************************************************)
(* The server process: main starts one listener for rtmp in a goroutine    *)
(* and runs the one for rtmps itself.  Serve accepts a connection, reads   *)
(* its first byte to tell flv from rtmp, and only then starts the          *)
(* goroutine that serves it.  On the rtmps listener that read runs the TLS *)
(* handshake first.                                                        *)
(***************************************************************************)
EXTENDS Integers, Sequences, SequencesExt

CONSTANTS
    Listeners,     \* "rtmp" and "rtmps"
    Peers,         \* connections
    MaxFailures    \* MaxFailures[l]: bound on the failures of Accept in a row

ASSUME AcceptAssumption ==
    /\ Listeners \subseteq {"rtmp", "rtmps"}
    /\ MaxFailures \in [Listeners -> Nat]

VARIABLES
    process,    \* "up" or "down"
    phase,      \* where Serve is: "accept", "sniff", "sleep" or "returned"
    tempDelay,  \* of each Serve, in milliseconds
    queue,      \* connections the kernel holds for each listener
    current,    \* the connection whose first byte Serve waits for
    peer,       \* "away", "silent", "sent" its first byte, "garbled": sent the
                \* rtmps listener bytes that are no TLS handshake, or "gone"
    served,     \* connections whose goroutine was started
    failures    \* failures of Accept since it last returned a connection

vars == <<process, phase, tempDelay, queue, current, peer, served, failures>>

Nobody == "nobody"

Init ==
    /\ process = "up"
    /\ phase = [l \in Listeners |-> "accept"]
    /\ tempDelay = [l \in Listeners |-> 0]
    /\ queue = [l \in Listeners |-> <<>>]
    /\ current = [l \in Listeners |-> Nobody]
    /\ peer = [p \in Peers |-> "away"]
    /\ served = {}
    /\ failures = [l \in Listeners |-> 0]

(***************************************************************************)
(* The peers.                                                              *)
(***************************************************************************)
Connect(p, l) ==
    /\ process = "up" /\ phase[l] # "returned" /\ peer[p] = "away"
    /\ queue' = [queue EXCEPT ![l] = Append(@, p)]
    /\ peer' = [peer EXCEPT ![p] = "silent"]
    /\ UNCHANGED <<process, phase, tempDelay, current, served, failures>>

SendByte(p) ==
    /\ peer[p] = "silent"
    /\ peer' = [peer EXCEPT ![p] = "sent"]
    /\ UNCHANGED <<process, phase, tempDelay, queue, current, served, failures>>

SendGarbage(p, l) ==
    /\ l = "rtmps" /\ p \in Range(queue[l]) \cup {current[l]}
    /\ peer[p] = "silent"
    /\ peer' = [peer EXCEPT ![p] = "garbled"]
    /\ UNCHANGED <<process, phase, tempDelay, queue, current, served, failures>>

\* A peer that closes without having sent anything.
Leave(p) ==
    /\ peer[p] = "silent"
    /\ peer' = [peer EXCEPT ![p] = "gone"]
    /\ UNCHANGED <<process, phase, tempDelay, queue, current, served, failures>>

(***************************************************************************)
(* Serve.                                                                  *)
(***************************************************************************)
Accept(l) ==
    /\ process = "up" /\ phase[l] = "accept" /\ queue[l] # <<>>
    /\ current' = [current EXCEPT ![l] = Head(queue[l])]
    /\ queue' = [queue EXCEPT ![l] = Tail(@)]
    /\ phase' = [phase EXCEPT ![l] = "sniff"]
    /\ tempDelay' = [tempDelay EXCEPT ![l] = 0]
    /\ failures' = [failures EXCEPT ![l] = 0]
    /\ UNCHANGED <<process, peer, served>>

\* 5 ms, doubled at every further failure up to a second.
BackOff(delay) ==
    LET next == IF delay = 0 THEN 5 ELSE 2 * delay
    IN IF next > 1000 THEN 1000 ELSE next

AcceptFails(l) ==
    /\ process = "up" /\ phase[l] = "accept" /\ failures[l] < MaxFailures[l]
    /\ tempDelay' = [tempDelay EXCEPT ![l] = BackOff(@)]
    /\ failures' = [failures EXCEPT ![l] = @ + 1]
    /\ phase' = [phase EXCEPT ![l] = "sleep"]
    /\ UNCHANGED <<process, queue, current, peer, served>>

Wake(l) ==
    /\ process = "up" /\ phase[l] = "sleep"
    /\ phase' = [phase EXCEPT ![l] = "accept"]
    /\ UNCHANGED <<process, tempDelay, queue, current, peer, served, failures>>

\* main ends, and the process with it, when startRTMPS returns.
MainReturns(l) == l = "rtmps"

\* Another error of Accept, or of the steps before Serve: the certificate
\* cannot be loaded, the port is taken.
Return(l) ==
    /\ process = "up" /\ phase[l] = "accept"
    /\ phase' = [phase EXCEPT ![l] = "returned"]
    /\ process' = IF MainReturns(l) THEN "down" ELSE "up"
    /\ UNCHANGED <<tempDelay, queue, current, peer, served, failures>>

\* Mutant: the connection is served on the accepting goroutine.
MutServe(l) ==
    /\ process = "up" /\ phase[l] = "sniff" /\ peer[current[l]] = "sent"
    /\ served' = served \cup {current[l]}
    /\ UNCHANGED <<process, phase, current, tempDelay, queue, peer, failures>>

\* NewConn has the byte; the connection gets its goroutine.
Serve(l) ==
    /\ process = "up" /\ phase[l] = "sniff" /\ peer[current[l]] = "sent"
    /\ served' = served \cup {current[l]}
    /\ current' = [current EXCEPT ![l] = Nobody]
    /\ phase' = [phase EXCEPT ![l] = "accept"]
    /\ UNCHANGED <<process, tempDelay, queue, peer, failures>>

\* The read, or the TLS handshake it runs, fails: NewConn returns a nil *conn,
\* and Serve closes that.
NewConnFails(l) ==
    /\ process = "up" /\ phase[l] = "sniff" /\ peer[current[l]] \in {"gone", "garbled"}
    /\ process' = "down"
    /\ UNCHANGED <<phase, tempDelay, queue, current, peer, served, failures>>

ServeStep(l) == Accept(l) \/ Wake(l) \/ Serve(l) \/ NewConnFails(l)

Next ==
    \/ \E p \in Peers :
        \/ \E l \in Listeners : Connect(p, l) \/ SendGarbage(p, l)
        \/ SendByte(p)
        \/ Leave(p)
    \/ \E l \in Listeners : ServeStep(l) \/ AcceptFails(l) \/ Return(l)

\* Each Serve keeps running; that peers send anything is not assumed.
Spec == Init /\ [][Next]_vars /\ \A l \in Listeners : WF_vars(ServeStep(l))

(***************************************************************************)
(* Properties.                                                             *)
(***************************************************************************)
\* The first byte is read on the goroutine that accepts: a listener is held up
\* by the connection it sniffs as long as that peer says nothing.
HeldUp(l) == phase[l] = "sniff" /\ peer[current[l]] = "silent"

\* What ends the process: a peer that came and went without a byte, one that
\* does not speak TLS to the listener that asks for it, or the rtmps listener
\* giving up; that the rtmp listener gives up does not.
EndsForAReason ==
    \/ \E l \in Listeners : phase[l] = "sniff" /\ peer[current[l]] \in {"gone", "garbled"}
    \/ phase["rtmps"] = "returned"

\* A peer that sent its first byte is served in the end, whatever other peers
\* do and however often Accept fails for a while, unless from some time on one
\* silent peer holds its own listener up for ever, that listener gave up, or the
\* process ended for a reason; the other listener's troubles, and a peer that is
\* only slow, never keep it waiting.
TalkerServed ==
    \A p \in Peers, l \in Listeners :
        \/ p \in Range(queue[l]) /\ peer[p] = "sent"
               ~> \/ p \in served
                  \/ phase[l] = "returned"
                  \/ process = "down" /\ EndsForAReason
        \/ <>[]HeldUp(l)
=============================================================================
