-------------------------------- MODULE UdpPipe --------------------------------
(***************************************************************************)
(* What connect_udp promises: in each direction a first-in first-out pipe  *)
(* that holds at most Capacity packets and sends on every packet it takes  *)
(* once, in order, until the relay ends; in the directions of Twice the    *)
(* first packet may go out a second time, ahead of the others.             *)
(***************************************************************************)
EXTENDS Integers

CONSTANTS Dirs, Capacity, Twice

VARIABLES
    taken,      \* packets taken in, numbered 1, 2, ...
    done,       \* packets done with
    sent,       \* packets sent on, the repeated one included
    last        \* the packet sent on last

vars == <<taken, done, sent, last>>

Init ==
    /\ taken = [d \in Dirs |-> 0]
    /\ done = [d \in Dirs |-> 0]
    /\ sent = [d \in Dirs |-> 0]
    /\ last = [d \in Dirs |-> 0]

Take(d) ==
    /\ taken[d] - done[d] < Capacity
    /\ taken' = [taken EXCEPT ![d] = @ + 1]
    /\ UNCHANGED <<done, sent, last>>

Deliver(d) ==
    /\ done[d] < taken[d]
    /\ done' = [done EXCEPT ![d] = @ + 1]
    /\ sent' = [sent EXCEPT ![d] = @ + 1]
    /\ last' = [last EXCEPT ![d] = done[d] + 1]
    /\ UNCHANGED taken

\* The first packet goes out once more than it is done with.
Ahead(d) ==
    /\ d \in Twice
    /\ sent[d] = 0 /\ taken[d] > 0
    /\ sent' = [sent EXCEPT ![d] = 1]
    /\ last' = [last EXCEPT ![d] = 1]
    /\ UNCHANGED <<taken, done>>

Next == \E d \in Dirs : Take(d) \/ Deliver(d) \/ Ahead(d)

Spec == Init /\ [][Next]_vars
=============================================================================
