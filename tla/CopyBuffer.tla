------------------------------ MODULE CopyBuffer ------------------------------
(***************************************************************************)
(* CopyBuffer of src/rd-std/src/context/connect_udp.rs as a value: a pool  *)
(* of spare PacketBuffers and a queue of those in use.  A packet is its    *)
(* number (1, 2, ...); a slot of the queue that is not filled holds None.  *)
(***************************************************************************)
EXTENDS Integers, Sequences

CONSTANTS
    BufferSize,     \* PacketBuffers a CopyBuffer starts with
    MaxBufferSize   \* the most it may have

ASSUME BufferAssumption ==
    /\ BufferSize \in Nat \ {0}
    /\ MaxBufferSize \in Nat
    /\ BufferSize <= MaxBufferSize

None == 0

NewBuffer == [pool |-> BufferSize, queue |-> <<>>]

Smaller(i, j) == IF i < j THEN i ELSE j

\* When all buffers are in use their number is doubled, up to the maximum.
grow(c) ==
    [pool |-> IF c.pool = 0
                THEN Smaller(MaxBufferSize, Len(c.queue) * 2) - Len(c.queue)
                ELSE c.pool,
     queue |-> c.queue]

\* The last slot is there to be filled.
HasBack(c) == c.queue # <<>> /\ c.queue[Len(c.queue)] = None

\* borrow_back: an unfilled slot at the end, if a buffer can be had for it.
borrow_back(c) ==
    IF HasBack(c) THEN c
    ELSE LET g == grow(c) IN
         IF g.pool = 0 THEN g
         ELSE [pool |-> g.pool - 1, queue |-> Append(g.queue, None)]

\* packet.filled = Some(..) on the slot that borrow_back gave.
fill(c, p) == [pool |-> c.pool, queue |-> [c.queue EXCEPT ![Len(c.queue)] = p]]

\* The first slot holds a packet to send.
HasFront(c) == c.queue # <<>> /\ Head(c.queue) # None

pop_front(c) == [pool |-> c.pool + 1, queue |-> Tail(c.queue)]
=============================================================================
