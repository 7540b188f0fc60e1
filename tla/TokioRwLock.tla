------------------------------ MODULE TokioRwLock ------------------------------
(***************************************************************************)
(* tokio::sync::RwLock, as rabbit_digger.rs and running.rs use it: a fair  *)
(* lock whose waiters are served in the order in which they came, so a     *)
(* waiting writer holds up the readers behind it.  A lock is a record; a   *)
(* future that is dropped leaves the queue or gives its guard back.        *)
(***************************************************************************)
EXTENDS Integers, Sequences

FreeLock == [queue |-> <<>>, held |-> {}]

Wait(l, p, m) ==
    [queue |-> Append(l.queue, [who |-> p, mode |-> m]), held |-> l.held]

IsWaiting(l, p) == \E i \in 1..Len(l.queue) : l.queue[i].who = p

\* The request of p is first in line and compatible with the guards out.
CanAcquire(l, p) ==
    /\ l.queue # <<>>
    /\ Head(l.queue).who = p
    /\ IF Head(l.queue).mode = "w" THEN l.held = {}
       ELSE \A h \in l.held : h.mode = "r"

Acquired(l) == [queue |-> Tail(l.queue), held |-> l.held \cup {Head(l.queue)}]

Released(l, p) ==
    [queue |-> l.queue, held |-> {h \in l.held : h.who # p}]

\* The queue without the request of p, if it has one.
Without(q, p) ==
    IF \E i \in 1..Len(q) : q[i].who = p
      THEN LET i == CHOOSE j \in 1..Len(q) : q[j].who = p
           IN  SubSeq(q, 1, i - 1) \o SubSeq(q, i + 1, Len(q))
      ELSE q

\* The future of p, which waits for the lock or has it, is dropped.
Forgotten(l, p) ==
    [queue |-> Without(l.queue, p), held |-> {h \in l.held : h.who # p}]
=============================================================================
