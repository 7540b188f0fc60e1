-------------------------- MODULE RunningServerProofs --------------------------
(***************************************************************************)
(* RunningServer for any set of callers: the lock and the program counters *)
(* agree, stop and join come back only after the task has ended, the       *)
(* result is taken once, and the server implements ServerLifecycle.        *)
(*                                                                         *)
(* The argument is mutual exclusion.  A caller that awaits the handle has  *)
(* the write guard, one that awaits the semaphore a read guard, so nobody  *)
(* changes the state while somebody relies on it being Running; and every  *)
(* request in the queue belongs to the await its caller is at.             *)
(***************************************************************************)
EXTENDS RunningServer, SequenceTheorems, FiniteSetTheorems, TLAPS

\* Nobody waits twice.
Unique(q) ==
    \A i, j \in 1..Len(q) : q[i].who = q[j].who => i = j

\* The mode in which a caller asks for the lock at its present await.
ModeOf(c) == IF pc[c] \in WritePoints THEN "w" ELSE "r"

QueueInv ==
    /\ Unique(lock.queue)
    /\ \A i \in 1..Len(lock.queue) :
         /\ pc[lock.queue[i].who] \in LockPoints
         /\ lock.queue[i].mode = ModeOf(lock.queue[i].who)

\* The write guard shuts out the holders of all other guards.
Exclusion ==
    \A c, d \in Callers :
      pc[c] = "handle" /\ c # d => pc[d] \notin {"handle", "semaphore"}

\* How far a caller has come and what it may rely on there.
CallerInv(c) ==
    /\ pc[c] # "idle" => starter = "returned"
    /\ pc[c] \in {"semaphore", "handle"} => st = "Running"
    /\ pc[c] \in {"join_write", "handle"} => closed
    /\ pc[c] \in {"returned", "take_write"} => task = "ended"

\* The server apart from its callers.
ServerInv ==
    /\ starter # "returned" => st = "Idle" /\ took = {} /\ ~abort
    /\ starter = "spawn" => task = "none" /\ ~closed
    /\ starter # "spawn" => task # "none"
    /\ starter = "returned" /\ st # "Running" => task = "ended"
    /\ closed => abort \/ task \in {"closing", "ended"}

IInv ==
    /\ TypeOK
    /\ QueueInv
    /\ Exclusion
    /\ \A c \in Callers : CallerInv(c)
    /\ ServerInv

-----------------------------------------------------------------------------
(* The queue of the lock.                                                  *)

\* A new request of somebody who does not wait yet.
LEMMA AppendRequest ==
    ASSUME NEW q \in Seq(Request), NEW e \in Request, Unique(q),
           \A i \in 1..Len(q) : q[i].who # e.who
    PROVE  /\ Append(q, e) \in Seq(Request)
           /\ Unique(Append(q, e))
           /\ \A i \in 1..Len(Append(q, e)) :
                \/ Append(q, e)[i] = e
                \/ \E j \in 1..Len(q) : Append(q, e)[i] = q[j]
  <1>1. /\ Len(q) \in Nat
        /\ Append(q, e) \in Seq(Request)
        /\ Len(Append(q, e)) = Len(q) + 1
        /\ \A i \in 1..Len(q) : Append(q, e)[i] = q[i]
        /\ Append(q, e)[Len(q) + 1] = e
    BY AppendProperties
  <1>2. \A i \in 1..Len(Append(q, e)) : i = Len(q) + 1 \/ i \in 1..Len(q)
    BY <1>1
  <1> QED BY <1>1, <1>2 DEF Unique

\* The first request is served: whoever made it waits no more.
LEMMA TailRequest ==
    ASSUME NEW q \in Seq(Request), q # <<>>, Unique(q)
    PROVE  /\ Head(q) \in Request /\ Head(q) = q[1] /\ 1 \in 1..Len(q)
           /\ Tail(q) \in Seq(Request)
           /\ Unique(Tail(q))
           /\ \A i \in 1..Len(Tail(q)) :
                /\ Tail(q)[i].who # Head(q).who
                /\ \E j \in 1..Len(q) : Tail(q)[i] = q[j]
  <1>1. /\ Len(q) \in Nat /\ Len(q) > 0
        /\ Head(q) \in Request /\ Head(q) = q[1]
        /\ Tail(q) \in Seq(Request)
        /\ Len(Tail(q)) = Len(q) - 1
        /\ \A i \in 1..Len(Tail(q)) : Tail(q)[i] = q[i + 1]
    BY HeadTailProperties, EmptySeq
  <1>2. 1 \in 1..Len(q)
    BY <1>1
  <1>3. \A i \in 1..Len(Tail(q)) :
          i + 1 \in 1..Len(q) /\ i + 1 # 1 /\ Tail(q)[i] = q[i + 1]
    BY <1>1
  <1>4. Unique(Tail(q))
    <2> SUFFICES ASSUME NEW i \in 1..Len(Tail(q)), NEW j \in 1..Len(Tail(q)),
                        Tail(q)[i].who = Tail(q)[j].who
                 PROVE  i = j
      BY DEF Unique
    <2>1. i + 1 = j + 1
      BY <1>3 DEF Unique
    <2> QED BY <2>1
  <1>5. \A i \in 1..Len(Tail(q)) : Tail(q)[i].who # Head(q).who
    BY <1>1, <1>2, <1>3 DEF Unique
  <1> QED BY <1>1, <1>2, <1>3, <1>4, <1>5

\* A dropped future leaves the queue, and the others keep their order.
LEMMA WithoutRequest ==
    ASSUME NEW q \in Seq(Request), NEW p, Unique(q)
    PROVE  /\ Without(q, p) \in Seq(Request)
           /\ Unique(Without(q, p))
           /\ \A i \in 1..Len(Without(q, p)) :
                /\ Without(q, p)[i].who # p
                /\ \E j \in 1..Len(q) : Without(q, p)[i] = q[j]
  <1>1. CASE \A i \in 1..Len(q) : q[i].who # p
    <2>1. Without(q, p) = q
      BY <1>1 DEF Without
    <2> QED BY <1>1, <2>1
  <1>2. CASE \E i \in 1..Len(q) : q[i].who = p
    <2> DEFINE k == CHOOSE j \in 1..Len(q) : q[j].who = p
               a == SubSeq(q, 1, k - 1)
               b == SubSeq(q, k + 1, Len(q))
    <2>1. k \in 1..Len(q) /\ q[k].who = p
      BY <1>2
    <2>2. Without(q, p) = a \o b
      BY <1>2 DEF Without
    <2>3. Len(q) \in Nat /\ k \in Int /\ 1 <= k /\ k <= Len(q)
      BY <2>1
    <2> HIDE DEF k
    <2>4. \A i \in 1..Len(q) : q[i] \in Request
      BY ElementOfSeq
    <2>5. /\ a \in Seq(Request) /\ Len(a) = k - 1
          /\ \A i \in 1..(k - 1) : a[i] = q[i]
      <3>1. \A i \in 1..(k - 1) : q[i] \in Request
        BY <2>3, <2>4
      <3>2. /\ a \in Seq(Request)
            /\ Len(a) = IF 1 <= k - 1 THEN k - 1 - 1 + 1 ELSE 0
            /\ \A i \in 1..(k - 1 - 1 + 1) : a[i] = q[1 + i - 1]
        BY <2>3, <3>1, SubSeqProperties
      <3> QED BY <2>3, <3>2
    <2>6. /\ b \in Seq(Request) /\ Len(b) = Len(q) - k
          /\ \A i \in 1..(Len(q) - k) : b[i] = q[k + i]
      <3>1. \A i \in (k + 1)..Len(q) : q[i] \in Request
        BY <2>3, <2>4
      <3>2. /\ b \in Seq(Request)
            /\ Len(b) = IF k + 1 <= Len(q) THEN Len(q) - (k + 1) + 1 ELSE 0
            /\ \A i \in 1..(Len(q) - (k + 1) + 1) : b[i] = q[k + 1 + i - 1]
        BY <2>3, <3>1, SubSeqProperties
      <3> QED BY <2>3, <3>2
    <2> HIDE DEF a, b
    <2>7. /\ a \o b \in Seq(Request) /\ Len(a \o b) = Len(q) - 1
          /\ \A i \in 1..(Len(q) - 1) :
               (a \o b)[i] = IF i < k THEN q[i] ELSE q[i + 1]
      <3>1. /\ a \o b \in Seq(Request) /\ Len(a \o b) = Len(a) + Len(b)
            /\ \A i \in 1..(Len(a) + Len(b)) :
                 (a \o b)[i] = IF i <= Len(a) THEN a[i] ELSE b[i - Len(a)]
        BY <2>5, <2>6, ConcatProperties
      <3>2. Len(a) + Len(b) = Len(q) - 1
        BY <2>3, <2>5, <2>6
      <3>3. ASSUME NEW i \in 1..(Len(q) - 1)
            PROVE  (a \o b)[i] = IF i < k THEN q[i] ELSE q[i + 1]
        <4>1. CASE i < k
          BY <2>3, <2>5, <3>1, <3>2, <4>1
        <4>2. CASE ~(i < k)
          <5>1. i - Len(a) \in 1..(Len(q) - k) /\ ~(i <= Len(a))
            BY <2>3, <2>5, <4>2
          <5>2. k + (i - Len(a)) = i + 1
            BY <2>3, <2>5
          <5> QED BY <2>6, <3>1, <3>2, <4>2, <5>1, <5>2
        <4> QED BY <4>1, <4>2
      <3> QED BY <3>1, <3>2, <3>3
    <2> DEFINE g(i) == IF i < k THEN i ELSE i + 1
    <2>8. \A i \in 1..(Len(q) - 1) :
            g(i) \in 1..Len(q) /\ g(i) # k /\ (a \o b)[i] = q[g(i)]
      BY <2>3, <2>7
    <2>9. \A i, j \in 1..(Len(q) - 1) : g(i) = g(j) => i = j
      BY <2>3
    <2> HIDE DEF g
    <2>10. Unique(a \o b)
      <3> SUFFICES ASSUME NEW i \in 1..Len(a \o b), NEW j \in 1..Len(a \o b),
                          (a \o b)[i].who = (a \o b)[j].who
                   PROVE  i = j
        BY DEF Unique
      <3>1. i \in 1..(Len(q) - 1) /\ j \in 1..(Len(q) - 1)
        BY <2>7
      <3>2. g(i) = g(j)
        BY <2>8, <3>1 DEF Unique
      <3> QED BY <2>9, <3>1, <3>2
    <2>11. \A i \in 1..(Len(q) - 1) : (a \o b)[i].who # p
      BY <2>1, <2>8 DEF Unique
    <2> QED BY <2>2, <2>7, <2>8, <2>10, <2>11
  <1> QED BY <1>1, <1>2

-----------------------------------------------------------------------------
(* Lock and program counters.                                              *)

\* How the guards change when caller c goes to l.
LEMMA GuardsStep ==
    ASSUME pc \in [Callers -> {"idle", "returned"} \cup AwaitPoints],
           NEW c \in Callers, NEW l, Goto(c, l)
    PROVE  Guards' = {h \in Guards : h.who # c}
                     \cup (IF l = "semaphore" THEN {[who |-> c, mode |-> "r"]}
                           ELSE IF l = "handle" THEN {[who |-> c, mode |-> "w"]}
                           ELSE {})
  <1>1. pc' = [pc EXCEPT ![c] = l]
    BY DEF Goto
  <1>2. /\ \A d \in Callers : pc'[d] = "semaphore" <=>
             (d # c /\ pc[d] = "semaphore") \/ (d = c /\ l = "semaphore")
        /\ \A d \in Callers : pc'[d] = "handle" <=>
             (d # c /\ pc[d] = "handle") \/ (d = c /\ l = "handle")
    BY <1>1
  <1>3. \A h : h \in Guards <=>
          \/ \E d \in Callers : pc[d] = "semaphore" /\ h = [who |-> d, mode |-> "r"]
          \/ \E d \in Callers : pc[d] = "handle" /\ h = [who |-> d, mode |-> "w"]
    BY DEF Guards
  <1>4. \A h : h \in Guards' <=>
          \/ \E d \in Callers : pc'[d] = "semaphore" /\ h = [who |-> d, mode |-> "r"]
          \/ \E d \in Callers : pc'[d] = "handle" /\ h = [who |-> d, mode |-> "w"]
    BY DEF Guards
  <1>5. \A d, m : [who |-> d, mode |-> m].who = d
    OBVIOUS
  <1> QED BY <1>2, <1>3, <1>4, <1>5

\* What a caller knows that is first in line and may have the lock, and what
\* the lock is when it has taken it, or taken it and given it back.
LEMMA Acquiring ==
    ASSUME IInv, NEW c \in Callers, pc[c] \in LockPoints, CanAcquire(lock, c)
    PROVE  /\ lock.queue # <<>> /\ Head(lock.queue) = [who |-> c, mode |-> ModeOf(c)]
           /\ \A d \in Callers : pc[d] # "handle"
           /\ pc[c] \in WritePoints => \A d \in Callers : pc[d] # "semaphore"
           /\ Acquired(lock) = [queue |-> Tail(lock.queue),
                                held |-> Guards \cup {Head(lock.queue)}]
           /\ Released(Acquired(lock), c) = [queue |-> Tail(lock.queue),
                                             held |-> Guards]
           /\ \A h \in Guards : h.who # c
  <1>1. TypeOK /\ QueueInv /\ lock.queue # <<>> /\ Head(lock.queue).who = c
    BY DEF IInv, CanAcquire
  <1>2. lock.queue \in Seq(Request) /\ lock.held = Guards
    BY <1>1 DEF TypeOK
  <1>3. /\ Head(lock.queue) \in Request
        /\ Head(lock.queue) = lock.queue[1] /\ 1 \in 1..Len(lock.queue)
    BY <1>1, <1>2, TailRequest DEF QueueInv
  <1>4. Head(lock.queue).mode = ModeOf(c)
    BY <1>1, <1>3 DEF QueueInv
  <1>5. Head(lock.queue) = [who |-> c, mode |-> ModeOf(c)]
    BY <1>1, <1>3, <1>4 DEF Request
  <1>6. \A d \in Callers :
          /\ pc[d] = "semaphore" => [who |-> d, mode |-> "r"] \in Guards
          /\ pc[d] = "handle" => [who |-> d, mode |-> "w"] \in Guards
    BY DEF Guards
  <1>7. \A d \in Callers : pc[d] # "handle"
    BY <1>2, <1>6 DEF CanAcquire
  <1>8. pc[c] \in WritePoints => \A d \in Callers : pc[d] # "semaphore"
    BY <1>2, <1>4, <1>6 DEF CanAcquire, ModeOf
  <1>9. \A h \in Guards : h.who # c
    BY DEF Guards, LockPoints, WritePoints
  <1>10. Acquired(lock) = [queue |-> Tail(lock.queue),
                           held |-> Guards \cup {Head(lock.queue)}]
    BY <1>2 DEF Acquired
  <1>11. Released(Acquired(lock), c) = [queue |-> Tail(lock.queue),
                                        held |-> Guards]
    <2>1. {h \in Guards \cup {Head(lock.queue)} : h.who # c} = Guards
      BY <1>1, <1>9
    <2>2. /\ Acquired(lock).queue = Tail(lock.queue)
          /\ Acquired(lock).held = Guards \cup {Head(lock.queue)}
      BY <1>10
    <2> QED BY <2>1, <2>2 DEF Released
  <1> QED BY <1>1, <1>5, <1>7, <1>8, <1>9, <1>10, <1>11

\* Requests of callers other than the one that moves keep agreeing with the
\* program counters.
LEMMA OthersWait ==
    ASSUME TypeOK, QueueInv, NEW c \in Callers, NEW l, Goto(c, l),
           lock'.queue \in Seq(Request), Unique(lock'.queue),
           \A i \in 1..Len(lock'.queue) :
             /\ lock'.queue[i].who # c
             /\ \E j \in 1..Len(lock.queue) : lock'.queue[i] = lock.queue[j]
    PROVE  QueueInv'
  <1> SUFFICES ASSUME NEW i \in 1..Len(lock'.queue)
               PROVE  /\ pc'[lock'.queue[i].who] \in LockPoints
                      /\ lock'.queue[i].mode =
                           IF pc'[lock'.queue[i].who] \in WritePoints THEN "w"
                           ELSE "r"
    BY DEF QueueInv, ModeOf
  <1>1. PICK j \in 1..Len(lock.queue) : lock'.queue[i] = lock.queue[j]
    OBVIOUS
  <1>2. lock.queue[j] \in Request
    BY ElementOfSeq DEF TypeOK
  <1>3. lock.queue[j].who \in Callers /\ lock.queue[j].who # c
    BY <1>1, <1>2 DEF Request
  <1>4. pc'[lock.queue[j].who] = pc[lock.queue[j].who]
    BY <1>3 DEF Goto, TypeOK
  <1> QED BY <1>1, <1>4 DEF QueueInv, ModeOf

\* A caller that was first in line has gone to l: the queue without its
\* request still agrees with the program counters, whatever l is.
LEMMA QueueAfterAcquire ==
    ASSUME TypeOK, QueueInv, NEW c \in Callers, NEW l, Goto(c, l),
           lock.queue # <<>>, Head(lock.queue).who = c,
           lock'.queue = Tail(lock.queue)
    PROVE  lock'.queue \in Seq(Request) /\ QueueInv'
  <1>1. lock.queue \in Seq(Request) /\ Unique(lock.queue)
    BY DEF TypeOK, QueueInv
  <1>2. /\ lock'.queue \in Seq(Request) /\ Unique(lock'.queue)
        /\ \A i \in 1..Len(lock'.queue) :
             /\ lock'.queue[i].who # c
             /\ \E j \in 1..Len(lock.queue) : lock'.queue[i] = lock.queue[j]
    BY <1>1, TailRequest
  <1> QED BY <1>2, OthersWait

\* The lock, apart from what it protects: its type, its guards and its queue.
LockOK ==
    /\ lock \in [queue : Seq(Request), held : SUBSET Request]
    /\ lock.held = Guards
    /\ QueueInv
    /\ Exclusion

\* A lock that consists of a queue of requests and of the guards in use.
LEMMA LockType ==
    ASSUME NEW q \in Seq(Request), lock' = [queue |-> q, held |-> Guards'],
           pc' \in [Callers -> {"idle", "returned"} \cup AwaitPoints]
    PROVE  /\ lock' \in [queue : Seq(Request), held : SUBSET Request]
           /\ lock'.held = Guards' /\ lock'.queue = q
  <1>1. Guards' \subseteq Request
    BY DEF Guards, Request
  <1> QED BY <1>1

\* A caller takes the lock, looks at the state and gives the lock back.
LEMMA LookAndRelease ==
    ASSUME IInv, NEW c \in Callers, pc[c] \in LockPoints, CanAcquire(lock, c),
           NEW l \in {"idle", "returned"} \cup AwaitPoints, Goto(c, l),
           l \notin {"semaphore", "handle"},
           lock' = Released(Acquired(lock), c)
    PROVE  LockOK'
  <1>1. TypeOK /\ QueueInv /\ Exclusion
    BY DEF IInv
  <1>2. pc' \in [Callers -> {"idle", "returned"} \cup AwaitPoints]
    BY <1>1 DEF Goto, TypeOK
  <1>3. /\ lock.queue # <<>> /\ Head(lock.queue) = [who |-> c, mode |-> ModeOf(c)]
        /\ lock' = [queue |-> Tail(lock.queue), held |-> Guards]
        /\ \A h \in Guards : h.who # c
    BY Acquiring
  <1>4. Guards' = Guards
    <2>1. Guards' = {h \in Guards : h.who # c} \cup {}
      BY <1>1, GuardsStep DEF TypeOK
    <2> QED BY <1>3, <2>1
  <1>5. Head(lock.queue).who = c /\ lock'.queue = Tail(lock.queue)
    BY <1>3
  <1>6. lock'.queue \in Seq(Request) /\ QueueInv'
    BY <1>1, <1>3, <1>5, QueueAfterAcquire
  <1>7. /\ lock' \in [queue : Seq(Request), held : SUBSET Request]
        /\ lock'.held = Guards'
    BY <1>2, <1>3, <1>4, <1>5, <1>6, LockType
  <1>8. Exclusion'
    BY <1>1 DEF Exclusion, Goto, TypeOK
  <1> QED BY <1>6, <1>7, <1>8 DEF LockOK

\* A caller takes the lock and keeps its guard across the next await.
LEMMA TakeAndKeep ==
    ASSUME IInv, NEW c \in Callers, pc[c] \in LockPoints, CanAcquire(lock, c),
           NEW l, Goto(c, l),
           l = IF pc[c] \in WritePoints THEN "handle" ELSE "semaphore",
           lock' = Acquired(lock)
    PROVE  LockOK'
  <1>1. TypeOK /\ QueueInv /\ Exclusion
    BY DEF IInv
  <1>2. pc' \in [Callers -> {"idle", "returned"} \cup AwaitPoints]
    BY <1>1 DEF Goto, TypeOK, AwaitPoints
  <1>3. /\ lock.queue # <<>> /\ Head(lock.queue) = [who |-> c, mode |-> ModeOf(c)]
        /\ lock' = [queue |-> Tail(lock.queue),
                    held |-> Guards \cup {Head(lock.queue)}]
        /\ \A d \in Callers : pc[d] # "handle"
        /\ pc[c] \in WritePoints => \A d \in Callers : pc[d] # "semaphore"
        /\ \A h \in Guards : h.who # c
    BY Acquiring
  <1>4. Guards' = Guards \cup {Head(lock.queue)}
    <2>1. Guards' = {h \in Guards : h.who # c}
                    \cup (IF l = "semaphore" THEN {[who |-> c, mode |-> "r"]}
                          ELSE IF l = "handle" THEN {[who |-> c, mode |-> "w"]}
                          ELSE {})
      BY <1>1, GuardsStep DEF TypeOK
    <2>2. {h \in Guards : h.who # c} = Guards
      BY <1>3
    <2> QED BY <1>3, <2>1, <2>2 DEF ModeOf
  <1>5. Head(lock.queue).who = c /\ lock'.queue = Tail(lock.queue)
    BY <1>3
  <1>6. lock'.queue \in Seq(Request) /\ QueueInv'
    BY <1>1, <1>3, <1>5, QueueAfterAcquire
  <1>7. /\ lock' \in [queue : Seq(Request), held : SUBSET Request]
        /\ lock'.held = Guards'
    BY <1>2, <1>3, <1>4, <1>5, <1>6, LockType
  <1>8. Exclusion'
    BY <1>1, <1>3 DEF Exclusion, Goto, TypeOK
  <1> QED BY <1>6, <1>7, <1>8 DEF LockOK

\* A caller drops the guard it kept.
LEMMA GiveBack ==
    ASSUME IInv, NEW c \in Callers, pc[c] \in {"semaphore", "handle"},
           NEW l \in {"idle", "returned"} \cup AwaitPoints, Goto(c, l),
           l \notin {"semaphore", "handle"},
           lock' = Released(lock, c)
    PROVE  LockOK'
  <1>1. TypeOK /\ QueueInv /\ Exclusion
    BY DEF IInv
  <1>2. pc' \in [Callers -> {"idle", "returned"} \cup AwaitPoints]
    BY <1>1 DEF Goto, TypeOK
  <1>3. Guards' = {h \in Guards : h.who # c}
    <2>1. Guards' = {h \in Guards : h.who # c} \cup {}
      BY <1>1, GuardsStep DEF TypeOK
    <2> QED BY <2>1
  <1>4. lock.queue \in Seq(Request) /\ lock.held = Guards
    BY <1>1 DEF TypeOK
  <1>5. lock' = [queue |-> lock.queue, held |-> Guards']
    BY <1>3, <1>4 DEF Released
  <1>6. /\ lock' \in [queue : Seq(Request), held : SUBSET Request]
        /\ lock'.held = Guards' /\ lock'.queue = lock.queue
    BY <1>2, <1>4, <1>5, LockType
  <1>7. \A i \in 1..Len(lock.queue) : lock.queue[i].who # c
    BY <1>1 DEF QueueInv, LockPoints, WritePoints
  <1>8. QueueInv'
    BY <1>1, <1>4, <1>6, <1>7, OthersWait DEF QueueInv
  <1>9. Exclusion'
    BY <1>1 DEF Exclusion, Goto, TypeOK
  <1> QED BY <1>6, <1>8, <1>9 DEF LockOK

\* A caller's future is dropped, with the guard or the request it has.
LEMMA ForgetCaller ==
    ASSUME IInv, NEW c \in Callers, Goto(c, "idle"),
           lock' = Forgotten(lock, c)
    PROVE  LockOK'
  <1>1. TypeOK /\ QueueInv /\ Exclusion
    BY DEF IInv
  <1>2. pc' \in [Callers -> {"idle", "returned"} \cup AwaitPoints]
    BY <1>1 DEF Goto, TypeOK
  <1>3. Guards' = {h \in Guards : h.who # c}
    <2>1. Guards' = {h \in Guards : h.who # c} \cup {}
      BY <1>1, GuardsStep DEF TypeOK
    <2> QED BY <2>1
  <1>4. lock.queue \in Seq(Request) /\ lock.held = Guards /\ Unique(lock.queue)
    BY <1>1 DEF TypeOK, QueueInv
  <1>5. lock' = [queue |-> Without(lock.queue, c), held |-> Guards']
    BY <1>3, <1>4 DEF Forgotten
  <1>6. /\ Without(lock.queue, c) \in Seq(Request)
        /\ Unique(Without(lock.queue, c))
        /\ \A i \in 1..Len(Without(lock.queue, c)) :
             /\ Without(lock.queue, c)[i].who # c
             /\ \E j \in 1..Len(lock.queue) :
                  Without(lock.queue, c)[i] = lock.queue[j]
    BY <1>4, WithoutRequest
  <1>7. /\ lock' \in [queue : Seq(Request), held : SUBSET Request]
        /\ lock'.held = Guards' /\ lock'.queue = Without(lock.queue, c)
    BY <1>2, <1>5, <1>6, LockType
  <1>8. QueueInv'
    BY <1>1, <1>6, <1>7, OthersWait
  <1>9. Exclusion'
    BY <1>1 DEF Exclusion, Goto, TypeOK
  <1> QED BY <1>7, <1>8, <1>9 DEF LockOK

\* A caller that has no guard and no request calls stop or join.
LEMMA BeginCall ==
    ASSUME IInv, NEW c \in Callers, pc[c] \in {"idle", "returned"},
           NEW l \in {"stop_read", "join_read"}, Goto(c, l), lock' = lock
    PROVE  LockOK'
  <1>1. TypeOK /\ QueueInv /\ Exclusion
    BY DEF IInv
  <1>2. Guards' = Guards
    <2>1. Guards' = {h \in Guards : h.who # c} \cup {}
      BY <1>1, GuardsStep DEF TypeOK
    <2>2. \A h \in Guards : h.who # c
      BY DEF Guards
    <2> QED BY <2>1, <2>2
  <1>3. lock.queue \in Seq(Request)
    BY <1>1 DEF TypeOK
  <1>4. \A i \in 1..Len(lock.queue) : lock.queue[i].who # c
    BY <1>1 DEF QueueInv, LockPoints, WritePoints
  <1>5. QueueInv'
    BY <1>1, <1>3, <1>4, OthersWait DEF QueueInv
  <1>6. Exclusion'
    BY <1>1 DEF Exclusion, Goto, TypeOK
  <1> QED BY <1>1, <1>2, <1>5, <1>6 DEF LockOK, TypeOK

\* A caller that does not wait yet puts its request in the queue.
LEMMA Queueing ==
    ASSUME IInv, NEW c \in Callers, AskLock(c)
    PROVE  LockOK'
  <1>1. TypeOK /\ QueueInv /\ Exclusion /\ pc' = pc
    BY DEF IInv, AskLock
  <1> DEFINE e == [who |-> c, mode |-> ModeOf(c)]
  <1>2. e \in Request /\ e.who = c /\ e.mode = ModeOf(c)
    BY DEF Request, ModeOf
  <1>3. lock.queue \in Seq(Request) /\ lock.held = Guards /\ Unique(lock.queue)
    BY <1>1 DEF TypeOK, QueueInv
  <1>4. \A i \in 1..Len(lock.queue) : lock.queue[i].who # e.who
    BY <1>2 DEF AskLock, IsWaiting
  <1>5. Guards' = Guards
    BY <1>1 DEF Guards
  <1>6. lock' = [queue |-> Append(lock.queue, e), held |-> Guards']
    BY <1>3, <1>5 DEF AskLock, Wait, ModeOf
  <1> HIDE DEF e
  <1>7. /\ Append(lock.queue, e) \in Seq(Request)
        /\ Unique(Append(lock.queue, e))
        /\ \A i \in 1..Len(Append(lock.queue, e)) :
             \/ Append(lock.queue, e)[i] = e
             \/ \E j \in 1..Len(lock.queue) : Append(lock.queue, e)[i] = lock.queue[j]
    BY <1>2, <1>3, <1>4, AppendRequest
  <1>8. /\ lock' \in [queue : Seq(Request), held : SUBSET Request]
        /\ lock'.held = Guards' /\ lock'.queue = Append(lock.queue, e)
    BY <1>1, <1>6, <1>7, LockType DEF TypeOK
  <1>9. QueueInv'
    <2> SUFFICES ASSUME NEW i \in 1..Len(lock'.queue)
                 PROVE  /\ pc[lock'.queue[i].who] \in LockPoints
                        /\ lock'.queue[i].mode =
                             IF pc[lock'.queue[i].who] \in WritePoints THEN "w"
                             ELSE "r"
      BY <1>1, <1>7, <1>8 DEF QueueInv, ModeOf
    <2>1. CASE lock'.queue[i] = e
      BY <1>2, <2>1 DEF AskLock, ModeOf
    <2>2. CASE \E j \in 1..Len(lock.queue) : lock'.queue[i] = lock.queue[j]
      BY <1>1, <2>2 DEF QueueInv, ModeOf
    <2> QED BY <1>7, <1>8, <2>1, <2>2
  <1>10. Exclusion'
    BY <1>1 DEF Exclusion
  <1> QED BY <1>8, <1>9, <1>10 DEF LockOK

-----------------------------------------------------------------------------
(* The inductive step.                                                     *)

\* The part of the invariant that is not about the lock.
Rest ==
    /\ st \in {"Idle", "Running", "Finished"}
    /\ task \in {"none", "running", "closing", "ended"}
    /\ abort \in BOOLEAN
    /\ closed \in BOOLEAN
    /\ starter \in {"spawn", "write", "returned"}
    /\ pc \in [Callers -> {"idle", "returned"} \cup AwaitPoints]
    /\ op \in [Callers -> {"none", "stop", "join"}]
    /\ took \subseteq Callers
    /\ \A c \in Callers : CallerInv(c)
    /\ ServerInv

\* The two parts make up the invariant.
LEMMA Parts == IInv <=> LockOK /\ Rest
  BY DEF IInv, LockOK, Rest, TypeOK

\* Each step preserves the inductive invariant.
LEMMA IInvStep == IInv /\ [Next]_vars => IInv'
  <1> SUFFICES ASSUME IInv, [Next]_vars PROVE LockOK' /\ Rest'
    BY Parts, PTL
  <1>1. LockOK /\ Rest
    BY Parts
  <1>2. ASSUME Spawn \/ TaskReturn \/ TaskEnd \/ TaskCancelled \/ TaskPanic
               \/ UNCHANGED vars
        PROVE  LockOK' /\ Rest'
    <2>1. LockOK'
      BY <1>1, <1>2 DEF LockOK, QueueInv, Exclusion, ModeOf, Guards, Spawn,
         TaskReturn, TaskEnd, TaskCancelled, TaskPanic, vars
    <2>2. Rest'
      <3>1. CASE Spawn
        BY <1>1, <3>1 DEF Rest, CallerInv, ServerInv, Spawn
      <3>2. CASE TaskReturn
        <4>1. /\ task = "running" /\ task' = "closing"
              /\ closed' \in BOOLEAN /\ closed'
              /\ UNCHANGED <<st, abort, starter, pc, op, took>>
          BY <3>2 DEF TaskReturn
        <4>2. \A c \in Callers : CallerInv(c)'
          BY <1>1, <4>1 DEF Rest, CallerInv
        <4>3. ServerInv'
          BY <1>1, <4>1 DEF Rest, ServerInv
        <4> QED BY <1>1, <4>1, <4>2, <4>3 DEF Rest
      <3>3. CASE TaskEnd \/ TaskCancelled \/ TaskPanic
        BY <1>1, <3>3 DEF Rest, CallerInv, ServerInv, TaskEnd, TaskCancelled,
           TaskPanic
      <3>4. CASE UNCHANGED vars
        BY <1>1, <3>4 DEF Rest, CallerInv, ServerInv, vars
      <3> QED BY <1>2, <3>1, <3>2, <3>3, <3>4
    <2> QED BY <2>1, <2>2
  <1>3. ASSUME Publish PROVE LockOK' /\ Rest'
    <2>1. LockOK'
      BY <1>1, <1>3 DEF LockOK, QueueInv, Exclusion, ModeOf, Guards, Publish
    <2>2. Rest'
      BY <1>1, <1>3 DEF Rest, CallerInv, ServerInv, Publish
    <2> QED BY <2>1, <2>2
  <1>4. ASSUME NEW c \in Callers, Call(c) PROVE LockOK' /\ Rest'
    <2>1. LockOK'
      BY <1>4, BeginCall DEF Call
    <2>2. Rest'
      BY <1>1, <1>4 DEF Rest, CallerInv, ServerInv, Call, Goto, AwaitPoints
    <2> QED BY <2>1, <2>2
  <1>5. ASSUME NEW c \in Callers, AskLock(c) PROVE LockOK' /\ Rest'
    <2>1. LockOK'
      BY <1>5, Queueing
    <2>2. Rest'
      BY <1>1, <1>5 DEF Rest, CallerInv, ServerInv, AskLock
    <2> QED BY <2>1, <2>2
  <1>6. ASSUME NEW c \in Callers, Cancel(c) PROVE LockOK' /\ Rest'
    <2>1. LockOK'
      BY <1>6, ForgetCaller DEF Cancel
    <2>2. Rest'
      BY <1>1, <1>6 DEF Rest, CallerInv, ServerInv, Cancel, Goto
    <2> QED BY <2>1, <2>2
  <1>7. ASSUME NEW c \in Callers, StopRead(c) PROVE LockOK' /\ Rest'
    <2>1. LockOK'
      BY <1>7, LookAndRelease DEF StopRead, LockPoints, AwaitPoints
    <2>2. Rest'
      BY <1>1, <1>7 DEF Rest, CallerInv, ServerInv, StopRead, Goto, AwaitPoints
    <2> QED BY <2>1, <2>2
  <1>8. ASSUME NEW c \in Callers, JoinRead(c) PROVE LockOK' /\ Rest'
    <2>1. LockOK'
      <3>1. CASE st = "Running"
        BY <1>8, <3>1, TakeAndKeep DEF JoinRead, LockPoints, WritePoints
      <3>2. CASE st # "Running"
        BY <1>8, <3>2, LookAndRelease
        DEF JoinRead, AfterJoin, LockPoints, AwaitPoints
      <3> QED BY <3>1, <3>2
    <2>2. Rest'
      BY <1>1, <1>8 DEF Rest, CallerInv, ServerInv, JoinRead, AfterJoin, Goto,
         AwaitPoints
    <2> QED BY <2>1, <2>2
  <1>9. ASSUME NEW c \in Callers, SemaphoreClosed(c) PROVE LockOK' /\ Rest'
    <2>1. LockOK'
      BY <1>9, GiveBack DEF SemaphoreClosed, AwaitPoints
    <2>2. Rest'
      BY <1>1, <1>9 DEF Rest, CallerInv, ServerInv, SemaphoreClosed, Goto,
         AwaitPoints
    <2> QED BY <2>1, <2>2
  <1>10. ASSUME NEW c \in Callers, JoinWrite(c) PROVE LockOK' /\ Rest'
    <2>1. LockOK'
      <3>1. CASE st = "Running"
        BY <1>10, <3>1, TakeAndKeep DEF JoinWrite, LockPoints, WritePoints
      <3>2. CASE st # "Running"
        BY <1>10, <3>2, LookAndRelease
        DEF JoinWrite, AfterJoin, LockPoints, WritePoints, AwaitPoints
      <3> QED BY <3>1, <3>2
    <2>2. Rest'
      BY <1>1, <1>10 DEF Rest, CallerInv, ServerInv, JoinWrite, AfterJoin,
         Goto, AwaitPoints
    <2> QED BY <2>1, <2>2
  <1>11. ASSUME NEW c \in Callers, HandleReady(c) PROVE LockOK' /\ Rest'
    <2>1. LockOK'
      BY <1>11, GiveBack DEF HandleReady, AfterJoin, AwaitPoints
    <2>2. \A d \in Callers : d # c => pc[d] \notin {"semaphore", "handle"}
      BY <1>1, <1>11 DEF LockOK, Exclusion, HandleReady
    <2>3. Rest'
      BY <1>1, <1>11, <2>2 DEF Rest, CallerInv, ServerInv, HandleReady,
         AfterJoin, Goto, AwaitPoints
    <2> QED BY <2>1, <2>3
  <1>12. ASSUME NEW c \in Callers, TakeResult(c) PROVE LockOK' /\ Rest'
    <2>1. LockOK'
      BY <1>12, LookAndRelease DEF TakeResult, LockPoints, WritePoints
    <2>2. \A d \in Callers : pc[d] \notin {"semaphore", "handle"}
      BY <1>12, Acquiring DEF TakeResult, LockPoints, WritePoints
    <2>3. Rest'
      BY <1>1, <1>12, <2>2 DEF Rest, CallerInv, ServerInv, TakeResult, Goto
    <2> QED BY <2>1, <2>3
  <1> QED
    BY <1>2, <1>3, <1>4, <1>5, <1>6, <1>7, <1>8, <1>9, <1>10, <1>11, <1>12
    DEF Next, Orderly, Start, Task, Step

\* The inductive invariant holds in every reachable state.
LEMMA IInvHolds == Spec => []IInv
  <1>1. Init => LockOK /\ Rest
    <2> SUFFICES ASSUME Init PROVE LockOK /\ Rest
      OBVIOUS
    <2>1. Guards = {}
      BY DEF Init, Guards
    <2>2. /\ lock.queue = <<>> /\ lock.held = {}
          /\ lock \in [queue : Seq(Request), held : SUBSET Request]
      BY DEF Init, FreeLock
    <2>3. QueueInv
      BY <2>2 DEF QueueInv, Unique
    <2>4. LockOK
      BY <2>1, <2>2, <2>3 DEF Init, LockOK, Exclusion
    <2>5. Rest
      BY DEF Init, Rest, CallerInv, ServerInv
    <2> QED BY <2>4, <2>5
  <1>2. Init => IInv
    BY <1>1, Parts
  <1> QED BY <1>2, IInvStep, PTL DEF Spec

\* The state is well typed and the guards that are out are exactly those of
\* the callers that await the semaphore or the handle, for any set of callers:
\* no path of stop, join or take_result, nor the drop of a future, leaks one.
THEOREM TypeCorrect == Spec => []TypeOK
  <1>1. IInv => TypeOK
    BY DEF IInv
  <1> QED BY <1>1, IInvHolds, PTL

\* For any set of callers, stop and join come back only when the task is over.
THEOREM ReturnsAfterEnd == Spec => []ReturnMeansEnded
  <1>1. IInv => ReturnMeansEnded
    BY DEF IInv, CallerInv, ReturnMeansEnded
  <1> QED BY <1>1, IInvHolds, PTL

\* For any set of callers, the write lock is kept across an await only while
\* the task is certain to end: everybody else is not shut out for ever.
THEOREM WriterNeverStuck == Spec => []WriterWaitsForEndingTask
  <1>1. IInv => WriterWaitsForEndingTask
    BY DEF IInv, CallerInv, ServerInv, TypeOK, WriterWaitsForEndingTask
  <1> QED BY <1>1, IInvHolds, PTL

\* For any set of callers, one of them at most is given the result.
THEOREM OneTaker == Spec => []ResultTakenOnce
  <1>1. Init => ResultTakenOnce
    BY FS_EmptySet DEF Init, ResultTakenOnce
  <1>2. IInv /\ ResultTakenOnce /\ [Next]_vars => ResultTakenOnce'
    <2> SUFFICES ASSUME IInv, ResultTakenOnce, [Next]_vars
                 PROVE  ResultTakenOnce'
      OBVIOUS
    <2>1. IInv' /\ ServerInv /\ ServerInv'
      BY IInvStep DEF IInv
    <2>2. ASSUME NEW c \in Callers, TakeResult(c), st = "Finished"
          PROVE  ResultTakenOnce'
      <3>1. st' = "Idle" /\ took' = took \cup {c} /\ starter' = starter
        BY <2>2 DEF TakeResult
      <3>2. starter = "returned"
        BY <2>1, <2>2 DEF ServerInv
      <3>3. took = {}
        BY <2>2, <3>2 DEF ResultTakenOnce
      <3>4. took' = {c} /\ Cardinality({c}) = 1
        BY <3>1, <3>3, FS_Singleton
      <3> QED BY <3>1, <3>4 DEF ResultTakenOnce
    <2>3. ASSUME NEW c \in Callers, HandleReady(c) PROVE ResultTakenOnce'
      <3>1. /\ st' = "Finished" /\ task = "ended"
            /\ UNCHANGED <<took, task, starter>>
        BY <2>3 DEF HandleReady
      <3>2. st = "Running"
        BY <2>3 DEF IInv, CallerInv, HandleReady
      <3> QED BY <3>1, <3>2 DEF ResultTakenOnce
    <2>4. ASSUME Publish PROVE ResultTakenOnce'
      BY <2>1, <2>4 DEF Publish, ServerInv, ResultTakenOnce
    <2>5. ASSUME UNCHANGED <<st, took>>, starter' = "returned" => starter = "returned",
                 task = "ended" => task' = "ended"
          PROVE  ResultTakenOnce'
      BY <2>5 DEF ResultTakenOnce
    <2>6. ASSUME Spawn \/ Task \/ TaskPanic \/ UNCHANGED vars
          PROVE  ResultTakenOnce'
      <3>1. /\ UNCHANGED <<st, took>>
            /\ starter' = "returned" => starter = "returned"
            /\ task = "ended" => task' = "ended"
        BY <2>1, <2>6 DEF Spawn, Task, TaskReturn, TaskEnd, TaskCancelled,
           TaskPanic, vars, ServerInv
      <3> QED BY <2>5, <3>1
    <2>7. ASSUME NEW c \in Callers,
                 \/ Call(c) \/ Cancel(c) \/ AskLock(c) \/ StopRead(c)
                 \/ JoinRead(c) \/ SemaphoreClosed(c) \/ JoinWrite(c)
                 \/ TakeResult(c) /\ st # "Finished"
          PROVE  ResultTakenOnce'
      <3>1. UNCHANGED <<st, took, starter, task>>
        BY <2>7 DEF Call, Cancel, AskLock, StopRead, JoinRead,
           SemaphoreClosed, JoinWrite, TakeResult
      <3> QED BY <2>5, <3>1
    <2> QED
      BY <2>2, <2>3, <2>4, <2>6, <2>7 DEF Next, Orderly, Start, Step
  <1> QED BY <1>1, <1>2, IInvHolds, PTL DEF Spec

-----------------------------------------------------------------------------
(* The refinement.                                                         *)

\* The abstract server that a state of RunningServer stands for.
CellBar == [st |-> st, started |-> starter = "returned", task |-> task,
            abort |-> abort, closed |-> closed]

\* Abstract servers with equal fields are equal.
LEMMA CellEquality ==
    ASSUME NEW x \in Lifecycle!Cell, NEW y \in Lifecycle!Cell,
           x.st = y.st, x.started = y.started, x.task = y.task,
           x.abort = y.abort, x.closed = y.closed
    PROVE  x = y
  BY DEF Lifecycle!Cell

\* What each effect does to the fields of an abstract server.
LEMMA CellEffects ==
    ASSUME NEW c \in Lifecycle!Cell
    PROVE  /\ Lifecycle!Spawned(c) \in Lifecycle!Cell
           /\ Lifecycle!Published(c) \in Lifecycle!Cell
           /\ Lifecycle!Returning(c) \in Lifecycle!Cell
           /\ Lifecycle!Ended(c) \in Lifecycle!Cell
           /\ Lifecycle!StopRequested(c) \in Lifecycle!Cell
           /\ Lifecycle!Collected(c) \in Lifecycle!Cell
           /\ Lifecycle!Taken(c) \in Lifecycle!Cell
  BY DEF Lifecycle!Cell, Lifecycle!TaskStates, Lifecycle!Spawned,
     Lifecycle!Published, Lifecycle!Returning, Lifecycle!Ended,
     Lifecycle!StopRequested, Lifecycle!Collected, Lifecycle!Taken

\* Every step of RunningServer is a step of the abstract server or none.
LEMMA StepRefines == IInv /\ [Next]_vars => [Lifecycle!Next]_CellBar
  <1> SUFFICES ASSUME IInv, [Next]_vars
               PROVE  Lifecycle!Next \/ CellBar' = CellBar
    BY DEF CellBar
  <1>1. TypeOK /\ TypeOK' /\ ServerInv
    BY IInvStep DEF IInv
  <1>2. CellBar \in Lifecycle!Cell /\ CellBar' \in Lifecycle!Cell
    BY <1>1 DEF CellBar, TypeOK, Lifecycle!Cell, Lifecycle!TaskStates
  <1>3. ASSUME Spawn PROVE Lifecycle!Next
    <2>1. CellBar = Lifecycle!NewCell
      <3>1. Lifecycle!NewCell \in Lifecycle!Cell
        BY DEF Lifecycle!NewCell, Lifecycle!Cell, Lifecycle!TaskStates
      <3> QED BY <1>1, <1>2, <1>3, <3>1, CellEquality
              DEF Spawn, ServerInv, TypeOK, CellBar, Lifecycle!NewCell
    <2>2. CellBar' = Lifecycle!Spawned(CellBar)
      <3>1. Lifecycle!Spawned(CellBar) \in Lifecycle!Cell
        BY <1>2, CellEffects
      <3> QED BY <1>2, <1>3, <3>1, CellEquality
              DEF Spawn, CellBar, Lifecycle!Spawned
    <2> QED BY <2>1, <2>2
            DEF CellBar, Lifecycle!Next, Lifecycle!Spawn
  <1>4. ASSUME Publish PROVE Lifecycle!Next
    <2>1. CellBar' = Lifecycle!Published(CellBar)
      <3>1. Lifecycle!Published(CellBar) \in Lifecycle!Cell
        BY <1>2, CellEffects
      <3> QED BY <1>2, <1>4, <3>1, CellEquality
              DEF Publish, CellBar, Lifecycle!Published
    <2>2. ~CellBar.started /\ CellBar.task # "none"
      BY <1>1, <1>4 DEF CellBar, Publish, ServerInv
    <2> QED BY <2>1, <2>2
            DEF CellBar, Lifecycle!Next, Lifecycle!Publish
  <1>5. ASSUME TaskReturn PROVE Lifecycle!Next
    <2>1. CellBar' = Lifecycle!Returning(CellBar)
      <3>1. Lifecycle!Returning(CellBar) \in Lifecycle!Cell
        BY <1>2, CellEffects
      <3> QED BY <1>2, <1>5, <3>1, CellEquality
              DEF TaskReturn, CellBar, Lifecycle!Returning
    <2>2. CellBar.task = "running"
      BY <1>5 DEF CellBar, TaskReturn
    <2> QED BY <2>1, <2>2
            DEF CellBar, Lifecycle!Next, Lifecycle!TaskReturn
  <1>6. ASSUME TaskEnd \/ TaskCancelled \/ TaskPanic PROVE Lifecycle!Next
    <2>1. CellBar' = Lifecycle!Ended(CellBar)
      <3>1. Lifecycle!Ended(CellBar) \in Lifecycle!Cell
        BY <1>2, CellEffects
      <3> QED BY <1>2, <1>6, <3>1, CellEquality
              DEF TaskEnd, TaskCancelled, TaskPanic, CellBar, Lifecycle!Ended
    <2>2. CellBar.task \in {"closing", "running"}
      BY <1>6 DEF CellBar, TaskEnd, TaskCancelled, TaskPanic
    <2> QED BY <2>1, <2>2
            DEF CellBar, Lifecycle!Next, Lifecycle!TaskEnd
  <1>7. ASSUME NEW c \in Callers, StopRead(c), st = "Running"
        PROVE  Lifecycle!Next
    <2>1. CellBar' = Lifecycle!StopRequested(CellBar)
      <3>1. Lifecycle!StopRequested(CellBar) \in Lifecycle!Cell
        BY <1>2, CellEffects
      <3> QED BY <1>2, <1>7, <3>1, CellEquality
              DEF StopRead, CellBar, Lifecycle!StopRequested
    <2>2. CellBar.st = "Running"
      BY <1>7 DEF CellBar
    <2> QED BY <2>1, <2>2
            DEF CellBar, Lifecycle!Next, Lifecycle!RequestStop
  <1>8. ASSUME NEW c \in Callers, HandleReady(c) PROVE Lifecycle!Next
    <2>1. CellBar' = Lifecycle!Collected(CellBar)
      <3>1. Lifecycle!Collected(CellBar) \in Lifecycle!Cell
        BY <1>2, CellEffects
      <3> QED BY <1>2, <1>8, <3>1, CellEquality
              DEF HandleReady, CellBar, Lifecycle!Collected
    <2>2. CellBar.st = "Running" /\ CellBar.closed /\ CellBar.task = "ended"
      BY <1>8 DEF CellBar, HandleReady, IInv, CallerInv
    <2> QED BY <2>1, <2>2
            DEF CellBar, Lifecycle!Next, Lifecycle!Collect, Lifecycle!CanCollect
  <1>9. ASSUME NEW c \in Callers, TakeResult(c), st = "Finished"
        PROVE  Lifecycle!Next
    <2>1. CellBar' = Lifecycle!Taken(CellBar)
      <3>1. Lifecycle!Taken(CellBar) \in Lifecycle!Cell
        BY <1>2, CellEffects
      <3> QED BY <1>2, <1>9, <3>1, CellEquality
              DEF TakeResult, CellBar, Lifecycle!Taken
    <2>2. CellBar.st = "Finished"
      BY <1>9 DEF CellBar
    <2> QED BY <2>1, <2>2
            DEF CellBar, Lifecycle!Next, Lifecycle!Take
  <1>10. ASSUME \/ UNCHANGED vars
                \/ \E c \in Callers :
                     \/ Call(c) \/ Cancel(c) \/ AskLock(c) \/ JoinRead(c)
                     \/ SemaphoreClosed(c) \/ JoinWrite(c)
                     \/ StopRead(c) /\ st # "Running"
                     \/ TakeResult(c) /\ st # "Finished"
         PROVE  CellBar' = CellBar
    <2>1. UNCHANGED <<st, starter, task, abort, closed>>
      BY <1>10 DEF vars, Call, Cancel, AskLock, JoinRead, SemaphoreClosed,
         JoinWrite, StopRead, TakeResult
    <2> QED BY <2>1 DEF CellBar
  <1> QED
    BY <1>3, <1>4, <1>5, <1>6, <1>7, <1>8, <1>9, <1>10
    DEF Next, Orderly, Start, Task, Step

\* RunningServer implements the lock-free ServerLifecycle for any set of
\* callers of stop, join and take_result, dropped futures and panics included.
THEOREM Implements == Spec => ImplementsLifecycle
  <1>1. Init => CellBar = Lifecycle!NewCell
    BY DEF Init, CellBar, Lifecycle!NewCell
  <1> QED BY <1>1, StepRefines, IInvHolds, PTL
          DEF Spec, ImplementsLifecycle, Lifecycle!Spec, CellBar
=============================================================================
