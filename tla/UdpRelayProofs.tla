----------------------------- MODULE UdpRelayProofs -----------------------------
(***************************************************************************)
(* Theorems about UdpRelay, for every size of the buffers, every number of *)
(* packets and every Room: the buffers stay within their bound, each       *)
(* direction implements a bounded pipe, and no wakeup is lost.             *)
(***************************************************************************)
EXTENDS UdpRelay, SequenceTheorems, TLAPS

-----------------------------------------------------------------------------
(* The inductive invariant.                                                *)

\* Packets in the queue: all slots but an unfilled one at the end.
Held(c) == IF HasBack(c) THEN Len(c.queue) - 1 ELSE Len(c.queue)

\* The queue holds the packets from done + 1 to taken, in order.
Order(d) ==
    /\ taken[d] = done[d] + Held(cb[d])
    /\ \A i \in 1..Len(cb[d].queue) :
         cb[d].queue[i] # None => cb[d].queue[i] = done[d] + i

\* The source of d has nothing, and whatever ends that will call a waker.
Quiet(d) ==
    /\ ~Readable(d)
    /\ FillWakers(d) \subseteq reg
    /\ ~StopSeen(d)

\* Direction d can do nothing, and whatever ends that will call a waker.
Waits(d) ==
    IF HasFront(cb[d])
      THEN IF Bound(d) THEN room[d] = 0 /\ <<"sink", d>> \in reg
           ELSE bind = "Binding" /\ <<"future", d>> \in reg
      ELSE Quiet(d)

\* What a poll has left behind so far holds until a waker is called.
Wakers ==
    /\ at = "fill" => ~registered
    /\ at = "drain" /\ registered => wake \/ Quiet(dir)
    /\ at \in {"fill", "drain"} /\ dir = "recv" => wake \/ Waits("send")
    /\ at = "asleep" => \A d \in Dirs : Waits(d)

\* A UdpConnector is called with the first packet, before any is sent.
FirstInv ==
    /\ bind # "Binded" => done["send"] = 0 /\ sent["send"] = 0
    /\ bind \in {"Binding", "Opened", "Failed"} => first = 1
    /\ ~Lazy => bind = "Binded"

IInv == TypeOK /\ (\A d \in Dirs : Order(d)) /\ Wakers /\ FirstInv

-----------------------------------------------------------------------------
(* What the operations of a CopyBuffer do.                                 *)

\* borrow_back keeps the bound and the packets, and when it finds no slot it
\* changes nothing.
LEMMA BorrowBack ==
    ASSUME NEW c, Buffer(c)
    PROVE  LET b == borrow_back(c) IN
           /\ Buffer(b)
           /\ Held(b) = Held(c)
           /\ HasFront(b) <=> HasFront(c)
           /\ \A i \in 1..Len(b.queue) :
                b.queue[i] # None => i \in 1..Len(c.queue)
                                     /\ b.queue[i] = c.queue[i]
           /\ ~HasBack(b) => b = c
<1> DEFINE b == borrow_back(c)
           g == grow(c)
<1>1. c = [pool |-> c.pool, queue |-> c.queue] /\ c.pool \in Nat
      /\ c.queue \in Seq(Nat) /\ Len(c.queue) \in Nat
  BY DEF Buffer
<1>2. CASE HasBack(c)
  <2>1. b = c
    BY <1>2 DEF borrow_back
  <2> QED BY <2>1, <1>2
<1>3. CASE ~HasBack(c) /\ g.pool = 0
  <2>1. b = g
    BY <1>3 DEF borrow_back
  <2>2. c.pool = 0
    BY <1>3, <1>1 DEF grow
  <2>3. g = c
    BY <1>1, <1>3, <2>2 DEF grow
  <2> QED BY <2>1, <2>3
<1>4. CASE ~HasBack(c) /\ g.pool # 0
  <2>1. b = [pool |-> g.pool - 1, queue |-> Append(c.queue, None)]
    BY <1>4 DEF borrow_back, grow
  <2>2. g.pool \in Nat /\ g.pool + Len(c.queue) \in 1..MaxBufferSize
    BY <1>1, <1>4, BufferAssumption DEF grow, Smaller, Buffer
  <2>3. /\ b.queue \in Seq(Nat)
        /\ Len(b.queue) = Len(c.queue) + 1
        /\ b.queue[Len(c.queue) + 1] = None
        /\ \A i \in 1..Len(c.queue) : b.queue[i] = c.queue[i]
    BY <2>1, <1>1 DEF None
  <2>4. \A i \in 1..Len(c.queue) : c.queue[i] # None
    BY <1>1, <1>4 DEF Buffer, HasBack
  <2>5. b.pool = g.pool - 1 /\ b \in [pool : Nat, queue : Seq(Nat)]
    BY <2>1, <2>2, <2>3, <1>4
  <2>6. Buffer(b)
    <3>1. b.pool + Len(b.queue) \in 1..MaxBufferSize
      BY <2>2, <2>3, <2>5, <1>1, BufferAssumption
    <3>2. \A i \in 1..Len(b.queue) : b.queue[i] = None => i = Len(b.queue)
      BY <2>3, <2>4, <1>1
    <3> QED BY <3>1, <3>2, <2>5 DEF Buffer
  <2>7. HasBack(b)
    BY <2>3, <1>1 DEF HasBack
  <2>8. Held(b) = Held(c)
    BY <2>3, <2>7, <1>4, <1>1 DEF Held
  <2>9. HasFront(b) <=> HasFront(c)
    <3>1. CASE c.queue = <<>>
      BY <3>1, <2>3 DEF HasFront
    <3>2. CASE c.queue # <<>>
      BY <3>2, <2>3, <1>1 DEF HasFront
    <3> QED BY <3>1, <3>2
  <2> QED BY <2>3, <2>6, <2>7, <2>8, <2>9, <1>1
<1> QED BY <1>2, <1>3, <1>4

\* A packet is put into the slot at the end.
LEMMA FillBack ==
    ASSUME NEW c, Buffer(c), HasBack(c), NEW p \in Nat, p # None
    PROVE  LET f == fill(c, p) IN
           /\ Buffer(f)
           /\ Held(f) = Held(c) + 1
           /\ Len(f.queue) = Len(c.queue)
           /\ \A i \in 1..Len(c.queue) :
                f.queue[i] = IF i = Len(c.queue) THEN p ELSE c.queue[i]
<1> DEFINE f == fill(c, p)
<1>1. c.pool \in Nat /\ c.queue \in Seq(Nat) /\ Len(c.queue) \in Nat \ {0}
  BY DEF Buffer, HasBack
<1>2. /\ f.pool = c.pool
      /\ f.queue = [c.queue EXCEPT ![Len(c.queue)] = p]
      /\ f \in [pool : Nat, queue : Seq(Nat)]
  BY <1>1 DEF fill
<1>3. /\ Len(f.queue) = Len(c.queue)
      /\ \A i \in 1..Len(c.queue) :
           f.queue[i] = IF i = Len(c.queue) THEN p ELSE c.queue[i]
  BY <1>1, <1>2
<1>4. Buffer(f)
  BY <1>1, <1>2, <1>3 DEF Buffer
<1>5. ~HasBack(f) /\ Held(f) = Held(c) + 1
  BY <1>1, <1>3 DEF Held, HasBack
<1> QED BY <1>3, <1>4, <1>5

\* The packet at the front is taken away and its buffer goes to the pool.
LEMMA PopFront ==
    ASSUME NEW c, Buffer(c), HasFront(c)
    PROVE  LET p == pop_front(c) IN
           /\ Buffer(p)
           /\ Held(p) = Held(c) - 1
           /\ Len(p.queue) = Len(c.queue) - 1
           /\ \A i \in 1..Len(p.queue) : p.queue[i] = c.queue[i + 1]
           /\ Held(c) > 0 /\ Head(c.queue) = c.queue[1] /\ c.queue[1] # None
           /\ 1 \in 1..Len(c.queue)
<1> DEFINE p == pop_front(c)
<1>1. c.pool \in Nat /\ c.queue \in Seq(Nat) /\ Len(c.queue) \in Nat \ {0}
      /\ Head(c.queue) = c.queue[1] /\ c.queue[1] # None
  BY DEF Buffer, HasFront
<1>2. /\ p.pool = c.pool + 1
      /\ p.queue = Tail(c.queue)
      /\ p \in [pool : Nat, queue : Seq(Nat)]
      /\ p.queue \in Seq(Nat)
  BY <1>1 DEF pop_front
<1>3. /\ Len(p.queue) = Len(c.queue) - 1
      /\ \A i \in 1..Len(p.queue) : p.queue[i] = c.queue[i + 1]
  BY <1>1, <1>2
<1>4. Buffer(p)
  BY <1>1, <1>2, <1>3 DEF Buffer
<1> HIDE DEF p
<1>5. Held(c) > 0 /\ Held(p) = Held(c) - 1
  <2> DEFINE n == Len(c.queue)
  <2>1. CASE n = 1
    <3>1. p.queue = <<>>
      <4>1. Len(p.queue) = 0
        BY <2>1, <1>3
      <4> QED BY <4>1, <1>2, EmptySeq
    <3>2. ~HasBack(c) /\ ~HasBack(p)
      BY <3>1, <2>1, <1>1 DEF HasBack
    <3>3. Held(c) = 1 /\ Held(p) = 0
      BY <3>2, <2>1, <1>3 DEF Held
    <3> QED BY <3>3
  <2>2. CASE n > 1
    <3>1. n - 1 \in 1..Len(p.queue) /\ (n - 1) + 1 = n /\ Len(p.queue) = n - 1
          /\ n \in Nat /\ n > 1 /\ Len(p.queue) # 0
      BY <2>2, <1>1, <1>3
    <3> HIDE DEF n
    <3>2. p.queue[n - 1] = c.queue[n]
      BY <3>1, <1>3
    <3>3. p.queue # <<>> /\ c.queue # <<>>
      <4>1. p.queue # <<>>
        BY <3>1, <1>2, EmptySeq
      <4>2. c.queue # <<>>
        BY <1>1, EmptySeq
      <4> QED BY <4>1, <4>2
    <3>4. HasBack(p) <=> HasBack(c)
      BY <3>1, <3>2, <3>3 DEF HasBack, n
    <3>5. CASE HasBack(c)
      <4>1. Held(c) = n - 1 /\ Held(p) = n - 2
        BY <3>1, <3>4, <3>5 DEF Held, n
      <4> QED BY <4>1, <3>1
    <3>6. CASE ~HasBack(c)
      <4>1. Held(c) = n /\ Held(p) = n - 1
        BY <3>1, <3>4, <3>6 DEF Held, n
      <4> QED BY <4>1, <3>1
    <3> QED BY <3>5, <3>6
  <2>3. n \in Nat \ {0} => n = 1 \/ n > 1
    <3> HIDE DEF n
    <3> QED OBVIOUS
  <2> QED BY <2>1, <2>2, <2>3, <1>1
<1>6. 1 \in 1..Len(c.queue)
  BY <1>1
<1> QED BY <1>1, <1>3, <1>4, <1>5, <1>6 DEF p

-----------------------------------------------------------------------------
(* Type correctness.                                                       *)

LEMMA WakersKnown == \A d \in Dirs : FillWakers(d) \subseteq Sources
<1>1. FillWakers("send") \subseteq Sources
  BY DEF FillWakers, Open, Sources, Dirs
<1>2. FillWakers("recv") \subseteq Sources
  BY DEF FillWakers, Open, Sources, Dirs
<1> QED BY <1>1, <1>2 DEF Dirs

LEMMA InitInv == Init => IInv
<1> SUFFICES ASSUME Init PROVE IInv
  OBVIOUS
<1>1. \A d \in Dirs : cb[d] = NewBuffer /\ cb[d].queue = <<>> /\ cb[d].pool = BufferSize
                      /\ Len(cb[d].queue) = 0
  BY DEF Init, NewBuffer
<1>2. \A d \in Dirs : Buffer(cb[d])
  <2> SUFFICES ASSUME NEW d \in Dirs PROVE Buffer(cb[d])
    OBVIOUS
  <2>1. cb[d] \in [pool : Nat, queue : Seq(Nat)]
    <3>1. <<>> \in Seq(Nat)
      BY EmptySeq
    <3>2. BufferSize \in Nat
      BY BufferAssumption
    <3>3. NewBuffer \in [pool : Nat, queue : Seq(Nat)]
      BY <3>1, <3>2 DEF NewBuffer
    <3> QED BY <3>3, <1>1
  <2>2. cb[d].pool + Len(cb[d].queue) \in 1..MaxBufferSize
    BY <1>1, BufferAssumption
  <2>3. \A i \in 1..Len(cb[d].queue) : i \notin Nat
    BY <1>1
  <2> QED BY <2>1, <2>2, <2>3 DEF Buffer
<1>3. TypeOK
  <2>1. DOMAIN cb = Dirs
    BY DEF Init
  <2>2. /\ bind \in {"Idle", "Binding", "Opened", "Failed", "Binded"}
        /\ registered \in BOOLEAN /\ wake \in BOOLEAN /\ stop \in BOOLEAN
    BY DEF Init
  <2>3. room \in [Dirs -> 0..Room]
    BY RelayAssumption DEF Init
  <2> QED BY <1>2, <2>1, <2>2, <2>3 DEF Init, TypeOK, Dirs
<1>4. \A d \in Dirs : Order(d)
  BY <1>1 DEF Init, Order, Held, HasBack
<1>5. Wakers
  BY DEF Init, Wakers
<1>6. FirstInv
  BY RelayAssumption DEF Init, FirstInv, Dirs
<1> QED BY <1>3, <1>4, <1>5, <1>6 DEF IInv

\* The steps that change a CopyBuffer; the other direction's is left alone.
LEMMA BufferStep ==
    ASSUME TypeOK, NEW d \in Dirs,
           \/ cb' = [cb EXCEPT ![d] = borrow_back(@)]
           \/ /\ HasBack(borrow_back(cb[d]))
              /\ cb' = [cb EXCEPT ![d] = fill(borrow_back(@), taken[d] + 1)]
           \/ HasFront(cb[d]) /\ cb' = [cb EXCEPT ![d] = pop_front(@)]
    PROVE  DOMAIN cb' = Dirs /\ \A e \in Dirs : Buffer(cb'[e])
<1>1. DOMAIN cb' = Dirs /\ \A e \in Dirs \ {d} : cb'[e] = cb[e]
  BY DEF TypeOK
<1>2. Buffer(cb[d]) /\ Buffer(borrow_back(cb[d])) /\ taken[d] + 1 \in Nat
      /\ taken[d] + 1 # None
  BY BorrowBack DEF TypeOK, None
<1>3. Buffer(cb'[d])
  <2>1. CASE cb' = [cb EXCEPT ![d] = borrow_back(@)]
    BY <2>1, <1>2 DEF TypeOK
  <2>2. CASE /\ HasBack(borrow_back(cb[d]))
             /\ cb' = [cb EXCEPT ![d] = fill(borrow_back(@), taken[d] + 1)]
    <3>1. Buffer(fill(borrow_back(cb[d]), taken[d] + 1))
      BY <1>2, <2>2, FillBack
    <3> QED BY <3>1, <2>2 DEF TypeOK
  <2>3. CASE HasFront(cb[d]) /\ cb' = [cb EXCEPT ![d] = pop_front(@)]
    <3>1. Buffer(pop_front(cb[d]))
      BY <1>2, <2>3, PopFront
    <3> QED BY <3>1, <2>3 DEF TypeOK
  <2> QED BY <2>1, <2>2, <2>3
<1> QED BY <1>1, <1>3 DEF TypeOK

\* The type invariant is kept by every step.
LEMMA TypeStep == TypeOK /\ [Next]_vars => TypeOK'
<1> SUFFICES ASSUME TypeOK, [Next]_vars PROVE TypeOK'
  OBVIOUS
<1> USE DEF connVars
<1>1. CASE UNCHANGED vars
  BY <1>1 DEF vars, TypeOK, Buffer
<1>2. CASE BeginPoll
  BY <1>2 DEF BeginPoll, TypeOK, Buffer, Dirs
<1>3. ASSUME NEW d \in Dirs, Direction(d) PROVE TypeOK'
  <2>1. CASE FillNone(d)
    <3>1. DOMAIN cb' = Dirs /\ \A e \in Dirs : Buffer(cb'[e])
      BY <2>1, BufferStep DEF FillNone
    <3> QED BY <2>1, <3>1 DEF FillNone, TypeOK, Buffer
  <2>2. CASE FillAborted(d)
    BY <2>2 DEF FillAborted, End, TypeOK, Buffer
  <2>3. CASE FillPacket(d)
    <3>1. DOMAIN cb' = Dirs /\ \A e \in Dirs : Buffer(cb'[e])
      BY <2>3, BufferStep DEF FillPacket, Reading
    <3>2. taken' \in [Dirs -> Nat]
      BY <2>3 DEF FillPacket, TypeOK
    <3> QED BY <2>3, <3>1, <3>2 DEF FillPacket, TypeOK, Buffer
  <2>4. CASE FillPending(d)
    <3>1. DOMAIN cb' = Dirs /\ \A e \in Dirs : Buffer(cb'[e])
      BY <2>4, BufferStep DEF FillPending
    <3>2. reg' \subseteq Sources
      BY <2>4, WakersKnown DEF FillPending, TypeOK
    <3> QED BY <2>4, <3>1, <3>2 DEF FillPending, TypeOK, Buffer
  <2>5. CASE Drained(d)
    BY <2>5 DEF Drained, Leave, TypeOK, Buffer, Dirs
  <2>6. CASE WritePacket(d)
    <3>1. DOMAIN cb' = Dirs /\ \A e \in Dirs : Buffer(cb'[e])
      BY <2>6, BufferStep DEF WritePacket, Writing
    <3>2. Head(cb[d].queue) \in Nat
      <4>1. cb[d].queue \in Seq(Nat)
        BY DEF TypeOK, Buffer
      <4>2. cb[d].queue # <<>>
        BY <2>6 DEF WritePacket, Writing, HasFront
      <4> QED BY <4>1, <4>2
    <3>3. room' \in [Dirs -> 0..Room]
      BY <2>6, RelayAssumption DEF WritePacket, TypeOK
    <3>4. /\ done' \in [Dirs -> Nat] /\ sent' \in [Dirs -> Nat]
          /\ last' \in [Dirs -> Nat]
      BY <2>6, <3>2 DEF WritePacket, TypeOK
    <3> QED BY <2>6, <3>1, <3>3, <3>4 DEF WritePacket, TypeOK, Buffer
  <2>7. CASE WritePending(d)
    <3>1. <<"sink", d>> \in Sources /\ (d = "send" => <<"future", d>> \in Sources)
      BY DEF Sources
    <3>2. d = "send" \/ Bound(d)
      BY DEF Dirs, Bound
    <3>3. reg' \subseteq Sources
      BY <2>7, <3>1, <3>2 DEF WritePending, TypeOK, Dirs
    <3> QED BY <2>7, <3>3 DEF WritePending, Leave, TypeOK, Buffer, Dirs
  <2> QED BY <1>3, <2>1, <2>2, <2>3, <2>4, <2>5, <2>6, <2>7 DEF Direction
<1>4. CASE CallConnector
  <2>1. Head(cb["send"].queue) \in Nat
    <3>1. "send" \in Dirs
      BY DEF Dirs
    <3>2. cb["send"].queue \in Seq(Nat) /\ cb["send"].queue # <<>>
      BY <1>4, <3>1 DEF CallConnector, Writing, HasFront, TypeOK, Buffer
    <3> QED BY <3>2
  <2> QED BY <1>4, <2>1 DEF CallConnector, TypeOK, Buffer
<1>5. CASE Binded
  <2>1. "send" \in Dirs
    BY DEF Dirs
  <2>2. /\ room' \in [Dirs -> 0..Room] /\ sent' \in [Dirs -> Nat]
        /\ last' \in [Dirs -> Nat]
    BY <1>5, <2>1, RelayAssumption DEF Binded, TypeOK
  <2> QED BY <1>5, <2>2 DEF Binded, Notify, TypeOK, Buffer
<1>6. CASE BindError
  BY <1>6 DEF BindError, End, TypeOK, Buffer
<1>7. CASE ConnectorDone
  BY <1>7 DEF ConnectorDone, Notify, TypeOK, Buffer
<1>8. CASE StopConnection
  BY <1>8 DEF StopConnection, Notify, TypeOK, Buffer
<1>9. ASSUME NEW d \in Dirs, Arrive(d) PROVE TypeOK'
  <2>1. arrived' \in [Dirs -> Nat]
    BY <1>9 DEF Arrive, TypeOK
  <2> QED BY <1>9, <2>1 DEF Arrive, Notify, TypeOK, Buffer
<1>10. ASSUME NEW d \in Dirs, Consume(d) PROVE TypeOK'
  <2>1. room' \in [Dirs -> 0..Room]
    BY <1>10, RelayAssumption DEF Consume, TypeOK
  <2> QED BY <1>10, <2>1 DEF Consume, Notify, TypeOK, Buffer
<1>11. CASE Cancel
  BY <1>11 DEF Cancel, End, TypeOK, Buffer
<1>12. ASSUME NEW d \in Dirs, FillError(d) \/ WriteError(d) PROVE TypeOK'
  BY <1>12 DEF FillError, WriteError, End, TypeOK, Buffer
<1> QED
  BY <1>1, <1>2, <1>3, <1>4, <1>5, <1>6, <1>7, <1>8, <1>9, <1>10, <1>11, <1>12
  DEF Next, Task, Fault

-----------------------------------------------------------------------------
(* The order of the packets, and the refinement of UdpPipe.                *)

\* A step that leaves the packets of d alone.
LEMMA OrderSame ==
    ASSUME NEW d \in Dirs, Order(d),
           cb'[d] = cb[d], taken'[d] = taken[d], done'[d] = done[d]
    PROVE  Order(d)'
BY DEF Order, Held, HasBack

\* A slot is made ready to read into.
LEMMA OrderBorrow ==
    ASSUME TypeOK, NEW d \in Dirs, Order(d),
           cb' = [cb EXCEPT ![d] = borrow_back(@)],
           UNCHANGED <<taken, done>>
    PROVE  Order(d)'
<1> DEFINE b == borrow_back(cb[d])
<1>1. cb'[d] = b /\ Buffer(cb[d])
  BY DEF TypeOK
<1>2. /\ Held(b) = Held(cb[d])
      /\ \A i \in 1..Len(b.queue) :
           b.queue[i] # None => i \in 1..Len(cb[d].queue)
                                /\ b.queue[i] = cb[d].queue[i]
  BY <1>1, BorrowBack
<1> HIDE DEF b
<1>3. \A i \in 1..Len(b.queue) : b.queue[i] # None => b.queue[i] = done[d] + i
  BY <1>2 DEF Order
<1>4. taken[d] = done[d] + Held(b)
  BY <1>2 DEF Order
<1>5. Order(d)' <=> /\ taken'[d] = done'[d] + Held(cb'[d])
                    /\ \A i \in 1..Len(cb'[d].queue) :
                         cb'[d].queue[i] # None => cb'[d].queue[i] = done'[d] + i
  BY DEF Order, Held, HasBack
<1> QED BY <1>1, <1>3, <1>4, <1>5 DEF Order

\* A packet is read.
LEMMA OrderFill ==
    ASSUME TypeOK, NEW d \in Dirs, Order(d), FillPacket(d)
    PROVE  Order(d)'
<1> DEFINE b == borrow_back(cb[d])
           p == taken[d] + 1
           f == fill(b, p)
<1>1. cb'[d] = f /\ Buffer(cb[d]) /\ HasBack(b) /\ taken'[d] = p /\ p \in Nat
      /\ p # None /\ done' = done /\ taken[d] \in Nat
      /\ done[d] \in Nat
  BY DEF TypeOK, FillPacket, Reading, None
<1>2. /\ Buffer(b)
      /\ Held(b) = Held(cb[d])
      /\ \A i \in 1..Len(b.queue) :
           b.queue[i] # None => i \in 1..Len(cb[d].queue)
                                /\ b.queue[i] = cb[d].queue[i]
  BY <1>1, BorrowBack
<1> HIDE DEF b, p
<1>3. /\ Held(f) = Held(b) + 1
      /\ Len(f.queue) = Len(b.queue)
      /\ \A i \in 1..Len(b.queue) :
           f.queue[i] = IF i = Len(b.queue) THEN p ELSE b.queue[i]
  BY <1>1, <1>2, FillBack
<1>4. Len(b.queue) \in Nat /\ Held(b) = Len(b.queue) - 1
  BY <1>1, <1>2 DEF Held, Buffer
<1> HIDE DEF f
<1>5. taken[d] = done[d] + Held(b)
  BY <1>2 DEF Order
<1>6. p = taken[d] + 1
  BY DEF p
<1>7. p = done[d] + Len(b.queue) /\ p = done[d] + Held(f)
  BY <1>1, <1>3, <1>4, <1>5, <1>6
<1>8. \A i \in 1..Len(f.queue) : f.queue[i] # None => f.queue[i] = done[d] + i
  BY <1>2, <1>3, <1>7 DEF Order
<1>9. Order(d)' <=> /\ taken'[d] = done'[d] + Held(cb'[d])
                    /\ \A i \in 1..Len(cb'[d].queue) :
                         cb'[d].queue[i] # None => cb'[d].queue[i] = done'[d] + i
  BY DEF Order, Held, HasBack
<1> QED BY <1>1, <1>7, <1>8, <1>9 DEF Order

\* The packet at the front is the next one to be delivered.
LEMMA FrontIsNext ==
    ASSUME TypeOK, NEW d \in Dirs, Order(d), HasFront(cb[d])
    PROVE  Head(cb[d].queue) = done[d] + 1 /\ done[d] < taken[d]
<1>1. /\ Held(cb[d]) > 0 /\ Head(cb[d].queue) = cb[d].queue[1]
      /\ cb[d].queue[1] # None /\ 1 \in 1..Len(cb[d].queue)
  BY PopFront DEF TypeOK
<1>2. Held(cb[d]) \in Int /\ done[d] \in Nat
  BY DEF Held, TypeOK, Buffer
<1> QED BY <1>1, <1>2 DEF Order

\* A packet is written.
LEMMA OrderWrite ==
    ASSUME TypeOK, NEW d \in Dirs, Order(d), WritePacket(d)
    PROVE  Order(d)'
<1> DEFINE p == pop_front(cb[d])
<1>1. cb'[d] = p /\ Buffer(cb[d]) /\ HasFront(cb[d]) /\ taken' = taken
      /\ done'[d] = done[d] + 1
      /\ done[d] \in Nat /\ taken[d] \in Nat
  BY DEF TypeOK, WritePacket, Writing
<1>2. /\ Buffer(p) /\ Held(p) = Held(cb[d]) - 1
      /\ Len(p.queue) = Len(cb[d].queue) - 1
      /\ \A i \in 1..Len(p.queue) : p.queue[i] = cb[d].queue[i + 1]
  BY <1>1, PopFront
<1> HIDE DEF p
<1>4. Held(cb[d]) \in Int /\ Len(cb[d].queue) \in Nat /\ Len(p.queue) \in Nat
  BY <1>1, <1>2 DEF Held, Buffer
<1>5. taken[d] = (done[d] + 1) + Held(p)
  BY <1>1, <1>2, <1>4 DEF Order
<1>6. \A i \in 1..Len(p.queue) :
        p.queue[i] # None => p.queue[i] = (done[d] + 1) + i
  <2> SUFFICES ASSUME NEW i \in 1..Len(p.queue), p.queue[i] # None
               PROVE  p.queue[i] = (done[d] + 1) + i
    OBVIOUS
  <2>1. i + 1 \in 1..Len(cb[d].queue)
    BY <1>2, <1>4
  <2>2. cb[d].queue[i + 1] = done[d] + (i + 1)
    BY <2>1, <1>2 DEF Order
  <2>3. p.queue[i] = cb[d].queue[i + 1]
    BY <1>2
  <2>4. i \in Int
    BY <1>4
  <2> QED BY <2>2, <2>3, <2>4, <1>1
<1>7. Order(d)' <=> /\ taken'[d] = done'[d] + Held(cb'[d])
                    /\ \A i \in 1..Len(cb'[d].queue) :
                         cb'[d].queue[i] # None => cb'[d].queue[i] = done'[d] + i
  BY DEF Order, Held, HasBack
<1> QED BY <1>1, <1>5, <1>6, <1>7

\* Every step keeps the packets of both directions in order.
LEMMA OrderStep ==
    ASSUME TypeOK, \A d \in Dirs : Order(d), [Next]_vars
    PROVE  \A d \in Dirs : Order(d)'
<1> SUFFICES ASSUME NEW e \in Dirs PROVE Order(e)'
  OBVIOUS
<1>1. CASE UNCHANGED <<cb, taken, done>>
  BY <1>1, OrderSame
<1>2. ASSUME NEW d \in Dirs, FillNone(d) \/ FillPending(d) PROVE Order(e)'
  <2>1. cb' = [cb EXCEPT ![d] = borrow_back(@)] /\ UNCHANGED <<taken, done>>
    BY <1>2 DEF FillNone, FillPending
  <2>2. CASE d = e
    BY <2>1, <2>2, OrderBorrow
  <2>3. CASE d # e
    BY <2>1, <2>3, OrderSame DEF TypeOK
  <2> QED BY <2>2, <2>3
<1>3. ASSUME NEW d \in Dirs, FillPacket(d) PROVE Order(e)'
  <2>1. CASE d = e
    BY <1>3, <2>1, OrderFill
  <2>2. CASE d # e
    BY <1>3, <2>2, OrderSame DEF TypeOK, FillPacket
  <2> QED BY <2>1, <2>2
<1>4. ASSUME NEW d \in Dirs, WritePacket(d) PROVE Order(e)'
  <2>1. CASE d = e
    BY <1>4, <2>1, OrderWrite
  <2>2. CASE d # e
    BY <1>4, <2>2, OrderSame DEF TypeOK, WritePacket
  <2> QED BY <2>1, <2>2
<1>5. ASSUME NEW d \in Dirs, Direction(d) PROVE Order(e)'
  <2>1. CASE FillAborted(d) \/ Drained(d) \/ WritePending(d)
    BY <2>1, <1>1 DEF FillAborted, Drained, WritePending
  <2> QED BY <1>2, <1>3, <1>4, <1>5, <2>1 DEF Direction
<1>6. CASE BeginPoll \/ CallConnector \/ Binded \/ BindError
  BY <1>6, <1>1 DEF BeginPoll, CallConnector, Binded, BindError
<1>7. CASE ConnectorDone \/ StopConnection \/ Cancel
  BY <1>7, <1>1 DEF ConnectorDone, StopConnection, Cancel
<1>8. ASSUME NEW d \in Dirs,
             Arrive(d) \/ Consume(d) \/ FillError(d) \/ WriteError(d)
      PROVE  Order(e)'
  BY <1>8, <1>1 DEF Arrive, Consume, FillError, WriteError
<1>9. CASE UNCHANGED vars
  BY <1>9, <1>1 DEF vars
<1> QED BY <1>5, <1>6, <1>7, <1>8, <1>9 DEF Next, Task, Fault

\* What the UdpConnector knows of the first packet.
LEMMA FirstStep ==
    ASSUME TypeOK, \A d \in Dirs : Order(d), FirstInv, [Next]_vars
    PROVE  FirstInv'
<1>0. "send" \in Dirs /\ "recv" \in Dirs /\ "send" # "recv"
  BY DEF Dirs
<1>1. CASE UNCHANGED <<bind, first, done, sent>>
  BY <1>1 DEF FirstInv
<1>2. ASSUME NEW d \in Dirs, WritePacket(d) PROVE FirstInv'
  <2>1. CASE d = "send"
    <3>1. bind = "Binded" /\ UNCHANGED <<bind, first>>
      BY <1>2, <2>1 DEF WritePacket, Bound, connVars
    <3> QED BY <3>1 DEF FirstInv
  <2>2. CASE d = "recv"
    <3>1. /\ done'["send"] = done["send"] /\ sent'["send"] = sent["send"]
          /\ UNCHANGED <<bind, first>>
      BY <1>0, <1>2, <2>2 DEF WritePacket, connVars, TypeOK
    <3> QED BY <3>1 DEF FirstInv
  <2> QED BY <2>1, <2>2 DEF Dirs
<1>3. CASE CallConnector
  <2>1. Head(cb["send"].queue) = done["send"] + 1
    BY <1>0, <1>3, FrontIsNext DEF CallConnector, Writing
  <2>2. done["send"] = 0
    BY <1>3 DEF CallConnector, FirstInv
  <2>3. first' = 1 /\ bind' = "Binding" /\ UNCHANGED <<done, sent>> /\ bind # "Binded"
    BY <1>3, <2>1, <2>2 DEF CallConnector
  <2> QED BY <2>2, <2>3 DEF FirstInv
<1>4. CASE Binded
  BY <1>4 DEF Binded, FirstInv
<1>5. CASE ConnectorDone
  BY <1>5 DEF ConnectorDone, FirstInv
<1>6. ASSUME NEW d \in Dirs, Direction(d) PROVE FirstInv'
  <2>1. CASE FillNone(d) \/ FillPending(d) \/ FillPacket(d) \/ FillAborted(d)
             \/ Drained(d) \/ WritePending(d)
    BY <2>1, <1>1
    DEF FillNone, FillPending, FillPacket, FillAborted, Drained, WritePending,
        connVars
  <2> QED BY <1>2, <1>6, <2>1 DEF Direction
<1>7. CASE BeginPoll \/ BindError \/ StopConnection \/ Cancel
  BY <1>7, <1>1 DEF BeginPoll, BindError, StopConnection, Cancel, connVars
<1>8. ASSUME NEW d \in Dirs,
             Arrive(d) \/ Consume(d) \/ FillError(d) \/ WriteError(d)
      PROVE  FirstInv'
  BY <1>8, <1>1 DEF Arrive, Consume, FillError, WriteError, connVars
<1>9. CASE UNCHANGED vars
  BY <1>9, <1>1 DEF vars
<1> QED BY <1>3, <1>4, <1>5, <1>6, <1>7, <1>8, <1>9 DEF Next, Task, Fault

-----------------------------------------------------------------------------
(* Wakers.                                                                 *)

\* Wakers of a direction that is quiet are not taken away by more wakers.
LEMMA QuietKept ==
    ASSUME NEW d \in Dirs, Quiet(d), reg \subseteq reg',
           UNCHANGED <<taken, arrived, bind, stop>>
    PROVE  Quiet(d)'
BY DEF Quiet, Readable, Open, FillWakers, StopSeen

LEMMA WaitsKept ==
    ASSUME NEW d \in Dirs, Waits(d), reg \subseteq reg', cb'[d] = cb[d],
           taken'[d] = taken[d], arrived'[d] = arrived[d], room'[d] = room[d],
           UNCHANGED <<bind, stop>>
    PROVE  Waits(d)'
BY DEF Waits, Quiet, Readable, Open, FillWakers, StopSeen, Bound, HasFront

\* A waker is called: the task is woken, or will see it at the end of its poll.
LEMMA Woken ==
    ASSUME NEW S, Wakers, Notify(S), reg \cap S # {}, UNCHANGED <<dir, registered>>
    PROVE  Wakers'
<1>1. CASE at = "asleep"
  <2>1. at' = "woken"
    BY <1>1 DEF Notify
  <2> QED BY <2>1 DEF Wakers
<1>2. CASE at # "asleep"
  <2>1. at' = at /\ wake' = TRUE
    BY <1>2 DEF Notify
  <2> QED BY <1>2, <2>1 DEF Wakers
<1> QED BY <1>1, <1>2

\* No waker is called and whoever waits still waits.
LEMMA NotWoken ==
    ASSUME TypeOK, Wakers, UNCHANGED <<at, wake, dir, registered>>,
           \A d \in Dirs : Quiet(d) => Quiet(d)',
           \A d \in Dirs : Waits(d) => Waits(d)'
    PROVE  Wakers'
<1>1. "send" \in Dirs /\ dir \in Dirs
  BY DEF Dirs, TypeOK
<1>2. at' = "drain" /\ registered' => wake' \/ Quiet(dir)'
  BY <1>1 DEF Wakers, Quiet, Readable, Open, FillWakers, StopSeen
<1> QED BY <1>1, <1>2 DEF Wakers

\* A direction returns: it can do nothing, or a waker has been called.
LEMMA LeaveStep ==
    ASSUME TypeOK, Wakers, NEW d \in Dirs, at = "drain", dir = d, Leave(d),
           wake \/ Waits(d)', reg \subseteq reg',
           UNCHANGED <<cb, taken, arrived, room, bind, stop>>
    PROVE  Wakers'
<1>1. CASE d = "send"
  <2>1. at' = "fill" /\ dir' = "recv" /\ registered' = FALSE /\ wake' = wake
    BY <1>1 DEF Leave
  <2> QED BY <1>1, <2>1 DEF Wakers
<1>2. CASE d = "recv"
  <2>1. CASE wake
    BY <1>2, <2>1 DEF Leave, Wakers
  <2>2. CASE ~wake
    <3>1. Waits("send")
      BY <1>2, <2>2 DEF Wakers
    <3>2. Waits("send")' /\ Waits("recv")'
      BY <3>1, <1>2, <2>2, WaitsKept DEF Dirs
    <3>3. at' = "asleep"
      BY <1>2, <2>2 DEF Leave
    <3> QED BY <3>2, <3>3 DEF Wakers, Dirs
  <2> QED BY <2>1, <2>2
<1> QED BY <1>1, <1>2 DEF Dirs

\* The two loops of a direction.
LEMMA WakersDirection ==
    ASSUME TypeOK, Wakers, NEW d \in Dirs, Direction(d)
    PROVE  Wakers'
<1> USE DEF connVars
<1>0. "send" \in Dirs
  BY DEF Dirs
<1>1. CASE FillNone(d)
  <2>1. /\ at = "fill" /\ dir = d /\ at' = "drain"
        /\ reg' = reg /\ (d # "send" => cb'["send"] = cb["send"])
        /\ UNCHANGED <<taken, arrived, room, bind, stop, dir, wake, registered>>
    BY <1>0, <1>1 DEF FillNone, TypeOK
  <2>2. d = "recv" => wake' \/ Waits("send")'
    BY <1>0, <2>1, WaitsKept DEF Wakers
  <2> QED BY <2>1, <2>2 DEF Wakers
<1>2. CASE FillAborted(d)
  BY <1>2 DEF FillAborted, End, Wakers
<1>3. CASE FillPacket(d)
  <2>1. /\ at = "fill" /\ dir = d
        /\ (d # "send" => cb'["send"] = cb["send"]
                          /\ taken'["send"] = taken["send"])
        /\ UNCHANGED <<arrived, room, bind, stop, at, dir, wake, registered, reg>>
    BY <1>0, <1>3 DEF FillPacket, Reading, TypeOK
  <2>2. d = "recv" => wake' \/ Waits("send")'
    BY <1>0, <2>1, WaitsKept DEF Wakers
  <2> QED BY <2>1, <2>2 DEF Wakers
<1>4. CASE FillPending(d)
  <2>1. /\ at = "fill" /\ dir = d /\ at' = "drain"
        /\ reg' = reg \cup FillWakers(d) /\ ~StopSeen(d) /\ ~Readable(d)
        /\ (d # "send" => cb'["send"] = cb["send"])
        /\ UNCHANGED <<taken, arrived, room, bind, stop, dir, wake>>
    BY <1>0, <1>4 DEF FillPending, Reading, TypeOK
  <2>2. d = "recv" => wake' \/ Waits("send")'
    BY <1>0, <2>1, WaitsKept DEF Wakers
  <2>3. Quiet(dir)'
    BY <2>1 DEF Quiet, Readable, Open, FillWakers, StopSeen
  <2> QED BY <2>1, <2>2, <2>3 DEF Wakers
<1>5. CASE Drained(d)
  <2>1. /\ at = "drain" /\ dir = d /\ ~HasFront(cb[d])
        /\ UNCHANGED <<cb, taken, arrived, room, bind, stop, reg>>
    BY <1>5 DEF Drained
  <2>2. CASE registered
    <3>1. Leave(d)
      BY <1>5, <2>2 DEF Drained
    <3>2. wake \/ Waits(d)
      BY <2>1, <2>2 DEF Wakers, Waits
    <3>3. wake \/ Waits(d)'
      BY <2>1, <3>2, WaitsKept
    <3> QED BY <2>1, <3>1, <3>3, LeaveStep
  <2>3. CASE ~registered
    <3>1. at' = "fill" /\ UNCHANGED <<dir, registered, wake>>
      BY <1>5, <2>3 DEF Drained
    <3>2. d = "recv" => wake' \/ Waits("send")'
      BY <1>0, <2>1, <3>1, WaitsKept DEF Wakers
    <3> QED BY <2>1, <2>3, <3>1, <3>2 DEF Wakers
  <2> QED BY <2>2, <2>3
<1>6. CASE WritePacket(d)
  <2>1. /\ at = "drain" /\ dir = d
        /\ (d # "send" => cb'["send"] = cb["send"]
                          /\ room'["send"] = room["send"])
        /\ UNCHANGED <<taken, arrived, bind, stop, at, dir, wake, registered, reg>>
    BY <1>0, <1>6 DEF WritePacket, Writing, TypeOK
  <2>2. d = "recv" => wake' \/ Waits("send")'
    BY <1>0, <2>1, WaitsKept DEF Wakers
  <2>3. Quiet(d) => Quiet(dir)'
    BY <2>1 DEF Quiet, Readable, Open, FillWakers, StopSeen
  <2> QED BY <2>1, <2>2, <2>3 DEF Wakers
<1>7. CASE WritePending(d)
  <2>1. /\ at = "drain" /\ dir = d /\ Leave(d) /\ reg \subseteq reg'
        /\ UNCHANGED <<cb, taken, arrived, room, bind, stop>>
    BY <1>7 DEF WritePending, Writing
  <2>2. Waits(d)'
    BY <1>7 DEF WritePending, Writing, Waits, Bound, HasFront
  <2> QED BY <2>1, <2>2, LeaveStep
<1> QED BY <1>1, <1>2, <1>3, <1>4, <1>5, <1>6, <1>7 DEF Direction

\* Every step keeps the wakers that the task relies on.
LEMMA WakersStep ==
    ASSUME TypeOK, Wakers, [Next]_vars
    PROVE  Wakers'
<1> USE DEF connVars
<1>1. CASE UNCHANGED vars
  <2>1. UNCHANGED <<at, wake, dir, registered, reg, cb, taken, arrived, room,
                    bind, stop>>
    BY <1>1 DEF vars
  <2> QED BY <2>1, QuietKept, WaitsKept, NotWoken
<1>2. CASE BeginPoll
  BY <1>2 DEF BeginPoll, Wakers
<1>3. CASE CallConnector
  <2>1. /\ at = "drain" /\ dir = "send"
        /\ UNCHANGED <<taken, arrived, stop, at, dir, registered, reg, wake>>
    BY <1>3 DEF CallConnector, Writing
  <2>2. Quiet("send") => Quiet("send")'
    BY <2>1 DEF Quiet, Readable, Open, FillWakers, StopSeen
  <2>3. Quiet(dir)' <=> Quiet("send")'
    BY <2>1 DEF Quiet, Readable, Open, FillWakers, StopSeen
  <2> QED BY <2>1, <2>2, <2>3 DEF Wakers
<1>4. CASE Binded
  <2>1. /\ at = "drain" /\ dir = "send"
        /\ Notify({<<"permit", "recv">>})
        /\ UNCHANGED <<taken, arrived, stop, dir, registered>>
    BY <1>4 DEF Binded, Writing
  <2>2. CASE reg \cap {<<"permit", "recv">>} # {}
    BY <2>1, <2>2, Woken
  <2>3. CASE reg \cap {<<"permit", "recv">>} = {}
    <3>1. UNCHANGED <<at, wake, reg>>
      BY <2>1, <2>3 DEF Notify
    <3>2. Quiet("send") => Quiet("send")'
      BY <2>1, <3>1 DEF Quiet, Readable, Open, FillWakers, StopSeen
    <3>3. Quiet(dir)' <=> Quiet("send")'
      BY <2>1 DEF Quiet, Readable, Open, FillWakers, StopSeen
    <3> QED BY <2>1, <3>1, <3>2, <3>3 DEF Wakers
  <2> QED BY <2>2, <2>3
<1>5. CASE ConnectorDone
  <2>1. /\ bind = "Binding" /\ bind' \in {"Opened", "Failed"}
        /\ Notify({<<"future", "send">>})
        /\ UNCHANGED <<cb, taken, arrived, room, stop, dir, registered>>
    BY <1>5 DEF ConnectorDone
  <2>2. CASE reg \cap {<<"future", "send">>} # {}
    BY <2>1, <2>2, Woken
  <2>3. CASE reg \cap {<<"future", "send">>} = {}
    <3>1. UNCHANGED <<at, wake, reg>>
      BY <2>1, <2>3 DEF Notify
    <3>2. \A d \in Dirs : Quiet(d) => Quiet(d)'
      BY <2>1, <3>1 DEF Quiet, Readable, Open, FillWakers, StopSeen
    <3>3. \A d \in Dirs : Waits(d) => Waits(d)'
      BY <2>1, <2>3, <3>1, <3>2 DEF Waits, Bound, HasFront, Dirs
    <3> QED BY <2>1, <3>1, <3>2, <3>3, NotWoken
  <2> QED BY <2>2, <2>3
<1>6. CASE StopConnection
  <2>1. /\ Notify({<<"stop", "recv">>})
        /\ UNCHANGED <<cb, taken, arrived, room, bind, dir, registered>>
    BY <1>6 DEF StopConnection
  <2>2. CASE reg \cap {<<"stop", "recv">>} # {}
    BY <2>1, <2>2, Woken
  <2>3. CASE reg \cap {<<"stop", "recv">>} = {}
    <3>1. UNCHANGED <<at, wake, reg>>
      BY <2>1, <2>3 DEF Notify
    <3>2. \A d \in Dirs : Quiet(d) => Quiet(d)'
      <4> SUFFICES ASSUME NEW d \in Dirs, Quiet(d) PROVE Quiet(d)'
        OBVIOUS
      <4>1. d # "recv"
        BY <2>3 DEF Quiet, FillWakers
      <4> QED BY <2>1, <3>1, <4>1 DEF Quiet, Readable, Open, FillWakers, StopSeen
    <3>3. \A d \in Dirs : Waits(d) => Waits(d)'
      BY <2>1, <3>1, <3>2 DEF Waits, Bound, HasFront
    <3> QED BY <2>1, <3>1, <3>2, <3>3, NotWoken
  <2> QED BY <2>2, <2>3
<1>7. ASSUME NEW d \in Dirs, Arrive(d) PROVE Wakers'
  <2>1. /\ Notify({<<"source", d>>})
        /\ \A e \in Dirs : e # d => arrived'[e] = arrived[e]
        /\ UNCHANGED <<cb, taken, room, bind, stop, dir, registered>>
    BY <1>7 DEF Arrive, TypeOK
  <2>2. CASE reg \cap {<<"source", d>>} # {}
    BY <2>1, <2>2, Woken
  <2>3. CASE reg \cap {<<"source", d>>} = {}
    <3>1. UNCHANGED <<at, wake, reg>>
      BY <2>1, <2>3 DEF Notify
    <3>2. \A e \in Dirs : Quiet(e) => Quiet(e)'
      <4> SUFFICES ASSUME NEW e \in Dirs, Quiet(e) PROVE Quiet(e)'
        OBVIOUS
      <4>1. CASE Open(e)
        <5>1. <<"source", e>> \in reg
          BY <4>1 DEF Quiet, FillWakers
        <5>2. e # d
          BY <5>1, <2>3
        <5> QED BY <2>1, <3>1, <5>2 DEF Quiet, Readable, Open, FillWakers, StopSeen
      <4>2. CASE ~Open(e)
        BY <2>1, <3>1, <4>2 DEF Quiet, Readable, Open, FillWakers, StopSeen
      <4> QED BY <4>1, <4>2
    <3>3. \A e \in Dirs : Waits(e) => Waits(e)'
      BY <2>1, <3>1, <3>2 DEF Waits, Bound, HasFront
    <3> QED BY <2>1, <3>1, <3>2, <3>3, NotWoken
  <2> QED BY <2>2, <2>3
<1>8. ASSUME NEW d \in Dirs, Consume(d) PROVE Wakers'
  <2>1. /\ Notify({<<"sink", d>>})
        /\ \A e \in Dirs : e # d => room'[e] = room[e]
        /\ UNCHANGED <<cb, taken, arrived, bind, stop, dir, registered>>
    BY <1>8 DEF Consume, TypeOK
  <2>2. CASE reg \cap {<<"sink", d>>} # {}
    BY <2>1, <2>2, Woken
  <2>3. CASE reg \cap {<<"sink", d>>} = {}
    <3>1. UNCHANGED <<at, wake, reg>>
      BY <2>1, <2>3 DEF Notify
    <3>2. \A e \in Dirs : Quiet(e) => Quiet(e)'
      BY <2>1, <3>1 DEF Quiet, Readable, Open, FillWakers, StopSeen
    <3>3. \A e \in Dirs : Waits(e) => Waits(e)'
      <4> SUFFICES ASSUME NEW e \in Dirs, Waits(e) PROVE Waits(e)'
        OBVIOUS
      <4>1. CASE <<"sink", e>> \in reg
        <5>1. e # d
          BY <4>1, <2>3
        <5> QED BY <2>1, <3>1, <3>2, <5>1 DEF Waits, Bound, HasFront
      <4>2. CASE <<"sink", e>> \notin reg
        BY <2>1, <3>1, <3>2, <4>2 DEF Waits, Bound, HasFront
      <4> QED BY <4>1, <4>2
    <3> QED BY <2>1, <3>1, <3>2, <3>3, NotWoken
  <2> QED BY <2>2, <2>3
<1>9. CASE BindError \/ Cancel
  BY <1>9 DEF BindError, Cancel, End, Wakers
<1>10. ASSUME NEW d \in Dirs, FillError(d) \/ WriteError(d) PROVE Wakers'
  BY <1>10 DEF FillError, WriteError, End, Wakers
<1> QED
  BY <1>1, <1>2, <1>3, <1>4, <1>5, <1>6, <1>7, <1>8, <1>9, <1>10, WakersDirection
  DEF Next, Task, Fault

-----------------------------------------------------------------------------
(* The theorems.                                                           *)

\* The inductive invariant holds in every state.
THEOREM Invariant == Spec => []IInv
<1>1. IInv /\ [Next]_vars => IInv'
  <2> SUFFICES ASSUME IInv, [Next]_vars PROVE IInv'
    OBVIOUS
  <2>1. TypeOK /\ (\A d \in Dirs : Order(d)) /\ Wakers /\ FirstInv
    BY DEF IInv
  <2>2. TypeOK'
    BY <2>1, TypeStep
  <2>3. \A d \in Dirs : Order(d)'
    BY <2>1, OrderStep
  <2>4. Wakers'
    BY <2>1, WakersStep
  <2>5. FirstInv'
    BY <2>1, FirstStep
  <2> QED BY <2>2, <2>3, <2>4, <2>5 DEF IInv
<1> QED BY <1>1, InitInv, PTL DEF Spec

\* The buffers of connect_udp's two queues never number more than the maximum
\* and never none, however often the queue grows, and only the last slot of a
\* queue may be unfilled.
THEOREM TypeCorrect == Spec => []TypeOK
<1>1. IInv => TypeOK
  BY DEF IInv
<1> QED BY <1>1, Invariant, PTL

\* connect_udp never sleeps while it could copy a packet, or while a stop that
\* it would see is pending.
THEOREM NoWakeupLost == Spec => []NoLostWakeup
<1>1. IInv => NoLostWakeup
  <2> SUFFICES ASSUME IInv, at = "asleep" PROVE
        /\ \A d \in Dirs :
             IF HasFront(cb[d])
               THEN IF Bound(d) THEN room[d] = 0 ELSE bind = "Binding"
               ELSE ~Readable(d)
        /\ stop => HasFront(cb["recv"])
    BY DEF NoLostWakeup
  <2>1. \A d \in Dirs : Waits(d)
    BY DEF IInv, Wakers
  <2>2. stop => HasFront(cb["recv"])
    BY <2>1 DEF Waits, Quiet, StopSeen, Dirs
  <2> QED BY <2>1, <2>2 DEF Waits, Quiet
<1> QED BY <1>1, Invariant, PTL

\* connect_udp implements a bounded first-in first-out pipe in each direction: no
\* packet is lost, overtaken or sent twice but the first one, and that only to a
\* socket which a UdpConnector binds.
THEOREM Implements == Spec => ImplementsPipe
<1> USE DEF connVars
<1>1. Init => Pipe!Init
  BY DEF Init, Pipe!Init
<1>2. IInv /\ [Next]_vars => [Pipe!Next]_Pipe!vars
  <2> SUFFICES ASSUME IInv, [Next]_vars PROVE [Pipe!Next]_Pipe!vars
    OBVIOUS
  <2>1. TypeOK /\ FirstInv /\ \A d \in Dirs : Order(d)
    BY DEF IInv
  <2>2. CASE UNCHANGED <<taken, done, sent, last>>
    BY <2>2 DEF Pipe!vars
  <2>3. ASSUME NEW d \in Dirs, FillPacket(d) PROVE Pipe!Take(d)
    <3> DEFINE b == borrow_back(cb[d])
    <3>1. HasBack(b) /\ Buffer(cb[d])
      BY <2>1, <2>3 DEF FillPacket, Reading, TypeOK
    <3>2. Buffer(b) /\ Held(b) = Held(cb[d])
      BY <3>1, BorrowBack
    <3> HIDE DEF b
    <3>3. Held(b) = Len(b.queue) - 1 /\ Len(b.queue) <= MaxBufferSize
          /\ Len(b.queue) \in Nat
      BY <3>1, <3>2, BufferAssumption DEF Held, Buffer
    <3>4. taken[d] = done[d] + Held(b) /\ done[d] \in Nat /\ taken[d] \in Nat
      BY <2>1, <3>2 DEF Order, TypeOK
    <3>5. taken[d] - done[d] < MaxBufferSize
      BY <3>3, <3>4, BufferAssumption
    <3> QED BY <2>3, <3>5 DEF FillPacket, Pipe!Take
  <2>4. ASSUME NEW d \in Dirs, WritePacket(d) PROVE Pipe!Deliver(d)
    <3>1. Head(cb[d].queue) = done[d] + 1 /\ done[d] < taken[d]
      BY <2>1, <2>4, FrontIsNext DEF WritePacket, Writing
    <3> QED BY <2>4, <3>1 DEF WritePacket, Pipe!Deliver
  <2>5. ASSUME NEW d \in Dirs, Direction(d) PROVE [Pipe!Next]_Pipe!vars
    <3>1. CASE FillNone(d) \/ FillPending(d) \/ FillAborted(d) \/ Drained(d)
               \/ WritePending(d)
      BY <3>1, <2>2 DEF FillNone, FillPending, FillAborted, Drained, WritePending
    <3> QED BY <2>3, <2>4, <2>5, <3>1 DEF Direction, Pipe!Next
  <2>6. CASE BeginPoll \/ CallConnector \/ BindError
    BY <2>6, <2>2 DEF BeginPoll, CallConnector, BindError
  <2>6a. CASE Binded
    <3>1. "send" \in Dirs /\ HasFront(cb["send"]) /\ bind = "Opened"
      BY <2>6a DEF Binded, Writing, Dirs
    <3>2. done["send"] = 0 /\ sent["send"] = 0 /\ first = 1 /\ Lazy
      BY <2>1, <3>1 DEF FirstInv
    <3>3. taken["send"] > 0
      BY <2>1, <3>1, <3>2, FrontIsNext
    <3>4. sent' = [sent EXCEPT !["send"] = 1] /\ last' = [last EXCEPT !["send"] = 1]
          /\ UNCHANGED <<taken, done>>
      BY <2>6a, <3>2 DEF Binded
    <3>5. Pipe!Ahead("send")
      BY <3>2, <3>3, <3>4 DEF Pipe!Ahead
    <3> QED BY <3>1, <3>5 DEF Pipe!Next
  <2>7. CASE ConnectorDone \/ StopConnection \/ Cancel
    BY <2>7, <2>2 DEF ConnectorDone, StopConnection, Cancel
  <2>8. ASSUME NEW d \in Dirs,
               Arrive(d) \/ Consume(d) \/ FillError(d) \/ WriteError(d)
        PROVE  [Pipe!Next]_Pipe!vars
    BY <2>8, <2>2 DEF Arrive, Consume, FillError, WriteError
  <2>9. CASE UNCHANGED vars
    BY <2>9, <2>2 DEF vars
  <2> QED BY <2>5, <2>6, <2>6a, <2>7, <2>8, <2>9 DEF Next, Task, Fault
<1> QED BY <1>1, <1>2, Invariant, PTL DEF Spec, ImplementsPipe, Pipe!Spec
=============================================================================
