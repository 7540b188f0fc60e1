----------------------- MODULE ConnectionManagerProofs -----------------------
(***************************************************************************)
(* ConnectionManager for any set of connections and any traffic: the type  *)
(* invariant, and that the table tracks the connections, no connection is  *)
(* aborted unasked, and every connection can be stopped.                   *)
(*                                                                         *)
(* None of these is inductive.  They hold because of the order of the      *)
(* events of a connection on the channel, which InOrder states, and        *)
(* because of how that order ties the phase of the connection to its       *)
(* entry, which ConnInv states.                                            *)
(***************************************************************************)
EXTENDS ConnectionManager, SequenceTheorems, TLAPS

-----------------------------------------------------------------------------
(* Types.                                                                  *)

\* What the owners of connections send are sequences of events.
LEMMA EventsType ==
    ASSUME TypeOK, NEW u \in Conns
    PROVE  /\ NewEvents(u) \in Seq(Event)
           /\ get_events(u) \in Seq(Event)
           /\ <<Ev(u, "CloseConnection", 0)>> \in Seq(Event)
  <1>1. \A t \in EventTypes, n \in Nat : Ev(u, t, n) \in Event
    BY DEF Ev, Event
  <1>2. /\ Ev(u, "New", 0) \in Event
        /\ Ev(u, "SetStopper", 0) \in Event
        /\ Ev(u, "CloseConnection", 0) \in Event
        /\ Ev(u, "Read", unsent[u]["down"]) \in Event
        /\ Ev(u, "Write", unsent[u]["up"]) \in Event
    BY <1>1 DEF EventTypes, TypeOK, Dirs
  <1> QED
    BY <1>2 DEF NewEvents, get_events

\* Adding to one counter of one connection keeps the counters' type.
LEMMA AddType ==
    ASSUME NEW f \in [Conns -> [Dirs -> Nat]], NEW u \in Conns,
           NEW d \in Dirs, NEW n \in Nat
    PROVE  [f EXCEPT ![u][d] = @ + n] \in [Conns -> [Dirs -> Nat]]
  <1>1. f[u] \in [Dirs -> Nat] /\ f[u][d] \in Nat
    OBVIOUS
  <1>2. [f[u] EXCEPT ![d] = @ + n] \in [Dirs -> Nat]
    BY <1>1
  <1> QED BY <1>1, <1>2

\* Traffic keeps the types of the counters it is added to.
LEMMA MoveType ==
    ASSUME TypeOK, NEW u \in Conns, NEW d \in Dirs, NEW n \in Nat,
           Move(u, d, n)
    PROVE  /\ moved' \in [Conns -> [Dirs -> Nat]]
           /\ unsent' \in [Conns -> [Dirs -> Nat]]
  <1>1. /\ moved' = [moved EXCEPT ![u][d] = @ + n]
        /\ unsent' = [unsent EXCEPT ![u][d] = @ + n]
    BY DEF Move
  <1>2. /\ moved \in [Conns -> [Dirs -> Nat]]
        /\ unsent \in [Conns -> [Dirs -> Nat]]
    BY DEF TypeOK
  <1>3. [moved EXCEPT ![u][d] = @ + n] \in [Conns -> [Dirs -> Nat]]
    BY <1>2, AddType
  <1>4. [unsent EXCEPT ![u][d] = @ + n] \in [Conns -> [Dirs -> Nat]]
    BY <1>2, AddType
  <1> QED BY <1>1, <1>3, <1>4

\* The type invariant is inductive.
LEMMA TypeStep == TypeOK /\ [Next]_vars => TypeOK'
  <1> USE DEF Held
  <1>0. "down" \in Dirs /\ "up" \in Dirs /\ Zero \in [Dirs -> Nat]
    BY DEF Dirs, Zero
  <1> SUFFICES ASSUME TypeOK, [Next]_vars PROVE TypeOK'
    OBVIOUS
  <1>1. ASSUME NEW u \in Conns, NewConnection(u) PROVE TypeOK'
    <2>1. chan' \in Seq(Event)
      BY <1>1, EventsType, ConcatProperties DEF NewConnection, TypeOK
    <2> QED BY <2>1, <1>1 DEF NewConnection, TypeOK, Phases
  <1>2. ASSUME NEW u \in Conns, Poll(u) PROVE TypeOK'
    <2>1. chan' \in Seq(Event)
      <3>1. get_events(u) \in Seq(Event) /\ chan \in Seq(Event)
        BY EventsType DEF TypeOK
      <3>2. chan \o get_events(u) \in Seq(Event)
        BY <3>1, ConcatProperties
      <3> QED BY <1>2, <3>1, <3>2 DEF Poll, Flush
    <2>2. unsent' \in [Conns -> [Dirs -> Nat]]
      BY <1>0, <1>2 DEF Poll, Flush, TypeOK
    <2>4. tick' \in [Conns -> 0..2]
      <3>1. tick \in [Conns -> 0..2] /\ tick[u] \in 0..2
        BY DEF TypeOK
      <3>2. CASE tick[u] > 0 /\ tick' = [tick EXCEPT ![u] = @ - 1]
        <4>1. tick[u] - 1 \in 0..2
          BY <3>1, <3>2
        <4> QED BY <3>1, <3>2, <4>1
      <3>3. CASE tick' = tick
        BY <3>1, <3>3
      <3> QED BY <1>2, <3>2, <3>3 DEF Poll
    <2>3. phase' \in [Conns -> Phases]
      BY <1>2 DEF Poll, TypeOK, Phases
    <2> QED BY <2>1, <2>2, <2>3, <2>4, <1>2 DEF Poll, TypeOK
  <1>3. ASSUME NEW u \in Conns, NEW n \in 0..MaxMove, InnerRead(u, n)
        PROVE TypeOK'
    <2>1. n \in Nat
      BY MaxMoveAssumption
    <2>2. Move(u, "down", n)
      BY <1>3 DEF InnerRead
    <2>3. /\ moved' \in [Conns -> [Dirs -> Nat]]
          /\ unsent' \in [Conns -> [Dirs -> Nat]]
      BY <1>0, <2>1, <2>2, MoveType
    <2> QED BY <2>3, <1>3 DEF InnerRead, TypeOK, Phases
  <1>4. ASSUME NEW u \in Conns, Write(u) PROVE TypeOK'
    <2>1. Move(u, "up", 1)
      BY <1>4 DEF Write
    <2>2. /\ moved' \in [Conns -> [Dirs -> Nat]]
          /\ unsent' \in [Conns -> [Dirs -> Nat]]
      BY <1>0, <2>1, MoveType
    <2> QED BY <2>2, <1>4 DEF Write, TypeOK
  <1>5. ASSUME NEW u \in Conns, Drop(u) PROVE TypeOK'
    <2>1. chan' \in Seq(Event)
      BY <1>5, EventsType, ConcatProperties DEF Drop, TypeOK
    <2> QED BY <1>0, <2>1, <1>5 DEF Drop, TypeOK, Phases
  <1>6. ASSUME NEW u \in Conns, StopConnection(u) PROVE TypeOK'
    BY <1>6 DEF StopConnection, TakeAndSend, TypeOK, Phases
  <1>7. ASSUME RecvEvent PROVE TypeOK'
    <2>1. /\ chan' \in Seq(Event)
          /\ Head(chan) \in Event
      BY <1>7, HeadTailProperties DEF RecvEvent, TypeOK
    <2>2. Head(chan).uuid \in Conns /\ Head(chan).n \in Nat
      BY <2>1 DEF Event
    <2>3. CASE InputNew(Head(chan).uuid)
      BY <1>0, <1>7, <2>1, <2>2, <2>3 DEF RecvEvent, InputNew, Orphan, TypeOK
    <2>4. CASE InputSetStopper(Head(chan).uuid)
      BY <1>7, <2>1, <2>2, <2>4 DEF RecvEvent, InputSetStopper, Orphan, TypeOK
    <2>5. CASE \E d \in Dirs : InputBytes(Head(chan).uuid, d, Head(chan).n)
      <3>1. PICK d \in Dirs : InputBytes(Head(chan).uuid, d, Head(chan).n)
        BY <2>5
      <3>2. count' \in [Conns -> [Dirs -> Nat]]
        <4>1. count \in [Conns -> [Dirs -> Nat]]
          BY DEF TypeOK
        <4>2. [count EXCEPT ![Head(chan).uuid][d] = @ + Head(chan).n]
                  \in [Conns -> [Dirs -> Nat]]
          BY <4>1, <2>2, AddType
        <4> QED BY <3>1, <4>1, <4>2 DEF InputBytes
      <3>3. total' \in [Dirs -> Nat]
        <4>1. total \in [Dirs -> Nat] /\ total[d] + Head(chan).n \in Nat
          BY <2>2 DEF TypeOK
        <4>2. [total EXCEPT ![d] = @ + Head(chan).n] \in [Dirs -> Nat]
          BY <4>1
        <4> QED BY <3>1, <4>1, <4>2 DEF InputBytes
      <3> QED BY <1>7, <2>1, <3>1, <3>2, <3>3 DEF RecvEvent, InputBytes, TypeOK
    <2>6. CASE InputClose(Head(chan).uuid)
      BY <1>0, <1>7, <2>1, <2>2, <2>6 DEF RecvEvent, InputClose, Orphan, TypeOK
    <2> QED BY <1>0, <1>7, <2>3, <2>4, <2>5, <2>6 DEF RecvEvent
  <1>8. ASSUME Heartbeat PROVE TypeOK'
    BY <1>8 DEF Heartbeat, TypeOK
  <1>9. ASSUME StopHeartbeat PROVE TypeOK'
    BY <1>9 DEF StopHeartbeat, TypeOK
  <1>10. ASSUME Drain PROVE TypeOK'
    <2>1. CASE DrainStart
      BY <2>1 DEF DrainStart, TypeOK
    <2>2. CASE DrainCheck
      BY <2>2 DEF DrainCheck, TypeOK
    <2>3. ASSUME NEW u \in Conns, DrainVisit(u) PROVE TypeOK'
      <3>1. drain' \in [pc : {"off", "check", "iterate", "exited"},
                         todo : SUBSET Conns, seen : SUBSET Conns]
        BY <2>3 DEF DrainVisit, TypeOK
      <3>2. CASE u \in stopper /\ TakeAndSend(u)
        BY <2>3, <3>1, <3>2 DEF DrainVisit, TakeAndSend, TypeOK
      <3>3. CASE UNCHANGED <<stopper, stop, asked>>
        BY <2>3, <3>1, <3>3 DEF DrainVisit, TypeOK
      <3> QED BY <2>3, <3>2, <3>3 DEF DrainVisit
    <2>4. CASE DrainYield
      BY <2>4 DEF DrainYield, TypeOK
    <2> QED BY <1>10, <2>1, <2>2, <2>3, <2>4 DEF Drain
  <1>11. CASE UNCHANGED vars
    BY <1>11 DEF vars, TypeOK
  <1> QED
    BY <1>1, <1>2, <1>3, <1>4, <1>5, <1>6, <1>7, <1>8, <1>9, <1>10, <1>11
    DEF Next, Serving, Owner

\* Every reachable state of the table, the channel and the owners is well
\* typed, whatever the number of connections and the traffic: in particular a
\* heartbeat backlog never exceeds the two items a broadcast channel of
\* capacity 1 yields, and a stop sender is kept only in an entry of the map.
THEOREM TypeCorrect == Spec => []TypeOK
  <1>1. Zero \in [Dirs -> Nat]
    BY DEF Zero
  <1>2. Init => TypeOK
    BY <1>1 DEF Init, TypeOK, Phases, DrainIdle
  <1> QED BY <1>2, TypeStep, PTL DEF Spec

-----------------------------------------------------------------------------
(* What sending and receiving do to Has and to InOrder.                    *)

\* Taking the head off a channel removes that event and no other.
LEMMA TailHas ==
    ASSUME NEW q \in Seq(Event), q # <<>>, NEW u, NEW t
    PROVE  Has(q, u, t) <=> \/ Head(q).uuid = u /\ Head(q).type = t
                           \/ Has(Tail(q), u, t)
  <1>1. /\ Len(q) \in Nat /\ Len(q) > 0
        /\ Head(q) = q[1]
        /\ Len(Tail(q)) = Len(q) - 1
        /\ \A i \in 1..Len(Tail(q)) : Tail(q)[i] = q[i + 1]
    BY HeadTailProperties, EmptySeq
  <1>2. ASSUME NEW i \in 1..Len(q), q[i].uuid = u, q[i].type = t
        PROVE  \/ Head(q).uuid = u /\ Head(q).type = t
               \/ Has(Tail(q), u, t)
    <2>1. CASE i = 1
      BY <2>1, <1>1, <1>2
    <2>2. CASE i # 1
      <3>1. i - 1 \in 1..Len(Tail(q)) /\ Tail(q)[i - 1] = q[i]
        BY <2>2, <1>1
      <3> QED BY <3>1, <1>2 DEF Has
    <2> QED BY <2>1, <2>2
  <1>3. ASSUME NEW i \in 1..Len(Tail(q)),
               Tail(q)[i].uuid = u, Tail(q)[i].type = t
        PROVE  Has(q, u, t)
    <2>1. i + 1 \in 1..Len(q) /\ q[i + 1] = Tail(q)[i]
      BY <1>1
    <2> QED BY <2>1, <1>3 DEF Has
  <1>4. ASSUME Head(q).uuid = u, Head(q).type = t PROVE Has(q, u, t)
    <2>1. 1 \in 1..Len(q)
      BY <1>1
    <2> QED BY <2>1, <1>1, <1>4 DEF Has
  <1> QED BY <1>2, <1>3, <1>4 DEF Has

\* Taking the head off an ordered channel leaves an ordered one, and what is
\* left of the connection of the head is what may follow the head.
LEMMA TailInOrder ==
    ASSUME NEW q \in Seq(Event), q # <<>>, InOrder(q)
    PROVE  /\ InOrder(Tail(q))
           /\ \A t : Has(Tail(q), Head(q).uuid, t) =>
                /\ t # "New"
                /\ Head(q).type # "CloseConnection"
                /\ t = "SetStopper" => Head(q).type = "New"
  <1>1. /\ Len(q) \in Nat /\ Len(q) > 0
        /\ Head(q) = q[1]
        /\ Len(Tail(q)) = Len(q) - 1
        /\ \A i \in 1..Len(Tail(q)) : Tail(q)[i] = q[i + 1]
    BY HeadTailProperties, EmptySeq
  <1>2. \A i \in 1..Len(Tail(q)) :
          i + 1 \in 1..Len(q) /\ Tail(q)[i] = q[i + 1] /\ 1 < i + 1
    BY <1>1
  <1>3. InOrder(Tail(q))
    <2> SUFFICES ASSUME NEW i \in 1..Len(Tail(q)), NEW j \in 1..Len(Tail(q)),
                        i < j, Tail(q)[i].uuid = Tail(q)[j].uuid
                 PROVE  /\ Tail(q)[j].type # "New"
                        /\ Tail(q)[i].type # "CloseConnection"
                        /\ Tail(q)[j].type = "SetStopper" =>
                             Tail(q)[i].type = "New"
      BY DEF InOrder
    <2>1. i + 1 < j + 1
      OBVIOUS
    <2> QED BY <2>1, <1>2 DEF InOrder
  <1>4. ASSUME NEW t, Has(Tail(q), Head(q).uuid, t)
        PROVE  /\ t # "New"
               /\ Head(q).type # "CloseConnection"
               /\ t = "SetStopper" => Head(q).type = "New"
    <2>1. PICK i \in 1..Len(Tail(q)) :
            Tail(q)[i].uuid = Head(q).uuid /\ Tail(q)[i].type = t
      BY <1>4 DEF Has
    <2>2. 1 \in 1..Len(q)
      BY <1>1
    <2> QED BY <2>1, <2>2, <1>1, <1>2 DEF InOrder
  <1> QED BY <1>3, <1>4

\* Sending adds exactly the events that are sent.
LEMMA ConcatHas ==
    ASSUME NEW q \in Seq(Event), NEW es \in Seq(Event), NEW u, NEW t
    PROVE  Has(q \o es, u, t) <=> Has(q, u, t) \/ Has(es, u, t)
  <1>1. /\ Len(q) \in Nat /\ Len(es) \in Nat
        /\ Len(q \o es) = Len(q) + Len(es)
        /\ \A i \in 1..Len(q) + Len(es) :
             (q \o es)[i] = IF i <= Len(q) THEN q[i] ELSE es[i - Len(q)]
    BY ConcatProperties
  <1>2. ASSUME NEW i \in 1..Len(q \o es),
               (q \o es)[i].uuid = u, (q \o es)[i].type = t
        PROVE  Has(q, u, t) \/ Has(es, u, t)
    <2>1. CASE i <= Len(q)
      BY <2>1, <1>1, <1>2 DEF Has
    <2>2. CASE ~(i <= Len(q))
      <3>1. i - Len(q) \in 1..Len(es)
        BY <2>2, <1>1
      <3> QED BY <3>1, <2>2, <1>1, <1>2 DEF Has
    <2> QED BY <2>1, <2>2
  <1>3. ASSUME NEW i \in 1..Len(q), q[i].uuid = u, q[i].type = t
        PROVE  Has(q \o es, u, t)
    <2>1. i \in 1..Len(q \o es) /\ (q \o es)[i] = q[i]
      BY <1>1
    <2> QED BY <2>1, <1>3 DEF Has
  <1>4. ASSUME NEW i \in 1..Len(es), es[i].uuid = u, es[i].type = t
        PROVE  Has(q \o es, u, t)
    <2>1. i + Len(q) \in 1..Len(q \o es) /\ (q \o es)[i + Len(q)] = es[i]
      BY <1>1
    <2> QED BY <2>1, <1>4 DEF Has
  <1> QED BY <1>2, <1>3, <1>4 DEF Has

\* Sending keeps the order when the events sent are in order and each of them
\* may follow every event of its connection that is already there.
LEMMA ConcatInOrder ==
    ASSUME NEW q \in Seq(Event), NEW es \in Seq(Event),
           InOrder(q), InOrder(es),
           \A u, s, t : Has(q, u, s) /\ Has(es, u, t) =>
             /\ t # "New"
             /\ s # "CloseConnection"
             /\ t = "SetStopper" => s = "New"
    PROVE  InOrder(q \o es)
  <1>1. /\ Len(q) \in Nat /\ Len(es) \in Nat
        /\ Len(q \o es) = Len(q) + Len(es)
        /\ \A i \in 1..Len(q) + Len(es) :
             (q \o es)[i] = IF i <= Len(q) THEN q[i] ELSE es[i - Len(q)]
    BY ConcatProperties
  <1> SUFFICES ASSUME NEW i \in 1..Len(q \o es), NEW j \in 1..Len(q \o es),
                      i < j, (q \o es)[i].uuid = (q \o es)[j].uuid
               PROVE  /\ (q \o es)[j].type # "New"
                      /\ (q \o es)[i].type # "CloseConnection"
                      /\ (q \o es)[j].type = "SetStopper" =>
                           (q \o es)[i].type = "New"
    BY DEF InOrder
  <1>2. CASE j <= Len(q)
    <2>1. /\ i \in 1..Len(q) /\ j \in 1..Len(q)
          /\ (q \o es)[i] = q[i] /\ (q \o es)[j] = q[j]
      BY <1>1, <1>2
    <2> QED BY <2>1 DEF InOrder
  <1>3. CASE i <= Len(q) /\ ~(j <= Len(q))
    <2>1. /\ i \in 1..Len(q) /\ j - Len(q) \in 1..Len(es)
          /\ (q \o es)[i] = q[i] /\ (q \o es)[j] = es[j - Len(q)]
      BY <1>1, <1>3
    <2>2. /\ Has(q, q[i].uuid, q[i].type)
          /\ Has(es, q[i].uuid, es[j - Len(q)].type)
      BY <2>1 DEF Has
    <2> QED BY <2>1, <2>2
  <1>4. CASE ~(i <= Len(q))
    <2>1. /\ i - Len(q) \in 1..Len(es) /\ j - Len(q) \in 1..Len(es)
          /\ i - Len(q) < j - Len(q)
          /\ (q \o es)[i] = es[i - Len(q)] /\ (q \o es)[j] = es[j - Len(q)]
      BY <1>1, <1>4
    <2> QED BY <2>1 DEF InOrder
  <1> QED BY <1>1, <1>2, <1>3, <1>4

\* The three ways to send: a report, the events of a new connection, and the
\* close of a dropped one.
LEMMA SentEvents ==
    ASSUME TypeOK, NEW u \in Conns
    PROVE  /\ InOrder(get_events(u))
           /\ \A v, t : Has(get_events(u), v, t) =>
                v = u /\ t \in {"Read", "Write"}
           /\ InOrder(NewEvents(u))
           /\ \A v, t : Has(NewEvents(u), v, t) <=>
                v = u /\ t \in {"New", "SetStopper"}
           /\ InOrder(<<Ev(u, "CloseConnection", 0)>>)
           /\ \A v, t : Has(<<Ev(u, "CloseConnection", 0)>>, v, t) <=>
                v = u /\ t = "CloseConnection"
  <1>1. \A i \in 1..Len(get_events(u)) :
          /\ get_events(u)[i].uuid = u
          /\ get_events(u)[i].type \in {"Read", "Write"}
    BY DEF get_events, Ev
  <1>2. InOrder(get_events(u))
    BY <1>1 DEF InOrder
  <1>3. \A v, t : Has(get_events(u), v, t) => v = u /\ t \in {"Read", "Write"}
    BY <1>1 DEF Has
  <1>4. /\ Len(NewEvents(u)) = 2
        /\ NewEvents(u)[1].uuid = u /\ NewEvents(u)[1].type = "New"
        /\ NewEvents(u)[2].uuid = u /\ NewEvents(u)[2].type = "SetStopper"
    BY DEF NewEvents, Ev
  <1>5. InOrder(NewEvents(u))
    BY <1>4 DEF InOrder
  <1>6. \A v, t : Has(NewEvents(u), v, t) <=>
          v = u /\ t \in {"New", "SetStopper"}
    <2>1. 1 \in 1..2 /\ 2 \in 1..2 /\ \A i \in 1..2 : i = 1 \/ i = 2
      OBVIOUS
    <2> QED BY <1>4, <2>1 DEF Has
  <1>7. /\ InOrder(<<Ev(u, "CloseConnection", 0)>>)
        /\ \A v, t : Has(<<Ev(u, "CloseConnection", 0)>>, v, t) <=>
             v = u /\ t = "CloseConnection"
    <2>1. /\ Len(<<Ev(u, "CloseConnection", 0)>>) = 1
          /\ <<Ev(u, "CloseConnection", 0)>>[1].uuid = u
          /\ <<Ev(u, "CloseConnection", 0)>>[1].type = "CloseConnection"
      BY DEF Ev
    <2>2. 1 \in 1..1 /\ \A i \in 1..1 : i = 1
      OBVIOUS
    <2> QED BY <2>1, <2>2 DEF Has, InOrder
  <1> QED BY <1>2, <1>3, <1>5, <1>6, <1>7

-----------------------------------------------------------------------------
(* The inductive invariant.                                                *)

\* What holds of one connection: how its phase, its entry, its stopper and
\* its oneshot agree with the events of it that are still on the channel.
ConnInv(u) ==
    /\ InChan(u, "New") => u \notin listed
    /\ InChan(u, "SetStopper") =>
         u \notin stopper /\ stop[u] = "armed"
         /\ (u \in listed \/ InChan(u, "New"))
    /\ phase[u] = "unborn" =>
         u \notin listed /\ stop[u] = "armed"
         /\ \A t \in EventTypes : ~InChan(u, t)
    /\ InChan(u, "CloseConnection") => phase[u] = "dropped"
    /\ phase[u] \in Held => u \in listed \/ InChan(u, "New")
    /\ phase[u] = "dropped" /\ (u \in listed \/ InChan(u, "New")) =>
         InChan(u, "CloseConnection")
    /\ stop[u] = "fired" => u \in asked
    /\ stop[u] = "orphaned" => phase[u] = "dropped"
    /\ phase[u] = "aborted" => u \in asked
    /\ phase[u] \in Held /\ u \notin asked =>
         u \in stopper \/ InChan(u, "SetStopper")

\* None of the safety properties is inductive by itself; together with the
\* order of the channel and the facts above they are.
IInv == TypeOK /\ EventsInOrder /\ \A u \in Conns : ConnInv(u)

\* A report of u disturbs nothing but u's counters.
LEMMA ReportSent ==
    ASSUME IInv, NEW u \in Conns, phase[u] \in Held
    PROVE  /\ chan \o get_events(u) \in Seq(Event)
           /\ InOrder(chan \o get_events(u))
           /\ \A v : \A t \in {"New", "SetStopper", "CloseConnection"} :
                Has(chan \o get_events(u), v, t) <=> Has(chan, v, t)
           /\ \A v, t : v # u =>
                (Has(chan \o get_events(u), v, t) <=> Has(chan, v, t))
  <1>1. TypeOK /\ ConnInv(u) /\ InOrder(chan)
    BY DEF IInv, EventsInOrder
  <1>2. chan \in Seq(Event) /\ get_events(u) \in Seq(Event)
    BY <1>1, EventsType DEF TypeOK
  <1>3. /\ InOrder(get_events(u))
        /\ \A v, t : Has(get_events(u), v, t) =>
             v = u /\ t \in {"Read", "Write"}
    BY <1>1, SentEvents
  <1>4. \A v, t : Has(chan \o get_events(u), v, t) <=>
                   Has(chan, v, t) \/ Has(get_events(u), v, t)
    BY <1>2, ConcatHas
  <1>5. ~Has(chan, u, "CloseConnection")
    BY <1>1 DEF ConnInv, Held, InChan
  <1>6. InOrder(chan \o get_events(u))
    BY <1>1, <1>2, <1>3, <1>5, ConcatInOrder
  <1>7. chan \o get_events(u) \in Seq(Event)
    BY <1>2, ConcatProperties
  <1> QED BY <1>3, <1>4, <1>6, <1>7

\* Each step preserves the inductive invariant.
LEMMA IInvStep == IInv /\ [Next]_vars => IInv'
  <1> SUFFICES ASSUME IInv, [Next]_vars PROVE IInv'
    OBVIOUS
  <1>1. TypeOK /\ TypeOK' /\ InOrder(chan) /\ \A v \in Conns : ConnInv(v)
    BY TypeStep DEF IInv, EventsInOrder
  <1>2. chan \in Seq(Event) /\ chan' \in Seq(Event)
    BY <1>1 DEF TypeOK
  <1> SUFFICES InOrder(chan') /\ \A v \in Conns : ConnInv(v)'
    BY <1>1 DEF IInv, EventsInOrder
  <1>3. ASSUME NEW u \in Conns, NewConnection(u)
        PROVE  InOrder(chan') /\ \A v \in Conns : ConnInv(v)'
    <2>1. /\ phase[u] = "unborn" /\ phase' = [phase EXCEPT ![u] = "live"]
          /\ chan' = chan \o NewEvents(u)
          /\ UNCHANGED <<stop, listed, stopper, asked>>
      BY <1>3 DEF NewConnection
    <2>2. \A t : ~Has(chan, u, t)
      <3>1. \A t \in EventTypes : ~Has(chan, u, t)
        BY <1>1, <2>1 DEF ConnInv, InChan
      <3>2. \A i \in 1..Len(chan) : chan[i].type \in EventTypes
        <4>1. \A i \in 1..Len(chan) : chan[i] \in Event
          BY <1>2, ElementOfSeq
        <4> QED BY <4>1 DEF Event
      <3> QED BY <3>1, <3>2 DEF Has
    <2>3. NewEvents(u) \in Seq(Event)
      BY <1>1, EventsType
    <2>4. /\ InOrder(NewEvents(u))
          /\ \A v, t : Has(NewEvents(u), v, t) <=>
               v = u /\ t \in {"New", "SetStopper"}
      BY <1>1, SentEvents
    <2>5. InOrder(chan')
      BY <1>1, <1>2, <2>1, <2>2, <2>3, <2>4, ConcatInOrder
    <2>6. \A v, t : Has(chan', v, t) <=>
            Has(chan, v, t) \/ (v = u /\ t \in {"New", "SetStopper"})
      BY <1>2, <2>1, <2>3, <2>4, ConcatHas
    <2>7. ASSUME NEW v \in Conns PROVE ConnInv(v)'
      <3>1. ConnInv(v)
        BY <1>1
      <3>2. CASE v = u
        <4>1. /\ phase'[u] = "live" /\ stop'[u] = "armed"
              /\ u \notin listed' /\ u \notin stopper'
          BY <1>1, <2>1 DEF ConnInv, TypeOK
        <4>2. /\ Has(chan', u, "New") /\ Has(chan', u, "SetStopper")
              /\ ~Has(chan', u, "CloseConnection")
          BY <2>2, <2>6
        <4> QED BY <3>2, <4>1, <4>2 DEF ConnInv, InChan, Held
      <3>3. CASE v # u
        BY <1>1, <2>1, <2>6, <3>1, <3>3 DEF ConnInv, InChan, Held, TypeOK
      <3> QED BY <3>2, <3>3
    <2> QED BY <2>5, <2>7
  <1>4. ASSUME NEW u \in Conns, Poll(u)
        PROVE  InOrder(chan') /\ \A v \in Conns : ConnInv(v)'
    <2>1. /\ phase[u] = "live" /\ phase[u] \in Held
          /\ phase' = [phase EXCEPT ![u] =
                          IF stop[u] # "armed" THEN "aborted" ELSE "checked"]
          /\ chan' = chan \/ chan' = chan \o get_events(u)
          /\ UNCHANGED <<stop, listed, stopper, asked>>
      BY <1>4 DEF Poll, Flush, Held
    <2>2. /\ InOrder(chan')
          /\ \A v : \A t \in {"New", "SetStopper", "CloseConnection"} :
               Has(chan', v, t) <=> Has(chan, v, t)
          /\ \A v, t : v # u => (Has(chan', v, t) <=> Has(chan, v, t))
      BY <1>1, <2>1, ReportSent
    <2>3. ASSUME NEW v \in Conns PROVE ConnInv(v)'
      <3>1. ConnInv(v) /\ stop[v] \in {"armed", "fired", "orphaned"}
        BY <1>1 DEF TypeOK
      <3>2. CASE v = u
        BY <1>1, <2>1, <2>2, <3>1, <3>2 DEF ConnInv, InChan, Held, TypeOK
      <3>3. CASE v # u
        BY <1>1, <2>1, <2>2, <3>1, <3>3 DEF ConnInv, InChan, Held, TypeOK
      <3> QED BY <3>2, <3>3
    <2> QED BY <2>2, <2>3
  <1>5. ASSUME NEW u \in Conns, NEW n \in 0..MaxMove, InnerRead(u, n)
        PROVE  InOrder(chan') /\ \A v \in Conns : ConnInv(v)'
    <2>1. /\ phase[u] = "checked" /\ phase' = [phase EXCEPT ![u] = "live"]
          /\ UNCHANGED <<chan, stop, listed, stopper, asked>>
      BY <1>5 DEF InnerRead
    <2>2. ASSUME NEW v \in Conns PROVE ConnInv(v)'
      BY <1>1, <2>1 DEF ConnInv, InChan, Held, TypeOK
    <2> QED BY <1>1, <2>1, <2>2
  <1>6. ASSUME NEW u \in Conns, Drop(u)
        PROVE  InOrder(chan') /\ \A v \in Conns : ConnInv(v)'
    <2> DEFINE q == chan \o get_events(u)
               es == <<Ev(u, "CloseConnection", 0)>>
    <2>1. /\ phase[u] \in {"live", "aborted"} /\ phase[u] \in Held
          /\ phase' = [phase EXCEPT ![u] = "dropped"]
          /\ chan' = q \o es
          /\ UNCHANGED <<stop, listed, stopper, asked>>
      BY <1>6 DEF Drop, Held
    <2>2. /\ q \in Seq(Event) /\ InOrder(q)
          /\ \A v : \A t \in {"New", "SetStopper", "CloseConnection"} :
               Has(q, v, t) <=> Has(chan, v, t)
          /\ \A v, t : v # u => (Has(q, v, t) <=> Has(chan, v, t))
      BY <1>1, <2>1, ReportSent
    <2>3. /\ es \in Seq(Event) /\ InOrder(es)
          /\ \A v, t : Has(es, v, t) <=> v = u /\ t = "CloseConnection"
      BY <1>1, EventsType, SentEvents
    <2> HIDE DEF q, es
    <2>4. ~Has(q, u, "CloseConnection")
      BY <1>1, <2>1, <2>2 DEF ConnInv, InChan, Held
    <2>5. InOrder(chan')
      BY <2>1, <2>2, <2>3, <2>4, ConcatInOrder
    <2>6. \A v, t : Has(chan', v, t) <=> Has(q, v, t) \/ Has(es, v, t)
      BY <2>1, <2>2, <2>3, ConcatHas
    <2>7. ASSUME NEW v \in Conns PROVE ConnInv(v)'
      <3>1. ConnInv(v)
        BY <1>1
      <3>2. CASE v = u
        BY <1>1, <2>1, <2>2, <2>3, <2>6, <3>1, <3>2
        DEF ConnInv, InChan, Held, TypeOK
      <3>3. CASE v # u
        BY <1>1, <2>1, <2>2, <2>3, <2>6, <3>1, <3>3
        DEF ConnInv, InChan, Held, TypeOK
      <3> QED BY <3>2, <3>3
    <2> QED BY <2>5, <2>7
  <1>7. ASSUME RecvEvent
        PROVE  InOrder(chan') /\ \A v \in Conns : ConnInv(v)'
    <2> DEFINE u == Head(chan).uuid
               e == Head(chan).type
    <2>1. chan # <<>> /\ chan' = Tail(chan) /\ UNCHANGED <<phase, asked>>
      BY <1>7 DEF RecvEvent
    <2>2. u \in Conns /\ e \in EventTypes
      <3>1. Head(chan) \in Event
        BY <1>2, <2>1, HeadTailProperties
      <3> QED BY <3>1 DEF Event
    <2>3. /\ InOrder(chan')
          /\ \A t : Has(chan', u, t) =>
               /\ t # "New"
               /\ e # "CloseConnection"
               /\ t = "SetStopper" => e = "New"
      BY <1>1, <1>2, <2>1, TailInOrder
    <2>4. \A v, t : Has(chan, v, t) <=> (u = v /\ e = t) \/ Has(chan', v, t)
      BY <1>2, <2>1, TailHas
    <2>5. \/ e = "New" /\ InputNew(u)
          \/ e = "SetStopper" /\ InputSetStopper(u)
          \/ e \in {"Read", "Write"} /\ UNCHANGED <<listed, stopper, stop>>
          \/ e = "CloseConnection" /\ InputClose(u)
      BY <1>7 DEF RecvEvent, InputBytes
    <2>6. ConnInv(u) /\ Has(chan, u, e)
      BY <1>1, <2>2, <2>4
    <2> HIDE DEF u, e
    <2>7. CASE e = "New" /\ InputNew(u)
      <3>1. u \notin listed /\ u \notin stopper
        BY <1>1, <2>6, <2>7 DEF ConnInv, InChan, TypeOK
      <3>2. stopper' = stopper /\ stop' = stop /\ listed' = listed \cup {u}
        BY <1>1, <2>7, <3>1 DEF InputNew, Orphan, TypeOK
      <3>3. ASSUME NEW v \in Conns PROVE ConnInv(v)'
        <4>1. CASE v = u
          <5>1. phase[u] # "unborn" /\ ~Has(chan', u, "New") /\ u \in listed'
            BY <2>3, <2>6, <2>7, <3>2 DEF ConnInv, InChan, EventTypes
          <5>2. /\ Has(chan', u, "SetStopper") <=> Has(chan, u, "SetStopper")
                /\ Has(chan', u, "CloseConnection") <=>
                     Has(chan, u, "CloseConnection")
            BY <2>4, <2>7
          <5>3. phase' = phase /\ asked' = asked
            BY <2>1
          <5> QED BY <2>6, <2>7, <3>1, <3>2, <4>1, <5>1, <5>2, <5>3
                  DEF ConnInv, InChan, Held
        <4>2. CASE v # u
          BY <1>1, <2>1, <2>4, <3>2, <4>2 DEF ConnInv, InChan, Held
        <4> QED BY <4>1, <4>2
      <3> QED BY <2>3, <3>3
    <2>8. CASE e = "SetStopper" /\ InputSetStopper(u)
      <3>1. u \notin stopper /\ u \in listed
        BY <2>3, <2>4, <2>6, <2>8 DEF ConnInv, InChan
      <3>2. stopper' = stopper \cup {u} /\ stop' = stop /\ listed' = listed
        BY <1>1, <2>8, <3>1 DEF InputSetStopper, Orphan, TypeOK
      <3>3. ASSUME NEW v \in Conns PROVE ConnInv(v)'
        BY <1>1, <2>1, <2>3, <2>4, <2>6, <2>8, <3>1, <3>2
        DEF ConnInv, InChan, Held
      <3> QED BY <2>3, <3>3
    <2>9. CASE e \in {"Read", "Write"} /\ UNCHANGED <<listed, stopper, stop>>
      <3>1. ASSUME NEW v \in Conns PROVE ConnInv(v)'
        BY <1>1, <2>1, <2>4, <2>9 DEF ConnInv, InChan, Held
      <3> QED BY <2>3, <3>1
    <2>10. CASE e = "CloseConnection" /\ InputClose(u)
      <3>1. phase[u] = "dropped"
        BY <2>6, <2>10 DEF ConnInv, InChan
      <3>2. listed' = listed \ {u} /\ stopper' = stopper \ {u}
        BY <2>10 DEF InputClose
      <3>3. \A v \in Conns :
              stop'[v] = stop[v] \/ (v = u /\ stop'[v] = "orphaned")
        BY <2>10 DEF InputClose, Orphan
      <3>4. \A t : ~Has(chan', u, t)
        BY <2>3, <2>10
      <3>5. ASSUME NEW v \in Conns PROVE ConnInv(v)'
        <4>1. CASE v = u
          BY <2>1, <2>6, <3>1, <3>2, <3>3, <3>4, <4>1 DEF ConnInv, InChan, Held
        <4>2. CASE v # u
          BY <1>1, <2>1, <2>4, <3>2, <3>3, <4>2 DEF ConnInv, InChan, Held
        <4> QED BY <4>1, <4>2
      <3> QED BY <2>3, <3>5
    <2> QED BY <2>5, <2>7, <2>8, <2>9, <2>10
  <1>8. ASSUME NEW u \in Conns, TakeAndSend(u), UNCHANGED <<phase, chan, listed>>
        PROVE  InOrder(chan') /\ \A v \in Conns : ConnInv(v)'
    <2>1. u \in stopper /\ u \in listed /\ ConnInv(u)
      BY <1>1, <1>8 DEF TakeAndSend, TypeOK
    <2>2. /\ stopper' = stopper \ {u}
          /\ stop'[u] = IF phase[u] \in Held THEN "fired" ELSE "orphaned"
          /\ \A v \in Conns : v # u => stop'[v] = stop[v]
          /\ asked' = IF phase[u] \in Held THEN asked \cup {u} ELSE asked
      BY <1>1, <1>8 DEF TakeAndSend, TypeOK
    <2>3. phase[u] \in Held \/ phase[u] = "dropped"
      BY <1>1, <2>1 DEF ConnInv, TypeOK, Phases, Held
    <2>4. ASSUME NEW v \in Conns PROVE ConnInv(v)'
      <3>1. CASE v = u
        BY <1>8, <2>1, <2>2, <2>3, <3>1 DEF ConnInv, InChan, Held
      <3>2. CASE v # u
        BY <1>1, <1>8, <2>2, <3>2 DEF ConnInv, InChan, Held
      <3> QED BY <3>1, <3>2
    <2> QED BY <1>1, <1>8, <2>4
  <1>9. ASSUME UNCHANGED <<phase, stop, chan, listed, stopper, asked>>
        PROVE  InOrder(chan') /\ \A v \in Conns : ConnInv(v)'
    BY <1>1, <1>9 DEF ConnInv, InChan, Held
  <1>10. ASSUME NEW u \in Conns, DrainVisit(u)
         PROVE  InOrder(chan') /\ \A v \in Conns : ConnInv(v)'
    <2>1. UNCHANGED <<phase, chan, listed>>
      BY <1>10 DEF DrainVisit
    <2>2. TakeAndSend(u) \/ UNCHANGED <<stopper, stop, asked>>
      BY <1>10 DEF DrainVisit
    <2> QED BY <1>8, <1>9, <2>1, <2>2
  <1>11. ASSUME NEW u \in Conns, StopConnection(u)
         PROVE  InOrder(chan') /\ \A v \in Conns : ConnInv(v)'
    BY <1>8, <1>11 DEF StopConnection
  <1>12. ASSUME \/ \E u \in Conns : Write(u)
                \/ Heartbeat \/ StopHeartbeat
                \/ DrainStart \/ DrainCheck \/ DrainYield \/ UNCHANGED vars
         PROVE  InOrder(chan') /\ \A v \in Conns : ConnInv(v)'
    <2>1. UNCHANGED <<phase, stop, chan, listed, stopper, asked>>
      BY <1>12 DEF Write, Heartbeat, StopHeartbeat, DrainStart, DrainCheck,
                   DrainYield, vars
    <2> QED BY <1>9, <2>1
  <1> QED
    BY <1>3, <1>4, <1>5, <1>6, <1>7, <1>10, <1>11, <1>12
    DEF Next, Serving, Owner, Drain

\* The inductive invariant holds in every reachable state.
LEMMA IInvHolds == Spec => []IInv
  <1>1. Init => IInv
    <2>1. ASSUME Init PROVE TypeOK
      <3>1. Zero \in [Dirs -> Nat]
        BY DEF Zero
      <3> QED BY <2>1, <3>1 DEF Init, TypeOK, Phases, DrainIdle
    <2>2. ASSUME Init PROVE EventsInOrder /\ \A u \in Conns : ConnInv(u)
      <3>1. Len(chan) = 0 /\ 1..0 = {}
        BY <2>2 DEF Init
      <3>2. InOrder(chan) /\ \A u, t : ~Has(chan, u, t)
        BY <3>1 DEF InOrder, Has
      <3> QED BY <2>2, <3>2 DEF Init, EventsInOrder, ConnInv, InChan, Held
    <2> QED BY <2>1, <2>2 DEF IInv
  <1> QED BY <1>1, IInvStep, PTL DEF Spec

\* The channel presents the events of each connection in order: New, then its
\* SetStopper, then reports, and CloseConnection last (Connection::new, Drop).
THEOREM ChannelOrdered == Spec => []EventsInOrder
  <1>1. IInv => EventsInOrder
    BY DEF IInv
  <1> QED BY <1>1, IInvHolds, PTL

\* For any number of connections, the table follows the connections: those in
\* use are listed or about to be, and entries of dropped ones are about to go.
THEOREM TableTracks == Spec => []TableTracksConnections
  <1>1. IInv => TableTracksConnections
    <2> SUFFICES ASSUME IInv, NEW u \in Conns
                 PROVE  /\ phase[u] \in Held =>
                             u \in listed \/ InChan(u, "New")
                        /\ u \in listed /\ phase[u] \notin Held =>
                             InChan(u, "CloseConnection")
      BY DEF TableTracksConnections
    <2>1. ConnInv(u) /\ phase[u] \in Phases
      BY DEF IInv, TypeOK
    <2> QED BY <2>1 DEF ConnInv, Phases, Held
  <1> QED BY <1>1, IInvHolds, PTL

\* For any number of connections, "Aborted by user" is reported only by a
\* connection that somebody stopped: no order of the events on the channel, of
\* heartbeats and of the draining loop drops the sender of one in use.
THEOREM AbortsAreAsked == Spec => []NoSpuriousAbort
  <1>1. IInv => NoSpuriousAbort
    BY DEF IInv, ConnInv, NoSpuriousAbort
  <1> QED BY <1>1, IInvHolds, PTL

\* For any number of connections, one in use that nobody stopped has, or is
\* about to have, a stop sender in its entry.
THEOREM ConnectionsAreStoppable == Spec => []Stoppable
  <1>1. IInv => Stoppable
    BY DEF IInv, ConnInv, Stoppable
  <1> QED BY <1>1, IInvHolds, PTL
=============================================================================
