-------------------------------- MODULE UdpRelay --------------------------------
(***************************************************************************)
(* connect_udp (src/rd-std/src/context/connect_udp.rs): the task that      *)
(* copies packets between a UdpChannel a and a UdpSocket b.  Direction     *)
(* "send" reads a and writes b, "recv" reads b and writes a.  The socket b *)
(* is the WrapUdpSocket of running.rs, which listens for a stop when it is *)
(* read, over a UdpConnector (util/udp_connector.rs), which is bound when  *)
(* the first packet is sent, or over a socket that is bound already.       *)
(*                                                                         *)
(* As in TcpRelay the task is polled and sleeps until a waker it left is   *)
(* called.  The packets of a direction are numbered by their arrival; a    *)
(* sink takes at most Room packets ahead of its consumer.                  *)
(* The heartbeat of the connection, which only makes the task poll once    *)
(* more, and its reports are left to TcpRelay and ConnectionManager.       *)
(***************************************************************************)
EXTENDS CopyBuffer

CONSTANTS
    Lazy,       \* b is a UdpConnector
    MaxSend,    \* bound: packets that arrive at a
    MaxRecv,    \* bound: packets that arrive at b
    Room        \* packets a sink takes ahead of its consumer

ASSUME RelayAssumption ==
    /\ Lazy \in BOOLEAN
    /\ MaxSend \in Nat
    /\ MaxRecv \in Nat
    /\ Room \in Nat \ {0}

VARIABLES
    cb,         \* send_queue and recv_queue
    arrived,    \* packets that have come to the source of a direction
    taken,      \* packets read from it
    done,       \* packets the task has written to the sink of a direction
    sent,       \* packets sent to it, by the task or by the connector
    last,       \* the packet sent last
    room,       \* packets the sink would take now
    bind,       \* the UdpConnector and the future of its connector
    first,      \* the packet the connector was called with
    at,         \* the task: asleep, woken, in a loop of a direction, over
    dir,        \* the direction it is in
    registered, \* poll_send_to's and poll_recv_from's local of that name
    reg,        \* wakers left
    wake,       \* a waker was called since the task began its last poll
    stop,       \* the stop channel of the connection has fired
    result      \* how the task ended

connVars == <<bind, first>>
vars == <<cb, arrived, taken, done, sent, last, room, bind, first, at, dir,
          registered, reg, wake, stop, result>>

-----------------------------------------------------------------------------
Dirs == {"send", "recv"}
MaxPackets(d) == IF d = "send" THEN MaxSend ELSE MaxRecv

Sources == ({"source", "sink"} \X Dirs) \cup
           {<<"future", "send">>, <<"permit", "recv">>, <<"stop", "recv">>}

\* A CopyBuffer has at least one PacketBuffer and at most the maximum; only
\* the last slot of its queue may be unfilled.
Buffer(c) ==
    /\ c \in [pool : Nat, queue : Seq(Nat)]
    /\ c.pool + Len(c.queue) \in 1..MaxBufferSize
    /\ \A i \in 1..Len(c.queue) : c.queue[i] = None => i = Len(c.queue)

TypeOK ==
    /\ DOMAIN cb = Dirs /\ \A d \in Dirs : Buffer(cb[d])
    /\ arrived \in [Dirs -> Nat]
    /\ taken \in [Dirs -> Nat]
    /\ done \in [Dirs -> Nat]
    /\ sent \in [Dirs -> Nat]
    /\ last \in [Dirs -> Nat]
    /\ room \in [Dirs -> 0..Room]
    /\ bind \in {"Idle", "Binding", "Opened", "Failed", "Binded"}
    /\ first \in Nat
    /\ at \in {"asleep", "woken", "fill", "drain", "over"}
    /\ dir \in Dirs
    /\ registered \in BOOLEAN
    /\ reg \subseteq Sources
    /\ wake \in BOOLEAN
    /\ stop \in BOOLEAN
    /\ result \in {"none", "err", "aborted", "cancelled"}

Init ==
    /\ cb = [d \in Dirs |-> NewBuffer]
    /\ arrived = [d \in Dirs |-> 0]
    /\ taken = [d \in Dirs |-> 0]
    /\ done = [d \in Dirs |-> 0]
    /\ sent = [d \in Dirs |-> 0]
    /\ last = [d \in Dirs |-> 0]
    /\ room = [d \in Dirs |-> Room]
    /\ bind = IF Lazy THEN "Idle" ELSE "Binded"
    /\ first = 0
    /\ at = "woken"
    /\ dir = "send"
    /\ registered = FALSE
    /\ reg = {}
    /\ wake = FALSE
    /\ stop = FALSE
    /\ result = "none"

-----------------------------------------------------------------------------
(* The task: for each direction, fill the queue, then drain it, and again  *)
(* until one of the two had to wait.                                       *)

BeginPoll ==
    /\ at = "woken"
    /\ at' = "fill"
    /\ dir' = "send"
    /\ registered' = FALSE
    /\ UNCHANGED <<cb, arrived, taken, done, sent, last, room, connVars, reg, wake,
                   stop, result>>

End(r) ==
    /\ at' = "over"
    /\ result' = r

\* The first loop of direction d has a slot to read into, or none is left.
Reading(d) == at = "fill" /\ dir = d /\ HasBack(borrow_back(cb[d]))

FillNone(d) ==
    /\ at = "fill" /\ dir = d /\ ~HasBack(borrow_back(cb[d]))
    /\ cb' = [cb EXCEPT ![d] = borrow_back(@)]
    /\ at' = "drain"
    /\ UNCHANGED <<arrived, taken, done, sent, last, room, connVars, dir, registered,
                   reg, wake, stop, result>>

\* The source of d is the channel a, or the socket b once it is bound.
Open(d) == d = "send" \/ bind = "Binded"
Readable(d) == Open(d) /\ taken[d] < arrived[d]

\* Connection::poll at the head of WrapUdpSocket::poll_recv_from.
StopSeen(d) == d = "recv" /\ stop

FillAborted(d) ==
    /\ Reading(d)
    /\ StopSeen(d)
    /\ End("aborted")
    /\ UNCHANGED <<cb, arrived, taken, done, sent, last, room, connVars, dir,
                   registered, reg, wake, stop>>

\* A bug for the checks: no waker is left with the stop channel.
FillWakersNoStop(d) ==
    {IF Open(d) THEN <<"source", d>> ELSE <<"permit", d>>}

\* The wakers a pending poll of the source leaves: with the source, or with the
\* semaphore of a UdpConnector that is not bound, and with the stop channel.
FillWakers(d) ==
    {IF Open(d) THEN <<"source", d>> ELSE <<"permit", d>>}
    \cup (IF d = "recv" THEN {<<"stop", d>>} ELSE {})

FillPacket(d) ==
    /\ Reading(d)
    /\ ~StopSeen(d) /\ Readable(d)
    /\ cb' = [cb EXCEPT ![d] = fill(borrow_back(@), taken[d] + 1)]
    /\ taken' = [taken EXCEPT ![d] = @ + 1]
    /\ UNCHANGED <<arrived, done, sent, last, room, connVars, at, dir, registered,
                   reg, wake, stop, result>>

FillPending(d) ==
    /\ Reading(d)
    /\ ~StopSeen(d) /\ ~Readable(d)
    /\ cb' = [cb EXCEPT ![d] = borrow_back(@)]
    /\ registered' = TRUE
    /\ reg' = reg \cup FillWakers(d)
    /\ at' = "drain"
    /\ UNCHANGED <<arrived, taken, done, sent, last, room, connVars, dir, wake, stop,
                   result>>

\* A read fails (as does a packet that cannot be parsed).
FillError(d) ==
    /\ Reading(d)
    /\ ~StopSeen(d) /\ Open(d)
    /\ End("err")
    /\ UNCHANGED <<cb, arrived, taken, done, sent, last, room, connVars, dir,
                   registered, reg, wake, stop>>

\* Direction d returns Pending: the other one's turn, or the poll is over and
\* the task sleeps unless a waker was called.  Neither direction ever returns
\* Ready without an error.
Leave(d) ==
    IF d = "send"
      THEN /\ at' = "fill" /\ dir' = "recv" /\ registered' = FALSE
           /\ UNCHANGED wake
      ELSE /\ at' = (IF wake THEN "woken" ELSE "asleep") /\ wake' = FALSE
           /\ UNCHANGED <<dir, registered>>

\* A bug for the checks: a direction returns although nothing will wake it.
DrainedLeaves(d) ==
    /\ at = "drain" /\ dir = d /\ ~HasFront(cb[d])
    /\ Leave(d)
    /\ UNCHANGED <<cb, arrived, taken, done, sent, last, room, connVars, reg, stop,
                   result>>

\* The queue has no packet left to write.
Drained(d) ==
    /\ at = "drain" /\ dir = d /\ ~HasFront(cb[d])
    /\ IF registered THEN Leave(d)
       ELSE at' = "fill" /\ UNCHANGED <<dir, registered, wake>>
    /\ UNCHANGED <<cb, arrived, taken, done, sent, last, room, connVars, reg, stop,
                   result>>

Writing(d) == at = "drain" /\ dir = d /\ HasFront(cb[d])

\* The sink of d is the channel a, or the socket b once it is bound.
Bound(d) == d = "recv" \/ bind = "Binded"

\* A bug for the checks: the packet stays at the front of the queue.
WriteKeepsPacket(d) ==
    /\ Writing(d) /\ Bound(d) /\ room[d] > 0
    /\ done' = [done EXCEPT ![d] = @ + 1]
    /\ sent' = [sent EXCEPT ![d] = @ + 1]
    /\ last' = [last EXCEPT ![d] = Head(cb[d].queue)]
    /\ room' = [room EXCEPT ![d] = @ - 1]
    /\ UNCHANGED <<cb, arrived, taken, connVars, at, dir, registered, reg, wake,
                   stop, result>>

WritePacket(d) ==
    /\ Writing(d) /\ Bound(d) /\ room[d] > 0
    /\ done' = [done EXCEPT ![d] = @ + 1]
    /\ sent' = [sent EXCEPT ![d] = @ + 1]
    /\ last' = [last EXCEPT ![d] = Head(cb[d].queue)]
    /\ room' = [room EXCEPT ![d] = @ - 1]
    /\ cb' = [cb EXCEPT ![d] = pop_front(@)]
    /\ UNCHANGED <<arrived, taken, connVars, at, dir, registered, reg, wake,
                   stop, result>>

\* A write fails, or the one of the connector's future.
WriteError(d) ==
    /\ Writing(d) /\ (Bound(d) \/ bind = "Opened")
    /\ End("err")
    /\ UNCHANGED <<cb, arrived, taken, done, sent, last, room, connVars, dir,
                   registered, reg, wake, stop>>

\* Not writable, or the connector's future is not ready: the direction waits.
WritePending(d) ==
    /\ Writing(d)
    /\ \/ Bound(d) /\ room[d] = 0 /\ reg' = reg \cup {<<"sink", d>>}
       \/ ~Bound(d) /\ bind = "Binding" /\ reg' = reg \cup {<<"future", d>>}
    /\ Leave(d)
    /\ UNCHANGED <<cb, arrived, taken, done, sent, last, room, connVars, stop, result>>

-----------------------------------------------------------------------------
(* Wakers, and the UdpConnector under b.                                   *)

Notify(S) ==
    /\ reg' = reg \ S
    /\ IF reg \cap S = {} THEN UNCHANGED <<at, wake>>
       ELSE IF at = "asleep" THEN at' = "woken" /\ UNCHANGED wake
       ELSE wake' = TRUE /\ UNCHANGED at

\* Idle: the connector is called with the packet and gives a future.
CallConnector ==
    /\ Writing("send") /\ bind = "Idle"
    /\ bind' = "Binding"
    /\ first' = Head(cb["send"].queue)
    /\ UNCHANGED <<cb, arrived, taken, done, sent, last, room, at, dir,
                   registered, reg, wake, stop, result>>

\* Binding: once the socket is there the future sends the packet it was called
\* with (a socket just bound has room for it) and gives the socket; add_permits(1)
\* wakes the reader.  The task still has that packet to write.
Binded ==
    /\ Writing("send") /\ bind = "Opened" /\ room["send"] > 0
    /\ bind' = "Binded"
    /\ sent' = [sent EXCEPT !["send"] = @ + 1]
    /\ last' = [last EXCEPT !["send"] = first]
    /\ room' = [room EXCEPT !["send"] = @ - 1]
    /\ Notify({<<"permit", "recv">>})
    /\ UNCHANGED <<cb, arrived, taken, done, first, dir, registered, stop, result>>

\* Binding: the future gives an error.
BindError ==
    /\ Writing("send") /\ bind = "Failed"
    /\ End("err")
    /\ UNCHANGED <<cb, arrived, taken, done, sent, last, room, connVars, dir,
                   registered, reg, wake, stop>>

\* The future (RuleNet::udp_bind) has chosen the rule and the target net has
\* bound a socket, or one of them has failed.
ConnectorDone ==
    /\ at # "over" /\ bind = "Binding"
    /\ bind' \in {"Opened", "Failed"}
    /\ Notify({<<"future", "send">>})
    /\ UNCHANGED <<cb, arrived, taken, done, sent, last, room, first, dir, registered,
                   stop, result>>

-----------------------------------------------------------------------------
(* The peers, the user, and whoever awaits connect_udp.                    *)

Arrive(d) ==
    /\ at # "over"
    /\ arrived[d] < MaxPackets(d)
    /\ d = "recv" => bind \in {"Opened", "Binded"}
    /\ arrived' = [arrived EXCEPT ![d] = @ + 1]
    /\ Notify({<<"source", d>>})
    /\ UNCHANGED <<cb, taken, done, sent, last, room, connVars, dir, registered, stop,
                   result>>

Consume(d) ==
    /\ at # "over"
    /\ room[d] < Room
    /\ room' = [room EXCEPT ![d] = @ + 1]
    /\ Notify({<<"sink", d>>})
    /\ UNCHANGED <<cb, arrived, taken, done, sent, last, connVars, dir, registered,
                   stop, result>>

StopConnection ==
    /\ at # "over"
    /\ ~stop
    /\ stop' = TRUE
    /\ Notify({<<"stop", "recv">>})
    /\ UNCHANGED <<cb, arrived, taken, done, sent, last, room, connVars, dir,
                   registered, result>>

\* DropAbort: whoever awaits connect_udp is dropped.
Cancel ==
    /\ at \in {"asleep", "woken"}
    /\ End("cancelled")
    /\ UNCHANGED <<cb, arrived, taken, done, sent, last, room, connVars, dir,
                   registered, reg, wake, stop>>

-----------------------------------------------------------------------------
Direction(d) ==
    \/ FillNone(d) \/ FillAborted(d) \/ FillPacket(d) \/ FillPending(d)
    \/ Drained(d) \/ WritePacket(d) \/ WritePending(d)

Task ==
    \/ BeginPoll \/ (\E d \in Dirs : Direction(d))
    \/ CallConnector \/ Binded \/ BindError

Fault == Cancel \/ \E d \in Dirs : FillError(d) \/ WriteError(d)

Next ==
    \/ Task \/ ConnectorDone \/ StopConnection
    \/ (\E d \in Dirs : Arrive(d) \/ Consume(d))
    \/ Fault

Spec == Init /\ [][Next]_vars

\* The runtime polls a woken task, the connector's future ends, and the
\* consumers take what the sinks hold.
FairSpec ==
    /\ Spec
    /\ WF_vars(Task) /\ WF_vars(ConnectorDone)
    /\ \A d \in Dirs : WF_vars(Consume(d))

-----------------------------------------------------------------------------
(* Properties.                                                             *)

Pipe == INSTANCE UdpPipe WITH Capacity <- MaxBufferSize,
                              Twice <- IF Lazy THEN {"send"} ELSE {}

\* Each direction is a bounded pipe: packets are sent on once and in the order
\* in which they were read, however the queue grows, fills and waits, except
\* that a socket which a UdpConnector binds gets the first packet twice, and no
\* other one (CopyBuffer, poll_send_to, poll_recv_from, UdpConnector).
ImplementsPipe == Pipe!Spec

\* When the task sleeps, a direction with a packet to write waits for its sink
\* and one without has nothing to read; a stop is overlooked only while the
\* packets from b cannot be written.
NoLostWakeup ==
    at = "asleep" =>
      /\ \A d \in Dirs :
           IF HasFront(cb[d])
             THEN IF Bound(d) THEN room[d] = 0 ELSE bind = "Binding"
             ELSE ~Readable(d)
      /\ stop => HasFront(cb["recv"])

\* Given consumers that take what comes, a packet that has arrived is delivered
\* unless the relay ends, and a stop ends it (CopyBidirectional::poll,
\* WrapUdpSocket::poll_recv_from).
PacketsArrive ==
    /\ \A d \in Dirs :
         arrived[d] > done[d] ~> (at = "over" \/ done[d] = arrived[d])
    /\ stop ~> at = "over"
=============================================================================
