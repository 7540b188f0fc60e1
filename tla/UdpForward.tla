------------------------------ MODULE UdpForward ------------------------------
(***************************************************************************)
(* forward_udp of src/rd-std/src/util/forward_udp.rs over the UdpSource of *)
(* the transparent proxy (src/rd-std/src/transparent/tproxy.rs): one task  *)
(* that hands each client's packets to a session of its own, kept in a     *)
(* LruCache, and sends the sessions' replies from sockets kept in another. *)
(*                                                                         *)
(* A session runs connect_udp (see UdpRelay), here a FIFO each way: its    *)
(* channel with what the relay holds towards the net, and the shared       *)
(* send_back channel.  Polls of the forwarding task take no time.          *)
(***************************************************************************)
EXTENDS LruTimeCache, FiniteSets, FiniteSetsExt

CONSTANTS
    Clients,        \* addresses that send packets
    Flows,          \* pairs of a client and a peer it sends to
    Reserved,       \* the peers with a reserved address
    ChannelSize,    \* channel_size, of each session and of send_back
    MaxTime,        \* bound: the clock
    MaxPackets,     \* bound: packets from clients
    MaxReplies      \* bound: packets from peers

ASSUME ForwardAssumption ==
    /\ CacheBounds
    /\ IsFiniteSet(Clients)
    /\ \A f \in Flows : f[1] \in Clients
    /\ MaxPackets \in Nat

VARIABLES
    now,        \* the clock
    input,      \* packets at the source, at most one
    sent,       \* packets that clients have sent, and replies of peers
    pc,         \* the task: "sleep", a point of its poll, or "ended"
    wake,       \* the task has been woken
    reg,        \* wakers it left: "source", "back", "sink"
    conn,       \* LruCache from client to session
    task,       \* the sessions
    back,       \* send_back
    sendBuf,    \* the packet that is being sent back, if any
    udp,        \* UdpSource::cache from peer to the socket bound to it
    got,        \* the last packet this poll sent back, with the socket's address
    lastUse     \* when each client was last heard, 0 - TTL at first

forwardVars == <<now, input, sent, pc, wake, reg, conn, task, back, sendBuf, udp,
                 got, lastUse>>

\* A packet starts one session at most, so one is always free.
Ids == 1..MaxPackets
Peers == {f[2] : f \in Flows}
NoTask == [client |-> "none", state |-> "none", queue |-> <<>>, abort |-> FALSE]
Live(id) == task[id].state # "none" /\ ~task[id].abort

ForwardInit ==
    /\ now = 0 /\ input = <<>> /\ sent = [packets |-> 0, replies |-> 0]
    /\ pc = "sleep" /\ wake = TRUE /\ reg = {}
    /\ conn = NewCache(0) /\ udp = NewCache(0)
    /\ task = [id \in Ids |-> NoTask]
    /\ back = <<>> /\ sendBuf = <<>>
    /\ got = <<>>
    /\ lastUse = [c \in Clients |-> 0 - TTL]

-----------------------------------------------------------------------------
(* UdpConnection.                                                          *)

NewSession(c) == [NoTask EXCEPT !.client = c, !.state = "binding"]

\* A bug for the checks: a session that leaves the table goes on.
DropNothing(t, cache) == t

\* Drop: the sessions that are not in the cache any more are aborted.
DropRemoved(t, cache) ==
    [id \in Ids |->
       IF id \in Values(cache) THEN t[id]
       ELSE [t[id] EXCEPT !.abort = t[id].state # "none", !.queue = <<>>]]

\* send: try_send, an error if the channel is full or the session has ended.
send(t, p) ==
    IF t.state \in {"binding", "relaying"} /\ Len(t.queue) < ChannelSize
      THEN [t EXCEPT !.queue = Append(@, p)] ELSE t

\* The task returns, and with it the receiver of its channel is gone.
Ended(id) == [task[id] EXCEPT !.state = "ended", !.queue = <<>>]

Bind(id) ==
    /\ task[id].state = "binding" /\ ~task[id].abort
    /\ \E ok \in BOOLEAN :
         task' = [task EXCEPT ![id] = IF ok THEN [@ EXCEPT !.state = "relaying"]
                                            ELSE Ended(id)]
    /\ UNCHANGED <<now, input, sent, pc, wake, reg, conn, back, sendBuf, udp, got, lastUse>>

\* BackChannel::poll_send_to and the relay behind it: a packet goes out.
Up(id) ==
    /\ task[id].state = "relaying" /\ ~task[id].abort /\ task[id].queue # <<>>
    /\ task' = [task EXCEPT ![id] = [task[id] EXCEPT !.queue = Tail(task[id].queue)]]
    /\ UNCHANGED <<now, input, sent, pc, wake, reg, conn, back, sendBuf, udp, got, lastUse>>

\* A bug for the checks: a reply carries the session's address as its source.
BackSwapped(id, p) == [from |-> task[id].client, to |-> p]

\* The packet BackChannel::poll_recv_from makes of a reply.
BackPacket(id, p) == [from |-> p, to |-> task[id].client]

\* BackChannel::poll_recv_from, once poll_ready has a place on send_back, for a
\* packet of any peer; the receiver is gone when the forwarding task has ended.
Down(id) ==
    /\ task[id].state = "relaying" /\ sent.replies < MaxReplies
    /\ sent' = [sent EXCEPT !.replies = @ + 1]
    /\ IF pc = "ended"
         THEN /\ task' = [task EXCEPT ![id] = Ended(id)]
              /\ UNCHANGED <<back, wake, reg>>
         ELSE /\ Len(back) < ChannelSize
              /\ \E p \in Peers :
                   back' = Append(back, [packet |-> BackPacket(id, p),
                                         flow |-> <<task[id].client, p>>])
              /\ wake' = (wake \/ "back" \in reg)
              /\ reg' = reg \ {"back"}
              /\ UNCHANGED task
    /\ UNCHANGED <<now, input, pc, conn, sendBuf, udp, got, lastUse>>

\* The relay fails.
SessionError(id) ==
    /\ task[id].state = "relaying" /\ ~task[id].abort
    /\ task' = [task EXCEPT ![id] = Ended(id)]
    /\ UNCHANGED <<now, input, sent, pc, wake, reg, conn, back, sendBuf, udp, got, lastUse>>

\* The runtime drops a task that was aborted; until then a poll on another
\* thread may still send a packet back.
Aborted(id) ==
    /\ task[id].abort
    /\ task' = [task EXCEPT ![id] = NoTask]
    /\ UNCHANGED <<now, input, sent, pc, wake, reg, conn, back, sendBuf, udp, got, lastUse>>

Session(id) == Bind(id) \/ Up(id) \/ Down(id) \/ SessionError(id) \/ Aborted(id)

-----------------------------------------------------------------------------
(* ForwardUdp::poll.                                                       *)

BeginPoll ==
    /\ pc = "sleep" /\ wake
    /\ pc' = "recv" /\ wake' = FALSE /\ got' = <<>>
    /\ UNCHANGED <<now, input, sent, reg, conn, task, back, sendBuf, udp, lastUse>>

\* get and send: the packet goes to the client's session, a new one if the
\* table has none.
Handle(c, p) ==
    LET used == Get(conn, c, now)
        new == Min({id \in Ids : task[id].state = "none"})
        next == IF c \in Keys(used) THEN used ELSE Insert(used, c, new, now)
        started == IF c \in Keys(used) THEN task
                   ELSE [task EXCEPT ![new] = NewSession(c)]
    IN  /\ conn' = next
        /\ task' = DropRemoved([started EXCEPT
                                  ![Value(next, c)] = send(@, p)], next)

\* poll_recv_packet, over UdpSource::poll_recv, which clears its cache first.
RecvPacket ==
    /\ pc = "recv" /\ input # <<>>
    /\ \E id \in Ids : task[id].state = "none"
    /\ Handle(input[1].from, input[1].to)
    /\ udp' = poll_clear_expired(udp, now)
    /\ lastUse' = [lastUse EXCEPT ![input[1].from] = now]
    /\ input' = <<>>
    /\ UNCHANGED <<now, sent, pc, wake, reg, back, sendBuf, got>>

RecvPending ==
    /\ pc = "recv" /\ input = <<>>
    /\ udp' = poll_clear_expired(udp, now)
    /\ reg' = reg \cup {"source"}
    /\ pc' = "back"
    /\ UNCHANGED <<now, input, sent, wake, conn, task, back, sendBuf, got,
                   lastUse>>

\* poll_send_back takes the next packet.
TakeBack ==
    /\ pc = "back" /\ sendBuf = <<>> /\ back # <<>>
    /\ sendBuf' = <<Head(back)>> /\ back' = Tail(back)
    /\ UNCHANGED <<now, input, sent, pc, wake, reg, conn, task, udp, got,
                   lastUse>>

\* UdpSource::poll_send: the socket bound to the packet's source.  Binding may
\* fail, and then the packet is dropped.
SocketFor(from) ==
    LET used == Get(udp, from, now)
    IN  IF from \in Keys(used) THEN used ELSE Insert(used, from, from, now)

BindAnyFails ==
    /\ pc = "back" /\ sendBuf # <<>>
    /\ LET from == sendBuf[1].packet.from IN
         /\ from \notin Keys(RemoveExpired(udp, now))
         /\ udp' = Get(udp, from, now)
    /\ sendBuf' = <<>>
    /\ UNCHANGED <<now, input, sent, pc, wake, reg, conn, task, back, got,
                   lastUse>>

\* The cache after a packet has been sent: no reserved address is kept.
AfterSend(from) ==
    IF from \in Reserved THEN RemoveKey(SocketFor(from), from) ELSE SocketFor(from)

SendBack ==
    /\ pc = "back" /\ sendBuf # <<>>
    /\ LET from == sendBuf[1].packet.from IN
         /\ got' = <<[reply |-> sendBuf[1], socket |-> Value(SocketFor(from), from)]>>
         /\ udp' = AfterSend(from)
    /\ sendBuf' = <<>>
    /\ UNCHANGED <<now, input, sent, pc, wake, reg, conn, task, back,
                   lastUse>>

\* poll_send_back is pending, there being no packet or a socket being full;
\* conn.poll_clear_expired ends the poll.
EndPoll ==
    /\ conn' = poll_clear_expired(conn, now)
    /\ task' = DropRemoved(task, conn')
    /\ pc' = "sleep"
    /\ UNCHANGED <<now, input, sent, wake, back, sendBuf, got, lastUse>>

BackEmpty ==
    /\ pc = "back" /\ sendBuf = <<>> /\ back = <<>>
    /\ reg' = reg \cup {"back"}
    /\ UNCHANGED udp
    /\ EndPoll

SendPending ==
    /\ pc = "back" /\ sendBuf # <<>>
    /\ udp' = SocketFor(sendBuf[1].packet.from)
    /\ reg' = reg \cup {"sink"}
    /\ EndPoll

\* The future is dropped, with the table, the sockets and the channel: the
\* source has failed, or the server is stopped.
End ==
    /\ pc' = "ended"
    /\ conn' = [conn EXCEPT !.list = <<>>, !.waker = FALSE]
    /\ udp' = [udp EXCEPT !.list = <<>>, !.waker = FALSE]
    /\ task' = DropRemoved(task, conn')
    /\ back' = <<>> /\ sendBuf' = <<>> /\ reg' = {} /\ wake' = FALSE
    /\ UNCHANGED <<now, input, sent, got, lastUse>>
SourceError == pc = "recv" /\ End
Cancel == pc = "sleep" /\ End

-----------------------------------------------------------------------------
(* The world.                                                              *)

Arrive ==
    /\ pc # "ended" /\ input = <<>> /\ sent.packets < MaxPackets
    /\ \E f \in Flows : input' = <<[from |-> f[1], to |-> f[2]]>>
    /\ sent' = [sent EXCEPT !.packets = @ + 1]
    /\ wake' = (wake \/ "source" \in reg)
    /\ reg' = reg \ {"source"}
    /\ UNCHANGED <<now, pc, conn, task, back, sendBuf, udp, got, lastUse>>

DrainSink ==
    /\ "sink" \in reg
    /\ wake' = TRUE /\ reg' = reg \ {"sink"}
    /\ UNCHANGED <<now, input, sent, pc, conn, task, back, sendBuf, udp, got,
                   lastUse>>

Tick ==
    /\ now < MaxTime /\ pc = "sleep" /\ ~wake
    /\ now' = now + 1
    /\ wake' = (Rings(conn, now') \/ Rings(udp, now'))
    /\ UNCHANGED <<input, sent, pc, reg, conn, task, back, sendBuf, udp,
                   got, lastUse>>

Poll ==
    \/ BeginPoll \/ RecvPacket \/ RecvPending \/ TakeBack \/ BackEmpty
    \/ BindAnyFails \/ SendBack \/ SendPending
ForwardNext ==
    \/ Poll \/ SourceError \/ Cancel \/ (\E id \in Ids : Session(id))
    \/ Arrive \/ DrainSink \/ Tick
ForwardSpec == ForwardInit /\ [][ForwardNext]_forwardVars

-----------------------------------------------------------------------------
(* Properties.                                                             *)

Asleep == pc = "sleep" /\ ~wake
Idle(c) == now - lastUse[c]

\* Every session of forward_udp that was not aborted is in the LruCache, under
\* its own client, and neither a session nor a socket of UdpSource stays there
\* that has been idle for two times to live.
SessionsAccounted ==
    /\ \A id \in Ids : Live(id) =>
         task[id].client \in Keys(conn) /\ Value(conn, task[id].client) = id
    /\ Asleep => \A c \in {conn, udp} : \A i \in DOMAIN c.list :
         now - c.list[i].time < 2 * TTL

\* A client loses its session only after a time to live in which it sent
\* nothing, to Capacity other clients that were heard later, or at the end.  A
\* session that has ended, by a failed bind or an error, stays in the table and
\* swallows packets; a client that pauses for a time to live gets a new one.
SessionStep ==
    /\ \A c \in Keys(conn) \ Keys(conn') :
         \/ pc' = "ended"
         \/ Idle(c) >= TTL
         \/ Cardinality({d \in Clients \ {c} : lastUse'[d] >= lastUse[c]}) >= Capacity
    /\ RecvPacket => LET c == input[1].from IN
         Idle(c) >= TTL => task'[Value(conn', c)].state = "binding"

\* ... for every step of the forwarding task (ForwardUdp::get, LruCache).
SessionsFollowUse == [][SessionStep]_forwardVars

\* What is sent back comes from the address of the peer that sent it, from a
\* socket bound to that, and goes to the client of the session it came to, also
\* when the session is gone or was replaced meanwhile; once it is sent no reserved
\* address stays bound (BackChannel, UdpSource).
RepliesGoHome ==
    /\ got # <<>> => LET r == got[1].reply IN
         <<r.packet.to, r.packet.from>> = r.flow /\ got[1].socket = r.flow[2]
    /\ sendBuf = <<>> => Keys(udp) \cap Reserved = {}

\* The sleeping task of forward_udp has no packet to take and none to send back
\* but one that waits for a full socket, and the timers of both caches are set
\* (ForwardUdp::poll, poll_clear_expired).
NoLostWakeup ==
    Asleep => /\ input = <<>>
              /\ sendBuf = <<>> => back = <<>>
              /\ sendBuf # <<>> => "sink" \in reg
              /\ conn.waker /\ udp.waker
=============================================================================
