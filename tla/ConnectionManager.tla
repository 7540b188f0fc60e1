--------------------------- MODULE ConnectionManager ---------------------------
(***************************************************************************)
(* The connection table of rabbit-digger                                   *)
(* (src/src/rabbit_digger/connection_manager.rs) together with the wrapped *)
(* streams and sockets that feed it (WrapTcpStream and WrapUdpSocket in    *)
(* running.rs) and the loop of start_stream that drains it on exit.        *)
(*                                                                         *)
(* Actors: the task that owns each connection, the recv_event task, the    *)
(* heartbeat task, callers of stop_connection, and the draining loop.      *)
(*                                                                         *)
(* Abstractions.  A batch of events is put on the channel by one send and  *)
(* taken off event by event: the consumer handles the events of a batch    *)
(* one after the other, so the batch borders are invisible.  The counters  *)
(* a UDP socket keeps per address are summed, because input_event ignores  *)
(* the address; Read and Write stand for RecvFrom and SendTo as well.      *)
(***************************************************************************)
EXTENDS Integers, Sequences, FiniteSets

CONSTANTS
    Conns,      \* connections (uuids) that may ever be opened
    MaxMove     \* bound: units a connection moves per direction

ASSUME MaxMoveAssumption == MaxMove \in Nat

VARIABLES
    phase,      \* where the owner of a connection is
    unsent,     \* Tcp/Udp::{read, write}: counted, not yet reported
    tick,       \* heartbeats the connection's BroadcastStream will yield
    stop,       \* the oneshot: armed, fired, or its sender is gone
    chan,       \* the unbounded mpsc channel of events
    listed,     \* keys of ConnectionState.connections
    stopper,    \* listed connections whose stop_sender is Some
    count,      \* ConnectionInfo.{download, upload}
    total,      \* ConnectionState.{total_download, total_upload}
    beating,    \* the heartbeat task has not been aborted
    drain,      \* the loop at the end of start_stream
    moved,      \* history: units that really went through
    asked       \* history: connections whose stop somebody sent

vars == <<phase, unsent, tick, stop, chan, listed, stopper, count, total,
          beating, drain, moved, asked>>

-----------------------------------------------------------------------------
Dirs   == {"down", "up"}
Phases == {"unborn", "live", "checked", "aborted", "dropped"}

EventTypes == {"New", "SetStopper", "Read", "Write", "CloseConnection"}
Event == [uuid : Conns, type : EventTypes, n : Nat]
Ev(u, t, n) == [uuid |-> u, type |-> t, n |-> n]

Zero == [d \in Dirs |-> 0]

\* Connection tasks that hold a Connection value.
Held == {"live", "checked", "aborted"}

DrainIdle == [pc |-> "off", todo |-> {}, seen |-> {}]

TypeOK ==
    /\ phase \in [Conns -> Phases]
    /\ unsent \in [Conns -> [Dirs -> Nat]]
    /\ tick \in [Conns -> 0..2]
    /\ stop \in [Conns -> {"armed", "fired", "orphaned"}]
    /\ chan \in Seq(Event)
    /\ listed \subseteq Conns
    /\ stopper \subseteq listed
    /\ count \in [Conns -> [Dirs -> Nat]]
    /\ total \in [Dirs -> Nat]
    /\ beating \in BOOLEAN
    /\ drain \in [pc : {"off", "check", "iterate", "exited"},
                  todo : SUBSET Conns, seen : SUBSET Conns]
    /\ moved \in [Conns -> [Dirs -> Nat]]
    /\ asked \subseteq Conns

Init ==
    /\ phase = [u \in Conns |-> "unborn"]
    /\ unsent = [u \in Conns |-> Zero]
    /\ tick = [u \in Conns |-> 0]
    /\ stop = [u \in Conns |-> "armed"]
    /\ chan = <<>>
    /\ listed = {}
    /\ stopper = {}
    /\ count = [u \in Conns |-> Zero]
    /\ total = Zero
    /\ beating = TRUE
    /\ drain = DrainIdle
    /\ moved = [u \in Conns |-> Zero]
    /\ asked = {}

-----------------------------------------------------------------------------
(* The owner of a connection.                                              *)

\* A bug for the checks: the stopper is sent ahead of the New event.
SwappedNewEvents(u) == <<Ev(u, "SetStopper", 0), Ev(u, "New", 0)>>

\* What Connection::new sends.
NewEvents(u) == <<Ev(u, "New", 0), Ev(u, "SetStopper", 0)>>

\* A bug for the checks: the write counter is forgotten when nothing was read.
ReadOnlyEvents(u) ==
    IF unsent[u]["down"] = 0 THEN <<>>
    ELSE <<Ev(u, "Read", unsent[u]["down"])>>
         \o (IF unsent[u]["up"] > 0 THEN <<Ev(u, "Write", unsent[u]["up"])>>
             ELSE <<>>)

\* ConnType::get_events: the counters as events, and the counters reset.
get_events(u) ==
    (IF unsent[u]["down"] > 0 THEN <<Ev(u, "Read", unsent[u]["down"])>>
     ELSE <<>>)
    \o
    (IF unsent[u]["up"] > 0 THEN <<Ev(u, "Write", unsent[u]["up"])>>
     ELSE <<>>)

Flush(u) ==
    /\ chan' = chan \o get_events(u)
    /\ unsent' = [unsent EXCEPT ![u] = Zero]

\* RunningServerNet wraps a connected stream or a bound socket.
NewConnection(u) ==
    /\ phase[u] = "unborn"
    /\ phase' = [phase EXCEPT ![u] = "live"]
    /\ chan' = chan \o NewEvents(u)
    /\ UNCHANGED <<unsent, tick, stop, listed, stopper, count, total,
                   beating, drain, moved, asked>>

\* A bug for the checks: the stop signal is looked at only on a heartbeat.
PollOnHeartbeatOnly(u) ==
    /\ phase[u] = "live"
    /\ IF tick[u] > 0
         THEN /\ Flush(u)
              /\ tick' = [tick EXCEPT ![u] = @ - 1]
         ELSE UNCHANGED <<chan, unsent, tick>>
    /\ phase' = [phase EXCEPT ![u] =
                    IF tick[u] > 0 /\ stop[u] # "armed" THEN "aborted"
                    ELSE "checked"]
    /\ UNCHANGED <<stop, listed, stopper, count, total, beating, drain,
                   moved, asked>>

\* Connection::poll, at the head of poll_read and poll_recv_from: report on a
\* heartbeat, then fail when the stop channel has fired or has lost its sender.
Poll(u) ==
    /\ phase[u] = "live"
    /\ IF tick[u] > 0
         THEN /\ Flush(u)
              /\ tick' = [tick EXCEPT ![u] = @ - 1]
         ELSE UNCHANGED <<chan, unsent, tick>>
    /\ phase' = [phase EXCEPT ![u] =
                    IF stop[u] # "armed" THEN "aborted" ELSE "checked"]
    /\ UNCHANGED <<stop, listed, stopper, count, total, beating, drain,
                   moved, asked>>

Move(u, d, n) ==
    /\ moved[u][d] + n <= MaxMove
    /\ moved' = [moved EXCEPT ![u][d] = @ + n]
    /\ unsent' = [unsent EXCEPT ![u][d] = @ + n]

\* The rest of poll_read: the inner stream yields n units, or nothing
\* (pending, end of file, error).
InnerRead(u, n) ==
    /\ phase[u] = "checked"
    /\ phase' = [phase EXCEPT ![u] = "live"]
    /\ Move(u, "down", n)
    /\ UNCHANGED <<tick, stop, chan, listed, stopper, count, total, beating,
                   drain, asked>>

\* poll_write and poll_send_to never look at the stop channel.
Write(u) ==
    /\ phase[u] = "live"
    /\ Move(u, "up", 1)
    /\ UNCHANGED <<phase, tick, stop, chan, listed, stopper, count, total,
                   beating, drain, asked>>

\* A bug for the checks: no CloseConnection after an abort by the user.
NoCloseAfterAbort(u) ==
    /\ phase[u] \in {"live", "aborted"}
    /\ phase' = [phase EXCEPT ![u] = "dropped"]
    /\ chan' = (chan \o get_events(u))
               \o (IF phase[u] = "live" THEN <<Ev(u, "CloseConnection", 0)>>
                   ELSE <<>>)
    /\ unsent' = [unsent EXCEPT ![u] = Zero]
    /\ UNCHANGED <<tick, stop, listed, stopper, count, total, beating, drain,
                   moved, asked>>

\* Drop for Connection: the last report, then CloseConnection.
Drop(u) ==
    /\ phase[u] \in {"live", "aborted"}
    /\ phase' = [phase EXCEPT ![u] = "dropped"]
    /\ chan' = (chan \o get_events(u)) \o <<Ev(u, "CloseConnection", 0)>>
    /\ unsent' = [unsent EXCEPT ![u] = Zero]
    /\ UNCHANGED <<tick, stop, listed, stopper, count, total, beating, drain,
                   moved, asked>>

-----------------------------------------------------------------------------
(* The recv_event task: input_event on the head of the channel.            *)

\* The connections whose sender the step drops without sending: their
\* receivers, if any is left, complete with an error.
Orphan(S) ==
    stop' = [u \in Conns |->
                IF u \in S /\ stop[u] = "armed" THEN "orphaned" ELSE stop[u]]

\* insert() of a fresh ConnectionInfo, which replaces an older one.
InputNew(u) ==
    /\ listed' = listed \cup {u}
    /\ stopper' = stopper \ {u}
    /\ count' = [count EXCEPT ![u] = Zero]
    /\ Orphan(stopper \cap {u})
    /\ UNCHANGED total

InputSetStopper(u) ==
    /\ IF u \in listed
         THEN /\ stopper' = stopper \cup {u}
              /\ Orphan(stopper \cap {u})
         ELSE /\ Orphan({u})
              /\ UNCHANGED stopper
    /\ UNCHANGED <<listed, count, total>>

InputBytes(u, d, n) ==
    /\ IF u \in listed
         THEN /\ count' = [count EXCEPT ![u][d] = @ + n]
              /\ total' = [total EXCEPT ![d] = @ + n]
         ELSE UNCHANGED <<count, total>>
    /\ UNCHANGED <<listed, stopper, stop>>

InputClose(u) ==
    /\ listed' = listed \ {u}
    /\ stopper' = stopper \ {u}
    /\ count' = [count EXCEPT ![u] = Zero]
    /\ Orphan(stopper \cap {u})
    /\ UNCHANGED total

RecvEvent ==
    /\ chan # <<>>
    /\ chan' = Tail(chan)
    /\ LET e == Head(chan) IN
         \/ e.type = "New" /\ InputNew(e.uuid)
         \/ e.type = "SetStopper" /\ InputSetStopper(e.uuid)
         \/ e.type = "Read" /\ InputBytes(e.uuid, "down", e.n)
         \/ e.type = "Write" /\ InputBytes(e.uuid, "up", e.n)
         \/ e.type = "CloseConnection" /\ InputClose(e.uuid)
    /\ UNCHANGED <<phase, unsent, tick, beating, drain, moved, asked>>

-----------------------------------------------------------------------------
(* The heartbeat task.                                                     *)

\* tx.send(()) on a broadcast channel of capacity 1: a receiver that is one
\* beat behind gets that beat; one further behind gets Lagged and then the
\* last beat, which are two ready items and no more.
Heartbeat ==
    /\ beating
    /\ tick' = [u \in Conns |->
                  IF phase[u] \in Held /\ tick[u] < 2 THEN tick[u] + 1
                  ELSE tick[u]]
    /\ UNCHANGED <<phase, unsent, stop, chan, listed, stopper, count, total,
                   beating, drain, moved, asked>>

\* ConnectionManager::stop, from Drop for Inner.
StopHeartbeat ==
    /\ beating
    /\ beating' = FALSE
    /\ UNCHANGED <<phase, unsent, tick, stop, chan, listed, stopper, count,
                   total, drain, moved, asked>>

-----------------------------------------------------------------------------
(* Stopping connections.                                                   *)

\* take() of the stop_sender and send(()): sending fails, and tells nobody,
\* when the connection has been dropped meanwhile.
TakeAndSend(u) ==
    /\ u \in stopper
    /\ stopper' = stopper \ {u}
    /\ stop' = [stop EXCEPT ![u] =
                  IF phase[u] \in Held THEN "fired" ELSE "orphaned"]
    /\ asked' = IF phase[u] \in Held THEN asked \cup {u} ELSE asked

\* stop_connection(uuid), which RabbitDigger offers to its users; when there
\* is no sender to take it returns false and changes nothing.
StopConnection(u) ==
    /\ TakeAndSend(u)
    /\ UNCHANGED <<phase, unsent, tick, chan, listed, count, total, beating,
                   drain, moved>>

\* start_stream has stopped the servers and comes to its final loop.
DrainStart ==
    /\ drain.pc = "off"
    /\ drain' = [drain EXCEPT !.pc = "check"]
    /\ UNCHANGED <<phase, unsent, tick, stop, chan, listed, stopper, count,
                   total, beating, moved, asked>>

\* while connection_count() > 0, and the start of an iteration over the map.
DrainCheck ==
    /\ drain.pc = "check"
    /\ drain' = IF listed = {} THEN [drain EXCEPT !.pc = "exited"]
                ELSE [drain EXCEPT !.pc = "iterate", !.todo = listed]
    /\ UNCHANGED <<phase, unsent, tick, stop, chan, listed, stopper, count,
                   total, beating, moved, asked>>

\* One entry of stop_connections' iteration.  The iteration visits what stays
\* in the map throughout; an entry inserted meanwhile is visited or missed.
DrainVisit(u) ==
    /\ drain.pc = "iterate"
    /\ u \in listed \ drain.seen
    /\ IF u \in stopper THEN TakeAndSend(u)
       ELSE UNCHANGED <<stopper, stop, asked>>
    /\ drain' = [drain EXCEPT !.seen = @ \cup {u}]
    /\ UNCHANGED <<phase, unsent, tick, chan, listed, count, total, beating,
                   moved>>

\* The iteration is over: yield_now and back to the condition.
DrainYield ==
    /\ drain.pc = "iterate"
    /\ drain.todo \cap listed \subseteq drain.seen
    /\ drain' = [drain EXCEPT !.pc = "check", !.todo = {}, !.seen = {}]
    /\ UNCHANGED <<phase, unsent, tick, stop, chan, listed, stopper, count,
                   total, beating, moved, asked>>

-----------------------------------------------------------------------------
Owner(u) ==
    \/ NewConnection(u)
    \/ Poll(u)
    \/ \E n \in 0..MaxMove : InnerRead(u, n)
    \/ Write(u)
    \/ Drop(u)

Drain ==
    \/ DrainStart
    \/ DrainCheck
    \/ \E u \in Conns : DrainVisit(u)
    \/ DrainYield

\* The manager while rabbit-digger runs, and also while it exits.
Serving ==
    \/ \E u \in Conns : Owner(u) \/ StopConnection(u)
    \/ RecvEvent
    \/ Heartbeat
    \/ StopHeartbeat

Next == Serving \/ Drain

Spec == Init /\ [][Next]_vars
ServingSpec == Init /\ [][Serving]_vars

\* The runtime keeps polling the recv_event task and the loop of start_stream,
\* and a connection whose poll failed is dropped.  Nothing says that an owner
\* polls its connection again: a relay that is stalled in a write does not
\* (TcpRelay, run StopStalled).  GoesOnReading is a premise where it matters.
Fairness ==
    /\ WF_vars(RecvEvent)
    /\ WF_vars(DrainCheck \/ DrainYield \/ \E u \in Conns : DrainVisit(u))
    /\ \A u \in Conns :
         /\ WF_vars(\E n \in 0..MaxMove : InnerRead(u, n))
         /\ WF_vars(phase[u] = "aborted" /\ Drop(u))

GoesOnReading(u) == WF_vars(Poll(u))

FairSpec == Spec /\ Fairness

-----------------------------------------------------------------------------
(* Properties.                                                             *)

\* q holds an event of connection u of type t.
Has(q, u, t) ==
    \E i \in 1..Len(q) : q[i].uuid = u /\ q[i].type = t

\* Such an event waits on the channel.
InChan(u, t) == Has(chan, u, t)

\* Of the events of one connection in q New is the first, only New precedes
\* SetStopper, and CloseConnection is the last.
InOrder(q) ==
    \A i, j \in 1..Len(q) :
      i < j /\ q[i].uuid = q[j].uuid =>
        /\ q[j].type # "New"
        /\ q[i].type # "CloseConnection"
        /\ q[j].type = "SetStopper" => q[i].type = "New"

\* Whatever the owners do and however the recv_event task lags, the channel
\* presents the events of each connection in the order input_event needs: it
\* ignores all but New of an unknown uuid, and New overwrites an entry.
EventsInOrder == InOrder(chan)

\* The table follows the connections: a connection somebody holds is listed or
\* its New event is still on its way, and an entry whose connection is gone
\* will be removed by a CloseConnection that is on its way (input_event and
\* the order in which Connection::new and Drop send their events).
TableTracksConnections ==
    \A u \in Conns :
      /\ phase[u] \in Held => u \in listed \/ InChan(u, "New")
      /\ u \in listed /\ phase[u] \notin Held => InChan(u, "CloseConnection")

\* A connection fails with "Aborted by user" only if a stop was sent to it:
\* a sender that is dropped unused also completes the oneshot, and no order of
\* events on the channel may do that to a connection in use (Connection::poll).
NoSpuriousAbort ==
    \A u \in Conns : phase[u] = "aborted" => u \in asked

\* As long as a connection has not been told to stop there is, or will be, a
\* sender in its entry for stop_connection to take (SetStopper, take()).
Stoppable ==
    \A u \in Conns :
      phase[u] \in Held /\ u \notin asked =>
        u \in stopper \/ InChan(u, "SetStopper")

\* A stop that was sent makes the connection go away, provided its owner goes
\* on reading from it, whatever the owners of other connections do
\* (Connection::poll, Drop for Connection).
StopTakesEffect ==
    \A u \in Conns :
      GoesOnReading(u) => (u \in asked ~> phase[u] = "dropped")

\* Connections whose stop was sent and whose owner has not polled them since.
Deaf == {u \in Conns : u \in asked /\ phase[u] = "live"}

\* The loop at the end of start_stream ends, whatever connections open, close or
\* get their stopper late while it runs, unless it spins forever for the sake of
\* owners that were told to stop and never poll again; there is no other way
\* for it not to end (stop_connections, yield_now, Drop for Connection).
DrainTerminates ==
    drain.pc = "check" ~> (drain.pc = "exited" \/ [](Deaf # {}))
=============================================================================
