------------------------------- MODULE TcpRelay -------------------------------
(***************************************************************************)
(* connect_tcp (src/rd-std/src/context/connect_tcp.rs): the task that      *)
(* copies between two streams a and b, one of which is the WrapTcpStream   *)
(* of running.rs whose Connection reports bytes and listens for a stop.    *)
(*                                                                         *)
(* The future is polled: it runs to a point where both directions are      *)
(* pending and then sleeps until a waker it has registered is called.  The *)
(* wakers are part of the model, because a poll function that returns      *)
(* Pending without one, or does not look at what woke it, sleeps forever.  *)
(*                                                                         *)
(* Bytes are counted, not told apart.  A stream keeps what it accepts to   *)
(* itself until it is flushed or full and then hands on as much as its     *)
(* transport takes (a TLS or buffered stream; a plain socket only does     *)
(* less): it accepts at most Room units its peer has not read, of which    *)
(* the transport takes Window.  Its flush and its shutdown wait for that.  *)
(***************************************************************************)
EXTENDS Integers

CONSTANTS
    MaxDown,    \* bound: units the peer behind the wrapped stream sends
    MaxUp,      \* bound: units the peer behind the other stream sends
    BufSize,    \* CopyBuffer's buffer_size
    Room,       \* what a stream accepts beyond what its peer has read
    Window      \* what its transport takes of that

ASSUME RelayAssumption ==
    /\ MaxDown \in Nat
    /\ MaxUp \in Nat
    /\ BufSize \in Nat \ {0}
    /\ Room \in Nat
    /\ Window \in 1..Room

VARIABLES
    wrapped,    \* the side that is the WrapTcpStream: a of the proxy servers'
                \* relays (out, socket), b of those of forward and redir
    inb,        \* inb[s]: what stream s can yield: sent, avail, eof
    broken,     \* streams whose next read, write or flush fails
    out,        \* out[s]: units stream s accepted, showed to, gave to its peer
    fin,        \* streams that were shut down
    buf,        \* the CopyBuffer of each direction
    transfer,   \* the TransferState of each direction
    pc,         \* the task: asleep, woken, polling a direction, or over
    outcome,    \* what each direction's poll returned
    reg,        \* registered wakers
    wake,       \* a waker was called since the task began its last poll
    unsent,     \* the Connection has counted units and not reported them
    tick,       \* heartbeats its BroadcastStream will yield
    stop,       \* the stop channel has fired
    result      \* how the task ended

connVars == <<unsent, tick, stop>>
ioVars == <<wrapped, inb, broken, out, fin>>
vars == <<wrapped, inb, broken, out, fin, buf, transfer, pc, outcome, reg, wake,
          unsent, tick, stop, result>>

-----------------------------------------------------------------------------
Sides == {"a", "b"}
Other(s) == IF s = "a" THEN "b" ELSE "a"

\* A direction is named after the stream it reads: "a" is a_to_b.
Writer(d) == Other(d)

Sources == {"read", "write", "heartbeat", "stop"} \X Sides

MaxSent(s) == IF s = wrapped THEN MaxDown ELSE MaxUp

Free(s) == Room - (out[s].acc - out[s].got)

TypeOK ==
    /\ wrapped \in Sides
    /\ inb \in [Sides -> [sent : Nat, avail : Nat, eof : BOOLEAN]]
    /\ broken \subseteq Sides
    /\ out \in [Sides -> [acc : Nat, vis : Nat, got : Nat]]
    /\ fin \subseteq Sides
    /\ buf \in [Sides -> [pos : 0..BufSize, cap : 0..BufSize,
                          read_done : BOOLEAN, need_flush : BOOLEAN]]
    /\ \A d \in Sides : buf[d].pos <= buf[d].cap
    /\ transfer \in [Sides -> {"Running", "ShuttingDown", "Done"}]
    /\ pc \in {"asleep", "woken", "a", "b", "over"}
    /\ outcome \in [Sides -> {"none", "Pending", "Ready"}]
    /\ reg \subseteq Sources
    /\ wake \in BOOLEAN
    /\ unsent \in BOOLEAN
    /\ tick \in 0..2
    /\ stop \in BOOLEAN
    /\ result \in {"none", "ok", "err", "aborted", "cancelled"}

EmptyBuffer == [pos |-> 0, cap |-> 0, read_done |-> FALSE, need_flush |-> FALSE]

Init ==
    /\ wrapped \in Sides
    /\ inb = [s \in Sides |-> [sent |-> 0, avail |-> 0, eof |-> FALSE]]
    /\ broken = {}
    /\ out = [s \in Sides |-> [acc |-> 0, vis |-> 0, got |-> 0]]
    /\ fin = {}
    /\ buf = [d \in Sides |-> EmptyBuffer]
    /\ transfer = [d \in Sides |-> "Running"]
    /\ pc = "woken"
    /\ outcome = [d \in Sides |-> "none"]
    /\ reg = {}
    /\ wake = FALSE
    /\ unsent = FALSE
    /\ tick = 0
    /\ stop = FALSE
    /\ result = "none"

-----------------------------------------------------------------------------
(* The task.                                                               *)

\* The task is over: the streams are dropped, and with the WrapTcpStream its
\* Connection, which reports what is left, and its end of the heartbeat; the
\* task's wakers are void.
End(r) ==
    /\ pc' = "over"
    /\ result' = r
    /\ unsent' = FALSE /\ tick' = 0
    /\ reg' = {} /\ wake' = FALSE
    /\ UNCHANGED <<ioVars, buf, transfer, outcome, stop>>

BeginPoll ==
    /\ pc = "woken"
    /\ pc' = "a"
    /\ outcome' = [d \in Sides |-> "none"]
    /\ UNCHANGED <<wrapped, inb, broken, out, fin, buf, transfer, reg, wake, unsent,
                   tick, stop, result>>

Empty(d) == buf[d].pos = buf[d].cap
WantsRead(d) == Empty(d) /\ ~buf[d].read_done
Running(d) == pc = d /\ outcome[d] = "none" /\ transfer[d] = "Running"

Pending(d) == outcome' = [outcome EXCEPT ![d] = "Pending"]

\* A stream hands on what its transport takes; a flush is done when that is all.
AllPushed(o) == o.acc - o.got <= Window
Reach(o) == IF AllPushed(o) THEN o.acc ELSE o.got + Window
Pushed(o) == [o EXCEPT !.vis = Reach(o)]

\* A bug for the checks: the heartbeat is not polled to Pending, so no waker is
\* left with it.
ConnPollNoHeartbeatWaker(d, S) ==
    IF d # wrapped THEN UNCHANGED tick /\ reg' = reg \cup S
    ELSE /\ tick' = IF tick > 0 THEN tick - 1 ELSE 0
         /\ reg' = reg \cup S \cup {<<"stop", d>>}

\* Connection::poll at the head of WrapTcpStream::poll_read: either an item of
\* the heartbeat is taken, and no waker is left with the heartbeat, or one is;
\* a waker is left with the stop channel.  S: wakers the inner read leaves.
ConnPoll(d, S) ==
    IF d # wrapped THEN UNCHANGED tick /\ reg' = reg \cup S
    ELSE /\ tick' = IF tick > 0 THEN tick - 1 ELSE 0
         /\ reg' = reg \cup S \cup {<<"stop", d>>}
                       \cup (IF tick > 0 THEN {} ELSE {<<"heartbeat", d>>})

\* What ConnPoll(d) leaves unreported.
Unreported(d) == unsent /\ ~(d = wrapped /\ tick > 0)

\* poll_read of a stopped connection fails: the future returns the error.
ReadAborted(d) ==
    /\ Running(d) /\ WantsRead(d)
    /\ d = wrapped /\ stop
    /\ End("aborted")

ReadStep(d) ==
    /\ Running(d) /\ WantsRead(d)
    /\ ~(d = wrapped /\ stop)

ReadError(d) ==
    /\ ReadStep(d)
    /\ d \in broken
    /\ End("err")

\* A bug for the checks: pos is not set back for the new contents.
ReadDataKeepsPos(d) ==
    /\ ReadStep(d)
    /\ d \notin broken
    /\ inb[d].avail > 0
    /\ ConnPoll(d, {})
    /\ LET n == IF inb[d].avail < BufSize THEN inb[d].avail ELSE BufSize IN
         /\ inb' = [inb EXCEPT ![d].avail = @ - n]
         /\ buf' = [buf EXCEPT ![d].cap = n]
         /\ unsent' = (Unreported(d) \/ d = wrapped)
    /\ UNCHANGED <<wrapped, broken, out, fin, transfer, pc, outcome, wake, stop, result>>

\* poll_read yields data: as much as there is and as fits the buffer.
ReadData(d) ==
    /\ ReadStep(d)
    /\ d \notin broken
    /\ inb[d].avail > 0
    /\ ConnPoll(d, {})
    /\ LET n == IF inb[d].avail < BufSize THEN inb[d].avail ELSE BufSize IN
         /\ inb' = [inb EXCEPT ![d].avail = @ - n]
         /\ buf' = [buf EXCEPT ![d].pos = 0, ![d].cap = n]
         /\ unsent' = (Unreported(d) \/ d = wrapped)
    /\ UNCHANGED <<wrapped, broken, out, fin, transfer, pc, outcome, wake, stop, result>>

ReadEof(d) ==
    /\ ReadStep(d)
    /\ d \notin broken
    /\ inb[d].avail = 0 /\ inb[d].eof
    /\ ConnPoll(d, {})
    /\ unsent' = Unreported(d)
    /\ buf' = [buf EXCEPT ![d].read_done = TRUE]
    /\ UNCHANGED <<ioVars, transfer, pc, outcome, wake, stop, result>>

\* A bug for the checks: what was written is not flushed while the reader has
\* nothing.
ReadPendingNoFlush(d) ==
    /\ ReadStep(d)
    /\ d \notin broken
    /\ inb[d].avail = 0 /\ ~inb[d].eof
    /\ ConnPoll(d, {<<"read", d>>})
    /\ unsent' = Unreported(d)
    /\ UNCHANGED <<out, buf>>
    /\ Pending(d)
    /\ UNCHANGED <<wrapped, inb, broken, fin, transfer, pc, wake, stop, result>>

FlushFails(d) == buf[d].need_flush /\ Writer(d) \in broken

\* The flush of a pending read fails.
FlushError(d) ==
    /\ ReadStep(d)
    /\ d \notin broken
    /\ inb[d].avail = 0 /\ ~inb[d].eof
    /\ FlushFails(d)
    /\ End("err")

\* "Try flushing when the reader has no progress to avoid deadlock": a flush that
\* is pending itself stays to be done.
ReadPending(d) ==
    LET w == Writer(d) IN
    /\ ReadStep(d)
    /\ d \notin broken
    /\ inb[d].avail = 0 /\ ~inb[d].eof
    /\ ~FlushFails(d)
    /\ unsent' = Unreported(d)
    /\ IF buf[d].need_flush
         THEN /\ out' = [out EXCEPT ![w] = Pushed(@)]
              /\ buf' = [buf EXCEPT ![d].need_flush = ~AllPushed(out[w])]
         ELSE UNCHANGED <<out, buf>>
    /\ ConnPoll(d, {<<"read", d>>} \cup
                   (IF buf'[d].need_flush THEN {<<"write", w>>} ELSE {}))
    /\ Pending(d)
    /\ UNCHANGED <<wrapped, inb, broken, fin, transfer, pc, wake, stop, result>>

ShuttingDown(d) == pc = d /\ outcome[d] = "none" /\ transfer[d] = "ShuttingDown"

\* A write, the last flush or the shutdown fails (a write of nothing counts as
\* a failure).
WriteError(d) ==
    /\ \/ Running(d) /\ ~WantsRead(d)
       \/ ShuttingDown(d)
    /\ Writer(d) \in broken
    /\ End("err")

WriteData(d, i) ==
    LET w == Writer(d) IN
    /\ Running(d) /\ ~Empty(d)
    /\ w \notin broken
    /\ i <= Free(w) /\ i <= buf[d].cap - buf[d].pos
    /\ out' = [out EXCEPT ![w].acc = @ + i]
    /\ buf' = [buf EXCEPT ![d].pos = @ + i, ![d].need_flush = TRUE]
    /\ unsent' = (unsent \/ w = wrapped)
    /\ UNCHANGED <<wrapped, inb, broken, fin, transfer, pc, outcome, reg, wake, tick,
                   stop, result>>

\* A full stream pushes what it holds to its peer and asks to be polled again, and
\* so does the last flush while not all is pushed.
WritePending(d) ==
    LET w == Writer(d) IN
    /\ Running(d)
    /\ \/ ~Empty(d) /\ Free(w) = 0
       \/ Empty(d) /\ buf[d].read_done /\ ~AllPushed(out[w])
    /\ w \notin broken
    /\ out' = [out EXCEPT ![w] = Pushed(@)]
    /\ reg' = reg \cup {<<"write", w>>}
    /\ Pending(d)
    /\ UNCHANGED <<wrapped, inb, broken, fin, buf, transfer, pc, wake, connVars, result>>

\* A bug for the checks: the end of file is passed on before the buffered rest.
LastFlushEarly(d) ==
    LET w == Writer(d) IN
    /\ Running(d) /\ (buf[d].read_done \/ inb[d].eof)
    /\ w \notin broken /\ AllPushed(out[w])
    /\ out' = [out EXCEPT ![w] = Pushed(@)]
    /\ transfer' = [transfer EXCEPT ![d] = "ShuttingDown"]
    /\ UNCHANGED <<wrapped, inb, broken, fin, buf, pc, outcome, reg, wake, connVars,
                   result>>

\* The reader is at its end and all is written and flushed.
LastFlush(d) ==
    LET w == Writer(d) IN
    /\ Running(d) /\ Empty(d) /\ buf[d].read_done
    /\ w \notin broken /\ AllPushed(out[w])
    /\ out' = [out EXCEPT ![w] = Pushed(@)]
    /\ transfer' = [transfer EXCEPT ![d] = "ShuttingDown"]
    /\ UNCHANGED <<wrapped, inb, broken, fin, buf, pc, outcome, reg, wake, connVars,
                   result>>

Shutdown(d) ==
    LET w == Writer(d) IN
    /\ ShuttingDown(d)
    /\ w \notin broken
    /\ fin' = fin \cup {w}
    /\ transfer' = [transfer EXCEPT ![d] = "Done"]
    /\ outcome' = [outcome EXCEPT ![d] = "Ready"]
    /\ UNCHANGED <<wrapped, inb, broken, out, buf, pc, reg, wake, connVars, result>>

\* A stream that says goodbye to its peer (TLS) may find its transport full.
ShutdownPending(d) ==
    LET w == Writer(d) IN
    /\ ShuttingDown(d)
    /\ w \notin broken
    /\ out[w].vis - out[w].got = Window
    /\ reg' = reg \cup {<<"write", w>>}
    /\ Pending(d)
    /\ UNCHANGED <<wrapped, inb, broken, out, fin, buf, transfer, pc, wake, connVars,
                   result>>

SecondDirection ==
    /\ pc = "a" /\ outcome["a"] # "none"
    /\ pc' = "b"
    /\ UNCHANGED <<ioVars, buf, transfer, outcome, reg, wake, connVars, result>>

\* Both directions pending: the task sleeps, unless a waker was called.
Sleep ==
    /\ pc = "b" /\ \A d \in Sides : outcome[d] = "Pending"
    /\ pc' = IF wake THEN "woken" ELSE "asleep"
    /\ wake' = FALSE
    /\ UNCHANGED <<ioVars, buf, transfer, outcome, reg, connVars, result>>

\* One direction is done: so is the relay.
Finish ==
    /\ pc = "b" /\ \A d \in Sides : outcome[d] # "none"
    /\ \E d \in Sides : outcome[d] = "Ready"
    /\ End("ok")

\* DropAbort: whoever awaits connect_tcp is dropped.
Cancel ==
    /\ pc \in {"asleep", "woken"}
    /\ End("cancelled")

Direction(d) ==
    \/ ReadAborted(d) \/ ReadError(d) \/ ReadData(d) \/ ReadEof(d)
    \/ ReadPending(d) \/ FlushError(d)
    \/ WriteError(d) \/ (\E i \in 1..BufSize : WriteData(d, i))
    \/ WritePending(d) \/ LastFlush(d) \/ Shutdown(d) \/ ShutdownPending(d)

Task == BeginPoll \/ (\E d \in Sides : Direction(d)) \/ SecondDirection \/ Sleep \/ Finish

-----------------------------------------------------------------------------
(* The peers, the heartbeat and the user.                                  *)

\* The wakers of the sources in S are called, if they are registered.
Notify(S) ==
    /\ reg' = reg \ S
    /\ IF reg \cap S = {} THEN UNCHANGED <<pc, wake>>
       ELSE IF pc = "asleep" THEN pc' = "woken" /\ UNCHANGED wake
       ELSE wake' = TRUE /\ UNCHANGED pc

PeerSend(s) ==
    /\ pc # "over"
    /\ inb[s].sent < MaxSent(s) /\ ~inb[s].eof
    /\ inb' = [inb EXCEPT ![s].sent = @ + 1, ![s].avail = @ + 1]
    /\ Notify({<<"read", s>>})
    /\ UNCHANGED <<wrapped, broken, out, fin, buf, transfer, outcome, connVars, result>>

PeerClose(s) ==
    /\ pc # "over"
    /\ ~inb[s].eof
    /\ inb' = [inb EXCEPT ![s].eof = TRUE]
    /\ Notify({<<"read", s>>})
    /\ UNCHANGED <<wrapped, broken, out, fin, buf, transfer, outcome, connVars, result>>

PeerRecv(s) ==
    /\ pc # "over"
    /\ out[s].got < out[s].vis
    /\ out' = [out EXCEPT ![s].got = @ + 1]
    /\ Notify({<<"write", s>>})
    /\ UNCHANGED <<wrapped, inb, broken, fin, buf, transfer, outcome, connVars, result>>

Break(s) ==
    /\ pc # "over"
    /\ s \notin broken
    /\ broken' = broken \cup {s}
    /\ Notify({<<"read", s>>, <<"write", s>>})
    /\ UNCHANGED <<wrapped, inb, out, fin, buf, transfer, outcome, connVars, result>>

\* A beat on the broadcast channel of capacity 1 (see ConnectionManager).
Heartbeat ==
    /\ pc # "over"
    /\ tick' = IF tick < 2 THEN tick + 1 ELSE 2
    /\ Notify({<<"heartbeat", wrapped>>})
    /\ UNCHANGED <<ioVars, buf, transfer, outcome, unsent, stop, result>>

\* stop_connection took the sender and sent.
StopConnection ==
    /\ pc # "over"
    /\ ~stop
    /\ stop' = TRUE
    /\ Notify({<<"stop", wrapped>>})
    /\ UNCHANGED <<ioVars, buf, transfer, outcome, unsent, tick, result>>

Environment ==
    \/ \E s \in Sides : PeerSend(s) \/ PeerClose(s) \/ PeerRecv(s)
    \/ Heartbeat
    \/ StopConnection

Fault == Cancel \/ \E s \in Sides : Break(s)

Next == Task \/ Environment \/ Fault

Spec == Init /\ [][Next]_vars

\* The runtime polls a woken task; the heartbeat task beats.
TaskFairness == WF_vars(Task) /\ WF_vars(Heartbeat)
\* The peers read what they are shown.
PeerFairness == \A s \in Sides : WF_vars(PeerRecv(s))

FairSpec == Spec /\ TaskFairness /\ PeerFairness

\* Peers that need not read, and no fault that ends the relay.
StalledPeerSpec == Init /\ [][Task \/ Environment]_vars /\ TaskFairness

-----------------------------------------------------------------------------
(* Properties.                                                             *)

\* What was read from one stream is what the other accepted plus what the
\* buffer between pos and cap holds: poll_copy neither loses, repeats nor
\* makes up a unit.
CopiesAll ==
    \A d \in Sides :
      inb[d].sent - inb[d].avail
        = out[Writer(d)].acc + (buf[d].cap - buf[d].pos)

\* A relay that ends well has passed on everything, up to and including the
\* end of file, of a side that closed ("it closes the other side once one side
\* is done": the other direction may be cut short, this one may not).
EndsComplete ==
    result = "ok" =>
      \E d \in Sides :
        /\ inb[d].eof /\ inb[d].avail = 0
        /\ Writer(d) \in fin
        /\ out[Writer(d)].vis = inb[d].sent

\* Nothing for a direction to do: its reader has nothing, or its writer does not
\* take, flush or shut down what it is given.
Blocked(d) ==
    LET w == Writer(d) IN
    IF transfer[d] = "Running" /\ WantsRead(d)
      THEN inb[d].avail = 0 /\ ~inb[d].eof /\ d \notin broken
      ELSE /\ w \notin broken
           /\ IF transfer[d] = "ShuttingDown" THEN out[w].vis - out[w].got = Window
              ELSE IF ~Empty(d) THEN Free(w) = 0
              ELSE ~AllPushed(out[w])

\* When the task sleeps, neither direction can go on, no stream keeps to itself
\* what its transport would take, and a stop is pending only if the direction
\* that reads the wrapped stream is stuck with its writer: no wakeup is lost.
NoLostWakeup ==
    pc = "asleep" =>
      /\ \A d \in Sides : Blocked(d) /\ out[d].vis = Reach(out[d])
      /\ stop => ~WantsRead(wrapped)

\* "Stop the connection by uuid" (rabbit_digger.rs:386): a stop that was sent
\* ends the relay.
StopEndsRelay == stop ~> pc = "over"

\* What the Connection counted is reported; but when the wrapped stream is side
\* a, whose direction is polled first, its read may take the beat, direction b
\* count a write in the rest of the poll, and the task sleep with no waker at the
\* heartbeat: then that write waits for whatever wakes the relay next.
Reported ==
    \/ ~unsent
    \/ wrapped = "a" /\ pc = "asleep" /\ <<"heartbeat", "a">> \notin reg

\* Given peers that read, a relay settles, whatever came in between: what a peer
\* sent is shown to the other, what was counted is reported, and an end of file or
\* a stop has ended the relay (poll_copy, transfer_one_direction,
\* CopyBidirectional::poll, Connection::poll).
Settled ==
    \/ pc = "over" /\ ~unsent
    \/ /\ ~stop /\ Reported
       /\ \A d \in Sides : ~inb[d].eof /\ out[Writer(d)].vis = inb[d].sent
RelaySettles == []<>Settled
=============================================================================
