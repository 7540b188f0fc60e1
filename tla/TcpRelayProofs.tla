--------------------------- MODULE TcpRelayProofs ---------------------------
(***************************************************************************)
(* Proofs about TcpRelay, for any buffer size, any room in the streams and *)
(* any number of units: poll_copy copies exactly, a relay that ends well   *)
(* has passed on one side to its end of file, and a task that sleeps has   *)
(* left a waker for everything that could let it go on.                    *)
(***************************************************************************)
EXTENDS TcpRelay, TLAPS

-----------------------------------------------------------------------------
(* The inductive invariant, in parts.                                      *)

\* What a stream gave to its peer it had shown, and what it had shown it had
\* accepted, and no more than its transport takes; nothing is kept back from the
\* peer unless need_flush says so.
FlushTracked ==
    \A d \in Sides :
      LET o == out[Writer(d)] IN
      /\ o.got <= o.vis /\ o.vis <= o.acc /\ o.vis <= o.got + Window
      /\ ~buf[d].need_flush => o.vis = o.acc

\* read_done is the end of file, a direction shuts down with everything shown,
\* and is Done with its writer shut down.
DoneComplete ==
    \A d \in Sides :
      /\ buf[d].read_done => inb[d].eof /\ inb[d].avail = 0
      /\ transfer[d] \in {"ShuttingDown", "Done"} =>
           /\ buf[d].read_done /\ Empty(d)
           /\ out[Writer(d)].vis = out[Writer(d)].acc
      /\ transfer[d] = "Done" => Writer(d) \in fin

\* Where the poll is: a direction that has returned is Done or pending, the
\* task sleeps only on two pending ones, and it ends well only after one that
\* is Done.
PollOrder ==
    /\ \A d \in Sides : outcome[d] = "Ready" => transfer[d] = "Done"
    /\ pc = "b" => outcome["a"] # "none"
    /\ pc = "asleep" => ~wake /\ \A d \in Sides : outcome[d] = "Pending"
    /\ result = "ok" => \E d \in Sides : transfer[d] = "Done"

\* The wakers a pending direction counts on.
WakersLeft(d) ==
    IF transfer[d] = "Running" /\ WantsRead(d)
      THEN /\ <<"read", d>> \in reg
           /\ d = wrapped => ~stop /\ <<"stop", d>> \in reg
           /\ buf[d].need_flush => <<"write", Writer(d)>> \in reg
      ELSE <<"write", Writer(d)>> \in reg

\* From its poll until the next one, a pending direction either has been woken
\* or is still blocked, keeps nothing back that its transport takes, and its
\* wakers are registered.
Parked(d) ==
    /\ Blocked(d)
    /\ out[Writer(d)].vis = Reach(out[Writer(d)])
    /\ WakersLeft(d)
Waits(d) == pc \in {"a", "b", "asleep"} /\ outcome[d] = "Pending" => wake \/ Parked(d)
PendingIsParked == \A d \in Sides : Waits(d)

IInv ==
    TypeOK /\ CopiesAll /\ FlushTracked /\ DoneComplete /\ PollOrder /\ PendingIsParked

-----------------------------------------------------------------------------
(* Type correctness.                                                       *)

LEMMA SidesFacts ==
    /\ \A d \in Sides : Writer(d) \in Sides /\ Writer(d) # d /\ Writer(Writer(d)) = d
    /\ \A s, t \in Sides : s # t => t = Writer(s)
  BY DEF Sides, Writer, Other

Inbound == [sent : Nat, avail : Nat, eof : BOOLEAN]
Outbound == [acc : Nat, vis : Nat, got : Nat]
Buffer == [pos : 0..BufSize, cap : 0..BufSize, read_done : BOOLEAN, need_flush : BOOLEAN]

\* The fields of a CopyBuffer after new contents, and after a write.
LEMMA BufferFilled ==
    ASSUME NEW r \in Buffer, NEW n \in 0..BufSize
    PROVE  LET q == [r EXCEPT !.pos = 0, !.cap = n] IN
           /\ q \in Buffer
           /\ q.pos = 0 /\ q.cap = n
           /\ q.read_done = r.read_done /\ q.need_flush = r.need_flush
<1> DEFINE m == [r EXCEPT !.pos = 0]
           q == [r EXCEPT !.pos = 0, !.cap = n]
<1>1. m \in Buffer /\ m.pos = 0 /\ m.read_done = r.read_done /\ m.need_flush = r.need_flush
  BY RelayAssumption DEF Buffer
<1>2. q = [m EXCEPT !.cap = n]
  OBVIOUS
<1> HIDE DEF m, q
<1>3. /\ q \in Buffer /\ q.pos = m.pos /\ q.cap = n
      /\ q.read_done = m.read_done /\ q.need_flush = m.need_flush
  BY <1>1, <1>2 DEF Buffer
<1> QED BY <1>1, <1>3 DEF q

LEMMA BufferWritten ==
    ASSUME NEW r \in Buffer, NEW i \in Nat, r.pos + i <= r.cap
    PROVE  LET q == [r EXCEPT !.pos = @ + i, !.need_flush = TRUE] IN
           /\ q \in Buffer
           /\ q.pos = r.pos + i /\ q.cap = r.cap
           /\ q.read_done = r.read_done /\ q.need_flush
<1> DEFINE m == [r EXCEPT !.pos = @ + i]
           q == [r EXCEPT !.pos = @ + i, !.need_flush = TRUE]
<1>1. m \in Buffer /\ m.pos = r.pos + i /\ m.read_done = r.read_done /\ m.cap = r.cap
  BY RelayAssumption DEF Buffer
<1>2. q = [m EXCEPT !.need_flush = TRUE]
  OBVIOUS
<1> HIDE DEF m, q
<1>3. /\ q \in Buffer /\ q.pos = m.pos /\ q.cap = m.cap
      /\ q.read_done = m.read_done /\ q.need_flush = TRUE
  BY <1>1, <1>2 DEF Buffer
<1> QED BY <1>1, <1>3 DEF q

\* One field of one stream or buffer changes, the others stay.
LEMMA Taken ==
    ASSUME NEW f \in [Sides -> Inbound], NEW d \in Sides, NEW n \in Nat, n <= f[d].avail
    PROVE  LET g == [f EXCEPT ![d].avail = @ - n] IN
           /\ g \in [Sides -> Inbound]
           /\ g[d].sent = f[d].sent /\ g[d].avail = f[d].avail - n /\ g[d].eof = f[d].eof
           /\ \A e \in Sides : e # d => g[e] = f[e]
  BY DEF Inbound

LEMMA Accepted ==
    ASSUME NEW f \in [Sides -> Outbound], NEW w \in Sides, NEW i \in Nat
    PROVE  LET g == [f EXCEPT ![w].acc = @ + i] IN
           /\ g \in [Sides -> Outbound]
           /\ g[w].acc = f[w].acc + i /\ g[w].vis = f[w].vis /\ g[w].got = f[w].got
           /\ \A s \in Sides : s # w => g[s] = f[s]
  BY DEF Outbound

LEMMA Reaches ==
    ASSUME NEW o \in Outbound
    PROVE  /\ Reach(o) \in Nat /\ Reach(o) <= o.got + Window
           /\ AllPushed(o) => Reach(o) = o.acc
           /\ o.got <= o.acc => o.got <= Reach(o) /\ Reach(o) <= o.acc
           /\ o.vis = o.acc /\ o.vis <= o.got + Window => Reach(o) = o.vis
  BY RelayAssumption DEF Outbound, Reach, AllPushed

\* What a stream reaches depends on what it accepted and gave alone.
LEMMA ReachSame ==
    ASSUME NEW o \in Outbound, NEW q \in Outbound, o.acc = q.acc, o.got = q.got
    PROVE  Reach(o) = Reach(q) /\ AllPushed(o) = AllPushed(q)
  BY DEF Reach, AllPushed

LEMMA Shown ==
    ASSUME NEW f \in [Sides -> Outbound], NEW w \in Sides
    PROVE  LET g == [f EXCEPT ![w] = Pushed(@)] IN
           /\ g \in [Sides -> Outbound]
           /\ g[w].acc = f[w].acc /\ g[w].vis = Reach(f[w]) /\ g[w].got = f[w].got
           /\ Reach(g[w]) = Reach(f[w]) /\ AllPushed(g[w]) = AllPushed(f[w])
           /\ \A s \in Sides : s # w => g[s] = f[s]
<1> DEFINE g == [f EXCEPT ![w] = Pushed(@)]
           r == Reach(f[w])
           q == [f[w] EXCEPT !.vis = r]
<1>1. r \in Nat /\ f[w] \in Outbound
  BY Reaches
<1>2. g = [f EXCEPT ![w] = q]
  BY DEF Pushed
<1> HIDE DEF r
<1>3. q \in Outbound /\ q.acc = f[w].acc /\ q.vis = r /\ q.got = f[w].got
  BY <1>1 DEF Outbound
<1>4. Reach(q) = Reach(f[w]) /\ AllPushed(q) = AllPushed(f[w])
  BY <1>1, <1>3, ReachSame
<1> HIDE DEF q, g
<1>5. g \in [Sides -> Outbound] /\ g[w] = q /\ \A s \in Sides : s # w => g[s] = f[s]
  BY <1>2, <1>3
<1> QED BY <1>3, <1>4, <1>5 DEF g, r

LEMMA BufferFlushed ==
    ASSUME NEW f \in [Sides -> Buffer], NEW d \in Sides, NEW b \in BOOLEAN
    PROVE  LET g == [f EXCEPT ![d].need_flush = b] IN
           /\ g \in [Sides -> Buffer]
           /\ g[d].pos = f[d].pos /\ g[d].cap = f[d].cap
           /\ g[d].read_done = f[d].read_done /\ g[d].need_flush = b
           /\ \A e \in Sides : e # d => g[e] = f[e]
  BY DEF Buffer

LEMMA BufferAtEof ==
    ASSUME NEW f \in [Sides -> Buffer], NEW d \in Sides
    PROVE  LET g == [f EXCEPT ![d].read_done = TRUE] IN
           /\ g \in [Sides -> Buffer]
           /\ g[d].pos = f[d].pos /\ g[d].cap = f[d].cap
           /\ g[d].read_done /\ g[d].need_flush = f[d].need_flush
           /\ \A e \in Sides : e # d => g[e] = f[e]
  BY DEF Buffer

\* What the two actions that move units do, field by field.
LEMMA ReadDataEffect ==
    ASSUME TypeOK, NEW d \in Sides, ReadData(d)
    PROVE  \E n \in 0..BufSize :
             /\ inb' = [inb EXCEPT ![d].avail = @ - n] /\ n <= inb[d].avail
             /\ buf' \in [Sides -> Buffer] /\ buf'[d].pos = 0 /\ buf'[d].cap = n
             /\ buf'[d].read_done = buf[d].read_done
             /\ buf'[d].need_flush = buf[d].need_flush
             /\ \A e \in Sides : e # d => buf'[e] = buf[e]
             /\ unsent' = (Unreported(d) \/ d = wrapped)
<1> DEFINE n == IF inb[d].avail < BufSize THEN inb[d].avail ELSE BufSize
<1>1. n \in 0..BufSize /\ n <= inb[d].avail
  BY RelayAssumption DEF TypeOK
<1>2. /\ inb' = [inb EXCEPT ![d].avail = @ - n]
      /\ buf' = [buf EXCEPT ![d].pos = 0, ![d].cap = n]
      /\ unsent' = (Unreported(d) \/ d = wrapped)
  BY DEF ReadData
<1> HIDE DEF n
<1> DEFINE q == [buf[d] EXCEPT !.pos = 0, !.cap = n]
<1>3. buf \in [Sides -> Buffer]
  BY DEF TypeOK, Buffer
<1>4. buf' = [buf EXCEPT ![d] = q]
  BY <1>2, <1>3
<1>5. /\ q \in Buffer /\ q.pos = 0 /\ q.cap = n
      /\ q.read_done = buf[d].read_done /\ q.need_flush = buf[d].need_flush
  BY <1>1, <1>3, BufferFilled
<1> HIDE DEF q
<1>6. /\ buf' \in [Sides -> Buffer] /\ buf'[d] = q
      /\ \A e \in Sides : e # d => buf'[e] = buf[e]
  BY <1>3, <1>4, <1>5
<1> QED BY <1>1, <1>2, <1>5, <1>6

LEMMA WriteDataEffect ==
    ASSUME TypeOK, NEW d \in Sides, NEW i \in 1..BufSize, WriteData(d, i)
    PROVE  /\ buf' \in [Sides -> Buffer] /\ buf'[d].pos = buf[d].pos + i
           /\ buf'[d].cap = buf[d].cap /\ buf'[d].pos <= buf[d].cap
           /\ buf'[d].read_done = buf[d].read_done /\ buf'[d].need_flush
           /\ \A e \in Sides : e # d => buf'[e] = buf[e]
<1> DEFINE q == [buf[d] EXCEPT !.pos = @ + i, !.need_flush = TRUE]
<1>1. buf \in [Sides -> Buffer] /\ buf[d] \in Buffer
  BY DEF TypeOK, Buffer
<1>2. i \in Nat /\ buf[d].pos + i <= buf[d].cap
  BY <1>1, RelayAssumption DEF WriteData, Buffer
<1>3. buf' = [buf EXCEPT ![d] = q]
  BY <1>1 DEF WriteData
<1>4. /\ q \in Buffer /\ q.pos = buf[d].pos + i /\ q.cap = buf[d].cap
      /\ q.read_done = buf[d].read_done /\ q.need_flush
  BY <1>1, <1>2, BufferWritten
<1> HIDE DEF q
<1>5. /\ buf' \in [Sides -> Buffer] /\ buf'[d] = q
      /\ \A e \in Sides : e # d => buf'[e] = buf[e]
  BY <1>1, <1>3, <1>4
<1> QED BY <1>2, <1>4, <1>5

\* Calling wakers changes no more than reg, pc and wake, each within its type.
LEMMA NotifyType ==
    ASSUME TypeOK, NEW S, Notify(S)
    PROVE  /\ reg' \subseteq Sources
           /\ pc' \in {"asleep", "woken", "a", "b", "over"}
           /\ wake' \in BOOLEAN
  BY DEF TypeOK, Notify

LEMMA ConnPollType ==
    ASSUME TypeOK, NEW d \in Sides, NEW S \in SUBSET Sources, ConnPoll(d, S)
    PROVE  reg' \subseteq Sources /\ tick' \in 0..2
  BY DEF TypeOK, ConnPoll, Sources, Sides

LEMMA TypeStep == TypeOK /\ [Next]_vars => TypeOK'
<1> SUFFICES ASSUME TypeOK, [Next]_vars PROVE TypeOK'
  OBVIOUS
<1> USE RelayAssumption
<1>0. /\ inb \in [Sides -> Inbound] /\ out \in [Sides -> Outbound] /\ buf \in [Sides -> Buffer]
      /\ \A d \in Sides : buf[d].pos <= buf[d].cap
  BY DEF TypeOK, Inbound, Outbound, Buffer
<1>a. ASSUME NEW r \in {"ok", "err", "aborted", "cancelled"}, End(r) PROVE TypeOK'
  <2>1. /\ result' \in {"none", "ok", "err", "aborted", "cancelled"}
        /\ pc' \in {"asleep", "woken", "a", "b", "over"}
        /\ tick' \in 0..2
        /\ reg' \subseteq Sources
    BY <1>a DEF End
  <2>2. unsent' \in BOOLEAN /\ wake' \in BOOLEAN
    BY <1>a, Zenon DEF End
  <2>3. UNCHANGED <<wrapped, inb, broken, out, fin, buf, transfer, outcome, stop>>
    BY <1>a DEF End, ioVars
  <2> QED BY <2>1, <2>2, <2>3, Zenon DEF TypeOK
<1>1. CASE BeginPoll
  BY <1>1 DEF TypeOK, BeginPoll
<1>2. ASSUME NEW d \in Sides, Direction(d) PROVE TypeOK'
  <2>0. <<"read", d>> \in Sources /\ <<"write", Writer(d)>> \in Sources /\ Writer(d) \in Sides
    BY SidesFacts DEF Sources
  <2>1. CASE ReadAborted(d) \/ ReadError(d) \/ FlushError(d) \/ WriteError(d)
    BY <1>a, <2>1 DEF ReadAborted, ReadError, FlushError, WriteError
  <2>3. CASE ReadData(d)
    <3>1. reg' \subseteq Sources /\ tick' \in 0..2
      BY <2>3, ConnPollType DEF ReadData
    <3>2. PICK n \in 0..BufSize :
            /\ inb' = [inb EXCEPT ![d].avail = @ - n] /\ n <= inb[d].avail
            /\ buf' \in [Sides -> Buffer] /\ buf'[d].pos = 0 /\ buf'[d].cap = n
            /\ \A e \in Sides : e # d => buf'[e] = buf[e]
            /\ unsent' = (Unreported(d) \/ d = wrapped)
      BY <2>3, ReadDataEffect
    <3>3. unsent' \in BOOLEAN
      BY <3>2 DEF TypeOK, Unreported
    <3>4. inb' \in [Sides -> Inbound]
      BY <1>0, <3>2, Taken
    <3>5. \A e \in Sides : buf'[e].pos <= buf'[e].cap
      BY <3>2 DEF TypeOK
    <3> QED BY <2>3, <3>1, <3>2, <3>3, <3>4, <3>5 DEF TypeOK, ReadData, Inbound, Buffer
  <2>4. CASE ReadEof(d)
    <3>1. reg' \subseteq Sources /\ tick' \in 0..2
      BY <2>4, ConnPollType DEF ReadEof
    <3>2. buf' \in [Sides -> Buffer] /\ \A e \in Sides : buf'[e].pos <= buf'[e].cap
      BY <1>0, <2>4, BufferAtEof DEF ReadEof
    <3>3. unsent' \in BOOLEAN
      BY <2>4 DEF TypeOK, ReadEof, Unreported
    <3> QED BY <2>4, <3>1, <3>2, <3>3 DEF TypeOK, ReadEof, ioVars, Buffer
  <2>5. CASE ReadPending(d)
    <3>1. PICK S \in SUBSET Sources : ConnPoll(d, S)
      BY <2>0, <2>5 DEF ReadPending
    <3>1a. reg' \subseteq Sources /\ tick' \in 0..2
      BY <3>1, ConnPollType
    <3>2. out' \in [Sides -> Outbound]
      <4>1. CASE buf[d].need_flush
        BY <1>0, <2>0, <2>5, <4>1, Shown DEF ReadPending
      <4>2. CASE ~buf[d].need_flush
        BY <1>0, <2>5, <4>2 DEF ReadPending
      <4> QED BY <4>1, <4>2
    <3>3. buf' \in [Sides -> Buffer] /\ \A e \in Sides : buf'[e].pos <= buf'[e].cap
      <4>1. CASE buf[d].need_flush
        <5>1. PICK b \in BOOLEAN : buf' = [buf EXCEPT ![d].need_flush = b]
          BY <2>5, <4>1 DEF ReadPending
        <5> QED BY <1>0, <5>1, BufferFlushed
      <4>2. CASE ~buf[d].need_flush
        BY <1>0, <2>5, <4>2 DEF ReadPending
      <4> QED BY <4>1, <4>2
    <3>4. unsent' \in BOOLEAN
      BY <2>5 DEF TypeOK, ReadPending, Unreported
    <3>5. outcome' \in [Sides -> {"none", "Pending", "Ready"}]
      BY <2>5 DEF TypeOK, ReadPending, Pending
    <3> QED BY <2>5, <3>1a, <3>2, <3>3, <3>4, <3>5 DEF TypeOK, ReadPending, Buffer, Outbound
  <2>8. ASSUME NEW i \in 1..BufSize, WriteData(d, i) PROVE TypeOK'
    <3>1. out' \in [Sides -> Outbound]
      BY <1>0, <2>0, <2>8, Accepted DEF WriteData
    <3>2. buf' \in [Sides -> Buffer] /\ \A e \in Sides : buf'[e].pos <= buf'[e].cap
      BY <2>8, WriteDataEffect DEF TypeOK
    <3>3. unsent' \in BOOLEAN
      BY <2>8 DEF TypeOK, WriteData
    <3> QED BY <2>8, <3>1, <3>2, <3>3 DEF TypeOK, WriteData, Outbound, Buffer
  <2>9. CASE WritePending(d)
    <3>1. out' \in [Sides -> Outbound]
      BY <1>0, <2>0, <2>9, Shown DEF WritePending
    <3> QED BY <2>0, <2>9, <3>1 DEF TypeOK, WritePending, Pending, Outbound, connVars
  <2>10. CASE LastFlush(d)
    <3>1. out' \in [Sides -> Outbound]
      BY <1>0, <2>0, <2>10, Shown DEF LastFlush
    <3> QED BY <2>0, <2>10, <3>1 DEF TypeOK, LastFlush, Outbound, connVars
  <2>11. CASE Shutdown(d) \/ ShutdownPending(d)
    BY <2>0, <2>11 DEF TypeOK, Shutdown, ShutdownPending, Pending, connVars
  <2> QED BY <1>2, <2>1, <2>3, <2>4, <2>5, <2>8, <2>9, <2>10, <2>11 DEF Direction
<1>3. CASE SecondDirection
  BY <1>3 DEF TypeOK, SecondDirection, ioVars, connVars
<1>4. CASE Sleep
  BY <1>4 DEF TypeOK, Sleep, ioVars, connVars
<1>4a. CASE Finish
  BY <1>a, <1>4a DEF Finish
<1>5. ASSUME NEW s \in Sides, PeerSend(s) PROVE TypeOK'
  BY <1>5, NotifyType DEF TypeOK, PeerSend, connVars
<1>6. ASSUME NEW s \in Sides, PeerClose(s) PROVE TypeOK'
  BY <1>6, NotifyType DEF TypeOK, PeerClose, connVars
<1>7. ASSUME NEW s \in Sides, PeerRecv(s) PROVE TypeOK'
  BY <1>7, NotifyType DEF TypeOK, PeerRecv, connVars
<1>8. ASSUME NEW s \in Sides, Break(s) PROVE TypeOK'
  BY <1>8, NotifyType DEF TypeOK, Break, connVars
<1>9. CASE Heartbeat
  BY <1>9, NotifyType DEF TypeOK, Heartbeat, ioVars
<1>10. CASE StopConnection
  BY <1>10, NotifyType DEF TypeOK, StopConnection, ioVars
<1>11. CASE Cancel
  BY <1>a, <1>11 DEF Cancel
<1>12. CASE UNCHANGED vars
  BY <1>12 DEF TypeOK, vars
<1> QED
  BY <1>1, <1>2, <1>3, <1>4, <1>4a, <1>5, <1>6, <1>7, <1>8, <1>9, <1>10, <1>11, <1>12
  DEF Next, Task, Environment, Fault

LEMMA InitType == Init => TypeOK
<1> SUFFICES ASSUME Init PROVE TypeOK
  OBVIOUS
<1>1. EmptyBuffer \in Buffer /\ EmptyBuffer.pos = 0 /\ EmptyBuffer.cap = 0
  BY RelayAssumption DEF EmptyBuffer, Buffer
<1>2. buf \in [Sides -> Buffer] /\ \A d \in Sides : buf[d].pos <= buf[d].cap
  BY <1>1 DEF Init
<1>3. inb \in [Sides -> Inbound] /\ out \in [Sides -> Outbound]
  BY DEF Init, Inbound, Outbound
<1>4. /\ transfer \in [Sides -> {"Running", "ShuttingDown", "Done"}] /\ wrapped \in Sides
      /\ outcome \in [Sides -> {"none", "Pending", "Ready"}]
  BY DEF Init
<1>5. /\ broken \subseteq Sides /\ fin \subseteq Sides /\ reg \subseteq Sources
      /\ unsent = FALSE /\ tick \in 0..2 /\ pc = "woken" /\ result = "none"
  BY DEF Init
<1>6. wake \in BOOLEAN /\ stop \in BOOLEAN /\ unsent \in BOOLEAN
  BY DEF Init
<1> QED BY <1>2, <1>3, <1>4, <1>5, <1>6 DEF TypeOK, Inbound, Outbound, Buffer

\* Every value of every reachable state of connect_tcp is of its type, and a
\* CopyBuffer's pos never passes its cap.
THEOREM TypeCorrect == Spec => []TypeOK
  BY InitType, TypeStep, PTL DEF Spec

-----------------------------------------------------------------------------
(* The data: what a direction has read, holds, written and shown.          *)

DirectionData(d) ==
    LET i == inb[d] b == buf[d] o == out[Writer(d)] IN
    /\ i.sent - i.avail = o.acc + (b.cap - b.pos)
    /\ o.got <= o.vis /\ o.vis <= o.acc /\ o.vis <= o.got + Window
    /\ ~b.need_flush => o.vis = o.acc
    /\ b.read_done => i.eof /\ i.avail = 0
    /\ transfer[d] \in {"ShuttingDown", "Done"} =>
         b.read_done /\ b.pos = b.cap /\ o.vis = o.acc
    /\ transfer[d] = "Done" => Writer(d) \in fin

LEMMA DirectionDataIs ==
    (\A d \in Sides : DirectionData(d)) <=> CopiesAll /\ FlushTracked /\ DoneComplete
  BY DEF DirectionData, CopiesAll, FlushTracked, DoneComplete, Empty

\* A direction whose stream, buffer and writer are left alone keeps it.
LEMMA DirectionDataFrame ==
    ASSUME NEW d \in Sides, DirectionData(d),
           inb'[d] = inb[d], buf'[d] = buf[d], out'[Writer(d)] = out[Writer(d)],
           transfer'[d] = transfer[d], fin \subseteq fin'
    PROVE  DirectionData(d)'
  BY DEF DirectionData

LEMMA DataStep ==
    ASSUME TypeOK, \A d \in Sides : DirectionData(d), [Next]_vars
    PROVE  \A d \in Sides : DirectionData(d)'
<1>0. /\ inb \in [Sides -> Inbound] /\ out \in [Sides -> Outbound] /\ buf \in [Sides -> Buffer]
      /\ transfer \in [Sides -> {"Running", "ShuttingDown", "Done"}]
  BY DEF TypeOK, Inbound, Outbound, Buffer
<1>1. CASE UNCHANGED <<inb, out, fin, buf, transfer>>
  BY <1>1, DirectionDataFrame
<1>2. ASSUME NEW d \in Sides, NEW e \in Sides,
             \/ ReadData(d) \/ ReadEof(d) \/ ReadPending(d) \/ WritePending(d) \/ LastFlush(d)
             \/ Shutdown(d) \/ \E i \in 1..BufSize : WriteData(d, i)
      PROVE  DirectionData(e)'
  <2>0. /\ Writer(d) \in Sides /\ Writer(e) \in Sides /\ Writer(d) # d
        /\ e # d => Writer(e) # Writer(d)
    BY SidesFacts
  <2>1. CASE ReadData(d)
    <3>1. PICK n \in 0..BufSize :
            /\ inb' = [inb EXCEPT ![d].avail = @ - n] /\ n <= inb[d].avail
            /\ buf'[d].pos = 0 /\ buf'[d].cap = n
            /\ buf'[d].read_done = buf[d].read_done
            /\ buf'[d].need_flush = buf[d].need_flush
            /\ \A f \in Sides : f # d => buf'[f] = buf[f]
      BY <2>1, ReadDataEffect
    <3>2. /\ inb'[d].sent = inb[d].sent /\ inb'[d].avail = inb[d].avail - n
          /\ inb'[d].eof = inb[d].eof
          /\ \A f \in Sides : f # d => inb'[f] = inb[f]
      BY <1>0, <3>1, Taken
    <3>3. UNCHANGED <<out, fin, transfer>> /\ Empty(d) /\ ~buf[d].read_done /\ transfer[d] = "Running"
      BY <2>1 DEF ReadData, ReadStep, WantsRead, Running
    <3>4. CASE e = d
      BY <1>0, <2>0, <3>1, <3>2, <3>3, <3>4
      DEF DirectionData, Empty, Inbound, Outbound, Buffer
    <3>5. CASE e # d
      BY <3>1, <3>2, <3>3, <3>5, DirectionDataFrame
    <3> QED BY <3>4, <3>5
  <2>2. CASE ReadEof(d)
    <3>1. /\ buf'[d].pos = buf[d].pos /\ buf'[d].cap = buf[d].cap
          /\ buf'[d].need_flush = buf[d].need_flush
          /\ \A f \in Sides : f # d => buf'[f] = buf[f]
      BY <1>0, <2>2, BufferAtEof DEF ReadEof
    <3>2. /\ UNCHANGED <<inb, out, fin, transfer>> /\ transfer[d] = "Running"
          /\ inb[d].avail = 0 /\ inb[d].eof
      BY <2>2 DEF ReadEof, ReadStep, Running, ioVars
    <3>3. CASE e = d
      BY <3>1, <3>2, <3>3 DEF DirectionData
    <3>4. CASE e # d
      BY <3>1, <3>2, <3>4, DirectionDataFrame
    <3> QED BY <3>3, <3>4
  <2>3. CASE ReadPending(d)
    <3>1. UNCHANGED <<inb, fin, transfer>> /\ transfer[d] = "Running"
      BY <2>3 DEF ReadPending, ReadStep, Running
    <3>2. CASE buf[d].need_flush
      <4>1. /\ out' = [out EXCEPT ![Writer(d)] = Pushed(@)]
            /\ buf' = [buf EXCEPT ![d].need_flush = ~AllPushed(out[Writer(d)])]
        BY <2>3, <3>2 DEF ReadPending
      <4>2. /\ out'[Writer(d)].acc = out[Writer(d)].acc
            /\ out'[Writer(d)].vis = Reach(out[Writer(d)])
            /\ out'[Writer(d)].got = out[Writer(d)].got
            /\ \A s \in Sides : s # Writer(d) => out'[s] = out[s]
        BY <1>0, <2>0, <4>1, Shown
      <4>3. /\ buf'[d].pos = buf[d].pos /\ buf'[d].cap = buf[d].cap
            /\ buf'[d].read_done = buf[d].read_done
            /\ buf'[d].need_flush = ~AllPushed(out[Writer(d)])
            /\ \A f \in Sides : f # d => buf'[f] = buf[f]
        <5>1. (~AllPushed(out[Writer(d)])) \in BOOLEAN
          OBVIOUS
        <5> QED BY <1>0, <4>1, <5>1, BufferFlushed
      <4>4. CASE e = d
        <5>1. out[Writer(d)].acc \in Nat /\ out[Writer(d)].vis \in Nat /\ out[Writer(d)].got \in Nat
          BY <1>0, <2>0 DEF Outbound
        <5>2. /\ out[Writer(d)].got <= out[Writer(d)].acc
          BY <5>1, <4>4 DEF DirectionData
        <5>3. /\ out'[Writer(d)].got <= out'[Writer(d)].vis
              /\ out'[Writer(d)].vis <= out'[Writer(d)].acc
              /\ out'[Writer(d)].vis <= out'[Writer(d)].got + Window
              /\ ~buf'[d].need_flush => out'[Writer(d)].vis = out'[Writer(d)].acc
          BY <1>0, <2>0, <4>2, <4>3, <5>1, <5>2, Reaches
        <5> QED BY <3>1, <4>2, <4>3, <4>4, <5>3 DEF DirectionData
      <4>5. CASE e # d
        BY <2>0, <3>1, <4>2, <4>3, <4>5, DirectionDataFrame
      <4> QED BY <4>4, <4>5
    <3>3. CASE ~buf[d].need_flush
      <4>1. UNCHANGED <<out, buf>>
        BY <2>3, <3>3 DEF ReadPending
      <4> QED BY <3>1, <4>1, DirectionDataFrame
    <3> QED BY <3>2, <3>3
  <2>4. CASE WritePending(d) \/ LastFlush(d)
    <3>1. out' = [out EXCEPT ![Writer(d)] = Pushed(@)] /\ UNCHANGED <<inb, buf, fin>>
      BY <2>4 DEF WritePending, LastFlush
    <3>2. /\ out'[Writer(d)].acc = out[Writer(d)].acc
          /\ out'[Writer(d)].vis = Reach(out[Writer(d)])
          /\ out'[Writer(d)].got = out[Writer(d)].got
          /\ \A s \in Sides : s # Writer(d) => out'[s] = out[s]
      BY <1>0, <2>0, <3>1, Shown
    <3>3. /\ \A f \in Sides : f # d => transfer'[f] = transfer[f]
          /\ transfer[d] = "Running"
          /\ \/ transfer'[d] = transfer[d]
             \/ /\ transfer'[d] = "ShuttingDown" /\ AllPushed(out[Writer(d)])
                /\ buf[d].read_done /\ buf[d].pos = buf[d].cap
      BY <1>0, <2>4 DEF WritePending, LastFlush, Running, Empty
    <3>4. CASE e = d
      <4>1. out[Writer(d)].acc \in Nat /\ out[Writer(d)].vis \in Nat /\ out[Writer(d)].got \in Nat
        BY <1>0, <2>0 DEF Outbound
      <4>2. /\ out[Writer(d)].got <= out[Writer(d)].acc
            /\ ~buf[d].need_flush => Reach(out[Writer(d)]) = out[Writer(d)].acc
        BY <1>0, <2>0, <3>4, <4>1, Reaches DEF DirectionData
      <4>3. /\ out'[Writer(d)].got <= out'[Writer(d)].vis
            /\ out'[Writer(d)].vis <= out'[Writer(d)].acc
            /\ out'[Writer(d)].vis <= out'[Writer(d)].got + Window
            /\ ~buf[d].need_flush => out'[Writer(d)].vis = out'[Writer(d)].acc
            /\ AllPushed(out[Writer(d)]) => out'[Writer(d)].vis = out'[Writer(d)].acc
        BY <1>0, <2>0, <3>2, <4>1, <4>2, Reaches
      <4> QED BY <3>1, <3>2, <3>3, <3>4, <4>3 DEF DirectionData
    <3>5. CASE e # d
      BY <2>0, <3>1, <3>2, <3>3, <3>5, DirectionDataFrame
    <3> QED BY <3>4, <3>5
  <2>4a. CASE Shutdown(d)
    <3>1. /\ UNCHANGED <<inb, buf, out>> /\ fin \subseteq fin' /\ Writer(d) \in fin'
          /\ transfer[d] = "ShuttingDown" /\ transfer'[d] = "Done"
          /\ \A f \in Sides : f # d => transfer'[f] = transfer[f]
      BY <1>0, <2>4a DEF Shutdown, ShuttingDown
    <3>2. CASE e = d
      BY <3>1, <3>2 DEF DirectionData
    <3>3. CASE e # d
      BY <2>0, <3>1, <3>3, DirectionDataFrame
    <3> QED BY <3>2, <3>3
  <2>5. ASSUME NEW i \in 1..BufSize, WriteData(d, i) PROVE DirectionData(e)'
    <3>1. /\ buf'[d].pos = buf[d].pos + i /\ buf'[d].cap = buf[d].cap
          /\ buf'[d].read_done = buf[d].read_done /\ buf'[d].need_flush
          /\ \A f \in Sides : f # d => buf'[f] = buf[f]
      BY <2>5, WriteDataEffect
    <3>2. /\ out'[Writer(d)].acc = out[Writer(d)].acc + i
          /\ out'[Writer(d)].vis = out[Writer(d)].vis
          /\ out'[Writer(d)].got = out[Writer(d)].got
          /\ \A s \in Sides : s # Writer(d) => out'[s] = out[s]
      BY <1>0, <2>0, <2>5, Accepted DEF WriteData
    <3>3. UNCHANGED <<inb, fin, transfer>> /\ transfer[d] = "Running"
      BY <2>5 DEF WriteData, Running
    <3>4. CASE e = d
      BY <1>0, <2>0, <3>1, <3>2, <3>3, <3>4 DEF DirectionData, Outbound, Buffer, Inbound
    <3>5. CASE e # d
      BY <2>0, <3>1, <3>2, <3>3, <3>5, DirectionDataFrame
    <3> QED BY <3>4, <3>5
  <2> QED BY <1>2, <2>1, <2>2, <2>3, <2>4, <2>4a, <2>5
<1>3. ASSUME NEW s \in Sides, NEW e \in Sides, PeerSend(s) \/ PeerClose(s) \/ PeerRecv(s)
      PROVE  DirectionData(e)'
  <2>0. Writer(e) \in Sides
    BY SidesFacts
  <2>1. CASE PeerSend(s)
    BY <1>0, <2>0, <2>1 DEF PeerSend, DirectionData, Inbound
  <2>2. CASE PeerClose(s)
    BY <1>0, <2>0, <2>2 DEF PeerClose, DirectionData, Inbound
  <2>3. CASE PeerRecv(s)
    <3>1. UNCHANGED <<inb, fin, buf, transfer>> /\ out[s].got < out[s].vis
      BY <2>3 DEF PeerRecv
    <3>2. /\ out'[s].acc = out[s].acc /\ out'[s].vis = out[s].vis
          /\ out'[s].got = out[s].got + 1
          /\ \A f \in Sides : f # s => out'[f] = out[f]
      BY <1>0, <2>3 DEF PeerRecv, Outbound
    <3>3. CASE Writer(e) = s
      BY <1>0, <3>1, <3>2, <3>3, RelayAssumption DEF DirectionData, Outbound, Inbound, Buffer
    <3>4. CASE Writer(e) # s
      BY <2>0, <3>1, <3>2, <3>4, DirectionDataFrame
    <3> QED BY <3>3, <3>4
  <2> QED BY <1>3, <2>1, <2>2, <2>3
<1>4. \/ UNCHANGED <<inb, out, fin, buf, transfer>>
      \/ \E d \in Sides :
           \/ ReadData(d) \/ ReadEof(d) \/ ReadPending(d) \/ WritePending(d) \/ LastFlush(d)
           \/ Shutdown(d) \/ \E i \in 1..BufSize : WriteData(d, i)
      \/ \E s \in Sides : PeerSend(s) \/ PeerClose(s) \/ PeerRecv(s)
  BY DEF Next, vars, Task, Environment, Fault, Direction, BeginPoll, SecondDirection, Sleep,
         Finish, ReadAborted, ReadError, FlushError, WriteError, ShutdownPending, Break, Heartbeat,
         StopConnection, Cancel, End, ioVars
<1> QED BY <1>1, <1>2, <1>3, <1>4

-----------------------------------------------------------------------------
(* The poll: the order of its steps, and the wakers it leaves.             *)

LEMMA OrderStep ==
    ASSUME TypeOK, PollOrder, [Next]_vars
    PROVE  PollOrder'
<1>0. outcome \in [Sides -> {"none", "Pending", "Ready"}] /\ transfer \in [Sides -> {"Running", "ShuttingDown", "Done"}]
      /\ "a" \in Sides /\ "b" \in Sides /\ wake \in BOOLEAN
  BY DEF TypeOK, Sides
<1>1. CASE BeginPoll
  BY <1>1 DEF PollOrder, BeginPoll
<1>2. ASSUME NEW d \in Sides, Direction(d) PROVE PollOrder'
  <2>1. /\ pc = d /\ outcome[d] = "none" /\ pc # "asleep"
        /\ (pc' = pc /\ result' = result) \/ (pc' = "over" /\ result' # "ok")
        /\ \A e \in Sides : e # d => outcome'[e] = outcome[e] /\ transfer'[e] = transfer[e]
        /\ \/ outcome'[d] = outcome[d] /\ transfer'[d] = transfer[d]
           \/ outcome'[d] = "Pending" /\ transfer'[d] = transfer[d]
           \/ outcome'[d] = outcome[d] /\ transfer[d] # "Done"
           \/ outcome'[d] = "Ready" /\ transfer'[d] = "Done"
    <3>1. pc = d /\ outcome[d] = "none" /\ pc # "asleep"
      BY <1>2 DEF Direction, ReadAborted, ReadError, ReadData, ReadEof, ReadPending, FlushError,
                  WriteError, WriteData, WritePending, LastFlush, Shutdown, ShutdownPending, ReadStep,
                  Running, ShuttingDown, Sides
    <3>2. (pc' = pc /\ result' = result) \/ (pc' = "over" /\ result' # "ok")
      <4>1. CASE ReadAborted(d) \/ ReadError(d) \/ FlushError(d) \/ WriteError(d)
        BY <4>1 DEF ReadAborted, ReadError, FlushError, WriteError, End
      <4>2. CASE ReadData(d) \/ ReadEof(d) \/ ReadPending(d)
        BY <4>2 DEF ReadData, ReadEof, ReadPending
      <4>3. CASE \/ WritePending(d) \/ LastFlush(d) \/ Shutdown(d) \/ ShutdownPending(d)
                 \/ \E i \in 1..BufSize : WriteData(d, i)
        BY <4>3 DEF WritePending, LastFlush, Shutdown, ShutdownPending, WriteData
      <4> QED BY <1>2, <4>1, <4>2, <4>3 DEF Direction
    <3>3. \/ UNCHANGED <<outcome, transfer>>
          \/ outcome' = [outcome EXCEPT ![d] = "Pending"] /\ UNCHANGED transfer
          \/ /\ UNCHANGED outcome /\ transfer[d] = "Running"
             /\ transfer' = [transfer EXCEPT ![d] = "ShuttingDown"]
          \/ /\ outcome' = [outcome EXCEPT ![d] = "Ready"]
             /\ transfer' = [transfer EXCEPT ![d] = "Done"]
      BY <1>2 DEF Direction, ReadAborted, ReadError, ReadData, ReadEof, ReadPending, FlushError,
                  WriteError, WriteData, WritePending, LastFlush, Running, Shutdown, ShutdownPending,
                  Pending, End
    <3> QED BY <1>0, <3>1, <3>2, <3>3
  <2> QED BY <1>0, <2>1 DEF PollOrder, Sides
<1>3. CASE SecondDirection
  BY <1>3 DEF PollOrder, SecondDirection
<1>4. CASE Sleep
  BY <1>4 DEF PollOrder, Sleep
<1>4a. CASE Finish
  BY <1>4a DEF PollOrder, Finish, End
<1>5. ASSUME NEW S, Notify(S), UNCHANGED <<transfer, outcome, result>> PROVE PollOrder'
  BY <1>5 DEF PollOrder, Notify
<1>6. CASE \E s \in Sides : PeerSend(s) \/ PeerClose(s) \/ PeerRecv(s) \/ Break(s)
  BY <1>5, <1>6 DEF PeerSend, PeerClose, PeerRecv, Break
<1>7. CASE Heartbeat \/ StopConnection
  BY <1>5, <1>7 DEF Heartbeat, StopConnection
<1>8. CASE Cancel
  BY <1>8 DEF PollOrder, Cancel, End
<1>9. CASE UNCHANGED vars
  BY <1>9 DEF PollOrder, vars
<1> QED BY <1>1, <1>2, <1>3, <1>4, <1>4a, <1>6, <1>7, <1>8, <1>9 DEF Next, Task, Environment, Fault

\* A pending direction that a step leaves alone keeps waiting.
LEMMA ParkedFrame ==
    ASSUME NEW e \in Sides, Parked(e), inb'[e] = inb[e], buf'[e] = buf[e],
           out'[Writer(e)] = out[Writer(e)], broken' = broken, reg \subseteq reg', stop' = stop,
           transfer'[e] = transfer[e], wrapped' = wrapped
    PROVE  Parked(e)'
  BY DEF Parked, Blocked, WakersLeft, WantsRead, Empty, Free, AllPushed, Reach

LEMMA WaitsFrame ==
    ASSUME NEW e \in Sides, Waits(e), inb'[e] = inb[e], buf'[e] = buf[e],
           out'[Writer(e)] = out[Writer(e)], broken' = broken, reg \subseteq reg', stop' = stop,
           outcome'[e] = outcome[e], wake' = wake, transfer'[e] = transfer[e], wrapped' = wrapped,
           pc' \in {"a", "b", "asleep"} => pc \in {"a", "b", "asleep"}
    PROVE  Waits(e)'
  BY ParkedFrame DEF Waits

\* A waker that was called ends the wait; otherwise it is enough that the
\* direction, whose wakers are not among those called, stays parked.
LEMMA NotifyWaits ==
    ASSUME NEW e \in Sides, NEW S, Notify(S), Waits(e), outcome' = outcome, pc # "over",
           (S \cap reg = {} /\ reg' = reg /\ Parked(e)) => Parked(e)'
    PROVE  Waits(e)'
<1>1. CASE reg \cap S = {}
  <2>1. pc' = pc /\ wake' = wake /\ reg' = reg
    BY <1>1 DEF Notify
  <2> QED BY <1>1, <2>1 DEF Waits
<1>2. CASE reg \cap S # {} /\ pc = "asleep"
  <2>1. pc' = "woken"
    BY <1>2 DEF Notify
  <2> QED BY <2>1 DEF Waits
<1>3. CASE reg \cap S # {} /\ pc # "asleep"
  <2>1. wake'
    BY <1>3 DEF Notify
  <2> QED BY <2>1 DEF Waits
<1> QED BY <1>1, <1>2, <1>3

\* The ways to become pending park the direction.
LEMMA ReadPendingParks ==
    ASSUME TypeOK, NEW d \in Sides, DirectionData(d), ReadPending(d)
    PROVE  Parked(d)'
<1>0. /\ out \in [Sides -> Outbound] /\ buf \in [Sides -> Buffer] /\ Writer(d) \in Sides
      /\ out[Writer(d)] \in Outbound
  BY SidesFacts DEF TypeOK, Outbound, Buffer
<1>1. /\ WantsRead(d) /\ inb[d].avail = 0 /\ ~inb[d].eof /\ d \notin broken
      /\ ~(d = wrapped /\ stop) /\ UNCHANGED <<inb, broken, stop, wrapped, transfer>>
      /\ transfer[d] = "Running"
  BY DEF ReadPending, ReadStep, Running
<1>2. /\ <<"read", d>> \in reg'
      /\ d = wrapped => <<"stop", d>> \in reg'
      /\ buf'[d].need_flush => <<"write", Writer(d)>> \in reg'
  BY DEF ReadPending, ConnPoll
<1>3. /\ buf'[d].pos = buf[d].pos /\ buf'[d].cap = buf[d].cap
      /\ buf'[d].read_done = buf[d].read_done
      /\ out'[Writer(d)].vis = Reach(out'[Writer(d)])
  <2>1. CASE buf[d].need_flush
    <3>1. /\ out' = [out EXCEPT ![Writer(d)] = Pushed(@)]
          /\ \E b \in BOOLEAN : buf' = [buf EXCEPT ![d].need_flush = b]
      BY <2>1 DEF ReadPending
    <3>2. out'[Writer(d)].vis = Reach(out'[Writer(d)])
      BY <1>0, <3>1, Shown
    <3> QED BY <1>0, <3>1, <3>2, BufferFlushed
  <2>2. CASE ~buf[d].need_flush
    <3>1. UNCHANGED <<out, buf>>
      BY <2>2 DEF ReadPending
    <3>2. Reach(out[Writer(d)]) = out[Writer(d)].vis
      BY <1>0, <2>2, Reaches DEF DirectionData
    <3> QED BY <3>1, <3>2
  <2> QED BY <2>1, <2>2
<1>4. WantsRead(d)'
  BY <1>1, <1>3 DEF WantsRead, Empty
<1> QED BY <1>1, <1>2, <1>3, <1>4 DEF Parked, Blocked, WakersLeft

LEMMA WritePendingParks ==
    ASSUME TypeOK, NEW d \in Sides, WritePending(d)
    PROVE  Parked(d)'
<1>0. out \in [Sides -> Outbound] /\ Writer(d) \in Sides
  BY SidesFacts DEF TypeOK, Outbound
<1>1. /\ Writer(d) \notin broken /\ transfer[d] = "Running"
      /\ \/ ~Empty(d) /\ Free(Writer(d)) = 0
         \/ Empty(d) /\ buf[d].read_done /\ ~AllPushed(out[Writer(d)])
      /\ out' = [out EXCEPT ![Writer(d)] = Pushed(@)]
      /\ <<"write", Writer(d)>> \in reg' /\ UNCHANGED <<broken, buf, transfer>>
  BY DEF WritePending, Running
<1>2. /\ out'[Writer(d)].acc = out[Writer(d)].acc
      /\ out'[Writer(d)].vis = Reach(out'[Writer(d)])
      /\ out'[Writer(d)].got = out[Writer(d)].got
      /\ AllPushed(out'[Writer(d)]) = AllPushed(out[Writer(d)])
  BY <1>0, <1>1, Shown
<1>3. /\ ~WantsRead(d)' /\ Empty(d)' = Empty(d)
      /\ Free(Writer(d))' = Free(Writer(d))
  BY <1>1, <1>2 DEF Empty, Free, WantsRead
<1> QED BY <1>1, <1>2, <1>3 DEF Parked, Blocked, WakersLeft

LEMMA ShutdownPendingParks ==
    ASSUME TypeOK, NEW d \in Sides, DirectionData(d), ShutdownPending(d)
    PROVE  Parked(d)'
<1>0. out \in [Sides -> Outbound] /\ Writer(d) \in Sides /\ out[Writer(d)] \in Outbound
  BY SidesFacts DEF TypeOK, Outbound
<1>1. /\ Writer(d) \notin broken /\ transfer[d] = "ShuttingDown"
      /\ out[Writer(d)].vis - out[Writer(d)].got = Window
      /\ <<"write", Writer(d)>> \in reg' /\ UNCHANGED <<broken, out, buf, transfer>>
  BY DEF ShutdownPending, ShuttingDown
<1>2. Reach(out[Writer(d)]) = out[Writer(d)].vis
  BY <1>0, <1>1, Reaches DEF DirectionData
<1> QED BY <1>1, <1>2 DEF Parked, Blocked, WakersLeft

LEMMA WaitStep ==
    ASSUME TypeOK, PollOrder, PendingIsParked, \A d \in Sides : DirectionData(d), [Next]_vars
    PROVE  PendingIsParked'
<1> SUFFICES ASSUME NEW e \in Sides PROVE Waits(e)'
  BY DEF PendingIsParked
<1>0. /\ Waits(e) /\ Writer(e) \in Sides /\ Writer(e) # e
      /\ inb \in [Sides -> Inbound] /\ out \in [Sides -> Outbound] /\ buf \in [Sides -> Buffer]
      /\ outcome \in [Sides -> {"none", "Pending", "Ready"}]
      /\ transfer \in [Sides -> {"Running", "ShuttingDown", "Done"}]
  BY SidesFacts DEF PendingIsParked, TypeOK, Inbound, Outbound, Buffer
<1>1. CASE BeginPoll
  BY <1>1 DEF BeginPoll, Waits
<1>2. ASSUME NEW d \in Sides, Direction(d) PROVE Waits(e)'
  <2>0. /\ Writer(d) \in Sides /\ (e # d => Writer(e) # Writer(d))
    BY SidesFacts
  <2>1. CASE ReadAborted(d) \/ ReadError(d) \/ FlushError(d) \/ WriteError(d)
    BY <2>1 DEF ReadAborted, ReadError, FlushError, WriteError, End, Waits
  <2>2. CASE ReadPending(d) /\ e = d
    BY <2>2, ReadPendingParks DEF Waits
  <2>3. CASE (WritePending(d) \/ ShutdownPending(d)) /\ e = d
    BY <2>3, WritePendingParks, ShutdownPendingParks DEF Waits
  <2>4. CASE e = d /\ (ReadData(d) \/ ReadEof(d) \/ LastFlush(d) \/ \E i \in 1..BufSize : WriteData(d, i))
    <3>1. outcome[d] = "none" /\ outcome' = outcome
      BY <2>4 DEF ReadData, ReadEof, LastFlush, WriteData, ReadStep, Running
    <3> QED BY <2>4, <3>1 DEF Waits
  <2>5. CASE e = d /\ Shutdown(d)
    BY <1>0, <2>5 DEF Shutdown, Waits
  <2>6. ASSUME e # d, ~(ReadAborted(d) \/ ReadError(d) \/ FlushError(d) \/ WriteError(d))
        PROVE  Waits(e)'
    <3>1. inb'[e] = inb[e]
      BY <1>0, <1>2, <2>6 DEF Direction, ReadData, ReadEof, ReadPending, WriteData,
                              WritePending, LastFlush, Shutdown, ShutdownPending, ioVars
    <3>2. buf'[e] = buf[e]
      <4>1. CASE ReadData(d)
        BY <2>6, <4>1, ReadDataEffect
      <4>2. CASE \E i \in 1..BufSize : WriteData(d, i)
        BY <2>6, <4>2, WriteDataEffect
      <4>3. CASE ReadEof(d)
        BY <1>0, <2>6, <4>3 DEF ReadEof
      <4>4. CASE ReadPending(d)
        BY <1>0, <2>6, <4>4 DEF ReadPending
      <4>5. CASE WritePending(d) \/ LastFlush(d) \/ Shutdown(d) \/ ShutdownPending(d)
        BY <4>5 DEF WritePending, LastFlush, Shutdown, ShutdownPending
      <4> QED BY <1>2, <2>6, <4>1, <4>2, <4>3, <4>4, <4>5 DEF Direction
    <3>3. out'[Writer(e)] = out[Writer(e)]
      BY <1>0, <1>2, <2>0, <2>6 DEF Direction, ReadData, ReadEof, ReadPending, WriteData,
                              WritePending, LastFlush, Shutdown, ShutdownPending, ioVars
    <3>4. outcome'[e] = outcome[e]
      BY <1>0, <1>2, <2>6 DEF Direction, ReadData, ReadEof, ReadPending, WriteData,
                              WritePending, LastFlush, Shutdown, ShutdownPending, Pending
    <3>5. /\ broken' = broken /\ stop' = stop /\ wake' = wake /\ pc' = pc
          /\ wrapped' = wrapped
      BY <1>2, <2>6 DEF Direction, ReadData, ReadEof, ReadPending, WriteData,
                        WritePending, LastFlush, Shutdown, ShutdownPending, ioVars, connVars
    <3>6. reg \subseteq reg'
      BY <1>2, <2>6 DEF Direction, ReadData, ReadEof, ReadPending, WriteData,
                        WritePending, LastFlush, Shutdown, ShutdownPending, ConnPoll
    <3>7. transfer'[e] = transfer[e]
      BY <1>0, <1>2, <2>6 DEF Direction, ReadData, ReadEof, ReadPending, WriteData,
                        WritePending, LastFlush, Shutdown, ShutdownPending
    <3> QED BY <1>0, <3>1, <3>2, <3>3, <3>4, <3>5, <3>6, <3>7, WaitsFrame
  <2> QED BY <1>2, <2>1, <2>2, <2>3, <2>4, <2>5, <2>6 DEF Direction
<1>3. CASE SecondDirection
  BY <1>0, <1>3, WaitsFrame DEF SecondDirection, ioVars, connVars
<1>4. CASE Sleep
  <2>1. CASE pc' = "asleep"
    <3>1. ~wake /\ outcome[e] = "Pending" /\ pc = "b"
      BY <1>4, <2>1 DEF Sleep
    <3>2. Parked(e)
      BY <1>0, <3>1 DEF Waits
    <3>3. Parked(e)'
      BY <1>4, <3>2, ParkedFrame DEF Sleep, ioVars, connVars
    <3> QED BY <3>3 DEF Waits
  <2>2. CASE pc' # "asleep"
    <3>1. pc' = "woken"
      BY <1>4, <2>2 DEF Sleep
    <3> QED BY <3>1 DEF Waits
  <2> QED BY <2>1, <2>2
<1>4a. CASE Finish
  BY <1>4a DEF Finish, End, Waits
<1>5. ASSUME NEW s \in Sides, PeerSend(s) \/ PeerClose(s) PROVE Waits(e)'
  <2>1. ASSUME {<<"read", s>>} \cap reg = {}, reg' = reg, Parked(e) PROVE Parked(e)'
    <3>1. /\ UNCHANGED <<broken, out, buf, stop, wrapped, transfer>>
          /\ s # e => inb'[e] = inb[e]
      BY <1>0, <1>5 DEF PeerSend, PeerClose, connVars
    <3>2. CASE s = e
      BY <2>1, <3>1, <3>2 DEF Parked, Blocked, WakersLeft, WantsRead, Empty, Free, AllPushed, Reach
    <3>3. CASE s # e
      BY <2>1, <3>1, <3>3, ParkedFrame
    <3> QED BY <3>2, <3>3
  <2>2. Notify({<<"read", s>>}) /\ outcome' = outcome /\ pc # "over"
    BY <1>5 DEF PeerSend, PeerClose
  <2> QED BY <1>0, <2>1, <2>2, NotifyWaits
<1>6. ASSUME NEW s \in Sides, PeerRecv(s) PROVE Waits(e)'
  <2>1. ASSUME {<<"write", s>>} \cap reg = {}, reg' = reg, Parked(e) PROVE Parked(e)'
    <3>1. /\ UNCHANGED <<broken, inb, buf, stop, wrapped, transfer>>
          /\ s # Writer(e) => out'[Writer(e)] = out[Writer(e)]
      BY <1>0, <1>6 DEF PeerRecv, connVars
    <3>2. CASE s = Writer(e)
      <4>1. transfer[e] = "Running" /\ WantsRead(e) /\ ~buf[e].need_flush
        BY <2>1, <3>2 DEF Parked, WakersLeft
      <4>2. /\ out'[Writer(e)].vis = out[Writer(e)].vis /\ out'[Writer(e)].acc = out[Writer(e)].acc
            /\ out'[Writer(e)].got = out[Writer(e)].got + 1
            /\ out'[Writer(e)] \in Outbound /\ out[Writer(e)] \in Outbound
        BY <1>0, <1>6, <3>2 DEF PeerRecv, Outbound
      <4>3. /\ out[Writer(e)].vis = out[Writer(e)].acc
            /\ out[Writer(e)].vis <= out[Writer(e)].got + Window
        BY <4>1 DEF DirectionData
      <4>4. out'[Writer(e)].vis <= out'[Writer(e)].got + Window
        BY <4>2, <4>3, RelayAssumption DEF Outbound
      <4>5. Reach(out'[Writer(e)]) = out'[Writer(e)].vis
        BY <4>2, <4>3, <4>4, Reaches
      <4> QED BY <2>1, <3>1, <4>1, <4>2, <4>5 DEF Parked, Blocked, WakersLeft, WantsRead, Empty
    <3>3. CASE s # Writer(e)
      BY <2>1, <3>1, <3>3, ParkedFrame
    <3> QED BY <3>2, <3>3
  <2>2. Notify({<<"write", s>>}) /\ outcome' = outcome /\ pc # "over"
    BY <1>6 DEF PeerRecv
  <2> QED BY <1>0, <2>1, <2>2, NotifyWaits
<1>7. ASSUME NEW s \in Sides, Break(s) PROVE Waits(e)'
  <2>1. ASSUME {<<"read", s>>, <<"write", s>>} \cap reg = {}, reg' = reg, Parked(e)
        PROVE  Parked(e)'
    BY <1>7, <2>1 DEF Break, connVars, Parked, Blocked, WakersLeft, WantsRead, Empty, Free,
                      AllPushed, Reach
  <2>2. Notify({<<"read", s>>, <<"write", s>>}) /\ outcome' = outcome /\ pc # "over"
    BY <1>7 DEF Break
  <2> QED BY <1>0, <2>1, <2>2, NotifyWaits
<1>8. CASE Heartbeat
  <2>1. Parked(e) /\ reg' = reg => Parked(e)'
    BY <1>8, ParkedFrame DEF Heartbeat, ioVars
  <2>2. Notify({<<"heartbeat", wrapped>>}) /\ outcome' = outcome /\ pc # "over"
    BY <1>8 DEF Heartbeat
  <2> QED BY <1>0, <2>1, <2>2, NotifyWaits
<1>9. CASE StopConnection
  <2>1. ASSUME {<<"stop", wrapped>>} \cap reg = {}, reg' = reg, Parked(e) PROVE Parked(e)'
    BY <1>9, <2>1 DEF StopConnection, ioVars, Parked, Blocked, WakersLeft, WantsRead, Empty, Free,
                      AllPushed, Reach
  <2>2. Notify({<<"stop", wrapped>>}) /\ outcome' = outcome /\ pc # "over"
    BY <1>9 DEF StopConnection
  <2> QED BY <1>0, <2>1, <2>2, NotifyWaits
<1>10. CASE Cancel
  BY <1>10 DEF Cancel, End, Waits
<1>11. CASE UNCHANGED vars
  BY <1>0, <1>11, WaitsFrame DEF vars
<1> QED
  BY <1>1, <1>2, <1>3, <1>4, <1>4a, <1>5, <1>6, <1>7, <1>8, <1>9, <1>10, <1>11
  DEF Next, Task, Environment, Fault

-----------------------------------------------------------------------------
(* The theorems.                                                           *)

LEMMA Invariance == Spec => []IInv
<1>1. Init => IInv
  <2> SUFFICES ASSUME Init PROVE IInv
    OBVIOUS
  <2>1. TypeOK
    BY InitType
  <2>2. \A d \in Sides : DirectionData(d)
    BY SidesFacts, RelayAssumption DEF Init, DirectionData, EmptyBuffer
  <2>3. PollOrder /\ PendingIsParked
    BY DEF Init, PollOrder, PendingIsParked, Waits
  <2> QED BY <2>1, <2>2, <2>3, DirectionDataIs DEF IInv
<1>2. IInv /\ [Next]_vars => IInv'
  <2> SUFFICES ASSUME IInv, [Next]_vars PROVE IInv'
    OBVIOUS
  <2>1. \A d \in Sides : DirectionData(d)
    BY DirectionDataIs DEF IInv
  <2>2. \A d \in Sides : DirectionData(d)'
    BY <2>1, DataStep DEF IInv
  <2>3. CopiesAll' /\ FlushTracked' /\ DoneComplete'
    BY <2>2, DirectionDataIs DEF CopiesAll, FlushTracked, DoneComplete, DirectionData, Empty
  <2> QED BY <2>1, <2>3, TypeStep, OrderStep, WaitStep DEF IInv
<1> QED BY <1>1, <1>2, PTL DEF Spec

\* poll_copy neither loses, repeats nor makes up a unit: what was read from a
\* stream is what the other has accepted plus what lies between pos and cap.
THEOREM CopiesExactly == Spec => []CopiesAll
  BY Invariance, PTL DEF IInv

\* A relay that returns Ok has shut down a writer whose peer is shown all that
\* the other side had sent before its end of file (transfer_one_direction).
THEOREM EndIsComplete == Spec => []EndsComplete
<1>1. IInv => EndsComplete
  <2> SUFFICES ASSUME IInv, result = "ok" PROVE EndsComplete
    BY DEF EndsComplete
  <2>1. PICK d \in Sides : transfer[d] = "Done"
    BY DEF IInv, PollOrder
  <2>2. DirectionData(d) /\ Writer(d) \in Sides
    BY DirectionDataIs, SidesFacts DEF IInv
  <2>3. inb \in [Sides -> Inbound] /\ out \in [Sides -> Outbound] /\ buf \in [Sides -> Buffer]
    BY DEF IInv, TypeOK, Inbound, Outbound, Buffer
  <2>4. /\ inb[d].eof /\ inb[d].avail = 0 /\ Writer(d) \in fin
        /\ out[Writer(d)].vis = inb[d].sent
    BY <2>1, <2>2, <2>3 DEF DirectionData, Inbound, Outbound, Buffer
  <2> QED BY <2>4 DEF EndsComplete
<1> QED BY <1>1, Invariance, PTL

\* No wakeup is lost: when both polls were pending and the task sleeps, neither
\* direction can go on, no stream keeps to itself what its transport takes, and a
\* stop waits only for a writer (CopyBidirectional::poll, Connection::poll).
THEOREM SleepIsSafe == Spec => []NoLostWakeup
<1>1. IInv => NoLostWakeup
  <2> SUFFICES ASSUME IInv, pc = "asleep" PROVE NoLostWakeup
    BY DEF NoLostWakeup
  <2>1. \A d \in Sides : Parked(d)
    BY DEF IInv, PollOrder, PendingIsParked, Waits
  <2>2. \A d \in Sides : Blocked(d) /\ out[Writer(d)].vis = Reach(out[Writer(d)])
    BY <2>1 DEF Parked
  <2>3. \A d \in Sides : out[d].vis = Reach(out[d])
    BY <2>2, SidesFacts
  <2>4. stop => ~WantsRead(wrapped)
    <3>1. wrapped \in Sides /\ transfer[wrapped] \in {"Running", "ShuttingDown", "Done"}
      BY DEF IInv, TypeOK
    <3>2. transfer[wrapped] # "Running" => buf[wrapped].read_done
      BY <3>1 DEF IInv, DoneComplete
    <3> QED BY <2>1, <3>1, <3>2 DEF Parked, WakersLeft, WantsRead
  <2> QED BY <2>2, <2>3, <2>4 DEF NoLostWakeup
<1> QED BY <1>1, Invariance, PTL
=============================================================================
