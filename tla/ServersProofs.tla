----------------------------- MODULE ServersProofs -----------------------------
(***************************************************************************)
(* Proofs about the servers.  Part 1: forward_udp over the UdpSource of    *)
(* tproxy, on its own and among the servers: sessions, replies and wakeups,*)
(* for any number of clients and peers, any capacity and any time to live. *)
(* Part 2: one connection, association or UDP channel of the proxies: the  *)
(* target, the datagrams, the two streams and the handshake, for any       *)
(* scenario and any messages.                                              *)
(***************************************************************************)
EXTENDS Servers, LruTimeCacheProofs, FiniteSetTheorems

SessionTasks ==
    [client : Clients \cup {"none"}, state : {"none", "binding", "relaying", "ended"},
     queue : Seq(Peers), abort : BOOLEAN]
\* A reply whose packet goes from the peer that sent it to the client of the
\* session.
Replies == {[packet |-> [from |-> r, to |-> c], flow |-> <<c, r>>] : c \in Clients, r \in Peers}

Typed ==
    /\ now \in Nat
    /\ pc \in {"sleep", "recv", "back", "ended"}
    /\ wake \in BOOLEAN
    /\ reg \in SUBSET {"source", "back", "sink"}
    /\ input = <<>> \/ \E f \in Flows : input = <<[from |-> f[1], to |-> f[2]]>>
    /\ task \in [Ids -> SessionTasks]
    /\ \A id \in Ids : task[id].state # "none" => task[id].client \in Clients
    /\ back \in Seq(Replies)
    /\ sendBuf = <<>> \/ \E r \in Replies : sendBuf = <<r>>
    /\ got = <<>> \/ \E r \in Replies : got = <<[reply |-> r, socket |-> r.packet.from]>>
    /\ lastUse \in [Clients -> Int]
    /\ CacheOK(conn, Clients, Ids, now)
    /\ CacheOK(udp, Peers, Peers, now)

\* The table holds the live sessions and no others, each under its client and
\* with the time at which the client was last heard.
TableIsLive ==
    /\ \A e \in Entries(conn.list) :
         Live(e.val) /\ task[e.val].client = e.key /\ lastUse[e.key] = e.time
    /\ \A id \in Ids : Live(id) => \E e \in Entries(conn.list) : e.val = id

\* A socket is bound to the address it is kept under; a reserved one is kept
\* only while its packet waits to be sent.
SocketsBound ==
    /\ \A e \in Entries(udp.list) : e.val = e.key
    /\ \A e \in Entries(udp.list) : e.key \in Reserved =>
         sendBuf # <<>> /\ sendBuf[1].packet.from = e.key

\* What the poll has seen to when it is past a source that was pending, and
\* when it is over.
WakersLeft ==
    /\ pc = "back" => udp.waker /\ udp.sleep > now
    /\ Asleep => /\ conn.waker /\ conn.sleep > now
                 /\ udp.waker /\ udp.sleep > now
    /\ pc \in {"sleep", "back"} /\ ~wake => input = <<>> /\ "source" \in reg
    /\ Asleep => /\ sendBuf = <<>> => back = <<>> /\ "back" \in reg
                 /\ sendBuf # <<>> => "sink" \in reg

IInv == Typed /\ TableIsLive /\ SocketsBound /\ WakersLeft

-----------------------------------------------------------------------------
(* Records of sessions.                                                    *)

LEMMA EndedTask ==
    ASSUME NEW t \in SessionTasks
    PROVE  LET x == [t EXCEPT !.state = "ended", !.queue = <<>>] IN
           x \in SessionTasks /\ x.client = t.client /\ x.state = "ended" /\ x.abort = t.abort
<1> DEFINE none == <<>>
<1>1. none \in Seq(Peers)
  OBVIOUS
<1> HIDE DEF none
<1>2. LET x == [t EXCEPT !.state = "ended", !.queue = none] IN
      x \in SessionTasks /\ x.client = t.client /\ x.state = "ended" /\ x.abort = t.abort
  BY <1>1 DEF SessionTasks
<1> QED BY <1>2 DEF none

LEMMA UpTask ==
    ASSUME NEW t \in SessionTasks, NEW xs \in Seq(Peers)
    PROVE  LET x == [t EXCEPT !.queue = xs] IN
           x \in SessionTasks /\ x.client = t.client /\ x.state = t.state /\ x.abort = t.abort
  BY DEF SessionTasks

LEMMA NewTask ==
    ASSUME NEW c \in Clients
    PROVE  /\ NewSession(c) \in SessionTasks /\ NewSession(c).client = c
           /\ NewSession(c).state = "binding" /\ NewSession(c).abort = FALSE
<1> DEFINE none == <<>>
<1>1. none \in Seq(Peers)
  OBVIOUS
<1>2. NewSession(c) = [NoTask EXCEPT !.client = c, !.state = "binding"]
  BY DEF NewSession
<1>3. NoTask = [client |-> "none", state |-> "none", queue |-> none, abort |-> FALSE]
  BY DEF NoTask
<1> HIDE DEF none
<1>4. NewSession(c) = [client |-> c, state |-> "binding", queue |-> none, abort |-> FALSE]
  BY <1>2, <1>3
<1> QED BY <1>1, <1>4 DEF SessionTasks

LEMMA NoTaskIs ==
    NoTask \in SessionTasks /\ NoTask.state = "none" /\ NoTask.abort = FALSE
  BY DEF SessionTasks, NoTask

\* send leaves everything but the queue.
LEMMA SendTask ==
    ASSUME NEW t \in SessionTasks, NEW peer \in Peers
    PROVE  LET x == send(t, peer) IN
           x \in SessionTasks /\ x.client = t.client /\ x.state = t.state /\ x.abort = t.abort
<1>1. CASE send(t, peer) = t
  BY <1>1
<1>2. CASE send(t, peer) = [t EXCEPT !.queue = Append(@, peer)]
  <2> DEFINE xs == Append(t.queue, peer)
  <2>1. xs \in Seq(Peers)
    BY DEF SessionTasks
  <2>2. send(t, peer) = [t EXCEPT !.queue = xs]
    BY <1>2
  <2> HIDE DEF xs
  <2> QED BY <2>1, <2>2 DEF SessionTasks
<1> QED BY <1>1, <1>2 DEF send

\* DropRemoved aborts what the cache does not hold.
LEMMA Dropped ==
    ASSUME NEW t \in [Ids -> SessionTasks], NEW c
    PROVE  LET d == DropRemoved(t, c) IN
           /\ d \in [Ids -> SessionTasks]
           /\ \A id \in Ids : d[id].client = t[id].client /\ d[id].state = t[id].state
           /\ \A id \in Ids : id \in Values(c) => d[id] = t[id]
           /\ \A id \in Ids : id \notin Values(c) => d[id].abort = (t[id].state # "none")
<1> DEFINE x(id) == [t[id] EXCEPT !.abort = t[id].state # "none", !.queue = <<>>]
           d == DropRemoved(t, c)
<1>1. ASSUME NEW id \in Ids
      PROVE  /\ x(id) \in SessionTasks /\ x(id).client = t[id].client
             /\ x(id).state = t[id].state /\ x(id).abort = (t[id].state # "none")
  <2> DEFINE y == t[id]
             b == y.state # "none"
             none == <<>>
  <2>1. y \in SessionTasks /\ b \in BOOLEAN /\ none \in Seq(Peers)
    OBVIOUS
  <2> HIDE DEF y, b, none
  <2>2. LET z == [y EXCEPT !.abort = b, !.queue = none] IN
        z \in SessionTasks /\ z.client = y.client /\ z.state = y.state /\ z.abort = b
    BY <2>1 DEF SessionTasks
  <2> QED BY <2>2 DEF y, b, none
<1>2. d = [id \in Ids |-> IF id \in Values(c) THEN t[id] ELSE x(id)]
  BY DEF DropRemoved
<1> HIDE DEF x, d
<1> QED BY <1>1, <1>2 DEF d

-----------------------------------------------------------------------------
(* The two caches.                                                         *)

LEMMA LeastChosen ==
    ASSUME NEW S \in SUBSET Nat, S # {}
    PROVE  Min(S) \in S
<1>1. \E m \in S : \A n \in S : m <= n
  BY LeastNumber
<1> QED BY <1>1 DEF Min

\* The socket for a packet: bound to its source, and no other socket is new.
LEMMA SocketKept ==
    ASSUME CacheBounds, now \in Int, NEW from \in Peers, CacheOK(udp, Peers, Peers, now),
           \A e \in Entries(udp.list) : e.val = e.key
    PROVE  LET d == SocketFor(from) IN
           /\ CacheOK(d, Peers, Peers, now) /\ d.sleep = udp.sleep /\ d.waker = udp.waker
           /\ \A e \in Entries(d.list) : e.val = e.key
           /\ \A e \in Entries(d.list) :
                e.key = from \/ \E f \in Entries(udp.list) : f.key = e.key
           /\ Value(d, from) = from
<1> DEFINE used == Get(udp, from, now)
           d == SocketFor(from)
           new == NewEntry(from, from, now)
<1>1. /\ CacheOK(used, Peers, Peers, now) /\ used.sleep = udp.sleep /\ used.waker = udp.waker
      /\ \A f \in Entries(used.list) : \E e \in Fresh(udp, now) : f = Touched(e, from, now)
  BY CacheGet
<1>2. d = IF from \in Keys(used) THEN used ELSE Insert(used, from, from, now)
  BY DEF SocketFor
<1> HIDE DEF used
<1>3. \A f \in Entries(used.list) : f.val = f.key /\ \E e \in Entries(udp.list) : e.key = f.key
  BY <1>1 DEF Fresh, FreshOf, Touched, NewEntry
<1>4. CASE from \in Keys(used)
  <2>1. d = used
    BY <1>2, <1>4
  <2>2. PICK e \in Entries(used.list) : e.key = from /\ Value(used, from) = e.val
    BY <1>1, <1>4, CacheLookup
  <2> HIDE DEF d
  <2> QED BY <1>1, <1>3, <2>1, <2>2 DEF d
<1>5. CASE from \notin Keys(used)
  <2>1. d = Insert(used, from, from, now)
    BY <1>2, <1>5
  <2> HIDE DEF d
  <2>2. /\ CacheOK(d, Peers, Peers, now) /\ d.sleep = used.sleep /\ d.waker = used.waker
        /\ new \in Entries(d.list)
        /\ \A f \in Entries(d.list) : f = new \/ (f \in Fresh(used, now) /\ f.key # from)
    BY <1>1, <2>1, CacheInsert
  <2>3. \A f \in Entries(d.list) : f = new \/ f \in Entries(used.list)
    BY <2>2 DEF Fresh, FreshOf
  <2>4. new.key = from /\ new.val = from
    BY DEF NewEntry
  <2>5. Value(d, new.key) = new.val
    <3> HIDE DEF new
    <3> QED BY <2>2, CacheLookup
  <2> HIDE DEF new
  <2> QED BY <1>1, <1>3, <2>2, <2>3, <2>4, <2>5 DEF d
<1> QED BY <1>4, <1>5

LEMMA TableUsed ==
    ASSUME CacheBounds, now \in Int, CacheOK(conn, Clients, Ids, now), NEW c
    PROVE  LET used == Get(conn, c, now) IN
           /\ CacheOK(used, Clients, Ids, now) /\ used.sleep = conn.sleep /\ used.waker = conn.waker
           /\ \A e \in Fresh(conn, now) : Touched(e, c, now) \in Entries(used.list)
           /\ \A f \in Entries(used.list) : \E e \in Fresh(conn, now) : f = Touched(e, c, now)
  BY CacheGet

\* A packet from c: its session is in the table with the present time, and
\* receives the packet; the table holds live sessions only, as before.
LEMMA PacketHandled ==
    ASSUME CacheBounds, now \in Int, NEW c \in Clients, NEW peer \in Peers,
           CacheOK(conn, Clients, Ids, now), task \in [Ids -> SessionTasks],
           \A id \in Ids : task[id].state # "none" => task[id].client \in Clients,
           \A e \in Entries(conn.list) : Live(e.val) /\ task[e.val].client = e.key,
           \E id \in Ids : task[id].state = "none",
           Handle(c, peer)
    PROVE  /\ CacheOK(conn', Clients, Ids, now)
           /\ conn'.sleep = conn.sleep /\ conn'.waker = conn.waker
           /\ task' \in [Ids -> SessionTasks]
           /\ \A id \in Ids : task'[id].state # "none" => task'[id].client \in Clients
           /\ \A e \in Entries(conn'.list) :
                /\ Live(e.val)' /\ task'[e.val].client = e.key
                /\ IF e.key = c THEN e.time = now ELSE e \in Entries(conn.list)
           /\ \E e \in Entries(conn'.list) : e.key = c
           /\ \A id \in Ids : Live(id)' => \E e \in Entries(conn'.list) : e.val = id
           /\ \A e \in Fresh(conn, now) : e.key # c =>
                \/ e \in Entries(conn'.list)
                \/ Len(conn'.list) = Capacity /\ \A f \in Entries(conn'.list) : e.time <= f.time
           /\ (\A e \in Fresh(conn, now) : e.key # c) => task'[Value(conn', c)].state = "binding"
<1> DEFINE used == Get(conn, c, now)
           free == {id \in Ids : task[id].state = "none"}
           new == Min(free)
           next == IF c \in Keys(used) THEN used ELSE Insert(used, c, new, now)
           started == IF c \in Keys(used) THEN task
                      ELSE [task EXCEPT ![new] = NewSession(c)]
           sentTo == [started EXCEPT ![Value(next, c)] = send(@, peer)]
<1>0. conn' = next /\ task' = DropRemoved(sentTo, next)
  BY DEF Handle
<1>1. /\ CacheOK(used, Clients, Ids, now) /\ used.sleep = conn.sleep /\ used.waker = conn.waker
      /\ \A e \in Fresh(conn, now) : Touched(e, c, now) \in Entries(used.list)
      /\ \A f \in Entries(used.list) : \E e \in Fresh(conn, now) : f = Touched(e, c, now)
  BY TableUsed
<1> HIDE DEF used
<1>2. new \in Ids /\ task[new].state = "none"
  <2>1. free \in SUBSET Nat /\ free # {}
    BY ForwardAssumption DEF Ids
  <2>2. new \in free
    <3> HIDE DEF free
    <3> QED BY <2>1, LeastChosen
  <2> HIDE DEF new
  <2> QED BY <2>2
<1> HIDE DEF free, new
<1>3. \A e \in Fresh(conn, now) : e \in Entries(conn.list)
  BY DEF Fresh, FreshOf
<1>4. \A e \in Entries(conn.list) :
        /\ e.val \in Ids /\ e.key \in Clients /\ task[e.val].state # "none"
        /\ task[e.val].abort = FALSE
  <2>1. \A e \in Entries(conn.list) : e.val \in Ids /\ e.key \in Clients
    BY EntryTypes DEF CacheOK
  <2>2. \A id \in Ids : task[id].abort \in BOOLEAN
    BY DEF SessionTasks
  <2> QED BY <2>1, <2>2 DEF Live
\* The session w of c.
<1> DEFINE ServedBy(w) ==
        /\ CacheOK(next, Clients, Ids, now) /\ next.sleep = conn.sleep /\ next.waker = conn.waker
        /\ NewEntry(c, w, now) \in Entries(next.list)
        /\ \A f \in Entries(next.list) :
             f = NewEntry(c, w, now) \/ (f.key # c /\ f \in Entries(conn.list))
        /\ started \in [Ids -> SessionTasks]
        /\ \A id \in Ids : started[id].state # "none" => started[id].client \in Clients
        /\ started[w].client = c /\ started[w].state # "none" /\ started[w].abort = FALSE
        /\ \A f \in Entries(conn.list) : f.key # c => f.val # w /\ started[f.val] = task[f.val]
        /\ \A e \in Fresh(conn, now) : e.key # c =>
             \/ e \in Entries(next.list)
             \/ Len(next.list) = Capacity /\ \A f \in Entries(next.list) : e.time <= f.time
        /\ (\A e \in Fresh(conn, now) : e.key # c) => started[w].state = "binding"
<1>5. \E w \in Ids : ServedBy(w)
  <2>1. CASE c \in Keys(used)
    <3>1. next = used /\ started = task
      BY <2>1
    <3>2. PICK f0 \in Entries(used.list) : f0.key = c
      BY <1>1, <2>1, CacheLookup
    <3>3. PICK e0 \in Fresh(conn, now) : f0 = Touched(e0, c, now)
      BY <1>1
    <3>4. e0.key = c /\ f0 = NewEntry(c, e0.val, now) /\ e0 \in Entries(conn.list)
      BY <1>3, <3>2, <3>3 DEF Touched
    <3> HIDE DEF next, started
    <3>5. \A f \in Entries(used.list) : f.key # c => f \in Entries(conn.list)
      BY <1>1, <1>3 DEF Touched, NewEntry
    <3>6. \A f \in Entries(used.list) : f.key = c => f = f0
      BY <1>1, <3>2, EntryTypes DEF CacheOK
    <3>7. \A f \in Entries(conn.list) : f.key # c => f.val # e0.val
      BY <3>4
    <3>8. e0.val \in Ids /\ task[e0.val].client = c /\ task[e0.val].state # "none"
          /\ task[e0.val].abort = FALSE
      BY <1>4, <3>4
    <3>9. \A e \in Fresh(conn, now) : e.key # c => e \in Entries(next.list)
      BY <1>1, <3>1 DEF Touched
    <3>10. ~ \A e \in Fresh(conn, now) : e.key # c
      BY <3>4
    <3>11. ServedBy(e0.val)
      BY <1>1, <3>1, <3>2, <3>4, <3>5, <3>6, <3>7, <3>8, <3>9, <3>10
    <3> QED BY <3>8, <3>11
  <2>2. CASE c \notin Keys(used)
    <3> DEFINE entry == NewEntry(c, new, now)
    <3>1. next = Insert(used, c, new, now) /\ started = [task EXCEPT ![new] = NewSession(c)]
      BY <2>2
    <3> HIDE DEF next, started
    <3>2. /\ CacheOK(next, Clients, Ids, now) /\ next.sleep = used.sleep /\ next.waker = used.waker
          /\ entry \in Entries(next.list)
          /\ \A f \in Entries(next.list) : f = entry \/ (f \in Fresh(used, now) /\ f.key # c)
          /\ \A e \in Fresh(used, now) : e.key # c =>
               \/ e \in Entries(next.list)
               \/ Len(next.list) = Capacity /\ \A f \in Entries(next.list) : e.time <= f.time
      BY <1>1, <1>2, <3>1, CacheInsert
    <3>3. \A f \in Entries(used.list) : f.key # c => f \in Entries(conn.list)
      BY <1>1, <1>3 DEF Touched, NewEntry
    <3>4. \A f \in Fresh(used, now) : f.key # c => f \in Entries(conn.list)
      BY <3>3 DEF Fresh, FreshOf
    <3>5. \A e \in Fresh(conn, now) : e.key # c => e \in Fresh(used, now)
      BY <1>1 DEF Fresh, FreshOf, Touched
    <3>6. /\ NewSession(c) \in SessionTasks /\ NewSession(c).client = c
          /\ NewSession(c).state = "binding" /\ NewSession(c).abort = FALSE
      BY NewTask
    <3>7. /\ started \in [Ids -> SessionTasks] /\ started[new] = NewSession(c)
          /\ \A id \in Ids : id # new => started[id] = task[id]
      BY <1>2, <3>1, <3>6
    <3>8. \A f \in Entries(conn.list) : f.val # new /\ started[f.val] = task[f.val]
      BY <1>2, <1>4, <3>7
    <3>9. \A id \in Ids : started[id].state # "none" => started[id].client \in Clients
      BY <3>6, <3>7
    <3>10. new \in Ids
      BY <1>2
    <3> HIDE DEF entry
    <3>11. ServedBy(new)
      BY <1>1, <3>2, <3>4, <3>5, <3>6, <3>7, <3>8, <3>9, <3>10 DEF entry
    <3> QED BY <3>10, <3>11
  <2> QED BY <2>1, <2>2
<1> HIDE DEF next, started
<1>6. PICK w \in Ids : ServedBy(w)
  BY <1>5
<1> DEFINE entry == NewEntry(c, w, now)
<1>7. entry.key = c /\ entry.val = w /\ entry.time = now
  BY DEF NewEntry
<1> HIDE DEF entry
<1>8. Value(next, c) = w
  <2>1. entry \in Entries(next.list)
    BY <1>6 DEF entry
  <2> QED BY <1>6, <1>7, <2>1, CacheLookup
<1>9. /\ sentTo \in [Ids -> SessionTasks]
      /\ sentTo[w].client = c /\ sentTo[w].state = started[w].state /\ sentTo[w].abort = FALSE
      /\ \A id \in Ids : id # w => sentTo[id] = started[id]
  <2> DEFINE x == send(started[w], peer)
  <2>1. /\ x \in SessionTasks /\ x.client = started[w].client /\ x.state = started[w].state
        /\ x.abort = started[w].abort
    BY <1>6, SendTask
  <2>2. sentTo = [started EXCEPT ![w] = x]
    BY <1>8
  <2> HIDE DEF x, sentTo
  <2> QED BY <1>6, <2>1, <2>2
<1> HIDE DEF sentTo
<1>10. Values(next) = {e.val : e \in Entries(next.list)}
  BY <1>6, CacheLookup
<1>11. /\ task' \in [Ids -> SessionTasks]
       /\ \A id \in Ids : task'[id].client = sentTo[id].client /\ task'[id].state = sentTo[id].state
       /\ \A id \in Ids : id \in Values(next) => task'[id] = sentTo[id]
       /\ \A id \in Ids : id \notin Values(next) => task'[id].abort = (sentTo[id].state # "none")
  BY <1>0, <1>9, Dropped
<1>12. ASSUME NEW e \in Entries(next.list)
       PROVE  /\ Live(e.val)' /\ task'[e.val].client = e.key
              /\ IF e.key = c THEN e.time = now ELSE e \in Entries(conn.list)
  <2>1. e.val \in Values(next)
    BY <1>10
  <2>2. CASE e = entry
    BY <1>6, <1>7, <1>9, <1>11, <2>1, <2>2 DEF Live
  <2>3. CASE e.key # c /\ e \in Entries(conn.list)
    <3>1. e.val \in Ids /\ e.val # w /\ sentTo[e.val] = task[e.val]
      BY <1>4, <1>6, <1>9, <2>3
    <3>2. task'[e.val] = task[e.val]
      BY <1>11, <2>1, <3>1
    <3> QED BY <1>4, <2>3, <3>2 DEF Live
  <2> QED BY <1>6, <2>2, <2>3 DEF entry
<1>13. \A id \in Ids : Live(id)' => \E e \in Entries(next.list) : e.val = id
  BY <1>10, <1>11 DEF Live
<1>14. \A id \in Ids : task'[id].state # "none" => task'[id].client \in Clients
  BY <1>6, <1>9, <1>11
<1>15. (\A e \in Fresh(conn, now) : e.key # c) => task'[Value(next, c)].state = "binding"
  BY <1>6, <1>8, <1>9, <1>11
<1>16. \E e \in Entries(next.list) : e.key = c
  BY <1>6, <1>7 DEF entry
<1> QED BY <1>0, <1>6, <1>11, <1>12, <1>13, <1>14, <1>15, <1>16

-----------------------------------------------------------------------------
(* The invariant.                                                          *)

LEMMA InitHolds == ForwardInit => IInv
<1> SUFFICES ASSUME ForwardInit PROVE IInv
  OBVIOUS
<1> USE ForwardAssumption DEF ForwardInit
<1>1. /\ CacheOK(NewCache(0), Clients, Ids, 0) /\ CacheOK(NewCache(0), Peers, Peers, 0)
      /\ Entries(NewCache(0).list) = {}
  BY CacheNew
<1>2. /\ now = 0 /\ CacheOK(conn, Clients, Ids, now) /\ CacheOK(udp, Peers, Peers, now)
      /\ Entries(conn.list) = {} /\ Entries(udp.list) = {}
  BY <1>1
<1>3. task = [id \in Ids |-> NoTask] /\ lastUse = [c \in Clients |-> 0 - TTL]
  OBVIOUS
<1>4. task \in [Ids -> SessionTasks] /\ \A id \in Ids : task[id].state = "none"
  BY <1>3, NoTaskIs
<1>5. lastUse \in [Clients -> Int]
  BY <1>3 DEF CacheBounds
<1>6. back \in Seq(Replies)
  OBVIOUS
<1>7. Typed
  BY <1>2, <1>4, <1>5, <1>6 DEF Typed
<1>8. TableIsLive
  BY <1>2, <1>4 DEF TableIsLive, Live
<1>9. SocketsBound
  BY <1>2 DEF SocketsBound
<1>10. WakersLeft
  BY DEF WakersLeft, Asleep
<1> QED BY <1>7, <1>8, <1>9, <1>10 DEF IInv

\* Sessions go on without coming to life or dying.
LEMMA TableKept ==
    ASSUME Typed, TableIsLive, conn' = conn, lastUse' = lastUse,
           \A id \in Ids : Live(id)' = Live(id) /\ (Live(id) => task'[id].client = task[id].client)
    PROVE  TableIsLive'
<1>1. \A e \in Entries(conn.list) : e.val \in Ids
  BY EntryTypes DEF Typed, CacheOK
<1> QED BY <1>1 DEF TableIsLive

\* ... as in a step of a session.
LEMMA SessionChanges ==
    ASSUME Typed, NEW id \in Ids, NEW x \in SessionTasks, task' = [task EXCEPT ![id] = x],
           \/ /\ x.client = task[id].client /\ x.abort = task[id].abort
              /\ task[id].state # "none" /\ x.state # "none"
           \/ x.state = "none" /\ task[id].abort
    PROVE  /\ task' \in [Ids -> SessionTasks]
           /\ \A i \in Ids : task'[i].state # "none" => task'[i].client \in Clients
           /\ \A i \in Ids : Live(i)' = Live(i) /\ (Live(i) => task'[i].client = task[i].client)
<1>1. task \in [Ids -> SessionTasks]
  BY DEF Typed
<1>2. task' \in [Ids -> SessionTasks] /\ task'[id] = x /\ \A i \in Ids : i # id => task'[i] = task[i]
  BY <1>1
<1>3. \A i \in Ids : task[i].state # "none" => task[i].client \in Clients
  BY DEF Typed
<1>4. \A i \in Ids : task'[i].state # "none" => task'[i].client \in Clients
  BY <1>2, <1>3
<1>5. \A i \in Ids : i # id => Live(i)' = Live(i) /\ task'[i].client = task[i].client
  BY <1>2 DEF Live
<1>6. Live(id)' = Live(id) /\ (Live(id) => task'[id].client = task[id].client)
  BY <1>2 DEF Live
<1> QED BY <1>2, <1>4, <1>5, <1>6

LEMMA SessionTaskStep ==
    ASSUME Typed, NEW id \in Ids, NEW x \in SessionTasks, task' = [task EXCEPT ![id] = x],
           \/ /\ x.client = task[id].client /\ x.abort = task[id].abort
              /\ task[id].state # "none" /\ x.state # "none"
           \/ x.state = "none" /\ task[id].abort,
           TableIsLive, SocketsBound, WakersLeft,
           UNCHANGED <<now, input, pc, wake, reg, conn, back, sendBuf, udp, got, lastUse>>
    PROVE  IInv'
<1>1. /\ task' \in [Ids -> SessionTasks]
      /\ \A i \in Ids : task'[i].state # "none" => task'[i].client \in Clients
      /\ \A i \in Ids : Live(i)' = Live(i) /\ (Live(i) => task'[i].client = task[i].client)
  BY SessionChanges
<1>2. Typed'
  BY <1>1 DEF Typed
<1>3. TableIsLive'
  BY <1>1, TableKept
<1>4. SocketsBound'
  BY DEF SocketsBound
<1>5. WakersLeft'
  BY DEF WakersLeft, Asleep
<1> QED BY <1>2, <1>3, <1>4, <1>5 DEF IInv

LEMMA SessionSteps ==
    ASSUME IInv, NEW id \in Ids, Session(id)
    PROVE  IInv'
<1> USE DEF IInv
<1>0. task[id] \in SessionTasks
  BY DEF Typed
<1>1. /\ Ended(id) \in SessionTasks /\ Ended(id).client = task[id].client
      /\ Ended(id).state = "ended" /\ Ended(id).abort = task[id].abort
  BY <1>0, EndedTask DEF Ended
<1>2. CASE Bind(id)
  <2> DEFINE ok == [task[id] EXCEPT !.state = "relaying"]
  <2>1. /\ ok \in SessionTasks /\ ok.client = task[id].client
        /\ ok.state = "relaying" /\ ok.abort = task[id].abort
    BY <1>0 DEF SessionTasks
  <2>2. task[id].state # "none"
    BY <1>2 DEF Bind
  <2>3. task' = [task EXCEPT ![id] = ok] \/ task' = [task EXCEPT ![id] = Ended(id)]
    BY <1>2 DEF Bind
  <2>4. UNCHANGED <<now, input, pc, wake, reg, conn, back, sendBuf, udp, got, lastUse>>
    BY <1>2 DEF Bind
  <2> HIDE DEF ok
  <2>5. CASE task' = [task EXCEPT ![id] = ok]
    BY <2>1, <2>2, <2>4, <2>5, SessionTaskStep
  <2>6. CASE task' = [task EXCEPT ![id] = Ended(id)]
    BY <1>1, <2>2, <2>4, <2>6, SessionTaskStep
  <2> QED BY <2>3, <2>5, <2>6
<1>3. CASE Up(id)
  <2> DEFINE xs == Tail(task[id].queue)
             x == [task[id] EXCEPT !.queue = xs]
  <2>1. task[id].queue \in Seq(Peers) /\ task[id].queue # <<>>
    BY <1>0, <1>3 DEF SessionTasks, Up
  <2>2. xs \in Seq(Peers)
    BY <2>1
  <2>3. task' = [task EXCEPT ![id] = x]
    BY <1>3 DEF Up
  <2>4. task[id].state # "none"
    BY <1>3 DEF Up
  <2>5. UNCHANGED <<now, input, pc, wake, reg, conn, back, sendBuf, udp, got, lastUse>>
    BY <1>3 DEF Up
  <2> HIDE DEF xs
  <2>6. /\ x \in SessionTasks /\ x.client = task[id].client /\ x.state = task[id].state
        /\ x.abort = task[id].abort
    BY <1>0, <2>2, UpTask
  <2> HIDE DEF x
  <2> QED BY <2>3, <2>4, <2>5, <2>6, SessionTaskStep
<1>4. CASE Down(id) /\ pc = "ended"
  <2>1. /\ task' = [task EXCEPT ![id] = Ended(id)] /\ task[id].state # "none"
        /\ UNCHANGED <<now, input, pc, wake, reg, conn, back, sendBuf, udp, got, lastUse>>
    BY <1>4 DEF Down
  <2> QED BY <1>1, <2>1, SessionTaskStep
<1>5. CASE Down(id) /\ pc # "ended"
  <2>1. PICK peer \in Peers :
          back' = Append(back, [packet |-> BackPacket(id, peer), flow |-> <<task[id].client, peer>>])
    BY <1>5 DEF Down
  <2>2. /\ task[id].state = "relaying" /\ wake' = (wake \/ "back" \in reg) /\ reg' = reg \ {"back"}
        /\ UNCHANGED <<now, input, pc, task, conn, sendBuf, udp, got, lastUse>>
    BY <1>5 DEF Down
  <2> DEFINE r == [packet |-> BackPacket(id, peer), flow |-> <<task[id].client, peer>>]
  <2>3. peer \in Peers /\ task[id].client \in Clients
    BY <1>0, <2>1, <2>2 DEF SessionTasks, Typed
  <2>4. r \in Replies
    BY <2>3 DEF Replies, BackPacket
  <2>5. back \in Seq(Replies)
    BY DEF Typed
  <2>6. back' \in Seq(Replies)
    <3> HIDE DEF r
    <3>1. back' = Append(back, r)
      BY <2>1 DEF r
    <3> QED BY <2>4, <2>5, <3>1
  <2>7. wake' \in BOOLEAN /\ reg' \in SUBSET {"source", "back", "sink"}
    BY <2>2 DEF Typed
  <2> HIDE DEF r
  <2>8. Typed'
    BY <2>2, <2>6, <2>7 DEF Typed
  <2>9. TableIsLive'
    BY <2>2 DEF TableIsLive, Live
  <2>10. SocketsBound'
    BY <2>2 DEF SocketsBound
  <2>11. WakersLeft'
    BY <2>2 DEF WakersLeft, Asleep, Typed
  <2> QED BY <2>8, <2>9, <2>10, <2>11
<1>6. CASE SessionError(id)
  <2>1. /\ task' = [task EXCEPT ![id] = Ended(id)] /\ task[id].state # "none"
        /\ UNCHANGED <<now, input, pc, wake, reg, conn, back, sendBuf, udp, got, lastUse>>
    BY <1>6 DEF SessionError
  <2> QED BY <1>1, <2>1, SessionTaskStep
<1>7. CASE Aborted(id)
  <2>1. /\ task' = [task EXCEPT ![id] = NoTask] /\ task[id].abort
        /\ UNCHANGED <<now, input, pc, wake, reg, conn, back, sendBuf, udp, got, lastUse>>
    BY <1>7 DEF Aborted
  <2> QED BY <2>1, NoTaskIs, SessionTaskStep
<1> QED BY <1>2, <1>3, <1>4, <1>5, <1>6, <1>7 DEF Session

\* The table loses entries, and what leaves it is aborted.
LEMMA TableShrinks ==
    ASSUME Typed, TableIsLive, CacheOK(conn', Clients, Ids, now),
           Entries(conn'.list) \subseteq Entries(conn.list),
           task' = DropRemoved(task, conn'), lastUse' = lastUse
    PROVE  /\ task' \in [Ids -> SessionTasks]
           /\ \A id \in Ids : task'[id].state # "none" => task'[id].client \in Clients
           /\ TableIsLive'
<1>1. task \in [Ids -> SessionTasks]
  BY DEF Typed
<1>2. Values(conn') = {e.val : e \in Entries(conn'.list)}
  <2> DEFINE c == conn'
  <2>1. CacheOK(c, Clients, Ids, now)
    OBVIOUS
  <2> HIDE DEF c
  <2>2. Values(c) = {e.val : e \in Entries(c.list)}
    BY <2>1, CacheLookup
  <2> QED BY <2>2 DEF c
<1>3. /\ task' \in [Ids -> SessionTasks]
      /\ \A id \in Ids : task'[id].client = task[id].client /\ task'[id].state = task[id].state
      /\ \A id \in Ids : id \in Values(conn') => task'[id] = task[id]
      /\ \A id \in Ids : id \notin Values(conn') => task'[id].abort = (task[id].state # "none")
  BY <1>1, Dropped
<1>4. \A id \in Ids : task'[id].state # "none" => task'[id].client \in Clients
  BY <1>3 DEF Typed
<1>5. \A e \in Entries(conn.list) : e.val \in Ids
  BY EntryTypes DEF Typed, CacheOK
<1>6. ASSUME NEW e \in Entries(conn'.list)
      PROVE  Live(e.val)' /\ task'[e.val].client = e.key /\ lastUse'[e.key] = e.time
  <2>1. e \in Entries(conn.list) /\ e.val \in Ids /\ e.val \in Values(conn')
    BY <1>2, <1>5
  <2>2. task'[e.val] = task[e.val]
    BY <1>3, <2>1
  <2> QED BY <2>1, <2>2 DEF TableIsLive, Live
<1>7. \A id \in Ids : Live(id)' => \E e \in Entries(conn'.list) : e.val = id
  BY <1>2, <1>3 DEF Live
<1> QED BY <1>3, <1>4, <1>6, <1>7 DEF TableIsLive

LEMMA EndPollKeeps ==
    ASSUME Typed, TableIsLive, EndPoll
    PROVE  /\ CacheOK(conn', Clients, Ids, now) /\ conn'.waker /\ conn'.sleep > now
           /\ task' \in [Ids -> SessionTasks]
           /\ \A id \in Ids : task'[id].state # "none" => task'[id].client \in Clients
           /\ TableIsLive'
<1>1. CacheBounds /\ now \in Int /\ CacheOK(conn, Clients, Ids, now)
  BY ForwardAssumption DEF Typed
<1>2. /\ conn' = poll_clear_expired(conn, now) /\ task' = DropRemoved(task, conn')
      /\ lastUse' = lastUse
  BY DEF EndPoll
<1>3. /\ CacheOK(conn', Clients, Ids, now) /\ conn'.waker /\ conn'.sleep > now
      /\ Entries(conn'.list) \subseteq Entries(conn.list)
  BY <1>1, <1>2, CacheClear
<1> QED BY <1>2, <1>3, TableShrinks

LEMMA EndKeeps ==
    ASSUME IInv, End
    PROVE  IInv'
<1> USE DEF IInv
<1>1. CacheBounds /\ now \in Int /\ CacheOK(conn, Clients, Ids, now) /\ CacheOK(udp, Peers, Peers, now)
  BY ForwardAssumption DEF Typed
<1>2. /\ conn' = [conn EXCEPT !.list = <<>>, !.waker = FALSE]
      /\ udp' = [udp EXCEPT !.list = <<>>, !.waker = FALSE]
  BY DEF End
<1>3. CacheOK(conn', Clients, Ids, now) /\ Entries(conn'.list) = {}
  BY <1>1, <1>2, CacheEmptied
<1>4. CacheOK(udp', Peers, Peers, now) /\ Entries(udp'.list) = {}
  BY <1>1, <1>2, CacheEmptied
<1>5. /\ task' = DropRemoved(task, conn') /\ pc' = "ended"
      /\ back' = <<>> /\ sendBuf' = <<>> /\ reg' = {} /\ wake' = FALSE
      /\ now' = now /\ input' = input /\ got' = got /\ lastUse' = lastUse
  BY DEF End
<1>6. /\ task' \in [Ids -> SessionTasks]
      /\ \A id \in Ids : task'[id].state # "none" => task'[id].client \in Clients
      /\ TableIsLive'
  BY <1>3, <1>5, TableShrinks
<1>7. back' \in Seq(Replies) /\ reg' \in SUBSET {"source", "back", "sink"}
  BY <1>5
<1>8. Typed'
  BY <1>3, <1>4, <1>5, <1>6, <1>7 DEF Typed
<1>9. SocketsBound'
  BY <1>4 DEF SocketsBound
<1>10. WakersLeft'
  BY <1>5 DEF WakersLeft, Asleep
<1> QED BY <1>6, <1>8, <1>9, <1>10

LEMMA BeginPollKeeps ==
    ASSUME IInv, BeginPoll
    PROVE  IInv'
<1> USE DEF IInv, BeginPoll
<1>1. Typed'
  BY DEF Typed
<1>2. TableIsLive'
  BY DEF TableIsLive, Live
<1>3. SocketsBound'
  BY DEF SocketsBound
<1>4. WakersLeft'
  BY DEF WakersLeft, Asleep
<1> QED BY <1>1, <1>2, <1>3, <1>4

LEMMA RecvPacketKeeps ==
    ASSUME IInv, RecvPacket
    PROVE  IInv'
<1> USE DEF IInv
<1>1. CacheBounds /\ now \in Int /\ CacheOK(conn, Clients, Ids, now) /\ CacheOK(udp, Peers, Peers, now)
  BY ForwardAssumption DEF Typed
<1>2. PICK f \in Flows : input = <<[from |-> f[1], to |-> f[2]]>>
  BY DEF RecvPacket, Typed
<1> DEFINE c == f[1]
           peer == f[2]
<1>3. input[1].from = c /\ input[1].to = peer
  BY <1>2
<1>4. c \in Clients /\ peer \in Peers
  BY ForwardAssumption DEF Peers
<1>5. /\ Handle(c, peer) /\ \E id \in Ids : task[id].state = "none"
      /\ udp' = poll_clear_expired(udp, now) /\ lastUse' = [lastUse EXCEPT ![c] = now]
      /\ input' = <<>> /\ pc = "recv"
      /\ UNCHANGED <<now, pc, wake, reg, back, sendBuf, got>>
  BY <1>3 DEF RecvPacket
<1> HIDE DEF c, peer
<1>6. /\ CacheOK(conn', Clients, Ids, now)
      /\ task' \in [Ids -> SessionTasks]
      /\ \A id \in Ids : task'[id].state # "none" => task'[id].client \in Clients
      /\ \A e \in Entries(conn'.list) :
           /\ Live(e.val)' /\ task'[e.val].client = e.key
           /\ IF e.key = c THEN e.time = now ELSE e \in Entries(conn.list)
      /\ \A id \in Ids : Live(id)' => \E e \in Entries(conn'.list) : e.val = id
  <2>1. /\ task \in [Ids -> SessionTasks]
        /\ \A id \in Ids : task[id].state # "none" => task[id].client \in Clients
        /\ \A e \in Entries(conn.list) : Live(e.val) /\ task[e.val].client = e.key
    BY DEF Typed, TableIsLive
  <2> QED BY <1>1, <1>4, <1>5, <2>1, PacketHandled
<1>7. /\ CacheOK(udp', Peers, Peers, now) /\ Entries(udp'.list) \subseteq Entries(udp.list)
  BY <1>1, <1>5, CacheClear
<1>8. lastUse' \in [Clients -> Int] /\ lastUse'[c] = now /\ \A d \in Clients : d # c => lastUse'[d] = lastUse[d]
  BY <1>1, <1>4, <1>5 DEF Typed
<1>9. Typed'
  BY <1>5, <1>6, <1>7, <1>8 DEF Typed
<1>10. TableIsLive'
  <2>1. \A e \in Entries(conn.list) : e.key \in Clients /\ lastUse[e.key] = e.time
    BY EntryTypes DEF Typed, CacheOK, TableIsLive
  <2>2. \A e \in Entries(conn'.list) : lastUse'[e.key] = e.time
    BY <1>6, <1>8, <2>1
  <2> QED BY <1>6, <2>2 DEF TableIsLive
<1>11. SocketsBound'
  BY <1>5, <1>7 DEF SocketsBound
<1>12. WakersLeft'
  BY <1>5 DEF WakersLeft, Asleep
<1> QED BY <1>9, <1>10, <1>11, <1>12

LEMMA RecvPendingKeeps ==
    ASSUME IInv, RecvPending
    PROVE  IInv'
<1> USE DEF IInv
<1>1. CacheBounds /\ now \in Int /\ CacheOK(udp, Peers, Peers, now)
  BY ForwardAssumption DEF Typed
<1>2. /\ udp' = poll_clear_expired(udp, now) /\ reg' = reg \cup {"source"} /\ pc' = "back"
      /\ input = <<>>
      /\ UNCHANGED <<now, input, wake, conn, task, back, sendBuf, got, lastUse>>
  BY DEF RecvPending
<1>3. /\ CacheOK(udp', Peers, Peers, now) /\ udp'.waker /\ udp'.sleep > now
      /\ Entries(udp'.list) \subseteq Entries(udp.list)
  BY <1>1, <1>2, CacheClear
<1>4. Typed'
  BY <1>2, <1>3 DEF Typed
<1>5. TableIsLive'
  BY <1>2 DEF TableIsLive, Live
<1>6. SocketsBound'
  BY <1>2, <1>3 DEF SocketsBound
<1>7. WakersLeft'
  BY <1>2, <1>3 DEF WakersLeft, Asleep
<1> QED BY <1>4, <1>5, <1>6, <1>7

LEMMA TakeBackKeeps ==
    ASSUME IInv, TakeBack
    PROVE  IInv'
<1> USE DEF IInv
<1>1. /\ pc = "back" /\ sendBuf = <<>> /\ back # <<>>
      /\ sendBuf' = <<Head(back)>> /\ back' = Tail(back)
      /\ UNCHANGED <<now, input, pc, wake, reg, conn, task, udp, got, lastUse>>
  BY DEF TakeBack
<1>2. back \in Seq(Replies)
  BY DEF Typed
<1>3. Head(back) \in Replies /\ back' \in Seq(Replies)
  BY <1>1, <1>2
<1>4. \E r \in Replies : sendBuf' = <<r>>
  BY <1>1, <1>3
<1>5. Typed'
  BY <1>1, <1>3, <1>4 DEF Typed
<1>6. TableIsLive'
  BY <1>1 DEF TableIsLive, Live
<1>7. SocketsBound'
  BY <1>1 DEF SocketsBound
<1>8. WakersLeft'
  BY <1>1 DEF WakersLeft, Asleep
<1> QED BY <1>5, <1>6, <1>7, <1>8

LEMMA BackEmptyKeeps ==
    ASSUME IInv, BackEmpty
    PROVE  IInv'
<1> USE DEF IInv
<1>1. /\ pc = "back" /\ sendBuf = <<>> /\ back = <<>> /\ reg' = reg \cup {"back"} /\ pc' = "sleep"
      /\ UNCHANGED <<now, input, wake, back, sendBuf, got, lastUse, udp>>
  BY DEF BackEmpty, EndPoll
<1>2. /\ CacheOK(conn', Clients, Ids, now) /\ conn'.waker /\ conn'.sleep > now
      /\ task' \in [Ids -> SessionTasks]
      /\ \A id \in Ids : task'[id].state # "none" => task'[id].client \in Clients
      /\ TableIsLive'
  BY EndPollKeeps DEF BackEmpty
<1>3. Typed'
  BY <1>1, <1>2 DEF Typed
<1>4. SocketsBound'
  BY <1>1 DEF SocketsBound
<1>5. WakersLeft'
  BY <1>1, <1>2 DEF WakersLeft, Asleep
<1> QED BY <1>2, <1>3, <1>4, <1>5

\* The packet that is being sent back.
LEMMA InBuffer ==
    ASSUME IInv, sendBuf # <<>>
    PROVE  /\ CacheBounds /\ now \in Int /\ CacheOK(udp, Peers, Peers, now)
           /\ \A e \in Entries(udp.list) : e.val = e.key
           /\ \A e \in Entries(udp.list) : e.key \in Reserved => sendBuf[1].packet.from = e.key
           /\ sendBuf[1] \in Replies /\ sendBuf[1].packet.from \in Peers
<1>1. PICK r \in Replies : sendBuf = <<r>>
  BY DEF IInv, Typed
<1>2. \A x \in Replies : x.packet.from \in Peers
  BY DEF Replies
<1>3. sendBuf[1] \in Replies
  BY <1>1
<1> QED BY <1>2, <1>3, ForwardAssumption DEF IInv, Typed, SocketsBound

LEMMA BindAnyFailsKeeps ==
    ASSUME IInv, BindAnyFails
    PROVE  IInv'
<1> USE DEF IInv
<1> DEFINE from == sendBuf[1].packet.from
<1>1. /\ pc = "back" /\ sendBuf # <<>>
      /\ from \notin Keys(RemoveExpired(udp, now)) /\ udp' = Get(udp, from, now)
      /\ sendBuf' = <<>>
      /\ UNCHANGED <<now, input, pc, wake, reg, conn, task, back, got, lastUse>>
  BY DEF BindAnyFails
<1>2. /\ CacheBounds /\ now \in Int /\ CacheOK(udp, Peers, Peers, now)
      /\ \A e \in Entries(udp.list) : e.val = e.key
      /\ \A e \in Entries(udp.list) : e.key \in Reserved => from = e.key
  BY <1>1, InBuffer
<1> HIDE DEF from
<1>3. /\ CacheOK(udp', Peers, Peers, now) /\ udp'.sleep = udp.sleep /\ udp'.waker = udp.waker
      /\ \A f \in Entries(udp'.list) : \E e \in Fresh(udp, now) : f = Touched(e, from, now)
  BY <1>1, <1>2, CacheGet
<1>4. \A e \in Fresh(udp, now) : e.key # from
  <2> DEFINE d == RemoveExpired(udp, now)
  <2>1. CacheOK(d, Peers, Peers, now) /\ Entries(d.list) = Fresh(udp, now)
    BY <1>2, CacheRemoveExpired
  <2> HIDE DEF d
  <2>2. Keys(d) = {e.key : e \in Entries(d.list)}
    BY <2>1, CacheLookup
  <2> QED BY <1>1, <2>1, <2>2 DEF d
<1>5. \A f \in Entries(udp'.list) : f \in Entries(udp.list) /\ f.key # from
  BY <1>3, <1>4 DEF Touched, Fresh, FreshOf
<1>6. Typed'
  BY <1>1, <1>3 DEF Typed
<1>7. TableIsLive'
  BY <1>1 DEF TableIsLive, Live
<1>8. SocketsBound'
  BY <1>2, <1>5 DEF SocketsBound
<1>9. WakersLeft'
  BY <1>1, <1>3 DEF WakersLeft, Asleep
<1> QED BY <1>6, <1>7, <1>8, <1>9

LEMMA SendBackKeeps ==
    ASSUME IInv, SendBack
    PROVE  IInv'
<1> USE DEF IInv
<1> DEFINE from == sendBuf[1].packet.from
           d == SocketFor(from)
<1>1. /\ pc = "back" /\ sendBuf # <<>>
      /\ got' = <<[reply |-> sendBuf[1], socket |-> Value(d, from)]>>
      /\ udp' = IF from \in Reserved THEN RemoveKey(d, from) ELSE d
      /\ sendBuf' = <<>>
      /\ UNCHANGED <<now, input, pc, wake, reg, conn, task, back, lastUse>>
  BY DEF SendBack, AfterSend
<1>2. /\ CacheBounds /\ now \in Int /\ CacheOK(udp, Peers, Peers, now)
      /\ \A e \in Entries(udp.list) : e.val = e.key
      /\ \A e \in Entries(udp.list) : e.key \in Reserved => from = e.key
      /\ sendBuf[1] \in Replies /\ from \in Peers
  BY <1>1, InBuffer
<1>3. /\ CacheOK(d, Peers, Peers, now) /\ d.sleep = udp.sleep /\ d.waker = udp.waker
      /\ \A e \in Entries(d.list) : e.val = e.key
      /\ \A e \in Entries(d.list) :
           e.key = from \/ \E f \in Entries(udp.list) : f.key = e.key
      /\ Value(d, from) = from
  <2> HIDE DEF from
  <2> QED BY <1>2, SocketKept
<1> HIDE DEF d
<1>4. /\ CacheOK(udp', Peers, Peers, now) /\ udp'.sleep = udp.sleep /\ udp'.waker = udp.waker
      /\ \A e \in Entries(udp'.list) : e \in Entries(d.list) /\ (from \in Reserved => e.key # from)
  <2> HIDE DEF from
  <2>1. CASE from \in Reserved
    <3>1. udp' = RemoveKey(d, from)
      BY <1>1, <2>1
    <3>2. /\ CacheOK(udp', Peers, Peers, now)
          /\ Entries(udp'.list) = {e \in Entries(d.list) : e.key # from}
          /\ udp'.sleep = d.sleep /\ udp'.waker = d.waker
      BY <1>2, <1>3, <3>1, CacheRemoveKey
    <3> QED BY <1>3, <3>2
  <2>2. CASE from \notin Reserved
    BY <1>1, <1>3, <2>2
  <2> QED BY <2>1, <2>2
<1>5. \E r \in Replies : got' = <<[reply |-> r, socket |-> r.packet.from]>>
  BY <1>1, <1>2, <1>3
<1> HIDE DEF from
<1>6. Typed'
  BY <1>1, <1>4, <1>5 DEF Typed
<1>7. TableIsLive'
  BY <1>1 DEF TableIsLive, Live
<1>8. SocketsBound'
  BY <1>2, <1>3, <1>4 DEF SocketsBound
<1>9. WakersLeft'
  BY <1>1, <1>4 DEF WakersLeft, Asleep
<1> QED BY <1>6, <1>7, <1>8, <1>9

LEMMA SendPendingKeeps ==
    ASSUME IInv, SendPending
    PROVE  IInv'
<1> USE DEF IInv
<1> DEFINE from == sendBuf[1].packet.from
<1>1. /\ pc = "back" /\ sendBuf # <<>> /\ udp' = SocketFor(from) /\ reg' = reg \cup {"sink"}
      /\ pc' = "sleep"
      /\ UNCHANGED <<now, input, wake, back, sendBuf, got, lastUse>>
  BY DEF SendPending, EndPoll
<1>2. /\ CacheBounds /\ now \in Int /\ CacheOK(udp, Peers, Peers, now)
      /\ \A e \in Entries(udp.list) : e.val = e.key
      /\ \A e \in Entries(udp.list) : e.key \in Reserved => from = e.key
      /\ from \in Peers
  BY <1>1, InBuffer
<1>3. /\ CacheOK(udp', Peers, Peers, now) /\ udp'.sleep = udp.sleep /\ udp'.waker = udp.waker
      /\ \A e \in Entries(udp'.list) : e.val = e.key
      /\ \A e \in Entries(udp'.list) :
           e.key = from \/ \E f \in Entries(udp.list) : f.key = e.key
  <2> HIDE DEF from
  <2> QED BY <1>1, <1>2, SocketKept
<1>4. /\ CacheOK(conn', Clients, Ids, now) /\ conn'.waker /\ conn'.sleep > now
      /\ task' \in [Ids -> SessionTasks]
      /\ \A id \in Ids : task'[id].state # "none" => task'[id].client \in Clients
      /\ TableIsLive'
  BY EndPollKeeps DEF SendPending
<1>5. Typed'
  BY <1>1, <1>3, <1>4 DEF Typed
<1>6. SocketsBound'
  <2>1. \A e \in Entries(udp'.list) : e.key \in Reserved => e.key = from
    BY <1>2, <1>3
  <2> QED BY <1>1, <1>3, <2>1 DEF SocketsBound
<1>7. WakersLeft'
  BY <1>1, <1>3, <1>4 DEF WakersLeft, Asleep
<1> QED BY <1>4, <1>5, <1>6, <1>7

LEMMA ArriveKeeps ==
    ASSUME IInv, Arrive
    PROVE  IInv'
<1> USE DEF IInv
<1>1. /\ \E f \in Flows : input' = <<[from |-> f[1], to |-> f[2]]>>
      /\ wake' = (wake \/ "source" \in reg) /\ reg' = reg \ {"source"}
      /\ UNCHANGED <<now, pc, conn, task, back, sendBuf, udp, got, lastUse>>
  BY DEF Arrive
<1>2. wake' \in BOOLEAN
  BY <1>1 DEF Typed
<1>3. Typed'
  BY <1>1, <1>2 DEF Typed
<1>4. TableIsLive'
  BY <1>1 DEF TableIsLive, Live
<1>5. SocketsBound'
  BY <1>1 DEF SocketsBound
<1>6. WakersLeft'
  BY <1>1 DEF WakersLeft, Asleep
<1> QED BY <1>3, <1>4, <1>5, <1>6

LEMMA DrainSinkKeeps ==
    ASSUME IInv, DrainSink
    PROVE  IInv'
<1> USE DEF IInv, DrainSink
<1>1. Typed'
  BY DEF Typed
<1>2. TableIsLive'
  BY DEF TableIsLive, Live
<1>3. SocketsBound'
  BY DEF SocketsBound
<1>4. WakersLeft'
  BY DEF WakersLeft, Asleep
<1> QED BY <1>1, <1>2, <1>3, <1>4

LEMMA TickKeeps ==
    ASSUME IInv, Tick
    PROVE  IInv'
<1> USE DEF IInv
<1>1. /\ now' = now + 1 /\ pc = "sleep" /\ ~wake
      /\ wake' = (Rings(conn, now') \/ Rings(udp, now'))
      /\ UNCHANGED <<input, pc, reg, conn, task, back, sendBuf, udp, got, lastUse>>
  BY DEF Tick
<1>2. CacheBounds /\ now \in Nat /\ CacheOK(conn, Clients, Ids, now) /\ CacheOK(udp, Peers, Peers, now)
  BY ForwardAssumption DEF Typed
<1>3. now' \in Nat /\ now \in Int /\ now' \in Int /\ now <= now'
  BY <1>1, <1>2
<1>4. CacheOK(conn, Clients, Ids, now') /\ CacheOK(udp, Peers, Peers, now')
  BY <1>2, <1>3, CacheLater
<1>5. conn.sleep \in Int /\ udp.sleep \in Int /\ conn.waker \in BOOLEAN /\ udp.waker \in BOOLEAN
  BY <1>2 DEF CacheOK, Cache
<1>6. wake' \in BOOLEAN
  BY <1>1 DEF Rings
<1>7. Typed'
  BY <1>1, <1>3, <1>4, <1>6 DEF Typed
<1>8. TableIsLive'
  BY <1>1 DEF TableIsLive, Live
<1>9. SocketsBound'
  BY <1>1 DEF SocketsBound
<1>10. WakersLeft'
  <2>1. Asleep
    BY <1>1 DEF Asleep
  <2>2. ~wake' => conn.sleep > now' /\ udp.sleep > now'
    BY <1>1, <1>3, <1>5, <2>1 DEF Rings, WakersLeft
  <2> QED BY <1>1, <2>1, <2>2 DEF WakersLeft, Asleep
<1> QED BY <1>7, <1>8, <1>9, <1>10

LEMMA StepHolds == IInv /\ [ForwardNext]_forwardVars => IInv'
<1> SUFFICES ASSUME IInv, [ForwardNext]_forwardVars PROVE IInv'
  OBVIOUS
<1>1. CASE Poll
  BY <1>1, BeginPollKeeps, RecvPacketKeeps, RecvPendingKeeps, TakeBackKeeps, BackEmptyKeeps,
     BindAnyFailsKeeps, SendBackKeeps, SendPendingKeeps DEF Poll
<1>2. CASE SourceError \/ Cancel
  BY <1>2, EndKeeps DEF SourceError, Cancel
<1>3. CASE \E id \in Ids : Session(id)
  BY <1>3, SessionSteps
<1>4. CASE Arrive \/ DrainSink \/ Tick
  BY <1>4, ArriveKeeps, DrainSinkKeeps, TickKeeps
<1>5. CASE UNCHANGED forwardVars
  <2> USE <1>5 DEF IInv, forwardVars
  <2>1. Typed'
    BY DEF Typed
  <2>2. TableIsLive'
    BY DEF TableIsLive, Live
  <2>3. SocketsBound'
    BY DEF SocketsBound
  <2>4. WakersLeft'
    BY DEF WakersLeft, Asleep
  <2> QED BY <2>1, <2>2, <2>3, <2>4
<1> QED BY <1>1, <1>2, <1>3, <1>4, <1>5 DEF ForwardNext

LEMMA Invariant == ForwardSpec => []IInv
<1> QED BY InitHolds, StepHolds, PTL DEF ForwardSpec

-----------------------------------------------------------------------------
(* What forward_udp promises.                                              *)

\* The servers run forward_udp as it is: among them, it takes its own steps and
\* no others (serve_udp of tproxy).
THEOREM ServersForward == ServersSpec => ForwardSpec
<1>1. ServersInit => ForwardInit
  BY DEF ServersInit
<1>2. [ServersNext]_<<vars, forwardVars>> => [ForwardNext]_forwardVars
  BY DEF ServersNext, ConnectionStep, ForwardStep
<1> QED BY <1>1, <1>2, PTL DEF ServersSpec, ForwardSpec

\* Every session that ForwardUdp has started and not aborted is in its LruCache
\* under its own client, and the sleeping task keeps neither a session nor a
\* socket that was idle for two times to live.
THEOREM SessionsKept == ForwardSpec => []SessionsAccounted
<1>1. IInv => SessionsAccounted
  <2> SUFFICES ASSUME IInv PROVE SessionsAccounted
    OBVIOUS
  <2> USE DEF IInv
  <2>1. /\ CacheBounds /\ now \in Int
        /\ CacheOK(conn, Clients, Ids, now) /\ CacheOK(udp, Peers, Peers, now)
    BY ForwardAssumption DEF Typed
  <2>2. ASSUME NEW id \in Ids, Live(id)
        PROVE  task[id].client \in Keys(conn) /\ Value(conn, task[id].client) = id
    <3>1. PICK e \in Entries(conn.list) : e.val = id
      BY <2>2 DEF TableIsLive
    <3>2. task[id].client = e.key
      BY <3>1 DEF TableIsLive
    <3>3. Keys(conn) = {f.key : f \in Entries(conn.list)} /\ Value(conn, e.key) = e.val
      BY <2>1, CacheLookup
    <3> QED BY <3>1, <3>2, <3>3
  <2>3. ASSUME NEW K, NEW V, NEW c, CacheOK(c, K, V, now), c.sleep > now, NEW i \in DOMAIN c.list
        PROVE  now - c.list[i].time < 2 * TTL
    <3>1. /\ i \in 1..Len(c.list) /\ c.list[i].time \in Int /\ c.list[i] \in Entries(c.list)
      BY <2>3, EntryTypes DEF CacheOK, Entries
    <3>2. c.list[i].time > c.sleep - 2 * TTL /\ c.sleep \in Int /\ TTL \in Int
      BY <2>1, <2>3, <3>1 DEF CacheOK, Cache, CacheBounds
    <3> QED BY <2>1, <2>3, <3>1, <3>2
  <2>4. ASSUME Asleep
        PROVE  \A c \in {conn, udp} : \A i \in DOMAIN c.list : now - c.list[i].time < 2 * TTL
    <3>1. conn.sleep > now /\ udp.sleep > now
      BY <2>4 DEF WakersLeft
    <3>2. \A i \in DOMAIN conn.list : now - conn.list[i].time < 2 * TTL
      BY <2>1, <2>3, <3>1
    <3>3. \A i \in DOMAIN udp.list : now - udp.list[i].time < 2 * TTL
      BY <2>1, <2>3, <3>1
    <3> QED BY <3>2, <3>3
  <2> QED BY <2>2, <2>4 DEF SessionsAccounted
<1> QED BY <1>1, Invariant, PTL

\* What UdpSource sends comes from the peer that sent it and goes to the client
\* of the session it came to, from a socket bound to the peer's address, and no
\* reserved address stays bound between two packets.
THEOREM RepliesReturn == ForwardSpec => []RepliesGoHome
<1>1. IInv => RepliesGoHome
  <2> SUFFICES ASSUME IInv PROVE RepliesGoHome
    OBVIOUS
  <2>1. ASSUME got # <<>>
        PROVE  LET r == got[1].reply IN
               <<r.packet.to, r.packet.from>> = r.flow /\ got[1].socket = r.flow[2]
    <3>1. PICK r \in Replies : got = <<[reply |-> r, socket |-> r.packet.from]>>
      BY <2>1 DEF IInv, Typed
    <3>2. got[1].reply = r /\ got[1].socket = r.packet.from
      BY <3>1
    <3>3. <<r.packet.to, r.packet.from>> = r.flow /\ r.packet.from = r.flow[2]
      BY DEF Replies
    <3> QED BY <3>2, <3>3
  <2>2. ASSUME sendBuf = <<>> PROVE Keys(udp) \cap Reserved = {}
    <3>1. CacheOK(udp, Peers, Peers, now)
      BY DEF IInv, Typed
    <3>2. Keys(udp) = {e.key : e \in Entries(udp.list)}
      BY <3>1, CacheLookup
    <3> QED BY <2>2, <3>2 DEF IInv, SocketsBound
  <2> QED BY <2>1, <2>2 DEF RepliesGoHome
<1> QED BY <1>1, Invariant, PTL

\* The future of forward_udp returns Pending only when the source is empty, no
\* packet waits that could be sent back, and the timers of both caches know
\* the task.
THEOREM SleepIsSafe == ForwardSpec => []NoLostWakeup
<1>1. IInv => NoLostWakeup
  BY DEF IInv, WakersLeft, NoLostWakeup, Asleep
<1> QED BY <1>1, Invariant, PTL

-----------------------------------------------------------------------------
(* Sessions follow the use their clients make of them.                     *)

\* A full table whose entries are all at least as recent as c was.
LEMMA FullOfRecent ==
    ASSUME IInv, IInv', NEW c \in Clients, now' = now,
           Len(conn'.list) = Capacity,
           \A f \in Entries(conn'.list) : f.key # c /\ lastUse[c] <= f.time
    PROVE  Cardinality({d \in Clients \ {c} : lastUse'[d] >= lastUse[c]}) >= Capacity
<1> DEFINE list == conn'.list
           T == {d \in Clients \ {c} : lastUse'[d] >= lastUse[c]}
           key == [i \in 1..Len(list) |-> list[i].key]
<1>1. Capacity \in Nat /\ Capacity > 0 /\ IsFiniteSet(Clients) /\ lastUse \in [Clients -> Int]
  BY ForwardAssumption DEF CacheBounds, IInv, Typed
<1>2. ListOK(list, Clients, Ids, now')
  BY DEF IInv, Typed, CacheOK
<1>3. /\ \A i \in 1..Len(list) : list[i].key \in Clients /\ list[i] \in Entries(list)
      /\ \A i, j \in 1..Len(list) : list[i].key = list[j].key => i = j
  <2> HIDE DEF list
  <2>1. \A i \in 1..Len(list) : list[i].key \in Clients /\ list[i] \in Entries(list)
    BY <1>2, EntryTypes DEF Entries
  <2> QED BY <1>2, <2>1 DEF ListOK
<1>4. ASSUME NEW f \in Entries(list) PROVE lastUse'[f.key] = f.time
  BY DEF IInv, TableIsLive
<1>5. ASSUME NEW i \in 1..Len(list) PROVE list[i].key \in T
  <2>1. /\ list[i] \in Entries(list) /\ list[i].key \in Clients /\ list[i].key # c
        /\ lastUse[c] <= list[i].time /\ lastUse'[list[i].key] = list[i].time
    BY <1>3, <1>4
  <2>2. list[i].time \in Int /\ lastUse[c] \in Int
    BY <1>1, <1>2, EntryTypes
  <2> QED BY <2>1, <2>2
<1>6. IsFiniteSet(T)
  BY <1>1, FS_Subset
<1> HIDE DEF T
<1>7. key \in Injection(1..Len(list), T)
  BY <1>3, <1>5 DEF Injection, IsInjective
<1>8. Cardinality(1..Len(list)) <= Cardinality(T)
  <2> HIDE DEF key, list
  <2> QED BY <1>6, <1>7, FS_Injection
<1>9. Cardinality(1..Len(list)) = Capacity
  <2>1. Len(list) = Capacity /\ 1 \in Int /\ Capacity \in Int /\ Capacity - 1 + 1 = Capacity /\ ~(1 > Capacity)
    BY <1>1
  <2> HIDE DEF list
  <2> QED BY <2>1, FS_Interval
<1>10. Cardinality(T) \in Nat
  BY <1>6, FS_CardinalityType
<1> HIDE DEF list
<1> QED BY <1>1, <1>8, <1>9, <1>10 DEF T

\* A client loses its session in ForwardUdp only after a time to live in which
\* it sent nothing, or to as many others as the LruCache holds that were heard
\* later; and a client that was silent for so long gets a new one.
THEOREM UseKeepsSessions == ForwardSpec => SessionsFollowUse
<1>1. ASSUME IInv, IInv', [ForwardNext]_forwardVars PROVE [SessionStep]_forwardVars
  <2> SUFFICES ASSUME ForwardNext PROVE SessionStep
    BY <1>1
  <2> USE <1>1
  <2>1. /\ CacheBounds /\ now \in Int /\ TTL \in Int /\ lastUse \in [Clients -> Int]
        /\ CacheOK(conn, Clients, Ids, now)
        /\ \A e \in Entries(conn.list) :
             /\ e.key \in Clients /\ e.val \in Ids /\ lastUse[e.key] = e.time /\ e.time \in Int
             /\ Live(e.val) /\ task[e.val].client = e.key
    BY ForwardAssumption, EntryTypes DEF CacheBounds, CacheOK, IInv, Typed, TableIsLive
  <2>2. Keys(conn) = {e.key : e \in Entries(conn.list)}
    BY <2>1, CacheLookup
  <2>3. Keys(conn') = {e.key : e \in Entries(conn'.list)}
    <3> DEFINE c == conn'
               t == now'
    <3>1. CacheOK(c, Clients, Ids, t)
      BY DEF IInv, Typed
    <3> HIDE DEF c, t
    <3>2. Keys(c) = {e.key : e \in Entries(c.list)}
      BY <3>1, CacheLookup
    <3> QED BY <3>2 DEF c
  \* An entry that is not fresh is that of a client idle for a time to live.
  <2>4. \A e \in Entries(conn.list) : e \notin Fresh(conn, now) => Idle(e.key) >= TTL
    BY <2>1 DEF Fresh, FreshOf, Idle
  <2>5. CASE RecvPacket
    <3>1. PICK f \in Flows : input = <<[from |-> f[1], to |-> f[2]]>>
      BY <2>5 DEF RecvPacket, IInv, Typed
    <3> DEFINE c == f[1]
               peer == f[2]
    <3>2. input[1].from = c /\ input[1].to = peer
      BY <3>1
    <3>3. c \in Clients /\ peer \in Peers
      BY ForwardAssumption DEF Peers
    <3>4. Handle(c, peer) /\ (\E id \in Ids : task[id].state = "none") /\ now' = now
      BY <2>5, <3>2 DEF RecvPacket
    <3> HIDE DEF c, peer
    <3>5. /\ task \in [Ids -> SessionTasks]
          /\ \A id \in Ids : task[id].state # "none" => task[id].client \in Clients
      BY DEF IInv, Typed
    <3>6. /\ \A e \in Fresh(conn, now) : e.key # c =>
               \/ e \in Entries(conn'.list)
               \/ Len(conn'.list) = Capacity /\ \A g \in Entries(conn'.list) : e.time <= g.time
          /\ (\A e \in Fresh(conn, now) : e.key # c) => task'[Value(conn', c)].state = "binding"
          /\ \E e \in Entries(conn'.list) : e.key = c
      BY <2>1, <3>3, <3>4, <3>5, PacketHandled
    <3>7. c \in Keys(conn')
      BY <2>3, <3>6
    <3>8. ASSUME NEW d \in Keys(conn) \ Keys(conn'), ~(Idle(d) >= TTL)
          PROVE  Cardinality({x \in Clients \ {d} : lastUse'[x] >= lastUse[d]}) >= Capacity
      <4>1. PICK e \in Entries(conn.list) : e.key = d
        BY <2>2
      <4>2. e \in Fresh(conn, now)
        BY <2>4, <3>8, <4>1
      <4>3. e.key # c /\ e \notin Entries(conn'.list)
        BY <2>3, <3>7, <4>1
      <4>4. Len(conn'.list) = Capacity /\ \A g \in Entries(conn'.list) : e.time <= g.time
        BY <3>6, <4>2, <4>3
      <4>5. d \in Clients /\ lastUse[d] = e.time /\ \A g \in Entries(conn'.list) : g.key # d
        BY <2>1, <2>3, <4>1
      <4> QED BY <3>4, <4>4, <4>5, FullOfRecent
    <3>9. Idle(c) >= TTL => task'[Value(conn', c)].state = "binding"
      <4>1. ASSUME Idle(c) >= TTL, NEW e \in Fresh(conn, now), e.key = c PROVE FALSE
        <5>1. e \in Entries(conn.list) /\ e.time + TTL > now
          BY DEF Fresh, FreshOf
        <5>2. lastUse[c] = e.time /\ e.time \in Int
          BY <2>1, <4>1, <5>1
        <5> QED BY <2>1, <4>1, <5>1, <5>2 DEF Idle
      <4> QED BY <3>6, <4>1
    <3> QED BY <3>2, <3>8, <3>9 DEF SessionStep
  <2>6. CASE BackEmpty \/ SendPending
    <3>1. conn' = poll_clear_expired(conn, now) /\ ~RecvPacket
      BY <2>6 DEF BackEmpty, SendPending, EndPoll, RecvPacket
    <3>2. Fresh(conn, now) \subseteq Entries(conn'.list)
      BY <2>1, <3>1, CacheClear
    <3>3. \A d \in Keys(conn) \ Keys(conn') : Idle(d) >= TTL
      BY <2>2, <2>3, <2>4, <3>2
    <3> QED BY <3>1, <3>3 DEF SessionStep
  <2>7. CASE SourceError \/ Cancel
    <3>1. pc' = "ended" /\ ~RecvPacket
      BY <2>7 DEF SourceError, Cancel, End, RecvPacket
    <3> QED BY <3>1 DEF SessionStep
  <2>8. CASE conn' = conn /\ ~RecvPacket
    BY <2>8 DEF SessionStep
  <2>9. CASE BeginPoll \/ RecvPending \/ TakeBack \/ BindAnyFails \/ SendBack
    BY <2>8, <2>9 DEF BeginPoll, RecvPending, TakeBack, BindAnyFails, SendBack, RecvPacket
  <2>10. CASE Arrive \/ DrainSink \/ Tick
    <3>1. conn' = conn /\ ~(input # <<>> /\ input' = <<>>)
      BY <2>10 DEF Arrive, DrainSink, Tick
    <3>2. ~RecvPacket
      BY <3>1 DEF RecvPacket
    <3> QED BY <2>8, <3>1, <3>2
  <2>11. CASE \E id \in Ids : Session(id)
    <3>1. conn' = conn /\ input' = input
      BY <2>11 DEF Session, Bind, Up, Down, SessionError, Aborted
    <3>2. ~RecvPacket
      BY <3>1 DEF RecvPacket
    <3> QED BY <2>8, <3>1, <3>2
  <2> QED BY <2>5, <2>6, <2>7, <2>9, <2>10, <2>11 DEF ForwardNext, Poll
<1> QED BY <1>1, Invariant, PTL DEF ForwardSpec, SessionsFollowUse

-----------------------------------------------------------------------------
(* The UDP side of the proxies.                                            *)

Destinations == UdpTargets \cup {ForwardTarget}
Sources == {to_normalized(a) : a \in Destinations}
OnePacket == {NoPacket} \cup {<<x>> : x \in [addr : Destinations, id : Nat]}
OneRequest == {NoPacket} \cup {<<pack_udp(a, i)>> : a \in Destinations, i \in Nat}
Fragment(a) == [rsv |-> 0, frag |-> 1, addr |-> ra2sa(a), id |-> 0]
OneStray == {NoPacket, <<pack_udp(ForwardTarget, 0)>>, <<Fragment(ForwardTarget)>>}
OneReply == {NoPacket} \cup {<<pack_udp(a, i)>> : a \in Sources, i \in Nat}
Channels ==
    [kind : {"socks5", "forward"}, state : {"off", "open", "ended"},
     client : UdpClients \cup {NoOne}, send_buf : OneReply]
Asking == [client : UdpClients, addr : Destinations]
Sockets == [open : BOOLEAN, packet : OnePacket, send_buf : OneRequest, stray : OneStray]
Answers == [client : UdpClients, id : Nat, from : Sources \cup {Own}, alone : BOOLEAN]

\* What may come to the server, leave it, come back and be handed on, given
\* what was asked.
Packet(id) == [addr |-> asked[id].addr, id |-> id]
Arriving ==
    IF chan.kind = "socks5"
      THEN {[from |-> c, data |-> pack_udp(asked[id].addr, id)] : c \in UdpClients, id \in DOMAIN asked}
           \cup {[from |-> c, data |-> Fragment(a)] : c \in UdpClients, a \in Destinations}
      ELSE {[from |-> c, data |-> [id |-> id]] :
              c \in UdpClients, id \in {i \in DOMAIN asked : asked[i].addr = ForwardTarget}}
Returning ==
    {[from |-> to_normalized(asked[id].addr), id |-> id] :
       id \in {i \in DOMAIN asked : to_normalized(asked[i].addr).type = "sock"}}
    \cup {[from |-> to_normalized(ForwardTarget), id |-> 0]}

UdpTyped ==
    /\ chan \in Channels
    /\ asked \in Seq(Asking)
    /\ socket \in [UdpClients -> Sockets]
    /\ uplink \in Seq(Arriving)
    /\ forwarded \in Seq({Packet(id) : id \in DOMAIN asked})
    /\ replies \in Seq(Returning)
    /\ answers \in Seq(Answers)

\* A send_buf holds the packet that is being sent, packed.
BuffersCurrent ==
    /\ \A c \in UdpClients : LET s == socket[c] IN
         /\ s.packet # NoPacket =>
              chan.kind = "socks5" /\ \E id \in DOMAIN asked : s.packet = <<Packet(id)>>
         /\ s.packet # NoPacket /\ s.send_buf # NoPacket =>
              s.send_buf = <<pack_udp(s.packet[1].addr, s.packet[1].id)>>
         /\ s.packet = NoPacket /\ s.send_buf # NoPacket => ~s.open
    /\ chan.send_buf # NoPacket =>
         chan.kind = "socks5" /\ replies # <<>> /\ chan.send_buf = <<pack_udp(replies[1].from, replies[1].id)>>

\* A packet is answered once: its answer is on its way or has arrived.
AnsweredOnce ==
    /\ \A i, j \in DOMAIN replies : replies[i].id = replies[j].id /\ replies[i].id # 0 => i = j
    /\ \A i, j \in DOMAIN answers : answers[i].id = answers[j].id /\ answers[i].id # 0 => i = j
    /\ \A i \in DOMAIN replies, j \in DOMAIN answers : replies[i].id = answers[j].id => replies[i].id = 0
    /\ \A i \in DOMAIN answers : answers[i].id # 0 =>
         /\ answers[i].id \in DOMAIN asked
         /\ chan.kind = "socks5" /\ answers[i].alone =>
              answers[i].from = to_normalized(asked[answers[i].id].addr)
    /\ chan.kind = "socks5" =>
         \A i \in DOMAIN answers : answers[i].client = chan.client /\ chan.client # NoOne

\* A packet is with its socket, on its way to the server, or has left it.
SentOnce ==
    /\ \A i, j \in DOMAIN uplink : uplink[i].data.id = uplink[j].data.id /\ uplink[i].data.id # 0 => i = j
    /\ \A i, j \in DOMAIN forwarded : forwarded[i].id = forwarded[j].id => i = j
    /\ \A i \in DOMAIN uplink, j \in DOMAIN forwarded : uplink[i].data.id # forwarded[j].id
    /\ \A c \in UdpClients : socket[c].packet # NoPacket =>
         /\ \A i \in DOMAIN uplink : uplink[i].data.id # socket[c].packet[1].id
         /\ \A i \in DOMAIN forwarded : forwarded[i].id # socket[c].packet[1].id
         /\ \A d \in UdpClients : d # c /\ socket[d].packet # NoPacket =>
              socket[d].packet[1].id # socket[c].packet[1].id

UdpInv == UdpTyped /\ BuffersCurrent /\ AnsweredOnce /\ SentOnce

\* The header of SOCKS5 carries an address of either form, and gives it back.
LEMMA HeaderCarries ==
    ASSUME NEW a, NEW i,
           (\E ip, p : a = Sock(ip, p)) \/ (\E d, p : a = Domain(d, p))
    PROVE  /\ sa2ra(ra2sa(a)) = a
           /\ parse_udp(pack_udp(a, i)) = a /\ pack_udp(a, i).id = i
           /\ a # NoAddr
<1>1. CASE \E ip, p : a = Sock(ip, p)
  <2>1. PICK ip, p : a = Sock(ip, p)
    BY <1>1
  <2>2. a.type = "sock" /\ a.ip = ip /\ a.port = p
    BY <2>1 DEF Sock
  <2>3. ra2sa(a) = [atyp |-> "ip", host |-> ip, port |-> p]
    BY <2>2 DEF ra2sa
  <2>4. sa2ra(ra2sa(a)) = a
    BY <2>1, <2>3 DEF sa2ra
  <2>5. a # NoAddr
    BY <2>2 DEF NoAddr
  <2> QED BY <2>4, <2>5 DEF parse_udp, pack_udp
<1>2. CASE \E d, p : a = Domain(d, p)
  <2>1. PICK d, p : a = Domain(d, p)
    BY <1>2
  <2>2. a.type = "domain" /\ a.domain = d /\ a.port = p
    BY <2>1 DEF Domain
  <2>3. ra2sa(a) = [atyp |-> "domain", host |-> d, port |-> p]
    BY <2>2 DEF ra2sa
  <2>4. sa2ra(ra2sa(a)) = a
    BY <2>1, <2>3 DEF sa2ra
  <2>5. a # NoAddr
    BY <2>2 DEF NoAddr
  <2> QED BY <2>4, <2>5 DEF parse_udp, pack_udp
<1> QED BY <1>1, <1>2

LEMMA AddressForms ==
    ASSUME NEW a \in Addresses
    PROVE  /\ (\E ip, p : a = Sock(ip, p)) \/ (\E d, p : a = Domain(d, p))
           /\ LET n == to_normalized(a) IN
                (\E ip, p : n = Sock(ip, p)) \/ (\E d, p : n = Domain(d, p))
<1>1. CASE a \in [type : {"sock"}, ip : V4 \cup V6, port : PortTexts]
  <2>1. a = Sock(a.ip, a.port) /\ a.type = "sock"
    BY <1>1 DEF Sock
  <2> QED BY <2>1 DEF to_normalized
<1>2. CASE a \in [type : {"domain"}, domain : Seq(STRING), port : PortTexts]
  <2>1. a = Domain(a.domain, a.port) /\ a.type = "domain"
    BY <1>2 DEF Domain
  <2>2. to_normalized(a) = host_to_address(a.domain, a.port)
    BY <2>1 DEF to_normalized
  <2> QED BY <2>1, <2>2 DEF host_to_address
<1> QED BY <1>1, <1>2 DEF Addresses

\* A reply from a socket address arrives as from that address.
LEMMA SourceCarried ==
    ASSUME NEW a \in Sources, NEW i
    PROVE  LET n == to_socket_addr(parse_udp(pack_udp(a, i))) IN
           /\ n \in Sources \cup {NoAddr}
           /\ a.type = "sock" => n = a
           /\ pack_udp(a, i).id = i
<1>1. (\E ip, p : a = Sock(ip, p)) \/ (\E d, p : a = Domain(d, p))
  BY AddressForms, UdpAssumption DEF Sources, Destinations
<1>2. parse_udp(pack_udp(a, i)) = a /\ pack_udp(a, i).id = i
  BY <1>1, HeaderCarries
<1>3. to_socket_addr(parse_udp(pack_udp(a, i))) = to_socket_addr(a)
  BY <1>2
<1>4. PICK b \in Destinations : a = to_normalized(b)
  BY DEF Sources
<1>5. a.type = "sock" => to_socket_addr(a) = a
  BY DEF to_socket_addr, to_normalized
<1>6. a.type # "sock" => to_socket_addr(a) = NoAddr
  <2> SUFFICES ASSUME a.type # "sock" PROVE to_normalized(a).type # "sock"
    BY DEF to_socket_addr
  <2>1. PICK d, p : a = Domain(d, p)
    BY <1>1 DEF Sock
  <2>2. b.type # "sock" /\ b \in Addresses
    BY <1>4, UdpAssumption DEF to_normalized, Destinations
  <2>3. b.type = "domain"
    BY <2>2 DEF Addresses
  <2>4. a = host_to_address(b.domain, b.port)
    BY <1>4, <2>3 DEF to_normalized
  <2>5. a = Domain(b.domain, b.port) /\ ~ParsesAsIp(strip_brackets(b.domain))
    BY <2>1, <2>4 DEF host_to_address, Sock, Domain
  <2>6. a.type = "domain" /\ a.domain = b.domain /\ a.port = b.port
    BY <2>5 DEF Domain
  <2>7. to_normalized(a) = a
    BY <2>5, <2>6 DEF to_normalized, host_to_address
  <2> QED BY <2>7
<1> QED BY <1>2, <1>3, <1>5, <1>6

\* What the client's socket takes for the source of a reply.
LEMMA SourceRead ==
    ASSUME NEW s \in Sockets, NEW a \in Sources, NEW i
    PROVE  /\ RecvFrom(s, pack_udp(a, i)) \in Sources \cup {NoAddr}
           /\ s.stray = NoPacket /\ a.type = "sock" => RecvFrom(s, pack_udp(a, i)) = a
<1>1. s.stray \in OneStray
  BY DEF Sockets
<1>2. CASE s.stray = NoPacket
  BY <1>2, SourceCarried DEF RecvFrom
<1>3. CASE s.stray = <<pack_udp(ForwardTarget, 0)>>
  <2>1. s.stray # NoPacket /\ Head(s.stray) = pack_udp(ForwardTarget, 0)
    BY <1>3 DEF NoPacket
  <2>2. parse_udp(pack_udp(ForwardTarget, 0)) = ForwardTarget
    BY AddressForms, HeaderCarries, UdpAssumption
  <2>3. RecvFrom(s, pack_udp(a, i)) = to_socket_addr(ForwardTarget)
    BY <2>1, <2>2 DEF RecvFrom
  <2>4. to_normalized(ForwardTarget) \in Sources
    BY DEF Sources, Destinations
  <2> QED BY <2>1, <2>3, <2>4 DEF to_socket_addr
<1>4. CASE s.stray = <<Fragment(ForwardTarget)>>
  <2>1. s.stray # NoPacket /\ Head(s.stray) = Fragment(ForwardTarget)
    BY <1>4 DEF NoPacket
  <2>2. parse_udp(Fragment(ForwardTarget)) = NoAddr
    BY DEF Fragment, parse_udp
  <2>3. RecvFrom(s, pack_udp(a, i)) = to_socket_addr(NoAddr)
    BY <2>1, <2>2 DEF RecvFrom
  <2>4. to_socket_addr(NoAddr) = NoAddr
    BY DEF to_socket_addr, to_normalized, NoAddr
  <2> QED BY <2>1, <2>3, <2>4
<1> QED BY <1>1, <1>2, <1>3, <1>4 DEF OneStray

\* The ids of packets are those of what was asked; 0 is that of a fragment.
LEMMA KnownIds ==
    ASSUME UdpTyped, BuffersCurrent
    PROVE  /\ Len(asked) \in Nat /\ DOMAIN asked = 1..Len(asked)
           /\ \A i \in DOMAIN uplink : uplink[i].data.id \in 0..Len(asked)
           /\ \A i \in DOMAIN forwarded :
                forwarded[i].id \in 1..Len(asked) /\ forwarded[i].addr = asked[forwarded[i].id].addr
           /\ \A c \in UdpClients : socket[c].packet # NoPacket => socket[c].packet[1].id \in 1..Len(asked)
<1>1. Len(asked) \in Nat /\ DOMAIN asked = 1..Len(asked)
  <2>1. asked \in Seq(Asking)
    BY DEF UdpTyped
  <2> QED BY <2>1
<1>2. ASSUME NEW i \in DOMAIN uplink PROVE uplink[i].data.id \in 0..Len(asked)
  <2>1. uplink \in Seq(Arriving)
    BY DEF UdpTyped
  <2>2. uplink[i] \in Arriving
    BY <2>1
  <2>3. \A x \in Arriving : x.data.id \in 0..Len(asked)
    <3>1. CASE chan.kind = "socks5"
      BY <1>1, <3>1 DEF Arriving, pack_udp, Fragment
    <3>2. CASE chan.kind # "socks5"
      BY <1>1, <3>2 DEF Arriving
    <3> QED BY <3>1, <3>2
  <2> QED BY <2>2, <2>3
<1>3. ASSUME NEW i \in DOMAIN forwarded
      PROVE  forwarded[i].id \in 1..Len(asked) /\ forwarded[i].addr = asked[forwarded[i].id].addr
  <2>1. forwarded[i] \in {Packet(id) : id \in DOMAIN asked}
    BY DEF UdpTyped
  <2> QED BY <1>1, <2>1 DEF Packet
<1>4. ASSUME NEW c \in UdpClients, socket[c].packet # NoPacket
      PROVE  socket[c].packet[1].id \in 1..Len(asked)
  <2>1. PICK id \in DOMAIN asked : socket[c].packet = <<Packet(id)>>
    BY <1>4 DEF BuffersCurrent
  <2>2. socket[c].packet[1] = Packet(id)
    BY <2>1
  <2> QED BY <1>1, <2>2 DEF Packet
<1> QED BY <1>1, <1>2, <1>3, <1>4

\* A packet comes to the server.
LEMMA Uplinked ==
    ASSUME UdpInv, NEW e, e \in Arriving', uplink' = Append(uplink, e), e.data.id # 0,
           uplink \in Seq(Arriving'),
           \A i \in DOMAIN uplink : uplink[i].data.id # e.data.id,
           \A i \in DOMAIN forwarded : forwarded[i].id # e.data.id,
           forwarded' = forwarded,
           \A c \in UdpClients : socket'[c].packet # NoPacket =>
             socket'[c].packet = socket[c].packet /\ socket[c].packet[1].id # e.data.id
    PROVE  SentOnce'
<1>1. /\ DOMAIN uplink = 1..Len(uplink) /\ DOMAIN uplink' = 1..(Len(uplink) + 1)
      /\ Len(uplink) \in Nat
      /\ \A i \in DOMAIN uplink : uplink'[i] = uplink[i]
      /\ uplink'[Len(uplink) + 1] = e
  OBVIOUS
<1>2. \A i \in DOMAIN uplink' : i \in DOMAIN uplink \/ i = Len(uplink) + 1
  BY <1>1
<1>3. SentOnce
  BY DEF UdpInv
<1>4. \A i, j \in DOMAIN uplink' :
        uplink'[i].data.id = uplink'[j].data.id /\ uplink'[i].data.id # 0 => i = j
  BY <1>1, <1>2, <1>3 DEF SentOnce
<1>5. \A i \in DOMAIN uplink', j \in DOMAIN forwarded : uplink'[i].data.id # forwarded[j].id
  BY <1>1, <1>2, <1>3 DEF SentOnce
<1>6. ASSUME NEW c \in UdpClients, socket'[c].packet # NoPacket
      PROVE  \A i \in DOMAIN uplink' : uplink'[i].data.id # socket'[c].packet[1].id
  BY <1>1, <1>2, <1>3, <1>6 DEF SentOnce
<1> QED BY <1>3, <1>4, <1>5, <1>6 DEF SentOnce

\* The first packet at the server is taken, and leaves it or is refused.
LEMMA TakenOff ==
    ASSUME UdpInv, uplink # <<>>, uplink' = Tail(uplink), socket' = socket,
           \/ forwarded' = forwarded
           \/ \E id \in DOMAIN asked :
                forwarded' = Append(forwarded, Packet(id)) /\ Head(uplink).data.id = id
    PROVE  SentOnce'
<1>0. SentOnce /\ uplink \in Seq(Arriving) /\ forwarded \in Seq({Packet(id) : id \in DOMAIN asked})
  BY DEF UdpInv, UdpTyped
<1>1. /\ DOMAIN uplink = 1..Len(uplink) /\ DOMAIN uplink' = 1..(Len(uplink) - 1)
      /\ Len(uplink) \in Nat /\ Len(uplink) >= 1
      /\ \A i \in DOMAIN uplink' : uplink'[i] = uplink[i + 1] /\ i + 1 \in DOMAIN uplink
      /\ 1 \in DOMAIN uplink /\ Head(uplink) = uplink[1]
  BY <1>0
<1>2. \A i, j \in DOMAIN uplink' :
        uplink'[i].data.id = uplink'[j].data.id /\ uplink'[i].data.id # 0 => i = j
  <2> SUFFICES ASSUME NEW i \in DOMAIN uplink', NEW j \in DOMAIN uplink',
                      uplink'[i].data.id = uplink'[j].data.id, uplink'[i].data.id # 0
               PROVE  i = j
    OBVIOUS
  <2>1. i + 1 = j + 1
    BY <1>0, <1>1 DEF SentOnce
  <2> QED BY <1>1, <2>1
<1>3. CASE forwarded' = forwarded
  <2>1. \A i \in DOMAIN uplink', j \in DOMAIN forwarded : uplink'[i].data.id # forwarded[j].id
    BY <1>0, <1>1 DEF SentOnce
  <2>2. ASSUME NEW c \in UdpClients, socket[c].packet # NoPacket
        PROVE  \A i \in DOMAIN uplink' : uplink'[i].data.id # socket[c].packet[1].id
    BY <1>0, <1>1, <2>2 DEF SentOnce
  <2> QED BY <1>0, <1>2, <1>3, <2>1, <2>2 DEF SentOnce
<1>4. ASSUME NEW id \in DOMAIN asked,
             forwarded' = Append(forwarded, Packet(id)), uplink[1].data.id = id
      PROVE  SentOnce'
  <2>1. /\ DOMAIN forwarded = 1..Len(forwarded) /\ DOMAIN forwarded' = 1..(Len(forwarded) + 1)
        /\ Len(forwarded) \in Nat
        /\ \A i \in DOMAIN forwarded : forwarded'[i] = forwarded[i]
        /\ forwarded'[Len(forwarded) + 1] = Packet(id)
    BY <1>0, <1>4
  <2>2. \A i \in DOMAIN forwarded' : i \in DOMAIN forwarded \/ i = Len(forwarded) + 1
    BY <2>1
  <2>3. Packet(id).id = id /\ id # 0
    BY KnownIds DEF Packet, UdpInv
  <2> HIDE DEF Packet
  <2>3a. \A i \in DOMAIN forwarded : forwarded[i].id # id
    BY <1>0, <1>1, <1>4 DEF SentOnce
  <2>4. \A i, j \in DOMAIN forwarded' : forwarded'[i].id = forwarded'[j].id => i = j
    BY <1>0, <2>1, <2>2, <2>3, <2>3a DEF SentOnce
  <2>5. \A i \in DOMAIN uplink' : uplink'[i].data.id # id
    <3> SUFFICES ASSUME NEW i \in DOMAIN uplink', uplink'[i].data.id = id PROVE FALSE
      OBVIOUS
    <3>1. i + 1 = 1
      BY <1>0, <1>1, <1>4, <2>3 DEF SentOnce
    <3> QED BY <1>1, <3>1
  <2>6. \A i \in DOMAIN uplink', j \in DOMAIN forwarded' : uplink'[i].data.id # forwarded'[j].id
    BY <1>0, <1>1, <2>1, <2>2, <2>3, <2>5 DEF SentOnce
  <2>7. ASSUME NEW c \in UdpClients, socket[c].packet # NoPacket
        PROVE  /\ \A i \in DOMAIN uplink' : uplink'[i].data.id # socket[c].packet[1].id
               /\ \A i \in DOMAIN forwarded' : forwarded'[i].id # socket[c].packet[1].id
    <3>1. /\ \A i \in DOMAIN uplink : uplink[i].data.id # socket[c].packet[1].id
          /\ \A i \in DOMAIN forwarded : forwarded[i].id # socket[c].packet[1].id
      BY <1>0, <2>7 DEF SentOnce
    <3>2. id # socket[c].packet[1].id
      BY <1>1, <1>4, <3>1
    <3> QED BY <1>1, <2>1, <2>2, <2>3, <3>1, <3>2
  <2> QED BY <1>0, <1>2, <2>4, <2>6, <2>7 DEF SentOnce
<1> QED BY <1>1, <1>3, <1>4

LEMMA UdpStarts ==
    ASSUME UdpInit("forward", "open") \/ UdpInit("socks5", "off")
    PROVE  UdpInv
<1> USE DEF UdpInit
<1>1. chan \in Channels /\ chan.send_buf = NoPacket
  <2>1. NoPacket \in OneReply
    BY DEF OneReply
  <2> QED BY <2>1 DEF Channels
<1>2. socket \in [UdpClients -> Sockets]
      /\ \A c \in UdpClients : socket[c].packet = NoPacket /\ socket[c].send_buf = NoPacket
  <2>1. /\ NoPacket \in OnePacket
        /\ NoPacket \in OneRequest /\ NoPacket \in OneStray
    BY DEF OnePacket, OneRequest, OneStray
  <2> DEFINE fresh == [open |-> TRUE, packet |-> NoPacket, send_buf |-> NoPacket, stray |-> NoPacket]
  <2>2. fresh \in Sockets /\ fresh.packet = NoPacket /\ fresh.send_buf = NoPacket
    BY <2>1 DEF Sockets
  <2>3. socket = [c \in UdpClients |-> fresh]
    OBVIOUS
  <2> QED BY <2>2, <2>3
<1>3. UdpTyped
  <2>1. /\ uplink = <<>> /\ replies = <<>> /\ asked = <<>> /\ answers = <<>>
        /\ forwarded = <<>>
    OBVIOUS
  <2> QED BY <1>1, <1>2, <2>1 DEF UdpTyped
<1>4. BuffersCurrent
  BY <1>1, <1>2 DEF BuffersCurrent
<1>5. AnsweredOnce
  BY DEF AnsweredOnce
<1>6. SentOnce
  BY <1>2 DEF SentOnce
<1> QED BY <1>3, <1>4, <1>5, <1>6 DEF UdpInv

\* What was asked stays: the sets of possible datagrams only grow.
LEMMA AskedGrows ==
    ASSUME UdpTyped, chan'.kind = chan.kind,
           \/ asked' = asked
           \/ \E r \in Asking : asked' = Append(asked, r)
    PROVE  /\ asked' \in Seq(Asking)
           /\ \A id \in DOMAIN asked : id \in DOMAIN asked' /\ asked'[id] = asked[id]
           /\ Arriving \subseteq Arriving' /\ Returning \subseteq Returning'
           /\ {Packet(id) : id \in DOMAIN asked} \subseteq {Packet(id) : id \in DOMAIN asked}'
           /\ \A id \in DOMAIN asked : Packet(id)' = Packet(id)
<1>1. /\ asked' \in Seq(Asking)
      /\ \A id \in DOMAIN asked : id \in DOMAIN asked' /\ asked'[id] = asked[id]
  <2>1. asked \in Seq(Asking)
    BY DEF UdpTyped
  <2> QED BY <2>1
<1>2. \A id \in DOMAIN asked : Packet(id)' = Packet(id)
  BY <1>1 DEF Packet
<1>3. {Packet(id) : id \in DOMAIN asked} \subseteq {Packet(id) : id \in DOMAIN asked}'
  BY <1>1, <1>2
<1>4. Returning \subseteq Returning'
  BY <1>1 DEF Returning
<1>5. Arriving \subseteq Arriving'
  BY <1>1 DEF Arriving
<1> QED BY <1>1, <1>2, <1>3, <1>4, <1>5

LEMMA WiderSeq ==
    ASSUME NEW S, NEW T, S \subseteq T, NEW q \in Seq(S)
    PROVE  q \in Seq(T)
  OBVIOUS

LEMMA SendPacketKeeps ==
    ASSUME UdpInv, NEW c \in UdpClients, SendPacket(c)
    PROVE  UdpInv'
<1> USE DEF UdpInv
<1>1. PICK a \in UdpTargets :
        /\ socket' = [socket EXCEPT ![c].packet = <<[addr |-> a, id |-> Len(asked) + 1]>>]
        /\ asked' = Append(asked, [client |-> c, addr |-> a])
  BY DEF SendPacket
<1> DEFINE n == Len(asked) + 1
           x == <<[addr |-> a, id |-> n]>>
<1>2. /\ socket[c].open /\ socket[c].packet = NoPacket
      /\ UNCHANGED <<chan, uplink, replies, forwarded, answers>>
  BY DEF SendPacket
<1>3. /\ n \in Nat /\ a \in Destinations /\ n \in DOMAIN asked' /\ asked'[n].addr = a
      /\ [client |-> c, addr |-> a] \in Asking
  BY <1>1 DEF UdpTyped, Destinations, Asking
<1>4. /\ asked' \in Seq(Asking)
      /\ \A id \in DOMAIN asked : id \in DOMAIN asked' /\ asked'[id] = asked[id]
      /\ Arriving \subseteq Arriving' /\ Returning \subseteq Returning'
      /\ {Packet(id) : id \in DOMAIN asked} \subseteq {Packet(id) : id \in DOMAIN asked}'
      /\ \A id \in DOMAIN asked : Packet(id)' = Packet(id)
  BY <1>1, <1>2, <1>3, AskedGrows DEF Asking
<1>5. x \in OnePacket /\ x # NoPacket /\ x = <<[addr |-> asked'[n].addr, id |-> n]>>
  <2>1. [addr |-> a, id |-> n] \in [addr : Destinations, id : Nat]
    BY <1>3
  <2>2. x \in OnePacket
    BY <2>1 DEF OnePacket
  <2>3. x # NoPacket
    BY DEF NoPacket
  <2>4. x = <<[addr |-> asked'[n].addr, id |-> n]>>
    BY <1>3
  <2> QED BY <2>2, <2>3, <2>4
<1>6. /\ socket' \in [UdpClients -> Sockets]
      /\ socket'[c].packet = x /\ socket'[c].send_buf = socket[c].send_buf
      /\ \A d \in UdpClients : d # c => socket'[d] = socket[d]
  <2> HIDE DEF x
  <2>1. socket' = [socket EXCEPT ![c] = [socket[c] EXCEPT !.packet = x]]
    BY <1>1 DEF x, n
  <2>2. LET t == [socket[c] EXCEPT !.packet = x] IN
        t \in Sockets /\ t.packet = x /\ t.send_buf = socket[c].send_buf
    BY <1>5 DEF UdpTyped, Sockets
  <2> QED BY <2>1, <2>2 DEF UdpTyped
<1>7. UdpTyped'
  BY <1>2, <1>4, <1>6, WiderSeq DEF UdpTyped
<1> HIDE DEF x, n
<1>8. BuffersCurrent'
  <2>1. socket[c].send_buf = NoPacket
    BY <1>2 DEF BuffersCurrent
  <2>2. \E id \in DOMAIN asked' : x = <<Packet(id)'>>
    BY <1>3, <1>5 DEF Packet
  <2>3. ASSUME NEW d \in UdpClients, d # c
        PROVE  socket[d].packet # NoPacket => \E id \in DOMAIN asked' : socket[d].packet = <<Packet(id)'>>
    BY <1>4 DEF BuffersCurrent
  <2>4. chan'.kind = "socks5"
    BY DEF SendPacket
  <2> QED BY <1>2, <1>5, <1>6, <2>1, <2>2, <2>3, <2>4 DEF BuffersCurrent
<1>9. AnsweredOnce'
  BY <1>2, <1>4 DEF AnsweredOnce
<1>10. SentOnce'
  <2>1. x[1].id = n /\ n = Len(asked) + 1
    BY DEF x, n
  <2>2. ASSUME NEW d \in UdpClients, d # c
        PROVE  socket'[d] = socket[d] /\ (socket[d].packet # NoPacket => socket[d].packet[1].id # n)
    BY <1>6, <2>1, <2>2, KnownIds
  <2>3. /\ \A i \in DOMAIN uplink : uplink[i].data.id # n
        /\ \A i \in DOMAIN forwarded : forwarded[i].id # n
    BY <2>1, KnownIds
  <2> QED BY <1>2, <1>6, <2>1, <2>2, <2>3 DEF SentOnce
<1> QED BY <1>7, <1>8, <1>9, <1>10

LEMMA SendPlainKeeps ==
    ASSUME UdpInv, NEW c \in UdpClients, SendPlain(c)
    PROVE  UdpInv'
<1> USE DEF UdpInv
<1> DEFINE n == Len(asked) + 1
           r == [client |-> c, addr |-> ForwardTarget]
           e == [from |-> c, data |-> [id |-> n]]
<1>1. /\ asked' = Append(asked, r) /\ r \in Asking
      /\ uplink' = Append(uplink, e)
      /\ UNCHANGED <<chan, socket, replies, forwarded, answers>>
      /\ chan.kind = "forward"
  BY DEF SendPlain, Destinations, Asking
<1>3. n \in DOMAIN asked' /\ asked'[n].addr = ForwardTarget
  <2>1. asked' \in Seq(Asking) /\ n \in DOMAIN asked' /\ asked'[n] = r
    BY <1>1 DEF UdpTyped
  <2> QED BY <2>1
<1>4. /\ asked' \in Seq(Asking)
      /\ \A id \in DOMAIN asked : id \in DOMAIN asked' /\ asked'[id] = asked[id]
      /\ Arriving \subseteq Arriving' /\ Returning \subseteq Returning'
      /\ {Packet(id) : id \in DOMAIN asked} \subseteq {Packet(id) : id \in DOMAIN asked}'
      /\ \A id \in DOMAIN asked : Packet(id)' = Packet(id)
  BY <1>1, <1>3, AskedGrows
<1>5. e \in Arriving'
  BY <1>1, <1>3 DEF Arriving
<1> HIDE DEF n, e, r
<1>6. uplink' \in Seq(Arriving')
  <2>1. uplink \in Seq(Arriving')
    BY <1>4, WiderSeq DEF UdpTyped
  <2> QED BY <1>1, <1>5, <2>1
<1>7. UdpTyped'
  BY <1>1, <1>4, <1>6, WiderSeq DEF UdpTyped
<1>8. BuffersCurrent'
  BY <1>1, <1>4 DEF BuffersCurrent
<1>9. AnsweredOnce'
  BY <1>1, <1>4 DEF AnsweredOnce
<1>10. SentOnce'
  <2>1. e.data.id = n /\ n = Len(asked) + 1
    BY DEF e, n
  <2>2. /\ n # 0
        /\ \A i \in DOMAIN uplink : uplink[i].data.id # n
        /\ \A i \in DOMAIN forwarded : forwarded[i].id # n
        /\ \A d \in UdpClients : socket[d].packet # NoPacket => socket[d].packet[1].id # n
    BY <2>1, KnownIds
  <2>3. uplink \in Seq(Arriving')
    BY <1>4, WiderSeq DEF UdpTyped
  <2> QED BY <1>1, <1>5, <2>1, <2>2, <2>3, Uplinked
<1> QED BY <1>7, <1>8, <1>9, <1>10

LEMMA SendFragmentKeeps ==
    ASSUME UdpInv, NEW c \in UdpClients, SendFragment(c)
    PROVE  UdpInv'
<1> USE DEF UdpInv
<1> DEFINE e == [from |-> c, data |-> Fragment(asked[1].addr)]
<1>1. /\ uplink' = <<e>> /\ chan.kind = "socks5"
      /\ UNCHANGED <<chan, socket, replies, asked, forwarded, answers>>
  BY DEF SendFragment, Fragment
<1>2. asked[1].addr \in Destinations
  <2>1. Len(asked) > 0 /\ asked \in Seq(Asking)
    BY DEF SendFragment, UdpTyped
  <2>2. asked[1] \in Asking
    BY <2>1
  <2> QED BY <2>2 DEF Asking
<1>3. e \in Arriving
  BY <1>1, <1>2 DEF Arriving
<1>4. Arriving' = Arriving /\ Returning' = Returning
  BY <1>1 DEF Arriving, Returning
<1> HIDE DEF e
<1>7. UdpTyped'
  BY <1>1, <1>3, <1>4 DEF UdpTyped, Packet
<1>8. BuffersCurrent'
  BY <1>1 DEF BuffersCurrent, Packet
<1>9. AnsweredOnce'
  BY <1>1 DEF AnsweredOnce
<1>10. SentOnce'
  <2>1. DOMAIN uplink' = {1} /\ uplink'[1].data.id = 0
    BY <1>1 DEF e, Fragment
  <2>2. \A i \in DOMAIN uplink' : uplink'[i].data.id = 0
    BY <2>1
  <2>3. /\ \A i \in DOMAIN forwarded : forwarded[i].id # 0
        /\ \A d \in UdpClients : socket[d].packet # NoPacket => socket[d].packet[1].id # 0
    BY KnownIds
  <2> QED BY <1>1, <2>2, <2>3 DEF SentOnce
<1> QED BY <1>7, <1>8, <1>9, <1>10

\* Nothing but a client's socket and what it sends changes.
LEMMA PollSendKeeps ==
    ASSUME UdpInv, NEW c \in UdpClients, PollSend(c)
    PROVE  UdpInv'
<1> USE DEF UdpInv
<1> DEFINE s == socket[c]
           buf == Packed(s.send_buf, Head(s.packet))
<1>1. /\ UNCHANGED <<chan, replies, asked, forwarded, answers>>
      /\ s.packet # NoPacket
      /\ \/ socket' = [socket EXCEPT ![c].send_buf = buf] /\ UNCHANGED uplink
         \/ socket' = [socket EXCEPT ![c].open = FALSE, ![c].packet = NoPacket] /\ UNCHANGED uplink
         \/ /\ socket' = [socket EXCEPT ![c].send_buf = SentBuffer(buf), ![c].packet = NoPacket]
            /\ uplink' = Append(uplink, [from |-> c, data |-> Head(buf)])
  BY DEF PollSend
<1>2. PICK id \in DOMAIN asked : s.packet = <<Packet(id)>>
  BY <1>1 DEF BuffersCurrent
<1>3. Head(s.packet) = Packet(id) /\ s.packet[1] = Packet(id)
  BY <1>2
<1>4. buf = <<pack_udp(asked[id].addr, id)>>
  BY <1>1, <1>3 DEF Packed, BuffersCurrent, Packet
<1>5. id \in Nat /\ asked[id].addr \in Destinations
  <2>1. asked \in Seq(Asking)
    BY DEF UdpTyped
  <2>2. id \in Nat /\ asked[id] \in Asking
    BY <2>1
  <2> QED BY <2>2 DEF Asking
<1>6. buf \in OneRequest /\ NoPacket \in OneRequest /\ NoPacket \in OnePacket
  BY <1>4, <1>5 DEF OneRequest, OnePacket
<1>7. s \in Sockets
  BY DEF UdpTyped
<1>8. /\ socket' \in [UdpClients -> Sockets]
      /\ \A d \in UdpClients : d # c => socket'[d] = socket[d]
      /\ \/ socket'[c].packet = s.packet /\ socket'[c].send_buf = buf
         \/ socket'[c].packet = NoPacket /\ socket'[c].open = FALSE
         \/ socket'[c].packet = NoPacket /\ socket'[c].send_buf = NoPacket
  <2> HIDE DEF buf, s
  <2>1. CASE socket' = [socket EXCEPT ![c].send_buf = buf]
    <3>1. socket' = [socket EXCEPT ![c] = [s EXCEPT !.send_buf = buf]]
      BY <2>1 DEF s
    <3>2. LET t == [s EXCEPT !.send_buf = buf] IN
          t \in Sockets /\ t.packet = s.packet /\ t.send_buf = buf
      BY <1>6, <1>7 DEF Sockets
    <3> QED BY <3>1, <3>2 DEF UdpTyped
  <2>2. CASE socket' = [socket EXCEPT ![c].open = FALSE, ![c].packet = NoPacket]
    <3>1. socket' = [socket EXCEPT ![c] = [s EXCEPT !.open = FALSE, !.packet = NoPacket]]
      BY <2>2 DEF s, UdpTyped
    <3>2. LET t == [s EXCEPT !.open = FALSE, !.packet = NoPacket] IN
          t \in Sockets /\ t.packet = NoPacket /\ t.open = FALSE
      BY <1>6, <1>7 DEF Sockets
    <3> QED BY <3>1, <3>2 DEF UdpTyped
  <2>3. CASE socket' = [socket EXCEPT ![c].send_buf = SentBuffer(buf), ![c].packet = NoPacket]
    <3>1. socket' = [socket EXCEPT ![c] = [s EXCEPT !.send_buf = NoPacket, !.packet = NoPacket]]
      BY <2>3 DEF s, UdpTyped, SentBuffer
    <3>2. LET t == [s EXCEPT !.send_buf = NoPacket, !.packet = NoPacket] IN
          t \in Sockets /\ t.packet = NoPacket /\ t.send_buf = NoPacket
      BY <1>6, <1>7 DEF Sockets
    <3> QED BY <3>1, <3>2 DEF UdpTyped
  <2> QED BY <1>1, <2>1, <2>2, <2>3
<1>9. Arriving' = Arriving /\ Returning' = Returning
  BY <1>1 DEF Arriving, Returning
<1>10. uplink' \in Seq(Arriving)
  <2>1. CASE UNCHANGED uplink
    BY <2>1 DEF UdpTyped
  <2>2. CASE uplink' = Append(uplink, [from |-> c, data |-> Head(buf)])
    <3>1. chan.kind = "socks5"
      BY <1>1 DEF BuffersCurrent
    <3>2. Head(buf) = pack_udp(asked[id].addr, id)
      BY <1>4
    <3>3. [from |-> c, data |-> Head(buf)] \in Arriving
      BY <3>1, <3>2 DEF Arriving
    <3> HIDE DEF buf
    <3> QED BY <2>2, <3>3 DEF UdpTyped
  <2> QED BY <1>1, <2>1, <2>2
<1>11. UdpTyped'
  BY <1>1, <1>8, <1>9, <1>10 DEF UdpTyped, Packet
<1>12. BuffersCurrent'
  <2> HIDE DEF buf, s
  <2>1. ASSUME NEW d \in UdpClients, d # c
        PROVE  socket'[d] = socket[d]
    BY <1>8, <2>1
  <2>2. \A i \in DOMAIN asked : Packet(i)' = Packet(i)
    BY <1>1 DEF Packet
  <2> QED BY <1>1, <1>2, <1>3, <1>4, <1>8, <2>2 DEF BuffersCurrent, s, Packet
<1>13. AnsweredOnce'
  BY <1>1 DEF AnsweredOnce
<1>14. SentOnce'
  <2> HIDE DEF buf
  <2>1. CASE uplink' = uplink
    <3>1. \A d \in UdpClients : socket'[d].packet \in {socket[d].packet, NoPacket}
      BY <1>8
    <3> QED BY <1>1, <2>1, <3>1 DEF SentOnce
  <2>2. CASE /\ socket' = [socket EXCEPT ![c].send_buf = SentBuffer(buf), ![c].packet = NoPacket]
             /\ uplink' = Append(uplink, [from |-> c, data |-> Head(buf)])
    <3>1. /\ socket'[c].packet = NoPacket
          /\ \A d \in UdpClients : d # c => socket'[d].packet = socket[d].packet
      <4>1. socket' = [socket EXCEPT ![c] = [s EXCEPT !.send_buf = SentBuffer(buf), !.packet = NoPacket]]
        BY <2>2 DEF UdpTyped
      <4>2. [s EXCEPT !.send_buf = SentBuffer(buf), !.packet = NoPacket].packet = NoPacket
        BY <1>7 DEF Sockets
      <4> QED BY <4>1, <4>2 DEF UdpTyped
    <3> DEFINE e == [from |-> c, data |-> Head(buf)]
    <3>2. Head(buf) = pack_udp(asked[id].addr, id)
      BY <1>4
    <3>3. e.data.id = id /\ id # 0
      BY <3>2, KnownIds DEF pack_udp
    <3>4. e \in Arriving /\ uplink \in Seq(Arriving)
      BY <1>1, <3>2 DEF Arriving, BuffersCurrent, UdpTyped
    <3>5. s.packet[1].id = id
      BY <1>3 DEF Packet
    <3>6. uplink' = Append(uplink, e)
      BY <2>2
    <3> HIDE DEF e
    <3>7. /\ \A i \in DOMAIN uplink : uplink[i].data.id # id
          /\ \A i \in DOMAIN forwarded : forwarded[i].id # id
          /\ \A d \in UdpClients : d # c /\ socket[d].packet # NoPacket => socket[d].packet[1].id # id
      BY <1>1, <3>5 DEF SentOnce
    <3> QED BY <1>1, <1>9, <3>1, <3>3, <3>4, <3>6, <3>7, Uplinked
  <2> QED BY <1>1, <2>1, <2>2
<1> QED BY <1>11, <1>12, <1>13, <1>14

LEMMA TakeSocks5Keeps ==
    ASSUME UdpInv, TakeSocks5
    PROVE  UdpInv'
<1> USE DEF UdpInv
<1> DEFINE d == Head(uplink)
           addr == parse_udp(d.data)
           cl == IF chan.client = NoOne THEN d.from ELSE chan.client
           st == IF addr = NoAddr THEN "ended" ELSE chan.state
<1>1. /\ UNCHANGED <<socket, replies, asked, answers>> /\ chan.kind = "socks5"
      /\ uplink # <<>> /\ uplink' = Tail(uplink)
      /\ chan' = [chan EXCEPT !.client = cl, !.state = st]
      /\ IF addr = NoAddr THEN UNCHANGED forwarded
         ELSE forwarded' = Append(forwarded, [addr |-> addr, id |-> d.data.id])
  BY DEF TakeSocks5, Leaves
<1>2. uplink \in Seq(Arriving) /\ d \in Arriving /\ uplink' \in Seq(Arriving)
  BY <1>1 DEF UdpTyped
<1>3. /\ d.from \in UdpClients
      /\ addr # NoAddr => \E id \in DOMAIN asked : [addr |-> addr, id |-> d.data.id] = Packet(id)
  <2>1. CASE \E c \in UdpClients, a \in Destinations : d = [from |-> c, data |-> Fragment(a)]
    BY <2>1 DEF Fragment, parse_udp
  <2>2. CASE \E c \in UdpClients, id \in DOMAIN asked :
               d = [from |-> c, data |-> pack_udp(asked[id].addr, id)]
    <3>1. PICK c \in UdpClients, id \in DOMAIN asked :
               d = [from |-> c, data |-> pack_udp(asked[id].addr, id)]
      BY <2>2
    <3>2. d.from = c /\ d.data = pack_udp(asked[id].addr, id)
      BY <3>1
    <3>3. asked \in Seq(Asking)
      BY DEF UdpTyped
    <3>4. asked[id] \in Asking
      BY <3>3
    <3>5. asked[id].addr \in Addresses
      BY <3>4, UdpAssumption DEF Asking, Destinations
    <3>6. parse_udp(pack_udp(asked[id].addr, id)) = asked[id].addr /\ pack_udp(asked[id].addr, id).id = id
      BY <3>5, AddressForms, HeaderCarries
    <3> QED BY <3>2, <3>6 DEF Packet
  <2> QED BY <1>1, <1>2, <2>1, <2>2 DEF Arriving
<1>4. cl \in UdpClients /\ st \in {"off", "open", "ended"}
  BY <1>3 DEF UdpTyped, Channels
<1> HIDE DEF cl, st
<1>5. /\ chan' \in Channels /\ chan'.kind = chan.kind /\ chan'.send_buf = chan.send_buf
      /\ chan'.client = cl
  BY <1>1, <1>4 DEF UdpTyped, Channels
<1>6. Arriving' = Arriving /\ Returning' = Returning
  BY <1>1, <1>5 DEF Arriving, Returning
<1>6a. SentOnce'
  <2>1. CASE addr = NoAddr
    BY <1>1, <2>1, TakenOff
  <2>2. CASE addr # NoAddr
    <3>1. PICK id \in DOMAIN asked : [addr |-> addr, id |-> d.data.id] = Packet(id)
      BY <1>3, <2>2
    <3>2. d.data.id = id
      BY <3>1 DEF Packet
    <3> HIDE DEF addr
    <3> QED BY <1>1, <2>2, <3>1, <3>2, TakenOff
  <2> QED BY <2>1, <2>2
<1> DEFINE y == [addr |-> addr, id |-> d.data.id]
           S == {Packet(id) : id \in DOMAIN asked}
<1>6b. /\ addr # NoAddr => y \in S
       /\ forwarded \in Seq(S)
       /\ IF addr = NoAddr THEN forwarded' = forwarded ELSE forwarded' = Append(forwarded, y)
  BY <1>1, <1>3 DEF UdpTyped
<1> HIDE DEF addr, d, y, S
<1>7. forwarded' \in Seq(S)
  BY <1>6b
<1>8. UdpTyped'
  BY <1>1, <1>2, <1>5, <1>6, <1>7 DEF UdpTyped, Packet, S
<1>9. BuffersCurrent'
  BY <1>1, <1>5 DEF BuffersCurrent, Packet
<1>10. AnsweredOnce'
  <2>1. NoOne \notin UdpClients
    BY UdpAssumption
  <2> QED BY <1>1, <1>4, <1>5, <2>1 DEF AnsweredOnce, cl
<1> QED BY <1>6a, <1>8, <1>9, <1>10

LEMMA TakeForwardKeeps ==
    ASSUME UdpInv, TakeForward
    PROVE  UdpInv'
<1> USE DEF UdpInv
<1> DEFINE d == Head(uplink)
<1>1. /\ UNCHANGED <<socket, replies, asked, answers>> /\ chan.kind = "forward"
      /\ uplink # <<>> /\ uplink' = Tail(uplink)
      /\ chan' = [chan EXCEPT !.client = d.from]
      /\ forwarded' = Append(forwarded, [addr |-> ForwardTarget, id |-> d.data.id])
  BY DEF TakeForward, Leaves
<1>2. uplink \in Seq(Arriving) /\ d \in Arriving /\ uplink' \in Seq(Arriving)
  BY <1>1 DEF UdpTyped
<1>3. /\ d.from \in UdpClients
      /\ \E id \in DOMAIN asked : [addr |-> ForwardTarget, id |-> d.data.id] = Packet(id)
  <2>1. PICK c \in UdpClients, id \in {i \in DOMAIN asked : asked[i].addr = ForwardTarget} :
          d = [from |-> c, data |-> [id |-> id]]
    <3> HIDE DEF d
    <3>1. Arriving = {[from |-> c, data |-> [id |-> id]] :
            c \in UdpClients, id \in {i \in DOMAIN asked : asked[i].addr = ForwardTarget}}
      BY <1>1 DEF Arriving
    <3> QED BY <1>2, <3>1
  <2> HIDE DEF d
  <2>2. d.from = c /\ d.data = [id |-> id]
    BY <2>1
  <2>3. d.data.id = id
    BY <2>2
  <2>4. Packet(id) = [addr |-> ForwardTarget, id |-> id]
    BY DEF Packet
  <2> QED BY <2>2, <2>3, <2>4
<1>5. chan' \in Channels /\ chan'.kind = chan.kind /\ chan'.send_buf = chan.send_buf
  BY <1>1, <1>3 DEF UdpTyped, Channels
<1>6. Arriving' = Arriving /\ Returning' = Returning
  BY <1>1, <1>5 DEF Arriving, Returning
<1>6a. SentOnce'
  <2>1. PICK id \in DOMAIN asked : [addr |-> ForwardTarget, id |-> d.data.id] = Packet(id)
    BY <1>3
  <2>2. d.data.id = id
    BY <2>1 DEF Packet
  <2> QED BY <1>1, <2>1, <2>2, TakenOff
<1> HIDE DEF d
<1>7. forwarded' \in Seq({Packet(id) : id \in DOMAIN asked})
  BY <1>1, <1>3 DEF UdpTyped
<1>8. UdpTyped'
  BY <1>1, <1>2, <1>5, <1>6, <1>7 DEF UdpTyped, Packet
<1>9. BuffersCurrent'
  BY <1>1, <1>5 DEF BuffersCurrent, Packet
<1>10. AnsweredOnce'
  BY <1>1, <1>5 DEF AnsweredOnce
<1> QED BY <1>6a, <1>8, <1>9, <1>10

LEMMA PeerRepliesKeeps ==
    ASSUME UdpInv, PeerReplies
    PROVE  UdpInv'
<1> USE DEF UdpInv
<1>1. UNCHANGED <<chan, socket, uplink, asked, forwarded, answers>>
  BY DEF PeerReplies
<1>2. Arriving' = Arriving /\ Returning' = Returning
  BY <1>1 DEF Arriving, Returning
<1>3. replies \in Seq(Returning)
  BY DEF UdpTyped
<1>4. PICK r \in Returning :
        /\ replies' = Append(replies, r)
        /\ \A i \in DOMAIN replies : replies[i].id # r.id
        /\ r.id # 0 => \A i \in DOMAIN answers : answers[i].id # r.id
  <2>1. CASE \E n \in DOMAIN forwarded : LET f == forwarded[n] IN
            /\ \A i \in DOMAIN replies : replies[i].id # f.id
            /\ \A i \in DOMAIN answers : answers[i].id # f.id
            /\ to_normalized(f.addr).type = "sock"
            /\ replies' = Append(replies, [from |-> to_normalized(f.addr), id |-> f.id])
    <3>0. PICK n \in DOMAIN forwarded : LET f == forwarded[n] IN
            /\ \A i \in DOMAIN replies : replies[i].id # f.id
            /\ \A i \in DOMAIN answers : answers[i].id # f.id
            /\ to_normalized(f.addr).type = "sock"
            /\ replies' = Append(replies, [from |-> to_normalized(f.addr), id |-> f.id])
      BY <2>1
    <3> DEFINE f == forwarded[n]
    <3>1.   /\ \A i \in DOMAIN replies : replies[i].id # f.id
            /\ \A i \in DOMAIN answers : answers[i].id # f.id
            /\ to_normalized(f.addr).type = "sock"
            /\ replies' = Append(replies, [from |-> to_normalized(f.addr), id |-> f.id])
      BY <3>0
    <3>2. PICK id \in DOMAIN asked : f = Packet(id)
      BY DEF UdpTyped
    <3> HIDE DEF f
    <3>3. f.addr = asked[id].addr /\ f.id = id
      BY <3>2 DEF Packet
    <3> DEFINE r == [from |-> to_normalized(f.addr), id |-> f.id]
    <3>4. r \in Returning /\ r.id = f.id
      BY <3>1, <3>3 DEF Returning
    <3> HIDE DEF r
    <3> QED BY <3>1, <3>4 DEF r
  <2>2. CASE replies = <<>> /\ replies' = <<[from |-> to_normalized(ForwardTarget), id |-> 0]>>
    <3> DEFINE r == [from |-> to_normalized(ForwardTarget), id |-> 0]
    <3>1. r \in Returning /\ r.id = 0
      BY DEF Returning
    <3> HIDE DEF r
    <3>2. replies' = Append(replies, r)
      BY <2>2 DEF r
    <3> QED BY <2>2, <3>1, <3>2
  <2> QED BY <2>1, <2>2 DEF PeerReplies
<1>5. /\ replies' \in Seq(Returning) /\ Len(replies') = Len(replies) + 1
      /\ \A i \in 1..Len(replies) : replies'[i] = replies[i]
      /\ replies'[Len(replies) + 1] = r
  BY <1>3, <1>4
<1>6. UdpTyped'
  BY <1>1, <1>2, <1>5 DEF UdpTyped, Packet
<1>7. BuffersCurrent'
  <2>1. replies # <<>> => replies' # <<>> /\ replies'[1] = replies[1]
    BY <1>3, <1>5
  <2> QED BY <1>1, <2>1 DEF BuffersCurrent, Packet
<1>8. AnsweredOnce'
  <2>1. /\ DOMAIN replies = 1..Len(replies) /\ DOMAIN replies' = 1..(Len(replies) + 1)
        /\ Len(replies) \in Nat
    BY <1>3, <1>5
  <2>2. \A i, j \in DOMAIN replies' : replies'[i].id = replies'[j].id /\ replies'[i].id # 0 => i = j
    BY <1>4, <1>5, <2>1 DEF AnsweredOnce
  <2>3. \A i \in DOMAIN replies', j \in DOMAIN answers : replies'[i].id = answers[j].id => replies'[i].id = 0
    BY <1>4, <1>5, <2>1 DEF AnsweredOnce
  <2> QED BY <1>1, <2>2, <2>3 DEF AnsweredOnce
<1>9. SentOnce'
  BY <1>1 DEF SentOnce
<1> QED BY <1>6, <1>7, <1>8, <1>9

\* The first reply, and what it may be.
LEMMA FirstReply ==
    ASSUME UdpInv, replies # <<>>
    PROVE  /\ Head(replies) \in Returning /\ Head(replies) = replies[1]
           /\ Head(replies).from \in Sources /\ Head(replies).id \in Nat
           /\ Head(replies).id # 0 =>
                /\ Head(replies).id \in DOMAIN asked /\ Head(replies).from.type = "sock"
                /\ Head(replies).from = to_normalized(asked[Head(replies).id].addr)
<1>1. replies \in Seq(Returning) /\ asked \in Seq(Asking)
  BY DEF UdpInv, UdpTyped
<1> DEFINE r == Head(replies)
<1>2. r \in Returning /\ r = replies[1]
  BY <1>1
<1> HIDE DEF r
<1>3. CASE r = [from |-> to_normalized(ForwardTarget), id |-> 0]
  BY <1>2, <1>3 DEF Sources, Destinations, r
<1>4. CASE \E id \in {i \in DOMAIN asked : to_normalized(asked[i].addr).type = "sock"} :
             r = [from |-> to_normalized(asked[id].addr), id |-> id]
  <2>1. PICK id \in DOMAIN asked :
          /\ r = [from |-> to_normalized(asked[id].addr), id |-> id]
          /\ to_normalized(asked[id].addr).type = "sock"
    BY <1>4
  <2>2. id \in Nat /\ asked[id] \in Asking
    BY <1>1
  <2>3. asked[id].addr \in Destinations
    BY <2>2 DEF Asking
  <2> QED BY <1>2, <2>1, <2>2, <2>3 DEF Sources, r
<1> QED BY <1>2, <1>3, <1>4 DEF Returning

\* What a client's socket has read of other senders is gone, or it is closed.
SocketsSettle ==
    /\ socket' \in [UdpClients -> Sockets]
    /\ \A c \in UdpClients :
         /\ socket'[c].send_buf = socket[c].send_buf
         /\ \/ socket'[c].packet = socket[c].packet /\ socket'[c].open = socket[c].open
            \/ socket'[c].packet = NoPacket /\ socket'[c].open = FALSE

LEMMA SettleKeeps ==
    ASSUME UdpInv, SocketsSettle, UNCHANGED <<uplink, asked, forwarded>>, chan'.kind = chan.kind,
           \/ chan'.send_buf = NoPacket
           \/ chan'.send_buf = chan.send_buf /\ UNCHANGED replies
    PROVE  BuffersCurrent' /\ SentOnce'
<1> USE DEF UdpInv
<1>1. ASSUME NEW c \in UdpClients
      PROVE  /\ socket'[c].packet # NoPacket =>
                  chan.kind = "socks5" /\ \E id \in DOMAIN asked : socket'[c].packet = <<Packet(id)>>
             /\ socket'[c].packet # NoPacket /\ socket'[c].send_buf # NoPacket =>
                  socket'[c].send_buf = <<pack_udp(socket'[c].packet[1].addr, socket'[c].packet[1].id)>>
             /\ socket'[c].packet = NoPacket /\ socket'[c].send_buf # NoPacket => ~socket'[c].open
  BY DEF BuffersCurrent, SocketsSettle
<1>2. BuffersCurrent'
  BY <1>1 DEF BuffersCurrent, Packet
<1>3. \A c \in UdpClients : socket'[c].packet # NoPacket => socket'[c].packet = socket[c].packet
  BY DEF SocketsSettle
<1>4. SentOnce'
  BY <1>3 DEF SentOnce
<1> QED BY <1>2, <1>4

\* A reply that leaves the queue.
LEMMA RestOfReplies ==
    ASSUME UdpInv, replies # <<>>, replies' = Tail(replies)
    PROVE  /\ replies' \in Seq(Returning)
           /\ \A i, j \in DOMAIN replies' : replies'[i].id = replies'[j].id /\ replies'[i].id # 0 => i = j
           /\ \A i \in DOMAIN replies' : replies'[i].id = Head(replies).id => replies'[i].id = 0
           /\ \A i \in DOMAIN replies', j \in DOMAIN answers : replies'[i].id = answers[j].id => replies'[i].id = 0
           /\ 1 \in DOMAIN replies /\ Head(replies) = replies[1]
<1> USE DEF UdpInv
<1>2. replies \in Seq(Returning) /\ replies' \in Seq(Returning)
  BY DEF UdpTyped
<1>3. /\ DOMAIN replies = 1..Len(replies) /\ DOMAIN replies' = 1..(Len(replies) - 1)
      /\ Len(replies) \in Nat /\ Len(replies) >= 1
      /\ \A i \in DOMAIN replies' : replies'[i] = replies[i + 1] /\ i + 1 \in DOMAIN replies
      /\ 1 \in DOMAIN replies /\ Head(replies) = replies[1]
  BY <1>2
<1>4. \A i, j \in DOMAIN replies' : replies'[i].id = replies'[j].id /\ replies'[i].id # 0 => i = j
  <2> SUFFICES ASSUME NEW i \in DOMAIN replies', NEW j \in DOMAIN replies',
                      replies'[i].id = replies'[j].id, replies'[i].id # 0
               PROVE  i = j
    OBVIOUS
  <2>1. i + 1 = j + 1
    BY <1>3 DEF AnsweredOnce
  <2> QED BY <1>3, <2>1
<1>5. ASSUME NEW i \in DOMAIN replies', replies'[i].id = Head(replies).id, replies'[i].id # 0
      PROVE  FALSE
  <2>1. i + 1 = 1
    BY <1>3, <1>5 DEF AnsweredOnce
  <2> QED BY <1>3, <2>1
<1>6. \A i \in DOMAIN replies', j \in DOMAIN answers : replies'[i].id = answers[j].id => replies'[i].id = 0
  BY <1>3 DEF AnsweredOnce
<1> QED BY <1>2, <1>3, <1>4, <1>5, <1>6

\* A reply that nobody gets.
LEMMA ReplyLost ==
    ASSUME UdpInv, replies # <<>>, replies' = Tail(replies), answers' = answers,
           chan' \in Channels, chan'.kind = chan.kind, chan'.client = chan.client,
           chan'.send_buf = NoPacket,
           SocketsSettle, UNCHANGED <<uplink, asked, forwarded>>
    PROVE  UdpInv'
<1> USE DEF UdpInv
<1>1. Arriving' = Arriving /\ Returning' = Returning
  BY DEF Arriving, Returning
<1>2. UdpTyped'
  BY <1>1, RestOfReplies DEF UdpTyped, Packet, SocketsSettle
<1>3. AnsweredOnce'
  BY RestOfReplies DEF AnsweredOnce
<1> QED BY <1>2, <1>3, SettleKeeps

\* A reply that is handed on is gone from the queue.
LEMMA ReplyHandedOn ==
    ASSUME UdpInv, replies # <<>>, replies' = Tail(replies),
           NEW x \in Answers, x.id = Head(replies).id,
           x.id # 0 /\ chan.kind = "socks5" /\ x.alone => x.from = Head(replies).from,
           answers' = Append(answers, x), x.client = chan.client,
           chan' \in Channels, chan'.kind = chan.kind, chan'.client = chan.client,
           chan'.send_buf = NoPacket,
           SocketsSettle, UNCHANGED <<uplink, asked, forwarded>>
    PROVE  UdpInv'
<1> USE DEF UdpInv
<1>1. Arriving' = Arriving /\ Returning' = Returning
  BY DEF Arriving, Returning
<1>4. answers \in Seq(Answers)
  BY DEF UdpTyped
<1>5. /\ answers' \in Seq(Answers)
      /\ DOMAIN answers = 1..Len(answers) /\ DOMAIN answers' = 1..(Len(answers) + 1)
      /\ Len(answers) \in Nat
      /\ \A i \in DOMAIN answers : answers'[i] = answers[i]
      /\ answers'[Len(answers) + 1] = x
  BY <1>4
<1>6. UdpTyped'
  BY <1>1, <1>5, RestOfReplies DEF UdpTyped, Packet, SocketsSettle
<1>7. BuffersCurrent' /\ SentOnce'
  BY SettleKeeps
<1>8. AnsweredOnce'
  <2>1. \A i, j \in DOMAIN replies' : replies'[i].id = replies'[j].id /\ replies'[i].id # 0 => i = j
    BY RestOfReplies
  <2>2. \A i \in DOMAIN answers : answers[i].id = x.id => x.id = 0
    BY RestOfReplies DEF AnsweredOnce
  <2>3. \A i, j \in DOMAIN answers' : answers'[i].id = answers'[j].id /\ answers'[i].id # 0 => i = j
    <3> SUFFICES ASSUME NEW i \in DOMAIN answers', NEW j \in DOMAIN answers',
                        answers'[i].id = answers'[j].id, answers'[i].id # 0
                 PROVE  i = j
      OBVIOUS
    <3>1. CASE i \in DOMAIN answers /\ j \in DOMAIN answers
      BY <1>5, <3>1 DEF AnsweredOnce
    <3>2. CASE i = Len(answers) + 1 /\ j \in DOMAIN answers
      BY <1>5, <2>2, <3>2
    <3>3. CASE j = Len(answers) + 1 /\ i \in DOMAIN answers
      BY <1>5, <2>2, <3>3
    <3> QED BY <1>5, <3>1, <3>2, <3>3
  <2>5. \A i \in DOMAIN replies', j \in DOMAIN answers' :
          replies'[i].id = answers'[j].id => replies'[i].id = 0
    <3> SUFFICES ASSUME NEW i \in DOMAIN replies', NEW j \in DOMAIN answers',
                        replies'[i].id = answers'[j].id
                 PROVE  replies'[i].id = 0
      OBVIOUS
    <3>1. CASE j \in DOMAIN answers
      BY <1>5, <3>1, RestOfReplies
    <3>2. CASE j = Len(answers) + 1
      BY <1>5, <3>2, RestOfReplies
    <3> QED BY <1>5, <3>1, <3>2
  <2>6. \A i \in DOMAIN answers' : answers'[i].id # 0 =>
          /\ answers'[i].id \in DOMAIN asked
          /\ chan.kind = "socks5" /\ answers'[i].alone =>
               answers'[i].from = to_normalized(asked[answers'[i].id].addr)
    <3>1. x.id # 0 => /\ x.id \in DOMAIN asked
                      /\ chan.kind = "socks5" /\ x.alone => x.from = to_normalized(asked[x.id].addr)
      BY FirstReply
    <3>2. \A i \in DOMAIN answers : answers[i].id # 0 =>
            /\ answers[i].id \in DOMAIN asked
            /\ chan.kind = "socks5" /\ answers[i].alone =>
                 answers[i].from = to_normalized(asked[answers[i].id].addr)
      BY DEF AnsweredOnce
    <3>3. \A i \in DOMAIN answers' : i \in DOMAIN answers \/ i = Len(answers) + 1
      BY <1>5
    <3> QED BY <1>5, <3>1, <3>2, <3>3
  <2>7. chan.kind = "socks5" =>
          \A i \in DOMAIN answers' : answers'[i].client = chan.client /\ chan.client # NoOne
    <3>1. x.client \in UdpClients
      BY DEF Answers
    <3> QED BY <1>5, <3>1, UdpAssumption DEF AnsweredOnce
  <2> QED BY <2>1, <2>3, <2>5, <2>6, <2>7 DEF AnsweredOnce
<1> QED BY <1>6, <1>7, <1>8

\* The state of the channel matters to nothing but its guards, and its send_buf
\* may be filled with the first reply.
LEMMA ChannelKeeps ==
    ASSUME UdpInv, chan' \in Channels, chan'.kind = chan.kind, chan'.client = chan.client,
           \/ chan'.send_buf = chan.send_buf
           \/ chan.kind = "socks5" /\ replies # <<>>
              /\ chan'.send_buf = <<pack_udp(replies[1].from, replies[1].id)>>,
           UNCHANGED <<socket, uplink, replies, asked, forwarded, answers>>
    PROVE  UdpInv'
<1> USE DEF UdpInv
<1>1. Arriving' = Arriving /\ Returning' = Returning
  BY DEF Arriving, Returning
<1>2. UdpTyped'
  BY <1>1 DEF UdpTyped, Packet
<1>3. BuffersCurrent'
  BY DEF BuffersCurrent, Packet
<1>4. AnsweredOnce' /\ SentOnce'
  BY DEF AnsweredOnce, SentOnce
<1> QED BY <1>2, <1>3, <1>4

\* A datagram of another sender comes to a client's socket, or is read.
LEMMA StrayKeeps ==
    ASSUME UdpInv, NEW c \in UdpClients, Stray(c) \/ PollRecvPending(c)
    PROVE  UdpInv'
<1> USE DEF UdpInv
<1>1. PICK y \in OneStray : socket' = [socket EXCEPT ![c].stray = y]
  BY DEF Stray, PollRecvPending, OneStray, Fragment, pack_udp
<1>2. UNCHANGED <<chan, uplink, replies, asked, forwarded, answers>>
  BY DEF Stray, PollRecvPending
<1>3. socket \in [UdpClients -> Sockets]
  BY DEF UdpTyped
<1>4. LET t == [socket[c] EXCEPT !.stray = y] IN
        /\ t \in Sockets /\ t.send_buf = socket[c].send_buf
        /\ t.packet = socket[c].packet /\ t.open = socket[c].open
  BY <1>3 DEF Sockets
<1>5. SocketsSettle
  BY <1>1, <1>3, <1>4 DEF SocketsSettle
<1>6. Arriving' = Arriving /\ Returning' = Returning
  BY <1>2 DEF Arriving, Returning
<1>7. UdpTyped'
  BY <1>2, <1>5, <1>6 DEF UdpTyped, Packet, SocketsSettle
<1>8. AnsweredOnce'
  BY <1>2 DEF AnsweredOnce
<1> QED BY <1>2, <1>5, <1>7, <1>8, SettleKeeps

LEMMA GiveReplySocks5Keeps ==
    ASSUME UdpInv, GiveReplySocks5
    PROVE  UdpInv'
<1> DEFINE r == Head(replies)
           buf == Packed(chan.send_buf, [addr |-> r.from, id |-> r.id])
<1>1. /\ UNCHANGED <<uplink, asked, forwarded>> /\ replies # <<>> /\ chan.kind = "socks5"
      /\ \/ chan' = [chan EXCEPT !.state = "ended"] /\ UNCHANGED <<socket, replies, answers>>
         \/ /\ chan.client # NoOne /\ chan' = [chan EXCEPT !.send_buf = buf]
            /\ UNCHANGED <<socket, replies, answers>>
         \/ /\ chan.client # NoOne
            /\ chan' = [chan EXCEPT !.send_buf = SentBuffer(buf)]
            /\ replies' = Tail(replies)
            /\ Receive(chan.client, Head(buf))
  BY DEF GiveReplySocks5
<1>2. r = replies[1] /\ r.from \in Sources /\ r.id \in Nat /\ (r.id # 0 => r.from.type = "sock")
  BY <1>1, FirstReply
<1> HIDE DEF r
<1>3. buf = <<pack_udp(r.from, r.id)>>
  BY <1>2 DEF Packed, UdpInv, BuffersCurrent
<1>4. buf \in OneReply /\ NoPacket \in OneReply /\ Head(buf) = pack_udp(r.from, r.id)
  BY <1>2, <1>3 DEF OneReply
<1>5. chan \in Channels
  BY DEF UdpInv, UdpTyped
<1> HIDE DEF buf
<1>6. CASE chan' = [chan EXCEPT !.state = "ended"] /\ UNCHANGED <<socket, replies, answers>>
  <2>1. /\ chan' \in Channels /\ chan'.kind = chan.kind /\ chan'.client = chan.client
        /\ chan'.send_buf = chan.send_buf
    BY <1>5, <1>6 DEF Channels
  <2> QED BY <1>1, <1>6, <2>1, ChannelKeeps
<1>7. CASE chan' = [chan EXCEPT !.send_buf = buf] /\ UNCHANGED <<socket, replies, answers>>
  <2>1. /\ chan' \in Channels /\ chan'.kind = chan.kind /\ chan'.client = chan.client
        /\ chan'.send_buf = buf
    BY <1>4, <1>5, <1>7 DEF Channels
  <2> QED BY <1>1, <1>2, <1>3, <1>7, <2>1, ChannelKeeps
<1>8. CASE /\ chan' = [chan EXCEPT !.send_buf = SentBuffer(buf)]
           /\ replies' = Tail(replies) /\ chan.client # NoOne
           /\ Receive(chan.client, Head(buf))
  <2>1. /\ chan' \in Channels /\ chan'.kind = chan.kind /\ chan'.client = chan.client
        /\ chan'.send_buf = NoPacket
    BY <1>4, <1>5, <1>8 DEF Channels, SentBuffer
  <2> DEFINE c == chan.client
             s == socket[c]
             from == RecvFrom(s, Head(buf))
             x == [client |-> c, id |-> Head(buf).id, from |-> from, alone |-> s.stray = NoPacket]
  <2>2. c \in UdpClients /\ socket \in [UdpClients -> Sockets] /\ s \in Sockets
    BY <1>5, <1>8 DEF Channels, UdpInv, UdpTyped
  <2>3. /\ socket' = [socket EXCEPT ![c] =
              IF ~s.open THEN s
              ELSE IF from = NoAddr THEN [s EXCEPT !.open = FALSE, !.packet = NoPacket]
              ELSE [s EXCEPT !.stray = NoPacket]]
        /\ answers' = IF ~s.open \/ from = NoAddr THEN answers ELSE Append(answers, x)
    BY <1>8 DEF Receive
  <2>4. /\ Head(buf).id = r.id /\ from \in Sources \cup {NoAddr}
        /\ s.stray = NoPacket /\ r.from.type = "sock" => from = r.from
    BY <1>2, <1>4, <2>2, SourceRead DEF pack_udp
  <2>5. SocketsSettle
    <3> HIDE DEF c, s, from, x
    <3>1. NoPacket \in OnePacket /\ NoPacket \in OneStray
      BY DEF OnePacket, OneStray
    <3>2. LET t == [s EXCEPT !.open = FALSE, !.packet = NoPacket] IN
            t \in Sockets /\ t.send_buf = s.send_buf /\ t.packet = NoPacket /\ t.open = FALSE
      BY <2>2, <3>1 DEF Sockets
    <3>3. LET t == [s EXCEPT !.stray = NoPacket] IN
            t \in Sockets /\ t.send_buf = s.send_buf /\ t.packet = s.packet /\ t.open = s.open
      BY <2>2, <3>1 DEF Sockets
    <3>4. PICK t \in Sockets :
            /\ socket' = [socket EXCEPT ![c] = t]
            /\ t.send_buf = s.send_buf
            /\ \/ t.packet = s.packet /\ t.open = s.open
               \/ t.packet = NoPacket /\ t.open = FALSE
      BY <2>2, <2>3, <3>2, <3>3
    <3> QED BY <2>2, <3>4 DEF SocketsSettle, s
  <2>6. CASE ~s.open \/ from = NoAddr
    <3>1. answers' = answers
      BY <2>3, <2>6
    <3> QED BY <1>1, <1>8, <2>1, <2>5, <3>1, ReplyLost
  <2>7. CASE s.open /\ from # NoAddr
    <3>1. answers' = Append(answers, x)
      BY <2>3, <2>7
    <3>2. x.id = r.id /\ x.client = chan.client /\ x.from = from /\ x.alone = (s.stray = NoPacket)
      BY <2>4
    <3> HIDE DEF from, s, c
    <3>3. (s.stray = NoPacket) \in BOOLEAN
      OBVIOUS
    <3>4. x \in Answers
      BY <1>2, <2>2, <2>4, <2>7, <3>3 DEF Answers
    <3> HIDE DEF x
    <3>5. x.id # 0 /\ chan.kind = "socks5" /\ x.alone => x.from = r.from
      BY <1>2, <2>4, <3>2
    <3> QED BY <1>1, <1>8, <2>1, <2>5, <3>1, <3>2, <3>4, <3>5, ReplyHandedOn DEF r
  <2> QED BY <2>6, <2>7
<1> QED BY <1>1, <1>6, <1>7, <1>8

LEMMA GiveReplyForwardKeeps ==
    ASSUME UdpInv, GiveReplyForward
    PROVE  UdpInv'
<1> DEFINE r == Head(replies)
           x == [client |-> chan.client, id |-> r.id, from |-> Own, alone |-> TRUE]
<1>1. /\ UNCHANGED <<chan, socket, uplink, asked, forwarded>> /\ replies # <<>>
      /\ replies' = Tail(replies) /\ chan.kind = "forward"
      /\ answers' = IF chan.client = NoOne THEN answers ELSE Append(answers, x)
  BY DEF GiveReplyForward
<1>2. r.id \in Nat
  BY <1>1, FirstReply
<1>3. chan \in Channels /\ chan.send_buf = NoPacket
  BY <1>1 DEF UdpInv, UdpTyped, BuffersCurrent
<1>4. SocketsSettle
  BY <1>1 DEF UdpInv, UdpTyped, SocketsSettle
<1>5. CASE chan.client # NoOne
  <2>1. chan.client \in UdpClients
    BY <1>3, <1>5 DEF Channels
  <2> HIDE DEF r
  <2>2. /\ x \in Answers
        /\ x.id = r.id /\ x.client = chan.client
    BY <1>2, <2>1 DEF Answers
  <2>3. answers' = Append(answers, x)
    BY <1>1, <1>5
  <2> HIDE DEF x
  <2> QED BY <1>1, <1>3, <1>4, <2>2, <2>3, ReplyHandedOn DEF r
<1>6. CASE chan.client = NoOne
  BY <1>1, <1>3, <1>4, <1>6, ReplyLost
<1> QED BY <1>5, <1>6

LEMMA UdpStepKeeps ==
    ASSUME UdpInv, UdpNext
    PROVE  UdpInv'
<1>1. ASSUME NEW c \in UdpClients,
             \/ SendPacket(c) \/ PollSend(c) \/ Stray(c) \/ PollRecvPending(c)
             \/ SendFragment(c) \/ SendPlain(c)
      PROVE  UdpInv'
  BY <1>1, SendPacketKeeps, PollSendKeeps, StrayKeeps, SendFragmentKeeps, SendPlainKeeps
<1>2. CASE CloseControl
  <2>1. UNCHANGED <<chan, socket, uplink, replies, asked, forwarded, answers>>
    BY <1>2 DEF CloseControl
  <2>2. chan \in Channels
    BY DEF UdpInv, UdpTyped
  <2> QED BY <2>1, <2>2, ChannelKeeps
<1> QED BY <1>1, <1>2, TakeSocks5Keeps, TakeForwardKeeps, PeerRepliesKeeps,
           GiveReplySocks5Keeps, GiveReplyForwardKeeps DEF UdpNext

LEMMA UdpSafe == UdpInv => DatagramsIntact
<1> SUFFICES ASSUME UdpInv PROVE DatagramsIntact
  OBVIOUS
<1>1. ASSUME NEW i \in DOMAIN forwarded
      PROVE  /\ forwarded[i].addr = asked[forwarded[i].id].addr
             /\ \A j \in DOMAIN forwarded : forwarded[i].id = forwarded[j].id => i = j
  BY KnownIds DEF UdpInv, SentOnce
<1>2. ASSUME NEW i \in {j \in DOMAIN answers : answers[j].id # 0}
      PROVE  /\ \A j \in DOMAIN answers : answers[i].id = answers[j].id => i = j
             /\ chan.kind = "socks5" =>
                  /\ answers[i].client = answers[1].client
                  /\ answers[i].alone => answers[i].from = to_normalized(asked[answers[i].id].addr)
  <2>1. answers \in Seq(Answers)
    BY DEF UdpInv, UdpTyped
  <2>2. 1 \in DOMAIN answers
    BY <2>1
  <2> QED BY <2>2 DEF UdpInv, AnsweredOnce
<1> QED BY <1>1, <1>2 DEF DatagramsIntact

-----------------------------------------------------------------------------
(* The TCP side of the proxies: where each end is in the two streams.      *)

Commands == {"socks5", "udp", "bind"}

\* All that a client writes: the handshake, then what its user writes; and all
\* that it is sent before the target's own messages.
Handshake(h) ==
    CASE h.client \in {"socks5", "eager"} ->
           <<Byte("ver"), Byte("noauth"), Msg("connect", ra2sa(h.ask))>>
      [] h.client = "udp" -> <<Byte("ver"), Byte("noauth"), Msg("udp", ra2sa(h.ask))>>
      [] h.client = "bind" -> <<Byte("ver"), Byte("noauth"), Msg("bind", ra2sa(h.ask))>>
      [] h.client = "password" -> <<Byte("ver"), Byte("password")>>
      [] h.client = "http" -> <<Byte("C"), Msg("CONNECT", Text(Display(h.ask)))>>
      [] h.client = "get" -> <<Byte("G"), Msg("GET", h.ask)>>
      [] OTHER -> <<>>
Written(h) == Handshake(h) \o (IF h.client \in {"get", "udp", "none"} THEN <<>> ELSE Data)
Welcome(h) ==
    CASE h.client \in {"socks5", "eager", "udp"} -> <<Byte("ver"), Byte("noauth"), Byte("success")>>
      [] h.client = "bind" -> <<Byte("ver"), Byte("noauth")>>
      [] h.client = "password" -> <<Byte("ver"), Byte("refused")>>
      [] h.client = "http" -> <<Byte("200")>>
      [] OTHER -> <<>>
Told(h) == Welcome(h) \o Banner

\* The stretch of a stream after its first a messages, up to message b.
Part(w, a, b) == SubSeq(w, a + 1, b)

\* After k operations of the script: how much the client has put into its
\* buffer, flushed, and read.
FirstWrite(h) ==
    IF h.client \in {"quiet", "raw", "none"} THEN 0
    ELSE IF h.client = "eager" THEN 3 + Len(Data) ELSE 2
Buffered(h, k) ==
    IF k = 0 THEN 0 ELSE IF h.client \in Commands /\ k >= 5 THEN 3 ELSE FirstWrite(h)
Flushed(h, k) ==
    IF k < 2 THEN 0 ELSE IF h.client \in Commands /\ k >= 6 THEN 3 ELSE FirstWrite(h)
Heard(h, k) ==
    IF h.client \in Commands
      THEN IF k < 3 THEN 0 ELSE IF k = 3 THEN 1 ELSE IF k < 7 THEN 2 ELSE 3
      ELSE IF k < 2 THEN 0 ELSE k - 2

\* The literals are strings, which the provers do not know.
Tags == STRING \cup {"ver", "noauth", "success", "refused", "error", "unsupported", "password",
                     "connect", "udp", "bind", "C", "CONNECT", "G", "GET", "200", "400"}
Mail(h) == [t : Tags, a : {NoAddr, h.ask, ra2sa(h.ask), Text(Display(h.ask))}]
Operation(h) == [op : {"write", "flush", "read", "close"}, ms : Seq(Mail(h))]
Points == {"off", "listen", "peek", "hello", "command", "request", "associate", "dial",
           "relay", "udp", "closed", "failed"}
TcpTyped ==
    /\ how \in Scenarios
    /\ client \in [script : Seq(Operation(how)), buf : Seq(Mail(how)), state : {"run", "failed"},
                   data : Seq(Mail(how)), got : Seq(Mail(how))]
    /\ server = [pc |-> server.pc, peeked |-> server.peeked, dst |-> server.dst]
    /\ server.pc \in Points /\ server.peeked \in Seq(Mail(how))
    /\ up \in Seq(Mail(how)) /\ down \in Seq(Mail(how))
    /\ remote = [addr |-> remote.addr, got |-> remote.got, data |-> remote.data]
    /\ remote.got \in Seq(Mail(how)) /\ remote.data \in Seq(Mail(how))

\* Where the client is in its script, and how much of what it writes it has sent.
Done == Len(Script(how)) - Len(client.script)
Sent == Flushed(how, Done) + (Len(Unwritten(how)) - Len(client.data))

ClientFollows ==
    /\ Len(client.script) <= Len(Script(how))
    /\ client.script = Part(Script(how), Done, Len(Script(how)))
    /\ client.buf = Part(Written(how), Flushed(how, Done), Buffered(how, Done))
    /\ Len(client.data) <= Len(Unwritten(how))
    /\ client.data = Part(Written(how), Len(Written(how)) - Len(client.data), Len(Written(how)))
    /\ client.script # <<>> => Len(client.data) = Len(Unwritten(how))

\* How much the server has taken from the client and given to it, by its point.
Over == server.pc \in {"closed", "failed"}
Taken ==
    CASE server.pc \in {"off", "listen", "peek", "hello"} -> {0}
      [] server.pc = "request" -> IF how.client = "get" THEN {0, 2} ELSE {0}
      [] server.pc = "command" -> {2}
      [] server.pc \in {"dial", "associate", "udp"} -> {Len(Handshake(how))}
      [] server.pc = "relay" -> {Len(Handshake(how)) + Len(remote.got)}
Given ==
    CASE server.pc \in {"off", "listen", "peek", "hello", "request"} -> 0
      [] server.pc \in {"command", "associate"} -> 2
      [] server.pc = "dial" -> IF how.client = "raw" THEN 0 ELSE IF how.client = "http" THEN 1 ELSE 2
      [] server.pc = "udp" -> 3
      [] server.pc = "relay" -> Len(Welcome(how)) + Len(Banner) - Len(remote.data)

UpFollows ==
    /\ server.pc \in {"off", "listen", "peek"} => server.peeked = <<>>
    /\ ~Over => \E n \in Taken : n <= Sent /\ In = Part(Written(how), n, Sent)

DownFollows ==
    ~Over /\ client.state = "run" /\ how.client # "get" =>
      LET heard == Given - Len(down) IN
        /\ Len(down) <= Given /\ down = Part(Told(how), heard, Given)
        /\ client.script # <<>> => heard = Heard(how, Done) /\ client.got = <<>>
        /\ client.script = <<>> =>
             /\ Len(client.got) + Len(Welcome(how)) <= heard
             /\ how.client # "http" => Len(client.got) + Len(Welcome(how)) = heard
             /\ client.got = Part(Told(how), heard - Len(client.got), heard)

RemoteFollows ==
    /\ server.pc = "relay" =>
         remote.got = Part(Written(how), Len(Handshake(how)), Len(Handshake(how)) + Len(remote.got))
    /\ Len(remote.data) <= Len(Banner)
    /\ remote.data = Part(Banner, Len(Banner) - Len(remote.data), Len(Banner))
    /\ server.pc # "relay" =>
         remote.data = Banner /\ (how.client # "get" => remote.got = <<>> /\ remote.addr = NoAddr)

Course ==
    CASE how.client \in {"socks5", "eager"} ->
           {"listen", "peek", "hello", "command", "dial", "relay", "failed"}
      [] how.client = "udp" ->
           {"listen", "peek", "hello", "command", "associate", "udp", "failed"}
           \cup (IF how.ask.type = "domain" THEN {"closed"} ELSE {})
      [] how.client \in {"bind", "password"} ->
           {"listen", "peek", "hello", "command", "failed", "closed"}
      [] how.client = "http" -> {"listen", "peek", "request", "dial", "relay", "failed"}
      [] how.client = "get" -> {"listen", "peek", "request", "dial", "failed", "closed"}
      [] how.client = "raw" -> {"listen", "dial", "relay", "failed"}
      [] how.client = "quiet" -> {"listen", "peek", "hello", "request", "failed", "closed"}
      [] how.client = "none" -> {"off"}

OnCourse ==
    /\ server.pc \in Course
    /\ "closed" \notin Course /\ client.state = "failed" => server.pc = "failed"
    /\ shut = Over

DialsWanted ==
    /\ server.pc = "dial" => to_normalized(server.dst) = Wanted
    /\ remote.addr # NoAddr => to_normalized(remote.addr) = Wanted

\* A client that is refused, or gives up at once, never gets to its user.
Unopened ==
    how.client \in {"password", "quiet"} /\ ~Over => client.script # <<>>

TcpInv ==
    /\ TcpTyped /\ ClientFollows /\ UpFollows /\ DownFollows /\ RemoteFollows
    /\ OnCourse /\ DialsWanted /\ Unopened

-----------------------------------------------------------------------------
(* Stretches of a stream.                                                  *)

LEMMA PartSeq ==
    ASSUME NEW S, NEW w \in Seq(S), NEW a \in Nat, NEW b \in Nat, a <= b, b <= Len(w)
    PROVE  Part(w, a, b) \in Seq(S) /\ Len(Part(w, a, b)) = b - a
  BY DEF Part

LEMMA PartItems ==
    ASSUME NEW S, NEW w \in Seq(S), NEW a \in Nat, NEW b \in Nat, a <= b, b <= Len(w)
    PROVE  \A i \in 1..(b - a) : Part(w, a, b)[i] = w[a + i]
  BY DEF Part

LEMMA PartEmpty ==
    ASSUME NEW S, NEW w \in Seq(S), NEW a \in Nat, NEW b \in Nat, a <= b, b <= Len(w)
    PROVE  Part(w, a, b) = <<>> <=> a = b
  BY DEF Part

LEMMA PartHead ==
    ASSUME NEW S, NEW w \in Seq(S), NEW a \in Nat, NEW b \in Nat, a < b, b <= Len(w)
    PROVE  Head(Part(w, a, b)) = w[a + 1] /\ Part(w, a, b)[1] = w[a + 1]
  BY DEF Part

LEMMA PartTail ==
    ASSUME NEW S, NEW w \in Seq(S), NEW a \in Nat, NEW b \in Nat, a < b, b <= Len(w)
    PROVE  Tail(Part(w, a, b)) = Part(w, a + 1, b)
  BY HeadTailOfSubSeq, a + 1 \in 1..Len(w), b \in (a + 1)..Len(w) DEF Part

LEMMA PartGlue ==
    ASSUME NEW S, NEW w \in Seq(S), NEW a \in Nat, NEW b \in Nat, NEW c \in Nat,
           a <= b, b <= c, c <= Len(w)
    PROVE  Part(w, a, b) \o Part(w, b, c) = Part(w, a, c)
  BY ConcatAdjacentSubSeq, a + 1 \in 1..(Len(w) + 1), b \in (a + 1 - 1)..Len(w), c \in b..Len(w) DEF Part

LEMMA PartOne ==
    ASSUME NEW S, NEW w \in Seq(S), NEW b \in Nat, b < Len(w)
    PROVE  Part(w, b, b + 1) = <<w[b + 1]>>
<1> DEFINE c == b + 1
           p == Part(w, b, c)
<1>1. c \in Nat /\ b <= c /\ c <= Len(w) /\ b < c /\ c - b = 1
  OBVIOUS
<1> HIDE DEF c
<1>2. p \in Seq(S) /\ Len(p) = c - b
  BY <1>1, PartSeq, Zenon
<1>3. p[1] = w[b + 1]
  BY <1>1, PartHead, Zenon
<1> HIDE DEF p
<1>4. p = <<w[b + 1]>>
  <2> DEFINE q == <<w[b + 1]>>
  <2>1. w[b + 1] \in S
    OBVIOUS
  <2>2. q \in Seq(S) /\ Len(q) = 1 /\ q[1] = w[b + 1]
    BY <2>1
  <2> HIDE DEF q
  <2>3. Len(p) = Len(q) /\ \A i \in 1..Len(p) : p[i] = q[i]
    BY <1>1, <1>2, <1>3, <2>2
  <2>4. p = q
    BY <1>2, <2>2, <2>3, SeqEqual
  <2> QED BY <2>4 DEF q
<1> QED BY <1>4 DEF p, c

LEMMA PartNext ==
    ASSUME NEW S, NEW w \in Seq(S), NEW a \in Nat, NEW b \in Nat, a <= b, b < Len(w)
    PROVE  Append(Part(w, a, b), w[b + 1]) = Part(w, a, b + 1)
<1> DEFINE c == b + 1
<1>1. c \in Nat /\ b <= c /\ c <= Len(w) /\ b <= Len(w) /\ w[b + 1] \in S
  OBVIOUS
<1>2. Part(w, a, b) \in Seq(S)
  BY <1>1, PartSeq, Zenon
<1>3. Append(Part(w, a, b), w[b + 1]) = Part(w, a, b) \o <<w[b + 1]>>
  BY <1>1, <1>2, AppendIsConcat, Zenon
<1>4. Part(w, b, c) = <<w[b + 1]>>
  BY PartOne
<1> HIDE DEF c
<1>5. Part(w, a, b) \o Part(w, b, c) = Part(w, a, c)
  BY <1>1, PartGlue, Zenon
<1> QED BY <1>3, <1>4, <1>5 DEF c

LEMMA PartDrop ==
    ASSUME NEW S, NEW w \in Seq(S), NEW a \in Nat, NEW b \in Nat, a <= b, b <= Len(w),
           NEW n \in 0..(b - a)
    PROVE  SubSeq(Part(w, a, b), n + 1, b - a) = Part(w, a + n, b)
<1> DEFINE p == Part(w, a, b)
           s == SubSeq(p, n + 1, b - a)
           t == Part(w, a + n, b)
<1>1. a + n \in Nat /\ a + n <= b
  OBVIOUS
<1>2. p \in Seq(S) /\ Len(p) = b - a
  BY PartSeq, Zenon
<1>3. t \in Seq(S) /\ Len(t) = b - (a + n)
  BY <1>1, PartSeq, Zenon
<1>4. \A i \in 1..(b - a) : p[i] = w[a + i]
  BY PartItems, Zenon
<1>5. \A i \in 1..(b - (a + n)) : t[i] = w[a + n + i]
  BY <1>1, PartItems, Zenon
<1> HIDE DEF t, p
<1>6. s \in Seq(S) /\ Len(s) = b - a - n /\ \A i \in 1..(b - a - n) : s[i] = p[n + i]
  BY <1>2
<1>7. Len(s) = Len(t) /\ \A i \in 1..Len(s) : s[i] = t[i]
  BY <1>3, <1>4, <1>5, <1>6
<1> HIDE DEF s
<1>8. s = t
  BY <1>3, <1>6, <1>7, SeqEqual
<1> QED BY <1>8 DEF s, t, p

LEMMA PartWhole ==
    ASSUME NEW S, NEW w \in Seq(S)
    PROVE  Part(w, 0, Len(w)) = w
  BY SubSeqFull DEF Part

-----------------------------------------------------------------------------
(* The clients' scripts.                                                   *)

Kinds == {"socks5", "eager", "udp", "bind", "password", "http", "get", "quiet", "raw", "none"}

LEMMA ScenarioForms ==
    ASSUME NEW h \in Scenarios
    PROVE  /\ h.client \in Kinds
           /\ h.client \in {"socks5", "eager", "udp", "bind", "password"} =>
                h.entry \in {"mixed", "socks5"} /\ h.ask \in Addresses
           /\ h.client = "http" => h.entry \in {"mixed", "http"} /\ h.ask \in Addresses
           /\ h.client = "get" => h.entry \in {"mixed", "http"} /\ h.ask \in Texts \cup {NoAddr}
           /\ h.client = "quiet" => h.entry \in {"mixed", "socks5", "http"}
           /\ h.client = "raw" => h.entry \in {"forward", "redir", "tproxy"} /\ h.ask \in Addresses
  BY ScenariosAssumption DEF Kinds

LEMMA MailForms ==
    ASSUME NEW h, NEW x \in Tags
    PROVE  /\ Byte(x) \in Mail(h) /\ Byte(x).t = x
           /\ Msg(x, ra2sa(h.ask)) \in Mail(h) /\ Msg(x, h.ask) \in Mail(h)
           /\ Msg(x, Text(Display(h.ask))) \in Mail(h)
           /\ Data \in Seq(Mail(h)) /\ Banner \in Seq(Mail(h))
<1>1. Payloads \subseteq Mail(h)
  BY DEF Payloads, Mail, Tags
<1>2. Data \in Seq(Payloads) /\ Banner \in Seq(Payloads)
  BY ScenariosAssumption
<1> HIDE DEF Payloads
<1>3. Data \in Seq(Mail(h)) /\ Banner \in Seq(Mail(h))
  BY <1>1, <1>2, WiderSeq
<1> QED BY <1>3 DEF Byte, Msg, Mail

\* The two streams of each client.
LEMMA StreamForms ==
    ASSUME NEW h \in Scenarios
    PROVE  /\ Handshake(h) \in Seq(Mail(h)) /\ Welcome(h) \in Seq(Mail(h))
           /\ Len(Handshake(h)) = IF h.client \in Commands \cup {"eager"} THEN 3
                                  ELSE IF h.client \in {"password", "http", "get"} THEN 2 ELSE 0
           /\ Len(Welcome(h)) = IF h.client \in {"socks5", "eager", "udp"} THEN 3
                                ELSE IF h.client \in {"bind", "password"} THEN 2
                                ELSE IF h.client = "http" THEN 1 ELSE 0
           /\ h.client \in Commands \cup {"eager"} =>
                /\ Handshake(h)[1] = Byte("ver") /\ Handshake(h)[2] = Byte("noauth")
                /\ Handshake(h)[3] = Msg(IF h.client = "eager" \/ h.client = "socks5" THEN "connect"
                                         ELSE h.client, ra2sa(h.ask))
           /\ h.client = "password" => Handshake(h) = <<Byte("ver"), Byte("password")>>
           /\ h.client = "http" => Handshake(h) = <<Byte("C"), Msg("CONNECT", Text(Display(h.ask)))>>
           /\ h.client = "get" => Handshake(h) = <<Byte("G"), Msg("GET", h.ask)>>
           /\ h.client \in Commands \cup {"eager"} =>
                Welcome(h)[1] = Byte("ver") /\ Welcome(h)[2] = Byte("noauth")
           /\ h.client \in {"socks5", "eager", "udp"} => Welcome(h)[3] = Byte("success")
           /\ h.client = "password" => Welcome(h)[1] = Byte("ver") /\ Welcome(h)[2] = Byte("refused")
           /\ h.client = "http" => Welcome(h)[1] = Byte("200")
<1> USE DEF Commands
<1> DEFINE M == Mail(h)
<1>0. /\ Byte("ver") \in M /\ Byte("noauth") \in M /\ Byte("success") \in M /\ Byte("refused") \in M
      /\ Byte("password") \in M /\ Byte("C") \in M /\ Byte("G") \in M /\ Byte("200") \in M
      /\ Msg("connect", ra2sa(h.ask)) \in M /\ Msg("udp", ra2sa(h.ask)) \in M
      /\ Msg("bind", ra2sa(h.ask)) \in M /\ Msg("GET", h.ask) \in M
      /\ Msg("CONNECT", Text(Display(h.ask))) \in M
  <2>1. \A x \in Tags : /\ Byte(x) \in M /\ Msg(x, ra2sa(h.ask)) \in M /\ Msg(x, h.ask) \in M
                          /\ Msg(x, Text(Display(h.ask))) \in M
    BY MailForms
  <2> HIDE DEF M
  <2> QED BY <2>1 DEF Tags
<1>00. h.client \in Kinds
  BY ScenarioForms
<1> HIDE DEF M
<1>1. CASE h.client \in {"socks5", "eager"}
  <2>1. Handshake(h) = <<Byte("ver"), Byte("noauth"), Msg("connect", ra2sa(h.ask))>>
    BY <1>1 DEF Handshake
  <2>2. Welcome(h) = <<Byte("ver"), Byte("noauth"), Byte("success")>>
    BY <1>1 DEF Welcome
  <2>3. /\ Handshake(h) \in Seq(M) /\ Len(Handshake(h)) = 3
        /\ Handshake(h)[1] = Byte("ver") /\ Handshake(h)[2] = Byte("noauth") /\ Handshake(h)[3] = Msg("connect", ra2sa(h.ask))
    BY <2>1, <1>0
  <2>4. /\ Welcome(h) \in Seq(M) /\ Len(Welcome(h)) = 3
        /\ Welcome(h)[1] = Byte("ver") /\ Welcome(h)[2] = Byte("noauth") /\ Welcome(h)[3] = Byte("success")
    BY <2>2, <1>0
  <2> QED BY <1>1, <2>1, <2>3, <2>4 DEF M
<1>2. CASE h.client = "udp"
  <2>1. Handshake(h) = <<Byte("ver"), Byte("noauth"), Msg("udp", ra2sa(h.ask))>>
    BY <1>2 DEF Handshake
  <2>2. Welcome(h) = <<Byte("ver"), Byte("noauth"), Byte("success")>>
    BY <1>2 DEF Welcome
  <2>3. /\ Handshake(h) \in Seq(M) /\ Len(Handshake(h)) = 3
        /\ Handshake(h)[1] = Byte("ver") /\ Handshake(h)[2] = Byte("noauth") /\ Handshake(h)[3] = Msg("udp", ra2sa(h.ask))
    BY <2>1, <1>0
  <2>4. /\ Welcome(h) \in Seq(M) /\ Len(Welcome(h)) = 3
        /\ Welcome(h)[1] = Byte("ver") /\ Welcome(h)[2] = Byte("noauth") /\ Welcome(h)[3] = Byte("success")
    BY <2>2, <1>0
  <2> QED BY <1>2, <2>1, <2>3, <2>4 DEF M
<1>3. CASE h.client = "bind"
  <2>1. Handshake(h) = <<Byte("ver"), Byte("noauth"), Msg("bind", ra2sa(h.ask))>>
    BY <1>3 DEF Handshake
  <2>2. Welcome(h) = <<Byte("ver"), Byte("noauth")>>
    BY <1>3 DEF Welcome
  <2>3. /\ Handshake(h) \in Seq(M) /\ Len(Handshake(h)) = 3
        /\ Handshake(h)[1] = Byte("ver") /\ Handshake(h)[2] = Byte("noauth") /\ Handshake(h)[3] = Msg("bind", ra2sa(h.ask))
    BY <2>1, <1>0
  <2>4. /\ Welcome(h) \in Seq(M) /\ Len(Welcome(h)) = 2
        /\ Welcome(h)[1] = Byte("ver") /\ Welcome(h)[2] = Byte("noauth")
    BY <2>2, <1>0
  <2> QED BY <1>3, <2>1, <2>3, <2>4 DEF M
<1>4. CASE h.client = "password"
  <2>1. Handshake(h) = <<Byte("ver"), Byte("password")>>
    BY <1>4 DEF Handshake
  <2>2. Welcome(h) = <<Byte("ver"), Byte("refused")>>
    BY <1>4 DEF Welcome
  <2>3. /\ Handshake(h) \in Seq(M) /\ Len(Handshake(h)) = 2
        /\ Handshake(h)[1] = Byte("ver") /\ Handshake(h)[2] = Byte("password")
    BY <2>1, <1>0
  <2>4. /\ Welcome(h) \in Seq(M) /\ Len(Welcome(h)) = 2
        /\ Welcome(h)[1] = Byte("ver") /\ Welcome(h)[2] = Byte("refused")
    BY <2>2, <1>0
  <2> QED BY <1>4, <2>1, <2>3, <2>4 DEF M
<1>5. CASE h.client = "http"
  <2>1. Handshake(h) = <<Byte("C"), Msg("CONNECT", Text(Display(h.ask)))>>
    BY <1>5 DEF Handshake
  <2>2. Welcome(h) = <<Byte("200")>>
    BY <1>5 DEF Welcome
  <2>3. /\ Handshake(h) \in Seq(M) /\ Len(Handshake(h)) = 2
        /\ Handshake(h)[1] = Byte("C") /\ Handshake(h)[2] = Msg("CONNECT", Text(Display(h.ask)))
    BY <2>1, <1>0
  <2>4. /\ Welcome(h) \in Seq(M) /\ Len(Welcome(h)) = 1
        /\ Welcome(h)[1] = Byte("200")
    BY <2>2, <1>0
  <2> QED BY <1>5, <2>1, <2>3, <2>4 DEF M
<1>6. CASE h.client = "get"
  <2>1. Handshake(h) = <<Byte("G"), Msg("GET", h.ask)>>
    BY <1>6 DEF Handshake
  <2>2. Welcome(h) = <<>>
    BY <1>6 DEF Welcome
  <2>3. /\ Handshake(h) \in Seq(M) /\ Len(Handshake(h)) = 2
        /\ Handshake(h)[1] = Byte("G") /\ Handshake(h)[2] = Msg("GET", h.ask)
    BY <2>1, <1>0
  <2> QED BY <1>6, <2>1, <2>2, <2>3 DEF M
<1>7. CASE h.client \in {"quiet", "raw", "none"}
  <2>1. Handshake(h) = <<>>
    BY <1>7 DEF Handshake
  <2>2. Welcome(h) = <<>>
    BY <1>7 DEF Welcome
  <2> QED BY <1>7, <2>1, <2>2 DEF M
<1> QED BY <1>00, <1>1, <1>2, <1>3, <1>4, <1>5, <1>6, <1>7 DEF Kinds

LEMMA WrittenForms ==
    ASSUME NEW h \in Scenarios
    PROVE  /\ Written(h) \in Seq(Mail(h)) /\ Told(h) \in Seq(Mail(h))
           /\ h.client \in {"get", "udp", "none"} => Len(Written(h)) = Len(Handshake(h))
           /\ h.client \notin {"get", "udp", "none"} => Len(Written(h)) = Len(Handshake(h)) + Len(Data)
           /\ \A i \in 1..Len(Handshake(h)) : Written(h)[i] = Handshake(h)[i]
           /\ Len(Told(h)) = Len(Welcome(h)) + Len(Banner)
           /\ \A i \in 1..Len(Welcome(h)) : Told(h)[i] = Welcome(h)[i]
           /\ \A i \in 1..Len(Banner) : Told(h)[Len(Welcome(h)) + i] = Banner[i]
           /\ h.client \notin {"get", "udp", "none"} =>
                \A i \in 1..Len(Data) : Written(h)[Len(Handshake(h)) + i] = Data[i]
           /\ Unwritten(h) \in Seq(Mail(h))
           /\ h.client \in {"eager", "get", "udp", "none"} => Len(Unwritten(h)) = 0
           /\ h.client \notin {"eager", "get", "udp", "none"} => Len(Unwritten(h)) = Len(Data)
           /\ Len(Data) \in Nat /\ Len(Banner) \in Nat
<1> DEFINE S == Mail(h)
           x == Handshake(h)
           y == Welcome(h)
           d == IF h.client \in {"get", "udp", "none"} THEN <<>> ELSE Data
<1>1. x \in Seq(S) /\ y \in Seq(S)
  BY StreamForms
<1>2. Data \in Seq(S) /\ Banner \in Seq(S)
  BY MailForms DEF Tags
<1>3. /\ d \in Seq(S) /\ (h.client \in {"get", "udp", "none"} => Len(d) = 0)
      /\ h.client \notin {"get", "udp", "none"} => Len(d) = Len(Data)
  BY <1>2
<1>4. Written(h) = x \o d /\ Told(h) = y \o Banner
  BY DEF Written, Told
<1>5. h.client \notin {"get", "udp", "none"} => d = Data
  OBVIOUS
<1>6. Unwritten(h) = IF h.client \in {"eager", "get", "udp", "none"} THEN <<>> ELSE Data
  BY DEF Unwritten
<1> HIDE DEF x, y, d, S
<1>7. /\ x \o d \in Seq(S) /\ Len(x \o d) = Len(x) + Len(d)
      /\ \A i \in 1..Len(x) : (x \o d)[i] = x[i]
      /\ \A i \in 1..Len(d) : (x \o d)[Len(x) + i] = d[i]
  BY <1>1, <1>3
<1>8. /\ y \o Banner \in Seq(S) /\ Len(y \o Banner) = Len(y) + Len(Banner)
      /\ \A i \in 1..Len(y) : (y \o Banner)[i] = y[i]
      /\ \A i \in 1..Len(Banner) : (y \o Banner)[Len(y) + i] = Banner[i]
  BY <1>1, <1>2
<1>9. /\ Unwritten(h) \in Seq(S)
      /\ h.client \in {"eager", "get", "udp", "none"} => Len(Unwritten(h)) = 0
      /\ h.client \notin {"eager", "get", "udp", "none"} => Len(Unwritten(h)) = Len(Data)
  BY <1>2, <1>6
<1>10. Len(Data) \in Nat /\ Len(Banner) \in Nat
  BY <1>2
<1>11. h.client \notin {"get", "udp", "none"} =>
                \A i \in 1..Len(Data) : (x \o d)[Len(x) + i] = Data[i]
  BY <1>5, <1>7
<1>12. /\ h.client \in {"get", "udp", "none"} => Len(x \o d) = Len(x)
       /\ h.client \notin {"get", "udp", "none"} => Len(x \o d) = Len(x) + Len(Data)
  <2>1. Len(x) \in Nat /\ Len(d) \in Nat
    BY <1>1, <1>3
  <2> QED BY <1>3, <1>7, <2>1
<1> QED BY <1>4, <1>7, <1>8, <1>9, <1>10, <1>11, <1>12 DEF x, y, S

LEMMA OperationForms ==
    ASSUME NEW h, NEW ms \in Seq(Mail(h)), NEW m \in Mail(h)
    PROVE  /\ Write(ms) \in Operation(h) /\ Write(ms).op = "write" /\ Write(ms).ms = ms
           /\ Flush \in Operation(h) /\ Flush.op = "flush"
           /\ [op |-> "read", ms |-> <<m>>] \in Operation(h)
           /\ [op |-> "close", ms |-> <<>>] \in Operation(h)
<1> DEFINE none == <<>>
           one == <<m>>
<1>1. none \in Seq(Mail(h)) /\ one \in Seq(Mail(h))
  OBVIOUS
<1>2. Flush = [op |-> "flush", ms |-> none]
  BY DEF Flush
<1> HIDE DEF none, one
<1>3. [op |-> "read", ms |-> one] \in Operation(h) /\ [op |-> "close", ms |-> none] \in Operation(h)
  BY <1>1 DEF Operation
<1>4. Flush \in Operation(h) /\ Flush.op = "flush"
  BY <1>1, <1>2 DEF Operation
<1>5. Write(ms) \in Operation(h) /\ Write(ms).op = "write" /\ Write(ms).ms = ms
  BY DEF Write, Operation
<1> QED BY <1>3, <1>4, <1>5 DEF none, one

\* The scripts operation by operation.
Wrote(o, ms) == o.op = "write" /\ o.ms = ms
Reads(o, x) == o.op = "read" /\ Head(o.ms) = Byte(x)
LEMMA ReadForms ==
    ASSUME NEW h, NEW y \in Tags
    PROVE  Read(y) \in Operation(h) /\ Reads(Read(y), y)
<1> DEFINE m == Byte(y)
           ms == <<m>>
<1>1. m \in Mail(h)
  BY MailForms
<1>2. Read(y) = [op |-> "read", ms |-> ms]
  BY DEF Read
<1> HIDE DEF m
<1>3. ms \in Seq(Mail(h)) /\ Head(ms) = m
  BY <1>1
<1> HIDE DEF ms
<1>4. [op |-> "read", ms |-> ms] \in Operation(h)
  BY <1>3 DEF Operation
<1> QED BY <1>2, <1>3, <1>4 DEF Reads, m

LEMMA CommandScript ==
    ASSUME NEW h, NEW x \in Tags
    PROVE  LET s == send_command(x, h.ask) IN
           /\ s \in Seq(Operation(h)) /\ Len(s) = 7
           /\ Wrote(s[1], <<Byte("ver"), Byte("noauth")>>) /\ s[2].op = "flush"
           /\ Reads(s[3], "ver") /\ Reads(s[4], "noauth")
           /\ Wrote(s[5], <<Msg(x, ra2sa(h.ask))>>) /\ s[6].op = "flush"
           /\ Reads(s[7], "success")
<1> DEFINE w1 == <<Byte("ver"), Byte("noauth")>>
           w2 == <<Msg(x, ra2sa(h.ask))>>
           s == send_command(x, h.ask)
<1>1. \A y \in Tags : /\ Byte(y) \in Mail(h) /\ Msg(y, ra2sa(h.ask)) \in Mail(h)
                      /\ Read(y) \in Operation(h) /\ Reads(Read(y), y)
  BY MailForms, ReadForms
<1>2. w1 \in Seq(Mail(h)) /\ w2 \in Seq(Mail(h))
  BY <1>1 DEF Tags
<1>3. s = <<Write(w1), Flush, Read("ver"), Read("noauth"), Write(w2), Flush, Read("success")>>
  BY DEF send_command
<1> HIDE DEF w1, w2, s
<1>4. /\ Write(w1) \in Operation(h) /\ Write(w2) \in Operation(h) /\ Flush \in Operation(h)
      /\ Wrote(Write(w1), w1) /\ Wrote(Write(w2), w2) /\ Flush.op = "flush"
  BY <1>1, <1>2, OperationForms DEF Wrote
<1>5. \A y \in {"ver", "noauth", "success"} : Read(y) \in Operation(h) /\ Reads(Read(y), y)
  BY <1>1 DEF Tags
<1>6. /\ s \in Seq(Operation(h)) /\ Len(s) = 7
      /\ s[1] = Write(w1) /\ s[2] = Flush /\ s[3] = Read("ver") /\ s[4] = Read("noauth")
      /\ s[5] = Write(w2) /\ s[6] = Flush /\ s[7] = Read("success")
  BY <1>3, <1>4, <1>5
<1> QED BY <1>4, <1>5, <1>6 DEF w1, w2, s

LEMMA EagerScript ==
    ASSUME NEW h \in Scenarios, h.client = "eager"
    PROVE  LET s == Script(h) IN
           /\ s \in Seq(Operation(h)) /\ Len(s) = 5
           /\ Wrote(s[1], Written(h)) /\ s[2].op = "flush"
           /\ Reads(s[3], "ver") /\ Reads(s[4], "noauth") /\ Reads(s[5], "success")
<1> DEFINE w == Written(h)
           s == Script(h)
<1>1. \A y \in Tags : Byte(y) \in Mail(h) /\ Read(y) \in Operation(h) /\ Reads(Read(y), y)
  BY MailForms, ReadForms
<1>2. w \in Seq(Mail(h))
  BY WrittenForms
<1>3. s = <<Write(w), Flush, Read("ver"), Read("noauth"), Read("success")>>
  <2>1. w = <<Byte("ver"), Byte("noauth"), Msg("connect", ra2sa(h.ask))>> \o Data
    BY DEF Written, Handshake
  <2> HIDE DEF w
  <2> QED BY <2>1 DEF Script
<1> HIDE DEF w, s
<1>4. Write(w) \in Operation(h) /\ Flush \in Operation(h) /\ Wrote(Write(w), w) /\ Flush.op = "flush"
  BY <1>1, <1>2, OperationForms DEF Wrote, Tags
<1>5. \A y \in {"ver", "noauth", "success"} : Read(y) \in Operation(h) /\ Reads(Read(y), y)
  BY <1>1 DEF Tags
<1>6. /\ s \in Seq(Operation(h)) /\ Len(s) = 5
      /\ s[1] = Write(w) /\ s[2] = Flush /\ s[3] = Read("ver") /\ s[4] = Read("noauth")
      /\ s[5] = Read("success")
  BY <1>3, <1>4, <1>5
<1> QED BY <1>4, <1>5, <1>6 DEF w, s

LEMMA PasswordScript ==
    ASSUME NEW h \in Scenarios, h.client = "password"
    PROVE  LET s == Script(h) IN
           /\ s \in Seq(Operation(h)) /\ Len(s) = 4
           /\ Wrote(s[1], Handshake(h)) /\ s[2].op = "flush"
           /\ Reads(s[3], "ver") /\ Reads(s[4], "noauth")
<1> DEFINE w == Handshake(h)
           s == Script(h)
<1>1. \A y \in Tags : Byte(y) \in Mail(h) /\ Read(y) \in Operation(h) /\ Reads(Read(y), y)
  BY MailForms, ReadForms
<1>2. w \in Seq(Mail(h))
  BY StreamForms
<1>3. s = <<Write(w), Flush, Read("ver"), Read("noauth")>>
  <2>1. w = <<Byte("ver"), Byte("password")>>
    BY DEF Handshake
  <2> HIDE DEF w
  <2> QED BY <2>1 DEF Script
<1> HIDE DEF w, s
<1>4. Write(w) \in Operation(h) /\ Flush \in Operation(h) /\ Wrote(Write(w), w) /\ Flush.op = "flush"
  BY <1>1, <1>2, OperationForms DEF Wrote, Tags
<1>5. \A y \in {"ver", "noauth"} : Read(y) \in Operation(h) /\ Reads(Read(y), y)
  BY <1>1 DEF Tags
<1>6. /\ s \in Seq(Operation(h)) /\ Len(s) = 4
      /\ s[1] = Write(w) /\ s[2] = Flush /\ s[3] = Read("ver") /\ s[4] = Read("noauth")
  BY <1>3, <1>4, <1>5
<1> QED BY <1>4, <1>5, <1>6 DEF w, s

LEMMA HttpScript ==
    ASSUME NEW h \in Scenarios, h.client \in {"http", "get"}
    PROVE  LET s == Script(h) IN
           /\ s \in Seq(Operation(h)) /\ Len(s) = 3
           /\ Wrote(s[1], Handshake(h)) /\ s[2].op = "flush" /\ Reads(s[3], "200")
<1> DEFINE w == Handshake(h)
           s == Script(h)
<1>1. \A y \in Tags : Byte(y) \in Mail(h) /\ Read(y) \in Operation(h) /\ Reads(Read(y), y)
  BY MailForms, ReadForms
<1>2. w \in Seq(Mail(h))
  BY StreamForms
<1>3. s = <<Write(w), Flush, Read("200")>>
  <2>1. CASE h.client = "http"
    <3>1. w = <<Byte("C"), Msg("CONNECT", Text(Display(h.ask)))>>
      BY <2>1 DEF Handshake
    <3> HIDE DEF w
    <3> QED BY <2>1, <3>1 DEF Script, HttpConnect
  <2>2. CASE h.client = "get"
    <3>1. w = <<Byte("G"), Msg("GET", h.ask)>>
      BY <2>2 DEF Handshake
    <3> HIDE DEF w
    <3> QED BY <2>2, <3>1 DEF Script
  <2> QED BY <2>1, <2>2
<1> HIDE DEF w, s
<1>4. Write(w) \in Operation(h) /\ Flush \in Operation(h) /\ Wrote(Write(w), w) /\ Flush.op = "flush"
  BY <1>1, <1>2, OperationForms DEF Wrote, Tags
<1>5. Read("200") \in Operation(h) /\ Reads(Read("200"), "200")
  BY <1>1 DEF Tags
<1>6. /\ s \in Seq(Operation(h)) /\ Len(s) = 3
      /\ s[1] = Write(w) /\ s[2] = Flush /\ s[3] = Read("200")
  BY <1>3, <1>4, <1>5
<1> QED BY <1>4, <1>5, <1>6 DEF w, s

LEMMA QuietScript ==
    ASSUME NEW h \in Scenarios, h.client = "quiet"
    PROVE  Script(h) \in Seq(Operation(h)) /\ Len(Script(h)) = 1 /\ Script(h)[1].op = "close"
<1> DEFINE o == [op |-> "close", ms |-> <<>>]
<1>1. Script(h) = <<o>>
  BY DEF Script
<1>2. o.op = "close"
  OBVIOUS
<1>3. o \in Operation(h)
  <2> DEFINE none == <<>>
  <2>1. none \in Seq(Mail(h))
    OBVIOUS
  <2> HIDE DEF none
  <2>2. [op |-> "close", ms |-> none] \in Operation(h)
    BY <2>1 DEF Operation
  <2> QED BY <2>2 DEF none
<1> HIDE DEF o
<1> QED BY <1>1, <1>2, <1>3

LEMMA ScriptForms ==
    ASSUME NEW h \in Scenarios
    PROVE  /\ Script(h) \in Seq(Operation(h))
           /\ Len(Script(h)) = IF h.client \in Commands THEN 7 ELSE IF h.client = "eager" THEN 5
                               ELSE IF h.client = "password" THEN 4
                               ELSE IF h.client \in {"http", "get"} THEN 3
                               ELSE IF h.client = "quiet" THEN 1 ELSE 0
<1>1. CASE h.client \in Commands
  <2>1. PICK x \in {"connect", "udp", "bind"} : Script(h) = send_command(x, h.ask)
    BY <1>1 DEF Commands, Script
  <2>2. x \in Tags
    BY DEF Tags
  <2>3. send_command(x, h.ask) \in Seq(Operation(h)) /\ Len(send_command(x, h.ask)) = 7
    BY <2>2, CommandScript
  <2> QED BY <1>1, <2>1, <2>3
<1>2. CASE h.client \in {"raw", "none"}
  <2>1. Script(h) = <<>>
    BY <1>2 DEF Script
  <2> QED BY <1>2, <2>1 DEF Commands
<1>3. h.client \in Kinds
  BY ScenarioForms
<1> QED BY <1>1, <1>2, <1>3, EagerScript, PasswordScript, HttpScript, QuietScript DEF Kinds, Commands

\* The tables of a client's progress are right at both ends and in order.
LEMMA Progress ==
    ASSUME NEW h \in Scenarios, NEW k \in 0..Len(Script(h))
    PROVE  /\ Flushed(h, k) \in Nat /\ Buffered(h, k) \in Nat /\ Heard(h, k) \in Nat
           /\ Flushed(h, k) <= Buffered(h, k)
           /\ Buffered(h, k) <= Len(Written(h)) - Len(Unwritten(h))
           /\ Len(Written(h)) \in Nat /\ Len(Unwritten(h)) \in Nat /\ Len(Unwritten(h)) <= Len(Written(h))
           /\ k = 0 => Flushed(h, k) = 0 /\ Buffered(h, k) = 0 /\ Heard(h, k) = 0
           /\ k = Len(Script(h)) =>
                /\ Buffered(h, k) = Flushed(h, k)
                /\ Flushed(h, k) = Len(Written(h)) - Len(Unwritten(h))
                /\ h.client \in {"socks5", "eager", "udp", "http", "raw"} => Heard(h, k) = Len(Welcome(h))
                /\ h.client \in {"bind", "password"} => Heard(h, k) >= 2
<1>1. /\ h.client \in {"get", "udp", "none"} => Len(Written(h)) = Len(Handshake(h))
      /\ h.client \notin {"get", "udp", "none"} => Len(Written(h)) = Len(Handshake(h)) + Len(Data)
      /\ h.client \in {"eager", "get", "udp", "none"} => Len(Unwritten(h)) = 0
      /\ h.client \notin {"eager", "get", "udp", "none"} => Len(Unwritten(h)) = Len(Data)
      /\ Len(Data) \in Nat
  BY WrittenForms
<1>2. /\ Len(Handshake(h)) = IF h.client \in Commands \cup {"eager"} THEN 3
                             ELSE IF h.client \in {"password", "http", "get"} THEN 2 ELSE 0
      /\ Len(Welcome(h)) = IF h.client \in {"socks5", "eager", "udp"} THEN 3
                           ELSE IF h.client \in {"bind", "password"} THEN 2
                           ELSE IF h.client = "http" THEN 1 ELSE 0
  BY StreamForms
<1>3. Len(Script(h)) = IF h.client \in Commands THEN 7 ELSE IF h.client = "eager" THEN 5
                       ELSE IF h.client = "password" THEN 4
                       ELSE IF h.client \in {"http", "get"} THEN 3
                       ELSE IF h.client = "quiet" THEN 1 ELSE 0
  BY ScriptForms
<1>4. h.client \in Kinds
  BY ScenarioForms
<1> USE DEF Buffered, Flushed, Heard, FirstWrite
<1>5. CASE h.client \in Commands
  <2>0. Len(Handshake(h)) = 3 /\ h.client \in {"socks5", "udp", "bind"}
    BY <1>2, <1>5 DEF Commands
  <2>1. /\ Len(Script(h)) = 7 /\ Len(Written(h)) - Len(Unwritten(h)) = 3
        /\ Len(Written(h)) \in Nat /\ Len(Unwritten(h)) \in Nat
        /\ h.client \notin {"quiet", "raw", "none", "eager"}
    <3>1. CASE h.client = "udp"
      BY <1>1, <1>3, <1>5, <2>0, <3>1
    <3>2. CASE h.client \in {"socks5", "bind"}
      BY <1>1, <1>3, <1>5, <2>0, <3>2
    <3> QED BY <2>0, <3>1, <3>2
  <2>2. /\ h.client \in {"socks5", "udp"} => Len(Welcome(h)) = 3
        /\ h.client \in {"socks5", "eager", "udp", "http", "raw"} => h.client \in {"socks5", "udp"}
    BY <1>2, <1>5 DEF Commands
  <2> QED BY <1>5, <2>1, <2>2
<1>6. CASE h.client = "eager"
  BY <1>1, <1>2, <1>3, <1>6 DEF Commands
<1>7. CASE h.client \in {"password", "http", "get"}
  <2>0. Len(Handshake(h)) = 2
    BY <1>2, <1>7 DEF Commands
  <2>1. /\ Len(Written(h)) - Len(Unwritten(h)) = 2
        /\ Len(Written(h)) \in Nat /\ Len(Unwritten(h)) \in Nat
        /\ h.client \notin {"quiet", "raw", "none", "eager"} /\ h.client \notin Commands
        /\ Len(Script(h)) = IF h.client = "password" THEN 4 ELSE 3
        /\ h.client = "http" => Len(Welcome(h)) = 1
    <3>1. CASE h.client = "get"
      BY <1>1, <1>3, <2>0, <3>1 DEF Commands
    <3>2. CASE h.client = "password"
      BY <1>1, <1>3, <2>0, <3>2 DEF Commands
    <3>3. CASE h.client = "http"
      BY <1>1, <1>2, <1>3, <2>0, <3>3 DEF Commands
    <3> QED BY <1>7, <3>1, <3>2, <3>3
  <2>2. CASE h.client = "password"
    BY <2>1, <2>2
  <2>3. CASE h.client = "http"
    <3>1. Len(Script(h)) = 3 /\ Len(Welcome(h)) = 1 /\ k \in {0, 1, 2, 3}
      BY <2>1, <2>3
    <3>2. Heard(h, k) = IF k < 2 THEN 0 ELSE k - 2
      BY <2>1
    <3> HIDE DEF Heard
    <3> QED BY <2>1, <2>3, <3>1, <3>2
  <2>4. CASE h.client = "get"
    BY <2>1, <2>4
  <2> QED BY <1>7, <2>2, <2>3, <2>4
<1>8. CASE h.client \in {"quiet", "raw", "none"}
  <2>1. /\ Len(Written(h)) - Len(Unwritten(h)) = 0
        /\ Len(Written(h)) \in Nat /\ Len(Unwritten(h)) \in Nat
        /\ h.client \notin Commands
        /\ Len(Script(h)) = IF h.client = "quiet" THEN 1 ELSE 0
        /\ Len(Welcome(h)) = 0
    BY <1>1, <1>2, <1>3, <1>8 DEF Commands
  <2> QED BY <1>8, <2>1
<1> QED BY <1>4, <1>5, <1>6, <1>7, <1>8 DEF Kinds, Commands

\* What operation k + 1 of a script does.
Does(h, k, o) ==
    /\ o.op \in {"write", "flush", "read", "close"}
    /\ o.op = "write" =>
         /\ o.ms = Part(Written(h), Buffered(h, k), Buffered(h, k + 1))
         /\ Buffered(h, k) <= Buffered(h, k + 1)
         /\ Flushed(h, k + 1) = Flushed(h, k) /\ Heard(h, k + 1) = Heard(h, k)
    /\ o.op = "flush" =>
         /\ Flushed(h, k + 1) = Buffered(h, k) /\ Buffered(h, k + 1) = Buffered(h, k)
         /\ Heard(h, k + 1) = Heard(h, k)
    /\ o.op = "read" =>
         /\ Flushed(h, k + 1) = Flushed(h, k) /\ Buffered(h, k + 1) = Buffered(h, k)
         /\ Heard(h, k + 1) = Heard(h, k) + 1
         /\ h.client # "password" /\ Heard(h, k) < Len(Welcome(h)) =>
              Head(o.ms) = Welcome(h)[Heard(h, k) + 1]
         /\ h.client = "password" /\ Heard(h, k) = 1 => Head(o.ms) = Byte("noauth")
    /\ o.op = "close" => h.client = "quiet"

LEMMA OperationStep ==
    ASSUME NEW h \in Scenarios, NEW k \in 0..(Len(Script(h)) - 1)
    PROVE  Does(h, k, Script(h)[k + 1])
<1> DEFINE S == Mail(h)
           w == Written(h)
<1>1. /\ w \in Seq(S)
      /\ \A i \in 1..Len(Handshake(h)) : w[i] = Handshake(h)[i]
      /\ Len(w) >= Len(Handshake(h)) /\ Len(Data) \in Nat
      /\ h.client = "eager" => Len(w) = 3 + Len(Data)
  <2>1. /\ w \in Seq(S) /\ Len(Data) \in Nat
        /\ h.client \in {"get", "udp", "none"} => Len(w) = Len(Handshake(h))
        /\ h.client \notin {"get", "udp", "none"} => Len(w) = Len(Handshake(h)) + Len(Data)
        /\ \A i \in 1..Len(Handshake(h)) : w[i] = Handshake(h)[i]
    BY WrittenForms
  <2>2. Handshake(h) \in Seq(S) /\ (h.client = "eager" => Len(Handshake(h)) = 3)
    BY StreamForms DEF Commands
  <2> HIDE DEF w, S
  <2>3. Len(Handshake(h)) \in Nat
    BY <2>2
  <2>4. Len(w) >= Len(Handshake(h))
    <3>1. CASE h.client \in {"get", "udp", "none"}
      BY <2>1, <2>3, <3>1
    <3>2. CASE h.client \notin {"get", "udp", "none"}
      BY <2>1, <2>3, <3>2
    <3> QED BY <3>1, <3>2
  <2> QED BY <2>1, <2>2, <2>4
<1>2. ASSUME Len(Handshake(h)) >= 2 PROVE Part(w, 0, 2) = <<w[1], w[2]>>
  <2> HIDE DEF w, S
  <2>0. Len(w) >= 2 /\ Len(w) \in Nat
    BY <1>1, <1>2
  <2> DEFINE q == Part(w, 0, 2)
             r == <<w[1], w[2]>>
  <2>1. q \in Seq(S) /\ Len(q) = 2 - 0
    <3>1. 0 \in Nat /\ 2 \in Nat /\ 0 <= 2 /\ 2 <= Len(w) /\ w \in Seq(S)
      BY <1>1, <2>0
    <3> QED BY <3>1, PartSeq, Zenon
  <2>2. \A i \in 1..(2 - 0) : q[i] = w[0 + i]
    BY <1>1, <2>0, PartItems
  <2>3. w[1] \in S /\ w[2] \in S
    BY <1>1, <2>0
  <2>4. r \in Seq(S) /\ Len(r) = 2 /\ r[1] = w[1] /\ r[2] = w[2]
    BY <2>3
  <2> HIDE DEF q, r
  <2>5. Len(q) = Len(r) /\ \A i \in 1..Len(q) : q[i] = r[i]
    BY <2>1, <2>2, <2>4
  <2>6. q = r
    BY <2>1, <2>4, <2>5, SeqEqual
  <2> QED BY <2>6 DEF q, r
<1>3. ASSUME Len(Handshake(h)) >= 3 PROVE Part(w, 2, 3) = <<w[3]>>
  <2> HIDE DEF w, S
  <2>0. Len(w) >= 3 /\ Len(w) \in Nat
    BY <1>1, <1>3
  <2> QED BY <1>1, <2>0, PartOne
<1>4. Part(w, 0, Len(w)) = w
  BY <1>1, PartWhole
<1>5. Len(Script(h)) = IF h.client \in Commands THEN 7 ELSE IF h.client = "eager" THEN 5
                       ELSE IF h.client = "password" THEN 4
                       ELSE IF h.client \in {"http", "get"} THEN 3
                       ELSE IF h.client = "quiet" THEN 1 ELSE 0
  BY ScriptForms
<1> DEFINE o == Script(h)[k + 1]
<1> HIDE DEF w, S
<1> USE DEF Buffered, Flushed, Heard, FirstWrite
<1>6. CASE h.client \in Commands
  <2> DEFINE x == IF h.client = "socks5" THEN "connect" ELSE h.client
             s == Script(h)
  <2>1. x \in Tags /\ s = send_command(x, h.ask)
    BY <1>6 DEF Commands, Script, Tags
  <2>2. /\ Wrote(s[1], <<Byte("ver"), Byte("noauth")>>) /\ s[2].op = "flush"
        /\ Reads(s[3], "ver") /\ Reads(s[4], "noauth")
        /\ Wrote(s[5], <<Msg(x, ra2sa(h.ask))>>) /\ s[6].op = "flush"
        /\ Reads(s[7], "success")
    <3> HIDE DEF x
    <3> QED BY <2>1, CommandScript
  <2>3. /\ Len(Handshake(h)) = 3 /\ Handshake(h)[1] = Byte("ver") /\ Handshake(h)[2] = Byte("noauth")
        /\ Handshake(h)[3] = Msg(x, ra2sa(h.ask))
        /\ Welcome(h)[1] = Byte("ver") /\ Welcome(h)[2] = Byte("noauth")
        /\ Len(Welcome(h)) <= 3
        /\ Len(Welcome(h)) = 3 => Welcome(h)[3] = Byte("success")
    <3>1. h.client \in Commands \cup {"eager"} /\ h.client \in {"socks5", "udp", "bind"}
      BY <1>6 DEF Commands
    <3>2. /\ Len(Handshake(h)) = 3 /\ Handshake(h)[1] = Byte("ver") /\ Handshake(h)[2] = Byte("noauth")
          /\ Handshake(h)[3] = Msg(IF h.client = "eager" \/ h.client = "socks5" THEN "connect"
                                   ELSE h.client, ra2sa(h.ask))
          /\ Welcome(h)[1] = Byte("ver") /\ Welcome(h)[2] = Byte("noauth")
      BY <3>1, StreamForms
    <3>3. /\ Len(Welcome(h)) = IF h.client \in {"socks5", "eager", "udp"} THEN 3
                               ELSE IF h.client \in {"bind", "password"} THEN 2
                               ELSE IF h.client = "http" THEN 1 ELSE 0
          /\ h.client \in {"socks5", "eager", "udp"} => Welcome(h)[3] = Byte("success")
      BY StreamForms
    <3> QED BY <3>1, <3>2, <3>3
  <2> HIDE DEF x, s
  <2>4. /\ w[1] = Byte("ver") /\ w[2] = Byte("noauth") /\ w[3] = Msg(x, ra2sa(h.ask))
    BY <1>1, <2>3
  <2>5. Wrote(s[1], Part(w, 0, 2)) /\ Wrote(s[5], Part(w, 2, 3))
    BY <1>2, <1>3, <2>2, <2>3, <2>4
  <2>6. k \in 0..6 /\ h.client # "password" /\ h.client # "eager" /\ Len(Welcome(h)) \in Nat
    BY <1>5, <1>6, StreamForms DEF Commands
  <2> USE DEF Does
  <2>7. CASE k = 0
    BY <1>6, <2>5, <2>6, <2>7 DEF Wrote, s, w, Commands
  <2>8. CASE k = 1 \/ k = 5
    BY <1>6, <2>2, <2>6, <2>8 DEF s, Commands
  <2>9. CASE k = 2
    BY <1>6, <2>2, <2>3, <2>6, <2>9 DEF Reads, s, Commands
  <2>10. CASE k = 3
    BY <1>6, <2>2, <2>3, <2>6, <2>10 DEF Reads, s, Commands
  <2>11. CASE k = 4
    BY <1>6, <2>5, <2>6, <2>11 DEF Wrote, s, w, Commands
  <2>12. CASE k = 6
    <3>1. Reads(Script(h)[k + 1], "success") /\ Heard(h, k) = 2 /\ Heard(h, k + 1) = 3
      BY <1>6, <2>2, <2>12 DEF s
    <3>2. Heard(h, k) < Len(Welcome(h)) => Welcome(h)[Heard(h, k) + 1] = Byte("success")
      <4> DEFINE n == Len(Welcome(h))
      <4>1. n \in Nat /\ n <= 3 /\ (n = 3 => Welcome(h)[3] = Byte("success"))
        BY <2>3, <2>6
      <4> HIDE DEF n, Heard
      <4>2. 2 < n => n = 3
        BY <4>1
      <4> QED BY <3>1, <4>1, <4>2 DEF n
    <3>3. Flushed(h, k + 1) = Flushed(h, k) /\ Buffered(h, k + 1) = Buffered(h, k)
      BY <1>6, <2>12
    <3> HIDE DEF Flushed, Buffered, Heard
    <3> QED BY <2>6, <3>1, <3>2, <3>3 DEF Reads
  <2> QED BY <2>6, <2>7, <2>8, <2>9, <2>10, <2>11, <2>12
<1>7. CASE h.client = "eager"
  <2> DEFINE s == Script(h)
  <2>1. /\ Wrote(s[1], w) /\ s[2].op = "flush"
        /\ Reads(s[3], "ver") /\ Reads(s[4], "noauth") /\ Reads(s[5], "success")
    BY <1>7, EagerScript DEF w
  <2>2. /\ Welcome(h)[1] = Byte("ver") /\ Welcome(h)[2] = Byte("noauth") /\ Welcome(h)[3] = Byte("success")
        /\ Len(Welcome(h)) = 3
    BY <1>7, StreamForms DEF Commands
  <2>3. k \in 0..4 /\ h.client \notin Commands /\ h.client # "password"
    BY <1>5, <1>7 DEF Commands
  <2> HIDE DEF s
  <2> USE DEF Does
  <2>4. CASE k = 0
    BY <1>1, <1>4, <1>7, <2>1, <2>3, <2>4 DEF Wrote, s, w
  <2>5. CASE k = 1
    BY <1>7, <2>1, <2>3, <2>5 DEF s
  <2>6. CASE k = 2
    BY <1>7, <2>1, <2>2, <2>3, <2>6 DEF Reads, s
  <2>7. CASE k = 3
    BY <1>7, <2>1, <2>2, <2>3, <2>7 DEF Reads, s
  <2>8. CASE k = 4
    BY <1>7, <2>1, <2>2, <2>3, <2>8 DEF Reads, s
  <2> QED BY <2>3, <2>4, <2>5, <2>6, <2>7, <2>8
<1>8. CASE h.client = "password"
  <2> DEFINE s == Script(h)
  <2>1. /\ Wrote(s[1], Handshake(h)) /\ s[2].op = "flush"
        /\ Reads(s[3], "ver") /\ Reads(s[4], "noauth")
    BY <1>8, PasswordScript
  <2>2. /\ Handshake(h) = <<Byte("ver"), Byte("password")>> /\ Len(Handshake(h)) = 2
    BY <1>8, StreamForms DEF Commands
  <2>3. k \in 0..3 /\ h.client \notin Commands /\ h.client \notin {"eager", "quiet", "raw", "none"}
    BY <1>5, <1>8 DEF Commands
  <2>4. Handshake(h) = Part(w, 0, 2)
    BY <1>1, <1>2, <2>2
  <2> HIDE DEF s
  <2> USE DEF Does
  <2>5. CASE k = 0
    BY <1>1, <1>8, <2>1, <2>3, <2>4, <2>5 DEF Wrote, s, w
  <2>6. CASE k = 1
    BY <1>8, <2>1, <2>3, <2>6 DEF s
  <2>7. CASE k = 2
    BY <1>8, <2>1, <2>2, <2>3, <2>7 DEF Reads, s
  <2>8. CASE k = 3
    BY <1>8, <2>1, <2>2, <2>3, <2>8 DEF Reads, s
  <2> QED BY <2>3, <2>5, <2>6, <2>7, <2>8
<1>9. CASE h.client \in {"http", "get"}
  <2> DEFINE s == Script(h)
  <2>1. Wrote(s[1], Handshake(h)) /\ s[2].op = "flush" /\ Reads(s[3], "200")
    BY <1>9, HttpScript
  <2>2. /\ Handshake(h) = <<Handshake(h)[1], Handshake(h)[2]>> /\ Len(Handshake(h)) = 2
        /\ h.client = "http" => Welcome(h)[1] = Byte("200")
        /\ Len(Welcome(h)) = IF h.client = "http" THEN 1 ELSE 0
    BY <1>9, StreamForms DEF Commands
  <2>3. k \in 0..2 /\ h.client \notin Commands /\ h.client \notin {"eager", "quiet", "raw", "none", "password"}
    BY <1>5, <1>9 DEF Commands
  <2>4. Handshake(h) = Part(w, 0, 2)
    BY <1>1, <1>2, <2>2
  <2> HIDE DEF s
  <2> USE DEF Does
  <2>5. CASE k = 0
    BY <1>1, <1>9, <2>1, <2>3, <2>4, <2>5 DEF Wrote, s, w
  <2>6. CASE k = 1
    BY <1>9, <2>1, <2>3, <2>6 DEF s
  <2>7. CASE k = 2
    BY <1>9, <2>1, <2>2, <2>3, <2>7 DEF Reads, s
  <2> QED BY <2>3, <2>5, <2>6, <2>7
<1>10. CASE h.client = "quiet"
  <2>1. k = 0 /\ Script(h)[1].op = "close"
    BY <1>5, <1>10, QuietScript DEF Commands
  <2> QED BY <1>10, <2>1 DEF Does
<1>11. h.client \in Kinds /\ h.client \notin {"raw", "none"}
  BY <1>5, ScenarioForms DEF Commands, Kinds
<1> QED BY <1>6, <1>7, <1>8, <1>9, <1>10, <1>11 DEF Kinds, Commands

-----------------------------------------------------------------------------
(* Addresses as text.                                                      *)

Tokens == STRING \cup PortTexts \cup {":", "[", "]", "80"}

LEMMA PortRead ==
    ASSUME NEW x \in Seq(Tokens), NEW p \in PortTexts
    PROVE  LET t == x \o <<":", p>> IN
           HasPort(t) /\ Colons(t) # {} /\ HostPart(t) = x /\ Last(t) = p
<1> DEFINE t == x \o <<":", p>>
<1>1. ":" \in Tokens /\ p \in Tokens /\ p # ":"
  BY AddressAssumption DEF Tokens
<1>2. /\ t \in Seq(Tokens) /\ Len(t) = Len(x) + 2 /\ Len(x) \in Nat
      /\ t[Len(x) + 1] = ":" /\ t[Len(x) + 2] = p
      /\ SubSeq(t, 1, Len(t) - 2) = x
  BY <1>1
<1> HIDE DEF t
<1>3. DOMAIN t = 1..(Len(x) + 2)
  BY <1>2
<1>4. Len(x) + 1 \in Colons(t) /\ \A j \in Colons(t) : j <= Len(x) + 1
  BY <1>1, <1>2, <1>3 DEF Colons
<1>5. LastColon(t) \in Colons(t) /\ \A j \in Colons(t) : j <= LastColon(t)
  BY <1>4 DEF LastColon
<1>6. LastColon(t) = Len(x) + 1
  <2>1. Colons(t) \subseteq 1..(Len(x) + 2)
    BY <1>3 DEF Colons
  <2> QED BY <1>2, <1>4, <1>5, <2>1
<1>7. Last(t) = p /\ HostPart(t) = x
  BY <1>2 DEF Last, HostPart
<1>8. HasPort(t) /\ Colons(t) # {}
  BY <1>2, <1>4, <1>6, <1>7 DEF HasPort
<1> QED BY <1>7, <1>8 DEF t

\* What host_to_address gives is an address, and normal.
LEMMA HostIsNormal ==
    ASSUME NEW x, NEW p
    PROVE  LET a == host_to_address(x, p) IN to_normalized(a) = a /\ a # NoAddr
<1> DEFINE y == strip_brackets(x)
<1>1. CASE ParsesAsIp(y)
  <2>1. host_to_address(x, p) = Sock(ParseIp(y), p)
    BY <1>1 DEF host_to_address
  <2> DEFINE a == Sock(ParseIp(y), p)
  <2>2. a.type = "sock"
    BY DEF Sock
  <2> HIDE DEF a
  <2>3. to_normalized(a) = a /\ a # NoAddr
    BY <2>2 DEF to_normalized, NoAddr
  <2> QED BY <2>1, <2>3 DEF a
<1>2. CASE ~ParsesAsIp(y)
  <2>1. host_to_address(x, p) = Domain(x, p)
    BY <1>2 DEF host_to_address
  <2> DEFINE a == Domain(x, p)
  <2>2. a.type = "domain" /\ a.domain = x /\ a.port = p
    BY DEF Domain
  <2> HIDE DEF a
  <2>3. to_normalized(a) = host_to_address(x, p) /\ a # NoAddr
    BY <2>2 DEF to_normalized, NoAddr
  <2> QED BY <2>1, <2>3 DEF a
<1> QED BY <1>1, <1>2

\* The text of an address, read again.
LEMMA DisplayReadBack ==
    ASSUME NEW a \in Addresses
    PROVE  /\ Colons(Display(a)) # {}
           /\ into_address(Display(a)) = to_normalized(a)
           /\ into_address(Display(a)) # NoAddr
<1>1. PICK x \in Seq(Tokens) : /\ Display(a) = x \o <<":", a.port>>
                               /\ host_to_address(x, a.port) = to_normalized(a)
  <2>1. CASE a \in [type : {"domain"}, domain : Seq(STRING), port : PortTexts]
    <3>1. a.type = "domain" /\ a.domain \in Seq(STRING)
      BY <2>1
    <3>2. a.domain \in Seq(Tokens)
      BY <3>1, WiderSeq DEF Tokens
    <3>3. Display(a) = a.domain \o <<":", a.port>>
      BY <3>1 DEF Display
    <3> QED BY <3>1, <3>2, <3>3 DEF to_normalized
  <2>2. CASE a \in [type : {"sock"}, ip : V4 \cup V6, port : PortTexts]
    <3> DEFINE y == IpText[a.ip]
    <3>1. a.type = "sock" /\ a.ip \in V4 \cup V6 /\ a = Sock(a.ip, a.port)
      BY <2>2 DEF Sock
    <3>2. y \in Seq(STRING) /\ y # <<>> /\ Head(y) # "["
      BY <3>1, AddressAssumption
    <3>3. y \in Seq(Tokens)
      BY <3>2, WiderSeq DEF Tokens
    <3>4. to_normalized(a) = a
      BY <3>1 DEF to_normalized
    <3>5. ParsesAsIp(y) /\ ParseIp(y) = a.ip
      BY <3>1, AddressAssumption DEF ParsesAsIp, ParseIp
    <3>6. CASE a.ip \in V4
      <4>1. Display(a) = y \o <<":", a.port>>
        BY <3>1, <3>6, AddressAssumption DEF Display
      <4> HIDE DEF y
      <4>2. strip_brackets(y) = y
        BY <3>2 DEF strip_brackets
      <4>3. host_to_address(y, a.port) = Sock(a.ip, a.port)
        BY <3>5, <4>2 DEF host_to_address
      <4> QED BY <3>1, <3>3, <3>4, <4>1, <4>3
    <3>7. CASE a.ip \in V6
      <4> DEFINE x == <<"[">> \o y \o <<"]">>
      <4>1. Display(a) = x \o <<":", a.port>>
        <5>1. a.ip \notin V4
          BY <3>7, AddressAssumption
        <5> QED BY <3>1, <3>7, <5>1 DEF Display
      <4> HIDE DEF y
      <4>2. "[" \in Tokens /\ "]" \in Tokens
        BY DEF Tokens
      <4>3. /\ x \in Seq(Tokens) /\ Len(x) = Len(y) + 2 /\ Len(y) \in Nat
            /\ x[1] = "[" /\ x[Len(y) + 2] = "]" /\ SubSeq(x, 2, Len(x) - 1) = y
        <5> DEFINE u == <<"[">>
                   v == u \o y
                   z == <<"]">>
        <5>1. u \in Seq(Tokens) /\ Len(u) = 1 /\ u[1] = "[" /\ z \in Seq(Tokens) /\ Len(z) = 1 /\ z[1] = "]"
          BY <4>2
        <5> HIDE DEF u, z
        <5>2. /\ v \in Seq(Tokens) /\ Len(v) = Len(y) + 1 /\ Len(y) \in Nat /\ v[1] = "["
              /\ \A i \in 1..Len(y) : v[i + 1] = y[i]
          <6>1. Len(y) \in Nat
            BY <3>3
          <6>2. /\ v \in Seq(Tokens) /\ Len(v) = Len(u) + Len(y)
                /\ \A i \in 1..(Len(u) + Len(y)) : v[i] = IF i <= Len(u) THEN u[i] ELSE y[i - Len(u)]
            BY <3>3, <5>1, ConcatProperties, Zenon
          <6> HIDE DEF v
          <6>3. \A i \in 1..Len(y) : v[i + 1] = y[i]
            BY <5>1, <6>1, <6>2
          <6> QED BY <5>1, <6>1, <6>2, <6>3
        <5> HIDE DEF v
        <5>3. x = v \o z
          BY DEF v, u, z
        <5> HIDE DEF x
        <5>4. /\ x \in Seq(Tokens) /\ Len(x) = Len(y) + 2 /\ x[1] = "[" /\ x[Len(y) + 2] = "]"
              /\ \A i \in 1..Len(y) : x[i + 1] = y[i]
          <6>2. /\ v \o z \in Seq(Tokens) /\ Len(v \o z) = Len(v) + Len(z)
                /\ \A i \in 1..(Len(v) + Len(z)) : (v \o z)[i] = IF i <= Len(v) THEN v[i] ELSE z[i - Len(v)]
            BY <5>1, <5>2, ConcatProperties, Zenon
          <6>3. \A i \in 1..(Len(y) + 2) : x[i] = IF i <= Len(y) + 1 THEN v[i] ELSE z[i - (Len(y) + 1)]
            BY <5>1, <5>2, <5>3, <6>2
          <6>4. \A i \in 1..Len(y) : x[i + 1] = y[i]
            BY <5>2, <6>3
          <6> QED BY <5>1, <5>2, <5>3, <6>2, <6>3, <6>4
        <5> DEFINE q == SubSeq(x, 2, Len(x) - 1)
        <5>5. q \in Seq(Tokens) /\ Len(q) = Len(y) /\ \A i \in 1..Len(q) : q[i] = x[i + 1]
          BY <5>2, <5>4
        <5> HIDE DEF q
        <5>6. q = y
          BY <3>3, <5>2, <5>4, <5>5, SeqEqual
        <5> QED BY <5>2, <5>4, <5>6 DEF q
      <4> HIDE DEF x
      <4>4. strip_brackets(x) = y
        BY <4>3 DEF strip_brackets, Last
      <4>5. host_to_address(x, a.port) = Sock(a.ip, a.port)
        BY <3>5, <4>4 DEF host_to_address
      <4> QED BY <3>1, <3>4, <4>1, <4>3, <4>5
    <3> QED BY <3>1, <3>6, <3>7
  <2> QED BY <2>1, <2>2 DEF Addresses
<1>2. a.port \in PortTexts
  BY DEF Addresses
<1> DEFINE t == x \o <<":", a.port>>
<1>3. HasPort(t) /\ Colons(t) # {} /\ HostPart(t) = x /\ Last(t) = a.port
  BY <1>2, PortRead
<1> HIDE DEF t
<1>4. into_address(t) = host_to_address(x, a.port)
  BY <1>3 DEF into_address
<1> QED BY <1>1, <1>3, <1>4, HostIsNormal DEF t

\* What the HTTP server makes of the authority it is given.
LEMMA AuthorityRead ==
    ASSUME NEW x \in Seq(STRING)
    PROVE  LET a == into_address(WithDefaultPort(x)) IN
           a # NoAddr => to_normalized(a) = IF HasPort(x) THEN into_address(x)
                                            ELSE host_to_address(x, "80")
<1>1. CASE Colons(x) = {}
  <2>1. ~HasPort(x) /\ WithDefaultPort(x) = x \o <<":", "80">>
    BY <1>1 DEF HasPort, WithDefaultPort
  <2>2. x \in Seq(Tokens) /\ "80" \in PortTexts
    BY WiderSeq, ScenariosAssumption DEF Tokens
  <2> DEFINE t == x \o <<":", "80">>
  <2>3. HasPort(t) /\ HostPart(t) = x /\ Last(t) = "80"
    BY <2>2, PortRead
  <2> HIDE DEF t
  <2>4. into_address(t) = host_to_address(x, "80")
    BY <2>3 DEF into_address
  <2> QED BY <2>1, <2>4, HostIsNormal DEF t
<1>2. CASE Colons(x) # {}
  <2>1. WithDefaultPort(x) = x
    BY <1>2 DEF WithDefaultPort
  <2>2. CASE HasPort(x)
    <3>1. into_address(x) = host_to_address(HostPart(x), Last(x))
      BY <2>2 DEF into_address
    <3> QED BY <2>1, <2>2, <3>1, HostIsNormal
  <2>3. CASE ~HasPort(x)
    BY <2>1, <2>3 DEF into_address
  <2> QED BY <2>2, <2>3
<1> QED BY <1>1, <1>2

-----------------------------------------------------------------------------
(* The client's steps.                                                     *)

LEMMA ClientAt ==
    ASSUME TcpTyped, ClientFollows
    PROVE  /\ Len(Script(how)) \in Nat /\ Done \in 0..Len(Script(how))
           /\ Script(how) \in Seq(Operation(how))
           /\ Written(how) \in Seq(Mail(how)) /\ Told(how) \in Seq(Mail(how))
           /\ Len(Written(how)) \in Nat /\ Len(Told(how)) \in Nat
           /\ Len(client.script) \in Nat /\ Len(client.data) \in Nat
           /\ Flushed(how, Done) \in Nat /\ Buffered(how, Done) \in Nat
           /\ Flushed(how, Done) <= Buffered(how, Done) /\ Buffered(how, Done) <= Len(Written(how))
           /\ Sent \in Nat /\ Sent <= Len(Written(how)) /\ Len(Unwritten(how)) \in Nat
           /\ client.script = <<>> =>
                /\ Done = Len(Script(how)) /\ Sent = Len(Written(how)) - Len(client.data)
           /\ client.script # <<>> =>
                /\ Sent = Flushed(how, Done) /\ Done \in 0..(Len(Script(how)) - 1)
                /\ NextOp = Script(how)[Done + 1] /\ Does(how, Done, NextOp)
                /\ Tail(client.script) \in Seq(Operation(how))
                /\ Tail(client.script) = Part(Script(how), Done + 1, Len(Script(how)))
                /\ Len(Tail(client.script)) = Len(client.script) - 1
<1> DEFINE s == Script(how)
           c == client.script
           d == client.data
           w == Written(how)
           k == Done
<1>1. how \in Scenarios /\ c \in Seq(Operation(how)) /\ d \in Seq(Mail(how))
  BY DEF TcpTyped
<1>2. s \in Seq(Operation(how))
  BY <1>1, ScriptForms
<1>3. w \in Seq(Mail(how)) /\ Told(how) \in Seq(Mail(how))
  BY <1>1, WrittenForms
<1>4. Len(c) \in Nat /\ Len(s) \in Nat /\ Len(w) \in Nat /\ Len(d) \in Nat /\ Len(Told(how)) \in Nat
  <2> HIDE DEF s, c, d, w
  <2> QED BY <1>1, <1>2, <1>3
<1>5. Len(c) <= Len(s) /\ c = Part(s, k, Len(s)) /\ k = Len(s) - Len(c)
  BY DEF ClientFollows, Done
<1>6. k \in 0..Len(s)
  BY <1>4, <1>5
<1>7. /\ Flushed(how, k) \in Nat /\ Buffered(how, k) \in Nat
      /\ Flushed(how, k) <= Buffered(how, k)
      /\ Buffered(how, k) <= Len(w) - Len(Unwritten(how))
      /\ Len(Unwritten(how)) \in Nat /\ Len(Unwritten(how)) <= Len(w)
      /\ k = Len(s) => Flushed(how, k) = Len(w) - Len(Unwritten(how))
  BY <1>1, <1>6, Progress
<1>8. Sent = Flushed(how, k) + (Len(Unwritten(how)) - Len(d)) /\ Len(d) <= Len(Unwritten(how))
      /\ (c # <<>> => Len(d) = Len(Unwritten(how)))
  BY DEF Sent, ClientFollows
<1> HIDE DEF s, c, d, w, k
<1>9. c = <<>> => Len(c) = 0
  OBVIOUS
<1>10. c # <<>> => Len(c) > 0
  BY <1>1, <1>4
<1>11. Sent \in Nat /\ Sent <= Len(w) /\ Buffered(how, k) <= Len(w)
  BY <1>4, <1>7, <1>8
<1>12. c = <<>> => k = Len(s) /\ Sent = Len(w) - Len(d)
  BY <1>4, <1>5, <1>7, <1>8, <1>9
<1>13. ASSUME c # <<>>
       PROVE  /\ Sent = Flushed(how, k) /\ k \in 0..(Len(s) - 1)
              /\ Head(c) = s[k + 1] /\ Does(how, k, Head(c))
              /\ Tail(c) \in Seq(Operation(how))
              /\ Tail(c) = Part(s, k + 1, Len(s)) /\ Len(Tail(c)) = Len(c) - 1
  <2>1. k \in 0..(Len(s) - 1) /\ Sent = Flushed(how, k) /\ k < Len(s) /\ k \in Nat /\ Len(s) <= Len(s)
    BY <1>4, <1>5, <1>6, <1>7, <1>8, <1>10, <1>13
  <2>2. Head(c) = s[k + 1]
    <3>1. Head(Part(s, k, Len(s))) = s[k + 1]
      BY <1>2, <1>4, <2>1, PartHead, Zenon
    <3> QED BY <1>5, <3>1
  <2>3. Tail(c) = Part(s, k + 1, Len(s))
    <3>1. Tail(Part(s, k, Len(s))) = Part(s, k + 1, Len(s))
      BY <1>2, <1>4, <2>1, PartTail, Zenon
    <3> QED BY <1>5, <3>1
  <2>4. Does(how, k, s[k + 1])
    BY <1>1, <2>1, OperationStep DEF s
  <2>5. Tail(c) \in Seq(Operation(how)) /\ Len(Tail(c)) = Len(c) - 1
    BY <1>1, <1>13
  <2> QED BY <2>1, <2>2, <2>3, <2>4, <2>5
<1> QED BY <1>2, <1>3, <1>4, <1>6, <1>7, <1>11, <1>12, <1>13 DEF s, c, d, w, k, NextOp

\* What the server's point says is taken and given.
LEMMA TakenNat ==
    ASSUME TcpTyped, ~Over, NEW n \in Taken
    PROVE  n \in Nat
<1>1. Len(Handshake(how)) \in Nat
  <2>1. Handshake(how) \in Seq(Mail(how))
    BY StreamForms DEF TcpTyped
  <2> QED BY <2>1
<1>2. Len(remote.got) \in Nat
  <2>1. remote.got \in Seq(Mail(how))
    BY DEF TcpTyped
  <2> QED BY <2>1
<1>3. server.pc \in Points
  BY DEF TcpTyped
<1>4. n \in {0, 2, Len(Handshake(how)), Len(Handshake(how)) + Len(remote.got)}
  BY <1>3 DEF Taken, Over, Points
<1> QED BY <1>1, <1>2, <1>4

\* What depends on the server alone.
LEMMA ServerStays ==
    ASSUME UNCHANGED <<how, server, remote>>
    PROVE  (Over' <=> Over) /\ Taken' = Taken /\ Given' = Given /\ Course' = Course
<1>1. Over' <=> Over
  BY DEF Over
<1>2. Taken' = Taken
  BY DEF Taken
<1>3. Given' = Given
  BY DEF Given
<1>4. Course' = Course
  BY DEF Course
<1> QED BY <1>1, <1>2, <1>3, <1>4

LEMMA ClientKeeps ==
    ASSUME TcpInv, UNCHANGED <<how, server, shut, remote>>,
           TcpTyped', ClientFollows', UpFollows', DownFollows', Unopened',
           \/ client'.state = client.state
           \/ "closed" \in Course
           \/ server.pc = "failed"
    PROVE  TcpInv'
<1>1. (Over' <=> Over) /\ Course' = Course
  BY ServerStays
<1>2. RemoteFollows'
  BY DEF RemoteFollows, TcpInv
<1>3. OnCourse'
  BY <1>1 DEF OnCourse, TcpInv
<1>4. DialsWanted'
  BY DEF DialsWanted, Wanted, TcpInv
<1> QED BY <1>2, <1>3, <1>4 DEF TcpInv

\* What the client has sent comes in behind what was on its way.
LEMMA UpGrows ==
    ASSUME TcpInv, UNCHANGED <<how, server, remote>>,
           Sent' \in Nat, Sent <= Sent', Sent' <= Len(Written(how)),
           up' = up \o Part(Written(how), Sent, Sent')
    PROVE  UpFollows'
<1> DEFINE w == Written(how)
           S == Mail(how)
           p == Part(w, Sent, Sent')
<1>1. w \in Seq(S) /\ Sent \in Nat /\ Len(w) \in Nat
  BY ClientAt DEF TcpInv
<1>2. (Over' <=> Over) /\ Taken' = Taken /\ Written(how)' = w
  BY ServerStays
<1>3. server.peeked \in Seq(S) /\ up \in Seq(S)
  BY DEF TcpInv, TcpTyped
<1>4. ASSUME ~Over
      PROVE  \E n \in Taken : n <= Sent' /\ In' = Part(w, n, Sent')
  <2>1. PICK n \in Taken : n <= Sent /\ In = Part(w, n, Sent)
    BY <1>4 DEF TcpInv, UpFollows
  <2>2. n \in Nat
    BY <1>4, TakenNat DEF TcpInv
  <2> HIDE DEF w, S
  <2>3. p \in Seq(S)
    BY <1>1, PartSeq, Zenon DEF w
  <2>4. In' = server.peeked \o (up \o p)
    BY DEF In, w
  <2>5. (server.peeked \o up) \o p = server.peeked \o (up \o p)
    <3> DEFINE x == server.peeked
    <3> HIDE DEF p, x
    <3>1. \A y, z \in Seq(S) : (x \o y) \o z = x \o (y \o z)
      <4>1. x \in Seq(S)
        BY <1>3 DEF x
      <4> QED BY <4>1, ConcatAssociative
    <3> QED BY <1>3, <2>3, <3>1 DEF x
  <2>6. Part(w, n, Sent) \o p = Part(w, n, Sent')
    BY <1>1, <2>1, <2>2, PartGlue, Zenon DEF w
  <2>7. n <= Sent'
    BY <1>1, <2>1, <2>2
  <2> QED BY <2>1, <2>4, <2>5, <2>6, <2>7 DEF In
<1>5. (server.pc \in {"off", "listen", "peek"} => server.peeked = <<>>)'
  BY DEF TcpInv, UpFollows
<1> HIDE DEF p
<1> QED BY <1>2, <1>4, <1>5 DEF UpFollows

LEMMA UpStays ==
    ASSUME TcpInv, UNCHANGED <<how, server, remote, up>>, Sent' = Sent
    PROVE  UpFollows'
  BY ServerStays DEF UpFollows, In, TcpInv

\* The client goes on to the next operation of its script.
LEMMA Advances ==
    ASSUME TcpInv, client.script # <<>>, how' = how,
           client'.script = Tail(client.script), client'.data = client.data,
           client'.buf = Part(Written(how), Flushed(how, Done + 1), Buffered(how, Done + 1))
    PROVE  /\ ClientFollows' /\ Done' = Done + 1 /\ Sent' = Flushed(how, Done + 1)
           /\ Sent' \in Nat /\ Sent' <= Len(Written(how))
<1> DEFINE s == Script(how)
           c == client.script
           w == Written(how)
           k == Done
<1>1. /\ Len(s) \in Nat /\ k \in 0..(Len(s) - 1) /\ Len(c) \in Nat /\ Len(client.data) \in Nat
      /\ Tail(c) = Part(s, k + 1, Len(s)) /\ Len(Tail(c)) = Len(c) - 1
      /\ Len(Unwritten(how)) \in Nat /\ Len(w) \in Nat
  BY ClientAt DEF TcpInv
<1>2. k = Len(s) - Len(c) /\ Done' = Len(s) - Len(Tail(c))
  BY DEF Done
<1>3. /\ Len(client.data) <= Len(Unwritten(how)) /\ Len(client.data) = Len(Unwritten(how))
      /\ client.data = Part(w, Len(w) - Len(client.data), Len(w))
      /\ Len(c) <= Len(s)
  BY DEF TcpInv, ClientFollows
<1>4. Sent' = Flushed(how, Done') + (Len(Unwritten(how)) - Len(client.data))
  BY DEF Sent
<1> HIDE DEF s, c, k, w
<1>5. Done' = k + 1 /\ Done' \in 0..Len(s)
  <2> DEFINE m == Len(s)
             n == Len(c)
  <2>1. Done' = m - (n - 1) /\ k = m - n /\ m \in Nat /\ n \in Nat /\ k \in 0..(m - 1)
    BY <1>1, <1>2
  <2> HIDE DEF m, n
  <2>2. Done' = k + 1 /\ Done' \in 0..m
    BY <2>1
  <2> QED BY <2>2 DEF m
<1>6. /\ Flushed(how, Done') \in Nat /\ Flushed(how, Done') <= Len(w)
  <2>1. /\ Flushed(how, Done') \in Nat /\ Buffered(how, Done') \in Nat
        /\ Flushed(how, Done') <= Buffered(how, Done')
        /\ Buffered(how, Done') <= Len(w) - Len(Unwritten(how))
    BY <1>5, Progress DEF TcpInv, TcpTyped, s, w
  <2> QED BY <1>1, <2>1
<1>7. Sent' = Flushed(how, Done')
  BY <1>1, <1>3, <1>4, <1>6
<1>8. ClientFollows'
  <2>1. /\ Len(Tail(c)) <= Len(s) /\ Tail(c) = Part(s, Done', Len(s))
    BY <1>1, <1>3, <1>5
  <2> QED BY <1>3, <1>5, <2>1 DEF ClientFollows, s, c, w, k
<1> QED BY <1>5, <1>6, <1>7, <1>8 DEF k, w

\* A client that has read the replies of its script has read the welcome.
LEMMA HandshakeEnds ==
    ASSUME TcpInv, ~Over, how.client # "get",
           NEW n \in Nat, n = Heard(how, Len(Script(how))), n <= Given
    PROVE  n = Len(Welcome(how))
<1>0. how \in Scenarios /\ how.client \in Kinds
  BY ScenarioForms DEF TcpInv, TcpTyped
<1>1. CASE how.client \in {"socks5", "eager", "udp", "http", "raw"}
  <2>1. Script(how) \in Seq(Operation(how))
    BY <1>0, ScriptForms
  <2>2. Len(Script(how)) \in 0..Len(Script(how))
    BY <2>1
  <2> QED BY <1>0, <1>1, <2>2, Progress
<1>2. CASE how.client \in {"bind", "password"}
  <2>1. Given \in {0, 2}
    BY <1>2 DEF TcpInv, OnCourse, Course, Given, Over
  <2>2. Script(how) \in Seq(Operation(how))
    BY <1>0, ScriptForms
  <2>3. Len(Script(how)) \in 0..Len(Script(how))
    BY <2>2
  <2>4. Heard(how, Len(Script(how))) >= 2
    BY <1>0, <1>2, <2>3, Progress
  <2>5. Len(Welcome(how)) = 2
    BY <1>0, <1>2, StreamForms
  <2> QED BY <2>1, <2>4, <2>5
<1>3. CASE how.client \in {"quiet", "none"}
  <2>1. Len(Script(how)) \in {0, 1}
    BY <1>0, <1>3, ScriptForms DEF Commands
  <2>2. Len(Welcome(how)) = 0
    BY <1>0, <1>3, StreamForms
  <2>3. ASSUME NEW k \in {0, 1} PROVE Heard(how, k) = 0
    BY <1>3 DEF Heard, Commands
  <2> QED BY <2>1, <2>2, <2>3
<1> QED BY <1>0, <1>1, <1>2, <1>3 DEF Kinds

\* The typed parts of the state, in the form the steps need.
LEMMA GivenNat ==
    ASSUME TcpInv, ~Over, how.client # "get"
    PROVE  Given \in Nat /\ Given <= Len(Told(how))
<1> DEFINE x == Len(Welcome(how))
           y == Len(Banner)
           z == Len(remote.data)
<1>0. how \in Scenarios /\ how.client \in Kinds
  BY ScenarioForms DEF TcpInv, TcpTyped
<1>1. /\ x = IF how.client \in {"socks5", "eager", "udp"} THEN 3
              ELSE IF how.client \in {"bind", "password"} THEN 2
              ELSE IF how.client = "http" THEN 1 ELSE 0
      /\ Welcome(how) \in Seq(Mail(how))
  BY <1>0, StreamForms
<1>2. Len(Told(how)) = x + y /\ y \in Nat
  BY <1>0, WrittenForms
<1>3. z \in Nat /\ z <= y
  <2>1. remote.data \in Seq(Mail(how))
    BY DEF TcpInv, TcpTyped
  <2> QED BY <2>1 DEF TcpInv, RemoteFollows
<1>4. x \in Nat
  BY <1>1
<1> HIDE DEF x, y, z
<1>5. CASE server.pc = "relay"
  <2>1. Given = x + y - z
    BY <1>5 DEF Given, x, y, z
  <2> QED BY <1>2, <1>3, <1>4, <2>1
<1>6. CASE server.pc # "relay"
  <2>1. Given \in Nat /\ Given <= x
    <3>1. server.pc \in Course /\ server.pc \notin {"closed", "failed"}
      BY DEF TcpInv, OnCourse, Over
    <3>2. CASE how.client \in {"socks5", "eager"}
      <4>1. Given \in {0, 2}
        BY <1>6, <3>1, <3>2 DEF Given, Course
      <4> QED BY <1>1, <3>2, <4>1
    <3>3. CASE how.client = "udp"
      <4>1. Given \in {0, 2, 3}
        BY <1>6, <3>1, <3>3 DEF Given, Course
      <4> QED BY <1>1, <3>3, <4>1
    <3>4. CASE how.client \in {"bind", "password"}
      <4>1. Given \in {0, 2}
        BY <1>6, <3>1, <3>4 DEF Given, Course
      <4> QED BY <1>1, <3>4, <4>1
    <3>5. CASE how.client = "http"
      <4>1. Given \in {0, 1}
        BY <1>6, <3>1, <3>5 DEF Given, Course
      <4> QED BY <1>1, <3>5, <4>1
    <3>6. CASE how.client \in {"raw", "quiet", "none"}
      <4>1. Given = 0
        BY <1>6, <3>1, <3>6 DEF Given, Course
      <4> QED BY <1>1, <3>6, <4>1
    <3> QED BY <1>0, <3>2, <3>3, <3>4, <3>5, <3>6 DEF Kinds
  <2> QED BY <1>2, <1>4, <2>1
<1> QED BY <1>5, <1>6

\* What the client finds in the stream while its script runs.
LEMMA Streaming ==
    ASSUME TcpInv, ~Over, client.state = "run", how.client # "get"
    PROVE  /\ Given \in Nat /\ Given <= Len(Told(how)) /\ Told(how) \in Seq(Mail(how))
           /\ Len(Told(how)) \in Nat
           /\ down \in Seq(Mail(how)) /\ Len(down) \in Nat /\ Len(down) <= Given
           /\ down = Part(Told(how), Given - Len(down), Given)
           /\ down # <<>> => Len(down) > 0 /\ Head(down) = Told(how)[Given - Len(down) + 1]
           /\ client.script # <<>> => Given - Len(down) = Heard(how, Done) /\ client.got = <<>>
<1> DEFINE t == Told(how)
           S == Mail(how)
<1>1. Given \in Nat /\ Given <= Len(t)
  BY GivenNat
<1>2. down \in Seq(S) /\ t \in Seq(S) /\ Len(t) \in Nat
  BY ClientAt DEF TcpInv, TcpTyped
<1>3. /\ Len(down) <= Given /\ down = Part(t, Given - Len(down), Given)
      /\ client.script # <<>> => Given - Len(down) = Heard(how, Done) /\ client.got = <<>>
  BY DEF TcpInv, DownFollows
<1> HIDE DEF t, S
<1>4. Len(down) \in Nat
  BY <1>2
<1>5. ASSUME down # <<>> PROVE Len(down) > 0 /\ Head(down) = t[Given - Len(down) + 1]
  <2> DEFINE a == Given - Len(down)
  <2>1. Len(down) > 0
    BY <1>2, <1>5
  <2>2. a \in Nat /\ a < Given
    BY <1>1, <1>3, <1>4, <2>1
  <2>3. down = Part(t, a, Given)
    BY <1>3
  <2> HIDE DEF a
  <2>4. Head(Part(t, a, Given)) = t[a + 1]
    BY <1>1, <1>2, <2>2, PartHead, Zenon
  <2> QED BY <2>1, <2>3, <2>4 DEF a
<1> QED BY <1>1, <1>2, <1>3, <1>4, <1>5 DEF t, S

\* An operation of the script that reads one reply or none, and, in hyper, what
\* follows the last one.
LEMMA ReplyRead ==
    ASSUME TcpInv, client.script # <<>>, UNCHANGED <<how, server, remote>>,
           client'.got = client.got, client'.script = Tail(client.script),
           client'.state = client.state, Done' = Done + 1,
           NEW n \in 0..Len(down), NEW r \in {0, 1}, r <= n,
           n > r => how.client = "http" /\ Done + 1 = Len(Script(how)),
           down' = SubSeq(down, n + 1, Len(down)),
           Heard(how, Done + 1) = Heard(how, Done) + r
    PROVE  DownFollows'
<1> SUFFICES ASSUME ~Over', client'.state = "run", (how.client # "get")'
             PROVE  /\ Len(down') <= Given' /\ down' = Part(Told(how'), Given' - Len(down'), Given')
                    /\ client'.script # <<>> => Given' - Len(down') = Heard(how', Done') /\ client'.got = <<>>
                    /\ client'.script = <<>> =>
                         /\ Len(client'.got) + Len(Welcome(how')) <= Given' - Len(down')
                         /\ how'.client # "http" => Len(client'.got) + Len(Welcome(how')) = Given' - Len(down')
                         /\ client'.got = Part(Told(how'), Given' - Len(down') - Len(client'.got), Given' - Len(down'))
  BY DEF DownFollows
<1> DEFINE t == Told(how)
           S == Mail(how)
           g == Given
           a == g - Len(down)
           b == a + n
<1>1. ~Over /\ Given' = g /\ client.state = "run" /\ how.client # "get"
  BY ServerStays
<1>2. /\ g \in Nat /\ g <= Len(t) /\ t \in Seq(S) /\ Len(t) \in Nat
      /\ down \in Seq(S) /\ Len(down) \in Nat /\ Len(down) <= g
      /\ down = Part(t, a, g) /\ a = Heard(how, Done) /\ client.got = <<>>
  BY <1>1, Streaming
<1>3. Done \in 0..(Len(Script(how)) - 1) /\ Len(Script(how)) \in Nat
      /\ Tail(client.script) = Part(Script(how), Done + 1, Len(Script(how)))
      /\ Script(how) \in Seq(Operation(how))
  BY ClientAt DEF TcpInv
<1>4. /\ a \in Nat /\ a <= g /\ n \in Nat /\ Len(down) = g - a /\ r \in Nat /\ r <= n
      /\ n \in 0..(g - a) /\ b \in Nat /\ b <= g /\ b = a + n
  <2> DEFINE z == Len(down)
  <2>1. z \in Nat /\ z <= g /\ g \in Nat /\ n \in 0..z
    BY <1>2
  <2>2. a = g - z
    OBVIOUS
  <2> HIDE DEF z, a, g
  <2>3. r \in Nat /\ r <= n /\ n \in Nat
    BY <2>1
  <2>4. a \in Nat /\ a <= g /\ z = g - a /\ n \in 0..(g - a) /\ b \in Nat /\ b <= g /\ b = a + n
    BY <2>1, <2>2
  <2> QED BY <2>3, <2>4 DEF z
<1> HIDE DEF t, S, g, a
<1>5. SubSeq(Part(t, a, g), n + 1, g - a) = Part(t, a + n, g)
  <2>1. t \in Seq(S) /\ a \in Nat /\ g \in Nat /\ a <= g /\ g <= Len(t) /\ n \in 0..(g - a)
    BY <1>2, <1>4
  <2> QED BY ONLY <2>1, PartDrop, Zenon
<1>6. Len(Part(t, b, g)) = g - b
  <2> HIDE DEF b
  <2>1. t \in Seq(S) /\ b \in Nat /\ g \in Nat /\ b <= g /\ g <= Len(t)
    BY <1>2, <1>4
  <2> QED BY ONLY <2>1, PartSeq, Zenon
<1> HIDE DEF b
<1>7. down' = Part(t, b, g) /\ Len(down') <= g /\ g - Len(down') = b
  <2>1. down' = Part(t, b, g)
    BY <1>2, <1>4, <1>5
  <2>2. Len(down') = g - b
    BY <1>6, <2>1
  <2> DEFINE z == Len(down')
  <2>3. z = g - b /\ b \in Nat /\ b <= g /\ g \in Nat
    BY <1>2, <1>4, <2>2
  <2> HIDE DEF z
  <2>4. z <= g /\ g - z = b
    BY <2>3
  <2> QED BY <2>1, <2>4 DEF z
<1>8. client'.script = <<>> <=> Done + 1 = Len(Script(how))
  <2> DEFINE s == Script(how)
             k == Done + 1
             l == Len(s)
  <2>1. k \in Nat /\ k <= l /\ l \in Nat /\ l <= Len(s)
    BY <1>3
  <2> HIDE DEF k, l
  <2>2. Part(s, k, l) = <<>> <=> k = l
    <3>1. s \in Seq(Operation(how)) /\ k \in Nat /\ l \in Nat /\ k <= l /\ l <= Len(s)
      BY <1>3, <2>1
    <3> HIDE DEF s
    <3> QED BY ONLY <3>1, PartEmpty, Zenon
  <2> QED BY <1>3, <2>2 DEF k, l
<1>9. n > r \/ n = r
  OBVIOUS
<1>10. client'.script # <<>> => b = Heard(how, Done + 1)
  <2>1. client'.script # <<>> => n = r
    BY <1>8, <1>9
  <2> QED BY <1>2, <1>4, <2>1
<1>11. ASSUME client'.script = <<>>
       PROVE  /\ Len(Welcome(how)) <= b
              /\ how.client # "http" => Len(Welcome(how)) = b
              /\ client'.got = Part(t, b, b)
  <2> DEFINE m == a + r
  <2>1. m \in Nat /\ m <= g
    <3>1. a \in Nat /\ r \in Nat /\ n \in Nat /\ r <= n /\ g \in Nat /\ b = a + n /\ b <= g
      BY <1>2, <1>4
    <3> QED BY <3>1
  <2>2. m = Heard(how, Len(Script(how)))
    <3> QED BY <1>2, <1>8, <1>11
  <2>3. m = Len(Welcome(how))
    <3> HIDE DEF m
    <3> QED BY <1>1, <2>1, <2>2, HandshakeEnds DEF g
  <2>4. Part(t, b, b) = <<>>
    <3>1. t \in Seq(S) /\ b \in Nat /\ b <= b /\ b <= Len(t)
      BY <1>2, <1>4
    <3> QED BY ONLY <3>1, PartEmpty, Zenon
  <2>5. m <= b /\ (how.client # "http" => m = b)
    <3>1. how.client # "http" => n = r
      BY <1>9
    <3> QED BY <1>4, <3>1
  <2> HIDE DEF m
  <2> QED BY <1>2, <2>3, <2>4, <2>5
<1>12. client'.got = <<>> /\ Len(client'.got) = 0
  BY <1>2
<1>13. Given' - Len(down') = b /\ Len(down') <= Given' /\ Given' = g
  BY <1>1, <1>7
<1>14. Told(how') = t /\ Welcome(how') = Welcome(how) /\ how' = how
  BY DEF t
<1>15. Len(Welcome(how)) \in Nat
  <2>1. Welcome(how) \in Seq(Mail(how))
    BY StreamForms DEF TcpInv, TcpTyped
  <2> QED BY <2>1
<1>16. ASSUME client'.script = <<>>
       PROVE  /\ Len(client'.got) + Len(Welcome(how)) <= b
              /\ how.client # "http" => Len(client'.got) + Len(Welcome(how)) = b
              /\ client'.got = Part(t, b - Len(client'.got), b)
  <2>1. b - 0 = b /\ b \in Nat /\ 0 + Len(Welcome(how)) = Len(Welcome(how))
    BY <1>4, <1>15
  <2> QED BY <1>11, <1>12, <1>16, <2>1
<1> QED BY <1>7, <1>10, <1>12, <1>13, <1>14, <1>16

\* A client that was refused does not get past the reply that says so.
LEMMA StaysRefused ==
    ASSUME TcpInv, client.state = "run", client.script # <<>>, UNCHANGED <<how, server>>,
           client'.script = Tail(client.script), NextOp.op # "close",
           NextOp.op = "read" => down # <<>> /\ Head(down) = Head(NextOp.ms)
    PROVE  Unopened'
<1> SUFFICES ASSUME how.client \in {"password", "quiet"}, ~Over, Tail(client.script) = <<>>
             PROVE  FALSE
  BY DEF Unopened, Over
<1> DEFINE k == Done
<1>0. how \in Scenarios
  BY DEF TcpInv, TcpTyped
<1>1. /\ k \in 0..(Len(Script(how)) - 1) /\ Len(Script(how)) \in Nat
      /\ NextOp = Script(how)[k + 1] /\ Does(how, k, NextOp)
      /\ Len(Tail(client.script)) = Len(client.script) - 1 /\ Len(client.script) \in Nat
  BY ClientAt DEF TcpInv
<1>2. k = Len(Script(how)) - Len(client.script)
  BY DEF Done
<1>3. Len(client.script) = 1
  <2> DEFINE z == Len(client.script)
  <2>1. z \in Nat /\ 0 = z - 1
    BY <1>1
  <2> HIDE DEF z
  <2>2. z = 1
    BY <2>1
  <2> QED BY <2>2 DEF z
<1> HIDE DEF k
<1>4. CASE how.client = "quiet"
  <2>1. Len(Script(how)) = 1 /\ Script(how)[1].op = "close"
    BY <1>0, <1>4, QuietScript
  <2>2. k = 0
    BY <1>2, <1>3, <2>1
  <2> QED BY <1>1, <2>1, <2>2
<1>5. CASE how.client = "password"
  <2>1. Len(Script(how)) = 4
    BY <1>0, <1>5, ScriptForms DEF Commands
  <2>2. k = 3
    BY <1>2, <1>3, <2>1
  <2>3. Heard(how, k) = 1 /\ Heard(how, k + 1) = 2
    BY <1>5, <2>2 DEF Heard, Commands
  <2>4. NextOp.op = "read" /\ Head(NextOp.ms) = Byte("noauth")
    BY <1>1, <1>5, <2>3 DEF Does
  <2>5. Head(down) = Told(how)[1 + 1]
    <3>1. Given - Len(down) = Heard(how, k) /\ Head(down) = Told(how)[Given - Len(down) + 1]
      BY <1>5, <2>4, Streaming DEF k
    <3> QED BY <2>3, <3>1
  <2>6. Told(how)[2] = Byte("refused")
    <3>1. Welcome(how)[2] = Byte("refused") /\ Len(Welcome(how)) = 2
      BY <1>0, <1>5, StreamForms
    <3>2. \A i \in 1..Len(Welcome(how)) : Told(how)[i] = Welcome(how)[i]
      BY <1>0, WrittenForms
    <3> QED BY <3>1, <3>2
  <2> QED BY <2>4, <2>5, <2>6 DEF Byte, Msg
<1> QED BY <1>4, <1>5

\* The forms of a client's state after an operation.
LEMMA ClientRecord ==
    ASSUME TcpTyped, client.script # <<>>
    PROVE  /\ NextOp \in Operation(how) /\ NextOp.ms \in Seq(Mail(how))
           /\ Continue(client) = [client EXCEPT !.script = Tail(client.script)]
           /\ Tail(client.script) \in Seq(Operation(how))
<1>1. client.script \in Seq(Operation(how))
  BY DEF TcpTyped
<1>2. NextOp \in Operation(how) /\ Tail(client.script) \in Seq(Operation(how))
  BY <1>1 DEF NextOp
<1>3. NextOp.ms \in Seq(Mail(how))
  BY <1>2 DEF Operation
<1> QED BY <1>2, <1>3 DEF Continue

ClientStates(h) ==
    [script : Seq(Operation(h)), buf : Seq(Mail(h)), state : {"run", "failed"},
     data : Seq(Mail(h)), got : Seq(Mail(h))]

LEMMA ClientTyped ==
    ASSUME TcpTyped, UNCHANGED <<how, server, remote>>,
           client' \in ClientStates(how), up' \in Seq(Mail(how)), down' \in Seq(Mail(how))
    PROVE  TcpTyped'
  BY DEF TcpTyped, ClientStates

\* A client that has failed stays as it is.
LEMMA ClientFails ==
    ASSUME TcpInv, UNCHANGED <<how, server, up, shut, remote>>, down' \in Seq(Mail(how)),
           client' = [client EXCEPT !.state = "failed"],
           "closed" \in Course \/ server.pc = "failed"
    PROVE  TcpInv'
<1>1. client \in ClientStates(how) /\ up \in Seq(Mail(how)) /\ TcpTyped
  BY DEF TcpInv, TcpTyped, ClientStates
<1>2. /\ client' \in ClientStates(how) /\ client'.script = client.script
      /\ client'.buf = client.buf /\ client'.data = client.data
      /\ client'.got = client.got /\ client'.state = "failed"
  BY <1>1 DEF ClientStates
<1>3. TcpTyped'
  BY <1>1, <1>2, ClientTyped
<1>4. ClientFollows' /\ Sent' = Sent
  BY <1>2 DEF TcpInv, ClientFollows, Done, Sent
<1>5. UpFollows'
  BY <1>4, UpStays
<1>6. DownFollows'
  BY <1>2 DEF DownFollows
<1>7. Unopened'
  BY <1>2 DEF TcpInv, Unopened, Over
<1> QED BY <1>3, <1>4, <1>5, <1>6, <1>7, ClientKeeps

LEMMA ClientWritesKeeps ==
    ASSUME TcpInv, ClientWrites
    PROVE  TcpInv'
<1> DEFINE M == Mail(how)
           w == Written(how)
           k == Done
           f == Flushed(how, k)
           b == Buffered(how, k)
<1>1. /\ client.state = "run" /\ client.script # <<>>
      /\ UNCHANGED <<how, server, down, shut, remote>>
  BY DEF ClientWrites
<1>2. how \in Scenarios /\ client \in ClientStates(how) /\ up \in Seq(M) /\ down \in Seq(M) /\ TcpTyped
  BY DEF TcpInv, TcpTyped, ClientStates
<1>3. /\ k \in 0..(Len(Script(how)) - 1) /\ NextOp = Script(how)[k + 1] /\ Does(how, k, NextOp)
      /\ f \in Nat /\ b \in Nat /\ f <= b /\ b <= Len(w) /\ Sent = f /\ w \in Seq(M) /\ Len(w) \in Nat
      /\ Len(Script(how)) \in Nat
  BY <1>1, ClientAt DEF TcpInv
<1>4. client.buf = Part(w, f, b)
  BY DEF TcpInv, ClientFollows
<1>5. /\ NextOp.ms \in Seq(M) /\ Tail(client.script) \in Seq(Operation(how))
      /\ Continue(client) = [client EXCEPT !.script = Tail(client.script)]
  BY <1>1, <1>2, ClientRecord
<1>6. CASE NextOp.op = "write" /\ client' = [Continue(client) EXCEPT !.buf = @ \o NextOp.ms] /\ UNCHANGED up
  <2> DEFINE c == Buffered(how, k + 1)
  <2>1. /\ NextOp.ms = Part(w, b, c) /\ b <= c
        /\ Flushed(how, k + 1) = f /\ Heard(how, k + 1) = Heard(how, k)
    BY <1>3, <1>6 DEF Does
  <2>2. c \in Nat /\ c <= Len(w)
    <3>1. k + 1 \in 0..Len(Script(how))
      BY <1>3
    <3>2. /\ c \in Nat /\ c <= Len(w) - Len(Unwritten(how)) /\ Len(Unwritten(how)) \in Nat
      BY <1>2, <3>1, Progress
    <3> HIDE DEF c, w
    <3> QED BY <1>3, <3>2
  <2>3. client.buf \o NextOp.ms = Part(w, f, c)
    <3> HIDE DEF w, M, k, f, b, c
    <3>1. w \in Seq(M) /\ f \in Nat /\ b \in Nat /\ c \in Nat /\ f <= b /\ b <= c /\ c <= Len(w)
      BY <1>3, <2>1, <2>2
    <3>2. Part(w, f, b) \o Part(w, b, c) = Part(w, f, c)
      BY ONLY <3>1, PartGlue, Zenon
    <3> QED BY <1>4, <2>1, <3>2
  <2>4. /\ client' \in ClientStates(how) /\ client'.script = Tail(client.script)
        /\ client'.buf = client.buf \o NextOp.ms /\ client'.data = client.data
        /\ client'.got = client.got /\ client'.state = client.state
    <3> HIDE DEF M
    <3>1. client.buf \in Seq(M) /\ client.buf \o NextOp.ms \in Seq(M)
      BY <1>2, <1>5 DEF ClientStates, M
    <3>2. client' = [client EXCEPT !.script = Tail(client.script), !.buf = client.buf \o NextOp.ms]
      BY <1>2, <1>5, <1>6 DEF ClientStates
    <3> QED BY <1>2, <1>5, <3>1, <3>2 DEF ClientStates, M
  <2>5. TcpTyped'
    BY <1>1, <1>2, <1>6, <2>4, ClientTyped
  <2>6. ClientFollows' /\ Done' = Done + 1 /\ Sent' = f
    BY <1>1, <2>1, <2>3, <2>4, Advances
  <2>7. UpFollows'
    BY <1>1, <1>3, <1>6, <2>6, UpStays
  <2>8. DownFollows'
    <3>1. 0 \in 0..Len(down) /\ down' = SubSeq(down, 0 + 1, Len(down))
      BY <1>1, <1>2, SubSeqFull
    <3>2. Heard(how, Done + 1) = Heard(how, Done) + 0
      <4>1. Heard(how, k) \in Nat
        BY <1>2, <1>3, Progress
      <4> QED BY <2>1, <4>1
    <3> QED BY <1>1, <2>4, <2>6, <3>1, <3>2, ReplyRead
  <2>9. Unopened'
    BY <1>1, <1>6, <2>4, StaysRefused
  <2> QED BY <1>1, <2>4, <2>5, <2>6, <2>7, <2>8, <2>9, ClientKeeps
<1>7. CASE NextOp.op = "flush" /\ client' = [Continue(client) EXCEPT !.buf = <<>>] /\ up' = up \o client.buf
  <2>1. /\ Flushed(how, k + 1) = b /\ Buffered(how, k + 1) = b /\ Heard(how, k + 1) = Heard(how, k)
    BY <1>3, <1>7 DEF Does
  <2>2. Part(w, b, b) = <<>>
    <3> HIDE DEF w, M, k, f, b
    <3>1. w \in Seq(M) /\ b \in Nat /\ b <= b /\ b <= Len(w)
      BY <1>3
    <3> QED BY ONLY <3>1, PartEmpty, Zenon
  <2>4. /\ client' \in ClientStates(how) /\ client'.script = Tail(client.script)
        /\ client'.buf = <<>> /\ client'.data = client.data
        /\ client'.got = client.got /\ client'.state = client.state
    <3> DEFINE none == <<>>
    <3>1. none \in Seq(M)
      OBVIOUS
    <3>2. client' = [Continue(client) EXCEPT !.buf = none]
      BY <1>7
    <3> HIDE DEF M, none
    <3>3. client' = [client EXCEPT !.script = Tail(client.script), !.buf = none]
      BY <1>2, <1>5, <3>2 DEF ClientStates
    <3>4. /\ client' \in ClientStates(how) /\ client'.script = Tail(client.script)
          /\ client'.buf = none /\ client'.data = client.data
          /\ client'.got = client.got /\ client'.state = client.state
      BY <1>2, <1>5, <3>1, <3>3 DEF ClientStates, M
    <3> QED BY <3>4 DEF none
  <2>5. up' \in Seq(M)
    <3> HIDE DEF M
    <3>1. client.buf \in Seq(M)
      BY <1>2 DEF ClientStates, M
    <3> QED BY <1>2, <1>7, <3>1
  <2>6. TcpTyped'
    BY <1>1, <1>2, <2>4, <2>5, ClientTyped
  <2>7. ClientFollows' /\ Done' = Done + 1 /\ Sent' = b
    BY <1>1, <2>1, <2>2, <2>4, Advances
  <2>8. UpFollows'
    <3>1. up' = up \o Part(w, Sent, Sent')
      BY <1>3, <1>4, <1>7, <2>7
    <3>2. Sent' \in Nat /\ Sent <= Sent' /\ Sent' <= Len(w)
      BY <1>3, <2>7
    <3> QED BY <1>1, <3>1, <3>2, UpGrows
  <2>9. DownFollows'
    <3>1. 0 \in 0..Len(down) /\ down' = SubSeq(down, 0 + 1, Len(down))
      BY <1>1, <1>2, SubSeqFull
    <3>2. Heard(how, Done + 1) = Heard(how, Done) + 0
      <4>1. Heard(how, k) \in Nat
        BY <1>2, <1>3, Progress
      <4> QED BY <2>1, <4>1
    <3> QED BY <1>1, <2>4, <2>7, <3>1, <3>2, ReplyRead
  <2>10. Unopened'
    BY <1>1, <1>7, <2>4, StaysRefused
  <2> QED BY <1>1, <2>4, <2>6, <2>7, <2>8, <2>9, <2>10, ClientKeeps
<1>8. CASE NextOp.op = "close" /\ client' = [client EXCEPT !.state = "failed"] /\ UNCHANGED up
  <2>1. how.client = "quiet"
    BY <1>3, <1>8 DEF Does
  <2>2. "closed" \in Course
    BY <2>1 DEF Course
  <2> QED BY <1>1, <1>2, <1>8, <2>2, ClientFails
<1> QED BY <1>6, <1>7, <1>8 DEF ClientWrites

\* The replies that a client of this repository reads are the ones it waits for.
LEMMA RepliesMatch ==
    ASSUME TcpInv, "closed" \notin Course, ~Over, client.state = "run", client.script # <<>>,
           NextOp.op = "read", down # <<>>
    PROVE  Head(down) = Head(NextOp.ms)
<1> DEFINE k == Done
           n == Heard(how, k)
<1>0. how \in Scenarios /\ how.client \in Kinds
  BY ScenarioForms DEF TcpInv, TcpTyped
<1>1. how.client \in {"socks5", "eager", "udp", "http", "raw", "none"}
  BY <1>0 DEF Course, Kinds
<1>2. /\ k \in 0..(Len(Script(how)) - 1) /\ Does(how, k, NextOp) /\ Len(Script(how)) \in Nat
  BY ClientAt DEF TcpInv
<1>3. n < Len(Welcome(how)) /\ n \in Nat /\ Len(Welcome(how)) \in Nat
  <2>1. Len(Welcome(how)) = IF how.client \in {"socks5", "eager", "udp"} THEN 3
                            ELSE IF how.client \in {"bind", "password"} THEN 2
                            ELSE IF how.client = "http" THEN 1 ELSE 0
    BY <1>0, StreamForms
  <2>2. Len(Script(how)) = IF how.client \in Commands THEN 7 ELSE IF how.client = "eager" THEN 5
                           ELSE IF how.client = "password" THEN 4
                           ELSE IF how.client \in {"http", "get"} THEN 3
                           ELSE IF how.client = "quiet" THEN 1 ELSE 0
    BY <1>0, ScriptForms
  <2> HIDE DEF k
  <2>3. CASE how.client \in {"socks5", "udp"}
    <3>1. k \in 0..6 /\ Len(Welcome(how)) = 3
      BY <1>2, <2>1, <2>2, <2>3 DEF Commands
    <3> QED BY <2>3, <3>1 DEF Heard, Commands
  <2>4. CASE how.client = "eager"
    <3>1. k \in 0..4 /\ Len(Welcome(how)) = 3
      BY <1>2, <2>1, <2>2, <2>4 DEF Commands
    <3> QED BY <2>4, <3>1 DEF Heard, Commands
  <2>5. CASE how.client = "http"
    <3>1. k \in 0..2 /\ Len(Welcome(how)) = 1
      BY <1>2, <2>1, <2>2, <2>5 DEF Commands
    <3> QED BY <2>5, <3>1 DEF Heard, Commands
  <2>6. CASE how.client \in {"raw", "none"}
    BY <1>2, <2>2, <2>6 DEF Commands
  <2> QED BY <1>1, <2>3, <2>4, <2>5, <2>6
<1>4. Head(NextOp.ms) = Welcome(how)[n + 1]
  BY <1>1, <1>2, <1>3 DEF Does
<1>5. Head(down) = Told(how)[n + 1]
  <2>1. Given - Len(down) = n /\ Head(down) = Told(how)[Given - Len(down) + 1]
    BY <1>1, Streaming
  <2> QED BY <2>1
<1>6. n + 1 \in 1..Len(Welcome(how))
  BY <1>3
<1>7. Told(how)[n + 1] = Welcome(how)[n + 1]
  <2> HIDE DEF n
  <2> QED BY <1>0, <1>6, WrittenForms
<1> QED BY <1>4, <1>5, <1>7

LEMMA ClientReadsKeeps ==
    ASSUME TcpInv, ClientReads
    PROVE  TcpInv'
<1> DEFINE M == Mail(how)
           k == Done
<1>1. /\ client.state = "run" /\ client.script # <<>> /\ NextOp.op = "read"
      /\ UNCHANGED <<how, server, up, shut, remote>>
  BY DEF ClientReads
<1>2. how \in Scenarios /\ client \in ClientStates(how) /\ up \in Seq(M) /\ down \in Seq(M) /\ TcpTyped
  BY DEF TcpInv, TcpTyped, ClientStates
<1>3. /\ k \in 0..(Len(Script(how)) - 1) /\ NextOp = Script(how)[k + 1] /\ Does(how, k, NextOp)
      /\ Sent = Flushed(how, k) /\ Len(Script(how)) \in Nat
  BY <1>1, ClientAt DEF TcpInv
<1>4. /\ Flushed(how, k + 1) = Flushed(how, k) /\ Buffered(how, k + 1) = Buffered(how, k)
      /\ Heard(how, k + 1) = Heard(how, k) + 1
  BY <1>1, <1>3 DEF Does
<1>5. Len(down) \in Nat /\ (down # <<>> => Len(down) > 0)
  <2> HIDE DEF M
  <2> QED BY <1>2
<1>6. ASSUME down # <<>>, Head(down) = Head(NextOp.ms),
             NEW j \in 0..(Len(down) - 1), j > 0 => ReadsAhead,
             down' = SubSeq(down, j + 2, Len(down)), client' = Continue(client)
      PROVE  TcpInv'
  <2>1. /\ client' \in ClientStates(how) /\ client'.script = Tail(client.script)
        /\ client'.buf = client.buf /\ client'.data = client.data
        /\ client'.got = client.got /\ client'.state = client.state
    <3>1. /\ Tail(client.script) \in Seq(Operation(how))
          /\ client' = [client EXCEPT !.script = Tail(client.script)]
      BY <1>1, <1>2, <1>6, ClientRecord
    <3> QED BY <1>2, <3>1 DEF ClientStates
  <2> DEFINE n == j + 1
  <2>2. n \in 0..Len(down) /\ n \in Nat /\ n >= 1 /\ j + 2 = n + 1 /\ (n > 1 => j > 0)
    BY <1>5
  <2>3. down' = SubSeq(down, n + 1, Len(down)) /\ down' \in Seq(M)
    <3>1. down' = SubSeq(down, n + 1, Len(down))
      BY <1>6, <2>2
    <3> HIDE DEF n, M
    <3> QED BY <1>2, <1>5, <2>2, <3>1
  <2>4. n > 1 => how.client = "http" /\ Done + 1 = Len(Script(how))
    <3> SUFFICES ASSUME n > 1 PROVE how.client = "http" /\ Done + 1 = Len(Script(how))
      OBVIOUS
    <3>1. how.client = "http"
      BY <1>6, <2>2 DEF ReadsAhead
    <3>2. Len(Script(how)) = 3
      BY <1>2, <3>1, ScriptForms DEF Commands
    <3>3. k \in {0, 1, 2}
      BY <1>3, <3>2
    <3> HIDE DEF k
    <3>4. k # 0 /\ k # 1
      BY <1>4, <3>1 DEF Heard, Commands
    <3> QED BY <3>1, <3>2, <3>3, <3>4 DEF k
  <2>5. TcpTyped'
    BY <1>1, <1>2, <2>1, <2>3, ClientTyped
  <2>6. ClientFollows' /\ Done' = Done + 1 /\ Sent' = Sent
    <3>1. client.buf = Part(Written(how), Flushed(how, Done + 1), Buffered(how, Done + 1))
      BY <1>4 DEF TcpInv, ClientFollows
    <3> QED BY <1>1, <1>3, <1>4, <2>1, <3>1, Advances
  <2>7. UpFollows'
    BY <1>1, <2>6, UpStays
  <2>8. DownFollows'
    <3>1. 1 \in {0, 1} /\ 1 <= n
      BY <2>2
    <3> HIDE DEF n
    <3> QED BY <1>1, <1>4, <2>1, <2>2, <2>3, <2>4, <2>6, <3>1, ReplyRead
  <2>9. Unopened'
    BY <1>1, <1>6, <2>1, StaysRefused
  <2> QED BY <1>1, <2>1, <2>5, <2>6, <2>7, <2>8, <2>9, ClientKeeps
<1>7. ASSUME client' = [client EXCEPT !.state = "failed"], down' \in Seq(M),
             "closed" \in Course \/ server.pc = "failed"
      PROVE  TcpInv'
  BY <1>1, <1>7, ClientFails
<1>8. CASE down # <<>> /\ Head(down) # Head(NextOp.ms) /\ down' = Tail(down)
           /\ client' = [client EXCEPT !.state = "failed"]
  <2>1. "closed" \in Course \/ server.pc = "failed"
    <3>1. "closed" \in Course \/ Over
      BY <1>1, <1>8, RepliesMatch
    <3> QED BY <3>1 DEF Over, TcpInv, OnCourse
  <2>2. down' \in Seq(M)
    <3> HIDE DEF M
    <3> QED BY <1>2, <1>8
  <2> QED BY <1>7, <1>8, <2>1, <2>2
<1>9. CASE down = <<>> /\ shut /\ client' = [client EXCEPT !.state = "failed"] /\ UNCHANGED down
  <2>1. "closed" \in Course \/ server.pc = "failed"
    BY <1>9 DEF Over, TcpInv, OnCourse
  <2> QED BY <1>2, <1>7, <1>9, <2>1
<1>10. \/ /\ down # <<>> /\ Head(down) = Head(NextOp.ms)
          /\ \E j \in 0..(Len(down) - 1) :
               /\ j > 0 => ReadsAhead
               /\ down' = SubSeq(down, j + 2, Len(down))
          /\ client' = Continue(client)
       \/ /\ down # <<>> /\ Head(down) # Head(NextOp.ms)
          /\ client' = [client EXCEPT !.state = "failed"]
          /\ down' = Tail(down)
       \/ /\ down = <<>> /\ shut
          /\ client' = [client EXCEPT !.state = "failed"]
          /\ UNCHANGED down
  BY DEF ClientReads
<1> QED BY <1>6, <1>8, <1>9, <1>10

LEMMA UserWritesKeeps ==
    ASSUME TcpInv, UserWrites
    PROVE  TcpInv'
<1> DEFINE M == Mail(how)
           w == Written(how)
           d == client.data
           l == Len(w)
           n == l - Len(d)
<1>1. /\ client.state = "run" /\ client.script = <<>> /\ d # <<>>
      /\ up' = Append(up, Head(d)) /\ client' = [client EXCEPT !.data = Tail(d)]
      /\ UNCHANGED <<how, server, down, shut, remote>>
  BY DEF UserWrites
<1>2. /\ how \in Scenarios /\ client \in ClientStates(how) /\ d \in Seq(M)
      /\ up \in Seq(M) /\ down \in Seq(M) /\ TcpTyped
  BY DEF TcpInv, TcpTyped, ClientStates
<1>3. w \in Seq(M) /\ l \in Nat /\ Len(d) \in Nat /\ Sent = n /\ Sent \in Nat /\ Len(Unwritten(how)) \in Nat
  BY <1>1, ClientAt DEF TcpInv
<1>4. d = Part(w, n, l) /\ Len(d) <= Len(Unwritten(how))
  BY DEF TcpInv, ClientFollows
<1>5. Head(d) \in M /\ Tail(d) \in Seq(M) /\ Len(Tail(d)) = Len(d) - 1 /\ Len(d) > 0
  <2> HIDE DEF M, d
  <2> QED BY <1>1, <1>2
<1>6. n \in Nat /\ n < l /\ n + 1 \in Nat /\ n + 1 <= l /\ l - (Len(d) - 1) = n + 1
  <2> DEFINE z == Len(d)
  <2>1. z \in Nat /\ z > 0 /\ l \in Nat /\ n = l - z /\ n \in Nat
    BY <1>3, <1>5
  <2> HIDE DEF z, l, n
  <2>2. n \in Nat /\ n < l /\ n + 1 \in Nat /\ n + 1 <= l /\ l - (z - 1) = n + 1
    BY <2>1
  <2> QED BY <2>2 DEF z
<1>7. Head(d) = w[n + 1] /\ Tail(d) = Part(w, n + 1, l) /\ Part(w, n, n + 1) = <<w[n + 1]>>
  <2> HIDE DEF w, M, n
  <2>1. w \in Seq(M) /\ n \in Nat /\ l \in Nat /\ n < l /\ l <= Len(w) /\ n < Len(w)
    BY <1>3, <1>6
  <2> HIDE DEF l
  <2>2. Head(Part(w, n, l)) = w[n + 1]
    BY ONLY <2>1, PartHead, Zenon
  <2>3. Tail(Part(w, n, l)) = Part(w, n + 1, l)
    BY ONLY <2>1, PartTail, Zenon
  <2>4. Part(w, n, n + 1) = <<w[n + 1]>>
    BY ONLY <2>1, PartOne, Zenon
  <2> QED BY <1>4, <2>2, <2>3, <2>4
<1>8. /\ client' \in ClientStates(how) /\ client'.script = client.script
      /\ client'.buf = client.buf /\ client'.data = Tail(d)
      /\ client'.got = client.got /\ client'.state = client.state
  <2> HIDE DEF d
  <2> QED BY <1>1, <1>2, <1>5 DEF ClientStates
<1>9. up' \in Seq(M) /\ up' = up \o Part(w, n, n + 1)
  <2> DEFINE x == Head(d)
  <2>1. x \in M /\ up' = Append(up, x) /\ Part(w, n, n + 1) = <<x>>
    BY <1>1, <1>5, <1>7
  <2> HIDE DEF x, M
  <2>2. up' \in Seq(M)
    BY <1>2, <2>1
  <2>3. Append(up, x) = up \o <<x>>
    BY <1>2, <2>1, AppendIsConcat
  <2> QED BY <2>1, <2>2, <2>3
<1>10. TcpTyped'
  BY <1>1, <1>2, <1>8, <1>9, ClientTyped
<1>11. Done' = Done
  BY <1>1, <1>8 DEF Done
<1>12. Sent' = n + 1
  <2> DEFINE z == Len(d)
             y == Len(Tail(d))
             f == Flushed(how, Done)
             v == Len(Unwritten(how))
  <2>1. Sent = f + (v - z)
    BY DEF Sent
  <2>2. Sent' = f + (v - y)
    BY <1>1, <1>8, <1>11 DEF Sent
  <2>3. f \in Nat /\ v \in Nat /\ z \in Nat /\ y = z - 1 /\ n \in Nat /\ Sent = n
    BY <1>3, <1>5, <1>6, ClientAt DEF TcpInv
  <2> HIDE DEF n, z, y, f, v
  <2> QED BY <2>1, <2>2, <2>3
<1>13. ClientFollows'
  <2>1. /\ Len(Tail(d)) <= Len(Unwritten(how)) /\ Tail(d) = Part(w, l - Len(Tail(d)), l)
    <3>1. Tail(d) = Part(w, l - Len(Tail(d)), l)
      BY <1>5, <1>6, <1>7
    <3>2. Len(Tail(d)) <= Len(Unwritten(how))
      <4> HIDE DEF d
      <4> QED BY <1>3, <1>4, <1>5
    <3> QED BY <3>1, <3>2
  <2> QED BY <1>1, <1>8, <1>11, <2>1 DEF TcpInv, ClientFollows
<1>14. UpFollows'
  <2> HIDE DEF n
  <2>1. Sent' \in Nat /\ Sent <= Sent' /\ Sent' <= Len(w) /\ up' = up \o Part(w, Sent, Sent')
    BY <1>3, <1>6, <1>9, <1>12
  <2> QED BY <1>1, <2>1, UpGrows
<1>15. DownFollows'
  BY <1>1, <1>8, <1>11, ServerStays DEF TcpInv, DownFollows
<1>16. Unopened'
  BY <1>1, <1>8 DEF TcpInv, Unopened, Over
<1> QED BY <1>1, <1>8, <1>10, <1>13, <1>14, <1>15, <1>16, ClientKeeps

LEMMA UserReadsKeeps ==
    ASSUME TcpInv, UserReads
    PROVE  TcpInv'
<1> DEFINE M == Mail(how)
<1>1. /\ client.state = "run" /\ client.script = <<>>
      /\ UNCHANGED <<how, server, up, shut, remote>>
  BY DEF UserReads
<1>2. /\ how \in Scenarios /\ client \in ClientStates(how) /\ client.got \in Seq(M)
      /\ up \in Seq(M) /\ down \in Seq(M) /\ TcpTyped
  BY DEF TcpInv, TcpTyped, ClientStates
<1>3. CASE down # <<>>
  <2> DEFINE x == Head(down)
             y == Append(client.got, x)
  <2>1. down' = Tail(down) /\ client' = [client EXCEPT !.got = y]
    BY <1>3 DEF UserReads
  <2>2. x \in M /\ Tail(down) \in Seq(M) /\ Len(Tail(down)) = Len(down) - 1 /\ Len(down) \in Nat /\ Len(down) > 0
    <3> HIDE DEF M
    <3> QED BY <1>2, <1>3
  <2>3. y \in Seq(M) /\ Len(y) = Len(client.got) + 1 /\ Len(client.got) \in Nat
    <3> HIDE DEF M, x
    <3> QED BY <1>2, <2>2
  <2>4. /\ client' \in ClientStates(how) /\ client'.script = client.script
        /\ client'.buf = client.buf /\ client'.data = client.data
        /\ client'.got = y /\ client'.state = client.state
    <3> HIDE DEF y
    <3> QED BY <1>2, <2>1, <2>3 DEF ClientStates
  <2>5. TcpTyped'
    BY <1>1, <1>2, <2>1, <2>2, <2>4, ClientTyped
  <2>6. ClientFollows' /\ Sent' = Sent /\ Done' = Done
    BY <1>1, <2>4 DEF TcpInv, ClientFollows, Done, Sent
  <2>7. UpFollows'
    BY <1>1, <2>6, UpStays
  <2>8. Unopened'
    BY <1>1, <2>4 DEF TcpInv, Unopened, Over
  <2>9. DownFollows'
    <3> SUFFICES ASSUME ~Over, how.client # "get"
                 PROVE  /\ Len(Tail(down)) <= Given
                        /\ Tail(down) = Part(Told(how), Given - Len(Tail(down)), Given)
                        /\ Len(y) + Len(Welcome(how)) <= Given - Len(Tail(down))
                        /\ how.client # "http" => Len(y) + Len(Welcome(how)) = Given - Len(Tail(down))
                        /\ y = Part(Told(how), Given - Len(Tail(down)) - Len(y), Given - Len(Tail(down)))
      BY <1>1, <2>1, <2>4, <2>6, ServerStays DEF DownFollows
    <3> DEFINE g == Given
               t == Told(how)
               a == g - Len(down)
               c == Len(client.got)
               e == a - c
    <3>1. /\ g \in Nat /\ g <= Len(t) /\ t \in Seq(M) /\ Len(t) \in Nat
          /\ Len(down) <= g /\ down = Part(t, a, g) /\ x = t[a + 1]
      BY <1>1, <1>3, Streaming
    <3>2. /\ c + Len(Welcome(how)) <= a /\ (how.client # "http" => c + Len(Welcome(how)) = a)
          /\ client.got = Part(t, e, a)
      BY <1>1 DEF TcpInv, DownFollows
    <3>3. Len(Welcome(how)) \in Nat
      <4>1. Welcome(how) \in Seq(Mail(how))
        BY <1>2, StreamForms
      <4> QED BY <4>1
    <3>4. /\ a \in Nat /\ a < g /\ a + 1 \in Nat /\ a + 1 <= g /\ c \in Nat /\ e \in Nat /\ e <= a
          /\ g - (Len(down) - 1) = a + 1 /\ a + 1 - (c + 1) = e /\ Len(down) - 1 <= g
      <4> DEFINE z == Len(down)
                 v == Len(Welcome(how))
      <4>1. z \in Nat /\ z > 0 /\ z <= g /\ g \in Nat /\ a = g - z /\ c \in Nat /\ v \in Nat /\ c + v <= a /\ e = a - c
        BY <2>2, <2>3, <3>1, <3>2, <3>3
      <4> HIDE DEF z, v, g, a, c, e
      <4>2. /\ a \in Nat /\ a < g /\ a + 1 \in Nat /\ a + 1 <= g /\ c \in Nat /\ e \in Nat /\ e <= a
            /\ g - (z - 1) = a + 1 /\ a + 1 - (c + 1) = e /\ z - 1 <= g
        BY <4>1
      <4> QED BY <4>2 DEF z
    <3> HIDE DEF M, g, t, a, e
    <3>5. Tail(down) = Part(t, a + 1, g)
      <4>1. t \in Seq(M) /\ a \in Nat /\ g \in Nat /\ a < g /\ g <= Len(t)
        BY <3>1, <3>4
      <4>2. Tail(Part(t, a, g)) = Part(t, a + 1, g)
        BY ONLY <4>1, PartTail, Zenon
      <4> QED BY <3>1, <4>2
    <3>6. y = Part(t, e, a + 1)
      <4>1. t \in Seq(M) /\ e \in Nat /\ a \in Nat /\ e <= a /\ a < Len(t)
        BY <3>1, <3>4
      <4>2. Append(Part(t, e, a), t[a + 1]) = Part(t, e, a + 1)
        BY ONLY <4>1, PartNext, Zenon
      <4> QED BY <3>1, <3>2, <4>2
    <3>7. Len(Tail(down)) <= g /\ g - Len(Tail(down)) = a + 1
      BY <2>2, <3>4
    <3>8. Len(y) + Len(Welcome(how)) <= a + 1 /\ (how.client # "http" => Len(y) + Len(Welcome(how)) = a + 1)
      <4> HIDE DEF y, c
      <4>1. Len(y) = c + 1
        BY <2>3 DEF c
      <4> QED BY <3>2, <3>3, <3>4, <4>1
    <3>9. g - Len(Tail(down)) - Len(y) = e
      <4> HIDE DEF y
      <4> QED BY <2>3, <3>4, <3>7
    <3> HIDE DEF y
    <3> QED BY <3>5, <3>6, <3>7, <3>8, <3>9 DEF g, t
  <2> QED BY <1>1, <2>4, <2>5, <2>6, <2>7, <2>8, <2>9, ClientKeeps
<1>4. CASE down = <<>>
  <2>1. shut /\ client' = [client EXCEPT !.state = "failed"] /\ UNCHANGED down
    BY <1>4 DEF UserReads
  <2>2. "closed" \in Course \/ server.pc = "failed"
    BY <2>1 DEF Over, TcpInv, OnCourse
  <2> QED BY <1>1, <1>2, <2>1, <2>2, ClientFails
<1> QED BY <1>3, <1>4

-----------------------------------------------------------------------------
(* The server's steps.                                                     *)

\* Reading n messages of what was peeked and of what follows is reading them of
\* the stream.
LEMMA DropJoin ==
    ASSUME NEW S, NEW x \in Seq(S), NEW y \in Seq(S), NEW n \in Nat, n <= Len(x) + Len(y)
    PROVE  SubSeq(x, n + 1, Len(x)) \o (IF n <= Len(x) THEN y ELSE SubSeq(y, n - Len(x) + 1, Len(y)))
             = SubSeq(x \o y, n + 1, Len(x) + Len(y))
<1> DEFINE p == Len(x)
           q == Len(y)
           z == x \o y
           a == SubSeq(x, n + 1, p)
           b == IF n <= p THEN y ELSE SubSeq(y, n - p + 1, q)
           s == a \o b
           t == SubSeq(z, n + 1, p + q)
<1>1. p \in Nat /\ q \in Nat
  OBVIOUS
<1>2. /\ z \in Seq(S) /\ Len(z) = p + q
      /\ \A i \in 1..(p + q) : z[i] = IF i <= p THEN x[i] ELSE y[i - p]
  BY ConcatProperties, Zenon
<1> HIDE DEF z
<1>3. /\ t \in Seq(S) /\ Len(t) = p + q - n /\ \A i \in 1..(p + q - n) : t[i] = z[n + i]
  BY <1>1, <1>2
<1> HIDE DEF t
<1>4. CASE n <= p
  <2>1. /\ a \in Seq(S) /\ Len(a) = p - n /\ \A i \in 1..(p - n) : a[i] = x[n + i]
    BY <1>1, <1>4
  <2>2. b = y
    BY <1>4
  <2> HIDE DEF a, b
  <2>3. /\ s \in Seq(S) /\ Len(s) = Len(a) + Len(b)
        /\ \A i \in 1..(Len(a) + Len(b)) : s[i] = IF i <= Len(a) THEN a[i] ELSE b[i - Len(a)]
    <3>1. a \in Seq(S) /\ b \in Seq(S)
      BY <2>1, <2>2
    <3> QED BY <3>1, ConcatProperties, Zenon
  <2> HIDE DEF s
  <2>4. Len(s) = Len(t)
    BY <1>1, <1>3, <1>4, <2>1, <2>2, <2>3
  <2>5. ASSUME NEW i \in 1..Len(s) PROVE s[i] = t[i]
    <3>1. i \in 1..(p + q - n) /\ i \in 1..(Len(a) + Len(b)) /\ n + i \in 1..(p + q)
      BY <1>1, <1>3, <1>4, <2>3, <2>4
    <3>2. t[i] = z[n + i] /\ z[n + i] = (IF n + i <= p THEN x[n + i] ELSE y[n + i - p])
      BY <1>2, <1>3, <3>1
    <3>3. s[i] = IF i <= p - n THEN a[i] ELSE y[i - (p - n)]
      BY <2>1, <2>2, <2>3, <3>1
    <3>4. CASE i <= p - n
      <4>1. a[i] = x[n + i] /\ n + i <= p
        BY <1>1, <1>4, <2>1, <3>1, <3>4
      <4> QED BY <3>2, <3>3, <3>4, <4>1
    <3>5. CASE ~(i <= p - n)
      <4>1. i - (p - n) = n + i - p /\ ~(n + i <= p)
        BY <1>1, <1>4, <3>1, <3>5
      <4> QED BY <3>2, <3>3, <3>5, <4>1
    <3> QED BY <3>4, <3>5
  <2>6. s = t
    BY <1>3, <2>3, <2>4, <2>5, SeqEqual
  <2> QED BY <2>6 DEF s, t, a, b, z
<1>5. CASE ~(n <= p)
  <2>1. a = <<>>
    BY <1>1, <1>5
  <2>2. b = SubSeq(y, n - p + 1, q)
    BY <1>5
  <2>3. b \in Seq(S) /\ Len(b) = q - (n - p) /\ \A i \in 1..(q - (n - p)) : b[i] = y[n - p + i]
    BY <1>1, <1>5, <2>2
  <2> HIDE DEF a, b
  <2>4. s = b
    BY <2>1, <2>3
  <2> HIDE DEF s
  <2>5. Len(b) = Len(t)
    BY <1>1, <1>3, <1>5, <2>3
  <2>6. ASSUME NEW i \in 1..Len(b) PROVE b[i] = t[i]
    <3>1. i \in 1..(p + q - n) /\ i \in 1..(q - (n - p)) /\ n + i \in 1..(p + q) /\ ~(n + i <= p)
      BY <1>1, <1>3, <1>5, <2>3, <2>5
    <3>2. t[i] = z[n + i] /\ z[n + i] = y[n + i - p]
      BY <1>2, <1>3, <3>1
    <3>3. n - p + i = n + i - p
      BY <1>1, <3>1
    <3> QED BY <2>3, <3>1, <3>2, <3>3
  <2>7. b = t
    BY <1>3, <2>3, <2>5, <2>6, SeqEqual
  <2> QED BY <2>4, <2>7 DEF s, t, a, b, z
<1> QED BY <1>4, <1>5

\* What Serve does to the state of the server.
LEMMA Serves ==
    ASSUME TcpTyped, NEW at \in Points, NEW n \in Nat, n <= Len(In), NEW out \in Seq(Mail(how)), NEW dst,
           Serve(at, n, out, dst),
           remote' = [addr |-> remote'.addr, got |-> remote'.got, data |-> remote'.data],
           remote'.got \in Seq(Mail(how)), remote'.data \in Seq(Mail(how))
    PROVE  /\ TcpTyped' /\ server'.pc = at /\ server'.dst = dst /\ server'.peeked = Rest(n)
           /\ UNCHANGED <<how, client>> /\ down' = down \o out
           /\ shut' = (at \in {"closed", "failed"})
           /\ In \in Seq(Mail(how)) /\ In' = SubSeq(In, n + 1, Len(In))
<1> DEFINE M == Mail(how)
           x == server.peeked
           y == up
           b == IF n <= Len(x) THEN y ELSE SubSeq(y, n - Len(x) + 1, Len(y))
           a == SubSeq(x, n + 1, Len(x))
<1>1. x \in Seq(M) /\ y \in Seq(M) /\ down \in Seq(M)
  BY DEF TcpTyped
<1>2. /\ server' = [pc |-> at, peeked |-> Rest(n), dst |-> dst]
      /\ up' = b /\ Rest(n) = a /\ down' = down \o out
      /\ shut' = (at \in {"closed", "failed"}) /\ how' = how /\ client' = client
  BY DEF Serve, UpAfter, Rest
<1>3. /\ server'.pc = at /\ server'.dst = dst /\ server'.peeked = a
      /\ server' = [pc |-> server'.pc, peeked |-> server'.peeked, dst |-> server'.dst]
  <2> HIDE DEF a
  <2> QED BY <1>2
<1>4. In' = a \o b /\ In = x \o y
  BY <1>2, <1>3 DEF In
<1> HIDE DEF M, x, y
<1>5. In \in Seq(M) /\ Len(In) = Len(x) + Len(y) /\ Len(x) \in Nat /\ Len(y) \in Nat
  BY <1>1, <1>4
<1>6. a \in Seq(M) /\ b \in Seq(M)
  <2>1. a \in Seq(M)
    BY <1>1, <1>5
  <2>2. b \in Seq(M)
    <3>1. CASE n <= Len(x)
      BY <1>1, <3>1
    <3>2. CASE ~(n <= Len(x))
      BY <1>1, <1>5, <3>2
    <3> QED BY <3>1, <3>2
  <2> QED BY <2>1, <2>2
<1>7. a \o b = SubSeq(x \o y, n + 1, Len(x) + Len(y))
  BY <1>1, <1>5, DropJoin
<1>8. In' = SubSeq(In, n + 1, Len(In))
  <2> HIDE DEF a, b
  <2> QED BY <1>4, <1>5, <1>7
<1> HIDE DEF a, b
<1>9. down \o out \in Seq(M)
  BY <1>1 DEF M
<1>10. TcpTyped'
  BY <1>2, <1>3, <1>6, <1>9 DEF TcpTyped, M
<1> QED BY <1>2, <1>3, <1>5, <1>8, <1>10 DEF M

\* The server goes on: it takes n messages, gives out, and is at its next point.
LEMMA ServeKeeps ==
    ASSUME TcpInv, ~Over, NEW at \in Points \ {"closed", "failed"}, NEW dst,
           NEW m \in Taken, m <= Sent, In = Part(Written(how), m, Sent),
           NEW n \in Nat, m + n <= Sent, m + n \in Taken',
           NEW out \in Seq(Mail(how)),
           Serve(at, n, out, dst),
           remote' = [addr |-> remote'.addr, got |-> remote'.got, data |-> remote'.data],
           remote'.got \in Seq(Mail(how)), remote'.data \in Seq(Mail(how)),
           at \in {"off", "listen", "peek"} => Rest(n) = <<>>,
           how.client # "get" =>
             /\ Given' = Given + Len(out) /\ Given' <= Len(Told(how))
             /\ out = Part(Told(how), Given, Given'),
           at \in Course, RemoteFollows', DialsWanted'
    PROVE  TcpInv'
<1> DEFINE w == Written(how)
           M == Mail(how)
           t == Told(how)
           g == Given
           h == Given'
<1>1. /\ w \in Seq(M) /\ t \in Seq(M) /\ Len(w) \in Nat /\ Len(t) \in Nat /\ Sent \in Nat /\ Sent <= Len(w)
  BY ClientAt DEF TcpInv
<1>2. m \in Nat
  BY TakenNat DEF TcpInv
<1>3. Len(In) = Sent - m
  <2> HIDE DEF w, M
  <2>1. w \in Seq(M) /\ m \in Nat /\ Sent \in Nat /\ m <= Sent /\ Sent <= Len(w)
    BY <1>1, <1>2
  <2>2. Len(Part(w, m, Sent)) = Sent - m
    BY ONLY <2>1, PartSeq, Zenon
  <2> QED BY <2>2 DEF w
<1>4. n <= Len(In) /\ n \in 0..(Sent - m)
  BY <1>1, <1>2, <1>3
<1>5. /\ TcpTyped' /\ server'.pc = at /\ server'.dst = dst /\ server'.peeked = Rest(n)
      /\ UNCHANGED <<how, client>> /\ down' = down \o out
      /\ shut' = (at \in {"closed", "failed"})
      /\ In' = SubSeq(In, n + 1, Len(In))
  BY <1>4, Serves DEF TcpInv
<1>6. Sent' = Sent /\ Done' = Done /\ how' = how /\ client' = client /\ Written(how)' = w /\ Told(how)' = t
  BY <1>5 DEF Sent, Done
<1>7. ClientFollows'
  BY <1>6 DEF TcpInv, ClientFollows
<1>8. In' = Part(w, m + n, Sent)
  <2> HIDE DEF w, M
  <2>1. w \in Seq(M) /\ m \in Nat /\ Sent \in Nat /\ m <= Sent /\ Sent <= Len(w) /\ n \in 0..(Sent - m)
    BY <1>1, <1>2, <1>4
  <2>2. SubSeq(Part(w, m, Sent), n + 1, Sent - m) = Part(w, m + n, Sent)
    BY ONLY <2>1, PartDrop, Zenon
  <2> QED BY <1>3, <1>5, <2>2 DEF w
<1>9. UpFollows'
  BY <1>5, <1>6, <1>8 DEF UpFollows
<1>10. ~Over' /\ shut' = Over' /\ Course' = Course
  BY <1>5 DEF Over, Course
<1>11. OnCourse'
  BY <1>5, <1>6, <1>10 DEF TcpInv, OnCourse, Over
<1>12. Unopened'
  BY <1>5, <1>6 DEF TcpInv, Unopened
<1>13. DownFollows'
  <2> SUFFICES ASSUME client.state = "run", how.client # "get" PROVE DownFollows'
    BY <1>6 DEF DownFollows
  <2> DEFINE a == g - Len(down)
  <2>1. /\ g \in Nat /\ g <= Len(t)
        /\ down \in Seq(M) /\ Len(down) \in Nat /\ Len(down) <= g
        /\ down = Part(t, a, g)
    BY Streaming
  <2>2. h = g + Len(out) /\ h <= Len(t) /\ out = Part(t, g, h) /\ Len(out) \in Nat
    OBVIOUS
  <2>3. a \in Nat /\ a <= g /\ g <= h /\ h \in Nat /\ Len(down) = g - a
    <3> DEFINE z == Len(down)
    <3>1. z \in Nat /\ z <= g /\ g \in Nat /\ a = g - z /\ h = g + Len(out) /\ Len(out) \in Nat
      BY <2>1, <2>2
    <3> HIDE DEF z, g, h, a
    <3>2. a \in Nat /\ a <= g /\ g <= h /\ h \in Nat /\ z = g - a
      BY <3>1
    <3> QED BY <3>2 DEF z
  <2> HIDE DEF t, M, g, h
  <2>4. down' = Part(t, a, h)
    <3> HIDE DEF a
    <3>1. t \in Seq(M) /\ a \in Nat /\ g \in Nat /\ h \in Nat /\ a <= g /\ g <= h /\ h <= Len(t)
      BY <1>1, <2>1, <2>2, <2>3
    <3>2. Part(t, a, g) \o Part(t, g, h) = Part(t, a, h)
      BY ONLY <3>1, PartGlue, Zenon
    <3> QED BY <1>5, <2>1, <2>2, <3>2
  <2>5. Len(down') = Len(down) + Len(out)
    <3>1. down \in Seq(M) /\ out \in Seq(M)
      BY <2>1 DEF M
    <3> QED BY <1>5, <3>1
  <2>6. h - Len(down') = a /\ Len(down') <= h
    <3> DEFINE z == Len(down)
               y == Len(out)
    <3>1. z \in Nat /\ y \in Nat /\ z <= g /\ g \in Nat /\ a = g - z /\ h = g + y /\ Len(down') = z + y
      BY <2>1, <2>2, <2>5
    <3> HIDE DEF z, y, a
    <3> QED BY <3>1
  <2>7. /\ client.script # <<>> => a = Heard(how, Done) /\ client.got = <<>>
        /\ client.script = <<>> =>
             /\ Len(client.got) + Len(Welcome(how)) <= a
             /\ how.client # "http" => Len(client.got) + Len(Welcome(how)) = a
             /\ client.got = Part(t, a - Len(client.got), a)
    BY DEF TcpInv, DownFollows, g, t
  <2> HIDE DEF a
  <2>8. Given' - Len(down') = a /\ Len(down') <= Given' /\ down' = Part(t, a, Given')
    BY <2>4, <2>6 DEF h
  <2> QED BY <1>6, <2>7, <2>8 DEF DownFollows
<1> QED BY <1>5, <1>7, <1>9, <1>11, <1>12, <1>13 DEF TcpInv

\* The server drops the connection.
LEMMA ServeEnds ==
    ASSUME TcpInv, ~Over, server.pc # "relay", NEW at \in {"closed", "failed"}, at \in Course, NEW dst,
           NEW n \in Nat, n <= Len(In), NEW out \in Seq(Mail(how)),
           Serve(at, n, out, dst), UNCHANGED remote
    PROVE  TcpInv'
<1>1. at \in Points
  BY DEF Points
<1>2. /\ remote' = [addr |-> remote'.addr, got |-> remote'.got, data |-> remote'.data]
      /\ remote'.got \in Seq(Mail(how)) /\ remote'.data \in Seq(Mail(how))
  BY DEF TcpInv, TcpTyped
<1>3. /\ TcpTyped' /\ server'.pc = at /\ how' = how /\ client' = client
      /\ shut' = (at \in {"closed", "failed"})
  BY <1>1, <1>2, Serves DEF TcpInv
<1>4. Over' /\ shut' = Over' /\ Course' = Course /\ server'.pc # "relay"
  BY <1>3 DEF Over, Course
<1>5. ClientFollows'
  BY <1>3 DEF TcpInv, ClientFollows, Done
<1>6. UpFollows' /\ DownFollows' /\ Unopened'
  BY <1>3, <1>4 DEF UpFollows, DownFollows, Unopened
<1>7. RemoteFollows'
  BY <1>3, <1>4 DEF TcpInv, RemoteFollows
<1>8. OnCourse'
  BY <1>3, <1>4 DEF TcpInv, OnCourse, Over
<1>9. DialsWanted'
  BY <1>3 DEF TcpInv, DialsWanted, Wanted
<1> QED BY <1>3, <1>5, <1>6, <1>7, <1>8, <1>9 DEF TcpInv

\* The messages of the two streams that a server and a client look at.
LEMMA Words ==
    ASSUME NEW h \in Scenarios
    PROVE  LET w == Written(h)
               t == Told(h)
           IN  /\ h.client \in Commands \cup {"eager"} =>
                    /\ w[1] = Byte("ver") /\ w[2] = Byte("noauth")
                    /\ w[3] = Msg(IF h.client = "eager" \/ h.client = "socks5" THEN "connect" ELSE h.client,
                                  ra2sa(h.ask))
               /\ h.client = "password" => w[1] = Byte("ver") /\ w[2] = Byte("password")
               /\ h.client = "http" => w[1] = Byte("C") /\ w[2] = Msg("CONNECT", Text(Display(h.ask)))
               /\ h.client = "get" => w[1] = Byte("G") /\ w[2] = Msg("GET", h.ask)
               /\ h.client \in Commands \cup {"eager"} =>
                    Len(t) >= 2 /\ Part(t, 0, 2) = <<Byte("ver"), Byte("noauth")>>
               /\ h.client = "password" =>
                    Len(t) >= 2 /\ Part(t, 0, 2) = <<Byte("ver"), Byte("refused")>>
               /\ h.client = "http" => Len(t) >= 1 /\ Part(t, 0, 1) = <<Byte("200")>>
               /\ h.client \in {"socks5", "eager", "udp"} =>
                    Len(t) >= 3 /\ Part(t, 2, 3) = <<Byte("success")>>
<1> DEFINE w == Written(h)
           t == Told(h)
           S == Mail(h)
           n == Len(Welcome(h))
<1>1. /\ Len(Handshake(h)) = IF h.client \in Commands \cup {"eager"} THEN 3
                             ELSE IF h.client \in {"password", "http", "get"} THEN 2 ELSE 0
      /\ n = IF h.client \in {"socks5", "eager", "udp"} THEN 3
             ELSE IF h.client \in {"bind", "password"} THEN 2
             ELSE IF h.client = "http" THEN 1 ELSE 0
  BY StreamForms
<1>2. /\ \A i \in 1..Len(Handshake(h)) : w[i] = Handshake(h)[i]
      /\ \A i \in 1..n : t[i] = Welcome(h)[i]
      /\ Len(t) = n + Len(Banner) /\ Len(Banner) \in Nat /\ t \in Seq(S)
  BY WrittenForms
<1>3. ASSUME h.client \in Commands \cup {"eager"}
      PROVE  /\ w[1] = Byte("ver") /\ w[2] = Byte("noauth")
             /\ w[3] = Msg(IF h.client = "eager" \/ h.client = "socks5" THEN "connect" ELSE h.client,
                           ra2sa(h.ask))
  <2>1. /\ Handshake(h)[1] = Byte("ver") /\ Handshake(h)[2] = Byte("noauth")
        /\ Handshake(h)[3] = Msg(IF h.client = "eager" \/ h.client = "socks5" THEN "connect"
                                 ELSE h.client, ra2sa(h.ask))
    BY <1>3, StreamForms
  <2>2. Len(Handshake(h)) = 3
    BY <1>1, <1>3
  <2> HIDE DEF w
  <2> QED BY <1>2, <2>1, <2>2
<1>4. ASSUME h.client \in {"password", "http", "get"}
      PROVE  w[1] = Handshake(h)[1] /\ w[2] = Handshake(h)[2]
  <2>1. Len(Handshake(h)) = 2
    BY <1>1, <1>4 DEF Commands
  <2> HIDE DEF w
  <2> QED BY <1>2, <2>1
<1>5. /\ h.client = "password" => w[1] = Byte("ver") /\ w[2] = Byte("password")
      /\ h.client = "http" => w[1] = Byte("C") /\ w[2] = Msg("CONNECT", Text(Display(h.ask)))
      /\ h.client = "get" => w[1] = Byte("G") /\ w[2] = Msg("GET", h.ask)
  <2>1. /\ h.client = "password" => Handshake(h) = <<Byte("ver"), Byte("password")>>
        /\ h.client = "http" => Handshake(h) = <<Byte("C"), Msg("CONNECT", Text(Display(h.ask)))>>
        /\ h.client = "get" => Handshake(h) = <<Byte("G"), Msg("GET", h.ask)>>
    BY StreamForms
  <2> HIDE DEF w
  <2> QED BY <1>4, <2>1
<1> HIDE DEF t, S, n
<1>6. ASSUME n >= 2, n \in Nat PROVE Len(t) >= 2 /\ Part(t, 0, 2) = <<Welcome(h)[1], Welcome(h)[2]>>
  <2>1. Len(t) >= 2 /\ Len(t) \in Nat /\ t[1] = Welcome(h)[1] /\ t[2] = Welcome(h)[2]
    BY <1>2, <1>6
  <2> DEFINE q == Part(t, 0, 2)
             r == <<t[1], t[2]>>
  <2>2. t \in Seq(S) /\ 0 \in Nat /\ 2 \in Nat /\ 0 <= 2 /\ 2 <= Len(t)
    BY <1>2, <2>1
  <2>3. q \in Seq(S) /\ Len(q) = 2 - 0
    BY ONLY <2>2, PartSeq, Zenon
  <2>4. \A i \in 1..(2 - 0) : q[i] = t[0 + i]
    BY ONLY <2>2, PartItems, Zenon
  <2>5. t[1] \in S /\ t[2] \in S
    BY <2>1, <2>2
  <2>6. r \in Seq(S) /\ Len(r) = 2 /\ r[1] = t[1] /\ r[2] = t[2]
    BY <2>5
  <2> HIDE DEF q, r
  <2>7. Len(q) = Len(r) /\ \A i \in 1..Len(q) : q[i] = r[i]
    BY <2>3, <2>4, <2>6
  <2>8. q = r
    BY <2>3, <2>6, <2>7, SeqEqual
  <2> QED BY <2>1, <2>8 DEF q, r
<1>7. ASSUME n >= 3, n \in Nat PROVE Len(t) >= 3 /\ Part(t, 2, 3) = <<Welcome(h)[3]>>
  <2>1. Len(t) >= 3 /\ Len(t) \in Nat /\ t[3] = Welcome(h)[3]
    BY <1>2, <1>7
  <2>2. t \in Seq(S) /\ 2 \in Nat /\ 2 < Len(t)
    BY <1>2, <2>1
  <2>3. Part(t, 2, 2 + 1) = <<t[2 + 1]>>
    BY ONLY <2>2, PartOne, Zenon
  <2> QED BY <2>1, <2>3
<1>8. ASSUME n >= 1, n \in Nat PROVE Len(t) >= 1 /\ Part(t, 0, 1) = <<Welcome(h)[1]>>
  <2>1. Len(t) >= 1 /\ Len(t) \in Nat /\ t[1] = Welcome(h)[1]
    BY <1>2, <1>8
  <2>2. t \in Seq(S) /\ 0 \in Nat /\ 0 < Len(t)
    BY <1>2, <2>1
  <2>3. Part(t, 0, 0 + 1) = <<t[0 + 1]>>
    BY ONLY <2>2, PartOne, Zenon
  <2> QED BY <2>1, <2>3
<1>9. /\ h.client \in Commands \cup {"eager", "password"} => n >= 2 /\ n \in Nat
      /\ h.client \in {"socks5", "eager", "udp"} => n >= 3 /\ n \in Nat
      /\ h.client = "http" => n >= 1 /\ n \in Nat
  BY <1>1 DEF Commands
<1>10. /\ h.client \in Commands \cup {"eager"} =>
            Welcome(h)[1] = Byte("ver") /\ Welcome(h)[2] = Byte("noauth")
       /\ h.client \in {"socks5", "eager", "udp"} => Welcome(h)[3] = Byte("success")
       /\ h.client = "password" => Welcome(h)[1] = Byte("ver") /\ Welcome(h)[2] = Byte("refused")
       /\ h.client = "http" => Welcome(h)[1] = Byte("200")
  BY StreamForms
<1> HIDE DEF w
<1>11. h.client \in Commands \cup {"eager"} => Len(t) >= 2 /\ Part(t, 0, 2) = <<Byte("ver"), Byte("noauth")>>
  BY <1>6, <1>9, <1>10
<1>12. h.client = "password" => Len(t) >= 2 /\ Part(t, 0, 2) = <<Byte("ver"), Byte("refused")>>
  BY <1>6, <1>9, <1>10
<1>13. h.client = "http" => Len(t) >= 1 /\ Part(t, 0, 1) = <<Byte("200")>>
  BY <1>8, <1>9, <1>10
<1>14. h.client \in {"socks5", "eager", "udp"} => Len(t) >= 3 /\ Part(t, 2, 3) = <<Byte("success")>>
  BY <1>7, <1>9, <1>10
<1> QED BY <1>3, <1>5, <1>11, <1>12, <1>13, <1>14 DEF t, w

\* What is in front of the server.
LEMMA Ahead ==
    ASSUME TcpInv, ~Over
    PROVE  /\ Sent \in Nat /\ Sent <= Len(Written(how)) /\ Len(Written(how)) \in Nat
           /\ In \in Seq(Mail(how)) /\ Len(In) \in Nat
           /\ \E m \in Taken :
                /\ m \in Nat /\ m <= Sent /\ In = Part(Written(how), m, Sent) /\ Len(In) = Sent - m
                /\ \A i \in 1..Len(In) : In[i] = Written(how)[m + i]
<1> DEFINE w == Written(how)
           M == Mail(how)
<1>1. w \in Seq(M) /\ Sent \in Nat /\ Sent <= Len(w) /\ Len(w) \in Nat
  BY ClientAt DEF TcpInv
<1>2. PICK m \in Taken : m <= Sent /\ In = Part(w, m, Sent)
  BY DEF TcpInv, UpFollows
<1>3. m \in Nat
  BY TakenNat DEF TcpInv
<1> HIDE DEF w, M
<1>4. w \in Seq(M) /\ m \in Nat /\ Sent \in Nat /\ m <= Sent /\ Sent <= Len(w)
  BY <1>1, <1>2, <1>3
<1>5. Part(w, m, Sent) \in Seq(M) /\ Len(Part(w, m, Sent)) = Sent - m
  BY ONLY <1>4, PartSeq, Zenon
<1>6. \A i \in 1..(Sent - m) : Part(w, m, Sent)[i] = w[m + i]
  BY ONLY <1>4, PartItems, Zenon
<1>7. In \in Seq(M) /\ Len(In) = Sent - m
  BY <1>2, <1>5
<1>8. \A i \in 1..Len(In) : In[i] = w[m + i]
  BY <1>2, <1>6, <1>7
<1>9. Len(In) \in Nat
  BY <1>7
<1> QED BY <1>1, <1>2, <1>3, <1>7, <1>8, <1>9 DEF w, M

\* A client that never gets to its user has sent its handshake at most.
LEMMA SaysNoMore ==
    ASSUME TcpInv, ~Over, how.client \in {"password", "quiet"}
    PROVE  Sent <= Len(Handshake(how)) /\ Len(Handshake(how)) \in {0, 2}
<1>0. how \in Scenarios
  BY DEF TcpInv, TcpTyped
<1>1. client.script # <<>>
  BY DEF TcpInv, Unopened
<1>2. Sent = Flushed(how, Done) /\ Done \in 0..(Len(Script(how)) - 1)
  BY <1>1, ClientAt DEF TcpInv
<1>3. Len(Handshake(how)) = IF how.client = "password" THEN 2 ELSE 0
  BY <1>0, StreamForms DEF Commands
<1>4. Sent = 0 \/ Sent = FirstWrite(how)
  BY <1>2 DEF Flushed, Commands
<1> QED BY <1>3, <1>4 DEF FirstWrite

\* A step of the server before the relay.
LEMMA ServeOn ==
    ASSUME TcpInv, ~Over, server.pc # "relay",
           NEW at \in Points \ {"closed", "failed", "relay"}, NEW dst,
           NEW m \in Taken, m <= Sent, In = Part(Written(how), m, Sent),
           NEW n \in Nat, m + n <= Sent, m + n \in Taken',
           NEW out \in Seq(Mail(how)),
           Serve(at, n, out, dst), UNCHANGED remote,
           at \in {"off", "listen", "peek"} => Rest(n) = <<>>,
           how.client # "get" =>
             /\ Given' = Given + Len(out) /\ Given' <= Len(Told(how))
             /\ out = Part(Told(how), Given, Given'),
           at \in Course, at = "dial" => to_normalized(dst) = Wanted
    PROVE  TcpInv'
<1>1. /\ remote' = [addr |-> remote'.addr, got |-> remote'.got, data |-> remote'.data]
      /\ remote'.got \in Seq(Mail(how)) /\ remote'.data \in Seq(Mail(how))
  BY DEF TcpInv, TcpTyped
<1>2. server'.pc = at /\ server'.dst = dst /\ how' = how
  BY DEF Serve
<1>3. RemoteFollows'
  BY <1>2 DEF TcpInv, RemoteFollows
<1>4. DialsWanted'
  BY <1>2 DEF TcpInv, DialsWanted, Wanted
<1> QED BY <1>1, <1>3, <1>4, ServeKeeps

\* What a client of a known form of address wants.
LEMMA WantedAddress ==
    ASSUME how.ask \in Addresses
    PROVE  /\ Wanted = to_normalized(how.ask)
           /\ to_normalized(to_normalized(how.ask)) = to_normalized(how.ask)
           /\ sa2ra(ra2sa(how.ask)) = how.ask
           /\ how.ask.type \in {"sock", "domain"}
           /\ (ra2sa(how.ask).atyp = "domain") <=> (how.ask.type = "domain")
<1>1. how.ask.type \in {"sock", "domain"}
  BY DEF Addresses
<1>2. Wanted = to_normalized(how.ask)
  BY <1>1 DEF Wanted
<1>3. to_normalized(to_normalized(how.ask)) = to_normalized(how.ask)
  <2>1. CASE how.ask.type = "sock"
    BY <2>1 DEF to_normalized
  <2>2. CASE how.ask.type = "domain"
    <3>1. to_normalized(how.ask) = host_to_address(how.ask.domain, how.ask.port)
      BY <2>2 DEF to_normalized
    <3> QED BY <3>1, HostIsNormal
  <2> QED BY <1>1, <2>1, <2>2
<1>4. sa2ra(ra2sa(how.ask)) = how.ask
  BY AddressForms, HeaderCarries
<1>5. (ra2sa(how.ask).atyp = "domain") <=> (how.ask.type = "domain")
  BY <1>1 DEF ra2sa
<1> QED BY <1>1, <1>2, <1>3, <1>4, <1>5

LEMMA AcceptOn ==
    ASSUME TcpInv, server.pc = "listen", NEW at \in {"peek", "hello", "request", "dial"}, NEW dst,
           Serve(at, 0, <<>>, dst), UNCHANGED remote, at \in Course,
           at = "dial" => how.client = "raw" /\ to_normalized(dst) = Wanted
    PROVE  TcpInv'
<1> DEFINE none == <<>>
           t == Told(how)
<1>1. ~Over /\ server.pc # "relay" /\ Taken = {0} /\ Given = 0
  BY DEF Over, Taken, Given
<1>2. at \in Points \ {"closed", "failed", "relay"}
  BY DEF Points
<1>3. server'.pc = at /\ how' = how
  BY DEF Serve
<1>4. 0 \in Taken'
  <2>1. CASE at = "dial"
    <3>1. Len(Handshake(how)) = 0
      BY <2>1, StreamForms DEF TcpInv, TcpTyped, Commands
    <3> QED BY <1>3, <2>1, <3>1 DEF Taken
  <2>2. CASE at = "request"
    BY <1>3, <2>2 DEF Taken
  <2>3. CASE at \in {"peek", "hello"}
    BY <1>3, <2>3 DEF Taken
  <2> QED BY <2>1, <2>2, <2>3
<1>5. how.client # "get" => Given' = 0
  <2>1. CASE at = "dial"
    BY <1>3, <2>1 DEF Given
  <2>2. CASE at \in {"peek", "hello", "request"}
    BY <1>3, <2>2 DEF Given
  <2> QED BY <2>1, <2>2
<1>6. none \in Seq(Mail(how)) /\ Len(none) = 0
  OBVIOUS
<1>7. t \in Seq(Mail(how)) /\ Len(t) \in Nat
  BY ClientAt DEF TcpInv
<1>8. Part(t, 0, 0) = none
  <2> HIDE DEF t
  <2>1. t \in Seq(Mail(how)) /\ 0 \in Nat /\ 0 <= 0 /\ 0 <= Len(t)
    BY <1>7
  <2> QED BY ONLY <2>1, PartEmpty, Zenon DEF none
<1>9. server.peeked = <<>>
  BY DEF TcpInv, UpFollows
<1>10. Rest(0) = <<>>
  BY <1>9 DEF Rest
<1>11. PICK m \in Taken : m <= Sent /\ In = Part(Written(how), m, Sent)
  BY <1>1, Ahead
<1>12. m = 0 /\ m + 0 <= Sent /\ m + 0 \in Taken'
  BY <1>1, <1>4, <1>11
<1>13. how.client # "get" => /\ Given' = Given + Len(none) /\ Given' <= Len(t)
                             /\ none = Part(t, Given, Given')
  BY <1>1, <1>5, <1>6, <1>7, <1>8
<1> DEFINE n == 0
<1>14. /\ Serve(at, n, none, dst) /\ n \in Nat /\ m + n <= Sent /\ m + n \in Taken'
       /\ at \in {"off", "listen", "peek"} => Rest(n) = <<>>
       /\ at = "dial" => to_normalized(dst) = Wanted
  BY <1>10, <1>12
<1> HIDE DEF none, t, n
<1> QED BY <1>1, <1>2, <1>6, <1>11, <1>13, <1>14, ServeOn DEF t

LEMMA AcceptKeeps ==
    ASSUME TcpInv, Accept
    PROVE  TcpInv'
<1> DEFINE none == <<>>
<1>1. server.pc = "listen" /\ UNCHANGED remote
  BY DEF Accept
<1>2. how \in Scenarios /\ how.client \in Kinds
  BY ScenarioForms DEF TcpInv, TcpTyped
<1>3. /\ how.client \in {"socks5", "eager", "udp", "bind", "password"} => how.entry \in {"mixed", "socks5"}
      /\ how.client = "http" => how.entry \in {"mixed", "http"}
      /\ how.client = "get" => how.entry \in {"mixed", "http"}
      /\ how.client = "quiet" => how.entry \in {"mixed", "socks5", "http"}
      /\ how.client = "raw" => how.entry \in {"forward", "redir", "tproxy"} /\ how.ask \in Addresses
  BY <1>2, ScenarioForms
<1>4. how.client # "none"
  BY <1>1 DEF TcpInv, OnCourse, Course
<1>5. CASE MixedAccepts
  <2>1. how.entry = "mixed" /\ Serve("peek", 0, <<>>, NoAddr)
    BY <1>5 DEF MixedAccepts
  <2>2. "peek" \in Course
    <3>1. how.client # "raw"
      BY <1>3, <2>1
    <3> QED BY <1>2, <1>4, <3>1 DEF Course, Kinds
  <2> QED BY <1>1, <2>1, <2>2, AcceptOn
<1>6. CASE Socks5Accepts
  <2>1. how.entry = "socks5" /\ Serve("hello", 0, <<>>, NoAddr)
    BY <1>6 DEF Socks5Accepts
  <2>2. "hello" \in Course
    <3>1. how.client \notin {"raw", "http", "get"}
      BY <1>3, <2>1
    <3> QED BY <1>2, <1>4, <3>1 DEF Course, Kinds
  <2> QED BY <1>1, <2>1, <2>2, AcceptOn
<1>7. CASE HttpAccepts
  <2>1. how.entry = "http" /\ Serve("request", 0, <<>>, NoAddr)
    BY <1>7 DEF HttpAccepts
  <2>2. "request" \in Course
    <3>1. how.client \notin {"raw", "socks5", "eager", "udp", "bind", "password"}
      BY <1>3, <2>1
    <3> QED BY <1>2, <1>4, <3>1 DEF Course, Kinds
  <2> QED BY <1>1, <2>1, <2>2, AcceptOn
<1>8. CASE ForwardAccepts \/ RedirAccepts \/ TProxyAccepts
  <2>1. how.entry \in {"forward", "redir", "tproxy"} /\ Serve("dial", 0, <<>>, how.ask)
    BY <1>8 DEF ForwardAccepts, RedirAccepts, TProxyAccepts
  <2>2. how.client = "raw"
    <3>1. how.client \notin {"socks5", "eager", "udp", "bind", "password", "http", "get", "quiet"}
      BY <1>3, <2>1
    <3> QED BY <1>2, <1>4, <3>1 DEF Kinds
  <2>3. to_normalized(how.ask) = Wanted
    BY <1>3, <2>2, WantedAddress
  <2>4. "dial" \in Course
    BY <2>2 DEF Course
  <2> QED BY <1>1, <2>1, <2>2, <2>3, <2>4, AcceptOn
<1>9. CASE Serve("failed", 0, <<>>, NoAddr)
  <2>1. none \in Seq(Mail(how)) /\ Serve("failed", 0, none, NoAddr)
    BY <1>9
  <2>2. ~Over /\ server.pc # "relay"
    BY <1>1 DEF Over
  <2>3. "failed" \in Course
    BY <1>2, <1>4 DEF Course, Kinds
  <2>4. 0 <= Len(In) /\ 0 \in Nat
    BY <2>2, Ahead
  <2> HIDE DEF none
  <2> QED BY <1>1, <2>1, <2>2, <2>3, <2>4, ServeEnds
<1> QED BY <1>5, <1>6, <1>7, <1>8, <1>9 DEF Accept

\* The steps that end a connection without a reply.
LEMMA Drops ==
    ASSUME TcpInv, ~Over, server.pc # "relay", NEW at \in {"closed", "failed"}, at \in Course,
           NEW n \in Nat, n <= Len(In), Serve(at, n, <<>>, NoAddr), UNCHANGED remote
    PROVE  TcpInv'
<1> DEFINE none == <<>>
<1>1. none \in Seq(Mail(how)) /\ Serve(at, n, none, NoAddr)
  OBVIOUS
<1> HIDE DEF none
<1> QED BY <1>1, ServeEnds

\* A client that is gone before the server is at the end is not one of the
\* clients that are always served.
LEMMA GoneCourse ==
    ASSUME TcpInv, ~Over, ClientGone
    PROVE  "closed" \in Course
  BY DEF TcpInv, OnCourse, Over, ClientGone

LEMMA PeekKeeps ==
    ASSUME TcpInv, Peek
    PROVE  TcpInv'
<1> DEFINE M == Mail(how)
           w == Written(how)
<1>1. server.pc = "peek" /\ UNCHANGED remote
  BY DEF Peek
<1>2. ~Over /\ server.pc # "relay" /\ Taken = {0} /\ Given = 0
  BY <1>1 DEF Over, Taken, Given
<1>3. /\ Sent \in Nat /\ In \in Seq(M) /\ In = Part(w, 0, Sent) /\ Len(In) = Sent
      /\ \A i \in 1..Len(In) : In[i] = w[i]
  BY <1>2, Ahead
<1>4. /\ how \in Scenarios /\ how.client \in Kinds /\ up \in Seq(M) /\ TcpTyped
      /\ server = [pc |-> server.pc, peeked |-> server.peeked, dst |-> server.dst]
  BY ScenarioForms DEF TcpInv, TcpTyped
<1>5. server.peeked = <<>>
  BY <1>1 DEF TcpInv, UpFollows
<1>6. In = up
  <2> HIDE DEF M
  <2> QED BY <1>4, <1>5 DEF In
<1>7. CASE up = <<>> /\ ClientGone /\ Serve("closed", 0, <<>>, NoAddr)
  <2>1. "closed" \in Course
    BY <1>2, <1>7, GoneCourse
  <2>2. 0 \in Nat /\ 0 <= Len(In)
    BY <1>3
  <2> QED BY <1>1, <1>2, <1>7, <2>1, <2>2, Drops
<1>8. ASSUME up # <<>>, up' = Tail(up), UNCHANGED <<how, client, down, shut>>,
             server' = [server EXCEPT !.peeked = Peeked(Head(up)),
                                      !.pc = IF Head(up).t = "ver" THEN "hello" ELSE "request"]
      PROVE  TcpInv'
  <2> DEFINE x == Head(up)
             one == Peeked(x)
             at == IF x.t = "ver" THEN "hello" ELSE "request"
  <2>1. x \in M /\ Tail(up) \in Seq(M) /\ Len(up) \in Nat /\ Len(up) >= 1 /\ x = up[1]
    <3> HIDE DEF M
    <3> QED BY <1>4, <1>8
  <2>2. one \in Seq(M) /\ one \o Tail(up) = up
    <3> DEFINE s == <<x>> \o Tail(up)
    <3>1. s \in Seq(M) /\ Len(s) = Len(up) /\ \A i \in 1..Len(s) : s[i] = up[i]
      <4> HIDE DEF M
      <4> QED BY <1>4, <1>8, <2>1
    <3> HIDE DEF s
    <3>2. s = up
      BY <1>4, <3>1, SeqEqual
    <3>3. one \in Seq(M)
      <4> HIDE DEF M, x
      <4> QED BY <2>1 DEF Peeked
    <3> QED BY <3>2, <3>3 DEF s, Peeked
  <2>3. server' = [pc |-> at, peeked |-> one, dst |-> server.dst]
    <3> HIDE DEF x, one
    <3> QED BY <1>4, <1>8 DEF x, one
  <2>4. /\ server'.pc = at /\ server'.peeked = one
        /\ server' = [pc |-> server'.pc, peeked |-> server'.peeked, dst |-> server'.dst]
    <3> HIDE DEF one, at
    <3> QED BY <2>3
  <2>5. In' = In
    BY <1>6, <1>8, <2>2, <2>4 DEF In
  <2>6. x = w[1]
    <3> HIDE DEF w, M
    <3> QED BY <1>3, <1>6, <2>1
  <2>7. how.client # "none" /\ how.client # "raw"
    BY <1>1, <1>4 DEF TcpInv, OnCourse, Course
  <2>8. how.client # "quiet"
    <3> SUFFICES ASSUME how.client = "quiet" PROVE FALSE
      OBVIOUS
    <3>1. Sent <= Len(Handshake(how)) /\ Len(Handshake(how)) = 0
      BY <1>2, <1>4, SaysNoMore, StreamForms DEF Commands
    <3> QED BY <1>3, <1>6, <2>1, <3>1
  <2>9. at \in Course
    <3>1. CASE how.client \in Commands \cup {"eager", "password"}
      <4>1. x = Byte("ver")
        BY <1>4, <2>6, <3>1, Words
      <4>2. at = "hello"
        BY <4>1 DEF Byte, Msg
      <4> QED BY <3>1, <4>2 DEF Course, Commands
    <3>2. CASE how.client \in {"http", "get"}
      <4>1. x = Byte("C") \/ x = Byte("G")
        BY <1>4, <2>6, <3>2, Words
      <4>2. at = "request"
        BY <4>1 DEF Byte, Msg
      <4> QED BY <3>2, <4>2 DEF Course
    <3> QED BY <1>4, <2>7, <2>8, <3>1, <3>2 DEF Kinds, Commands
  <2> HIDE DEF one, x
  <2>10. at \in {"hello", "request"} /\ at \in Points
    BY DEF Points
  <2> HIDE DEF at
  <2>11. how' = how /\ client' = client /\ remote' = remote /\ down' = down /\ shut' = shut
    BY <1>1, <1>8
  <2>12. TcpTyped'
    BY <1>4, <1>8, <2>1, <2>2, <2>4, <2>10, <2>11 DEF TcpTyped
  <2>13. /\ ~Over' /\ 0 \in Taken' /\ Given' = Given /\ Sent' = Sent /\ Done' = Done /\ Course' = Course
    <3>1. ~Over'
      BY <2>4, <2>10 DEF Over
    <3>2. 0 \in Taken'
      BY <2>4, <2>10, <2>11 DEF Taken
    <3>3. Given' = 0
      BY <2>4, <2>10 DEF Given
    <3>4. Sent' = Sent /\ Done' = Done /\ Course' = Course
      BY <2>11 DEF Sent, Done, Course
    <3> QED BY <1>2, <3>1, <3>2, <3>3, <3>4
  <2>14. ClientFollows'
    BY <2>11, <2>13 DEF TcpInv, ClientFollows
  <2>15. UpFollows'
    <3>1. 0 <= Sent' /\ In' = Part(Written(how'), 0, Sent')
      BY <1>3, <2>5, <2>11, <2>13
    <3> QED BY <2>4, <2>10, <2>13, <3>1 DEF UpFollows
  <2>16. DownFollows'
    BY <1>2, <2>11, <2>13 DEF TcpInv, DownFollows
  <2>17. RemoteFollows'
    BY <1>2, <2>4, <2>10, <2>11 DEF TcpInv, RemoteFollows
  <2>18. OnCourse'
    BY <1>2, <2>4, <2>9, <2>11, <2>13 DEF TcpInv, OnCourse, Over
  <2>19. DialsWanted'
    BY <2>4, <2>10, <2>11 DEF TcpInv, DialsWanted, Wanted
  <2>20. Unopened'
    BY <1>2, <2>11 DEF TcpInv, Unopened
  <2> QED BY <2>12, <2>14, <2>15, <2>16, <2>17, <2>18, <2>19, <2>20 DEF TcpInv
<1> QED BY <1>7, <1>8 DEF Peek

LEMMA HelloKeeps ==
    ASSUME TcpInv, Hello
    PROVE  TcpInv'
<1> DEFINE M == Mail(how)
           w == Written(how)
           t == Told(how)
<1>1. server.pc = "hello" /\ UNCHANGED remote
  BY DEF Hello
<1>2. ~Over /\ server.pc # "relay" /\ Taken = {0} /\ Given = 0
  BY <1>1 DEF Over, Taken, Given
<1>3. /\ Sent \in Nat /\ In \in Seq(M) /\ In = Part(w, 0, Sent) /\ Len(In) = Sent
      /\ \A i \in 1..Len(In) : In[i] = w[i]
  BY <1>2, Ahead
<1>4. how \in Scenarios /\ how.client \in Kinds
  BY ScenarioForms DEF TcpInv, TcpTyped
<1>5. how.client \in Commands \cup {"eager", "password", "quiet"}
  BY <1>1, <1>4 DEF TcpInv, OnCourse, Course, Kinds, Commands
<1>6. t \in Seq(M) /\ Len(t) \in Nat
  BY ClientAt DEF TcpInv
<1>7. how.client = "quiet" => Len(In) = 0
  <2>1. how.client = "quiet" => Sent <= Len(Handshake(how)) /\ Len(Handshake(how)) = 0
    BY <1>2, <1>4, SaysNoMore, StreamForms DEF Commands
  <2> QED BY <1>3, <2>1
<1>8. ASSUME Len(In) >= 2, In[1].t = "ver",
             Serve("command", 2, <<Byte("ver"), Byte(IF In[2].t = "noauth" THEN "noauth" ELSE "refused")>>, NoAddr)
      PROVE  TcpInv'
  <2> DEFINE out == <<Byte("ver"), Byte(IF In[2].t = "noauth" THEN "noauth" ELSE "refused")>>
             n == 2
             m == 0
  <2>1. how.client \in Commands \cup {"eager", "password"}
    BY <1>5, <1>7, <1>8
  <2>2. In[2] = w[2]
    <3> HIDE DEF w, M
    <3> QED BY <1>3, <1>8
  <2>3. Len(t) >= 2 /\ out = Part(t, 0, 2)
    <3>1. CASE how.client = "password"
      <4>1. w[2] = Byte("password") /\ Len(t) >= 2 /\ Part(t, 0, 2) = <<Byte("ver"), Byte("refused")>>
        BY <1>4, <3>1, Words
      <4>2. In[2].t # "noauth"
        BY <2>2, <4>1 DEF Byte, Msg
      <4> QED BY <4>1, <4>2
    <3>2. CASE how.client \in Commands \cup {"eager"}
      <4>1. w[2] = Byte("noauth") /\ Len(t) >= 2 /\ Part(t, 0, 2) = <<Byte("ver"), Byte("noauth")>>
        BY <1>4, <3>2, Words
      <4>2. In[2].t = "noauth"
        BY <2>2, <4>1 DEF Byte, Msg
      <4> QED BY <4>1, <4>2
    <3> QED BY <2>1, <3>1, <3>2
  <2>4. out \in Seq(M) /\ Len(out) = 2
    <3> HIDE DEF t, M, out
    <3>1. t \in Seq(M) /\ 0 \in Nat /\ 2 \in Nat /\ 0 <= 2 /\ 2 <= Len(t)
      BY <1>6, <2>3
    <3>2. Part(t, 0, 2) \in Seq(M) /\ Len(Part(t, 0, 2)) = 2 - 0
      BY ONLY <3>1, PartSeq, Zenon
    <3> QED BY <2>3, <3>2
  <2>5. server'.pc = "command"
    BY <1>8 DEF Serve
  <2>6. Taken' = {2} /\ Given' = 2
    BY <2>5 DEF Taken, Given
  <2>7. "command" \in Course /\ "command" \in Points \ {"closed", "failed", "relay"}
    BY <2>1 DEF Course, Commands, Points
  <2>8. how.client # "get" => /\ Given' = Given + Len(out) /\ Given' <= Len(t)
                              /\ out = Part(t, Given, Given')
    BY <1>2, <2>3, <2>4, <2>6
  <2>9. /\ m \in Taken /\ m <= Sent /\ In = Part(w, m, Sent) /\ n \in Nat /\ m + n <= Sent /\ m + n \in Taken'
        /\ Serve("command", n, out, NoAddr)
    BY <1>2, <1>3, <1>8, <2>6
  <2> HIDE DEF out, n, m, M, w, t
  <2> QED BY <1>1, <1>2, <2>4, <2>7, <2>8, <2>9, ServeOn DEF M, w, t
<1>9. ASSUME (Len(In) >= 1 /\ In[1].t # "ver") \/ (Len(In) < 2 /\ ClientGone),
             Serve("closed", 0, <<>>, NoAddr)
      PROVE  TcpInv'
  <2>1. "closed" \in Course
    <3>1. CASE ClientGone
      BY <1>2, <3>1, GoneCourse
    <3>2. CASE Len(In) >= 1 /\ In[1].t # "ver"
      <4>1. In[1] = w[1]
        <5> HIDE DEF w, M
        <5> QED BY <1>3, <3>2
      <4>2. how.client \in Commands \cup {"eager", "password"}
        BY <1>5, <1>7, <3>2
      <4>3. w[1] = Byte("ver")
        BY <1>4, <4>2, Words
      <4> QED BY <3>2, <4>1, <4>3 DEF Byte, Msg
    <3> QED BY <1>9, <3>1, <3>2
  <2>2. 0 \in Nat /\ 0 <= Len(In)
    BY <1>3
  <2> QED BY <1>1, <1>2, <1>9, <2>1, <2>2, Drops
<1> QED BY <1>8, <1>9 DEF Hello

LEMMA CommandRequestKeeps ==
    ASSUME TcpInv, CommandRequest
    PROVE  TcpInv'
<1> DEFINE M == Mail(how)
           w == Written(how)
           t == Told(how)
           none == <<>>
<1>1. server.pc = "command" /\ UNCHANGED remote
  BY DEF CommandRequest
<1>2. ~Over /\ server.pc # "relay" /\ Taken = {2} /\ Given = 2
  BY <1>1 DEF Over, Taken, Given
<1>3. /\ Sent \in Nat /\ In \in Seq(M) /\ 2 <= Sent /\ In = Part(w, 2, Sent) /\ Len(In) = Sent - 2
      /\ \A i \in 1..Len(In) : In[i] = w[2 + i]
  BY <1>2, Ahead
<1>4. how \in Scenarios /\ how.client \in Kinds
  BY ScenarioForms DEF TcpInv, TcpTyped
<1>5. how.client \in Commands \cup {"eager", "password"}
  BY <1>1, <1>4 DEF TcpInv, OnCourse, Course, Kinds, Commands
<1>6. t \in Seq(M) /\ Len(t) \in Nat
  BY ClientAt DEF TcpInv
<1>7. CASE In = <<>> /\ ClientGone /\ Serve("closed", 0, <<>>, NoAddr)
  <2>1. "closed" \in Course
    BY <1>2, <1>7, GoneCourse
  <2>2. 0 \in Nat /\ 0 <= Len(In)
    BY <1>3
  <2> QED BY <1>1, <1>2, <1>7, <2>1, <2>2, Drops
<1>8. ASSUME In # <<>>
      PROVE  /\ how.client \in Commands \cup {"eager"} /\ how.ask \in Addresses
             /\ In[1] = Msg(IF how.client = "eager" \/ how.client = "socks5" THEN "connect" ELSE how.client,
                            ra2sa(how.ask))
             /\ Sent >= 3 /\ Len(In) >= 1
  <2>1. Len(In) >= 1 /\ Sent >= 3 /\ In[1] = w[3]
    <3> HIDE DEF M, w
    <3>1. Len(In) >= 1
      BY <1>3, <1>8
    <3> QED BY <1>3, <3>1
  <2>2. how.client # "password"
    <3> SUFFICES ASSUME how.client = "password" PROVE FALSE
      OBVIOUS
    <3> DEFINE said == Sent
               most == Len(Handshake(how))
    <3>1. said <= most /\ most \in {0, 2}
      BY <1>2, SaysNoMore
    <3>2. said \in Nat /\ said >= 3
      BY <1>3, <2>1
    <3> HIDE DEF said, most
    <3> QED BY ONLY <3>1, <3>2
  <2>3. how.client \in Commands \cup {"eager"}
    BY <1>5, <2>2
  <2>4. w[3] = Msg(IF how.client = "eager" \/ how.client = "socks5" THEN "connect" ELSE how.client,
                   ra2sa(how.ask))
    BY <1>4, <2>3, Words
  <2>5. how.ask \in Addresses
    BY <1>4, <2>3, ScenarioForms DEF Commands
  <2> QED BY <2>1, <2>3, <2>4, <2>5
<1>9. none \in Seq(M) /\ Len(none) = 0 /\ Part(t, 2, 2) = none /\ Len(t) >= 2
  <2>1. Len(t) >= 2
    BY <1>4, <1>5, Words
  <2>2. Part(t, 2, 2) = <<>>
    <3> HIDE DEF t, M, none
    <3>1. t \in Seq(M) /\ 2 \in Nat /\ 2 <= 2 /\ 2 <= Len(t)
      BY <1>6, <2>1
    <3> QED BY ONLY <3>1, PartEmpty, Zenon
  <2> QED BY <2>1, <2>2
<1>10. ASSUME In # <<>>, NEW at \in {"dial", "associate"}, NEW dst, Serve(at, 1, <<>>, dst),
              at \in Course, at = "dial" => to_normalized(dst) = Wanted /\ how.client \in {"socks5", "eager"}
       PROVE  TcpInv'
  <2> DEFINE n == 1
             m == 2
  <2>1. server'.pc = at /\ how' = how
    BY <1>10 DEF Serve
  <2>2. Len(Handshake(how)) = 3
    BY <1>4, <1>8, <1>10, StreamForms
  <2>3. Taken' = {3}
    BY <2>1, <2>2 DEF Taken
  <2>4. Given' = 2
    <3>1. CASE at = "dial"
      BY <1>10, <2>1, <3>1 DEF Given
    <3>2. CASE at = "associate"
      BY <2>1, <3>2 DEF Given
    <3> QED BY <3>1, <3>2
  <2>5. how.client # "get" => /\ Given' = Given + Len(none) /\ Given' <= Len(t)
                              /\ none = Part(t, Given, Given')
    BY <1>2, <1>9, <2>4
  <2>6. /\ m \in Taken /\ m <= Sent /\ In = Part(w, m, Sent) /\ n \in Nat /\ m + n <= Sent /\ m + n \in Taken'
        /\ Serve(at, n, none, dst)
    BY <1>2, <1>3, <1>8, <1>10, <2>3
  <2>7. at \in Points \ {"closed", "failed", "relay"} /\ at \notin {"off", "listen", "peek"}
    BY DEF Points
  <2> HIDE DEF none, n, m, M, w, t
  <2> QED BY <1>1, <1>2, <1>9, <1>10, <2>5, <2>6, <2>7, ServeOn DEF M, w, t
<1>11. ASSUME In # <<>>, In[1].t = "connect", Serve("dial", 1, <<>>, sa2ra(In[1].a))
       PROVE  TcpInv'
  <2>1. how.client \in {"socks5", "eager"} /\ In[1].a = ra2sa(how.ask)
    BY <1>8, <1>11 DEF Msg, Commands
  <2>2. sa2ra(In[1].a) = how.ask /\ to_normalized(how.ask) = Wanted
    BY <1>8, <1>11, <2>1, WantedAddress
  <2>3. "dial" \in Course
    BY <2>1 DEF Course
  <2> QED BY <1>10, <1>11, <2>1, <2>2, <2>3
<1>12. ASSUME In # <<>>, In[1].t = "udp", In[1].a.atyp = "domain", Serve("closed", 1, <<Byte("unsupported")>>, NoAddr)
       PROVE  TcpInv'
  <2> DEFINE out == <<Byte("unsupported")>>
  <2>1. how.client = "udp" /\ In[1].a = ra2sa(how.ask)
    BY <1>8, <1>12 DEF Msg, Commands
  <2>2. how.ask.type = "domain"
    BY <1>8, <1>12, <2>1, WantedAddress
  <2>3. "closed" \in Course
    BY <2>1, <2>2 DEF Course
  <2>4. out \in Seq(M)
    <3>1. "unsupported" \in Tags
      BY DEF Tags
    <3>2. Byte("unsupported") \in M
      BY <3>1, MailForms
    <3> HIDE DEF M
    <3> QED BY <3>2
  <2>5. 1 \in Nat /\ 1 <= Len(In) /\ Serve("closed", 1, out, NoAddr)
    BY <1>8, <1>12
  <2> HIDE DEF out
  <2> QED BY <1>1, <1>2, <2>3, <2>4, <2>5, ServeEnds
<1>13. ASSUME In # <<>>, In[1].t = "udp", NEW dst, Serve("associate", 1, <<>>, dst)
       PROVE  TcpInv'
  <2>1. how.client = "udp"
    BY <1>8, <1>13 DEF Msg, Commands
  <2>2. "associate" \in Course
    BY <2>1 DEF Course
  <2> QED BY <1>10, <1>13, <2>2
<1>14. ASSUME In # <<>>, In[1].t = "bind", Serve("closed", 1, <<>>, NoAddr)
       PROVE  TcpInv'
  <2>1. how.client = "bind"
    BY <1>8, <1>14 DEF Msg, Commands
  <2>2. "closed" \in Course
    BY <2>1 DEF Course
  <2>3. 1 \in Nat /\ 1 <= Len(In)
    BY <1>8, <1>14
  <2> QED BY <1>1, <1>2, <1>14, <2>2, <2>3, Drops
<1> QED BY <1>7, <1>11, <1>12, <1>13, <1>14 DEF CommandRequest

\* A reply of one message.
LEMMA OneReplySeq ==
    ASSUME NEW h, NEW x \in Tags
    PROVE  <<Byte(x)>> \in Seq(Mail(h)) /\ Len(<<Byte(x)>>) = 1
<1> DEFINE M == Mail(h)
           y == Byte(x)
<1>1. y \in M
  BY MailForms
<1> HIDE DEF M, y
<1>2. <<y>> \in Seq(M) /\ Len(<<y>>) = 1
  BY <1>1
<1> QED BY <1>2 DEF M, y

LEMMA AssociateKeeps ==
    ASSUME TcpInv, Associate
    PROVE  TcpInv'
<1> DEFINE w == Written(how)
           t == Told(how)
<1>1. server.pc = "associate" /\ UNCHANGED remote
  BY DEF Associate
<1>2. ~Over /\ server.pc # "relay" /\ Taken = {Len(Handshake(how))} /\ Given = 2
  BY <1>1 DEF Over, Taken, Given
<1>3. how \in Scenarios /\ how.client = "udp"
  <2>1. how \in Scenarios /\ how.client \in Kinds
    BY ScenarioForms DEF TcpInv, TcpTyped
  <2> QED BY <1>1, <2>1 DEF TcpInv, OnCourse, Course, Kinds
<1>4. Len(Handshake(how)) = 3 /\ Len(t) >= 3 /\ Part(t, 2, 3) = <<Byte("success")>>
  BY <1>3, StreamForms, Words DEF Commands
<1>5. "success" \in Tags /\ "error" \in Tags
  BY DEF Tags
<1>6. Sent \in Nat /\ 3 <= Sent /\ In = Part(w, 3, Sent) /\ Len(In) \in Nat
  BY <1>2, <1>4, Ahead
<1>7. CASE Serve("udp", 0, <<Byte("success")>>, server.dst)
  <2> DEFINE out == <<Byte("success")>>
             n == 0
             m == 3
  <2>1. server'.pc = "udp" /\ how' = how
    BY <1>7 DEF Serve
  <2>2. Taken' = {3} /\ Given' = 3
    BY <1>4, <2>1 DEF Taken, Given
  <2>3. out \in Seq(Mail(how)) /\ Len(out) = 1
    BY <1>5, OneReplySeq
  <2>4. how.client # "get" => /\ Given' = Given + Len(out) /\ Given' <= Len(t)
                              /\ out = Part(t, Given, Given')
    <3> HIDE DEF out
    <3> QED BY <1>2, <1>4, <2>2, <2>3 DEF out
  <2>5. /\ m \in Taken /\ m <= Sent /\ In = Part(w, m, Sent) /\ n \in Nat /\ m + n <= Sent /\ m + n \in Taken'
        /\ Serve("udp", n, out, server.dst)
    BY <1>2, <1>4, <1>6, <1>7, <2>2
  <2>6. "udp" \in Course /\ "udp" \in Points \ {"closed", "failed", "relay"}
    BY <1>3 DEF Course, Points
  <2> HIDE DEF out, n, m, w, t
  <2> QED BY <1>1, <1>2, <2>3, <2>4, <2>5, <2>6, ServeOn DEF w, t
<1>8. "failed" \in Course /\ 0 \in Nat /\ 0 <= Len(In)
  BY <1>3, <1>6 DEF Course
<1>9. CASE Serve("failed", 0, <<Byte("error")>>, NoAddr)
  <2> DEFINE out == <<Byte("error")>>
  <2>1. out \in Seq(Mail(how)) /\ Serve("failed", 0, out, NoAddr)
    BY <1>5, <1>9, OneReplySeq
  <2> HIDE DEF out
  <2> QED BY <1>1, <1>2, <1>8, <2>1, ServeEnds
<1>10. CASE Serve("failed", 0, <<>>, NoAddr)
  BY <1>1, <1>2, <1>8, <1>10, Drops
<1> QED BY <1>7, <1>9, <1>10 DEF Associate

\* What the HTTP server finds in a request.
LEMMA RequestReads ==
    ASSUME TcpInv, server.pc = "request", Len(In) >= 2
    PROVE  /\ how \in Scenarios /\ how.client \in {"http", "get"}
           /\ Sent >= 2 /\ In = Part(Written(how), 0, Sent) /\ 0 \in Taken
           /\ In[2] = IF how.client = "http" THEN Msg("CONNECT", Text(Display(how.ask)))
                      ELSE Msg("GET", how.ask)
<1> DEFINE w == Written(how)
           M == Mail(how)
<1>1. how \in Scenarios /\ how.client \in Kinds
  BY ScenarioForms DEF TcpInv, TcpTyped
<1>2. ~Over
  BY DEF Over
<1>3. how.client \in {"http", "get", "quiet"}
  BY <1>1 DEF TcpInv, OnCourse, Course, Kinds
<1>4. /\ Sent \in Nat /\ Sent <= Len(w) /\ Len(w) \in Nat
      /\ In \in Seq(M) /\ Len(In) \in Nat
  BY <1>2, Ahead
<1>5. PICK m \in Taken :
        /\ m \in Nat /\ m <= Sent /\ In = Part(w, m, Sent) /\ Len(In) = Sent - m
        /\ \A i \in 1..Len(In) : In[i] = w[m + i]
  BY <1>2, Ahead
<1>6. how.client # "quiet"
  <2> SUFFICES ASSUME how.client = "quiet" PROVE FALSE
    OBVIOUS
  <2>1. Sent <= Len(Handshake(how)) /\ Len(Handshake(how)) = 0
    BY <1>1, <1>2, SaysNoMore, StreamForms DEF Commands
  <2> QED BY <1>4, <1>5, <2>1
<1>7. m = 0
  <2>1. CASE how.client = "http"
    BY <2>1 DEF Taken
  <2>2. CASE how.client = "get"
    <3>1. m \in {0, 2}
      BY <2>2 DEF Taken
    <3>2. Len(w) = 2
      BY <1>1, <2>2, WrittenForms, StreamForms DEF Commands
    <3> HIDE DEF w
    <3> QED BY <1>4, <1>5, <3>1, <3>2
  <2> QED BY <1>3, <1>6, <2>1, <2>2
<1>8. In[2] = w[2] /\ Sent >= 2
  <2> HIDE DEF w
  <2> QED BY <1>4, <1>5, <1>7
<1>9. w[2] = IF how.client = "http" THEN Msg("CONNECT", Text(Display(how.ask))) ELSE Msg("GET", how.ask)
  BY <1>1, <1>3, <1>6, Words
<1> QED BY <1>1, <1>3, <1>5, <1>6, <1>7, <1>8, <1>9

LEMMA RequestKeeps ==
    ASSUME TcpInv, Request
    PROVE  TcpInv'
<1> DEFINE w == Written(how)
           t == Told(how)
           none == <<>>
           n == 2
           m == 0
<1>1. server.pc = "request" /\ UNCHANGED remote
  BY DEF Request
<1>2. ~Over /\ server.pc # "relay" /\ Given = 0
  BY <1>1 DEF Over, Given
<1>3. Len(In) \in Nat /\ Sent \in Nat
  BY <1>2, Ahead
<1>4. CASE Len(In) < 2 /\ ClientGone /\ Serve("closed", 0, <<>>, NoAddr)
  <2>1. "closed" \in Course
    BY <1>2, <1>4, GoneCourse
  <2>2. 0 \in Nat /\ 0 <= Len(In)
    BY <1>3
  <2> QED BY <1>1, <1>2, <1>4, <2>1, <2>2, Drops
<1>5. none \in Seq(Mail(how)) /\ Len(none) = 0 /\ "200" \in Tags /\ "400" \in Tags
  BY DEF Tags
<1>6. ASSUME Len(In) >= 2, In[2].a.type = "none", Serve("request", 2, <<Byte("400")>>, NoAddr)
      PROVE  TcpInv'
  <2> DEFINE out == <<Byte("400")>>
  <2>1. /\ how \in Scenarios /\ how.client \in {"http", "get"}
        /\ Sent >= 2 /\ In = Part(w, m, Sent) /\ m \in Taken
        /\ In[2] = IF how.client = "http" THEN Msg("CONNECT", Text(Display(how.ask)))
                   ELSE Msg("GET", how.ask)
    BY <1>1, <1>6, RequestReads
  <2>2. how.client = "get"
    <3>1. how.client = "http" => In[2].a.type = "text"
      BY <2>1 DEF Msg, Text
    <3> QED BY <1>6, <2>1, <3>1
  <2>3. server'.pc = "request" /\ how' = how
    BY <1>6 DEF Serve
  <2>4. m + n \in Taken'
    BY <2>2, <2>3 DEF Taken
  <2>5. out \in Seq(Mail(how))
    BY <1>5, OneReplySeq
  <2>6. n \in Nat /\ m <= Sent /\ m + n <= Sent /\ Serve("request", n, out, NoAddr)
    BY <1>3, <1>6, <2>1
  <2>7. "request" \in Course /\ "request" \in Points \ {"closed", "failed", "relay"}
    BY <2>2 DEF Course, Points
  <2> HIDE DEF out, n, m, w
  <2> QED BY <1>1, <1>2, <2>1, <2>2, <2>4, <2>5, <2>6, <2>7, ServeOn DEF w
<1>7. ASSUME Len(In) >= 2, In[2].a.type = "text"
      PROVE  TcpInv'
  <2> DEFINE dst == into_address(WithDefaultPort(In[2].a.text))
  <2>0. \/ dst = NoAddr /\ Serve("closed", 2, <<>>, NoAddr)
        \/ dst # NoAddr /\ In[2].t = "CONNECT" /\ Serve("dial", 2, <<Byte("200")>>, dst)
        \/ dst # NoAddr /\ In[2].t # "CONNECT" /\ Serve("dial", 2, <<>>, dst)
    BY <1>7 DEF Request
  <2>1. /\ how \in Scenarios /\ how.client \in {"http", "get"}
        /\ Sent >= 2 /\ In = Part(w, m, Sent) /\ m \in Taken
        /\ In[2] = IF how.client = "http" THEN Msg("CONNECT", Text(Display(how.ask)))
                   ELSE Msg("GET", how.ask)
    BY <1>1, <1>7, RequestReads
  <2>2. Len(Handshake(how)) = 2
    BY <2>1, StreamForms DEF Commands
  <2>3. CASE how.client = "http"
    <3>1. In[2].t = "CONNECT" /\ In[2].a.text = Display(how.ask)
      BY <2>1, <2>3 DEF Msg, Text
    <3>2. how.ask \in Addresses
      BY <2>1, <2>3, ScenarioForms
    <3>3. dst = to_normalized(how.ask) /\ dst # NoAddr
      <4>1. /\ Colons(Display(how.ask)) # {} /\ into_address(Display(how.ask)) = to_normalized(how.ask)
            /\ into_address(Display(how.ask)) # NoAddr
        BY <3>2, DisplayReadBack
      <4> QED BY <3>1, <4>1 DEF WithDefaultPort
    <3>4. to_normalized(dst) = Wanted
      BY <3>2, <3>3, WantedAddress
    <3> HIDE DEF dst
    <3> DEFINE out == <<Byte("200")>>
    <3>5. Serve("dial", n, out, dst)
      BY <2>0, <3>1, <3>3
    <3>6. server'.pc = "dial" /\ how' = how
      BY <3>5 DEF Serve
    <3>7. m + n \in Taken' /\ Given' = 1
      BY <2>2, <2>3, <3>6 DEF Taken, Given
    <3>8. out \in Seq(Mail(how)) /\ Len(out) = 1 /\ Len(t) >= 1 /\ out = Part(t, 0, 1)
      BY <1>5, <2>1, <2>3, OneReplySeq, Words
    <3>9. how.client # "get" => /\ Given' = Given + Len(out) /\ Given' <= Len(t)
                                /\ out = Part(t, Given, Given')
      <4>1. Len(t) \in Nat
        BY ClientAt DEF TcpInv
      <4> HIDE DEF out, t
      <4> QED BY <1>2, <3>7, <3>8, <4>1
    <3>10. n \in Nat /\ m <= Sent /\ m + n <= Sent
      BY <1>3, <2>1
    <3>11. "dial" \in Course /\ "dial" \in Points \ {"closed", "failed", "relay"}
      BY <2>3 DEF Course, Points
    <3> HIDE DEF out, n, m, w, t
    <3> QED BY <1>1, <1>2, <2>1, <3>4, <3>5, <3>7, <3>8, <3>9, <3>10, <3>11, ServeOn DEF w, t
  <2>4. CASE how.client = "get"
    <3>1. In[2].t = "GET" /\ In[2].a = how.ask
      BY <2>1, <2>4 DEF Msg
    <3>2. how.ask \in Texts
      <4>1. how.ask \in Texts \cup {NoAddr}
        BY <2>1, <2>4, ScenarioForms
      <4> QED BY <1>7, <3>1, <4>1 DEF NoAddr
    <3>3. how.ask.type = "text" /\ how.ask.text \in Seq(STRING)
      BY <3>2 DEF Texts
    <3>4. dst # NoAddr => to_normalized(dst) = Wanted
      <4>1. LET a == into_address(WithDefaultPort(how.ask.text)) IN
            a # NoAddr => to_normalized(a) = IF HasPort(how.ask.text) THEN into_address(how.ask.text)
                                             ELSE host_to_address(how.ask.text, "80")
        BY <3>3, AuthorityRead
      <4> QED BY <3>1, <3>3, <4>1 DEF Wanted
    <3> HIDE DEF dst
    <3>5. CASE dst = NoAddr
      <4>1. Serve("closed", 2, <<>>, NoAddr)
        BY <2>0, <3>5
      <4>2. "closed" \in Course /\ 2 \in Nat /\ 2 <= Len(In)
        BY <1>3, <1>7, <2>4 DEF Course
      <4> QED BY <1>1, <1>2, <4>1, <4>2, Drops
    <3>6. CASE dst # NoAddr
      <4>1. Serve("dial", n, none, dst)
        BY <2>0, <3>1, <3>6
      <4>2. server'.pc = "dial" /\ how' = how
        BY <4>1 DEF Serve
      <4>3. m + n \in Taken'
        BY <2>2, <4>2 DEF Taken
      <4>4. n \in Nat /\ m <= Sent /\ m + n <= Sent
        BY <1>3, <2>1
      <4>5. "dial" \in Course /\ "dial" \in Points \ {"closed", "failed", "relay"}
        BY <2>4 DEF Course, Points
      <4> HIDE DEF none, n, m, w
      <4> QED BY <1>1, <1>2, <1>5, <2>1, <2>4, <3>4, <3>6, <4>1, <4>3, <4>4, <4>5, ServeOn DEF w
    <3> QED BY <3>5, <3>6
  <2> QED BY <2>1, <2>3, <2>4
<1> QED BY <1>4, <1>6, <1>7 DEF Request

\* The part of the target in the state.
LEMMA RemoteForms ==
    ASSUME TcpInv
    PROVE  /\ remote = [addr |-> remote.addr, got |-> remote.got, data |-> remote.data]
           /\ remote.got \in Seq(Mail(how)) /\ remote.data \in Seq(Mail(how))
           /\ how \in Scenarios /\ how.client \in Kinds
           /\ server.pc \in Course
           /\ Len(Handshake(how)) \in Nat /\ Len(Welcome(how)) \in Nat
           /\ Len(remote.got) \in Nat /\ Len(remote.data) \in Nat
<1>1. /\ remote = [addr |-> remote.addr, got |-> remote.got, data |-> remote.data]
      /\ remote.got \in Seq(Mail(how)) /\ remote.data \in Seq(Mail(how))
      /\ how \in Scenarios /\ how.client \in Kinds /\ server.pc \in Course
  BY ScenarioForms DEF TcpInv, TcpTyped, OnCourse
<1>2. Handshake(how) \in Seq(Mail(how)) /\ Welcome(how) \in Seq(Mail(how))
  BY <1>1, StreamForms
<1>3. Len(Handshake(how)) \in Nat /\ Len(Welcome(how)) \in Nat
  BY <1>2
<1>4. Len(remote.got) \in Nat /\ Len(remote.data) \in Nat
  BY <1>1
<1> QED BY <1>1, <1>3, <1>4

\* No reply, at a point where none is due.
LEMMA NoReply ==
    ASSUME TcpInv, NEW g \in Nat, g <= Len(Told(how))
    PROVE  /\ <<>> \in Seq(Mail(how)) /\ Len(<<>>) = 0
           /\ Part(Told(how), g, g) = <<>>
<1> DEFINE t == Told(how)
           M == Mail(how)
<1>1. t \in Seq(M)
  BY ClientAt DEF TcpInv
<1> HIDE DEF t, M
<1>2. t \in Seq(M) /\ g \in Nat /\ g <= g /\ g <= Len(t)
  BY <1>1 DEF t
<1>3. Part(t, g, g) = <<>>
  BY ONLY <1>2, PartEmpty, Zenon
<1> QED BY <1>3 DEF t

LEMMA DialKeeps ==
    ASSUME TcpInv, Dial
    PROVE  TcpInv'
<1> DEFINE w == Written(how)
           t == Told(how)
           b == Len(Handshake(how))
           out == Report("success")
           n == 0
<1>1. /\ server.pc = "dial" /\ how.client # "get"
      /\ remote' = [remote EXCEPT !.addr = server.dst]
      /\ Serve("relay", 0, out, server.dst)
  BY DEF Dial
<1>2. /\ remote = [addr |-> remote.addr, got |-> remote.got, data |-> remote.data]
      /\ remote.got \in Seq(Mail(how)) /\ remote.data \in Seq(Mail(how))
      /\ how \in Scenarios /\ how.client \in Kinds /\ server.pc \in Course
      /\ b \in Nat /\ Len(Welcome(how)) \in Nat
  BY RemoteForms
<1>3. how.client \in {"socks5", "eager", "http", "raw"}
  BY <1>1, <1>2 DEF Course, Kinds
<1>4. ~Over /\ Taken = {b}
  BY <1>1 DEF Over, Taken
<1>5. remote.got = <<>> /\ remote.data = Banner
  BY <1>1 DEF TcpInv, RemoteFollows
<1>6. /\ remote' = [addr |-> server.dst, got |-> remote.got, data |-> remote.data]
      /\ remote'.got = remote.got /\ remote'.data = remote.data /\ remote'.addr = server.dst
  BY <1>1, <1>2
<1>7. server'.pc = "relay" /\ how' = how
  BY <1>1 DEF Serve
<1>8. Len(remote'.got) = 0
  BY <1>5, <1>6
<1>9. Taken' = {b + 0} /\ Given' = Len(Welcome(how)) + Len(Banner) - Len(Banner)
  BY <1>5, <1>6, <1>7, <1>8 DEF Taken, Given
<1>10. Len(t) = Len(Welcome(how)) + Len(Banner) /\ Len(Banner) \in Nat
  BY <1>2, WrittenForms
<1>11. Given' = Len(Welcome(how)) /\ Given' <= Len(t)
  <2> HIDE DEF t
  <2> QED BY <1>2, <1>9, <1>10
<1>12. out \in Seq(Mail(how)) /\ Given' = Given + Len(out) /\ out = Part(t, Given, Given')
  <2>0. Len(Welcome(how)) = IF how.client \in {"socks5", "eager", "udp"} THEN 3
                            ELSE IF how.client \in {"bind", "password"} THEN 2
                            ELSE IF how.client = "http" THEN 1 ELSE 0
    BY <1>2, StreamForms
  <2>1. CASE how.client \in {"socks5", "eager"}
    <3>1. Given = 2 /\ Given' = 3 /\ out = <<Byte("success")>>
      BY <1>1, <1>11, <2>0, <2>1 DEF Given, Report
    <3>2. "success" \in Tags
      BY DEF Tags
    <3>3. out \in Seq(Mail(how)) /\ Len(out) = 1
      BY <3>1, <3>2, OneReplySeq
    <3>4. Part(t, 2, 3) = <<Byte("success")>>
      BY <1>2, <2>1, Words
    <3> HIDE DEF out, t
    <3> QED BY <3>1, <3>3, <3>4
  <2>2. CASE how.client \in {"http", "raw"}
    <3>1. Given \in Nat /\ Given = Given' /\ out = <<>> /\ Given <= Len(t)
      BY <1>1, <1>11, <2>0, <2>2 DEF Given, Report
    <3>2. <<>> \in Seq(Mail(how)) /\ Len(<<>>) = 0 /\ Part(t, Given, Given) = <<>>
      BY <3>1, NoReply
    <3>3. out \in Seq(Mail(how)) /\ Len(out) = 0 /\ out = Part(t, Given, Given)
      BY <3>1, <3>2
    <3> HIDE DEF out, t
    <3>4. Given' = Given + Len(out)
      <4> DEFINE g == Given
                 e == Len(out)
      <4>1. g \in Nat /\ e = 0 /\ Given' = g
        BY <3>1, <3>3
      <4> HIDE DEF g, e
      <4>2. g = g + e
        BY ONLY <4>1
      <4>3. Given' = g + e
        BY ONLY <4>1, <4>2, Zenon
      <4> QED BY <4>3 DEF g, e
    <3> QED BY <3>1, <3>3, <3>4
  <2> QED BY <1>3, <2>1, <2>2
<1>13. w \in Seq(Mail(how)) /\ Sent \in Nat /\ Sent <= Len(w) /\ b <= Sent /\ In = Part(w, b, Sent) /\ Len(w) \in Nat
  <2>1. w \in Seq(Mail(how))
    BY ClientAt DEF TcpInv
  <2> QED BY <1>4, <2>1, Ahead
<1>14. RemoteFollows'
  <2>1. Part(w, b, b + 0) = <<>>
    <3> DEFINE M == Mail(how)
    <3>1. w \in Seq(M) /\ b \in Nat /\ b <= b /\ b <= Len(w)
      BY <1>2, <1>13
    <3> HIDE DEF M, b, w
    <3>2. Part(w, b, b) = <<>>
      BY ONLY <3>1, PartEmpty, Zenon
    <3> QED BY <3>1, <3>2
  <2> QED BY <1>5, <1>6, <1>7, <1>8, <2>1 DEF TcpInv, RemoteFollows
<1>15. DialsWanted'
  BY <1>1, <1>6, <1>7 DEF TcpInv, DialsWanted, Wanted
<1>16. "relay" \in Course /\ "relay" \in Points \ {"closed", "failed"}
  BY <1>3 DEF Course, Points
<1>17. b \in Taken /\ n \in Nat /\ b + n <= Sent /\ b + n \in Taken' /\ Serve("relay", n, out, server.dst)
  BY <1>1, <1>2, <1>4, <1>9, <1>13
<1> HIDE DEF n, b, out, w, t
<1> QED BY <1>2, <1>4, <1>6, <1>11, <1>12, <1>13, <1>14, <1>15, <1>16, <1>17, ServeKeeps DEF w, t

LEMMA DialFailsKeeps ==
    ASSUME TcpInv, DialFails
    PROVE  TcpInv'
<1> DEFINE out == Report("error")
<1>1. server.pc = "dial" /\ Serve("failed", 0, out, NoAddr) /\ UNCHANGED remote
  BY DEF DialFails
<1>2. how.client \in Kinds /\ server.pc \in Course
  BY RemoteForms
<1>3. ~Over /\ server.pc # "relay"
  BY <1>1 DEF Over
<1>4. "failed" \in Course
  BY <1>1, <1>2 DEF Course, Kinds
<1>5. out \in Seq(Mail(how))
  <2>1. "error" \in Tags
    BY DEF Tags
  <2>2. <<Byte("error")>> \in Seq(Mail(how))
    BY <2>1, OneReplySeq
  <2> QED BY <2>2 DEF Report
<1>6. 0 \in Nat /\ 0 <= Len(In)
  BY <1>3, Ahead
<1> HIDE DEF out
<1> QED BY <1>1, <1>3, <1>4, <1>5, <1>6, ServeEnds

LEMMA FetchKeeps ==
    ASSUME TcpInv, Fetch
    PROVE  TcpInv'
<1> DEFINE w == Written(how)
           page == <<Byte("GET")>>
           out == <<Byte("200")>>
           n == 0
           m == 2
<1>1. /\ server.pc = "dial" /\ how.client = "get"
      /\ remote' = [remote EXCEPT !.addr = server.dst, !.got = page]
      /\ Serve("request", 0, out, NoAddr)
  BY DEF Fetch
<1>2. /\ remote = [addr |-> remote.addr, got |-> remote.got, data |-> remote.data]
      /\ remote.got \in Seq(Mail(how)) /\ remote.data \in Seq(Mail(how))
      /\ how \in Scenarios
  BY RemoteForms
<1>3. page \in Seq(Mail(how)) /\ out \in Seq(Mail(how))
  <2>1. "GET" \in Tags /\ "200" \in Tags
    BY DEF Tags
  <2> QED BY <2>1, OneReplySeq
<1>4. Len(Handshake(how)) = 2
  BY <1>1, <1>2, StreamForms DEF Commands
<1>5. ~Over /\ Taken = {2}
  BY <1>1, <1>4 DEF Over, Taken
<1> HIDE DEF page
<1>6. /\ remote' = [addr |-> server.dst, got |-> page, data |-> remote.data]
      /\ remote'.got = page /\ remote'.data = remote.data /\ remote'.addr = server.dst
  BY <1>1, <1>2
<1>7. server'.pc = "request" /\ how' = how
  BY <1>1 DEF Serve
<1>8. m + n \in Taken' /\ n \in Nat /\ m \in Taken
  <2>1. Taken' = {0, 2}
    BY <1>1, <1>7 DEF Taken
  <2> QED BY <1>5, <2>1
<1>9. Sent \in Nat /\ m <= Sent /\ In = Part(w, m, Sent) /\ m + n <= Sent
  BY <1>5, Ahead
<1>10. RemoteFollows'
  BY <1>1, <1>6, <1>7 DEF TcpInv, RemoteFollows
<1>11. DialsWanted'
  BY <1>1, <1>6, <1>7 DEF TcpInv, DialsWanted, Wanted
<1>12. "request" \in Course /\ "request" \in Points \ {"closed", "failed"}
  BY <1>1 DEF Course, Points
<1>13. Serve("request", n, out, NoAddr)
  BY <1>1
<1> HIDE DEF n, m, out, w
<1> QED BY <1>1, <1>2, <1>3, <1>5, <1>6, <1>8, <1>9, <1>10, <1>11, <1>12, <1>13, ServeKeeps DEF w

LEMMA RelayUpKeeps ==
    ASSUME TcpInv, RelayUp
    PROVE  TcpInv'
<1> DEFINE w == Written(how)
           t == Told(how)
           M == Mail(how)
           b == Len(Handshake(how))
           r == Len(remote.got)
           m == b + r
           x == In[1]
           none == <<>>
           n == 1
<1>1. /\ server.pc = "relay" /\ In # <<>>
      /\ remote' = [remote EXCEPT !.got = Append(remote.got, x)]
      /\ Serve("relay", 1, none, server.dst)
  BY DEF RelayUp
<1>2. /\ remote = [addr |-> remote.addr, got |-> remote.got, data |-> remote.data]
      /\ remote.got \in Seq(M) /\ remote.data \in Seq(M)
      /\ how \in Scenarios /\ how.client \in Kinds /\ server.pc \in Course
      /\ b \in Nat /\ r \in Nat
  BY RemoteForms
<1>3. how.client \in {"socks5", "eager", "http", "raw"}
  BY <1>1, <1>2 DEF Course, Kinds
<1>4. ~Over /\ Taken = {m}
  BY <1>1 DEF Over, Taken
<1>5. /\ Sent \in Nat /\ Sent <= Len(w) /\ Len(w) \in Nat /\ In \in Seq(M) /\ Len(In) \in Nat
      /\ m \in Nat /\ m <= Sent /\ In = Part(w, m, Sent) /\ Len(In) = Sent - m
      /\ \A i \in 1..Len(In) : In[i] = w[m + i]
  BY <1>4, Ahead
<1>6. w \in Seq(M)
  BY ClientAt DEF TcpInv
<1>7. Len(In) >= 1 /\ x \in M
  <2> HIDE DEF M
  <2> QED BY <1>1, <1>5
<1>8. x = w[m + 1] /\ m < Len(w) /\ m + 1 <= Sent
  <2> HIDE DEF w, m
  <2> QED BY <1>5, <1>7
<1> HIDE DEF x
<1> DEFINE g == Append(remote.got, x)
<1>9. g \in Seq(M) /\ Len(g) = r + 1
  <2> HIDE DEF M
  <2> QED BY <1>2, <1>7
<1>10. g = Part(w, b, b + (r + 1))
  <2>1. remote.got = Part(w, b, m)
    BY <1>1 DEF TcpInv, RemoteFollows
  <2>2. w \in Seq(M) /\ b \in Nat /\ m \in Nat /\ b <= m /\ m < Len(w)
    BY <1>2, <1>5, <1>6, <1>8
  <2>3. b + (r + 1) = m + 1
    BY <1>2
  <2> HIDE DEF w, M, m, b
  <2>4. Append(Part(w, b, m), w[m + 1]) = Part(w, b, m + 1)
    BY ONLY <2>2, PartNext, Zenon
  <2> QED BY <1>8, <2>1, <2>3, <2>4
<1> HIDE DEF g
<1>11. /\ remote' = [addr |-> remote.addr, got |-> g, data |-> remote.data]
       /\ remote'.got = g /\ remote'.data = remote.data /\ remote'.addr = remote.addr
  BY <1>1, <1>2 DEF g
<1>12. server'.pc = "relay" /\ how' = how
  BY <1>1 DEF Serve
<1>13. Taken' = {b + (r + 1)} /\ Given' = Given
  BY <1>1, <1>9, <1>11, <1>12 DEF Taken, Given
<1>14. Given \in Nat /\ Given <= Len(t)
  BY <1>3, <1>4, GivenNat
<1>15. none \in Seq(M) /\ Len(none) = 0 /\ none = Part(t, Given, Given)
  BY <1>14, NoReply
<1>16. how.client # "get" => /\ Given' = Given + Len(none) /\ Given' <= Len(t)
                             /\ none = Part(t, Given, Given')
  <2> HIDE DEF none, t
  <2> QED BY <1>13, <1>14, <1>15
<1>17. RemoteFollows'
  BY <1>9, <1>10, <1>11, <1>12 DEF TcpInv, RemoteFollows
<1>18. DialsWanted'
  BY <1>11, <1>12 DEF TcpInv, DialsWanted, Wanted
<1>19. "relay" \in Course /\ "relay" \in Points \ {"closed", "failed"}
  BY <1>1, <1>2 DEF Points
<1>20. m \in Taken /\ n \in Nat /\ m + n <= Sent /\ m + n \in Taken' /\ Serve("relay", n, none, server.dst)
  <2>1. m + 1 = b + (r + 1)
    BY <1>2
  <2> QED BY <1>1, <1>4, <1>8, <1>13, <2>1
<1> HIDE DEF n, m, none, w, t, M
<1> QED BY <1>2, <1>4, <1>5, <1>9, <1>11, <1>15, <1>16, <1>17, <1>18, <1>19, <1>20, ServeKeeps DEF w, t, M

LEMMA RelayDownKeeps ==
    ASSUME TcpInv, RelayDown
    PROVE  TcpInv'
<1> DEFINE w == Written(how)
           t == Told(how)
           M == Mail(how)
           d == remote.data
           z == Len(d)
           l == Len(Banner)
           m == Len(Handshake(how)) + Len(remote.got)
           x == Head(d)
           v == Len(Welcome(how))
           out == <<x>>
           n == 0
           k == l - z
<1>1. /\ server.pc = "relay" /\ d # <<>>
      /\ remote' = [remote EXCEPT !.data = Tail(d)]
      /\ Serve("relay", 0, out, server.dst)
  BY DEF RelayDown
<1>2. /\ remote = [addr |-> remote.addr, got |-> remote.got, data |-> d]
      /\ remote.got \in Seq(M) /\ d \in Seq(M)
      /\ how \in Scenarios /\ how.client \in Kinds /\ server.pc \in Course
      /\ v \in Nat /\ z \in Nat
  BY RemoteForms
<1>3. how.client \in {"socks5", "eager", "http", "raw"}
  BY <1>1, <1>2 DEF Course, Kinds
<1>4. ~Over /\ Taken = {m} /\ Given = v + l - z
  BY <1>1 DEF Over, Taken, Given
<1>5. Sent \in Nat /\ m \in Nat /\ m <= Sent /\ In = Part(w, m, Sent)
  BY <1>4, Ahead
<1>6. /\ Len(t) = v + l /\ l \in Nat /\ t \in Seq(M)
      /\ \A i \in 1..l : t[v + i] = Banner[i]
  BY <1>2, WrittenForms
<1>7. Banner \in Seq(M)
  BY MailForms DEF Tags
<1>8. z <= l /\ d = Part(Banner, k, l)
  BY DEF TcpInv, RemoteFollows
<1>9. z > 0 /\ x \in M /\ Tail(d) \in Seq(M) /\ Len(Tail(d)) = z - 1
  <2> HIDE DEF M, d
  <2> QED BY <1>1, <1>2
<1>10. /\ k \in Nat /\ k < l /\ k + 1 \in 1..l /\ l - (z - 1) = k + 1 /\ z - 1 <= l
       /\ Given = v + k /\ v + k + 1 = v + l - (z - 1)
  <2> DEFINE g == Given
  <2>1. z \in Nat /\ l \in Nat /\ v \in Nat /\ z <= l /\ z > 0 /\ g = v + l - z
    BY <1>2, <1>4, <1>6, <1>8, <1>9
  <2> HIDE DEF z, l, v, g
  <2>2. /\ l - z \in Nat /\ l - z < l /\ l - z + 1 \in 1..l /\ l - (z - 1) = l - z + 1 /\ z - 1 <= l
        /\ g = v + (l - z) /\ v + (l - z) + 1 = v + l - (z - 1)
    BY ONLY <2>1
  <2> QED BY <2>2 DEF g
<1>11. x = Banner[k + 1] /\ Tail(d) = Part(Banner, k + 1, l)
  <2>1. Banner \in Seq(M) /\ k \in Nat /\ l \in Nat /\ k < l /\ l <= Len(Banner)
    BY <1>6, <1>7, <1>10
  <2> HIDE DEF M, k, l, d
  <2>2. Head(Part(Banner, k, l)) = Banner[k + 1]
    BY ONLY <2>1, PartHead, Zenon
  <2>3. Tail(Part(Banner, k, l)) = Part(Banner, k + 1, l)
    BY ONLY <2>1, PartTail, Zenon
  <2> QED BY <1>8, <2>2, <2>3
<1>12. x = t[v + k + 1]
  <2> HIDE DEF t, l, v, k, x
  <2>1. t[v + (k + 1)] = Banner[k + 1]
    BY <1>6, <1>10
  <2>2. v + (k + 1) = v + k + 1
    BY <1>2, <1>10
  <2> QED BY <1>11, <2>1, <2>2
<1>13. /\ remote' = [addr |-> remote.addr, got |-> remote.got, data |-> Tail(d)]
       /\ remote'.got = remote.got /\ remote'.data = Tail(d) /\ remote'.addr = remote.addr
  <2> HIDE DEF d
  <2> QED BY <1>1, <1>2
<1>14. server'.pc = "relay" /\ how' = how
  BY <1>1 DEF Serve
<1>15. Taken' = {m} /\ Given' = v + l - (z - 1)
  BY <1>9, <1>13, <1>14 DEF Taken, Given
<1>16. out \in Seq(M) /\ Len(out) = 1
  <2> HIDE DEF M, x
  <2> QED BY <1>9
<1>17. out = Part(t, v + k, v + k + 1)
  <2> DEFINE j == v + k
  <2>1. t \in Seq(M) /\ j \in Nat /\ j < Len(t)
    <3> HIDE DEF t, l, v, k
    <3> QED BY <1>2, <1>6, <1>10
  <2> HIDE DEF t, M, j
  <2>2. Part(t, j, j + 1) = <<t[j + 1]>>
    BY ONLY <2>1, PartOne, Zenon
  <2> QED BY <1>12, <2>2 DEF j
<1>18. how.client # "get" => /\ Given' = Given + Len(out) /\ Given' <= Len(t)
                             /\ out = Part(t, Given, Given')
  <2> HIDE DEF out, t, k, v, l, z
  <2>1. Given' = v + k + 1 /\ Given = v + k
    BY <1>10, <1>15
  <2>2. v + k + 1 <= Len(t) /\ v + k + 1 = (v + k) + Len(out)
    BY <1>2, <1>6, <1>10, <1>16
  <2> QED BY <1>17, <2>1, <2>2
<1>19. RemoteFollows'
  <2>1. Len(Tail(d)) <= l /\ Tail(d) = Part(Banner, l - Len(Tail(d)), l)
    BY <1>9, <1>10, <1>11
  <2> QED BY <1>1, <1>13, <1>14, <2>1 DEF TcpInv, RemoteFollows
<1>20. DialsWanted'
  BY <1>13, <1>14 DEF TcpInv, DialsWanted, Wanted
<1>21. "relay" \in Course /\ "relay" \in Points \ {"closed", "failed"}
  BY <1>1, <1>2 DEF Points
<1>22. m \in Taken /\ n \in Nat /\ m + n <= Sent /\ m + n \in Taken' /\ Serve("relay", n, out, server.dst)
  <2>1. m + n = m
    BY <1>5
  <2> HIDE DEF m
  <2> QED BY <1>1, <1>4, <1>5, <1>15, <2>1
<1> HIDE DEF n, m, out, w, t, M, d
<1> QED BY <1>2, <1>4, <1>5, <1>9, <1>13, <1>16, <1>18, <1>19, <1>20, <1>21, <1>22, ServeKeeps DEF w, t, M

\* A connection begins at the start of both streams.
LEMMA TcpStarts ==
    ASSUME Init
    PROVE  TcpInv
<1> DEFINE M == Mail(how)
           O == Operation(how)
           s == Script(how)
           w == Written(how)
           t == Told(how)
           u == Unwritten(how)
           none == <<>>
<1>1. /\ how \in Scenarios
      /\ client = [script |-> s, buf |-> none, state |-> "run", data |-> u, got |-> none]
      /\ server = [pc |-> IF how.client = "none" THEN "off" ELSE "listen", peeked |-> none, dst |-> NoAddr]
      /\ up = none /\ down = none /\ shut = FALSE
      /\ remote = [addr |-> NoAddr, got |-> none, data |-> Banner]
  BY DEF Init, UdpOnly
<1>2. /\ how.client \in Kinds
      /\ s \in Seq(O) /\ w \in Seq(M) /\ t \in Seq(M) /\ u \in Seq(M) /\ Banner \in Seq(M)
      /\ none \in Seq(M) /\ Len(none) = 0
  <2>1. Banner \in Seq(M)
    BY MailForms DEF Tags
  <2> QED BY <1>1, <2>1, ScenarioForms, ScriptForms, WrittenForms
<1>21. Len(s) = IF how.client \in Commands THEN 7 ELSE IF how.client = "eager" THEN 5
                ELSE IF how.client = "password" THEN 4 ELSE IF how.client \in {"http", "get"} THEN 3
                ELSE IF how.client = "quiet" THEN 1 ELSE 0
  BY <1>1, ScriptForms
<1>3. /\ Len(s) \in Nat /\ Len(w) \in Nat /\ Len(u) \in Nat /\ Len(Banner) \in Nat /\ Len(t) \in Nat
      /\ none \o none = none
  <2> HIDE DEF M, O, s, w, t, u
  <2> QED BY <1>2
<1>4. /\ Flushed(how, 0) = 0 /\ Buffered(how, 0) = 0 /\ Heard(how, 0) = 0 /\ Len(u) <= Len(w)
  <2>1. 0 \in 0..Len(s)
    BY <1>3
  <2> QED BY <1>1, <2>1, Progress
<1>5. /\ client.script = s /\ client.buf = none /\ client.state = "run" /\ client.data = u /\ client.got = none
      /\ server.peeked = none /\ server.dst = NoAddr
      /\ server.pc = IF how.client = "none" THEN "off" ELSE "listen"
      /\ server = [pc |-> server.pc, peeked |-> server.peeked, dst |-> server.dst]
      /\ remote.addr = NoAddr /\ remote.got = none /\ remote.data = Banner
      /\ remote = [addr |-> remote.addr, got |-> remote.got, data |-> remote.data]
  <2> HIDE DEF none, s, u
  <2> QED BY <1>1
<1>6. TcpTyped
  <2>1. client \in [script : Seq(O), buf : Seq(M), state : {"run", "failed"}, data : Seq(M), got : Seq(M)]
    <3> HIDE DEF M, O, s, u, none
    <3> QED BY <1>1, <1>2
  <2>2. server.pc \in Points
    BY <1>5 DEF Points
  <2> QED BY <1>1, <1>2, <1>5, <2>1, <2>2 DEF TcpTyped
<1>7. Done = 0 /\ Sent = 0
  <2>1. Done = Len(s) - Len(s) /\ Sent = Flushed(how, Done) + (Len(u) - Len(u))
    BY <1>5 DEF Done, Sent
  <2> HIDE DEF s, u
  <2>2. Done = 0
    BY <1>3, <2>1
  <2> QED BY <1>3, <1>4, <2>1, <2>2
<1>8. Part(w, 0, 0) = none /\ Part(t, 0, 0) = none
  <2> DEFINE z == 0
  <2>1. w \in Seq(M) /\ t \in Seq(M) /\ z \in Nat /\ z <= z /\ z <= Len(w) /\ z <= Len(t)
    BY <1>2, <1>3
  <2> HIDE DEF M, w, t, z
  <2>2. Part(w, z, z) = <<>> /\ Part(t, z, z) = <<>>
    BY ONLY <2>1, PartEmpty, Zenon
  <2> QED BY <2>2 DEF z
<1>9. ClientFollows
  <2>1. s = Part(s, 0, Len(s))
    BY <1>2, PartWhole
  <2>2. u = Part(w, Len(w) - Len(u), Len(w))
    <3>1. CASE how.client \in {"eager", "get", "udp", "none"}
      <4> DEFINE l == Len(w)
                 z == Len(u)
      <4>1. u = <<>> /\ z = 0
        BY <3>1, <1>2 DEF Unwritten
      <4>2. w \in Seq(M) /\ l \in Nat /\ l <= l /\ l <= Len(w) /\ l - z = l
        BY <1>2, <1>3, <4>1
      <4> HIDE DEF M, w, l, z
      <4>3. Part(w, l, l) = <<>>
        BY ONLY <4>2, PartEmpty, Zenon
      <4> QED BY <4>1, <4>2, <4>3 DEF l, z
    <3>2. CASE how.client \notin {"eager", "get", "udp", "none"}
      <4> DEFINE a == Len(w) - Len(u)
                 b == Len(w)
                 p == Part(w, a, b)
      <4>1. /\ u = Data /\ Len(w) = Len(Handshake(how)) + Len(Data)
            /\ \A i \in 1..Len(Data) : w[Len(Handshake(how)) + i] = Data[i]
            /\ Len(Handshake(how)) \in Nat /\ Len(Data) \in Nat
        BY <1>1, <1>2, <1>3, <3>2, WrittenForms, StreamForms DEF Unwritten
      <4>2. /\ w \in Seq(M) /\ a \in Nat /\ b \in Nat /\ a <= b /\ b <= Len(w)
            /\ a = Len(Handshake(how)) /\ b - a = Len(u)
        <5> HIDE DEF w, u
        <5> QED BY <1>2, <1>3, <1>4, <4>1
      <4> HIDE DEF M, w, u, a, b
      <4>3. p \in Seq(M) /\ Len(p) = b - a
        BY ONLY <4>2, PartSeq, Zenon
      <4>6. \A i \in 1..(b - a) : p[i] = w[a + i]
        BY ONLY <4>2, PartItems, Zenon
      <4> HIDE DEF p
      <4>4. Len(p) = Len(u) /\ \A i \in 1..Len(p) : p[i] = u[i]
        BY <4>1, <4>2, <4>3, <4>6
      <4>5. p = u
        BY <1>2, <4>3, <4>4, SeqEqual
      <4> QED BY <4>5 DEF p, a, b
    <3> QED BY <3>1, <3>2
  <2> HIDE DEF s, u, w, none
  <2> QED BY <1>3, <1>4, <1>5, <1>7, <1>8, <2>1, <2>2 DEF ClientFollows, s, u, w
<1>10. ~Over /\ Taken = {0} /\ Given = 0
  BY <1>5 DEF Over, Taken, Given
<1>11. UpFollows
  BY <1>1, <1>3, <1>5, <1>7, <1>8, <1>10 DEF UpFollows, In
<1>12. DownFollows
  <2>1. /\ Len(down) = 0 /\ Len(client.got) = 0 /\ 0 - 0 = 0 /\ 0 <= 0
        /\ down = Part(t, 0, 0) /\ client.got = Part(t, 0, 0)
    BY <1>1, <1>2, <1>5, <1>8
  <2>2. client.script = <<>> => Len(Welcome(how)) = 0 /\ 0 + Len(Welcome(how)) = 0
    <3>1. client.script = <<>> => how.client \in {"raw", "none"}
      <4>1. client.script = <<>> => Len(s) = 0
        BY <1>5
      <4> HIDE DEF s
      <4> QED BY <1>2, <1>21, <4>1 DEF Kinds, Commands
    <3> QED BY <1>1, <3>1, StreamForms
  <2> HIDE DEF t, none
  <2> QED BY <1>4, <1>5, <1>7, <1>10, <2>1, <2>2 DEF DownFollows, t, none
<1>13. RemoteFollows
  <2>1. Banner = Part(Banner, Len(Banner) - Len(Banner), Len(Banner))
    <3>1. Banner = Part(Banner, 0, Len(Banner)) /\ Len(Banner) - Len(Banner) = 0
      BY <1>2, <1>3, PartWhole
    <3> QED BY <3>1
  <2> HIDE DEF none
  <2> QED BY <1>3, <1>5, <2>1 DEF RemoteFollows, none
<1>14. OnCourse
  <2>1. server.pc \in Course
    BY <1>2, <1>5 DEF Course, Kinds
  <2>2. Over = FALSE
    BY <1>5 DEF Over
  <2> QED BY <1>1, <1>5, <2>1, <2>2 DEF OnCourse
<1>15. DialsWanted
  BY <1>5 DEF DialsWanted
<1>16. Unopened
  <2>1. how.client \in {"password", "quiet"} => Len(s) > 0
    <3> HIDE DEF s
    <3> QED BY <1>21 DEF Commands
  <2> QED BY <1>5, <2>1 DEF Unopened
<1> QED BY <1>6, <1>9, <1>11, <1>12, <1>13, <1>14, <1>15, <1>16 DEF TcpInv

\* Every step of either end keeps both in their streams.
LEMMA TcpStepKeeps ==
    ASSUME TcpInv, ClientNext \/ ServerNext
    PROVE  TcpInv'
<1>1. CASE ClientNext
  BY <1>1, ClientWritesKeeps, ClientReadsKeeps, UserWritesKeeps, UserReadsKeeps DEF ClientNext
<1>2. CASE ServerNext
  BY <1>2, AcceptKeeps, PeekKeeps, HelloKeeps, CommandRequestKeeps, AssociateKeeps, RequestKeeps,
     DialKeeps, DialFailsKeeps, FetchKeeps, RelayUpKeeps, RelayDownKeeps DEF ServerNext
<1> QED BY <1>1, <1>2

\* A step that leaves one side of the proxies alone keeps its invariant.
LEMMA UdpStays ==
    ASSUME UdpInv, UNCHANGED udpVars
    PROVE  UdpInv'
<1>1. chan \in Channels /\ UNCHANGED <<chan, socket, uplink, replies, asked, forwarded, answers>>
  BY DEF UdpInv, UdpTyped, udpVars
<1> QED BY <1>1, ChannelKeeps

LEMMA TcpStays ==
    ASSUME TcpInv, UNCHANGED tcpVars
    PROVE  TcpInv'
<1>1. UNCHANGED <<how, client, server, up, down, shut, remote>>
  BY DEF tcpVars
<1>2. (Over' <=> Over) /\ Taken' = Taken /\ Given' = Given /\ Course' = Course
  BY <1>1, ServerStays
<1>3. Done' = Done /\ Sent' = Sent
  BY <1>1 DEF Done, Sent
<1>4. TcpTyped' /\ ClientFollows'
  BY <1>1, <1>3 DEF TcpInv, TcpTyped, ClientFollows
<1>5. UpFollows'
  BY <1>1, <1>3, UpStays
<1>6. DownFollows'
  BY <1>1, <1>2, <1>3 DEF TcpInv, DownFollows
<1>7. Unopened'
  BY <1>1, <1>2 DEF TcpInv, Unopened
<1> QED BY <1>1, <1>4, <1>5, <1>6, <1>7, ClientKeeps

LEMMA AssociateOpens ==
    ASSUME UdpInv, Associate
    PROVE  UdpInv'
<1>1. /\ UNCHANGED <<socket, uplink, replies, asked, forwarded, answers>>
      /\ chan' = chan \/ chan' = [chan EXCEPT !.state = "open"]
  BY DEF Associate
<1>2. chan \in Channels
  BY DEF UdpInv, UdpTyped
<1>3. chan' \in Channels /\ chan'.kind = chan.kind /\ chan'.client = chan.client
      /\ chan'.send_buf = chan.send_buf
  BY <1>1, <1>2 DEF Channels
<1> QED BY <1>1, <1>3, ChannelKeeps

LEMMA ProxyStepKeeps ==
    ASSUME TcpInv, UdpInv, [Next]_vars
    PROVE  TcpInv' /\ UdpInv'
<1>1. CASE ClientNext \/ ServerNext
  <2>1. UNCHANGED udpVars \/ Associate
    BY <1>1 DEF ClientNext, ClientWrites, ClientReads, UserWrites, UserReads,
       ServerNext, Accept, Peek, Hello, CommandRequest, Request, Dial, DialFails, Fetch, RelayUp, RelayDown
  <2> QED BY <1>1, <2>1, TcpStepKeeps, UdpStays, AssociateOpens
<1>2. CASE UdpNext /\ UNCHANGED tcpVars
  BY <1>2, UdpStepKeeps, TcpStays
<1>3. CASE UNCHANGED vars
  <2>1. UNCHANGED tcpVars /\ UNCHANGED udpVars
    BY <1>3 DEF vars
  <2> QED BY <2>1, UdpStays, TcpStays
<1> QED BY <1>1, <1>2, <1>3 DEF Next

\* A stretch of a stream that lies behind its first v messages.
EndsWith(w, v, d) == Len(w) = v + Len(d) /\ \A i \in 1..Len(d) : w[v + i] = d[i]
SameBehind(w, v, d) == \A a, b \in Nat : a <= b /\ b <= Len(d) => Part(w, v + a, v + b) = Part(d, a, b)
LEMMA PartBehind ==
    ASSUME NEW S, NEW w \in Seq(S), NEW d \in Seq(S), NEW v \in Nat, EndsWith(w, v, d)
    PROVE  SameBehind(w, v, d)
<1> SUFFICES ASSUME NEW a \in Nat, NEW b \in Nat, a <= b, b <= Len(d)
             PROVE  Part(w, v + a, v + b) = Part(d, a, b)
  BY DEF SameBehind
<1> DEFINE x == v + a
           y == v + b
           p == Part(w, x, y)
           q == Part(d, a, b)
<1>1. x \in Nat /\ y \in Nat /\ x <= y /\ y <= Len(w) /\ y - x = b - a
  BY DEF EndsWith
<1>2. q \in Seq(S) /\ Len(q) = b - a
  BY PartSeq, Zenon
<1>3. \A i \in 1..(b - a) : q[i] = d[a + i]
  BY PartItems, Zenon
<1>4. \A i \in 1..(b - a) : w[x + i] = d[a + i]
  <2> TAKE i \in 1..(b - a)
  <2>1. a + i \in 1..Len(d) /\ v + (a + i) = x + i
    OBVIOUS
  <2> QED BY <2>1 DEF EndsWith
<1> HIDE DEF x, y, q
<1>5. p \in Seq(S) /\ Len(p) = y - x
  BY <1>1, PartSeq, Zenon
<1>6. \A i \in 1..(y - x) : p[i] = w[x + i]
  BY <1>1, PartItems, Zenon
<1> HIDE DEF p
<1>7. Len(p) = Len(q) /\ \A i \in 1..Len(p) : p[i] = q[i]
  BY <1>1, <1>2, <1>3, <1>4, <1>5, <1>6
<1>8. p = q
  BY <1>2, <1>5, <1>7, SeqEqual
<1> QED BY <1>8 DEF p, q, x, y

LEMMA BeginningIsPrefix ==
    ASSUME NEW S, NEW d \in Seq(S), NEW n \in Nat, n <= Len(d), NEW s \in Seq(S), Len(s) = n,
           s = SubSeq(d, 1, n)
    PROVE  IsPrefix(s, d)
<1>1. SubSeq(s, 1, Len(s)) = s
  BY SubSeqFull
<1> QED BY <1>1 DEF IsPrefix

\* While the two ends follow their streams, the target has a beginning of what
\* the user wrote, and the user a stretch of what the target wrote.
LEMMA StreamsFollow == TcpInv => StreamsIntact
<1> SUFFICES ASSUME TcpInv, remote.addr # NoAddr, how.client # "get"
             PROVE  /\ IsPrefix(remote.got, Data)
                    /\ IF how.client = "http" THEN IsSuffixOfPrefix(client.got, Banner)
                       ELSE IsPrefix(client.got, Banner)
  BY DEF StreamsIntact
<1> DEFINE M == Mail(how)
           w == Written(how)
           t == Told(how)
           H == Len(Handshake(how))
           v == Len(Welcome(how))
           n == Len(remote.got)
           g == Len(client.got)
           l == Len(Banner)
<1>1. /\ how \in Scenarios /\ how.client \in Kinds /\ server.pc = "relay" /\ ~Over
      /\ remote.got \in Seq(M) /\ client.got \in Seq(M) /\ client.state \in {"run", "failed"}
  BY ScenarioForms DEF TcpInv, TcpTyped, RemoteFollows, Over
<1>2. how.client \in {"socks5", "eager", "http", "raw"} /\ client.state = "run"
  BY <1>1 DEF TcpInv, OnCourse, Course, Kinds
<1>3. /\ w \in Seq(M) /\ t \in Seq(M) /\ Data \in Seq(M) /\ Banner \in Seq(M)
      /\ Len(w) = H + Len(Data) /\ \A i \in 1..Len(Data) : w[H + i] = Data[i]
      /\ Len(t) = v + l /\ \A i \in 1..l : t[v + i] = Banner[i]
      /\ H \in Nat /\ v \in Nat
  <2>1. Data \in Seq(M) /\ Banner \in Seq(M)
    BY MailForms DEF Tags
  <2>2. /\ w \in Seq(M) /\ t \in Seq(M)
        /\ Len(w) = H + Len(Data) /\ \A i \in 1..Len(Data) : w[H + i] = Data[i]
        /\ Len(t) = v + l /\ \A i \in 1..l : t[v + i] = Banner[i]
    BY <1>1, <1>2, WrittenForms
  <2>3. H \in Nat /\ v \in Nat
    BY <1>1, StreamForms
  <2> QED BY <2>1, <2>2, <2>3
<1>4. n \in Nat /\ g \in Nat /\ l \in Nat /\ Len(Data) \in Nat
  <2> HIDE DEF M
  <2> QED BY <1>1, <1>3
<1>5. H + n <= Len(w) /\ remote.got = Part(w, H, H + n)
  <2>1. Taken = {H + n}
    BY <1>1 DEF Taken
  <2>2. Sent \in Nat /\ Sent <= Len(w) /\ Len(w) \in Nat /\ \E m \in Taken : m <= Sent
    BY <1>1, Ahead
  <2>3. remote.got = Part(w, H, H + n)
    BY <1>1 DEF TcpInv, RemoteFollows
  <2> HIDE DEF H, n, w
  <2> QED BY <1>3, <1>4, <2>1, <2>2, <2>3
<1>6. IsPrefix(remote.got, Data)
  <2> DEFINE z == 0
  <2>1. /\ w \in Seq(M) /\ Data \in Seq(M) /\ H \in Nat /\ z \in Nat /\ n \in Nat
        /\ EndsWith(w, H, Data) /\ z <= n /\ n <= Len(Data)
    <3> HIDE DEF w, H, n, M
    <3> QED BY <1>3, <1>4, <1>5 DEF EndsWith
  <2> HIDE DEF w, H, n, M, z
  <2>5. SameBehind(w, H, Data)
    BY ONLY <2>1, PartBehind, Zenon
  <2>2. Part(w, H + z, H + n) = Part(Data, z, n)
    BY ONLY <2>1, <2>5, Zenon DEF SameBehind
  <2>3. remote.got = SubSeq(Data, 1, n)
    BY <1>5, <2>1, <2>2 DEF z, Part
  <2>4. Len(remote.got) = n
    BY DEF n
  <2> QED BY <1>1, <1>3, <2>1, <2>3, <2>4, BeginningIsPrefix
<1>7. CASE client.script # <<>>
  <2>1. client.got = <<>>
    BY <1>1, <1>2, <1>7 DEF TcpInv, DownFollows
  <2>2. IsPrefix(<<>>, Banner)
    <3>1. SubSeq(Banner, 1, 0) = <<>> /\ Len(<<>>) = 0 /\ SubSeq(<<>>, 1, 0) = <<>> /\ 0 <= Len(Banner)
      BY <1>3, <1>4
    <3> QED BY <3>1 DEF IsPrefix
  <2>3. <<>> \in SubSeqs(Banner)
    <3>1. SubSeq(Banner, 0 + 1, 0) = <<>> /\ 0 \in 0..Len(Banner)
      BY <1>3, <1>4
    <3> QED BY <3>1 DEF SubSeqs
  <2> QED BY <1>6, <2>1, <2>2, <2>3 DEF IsSuffixOfPrefix
<1>8. CASE client.script = <<>>
  <2> DEFINE k == Given - Len(down)
             a == k - g - v
             b == k - v
  <2>1. /\ Given \in Nat /\ Len(down) \in Nat /\ Given <= Len(t) /\ Len(down) <= Given
    BY <1>1, <1>2, Streaming
  <2>2. /\ g + v <= k /\ (how.client # "http" => g + v = k) /\ client.got = Part(t, k - g, k)
    BY <1>1, <1>2, <1>8 DEF TcpInv, DownFollows
  <2>3. /\ a \in Nat /\ b \in Nat /\ a <= b /\ b <= l /\ v + a = k - g /\ v + b = k /\ b - a = g
        /\ how.client # "http" => a = 0
    <3> DEFINE G == Given
               D == Len(down)
    <3>1. /\ G \in Nat /\ D \in Nat /\ D <= G /\ G <= v + l /\ v \in Nat /\ g \in Nat /\ l \in Nat
          /\ k = G - D /\ g + v <= k
      BY <1>3, <1>4, <2>1, <2>2
    <3> HIDE DEF G, D, k, g, v, l
    <3>2. /\ k - g - v \in Nat /\ k - v \in Nat /\ k - g - v <= k - v /\ k - v <= l
          /\ v + (k - g - v) = k - g /\ v + (k - v) = k /\ (k - v) - (k - g - v) = g
          /\ g + v = k => k - g - v = 0
      BY ONLY <3>1
    <3> QED BY <2>2, <3>2
  <2>4. client.got = SubSeq(Banner, a + 1, b)
    <3>1. /\ t \in Seq(M) /\ Banner \in Seq(M) /\ v \in Nat /\ a \in Nat /\ b \in Nat
          /\ EndsWith(t, v, Banner) /\ a <= b /\ b <= Len(Banner)
      BY <1>3, <2>3 DEF EndsWith
    <3> HIDE DEF t, M, v, a, b
    <3>4. SameBehind(t, v, Banner)
      BY ONLY <3>1, PartBehind, Zenon
    <3>2. Part(t, v + a, v + b) = Part(Banner, a, b)
      BY ONLY <3>1, <3>4, Zenon DEF SameBehind
    <3>3. Part(Banner, a, b) = SubSeq(Banner, a + 1, b)
      BY DEF Part
    <3> HIDE DEF k, g
    <3> QED BY <2>2, <2>3, <3>2, <3>3
  <2>5. IF how.client = "http" THEN client.got \in SubSeqs(Banner) ELSE IsPrefix(client.got, Banner)
    <3>1. CASE how.client = "http"
      <4>1. a \in 0..Len(Banner) /\ b \in 0..Len(Banner)
        <5> HIDE DEF a, b
        <5> QED BY <1>4, <2>3
      <4> HIDE DEF a, b
      <4> QED BY <3>1, <2>4, <4>1 DEF SubSeqs
    <3>2. CASE how.client # "http"
      <4>1. a = 0 /\ b = g /\ g <= Len(Banner) /\ g \in Nat /\ Len(client.got) = g
        <5> HIDE DEF a, b
        <5> QED BY <1>4, <2>3, <3>2
      <4> HIDE DEF a, b, M
      <4>2. client.got = SubSeq(Banner, 1, g)
        <5> HIDE DEF g
        <5>1. a + 1 = 1
          BY <4>1
        <5> QED BY <2>4, <4>1, <5>1
      <4> HIDE DEF g
      <4> QED BY <1>1, <1>3, <3>2, <4>1, <4>2, BeginningIsPrefix
    <3> QED BY <3>1, <3>2
  <2> QED BY <1>6, <2>5 DEF IsSuffixOfPrefix
<1> QED BY <1>7, <1>8

-----------------------------------------------------------------------------
(* What the proxies promise.                                               *)

\* The invariant of the proxies: both ends of a connection follow its two
\* streams, and datagrams are what was asked for.
LEMMA ProxyInvariant == Spec => [](TcpInv /\ UdpInv)
<1>1. Init => TcpInv /\ UdpInv
  <2>1. Init => UdpInit("forward", "open") \/ UdpInit("socks5", "off")
    BY DEF Init
  <2> QED BY <2>1, TcpStarts, UdpStarts
<1>2. TcpInv /\ UdpInv /\ [Next]_vars => (TcpInv /\ UdpInv)'
  BY ProxyStepKeeps
<1> QED BY <1>1, <1>2, PTL DEF Spec

\* Whatever server and client, whatever form the address takes on the way: the
\* target dialled is the one the client asked for; and every datagram goes to the
\* address its client gave, its answer back to that client from that address.
THEOREM TargetKept == Spec => []TargetPreserved
<1>1. TcpInv /\ UdpInv => TargetPreserved
  BY UdpSafe DEF TcpInv, DialsWanted, TargetPreserved
<1> QED BY <1>1, ProxyInvariant, PTL

\* The target gets a beginning of what the client's user wrote, with nothing of
\* the handshake, and the user of what the target wrote (from some message on
\* through HttpClient).
THEOREM StreamsKept == Spec => []StreamsIntact
<1>1. TcpInv /\ UdpInv => StreamsIntact
  BY StreamsFollow
<1> QED BY <1>1, ProxyInvariant, PTL

\* Only an error of a net ends a handshake of the clients and the servers of this
\* repository.
THEOREM HandshakesSucceed == Spec => []HandshakesAgree
<1>1. TcpInv /\ UdpInv => HandshakesAgree
  <2> SUFFICES ASSUME TcpInv, \/ how.client \in {"socks5", "eager", "http", "raw"}
                              \/ how.client = "udp" /\ how.ask.type = "sock"
               PROVE  server.pc # "closed" /\ (client.state = "failed" => server.pc = "failed")
    BY DEF HandshakesAgree
  <2>1. "closed" \notin Course
    BY DEF Course
  <2> QED BY <2>1 DEF TcpInv, OnCourse
<1> QED BY <1>1, ProxyInvariant, PTL

\* The servers run the proxies as they are.
THEOREM ServersProxy == ServersSpec => Spec
<1>1. ServersInit => Init
  BY DEF ServersInit
<1>2. [ServersNext]_<<vars, forwardVars>> => [Next]_vars
  BY DEF ServersNext, ConnectionStep, ForwardStep
<1> QED BY <1>1, <1>2, PTL DEF ServersSpec, Spec
=============================================================================
