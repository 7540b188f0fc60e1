# Verification of rabbit-digger

TLA+ models of rabbit-digger, a rule based proxy written in Rust: its concurrent
core, the graph of nets, the servers that take connections in and the nets that
send them out, with TLC configurations that check them on small instances and
TLAPS proofs for every instance of most of it. Paths below are relative to the
repository.

## The system

| Part | State it keeps | Operations | Meets |
|---|---|---|---|
| `RabbitDigger` (`src/rabbit_digger.rs`) | `WaitConfig` or `Running` behind a tokio `RwLock`, shared by clones of the handle | `start`, `stop`, `join`, `start_stream`, `update_net`, readers | builds nets and servers through the registry, drives each `RunningServer`, drains the connection manager |
| `RunningServer` (`src/rabbit_digger/running.rs`) | `Idle`, `Running{handle, semaphore}` or `Finished` behind an `RwLock`; the spawned task | `start`, `stop`, `join`, `take_result` | called by every `stop` and `join` of the handle, concurrently |
| `RunningNet`, `RunningServerNet`, `WrapTcpStream`, `WrapUdpSocket` (same file) | the net behind a name; the `Connection` of a stream or socket | connect, bind, poll, `update_net` | the servers use them; they feed the connection manager |
| `ConnectionManager` (`src/rabbit_digger/connection_manager.rs`) | the table of connections with counters and stop senders, an event channel, the heartbeat | `new_connection`, `input_event`, `stop_connection(s)`, `stop` | connections send events, a task applies them, users read and stop |
| `connect_tcp` (`rd-std/src/context/connect_tcp.rs`) | two copy buffers and the state of each direction | one poll function | the task that owns most connections |
| `connect_udp`, `UdpConnector` (`rd-std`) | packet pool and queue; a socket connected at the first send | poll functions | the UDP side of servers and nets |
| `forward_udp`, `LruCache` (`rd-std/src/util`) | a table of UDP sessions with expiry and eviction, one task per session | one poll function | tproxy's `UdpSource`, which keeps a second table of sockets |
| net graph: `build_entities`, `update_net`, the registries, `NetRef` (`src/`, `rd-interface`) | the config, the `RunningNet`s by name, the net each one holds | build depth first, replace in place | `start`; requests walk the graph meanwhile |
| servers: mixed, SOCKS5, HTTP, forward, redir, tproxy (`rd-std`) | one task per connection; peeked bytes, write buffers, UDP send buffers | accept, handshake, dial, relay | clients; nets; `connect_tcp`, `connect_udp` |
| nets: rule (with cache), DNS sniffer, resolve, local, blackhole, noop (`rd-std`) | the rule cache; two tables of names; UDP send state | `tcp_connect`, `udp_bind`, `lookup_host` | each other, by name, through `RunningNet` |
| nets: SOCKS5 and HTTP clients, dns, combine, alias, echo, TLS (`rd-std`) | per connection; most none | the `INet` interface | as above |
| interface, config, derive | data types | parsing, field resolution | all |

What is hard in it: everything runs as futures that can be dropped at any
`await`; the two levels of fair read-write locks are held across awaits and
released between a decision and its effect; connections, the table that
describes them and whoever stops them see each other only through channels; the
relays are hand-written poll functions in which a missing waker or a missing
flush means sleeping forever. The hazards are listed one by one, each at its
line, in `PROJECT.json`.

What makes each part correct:

* handle: a server runs only as part of the instance in the state; a stop ends
  the instance it found; `start_stream` comes to its drain when the configs end,
  and leaves no server behind;
* server: `stop` and `join` return only when the task is over and do return; the
  result is given out once;
* connection manager: the table follows the connections, bytes are accounted
  for, a stop reaches its connection and nothing else aborts it, the final loop
  ends if owners go on reading;
* relay: what is read is written, in full before the end of file is passed on;
  no wakeup is lost; stops and ends of file end it;
* UDP relay: each direction sends every packet on once and in order (the first
  one towards a `UdpConnector` twice), with a bounded number of buffers; no wakeup
  is lost; a stop ends it;
* `forward_udp`: a client has one session as long as it is heard and nobody
  crowds it out, and what is removed is aborted; replies come back from the
  address the client sent to;
* net graph: a config is refused exactly if it cannot work, and what runs is
  what the stored config says;
* servers: whatever form an address takes on its way, the target dialled is the
  one asked for; the tunnel carries the user's bytes and nothing of the
  handshake; no handshake gets stuck;
* nets: the first rule that applies decides, cache or not; a name is recovered
  only from an answer; a packet goes to its own target; a silent address does
  not hold up a connection.

## Modules

| Module | Models | Role |
|---|---|---|
| `TokioRwLock` | `tokio::sync::RwLock` (external) | operators on a lock value: a FIFO queue of requests and the guards that are out; a dropped future leaves the queue or gives back its guard |
| `ServerCell` | a `RunningServer` as a value | what each effect of `start`, `stop`, `join`, `take_result` and of the task does to it |
| `ServerLifecycle` | the promise of a `RunningServer` | abstract specification over one cell, no lock |
| `RunningServer` | `running.rs`, `RunningServer` | callers step from await to await through the inner lock, the semaphore and the handle; implements `ServerLifecycle` |
| `RabbitDigger` | `rabbit_digger.rs` | clones of the handle step from await to await through the outer lock; servers are cells, so this module composes with `RunningServer` through the lifecycle |
| `ConnectionManager`, `MCConnectionManager` | `connection_manager.rs`, the wrapped streams, the final loop of `start_stream` | owners, event consumer, heartbeat, stoppers, drain |
| `TcpRelay` | `connect_tcp.rs` over a `WrapTcpStream` | one poll at a time, with the wakers |
| `CopyBuffer` | the packet buffers of `connect_udp.rs` as a value | operators: grow, borrow, fill, pop |
| `UdpPipe` | the promise of `connect_udp` | abstract specification: a bounded FIFO pipe per direction |
| `UdpRelay` | `connect_udp.rs` between a `UdpChannel` and a `WrapUdpSocket`, over a `UdpConnector` or a bound socket | one poll at a time, with the wakers; implements `UdpPipe` |
| `LruTimeCache` | `util/lru_cache.rs` with the crate it wraps | the cache as a value: entries in the order of use with their times, and the timer; used by `UdpForward` and, with other bounds, by `NetResolution` |
| `UdpForward` | `util/forward_udp*`, `UdpSource` of `transparent/tproxy.rs` | the forwarding task poll by poll, the sessions, both caches |
| `CompactVecString`, `Address` | the types of that name in `rd-interface` | operators, with texts as sequences of tokens |
| `NetGraph`, `MCNetGraph` | `BuildContext`, `build_entities`, `update_net`, `RunningNet`, `RunningServerNet` | the recursion as a stack of frames; the reference definition of what can be built |
| `NetResolution`, `MCNetResolution` | `sniffer/`, `rule/`, `builtin/local.rs`, `resolve.rs`, `blackhole.rs`, `noop.rs` | requests on their way out |
| `UdpChannel` | the UDP sockets of the SOCKS5 client and server and of the forward server | operators and actions on a channel |
| `ProxyServer` | `mixed.rs`, `socks5/`, `http/`, TCP side of `forward.rs`, `redir.rs`, `tproxy.rs` | one connection, its client and its server; extends `UdpChannel` |
| `Servers`, `MCServers` | | extends `ProxyServer` and `UdpForward` and composes them: a scenario uses one or the other; a step of the servers leaves `forward_udp` alone and the other way round |
| `ConnectionManagerProofs`, `RunningServerProofs`, `TcpRelayProofs`, `UdpRelayProofs`, `NetResolutionProofs` | | the theorems about the module of that name |
| `RabbitDiggerProofs` | | the theorems about `RabbitDigger` and about `NetGraph`, the two halves of `rabbit_digger.rs` |
| `ServersProofs` | | the theorems about `UdpForward`, `UdpChannel` and `ProxyServer`, and what `Servers` makes of them |
| `LruTimeCacheProofs` | | lemmas on the cache operators |

How state and actions correspond to the code:

* **RunningServer**. `st`, `task`, `abort`, `closed` are the cell's state, the
  spawned task, `handle.abort()` and `semaphore.close()`. A caller's `pc` is
  the await it is at; every action takes it from one await to the next.
  `AskLock` is the first poll of a lock future, after which the request has
  its place in the queue; the gap between releasing one guard and asking for
  the next is therefore real. `Cancel` drops a caller at any await.
* **RabbitDigger**. `state` is the number of the running instance or
  `WaitConfig`; each successful `build_entities` makes a new instance of `N`
  servers. `stop` goes through the servers in order, `join` through all at the
  same time (`FuturesUnordered`), `start` builds, stops, and starts its servers
  under the write lock. `start_stream` is a client whose join is dropped when
  the stream of configs yields.
* **ConnectionManager**. `phase` is the owner: between `Poll` and `InnerRead`
  lies the border inside `poll_read` at which the stop channel has been looked
  at and the inner stream has not. `stop` is the oneshot as the receiver sees
  it: a sender that is dropped completes it as well. Events are records on one
  channel; `input_event` is one action with a disjunct per event type. Read
  and Write also stand for RecvFrom and SendTo, since the table ignores the
  address.
* **TcpRelay**. A poll is `BeginPoll`, the steps of direction a, those of
  direction b, then `Sleep` or `Finish`. `wrapped` is the side with the
  `WrapTcpStream`: a in the proxy servers, b in forward and redir. `reg` holds the
  wakers left with each source, `wake` tells that one was called during the poll.
  Bytes are counted. A writer accepts `Room` units its peer has not read and shows
  them only after a flush or when it is full, and no more at a time than the
  `Window` of its transport: the worst case of a buffered stream, whose flush and
  shutdown then wait.
* **UdpRelay**. `cb` is `send_queue` and `recv_queue`; a packet is its number.
  `at` and `dir` say in which of the two inner loops (`fill`, `drain`) of which
  direction the poll is, `registered` is the local of that name. `bind` is the
  state of the `UdpConnector` with the socket its future has bound (`Opened`) or its
  error (`Failed`) before the next poll sees it. That poll runs the rest of the
  future, which sends the first packet (`Binded`), and the relay then sends it
  again; `sent` counts both, `done` what has left the queue. A socket that
  is bound already (`Lazy = FALSE`) starts as `Binded`.
* **UdpForward**. `conn` and `udp` are the two `LruCache`s, `task` the spawned
  sessions, `back` the shared `send_back` channel, `sendBuf` the packet in
  `send_buf`. A poll is `BeginPoll`, `RecvPacket` until the source is empty,
  then `TakeBack` and `SendBack` until the channel is empty or a socket full,
  then `EndPoll`. Dropping a `UdpConnection` (expiry, eviction, end) marks its
  task aborted; until the runtime drops it, it may still send back. Time passes
  only while the task sleeps. A session's relay is a FIFO each way, which is
  what `UdpRelay` is proved to be. Any peer may send to a session, asked or not.
* **NetGraph**. A frame of `stack` is a call of `get_net` or `build_server` that
  has not returned, `i` the `NetRef` it visits. `cache` is `net_cache` and then
  `nets`, `objs` the `RunningNet`s with the net each holds. `update_net` is one
  action: it runs under the write lock of the config. A request holds a clone
  of the net it is in (`via`), so that an update does not change what it
  calls next. `Fields` has the paths that `VisitorContext` gives to the `NetRef`s
  of a config, of one or several tokens. The definitions have names of their own
  (`GraphInit`, `GraphNext`, `GraphSpec`), because one module proves things of this
  module and of `RabbitDigger`.
* **NetResolution**. A request's `pc` is the net it is at. The look into the rule
  cache and the insertion are separate actions, as they are separate critical
  sections. `try` has the state of each attempt of happy eyeballs. `udp` is
  `UdpState`; a packet that waits in `Sending` is sent by a later poll. A UDP socket
  may have no source in its context, as in the forward server. A GeoIP
  database is a function, a DNS packet its queries and answers.
* **ProxyServer**. A client is a script of writes into its buffer, flushes and
  reads; the server goes from `pc` to `pc` by what it reads. A message of a
  protocol is one element of a stream, its first byte another one, because the
  mixed server peeks at it. `server.peeked` is the buffer of
  `PeekableTcpStream`. Addresses pass through the conversions of `Address` and
  `ra2sa`, `sa2ra`. hyper is abstracted to whole messages and, for the client,
  a read buffer that is dropped with what it holds. The relay itself is
  `TcpRelay`'s subject; here it moves one message at a time.
* **UdpChannel**. `socket` and `chan` have the `send_buf` that survives a poll
  that was not ready; `control` is the TCP connection of an association. `stray`
  is the first datagram of another sender in the client's socket: `poll_recv_from`
  goes on reading into the same buffer, so a reply that comes behind it is parsed
  with the stranger's header (`Receive`). The forward server answers from its own
  address (`Own`), whatever the reply's was.

Operators named as bugs (`SwappedNewEvents`, `JoinedAny`, ...) precede the
definition they distort; each shows that some property notices that bug.

## Runs

| Run | Question | Bounds |
|---|---|---|
| `ConnectionManager` | does the table follow two connections, with every unit accounted for, whatever the consumer lags? | 2 connections, 1 unit each way; two are enough for events of different connections to mix, one unit for a report to be pending at each point |
| `ConnectionManagerLive` | do stops and the draining loop take effect, when owners read and when one does not? | as above, no units |
| `TcpRelay` | is data copied exactly once, is no wakeup lost, and do ends of file, data, stops and reports get through? | 2 units from the peer of the wrapped stream and 1 from the other, the wrapped stream on either side, buffer and room 2, window 1: partial writes, full writers, refills, flushes and shutdowns that wait |
| `StopStalled` | does a stop end a relay whose peer does not read? *violated* | one direction |
| `UdpRelay` | is each direction a bounded FIFO pipe, is no wakeup lost, do packets arrive and does a stop end it? | buffers grow from 1 to 2 to 3, the last step cut by the maximum; 4 packets one way, so that a full queue is refilled, 2 the other; room 1; the socket binds at the first packet |
| `RunningServer` | are stop, join and take_result safe together, do stop and join return, and is the lifecycle implemented? | 3 callers: one holds a guard, one waits, one overtakes |
| `StartStream` | what does `start_stream` leave behind, does it come to its drain, and do readers get their turn? | 2 configs, 2 servers, a reader |
| `StopJoin` | does a stop end what it found, and who throws out an instance that runs, with concurrent start, stop, join and reads? | 2 clones and a reader, 2 builds, 1 server |
| `LateWrite` | is a replaced instance always stopped? *violated* | 2 clones, 2 builds |
| `NetGraph` | which configs are built, do updates keep config and nets together, is `net_list` the path? | all configs of 2 nets with up to 2 references each (by name, inline, missing, to themselves) and a server; 2 updates; 6 hops, enough to go round a circle that an update has closed |
| `NetResolution` | which rule, name and address does a request get, and does it connect? | 2 requests, 2 sources, 3 addresses, an IP, a name and an IPv6 spelt as a name, caches of one entry so that each request evicts the other's, 2 DNS packets, one with an alias; a time to live of 1 |
| `Servers` | do servers and clients agree on targets, bytes and replies, and does `forward_udp` keep its sessions? | 46 scenarios of entry, client and address; 2 messages each way; 2 datagrams, and a stranger's in between; for `forward_udp` 2 clients and a table of 1, so that they evict each other, 3 packets, 4 ticks with a time to live of 2, so that sessions expire, and a peer with a reserved address |

Deadlock is checked except where a system may stop: connections all closed, a
relay that is over, clients that have nothing left to call.

The two violated runs are disagreements between the code and what it says of
itself; `findings` in `PROJECT.json` quotes the lines:

1. `join` writes `WaitConfig` without looking again, over an instance another
   clone has started meanwhile; its servers run on, detached.
2. a stop is only noticed by `poll_read`; a relay stalled in a write never
   sees it.

More are visible in the models without a run of their own, since no doc or test
claims otherwise:

* `join` comes to its message "Failed to take result. This shouldn't happend"
  (`src/rabbit_digger.rs:138`) when `start_stream` has dropped a join that had
  taken one server's result;
* the final loop of `start_stream` (`src/rabbit_digger.rs:300`) ends while the
  `New` event of a connection waits on the channel, and does not end while an
  owner, such as a stalled relay, never looks at its connection again:
  `DrainTerminates` says that this is the only way;
* a join holds the read lock as long as its servers run
  (`src/rabbit_digger.rs:126`), so that one more writer in the queue shuts out a
  later stop;
* with the wrapped stream as side a, bytes that direction b counts after side a's
  read has taken the beat are reported only when something else wakes the relay:
  `RelaySettles` excepts this case by name (`Reported`);
* the first packet towards a `UdpConnector` is sent twice: `UdpPipe` allows it
  (`Ahead`) and no other repetition;
* the SOCKS5 client's UDP socket does not clear its buffer after a stranger's
  datagram (`socks5/client.rs:46`), so that the next reply gets the stranger's
  header: `DatagramsIntact` claims the source of the other replies only
  (`alone`);
* a session of `forward_udp` whose task has ended swallows packets until its client
  pauses (`forward_udp.rs:100`).

What the models of nets and servers show by their form, not by a property: an
update may
close a circle that a build would refuse; a UDP socket behind the rule net is
bound by the rule of its first packet; CONNECT is answered before the target is
dialled, so that a failed dial is a closed tunnel; an IPv6 authority without a
port gets no default port and is refused; a SOCKS5 association survives the
orderly close of its control connection; the client of an HTTP proxy loses what
the target sent together with the response. `StreamsIntact` states the last one
as far as it goes: what is missing is missing at the start.

## Fairness

Weak fairness stands for the tokio runtime, which polls every task that has been
woken: the consumer of the channel, the draining loop, callers inside `stop` and
`join`, and a relay that is awake. The heartbeat is a timer loop. An aborted or
returning task ends. A server is **not** assumed to return by itself, nor a user
to call anything. `StartStream` assumes that the stream of configs yields or
ends at last, and not that the draining loop ends: `StreamEnds` speaks of
coming there. `ConnectionManagerLive` assumes that an owner drops its connection
after an error and not that it goes on reading, which `connect_tcp` does not in
the stalled case (finding 2): `StopTakesEffect` and `DrainTerminates` have the
owner's reading as a condition. `TcpRelay` assumes peers that read what they are
shown, whatever faults, stops and ends of file come in between; `StopStalled`
is the same relay without that. `NetResolution` assumes that timers end and
that a peer which answers at all does so; a silent peer need never time out.
`NetGraph` and `Servers` need no fairness: `EveryoneServed` is stated of the
states in which neither end of a connection can go on.
`UdpRelay` assumes that the sinks drain, which for datagram sockets the kernel
does, and that the connector's future ends (a rule lookup, a bind and one send);
`CallsReturn` states of `join` that it returns once the server has returned or
was told to stop.

## Proofs

The proof modules use only the assumptions on constants stated in the modules
they extend: `MaxMove`, the number of servers `N` and of builds `MaxBuilds`
natural numbers; `Callers` any set; buffers at least one and at most the maximum;
`BufSize` positive, `Window` positive and at most `Room`; a session table with a positive capacity and time to
live, finitely many clients, and flows that belong to clients; the sniffer's time
to live and the capacities of both caches positive, `CnameLimit` a natural number,
and addresses, DNS answers, rules and the hosts file of the form their types give
them (`NetAssumption`: among others, a resolver knows no name that spells an IP
address, and the text of an IP address has no brackets). For the servers, texts of
different IP addresses differ and do not start with a bracket, and a port is not a
colon (`AddressAssumption`); what is asked for is an address, or for a page a text,
and a client talks to a server of its protocol (`ScenariosAssumption`,
`UdpAssumption`). For the graph of nets, configs have the form their types give
them, names of servers differ (they are the keys of a map), and what the build
makes up cannot be mistaken for what the user wrote (`GraphAssumption`): no net of a
config is called `net/...` or `server/...`, none has the placeholder's type, and no
path of a `NetRef` ends with the path of another. The last assumption is one the
code relies on without a check: `get_net` inserts a net given inline under
its generated name (`src/rabbit_digger.rs:537`) whatever is there, so that with a
net called `net/a/net` in the config the one would silently take the place of the
other; `PROJECT.json` lists it as a hazard. The results hold for any number of
connections, callers, servers, clients, buffers, packets, messages, rules, nets,
updates and requests.

`ConnectionManagerProofs`. None of the invariants is inductive alone: that a
connection is aborted only on request depends on the order of events still on
the channel and on which of them were handled. `IInv` adds, for each connection,
which events are on the channel in each phase (a New only before the entry
exists, a SetStopper only while the sender is in neither place, a CloseConnection
only after the drop) and that an armed stop channel has its sender in the
entry or on the channel. Lemmas on sequences say what appending a batch and
taking the head do to order and membership. Results: `TypeCorrect`,
`ChannelOrdered`, `TableTracks`, `AbortsAreAsked`, `ConnectionsAreStoppable`.

`RunningServerProofs`. `IInv` ties the lock to the callers' positions (the
guards out are those the positions imply, a queued request belongs to a caller at
the matching await, a writer excludes all others) and the cell to the callers
(who is past the semaphore has seen it closed; who holds the handle holds it
over a Running state; whoever has returned did so after the end of the task).
Results: `TypeCorrect`, `ReturnsAfterEnd`, `WriterNeverStuck`, `OneTaker`, and
`Implements`, the refinement of `ServerLifecycle`.

`UdpRelayProofs`. Lemmas say what `borrow_back`, `fill` and `pop_front` do to a
well-formed buffer: the bound on the buffers holds, and the packets held change
by none, one at the end, one at the front. `IInv` has three parts beside the
types. `Order`: the queue holds exactly the packets after the last delivered up
to the last read, which is what the refinement of `UdpPipe` needs. `Wakers`:
at each point of a poll, what it has left behind so far still stands (the source
is empty and holds a waker, the sink is full and holds one, or the connector's
future does), unless a waker has been called meanwhile; `NoLostWakeup` speaks
of sleep only and says nothing of the poll that leads there. `FirstInv`:
nothing is delivered before the socket is bound, so that the packet the connector
sends is number one and goes out first. Results: `TypeCorrect`, `NoWakeupLost`,
and `Implements`, the refinement of `UdpPipe`.

`TcpRelayProofs`. `CopiesAll` is inductive with the types; the rest is not.
`IInv` adds `FlushTracked` (what a writer has accepted and not shown is flushed
before the poll sleeps: `need_flush` is set whenever something is hidden),
`DoneComplete` (a direction that is shutting down or done has an empty buffer and
has read the end of file), `PollOrder` (direction b is only reached when a has
been polled) and `PendingIsParked`, which for each point inside the poll says what
a direction that returned `Pending` has left behind: a waker with an empty source,
with a full sink, or a wakeup that has come meanwhile. Results: `TypeCorrect`,
`CopiesExactly` (nothing lost, invented or reordered), `EndIsComplete` (the end of
file is passed on after the last byte) and `SleepIsSafe` (no lost wakeup).

`RabbitDiggerProofs`. `LockAccounted` ties the outer lock to the positions of the
clients as in `RunningServerProofs`; `GuardedView` says that what a client has
read under a guard it still holds is still so, the fact on which every later
step of `start` and `stop` relies; `StartProgress` says how many servers a
`start` has started by each of its steps. Results for any clients whatever:
`TypeCorrect`, `PublishedComplete` (an instance in the state has all its servers
started) and `InstanceStays` (the instance a client works on under its guard is
not replaced). `DropToStop` and `ExitMeansStopped` are false in general: the
`LateWrite` run is the counterexample, and for one `start_stream` alone the
`StartStream` run checks them. What holds for any number of clones is that the
counterexample is the only kind: `OnlyUnseenDisplaced` shows that an instance with a
server running leaves the state only through a join or start whose own join or stop
looked at another instance, or at none. `LookInv` carries it: a task
lives only in a server whose cell is `Running` (`AliveIsRunning`), nobody but the
start that built an instance knows of it before it is the state
(`FreshInstances`), and what a client has gone
through of the instance it looked at has stopped (`Looked`). From it also
`StreamLeavesState`: a `start_stream` that has returned did not leave its last
instance in the state.

The second half of `RabbitDiggerProofs` is about `NetGraph`. `ConfigDescribesNets`
speaks of a finished build only and says nothing of the recursion that leads
there. `GraphInv` therefore describes every moment of it. `NetsDescribed`: a net
in the cache has its config back in place, with the names of the nets that its
`RunningNet` holds. `PlacesHeld`: any other net of the config is as it was given,
or its placeholder is there and a call on the stack is building it.
`CallsAdvance`: a call has resolved its `NetRef`s up to the current one, and the
call above it is about that one. `CalledOnce`: no net has two calls, since the
second would have met the placeholder. `NamesFresh`: a generated name is in the
config only if the visit has met its field, so that moving an inline net never
overwrites anything; it rests on `GeneratedApart` (`from_iter`, `extend` and `join`
of `CompactVecString` keep kind, name and path apart). `Walking` follows a
request: its `net_list` is `Packed`, the starts of its strings lie in the buffer in
order, which `push` keeps (`Pushed`). Results: `NetsAsConfigured`, `NetListKept`,
`BuildsOnce` (the recursion never comes back to what it is building) and
`BuildHasNoCircle` (until the first update a `RunningNet` holds only nets that were
built before it).

`LruTimeCacheProofs`. Lemmas only. The cache is a sequence of entries, and its
operators cut it at the first fresh entry, take out a key, append and cut again
to the capacity; what those cuts leave is proved by the least-number principle
(`LeastNumber`), a first-order form of induction within reach of the provers. For
a well-formed cache (`CacheOK`: entries in the order of their times, one per
key, no more than the capacity) the lemmas say what `Get`, `Insert`, `Clear` and
the expiry return, which entries stay and which go, and that the cache is
well-formed again. For users that only care about what a cache may answer,
`Holds` is its set of key-value pairs and `Tidy` its being well-formed for some
keys and values: a lookup answers from `Holds`, `Get` adds nothing to it, `Insert`
one pair.

`ServersProofs`, part 1. About `ForwardSpec`, the forwarding task by itself;
`ServersForward` shows that the composition of the `Servers` run implements it, so
the theorems are about what the run checks. `IInv` has `TableIsLive` (an entry of
the table is a session that is not aborted and carries its client's number),
`SocketsBound` (a socket of `UdpSource` is bound to the address it is filed under,
the packet in `send_buf` included) and `WakersLeft` (as in the relays). Results:
`SessionsKept` (sessions that run and entries correspond: what leaves the table is
aborted), `RepliesReturn` (a reply goes to the client of its session, from the
address it came from),
`SleepIsSafe`, and the action property `UseKeepsSessions`: a session ends only
after its time to live of silence or because at least as many other clients as
the table has room for have been heard since. The last one counts: the
entries behind the victim are mapped one to one to clients.

`ServersProofs`, part 2. About `Spec` of `ProxyServer`, one connection, association
or channel; `ServersProxy` shows that the composition implements it. A scenario
fixes two streams, what the client's side will have written altogether (`Written`)
and what it will have been told (`Told`), and `TcpInv` places everything in them:
the client's buffer, what is on the way and the peeked bytes, and what the target
has are consecutive stretches of the first (`ClientFollows`, `UpFollows`,
`RemoteFollows`), and what is on the way back and what the user has are stretches of
the second, behind what the client has heard (`DownFollows`). Where each stretch
starts follows from the points at which client and server are, so that when the
server reads, the next element is the message it expects; that is what makes
`HandshakesAgree` and `StreamsIntact` hold for an eager client too, whose data
already lies behind the handshake in the same buffer. `OnCourse` bounds the
points that a scenario can reach, `DialsWanted` carries the target from the message
to the dial: lemmas on `Address` show that a text form parses back to its address,
normalised, with brackets and without, and that the SOCKS5 form does. For datagrams
`UdpInv` says that a `send_buf` that is not empty holds the very packet at the
front, packed (`BuffersCurrent`), that a packet is with its socket, on its way or
gone, once (`SentOnce`), and that an answer is on its way or arrived, once
(`AnsweredOnce`). Results: `TargetKept`, `StreamsKept`, `HandshakesSucceed`.

`NetResolutionProofs`. `IInv` has, beside types, three parts. `Stages`: for each
position of a request what its context and address are, and that from the rule
net on its rule is the first that matches its context. `RulesHold`: every pair
the rule cache holds is a context and the first rule for it, which is what makes
a hit as good as the search, and a race of two misses harmless. `SnifferHolds`:
every pair of `records` and of `cname_map` comes from a recorded answer. The
property speaks of the request's own source, name and address and not of the
context; `AppliesIsMatch` bridges the two, through the name's way into the context
as text and back (`TextBack`). The walk over aliases, the loop over the answers of
a packet, the filter by family and the interleaving are recursive functions;
`FiniteRecursion` (a recursion up to a number has a solution) and `StaysWithin`,
both from the least-number principle, give what each of them returns. On top of
`IInv`, `Arrivals` says of a UDP socket that it keeps the target of a packet until
the packet is out and starts the next from `Idle`, and of a connection that what it
may still dial are addresses of its name. Results: `FirstMatchDecides`,
`NamesWereAnswered`, `TargetsReached`.

Only model-checked, and why:

* everything that holds eventually: fairness is out of the prover's reach; and
  `EveryoneServed`, which speaks of ENABLED;
* `BytesAccounted` (sums over the events on the channel) and `BuildDecides` (a
  config is built exactly if the reference definition, a closure over the graph,
  says so): induction over data. Of the second, `BuildsOnce` and `BuildHasNoCircle`
  are proved: that the recursion meets no net twice, and that what was built has
  no circle;
* `DropToStop` and `ExitMeansStopped`: false with several clones; checked for one
  `start_stream`.

## Not modelled

* file and network I/O and parsing: loading the GeoIP database, reading and
  merging configs, DNS messages, HTTP on hyper, socket options and ancillary
  data of the transparent proxy;
* wrappers without a state of their own: TLS, alias, combine, echo, `dns`,
  `tcp_bind` of local (the first address that binds);
* code without a caller: `topological_sort` (its tests only);
* derive macros: code generation at compile time.

`components` in `PROJECT.json` has each part and its reason.

## Open ends

* `HttpClient`: how much of the stream's start is lost depends on hyper's reads;
  `StreamsIntact` says only that nothing else is;
* a UDP association together with the two directions of its relay: `UdpRelay` and
  `UdpChannel` are proved apart, the first over a bounded pipe, the second over
  sockets that are ready or not;
* `update_net` and circles: a request that goes round needs a limit in the code
  before there is something to prove.
