------------------------------ MODULE RabbitDigger ------------------------------
(***************************************************************************)
(* RabbitDigger of src/src/rabbit_digger.rs: the state WaitConfig or       *)
(* Running behind a tokio RwLock, and the clones of the handle on which    *)
(* start, stop, join and start_stream run concurrently.                    *)
(*                                                                         *)
(* Every successful build_entities makes a new instance: a set of servers, *)
(* each a ServerCell (RunningServer implements that lifecycle, so its      *)
(* inner lock is left out here).  The state is the number of the instance  *)
(* that runs, or WaitConfig.  Nets and the config text belong to other     *)
(* modules; the connections that start_stream drains at its end belong to  *)
(* ConnectionManager.                                                      *)
(***************************************************************************)
EXTENDS Integers, Sequences, FiniteSets, TokioRwLock, ServerCell

CONSTANTS
    Streams,        \* tasks that run start_stream
    Controllers,    \* tasks that call start, stop and join
    Stoppers,       \* tasks that call stop and join
    Readers,        \* tasks that call config, state_str, get_net, ...
    N,              \* servers per config, in the order of the BTreeMap
    MaxBuilds,      \* bound: successful builds
    MaxConfigs      \* bound: configs on the stream

ASSUME RabbitDiggerAssumption ==
    /\ N \in Nat
    /\ MaxBuilds \in Nat
    /\ MaxConfigs \in Nat

VARIABLES
    state,      \* WaitConfig or the running instance
    lock,       \* the RwLock around the state
    cell,       \* cell[i][s]: server s of instance i
    builds,     \* instances built so far
    pc,         \* where each task is
    op,         \* the call it is in
    mine,       \* the instance a start has built
    seen,       \* the instance a stop or join found
    at,         \* the server a stop or start has come to
    sub,        \* the progress of a join on each server
    configs     \* configs still to come from the stream

vars == <<state, lock, cell, builds, pc, op, mine, seen, at, sub, configs>>
locals == <<op, mine, seen, at, sub>>

-----------------------------------------------------------------------------
Clients == Streams \cup Controllers \cup Stoppers \cup Readers
Servers == 1..N
Instances == 1..MaxBuilds
WaitConfig == 0

\* Awaits at which a future can be dropped or wait for others.
JoinPoints == {"join_read", "join_servers", "join_write"}
Points == {"idle", "build", "stop_read", "stop_server", "stop_wait",
           "start_write", "start_servers", "select", "config", "read",
           "drain", "exited"} \cup JoinPoints

\* The guards that are out: stop and join work under a read guard, start under
\* a write guard.
Guards ==
    {[who |-> c, mode |-> "r"] : c \in {d \in Clients :
        pc[d] \in {"stop_server", "stop_wait", "join_servers"}}}
    \cup
    {[who |-> c, mode |-> "w"] : c \in {d \in Clients :
        pc[d] = "start_servers"}}

TypeOK ==
    /\ state \in {WaitConfig} \cup Instances
    /\ \A i \in 1..Len(lock.queue) :
         lock.queue[i] \in [who : Clients, mode : {"r", "w"}]
    /\ lock.held = Guards
    /\ cell \in [Instances -> [Servers -> Cell]]
    /\ builds \in 0..MaxBuilds
    /\ pc \in [Clients -> Points]
    /\ op \in [Clients -> {"none", "start", "stop", "join", "restart", "final"}]
    /\ mine \in [Clients -> 0..MaxBuilds]
    /\ seen \in [Clients -> 0..MaxBuilds]
    /\ at \in [Clients -> 1..(N + 1)]
    /\ sub \in [Clients -> [Servers -> {"join", "take", "done"}]]
    /\ configs \in 0..MaxConfigs

Init ==
    /\ state = WaitConfig
    /\ lock = FreeLock
    /\ cell = [i \in Instances |-> [s \in Servers |-> NewCell]]
    /\ builds = 0
    /\ pc = [c \in Clients |-> IF c \in Streams THEN "config" ELSE "idle"]
    /\ op = [c \in Clients |-> "none"]
    /\ mine = [c \in Clients |-> 0]
    /\ seen = [c \in Clients |-> 0]
    /\ at = [c \in Clients |-> 1]
    /\ sub = [c \in Clients |-> [s \in Servers |-> "done"]]
    /\ configs = MaxConfigs

Goto(c, l) == pc' = [pc EXCEPT ![c] = l]
Calls(c, o) == op' = [op EXCEPT ![c] = o]

\* Where a task asks for the lock, and how.
WritePoints == {"join_write", "start_write"}
LockPoints == {"stop_read", "join_read", "read"} \cup WritePoints

\* A task comes to an await of the lock.  Between the guard it gave back and
\* its place in the queue there is room for everybody else.
AskLock(c) ==
    /\ pc[c] \in LockPoints
    /\ ~IsWaiting(lock, c)
    /\ lock' = Wait(lock, c, IF pc[c] \in WritePoints THEN "w" ELSE "r")
    /\ UNCHANGED <<state, cell, builds, pc, locals, configs>>

\* With the lock as in k, go on to ask for it at l.
Await(c, k, l) == lock' = k /\ Goto(c, l)

-----------------------------------------------------------------------------
(* join: under the read lock, join and take_result of every server at the  *)
(* same time; then, the read lock released, the write lock.                *)

JoinRead(c) ==
    /\ pc[c] = "join_read" /\ CanAcquire(lock, c) /\ state # WaitConfig
    /\ lock' = Acquired(lock)
    /\ seen' = [seen EXCEPT ![c] = state]
    /\ sub' = [sub EXCEPT ![c] = [s \in Servers |-> "join"]]
    /\ Goto(c, "join_servers")
    /\ UNCHANGED <<state, cell, builds, op, mine, at, configs>>

\* A bug for the checks: the join of a server that runs returns at once.
JoinServerNoWait(c, s) ==
    /\ pc[c] = "join_servers" /\ sub[c][s] = "join"
    /\ sub' = [sub EXCEPT ![c][s] = "take"]
    /\ UNCHANGED <<state, lock, cell, builds, pc, op, mine, seen, at, configs>>

\* RunningServer::join of one server returns.
JoinServer(c, s) ==
    LET i == seen[c] IN
    /\ pc[c] = "join_servers" /\ sub[c][s] = "join"
    /\ \/ /\ CanCollect(cell[i][s])
          /\ cell' = [cell EXCEPT ![i][s] = Collected(@)]
       \/ /\ cell[i][s].st # "Running"
          /\ UNCHANGED cell
    /\ sub' = [sub EXCEPT ![c][s] = "take"]
    /\ UNCHANGED <<state, lock, builds, pc, op, mine, seen, at, configs>>

TakeResult(c, s) ==
    LET i == seen[c] IN
    /\ pc[c] = "join_servers" /\ sub[c][s] = "take"
    /\ IF cell[i][s].st = "Finished"
         THEN cell' = [cell EXCEPT ![i][s] = Taken(@)]
         ELSE UNCHANGED cell
    /\ sub' = [sub EXCEPT ![c][s] = "done"]
    /\ UNCHANGED <<state, lock, builds, pc, op, mine, seen, at, configs>>

\* A bug for the checks: the first server to end counts for all.
JoinedAny(c) ==
    /\ pc[c] = "join_servers"
    /\ \E s \in Servers : sub[c][s] = "done"
    /\ Await(c, Released(lock, c), "join_write")
    /\ UNCHANGED <<state, cell, builds, locals, configs>>

\* A bug for the checks: the read guard is kept while asking for the write
\* lock.
JoinedAllKeepsGuard(c) ==
    /\ pc[c] = "join_servers"
    /\ \A s \in Servers : sub[c][s] = "done"
    /\ Await(c, lock, "join_write")
    /\ UNCHANGED <<state, cell, builds, locals, configs>>

\* The race is over and the read guard goes with the match it is borrowed for.
JoinedAll(c) ==
    /\ pc[c] = "join_servers"
    /\ \A s \in Servers : sub[c][s] = "done"
    /\ Await(c, Released(lock, c), "join_write")
    /\ UNCHANGED <<state, cell, builds, locals, configs>>

\* What comes after a call of join, the last part of stop: start goes on to
\* its write lock, start_stream to its next step, a plain call returns.
AfterJoin(c, k) ==
    IF op[c] = "start" THEN Await(c, k, "start_write")
    ELSE /\ lock' = k
         /\ Goto(c, IF op[c] = "restart" THEN "build"
                    ELSE IF op[c] = "final" THEN "drain"
                    ELSE IF c \in Streams THEN "config" ELSE "idle")

JoinNothing(c) ==
    /\ pc[c] = "join_read" /\ CanAcquire(lock, c) /\ state = WaitConfig
    /\ AfterJoin(c, Released(Acquired(lock), c))
    /\ UNCHANGED <<state, cell, builds, locals, configs>>

\* The instance, whichever it is by now, is replaced by WaitConfig.
JoinWrite(c) ==
    /\ pc[c] = "join_write" /\ CanAcquire(lock, c)
    /\ state' = WaitConfig
    /\ AfterJoin(c, Released(Acquired(lock), c))
    /\ UNCHANGED <<cell, builds, locals, configs>>

-----------------------------------------------------------------------------
(* stop: under the read lock, stop of every server in turn; then join.     *)

StopRead(c) ==
    /\ pc[c] = "stop_read" /\ CanAcquire(lock, c)
    /\ IF state = WaitConfig
         THEN /\ Await(c, Released(Acquired(lock), c), "join_read")
              /\ UNCHANGED <<seen, at>>
         ELSE /\ lock' = Acquired(lock)
              /\ Goto(c, "stop_server")
              /\ seen' = [seen EXCEPT ![c] = state]
              /\ at' = [at EXCEPT ![c] = 1]
    /\ UNCHANGED <<state, cell, builds, op, mine, sub, configs>>

\* A bug for the checks: a server is waited for and not told to stop.
StopServerNoAbort(c) ==
    LET i == seen[c] s == at[c] IN
    /\ pc[c] = "stop_server" /\ s <= N
    /\ Goto(c, "stop_wait")
    /\ UNCHANGED <<cell, state, lock, builds, locals, configs>>

\* RunningServer::stop of the server at hand: tell a running one to stop.
StopServer(c) ==
    LET i == seen[c] s == at[c] IN
    /\ pc[c] = "stop_server" /\ s <= N
    /\ IF cell[i][s].st = "Running"
         THEN cell' = [cell EXCEPT ![i][s] = StopRequested(@)]
         ELSE UNCHANGED cell
    /\ Goto(c, "stop_wait")
    /\ UNCHANGED <<state, lock, builds, locals, configs>>

\* ... and the join in it returns.
StopWait(c) ==
    LET i == seen[c] s == at[c] IN
    /\ pc[c] = "stop_wait"
    /\ \/ /\ CanCollect(cell[i][s])
          /\ cell' = [cell EXCEPT ![i][s] = Collected(@)]
       \/ /\ cell[i][s].st # "Running"
          /\ UNCHANGED cell
    /\ at' = [at EXCEPT ![c] = @ + 1]
    /\ Goto(c, "stop_server")
    /\ UNCHANGED <<state, lock, builds, op, mine, seen, sub, configs>>

StoppedAll(c) ==
    /\ pc[c] = "stop_server" /\ at[c] = N + 1
    /\ Await(c, Released(lock, c), "join_read")
    /\ UNCHANGED <<state, cell, builds, locals, configs>>

-----------------------------------------------------------------------------
(* start: build, stop what runs, start the servers under the write lock.   *)

\* build_entities comes first: when it fails, nothing else has happened.
Build(c) ==
    /\ pc[c] = "build"
    /\ builds < MaxBuilds
    /\ builds' = builds + 1
    /\ mine' = [mine EXCEPT ![c] = builds + 1]
    /\ Calls(c, "start")
    /\ Await(c, lock, "stop_read")
    /\ UNCHANGED <<state, cell, seen, at, sub, configs>>

\* start returns the error; start_stream passes it on and is over.
BuildFails(c) ==
    /\ pc[c] = "build"
    /\ Goto(c, IF c \in Streams THEN "exited" ELSE "idle")
    /\ UNCHANGED <<state, lock, cell, builds, locals, configs>>

\* A bug for the checks: the state is set before the servers are started.
StartWriteEarly(c) ==
    /\ pc[c] = "start_write" /\ CanAcquire(lock, c)
    /\ state' = mine[c]
    /\ lock' = Released(Acquired(lock), c)
    /\ at' = [at EXCEPT ![c] = 1]
    /\ Goto(c, "start_servers")
    /\ UNCHANGED <<cell, builds, op, mine, seen, sub, configs>>

StartWrite(c) ==
    /\ pc[c] = "start_write" /\ CanAcquire(lock, c)
    /\ lock' = Acquired(lock)
    /\ at' = [at EXCEPT ![c] = 1]
    /\ Goto(c, "start_servers")
    /\ UNCHANGED <<state, cell, builds, op, mine, seen, sub, configs>>

\* RunningServer::start of the server at hand: nobody else knows it yet.
StartServer(c) ==
    /\ pc[c] = "start_servers" /\ at[c] <= N
    /\ cell' = [cell EXCEPT ![mine[c]][at[c]] = Published(Spawned(@))]
    /\ at' = [at EXCEPT ![c] = @ + 1]
    /\ UNCHANGED <<state, lock, builds, pc, op, mine, seen, sub, configs>>

\* The new instance replaces whatever the state is.  (The text of the config is
\* kept with it: to_string of a Config that was read as one does not fail.)
StartDone(c) ==
    /\ pc[c] = "start_servers" /\ at[c] = N + 1
    /\ state' = mine[c]
    /\ lock' = Released(lock, c)
    /\ Goto(c, IF c \in Streams THEN "select" ELSE "idle")
    /\ UNCHANGED <<cell, builds, locals, configs>>

-----------------------------------------------------------------------------
(* start_stream.                                                           *)

\* The first config, or none in 30 seconds, an error or the end of the stream.
FirstConfig(c) ==
    /\ pc[c] = "config" /\ op[c] = "none"
    /\ \/ configs > 0 /\ configs' = configs - 1 /\ Goto(c, "build")
       \/ Goto(c, "exited") /\ UNCHANGED configs
    /\ UNCHANGED <<state, lock, cell, builds, locals>>

\* try_select first polls self.join().
Select(c) ==
    /\ pc[c] = "select"
    /\ Calls(c, "join")
    /\ Await(c, lock, "join_read")
    /\ UNCHANGED <<state, cell, builds, mine, seen, at, sub, configs>>

\* A bug for the checks: a new config is started without a stop before it.
NoStopBeforeRestart(c) ==
    /\ c \in Streams /\ op[c] = "join"
    /\ pc[c] \in JoinPoints \cup {"config"}
    /\ IF configs > 0
         THEN /\ configs' = configs - 1
              /\ lock' = Forgotten(lock, c)
              /\ Goto(c, "build")
              /\ UNCHANGED op
         ELSE /\ UNCHANGED configs
              /\ Calls(c, "final")
              /\ Await(c, Forgotten(lock, c), "stop_read")
    /\ UNCHANGED <<state, cell, builds, mine, seen, at, sub>>

\* The stream yields a config, ends or fails, while the join is under way or
\* after it: the join is dropped, and stop is called in every case.
NextConfig(c) ==
    /\ c \in Streams /\ op[c] = "join"
    /\ pc[c] \in JoinPoints \cup {"config"}
    /\ \/ configs > 0 /\ configs' = configs - 1 /\ Calls(c, "restart")
       \/ UNCHANGED configs /\ Calls(c, "final")
    /\ Await(c, Forgotten(lock, c), "stop_read")
    /\ UNCHANGED <<state, cell, builds, mine, seen, at, sub>>

\* The connections are drained and start_stream returns: if ever, for the loop
\* ends with the last connection, and that is ConnectionManager's affair
\* (DrainTerminates).
Drained(c) ==
    /\ pc[c] = "drain"
    /\ Goto(c, "exited")
    /\ UNCHANGED <<state, lock, cell, builds, locals, configs>>

-----------------------------------------------------------------------------
(* Calls from outside, and the servers' tasks.                             *)

CallStart(c) ==
    /\ c \in Controllers /\ pc[c] = "idle" /\ builds < MaxBuilds
    /\ Calls(c, "start")
    /\ Goto(c, "build")
    /\ UNCHANGED <<state, lock, cell, builds, mine, seen, at, sub, configs>>

CallStop(c) ==
    /\ c \in Controllers \cup Stoppers /\ pc[c] = "idle"
    /\ Calls(c, "stop")
    /\ Await(c, lock, "stop_read")
    /\ UNCHANGED <<state, cell, builds, mine, seen, at, sub, configs>>

CallJoin(c) ==
    /\ c \in Controllers \cup Stoppers /\ pc[c] = "idle"
    /\ Calls(c, "join")
    /\ Await(c, lock, "join_read")
    /\ UNCHANGED <<state, cell, builds, mine, seen, at, sub, configs>>

\* config, state_str, is_running, get_net, get_id, get_config, update_net: a
\* short stay under the read lock.
CallRead(c) ==
    /\ c \in Readers /\ pc[c] = "idle"
    /\ Await(c, lock, "read")
    /\ UNCHANGED <<state, cell, builds, locals, configs>>

ReadDone(c) ==
    /\ pc[c] = "read" /\ CanAcquire(lock, c)
    /\ lock' = Released(Acquired(lock), c)
    /\ Goto(c, "idle")
    /\ UNCHANGED <<state, cell, builds, locals, configs>>

TaskStep(i, s, new) ==
    /\ cell' = [cell EXCEPT ![i][s] = new]
    /\ UNCHANGED <<state, lock, builds, pc, locals, configs>>

\* A server returns, with a result or an error.
TaskReturn(i, s) ==
    cell[i][s].task = "running" /\ TaskStep(i, s, Returning(cell[i][s]))

TaskEnd(i, s) ==
    /\ cell[i][s].task = "closing" \/ CanBeCancelled(cell[i][s])
    /\ TaskStep(i, s, Ended(cell[i][s]))

-----------------------------------------------------------------------------
Step(c) ==
    \/ AskLock(c)
    \/ JoinRead(c) \/ JoinNothing(c) \/ JoinedAll(c) \/ JoinWrite(c)
    \/ \E s \in Servers : JoinServer(c, s) \/ TakeResult(c, s)
    \/ StopRead(c) \/ StopServer(c) \/ StopWait(c) \/ StoppedAll(c)
    \/ Build(c) \/ BuildFails(c)
    \/ StartWrite(c) \/ StartServer(c) \/ StartDone(c)
    \/ Select(c) \/ ReadDone(c)

\* What happens when somebody outside wants it: a caller, the stream of configs,
\* the connections.
Call(c) ==
    CallStart(c) \/ CallStop(c) \/ CallJoin(c) \/ CallRead(c)
    \/ FirstConfig(c) \/ NextConfig(c) \/ Drained(c)

Next ==
    \/ \E c \in Clients : Step(c) \/ Call(c)
    \/ \E i \in Instances, s \in Servers : TaskReturn(i, s) \/ TaskEnd(i, s)

Spec == Init /\ [][Next]_vars

\* The runtime polls whoever is ready, an aborted task ends, and the stream of
\* configs ends or fails at last.  Nothing says that a server returns, or that
\* the connections of a stopped instance go away.
Fairness ==
    /\ \A c \in Clients : WF_vars(Step(c))
    /\ \A c \in Streams : WF_vars(FirstConfig(c)) /\ WF_vars(NextConfig(c))
    /\ \A i \in Instances, s \in Servers : WF_vars(TaskEnd(i, s))

FairSpec == Spec /\ Fairness

-----------------------------------------------------------------------------
(* Properties.                                                             *)

AliveServers(i) == {s \in Servers : Alive(cell[i][s])}

\* The instance a start is about to put into the state.
BeingStarted(i) ==
    \E c \in Clients : pc[c] = "start_servers" /\ mine[c] = i

\* "Start the server, drop to stop." (rd-interface/src/interface.rs:354): the
\* servers that run are those of the state; an instance that was replaced or
\* dropped has no server left running.
DropToStop ==
    \A i \in Instances :
      AliveServers(i) # {} => state = i \/ BeingStarted(i)

\* When start_stream returns, in good order or with an error, none of its
\* servers runs.
ExitMeansStopped ==
    \A c \in Streams :
      pc[c] = "exited" => \A i \in Instances : AliveServers(i) = {}

\* The state never shows an instance some server of which was not started.
RunningIsComplete ==
    state # WaitConfig => \A s \in Servers : cell[state][s].started

\* When the stream of configs ends or fails, start_stream gets through the stop
\* of what runs and comes to its last part, the drain of the connections, or
\* has returned an error: no lock, no server and no dropped join holds it up.
\* (Whether the drain ends is DrainTerminates, of ConnectionManager.)
StreamEnds == \A c \in Streams : <>(pc[c] \in {"drain", "exited"})

\* "Start the server, drop to stop." (rd-interface/src/interface.rs:354), with
\* any number of clones at work: whoever takes an instance out of the state
\* while one of its servers runs is a join or a start (JoinWrite, StartDone)
\* whose own join or stop last looked at another instance, or at none.
DisplacedStep ==
    \A i \in Instances :
      state = i /\ state' # i /\ AliveServers(i) # {}
        => \E c \in Clients : (JoinWrite(c) \/ StartDone(c)) /\ seen[c] # i
DisplacedUnseen == [][DisplacedStep]_vars

\* A stop that found an instance running makes the state give it up, however
\* many others stop, join, start or read at the same time.
StopEndsInstance ==
    \A c \in Clients, i \in Instances :
      pc[c] = "stop_server" /\ seen[c] = i ~> state # i

\* Nobody waits for the lock forever but behind a join of servers that go on
\* running: a reader gets its turn once a stop has been called.
ReaderReturns ==
    \A c \in Readers : pc[c] = "read" ~> pc[c] = "idle"
=============================================================================
