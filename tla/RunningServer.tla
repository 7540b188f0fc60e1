----------------------------- MODULE RunningServer -----------------------------
(***************************************************************************)
(* RunningServer of src/src/rabbit_digger/running.rs: a server task, the   *)
(* state cell behind a tokio RwLock, and callers of stop, join and         *)
(* take_result that interleave at every await.                             *)
(*                                                                         *)
(* As in RabbitDigger::start, start is called once, on an object nobody    *)
(* else has seen; afterwards any number of callers call stop, or join      *)
(* followed by take_result as RabbitDigger::join does, and may be dropped  *)
(* at any await (start_stream drops the join it races with a new config).  *)
(***************************************************************************)
EXTENDS Integers, Sequences, FiniteSets, TokioRwLock

CONSTANT Callers

VARIABLES
    st,         \* State::{Idle, Running, Finished}
    lock,       \* the RwLock around it
    task,       \* the spawned task
    abort,      \* handle.abort() was called
    closed,     \* the semaphore is closed
    starter,    \* where start is
    pc,         \* where each caller is
    op,         \* what it calls
    took        \* history: callers that take_result gave a result

vars == <<st, lock, task, abort, closed, starter, pc, op, took>>

-----------------------------------------------------------------------------
\* Points of stop, join and take_result at which a caller waits.
AwaitPoints == {"stop_read", "join_read", "semaphore", "join_write", "handle",
                "take_write"}

Request == [who : Callers, mode : {"r", "w"}]

\* The guards that are out: join keeps one while it waits for the semaphore,
\* and one while it awaits the handle.
Guards ==
    {[who |-> c, mode |-> "r"] : c \in {d \in Callers : pc[d] = "semaphore"}}
    \cup
    {[who |-> c, mode |-> "w"] : c \in {d \in Callers : pc[d] = "handle"}}

TypeOK ==
    /\ st \in {"Idle", "Running", "Finished"}
    /\ lock \in [queue : Seq(Request), held : SUBSET Request]
    /\ lock.held = Guards
    /\ task \in {"none", "running", "closing", "ended"}
    /\ abort \in BOOLEAN
    /\ closed \in BOOLEAN
    /\ starter \in {"spawn", "write", "returned"}
    /\ pc \in [Callers -> {"idle", "returned"} \cup AwaitPoints]
    /\ op \in [Callers -> {"none", "stop", "join"}]
    /\ took \subseteq Callers

Init ==
    /\ st = "Idle"
    /\ lock = FreeLock
    /\ task = "none"
    /\ abort = FALSE
    /\ closed = FALSE
    /\ starter = "spawn"
    /\ pc = [c \in Callers |-> "idle"]
    /\ op = [c \in Callers |-> "none"]
    /\ took = {}

-----------------------------------------------------------------------------
(* start: stop of an idle server does nothing; spawn; set the state.       *)

Spawn ==
    /\ starter = "spawn"
    /\ task' = "running"
    /\ starter' = "write"
    /\ UNCHANGED <<st, lock, abort, closed, pc, op, took>>

Publish ==
    /\ starter = "write"
    /\ st' = "Running"
    /\ starter' = "returned"
    /\ UNCHANGED <<lock, task, abort, closed, pc, op, took>>

(* The task.                                                               *)

\* server_start returns, with a result or an error, and s2.close().
TaskReturn ==
    /\ task = "running"
    /\ task' = "closing"
    /\ closed' = TRUE
    /\ UNCHANGED <<st, lock, abort, starter, pc, op, took>>

TaskEnd ==
    /\ task = "closing"
    /\ task' = "ended"
    /\ UNCHANGED <<st, lock, abort, closed, starter, pc, op, took>>

TaskCancelled ==
    /\ task = "running" /\ abort
    /\ task' = "ended"
    /\ UNCHANGED <<st, lock, abort, closed, starter, pc, op, took>>

\* The semaphore stays open.
TaskPanic ==
    /\ task = "running"
    /\ task' = "ended"
    /\ UNCHANGED <<st, lock, abort, closed, starter, pc, op, took>>

-----------------------------------------------------------------------------
(* The callers.  Goto ends a step at the next await or at the return.      *)

Goto(c, l) == pc' = [pc EXCEPT ![c] = l]

WritePoints == {"join_write", "take_write"}
LockPoints == {"stop_read", "join_read"} \cup WritePoints

\* A caller comes to an await of the lock.  Between the guard it gave back and
\* its place in the queue there is room for everybody else.
AskLock(c) ==
    /\ pc[c] \in LockPoints
    /\ ~IsWaiting(lock, c)
    /\ lock' = Wait(lock, c, IF pc[c] \in WritePoints THEN "w" ELSE "r")
    /\ UNCHANGED <<st, task, abort, closed, starter, pc, op, took>>

Call(c) ==
    /\ starter = "returned"
    /\ pc[c] \in {"idle", "returned"}
    /\ \/ /\ op' = [op EXCEPT ![c] = "stop"]
          /\ Goto(c, "stop_read")
       \/ /\ op' = [op EXCEPT ![c] = "join"]
          /\ Goto(c, "join_read")
    /\ UNCHANGED <<st, lock, task, abort, closed, starter, took>>

\* stop: under the read lock, abort the task and close the semaphore.
StopRead(c) ==
    /\ pc[c] = "stop_read" /\ CanAcquire(lock, c)
    /\ LET l == Released(Acquired(lock), c) IN
         IF st = "Running"
           THEN /\ abort' = TRUE
                /\ closed' = TRUE
                /\ lock' = l
                /\ Goto(c, "join_read")
           ELSE /\ lock' = l
                /\ Goto(c, "returned")
                /\ UNCHANGED <<abort, closed>>
    /\ UNCHANGED <<st, task, starter, op, took>>

\* join is over: RabbitDigger::join goes on with take_result.
AfterJoin(c, l) ==
    /\ lock' = l
    /\ Goto(c, IF op[c] = "join" THEN "take_write" ELSE "returned")

JoinRead(c) ==
    /\ pc[c] = "join_read" /\ CanAcquire(lock, c)
    /\ IF st = "Running"
         THEN lock' = Acquired(lock) /\ Goto(c, "semaphore")
         ELSE AfterJoin(c, Released(Acquired(lock), c))
    /\ UNCHANGED <<st, task, abort, closed, starter, op, took>>

\* A bug for the checks: the read guard is kept while waiting for the write
\* lock.
SemaphoreKeepsGuard(c) ==
    /\ pc[c] = "semaphore" /\ closed
    /\ Goto(c, "join_write")
    /\ UNCHANGED <<st, lock, task, abort, closed, starter, op, took>>

\* A bug for the checks: join goes straight for the handle.
SemaphoreIgnored(c) ==
    /\ pc[c] = "semaphore"
    /\ lock' = Released(lock, c)
    /\ Goto(c, "join_write")
    /\ UNCHANGED <<st, task, abort, closed, starter, op, took>>

\* acquire() fails once the semaphore is closed, and only then returns: it has
\* no permits.  The read guard, held so far, is dropped.
SemaphoreClosed(c) ==
    /\ pc[c] = "semaphore" /\ closed
    /\ lock' = Released(lock, c)
    /\ Goto(c, "join_write")
    /\ UNCHANGED <<st, task, abort, closed, starter, op, took>>

\* A bug for the checks: the state is not looked at again under the write lock.
JoinWriteUnchecked(c) ==
    /\ pc[c] = "join_write" /\ CanAcquire(lock, c)
    /\ lock' = Acquired(lock)
    /\ Goto(c, "handle")
    /\ UNCHANGED <<st, task, abort, closed, starter, op, took>>

JoinWrite(c) ==
    /\ pc[c] = "join_write" /\ CanAcquire(lock, c)
    /\ IF st = "Running"
         THEN lock' = Acquired(lock) /\ Goto(c, "handle")
         ELSE AfterJoin(c, Released(Acquired(lock), c))
    /\ UNCHANGED <<st, task, abort, closed, starter, op, took>>

\* A bug for the checks: the handle is not awaited.
HandleNotAwaited(c) ==
    /\ pc[c] = "handle"
    /\ st' = "Finished"
    /\ AfterJoin(c, Released(lock, c))
    /\ UNCHANGED <<task, abort, closed, starter, op, took>>

\* handle.await under the write lock.
HandleReady(c) ==
    /\ pc[c] = "handle" /\ task = "ended"
    /\ st' = "Finished"
    /\ AfterJoin(c, Released(lock, c))
    /\ UNCHANGED <<task, abort, closed, starter, op, took>>

\* A bug for the checks: the state stays Finished.
TakeResultKeeps(c) ==
    /\ pc[c] = "take_write" /\ CanAcquire(lock, c)
    /\ took' = IF st = "Finished" THEN took \cup {c} ELSE took
    /\ lock' = Released(Acquired(lock), c)
    /\ Goto(c, "returned")
    /\ UNCHANGED <<st, task, abort, closed, starter, op>>

\* take_result: only a Finished state has one to give, and becomes Idle.
TakeResult(c) ==
    /\ pc[c] = "take_write" /\ CanAcquire(lock, c)
    /\ IF st = "Finished"
         THEN st' = "Idle" /\ took' = took \cup {c}
         ELSE UNCHANGED <<st, took>>
    /\ lock' = Released(Acquired(lock), c)
    /\ Goto(c, "returned")
    /\ UNCHANGED <<task, abort, closed, starter, op>>

\* The caller's future is dropped at an await.
Cancel(c) ==
    /\ pc[c] \in AwaitPoints
    /\ lock' = Forgotten(lock, c)
    /\ Goto(c, "idle")
    /\ op' = [op EXCEPT ![c] = "none"]
    /\ UNCHANGED <<st, task, abort, closed, starter, took>>

Step(c) ==
    \/ AskLock(c)
    \/ StopRead(c) \/ JoinRead(c) \/ SemaphoreClosed(c) \/ JoinWrite(c)
    \/ HandleReady(c) \/ TakeResult(c)

-----------------------------------------------------------------------------
Start == Spawn \/ Publish
Task == TaskReturn \/ TaskEnd \/ TaskCancelled

Orderly == Start \/ Task \/ \E c \in Callers : Call(c) \/ Step(c) \/ Cancel(c)

Next == Orderly \/ TaskPanic

Spec == Init /\ [][Next]_vars

\* The runtime polls whoever is ready; an aborted or returning task ends, but
\* nothing says that a server returns by itself.
Fairness ==
    /\ WF_vars(Start)
    /\ WF_vars(TaskEnd) /\ WF_vars(TaskCancelled)
    /\ \A c \in Callers : WF_vars(Step(c))

FairSpec == Spec /\ Fairness

-----------------------------------------------------------------------------
(* Properties.                                                             *)

\* When stop or join returns, the task is over: no caller comes back early
\* because another one is in the middle of collecting the result.
ReturnMeansEnded ==
    \A c \in Callers : pc[c] \in {"returned", "take_write"} => task = "ended"

\* join awaits the handle under the write lock, which shuts everybody out,
\* stop included: that may only happen to a task that is about to end.
WriterWaitsForEndingTask ==
    \A c \in Callers :
      pc[c] = "handle" => task \in {"closing", "ended"} \/ abort

\* The result of the run is given out once, and until it is the state says so.
ResultTakenOnce ==
    /\ Cardinality(took) <= 1
    /\ starter = "returned" =>
         (st = "Idle" <=> took # {}) /\ (st = "Finished" => task = "ended")

\* The implementation of the lock-free lifecycle.
Lifecycle == INSTANCE ServerLifecycle WITH
    cell <- [st |-> st, started |-> starter = "returned", task |-> task,
             abort |-> abort, closed |-> closed]

\* RunningServer implements ServerLifecycle: whatever the callers do, the
\* shared state moves only in the atomic steps RabbitDigger relies on.
ImplementsLifecycle == Lifecycle!Spec

\* stop comes back, or is dropped, however many callers contend; so does a join
\* once the server has returned or a stop has been called (a server that panics
\* leaves the semaphore open, and join waits for a stop).
CallsReturn ==
    \A c \in Callers :
      /\ op[c] = "stop" ~> pc[c] \in {"idle", "returned"}
      /\ op[c] = "join" /\ (task = "closing" \/ (task = "ended" /\ closed))
           ~> pc[c] \in {"idle", "returned"}
=============================================================================
