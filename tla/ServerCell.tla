------------------------------ MODULE ServerCell ------------------------------
(***************************************************************************)
(* One RunningServer (src/src/rabbit_digger/running.rs) as a value: the    *)
(* state cell of the server together with the task its handle refers to    *)
(* and the semaphore the task closes.  Each operator is what one effect of *)
(* start, stop, join, take_result or of the task does to the value.        *)
(***************************************************************************)

TaskStates == {"none", "running", "closing", "ended"}

Cell == [st : {"Idle", "Running", "Finished"},
         started : BOOLEAN,     \* history: start has returned
         task : TaskStates, abort : BOOLEAN, closed : BOOLEAN]

NewCell == [st |-> "Idle", started |-> FALSE,
            task |-> "none", abort |-> FALSE, closed |-> FALSE]

\* start: tokio::spawn, then the state is set to Running.
Spawned(c) == [c EXCEPT !.task = "running"]
Published(c) == [c EXCEPT !.st = "Running", !.started = TRUE]

\* The task: server_start returns and the semaphore is closed; the task ends.
Returning(c) == [c EXCEPT !.task = "closing", !.closed = TRUE]
Ended(c) == [c EXCEPT !.task = "ended"]

\* An aborted task ends at its next await, a panicking one at once; neither
\* closes the semaphore.
CanBeCancelled(c) == c.task = "running" /\ c.abort

\* stop: handle.abort() and semaphore.close().
StopRequested(c) == [c EXCEPT !.abort = TRUE, !.closed = TRUE]

\* join: the semaphore is closed and the handle yields the task's result.
CanCollect(c) == c.st = "Running" /\ c.closed /\ c.task = "ended"
Collected(c) == [c EXCEPT !.st = "Finished"]

\* take_result: Some of a finished server, which becomes idle.
Taken(c) == [c EXCEPT !.st = "Idle"]

Alive(c) == c.task \in {"running", "closing"}
=============================================================================
