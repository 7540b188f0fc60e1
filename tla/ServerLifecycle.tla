---------------------------- MODULE ServerLifecycle ----------------------------
(***************************************************************************)
(* What a RunningServer promises, with no lock in sight: it is started     *)
(* once, its result is collected only after its task has ended and by one  *)
(* caller, and is taken at most once.  RunningServer is shown to implement *)
(* this; RabbitDigger is built on it.                                      *)
(***************************************************************************)
EXTENDS ServerCell

VARIABLE cell

Spawn == cell = NewCell /\ cell' = Spawned(cell)

Publish ==
    /\ ~cell.started /\ cell.task # "none"
    /\ cell' = Published(cell)

TaskReturn == cell.task = "running" /\ cell' = Returning(cell)

TaskEnd ==
    /\ \/ cell.task = "closing"
       \/ cell.task = "running"
    /\ cell' = Ended(cell)

RequestStop == cell.st = "Running" /\ cell' = StopRequested(cell)

Collect == CanCollect(cell) /\ cell' = Collected(cell)

Take == cell.st = "Finished" /\ cell' = Taken(cell)

Next ==
    \/ Spawn \/ Publish \/ TaskReturn \/ TaskEnd
    \/ RequestStop \/ Collect \/ Take

Spec == cell = NewCell /\ [][Next]_cell
=============================================================================
